\* abfs:// URLs.
CONSTANTS
    Paths <- MCPathsAbfs
    S3Secrets <- MCS3Secrets
    AzureSecrets <- MCAzureSecrets
    NoSecret = NoSecretValue
    NoSecretValue = NoSecretValue
SPECIFICATION Spec
CHECK_DEADLOCK FALSE
INVARIANT AzureAddressable
