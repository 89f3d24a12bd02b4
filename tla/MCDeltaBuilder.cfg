\* Every scheme except abfs:// against every short body and every secret.
CONSTANTS
    Paths <- MCPaths
    S3Secrets <- MCS3Secrets
    AzureSecrets <- MCAzureSecrets
    NoSecret = NoSecretValue
    NoSecretValue = NoSecretValue
SPECIFICATION Spec
CHECK_DEADLOCK FALSE
INVARIANT TypeOK
INVARIANT KernelUrlSameObject
INVARIANT EndpointResolved
INVARIANT AzureAddressable
