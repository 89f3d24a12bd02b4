--------------------------- MODULE MCDeltaBuilder ---------------------------
EXTENDS DeltaBuilder

CONSTANT NoSecretValue

Http == <<"h", "t", "t", "p">> \o Sep

\* URLs of the given schemes with every body of up to three characters over
\* {a, /}: with and without a container, a path, a '/' after the scheme;
\* and two local paths.
PathsOf(prefixes) ==
    {pre \o b : pre \in prefixes, b \in BoundedSeq({"a", "/"}, 3)}
    \cup {<<"/", "a">>, <<"a">>}

MCPaths == PathsOf({S3, GCS, GS, R2, AZURE, ABFSS, AZ})
MCPathsAbfs == PathsOf({ABFS})

\* Endpoints an httpfs secret can carry: none, AWS's default, a host
\* without scheme, with https:// and with http://.
Endpoints(host) ==
    {NoEndpoint, AwsDefault} \cup {[scheme |-> sc, host |-> host] : sc \in {"", "https", "http"}}

S3Like(eps) ==
    [key_id : BOOLEAN, secret : BOOLEAN, session_token : BOOLEAN, region : {"r"},
     endpoint : eps, use_ssl : BOOLEAN]

\* r2 secrets always carry the account's r2 endpoint; gcs secrets default
\* to storage.googleapis.com.
MCS3Secrets ==
    [t \in {"s3", "gcs", "r2"} |->
        CASE t = "s3" -> S3Like(Endpoints("minio"))
          [] t = "gcs" -> S3Like(Endpoints("minio") \cup {[scheme |-> "", host |-> "storage.googleapis.com"]})
          [] t = "r2" -> S3Like({[scheme |-> "", host |-> "r2"]})]

NoCs == [text |-> "", AccountName |-> <<>>, AccountKey |-> FALSE, BlobEndpoint |-> <<>>,
         SharedAccessSignature |-> FALSE]

\* Connection strings: account and key; account and SAS; an https blob
\* endpoint with and without a dot, and an http one, with SAS; azurite's;
\* and the text NULL.
ConnectionStrings ==
    {NoCs, [NoCs EXCEPT !.text = "NULL"],
     [NoCs EXCEPT !.text = "set", !.AccountName = <<"a">>, !.AccountKey = TRUE],
     [NoCs EXCEPT !.text = "set", !.AccountName = <<"a">>, !.SharedAccessSignature = TRUE]}
    \cup {[NoCs EXCEPT !.text = "set", !.BlobEndpoint = e, !.SharedAccessSignature = TRUE] :
            e \in {Https \o <<"a", ".", "x">>, Https \o <<"a">>, Http \o <<"h", ".", "x">>}}
    \cup {[NoCs EXCEPT !.text = "set", !.AccountName = Devstore, !.AccountKey = TRUE,
           !.BlobEndpoint = Http \o <<"h", "/">> \o Devstore]}

NoAzure == [provider |-> "config", account_name |-> <<>>, access_token |-> FALSE,
            chain_cli |-> FALSE, connection_string |-> NoCs, endpoint |-> <<>>,
            client_id |-> FALSE, client_secret |-> FALSE, tenant_id |-> FALSE]

\* The secrets of the azure extension's providers: config (connection
\* string or account name), credential_chain, service_principal and
\* access_token, each with the keys that provider stores.
MCAzureSecrets ==
    {[NoAzure EXCEPT !.connection_string = cs, !.account_name = n] :
        cs \in ConnectionStrings, n \in {<<>>, <<"a">>, Onelake, Devstore}}
    \cup {[NoAzure EXCEPT !.provider = "credential_chain", !.chain_cli = c, !.account_name = n] :
            c \in BOOLEAN, n \in {<<"a">>, Onelake}}
    \cup {[NoAzure EXCEPT !.provider = "service_principal", !.account_name = <<"a">>,
           !.client_id = i, !.client_secret = cs, !.tenant_id = t] :
            i \in BOOLEAN, cs \in BOOLEAN, t \in BOOLEAN}
    \cup {[NoAzure EXCEPT !.provider = "access_token", !.account_name = <<"a">>,
           !.access_token = t] : t \in BOOLEAN}
=============================================================================
