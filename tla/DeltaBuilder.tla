---------------------------- MODULE DeltaBuilder ----------------------------
(***************************************************************************)
(* CreateBuilder (src/src/functions/delta_scan.cpp): the kernel engine     *)
(* builder for a table path.  A cloud URL is split into bucket and path by *)
(* its scheme, rewritten to a URL the kernel reads (cleaned_path), and the *)
(* secret DuckDB finds for it is turned into builder options.  Each call   *)
(* is independent; the state holds the last call's inputs and results.   *)
(* Strings are sequences of one-character strings; a secret's key that is *)
(* only tested for emptiness is a BOOLEAN, a value the code compares is   *)
(* kept.  An endpoint of an S3-like secret is [scheme, host].             *)
(***************************************************************************)
EXTENDS Naturals, Sequences, SequencesExt

CONSTANTS
    Paths,         \* table paths passed to delta_scan
    S3Secrets,     \* secret type ("s3", "gcs", "r2") -> secrets of that type
    AzureSecrets,  \* secrets of type "azure"
    NoSecret       \* LookupSecret found no match

VARIABLES
    path, secret, outcome, bucket, path_in_bucket, secret_type,
    cleaned_path, options   \* option name -> value, set_builder_option calls

vars == <<path, secret, outcome, bucket, path_in_bucket, secret_type,
          cleaned_path, options>>

Sep == <<":", "/", "/">>
S3 == <<"s", "3">> \o Sep
GCS == <<"g", "c", "s">> \o Sep
GS == <<"g", "s">> \o Sep
R2 == <<"r", "2">> \o Sep
AZURE == <<"a", "z", "u", "r", "e">> \o Sep
ABFSS == <<"a", "b", "f", "s", "s">> \o Sep
AZ == <<"a", "z">> \o Sep
ABFS == <<"a", "b", "f", "s">> \o Sep
Https == <<"h", "t", "t", "p", "s">> \o Sep

\* "devstoreaccount1" and "onelake", shortened.
Devstore == <<"d", "e", "v">>
Onelake == <<"o", "n", "e">>

NPOS == -1

\* string::find(c, pos), 0-based, NPOS when absent.
Find(s, c, pos) ==
    LET k == SelectInSubSeq(s, pos + 1, Len(s), LAMBDA x : x = c)
    IN IF k = 0 THEN NPOS ELSE k - 1

\* string::substr(pos, len); a negative len is end - start wrapped around
\* size_t, i.e. the rest of the string.
Substr(s, pos, len) ==
    SubSeq(s, pos + 1, IF len < 0 \/ pos + len > Len(s) THEN Len(s) ELSE pos + len)

HasInfix(t, s) == \E i \in 0..(Len(t) - Len(s)) : SubSeq(t, i + 1, i + Len(s)) = s

\* The branches of CreateBuilder: the offset find('/', .) starts at, the
\* offset the bucket is read from, and the secret type.
S3Branch == [prefix |-> S3, find |-> 5, from |-> 5, type |-> "s3"]
GcsBranch == [prefix |-> GCS, find |-> 6, from |-> 6, type |-> "gcs"]

\* A plausible bug: the gs:// branch looks up secrets of type "gs".
GsBranchTypo == [prefix |-> GS, find |-> 5, from |-> 5, type |-> "gs"]

GsBranch == [prefix |-> GS, find |-> 5, from |-> 5, type |-> "gcs"]
R2Branch == [prefix |-> R2, find |-> 5, from |-> 5, type |-> "r2"]
AzureBranch == [prefix |-> AZURE, find |-> 8, from |-> 8, type |-> "azure"]
AbfssBranch == [prefix |-> ABFSS, find |-> 8, from |-> 8, type |-> "azure"]
AzBranch == [prefix |-> AZ, find |-> 5, from |-> 5, type |-> "azure"]

\* abfs:// searches for the end of the container from 7 but reads the
\* container from 8.
AbfsBranch == [prefix |-> ABFS, find |-> 7, from |-> 8, type |-> "azure"]

\* The branches in the order CreateBuilder tests them.
Branch == <<S3Branch, GcsBranch, GsBranch, R2Branch, AzureBranch, AbfssBranch,
            AzBranch, AbfsBranch>>

IsRemote(p) == \E i \in DOMAIN Branch : IsPrefix(Branch[i].prefix, p)

BranchOf(p) == Branch[SelectInSeq(Branch, LAMBDA b : IsPrefix(b.prefix, p))]

EndOfContainer(p) == Find(p, "/", BranchOf(p).find)

\* A plausible bug: gcs:// is cut like the five-character schemes.
CleanedPathGcsAt5(p) ==
    IF IsPrefix(R2, p) \/ IsPrefix(GS, p) \/ IsPrefix(GCS, p)
    THEN S3 \o SubSeq(p, 6, Len(p))
    ELSE p

\* r2:// and gs:// become s3:// (substr(5)), gcs:// too (substr(6)).
CleanedPath(p) ==
    CASE IsPrefix(R2, p) \/ IsPrefix(GS, p) -> S3 \o SubSeq(p, 6, Len(p))
      [] IsPrefix(GCS, p) -> S3 \o SubSeq(p, 7, Len(p))
      [] OTHER -> p

NoEndpoint == [scheme |-> "", host |-> ""]
AwsDefault == [scheme |-> "", host |-> "s3.amazonaws.com"]
GoogleEndpoint == [scheme |-> "https", host |-> "storage.googleapis.com"]

Opt(cond, k, v) == IF cond THEN k :> v ELSE <<>>

Custom(s) == s.endpoint \notin {NoEndpoint, AwsDefault}

\* The endpoint given the scheme use_ssl selects when it has none.
SchemedEndpoint(s) ==
    IF s.endpoint.scheme = ""
    THEN [s.endpoint EXCEPT !.scheme = IF s.use_ssl THEN "https" ELSE "http"]
    ELSE s.endpoint

\* A plausible bug: allow_http decided on the endpoint before use_ssl gave
\* it a scheme.
AllowHttpBeforePrefix(s) == Custom(s) /\ s.endpoint.scheme = "http"

AllowHttp(s) == Custom(s) /\ SchemedEndpoint(s).scheme = "http"

\* The options of an s3, gcs or r2 secret: anonymous access without key id
\* and secret, a custom endpoint with its scheme (and allow_http for http),
\* Google's endpoint for gs:// and gcs:// otherwise, and the region.
S3Options(p, s) ==
    Opt(~s.key_id /\ ~s.secret, "skip_signature", "true")
    @@ Opt(s.key_id, "aws_access_key_id", "key_id")
    @@ Opt(s.secret, "aws_secret_access_key", "secret")
    @@ Opt(s.session_token, "aws_session_token", "session_token")
    @@ Opt(AllowHttp(s), "allow_http", "true")
    @@ Opt(Custom(s), "aws_endpoint", SchemedEndpoint(s))
    @@ Opt(~Custom(s) /\ (IsPrefix(GS, p) \/ IsPrefix(GCS, p)), "aws_endpoint", GoogleEndpoint)
    @@ ("aws_region" :> s.region)

ParseAccountNameFromEndpoint(e) ==
    LET dot == Find(e, ".", 8)
    IN IF ~IsPrefix(Https, e) \/ dot = NPOS THEN <<>> ELSE Substr(e, 8, dot - 8)

\* parseFromConnectionString: the first match of "key=([^;]+)(?=;|$)", the
\* value of the key or empty; a connection string is the record of the
\* values of the keys the code asks for.
ParseFromConnectionString(cs, key) == cs[key]

UseConnectionString(s) ==
    s.provider \notin {"access_token", "credential_chain"}
    /\ s.connection_string.text \notin {"", "NULL"}

KeyAuth(s) ==
    /\ UseConnectionString(s)
    /\ ParseFromConnectionString(s.connection_string, "AccountName") # <<>>
    /\ ParseFromConnectionString(s.connection_string, "AccountKey")

\* account_name after the connection string overwrote it.
AzureAccount(s) ==
    LET name == ParseFromConnectionString(s.connection_string, "AccountName")
    IN IF ~UseConnectionString(s) THEN s.account_name
       ELSE IF name # <<>> THEN name
       ELSE ParseAccountNameFromEndpoint(
                ParseFromConnectionString(s.connection_string, "BlobEndpoint"))

\* A plausible bug: the SAS branch does not take the connection string's
\* BlobEndpoint as the endpoint.
AzureEndpointSecretOnly(s) == s.endpoint

\* endpoint: the connection string's BlobEndpoint in the SAS branch.
AzureEndpoint(s) ==
    IF UseConnectionString(s) /\ ~KeyAuth(s)
    THEN ParseFromConnectionString(s.connection_string, "BlobEndpoint")
    ELSE s.endpoint

\* The options of an azure secret, by provider: access_token, then
\* credential_chain, then a connection string (account key when it names
\* account and key, else its SAS token, BlobEndpoint and the account name
\* parsed from that endpoint), then service_principal, else anonymous; the
\* emulator flag, the account, the endpoint and the container last.
AzureOptions(bk, s) ==
    LET cs == s.connection_string
        account == AzureAccount(s)
    IN Opt(s.account_name = Onelake, "use_fabric_endpoint", "true")
       @@ (CASE s.provider = "access_token" -> "bearer_token" :> "access_token"
             [] s.provider = "credential_chain" -> Opt(s.chain_cli, "use_azure_cli", "true")
             [] UseConnectionString(s) ->
                   IF KeyAuth(s) THEN "account_key" :> "key"
                   ELSE Opt(ParseFromConnectionString(cs, "SharedAccessSignature"),
                            "sas_token", "sas")
             [] s.provider = "service_principal" /\ ~UseConnectionString(s) ->
                   Opt(s.client_id, "azure_client_id", "id")
                   @@ Opt(s.client_secret, "azure_client_secret", "secret")
                   @@ Opt(s.tenant_id, "azure_tenant_id", "tenant")
             [] OTHER -> "azure_skip_signature" :> "true")
       @@ Opt(account = Devstore \/ (cs.text = "set" /\ (HasInfix(cs.AccountName, Devstore)
                                       \/ HasInfix(cs.BlobEndpoint, Devstore))),
              "use_emulator", "true")
       @@ Opt(account # <<>>, "account_name", account)
       @@ Opt(AzureEndpoint(s) # <<>>, "azure_endpoint", AzureEndpoint(s))
       @@ ("container_name" :> bk)

SecretsOf(t) ==
    IF t = "azure" THEN AzureSecrets
    ELSE IF t \in DOMAIN S3Secrets THEN S3Secrets[t] ELSE {}

\* One call per behaviour: the calls share no state.
Idle == outcome = "none"

Done(p, st, s, out, opts) ==
    LET e == EndOfContainer(p) IN
    /\ path' = p /\ secret' = s /\ outcome' = out /\ options' = opts
    /\ secret_type' = st /\ cleaned_path' = CleanedPath(p)
    /\ bucket' = Substr(p, BranchOf(p).from, e - BranchOf(p).from)
    /\ path_in_bucket' = SubSeq(p, e + 1, Len(p))

\* A path with none of the cloud prefixes: the default builder for it.
CreateBuilderLocal ==
    \E p \in Paths :
        /\ Idle
        /\ ~IsRemote(p)
        /\ path' = p /\ secret' = NoSecret /\ outcome' = "builder"
        /\ options' = <<>> /\ secret_type' = "" /\ cleaned_path' = p
        /\ bucket' = <<>> /\ path_in_bucket' = <<>>

\* A cloud URL without '/' after the container: IOException.
CreateBuilderInvalidUrl ==
    \E p \in Paths :
        /\ Idle
        /\ IsRemote(p) /\ EndOfContainer(p) = NPOS
        /\ path' = p /\ secret' = NoSecret /\ outcome' = "io_error"
        /\ options' = <<>> /\ secret_type' = BranchOf(p).type /\ cleaned_path' = <<>>
        /\ bucket' = <<>> /\ path_in_bucket' = <<>>

\* No secret matches: r2, gs and gcs throw NotImplemented, s3 and azure
\* URLs keep the builder for cleaned_path without options.
CreateBuilderNoSecret ==
    \E p \in Paths :
        /\ Idle
        /\ IsRemote(p) /\ EndOfContainer(p) # NPOS
        /\ Done(p, BranchOf(p).type, NoSecret,
                IF IsPrefix(R2, p) \/ IsPrefix(GS, p) \/ IsPrefix(GCS, p)
                THEN "not_implemented" ELSE "builder", <<>>)

CreateBuilderS3Secret ==
    \E p \in Paths :
        /\ Idle
        /\ IsRemote(p) /\ EndOfContainer(p) # NPOS /\ BranchOf(p).type # "azure"
        /\ \E s \in SecretsOf(BranchOf(p).type) :
              Done(p, BranchOf(p).type, s, "builder", S3Options(p, s))

\* An azure secret; the access_token provider without a token throws
\* InvalidInputException.
CreateBuilderAzureSecret ==
    \E p \in Paths :
        /\ Idle
        /\ IsRemote(p) /\ EndOfContainer(p) # NPOS /\ BranchOf(p).type = "azure"
        /\ \E s \in SecretsOf("azure") :
              LET bk == Substr(p, BranchOf(p).from, EndOfContainer(p) - BranchOf(p).from)
              IN IF s.provider = "access_token" /\ ~s.access_token
                 THEN Done(p, "azure", s, "invalid_input", <<>>)
                 ELSE Done(p, "azure", s, "builder", AzureOptions(bk, s))

Init ==
    /\ path = <<>> /\ secret = NoSecret /\ outcome = "none" /\ options = <<>>
    /\ secret_type = "" /\ cleaned_path = <<>> /\ bucket = <<>> /\ path_in_bucket = <<>>

Next ==
    \/ CreateBuilderLocal \/ CreateBuilderInvalidUrl \/ CreateBuilderNoSecret
    \/ CreateBuilderS3Secret \/ CreateBuilderAzureSecret

Spec == Init /\ [][Next]_vars

-----------------------------------------------------------------------------

TypeOK ==
    /\ path \in Paths \cup {<<>>}
    /\ outcome \in {"none", "builder", "io_error", "not_implemented", "invalid_input"}
    /\ secret_type \in {"", "s3", "gcs", "r2", "azure"}
    /\ secret \in {NoSecret} \cup SecretsOf(secret_type)

\* What the URL names, scheme aside: the container up to the first '/'
\* after "://", and the path from that '/' on.
SchemeEnd(p) == Find(p, ":", 0) + 3
UrlContainer(p) == Substr(p, SchemeEnd(p), Find(p, "/", SchemeEnd(p)) - SchemeEnd(p))
UrlKey(p) == SubSeq(p, Find(p, "/", SchemeEnd(p)) + 1, Len(p))

\* Every cloud URL handed to the kernel is one of the schemes the kernel's
\* object store reads (s3, az, azure, abfs, abfss), and names the same
\* container and object path as the URL the user gave: the r2/gs/gcs
\* rewrite of cleaned_path neither loses nor adds a character.
KernelUrlSameObject ==
    outcome = "builder" /\ IsRemote(path) =>
        /\ \E pre \in {S3, AZ, AZURE, ABFS, ABFSS} : IsPrefix(pre, cleaned_path)
        /\ UrlContainer(cleaned_path) = UrlContainer(path)
        /\ UrlKey(cleaned_path) = UrlKey(path)

\* Every gs, gcs or r2 URL reaches the kernel with an endpoint; an endpoint
\* the builder gets has a scheme (the secret's, else the one use_ssl
\* selects) and the secret's host (Google's when the secret names none or
\* AWS's), and allow_http is set exactly when that endpoint is http.
EndpointResolved ==
    outcome = "builder" /\ secret_type \in {"s3", "gcs", "r2"} =>
        LET has == "aws_endpoint" \in DOMAIN options
            ep == options["aws_endpoint"]
            e == secret.endpoint
        IN /\ secret_type # "s3" => has
           /\ has =>
                /\ ep.host = IF e \in {NoEndpoint, AwsDefault} THEN GoogleEndpoint.host ELSE e.host
                /\ ep.scheme = IF e \in {NoEndpoint, AwsDefault} THEN "https"
                               ELSE IF e.scheme # "" THEN e.scheme
                               ELSE IF secret.use_ssl THEN "https" ELSE "http"
           /\ ("allow_http" \in DOMAIN options) = (has /\ ep.scheme = "http")

\* A builder for an azure URL with a secret names the container the URL
\* names, and whenever it carries an account key or SAS token it also
\* carries what addresses the account: its name, an endpoint, or the
\* emulator flag.
AzureAddressable ==
    outcome = "builder" /\ secret_type = "azure" /\ secret # NoSecret =>
        /\ options["container_name"] = UrlContainer(path)
        /\ ({"account_key", "sas_token"} \cap DOMAIN options # {} =>
               {"account_name", "azure_endpoint", "use_emulator"} \cap DOMAIN options # {})

=============================================================================
