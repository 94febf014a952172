------------------------------ MODULE MCConfig ------------------------------
(* Files and command lines for TLC: a few ways of configuring the signer   *)
(* or S3, each with up to two settings more, or changed.                   *)
EXTENDS Config, TLC

Reading == "namespace" :> "ns" @@ "core_grpc_addr" :> "grpc"
LocalFile == "signer.local.keyring_path" :> "nestedPath" @@ Reading
POPFile == "signer.mode" :> "popsigner" @@
           "signer.popsigner.key_id" :> "nestedID" @@ Reading
S3File == "fallback.enabled" :> "true" @@ "fallback.s3.bucket" :> "b" @@
          "fallback.s3.credential_type" :> "static" @@
          "fallback.s3.access_key_id" :> "id" @@
          "fallback.s3.access_key_secret" :> "secret" @@ LocalFile
AWSFile == "keyring_backend" :> "awskms" @@ "awskms.region" :> "eu" @@ Reading

Values ==
    "namespace" :> {"", "bad", "ns2"} @@ "bridge_addr" :> {""} @@
    "core_grpc_addr" :> {""} @@ "p2p_network" :> {""} @@
    "signer_mode" :> {"", "remote", "awskms", "vault"} @@
    "default_key_name" :> {"", "legacyKey"} @@
    "keyring_backend" :> {"", "file", "awskms"} @@
    "signer.mode" :> {"", "aws_kms", "gcp_kms"} @@
    "signer.local.key_name" :> {"", "nestedKey"} @@
    "signer.local.backend" :> {"os"} @@
    "signer.popsigner.api_key" :> {"nestedAPI"} @@
    "signer.popsigner.key_id" :> {""} @@
    "signer.aws_kms.region" :> {"us"} @@ "signer.aws_kms.key_id" :> {"arn"} @@
    "submission.timeout" :> {"", "soon"} @@
    "fallback.enabled" :> {"true"} @@ "fallback.mode" :> {"", "read", "both"} @@
    "fallback.provider" :> {"", "gcs"} @@ "fallback.s3.bucket" :> {"", "b"} @@
    "fallback.s3.credential_type" :> {"", "public", "iam", "vault"} @@
    "fallback.s3.access_key_id" :> {""} @@
    "fallback.s3.access_key_secret" :> {""}
Settings == UNION {{f :> v: v \in Values[f]}: f \in DOMAIN Values}

MCFiles ==
    {a @@ b @@ base: a \in Settings, b \in Settings,
                     base \in {LocalFile, POPFile, AWSFile, S3File}}

FlagValues ==
    "namespace" :> {"", "ns2"} @@ "bridge_addr" :> {""} @@
    "bridge_auth_token" :> {"token"} @@
    "core_grpc_addr" :> {"grpc"} @@ "signer_mode" :> {"local", "popsigner"} @@
    "keyring_path" :> {"flagPath"} @@ "default_key_name" :> {"", "flagKey"} @@
    "remote_signer_api_key" :> {"envkey"} @@
    "remote_signer_key_id" :> {"flagID"} @@
    "fallback.enabled" :> {"true", "false"} @@
    "fallback.mode" :> {"", "read_fallback"} @@
    "fallback.s3.bucket" :> {"flagBucket"} @@
    "fallback.s3.credential_type" :> {"", "static"} @@
    "fallback.s3.access_key_secret" :> {"flagSecret"}
FlagSettings == UNION {{f :> v: v \in FlagValues[f]}: f \in DOMAIN FlagValues}

\* the signer from the command line alone
LocalLine == "namespace" :> "ns" @@ "core_grpc_addr" :> "grpc" @@
             "keyring_path" :> "flagPath"
POPLine == "namespace" :> "ns" @@ "core_grpc_addr" :> "grpc" @@
           "signer_mode" :> "remote" @@ "remote_signer_key_id" :> "flagID" @@
           "remote_signer_api_key" :> "envkey"

MCTexts == STRING
MCNamespaces == {"ns", "ns2"}

MCLines ==
    {a @@ b: a \in FlagSettings,
             b \in {<<>>, "namespace" :> "ns", "fallback.enabled" :> "true"}}
    \cup {a @@ b: a \in FlagSettings, b \in {LocalLine, POPLine}}
=============================================================================
