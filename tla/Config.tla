------------------------------- MODULE Config -------------------------------
(***************************************************************************)
(* How StartDAServer gets from a TOML file and the command line to a       *)
(* Celestia client and a fallback provider: config_builder.go, config.go,  *)
(* flags.go and entrypoint.go of cmd/daserver, with the checks of the      *)
(* signer package.  A configuration is a function of its fields, each a    *)
(* string, "" where the code has its zero value.  A file or a command line *)
(* is a function of the fields it sets.  A flag that an environment        *)
(* variable sets counts as set.  The fields only handed on are left out,   *)
(* and the durations, sizes and priorities that Validate parses are one.   *)
(***************************************************************************)
CONSTANTS
    Texts,   \* the strings
    Files,   \* the TOML files, each a function of the fields it sets
    Lines,   \* the command lines, each a function of the flags it sets
    Namespaces, \* the strings that are 29 bytes in hexadecimal
    NoFile,  \* no --config flag
    NoTx,    \* no TxClientConfig, and the keyring of a store without one
    Refused, \* what a constructor returns with an error
    NoServer \* not constructed yet

\* the fields that have a flag, those only a file can set
Flags == {"namespace", "bridge_addr", "bridge_auth_token", "core_grpc_addr",
          "p2p_network",
          "signer_mode", "keyring_path", "default_key_name",
          "remote_signer_api_key", "remote_signer_key_id",
          "fallback.enabled", "fallback.provider", "fallback.mode",
          "fallback.s3.bucket", "fallback.s3.credential_type",
          "fallback.s3.access_key_id", "fallback.s3.access_key_secret"}
Legacy == {"keyring_backend", "awskms.region"}
Nested == {"signer.mode", "signer.local.backend",
           "signer.local.keyring_path", "signer.local.key_name",
           "signer.popsigner.api_key", "signer.popsigner.key_id",
           "signer.aws_kms.region", "signer.aws_kms.key_id"}
Fields == Flags \cup Legacy \cup Nested \cup {"submission.timeout"}

ASSUME TextsAssumption ==
    {"", "localhost", "mocha-5", "my_celes_key", "test", "60s", "true", "false",
     "s3", "both", "local", "popsigner", "aws_kms", "envkey"} \subseteq Texts
ASSUME NamespacesAssumption == Namespaces \subseteq Texts \ {""}
ASSUME FilesAssumption ==
    \A f \in Files: DOMAIN f \subseteq Fields /\ f \in [DOMAIN f -> Texts]
ASSUME LinesAssumption ==
    \A l \in Lines: DOMAIN l \subseteq Flags /\ l \in [DOMAIN l -> Texts]

\* the signer configurations, the keyrings and the S3 providers
Signers == [mode: Texts, backend: Texts, path: Texts, key: Texts,
            apiKey: Texts, keyID: Texts, region: Texts, kmsKey: Texts]
Keyrings == [mode: {"local"}, backend: Texts, path: Texts, key: Texts]
            \cup [mode: {"popsigner"}, apiKey: Texts, key: Texts]
            \cup [mode: {"aws_kms"}, region: Texts, key: Texts]
CredentialSets == {<<"anonymous">>, <<"chain">>} \cup (Texts \X Texts)
Providers == [bucket: Texts, credentials: CredentialSets]

ASSUME RefusedAssumption ==
    Refused \notin Keyrings \cup CredentialSets \cup Providers
ASSUME NoTxAssumption == NoTx \notin Signers \cup Keyrings
ASSUME NoServerAssumption == NoServer \notin Providers

VARIABLES
    file,   \* the TOML file, or NoFile
    flags,  \* the flags that are set
    env,    \* POPSIGNER_API_KEY
    stage,  \* how far StartDAServer is
    cfg,    \* the Config
    client, \* the RPCClientConfig the store is made from
    store,  \* the namespace and the keyring the store was made with
    server  \* the fallback provider and mode the server is made with

vars == <<file, flags, env, stage, cfg, client, store, server>>

(* The fields of f replace those of g.                                     *)
Over(f, g) == [x \in DOMAIN f \cup DOMAIN g |->
                  IF x \in DOMAIN f THEN f[x] ELSE g[x]]

DefaultConfig == [f \in Fields |->
    CASE f = "bridge_addr" -> "localhost"
      [] f = "p2p_network" -> "mocha-5"
      [] f = "signer.mode" -> "local"
      [] f \in {"keyring_backend", "signer.local.backend"} -> "test"
      [] f \in {"default_key_name", "signer.local.key_name"} -> "my_celes_key"
      [] f = "submission.timeout" -> "60s"
      [] f = "fallback.enabled" -> "false"
      [] f = "fallback.provider" -> "s3"
      [] f = "fallback.mode" -> "both"
      [] OTHER -> ""]

\* the values of the flags that are not set
FlagDefaults == [f \in Flags |->
    CASE f = "bridge_addr" -> "localhost"
      [] f = "p2p_network" -> "mocha-5"
      [] f = "signer_mode" -> "local"
      [] f = "default_key_name" -> "my_celes_key"
      [] f = "fallback.enabled" -> "false"
      [] f = "fallback.provider" -> "s3"
      [] f = "fallback.mode" -> "both"
      [] OTHER -> ""]
Flag(f) == Over(flags, FlagDefaults)[f]

firstNonEmpty(a, b) == IF a # "" THEN a ELSE b
Modes == {"write_through", "read_fallback", "both"}

-----------------------------------------------------------------------------
(* The signer                                                              *)

\* the names signer_mode had before the signer package
Renamed(mode) == CASE mode = "remote" -> "popsigner"
                   [] mode = "awskms" -> "aws_kms"
                   [] OTHER -> mode

(* Legacy fields that are not empty replace the nested ones; the legacy    *)
(* keyring backend "awskms" replaces every mode.                           *)
buildSignerConfig_NestedFirst(c) ==
    [mode |-> firstNonEmpty(c["signer.mode"], Renamed(c["signer_mode"])),
     backend |-> firstNonEmpty(c["signer.local.backend"], c["keyring_backend"]),
     path |-> firstNonEmpty(c["signer.local.keyring_path"], c["keyring_path"]),
     key |-> firstNonEmpty(c["signer.local.key_name"], c["default_key_name"]),
     apiKey |-> firstNonEmpty(c["signer.popsigner.api_key"], env),
     keyID |-> firstNonEmpty(c["signer.popsigner.key_id"],
                             c["remote_signer_key_id"]),
     region |-> firstNonEmpty(c["signer.aws_kms.region"], c["awskms.region"]),
     kmsKey |-> c["signer.aws_kms.key_id"]]
buildSignerConfig(c) ==
    LET mode == IF c["keyring_backend"] = "awskms" THEN "aws_kms"
                ELSE firstNonEmpty(Renamed(c["signer_mode"]), c["signer.mode"])
        backend == IF c["keyring_backend"] = "awskms" THEN ""
                   ELSE c["keyring_backend"]
        key == firstNonEmpty(c["default_key_name"], c["signer.local.key_name"])
        kmsKey == c["signer.aws_kms.key_id"]
        apiKey == firstNonEmpty(c["remote_signer_api_key"],
                                c["signer.popsigner.api_key"])
    IN  [mode |-> mode,
         backend |-> firstNonEmpty(backend, c["signer.local.backend"]),
         path |-> firstNonEmpty(c["keyring_path"],
                                c["signer.local.keyring_path"]),
         key |-> key,
         apiKey |-> firstNonEmpty(apiKey, env),
         keyID |-> firstNonEmpty(c["remote_signer_key_id"],
                                 c["signer.popsigner.key_id"]),
         region |-> firstNonEmpty(c["awskms.region"],
                                  c["signer.aws_kms.region"]),
         kmsKey |-> IF mode = "aws_kms" THEN firstNonEmpty(kmsKey, key)
                    ELSE kmsKey]

(* CLIConfig.buildSignerConfig of flags.go.                                *)
cliSignerConfig ==
    [mode |-> firstNonEmpty(Renamed(Flag("signer_mode")), "local"),
     backend |-> "test",
     path |-> Flag("keyring_path"),
     key |-> firstNonEmpty(Flag("default_key_name"), "my_celes_key"),
     apiKey |-> firstNonEmpty(Flag("remote_signer_api_key"), env),
     keyID |-> Flag("remote_signer_key_id"),
     region |-> "",
     kmsKey |-> ""]

(* signer.Config.Validate.                                                 *)
SignerValid_KeyIDUnchecked(s) ==
    \/ s.mode = "local" /\ s.path # "" /\ s.key # ""
    \/ s.mode = "popsigner" /\ (s.apiKey # "" \/ env # "")
    \/ s.mode = "aws_kms" /\ s.region # "" /\ (s.kmsKey # "" \/ s.key # "")
    \/ s.mode = "" /\ s.path # ""
SignerValid(s) ==
    \/ s.mode = "local" /\ s.path # "" /\ s.key # ""
    \/ s.mode = "popsigner" /\ s.keyID # "" /\ (s.apiKey # "" \/ env # "")
    \/ s.mode = "aws_kms" /\ s.region # "" /\ (s.kmsKey # "" \/ s.key # "")
    \/ s.mode = "" /\ s.path # ""

(* The keyrings of the signer package.  NewKeyring takes the empty mode for *)
(* local; each keyring makes checks of its own.                            *)
NewLocalKeyring(s) ==
    IF s.path = "" \/ s.key = "" THEN Refused
    ELSE [mode |-> "local", backend |-> firstNonEmpty(s.backend, "test"),
          path |-> s.path, key |-> s.key]

NewPOPSignerKeyring(s) ==
    LET apiKey == firstNonEmpty(s.apiKey, env)
    IN  IF apiKey = "" \/ s.keyID = "" THEN Refused
        ELSE [mode |-> "popsigner", apiKey |-> apiKey, key |-> s.keyID]

NewAWSKMSKeyring(s) ==
    LET key == firstNonEmpty(s.kmsKey, s.key)
    IN  IF s.region = "" \/ key = "" THEN Refused
        ELSE [mode |-> "aws_kms", region |-> s.region, key |-> key]

NewKeyring(s) == CASE s.mode \in {"", "local"} -> NewLocalKeyring(s)
                   [] s.mode = "popsigner" -> NewPOPSignerKeyring(s)
                   [] s.mode = "aws_kms" -> NewAWSKMSKeyring(s)
                   [] OTHER -> Refused

-----------------------------------------------------------------------------
(* The configuration as a whole                                            *)

(* "60s" stands for what time.ParseDuration accepts.                       *)
Valid_SignerUnchecked(c) ==
    /\ c["namespace"] \in Namespaces
    /\ c["submission.timeout"] \in {"", "60s"}
    /\ c["core_grpc_addr"] # "" => c["p2p_network"] # ""
    /\ c["fallback.mode"] \in Modes \cup {""}
Valid_ModeUnchecked(c) ==
    /\ c["namespace"] \in Namespaces
    /\ c["submission.timeout"] \in {"", "60s"}
    /\ c["core_grpc_addr"] # "" => /\ SignerValid(buildSignerConfig(c))
                                   /\ c["p2p_network"] # ""
Valid(c) ==
    /\ c["namespace"] \in Namespaces
    /\ c["submission.timeout"] \in {"", "60s"}
    /\ c["core_grpc_addr"] # "" => /\ SignerValid(buildSignerConfig(c))
                                   /\ c["p2p_network"] # ""
    /\ c["fallback.mode"] \in Modes \cup {""}

(* TxClientEnabled: an invalid signer disables the TX client.              *)
Tx(grpc, s) == IF grpc # "" /\ SignerValid(s) THEN s ELSE NoTx

ToCelestiaRPCConfig(c) ==
    [url |-> c["bridge_addr"], namespace |-> c["namespace"],
     tx |-> Tx(c["core_grpc_addr"], buildSignerConfig(c))]

(* CLIConfig.CelestiaConfig, made of the flags alone.                      *)
CelestiaConfig ==
    [url |-> Flag("bridge_addr"), namespace |-> Flag("namespace"),
     tx |-> Tx(Flag("core_grpc_addr"), cliSignerConfig)]

-----------------------------------------------------------------------------

Init ==
    /\ file \in Files \cup {NoFile}
    /\ flags \in Lines
    \* the variable also sets the flag
    /\ env \in {"", "envkey"}
    /\ env # "" => "remote_signer_api_key" \in DOMAIN flags
    /\ stage = "start"
    /\ cfg = DefaultConfig
    /\ client = NoServer
    /\ store = NoServer
    /\ server = NoServer

Goto(from, to) == stage = from /\ stage' = to
Inputs == <<file, flags, env>>

(* StartDAServer returns an error: a missing namespace flag, an unreadable *)
(* file, and any failure of what NewCelestiaStore and NewS3Provider call.  *)
Fail ==
    /\ stage \in {"start", "client", "store"}
    /\ stage = "start" =>
           file # NoFile \/ "namespace" \notin DOMAIN flags
    /\ stage' = "failed"
    /\ UNCHANGED <<Inputs, cfg, client, store, server>>

LoadConfigFromFile(f) == Over(f, DefaultConfig)

(* BuildConfigFromCLI: the file over the defaults, the flags over both.    *)
BuildConfig ==
    /\ Goto("start", "built")
    /\ file # NoFile \/ "namespace" \in DOMAIN flags
    /\ cfg' = Over(flags, IF file = NoFile THEN DefaultConfig
                          ELSE LoadConfigFromFile(file))
    /\ UNCHANGED <<Inputs, client, store, server>>

Validate ==
    /\ Goto("built", IF Valid(cfg) THEN "valid" ELSE "failed")
    /\ UNCHANGED <<Inputs, cfg, client, store, server>>

(* Without a bridge address the whole client configuration is taken from   *)
(* the command line, if one of its three settings is there.  What has      *)
(* neither an address nor a namespace is refused here in the code, and in  *)
(* the model by NewStore.                                                  *)
CelestiaRPCClientEnabled ==
    \E f \in {"bridge_addr", "bridge_auth_token", "namespace"}: Flag(f) # ""
ChooseClient ==
    /\ Goto("valid", "client")
    /\ client' =
           IF cfg["bridge_addr"] = "" /\ CelestiaRPCClientEnabled
           THEN CelestiaConfig
           ELSE ToCelestiaRPCConfig(cfg)
    /\ UNCHANGED <<Inputs, cfg, store, server>>

(* NewCelestiaStore: the client signs with a keyring of its own, or leaves *)
(* that to the bridge node.                                                *)
initTxClient == NewKeyring(client.tx)
initRPCClient == NoTx
MakeStore == /\ store' = [namespace |-> client.namespace,
                          keyring |-> IF client.tx # NoTx THEN initTxClient
                                      ELSE initRPCClient]
             /\ store'.keyring # Refused
             /\ UNCHANGED <<Inputs, cfg, client, server>>

NewStore_NamespaceUnchecked == Goto("client", "store") /\ MakeStore
NewStore == Goto("client", "store") /\ client.namespace \in Namespaces /\ MakeStore

FallbackEnabled ==
    cfg["fallback.enabled"] = "true" \/ Flag("fallback.enabled") = "true"
(* The first of the file's setting under the flag's, and the flag's own.   *)
Either(f) == firstNonEmpty(cfg[f], Flag(f))

(* NewS3Provider's credentials: a key pair, the AWS SDK's default chain, or *)
(* none.                                                                   *)
Credentials(type, id, secret) ==
    CASE type = "static" ->
             IF id = "" \/ secret = "" THEN Refused ELSE <<id, secret>>
      [] type \in {"anonymous", "public"} -> <<"anonymous">>
      [] type \in {"environment", "iam", ""} ->
             IF id # "" /\ secret # "" THEN <<id, secret>> ELSE <<"chain">>
      [] OTHER -> Refused

NewS3Provider ==
    LET credentials == Credentials(Either("fallback.s3.credential_type"),
                                   Either("fallback.s3.access_key_id"),
                                   Either("fallback.s3.access_key_secret"))
        bucket == Either("fallback.s3.bucket")
    IN  IF bucket = "" \/ credentials = Refused THEN Refused
        ELSE [bucket |-> bucket, credentials |-> credentials]

NewServer_ProviderUnchecked ==
    /\ Goto("store", "ready")
    /\ server' = [mode |-> Either("fallback.mode"),
                  provider |-> IF /\ FallbackEnabled
                                  /\ Either("fallback.provider") = "s3"
                               THEN NewS3Provider ELSE NoServer]
    /\ server'.provider # Refused
    /\ UNCHANGED <<Inputs, cfg, client, store>>
NewServer ==
    /\ Goto("store", "ready")
    /\ FallbackEnabled => Either("fallback.provider") = "s3"
    /\ server' = [mode |-> Either("fallback.mode"),
                  provider |-> IF FallbackEnabled THEN NewS3Provider
                               ELSE NoServer]
    /\ server'.provider # Refused
    /\ UNCHANGED <<Inputs, cfg, client, store>>

Next == Fail \/ BuildConfig \/ Validate \/ ChooseClient \/ NewStore \/ NewServer

Spec == Init /\ [][Next]_vars
-----------------------------------------------------------------------------
(* Properties                                                              *)

Chosen == stage \in {"client", "store", "ready"}
FromCLIAlone == cfg["bridge_addr"] = ""
Asked(f) == IF f \in DOMAIN flags THEN flags[f]
            ELSE IF file # NoFile /\ f \in DOMAIN file THEN file[f]
            ELSE DefaultConfig[f]

TypeOK ==
    /\ file # NoFile => file \in [DOMAIN file -> Texts] /\ DOMAIN file \subseteq Fields
    /\ flags \in [DOMAIN flags -> Texts] /\ DOMAIN flags \subseteq Flags
    /\ env \in {"", "envkey"}
    /\ stage \in {"start", "built", "valid", "client", "store", "ready",
                  "failed"}
    /\ cfg \in [Fields -> Texts]
    /\ Chosen => client \in [url: Texts, namespace: Texts,
                             tx: Signers \cup {NoTx}]
    /\ stage \in {"store", "ready"} =>
           store \in [namespace: Texts, keyring: Keyrings \cup {NoTx}]
    /\ stage = "ready" => server \in [mode: Modes \cup {""},
                                      provider: Providers \cup {NoServer}]

(* A signer that passed validation is one NewKeyring has the settings for: *)
(* the two lists of checks, in signer/config.go and in the keyrings, agree *)
(* but for the empty mode, where Validate does not ask for a key name.     *)
ValidSignerAccepted ==
    Chosen /\ client.tx # NoTx =>
        NewKeyring(client.tx) # Refused \/ client.tx.mode = ""

(* With a CoreGRPC address and a bridge address, the store signs and sends *)
(* its own transactions with the signer that was validated: it never falls *)
(* back to the bridge node's account, although TxClientEnabled would let   *)
(* an invalid signer pass for a disabled one.                              *)
WritesAreSigned ==
    /\ stage \in {"store", "ready"}
    /\ cfg["core_grpc_addr"] # "" /\ ~FromCLIAlone
    =>
        /\ store.keyring # NoTx
        /\ store.keyring = NewKeyring(buildSignerConfig(cfg))

(* The namespace that is validated is the one the store uses, also when    *)
(* the client is configured from the command line alone.                   *)
NamespaceKept == stage = "ready" => store.namespace = cfg["namespace"]

(* A signer mode given on the command line is the mode, whatever the file  *)
(* says, unless the file's keyring_backend is "awskms": then it is aws_kms, *)
(* except for a client of the command line alone.  In each mode the        *)
(* settings given there are used, except that in aws_kms mode a key ID in  *)
(* the file goes before the key name.                                      *)
SignerFlagsWin ==
    stage \in {"store", "ready"} /\ store.keyring # NoTx =>
        LET given(f) == f \in DOMAIN flags /\ flags[f] # ""
            kms == /\ cfg["keyring_backend"] = "awskms"
                   /\ ~(FromCLIAlone /\ CelestiaRPCClientEnabled)
            mode == store.keyring.mode
        IN  /\ given("signer_mode") \/ kms =>
                   mode = IF kms THEN "aws_kms" ELSE Renamed(flags["signer_mode"])
            /\ mode = "local" =>
                   /\ given("keyring_path") =>
                          store.keyring.path = flags["keyring_path"]
                   /\ given("default_key_name") =>
                          store.keyring.key = flags["default_key_name"]
            /\ mode = "popsigner" =>
                   /\ given("remote_signer_api_key") =>
                          store.keyring.apiKey = flags["remote_signer_api_key"]
                   /\ given("remote_signer_key_id") =>
                          store.keyring.key = flags["remote_signer_key_id"]
            /\ mode = "aws_kms" =>
                   LET arn == cfg["signer.aws_kms.key_id"]
                   IN  /\ arn # "" => store.keyring.key = arn
                       /\ arn = "" /\ given("default_key_name") =>
                              store.keyring.key = flags["default_key_name"]

(* The fallback is on exactly if the operator asked for it, the command    *)
(* line first; then it has a bucket, and the mode asked for, if any.       *)
FallbackAsAsked ==
    stage = "ready" =>
        /\ server.provider # NoServer <=> Asked("fallback.enabled") = "true"
        /\ server.provider # NoServer => server.provider.bucket # ""
        /\ Asked("fallback.mode") # "" => server.mode = Asked("fallback.mode")

(* config.go:272, "Migrate legacy fields if they are set": the nested keys *)
(* of a file that sets no legacy field are used.  DefaultConfig sets two   *)
(* legacy fields itself, and they replace the nested ones.                 *)
LegacyOnlyIfSet ==
    Chosen /\ client.tx # NoTx /\ ~FromCLIAlone /\ file # NoFile =>
        \A pair \in {<<"signer.local.key_name", "default_key_name", "key">>,
                     <<"signer.local.backend", "keyring_backend", "backend">>}:
            pair[1] \in DOMAIN file /\ pair[2] \notin DOMAIN file \cup DOMAIN flags
            => client.tx[pair[3]] = file[pair[1]]

(* config.toml.example:202-203, "environment": "Use AWS_ACCESS_KEY_ID and   *)
(* AWS_SECRET_ACCESS_KEY env vars", "iam": "Use IAM role".  A key pair in  *)
(* the configuration is used before either.                                *)
CredentialsAsDocumented ==
    stage = "ready" /\ server.provider # NoServer =>
        (Asked("fallback.s3.credential_type") \in {"environment", "iam"} =>
            server.provider.credentials = <<"chain">>)
=============================================================================
