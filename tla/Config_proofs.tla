---------------------------- MODULE Config_proofs ----------------------------
(***************************************************************************)
(* For all files and command lines: the configuration is what the operator *)
(* asked for, layer by layer, and the store's keyring, its namespace and   *)
(* the fallback provider are made of what was validated.                   *)
(***************************************************************************)
EXTENDS Config, TLAPS

(* Building on what went before, each stage is determined by the inputs.   *)
Merged == \A f \in Fields: cfg[f] = Asked(f)
ClientChosen ==
    client = IF FromCLIAlone /\ CelestiaRPCClientEnabled
             THEN CelestiaConfig
             ELSE ToCelestiaRPCConfig(cfg)
StoreMade ==
    /\ client.namespace \in Namespaces
    /\ store.namespace = client.namespace
    /\ store.keyring = IF client.tx # NoTx THEN NewKeyring(client.tx) ELSE NoTx
    /\ store.keyring # Refused
ServerMade ==
    /\ server.mode = Either("fallback.mode")
    /\ server.provider = IF FallbackEnabled THEN NewS3Provider ELSE NoServer
    /\ server.provider # Refused

IInv ==
    /\ TypeOK
    /\ stage \notin {"start", "failed"} => Merged
    /\ stage = "valid" \/ Chosen => Valid(cfg)
    /\ Chosen => ClientChosen
    /\ stage \in {"store", "ready"} => StoreMade
    /\ stage = "ready" => ServerMade

-----------------------------------------------------------------------------
(* The layers                                                              *)

LEMMA DefaultType == /\ DefaultConfig \in [Fields -> Texts]
                     /\ FlagDefaults \in [Flags -> Texts]
BY TextsAssumption DEF DefaultConfig, FlagDefaults

(* A field is what the command line, the file or the default makes it.     *)
LEMMA AskedIs ==
    ASSUME TypeOK
    PROVE  /\ Over(flags, IF file = NoFile THEN DefaultConfig
                          ELSE LoadConfigFromFile(file))
                  = [f \in Fields |-> Asked(f)]
           /\ \A f \in Fields: Asked(f) \in Texts
<1>1. DOMAIN flags \subseteq Fields /\ \A f \in DOMAIN flags: flags[f] \in Texts
  BY LinesAssumption DEF TypeOK, Fields
<1>2. file # NoFile => /\ DOMAIN file \subseteq Fields
                       /\ \A f \in DOMAIN file: file[f] \in Texts
  BY FilesAssumption DEF TypeOK
<1> DEFINE base == IF file = NoFile THEN DefaultConfig ELSE LoadConfigFromFile(file)
<1>3. /\ DOMAIN base = Fields
      /\ \A f \in Fields: base[f] = IF file # NoFile /\ f \in DOMAIN file
                                    THEN file[f] ELSE DefaultConfig[f]
  BY <1>2, DefaultType DEF LoadConfigFromFile, Over
<1> HIDE DEF base
<1>4. Over(flags, base) = [f \in Fields |-> Asked(f)]
  BY <1>1, <1>3 DEF Over, Asked
<1>5. \A f \in Fields: Asked(f) \in Texts
  BY <1>1, <1>2, DefaultType DEF Asked
<1> QED
  BY <1>4, <1>5 DEF base

LEMMA FlagIs ==
    ASSUME TypeOK, NEW f \in Flags
    PROVE  /\ Flag(f) = IF f \in DOMAIN flags THEN flags[f] ELSE FlagDefaults[f]
           /\ Flag(f) \in Texts
BY LinesAssumption, DefaultType DEF TypeOK, Flag, Over

(* What is made of the fields has its type.                                *)
LEMMA SignerType ==
    ASSUME TypeOK
    PROVE  buildSignerConfig(cfg) \in Signers /\ cliSignerConfig \in Signers
<1>1. \A f \in Fields: cfg[f] \in Texts
  BY DEF TypeOK
<1>2. \A f \in Flags: Flag(f) \in Texts
  BY FlagIs
<1>3. buildSignerConfig(cfg) \in Signers
  <2> DEFINE mode == IF cfg["keyring_backend"] = "awskms" THEN "aws_kms"
                     ELSE firstNonEmpty(Renamed(cfg["signer_mode"]),
                                        cfg["signer.mode"])
             backend == IF cfg["keyring_backend"] = "awskms" THEN ""
                        ELSE cfg["keyring_backend"]
             s == buildSignerConfig(cfg)
  <2>1. \A a, b \in Texts: firstNonEmpty(a, b) \in Texts
    BY DEF firstNonEmpty
  <2>2. \A a \in Texts: Renamed(a) \in Texts
    BY TextsAssumption DEF Renamed
  <2>3. mode \in Texts /\ backend \in Texts /\ env \in Texts
    BY <1>1, <2>1, <2>2, TextsAssumption DEF TypeOK, Fields, Flags, Legacy, Nested
  <2>4. /\ s.mode = mode
        /\ s.backend \in Texts /\ s.path \in Texts /\ s.key \in Texts
    BY <1>1, <2>1, <2>3 DEF buildSignerConfig, Fields, Flags, Legacy, Nested
  <2>5. s.apiKey \in Texts /\ s.keyID \in Texts /\ s.region \in Texts
    BY <1>1, <2>1, <2>3 DEF buildSignerConfig, Fields, Flags, Legacy, Nested
  <2>6. s.kmsKey \in Texts
    BY <1>1, <2>1 DEF buildSignerConfig, Fields, Flags, Legacy, Nested
  <2>7. s = [mode |-> s.mode, backend |-> s.backend, path |-> s.path,
             key |-> s.key, apiKey |-> s.apiKey, keyID |-> s.keyID,
             region |-> s.region, kmsKey |-> s.kmsKey]
    BY DEF buildSignerConfig
  <2> HIDE DEF s, mode, backend
  <2> QED
    BY <2>3, <2>4, <2>5, <2>6, <2>7 DEF Signers, s
<1>4. cliSignerConfig \in Signers
  BY <1>2, TextsAssumption DEF TypeOK, cliSignerConfig, Signers, firstNonEmpty, Renamed, Flags
<1> QED
  BY <1>3, <1>4

LEMMA KeyringType ==
    ASSUME TypeOK, NEW s \in Signers
    PROVE  NewKeyring(s) \in Keyrings \cup {Refused}
<1>1. /\ \A a, b \in Texts: firstNonEmpty(a, b) \in Texts
      /\ env \in Texts /\ "test" \in Texts /\ "envkey" \in Texts
      /\ "my_celes_key" \in Texts
  BY TextsAssumption DEF TypeOK, firstNonEmpty
<1>2. NewLocalKeyring(s) \in Keyrings \cup {Refused}
  BY <1>1 DEF NewLocalKeyring, Signers, Keyrings
<1>3. NewPOPSignerKeyring(s) \in Keyrings \cup {Refused}
  BY <1>1 DEF NewPOPSignerKeyring, Signers, Keyrings
<1>4. NewAWSKMSKeyring(s) \in Keyrings \cup {Refused}
  BY <1>1 DEF NewAWSKMSKeyring, Signers, Keyrings
<1> QED
  BY <1>2, <1>3, <1>4 DEF NewKeyring

LEMMA ProviderType ==
    ASSUME TypeOK
    PROVE  /\ NewS3Provider \in Providers \cup {Refused}
           /\ Either("fallback.mode") \in Texts
<1>1. \A f \in Flags: Either(f) \in Texts
  BY FlagIs DEF TypeOK, Either, firstNonEmpty, Fields
<1>2. \A t, i, k \in Texts: Credentials(t, i, k) \in CredentialSets \cup {Refused}
  BY DEF Credentials, CredentialSets
<1> QED
  BY <1>1, <1>2 DEF NewS3Provider, Providers, Flags

-----------------------------------------------------------------------------
(* The steps                                                               *)

LEMMA InitInv == Init => IInv
<1> SUFFICES ASSUME Init PROVE IInv
  OBVIOUS
<1>1. TypeOK
  BY DefaultType, FilesAssumption, LinesAssumption, TextsAssumption
  DEF Init, TypeOK, Chosen
<1> QED
  BY <1>1 DEF Init, IInv, Chosen

(* What ChooseClient, NewCelestiaStore and the fallback's part of          *)
(* StartDAServer make has its type.                                        *)
LEMMA ClientType ==
    ASSUME TypeOK
    PROVE  {CelestiaConfig, ToCelestiaRPCConfig(cfg)}
               \subseteq [url: Texts, namespace: Texts, tx: Signers \cup {NoTx}]
<1>1. \A f \in Fields: cfg[f] \in Texts
  BY DEF TypeOK
<1>2. \A f \in Flags: Flag(f) \in Texts
  BY FlagIs
<1>3. \A g, s: s \in Signers => Tx(g, s) \in Signers \cup {NoTx}
  BY DEF Tx
<1>4. /\ Tx(Flag("core_grpc_addr"), cliSignerConfig) \in Signers \cup {NoTx}
      /\ Tx(cfg["core_grpc_addr"], buildSignerConfig(cfg)) \in Signers \cup {NoTx}
  BY <1>3, SignerType
<1>5. CelestiaConfig \in [url: Texts, namespace: Texts, tx: Signers \cup {NoTx}]
  BY <1>2, <1>4 DEF CelestiaConfig, Flags
<1>6. ToCelestiaRPCConfig(cfg)
          \in [url: Texts, namespace: Texts, tx: Signers \cup {NoTx}]
  BY <1>1, <1>4 DEF ToCelestiaRPCConfig, Fields, Flags
<1> QED
  BY <1>5, <1>6

(* A step that leaves the inputs and the configuration alone leaves what   *)
(* is computed from them.                                                  *)
LEMMA Frame ==
    ASSUME UNCHANGED <<file, flags, env, cfg>>
    PROVE  /\ Merged => Merged'
           /\ Valid(cfg) => Valid(cfg)'
           /\ CelestiaConfig' = CelestiaConfig
           /\ ToCelestiaRPCConfig(cfg)' = ToCelestiaRPCConfig(cfg)
           /\ client' = client /\ ClientChosen => ClientChosen'
<1>1. buildSignerConfig(cfg)' = buildSignerConfig(cfg)
  BY DEF buildSignerConfig
<1>2. cliSignerConfig' = cliSignerConfig
  BY DEF cliSignerConfig, Flag
<1>3. /\ SignerValid(buildSignerConfig(cfg))' = SignerValid(buildSignerConfig(cfg))
      /\ SignerValid(cliSignerConfig)' = SignerValid(cliSignerConfig)
  BY <1>1, <1>2 DEF SignerValid
<1>4. /\ CelestiaConfig' = CelestiaConfig
      /\ ToCelestiaRPCConfig(cfg)' = ToCelestiaRPCConfig(cfg)
  BY <1>1, <1>2, <1>3 DEF CelestiaConfig, ToCelestiaRPCConfig, Tx, Flag
<1>5. client' = client /\ ClientChosen => ClientChosen'
  BY <1>4 DEF ClientChosen, FromCLIAlone, CelestiaRPCClientEnabled, Flag
<1>6. Valid(cfg) => Valid(cfg)'
  BY <1>3 DEF Valid
<1>7. Merged => Merged'
  BY DEF Merged, Asked
<1> QED
  BY <1>4, <1>5, <1>6, <1>7

(* Likewise for the store and the server.                                  *)
LEMMA MadeFrame ==
    ASSUME UNCHANGED vars
    PROVE  (StoreMade => StoreMade') /\ (ServerMade => ServerMade')
<1>1. NewKeyring(client.tx)' = NewKeyring(client.tx)
  BY DEF vars, NewKeyring, NewLocalKeyring, NewPOPSignerKeyring,
         NewAWSKMSKeyring
<1>2. NewS3Provider' = NewS3Provider
  BY DEF vars, NewS3Provider, Either, Flag
<1>3. FallbackEnabled' = FallbackEnabled
  BY DEF vars, FallbackEnabled, Flag
<1>4. Either("fallback.mode")' = Either("fallback.mode")
  BY DEF vars, Either, Flag
<1> QED
  BY <1>1, <1>2, <1>3, <1>4 DEF vars, StoreMade, ServerMade

LEMMA StepInv == IInv /\ [Next]_vars => IInv'
<1> SUFFICES ASSUME IInv, [Next]_vars PROVE IInv'
  OBVIOUS
<1>0. TypeOK
  BY DEF IInv
<1>1. CASE Fail
  BY <1>0, <1>1 DEF Fail, Inputs, IInv, TypeOK, Chosen
<1>2. CASE BuildConfig
  <2>1. /\ UNCHANGED Inputs /\ stage' = "built"
        /\ cfg' = [f \in Fields |-> Asked(f)]
        /\ \A f \in Fields: Asked(f) \in Texts
    BY <1>0, <1>2, AskedIs DEF BuildConfig, Goto
  <2>2. Merged'
    BY <2>1 DEF Merged, Asked, Inputs
  <2> QED
    BY <1>0, <2>1, <2>2 DEF IInv, TypeOK, Chosen, Inputs
<1>3. CASE Validate
  <2>1. /\ stage = "built" /\ stage' \in {"valid", "failed"}
        /\ stage' = "valid" => Valid(cfg)
        /\ UNCHANGED <<file, flags, env, cfg>>
    BY <1>3 DEF Validate, Goto, Inputs
  <2>2. Merged' /\ (Valid(cfg) => Valid(cfg)')
    BY <2>1, Frame DEF IInv
  <2> QED
    BY <1>0, <2>1, <2>2 DEF IInv, TypeOK, Chosen
<1>4. CASE ChooseClient
  <2>1. /\ stage = "valid" /\ stage' = "client"
        /\ UNCHANGED <<file, flags, env, cfg>>
        /\ client' = IF FromCLIAlone /\ CelestiaRPCClientEnabled
                     THEN CelestiaConfig ELSE ToCelestiaRPCConfig(cfg)
    BY <1>4 DEF ChooseClient, Goto, Inputs, FromCLIAlone
  <2>2. Merged' /\ Valid(cfg)'
    BY <2>1, Frame DEF IInv
  <2>4. ClientChosen'
    BY <2>1, Frame DEF ClientChosen, FromCLIAlone, CelestiaRPCClientEnabled, Flag
  <2>3. TypeOK'
    BY <1>0, <2>1, ClientType DEF TypeOK, Chosen
  <2> QED
    BY <2>1, <2>2, <2>3, <2>4 DEF IInv, Chosen
<1>5. CASE NewStore
  <2>1. /\ stage = "client" /\ stage' = "store"
        /\ UNCHANGED <<file, flags, env, cfg, client>>
    BY <1>5 DEF NewStore, MakeStore, Goto, Inputs
  <2>2. Merged' /\ Valid(cfg)' /\ ClientChosen'
    BY <2>1, Frame DEF IInv, Chosen
  <2>3. StoreMade'
    BY <1>5, <2>1
    DEF NewStore, MakeStore, StoreMade, initTxClient, initRPCClient, NewKeyring,
        NewLocalKeyring, NewPOPSignerKeyring, NewAWSKMSKeyring
  <2>4. store' \in [namespace: Texts, keyring: Keyrings \cup {NoTx}]
    BY <1>0, <1>5, <2>1, KeyringType
    DEF NewStore, MakeStore, TypeOK, Chosen, initTxClient, initRPCClient
  <2>5. TypeOK'
    BY <1>0, <2>1, <2>4 DEF TypeOK, Chosen
  <2> QED
    BY <2>1, <2>2, <2>3, <2>5 DEF IInv, Chosen
<1>6. CASE NewServer
  <2>1. /\ stage = "store" /\ stage' = "ready"
        /\ UNCHANGED <<file, flags, env, cfg, client, store>>
    BY <1>6 DEF NewServer, Goto, Inputs
  <2>2. Merged' /\ Valid(cfg)' /\ ClientChosen'
    BY <2>1, Frame DEF IInv, Chosen
  <2>3. StoreMade'
    BY <2>1 DEF IInv, StoreMade, NewKeyring, NewLocalKeyring,
                NewPOPSignerKeyring, NewAWSKMSKeyring
  <2>4. ServerMade'
    BY <1>6, <2>1 DEF NewServer, ServerMade, Either, FallbackEnabled, Flag,
                      NewS3Provider
  <2>5. server' \in [mode: Modes \cup {""}, provider: Providers \cup {NoServer}]
    <3>1. Either("fallback.mode") \in Modes \cup {""}
      <4>1. /\ cfg["fallback.mode"] \in Modes \cup {""}
            /\ cfg["fallback.mode"] = Asked("fallback.mode")
        BY <2>1 DEF IInv, Valid, Merged, Chosen, Fields, Flags
      <4>2. Flag("fallback.mode") \in {cfg["fallback.mode"], "both"}
        BY <1>0, <4>1, FlagIs DEF Asked, FlagDefaults, Flags
      <4> QED
        BY <4>1, <4>2 DEF Either, firstNonEmpty, Modes
    <3> QED
      BY <1>0, <1>6, <3>1, ProviderType DEF NewServer
  <2>6. TypeOK'
    BY <1>0, <2>1, <2>5 DEF TypeOK, Chosen
  <2> QED
    BY <2>1, <2>2, <2>3, <2>4, <2>6 DEF IInv, Chosen
<1>7. CASE UNCHANGED vars
  <2>1. TypeOK'
    BY <1>0, <1>7 DEF vars, TypeOK, Chosen
  <2> QED
    BY <1>7, <2>1, Frame, MadeFrame DEF vars, IInv, Chosen
<1> QED
  BY <1>1, <1>2, <1>3, <1>4, <1>5, <1>6, <1>7 DEF Next

THEOREM Invariance == Spec => []IInv
BY InitInv, StepInv, PTL DEF Spec

-----------------------------------------------------------------------------
(* What is used is what was asked for and validated                        *)

(* Every stage has what the next one takes from it.                        *)
THEOREM TypeCorrect == Spec => []TypeOK
<1>1. IInv => TypeOK
  BY DEF IInv
<1> QED
  BY <1>1, Invariance, PTL

(* A signer that Validate passes is refused by no keyring, but for the     *)
(* empty mode.                                                             *)
LEMMA ValidKeyring ==
    ASSUME TypeOK, NEW s \in Signers, SignerValid(s)
    PROVE  NewKeyring(s) # Refused \/ s.mode = ""
<1> USE RefusedAssumption, TextsAssumption
<1>0. env \in Texts
  BY DEF TypeOK
<1>1. CASE s.mode = "local" /\ s.path # "" /\ s.key # ""
  <2>1. NewLocalKeyring(s) \in Keyrings
    BY <1>1 DEF NewLocalKeyring, Keyrings, Signers, firstNonEmpty
  <2> QED
    BY <1>1, <2>1 DEF NewKeyring
<1>2. CASE s.mode = "popsigner" /\ s.keyID # "" /\ (s.apiKey # "" \/ env # "")
  <2>1. NewPOPSignerKeyring(s) \in Keyrings
    BY <1>0, <1>2 DEF NewPOPSignerKeyring, Keyrings, Signers, firstNonEmpty
  <2> QED
    BY <1>2, <2>1 DEF NewKeyring
<1>3. CASE s.mode = "aws_kms" /\ s.region # "" /\ (s.kmsKey # "" \/ s.key # "")
  <2>1. NewAWSKMSKeyring(s) \in Keyrings
    BY <1>3 DEF NewAWSKMSKeyring, Keyrings, Signers, firstNonEmpty
  <2> QED
    BY <1>3, <2>1 DEF NewKeyring
<1> QED
  BY <1>1, <1>2, <1>3 DEF SignerValid

(* The client's signer, if it has one, is valid.                           *)
ChosenSigner == IF FromCLIAlone /\ CelestiaRPCClientEnabled
                THEN cliSignerConfig ELSE buildSignerConfig(cfg)
LEMMA ClientSigner ==
    ASSUME IInv, Chosen, client.tx # NoTx
    PROVE  /\ client.tx = ChosenSigner
           /\ client.tx \in Signers
           /\ SignerValid(client.tx)
<1>1. CASE FromCLIAlone /\ CelestiaRPCClientEnabled
  <2>1. client.tx = Tx(Flag("core_grpc_addr"), cliSignerConfig)
    BY <1>1 DEF IInv, ClientChosen, CelestiaConfig
  <2> QED
    BY <1>1, <2>1, SignerType DEF IInv, Tx, ChosenSigner
<1>2. CASE ~(FromCLIAlone /\ CelestiaRPCClientEnabled)
  <2>1. client.tx = Tx(cfg["core_grpc_addr"], buildSignerConfig(cfg))
    BY <1>2 DEF IInv, ClientChosen, ToCelestiaRPCConfig
  <2> QED
    BY <1>2, <2>1, SignerType DEF IInv, Tx, ChosenSigner
<1> QED
  BY <1>1, <1>2

(* Validate and the keyring constructors agree on what a signer needs.     *)
THEOREM SignersAccepted == Spec => []ValidSignerAccepted
<1>1. IInv => ValidSignerAccepted
  BY ClientSigner, ValidKeyring DEF IInv, ValidSignerAccepted
<1> QED
  BY <1>1, Invariance, PTL

(* TxClientEnabled disables no client that Validate has passed, so the     *)
(* store signs its own transactions whenever the operator has configured   *)
(* that.                                                                   *)
THEOREM StoreSigns == Spec => []WritesAreSigned
<1>1. IInv => WritesAreSigned
  <2> SUFFICES ASSUME IInv, stage \in {"store", "ready"},
                      cfg["core_grpc_addr"] # "", ~FromCLIAlone
               PROVE  /\ store.keyring # NoTx
                      /\ store.keyring = NewKeyring(buildSignerConfig(cfg))
    BY DEF WritesAreSigned
  <2>1. client = ToCelestiaRPCConfig(cfg) /\ Valid(cfg) /\ StoreMade /\ TypeOK
    BY DEF IInv, ClientChosen, Chosen
  <2>2. client.tx = buildSignerConfig(cfg)
    BY <2>1 DEF ToCelestiaRPCConfig, Tx, Valid
  <2>3. client.tx \in Signers /\ client.tx # NoTx
    BY <2>1, <2>2, SignerType, NoTxAssumption
  <2>4. store.keyring = NewKeyring(client.tx) /\ store.keyring # Refused
    BY <2>1, <2>3 DEF StoreMade
  <2>5. store.keyring \in Keyrings
    BY <2>1, <2>3, <2>4, KeyringType
  <2> QED
    BY <2>2, <2>4, <2>5, NoTxAssumption
<1> QED
  BY <1>1, Invariance, PTL

(* The namespace that was validated is the one the store uses, although    *)
(* the client may be configured from the flags alone: an empty one is      *)
(* refused, so the flag is set, and what the flags set goes before the     *)
(* file.                                                                   *)
THEOREM NamespaceIsKept == Spec => []NamespaceKept
<1>1. IInv => NamespaceKept
  <2> SUFFICES ASSUME IInv, stage = "ready"
               PROVE  store.namespace = cfg["namespace"]
    BY DEF NamespaceKept
  <2>1. TypeOK /\ Merged /\ ClientChosen /\ StoreMade
    BY DEF IInv, Chosen
  <2>2. CASE client = ToCelestiaRPCConfig(cfg)
    BY <2>1, <2>2 DEF StoreMade, ToCelestiaRPCConfig
  <2>3. CASE client = CelestiaConfig
    <3>1. store.namespace = Flag("namespace") /\ Flag("namespace") # ""
      BY <2>1, <2>3, NamespacesAssumption DEF StoreMade, CelestiaConfig
    <3>2. "namespace" \in DOMAIN flags /\ Flag("namespace") = flags["namespace"]
      BY <2>1, <3>1, FlagIs DEF FlagDefaults, Flags
    <3>3. cfg["namespace"] = Asked("namespace")
      BY <2>1 DEF Merged, Fields, Flags
    <3> QED
      BY <3>1, <3>2, <3>3 DEF Asked
  <2> QED
    BY <2>1, <2>2, <2>3 DEF ClientChosen
<1> QED
  BY <1>1, Invariance, PTL

(* The fallback is on exactly if asked for, with a bucket and the mode     *)
(* asked for.                                                              *)
THEOREM FallbackIsAsAsked == Spec => []FallbackAsAsked
<1>1. IInv => FallbackAsAsked
  <2> SUFFICES ASSUME IInv, stage = "ready"
               PROVE  /\ server.provider # NoServer
                             <=> Asked("fallback.enabled") = "true"
                      /\ server.provider # NoServer =>
                             server.provider.bucket # ""
                      /\ Asked("fallback.mode") # "" =>
                             server.mode = Asked("fallback.mode")
    BY DEF FallbackAsAsked
  <2>1. TypeOK /\ Merged /\ ServerMade
    BY DEF IInv
  <2>2. /\ cfg["fallback.enabled"] = Asked("fallback.enabled")
        /\ cfg["fallback.mode"] = Asked("fallback.mode")
    BY <2>1 DEF Merged, Fields, Flags
  <2>3. Flag("fallback.enabled") \in {Asked("fallback.enabled"), "false"}
    BY <2>1, FlagIs DEF Asked, FlagDefaults, Flags
  <2>4. FallbackEnabled <=> Asked("fallback.enabled") = "true"
    BY <2>2, <2>3 DEF FallbackEnabled
  <2>5. FallbackEnabled => /\ server.provider \in Providers
                           /\ server.provider.bucket # ""
    <3> SUFFICES ASSUME FallbackEnabled
                 PROVE  /\ server.provider \in Providers
                        /\ server.provider.bucket # ""
      OBVIOUS
    <3>1. server.provider = NewS3Provider /\ NewS3Provider # Refused
      BY <2>1 DEF ServerMade
    <3>2. NewS3Provider.bucket # ""
      BY <3>1 DEF NewS3Provider
    <3> QED
      BY <2>1, <3>1, <3>2, ProviderType
  <2> QED
    BY <2>1, <2>2, <2>4, <2>5, NoServerAssumption
    DEF ServerMade, Either, firstNonEmpty
<1> QED
  BY <1>1, Invariance, PTL

(* The keyring the store signs with is NewKeyring's, of a signer that is   *)
(* built from the flags or from file and flags.                            *)
LEMMA StoreKeyring ==
    ASSUME IInv, stage \in {"store", "ready"}, store.keyring # NoTx
    PROVE  /\ client.tx = ChosenSigner
           /\ client.tx \in Signers
           /\ store.keyring = NewKeyring(client.tx)
           /\ store.keyring # Refused
<1>1. StoreMade /\ Chosen
  BY DEF IInv, Chosen
<1>2. client.tx # NoTx
  BY <1>1 DEF StoreMade
<1> QED
  BY <1>1, <1>2, ClientSigner DEF StoreMade

(* What a setting given on the command line makes of the chosen signer.    *)
KMS == /\ cfg["keyring_backend"] = "awskms"
       /\ ~(FromCLIAlone /\ CelestiaRPCClientEnabled)
LEMMA FlagsInSigner ==
    ASSUME IInv, stage \in {"store", "ready"}, NEW s, s = ChosenSigner
    PROVE  /\ KMS => s.mode = "aws_kms"
           /\ ~KMS /\ "signer_mode" \in DOMAIN flags
              /\ flags["signer_mode"] # "" =>
                  s.mode = Renamed(flags["signer_mode"])
           /\ "keyring_path" \in DOMAIN flags /\ flags["keyring_path"] # "" =>
                  s.path = flags["keyring_path"]
           /\ "default_key_name" \in DOMAIN flags
              /\ flags["default_key_name"] # "" =>
                  s.key = flags["default_key_name"]
           /\ "remote_signer_api_key" \in DOMAIN flags
              /\ flags["remote_signer_api_key"] # "" =>
                  s.apiKey = flags["remote_signer_api_key"]
           /\ "remote_signer_key_id" \in DOMAIN flags
              /\ flags["remote_signer_key_id"] # "" =>
                  s.keyID = flags["remote_signer_key_id"]
<1>0. TypeOK /\ Merged
  BY DEF IInv
<1>1. ASSUME NEW f \in Flags, f \in DOMAIN flags
      PROVE  cfg[f] = flags[f] /\ Flag(f) = flags[f]
  BY <1>0, <1>1, FlagIs DEF Merged, Asked, Fields
<1>2. \A m: m # "" => Renamed(m) # ""
  BY DEF Renamed
<1>3. CASE FromCLIAlone /\ CelestiaRPCClientEnabled
  <2>1. s = cliSignerConfig /\ ~KMS
    BY <1>3 DEF ChosenSigner, KMS
  <2>2. /\ cliSignerConfig.mode = firstNonEmpty(Renamed(Flag("signer_mode")), "local")
        /\ cliSignerConfig.path = Flag("keyring_path")
        /\ cliSignerConfig.key = firstNonEmpty(Flag("default_key_name"),
                                               "my_celes_key")
        /\ cliSignerConfig.apiKey = firstNonEmpty(Flag("remote_signer_api_key"),
                                                  env)
        /\ cliSignerConfig.keyID = Flag("remote_signer_key_id")
    BY DEF cliSignerConfig
  <2>3. \A f \in {"signer_mode", "keyring_path", "default_key_name",
                  "remote_signer_api_key", "remote_signer_key_id"}:
            f \in DOMAIN flags => Flag(f) = flags[f]
    BY <1>1 DEF Flags
  <2> QED
    BY <1>2, <2>1, <2>2, <2>3 DEF firstNonEmpty
<1>4. CASE ~(FromCLIAlone /\ CelestiaRPCClientEnabled)
  <2>0. s = buildSignerConfig(cfg) /\ (KMS <=> cfg["keyring_backend"] = "awskms")
    BY <1>4 DEF ChosenSigner, KMS
  <2>1. /\ s.mode = IF cfg["keyring_backend"] = "awskms" THEN "aws_kms"
                    ELSE firstNonEmpty(Renamed(cfg["signer_mode"]),
                                       cfg["signer.mode"])
        /\ s.path = firstNonEmpty(cfg["keyring_path"],
                                  cfg["signer.local.keyring_path"])
        /\ s.key = firstNonEmpty(cfg["default_key_name"],
                                 cfg["signer.local.key_name"])
    <3>1. /\ buildSignerConfig(cfg).mode =
                 IF cfg["keyring_backend"] = "awskms" THEN "aws_kms"
                 ELSE firstNonEmpty(Renamed(cfg["signer_mode"]), cfg["signer.mode"])
          /\ buildSignerConfig(cfg).path =
                 firstNonEmpty(cfg["keyring_path"], cfg["signer.local.keyring_path"])
          /\ buildSignerConfig(cfg).key =
                 firstNonEmpty(cfg["default_key_name"], cfg["signer.local.key_name"])
      BY DEF buildSignerConfig
    <3> QED
      BY <2>0, <3>1
  <2>2. /\ s.apiKey = firstNonEmpty(
                          firstNonEmpty(cfg["remote_signer_api_key"],
                                        cfg["signer.popsigner.api_key"]), env)
        /\ s.keyID = firstNonEmpty(cfg["remote_signer_key_id"],
                                   cfg["signer.popsigner.key_id"])
    <3>1. /\ buildSignerConfig(cfg).apiKey =
                 firstNonEmpty(firstNonEmpty(cfg["remote_signer_api_key"],
                                             cfg["signer.popsigner.api_key"]), env)
          /\ buildSignerConfig(cfg).keyID =
                 firstNonEmpty(cfg["remote_signer_key_id"],
                               cfg["signer.popsigner.key_id"])
      BY DEF buildSignerConfig
    <3> QED
      BY <2>0, <3>1
  <2>3. ASSUME NEW f \in {"signer_mode", "keyring_path", "default_key_name",
                          "remote_signer_api_key", "remote_signer_key_id"},
               f \in DOMAIN flags, flags[f] # ""
        PROVE  /\ cfg[f] = flags[f]
               /\ \A b: firstNonEmpty(cfg[f], b) = flags[f]
    <3>1. cfg[f] = flags[f]
      BY <1>1, <2>3 DEF Flags
    <3> QED
      BY <2>3, <3>1 DEF firstNonEmpty
  <2>4. ASSUME ~KMS, "signer_mode" \in DOMAIN flags, flags["signer_mode"] # ""
        PROVE  s.mode = Renamed(flags["signer_mode"])
    <3>1. cfg["signer_mode"] = flags["signer_mode"]
      BY <2>3, <2>4
    <3>2. Renamed(flags["signer_mode"]) # ""
      BY <1>2, <2>4
    <3> QED
      BY <2>0, <2>1, <2>4, <3>1, <3>2 DEF firstNonEmpty
  <2>5. ASSUME "keyring_path" \in DOMAIN flags, flags["keyring_path"] # ""
        PROVE  s.path = flags["keyring_path"]
    BY <2>1, <2>3, <2>5
  <2>6. ASSUME "default_key_name" \in DOMAIN flags,
               flags["default_key_name"] # ""
        PROVE  s.key = flags["default_key_name"]
    BY <2>1, <2>3, <2>6
  <2>7. ASSUME "remote_signer_api_key" \in DOMAIN flags,
               flags["remote_signer_api_key"] # ""
        PROVE  s.apiKey = flags["remote_signer_api_key"]
    <3>1. firstNonEmpty(cfg["remote_signer_api_key"],
                        cfg["signer.popsigner.api_key"])
              = flags["remote_signer_api_key"]
      BY <2>3, <2>7
    <3> QED
      BY <2>2, <2>7, <3>1 DEF firstNonEmpty
  <2>8. ASSUME "remote_signer_key_id" \in DOMAIN flags,
               flags["remote_signer_key_id"] # ""
        PROVE  s.keyID = flags["remote_signer_key_id"]
    BY <2>2, <2>3, <2>8
  <2> QED
    BY <2>0, <2>1, <2>4, <2>5, <2>6, <2>7, <2>8
<1> QED
  BY <1>3, <1>4

(* In aws_kms mode the key is the file's key ID or, without one, the key   *)
(* name; the command line alone cannot make such a keyring.                *)
LEMMA KMSKey ==
    ASSUME ChosenSigner.mode = "aws_kms", NewAWSKMSKeyring(ChosenSigner) # Refused
    PROVE  NewAWSKMSKeyring(ChosenSigner).key
               = firstNonEmpty(cfg["signer.aws_kms.key_id"], ChosenSigner.key)
<1>1. /\ ChosenSigner.region # ""
      /\ NewAWSKMSKeyring(ChosenSigner) =
             [mode |-> "aws_kms", region |-> ChosenSigner.region,
              key |-> firstNonEmpty(ChosenSigner.kmsKey, ChosenSigner.key)]
  BY DEF NewAWSKMSKeyring
<1>2. ChosenSigner = buildSignerConfig(cfg)
  <2>1. cliSignerConfig.region = ""
    BY DEF cliSignerConfig
  <2> QED
    BY <1>1, <2>1 DEF ChosenSigner
<1>3. ChosenSigner.kmsKey
          = firstNonEmpty(cfg["signer.aws_kms.key_id"], ChosenSigner.key)
  <2>1. /\ buildSignerConfig(cfg).key =
               firstNonEmpty(cfg["default_key_name"], cfg["signer.local.key_name"])
        /\ buildSignerConfig(cfg).mode = "aws_kms" =>
               buildSignerConfig(cfg).kmsKey =
                   firstNonEmpty(cfg["signer.aws_kms.key_id"],
                                 firstNonEmpty(cfg["default_key_name"],
                                               cfg["signer.local.key_name"]))
    BY DEF buildSignerConfig
  <2> QED
    BY <1>2, <2>1
<1>4. NewAWSKMSKeyring(ChosenSigner).key
          = firstNonEmpty(ChosenSigner.kmsKey, ChosenSigner.key)
  <2>1. \A r, k: [mode |-> "aws_kms", region |-> r, key |-> k].key = k
    OBVIOUS
  <2> QED
    BY <1>1, <2>1
<1> QED
  BY <1>3, <1>4 DEF firstNonEmpty

(* The signer settings of the command line are the ones that are used, as  *)
(* far as keyring_backend = "awskms" and the file's key ID let them.       *)
THEOREM CommandLineSigns == Spec => []SignerFlagsWin
<1>1. IInv => SignerFlagsWin
  <2> SUFFICES ASSUME IInv, stage \in {"store", "ready"}, store.keyring # NoTx
               PROVE  SignerFlagsWin
    BY DEF SignerFlagsWin
  <2>1. PICK s \in Signers:
        /\ s = ChosenSigner
        /\ store.keyring = NewKeyring(s) /\ store.keyring # Refused
    BY StoreKeyring
  <2>2. /\ \/ s.mode \in {"", "local"} /\ store.keyring = NewLocalKeyring(s)
           \/ s.mode = "popsigner" /\ store.keyring = NewPOPSignerKeyring(s)
           \/ s.mode = "aws_kms" /\ store.keyring = NewAWSKMSKeyring(s)
    BY <2>1 DEF NewKeyring
  <2> DEFINE given(f) == f \in DOMAIN flags /\ flags[f] # ""
             arn == cfg["signer.aws_kms.key_id"]
  <2>3. /\ KMS => s.mode = "aws_kms"
        /\ ~KMS /\ given("signer_mode") => s.mode = Renamed(flags["signer_mode"])
    BY <2>1, FlagsInSigner
  <2>4. s.mode = "" => ~given("signer_mode") /\ ~KMS
    BY <2>3 DEF Renamed
  <2>5. CASE s.mode \in {"", "local"} /\ store.keyring = NewLocalKeyring(s)
    <3>0. store.keyring =
              [mode |-> "local", backend |-> firstNonEmpty(s.backend, "test"),
               path |-> s.path, key |-> s.key]
      BY <2>1, <2>5 DEF NewLocalKeyring
    <3>1. /\ store.keyring.mode = "local" /\ store.keyring.path = s.path
          /\ store.keyring.key = s.key
      BY <3>0
    <3>2. /\ given("keyring_path") => s.path = flags["keyring_path"]
          /\ given("default_key_name") => s.key = flags["default_key_name"]
      BY <2>1, FlagsInSigner
    <3> QED
      BY <2>3, <2>4, <2>5, <3>1, <3>2 DEF SignerFlagsWin, KMS
  <2>6. CASE s.mode = "popsigner" /\ store.keyring = NewPOPSignerKeyring(s)
    <3>0. store.keyring =
              [mode |-> "popsigner", apiKey |-> firstNonEmpty(s.apiKey, env),
               key |-> s.keyID]
      BY <2>1, <2>6 DEF NewPOPSignerKeyring
    <3>1. /\ store.keyring.mode = "popsigner" /\ store.keyring.key = s.keyID
          /\ store.keyring.apiKey = firstNonEmpty(s.apiKey, env)
      BY <3>0
    <3>2. s.apiKey # "" => store.keyring.apiKey = s.apiKey
      BY <3>1 DEF firstNonEmpty
    <3>3. /\ given("remote_signer_api_key") =>
                 s.apiKey = flags["remote_signer_api_key"]
          /\ given("remote_signer_key_id") =>
                 s.keyID = flags["remote_signer_key_id"]
      BY <2>1, FlagsInSigner
    <3> QED
      BY <2>3, <2>6, <3>1, <3>2, <3>3 DEF SignerFlagsWin, KMS
  <2>7. CASE s.mode = "aws_kms" /\ store.keyring = NewAWSKMSKeyring(s)
    <3>1. store.keyring.mode = "aws_kms"
      <4>1. store.keyring = [mode |-> "aws_kms", region |-> s.region,
                             key |-> firstNonEmpty(s.kmsKey, s.key)]
        BY <2>1, <2>7 DEF NewAWSKMSKeyring
      <4> QED
        BY <4>1
    <3>2. store.keyring.key = firstNonEmpty(arn, s.key)
      BY <2>1, <2>7, KMSKey
    <3>3. given("default_key_name") => s.key = flags["default_key_name"]
      BY <2>1, FlagsInSigner
    <3>4. /\ arn # "" => store.keyring.key = arn
          /\ arn = "" /\ given("default_key_name") =>
                 store.keyring.key = flags["default_key_name"]
      BY <3>2, <3>3 DEF firstNonEmpty
    <3> QED
      BY <2>3, <2>7, <3>1, <3>4 DEF SignerFlagsWin, KMS
  <2> QED
    BY <2>2, <2>5, <2>6, <2>7
<1> QED
  BY <1>1, Invariance, PTL
=============================================================================
