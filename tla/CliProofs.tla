------------------------------ MODULE CliProofs ------------------------------
(***************************************************************************)
(* Proofs about module Cli, for every set of hosts, ports, logins and      *)
(* faults.                                                                 *)
(***************************************************************************)
EXTENDS Cli, TLAPS

(* Where the process is, and what that says of its variables.  While the    *)
(* keyring is written the file is empty.                                    *)
StepsAgree ==
    /\ pc \in StoreSteps \cup {"confirm", "call"} => config # Nil /\ config.host # Nil
    /\ pc \in {"confirm", "call"} => cmd \in Calls
    /\ pc = "confirm" => asked \in 1..2
    /\ sent # Nil => pc = "shell"
    /\ pc \in StoreSteps \ {"truncate"} => file = Blank
    /\ pc \in {"secret", "undo"} =>
          config.sec # Nil /\ ring[Key(config)].id = config.sec[1]
    /\ entered # Nil =>
          /\ pc \in StoreSteps
          /\ config.sec = <<entered, entered>> /\ config.cred = Nil

Mismatched(k) ==
    ring[k].id # Nil /\ ring[k].secret # Nil /\ ring[k].id # ring[k].secret

(* The two entries of a store differ only while its secret is due.          *)
PairsKept ==
    ~broken =>
        /\ (config # Nil /\ config.sec # Nil) => config.sec[1] = config.sec[2]
        /\ \A k \in Keys :
              Mismatched(k) => pc \in {"secret", "undo"} /\ k = Key(config)

(* The file, the configuration in use and the call made last are of a store *)
(* that answered.                                                           *)
Probed ==
    /\ (file # Absent /\ file.host # Nil) => Answers(file)
    /\ (config # Nil /\ config.host # Nil) => Answers(config)
    /\ CallsGoWhereProbed

HoldsOnly(k, l) == ring[k].id \in {l, Nil} /\ ring[k].secret \in {l, Nil}

(* Wherever credentials are looked for, only the last login's are found.    *)
LastEverywhere ==
    last # Nil =>
        /\ file # Absent => file.cred = Nil
        /\ (file # Absent /\ file.host # Nil) => HoldsOnly(Key(file), last)
        /\ config # Nil => config.cred = Nil /\ config.sec \in {Nil, <<last, last>>}
        /\ (config # Nil /\ config.host # Nil) => HoldsOnly(Key(config), last)
        /\ (sent # Nil /\ sent.auth \in Pairs) => sent.auth = <<last, last>>

(* The inductive invariant.                                                 *)
Safe == CliTypeOK /\ StepsAgree /\ PairsKept /\ Probed /\ LastEverywhere
-----------------------------------------------------------------------------
(* What the assumption says of Nil and Absent.                              *)
LEMMA NilIsNothing ==
  /\ Nil \notin Hosts /\ Nil \notin Ports /\ Nil \notin Logins
  /\ Nil \notin Pairs /\ Nil \notin Passphrases /\ Nil \notin Config
  /\ Absent \notin File
  /\ Ports \subseteq Nat
  /\ \A p \in Passphrases : p \notin Pairs
  BY ConfigAssumption

(* The keyring entries of a configured store, and what Write does to them.  *)
LEMMA KeyOfStore ==
  ASSUME NEW c \in Config \cup File
  PROVE  /\ c.host # Nil => Key(c) \in Keys
         /\ Key(c) \in Keys => c.host \in Hosts
  BY NilIsNothing DEF Config, File, Key, Keys

LEMMA WritesEntry ==
  ASSUME ring \in [Keys -> Entry], Key(config) \in Keys,
         NEW field \in {"id", "secret", "pass"}, NEW x,
         field \in {"id", "secret"} => x \in Logins \cup {Nil},
         field = "pass" => x \in Passphrases \cup {Nil},
         Write(field, x)
  PROVE  /\ ring' \in [Keys -> Entry]
         /\ \A k \in Keys : k # Key(config) => ring'[k] = ring[k]
         /\ ring'[Key(config)].id = IF field = "id" THEN x ELSE ring[Key(config)].id
         /\ ring'[Key(config)].secret =
                IF field = "secret" THEN x ELSE ring[Key(config)].secret
  <1> DEFINE k == Key(config)
  <1> HIDE DEF k
  <1>1. ring' = [ring EXCEPT ![k] = [ring[k] EXCEPT ![field] = x]]
    BY DEF Write, k
  <1>2. ring[k] \in Entry
    BY DEF k
  <1>3. CASE field = "id"
    <2>1. ring' = [ring EXCEPT ![k] = [ring[k] EXCEPT !.id = x]]
      BY <1>1, <1>3
    <2>2. [ring[k] EXCEPT !.id = x] \in Entry
      BY <1>2, <1>3 DEF Entry
    <2> QED  BY <2>1, <2>2, <1>2, <1>3 DEF Entry, k
  <1>4. CASE field = "secret"
    <2>1. ring' = [ring EXCEPT ![k] = [ring[k] EXCEPT !.secret = x]]
      BY <1>1, <1>4
    <2>2. [ring[k] EXCEPT !.secret = x] \in Entry
      BY <1>2, <1>4 DEF Entry
    <2> QED  BY <2>1, <2>2, <1>2, <1>4 DEF Entry, k
  <1>5. CASE field = "pass"
    <2>1. ring' = [ring EXCEPT ![k] = [ring[k] EXCEPT !.pass = x]]
      BY <1>1, <1>5
    <2>2. [ring[k] EXCEPT !.pass = x] \in Entry
      BY <1>2, <1>5 DEF Entry
    <2> QED  BY <2>1, <2>2, <1>2, <1>5 DEF Entry, k
  <1> QED  BY <1>3, <1>4, <1>5
-----------------------------------------------------------------------------
LEMMA InitSafe == Init => Safe
  <1> SUFFICES ASSUME Init PROVE Safe
    OBVIOUS
  <1> USE NilIsNothing DEF Init, ConfigInit
  <1>0. [id |-> Nil, secret |-> Nil, pass |-> Nil] \in Entry
    BY DEF Entry
  <1>1. CliTypeOK
    <2>1. ring \in [Keys -> Entry]
      BY <1>0
    <2>2. ConfigTypeOK
      BY <2>1 DEF ConfigTypeOK
    <2>3. asked \in 0..2
      OBVIOUS
    <2>4. sent \in CallMade \cup {Nil}
      BY Zenon
    <2> QED  BY <2>2, <2>3, <2>4, Zenon DEF CliTypeOK
  <1>2. StepsAgree
    BY DEF StepsAgree, StoreSteps
  <1>3. PairsKept
    BY DEF PairsKept, Mismatched
  <1>4. Probed /\ LastEverywhere
    BY DEF Probed, CallsGoWhereProbed, LastEverywhere
  <1> QED  BY <1>1, <1>2, <1>3, <1>4 DEF Safe

(* A command ends, with or without a call, and leaves file and keyring.     *)
LEMMA ExitSafe ==
  ASSUME CliTypeOK, StepsAgree, PairsKept, Probed, LastEverywhere,
         Exit, UNCHANGED <<disk, last>>,
         asked' \in 0..2,
         broken' \in BOOLEAN, broken \/ pc \in {"secret", "undo"} => broken',
         sent' \in CallMade \cup {Nil}, CallsGoWhereProbed',
         ReadUsesLatestLogin'
  PROVE  Safe'
  <1> USE DEF Exit, disk
  <1>1. CliTypeOK'
    BY DEF CliTypeOK, ConfigTypeOK
  <1>2. StepsAgree'
    BY DEF StepsAgree, StoreSteps
  <1>3. PairsKept'
    BY DEF PairsKept, Mismatched
  <1>4. Probed'
    BY DEF Probed, Answers, HostPort
  <1>5. LastEverywhere'
    BY DEF LastEverywhere, HoldsOnly, Key, ReadUsesLatestLogin
  <1> QED  BY <1>1, <1>2, <1>3, <1>4, <1>5 DEF Safe

LEMMA QuietExitSafe ==
  ASSUME CliTypeOK, StepsAgree, PairsKept, Probed, LastEverywhere,
         Exit, UNCHANGED <<disk, last, broken>>, UNCHANGED asking,
         pc \notin {"secret", "undo"}
  PROVE  Safe'
  <1>1. /\ asked \in 0..2 /\ broken \in BOOLEAN
        /\ sent \in CallMade \cup {Nil}
    BY DEF CliTypeOK, ConfigTypeOK
  <1>2. CallsGoWhereProbed' /\ ReadUsesLatestLogin'
    BY DEF Probed, LastEverywhere, CallsGoWhereProbed, ReadUsesLatestLogin,
           asking, Exit
  <1> QED  BY <1>1, <1>2, ExitSafe DEF asking
-----------------------------------------------------------------------------
(* What Load finds.                                                         *)
LEMMA LoadedFromFile ==
  ASSUME ConfigTypeOK, file # Absent, NEW c \in Loaded
  PROVE  /\ c \in Config
         /\ c.host = file.host /\ c.port = file.port /\ c.tls = file.tls
         /\ c.cred = file.cred
         /\ c.sec # Nil =>
              /\ Key(file) \in Keys
              /\ ring[Key(file)].id # Nil /\ ring[Key(file)].secret # Nil
              /\ c.sec = <<ring[Key(file)].id, ring[Key(file)].secret>>
  <1>1. file \in File /\ ring \in [Keys -> Entry]
    BY DEF ConfigTypeOK
  <1>2. PICK s \in SecureCredentials(Key(file)), p \in KeptPassphrase(file) :
          c = [host |-> file.host, port |-> file.port, tls |-> file.tls,
               cred |-> file.cred, inRing |-> file.inRing, sec |-> s, pass |-> p]
    BY DEF Loaded
  <1>3. p \in Passphrases \cup {Nil}
    BY <1>1 DEF KeptPassphrase, OrNil, Entry
  <1>4. s # Nil =>
          /\ Key(file) \in Keys
          /\ ring[Key(file)].id # Nil /\ ring[Key(file)].secret # Nil
          /\ s = <<ring[Key(file)].id, ring[Key(file)].secret>>
    BY DEF SecureCredentials, OrNil
  <1>5. s \in Pairs \cup {Nil}
    BY <1>1, <1>4 DEF Entry, Pairs
  <1> QED  BY <1>1, <1>2, <1>3, <1>4, <1>5 DEF File, Config

LEMMA BeginSafe ==
  ASSUME CliTypeOK, StepsAgree, PairsKept, Probed, LastEverywhere,
         NEW c \in Commands, Begin(c)
  PROVE  Safe'
  <1> USE DEF Begin, Run, disk, ghosts
  <1>0. ConfigTypeOK
    BY DEF CliTypeOK
  <1>00. asked' \in 0..2
    OBVIOUS
  <1>1. CASE config' = Nil
    <2>0. ConfigTypeOK'
      BY <1>0, <1>1 DEF ConfigTypeOK
    <2>1. CliTypeOK'
      BY <1>00, <2>0, Zenon DEF CliTypeOK
    <2>2. StepsAgree' /\ PairsKept'
      BY <1>1 DEF StepsAgree, PairsKept, StoreSteps, Mismatched
    <2>3. Probed' /\ LastEverywhere'
      BY <1>1 DEF Probed, LastEverywhere, CallsGoWhereProbed, HoldsOnly, Answers,
                  HostPort, Key
    <2> QED  BY <2>1, <2>2, <2>3 DEF Safe
  <1>2. CASE config' # Nil
    <2>1. file # Absent
      BY <1>2 DEF Loaded
    <2>2. /\ config' \in Config
          /\ config'.host = file.host /\ config'.port = file.port
          /\ config'.tls = file.tls /\ config'.cred = file.cred
          /\ config'.sec # Nil =>
               /\ Key(file) \in Keys
               /\ ring[Key(file)].id # Nil /\ ring[Key(file)].secret # Nil
               /\ config'.sec = <<ring[Key(file)].id, ring[Key(file)].secret>>
      BY <1>0, <2>1, LoadedFromFile
    <2>0. ConfigTypeOK'
      BY <1>0, <2>2 DEF ConfigTypeOK
    <2>3. CliTypeOK'
      BY <1>00, <2>0, Zenon DEF CliTypeOK
    <2>4. StepsAgree'
      BY DEF StepsAgree, StoreSteps
    <2>5. PairsKept'
      BY <2>2 DEF PairsKept, Mismatched
    <2>6. Probed'
      <3>1. HostPort(config') = HostPort(file)
        BY <2>2 DEF HostPort
      <3>2. (Answers(config))' <=> Answers(file)
        BY <2>2, <3>1 DEF Answers, HostPort
      <3>3. (Answers(file))' <=> Answers(file)
        BY DEF Answers, HostPort
      <3> QED  BY <2>1, <2>2, <3>2, <3>3 DEF Probed, CallsGoWhereProbed
    <2>7. LastEverywhere'
      <3>1. Key(file) \in Keys => file.host # Nil
        BY <1>0, <2>1, KeyOfStore, NilIsNothing DEF ConfigTypeOK
      <3>2. Key(config') = Key(file)
        BY <2>2 DEF Key
      <3>3. ASSUME last # Nil
            PROVE  config'.sec \in {Nil, <<last, last>>}
        BY <2>1, <2>2, <3>1, <3>3 DEF LastEverywhere, HoldsOnly
      <3> QED  BY <2>1, <2>2, <3>2, <3>3 DEF LastEverywhere, HoldsOnly
    <2> QED  BY <2>3, <2>4, <2>5, <2>6, <2>7 DEF Safe
  <1> QED  BY <1>1, <1>2
-----------------------------------------------------------------------------
LEMMA FileStillAnswers ==
  ASSUME UNCHANGED speaks, UNCHANGED file
  PROVE  (Answers(file))' <=> Answers(file)
  BY DEF Answers, HostPort

(* configure and login hand over to Store with a configuration c of a store *)
(* that answered.                                                           *)
LEMMA BeginStoreSafe ==
  ASSUME CliTypeOK, StepsAgree, PairsKept, Probed, LastEverywhere,
         pc = "ready", NEW c \in Config, BeginStore(c),
         c.host # Nil, Answers(c),
         (~broken /\ c.sec # Nil) => c.sec[1] = c.sec[2],
         entered' \in Logins \cup {Nil}, last' \in {last, Nil},
         entered' # Nil => c.sec = <<entered', entered'>> /\ c.cred = Nil,
         last' # Nil => /\ c.cred = Nil /\ c.sec \in {Nil, <<last, last>>}
                        /\ HoldsOnly(Key(c), last),
         UNCHANGED <<broken, asking>>
  PROVE  Safe'
  <1> USE DEF BeginStore, disk, asking
  <1>1. CliTypeOK'
    <2>1. ConfigTypeOK'
      BY NilIsNothing DEF CliTypeOK, ConfigTypeOK, StoreSteps
    <2> QED  BY <2>1, Zenon DEF CliTypeOK
  <1>2. StepsAgree'
    BY NilIsNothing DEF StepsAgree, StoreSteps
  <1>3. PairsKept'
    BY DEF PairsKept, Mismatched
  <1>4. Probed'
    <2>1. (Answers(config))' <=> Answers(c)
      BY DEF Answers, HostPort
    <2>2. (Answers(file))' <=> Answers(file)
      BY FileStillAnswers
    <2> QED  BY <2>1, <2>2 DEF Probed, CallsGoWhereProbed
  <1>5. LastEverywhere'
    <2>1. Key(config') = Key(c) /\ Key(file') = Key(file)
      OBVIOUS
    <2> QED  BY <2>1 DEF LastEverywhere, HoldsOnly
  <1> QED  BY <1>1, <1>2, <1>3, <1>4, <1>5 DEF Safe

LEMMA LoginSafe ==
  ASSUME CliTypeOK, StepsAgree, PairsKept, Probed, LastEverywhere,
         UNCHANGED asking,
         \/ \E p \in Passphrases, plainText \in BOOLEAN : LoginPassphrase(p, plainText)
         \/ \E l \in Logins : LoginPlain(l) \/ LoginSecure(l)
  PROVE  Safe'
  <1>1. /\ pc = "ready" /\ config \in Config /\ config.host # Nil
        /\ entered \in Logins \cup {Nil}
    BY DEF CliTypeOK, ConfigTypeOK, Connectable, LoginPassphrase, LoginPlain, LoginSecure
  <1>2. Answers(config)
    BY <1>1, NilIsNothing DEF Probed
  <1>3. ASSUME NEW c \in Config, c.host = config.host, c.port = config.port,
               c.tls = config.tls
        PROVE  Answers(c) /\ Key(c) = Key(config)
    <2>1. HostPort(c) = HostPort(config)
      BY <1>3 DEF HostPort
    <2> QED  BY <1>2, <1>3, <2>1 DEF Answers, Key
  <1>4. entered = Nil
    BY <1>1 DEF StepsAgree, StoreSteps
  <1>5. ASSUME NEW p \in Passphrases, NEW plainText \in BOOLEAN,
               LoginPassphrase(p, plainText)
        PROVE  Safe'
    <2> DEFINE c == [config EXCEPT !.inRing = ~plainText,
                                   !.pass = IF plainText THEN @ ELSE p]
    <2>1. /\ c \in Config /\ c.host = config.host /\ c.port = config.port
          /\ c.tls = config.tls /\ c.cred = config.cred /\ c.sec = config.sec
      BY <1>1 DEF Config
    <2>2. BeginStore(c) /\ UNCHANGED ghosts
      BY <1>5 DEF LoginPassphrase
    <2> HIDE DEF c
    <2>3. Answers(c) /\ Key(c) = Key(config)
      BY <1>3, <2>1
    <2>4. UNCHANGED <<entered, last, broken>>
      BY <2>2 DEF ghosts
    <2>5. (~broken /\ c.sec # Nil) => c.sec[1] = c.sec[2]
      BY <1>1, <2>1, NilIsNothing DEF PairsKept
    <2>6. last # Nil => /\ c.cred = Nil /\ c.sec \in {Nil, <<last, last>>}
                        /\ HoldsOnly(Key(c), last)
      BY <1>1, <2>1, <2>3, NilIsNothing DEF LastEverywhere
    <2> QED  BY <1>1, <1>4, <2>1, <2>2, <2>3, <2>4, <2>5, <2>6, BeginStoreSafe
  <1>6. ASSUME NEW l \in Logins, LoginPlain(l)
        PROVE  Safe'
    <2> DEFINE c == [config EXCEPT !.cred = l]
    <2>1. /\ c \in Config /\ c.host = config.host /\ c.port = config.port
          /\ c.tls = config.tls /\ c.sec = config.sec
      BY <1>1 DEF Config
    <2>2. BeginStore(c) /\ last' = Nil /\ UNCHANGED <<entered, broken>>
      BY <1>6 DEF LoginPlain
    <2> HIDE DEF c
    <2>3. Answers(c)
      BY <1>3, <2>1
    <2>4. (~broken /\ c.sec # Nil) => c.sec[1] = c.sec[2]
      BY <1>1, <2>1, NilIsNothing DEF PairsKept
    <2> QED  BY <1>1, <1>4, <2>1, <2>2, <2>3, <2>4, BeginStoreSafe
  <1>7. ASSUME NEW l \in Logins, LoginSecure(l)
        PROVE  Safe'
    <2> DEFINE c == LoggedIn(l)
    <2>1. /\ c \in Config /\ c.host = config.host /\ c.port = config.port
          /\ c.tls = config.tls /\ c.sec = <<l, l>> /\ c.cred = Nil
      BY <1>1 DEF Config, LoggedIn, Pairs
    <2>2. BeginStore(c) /\ entered' = l /\ last' = Nil /\ UNCHANGED broken
      BY <1>7 DEF LoginSecure
    <2> HIDE DEF c
    <2>3. Answers(c)
      BY <1>3, <2>1
    <2> QED  BY <1>1, <2>1, <2>2, <2>3, BeginStoreSafe
  <1> QED  BY <1>5, <1>6, <1>7

LEMMA ConfigureSafe ==
  ASSUME CliTypeOK, StepsAgree, PairsKept, Probed, LastEverywhere,
         UNCHANGED asking, NEW h \in Hosts, NEW p \in Ports, Configure(h, p)
  PROVE  Safe'
  <1> DEFINE old == IF config # Nil THEN config
                    ELSE [host |-> Nil, port |-> Nil, tls |-> FALSE, cred |-> Nil,
                          inRing |-> FALSE, sec |-> Nil, pass |-> Nil]
  <1>1. PICK isTls \in CheckIfTls(h, p) :
          LET new == [old EXCEPT !.host = h, !.tls = isTls,
                                 !.port = StorePort(isTls, p)]
          IN /\ Answers(new)
             /\ BeginStore(new)
             /\ last' = IF Key(new) = Key(old) THEN last ELSE Nil
             /\ UNCHANGED <<entered, broken>>
    BY DEF Configure
  <1> DEFINE new == [old EXCEPT !.host = h, !.tls = isTls,
                                !.port = StorePort(isTls, p)]
  <1>2. /\ Answers(new) /\ BeginStore(new)
        /\ last' = IF Key(new) = Key(old) THEN last ELSE Nil
        /\ UNCHANGED <<entered, broken>>
    BY <1>1
  <1>3. /\ pc = "ready" /\ config \in Config \cup {Nil} /\ broken \in BOOLEAN
        /\ entered \in Logins \cup {Nil} /\ last \in Logins \cup {Nil}
    BY DEF Configure, CliTypeOK, ConfigTypeOK
  <1>4. old \in Config
    BY <1>3 DEF Config
  <1>5. isTls \in BOOLEAN /\ StorePort(isTls, p) \in Ports \cup {Nil}
    <2>1. isTls \in BOOLEAN
      BY Zenon DEF CheckIfTls
    <2> QED  BY <2>1, Zenon DEF StorePort
  <1>6. (~broken /\ old.sec # Nil) => old.sec[1] = old.sec[2]
    BY DEF PairsKept
  <1>7. ASSUME last # Nil, old.host # Nil
        PROVE  /\ old.cred = Nil /\ old.sec \in {Nil, <<last, last>>}
               /\ HoldsOnly(Key(old), last)
    <2>1. config # Nil /\ old = config
      BY <1>7
    <2> QED  BY <1>7, <2>1 DEF LastEverywhere
  <1> HIDE DEF old
  <1>8. /\ new \in Config /\ new.host = h /\ new.sec = old.sec
        /\ new.cred = old.cred
    BY <1>4, <1>5 DEF Config
  <1> HIDE DEF new
  <1>9. h # Nil
    BY NilIsNothing
  <1>10. entered = Nil
    BY <1>3 DEF StepsAgree, StoreSteps
  <1>11. ASSUME last' # Nil
         PROVE  /\ new.cred = Nil /\ new.sec \in {Nil, <<last, last>>}
                /\ HoldsOnly(Key(new), last)
    <2>1. last # Nil /\ Key(new) = Key(old)
      BY <1>2, <1>11
    <2>2. old.host # Nil
      BY <1>8, <1>9, <2>1 DEF Key
    <2> QED  BY <1>7, <1>8, <2>1, <2>2
  <1>12. last' \in {last, Nil} /\ UNCHANGED <<broken, asking>> /\ entered' = Nil
    BY <1>2, <1>10
  <1>13. (~broken /\ new.sec # Nil) => new.sec[1] = new.sec[2]
    BY <1>6, <1>8
  <1> QED  BY <1>2, <1>3, <1>8, <1>9, <1>11, <1>12, <1>13, BeginStoreSafe
-----------------------------------------------------------------------------
(* A step of Store that goes on: the configuration stays, the file is empty *)
(* afterwards, and the keyring changes at the key of the configuration.     *)
LEMMA GoesOnSafe ==
  ASSUME CliTypeOK, StepsAgree, PairsKept, Probed, LastEverywhere,
         pc \in StoreSteps, NEW step \in StoreSteps \ {"truncate"}, Goto(step),
         file' = Blank, ring' \in [Keys -> Entry],
         \A k \in Keys : k # Key(config) =>
             ring'[k].id = ring[k].id /\ ring'[k].secret = ring[k].secret,
         step \in {"secret", "undo"} =>
             config.sec # Nil /\ ring'[Key(config)].id = config.sec[1],
         broken' \in BOOLEAN, broken => broken',
         (~broken' /\ (Mismatched(Key(config)))') => step \in {"secret", "undo"},
         last' \in Logins \cup {Nil},
         last' # Nil =>
             /\ config.cred = Nil /\ config.sec \in {Nil, <<last', last'>>}
             /\ ring'[Key(config)].id \in {last', Nil}
             /\ ring'[Key(config)].secret \in {last', Nil},
         UNCHANGED asking
  PROVE  Safe'
  <1> USE DEF Goto, asking
  <1>0. /\ config \in Config /\ config.host # Nil /\ Key(config) \in Keys
        /\ sent = Nil
    <2>1. config # Nil /\ config.host # Nil /\ sent = Nil
      BY DEF StepsAgree, StoreSteps
    <2>2. config \in Config
      BY <2>1 DEF CliTypeOK, ConfigTypeOK
    <2> QED  BY <2>1, <2>2, KeyOfStore
  <1>1. CliTypeOK'
    <2>0. Blank \in File
      BY NilIsNothing DEF Blank, File
    <2>1. ConfigTypeOK'
      BY <2>0 DEF CliTypeOK, ConfigTypeOK
    <2> QED  BY <2>1, Zenon DEF CliTypeOK
  <1>2. Key(config') = Key(config)
    OBVIOUS
  <1>3. StepsAgree'
    BY <1>0, <1>2 DEF StepsAgree, StoreSteps
  <1>4. PairsKept'
    <2>1. \A k \in Keys : k # Key(config) =>
             ((Mismatched(k))' <=> Mismatched(k))
      BY DEF Mismatched
    <2> QED  BY <1>0, <1>2, <2>1 DEF PairsKept
  <1>5. Probed'
    <2>1. (Answers(config))' <=> Answers(config)
      BY DEF Answers, HostPort
    <2>2. file'.host = Nil
      BY DEF Blank
    <2> QED  BY <1>0, <2>1, <2>2 DEF Probed, CallsGoWhereProbed
  <1>6. LastEverywhere'
    <2>1. file'.host = Nil /\ file'.cred = Nil
      BY DEF Blank
    <2> QED  BY <1>0, <1>2, <2>1 DEF LastEverywhere, HoldsOnly
  <1> QED  BY <1>1, <1>3, <1>4, <1>5, <1>6 DEF Safe

(* What holds of the configuration and its key during Store.                *)
LEMMA DuringStore ==
  ASSUME CliTypeOK, StepsAgree, LastEverywhere, pc \in StoreSteps
  PROVE  /\ config \in Config /\ config.host # Nil /\ Key(config) \in Keys
         /\ ring \in [Keys -> Entry] /\ ring[Key(config)] \in Entry
         /\ broken \in BOOLEAN /\ last \in Logins \cup {Nil}
         /\ entered \in Logins \cup {Nil}
         /\ config.sec # Nil =>
                config.sec[1] \in Logins /\ config.sec[2] \in Logins
         /\ last # Nil =>
              /\ config.cred = Nil /\ config.sec \in {Nil, <<last, last>>}
              /\ ring[Key(config)].id \in {last, Nil}
              /\ ring[Key(config)].secret \in {last, Nil}
  <1>1. config # Nil /\ config.host # Nil
    BY DEF StepsAgree, StoreSteps
  <1>2. config \in Config
    BY <1>1 DEF CliTypeOK, ConfigTypeOK
  <1>3. Key(config) \in Keys
    BY <1>1, <1>2, KeyOfStore
  <1>4. /\ ring \in [Keys -> Entry] /\ broken \in BOOLEAN
        /\ last \in Logins \cup {Nil} /\ entered \in Logins \cup {Nil}
    BY DEF CliTypeOK, ConfigTypeOK
  <1>5. config.sec # Nil => config.sec[1] \in Logins /\ config.sec[2] \in Logins
    BY <1>2 DEF Config, Pairs
  <1>6. last # Nil =>
              /\ config.cred = Nil /\ config.sec \in {Nil, <<last, last>>}
              /\ ring[Key(config)].id \in {last, Nil}
              /\ ring[Key(config)].secret \in {last, Nil}
    BY <1>1 DEF LastEverywhere, HoldsOnly
  <1> QED  BY <1>1, <1>2, <1>3, <1>4, <1>5, <1>6

LEMMA TruncateSafe ==
  ASSUME CliTypeOK, StepsAgree, PairsKept, Probed, LastEverywhere,
         Truncate, UNCHANGED asking
  PROVE  Safe'
  <1>1. pc = "truncate" /\ UNCHANGED <<ring, last, broken>>
    BY DEF Truncate
  <1>2. pc \in StoreSteps
    BY <1>1 DEF StoreSteps
  <1>3. CASE Goto("id") /\ file' = Blank
    <2>1. /\ \A k \in Keys : k # Key(config) =>
                 ring'[k].id = ring[k].id /\ ring'[k].secret = ring[k].secret
          /\ ring' = ring /\ last' = last /\ broken' = broken
      BY <1>1
    <2>2. (~broken' /\ (Mismatched(Key(config)))') => "id" \in {"secret", "undo"}
      BY <1>1, <1>2, <1>3, DuringStore DEF PairsKept, Mismatched, Goto
    <2>3. "id" \in StoreSteps \ {"truncate"} /\ "id" \notin {"secret", "undo"}
      BY DEF StoreSteps
    <2> QED  BY <1>2, <1>3, <2>1, <2>2, <2>3, DuringStore, GoesOnSafe
  <1>4. CASE Exit /\ UNCHANGED file
    BY <1>1, <1>4, QuietExitSafe DEF disk
  <1> QED  BY <1>3, <1>4 DEF Truncate

LEMMA StoreIdSafe ==
  ASSUME CliTypeOK, StepsAgree, PairsKept, Probed, LastEverywhere,
         StoreId, UNCHANGED asking
  PROVE  Safe'
  <1>1. pc = "id" /\ UNCHANGED <<file, last, broken>>
    BY DEF StoreId
  <1>2. pc \in StoreSteps /\ file' = Blank
    BY <1>1 DEF StoreSteps, StepsAgree
  <1>3. CASE Goto("pass") /\ UNCHANGED ring
    <2>1. /\ \A k \in Keys : k # Key(config) =>
                 ring'[k].id = ring[k].id /\ ring'[k].secret = ring[k].secret
          /\ ring' = ring /\ last' = last /\ broken' = broken
      BY <1>1, <1>3
    <2>2. (~broken' /\ (Mismatched(Key(config)))') => "pass" \in {"secret", "undo"}
      BY <1>1, <1>2, <1>3, DuringStore DEF PairsKept, Mismatched, Goto
    <2>3. "pass" \in StoreSteps \ {"truncate"} /\ "pass" \notin {"secret", "undo"}
      BY DEF StoreSteps
    <2> QED  BY <1>2, <1>3, <2>1, <2>2, <2>3, DuringStore, GoesOnSafe
  <1>4. CASE config.sec # Nil /\ Goto("secret") /\ Write("id", config.sec[1])
    <2>1. /\ ring' \in [Keys -> Entry]
          /\ \A k \in Keys : k # Key(config) => ring'[k] = ring[k]
          /\ ring'[Key(config)].id = config.sec[1]
          /\ ring'[Key(config)].secret = ring[Key(config)].secret
      BY <1>2, <1>4, DuringStore, WritesEntry
    <2>2. /\ \A k \in Keys : k # Key(config) =>
                 ring'[k].id = ring[k].id /\ ring'[k].secret = ring[k].secret
          /\ last' = last /\ broken' = broken
      BY <1>1, <2>1
    <2>3. "secret" \in StoreSteps \ {"truncate"}
      BY DEF StoreSteps
    <2>4. last' # Nil =>
             /\ config.cred = Nil /\ config.sec \in {Nil, <<last', last'>>}
             /\ ring'[Key(config)].id \in {last', Nil}
             /\ ring'[Key(config)].secret \in {last', Nil}
      BY <1>2, <1>4, <2>1, <2>2, DuringStore
    <2> QED  BY <1>2, <1>4, <2>1, <2>2, <2>3, <2>4, DuringStore, GoesOnSafe
  <1> QED  BY <1>3, <1>4 DEF StoreId

LEMMA StoreSecretSafe ==
  ASSUME CliTypeOK, StepsAgree, PairsKept, Probed, LastEverywhere,
         StoreSecret, UNCHANGED asking
  PROVE  Safe'
  <1>1. pc = "secret" /\ UNCHANGED <<file, broken>>
    BY DEF StoreSecret
  <1>2. /\ pc \in StoreSteps /\ file' = Blank
        /\ config.sec # Nil /\ ring[Key(config)].id = config.sec[1]
    BY <1>1 DEF StoreSteps, StepsAgree
  <1>3. CASE /\ Goto("pass") /\ Write("secret", config.sec[2])
             /\ last' = IF entered # Nil THEN entered ELSE last
    <2>1. /\ ring' \in [Keys -> Entry]
          /\ \A k \in Keys : k # Key(config) => ring'[k] = ring[k]
          /\ ring'[Key(config)].id = config.sec[1]
          /\ ring'[Key(config)].secret = config.sec[2]
      BY <1>2, <1>3, DuringStore, WritesEntry
    <2>2. /\ \A k \in Keys : k # Key(config) =>
                 ring'[k].id = ring[k].id /\ ring'[k].secret = ring[k].secret
          /\ broken' = broken
      BY <1>1, <2>1
    <2>3. "pass" \in StoreSteps \ {"truncate"} /\ "pass" \notin {"secret", "undo"}
      BY DEF StoreSteps
    <2>4. (~broken' /\ (Mismatched(Key(config)))') => "pass" \in {"secret", "undo"}
      <3>1. ~broken' => config.sec[1] = config.sec[2]
        BY <1>2, <2>2, DuringStore, NilIsNothing DEF PairsKept
      <3>2. config' = config
        BY <1>3 DEF Goto
      <3> QED  BY <2>1, <3>1, <3>2 DEF Mismatched, Key
    <2>5. last' # Nil =>
             /\ config.cred = Nil /\ config.sec \in {Nil, <<last', last'>>}
             /\ ring'[Key(config)].id \in {last', Nil}
             /\ ring'[Key(config)].secret \in {last', Nil}
      <3>1. CASE entered # Nil
        <4>1. config.sec = <<entered, entered>> /\ config.cred = Nil
          BY <3>1 DEF StepsAgree
        <4> QED  BY <1>3, <2>1, <3>1, <4>1
      <3>2. CASE entered = Nil
        BY <1>2, <1>3, <2>1, <3>2, DuringStore
      <3> QED  BY <3>1, <3>2
    <2>6. last' \in Logins \cup {Nil}
      BY <1>2, <1>3, DuringStore
    <2> QED  BY <1>2, <1>3, <2>1, <2>2, <2>3, <2>4, <2>5, <2>6, DuringStore,
                GoesOnSafe
  <1>4. CASE Goto("undo") /\ UNCHANGED <<ring, last>>
    <2>1. /\ \A k \in Keys : k # Key(config) =>
                 ring'[k].id = ring[k].id /\ ring'[k].secret = ring[k].secret
          /\ ring' = ring /\ last' = last /\ broken' = broken
      BY <1>1, <1>4
    <2>2. "undo" \in StoreSteps \ {"truncate"}
      BY DEF StoreSteps
    <2> QED  BY <1>2, <1>4, <2>1, <2>2, DuringStore, GoesOnSafe
  <1> QED  BY <1>3, <1>4 DEF StoreSecret, AfterFailedSecret

LEMMA RemoveIdSafe ==
  ASSUME CliTypeOK, StepsAgree, PairsKept, Probed, LastEverywhere,
         RemoveId, UNCHANGED asking
  PROVE  Safe'
  <1>1. pc = "undo" /\ Goto("pass") /\ UNCHANGED <<file, last>>
    BY DEF RemoveId
  <1>2. pc \in StoreSteps /\ file' = Blank /\ last' = last
    BY <1>1 DEF StoreSteps, StepsAgree
  <1>3. "pass" \in StoreSteps \ {"truncate"} /\ "pass" \notin {"secret", "undo"}
    BY DEF StoreSteps
  <1>4. CASE Write("id", Nil) /\ UNCHANGED broken
    <2>1. /\ ring' \in [Keys -> Entry]
          /\ \A k \in Keys : k # Key(config) => ring'[k] = ring[k]
          /\ ring'[Key(config)].id = Nil
          /\ ring'[Key(config)].secret = ring[Key(config)].secret
      BY <1>2, <1>4, DuringStore, WritesEntry
    <2>2. /\ \A k \in Keys : k # Key(config) =>
                 ring'[k].id = ring[k].id /\ ring'[k].secret = ring[k].secret
          /\ broken' = broken
      BY <1>4, <2>1
    <2>3. ~(Mismatched(Key(config)))'
      <3>1. config' = config
        BY <1>1 DEF Goto
      <3> QED  BY <2>1, <3>1 DEF Mismatched, Key
    <2>4. last' # Nil =>
             /\ config.cred = Nil /\ config.sec \in {Nil, <<last', last'>>}
             /\ ring'[Key(config)].id \in {last', Nil}
             /\ ring'[Key(config)].secret \in {last', Nil}
      BY <1>2, <2>1, DuringStore
    <2> QED  BY <1>1, <1>2, <1>3, <2>1, <2>2, <2>3, <2>4, DuringStore, GoesOnSafe
  <1>5. CASE broken' = TRUE /\ UNCHANGED ring
    <2>1. /\ \A k \in Keys : k # Key(config) =>
                 ring'[k].id = ring[k].id /\ ring'[k].secret = ring[k].secret
          /\ ring' = ring /\ broken' \in BOOLEAN
          /\ broken'
      BY <1>5
    <2> QED  BY <1>1, <1>2, <1>3, <2>1, DuringStore, GoesOnSafe
  <1> QED  BY <1>4, <1>5 DEF RemoveId

LEMMA StorePassphraseSafe ==
  ASSUME CliTypeOK, StepsAgree, PairsKept, Probed, LastEverywhere,
         StorePassphrase, UNCHANGED asking
  PROVE  Safe'
  <1>1. pc = "pass" /\ Goto("encode") /\ UNCHANGED <<file, last, broken>>
    BY DEF StorePassphrase
  <1>2. /\ pc \in StoreSteps /\ file' = Blank
        /\ last' = last /\ broken' = broken
    BY <1>1 DEF StoreSteps, StepsAgree
  <1>3. "encode" \in StoreSteps \ {"truncate"} /\ "encode" \notin {"secret", "undo"}
    BY DEF StoreSteps
  <1>4. /\ ring' \in [Keys -> Entry]
        /\ \A k \in Keys :
               ring'[k].id = ring[k].id /\ ring'[k].secret = ring[k].secret
    <2>1. CASE config.pass # Nil /\ Write("pass", config.pass)
      <3>1. config.pass \in Passphrases
        BY <1>2, <2>1, DuringStore DEF Config
      <3> QED  BY <1>2, <2>1, <3>1, DuringStore, WritesEntry
    <2>2. CASE UNCHANGED ring
      BY <1>2, <2>2, DuringStore
    <2> QED  BY <2>1, <2>2 DEF StorePassphrase
  <1>5. ~broken' => ~(Mismatched(Key(config)))'
    <2>1. config' = config
      BY <1>1 DEF Goto
    <2>2. ~broken => ~Mismatched(Key(config))
      BY <1>1, <1>2, DuringStore DEF PairsKept
    <2> QED  BY <1>2, <1>4, <2>1, <2>2, DuringStore DEF Mismatched, Key
  <1>6. Key(config) \in Keys
    BY <1>2, DuringStore
  <1>7. last' # Nil =>
             /\ config.cred = Nil /\ config.sec \in {Nil, <<last', last'>>}
             /\ ring'[Key(config)].id \in {last', Nil}
             /\ ring'[Key(config)].secret \in {last', Nil}
    BY <1>2, <1>4, <1>6, DuringStore
  <1> QED  BY <1>1, <1>2, <1>3, <1>4, <1>5, <1>7, DuringStore, GoesOnSafe

LEMMA EncodeSafe ==
  ASSUME CliTypeOK, StepsAgree, PairsKept, Probed, LastEverywhere,
         Encode, UNCHANGED asking
  PROVE  Safe'
  <1>1. pc = "encode" /\ Exit /\ UNCHANGED <<ring, last, broken>>
    BY DEF Encode
  <1>2. pc \in StoreSteps /\ pc \notin {"secret", "undo"}
    BY <1>1 DEF StoreSteps
  <1>3. CASE UNCHANGED file
    BY <1>1, <1>2, <1>3, QuietExitSafe DEF disk
  <1>4. CASE file' = [host |-> config.host, port |-> config.port,
                      tls |-> config.tls, cred |-> config.cred,
                      inRing |-> config.inRing]
    <2> USE DEF Exit, asking
    <2>1. /\ file' \in File /\ file'.host = config.host
          /\ file'.port = config.port /\ file'.tls = config.tls
          /\ file'.cred = config.cred
      BY <1>2, <1>4, DuringStore DEF Config, File
    <2>2. CliTypeOK'
      <3>1. ConfigTypeOK'
        BY <1>1, <2>1 DEF CliTypeOK, ConfigTypeOK
      <3> QED  BY <3>1, Zenon DEF CliTypeOK
    <2>3. StepsAgree' /\ PairsKept'
      BY <1>1 DEF StepsAgree, PairsKept, StoreSteps, Mismatched
    <2>4. Probed'
      <3>1. HostPort(file') = HostPort(config)
        BY <2>1 DEF HostPort
      <3>2. Answers(config)
        BY <1>2, DuringStore, NilIsNothing DEF Probed
      <3>3. (Answers(file))'
        BY <1>1, <2>1, <3>1, <3>2 DEF Answers, HostPort
      <3>4. sent = Nil
        BY <1>1 DEF StepsAgree
      <3> QED  BY <1>1, <3>3, <3>4 DEF Probed, CallsGoWhereProbed
    <2>5. LastEverywhere'
      <3>1. Key(file') = Key(config)
        BY <2>1 DEF Key
      <3>2. sent = Nil /\ config # Nil
        BY <1>1, <1>2, DuringStore, NilIsNothing DEF StepsAgree
      <3> QED
        BY <1>1, <1>2, <2>1, <3>1, <3>2, DuringStore DEF LastEverywhere, HoldsOnly
    <2> QED  BY <2>2, <2>3, <2>4, <2>5 DEF Safe
  <1> QED  BY <1>3, <1>4 DEF Encode

LEMMA KillSafe ==
  ASSUME CliTypeOK, StepsAgree, PairsKept, Probed, LastEverywhere,
         Kill, UNCHANGED asking
  PROVE  Safe'
  <1>1. /\ Exit /\ UNCHANGED <<disk, last>> /\ pc # "shell"
        /\ broken' = (broken \/ pc \in {"secret", "undo"})
    BY DEF Kill
  <1>2. /\ asked \in 0..2 /\ broken \in BOOLEAN
        /\ sent \in CallMade \cup {Nil} /\ sent = Nil
    BY <1>1 DEF CliTypeOK, ConfigTypeOK, StepsAgree
  <1>3. CallsGoWhereProbed' /\ ReadUsesLatestLogin'
    BY <1>2 DEF CallsGoWhereProbed, ReadUsesLatestLogin, asking
  <1>4. broken' \in BOOLEAN
    BY <1>1, Zenon
  <1> QED  BY <1>1, <1>2, <1>3, <1>4, ExitSafe DEF asking
-----------------------------------------------------------------------------
(* The commands that call a store.                                          *)

LEMMA StaysSafe ==
  ASSUME CliTypeOK, StepsAgree, PairsKept, Probed, LastEverywhere,
         pc \in {"ready", "confirm"}, cmd \in Calls, Connectable,
         pc' \in {"confirm", "call"}, pc' = "confirm" => asked' \in 1..2,
         asked' \in 0..2,
         UNCHANGED <<speaks, disk, cmd, config, ghosts, sent>>
  PROVE  Safe'
  <1> USE DEF disk, ghosts
  <1>1. CliTypeOK'
    <2>1. ConfigTypeOK'
      BY DEF CliTypeOK, ConfigTypeOK
    <2> QED  BY <2>1, Zenon DEF CliTypeOK
  <1>2. StepsAgree'
    BY DEF StepsAgree, StoreSteps, Connectable
  <1>3. PairsKept'
    BY DEF PairsKept, Mismatched
  <1>4. Probed'
    BY DEF Probed, CallsGoWhereProbed, Answers, HostPort
  <1>5. LastEverywhere'
    BY DEF LastEverywhere, HoldsOnly, Key
  <1> QED  BY <1>1, <1>2, <1>3, <1>4, <1>5 DEF Safe

LEMMA PrepareSafe ==
  ASSUME CliTypeOK, StepsAgree, PairsKept, Probed, LastEverywhere,
         NEW group \in SUBSET Calls, Prepare(group)
  PROVE  Safe'
  <1>1. cmd \in Calls /\ Connectable /\ pc = "ready"
    BY DEF Prepare
  <1>2. Confirmations[cmd] \in 0..2
    BY <1>1 DEF Confirmations
  <1>3. /\ UNCHANGED <<speaks, disk, cmd, config, ghosts, sent>>
        /\ asked' = Confirmations[cmd]
        /\ pc' = IF asked' = 0 THEN "call" ELSE "confirm"
    BY DEF Prepare
  <1>4. asked' \in 0..2 /\ (pc' = "confirm" => asked' \in 1..2)
    BY <1>2, <1>3
  <1>5. pc' \in {"confirm", "call"}
    BY <1>3
  <1> QED  BY <1>1, <1>3, <1>4, <1>5, StaysSafe

LEMMA ConfirmSafe ==
  ASSUME CliTypeOK, StepsAgree, PairsKept, Probed, LastEverywhere,
         NEW yes \in BOOLEAN, Confirm(yes)
  PROVE  Safe'
  <1>1. /\ pc = "confirm" /\ asked' = asked - 1
        /\ UNCHANGED <<disk, last, broken, sent>>
    BY DEF Confirm
  <1>2. /\ cmd \in Calls /\ Connectable /\ asked \in 1..2 /\ sent = Nil
    BY <1>1 DEF StepsAgree, Connectable
  <1>3. asked' \in 0..2 /\ (asked # 1 => asked' \in 1..2)
    BY <1>1, <1>2
  <1>4. CASE Exit
    <2>1. /\ broken \in BOOLEAN /\ sent' = Nil /\ broken' = broken
      BY <1>1, <1>2 DEF CliTypeOK, ConfigTypeOK
    <2>2. CallsGoWhereProbed' /\ ReadUsesLatestLogin'
      BY <2>1 DEF CallsGoWhereProbed, ReadUsesLatestLogin
    <2> QED  BY <1>1, <1>3, <1>4, <2>1, <2>2, ExitSafe
  <1>5. CASE /\ pc' = IF asked = 1 THEN "call" ELSE "confirm"
             /\ UNCHANGED <<speaks, cmd, config, entered>>
    <2>1. /\ pc' \in {"confirm", "call"} /\ (pc' = "confirm" => asked # 1)
          /\ UNCHANGED <<speaks, disk, cmd, config, ghosts, sent>>
      BY <1>1, <1>5 DEF ghosts
    <2> QED  BY <1>1, <1>2, <1>3, <2>1, StaysSafe
  <1> QED  BY <1>4, <1>5 DEF Confirm

(* A call goes to the store of the configuration, and what it presents is   *)
(* that store's.                                                            *)
LEMMA SendSafe ==
  ASSUME CliTypeOK, StepsAgree, PairsKept, Probed, LastEverywhere,
         NEW c \in Calls,
         NEW credentials \in SUBSET (Pairs \cup Passphrases \cup {Nil}),
         last # Nil => \A a \in credentials : a \in Pairs => a = <<last, last>>,
         Send(c, credentials)
  PROVE  Safe'
  <1>1. /\ pc = "call" /\ Exit /\ UNCHANGED <<disk, last, broken, asked>>
    BY DEF Send
  <1>2. PICK a \in credentials :
          sent' = [to |-> Address, tls |-> config.tls, cmd |-> c, auth |-> a]
    BY DEF Send
  <1>3. config \in Config /\ config.host # Nil /\ Answers(config)
    BY <1>1, NilIsNothing DEF StepsAgree, Probed, CliTypeOK, ConfigTypeOK
  <1>4. /\ Address \in Hosts \X Ports
        /\ speaks[Address] = (IF config.tls THEN "tls" ELSE "plain")
    BY <1>3 DEF Answers, Address
  <1>5. Address \in Hosts \X Nat /\ config.tls \in BOOLEAN
    BY <1>3, <1>4, NilIsNothing DEF Config
  <1>6. /\ sent'.to = Address /\ sent'.tls = config.tls /\ sent'.auth = a
        /\ sent' \in CallMade
    BY <1>2, <1>5 DEF CallMade
  <1>7. CallsGoWhereProbed'
    BY <1>1, <1>4, <1>6 DEF CallsGoWhereProbed, Exit
  <1>8. ReadUsesLatestLogin'
    BY <1>1, <1>6 DEF ReadUsesLatestLogin
  <1>9. /\ asked' \in 0..2 /\ broken' = broken
        /\ broken' \in BOOLEAN
    BY <1>1 DEF CliTypeOK, ConfigTypeOK
  <1> QED  BY <1>1, <1>6, <1>7, <1>8, <1>9, ExitSafe

LEMMA CallSafe ==
  ASSUME CliTypeOK, StepsAgree, PairsKept, Probed, LastEverywhere, Call
  PROVE  Safe'
  <1>1. pc = "call" /\ config # Nil
    BY DEF Call, Send, Info, LockStore, UnlockStore, SetRecoveryRecipient,
           ExportItems, ListItems, ReadItem, CreateItem, DeleteItems,
           CreateClient, DeleteClient, StepsAgree
  <1>2. config \in Config
    BY <1>1 DEF CliTypeOK, ConfigTypeOK
  <1>3. /\ Passphrases \subseteq Pairs \cup Passphrases \cup {Nil}
        /\ {Nil} \subseteq Pairs \cup Passphrases \cup {Nil}
        /\ \A a \in Passphrases \cup {Nil} : a \notin Pairs
    BY NilIsNothing
  <1>4. Passphrase \subseteq Passphrases
    BY <1>2 DEF Passphrase, Config
  <1>5. ReadCredentials \subseteq Pairs \cup Passphrases \cup {Nil}
    <2>1. CASE config.sec # Nil
      BY <1>2, <2>1 DEF ReadCredentials, Config
    <2>2. CASE config.sec = Nil /\ config.cred # Nil
      BY <1>2, <2>2 DEF ReadCredentials, Config, Pairs
    <2>3. CASE config.sec = Nil /\ config.cred = Nil
      BY <1>4, <2>3 DEF ReadCredentials
    <2> QED  BY <2>1, <2>2, <2>3
  <1>6. ASSUME last # Nil, NEW a \in ReadCredentials, a \in Pairs
        PROVE  a = <<last, last>>
    <2>1. config.cred = Nil /\ config.sec \in {Nil, <<last, last>>}
      BY <1>1, <1>6 DEF LastEverywhere
    <2>2. config.sec = Nil => a \in Passphrases
      BY <1>4, <1>6, <2>1 DEF ReadCredentials
    <2> QED  BY <1>3, <1>6, <2>1, <2>2 DEF ReadCredentials
  <1>7. ASSUME NEW c \in Calls, Send(c, ReadCredentials)
        PROVE  Safe'
    BY <1>5, <1>6, <1>7, SendSafe
  <1>8. ASSUME NEW c \in Calls,
               NEW credentials \in SUBSET (Passphrases \cup {Nil}),
               Send(c, credentials)
        PROVE  Safe'
    <2>1. credentials \subseteq Pairs \cup Passphrases \cup {Nil}
      BY <1>3
    <2>2. \A a \in credentials : a \in Pairs => a = <<last, last>>
      BY <1>3
    <2> QED  BY <1>8, <2>1, <2>2, SendSafe
  <1>9. {"info", "lock", "unlock", "recovery", "export", "list", "read", "create",
         "delete", "client", "clientDelete"} \subseteq Calls
    BY DEF Calls, Commands
  <1>10. CASE ReadItem
    BY <1>7, <1>9, <1>10 DEF ReadItem
  <1>11. CASE Info \/ LockStore
    BY <1>8, <1>9, <1>11 DEF Info, LockStore
  <1>12. CASE UnlockStore \/ SetRecoveryRecipient \/ ExportItems
    BY <1>8, <1>9, <1>12 DEF UnlockStore, SetRecoveryRecipient, ExportItems
  <1>13. CASE ListItems \/ CreateItem \/ DeleteItems \/ CreateClient \/ DeleteClient
    BY <1>4, <1>8, <1>9, <1>13
    DEF ListItems, CreateItem, DeleteItems, CreateClient, DeleteClient
  <1> QED  BY <1>10, <1>11, <1>12, <1>13 DEF Call
-----------------------------------------------------------------------------
LEMMA ConfigStepSafe ==
  ASSUME CliTypeOK, StepsAgree, PairsKept, Probed, LastEverywhere,
         ConfigNext, UNCHANGED asking
  PROVE  Safe'
  <1>1. ASSUME Unconfigured PROVE Safe'
    BY <1>1, QuietExitSafe DEF Unconfigured
  <1>2. ASSUME GiveUp PROVE Safe'
    BY <1>2, QuietExitSafe DEF GiveUp
  <1>3. ASSUME \/ \E p \in Passphrases, plainText \in BOOLEAN :
                     LoginPassphrase(p, plainText)
               \/ \E l \in Logins : LoginPlain(l) \/ LoginSecure(l)
        PROVE  Safe'
    BY <1>3, LoginSafe
  <1>4. ASSUME Truncate \/ StoreId \/ StoreSecret \/ RemoveId
        PROVE  Safe'
    BY <1>4, TruncateSafe, StoreIdSafe, StoreSecretSafe, RemoveIdSafe
  <1>5. ASSUME StorePassphrase \/ Encode \/ Kill
        PROVE  Safe'
    BY <1>5, StorePassphraseSafe, EncodeSafe, KillSafe
  <1> QED  BY <1>1, <1>2, <1>3, <1>4, <1>5, ConfigureSafe DEF ConfigNext

LEMMA StepSafe == Safe /\ [Next]_vars => Safe'
  <1> SUFFICES ASSUME CliTypeOK, StepsAgree, PairsKept, Probed, LastEverywhere,
                      [Next]_vars
               PROVE  Safe'
    BY DEF Safe
  <1>1. ASSUME NEW c \in Commands, Begin(c) PROVE Safe'
    BY <1>1, BeginSafe
  <1>2. ASSUME ConfigNext, UNCHANGED asking PROVE Safe'
    BY <1>2, ConfigStepSafe
  <1>3. ASSUME Refuse PROVE Safe'
    BY <1>3, QuietExitSafe DEF Refuse
  <1>4. ASSUME PrepareStore \/ PrepareItem \/ PrepareClient PROVE Safe'
    <2>1. /\ {"info", "unlock", "lock", "recovery", "export"} \in SUBSET Calls
          /\ {"list", "read", "create", "delete"} \in SUBSET Calls
          /\ {"client", "clientDelete"} \in SUBSET Calls
      BY DEF Calls, Commands
    <2> QED  BY <1>4, <2>1, PrepareSafe DEF PrepareStore, PrepareItem, PrepareClient
  <1>5. ASSUME Call PROVE Safe'
    BY <1>5, CallSafe
  <1>6. ASSUME NEW yes \in BOOLEAN, Confirm(yes) PROVE Safe'
    BY <1>6, ConfirmSafe
  <1>7. ASSUME UNCHANGED vars PROVE Safe'
    <2> USE <1>7 DEF vars, configVars, disk, ghosts, asking
    <2>1. CliTypeOK'
      <3>1. ConfigTypeOK'
        BY DEF CliTypeOK, ConfigTypeOK
      <3> QED  BY <3>1, Zenon DEF CliTypeOK
    <2>2. StepsAgree' /\ PairsKept'
      BY DEF StepsAgree, PairsKept, Mismatched
    <2>3. Probed'
      BY DEF Probed, CallsGoWhereProbed, Answers, HostPort
    <2>4. LastEverywhere'
      BY DEF LastEverywhere, HoldsOnly, Key
    <2> QED  BY <2>1, <2>2, <2>3, <2>4 DEF Safe
  <1> QED  BY <1>1, <1>2, <1>3, <1>4, <1>5, <1>6, <1>7 DEF Next

LEMMA AlwaysSafe == Spec => []Safe
  BY InitSafe, StepSafe, PTL DEF Spec
-----------------------------------------------------------------------------
(* CliTypeOK always holds: whatever the file and the keyring hold, Load makes  *)
(* a configuration of it.                                                   *)
THEOREM CliTypeCorrect == Spec => []CliTypeOK
  <1>1. Safe => CliTypeOK
    BY DEF Safe
  <1> QED  BY <1>1, AlwaysSafe, PTL

(* The id and the secret in the keyring of a store are of one login.        *)
THEOREM PairsOfOneLogin == Spec => []PairFromOneLogin
  <1>1. Safe => PairFromOneLogin
    BY DEF Safe, PairsKept, Mismatched, PairFromOneLogin
  <1> QED  BY <1>1, AlwaysSafe, PTL

(* Calls go to an address, and over the transport, at which a store         *)
(* answered when it was configured.                                         *)
THEOREM CallsToProbedStores == Spec => []CallsGoWhereProbed
  <1>1. Safe => CallsGoWhereProbed
    BY DEF Safe, Probed
  <1> QED  BY <1>1, AlwaysSafe, PTL

(* item read presents the credentials of the last login stored in full.     *)
THEOREM LatestLoginIsRead == Spec => []ReadUsesLatestLogin
  <1>1. Safe => ReadUsesLatestLogin
    BY DEF Safe, LastEverywhere, ReadUsesLatestLogin
  <1> QED  BY <1>1, AlwaysSafe, PTL
=============================================================================
