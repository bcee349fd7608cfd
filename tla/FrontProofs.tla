----------------------------- MODULE FrontProofs -----------------------------
(***************************************************************************)
(* Proofs about module Front, for every set of addresses and connections,  *)
(* any number of renewals and all faults.  `Safe' is the inductive         *)
(* invariant: how far the operator is says what the two files hold; the    *)
(* stages of the server say which of its variables are set; and the pair   *)
(* that is served, or about to be, lies between what was installed before  *)
(* and what the files hold.                                                *)
(***************************************************************************)
EXTENDS Front, TLAPS

(* What the files hold at each stage of a renewal.                          *)
FilesFollow ==
    /\ renewal \in {"done", "signal"} => certFile = version /\ keyFile = version
    /\ renewal = "cert" => certFile = Torn /\ keyFile = version
    /\ renewal = "between" => certFile = version + 1 /\ keyFile = version
    /\ renewal = "key" => certFile = version + 1 /\ keyFile = Torn
    /\ renewal \in {"cert", "between", "key"} => version < MaxVersion

(* Who is where: the reloader exists once the first pair is loaded.         *)
StagesAgree ==
    /\ reloader # "none" => main \in {"binding", "serving"}
    /\ main \in {"down", "loading"} => certificate = Nil
    /\ (prod /\ main \in {"binding", "serving"}) => certificate # Nil
    /\ read # Nil => main = "loading" \/ reloader = "reading"
    /\ \A c \in Conns : conn[c] \in {"queued", "handed"} => main = "serving"

(* Nothing that was or will be installed is newer than the files.           *)
PairsInOrder ==
    /\ certificate # Nil => Matched(certificate) /\ certificate.cert <= version
    /\ (certificate # Nil /\ read # Nil) => certificate.cert <= read
    /\ \A c \in Conns : shown[c] # Nil => Matched(shown[c])

PeersKnown ==
    \A c \in Conns :
        /\ conn[c] = "queued" => peer[c] \in Peers
        /\ (prod /\ conn[c] = "handed") => peer[c].remote \in Elsewhere

Safe == FrontTypeOK /\ FilesFollow /\ StagesAgree /\ PairsInOrder /\ PeersKnown
-----------------------------------------------------------------------------
(* The start is safe.                                                       *)
LEMMA InitSafe == Init => Safe
  <1> SUFFICES ASSUME Init PROVE Safe
    OBVIOUS
  <1> USE FrontAssumption DEF Init
  <1>0. 0 \in Versions
    BY DEF Versions
  <1>1. FrontTypeOK
    BY <1>0 DEF FrontTypeOK
  <1>2. FilesFollow /\ StagesAgree /\ PairsInOrder /\ PeersKnown
    BY DEF FilesFollow, StagesAgree, PairsInOrder, PeersKnown
  <1> QED  BY <1>1, <1>2 DEF Safe

(* A pair that LoadX509KeyPair returns is matched, and not older than the   *)
(* one in use.                                                              *)
LEMMA LoadedIsMatched ==
  ASSUME Safe, read # Nil, LoadedPair(read, keyFile) # Nil
  PROVE  LET pair == LoadedPair(read, keyFile)
         IN /\ pair \in Pairs /\ Matched(pair) /\ pair.cert <= version
            /\ certificate # Nil => certificate.cert <= pair.cert
  <1> DEFINE pair == LoadedPair(read, keyFile)
  <1>1. pair = [cert |-> read, key |-> keyFile] /\ read = keyFile
    BY DEF LoadedPair
  <1>2. read \in Versions /\ keyFile # Torn
    BY <1>1, FrontAssumption DEF Safe, FrontTypeOK
  <1>3. keyFile = version
    BY <1>2 DEF Safe, FrontTypeOK, FilesFollow
  <1>4. version \in Nat
    BY FrontAssumption DEF Safe, FrontTypeOK, Versions
  <1>5. pair \in Pairs /\ pair.cert = read /\ pair.key = read
    BY <1>1, <1>2 DEF Pairs
  <1>6. Matched(pair) /\ pair.cert <= version
    BY <1>1, <1>3, <1>4, <1>5 DEF Matched
  <1>7. certificate # Nil => certificate.cert <= pair.cert
    BY <1>5 DEF Safe, PairsInOrder
  <1> QED  BY <1>5, <1>6, <1>7

(* The end of the process leaves nothing behind.                            *)
LEMMA EndSafe ==
  ASSUME Safe, NEW why \in {"start", "signal", "accept", "lookup"}, End(why),
         \/ UNCHANGED files
         \/ renewal = "signal" /\ renewal' = "done"
               /\ UNCHANGED <<certFile, keyFile, version>>
  PROVE  Safe'
  <1> USE FrontAssumption DEF End, files
  <1>1. FrontTypeOK'
    BY DEF Safe, FrontTypeOK
  <1>2. FilesFollow'
    BY DEF Safe, FilesFollow
  <1>3. \A c \in Conns : conn'[c] \in {"away", "closed"}
    OBVIOUS
  <1>4. StagesAgree' /\ PairsInOrder' /\ PeersKnown'
    BY <1>3 DEF Safe, StagesAgree, PairsInOrder, PeersKnown
  <1> QED  BY <1>1, <1>2, <1>4 DEF Safe

(* The stages of the start and of the reloader.                             *)
LEMMA StartSafe ==
  ASSUME Safe, NEW production \in BOOLEAN, Start(production) PROVE Safe'
  <1> USE FrontAssumption DEF Start, files, connections
  <1>1. FrontTypeOK' /\ FilesFollow'
    BY DEF Safe, FrontTypeOK, FilesFollow
  <1>2. reloader = "none" /\ read = Nil /\ \A c \in Conns : conn[c] \notin {"queued", "handed"}
    BY DEF Safe, StagesAgree, FrontTypeOK
  <1> QED  BY <1>1, <1>2 DEF Safe, StagesAgree, PairsInOrder, PeersKnown

LEMMA BindSafe == ASSUME Safe, Bind PROVE Safe'
  <1> USE DEF Bind, files, connections
  <1>1. FrontTypeOK' /\ FilesFollow'
    BY DEF Safe, FrontTypeOK, FilesFollow
  <1>2. prod => certificate # Nil
    BY DEF Safe, StagesAgree
  <1> QED  BY <1>1, <1>2 DEF Safe, StagesAgree, PairsInOrder, PeersKnown

LEMMA ReadCertificateSafe == ASSUME Safe, ReadCertificate PROVE Safe'
  <1> USE FrontAssumption DEF ReadCertificate, files, connections
  <1>1. CASE End("start")
    BY <1>1, EndSafe
  <1>2. CASE /\ main = "loading" \/ reloader = "reading"
             /\ certFile # Torn /\ read' = certFile
             /\ UNCHANGED <<main, prod, certificate, reloader, pending, ended,
                            connections>>
    <2>1. read' \in Versions /\ version \in Nat
      BY <1>2 DEF Safe, FrontTypeOK, Versions
    <2>2. FrontTypeOK' /\ FilesFollow'
      BY <1>2, <2>1 DEF Safe, FrontTypeOK, FilesFollow
    <2>3. certificate # Nil => certificate \in Pairs /\ certificate.cert \in Nat
      BY DEF Safe, FrontTypeOK, Pairs, Versions
    <2>4. read' \in {version, version + 1}
      BY <1>2 DEF Safe, FrontTypeOK, FilesFollow
    <2>5. PairsInOrder'
      BY <1>2, <2>1, <2>3, <2>4 DEF Safe, PairsInOrder, Matched
    <2> QED  BY <1>2, <2>2, <2>5 DEF Safe, StagesAgree, PeersKnown
  <1>3. CASE /\ reloader = "reading" /\ certificate' = certificate
             /\ reloader' = "waiting"
             /\ UNCHANGED <<main, prod, read, pending, ended, connections>>
    <2>1. FrontTypeOK' /\ FilesFollow'
      BY <1>3 DEF Safe, FrontTypeOK, FilesFollow
    <2> QED  BY <1>3, <2>1 DEF Safe, StagesAgree, PairsInOrder, PeersKnown
  <1> QED  BY <1>1, <1>2, <1>3 DEF Installed

LEMMA ReadKeySafe == ASSUME Safe, ReadKey PROVE Safe'
  <1> DEFINE pair == LoadedPair(read, keyFile)
  <1> USE FrontAssumption DEF files, connections
  <1>1. CASE End("start")
    BY <1>1, EndSafe DEF ReadKey
  <1>2. CASE /\ pair # Nil /\ certificate' = pair
             /\ \/ /\ main = "loading" /\ main' = "binding"
                   /\ reloader' = "starting"
                \/ reloader = "reading" /\ main' = main /\ reloader' = "waiting"
             /\ read' = Nil
             /\ UNCHANGED <<prod, pending, ended, connections, files>>
    <2>1. pair \in Pairs /\ Matched(pair) /\ pair.cert <= version
      BY <1>2, LoadedIsMatched DEF ReadKey
    <2>2. FrontTypeOK' /\ FilesFollow'
      BY <1>2, <2>1 DEF Safe, FrontTypeOK, FilesFollow
    <2>3. StagesAgree'
      BY <1>2, <2>1 DEF Safe, StagesAgree
    <2>4. PairsInOrder'
      BY <1>2, <2>1 DEF Safe, PairsInOrder, Matched
    <2> QED  BY <1>2, <2>2, <2>3, <2>4 DEF Safe, PeersKnown
  <1>3. CASE /\ reloader = "reading" /\ certificate' = certificate
             /\ read' = Nil /\ reloader' = "waiting"
             /\ UNCHANGED <<main, prod, pending, ended, connections, files>>
    <2>1. FrontTypeOK' /\ FilesFollow'
      BY <1>3 DEF Safe, FrontTypeOK, FilesFollow
    <2> QED  BY <1>3, <2>1 DEF Safe, StagesAgree, PairsInOrder, PeersKnown
  <1> QED  BY <1>1, <1>2, <1>3 DEF ReadKey, Installed

LEMMA SignalsSafe ==
  ASSUME Safe, Register \/ TakeSignal PROVE Safe'
  <1> USE FrontAssumption DEF Register, TakeSignal, files, connections
  <1>1. FrontTypeOK' /\ FilesFollow'
    BY DEF Safe, FrontTypeOK, FilesFollow
  <1>2. read = Nil
    BY DEF Safe, StagesAgree, FrontTypeOK
  <1> QED  BY <1>1, <1>2 DEF Safe, StagesAgree, PairsInOrder, PeersKnown

LEMMA HangupSafe == ASSUME Safe, Hangup PROVE Safe'
  <1> USE FrontAssumption DEF Hangup, Delivered
  <1>1. CASE End("signal")
    BY <1>1, EndSafe
  <1>2. CASE /\ pending' \in BOOLEAN
             /\ UNCHANGED <<main, prod, certificate, reloader, read, ended,
                            connections>>
    <2>1. FrontTypeOK' /\ FilesFollow'
      BY <1>2 DEF Safe, FrontTypeOK, FilesFollow, connections
    <2> QED  BY <1>2, <2>1 DEF Safe, StagesAgree, PairsInOrder, PeersKnown, connections
  <1>3. pending \in BOOLEAN
    BY DEF Safe, FrontTypeOK
  <1> QED  BY <1>1, <1>2, <1>3 DEF process
-----------------------------------------------------------------------------
(* Connections.                                                             *)

LEMMA ConnectSafe ==
  ASSUME Safe, NEW c \in Conns, NEW p \in Peers, Connect(c, p) PROVE Safe'
  <1> USE FrontAssumption DEF Connect, files, process
  <1>1. FrontTypeOK' /\ FilesFollow'
    BY DEF Safe, FrontTypeOK, FilesFollow
  <1>2. StagesAgree' /\ PairsInOrder' /\ PeersKnown'
    BY DEF Safe, FrontTypeOK, StagesAgree, PairsInOrder, PeersKnown
  <1> QED  BY <1>1, <1>2 DEF Safe

(* Whoever the search of isLocalHost finds not to be local is elsewhere.    *)
LEMMA NotLocalIsElsewhere ==
  ASSUME NEW p \in Peers, "no" \in IsLocalHost(p) PROVE p.remote \in Elsewhere
  BY DEF Peers, IsLocalHost

LEMMA AcceptSafe ==
  ASSUME Safe, NEW c \in Conns, Accept(c) PROVE Safe'
  <1> USE FrontAssumption DEF Accept, Decide, files, process
  <1>1. peer[c] \in Peers /\ conn[c] = "queued" /\ main = "serving"
    BY DEF Safe, PeersKnown
  <1>2. PICK what \in {"handed", "closed"} :
          /\ Decide(c, what)
          /\ (prod /\ what = "handed") => peer[c].remote \in Elsewhere
    BY <1>1, NotLocalIsElsewhere DEF TurnAway
  <1>3. FrontTypeOK' /\ FilesFollow'
    BY <1>2 DEF Safe, FrontTypeOK, FilesFollow
  <1>4. StagesAgree' /\ PairsInOrder'
    BY <1>1, <1>2 DEF Safe, FrontTypeOK, StagesAgree, PairsInOrder
  <1>5. PeersKnown'
    BY <1>1, <1>2 DEF Safe, FrontTypeOK, PeersKnown
  <1> QED  BY <1>3, <1>4, <1>5 DEF Safe

LEMMA GetCertificateSafe ==
  ASSUME Safe, NEW c \in Conns, GetCertificate(c) PROVE Safe'
  <1> USE FrontAssumption DEF GetCertificate, files, process
  <1>1. certificate \in Pairs /\ Matched(certificate)
    BY DEF Safe, FrontTypeOK, StagesAgree, PairsInOrder
  <1>2. FrontTypeOK' /\ FilesFollow'
    BY <1>1 DEF Safe, FrontTypeOK, FilesFollow
  <1>3. StagesAgree' /\ PairsInOrder' /\ PeersKnown'
    BY <1>1 DEF Safe, FrontTypeOK, StagesAgree, PairsInOrder, PeersKnown, Matched
  <1> QED  BY <1>2, <1>3 DEF Safe

LEMMA RenewSafe == ASSUME Safe, Renew PROVE Safe'
  <1> USE FrontAssumption DEF Renew, process, connections
  <1>1. version \in Nat /\ version <= MaxVersion
    BY DEF Safe, FrontTypeOK, Versions
  <1>2. version < MaxVersion => version + 1 \in Versions
    BY <1>1 DEF Versions
  <1>3. FrontTypeOK'
    BY <1>1, <1>2 DEF Safe, FrontTypeOK, FilesFollow
  <1>4. FilesFollow'
    BY <1>1 DEF Safe, FrontTypeOK, FilesFollow
  <1>5. certificate # Nil => certificate.cert \in Nat
    BY DEF Safe, FrontTypeOK, Pairs, Versions
  <1>6. StagesAgree' /\ PairsInOrder' /\ PeersKnown'
    BY <1>1, <1>5 DEF Safe, StagesAgree, PairsInOrder, PeersKnown, Matched
  <1> QED  BY <1>3, <1>4, <1>6 DEF Safe
-----------------------------------------------------------------------------
(* Every step keeps the invariant.                                          *)
LEMMA StepSafe == ASSUME Safe, [Next]_vars PROVE Safe'
  <1>1. CASE UNCHANGED vars
    BY <1>1 DEF vars, process, files, connections, Safe, FrontTypeOK, FilesFollow,
                StagesAgree, PairsInOrder, PeersKnown, Matched
  <1>2. CASE \E production \in BOOLEAN : Start(production)
    BY <1>2, StartSafe
  <1>3. CASE FailToStart \/ AcceptFails
    BY <1>3, EndSafe DEF FailToStart, AcceptFails
  <1>4. CASE Bind \/ Load \/ Register \/ TakeSignal
    BY <1>4, BindSafe, ReadCertificateSafe, ReadKeySafe, SignalsSafe DEF Load
  <1>5. ASSUME NEW c \in Conns,
               Accept(c) \/ GetCertificate(c) \/ \E p \in Peers : Connect(c, p)
        PROVE  Safe'
    BY <1>5, AcceptSafe, GetCertificateSafe, ConnectSafe
  <1>6. CASE Hangup \/ Renew
    BY <1>6, HangupSafe, RenewSafe
  <1> QED  BY <1>1, <1>2, <1>3, <1>4, <1>5, <1>6 DEF Next

LEMMA AlwaysSafe == Spec => []Safe
  BY InitSafe, StepSafe, PTL DEF Spec

(* The variables of Front keep their types.                                 *)
THEOREM FrontTypeCorrect == Spec => []FrontTypeOK
  <1>1. Safe => FrontTypeOK
    BY DEF Safe
  <1> QED  BY <1>1, AlwaysSafe, PTL

(* A production server presents a certificate with its own key, however the *)
(* operator's writes fall between the reads of a reload.                    *)
THEOREM PairsMatch == Spec => []ServedPairMatches
  <1>1. Safe => ServedPairMatches
    BY DEF Safe, StagesAgree, PairsInOrder, ServedPairMatches
  <1> QED  BY <1>1, AlwaysSafe, PTL

(* No peer of the server's own host is served in production.                *)
THEOREM LocalPeersTurnedAway == Spec => []OnlyRemotePeers
  <1>1. Safe => OnlyRemotePeers
    BY DEF Safe, PeersKnown, OnlyRemotePeers
  <1> QED  BY <1>1, AlwaysSafe, PTL

(* No reload takes a running server back to an older certificate.           *)
THEOREM CertificatesAdvance == Spec => NeverOlder
  <1> DEFINE Newer == (certificate # Nil /\ main' # "down")
                        => certificate' # Nil /\ certificate'.cert >= certificate.cert
  <1>1. ASSUME Safe, Next PROVE Newer
    <2> SUFFICES ASSUME certificate # Nil, main' # "down"
                 PROVE  certificate' # Nil /\ certificate'.cert >= certificate.cert
      OBVIOUS
    <2>1. certificate.cert \in Nat
      BY <1>1 DEF Safe, FrontTypeOK, Pairs, Versions
    <2>2. CASE certificate' = certificate
      BY <2>1, <2>2
    <2>3. CASE \E why \in {"start", "signal", "accept", "lookup"} : End(why)
      BY <2>3 DEF End
    <2>4. CASE ReadKey /\ certificate' = LoadedPair(read, keyFile)
                 /\ certificate' # Nil
      <3>1. certificate' \in Pairs /\ certificate.cert <= certificate'.cert
        BY <1>1, <2>4, LoadedIsMatched DEF ReadKey
      <3>2. certificate'.cert \in Nat
        BY <3>1 DEF Pairs, Versions
      <3> QED  BY <2>4, <2>1, <3>1, <3>2
    <2>5. CASE ReadKey
      BY <2>2, <2>3, <2>4, <2>5 DEF ReadKey, Installed
    <2>6. CASE ReadCertificate
      BY <2>2, <2>3, <2>6 DEF ReadCertificate, Installed
    <2>7. CASE ~ReadKey /\ ~ReadCertificate
      BY <1>1, <2>2, <2>3, <2>7 DEF Next, Load, Start, FailToStart, Bind, Register,
           TakeSignal, Accept, TurnAway, Decide, GetCertificate, Connect,
           AcceptFails, Hangup, Renew, process
    <2> QED  BY <2>5, <2>6, <2>7
  <1>2. Safe /\ [Next]_vars => [Newer]_vars
    BY <1>1
  <1>3. [][Newer]_vars => NeverOlder
    BY PTL DEF NeverOlder
  <1> QED  BY <1>2, <1>3, AlwaysSafe, PTL DEF Spec
=============================================================================
