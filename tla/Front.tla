-------------------------------- MODULE Front --------------------------------
(***************************************************************************)
(* The front of the credstore server: its start, the reloading of the      *)
(* certificate on SIGHUP (internal/store/cert) and the listener that turns *)
(* away connections from its own host (internal/store/server).             *)
(*                                                                         *)
(* Around it: an operator who renews certificate and key, each written in  *)
(* place, and then sends SIGHUP; peers that connect; and `Faults':         *)
(*   "start"   the configuration, the vault or the address is not usable,  *)
(*   "lookup"  net.InterfaceAddrs returns an error,                        *)
(*   "accept"  the TCP listener's Accept returns a permanent error.        *)
(***************************************************************************)
EXTENDS Naturals

CONSTANTS
    Conns,        \* connections, each made once
    Loopback,     \* loopback addresses
    Interfaces,   \* the other addresses of this host
    Elsewhere,    \* addresses of other hosts
    MaxVersion,   \* bound: renewals of the key pair
    Faults,
    Nil, Torn     \* no value; a file that is being written

Versions == 0..MaxVersion
Peers == [remote : Loopback, local : Loopback]
            \cup [remote : Interfaces \cup Elsewhere, local : Interfaces]
Pairs == [cert : Versions, key : Versions]

ASSUME FrontAssumption ==
    /\ MaxVersion \in Nat
    /\ Faults \subseteq {"start", "lookup", "accept"}
    /\ Elsewhere \cap (Loopback \cup Interfaces) = {}
    /\ Nil \notin Versions \cup {Torn} \cup Pairs \cup Peers
    /\ Torn \notin Versions

VARIABLES
    main,         \* what the main goroutine does
    prod,         \* the --production flag
    certFile,     \* version of the certificate that Tls.CertFile holds, or Torn
    keyFile,      \* version of the key that Tls.KeyFile holds, or Torn
    certificate,  \* X509KeyPairReloader.certificate
    reloader,     \* the goroutine of NewX509KeyPairReloader
    read,         \* the certificate LoadX509KeyPair has read, the key not yet
    pending,      \* a SIGHUP is in the channel of one
    peer,         \* the two addresses of each connection
    conn,         \* what became of it
    shown,        \* the certificate its handshake presented
    renewal,      \* how far the operator is
    version,      \* the version installed last
    ended         \* why the process ended; no code variable

process == <<main, prod, certificate, reloader, read, pending, ended>>
files == <<certFile, keyFile, renewal, version>>
connections == <<peer, conn, shown>>
vars == <<process, files, connections>>

FrontTypeOK ==
    /\ main \in {"down", "loading", "binding", "serving"}
    /\ prod \in BOOLEAN
    /\ certFile \in Versions \cup {Torn} /\ keyFile \in Versions \cup {Torn}
    /\ certificate \in Pairs \cup {Nil}
    /\ reloader \in {"none", "starting", "waiting", "reading"}
    /\ read \in Versions \cup {Nil}
    /\ pending \in BOOLEAN
    /\ peer \in [Conns -> Peers \cup {Nil}]
    /\ conn \in [Conns -> {"away", "queued", "handed", "closed"}]
    /\ shown \in [Conns -> Pairs \cup {Nil}]
    /\ renewal \in {"done", "cert", "between", "key", "signal"}
    /\ version \in Versions
    /\ ended \in {"no", "start", "signal", "accept", "lookup"}

Init ==
    /\ main = "down" /\ prod = FALSE /\ certificate = Nil
    /\ reloader = "none" /\ read = Nil /\ pending = FALSE /\ ended = "no"
    /\ certFile = 0 /\ keyFile = 0 /\ renewal = "done" /\ version = 0
    /\ peer = [c \in Conns |-> Nil] /\ conn = [c \in Conns |-> "away"]
    /\ shown = [c \in Conns |-> Nil]

(* The process is gone; the kernel closes its connections.                  *)
End(why) ==
    /\ main' = "down" /\ ended' = why
    /\ certificate' = Nil /\ reloader' = "none" /\ read' = Nil /\ pending' = FALSE
    /\ conn' = [c \in Conns |-> IF conn[c] = "away" THEN "away" ELSE "closed"]
    /\ UNCHANGED <<prod, peer, shown>>
-----------------------------------------------------------------------------
(* The start: the configuration and the vault, then NewServer.              *)

Start(production) ==
    /\ main = "down"
    /\ prod' = production /\ ended' = "no"
    /\ main' = IF production THEN "loading" ELSE "binding"
    /\ UNCHANGED <<certificate, reloader, read, pending, files, connections>>

FailToStart ==
    /\ "start" \in Faults /\ main \in {"loading", "binding"}
    /\ End("start")
    /\ UNCHANGED files

Bind ==
    /\ main = "binding" /\ main' = "serving"
    /\ UNCHANGED <<prod, certificate, reloader, read, pending, ended, files,
                   connections>>
-----------------------------------------------------------------------------
(* tls.LoadX509KeyPair reads the certificate, then the key, and compares    *)
(* their public keys.  Each renewal has a key of its own.                   *)

(* Mutant: the two files are not compared.                                  *)
LoadedPair_Uncompared(c, k) == IF k = Torn THEN Nil ELSE [cert |-> c, key |-> k]

(* Mutant: nor is the key parsed.                                           *)
LoadedPair_Unparsed(c, k) == [cert |-> c, key |-> k]

LoadedPair(c, k) == IF c = k THEN [cert |-> c, key |-> k] ELSE Nil

(* Mutant: the result is stored before the error is looked at.              *)
Installed_Unchecked(pair) == pair

(* reload keeps the certificate it has when the new one does not load.      *)
Installed(pair) == IF pair = Nil THEN certificate ELSE pair

ReadCertificate ==
    /\ read = Nil
    /\ UNCHANGED files
    /\ \/ main = "loading" /\ certFile = Torn /\ End("start")
       \/ /\ main = "loading" /\ certFile # Torn
          /\ read' = certFile
          /\ UNCHANGED <<main, prod, certificate, reloader, pending, ended,
                         connections>>
       \/ /\ reloader = "reading" /\ certFile = Torn
          /\ certificate' = Installed(Nil) /\ reloader' = "waiting"
          /\ UNCHANGED <<main, prod, read, pending, ended, connections>>
       \/ /\ reloader = "reading" /\ certFile # Torn
          /\ read' = certFile
          /\ UNCHANGED <<main, prod, certificate, reloader, pending, ended,
                         connections>>

(* NewX509KeyPairReloader starts the goroutine and returns.                 *)
ReadKey ==
    /\ read # Nil
    /\ UNCHANGED files
    /\ LET pair == LoadedPair(read, keyFile)
       IN \/ main = "loading" /\ pair = Nil /\ End("start")
          \/ /\ main = "loading" /\ pair # Nil
             /\ certificate' = pair /\ read' = Nil
             /\ main' = "binding" /\ reloader' = "starting"
             /\ UNCHANGED <<prod, pending, ended, connections>>
          \/ /\ reloader = "reading"
             /\ certificate' = Installed(pair) /\ read' = Nil
             /\ reloader' = "waiting"
             /\ UNCHANGED <<main, prod, pending, ended, connections>>
-----------------------------------------------------------------------------
(* Signals.  Until the goroutine has called signal.Notify, SIGHUP ends the  *)
(* process; then it goes into the channel, or is dropped when one is there. *)

Register ==
    /\ reloader = "starting" /\ reloader' = "waiting"
    /\ UNCHANGED <<main, prod, certificate, read, pending, ended, files,
                   connections>>

(* Mutant: a channel without a buffer takes a signal only while its         *)
(* receiver waits.                                                          *)
Delivered_Unbuffered == reloader = "waiting"

Delivered == TRUE

Hangup ==
    /\ renewal = "signal" /\ renewal' = "done"
    /\ UNCHANGED <<certFile, keyFile, version>>
    /\ \/ main = "down" /\ UNCHANGED <<process, connections>>
       \/ main # "down" /\ reloader \in {"none", "starting"} /\ End("signal")
       \/ /\ reloader \in {"waiting", "reading"}
          /\ pending' = (pending \/ Delivered)
          /\ UNCHANGED <<main, prod, certificate, reloader, read, ended,
                         connections>>

TakeSignal ==
    /\ reloader = "waiting" /\ pending
    /\ pending' = FALSE /\ reloader' = "reading"
    /\ UNCHANGED <<main, prod, certificate, read, ended, files, connections>>
-----------------------------------------------------------------------------
(* Connections.  secureListener.Accept goes on to the next one after it has *)
(* turned one away; gRPC serves what it returns.                            *)

Connect(c, p) ==
    /\ main = "serving" /\ conn[c] = "away"
    /\ peer' = [peer EXCEPT ![c] = p] /\ conn' = [conn EXCEPT ![c] = "queued"]
    /\ UNCHANGED <<process, files, shown>>

(* Mutant: the addresses of the interfaces are not looked up.               *)
IsLocalHost_SameAddress(p) ==
    {IF p.remote \in Loopback \/ p.remote = p.local THEN "yes" ELSE "no"}

IsLocalHost(p) ==
    IF p.remote \in Loopback \/ p.remote = p.local THEN {"yes"}
    ELSE {IF p.remote \in Interfaces THEN "yes" ELSE "no"}
            \cup (IF "lookup" \in Faults THEN {"error"} ELSE {})

Decide(c, what) ==
    conn' = [conn EXCEPT ![c] = what] /\ UNCHANGED <<process, peer, shown>>

(* Mutant: Accept returns the error of the lookup, and Serve ends.          *)
TurnAway_Return(c, local) ==
    IF local = "error" THEN End("lookup") ELSE Decide(c, "closed")

TurnAway(c, local) == Decide(c, "closed")

Accept(c) ==
    /\ main = "serving" /\ conn[c] = "queued"
    /\ UNCHANGED files
    /\ \/ ~prod /\ Decide(c, "handed")
       \/ prod /\ \E local \in IsLocalHost(peer[c]) :
            \/ local = "no" /\ Decide(c, "handed")
            \/ local # "no" /\ TurnAway(c, local)

AcceptFails ==
    /\ "accept" \in Faults /\ main = "serving"
    /\ End("accept")
    /\ UNCHANGED files

(* gRPC shakes hands in the goroutine of the connection.                    *)
GetCertificate(c) ==
    /\ prod /\ conn[c] = "handed" /\ shown[c] = Nil
    /\ shown' = [shown EXCEPT ![c] = certificate]
    /\ UNCHANGED <<process, files, peer, conn>>
-----------------------------------------------------------------------------
(* The operator.                                                            *)

Renew ==
    /\ \/ /\ renewal = "done" /\ version < MaxVersion
          /\ certFile' = Torn /\ renewal' = "cert"
          /\ UNCHANGED <<keyFile, version>>
       \/ /\ renewal = "cert"
          /\ certFile' = version + 1 /\ renewal' = "between"
          /\ UNCHANGED <<keyFile, version>>
       \/ /\ renewal = "between"
          /\ keyFile' = Torn /\ renewal' = "key"
          /\ UNCHANGED <<certFile, version>>
       \/ /\ renewal = "key"
          /\ keyFile' = version + 1 /\ version' = version + 1
          /\ renewal' = "signal"
          /\ UNCHANGED certFile
    /\ UNCHANGED <<process, connections>>

Load == ReadCertificate \/ ReadKey

Next ==
    \/ \E production \in BOOLEAN : Start(production)
    \/ FailToStart \/ Bind \/ Load \/ Register \/ TakeSignal
    \/ \E c \in Conns :
        Accept(c) \/ GetCertificate(c) \/ \E p \in Peers : Connect(c, p)
    \/ AcceptFails \/ Hangup \/ Renew

Spec == Init /\ [][Next]_vars

(* The goroutines of the server run when they can; nothing is assumed of    *)
(* the operator and the peers.  No connection waits behind others for ever. *)
FairSpec ==
    /\ Spec
    /\ WF_vars(Load) /\ WF_vars(Register) /\ WF_vars(TakeSignal)
    /\ \A c \in Conns : WF_vars(Accept(c))
-----------------------------------------------------------------------------
(* What the front is for.                                                   *)

Matched(pair) == pair \in Pairs /\ pair.cert = pair.key

(* A production server presents a certificate with its own key at every     *)
(* handshake, whenever the operator's writes fall between the two reads of  *)
(* a reload, and also after a reload that failed.                           *)
ServedPairMatches ==
    /\ (prod /\ main \in {"binding", "serving"}) => Matched(certificate)
    /\ \A c \in Conns :
          (prod /\ main = "serving" /\ conn[c] = "handed" /\ shown[c] # Nil)
              => Matched(shown[c])

(* While the process runs no reload takes it back to an older certificate.  *)
NeverOlder ==
    [][(certificate # Nil /\ main' # "down") =>
          certificate' # Nil /\ certificate'.cert >= certificate.cert]_vars

(* In production no connection from this host reaches gRPC, whichever of    *)
(* its addresses it comes from and whatever becomes of the lookup.          *)
OnlyRemotePeers ==
    \A c \in Conns :
        (prod /\ main = "serving" /\ conn[c] = "handed")
            => peer[c].remote \in Elsewhere

(* A connection is handed over or closed, by a server that goes on or that  *)
(* ends for another reason than the peer.                                   *)
Decided ==
    \A c \in Conns :
        conn[c] = "queued" ~>
            (conn[c] # "queued" /\ ended \in {"no", "signal", "accept"})

(* The two files hold version v and SIGHUP was sent: that version will be   *)
(* served, also when the signal came while an older pair was being read,    *)
(* unless the process ends or the next renewal begins.                      *)
SignalledFor(v) ==
    /\ prod /\ main = "serving" /\ reloader # "none"
    /\ renewal = "done" /\ version = v

RenewalServed ==
    \A v \in Versions :
        SignalledFor(v) ~> (~SignalledFor(v) \/ certificate.cert >= v)
=============================================================================
