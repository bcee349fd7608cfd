----------------------------- MODULE CliConfig -----------------------------
(***************************************************************************)
(* The configuration of the cred client (internal/cli/config): a file and, *)
(* for each host and port, three keyring entries, which Store writes one   *)
(* after another and Load reads together; the commands configure and login;*)
(* and the probe that finds out whether a store uses TLS.  One cred process *)
(* runs at a time.  The encoded configuration is short: its one write is   *)
(* done or not done.                                                       *)
(*                                                                         *)
(* `Faults': "file" the file cannot be opened or written, "get", "set",    *)
(* "remove" the keyring operation fails (for all of them when the keyring  *)
(* does not open), "timeout" the TLS handshake of the probe takes more     *)
(* than 100 ms, "crash" the process is killed.                             *)
(***************************************************************************)
EXTENDS Naturals

CONSTANTS
    Hosts, Ports,   \* what the user may enter
    Logins,         \* client credentials; the id and the secret of a login
    Passphrases,
    Faults,
    Nil,            \* a nil pointer, the empty host name, no keyring entry
    Absent          \* no configuration file

Pairs == Logins \X Logins
File == [host : Hosts \cup {Nil}, port : Ports \cup {Nil}, tls : BOOLEAN,
         cred : Logins \cup {Nil}, inRing : BOOLEAN]
Config == [host : Hosts \cup {Nil}, port : Ports \cup {Nil}, tls : BOOLEAN,
           cred : Logins \cup {Nil}, inRing : BOOLEAN,
           sec : Pairs \cup {Nil}, pass : Passphrases \cup {Nil}]
Keys == Hosts \X (Ports \cup {0})
Entry == [id : Logins \cup {Nil}, secret : Logins \cup {Nil},
          pass : Passphrases \cup {Nil}]

ASSUME ConfigAssumption ==
    /\ Ports \subseteq Nat \ {0}
    /\ Faults \subseteq {"file", "get", "set", "remove", "timeout", "crash"}
    /\ Nil \notin Hosts \cup Ports \cup Logins \cup Pairs \cup Passphrases \cup Config
    /\ Absent \notin File
    /\ Passphrases \cap Pairs = {}

VARIABLES
    speaks,    \* what answers at each address: "tls", "plain" or "other"
    file,      \* config.toml
    ring,      \* the keyring
    cmd,       \* the command the process runs, or "none"
    pc,        \* where it is
    config,    \* State.config
    entered,   \* the login the user has just typed in; no code variable
    last,      \* the last one stored in full, or Nil; no code variable
    broken     \* a pair was half written and not undone; no code variable

disk == <<file, ring>>
ghosts == <<entered, last, broken>>
configVars == <<speaks, disk, cmd, pc, config, ghosts>>

Commands == {"configure", "login", "info", "lock", "unlock", "list", "create",
             "client", "read", "delete", "clientDelete", "recovery", "export"}
StoreSteps == {"truncate", "id", "secret", "undo", "pass", "encode"}
Blank == [host |-> Nil, port |-> Nil, tls |-> FALSE, cred |-> Nil, inRing |-> FALSE]

ConfigTypeOK ==
    /\ speaks \in [Hosts \X Ports -> {"tls", "plain", "other"}]
    /\ file \in File \cup {Absent}
    /\ ring \in [Keys -> Entry]
    /\ cmd \in Commands \cup {"none"}
    /\ pc \in StoreSteps \cup {"shell", "ready", "confirm", "call"}
    /\ config \in Config \cup {Nil}
    /\ entered \in Logins \cup {Nil} /\ last \in Logins \cup {Nil}
    /\ broken \in BOOLEAN

ConfigInit ==
    /\ speaks \in [Hosts \X Ports -> {"tls", "plain", "other"}]
    /\ file = Absent
    /\ ring = [k \in Keys |-> [id |-> Nil, secret |-> Nil, pass |-> Nil]]
    /\ cmd = "none" /\ pc = "shell" /\ config = Nil
    /\ entered = Nil /\ last = Nil /\ broken = FALSE

(* The process ends: it returns, log.Fatal, or the user interrupts it.      *)
Exit ==
    /\ pc' = "shell" /\ cmd' = "none" /\ config' = Nil /\ entered' = Nil
    /\ UNCHANGED speaks
-----------------------------------------------------------------------------
(* Addresses and keys.                                                      *)

HostPort(c) == IF c.port # Nil THEN c.port ELSE IF c.tls THEN 443 ELSE 80
Key(c) == <<c.host, IF c.port # Nil THEN c.port ELSE 0>>

(* Mutant: a GetInfo that failed counts as "not in production mode".        *)
Answers_Unchecked(c) == TRUE

(* checkIfProd calls GetInfo, and a call that fails ends the process.       *)
Answers(c) ==
    /\ <<c.host, HostPort(c)>> \in Hosts \X Ports
    /\ speaks[<<c.host, HostPort(c)>>] = (IF c.tls THEN "tls" ELSE "plain")
-----------------------------------------------------------------------------
(* Load.  A pair is used only when both of its entries could be read.       *)

OrNil(x) == {x} \cup (IF "get" \in Faults THEN {Nil} ELSE {})

(* Mutant: one entry of the two is enough.                                  *)
SecureCredentials_Either(k) ==
    IF k \in Keys /\ (ring[k].id # Nil \/ ring[k].secret # Nil)
    THEN OrNil(<<ring[k].id, ring[k].secret>>) ELSE {Nil}

SecureCredentials(k) ==
    IF k \in Keys /\ ring[k].id # Nil /\ ring[k].secret # Nil
    THEN OrNil(<<ring[k].id, ring[k].secret>>) ELSE {Nil}

KeptPassphrase(f) ==
    IF f.inRing /\ Key(f) \in Keys THEN OrNil(ring[Key(f)].pass) ELSE {Nil}

Loaded ==
    IF file = Absent THEN {Nil}
    ELSE {[host |-> file.host, port |-> file.port, tls |-> file.tls,
           cred |-> file.cred, inRing |-> file.inRing, sec |-> s, pass |-> p] :
              s \in SecureCredentials(Key(file)), p \in KeptPassphrase(file)}

Run(c) ==
    /\ pc = "shell"
    /\ cmd' = c /\ pc' = "ready" /\ config' \in Loaded
    /\ UNCHANGED <<speaks, disk, ghosts>>

(* VerifyConnectionConfig, first in every command but configure.            *)
Connectable == config # Nil /\ config.host # Nil

Unconfigured ==
    /\ pc = "ready" /\ cmd # "configure" /\ ~Connectable
    /\ Exit /\ UNCHANGED <<disk, last, broken>>
-----------------------------------------------------------------------------
(* configure.  It stores nothing unless the store answered GetInfo over the *)
(* transport the probe found, and the user accepted what was found.         *)

(* The probe takes a handshake that timed out, and a connection that opens, *)
(* for a server without TLS.                                                *)
CheckIfTls(h, p) ==
    {isTls \in BOOLEAN :
        \/ isTls /\ speaks[<<h, p>>] # "plain"
        \/ ~isTls /\ (speaks[<<h, p>>] # "tls" \/ "timeout" \in Faults)}

StorePort(isTls, p) ==
    IF (isTls /\ p # 443) \/ (~isTls /\ p # 80) THEN p ELSE Nil

BeginStore(c) == config' = c /\ pc' = "truncate" /\ UNCHANGED <<speaks, disk, cmd>>

Configure(h, p) ==
    /\ pc = "ready" /\ cmd = "configure"
    /\ \E isTls \in CheckIfTls(h, p) :
        LET old == IF config # Nil THEN config
                   ELSE [host |-> Nil, port |-> Nil, tls |-> FALSE, cred |-> Nil,
                         inRing |-> FALSE, sec |-> Nil, pass |-> Nil]
            new == [old EXCEPT !.host = h, !.tls = isTls,
                               !.port = StorePort(isTls, p)]
        IN /\ Answers(new)
           /\ BeginStore(new)
           /\ last' = IF Key(new) = Key(old) THEN last ELSE Nil
           /\ UNCHANGED <<entered, broken>>

GiveUp ==
    /\ pc = "ready" /\ cmd \in {"configure", "login"}
    /\ Exit /\ UNCHANGED <<disk, last, broken>>
-----------------------------------------------------------------------------
(* login, with a passphrase or with client credentials, either into the     *)
(* keyring or (-t) into the file.                                           *)

LoginPassphrase(p, plainText) ==
    /\ pc = "ready" /\ cmd = "login" /\ Connectable
    /\ BeginStore([config EXCEPT !.inRing = ~plainText,
                                 !.pass = IF plainText THEN @ ELSE p])
    /\ UNCHANGED ghosts

LoginPlain(l) ==
    /\ pc = "ready" /\ cmd = "login" /\ Connectable
    /\ BeginStore([config EXCEPT !.cred = l])
    /\ last' = Nil /\ UNCHANGED <<entered, broken>>

(* Mutant: the credentials in the file stay.                                *)
LoggedIn_Both(l) == [config EXCEPT !.sec = <<l, l>>]

LoggedIn(l) == [config EXCEPT !.sec = <<l, l>>, !.cred = Nil]

LoginSecure(l) ==
    /\ pc = "ready" /\ cmd = "login" /\ Connectable
    /\ BeginStore(LoggedIn(l))
    /\ entered' = l /\ last' = Nil /\ UNCHANGED broken
-----------------------------------------------------------------------------
(* Store: the file is truncated, the keyring written, the file written.     *)

Goto(step) == pc' = step /\ UNCHANGED <<speaks, cmd, config, entered>>
Fails(what) == what \in Faults
Write(field, x) == ring' = [ring EXCEPT ![Key(config)][field] = x]

Truncate ==
    /\ pc = "truncate"
    /\ \/ Goto("id") /\ file' = Blank
       \/ Fails("file") /\ Exit /\ UNCHANGED file
    /\ UNCHANGED <<ring, last, broken>>

StoreId ==
    /\ pc = "id"
    /\ \/ config.sec = Nil /\ Goto("pass") /\ UNCHANGED ring
       \/ config.sec # Nil /\ Goto("secret") /\ Write("id", config.sec[1])
       \/ config.sec # Nil /\ Fails("set") /\ Goto("pass") /\ UNCHANGED ring
    /\ UNCHANGED <<file, last, broken>>

(* Mutant: the id stays when its secret could not be stored.                *)
AfterFailedSecret_Keep == "pass"

AfterFailedSecret == "undo"

StoreSecret ==
    /\ pc = "secret"
    /\ \/ /\ Goto("pass") /\ Write("secret", config.sec[2])
          /\ last' = IF entered # Nil THEN entered ELSE last
       \/ Fails("set") /\ Goto(AfterFailedSecret) /\ UNCHANGED <<ring, last>>
    /\ UNCHANGED <<file, broken>>

RemoveId ==
    /\ pc = "undo" /\ Goto("pass")
    /\ \/ Write("id", Nil) /\ UNCHANGED broken
       \/ Fails("remove") /\ broken' = TRUE /\ UNCHANGED ring
    /\ UNCHANGED <<file, last>>

StorePassphrase ==
    /\ pc = "pass" /\ Goto("encode")
    /\ \/ config.inRing /\ config.pass # Nil /\ Write("pass", config.pass)
       \/ ~(config.inRing /\ config.pass # Nil) /\ UNCHANGED ring
       \/ Fails("set") /\ UNCHANGED ring
    /\ UNCHANGED <<file, last, broken>>

Encode ==
    /\ pc = "encode" /\ Exit
    /\ \/ file' = [host |-> config.host, port |-> config.port, tls |-> config.tls,
                   cred |-> config.cred, inRing |-> config.inRing]
       \/ Fails("file") /\ UNCHANGED file
    /\ UNCHANGED <<ring, last, broken>>

Kill ==
    /\ Fails("crash") /\ pc # "shell" /\ Exit
    /\ broken' = (broken \/ pc \in {"secret", "undo"})
    /\ UNCHANGED <<disk, last>>

ConfigNext ==
    \/ Unconfigured \/ GiveUp \/ Kill
    \/ \E h \in Hosts, p \in Ports : Configure(h, p)
    \/ \E p \in Passphrases, plainText \in BOOLEAN : LoginPassphrase(p, plainText)
    \/ \E l \in Logins : LoginPlain(l) \/ LoginSecure(l)
    \/ Truncate \/ StoreId \/ StoreSecret \/ RemoveId \/ StorePassphrase \/ Encode
=============================================================================
