--------------------------------- MODULE Cli ---------------------------------
(***************************************************************************)
(* The commands of the cred client that call a store (internal/cli/item,   *)
(* store, client, grpcclient): each loads the configuration, asks the user *)
(* for what it lacks and for confirmations, makes its call and ends,       *)
(* whatever the answer.  What an export does with the answers is in        *)
(* module Export.                                                          *)
(***************************************************************************)
EXTENDS CliConfig

VARIABLES
    asked,     \* confirmations the user has still to be asked for
    sent       \* the call made last: where to, and with which credentials

asking == <<asked, sent>>
vars == <<configVars, asking>>

Calls == Commands \ {"configure", "login"}
CallMade == [to : Hosts \X Nat, tls : BOOLEAN, cmd : Calls,
             auth : Pairs \cup Passphrases \cup {Nil}]

CliTypeOK ==
    /\ ConfigTypeOK
    /\ asked \in 0..2
    /\ sent \in CallMade \cup {Nil}

Init == ConfigInit /\ asked = 0 /\ sent = Nil
-----------------------------------------------------------------------------
Confirmations ==
    [c \in Calls |-> IF c \in {"recovery", "export"} THEN 2
                     ELSE IF c \in {"delete", "clientDelete"} THEN 1 ELSE 0]

(* A command that gets no further: no usable argument, two secrets that     *)
(* differ, no terminal.                                                     *)
Refuse ==
    /\ pc \in {"ready", "confirm", "call"} /\ cmd \in Calls
    /\ Exit /\ UNCHANGED <<disk, last, broken, asking>>

(* The command's turn, once the configuration says which store to connect   *)
(* to.                                                                      *)
Prepare(group) ==
    /\ pc = "ready" /\ cmd \in group /\ Connectable
    /\ pc' = IF Confirmations[cmd] = 0 THEN "call" ELSE "confirm"
    /\ asked' = Confirmations[cmd]
    /\ UNCHANGED <<speaks, disk, cmd, config, ghosts, sent>>

PrepareStore == Prepare({"info", "unlock", "lock", "recovery", "export"})
PrepareItem == Prepare({"list", "read", "create", "delete"})
PrepareClient == Prepare({"client", "clientDelete"})

(* A no ends the command, but for the second no of recovery-recipient       *)
(* (recovery.go:76), which is logged and nothing more.                      *)
EndsCommand == ~(cmd = "recovery" /\ asked = 1)

Confirm(yes) ==
    /\ pc = "confirm"
    /\ asked' = asked - 1
    /\ UNCHANGED <<disk, last, broken, sent>>
    /\ \/ ~yes /\ EndsCommand /\ Exit
       \/ /\ yes \/ ~EndsCommand
          /\ pc' = IF asked = 1 THEN "call" ELSE "confirm"
          /\ UNCHANGED <<speaks, cmd, config, entered>>

Address == <<config.host, HostPort(config)>>

Send(c, credentials) ==
    /\ pc = "call" /\ cmd = c
    /\ \E a \in credentials :
          sent' = [to |-> Address, tls |-> config.tls, cmd |-> c, auth |-> a]
    /\ Exit /\ UNCHANGED <<disk, last, broken, asked>>

(* The passphrase of the keyring; without one, the user is asked.           *)
Passphrase == IF config.pass # Nil THEN {config.pass} ELSE Passphrases

(* item read takes the credentials of the keyring, else those of the file,  *)
(* else the passphrase.                                                     *)
ReadCredentials ==
    CASE config.sec # Nil -> {config.sec}
      [] config.sec = Nil /\ config.cred # Nil -> {<<config.cred, config.cred>>}
      [] OTHER -> Passphrase

Info == Send("info", {Nil})
LockStore == Send("lock", {Nil})
UnlockStore == Send("unlock", Passphrases)
SetRecoveryRecipient == Send("recovery", Passphrases)
ExportItems == Send("export", Passphrases)
ListItems == Send("list", Passphrase)
ReadItem == Send("read", ReadCredentials)
CreateItem == Send("create", Passphrase)
DeleteItems == Send("delete", Passphrase)
CreateClient == Send("client", Passphrase)
DeleteClient == Send("clientDelete", Passphrase)

Call ==
    \/ Info \/ LockStore \/ UnlockStore \/ SetRecoveryRecipient \/ ExportItems
    \/ ListItems \/ ReadItem \/ CreateItem \/ DeleteItems
    \/ CreateClient \/ DeleteClient

Begin(c) ==
    /\ Run(c)
    /\ asked' = 0 /\ sent' = Nil

Next ==
    \/ \E c \in Commands : Begin(c)
    \/ ConfigNext /\ UNCHANGED asking
    \/ Refuse \/ PrepareStore \/ PrepareItem \/ PrepareClient \/ Call
    \/ \E yes \in BOOLEAN : Confirm(yes)

Spec == Init /\ [][Next]_vars
-----------------------------------------------------------------------------
(* What the client is for.                                                  *)

(* The two keyring entries of a store, when both are there, are of one      *)
(* login, whichever keyring writes fail: a read would present the id of one *)
(* client with the secret of another.  Unless the process was killed        *)
(* between the two, or neither the write nor its undoing succeeded.         *)
PairFromOneLogin ==
    (~broken /\ pc \notin {"secret", "undo"}) =>
        \A k \in Keys :
            (ring[k].id # Nil /\ ring[k].secret # Nil) => ring[k].id = ring[k].secret

(* Every call goes to an address at which a store answered when it was      *)
(* configured, over the transport it answered on: also after a probe that   *)
(* timed out, a Store that was cut short and logins that rewrote the file.  *)
CallsGoWhereProbed ==
    sent # Nil =>
        /\ sent.to \in Hosts \X Ports
        /\ speaks[sent.to] = (IF sent.tls THEN "tls" ELSE "plain")

(* After a login into the keyring that was stored in full, item read        *)
(* presents these client credentials and no others until the next login     *)
(* with client credentials, or until another store is configured: also when *)
(* the keyring fails to read or write, and after later runs of configure or *)
(* login -p, which store the pair again.                                    *)
ReadUsesLatestLogin ==
    (sent # Nil /\ last # Nil /\ sent.auth \in Pairs) => sent.auth = <<last, last>>
=============================================================================
