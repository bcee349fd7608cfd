----------------------------- MODULE CredStore -----------------------------
(***************************************************************************)
(* The credstore server: gRPC runs every request in a goroutine of its own,*)
(* and the handlers of internal/store/service turn a request into a series *)
(* of vault calls.  v.lock is held during one vault call and free between  *)
(* two calls of a handler, where other handlers act.  No interceptor       *)
(* recovers a panic: it ends the process and every request with it.        *)
(***************************************************************************)
EXTENDS Vault

CONSTANTS
    Handlers,     \* goroutines that serve requests
    Requests      \* what clients may send

(* A recipient, or an id, that does not parse is Nil; so is the value of an *)
(* empty item and the cred of a read with an administrator's passphrase.    *)
AllRequests ==
    [rpc : {"unlock", "list"}, pass : Passphrases]
    \cup [rpc : {"lock", "info"}]
    \cup [rpc : {"recipient"}, pass : Passphrases, recipient : Recipients \cup {Nil}]
    \cup [rpc : {"create"}, pass : Passphrases, val : Values \cup {Nil}]
    \cup [rpc : {"client"}, pass : Passphrases, val : Values]
    \cup [rpc : {"delete"}, pass : Passphrases, ids : SUBSET (Ids \cup {Nil})]
    \cup [rpc : {"read"}, cred : Ids \cup {Nil}, id : Ids \cup {Nil}]

ASSUME RequestsKnown == Requests \subseteq AllRequests /\ Nil \notin AllRequests
ASSUME HandlersDistinct == Nil \notin Handlers \cup Ids

VARIABLES
    req,      \* the request each handler serves, or Nil
    at,       \* the vault call it makes next, or is making
    item,     \* the item it is about: the id uuid.New draws, or one to delete
    left,     \* ids DeleteVaultItems has still to delete
    turn,     \* the handler whose vault call is in progress, or Nil
    outcome   \* how the creation of each item was answered; no code variable

handlers == <<req, at, item, left, turn, outcome>>
allVars == <<vars, handlers>>

Points == {"none", "unlock", "lock", "info", "verify", "list", "recipient",
           "create", "set", "rollback", "fetch", "delete", "remove",
           "check", "get"}

StoreTypeOK ==
    /\ req \in [Handlers -> AllRequests \cup {Nil}]
    /\ at \in [Handlers -> Points]
    /\ item \in [Handlers -> Ids \cup {Nil}]
    /\ left \in [Handlers -> SUBSET (Ids \cup {Nil})]
    /\ turn \in Handlers \cup {Nil}
    /\ outcome \in [Ids -> {"none", "promised", "refused"}]

StoreInit ==
    /\ Init
    /\ req = [h \in Handlers |-> Nil] /\ at = [h \in Handlers |-> "none"]
    /\ item = [h \in Handlers |-> Nil] /\ left = [h \in Handlers |-> {}]
    /\ turn = Nil /\ outcome = [i \in Ids |-> "none"]
-----------------------------------------------------------------------------
(* A handler answers, or goes to its next vault call.                       *)

Answer(h) ==
    /\ req' = [req EXCEPT ![h] = Nil] /\ at' = [at EXCEPT ![h] = "none"]
    /\ item' = [item EXCEPT ![h] = Nil] /\ left' = [left EXCEPT ![h] = {}]

Goto(h, point) ==
    at' = [at EXCEPT ![h] = point] /\ UNCHANGED <<req, item, left>>

(* The process is gone, and with it every goroutine.                        *)
DropAll ==
    /\ req' = [h \in Handlers |-> Nil] /\ at' = [h \in Handlers |-> "none"]
    /\ item' = [h \in Handlers |-> Nil] /\ left' = [h \in Handlers |-> {}]
    /\ turn' = Nil /\ UNCHANGED outcome

Record(h, how) == outcome' = [outcome EXCEPT ![item[h]] = how]

(* Mutant: the error of SetItemValue is ignored.                            *)
AfterFailedSet_Ignored(h) == Answer(h) /\ Record(h, "promised")

(* Mutant: the failed item is left in the vault.                            *)
AfterFailedSet_Kept(h) == Answer(h) /\ Record(h, "refused")

(* CreateVaultItem deletes the item whose value could not be set,           *)
(* CreateClientCredentials does not.                                        *)
AfterFailedSet(h) ==
    \/ /\ req[h].rpc = "create"
       /\ Goto(h, "rollback") /\ UNCHANGED outcome
    \/ req[h].rpc = "client" /\ Answer(h) /\ UNCHANGED outcome

(* The vault call of h returned.                                            *)
Resume(h, ok) ==
    \/ at[h] \in {"unlock", "lock", "recipient", "get"}
       /\ Answer(h) /\ UNCHANGED outcome
    \/ at[h] = "create" /\ ok /\ Goto(h, "set") /\ UNCHANGED outcome
    \/ at[h] = "create" /\ ~ok /\ Answer(h) /\ UNCHANGED outcome
    \/ /\ at[h] = "set" /\ ok /\ req[h].rpc = "create"
       /\ Answer(h) /\ Record(h, "promised")
    \/ /\ at[h] = "set" /\ ok /\ req[h].rpc = "client"
       /\ Goto(h, "fetch") /\ UNCHANGED outcome
    \/ at[h] = "set" /\ ~ok /\ AfterFailedSet(h)
    \/ at[h] = "rollback" /\ Answer(h) /\ Record(h, "refused")
    \/ at[h] = "fetch" /\ ok /\ Answer(h) /\ Record(h, "promised")
    \/ at[h] = "fetch" /\ ~ok /\ Answer(h) /\ UNCHANGED outcome
    \/ at[h] = "remove" /\ ok /\ Goto(h, "delete") /\ UNCHANGED outcome
    \/ at[h] = "remove" /\ ~ok /\ Answer(h) /\ UNCHANGED outcome
    \/ at[h] = "check" /\ Goto(h, "get") /\ UNCHANGED outcome

(* After one step of the vault call of h.                                   *)
Follow(h) ==
    \/ ~up' /\ DropAll
    \/ /\ up' /\ pc' # "idle"
       /\ turn' = h /\ UNCHANGED <<req, at, item, left, outcome>>
    \/ /\ up' /\ pc' = "idle"
       /\ turn' = Nil /\ Resume(h, result' = "ok")
-----------------------------------------------------------------------------
FirstPoint ==
    [unlock |-> "unlock", lock |-> "lock", info |-> "info", read |-> "check",
     list |-> "verify", recipient |-> "verify", create |-> "verify",
     client |-> "verify", delete |-> "verify"]

AfterVerify ==
    [list |-> "list", recipient |-> "recipient", create |-> "create",
     client |-> "create", delete |-> "delete"]

(* A request arrives; a creation needs an id no other request has drawn.    *)
Receive(h, r) ==
    /\ up /\ req[h] = Nil
    /\ req' = [req EXCEPT ![h] = r]
    /\ at' = [at EXCEPT ![h] = FirstPoint[r.rpc]]
    /\ \/ /\ r.rpc \in {"create", "client"}
          /\ \E id \in Ids :
              /\ life[id] = "unborn" /\ \A g \in Handlers : item[g] # id
              /\ item' = [item EXCEPT ![h] = id]
          /\ UNCHANGED left
       \/ /\ r.rpc = "delete"
          /\ left' = [left EXCEPT ![h] = r.ids] /\ UNCHANGED item
       \/ /\ r.rpc \notin {"create", "client", "delete"}
          /\ UNCHANGED <<item, left>>
    /\ UNCHANGED <<vars, turn, outcome>>

(* Mutant: any passphrase will do.                                          *)
VerifyPassphrase_Any(p) == ~IsLocked

VerifyPassphrase(p) == ~IsLocked /\ identityKey = p

Verify(h) ==
    /\ at[h] = "verify" /\ Idle
    /\ \/ VerifyPassphrase(req[h].pass) /\ Goto(h, AfterVerify[req[h].rpc])
       \/ ~VerifyPassphrase(req[h].pass) /\ Answer(h)
    /\ UNCHANGED <<vars, turn, outcome>>

(* GetInfo reads identityKey without v.lock; Items holds the read lock.     *)
Report(h) ==
    /\ \/ at[h] = "info"
       \/ at[h] = "list" /\ Idle
    /\ Answer(h)
    /\ UNCHANGED <<vars, turn, outcome>>

(* An argument that does not parse, found after the passphrase was verified.*)
Reject(h) ==
    /\ \/ at[h] = "recipient" /\ req[h].recipient = Nil
       \/ at[h] = "delete" /\ Nil \in left[h]
       \/ at[h] = "get" /\ req[h].id = Nil
    /\ Answer(h)
    /\ UNCHANGED <<vars, turn, outcome>>

(* DeleteVaultItems takes the next id, or answers with all of them.         *)
NextDeletion(h) ==
    /\ at[h] = "delete"
    /\ \/ left[h] = {} /\ Answer(h)
       \/ \E id \in left[h] \ {Nil} :
            /\ item' = [item EXCEPT ![h] = id]
            /\ left' = [left EXCEPT ![h] = @ \ {id}]
            /\ at' = [at EXCEPT ![h] = "remove"] /\ UNCHANGED req
    /\ UNCHANGED <<vars, turn, outcome>>

(* The handler calls the vault.                                             *)
Call(h) ==
    /\ \/ at[h] = "unlock" /\ Unlock(req[h].pass)
       \/ at[h] = "lock" /\ Lock
       \/ /\ at[h] = "recipient" /\ req[h].recipient # Nil
          /\ SetRecoveryRecipient(req[h].recipient)
       \/ at[h] = "create" /\ CreateItem(item[h])
       \/ at[h] = "set" /\ SetItemValue(item[h], req[h].val)
       \/ at[h] \in {"rollback", "remove"} /\ DeleteItem(item[h])
       \/ at[h] = "fetch" /\ GetItem(item[h])
    /\ Follow(h)

(* ReadVaultItem checks the credentials, discards the outcome of the check  *)
(* (err is assigned again by uuid.Parse) and gets the item.  Where the      *)
(* vault returns (nil, nil), the handler dereferences nil and panics.       *)
ReadTarget(h) == IF at[h] = "check" THEN req[h].cred ELSE req[h].id

CheckAdmin(h) ==
    /\ at[h] = "check" /\ req[h].cred = Nil /\ Idle
    /\ Goto(h, "get") /\ UNCHANGED <<vars, turn, outcome>>

Read(h) ==
    /\ at[h] \in {"check", "get"} /\ ReadTarget(h) # Nil
    /\ \/ ~IsLocked /\ Idle /\ items[ReadTarget(h)] = Nil
          /\ Die /\ UNCHANGED <<disk, history>> /\ DropAll
       \/ (IsLocked \/ items[ReadTarget(h)] # Nil)
          /\ GetItem(ReadTarget(h)) /\ Follow(h)

Serve(h) ==
    Verify(h) \/ Report(h) \/ Reject(h) \/ NextDeletion(h) \/ Call(h)
        \/ CheckAdmin(h) \/ Read(h)

Progress == turn # Nil /\ Continue /\ Follow(turn)

ServerStep ==
    \/ NewVault /\ UNCHANGED handlers
    \/ Crash /\ DropAll
    \/ Progress
    \/ \E h \in Handlers : Serve(h)

Arrival == \E h \in Handlers, r \in Requests : Receive(h, r)

StoreNext == ServerStep \/ Arrival

StoreSpec == StoreInit /\ [][StoreNext]_allVars

(* sync.RWMutex starves nobody: a waiting writer keeps new readers out, and *)
(* its release lets in the readers that wait before the next writer.        *)
FairStoreSpec ==
    /\ StoreSpec
    /\ WF_allVars(Progress)
    /\ \A h \in Handlers : SF_allVars(Serve(h))
-----------------------------------------------------------------------------
(* What the server is for.                                                  *)

(* An item whose creation was answered with its id can be read back, with   *)
(* the value it was created with, however the calls of other requests fall  *)
(* between those of its own: relocking, rewriting for a new recipient,      *)
(* deletion of other items.  Needs a backend that reads and writes, and a   *)
(* process that does not die.                                               *)
PromisedReadable ==
    \A i \in Ids :
        (outcome[i] = "promised" /\ life[i] = "created" /\ Idle /\ primary # Nil)
            => /\ items[i] = stored[i] /\ stored[i] # Nil
               /\ Readable(i) /\ valFile[i].val = stored[i]

(* A handler verifies the passphrase once and then makes calls that do not  *)
(* verify it: when the vault is unlocked at such a call, it is unlocked     *)
(* with that passphrase still, also when it was relocked in between.  Needs *)
(* an .identity that can be written: after an Unlock that failed to write   *)
(* it, a handler's passphrase is verified against one that no file holds,   *)
(* and the vault can be locked and created anew with another.               *)
AfterVerifying == {"list", "recipient", "create", "set", "rollback", "fetch",
                   "delete", "remove"}

VerifiedStillHolds ==
    \A h \in Handlers :
        (at[h] \in AfterVerifying /\ primary # Nil) => req[h].pass = identityKey

(* Over the RPCs an item is written once, so the value file and an intact   *)
(* metadata file never disagree, whatever fails between the two writes:     *)
(* ReadVaultItem's "checksum mismatch" means a damaged file.                *)
NeverMismatched ==
    \A i \in Ids :
        (metaFile[i] \in Metadata /\ metaFile[i].sum # Nil /\ valFile[i] \in Sealed)
            => metaFile[i].sum = valFile[i].val

(* CreateVaultItem answered with an error after it had made the item: the   *)
(* item is not left behind.  Needs a vault that nobody locks meanwhile, for *)
(* the DeleteItem of the handler's clean-up fails on a locked vault, and a  *)
(* backend that deletes, for DeleteItem drops its errors.                   *)
RefusedLeavesNothing ==
    \A i \in Ids : outcome[i] = "refused" => items[i] = Absent

(* Every request is answered, unless the process ends.                      *)
Answered == \A h \in Handlers : (req[h] # Nil) ~> (req[h] = Nil)

(* vault_test.go:322-324: getting an item without content gives nil and no  *)
(* error.  So a read, with every file in order, ends no process.            *)
ReadEndsNoProcess ==
    [][(\E h \in Handlers : at[h] = "get") => up']_allVars
=============================================================================
