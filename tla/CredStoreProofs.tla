--------------------------- MODULE CredStoreProofs ---------------------------
(***************************************************************************)
(* The safety properties of the credstore server, for every value of its   *)
(* constants: any number of handlers, requests, items and values.          *)
(***************************************************************************)
EXTENDS CredStore, VaultSafetyProofs, VaultValueProofs
-----------------------------------------------------------------------------
(* The vault under its server.  ReadVaultItem may end the process where the *)
(* vault by itself would not.                                               *)

Panic == Idle /\ Die /\ UNCHANGED <<disk, history>>

VaultStep == Next \/ Panic

VaultInv == SealInv /\ ValueInv /\ GoneOK

LEMMA PanicInv == ASSUME VaultInv, Panic PROVE VaultInv'
<1>1. Inv'
  <2>1. DiskOK' /\ HistoryOK'
    BY DEF Panic, VaultInv, SealInv, Inv, TypeOK, DiskOK, HistoryOK, disk, history
  <2> QED BY <2>1, DieOK DEF Panic, Inv, TypeOK
<1>2. SealInv'
  BY <1>1, SealFrame DEF Panic, VaultInv, Die, Forget, disk
<1>3. ValueInv'
  BY <1>1, DieQuiet DEF Panic, VaultInv, disk, history
<1>4. GoneOK'
  BY DEF Panic, Die, Return, GoneOK
<1> QED BY <1>2, <1>3, <1>4 DEF VaultInv

LEMMA VaultStepInv == ASSUME VaultInv, VaultStep PROVE VaultInv'
<1>1. CASE Next
  BY <1>1, SealNext, ValueNext, GoneNext DEF VaultInv, SealInv
<1>2. CASE Panic
  BY <1>2, PanicInv
<1> QED BY <1>1, <1>2 DEF VaultStep

LEMMA VaultSame == ASSUME VaultInv, UNCHANGED vars PROVE VaultInv'
BY SealNext, ValueNext, GoneNext DEF VaultInv, SealInv
-----------------------------------------------------------------------------
(* Where a handler is, and what it works on.                                *)

Creator(h) == req[h] # Nil /\ req[h].rpc \in {"create", "client"}

HandlerOK(h) ==
    /\ at[h] = "none" <=> req[h] = Nil
    /\ at[h] \in {"unlock", "lock", "info", "list", "recipient"} =>
          req[h].rpc = at[h]
    /\ at[h] = "verify" =>
          req[h].rpc \in {"list", "recipient", "create", "client", "delete"}
    /\ at[h] \in {"create", "set"} => req[h].rpc \in {"create", "client"}
    /\ at[h] = "rollback" => req[h].rpc = "create"
    /\ at[h] = "fetch" => req[h].rpc = "client"
    /\ at[h] \in {"delete", "remove"} => req[h].rpc = "delete"
    /\ at[h] \in {"check", "get"} => req[h].rpc = "read"
    /\ Creator(h) \/ at[h] = "remove" => item[h] \in Ids

(* The vault call in progress is that of one handler, at a call that takes  *)
(* more than one step.                                                      *)
InCall(h) ==
    \/ at[h] \in {"unlock", "set", "rollback", "remove"}
    \/ at[h] = "recipient" /\ req[h].recipient # Nil

TurnOK == (turn # Nil <=> pc # "idle") /\ (turn # Nil => InCall(turn))

(* No id is given to two creations.                                         *)
DrawnOK ==
    \A g, h \in Handlers :
        (Creator(g) /\ Creator(h) /\ g # h) => item[g] # item[h]

ServerOK ==
    /\ StoreTypeOK
    /\ \A h \in Handlers : HandlerOK(h)
    /\ TurnOK
    /\ DrawnOK

ServerInv == VaultInv /\ ServerOK

LEMMA RequestFields ==
    ASSUME NEW r \in AllRequests
    PROVE  /\ r.rpc \in {"unlock", "list", "lock", "info", "recipient", "create",
                         "client", "delete", "read"}
           /\ r.rpc \in {"unlock", "list", "recipient", "create", "client", "delete"}
                 => r.pass \in Passphrases
           /\ r.rpc = "recipient" => r.recipient \in Recipients \cup {Nil}
           /\ r.rpc \in {"create", "client"} => r.val \in Values \cup {Nil}
           /\ r.rpc = "delete" => r.ids \subseteq Ids \cup {Nil}
           /\ r.rpc = "read" => r.cred \in Ids \cup {Nil} /\ r.id \in Ids \cup {Nil}
BY DEF AllRequests

(* What the ways to go on leave of a handler and of the others.             *)
LEMMA AnswerIs ==
    ASSUME StoreTypeOK, NEW h \in Handlers, Answer(h)
    PROVE  /\ req'[h] = Nil /\ at'[h] = "none" /\ item'[h] = Nil
           /\ \A g \in Handlers \ {h} :
                 /\ req'[g] = req[g] /\ at'[g] = at[g] /\ item'[g] = item[g]
                 /\ left'[g] = left[g]
           /\ req' \in [Handlers -> AllRequests \cup {Nil}]
           /\ at' \in [Handlers -> Points] /\ item' \in [Handlers -> Ids \cup {Nil}]
           /\ left' \in [Handlers -> SUBSET (Ids \cup {Nil})]
BY DEF StoreTypeOK, Answer, Points

LEMMA GotoIs ==
    ASSUME StoreTypeOK, NEW h \in Handlers, NEW p \in Points, Goto(h, p)
    PROVE  /\ at'[h] = p /\ \A g \in Handlers \ {h} : at'[g] = at[g]
           /\ at' \in [Handlers -> Points]
           /\ UNCHANGED <<req, item, left>>
BY DEF StoreTypeOK, Goto

LEMMA DropAllIs ==
    ASSUME StoreTypeOK, DropAll
    PROVE  /\ \A h \in Handlers : req'[h] = Nil /\ at'[h] = "none" /\ item'[h] = Nil
           /\ turn' = Nil
           /\ StoreTypeOK'
BY DEF StoreTypeOK, DropAll, Points

(* A step in which at most handler h moves, within its request or out of it.*)
Moves(h) ==
    /\ \A g \in Handlers \ {h} :
          req'[g] = req[g] /\ at'[g] = at[g] /\ item'[g] = item[g]
    /\ Creator(h)' => \/ Creator(h) /\ item'[h] = item[h]
                      \/ \A g \in Handlers : item[g] # item'[h]

LEMMA OneMoves ==
    ASSUME ServerOK, StoreTypeOK', NEW h \in Handlers, Moves(h), HandlerOK(h)', TurnOK'
    PROVE  ServerOK'
<1>1. ASSUME NEW g \in Handlers PROVE HandlerOK(g)'
  <2>1. CASE g = h
    BY <2>1
  <2>2. CASE g # h
    <3>1. HandlerOK(g)
      BY DEF ServerOK
    <3> QED BY <2>2, <3>1 DEF Moves, HandlerOK, Creator
  <2> QED BY <2>1, <2>2
<1>2. DrawnOK'
  BY DEF ServerOK, DrawnOK, Moves, Creator
<1> QED BY <1>1, <1>2 DEF ServerOK

LEMMA DropAllOK ==
    ASSUME ServerOK, DropAll, pc' = "idle" PROVE ServerOK'
<1>1. \A h \in Handlers : HandlerOK(h)'
  BY DropAllIs DEF ServerOK, HandlerOK, Creator
<1>2. TurnOK' /\ DrawnOK'
  BY DropAllIs DEF ServerOK, TurnOK, DrawnOK, Creator
<1> QED BY <1>1, <1>2, DropAllIs DEF ServerOK

LEMMA AnswerOK ==
    ASSUME ServerOK, NEW h \in Handlers, Answer(h)
    PROVE  Moves(h) /\ HandlerOK(h)'
BY AnswerIs DEF ServerOK, Moves, HandlerOK, Creator

(* Where a handler may go from where it is.                                 *)
LEMMA GotoOK ==
    ASSUME ServerOK, NEW h \in Handlers, NEW p \in Points, Goto(h, p), req[h] # Nil,
           \/ /\ req[h].rpc \in {"list", "recipient", "create", "client", "delete"}
              /\ p = AfterVerify[req[h].rpc]
           \/ at[h] = "create" /\ p = "set"
           \/ at[h] = "set" /\ req[h].rpc = "create" /\ p = "rollback"
           \/ at[h] = "set" /\ req[h].rpc = "client" /\ p = "fetch"
           \/ at[h] = "remove" /\ p = "delete"
           \/ at[h] = "check" /\ p = "get"
    PROVE  Moves(h) /\ HandlerOK(h)'
<1>1. at'[h] = p /\ (\A g \in Handlers \ {h} : at'[g] = at[g])
      /\ UNCHANGED <<req, item, left>>
  BY GotoIs DEF ServerOK
<1>2. HandlerOK(h)
  BY DEF ServerOK
<1>3. Moves(h)
  BY <1>1 DEF Moves, Creator
<1>4. HandlerOK(h)'
  BY <1>1, <1>2 DEF HandlerOK, Creator, AfterVerify
<1> QED BY <1>3, <1>4

(* What a handler does with the answer of its vault call.                   *)
LEMMA ResumeOK ==
    ASSUME ServerOK, NEW h \in Handlers, req[h] # Nil, NEW ok \in BOOLEAN, Resume(h, ok)
    PROVE  /\ Moves(h) /\ HandlerOK(h)'
           /\ req' \in [Handlers -> AllRequests \cup {Nil}]
           /\ at' \in [Handlers -> Points]
           /\ item' \in [Handlers -> Ids \cup {Nil}]
           /\ left' \in [Handlers -> SUBSET (Ids \cup {Nil})]
           /\ outcome' \in [Ids -> {"none", "promised", "refused"}]
<1> USE DEF Points
<1>1. StoreTypeOK
  BY DEF ServerOK
<1>2. \/ Answer(h)
      \/ at[h] = "create" /\ Goto(h, "set")
      \/ at[h] = "set" /\ req[h].rpc = "create" /\ Goto(h, "rollback")
      \/ at[h] = "set" /\ req[h].rpc = "client" /\ Goto(h, "fetch")
      \/ at[h] = "remove" /\ Goto(h, "delete")
      \/ at[h] = "check" /\ Goto(h, "get")
  BY DEF Resume, AfterFailedSet
<1>3. outcome' \in [Ids -> {"none", "promised", "refused"}]
  BY <1>1 DEF Resume, AfterFailedSet, Record, StoreTypeOK
<1>4. CASE Answer(h)
  BY <1>1, <1>3, <1>4, AnswerOK, AnswerIs
<1>5. CASE at[h] = "create" /\ Goto(h, "set")
  BY <1>1, <1>3, <1>5, GotoOK, GotoIs DEF StoreTypeOK
<1>6. CASE at[h] = "set" /\ req[h].rpc = "create" /\ Goto(h, "rollback")
  BY <1>1, <1>3, <1>6, GotoOK, GotoIs DEF StoreTypeOK
<1>7. CASE at[h] = "set" /\ req[h].rpc = "client" /\ Goto(h, "fetch")
  BY <1>1, <1>3, <1>7, GotoOK, GotoIs DEF StoreTypeOK
<1>8. CASE at[h] = "remove" /\ Goto(h, "delete")
  BY <1>1, <1>3, <1>8, GotoOK, GotoIs DEF StoreTypeOK
<1>9. CASE at[h] = "check" /\ Goto(h, "get")
  BY <1>1, <1>3, <1>9, GotoOK, GotoIs DEF StoreTypeOK
<1> QED BY <1>2, <1>4, <1>5, <1>6, <1>7, <1>8, <1>9

(* A step of the vault call of h, and what h does then.                     *)
LEMMA FollowOK ==
    ASSUME ServerOK, Inv', NEW h \in Handlers, req[h] # Nil, Follow(h),
           pc' = "idle" \/ InCall(h)
    PROVE  ServerOK'
<1>1. StoreTypeOK
  BY DEF ServerOK
<1>2. CASE ~up' /\ DropAll
  <2>1. pc' = "idle"
    BY <1>2 DEF Inv, LockOK
  <2> QED BY <1>2, <2>1, DropAllOK
<1>3. CASE pc' # "idle" /\ turn' = h /\ UNCHANGED <<req, at, item, left, outcome>>
  <2>1. StoreTypeOK'
    BY <1>1, <1>3 DEF StoreTypeOK
  <2>2. TurnOK'
    BY <1>3, HandlersDistinct DEF TurnOK, InCall
  <2>3. Moves(h) /\ HandlerOK(h)'
    BY <1>3 DEF ServerOK, HandlerOK, Moves, Creator
  <2> QED BY <2>1, <2>2, <2>3, OneMoves
<1>4. CASE pc' = "idle" /\ turn' = Nil /\ Resume(h, result' = "ok")
  <2>1. (result' = "ok") \in BOOLEAN
    OBVIOUS
  <2>2. Moves(h) /\ HandlerOK(h)' /\ StoreTypeOK'
    BY <1>4, <2>1, ResumeOK DEF StoreTypeOK
  <2>3. TurnOK'
    BY <1>4 DEF TurnOK
  <2> QED BY <2>2, <2>3, OneMoves
<1> QED BY <1>2, <1>3, <1>4 DEF Follow

(* The steps of the server: a handler acts without the vault, the process   *)
(* starts or ends, a vault call begins or goes on.                          *)
Talks(h) ==
    \/ Verify(h) \/ Report(h) \/ Reject(h) \/ NextDeletion(h) \/ CheckAdmin(h)
    \/ \E r \in Requests : Receive(h, r)

Calls(h) ==
    \/ at[h] = "unlock" /\ Unlock(req[h].pass)
    \/ at[h] = "lock" /\ Lock
    \/ at[h] = "recipient" /\ req[h].recipient # Nil
       /\ SetRecoveryRecipient(req[h].recipient)
    \/ at[h] = "create" /\ CreateItem(item[h])
    \/ at[h] = "set" /\ SetItemValue(item[h], req[h].val)
    \/ at[h] \in {"rollback", "remove"} /\ DeleteItem(item[h])
    \/ at[h] = "fetch" /\ GetItem(item[h])
    \/ at[h] \in {"check", "get"} /\ ReadTarget(h) # Nil /\ GetItem(ReadTarget(h))

LEMMA StoreSteps ==
    ASSUME ServerInv, StoreNext
    PROVE  \/ UNCHANGED <<vars, turn, outcome>> /\ \E h \in Handlers : Talks(h)
           \/ NewVault /\ UNCHANGED handlers
           \/ (Crash \/ Panic) /\ DropAll
           \/ turn \in Handlers /\ Continue /\ Follow(turn)
           \/ \E h \in Handlers : Calls(h) /\ Follow(h)
<1>1. ASSUME NEW h \in Handlers, Call(h) PROVE Calls(h) /\ Follow(h)
  BY <1>1 DEF Call, Calls
<1>2. ASSUME NEW h \in Handlers, Read(h)
      PROVE  (Panic /\ DropAll) \/ (Calls(h) /\ Follow(h))
  BY <1>2 DEF Read, Calls, Panic, Idle
<1>3. ASSUME NEW h \in Handlers,
             Verify(h) \/ Report(h) \/ Reject(h) \/ NextDeletion(h) \/ CheckAdmin(h)
      PROVE  UNCHANGED <<vars, turn, outcome>> /\ Talks(h)
  BY <1>3 DEF Talks, Verify, Report, Reject, NextDeletion, CheckAdmin
<1>4. ASSUME NEW h \in Handlers, NEW r \in Requests, Receive(h, r)
      PROVE  UNCHANGED <<vars, turn, outcome>> /\ Talks(h)
  BY <1>4 DEF Talks, Receive
<1>5. CASE Progress
  BY <1>5 DEF Progress, ServerInv, ServerOK, StoreTypeOK
<1> QED BY <1>1, <1>2, <1>3, <1>4, <1>5 DEF StoreNext, ServerStep, Serve, Arrival

(* The fields of a request and the item of its handler are what the call    *)
(* needs.                                                                   *)
LEMMA CallsBegin ==
    ASSUME ServerInv, NEW h \in Handlers, Calls(h)
    PROVE  /\ req[h] # Nil /\ Begin
           /\ pc' = "idle" \/ InCall(h)
<1>1. req[h] # Nil /\ req[h] \in AllRequests /\ HandlerOK(h)
  BY DEF ServerInv, ServerOK, StoreTypeOK, Calls, HandlerOK
<1>2. CASE at[h] = "unlock" /\ Unlock(req[h].pass)
  BY <1>1, <1>2, RequestFields DEF HandlerOK, Begin, InCall
<1>3. CASE at[h] = "lock" /\ Lock
  BY <1>1, <1>3 DEF Begin, Lock, Refuse, Return
<1>4. CASE /\ at[h] = "recipient" /\ req[h].recipient # Nil
           /\ SetRecoveryRecipient(req[h].recipient)
  BY <1>1, <1>4, RequestFields DEF HandlerOK, Begin, InCall
<1>5. CASE at[h] = "create" /\ CreateItem(item[h])
  BY <1>1, <1>5 DEF HandlerOK, Creator, Begin, CreateItem, Refuse, Return, Die
<1>6. CASE at[h] = "set" /\ SetItemValue(item[h], req[h].val)
  BY <1>1, <1>6, RequestFields DEF HandlerOK, Creator, Begin, InCall
<1>7. CASE at[h] \in {"rollback", "remove"} /\ DeleteItem(item[h])
  BY <1>1, <1>7 DEF HandlerOK, Creator, Begin, InCall
<1>8. CASE at[h] = "fetch" /\ GetItem(item[h])
  BY <1>1, <1>8 DEF HandlerOK, Creator, Begin, GetItem, Refuse, Return, Die
<1>9. CASE /\ at[h] \in {"check", "get"} /\ ReadTarget(h) # Nil
           /\ GetItem(ReadTarget(h))
  <2>1. ReadTarget(h) \in Ids
    BY <1>1, <1>9, RequestFields DEF HandlerOK, ReadTarget
  <2> QED BY <1>1, <1>9, <2>1 DEF Begin, GetItem, Refuse, Return, Die
<1> QED BY <1>2, <1>3, <1>4, <1>5, <1>6, <1>7, <1>8, <1>9 DEF Calls

LEMMA StoreVault ==
    ASSUME ServerInv, StoreNext PROVE VaultStep \/ UNCHANGED vars
BY StoreSteps, CallsBegin DEF VaultStep, Next

(* A step of a handler that leaves the vault alone.                         *)
LEMMA TalksOK ==
    ASSUME ServerOK, NEW h \in Handlers, Talks(h), UNCHANGED <<vars, turn, outcome>>
    PROVE  Moves(h) /\ HandlerOK(h)' /\ ServerOK'
<1>1. StoreTypeOK /\ HandlerOK(h)
  BY DEF ServerOK
<1>2. pc' = pc
  BY DEF vars, call
<1>3. turn # h /\ Moves(h) /\ HandlerOK(h)' /\ StoreTypeOK'
  <2>1. CASE Verify(h)
    <3>1. turn = Nil /\ req[h] # Nil
      BY <1>1, <2>1 DEF Verify, Idle, ServerOK, TurnOK, HandlerOK
    <3>2. CASE Answer(h)
      BY <1>1, <3>1, <3>2, AnswerOK, AnswerIs, HandlersDistinct DEF StoreTypeOK
    <3>3. CASE Goto(h, AfterVerify[req[h].rpc])
      <4>1. /\ req[h].rpc \in {"list", "recipient", "create", "client", "delete"}
            /\ AfterVerify[req[h].rpc] \in Points
        BY <1>1, <2>1 DEF Verify, HandlerOK, AfterVerify, Points
      <4> QED BY <1>1, <3>1, <3>3, <4>1, GotoOK, GotoIs, HandlersDistinct
              DEF StoreTypeOK
    <3> QED BY <2>1, <3>2, <3>3 DEF Verify
  <2>2. CASE Report(h) \/ Reject(h)
    <3>1. turn # h /\ Answer(h)
      BY <1>1, <2>2, HandlersDistinct
         DEF Report, Reject, ServerOK, TurnOK, InCall, HandlerOK
    <3> QED BY <1>1, <3>1, AnswerOK, AnswerIs DEF StoreTypeOK
  <2>3. CASE NextDeletion(h)
    <3>1. turn # h
      BY <2>3, HandlersDistinct DEF NextDeletion, ServerOK, TurnOK, InCall
    <3>2. CASE Answer(h)
      BY <1>1, <3>1, <3>2, AnswerOK, AnswerIs DEF StoreTypeOK
    <3>3. ASSUME NEW id \in left[h] \ {Nil},
                 /\ item' = [item EXCEPT ![h] = id]
                 /\ left' = [left EXCEPT ![h] = @ \ {id}]
                 /\ at' = [at EXCEPT ![h] = "remove"] /\ UNCHANGED req
          PROVE  Moves(h) /\ HandlerOK(h)' /\ StoreTypeOK'
      <4>1. id \in Ids /\ StoreTypeOK'
        BY <1>1, <3>3 DEF StoreTypeOK, Points
      <4>2. at'[h] = "remove" /\ req'[h] = req[h] /\ req[h].rpc = "delete" /\ item'[h] = id
        BY <1>1, <2>3, <3>3 DEF StoreTypeOK, NextDeletion, HandlerOK
      <4>3. Moves(h)
        BY <1>1, <3>3, <4>2 DEF StoreTypeOK, Moves, Creator
      <4>4. HandlerOK(h)'
        BY <1>1, <2>3, <4>1, <4>2 DEF HandlerOK, Creator, NextDeletion
      <4> QED BY <4>1, <4>3, <4>4
    <3> QED BY <2>3, <3>1, <3>2, <3>3 DEF NextDeletion
  <2>4. CASE CheckAdmin(h)
    <3>1. turn # h /\ req[h] # Nil /\ at[h] = "check" /\ Goto(h, "get")
      BY <1>1, <2>4, HandlersDistinct
         DEF CheckAdmin, Idle, ServerOK, TurnOK, HandlerOK
    <3> QED BY <1>1, <3>1, GotoOK, GotoIs DEF StoreTypeOK, Points
  <2>5. ASSUME NEW r \in Requests, Receive(h, r)
        PROVE  turn # h /\ Moves(h) /\ HandlerOK(h)' /\ StoreTypeOK'
    <3>1. r \in AllRequests /\ r # Nil
      BY RequestsKnown
    <3>2. turn # h
      BY <1>1, <2>5, HandlersDistinct DEF Receive, ServerOK, TurnOK, InCall, HandlerOK
    <3>3. /\ FirstPoint[r.rpc] \in Points
          /\ req'[h] = r /\ at'[h] = FirstPoint[r.rpc]
          /\ \A g \in Handlers \ {h} : req'[g] = req[g] /\ at'[g] = at[g]
          /\ req' \in [Handlers -> AllRequests \cup {Nil}]
          /\ at' \in [Handlers -> Points]
      BY <1>1, <2>5, <3>1, RequestFields DEF Receive, StoreTypeOK, FirstPoint, Points
    <3>4. CASE r.rpc \in {"create", "client"}
      <4>1. PICK id \in Ids : /\ \A g \in Handlers : item[g] # id
                              /\ item' = [item EXCEPT ![h] = id] /\ UNCHANGED left
        BY <2>5, <3>4 DEF Receive
      <4>2. /\ item'[h] = id /\ \A g \in Handlers \ {h} : item'[g] = item[g]
            /\ item' \in [Handlers -> Ids \cup {Nil}]
        BY <1>1, <4>1 DEF StoreTypeOK
      <4>3. HandlerOK(h)'
        BY <3>1, <3>3, <3>4, <4>2 DEF HandlerOK, FirstPoint, Creator
      <4>4. Moves(h)
        BY <3>3, <4>1, <4>2 DEF Moves
      <4> QED BY <1>1, <3>2, <3>3, <4>1, <4>2, <4>3, <4>4 DEF StoreTypeOK
    <3>5. CASE r.rpc \notin {"create", "client"}
      <4>1. UNCHANGED item /\ left' \in [Handlers -> SUBSET (Ids \cup {Nil})]
        BY <1>1, <2>5, <3>1, <3>5, RequestFields DEF Receive, StoreTypeOK
      <4>2. HandlerOK(h)'
        BY <3>1, <3>3, <3>5, RequestFields DEF HandlerOK, FirstPoint, Creator
      <4>3. Moves(h)
        BY <3>1, <3>3, <3>5, <4>1 DEF Moves, Creator
      <4> QED BY <1>1, <3>2, <3>3, <4>1, <4>2, <4>3 DEF StoreTypeOK
    <3> QED BY <3>4, <3>5
  <2> QED BY <2>1, <2>2, <2>3, <2>4, <2>5 DEF Talks
<1>4. TurnOK'
  <2>1. turn # Nil => req'[turn] = req[turn] /\ at'[turn] = at[turn]
    BY <1>1, <1>3 DEF StoreTypeOK, Moves
  <2> QED BY <1>2, <2>1 DEF ServerOK, TurnOK, InCall
<1> QED BY <1>3, <1>4, OneMoves

LEMMA ServerInit == StoreInit => ServerInv
<1> SUFFICES ASSUME StoreInit PROVE ServerInv
  OBVIOUS
<1>1. Init
  BY DEF StoreInit
<1>2. SealInv
  BY <1>1, InitInv, MarksDistinct DEF Init, SealInv, SealedByIdentity, IdentityLoaded
<1>3. ValueInv /\ GoneOK
  BY <1>1, InitInv, MarksDistinct
     DEF Init, NoItems, ValueInv, BornOK, ShownOK, WriteOK, FreshOK, Writes,
     AckedValueKept, GoneOK
<1>4. StoreTypeOK
  BY DEF StoreInit, StoreTypeOK, Points
<1>5. (\A h \in Handlers : HandlerOK(h)) /\ TurnOK /\ DrawnOK
  BY <1>1 DEF StoreInit, Init, HandlerOK, TurnOK, DrawnOK, Creator
<1> QED BY <1>2, <1>3, <1>4, <1>5 DEF ServerInv, ServerOK, VaultInv

LEMMA ServerNext == ServerInv /\ [StoreNext]_allVars => ServerInv'
<1> SUFFICES ASSUME ServerInv, [StoreNext]_allVars PROVE ServerInv'
  OBVIOUS
<1>1. CASE UNCHANGED allVars
  <2>1. VaultInv'
    BY <1>1, VaultSame DEF allVars, ServerInv
  <2>2. ServerOK'
    BY <1>1 DEF allVars, handlers, vars, call, ServerInv, ServerOK, StoreTypeOK,
       HandlerOK, Creator, TurnOK, InCall, DrawnOK
  <2> QED BY <2>1, <2>2 DEF ServerInv
<1>2. CASE StoreNext
  <2>1. VaultInv'
    BY <1>2, StoreVault, VaultStepInv, VaultSame DEF ServerInv
  <2>2. Inv'
    BY <2>1 DEF VaultInv, SealInv
  <2>3. ServerOK /\ Inv
    BY DEF ServerInv, VaultInv, SealInv
  <2> SUFFICES ServerOK'
    BY <2>1 DEF ServerInv
  <2>4. CASE UNCHANGED <<vars, turn, outcome>> /\ \E h \in Handlers : Talks(h)
    BY <2>3, <2>4, TalksOK
  <2>5. CASE NewVault /\ UNCHANGED handlers
    BY <2>3, <2>5 DEF NewVault, call, handlers, ServerOK, StoreTypeOK, HandlerOK,
       Creator, TurnOK, InCall, DrawnOK
  <2>6. CASE (Crash \/ Panic) /\ DropAll
    BY <2>3, <2>6, DropAllOK DEF Crash, Panic, Die, Return
  <2>7. CASE turn \in Handlers /\ Continue /\ Follow(turn)
    <3>1. InCall(turn) /\ req[turn] # Nil
      BY <2>3, <2>7, HandlersDistinct DEF ServerOK, TurnOK, InCall, HandlerOK
    <3> QED BY <2>2, <2>3, <2>7, <3>1, FollowOK
  <2>8. ASSUME NEW h \in Handlers, Calls(h) /\ Follow(h) PROVE ServerOK'
    BY <2>2, <2>3, <2>8, CallsBegin, FollowOK
  <2> QED BY <1>2, <2>4, <2>5, <2>6, <2>7, <2>8, StoreSteps
<1> QED BY <1>1, <1>2

LEMMA ServerInvHolds == StoreSpec => []ServerInv
BY ServerInit, ServerNext, PTL DEF StoreSpec

(* What holds of the vault by itself holds of the vault that any number of  *)
(* handlers share, under every set of faults: their calls reach it one at a *)
(* time, and the panic of ReadVaultItem ends it like a crash.               *)
THEOREM ServedVaultSafe ==
    StoreSpec => [](/\ TypeOK /\ StoreTypeOK
                    /\ SealedByIdentity /\ AckedValueKept /\ NoStaleRead)
<1>1. ServerInv => /\ TypeOK /\ StoreTypeOK
                   /\ SealedByIdentity /\ AckedValueKept /\ NoStaleRead
  BY DEF ServerInv, VaultInv, ServerOK, SealInv, Inv, ValueInv, FreshOK, NoStaleRead
<1> QED BY <1>1, ServerInvHolds, PTL
-----------------------------------------------------------------------------
(* A verified passphrase.  Needs an .identity that can be written: a vault  *)
(* whose .identity could not be written counts as unlocked with a           *)
(* passphrase that the next Unlock need not repeat.                         *)

(* Outside Unlock, a vault with a passphrase has loaded its identity.       *)
KeyOK == (identityKey # Nil /\ pc # "identity") => primary # Nil

(* What a handler verified is the passphrase of .identity.                  *)
VerifiedOK ==
    \A h \in Handlers : at[h] \in AfterVerifying =>
        idFile \in IdentityFile /\ idFile.key = req[h].pass

LEMMA KeyFrame ==
    ASSUME KeyOK,
           \/ identityKey' = Nil
           \/ primary' # Nil
           \/ UNCHANGED <<identityKey, primary>> /\ pc # "identity"
    PROVE  KeyOK'
BY DEF KeyOK

LEMMA KeyStep ==
    ASSUME "write" \notin Faults, VaultInv, KeyOK, VaultStep PROVE KeyOK'
<1>1. CASE identityKey' = Nil \/ (UNCHANGED <<identityKey, primary>> /\ pc # "identity")
  BY <1>1, KeyFrame
<1>2. CASE Panic \/ Crash \/ NewVault
  <2>1. identityKey' = Nil \/ (UNCHANGED <<identityKey, primary>> /\ pc # "identity")
    BY <1>2 DEF Panic, Crash, Die, Forget, NewVault, VaultInv, SealInv, Inv, LockOK
  <2> QED BY <1>1, <2>1
<1>3. ASSUME NEW p \in Passphrases, Unlock(p) PROVE KeyOK'
  BY <1>1, <1>3 DEF Unlock, Idle, Refuse, memory, Proceed, KeyOK
<1>4. CASE Begin /\ ~\E p \in Passphrases : Unlock(p)
  <2>1. identityKey' = Nil \/ (UNCHANGED <<identityKey, primary>> /\ pc # "identity")
    BY <1>4 DEF Begin, Lock, CreateItem, GetItem, DeleteItem, SetItemValue,
       SetRecoveryRecipient, Idle, Refuse, memory, Die, Forget
  <2> QED BY <1>1, <2>1
<1>5. CASE VerifyIdentity
  <2>1. CASE IdentityOpens /\ primary' = idFile.ident
    <3>1. primary' # Nil
      BY <2>1, MarksDistinct DEF IdentityOpens, IdentityFile
    <3> QED BY <3>1, KeyFrame
  <2>2. CASE identityKey' = Nil
    BY <1>1, <2>2
  <2> QED BY <1>5, <2>1, <2>2 DEF VerifyIdentity, Die, Forget
<1>6. ASSUME NEW ident \in Identities, GenerateIdentity(ident) PROVE KeyOK'
  <2>1. CASE primary' = ident
    <3>1. primary' # Nil
      BY <2>1, MarksDistinct
    <3> QED BY <3>1, KeyFrame
  <2>2. CASE Die
    BY <1>1, <2>2 DEF Die, Forget
  <2> QED BY <1>6, <2>1, <2>2 DEF GenerateIdentity, WriteOutcomes
<1>7. CASE Continue /\ pc # "identity"
  <2>1. identityKey' = Nil \/ UNCHANGED <<identityKey, primary>>
    BY <1>7 DEF Continue, VerifyIdentity, GenerateIdentity, LoadItems, BackupValue,
       WriteValue, WriteMetadata, DeleteValue, RestoreRecipient, ReloadMetadata,
       FinishRecovery, ResealItem, memory, Die, Forget
  <2> QED BY <1>1, <1>7, <2>1
<1>8. CASE Continue /\ pc = "identity"
  BY <1>5, <1>6, <1>8 DEF Continue, LoadItems, BackupValue, WriteValue,
     WriteMetadata, DeleteValue, RestoreRecipient, ReloadMetadata, FinishRecovery,
     ResealItem
<1> QED BY <1>2, <1>3, <1>4, <1>7, <1>8 DEF VaultStep, Next

(* A handler past its verification has verified, or verifies now.           *)
LEMMA VerifiedFrom ==
    ASSUME ServerInv, StoreNext, NEW h \in Handlers, at'[h] \in AfterVerifying
    PROVE  /\ req'[h] = req[h]
           /\ \/ at[h] \in AfterVerifying
              \/ /\ Idle /\ VerifyPassphrase(req[h].pass) /\ UNCHANGED vars
<1>1. StoreTypeOK /\ HandlerOK(h)
  BY DEF ServerInv, ServerOK
<1>2. ASSUME NEW g \in Handlers, Talks(g), UNCHANGED <<vars, turn, outcome>>
      PROVE  /\ req'[h] = req[h]
             /\ \/ at[h] \in AfterVerifying
                \/ /\ Idle /\ VerifyPassphrase(req[h].pass) /\ UNCHANGED vars
  <2>1. Moves(g)
    BY <1>2, TalksOK DEF ServerInv
  <2>2. CASE g # h
    BY <2>1, <2>2 DEF Moves
  <2>3. CASE g = h
    <3>1. ~Answer(h)
      BY <1>1, AnswerIs DEF AfterVerifying
    <3>2. ~ \E r \in Requests : Receive(h, r)
      <4> SUFFICES ASSUME NEW r \in Requests, Receive(h, r) PROVE FALSE
        OBVIOUS
      <4>1. r \in AllRequests
        BY RequestsKnown
      <4>2. at'[h] = FirstPoint[r.rpc]
        BY <1>1 DEF Receive, StoreTypeOK
      <4> QED BY <4>1, <4>2, RequestFields DEF FirstPoint, AfterVerifying
    <3>3. CASE Verify(h)
      BY <1>1, <1>2, <3>1, <3>3 DEF Verify, Goto
    <3>4. CASE NextDeletion(h)
      BY <1>1, <3>1, <3>4 DEF NextDeletion, AfterVerifying
    <3>5. ~CheckAdmin(h)
      BY <1>1 DEF CheckAdmin, Goto, StoreTypeOK, AfterVerifying
    <3> QED BY <1>2, <2>3, <3>1, <3>2, <3>3, <3>4, <3>5 DEF Talks, Report, Reject
  <2> QED BY <2>2, <2>3
<1>3. ASSUME NEW g \in Handlers, Follow(g), req[g] # Nil
      PROVE  req'[h] = req[h] /\ at[h] \in AfterVerifying
  <2>1. ~DropAll
    BY <1>1, DropAllIs DEF AfterVerifying
  <2>2. CASE UNCHANGED <<req, at>>
    BY <2>2
  <2>3. CASE Resume(g, result' = "ok")
    <3>1. Moves(g)
      BY <1>3, <2>3, ResumeOK DEF ServerInv
    <3>2. CASE g # h
      BY <3>1, <3>2 DEF Moves
    <3>3. CASE g = h
      <4>1. ~Answer(h)
        BY <1>1, AnswerIs DEF AfterVerifying
      <4>2. at[h] # "check"
        BY <1>1, <2>3, <3>3, <4>1 DEF Resume, Goto, StoreTypeOK, AfterVerifying
      <4> QED BY <2>3, <3>3, <4>1, <4>2 DEF Resume, AfterFailedSet, Goto, AfterVerifying
    <3> QED BY <3>2, <3>3
  <2> QED BY <1>3, <2>1, <2>2, <2>3 DEF Follow
<1>4. CASE NewVault /\ UNCHANGED handlers
  BY <1>4 DEF handlers
<1>5. ~DropAll
  BY <1>1, DropAllIs DEF AfterVerifying
<1>6. turn \in Handlers => req[turn] # Nil
  BY HandlersDistinct DEF ServerInv, ServerOK, TurnOK, InCall, HandlerOK
<1> QED BY <1>2, <1>3, <1>4, <1>5, <1>6, StoreSteps, CallsBegin

LEMMA VerifiedNext ==
    ASSUME "write" \notin Faults, ServerInv, KeyOK, VerifiedOK, StoreNext
    PROVE  VerifiedOK'
<1> SUFFICES ASSUME NEW h \in Handlers, at'[h] \in AfterVerifying
             PROVE  idFile' \in IdentityFile /\ idFile'.key = req'[h].pass
  BY DEF VerifiedOK
<1>1. idFile \in IdentityFile /\ idFile.key = req[h].pass
  <2>1. CASE at[h] \in AfterVerifying
    BY <2>1 DEF VerifiedOK
  <2>2. CASE Idle /\ VerifyPassphrase(req[h].pass)
    <3>1. primary # Nil /\ identityKey = req[h].pass
      BY <2>2 DEF Idle, VerifyPassphrase, IsLocked, KeyOK
    <3> QED BY <3>1 DEF ServerInv, VaultInv, SealInv, IdentityLoaded
  <2> QED BY <2>1, <2>2, VerifiedFrom
<1>2. idFile' = idFile
  <2>1. CASE Panic
    BY <2>1 DEF Panic, disk
  <2>2. CASE UNCHANGED vars
    BY <2>2 DEF vars, disk
  <2> QED BY <1>1, <2>1, <2>2, StoreVault, IdentityStep DEF VaultStep
<1>3. req'[h] = req[h]
  BY VerifiedFrom
<1> QED BY <1>1, <1>2, <1>3

(* A handler that has verified its passphrase acts, later on, on a vault    *)
(* that is locked or unlocked with that passphrase: relocking between its   *)
(* calls, crashes, restarts and failing reads and deletions included.       *)
THEOREM VerificationHolds ==
    ASSUME "write" \notin Faults PROVE StoreSpec => []VerifiedStillHolds
<1> DEFINE HeldInv == ServerInv /\ KeyOK /\ VerifiedOK
<1>1. StoreInit => HeldInv
  BY ServerInit DEF StoreInit, Init, KeyOK, VerifiedOK, AfterVerifying
<1>2. HeldInv /\ [StoreNext]_allVars => HeldInv'
  <2> SUFFICES ASSUME HeldInv, [StoreNext]_allVars PROVE HeldInv'
    OBVIOUS
  <2>1. ServerInv'
    BY ServerNext
  <2>2. CASE UNCHANGED allVars
    BY <2>1, <2>2 DEF allVars, handlers, vars, memory, disk, call, KeyOK, VerifiedOK
  <2>3. CASE StoreNext
    <3>1. KeyOK'
      <4>1. CASE UNCHANGED vars
        BY <4>1 DEF vars, memory, call, KeyOK
      <4> QED BY <2>3, <4>1, StoreVault, KeyStep DEF ServerInv
    <3> QED BY <2>1, <2>3, <3>1, VerifiedNext
  <2> QED BY <2>2, <2>3
<1>3. HeldInv => VerifiedStillHolds
  BY DEF ServerInv, VaultInv, SealInv, IdentityLoaded, VerifiedOK, VerifiedStillHolds
<1> QED BY <1>1, <1>2, <1>3, PTL DEF StoreSpec
-----------------------------------------------------------------------------
(* One value per item.  Over the RPCs an item is offered one value, for its *)
(* id is drawn by one creation and that calls SetItemValue once.            *)

UnbornOK == \A i \in Ids : life[i] = "unborn" => offered[i] = {}

UnsetOK ==
    \A h \in Handlers :
        (Creator(h) /\ at[h] \in {"verify", "create", "set"} /\ turn # h) =>
            offered[item[h]] = {}

OneValue == \A i \in Ids : \A v, w \in offered[i] : v = w

(* A checksum on disk is that of an offered value.                          *)
SumOK ==
    \A i \in Ids :
        (metaFile[i] \in Metadata /\ metaFile[i].sum # Nil) =>
            metaFile[i].sum \in offered[i]

OfferInv == UnbornOK /\ UnsetOK /\ OneValue /\ SumOK

Offers == \E id \in Ids, v \in Values \cup {Nil} : SetItemValue(id, v)

LEMMA OfferTypes ==
    ASSUME VaultInv
    PROVE  /\ offered \in [Ids -> SUBSET Values]
           /\ life \in [Ids -> {"unborn", "lost", "created", "deleted"}]
           /\ metaFile \in [Ids -> Metadata \cup {Absent, Partial, Empty}]
           /\ items \in [Ids -> Values \cup {Nil, Absent}]
BY DEF VaultInv, SealInv, Inv, TypeOK, HistoryOK, DiskOK, MemoryOK

LEMMA ValueTypes ==
    ASSUME VaultInv
    PROVE  /\ valFile \in [Ids -> Sealed \cup {Absent, Partial}]
           /\ stored \in [Ids -> Values \cup {Nil}]
           /\ primary \in Identities \cup {Nil}
           /\ recovery \in Recipients \cup {Nil}
           /\ cur \in Writing \cup {Nil}
           /\ todo \subseteq Ids
BY DEF VaultInv, SealInv, Inv, TypeOK, HistoryOK, DiskOK, MemoryOK, CallOK

(* A step that offers no value and writes no metadata file.                 *)
LEMMA SameOffers ==
    ASSUME UnbornOK, SumOK, UNCHANGED offered,
           \A i \in Ids : life'[i] = "unborn" => life[i] = "unborn",
           \A i \in Ids : metaFile'[i] \in {metaFile[i], Absent}
    PROVE  /\ \A i \in Ids : offered'[i] \subseteq offered[i]
           /\ UnbornOK' /\ SumOK'
BY MarksDistinct DEF UnbornOK, SumOK

(* Only SetItemValue offers a value.                                        *)
LEMMA OtherOffers ==
    ASSUME VaultInv, UnbornOK, SumOK, VaultStep, ~Offers
    PROVE  /\ \A i \in Ids : offered'[i] \subseteq offered[i]
           /\ UnbornOK' /\ SumOK'
<1>1. CASE UNCHANGED <<metaFile, life, offered>>
  BY <1>1, SameOffers
<1>2. CASE Panic \/ Crash \/ NewVault
  BY <1>1, <1>2 DEF Panic, Crash, NewVault, disk, history
<1>3. ASSUME NEW id \in Ids, CreateItem(id)
      PROVE  /\ \A i \in Ids : offered'[i] \subseteq offered[i]
             /\ UnbornOK' /\ SumOK'
  <2>1. CASE UNCHANGED <<disk, history>>
    BY <1>1, <2>1 DEF disk, history
  <2>2. CASE UNCHANGED offered /\ \E o \in WriteOutcomes :
               /\ life' = [life EXCEPT ![id] = IF o = "ok" THEN "created"
                                                         ELSE "lost"]
               /\ \E c \in Contents(Absent, [sum |-> Nil, by |-> primary],
                                    {Partial, Empty}, o) :
                     metaFile' = [metaFile EXCEPT ![id] = c]
    <3>1. \A i \in Ids : life'[i] = "unborn" => life[i] = "unborn"
      BY <2>2, OfferTypes
    <3>2. \A i \in Ids :
             \/ metaFile'[i] \in {metaFile[i], Absent, Partial, Empty}
             \/ metaFile'[i] = [sum |-> Nil, by |-> primary]
      BY <2>2, OfferTypes DEF Contents
    <3> QED BY <2>2, <3>1, <3>2, MarksDistinct DEF UnbornOK, SumOK
  <2> QED BY <1>3, <2>1, <2>2 DEF CreateItem, Refuse
<1>4. ASSUME NEW id \in Ids, DeleteItem(id)
      PROVE  /\ \A i \in Ids : offered'[i] \subseteq offered[i]
             /\ UnbornOK' /\ SumOK'
  <2>1. CASE UNCHANGED <<disk, history>>
    BY <1>1, <2>1 DEF disk, history
  <2>2. CASE UNCHANGED <<offered, disk>>
             /\ life' = [life EXCEPT ![id] = IF @ = "created" THEN "deleted" ELSE @]
    <3>1. \A i \in Ids : life'[i] = "unborn" => life[i] = "unborn"
      BY <2>2, OfferTypes
    <3> QED BY <2>2, <3>1, SameOffers DEF disk
  <2>3. CASE UNCHANGED <<offered, life>> /\ \E c \in Remains(metaFile[id]) :
               metaFile' = [metaFile EXCEPT ![id] = c]
    <3>1. \A i \in Ids : metaFile'[i] \in {metaFile[i], Absent}
      BY <2>3, OfferTypes DEF Remains
    <3> QED BY <2>3, <3>1, SameOffers
  <2> QED BY <1>4, <2>1, <2>2, <2>3 DEF DeleteItem, Refuse
<1>5. CASE Begin /\ ~Offers /\ ~\E id \in Ids : CreateItem(id) \/ DeleteItem(id)
  BY <1>1, <1>5 DEF Begin, Offers, Unlock, Lock, GetItem, SetRecoveryRecipient,
     Refuse, disk, history
<1>6. CASE DeleteValue
  <2>1. \A i \in Ids : life'[i] = "unborn" => life[i] = "unborn"
    BY <1>6, OfferTypes DEF DeleteValue
  <2> QED BY <1>6, <2>1, SameOffers DEF DeleteValue
<1>7. CASE WriteMetadata
  <2>1. /\ cur.id \in Ids /\ cur.val \in offered[cur.id]
        /\ cur.val \in Values
    BY <1>7, WritingFacts DEF WriteMetadata, VaultInv, ValueInv, WriteOK, Writes
  <2>2. UNCHANGED life
    BY <1>7 DEF WriteMetadata
  <2>3. PICK w \in Ids, x \in Values : w = cur.id /\ x = cur.val
    BY <2>1
  <2>4. offered' \in {offered, [offered EXCEPT ![w] = {x}]}
    BY <1>7, <2>3 DEF WriteMetadata
  <2>5. \/ UNCHANGED metaFile
        \/ \E c \in {Partial, Empty, [sum |-> x, by |-> primary]} :
              metaFile' = [metaFile EXCEPT ![w] = c]
    <3>1. PICK c \in {metaFile[w], Partial, Empty, [sum |-> x, by |-> primary]} :
                 metaFile' = [metaFile EXCEPT ![w] = c]
      BY <1>7, <2>3 DEF WriteMetadata, Contents
    <3> QED BY <3>1, OfferTypes
  <2>6. \A i \in Ids : offered'[i] \subseteq offered[i]
    BY <2>1, <2>3, <2>4, OfferTypes
  <2>7. x \in offered'[w]
    BY <2>1, <2>3, <2>4, OfferTypes
  <2>8. SumOK'
    <3>1. CASE offered' = offered
      BY <2>3, <2>5, <2>7, <3>1, OfferTypes, MarksDistinct DEF SumOK
    <3>2. CASE ~(offered' = offered)
      <4>1. metaFile' = [metaFile EXCEPT ![w] = [sum |-> x, by |-> primary]]
        BY <1>7, <2>3, <3>2 DEF WriteMetadata, Contents
      <4> QED BY <2>4, <2>7, <3>2, <4>1, OfferTypes, MarksDistinct DEF SumOK
    <3> QED BY <3>1, <3>2
  <2> QED BY <2>2, <2>6, <2>8 DEF UnbornOK
<1>8. CASE Continue /\ ~WriteMetadata /\ ~DeleteValue
  BY <1>1, <1>8 DEF Continue, VerifyIdentity, GenerateIdentity, LoadItems,
     BackupValue, WriteValue, RestoreRecipient, ReloadMetadata, FinishRecovery,
     ResealItem, disk, history
<1> QED BY <1>2, <1>3, <1>4, <1>5, <1>6, <1>7, <1>8 DEF VaultStep, Next

(* A write begins for the handler that is at its SetItemValue.              *)
LEMMA SetByHandler ==
    ASSUME ServerInv, StoreNext, Idle, pc' \in Writes
    PROVE  \E g \in Handlers : /\ at[g] = "set" /\ Creator(g) /\ turn # g
                               /\ SetItemValue(item[g], req[g].val) /\ turn' = g
                               /\ UNCHANGED <<req, at, item, outcome>>
<1>1. turn = Nil /\ Inv
  BY DEF ServerInv, ServerOK, TurnOK, Idle, VaultInv, SealInv
<1>2. pc' # "idle" /\ ~UNCHANGED vars /\ ~NewVault /\ ~Crash /\ ~Panic
  BY DEF Idle, Writes, vars, call, NewVault, Crash, Panic, Die, Return
<1>3. PICK g \in Handlers : Calls(g) /\ Follow(g)
  BY <1>1, <1>2, StoreSteps, HandlersDistinct
<1>4. at[g] = "set" /\ SetItemValue(item[g], req[g].val)
  BY <1>2, <1>3 DEF Writes, Calls, Unlock, Lock, CreateItem, DeleteItem, GetItem,
     SetRecoveryRecipient, Refuse, Die, Return, Proceed
<1>5. Creator(g)
  <2>1. HandlerOK(g)
    BY DEF ServerInv, ServerOK
  <2> QED BY <1>4, <2>1 DEF HandlerOK, Creator
<1>6. up'
  BY <1>2, <1>4 DEF SetItemValue, Idle, Refuse
<1> QED BY <1>1, <1>2, <1>3, <1>4, <1>5, <1>6, HandlersDistinct DEF Follow

(* A creation that has not called SetItemValue yet had not before the step. *)
Unset(h) == Creator(h) /\ at[h] \in {"verify", "create", "set"} /\ turn # h

LEMMA UnsetFrom ==
    ASSUME ServerInv, StoreNext, NEW h \in Handlers, Unset(h)'
    PROVE  \/ Unset(h) /\ item'[h] = item[h]
           \/ life[item'[h]] = "unborn" /\ UNCHANGED vars
<1> USE DEF Unset
<1>1. StoreTypeOK /\ HandlerOK(h) /\ TurnOK
  BY DEF ServerInv, ServerOK
<1>2. ASSUME NEW g \in Handlers, Talks(g), UNCHANGED <<vars, turn, outcome>>
      PROVE  \/ Unset(h) /\ item'[h] = item[h]
             \/ life[item'[h]] = "unborn" /\ UNCHANGED vars
  <2>1. Moves(g)
    BY <1>2, TalksOK DEF ServerInv
  <2>2. CASE g # h
    BY <1>2, <2>1, <2>2 DEF Moves, Creator
  <2>3. CASE g = h
    <3>1. ~Answer(h)
      BY <1>1, AnswerIs
    <3>2. ASSUME NEW r \in Requests, Receive(h, r)
          PROVE  life[item'[h]] = "unborn" /\ UNCHANGED vars
      BY <1>1, <1>2, <3>2 DEF Receive, StoreTypeOK, Creator
    <3>3. CASE Verify(h)
      BY <1>1, <1>2, <3>1, <3>3 DEF Verify, Goto, Creator
    <3>4. ~NextDeletion(h)
      BY <1>1, <3>1 DEF NextDeletion, StoreTypeOK
    <3>5. ~CheckAdmin(h)
      BY <1>1 DEF CheckAdmin, Goto, StoreTypeOK
    <3> QED BY <1>2, <2>3, <3>1, <3>2, <3>3, <3>4, <3>5 DEF Talks, Report, Reject
  <2> QED BY <2>2, <2>3
<1>3. ASSUME NEW g \in Handlers, Follow(g), req[g] # Nil,
             (turn = Nil \/ turn = g), at[g] = "create" => turn = Nil
      PROVE  Unset(h) /\ item'[h] = item[h]
  <2>1. ~DropAll
    BY <1>1, DropAllIs DEF Creator
  <2>2. CASE turn' = g /\ UNCHANGED <<req, at, item>>
    BY <1>3, <2>2, HandlersDistinct DEF Creator
  <2>3. CASE Resume(g, result' = "ok")
    <3>1. Moves(g)
      BY <1>3, <2>3, ResumeOK DEF ServerInv
    <3>2. CASE g # h
      BY <1>3, <3>1, <3>2, HandlersDistinct DEF Moves, Creator
    <3>3. CASE g = h
      <4>1. ~Answer(h)
        BY <1>1, AnswerIs
      <4>2. at[h] = "create" /\ Goto(h, "set")
        BY <1>1, <2>3, <3>3, <4>1
           DEF Resume, AfterFailedSet, Goto, StoreTypeOK
      <4> QED BY <1>3, <3>3, <4>2, HandlersDistinct DEF Goto, Creator
    <3> QED BY <3>2, <3>3
  <2> QED BY <1>3, <2>1, <2>2, <2>3 DEF Follow
<1>4. CASE NewVault /\ UNCHANGED handlers
  BY <1>4 DEF handlers, Creator
<1>5. ~DropAll
  BY <1>1, DropAllIs DEF Creator
<1>6. turn \in Handlers => req[turn] # Nil /\ at[turn] # "create"
  BY HandlersDistinct DEF ServerInv, ServerOK, TurnOK, InCall, HandlerOK
<1>7. ASSUME NEW g \in Handlers, Calls(g) PROVE turn = Nil
  BY <1>1, <1>7 DEF TurnOK, Calls, Unlock, Lock, CreateItem, SetItemValue,
     DeleteItem, GetItem, SetRecoveryRecipient, Idle
<1> QED BY <1>2, <1>3, <1>4, <1>5, <1>6, <1>7, StoreSteps, CallsBegin

LEMMA OfferNext == ASSUME ServerInv, OfferInv, StoreNext PROVE OfferInv'
<1>1. VaultInv
  BY DEF ServerInv
<1>2. CASE /\ \A i \in Ids : offered'[i] \subseteq offered[i]
           /\ UnbornOK' /\ SumOK'
  <2>1. UnsetOK'
    <3> SUFFICES ASSUME NEW h \in Handlers, Unset(h)' PROVE offered'[item'[h]] = {}
      BY DEF UnsetOK, Unset
    <3>1. item'[h] \in Ids
      <4>1. HandlerOK(h)'
        BY ServerNext DEF ServerInv, ServerOK
      <4> QED BY <4>1 DEF HandlerOK, Unset
    <3>2. offered[item'[h]] = {}
      BY <3>1, UnsetFrom DEF OfferInv, UnbornOK, UnsetOK, Unset
    <3> QED BY <1>2, <3>1, <3>2
  <2>2. OneValue'
    BY <1>2 DEF OfferInv, OneValue
  <2> QED BY <1>2, <2>1, <2>2 DEF OfferInv
<1>3. CASE UNCHANGED <<disk, history>>
  BY <1>2, <1>3 DEF disk, history, OfferInv, UnbornOK, SumOK
<1>4. CASE VaultStep /\ ~Offers
  BY <1>1, <1>2, <1>4, OtherOffers DEF OfferInv
<1>5. CASE Offers /\ ~UNCHANGED <<disk, history>>
  <2>1. Idle /\ pc' \in Writes
    BY <1>5 DEF Offers, SetItemValue, Refuse, Proceed, FirstStep, Writes
  <2>2. PICK g \in Handlers : /\ at[g] = "set" /\ Creator(g) /\ turn # g
                              /\ SetItemValue(item[g], req[g].val) /\ turn' = g
                              /\ UNCHANGED <<req, at, item, outcome>>
    BY <2>1, SetByHandler
  <2>3. item[g] \in Ids /\ offered[item[g]] = {}
    BY <2>2 DEF ServerInv, ServerOK, HandlerOK, OfferInv, UnsetOK
  <2>4. PICK w \in Ids : w = item[g]
    BY <2>3
  <2>5. /\ items[w] # Absent
        /\ offered' = [offered EXCEPT ![w] = @ \cup {req[g].val}]
        /\ UNCHANGED <<disk, life>>
    BY <1>5, <2>2, <2>4 DEF SetItemValue, Refuse
  <2>6. offered'[w] = {req[g].val} /\ \A i \in Ids \ {w} : offered'[i] = offered[i]
    BY <1>1, <2>3, <2>4, <2>5, OfferTypes
  <2>7. UnbornOK'
    BY <1>1, <2>5, <2>6 DEF VaultInv, ValueInv, BornOK, OfferInv, UnbornOK
  <2>8. OneValue'
    BY <2>6 DEF OfferInv, OneValue
  <2>9. SumOK'
    BY <2>3, <2>4, <2>5, <2>6 DEF disk, OfferInv, SumOK
  <2>10. UnsetOK'
    <3> SUFFICES ASSUME NEW h \in Handlers, Unset(h)' PROVE offered'[item'[h]] = {}
      BY DEF UnsetOK, Unset
    <3>1. h # g /\ Unset(h) /\ item'[h] = item[h] /\ item[h] \in Ids
      BY <2>2, UnsetFrom, <2>1, <1>5
         DEF Unset, Creator, vars, ServerInv, ServerOK, HandlerOK
    <3>2. item[h] # item[g] /\ offered[item[h]] = {}
      BY <2>2, <3>1 DEF ServerInv, ServerOK, DrawnOK, OfferInv, UnsetOK, Unset
    <3> QED BY <2>4, <2>6, <3>1, <3>2
  <2> QED BY <2>7, <2>8, <2>9, <2>10 DEF OfferInv
<1>6. CASE UNCHANGED vars
  BY <1>3, <1>6 DEF vars
<1> QED BY <1>3, <1>4, <1>5, <1>6, StoreVault

LEMMA OfferInvHolds == StoreSpec => [](ServerInv /\ OfferInv)
<1>1. StoreInit => ServerInv /\ OfferInv
  BY ServerInit, MarksDistinct
     DEF StoreInit, Init, OfferInv, UnbornOK, UnsetOK, OneValue, SumOK, Creator
<1>2. (ServerInv /\ OfferInv) /\ [StoreNext]_allVars => (ServerInv /\ OfferInv)'
  <2>1. OfferInv /\ UNCHANGED allVars => OfferInv'
    BY DEF allVars, handlers, vars, disk, history, OfferInv, UnbornOK, UnsetOK,
       OneValue, SumOK, Creator
  <2> QED BY <2>1, ServerNext, OfferNext
<1> QED BY <1>1, <1>2, PTL DEF StoreSpec

(* Under every set of faults, a value file and an intact metadata file of   *)
(* one item agree: both hold the one value its creation offered.            *)
THEOREM OneValuePerItem == StoreSpec => []NeverMismatched
<1>1. ServerInv /\ OfferInv => NeverMismatched
  BY DEF ServerInv, VaultInv, ValueInv, FreshOK, OfferInv, OneValue, SumOK,
     NeverMismatched
<1> QED BY <1>1, OfferInvHolds, PTL

-----------------------------------------------------------------------------
(* A creation and its item.                                                 *)

(* What the vault call in progress does is what its handler is at.          *)
LinkOK ==
    turn # Nil =>
        /\ at[turn] = "set" =>
              pc \in Writes /\ cur.id = item[turn] /\ cur.caller = "SetItemValue"
        /\ at[turn] \in {"rollback", "remove"} <=> pc = "deleteValue"
        /\ pc = "deleteValue" => todo = {item[turn]}

Made(i) == life[i] \in {"created", "deleted"}

(* A handler past CreateItem has made its item, and so has every answer.    *)
MadeOK ==
    /\ \A h \in Handlers : at[h] \in {"set", "rollback", "fetch"} => Made(item[h])
    /\ \A i \in Ids : outcome[i] # "none" => Made(i)

(* The vault call of h returns in this step.                                *)
Returns(h) ==
    /\ up' /\ pc' = "idle"
    /\ \/ Calls(h) /\ Idle
       \/ turn = h /\ pc # "idle" /\ Continue

LEMMA CallsIdle == ASSUME NEW h, Calls(h) PROVE Idle
BY DEF Calls, Unlock, Lock, CreateItem, SetItemValue, DeleteItem, GetItem,
   SetRecoveryRecipient

(* A step that changes an outcome, or leaves a handler on its way through a *)
(* creation: which vault call returned, and how.                            *)
LEMMA StoreReturns ==
    ASSUME ServerInv, StoreNext
    PROVE  \/ /\ UNCHANGED outcome
              /\ \A h \in Handlers : at'[h] \in {"set", "rollback", "fetch"} =>
                    at'[h] = at[h] /\ item'[h] = item[h]
           \/ \E h \in Handlers :
                 Returns(h) /\ Resume(h, result' = "ok") /\ Moves(h)
<1>1. StoreTypeOK
  BY DEF ServerInv, ServerOK
<1>2. ASSUME NEW g \in Handlers, Talks(g), UNCHANGED <<vars, turn, outcome>>
      PROVE  /\ UNCHANGED outcome
             /\ \A h \in Handlers : at'[h] \in {"set", "rollback", "fetch"} =>
                   at'[h] = at[h] /\ item'[h] = item[h]
  <2> SUFFICES ASSUME NEW h \in Handlers, at'[h] \in {"set", "rollback", "fetch"}
               PROVE  at'[h] = at[h] /\ item'[h] = item[h]
    BY <1>2
  <2>1. Moves(g)
    BY <1>2, TalksOK DEF ServerInv
  <2>2. CASE g # h
    BY <2>1, <2>2 DEF Moves
  <2>3. CASE g = h
    <3>1. ~Answer(h)
      BY <1>1, AnswerIs
    <3>2. ASSUME NEW r \in Requests, Receive(h, r) PROVE FALSE
      <4>1. r \in AllRequests
        BY RequestsKnown
      <4>2. at'[h] = FirstPoint[r.rpc]
        BY <1>1, <3>2 DEF Receive, StoreTypeOK
      <4> QED BY <4>1, <4>2, RequestFields DEF FirstPoint
    <3>3. HandlerOK(h)
      BY DEF ServerInv, ServerOK
    <3>4. ~Verify(h)
      BY <1>1, <3>1, <3>3 DEF Verify, Goto, AfterVerify, HandlerOK, StoreTypeOK
    <3>5. ~NextDeletion(h) /\ ~CheckAdmin(h)
      BY <1>1, <3>1 DEF NextDeletion, CheckAdmin, Goto, StoreTypeOK
    <3> QED BY <1>2, <2>3, <3>1, <3>2, <3>4, <3>5 DEF Talks, Report, Reject
  <2> QED BY <2>2, <2>3
<1>3. ASSUME NEW g \in Handlers, Follow(g), req[g] # Nil,
             (Calls(g) /\ Idle) \/ (turn = g /\ pc # "idle" /\ Continue)
      PROVE  \/ /\ UNCHANGED outcome
                /\ \A h \in Handlers : at'[h] \in {"set", "rollback", "fetch"} =>
                      at'[h] = at[h] /\ item'[h] = item[h]
             \/ Returns(g) /\ Resume(g, result' = "ok") /\ Moves(g)
  <2>1. CASE DropAll
    BY <1>1, <2>1, DropAllIs DEF DropAll
  <2>2. CASE Resume(g, result' = "ok") /\ up' /\ pc' = "idle"
    BY <1>3, <2>2, ResumeOK DEF ServerInv, Returns
  <2> QED BY <1>3, <2>1, <2>2 DEF Follow
<1>4. CASE NewVault /\ UNCHANGED handlers
  BY <1>4 DEF handlers
<1>5. CASE DropAll
  BY <1>1, <1>5, DropAllIs DEF DropAll
<1>6. CASE turn \in Handlers /\ Continue /\ Follow(turn)
  <2>1. req[turn] # Nil /\ pc # "idle"
    BY <1>6, HandlersDistinct DEF ServerInv, ServerOK, TurnOK, InCall, HandlerOK
  <2> QED BY <1>3, <1>6, <2>1
<1>7. ASSUME NEW g \in Handlers, Calls(g), Follow(g)
      PROVE  req[g] # Nil /\ Idle
  BY <1>7, CallsBegin, CallsIdle
<1> QED BY <1>2, <1>3, <1>4, <1>5, <1>6, <1>7, StoreSteps

(* An item is never unmade.                                                 *)
LEMMA LifeStep ==
    ASSUME VaultInv, VaultStep \/ UNCHANGED vars
    PROVE  \A i \in Ids : /\ life[i] = "deleted" => life'[i] = "deleted"
                          /\ Made(i) => Made(i)'
<1>1. CASE UNCHANGED life
  BY <1>1 DEF Made
<1>2. CASE UNCHANGED vars \/ Panic \/ Crash \/ NewVault
  BY <1>1, <1>2 DEF Panic, Crash, NewVault, vars, history
<1>3. ASSUME NEW id \in Ids, CreateItem(id) \/ DeleteItem(id)
      PROVE  \A i \in Ids : /\ life[i] = "deleted" => life'[i] = "deleted"
                            /\ Made(i) => Made(i)'
  <2>1. \/ UNCHANGED life
        \/ life[id] = "unborn"
           /\ \E o \in WriteOutcomes :
                life' = [life EXCEPT ![id] = IF o = "ok" THEN "created" ELSE "lost"]
        \/ life' = [life EXCEPT ![id] = IF @ = "created" THEN "deleted" ELSE @]
    BY <1>3 DEF CreateItem, DeleteItem, Refuse, history
  <2> QED BY <1>1, <2>1, OfferTypes DEF Made
<1>4. CASE Begin /\ ~\E id \in Ids : CreateItem(id) \/ DeleteItem(id)
  BY <1>1, <1>4 DEF Begin, Unlock, Lock, GetItem, SetItemValue,
     SetRecoveryRecipient, Refuse, history
<1>5. CASE DeleteValue
  BY <1>5, OfferTypes DEF DeleteValue, Made
<1>6. CASE Continue /\ ~DeleteValue
  BY <1>1, <1>6 DEF Continue, VerifyIdentity, GenerateIdentity, LoadItems,
     BackupValue, WriteValue, WriteMetadata, RestoreRecipient, ReloadMetadata,
     FinishRecovery, ResealItem, history
<1> QED BY <1>2, <1>3, <1>4, <1>5, <1>6 DEF VaultStep, Next

LEMMA MadeNext == ASSUME ServerInv, MadeOK, StoreNext PROVE MadeOK'
<1>1. \A i \in Ids : Made(i) => Made(i)'
  BY StoreVault, LifeStep DEF ServerInv
<1>2. \A h \in Handlers :
         at[h] \in {"create", "set", "rollback", "fetch"} => item[h] \in Ids
  BY DEF ServerInv, ServerOK, HandlerOK, Creator
<1>3. CASE /\ UNCHANGED outcome
           /\ \A h \in Handlers : at'[h] \in {"set", "rollback", "fetch"} =>
                 at'[h] = at[h] /\ item'[h] = item[h]
  BY <1>1, <1>2, <1>3 DEF MadeOK, Made
<1>4. ASSUME NEW h \in Handlers, Returns(h), Resume(h, result' = "ok"), Moves(h)
      PROVE  MadeOK'
  <2>1. StoreTypeOK
    BY DEF ServerInv, ServerOK
  <2>2. \A g \in Handlers \ {h} :
           at'[g] \in {"set", "rollback", "fetch"} => Made(item[g])' /\ item'[g] = item[g]
    BY <1>1, <1>2, <1>4 DEF Moves, MadeOK, Made
  <2>3. CASE at[h] = "create"
    <3>1. UNCHANGED outcome
      BY <1>4, <2>3 DEF Resume
    <3>2. CASE Answer(h)
      BY <1>1, <2>1, <2>2, <3>1, <3>2, AnswerIs DEF MadeOK, Made
    <3>3. CASE Goto(h, "set") /\ result' = "ok"
      <4>1. item[h] \in Ids /\ Made(item[h])'
        <5>1. CreateItem(item[h])
          BY <1>4, <2>3, HandlersDistinct
             DEF Returns, Calls, ServerInv, ServerOK, TurnOK, InCall
        <5>2. PICK w \in Ids : w = item[h]
          BY <1>2, <2>3
        <5>3. life' = [life EXCEPT ![w] = "created"]
          BY <3>3, <5>1, <5>2 DEF CreateItem, Refuse, Return, Die
        <5>4. life'[w] = "created"
          BY <5>3, OfferTypes DEF ServerInv
        <5>5. item' = item
          BY <3>3 DEF Goto
        <5> QED BY <5>2, <5>4, <5>5 DEF Made
      <4>2. item' = item
        BY <3>3 DEF Goto
      <4> QED BY <1>1, <2>2, <3>1, <4>1, <4>2 DEF MadeOK, Made
    <3> QED BY <1>4, <2>3, <3>2, <3>3 DEF Resume
  <2>4. CASE at[h] \in {"set", "rollback", "fetch"}
    <3>1. Made(item[h]) /\ item[h] \in Ids
      BY <1>2, <2>4 DEF MadeOK
    <3>2. PICK w \in Ids : w = item[h]
      BY <3>1
    <3>3. \A i \in Ids \ {w} : outcome'[i] = outcome[i]
      BY <1>4, <2>1, <2>4, <3>2 DEF Resume, AfterFailedSet, Record, StoreTypeOK
    <3>4. \A i \in Ids : outcome'[i] # "none" => Made(i)'
      BY <1>1, <3>1, <3>2, <3>3 DEF MadeOK
    <3>5. at'[h] \in {"set", "rollback", "fetch"} => item'[h] = item[h]
      BY <1>4, <2>1, <2>4, AnswerIs DEF Resume, AfterFailedSet, Goto
    <3>6. at'[h] \in {"set", "rollback", "fetch"} => Made(item[h])'
      BY <1>1, <3>1, <3>2, <3>5 DEF Made
    <3> QED BY <2>2, <3>4, <3>5, <3>6 DEF MadeOK, Made
  <2>5. CASE at[h] \notin {"create", "set", "rollback", "fetch"}
    <3>1. UNCHANGED outcome /\ at'[h] \notin {"set", "rollback", "fetch"}
      BY <1>4, <2>1, <2>5, AnswerIs, GotoIs DEF Resume, Goto, StoreTypeOK
    <3> QED BY <1>1, <2>2, <3>1 DEF MadeOK, Made
  <2> QED BY <2>3, <2>4, <2>5
<1> QED BY <1>3, <1>4, StoreReturns

LEMMA LinkNext == ASSUME ServerInv, LinkOK, StoreNext PROVE LinkOK'
<1>1. TurnOK /\ Inv
  BY DEF ServerInv, ServerOK, VaultInv, SealInv
<1>2. CASE UNCHANGED <<vars, turn, outcome>> /\ \E h \in Handlers : Talks(h)
  <2>1. UNCHANGED <<pc, cur, todo, turn>>
    BY <1>2 DEF vars, call
  <2>2. turn # Nil => at'[turn] = at[turn] /\ item'[turn] = item[turn]
    <3>1. PICK h \in Handlers : Talks(h)
      BY <1>2
    <3>2. Moves(h)
      BY <1>2, <3>1, TalksOK DEF ServerInv
    <3>3. turn # Nil => turn # h /\ turn \in Handlers
      <4>1. turn \in Handlers \cup {Nil} /\ HandlerOK(h)
        BY DEF ServerInv, ServerOK, StoreTypeOK
      <4>2. turn # Nil => ~Idle
        BY <1>1 DEF TurnOK, Idle
      <4> QED BY <1>1, <3>1, <4>1, <4>2, HandlersDistinct
              DEF Talks, Verify, Report, Reject, NextDeletion, CheckAdmin, Receive,
              TurnOK, InCall, HandlerOK
    <3> QED BY <3>2, <3>3 DEF Moves
  <2> QED BY <2>1, <2>2 DEF LinkOK
<1>3. CASE NewVault /\ UNCHANGED handlers
  BY <1>3 DEF NewVault, call, handlers, LinkOK
<1>4. CASE DropAll
  BY <1>4 DEF DropAll, LinkOK
<1>5. CASE turn \in Handlers /\ Continue /\ Follow(turn)
  <2>1. CASE turn' = Nil
    BY <2>1 DEF LinkOK
  <2>2. CASE pc' # "idle" /\ up' /\ turn' = turn /\ UNCHANGED <<at, item>>
    <3>1. turn # Nil
      BY <1>5, HandlersDistinct
    <3>2. CASE at[turn] = "set"
      <4>1. pc \in Writes /\ cur.id = item[turn] /\ cur.caller = "SetItemValue"
        BY <3>1, <3>2 DEF LinkOK
      <4>2. pc' \in Writes /\ UNCHANGED cur
        BY <1>5, <2>2, <4>1 DEF Continue, VerifyIdentity, GenerateIdentity, LoadItems,
           BackupValue, WriteValue, WriteMetadata, DeleteValue, RestoreRecipient,
           ReloadMetadata, FinishRecovery, ResealItem, Abandon, Die, Return, Proceed,
           Writes
      <4> QED BY <2>2, <3>2, <4>1, <4>2 DEF LinkOK, Writes
    <3>3. CASE at[turn] # "set"
      <4>1. pc # "deleteValue"
        BY <1>5, <2>2 DEF Continue, VerifyIdentity, GenerateIdentity, LoadItems,
           BackupValue, WriteValue, WriteMetadata, DeleteValue, RestoreRecipient,
           ReloadMetadata, FinishRecovery, ResealItem, Return
      <4>2. pc' # "deleteValue"
        BY <1>5, <2>2 DEF Continue, VerifyIdentity, GenerateIdentity, LoadItems,
           BackupValue, WriteValue, WriteMetadata, DeleteValue, RestoreRecipient,
           ReloadMetadata, FinishRecovery, ResealItem, Abandon, Die, Return, Proceed,
           FirstStep
      <4> QED BY <2>2, <3>1, <3>3, <4>1, <4>2 DEF LinkOK
    <3> QED BY <3>2, <3>3
  <2> QED BY <1>4, <1>5, <2>1, <2>2 DEF Follow
<1>6. ASSUME NEW h \in Handlers, Calls(h), Follow(h) PROVE LinkOK'
  <2>1. CASE turn' = Nil
    BY <2>1 DEF LinkOK
  <2>2. CASE pc' # "idle" /\ up' /\ turn' = h /\ UNCHANGED <<req, at, item>>
    <3>1. CASE at[h] = "set" /\ SetItemValue(item[h], req[h].val)
      <4>1. /\ cur' = [id |-> item[h], val |-> req[h].val, caller |-> "SetItemValue"]
            /\ pc' \in Writes
        BY <2>2, <3>1 DEF SetItemValue, Refuse, Return, Proceed, FirstStep, Writes
      <4>2. cur'.id = item[h] /\ cur'.caller = "SetItemValue"
        BY <4>1
      <4>3. at'[turn'] = "set" /\ item'[turn'] = item[h] /\ pc' # "deleteValue"
        BY <2>2, <3>1, <4>1 DEF Writes
      <4> QED BY <4>1, <4>2, <4>3 DEF LinkOK
    <3>2. CASE at[h] \in {"rollback", "remove"} /\ DeleteItem(item[h])
      BY <2>2, <3>2 DEF DeleteItem, Refuse, Return, Proceed, LinkOK
    <3>3. CASE at[h] \notin {"set", "rollback", "remove"}
      <4>1. pc' # "deleteValue"
        BY <1>6, <3>3 DEF Calls, Unlock, Lock, CreateItem, GetItem,
           SetRecoveryRecipient, Refuse, Return, Die, Proceed
      <4> QED BY <2>2, <3>3, <4>1 DEF LinkOK
    <3> QED BY <1>6, <3>1, <3>2, <3>3 DEF Calls
  <2> QED BY <1>4, <1>6, <2>1, <2>2 DEF Follow
<1> QED BY <1>2, <1>3, <1>4, <1>5, <1>6, StoreSteps

CreationInv == ServerInv /\ LinkOK /\ MadeOK

LEMMA CreationInit == StoreInit => CreationInv
BY ServerInit DEF StoreInit, CreationInv, LinkOK, MadeOK

LEMMA CreationNext == CreationInv /\ [StoreNext]_allVars => CreationInv'
<1>1. CreationInv /\ UNCHANGED allVars => (LinkOK /\ MadeOK)'
  BY DEF allVars, handlers, vars, call, history, CreationInv, LinkOK, MadeOK, Made
<1> QED BY <1>1, ServerNext, LinkNext, MadeNext DEF CreationInv

-----------------------------------------------------------------------------
(* A refused creation leaves nothing, over a backend that deletes and as    *)
(* long as nobody locks the vault: reads and writes may fail and the process*)
(* may die.                                                                 *)

NobodyLocks == \A r \in Requests : r.rpc # "lock"

(* Once a handler has verified its passphrase, the vault stays unlocked.    *)
OpenOK ==
    \A h \in Handlers :
        /\ at[h] # "lock"
        /\ at[h] \in AfterVerifying => ~IsLocked /\ pc \notin {"identity", "load"}

(* Nothing is left of an item, and no operation is about to bring it back.  *)
Gone(i) ==
    /\ life[i] = "deleted" /\ items[i] = Absent /\ metaFile[i] \notin Metadata
    /\ pc \in Writes => cur.id # i
    /\ pc # "deleteValue" => i \notin todo

Here(i) == life[i] = "created" /\ items[i] # Absent

Deleting(i) == pc = "deleteValue" /\ i \in todo

DeletingOK ==
    \A i \in Ids : Deleting(i) => items[i] = Absent /\ metaFile[i] \notin Metadata

(* The item of a creation that may still be refused is listed, or is being  *)
(* deleted, or is gone; one that was refused is gone.                       *)
RefusedOK ==
    /\ DeletingOK
    /\ \A h \in Handlers : at[h] \in {"set", "rollback"} =>
          Here(item[h]) \/ Deleting(item[h]) \/ Gone(item[h])
    /\ \A i \in Ids : outcome[i] = "refused" => Gone(i)

LEMMA StaysOpen ==
    ASSUME ServerInv, OpenOK, StoreNext,
           ~IsLocked, pc \notin {"identity", "load"}, ~DropAll
    PROVE  ~IsLocked' /\ pc' \notin {"identity", "load"}
<1>1. CASE UNCHANGED vars
  BY <1>1 DEF vars, memory, call, IsLocked
<1>2. CASE NewVault
  BY <1>2 DEF NewVault, call, IsLocked
<1>3. ASSUME NEW h \in Handlers, Calls(h), Follow(h)
      PROVE  ~IsLocked' /\ pc' \notin {"identity", "load"}
  <2>1. up'
    BY <1>3 DEF Follow
  <2>2. at[h] # "lock"
    BY DEF OpenOK
  <2> QED BY <1>3, <2>1, <2>2 DEF Calls, Unlock, CreateItem, SetItemValue, DeleteItem,
          GetItem, SetRecoveryRecipient, Refuse, Return, Proceed, FirstStep, Die,
          memory, IsLocked
<1>4. CASE Continue /\ Follow(turn)
  <2>1. up'
    BY <1>4 DEF Follow
  <2> QED BY <1>4, <2>1 DEF Continue, VerifyIdentity, GenerateIdentity, LoadItems,
          BackupValue, WriteValue, WriteMetadata, DeleteValue, RestoreRecipient,
          ReloadMetadata, FinishRecovery, ResealItem, Abandon, Return, Proceed,
          FirstStep, Die, memory, IsLocked
<1> QED BY <1>1, <1>2, <1>3, <1>4, StoreSteps DEF vars

(* Only a request to lock makes a handler lock.                             *)
LEMMA NoLocking ==
    ASSUME NobodyLocks, ServerInv, StoreNext, NEW h \in Handlers, at[h] # "lock"
    PROVE  at'[h] # "lock"
<1>1. StoreTypeOK /\ HandlerOK(h)
  BY DEF ServerInv, ServerOK
<1>2. ASSUME NEW g \in Handlers, Talks(g), UNCHANGED <<vars, turn, outcome>>
      PROVE  at'[h] # "lock"
  <2>1. Moves(g)
    BY <1>2, TalksOK DEF ServerInv
  <2>2. CASE g # h
    BY <2>1, <2>2 DEF Moves
  <2>3. CASE g = h
    <3>1. CASE Answer(h)
      BY <1>1, <3>1, AnswerIs
    <3>2. ASSUME NEW r \in Requests, Receive(h, r) PROVE at'[h] # "lock"
      <4>1. r \in AllRequests /\ r.rpc # "lock"
        BY RequestsKnown DEF NobodyLocks
      <4>2. at'[h] = FirstPoint[r.rpc]
        BY <1>1, <3>2 DEF Receive, StoreTypeOK
      <4> QED BY <4>1, <4>2, RequestFields DEF FirstPoint
    <3>3. CASE Verify(h) /\ ~Answer(h)
      BY <1>1, <3>3 DEF Verify, Goto, AfterVerify, HandlerOK, StoreTypeOK
    <3>4. CASE (NextDeletion(h) \/ CheckAdmin(h)) /\ ~Answer(h)
      BY <1>1, <3>4 DEF NextDeletion, CheckAdmin, Goto, StoreTypeOK
    <3> QED BY <1>2, <2>3, <3>1, <3>2, <3>3, <3>4 DEF Talks, Report, Reject
  <2> QED BY <2>2, <2>3
<1>3. ASSUME NEW g \in Handlers, Follow(g), req[g] # Nil PROVE at'[h] # "lock"
  <2>1. CASE DropAll
    BY <1>1, <2>1, DropAllIs
  <2>2. CASE UNCHANGED at
    BY <2>2
  <2>3. CASE Resume(g, result' = "ok")
    <3>1. Moves(g)
      BY <1>3, <2>3, ResumeOK DEF ServerInv
    <3>2. CASE g # h
      BY <3>1, <3>2 DEF Moves
    <3>3. CASE g = h
      BY <1>1, <2>3, <3>3, AnswerIs
         DEF Resume, AfterFailedSet, Goto, StoreTypeOK
    <3> QED BY <3>2, <3>3
  <2> QED BY <1>3, <2>1, <2>2, <2>3 DEF Follow
<1>4. CASE UNCHANGED handlers
  BY <1>4 DEF handlers
<1>5. CASE DropAll
  BY <1>1, <1>5, DropAllIs
<1>6. turn \in Handlers => req[turn] # Nil
  BY HandlersDistinct DEF ServerInv, ServerOK, TurnOK, InCall, HandlerOK
<1> QED BY <1>2, <1>3, <1>4, <1>5, <1>6, StoreSteps, CallsBegin

LEMMA OpenNext ==
    ASSUME NobodyLocks, ServerInv, OpenOK, StoreNext
    PROVE  OpenOK'
<1> SUFFICES ASSUME NEW h \in Handlers, at'[h] \in AfterVerifying
             PROVE  ~IsLocked' /\ pc' \notin {"identity", "load"}
  BY NoLocking DEF OpenOK
<1>1. ~DropAll
  BY DropAllIs DEF ServerInv, ServerOK, AfterVerifying
<1>2. ~IsLocked /\ pc \notin {"identity", "load"}
  BY VerifiedFrom DEF OpenOK, VerifyPassphrase, Idle
<1> QED BY <1>1, <1>2, StaysOpen

(* What keeps an item gone: no file of it is written and it is not queued.  *)
LEMMA GoneFrame ==
    ASSUME NEW i \in Ids, Gone(i), life'[i] = life[i],
           metaFile'[i] \in {metaFile[i], Absent}, items'[i] \in {items[i], Absent},
           pc' \in Writes => pc \in Writes /\ UNCHANGED cur,
           todo' = {} \/ (todo' \subseteq todo /\ pc # "deleteValue")
    PROVE  Gone(i)'
BY MarksDistinct DEF Gone

(* What is gone stays gone, under every set of faults.                      *)
LEMMA GoneStays ==
    ASSUME VaultInv, VaultStep \/ UNCHANGED vars, NEW i \in Ids, Gone(i)
    PROVE  Gone(i)'
<1>1. Inv
  BY DEF VaultInv, SealInv
<1>2. CASE UNCHANGED vars
  BY <1>2 DEF vars, memory, disk, call, history, Gone
<1>3. CASE Panic \/ Crash
  BY <1>3, GoneFrame DEF Panic, Crash, Die, Forget, NoItems, Return, Writes, disk,
     history
<1>4. CASE NewVault
  BY <1>4 DEF NewVault, disk, call, history, Gone
<1>5. ASSUME NEW id \in Ids, CreateItem(id) PROVE Gone(i)'
  <2>1. id # i
    BY <1>5 DEF CreateItem, Gone
  <2>2. /\ life'[i] = life[i] /\ metaFile'[i] = metaFile[i]
        /\ items'[i] \in {items[i], Absent}
    BY <1>5, <2>1, OfferTypes
       DEF CreateItem, Refuse, Die, Forget, NoItems, memory, disk, history
  <2>3. pc' = "idle" /\ todo' = {}
    BY <1>5 DEF CreateItem, Refuse, Die, Return
  <2> QED BY <2>2, <2>3, GoneFrame DEF Writes
<1>6. ASSUME NEW id \in Ids, DeleteItem(id) PROVE Gone(i)'
  <2>1. life'[i] = life[i]
    BY <1>6, OfferTypes DEF DeleteItem, Refuse, history, Gone
  <2>2. /\ items'[i] \in {items[i], Absent}
        /\ metaFile'[i] \in {metaFile[i], Absent}
    BY <1>6, OfferTypes DEF DeleteItem, Refuse, Remains, memory, disk
  <2>3. \/ pc' = "idle" /\ todo' = {}
        \/ pc' = "deleteValue"
    BY <1>6 DEF DeleteItem, Refuse, Return, Proceed
  <2> QED BY <2>1, <2>2, <2>3, MarksDistinct DEF Gone, Writes
<1>7. ASSUME NEW id \in Ids, NEW v \in Values \cup {Nil}, SetItemValue(id, v)
      PROVE  Gone(i)'
  <2>1. CASE Refuse("error")
    BY <2>1, GoneFrame DEF Refuse, Return, Writes, memory, disk, history
  <2>2. CASE ~Refuse("error")
    <3>1. id # i /\ cur'.id = id /\ UNCHANGED <<memory, disk, todo, life>>
      BY <1>7, <2>2 DEF SetItemValue, Gone
    <3>2. pc = "idle"
      BY <1>7 DEF SetItemValue, Idle
    <3> QED BY <3>1, <3>2 DEF Gone, memory, disk
  <2> QED BY <2>1, <2>2
<1>8. CASE Lock \/ \E id \in Ids : GetItem(id)
  BY <1>8, GoneFrame DEF Lock, GetItem, Refuse, Die, Forget, NoItems, Return, Writes,
     memory, disk, history
<1>9. ASSUME NEW p \in Passphrases, Unlock(p) PROVE Gone(i)'
  BY <1>9, GoneFrame DEF Unlock, Idle, Refuse, Return, Proceed, Writes, memory, disk,
     history
<1>10. ASSUME NEW r \in Recipients, SetRecoveryRecipient(r) PROVE Gone(i)'
  BY <1>10, GoneFrame DEF SetRecoveryRecipient, Idle, Refuse, Return, Proceed, Die,
     Forget, NoItems, Writes, memory, disk, history
<1>11. CASE VerifyIdentity \/ \E ident \in Identities : GenerateIdentity(ident)
  BY <1>11, GoneFrame DEF VerifyIdentity, GenerateIdentity, Return, Proceed, Die,
     Forget, NoItems, Writes, memory, disk, history
<1>12. CASE LoadItems
  <2>1. items'[i] = Absent
    BY <1>12 DEF LoadItems, Die, Forget, NoItems, Legible, Gone
  <2>2. pc' = "idle" /\ todo' = {} /\ UNCHANGED <<metaFile, life>>
    BY <1>12 DEF LoadItems, Die, Return, disk, history
  <2> QED BY <2>1, <2>2, GoneFrame DEF Writes
<1>13. CASE ReloadMetadata
  <2>1. CASE todo' = {}
    BY <1>13, <2>1, GoneFrame DEF ReloadMetadata, Return, Proceed, Die, Forget,
       NoItems, Writes, memory, disk, history
  <2>2. CASE pc' = "reseal" /\ todo' \subseteq Legible /\ UNCHANGED memory
    BY <1>13, <2>2 DEF ReloadMetadata, Legible, Gone, memory, disk, history, Writes
  <2> QED BY <1>13, <2>1, <2>2 DEF ReloadMetadata, Return, Proceed, Die
<1>14. ASSUME NEW id \in Ids, ResealItem(id) PROVE Gone(i)'
  <2>1. id # i /\ pc = "reseal"
    BY <1>14 DEF ResealItem, Gone
  <2>2. UNCHANGED <<metaFile, life>>
    BY <1>14 DEF ResealItem, disk, history
  <2>3. CASE Die
    BY <2>2, <2>3, GoneFrame DEF Die, Forget, NoItems, Return, Writes
  <2>4. CASE UNCHANGED memory /\ todo' \subseteq todo /\ pc' \notin Writes
    BY <2>1, <2>2, <2>4, GoneFrame DEF memory
  <2>5. CASE UNCHANGED memory /\ todo' \subseteq todo /\ cur'.id = id
    BY <2>1, <2>2, <2>5 DEF Gone, memory
  <2> QED BY <1>14, <2>3, <2>4, <2>5 DEF ResealItem, Rest, Proceed, Writes
<1>15. CASE FinishRecovery \/ RestoreRecipient
  BY <1>15, GoneFrame DEF FinishRecovery, RestoreRecipient, Return, Proceed, Die,
     Forget, NoItems, Writes, memory, disk, history
<1>16. CASE BackupValue \/ WriteValue
  <2>1. UNCHANGED <<metaFile, life>> /\ pc \in Writes
    BY <1>16 DEF BackupValue, WriteValue, disk, history, Writes
  <2>2. items'[i] \in {items[i], Absent}
    BY <1>16 DEF BackupValue, WriteValue, memory, Die, Forget, NoItems
  <2>3. /\ pc' \in Writes => UNCHANGED cur
        /\ todo' = {} \/ UNCHANGED todo
    BY <1>16 DEF BackupValue, WriteValue, Abandon, Die, Return, Proceed, Writes
  <2> QED BY <2>1, <2>2, <2>3, GoneFrame DEF Writes
<1>17. CASE WriteMetadata
  <2>1. PICK w \in Ids : w = cur.id
    BY <1>1, <1>17, WritingFacts DEF WriteMetadata, Writes
  <2>2. w # i
    BY <1>17, <2>1 DEF WriteMetadata, Gone, Writes
  <2>3. metaFile'[i] = metaFile[i] /\ items'[i] \in {items[i], Absent}
    BY <1>17, <2>1, <2>2, OfferTypes DEF WriteMetadata, memory, Die, Forget, NoItems
  <2>4. pc' \notin Writes /\ (todo' = {} \/ UNCHANGED todo) /\ UNCHANGED life
    BY <1>17 DEF WriteMetadata, Abandon, Die, Return, Proceed, Writes
  <2> QED BY <1>17, <2>3, <2>4, GoneFrame DEF WriteMetadata
<1>18. CASE DeleteValue
  <2>1. life'[i] = life[i]
    BY <1>18, OfferTypes DEF DeleteValue, Gone
  <2> QED BY <1>18, <2>1, GoneFrame DEF DeleteValue, Return, memory, Writes
<1> QED BY <1>2, <1>3, <1>4, <1>5, <1>6, <1>7, <1>8, <1>9, <1>10, <1>11, <1>12, <1>13,
           <1>14, <1>15, <1>16, <1>17, <1>18 DEF VaultStep, Next, Begin, Continue

(* Where DeleteFile deletes, the item being deleted has lost its metadata.  *)
LEMMA DeletingNext ==
    ASSUME "delete" \notin Faults, VaultInv, DeletingOK, VaultStep \/ UNCHANGED vars
    PROVE  DeletingOK'
<1> SUFFICES ASSUME NEW i \in Ids, Deleting(i)'
             PROVE  items'[i] = Absent /\ metaFile'[i] \notin Metadata
  BY DEF DeletingOK
<1>1. ASSUME NEW id \in Ids, DeleteItem(id)
      PROVE  items'[i] = Absent /\ metaFile'[i] \notin Metadata
  <2>1. /\ items' = [items EXCEPT ![id] = Absent] /\ i = id
        /\ metaFile' = [metaFile EXCEPT ![id] = Absent]
    BY <1>1 DEF DeleteItem, Refuse, Return, Deleting, Remains
  <2> QED BY <2>1, OfferTypes, MarksDistinct
<1>2. CASE UNCHANGED vars
  BY <1>2 DEF vars, memory, disk, call, DeletingOK, Deleting
<1>3. CASE NewVault \/ Crash \/ Panic
  BY <1>3 DEF NewVault, Crash, Panic, Die, Return, Deleting, VaultInv, SealInv, Inv,
     LockOK, call
<1>4. CASE Begin /\ ~\E id \in Ids : DeleteItem(id)
  BY <1>4 DEF Begin, Unlock, Lock, CreateItem, GetItem, SetItemValue,
     SetRecoveryRecipient, Refuse, Die, Return, Proceed, FirstStep, Deleting
<1>5. CASE Continue
  BY <1>5 DEF Continue, VerifyIdentity, GenerateIdentity, LoadItems, BackupValue,
     WriteValue, WriteMetadata, DeleteValue, RestoreRecipient, ReloadMetadata,
     FinishRecovery, ResealItem, Abandon, Die, Return, Proceed, FirstStep, Deleting
<1> QED BY <1>1, <1>2, <1>3, <1>4, <1>5 DEF VaultStep, Next

(* In a vault that stays unlocked an item is listed until it is deleted.    *)
LEMMA HereOrGone ==
    ASSUME CreationInv, DeletingOK, StoreNext, ~IsLocked', pc # "load",
           NEW i \in Ids, Here(i) \/ Deleting(i) \/ Gone(i)
    PROVE  Here(i)' \/ Deleting(i)' \/ Gone(i)'
<1>1. VaultInv /\ Inv /\ TurnOK
  BY DEF CreationInv, ServerInv, ServerOK, VaultInv, SealInv
<1>2. VaultStep \/ UNCHANGED vars
  BY StoreVault DEF CreationInv
<1>3. CASE Gone(i)
  BY <1>1, <1>2, <1>3, GoneStays
<1>4. CASE UNCHANGED vars
  BY <1>4 DEF vars, memory, disk, call, history, Here, Deleting, Gone
<1>5. CASE DeleteValue
  <2>1. pc = "deleteValue" /\ turn # Nil
    BY <1>1, <1>5 DEF DeleteValue, TurnOK
  <2>2. PICK w \in Ids : todo = {w}
    BY <1>1, <2>1, ValueTypes DEF CreationInv, LinkOK
  <2>3. life' = [life EXCEPT ![w] = "deleted"] /\ UNCHANGED <<items, metaFile>>
    BY <1>5, <2>2 DEF DeleteValue, memory
  <2>4. pc' = "idle" /\ todo' = {}
    BY <1>5 DEF DeleteValue, Return
  <2>5. CASE i = w
    <3>1. items[i] = Absent /\ metaFile[i] \notin Metadata
      BY <2>1, <2>2, <2>5 DEF DeletingOK, Deleting
    <3>2. life'[i] = "deleted"
      BY <1>1, <2>3, <2>5, OfferTypes
    <3> QED BY <2>3, <2>4, <3>1, <3>2 DEF Gone, Writes
  <2>6. CASE i # w
    <3>1. Here(i) \/ Gone(i)
      BY <2>2, <2>6 DEF Deleting
    <3>2. life'[i] = life[i]
      BY <1>1, <2>3, <2>6, OfferTypes
    <3> QED BY <1>3, <2>3, <3>1, <3>2 DEF Here
  <2> QED BY <2>5, <2>6
<1>6. ~Forget /\ ~Die /\ ~Lock
  BY DEF Forget, Die, Lock, Refuse, memory, IsLocked
<1>7. CASE ~DeleteValue /\ VaultStep /\ Deleting(i)
  <2>1. pc = "deleteValue" /\ up
    BY <1>1, <1>7 DEF Deleting, Inv, LockOK
  <2> QED BY <1>6, <1>7, <2>1 DEF VaultStep, Next, Panic, Crash, NewVault, Begin,
          Continue, Unlock, Lock, CreateItem, SetItemValue, DeleteItem, GetItem,
          SetRecoveryRecipient, VerifyIdentity, GenerateIdentity, LoadItems,
          BackupValue, WriteValue, WriteMetadata, RestoreRecipient, ReloadMetadata,
          FinishRecovery, ResealItem, Idle
<1>8. CASE Here(i) /\ VaultStep /\ ~DeleteValue
  <2>1. ASSUME NEW id \in Ids, CreateItem(id) PROVE Here(i)'
    <3>1. CASE Refuse("error")
      BY <1>8, <3>1 DEF Refuse, memory, history, Here
    <3>2. CASE ~Refuse("error")
      <4>1. life[id] = "unborn" /\ \E x : life' = [life EXCEPT ![id] = x]
        BY <1>6, <2>1, <3>2 DEF CreateItem
      <4>2. items' = [items EXCEPT ![id] = Nil] \/ UNCHANGED items
        BY <1>6, <2>1, <3>2 DEF CreateItem, memory
      <4>3. id # i
        BY <1>8, <4>1 DEF Here
      <4>4. life'[i] = life[i] /\ items'[i] = items[i]
        BY <1>1, <4>1, <4>2, <4>3, OfferTypes
      <4> QED BY <1>8, <4>4 DEF Here
    <3> QED BY <3>1, <3>2
  <2>2. ASSUME NEW id \in Ids, DeleteItem(id) PROVE Here(i)' \/ Deleting(i)'
    <3>1. CASE Refuse("error")
      BY <1>8, <3>1 DEF Refuse, memory, history, Here
    <3>2. CASE ~Refuse("error") /\ items[id] = Absent
      <4>1. /\ life' = [life EXCEPT ![id] = IF @ = "created" THEN "deleted" ELSE @]
            /\ UNCHANGED items
        BY <2>2, <3>2 DEF DeleteItem, memory
      <4>2. id # i
        BY <1>8, <3>2 DEF Here
      <4>3. life'[i] = life[i]
        BY <1>1, <4>1, <4>2, OfferTypes
      <4> QED BY <1>8, <4>1, <4>3 DEF Here
    <3>3. CASE ~Refuse("error") /\ items[id] # Absent
      <4>1. /\ items' = [items EXCEPT ![id] = Absent] /\ UNCHANGED life
            /\ todo' = {id} /\ pc' = "deleteValue"
        BY <2>2, <3>3 DEF DeleteItem, Proceed
      <4>2. CASE id = i
        BY <4>1, <4>2 DEF Deleting
      <4>3. CASE id # i
        <5>1. items'[i] = items[i]
          BY <1>1, <4>1, <4>3, OfferTypes
        <5> QED BY <1>8, <4>1, <5>1 DEF Here
      <4> QED BY <4>2, <4>3
    <3> QED BY <3>1, <3>2, <3>3
  <2>3. CASE Begin /\ ~\E id \in Ids : CreateItem(id) \/ DeleteItem(id)
    <3>1. UNCHANGED <<life, items>>
      BY <1>6, <2>3 DEF Begin, Unlock, GetItem, SetItemValue, SetRecoveryRecipient,
         Refuse, memory, history
    <3> QED BY <1>8, <3>1 DEF Here
  <2>4. CASE WriteMetadata
    <3>1. PICK w \in Ids : w = cur.id
      BY <1>1, <2>4, WritingFacts DEF WriteMetadata, Writes
    <3>2. cur.val # Absent
      BY <1>1, <2>4, WritingFacts, MarksDistinct DEF WriteMetadata, Writes
    <3>3. /\ items' = [items EXCEPT ![w] = cur.val] \/ UNCHANGED items
          /\ UNCHANGED life
      BY <1>6, <2>4, <3>1 DEF WriteMetadata, memory
    <3>4. items'[i] # Absent
      BY <1>1, <1>8, <3>2, <3>3, OfferTypes DEF Here
    <3> QED BY <1>8, <3>3, <3>4 DEF Here
  <2>5. CASE Continue /\ ~WriteMetadata
    <3>1. UNCHANGED <<life, items>>
      BY <1>6, <1>8, <2>5 DEF Continue, VerifyIdentity, GenerateIdentity, LoadItems,
         BackupValue, WriteValue, RestoreRecipient, ReloadMetadata, FinishRecovery,
         ResealItem, memory, history
    <3> QED BY <1>8, <3>1 DEF Here
  <2>6. CASE NewVault \/ Panic \/ Crash
    <3>1. NewVault
      BY <1>6, <2>6 DEF Panic, Crash
    <3> QED BY <1>8, <3>1 DEF NewVault, history, Here
  <2> QED BY <1>8, <2>1, <2>2, <2>3, <2>4, <2>5, <2>6 DEF VaultStep, Next
<1> QED BY <1>2, <1>3, <1>4, <1>5, <1>7, <1>8

(* The rollback has deleted the item when it returns.                       *)
LEMMA RolledBack ==
    ASSUME CreationInv, OpenOK, DeletingOK, StoreNext, ~IsLocked',
           NEW h \in Handlers, Returns(h), at[h] = "rollback",
           NEW w \in Ids, w = item[h], Here(w) \/ Deleting(w) \/ Gone(w)
    PROVE  Gone(w)'
<1>1. VaultInv /\ ~IsLocked /\ pc # "load"
  BY DEF CreationInv, ServerInv, OpenOK, AfterVerifying
<1>2. Here(w)' \/ Deleting(w)' \/ Gone(w)'
  BY <1>1, HereOrGone
<1>3. ~Deleting(w)'
  BY DEF Returns, Deleting
<1>4. CASE DeleteItem(w)
  <2>1. items[w] = Absent /\ UNCHANGED items
    BY <1>1, <1>4 DEF DeleteItem, Returns, Proceed, memory
  <2> QED BY <1>2, <1>3, <2>1 DEF Here
<1>5. CASE turn = h /\ Continue
  <2>1. pc = "deleteValue" /\ todo = {w}
    BY <1>5, HandlersDistinct DEF CreationInv, LinkOK
  <2>2. DeleteValue
    BY <1>5, <2>1 DEF Continue, VerifyIdentity, GenerateIdentity, LoadItems,
       BackupValue, WriteValue, WriteMetadata, RestoreRecipient, ReloadMetadata,
       FinishRecovery, ResealItem
  <2>3. life' = [life EXCEPT ![w] = "deleted"]
    BY <2>1, <2>2 DEF DeleteValue
  <2>4. life'[w] = "deleted"
    BY <1>1, <2>3, OfferTypes
  <2> QED BY <1>2, <1>3, <2>4 DEF Here
<1> QED BY <1>4, <1>5 DEF Returns, Calls

LEMMA RefusedNext ==
    ASSUME "delete" \notin Faults, CreationInv, OpenOK, OpenOK', RefusedOK, StoreNext
    PROVE  RefusedOK'
<1>1. VaultInv /\ StoreTypeOK /\ TurnOK /\ (VaultStep \/ UNCHANGED vars)
  BY StoreVault DEF CreationInv, ServerInv, ServerOK
<1>2. DeletingOK'
  BY <1>1, DeletingNext DEF RefusedOK
<1>3. \A i \in Ids : Gone(i) => Gone(i)'
  BY <1>1, GoneStays
<1>4. ASSUME NEW h \in Handlers, at'[h] \in {"set", "rollback"},
             at[h] = at'[h] \/ at[h] \in {"set", "rollback"}, item'[h] = item[h]
      PROVE  Here(item[h])' \/ Deleting(item[h])' \/ Gone(item[h])'
  <2>1. PICK w \in Ids : w = item[h]
    BY <1>4 DEF CreationInv, ServerInv, ServerOK, HandlerOK, Creator
  <2>2. ~IsLocked' /\ pc # "load"
    BY <1>4 DEF OpenOK, AfterVerifying
  <2>3. Here(w) \/ Deleting(w) \/ Gone(w)
    BY <1>4, <2>1 DEF RefusedOK
  <2>4. Here(w)' \/ Deleting(w)' \/ Gone(w)'
    BY <2>2, <2>3, HereOrGone DEF RefusedOK
  <2> QED BY <1>4, <2>1, <2>4
<1>5. CASE /\ UNCHANGED outcome
           /\ \A h \in Handlers : at'[h] \in {"set", "rollback", "fetch"} =>
                 at'[h] = at[h] /\ item'[h] = item[h]
  BY <1>2, <1>3, <1>4, <1>5 DEF RefusedOK
<1>6. ASSUME NEW g \in Handlers, Returns(g), Resume(g, result' = "ok"), Moves(g)
      PROVE  RefusedOK'
  <2>1. HandlerOK(g)
    BY DEF CreationInv, ServerInv, ServerOK
  <2>2. ASSUME NEW h \in Handlers, at'[h] \in {"set", "rollback"}
        PROVE  Here(item[h])' \/ Deleting(item[h])' \/ Gone(item[h])'
    <3>1. CASE h # g
      BY <1>4, <1>6, <2>2, <3>1 DEF Moves
    <3>2. CASE h = g
      <4>1. ~Answer(g)
        BY <1>1, <2>2, <3>2, AnswerIs
      <4>2. CASE at[g] = "set"
        <5>1. item'[g] = item[g]
          BY <1>6, <4>1, <4>2 DEF Resume, AfterFailedSet, Goto
        <5> QED BY <1>4, <2>2, <3>2, <4>2, <5>1
      <4>3. CASE at[g] = "create" /\ result' = "ok" /\ Goto(g, "set")
        <5>1. PICK w \in Ids : w = item[g]
          BY <2>1, <4>3 DEF HandlerOK, Creator
        <5>2. CreateItem(w)
          BY <1>1, <1>6, <4>3, <5>1 DEF Returns, Calls, TurnOK, InCall
        <5>3. /\ life' = [life EXCEPT ![w] = "created"]
              /\ items' = [items EXCEPT ![w] = Nil]
          BY <4>3, <5>2 DEF CreateItem, Refuse, Return, Die
        <5>4. Here(w)'
          BY <1>1, <5>3, OfferTypes, MarksDistinct DEF Here
        <5>5. item'[g] = w
          BY <4>3, <5>1 DEF Goto
        <5> QED BY <3>2, <5>4, <5>5
      <4>4. at'[g] # "delete" /\ at'[g] # "fetch" /\ at'[g] # "get"
        BY <2>2, <3>2
      <4> QED BY <1>1, <1>6, <4>1, <4>2, <4>3, <4>4
            DEF Resume, AfterFailedSet, Goto, StoreTypeOK
    <3> QED BY <3>1, <3>2
  <2>3. ASSUME NEW i \in Ids, outcome'[i] = "refused" PROVE Gone(i)'
    <3>1. CASE outcome[i] = "refused"
      BY <1>3, <3>1 DEF RefusedOK
    <3>2. CASE outcome[i] # "refused"
      <4>1. at[g] = "rollback" /\ Record(g, "refused") /\ Answer(g)
        BY <1>1, <1>6, <2>3, <3>2 DEF Resume, AfterFailedSet, Record, StoreTypeOK
      <4>2. i = item[g]
        BY <1>1, <2>3, <3>2, <4>1 DEF Record, StoreTypeOK
      <4>3. ~IsLocked'
        <5>1. CASE DeleteItem(item[g])
          BY <1>6, <4>1, <5>1 DEF DeleteItem, Returns, Proceed, Refuse, memory,
             IsLocked, OpenOK, AfterVerifying
        <5>2. CASE turn = g /\ pc # "idle" /\ Continue
          <6>1. pc = "deleteValue"
            BY <4>1, <5>2, HandlersDistinct DEF CreationInv, LinkOK
          <6>2. UNCHANGED memory
            BY <5>2, <6>1 DEF Continue, VerifyIdentity, GenerateIdentity, LoadItems,
               BackupValue, WriteValue, WriteMetadata, RestoreRecipient,
               ReloadMetadata, FinishRecovery, ResealItem, DeleteValue
          <6> QED BY <4>1, <6>2 DEF memory, IsLocked, OpenOK, AfterVerifying
        <5> QED BY <1>6, <4>1, <5>1, <5>2 DEF Returns, Calls
      <4>4. Here(i) \/ Deleting(i) \/ Gone(i)
        BY <4>1, <4>2 DEF RefusedOK
      <4> QED BY <1>6, <4>1, <4>2, <4>3, <4>4, RolledBack DEF RefusedOK
    <3> QED BY <3>1, <3>2
  <2> QED BY <1>2, <2>2, <2>3 DEF RefusedOK
<1> QED BY <1>5, <1>6, StoreReturns DEF CreationInv

(* A creation answered with an error leaves no item behind, when its value  *)
(* could not be set: the handler's clean-up finds an unlocked vault and     *)
(* deletes the item, whatever other handlers did since it was made.         *)
THEOREM RefusedIsGone ==
    ASSUME "delete" \notin Faults, NobodyLocks
    PROVE  StoreSpec => []RefusedLeavesNothing
<1> DEFINE RefuseInv == CreationInv /\ OpenOK /\ RefusedOK
<1>1. StoreInit => RefuseInv
  <2> SUFFICES ASSUME StoreInit PROVE RefuseInv
    OBVIOUS
  <2>1. OpenOK /\ RefusedOK
    BY DEF StoreInit, Init, OpenOK, RefusedOK, DeletingOK, Deleting, AfterVerifying
  <2> QED BY <2>1, CreationInit
<1>2. RefuseInv /\ [StoreNext]_allVars => RefuseInv'
  <2> SUFFICES ASSUME RefuseInv, [StoreNext]_allVars PROVE RefuseInv'
    OBVIOUS
  <2>1. CreationInv' /\ ServerInv
    BY CreationNext DEF CreationInv
  <2>2. CASE UNCHANGED allVars
    <3>1. OpenOK'
      BY <2>2 DEF allVars, handlers, vars, memory, call, OpenOK, IsLocked
    <3>2. RefusedOK'
      BY <2>2 DEF allVars, handlers, vars, memory, disk, call, history, RefusedOK,
         DeletingOK, Here, Deleting, Gone
    <3> QED BY <2>1, <3>1, <3>2
  <2>3. CASE StoreNext
    BY <2>1, <2>3, OpenNext, RefusedNext
  <2> QED BY <2>2, <2>3
<1>3. RefuseInv => RefusedLeavesNothing
  BY DEF RefusedOK, Gone, RefusedLeavesNothing
<1> QED BY <1>1, <1>2, <1>3, PTL DEF StoreSpec

-----------------------------------------------------------------------------
(* A promised item can be read back, over a backend that reads and writes   *)
(* and a process that does not die: deletions may fail.                     *)

ReadsAndWrites == Faults \subseteq {"delete"}

(* The files of an item with an acknowledged value hold that value, and an  *)
(* unlocked vault lists it.                                                 *)
GoodFiles(i) ==
    /\ metaFile[i] \in Metadata /\ metaFile[i].sum = stored[i]
    /\ valFile[i] \in Sealed /\ valFile[i].val = stored[i]

GoodOK ==
    \A i \in Ids : stored[i] # Nil =>
        /\ GoodFiles(i)
        /\ (primary # Nil /\ pc # "load") => items[i] = stored[i]

(* An item that is still there has its value, or is being deleted.          *)
HasValue(i) ==
    life[i] = "created" => stored[i] # Nil \/ (pc = "deleteValue" /\ i \in todo)

PromiseOK ==
    /\ \A i \in Ids : outcome[i] = "promised" => HasValue(i)
    /\ \A h \in Handlers : at[h] = "fetch" => HasValue(item[h])

LEMMA GoodFrame ==
    ASSUME GoodOK, UNCHANGED <<metaFile, valFile, stored>>,
           (primary' # Nil /\ pc' # "load") =>
               primary # Nil /\ pc # "load" /\ UNCHANGED items
    PROVE  GoodOK'
BY DEF GoodOK, GoodFiles

(* What is being written is the value the item has, if it has one.          *)
LEMMA SameAgain ==
    ASSUME VaultInv, OneValue, GoodOK, pc \in Writes
    PROVE  /\ cur.id \in Ids /\ cur.val \in Values
           /\ primary # Nil
           /\ stored[cur.id] # Nil => stored[cur.id] = cur.val
<1>1. cur.id \in Ids /\ cur.val \in Values /\ primary # Nil
  BY WritingFacts, MarksDistinct DEF VaultInv, SealInv
<1>2. cur.val \in offered[cur.id]
  BY DEF VaultInv, ValueInv, WriteOK
<1>3. stored[cur.id] # Nil => stored[cur.id] \in offered[cur.id]
  BY <1>1 DEF GoodOK, GoodFiles, VaultInv, ValueInv, FreshOK
<1> QED BY <1>1, <1>2, <1>3 DEF OneValue

LEMMA GoodNext ==
    ASSUME ReadsAndWrites, VaultInv, OneValue, GoodOK, VaultStep PROVE GoodOK'
<1> DEFINE Lists(x, y) == x # Nil /\ y # "load"
<1>1. VaultInv /\ Inv /\ WriteOutcomes = {"ok"}
  BY DEF VaultInv, SealInv, ReadsAndWrites, WriteOutcomes
<1>2. CASE Panic \/ NewVault \/ Crash
  <2>1. /\ UNCHANGED <<metaFile, valFile, stored>>
        /\ primary' = Nil \/ UNCHANGED <<primary, pc, items>>
    BY <1>2 DEF Panic, NewVault, Crash, Die, Forget, disk, call, history
  <2> QED BY <2>1, GoodFrame
<1>3. CASE Die /\ UNCHANGED <<disk, history>>
  BY <1>3, GoodFrame DEF Die, Forget, disk, history
<1>4. ASSUME NEW p \in Passphrases, Unlock(p) PROVE GoodOK'
  <2>1. /\ UNCHANGED <<metaFile, valFile, stored, primary, items>>
        /\ pc = "idle"
    BY <1>4 DEF Unlock, Refuse, Idle, memory, disk, history
  <2> QED BY <2>1, GoodFrame
<1>5. CASE Lock
  BY <1>5, GoodFrame DEF Lock, Refuse, Return, Idle, Forget, memory, disk, history
<1>6. ASSUME NEW id \in Ids, CreateItem(id) PROVE GoodOK'
  <2>1. CASE IsLocked \/ primary = Nil
    <3>1. CASE Refuse("error")
      BY <1>6, <3>1, GoodFrame DEF CreateItem, Refuse, Idle, memory, disk, history
    <3> QED BY <1>3, <1>6, <2>1, <3>1 DEF CreateItem
  <2>2. CASE ~IsLocked /\ primary # Nil
    <3>1. life[id] = "unborn" /\ pc = "idle" /\ primary # Nil
      BY <1>6, <2>2 DEF CreateItem, Idle
    <3>2. stored[id] = Nil
      BY <3>1 DEF VaultInv, ValueInv, BornOK
    <3>3. /\ UNCHANGED <<valFile, stored>>
          /\ \A i \in Ids \ {id} : metaFile'[i] = metaFile[i] /\ items'[i] = items[i]
      BY <1>1, <1>6, <2>2, OfferTypes DEF CreateItem
    <3> QED BY <3>1, <3>2, <3>3 DEF GoodOK, GoodFiles
  <2> QED BY <2>1, <2>2
<1>7. ASSUME NEW id \in Ids, NEW v \in Values \cup {Nil}, SetItemValue(id, v)
      PROVE  GoodOK'
  BY <1>7, GoodFrame DEF SetItemValue, Refuse, Idle, memory, disk, history
<1>8. ASSUME NEW id \in Ids, GetItem(id) PROVE GoodOK'
  BY <1>3, <1>8, GoodFrame DEF GetItem, Refuse, Idle, memory, disk, history
<1>9. ASSUME NEW id \in Ids, DeleteItem(id) PROVE GoodOK'
  <2>1. CASE Refuse("error")
    BY <1>9, <2>1, GoodFrame DEF DeleteItem, Refuse, Idle, memory, disk, history
  <2>2. CASE ~Refuse("error")
    <3>1. stored' = [stored EXCEPT ![id] = Nil] /\ UNCHANGED <<valFile, primary>>
          /\ pc = "idle"
      BY <1>9, <2>2 DEF DeleteItem, Idle, memory, disk
    <3>2. \A i \in Ids \ {id} : /\ metaFile'[i] = metaFile[i]
                                /\ items'[i] = items[i] /\ stored'[i] = stored[i]
      BY <1>1, <1>9, <2>2, <3>1, OfferTypes, ValueTypes DEF DeleteItem, memory, disk
    <3>3. stored'[id] = Nil
      BY <3>1, ValueTypes
    <3> QED BY <3>1, <3>2, <3>3 DEF GoodOK, GoodFiles
  <2> QED BY <2>1, <2>2
<1>10. ASSUME NEW r \in Recipients, SetRecoveryRecipient(r) PROVE GoodOK'
  <2>1. /\ UNCHANGED <<metaFile, valFile, stored>> /\ pc = "idle"
        /\ primary' = Nil \/ UNCHANGED <<primary, items>>
    BY <1>10 DEF SetRecoveryRecipient, Refuse, Idle, Die, Forget, memory, disk, history
  <2> QED BY <2>1, GoodFrame
<1>11. CASE VerifyIdentity \/ \E ident \in Identities : GenerateIdentity(ident)
  <2>1. UNCHANGED <<metaFile, valFile, stored>> /\ primary = Nil
    BY <1>1, <1>11 DEF VerifyIdentity, GenerateIdentity, disk, history, Inv, LockOK
  <2>2. primary' = Nil \/ pc' = "load"
    BY <1>1, <1>11, <2>1 DEF VerifyIdentity, GenerateIdentity, Proceed, Die, Forget
  <2> QED BY <2>1, <2>2, GoodFrame
<1>12. CASE LoadItems
  <2>1. UNCHANGED <<metaFile, valFile, stored>> /\ primary # Nil
    BY <1>1, <1>12 DEF LoadItems, disk, history, Inv, LockOK, Unlocked
  <2>2. CASE Die
    BY <1>3, <1>12, <2>2 DEF LoadItems
  <2>3. CASE items' = [i \in Ids |-> IF i \in Legible THEN metaFile[i].sum ELSE Absent]
    <3>1. ASSUME NEW i \in Ids, stored[i] # Nil PROVE items'[i] = stored[i]
      <4>1. metaFile[i] \in Metadata /\ metaFile[i].sum = stored[i]
        BY <3>1 DEF GoodOK, GoodFiles
      <4>2. metaFile[i].by = primary
        BY <2>1, <4>1 DEF VaultInv, SealInv, SealedByIdentity, IdentityLoaded
      <4> QED BY <2>3, <4>1, <4>2 DEF Legible
    <3> QED BY <2>1, <3>1 DEF GoodOK, GoodFiles
  <2>4. Unreadable(Ids) = {{}} /\ "read" \notin Faults
    BY DEF Unreadable, ReadsAndWrites
  <2>5. \A S : S \ {} = S
    OBVIOUS
  <2> QED BY <1>12, <2>2, <2>3, <2>4, <2>5 DEF LoadItems
<1>13. CASE BackupValue \/ ReloadMetadata \/ FinishRecovery \/ RestoreRecipient
            \/ \E id \in Ids : ResealItem(id)
  <2>1. UNCHANGED <<metaFile, valFile, stored>> /\ pc # "load"
    BY <1>13 DEF BackupValue, ReloadMetadata, FinishRecovery, RestoreRecipient,
       ResealItem, disk, history
  <2>2. primary' = Nil \/ UNCHANGED <<primary, items>>
    BY <1>13 DEF BackupValue, ReloadMetadata, FinishRecovery, RestoreRecipient,
       ResealItem, Die, Forget, memory
  <2> QED BY <1>1, <2>1, <2>2, GoodFrame DEF Inv, LockOK, Unlocked
<1>14. CASE WriteValue
  <2>1. pc = "value" /\ pc \in Writes
    BY <1>14 DEF WriteValue, Writes
  <2>2. PICK w \in Ids, x \in Values : /\ w = cur.id /\ x = cur.val
                                       /\ primary # Nil
                                       /\ stored[w] # Nil => stored[w] = x
    BY <2>1, SameAgain
  <2>3. /\ valFile' = [valFile EXCEPT ![w] = [val |-> x, primary |-> primary,
                                              recovery |-> recovery]]
        /\ UNCHANGED <<metaFile, stored, primary, items>>
    BY <1>1, <1>14, <2>2 DEF WriteValue, Contents, memory, history
  <2>4. [val |-> x, primary |-> primary, recovery |-> recovery] \in Sealed
    BY <2>2, ValueTypes DEF Sealed
  <2>5. /\ valFile'[w] \in Sealed /\ valFile'[w].val = x
        /\ \A i \in Ids \ {w} : valFile'[i] = valFile[i]
    BY <2>3, <2>4, ValueTypes
  <2> QED BY <2>1, <2>2, <2>3, <2>5 DEF GoodOK, GoodFiles
<1>15. CASE WriteMetadata
  <2>1. pc = "metadata" /\ pc \in Writes
    BY <1>15 DEF WriteMetadata, Writes
  <2>2. PICK w \in Ids, x \in Values : /\ w = cur.id /\ x = cur.val
                                       /\ primary # Nil
                                       /\ stored[w] # Nil => stored[w] = x
    BY <2>1, SameAgain
  <2>3. /\ metaFile' = [metaFile EXCEPT ![w] = [sum |-> x, by |-> primary]]
        /\ items' = [items EXCEPT ![w] = x]
        /\ stored' \in {stored, [stored EXCEPT ![w] = x]}
        /\ UNCHANGED <<valFile, primary>>
    BY <1>1, <1>15, <2>2 DEF WriteMetadata, Contents
  <2>4. valFile[w] \in Sealed /\ valFile[w].val = x
    BY <2>1, <2>2 DEF VaultInv, ValueInv, WriteOK
  <2>5. [sum |-> x, by |-> primary] \in Metadata
    BY <2>2, ValueTypes DEF Metadata
  <2>6. /\ metaFile'[w] \in Metadata /\ metaFile'[w].sum = x /\ items'[w] = x
        /\ stored'[w] \in {x, Nil}
        /\ \A i \in Ids \ {w} : /\ metaFile'[i] = metaFile[i]
                                /\ items'[i] = items[i] /\ stored'[i] = stored[i]
    BY <2>2, <2>3, <2>5, OfferTypes, ValueTypes
  <2> QED BY <2>1, <2>2, <2>3, <2>4, <2>6 DEF GoodOK, GoodFiles
<1>16. CASE DeleteValue
  <2>1. PICK w \in todo : \E c \in Remains(valFile[w]) :
                             valFile' = [valFile EXCEPT ![w] = c]
    BY <1>16 DEF DeleteValue
  <2>2. w \in Ids /\ stored[w] = Nil
    BY <1>16, <2>1, ValueTypes DEF DeleteValue, VaultInv, GoneOK
  <2>3. \A i \in Ids \ {w} : valFile'[i] = valFile[i]
    BY <2>1, ValueTypes
  <2>4. UNCHANGED <<metaFile, stored, primary, items>> /\ pc # "load"
    BY <1>16 DEF DeleteValue, memory
  <2> QED BY <2>2, <2>3, <2>4 DEF GoodOK, GoodFiles
<1> QED BY <1>2, <1>4, <1>5, <1>6, <1>7, <1>8, <1>9, <1>10, <1>11, <1>12, <1>13,
           <1>14, <1>15, <1>16 DEF VaultStep, Next, Begin, Continue

LEMMA HasValueStep ==
    ASSUME ReadsAndWrites, CreationInv, StoreNext,
           NEW i \in Ids, Made(i), HasValue(i)
    PROVE  HasValue(i)'
<1>1. VaultInv /\ Inv /\ TurnOK /\ WriteOutcomes = {"ok"} /\ "crash" \notin Faults
  BY DEF CreationInv, ServerInv, ServerOK, VaultInv, SealInv, ReadsAndWrites,
     WriteOutcomes
<1>2. CASE UNCHANGED vars
  BY <1>2 DEF vars, call, history, HasValue
<1>3. CASE UNCHANGED <<life, stored>> /\ pc # "deleteValue"
  BY <1>3 DEF HasValue
<1>4. ASSUME NEW id \in Ids, CreateItem(id) PROVE HasValue(i)'
  <2>1. id # i \/ UNCHANGED life
    BY <1>4 DEF CreateItem, Refuse, Made, history
  <2>2. UNCHANGED stored /\ pc # "deleteValue"
    BY <1>4 DEF CreateItem, Refuse, Idle, history
  <2>3. life'[i] = life[i]
    BY <1>1, <1>4, <2>1, OfferTypes DEF CreateItem, Refuse, history
  <2> QED BY <2>2, <2>3 DEF HasValue
<1>5. ASSUME NEW id \in Ids, DeleteItem(id) PROVE HasValue(i)'
  <2>1. CASE UNCHANGED <<life, stored>>
    BY <1>3, <1>5, <2>1 DEF DeleteItem, Idle
  <2>2. CASE /\ life' = [life EXCEPT ![id] = IF @ = "created" THEN "deleted" ELSE @]
             /\ stored' = [stored EXCEPT ![id] = Nil]
    BY <1>1, <1>5, <2>2, OfferTypes, ValueTypes DEF DeleteItem, Idle, HasValue
  <2>3. CASE /\ stored' = [stored EXCEPT ![id] = Nil] /\ UNCHANGED life
             /\ todo' = {id} /\ pc' = "deleteValue"
    BY <1>1, <1>5, <2>3, ValueTypes DEF DeleteItem, Idle, HasValue
  <2> QED BY <1>5, <2>1, <2>2, <2>3 DEF DeleteItem, Refuse, Proceed, history
<1>6. CASE DeleteValue
  <2>1. pc = "deleteValue" /\ turn # Nil
    BY <1>1, <1>6 DEF DeleteValue, TurnOK
  <2>2. todo = {item[turn]}
    BY <2>1 DEF CreationInv, LinkOK
  <2>3. PICK w \in Ids : todo = {w}
    BY <1>1, <2>2, ValueTypes
  <2>4. life' = [life EXCEPT ![w] = "deleted"] /\ UNCHANGED stored
    BY <1>6, <2>3 DEF DeleteValue
  <2> QED BY <1>1, <2>1, <2>3, <2>4, OfferTypes DEF HasValue
<1>7. CASE WriteMetadata
  <2>1. pc \in Writes /\ pc # "deleteValue" /\ UNCHANGED life
    BY <1>7 DEF WriteMetadata, Writes
  <2>2. PICK w \in Ids, x \in Values : w = cur.id /\ x = cur.val
    BY <1>1, <2>1, WritingFacts
  <2>3. stored' \in {stored, [stored EXCEPT ![w] = x]}
    BY <1>1, <1>7, <2>2 DEF WriteMetadata
  <2>4. stored'[i] # Nil \/ stored'[i] = stored[i]
    BY <1>1, <2>2, <2>3, ValueTypes, MarksDistinct
  <2> QED BY <2>1, <2>4 DEF HasValue
<1>8. CASE Begin /\ ~\E id \in Ids : CreateItem(id) \/ DeleteItem(id)
  BY <1>3, <1>8 DEF Begin, Unlock, Lock, SetItemValue, GetItem, SetRecoveryRecipient,
     Refuse, Idle, history
<1>9. CASE Continue /\ ~DeleteValue /\ ~WriteMetadata
  BY <1>1, <1>3, <1>9 DEF Continue, VerifyIdentity, GenerateIdentity, LoadItems,
     BackupValue, WriteValue, RestoreRecipient, ReloadMetadata, FinishRecovery,
     ResealItem, history
<1>10. CASE Panic
  BY <1>3, <1>10 DEF Panic, Idle, history
<1>11. CASE NewVault
  BY <1>1, <1>3, <1>11 DEF NewVault, history, Inv, LockOK
<1>12. ~Crash
  BY <1>1 DEF Crash
<1> QED BY <1>2, <1>4, <1>5, <1>6, <1>7, <1>8, <1>9, <1>10, <1>11, <1>12, StoreVault
        DEF CreationInv, VaultStep, Next

(* The value of a new item is set when SetItemValue returns nil.            *)
LEMMA SetReturns ==
    ASSUME ReadsAndWrites, CreationInv, NEW h \in Handlers, at[h] = "set", Returns(h),
           result' = "ok"
    PROVE  item[h] \in Ids /\ stored'[item[h]] # Nil
<1>1. VaultInv /\ Inv /\ HandlerOK(h) /\ WriteOutcomes = {"ok"}
  BY DEF CreationInv, ServerInv, ServerOK, VaultInv, SealInv, ReadsAndWrites,
     WriteOutcomes
<1>2. ~Calls(h)
  BY DEF Returns, Calls, SetItemValue, Refuse, Return, Proceed, FirstStep
<1>3. turn = h /\ Continue
  BY <1>2 DEF Returns
<1>4. pc \in Writes /\ cur.id = item[h] /\ cur.caller = "SetItemValue"
  BY <1>3, HandlersDistinct DEF CreationInv, LinkOK
<1>5. WriteMetadata
  BY <1>3, <1>4 DEF Returns, Continue, VerifyIdentity, GenerateIdentity, LoadItems,
     BackupValue, WriteValue, DeleteValue, RestoreRecipient, ReloadMetadata,
     FinishRecovery, ResealItem, Abandon, Die, Return, Proceed, Writes
<1>6. PICK w \in Ids, x \in Values : w = cur.id /\ x = cur.val
  BY <1>1, <1>4, WritingFacts
<1>7. stored' = [stored EXCEPT ![w] = x]
  BY <1>1, <1>4, <1>5, <1>6 DEF WriteMetadata
<1>8. stored'[w] = x
  BY <1>1, <1>7, ValueTypes
<1> QED BY <1>4, <1>6, <1>8, MarksDistinct

LEMMA PromiseNext ==
    ASSUME ReadsAndWrites, CreationInv, PromiseOK, StoreNext PROVE PromiseOK'
<1>1. StoreTypeOK
  BY DEF CreationInv, ServerInv, ServerOK
<1>2. \A i \in Ids : outcome[i] = "promised" => HasValue(i)'
  BY HasValueStep DEF PromiseOK, CreationInv, MadeOK
<1>3. \A h \in Handlers :
         at[h] \in {"set", "fetch"} => item[h] \in Ids /\ Made(item[h])
  BY DEF CreationInv, ServerInv, ServerOK, HandlerOK, Creator, MadeOK
<1>4. ASSUME NEW h \in Handlers, at[h] = "fetch", NEW i \in Ids, i = item[h]
      PROVE  HasValue(i)'
  <2>1. Made(i) /\ HasValue(i)
    BY <1>3, <1>4 DEF PromiseOK, Made, HasValue
  <2> QED BY <2>1, HasValueStep
<1>5. ASSUME NEW h \in Handlers, at[h] = "fetch", item'[h] = item[h]
      PROVE  HasValue(item[h])'
  <2>1. PICK i \in Ids : i = item[h]
    BY <1>3, <1>5
  <2> QED BY <1>4, <1>5, <2>1 DEF HasValue
<1>6. CASE /\ UNCHANGED outcome
           /\ \A h \in Handlers : at'[h] \in {"set", "rollback", "fetch"} =>
                 at'[h] = at[h] /\ item'[h] = item[h]
  BY <1>2, <1>5, <1>6 DEF PromiseOK
<1>7. ASSUME NEW h \in Handlers, Returns(h), Resume(h, result' = "ok"), Moves(h)
      PROVE  PromiseOK'
  <2>1. \A g \in Handlers \ {h} : at'[g] = "fetch" => HasValue(item[g])'
    BY <1>5, <1>7 DEF Moves
  <2>2. at'[h] = "fetch" =>
            at[h] = "set" /\ result' = "ok" /\ UNCHANGED <<item, outcome>>
    BY <1>1, <1>7, AnswerIs DEF Resume, AfterFailedSet, Goto, StoreTypeOK
  <2>3. at'[h] = "fetch" => HasValue(item[h])'
    BY <1>7, <2>2, SetReturns DEF HasValue
  <2>4. ASSUME NEW i \in Ids, outcome'[i] = "promised", outcome[i] # "promised"
        PROVE  HasValue(i)'
    <3>1. i = item[h] /\ (at[h] = "set" \/ at[h] = "fetch") /\ result' = "ok"
      BY <1>1, <1>7, <2>4 DEF Resume, AfterFailedSet, Record, StoreTypeOK
    <3>2. CASE at[h] = "set"
      BY <1>7, <3>1, <3>2, SetReturns DEF HasValue
    <3> QED BY <1>4, <3>1, <3>2
  <2> QED BY <1>2, <2>1, <2>3, <2>4 DEF PromiseOK
<1> QED BY <1>6, <1>7, StoreReturns DEF CreationInv

(* Over a backend that reads and writes: an item whose creation was         *)
(* answered with its id is listed by every unlocked vault until it is       *)
(* deleted, and its files hold the value it was created with, however the   *)
(* calls of other handlers fall between those of its own.                   *)
THEOREM PromisedIsReadable ==
    ASSUME ReadsAndWrites PROVE StoreSpec => []PromisedReadable
<1> DEFINE ReadInv == CreationInv /\ OfferInv /\ GoodOK /\ PromiseOK
<1>1. StoreInit => GoodOK /\ PromiseOK
  BY DEF StoreInit, Init, GoodOK, PromiseOK
<1>2. GoodOK /\ PromiseOK /\ CreationInv /\ OfferInv /\ [StoreNext]_allVars
        => GoodOK' /\ PromiseOK'
  <2> SUFFICES ASSUME ReadInv, [StoreNext]_allVars PROVE GoodOK' /\ PromiseOK'
    OBVIOUS
  <2>1. CASE UNCHANGED allVars
    <3>1. GoodOK'
      BY <2>1, GoodFrame DEF allVars, vars, memory, disk, call, history
    <3>2. PromiseOK'
      BY <2>1 DEF allVars, handlers, vars, call, history, PromiseOK, HasValue
    <3> QED BY <3>1, <3>2
  <2>2. CASE StoreNext
    <3>1. VaultInv /\ OneValue
      BY DEF CreationInv, ServerInv, OfferInv
    <3>2. CASE UNCHANGED vars
      BY <3>2, GoodFrame, PromiseNext, <2>2 DEF vars, memory, disk, call, history
    <3> QED BY <2>2, <3>1, <3>2, StoreVault, GoodNext, PromiseNext DEF CreationInv
  <2> QED BY <2>1, <2>2
<1>3. ReadInv => PromisedReadable
  BY DEF GoodOK, GoodFiles, PromiseOK, HasValue, PromisedReadable, Readable, Idle
<1>4. StoreInit => CreationInv
  BY CreationInit
<1>5. CreationInv /\ [StoreNext]_allVars => CreationInv'
  BY CreationNext
<1>6. StoreSpec => []OfferInv
  BY OfferInvHolds, PTL
<1> QED BY <1>1, <1>2, <1>3, <1>4, <1>5, <1>6, PTL DEF StoreSpec
=============================================================================
