---------------------------- MODULE ExportProofs ----------------------------
(***************************************************************************)
(* ExportIsWhole: proved with the invariants of CredStoreProofs and one    *)
(* that follows what is due through the client's requests.                 *)
(***************************************************************************)
EXTENDS Export, CredStoreProofs

-----------------------------------------------------------------------------
(* The invariant of the export.                                             *)

(* What the client has read, is reading, or will ask for.                   *)
Handed ==
    DOMAIN got \cup missing
        \cup (IF req[Exporter] # Nil THEN {req[Exporter].id} ELSE {})

Genuine(vals) ==
    /\ DOMAIN vals \subseteq Ids
    /\ \A i \in DOMAIN vals : \E v \in offered[i] : vals[i] = Exported(v)

(* The exporter's handler serves what the client asked for.                 *)
AskOK ==
    req[Exporter] # Nil =>
        /\ phase = "list" => req[Exporter].rpc = "list"
        /\ phase = "read" => req[Exporter].rpc = "read" /\ req[Exporter].id \in Ids

(* Nothing that was due when the items were listed gets lost.               *)
HeldOK ==
    ~locked =>
        /\ phase = "read" => due \subseteq Handed
        /\ phase = "write" => due \subseteq DOMAIN got
        /\ phase = "done" => due \subseteq DOMAIN output

GenuineOK ==
    /\ phase \in {"read", "write"} => Genuine(got)
    /\ phase = "done" => Genuine(output)

StoreSide == ServerInv /\ OfferInv /\ KeyOK /\ GoodOK

ClientSide == AskOK /\ HeldOK /\ GenuineOK
-----------------------------------------------------------------------------
(* The server under an exporting client.                                    *)

(* The client's requests need not be among Requests.                        *)
LEMMA AskedOK ==
    ASSUME StoreSide, NEW h \in Handlers, NEW r \in AllRequests, Receive(h, r),
           r.rpc \in {"list", "read"}
    PROVE  StoreSide' /\ UNCHANGED vars /\ req'[h] = r
<1>1. StoreTypeOK /\ HandlerOK(h) /\ TurnOK /\ DrawnOK
  BY DEF StoreSide, ServerInv, ServerOK
<1>2. /\ req'[h] = r /\ at'[h] \in {"verify", "check"}
      /\ at'[h] = "verify" <=> r.rpc = "list"
      /\ \A g \in Handlers \ {h} : req'[g] = req[g] /\ at'[g] = at[g]
      /\ UNCHANGED <<vars, turn, outcome, item, left>>
      /\ req[h] = Nil
  BY <1>1 DEF Receive, FirstPoint, StoreTypeOK
<1>3. r # Nil
  BY RequestsKnown
<1>4. StoreTypeOK'
  BY <1>1, <1>2 DEF Receive, StoreTypeOK, FirstPoint, Points
<1>5. ASSUME NEW g \in Handlers PROVE HandlerOK(g)'
  <2>1. CASE g = h
    BY <1>2, <1>3, <2>1 DEF HandlerOK, Creator
  <2>2. CASE g # h
    <3>1. HandlerOK(g)
      BY DEF StoreSide, ServerInv, ServerOK
    <3> QED BY <1>2, <2>2, <3>1 DEF HandlerOK, Creator
  <2> QED BY <2>1, <2>2
<1>6. TurnOK'
  <2>1. turn # h
    BY <1>1, <1>2, HandlersDistinct DEF TurnOK, InCall, HandlerOK
  <2>2. turn # Nil => turn \in Handlers \ {h}
    BY <1>1, <2>1 DEF StoreTypeOK
  <2> QED BY <1>1, <1>2, <2>2 DEF TurnOK, InCall, vars, call
<1>7. DrawnOK' /\ UnsetOK'
  <2>1. \A g \in Handlers : Creator(g)' => Creator(g) /\ at'[g] = at[g] /\ g # h
    BY <1>2 DEF Creator
  <2> QED BY <1>1, <1>2, <2>1
          DEF DrawnOK, UnsetOK, StoreSide, OfferInv, vars, history
<1>8. ServerInv'
  BY <1>2, <1>4, <1>5, <1>6, <1>7, VaultSame DEF StoreSide, ServerInv, ServerOK
<1>9. OfferInv'
  BY <1>2, <1>7 DEF StoreSide, OfferInv, UnbornOK, OneValue, SumOK, vars, disk, history
<1>10. KeyOK' /\ GoodOK'
  BY <1>2, GoodFrame DEF StoreSide, KeyOK, vars, memory, disk, call, history
<1> QED BY <1>2, <1>8, <1>9, <1>10 DEF StoreSide

LEMMA ServedOK ==
    ASSUME ReadsAndWrites, StoreSide, StoreNext PROVE StoreSide'
<1>1. ServerInv' /\ OfferInv'
  BY ServerNext, OfferNext DEF StoreSide
<1>2. VaultInv /\ OneValue /\ "write" \notin Faults
  BY DEF StoreSide, ServerInv, OfferInv, ReadsAndWrites
<1>3. CASE UNCHANGED vars
  BY <1>1, <1>3, GoodFrame DEF StoreSide, KeyOK, vars, memory, disk, call, history
<1>4. CASE VaultStep
  BY <1>1, <1>2, <1>4, KeyStep, GoodNext DEF StoreSide
<1> QED BY <1>3, <1>4, StoreVault DEF StoreSide

LEMMA StayedOK ==
    ASSUME StoreSide, UNCHANGED allVars PROVE StoreSide'
<1>1. ServerInv'
  BY ServerNext DEF StoreSide
<1>2. OfferInv'
  BY DEF StoreSide, allVars, handlers, vars, disk, history, OfferInv, UnbornOK,
     UnsetOK, OneValue, SumOK, Creator
<1>3. KeyOK' /\ GoodOK'
  BY GoodFrame DEF StoreSide, KeyOK, allVars, vars, memory, disk, call, history
<1> QED BY <1>1, <1>2, <1>3 DEF StoreSide

(* What an item was offered once, it was offered ever after.                *)
LEMMA OffersStay ==
    ASSUME VaultInv, OneValue, VaultStep \/ UNCHANGED vars, NEW i \in Ids
    PROVE  offered[i] \subseteq offered'[i]
<1>1. CASE UNCHANGED offered
  BY <1>1
<1>2. CASE UNCHANGED vars \/ Panic \/ Crash \/ NewVault
  BY <1>1, <1>2 DEF Panic, Crash, NewVault, vars, history
<1>3. ASSUME NEW id \in Ids, NEW v \in Values \cup {Nil}, SetItemValue(id, v)
      PROVE  offered[i] \subseteq offered'[i]
  BY <1>1, <1>3, OfferTypes DEF SetItemValue, Refuse, history
<1>4. CASE Begin /\ ~Offers
  BY <1>1, <1>4 DEF Begin, Offers, Unlock, Lock, CreateItem, GetItem, DeleteItem,
     SetRecoveryRecipient, Refuse, history
<1>5. CASE WriteMetadata
  <2>1. PICK w \in Ids : w = cur.id
    BY <1>5, WritingFacts DEF VaultInv, SealInv, WriteMetadata, Writes
  <2>2. \/ UNCHANGED offered
        \/ offered' = [offered EXCEPT ![w] = {cur.val}]
    BY <1>5, <2>1 DEF WriteMetadata
  <2>3. offered[w] \subseteq {cur.val}
    BY <1>5, <2>1 DEF VaultInv, ValueInv, WriteOK, WriteMetadata, Writes, OneValue
  <2> QED BY <1>1, <2>2, <2>3, OfferTypes
<1>6. CASE Continue /\ ~WriteMetadata
  BY <1>1, <1>6 DEF Continue, VerifyIdentity, GenerateIdentity, LoadItems,
     BackupValue, WriteValue, DeleteValue, RestoreRecipient, ReloadMetadata,
     FinishRecovery, ResealItem, history
<1> QED BY <1>2, <1>3, <1>4, <1>5, <1>6 DEF VaultStep, Next, Begin, Offers

LEMMA GenuineStays ==
    ASSUME StoreSide, VaultStep \/ UNCHANGED vars, NEW vals, Genuine(vals)
    PROVE  Genuine(vals)'
BY OffersStay DEF StoreSide, ServerInv, OfferInv, Genuine

(* Whose step answers the request of a handler.                             *)
LEMMA AnsweredBy ==
    ASSUME ServerInv, ServerStep, up', NEW h \in Handlers, req[h] # Nil,
           req'[h] # req[h]
    PROVE  \/ turn = h /\ Follow(h)
           \/ Serve(h)
<1>1. StoreTypeOK /\ ServerOK
  BY DEF ServerInv, ServerOK
<1>2. ASSUME NEW g \in Handlers, Follow(g), req[g] # Nil PROVE g = h
  <2>1. Resume(g, result' = "ok")
    BY <1>2 DEF Follow
  <2> QED BY <1>1, <1>2, <2>1, ResumeOK DEF Moves
<1>3. ASSUME NEW g \in Handlers, Serve(g) PROVE g = h
  <2>1. CASE Talks(g) /\ UNCHANGED <<vars, turn, outcome>>
    BY <1>1, <2>1, TalksOK DEF Moves
  <2>2. CASE Calls(g) /\ Follow(g)
    BY <1>2, <2>2, CallsBegin
  <2> QED BY <1>3, <2>1, <2>2 DEF Serve, Talks, Calls, Call, Read, Verify, Report,
          Reject, NextDeletion, CheckAdmin, Die
<1>4. CASE Progress
  <2>1. turn \in Handlers /\ req[turn] # Nil
    BY <1>1, <1>4, HandlersDistinct
       DEF Progress, StoreTypeOK, ServerOK, TurnOK, InCall, HandlerOK
  <2> QED BY <1>2, <1>4, <2>1 DEF Progress
<1>5. ~Crash /\ ~UNCHANGED handlers
  BY DEF Crash, Die, handlers
<1> QED BY <1>3, <1>4, <1>5 DEF ServerStep

(* The listing is taken from an idle vault.                                 *)
LEMMA ListedAtRest ==
    ASSUME ServerInv, ServerStep, up', NEW h \in Handlers, req[h] # Nil,
           req'[h] # req[h], at[h] = "list"
    PROVE  Idle /\ UNCHANGED vars /\ req'[h] = Nil
<1>1. StoreTypeOK /\ TurnOK /\ HandlerOK(h)
  BY DEF ServerInv, ServerOK
<1>2. turn # h
  BY <1>1, HandlersDistinct DEF TurnOK, InCall
<1>3. Report(h)
  BY <1>2, AnsweredBy DEF Serve, Verify, Reject, NextDeletion, Call, CheckAdmin, Read
<1> QED BY <1>1, <1>3, AnswerIs DEF Report

(* A value is one that its item was offered.                                *)
LEMMA ReadAnswered ==
    ASSUME ServerInv, ServerStep, up', NEW h \in Handlers, req[h] # Nil,
           req'[h] # req[h], at[h] = "get", result' = "ok",
           NEW i \in Ids, req[h].id = i
    PROVE  /\ req'[h] = Nil
           /\ valFile[i].val \in offered[i] /\ UNCHANGED offered
<1>1. StoreTypeOK /\ TurnOK /\ HandlerOK(h) /\ VaultInv
  BY DEF ServerInv, ServerOK
<1>2. turn # h /\ i # Nil
  BY <1>1, HandlersDistinct DEF TurnOK, InCall
<1>3. Read(h)
  BY <1>2, AnsweredBy DEF Serve, Verify, Report, Reject, NextDeletion, Call, CheckAdmin
<1>4. /\ GetItem(i) /\ Follow(h)
      /\ IsLocked \/ items[i] # Nil
  BY <1>2, <1>3 DEF Read, ReadTarget, Die
<1>5. Answer(h)
  BY <1>4 DEF Follow, Resume, DropAll
<1>6. "ok" \in ReadOutcomes(i, items[i]) /\ Refuse("ok")
  BY <1>4 DEF GetItem, Refuse, Return, Die
<1>7. valFile[i] \in Sealed
  BY <1>6 DEF ReadOutcomes
<1>8. UNCHANGED offered
  BY <1>6 DEF Refuse, history
<1> QED BY <1>1, <1>5, <1>7, <1>8, AnswerIs DEF VaultInv, ValueInv, FreshOK

-----------------------------------------------------------------------------
(* The client's steps.                                                      *)

LEMMA AbortOK == ASSUME Abort PROVE ClientSide'
BY DEF Abort, ClientSide, AskOK, HeldOK, GenuineOK

(* Steps in which the client does nothing and its request goes on.          *)
LEMMA IdleOK ==
    ASSUME StoreSide, ClientSide, VaultStep \/ UNCHANGED vars, UNCHANGED client,
           ~Exporting \/ req'[Exporter] = req[Exporter]
    PROVE  ClientSide'
<1>1. AskOK' /\ HeldOK'
  BY DEF ClientSide, AskOK, HeldOK, Handed, Exporting, client
<1>2. GenuineOK'
  BY GenuineStays DEF ClientSide, GenuineOK, Genuine, client
<1> QED BY <1>1, <1>2 DEF ClientSide

(* Every item with a value is listed by an unlocked vault.                  *)
LEMMA ListingOK ==
    ASSUME StoreSide, ClientSide, ServerStep, TakeListing, up', req[Exporter] # Nil,
           at[Exporter] = "list", req'[Exporter] # req[Exporter]
    PROVE  ClientSide'
<1>1. Idle /\ req'[Exporter] = Nil
  BY ExportAssumption, ListedAtRest DEF StoreSide
<1>2. ASSUME ~locked' PROVE due' \subseteq missing'
  <2>1. primary # Nil
    BY <1>1, <1>2 DEF TakeListing, IsLocked, Idle, StoreSide, KeyOK
  <2>2. \A i \in Ids : stored[i] # Nil => items[i] = stored[i]
    BY <1>1, <2>1 DEF Idle, StoreSide, GoodOK
  <2>3. \A i \in Ids : stored[i] # Nil => items[i] # Absent
    BY <2>2, ValueTypes, MarksDistinct DEF StoreSide, ServerInv
  <2> QED BY <2>3 DEF TakeListing
<1>3. AskOK' /\ HeldOK'
  BY <1>1, <1>2 DEF TakeListing, AskOK, HeldOK, Handed
<1>4. GenuineOK'
  BY DEF TakeListing, GenuineOK, Genuine, Nothing
<1> QED BY <1>3, <1>4 DEF ClientSide

LEMMA ReadingOK ==
    ASSUME StoreSide, ClientSide, ServerStep, up', req[Exporter] # Nil,
           at[Exporter] = "get", result' = "ok", req'[Exporter] # req[Exporter],
           phase = "read", NEW i \in Ids, i = req[Exporter].id, TakeValue(i)
    PROVE  ClientSide'
<1>1. /\ req'[Exporter] = Nil
      /\ valFile[i].val \in offered[i] /\ UNCHANGED offered
  BY ExportAssumption, ReadAnswered DEF StoreSide
<1>2. /\ DOMAIN got' = DOMAIN got \cup {i}
      /\ got'[i] = Exported(valFile[i].val)
      /\ \A j \in DOMAIN got \ {i} : got'[j] = got[j]
      /\ UNCHANGED <<phase, missing, output, due, locked>>
  BY DEF TakeValue
<1>3. AskOK' /\ HeldOK'
  BY <1>1, <1>2 DEF ClientSide, AskOK, HeldOK, Handed
<1>4. Genuine(got)'
  BY <1>1, <1>2 DEF ClientSide, GenuineOK, Genuine, Exported
<1> QED BY <1>2, <1>3, <1>4 DEF ClientSide, GenuineOK

LEMMA ReactOK ==
    ASSUME StoreSide, ClientSide, ServerStep, React PROVE ClientSide'
<1>1. VaultStep \/ UNCHANGED vars
  BY StoreVault DEF StoreSide, StoreNext
<1>2. CASE (~Exporting \/ req'[Exporter] = req[Exporter]) /\ UNCHANGED client
  BY <1>1, <1>2, IdleOK
<1>3. CASE Abort
  BY <1>3, AbortOK
<1>4. CASE /\ Exporting /\ req'[Exporter] # req[Exporter] /\ up'
           /\ \/ at[Exporter] = "list" /\ TakeListing
              \/ /\ at[Exporter] = "get" /\ result' = "ok"
                 /\ TakeValue(req[Exporter].id)
  <2>1. HandlerOK(Exporter)
    BY ExportAssumption DEF StoreSide, ServerInv, ServerOK
  <2>2. req[Exporter] # Nil
    BY <1>4, <2>1 DEF HandlerOK
  <2>3. CASE at[Exporter] = "list" /\ TakeListing
    BY <1>4, <2>2, <2>3, ListingOK
  <2>4. CASE at[Exporter] = "get" /\ result' = "ok" /\ TakeValue(req[Exporter].id)
    <3>1. phase = "read" /\ req[Exporter].id \in Ids
      BY <1>4, <2>1, <2>2, <2>4 DEF Exporting, HandlerOK, ClientSide, AskOK
    <3> QED BY <1>4, <2>2, <2>4, <3>1, ReadingOK
  <2> QED BY <1>4, <2>3, <2>4
<1> QED BY <1>2, <1>3, <1>4 DEF React, AfterFailedRead

LEMMA StartOK ==
    ASSUME StoreSide, ClientSide, NEW p \in Passphrases, StartExport(p)
    PROVE  StoreSide' /\ ClientSide'
<1> DEFINE r == [rpc |-> "list", pass |-> p]
<1>1. r \in AllRequests /\ r.rpc = "list"
  BY DEF AllRequests
<1>2. StoreSide' /\ req'[Exporter] = r
  BY <1>1, ExportAssumption, AskedOK DEF StartExport
<1>3. AskOK' /\ HeldOK' /\ GenuineOK'
  BY <1>1, <1>2 DEF StartExport, AskOK, HeldOK, GenuineOK
<1> QED BY <1>2, <1>3 DEF ClientSide

LEMMA RequestOK ==
    ASSUME StoreSide, ClientSide, NEW i \in Ids, RequestItem(i)
    PROVE  StoreSide' /\ ClientSide'
<1> DEFINE r == [rpc |-> "read", cred |-> Nil, id |-> i]
<1>1. r \in AllRequests /\ r.rpc = "read" /\ r.id = i /\ r # Nil
  BY RequestsKnown DEF AllRequests
<1>2. StoreSide' /\ req'[Exporter] = r /\ UNCHANGED vars
  BY <1>1, ExportAssumption, AskedOK DEF RequestItem
<1>3. AskOK'
  BY <1>1, <1>2 DEF RequestItem, AskOK
<1>4. HeldOK'
  <2>1. req[Exporter] = Nil
    BY DEF RequestItem, Receive
  <2>2. Handed' = Handed
    BY <1>1, <1>2, <2>1 DEF RequestItem, Handed
  <2> QED BY <2>2 DEF RequestItem, ClientSide, HeldOK
<1>5. GenuineOK'
  BY <1>2 DEF RequestItem, ClientSide, GenuineOK, Genuine, vars, history
<1> QED BY <1>2, <1>3, <1>4, <1>5 DEF ClientSide

(* The steps of the client alone.                                           *)
LEMMA WritingOK ==
    ASSUME ClientSide, OpenOutput \/ WriteOutput \/ GiveUp
    PROVE  ClientSide'
<1>1. UNCHANGED <<offered, req>>
  BY DEF OpenOutput, WriteOutput, GiveUp, allVars, handlers, vars, history
<1>2. CASE OpenOutput
  BY <1>1, <1>2 DEF OpenOutput, ClientSide, AskOK, HeldOK, Handed, GenuineOK, Genuine
<1>3. CASE WriteOutput
  BY <1>1, <1>3 DEF WriteOutput, ClientSide, AskOK, HeldOK, GenuineOK, Genuine
<1>4. CASE GiveUp
  BY <1>4, AbortOK DEF GiveUp
<1> QED BY <1>2, <1>3, <1>4

LEMMA ExportNextOK ==
    ASSUME ReadsAndWrites, StoreSide, ClientSide, [ExportNext]_exportVars
    PROVE  StoreSide' /\ ClientSide'
<1>1. CASE ServerStep /\ React
  BY <1>1, ServedOK, ReactOK DEF StoreNext
<1>2. CASE OtherArrival
  <2>1. StoreNext /\ UNCHANGED client /\ (Exporting => req'[Exporter] = req[Exporter])
    BY <1>2 DEF OtherArrival, StoreNext
  <2>2. VaultStep \/ UNCHANGED vars
    BY <2>1, StoreVault DEF StoreSide
  <2> QED BY <2>1, <2>2, ServedOK, IdleOK
<1>3. CASE OpenOutput \/ WriteOutput \/ GiveUp
  BY <1>3, StayedOK, WritingOK DEF OpenOutput, WriteOutput, GiveUp
<1>4. CASE UNCHANGED exportVars
  <2>1. UNCHANGED <<allVars, client, vars, req>>
    BY <1>4 DEF exportVars, allVars, handlers
  <2> QED BY <2>1, StayedOK, IdleOK
<1> QED BY <1>1, <1>2, <1>3, <1>4, StartOK, RequestOK DEF ExportNext

(* Over a backend that reads and writes and a process that does not die, a  *)
(* completed export that listed an unlocked vault holds every item that was *)
(* due, and each value that is valid UTF-8 as it was created: for any number*)
(* of other clients and whatever they ask for between the requests of the   *)
(* export.                                                                  *)
THEOREM ExportsAreWhole ==
    ASSUME ReadsAndWrites PROVE ExportSpec => []ExportIsWhole
<1>1. ExportInit => StoreSide /\ ClientSide
  <2> SUFFICES ASSUME ExportInit PROVE StoreSide /\ ClientSide
    OBVIOUS
  <2>1. ServerInv /\ OfferInv
    BY ServerInit, MarksDistinct
       DEF ExportInit, StoreInit, Init, OfferInv, UnbornOK, UnsetOK, OneValue, SumOK,
           Creator
  <2>2. KeyOK /\ GoodOK
    BY DEF ExportInit, StoreInit, Init, KeyOK, GoodOK
  <2>3. ClientSide
    BY DEF ExportInit, ClientSide, AskOK, HeldOK, GenuineOK
  <2> QED BY <2>1, <2>2, <2>3 DEF StoreSide
<1>2. (StoreSide /\ ClientSide) /\ [ExportNext]_exportVars => (StoreSide /\ ClientSide)'
  BY ExportNextOK
<1>3. StoreSide /\ ClientSide => ExportIsWhole
  <2> SUFFICES ASSUME ClientSide, phase = "done", ~locked PROVE ExportIsWhole
    BY DEF ExportIsWhole
  <2>1. ExportsAllItems
    BY DEF ClientSide, HeldOK, ExportsAllItems
  <2>2. ASSUME NEW i \in DOMAIN output, offered[i] \cap Binary = {} PROVE Verbatim(i)
    <3>1. PICK v \in offered[i] : output[i] = Exported(v)
      BY DEF ClientSide, GenuineOK, Genuine
    <3> QED BY <2>2, <3>1 DEF Exported, Verbatim
  <2> QED BY <2>1, <2>2 DEF ExportIsWhole
<1> QED BY <1>1, <1>2, <1>3, PTL DEF ExportSpec
=============================================================================
