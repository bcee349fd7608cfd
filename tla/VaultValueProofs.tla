-------------------------- MODULE VaultValueProofs --------------------------
(***************************************************************************)
(* No acknowledged value is lost and no overwritten value is read back,    *)
(* for every value of the constants and under every set of faults.         *)
(***************************************************************************)
EXTENDS VaultProofs
-----------------------------------------------------------------------------
(* The inductive invariant.                                                 *)

(* Nothing is known of an id that CreateItem has not given out.             *)
BornOK ==
    \A i \in Ids : life[i] = "unborn" =>
        /\ items[i] = Absent /\ metaFile[i] = Absent /\ stored[i] = Nil
        /\ i \notin todo
        /\ cur # Nil => cur.id # i

(* An acknowledged value shows in the checksums, so that the next write of  *)
(* the item backs it up.                                                    *)
ShownOK ==
    \A i \in Ids : stored[i] # Nil =>
        /\ items[i] # Nil
        /\ metaFile[i] \in Metadata => metaFile[i].sum # Nil

(* A write in progress: the acknowledged value was saved before the value   *)
(* file is opened, and the value file is good before the metadata is.       *)
WriteOK ==
    pc \in Writes =>
        /\ cur.val \in offered[cur.id]
        /\ pc = "value" => stored[cur.id] \in backups[cur.id] \cup {Nil}
        /\ pc = "metadata" => /\ valFile[cur.id] \in Sealed
                              /\ valFile[cur.id].val = cur.val

(* A value file holds the acknowledged value or one offered since.          *)
FreshOK == \A i \in Ids : valFile[i] \in Sealed => valFile[i].val \in offered[i]

ValueInv == Inv /\ BornOK /\ ShownOK /\ WriteOK /\ FreshOK /\ AckedValueKept
-----------------------------------------------------------------------------
(* Steps that write no item.                                                *)

LEMMA Quiet ==
    ASSUME ValueInv, Inv', pc' \notin Writes, todo' \subseteq todo,
           \A i \in Ids : items'[i] \in {items[i], Absent},
           UNCHANGED <<metaFile, valFile, backups, life, stored, offered>>
    PROVE  ValueInv'
<1>1. cur' = Nil
  BY DEF Inv, LockOK
<1>2. BornOK'
  BY <1>1 DEF ValueInv, BornOK
<1>3. ShownOK'
  BY MarksDistinct DEF ValueInv, ShownOK
<1>4. WriteOK' /\ FreshOK' /\ AckedValueKept'
  BY DEF ValueInv, WriteOK, FreshOK, AckedValueKept
<1> QED BY <1>2, <1>3, <1>4 DEF ValueInv

LEMMA Ends ==
    /\ \A r \in {"ok", "error"} : Return(r) => pc' = "idle" /\ todo' = {}
    /\ Die => pc' = "idle" /\ todo' = {} /\ items' = [i \in Ids |-> Absent]
    /\ Forget => items' = [i \in Ids |-> Absent]
    /\ \A s \in Steps : Proceed(s) => pc' = s
    /\ "idle" \notin Writes
BY DEF Return, Die, Forget, NoItems, Proceed, Writes

LEMMA RefuseQuiet ==
    ASSUME ValueInv, Inv', NEW r \in {"ok", "error"}, Refuse(r)
    PROVE  ValueInv'
BY Ends, Quiet DEF Refuse, memory, disk, history

LEMMA DieQuiet ==
    ASSUME ValueInv, Inv', Die,
           UNCHANGED <<metaFile, valFile, backups, life, stored, offered>>
    PROVE  ValueInv'
BY Ends, Quiet

LEMMA QuietSteps ==
    ASSUME ValueInv, Inv',
           \/ NewVault \/ Crash \/ Lock \/ VerifyIdentity \/ RestoreRecipient
           \/ FinishRecovery
           \/ \E p \in Passphrases : Unlock(p)
           \/ \E ident \in Identities : GenerateIdentity(ident)
           \/ \E id \in Ids : GetItem(id)
           \/ \E r \in Recipients : SetRecoveryRecipient(r)
    PROVE  ValueInv'
<1>1. CASE NewVault
  <2>1. pc \notin Writes
    BY <1>1 DEF NewVault, ValueInv, Inv, LockOK, Writes
  <2> QED BY <1>1, <2>1, Quiet DEF NewVault, disk, call, history
<1>2. CASE Crash
  BY <1>2, DieQuiet DEF Crash, disk, history
<1>3. CASE Lock
  BY <1>3, RefuseQuiet, Ends, Quiet DEF Lock, disk, history
<1>4. CASE VerifyIdentity
  BY <1>4, DieQuiet, Ends, Quiet DEF VerifyIdentity, disk, history, Steps, Writes
<1>5. CASE RestoreRecipient
  BY <1>5, DieQuiet, Ends, Quiet DEF RestoreRecipient, memory, Steps, Writes
<1>6. CASE FinishRecovery
  BY <1>6, Ends, Quiet DEF FinishRecovery, memory, disk
<1>7. ASSUME NEW p \in Passphrases, Unlock(p) PROVE ValueInv'
  BY <1>7, RefuseQuiet, Ends, Quiet DEF Unlock, disk, history, Steps, Writes
<1>8. ASSUME NEW ident \in Identities, GenerateIdentity(ident) PROVE ValueInv'
  <2>1. UNCHANGED <<metaFile, valFile, backups, life, stored, offered>>
    BY <1>8 DEF GenerateIdentity, history
  <2>2. \/ Proceed("load") /\ UNCHANGED <<items, todo>>
        \/ Return("error") /\ UNCHANGED items
        \/ Die
    BY <1>8 DEF GenerateIdentity, memory
  <2> QED BY <2>1, <2>2, DieQuiet, Ends, Quiet DEF Steps, Writes
<1>9. ASSUME NEW id \in Ids, GetItem(id) PROVE ValueInv'
  BY <1>9, RefuseQuiet, DieQuiet DEF GetItem, disk, history
<1>10. ASSUME NEW r \in Recipients, SetRecoveryRecipient(r) PROVE ValueInv'
  BY <1>10, RefuseQuiet, DieQuiet, Ends, Quiet
     DEF SetRecoveryRecipient, memory, disk, history, Steps, Writes
<1> QED BY <1>1, <1>2, <1>3, <1>4, <1>5, <1>6, <1>7, <1>8, <1>9, <1>10

(* The metadata files are read: into items, or into todo.                   *)
LEMMA ReadSteps ==
    ASSUME ValueInv, Inv', LoadItems \/ ReloadMetadata
    PROVE  ValueInv'
<1>1. UNCHANGED <<metaFile, valFile, backups, life, stored, offered>>
  BY DEF LoadItems, ReloadMetadata, disk, history
<1>2. CASE Return("error")
  BY <1>1, <1>2, Ends, Quiet DEF LoadItems, ReloadMetadata, memory, Forget, Die,
     Return, Proceed
<1>3. CASE Die
  BY <1>1, <1>3, DieQuiet
<1>4. ASSUME NEW bad \in SUBSET Ids,
             \/ /\ items' = [i \in Ids |-> IF i \in Legible \ bad
                                            THEN metaFile[i].sum ELSE Absent]
                /\ Return("ok")
             \/ todo' = Legible \ bad /\ Proceed("reseal") /\ UNCHANGED items
      PROVE  ValueInv'
  <2>1. pc' \notin Writes
    BY <1>4, Ends DEF Steps, Writes
  <2>2. cur' = Nil
    BY <2>1 DEF Inv, LockOK
  <2>3. todo' \subseteq Legible
    BY <1>4, Ends
  <2>4. \A i \in Ids : \/ items'[i] \in {items[i], Absent}
                       \/ metaFile[i] \in Metadata /\ items'[i] = metaFile[i].sum
    BY <1>4 DEF Legible
  <2>5. BornOK'
    BY <1>1, <2>2, <2>3, <2>4, MarksDistinct DEF ValueInv, BornOK, Legible
  <2>6. ShownOK'
    BY <1>1, <2>4, MarksDistinct DEF ValueInv, ShownOK
  <2>7. WriteOK' /\ FreshOK' /\ AckedValueKept'
    BY <1>1, <2>1 DEF ValueInv, WriteOK, FreshOK, AckedValueKept
  <2> QED BY <2>5, <2>6, <2>7 DEF ValueInv
<1> QED BY <1>2, <1>3, <1>4 DEF LoadItems, ReloadMetadata, Unreadable, memory
-----------------------------------------------------------------------------
(* Steps that change an item.                                               *)

LEMMA CreateItemValue ==
    ASSUME ValueInv, Inv', NEW id \in Ids, CreateItem(id)
    PROVE  ValueInv'
<1>1. CASE Refuse("error") \/ (Die /\ UNCHANGED <<disk, history>>)
  BY <1>1, RefuseQuiet, DieQuiet DEF disk, history
<1>2. ASSUME NEW s \in {"created", "lost"}, life' = [life EXCEPT ![id] = s],
             NEW c, metaFile' = [metaFile EXCEPT ![id] = c],
             c \in Metadata => c.sum = Nil,
             UNCHANGED <<valFile, backups, stored, offered>>,
             \/ items' = [items EXCEPT ![id] = Nil] /\ s = "created"
             \/ UNCHANGED items
             \/ items' = [i \in Ids |-> Absent],
             pc' = "idle", todo' = {}
      PROVE  ValueInv'
  <2>1. stored[id] = Nil /\ cur' = Nil
    BY <1>2, Ends DEF CreateItem, ValueInv, BornOK, Inv, LockOK
  <2>2. life'[id] # "unborn"
    BY <1>2 DEF ValueInv, Inv, TypeOK, HistoryOK
  <2>3. \A i \in Ids \ {id} :
            /\ life'[i] = life[i] /\ metaFile'[i] = metaFile[i]
            /\ items'[i] \in {items[i], Absent}
    BY <1>2 DEF ValueInv, Inv, TypeOK, HistoryOK, DiskOK, MemoryOK
  <2>4. BornOK'
    BY <1>2, <2>1, <2>2, <2>3 DEF ValueInv, BornOK
  <2>5. ShownOK'
    BY <1>2, <2>1, <2>3, MarksDistinct DEF ValueInv, ShownOK
  <2>6. WriteOK' /\ FreshOK' /\ AckedValueKept'
    BY <1>2, Ends DEF ValueInv, WriteOK, FreshOK, AckedValueKept
  <2> QED BY <2>4, <2>5, <2>6 DEF ValueInv
<1>3. CASE primary # Nil /\ ~Refuse("error")
  <2>1. PICK o \in WriteOutcomes :
          /\ life' = [life EXCEPT ![id] = IF o = "ok" THEN "created" ELSE "lost"]
          /\ \E c \in Contents(Absent, [sum |-> Nil, by |-> primary],
                               {Partial, Empty}, o) :
                metaFile' = [metaFile EXCEPT ![id] = c]
          /\ UNCHANGED <<valFile, backups, stored, offered>>
          /\ \/ items' = [items EXCEPT ![id] = Nil] /\ Return("ok") /\ o = "ok"
             \/ Return("error") /\ UNCHANGED items
             \/ Die
    BY <1>3 DEF CreateItem, memory
  <2>2. PICK c \in {Absent, Partial, Empty, [sum |-> Nil, by |-> primary]} :
          metaFile' = [metaFile EXCEPT ![id] = c]
    BY <2>1 DEF Contents
  <2>3. c \in Metadata => c.sum = Nil
    BY <2>2, MarksDistinct
  <2>4. pc' = "idle" /\ todo' = {}
    BY <2>1, Ends
  <2>5. \/ items' = [items EXCEPT ![id] = Nil] /\ o = "ok"
        \/ UNCHANGED items
        \/ items' = [i \in Ids |-> Absent]
    BY <2>1, Ends
  <2> QED BY <1>2, <2>1, <2>2, <2>3, <2>4, <2>5
<1>4. Refuse("error") \/ (Die /\ UNCHANGED <<disk, history>>) \/ primary # Nil
  BY DEF CreateItem
<1> QED BY <1>1, <1>3, <1>4

LEMMA SetItemValueValue ==
    ASSUME ValueInv, Inv', NEW id \in Ids, NEW v \in Values \cup {Nil},
           SetItemValue(id, v)
    PROVE  ValueInv'
<1>1. CASE Refuse("error")
  BY <1>1, RefuseQuiet
<1>2. CASE /\ items[id] # Absent
           /\ cur' = [id |-> id, val |-> v, caller |-> "SetItemValue"]
           /\ Proceed(FirstStep(items[id]))
           /\ offered' = [offered EXCEPT ![id] = @ \cup {v}]
           /\ UNCHANGED <<memory, disk, todo, life, stored>>
  <2>1. \A i \in Ids : offered[i] \subseteq offered'[i]
    BY <1>2 DEF ValueInv, Inv, TypeOK, HistoryOK
  <2>2. v \in offered'[id]
    BY <1>2 DEF ValueInv, Inv, TypeOK, HistoryOK
  <2>3. BornOK' /\ ShownOK' /\ AckedValueKept'
    BY <1>2 DEF ValueInv, BornOK, ShownOK, AckedValueKept, memory, disk
  <2>4. FreshOK'
    BY <1>2, <2>1 DEF ValueInv, FreshOK, disk
  <2>5. pc' = "backup" \/ (pc' = "value" /\ stored[id] = Nil)
    BY <1>2 DEF Proceed, FirstStep, ValueInv, ShownOK
  <2>6. WriteOK'
    BY <1>2, <2>2, <2>5 DEF WriteOK
  <2> QED BY <2>3, <2>4, <2>6 DEF ValueInv
<1> QED BY <1>1, <1>2 DEF SetItemValue

LEMMA AbandonEnds == Abandon => pc' \notin Writes /\ todo' \subseteq todo
BY Ends DEF Abandon, Steps, Writes

LEMMA BackupValueValue == ASSUME ValueInv, Inv', BackupValue PROVE ValueInv'
<1>1. cur.id \in Ids
  BY WritingFacts DEF ValueInv, BackupValue, Writes
<1>2. UNCHANGED <<items, metaFile, valFile, life, stored, offered>>
  BY DEF BackupValue, memory, history
<1>3. \A i \in Ids : backups[i] \subseteq backups'[i]
  BY <1>1 DEF BackupValue, ValueInv, Inv, TypeOK, DiskOK
<1>4. FreshOK' /\ AckedValueKept' /\ ShownOK'
  BY <1>2, <1>3 DEF ValueInv, FreshOK, AckedValueKept, ShownOK
<1>5. CASE Abandon
  <2>1. cur' = Nil
    BY <1>5, AbandonEnds DEF Inv, LockOK
  <2> QED BY <1>2, <1>4, <1>5, <2>1, AbandonEnds DEF ValueInv, BornOK, WriteOK
<1>6. CASE /\ Proceed("value") /\ UNCHANGED <<cur, todo, tries>>
           /\ backups' = [backups EXCEPT ![cur.id] = @ \cup
                  (IF valFile[cur.id] \in Sealed THEN {valFile[cur.id].val} ELSE {})]
  <2>1. stored[cur.id] \in backups'[cur.id] \cup {Nil}
    BY <1>1, <1>6 DEF ValueInv, AckedValueKept, Inv, TypeOK, DiskOK
  <2>2. cur.val \in offered[cur.id]
    BY DEF ValueInv, WriteOK, BackupValue, Writes
  <2>3. WriteOK' /\ BornOK'
    BY <1>2, <1>6, <2>1, <2>2 DEF Proceed, WriteOK, ValueInv, BornOK
  <2> QED BY <1>4, <2>3 DEF ValueInv
<1> QED BY <1>5, <1>6 DEF BackupValue

LEMMA WriteValueValue == ASSUME ValueInv, Inv', WriteValue PROVE ValueInv'
<1>1. /\ cur.id \in Ids
      /\ cur.val \in offered[cur.id] /\ stored[cur.id] \in backups[cur.id] \cup {Nil}
  BY WritingFacts DEF ValueInv, WriteOK, WriteValue, Writes
<1> DEFINE new == [val |-> cur.val, primary |-> primary, recovery |-> recovery]
<1>2. /\ \E c \in {valFile[cur.id], Partial, new} :
            valFile' = [valFile EXCEPT ![cur.id] = c]
      /\ UNCHANGED <<metaFile, backups, life, stored, offered>>
  BY DEF WriteValue, Contents, history
<1>3. \A i \in Ids : valFile'[i] = valFile[i] \/ i = cur.id
  BY <1>2 DEF ValueInv, Inv, TypeOK, DiskOK
<1>4. valFile'[cur.id] \in {valFile[cur.id], Partial, new}
  BY <1>1, <1>2 DEF ValueInv, Inv, TypeOK, DiskOK
<1>5. FreshOK' /\ AckedValueKept'
  BY <1>1, <1>2, <1>3, <1>4, MarksDistinct DEF ValueInv, FreshOK, AckedValueKept
<1>6. ASSUME pc' \notin Writes, todo' \subseteq todo,
             \A i \in Ids : items'[i] \in {items[i], Absent}
      PROVE  ValueInv'
  <2>1. cur' = Nil
    BY <1>6 DEF Inv, LockOK
  <2>2. BornOK' /\ ShownOK'
    BY <1>2, <1>6, <2>1, MarksDistinct DEF ValueInv, BornOK, ShownOK
  <2> QED BY <1>5, <1>6, <2>2 DEF ValueInv, WriteOK
<1>7. CASE /\ valFile' = [valFile EXCEPT ![cur.id] = new] /\ Proceed("metadata")
           /\ UNCHANGED <<memory, cur, todo, tries>>
  <2>1. valFile'[cur.id] = new /\ new \in Sealed
    <3>1. cur.val \in Values /\ primary \in Identities
      BY WritingFacts DEF ValueInv, WriteValue, Writes
    <3> QED BY <1>1, <1>7, <3>1
            DEF ValueInv, Inv, TypeOK, DiskOK, MemoryOK, Sealed
  <2>2. WriteOK'
    BY <1>1, <1>2, <1>7, <2>1 DEF Proceed, WriteOK
  <2>3. BornOK' /\ ShownOK'
    BY <1>2, <1>7 DEF ValueInv, BornOK, ShownOK, memory
  <2> QED BY <1>5, <2>2, <2>3 DEF ValueInv
<1>8. CASE Abandon /\ UNCHANGED <<up, memory>>
  BY <1>6, <1>8, AbandonEnds DEF memory
<1>9. CASE Die
  BY <1>6, <1>9, Ends
<1> QED BY <1>7, <1>8, <1>9 DEF WriteValue, Contents

LEMMA WriteMetadataValue == ASSUME ValueInv, Inv', WriteMetadata PROVE ValueInv'
<1>1. /\ cur.id \in Ids /\ cur.val \in Values /\ cur.val # Nil
      /\ cur.val \in offered[cur.id]
      /\ valFile[cur.id] \in Sealed /\ valFile[cur.id].val = cur.val
      /\ cur # Nil
  BY WritingFacts, MarksDistinct
     DEF ValueInv, Inv, LockOK, WriteOK, WriteMetadata, Writes
<1> DEFINE new == [sum |-> cur.val, by |-> primary]
<1>2. /\ \E c \in {metaFile[cur.id], Partial, Empty, new} :
            metaFile' = [metaFile EXCEPT ![cur.id] = c]
      /\ UNCHANGED <<valFile, backups, life>>
  BY DEF WriteMetadata, Contents
<1>3. /\ \A i \in Ids : metaFile'[i] = metaFile[i] \/ i = cur.id
      /\ metaFile'[cur.id] \in {metaFile[cur.id], Partial, Empty, new}
  BY <1>1, <1>2 DEF ValueInv, Inv, TypeOK, DiskOK
<1>4. life[cur.id] # "unborn"
  BY <1>1 DEF ValueInv, BornOK
<1>5. \/ UNCHANGED <<stored, offered>>
      \/ /\ stored' = [stored EXCEPT ![cur.id] = cur.val]
         /\ offered' = [offered EXCEPT ![cur.id] = {cur.val}]
  BY DEF WriteMetadata
<1>6. /\ \A i \in Ids \ {cur.id} : stored'[i] = stored[i] /\ offered'[i] = offered[i]
      /\ stored'[cur.id] \in {stored[cur.id], cur.val}
      /\ cur.val \in offered'[cur.id]
  BY <1>1, <1>5 DEF ValueInv, Inv, TypeOK, HistoryOK
<1>7. FreshOK' /\ AckedValueKept'
  <2>1. \A i \in Ids \ {cur.id} : valFile[i] \in Sealed => valFile'[i].val \in offered'[i]
    BY <1>2, <1>6 DEF ValueInv, FreshOK
  <2>2. FreshOK'
    BY <1>1, <1>2, <1>6, <2>1 DEF FreshOK
  <2>3. AckedValueKept'
    BY <1>1, <1>2, <1>6 DEF ValueInv, AckedValueKept
  <2> QED BY <2>2, <2>3
<1>8. pc' \notin Writes /\ todo' \subseteq todo
  <2>1. CASE Die
    BY <2>1, Ends
  <2>2. CASE Abandon
    BY <2>2, AbandonEnds
  <2>3. CASE Return("ok")
    BY <2>3, Ends
  <2>4. CASE Proceed("reseal") /\ UNCHANGED <<todo, tries>>
    BY <2>4, Ends DEF Steps, Writes
  <2> QED BY <2>1, <2>2, <2>3, <2>4 DEF WriteMetadata
<1>9. cur' = Nil
  BY <1>8 DEF Inv, LockOK
<1>10. \/ items' = [items EXCEPT ![cur.id] = cur.val]
       \/ UNCHANGED <<items, stored>>
       \/ items' = [i \in Ids |-> Absent]
  BY Ends DEF WriteMetadata, memory
<1>11. \A i \in Ids : \/ items'[i] = Absent
                      \/ i # cur.id /\ items'[i] = items[i]
                      \/ i = cur.id /\ items'[i] = cur.val
                      \/ i = cur.id /\ items'[i] = items[i] /\ stored'[i] = stored[i]
  BY <1>10 DEF ValueInv, Inv, TypeOK, MemoryOK
<1>12. BornOK'
  BY <1>2, <1>3, <1>4, <1>6, <1>8, <1>9, <1>11 DEF ValueInv, BornOK
<1>13. ShownOK'
  <2>1. ASSUME NEW i \in Ids \ {cur.id}, stored'[i] # Nil
        PROVE  items'[i] # Nil /\ (metaFile'[i] \in Metadata => metaFile'[i].sum # Nil)
    BY <1>3, <1>6, <1>11, <2>1, MarksDistinct DEF ValueInv, ShownOK
  <2>2. ASSUME stored'[cur.id] # Nil
        PROVE  items'[cur.id] # Nil
    BY <1>1, <1>11, <2>2, MarksDistinct DEF ValueInv, ShownOK
  <2>3. ASSUME stored'[cur.id] # Nil, metaFile'[cur.id] \in Metadata
        PROVE  metaFile'[cur.id].sum # Nil
    <3>1. CASE metaFile'[cur.id] = new
      BY <1>1, <3>1
    <3>2. CASE metaFile'[cur.id] = metaFile[cur.id] /\ UNCHANGED stored
      BY <1>1, <2>3, <3>2 DEF ValueInv, ShownOK
    <3>3. \/ metaFile'[cur.id] \in {Partial, Empty, new}
          \/ metaFile'[cur.id] = metaFile[cur.id] /\ UNCHANGED stored
      BY <1>1 DEF WriteMetadata, Contents, ValueInv, Inv, TypeOK, DiskOK
    <3> QED BY <2>3, <3>1, <3>2, <3>3, MarksDistinct
  <2> QED BY <2>1, <2>2, <2>3 DEF ShownOK
<1> QED BY <1>7, <1>8, <1>12, <1>13 DEF ValueInv, WriteOK

LEMMA DeleteItemValue ==
    ASSUME ValueInv, Inv', NEW id \in Ids, DeleteItem(id)
    PROVE  ValueInv'
<1>1. CASE Refuse("error")
  BY <1>1, RefuseQuiet
<1>2. CASE /\ life' = [life EXCEPT ![id] = IF @ = "created" THEN "deleted" ELSE @]
           /\ stored' = [stored EXCEPT ![id] = Nil] /\ Return("ok")
           /\ UNCHANGED <<memory, disk, offered>>
  <2>1. pc' \notin Writes /\ todo' = {}
    BY <1>2, Ends
  <2>2. cur' = Nil
    BY <2>1 DEF Inv, LockOK
  <2>3. \A i \in Ids : /\ stored'[i] \in {stored[i], Nil}
                       /\ life'[i] = "unborn" => life[i] = "unborn"
    BY <1>2 DEF ValueInv, Inv, TypeOK, HistoryOK
  <2>4. BornOK' /\ ShownOK'
    BY <1>2, <2>1, <2>2, <2>3 DEF ValueInv, BornOK, ShownOK, memory, disk
  <2>5. WriteOK' /\ FreshOK' /\ AckedValueKept'
    BY <1>2, <2>1, <2>3 DEF ValueInv, WriteOK, FreshOK, AckedValueKept, disk
  <2> QED BY <2>4, <2>5 DEF ValueInv
<1>3. CASE /\ items[id] # Absent
           /\ items' = [items EXCEPT ![id] = Absent]
           /\ \E c \in Remains(metaFile[id]) :
                metaFile' = [metaFile EXCEPT ![id] = c]
           /\ stored' = [stored EXCEPT ![id] = Nil]
           /\ todo' = {id} /\ Proceed("deleteValue")
           /\ UNCHANGED <<valFile, backups, life, offered>>
  <2>1. pc' \notin Writes
    BY <1>3, Ends DEF Steps, Writes
  <2>2. cur' = Nil
    BY <2>1 DEF Inv, LockOK
  <2>3. life[id] # "unborn"
    BY <1>3 DEF ValueInv, BornOK
  <2>4. \A i \in Ids : /\ stored'[i] \in {stored[i], Nil}
                       /\ items'[i] \in {items[i], Absent}
                       /\ metaFile'[i] \in {metaFile[i], Absent}
    BY <1>3 DEF ValueInv, Inv, TypeOK, HistoryOK, DiskOK, MemoryOK, Remains
  <2>5. BornOK'
    BY <1>3, <2>2, <2>3, <2>4 DEF ValueInv, BornOK
  <2>6. ShownOK'
    BY <2>4, MarksDistinct DEF ValueInv, ShownOK
  <2>7. WriteOK' /\ FreshOK' /\ AckedValueKept'
    BY <1>3, <2>1, <2>4 DEF ValueInv, WriteOK, FreshOK, AckedValueKept
  <2> QED BY <2>5, <2>6, <2>7 DEF ValueInv
<1> QED BY <1>1, <1>2, <1>3 DEF DeleteItem

-----------------------------------------------------------------------------
(* The item being deleted has no acknowledged value any more.               *)
GoneOK == pc = "deleteValue" => \A i \in todo : stored[i] = Nil

LEMMA GoneNext == Inv /\ GoneOK /\ [Next]_vars => GoneOK'
<1> SUFFICES ASSUME Inv, GoneOK, [Next]_vars, pc' = "deleteValue"
             PROVE  \A i \in todo' : stored'[i] = Nil
  BY DEF GoneOK
<1>1. ASSUME NEW id \in Ids, DeleteItem(id) PROVE \A i \in todo' : stored'[i] = Nil
  <2>1. todo' = {id} /\ stored' = [stored EXCEPT ![id] = Nil]
    BY <1>1 DEF DeleteItem, Refuse, Return
  <2> QED BY <2>1 DEF Inv, TypeOK, HistoryOK
<1>2. CASE UNCHANGED vars
  BY <1>2 DEF GoneOK, vars, call, history
<1>3. CASE NewVault \/ Crash
  BY <1>3 DEF NewVault, Crash, Die, Return, Inv, LockOK, call
<1>4. CASE Begin /\ ~\E id \in Ids : DeleteItem(id)
  BY <1>4 DEF Begin, Unlock, Lock, CreateItem, GetItem, SetItemValue,
     SetRecoveryRecipient, Refuse, Die, Return, Proceed, FirstStep
<1>5. CASE Continue
  BY <1>5 DEF Continue, VerifyIdentity, GenerateIdentity, LoadItems, BackupValue,
     WriteValue, WriteMetadata, DeleteValue, RestoreRecipient, ReloadMetadata,
     FinishRecovery, ResealItem, Abandon, Die, Return, Proceed, FirstStep
<1> QED BY <1>1, <1>2, <1>3, <1>4, <1>5 DEF Next

LEMMA DeleteValueValue ==
    ASSUME ValueInv, GoneOK, Inv', DeleteValue
    PROVE  ValueInv'
<1>1. PICK id \in todo :
        /\ \E c \in Remains(valFile[id]) : valFile' = [valFile EXCEPT ![id] = c]
        /\ life' = [life EXCEPT ![id] = "deleted"]
  BY DEF DeleteValue
<1>2. UNCHANGED <<items, metaFile, backups, stored, offered>>
  BY DEF DeleteValue, memory
<1>3. pc' \notin Writes /\ todo' = {}
  BY Ends DEF DeleteValue
<1>4. cur' = Nil
  BY <1>3 DEF Inv, LockOK
<1>5. pc = "deleteValue" /\ id \in Ids
  BY DEF DeleteValue, ValueInv, Inv, TypeOK, CallOK
<1>6. \A i \in Ids : /\ life'[i] = "unborn" => life[i] = "unborn"
                     /\ i # id => valFile'[i] = valFile[i]
  BY <1>1, <1>5 DEF ValueInv, Inv, TypeOK, HistoryOK, DiskOK
<1>7. valFile'[id] \in {valFile[id], Absent}
  BY <1>1, <1>5 DEF ValueInv, Inv, TypeOK, DiskOK, Remains
<1>8. BornOK' /\ ShownOK'
  BY <1>2, <1>3, <1>4, <1>6 DEF ValueInv, BornOK, ShownOK
<1>9. FreshOK'
  BY <1>2, <1>6, <1>7, MarksDistinct DEF ValueInv, FreshOK
<1>10. AckedValueKept'
  BY <1>2, <1>5, <1>6 DEF ValueInv, AckedValueKept, GoneOK
<1> QED BY <1>3, <1>8, <1>9, <1>10 DEF ValueInv, WriteOK

LEMMA ResealItemValue ==
    ASSUME ValueInv, Inv', NEW id \in Ids, ResealItem(id)
    PROVE  ValueInv'
<1>1. UNCHANGED <<metaFile, valFile, backups, life, stored, offered>>
  BY DEF ResealItem, disk, history
<1>2. CASE Die
  BY <1>1, <1>2, DieQuiet
<1>3. CASE todo' = Rest(id) /\ Proceed("reseal") /\ UNCHANGED <<up, memory>>
  BY <1>1, <1>3, Ends, Quiet DEF Rest, memory, Steps, Writes
<1>4. ASSUME "ok" \in ReadOutcomes(id, metaFile[id].sum),
             cur' = [id |-> id, val |-> Plaintext(id),
                     caller |-> "SetRecoveryRecipient"],
             todo' = Rest(id), Proceed(FirstStep(metaFile[id].sum)),
             UNCHANGED <<up, memory, tries>>
      PROVE  ValueInv'
  <2>1. /\ valFile[id] \in Sealed /\ valFile[id].val = metaFile[id].sum
        /\ valFile[id].val \in Values
    BY <1>4 DEF ReadOutcomes, Sealed
  <2>2. pc' = "backup"
    BY <1>4, <2>1, MarksDistinct DEF FirstStep, Proceed
  <2>3. WriteOK'
    BY <1>1, <1>4, <2>1, <2>2 DEF WriteOK, ValueInv, FreshOK, Plaintext
  <2>4. BornOK'
    BY <1>1, <1>4 DEF ValueInv, BornOK, ResealItem, Rest, memory
  <2>5. ShownOK' /\ FreshOK' /\ AckedValueKept'
    BY <1>1, <1>4 DEF ValueInv, ShownOK, FreshOK, AckedValueKept, memory
  <2> QED BY <2>3, <2>4, <2>5 DEF ValueInv
<1> QED BY <1>2, <1>3, <1>4 DEF ResealItem
-----------------------------------------------------------------------------
LEMMA ValueNext == ValueInv /\ GoneOK /\ [Next]_vars => ValueInv'
<1> SUFFICES ASSUME ValueInv, GoneOK, [Next]_vars PROVE ValueInv'
  OBVIOUS
<1>1. Inv'
  BY NextInv DEF ValueInv
<1>2. CASE NewVault \/ Crash
  BY <1>1, <1>2, QuietSteps
<1>3. CASE Begin
  BY <1>1, <1>3, QuietSteps, CreateItemValue, SetItemValueValue, DeleteItemValue
     DEF Begin
<1>4. CASE Continue
  BY <1>1, <1>4, QuietSteps, ReadSteps, BackupValueValue, WriteValueValue,
     WriteMetadataValue, DeleteValueValue, ResealItemValue DEF Continue
<1>5. CASE UNCHANGED vars
  BY <1>1, <1>5 DEF vars, memory, disk, call, history, ValueInv, BornOK, ShownOK,
     WriteOK, FreshOK, AckedValueKept
<1> QED BY <1>2, <1>3, <1>4, <1>5 DEF Next

LEMMA ValueInvHolds == Spec => []ValueInv
<1>1. Init => ValueInv /\ GoneOK
  BY InitInv, MarksDistinct
     DEF Init, NoItems, ValueInv, BornOK, ShownOK, WriteOK, FreshOK, Writes,
     AckedValueKept, GoneOK
<1>2. (ValueInv /\ GoneOK) /\ [Next]_vars => (ValueInv /\ GoneOK)'
  BY ValueNext, GoneNext DEF ValueInv
<1> QED BY <1>1, <1>2, PTL DEF Spec

(* Under every set of faults: the last acknowledged value of an item is in  *)
(* its value file or in a backup, whatever write was cut short since.       *)
THEOREM AcknowledgedValueKept == Spec => []AckedValueKept
<1>1. ValueInv => AckedValueKept
  BY DEF ValueInv
<1> QED BY <1>1, ValueInvHolds, PTL

(* Under every set of faults: what GetItem can return is the last           *)
(* acknowledged value or one written since, never an overwritten one.       *)
THEOREM ReadsAreFresh == Spec => []NoStaleRead
<1>1. ValueInv => NoStaleRead
  BY DEF ValueInv, FreshOK, NoStaleRead
<1> QED BY <1>1, ValueInvHolds, PTL
=============================================================================
