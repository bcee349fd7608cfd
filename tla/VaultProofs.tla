---------------------------- MODULE VaultProofs ----------------------------
(***************************************************************************)
(* Type correctness of Vault for every value of its constants.  TypeOK is  *)
(* inductive together with LockOK, which says what the operation that      *)
(* holds v.lock can rely on; VaultSafetyProofs builds on the two.          *)
(***************************************************************************)
EXTENDS Vault, TLAPS

Writes == {"backup", "value", "metadata"}
Unlocked == {"load", "restore", "reload", "reseal", "deleteValue"} \cup Writes

LockOK ==
    /\ pc # "idle" => up
    /\ pc \in Writes <=> cur # Nil
    /\ pc = "identity" => identityKey # Nil /\ primary = Nil
    /\ pc \in Unlocked => primary # Nil
    /\ pc = "restore" => recovery # Nil /\ tries # 0
    /\ primary # Nil => identityKey # Nil
    /\ \A i \in Ids : items[i] # Absent => primary # Nil

Inv == TypeOK /\ LockOK
-----------------------------------------------------------------------------
(* The ends of a step keep the types of what they assign.                   *)

LEMMA DieOK == ASSUME Die PROVE up' \in BOOLEAN /\ MemoryOK' /\ CallOK' /\ LockOK'
<1>1. up' \in BOOLEAN
  BY DEF Die
<1>2. MemoryOK'
  BY DEF Die, Forget, NoItems, MemoryOK
<1>3. CallOK'
  BY DEF Die, Return, CallOK, Steps
<1>4. LockOK'
  BY DEF Die, Return, Forget, NoItems, LockOK, Writes, Unlocked
<1> QED BY <1>1, <1>2, <1>3, <1>4

LEMMA ReturnOK == ASSUME NEW r \in {"none", "ok", "error"}, Return(r) PROVE CallOK'
BY DEF Return, CallOK, Steps

LEMMA RefuseOK ==
    ASSUME Inv, NEW r \in {"ok", "error"}, Refuse(r)
    PROVE  Inv'
<1>1. up' \in BOOLEAN /\ MemoryOK' /\ DiskOK' /\ HistoryOK'
  BY DEF Inv, Refuse, TypeOK, MemoryOK, DiskOK, HistoryOK, memory, disk, history
<1>2. CallOK'
  BY ReturnOK DEF Refuse
<1>3. LockOK'
  BY DEF Inv, Refuse, Return, LockOK, Writes, Unlocked, memory
<1> QED BY <1>1, <1>2, <1>3 DEF Inv, TypeOK

LEMMA InitInv == Init => Inv
<1> SUFFICES ASSUME Init PROVE Inv
  OBVIOUS
<1>1. up \in BOOLEAN
  BY DEF Init
<1>2. MemoryOK
  BY DEF Init, NoItems, MemoryOK
<1>3. DiskOK
  BY DEF Init, DiskOK
<1>4. CallOK /\ HistoryOK
  BY DEF Init, Steps, CallOK, HistoryOK
<1>5. LockOK
  BY DEF Init, LockOK, NoItems, Writes, Unlocked
<1> QED BY <1>1, <1>2, <1>3, <1>4, <1>5 DEF Inv, TypeOK
-----------------------------------------------------------------------------
(* One lemma per action.                                                    *)

LEMMA NewVaultInv == ASSUME Inv, NewVault PROVE Inv'
<1>1. up' \in BOOLEAN
  BY DEF NewVault
<1>2. MemoryOK'
  BY DEF Inv, TypeOK, NewVault, MemoryOK, DiskOK, LoadRecoveryRecipient
<1>3. DiskOK' /\ CallOK' /\ HistoryOK'
  BY DEF Inv, TypeOK, NewVault, DiskOK, CallOK, HistoryOK, disk, call, history
<1>4. LockOK'
  BY DEF Inv, NewVault, LockOK, call
<1> QED BY <1>1, <1>2, <1>3, <1>4 DEF Inv, TypeOK

LEMMA CrashInv == ASSUME Inv, Crash PROVE Inv'
<1>1. DiskOK' /\ HistoryOK'
  BY DEF Inv, TypeOK, Crash, DiskOK, HistoryOK, disk, history
<1> QED BY <1>1, DieOK DEF Inv, TypeOK, Crash

LEMMA UnlockInv == ASSUME Inv, NEW p \in Passphrases, Unlock(p) PROVE Inv'
<1>1. CASE Refuse("ok")
  BY <1>1, RefuseOK
<1>2. CASE /\ Idle /\ IsLocked
           /\ identityKey' = p /\ Proceed("identity")
           /\ UNCHANGED <<up, primary, recovery, items, disk, cur, todo, tries,
                          history>>
  <2>1. up' \in BOOLEAN /\ MemoryOK' /\ DiskOK' /\ HistoryOK'
    BY <1>2 DEF Inv, TypeOK, MemoryOK, DiskOK, HistoryOK, disk, history
  <2>2. CallOK'
    BY <1>2 DEF Inv, TypeOK, CallOK, Proceed, Steps
  <2>3. LockOK'
    BY <1>2, MarksDistinct DEF Inv, Idle, IsLocked, Proceed, LockOK, Writes, Unlocked
  <2> QED BY <2>1, <2>2, <2>3 DEF Inv, TypeOK
<1> QED BY <1>1, <1>2 DEF Unlock

LEMMA VerifyIdentityInv == ASSUME Inv, VerifyIdentity PROVE Inv'
<1>1. DiskOK' /\ HistoryOK'
  BY DEF Inv, TypeOK, VerifyIdentity, DiskOK, HistoryOK, disk, history
<1>2. CASE /\ IdentityOpens /\ primary' = idFile.ident /\ Proceed("load")
           /\ UNCHANGED <<up, identityKey, recovery, items, cur, todo, tries>>
  <2>1. up' \in BOOLEAN /\ MemoryOK'
    BY <1>2 DEF Inv, TypeOK, MemoryOK, DiskOK, IdentityOpens, IdentityFile
  <2>2. CallOK'
    BY <1>2 DEF Inv, TypeOK, CallOK, Proceed, Steps
  <2>3. idFile.ident # Nil
    BY <1>2, MarksDistinct DEF IdentityOpens, IdentityFile
  <2>4. LockOK'
    BY <1>2, <2>3 DEF Inv, VerifyIdentity, Proceed, LockOK, Writes, Unlocked
  <2> QED BY <1>1, <2>1, <2>2, <2>4 DEF Inv, TypeOK
<1>3. CASE /\ identityKey' = Nil /\ Return("error")
           /\ UNCHANGED <<up, primary, recovery, items>>
  <2>1. up' \in BOOLEAN /\ MemoryOK'
    BY <1>3 DEF Inv, TypeOK, MemoryOK
  <2>2. CallOK'
    BY <1>3, ReturnOK
  <2>3. LockOK'
    BY <1>3 DEF Inv, VerifyIdentity, Return, LockOK, Writes, Unlocked
  <2> QED BY <1>1, <2>1, <2>2, <2>3 DEF Inv, TypeOK
<1>4. CASE Die
  BY <1>1, <1>4, DieOK DEF Inv, TypeOK
<1> QED BY <1>2, <1>3, <1>4 DEF VerifyIdentity

LEMMA GenerateIdentityInv ==
    ASSUME Inv, NEW ident \in Identities, GenerateIdentity(ident)
    PROVE  Inv'
<1>1. HistoryOK'
  BY DEF Inv, TypeOK, GenerateIdentity, HistoryOK, history
<1>2. [key |-> identityKey, ident |-> ident] \in IdentityFile
  BY DEF Inv, TypeOK, GenerateIdentity, LockOK, MemoryOK, IdentityFile
<1>3. DiskOK'
  BY <1>2 DEF Inv, TypeOK, GenerateIdentity, DiskOK, Contents
<1>4. CASE /\ primary' = ident /\ Proceed("load")
           /\ UNCHANGED <<up, identityKey, recovery, items, cur, todo, tries>>
  <2>1. up' \in BOOLEAN /\ MemoryOK'
    BY <1>4 DEF Inv, TypeOK, MemoryOK
  <2>2. CallOK'
    BY <1>4 DEF Inv, TypeOK, CallOK, Proceed, Steps
  <2>3. LockOK'
    BY <1>4, MarksDistinct
       DEF Inv, GenerateIdentity, Proceed, LockOK, Writes, Unlocked
  <2> QED BY <1>1, <1>3, <2>1, <2>2, <2>3 DEF Inv, TypeOK
<1>5. CASE Return("error") /\ UNCHANGED <<up, memory>>
  <2>1. up' \in BOOLEAN /\ MemoryOK'
    BY <1>5 DEF Inv, TypeOK, MemoryOK, memory
  <2>2. CallOK'
    BY <1>5, ReturnOK
  <2>3. LockOK'
    BY <1>5 DEF Inv, GenerateIdentity, Return, LockOK, Writes, Unlocked, memory
  <2> QED BY <1>1, <1>3, <2>1, <2>2, <2>3 DEF Inv, TypeOK
<1>6. CASE Die
  BY <1>1, <1>3, <1>6, DieOK DEF Inv, TypeOK
<1> QED BY <1>4, <1>5, <1>6 DEF GenerateIdentity

LEMMA LoadItemsInv == ASSUME Inv, LoadItems PROVE Inv'
<1>1. DiskOK' /\ HistoryOK'
  BY DEF Inv, TypeOK, LoadItems, DiskOK, HistoryOK, disk, history
<1>2. CASE Forget /\ Return("error") /\ UNCHANGED <<up, recovery>>
  <2>1. up' \in BOOLEAN /\ MemoryOK'
    BY <1>2 DEF Inv, TypeOK, MemoryOK, Forget, NoItems
  <2>2. CallOK'
    BY <1>2, ReturnOK
  <2>3. LockOK'
    BY <1>2 DEF Inv, Return, Forget, NoItems, LockOK, Writes, Unlocked
  <2> QED BY <1>1, <2>1, <2>2, <2>3 DEF Inv, TypeOK
<1>3. ASSUME NEW bad \in SUBSET Ids,
             items' = [i \in Ids |-> IF i \in Legible \ bad
                                     THEN metaFile[i].sum ELSE Absent],
             Return("ok"), UNCHANGED <<up, identityKey, primary, recovery>>
      PROVE  Inv'
  <2>1. up' \in BOOLEAN /\ MemoryOK'
    BY <1>3 DEF Inv, TypeOK, MemoryOK, DiskOK, Legible, Metadata
  <2>2. CallOK'
    BY <1>3, ReturnOK
  <2>3. primary # Nil /\ identityKey # Nil
    BY DEF Inv, LoadItems, LockOK, Unlocked
  <2>4. LockOK'
    BY <1>3, <2>3 DEF Return, LockOK, Writes, Unlocked
  <2> QED BY <1>1, <2>1, <2>2, <2>4 DEF Inv, TypeOK
<1>4. CASE Die
  BY <1>1, <1>4, DieOK DEF Inv, TypeOK
<1> QED BY <1>2, <1>3, <1>4 DEF LoadItems, Unreadable

LEMMA LockInv == ASSUME Inv, Lock PROVE Inv'
<1>1. CASE Refuse("error")
  BY <1>1, RefuseOK
<1>2. CASE Forget /\ Return("ok") /\ UNCHANGED <<up, recovery, disk, history>>
  <2>1. up' \in BOOLEAN /\ MemoryOK' /\ DiskOK' /\ HistoryOK'
    BY <1>2 DEF Inv, TypeOK, MemoryOK, DiskOK, HistoryOK, disk, history, Forget,
       NoItems
  <2>2. CallOK'
    BY <1>2, ReturnOK
  <2>3. LockOK'
    BY <1>2 DEF Inv, Return, Forget, NoItems, LockOK, Writes, Unlocked
  <2> QED BY <2>1, <2>2, <2>3 DEF Inv, TypeOK
<1> QED BY <1>1, <1>2 DEF Lock

LEMMA CreateItemInv == ASSUME Inv, NEW id \in Ids, CreateItem(id) PROVE Inv'
<1>1. CASE Refuse("error")
  BY <1>1, RefuseOK
<1>2. CASE Die /\ UNCHANGED <<disk, history>>
  BY <1>2, DieOK DEF Inv, TypeOK, DiskOK, HistoryOK, disk, history
<1>3. ASSUME primary # Nil, NEW o \in WriteOutcomes,
             life' = [life EXCEPT ![id] = IF o = "ok" THEN "created" ELSE "lost"],
             NEW c \in Contents(Absent, [sum |-> Nil, by |-> primary],
                                {Partial, Empty}, o),
             metaFile' = [metaFile EXCEPT ![id] = c],
             UNCHANGED <<idFile, recFile, valFile, backups, stored, offered,
                         confirmed>>,
             \/ /\ items' = [items EXCEPT ![id] = Nil] /\ Return("ok")
                /\ UNCHANGED <<up, identityKey, primary, recovery>>
             \/ Return("error") /\ UNCHANGED <<up, memory>>
             \/ Die
      PROVE  Inv'
  <2>1. HistoryOK'
    BY <1>3 DEF Inv, TypeOK, HistoryOK
  <2>2. c \in Metadata \cup {Absent, Partial, Empty}
    BY <1>3 DEF Inv, TypeOK, MemoryOK, Metadata, Contents
  <2>3. DiskOK'
    BY <1>3, <2>2 DEF Inv, TypeOK, DiskOK
  <2>4. CASE Die
    BY <2>1, <2>3, <2>4, DieOK DEF Inv, TypeOK
  <2>5. ASSUME \/ /\ items' = [items EXCEPT ![id] = Nil] /\ Return("ok")
                  /\ UNCHANGED <<up, identityKey, primary, recovery>>
               \/ Return("error") /\ UNCHANGED <<up, memory>>
        PROVE  Inv'
    <3>1. up' \in BOOLEAN /\ MemoryOK'
      BY <2>5 DEF Inv, TypeOK, MemoryOK, memory
    <3>2. CallOK'
      BY <2>5, ReturnOK
    <3>3. LockOK'
      BY <1>3, <2>5 DEF Inv, Return, LockOK, Writes, Unlocked, memory
    <3> QED BY <2>1, <2>3, <3>1, <3>2, <3>3 DEF Inv, TypeOK
  <2> QED BY <1>3, <2>4, <2>5
<1> QED BY <1>1, <1>2, <1>3 DEF CreateItem

LEMMA SetItemValueInv ==
    ASSUME Inv, NEW id \in Ids, NEW v \in Values \cup {Nil}, SetItemValue(id, v)
    PROVE  Inv'
<1>1. CASE Refuse("error")
  BY <1>1, RefuseOK
<1>2. CASE /\ Idle /\ v # Nil /\ items[id] # Absent
           /\ cur' = [id |-> id, val |-> v, caller |-> "SetItemValue"]
           /\ Proceed(FirstStep(items[id]))
           /\ offered' = [offered EXCEPT ![id] = @ \cup {v}]
           /\ UNCHANGED <<up, memory, disk, todo, tries, life, stored, confirmed>>
  <2>1. up' \in BOOLEAN /\ MemoryOK' /\ DiskOK'
    BY <1>2 DEF Inv, TypeOK, MemoryOK, DiskOK, memory, disk
  <2>2. HistoryOK'
    BY <1>2 DEF Inv, TypeOK, HistoryOK
  <2>3. cur' \in Writing
    BY <1>2 DEF Writing, Callers
  <2>4. pc' \in Writes /\ result' = "none"
    BY <1>2 DEF Proceed, FirstStep, Writes
  <2>5. CallOK'
    BY <1>2, <2>3, <2>4 DEF Inv, TypeOK, CallOK, Steps, Writes
  <2>6. cur' # Nil
    BY <2>3, MarksDistinct
  <2>7. LockOK'
    BY <1>2, <2>4, <2>6 DEF Inv, Idle, LockOK, Writes, Unlocked, memory
  <2> QED BY <2>1, <2>2, <2>5, <2>7 DEF Inv, TypeOK
<1> QED BY <1>1, <1>2 DEF SetItemValue

(* writeItemValueUnsafe's error path.                                       *)
LEMMA AbandonOK ==
    ASSUME Inv, pc \in Writes, Abandon, UNCHANGED <<up, memory>>
    PROVE  up' \in BOOLEAN /\ MemoryOK' /\ CallOK' /\ LockOK'
<1>1. up' \in BOOLEAN /\ MemoryOK'
  BY DEF Inv, TypeOK, MemoryOK, memory
<1>2. primary # Nil /\ up
  BY DEF Inv, LockOK, Unlocked, Writes
<1>3. CASE Return("error")
  <2>1. LockOK'
    BY <1>2, <1>3 DEF Inv, Return, LockOK, Writes, Unlocked, memory
  <2> QED BY <1>1, <1>3, <2>1, ReturnOK
<1>4. CASE Proceed("reseal") /\ cur' = Nil /\ UNCHANGED <<todo, tries>>
  <2>1. CallOK'
    BY <1>4 DEF Inv, TypeOK, CallOK, Proceed, Steps
  <2>2. LockOK'
    BY <1>2, <1>4 DEF Inv, Proceed, LockOK, Writes, Unlocked, memory
  <2> QED BY <1>1, <2>1, <2>2
<1> QED BY <1>3, <1>4 DEF Abandon

(* The next write of the same value.                                        *)
LEMMA AdvanceOK ==
    ASSUME Inv, pc \in Writes, NEW s \in Writes, Proceed(s),
           UNCHANGED <<up, memory, cur, todo, tries>>
    PROVE  up' \in BOOLEAN /\ MemoryOK' /\ CallOK' /\ LockOK'
<1>1. up' \in BOOLEAN /\ MemoryOK'
  BY DEF Inv, TypeOK, MemoryOK, memory
<1>2. CallOK'
  BY DEF Inv, TypeOK, CallOK, Proceed, Steps, Writes
<1>3. LockOK'
  BY DEF Inv, Proceed, LockOK, Writes, Unlocked, memory
<1> QED BY <1>1, <1>2, <1>3

LEMMA WritingFacts ==
    ASSUME Inv, pc \in Writes
    PROVE  /\ cur \in Writing /\ cur.id \in Ids /\ cur.val \in Values
           /\ primary \in Identities /\ up
<1>1. cur \in Writing /\ primary # Nil /\ up
  BY DEF Inv, TypeOK, CallOK, LockOK, Writes, Unlocked
<1> QED BY <1>1 DEF Inv, TypeOK, MemoryOK, Writing

LEMMA BackupValueInv == ASSUME Inv, BackupValue PROVE Inv'
<1>1. pc \in Writes /\ UNCHANGED <<up, memory>>
  BY DEF BackupValue, Writes
<1>2. cur.id \in Ids
  BY <1>1, WritingFacts
<1>3. HistoryOK'
  BY DEF Inv, TypeOK, BackupValue, HistoryOK, history
<1>4. DiskOK'
  <2>1. ASSUME valFile[cur.id] \in Sealed PROVE valFile[cur.id].val \in Values
    BY <2>1 DEF Sealed
  <2> QED BY <1>2, <2>1 DEF Inv, TypeOK, BackupValue, DiskOK
<1>5. CASE Abandon
  BY <1>1, <1>3, <1>4, <1>5, AbandonOK DEF Inv, TypeOK
<1>6. CASE Proceed("value") /\ UNCHANGED <<cur, todo, tries>>
  <2>1. "value" \in Writes
    BY DEF Writes
  <2> QED BY <1>1, <1>3, <1>4, <1>6, <2>1, AdvanceOK DEF Inv, TypeOK
<1> QED BY <1>5, <1>6 DEF BackupValue

LEMMA WriteValueInv == ASSUME Inv, WriteValue PROVE Inv'
<1>1. pc \in Writes
  BY DEF WriteValue, Writes
<1>2. cur.id \in Ids /\ cur.val \in Values /\ primary \in Identities
  BY <1>1, WritingFacts
<1>3. HistoryOK'
  BY DEF Inv, TypeOK, WriteValue, HistoryOK, history
<1>4. DiskOK'
  <2>1. [val |-> cur.val, primary |-> primary, recovery |-> recovery] \in Sealed
    BY <1>2 DEF Inv, TypeOK, MemoryOK, Sealed
  <2> QED BY <1>2, <2>1 DEF Inv, TypeOK, WriteValue, DiskOK, Contents
<1>5. CASE Proceed("metadata") /\ UNCHANGED <<up, memory, cur, todo, tries>>
  <2>1. "metadata" \in Writes
    BY DEF Writes
  <2> QED BY <1>1, <1>3, <1>4, <1>5, <2>1, AdvanceOK DEF Inv, TypeOK
<1>6. CASE Abandon /\ UNCHANGED <<up, memory>>
  BY <1>1, <1>3, <1>4, <1>6, AbandonOK DEF Inv, TypeOK
<1>7. CASE Die
  BY <1>3, <1>4, <1>7, DieOK DEF Inv, TypeOK
<1> QED BY <1>5, <1>6, <1>7 DEF WriteValue

LEMMA WriteMetadataInv == ASSUME Inv, WriteMetadata PROVE Inv'
<1>1. pc \in Writes
  BY DEF WriteMetadata, Writes
<1>2. cur.id \in Ids /\ cur.val \in Values /\ primary \in Identities /\ up
  BY <1>1, WritingFacts
<1>3. HistoryOK'
  <2>1. UNCHANGED <<life, confirmed>>
    BY DEF WriteMetadata
  <2>2. \/ UNCHANGED <<stored, offered>>
        \/ /\ stored' = [stored EXCEPT ![cur.id] = cur.val]
           /\ offered' = [offered EXCEPT ![cur.id] = {cur.val}]
    BY DEF WriteMetadata
  <2> QED BY <1>2, <2>1, <2>2 DEF Inv, TypeOK, HistoryOK
<1>4. DiskOK'
  <2>1. [sum |-> cur.val, by |-> primary] \in Metadata
    BY <1>2 DEF Metadata
  <2> QED BY <1>2, <2>1 DEF Inv, TypeOK, WriteMetadata, DiskOK, Contents
<1>5. CASE /\ items' = [items EXCEPT ![cur.id] = cur.val]
           /\ UNCHANGED <<up, identityKey, primary, recovery>>
           /\ \/ Proceed("reseal") /\ cur' = Nil /\ UNCHANGED <<todo, tries>>
              \/ Return("ok")
  <2>1. up' \in BOOLEAN /\ MemoryOK'
    BY <1>2, <1>5 DEF Inv, TypeOK, MemoryOK
  <2>2. CallOK'
    <3>1. CASE Return("ok")
      BY <3>1, ReturnOK
    <3>2. CASE Proceed("reseal") /\ cur' = Nil /\ UNCHANGED <<todo, tries>>
      BY <3>2 DEF Inv, TypeOK, CallOK, Proceed, Steps
    <3> QED BY <1>5, <3>1, <3>2
  <2>3. primary # Nil
    BY <1>2, MarksDistinct
  <2>4. LockOK'
    BY <1>2, <1>5, <2>3
       DEF Inv, Proceed, Return, LockOK, Writes, Unlocked
  <2> QED BY <1>3, <1>4, <2>1, <2>2, <2>4 DEF Inv, TypeOK
<1>6. CASE Abandon /\ UNCHANGED <<up, memory>>
  BY <1>1, <1>3, <1>4, <1>6, AbandonOK DEF Inv, TypeOK
<1>7. CASE Die
  BY <1>3, <1>4, <1>7, DieOK DEF Inv, TypeOK
<1> QED BY <1>5, <1>6, <1>7 DEF WriteMetadata

LEMMA GetItemInv == ASSUME Inv, NEW id \in Ids, GetItem(id) PROVE Inv'
<1>1. CASE Refuse("error") \/ Refuse("ok")
  BY <1>1, RefuseOK
<1>2. CASE Die /\ UNCHANGED <<disk, history>>
  BY <1>2, DieOK DEF Inv, TypeOK, DiskOK, HistoryOK, disk, history
<1> QED BY <1>1, <1>2 DEF GetItem

LEMMA DeleteItemInv == ASSUME Inv, NEW id \in Ids, DeleteItem(id) PROVE Inv'
<1>1. CASE Refuse("error")
  BY <1>1, RefuseOK
<1>2. CASE /\ life' = [life EXCEPT ![id] = IF @ = "created" THEN "deleted" ELSE @]
           /\ stored' = [stored EXCEPT ![id] = Nil]
           /\ Return("ok")
           /\ UNCHANGED <<up, memory, disk, offered, confirmed>>
  <2>1. up' \in BOOLEAN /\ MemoryOK' /\ DiskOK'
    BY <1>2 DEF Inv, TypeOK, MemoryOK, DiskOK, memory, disk
  <2>2. HistoryOK'
    BY <1>2 DEF Inv, TypeOK, HistoryOK
  <2>3. CallOK'
    BY <1>2, ReturnOK
  <2>4. LockOK'
    BY <1>2 DEF Inv, Return, LockOK, Writes, Unlocked, memory
  <2> QED BY <2>1, <2>2, <2>3, <2>4 DEF Inv, TypeOK
<1>3. CASE /\ Idle /\ items[id] # Absent
           /\ items' = [items EXCEPT ![id] = Absent]
           /\ \E c \in Remains(metaFile[id]) :
                metaFile' = [metaFile EXCEPT ![id] = c]
           /\ stored' = [stored EXCEPT ![id] = Nil]
           /\ todo' = {id} /\ Proceed("deleteValue")
           /\ UNCHANGED <<up, identityKey, primary, recovery, idFile, recFile,
                          valFile, backups, cur, tries, life, offered, confirmed>>
  <2>1. up' \in BOOLEAN /\ MemoryOK'
    BY <1>3 DEF Inv, TypeOK, MemoryOK
  <2>2. DiskOK'
    BY <1>3 DEF Inv, TypeOK, DiskOK, Remains
  <2>3. HistoryOK'
    BY <1>3 DEF Inv, TypeOK, HistoryOK
  <2>4. CallOK'
    BY <1>3 DEF Inv, TypeOK, CallOK, Proceed, Steps
  <2>5. primary # Nil /\ up
    BY <1>3 DEF Inv, LockOK, Idle
  <2>6. LockOK'
    BY <1>3, <2>5 DEF Inv, Idle, Proceed, LockOK, Writes, Unlocked
  <2> QED BY <2>1, <2>2, <2>3, <2>4, <2>6 DEF Inv, TypeOK
<1> QED BY <1>1, <1>2, <1>3 DEF DeleteItem

LEMMA DeleteValueInv == ASSUME Inv, DeleteValue PROVE Inv'
<1>1. up' \in BOOLEAN /\ MemoryOK'
  BY DEF Inv, TypeOK, DeleteValue, MemoryOK, memory
<1>2. PICK id \in todo :
        /\ \E c \in Remains(valFile[id]) : valFile' = [valFile EXCEPT ![id] = c]
        /\ life' = [life EXCEPT ![id] = "deleted"]
  BY DEF DeleteValue
<1>3. id \in Ids
  BY DEF Inv, TypeOK, CallOK
<1>4. DiskOK'
  BY <1>2, <1>3 DEF Inv, TypeOK, DeleteValue, DiskOK, Remains
<1>5. HistoryOK'
  BY <1>2, <1>3 DEF Inv, TypeOK, DeleteValue, HistoryOK
<1>6. CallOK'
  BY ReturnOK DEF DeleteValue
<1>7. LockOK'
  BY DEF Inv, DeleteValue, Return, LockOK, Writes, Unlocked, memory
<1> QED BY <1>1, <1>4, <1>5, <1>6, <1>7 DEF Inv, TypeOK

LEMMA SetRecoveryRecipientInv ==
    ASSUME Inv, NEW r \in Recipients, SetRecoveryRecipient(r)
    PROVE  Inv'
<1>1. CASE Refuse("error")
  BY <1>1, RefuseOK
<1>2. CASE Die /\ UNCHANGED <<disk, history>>
  BY <1>2, DieOK DEF Inv, TypeOK, DiskOK, HistoryOK, disk, history
<1>3. ASSUME Idle, primary # Nil, NEW o \in WriteOutcomes,
             recFile' \in Contents(recFile, r, {Partial}, o),
             UNCHANGED <<idFile, metaFile, valFile, backups, life, stored,
                         offered>>,
             \/ /\ recovery' = r /\ confirmed' = Nil /\ Proceed("reload")
                /\ UNCHANGED <<up, identityKey, primary, items, cur, todo, tries>>
             \/ Return("error") /\ UNCHANGED <<up, memory, confirmed>>
             \/ /\ recovery # Nil /\ Proceed("restore") /\ tries' = 3
                /\ UNCHANGED <<up, memory, cur, todo, confirmed>>
             \/ Die /\ confirmed' = Nil
      PROVE  Inv'
  <2>1. DiskOK' /\ HistoryOK'
    BY <1>3 DEF Inv, TypeOK, DiskOK, HistoryOK, Contents
  <2>2. up
    BY <1>3 DEF Idle
  <2>3. CASE /\ recovery' = r /\ Proceed("reload")
             /\ UNCHANGED <<up, identityKey, primary, items, cur, todo, tries>>
    <3>1. up' \in BOOLEAN /\ MemoryOK' /\ CallOK'
      BY <2>3 DEF Inv, TypeOK, MemoryOK, CallOK, Proceed, Steps
    <3>2. LockOK'
      BY <1>3, <2>2, <2>3 DEF Inv, Idle, Proceed, LockOK, Writes, Unlocked
    <3> QED BY <2>1, <3>1, <3>2 DEF Inv, TypeOK
  <2>4. CASE Return("error") /\ UNCHANGED <<up, memory>>
    <3>1. up' \in BOOLEAN /\ MemoryOK'
      BY <2>4 DEF Inv, TypeOK, MemoryOK, memory
    <3>2. CallOK'
      BY <2>4, ReturnOK
    <3>3. LockOK'
      BY <2>4 DEF Inv, Return, LockOK, Writes, Unlocked, memory
    <3> QED BY <2>1, <3>1, <3>2, <3>3 DEF Inv, TypeOK
  <2>5. CASE /\ recovery # Nil /\ Proceed("restore") /\ tries' = 3
             /\ UNCHANGED <<up, memory, cur, todo>>
    <3>1. up' \in BOOLEAN /\ MemoryOK' /\ CallOK'
      BY <2>5 DEF Inv, TypeOK, MemoryOK, CallOK, Proceed, Steps, memory
    <3>2. LockOK'
      BY <1>3, <2>2, <2>5
         DEF Inv, Idle, Proceed, LockOK, Writes, Unlocked, memory
    <3> QED BY <2>1, <3>1, <3>2 DEF Inv, TypeOK
  <2>6. CASE Die
    BY <2>1, <2>6, DieOK DEF Inv, TypeOK
  <2> QED BY <1>3, <2>3, <2>4, <2>5, <2>6
<1> QED BY <1>1, <1>2, <1>3 DEF SetRecoveryRecipient

LEMMA RestoreRecipientInv == ASSUME Inv, RestoreRecipient PROVE Inv'
<1>1. /\ recovery \in Recipients /\ tries \in 1..3 /\ pc = "restore" /\ up
      /\ primary # Nil
  BY DEF Inv, TypeOK, RestoreRecipient, MemoryOK, CallOK, LockOK, Unlocked
<1>2. DiskOK' /\ HistoryOK'
  BY <1>1 DEF Inv, TypeOK, RestoreRecipient, DiskOK, HistoryOK, Contents
<1>3. CASE Return("error") /\ UNCHANGED <<up, memory>>
  <2>1. up' \in BOOLEAN /\ MemoryOK'
    BY <1>3 DEF Inv, TypeOK, MemoryOK, memory
  <2>2. CallOK'
    BY <1>3, ReturnOK
  <2>3. LockOK'
    BY <1>3 DEF Inv, Return, LockOK, Writes, Unlocked, memory
  <2> QED BY <1>2, <2>1, <2>2, <2>3 DEF Inv, TypeOK
<1>4. CASE /\ ~LastTry /\ Proceed("restore") /\ tries' = tries - 1
           /\ UNCHANGED <<up, memory, cur, todo>>
  <2>1. tries' \in 1..2
    BY <1>1, <1>4 DEF LastTry
  <2>2. up' \in BOOLEAN /\ MemoryOK' /\ CallOK'
    BY <1>4, <2>1 DEF Inv, TypeOK, MemoryOK, CallOK, Proceed, Steps, memory
  <2>3. LockOK'
    BY <1>1, <1>4, <2>1 DEF Inv, Proceed, LockOK, Writes, Unlocked, memory
  <2> QED BY <1>2, <2>2, <2>3 DEF Inv, TypeOK
<1>5. CASE Die
  BY <1>2, <1>5, DieOK DEF Inv, TypeOK
<1> QED BY <1>3, <1>4, <1>5 DEF RestoreRecipient

LEMMA ReloadMetadataInv == ASSUME Inv, ReloadMetadata PROVE Inv'
<1>1. DiskOK' /\ HistoryOK'
  BY DEF Inv, TypeOK, ReloadMetadata, DiskOK, HistoryOK, disk, history
<1>2. CASE Return("error") /\ UNCHANGED <<up, memory>>
  <2>1. up' \in BOOLEAN /\ MemoryOK'
    BY <1>2 DEF Inv, TypeOK, MemoryOK, memory
  <2>2. CallOK'
    BY <1>2, ReturnOK
  <2>3. LockOK'
    BY <1>2 DEF Inv, Return, LockOK, Writes, Unlocked, memory
  <2> QED BY <1>1, <2>1, <2>2, <2>3 DEF Inv, TypeOK
<1>3. ASSUME NEW bad \in SUBSET Ids, todo' = Legible \ bad, Proceed("reseal"),
             UNCHANGED <<up, memory, cur, tries>>
      PROVE  Inv'
  <2>1. up' \in BOOLEAN /\ MemoryOK' /\ CallOK'
    BY <1>3 DEF Inv, TypeOK, MemoryOK, CallOK, Proceed, Steps, Legible, memory
  <2>2. LockOK'
    BY <1>3 DEF Inv, ReloadMetadata, Proceed, LockOK, Writes, Unlocked, memory
  <2> QED BY <1>1, <2>1, <2>2 DEF Inv, TypeOK
<1>4. CASE Die
  BY <1>1, <1>4, DieOK DEF Inv, TypeOK
<1> QED BY <1>2, <1>3, <1>4 DEF ReloadMetadata, Unreadable

LEMMA ResealItemInv == ASSUME Inv, NEW id \in Ids, ResealItem(id) PROVE Inv'
<1>1. DiskOK' /\ HistoryOK' /\ pc = "reseal"
  BY DEF Inv, TypeOK, ResealItem, DiskOK, HistoryOK, disk, history
<1>2. ASSUME "ok" \in ReadOutcomes(id, metaFile[id].sum),
             cur' = [id |-> id, val |-> Plaintext(id),
                     caller |-> "SetRecoveryRecipient"],
             todo' = Rest(id), Proceed(FirstStep(metaFile[id].sum)),
             UNCHANGED <<up, memory, tries>>
      PROVE  Inv'
  <2>1. Plaintext(id) \in Values
    BY <1>2 DEF ReadOutcomes, Sealed, Plaintext
  <2>2. cur' \in Writing /\ cur' # Nil
    BY <1>2, <2>1, MarksDistinct DEF Writing, Callers
  <2>3. pc' \in {"value", "backup"} /\ result' = "none" /\ todo' \subseteq todo
    BY <1>2 DEF Proceed, FirstStep, Rest
  <2>4. up' \in BOOLEAN /\ MemoryOK' /\ CallOK'
    BY <1>2, <2>2, <2>3 DEF Inv, TypeOK, MemoryOK, CallOK, Steps, memory
  <2>5. LockOK'
    BY <1>1, <1>2, <2>2, <2>3 DEF Inv, LockOK, Writes, Unlocked, memory
  <2> QED BY <1>1, <2>4, <2>5 DEF Inv, TypeOK
<1>3. CASE todo' = Rest(id) /\ Proceed("reseal") /\ UNCHANGED <<up, memory, cur, tries>>
  <2>1. up' \in BOOLEAN /\ MemoryOK' /\ CallOK'
    BY <1>3 DEF Inv, TypeOK, MemoryOK, CallOK, Proceed, Steps, Rest, memory
  <2>2. LockOK'
    BY <1>1, <1>3 DEF Inv, Proceed, LockOK, Writes, Unlocked, memory
  <2> QED BY <1>1, <2>1, <2>2 DEF Inv, TypeOK
<1>4. CASE Die
  BY <1>1, <1>4, DieOK DEF Inv, TypeOK
<1> QED BY <1>2, <1>3, <1>4 DEF ResealItem

LEMMA FinishRecoveryInv == ASSUME Inv, FinishRecovery PROVE Inv'
<1>1. up' \in BOOLEAN /\ MemoryOK' /\ DiskOK'
  BY DEF Inv, TypeOK, FinishRecovery, MemoryOK, DiskOK, memory, disk
<1>2. HistoryOK'
  BY DEF Inv, TypeOK, FinishRecovery, MemoryOK, HistoryOK
<1>3. CallOK'
  BY ReturnOK DEF FinishRecovery
<1>4. LockOK'
  BY DEF Inv, FinishRecovery, Return, LockOK, Writes, Unlocked, memory
<1> QED BY <1>1, <1>2, <1>3, <1>4 DEF Inv, TypeOK

LEMMA StutterInv == ASSUME Inv, UNCHANGED vars PROVE Inv'
BY DEF Inv, TypeOK, MemoryOK, DiskOK, CallOK, HistoryOK, LockOK, vars, memory,
       disk, call, history

LEMMA NextInv == Inv /\ [Next]_vars => Inv'
<1> SUFFICES ASSUME Inv, [Next]_vars PROVE Inv'
  OBVIOUS
<1>1. CASE NewVault \/ Crash
  BY <1>1, NewVaultInv, CrashInv
<1>2. CASE Begin
  BY <1>2, UnlockInv, LockInv, CreateItemInv, GetItemInv, DeleteItemInv,
     SetItemValueInv, SetRecoveryRecipientInv DEF Begin
<1>3. CASE Continue
  BY <1>3, VerifyIdentityInv, GenerateIdentityInv, LoadItemsInv, BackupValueInv,
     WriteValueInv, WriteMetadataInv, DeleteValueInv, RestoreRecipientInv,
     ReloadMetadataInv, FinishRecoveryInv, ResealItemInv DEF Continue
<1>4. CASE UNCHANGED vars
  BY <1>4, StutterInv
<1> QED BY <1>1, <1>2, <1>3, <1>4 DEF Next

LEMMA InvHolds == Spec => []Inv
<1>1. Init => Inv
  BY InitInv
<1>2. Inv /\ [Next]_vars => Inv'
  BY NextInv
<1> QED BY <1>1, <1>2, PTL DEF Spec

(* Every variable keeps its type: memory, files, the call in progress and   *)
(* what callers were told.                                                  *)
THEOREM TypeCorrect == Spec => []TypeOK
<1>1. Inv => TypeOK
  BY DEF Inv
<1> QED BY <1>1, InvHolds, PTL

=============================================================================
