------------------------ MODULE VaultRefinementProofs ------------------------
(***************************************************************************)
(* Over a backend that reports no errors, the index in memory is the one   *)
(* on disk, and the vault implements SecretStore, for every value of the   *)
(* constants: the process may die at any point.                            *)
(***************************************************************************)
EXTENDS VaultRefinement, VaultSafetyProofs, VaultValueProofs
-----------------------------------------------------------------------------
(* The inductive invariant.                                                 *)

OnlyCrashes == Faults \subseteq {"crash"}

(* Memory and metadata files list the same items, also during a call.       *)
IndexOK ==
    (primary # Nil /\ pc # "load") =>
        \A i \in Ids :
            items[i] = IF metaFile[i] \in Metadata THEN metaFile[i].sum ELSE Absent

(* The items still to be rewritten exist, the one being deleted does not.   *)
TodoOK == \A i \in todo : metaFile[i] \in Metadata <=> pc # "deleteValue"

(* The item being written exists, and is backed up only if it has a value.  *)
TargetOK ==
    pc \in Writes =>
        /\ metaFile[cur.id] \in Metadata
        /\ pc = "backup" => metaFile[cur.id].sum # Nil

(* The value file is written before the metadata and deleted after it.      *)
FileOK ==
    \A i \in Ids :
        (metaFile[i] \in Metadata /\ metaFile[i].sum # Nil) => valFile[i] # Absent

DiskInv == IndexOK /\ TodoOK /\ TargetOK /\ FileOK
StoreInv == SealInv /\ ValueInv /\ DiskInv

LEMMA StoreTypes ==
    ASSUME StoreInv
    PROVE  /\ items \in [Ids -> Values \cup {Nil, Absent}]
           /\ metaFile \in [Ids -> Metadata \cup {Absent, Partial, Empty}]
           /\ valFile \in [Ids -> Sealed \cup {Absent, Partial}]
           /\ todo \subseteq Ids
           /\ up \in BOOLEAN
BY DEF StoreInv, SealInv, Inv, TypeOK, MemoryOK, DiskOK, CallOK

(* A step that leaves the index and the files of the items alone.           *)
LEMMA DiskFrame ==
    ASSUME StoreInv, UNCHANGED <<metaFile, valFile, items>>,
           (primary' # Nil /\ pc' # "load") => (primary # Nil /\ pc # "load"),
           todo' = {} \/ (todo' \subseteq todo /\ "deleteValue" \notin {pc, pc'}),
           pc' \in Writes =>
               pc \in Writes /\ UNCHANGED cur /\ (pc' = "backup" => pc = "backup")
    PROVE  DiskInv'
<1>1. IndexOK'
  BY DEF StoreInv, DiskInv, IndexOK
<1>2. TodoOK'
  BY DEF StoreInv, DiskInv, TodoOK
<1>3. TargetOK'
  BY DEF StoreInv, DiskInv, TargetOK
<1>4. FileOK'
  BY DEF StoreInv, DiskInv, FileOK
<1> QED BY <1>1, <1>2, <1>3, <1>4 DEF DiskInv

(* A step that ends with a locked vault.                                    *)
LEMMA DiskLocked ==
    ASSUME FileOK', primary' = Nil, todo' = {}, pc' \notin Writes
    PROVE  DiskInv'
BY DEF DiskInv, IndexOK, TodoOK, TargetOK

LEMMA DieLocks == ASSUME Die PROVE primary' = Nil /\ todo' = {} /\ pc' \notin Writes
BY DEF Die, Forget, Return, Writes

LEMMA DiskDie ==
    ASSUME StoreInv, Die, UNCHANGED <<metaFile, valFile>> PROVE DiskInv'
<1>1. FileOK'
  BY DEF StoreInv, DiskInv, FileOK
<1> QED BY <1>1, DieLocks, DiskLocked

LEMMA DiskRefuse ==
    ASSUME StoreInv, pc = "idle", NEW r \in {"ok", "error"}, Refuse(r) PROVE DiskInv'
<1>1. /\ UNCHANGED <<metaFile, valFile, items, primary>>
      /\ pc' = "idle" /\ todo' = {}
  BY DEF Refuse, Return, memory, disk
<1> QED BY <1>1, DiskFrame DEF Writes

LEMMA DiskQuiet ==
    ASSUME StoreInv, OnlyCrashes,
           \/ NewVault \/ Crash \/ Lock \/ VerifyIdentity \/ RestoreRecipient
           \/ FinishRecovery \/ BackupValue
           \/ \E p \in Passphrases : Unlock(p)
           \/ \E ident \in Identities : GenerateIdentity(ident)
           \/ \E id \in Ids : GetItem(id)
           \/ \E r \in Recipients : SetRecoveryRecipient(r)
    PROVE  DiskInv'
<1>1. UNCHANGED <<metaFile, valFile>>
  BY DEF NewVault, Crash, Lock, VerifyIdentity, RestoreRecipient, FinishRecovery,
     BackupValue, Unlock, GenerateIdentity, GetItem, SetRecoveryRecipient, Refuse, disk
<1>2. CASE Die
  BY <1>1, <1>2, DiskDie
<1>3. CASE NewVault
  <2>1. pc \notin Writes /\ pc = "idle" /\ UNCHANGED <<items, primary, pc, todo>>
    BY <1>3 DEF NewVault, call, StoreInv, SealInv, Inv, LockOK, Writes
  <2> QED BY <1>1, <2>1, DiskFrame
<1>4. CASE Lock
  <2>1. CASE Refuse("error")
    BY <1>4, <2>1, DiskRefuse DEF Lock, Idle
  <2>2. CASE Forget /\ Return("ok")
    <3>1. FileOK'
      BY <1>1 DEF StoreInv, DiskInv, FileOK
    <3> QED BY <2>2, <3>1, DiskLocked DEF Forget, Return, Writes
  <2> QED BY <1>4, <2>1, <2>2 DEF Lock
<1>5. CASE Crash
  BY <1>2, <1>5 DEF Crash
<1>6. CASE VerifyIdentity \/ \E ident \in Identities : GenerateIdentity(ident)
  <2>1. pc = "identity" /\ primary = Nil
    BY <1>6 DEF VerifyIdentity, GenerateIdentity, StoreInv, SealInv, Inv, LockOK
  <2>2. CASE Proceed("load") /\ UNCHANGED <<items, todo>>
    BY <1>1, <2>1, <2>2, DiskFrame DEF Proceed, Writes
  <2>3. CASE Return("error") /\ UNCHANGED <<items, primary>>
    BY <1>1, <2>1, <2>3, DiskFrame DEF Return, Writes
  <2> QED BY <1>2, <1>6, <2>2, <2>3 DEF VerifyIdentity, GenerateIdentity, memory
<1>7. CASE RestoreRecipient \/ FinishRecovery
  <2>1. pc \in {"restore", "reseal"}
    BY <1>7 DEF RestoreRecipient, FinishRecovery
  <2>2. CASE ~Die
    <3>1. /\ pc' \in {"idle", "restore"} /\ todo' \in {{}, todo}
          /\ UNCHANGED <<items, primary>>
      BY <1>7, <2>2 DEF RestoreRecipient, FinishRecovery, Return, Proceed, memory
    <3> QED BY <1>1, <2>1, <3>1, DiskFrame DEF Writes
  <2> QED BY <1>2, <2>2
<1>8. CASE BackupValue
  <2>1. pc = "backup" /\ UNCHANGED <<items, primary>>
    BY <1>8 DEF BackupValue, memory
  <2>2. CASE Proceed("value") /\ UNCHANGED <<cur, todo>>
    BY <1>1, <2>1, <2>2, DiskFrame DEF Proceed, Writes
  <2>3. CASE Abandon
    BY <1>1, <2>1, <2>3, DiskFrame DEF Abandon, Return, Proceed, Writes
  <2> QED BY <1>8, <2>2, <2>3 DEF BackupValue
<1>9. ASSUME NEW p \in Passphrases, Unlock(p) PROVE DiskInv'
  <2>1. CASE Refuse("ok")
    BY <1>9, <2>1, DiskRefuse DEF Unlock, Idle
  <2>2. CASE Proceed("identity") /\ UNCHANGED <<items, primary, todo>>
    BY <1>1, <1>9, <2>2, DiskFrame DEF Unlock, Idle, Proceed, Writes
  <2> QED BY <1>9, <2>1, <2>2 DEF Unlock
<1>10. ASSUME NEW id \in Ids, GetItem(id) PROVE DiskInv'
  BY <1>2, <1>10, DiskRefuse DEF GetItem, Idle
<1>11. ASSUME NEW r \in Recipients, SetRecoveryRecipient(r) PROVE DiskInv'
  <2>1. CASE Refuse("error")
    BY <1>11, <2>1, DiskRefuse DEF SetRecoveryRecipient, Idle
  <2>2. CASE ~Refuse("error") /\ ~Die
    <3>1. /\ pc = "idle" /\ pc' \in {"idle", "reload", "restore"}
          /\ todo' \in {{}, todo} /\ UNCHANGED <<items, primary>>
      BY <1>11, <2>2 DEF SetRecoveryRecipient, Idle, Return, Proceed, memory
    <3> QED BY <1>1, <3>1, DiskFrame DEF Writes
  <2> QED BY <1>2, <2>1, <2>2
<1> QED BY <1>3, <1>4, <1>5, <1>6, <1>7, <1>8, <1>9, <1>10, <1>11

LEMMA DiskLoad == ASSUME StoreInv, OnlyCrashes, LoadItems PROVE DiskInv'
<1>1. pc = "load" /\ primary # Nil /\ UNCHANGED <<metaFile, valFile>>
  BY DEF LoadItems, disk, StoreInv, SealInv, Inv, LockOK, Unlocked
<1>2. CASE Die
  BY <1>1, <1>2, DiskDie
<1>3. CASE /\ items' = [i \in Ids |-> IF i \in Legible \ {} THEN metaFile[i].sum
                                                          ELSE Absent]
           /\ Return("ok")
  <2>1. \A i \in Ids : i \in Legible <=> metaFile[i] \in Metadata
    BY <1>1 DEF Legible, StoreInv, SealInv, SealedByIdentity, IdentityLoaded
  <2>2. IndexOK'
    BY <1>1, <1>3, <2>1 DEF IndexOK
  <2>3. TodoOK' /\ TargetOK'
    BY <1>3 DEF TodoOK, TargetOK, Return, Writes
  <2>4. FileOK'
    BY <1>1 DEF StoreInv, DiskInv, FileOK
  <2> QED BY <2>2, <2>3, <2>4 DEF DiskInv
<1> QED BY <1>2, <1>3 DEF LoadItems, Unreadable, OnlyCrashes

LEMMA DiskCreate ==
    ASSUME StoreInv, OnlyCrashes, NEW id \in Ids, CreateItem(id) PROVE DiskInv'
<1>1. CASE Refuse("error")
  BY <1>1, DiskRefuse DEF CreateItem, Idle
<1>2. CASE UNCHANGED <<disk, history>> /\ Die
  BY <1>2, DiskDie DEF disk
<1> DEFINE new == [sum |-> Nil, by |-> primary]
<1>3. CASE /\ primary # Nil /\ UNCHANGED valFile
           /\ \E c \in {Absent, new, Partial, Empty} :
                 metaFile' = [metaFile EXCEPT ![id] = c]
           /\ \/ /\ items' = [items EXCEPT ![id] = Nil] /\ Return("ok")
                 /\ metaFile' = [metaFile EXCEPT ![id] = new]
              \/ Die
  <2>1. new \in Metadata /\ new.sum = Nil
    BY <1>3 DEF Metadata, StoreInv, SealInv, Inv, TypeOK, MemoryOK
  <2>2. /\ metaFile'[id] \in {Absent, new, Partial, Empty}
        /\ \A i \in Ids \ {id} : metaFile'[i] = metaFile[i]
    BY <1>3, StoreTypes
  <2>3. FileOK'
    BY <1>3, <2>1, <2>2, MarksDistinct DEF StoreInv, DiskInv, FileOK
  <2>4. CASE Die
    BY <2>3, <2>4, DieLocks, DiskLocked
  <2>5. CASE /\ items' = [items EXCEPT ![id] = Nil] /\ Return("ok")
             /\ metaFile' = [metaFile EXCEPT ![id] = new]
    <3>1. pc = "idle"
      BY DEF CreateItem, Idle
    <3>2. IndexOK'
      BY <1>3, <2>1, <2>5, <3>1, StoreTypes DEF StoreInv, DiskInv, IndexOK
    <3>3. TodoOK' /\ TargetOK'
      BY <2>5 DEF TodoOK, TargetOK, Return, Writes
    <3> QED BY <2>3, <3>2, <3>3 DEF DiskInv
  <2> QED BY <1>3, <2>4, <2>5
<1>4. Refuse("error") \/ (UNCHANGED <<disk, history>> /\ Die) \/ primary # Nil
  BY DEF CreateItem
<1> QED BY <1>1, <1>2, <1>3, <1>4
        DEF CreateItem, Refuse, WriteOutcomes, OnlyCrashes, Contents, disk, history

LEMMA DiskSet ==
    ASSUME StoreInv, NEW id \in Ids, NEW v \in Values \cup {Nil}, SetItemValue(id, v)
    PROVE  DiskInv'
<1>1. CASE Refuse("error")
  BY <1>1, DiskRefuse DEF SetItemValue, Idle
<1>2. CASE /\ items[id] # Absent
           /\ cur' = [id |-> id, val |-> v, caller |-> "SetItemValue"]
           /\ Proceed(FirstStep(items[id]))
           /\ UNCHANGED <<memory, disk, todo>>
  <2>1. /\ pc = "idle" /\ cur'.id = id /\ primary # Nil
        /\ pc' \in {"value", "backup"} /\ (pc' = "backup" => items[id] # Nil)
        /\ UNCHANGED <<items, primary, metaFile, valFile, todo>>
    BY <1>2 DEF SetItemValue, Idle, FirstStep, Proceed, memory, disk, StoreInv,
       SealInv, Inv, LockOK
  <2>2. metaFile[id] \in Metadata /\ metaFile[id].sum = items[id]
    BY <1>2, <2>1 DEF StoreInv, DiskInv, IndexOK
  <2>3. IndexOK' /\ TodoOK'
    BY <2>1 DEF StoreInv, DiskInv, IndexOK, TodoOK
  <2>4. TargetOK'
    BY <2>1, <2>2 DEF TargetOK
  <2>5. FileOK'
    BY <2>1 DEF StoreInv, DiskInv, FileOK
  <2> QED BY <2>3, <2>4, <2>5 DEF DiskInv
<1> QED BY <1>1, <1>2 DEF SetItemValue

(* What the vault writes is intact.                                         *)
LEMMA WrittenTypes ==
    ASSUME StoreInv, pc \in Writes
    PROVE  /\ cur.id \in Ids /\ cur.val \in Values /\ cur # Nil /\ primary # Nil /\ up
           /\ [val |-> cur.val, primary |-> primary, recovery |-> recovery] \in Sealed
           /\ [sum |-> cur.val, by |-> primary] \in Metadata
           /\ metaFile[cur.id] \in Metadata
<1>1. cur.id \in Ids /\ cur.val \in Values /\ primary \in Identities /\ up
  BY WritingFacts DEF StoreInv, SealInv
<1>2. recovery \in Recipients \cup {Nil}
  BY DEF StoreInv, SealInv, Inv, TypeOK, MemoryOK
<1>3. cur # Nil /\ primary # Nil
  BY DEF StoreInv, SealInv, Inv, LockOK, Unlocked
<1>4. metaFile[cur.id] \in Metadata
  BY DEF StoreInv, DiskInv, TargetOK
<1> QED BY <1>1, <1>2, <1>3, <1>4 DEF Sealed, Metadata

LEMMA DiskValue == ASSUME StoreInv, OnlyCrashes, WriteValue PROVE DiskInv'
<1> DEFINE w == cur.id
           new == [val |-> cur.val, primary |-> primary, recovery |-> recovery]
<1>1. pc = "value" /\ pc \in Writes /\ UNCHANGED metaFile
  BY DEF WriteValue, Writes
<1>2. w \in Ids /\ new \in Sealed
  BY <1>1, WrittenTypes
<1>3. /\ valFile'[w] \in {valFile[w], new, Partial}
      /\ \A i \in Ids \ {w} : valFile'[i] = valFile[i]
  BY <1>2, StoreTypes DEF WriteValue, Contents
<1>4. FileOK'
  <2>1. new # Absent /\ Partial # Absent
    BY <1>2, MarksDistinct
  <2> QED BY <1>1, <1>3, <2>1 DEF StoreInv, DiskInv, FileOK
<1>5. CASE Die
  BY <1>4, <1>5, DieLocks, DiskLocked
<1>6. CASE Proceed("metadata") /\ UNCHANGED <<memory, cur, todo>>
  <2>1. pc' = "metadata" /\ UNCHANGED <<items, primary, cur, todo>>
    BY <1>6 DEF Proceed, memory
  <2>2. IndexOK' /\ TodoOK'
    BY <1>1, <2>1 DEF StoreInv, DiskInv, IndexOK, TodoOK
  <2>3. TargetOK'
    BY <1>1, <2>1 DEF StoreInv, DiskInv, TargetOK
  <2> QED BY <1>4, <2>2, <2>3 DEF DiskInv
<1> QED BY <1>5, <1>6 DEF WriteValue, WriteOutcomes, OnlyCrashes

LEMMA DiskMetadata == ASSUME StoreInv, OnlyCrashes, WriteMetadata PROVE DiskInv'
<1> DEFINE w == cur.id
           new == [sum |-> cur.val, by |-> primary]
<1>1. pc = "metadata" /\ pc \in Writes /\ UNCHANGED valFile
  BY DEF WriteMetadata, Writes
<1>2. w \in Ids /\ new \in Metadata /\ new.sum = cur.val
  BY <1>1, WrittenTypes
<1>3. /\ metaFile'[w] \in {metaFile[w], new, Partial, Empty}
      /\ \A i \in Ids \ {w} : metaFile'[i] = metaFile[i]
  BY <1>2, StoreTypes DEF WriteMetadata, Contents
<1>4. FileOK'
  <2>1. valFile[w] # Absent
    BY <1>1, MarksDistinct DEF StoreInv, ValueInv, WriteOK
  <2> QED BY <1>1, <1>3, <2>1 DEF StoreInv, DiskInv, FileOK
<1>5. CASE Die
  BY <1>4, <1>5, DieLocks, DiskLocked
<1>6. CASE /\ items' = [items EXCEPT ![w] = cur.val] /\ UNCHANGED primary
           /\ metaFile' = [metaFile EXCEPT ![w] = new]
           /\ \/ Proceed("reseal") /\ UNCHANGED todo
              \/ Return("ok")
  <2>1. pc' \in {"idle", "reseal"} /\ todo' \in {{}, todo}
    BY <1>6 DEF Proceed, Return
  <2>2. IndexOK'
    BY <1>1, <1>2, <1>6, StoreTypes DEF StoreInv, DiskInv, IndexOK
  <2>3. TodoOK'
    BY <1>1, <1>2, <1>6, <2>1, StoreTypes DEF StoreInv, DiskInv, TodoOK
  <2>4. TargetOK'
    BY <2>1 DEF TargetOK, Writes
  <2> QED BY <1>4, <2>2, <2>3, <2>4 DEF DiskInv
<1> QED BY <1>5, <1>6 DEF WriteMetadata, WriteOutcomes, OnlyCrashes, Contents

LEMMA DiskDelete ==
    ASSUME StoreInv, OnlyCrashes, NEW id \in Ids, DeleteItem(id) PROVE DiskInv'
<1>1. pc = "idle"
  BY DEF DeleteItem, Idle
<1>2. CASE Return("ok") /\ UNCHANGED <<memory, disk>>
  BY <1>1, <1>2, DiskFrame DEF Return, memory, disk, Writes
<1>3. CASE /\ items' = [items EXCEPT ![id] = Absent]
           /\ metaFile' = [metaFile EXCEPT ![id] = Absent]
           /\ todo' = {id} /\ Proceed("deleteValue")
           /\ UNCHANGED <<primary, valFile>>
  <2>1. Absent \notin Metadata
    BY MarksDistinct
  <2>2. IndexOK'
    BY <1>1, <1>3, <2>1, StoreTypes DEF StoreInv, DiskInv, IndexOK
  <2>3. TodoOK' /\ TargetOK'
    BY <1>3, <2>1, StoreTypes DEF TodoOK, TargetOK, Proceed, Writes
  <2>4. FileOK'
    BY <1>3, <2>1, StoreTypes DEF StoreInv, DiskInv, FileOK
  <2> QED BY <2>2, <2>3, <2>4 DEF DiskInv
<1>4. CASE Refuse("error")
  BY <1>1, <1>4, DiskRefuse
<1> QED BY <1>2, <1>3, <1>4 DEF DeleteItem, Remains, OnlyCrashes

LEMMA DiskDeleteValue == ASSUME StoreInv, DeleteValue PROVE DiskInv'
<1>1. /\ pc = "deleteValue" /\ pc' = "idle" /\ todo' = {}
      /\ UNCHANGED <<metaFile, items, primary>>
  BY DEF DeleteValue, Return, memory
<1>2. PICK id \in todo : \A i \in Ids \ {id} : valFile'[i] = valFile[i]
  BY StoreTypes DEF DeleteValue
<1>3. metaFile[id] \notin Metadata
  BY <1>1 DEF StoreInv, DiskInv, TodoOK
<1>4. FileOK'
  BY <1>1, <1>2, <1>3 DEF StoreInv, DiskInv, FileOK
<1>5. IndexOK'
  BY <1>1 DEF StoreInv, DiskInv, IndexOK
<1>6. TodoOK' /\ TargetOK'
  BY <1>1 DEF TodoOK, TargetOK, Writes
<1> QED BY <1>4, <1>5, <1>6 DEF DiskInv

LEMMA DiskReload == ASSUME StoreInv, OnlyCrashes, ReloadMetadata PROVE DiskInv'
<1>1. pc = "reload" /\ UNCHANGED <<metaFile, valFile>>
  BY DEF ReloadMetadata, disk
<1>2. CASE Die
  BY <1>1, <1>2, DiskDie
<1>3. CASE todo' = Legible /\ Proceed("reseal") /\ UNCHANGED memory
  <2>1. pc' = "reseal" /\ UNCHANGED <<items, primary>>
    BY <1>3 DEF Proceed, memory
  <2>2. IndexOK'
    BY <1>1, <2>1 DEF StoreInv, DiskInv, IndexOK
  <2>3. TodoOK' /\ TargetOK'
    BY <1>1, <1>3, <2>1 DEF TodoOK, TargetOK, Legible, Writes
  <2>4. FileOK'
    BY <1>1 DEF StoreInv, DiskInv, FileOK
  <2> QED BY <2>2, <2>3, <2>4 DEF DiskInv
<1> QED BY <1>2, <1>3 DEF ReloadMetadata, Unreadable, OnlyCrashes

LEMMA DiskReseal ==
    ASSUME StoreInv, NEW id \in Ids, ResealItem(id) PROVE DiskInv'
<1>1. pc = "reseal" /\ id \in todo /\ UNCHANGED <<metaFile, valFile>>
  BY DEF ResealItem, disk
<1>2. CASE Die
  BY <1>1, <1>2, DiskDie
<1>3. CASE Proceed("reseal") /\ todo' = Rest(id) /\ UNCHANGED memory
  BY <1>1, <1>3, DiskFrame DEF Proceed, Rest, memory, Writes
<1>4. CASE /\ cur' = [id |-> id, val |-> Plaintext(id),
                      caller |-> "SetRecoveryRecipient"]
           /\ todo' = Rest(id) /\ Proceed(FirstStep(metaFile[id].sum))
           /\ UNCHANGED memory
  <2>1. /\ cur'.id = id /\ todo' \subseteq todo /\ UNCHANGED <<items, primary>>
        /\ pc' \in {"value", "backup"} /\ (pc' = "backup" => metaFile[id].sum # Nil)
    BY <1>4 DEF Rest, Proceed, FirstStep, memory
  <2>2. metaFile[id] \in Metadata
    BY <1>1 DEF StoreInv, DiskInv, TodoOK
  <2>3. IndexOK' /\ TodoOK'
    BY <1>1, <2>1 DEF StoreInv, DiskInv, IndexOK, TodoOK
  <2>4. TargetOK'
    BY <1>1, <2>1, <2>2 DEF TargetOK
  <2>5. FileOK'
    BY <1>1 DEF StoreInv, DiskInv, FileOK
  <2> QED BY <2>3, <2>4, <2>5 DEF DiskInv
<1> QED BY <1>2, <1>3, <1>4 DEF ResealItem

LEMMA DiskNext ==
    ASSUME OnlyCrashes
    PROVE  StoreInv /\ [Next]_vars => DiskInv'
<1> SUFFICES ASSUME StoreInv, [Next]_vars PROVE DiskInv'
  OBVIOUS
<1>1. CASE Begin
  BY <1>1, DiskQuiet, DiskCreate, DiskSet, DiskDelete DEF Begin
<1>2. CASE Continue
  BY <1>2, DiskQuiet, DiskLoad, DiskValue, DiskMetadata, DiskDeleteValue, DiskReload,
     DiskReseal DEF Continue
<1>3. CASE NewVault \/ Crash
  BY <1>3, DiskQuiet
<1>4. CASE UNCHANGED vars
  BY <1>4 DEF vars, memory, disk, call, StoreInv, DiskInv, IndexOK, TodoOK, TargetOK,
     FileOK
<1> QED BY <1>1, <1>2, <1>3, <1>4 DEF Next

LEMMA StoreInvHolds ==
    ASSUME OnlyCrashes
    PROVE  Spec => []StoreInv
<1>1. Init => DiskInv
  BY MarksDistinct DEF Init, DiskInv, IndexOK, TodoOK, TargetOK, FileOK, Writes
<1>2. (SealInv /\ ValueInv /\ DiskInv) /\ [Next]_vars => DiskInv'
  BY DiskNext DEF StoreInv
<1>3. SealInv /\ ValueInv /\ DiskInv => StoreInv
  BY DEF StoreInv
<1> QED BY <1>1, <1>2, <1>3, SealInvHolds, ValueInvHolds, PTL DEF Spec

(* Over a backend that reports no errors, through crashes and restarts: an  *)
(* unlocked vault between two calls lists exactly the items on disk.        *)
THEOREM IndexIsDisk ==
    ASSUME OnlyCrashes
    PROVE  Spec => []IndexMatchesDisk
<1>1. StoreInv => IndexMatchesDisk
  BY DEF StoreInv, DiskInv, IndexOK, IndexMatchesDisk, Idle
<1> QED BY <1>1, StoreInvHolds, PTL
-----------------------------------------------------------------------------
(* The refinement mapping.                                                  *)

AbsStage == [i \in Ids |-> Stage(i)]
AbsValue == [i \in Ids |-> LastSettled(i)]

LEMMA StageIs ==
    ASSUME NEW i \in Ids
    PROVE  /\ metaFile[i] \notin Metadata => LastSettled(i) = Nil
           /\ metaFile[i] \notin Metadata /\ life[i] = "unborn" => Stage(i) = "unborn"
           /\ metaFile[i] \notin Metadata /\ life[i] # "unborn" => Stage(i) = "gone"
           /\ metaFile[i] \in Metadata => LastSettled(i) = metaFile[i].sum
           /\ metaFile[i] \in Metadata /\ metaFile[i].sum = Nil => Stage(i) = "empty"
           /\ metaFile[i] \in Metadata /\ metaFile[i].sum # Nil =>
                 Stage(i) = IF Readable(i) THEN "settled" ELSE "unsettled"
BY DEF Stage, LastSettled

LEMMA NextStageIs ==
    ASSUME NEW i \in Ids
    PROVE  /\ metaFile'[i] \notin Metadata => LastSettled(i)' = Nil
           /\ metaFile'[i] \notin Metadata /\ life'[i] = "unborn" => Stage(i)' = "unborn"
           /\ metaFile'[i] \notin Metadata /\ life'[i] # "unborn" => Stage(i)' = "gone"
           /\ metaFile'[i] \in Metadata => LastSettled(i)' = metaFile'[i].sum
           /\ metaFile'[i] \in Metadata /\ metaFile'[i].sum = Nil => Stage(i)' = "empty"
           /\ metaFile'[i] \in Metadata /\ metaFile'[i].sum # Nil =>
                 Stage(i)' = IF Readable(i)' THEN "settled" ELSE "unsettled"
BY DEF Stage, LastSettled

(* An item whose files stay looks the same.                                 *)
LEMMA SameItem ==
    ASSUME NEW i \in Ids, metaFile'[i] = metaFile[i], valFile'[i] = valFile[i],
           life'[i] = "unborn" <=> life[i] = "unborn"
    PROVE  Stage(i)' = Stage(i) /\ LastSettled(i)' = LastSettled(i)
<1>1. Readable(i)' <=> Readable(i)
  BY DEF Readable
<1> QED BY <1>1, StageIs, NextStageIs

LEMMA SameItems ==
    ASSUME \A i \in Ids : Stage(i)' = Stage(i) /\ LastSettled(i)' = LastSettled(i)
    PROVE  UNCHANGED <<AbsStage, AbsValue>>
BY DEF AbsStage, AbsValue

LEMMA SameView ==
    ASSUME UNCHANGED <<metaFile, valFile>>,
           \A i \in Ids : life'[i] = "unborn" <=> life[i] = "unborn"
    PROVE  UNCHANGED <<AbsStage, AbsValue>>
BY SameItem, SameItems

LEMMA Becomes ==
    ASSUME NEW id \in Ids,
           \A i \in Ids \ {id} :
               Stage(i)' = Stage(i) /\ LastSettled(i)' = LastSettled(i)
    PROVE  Store!Become(id, Stage(id)', LastSettled(id)')
BY DEF Store!Become

LEMMA OwnerIs ==
    /\ UNCHANGED idFile => UNCHANGED Owner
    /\ idFile = Absent => Owner = Nil
    /\ idFile \in IdentityFile => Owner = idFile.key
    /\ idFile' \in IdentityFile => Owner' = idFile'.key
    /\ idFile' \in {Absent, Partial, Empty} => Owner' = Nil
BY MarksDistinct DEF Owner

LEMMA OpenIs ==
    /\ primary = Nil \/ pc = "load" => OpenWith = Nil
    /\ primary # Nil /\ pc # "load" => OpenWith = identityKey
    /\ primary' = Nil \/ pc' = "load" => OpenWith' = Nil
    /\ primary' # Nil /\ pc' # "load" => OpenWith' = identityKey'
BY DEF OpenWith

LEMMA HaltIs == ASSUME Die PROVE Store!Halt
BY OpenIs DEF Die, Forget, Return, Store!Halt

(* The process ends, with the files as they were.                           *)
LEMMA MapStop ==
    ASSUME up, Die, UNCHANGED idFile, UNCHANGED <<AbsStage, AbsValue>>
    PROVE  Store!Stop
BY HaltIs, OwnerIs DEF Store!Stop, AbsStage, AbsValue

LEMMA MapStutter ==
    ASSUME UNCHANGED <<up, OpenWith, Owner, AbsStage, AbsValue, cur>>
    PROVE  UNCHANGED Store!vars
BY DEF Store!vars, AbsStage, AbsValue

(* A step inside a call, or between calls, that changes no file of an item. *)
LEMMA MapInside ==
    ASSUME UNCHANGED <<up, identityKey, primary, idFile, metaFile, valFile, life, cur>>,
           "load" \notin {pc, pc'}
    PROVE  UNCHANGED Store!vars
<1>1. UNCHANGED OpenWith
  BY DEF OpenWith
<1>2. UNCHANGED Owner
  BY OwnerIs
<1> QED BY <1>1, <1>2, SameView, MapStutter

LEMMA MapRefuse ==
    ASSUME StoreInv, pc = "idle", NEW r \in {"ok", "error"}, Refuse(r)
    PROVE  UNCHANGED Store!vars
<1>1. cur = Nil
  BY DEF StoreInv, SealInv, Inv, LockOK, Writes
<1>2. UNCHANGED <<up, identityKey, primary, idFile, metaFile, valFile, life, cur, pc>>
  BY <1>1 DEF Refuse, Return, memory, disk, history
<1> QED BY <1>2, MapInside

-----------------------------------------------------------------------------
(* Every step of the vault is a step of the store.                          *)

StoreStep == Store!Next \/ UNCHANGED Store!vars

LEMMA StepDie ==
    ASSUME up, Die, UNCHANGED <<idFile, metaFile, valFile, life>>
    PROVE  StoreStep
BY MapStop, SameView DEF StoreStep, Store!Next

LEMMA StepProcess ==
    ASSUME StoreInv, NewVault \/ Crash PROVE StoreStep
<1>1. CASE NewVault
  <2>1. UNCHANGED <<identityKey, primary, idFile, metaFile, valFile, life, cur, pc>>
        /\ up' = TRUE /\ up = FALSE
    BY <1>1, StoreTypes DEF NewVault, disk, call, history
  <2>2. UNCHANGED <<OpenWith, Owner, AbsStage, AbsValue>>
    BY <2>1, OwnerIs, SameView DEF OpenWith
  <2>3. Store!Start
    BY <2>1, <2>2 DEF Store!Start, AbsStage, AbsValue
  <2> QED BY <2>3 DEF StoreStep, Store!Next
<1>2. CASE Crash
  BY <1>2, StepDie DEF Crash, disk, history
<1> QED BY <1>1, <1>2

LEMMA StepUnlock ==
    ASSUME StoreInv, NEW p \in Passphrases, Unlock(p) PROVE StoreStep
<1>1. CASE Refuse("ok")
  BY <1>1, MapRefuse DEF Unlock, Idle, StoreStep
<1>2. CASE IsLocked /\ Proceed("identity")
           /\ UNCHANGED <<up, primary, recovery, items, disk, cur, todo, tries, history>>
  <2>1. primary = Nil
    BY <1>2 DEF IsLocked, StoreInv, SealInv, Inv, LockOK
  <2>2. /\ UNCHANGED <<up, cur, idFile, metaFile, valFile, life>>
        /\ OpenWith = Nil /\ OpenWith' = Nil
    BY <1>2, <2>1, OpenIs DEF disk, history
  <2> QED BY <2>2, OwnerIs, SameView, MapStutter DEF StoreStep
<1> QED BY <1>1, <1>2 DEF Unlock

(* VerifyIdentity finds the owner; the vault opens when it has loaded.      *)
LEMMA StepVerify == ASSUME StoreInv, OnlyCrashes, VerifyIdentity PROVE StoreStep
<1>1. /\ up /\ primary = Nil /\ cur = Nil /\ pc = "identity"
      /\ UNCHANGED <<idFile, metaFile, valFile, life>>
  BY DEF VerifyIdentity, disk, history, StoreInv, SealInv, Inv, LockOK, Writes
<1>2. CASE Die
  BY <1>1, <1>2, StepDie
<1>3. CASE /\ UNCHANGED up /\ cur' = Nil
           /\ Proceed("load") \/ primary' = Nil
  <2>1. OpenWith = Nil /\ OpenWith' = Nil
    BY <1>1, <1>3, OpenIs DEF Proceed
  <2> QED BY <1>1, <1>3, <2>1, OwnerIs, SameView, MapStutter DEF StoreStep
<1> QED BY <1>1, <1>2, <1>3 DEF VerifyIdentity, Return

(* The first Unlock makes its passphrase the owner.                         *)
LEMMA StepGenerate ==
    ASSUME StoreInv, OnlyCrashes, NEW ident \in Identities, GenerateIdentity(ident)
    PROVE  StoreStep
<1> DEFINE new == [key |-> identityKey, ident |-> ident]
<1>1. /\ up /\ primary = Nil /\ cur = Nil /\ pc = "identity" /\ idFile = Absent
      /\ identityKey \in Passphrases
      /\ UNCHANGED <<metaFile, valFile, life>>
  BY DEF GenerateIdentity, NoIdentity, history, StoreInv, SealInv, Inv, TypeOK,
     MemoryOK, LockOK, Writes
<1>2. new \in IdentityFile /\ new.key = identityKey
  BY <1>1 DEF IdentityFile
<1>3. OpenWith = Nil /\ Owner = Nil /\ UNCHANGED <<AbsStage, AbsValue>>
  BY <1>1, OpenIs, OwnerIs, SameView
<1>4. CASE idFile' = new /\ (Die \/ (Proceed("load") /\ UNCHANGED <<up, cur>>))
  <2>1. Owner' = identityKey
    BY <1>2, <1>4, OwnerIs
  <2>2. CASE Die
    <3>1. Store!Claim(identityKey)
      BY <1>1, <1>3, <2>1, <2>2, HaltIs DEF Store!Claim, AbsStage, AbsValue
    <3> QED BY <1>1, <3>1 DEF StoreStep, Store!Next
  <2>3. CASE Proceed("load") /\ UNCHANGED <<up, cur>>
    <3>1. OpenWith' = Nil
      BY <2>3, OpenIs DEF Proceed
    <3>2. Store!Claim(identityKey)
      BY <1>1, <1>3, <2>1, <2>3, <3>1 DEF Store!Claim, Store!GoOn, AbsStage, AbsValue
    <3> QED BY <1>1, <3>2 DEF StoreStep, Store!Next
  <2> QED BY <1>4, <2>2, <2>3
<1>5. CASE idFile' \in {Absent, Partial, Empty} /\ Die
  <2>1. Owner' = Owner
    BY <1>3, <1>5, OwnerIs
  <2>2. Store!Stop
    BY <1>1, <1>3, <1>5, <2>1, HaltIs DEF Store!Stop, AbsStage, AbsValue
  <2> QED BY <2>2 DEF StoreStep, Store!Next
<1> QED BY <1>1, <1>4, <1>5
        DEF GenerateIdentity, WriteOutcomes, OnlyCrashes, Contents

LEMMA StepLoad == ASSUME StoreInv, OnlyCrashes, LoadItems PROVE StoreStep
<1>1. /\ up /\ primary # Nil /\ cur = Nil /\ pc = "load" /\ identityKey \in Passphrases
      /\ UNCHANGED <<idFile, metaFile, valFile, life>>
  BY DEF LoadItems, disk, history, StoreInv, SealInv, Inv, TypeOK, MemoryOK, LockOK,
     Unlocked, Writes
<1>2. CASE Die
  BY <1>1, <1>2, StepDie
<1>3. CASE Return("ok") /\ UNCHANGED <<up, identityKey, primary>>
  <2>1. Owner = identityKey
    BY <1>1, OwnerIs DEF StoreInv, SealInv, IdentityLoaded
  <2>2. OpenWith = Nil /\ OpenWith' = identityKey /\ cur' = Nil
    BY <1>1, <1>3, OpenIs DEF Return
  <2>3. UNCHANGED <<Owner, AbsStage, AbsValue>>
    BY <1>1, OwnerIs, SameView
  <2>4. Store!Open(identityKey)
    BY <1>1, <1>3, <2>1, <2>2, <2>3 DEF Store!Open, AbsStage, AbsValue
  <2> QED BY <1>1, <2>4 DEF StoreStep, Store!Next
<1> QED BY <1>2, <1>3 DEF LoadItems, OnlyCrashes

LEMMA StepLock == ASSUME StoreInv, Lock PROVE StoreStep
<1>1. pc = "idle" /\ cur = Nil
  BY DEF Lock, Idle, StoreInv, SealInv, Inv, LockOK, Writes
<1>2. CASE Refuse("error")
  BY <1>1, <1>2, MapRefuse DEF StoreStep
<1>3. CASE Forget /\ Return("ok") /\ UNCHANGED <<up, recovery, disk, history>>
  <2>1. /\ UNCHANGED <<up, cur, Owner, AbsStage, AbsValue>>
        /\ OpenWith' = Nil
    BY <1>1, <1>3, OpenIs, OwnerIs, SameView DEF Forget, Return, disk, history
  <2>2. CASE OpenWith = Nil
    BY <2>1, <2>2, MapStutter DEF StoreStep
  <2>3. CASE OpenWith # Nil
    <3>1. Store!Close
      BY <1>1, <2>1, <2>3 DEF Store!Close, AbsStage, AbsValue
    <3> QED BY <3>1 DEF StoreStep, Store!Next
  <2> QED BY <2>2, <2>3
<1> QED BY <1>2, <1>3 DEF Lock

(* Calls that the store does not see.                                       *)
LEMMA StepInside ==
    ASSUME StoreInv,
           \/ RestoreRecipient \/ ReloadMetadata \/ FinishRecovery
           \/ \E id \in Ids : GetItem(id)
           \/ \E r \in Recipients : SetRecoveryRecipient(r)
    PROVE  StoreStep
<1>1. /\ up /\ pc \in {"idle", "restore", "reload", "reseal"} /\ cur = Nil
  BY DEF RestoreRecipient, ReloadMetadata, FinishRecovery, GetItem,
     SetRecoveryRecipient, Idle, StoreInv, SealInv, Inv, LockOK, Writes
<1>2. UNCHANGED <<idFile, metaFile, valFile, life>>
  BY DEF RestoreRecipient, ReloadMetadata, FinishRecovery, GetItem,
     SetRecoveryRecipient, Refuse, disk, history
<1>3. CASE Die
  BY <1>1, <1>2, <1>3, StepDie
<1>4. CASE ~Die
  <2>1. UNCHANGED <<up, identityKey, primary>> /\ cur' = Nil
    BY <1>1, <1>4 DEF RestoreRecipient, ReloadMetadata, FinishRecovery, GetItem,
       SetRecoveryRecipient, Refuse, Return, memory
  <2>2. pc' # "load"
    BY <1>1, <1>4 DEF RestoreRecipient, ReloadMetadata, FinishRecovery, GetItem,
       SetRecoveryRecipient, Refuse, Return, Proceed
  <2> QED BY <1>1, <1>2, <2>1, <2>2, MapInside DEF StoreStep
<1> QED BY <1>3, <1>4

(* An open store.                                                           *)
LEMMA OpenStore ==
    ASSUME StoreInv, primary # Nil, pc # "load"
    PROVE  OpenWith # Nil
BY OpenIs DEF StoreInv, SealInv, Inv, LockOK

(* A call that goes on with the vault open leaves it open.                  *)
LEMMA StaysOpen ==
    ASSUME UNCHANGED <<identityKey, primary>>, "load" \notin {pc, pc'}
    PROVE  UNCHANGED OpenWith
BY DEF OpenWith

LEMMA StepCreate ==
    ASSUME StoreInv, OnlyCrashes, NEW id \in Ids, CreateItem(id) PROVE StoreStep
<1> DEFINE new == [sum |-> Nil, by |-> primary]
<1>1. /\ up /\ pc = "idle" /\ cur = Nil /\ life[id] = "unborn"
      /\ metaFile[id] = Absent /\ Stage(id) = "unborn"
  <2>1. /\ up /\ pc = "idle" /\ cur = Nil /\ life[id] = "unborn"
        /\ metaFile[id] = Absent
    BY DEF CreateItem, Idle, StoreInv, SealInv, Inv, LockOK, Writes, ValueInv, BornOK
  <2> QED BY <2>1, StageIs, MarksDistinct
<1>2. CASE Refuse("error")
  BY <1>1, <1>2, MapRefuse DEF StoreStep
<1>3. CASE Die /\ UNCHANGED <<disk, history>>
  BY <1>1, <1>3, StepDie DEF disk, history
<1>4. CASE /\ primary # Nil /\ UNCHANGED <<idFile, valFile>>
           /\ \/ /\ metaFile' = [metaFile EXCEPT ![id] = new]
                 /\ life' = [life EXCEPT ![id] = "created"]
                 /\ Return("ok") /\ UNCHANGED <<up, identityKey, primary>>
              \/ /\ \E c \in {Absent, new, Partial, Empty} :
                       metaFile' = [metaFile EXCEPT ![id] = c]
                 /\ life' = [life EXCEPT ![id] = "lost"]
                 /\ Die
  <2>1. /\ life \in [Ids -> {"unborn", "lost", "created", "deleted"}]
        /\ new \in Metadata
    BY <1>4 DEF StoreInv, SealInv, Inv, TypeOK, MemoryOK, HistoryOK, Metadata
  <2>2. \A i \in Ids \ {id} :
            Stage(i)' = Stage(i) /\ LastSettled(i)' = LastSettled(i)
    BY <1>4, <2>1, StoreTypes, SameItem
  <2>3. Store!Become(id, Stage(id)', LastSettled(id)')
    BY <2>2, Becomes
  <2>4. OpenWith # Nil /\ UNCHANGED Owner
    BY <1>1, <1>4, OpenStore, OwnerIs
  <2>5. AbsStage[id] = "unborn"
    BY <1>1 DEF AbsStage
  <2>6. life'[id] # "unborn" /\ metaFile'[id] \in {Absent, new, Partial, Empty}
    BY <1>4, <2>1, StoreTypes
  <2>7. Stage(id)' \in {"empty", "gone"} /\ LastSettled(id)' = Nil
    BY <2>1, <2>6, NextStageIs, MarksDistinct
  <2>8. CASE Die
    <3>1. Store!Create(id)
      BY <1>1, <2>3, <2>4, <2>5, <2>7, <2>8, HaltIs DEF Store!Create, AbsStage
    <3> QED BY <3>1 DEF StoreStep, Store!Next
  <2>9. CASE /\ metaFile' = [metaFile EXCEPT ![id] = new]
             /\ Return("ok") /\ UNCHANGED <<up, identityKey, primary>>
    <3>1. metaFile'[id] = new /\ new.sum = Nil
      BY <2>9, StoreTypes
    <3>2. Stage(id)' = "empty"
      BY <2>1, <3>1, NextStageIs
    <3>3. UNCHANGED OpenWith /\ cur' = Nil
      BY <1>1, <2>9, StaysOpen DEF Return
    <3>4. Store!Create(id)
      BY <1>1, <2>3, <2>4, <2>5, <2>7, <2>9, <3>2, <3>3
         DEF Store!Create, Store!GoOn, AbsStage
    <3> QED BY <3>4 DEF StoreStep, Store!Next
  <2> QED BY <1>4, <2>8, <2>9
<1> QED BY <1>1, <1>2, <1>3, <1>4
        DEF CreateItem, WriteOutcomes, OnlyCrashes, Contents

(* A write begins; the vault writes nothing yet.                            *)
LEMMA MapBegin ==
    ASSUME StoreInv, up, primary # Nil, cur = Nil, "load" \notin {pc, pc'},
           cur' \in Writing, metaFile[cur'.id] \in Metadata,
           cur'.caller = "SetRecoveryRecipient" =>
               Stage(cur'.id) = "settled" /\ LastSettled(cur'.id) = cur'.val,
           UNCHANGED <<up, identityKey, primary, idFile, metaFile, valFile, life>>
    PROVE  StoreStep
<1>1. cur' \in Store!Writes /\ cur'.id \in Ids
  BY DEF Writing, Callers, Store!Writes
<1>2. Stage(cur'.id) \in {"empty", "settled", "unsettled"}
  BY <1>1, StageIs
<1>3. UNCHANGED <<OpenWith, Owner, AbsStage, AbsValue>> /\ OpenWith # Nil
  BY OpenStore, StaysOpen, OwnerIs, SameView
<1>4. AbsStage[cur'.id] = Stage(cur'.id) /\ AbsValue[cur'.id] = LastSettled(cur'.id)
  BY <1>1 DEF AbsStage, AbsValue
<1>5. Store!BeginWrite(cur')
  BY <1>1, <1>2, <1>3, <1>4 DEF Store!BeginWrite, Store!Live, AbsStage, AbsValue
<1> QED BY <1>1, <1>5 DEF StoreStep, Store!Next

LEMMA StepSet ==
    ASSUME StoreInv, NEW id \in Ids, NEW v \in Values \cup {Nil}, SetItemValue(id, v)
    PROVE  StoreStep
<1>1. up /\ pc = "idle" /\ cur = Nil
  BY DEF SetItemValue, Idle, StoreInv, SealInv, Inv, LockOK, Writes
<1>2. CASE Refuse("error")
  BY <1>1, <1>2, MapRefuse DEF StoreStep
<1>3. CASE /\ v # Nil /\ items[id] # Absent
           /\ cur' = [id |-> id, val |-> v, caller |-> "SetItemValue"]
           /\ Proceed(FirstStep(items[id]))
           /\ UNCHANGED <<up, memory, disk, life>>
  <2>1. cur' \in Writing /\ cur'.id = id /\ cur'.caller # "SetRecoveryRecipient"
    BY <1>3 DEF Writing, Callers
  <2>2. /\ primary # Nil /\ pc' # "load"
        /\ UNCHANGED <<up, identityKey, primary, idFile, metaFile, valFile, life>>
    BY <1>3 DEF Proceed, FirstStep, memory, disk, StoreInv, SealInv, Inv, LockOK
  <2>3. metaFile[id] \in Metadata
    BY <1>1, <1>3, <2>2 DEF StoreInv, DiskInv, IndexOK
  <2> QED BY <1>1, <2>1, <2>2, <2>3, MapBegin
<1> QED BY <1>2, <1>3 DEF SetItemValue

LEMMA StepReseal ==
    ASSUME StoreInv, OnlyCrashes, NEW id \in Ids, ResealItem(id) PROVE StoreStep
<1>1. /\ up /\ pc = "reseal" /\ cur = Nil /\ primary # Nil
      /\ UNCHANGED <<idFile, metaFile, valFile, life>>
      /\ metaFile[id] \in Metadata
  BY DEF ResealItem, disk, history, StoreInv, SealInv, Inv, LockOK, Writes, Unlocked,
     DiskInv, TodoOK
<1>2. CASE Die
  BY <1>1, <1>2, StepDie
<1>3. CASE Proceed("reseal") /\ UNCHANGED <<up, memory, cur>>
  BY <1>1, <1>3, MapInside DEF Proceed, memory, StoreStep
<1>4. CASE /\ "ok" \in ReadOutcomes(id, metaFile[id].sum)
           /\ cur' = [id |-> id, val |-> Plaintext(id),
                      caller |-> "SetRecoveryRecipient"]
           /\ Proceed(FirstStep(metaFile[id].sum))
           /\ UNCHANGED <<up, memory>>
  <2>1. valFile[id] \in Sealed /\ valFile[id].val = metaFile[id].sum
    BY <1>4 DEF ReadOutcomes
  <2>2. Readable(id) /\ metaFile[id].sum \in Values
    BY <1>1, <2>1 DEF Readable, Sealed
  <2>3. metaFile[id].sum # Nil
    BY <2>2, MarksDistinct
  <2>4. Stage(id) = "settled" /\ LastSettled(id) = metaFile[id].sum
    BY <1>1, <2>2, <2>3, StageIs
  <2>5. cur' \in Writing /\ cur'.id = id /\ cur'.val = metaFile[id].sum
    BY <1>4, <2>1, <2>2 DEF Writing, Callers, Plaintext
  <2>6. pc' # "load" /\ UNCHANGED <<up, identityKey, primary>>
    BY <1>4 DEF Proceed, FirstStep, memory
  <2> QED BY <1>1, <2>4, <2>5, <2>6, MapBegin
<1> QED BY <1>2, <1>3, <1>4 DEF ResealItem

(* The value is copied aside; a value that is there can be copied.          *)
LEMMA StepBackup == ASSUME StoreInv, OnlyCrashes, BackupValue PROVE StoreStep
<1>1. /\ pc = "backup" /\ pc \in Writes
      /\ UNCHANGED <<up, identityKey, primary, idFile, metaFile, valFile, life>>
  BY DEF BackupValue, Writes, memory, history
<1>2. valFile[cur.id] # Absent
  BY <1>1, WrittenTypes DEF StoreInv, DiskInv, TargetOK, FileOK
<1>3. pc' = "value" /\ UNCHANGED cur
  BY <1>2 DEF BackupValue, OnlyCrashes, Proceed
<1> QED BY <1>1, <1>3, MapInside DEF StoreStep

(* WriteValue: a reader sees the new value with the old checksum.           *)
LEMMA StepValue == ASSUME StoreInv, OnlyCrashes, WriteValue PROVE StoreStep
<1> DEFINE new == [val |-> cur.val, primary |-> primary, recovery |-> recovery]
<1>1. /\ pc = "value" /\ pc \in Writes /\ UNCHANGED <<idFile, metaFile, life>>
  BY DEF WriteValue, Writes, history
<1>w. PICK w \in Ids : w = cur.id
  BY <1>1, WrittenTypes
<1>2. /\ cur # Nil /\ primary # Nil /\ up /\ new \in Sealed
      /\ metaFile[w] \in Metadata
  BY <1>1, <1>w, WrittenTypes
<1>3. /\ valFile'[w] \in {valFile[w], new, Partial}
      /\ \A i \in Ids \ {w} : valFile'[i] = valFile[i]
  BY <1>w, <1>2, StoreTypes DEF WriteValue, Contents
<1>4. UNCHANGED Owner
  BY <1>1, OwnerIs
<1>5. \A i \in Ids \ {w} : Stage(i)' = Stage(i) /\ LastSettled(i)' = LastSettled(i)
  BY <1>1, <1>3, SameItem
<1>6. \/ Die
      \/ /\ Proceed("metadata") /\ UNCHANGED <<up, memory, cur>>
         /\ valFile' = [valFile EXCEPT ![w] = new]
  BY <1>w, <1>2 DEF WriteValue, WriteOutcomes, OnlyCrashes, Contents
<1>7. ASSUME ~Die PROVE UNCHANGED <<up, OpenWith, cur>> /\ valFile'[w] = new
  <2>1. UNCHANGED <<identityKey, primary>> /\ pc' # "load"
    BY <1>6, <1>7 DEF Proceed, memory
  <2> QED BY <1>1, <1>2, <1>6, <1>7, <2>1, StaysOpen, StoreTypes
<1>8. CASE Stage(w)' = Stage(w) /\ LastSettled(w)' = LastSettled(w)
  <2>1. UNCHANGED <<AbsStage, AbsValue>>
    BY <1>5, <1>8, SameItems
  <2>2. CASE Die
    BY <1>1, <1>2, <2>1, <2>2, MapStop DEF StoreStep, Store!Next
  <2>3. CASE ~Die
    BY <1>4, <1>7, <2>1, <2>3, MapStutter DEF StoreStep
  <2> QED BY <2>2, <2>3
<1>9. CASE ~(Stage(w)' = Stage(w) /\ LastSettled(w)' = LastSettled(w))
  <2>1. LastSettled(w) = metaFile[w].sum /\ LastSettled(w)' = metaFile[w].sum
    BY <1>1, <1>2, StageIs, NextStageIs
  <2>2. metaFile[w].sum # Nil
    BY <1>1, <1>2, <1>9, <2>1, StageIs, NextStageIs
  <2>3. /\ Stage(w) = IF Readable(w) THEN "settled" ELSE "unsettled"
        /\ Stage(w)' = IF Readable(w)' THEN "settled" ELSE "unsettled"
    BY <1>1, <1>2, <2>2, StageIs, NextStageIs
  <2>4. AbsStage[w] = Stage(w) /\ AbsValue[w] = metaFile[w].sum
    BY <1>2, <2>1 DEF AbsStage, AbsValue
  <2>5. Store!Become(w, Stage(w)', AbsValue[w])
    BY <1>2, <1>5, <2>1, <2>4, Becomes
  <2>6. CASE valFile'[w] = new
    <3>1. Readable(w)' <=> metaFile[w].sum = cur.val
      BY <1>1, <1>2, <2>6 DEF Readable
    <3>2. Stage(w)' = IF AbsValue[w] = cur.val THEN "settled" ELSE "unsettled"
      BY <2>3, <2>4, <3>1
    <3>3. AbsStage[w] \in {"settled", "unsettled"}
      BY <2>3, <2>4
    <3>4. Store!Halfway(w, cur.val)
      BY <2>5, <3>2, <3>3 DEF Store!Halfway, AbsStage, AbsValue
    <3>5. CASE Die
      <4>1. Store!Cut
        BY <1>w, <1>2, <1>4, <3>4, <3>5, HaltIs DEF Store!Cut
      <4> QED BY <4>1 DEF StoreStep, Store!Next
    <3>6. CASE ~Die
      <4>1. Store!GoOn
        BY <1>7, <3>6 DEF Store!GoOn
      <4>2. Store!Disturb
        BY <1>w, <1>2, <1>4, <3>4, <4>1 DEF Store!Disturb
      <4> QED BY <4>2 DEF StoreStep, Store!Next
    <3> QED BY <3>5, <3>6
  <2>7. CASE valFile'[w] = Partial
    <3>1. Stage(w)' = "unsettled" /\ Stage(w) = "settled"
      BY <1>9, <2>1, <2>3, <2>7, MarksDistinct DEF Readable
    <3>2. Die
      BY <1>2, <1>7, <2>7, MarksDistinct
    <3>3. Store!Cut
      BY <1>w, <1>2, <1>4, <2>4, <2>5, <3>1, <3>2, HaltIs DEF Store!Cut, AbsStage, AbsValue
    <3> QED BY <3>3 DEF StoreStep, Store!Next
  <2>8. CASE valFile'[w] = valFile[w]
    BY <1>1, <1>2, <1>9, <2>8, SameItem
  <2> QED BY <1>3, <2>6, <2>7, <2>8
<1> QED BY <1>8, <1>9

(* WriteMetadata: the write counts, or the item is torn.                    *)
LEMMA StepMetadata == ASSUME StoreInv, OnlyCrashes, WriteMetadata PROVE StoreStep
<1> DEFINE new == [sum |-> cur.val, by |-> primary]
<1>1. /\ pc = "metadata" /\ pc \in Writes /\ UNCHANGED <<idFile, valFile, life>>
  BY DEF WriteMetadata, Writes
<1>w. PICK w \in Ids : w = cur.id
  BY <1>1, WrittenTypes
<1>2. /\ cur # Nil /\ primary # Nil /\ up /\ new \in Metadata
      /\ cur.val # Nil /\ new.sum = cur.val
  BY <1>1, WrittenTypes, MarksDistinct
<1>3. valFile[w] \in Sealed /\ valFile[w].val = cur.val /\ life[w] # "unborn"
  BY <1>1, <1>w, <1>2 DEF StoreInv, ValueInv, WriteOK, BornOK
<1>4. /\ metaFile'[w] \in {metaFile[w], new, Partial, Empty}
      /\ \A i \in Ids \ {w} : metaFile'[i] = metaFile[i]
  BY <1>w, <1>2, StoreTypes DEF WriteMetadata, Contents
<1>5. UNCHANGED Owner
  BY <1>1, OwnerIs
<1>6. \A i \in Ids \ {w} : Stage(i)' = Stage(i) /\ LastSettled(i)' = LastSettled(i)
  BY <1>1, <1>4, SameItem
<1>7. Store!Become(w, Stage(w)', LastSettled(w)')
  BY <1>2, <1>6, Becomes
<1>8. CASE metaFile'[w] = new
  <2>1. Readable(w)'
    BY <1>1, <1>2, <1>3, <1>8 DEF Readable
  <2>2. Store!Become(w, "settled", cur.val)
    BY <1>2, <1>7, <1>8, <2>1, NextStageIs
  <2>3. CASE Die
    <3>1. Store!Cut
      BY <1>w, <1>2, <1>5, <2>2, <2>3, HaltIs DEF Store!Cut
    <3> QED BY <3>1 DEF StoreStep, Store!Next
  <2>4. CASE ~Die
    <3>1. /\ UNCHANGED <<up, identityKey, primary>> /\ cur' = Nil
          /\ pc' \in {"idle", "reseal"}
      BY <2>4 DEF WriteMetadata, WriteOutcomes, OnlyCrashes, Return, Proceed
    <3>2. UNCHANGED OpenWith
      BY <1>1, <3>1, StaysOpen
    <3>3. Store!Finish
      BY <1>w, <1>2, <1>5, <2>2, <3>1, <3>2 DEF Store!Finish
    <3> QED BY <3>3 DEF StoreStep, Store!Next
  <2> QED BY <2>3, <2>4
<1>9. CASE metaFile'[w] # new
  <2>1. Die
    BY <1>w, <1>2, <1>9, StoreTypes DEF WriteMetadata, WriteOutcomes, OnlyCrashes, Contents
  <2>2. CASE metaFile'[w] = metaFile[w]
    <3>1. UNCHANGED <<AbsStage, AbsValue>>
      BY <1>1, <1>2, <1>6, <2>2, SameItem, SameItems
    <3> QED BY <1>1, <1>2, <2>1, <3>1, MapStop DEF StoreStep, Store!Next
  <2>3. CASE metaFile'[w] \in {Partial, Empty}
    <3>1. Store!Become(w, "gone", Nil)
      BY <1>1, <1>2, <1>3, <1>7, <2>3, NextStageIs, MarksDistinct
    <3>2. Store!Cut
      BY <1>w, <1>2, <1>5, <2>1, <3>1, HaltIs DEF Store!Cut
    <3> QED BY <3>2 DEF StoreStep, Store!Next
  <2> QED BY <1>4, <1>9, <2>2, <2>3
<1> QED BY <1>8, <1>9

(* Deletion is done when the metadata file is gone.                         *)
LEMMA StepDelete ==
    ASSUME StoreInv, OnlyCrashes, NEW id \in Ids, DeleteItem(id) PROVE StoreStep
<1>1. up /\ pc = "idle" /\ cur = Nil
  BY DEF DeleteItem, Idle, StoreInv, SealInv, Inv, LockOK, Writes
<1>2. CASE Refuse("error")
  BY <1>1, <1>2, MapRefuse DEF StoreStep
<1>3. life \in [Ids -> {"unborn", "lost", "created", "deleted"}]
  BY DEF StoreInv, SealInv, Inv, TypeOK, HistoryOK
<1>4. CASE /\ life' = [life EXCEPT ![id] = IF @ = "created" THEN "deleted" ELSE @]
           /\ Return("ok") /\ UNCHANGED <<up, memory, disk>>
  <2>1. \A i \in Ids : life'[i] = "unborn" <=> life[i] = "unborn"
    BY <1>3, <1>4
  <2>2. /\ UNCHANGED <<up, identityKey, primary, idFile, metaFile, valFile, cur>>
        /\ pc' = "idle"
    BY <1>1, <1>4 DEF Return, memory, disk
  <2> QED BY <1>1, <2>1, <2>2, OwnerIs, StaysOpen, SameView, MapStutter DEF StoreStep
<1>5. CASE /\ items[id] # Absent
           /\ metaFile' = [metaFile EXCEPT ![id] = Absent] /\ Proceed("deleteValue")
           /\ UNCHANGED <<up, identityKey, primary, idFile, valFile, cur, life>>
  <2>1. primary # Nil /\ life[id] # "unborn"
    BY <1>5 DEF StoreInv, SealInv, Inv, LockOK, ValueInv, BornOK
  <2>2. metaFile[id] \in Metadata
    BY <1>1, <1>5, <2>1 DEF StoreInv, DiskInv, IndexOK
  <2>3. \A i \in Ids \ {id} :
            Stage(i)' = Stage(i) /\ LastSettled(i)' = LastSettled(i)
    BY <1>5, StoreTypes, SameItem
  <2>4. metaFile'[id] = Absent
    BY <1>5, StoreTypes
  <2>5. Stage(id)' = "gone" /\ LastSettled(id)' = Nil
    BY <1>5, <2>1, <2>4, NextStageIs, MarksDistinct
  <2>6. Store!Become(id, "gone", Nil)
    BY <2>3, <2>5, Becomes
  <2>7. AbsStage[id] \in {"empty", "settled", "unsettled"}
    BY <2>2, StageIs DEF AbsStage
  <2>8. OpenWith # Nil /\ UNCHANGED <<OpenWith, Owner>>
    BY <1>1, <1>5, <2>1, OpenStore, StaysOpen, OwnerIs DEF Proceed
  <2>9. Store!Delete(id)
    BY <1>1, <1>5, <2>6, <2>7, <2>8 DEF Store!Delete, Store!Live, Store!GoOn, AbsStage
  <2> QED BY <2>9 DEF StoreStep, Store!Next
<1> QED BY <1>2, <1>4, <1>5 DEF DeleteItem, Remains, OnlyCrashes

LEMMA StepDeleteValue == ASSUME StoreInv, DeleteValue PROVE StoreStep
<1>1. /\ pc = "deleteValue" /\ pc' = "idle" /\ cur = Nil /\ cur' = Nil
      /\ UNCHANGED <<up, identityKey, primary, idFile, metaFile>>
  BY DEF DeleteValue, Return, memory, StoreInv, SealInv, Inv, LockOK, Writes
<1>2. PICK id \in todo : /\ life' = [life EXCEPT ![id] = "deleted"]
                         /\ \A i \in Ids \ {id} : valFile'[i] = valFile[i]
  BY StoreTypes DEF DeleteValue
<1>3. id \in Ids /\ metaFile[id] \notin Metadata /\ life[id] # "unborn"
  BY <1>1, <1>2, StoreTypes DEF StoreInv, DiskInv, TodoOK, ValueInv, BornOK
<1>4. life \in [Ids -> {"unborn", "lost", "created", "deleted"}]
  BY DEF StoreInv, SealInv, Inv, TypeOK, HistoryOK
<1>5. \A i \in Ids \ {id} : Stage(i)' = Stage(i) /\ LastSettled(i)' = LastSettled(i)
  BY <1>1, <1>2, <1>4, SameItem
<1>6. Stage(id)' = Stage(id) /\ LastSettled(id)' = LastSettled(id)
  BY <1>1, <1>2, <1>3, <1>4, StageIs, NextStageIs
<1>7. UNCHANGED <<OpenWith, Owner, AbsStage, AbsValue>>
  BY <1>1, <1>5, <1>6, SameItems, StaysOpen, OwnerIs
<1> QED BY <1>1, <1>7, MapStutter DEF StoreStep

LEMMA StepNext ==
    ASSUME OnlyCrashes
    PROVE  StoreInv /\ [Next]_vars => [Store!Next]_(Store!vars)
<1> SUFFICES ASSUME StoreInv, [Next]_vars PROVE StoreStep
  BY DEF StoreStep
<1>1. CASE Begin
  BY <1>1, StepUnlock, StepLock, StepCreate, StepInside, StepDelete, StepSet DEF Begin
<1>2. CASE Continue
  BY <1>2, StepVerify, StepGenerate, StepLoad, StepBackup, StepValue, StepMetadata,
     StepDeleteValue, StepInside, StepReseal DEF Continue
<1>3. CASE NewVault \/ Crash
  BY <1>3, StepProcess
<1>4. CASE UNCHANGED vars
  <2>1. UNCHANGED <<up, identityKey, primary, pc, cur, idFile, metaFile, valFile, life>>
    BY <1>4 DEF vars, memory, disk, call, history
  <2> QED BY <2>1, OwnerIs, SameView, MapStutter DEF StoreStep, OpenWith
<1> QED BY <1>1, <1>2, <1>3, <1>4 DEF Next

(* Over a backend that reports no errors, with a process that may die       *)
(* between any two backend calls or inside a WriteFile: every behaviour of  *)
(* the vault is one of SecretStore.                                         *)
THEOREM VaultImplementsStore ==
    ASSUME OnlyCrashes
    PROVE  Spec => ImplementsStore
<1>1. Init => Store!Init
  <2> SUFFICES ASSUME Init PROVE Store!Init
    OBVIOUS
  <2>1. OpenWith = Nil /\ Owner = Nil
    BY OpenIs, OwnerIs DEF Init
  <2>2. \A i \in Ids : Stage(i) = "unborn" /\ LastSettled(i) = Nil
    BY StageIs, MarksDistinct DEF Init
  <2> QED BY <2>1, <2>2 DEF Init, Store!Init
<1>2. StoreInv /\ [Next]_vars => [Store!Next]_(Store!vars)
  BY StepNext
<1> QED BY <1>1, <1>2, StoreInvHolds, PTL DEF Spec, ImplementsStore, Store!Spec
=============================================================================
