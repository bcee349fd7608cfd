-------------------------- MODULE VaultSafetyProofs --------------------------
(***************************************************************************)
(* The safety properties of Vault for every value of its constants and,    *)
(* unless an assumption says otherwise, under every set of faults.         *)
(***************************************************************************)
EXTENDS VaultProofs
-----------------------------------------------------------------------------
(* One identity seals everything.                                           *)

(* An unlocked vault works with the identity that .identity holds, opened   *)
(* with the key of that file.                                               *)
IdentityLoaded ==
    primary # Nil =>
        idFile \in IdentityFile /\ idFile.ident = primary /\ idFile.key = identityKey

SealInv == Inv /\ SealedByIdentity /\ IdentityLoaded

(* A step that leaves the three kinds of files alone.                       *)
LEMMA SealFrame ==
    ASSUME SealInv, Inv', UNCHANGED <<idFile, metaFile, valFile>>,
           primary' = Nil \/ UNCHANGED <<identityKey, primary>>
    PROVE  SealInv'
BY DEF SealInv, SealedByIdentity, IdentityLoaded

(* The end of a step that leaves identityKey and primary alone or forgets   *)
(* them.                                                                    *)
LEMMA EndKeepsKeys ==
    /\ Die => primary' = Nil
    /\ Abandon /\ UNCHANGED memory => UNCHANGED <<identityKey, primary>>
    /\ \A r \in {"ok", "error"} :
          Refuse(r) => UNCHANGED <<identityKey, primary, disk, history>>
BY DEF Die, Forget, Refuse, memory

LEMMA SealBegin == ASSUME SealInv, Inv', Begin PROVE SealInv'
<1>1. ASSUME NEW p \in Passphrases, Unlock(p) PROVE SealInv'
  <2>1. CASE IsLocked
    <3>1. primary = Nil
      BY <2>1 DEF SealInv, Inv, LockOK, IsLocked
    <3>2. primary' = Nil /\ UNCHANGED <<idFile, metaFile, valFile>>
      BY <1>1, <2>1, <3>1 DEF Unlock, disk
    <3> QED BY <3>2, SealFrame
  <2>2. CASE ~IsLocked
    BY <1>1, <2>2, SealFrame DEF Unlock, Refuse, memory, disk
  <2> QED BY <2>1, <2>2
<1>2. CASE Lock
  BY <1>2, SealFrame DEF Lock, Refuse, Forget, memory, disk
<1>3. ASSUME NEW id \in Ids, CreateItem(id) PROVE SealInv'
  <2>1. CASE UNCHANGED disk
    BY <1>3, <2>1, SealFrame DEF CreateItem, Refuse, Die, Forget, memory, disk
  <2>2. CASE primary # Nil /\ ~(UNCHANGED disk)
    <3>1. /\ \E c \in {Absent, Partial, Empty, [sum |-> Nil, by |-> primary]} :
                metaFile' = [metaFile EXCEPT ![id] = c]
          /\ UNCHANGED <<idFile, valFile>>
      BY <1>3, <2>2 DEF CreateItem, Refuse, Contents, disk
    <3>2. primary' = Nil \/ UNCHANGED <<identityKey, primary>>
      BY <1>3, <2>2 DEF CreateItem, Refuse, Die, Forget, memory
    <3>3. SealedByIdentity'
      BY <2>2, <3>1, MarksDistinct
         DEF SealInv, Inv, TypeOK, DiskOK, SealedByIdentity, IdentityLoaded, Metadata
    <3>4. IdentityLoaded'
      BY <3>1, <3>2 DEF SealInv, IdentityLoaded
    <3> QED BY <3>3, <3>4 DEF SealInv
  <2> QED BY <1>3, <2>1, <2>2 DEF CreateItem, Refuse
<1>4. ASSUME NEW id \in Ids, GetItem(id) PROVE SealInv'
  BY <1>4, SealFrame DEF GetItem, Refuse, Die, Forget, memory, disk
<1>5. ASSUME NEW id \in Ids, DeleteItem(id) PROVE SealInv'
  <2>1. UNCHANGED <<idFile, valFile, identityKey, primary>>
    BY <1>5 DEF DeleteItem, Refuse, memory, disk
  <2>2. \A i \in Ids : metaFile'[i] \in {metaFile[i], Absent}
    BY <1>5 DEF DeleteItem, Refuse, Remains, disk, SealInv, Inv, TypeOK, DiskOK
  <2>3. SealedByIdentity' /\ IdentityLoaded'
    BY <2>1, <2>2, MarksDistinct DEF SealInv, SealedByIdentity, IdentityLoaded
  <2> QED BY <2>3 DEF SealInv
<1>6. ASSUME NEW id \in Ids, NEW v \in Values \cup {Nil}, SetItemValue(id, v)
      PROVE  SealInv'
  BY <1>6, SealFrame DEF SetItemValue, Refuse, memory, disk
<1>7. ASSUME NEW r \in Recipients, SetRecoveryRecipient(r) PROVE SealInv'
  BY <1>7, SealFrame DEF SetRecoveryRecipient, Refuse, Die, Forget, memory, disk
<1> QED BY <1>1, <1>2, <1>3, <1>4, <1>5, <1>6, <1>7 DEF Begin

LEMMA SealContinue == ASSUME SealInv, Inv', Continue PROVE SealInv'
<1>1. CASE VerifyIdentity
  <2>1. UNCHANGED <<idFile, metaFile, valFile>>
    BY <1>1 DEF VerifyIdentity, disk
  <2>2. CASE primary' = idFile.ident /\ IdentityOpens /\ UNCHANGED identityKey
    BY <2>1, <2>2 DEF SealInv, SealedByIdentity, IdentityLoaded, IdentityOpens
  <2>3. CASE primary' = Nil \/ (UNCHANGED primary /\ primary = Nil)
    BY <2>1, <2>3, SealFrame
  <2>4. primary = Nil
    BY <1>1 DEF SealInv, Inv, LockOK, VerifyIdentity
  <2> QED BY <1>1, <2>2, <2>3, <2>4 DEF VerifyIdentity, Die, Forget
<1>2. ASSUME NEW ident \in Identities, GenerateIdentity(ident) PROVE SealInv'
  <2>1. idFile = Absent /\ primary = Nil /\ UNCHANGED <<metaFile, valFile>>
    BY <1>2 DEF GenerateIdentity, NoIdentity, SealInv, Inv, LockOK
  <2>2. SealedByIdentity'
    BY <2>1, MarksDistinct DEF SealInv, SealedByIdentity
  <2>3. CASE primary' = Nil
    BY <2>2, <2>3 DEF SealInv, IdentityLoaded
  <2>4. CASE /\ idFile' = [key |-> identityKey, ident |-> ident]
             /\ primary' = ident /\ UNCHANGED identityKey
    <3>1. idFile' \in IdentityFile
      BY <1>2, <2>4 DEF GenerateIdentity, SealInv, Inv, TypeOK, MemoryOK, LockOK,
         IdentityFile
    <3> QED BY <2>2, <2>4, <3>1 DEF SealInv, IdentityLoaded
  <2> QED BY <1>2, <2>1, <2>3, <2>4 DEF GenerateIdentity, Contents, Die, Forget, memory
<1>3. CASE LoadItems
  BY <1>3, SealFrame DEF LoadItems, Die, Forget, memory, disk
<1>4. CASE BackupValue
  BY <1>4, SealFrame DEF BackupValue, memory
<1>5. CASE WriteValue
  <2>1. cur.id \in Ids /\ primary # Nil
    BY <1>5, WritingFacts, MarksDistinct DEF SealInv, WriteValue, Writes
  <2>2. /\ \E c \in {valFile[cur.id], Partial,
                    [val |-> cur.val, primary |-> primary, recovery |-> recovery]} :
              valFile' = [valFile EXCEPT ![cur.id] = c]
        /\ UNCHANGED <<idFile, metaFile>>
    BY <1>5 DEF WriteValue, Contents
  <2>3. primary' = Nil \/ UNCHANGED <<identityKey, primary>>
    BY <1>5 DEF WriteValue, Die, Forget, memory
  <2>4. SealedByIdentity'
    BY <2>1, <2>2, MarksDistinct
       DEF SealInv, Inv, TypeOK, DiskOK, SealedByIdentity, IdentityLoaded, Sealed
  <2>5. IdentityLoaded'
    BY <2>2, <2>3 DEF SealInv, IdentityLoaded
  <2> QED BY <2>4, <2>5 DEF SealInv
<1>6. CASE WriteMetadata
  <2>1. cur.id \in Ids /\ primary # Nil
    BY <1>6, WritingFacts, MarksDistinct DEF SealInv, WriteMetadata, Writes
  <2>2. /\ \E c \in {metaFile[cur.id], Partial, Empty,
                    [sum |-> cur.val, by |-> primary]} :
              metaFile' = [metaFile EXCEPT ![cur.id] = c]
        /\ UNCHANGED <<idFile, valFile>>
    BY <1>6 DEF WriteMetadata, Contents
  <2>3. primary' = Nil \/ UNCHANGED <<identityKey, primary>>
    BY <1>6 DEF WriteMetadata, Die, Forget, memory
  <2>4. SealedByIdentity'
    BY <2>1, <2>2, MarksDistinct
       DEF SealInv, Inv, TypeOK, DiskOK, SealedByIdentity, IdentityLoaded, Metadata
  <2>5. IdentityLoaded'
    BY <2>2, <2>3 DEF SealInv, IdentityLoaded
  <2> QED BY <2>4, <2>5 DEF SealInv
<1>7. CASE DeleteValue
  <2>1. UNCHANGED <<idFile, metaFile, identityKey, primary>>
    BY <1>7 DEF DeleteValue, memory
  <2>2. \A i \in Ids : valFile'[i] \in {valFile[i], Absent}
    BY <1>7 DEF DeleteValue, Remains, SealInv, Inv, TypeOK, DiskOK
  <2>3. SealedByIdentity' /\ IdentityLoaded'
    BY <2>1, <2>2, MarksDistinct DEF SealInv, SealedByIdentity, IdentityLoaded
  <2> QED BY <2>3 DEF SealInv
<1>8. CASE RestoreRecipient
  BY <1>8, SealFrame DEF RestoreRecipient, Die, Forget, memory
<1>9. CASE ReloadMetadata
  BY <1>9, SealFrame DEF ReloadMetadata, Die, Forget, memory, disk
<1>10. CASE FinishRecovery
  BY <1>10, SealFrame DEF FinishRecovery, memory, disk
<1>11. ASSUME NEW id \in Ids, ResealItem(id) PROVE SealInv'
  BY <1>11, SealFrame DEF ResealItem, Die, Forget, memory, disk
<1> QED BY <1>1, <1>2, <1>3, <1>4, <1>5, <1>6, <1>7, <1>8, <1>9, <1>10, <1>11
    DEF Continue

LEMMA SealNext == SealInv /\ [Next]_vars => SealInv'
<1> SUFFICES ASSUME SealInv, [Next]_vars PROVE SealInv'
  OBVIOUS
<1>1. Inv'
  BY NextInv DEF SealInv
<1>2. CASE NewVault
  BY <1>1, <1>2, SealFrame DEF NewVault, disk
<1>3. CASE Crash
  BY <1>1, <1>3, SealFrame DEF Crash, Die, Forget, disk
<1>4. CASE UNCHANGED vars
  BY <1>1, <1>4, SealFrame DEF vars, memory, disk
<1> QED BY <1>1, <1>2, <1>3, <1>4, SealBegin, SealContinue DEF Next

LEMMA SealInvHolds == Spec => []SealInv
<1>1. Init => SealInv
  BY InitInv, MarksDistinct DEF Init, SealInv, SealedByIdentity, IdentityLoaded
<1>2. SealInv /\ [Next]_vars => SealInv'
  BY SealNext
<1> QED BY <1>1, <1>2, PTL DEF Spec

(* Under every set of faults: each intact file was written under the        *)
(* identity that .identity holds.                                           *)
THEOREM OneIdentity == Spec => []SealedByIdentity
<1>1. SealInv => SealedByIdentity
  BY DEF SealInv
<1> QED BY <1>1, SealInvHolds, PTL

LEMMA IdentityStep == Next /\ idFile \in IdentityFile => idFile' = idFile
<1> SUFFICES ASSUME Next, idFile \in IdentityFile PROVE idFile' = idFile
  OBVIOUS
<1>1. CASE NewVault \/ Crash
  BY <1>1 DEF NewVault, Crash, disk
<1>2. CASE Begin
  BY <1>2 DEF Begin, Unlock, Lock, CreateItem, GetItem, DeleteItem, SetItemValue,
     SetRecoveryRecipient, Refuse, disk
<1>3. CASE Continue
  BY <1>3, MarksDistinct
     DEF Continue, VerifyIdentity, GenerateIdentity, NoIdentity, LoadItems,
     BackupValue, WriteValue, WriteMetadata, DeleteValue, RestoreRecipient,
     ReloadMetadata, FinishRecovery, ResealItem, disk
<1> QED BY <1>1, <1>2, <1>3 DEF Next

(* An intact .identity is written by no step: GenerateIdentity runs only    *)
(* when the file is missing.                                                *)
THEOREM IdentityStays == Spec => IdentityNeverRewritten
<1>1. [Next]_vars => [(idFile \in IdentityFile) => (idFile' = idFile)]_vars
  BY IdentityStep
<1> QED BY <1>1, PTL DEF Spec, IdentityNeverRewritten
-----------------------------------------------------------------------------
(* The recovery recipient.                                                  *)

LEMMA RecoveryFrame ==
    ASSUME Inv, RecoveryOnDisk, pc # "restore",
           \/ recovery' = Nil
           \/ UNCHANGED <<recovery, recFile>>
    PROVE  RecoveryOnDisk'
BY DEF RecoveryOnDisk

LEMMA RecoveryNext == Inv /\ RecoveryOnDisk /\ [Next]_vars => RecoveryOnDisk'
<1> SUFFICES ASSUME Inv, RecoveryOnDisk, [Next]_vars PROVE RecoveryOnDisk'
  OBVIOUS
<1>1. CASE NewVault
  <2>1. recFile \in Recipients \cup {Absent}
    BY <1>1 DEF NewVault, Inv, TypeOK, DiskOK
  <2> QED BY <1>1, <2>1 DEF NewVault, LoadRecoveryRecipient, RecoveryOnDisk, disk
<1>2. CASE Crash
  BY <1>2 DEF Crash, Die, RecoveryOnDisk
<1>3. CASE UNCHANGED vars
  BY <1>3 DEF vars, memory, disk, call, RecoveryOnDisk
<1>4. ASSUME NEW r \in Recipients, SetRecoveryRecipient(r) PROVE RecoveryOnDisk'
  <2>1. pc = "idle" \/ Refuse("error")
    BY <1>4 DEF SetRecoveryRecipient, Idle
  <2>2. CASE Refuse("error") \/ Die
    BY <1>4, <2>2 DEF SetRecoveryRecipient, Idle, Refuse, Die, RecoveryOnDisk,
       memory, disk
  <2>3. CASE recFile' = r /\ recovery' = r
    BY <2>3 DEF RecoveryOnDisk
  <2>4. CASE recovery = Nil /\ UNCHANGED memory
    BY <2>4 DEF RecoveryOnDisk, memory
  <2>5. CASE Proceed("restore")
    BY <2>5 DEF RecoveryOnDisk, Proceed
  <2> QED BY <1>4, <2>2, <2>3, <2>4, <2>5 DEF SetRecoveryRecipient, Contents
<1>5. CASE RestoreRecipient
  <2>1. CASE recFile' = recovery /\ UNCHANGED memory
    BY <2>1 DEF RecoveryOnDisk, memory
  <2>2. CASE Proceed("restore")
    BY <2>2 DEF RecoveryOnDisk, Proceed
  <2>3. CASE Die
    BY <2>3 DEF RecoveryOnDisk, Die
  <2> QED BY <1>5, <2>1, <2>2, <2>3 DEF RestoreRecipient, Contents
<1>6. CASE Begin /\ ~\E r \in Recipients : SetRecoveryRecipient(r)
  <2>1. pc # "restore"
    BY <1>6 DEF Begin, Unlock, Lock, CreateItem, GetItem, DeleteItem, SetItemValue,
       Idle
  <2>2. recovery' = Nil \/ UNCHANGED <<recovery, recFile>>
    BY <1>6 DEF Begin, Unlock, Lock, CreateItem, GetItem, DeleteItem, SetItemValue,
       Refuse, Die, memory, disk
  <2> QED BY <2>1, <2>2, RecoveryFrame
<1>7. CASE Continue /\ ~RestoreRecipient
  <2>1. pc # "restore"
    BY <1>7 DEF Continue, VerifyIdentity, GenerateIdentity, LoadItems, BackupValue,
       WriteValue, WriteMetadata, DeleteValue, ReloadMetadata, FinishRecovery,
       ResealItem
  <2>2. recovery' = Nil \/ UNCHANGED <<recovery, recFile>>
    BY <1>7 DEF Continue, VerifyIdentity, GenerateIdentity, LoadItems, BackupValue,
       WriteValue, WriteMetadata, DeleteValue, ReloadMetadata, FinishRecovery,
       ResealItem, Die, memory, disk
  <2> QED BY <2>1, <2>2, RecoveryFrame
<1> QED BY <1>1, <1>2, <1>3, <1>4, <1>5, <1>6, <1>7 DEF Next

(* Under every set of faults: a vault that seals to a recovery recipient    *)
(* finds the same one in .recovery after a restart.                         *)
THEOREM RecoveryStays == Spec => []RecoveryOnDisk
<1>1. Init => Inv /\ RecoveryOnDisk
  BY InitInv DEF Init, RecoveryOnDisk
<1>2. (Inv /\ RecoveryOnDisk) /\ [Next]_vars => (Inv /\ RecoveryOnDisk)'
  BY NextInv, RecoveryNext
<1> QED BY <1>1, <1>2, PTL DEF Spec
-----------------------------------------------------------------------------
(* Deletion, over a backend that reads and deletes the files it is asked to;*)
(* writes may fail and the process may die.                                 *)

DeletesAndReads == Faults \cap {"read", "delete"} = {}

Unlisted(i) == metaFile[i] \notin Metadata

(* Nothing is left of a deleted item that a listing would show.             *)
KeptOK == \A i \in Ids : life[i] = "deleted" => Unlisted(i) /\ items[i] = Absent

(* What a caller believes deleted because it is not listed has no metadata  *)
(* file either.  A vault whose .identity could not be written counts as     *)
(* unlocked and lists nothing; no metadata file exists then.                *)
ListedOK ==
    /\ (primary # Nil /\ pc # "load") =>
          \A i \in Ids : (life[i] = "created" /\ items[i] = Absent) => Unlisted(i)
    /\ (identityKey # Nil /\ primary = Nil /\ pc = "idle") =>
          \A i \in Ids : Unlisted(i)

(* No operation is about to write a deleted item again.                     *)
MayWrite(i) == life[i] # "deleted" /\ (life[i] = "created" => items[i] # Absent)

BusyOK ==
    /\ pc \in Writes => MayWrite(cur.id)
    /\ pc = "deleteValue" => \A i \in todo : Unlisted(i) /\ items[i] = Absent
    /\ pc # "deleteValue" => \A i \in todo : MayWrite(i)

DeleteOK == KeptOK /\ ListedOK /\ BusyOK
DeleteInv == SealInv /\ DeleteOK

(* A step that writes no metadata file and leaves the listing alone.        *)
LEMMA DeleteFrame ==
    ASSUME DeleteOK, UNCHANGED <<metaFile, life, items, identityKey, primary>>,
           pc \notin {"load", "deleteValue"}, pc' \notin {"load", "deleteValue"},
           todo' \subseteq todo,
           pc' = "idle" => pc = "idle" \/ primary # Nil,
           pc' \in Writes => pc \in Writes /\ UNCHANGED cur
    PROVE  DeleteOK'
<1>1. KeptOK'
  BY DEF DeleteOK, KeptOK, Unlisted
<1>2. ListedOK'
  BY DEF DeleteOK, ListedOK, Unlisted
<1>3. BusyOK'
  BY DEF DeleteOK, BusyOK, MayWrite
<1> QED BY <1>1, <1>2, <1>3 DEF DeleteOK

(* A step that empties the memory.                                          *)
LEMMA DeleteForget ==
    ASSUME DeleteOK, Forget, UNCHANGED <<metaFile, life>>, pc' = "idle", todo' = {}
    PROVE  DeleteOK'
<1>1. KeptOK'
  BY DEF DeleteOK, KeptOK, Unlisted, Forget, NoItems
<1>2. ListedOK'
  BY DEF ListedOK, Forget
<1>3. BusyOK'
  BY DEF BusyOK, Writes
<1> QED BY <1>1, <1>2, <1>3 DEF DeleteOK

LEMMA DeleteDie ==
    ASSUME DeleteOK, Die, UNCHANGED <<metaFile, life>> PROVE DeleteOK'
BY DeleteForget DEF Die, Return

LEMMA DeleteRefuse ==
    ASSUME DeleteOK, pc = "idle", NEW r \in {"ok", "error"}, Refuse(r)
    PROVE  DeleteOK'
<1>1. /\ UNCHANGED <<metaFile, life, items, identityKey, primary>>
      /\ pc' = "idle" /\ todo' = {}
  BY DEF Refuse, Return, memory, disk, history
<1> QED BY <1>1, DeleteFrame DEF Writes

LEMMA DeleteUnlock ==
    ASSUME DeleteInv, NEW p \in Passphrases, Unlock(p) PROVE DeleteOK'
<1>1. CASE Refuse("ok")
  BY <1>1, DeleteRefuse DEF Unlock, Idle, DeleteInv
<1>2. CASE /\ IsLocked /\ Proceed("identity")
           /\ UNCHANGED <<up, primary, recovery, items, disk, cur, todo, tries,
                          history>>
  <2>1. primary = Nil /\ pc = "idle"
    BY <1>2 DEF Unlock, Idle, IsLocked, DeleteInv, SealInv, Inv, LockOK
  <2>2. UNCHANGED <<metaFile, life, items, primary, todo>> /\ pc' = "identity"
    BY <1>2 DEF Proceed, disk, history
  <2>3. KeptOK'
    BY <2>2 DEF DeleteInv, DeleteOK, KeptOK, Unlisted
  <2>4. ListedOK'
    BY <2>1, <2>2 DEF ListedOK
  <2>5. BusyOK'
    BY <2>1, <2>2 DEF DeleteInv, DeleteOK, BusyOK, MayWrite, Writes
  <2> QED BY <2>3, <2>4, <2>5 DEF DeleteOK
<1> QED BY <1>1, <1>2 DEF Unlock

LEMMA DeleteIdentity ==
    ASSUME DeleteInv,
           VerifyIdentity \/ \E ident \in Identities : GenerateIdentity(ident)
    PROVE  DeleteOK'
<1>1. /\ pc = "identity" /\ primary = Nil /\ UNCHANGED <<metaFile, life>>
      /\ idFile = Absent \/ VerifyIdentity
  BY DEF VerifyIdentity, GenerateIdentity, NoIdentity, disk, history, DeleteInv,
     SealInv, Inv, LockOK
<1>2. CASE Die
  BY <1>1, <1>2, DeleteDie DEF DeleteInv
<1>3. CASE Proceed("load") /\ UNCHANGED <<items, todo>>
  <2>1. KeptOK'
    BY <1>1, <1>3 DEF DeleteInv, DeleteOK, KeptOK, Unlisted
  <2>2. ListedOK'
    BY <1>3 DEF ListedOK, Proceed
  <2>3. BusyOK'
    BY <1>1, <1>3 DEF DeleteInv, DeleteOK, BusyOK, MayWrite, Writes, Proceed
  <2> QED BY <2>1, <2>2, <2>3 DEF DeleteOK
<1>4. CASE /\ Return("error") /\ UNCHANGED <<items, primary>>
           /\ identityKey' = Nil \/ idFile = Absent
  <2>1. KeptOK'
    BY <1>1, <1>4 DEF DeleteInv, DeleteOK, KeptOK, Unlisted
  <2>2. ListedOK'
    BY <1>1, <1>4, MarksDistinct
       DEF ListedOK, Unlisted, DeleteInv, SealInv, SealedByIdentity
  <2>3. BusyOK'
    BY <1>4 DEF BusyOK, Writes, Return
  <2> QED BY <2>1, <2>2, <2>3 DEF DeleteOK
<1> QED BY <1>1, <1>2, <1>3, <1>4 DEF VerifyIdentity, GenerateIdentity, memory

LEMMA DeleteLoad ==
    ASSUME DeletesAndReads, DeleteInv, LoadItems PROVE DeleteOK'
<1>1. pc = "load" /\ primary # Nil /\ UNCHANGED <<metaFile, life>>
  BY DEF LoadItems, disk, history, DeleteInv, SealInv, Inv, LockOK, Unlocked
<1>2. CASE Die
  BY <1>1, <1>2, DeleteDie DEF DeleteInv
<1>3. CASE /\ items' = [i \in Ids |-> IF i \in Legible \ {} THEN metaFile[i].sum
                                                          ELSE Absent]
           /\ Return("ok") /\ UNCHANGED primary
  <2>1. \A i \in Ids : Unlisted(i) => items'[i] = Absent
    BY <1>3 DEF Legible, Unlisted
  <2>2. \A i \in Ids : ~Unlisted(i) => items'[i] # Absent
    <3> SUFFICES ASSUME NEW i \in Ids, ~Unlisted(i) PROVE items'[i] # Absent
      OBVIOUS
    <3>1. metaFile[i].by = primary
      BY <1>1 DEF Unlisted, DeleteInv, SealInv, SealedByIdentity, IdentityLoaded
    <3>2. metaFile[i].sum # Absent
      BY MarksDistinct DEF Unlisted, Metadata
    <3> QED BY <1>3, <3>1, <3>2 DEF Legible, Unlisted
  <2>3. KeptOK'
    BY <1>1, <2>1 DEF DeleteInv, DeleteOK, KeptOK, Unlisted
  <2>4. ListedOK'
    BY <1>1, <1>3, <2>2 DEF ListedOK, Unlisted
  <2>5. BusyOK'
    BY <1>3 DEF BusyOK, Writes, Return
  <2> QED BY <2>3, <2>4, <2>5 DEF DeleteOK
<1> QED BY <1>2, <1>3 DEF LoadItems, Unreadable, DeletesAndReads

(* Calls that hold the lock and write no metadata file.                     *)
LEMMA DeleteQuiet ==
    ASSUME DeleteInv,
           \/ NewVault \/ Crash \/ Lock \/ RestoreRecipient \/ FinishRecovery
           \/ \E id \in Ids : GetItem(id)
           \/ \E r \in Recipients : SetRecoveryRecipient(r)
    PROVE  DeleteOK'
<1>1. CASE NewVault
  <2>1. pc = "idle" /\ UNCHANGED <<metaFile, life, items, identityKey, primary>>
        /\ UNCHANGED <<pc, todo>>
    BY <1>1 DEF NewVault, disk, call, history, DeleteInv, SealInv, Inv, LockOK
  <2> QED BY <2>1, DeleteFrame DEF DeleteInv, Writes
<1>2. CASE Crash
  BY <1>2, DeleteDie DEF Crash, disk, history, DeleteInv
<1>3. CASE Lock
  BY <1>3, DeleteRefuse, DeleteForget DEF Lock, Idle, Return, disk, history, DeleteInv
<1>4. ASSUME NEW id \in Ids, GetItem(id) PROVE DeleteOK'
  BY <1>4, DeleteRefuse, DeleteDie DEF GetItem, Idle, disk, history, DeleteInv
<1>5. ASSUME NEW r \in Recipients, SetRecoveryRecipient(r) PROVE DeleteOK'
  <2>1. CASE Refuse("error")
    BY <1>5, <2>1, DeleteRefuse DEF SetRecoveryRecipient, Idle, DeleteInv
  <2>2. CASE Die
    BY <1>5, <2>2, DeleteDie DEF SetRecoveryRecipient, Refuse, disk, history, DeleteInv
  <2>3. CASE ~Refuse("error") /\ ~Die
    <3>1. /\ pc = "idle" /\ UNCHANGED <<metaFile, life, items, identityKey, primary>>
          /\ pc' \in {"idle", "reload", "restore"}
          /\ todo' \in {{}, todo}
      BY <1>5, <2>3 DEF SetRecoveryRecipient, Idle, Proceed, Return, memory
    <3> QED BY <3>1, DeleteFrame DEF DeleteInv, Writes
  <2> QED BY <2>1, <2>2, <2>3
<1>6. CASE RestoreRecipient
  <2>1. CASE Die
    BY <1>6, <2>1, DeleteDie DEF RestoreRecipient, DeleteInv
  <2>2. CASE ~Die
    <3>1. /\ pc = "restore" /\ UNCHANGED <<metaFile, life, items, identityKey, primary>>
          /\ pc' \in {"idle", "restore"}
          /\ todo' \in {{}, todo} /\ primary # Nil
      BY <1>6, <2>2 DEF RestoreRecipient, Proceed, Return, memory, DeleteInv,
         SealInv, Inv, LockOK, Unlocked
    <3> QED BY <3>1, DeleteFrame DEF DeleteInv, Writes
  <2> QED BY <2>1, <2>2
<1>7. CASE FinishRecovery
  <2>1. /\ pc = "reseal" /\ UNCHANGED <<metaFile, life, items, identityKey, primary>>
        /\ pc' = "idle" /\ todo' = {} /\ primary # Nil
    BY <1>7 DEF FinishRecovery, Return, memory, disk, DeleteInv, SealInv, Inv,
       LockOK, Unlocked
  <2> QED BY <2>1, DeleteFrame DEF DeleteInv, Writes
<1> QED BY <1>1, <1>2, <1>3, <1>4, <1>5, <1>6, <1>7

LEMMA DeleteCreate ==
    ASSUME DeleteInv, NEW id \in Ids, CreateItem(id) PROVE DeleteOK'
<1>1. CASE Refuse("error")
  BY <1>1, DeleteRefuse DEF CreateItem, Idle, DeleteInv
<1>2. CASE UNCHANGED <<disk, history>> /\ Die
  BY <1>2, DeleteDie DEF disk, history, DeleteInv
<1>3. CASE /\ ~Refuse("error") /\ ~(UNCHANGED <<disk, history>> /\ Die)
  <2>1. /\ pc = "idle" /\ primary # Nil /\ life[id] = "unborn"
        /\ pc' = "idle" /\ todo' = {}
    BY <1>3 DEF CreateItem, Idle, Die, Return
  <2>2. /\ life'[id] \in {"created", "lost"}
        /\ \A i \in Ids \ {id} : life'[i] = life[i] /\ metaFile'[i] = metaFile[i]
    BY <1>3 DEF CreateItem, DeleteInv, SealInv, Inv, TypeOK, DiskOK, HistoryOK
  <2>3. \A i \in Ids \ {id} :
          items'[i] = items[i] \/ (items'[i] = Absent /\ primary' = Nil)
    <3>1. CASE Die
      BY <3>1 DEF Die, Forget, NoItems
    <3>2. CASE items' = [items EXCEPT ![id] = Nil] \/ UNCHANGED items
      BY <3>2 DEF DeleteInv, SealInv, Inv, TypeOK, MemoryOK
    <3> QED BY <1>3, <3>1, <3>2 DEF CreateItem, memory
  <2>4. life'[id] = "created" => items'[id] # Absent
    <3>1. Nil # Absent
      BY MarksDistinct
    <3>2. ASSUME life'[id] = "created" PROVE items'[id] = Nil
      BY <1>3, <3>2 DEF CreateItem, DeleteInv, SealInv, Inv, TypeOK, MemoryOK, HistoryOK
    <3> QED BY <3>1, <3>2
  <2>5. KeptOK'
    BY <2>2, <2>3 DEF DeleteInv, DeleteOK, KeptOK, Unlisted
  <2>6. ListedOK'
    <3>1. ~(identityKey' # Nil /\ primary' = Nil)
      BY <1>3, <2>1 DEF CreateItem, Die, Forget, memory
    <3>2. pc # "load"
      BY <2>1
    <3> QED BY <2>1, <2>2, <2>3, <2>4, <3>1, <3>2
            DEF DeleteInv, DeleteOK, ListedOK, Unlisted
  <2>7. BusyOK'
    BY <2>1 DEF BusyOK, Writes
  <2> QED BY <2>5, <2>6, <2>7 DEF DeleteOK
<1> QED BY <1>1, <1>2, <1>3

LEMMA DeleteSet ==
    ASSUME DeleteInv, NEW id \in Ids, NEW v \in Values \cup {Nil}, SetItemValue(id, v)
    PROVE  DeleteOK'
<1>1. CASE Refuse("error")
  BY <1>1, DeleteRefuse DEF SetItemValue, Idle, DeleteInv
<1>2. CASE /\ items[id] # Absent
           /\ cur' = [id |-> id, val |-> v, caller |-> "SetItemValue"]
           /\ Proceed(FirstStep(items[id]))
           /\ UNCHANGED <<memory, disk, todo, life>>
  <2>1. /\ pc = "idle" /\ cur'.id = id /\ pc' \in {"value", "backup"}
        /\ UNCHANGED <<metaFile, life, items, identityKey, primary, todo>>
    BY <1>2 DEF SetItemValue, Idle, FirstStep, Proceed, memory, disk
  <2>2. KeptOK'
    BY <2>1 DEF DeleteInv, DeleteOK, KeptOK, Unlisted
  <2>3. ListedOK'
    BY <2>1 DEF DeleteInv, DeleteOK, ListedOK, Unlisted
  <2>4. MayWrite(id)' /\ (\A i \in todo' : MayWrite(i)')
    BY <1>2, <2>1 DEF DeleteInv, DeleteOK, KeptOK, BusyOK, MayWrite
  <2>5. BusyOK'
    BY <2>1, <2>4 DEF BusyOK, MayWrite
  <2> QED BY <2>2, <2>3, <2>5 DEF DeleteOK
<1> QED BY <1>1, <1>2 DEF SetItemValue

(* writeItemValueUnsafe: only WriteMetadata touches what a listing reads.   *)
LEMMA DeleteAbandon ==
    ASSUME DeleteInv, pc \in Writes, Abandon, UNCHANGED <<memory, metaFile, life>>
    PROVE  DeleteOK'
<1>1. /\ pc' \in {"idle", "reseal"} /\ todo' \in {{}, todo}
      /\ UNCHANGED <<items, identityKey, primary>>
  BY DEF Abandon, Return, Proceed, memory
<1>2. primary # Nil
  BY DEF DeleteInv, SealInv, Inv, LockOK, Unlocked
<1> QED BY <1>1, <1>2, DeleteFrame DEF DeleteInv, Writes

LEMMA DeleteWrite ==
    ASSUME DeleteInv, BackupValue \/ WriteValue PROVE DeleteOK'
<1>1. pc \in Writes /\ UNCHANGED <<metaFile, life>>
  BY DEF BackupValue, WriteValue, history, Writes
<1>2. CASE Abandon /\ UNCHANGED memory
  BY <1>1, <1>2, DeleteAbandon
<1>3. CASE Die
  BY <1>1, <1>3, DeleteDie DEF DeleteInv
<1>4. CASE /\ UNCHANGED <<memory, cur, todo>>
           /\ Proceed("value") \/ Proceed("metadata")
  <2>1. pc' \in {"value", "metadata"} /\ UNCHANGED <<items, identityKey, primary>>
    BY <1>4 DEF Proceed, memory
  <2> QED BY <1>1, <1>4, <2>1, DeleteFrame DEF DeleteInv, Writes
<1> QED BY <1>2, <1>3, <1>4 DEF BackupValue, WriteValue

LEMMA DeleteMetadata == ASSUME DeleteInv, WriteMetadata PROVE DeleteOK'
<1> DEFINE w == cur.id
<1>1. /\ pc = "metadata" /\ primary # Nil /\ w \in Ids /\ MayWrite(w)
      /\ UNCHANGED life
  <2>1. pc \in Writes /\ pc = "metadata" /\ UNCHANGED life
    BY DEF WriteMetadata, Writes
  <2>2. w \in Ids /\ primary # Nil
    BY <2>1, WritingFacts, MarksDistinct DEF DeleteInv, SealInv
  <2> QED BY <2>1, <2>2 DEF DeleteInv, DeleteOK, BusyOK
<1>2. \A i \in Ids \ {w} : metaFile'[i] = metaFile[i]
  BY <1>1 DEF WriteMetadata, DeleteInv, SealInv, Inv, TypeOK, DiskOK
<1>3. \A i \in Ids \ {w} : items'[i] \in {items[i], Absent}
  <2>1. items \in [Ids -> Values \cup {Nil, Absent}]
    BY DEF DeleteInv, SealInv, Inv, TypeOK, MemoryOK
  <2> QED BY <1>1, <2>1 DEF WriteMetadata, Die, Forget, NoItems, memory
<1>4. KeptOK'
  BY <1>1, <1>2, <1>3 DEF DeleteInv, DeleteOK, KeptOK, Unlisted, MayWrite
<1>5. CASE Die
  BY <1>4, <1>5 DEF DeleteOK, ListedOK, BusyOK, Die, Forget, Return, Writes
<1>6. CASE /\ \A i \in Ids : items[i] # Absent => items'[i] # Absent
           /\ pc' \in {"idle", "reseal"} /\ todo' \in {{}, todo}
           /\ UNCHANGED primary
  <2>1. \A i \in Ids : life[i] = "created" /\ items'[i] = Absent => i # w
    BY <1>1, <1>6 DEF MayWrite
  <2>2. ListedOK'
    BY <1>1, <1>2, <1>6, <2>1 DEF DeleteInv, DeleteOK, ListedOK, Unlisted
  <2>3. todo \subseteq Ids
    BY DEF DeleteInv, SealInv, Inv, TypeOK, CallOK
  <2>4. BusyOK'
    BY <1>1, <1>6, <2>3 DEF DeleteInv, DeleteOK, BusyOK, MayWrite, Writes
  <2> QED BY <1>4, <2>2, <2>4 DEF DeleteOK
<1>7. cur.val # Absent
  BY <1>1, WritingFacts, MarksDistinct DEF DeleteInv, SealInv, Writes
<1>8. CASE UNCHANGED memory /\ Abandon
  BY <1>6, <1>8 DEF memory, Abandon, Return, Proceed
<1>9. CASE /\ items' = [items EXCEPT ![w] = cur.val] /\ UNCHANGED primary
           /\ \/ Proceed("reseal") /\ UNCHANGED todo
              \/ Return("ok")
  <2>1. items \in [Ids -> Values \cup {Nil, Absent}]
    BY DEF DeleteInv, SealInv, Inv, TypeOK, MemoryOK
  <2>2. \A i \in Ids : items[i] # Absent => items'[i] # Absent
    BY <1>1, <1>7, <1>9, <2>1
  <2> QED BY <1>6, <1>9, <2>2 DEF Proceed, Return
<1> QED BY <1>5, <1>8, <1>9 DEF WriteMetadata

LEMMA DeleteItemDelete ==
    ASSUME DeletesAndReads, DeleteInv, NEW id \in Ids, DeleteItem(id)
    PROVE  DeleteOK'
<1>1. CASE Refuse("error")
  BY <1>1, DeleteRefuse DEF DeleteItem, Idle, DeleteInv
<1>2. CASE /\ ~IsLocked /\ items[id] = Absent
           /\ life' = [life EXCEPT ![id] = IF @ = "created" THEN "deleted" ELSE @]
           /\ Return("ok")
           /\ UNCHANGED <<up, memory, disk, offered, confirmed>>
  <2>1. /\ pc = "idle" /\ identityKey # Nil
        /\ UNCHANGED <<metaFile, items, identityKey, primary>>
        /\ pc' = "idle" /\ todo' = {}
    BY <1>2 DEF DeleteItem, Idle, IsLocked, Return, memory, disk
  <2>2. /\ \A i \in Ids \ {id} : life'[i] = life[i]
        /\ life'[id] = IF life[id] = "created" THEN "deleted" ELSE life[id]
    BY <1>2 DEF DeleteInv, SealInv, Inv, TypeOK, HistoryOK
  <2>3. life[id] = "created" => Unlisted(id)
    BY <1>2, <2>1 DEF DeleteInv, DeleteOK, ListedOK
  <2>4. KeptOK'
    BY <1>2, <2>1, <2>2, <2>3 DEF DeleteInv, DeleteOK, KeptOK, Unlisted
  <2>5. ListedOK'
    BY <2>1, <2>2 DEF DeleteInv, DeleteOK, ListedOK, Unlisted
  <2>6. BusyOK'
    BY <2>1 DEF BusyOK, Writes
  <2> QED BY <2>4, <2>5, <2>6 DEF DeleteOK
<1>3. CASE /\ items' = [items EXCEPT ![id] = Absent]
           /\ \E c \in Remains(metaFile[id]) :
                 metaFile' = [metaFile EXCEPT ![id] = c]
           /\ todo' = {id} /\ Proceed("deleteValue")
           /\ UNCHANGED <<primary, life>>
  <2>1. metaFile' = [metaFile EXCEPT ![id] = Absent] /\ pc' = "deleteValue"
    BY <1>3 DEF Remains, DeletesAndReads, Proceed
  <2>2. /\ items'[id] = Absent /\ metaFile'[id] = Absent
        /\ \A i \in Ids \ {id} : items'[i] = items[i] /\ metaFile'[i] = metaFile[i]
    BY <1>3, <2>1 DEF DeleteInv, SealInv, Inv, TypeOK, MemoryOK, DiskOK
  <2>3. Absent \notin Metadata
    BY MarksDistinct
  <2>4. KeptOK'
    BY <1>3, <2>2, <2>3 DEF DeleteInv, DeleteOK, KeptOK, Unlisted
  <2>5. pc = "idle" \/ UNCHANGED pc
    BY DEF DeleteItem, Idle
  <2>6. ListedOK'
    BY <1>3, <2>1, <2>2, <2>3, <2>5 DEF DeleteInv, DeleteOK, ListedOK, Unlisted
  <2>7. BusyOK'
    BY <1>3, <2>1, <2>2, <2>3 DEF BusyOK, Unlisted, Writes
  <2> QED BY <2>4, <2>6, <2>7 DEF DeleteOK
<1> QED BY <1>1, <1>2, <1>3 DEF DeleteItem

LEMMA DeleteValueDelete == ASSUME DeleteInv, DeleteValue PROVE DeleteOK'
<1>1. /\ pc = "deleteValue" /\ pc' = "idle" /\ todo' = {} /\ primary # Nil
      /\ UNCHANGED <<metaFile, items, identityKey, primary>>
  BY DEF DeleteValue, Return, memory, DeleteInv, SealInv, Inv, LockOK, Unlocked
<1>2. PICK id \in todo : life' = [life EXCEPT ![id] = "deleted"]
  BY DEF DeleteValue
<1>3. id \in Ids
  BY <1>2 DEF DeleteInv, SealInv, Inv, TypeOK, CallOK
<1>4. Unlisted(id) /\ items[id] = Absent
  BY <1>1, <1>2 DEF DeleteInv, DeleteOK, BusyOK
<1>5. /\ life'[id] = "deleted"
      /\ \A i \in Ids \ {id} : life'[i] = life[i]
  BY <1>2, <1>3 DEF DeleteInv, SealInv, Inv, TypeOK, HistoryOK
<1>6. KeptOK'
  BY <1>1, <1>4, <1>5 DEF DeleteInv, DeleteOK, KeptOK, Unlisted
<1>7. ListedOK'
  BY <1>1, <1>5 DEF DeleteInv, DeleteOK, ListedOK, Unlisted
<1>8. BusyOK'
  BY <1>1 DEF BusyOK, Writes
<1> QED BY <1>6, <1>7, <1>8 DEF DeleteOK

LEMMA DeleteReload ==
    ASSUME DeletesAndReads, DeleteInv, ReloadMetadata PROVE DeleteOK'
<1>1. pc = "reload" /\ primary # Nil /\ UNCHANGED <<metaFile, life>>
  BY DEF ReloadMetadata, disk, history, DeleteInv, SealInv, Inv, LockOK, Unlocked
<1>2. CASE Die
  BY <1>1, <1>2, DeleteDie DEF DeleteInv
<1>3. CASE todo' = Legible /\ Proceed("reseal") /\ UNCHANGED memory
  <2>1. pc' = "reseal" /\ UNCHANGED <<items, identityKey, primary>>
    BY <1>3 DEF Proceed, memory
  <2>2. KeptOK'
    BY <1>1, <2>1 DEF DeleteInv, DeleteOK, KeptOK, Unlisted
  <2>3. ListedOK'
    BY <1>1, <2>1 DEF DeleteInv, DeleteOK, ListedOK, Unlisted
  <2>4. \A i \in Legible : MayWrite(i)
    BY <1>1 DEF Legible, MayWrite, DeleteInv, DeleteOK, KeptOK, ListedOK, Unlisted
  <2>5. BusyOK'
    BY <1>1, <1>3, <2>1, <2>4 DEF BusyOK, MayWrite, Writes
  <2> QED BY <2>2, <2>3, <2>5 DEF DeleteOK
<1> QED BY <1>2, <1>3 DEF ReloadMetadata, Unreadable, DeletesAndReads

LEMMA DeleteReseal ==
    ASSUME DeleteInv, NEW id \in Ids, ResealItem(id) PROVE DeleteOK'
<1>1. /\ pc = "reseal" /\ id \in todo /\ primary # Nil
      /\ UNCHANGED <<metaFile, life>>
  BY DEF ResealItem, disk, history, DeleteInv, SealInv, Inv, LockOK, Unlocked
<1>2. CASE Die
  BY <1>1, <1>2, DeleteDie DEF DeleteInv
<1>3. CASE Proceed("reseal") /\ todo' = Rest(id) /\ UNCHANGED memory
  <2>1. /\ pc' = "reseal" /\ todo' \subseteq todo
        /\ UNCHANGED <<items, identityKey, primary>>
    BY <1>3 DEF Proceed, Rest, memory
  <2> QED BY <1>1, <2>1, DeleteFrame DEF DeleteInv, Writes
<1>4. CASE /\ cur' = [id |-> id, val |-> Plaintext(id),
                      caller |-> "SetRecoveryRecipient"]
           /\ Proceed(FirstStep(metaFile[id].sum)) /\ todo' = Rest(id)
           /\ UNCHANGED memory
  <2>1. /\ pc' \in {"value", "backup"} /\ todo' \subseteq todo /\ cur'.id = id
        /\ UNCHANGED <<items, identityKey, primary>>
    BY <1>4 DEF Proceed, FirstStep, Rest, memory
  <2>2. KeptOK'
    BY <1>1, <2>1 DEF DeleteInv, DeleteOK, KeptOK, Unlisted
  <2>3. ListedOK'
    BY <1>1, <2>1 DEF DeleteInv, DeleteOK, ListedOK, Unlisted
  <2>4. BusyOK'
    BY <1>1, <2>1 DEF DeleteInv, DeleteOK, BusyOK, MayWrite
  <2> QED BY <2>2, <2>3, <2>4 DEF DeleteOK
<1> QED BY <1>2, <1>3, <1>4 DEF ResealItem

LEMMA DeleteNext ==
    ASSUME DeletesAndReads
    PROVE  DeleteInv /\ [Next]_vars => DeleteInv'
<1> SUFFICES ASSUME DeleteInv, [Next]_vars PROVE DeleteInv'
  OBVIOUS
<1>1. SealInv'
  BY SealNext DEF DeleteInv
<1>2. CASE Begin
  BY <1>1, <1>2, DeleteUnlock, DeleteQuiet, DeleteCreate, DeleteItemDelete, DeleteSet
     DEF Begin, DeleteInv
<1>3. CASE Continue
  BY <1>1, <1>3, DeleteIdentity, DeleteLoad, DeleteWrite, DeleteMetadata,
     DeleteValueDelete, DeleteQuiet, DeleteReload, DeleteReseal DEF Continue, DeleteInv
<1>4. CASE NewVault \/ Crash
  BY <1>1, <1>4, DeleteQuiet DEF DeleteInv
<1>5. CASE UNCHANGED vars
  <2>1. KeptOK' /\ ListedOK'
    BY <1>5 DEF vars, memory, disk, call, history, DeleteInv, DeleteOK, KeptOK,
       ListedOK, Unlisted
  <2>2. BusyOK'
    BY <1>5 DEF vars, memory, disk, call, history, DeleteInv, DeleteOK, BusyOK,
       Unlisted, MayWrite
  <2> QED BY <1>1, <2>1, <2>2 DEF DeleteInv, DeleteOK
<1> QED BY <1>2, <1>3, <1>4, <1>5 DEF Next

(* Over a backend that deletes and reads the files it is asked to, whatever *)
(* else fails: an item whose DeleteItem returned nil is never listed again, *)
(* neither by LoadItems after a relock or a restart nor by the rewriting of *)
(* SetRecoveryRecipient.                                                    *)
THEOREM DeletedIsGone ==
    ASSUME DeletesAndReads
    PROVE  Spec => []DeletedStaysDeleted
<1>1. Init => DeleteInv
  <2>1. Init => SealInv
    BY InitInv, MarksDistinct DEF Init, SealInv, SealedByIdentity, IdentityLoaded
  <2>2. Init => DeleteOK
    BY DEF Init, DeleteOK, KeptOK, ListedOK, BusyOK, Writes
  <2> QED BY <2>1, <2>2 DEF DeleteInv
<1>2. DeleteInv /\ [Next]_vars => DeleteInv'
  BY DeleteNext
<1>3. DeleteInv => DeletedStaysDeleted
  BY DEF DeleteInv, DeleteOK, KeptOK, DeletedStaysDeleted
<1> QED BY <1>1, <1>2, <1>3, PTL DEF Spec

-----------------------------------------------------------------------------
(* The confirmed recovery recipient, over a backend that reads and writes   *)
(* the files it is asked to; deletions may fail and the process may die.    *)

WritesAndReads == Faults \cap {"read", "write"} = {}

(* The rewriting by SetRecoveryRecipient is under way.                      *)
Resealing ==
    pc = "reseal" \/ (pc \in Writes /\ cur.caller = "SetRecoveryRecipient")

(* A confirmation holds until the next SetRecoveryRecipient writes .recovery.*)
ConfirmedOK ==
    confirmed # Nil =>
        /\ recFile = confirmed
        /\ up => recovery = confirmed
        /\ pc \notin {"reload", "restore"} /\ ~Resealing

(* The value was sealed to the recipient before its metadata is written.    *)
RewrittenOK ==
    pc = "metadata" =>
        valFile[cur.id] \in Sealed /\ valFile[cur.id].recovery = recovery

(* What the loop has left behind is sealed to the recipient or unreadable.  *)
ResealedOK ==
    Resealing =>
        \A i \in Ids \ todo :
            (Readable(i) /\ (cur = Nil \/ cur.id # i)) => valFile[i].recovery = recovery

ConfirmOK == ConfirmedOK /\ RecoveryConfirmed /\ RewrittenOK /\ ResealedOK
ConfirmInv == SealInv /\ RecoveryOnDisk /\ ConfirmOK

(* A step that makes no item readable and rewrites no readable one.         *)
ReadsNoMore ==
    \A i \in Ids : Readable(i)' => Readable(i) /\ valFile'[i] = valFile[i]

LEMMA SameFiles == ASSUME UNCHANGED <<metaFile, valFile>> PROVE ReadsNoMore
BY DEF ReadsNoMore, Readable

LEMMA ConfirmFrame ==
    ASSUME ConfirmOK, ReadsNoMore, UNCHANGED <<recFile, confirmed>>,
           (confirmed # Nil /\ up') => recovery' = confirmed,
           pc' \notin {"reload", "restore", "metadata"}, ~Resealing'
    PROVE  ConfirmOK'
<1>1. ConfirmedOK'
  BY DEF ConfirmOK, ConfirmedOK
<1>2. RecoveryConfirmed'
  BY DEF ConfirmOK, RecoveryConfirmed, ReadsNoMore
<1>3. RewrittenOK' /\ ResealedOK'
  BY DEF RewrittenOK, ResealedOK
<1> QED BY <1>1, <1>2, <1>3 DEF ConfirmOK

LEMMA ConfirmDie ==
    ASSUME ConfirmOK, Die, ReadsNoMore, UNCHANGED <<recFile, confirmed>>
    PROVE  ConfirmOK'
<1>1. ~up' /\ pc' = "idle" /\ ~Resealing'
  BY DEF Die, Return, Resealing, Writes
<1> QED BY <1>1, ConfirmFrame

(* A step of a running process outside a rewriting.                         *)
LEMMA ConfirmOther ==
    ASSUME ConfirmOK, ReadsNoMore, UNCHANGED <<recovery, recFile, confirmed>>, up,
           \/ pc' \in {"idle", "identity", "load", "deleteValue"}
           \/ pc' \in {"backup", "value"} /\ cur'.caller = "SetItemValue"
    PROVE  ConfirmOK'
<1>1. confirmed # Nil => recovery' = confirmed
  BY DEF ConfirmOK, ConfirmedOK
<1>2. pc' \notin {"reload", "restore", "metadata"} /\ ~Resealing'
  BY DEF Resealing, Writes
<1> QED BY <1>1, <1>2, ConfirmFrame

LEMMA ConfirmRefuse ==
    ASSUME ConfirmOK, up, NEW r \in {"ok", "error"}, Refuse(r) PROVE ConfirmOK'
<1>1. pc' = "idle" /\ UNCHANGED <<recovery, recFile, confirmed, metaFile, valFile>>
  BY DEF Refuse, Return, memory, disk, history
<1> QED BY <1>1, SameFiles, ConfirmOther

(* Calls that touch neither the items nor the recipient.                    *)
LEMMA ConfirmQuiet ==
    ASSUME ConfirmInv,
           \/ NewVault \/ Crash \/ Lock \/ VerifyIdentity \/ LoadItems
           \/ \E p \in Passphrases : Unlock(p)
           \/ \E ident \in Identities : GenerateIdentity(ident)
           \/ \E id \in Ids : GetItem(id)
           \/ \E id \in Ids, v \in Values \cup {Nil} : SetItemValue(id, v)
    PROVE  ConfirmOK'
<1>1. UNCHANGED <<metaFile, valFile, recFile, confirmed>>
  BY DEF NewVault, Crash, Lock, VerifyIdentity, LoadItems, Unlock, GenerateIdentity,
     GetItem, SetItemValue, Refuse, disk, history
<1>2. ReadsNoMore
  BY <1>1, SameFiles
<1>3. CASE NewVault
  <2>1. pc' = "idle" /\ recovery' = LoadRecoveryRecipient
    BY <1>3 DEF NewVault, call, ConfirmInv, SealInv, Inv, LockOK
  <2>2. confirmed # Nil => recovery' = confirmed
    <3>1. confirmed # Nil => recFile = confirmed /\ confirmed # Absent
      BY MarksDistinct DEF ConfirmInv, ConfirmOK, ConfirmedOK, SealInv, Inv, TypeOK,
         HistoryOK
    <3> QED BY <2>1, <3>1 DEF LoadRecoveryRecipient
  <2>3. ~Resealing'
    BY <2>1 DEF Resealing, Writes
  <2> QED BY <1>1, <1>2, <2>1, <2>2, <2>3, ConfirmFrame DEF ConfirmInv
<1>4. CASE Die
  BY <1>1, <1>2, <1>4, ConfirmDie DEF ConfirmInv
<1>5. CASE ~NewVault /\ ~Die
  <2>1. up
    BY <1>5 DEF Crash, Lock, VerifyIdentity, LoadItems, Unlock, GenerateIdentity,
       GetItem, SetItemValue, Idle, ConfirmInv, SealInv, Inv, LockOK
  <2>2. \/ pc' \in {"idle", "identity", "load"}
        \/ pc' \in {"backup", "value"} /\ cur'.caller = "SetItemValue"
    <3>1. ASSUME NEW id \in Ids, NEW v \in Values \cup {Nil}, SetItemValue(id, v)
          PROVE  \/ pc' = "idle"
                 \/ pc' \in {"backup", "value"} /\ cur'.caller = "SetItemValue"
      BY <3>1 DEF SetItemValue, Refuse, Return, Proceed, FirstStep
    <3>2. CASE ~\E id \in Ids, v \in Values \cup {Nil} : SetItemValue(id, v)
      BY <1>5, <3>2 DEF Crash, Lock, VerifyIdentity, LoadItems, Unlock,
         GenerateIdentity, GetItem, Refuse, Return, Proceed
    <3> QED BY <3>1, <3>2
  <2>3. UNCHANGED recovery
    BY <1>5 DEF Crash, Lock, VerifyIdentity, LoadItems, Unlock, GenerateIdentity,
       GetItem, SetItemValue, Refuse, memory
  <2> QED BY <1>1, <1>2, <2>1, <2>2, <2>3, ConfirmOther DEF ConfirmInv
<1> QED BY <1>3, <1>4, <1>5

(* Creation and deletion: a new item has no value, a deleted one no files.  *)
LEMMA ConfirmItems ==
    ASSUME ConfirmInv,
           \/ DeleteValue
           \/ \E id \in Ids : CreateItem(id) \/ DeleteItem(id)
    PROVE  ConfirmOK'
<1>1. ReadsNoMore
  <2>1. CASE DeleteValue
    <3>1. UNCHANGED metaFile /\ \A i \in Ids : valFile'[i] \in {valFile[i], Absent}
      BY <2>1 DEF DeleteValue, Remains, ConfirmInv, SealInv, Inv, TypeOK, DiskOK
    <3> QED BY <3>1, MarksDistinct DEF ReadsNoMore, Readable
  <2>2. ASSUME NEW id \in Ids, CreateItem(id) PROVE ReadsNoMore
    <3>1. CASE UNCHANGED disk
      BY <3>1, SameFiles DEF disk
    <3>2. CASE \E c \in {Absent, Partial, Empty, [sum |-> Nil, by |-> primary]} :
                  metaFile' = [metaFile EXCEPT ![id] = c]
      <4>1. UNCHANGED valFile
        BY <2>2 DEF CreateItem, Refuse, disk
      <4>2. \A i \in Ids : Readable(i)' => i # id
        BY <3>2, <4>1, MarksDistinct DEF Readable, Sealed, ConfirmInv, SealInv, Inv,
           TypeOK, DiskOK
      <4> QED BY <3>2, <4>1, <4>2 DEF ReadsNoMore, Readable, ConfirmInv, SealInv, Inv,
              TypeOK, DiskOK
    <3> QED BY <2>2, <3>1, <3>2 DEF CreateItem, Refuse, Contents
  <2>3. ASSUME NEW id \in Ids, DeleteItem(id) PROVE ReadsNoMore
    <3>1. UNCHANGED valFile /\ \A i \in Ids : metaFile'[i] \in {metaFile[i], Absent}
      BY <2>3 DEF DeleteItem, Refuse, Remains, disk, ConfirmInv, SealInv, Inv, TypeOK,
         DiskOK
    <3> QED BY <3>1, MarksDistinct DEF ReadsNoMore, Readable
  <2> QED BY <2>1, <2>2, <2>3
<1>2. UNCHANGED <<recFile, confirmed>> /\ up
  BY DEF DeleteValue, CreateItem, DeleteItem, Refuse, Idle, disk, history, ConfirmInv,
     SealInv, Inv, LockOK
<1>3. CASE Die
  BY <1>1, <1>2, <1>3, ConfirmDie DEF ConfirmInv
<1>4. CASE ~Die
  <2>1. pc' \in {"idle", "deleteValue"} /\ UNCHANGED recovery
    BY <1>4 DEF DeleteValue, CreateItem, DeleteItem, Refuse, Return, Proceed, memory
  <2> QED BY <1>1, <1>2, <2>1, ConfirmOther DEF ConfirmInv
<1> QED BY <1>3, <1>4

(* writeItemValueUnsafe, for either caller.                                 *)
LEMMA ConfirmBackup ==
    ASSUME WritesAndReads, ConfirmInv, BackupValue PROVE ConfirmOK'
<1>1. /\ pc = "backup" /\ pc \in Writes /\ up
      /\ UNCHANGED <<recovery, recFile, metaFile, valFile, confirmed>>
  BY DEF BackupValue, Writes, memory, history, ConfirmInv, SealInv, Inv, LockOK
<1>2. ReadsNoMore
  BY <1>1, SameFiles
<1>3. \/ Proceed("value") /\ UNCHANGED <<cur, todo>>
      \/ valFile[cur.id] = Absent /\ Abandon
  BY DEF BackupValue, WritesAndReads
<1>4. CASE cur.caller = "SetItemValue"
  <2>1. \/ pc' = "idle"
        \/ pc' = "value" /\ cur'.caller = "SetItemValue"
    BY <1>3, <1>4 DEF Abandon, Return, Proceed
  <2> QED BY <1>1, <1>2, <2>1, ConfirmOther DEF ConfirmInv
<1>5. CASE cur.caller = "SetRecoveryRecipient"
  <2>1. Resealing /\ confirmed = Nil /\ pc' \in {"value", "reseal"}
    BY <1>1, <1>3, <1>5 DEF Resealing, ConfirmInv, ConfirmOK, ConfirmedOK, Abandon,
       Proceed
  <2>2. ConfirmedOK' /\ RecoveryConfirmed' /\ RewrittenOK'
    BY <1>1, <2>1 DEF ConfirmedOK, RecoveryConfirmed, RewrittenOK
  <2>3. ResealedOK'
    <3>1. CASE UNCHANGED <<cur, todo>>
      BY <1>1, <2>1, <3>1 DEF ResealedOK, Readable, ConfirmInv, ConfirmOK
    <3>2. CASE valFile[cur.id] = Absent /\ UNCHANGED todo
      <4>1. ~Readable(cur.id)
        BY <3>2, MarksDistinct DEF Readable
      <4> QED BY <1>1, <2>1, <3>2, <4>1 DEF ResealedOK, Readable, ConfirmInv, ConfirmOK
    <3> QED BY <1>3, <1>5, <3>1, <3>2 DEF Abandon
  <2> QED BY <2>2, <2>3 DEF ConfirmOK
<1>6. cur \in Writing
  BY <1>1, WritingFacts DEF ConfirmInv, SealInv
<1> QED BY <1>4, <1>5, <1>6 DEF Writing, Callers

LEMMA ConfirmValue ==
    ASSUME WritesAndReads, ConfirmInv, WriteValue PROVE ConfirmOK'
<1> DEFINE w == cur.id
           new == [val |-> cur.val, primary |-> primary, recovery |-> recovery]
<1>1. /\ pc = "value" /\ pc \in Writes /\ up /\ w \in Ids
      /\ UNCHANGED <<recFile, metaFile, confirmed>>
  <2>1. pc = "value" /\ pc \in Writes /\ UNCHANGED <<recFile, metaFile, confirmed>>
    BY DEF WriteValue, Writes, history
  <2> QED BY <2>1, WritingFacts DEF ConfirmInv, SealInv
<1>2. new \in Sealed /\ new.recovery = recovery
  <2>1. cur.val \in Values /\ primary \in Identities
    BY <1>1, WritingFacts DEF ConfirmInv, SealInv
  <2>2. recovery \in Recipients \cup {Nil}
    BY DEF ConfirmInv, SealInv, Inv, TypeOK, MemoryOK
  <2> QED BY <2>1, <2>2 DEF Sealed
<1>3. /\ valFile'[w] \in {valFile[w], new, Partial}
      /\ \A i \in Ids \ {w} : valFile'[i] = valFile[i]
  BY <1>1 DEF WriteValue, Contents, ConfirmInv, SealInv, Inv, TypeOK, DiskOK
<1>4. RecoveryConfirmed'
  <2> SUFFICES ASSUME confirmed # Nil, NEW i \in Ids, Readable(i)'
               PROVE  valFile'[i].recovery = confirmed
    BY <1>1 DEF RecoveryConfirmed
  <2>1. recovery = confirmed
    BY <1>1 DEF ConfirmInv, ConfirmOK, ConfirmedOK
  <2>2. CASE valFile'[i] = new
    BY <1>2, <2>1, <2>2
  <2>3. CASE valFile'[i] = valFile[i]
    BY <1>1, <2>3 DEF ConfirmInv, ConfirmOK, RecoveryConfirmed, Readable
  <2>4. valFile'[i] # Partial
    BY MarksDistinct DEF Readable
  <2> QED BY <1>3, <2>2, <2>3, <2>4
<1>5. CASE Die
  <2>1. ~up' /\ pc' = "idle" /\ ~Resealing'
    BY <1>5 DEF Die, Return, Resealing, Writes
  <2>2. ConfirmedOK'
    BY <1>1, <2>1 DEF ConfirmInv, ConfirmOK, ConfirmedOK
  <2>3. RewrittenOK' /\ ResealedOK'
    BY <2>1 DEF RewrittenOK, ResealedOK
  <2> QED BY <1>4, <2>2, <2>3 DEF ConfirmOK
<1>6. CASE /\ Proceed("metadata") /\ UNCHANGED <<up, memory, cur, todo>>
           /\ valFile'[w] = new
  <2>1. pc' = "metadata" /\ UNCHANGED <<up, recovery, cur, todo>>
    BY <1>6 DEF Proceed, memory
  <2>2. Resealing' <=> Resealing
    BY <1>1, <2>1 DEF Resealing, Writes
  <2>3. ConfirmedOK'
    BY <1>1, <2>1, <2>2 DEF ConfirmInv, ConfirmOK, ConfirmedOK
  <2>4. RewrittenOK'
    BY <1>2, <1>6, <2>1 DEF RewrittenOK
  <2>5. cur # Nil
    BY <1>1 DEF ConfirmInv, SealInv, Inv, LockOK
  <2>6. ResealedOK'
    BY <1>1, <1>3, <2>1, <2>2, <2>5
       DEF ResealedOK, Readable, ConfirmInv, ConfirmOK
  <2> QED BY <1>4, <2>3, <2>4, <2>6 DEF ConfirmOK
<1>7. valFile \in [Ids -> Sealed \cup {Absent, Partial}]
  BY DEF ConfirmInv, SealInv, Inv, TypeOK, DiskOK
<1> QED BY <1>1, <1>5, <1>6, <1>7 DEF WriteValue, WriteOutcomes, WritesAndReads, Contents

LEMMA ConfirmMetadata ==
    ASSUME WritesAndReads, ConfirmInv, WriteMetadata PROVE ConfirmOK'
<1> DEFINE w == cur.id
<1>1. /\ pc = "metadata" /\ pc \in Writes /\ up /\ w \in Ids
      /\ UNCHANGED <<recFile, valFile, confirmed>>
  <2>1. pc = "metadata" /\ pc \in Writes /\ UNCHANGED <<recFile, valFile, confirmed>>
    BY DEF WriteMetadata, Writes
  <2> QED BY <2>1, WritingFacts DEF ConfirmInv, SealInv
<1>2. \A i \in Ids \ {w} : metaFile'[i] = metaFile[i]
  BY <1>1 DEF WriteMetadata, ConfirmInv, SealInv, Inv, TypeOK, DiskOK
<1>3. valFile[w].recovery = recovery
  BY <1>1 DEF ConfirmInv, ConfirmOK, RewrittenOK
<1>4. RecoveryConfirmed'
  <2> SUFFICES ASSUME confirmed # Nil, NEW i \in Ids, Readable(i)'
               PROVE  valFile[i].recovery = confirmed
    BY <1>1 DEF RecoveryConfirmed
  <2>1. recovery = confirmed
    BY <1>1 DEF ConfirmInv, ConfirmOK, ConfirmedOK
  <2>2. CASE i # w
    BY <1>1, <1>2, <2>2 DEF ConfirmInv, ConfirmOK, RecoveryConfirmed, Readable
  <2> QED BY <1>3, <2>1, <2>2
<1>5. CASE Die
  <2>1. ~up' /\ pc' = "idle" /\ ~Resealing'
    BY <1>5 DEF Die, Return, Resealing, Writes
  <2>2. ConfirmedOK'
    BY <1>1, <2>1 DEF ConfirmInv, ConfirmOK, ConfirmedOK
  <2>3. RewrittenOK' /\ ResealedOK'
    BY <2>1 DEF RewrittenOK, ResealedOK
  <2> QED BY <1>4, <2>2, <2>3 DEF ConfirmOK
<1>6. CASE Return("ok") /\ UNCHANGED recovery
  <2>1. pc' = "idle" /\ ~Resealing'
    BY <1>6 DEF Return, Resealing, Writes
  <2>2. ConfirmedOK'
    BY <1>1, <1>6, <2>1 DEF ConfirmInv, ConfirmOK, ConfirmedOK
  <2>3. RewrittenOK' /\ ResealedOK'
    BY <2>1 DEF RewrittenOK, ResealedOK
  <2> QED BY <1>4, <2>2, <2>3 DEF ConfirmOK
<1>7. CASE /\ cur.caller = "SetRecoveryRecipient"
           /\ Proceed("reseal") /\ UNCHANGED <<todo, recovery>>
  <2>1. Resealing /\ confirmed = Nil /\ pc' = "reseal"
    BY <1>1, <1>7 DEF Resealing, ConfirmInv, ConfirmOK, ConfirmedOK, Proceed
  <2>2. ConfirmedOK' /\ RewrittenOK'
    BY <1>1, <2>1 DEF ConfirmedOK, RewrittenOK
  <2>3. ResealedOK'
    BY <1>1, <1>2, <1>3, <1>7, <2>1 DEF ResealedOK, Readable, ConfirmInv, ConfirmOK
  <2> QED BY <1>4, <2>2, <2>3 DEF ConfirmOK
<1> QED BY <1>5, <1>6, <1>7 DEF WriteMetadata, WriteOutcomes, WritesAndReads

(* SetRecoveryRecipient up to its confirmation.                             *)
LEMMA ConfirmSet ==
    ASSUME WritesAndReads, ConfirmInv,
           RestoreRecipient \/ \E r \in Recipients : SetRecoveryRecipient(r)
    PROVE  ConfirmOK'
<1>1. CASE UNCHANGED <<disk, history>> /\ (Refuse("error") \/ Die)
  <2>1. up /\ ReadsNoMore /\ UNCHANGED <<recFile, confirmed>>
    BY <1>1, SameFiles DEF RestoreRecipient, SetRecoveryRecipient, Idle, disk, history,
       ConfirmInv, SealInv, Inv, LockOK
  <2> QED BY <1>1, <2>1, ConfirmRefuse, ConfirmDie DEF ConfirmInv
<1>2. CASE confirmed' = Nil /\ pc' \in {"idle", "reload"}
  <2>1. ConfirmedOK' /\ RecoveryConfirmed'
    BY <1>2 DEF ConfirmedOK, RecoveryConfirmed
  <2>2. RewrittenOK' /\ ResealedOK'
    BY <1>2 DEF RewrittenOK, ResealedOK, Resealing, Writes
  <2> QED BY <2>1, <2>2 DEF ConfirmOK
<1>3. CASE RestoreRecipient
  <2>1. confirmed = Nil
    BY <1>3 DEF RestoreRecipient, ConfirmInv, ConfirmOK, ConfirmedOK
  <2>2. confirmed' = Nil /\ pc' = "idle"
    BY <1>3, <2>1 DEF RestoreRecipient, WriteOutcomes, WritesAndReads, Return, Die
  <2> QED BY <1>2, <2>2
<1>4. ASSUME NEW r \in Recipients, SetRecoveryRecipient(r) PROVE ConfirmOK'
  <2>1. \/ UNCHANGED <<disk, history>> /\ (Refuse("error") \/ Die)
        \/ confirmed' = Nil /\ pc' \in {"idle", "reload"}
    BY <1>4 DEF SetRecoveryRecipient, WriteOutcomes, WritesAndReads, Return, Die,
       Proceed, Refuse
  <2> QED BY <1>1, <1>2, <2>1
<1> QED BY <1>3, <1>4

LEMMA ConfirmReload ==
    ASSUME WritesAndReads, ConfirmInv, ReloadMetadata PROVE ConfirmOK'
<1>1. /\ pc = "reload" /\ primary # Nil /\ confirmed = Nil
      /\ UNCHANGED <<recFile, metaFile, valFile, confirmed>>
  BY DEF ReloadMetadata, disk, history, ConfirmInv, ConfirmOK, ConfirmedOK, SealInv,
     Inv, LockOK, Unlocked
<1>2. CASE Die
  BY <1>1, <1>2, SameFiles, ConfirmDie DEF ConfirmInv
<1>3. CASE todo' = Legible /\ Proceed("reseal")
  <2>1. ConfirmedOK' /\ RecoveryConfirmed' /\ RewrittenOK'
    BY <1>1, <1>3 DEF ConfirmedOK, RecoveryConfirmed, RewrittenOK, Proceed
  <2>2. \A i \in Ids \ Legible : ~Readable(i)
    BY <1>1 DEF Legible, Readable, ConfirmInv, SealInv, SealedByIdentity,
       IdentityLoaded
  <2>3. ResealedOK'
    BY <1>1, <1>3, <2>2 DEF ResealedOK, Readable
  <2> QED BY <2>1, <2>3 DEF ConfirmOK
<1> QED BY <1>2, <1>3 DEF ReloadMetadata, Unreadable, WritesAndReads

LEMMA ConfirmReseal ==
    ASSUME WritesAndReads, ConfirmInv, NEW id \in Ids, ResealItem(id)
    PROVE  ConfirmOK'
<1>1. /\ pc = "reseal" /\ Resealing /\ confirmed = Nil
      /\ UNCHANGED <<recFile, metaFile, valFile, confirmed>>
  BY DEF ResealItem, Resealing, disk, history, ConfirmInv, ConfirmOK, ConfirmedOK
<1>2. CASE Die
  BY <1>1, <1>2, SameFiles, ConfirmDie DEF ConfirmInv
<1>3. cur = Nil
  BY <1>1 DEF ConfirmInv, SealInv, Inv, LockOK, Writes
<1>4. ASSUME pc' # "metadata" PROVE ConfirmedOK' /\ RecoveryConfirmed' /\ RewrittenOK'
  BY <1>1, <1>4 DEF ConfirmedOK, RecoveryConfirmed, RewrittenOK
<1>5. CASE /\ cur' = [id |-> id, val |-> Plaintext(id),
                      caller |-> "SetRecoveryRecipient"]
           /\ todo' = Rest(id) /\ Proceed(FirstStep(metaFile[id].sum))
           /\ UNCHANGED memory
  <2>1. /\ cur'.id = id /\ todo' = todo \ {id} /\ UNCHANGED recovery
        /\ pc' \in {"value", "backup"}
    BY <1>5 DEF Rest, Proceed, FirstStep, memory
  <2>2. cur' # Nil
    BY <1>5, ResealItemInv, <2>1 DEF ConfirmInv, SealInv, Inv, LockOK, Writes
  <2>3. ResealedOK'
    BY <1>1, <1>3, <2>1, <2>2 DEF ResealedOK, Readable, ConfirmInv, ConfirmOK
  <2> QED BY <1>4, <2>1, <2>3 DEF ConfirmOK
<1>6. CASE /\ "error" \in ReadOutcomes(id, metaFile[id].sum)
           /\ todo' = Rest(id) /\ Proceed("reseal")
           /\ UNCHANGED <<memory, cur>>
  <2>1. todo' = todo \ {id} /\ UNCHANGED <<recovery, cur>> /\ pc' = "reseal"
    BY <1>6 DEF Rest, Proceed, memory
  <2>2. ~Readable(id)
    BY <1>6, MarksDistinct DEF ReadOutcomes, Readable, WritesAndReads
  <2>3. ResealedOK'
    BY <1>1, <1>3, <2>1, <2>2 DEF ResealedOK, Readable, ConfirmInv, ConfirmOK
  <2> QED BY <1>4, <2>1, <2>3 DEF ConfirmOK
<1> QED BY <1>2, <1>5, <1>6 DEF ResealItem

LEMMA ConfirmFinish == ASSUME ConfirmInv, FinishRecovery PROVE ConfirmOK'
<1>1. /\ pc = "reseal" /\ Resealing /\ todo = {} /\ confirmed' = recovery
      /\ pc' = "idle" /\ cur = Nil
      /\ UNCHANGED <<recovery, recFile, metaFile, valFile>>
  BY DEF FinishRecovery, Resealing, Return, memory, disk, ConfirmInv, SealInv, Inv,
     LockOK, Writes
<1>2. ~Resealing'
  BY <1>1 DEF Resealing, Writes
<1>3. ConfirmedOK'
  BY <1>1, <1>2 DEF ConfirmedOK, ConfirmInv, RecoveryOnDisk
<1>4. RecoveryConfirmed'
  BY <1>1 DEF RecoveryConfirmed, Readable, ConfirmInv, ConfirmOK, ResealedOK
<1>5. RewrittenOK' /\ ResealedOK'
  BY <1>1, <1>2 DEF RewrittenOK, ResealedOK
<1> QED BY <1>3, <1>4, <1>5 DEF ConfirmOK

LEMMA ConfirmNext ==
    ASSUME WritesAndReads
    PROVE  ConfirmInv /\ [Next]_vars => ConfirmInv'
<1> SUFFICES ASSUME ConfirmInv, [Next]_vars PROVE ConfirmInv'
  OBVIOUS
<1>1. SealInv' /\ RecoveryOnDisk'
  BY SealNext, RecoveryNext DEF ConfirmInv, SealInv
<1>2. CASE Begin
  BY <1>1, <1>2, ConfirmQuiet, ConfirmItems, ConfirmSet DEF Begin, ConfirmInv
<1>3. CASE Continue
  BY <1>1, <1>3, ConfirmQuiet, ConfirmItems, ConfirmSet, ConfirmBackup, ConfirmValue,
     ConfirmMetadata, ConfirmReload, ConfirmReseal, ConfirmFinish
     DEF Continue, ConfirmInv
<1>4. CASE NewVault \/ Crash
  BY <1>1, <1>4, ConfirmQuiet DEF ConfirmInv
<1>5. CASE UNCHANGED vars
  <2>1. Resealing' <=> Resealing
    BY <1>5 DEF vars, call, Resealing
  <2>2. ConfirmedOK' /\ RecoveryConfirmed' /\ RewrittenOK'
    BY <1>5, <2>1 DEF vars, memory, disk, call, history, ConfirmInv, ConfirmOK,
       ConfirmedOK, RecoveryConfirmed, RewrittenOK, Readable
  <2>3. ResealedOK'
    BY <1>5, <2>1 DEF vars, memory, disk, call, ConfirmInv, ConfirmOK, ResealedOK,
       Readable
  <2> QED BY <1>1, <2>2, <2>3 DEF ConfirmInv, ConfirmOK
<1> QED BY <1>2, <1>3, <1>4, <1>5 DEF Next

(* Over a backend that writes and reads the files it is asked to, through   *)
(* crashes, restarts and failed deletions: once SetRecoveryRecipient has    *)
(* returned nil, every readable item is sealed to that recipient.           *)
THEOREM ConfirmedMeansSealed ==
    ASSUME WritesAndReads
    PROVE  Spec => []RecoveryConfirmed
<1>1. Init => ConfirmInv
  <2>1. Init => SealInv
    BY InitInv, MarksDistinct DEF Init, SealInv, SealedByIdentity, IdentityLoaded
  <2>2. Init => RecoveryOnDisk /\ ConfirmOK
    BY DEF Init, RecoveryOnDisk, ConfirmOK, ConfirmedOK, RecoveryConfirmed,
       RewrittenOK, ResealedOK, Resealing, Writes
  <2> QED BY <2>1, <2>2 DEF ConfirmInv
<1>2. ConfirmInv /\ [Next]_vars => ConfirmInv'
  BY ConfirmNext
<1>3. ConfirmInv => RecoveryConfirmed
  BY DEF ConfirmInv, ConfirmOK
<1> QED BY <1>1, <1>2, <1>3, PTL DEF Spec
=============================================================================
