------------------------------- MODULE Vault -------------------------------
(***************************************************************************)
(* The credential vault (internal/store/vault): the in-memory Vault struct, *)
(* the files its Backend keeps, and the exported operations.  Every         *)
(* operation that writes holds v.lock exclusively, so at most one is in     *)
(* progress; it advances one backend call at a time, and between two calls  *)
(* the process may die.  A read-only operation holds the read lock and      *)
(* is one step.                                                             *)
(*                                                                          *)
(* `Faults' says what may go wrong around the code:                         *)
(*   "read"    ListFiles or ReadFile returns an error,                      *)
(*   "write"   WriteFile returns an error; os.WriteFile truncates first, so *)
(*             the file may hold the old, the new or torn content,          *)
(*   "delete"  DeleteFile returns an error and the file stays,              *)
(*   "crash"   the process dies, between two backend calls or inside a      *)
(*             WriteFile.                                                   *)
(* A panic and log.Fatal end the process too (nothing recovers them).       *)
(***************************************************************************)
EXTENDS Naturals, FiniteSets

CONSTANTS
    Ids,          \* item ids, each given out once by uuid.New
    Values,       \* non-empty plaintexts; a checksum stands for its plaintext
    Passphrases,  \* a passphrase stands for the key hashed from it
    Identities,   \* age identities; also their recipient and HMAC secret
    Recipients,   \* recovery recipients
    Faults,       \* which of the faults above can happen
    Nil,          \* a nil pointer, the checksum "", the empty plaintext
    Absent,       \* no such file, no such key in the items map
    Partial,      \* torn content that makes its reader return an error
    Empty         \* torn content too short for its reader, which panics

Metadata == [sum : Values \cup {Nil}, by : Identities]
Sealed == [val : Values, primary : Identities, recovery : Recipients \cup {Nil}]
IdentityFile == [key : Passphrases, ident : Identities]
Callers == {"SetItemValue", "SetRecoveryRecipient"}
Writing == [id : Ids, val : Values, caller : Callers]

(* The distinguished values are none of the data they stand beside.         *)
ASSUME MarksDistinct ==
    /\ Faults \subseteq {"read", "write", "delete", "crash"}
    /\ Nil \notin Values \cup Passphrases \cup Identities \cup Recipients
                  \cup Writing
    /\ Absent \notin Values \cup Recipients \cup {Nil}
    /\ Partial \notin Recipients
    /\ {Absent, Partial, Empty} \cap (Metadata \cup Sealed \cup IdentityFile) = {}
    /\ Absent \notin {Partial, Empty} /\ Partial # Empty

VARIABLES
    up,           \* the server process runs
    identityKey,  \* Vault.identityKey, Nil when locked
    primary,      \* Vault.primaryRecipient and metadataHmacSecret, set together
    recovery,     \* Vault.recoveryRecipient
    items,        \* Vault.items: the checksum of each listed item
    idFile,       \* .identity
    recFile,      \* .recovery
    metaFile,     \* <id>.json
    valFile,      \* <id>.age
    backups,      \* plaintexts held by the intact .bak/<id>.<ms>.json
    pc,           \* the next backend call of the operation holding v.lock
    cur,          \* the value writeItemValueUnsafe is writing
    todo,         \* items still to be rewritten, or the one being deleted
    tries,        \* attempts left to restore the previous .recovery
    result,       \* how the last operation returned
    (* What callers were told; no code variable. *)
    life,         \* "unborn", "lost" (CreateItem failed), "created", "deleted"
    stored,       \* the value of the last SetItemValue that returned nil
    offered,      \* that value and those of the calls begun since
    confirmed     \* the recipient the last SetRecoveryRecipient confirmed

memory == <<identityKey, primary, recovery, items>>
disk == <<idFile, recFile, metaFile, valFile, backups>>
call == <<pc, cur, todo, tries, result>>
history == <<life, stored, offered, confirmed>>
vars == <<up, memory, disk, call, history>>

Steps == {"idle", "identity", "load", "restore", "reload", "reseal",
          "backup", "value", "metadata", "deleteValue"}
NoItems == [i \in Ids |-> Absent]

MemoryOK ==
    /\ identityKey \in Passphrases \cup {Nil}
    /\ primary \in Identities \cup {Nil}
    /\ recovery \in Recipients \cup {Nil}
    /\ items \in [Ids -> Values \cup {Nil, Absent}]

DiskOK ==
    /\ idFile \in IdentityFile \cup {Absent, Partial, Empty}
    /\ recFile \in Recipients \cup {Absent, Partial}
    /\ metaFile \in [Ids -> Metadata \cup {Absent, Partial, Empty}]
    /\ valFile \in [Ids -> Sealed \cup {Absent, Partial}]
    /\ backups \in [Ids -> SUBSET Values]

CallOK ==
    /\ pc \in Steps
    /\ cur \in Writing \cup {Nil}
    /\ todo \subseteq Ids
    /\ tries \in 0..3
    /\ result \in {"none", "ok", "error"}

HistoryOK ==
    /\ life \in [Ids -> {"unborn", "lost", "created", "deleted"}]
    /\ stored \in [Ids -> Values \cup {Nil}]
    /\ offered \in [Ids -> SUBSET Values]
    /\ confirmed \in Recipients \cup {Nil}

TypeOK == up \in BOOLEAN /\ MemoryOK /\ DiskOK /\ CallOK /\ HistoryOK

Init ==
    /\ up = FALSE
    /\ identityKey = Nil /\ primary = Nil /\ recovery = Nil /\ items = NoItems
    /\ idFile = Absent /\ recFile = Absent
    /\ metaFile = [i \in Ids |-> Absent] /\ valFile = [i \in Ids |-> Absent]
    /\ backups = [i \in Ids |-> {}]
    /\ pc = "idle" /\ cur = Nil /\ todo = {} /\ tries = 0 /\ result = "none"
    /\ life = [i \in Ids |-> "unborn"] /\ stored = [i \in Ids |-> Nil]
    /\ offered = [i \in Ids |-> {}] /\ confirmed = Nil
-----------------------------------------------------------------------------
(* The operation in progress goes on, returns, or ends the process.         *)

Proceed(step) == pc' = step /\ result' = "none"

Return(r) ==
    /\ pc' = "idle" /\ result' = r
    /\ cur' = Nil /\ todo' = {} /\ tries' = 0

Forget == identityKey' = Nil /\ primary' = Nil /\ items' = NoItems

Die == up' = FALSE /\ Forget /\ recovery' = Nil /\ Return("none")

Refuse(r) == Return(r) /\ UNCHANGED <<up, memory, disk, history>>

Idle == up /\ pc = "idle"
IsLocked == identityKey = Nil
-----------------------------------------------------------------------------
(* The backend.  WriteFile ends in one of WriteOutcomes, and the file then  *)
(* holds one of Contents.                                                   *)

WriteOutcomes == {"ok"} \cup (Faults \cap {"write", "crash"})

(* Mutant: WriteFile reports success without having written.                *)
Contents_Unflushed(old, new, torn, outcome) == {old, new}

Contents(old, new, torn, outcome) ==
    IF outcome = "ok" THEN {new} ELSE {old, new} \cup torn

(* Mutant: DeleteFile takes an existing file for a missing one.             *)
Remains_Inverted(old) == {old}

(* DeleteFile: what the file holds afterwards.                              *)
Remains(old) == {Absent} \cup (IF "delete" \in Faults THEN {old} ELSE {})

(* Files that ReadFile fails on while a set of files is read.               *)
Unreadable(files) == IF "read" \in Faults THEN SUBSET files ELSE {{}}

(* Mutant: items without a value are not listed.                            *)
Legible_WithValue ==
    {i \in Ids : metaFile[i] \in Metadata /\ metaFile[i].sum # Nil}

(* readAllMetadataUnsafe lists the items whose file it can read and whose   *)
(* HMAC is right, skips the others, and panics on a file under 32 bytes.    *)
Legible == {i \in Ids : metaFile[i] \in Metadata /\ metaFile[i].by = primary}
Short == {i \in Ids : metaFile[i] = Empty}

(* readItemValueUnsafe, for an item with checksum s.                        *)
IdentityOpens ==
    /\ idFile \in IdentityFile
    /\ idFile.key = identityKey

ReadOutcomes(i, s) ==
    {o \in {"ok", "error", "fatal"} :
        \/ /\ o = "error"
           /\ \/ valFile[i] = Absent \/ "read" \in Faults
              \/ valFile[i] \in Sealed /\ valFile[i].val # s
        \/ /\ o = "fatal" /\ valFile[i] # Absent
           /\ \/ valFile[i] = Partial \/ "read" \in Faults \/ ~IdentityOpens
              \/ valFile[i].primary # idFile.ident
        \/ /\ o = "ok" /\ valFile[i] \in Sealed /\ valFile[i].val = s
           /\ IdentityOpens /\ valFile[i].primary = idFile.ident}
-----------------------------------------------------------------------------
(* The process.  NewVault loads .recovery; when that does not parse the     *)
(* server does not start.                                                   *)

(* Mutant: the recipient is not loaded.                                     *)
LoadRecoveryRecipient_Ignored == Nil

LoadRecoveryRecipient == IF recFile = Absent THEN Nil ELSE recFile

NewVault ==
    /\ ~up /\ recFile # Partial
    /\ up' = TRUE
    /\ recovery' = LoadRecoveryRecipient
    /\ UNCHANGED <<identityKey, primary, items, disk, call, history>>

Crash ==
    /\ "crash" \in Faults /\ up
    /\ Die
    /\ UNCHANGED <<disk, history>>
-----------------------------------------------------------------------------
(* Unlock(p).  An unlocked vault returns nil whatever p is.  identityKey is *)
(* set first, and IsLocked reads it without the lock.                       *)

Unlock(p) ==
    /\ Idle
    /\ \/ ~IsLocked /\ Refuse("ok")
       \/ /\ IsLocked
          /\ identityKey' = p /\ Proceed("identity")
          /\ UNCHANGED <<up, primary, recovery, items, disk, cur, todo, tries,
                         history>>

(* Mutant: an identity file that does not open is taken for a missing one.  *)
NoIdentity_Unopened == ~IdentityOpens

NoIdentity == idFile = Absent

VerifyIdentity ==
    /\ pc = "identity"
    /\ UNCHANGED <<disk, history>>
    /\ \/ /\ ~NoIdentity /\ IdentityOpens
          /\ primary' = idFile.ident /\ Proceed("load")
          /\ UNCHANGED <<up, identityKey, recovery, items, cur, todo, tries>>
       \/ /\ \/ idFile = Partial \/ "read" \in Faults
             \/ idFile \in IdentityFile /\ idFile.key # identityKey
          /\ identityKey' = Nil /\ Return("error")
          /\ UNCHANGED <<up, primary, recovery, items>>
       \/ idFile = Empty /\ Die

(* When the file cannot be written, identityKey stays set.                  *)
GenerateIdentity(ident) ==
    /\ pc = "identity" /\ NoIdentity
    /\ \E o \in WriteOutcomes :
        /\ idFile' \in Contents(idFile, [key |-> identityKey, ident |-> ident],
                                {Partial, Empty}, o)
        /\ \/ /\ o = "ok"
              /\ primary' = ident /\ Proceed("load")
              /\ UNCHANGED <<up, identityKey, recovery, items, cur, todo, tries>>
           \/ o = "write" /\ Return("error") /\ UNCHANGED <<up, memory>>
           \/ o = "crash" /\ Die
    /\ UNCHANGED <<recFile, metaFile, valFile, backups, history>>

LoadItems ==
    /\ pc = "load"
    /\ UNCHANGED <<disk, history>>
    /\ \/ /\ "read" \in Faults
          /\ Forget /\ Return("error")
          /\ UNCHANGED <<up, recovery>>
       \/ \E bad \in Unreadable(Ids) :
            \/ Short \subseteq bad
               /\ items' = [i \in Ids |-> IF i \in Legible \ bad
                                          THEN metaFile[i].sum ELSE Absent]
               /\ Return("ok")
               /\ UNCHANGED <<up, identityKey, primary, recovery>>
            \/ ~(Short \subseteq bad) /\ Die

Lock ==
    /\ Idle
    /\ \/ IsLocked /\ Refuse("error")
       \/ /\ ~IsLocked
          /\ Forget /\ Return("ok")
          /\ UNCHANGED <<up, recovery, disk, history>>
-----------------------------------------------------------------------------
(* Items.  CreateItem is one WriteFile and one map insertion.               *)

CreateItem(id) ==
    /\ Idle /\ life[id] = "unborn"
    /\ \/ IsLocked /\ Refuse("error")
       \/ ~IsLocked /\ primary = Nil /\ Die /\ UNCHANGED <<disk, history>>
       \/ /\ ~IsLocked /\ primary # Nil
          /\ \E o \in WriteOutcomes :
              /\ life' = [life EXCEPT ![id] = IF o = "ok" THEN "created"
                                                        ELSE "lost"]
              /\ \E c \in Contents(Absent, [sum |-> Nil, by |-> primary],
                                   {Partial, Empty}, o) :
                    metaFile' = [metaFile EXCEPT ![id] = c]
              /\ \/ /\ o = "ok"
                    /\ items' = [items EXCEPT ![id] = Nil] /\ Return("ok")
                    /\ UNCHANGED <<up, identityKey, primary, recovery>>
                 \/ o = "write" /\ Return("error") /\ UNCHANGED <<up, memory>>
                 \/ o = "crash" /\ Die
          /\ UNCHANGED <<idFile, recFile, valFile, backups, stored, offered,
                         confirmed>>

(* Mutant: the previous value is not copied aside.                          *)
FirstStep_Unsaved(checksum) == "value"

(* writeItemValueUnsafe backs an item up when it has a value.               *)
FirstStep(checksum) == IF checksum = Nil THEN "value" ELSE "backup"

(* SetItemValue; Nil is the empty value.                                    *)
SetItemValue(id, v) ==
    /\ Idle
    /\ \/ (v = Nil \/ IsLocked \/ items[id] = Absent) /\ Refuse("error")
       \/ /\ v # Nil /\ ~IsLocked /\ items[id] # Absent
          /\ cur' = [id |-> id, val |-> v, caller |-> "SetItemValue"]
          /\ Proceed(FirstStep(items[id]))
          /\ offered' = [offered EXCEPT ![id] = @ \cup {v}]
          /\ UNCHANGED <<up, memory, disk, todo, tries, life, stored, confirmed>>

(* writeItemValueUnsafe returns an error: SetItemValue returns it, and      *)
(* SetRecoveryRecipient logs it and takes the next item.                    *)
Abandon ==
    \/ cur.caller = "SetItemValue" /\ Return("error")
    \/ /\ cur.caller = "SetRecoveryRecipient"
       /\ Proceed("reseal") /\ cur' = Nil /\ UNCHANGED <<todo, tries>>

(* copyFile to the backup path.  A torn copy is no backup.                  *)
BackupValue ==
    /\ pc = "backup"
    /\ UNCHANGED <<up, memory, idFile, recFile, metaFile, valFile, history>>
    /\ LET copied == [backups EXCEPT ![cur.id] = @ \cup
                        (IF valFile[cur.id] \in Sealed THEN {valFile[cur.id].val}
                                                       ELSE {})]
       IN \/ /\ valFile[cur.id] # Absent
             /\ backups' = copied
             /\ Proceed("value") /\ UNCHANGED <<cur, todo, tries>>
          \/ /\ valFile[cur.id] = Absent \/ "read" \in Faults
             /\ Abandon /\ UNCHANGED backups
          \/ /\ valFile[cur.id] # Absent /\ "write" \in Faults
             /\ backups' \in {backups, copied}
             /\ Abandon

WriteValue ==
    /\ pc = "value"
    /\ \E o \in WriteOutcomes :
        /\ \E c \in Contents(valFile[cur.id],
                             [val |-> cur.val, primary |-> primary,
                              recovery |-> recovery], {Partial}, o) :
              valFile' = [valFile EXCEPT ![cur.id] = c]
        /\ \/ /\ o = "ok" /\ Proceed("metadata")
              /\ UNCHANGED <<up, memory, cur, todo, tries>>
           \/ o = "write" /\ Abandon /\ UNCHANGED <<up, memory>>
           \/ o = "crash" /\ Die
    /\ UNCHANGED <<idFile, recFile, metaFile, backups, history>>

WriteMetadata ==
    /\ pc = "metadata"
    /\ \E o \in WriteOutcomes :
        /\ \E c \in Contents(metaFile[cur.id],
                             [sum |-> cur.val, by |-> primary],
                             {Partial, Empty}, o) :
              metaFile' = [metaFile EXCEPT ![cur.id] = c]
        /\ \/ /\ o = "ok"
              /\ items' = [items EXCEPT ![cur.id] = cur.val]
              /\ UNCHANGED <<up, identityKey, primary, recovery>>
              /\ \/ /\ cur.caller = "SetRecoveryRecipient"
                    /\ Proceed("reseal") /\ cur' = Nil
                    /\ UNCHANGED <<todo, tries, stored, offered>>
                 \/ /\ cur.caller = "SetItemValue"
                    /\ Return("ok")
                    /\ stored' = [stored EXCEPT ![cur.id] = cur.val]
                    /\ offered' = [offered EXCEPT ![cur.id] = {cur.val}]
           \/ o = "write" /\ Abandon /\ UNCHANGED <<up, memory, stored, offered>>
           \/ o = "crash" /\ Die /\ UNCHANGED <<stored, offered>>
    /\ UNCHANGED <<idFile, recFile, valFile, backups, life, confirmed>>

(* GetItem of a listed item.  An item without content gives (nil, nil).     *)
GetItem(id) ==
    /\ Idle
    /\ \/ (IsLocked \/ items[id] = Absent) /\ Refuse("error")
       \/ ~IsLocked /\ items[id] = Nil /\ Refuse("ok")
       \/ /\ ~IsLocked /\ items[id] \in Values
          /\ \E o \in ReadOutcomes(id, items[id]) :
              \/ o = "ok" /\ Refuse("ok")
              \/ o = "error" /\ Refuse("error")
              \/ o = "fatal" /\ Die /\ UNCHANGED <<disk, history>>

(* DeleteItem drops the map entry, then the metadata file, then the value   *)
(* file, and returns nil whatever came of the files; nil also for an id     *)
(* that is not listed.                                                      *)
DeleteItem(id) ==
    /\ Idle
    /\ \/ IsLocked /\ Refuse("error")
       \/ /\ ~IsLocked /\ items[id] = Absent
          /\ life' = [life EXCEPT ![id] = IF @ = "created" THEN "deleted" ELSE @]
          /\ stored' = [stored EXCEPT ![id] = Nil]
          /\ Return("ok")
          /\ UNCHANGED <<up, memory, disk, offered, confirmed>>
       \/ /\ ~IsLocked /\ items[id] # Absent
          /\ items' = [items EXCEPT ![id] = Absent]
          /\ \E c \in Remains(metaFile[id]) :
                metaFile' = [metaFile EXCEPT ![id] = c]
          /\ stored' = [stored EXCEPT ![id] = Nil]
          /\ todo' = {id} /\ Proceed("deleteValue")
          /\ UNCHANGED <<up, identityKey, primary, recovery, idFile, recFile,
                         valFile, backups, cur, tries, life, offered, confirmed>>

DeleteValue ==
    /\ pc = "deleteValue"
    /\ \E id \in todo :
        /\ \E c \in Remains(valFile[id]) : valFile' = [valFile EXCEPT ![id] = c]
        /\ life' = [life EXCEPT ![id] = "deleted"]
    /\ Return("ok")
    /\ UNCHANGED <<up, memory, idFile, recFile, metaFile, backups, stored,
                   offered, confirmed>>
-----------------------------------------------------------------------------
(* SetRecoveryRecipient(r) writes .recovery, then rewrites every item it can *)
(* read, sealed to the new recipient.                                        *)

SetRecoveryRecipient(r) ==
    /\ Idle
    /\ \/ IsLocked /\ Refuse("error")
       \/ ~IsLocked /\ primary = Nil /\ Die /\ UNCHANGED <<disk, history>>
       \/ /\ ~IsLocked /\ primary # Nil
          /\ \E o \in WriteOutcomes :
              /\ recFile' \in Contents(recFile, r, {Partial}, o)
              /\ \/ /\ o = "ok"
                    /\ recovery' = r /\ confirmed' = Nil
                    /\ Proceed("reload")
                    /\ UNCHANGED <<up, identityKey, primary, items, cur, todo,
                                   tries>>
                 \/ /\ o = "write" /\ recovery = Nil
                    /\ Return("error") /\ UNCHANGED <<up, memory, confirmed>>
                 \/ /\ o = "write" /\ recovery # Nil
                    /\ Proceed("restore") /\ tries' = 3
                    /\ UNCHANGED <<up, memory, cur, todo, confirmed>>
                 \/ o = "crash" /\ Die /\ confirmed' = Nil
          /\ UNCHANGED <<idFile, metaFile, valFile, backups, life, stored,
                         offered>>

(* Mutant: the attempts are not counted.                                    *)
LastTry_Never == FALSE

LastTry == tries = 1

(* Three attempts to put the previous recipient back, then log.Fatal.       *)
RestoreRecipient ==
    /\ pc = "restore"
    /\ \E o \in WriteOutcomes :
        /\ recFile' \in Contents(recFile, recovery, {Partial}, o)
        /\ \/ /\ o = "ok"
              /\ Return("error") /\ UNCHANGED <<up, memory, confirmed>>
           \/ /\ o = "write" /\ ~LastTry
              /\ Proceed("restore") /\ tries' = tries - 1
              /\ UNCHANGED <<up, memory, cur, todo, confirmed>>
           \/ /\ o = "crash" \/ (o = "write" /\ LastTry)
              /\ Die /\ confirmed' = Nil
    /\ UNCHANGED <<idFile, metaFile, valFile, backups, life, stored, offered>>

ReloadMetadata ==
    /\ pc = "reload"
    /\ UNCHANGED <<disk, history>>
    /\ \/ /\ "read" \in Faults
          /\ Return("error") /\ UNCHANGED <<up, memory>>
       \/ \E bad \in Unreadable(Ids) :
            \/ /\ Short \subseteq bad
               /\ todo' = Legible \ bad /\ Proceed("reseal")
               /\ UNCHANGED <<up, memory, cur, tries>>
            \/ ~(Short \subseteq bad) /\ Die

(* Mutant: the buffer of the value is wiped before it is written.           *)
Plaintext_Wiped(id) == CHOOSE v \in Values : v # valFile[id].val

Plaintext(id) == valFile[id].val

(* Mutant: an item whose value cannot be read is tried again.               *)
Rest_Retry(id) ==
    IF valFile[id] \in Sealed /\ valFile[id].val = metaFile[id].sum
    THEN todo \ {id} ELSE todo

Rest(id) == todo \ {id}

(* One turn of the loop, up to the rewriting: an unreadable item is skipped. *)
ResealItem(id) ==
    /\ pc = "reseal" /\ id \in todo
    /\ \E o \in ReadOutcomes(id, metaFile[id].sum) :
        \/ /\ o = "ok"
           /\ cur' = [id |-> id, val |-> Plaintext(id),
                         caller |-> "SetRecoveryRecipient"]
           /\ todo' = Rest(id) /\ Proceed(FirstStep(metaFile[id].sum))
           /\ UNCHANGED <<up, memory, tries>>
        \/ /\ o = "error"
           /\ todo' = Rest(id) /\ Proceed("reseal")
           /\ UNCHANGED <<up, memory, cur, tries>>
        \/ o = "fatal" /\ Die
    /\ UNCHANGED <<disk, history>>

FinishRecovery ==
    /\ pc = "reseal" /\ todo = {}
    /\ confirmed' = recovery
    /\ Return("ok")
    /\ UNCHANGED <<up, memory, disk, life, stored, offered>>
-----------------------------------------------------------------------------
(* Calls begin when the lock is free; the one in progress then continues.   *)

Begin ==
    \/ \E p \in Passphrases : Unlock(p)
    \/ Lock
    \/ \E id \in Ids :
        \/ CreateItem(id) \/ GetItem(id) \/ DeleteItem(id)
        \/ \E v \in Values \cup {Nil} : SetItemValue(id, v)
    \/ \E r \in Recipients : SetRecoveryRecipient(r)

Continue ==
    \/ VerifyIdentity
    \/ \E ident \in Identities : GenerateIdentity(ident)
    \/ LoadItems
    \/ BackupValue \/ WriteValue \/ WriteMetadata
    \/ DeleteValue
    \/ RestoreRecipient \/ ReloadMetadata \/ FinishRecovery
    \/ \E id \in Ids : ResealItem(id)

Next == NewVault \/ Crash \/ Begin \/ Continue

Spec == Init /\ [][Next]_vars
-----------------------------------------------------------------------------
(* What the vault is for.                                                   *)

Readable(i) ==
    /\ metaFile[i] \in Metadata /\ valFile[i] \in Sealed
    /\ metaFile[i].sum = valFile[i].val

(* Whatever fails, every intact file was written under the identity that    *)
(* .identity holds: an Unlock that generated a second identity would leave  *)
(* items that no passphrase opens, and GetItem would end the process.       *)
SealedByIdentity ==
    \A i \in Ids :
        /\ metaFile[i] \in Metadata =>
              idFile \in IdentityFile /\ metaFile[i].by = idFile.ident
        /\ valFile[i] \in Sealed =>
              idFile \in IdentityFile /\ valFile[i].primary = idFile.ident

(* The passphrase that created the vault stays its passphrase: an intact    *)
(* .identity is never written again, across locks, faults and restarts.     *)
IdentityNeverRewritten == [][(idFile \in IdentityFile) => (idFile' = idFile)]_vars

(* Whatever fails, the value of the last SetItemValue that returned nil is  *)
(* in the value file or in a backup until its deletion is asked for: later  *)
(* writes that fail or are cut short do not lose it.                        *)
AckedValueKept ==
    \A i \in Ids : stored[i] # Nil =>
        \/ stored[i] \in backups[i]
        \/ valFile[i] \in Sealed /\ valFile[i].val = stored[i]

(* GetItem never returns a value older than the last acknowledged one: the  *)
(* rewriting by SetRecoveryRecipient does not bring an overwritten one back.*)
NoStaleRead ==
    \A i \in Ids :
        (items[i] \in Values /\ valFile[i] \in Sealed /\ items[i] = valFile[i].val)
            => items[i] \in offered[i]

(* An item whose DeleteItem returned nil is not listed again, after a       *)
(* relock, a restart or SetRecoveryRecipient, which rereads the metadata    *)
(* files.  Needs files that can be deleted and read.                        *)
DeletedStaysDeleted == \A i \in Ids : life[i] = "deleted" => items[i] = Absent

(* SetRecoveryRecipient returned nil: every readable item is sealed to that *)
(* recipient, and so is everything written later, also after a restart.     *)
RecoveryConfirmed ==
    confirmed # Nil =>
        \A i \in Ids : Readable(i) => valFile[i].recovery = confirmed

(* Whatever fails, the recipient that the vault seals to is the one that    *)
(* .recovery holds and a restart will load, except while a failed change is *)
(* being undone: the attempts to undo it succeed or end the process.        *)
RecoveryOnDisk == (recovery # Nil /\ pc # "restore") => recFile = recovery

(* Between calls an unlocked vault lists exactly the items whose metadata   *)
(* file is intact, with the checksum the file holds.                        *)
IndexMatchesDisk ==
    (Idle /\ primary # Nil) =>
        \A i \in Ids :
            items[i] = IF metaFile[i] \in Metadata THEN metaFile[i].sum ELSE Absent

(* vault_test.go:108-109: after an Unlock that returned an error "Vault     *)
(* should still be locked".                                                 *)
FailedUnlockLeavesLocked ==
    [][(pc \in {"identity", "load"} /\ result' = "error") => identityKey' = Nil]_vars
=============================================================================
