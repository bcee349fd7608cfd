# A TLA+ model of the credential store

`credentials/` of this repository holds a small server, `credstore`, that keeps
secrets encrypted on disk and hands them out over gRPC, and its command-line
client `cred`. (`borg-collective/` has no code yet.) This project models both in
TLA+, checks the models with TLC on small instances and proves their safety
properties and the refinement of the vault's abstract specification with TLAPS for
instances of every size. Paths below are relative to `credentials/internal/store/`
unless they say otherwise; `cli/` is `credentials/internal/cli/`.

- [The system](#the-system)
- [Modules](#modules)
- [Runs](#runs)
- [Properties](#properties)
- [Disagreements found](#disagreements-found)
- [Proofs](#proofs)
- [What is left out](#what-is-left-out)
- [Plan](#plan)

## The system

| component | state | operations | what makes it hard |
|---|---|---|---|
| vault (`vault/vault.go`, `vault/utils.go`) | key, identity, recovery recipient and item index in memory; `.identity`, `.recovery`, `<id>.json`, `<id>.age`, `.bak/` on disk | Unlock, Lock, VerifyPassphrase, CreateItem, SetItemValue, GetItem, DeleteItem, SetRecoveryRecipient, Items | several files per operation and no transaction: every operation can stop between two of them |
| storage backend (`vault/backend.go`) | the directory | ListFiles, ReadFile, WriteFile, DeleteFile | `os.WriteFile` truncates before it writes |
| service (`service/*.go`) | none | one function per RPC: a series of vault calls | the vault's lock is free between two calls |
| gRPC server (`server/grpc.go`, `server.go`) | none | one goroutine per request | a panic or `log.Fatal` anywhere ends all requests |
| certificate reloader (`cert/cert.go`) | the served certificate, a channel of one signal | reload on SIGHUP, GetCertificate | signals are dropped while one waits; two files are read while somebody writes them |
| secure listener (`server/securelistener.go`) | none | Accept, isLocalHost | refuses connections from the same host, and must go on afterwards |
| start (`cmd/store/main.go`, `config.go`, `server/server.go`) | none | NewServer, Serve | a failure at any point ends the process |
| client configuration (`cli/config`) | `config.toml`, three keyring entries for each store | configure, login, Load, Store | file and keyring are written one after the other, each may fail |
| TLS probe (`cli/conn`) | none | CheckIfTls | a timeout and a second dial decide |
| client commands (`cli/item`, `cli/store`, `cli/client`), gRPC client (`cli/grpcclient`) | none | one command per process | confirmations; export makes many calls |

Interactions: a request becomes a goroutine of the gRPC server, which calls one
service function, which calls the vault several times. The vault takes
`v.lock` (an `RWMutex`) in each call and holds it to the call's end, so calls
never overlap with a writing call, but the calls of different requests
interleave. The vault's only other partner is the backend. The goroutines of
requests share nothing but the vault. The reloader's goroutine shares the served
certificate with the handshakes, and the files with the operator who writes
them. A client process shares `config.toml` and the keyring with the client
processes before and after it, and the store with every other client.

Correctness, per component:

- vault: no acknowledged value is lost; no overwritten value comes back; one
  identity seals everything and is never replaced; a confirmed recovery
  recipient can open every readable item; what is listed is what the files
  hold; a deleted item stays deleted.
- service: a created item is readable; a refused creation leaves nothing; the
  passphrase a handler checked is still the right one when the handler acts;
  every request is answered.
- reloader: the served certificate and key belong together, and no reload takes
  the server back to an older pair; after a SIGHUP the certificate in the files is
  served, eventually.
- listener: in production no connection from the host itself is served, and no
  peer ends the server.
- client configuration: the id and the secret that are loaded are of one login,
  and of the last one; calls go to a store that answered, over the transport it
  answered on.
- client commands: an export holds every item, as it was created.

## Modules

| module | what it is |
|---|---|
| `Vault` | the vault and its backend, one action per operation or backend call |
| `MCVault` | instances of `Vault` for TLC |
| `SecretStore` | what the vault promises, without files, keys and locks |
| `VaultRefinement` | the mapping from `Vault` to `SecretStore` |
| `VaultProofs` | type correctness of `Vault`, proved |
| `VaultSafetyProofs` | one identity, the recovery recipient on disk, deletion and the confirmed recovery recipient, proved |
| `VaultValueProofs` | no acknowledged value lost, no overwritten value read, proved |
| `VaultRefinementProofs` | the index is the one on disk, and `Vault` implements `SecretStore`, proved |
| `CredStore` | the server: requests as interleaved series of vault calls; extends `Vault` |
| `MCCredStore` | instances of `CredStore` for TLC |
| `CredStoreProofs` | type correctness and safety of the server, for any number of handlers, proved |
| `Export` | `cred store export` as a client of the server; extends `CredStore` |
| `MCExport` | instances of `Export` for TLC |
| `ExportProofs` | `ExportIsWhole`, for any number of other clients, proved |
| `Front` | the server's start, certificate reloader, listener and handshakes |
| `MCFront` | an instance of `Front` for TLC |
| `FrontProofs` | type correctness and safety of `Front`, proved |
| `CliConfig` | the client's configuration file and keyring, configure, login, the TLS probe |
| `Cli` | the commands that call a store; extends `CliConfig` |
| `MCCli` | an instance of `Cli` for TLC |
| `CliProofs` | type correctness and safety of `Cli`, proved |

### Vault

State and code:

| variable | code |
|---|---|
| `identityKey`, `primary`, `recovery`, `items` | the fields of `Vault`; `primary` stands for `primaryRecipient` and `metadataHmacSecret`, which are assigned together; `items[i]` is the checksum of the listed item |
| `idFile`, `recFile`, `metaFile`, `valFile` | `.identity`, `.recovery`, `<id>.json`, `<id>.age`: absent, intact, `Partial` (torn: its reader returns an error) or `Empty` (torn and so short that its reader panics) |
| `backups` | the plaintexts held by intact backups |
| `up` | the process runs |
| `pc`, `cur`, `todo`, `tries` | the operation that holds `v.lock`: its next backend call, the value it writes, the items or attempts left |
| `result`, `life`, `stored`, `offered`, `confirmed` | what callers were told; used by properties and by the freshness of ids only |

A writing operation is a chain of actions, one per backend call, because that is
where it can stop:

    Unlock -> VerifyIdentity | GenerateIdentity -> LoadItems
    CreateItem
    SetItemValue -> BackupValue? -> WriteValue -> WriteMetadata
    DeleteItem -> DeleteValue
    SetRecoveryRecipient -> RestoreRecipient* | ReloadMetadata
        -> ( ResealItem -> BackupValue -> WriteValue -> WriteMetadata )* -> FinishRecovery

Everything between two backend calls is part of an action. `GetItem` holds the
read lock and changes nothing, so it is one step. A panic and `log.Fatal` are
`Die`: the process ends, memory is forgotten, files stay; `NewVault` starts it
again. Interrupts (`memguard.CatchInterrupt` in `cmd/store/main.go`) are a
`Crash` as well.

Cryptography is modelled by what it tells apart. A passphrase stands for its
hash; a checksum for the plaintext; a sealed file records the identity and the
recovery recipient it was sealed to; an HMAC the identity whose secret made it.
`.identity` opens only with the key it was written with. A torn ciphertext does
not decrypt, and a torn recipient does not parse.

`Faults` selects what the environment does: errors of reads, writes and
deletions, crashes. A failing or interrupted WriteFile leaves the old, the new or
torn content.

### CredStore

`CredStore` extends `Vault` and composes it with handlers. `req[h]` is the
request goroutine `h` serves, `at[h]` the vault call it makes next or is making,
`turn` the goroutine that holds `v.lock` in the middle of a call. A vault call
whose chain is not finished lets nothing but `Progress` (its next backend call)
touch the vault; when it returns, `Resume` takes the handler to its next call or
to its answer, following the service function. `Report` is the exception: GetInfo
reads `identityKey` without the lock. An argument that does not parse is `Nil`,
and `Reject` answers it where the code finds out.

`ReadVaultItem` computes the outcome of its check of the credentials and assigns
`err` again before it looks at it; the model follows the code, so that outcome
does not matter in it, only the vault call made by the check does.

### SecretStore and VaultRefinement

`SecretStore` is what a caller may rely on when the backend reports no errors and
the process may die anywhere. The store belongs to the first passphrase. An item
is unborn, empty, settled on a value, unsettled (reading it gives an error) or
gone; its value changes only by a write to it while the store is open; a write
that is cut short may leave the item unsettled or gone but never with a third
value; what is gone does not return. The state functions `Stage`, `LastSettled`,
`OpenWith` and `Owner` of `VaultRefinement` read it off the vault's files and memory:
there is an item when its metadata file is intact, and it is settled when the
value file can be opened and has the checksum the metadata give.

A value changes in two writes of files, the
value file first: between them the item is unsettled unless the old value is written
again, which is what SetRecoveryRecipient does (`Halfway`). A crash in a write of
the metadata leaves no item (`Cut`); a claimed store may still be shut, because
Unlock writes `.identity` before it loads the items (`Claim`).

### Export

`Export` puts a client beside the handlers of `CredStore`. `phase` is where
`exportCmd.run` is; its requests are served by the handler `Exporter`, and `React`
reads off the step of the server what the client learns: nothing yet, a listing,
a value, an error, or that the connection is gone. `due` and `locked` are not
variables of the code; they record what a whole export has to hold. `Exported`
is what `json.Marshal` makes of a value.

### Front

| variable | code |
|---|---|
| `main`, `ended` | how far `main` and NewServer are; why the process ended |
| `certificate`, `reloader`, `pending` | the reloader's field, its goroutine, and its channel of one signal |
| `read` | `tls.LoadX509KeyPair` between its two reads |
| `certFile`, `keyFile`, `renewal`, `version` | the two files, as versions, and the operator who writes each in place and then sends SIGHUP |
| `peer`, `conn`, `shown` | the addresses of each connection, what became of it, the certificate of its handshake |

The reload is two actions, `ReadCertificate` and `ReadKey`, for the operator writes
between them; so is the first load, which ends the process when it fails. SIGHUP
ends the process until the goroutine has called `signal.Notify` (`Register`). The
listener's `Accept` turns away a peer at a loopback address, at the connection's
own local address, or at another address of the host, and one whose lookup fails.

### CliConfig and Cli

| variable | code |
|---|---|
| `file`, `ring` | `config.toml` (absent, or its fields; `Blank` when truncated), the keyring's three entries per host and port |
| `config` | `State.config` of the running process |
| `cmd`, `pc` | the command, and the step of `Store` or of the command it is at |
| `speaks` | what answers at each address: TLS, plain gRPC or something else |
| `asked`, `sent` | confirmations still to come, the call the process made |
| `entered`, `last`, `broken` | used by the properties only |

`Store` is a chain: the file is opened with `O_TRUNC`, then the id, the secret (the
id is removed again when that fails) and the passphrase go into the keyring, then
the file is encoded. Each step may fail and the process may be killed between any
two. The encoded file is a few hundred bytes written by one call, so that write is
done or not. `Load` is one step, for one client process runs at a time; each of its
reads from the keyring may fail. A command is `Run` (Load), a number of
confirmations (`Confirm`), and one call (`Send`). The call is recorded with its
address, transport and credentials; what the server does with it is in `CredStore`.

## Runs

All constants are sets of model values. Every bound is a cardinality of such a
set; there is no state constraint.

| run | instance | shows |
|---|---|---|
| `vault_faults` | 1 item, 2 values, passphrases, identities, recipients; all faults | `TypeOK`, `SealedByIdentity`, `AckedValueKept`, `NoStaleRead`, `RecoveryOnDisk`, `IdentityNeverRewritten` |
| `vault_crash` | 2 items, 2 values, 2 recipients, 2 passphrases; crashes | `RecoveryConfirmed`, `IndexMatchesDisk`, `DeletedStaysDeleted`, `ImplementsStore` |
| `vault_unlock`, `vault_delete`, `vault_reseal` | 1 item; one kind of fault each | violated: see [below](#disagreements-found) |
| `credstore_calls` | 2 handlers, one of them used by an export; 2 items, passphrases and values, one of which is not UTF-8; no faults | `PromisedReadable`, `VerifiedStillHolds`, `ExportIsWhole` |
| `credstore_faults` | 2 handlers, 1 item, nobody locks; failing and torn writes, crashes | `NeverMismatched`, `RefusedLeavesNothing`, `Answered` |
| `credstore_read` | 2 handlers, every RPC; no faults | violated: see [below](#disagreements-found) |
| `export_binary`, `export_locked` | 2 handlers, one of them used by an export, 1 item; creations of two values, one of which is not UTF-8, and creations and locks; no faults | violated: see [below](#disagreements-found) |
| `front_reload` | 2 connections, 4 addresses, 2 renewals; all faults | `FrontTypeOK`, `ServedPairMatches`, `OnlyRemotePeers`, `NeverOlder`, `Decided`, `RenewalServed` |
| `cli_config` | 1 host with 2 ports, 2 logins, 1 passphrase; all faults | `CliTypeOK`, `PairFromOneLogin`, `CallsGoWhereProbed`, `ReadUsesLatestLogin` |

Why the bounds are enough. The items of a vault do not influence each other:
every file belongs to one item, and only SetRecoveryRecipient's loop and the
index speak of several. One item therefore suffices for properties of one item,
and two where the loop or the index matter. Two values tell an overwritten value
from the current one; a third adds no new relation between the files, memory
and the last acknowledged value. Two identities, passphrases and recipients tell
"the same" from "another". Two handlers make every interleaving of two
requests; the vault serialises calls, so that a third request can only insert
further complete calls. An id is drawn by at most one CreateItem, so the number
of items bounds the number of creations; all other operations repeat without
bound. For the properties with a theorem the bounds do not matter at all.

`vault_crash` runs under a VIEW that leaves out `backups`, `stored` and `offered`: no
guard reads them, and neither the run's invariants nor the refinement mapping do,
so states that differ in them only behave alike. (`VaultValueProofs` is about them.)

In `Front` two renewals give every order of a reload with the renewal before and
after it: a third can only replace a pair that was already replaced. The four
addresses are one of each kind and a second interface, so that a peer can be local
without having the connection's own address. The second connection waits behind,
or is served beside, the first.

In `Cli` the ports 80 and 443 are the ones the code treats specially: the default
port of a transport is stored as none, so that a host has one key for plain gRPC
on 80 and TLS on 443, and keys of their own for the other two combinations. That
makes three stores whose entries must not be confused. Two logins tell the last
from an earlier one. An export needs two items to be between two reads.

Deadlock is checked wherever the system cannot stop. It is switched off in runs
with crashes or torn writes: a torn `.recovery` keeps the server from starting
(`NewVault` returns an error), and then nothing happens any more.

Fairness (`FairStoreSpec`, used for `Answered` only). `Progress` is weakly fair:
a goroutine that holds the lock is scheduled, and each backend call returns.
`Serve(h)` is strongly fair: its guard is the free lock, which is not free
continuously; Go's `RWMutex` lets no waiter starve, for a waiting writer stops
new readers and a writer's release admits the waiting readers first. Arrivals of
requests, the start of the server and crashes are not fair.

`FairSpec` of `Front`: the goroutines of the server run when they can, so loading,
`Register`, `TakeSignal` and the `Accept` of each queued connection are weakly fair
(the kernel's queue of connections is first come, first served). Nothing is
assumed of the operator, the peers, or the start. A reload is not waited for by
anyone: `RenewalServed` needs its two reads to be fair, which they are because
files are local.

## Properties

Each property has a mutation: an operator beside the one it replaces (a comment
marks it `Mutant:`) which puts a plausible mistake in the place of one definition of
the model. Under that mutation the run finds the property violated, so the
property depends on the code doing what it does.

| property | says | mutation that breaks it |
|---|---|---|
| `SealedByIdentity` | every intact file was written under the identity in `.identity` | an unreadable `.identity` taken for a missing one |
| `IdentityNeverRewritten` | no step changes an intact `.identity` | the same |
| `AckedValueKept` | the last acknowledged value is in the value file or in a backup | no backup before the write |
| `NoStaleRead` | no overwritten value is returned | a write reported as done that was not |
| `RecoveryOnDisk` | the recipient in memory is the one in `.recovery`, except while a failed change is undone | the same |
| `RecoveryConfirmed` | after SetRecoveryRecipient returned nil every readable item is sealed to that recipient | `.recovery` not loaded at the start |
| `IndexMatchesDisk` | an unlocked, idle vault lists what the metadata files hold | items without a value not listed |
| `DeletedStaysDeleted` | an item whose DeleteItem returned nil is not listed again | DeleteFile mistaking an existing file for a missing one |
| `PromisedReadable` | an item whose creation was answered can be read, with its value | the error of SetItemValue ignored |
| `VerifiedStillHolds` | at each later vault call of a handler, an unlocked vault is unlocked with the passphrase the handler verified | any passphrase accepted |
| `NeverMismatched` | value file and intact metadata file of an item agree | the plaintext wiped before it is sealed again |
| `RefusedLeavesNothing` | a refused creation leaves no item | no clean-up |
| `Answered` | every request is answered or its process ends | an unreadable item tried again for ever |
| `ImplementsStore` | every step of the vault is a step of `SecretStore` or leaves it alone | the plaintext wiped before it is sealed again |
| `ExportIsWhole` | a completed export that listed an unlocked vault holds every item created before it and not deleted, and each value that is valid UTF-8 as it was created | items that cannot be read skipped |
| `ServedPairMatches` | every handshake in production presents a certificate with its own key | the two files not compared |
| `NeverOlder` | no reload takes a running server back to an older certificate or to none | the result stored before the error is looked at |
| `OnlyRemotePeers` | in production no connection from the host itself reaches gRPC | the interfaces' addresses not looked up |
| `Decided` | every connection is handed over or closed, by a server that no peer ends | the lookup's error returned from Accept |
| `RenewalServed` | a renewal that was signalled is served in the end, also when the signal came during a reload | a channel without a buffer |
| `PairFromOneLogin` | the id and the secret in the keyring are of one login | the id not removed when the secret could not be stored |
| `CallsGoWhereProbed` | calls go to an address, over the transport, at which a store answered | a failed GetInfo taken for an answer |
| `ReadUsesLatestLogin` | `item read` presents the login stored last | the credentials in the file kept by a login into the keyring |

`TypeOK` (of `Vault`), `FrontTypeOK` and `CliTypeOK` have a mutation as well: an attempt counted past
its end, a torn key installed, one keyring entry of two taken for a pair.

Under which faults a property holds is part of what it says. `RecoveryConfirmed`,
`IndexMatchesDisk` and `DeletedStaysDeleted` hold with crashes. They need a backend
that reads, for the code skips what it cannot read; the first and the second one
that writes, and the second and the third one that deletes, for the code ignores what
it cannot delete. `PromisedReadable` needs a backend that reads and writes and a
process that does not die, for a write that is cut short leaves an item without an
intact file. `VerifiedStillHolds` needs an `.identity` that can be written: when that
write fails, the vault counts as unlocked with a passphrase that no file holds
(`vault_unlock` below), a handler verifies it, and after a LockVault another
administrator creates the identity under another passphrase before the handler acts.
`RefusedLeavesNothing` needs a backend that deletes, for an item whose files remain is
listed again after a restart, and a vault that nobody locks between CreateItem and
the clean-up: with LockVault there, the clean-up fails too and an item without
content remains. Reads and writes may fail and the process may die (the theorem; the
run has failing writes and crashes). `NeverMismatched` holds under all faults and
requests to lock too, which the theorem shows and the run leaves out. It is a
property of the RPCs, which write an item once; the vault's own SetItemValue, called
twice, can leave the two files in disagreement when the second write of the metadata
fails. `ImplementsStore` holds with crashes and not with reported errors: an error of
DeleteFile, which is dropped, alone breaks it. `ExportIsWhole` is what remains of
"the entire contents" where the code keeps it: it leaves out the exports of a vault
that was locked between the check of the passphrase and the listing, which are empty
(`export_locked`), and says nothing of a value that is not valid UTF-8, which is
exported as something else (`export_binary`). It needs what `PromisedReadable` needs:
an item that an Unlock skipped is missing from the listing, and the export is
completed without it.
`PairFromOneLogin` leaves out a process killed between the two keyring writes, and
one whose undoing of the first failed as well.

## Disagreements found

Each of these is a run that expects a violation.

- `vault_unlock`: when `.identity` cannot be written, Unlock returns an error but
  leaves `identityKey` set (`vault/vault.go:147`), where every other error path
  resets it. The vault counts as unlocked, has no identity, and the next
  CreateItem or SetRecoveryRecipient dereferences nil. `vault/vault_test.go:109`:
  after a failed Unlock the "Vault should still be locked".
- `vault_delete`: errors of DeleteFile are logged and dropped
  (`vault/vault.go:485`); the item is listed again after the next Unlock, while the
  client prints "DELETED" (`cli/item/write.go:184`) and `vault/vault_test.go:287`
  expects no items.
- `vault_reseal`: SetRecoveryRecipient skips items it cannot read
  (`vault/vault.go:294`) and returns nil; the client reports "Successfully set the
  recovery recipient" (`cli/store/recovery.go:97`).
- `credstore_read`: ReadVaultItem uses the nil that GetItem returns for an item
  without content (`service/vault.go:130`), which ends the server; every item is in
  that state between the CreateItem and the SetItemValue of its creation, and an
  export lists it. `vault/vault_test.go:323-324` treats the case as an ordinary one.
- `export_binary` (`ExportsValuesAsCreated`): a value is bytes, and the export makes a
  string of it (`cli/store/export.go:107`), in which `json.Marshal` replaces what is
  not valid UTF-8, without an error. Such a value cannot be had back from the file.
  `cli/store/export.go:45` says "Exports the entire contents of the vault as JSON".
- `export_locked` (`ExportsAllItems`): ListVaultItems calls Items in a lock of its own
  after VerifyPassphrase (`service/vault.go:80`). When another client locks the vault
  in between, the listing is empty and no error is returned. The export then
  replaces the output file by one without items and logs "Export complete"
  (`cli/store/export.go:164`), against the same line 45.

Met while modelling; each is read off one function, so no run is spent on it:

- `DeleteVaultItems` returns every id of the request (`service/vault.go`), so the
  client's "NOT FOUND" (`cli/item/write.go`) is never printed.
- `ListVaultItems` ignores the `Query` that `item list SEARCH` sends, although
  `cli/item/read.go:50` announces "Filter by description content".
- `configure` for another store writes the client credentials and the passphrase of
  the previous store under the new store's key (`cli/config/cmd.go`).
- Client credentials stored with `login -t` are not used while the keyring holds
  others (`cli/item/read.go`).
- When the user declines the second confirmation, `recovery-recipient` logs "Not
  setting a new recovery recipient, user aborted" (`cli/store/recovery.go:77`) and,
  without a `return` there, sets it all the same. `EndsCommand` of `Cli` has it.
- `ReadVaultItem` assigns the outcome of its check of the credentials to `err` and
  assigns `err` again before it looks at it (`service/vault.go:111-120`), so that the
  check decides nothing. `Read` of `CredStore` has it.

## Proofs

TLAPS proves the following for all values of the constants, from the
assumptions of the modules, which TLC evaluates on every run: `MarksDistinct` of
`Vault`, `RequestsKnown` and `HandlersDistinct` of `CredStore`, `ExportAssumption`,
`FrontAssumption` and `ConfigAssumption` (the marks for nil, missing and torn content
are none of the data beside which they stand, `Faults` is a set of the listed
kinds, requests are those of the RPCs, the exporter's handler is one of the handlers,
ports are positive numbers, other hosts' addresses are not this host's).

| theorem | property | assumes |
|---|---|---|
| `TypeCorrect` | `TypeOK` | |
| `OneIdentity` | `SealedByIdentity` | |
| `IdentityStays` | `IdentityNeverRewritten` | |
| `RecoveryStays` | `RecoveryOnDisk` | |
| `AcknowledgedValueKept` | `AckedValueKept` | |
| `ReadsAreFresh` | `NoStaleRead` | |
| `DeletedIsGone` | `DeletedStaysDeleted` | `DeletesAndReads` |
| `ConfirmedMeansSealed` | `RecoveryConfirmed` | `WritesAndReads` |
| `IndexIsDisk` | `IndexMatchesDisk` | `OnlyCrashes` |
| `VaultImplementsStore` | `ImplementsStore` | `OnlyCrashes` |
| `ServedVaultSafe` | the vault's properties without an assumption, under the server | |
| `OneValuePerItem` | `NeverMismatched` | |
| `VerificationHolds` | `VerifiedStillHolds` | no `"write"` in `Faults` |
| `RefusedIsGone` | `RefusedLeavesNothing` | no `"delete"` in `Faults`, `NobodyLocks` |
| `PromisedIsReadable` | `PromisedReadable` | `ReadsAndWrites` |
| `ExportsAreWhole` | `ExportIsWhole` | `ReadsAndWrites` |
| `FrontTypeCorrect` | `FrontTypeOK` | |
| `PairsMatch` | `ServedPairMatches` | |
| `LocalPeersTurnedAway` | `OnlyRemotePeers` | |
| `CertificatesAdvance` | `NeverOlder` | |
| `CliTypeCorrect` | `CliTypeOK` | |
| `PairsOfOneLogin` | `PairFromOneLogin` | |
| `CallsToProbedStores` | `CallsGoWhereProbed` | |
| `LatestLoginIsRead` | `ReadUsesLatestLogin` | |

Where the third column is empty the theorem holds for every choice of `Faults`.
Elsewhere it names what the environment may not do; the property fails when any kind
of fault or request named is let in, beside those that are allowed. `DeletesAndReads` excludes errors of reads and deletions (writes may fail and
be torn, and the process may die), `WritesAndReads` errors of reads and writes,
`ReadsAndWrites` everything but errors of deletions, `OnlyCrashes` every error that is
reported, `NobodyLocks` requests to lock. What breaks each property under the faults
excluded is said under [Properties](#properties) and shown by the runs that expect a
violation.

*Types.* `TypeOK` alone is not inductive: that WriteValue writes a sealed record needs
an identity and a value at hand. `LockOK` says what the holder of the lock can
rely on: a value is being written exactly at the writing steps, an identity is
loaded at every step after it was verified, the key is set while it is being
verified, attempts remain at each restoring step, only an unlocked vault lists
items. `Inv == TypeOK /\ LockOK` is inductive, with a lemma for each action.

*One identity.* `SealedByIdentity` needs `IdentityLoaded`: an unlocked vault works
with the identity that `.identity` holds, opened with that file's key. Generating
an identity is harmless because a missing `.identity` means, by the invariant
itself, that no intact file exists.

*Values.* `AckedValueKept` and `NoStaleRead` need four facts. `BornOK`: an id that
CreateItem has not drawn appears nowhere. `ShownOK`: an item with an acknowledged
value shows a checksum in memory and in its metadata file, so that the next write
makes a backup first. `WriteOK`: before the value file is opened the acknowledged
value is in a backup, and before the metadata are written the value file holds the
new value. `FreshOK`: what a value file holds is the acknowledged value or one
offered since. `GoneOK` (the item being deleted has no acknowledged value) is
inductive by itself and is proved apart. The conjunction was checked with TLC
before it was proved.

*Deletion.* That a deleted item is not listed (`KeptOK`) is threatened by whatever
writes a metadata file or lists one. `BusyOK` says that the item being written, and
each one still to be rewritten, is not a deleted one and is listed; `ListedOK` that an
unlocked vault lists every metadata file of an item that exists, so that "not listed",
on which DeleteItem returns nil at once, means that no file is left. A vault whose
`.identity` could not be written needs a clause of its own there: it counts as
unlocked and lists nothing, and no metadata file exists.

*The confirmed recipient.* While SetRecoveryRecipient rewrites, every readable item is
either sealed to the new recipient already or still in `todo`, or is the one in hand
(`ResealedOK`); a value that has been written is sealed to the recipient in memory
(`RewrittenOK`), which is the confirmed one once there is one (`ConfirmedOK`) and, by
`RecoveryOnDisk`, the one a restart loads. A crash in a write makes a file unreadable
and never readable (`ReadsNoMore`).

*Index and refinement.* `IndexOK` is `IndexMatchesDisk` during the calls as well. It
needs `TodoOK` (what is to be rewritten has an intact metadata file, what is being
deleted has none) and `TargetOK` (the item being written has one). `FileOK` (an item
with a checksum has a value file) is what keeps SetRecoveryRecipient's backups from
failing. The refinement has a lemma for each action of `Vault`: the step maps to the
step of `SecretStore` it is named after, or to none. The two writes of a value are the
delicate ones: `WriteValue` maps to `Halfway`, or to no step when the value is the one
the item has, and `WriteMetadata` settles it.

*The server.* The argument about the vault is used again and not repeated:
`StoreVault` says that a step of the server is, for the vault, a step of `Next`, the
panic of ReadVaultItem, or nothing, so that the vault's invariants hold under it
(`ServedVaultSafe`). `ServerOK` adds what the server knows: the request of a handler
fits the point it is at (`HandlerOK`), the call in progress is that of one handler
(`TurnOK`), no two creations work on one item (`DrawnOK`). `StoreSteps` splits a step
of the server into five kinds, and each property follows from what each kind does:

- `NeverMismatched`: a creation that has not called SetItemValue has an item that
  nothing was offered for (`UnsetOK`), hence at most one value is ever offered for an
  item (`OneValue`); checksums on disk are of offered values (`SumOK`), and so are
  value files (`FreshOK`).
- `VerifiedStillHolds`: what a handler verified is the key of `.identity`
  (`VerifiedOK`), which does not change (`IdentityStep`), and an unlocked vault was
  opened with it (`IdentityLoaded`). `KeyOK`, that a vault with a key has an identity,
  is what a failing write of `.identity` breaks.
- `RefusedLeavesNothing`: once a handler has verified its passphrase the vault stays
  unlocked (`OpenOK`), so the DeleteItem of the clean-up does delete, and `LinkOK` (the
  call in progress is the one its handler is at, for that handler's item) says whose
  item it deletes. Until then the item is listed, being deleted, or gone by another
  handler's deletion (`RefusedOK`). What is gone (`Gone`: deleted, unlisted, without an
  intact metadata file, and neither being written nor queued) stays so under every
  set of faults (`GoneStays`).
- `PromisedReadable`: the files of an item with an acknowledged value hold it and an
  unlocked vault lists it (`GoodOK`). A rewriting writes the value the item has, for
  there is only one (`OneValue`). An item that was promised has an acknowledged value
  until DeleteItem takes it (`PromiseOK`).

*The export.* `ListingOK`: an idle, unlocked vault lists every item that has a value
(`KeyOK`, `GoodOK`), so nothing due is missing from the listing. From then on each item
that is due has been read, is being read or will be asked for (`HeldOK`), since a read
that fails ends the export. What was read is `Exported` of a value the item was offered, which is that value
unless it is not UTF-8 (`FreshOK`), and offers only grow (`OffersStay`, for there is one value per item). The
server's invariants hold under the client's requests too, whether or not they are
among `Requests` (`AskedOK`).

*Front.* `Safe` adds to `FrontTypeOK` what the two files hold at each stage of a renewal
(`FilesFollow`), which variables are set at each stage of the server
(`StagesAgree`), and an order (`PairsInOrder`): the installed certificate is not newer
than the version the operator finished, nor than the certificate a reload in
progress has read. The point of the argument is `LoadedIsMatched`: when the two
versions read agree they are the version finished last, because the key file never
runs ahead of the certificate file.

*Client.* `Safe` says where the process is and what follows (`StepsAgree`: the file is
empty while the keyring is written, the id just written is the configuration's);
that two entries differ only while the secret is due (`PairsKept`); that the file,
the configuration and the call are of a store that answered (`Probed`); and that
wherever credentials are looked for (file, configuration, keyring entry of either)
only the last login's are found (`LastEverywhere`). The last is what makes
`ReadUsesLatestLogin` inductive: `configure` and `login -p` store again whatever Load
found. The steps of `Store` share one lemma (`GoesOnSafe`), the ways of ending a
command another (`ExitSafe`).

Each inductive invariant was checked with TLC on small instances before it was
proved, and the need for each assumption with a counterexample.

Only model-checked: `Answered`, `Decided` and `RenewalServed`, which are liveness
properties and out of this prover's reach.

## What is left out

- Descriptions, modification times, logging, the wiping of buffers.
- Two backups of one item within a millisecond share a name (`backupPath`) and the
  later replaces the earlier. The model assumes that writes of one item are at
  least a millisecond apart.
- Failures of memguard and of the random source, and of encryption in memory
  (`log.Fatal` in `encryptForRestUnsafe`).
- Requests without the credentials message, which the client never sends, and a
  client that goes away in the middle of a stream.
- Files changed by anybody but the server; two servers on one directory; two
  client processes at once.
- The handshakes of gRPC and TLS themselves, and the streaming of lists: an answer
  arrives whole or not at all.
- What the client prints, the parsing of arguments and of the configuration's
  encoding, and `logging/` (log lines only; `log.Fatal` is modelled where it is called).
- The fields of the server's configuration file; a file that cannot be used is the
  fault `start`.
- `vault/inmemorybackend.go`, which exists for the tests.
- `borg-collective/`, which has no code.

## Plan

Done: every part with state is modelled, every safety property that a passing run
checks is proved, and `Vault` is proved to implement `SecretStore`.

Next: `ExportTypeOK`; `SecretStore`'s promises carried over to the server (`ServedVaultSafe`
with the refinement); the hazards that no property covers yet.
