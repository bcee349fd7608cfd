-------------------------------- MODULE Export --------------------------------
(***************************************************************************)
(* cred store export (internal/cli/store/export.go) against the credstore  *)
(* server: the client lists the items, reads each in a request of its own, *)
(* and then writes the file.  Between two of its requests, and between the *)
(* vault calls of one, the requests of others are served.                  *)
(***************************************************************************)
EXTENDS CredStore

CONSTANTS
    Exporter,   \* the handler that serves the exporting client
    Binary,     \* values that are not valid UTF-8
    Mangled     \* what json.Marshal makes of those

ASSUME ExportAssumption ==
    /\ Exporter \in Handlers
    /\ Binary \subseteq Values /\ Mangled \notin Values

VARIABLES
    phase,     \* what the client does
    missing,   \* listed items it has still to read
    got,       \* the items it has read, with their values
    output,    \* the output file, as last written by anyone; {} when truncated
    due,       \* items an export has to hold; no code variable
    locked     \* the vault was locked when it listed the items; no code variable

client == <<phase, missing, got, output, due, locked>>
exportVars == <<allVars, client>>

Exports == UNION {[s -> Values \cup {Mangled}] : s \in SUBSET Ids}

ExportTypeOK ==
    /\ StoreTypeOK
    /\ phase \in {"none", "list", "read", "write", "done"}
    /\ missing \subseteq Ids /\ due \subseteq Ids
    /\ got \in Exports /\ output \in Exports
    /\ locked \in BOOLEAN

Nothing == [i \in {} |-> Mangled]

ExportInit ==
    /\ StoreInit
    /\ phase = "none" /\ missing = {} /\ got = Nothing /\ output = Nothing
    /\ due = {} /\ locked = FALSE
-----------------------------------------------------------------------------
(* The client's steps.                                                      *)

(* What was created and has not been asked to be deleted.                   *)
Kept == {i \in Ids : outcome[i] = "promised" /\ life[i] = "created" /\ stored[i] # Nil}

StartExport(p) ==
    /\ phase \in {"none", "done"}
    /\ Receive(Exporter, [rpc |-> "list", pass |-> p])
    /\ phase' = "list" /\ due' = Kept
    /\ UNCHANGED <<missing, got, output, locked>>

RequestItem(i) ==
    /\ phase = "read" /\ i \in missing
    /\ Receive(Exporter, [rpc |-> "read", cred |-> Nil, id |-> i])
    /\ missing' = missing \ {i}
    /\ UNCHANGED <<phase, got, output, due, locked>>

(* The file is opened with O_TRUNC.                                         *)
OpenOutput ==
    /\ phase = "read" /\ missing = {} /\ req[Exporter] = Nil
    /\ phase' = "write" /\ output' = Nothing
    /\ UNCHANGED <<allVars, missing, got, due, locked>>

WriteOutput ==
    /\ phase = "write"
    /\ phase' = "done" /\ output' = got
    /\ UNCHANGED <<allVars, missing, got, due, locked>>

(* The client has sent a request, or will send one.                         *)
Exporting == phase \in {"list", "read"}

Abort ==
    /\ phase' = "none" /\ missing' = {} /\ got' = Nothing /\ due' = {}
    /\ locked' = FALSE /\ UNCHANGED output

(* The process ends between two requests, or the user does not let the file *)
(* be overwritten.                                                          *)
GiveUp ==
    /\ Exporting \/ phase = "write"
    /\ Exporting => req[Exporter] = Nil
    /\ Abort /\ UNCHANGED allVars
-----------------------------------------------------------------------------
(* The answers of the server.                                               *)

Exported(v) == IF v \in Binary THEN Mangled ELSE v

(* Mutant: items that cannot be read are left out.                          *)
AfterFailedRead_Skip == UNCHANGED client

AfterFailedRead == Abort

TakeListing ==
    /\ phase' = "read" /\ got' = Nothing
    /\ missing' = {i \in Ids : items[i] # Absent}
    /\ locked' = IsLocked
    /\ due' = due \cap {i \in Ids : stored[i] # Nil}
    /\ UNCHANGED output

TakeValue(i) ==
    /\ got' = [j \in DOMAIN got \cup {i} |->
                  IF j = i THEN Exported(valFile[i].val) ELSE got[j]]
    /\ UNCHANGED <<phase, missing, output, due, locked>>

(* What a step of the server means to the client: no answer yet, one of the *)
(* answers it waits for, an error, or the end of the connection.            *)
React ==
    \/ (~Exporting \/ req'[Exporter] = req[Exporter]) /\ UNCHANGED client
    \/ /\ Exporting /\ req'[Exporter] # req[Exporter]
       /\ \/ ~up' /\ Abort
          \/ up' /\ at[Exporter] = "verify" /\ Abort
          \/ up' /\ at[Exporter] = "list" /\ TakeListing
          \/ /\ up' /\ at[Exporter] = "get" /\ result' = "ok"
             /\ TakeValue(req[Exporter].id)
          \/ up' /\ at[Exporter] = "get" /\ result' # "ok" /\ AfterFailedRead

(* While no export runs, the exporter's handler serves anyone's requests.   *)
OtherArrival ==
    /\ Arrival /\ UNCHANGED client
    /\ Exporting => req'[Exporter] = req[Exporter]

ExportNext ==
    \/ ServerStep /\ React
    \/ OtherArrival
    \/ \E p \in Passphrases : StartExport(p)
    \/ \E i \in Ids : RequestItem(i)
    \/ OpenOutput \/ WriteOutput \/ GiveUp

ExportSpec == ExportInit /\ [][ExportNext]_exportVars
-----------------------------------------------------------------------------
(* export.go:45: "Exports the entire contents of the vault as JSON".        *)

(* A completed export holds every item that had been created when it was    *)
(* started and was not deleted while it ran.  export.go:164 calls it "Export*)
(* complete" also when another client locked the vault between the check of *)
(* the passphrase and the listing, which is empty then.                     *)
ExportsAllItems ==
    phase = "done" => \A i \in due : stored[i] # Nil => i \in DOMAIN output

(* The output has the value the item was created with, and not one made of  *)
(* it.                                                                      *)
Verbatim(i) == output[i] \in offered[i]

(* A completed export holds the very values the items were created with,    *)
(* those among them that are not valid UTF-8 included.                      *)
ExportsValuesAsCreated ==
    phase = "done" => \A i \in DOMAIN output : Verbatim(i)

(* What remains of the promise where neither of the two happens: an export  *)
(* that listed an unlocked vault misses no item that is due, and every      *)
(* value that is valid UTF-8 is the one created, whatever other requests do *)
(* between those of the export.  Needs a backend that reads and writes, and *)
(* a process that does not die.                                             *)
ExportIsWhole ==
    (phase = "done" /\ ~locked) =>
        /\ ExportsAllItems
        /\ \A i \in DOMAIN output : offered[i] \cap Binary = {} => Verbatim(i)
=============================================================================
