--------------------------- MODULE VaultRefinement ---------------------------
(***************************************************************************)
(* The vault implements SecretStore, over a backend that reports no errors: *)
(* what its files and its memory hold, taken together, is at every moment a *)
(* state of the abstract store, and every backend call a step of it.        *)
(***************************************************************************)
EXTENDS Vault

(* Open once Unlock has loaded the items.                                   *)
OpenWith == IF primary # Nil /\ pc # "load" THEN identityKey ELSE Nil

Owner == IF idFile \in IdentityFile THEN idFile.key ELSE Nil

(* The metadata file says whether there is an item, and its checksum        *)
(* together with the value file whether it can be read.                     *)
Stage(i) ==
    CASE metaFile[i] \notin Metadata /\ life[i] = "unborn" -> "unborn"
      [] metaFile[i] \notin Metadata /\ life[i] # "unborn" -> "gone"
      [] metaFile[i] \in Metadata /\ metaFile[i].sum = Nil -> "empty"
      [] metaFile[i] \in Metadata /\ metaFile[i].sum # Nil ->
            IF Readable(i) THEN "settled" ELSE "unsettled"

LastSettled(i) == IF metaFile[i] \in Metadata THEN metaFile[i].sum ELSE Nil

Store == INSTANCE SecretStore WITH
    running <- up, open <- OpenWith, owner <- Owner,
    stage <- [i \in Ids |-> Stage(i)],
    value <- [i \in Ids |-> LastSettled(i)],
    writing <- cur

(* Whatever the process was doing when it died, and in whatever order calls *)
(* follow, no backend call takes a value, a passphrase or an item away that *)
(* SecretStore does not let go.                                             *)
ImplementsStore == Store!Spec
=============================================================================
