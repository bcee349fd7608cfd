----------------------------- MODULE SecretStore -----------------------------
(***************************************************************************)
(* What the vault promises its callers, without files, keys or locks, when  *)
(* the storage reports no errors and the process may die at any point:      *)
(*   - the store belongs to the first passphrase and opens with no other;   *)
(*   - the value of an item changes only by a write to that item, while the *)
(*     store is open; a write that is cut short may leave it unsettled (its *)
(*     reader gets an error), or the item gone, but never another value;    *)
(*   - a rewriting on the store's own account ends with the same value;     *)
(*   - an item that is gone does not return.                                *)
(***************************************************************************)
CONSTANTS Ids, Values, Passphrases, Nil

VARIABLES
    running,   \* the store can be called
    open,      \* the passphrase it was opened with, or Nil
    owner,     \* the passphrase it belongs to, or Nil
    stage,     \* what there is of each item
    value,     \* the value an item was last settled on, or Nil
    writing    \* the write in progress, or Nil

vars == <<running, open, owner, stage, value, writing>>

Stages == {"unborn", "empty", "settled", "unsettled", "gone"}
Live(i) == stage[i] \in {"empty", "settled", "unsettled"}
Writes == [id : Ids, val : Values,
           caller : {"SetItemValue", "SetRecoveryRecipient"}]

Init ==
    /\ running = FALSE /\ open = Nil /\ owner = Nil
    /\ stage = [i \in Ids |-> "unborn"] /\ value = [i \in Ids |-> Nil]
    /\ writing = Nil

Become(i, s, v) ==
    /\ stage' = [stage EXCEPT ![i] = s]
    /\ value' = [value EXCEPT ![i] = v]

GoOn == UNCHANGED <<running, open, writing>>
Halt == running' = FALSE /\ open' = Nil /\ writing' = Nil

Start ==
    /\ ~running /\ running' = TRUE
    /\ UNCHANGED <<open, owner, stage, value, writing>>

Stop == running /\ Halt /\ UNCHANGED <<owner, stage, value>>

Claim(p) ==
    /\ running /\ open = Nil /\ owner = Nil
    /\ owner' = p
    /\ GoOn \/ Halt
    /\ UNCHANGED <<stage, value>>

Open(p) ==
    /\ running /\ open = Nil /\ owner = p
    /\ open' = p
    /\ UNCHANGED <<running, owner, stage, value, writing>>

Close ==
    /\ open # Nil /\ writing = Nil
    /\ open' = Nil
    /\ UNCHANGED <<running, owner, stage, value, writing>>

Create(i) ==
    /\ open # Nil /\ writing = Nil /\ stage[i] = "unborn"
    /\ \/ Become(i, "empty", Nil) /\ (GoOn \/ Halt)
       \/ Become(i, "gone", Nil) /\ Halt
    /\ UNCHANGED owner

Delete(i) ==
    /\ open # Nil /\ writing = Nil /\ Live(i)
    /\ Become(i, "gone", Nil)
    /\ GoOn /\ UNCHANGED owner

(* A rewriting for a recovery recipient is of a settled item, to its value. *)
BeginWrite(w) ==
    /\ open # Nil /\ writing = Nil /\ Live(w.id)
    /\ w.caller = "SetRecoveryRecipient" =>
          stage[w.id] = "settled" /\ value[w.id] = w.val
    /\ writing' = w
    /\ UNCHANGED <<running, open, owner, stage, value>>

(* Half of a write is done: a reader sees the new value for the old one and *)
(* rejects it, unless they are the same.                                    *)
Halfway(i, v) ==
    /\ stage[i] \in {"settled", "unsettled"}
    /\ Become(i, IF value[i] = v THEN "settled" ELSE "unsettled", value[i])

Disturb ==
    /\ writing # Nil
    /\ Halfway(writing.id, writing.val)
    /\ GoOn /\ UNCHANGED owner

Finish ==
    /\ writing # Nil
    /\ Become(writing.id, "settled", writing.val)
    /\ writing' = Nil
    /\ UNCHANGED <<running, open, owner>>

Cut ==
    /\ writing # Nil
    /\ LET i == writing.id
       IN \/ Halfway(i, writing.val)
          \/ stage[i] = "settled" /\ Become(i, "unsettled", value[i])
          \/ Become(i, "settled", writing.val)
          \/ Become(i, "gone", Nil)
    /\ Halt /\ UNCHANGED owner

Next ==
    \/ Start \/ Stop \/ Close \/ Disturb \/ Finish \/ Cut
    \/ \E p \in Passphrases : Claim(p) \/ Open(p)
    \/ \E i \in Ids : Create(i) \/ Delete(i)
    \/ \E w \in Writes : BeginWrite(w)

Spec == Init /\ [][Next]_vars
=============================================================================
