----------------------------- MODULE EditLedger -----------------------------
(***************************************************************************)
(* What the offline machinery promises for each edit of the user, without  *)
(* queue, cache, tabs or messages: an edit is made, queued, and ends       *)
(* exactly once: executed by the server, dropped for the server's version, *)
(* or failed where the user can see it.  An ending is final: what was      *)
(* dropped or failed is not executed behind the user's back.               *)
(***************************************************************************)
EXTENDS Integers

CONSTANT Edits     \* the edits, numbered in the order they are made

VARIABLE fate

Fates == {"none", "drafted", "queued", "parked",
          "applied", "theirs", "failed", "purged", "unsaved"}

Becomes(k, from, to) ==
    /\ fate[k] \in from
    /\ fate' = [fate EXCEPT ![k] = to]

(* Edits are made in order; online they are executed at once. *)
Make(k) ==
    /\ \A j \in Edits : j < k => fate[j] # "none"
    /\ Becomes(k, {"none"}, "drafted") \/ Becomes(k, {"none"}, "applied")

Queue(k) == Becomes(k, {"drafted"}, "queued")
Cut(k) == Becomes(k, {"drafted"}, "unsaved")
Apply(k) == Becomes(k, {"queued"}, "applied")
Park(k) == Becomes(k, {"queued"}, "parked")
KeepMine(k) == Becomes(k, {"parked"}, "queued")
TakeTheirs(k) == Becomes(k, {"queued", "parked"}, "theirs")
Fail(k) == Becomes(k, {"queued"}, "failed")

(* Clearing a trip's data forgets the edits that have failed. *)
Purge == fate' = [k \in Edits |-> IF fate[k] = "failed" THEN "purged" ELSE fate[k]]

LedgerInit == fate = [k \in Edits |-> "none"]

LedgerNext ==
    \/ Purge
    \/ \E k \in Edits :
          \/ Make(k) \/ Queue(k) \/ Cut(k) \/ Apply(k)
          \/ Park(k) \/ KeepMine(k) \/ TakeTheirs(k) \/ Fail(k)

LedgerSpec == LedgerInit /\ [][LedgerNext]_fate
=============================================================================
