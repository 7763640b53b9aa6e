----------------------------- MODULE AtomicCell -----------------------------
(***************************************************************************)
(* What a metadata pair promises the file system built on it: a cell whose  *)
(* content changes all at once, from the last value to the one being        *)
(* committed, whenever power is lost; and a commit that succeeded is what a *)
(* later mount, and the open handle, find.                                  *)
(***************************************************************************)

CONSTANTS Vals, Nothing

VARIABLES
    state,      \* "closed" (unmounted, or the handle is gone), "idle", "busy"
    stored,     \* what a mount would find
    seen,       \* what the open handle reads, while idle
    new         \* the value being committed

vars == <<state, stored, seen, new>>

Init == state = "closed" /\ stored = Nothing /\ seen = Nothing /\ new = Nothing

Open == /\ state = "closed" /\ state' = "idle"
        /\ seen' = stored
        /\ UNCHANGED <<stored, new>>

Begin == /\ state = "idle" /\ state' = "busy"
         /\ seen' = Nothing /\ new' \in Vals
         /\ UNCHANGED stored

(* The commit takes effect, before or at the moment it is acknowledged, or   *)
(* while its failure is being reported.                                      *)
Settle == stored' \in {stored, new}

Commit == /\ state = "busy"
          /\ \/ state' = "busy" /\ seen' = Nothing /\ new' = new /\ Settle
             \/ state' = "idle" /\ seen' = new /\ new' = Nothing /\ stored' = new
             \/ state' = "closed" /\ seen' = Nothing /\ new' = Nothing /\ Settle

Crash == /\ state' = "closed" /\ seen' = Nothing /\ new' = Nothing
         /\ UNCHANGED stored

Next == Open \/ Begin \/ Commit \/ Crash

Spec == Init /\ [][Next]_vars
=============================================================================
