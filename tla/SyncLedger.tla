----------------------------- MODULE SyncLedger -----------------------------
(***************************************************************************)
(* What a run of timberlake promises, with no worker, message or key in    *)
(* it: a scan fixes the items to bring over; each is settled at most once, *)
(* as transferred, already there or failed; and the run is finished        *)
(* exactly when the last one is settled.  Pipeline implements this.        *)
(***************************************************************************)
EXTENDS Naturals

CONSTANTS
    Items,    \* the items a scan may find
    Modes     \* "sync", or one of the modes that write nothing

VARIABLES
    mode,
    todo,     \* the items of the run, once the scan has found them
    outcome,  \* "none" until an item is settled
    stored,   \* the items the destination holds complete
    finished  \* whether the run is over

vars == <<mode, todo, outcome, stored, finished>>

Unsettled == {i \in todo : outcome[i] = "none"}

Init ==
    /\ mode \in Modes
    /\ todo = {}
    /\ outcome = [i \in Items |-> "none"]
    /\ stored \in SUBSET Items
    /\ finished = FALSE

\* The scan's result; a scan that finds nothing ends the run at once.
Scan(found) ==
    /\ todo = {} /\ ~finished
    /\ todo' = found
    /\ finished' = (found = {})
    /\ UNCHANGED <<mode, outcome, stored>>

\* A transfer of an unsettled item completes or damages its object; only a real
\* sync does either.
Write(i) ==
    /\ mode = "sync"
    /\ i \in Unsettled
    /\ stored' \in {stored \cup {i}, stored \ {i}}
    /\ UNCHANGED <<mode, todo, outcome, finished>>

\* An item counts as skipped only if it is there, and as done, in a real sync,
\* only once it is; a verification transfers nothing, so it marks nothing done.
Settle(i, o) ==
    /\ i \in Unsettled
    /\ o = "Skipped" => i \in stored
    /\ o = "Done" => mode = "dry" \/ (mode = "sync" /\ i \in stored)
    /\ outcome' = [outcome EXCEPT ![i] = o]
    /\ finished' = (Unsettled = {i})
    /\ UNCHANGED <<mode, todo, stored>>

Next ==
    \/ \E found \in SUBSET Items : Scan(found)
    \/ \E i \in Items : Write(i)
    \/ \E i \in Items, o \in {"Done", "Skipped", "Error"} : Settle(i, o)

Spec == Init /\ [][Next]_vars
=============================================================================
