---------------------------- MODULE DatasetCache ----------------------------
(***************************************************************************)
(* What the refresh jobs promise of a cached dataset (the module docstring *)
(* of app/scheduler.py): a fetch ends with a whole set in hand or with     *)
(* nothing, and the cached rows are replaced by all usable items of that   *)
(* set at once or stay as they are.  A dataset is never blanked, mixed or  *)
(* left half written.                                                      *)
(***************************************************************************)
CONSTANTS
    Services,  \* one dataset for each
    Items,     \* what the backends serve
    Usable,    \* the items a dataset can hold
    Nothing    \* no set in hand

VARIABLES
    cached,   \* the rows of each dataset
    fetched   \* the set a refresh of the dataset has in hand, or Nothing

vars == <<cached, fetched>>

Init ==
    /\ cached = [s \in Services |-> {}]
    /\ fetched = [s \in Services |-> Nothing]

Fetch(s) ==
    /\ fetched[s] = Nothing
    /\ UNCHANGED cached
    /\ fetched'[s] \in SUBSET Items
    /\ fetched' = [fetched EXCEPT ![s] = fetched'[s]]

Replace(s) ==
    /\ fetched[s] # Nothing
    /\ cached' = [cached EXCEPT ![s] = fetched[s] \cap Usable]
    /\ fetched' = [fetched EXCEPT ![s] = Nothing]

Abandon(s) ==
    /\ fetched[s] # Nothing
    /\ fetched' = [fetched EXCEPT ![s] = Nothing]
    /\ UNCHANGED cached

Crash ==
    /\ fetched' = [s \in Services |-> Nothing]
    /\ UNCHANGED cached

Next ==
    \/ \E s \in Services : Fetch(s) \/ Replace(s) \/ Abandon(s)
    \/ Crash

Spec == Init /\ [][Next]_vars
=============================================================================
