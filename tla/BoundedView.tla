---------------------------- MODULE BoundedView ----------------------------
(* A view of a changing set that lags by less than Lag ticks: what it holds *)
(* was in the set within that time, and what has been in the set for so     *)
(* long is in the view.  Nothing is said of how the view is computed, kept  *)
(* or shared.                                                               *)
EXTENDS Naturals
CONSTANTS Things, Lag
VARIABLES truth, age,   \* the set, and the ticks since each thing entered or left it
          view          \* the open view, as a set of none or one
vars == <<truth, age, view>>
Within(V) == /\ V \subseteq {x \in Things : x \in truth \/ age[x] < Lag}
             /\ {x \in truth : age[x] >= Lag} \subseteq V
Init == truth = {} /\ age = [x \in Things |-> Lag] /\ view = {}
Change(x) == /\ truth' = IF x \in truth THEN truth \ {x} ELSE truth \cup {x}
             /\ age' = [age EXCEPT ![x] = 0] /\ UNCHANGED view
Open == view = {} /\ (\E V \in SUBSET Things : Within(V) /\ view' = {V}) /\ UNCHANGED <<truth, age>>
Close == view' = {} /\ UNCHANGED <<truth, age>>
\* Time may pass under an open view only as long as it stays within bounds.
Tick == /\ age' = [x \in Things |-> IF age[x] < Lag THEN age[x] + 1 ELSE Lag]
        /\ UNCHANGED <<truth, view>>
        /\ \A V \in view : Within(V)'
Next == (\E x \in Things : Change(x)) \/ Open \/ Close \/ Tick
Spec == Init /\ [][Next]_vars
=============================================================================
