----------------------------- MODULE PlaneViews -----------------------------
(***************************************************************************)
(* ExportPlane with an observer that follows, for each export, the states   *)
(* of its endpoint from the one its controller holds to the one in the      *)
(* table.                                                                   *)
(***************************************************************************)
EXTENDS ExportPlane

VARIABLE ahead

\* What a slot and a view have in common.
State == [type : DeviceTypes, value : BOOLEAN]
StateOf(x) == IF x = None THEN None ELSE [type |-> x.type, value |-> x.value]

Views == INSTANCE MonotoneViews WITH
    States <- State,
    table <- [e \in Exports |-> StateOf(slots[e])],
    shown <- [e \in Exports |-> StateOf(view[e])]

\* From the first occurrence of s on: if what a controller is shown one after the
\* other can be found in the sequence in order at all, then in this way.  What
\* is not there stands alone, and is no continuation.
Followed(states, s) ==
    LET places == {k \in DOMAIN states : states[k] = s}
    IN  IF places = {} THEN <<s>>
        ELSE Views!From(states, CHOOSE k \in places : \A j \in places : k <= j)

Observe ==
    ahead' = [e \in Exports |->
        Followed(Views!Grown(ahead[e], StateOf(slots'[e])), StateOf(view'[e]))]

ViewInit == Init /\ ahead = [e \in Exports |-> <<None>>]

\* Next with the observer: each of its actions, so that a run counts each of them.
ViewNext ==
    \/ \E t \in Tasks :
          \/ \E e \in Exports, value \in BOOLEAN : PushStore(t, e, value) /\ Observe
          \/ SetExports(t) /\ Observe
          \/ PushCount(t) /\ Observe
          \/ PushMark(t) /\ Observe
          \/ RequestBump(t) /\ Observe
    \/ Wake /\ Observe
    \/ LoadConfig /\ Observe
    \/ Bump /\ Observe
    \/ BumpFails /\ Observe
    \/ DrainReports /\ Observe
    \/ Notify /\ Observe
    \/ \E e \in Exports, value \in BOOLEAN : Command(e, value) /\ Observe
    \/ \E e \in Exports : ReadVersion(e) /\ Observe
    \/ ReadValue /\ Observe
    \/ QueueCommand /\ Observe
    \/ NotifyOwn /\ Observe
    \/ TakeCommands /\ Observe

ViewSpec == ViewInit /\ [][ViewNext]_<<vars, ahead>> /\ Fairness

-----------------------------------------------------------------------------
(* Properties *)

\* While exports keep their cluster, what a controller is shown of an endpoint is
\* always a state it had, and never goes back: not when a push has stored and not
\* counted, when a read finds the slot that was replaced meanwhile, or when it is
\* told that nothing has changed and takes over the type alone.
ImplementsViews == Views!Spec
=============================================================================
