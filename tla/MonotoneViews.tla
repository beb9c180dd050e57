--------------------------- MODULE MonotoneViews ---------------------------
(***************************************************************************)
(* What the export plane promises a controller, with locks, reports, data   *)
(* versions and rebuilds hidden: what it is shown of an endpoint may lag    *)
(* behind the table and skip what was there for a while, but never goes     *)
(* back, and is never a mix of two states.  ExportPlane implements it.      *)
(***************************************************************************)
EXTENDS Integers, Sequences

CONSTANTS Exports, States, None

VARIABLES
    table, \* the state of each export's endpoint, None without one
    shown, \* what the controller has of it
    ahead  \* the states from the one shown to that of the table, in order

\* The table comes to state s, after those of the sequence.
Grown(states, s) == IF states[Len(states)] = s THEN states ELSE Append(states, s)

From(states, k) == SubSeq(states, k, Len(states))

Init ==
    /\ table = [e \in Exports |-> None]
    /\ shown = table
    /\ ahead = [e \in Exports |-> <<None>>]

\* The catalog may change several exports at once.
Change ==
    /\ table' \in [Exports -> States \cup {None}]
    /\ ahead' = [e \in Exports |-> Grown(ahead[e], table'[e])]
    /\ UNCHANGED shown

See(e) ==
    \E k \in DOMAIN ahead[e] :
        /\ shown' = [shown EXCEPT ![e] = ahead[e][k]]
        /\ ahead' = [ahead EXCEPT ![e] = From(@, k)]
        /\ UNCHANGED table

Next == Change \/ \E e \in Exports : See(e)

Spec == Init /\ [][Next]_<<table, shown, ahead>>
=============================================================================
