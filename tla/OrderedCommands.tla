-------------------------- MODULE OrderedCommands --------------------------
(***************************************************************************)
(* What the way of a command from a controller to an entity promises, with  *)
(* the queue, the polls and the tasks that carry it hidden: commands run in *)
(* the order in which they were given, each once, or they go down together  *)
(* with all older or with all newer ones, and what went down never runs.    *)
(* CommandChannel implements it.                                            *)
(***************************************************************************)
EXTENDS Integers, Sequences

VARIABLES
    issued,    \* commands so far: they are numbered from 1
    underway,  \* the numbers of those that may still run
    ran        \* the numbers of those that ran, in order

Init ==
    /\ issued = 0
    /\ underway = {}
    /\ ran = <<>>

Issue ==
    /\ issued' = issued + 1
    /\ underway' = underway \cup {issued'}
    /\ UNCHANGED ran

\* The oldest goes first.
Execute(n) ==
    /\ \A m \in underway : n <= m
    /\ underway' = underway \ {n}
    /\ ran' = Append(ran, n)
    /\ UNCHANGED issued

\* Those Home Assistant has taken are older than those the bridge still has.
LoseOldest(n) ==
    /\ underway' = {m \in underway : m > n}
    /\ UNCHANGED <<issued, ran>>

LoseNewest(n) ==
    /\ underway' = {m \in underway : m <= n}
    /\ UNCHANGED <<issued, ran>>

Next ==
    \/ Issue
    \/ \E n \in underway : Execute(n)
    \/ \E n \in 0 .. issued : LoseOldest(n) \/ LoseNewest(n)

Spec == Init /\ [][Next]_<<issued, underway, ran>>
=============================================================================
