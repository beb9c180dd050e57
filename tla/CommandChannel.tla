--------------------------- MODULE CommandChannel ---------------------------
(***************************************************************************)
(* What goes between an entity of Home Assistant and the slot that stands   *)
(* for it on the bridge (coordinator.py over handlers.rs and               *)
(* export_plane.rs): commands of controllers, which Home Assistant polls    *)
(* and executes, and states, which it pushes when the entity changes and    *)
(* when a poll succeeds after the flag bridge_connected was down.           *)
(*                                                                          *)
(* One switch, exported and enabled throughout; the catalog is module       *)
(* CatalogSync's and its synchronization one request here.  Home            *)
(* Assistant's tasks share one event loop and interleave at requests only.  *)
(***************************************************************************)
EXTENDS Integers, Sequences, SequencesExt

CONSTANTS MaxCommands, MaxChanges, MaxFaults \* bounds

ASSUME BoundsAssumption == MaxCommands \in Nat /\ MaxChanges \in Nat /\ MaxFaults \in Nat

Loops == {"command", "status"}
Tasks == {"setup"} \cup Loops

VARIABLES
    slot,       \* what the bridge shows controllers
    queue,      \* its commands for Home Assistant
    entity,     \* the state of the entity
    edition,    \* how often that has changed
    connected,  \* bridge_connected
    subscribed, \* to state_changed
    events,     \* changes whose handler has still to run
    pushes,     \* states on their way to the bridge
    delayed,    \* how many GET /commands were given up and may still be served
    task,       \* what setup and the loops are in the middle of
    issued,     \* commands so far
    changes,    \* changes of the entity by others than commands, and edits
    faults,     \* failures so far
    \* Observers, read by no action.
    ran,        \* the commands executed, in order
    lost,       \* the commands that went down with the bridge, an answer or a reload
    shown,      \* the latest edition the bridge has got since it started
    missed      \* something has gone by with the flag up that only the next
                \* change of the entity makes up for

bridgeVars == <<slot, queue, shown>>
commandVars == <<issued, ran, lost>>
entityVars == <<entity, edition, changes, events>>
vars ==
    <<bridgeVars, commandVars, entityVars, connected, subscribed, pushes, delayed, task, faults, missed>>

Idle == [at |-> "idle", was |-> TRUE, todo |-> <<>>]
GoOn(t, at) == task' = [task EXCEPT ![t].at = at]
Numbers(commands) == {commands[i].number : i \in DOMAIN commands}

Fault == faults < MaxFaults /\ faults' = faults + 1

\* While the flag is down nothing is missed: the next resync makes up for it.
Miss == missed' = (missed \/ connected)

LowerFlag == connected' = FALSE /\ missed' = FALSE

-----------------------------------------------------------------------------
(* The bridge *)

\* apply_controller_on_off: the slot changes at once and a command is queued.
ControllerCommands(on) ==
    /\ issued < MaxCommands
    /\ issued' = issued + 1
    /\ slot' = on
    /\ queue' = Append(queue, [number |-> issued', on |-> on])
    /\ UNCHANGED <<ran, lost, shown, entityVars, connected, subscribed, pushes, task, faults,
                    missed, delayed>>

\* Commands and values are kept in memory only, and requests that the process had
\* still to serve die with it.
Restart ==
    /\ Fault
    /\ slot' = FALSE
    /\ queue' = <<>>
    /\ lost' = lost \cup Numbers(queue)
    /\ shown' = -1
    /\ delayed' = 0
    /\ Miss
    /\ UNCHANGED <<issued, ran, entityVars, connected, subscribed, pushes, task>>

\* Mutant of Serve: the answer is a copy of the queue.
ServeCopy(t) ==
    /\ task[t].at = "poll"
    /\ task' = [task EXCEPT ![t].at = "answer", ![t].todo = IF t = "command" THEN queue ELSE <<>>]
    /\ UNCHANGED <<bridgeVars, commandVars, entityVars, connected, subscribed, pushes, faults,
                    missed, delayed>>

\* GET /commands empties the queue before the answer is on its way; GET /status
\* does nothing to it.
Serve(t) ==
    /\ task[t].at = "poll"
    /\ task' = [task EXCEPT ![t].at = "answer", ![t].todo = IF t = "command" THEN queue ELSE <<>>]
    /\ queue' = IF t = "command" THEN <<>> ELSE queue
    /\ UNCHANGED <<slot, shown, commandVars, entityVars, connected, subscribed, pushes, faults,
                    missed, delayed>>

\* A GET /commands whose client has given up empties the queue all the same, and
\* nobody gets the answer.
ServeDelayed ==
    /\ delayed > 0
    /\ delayed' = delayed - 1
    /\ queue' = <<>>
    /\ lost' = lost \cup Numbers(queue)
    /\ IF queue = <<>> THEN UNCHANGED missed ELSE Miss
    /\ UNCHANGED <<slot, shown, issued, ran, entityVars, connected, subscribed, pushes, task, faults>>

-----------------------------------------------------------------------------
(* Pushed states *)

\* async_push_export_state: the state is read and goes off at once.
Push(by) == pushes' = pushes \cup {[value |-> entity, edition |-> edition, by |-> by]}

\* The task that waits for push p goes on; a handler of an event just ends.
Resume(p) ==
    task' = IF p.by \in Tasks THEN [task EXCEPT ![p.by].at = "pushed"] ELSE task

Deliver(p) ==
    /\ p \in pushes
    /\ pushes' = pushes \ {p}
    /\ slot' = p.value
    /\ shown' = IF p.edition > shown THEN p.edition ELSE shown
    /\ missed' = (p.edition # edition /\ (missed \/ (connected /\ p.edition < shown)))
    /\ Resume(p)
    /\ UNCHANGED <<queue, commandVars, entityVars, connected, subscribed, faults, delayed>>

\* A failed push is logged: the flag stays and nothing is tried again.
LosePush(p) ==
    /\ p \in pushes
    /\ Fault
    /\ pushes' = pushes \ {p}
    /\ Miss
    /\ Resume(p)
    /\ UNCHANGED <<bridgeVars, commandVars, entityVars, connected, subscribed, delayed>>

\* Mutant of GiveUp: the late answer is taken for that of the task's next push.
GiveUpWaiting(p) ==
    /\ p \in pushes
    /\ p.by \in Tasks
    /\ Fault
    /\ Resume(p)
    /\ UNCHANGED <<bridgeVars, commandVars, entityVars, connected, subscribed, pushes, missed, delayed>>

\* The client gives up and the request is executed later.
GiveUp(p) ==
    /\ p \in pushes
    /\ p.by \in Tasks
    /\ Fault
    /\ pushes' = (pushes \ {p}) \cup {[p EXCEPT !.by = "event"]}
    /\ Resume(p)
    /\ UNCHANGED <<bridgeVars, commandVars, entityVars, connected, subscribed, missed, delayed>>

\* The entity takes a state: a listener that is subscribed gets an event.
Becomes(on) ==
    /\ entity' = on
    /\ edition' = edition + 1
    /\ events' = IF subscribed THEN events + 1 ELSE events

\* Somebody in Home Assistant switches the entity.
Change ==
    /\ changes < MaxChanges
    /\ changes' = changes + 1
    /\ Becomes(~entity)
    /\ IF subscribed THEN UNCHANGED missed ELSE Miss
    /\ UNCHANGED <<bridgeVars, commandVars, connected, subscribed, pushes, task, faults, delayed>>

\* _async_handle_state_event: with the flag down the event is dropped.
HandleEvent ==
    /\ events > 0
    /\ events' = events - 1
    /\ IF connected THEN Push("event") ELSE UNCHANGED pushes
    /\ UNCHANGED <<bridgeVars, commandVars, entity, edition, changes, connected, subscribed, task, faults,
                    missed, delayed>>

-----------------------------------------------------------------------------
(* The tasks of the coordinator *)

\* async_start: ask for the health, ...
Setup(reachable) ==
    /\ task["setup"].at = "begin"
    /\ connected' = reachable
    /\ GoOn("setup", IF reachable THEN "sync" ELSE "pushed")
    /\ UNCHANGED <<bridgeVars, commandVars, entityVars, subscribed, pushes, faults, missed, delayed>>

\* ... synchronize, push the states, and only then subscribe and start the loops.
Subscribe ==
    /\ task["setup"].at = "pushed"
    /\ subscribed' = TRUE
    /\ GoOn("setup", "idle")
    /\ UNCHANGED <<bridgeVars, commandVars, entityVars, connected, pushes, faults, missed, delayed>>

\* A loop notes the flag and asks the bridge.
Poll(t) ==
    /\ task["setup"].at = "idle"
    /\ task[t].at = "idle"
    /\ task' = [task EXCEPT ![t].at = "poll", ![t].was = connected]
    /\ UNCHANGED <<bridgeVars, commandVars, entityVars, connected, subscribed, pushes, faults,
                    missed, delayed>>

Answered(t) ==
    /\ task[t].at = "answer"
    /\ connected' = TRUE
    /\ missed' = (missed \/ (task[t].was /\ ~connected))
    /\ GoOn(t, IF task[t].was THEN "pushed" ELSE "sync")
    /\ UNCHANGED <<bridgeVars, commandVars, entityVars, subscribed, pushes, faults, delayed>>

\* A poll fails, unserved or with the answer that was on its way ...
LosePoll(t) ==
    /\ task[t].at \in {"poll", "answer"}
    /\ Fault
    /\ LowerFlag
    /\ lost' = lost \cup Numbers(task[t].todo)
    /\ task' = [task EXCEPT ![t] = Idle]
    /\ UNCHANGED <<bridgeVars, issued, ran, entityVars, subscribed, pushes, delayed>>

\* ... or its client gives up, after ten seconds, and it is served later.
GiveUpPoll ==
    /\ task["command"].at = "poll"
    /\ Fault
    /\ LowerFlag
    /\ delayed' = delayed + 1
    /\ task' = [task EXCEPT !["command"] = Idle]
    /\ UNCHANGED <<bridgeVars, commandVars, entityVars, subscribed, pushes>>

\* Of a resync, the catalog comes first ...
Sync(t) ==
    /\ task[t].at = "sync"
    /\ connected' = TRUE
    /\ GoOn(t, "push")
    /\ UNCHANGED <<bridgeVars, commandVars, entityVars, subscribed, pushes, faults, missed, delayed>>

\* Mutant of LoseSync: the failure is not caught where the resync began.
LoseSyncRaising(t) ==
    /\ task[t].at = "sync"
    /\ Fault
    /\ LowerFlag
    /\ task' = [task EXCEPT ![t] = IF t = "setup" THEN [@ EXCEPT !.at = "pushed"] ELSE Idle]
    /\ UNCHANGED <<bridgeVars, commandVars, entityVars, subscribed, pushes, delayed>>

\* ... and when it fails the states stay behind; the commands that came with the
\* poll are executed all the same.
LoseSync(t) ==
    /\ task[t].at = "sync"
    /\ Fault
    /\ LowerFlag
    /\ GoOn(t, "pushed")
    /\ UNCHANGED <<bridgeVars, commandVars, entityVars, subscribed, pushes, delayed>>

\* Mutant of PushState: a resync stands for the catalog only.
PushNothing(t) ==
    /\ task[t].at = "push"
    /\ GoOn(t, "pushed")
    /\ UNCHANGED <<bridgeVars, commandVars, entityVars, connected, subscribed, pushes, faults,
                    missed, delayed>>

\* async_push_all_states
PushState(t) ==
    /\ task[t].at = "push"
    /\ Push(t)
    /\ GoOn(t, "pushing")
    /\ UNCHANGED <<bridgeVars, commandVars, entityVars, connected, subscribed, faults, missed, delayed>>

\* _async_execute_command, one command after the other.
Execute(obeyed) ==
    LET t == "command"
        command == Head(task[t].todo)
    IN  /\ task[t].at = "pushed"
        /\ task[t].todo # <<>>
        /\ task' = [task EXCEPT ![t].todo = Tail(@)]
        /\ ran' = Append(ran, command.number)
        /\ IF obeyed /\ command.on # entity
             THEN Becomes(command.on)
             ELSE UNCHANGED <<entity, edition, events>>
        /\ UNCHANGED <<bridgeVars, issued, lost, changes, connected, subscribed, pushes, delayed>>

Run == Execute(TRUE) /\ UNCHANGED <<faults, missed>>

\* The service raises, which is logged: the slot keeps what the controller set.
RunFails == Execute(FALSE) /\ Fault /\ Miss

\* The loop sleeps until its next poll.
Sleep(t) ==
    /\ task[t].at = "pushed"
    /\ task[t].todo = <<>>
    /\ task' = [task EXCEPT ![t] = Idle]
    /\ UNCHANGED <<bridgeVars, commandVars, entityVars, connected, subscribed, pushes, faults,
                    missed, delayed>>

\* The options have changed: the loops are cancelled wherever they wait and a new
\* runtime starts.  Handlers that have begun run before.  A poll that was out may
\* still be served.
Reload ==
    /\ task["setup"].at = "idle"
    /\ events = 0
    /\ Fault
    /\ LowerFlag
    /\ subscribed' = FALSE
    /\ lost' = lost \cup Numbers(task["command"].todo)
    /\ task' = [t \in Tasks |-> IF t = "setup" THEN [Idle EXCEPT !.at = "begin"] ELSE Idle]
    /\ pushes' = {[p EXCEPT !.by = "event"] : p \in pushes}
    /\ delayed' \in delayed .. delayed + (IF task["command"].at = "poll" THEN 1 ELSE 0)
    /\ UNCHANGED <<bridgeVars, issued, ran, entityVars>>

\* The pairing button refreshes the status, a change of the catalog synchronizes
\* it: the flag goes up and no state is pushed ...
Refresh ==
    /\ task["setup"].at = "idle"
    /\ connected' = TRUE
    /\ missed' = (missed \/ ~connected)
    /\ UNCHANGED <<bridgeVars, commandVars, entityVars, subscribed, pushes, task, faults, delayed>>

\* ... but by the edit of an export, afterwards and whatever came of it.
PushEdited ==
    /\ task["setup"].at = "idle"
    /\ changes < MaxChanges
    /\ changes' = changes + 1
    /\ Push("event")
    /\ UNCHANGED <<bridgeVars, commandVars, entity, edition, events, connected, subscribed, task, faults,
                    missed, delayed>>

\* Setup asks for the status too, between the catalog and the states, which are
\* pushed whether or not it fails.
LoseRefresh ==
    /\ task["setup"].at \in {"push", "idle"}
    /\ Fault
    /\ LowerFlag
    /\ UNCHANGED <<bridgeVars, commandVars, entityVars, subscribed, pushes, task, delayed>>

-----------------------------------------------------------------------------
\* Home Assistant starts; the bridge may have run before.
Init ==
    /\ slot \in BOOLEAN /\ entity \in BOOLEAN
    /\ queue = <<>>
    /\ edition = 0
    /\ connected = FALSE /\ subscribed = FALSE
    /\ events = 0
    /\ pushes = {} /\ delayed = 0
    /\ task = [t \in Tasks |-> IF t = "setup" THEN [Idle EXCEPT !.at = "begin"] ELSE Idle]
    /\ issued = 0 /\ changes = 0 /\ faults = 0
    /\ ran = <<>> /\ lost = {}
    /\ shown = -1
    /\ missed = FALSE

SetupStep ==
    \/ \E reachable \in BOOLEAN : Setup(reachable)
    \/ Sync("setup") \/ PushState("setup") \/ Subscribe

LoopStep(t) == Poll(t) \/ Serve(t) \/ Answered(t) \/ Sync(t) \/ PushState(t) \/ Sleep(t)

Next ==
    \/ \E on \in BOOLEAN : ControllerCommands(on)
    \/ Restart \/ Change \/ HandleEvent \/ Run \/ RunFails \/ Reload
    \/ ServeDelayed \/ GiveUpPoll
    \/ Refresh \/ LoseRefresh \/ PushEdited
    \/ SetupStep
    \/ \E t \in Loops : LoopStep(t) \/ LosePoll(t)
    \/ \E t \in Tasks : LoseSync(t)
    \/ \E p \in pushes : Deliver(p) \/ LosePush(p) \/ GiveUp(p)

\* The event loop runs its tasks, the loops poll for ever, and a request that is
\* not lost arrives, whoever else sends some.
Arrives(by) == \E p \in pushes : p.by = by /\ Deliver(p)

Fairness ==
    /\ WF_vars(SetupStep) /\ WF_vars(HandleEvent) /\ WF_vars(Run)
    /\ \A t \in Loops : WF_vars(LoopStep(t))
    /\ \A by \in Tasks \cup {"event"} : WF_vars(Arrives(by))

Spec == Init /\ [][Next]_vars /\ Fairness

-----------------------------------------------------------------------------
(* Properties *)

Commands == [number : 1 .. MaxCommands, on : BOOLEAN]
Editions == 0 .. MaxChanges + MaxCommands

\* Every variable has its type, and each task waits for one push at most.
TypeOK ==
    /\ slot \in BOOLEAN /\ entity \in BOOLEAN
    /\ queue \in Seq(Commands) /\ Len(queue) <= MaxCommands
    /\ edition \in Editions /\ shown \in {-1} \cup 0 .. edition
    /\ events \in 0 .. edition
    /\ connected \in BOOLEAN /\ subscribed \in BOOLEAN /\ missed \in BOOLEAN
    /\ \A p \in pushes :
          /\ p.value \in BOOLEAN /\ p.edition \in 0 .. edition
          /\ p.by \in Tasks => task[p.by].at = "pushing"
    /\ \A t \in Tasks :
          /\ task[t].at \in {"begin", "idle", "poll", "answer", "sync", "push", "pushing", "pushed"}
          /\ task[t].todo \in Seq(Commands)
          /\ task[t].at = "pushing" => \E p \in pushes : p.by = t
    /\ issued \in 0 .. MaxCommands /\ changes \in 0 .. MaxChanges /\ faults \in 0 .. MaxFaults
    /\ delayed \in 0 .. faults

\* Commands are executed in the order in which controllers gave them, none twice,
\* and each is on its way or has been executed, unless it went down with the
\* bridge, with the answer that carried it (also one to a client that had given
\* up) or with a reload.
CommandsAccounted ==
    /\ \A i, j \in DOMAIN ran : i < j => ran[i] < ran[j]
    /\ 1 .. issued =
          ToSet(ran) \cup lost \cup Numbers(queue) \cup Numbers(task["command"].todo)

\* Seen through the numbers of the commands that are queued or carried, the
\* channel is one that runs the oldest first and each at most once: a command that
\* went down does not come back, and one that ran is nowhere any more.
underway == Numbers(queue) \cup Numbers(task["command"].todo)
Ordered == INSTANCE OrderedCommands
ImplementsOrdered == Ordered!Spec

\* When changes and failures end, every command has left the queue and the bridge
\* shows what the entity is, or something was missed with the flag up: a push
\* failed or arrived after a later one, the bridge was gone between two polls, a
\* poll that had been given up took commands, a service raised, the entity changed
\* before the subscription, or the flag went up by an answer to something else.
Converges == <>[](queue = <<>> /\ (slot = entity \/ missed))
=============================================================================
