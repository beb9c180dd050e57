----------------------------- MODULE CoverSlot -----------------------------
(***************************************************************************)
(* A cover or garage on the bridge (bridge/src/matter/export_plane.rs and   *)
(* clusters/window_covering.rs): position, target and moving are atomics of *)
(* their own.  Pushes from Home Assistant load and store them one by one on *)
(* HTTP tasks, commands of controllers do so on the stack thread, all of    *)
(* them under the shared read lock and so in parallel; the stack thread     *)
(* reads them one by one for a controller.                                  *)
(*                                                                          *)
(* This is ExportPlane's table reduced to one slot that stays in it.        *)
(*                                                                          *)
(* Home Assistant counts from 0, closed, to Full, open; Matter counts the   *)
(* other way, Unit to a step.  The code has 100 and 100.                    *)
(***************************************************************************)
EXTENDS Integers, Sequences

CONSTANTS
    Full,      \* the open end of Home Assistant's scale
    Unit,      \* Matter's steps for one of Home Assistant's
    Tasks,     \* HTTP tasks
    States,    \* the states and the values of current_position that Home
    Attributes,\* Assistant reports
    Lifts,     \* the lifts controllers ask for
    MaxReports, \* bound on reports
    MaxInputs, \* bound on commands and renames
    None       \* no value

ASSUME ScaleAssumption == Full \in Nat \ {0} /\ Unit \in Nat \ {0}
ASSUME InputsAssumption ==
    /\ Attributes \ {None} \subseteq Nat /\ Lifts \subseteq Nat
    /\ MaxReports \in Nat /\ MaxInputs \in Nat

Positions == 0 .. Full
Motions == {"stopped", "opening", "closing"}
Report == [motion : Motions, position : Positions \cup {None}]

ASSUME NoneAssumption ==
    /\ None \notin Int
    /\ None \notin [position : Int, target : Int, moving : BOOLEAN]
    /\ None \notin [ha : Report, misses : Int]

VARIABLES
    slot,     \* SlotKind::Cover: position, target, moving
    dataver,  \* functional_dataver
    pending,  \* the slot owes a report of its attributes (REPORT_FUNCTIONAL)
    commands, \* the queue of commands for Home Assistant
    task,     \* what each HTTP task is in the middle of
    stack,    \* what the stack thread is in the middle of
    reports,  \* the stack was told of a change and has not sent it
    view,     \* what the controller holds
    inputs,   \* reports and other inputs so far
    \* Observers, read by no action.
    last,     \* the last report, if nothing has stored since it began but itself
    goal      \* the lift the last command asked for, if it was the last to store

vars == <<slot, dataver, pending, commands, task, stack, reports, view, inputs, last, goal>>
controller == <<reports, view>>
observers == <<last, goal>>

Idle == [at |-> "idle"]
Waiting == [at |-> "wait"]

-----------------------------------------------------------------------------
(* Conversions *)

AtMost(bound, n) == IF n > bound THEN bound ELSE n

\* ha_position_to_percent100ths and percent100ths_to_ha_position.
Percent(ha) == (Full - AtMost(Full, ha)) * Unit

\* Mutant of HaPosition: to the nearest step.
HaPositionNearest(p) == (Full * Unit - AtMost(Full * Unit, p) + Unit \div 2) \div Unit
HaPosition(p) == (Full * Unit - AtMost(Full * Unit, p)) \div Unit

\* validate_lift_percent100ths.
ValidLift(p) == p <= Full * Unit

\* Mutant of Parsed: positions as Home Assistant has them.
ParsedUnclamped(state, attribute) ==
    [motion |-> IF state \in {"opening", "closing"} THEN state ELSE "stopped",
     position |-> IF attribute # None THEN attribute
                  ELSE IF state = "open" THEN Full
                  ELSE IF state = "closed" THEN 0 ELSE None]

\* ha_cover_from_state: the attribute current_position, if there is one, goes
\* before what the state says.
Parsed(state, attribute) ==
    [motion |-> IF state \in {"opening", "closing"} THEN state ELSE "stopped",
     position |-> IF attribute # None THEN AtMost(Full, attribute)
                  ELSE IF state = "open" THEN Full
                  ELSE IF state = "closed" THEN 0 ELSE None]

Reported == {Parsed(state, attribute) :
                state \in States, attribute \in Attributes}

\* operational_status.
Status(position, target, moving) ==
    IF ~moving \/ position = target THEN "stopped"
    ELSE IF target > position THEN "opening" ELSE "closing"

Shown(s) == Status(s.position, s.target, s.moving)

-----------------------------------------------------------------------------
(* Stores: which field, what, and whether only a new value is a change *)

Store(field, value) == <<[field |-> field, value |-> value, swap |-> FALSE]>>
Swap(field, value) == <<[field |-> field, value |-> value, swap |-> TRUE]>>
If(condition, stores) == IF condition THEN stores ELSE <<>>

\* Mutant of Aimed: the target is chosen when the motion starts.
AimedOnce(cur, end, passed) == If(~cur.moving /\ passed /\ cur.target # end, Store("target", end))

\* A commanded target is kept; a motion Home Assistant began is one to the end.
Aimed(cur, end, passed) == If(passed /\ cur.target # end, Store("target", end))

\* apply_cover_ha, after it has loaded the three fields.
ReportStores(ha, cur) ==
    LET known == ha.position # None
        started == If(~cur.moving, Store("moving", TRUE))
        moved == If(known, Swap("position", ha.position))
    IN  CASE ha.motion = "opening" ->
                started \o Aimed(cur, Full, cur.target <= cur.position) \o moved
          [] ha.motion = "closing" ->
                started \o Aimed(cur, 0, cur.target >= cur.position) \o moved
          [] OTHER ->
                If(cur.moving, Store("moving", FALSE)) \o moved
                \o If(known, Swap("target", ha.position))

\* cover_command_open, _close, _position and _stop, which has loaded the
\* position.
CommandStores(target, moving) == Store("target", target) \o Store("moving", moving)

LoadOrder == <<"position", "target", "moving">>

\* operational_status, target and current position, by attribute id.
ReadOrder == LoadOrder \o <<"target", "position">>

Bound == [report |-> MaxReports, other |-> MaxInputs]
Input(kind) == inputs[kind] < Bound[kind] /\ inputs' = [inputs EXCEPT ![kind] = @ + 1]

\* A push or a command that begins overlaps those in progress.
Overlapped(tasks) ==
    [t \in Tasks |-> IF tasks[t] = Idle THEN Idle ELSE [tasks[t] EXCEPT !.alone = FALSE]]
Quiet == (\A t \in Tasks : task[t] = Idle) /\ stack.at \notin {"stopping", "commanding"}

-----------------------------------------------------------------------------
(* apply_state on an HTTP task *)

Push(t, ha) ==
    /\ task[t] = Idle
    /\ Input("report")
    /\ task' = [Overlapped(task) EXCEPT ![t] =
                   [at |-> "load", ha |-> ha, got |-> <<>>, alone |-> Quiet]]
    /\ goal' = None
    /\ last' = IF Quiet THEN last ELSE None
    /\ UNCHANGED <<slot, dataver, pending, commands, stack, controller>>

Load(t) ==
    /\ task[t].at = "load"
    /\ LET got == Append(task[t].got, slot[LoadOrder[Len(task[t].got) + 1]])
       IN  task' = [task EXCEPT ![t] =
              IF Len(got) < Len(LoadOrder) THEN [@ EXCEPT !.got = got]
              ELSE [at |-> "store", ha |-> @.ha, alone |-> @.alone, changed |-> FALSE,
                    todo |-> ReportStores(@.ha,
                        [position |-> got[1], target |-> got[2], moving |-> got[3]])]]
    /\ UNCHANGED <<slot, dataver, pending, commands, stack, controller, inputs, observers>>

\* Mutant of Changes: a store is no change.
SwapsOnly(s) == s.swap /\ slot[s.field] # s.value
Changes(s) == ~s.swap \/ slot[s.field] # s.value

StoreNext(t) ==
    /\ task[t].at = "store"
    /\ task[t].todo # <<>>
    /\ LET s == Head(task[t].todo)
       IN  /\ slot' = [slot EXCEPT ![s.field] = s.value]
           /\ task' = [task EXCEPT ![t] =
                  [at |-> "store", ha |-> @.ha, alone |-> @.alone,
                   changed |-> @.changed \/ Changes(s), todo |-> Tail(@.todo)]]
    /\ UNCHANGED <<dataver, pending, commands, stack, controller, inputs, observers>>

\* What a report that ran alone leaves: how many in a row of its motion have
\* ended with the opposite one shown.
Outcome(ha) ==
    LET opposite == {ha.motion, Shown(slot)} = {"opening", "closing"}
        before == IF last # None /\ last.ha.motion = ha.motion THEN last.misses ELSE 0
    IN  [ha |-> ha, misses |-> IF opposite THEN before + 1 ELSE 0]

\* mark_functional_changed: a new data version ...
Count(t) ==
    /\ task[t].at = "store"
    /\ task[t].todo = <<>>
    /\ IF task[t].changed
       THEN /\ dataver' = dataver + 1
            /\ task' = [task EXCEPT ![t] = [at |-> "mark", alone |-> @.alone]]
       ELSE /\ task' = [task EXCEPT ![t] = Idle]
            /\ UNCHANGED dataver
    /\ last' = IF task[t].alone THEN Outcome(task[t].ha) ELSE None
    /\ UNCHANGED <<slot, pending, commands, stack, controller, inputs, goal>>

\* Mutant of Mark: the report is forgotten.
MarkNothing(t) ==
    /\ task[t].at = "mark"
    /\ task' = [task EXCEPT ![t] = Idle]
    /\ UNCHANGED <<slot, dataver, pending, commands, stack, controller, inputs, observers>>

\* ... and a report of it.
Mark(t) ==
    /\ task[t].at = "mark"
    /\ pending' = TRUE
    /\ task' = [task EXCEPT ![t] = Idle]
    /\ UNCHANGED <<slot, dataver, commands, stack, controller, inputs, observers>>

\* Mutant of Carried: a rebuilt slot starts afresh.
CarriedNothing(old) == [position |-> Full, target |-> Full, moving |-> FALSE]

\* rebuild_kind.
Carried(old) == old

\* set_exports with a new name, say: the slot is rebuilt under the write lock
\* with all its predecessor had.  A read in progress goes on with the old slot.
Rebuild ==
    /\ Quiet
    /\ Input("other")
    /\ slot' = Carried(slot)
    /\ stack' = IF stack.at = "reading" /\ stack.old = None
                THEN [stack EXCEPT !.old = slot] ELSE stack
    /\ UNCHANGED <<dataver, pending, commands, task, controller, observers>>

-----------------------------------------------------------------------------
(* Commands of controllers, on the stack thread while run() waits *)

Begin(command) ==
    /\ stack = Waiting
    /\ Input("other")
    /\ task' = Overlapped(task)
    /\ stack' = command
    /\ last' = None
    /\ UNCHANGED <<slot, dataver, pending, commands, controller>>

Commanding(kind, position, target, moving) ==
    [at |-> "commanding", command |-> [kind |-> kind, position |-> position],
     todo |-> CommandStores(target, moving)]

Open == Begin(Commanding("open", None, Full, TRUE)) /\ goal' = None
Close == Begin(Commanding("close", None, 0, TRUE)) /\ goal' = None
Stop == Begin([at |-> "stopping"]) /\ goal' = None

\* A lift out of range is refused and changes nothing.
GoToLift(p) ==
    /\ ValidLift(p)
    /\ LET position == AtMost(Full, HaPosition(p))
       IN  Begin(Commanding("position", position, position, TRUE))
    /\ goal' = IF Quiet THEN p ELSE None

StopLoad ==
    /\ stack.at = "stopping"
    /\ stack' = Commanding("stop", None, slot.position, FALSE)
    /\ UNCHANGED <<slot, dataver, pending, commands, task, controller, inputs, observers>>

CommandStore ==
    /\ stack.at = "commanding"
    /\ stack.todo # <<>>
    /\ slot' = [slot EXCEPT ![Head(stack.todo).field] = Head(stack.todo).value]
    /\ stack' = [stack EXCEPT !.todo = Tail(@)]
    /\ UNCHANGED <<dataver, pending, commands, task, controller, inputs, observers>>

\* Counts a data version whether or not anything changed, and queues.
QueueCommand ==
    /\ stack.at = "commanding"
    /\ stack.todo = <<>>
    /\ dataver' = dataver + 1
    /\ commands' = Append(commands, stack.command)
    /\ stack' = [at |-> "notify"]
    /\ UNCHANGED <<slot, pending, task, controller, inputs, observers>>

\* GET /commands.
TakeCommands ==
    /\ commands # <<>>
    /\ commands' = <<>>
    /\ UNCHANGED <<slot, dataver, pending, task, stack, controller, inputs, observers>>

-----------------------------------------------------------------------------
(* Reports and reads, on the stack thread *)

\* run() wakes at least every two seconds: drain_reports.
Drain ==
    /\ stack = Waiting
    /\ pending' = FALSE
    /\ stack' = IF pending THEN [at |-> "notify"] ELSE Waiting
    /\ UNCHANGED <<slot, dataver, commands, task, controller, inputs, observers>>

\* The three attributes are reported changed, after a drain or a command; each
\* report counts a data version, and one stands for the three.
Notify ==
    /\ stack.at = "notify"
    /\ dataver' = dataver + 1
    /\ reports' = TRUE
    /\ stack' = Waiting
    /\ UNCHANGED <<slot, pending, commands, task, view, inputs, observers>>

ReadVersion ==
    /\ stack = Waiting
    /\ reports
    /\ reports' = FALSE
    /\ stack' = [at |-> "reading", dataver |-> dataver, got |-> <<>>, old |-> None]
    /\ UNCHANGED <<slot, dataver, pending, commands, task, view, inputs, observers>>

ReadNext ==
    /\ stack.at = "reading"
    /\ LET from == IF stack.old = None THEN slot ELSE stack.old
           got == Append(stack.got, from[ReadOrder[Len(stack.got) + 1]])
       IN  IF Len(got) < Len(ReadOrder)
           THEN stack' = [stack EXCEPT !.got = got] /\ UNCHANGED view
           ELSE /\ view' = [status |-> Status(got[1], got[2], got[3]),
                            target |-> Percent(got[4]), position |-> Percent(got[5]),
                            dataver |-> stack.dataver]
                /\ stack' = Waiting
    /\ UNCHANGED <<slot, dataver, pending, commands, task, reports, inputs, observers>>

-----------------------------------------------------------------------------
\* A new cover is fully open and at rest; the controller has read it.
Init ==
    /\ slot = [position |-> Full, target |-> Full, moving |-> FALSE]
    /\ dataver = 0
    /\ pending = FALSE
    /\ commands = <<>>
    /\ task = [t \in Tasks |-> Idle]
    /\ stack = Waiting
    /\ reports = FALSE
    /\ view = [status |-> "stopped", target |-> 0, position |-> 0, dataver |-> 0]
    /\ inputs = [report |-> 0, other |-> 0]
    /\ last = None
    /\ goal = None

TaskStep(t) == Load(t) \/ StoreNext(t) \/ Count(t) \/ Mark(t)
StackStep ==
    \/ StopLoad \/ CommandStore \/ QueueCommand
    \/ Drain \/ Notify \/ ReadVersion \/ ReadNext

Next ==
    \/ \E t \in Tasks : (\E ha \in Reported : Push(t, ha)) \/ TaskStep(t)
    \/ Rebuild
    \/ Open \/ Close \/ Stop \/ \E p \in Lifts : GoToLift(p)
    \/ StackStep
    \/ TakeCommands

\* A push that has begun goes on; so does the stack thread, which wakes at least
\* every two seconds, and the controller takes the reports it subscribed to.
Fairness == (\A t \in Tasks : WF_vars(TaskStep(t))) /\ WF_vars(StackStep)

Spec == Init /\ [][Next]_vars /\ Fairness

-----------------------------------------------------------------------------
(* Properties *)

\* Every variable has its type; the fields and what is read of them stay on
\* their scales whatever Home Assistant reports, so that no subtraction of the
\* conversions underflows.
TypeOK ==
    /\ slot \in [position : Positions, target : Positions, moving : BOOLEAN]
    /\ dataver \in Nat
    /\ pending \in BOOLEAN
    /\ \A i \in 1 .. Len(commands) : commands[i] \in
          [kind : {"open", "close", "stop", "position"}, position : Positions \cup {None}]
    /\ \A t \in Tasks : task[t].at \in {"idle", "load", "store", "mark"}
    /\ stack.at \in {"wait", "stopping", "commanding", "notify", "reading"}
    /\ reports \in BOOLEAN
    /\ view \in [status : Motions, target : 0 .. Full * Unit,
                 position : 0 .. Full * Unit, dataver : Nat]
    /\ inputs.report \in 0 .. MaxReports /\ inputs.other \in 0 .. MaxInputs

Current ==
    [status |-> Shown(slot), target |-> Percent(slot.target),
     position |-> Percent(slot.position), dataver |-> dataver]

\* Something has been stored and has not counted its data version yet.
Uncounted ==
    \/ \E t \in Tasks : task[t].at = "store" /\ task[t].changed
    \/ stack.at = "commanding"

\* One data version stands for one set of the three attributes, although they
\* are stored and read one at a time: what the controller holds of the current
\* version is what the slot has.
VersionSound ==
    view.dataver = dataver /\ ~Uncounted => view = Current

Stale == [view EXCEPT !.dataver = 0] # [Current EXCEPT !.dataver = 0]

Owed ==
    \/ pending \/ reports
    \/ Uncounted
    \/ \E t \in Tasks : task[t].at = "mark"
    \/ stack.at \in {"notify", "reading"}

\* A mix of fields of several pushes that the controller has seen, or a change
\* that it has not, has a report on its way.
NothingLost == Stale => Owed

\* Whatever the interleavings before it left in the fields, one report that runs
\* alone repairs them: the position is the one reported and a cover at rest is
\* shown at rest, with the position for its target.
HealedByNextReport ==
    last # None /\ Quiet =>
        /\ last.ha.position # None => slot.position = last.ha.position
        /\ last.ha.motion = "stopped" =>
              /\ Shown(slot) = "stopped"
              /\ last.ha.position # None => slot.target = slot.position

\* A report that takes the cover past a target it kept shows it moving the other
\* way, as apply_cover_ha compares the target with the old position; the next
\* report of that motion puts it right.
CrossedOnce == last # None => last.misses <= 1

\* A lift a controller asked for within the scale is the target it reads back,
\* rounded to less than a step towards closed, unless a report came in between.
GoalKept ==
    goal # None /\ Quiet => Percent(slot.target) \in goal .. goal + Unit - 1

\* When the inputs end, the controller ends up with the slot as it is.
Converges == <>[]~Stale
=============================================================================
