---------------------------- MODULE ExportPlane ----------------------------
(***************************************************************************)
(* The table of bridged endpoints (bridge/src/matter/export_plane.rs) that  *)
(* the HTTP tasks and the Matter stack thread share, and how a change of it *)
(* reaches a subscribed controller.                                         *)
(*                                                                          *)
(* HTTP tasks run in parallel.  apply_state works under the table's read    *)
(* lock, so several of them and the stack thread may hold it at once;       *)
(* set_exports replaces the table under the write lock and raises the       *)
(* configuration generation after it has let the lock go.                   *)
(*                                                                          *)
(* The stack thread is one thread: run() has its only await where it waits  *)
(* to be woken, so controllers are served while it waits and not between    *)
(* its other steps.  It wakes at least every two seconds, whether the       *)
(* Notify fired or not; the Notify only shortens the wait and is left out.  *)
(*                                                                          *)
(* A slot here is an on/off device, a contact or a motion sensor; a cover's *)
(* three fields are a matter of their own.  The node label, its data        *)
(* version and its report go the way of the descriptor and are left out.    *)
(***************************************************************************)
EXTENDS Integers, Sequences

CONSTANTS
    Exports,   \* export ids; each keeps its Matter endpoint for good
    Tasks,     \* HTTP tasks
    TypesOf,   \* the device types the catalog may give each export
    MaxInputs, \* bound on pushes, catalog changes and controller commands
    None

OnOffTypes == {"light", "plug"}
DeviceTypes == OnOffTypes \cup {"contact", "motion"}

ASSUME TypesAssumption == TypesOf \in [Exports -> SUBSET DeviceTypes]
ASSUME MaxInputsAssumption == MaxInputs \in Nat

Bits == {"functional", "descriptor"}
Slot == [type : DeviceTypes, value : BOOLEAN, pending : SUBSET Bits]
View == [type : DeviceTypes, value : BOOLEAN, dataver : Nat]

ASSUME NoneAssumption == None \notin Slot /\ None \notin View /\ None \notin DeviceTypes

VARIABLES
    slots,     \* PlaneState.slots by export id, None where there is no slot
    dataver,   \* functional_dataver of the slot of each export
    requested, \* config_requested
    applied,   \* config_applied
    commands,  \* the queue of commands for Home Assistant
    task,      \* what each HTTP task is in the middle of
    stack,     \* what the stack thread is in the middle of
    reports,   \* attribute changes the stack was told of and has not sent
    refresh,   \* endpoints the controller will read again (new version)
    view,      \* what the controller holds of each endpoint
    inputs     \* inputs so far

vars == <<slots, dataver, requested, applied, commands, task, stack, reports,
          refresh, view, inputs>>
controller == <<reports, refresh, view>>

Idle == [at |-> "idle"]
Waiting == [at |-> "wait"]

-----------------------------------------------------------------------------
(* Slots *)

\* The cluster that carries the state, by the slot's SlotKind.
Kind(type) == IF type \in OnOffTypes THEN "onoff" ELSE type

\* A contact without a history is closed, a light off, a room empty.
DefaultValue(type) == type = "contact"

\* Mutant of CarriedValue: a rebuilt slot starts like a new one.
CarriedNothing(type, previous) == DefaultValue(type)

\* rebuild_kind: previous.on(), .contact_closed() and .motion_occupied() are
\* false for a slot of another kind.
CarriedValue(type, previous) ==
    IF Kind(previous.type) = Kind(type) THEN previous.value ELSE FALSE

\* ExportSlot::rebuild.
Rebuilt(type, previous) ==
    IF previous = None
    THEN [type |-> type, value |-> DefaultValue(type), pending |-> {}]
    ELSE [type |-> type,
          value |-> CarriedValue(type, previous),
          pending |-> previous.pending \cup
              IF previous.type # type THEN {"descriptor"} ELSE {}]

\* What surface() compares, the endpoint being the export's own.
Surface(table) == [e \in Exports |-> IF table[e] = None THEN None ELSE table[e].type]

\* Mutant of ReadLocked: readers work on a snapshot of the table, without lock.
SnapshotReaders == FALSE

\* Whether a task or the stack thread holds the read lock.
ReadLocked ==
    \/ \E t \in Tasks : task[t].at \in {"stored", "counted"}
    \/ stack.at = "commanding"

Input == inputs < MaxInputs /\ inputs' = inputs + 1

-----------------------------------------------------------------------------
(* apply_state: store, count a new data version, mark the report; then unlock *)

\* The primary entity's state reaches a slot.  Nothing else happens when the
\* value is the one it has, or when the export has no slot.
PushStore(t, e, value) ==
    /\ task[t] = Idle
    /\ slots[e] # None
    /\ slots[e].value # value
    /\ Input
    /\ slots' = [slots EXCEPT ![e].value = value]
    /\ task' = [task EXCEPT ![t] = [at |-> "stored", export |-> e]]
    /\ UNCHANGED <<dataver, requested, applied, commands, stack, controller>>

\* Mutant of PushCount: the data version stays.
PushCountSkipped(t) ==
    /\ task[t].at = "stored"
    /\ task' = [task EXCEPT ![t].at = "counted"]
    /\ UNCHANGED <<slots, dataver, requested, applied, commands, stack, controller, inputs>>

PushCount(t) ==
    /\ task[t].at = "stored"
    /\ dataver' = [dataver EXCEPT ![task[t].export] = @ + 1]
    /\ task' = [task EXCEPT ![t].at = "counted"]
    /\ UNCHANGED <<slots, requested, applied, commands, stack, controller, inputs>>

PushMark(t) ==
    /\ task[t].at = "counted"
    /\ slots' = [slots EXCEPT ![task[t].export].pending = @ \cup {"functional"}]
    /\ task' = [task EXCEPT ![t] = Idle]
    /\ UNCHANGED <<dataver, requested, applied, commands, stack, controller, inputs>>

-----------------------------------------------------------------------------
(* set_exports *)

\* A reader that took its snapshot before the swap goes on with the old slots.
\* A slot is rebuilt with the data version of its predecessor; one without a
\* predecessor draws a random version, taken to be one no reader has seen.
Swap(t, types) ==
    LET new == [e \in Exports |->
                   IF types[e] = None THEN None ELSE Rebuilt(types[e], slots[e])]
    IN  /\ task[t] = Idle
        /\ ~ReadLocked
        /\ Input
        /\ slots' = new
        /\ dataver' = [e \in Exports |->
               IF slots[e] = None /\ new[e] # None THEN dataver[e] + 1 ELSE dataver[e]]
        /\ task' = IF Surface(new) # Surface(slots)
                   THEN [task EXCEPT ![t] = [at |-> "swapped"]] ELSE task
        /\ stack' = IF stack.at = "reading" /\ stack.old = None
                    THEN [stack EXCEPT !.old = slots[stack.export]] ELSE stack
        /\ UNCHANGED <<requested, applied, commands, controller>>

\* Every list of exports the catalog may hand over: enabled ones with a type.
SetExports(t) ==
    \E types \in [Exports -> DeviceTypes \cup {None}] :
        /\ \A e \in Exports : types[e] \in TypesOf[e] \cup {None}
        /\ Swap(t, types)

RequestBump(t) ==
    /\ task[t].at = "swapped"
    /\ requested' = requested + 1
    /\ task' = [task EXCEPT ![t] = Idle]
    /\ UNCHANGED <<slots, dataver, applied, commands, stack, controller, inputs>>

-----------------------------------------------------------------------------
(* run() on the stack thread *)

Wake ==
    /\ stack = Waiting
    /\ stack' = [at |-> "config"]
    /\ UNCHANGED <<slots, dataver, requested, applied, commands, task, controller, inputs>>

\* Mutant of LoadConfig: the request is cleared before it is carried out.
LoadConfigClears ==
    /\ stack.at = "config"
    /\ stack' = IF requested = applied THEN [at |-> "drain"]
                ELSE [at |-> "bump", generation |-> requested]
    /\ applied' = requested
    /\ UNCHANGED <<slots, dataver, requested, commands, task, controller, inputs>>

\* Is a bump outstanding?
LoadConfig ==
    /\ stack.at = "config"
    /\ stack' = IF requested = applied THEN [at |-> "drain"]
                ELSE [at |-> "bump", generation |-> requested]
    /\ UNCHANGED <<slots, dataver, requested, applied, commands, task, controller, inputs>>

\* Mutant of Bump: controllers are not told.
BumpSilently ==
    /\ stack.at = "bump"
    /\ applied' = IF applied < stack.generation THEN stack.generation ELSE applied
    /\ stack' = [at |-> "config"]
    /\ UNCHANGED <<slots, dataver, requested, commands, task, controller, inputs>>

\* bump_configuration_version succeeds, the generation seen before it is
\* acknowledged and the root and aggregator descriptors are reported changed:
\* the controller will go through the endpoints again.
Bump ==
    /\ stack.at = "bump"
    /\ applied' = IF applied < stack.generation THEN stack.generation ELSE applied
    /\ refresh' = Exports
    /\ stack' = [at |-> "config"]
    /\ UNCHANGED <<slots, dataver, requested, commands, task, reports, view, inputs>>

\* Saving the new version failed: the next round tries again.
BumpFails ==
    /\ stack.at = "bump"
    /\ stack' = [at |-> "drain"]
    /\ UNCHANGED <<slots, dataver, requested, applied, commands, task, controller, inputs>>

Pending(bit) == {e \in Exports : slots[e] # None /\ bit \in slots[e].pending}

\* drain_reports, under the read lock; a slot's bits are swapped out at once.
DrainReports ==
    /\ stack.at = "drain"
    /\ slots' = [e \in Exports |->
           IF slots[e] = None THEN None ELSE [slots[e] EXCEPT !.pending = {}]]
    /\ stack' = [at |-> "notify", functional |-> Pending("functional"),
                 descriptor |-> Pending("descriptor")]
    /\ UNCHANGED <<dataver, requested, applied, commands, task, controller, inputs>>

\* bump_dataver, which every notification of a functional attribute reaches.
Bumped(changed) ==
    [e \in Exports |->
        IF e \in changed /\ slots[e] # None THEN dataver[e] + 1 ELSE dataver[e]]

\* notify_attr_changed for what was drained, then run() waits again.
Notify ==
    /\ stack.at = "notify"
    /\ dataver' = Bumped(stack.functional)
    /\ reports' = reports \cup stack.functional
    /\ refresh' = refresh \cup stack.descriptor
    /\ stack' = Waiting
    /\ UNCHANGED <<slots, requested, applied, commands, task, view, inputs>>

-----------------------------------------------------------------------------
(* Controllers, served by the stack thread while run() waits *)

\* The read of an endpoint looks it up in a snapshot of the table and takes
\* the data version first; one the controller knows of this cluster ends a
\* read that a new configuration version made it repeat.
ReadVersion(e) ==
    /\ stack = Waiting
    /\ e \in reports \cup refresh
    /\ reports' = reports \ {e}
    /\ refresh' = refresh \ {e}
    /\ IF slots[e] = None
       THEN /\ view' = [view EXCEPT ![e] = None]
            /\ UNCHANGED stack
       ELSE IF /\ e \notin reports
               /\ view[e] # None
               /\ Kind(view[e].type) = Kind(slots[e].type)
               /\ view[e].dataver = dataver[e]
            THEN /\ view' = [view EXCEPT ![e].type = slots[e].type]
                 /\ UNCHANGED stack
            ELSE /\ stack' = [at |-> "reading", export |-> e, dataver |-> dataver[e], old |-> None]
                 /\ UNCHANGED view
    /\ UNCHANGED <<slots, dataver, requested, applied, commands, task, inputs>>

ReadValue ==
    /\ stack.at = "reading"
    /\ LET e == stack.export
           slot == IF stack.old = None THEN slots[e] ELSE stack.old
       IN  view' = [view EXCEPT ![e] =
               [type |-> slot.type, value |-> slot.value, dataver |-> stack.dataver]]
    /\ stack' = Waiting
    /\ UNCHANGED <<slots, dataver, requested, applied, commands, task, reports, refresh, inputs>>

\* An On, Off or Toggle command: apply_controller_on_off under the read lock ...
Command(e, value) ==
    /\ stack = Waiting
    /\ slots[e] # None
    /\ Kind(slots[e].type) = "onoff"
    /\ Input
    /\ slots' = [slots EXCEPT ![e].value = value]
    /\ stack' = [at |-> "commanding", export |-> e, value |-> value,
                 changed |-> slots[e].value # value]
    /\ UNCHANGED <<dataver, requested, applied, commands, task, controller>>

\* ... which counts a data version for a new value and queues the command ...
QueueCommand ==
    /\ stack.at = "commanding"
    /\ dataver' = IF stack.changed THEN [dataver EXCEPT ![stack.export] = @ + 1] ELSE dataver
    /\ commands' = Append(commands, [export |-> stack.export, on |-> stack.value])
    /\ stack' = [stack EXCEPT !.at = "commanded"]
    /\ UNCHANGED <<slots, requested, applied, task, controller, inputs>>

\* ... then, the lock given back, notify_own_attr_changed.
NotifyOwn ==
    /\ stack.at = "commanded"
    /\ reports' = reports \cup {stack.export}
    /\ dataver' = Bumped({stack.export})
    /\ stack' = Waiting
    /\ UNCHANGED <<slots, requested, applied, commands, task, refresh, view, inputs>>

\* GET /commands.
TakeCommands ==
    /\ commands # <<>>
    /\ commands' = <<>>
    /\ UNCHANGED <<slots, dataver, requested, applied, task, stack, controller, inputs>>

-----------------------------------------------------------------------------
Init ==
    /\ slots = [e \in Exports |-> None]
    /\ dataver = [e \in Exports |-> 0]
    /\ requested = 0
    /\ applied = 0
    /\ commands = <<>>
    /\ task = [t \in Tasks |-> Idle]
    /\ stack = Waiting
    /\ reports = {}
    /\ refresh = {}
    /\ view = [e \in Exports |-> None]
    /\ inputs = 0

TaskStep(t) == PushCount(t) \/ PushMark(t) \/ RequestBump(t)
RunStep == Wake \/ LoadConfig \/ Bump \/ DrainReports \/ Notify
ControllerStep == (\E e \in Exports : ReadVersion(e)) \/ ReadValue \/ QueueCommand \/ NotifyOwn

Next ==
    \/ \E t \in Tasks :
          \/ \E e \in Exports, value \in BOOLEAN : PushStore(t, e, value)
          \/ SetExports(t)
          \/ TaskStep(t)
    \/ RunStep
    \/ BumpFails
    \/ \E e \in Exports, value \in BOOLEAN : Command(e, value)
    \/ ControllerStep
    \/ TakeCommands

\* A task that has begun goes on, the stack thread runs, a controller takes the
\* reports it subscribed to, and saving the version does not fail for ever.
Fairness ==
    /\ \A t \in Tasks : WF_vars(TaskStep(t))
    /\ WF_vars(RunStep)
    /\ WF_vars(ReadValue \/ QueueCommand \/ NotifyOwn)
    /\ \A e \in Exports : SF_vars(ReadVersion(e))
    /\ SF_vars(Bump)

Spec == Init /\ [][Next]_vars /\ Fairness

-----------------------------------------------------------------------------
(* Properties *)

TaskState ==
    [at : {"idle", "swapped"}] \cup [at : {"stored", "counted"}, export : Exports]

\* Every variable has its type, a task that holds the lock has its slot in the
\* table, and the generation applied is one that was requested.
TypeOK ==
    /\ slots \in [Exports -> Slot \cup {None}]
    /\ dataver \in [Exports -> Nat]
    /\ requested \in Nat
    /\ applied \in Nat
    /\ applied <= requested
    /\ task \in [Tasks -> TaskState]
    /\ \A t \in Tasks : task[t].at \in {"stored", "counted"} => slots[task[t].export] # None
    /\ stack.at \in {"wait", "config", "bump", "drain", "notify", "reading", "commanding", "commanded"}
    /\ stack.at = "bump" => stack.generation \in applied + 1 .. requested
    /\ reports \subseteq Exports
    /\ refresh \subseteq Exports
    /\ view \in [Exports -> View \cup {None}]
    /\ inputs \in 0 .. MaxInputs

\* A store to the slot that has not counted its data version yet.
Uncounted(e) ==
    \/ \E t \in Tasks : task[t].at = "stored" /\ task[t].export = e
    \/ stack.at = "commanding" /\ stack.export = e

\* A data version stands for one value: a controller that holds the current
\* version of a cluster holds its current value, so an answer "unchanged" to a
\* read filtered by version is never wrong.
DataVersionSound ==
    \A e \in Exports :
        /\ slots[e] # None
        /\ view[e] # None
        /\ Kind(view[e].type) = Kind(slots[e].type)
        /\ view[e].dataver = dataver[e]
        /\ ~Uncounted(e)
        => view[e].value = slots[e].value

Stale(e) ==
    \/ (view[e] = None) # (slots[e] = None)
    \/ /\ view[e] # None
       /\ slots[e] # None
       /\ <<view[e].type, view[e].value>> # <<slots[e].type, slots[e].value>>

\* Something is still on its way to the controller about e.
Owed(e) ==
    \/ e \in reports \cup refresh
    \/ slots[e] # None /\ slots[e].pending # {}
    \/ requested # applied
    \/ \E t \in Tasks : task[t].at = "swapped"
    \/ \E t \in Tasks : task[t].at \in {"stored", "counted"} /\ task[t].export = e
    \/ stack.at \in {"reading", "commanding", "commanded"} /\ stack.export = e
    \/ stack.at = "notify" /\ e \in stack.functional \cup stack.descriptor

\* Whatever the tasks and the stack thread interleave, a change that the
\* controller has not seen has a report or a new configuration version on its
\* way: none is drained, overwritten by a rebuild or acknowledged away.
NothingLost == \A e \in Exports : Stale(e) => Owed(e)

\* When inputs end, the controller ends up with the table as it is.
Converges == <>[](\A e \in Exports : ~Stale(e))
=============================================================================
