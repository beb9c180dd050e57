------------------------- MODULE ExportPlane_proofs -------------------------
(***************************************************************************)
(* Theorems about ExportPlane, for any number of exports, HTTP tasks and    *)
(* inputs.  What a data version says holds when an export keeps its         *)
(* cluster; a run shows that it does not when an export changes it.  Then   *)
(* a controller is also shown the states of an endpoint in their order.     *)
(***************************************************************************)
EXTENDS PlaneViews, SequenceTheorems, FiniteSetTheorems, WellFoundedInduction, TLAPS

\* The types the catalog gives one export are carried by one cluster.
WithinKind == \A e \in Exports : \A x, y \in TypesOf[e] : Kind(x) = Kind(y)

-----------------------------------------------------------------------------
(* The inductive invariant *)

StackState ==
    [at : {"wait", "config", "drain"}]
        \cup [at : {"bump"}, generation : Nat]
        \cup [at : {"notify"}, functional : SUBSET Exports, descriptor : SUBSET Exports]
        \cup [at : {"reading"}, export : Exports, dataver : Nat, old : Slot \cup {None}]
        \cup [at : {"commanding", "commanded"}, export : Exports, value : BOOLEAN, changed : BOOLEAN]

\* A read goes on with the slot it found, in the table or out of it.
TypeInv ==
    /\ TypeOK
    /\ stack \in StackState
    /\ stack.at = "reading" /\ stack.old = None => slots[stack.export] # None

\* Types come from the catalog.
Typed ==
    /\ \A e \in Exports : slots[e] # None => slots[e].type \in TypesOf[e]
    /\ \A e \in Exports : view[e] # None => view[e].type \in TypesOf[e]
    /\ stack.at = "reading" /\ stack.old # None => stack.old.type \in TypesOf[stack.export]

\* Nobody holds a version to come.
Versions ==
    /\ \A e \in Exports : view[e] # None => view[e].dataver <= dataver[e]
    /\ stack.at = "reading" => stack.dataver <= dataver[stack.export]

\* A store to the slot that will count a data version.
Counting(e) ==
    \/ \E t \in Tasks : task[t].at = "stored" /\ task[t].export = e
    \/ stack.at = "commanding" /\ stack.export = e /\ stack.changed

\* What is known of the current version is the current value ...
ViewSound ==
    \A e \in Exports :
        slots[e] # None /\ view[e] # None /\ view[e].dataver = dataver[e] /\ ~Counting(e)
        => view[e].value = slots[e].value

\* ... also what a read is about to take from a slot that was replaced.
ReadSound ==
    /\ stack.at = "reading" /\ stack.old # None
    /\ slots[stack.export] # None /\ stack.dataver = dataver[stack.export]
    /\ ~Counting(stack.export)
    => stack.old.value = slots[stack.export].value

\* What is owed but for a read in progress.
OwedElse(e) ==
    \/ e \in reports \cup refresh
    \/ slots[e] # None /\ slots[e].pending # {}
    \/ requested # applied
    \/ \E t \in Tasks : task[t].at = "swapped"
    \/ \E t \in Tasks : task[t].at \in {"stored", "counted"} /\ task[t].export = e
    \/ stack.at \in {"commanding", "commanded"} /\ stack.export = e
    \/ stack.at = "notify" /\ e \in stack.functional \cup stack.descriptor

\* A read that is all that is owed takes what the table has.
ReadCurrent ==
    stack.at = "reading" /\ stack.old # None /\ ~OwedElse(stack.export) =>
        /\ slots[stack.export] # None
        /\ stack.old.type = slots[stack.export].type
        /\ stack.old.value = slots[stack.export].value

IInv ==
    /\ TypeInv /\ Typed /\ Versions
    /\ ViewSound /\ ReadSound /\ ReadCurrent /\ NothingLost

-----------------------------------------------------------------------------
(* Shapes of the stack's and the tasks' states *)

Holding == [at : {"stored", "counted"}, export : Exports]
Reading == [at : {"reading"}, export : Exports, dataver : Nat, old : Slot \cup {None}]
Commanding == [at : {"commanding", "commanded"}, export : Exports, value : BOOLEAN, changed : BOOLEAN]

LEMMA StackShape ==
    ASSUME stack \in StackState
    PROVE  /\ stack.at = "bump" => stack.generation \in Nat
           /\ stack.at = "notify" => stack.functional \subseteq Exports /\ stack.descriptor \subseteq Exports
           /\ stack.at = "reading" => stack \in Reading
           /\ stack.at \in {"commanding", "commanded"} => stack \in Commanding
BY DEF StackState, Reading, Commanding

LEMMA StackMember ==
    /\ Waiting \in StackState /\ Waiting.at = "wait"
    /\ [at |-> "config"] \in StackState
    /\ [at |-> "drain"] \in StackState
    /\ \A generation \in Nat : [at |-> "bump", generation |-> generation] \in StackState
    /\ Reading \subseteq StackState
    /\ Commanding \subseteq StackState
BY DEF StackState, Waiting, Reading, Commanding

LEMMA TaskShape ==
    ASSUME task \in [Tasks -> TaskState], NEW t \in Tasks
    PROVE  task[t].at \in {"stored", "counted"} => task[t] \in Holding
BY DEF TaskState, Holding

LEMMA TaskMember ==
    /\ Idle \in TaskState /\ Idle.at = "idle"
    /\ [at |-> "swapped"] \in TaskState
    /\ Holding \subseteq TaskState
BY DEF TaskState, Idle, Holding

\* What a swap does to one export.
LEMMA SwapEffect ==
    ASSUME TypeOK, NEW t \in Tasks, NEW types \in [Exports -> DeviceTypes \cup {None}], Swap(t, types)
    PROVE  /\ slots' \in [Exports -> Slot \cup {None}]
           /\ \A e \in Exports : types[e] = None => slots'[e] = None
           /\ \A e \in Exports : types[e] # None =>
                 /\ slots'[e] # None
                 /\ slots'[e].type = types[e]
                 /\ slots[e] # None /\ Kind(slots[e].type) = Kind(types[e]) =>
                       slots'[e].value = slots[e].value
           /\ Surface(slots') = Surface(slots) => slots' = slots
<1> DEFINE new == [e \in Exports |->
                     IF types[e] = None THEN None ELSE Rebuilt(types[e], slots[e])]
<1>1. slots' = new /\ slots \in [Exports -> Slot \cup {None}]
  BY DEF Swap, TypeOK
<1>2. ASSUME NEW e \in Exports, types[e] # None
      PROVE  /\ Rebuilt(types[e], slots[e]) \in Slot
             /\ Rebuilt(types[e], slots[e]).type = types[e]
             /\ slots[e] # None /\ Kind(slots[e].type) = Kind(types[e]) =>
                   Rebuilt(types[e], slots[e]).value = slots[e].value
             /\ slots[e] # None /\ slots[e].type = types[e] => Rebuilt(types[e], slots[e]) = slots[e]
  <2>1. types[e] \in DeviceTypes
    BY <1>2
  <2>2. CASE slots[e] = None
    BY <2>1, <2>2 DEF Rebuilt, Slot, DefaultValue, Bits
  <2>3. CASE slots[e] # None
    <3>1. slots[e] \in Slot
      BY <1>1, <2>3
    <3>2. CarriedValue(types[e], slots[e]) \in BOOLEAN
      BY <3>1 DEF CarriedValue, Slot
    <3>3. Rebuilt(types[e], slots[e]) =
             [type |-> types[e], value |-> CarriedValue(types[e], slots[e]),
              pending |-> slots[e].pending \cup
                 IF slots[e].type # types[e] THEN {"descriptor"} ELSE {}]
      BY <2>3 DEF Rebuilt
    <3>4. Rebuilt(types[e], slots[e]) \in Slot
      BY <2>1, <3>1, <3>2, <3>3 DEF Slot, Bits
    <3>5. Kind(slots[e].type) = Kind(types[e]) => CarriedValue(types[e], slots[e]) = slots[e].value
      BY DEF CarriedValue
    <3>6. slots[e].type = types[e] => Rebuilt(types[e], slots[e]) = slots[e]
      BY <3>1, <3>3, <3>5 DEF Slot
    <3> QED
      BY <2>3, <3>3, <3>4, <3>5, <3>6
  <2> QED
    BY <2>2, <2>3
<1>3. \A e \in Exports : types[e] # None => new[e] # None
  BY <1>2, NoneAssumption
<1>4. Surface(new) = Surface(slots) => new = slots
  <2> SUFFICES ASSUME Surface(new) = Surface(slots), NEW e \in Exports
               PROVE  new[e] = slots[e]
    BY <1>1
  <2>1. Surface(new)[e] = (IF new[e] = None THEN None ELSE new[e].type)
        /\ Surface(slots)[e] = (IF slots[e] = None THEN None ELSE slots[e].type)
    BY DEF Surface
  <2>2. slots[e] # None => slots[e].type # None
    BY <1>1, NoneAssumption DEF Slot
  <2>3. types[e] # None => new[e].type = types[e] /\ types[e] # None
    BY <1>2
  <2> QED
    BY <1>1, <1>2, <1>3, <2>1, <2>2, <2>3
<1> HIDE DEF new
<1>5. new \in [Exports -> Slot \cup {None}]
  BY <1>2 DEF new
<1> QED
  BY <1>1, <1>2, <1>3, <1>4, <1>5 DEF new

-----------------------------------------------------------------------------
(* Types *)

LEMMA TypeInit == Init => TypeInv
<1> SUFFICES ASSUME Init PROVE TypeInv
  OBVIOUS
<1>1. stack \in StackState /\ stack.at = "wait"
  BY StackMember DEF Init
<1>2. task \in [Tasks -> TaskState] /\ \A t \in Tasks : task[t].at = "idle"
  BY TaskMember DEF Init
<1> QED
  BY <1>1, <1>2, MaxInputsAssumption DEF Init, TypeInv, TypeOK

\* A version counted on.
LEMMA Counted ==
    ASSUME TypeOK, NEW changed \in SUBSET Exports, dataver' = Bumped(changed)
    PROVE  dataver' \in [Exports -> Nat] /\ \A e \in Exports : dataver[e] <= dataver'[e]
<1>1. dataver \in [Exports -> Nat]
  BY DEF TypeOK
<1> QED
  BY <1>1 DEF Bumped

\* The steps of the HTTP tasks.
LEMMA TypeTask ==
    ASSUME TypeInv, NEW t \in Tasks,
           \/ \E e \in Exports, value \in BOOLEAN : PushStore(t, e, value)
           \/ SetExports(t)
           \/ TaskStep(t)
    PROVE  TypeInv'
<1>0. TypeOK /\ stack \in StackState
  BY DEF TypeInv
<1>1. /\ slots \in [Exports -> Slot \cup {None}] /\ dataver \in [Exports -> Nat]
      /\ requested \in Nat /\ applied \in Nat /\ applied <= requested
      /\ task \in [Tasks -> TaskState] /\ inputs \in 0 .. MaxInputs
  BY <1>0 DEF TypeOK
\* The table keeps its slots and the stack its state.
<1>a. ASSUME slots' \in [Exports -> Slot \cup {None}],
             \A e \in Exports : slots[e] # None => slots'[e] # None,
             dataver' \in [Exports -> Nat],
             task' \in [Tasks -> TaskState],
             \A u \in Tasks : task'[u].at \in {"stored", "counted"} => slots'[task'[u].export] # None,
             UNCHANGED <<requested, applied, stack, controller>>,
             inputs' \in 0 .. MaxInputs
      PROVE  TypeInv'
  <2>1. UNCHANGED <<requested, applied, stack, reports, refresh, view>>
    BY <1>a DEF controller
  <2>2. TypeOK'
    BY <1>0, <1>a, <2>1 DEF TypeOK
  <2>3. stack.at = "reading" /\ stack.old = None => slots'[stack.export] # None
    <3>1. stack.at = "reading" => stack.export \in Exports
      BY <1>0, StackShape DEF Reading
    <3> QED
      BY <1>a, <3>1 DEF TypeInv
  <2> QED
    BY <1>0, <2>1, <2>2, <2>3 DEF TypeInv
<1>b. inputs < MaxInputs /\ inputs' = inputs + 1 => inputs' \in 0 .. MaxInputs
  BY <1>1, MaxInputsAssumption
<1>2. ASSUME NEW e \in Exports, NEW value \in BOOLEAN, PushStore(t, e, value)
      PROVE  TypeInv'
  <2>1. /\ slots[e] # None
        /\ slots' = [slots EXCEPT ![e].value = value]
        /\ task' = [task EXCEPT ![t] = [at |-> "stored", export |-> e]]
        /\ UNCHANGED <<dataver, requested, applied, stack, controller>>
        /\ inputs' \in 0 .. MaxInputs
    BY <1>2, <1>b DEF PushStore, Input
  <2>2. [slots[e] EXCEPT !.value = value] \in Slot
    BY <1>1, <2>1 DEF Slot
  <2>3. slots' = [slots EXCEPT ![e] = [slots[e] EXCEPT !.value = value]]
    BY <2>1
  <2>4. slots' \in [Exports -> Slot \cup {None}]
        /\ \A f \in Exports : slots[f] # None => slots'[f] # None
    BY <1>1, <2>2, <2>3, NoneAssumption
  <2>5. [at |-> "stored", export |-> e] \in TaskState
    BY DEF TaskState
  <2>6. task' \in [Tasks -> TaskState]
    BY <1>1, <2>1, <2>5
  <2>7. \A u \in Tasks : task'[u].at \in {"stored", "counted"} => slots'[task'[u].export] # None
    <3> SUFFICES ASSUME NEW u \in Tasks, task'[u].at \in {"stored", "counted"}
                 PROVE  slots'[task'[u].export] # None
      OBVIOUS
    <3>1. CASE u = t
      <4>1. task'[u].export = e
        BY <1>1, <2>1, <3>1
      <4> QED
        BY <2>1, <2>4, <4>1
    <3>2. CASE u # t
      <4>1. task'[u] = task[u] /\ task[u].export \in Exports
        BY <1>1, <2>1, <3>2, TaskShape DEF Holding
      <4> QED
        BY <1>0, <2>4, <4>1 DEF TypeOK
    <3> QED
      BY <3>1, <3>2
  <2> QED
    BY <1>1, <1>a, <2>1, <2>4, <2>6, <2>7
<1>3. ASSUME PushCount(t) PROVE TypeInv'
  <2>1. /\ task[t].at = "stored"
        /\ dataver' = [dataver EXCEPT ![task[t].export] = @ + 1]
        /\ task' = [task EXCEPT ![t].at = "counted"]
        /\ UNCHANGED <<slots, requested, applied, stack, controller, inputs>>
    BY <1>3 DEF PushCount
  <2>2. task[t] \in Holding
    BY <1>1, <2>1, TaskShape
  <2>3. [task[t] EXCEPT !.at = "counted"] \in TaskState
        /\ [task[t] EXCEPT !.at = "counted"].export = task[t].export
    BY <2>2, TaskMember DEF Holding
  <2>4. task' \in [Tasks -> TaskState]
    BY <1>1, <2>1, <2>3
  <2>5. \A u \in Tasks : task'[u].at \in {"stored", "counted"} => slots'[task'[u].export] # None
    <3> SUFFICES ASSUME NEW u \in Tasks, task'[u].at \in {"stored", "counted"}
                 PROVE  slots[task'[u].export] # None
      BY <2>1
    <3>1. CASE u = t
      BY <1>0, <1>1, <2>1, <2>3, <3>1 DEF TypeOK
    <3>2. CASE u # t
      BY <1>0, <1>1, <2>1, <3>2 DEF TypeOK
    <3> QED
      BY <3>1, <3>2
  <2>6. dataver' \in [Exports -> Nat]
    BY <1>1, <2>1, <2>2 DEF Holding
  <2> QED
    BY <1>1, <1>a, <2>1, <2>4, <2>5, <2>6
<1>4. ASSUME PushMark(t) PROVE TypeInv'
  <2>1. /\ task[t].at = "counted"
        /\ slots' = [slots EXCEPT ![task[t].export].pending = @ \cup {"functional"}]
        /\ task' = [task EXCEPT ![t] = Idle]
        /\ UNCHANGED <<dataver, requested, applied, stack, controller, inputs>>
    BY <1>4 DEF PushMark
  <2> DEFINE e == task[t].export
  <2>2. e \in Exports /\ slots[e] \in Slot
    BY <1>0, <1>1, <2>1, TaskShape DEF Holding, TypeOK
  <2>3. [slots[e] EXCEPT !.pending = @ \cup {"functional"}] \in Slot
    BY <2>2 DEF Slot, Bits
  <2>4. slots' = [slots EXCEPT ![e] = [slots[e] EXCEPT !.pending = @ \cup {"functional"}]]
    BY <2>1
  <2> HIDE DEF e
  <2>5. slots' \in [Exports -> Slot \cup {None}]
        /\ \A f \in Exports : slots[f] # None => slots'[f] # None
    BY <1>1, <2>2, <2>3, <2>4, NoneAssumption
  <2>6. task' \in [Tasks -> TaskState]
    BY <1>1, <2>1, TaskMember
  <2>7. \A u \in Tasks : task'[u].at \in {"stored", "counted"} => slots'[task'[u].export] # None
    <3> SUFFICES ASSUME NEW u \in Tasks, task'[u].at \in {"stored", "counted"}
                 PROVE  slots'[task'[u].export] # None
      OBVIOUS
    <3>1. u # t
      BY <1>1, <2>1, TaskMember
    <3>2. task'[u] = task[u] /\ task[u].export \in Exports
      BY <1>1, <2>1, <3>1, TaskShape DEF Holding
    <3> QED
      BY <1>0, <2>5, <3>2 DEF TypeOK
  <2> QED
    BY <1>1, <1>a, <2>1, <2>5, <2>6, <2>7
<1>5. ASSUME RequestBump(t) PROVE TypeInv'
  <2>1. /\ requested' = requested + 1
        /\ task' = [task EXCEPT ![t] = Idle]
        /\ UNCHANGED <<slots, dataver, applied, stack, reports, refresh, view, inputs>>
    BY <1>5 DEF RequestBump, controller
  <2>2. task' \in [Tasks -> TaskState]
    BY <1>1, <2>1, TaskMember
  <2>3. \A u \in Tasks : task'[u].at \in {"stored", "counted"} => slots'[task'[u].export] # None
    BY <1>0, <1>1, <2>1, TaskMember DEF TypeOK
  <2>4. stack'.at = "bump" => stack'.generation \in applied' + 1 .. requested'
    BY <1>0, <1>1, <2>1 DEF TypeOK
  <2>5. requested' \in Nat /\ applied' <= requested'
    BY <1>1, <2>1
  <2>6. TypeOK'
    BY <1>0, <2>1, <2>2, <2>3, <2>4, <2>5 DEF TypeOK
  <2> QED
    BY <2>1, <2>6 DEF TypeInv
<1>6. ASSUME SetExports(t) PROVE TypeInv'
  <2>1. PICK types \in [Exports -> DeviceTypes \cup {None}] : Swap(t, types)
    BY <1>6 DEF SetExports
  <2>2. /\ task[t] = Idle /\ ~ReadLocked /\ inputs' \in 0 .. MaxInputs
        /\ task' \in {task, [task EXCEPT ![t] = [at |-> "swapped"]]}
        /\ stack' = IF stack.at = "reading" /\ stack.old = None
                    THEN [stack EXCEPT !.old = slots[stack.export]] ELSE stack
        /\ UNCHANGED <<requested, applied, reports, refresh, view>>
    BY <2>1, <1>b DEF Swap, Input, controller
  <2>3. slots' \in [Exports -> Slot \cup {None}]
    BY <1>0, <2>1, SwapEffect
  <2>4. dataver' \in [Exports -> Nat]
    BY <1>1, <2>1 DEF Swap
  <2>5. task' \in [Tasks -> TaskState]
    BY <1>1, <2>2, TaskMember
  <2>6. \A u \in Tasks : task'[u].at \notin {"stored", "counted"}
    BY <1>1, <2>2 DEF ReadLocked
  <2>7. CASE stack.at = "reading" /\ stack.old = None
    <3>1. stack \in Reading /\ slots[stack.export] # None
      BY <1>0, <2>7, StackShape DEF TypeInv
    <3>2. stack' = [stack EXCEPT !.old = slots[stack.export]] /\ slots[stack.export] \in Slot
      BY <1>1, <2>2, <2>7, <3>1 DEF Reading
    <3>3. stack' \in StackState /\ stack'.at = "reading" /\ stack'.old # None
      BY <3>1, <3>2, NoneAssumption, StackMember DEF Reading
    <3>4. TypeOK'
      BY <1>0, <2>2, <2>3, <2>4, <2>5, <2>6, <3>3 DEF TypeOK
    <3> QED
      BY <3>3, <3>4 DEF TypeInv
  <2>8. CASE ~(stack.at = "reading" /\ stack.old = None)
    <3>1. stack' = stack
      BY <2>2, <2>8
    <3>2. TypeOK'
      BY <1>0, <2>2, <2>3, <2>4, <2>5, <2>6, <3>1 DEF TypeOK
    <3> QED
      BY <1>0, <2>8, <3>1, <3>2 DEF TypeInv
  <2> QED
    BY <2>7, <2>8
<1> QED
  BY <1>2, <1>3, <1>4, <1>5, <1>6 DEF TaskStep

\* The steps of the stack thread, the controllers' and the readers of commands.
ThreadStep ==
    \/ RunStep \/ BumpFails \/ ControllerStep \/ TakeCommands
    \/ \E e \in Exports, value \in BOOLEAN : Command(e, value)

LEMMA TypeThread == ASSUME TypeInv, ThreadStep PROVE TypeInv'
<1>0. TypeOK /\ stack \in StackState
  BY DEF TypeInv
<1>1. /\ slots \in [Exports -> Slot \cup {None}] /\ dataver \in [Exports -> Nat]
      /\ requested \in Nat /\ applied \in Nat /\ applied <= requested
      /\ task \in [Tasks -> TaskState] /\ inputs \in 0 .. MaxInputs
      /\ reports \subseteq Exports /\ refresh \subseteq Exports
      /\ view \in [Exports -> View \cup {None}]
  BY <1>0 DEF TypeOK
<1>a. ASSUME slots' \in [Exports -> Slot \cup {None}],
             \A e \in Exports : slots[e] # None => slots'[e] # None,
             dataver' \in [Exports -> Nat],
             applied' \in Nat, applied' <= requested,
             stack' \in StackState,
             stack'.at = "bump" => stack'.generation \in applied' + 1 .. requested,
             stack'.at = "reading" /\ stack'.old = None => slots'[stack'.export] # None,
             reports' \subseteq Exports, refresh' \subseteq Exports,
             view' \in [Exports -> View \cup {None}],
             inputs' \in 0 .. MaxInputs,
             UNCHANGED <<requested, task>>
      PROVE  TypeInv'
  <2>1. \A t \in Tasks : task'[t].at \in {"stored", "counted"} => slots'[task'[t].export] # None
    BY <1>0, <1>1, <1>a, TaskShape DEF TypeOK, Holding
  <2>2. stack'.at \in {"wait", "config", "bump", "drain", "notify", "reading", "commanding", "commanded"}
    BY <1>a DEF StackState
  <2>3. TypeOK'
    BY <1>1, <1>a, <2>1, <2>2 DEF TypeOK
  <2> QED
    BY <1>a, <2>3 DEF TypeInv
<1>b. Waiting \in StackState /\ Waiting.at = "wait"
  BY StackMember
\* The run loop.
<1>2. ASSUME Wake \/ BumpFails \/ LoadConfig PROVE TypeInv'
  <2>1. UNCHANGED <<slots, dataver, requested, applied, task, reports, refresh, view, inputs>>
    BY <1>2 DEF Wake, BumpFails, LoadConfig, controller
  <2>2. \/ stack' \in {[at |-> "config"], [at |-> "drain"]}
        \/ stack' = [at |-> "bump", generation |-> requested] /\ requested # applied
    BY <1>2 DEF Wake, BumpFails, LoadConfig
  <2>3. stack' \in StackState /\ stack'.at # "reading"
    BY <1>1, <2>2, StackMember
  <2>4. stack'.at = "bump" => stack'.generation \in applied' + 1 .. requested
    BY <1>1, <2>1, <2>2
  <2> QED
    BY <1>1, <1>a, <2>1, <2>3, <2>4
<1>3. ASSUME Bump PROVE TypeInv'
  <2>1. /\ stack.at = "bump"
        /\ applied' = IF applied < stack.generation THEN stack.generation ELSE applied
        /\ refresh' = Exports
        /\ stack' = [at |-> "config"]
        /\ UNCHANGED <<slots, dataver, requested, task, reports, view, inputs>>
    BY <1>3 DEF Bump
  <2>2. stack.generation \in applied + 1 .. requested
    BY <1>0, <2>1 DEF TypeOK
  <2>3. applied' \in Nat /\ applied' <= requested
    BY <1>1, <2>1, <2>2
  <2> QED
    BY <1>1, <1>a, <2>1, <2>3, StackMember
<1>4. ASSUME DrainReports PROVE TypeInv'
  <2>1. /\ slots' = [e \in Exports |->
              IF slots[e] = None THEN None ELSE [slots[e] EXCEPT !.pending = {}]]
        /\ stack' = [at |-> "notify", functional |-> Pending("functional"),
                    descriptor |-> Pending("descriptor")]
        /\ UNCHANGED <<dataver, requested, applied, task, reports, refresh, view, inputs>>
    BY <1>4 DEF DrainReports, controller
  <2>2. \A e \in Exports : slots[e] # None => [slots[e] EXCEPT !.pending = {}] \in Slot
    BY <1>1 DEF Slot
  <2>3. /\ slots' \in [Exports -> Slot \cup {None}]
        /\ \A e \in Exports : slots[e] # None => slots'[e] # None
    BY <1>1, <2>1, <2>2, NoneAssumption
  <2>4. stack' \in StackState /\ stack'.at = "notify"
    BY <2>1 DEF StackState, Pending
  <2> QED
    BY <1>1, <1>a, <2>1, <2>3, <2>4
<1>5. ASSUME Notify PROVE TypeInv'
  <2>1. /\ stack.at = "notify"
        /\ dataver' = Bumped(stack.functional)
        /\ reports' = reports \cup stack.functional
        /\ refresh' = refresh \cup stack.descriptor
        /\ stack' = Waiting
        /\ UNCHANGED <<slots, requested, applied, task, view, inputs>>
    BY <1>5 DEF Notify
  <2>2. stack.functional \subseteq Exports /\ stack.descriptor \subseteq Exports
    BY <1>0, <2>1, StackShape
  <2> QED
    BY <1>0, <1>1, <1>a, <1>b, <2>1, <2>2, Counted
\* The controllers.
<1>6. ASSUME NEW e \in Exports, ReadVersion(e) PROVE TypeInv'
  <2>1. /\ reports' = reports \ {e} /\ refresh' = refresh \ {e} /\ stack = Waiting
        /\ UNCHANGED <<slots, dataver, requested, applied, task, inputs>>
    BY <1>6 DEF ReadVersion
  <2>2. CASE slots[e] = None
    <3>1. view' = [view EXCEPT ![e] = None] /\ stack' = stack
      BY <1>6, <2>2 DEF ReadVersion
    <3>2. view' \in [Exports -> View \cup {None}]
      BY <1>1, <3>1
    <3> QED
      BY <1>1, <1>a, <1>b, <2>1, <3>1, <3>2
  <2>3. CASE slots[e] # None /\ view' = [view EXCEPT ![e].type = slots[e].type] /\ view[e] # None
             /\ stack' = stack
    <3>1. [view[e] EXCEPT !.type = slots[e].type] \in View
      BY <1>1, <2>3 DEF View, Slot
    <3>2. view' \in [Exports -> View \cup {None}]
      BY <1>1, <2>3, <3>1
    <3> QED
      BY <1>1, <1>a, <1>b, <2>1, <2>3, <3>2
  <2>4. CASE /\ slots[e] # None /\ view' = view
             /\ stack' = [at |-> "reading", export |-> e, dataver |-> dataver[e], old |-> None]
    <3>1. stack' \in Reading /\ stack'.at = "reading" /\ stack'.export = e
      BY <1>1, <2>4 DEF Reading
    <3> QED
      BY <1>1, <1>a, <2>1, <2>4, <3>1, StackMember
  <2> QED
    BY <1>6, <2>2, <2>3, <2>4 DEF ReadVersion
<1>7. ASSUME ReadValue PROVE TypeInv'
  <2> DEFINE e == stack.export
             slot == IF stack.old = None THEN slots[e] ELSE stack.old
  <2>1. /\ stack.at = "reading"
        /\ view' = [view EXCEPT ![e] =
                     [type |-> slot.type, value |-> slot.value, dataver |-> stack.dataver]]
        /\ stack' = Waiting
        /\ UNCHANGED <<slots, dataver, requested, applied, task, reports, refresh, inputs>>
    BY <1>7 DEF ReadValue
  <2>2. stack \in Reading
    BY <1>0, <2>1, StackShape
  <2>3. slot \in Slot
    BY <1>1, <2>1, <2>2 DEF TypeInv, Reading
  <2>4. [type |-> slot.type, value |-> slot.value, dataver |-> stack.dataver] \in View
    BY <2>2, <2>3 DEF Reading, View, Slot
  <2> HIDE DEF slot
  <2>5. view' \in [Exports -> View \cup {None}]
    BY <1>1, <2>1, <2>4
  <2> QED
    BY <1>1, <1>a, <1>b, <2>1, <2>5
<1>8. ASSUME NEW e \in Exports, NEW value \in BOOLEAN, Command(e, value) PROVE TypeInv'
  <2>1. /\ slots[e] # None /\ inputs < MaxInputs /\ inputs' = inputs + 1
        /\ slots' = [slots EXCEPT ![e].value = value]
        /\ stack' = [at |-> "commanding", export |-> e, value |-> value,
                    changed |-> slots[e].value # value]
        /\ UNCHANGED <<dataver, requested, applied, task, reports, refresh, view>>
    BY <1>8 DEF Command, Input, controller
  <2>2. [slots[e] EXCEPT !.value = value] \in Slot
    BY <1>1, <2>1 DEF Slot
  <2>3. slots' = [slots EXCEPT ![e] = [slots[e] EXCEPT !.value = value]]
    BY <2>1
  <2>4. slots' \in [Exports -> Slot \cup {None}]
        /\ \A f \in Exports : slots[f] # None => slots'[f] # None
    BY <1>1, <2>2, <2>3, NoneAssumption
  <2>5. stack' \in Commanding /\ stack'.at = "commanding"
    BY <2>1 DEF Commanding
  <2>6. inputs' \in 0 .. MaxInputs
    BY <1>1, <2>1, MaxInputsAssumption
  <2> QED
    BY <1>1, <1>a, <2>1, <2>4, <2>5, <2>6, StackMember
<1>9. ASSUME QueueCommand PROVE TypeInv'
  <2>1. /\ stack.at = "commanding"
        /\ dataver' = IF stack.changed THEN [dataver EXCEPT ![stack.export] = @ + 1] ELSE dataver
        /\ stack' = [stack EXCEPT !.at = "commanded"]
        /\ UNCHANGED <<slots, requested, applied, task, reports, refresh, view, inputs>>
    BY <1>9 DEF QueueCommand, controller
  <2>2. stack \in Commanding
    BY <1>0, <2>1, StackShape
  <2>3. stack' \in StackState /\ stack'.at = "commanded"
    BY <2>1, <2>2, StackMember DEF Commanding
  <2>4. dataver' \in [Exports -> Nat]
    <3>1. [dataver EXCEPT ![stack.export] = @ + 1] \in [Exports -> Nat]
      BY <1>1, <2>2 DEF Commanding
    <3>2. CASE stack.changed
      BY <2>1, <3>1, <3>2
    <3>3. CASE ~stack.changed
      BY <1>1, <2>1, <3>3
    <3> QED
      BY <3>2, <3>3
  <2> QED
    BY <1>1, <1>a, <2>1, <2>3, <2>4
<1>10. ASSUME NotifyOwn PROVE TypeInv'
  <2>1. /\ stack.at = "commanded"
        /\ reports' = reports \cup {stack.export}
        /\ dataver' = Bumped({stack.export})
        /\ stack' = Waiting
        /\ UNCHANGED <<slots, requested, applied, task, refresh, view, inputs>>
    BY <1>10 DEF NotifyOwn
  <2>2. {stack.export} \in SUBSET Exports
    BY <1>0, <2>1, StackShape DEF Commanding
  <2> QED
    BY <1>0, <1>1, <1>a, <1>b, <2>1, <2>2, Counted
<1>11. ASSUME TakeCommands PROVE TypeInv'
  <2>1. UNCHANGED <<slots, dataver, requested, applied, task, stack, reports, refresh, view, inputs>>
    BY <1>11 DEF TakeCommands, controller
  <2>2. TypeOK'
    BY <1>0, <2>1 DEF TypeOK
  <2> QED
    BY <2>1, <2>2 DEF TypeInv
<1> QED
  BY <1>2, <1>3, <1>4, <1>5, <1>6, <1>7, <1>8, <1>9, <1>10, <1>11
     DEF ThreadStep, RunStep, ControllerStep

LEMMA NextCases ==
    ASSUME [Next]_vars
    PROVE  \/ \E t \in Tasks :
                \/ \E e \in Exports, value \in BOOLEAN : PushStore(t, e, value)
                \/ SetExports(t)
                \/ TaskStep(t)
           \/ ThreadStep
           \/ UNCHANGED vars
BY DEF Next, ThreadStep

LEMMA TypeStep == TypeInv /\ [Next]_vars => TypeInv'
<1> SUFFICES ASSUME TypeInv, [Next]_vars PROVE TypeInv'
  OBVIOUS
<1>1. ASSUME UNCHANGED vars PROVE TypeInv'
  <2>1. TypeOK'
    BY <1>1 DEF TypeInv, TypeOK, vars, controller
  <2> QED
    BY <1>1, <2>1 DEF TypeInv, vars
<1> QED
  BY <1>1, NextCases, TypeTask, TypeThread

\* Every variable keeps its type; a thread that works on a slot under the read
\* lock has it in the table, and no configuration generation is acknowledged that
\* was not requested.
THEOREM TypeCorrect == Spec => []TypeOK
<1>1. Spec => []TypeInv
  BY TypeInit, TypeStep, PTL DEF Spec
<1>2. TypeInv => TypeOK
  BY DEF TypeInv
<1> QED
  BY <1>1, <1>2, PTL

-----------------------------------------------------------------------------
(* Data versions *)

SoundInv == Typed /\ Versions /\ ViewSound /\ ReadSound

LEMMA SoundTask ==
    ASSUME WithinKind, TypeInv, SoundInv, NEW t \in Tasks,
           \/ \E e \in Exports, value \in BOOLEAN : PushStore(t, e, value)
           \/ SetExports(t)
           \/ TaskStep(t)
    PROVE  SoundInv'
<1>1. /\ TypeOK
      /\ slots \in [Exports -> Slot \cup {None}] /\ dataver \in [Exports -> Nat]
      /\ task \in [Tasks -> TaskState] /\ view \in [Exports -> View \cup {None}]
  BY DEF TypeInv, TypeOK
<1>2. stack.at = "reading" =>
          stack \in Reading /\ stack.export \in Exports /\ stack.dataver \in Nat
  BY StackShape DEF TypeInv, Reading
<1>3. \A e \in Exports : view[e] # None => view[e].dataver \in Nat
  BY <1>1 DEF View
<1>4. Typed /\ Versions /\ ViewSound /\ ReadSound
  BY DEF SoundInv
\* One export f gets a new value that has to be counted, or counts it.
<1>a. ASSUME NEW f \in Exports, UNCHANGED <<stack, view>>,
             \A e \in Exports : slots'[e] # None <=> slots[e] # None,
             \A e \in Exports : slots[e] # None => slots'[e].type = slots[e].type,
             \A e \in Exports : slots[e] # None /\ e # f => slots'[e].value = slots[e].value,
             \A e \in Exports : e # f => dataver'[e] = dataver[e] /\ Counting(e)' = Counting(e),
             dataver'[f] \in Nat,
             \/ dataver'[f] = dataver[f] /\ Counting(f)'
             \/ dataver'[f] > dataver[f]
             \/ /\ dataver'[f] = dataver[f] /\ Counting(f)' = Counting(f)
                /\ slots[f] # None => slots'[f].value = slots[f].value
      PROVE  SoundInv'
  <2>1. Typed'
    BY <1>2, <1>4, <1>a DEF Typed
  <2>2. \A e \in Exports : dataver[e] <= dataver'[e]
    BY <1>1, <1>a
  <2>3. Versions'
    <3>1. \A e \in Exports : view[e] # None => view[e].dataver <= dataver'[e]
      BY <1>1, <1>3, <1>4, <1>a, <2>2 DEF Versions
    <3>2. stack.at = "reading" => stack.dataver <= dataver'[stack.export]
      BY <1>1, <1>2, <1>4, <1>a, <2>2 DEF Versions
    <3> QED
      BY <1>a, <3>1, <3>2 DEF Versions
  <2>4. ViewSound'
    <3> SUFFICES ASSUME NEW e \in Exports, slots'[e] # None, view[e] # None,
                        view[e].dataver = dataver'[e], ~Counting(e)'
                 PROVE  view[e].value = slots'[e].value
      BY <1>a DEF ViewSound
    <3>1. CASE e # f
      BY <1>4, <1>a, <3>1 DEF ViewSound
    <3>2. CASE e = f
      <4>1. ~(dataver'[f] > dataver[f])
        BY <1>1, <1>3, <1>4, <3>2 DEF Versions
      <4>2. dataver'[f] = dataver[f] /\ ~Counting(f) /\ slots[f] # None
            /\ slots'[f].value = slots[f].value
        BY <1>a, <3>2, <4>1
      <4> QED
        BY <1>4, <3>2, <4>2 DEF ViewSound
    <3> QED
      BY <3>1, <3>2
  <2>5. ReadSound'
    <3> SUFFICES ASSUME stack.at = "reading", stack.old # None,
                        slots'[stack.export] # None, stack.dataver = dataver'[stack.export],
                        ~Counting(stack.export)'
                 PROVE  stack.old.value = slots'[stack.export].value
      BY <1>a DEF ReadSound
    <3>1. CASE stack.export # f
      BY <1>2, <1>4, <1>a, <3>1 DEF ReadSound
    <3>2. CASE stack.export = f
      <4>1. ~(dataver'[f] > dataver[f])
        BY <1>1, <1>2, <1>4, <3>2 DEF Versions
      <4>2. dataver'[f] = dataver[f] /\ ~Counting(f) /\ slots[f] # None
            /\ slots'[f].value = slots[f].value
        BY <1>a, <3>2, <4>1
      <4> QED
        BY <1>4, <3>2, <4>2 DEF ReadSound
    <3> QED
      BY <3>1, <3>2
  <2> QED
    BY <2>1, <2>3, <2>4, <2>5 DEF SoundInv
<1>5. ASSUME NEW e \in Exports, NEW value \in BOOLEAN, PushStore(t, e, value)
      PROVE  SoundInv'
  <2>1. /\ slots[e] # None /\ task[t] = Idle
        /\ slots' = [slots EXCEPT ![e].value = value]
        /\ task' = [task EXCEPT ![t] = [at |-> "stored", export |-> e]]
        /\ UNCHANGED <<dataver, stack, view>>
    BY <1>5 DEF PushStore, controller
  <2>2. /\ slots[e] \in Slot
        /\ [slots[e] EXCEPT !.value = value] \in Slot
        /\ [slots[e] EXCEPT !.value = value].type = slots[e].type
        /\ slots'[e] = [slots[e] EXCEPT !.value = value]
        /\ \A f \in Exports : f # e => slots'[f] = slots[f]
    BY <1>1, <2>1 DEF Slot
  <2>3. slots'[e] # None /\ slots'[e].type = slots[e].type
    BY <2>2, NoneAssumption
  <2>4. task'[t].at = "stored" /\ task'[t].export = e /\ task[t].at # "stored"
        /\ \A u \in Tasks : u # t => task'[u] = task[u]
    BY <1>1, <2>1, TaskMember
  <2>5. Counting(e)'
    BY <2>4 DEF Counting
  <2>6. \A f \in Exports : f # e => Counting(f)' = Counting(f)
    BY <2>1, <2>4 DEF Counting
  <2> QED
    BY <1>1, <1>a, <2>1, <2>2, <2>3, <2>5, <2>6
<1>6. ASSUME PushCount(t) PROVE SoundInv'
  <2> DEFINE e == task[t].export
  <2>1. /\ task[t].at = "stored"
        /\ dataver' = [dataver EXCEPT ![e] = @ + 1]
        /\ task' = [task EXCEPT ![t].at = "counted"]
        /\ UNCHANGED <<slots, stack, view>>
    BY <1>6 DEF PushCount, controller
  <2>2. e \in Exports
    BY <1>1, <2>1, TaskShape DEF Holding
  <2>3. task[t] \in Holding
    BY <1>1, <2>1, TaskShape
  <2>4. task'[t].at # "stored" /\ \A u \in Tasks : u # t => task'[u] = task[u]
    BY <1>1, <2>1, <2>3 DEF Holding
  <2>5. \A f \in Exports : f # e => Counting(f)' = Counting(f)
    BY <2>1, <2>4 DEF Counting
  <2> HIDE DEF e
  <2>6. /\ dataver'[e] \in Nat /\ dataver'[e] > dataver[e]
        /\ \A f \in Exports : f # e => dataver'[f] = dataver[f]
    BY <1>1, <2>1, <2>2
  <2> QED
    BY <1>a, <2>1, <2>2, <2>5, <2>6
<1>7. ASSUME PushMark(t) PROVE SoundInv'
  <2> DEFINE e == task[t].export
  <2>1. /\ task[t].at = "counted"
        /\ slots' = [slots EXCEPT ![e].pending = @ \cup {"functional"}]
        /\ task' = [task EXCEPT ![t] = Idle]
        /\ UNCHANGED <<dataver, stack, view>>
    BY <1>7 DEF PushMark, controller
  <2>2. e \in Exports /\ slots[e] \in Slot
    BY <1>1, <2>1, TaskShape DEF Holding, TypeOK
  <2>3. task'[t].at # "stored" /\ \A u \in Tasks : u # t => task'[u] = task[u]
    BY <1>1, <2>1, TaskMember
  <2>4. \A f \in Exports : Counting(f)' = Counting(f)
    BY <2>1, <2>3 DEF Counting
  <2> HIDE DEF e
  <2> DEFINE s == [slots[e] EXCEPT !.pending = @ \cup {"functional"}]
  <2>5. s \in Slot /\ s.type = slots[e].type /\ s.value = slots[e].value
    BY <2>2 DEF Slot, Bits
  <2>6. slots'[e] = s /\ \A f \in Exports : f # e => slots'[f] = slots[f]
    BY <1>1, <2>1, <2>2
  <2> HIDE DEF s
  <2>7. slots'[e] # None /\ slots[e] # None
    BY <2>2, <2>5, <2>6, NoneAssumption
  <2> QED
    BY <1>1, <1>a, <2>1, <2>2, <2>4, <2>5, <2>6, <2>7
<1>8. ASSUME RequestBump(t) PROVE SoundInv'
  <2>1. /\ task[t].at = "swapped"
        /\ task' = [task EXCEPT ![t] = Idle]
        /\ UNCHANGED <<slots, dataver, stack, view>>
    BY <1>8 DEF RequestBump, controller
  <2>2. task'[t].at # "stored" /\ \A u \in Tasks : u # t => task'[u] = task[u]
    BY <1>1, <2>1, TaskMember
  <2>3. \A f \in Exports : Counting(f)' = Counting(f)
    BY <2>1, <2>2 DEF Counting
  <2>4. Typed' /\ Versions'
    BY <1>4, <2>1 DEF Typed, Versions
  <2>5. ViewSound'
    BY <1>4, <2>1, <2>3 DEF ViewSound
  <2>6. ReadSound'
    BY <1>2, <1>4, <2>1, <2>3 DEF ReadSound
  <2> QED
    BY <2>4, <2>5, <2>6 DEF SoundInv
<1>9. ASSUME SetExports(t) PROVE SoundInv'
  <2>1. PICK types \in [Exports -> DeviceTypes \cup {None}] :
            (\A e \in Exports : types[e] \in TypesOf[e] \cup {None}) /\ Swap(t, types)
    BY <1>9 DEF SetExports
  <2>2. /\ task[t] = Idle /\ ~ReadLocked
        /\ task' \in {task, [task EXCEPT ![t] = [at |-> "swapped"]]}
        /\ dataver' = [e \in Exports |->
               IF slots[e] = None /\ slots'[e] # None THEN dataver[e] + 1 ELSE dataver[e]]
        /\ stack' = IF stack.at = "reading" /\ stack.old = None
                    THEN [stack EXCEPT !.old = slots[stack.export]] ELSE stack
        /\ view' = view
    BY <2>1 DEF Swap, controller
  <2>3. /\ slots' \in [Exports -> Slot \cup {None}]
        /\ \A e \in Exports : types[e] = None => slots'[e] = None
        /\ \A e \in Exports : types[e] # None =>
                 /\ slots'[e] # None
                 /\ slots'[e].type = types[e]
                 /\ slots[e] # None /\ Kind(slots[e].type) = Kind(types[e]) =>
                       slots'[e].value = slots[e].value
    BY <1>1, <2>1, SwapEffect
  <2>4. \A e \in Exports : slots'[e] # None => slots'[e].type \in TypesOf[e]
    BY <2>1, <2>3
  <2>5. \A e \in Exports :
            slots[e] # None /\ slots'[e] # None =>
                slots'[e].value = slots[e].value /\ dataver'[e] = dataver[e]
    <3> SUFFICES ASSUME NEW e \in Exports, slots[e] # None, slots'[e] # None
                 PROVE  slots'[e].value = slots[e].value /\ dataver'[e] = dataver[e]
      OBVIOUS
    <3>1. slots[e].type \in TypesOf[e] /\ types[e] # None /\ types[e] \in TypesOf[e]
      BY <1>4, <2>1, <2>3 DEF Typed
    <3>2. Kind(slots[e].type) = Kind(types[e])
      BY <3>1 DEF WithinKind
    <3> QED
      BY <2>2, <2>3, <3>1, <3>2
  <2>6. \A e \in Exports : slots[e] = None /\ slots'[e] # None => dataver'[e] > dataver[e]
    BY <1>1, <2>2
  <2>7. \A e \in Exports : dataver[e] <= dataver'[e] /\ dataver'[e] \in Nat
    BY <1>1, <2>2
  <2>8. \A e \in Exports : ~Counting(e)
    BY <2>2 DEF ReadLocked, Counting
  <2>9. /\ stack'.at = "reading" <=> stack.at = "reading"
        /\ stack.at = "reading" =>
              /\ stack'.export = stack.export /\ stack'.dataver = stack.dataver
              /\ stack.old = None => slots[stack.export] # None /\ stack'.old = slots[stack.export]
              /\ stack.old # None => stack'.old = stack.old
    BY <1>2, <2>2 DEF TypeInv, Reading
  <2>10. Typed'
    <3>1. stack'.at = "reading" /\ stack'.old # None => stack'.old.type \in TypesOf[stack'.export]
      BY <1>2, <1>4, <2>9 DEF Typed
    <3> QED
      BY <1>4, <2>2, <2>4, <3>1 DEF Typed
  <2>11. Versions'
    <3>1. \A e \in Exports : view[e] # None => view[e].dataver <= dataver'[e]
      BY <1>1, <1>3, <1>4, <2>7 DEF Versions
    <3>2. stack.at = "reading" => stack.dataver <= dataver'[stack.export]
      BY <1>1, <1>2, <1>4, <2>7 DEF Versions
    <3> QED
      BY <1>2, <2>2, <2>9, <3>1, <3>2 DEF Versions
  <2>12. ViewSound'
    <3> SUFFICES ASSUME NEW e \in Exports, slots'[e] # None, view[e] # None,
                        view[e].dataver = dataver'[e]
                 PROVE  view[e].value = slots'[e].value
      BY <2>2 DEF ViewSound
    <3>1. slots[e] # None
      BY <1>1, <1>3, <1>4, <2>6 DEF Versions
    <3> QED
      BY <1>4, <2>5, <2>8, <3>1 DEF ViewSound
  <2>13. ReadSound'
    <3> SUFFICES ASSUME stack.at = "reading", slots'[stack.export] # None,
                        stack.dataver = dataver'[stack.export]
                 PROVE  stack'.old.value = slots'[stack.export].value
      BY <2>9 DEF ReadSound
    <3>1. slots[stack.export] # None
      BY <1>1, <1>2, <1>4, <2>6 DEF Versions
    <3>2. slots'[stack.export].value = slots[stack.export].value
          /\ dataver'[stack.export] = dataver[stack.export]
      BY <1>2, <2>5, <3>1
    <3> QED
      BY <1>2, <1>4, <2>8, <2>9, <3>1, <3>2 DEF ReadSound
  <2> QED
    BY <2>10, <2>11, <2>12, <2>13 DEF SoundInv
<1> QED
  BY <1>5, <1>6, <1>7, <1>8, <1>9 DEF TaskStep

LEMMA SoundThread == ASSUME WithinKind, TypeInv, SoundInv, ThreadStep PROVE SoundInv'
<1>1. /\ TypeOK
      /\ slots \in [Exports -> Slot \cup {None}] /\ dataver \in [Exports -> Nat]
      /\ task \in [Tasks -> TaskState] /\ view \in [Exports -> View \cup {None}]
  BY DEF TypeInv, TypeOK
<1>2. stack.at = "reading" =>
          stack \in Reading /\ stack.export \in Exports /\ stack.dataver \in Nat
  BY StackShape DEF TypeInv, Reading
<1>3. \A e \in Exports : view[e] # None => view[e].dataver \in Nat
  BY <1>1 DEF View
<1>4. Typed /\ Versions /\ ViewSound /\ ReadSound
  BY DEF SoundInv
<1>5. Waiting.at = "wait"
  BY StackMember
\* The thread leaves values and views alone; versions may be counted.
<1>a. ASSUME stack'.at # "reading", stack.at \notin {"reading", "commanding"},
             UNCHANGED <<task, view>>,
             \A e \in Exports : slots'[e] # None <=> slots[e] # None,
             \A e \in Exports : slots[e] # None =>
                 slots'[e].type = slots[e].type /\ slots'[e].value = slots[e].value,
             \A e \in Exports : dataver[e] <= dataver'[e] /\ dataver'[e] \in Nat
      PROVE  SoundInv'
  <2>1. Typed'
    BY <1>4, <1>a DEF Typed
  <2>2. \A e \in Exports : view[e] # None => view[e].dataver <= dataver'[e]
    BY <1>1, <1>3, <1>4, <1>a DEF Versions
  <2>3. Versions'
    BY <1>a, <2>2 DEF Versions
  <2>4. \A e \in Exports : Counting(e) => Counting(e)'
    BY <1>a DEF Counting
  <2>5. ViewSound'
    <3> SUFFICES ASSUME NEW e \in Exports, slots'[e] # None, view[e] # None,
                        view[e].dataver = dataver'[e], ~Counting(e)'
                 PROVE  view[e].value = slots'[e].value
      BY <1>a DEF ViewSound
    <3>1. view[e].dataver = dataver[e]
      BY <1>1, <1>3, <1>4, <1>a DEF Versions
    <3> QED
      BY <1>4, <1>a, <2>4, <3>1 DEF ViewSound
  <2>6. ReadSound'
    BY <1>a DEF ReadSound
  <2> QED
    BY <2>1, <2>3, <2>5, <2>6 DEF SoundInv
<1>b. \A e \in Exports : dataver[e] <= dataver[e] /\ dataver[e] \in Nat
  BY <1>1
<1>6. ASSUME Wake \/ BumpFails \/ LoadConfig \/ Bump PROVE SoundInv'
  <2>1. /\ UNCHANGED <<slots, dataver, task, view>>
        /\ stack.at \in {"wait", "config", "bump"} /\ stack'.at \in {"config", "drain", "bump"}
    BY <1>5, <1>6 DEF Wake, BumpFails, LoadConfig, Bump, controller
  <2> QED
    BY <1>a, <1>b, <2>1
<1>7. ASSUME DrainReports PROVE SoundInv'
  <2>1. /\ stack.at = "drain" /\ stack'.at = "notify"
        /\ slots' = [e \in Exports |->
              IF slots[e] = None THEN None ELSE [slots[e] EXCEPT !.pending = {}]]
        /\ UNCHANGED <<dataver, task, view>>
    BY <1>7 DEF DrainReports, controller
  <2>2. \A e \in Exports : slots[e] # None =>
            /\ [slots[e] EXCEPT !.pending = {}] \in Slot
            /\ [slots[e] EXCEPT !.pending = {}].type = slots[e].type
            /\ [slots[e] EXCEPT !.pending = {}].value = slots[e].value
    BY <1>1 DEF Slot
  <2>3. \A e \in Exports : slots'[e] # None <=> slots[e] # None
    BY <2>1, <2>2, NoneAssumption
  <2> QED
    BY <1>a, <1>b, <2>1, <2>2, <2>3
<1>8. ASSUME Notify \/ NotifyOwn PROVE SoundInv'
  <2>1. /\ UNCHANGED <<slots, task, view>>
        /\ stack.at \in {"notify", "commanded"} /\ stack'.at = "wait"
    BY <1>5, <1>8 DEF Notify, NotifyOwn
  <2>2. \E changed \in SUBSET Exports : dataver' = Bumped(changed)
    <3>1. CASE Notify
      BY <3>1, StackShape DEF Notify, TypeInv
    <3>2. CASE NotifyOwn
      <4>1. {stack.export} \in SUBSET Exports
        BY <3>2, StackShape DEF NotifyOwn, TypeInv, Commanding
      <4> QED
        BY <3>2, <4>1 DEF NotifyOwn
    <3> QED
      BY <1>8, <3>1, <3>2
  <2>3. \A e \in Exports : dataver[e] <= dataver'[e] /\ dataver'[e] \in Nat
    BY <1>1, <2>2, Counted
  <2> QED
    BY <1>a, <2>1, <2>3
<1>9. ASSUME TakeCommands PROVE SoundInv'
  <2>1. UNCHANGED <<slots, dataver, task, stack, view>>
    BY <1>9 DEF TakeCommands, controller
  <2>2. \A e : Counting(e)' = Counting(e)
    BY <2>1 DEF Counting
  <2>3. Typed' /\ Versions'
    BY <1>4, <2>1 DEF Typed, Versions
  <2>4. ViewSound' /\ ReadSound'
    BY <1>4, <2>1, <2>2 DEF ViewSound, ReadSound
  <2> QED
    BY <2>3, <2>4 DEF SoundInv
<1>10. ASSUME NEW e \in Exports, NEW value \in BOOLEAN, Command(e, value) PROVE SoundInv'
  <2>1. /\ stack = Waiting /\ slots[e] # None
        /\ slots' = [slots EXCEPT ![e].value = value]
        /\ stack' = [at |-> "commanding", export |-> e, value |-> value,
                    changed |-> slots[e].value # value]
        /\ UNCHANGED <<dataver, task, view>>
    BY <1>10 DEF Command, controller
  <2>2. /\ slots'[e] \in Slot /\ slots'[e].type = slots[e].type /\ slots'[e].value = value
        /\ \A f \in Exports : f # e => slots'[f] = slots[f]
    <3>1. slots[e] \in Slot
      BY <1>1, <2>1
    <3>2. [slots[e] EXCEPT !.value = value] \in Slot
          /\ [slots[e] EXCEPT !.value = value].type = slots[e].type
          /\ [slots[e] EXCEPT !.value = value].value = value
      BY <3>1 DEF Slot
    <3>3. slots'[e] = [slots[e] EXCEPT !.value = value]
      BY <1>1, <2>1
    <3> QED
      BY <1>1, <2>1, <3>2, <3>3
  <2>3. slots'[e] # None
    BY <2>2, NoneAssumption
  <2>4. stack'.at = "commanding" /\ stack'.export = e /\ (stack'.changed <=> slots[e].value # value)
    BY <2>1
  <2>5. \A f \in Exports : ~Counting(f)' => ~Counting(f) /\ (f = e => slots[e].value = value)
    BY <1>5, <2>1, <2>4 DEF Counting
  <2>6. Typed' /\ Versions'
    <3>1. Typed'
      BY <1>4, <2>1, <2>2, <2>4 DEF Typed
    <3>2. Versions'
      BY <1>4, <2>1, <2>4 DEF Versions
    <3> QED
      BY <3>1, <3>2
  <2>7. ViewSound'
    <3> SUFFICES ASSUME NEW f \in Exports, slots'[f] # None, view[f] # None,
                        view[f].dataver = dataver[f], ~Counting(f)'
                 PROVE  view[f].value = slots'[f].value
      BY <2>1 DEF ViewSound
    <3>1. slots[f] # None /\ slots'[f].value = slots[f].value
      BY <2>1, <2>2, <2>5
    <3> QED
      BY <1>4, <2>5, <3>1 DEF ViewSound
  <2>8. ReadSound'
    BY <2>4 DEF ReadSound
  <2> QED
    BY <2>6, <2>7, <2>8 DEF SoundInv
<1>11. ASSUME QueueCommand PROVE SoundInv'
  <2> DEFINE e == stack.export
  <2>1. /\ stack.at = "commanding"
        /\ dataver' = IF stack.changed THEN [dataver EXCEPT ![e] = @ + 1] ELSE dataver
        /\ stack' = [stack EXCEPT !.at = "commanded"]
        /\ UNCHANGED <<slots, task, view>>
    BY <1>11 DEF QueueCommand, controller
  <2>2. e \in Exports /\ stack'.at = "commanded"
    BY <2>1, StackShape DEF TypeInv, Commanding
  <2>3. \A f \in Exports : ~Counting(f)' => ~Counting(f) \/ (f = e /\ stack.changed)
    BY <2>1, <2>2 DEF Counting
  <2> HIDE DEF e
  <2>4. \A f \in Exports : /\ dataver'[f] \in Nat /\ dataver[f] <= dataver'[f]
                           /\ f = e /\ stack.changed => dataver'[f] > dataver[f]
    <3>1. [dataver EXCEPT ![e] = @ + 1] \in [Exports -> Nat]
      BY <1>1, <2>2
    <3>2. CASE stack.changed
      BY <1>1, <2>1, <2>2, <3>1, <3>2
    <3>3. CASE ~stack.changed
      <4>1. dataver' = dataver
        BY <2>1, <3>3
      <4> QED
        BY <1>b, <3>3, <4>1
    <3> QED
      BY <3>2, <3>3
  <2>5. Typed' /\ Versions'
    <3>1. Typed'
      BY <1>4, <2>1, <2>2 DEF Typed
    <3>2. \A f \in Exports : view[f] # None => view[f].dataver <= dataver'[f]
      BY <1>1, <1>3, <1>4, <2>4 DEF Versions
    <3>3. Versions'
      BY <2>1, <2>2, <3>2 DEF Versions
    <3> QED
      BY <3>1, <3>3
  <2>6. ViewSound'
    <3> SUFFICES ASSUME NEW f \in Exports, slots[f] # None, view[f] # None,
                        view[f].dataver = dataver'[f], ~Counting(f)'
                 PROVE  view[f].value = slots[f].value
      BY <2>1 DEF ViewSound
    <3>1. view[f].dataver <= dataver[f]
      BY <1>4 DEF Versions
    <3>2. dataver'[f] = dataver[f] /\ ~(f = e /\ stack.changed)
      BY <1>1, <1>3, <2>4, <3>1
    <3>3. ~Counting(f)
      BY <2>3, <3>2
    <3> QED
      BY <1>4, <3>2, <3>3 DEF ViewSound
  <2>7. ReadSound'
    BY <2>2 DEF ReadSound
  <2> QED
    BY <2>5, <2>6, <2>7 DEF SoundInv
\* A read takes the version before the value.
<1>12. ASSUME ReadValue PROVE SoundInv'
  <2> DEFINE e == stack.export
             slot == IF stack.old = None THEN slots[e] ELSE stack.old
  <2>1. /\ stack.at = "reading"
        /\ view' = [view EXCEPT ![e] =
                     [type |-> slot.type, value |-> slot.value, dataver |-> stack.dataver]]
        /\ stack' = Waiting
        /\ UNCHANGED <<slots, dataver, task>>
    BY <1>12 DEF ReadValue
  <2>2. /\ slot.type \in TypesOf[e]
        /\ stack.old = None => slots[e] # None
    BY <1>2, <1>4, <2>1 DEF Typed, TypeInv
  <2>3. /\ slots[e] # None /\ stack.dataver = dataver[e] /\ ~Counting(e) => slot.value = slots[e].value
    BY <1>4, <2>1 DEF ReadSound
  <2>4. e \in Exports /\ stack.dataver <= dataver[e]
    BY <1>2, <1>4, <2>1 DEF Versions
  <2> HIDE DEF slot
  <2>5. /\ view'[e].type = slot.type /\ view'[e].value = slot.value /\ view'[e].dataver = stack.dataver
        /\ \A f \in Exports : f # e => view'[f] = view[f]
    BY <1>1, <2>1, <2>4
  <2>6. \A f \in Exports : Counting(f)' = Counting(f)
    BY <1>5, <2>1 DEF Counting
  <2>7. Typed'
    BY <1>4, <1>5, <2>1, <2>2, <2>5 DEF Typed
  <2>8. Versions'
    BY <1>4, <1>5, <2>1, <2>4, <2>5 DEF Versions
  <2>9. ViewSound'
    BY <1>4, <2>1, <2>3, <2>5, <2>6 DEF ViewSound
  <2> QED
    BY <1>5, <2>1, <2>7, <2>8, <2>9 DEF SoundInv, ReadSound
<1>13. ASSUME NEW e \in Exports, ReadVersion(e) PROVE SoundInv'
  <2>1. /\ stack = Waiting /\ UNCHANGED <<slots, dataver, task>>
    BY <1>13 DEF ReadVersion
  <2>2. \A f \in Exports : Counting(f)' = Counting(f)
    <3>1. stack'.at # "commanding"
      BY <1>5, <1>13, <2>1 DEF ReadVersion
    <3> QED
      BY <1>5, <2>1, <3>1 DEF Counting
  <2>3. CASE view' = [view EXCEPT ![e] = None] /\ stack' = stack
    <3>1. \A f \in Exports : view'[f] # None => view'[f] = view[f] /\ view[f] # None
      BY <1>1, <2>3
    <3>2. Typed' /\ Versions'
      BY <1>4, <1>5, <2>1, <2>3, <3>1 DEF Typed, Versions
    <3>3. ViewSound'
      BY <1>4, <2>1, <2>2, <3>1 DEF ViewSound
    <3> QED
      BY <1>5, <2>1, <2>3, <3>2, <3>3 DEF SoundInv, ReadSound
  <2>4. CASE /\ slots[e] # None /\ view[e] # None /\ stack' = stack
             /\ view' = [view EXCEPT ![e].type = slots[e].type]
    <3>1. view[e] \in View
      BY <1>1, <2>4
    <3>2. /\ view'[e].type = slots[e].type
          /\ view'[e].value = view[e].value /\ view'[e].dataver = view[e].dataver
          /\ \A f \in Exports : f # e => view'[f] = view[f]
      BY <1>1, <2>4, <3>1 DEF View
    <3>3. Typed' /\ Versions'
      BY <1>4, <1>5, <2>1, <2>4, <3>2 DEF Typed, Versions
    <3>4. ViewSound'
      BY <1>4, <2>1, <2>2, <2>4, <3>2 DEF ViewSound
    <3> QED
      BY <1>5, <2>1, <2>4, <3>3, <3>4 DEF SoundInv, ReadSound
  <2>5. CASE /\ view' = view
             /\ stack' = [at |-> "reading", export |-> e, dataver |-> dataver[e], old |-> None]
    <3>1. stack'.at = "reading" /\ stack'.export = e /\ stack'.dataver = dataver[e] /\ stack'.old = None
      BY <2>5
    <3>2. Typed' /\ Versions'
      BY <1>b, <1>4, <2>1, <2>5, <3>1 DEF Typed, Versions
    <3>3. ViewSound'
      BY <1>4, <2>1, <2>2, <2>5 DEF ViewSound
    <3> QED
      BY <3>1, <3>2, <3>3 DEF SoundInv, ReadSound
  <2> QED
    BY <1>13, <2>3, <2>4, <2>5 DEF ReadVersion
<1> QED
  BY <1>6, <1>7, <1>8, <1>9, <1>10, <1>11, <1>12, <1>13 DEF ThreadStep, RunStep, ControllerStep

-----------------------------------------------------------------------------
(* Reports on their way *)

LostInv == ReadCurrent /\ NothingLost

\* The slot of e shows what it showed.
SameSlot(e) ==
    /\ slots'[e] = None <=> slots[e] = None
    /\ slots[e] # None => slots'[e].type = slots[e].type /\ slots'[e].value = slots[e].value

LEMMA SameStale ==
    ASSUME NEW e \in Exports, view'[e] = view[e], SameSlot(e)
    PROVE  Stale(e)' <=> Stale(e)
BY DEF SameSlot, Stale

LEMMA OwedParts == \A e : Owed(e) <=> OwedElse(e) \/ (stack.at = "reading" /\ stack.export = e)
BY DEF Owed, OwedElse

LEMMA LostTask ==
    ASSUME TypeInv, LostInv, NEW t \in Tasks,
           \/ \E e \in Exports, value \in BOOLEAN : PushStore(t, e, value)
           \/ SetExports(t)
           \/ TaskStep(t)
    PROVE  LostInv'
<1>1. /\ TypeOK
      /\ slots \in [Exports -> Slot \cup {None}]
      /\ task \in [Tasks -> TaskState]
      /\ requested \in Nat /\ applied \in Nat /\ applied <= requested
  BY DEF TypeInv, TypeOK
<1>2. stack.at = "reading" => stack \in Reading /\ stack.export \in Exports
  BY StackShape DEF TypeInv, Reading
<1>3. ReadCurrent /\ NothingLost
  BY DEF LostInv
<1>a. ASSUME UNCHANGED <<stack, view>>,
             \A f \in Exports : OwedElse(f)' \/ (~OwedElse(f) /\ SameSlot(f))
      PROVE  LostInv'
  <2>1. ReadCurrent'
    <3> SUFFICES ASSUME stack.at = "reading", stack.old # None, ~OwedElse(stack.export)'
                 PROVE  /\ slots'[stack.export] # None
                        /\ stack.old.type = slots'[stack.export].type
                        /\ stack.old.value = slots'[stack.export].value
      BY <1>a DEF ReadCurrent
    <3>1. ~OwedElse(stack.export) /\ SameSlot(stack.export)
      BY <1>2, <1>a
    <3> QED
      BY <1>3, <3>1 DEF ReadCurrent, SameSlot
  <2>2. NothingLost'
    <3> SUFFICES ASSUME NEW f \in Exports, Stale(f)' PROVE Owed(f)'
      BY DEF NothingLost
    <3>1. CASE OwedElse(f)'
      BY <3>1 DEF Owed, OwedElse
    <3>2. CASE ~OwedElse(f) /\ SameSlot(f)
      <4>1. Stale(f)
        BY <1>a, <3>2, SameStale
      <4>2. stack.at = "reading" /\ stack.export = f
        BY <1>3, <3>2, <4>1, OwedParts DEF NothingLost
      <4> QED
        BY <1>a, <4>2 DEF Owed
    <3> QED
      BY <1>a, <3>1, <3>2
  <2> QED
    BY <2>1, <2>2 DEF LostInv
<1>4. ASSUME NEW e \in Exports, NEW value \in BOOLEAN, PushStore(t, e, value)
      PROVE  LostInv'
  <2>1. /\ task[t] = Idle
        /\ slots' = [slots EXCEPT ![e].value = value]
        /\ task' = [task EXCEPT ![t] = [at |-> "stored", export |-> e]]
        /\ UNCHANGED <<requested, applied, stack, reports, refresh, view>>
    BY <1>4 DEF PushStore, controller
  <2>2. /\ task'[t].at = "stored" /\ task'[t].export = e /\ task[t].at = "idle"
        /\ \A u \in Tasks : u # t => task'[u] = task[u]
    BY <1>1, <2>1, TaskMember
  <2>3. OwedElse(e)'
    BY <2>2 DEF OwedElse
  <2>4. ASSUME NEW f \in Exports, f # e
        PROVE  SameSlot(f) /\ (OwedElse(f) => OwedElse(f)')
    <3>1. slots'[f] = slots[f]
      BY <1>1, <2>1, <2>4
    <3> QED
      BY <2>1, <2>2, <3>1 DEF SameSlot, OwedElse
  <2> QED
    BY <1>a, <2>1, <2>3, <2>4
<1>5. ASSUME PushCount(t) PROVE LostInv'
  <2>1. /\ task[t].at = "stored"
        /\ task' = [task EXCEPT ![t].at = "counted"]
        /\ UNCHANGED <<slots, requested, applied, stack, reports, refresh, view>>
    BY <1>5 DEF PushCount, controller
  <2>2. task[t] \in Holding
    BY <1>1, <2>1, TaskShape
  <2>3. /\ task'[t].at = "counted" /\ task'[t].export = task[t].export
        /\ \A u \in Tasks : u # t => task'[u] = task[u]
    BY <1>1, <2>1, <2>2 DEF Holding
  <2>4. \A f \in Exports : SameSlot(f) /\ (OwedElse(f) => OwedElse(f)')
    BY <2>1, <2>3 DEF SameSlot, OwedElse
  <2> QED
    BY <1>a, <2>1, <2>4
<1>6. ASSUME PushMark(t) PROVE LostInv'
  <2>0. task[t].at = "counted" /\ task[t].export \in Exports /\ slots[task[t].export] \in Slot
    <3>1. task[t].at = "counted"
      BY <1>6 DEF PushMark
    <3> QED
      BY <1>1, <3>1, TaskShape DEF Holding, TypeOK
  <2>a. PICK e \in Exports : e = task[t].export
    BY <2>0
  <2>b. PICK s : s = [slots[e] EXCEPT !.pending = @ \cup {"functional"}]
    OBVIOUS
  <2>1. /\ task[t].at = "counted"
        /\ slots' = [slots EXCEPT ![e].pending = @ \cup {"functional"}]
        /\ task' = [task EXCEPT ![t] = Idle]
        /\ UNCHANGED <<requested, applied, stack, reports, refresh, view>>
    BY <1>6, <2>a DEF PushMark, controller
  <2>2. slots[e] \in Slot
    BY <2>0, <2>a
  <2>3. task'[t].at = "idle" /\ \A u \in Tasks : u # t => task'[u] = task[u]
    BY <1>1, <2>1, TaskMember
  <2>4. slots'[e] = s /\ \A f \in Exports : f # e => slots'[f] = slots[f]
    BY <1>1, <2>1, <2>2, <2>b
  <2>5. s \in Slot /\ s.pending # {}
    BY <2>2, <2>b DEF Slot, Bits
  <2>6. OwedElse(e)'
    BY <2>4, <2>5, NoneAssumption DEF OwedElse
  <2>7. ASSUME NEW f \in Exports, f # e
        PROVE  SameSlot(f) /\ (OwedElse(f) => OwedElse(f)')
    <3>1. slots'[f] = slots[f]
      BY <2>4, <2>7
    <3>2. \A u \in Tasks : task[u].export = f => u # t
      BY <2>7, <2>a
    <3> QED
      BY <2>1, <2>3, <3>1, <3>2 DEF SameSlot, OwedElse
  <2> QED
    BY <1>a, <2>1, <2>6, <2>7
<1>7. ASSUME RequestBump(t) PROVE LostInv'
  <2>1. requested' = requested + 1 /\ UNCHANGED <<applied, stack, view>>
    BY <1>7 DEF RequestBump, controller
  <2>2. requested' # applied'
    BY <1>1, <2>1
  <2>3. \A f \in Exports : OwedElse(f)'
    BY <2>2 DEF OwedElse
  <2> QED
    BY <1>a, <2>1, <2>3
<1>8. ASSUME SetExports(t) PROVE LostInv'
  <2>1. PICK types \in [Exports -> DeviceTypes \cup {None}] : Swap(t, types)
    BY <1>8 DEF SetExports
  <2>2. /\ task' = IF Surface(slots') # Surface(slots)
                  THEN [task EXCEPT ![t] = [at |-> "swapped"]] ELSE task
        /\ stack' = IF stack.at = "reading" /\ stack.old = None
                    THEN [stack EXCEPT !.old = slots[stack.export]] ELSE stack
        /\ UNCHANGED <<requested, applied, reports, refresh, view>>
    BY <2>1 DEF Swap, controller
  <2>3. Surface(slots') = Surface(slots) => slots' = slots
    BY <1>1, <2>1, SwapEffect
  <2>4. CASE Surface(slots') # Surface(slots)
    <3>1. task'[t].at = "swapped"
      BY <1>1, <2>2, <2>4
    <3>2. \A f \in Exports : OwedElse(f)'
      BY <3>1 DEF OwedElse
    <3>3. ReadCurrent'
      <4>1. stack'.at = "reading" => stack'.export \in Exports
        BY <1>2, <2>2 DEF Reading
      <4> QED
        BY <3>2, <4>1 DEF ReadCurrent
    <3>4. NothingLost'
      BY <3>2 DEF NothingLost, Owed, OwedElse
    <3> QED
      BY <3>3, <3>4 DEF LostInv
  <2>5. CASE Surface(slots') = Surface(slots)
    <3>1. UNCHANGED <<slots, task, requested, applied, reports, refresh, view>>
      BY <2>2, <2>3, <2>5
    <3>2. CASE stack.at = "reading" /\ stack.old = None
      <4>1. /\ stack' = [stack EXCEPT !.old = slots[stack.export]] /\ stack \in Reading
            /\ slots[stack.export] # None
        BY <1>2, <2>2, <3>2 DEF TypeInv
      <4>2. /\ stack'.at = "reading" /\ stack'.export = stack.export
            /\ stack'.old = slots[stack.export]
        BY <4>1, <3>2 DEF Reading
      <4>3. \A f \in Exports : OwedElse(f)' <=> OwedElse(f)
        BY <3>1, <3>2, <4>2 DEF OwedElse
      <4>4. NothingLost'
        BY <1>3, <3>1, <3>2, <4>2, <4>3 DEF NothingLost, Owed, OwedElse, Stale
      <4>5. ReadCurrent'
        BY <3>1, <4>1, <4>2 DEF ReadCurrent
      <4> QED
        BY <4>4, <4>5 DEF LostInv
    <3>3. CASE ~(stack.at = "reading" /\ stack.old = None)
      <4>1. stack' = stack
        BY <2>2, <3>3
      <4>2. \A f \in Exports : SameSlot(f) /\ (OwedElse(f) => OwedElse(f)')
        BY <3>1, <4>1 DEF SameSlot, OwedElse
      <4> QED
        BY <1>a, <3>1, <4>1, <4>2
    <3> QED
      BY <3>2, <3>3
  <2> QED
    BY <2>4, <2>5
<1> QED
  BY <1>4, <1>5, <1>6, <1>7, <1>8 DEF TaskStep

LEMMA LostThread == ASSUME TypeInv, ViewSound, LostInv, ThreadStep PROVE LostInv'
<1>1. /\ TypeOK
      /\ slots \in [Exports -> Slot \cup {None}]
      /\ view \in [Exports -> View \cup {None}]
      /\ reports \subseteq Exports /\ refresh \subseteq Exports
  BY DEF TypeInv, TypeOK
<1>2. stack.at = "reading" => stack \in Reading /\ stack.export \in Exports
  BY StackShape DEF TypeInv, Reading
<1>3. ReadCurrent /\ NothingLost
  BY DEF LostInv
<1>4. Waiting.at = "wait"
  BY StackMember
<1>a. ASSUME stack'.at # "reading",
             \A f \in Exports :
                Owed(f)' \/ ~Stale(f)' \/ (~Owed(f) /\ view'[f] = view[f] /\ SameSlot(f))
      PROVE  LostInv'
  <2>1. ReadCurrent'
    BY <1>a DEF ReadCurrent
  <2>2. ASSUME NEW f \in Exports, Stale(f)', ~Owed(f)' PROVE FALSE
    BY <1>3, <1>a, <2>2, SameStale DEF NothingLost
  <2>3. NothingLost'
    BY <2>2 DEF NothingLost
  <2> QED
    BY <2>1, <2>3 DEF LostInv
<1>5. ASSUME Wake \/ BumpFails \/ LoadConfig PROVE LostInv'
  <2>1. /\ UNCHANGED <<slots, requested, applied, task, reports, refresh, view>>
        /\ stack.at \in {"wait", "config", "bump"} /\ stack'.at \in {"config", "drain", "bump"}
    BY <1>4, <1>5 DEF Wake, BumpFails, LoadConfig, controller
  <2>2. \A f \in Exports : SameSlot(f) /\ (Owed(f) => Owed(f)')
    BY <2>1 DEF SameSlot, Owed
  <2> QED
    BY <1>a, <2>1, <2>2
<1>6. ASSUME Bump PROVE LostInv'
  <2>1. refresh' = Exports /\ stack'.at = "config"
    BY <1>6 DEF Bump
  <2>2. \A f \in Exports : Owed(f)'
    BY <2>1 DEF Owed
  <2> QED
    BY <1>a, <2>1, <2>2
<1>7. ASSUME DrainReports PROVE LostInv'
  <2>1. /\ stack.at = "drain"
        /\ slots' = [e \in Exports |->
              IF slots[e] = None THEN None ELSE [slots[e] EXCEPT !.pending = {}]]
        /\ stack' = [at |-> "notify", functional |-> Pending("functional"),
                    descriptor |-> Pending("descriptor")]
        /\ UNCHANGED <<requested, applied, task, reports, refresh, view>>
    BY <1>7 DEF DrainReports, controller
  <2>2. /\ stack'.at = "notify" /\ stack'.functional = Pending("functional")
        /\ stack'.descriptor = Pending("descriptor")
    BY <2>1
  <2>3. ASSUME NEW f \in Exports
        PROVE  SameSlot(f) /\ (Owed(f) => Owed(f)')
    <3>1. SameSlot(f)
      <4>1. CASE slots[f] = None
        BY <2>1, <4>1 DEF SameSlot
      <4>2. CASE slots[f] # None
        <5>1. /\ [slots[f] EXCEPT !.pending = {}] \in Slot
              /\ [slots[f] EXCEPT !.pending = {}].type = slots[f].type
              /\ [slots[f] EXCEPT !.pending = {}].value = slots[f].value
          BY <1>1, <4>2 DEF Slot
        <5> QED
          BY <2>1, <4>2, <5>1, NoneAssumption DEF SameSlot
      <4> QED
        BY <4>1, <4>2
    <3>2. ASSUME slots[f] # None, slots[f].pending # {}
          PROVE  f \in stack'.functional \cup stack'.descriptor
      <4>1. slots[f].pending \in SUBSET {"functional", "descriptor"}
        BY <1>1, <3>2 DEF Slot, Bits
      <4> QED
        BY <2>2, <3>2, <4>1 DEF Pending
    <3> QED
      BY <2>1, <2>2, <3>1, <3>2 DEF Owed
  <2> QED
    BY <1>a, <2>1, <2>2, <2>3
<1>8. ASSUME Notify PROVE LostInv'
  <2>1. /\ stack.at = "notify"
        /\ reports' = reports \cup stack.functional
        /\ refresh' = refresh \cup stack.descriptor
        /\ stack' = Waiting
        /\ UNCHANGED <<slots, requested, applied, task, view>>
    BY <1>8 DEF Notify
  <2>2. \A f \in Exports : SameSlot(f) /\ (Owed(f) => Owed(f)')
    BY <1>4, <2>1 DEF SameSlot, Owed
  <2> QED
    BY <1>4, <1>a, <2>1, <2>2
<1>9. ASSUME TakeCommands PROVE LostInv'
  <2>1. UNCHANGED <<slots, requested, applied, task, stack, reports, refresh, view>>
    BY <1>9 DEF TakeCommands, controller
  <2>2. ReadCurrent'
    BY <1>3, <2>1 DEF ReadCurrent, OwedElse
  <2>3. NothingLost'
    BY <1>3, <2>1 DEF NothingLost, Stale, Owed
  <2> QED
    BY <2>2, <2>3 DEF LostInv
<1>10. ASSUME NEW e \in Exports, NEW value \in BOOLEAN, Command(e, value) PROVE LostInv'
  <2>1. /\ stack = Waiting
        /\ slots' = [slots EXCEPT ![e].value = value]
        /\ stack'.at = "commanding" /\ stack'.export = e
        /\ UNCHANGED <<requested, applied, task, reports, refresh, view>>
    BY <1>10 DEF Command, controller
  <2>2. Owed(e)'
    BY <2>1 DEF Owed
  <2>3. ASSUME NEW f \in Exports, f # e
        PROVE  SameSlot(f) /\ (Owed(f) => Owed(f)')
    <3>1. slots'[f] = slots[f]
      BY <1>1, <2>1, <2>3
    <3> QED
      BY <1>4, <2>1, <3>1 DEF SameSlot, Owed
  <2> QED
    BY <1>a, <2>1, <2>2, <2>3
<1>11. ASSUME QueueCommand PROVE LostInv'
  <2>1. /\ stack.at = "commanding" /\ stack' = [stack EXCEPT !.at = "commanded"]
        /\ UNCHANGED <<slots, requested, applied, task, reports, refresh, view>>
    BY <1>11 DEF QueueCommand, controller
  <2>2. stack'.at = "commanded" /\ stack'.export = stack.export
    BY <2>1, StackShape DEF TypeInv, Commanding
  <2>3. \A f \in Exports : SameSlot(f) /\ (Owed(f) => Owed(f)')
    BY <2>1, <2>2 DEF SameSlot, Owed
  <2> QED
    BY <1>a, <2>1, <2>2, <2>3
<1>12. ASSUME NotifyOwn PROVE LostInv'
  <2>1. /\ stack.at = "commanded" /\ stack' = Waiting
        /\ reports' = reports \cup {stack.export}
        /\ UNCHANGED <<slots, requested, applied, task, refresh, view>>
    BY <1>12 DEF NotifyOwn
  <2>2. \A f \in Exports : SameSlot(f) /\ (Owed(f) => Owed(f)')
    BY <1>4, <2>1 DEF SameSlot, Owed
  <2> QED
    BY <1>4, <1>a, <2>1, <2>2
<1>13. ASSUME ReadValue PROVE LostInv'
  <2>0. stack.at = "reading"
    BY <1>13 DEF ReadValue
  <2>a. PICK e \in Exports : e = stack.export
    BY <1>2, <2>0
  <2>b. PICK slot : slot = (IF stack.old = None THEN slots[e] ELSE stack.old)
    OBVIOUS
  <2>1. /\ stack.at = "reading"
        /\ view' = [view EXCEPT ![e] =
                     [type |-> slot.type, value |-> slot.value, dataver |-> stack.dataver]]
        /\ stack' = Waiting
        /\ UNCHANGED <<slots, requested, applied, task, reports, refresh>>
    BY <1>13, <2>a, <2>b DEF ReadValue
  <2>2. stack.dataver \in Nat /\ slot \in Slot
    BY <1>1, <1>2, <2>1, <2>a, <2>b DEF TypeInv, Reading
  <2>3. ~OwedElse(e) =>
            slots[e] # None /\ slot.type = slots[e].type /\ slot.value = slots[e].value
    BY <1>3, <2>1, <2>a, <2>b DEF ReadCurrent, TypeInv
  <2>4. /\ view'[e] = [type |-> slot.type, value |-> slot.value, dataver |-> stack.dataver]
        /\ \A f \in Exports : f # e => view'[f] = view[f]
    BY <1>1, <2>1, <2>2
  <2>5. view'[e] # None /\ view'[e].type = slot.type /\ view'[e].value = slot.value
    <3>1. view'[e] \in View
      BY <2>2, <2>4 DEF View, Slot
    <3> QED
      BY <2>4, <3>1, NoneAssumption
  <2>6. \A f \in Exports : OwedElse(f) => Owed(f)'
    BY <1>4, <2>1 DEF OwedElse, Owed
  <2>7. ~OwedElse(e) => ~Stale(e)'
    BY <2>1, <2>3, <2>5 DEF Stale
  <2>8. \A f \in Exports : f # e => SameSlot(f) /\ (Owed(f) => OwedElse(f))
    BY <2>1, <2>a, OwedParts DEF SameSlot
  <2> QED
    BY <1>4, <1>a, <2>1, <2>4, <2>6, <2>7, <2>8
<1>14. ASSUME NEW e \in Exports, ReadVersion(e) PROVE LostInv'
  <2>1. /\ stack = Waiting /\ reports' = reports \ {e} /\ refresh' = refresh \ {e}
        /\ UNCHANGED <<slots, requested, applied, task>>
    BY <1>14 DEF ReadVersion
  <2>2. stack' = Waiting \/ (stack'.at = "reading" /\ stack'.export = e /\ stack'.old = None)
    BY <1>14, <2>1 DEF ReadVersion
  <2>3. \A f \in Exports : f # e => view'[f] = view[f]
    BY <1>1, <1>14 DEF ReadVersion
  <2>4. \A f \in Exports : f # e => SameSlot(f) /\ (Owed(f) => Owed(f)')
    BY <1>4, <2>1 DEF SameSlot, Owed
  <2>5. Owed(e)' \/ ~Stale(e)'
    <3>1. CASE stack'.at = "reading"
      BY <1>4, <2>2, <3>1 DEF Owed
    <3>2. CASE slots[e] = None
      <4>1. view'[e] = None
        BY <1>1, <1>14, <3>2 DEF ReadVersion
      <4> QED
        BY <2>1, <3>2, <4>1 DEF Stale
    <3>3. CASE /\ slots[e] # None /\ view[e] # None /\ view[e].dataver = dataver[e]
               /\ view' = [view EXCEPT ![e].type = slots[e].type]
      <4>1. view[e] \in View
        BY <1>1, <3>3
      <4>2. [view[e] EXCEPT !.type = slots[e].type] \in View
        BY <1>1, <3>3, <4>1 DEF View, Slot
      <4>3. view'[e] # None /\ view'[e].type = slots[e].type /\ view'[e].value = view[e].value
        <5>1. view'[e] = [view[e] EXCEPT !.type = slots[e].type]
          BY <1>1, <3>3
        <5> QED
          BY <4>1, <4>2, <5>1, NoneAssumption DEF View
      <4>4. CASE Counting(e)
        BY <1>4, <2>1, <4>4 DEF Counting, Owed
      <4>5. CASE ~Counting(e)
        <5>1. view[e].value = slots[e].value
          BY <3>3, <4>5 DEF ViewSound
        <5> QED
          BY <2>1, <3>3, <4>3, <5>1 DEF Stale
      <4> QED
        BY <4>4, <4>5
    <3> QED
      BY <1>14, <3>1, <3>2, <3>3 DEF ReadVersion
  <2>6. NothingLost'
    <3> SUFFICES ASSUME NEW f \in Exports, f # e, Stale(f)' PROVE Owed(f)'
      BY <2>5 DEF NothingLost
    <3> QED
      BY <1>3, <2>3, <2>4, SameStale DEF NothingLost
  <2>7. ReadCurrent'
    BY <1>4, <2>2 DEF ReadCurrent
  <2> QED
    BY <2>6, <2>7 DEF LostInv
<1> QED
  BY <1>5, <1>6, <1>7, <1>8, <1>9, <1>10, <1>11, <1>12, <1>13, <1>14
     DEF ThreadStep, RunStep, ControllerStep

-----------------------------------------------------------------------------
(* The theorems for exports that keep their cluster *)

LEMMA InitInv == Init => IInv
<1> SUFFICES ASSUME Init PROVE IInv
  OBVIOUS
<1>1. TypeInv
  BY TypeInit
<1>2. /\ \A e \in Exports : slots[e] = None /\ view[e] = None
      /\ stack.at = "wait"
  BY StackMember DEF Init
<1>3. Typed /\ Versions /\ ViewSound /\ ReadSound /\ ReadCurrent
  BY <1>2 DEF Typed, Versions, ViewSound, ReadSound, ReadCurrent
<1>4. NothingLost
  BY <1>2 DEF NothingLost, Stale
<1> QED
  BY <1>1, <1>3, <1>4 DEF IInv

LEMMA StepInv == WithinKind => (IInv /\ [Next]_vars => IInv')
<1> SUFFICES ASSUME WithinKind, IInv, [Next]_vars PROVE IInv'
  OBVIOUS
<1>1. TypeInv /\ SoundInv /\ ViewSound /\ LostInv
  BY DEF IInv, SoundInv, LostInv
<1>2. ASSUME UNCHANGED vars PROVE SoundInv' /\ LostInv'
  <2>1. UNCHANGED <<slots, dataver, requested, applied, task, stack, reports, refresh, view>>
    BY <1>2 DEF vars, controller
  <2>2. \A e : /\ Counting(e)' = Counting(e) /\ OwedElse(e)' = OwedElse(e)
               /\ Owed(e)' = Owed(e) /\ Stale(e)' = Stale(e)
    BY <2>1 DEF Counting, OwedElse, Owed, Stale
  <2>3. SoundInv'
    BY <1>1, <2>1, <2>2 DEF SoundInv, Typed, Versions, ViewSound, ReadSound
  <2>4. LostInv'
    BY <1>1, <2>1, <2>2 DEF LostInv, ReadCurrent, NothingLost
  <2> QED
    BY <2>3, <2>4
<1>3. SoundInv' /\ LostInv'
  BY <1>1, <1>2, NextCases, SoundTask, SoundThread, LostTask, LostThread
<1> QED
  BY <1>1, <1>3, TypeStep DEF IInv, SoundInv, LostInv

LEMMA Invariance == ASSUME WithinKind PROVE Spec => []IInv
BY InitInv, StepInv, PTL DEF Spec

\* While exports keep their cluster a data version stands for one value, however
\* pushes, commands, rebuilds and reads interleave (mark_functional_changed counts
\* after the store, a read takes the version before the value).
THEOREM VersionsSound == ASSUME WithinKind PROVE Spec => []DataVersionSound
<1>1. IInv => DataVersionSound
  <2> SUFFICES ASSUME ViewSound PROVE DataVersionSound
    BY DEF IInv
  <2>1. \A e \in Exports : Counting(e) => Uncounted(e)
    BY DEF Counting, Uncounted
  <2> QED
    BY <2>1 DEF ViewSound, DataVersionSound
<1> QED
  BY <1>1, Invariance, PTL

\* And then no change gets lost on its way to a controller: what it does not
\* have yet is marked, drained, requested or being read (drain_reports,
\* maybe_bump_configuration_version).
THEOREM NoChangeLost == ASSUME WithinKind PROVE Spec => []NothingLost
<1>1. IInv => NothingLost
  BY DEF IInv
<1> QED
  BY <1>1, Invariance, PTL

-----------------------------------------------------------------------------
(* What steps do to the table and to the views *)

\* The table changes, but no slot its type and its value without a new version
\* and nobody counting.
TableStep ==
    /\ view' = view
    /\ \A e \in Exports :
          /\ dataver'[e] \in Nat /\ dataver[e] <= dataver'[e]
          /\ slots'[e] # None => slots[e] # None \/ dataver'[e] > dataver[e]
          /\ slots[e] # None /\ slots'[e] # None =>
                \/ slots'[e].type = slots[e].type
                \/ slots'[e].value = slots[e].value /\ ~Counting(e)
    /\ stack'.at = "reading" /\ stack'.old # None =>
          \/ stack' = stack
          \/ /\ stack.at = "reading" /\ stack'.export = stack.export
             /\ stack'.dataver = stack.dataver
             /\ slots[stack.export] # None /\ stack'.old = slots[stack.export]
             /\ slots'[stack.export] # None =>
                   slots'[stack.export].value = slots[stack.export].value

\* The controller is shown export e.
Shows(e) ==
    \/ view' = view
    \/ slots[e] = None /\ view' = [view EXCEPT ![e] = None]
    \/ /\ slots[e] # None /\ view[e] # None /\ view[e].dataver = dataver[e]
       /\ view' = [view EXCEPT ![e].type = slots[e].type]
    \/ /\ stack.at = "reading" /\ stack.export = e
       /\ \E slot \in Slot :
             /\ slot = (IF stack.old = None THEN slots[e] ELSE stack.old)
             /\ view' = [view EXCEPT ![e] = [type |-> slot.type, value |-> slot.value,
                                             dataver |-> stack.dataver]]

ViewStep(e) ==
    /\ UNCHANGED <<slots, dataver>>
    /\ stack'.at = "reading" => stack'.old = None
    /\ Shows(e)

LEMMA TableTask ==
    ASSUME WithinKind, IInv, NEW t \in Tasks,
           \/ \E e \in Exports, value \in BOOLEAN : PushStore(t, e, value)
           \/ SetExports(t)
           \/ TaskStep(t)
    PROVE  TableStep
<1>1. /\ TypeOK /\ TypeInv /\ Typed
      /\ slots \in [Exports -> Slot \cup {None}] /\ dataver \in [Exports -> Nat]
      /\ task \in [Tasks -> TaskState]
  BY DEF IInv, TypeInv, TypeOK
<1>2. stack.at = "reading" => stack \in Reading /\ stack.export \in Exports
  BY <1>1, StackShape DEF TypeInv, Reading
<1>3. \A e \in Exports : dataver[e] <= dataver[e] /\ dataver[e] \in Nat
  <2>1. \A n \in Nat : n <= n
    OBVIOUS
  <2> QED
    BY <1>1, <2>1
\* No slot comes, goes or changes its type.
<1>a. ASSUME UNCHANGED <<stack, view>>,
             \A e \in Exports : slots'[e] # None <=> slots[e] # None,
             \A e \in Exports : slots[e] # None => slots'[e].type = slots[e].type,
             \A e \in Exports : dataver'[e] \in Nat /\ dataver[e] <= dataver'[e]
      PROVE  TableStep
  BY <1>a DEF TableStep
<1>4. ASSUME NEW e \in Exports, NEW value \in BOOLEAN, PushStore(t, e, value)
      PROVE  TableStep
  <2>1. /\ slots[e] # None
        /\ slots' = [slots EXCEPT ![e].value = value]
        /\ UNCHANGED <<dataver, stack, view>>
    BY <1>4 DEF PushStore, controller
  <2>2. /\ [slots[e] EXCEPT !.value = value] \in Slot
        /\ [slots[e] EXCEPT !.value = value].type = slots[e].type
        /\ slots'[e] = [slots[e] EXCEPT !.value = value]
        /\ \A f \in Exports : f # e => slots'[f] = slots[f]
    BY <1>1, <2>1 DEF Slot
  <2>3. slots'[e] # None /\ slots'[e].type = slots[e].type
    BY <2>2, NoneAssumption
  <2> QED
    BY <1>3, <1>a, <2>1, <2>2, <2>3
<1>5. ASSUME PushCount(t) PROVE TableStep
  <2>1. PICK e \in Exports : e = task[t].export
    BY <1>1, <1>5, TaskShape DEF PushCount, Holding
  <2>2. dataver' = [dataver EXCEPT ![e] = @ + 1] /\ UNCHANGED <<slots, stack, view>>
    BY <1>5, <2>1 DEF PushCount, controller
  <2>3. \A f \in Exports : dataver'[f] \in Nat /\ dataver[f] <= dataver'[f]
    BY <1>1, <2>2
  <2> QED
    BY <1>a, <2>2, <2>3
<1>6. ASSUME PushMark(t) PROVE TableStep
  <2>1. PICK e \in Exports : e = task[t].export /\ slots[e] \in Slot
    BY <1>1, <1>6, TaskShape DEF PushMark, Holding, TypeOK
  <2>2. /\ slots' = [slots EXCEPT ![e].pending = @ \cup {"functional"}]
        /\ UNCHANGED <<dataver, stack, view>>
    BY <1>6, <2>1 DEF PushMark, controller
  <2>3. PICK s : s = [slots[e] EXCEPT !.pending = @ \cup {"functional"}]
    OBVIOUS
  <2>4. s \in Slot /\ s.type = slots[e].type
    BY <2>1, <2>3 DEF Slot, Bits
  <2>5. slots'[e] = s /\ \A f \in Exports : f # e => slots'[f] = slots[f]
    BY <1>1, <2>2, <2>3
  <2>6. slots'[e] # None /\ slots[e] # None
    BY <2>1, <2>4, <2>5, NoneAssumption
  <2> QED
    BY <1>3, <1>a, <2>2, <2>4, <2>5, <2>6
<1>7. ASSUME RequestBump(t) PROVE TableStep
  <2>1. UNCHANGED <<slots, dataver, stack, view>>
    BY <1>7 DEF RequestBump, controller
  <2> QED
    BY <1>3, <1>a, <2>1
<1>8. ASSUME SetExports(t) PROVE TableStep
  <2>1. PICK types \in [Exports -> DeviceTypes \cup {None}] :
            (\A e \in Exports : types[e] \in TypesOf[e] \cup {None}) /\ Swap(t, types)
    BY <1>8 DEF SetExports
  <2>2. /\ ~ReadLocked
        /\ dataver' = [e \in Exports |->
               IF slots[e] = None /\ slots'[e] # None THEN dataver[e] + 1 ELSE dataver[e]]
        /\ stack' = IF stack.at = "reading" /\ stack.old = None
                    THEN [stack EXCEPT !.old = slots[stack.export]] ELSE stack
        /\ view' = view
    BY <2>1 DEF Swap, controller
  <2>3. /\ \A e \in Exports : types[e] = None => slots'[e] = None
        /\ \A e \in Exports : types[e] # None =>
                 /\ slots'[e].type = types[e]
                 /\ slots[e] # None /\ Kind(slots[e].type) = Kind(types[e]) =>
                       slots'[e].value = slots[e].value
    BY <1>1, <2>1, SwapEffect
  <2>4. ASSUME NEW e \in Exports, slots[e] # None, slots'[e] # None
        PROVE  slots'[e].value = slots[e].value
    <3>1. slots[e].type \in TypesOf[e] /\ types[e] # None /\ types[e] \in TypesOf[e]
      BY <1>1, <2>1, <2>3, <2>4 DEF Typed
    <3>2. Kind(slots[e].type) = Kind(types[e])
      BY <3>1 DEF WithinKind
    <3> QED
      BY <2>3, <2>4, <3>1, <3>2
  <2>5. \A e \in Exports : ~Counting(e)
    BY <2>2 DEF ReadLocked, Counting
  <2>6. \A e \in Exports :
          /\ dataver'[e] \in Nat /\ dataver[e] <= dataver'[e]
          /\ slots'[e] # None => slots[e] # None \/ dataver'[e] > dataver[e]
    BY <1>1, <2>2
  <2>7. stack'.at = "reading" /\ stack'.old # None =>
          \/ stack' = stack
          \/ /\ stack.at = "reading" /\ stack'.export = stack.export
             /\ stack'.dataver = stack.dataver
             /\ slots[stack.export] # None /\ stack'.old = slots[stack.export]
    BY <1>1, <1>2, <2>2 DEF TypeInv, Reading
  <2> QED
    BY <1>2, <2>2, <2>4, <2>5, <2>6, <2>7 DEF TableStep
<1> QED
  BY <1>4, <1>5, <1>6, <1>7, <1>8 DEF TaskStep

LEMMA ThreadKinds ==
    ASSUME IInv, ThreadStep
    PROVE  TableStep \/ \E e \in Exports : ViewStep(e)
<1>1. /\ TypeOK /\ TypeInv
      /\ slots \in [Exports -> Slot \cup {None}] /\ dataver \in [Exports -> Nat]
      /\ view \in [Exports -> View \cup {None}]
  BY DEF IInv, TypeInv, TypeOK
<1>2. stack.at = "reading" => stack \in Reading /\ stack.export \in Exports
  BY <1>1, StackShape DEF TypeInv, Reading
<1>3. \A e \in Exports : dataver[e] <= dataver[e] /\ dataver[e] \in Nat
  <2>1. \A n \in Nat : n <= n
    OBVIOUS
  <2> QED
    BY <1>1, <2>1
<1>4. Waiting.at = "wait"
  BY StackMember
<1>a. ASSUME view' = view, stack' = stack \/ stack'.at # "reading",
             \A e \in Exports : slots'[e] # None <=> slots[e] # None,
             \A e \in Exports : slots[e] # None => slots'[e].type = slots[e].type,
             \A e \in Exports : dataver'[e] \in Nat /\ dataver[e] <= dataver'[e]
      PROVE  TableStep
  BY <1>a DEF TableStep
<1>5. ASSUME Wake \/ BumpFails \/ LoadConfig \/ Bump \/ TakeCommands PROVE TableStep
  <2>1. /\ UNCHANGED <<slots, dataver, view>>
        /\ stack' = stack \/ stack'.at \in {"config", "drain", "bump"}
    BY <1>5 DEF Wake, BumpFails, LoadConfig, Bump, TakeCommands, controller
  <2> QED
    BY <1>3, <1>a, <2>1
<1>6. ASSUME DrainReports PROVE TableStep
  <2>1. /\ stack'.at = "notify"
        /\ slots' = [e \in Exports |->
              IF slots[e] = None THEN None ELSE [slots[e] EXCEPT !.pending = {}]]
        /\ UNCHANGED <<dataver, view>>
    BY <1>6 DEF DrainReports, controller
  <2>2. \A e \in Exports : slots[e] # None =>
            /\ [slots[e] EXCEPT !.pending = {}] \in Slot
            /\ [slots[e] EXCEPT !.pending = {}].type = slots[e].type
    BY <1>1 DEF Slot
  <2>3. \A e \in Exports : slots'[e] # None <=> slots[e] # None
    BY <2>1, <2>2, NoneAssumption
  <2> QED
    BY <1>3, <1>a, <2>1, <2>2, <2>3
<1>7. ASSUME Notify \/ NotifyOwn PROVE TableStep
  <2>1. UNCHANGED <<slots, view>> /\ stack'.at = "wait"
    BY <1>4, <1>7 DEF Notify, NotifyOwn
  <2>2. \E changed \in SUBSET Exports : dataver' = Bumped(changed)
    <3>1. CASE Notify
      BY <1>1, <3>1, StackShape DEF Notify, TypeInv
    <3>2. CASE NotifyOwn
      <4>1. {stack.export} \in SUBSET Exports
        BY <1>1, <3>2, StackShape DEF NotifyOwn, TypeInv, Commanding
      <4> QED
        BY <3>2, <4>1 DEF NotifyOwn
    <3> QED
      BY <1>7, <3>1, <3>2
  <2>3. \A e \in Exports : dataver[e] <= dataver'[e] /\ dataver'[e] \in Nat
    BY <1>1, <2>2, Counted
  <2> QED
    BY <1>a, <2>1, <2>3
<1>8. ASSUME NEW e \in Exports, NEW value \in BOOLEAN, Command(e, value) PROVE TableStep
  <2>1. /\ slots[e] # None
        /\ slots' = [slots EXCEPT ![e].value = value]
        /\ stack'.at = "commanding" /\ UNCHANGED <<dataver, view>>
    BY <1>8 DEF Command, controller
  <2>2. /\ [slots[e] EXCEPT !.value = value] \in Slot
        /\ [slots[e] EXCEPT !.value = value].type = slots[e].type
        /\ slots'[e] = [slots[e] EXCEPT !.value = value]
        /\ \A f \in Exports : f # e => slots'[f] = slots[f]
    BY <1>1, <2>1 DEF Slot
  <2>3. slots'[e] # None /\ slots'[e].type = slots[e].type
    BY <2>2, NoneAssumption
  <2> QED
    BY <1>3, <1>a, <2>1, <2>2, <2>3
<1>9. ASSUME QueueCommand PROVE TableStep
  <2>1. PICK e \in Exports : e = stack.export
    BY <1>1, <1>9, StackShape DEF QueueCommand, TypeInv, Commanding
  <2>2. /\ dataver' \in {dataver, [dataver EXCEPT ![e] = @ + 1]}
        /\ UNCHANGED <<slots, view>>
    BY <1>9, <2>1 DEF QueueCommand, controller
  <2>3. stack'.at = "commanded"
    BY <1>1, <1>9, StackShape DEF QueueCommand, TypeInv, Commanding
  <2>4. \A f \in Exports : [dataver EXCEPT ![e] = @ + 1][f] \in Nat
                           /\ dataver[f] <= [dataver EXCEPT ![e] = @ + 1][f]
    BY <1>1
  <2>5. \A f \in Exports : dataver'[f] \in Nat /\ dataver[f] <= dataver'[f]
    BY <1>3, <2>2, <2>4
  <2> QED
    BY <1>a, <2>2, <2>3, <2>5
<1>10. ASSUME ReadValue PROVE \E e \in Exports : ViewStep(e)
  <2>1. PICK e \in Exports : e = stack.export
    BY <1>2, <1>10 DEF ReadValue
  <2>2. PICK slot : slot = (IF stack.old = None THEN slots[e] ELSE stack.old)
    OBVIOUS
  <2>3. slot \in Slot
    BY <1>1, <1>2, <1>10, <2>1, <2>2 DEF ReadValue, TypeInv, Reading
  <2>4. /\ stack.at = "reading" /\ stack.export = e
        /\ view' = [view EXCEPT ![e] = [type |-> slot.type, value |-> slot.value,
                                        dataver |-> stack.dataver]]
    BY <1>10, <2>1, <2>2 DEF ReadValue
  <2>5. Shows(e)
    BY <2>2, <2>3, <2>4 DEF Shows
  <2>6. UNCHANGED <<slots, dataver>> /\ stack'.at = "wait"
    BY <1>4, <1>10 DEF ReadValue
  <2> QED
    BY <2>5, <2>6 DEF ViewStep
<1>11. ASSUME NEW e \in Exports, ReadVersion(e) PROVE ViewStep(e)
  <2>1. UNCHANGED <<slots, dataver>> /\ stack = Waiting
    BY <1>11 DEF ReadVersion
  <2>2. stack'.at = "reading" => stack'.old = None
    <3>1. stack' = Waiting \/ stack'.old = None
      BY <1>11, <2>1 DEF ReadVersion
    <3> QED
      BY <1>4, <3>1
  <2>3. Shows(e)
    BY <1>11 DEF ReadVersion, Shows
  <2> QED
    BY <2>1, <2>2, <2>3 DEF ViewStep
<1> QED
  BY <1>5, <1>6, <1>7, <1>8, <1>9, <1>10, <1>11 DEF ThreadStep, RunStep, ControllerStep

LEMMA StepKinds ==
    ASSUME WithinKind, IInv, [Next]_vars
    PROVE  TableStep \/ (\E e \in Exports : ViewStep(e)) \/ UNCHANGED vars
BY NextCases, TableTask, ThreadKinds

-----------------------------------------------------------------------------
(* Sequences of states *)

LEMMA GrownEffect ==
    ASSUME NEW S, NEW s \in Seq(S), Len(s) >= 1, NEW x \in S
    PROVE  /\ Views!Grown(s, x) \in Seq(S)
           /\ Len(Views!Grown(s, x)) >= Len(s)
           /\ \A i \in 1 .. Len(s) : Views!Grown(s, x)[i] = s[i]
           /\ Views!Grown(s, x)[Len(Views!Grown(s, x))] = x
           /\ s[Len(s)] = x => Views!Grown(s, x) = s
<1>1. Len(s) \in Nat
  BY LenProperties
<1>2. CASE s[Len(s)] = x
  BY <1>1, <1>2 DEF Views!Grown
<1>3. CASE s[Len(s)] # x
  BY <1>1, <1>3, AppendProperties DEF Views!Grown
<1> QED
  BY <1>2, <1>3

LEMMA FromEffect ==
    ASSUME NEW S, NEW s \in Seq(S), NEW n \in 1 .. Len(s)
    PROVE  /\ Views!From(s, n) \in Seq(S)
           /\ Len(Views!From(s, n)) = Len(s) - n + 1
           /\ \A i \in 1 .. Len(s) - n + 1 : Views!From(s, n)[i] = s[n + i - 1]
<1>1. Len(s) \in Nat
  BY LenProperties
<1>2. \A i \in n .. Len(s) : s[i] \in S
  BY <1>1, ElementOfSeq
<1> QED
  BY <1>1, <1>2, SubSeqProperties DEF Views!From

\* A set of natural numbers has a smallest one.
LEMMA Smallest ==
    ASSUME NEW T \in SUBSET Nat, T # {}
    PROVE  \E x \in T : \A y \in T : x <= y
<1> DEFINE R == StrictSubsetOrdering(Nat)
           below == {0 .. x : x \in T}
<1>1. IsWellFoundedOn(R, FiniteSubsetsOf(Nat))
  BY FS_StrictSubsetOrderingWellFounded
<1>2. below \subseteq FiniteSubsetsOf(Nat) /\ below # {}
  <2>1. \A x \in T : IsFiniteSet(0 .. x) /\ 0 .. x \in SUBSET Nat
    BY FS_Interval
  <2> QED
    BY <2>1 DEF FiniteSubsetsOf
<1> HIDE DEF R, below
<1>3. PICK b \in below : \A c \in below : ~(<<c, b>> \in R)
  BY <1>1, <1>2, WFMin
<1>4. PICK x \in T : b = 0 .. x
  BY DEF below
<1>5. ASSUME NEW y \in T, y < x PROVE FALSE
  <2>1. 0 .. y \in below
    BY DEF below
  <2>2. 0 .. y \subseteq 0 .. x /\ 0 .. y # 0 .. x
    BY <1>5
  <2>3. <<0 .. y, b>> \in R
    BY <1>4, <2>2 DEF R, StrictSubsetOrdering
  <2> QED
    BY <1>3, <2>1, <2>3
<1> QED
  BY <1>5

\* What is taken is a first occurrence of something in the sequence.
LEMMA FollowedEffect ==
    ASSUME NEW S, NEW s \in Seq(S), NEW k \in 1 .. Len(s), NEW x, s[k] = x
    PROVE  \E n \in 1 .. k : s[n] = x /\ Followed(s, x) = Views!From(s, n)
<1> DEFINE places == {i \in DOMAIN s : s[i] = x}
<1>1. Len(s) \in Nat /\ DOMAIN s = 1 .. Len(s)
  BY LenProperties
<1>2. k \in places /\ places \in SUBSET Nat
  BY <1>1
<1>3. \E n \in places : \A j \in places : n <= j
  BY <1>2, Smallest
<1>4. PICK n : n = CHOOSE i \in places : \A j \in places : i <= j
  OBVIOUS
<1>5. n \in places /\ \A j \in places : n <= j
  BY <1>3, <1>4
<1>6. Followed(s, x) = Views!From(s, n)
  BY <1>2, <1>4 DEF Followed
<1>7. n \in 1 .. k /\ s[n] = x
  BY <1>1, <1>2, <1>5
<1> QED
  BY <1>6, <1>7

-----------------------------------------------------------------------------
(* What a controller is shown one after the other *)

Known == State \cup {None}

\* The states ahead lead from the one shown to that of the table ...
Leading(e) ==
    /\ Len(ahead[e]) >= 1
    /\ ahead[e][1] = StateOf(view[e])
    /\ ahead[e][Len(ahead[e])] = StateOf(slots[e])

\* ... among them what "unchanged" would make of the view ...
Repeated(e) ==
    view[e] # None /\ slots[e] # None /\ view[e].dataver = dataver[e] =>
        \E k \in 1 .. Len(ahead[e]) :
            ahead[e][k] = [type |-> slots[e].type, value |-> view[e].value]

\* ... and what a read found before the slot was replaced, with what "unchanged"
\* would make of that behind it.
ReadAhead ==
    stack.at = "reading" /\ stack.old # None =>
        \E k \in 1 .. Len(ahead[stack.export]) :
            /\ ahead[stack.export][k] = StateOf(stack.old)
            /\ slots[stack.export] # None /\ stack.dataver = dataver[stack.export] =>
                  \E j \in k .. Len(ahead[stack.export]) :
                      ahead[stack.export][j] =
                          [type |-> slots[stack.export].type, value |-> stack.old.value]

AheadInv ==
    /\ ahead \in [Exports -> Seq(Known)]
    /\ \A e \in Exports : Leading(e) /\ Repeated(e)
    /\ ReadAhead

LEMMA AheadInit == Init /\ ahead = [e \in Exports |-> <<None>>] => AheadInv /\ Views!Init
<1> SUFFICES ASSUME Init, ahead = [e \in Exports |-> <<None>>] PROVE AheadInv /\ Views!Init
  OBVIOUS
<1>1. <<None>> \in Seq(Known) /\ Len(<<None>>) = 1 /\ <<None>>[1] = None
  BY DEF Known
<1>2. /\ \A e \in Exports : slots[e] = None /\ view[e] = None
      /\ stack.at = "wait"
  BY StackMember DEF Init
<1>3. StateOf(None) = None
  BY DEF StateOf
<1>4. AheadInv
  BY <1>1, <1>2, <1>3 DEF AheadInv, Leading, Repeated, ReadAhead
<1>5. Views!Init
  BY <1>2, <1>3 DEF Views!Init
<1> QED
  BY <1>4, <1>5

\* While the view stays, the sequence only grows.
LEMMA AheadGrows ==
    ASSUME TypeOK, TypeOK', AheadInv, Observe, NEW e \in Exports, view'[e] = view[e]
    PROVE  /\ ahead'[e] = Views!Grown(ahead[e], StateOf(slots'[e]))
           /\ ahead'[e] \in Seq(Known)
           /\ Leading(e)'
           /\ Len(ahead'[e]) >= Len(ahead[e])
           /\ \A i \in 1 .. Len(ahead[e]) : ahead'[e][i] = ahead[e][i]
           /\ StateOf(slots'[e]) = StateOf(slots[e]) => ahead'[e] = ahead[e]
<1> DEFINE g == Views!Grown(ahead[e], StateOf(slots'[e]))
<1>1. ahead[e] \in Seq(Known) /\ StateOf(slots'[e]) \in Known /\ Leading(e)
  <2>1. ahead[e] \in Seq(Known) /\ Leading(e)
    BY DEF AheadInv
  <2>2. \A x \in Slot \cup {None} : StateOf(x) \in Known
    BY DEF StateOf, Known, State, Slot
  <2>3. slots'[e] \in Slot \cup {None}
    BY DEF TypeOK
  <2> QED
    BY <2>1, <2>2, <2>3
<1>2. /\ g \in Seq(Known) /\ Len(g) >= Len(ahead[e])
      /\ \A i \in 1 .. Len(ahead[e]) : g[i] = ahead[e][i]
      /\ g[Len(g)] = StateOf(slots'[e])
      /\ StateOf(slots'[e]) = StateOf(slots[e]) => g = ahead[e]
  <2>1. PICK s \in Seq(Known), x \in Known : s = ahead[e] /\ x = StateOf(slots'[e])
    BY <1>1
  <2>2. Len(s) >= 1 /\ s[Len(s)] = StateOf(slots[e])
    BY <1>1, <2>1 DEF Leading
  <2>3. /\ Views!Grown(s, x) \in Seq(Known)
        /\ Len(Views!Grown(s, x)) >= Len(s)
        /\ \A i \in 1 .. Len(s) : Views!Grown(s, x)[i] = s[i]
        /\ Views!Grown(s, x)[Len(Views!Grown(s, x))] = x
        /\ s[Len(s)] = x => Views!Grown(s, x) = s
    BY <2>2, GrownEffect
  <2>4. g = Views!Grown(s, x)
    BY <2>1
  <2> HIDE DEF g
  <2> QED
    BY <2>1, <2>2, <2>3, <2>4
<1>3. ahead'[e] = Followed(g, StateOf(view[e]))
  BY DEF Observe
<1> HIDE DEF g
<1>4. Len(g) \in Nat /\ Len(ahead[e]) \in Nat
  BY <1>1, <1>2, LenProperties
<1>5. 1 \in 1 .. Len(g) /\ g[1] = StateOf(view[e])
  BY <1>1, <1>2, <1>4 DEF Leading
<1>6. PICK n \in 1 .. 1 : Followed(g, StateOf(view[e])) = Views!From(g, n)
  BY <1>2, <1>5, FollowedEffect
<1>7. Views!From(g, 1) = g
  BY <1>2, SubSeqFull DEF Views!From
<1>8. ahead'[e] = g
  BY <1>3, <1>6, <1>7
<1>9. Leading(e)'
  BY <1>1, <1>2, <1>4, <1>5, <1>8 DEF Leading
<1> QED
  BY <1>2, <1>8, <1>9 DEF g

LEMMA TableAhead ==
    ASSUME IInv, TypeOK', AheadInv, Observe, TableStep
    PROVE  AheadInv' /\ Views!Change
<1>1. /\ TypeOK /\ Versions /\ ViewSound /\ ReadSound
      /\ dataver \in [Exports -> Nat]
      /\ view \in [Exports -> View \cup {None}]
  BY DEF IInv, TypeInv, TypeOK
<1>2. \A e \in Exports :
         /\ ahead'[e] = Views!Grown(ahead[e], StateOf(slots'[e]))
         /\ ahead'[e] \in Seq(Known) /\ Leading(e)'
         /\ Len(ahead'[e]) >= Len(ahead[e])
         /\ \A i \in 1 .. Len(ahead[e]) : ahead'[e][i] = ahead[e][i]
  BY <1>1, AheadGrows DEF TableStep
<1>3. \A e \in Exports : Len(ahead[e]) \in Nat /\ Len(ahead'[e]) \in Nat
  <2>1. \A e \in Exports : ahead[e] \in Seq(Known)
    BY DEF AheadInv
  <2> QED
    BY <1>2, <2>1, LenProperties
<1>4. ahead' \in [Exports -> Seq(Known)]
  BY <1>2 DEF Observe
<1>5. \A e \in Exports :
          slots'[e] # None =>
              ahead'[e][Len(ahead'[e])] = [type |-> slots'[e].type, value |-> slots'[e].value]
  BY <1>2 DEF Leading, StateOf
<1>6. ASSUME NEW e \in Exports PROVE Repeated(e)'
  <2> SUFFICES ASSUME view[e] # None, slots'[e] # None, view[e].dataver = dataver'[e]
               PROVE  \E k \in 1 .. Len(ahead'[e]) :
                         ahead'[e][k] = [type |-> slots'[e].type, value |-> view[e].value]
    BY DEF Repeated, TableStep
  <2>1. view[e].dataver \in Nat /\ dataver[e] \in Nat /\ view[e].dataver <= dataver[e]
    BY <1>1 DEF View, Versions
  <2>2. dataver'[e] \in Nat /\ dataver[e] <= dataver'[e]
    BY DEF TableStep
  <2>3. view[e].dataver = dataver[e] /\ ~(dataver'[e] > dataver[e])
    BY <2>1, <2>2
  <2>4. slots[e] # None
    BY <2>3 DEF TableStep
  <2>5. CASE slots'[e].type = slots[e].type
    <3>1. PICK k \in 1 .. Len(ahead[e]) :
             ahead[e][k] = [type |-> slots[e].type, value |-> view[e].value]
      BY <2>3, <2>4 DEF AheadInv, Repeated
    <3>2. ahead'[e][k] = [type |-> slots'[e].type, value |-> view[e].value]
      BY <1>2, <2>5, <3>1
    <3>3. k \in 1 .. Len(ahead'[e])
      BY <1>2, <1>3
    <3> QED
      BY <3>2, <3>3
  <2>6. CASE slots'[e].value = slots[e].value /\ ~Counting(e)
    <3>1. view[e].value = slots'[e].value
      BY <1>1, <2>3, <2>4, <2>6 DEF ViewSound
    <3>2. Len(ahead'[e]) \in 1 .. Len(ahead'[e])
      BY <1>2, <1>3 DEF Leading
    <3> QED
      BY <1>5, <3>1, <3>2
  <2> QED
    BY <2>4, <2>5, <2>6 DEF TableStep
<1>7. ReadAhead'
  <2> SUFFICES ASSUME stack'.at = "reading", stack'.old # None PROVE ReadAhead'
    BY DEF ReadAhead
  <2>1. /\ stack.at = "reading" /\ stack'.export = stack.export /\ stack'.dataver = stack.dataver
        /\ \/ stack' = stack
           \/ /\ slots[stack.export] # None /\ stack'.old = slots[stack.export]
              /\ slots'[stack.export] # None =>
                    slots'[stack.export].value = slots[stack.export].value
    BY DEF TableStep
  <2>2. PICK e : e = stack.export
    OBVIOUS
  <2>3. stack.dataver \in Nat /\ e \in Exports /\ stack.dataver <= dataver[e]
    <3>1. stack \in Reading
      BY <2>1, StackShape DEF IInv, TypeInv
    <3> QED
      BY <1>1, <2>1, <2>2, <3>1 DEF Reading, Versions
  <2>4. slots'[e] # None => Len(ahead'[e]) \in 1 .. Len(ahead'[e])
    BY <1>2, <1>3, <2>3 DEF Leading
  <2>5. SUFFICES
          \E k \in 1 .. Len(ahead'[e]) :
             /\ ahead'[e][k] = StateOf(stack'.old)
             /\ slots'[e] # None /\ stack.dataver = dataver'[e] =>
                  \E j \in k .. Len(ahead'[e]) :
                      ahead'[e][j] = [type |-> slots'[e].type, value |-> stack'.old.value]
    BY <2>1, <2>2 DEF ReadAhead
  <2>6. CASE stack' = stack
    <3>1. PICK k \in 1 .. Len(ahead[e]) :
             /\ ahead[e][k] = StateOf(stack.old)
             /\ slots[e] # None /\ stack.dataver = dataver[e] =>
                  \E j \in k .. Len(ahead[e]) :
                      ahead[e][j] = [type |-> slots[e].type, value |-> stack.old.value]
      BY <2>2, <2>6 DEF AheadInv, ReadAhead
    <3>2. k \in 1 .. Len(ahead'[e]) /\ ahead'[e][k] = StateOf(stack'.old)
      BY <1>2, <1>3, <2>3, <2>6, <3>1
    <3>3. ASSUME slots'[e] # None, stack.dataver = dataver'[e]
          PROVE  \E j \in k .. Len(ahead'[e]) :
                    ahead'[e][j] = [type |-> slots'[e].type, value |-> stack.old.value]
      <4>1. dataver[e] \in Nat /\ dataver'[e] \in Nat /\ dataver[e] <= dataver'[e]
        BY <1>1, <2>3 DEF TableStep
      <4>2. stack.dataver = dataver[e] /\ ~(dataver'[e] > dataver[e])
        BY <2>3, <3>3, <4>1
      <4>3. slots[e] # None
        BY <2>3, <3>3, <4>2 DEF TableStep
      <4>4. CASE slots'[e].type = slots[e].type
        <5>1. PICK j \in k .. Len(ahead[e]) :
                 ahead[e][j] = [type |-> slots[e].type, value |-> stack.old.value]
          BY <3>1, <4>2, <4>3
        <5>2. j \in 1 .. Len(ahead[e]) /\ j \in k .. Len(ahead'[e])
          BY <1>2, <1>3, <2>3
        <5>3. ahead'[e][j] = [type |-> slots'[e].type, value |-> stack.old.value]
          BY <1>2, <2>3, <4>4, <5>1, <5>2
        <5> QED
          BY <5>2, <5>3
      <4>5. CASE slots'[e].value = slots[e].value /\ ~Counting(e)
        <5>1. stack.old.value = slots'[e].value
          BY <1>1, <2>1, <2>2, <2>6, <4>2, <4>3, <4>5 DEF ReadSound
        <5>2. Len(ahead'[e]) \in k .. Len(ahead'[e])
          BY <1>3, <2>3, <3>2
        <5> QED
          BY <1>5, <2>3, <3>3, <5>1, <5>2
      <4> QED
        BY <2>3, <3>3, <4>3, <4>4, <4>5 DEF TableStep
    <3> QED
      BY <2>6, <3>2, <3>3
  <2>7. CASE /\ slots[e] # None /\ stack'.old = slots[e]
             /\ slots'[e] # None => slots'[e].value = slots[e].value
    <3>1. PICK k : k = Len(ahead[e])
      OBVIOUS
    <3>2. k \in 1 .. Len(ahead[e]) /\ ahead[e][k] = StateOf(slots[e])
      BY <1>3, <2>3, <3>1 DEF AheadInv, Leading
    <3>3. k \in 1 .. Len(ahead'[e]) /\ ahead'[e][k] = StateOf(stack'.old)
      BY <1>2, <1>3, <2>3, <2>7, <3>2
    <3>4. Len(ahead'[e]) \in k .. Len(ahead'[e])
      BY <1>3, <2>3, <3>3
    <3>5. slots'[e] # None =>
             ahead'[e][Len(ahead'[e])] = [type |-> slots'[e].type, value |-> stack'.old.value]
      BY <1>5, <2>3, <2>7
    <3> QED
      BY <3>3, <3>4, <3>5
  <2> QED
    BY <2>1, <2>2, <2>6, <2>7
<1>8. AheadInv'
  BY <1>2, <1>4, <1>6, <1>7 DEF AheadInv
<1>9. Views!Change
  <2>1. [e \in Exports |-> StateOf(slots'[e])] \in [Exports -> Known]
    <3>1. \A x \in Slot \cup {None} : StateOf(x) \in Known
      BY DEF StateOf, Known, State, Slot
    <3> QED
      BY <3>1 DEF TypeOK
  <2>2. ahead' = [e \in Exports |-> Views!Grown(ahead[e], [f \in Exports |-> StateOf(slots'[f])][e])]
    BY <1>2, <1>4
  <2>3. [e \in Exports |-> StateOf(view'[e])] = [e \in Exports |-> StateOf(view[e])]
    BY DEF TableStep
  <2> QED
    BY <2>1, <2>2, <2>3 DEF Views!Change, Known
<1> QED
  BY <1>8, <1>9

\* What a controller is shown lies ahead, and so does what "unchanged" would make
\* of it.
LEMMA ShownAhead ==
    ASSUME IInv, AheadInv, NEW e \in Exports, Shows(e)
    PROVE  \E k \in 1 .. Len(ahead[e]) :
              /\ ahead[e][k] = StateOf(view'[e])
              /\ view'[e] # None /\ slots[e] # None /\ view'[e].dataver = dataver[e] =>
                    \E j \in k .. Len(ahead[e]) :
                       ahead[e][j] = [type |-> slots[e].type, value |-> view'[e].value]
<1> DEFINE Fits(k) ==
              /\ ahead[e][k] = StateOf(view'[e])
              /\ view'[e] # None /\ slots[e] # None /\ view'[e].dataver = dataver[e] =>
                    \E j \in k .. Len(ahead[e]) :
                       ahead[e][j] = [type |-> slots[e].type, value |-> view'[e].value]
<1>1. /\ TypeInv /\ slots \in [Exports -> Slot \cup {None}]
      /\ view \in [Exports -> View \cup {None}] /\ dataver \in [Exports -> Nat]
  BY DEF IInv, TypeInv, TypeOK
<1>2. Len(ahead[e]) \in Nat /\ Len(ahead[e]) >= 1
      /\ ahead[e][1] = StateOf(view[e]) /\ ahead[e][Len(ahead[e])] = StateOf(slots[e])
  BY LenProperties DEF AheadInv, Leading
<1>3. Len(ahead[e]) \in 1 .. Len(ahead[e]) /\ Len(ahead[e]) \in Len(ahead[e]) .. Len(ahead[e])
      /\ 1 \in 1 .. Len(ahead[e])
  BY <1>2
<1>4. CASE view' = view
  <2>1. Fits(1)
    BY <1>2, <1>4 DEF AheadInv, Repeated
  <2> QED
    BY <1>3, <2>1
<1>5. CASE slots[e] = None /\ view' = [view EXCEPT ![e] = None]
  <2>1. view'[e] = None
    BY <1>1, <1>5
  <2>2. Fits(Len(ahead[e]))
    BY <1>2, <1>5, <2>1
  <2> QED
    BY <1>3, <2>2
<1>6. CASE /\ slots[e] # None /\ view[e] # None /\ view[e].dataver = dataver[e]
           /\ view' = [view EXCEPT ![e].type = slots[e].type]
  <2>1. PICK k \in 1 .. Len(ahead[e]) :
           ahead[e][k] = [type |-> slots[e].type, value |-> view[e].value]
    BY <1>6 DEF AheadInv, Repeated
  <2>2. view'[e] = [view[e] EXCEPT !.type = slots[e].type] /\ view[e] \in View /\ slots[e] \in Slot
    BY <1>1, <1>6
  <2>3. view'[e] \in View /\ view'[e].type = slots[e].type /\ view'[e].value = view[e].value
    BY <2>2 DEF View, Slot
  <2>4. StateOf(view'[e]) = [type |-> slots[e].type, value |-> view[e].value]
    BY <2>3, NoneAssumption DEF StateOf
  <2>5. k \in k .. Len(ahead[e])
    BY <1>2
  <2>6. Fits(k)
    BY <2>1, <2>3, <2>4, <2>5
  <2> QED
    BY <2>6
<1>7. ASSUME stack.at = "reading", stack.export = e, NEW slot \in Slot,
             slot = (IF stack.old = None THEN slots[e] ELSE stack.old),
             view' = [view EXCEPT ![e] = [type |-> slot.type, value |-> slot.value,
                                          dataver |-> stack.dataver]]
      PROVE  \E k \in 1 .. Len(ahead[e]) : Fits(k)
  <2>1. stack.dataver \in Nat
    BY <1>1, <1>7, StackShape DEF TypeInv, Reading
  <2>2. view'[e] = [type |-> slot.type, value |-> slot.value, dataver |-> stack.dataver]
    BY <1>1, <1>7
  <2>3. /\ view'[e] \in View /\ view'[e].value = slot.value /\ view'[e].dataver = stack.dataver
        /\ view'[e].type = slot.type
    BY <2>1, <2>2 DEF View, Slot
  <2>4. StateOf(view'[e]) = StateOf(slot)
    BY <2>3, NoneAssumption DEF StateOf
  <2>5. CASE stack.old = None
    <3>1. slot = slots[e] /\ StateOf(slot) = [type |-> slots[e].type, value |-> slot.value]
      BY <1>7, <2>5, NoneAssumption DEF StateOf
    <3>2. Fits(Len(ahead[e]))
      BY <1>2, <1>3, <2>3, <2>4, <3>1
    <3> QED
      BY <1>3, <3>2
  <2>6. CASE stack.old # None
    <3>1. PICK k \in 1 .. Len(ahead[e]) :
            /\ ahead[e][k] = StateOf(stack.old)
            /\ slots[e] # None /\ stack.dataver = dataver[e] =>
                  \E j \in k .. Len(ahead[e]) :
                      ahead[e][j] = [type |-> slots[e].type, value |-> stack.old.value]
      BY <1>7, <2>6 DEF AheadInv, ReadAhead
    <3>2. slot = stack.old
      BY <1>7, <2>6
    <3>3. Fits(k)
      BY <2>3, <2>4, <3>1, <3>2
    <3> QED
      BY <3>3
  <2> QED
    BY <2>5, <2>6
<1> QED
  BY <1>4, <1>5, <1>6, <1>7 DEF Shows

LEMMA ViewAhead ==
    ASSUME IInv, TypeOK', AheadInv, Observe, NEW e \in Exports, ViewStep(e)
    PROVE  AheadInv' /\ Views!See(e)
<1>1. /\ TypeOK /\ view \in [Exports -> View \cup {None}] /\ UNCHANGED <<slots, dataver>>
  BY DEF IInv, TypeInv, TypeOK, ViewStep
<1>2. \A f \in Exports : f # e => view'[f] = view[f]
  BY <1>1 DEF ViewStep, Shows
<1>3. \A f \in Exports : f # e => ahead'[f] = ahead[f]
  <2> SUFFICES ASSUME NEW f \in Exports, f # e PROVE ahead'[f] = ahead[f]
    OBVIOUS
  <2>1. view'[f] = view[f] /\ StateOf(slots'[f]) = StateOf(slots[f])
    BY <1>1, <1>2
  <2> QED
    BY <1>1, <2>1, AheadGrows
<1>4. PICK s \in Seq(Known) : s = ahead[e]
  BY DEF AheadInv
<1>5. /\ Len(s) \in Nat /\ Len(s) >= 1
      /\ s[1] = StateOf(view[e]) /\ s[Len(s)] = StateOf(slots[e])
  BY <1>4, LenProperties DEF AheadInv, Leading
<1>6. ahead'[e] = Followed(s, StateOf(view'[e]))
  <2>1. Views!Grown(s, StateOf(slots'[e])) = s
    BY <1>1, <1>5 DEF Views!Grown
  <2> QED
    BY <1>4, <2>1 DEF Observe
<1>7. PICK k \in 1 .. Len(s) :
         /\ s[k] = StateOf(view'[e])
         /\ view'[e] # None /\ slots[e] # None /\ view'[e].dataver = dataver[e] =>
               \E j \in k .. Len(s) : s[j] = [type |-> slots[e].type, value |-> view'[e].value]
  BY <1>4, ShownAhead DEF ViewStep
<1>8. PICK n \in 1 .. k : s[n] = StateOf(view'[e]) /\ ahead'[e] = Views!From(s, n)
  BY <1>6, <1>7, FollowedEffect
<1>9. n \in 1 .. Len(s)
  BY <1>5
<1>10. /\ ahead'[e] \in Seq(Known) /\ Len(ahead'[e]) = Len(s) - n + 1
       /\ \A i \in 1 .. Len(s) - n + 1 : ahead'[e][i] = s[n + i - 1]
  BY <1>8, <1>9, FromEffect
<1>11. \A j \in n .. Len(s) :
           \E i \in 1 .. Len(ahead'[e]) : i = j - n + 1 /\ ahead'[e][i] = s[j]
  <2> SUFFICES ASSUME NEW j \in n .. Len(s)
               PROVE  \E i \in 1 .. Len(ahead'[e]) : i = j - n + 1 /\ ahead'[e][i] = s[j]
    OBVIOUS
  <2>1. PICK i : i = j - n + 1
    OBVIOUS
  <2>2. i \in 1 .. Len(s) - n + 1 /\ n + i - 1 = j
    BY <1>5, <1>9, <2>1
  <2> QED
    BY <1>10, <2>1, <2>2
<1>12. ahead'[e][1] = StateOf(view'[e]) /\ Len(ahead'[e]) >= 1
       /\ ahead'[e][Len(ahead'[e])] = StateOf(slots[e])
  <2>1. 1 \in 1 .. Len(s) - n + 1 /\ n + 1 - 1 = n
    BY <1>5, <1>9
  <2>2. Len(s) - n + 1 \in 1 .. Len(s) - n + 1 /\ n + (Len(s) - n + 1) - 1 = Len(s)
    BY <1>5, <1>9
  <2> QED
    BY <1>5, <1>8, <1>10, <2>1, <2>2
<1>13. Leading(e)'
  BY <1>1, <1>12 DEF Leading
<1>14. Repeated(e)'
  <2> SUFFICES ASSUME view'[e] # None, slots[e] # None, view'[e].dataver = dataver[e]
               PROVE  \E i \in 1 .. Len(ahead'[e]) :
                         ahead'[e][i] = [type |-> slots[e].type, value |-> view'[e].value]
    BY <1>1 DEF Repeated
  <2>1. PICK j \in k .. Len(s) : s[j] = [type |-> slots[e].type, value |-> view'[e].value]
    BY <1>7
  <2>2. j \in n .. Len(s)
    BY <1>5, <1>9
  <2> QED
    BY <1>11, <2>1, <2>2
<1>15. \A f \in Exports : Leading(f)' /\ Repeated(f)'
  <2> SUFFICES ASSUME NEW f \in Exports, f # e PROVE Leading(f)' /\ Repeated(f)'
    BY <1>13, <1>14
  <2>1. Leading(f) /\ Repeated(f)
    BY DEF AheadInv
  <2> QED
    BY <1>1, <1>2, <1>3, <2>1 DEF Leading, Repeated
<1>16. ahead' \in [Exports -> Seq(Known)] /\ ahead' = [ahead EXCEPT ![e] = Views!From(@, n)]
  <2>1. ahead \in [Exports -> Seq(Known)] /\ ahead' = [f \in Exports |-> ahead'[f]]
    BY DEF AheadInv, Observe
  <2> QED
    BY <1>3, <1>4, <1>8, <1>10, <2>1
<1>17. ReadAhead'
  BY DEF ReadAhead, ViewStep
<1>18. AheadInv'
  BY <1>15, <1>16, <1>17 DEF AheadInv
<1>19. Views!See(e)
  <2>1. n \in DOMAIN ahead[e] /\ ahead[e][n] = StateOf(view'[e])
    BY <1>4, <1>8, <1>9, LenProperties
  <2>2. [f \in Exports |-> StateOf(view'[f])] =
            [[f \in Exports |-> StateOf(view[f])] EXCEPT ![e] = ahead[e][n]]
    BY <1>2, <2>1
  <2>3. [f \in Exports |-> StateOf(slots'[f])] = [f \in Exports |-> StateOf(slots[f])]
    BY <1>1
  <2> QED
    BY <1>16, <2>1, <2>2, <2>3 DEF Views!See
<1> QED
  BY <1>18, <1>19

LEMMA ViewsStep ==
    WithinKind =>
        (IInv /\ AheadInv /\ [Next /\ Observe]_<<vars, ahead>> =>
            /\ IInv' /\ AheadInv'
            /\ Views!Next \/ UNCHANGED <<[e \in Exports |-> StateOf(slots[e])],
                                         [e \in Exports |-> StateOf(view[e])], ahead>>)
<1> SUFFICES ASSUME WithinKind, IInv, AheadInv, [Next /\ Observe]_<<vars, ahead>>
             PROVE  /\ IInv' /\ AheadInv'
                    /\ Views!Next \/ UNCHANGED <<[e \in Exports |-> StateOf(slots[e])],
                                                 [e \in Exports |-> StateOf(view[e])], ahead>>
  OBVIOUS
<1>1. IInv' /\ TypeOK'
  <2>1. [Next]_vars
    OBVIOUS
  <2>2. IInv'
    BY <2>1, StepInv
  <2> QED
    BY <2>2 DEF IInv, TypeInv
<1>2. CASE UNCHANGED <<vars, ahead>>
  <2>1. UNCHANGED <<slots, dataver, stack, view, ahead>>
    BY <1>2 DEF vars, controller
  <2>2. AheadInv'
    BY <2>1 DEF AheadInv, Leading, Repeated, ReadAhead
  <2>3. UNCHANGED <<[e \in Exports |-> StateOf(slots[e])], [e \in Exports |-> StateOf(view[e])], ahead>>
    BY <2>1
  <2> QED
    BY <1>1, <2>2, <2>3
<1>3. CASE Next /\ Observe
  <2>1. TableStep \/ (\E e \in Exports : ViewStep(e)) \/ UNCHANGED vars
    BY <1>3, StepKinds
  <2>2. CASE TableStep
    BY <1>1, <1>3, <2>2, TableAhead DEF Views!Next
  <2>3. ASSUME NEW e \in Exports, ViewStep(e) PROVE AheadInv' /\ Views!Next
    BY <1>1, <1>3, <2>3, ViewAhead DEF Views!Next
  <2>4. CASE UNCHANGED vars
    <3>1. UNCHANGED <<slots, dataver, stack, view>>
      BY <2>4 DEF vars, controller
    <3>2. \A e \in Exports : dataver'[e] \in Nat /\ dataver[e] <= dataver'[e]
      <4>1. \A n \in Nat : n <= n
        OBVIOUS
      <4>2. dataver \in [Exports -> Nat]
        BY DEF IInv, TypeInv, TypeOK
      <4> QED
        BY <3>1, <4>1, <4>2
    <3>3. TableStep
      BY <3>1, <3>2 DEF TableStep
    <3> QED
      BY <1>1, <1>3, <3>3, TableAhead DEF Views!Next
  <2> QED
    BY <1>1, <2>1, <2>2, <2>3, <2>4
<1> QED
  BY <1>2, <1>3

\* The observer adds to the steps of the plane and forbids none.
LEMMA ViewNextIsNext == ViewNext <=> Next /\ Observe
BY Zenon DEF ViewNext, Next, TaskStep, RunStep, ControllerStep

\* While exports keep their cluster, what a controller is shown of an endpoint (by
\* reads, by "unchanged" for a data version, by reads that began before a rebuild)
\* is one state after the other in the order in which the table had them.
THEOREM NeverBack == ASSUME WithinKind PROVE ViewSpec => ImplementsViews
<1>1. Init /\ ahead = [e \in Exports |-> <<None>>] => IInv /\ AheadInv /\ Views!Init
  BY InitInv, AheadInit
<1>2. IInv /\ AheadInv /\ [Next /\ Observe]_<<vars, ahead>> =>
        /\ IInv' /\ AheadInv'
        /\ Views!Next \/ UNCHANGED <<[e \in Exports |-> StateOf(slots[e])],
                                     [e \in Exports |-> StateOf(view[e])], ahead>>
  BY ViewsStep
<1>3. ViewNext => Next /\ Observe
  BY ViewNextIsNext
<1> QED
  BY <1>1, <1>2, <1>3, PTL DEF ViewSpec, ViewInit, ImplementsViews, Views!Spec
=============================================================================
