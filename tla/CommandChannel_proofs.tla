----------------------- MODULE CommandChannel_proofs -----------------------
(***************************************************************************)
(* Theorems about CommandChannel, for any number of commands, changes and   *)
(* failures.                                                                *)
(***************************************************************************)
EXTENDS CommandChannel, SequenceTheorems, TLAPS

-----------------------------------------------------------------------------
(* The inductive invariant *)

Stages == {"begin", "idle", "poll", "answer", "sync", "push", "pushing", "pushed"}
TaskRecord == [at : Stages, was : BOOLEAN, todo : Seq(Commands)]
PushRecord == [value : BOOLEAN, edition : Nat, by : Tasks \cup {"event"}]

Todo == task["command"].todo

\* The number of the command executed last.
LastRan == IF ran = <<>> THEN 0 ELSE ran[Len(ran)]

Shape ==
    /\ slot \in BOOLEAN /\ entity \in BOOLEAN
    /\ queue \in Seq(Commands)
    /\ edition \in Nat /\ shown \in {-1} \cup 0 .. edition
    /\ events \in 0 .. edition
    /\ connected \in BOOLEAN /\ subscribed \in BOOLEAN /\ missed \in BOOLEAN
    /\ pushes \in SUBSET PushRecord
    /\ task \in [Tasks -> TaskRecord]
    /\ issued \in 0 .. MaxCommands /\ changes \in 0 .. MaxChanges /\ faults \in 0 .. MaxFaults
    /\ delayed \in 0 .. faults
    /\ ran \in Seq(1 .. issued)
    /\ lost \in SUBSET (1 .. issued)

\* A task waits for its push exactly while that is on its way, and there is one.
OnePush ==
    /\ \A p \in pushes : p.edition <= edition /\ (p.by \in Tasks => task[p.by].at = "pushing")
    /\ \A p, q \in pushes : p.by = q.by /\ p.by \in Tasks => p = q
    /\ \A t \in Tasks : task[t].at = "pushing" => \E p \in pushes : p.by = t

\* The entity has changed by others or with a command that was executed.
EditionBound == edition <= changes + LastRan

\* Only the command loop carries commands, and none before it has asked for them.
Carriers ==
    \A t \in Tasks :
        t # "command" \/ task[t].at \in {"begin", "idle", "poll"} => task[t].todo = <<>>

\* The queue holds the last commands that were given, without a gap.
Consecutive ==
    /\ Len(queue) <= issued
    /\ \A i \in 1 .. Len(queue) : queue[i].number = issued - Len(queue) + i

\* What was executed comes before what the loop holds, and that before the queue.
InOrder ==
    /\ \A i, j \in 1 .. Len(ran) : i < j => ran[i] < ran[j]
    /\ \A i, j \in 1 .. Len(Todo) : i < j => Todo[i].number < Todo[j].number
    /\ \A i \in 1 .. Len(ran), j \in 1 .. Len(Todo) : ran[i] < Todo[j].number
    /\ \A i \in 1 .. Len(ran) : ran[i] <= issued - Len(queue)
    /\ \A i \in 1 .. Len(Todo) : Todo[i].number <= issued - Len(queue)

Accounted ==
    1 .. issued = ToSet(ran) \cup lost \cup Numbers(queue) \cup Numbers(Todo)

IInv ==
    /\ Shape /\ OnePush /\ EditionBound /\ Carriers
    /\ Consecutive /\ InOrder /\ Accounted

-----------------------------------------------------------------------------
(* The operators *)

LEMMA NumbersType ==
    ASSUME NEW n \in Nat, NEW q \in Seq(Commands), \A i \in 1 .. Len(q) : q[i].number <= n
    PROVE  Numbers(q) \subseteq 1 .. n
<1>1. DOMAIN q = 1 .. Len(q)
  BY LenProperties
<1>2. \A i \in 1 .. Len(q) : q[i].number \in 1 .. n
  <2> SUFFICES ASSUME NEW i \in 1 .. Len(q) PROVE q[i].number \in 1 .. n
    OBVIOUS
  <2>1. q[i] \in Commands
    BY ElementOfSeq
  <2> QED
    BY <2>1, BoundsAssumption DEF Commands
<1> QED
  BY <1>1, <1>2 DEF Numbers

LEMMA NumbersEmpty == Numbers(<<>>) = {}
BY DEF Numbers

LEMMA NumbersAppend ==
    ASSUME NEW q \in Seq(Commands), NEW c \in Commands
    PROVE  Numbers(Append(q, c)) = Numbers(q) \cup {c.number}
<1>1. /\ Append(q, c) \in Seq(Commands)
      /\ Len(Append(q, c)) = Len(q) + 1
      /\ \A i \in 1 .. Len(q) : Append(q, c)[i] = q[i]
      /\ Append(q, c)[Len(q) + 1] = c
  BY AppendProperties
<1>2. DOMAIN q = 1 .. Len(q) /\ DOMAIN Append(q, c) = 1 .. Len(q) + 1 /\ Len(q) \in Nat
  BY <1>1, LenProperties
<1>3. 1 .. Len(q) + 1 = (1 .. Len(q)) \cup {Len(q) + 1}
  BY <1>2
<1> QED
  BY <1>1, <1>2, <1>3 DEF Numbers

LEMMA NumbersTail ==
    ASSUME NEW q \in Seq(Commands), q # <<>>
    PROVE  Numbers(q) = {Head(q).number} \cup Numbers(Tail(q))
<1>1. /\ Tail(q) \in Seq(Commands)
      /\ Len(Tail(q)) = Len(q) - 1
      /\ \A i \in 1 .. Len(Tail(q)) : Tail(q)[i] = q[i + 1]
  BY HeadTailProperties
<1>2. /\ DOMAIN q = 1 .. Len(q) /\ DOMAIN Tail(q) = 1 .. Len(q) - 1
      /\ Len(q) \in Nat \ {0} /\ Head(q) = q[1]
  BY <1>1, LenProperties, EmptySeq
<1>3. \A i \in 1 .. Len(q) : i # 1 => i - 1 \in 1 .. Len(q) - 1 /\ q[i] = Tail(q)[i - 1]
  BY <1>1, <1>2
<1>4. \A i \in 1 .. Len(q) - 1 : i + 1 \in 1 .. Len(q)
  BY <1>2
<1>5. Numbers(q) \subseteq {Head(q).number} \cup Numbers(Tail(q))
  <2> SUFFICES ASSUME NEW i \in 1 .. Len(q)
               PROVE  q[i].number \in {Head(q).number} \cup Numbers(Tail(q))
    BY <1>2 DEF Numbers
  <2>1. CASE i = 1
    BY <1>2, <2>1
  <2>2. CASE i # 1
    BY <1>2, <1>3, <2>2 DEF Numbers
  <2> QED
    BY <2>1, <2>2
<1>6. {Head(q).number} \cup Numbers(Tail(q)) \subseteq Numbers(q)
  BY <1>1, <1>2, <1>4 DEF Numbers
<1> QED
  BY <1>5, <1>6

LEMMA ToSetAppend ==
    ASSUME NEW S, NEW s \in Seq(S), NEW x \in S
    PROVE  ToSet(Append(s, x)) = ToSet(s) \cup {x}
<1>1. /\ Append(s, x) \in Seq(S)
      /\ Len(Append(s, x)) = Len(s) + 1
      /\ \A i \in 1 .. Len(s) : Append(s, x)[i] = s[i]
      /\ Append(s, x)[Len(s) + 1] = x
  BY AppendProperties
<1>2. DOMAIN s = 1 .. Len(s) /\ DOMAIN Append(s, x) = 1 .. Len(s) + 1 /\ Len(s) \in Nat
  BY <1>1, LenProperties
<1>3. 1 .. Len(s) + 1 = (1 .. Len(s)) \cup {Len(s) + 1}
  BY <1>2
<1> QED
  BY <1>1, <1>2, <1>3 DEF ToSet

\* A task goes on to another stage with all else it has.
LEMMA GoOnEffect ==
    ASSUME Shape, NEW t \in Tasks, NEW at \in Stages, GoOn(t, at)
    PROVE  /\ task' \in [Tasks -> TaskRecord]
           /\ task'[t].at = at
           /\ \A u \in Tasks : task'[u].todo = task[u].todo
           /\ \A u \in Tasks : u # t => task'[u] = task[u]
BY DEF Shape, GoOn, TaskRecord

\* So does the task, if any, that waits for push p.
LEMMA ResumeEffect ==
    ASSUME Shape, NEW p \in pushes, Resume(p)
    PROVE  /\ task' \in [Tasks -> TaskRecord]
           /\ p.by \in Tasks => task'[p.by].at = "pushed"
           /\ \A u \in Tasks : task'[u].todo = task[u].todo
           /\ \A u \in Tasks : u # p.by => task'[u] = task[u]
<1>1. task \in [Tasks -> TaskRecord]
  BY DEF Shape
<1>2. CASE p.by \in Tasks
  <2>1. task' = [task EXCEPT ![p.by].at = "pushed"]
    BY <1>2 DEF Resume
  <2>2. task[p.by] \in TaskRecord
    BY <1>1, <1>2
  <2>3. [task[p.by] EXCEPT !.at = "pushed"] \in TaskRecord
    BY <2>2 DEF TaskRecord, Stages
  <2>4. /\ [task[p.by] EXCEPT !.at = "pushed"].at = "pushed"
        /\ [task[p.by] EXCEPT !.at = "pushed"].todo = task[p.by].todo
    BY <2>2 DEF TaskRecord
  <2>5. task' = [task EXCEPT ![p.by] = [task[p.by] EXCEPT !.at = "pushed"]]
    BY <2>1
  <2> QED
    BY <1>1, <1>2, <2>3, <2>4, <2>5
<1>3. CASE p.by \notin Tasks
  BY <1>1, <1>3 DEF Resume
<1> QED
  BY <1>2, <1>3

LEMMA IdleType ==
    /\ Idle \in TaskRecord /\ Idle.at = "idle" /\ Idle.todo = <<>>
    /\ [Idle EXCEPT !.at = "begin"] \in TaskRecord
    /\ [Idle EXCEPT !.at = "begin"].at = "begin" /\ [Idle EXCEPT !.at = "begin"].todo = <<>>
<1>1. <<>> \in Seq(Commands)
  BY EmptySeq
<1> QED
  BY <1>1 DEF Idle, TaskRecord, Stages

-----------------------------------------------------------------------------
(* Each conjunct of the invariant *)

LEMMA InitInv == Init => IInv
<1> SUFFICES ASSUME Init PROVE IInv
  OBVIOUS
<1>1. task \in [Tasks -> TaskRecord]
  BY IdleType DEF Init
<1>2. \A t \in Tasks : task[t].todo = <<>> /\ task[t].at \in {"begin", "idle"}
  BY IdleType DEF Init
<1>3. Shape
  <2>1. <<>> \in Seq(Commands) /\ <<>> \in Seq(1 .. 0)
    BY EmptySeq
  <2>2. /\ issued \in 0 .. MaxCommands /\ changes \in 0 .. MaxChanges /\ faults \in 0 .. MaxFaults
        /\ delayed \in 0 .. faults
    BY BoundsAssumption DEF Init
  <2>3. ran \in Seq(1 .. issued) /\ lost \in SUBSET (1 .. issued)
    BY <2>1 DEF Init
  <2>4. pushes \in SUBSET PushRecord
    BY DEF Init
  <2>5. /\ queue \in Seq(Commands)
        /\ edition \in Nat /\ shown \in {-1} \cup 0 .. edition /\ events \in 0 .. edition
    BY <2>1 DEF Init
  <2>6. /\ slot \in BOOLEAN /\ entity \in BOOLEAN
        /\ connected \in BOOLEAN /\ subscribed \in BOOLEAN /\ missed \in BOOLEAN
    BY DEF Init
  <2> QED
    BY <1>1, <2>2, <2>3, <2>4, <2>5, <2>6 DEF Shape
<1>4. Accounted
  <2>1. Todo = <<>> /\ ToSet(<<>>) = {}
    BY <1>2 DEF Todo, Tasks, Loops, ToSet
  <2> QED
    BY <2>1, NumbersEmpty DEF Init, Accounted
<1> QED
  BY <1>2, <1>3, <1>4 DEF Todo, Init, IInv, OnePush, EditionBound, LastRan, Carriers,
     Consecutive, InOrder, Tasks, Loops

\* The actions that leave every task with what it carries.
LEMMA Carrying ==
    ASSUME Shape, Carriers,
           \/ \E t \in Tasks : Answered(t) \/ Sync(t) \/ LoseSync(t) \/ PushState(t) \/ Sleep(t)
                               \/ (t \in Loops /\ Poll(t))
           \/ \E p \in pushes : Deliver(p) \/ LosePush(p) \/ GiveUp(p)
           \/ \E reachable \in BOOLEAN : Setup(reachable)
           \/ Subscribe
    PROVE  /\ task' \in [Tasks -> TaskRecord]
           /\ \A u \in Tasks : task'[u].todo = task[u].todo
           /\ UNCHANGED <<queue, commandVars>>
<1>1. ASSUME NEW t \in Tasks, Answered(t) \/ Sync(t) \/ LoseSync(t) \/ PushState(t)
      PROVE  /\ task' \in [Tasks -> TaskRecord]
             /\ \A u \in Tasks : task'[u].todo = task[u].todo
             /\ UNCHANGED <<queue, commandVars>>
  <2>1. \E at \in Stages : GoOn(t, at)
    BY <1>1 DEF Answered, Sync, LoseSync, PushState, Stages
  <2>2. UNCHANGED <<queue, commandVars>>
    BY <1>1 DEF Answered, Sync, LoseSync, PushState, bridgeVars
  <2> QED
    BY <2>1, <2>2, GoOnEffect
<1>2. ASSUME NEW t \in Tasks, Sleep(t)
      PROVE  /\ task' \in [Tasks -> TaskRecord]
             /\ \A u \in Tasks : task'[u].todo = task[u].todo
             /\ UNCHANGED <<queue, commandVars>>
  BY <1>2, IdleType DEF Sleep, Shape, bridgeVars
<1>3. ASSUME NEW t \in Loops, Poll(t)
      PROVE  /\ task' \in [Tasks -> TaskRecord]
             /\ \A u \in Tasks : task'[u].todo = task[u].todo
             /\ UNCHANGED <<queue, commandVars>>
  <2>1. PICK was \in BOOLEAN : task' = [task EXCEPT ![t].at = "poll", ![t].was = was]
    BY <1>3 DEF Poll, Shape
  <2>2. t \in Tasks /\ task[t] \in TaskRecord
    BY DEF Tasks, Shape
  <2>3. task' \in [Tasks -> TaskRecord] /\ \A u \in Tasks : task'[u].todo = task[u].todo
    BY <2>1, <2>2 DEF Shape, TaskRecord, Stages
  <2> QED
    BY <1>3, <2>3 DEF Poll, bridgeVars
<1>4. ASSUME NEW p \in pushes, Deliver(p) \/ LosePush(p) \/ GiveUp(p)
      PROVE  /\ task' \in [Tasks -> TaskRecord]
             /\ \A u \in Tasks : task'[u].todo = task[u].todo
             /\ UNCHANGED <<queue, commandVars>>
  BY <1>4, ResumeEffect DEF Deliver, LosePush, GiveUp, bridgeVars
<1>5. ASSUME NEW reachable \in BOOLEAN, Setup(reachable)
      PROVE  /\ task' \in [Tasks -> TaskRecord]
             /\ \A u \in Tasks : task'[u].todo = task[u].todo
             /\ UNCHANGED <<queue, commandVars>>
  <2>1. \E at \in Stages : GoOn("setup", at)
    BY <1>5 DEF Setup, Stages
  <2> QED
    BY <1>5, <2>1, GoOnEffect DEF Setup, Tasks, bridgeVars
<1>6. ASSUME Subscribe
      PROVE  /\ task' \in [Tasks -> TaskRecord]
             /\ \A u \in Tasks : task'[u].todo = task[u].todo
             /\ UNCHANGED <<queue, commandVars>>
  BY <1>6, GoOnEffect DEF Subscribe, Tasks, Stages, bridgeVars
<1> QED
  BY <1>1, <1>2, <1>3, <1>4, <1>5, <1>6

\* Next, with those actions taken together.
LEMMA NextCases ==
    ASSUME [Next]_vars
    PROVE  \/ \E t \in Tasks : Answered(t) \/ Sync(t) \/ LoseSync(t) \/ PushState(t) \/ Sleep(t)
                               \/ (t \in Loops /\ Poll(t))
           \/ \E p \in pushes : Deliver(p) \/ LosePush(p) \/ GiveUp(p)
           \/ \E reachable \in BOOLEAN : Setup(reachable)
           \/ Subscribe
           \/ \E on \in BOOLEAN : ControllerCommands(on)
           \/ \E t \in Loops : Serve(t) \/ LosePoll(t)
           \/ Restart \/ Change \/ HandleEvent \/ Run \/ RunFails \/ Reload \/ Refresh \/ LoseRefresh
           \/ ServeDelayed \/ GiveUpPoll \/ PushEdited
           \/ UNCHANGED vars
<1> DEFINE Carry ==
        \/ \E t \in Tasks : Answered(t) \/ Sync(t) \/ LoseSync(t) \/ PushState(t) \/ Sleep(t)
                            \/ (t \in Loops /\ Poll(t))
        \/ \E p \in pushes : Deliver(p) \/ LosePush(p) \/ GiveUp(p)
        \/ \E reachable \in BOOLEAN : Setup(reachable)
        \/ Subscribe
<1>1. "setup" \in Tasks
  BY DEF Tasks
<1>2. SetupStep => Carry
  BY <1>1 DEF SetupStep
<1>3. ASSUME NEW t \in Loops, LoopStep(t)
      PROVE  Carry \/ Serve(t)
  <2>1. t \in Tasks
    BY DEF Tasks
  <2> QED
    BY <1>3, <2>1 DEF LoopStep
<1>4. (\E t \in Tasks : LoseSync(t)) => Carry
  OBVIOUS
<1>5. (\E p \in pushes : Deliver(p) \/ LosePush(p) \/ GiveUp(p)) => Carry
  OBVIOUS
<1> SUFFICES \/ Carry
             \/ \E on \in BOOLEAN : ControllerCommands(on)
             \/ \E t \in Loops : Serve(t) \/ LosePoll(t)
             \/ Restart \/ Change \/ HandleEvent \/ Run \/ RunFails \/ Reload \/ Refresh \/ LoseRefresh
             \/ ServeDelayed \/ GiveUpPoll \/ PushEdited
             \/ UNCHANGED vars
  OBVIOUS
<1> HIDE DEF Carry
<1> QED
  BY <1>2, <1>3, <1>4, <1>5 DEF Next

\* What is left of the tasks.
LEMMA TaskStep ==
    ASSUME Shape, Carriers, [Next]_vars
    PROVE  task' \in [Tasks -> TaskRecord]
<1>1. ASSUME NEW t \in Loops, Serve(t)
      PROVE  task' \in [Tasks -> TaskRecord]
  <2>1. PICK todo \in Seq(Commands) :
            task' = [task EXCEPT ![t].at = "answer", ![t].todo = todo]
    <3>1. queue \in Seq(Commands) /\ <<>> \in Seq(Commands)
      BY EmptySeq DEF Shape
    <3> QED
      BY <1>1, <3>1 DEF Serve
  <2>2. t \in Tasks /\ task[t] \in TaskRecord
    BY DEF Tasks, Shape
  <2> QED
    BY <2>1, <2>2 DEF Shape, TaskRecord, Stages
<1>2. ASSUME NEW t \in Loops, LosePoll(t)
      PROVE  task' \in [Tasks -> TaskRecord]
  BY <1>2, IdleType DEF LosePoll, Shape
<1>3. CASE Run \/ RunFails
  <2>1. /\ task' = [task EXCEPT !["command"].todo = Tail(@)]
        /\ Todo # <<>>
    BY <1>3 DEF Run, RunFails, Execute, Todo
  <2>2. "command" \in Tasks /\ task["command"] \in TaskRecord
    BY DEF Tasks, Loops, Shape
  <2>3. Tail(Todo) \in Seq(Commands)
    BY <2>1, <2>2, HeadTailProperties DEF TaskRecord, Todo
  <2> QED
    BY <2>1, <2>2, <2>3 DEF Shape, TaskRecord, Todo
<1>4. CASE Reload
  BY <1>4, IdleType DEF Reload
<1>5. CASE UNCHANGED task
  BY <1>5 DEF Shape
<1>6. CASE Restart \/ Change \/ HandleEvent \/ Refresh \/ LoseRefresh \/ ServeDelayed \/ PushEdited
  BY <1>5, <1>6 DEF Restart, Change, HandleEvent, Refresh, LoseRefresh, ServeDelayed, PushEdited
<1>9. CASE GiveUpPoll
  BY <1>9, IdleType DEF GiveUpPoll, Shape
<1>7. ASSUME NEW on \in BOOLEAN, ControllerCommands(on)
      PROVE  task' \in [Tasks -> TaskRecord]
  BY <1>5, <1>7 DEF ControllerCommands
<1>8. CASE UNCHANGED vars
  BY <1>5, <1>8 DEF vars
<1> QED
  BY <1>1, <1>2, <1>3, <1>4, <1>6, <1>7, <1>8, <1>9, Carrying, NextCases

\* The numbers never leave their ranges, and ran grows by the command executed.
LEMMA RanStep ==
    ASSUME Shape, Carriers, InOrder, Consecutive, [Next]_vars
    PROVE  /\ issued' \in 0 .. MaxCommands
           /\ ran' \in Seq(1 .. issued')
           /\ lost' \in SUBSET (1 .. issued')
           /\ queue' \in Seq(Commands)
<1> DEFINE Goal == /\ issued' \in 0 .. MaxCommands
                   /\ ran' \in Seq(1 .. issued')
                   /\ lost' \in SUBSET (1 .. issued')
                   /\ queue' \in Seq(Commands)
<1>0. /\ "command" \in Tasks
      /\ Todo \in Seq(Commands)
      /\ <<>> \in Seq(Commands)
      /\ Len(queue) \in Nat
      /\ issued \in Nat
  BY EmptySeq, LenProperties, BoundsAssumption DEF Tasks, Loops, Todo, Shape, TaskRecord
<1>a. \A i \in 1 .. Len(Todo) : Todo[i].number <= issued
  <2> SUFFICES ASSUME NEW i \in 1 .. Len(Todo) PROVE Todo[i].number <= issued
    OBVIOUS
  <2>1. Todo[i] \in Commands
    BY <1>0, ElementOfSeq
  <2>2. Todo[i].number <= issued - Len(queue)
    BY DEF InOrder
  <2> QED
    BY <1>0, <2>1, <2>2 DEF Commands
<1>1. CASE UNCHANGED <<issued, ran, lost>> /\ queue' \in {queue, <<>>}
  BY <1>0, <1>1 DEF Shape
<1>2. ASSUME NEW on \in BOOLEAN, ControllerCommands(on)
      PROVE  Goal
  <2>1. issued' = issued + 1 /\ issued' \in 0 .. MaxCommands /\ issued \in Nat
    BY <1>2, BoundsAssumption DEF ControllerCommands, Shape
  <2>2. 1 .. issued \subseteq 1 .. issued'
    BY <2>1
  <2>3. ran' = ran /\ lost' = lost
    BY <1>2 DEF ControllerCommands
  <2>4. ran \in Seq(1 .. issued')
    BY <2>2, SeqMonotonic DEF Shape
  <2>5. [number |-> issued', on |-> on] \in Commands
    BY <2>1, BoundsAssumption DEF Commands
  <2>6. queue' \in Seq(Commands)
    BY <1>2, <2>5, AppendProperties DEF ControllerCommands, Shape
  <2> QED
    BY <2>1, <2>2, <2>3, <2>4, <2>6 DEF Shape
<1>3. ASSUME NEW q \in Seq(Commands), \A i \in 1 .. Len(q) : q[i].number <= issued,
             lost' = lost \cup Numbers(q), issued' = issued, ran' = ran, queue' \in {queue, <<>>}
      PROVE  Goal
  <2>1. Numbers(q) \subseteq 1 .. issued
    BY <1>0, <1>3, NumbersType
  <2> QED
    BY <1>0, <1>3, <2>1 DEF Shape
<1>4. CASE Restart \/ ServeDelayed
  <2>1. \A i \in 1 .. Len(queue) : queue[i].number <= issued
    BY <1>0 DEF Consecutive
  <2> QED
    BY <1>0, <1>3, <1>4, <2>1 DEF Restart, ServeDelayed, Shape
<1>5. ASSUME NEW t \in Loops, LosePoll(t)
      PROVE  Goal
  <2>1. t \in Tasks /\ task[t].todo \in Seq(Commands)
    BY DEF Tasks, Shape, TaskRecord
  <2>2. \A i \in 1 .. Len(task[t].todo) : task[t].todo[i].number <= issued
    <3>1. CASE t = "command"
      BY <1>a, <3>1 DEF Todo
    <3>2. CASE t # "command"
      BY <2>1, <3>2, EmptySeq DEF Carriers
    <3> QED
      BY <3>1, <3>2
  <2> QED
    BY <1>3, <1>5, <2>1, <2>2 DEF LosePoll, bridgeVars
<1>6. CASE Reload
  BY <1>0, <1>3, <1>6, <1>a DEF Reload, bridgeVars, Todo
<1>7. CASE Run \/ RunFails
  <2>1. /\ Todo # <<>>
        /\ ran' = Append(ran, Head(Todo).number)
        /\ UNCHANGED <<issued, lost, queue>>
    BY <1>7 DEF Run, RunFails, Execute, Todo, bridgeVars
  <2>2. Head(Todo) \in Commands /\ Head(Todo) = Todo[1] /\ 1 \in 1 .. Len(Todo)
    BY <1>0, <2>1, HeadTailProperties, EmptySeq
  <2>3. Head(Todo).number \in 1 .. issued
    BY <1>0, <2>2 DEF InOrder, Commands, Shape
  <2> QED
    BY <2>1, <2>3, AppendProperties DEF Shape
<1>8. CASE Change \/ HandleEvent \/ Refresh \/ LoseRefresh \/ GiveUpPoll \/ PushEdited
  BY <1>1, <1>8 DEF Change, HandleEvent, Refresh, LoseRefresh, GiveUpPoll, PushEdited, bridgeVars,
     commandVars
<1>9. ASSUME NEW t \in Loops, Serve(t)
      PROVE  Goal
  BY <1>1, <1>9 DEF Serve, commandVars
<1>10. CASE UNCHANGED vars
  BY <1>1, <1>10 DEF vars, bridgeVars, commandVars
<1>11. CASE UNCHANGED <<queue, commandVars>>
  BY <1>1, <1>11 DEF commandVars
<1> QED
  BY <1>2, <1>4, <1>5, <1>6, <1>7, <1>8, <1>9, <1>10, <1>11, Carrying, NextCases

LEMMA OnePushStep == ASSUME Shape, Carriers, OnePush, [Next]_vars PROVE OnePush'
<1>0. /\ task' \in [Tasks -> TaskRecord] /\ task \in [Tasks -> TaskRecord]
      /\ pushes \in SUBSET PushRecord
      /\ edition \in Nat
      /\ "command" \in Tasks
      /\ "event" \notin Tasks
  BY TaskStep DEF Shape, Tasks, Loops
\* Nobody begins or stops to wait.
<1>a. ASSUME pushes' = pushes, edition' \in {edition, edition + 1},
             \A t \in Tasks : task'[t].at = "pushing" <=> task[t].at = "pushing"
      PROVE  OnePush'
  <2>1. \A p \in pushes : p.edition \in Nat
    BY <1>0 DEF PushRecord
  <2>2. \A p \in pushes : p.edition <= edition'
    BY <1>0, <1>a, <2>1 DEF OnePush
  <2> QED
    BY <1>a, <2>2 DEF OnePush
<1>1. ASSUME NEW t \in Tasks, Answered(t) \/ Sync(t) \/ LoseSync(t) \/ Sleep(t)
                              \/ (t \in Loops /\ Poll(t)) \/ (t \in Loops /\ Serve(t))
                              \/ (t \in Loops /\ LosePoll(t))
      PROVE  OnePush'
  <2>1. UNCHANGED <<pushes, edition>>
    BY <1>1 DEF Answered, Sync, LoseSync, Sleep, Poll, Serve, LosePoll, entityVars
  <2>2. \A u \in Tasks : u # t => task'[u] = task[u]
    BY <1>0, <1>1 DEF Answered, Sync, LoseSync, Sleep, Poll, Serve, LosePoll, GoOn
  <2>3. task[t].at # "pushing"
    BY <1>1 DEF Answered, Sync, LoseSync, Sleep, Poll, Serve, LosePoll
  <2>4. task'[t].at # "pushing"
    BY <1>0, <1>1, IdleType
       DEF Answered, Sync, LoseSync, Sleep, Poll, Serve, LosePoll, GoOn, TaskRecord
  <2> QED
    BY <1>a, <2>1, <2>2, <2>3, <2>4
<1>2. ASSUME NEW t \in Tasks, PushState(t)
      PROVE  OnePush'
  <2> DEFINE p == [value |-> entity, edition |-> edition, by |-> t]
  <2>1. /\ pushes' = pushes \cup {p} /\ edition' = edition
        /\ task[t].at = "push"
    BY <1>2 DEF PushState, Push, entityVars
  <2>2. task'[t].at = "pushing" /\ \A u \in Tasks : u # t => task'[u] = task[u]
    BY <1>2, GoOnEffect DEF PushState, Stages
  <2>3. p.by = t /\ p.edition = edition
    OBVIOUS
  <2>4. \A q \in pushes : q.by # t
    BY <2>1 DEF OnePush
  <2> HIDE DEF p
  <2> QED
    BY <1>0, <2>1, <2>2, <2>3, <2>4 DEF OnePush
<1>3. ASSUME NEW p \in pushes, Deliver(p) \/ LosePush(p)
      PROVE  OnePush'
  <2>1. pushes' = pushes \ {p} /\ edition' = edition
    BY <1>3 DEF Deliver, LosePush, entityVars
  <2>2. /\ p.by \in Tasks => task'[p.by].at = "pushed"
        /\ \A u \in Tasks : u # p.by => task'[u] = task[u]
    BY <1>3, ResumeEffect DEF Deliver, LosePush
  <2> QED
    BY <2>1, <2>2 DEF OnePush
<1>4. ASSUME NEW p \in pushes, GiveUp(p)
      PROVE  OnePush'
  <2> DEFINE q == [p EXCEPT !.by = "event"]
  <2>0. q.by = "event" /\ q.edition = p.edition
    BY <1>0 DEF PushRecord
  <2>1. pushes' = (pushes \ {p}) \cup {q}
    BY <1>4 DEF GiveUp
  <2>2. edition' = edition
    BY <1>4 DEF GiveUp, entityVars
  <2>3. /\ p.by \in Tasks => task'[p.by].at = "pushed"
        /\ \A u \in Tasks : u # p.by => task'[u] = task[u]
    BY <1>4, ResumeEffect DEF GiveUp
  <2> HIDE DEF q
  <2> QED
    BY <1>0, <2>0, <2>1, <2>2, <2>3 DEF OnePush
<1>5. CASE HandleEvent \/ PushEdited
  <2>1. edition' = edition /\ task' = task
    BY <1>5 DEF HandleEvent, PushEdited
  <2>2. CASE pushes' = pushes
    BY <2>1, <2>2, <1>a
  <2>3. CASE pushes' # pushes
    <3>1. PICK p : p.by = "event" /\ p.edition = edition /\ pushes' = pushes \cup {p}
      BY <1>5, <2>3 DEF HandleEvent, PushEdited, Push
    <3> QED
      BY <1>0, <2>1, <3>1 DEF OnePush
  <2> QED
    BY <2>2, <2>3
<1>6. CASE Reload
  <2>1. edition' = edition /\ pushes' = {[p EXCEPT !.by = "event"] : p \in pushes}
    BY <1>6 DEF Reload, entityVars
  <2>2. \A t \in Tasks : task'[t].at # "pushing"
    BY <1>6, IdleType DEF Reload
  <2>3. \A p \in pushes' : p.by = "event" /\ p.edition <= edition'
    <3> SUFFICES ASSUME NEW p \in pushes
                 PROVE  /\ [p EXCEPT !.by = "event"].by = "event"
                        /\ [p EXCEPT !.by = "event"].edition <= edition
      BY <2>1
    <3> QED
      BY <1>0 DEF OnePush, PushRecord
  <2> QED
    BY <1>0, <2>2, <2>3 DEF OnePush
<1>7. CASE Run \/ RunFails
  <2>1. pushes' = pushes /\ edition' \in {edition, edition + 1}
    BY <1>7 DEF Run, RunFails, Execute, Becomes
  <2>2. \A t \in Tasks : task'[t].at = task[t].at
    BY <1>0, <1>7 DEF Run, RunFails, Execute, TaskRecord
  <2> QED
    BY <1>a, <2>1, <2>2
<1>8. CASE Restart \/ Change \/ Refresh \/ LoseRefresh \/ ServeDelayed
  <2>1. UNCHANGED <<pushes, task>> /\ edition' \in {edition, edition + 1}
    BY <1>8 DEF Restart, Change, Becomes, Refresh, LoseRefresh, ServeDelayed, entityVars
  <2> QED
    BY <1>a, <2>1
<1>9. ASSUME NEW reachable \in BOOLEAN, Setup(reachable)
      PROVE  OnePush'
  <2>1. UNCHANGED <<pushes, edition>> /\ task["setup"].at = "begin"
    BY <1>9 DEF Setup, entityVars
  <2>2. task'["setup"].at # "pushing" /\ \A u \in Tasks : u # "setup" => task'[u] = task[u]
    BY <1>9, GoOnEffect DEF Setup, Stages, Tasks
  <2> QED
    BY <1>a, <2>1, <2>2
<1>10. CASE Subscribe
  <2>1. UNCHANGED <<pushes, edition>> /\ task["setup"].at = "pushed"
    BY <1>10 DEF Subscribe, entityVars
  <2>2. task'["setup"].at # "pushing" /\ \A u \in Tasks : u # "setup" => task'[u] = task[u]
    BY <1>10, GoOnEffect DEF Subscribe, Stages, Tasks
  <2> QED
    BY <1>a, <2>1, <2>2
<1>11. ASSUME NEW on \in BOOLEAN, ControllerCommands(on)
       PROVE  OnePush'
  BY <1>a, <1>11 DEF ControllerCommands, entityVars
<1>12. CASE UNCHANGED vars
  BY <1>a, <1>12 DEF vars, entityVars
<1>13. Loops \subseteq Tasks
  BY DEF Tasks
<1>14. CASE GiveUpPoll
  <2>1. UNCHANGED <<pushes, edition>> /\ task["command"].at = "poll"
    BY <1>14 DEF GiveUpPoll, entityVars
  <2>2. task'["command"].at # "pushing" /\ \A u \in Tasks : u # "command" => task'[u] = task[u]
    BY <1>0, <1>14, IdleType DEF GiveUpPoll
  <2> QED
    BY <1>a, <2>1, <2>2
<1> QED
  BY <1>1, <1>2, <1>3, <1>4, <1>5, <1>6, <1>7, <1>8, <1>9, <1>10, <1>11, <1>12, <1>13, <1>14, NextCases

LEMMA FlagsStep ==
    ASSUME Shape, [Next]_vars
    PROVE  /\ slot' \in BOOLEAN /\ entity' \in BOOLEAN
           /\ connected' \in BOOLEAN /\ subscribed' \in BOOLEAN /\ missed' \in BOOLEAN
<1> DEFINE Goal == /\ slot' \in BOOLEAN /\ entity' \in BOOLEAN
                   /\ connected' \in BOOLEAN /\ subscribed' \in BOOLEAN /\ missed' \in BOOLEAN
<1> USE DEF Shape, bridgeVars, entityVars
<1>1. ASSUME NEW t \in Tasks,
             Answered(t) \/ Sync(t) \/ LoseSync(t) \/ PushState(t) \/ Sleep(t) \/ Poll(t)
      PROVE  Goal
  BY <1>1 DEF Answered, Sync, LoseSync, PushState, Sleep, Poll, LowerFlag
<1>2. ASSUME NEW p \in pushes, Deliver(p) \/ LosePush(p) \/ GiveUp(p)
      PROVE  Goal
  <2>1. p.value \in BOOLEAN
    BY DEF PushRecord
  <2> QED
    BY <1>2, <2>1 DEF Deliver, LosePush, GiveUp, Miss
<1>3. ASSUME NEW reachable \in BOOLEAN, Setup(reachable)
      PROVE  Goal
  BY <1>3 DEF Setup
<1>4. CASE Subscribe \/ Restart \/ Reload \/ Refresh \/ LoseRefresh
  BY <1>4 DEF Subscribe, Restart, Reload, Refresh, LoseRefresh, Miss, LowerFlag
<1>10. CASE ServeDelayed \/ GiveUpPoll \/ PushEdited
  BY <1>10 DEF ServeDelayed, GiveUpPoll, PushEdited, Miss, LowerFlag
<1>5. CASE Change \/ HandleEvent
  BY <1>5 DEF Change, HandleEvent, Becomes, Miss
<1>6. CASE Run \/ RunFails
  <2>1. Todo # <<>> /\ Todo \in Seq(Commands)
    BY <1>6 DEF Run, RunFails, Execute, Todo, TaskRecord, Tasks, Loops
  <2>2. Head(Todo).on \in BOOLEAN
    <3>1. Head(Todo) \in Commands
      BY <2>1, HeadTailProperties
    <3> QED
      BY <3>1 DEF Commands
  <2> QED
    BY <1>6, <2>2 DEF Run, RunFails, Execute, Becomes, Miss, Todo
<1>7. ASSUME NEW on \in BOOLEAN, ControllerCommands(on)
      PROVE  Goal
  BY <1>7 DEF ControllerCommands
<1>8. ASSUME NEW t \in Loops, Serve(t) \/ LosePoll(t)
      PROVE  Goal
  BY <1>8 DEF Serve, LosePoll, LowerFlag
<1>9. CASE UNCHANGED vars
  BY <1>9 DEF vars
<1> QED
  BY <1>1, <1>2, <1>3, <1>4, <1>5, <1>6, <1>7, <1>8, <1>9, <1>10, NextCases

LEMMA CountsStep ==
    ASSUME Shape, OnePush, [Next]_vars
    PROVE  /\ edition' \in Nat /\ shown' \in {-1} \cup 0 .. edition'
           /\ events' \in 0 .. edition'
           /\ changes' \in 0 .. MaxChanges /\ faults' \in 0 .. MaxFaults
<1> DEFINE Goal == /\ edition' \in Nat /\ shown' \in {-1} \cup 0 .. edition'
                   /\ events' \in 0 .. edition'
                   /\ changes' \in 0 .. MaxChanges /\ faults' \in 0 .. MaxFaults
<1>0. /\ edition \in Nat /\ shown \in {-1} \cup 0 .. edition /\ events \in 0 .. edition
      /\ changes \in 0 .. MaxChanges /\ faults \in 0 .. MaxFaults
      /\ MaxChanges \in Nat /\ MaxFaults \in Nat
  BY BoundsAssumption DEF Shape
<1> DEFINE FaultsStep == faults' = faults \/ (faults < MaxFaults /\ faults' = faults + 1)
<1>a. ASSUME FaultsStep, shown' \in {-1, shown}, UNCHANGED <<edition, changes, events>>
      PROVE  Goal
  BY <1>0, <1>a
<1>1. ASSUME NEW t \in Tasks,
             Answered(t) \/ Sync(t) \/ LoseSync(t) \/ PushState(t) \/ Sleep(t) \/ Poll(t)
      PROVE  Goal
  <2>1. FaultsStep /\ UNCHANGED <<shown, edition, changes, events>>
    BY <1>1 DEF Answered, Sync, LoseSync, PushState, Sleep, Poll, Fault, bridgeVars, entityVars
  <2> QED
    BY <1>a, <2>1
<1>2. ASSUME NEW p \in pushes, Deliver(p) \/ LosePush(p) \/ GiveUp(p)
      PROVE  Goal
  <2>1. CASE Deliver(p)
    <3>1. p.edition \in 0 .. edition
      BY <1>0 DEF Shape, OnePush, PushRecord
    <3>2. shown' = (IF p.edition > shown THEN p.edition ELSE shown)
          /\ UNCHANGED <<edition, changes, events, faults>>
      BY <2>1 DEF Deliver, entityVars
    <3> QED
      BY <1>0, <3>1, <3>2
  <2>2. CASE LosePush(p) \/ GiveUp(p)
    BY <1>a, <2>2 DEF LosePush, GiveUp, Fault, bridgeVars, entityVars
  <2> QED
    BY <1>2, <2>1, <2>2
<1>3. ASSUME NEW reachable \in BOOLEAN, Setup(reachable)
      PROVE  Goal
  BY <1>a, <1>3 DEF Setup, bridgeVars, entityVars
<1>4. CASE \/ Subscribe \/ Restart \/ Reload \/ Refresh \/ LoseRefresh
           \/ ServeDelayed \/ GiveUpPoll
  <2>1. FaultsStep /\ shown' \in {-1, shown} /\ UNCHANGED <<edition, changes, events>>
    BY <1>4 DEF Subscribe, Restart, Reload, Refresh, LoseRefresh, ServeDelayed, GiveUpPoll, Fault,
       bridgeVars, entityVars
  <2> QED
    BY <1>a, <2>1
<1>5. CASE HandleEvent
  <2>1. events > 0 /\ events' = events - 1 /\ UNCHANGED <<shown, edition, changes, faults>>
    BY <1>5 DEF HandleEvent, bridgeVars
  <2> QED
    BY <1>0, <2>1
<1>6. CASE Change \/ Run \/ RunFails \/ PushEdited
  <2>1. \/ UNCHANGED <<edition, events>>
        \/ edition' = edition + 1 /\ events' \in {events, events + 1}
    BY <1>6 DEF Change, Run, RunFails, Execute, Becomes, PushEdited
  <2>2. FaultsStep /\ shown' = shown
    BY <1>6 DEF Change, Run, RunFails, Execute, Fault, PushEdited, bridgeVars
  <2>3. changes' = changes \/ (changes < MaxChanges /\ changes' = changes + 1)
    BY <1>6 DEF Change, Run, RunFails, Execute, PushEdited
  <2> QED
    BY <1>0, <2>1, <2>2, <2>3
<1>7. ASSUME NEW on \in BOOLEAN, ControllerCommands(on)
      PROVE  Goal
  BY <1>a, <1>7 DEF ControllerCommands, entityVars
<1>8. ASSUME NEW t \in Loops, Serve(t) \/ LosePoll(t)
      PROVE  Goal
  BY <1>a, <1>8 DEF Serve, LosePoll, Fault, bridgeVars, entityVars
<1>9. CASE UNCHANGED vars
  BY <1>a, <1>9 DEF vars, bridgeVars, entityVars
<1> QED
  BY <1>1, <1>2, <1>3, <1>4, <1>5, <1>6, <1>7, <1>8, <1>9, NextCases

LEMMA PushesStep == ASSUME Shape, [Next]_vars PROVE pushes' \in SUBSET PushRecord
<1>0. pushes \in SUBSET PushRecord
  BY DEF Shape
<1>a. \A p \in PushRecord : [p EXCEPT !.by = "event"] \in PushRecord
  BY DEF PushRecord
<1>b. ASSUME NEW by \in Tasks \cup {"event"}, Push(by)
      PROVE  pushes' \in SUBSET PushRecord
  <2>1. [value |-> entity, edition |-> edition, by |-> by] \in PushRecord
    BY DEF Shape, PushRecord
  <2> QED
    BY <1>0, <1>b, <2>1 DEF Push
<1>1. ASSUME NEW t \in Tasks,
             Answered(t) \/ Sync(t) \/ LoseSync(t) \/ PushState(t) \/ Sleep(t) \/ Poll(t)
      PROVE  pushes' \in SUBSET PushRecord
  BY <1>0, <1>1, <1>b DEF Answered, Sync, LoseSync, PushState, Sleep, Poll
<1>2. ASSUME NEW p \in pushes, Deliver(p) \/ LosePush(p) \/ GiveUp(p)
      PROVE  pushes' \in SUBSET PushRecord
  BY <1>0, <1>2, <1>a DEF Deliver, LosePush, GiveUp
<1>3. ASSUME NEW reachable \in BOOLEAN, Setup(reachable)
      PROVE  pushes' \in SUBSET PushRecord
  BY <1>0, <1>3 DEF Setup
<1>4. CASE Subscribe \/ Restart \/ Refresh \/ LoseRefresh \/ Change \/ Run \/ RunFails
  BY <1>0, <1>4 DEF Subscribe, Restart, Refresh, LoseRefresh, Change, Run, RunFails, Execute
<1>5. CASE HandleEvent
  BY <1>0, <1>5, <1>b DEF HandleEvent
<1>10. CASE ServeDelayed \/ GiveUpPoll \/ PushEdited
  BY <1>0, <1>10, <1>b DEF ServeDelayed, GiveUpPoll, PushEdited
<1>6. CASE Reload
  BY <1>0, <1>6, <1>a DEF Reload
<1>7. ASSUME NEW on \in BOOLEAN, ControllerCommands(on)
      PROVE  pushes' \in SUBSET PushRecord
  BY <1>0, <1>7 DEF ControllerCommands
<1>8. ASSUME NEW t \in Loops, Serve(t) \/ LosePoll(t)
      PROVE  pushes' \in SUBSET PushRecord
  BY <1>0, <1>8 DEF Serve, LosePoll
<1>9. CASE UNCHANGED vars
  BY <1>0, <1>9 DEF vars
<1> QED
  BY <1>1, <1>2, <1>3, <1>4, <1>5, <1>6, <1>7, <1>8, <1>9, <1>10, NextCases

\* A request that is still to be served was given up in a failure of its own.
LEMMA DelayedStep == ASSUME Shape, [Next]_vars PROVE delayed' \in 0 .. faults'
<1>0. delayed \in 0 .. faults /\ faults \in Nat
  BY BoundsAssumption DEF Shape
<1>a. ASSUME delayed' = delayed, faults' = faults \/ faults' = faults + 1
      PROVE  delayed' \in 0 .. faults'
  BY <1>0, <1>a
<1>1. ASSUME NEW t \in Tasks,
             Answered(t) \/ Sync(t) \/ LoseSync(t) \/ PushState(t) \/ Sleep(t) \/ Poll(t)
             \/ Serve(t) \/ LosePoll(t)
      PROVE  delayed' \in 0 .. faults'
  BY <1>1, <1>a DEF Answered, Sync, LoseSync, PushState, Sleep, Poll, Serve, LosePoll, Fault
<1>2. ASSUME NEW p \in pushes, Deliver(p) \/ LosePush(p) \/ GiveUp(p)
      PROVE  delayed' \in 0 .. faults'
  BY <1>2, <1>a DEF Deliver, LosePush, GiveUp, Fault
<1>3. ASSUME NEW reachable \in BOOLEAN, Setup(reachable)
      PROVE  delayed' \in 0 .. faults'
  BY <1>3, <1>a DEF Setup
<1>4. CASE Subscribe \/ Change \/ HandleEvent \/ Refresh \/ LoseRefresh \/ PushEdited
  BY <1>4, <1>a DEF Subscribe, Change, HandleEvent, Refresh, LoseRefresh, PushEdited, Fault
<1>5. CASE Run \/ RunFails
  BY <1>5, <1>a DEF Run, RunFails, Execute, Fault
<1>6. CASE Restart \/ Reload \/ GiveUpPoll
  <2>1. faults' = faults + 1 /\ delayed' \in {0} \cup (0 .. delayed + 1)
    BY <1>0, <1>6 DEF Restart, Reload, GiveUpPoll, Fault
  <2> QED
    BY <1>0, <2>1
<1>7. CASE ServeDelayed
  BY <1>0, <1>7 DEF ServeDelayed
<1>8. ASSUME NEW on \in BOOLEAN, ControllerCommands(on)
      PROVE  delayed' \in 0 .. faults'
  BY <1>8, <1>a DEF ControllerCommands
<1>9. CASE UNCHANGED vars
  BY <1>9, <1>a DEF vars
<1>10. Loops \subseteq Tasks
  BY DEF Tasks
<1> QED
  BY <1>1, <1>2, <1>3, <1>4, <1>5, <1>6, <1>7, <1>8, <1>9, <1>10, NextCases

LEMMA CarriersStep == ASSUME Shape, Carriers, [Next]_vars PROVE Carriers'
<1>0. task' \in [Tasks -> TaskRecord] /\ task \in [Tasks -> TaskRecord] /\ "command" \in Tasks
  BY TaskStep DEF Shape, Tasks, Loops
\* A task that did not carry anything, or goes on with what it carries.
<1>a. ASSUME NEW t \in Tasks, \A u \in Tasks : u # t => task'[u] = task[u],
             \/ task'[t].todo = <<>>
             \/ t = "command" /\ task'[t].at \notin {"begin", "idle", "poll"}
      PROVE  Carriers'
  BY <1>a DEF Carriers
<1>1. ASSUME NEW t \in Tasks, Answered(t) \/ Sync(t) \/ LoseSync(t) \/ PushState(t)
      PROVE  Carriers'
  <2>1. PICK at \in Stages : GoOn(t, at) /\ at \notin {"begin", "idle", "poll"}
    BY <1>1 DEF Answered, Sync, LoseSync, PushState, Stages
  <2>2. /\ task'[t].at = at
        /\ task'[t].todo = task[t].todo
        /\ \A u \in Tasks : u # t => task'[u] = task[u]
    BY <2>1, GoOnEffect
  <2> QED
    BY <1>a, <2>1, <2>2 DEF Carriers
<1>2. ASSUME NEW t \in Tasks, Sleep(t) \/ LosePoll(t)
      PROVE  Carriers'
  BY <1>0, <1>2, <1>a, IdleType DEF Sleep, LosePoll
<1>3. ASSUME NEW t \in Tasks, Poll(t)
      PROVE  Carriers'
  <2>1. task[t].at = "idle" /\ \A u \in Tasks : u # t => task'[u] = task[u]
    BY <1>0, <1>3 DEF Poll
  <2>2. task'[t].todo = task[t].todo
    BY <1>0, <1>3 DEF Poll, TaskRecord
  <2> QED
    BY <1>a, <2>1, <2>2 DEF Carriers
<1>4. ASSUME NEW t \in Tasks, Serve(t)
      PROVE  Carriers'
  <2>1. /\ task'[t].at = "answer"
        /\ t # "command" => task'[t].todo = <<>>
        /\ \A u \in Tasks : u # t => task'[u] = task[u]
    BY <1>0, <1>4 DEF Serve, TaskRecord
  <2> QED
    BY <1>a, <2>1
<1>5. ASSUME NEW p \in pushes, Deliver(p) \/ LosePush(p) \/ GiveUp(p)
      PROVE  Carriers'
  <2>1. /\ p.by \in Tasks => task'[p.by].at = "pushed"
        /\ \A u \in Tasks : task'[u].todo = task[u].todo
        /\ \A u \in Tasks : u # p.by => task'[u] = task[u]
    BY <1>5, ResumeEffect DEF Deliver, LosePush, GiveUp
  <2> QED
    BY <2>1 DEF Carriers
<1>6. ASSUME NEW reachable \in BOOLEAN, Setup(reachable) \/ Subscribe
      PROVE  Carriers'
  <2>1. PICK at \in Stages : GoOn("setup", at)
    BY <1>6 DEF Setup, Subscribe, Stages
  <2>2. "setup" \in Tasks /\ task["setup"].todo = <<>>
    BY DEF Tasks, Carriers
  <2>3. task'["setup"].todo = <<>> /\ \A u \in Tasks : u # "setup" => task'[u] = task[u]
    BY <2>1, <2>2, GoOnEffect
  <2> QED
    BY <1>a, <2>2, <2>3
<1>7. CASE Run \/ RunFails
  <2>1. task' = [task EXCEPT !["command"].todo = Tail(@)] /\ task["command"].at = "pushed"
    BY <1>7 DEF Run, RunFails, Execute
  <2>2. task'["command"].at = "pushed" /\ \A u \in Tasks : u # "command" => task'[u] = task[u]
    BY <1>0, <2>1 DEF TaskRecord
  <2> QED
    BY <1>0, <1>a, <2>2
<1>8. CASE Reload
  BY <1>8, IdleType DEF Reload, Carriers
<1>9. CASE UNCHANGED task
  BY <1>9 DEF Carriers
<1>10. CASE \/ Restart \/ Change \/ HandleEvent \/ Refresh \/ LoseRefresh
            \/ ServeDelayed \/ PushEdited \/ UNCHANGED vars
  BY <1>9, <1>10 DEF Restart, Change, HandleEvent, Refresh, LoseRefresh, ServeDelayed, PushEdited, vars
<1>13. CASE GiveUpPoll
  BY <1>0, <1>13, <1>a, IdleType DEF GiveUpPoll
<1>11. ASSUME NEW on \in BOOLEAN, ControllerCommands(on)
       PROVE  Carriers'
  BY <1>9, <1>11 DEF ControllerCommands
<1>12. Loops \subseteq Tasks
  BY DEF Tasks
<1> QED
  BY <1>1, <1>2, <1>3, <1>4, <1>5, <1>6, <1>7, <1>8, <1>10, <1>11, <1>12, <1>13, NextCases

\* The command loop executes the first of what it holds.
LEMMA ExecuteEffect ==
    ASSUME Shape, Run \/ RunFails
    PROVE  /\ Todo \in Seq(Commands) /\ Todo # <<>> /\ Head(Todo) \in Commands
           /\ Todo' = Tail(Todo)
           /\ ran' = Append(ran, Head(Todo).number)
           /\ UNCHANGED <<queue, issued, lost, changes>>
           /\ edition' \in {edition, edition + 1}
<1>1. /\ task["command"].todo # <<>>
      /\ task' = [task EXCEPT !["command"].todo = Tail(@)]
      /\ ran' = Append(ran, Head(Todo).number)
      /\ UNCHANGED <<queue, issued, lost, changes>>
      /\ edition' \in {edition, edition + 1}
  BY DEF Run, RunFails, Execute, Becomes, bridgeVars, Todo
<1>2. task \in [Tasks -> TaskRecord] /\ "command" \in Tasks
  BY DEF Shape, Tasks, Loops
<1>3. Todo \in Seq(Commands) /\ Todo' = Tail(Todo)
  BY <1>1, <1>2 DEF TaskRecord, Todo
<1>4. Head(Todo) \in Commands
  BY <1>1, <1>3, HeadTailProperties DEF Todo
<1> QED
  BY <1>1, <1>3, <1>4 DEF Todo

LEMMA EditionStep ==
    ASSUME Shape, InOrder, EditionBound, [Next]_vars
    PROVE  EditionBound'
<1>1. CASE UNCHANGED <<edition, changes, ran>>
  BY <1>1 DEF EditionBound, LastRan
<1>2. CASE Change \/ PushEdited
  <2>1. changes' = changes + 1 /\ edition' \in {edition, edition + 1} /\ ran' = ran
    BY <1>2 DEF Change, Becomes, PushEdited, commandVars
  <2>2. LastRan' = LastRan
    BY <2>1 DEF LastRan
  <2>3. LastRan \in Int
    <3>1. CASE ran = <<>>
      BY <3>1 DEF LastRan
    <3>2. CASE ran # <<>>
      <4>1. Len(ran) \in 1 .. Len(ran)
        BY <3>2, EmptySeq, LenProperties DEF Shape
      <4>2. ran[Len(ran)] \in 1 .. issued
        BY <4>1, ElementOfSeq DEF Shape
      <4> QED
        BY <3>2, <4>2 DEF LastRan
    <3> QED
      BY <3>1, <3>2
  <2> QED
    BY <2>1, <2>2, <2>3 DEF EditionBound, Shape
<1>3. CASE Run \/ RunFails
  <2> DEFINE n == Head(Todo).number
  <2>1. /\ Todo \in Seq(Commands) /\ Todo # <<>> /\ Head(Todo) \in Commands
        /\ ran' = Append(ran, n)
        /\ changes' = changes /\ edition' \in {edition, edition + 1}
    BY <1>3, ExecuteEffect
  <2>2. n \in 1 .. MaxCommands /\ MaxCommands \in Nat
    BY <2>1, BoundsAssumption DEF Commands
  <2>3. LastRan' = n
    <3>1. /\ Len(ran') = Len(ran) + 1 /\ ran'[Len(ran) + 1] = n /\ Len(ran) \in Nat
          /\ ran' \in Seq(Nat)
      <4>1. ran \in Seq(Nat)
        <5>1. 1 .. issued \subseteq Nat
          BY BoundsAssumption DEF Shape
        <5> QED
          BY <5>1, SeqMonotonic DEF Shape
      <4> QED
        BY <2>1, <2>2, <4>1, AppendProperties, LenProperties
    <3>2. ran' # <<>>
      BY <3>1, EmptySeq
    <3> QED
      BY <3>1, <3>2 DEF LastRan
  <2>4. LastRan \in Int /\ LastRan < n
    <3>1. CASE ran = <<>>
      BY <2>2, <3>1 DEF LastRan
    <3>2. CASE ran # <<>>
      <4>1. Len(ran) \in 1 .. Len(ran)
        BY <3>2, EmptySeq, LenProperties DEF Shape
      <4>2. ran[Len(ran)] \in 1 .. issued
        BY <4>1, ElementOfSeq DEF Shape
      <4>3. 1 \in 1 .. Len(Todo) /\ Head(Todo) = Todo[1]
        BY <2>1, EmptySeq, LenProperties, HeadTailProperties
      <4>4. ran[Len(ran)] < Todo[1].number
        BY <4>1, <4>3 DEF InOrder
      <4> QED
        BY <3>2, <4>2, <4>3, <4>4 DEF LastRan
    <3> QED
      BY <3>1, <3>2
  <2> HIDE DEF n
  <2> QED
    BY <2>1, <2>2, <2>3, <2>4 DEF EditionBound, Shape
<1>4. ASSUME NEW t \in Tasks,
             Answered(t) \/ Sync(t) \/ LoseSync(t) \/ PushState(t) \/ Sleep(t) \/ Poll(t)
             \/ Serve(t) \/ LosePoll(t)
      PROVE  UNCHANGED <<edition, changes, ran>>
  BY <1>4 DEF Answered, Sync, LoseSync, PushState, Sleep, Poll, Serve, LosePoll, entityVars, commandVars
<1>5. ASSUME NEW p \in pushes, Deliver(p) \/ LosePush(p) \/ GiveUp(p)
      PROVE  UNCHANGED <<edition, changes, ran>>
  BY <1>5 DEF Deliver, LosePush, GiveUp, entityVars, commandVars
<1>6. ASSUME NEW reachable \in BOOLEAN, Setup(reachable)
      PROVE  UNCHANGED <<edition, changes, ran>>
  BY <1>6 DEF Setup, entityVars, commandVars
<1>7. ASSUME NEW on \in BOOLEAN, ControllerCommands(on)
      PROVE  UNCHANGED <<edition, changes, ran>>
  BY <1>7 DEF ControllerCommands, entityVars
<1>8. CASE \/ Subscribe \/ Restart \/ HandleEvent \/ Reload \/ Refresh \/ LoseRefresh
           \/ ServeDelayed \/ GiveUpPoll \/ UNCHANGED vars
  BY <1>1, <1>8 DEF Subscribe, Restart, HandleEvent, Reload, Refresh, LoseRefresh, ServeDelayed,
     GiveUpPoll, vars, entityVars, commandVars
<1>9. Loops \subseteq Tasks
  BY DEF Tasks
<1> QED
  BY <1>1, <1>2, <1>3, <1>4, <1>5, <1>6, <1>7, <1>8, <1>9, NextCases

\* What happens to the commands, whichever action it is that does it.
LEMMA CommandCases ==
    ASSUME Shape, Carriers, [Next]_vars
    PROVE  \/ UNCHANGED <<queue, issued, ran, lost, Todo>>
           \/ \E on \in BOOLEAN :
                 /\ issued' = issued + 1
                 /\ queue' = Append(queue, [number |-> issued + 1, on |-> on])
                 /\ issued < MaxCommands
                 /\ UNCHANGED <<ran, lost, Todo>>
           \/ /\ queue' = <<>> /\ lost' = lost \cup Numbers(queue)
              /\ UNCHANGED <<issued, ran, Todo>>
           \/ /\ Todo = <<>> /\ Todo' = queue /\ queue' = <<>>
              /\ UNCHANGED <<issued, ran, lost>>
           \/ /\ Todo' = <<>> /\ lost' = lost \cup Numbers(Todo)
              /\ UNCHANGED <<queue, issued, ran>>
           \/ Run \/ RunFails
<1>0. task \in [Tasks -> TaskRecord] /\ "command" \in Tasks
  BY DEF Shape, Tasks, Loops
<1>1. CASE /\ \A u \in Tasks : task'[u].todo = task[u].todo
           /\ UNCHANGED <<queue, commandVars>>
  BY <1>0, <1>1 DEF Todo, commandVars
<1>2. ASSUME NEW on \in BOOLEAN, ControllerCommands(on)
      PROVE  /\ issued' = issued + 1
             /\ queue' = Append(queue, [number |-> issued + 1, on |-> on])
             /\ issued < MaxCommands
             /\ UNCHANGED <<ran, lost, Todo>>
  BY <1>2 DEF ControllerCommands, Todo
<1>3. CASE Restart \/ ServeDelayed
  BY <1>3 DEF Restart, ServeDelayed, Todo
<1>4. CASE Change \/ HandleEvent \/ Refresh \/ LoseRefresh \/ PushEdited \/ UNCHANGED vars
  BY <1>4 DEF Change, HandleEvent, Refresh, LoseRefresh, PushEdited, vars, bridgeVars, commandVars, Todo
<1>10. CASE GiveUpPoll
  <2>1. Todo = <<>>
    BY <1>0, <1>10 DEF GiveUpPoll, Carriers, Todo
  <2>2. Todo' = <<>>
    BY <1>0, <1>10, IdleType DEF GiveUpPoll, Todo
  <2> QED
    BY <1>10, <2>1, <2>2 DEF GiveUpPoll, bridgeVars, commandVars
<1>5. CASE Serve("command")
  <2>1. Todo = <<>>
    BY <1>0, <1>5 DEF Serve, Carriers, Todo
  <2>2. Todo' = queue
    BY <1>0, <1>5 DEF Serve, Todo, TaskRecord
  <2> QED
    BY <1>5, <2>1, <2>2 DEF Serve, commandVars
<1>6. CASE Serve("status")
  BY <1>0, <1>6 DEF Serve, Todo, commandVars, TaskRecord
<1>7. CASE LosePoll("command")
  BY <1>0, <1>7, IdleType DEF LosePoll, Todo, bridgeVars
<1>8. CASE LosePoll("status")
  <2>1. task["status"].todo = <<>>
    BY DEF Carriers, Tasks, Loops
  <2>2. task'["command"] = task["command"]
    BY <1>0, <1>8 DEF LosePoll
  <2> QED
    BY <1>8, <2>1, <2>2, NumbersEmpty DEF LosePoll, Todo, bridgeVars
<1>9. CASE Reload
  BY <1>0, <1>9, IdleType DEF Reload, Todo, bridgeVars
<1> QED
  BY <1>1, <1>2, <1>3, <1>4, <1>5, <1>6, <1>7, <1>8, <1>9, <1>10, Carrying, NextCases DEF Loops

LEMMA OrderStep ==
    ASSUME Shape, Carriers, Consecutive, InOrder, [Next]_vars
    PROVE  Consecutive' /\ InOrder'
<1>0. /\ Todo \in Seq(Commands) /\ queue \in Seq(Commands) /\ ran \in Seq(Nat)
      /\ Len(queue) \in Nat /\ Len(Todo) \in Nat /\ Len(ran) \in Nat /\ issued \in Nat
  <2>1. 1 .. issued \subseteq Nat /\ issued \in Nat
    BY BoundsAssumption DEF Shape
  <2>2. Todo \in Seq(Commands) /\ queue \in Seq(Commands) /\ ran \in Seq(Nat)
    BY <2>1, SeqMonotonic DEF Shape, Todo, TaskRecord, Tasks, Loops
  <2> QED
    BY <2>1, <2>2, LenProperties
<1>a. /\ \A i \in 1 .. Len(ran) : ran[i] \in Nat
      /\ \A i \in 1 .. Len(Todo) : Todo[i].number \in Nat
      /\ \A i \in 1 .. Len(queue) : queue[i].number \in Nat
  <2>1. \A i \in 1 .. Len(ran) : ran[i] \in Nat
    BY <1>0, ElementOfSeq
  <2>2. \A i \in 1 .. Len(Todo) : Todo[i] \in Commands
    BY <1>0, ElementOfSeq
  <2>3. \A i \in 1 .. Len(queue) : queue[i] \in Commands
    BY <1>0, ElementOfSeq
  <2>4. \A c \in Commands : c.number \in Nat
    BY BoundsAssumption DEF Commands
  <2> QED
    BY <2>1, <2>2, <2>3, <2>4
<1>b. Len(<<>>) = 0
  BY EmptySeq
<1>1. CASE UNCHANGED <<queue, issued, ran, lost, Todo>>
  BY <1>1 DEF Consecutive, InOrder
<1>2. ASSUME NEW on \in BOOLEAN,
             issued' = issued + 1,
             queue' = Append(queue, [number |-> issued + 1, on |-> on]),
             issued < MaxCommands,
             UNCHANGED <<ran, lost, Todo>>
      PROVE  Consecutive' /\ InOrder'
  <2> DEFINE c == [number |-> issued + 1, on |-> on]
  <2>1. c \in Commands /\ c.number = issued + 1
    BY <1>0, <1>2, BoundsAssumption DEF Commands
  <2>2. /\ Len(queue') = Len(queue) + 1
        /\ \A i \in 1 .. Len(queue) : queue'[i] = queue[i]
        /\ queue'[Len(queue) + 1] = c
    BY <1>0, <1>2, <2>1, AppendProperties
  <2> HIDE DEF c
  <2>3. Consecutive'
    <3> SUFFICES ASSUME NEW i \in 1 .. Len(queue')
                 PROVE  queue'[i].number = issued' - Len(queue') + i
      BY <1>0, <1>2, <2>2 DEF Consecutive
    <3>1. CASE i = Len(queue) + 1
      BY <1>0, <1>2, <2>1, <2>2, <3>1
    <3>2. CASE i # Len(queue) + 1
      BY <1>0, <1>2, <2>2, <3>2 DEF Consecutive
    <3> QED
      BY <3>1, <3>2
  <2>4. issued' - Len(queue') = issued - Len(queue)
    BY <1>0, <1>2, <2>2
  <2> QED
    BY <1>2, <2>3, <2>4 DEF InOrder
<1>3. CASE queue' = <<>> /\ UNCHANGED <<issued, ran, Todo>>
  <2>1. \A i \in 1 .. Len(ran) : ran[i] <= issued
    BY <1>0, <1>a DEF InOrder
  <2>2. \A i \in 1 .. Len(Todo) : Todo[i].number <= issued
    BY <1>0, <1>a DEF InOrder
  <2>3. issued' - Len(queue') = issued
    BY <1>0, <1>3, <1>b
  <2>4. Consecutive'
    BY <1>0, <1>3, <1>b DEF Consecutive
  <2> QED
    BY <1>3, <2>1, <2>2, <2>3, <2>4 DEF InOrder
<1>4. CASE Todo' = queue /\ queue' = <<>> /\ UNCHANGED <<issued, ran, lost>>
  <2>1. Consecutive'
    BY <1>0, <1>4, <1>b DEF Consecutive
  <2>2. \A i, j \in 1 .. Len(queue) : i < j => queue[i].number < queue[j].number
    BY <1>0 DEF Consecutive
  <2>3. \A i \in 1 .. Len(ran), j \in 1 .. Len(queue) : ran[i] < queue[j].number
    <3>1. \A i \in 1 .. Len(ran) : ran[i] \in Int /\ ran[i] <= issued - Len(queue)
      BY <1>0, <1>a DEF InOrder
    <3>2. \A j \in 1 .. Len(queue) : queue[j].number = issued - Len(queue) + j
      BY DEF Consecutive
    <3>3. issued \in Nat /\ Len(queue) \in Nat
      BY <1>0
    <3> QED
      BY <3>1, <3>2, <3>3
  <2>4. \A i \in 1 .. Len(ran) : ran[i] <= issued
    BY <1>0, <1>a DEF InOrder
  <2>5. \A i \in 1 .. Len(queue) : queue[i].number <= issued
    BY <1>0 DEF Consecutive
  <2>6. issued' - Len(queue') = issued
    BY <1>0, <1>4, <1>b
  <2> QED
    BY <1>4, <2>1, <2>2, <2>3, <2>4, <2>5, <2>6 DEF InOrder
<1>5. CASE Todo' = <<>> /\ UNCHANGED <<queue, issued, ran>>
  BY <1>5, <1>b DEF Consecutive, InOrder
<1>6. CASE Run \/ RunFails
  <2> DEFINE n == Head(Todo).number
  <2>1. /\ Todo # <<>>
        /\ Todo' = Tail(Todo)
        /\ ran' = Append(ran, n)
        /\ UNCHANGED <<queue, issued>>
    BY <1>6, ExecuteEffect
  <2>2. /\ Head(Todo) = Todo[1] /\ 1 \in 1 .. Len(Todo)
        /\ Len(Todo') = Len(Todo) - 1
        /\ \A i \in 1 .. Len(Todo') : Todo'[i] = Todo[i + 1]
    BY <1>0, <2>1, HeadTailProperties, EmptySeq
  <2>3. n = Todo[1].number /\ n \in Nat
    BY <1>a, <2>2
  <2>4. /\ Len(ran') = Len(ran) + 1
        /\ \A i \in 1 .. Len(ran) : ran'[i] = ran[i]
        /\ ran'[Len(ran) + 1] = n
    BY <1>0, <2>1, <2>3, AppendProperties
  <2> HIDE DEF n
  <2>5. \A i \in 1 .. Len(Todo') : i + 1 \in 1 .. Len(Todo) /\ 1 < i + 1
    BY <1>0, <2>2
  <2>6. \A i, j \in 1 .. Len(ran') : i < j => ran'[i] < ran'[j]
    <3> SUFFICES ASSUME NEW i \in 1 .. Len(ran'), NEW j \in 1 .. Len(ran'), i < j
                 PROVE  ran'[i] < ran'[j]
      OBVIOUS
    <3>1. i \in 1 .. Len(ran)
      BY <1>0, <2>4
    <3>2. CASE j \in 1 .. Len(ran)
      BY <2>4, <3>1, <3>2 DEF InOrder
    <3>3. CASE j = Len(ran) + 1
      <4>1. ran[i] < Todo[1].number
        BY <2>2, <3>1 DEF InOrder
      <4> QED
        BY <2>3, <2>4, <3>1, <3>3, <4>1
    <3>4. j \in 1 .. Len(ran) \/ j = Len(ran) + 1
      BY <1>0, <2>4
    <3> QED
      BY <3>2, <3>3, <3>4
  <2>7. \A i, j \in 1 .. Len(Todo') : i < j => Todo'[i].number < Todo'[j].number
    <3> SUFFICES ASSUME NEW i \in 1 .. Len(Todo'), NEW j \in 1 .. Len(Todo'), i < j
                 PROVE  Todo'[i].number < Todo'[j].number
      OBVIOUS
    <3>1. i + 1 \in 1 .. Len(Todo) /\ j + 1 \in 1 .. Len(Todo) /\ i + 1 < j + 1
      BY <2>5
    <3>2. Todo[i + 1].number < Todo[j + 1].number
      BY <3>1 DEF InOrder
    <3> QED
      BY <2>2, <3>2
  <2>8. \A i \in 1 .. Len(ran'), j \in 1 .. Len(Todo') : ran'[i] < Todo'[j].number
    <3> SUFFICES ASSUME NEW i \in 1 .. Len(ran'), NEW j \in 1 .. Len(Todo')
                 PROVE  ran'[i] < Todo'[j].number
      OBVIOUS
    <3>1. CASE i \in 1 .. Len(ran)
      BY <2>2, <2>4, <2>5, <3>1 DEF InOrder
    <3>2. CASE i = Len(ran) + 1
      <4>1. Todo[1].number < Todo[j + 1].number
        BY <2>2, <2>5 DEF InOrder
      <4> QED
        BY <2>2, <2>3, <2>4, <3>2, <4>1
    <3> QED
      BY <1>0, <2>4, <3>1, <3>2
  <2>9. \A i \in 1 .. Len(ran') : ran'[i] <= issued - Len(queue)
    <3> SUFFICES ASSUME NEW i \in 1 .. Len(ran')
                 PROVE  ran'[i] <= issued - Len(queue)
      OBVIOUS
    <3>1. CASE i \in 1 .. Len(ran)
      BY <2>4, <3>1 DEF InOrder
    <3>2. CASE i = Len(ran) + 1
      BY <2>2, <2>3, <2>4, <3>2 DEF InOrder
    <3> QED
      BY <1>0, <2>4, <3>1, <3>2
  <2>10. \A i \in 1 .. Len(Todo') : Todo'[i].number <= issued - Len(queue)
    BY <2>2, <2>5 DEF InOrder
  <2> QED
    BY <2>1, <2>6, <2>7, <2>8, <2>9, <2>10 DEF Consecutive, InOrder
<1> QED
  BY <1>1, <1>2, <1>3, <1>4, <1>5, <1>6, CommandCases

LEMMA AccountedStep ==
    ASSUME Shape, Carriers, Accounted, [Next]_vars
    PROVE  Accounted'
<1>1. CASE UNCHANGED <<queue, issued, ran, lost, Todo>>
  BY <1>1 DEF Accounted
<1>2. ASSUME NEW on \in BOOLEAN,
             issued' = issued + 1,
             queue' = Append(queue, [number |-> issued + 1, on |-> on]),
             issued < MaxCommands,
             UNCHANGED <<ran, lost, Todo>>
      PROVE  Accounted'
  <2>1. issued \in Nat /\ queue \in Seq(Commands)
    BY DEF Shape
  <2>2. [number |-> issued + 1, on |-> on] \in Commands
    BY <1>2, <2>1, BoundsAssumption DEF Commands
  <2>3. Numbers(queue') = Numbers(queue) \cup {issued + 1}
    BY <1>2, <2>1, <2>2, NumbersAppend
  <2>4. 1 .. issued' = (1 .. issued) \cup {issued + 1}
    BY <1>2, <2>1
  <2> QED
    BY <1>2, <2>3, <2>4 DEF Accounted
<1>3. CASE queue' = <<>> /\ lost' = lost \cup Numbers(queue) /\ UNCHANGED <<issued, ran, Todo>>
  BY <1>3, NumbersEmpty DEF Accounted
<1>4. CASE Todo = <<>> /\ Todo' = queue /\ queue' = <<>> /\ UNCHANGED <<issued, ran, lost>>
  BY <1>4, NumbersEmpty DEF Accounted
<1>5. CASE Todo' = <<>> /\ lost' = lost \cup Numbers(Todo) /\ UNCHANGED <<queue, issued, ran>>
  BY <1>5, NumbersEmpty DEF Accounted
<1>6. CASE Run \/ RunFails
  <2>1. /\ Todo \in Seq(Commands) /\ Todo # <<>> /\ Head(Todo) \in Commands
        /\ Todo' = Tail(Todo)
        /\ ran' = Append(ran, Head(Todo).number)
        /\ UNCHANGED <<queue, issued, lost>>
    BY <1>6, ExecuteEffect
  <2>2. Numbers(Todo) = {Head(Todo).number} \cup Numbers(Tail(Todo))
    BY <2>1, NumbersTail
  <2>3. ToSet(ran') = ToSet(ran) \cup {Head(Todo).number}
    <3>1. ran \in Seq(Nat)
      <4>1. 1 .. issued \subseteq Nat
        BY BoundsAssumption DEF Shape
      <4> QED
        BY <4>1, SeqMonotonic DEF Shape
    <3>2. Head(Todo).number \in Nat
      BY <2>1, BoundsAssumption DEF Commands
    <3>3. PICK number \in Nat : number = Head(Todo).number
      BY <3>2
    <3>4. ran' = Append(ran, number)
      BY <2>1, <3>3
    <3>5. ToSet(Append(ran, number)) = ToSet(ran) \cup {number}
      BY <3>1, ToSetAppend
    <3> QED
      BY <3>3, <3>4, <3>5
  <2>4. PICK number, rest : number = Head(Todo).number /\ rest = Numbers(Tail(Todo))
    OBVIOUS
  <2>5. Numbers(Todo) = {number} \cup rest /\ Numbers(Todo') = rest /\ ToSet(ran') = ToSet(ran) \cup {number}
    BY <2>1, <2>2, <2>3, <2>4
  <2> QED
    BY <2>1, <2>5 DEF Accounted
<1> QED
  BY <1>1, <1>2, <1>3, <1>4, <1>5, <1>6, CommandCases

LEMMA StepInv == IInv /\ [Next]_vars => IInv'
<1> SUFFICES ASSUME IInv, [Next]_vars PROVE IInv'
  OBVIOUS
<1>1. Shape /\ OnePush /\ EditionBound /\ Carriers /\ Consecutive /\ InOrder /\ Accounted
  BY DEF IInv
<1>2. Shape'
  <2>1. task' \in [Tasks -> TaskRecord]
    BY <1>1, TaskStep
  <2>2. pushes' \in SUBSET PushRecord
    BY <1>1, PushesStep
  <2> QED
    BY <1>1, <2>1, <2>2, FlagsStep, CountsStep, DelayedStep, RanStep DEF Shape
<1>3. OnePush' /\ EditionBound' /\ Carriers' /\ Consecutive' /\ InOrder' /\ Accounted'
  BY <1>1, OnePushStep, EditionStep, CarriersStep, OrderStep, AccountedStep
<1> QED
  BY <1>2, <1>3 DEF IInv

LEMMA Invariance == Spec => []IInv
BY InitInv, StepInv, PTL DEF Spec

-----------------------------------------------------------------------------
(* The theorems *)

\* The numbers of the commands in the queue fit the bound, and so does the edition.
LEMMA BoundsFollow ==
    ASSUME IInv
    PROVE  Len(queue) <= MaxCommands /\ edition \in Editions
<1>1. Shape /\ EditionBound /\ Consecutive
  BY DEF IInv
<1>2. Len(queue) \in Nat /\ Len(queue) <= MaxCommands
  <2>1. Len(queue) \in Nat
    BY <1>1, LenProperties DEF Shape
  <2> QED
    BY <1>1, <2>1, BoundsAssumption DEF Shape, Consecutive
<1>3. LastRan \in 0 .. MaxCommands
  <2>1. CASE ran = <<>>
    BY <2>1, BoundsAssumption DEF LastRan
  <2>2. CASE ran # <<>>
    <3>1. Len(ran) \in 1 .. Len(ran)
      BY <1>1, <2>2, EmptySeq, LenProperties DEF Shape
    <3>2. ran[Len(ran)] \in 1 .. issued
      BY <1>1, <3>1, ElementOfSeq DEF Shape
    <3> QED
      BY <1>1, <2>2, <3>2, BoundsAssumption DEF LastRan, Shape
  <2> QED
    BY <2>1, <2>2
<1>4. edition \in Editions
  BY <1>1, <1>3, BoundsAssumption DEF Shape, EditionBound, Editions
<1> QED
  BY <1>2, <1>4

LEMMA TypeFollows == IInv => TypeOK
<1> SUFFICES ASSUME IInv PROVE TypeOK
  OBVIOUS
<1>1. Shape /\ OnePush
  BY DEF IInv
<1>2. \A p \in pushes :
          /\ p.value \in BOOLEAN /\ p.edition \in 0 .. edition
          /\ p.by \in Tasks => task[p.by].at = "pushing"
  <2> SUFFICES ASSUME NEW p \in pushes
               PROVE  /\ p.value \in BOOLEAN /\ p.edition \in 0 .. edition
                      /\ p.by \in Tasks => task[p.by].at = "pushing"
    OBVIOUS
  <2>1. p.value \in BOOLEAN /\ p.edition \in Nat
    BY <1>1 DEF Shape, PushRecord
  <2>2. p.edition <= edition /\ (p.by \in Tasks => task[p.by].at = "pushing")
    BY <1>1 DEF OnePush
  <2>3. p.edition \in 0 .. edition
    BY <1>1, <2>1, <2>2 DEF Shape
  <2> QED
    BY <2>1, <2>2, <2>3
<1>3. \A t \in Tasks :
          /\ task[t].at \in Stages
          /\ task[t].todo \in Seq(Commands)
          /\ task[t].at = "pushing" => \E p \in pushes : p.by = t
  BY <1>1 DEF Shape, OnePush, TaskRecord
<1> QED
  BY <1>1, <1>2, <1>3, BoundsFollow DEF Shape, TypeOK, Stages

\* Every variable keeps its type: the queue, the editions and the counters keep
\* within their bounds, and a task of the coordinator waits for a push exactly
\* while that is on its way (async_push_export_state is awaited).
THEOREM TypeCorrect == Spec => []TypeOK
BY Invariance, TypeFollows, PTL

\* Commands are executed in the order in which controllers gave them, none twice,
\* and none leaves the queue of the bridge (poll_commands) but to the command
\* loop, to a crash of either side or with an answer that nobody gets.
THEOREM CommandsKept == Spec => []CommandsAccounted
<1>1. IInv => CommandsAccounted
  <2> SUFFICES ASSUME IInv PROVE CommandsAccounted
    OBVIOUS
  <2>1. DOMAIN ran = 1 .. Len(ran)
    BY LenProperties DEF IInv, Shape
  <2> QED
    BY <2>1 DEF IInv, InOrder, Accounted, Todo, CommandsAccounted
<1> QED
  BY <1>1, Invariance, PTL

-----------------------------------------------------------------------------
(* The refinement *)

LEMMA NumberType == \A c \in Commands : c.number \in Nat
BY BoundsAssumption DEF Commands

\* What the loop holds was given before what the queue holds.
LEMMA Halves ==
    ASSUME Shape, Consecutive, InOrder
    PROVE  \E n \in 0 .. issued :
              /\ \A m \in Numbers(queue) : m \in Nat /\ m > n
              /\ \A m \in Numbers(Todo) : m \in Nat /\ m <= n
<1>1. /\ Todo \in Seq(Commands) /\ queue \in Seq(Commands)
      /\ Len(queue) \in Nat /\ issued \in Nat /\ Len(queue) <= issued
  BY BoundsAssumption, LenProperties DEF Shape, Consecutive, Todo, TaskRecord, Tasks, Loops
<1>2. DOMAIN queue = 1 .. Len(queue) /\ DOMAIN Todo = 1 .. Len(Todo)
  BY <1>1, LenProperties
<1>3. \A i \in 1 .. Len(Todo) : Todo[i].number \in Nat
  BY <1>1, ElementOfSeq, NumberType
<1>4. PICK n : n = issued - Len(queue)
  OBVIOUS
<1>5. n \in 0 .. issued
  BY <1>1, <1>4
<1>6. \A i \in 1 .. Len(queue) : queue[i].number = n + i
  BY <1>1, <1>4 DEF Consecutive
<1>7. \A m \in Numbers(queue) : m \in Nat /\ m > n
  BY <1>1, <1>2, <1>5, <1>6 DEF Numbers
<1>8. \A i \in 1 .. Len(Todo) : Todo[i].number <= n
  BY <1>4 DEF InOrder
<1>9. \A m \in Numbers(Todo) : m \in Nat /\ m <= n
  BY <1>2, <1>3, <1>8 DEF Numbers
<1> QED
  BY <1>5, <1>7, <1>9

\* The command that runs is older than the others the loop holds.
LEMMA HeadOldest ==
    ASSUME Shape, InOrder, Todo # <<>>
    PROVE  \A m \in Numbers(Tail(Todo)) : m \in Nat /\ Head(Todo).number < m
<1>1. Todo \in Seq(Commands)
  BY DEF Shape, Todo, TaskRecord, Tasks, Loops
<1>2. /\ Tail(Todo) \in Seq(Commands) /\ Len(Tail(Todo)) \in Nat
      /\ Len(Todo) = Len(Tail(Todo)) + 1 /\ Head(Todo) = Todo[1]
      /\ \A i \in 1 .. Len(Tail(Todo)) : Tail(Todo)[i] = Todo[i + 1]
  BY <1>1, HeadTailProperties, LenProperties
<1>3. DOMAIN Tail(Todo) = 1 .. Len(Tail(Todo))
  BY <1>2, LenProperties
<1>4. PICK n \in Nat : n = Len(Tail(Todo))
  BY <1>2
<1>5. ASSUME NEW i \in 1 .. n
      PROVE  Tail(Todo)[i].number \in Nat /\ Head(Todo).number < Tail(Todo)[i].number
  <2>1. 1 \in 1 .. n + 1 /\ i + 1 \in 1 .. n + 1 /\ 1 < i + 1
    OBVIOUS
  <2>2. Todo[1].number < Todo[i + 1].number
    BY <1>2, <1>4, <2>1 DEF InOrder
  <2>3. Tail(Todo)[i] \in Commands
    BY <1>2, <1>4, ElementOfSeq
  <2>4. Tail(Todo)[i].number \in Nat
    BY <2>3, NumberType
  <2> QED
    BY <1>2, <1>4, <2>2, <2>4
<1> QED
  BY <1>3, <1>4, <1>5 DEF Numbers

LEMMA OrderedInit == Init => Ordered!Init
<1> SUFFICES ASSUME Init PROVE Ordered!Init
  OBVIOUS
<1>1. issued = 0 /\ queue = <<>> /\ ran = <<>> /\ Todo = <<>>
  BY IdleType DEF Init, Todo, Tasks, Loops
<1>2. underway = {}
  BY <1>1, NumbersEmpty DEF underway, Todo
<1> QED
  BY <1>1, <1>2 DEF Ordered!Init

LEMMA OrderedStep ==
    ASSUME Shape, Carriers, Consecutive, InOrder, [Next]_vars
    PROVE  Ordered!Next \/ UNCHANGED <<issued, underway, ran>>
<1>0. underway = Numbers(queue) \cup Numbers(Todo) /\ underway' = Numbers(queue') \cup Numbers(Todo')
  BY DEF underway, Todo
<1>1. PICK n \in 0 .. issued :
         /\ \A m \in Numbers(queue) : m \in Nat /\ m > n
         /\ \A m \in Numbers(Todo) : m \in Nat /\ m <= n
  BY Halves
<1>2. n \in Nat
  BY BoundsAssumption, <1>1 DEF Shape
<1>3. CASE UNCHANGED <<queue, issued, ran, lost, Todo>>
  BY <1>0, <1>3
<1>4. ASSUME NEW on \in BOOLEAN,
             issued' = issued + 1,
             queue' = Append(queue, [number |-> issued + 1, on |-> on]),
             issued < MaxCommands,
             UNCHANGED <<ran, lost, Todo>>
      PROVE  Ordered!Issue
  <2>1. issued \in Nat /\ queue \in Seq(Commands)
    BY BoundsAssumption DEF Shape
  <2>2. [number |-> issued + 1, on |-> on] \in Commands
    BY <1>4, <2>1, BoundsAssumption DEF Commands
  <2>3. Numbers(queue') = Numbers(queue) \cup {issued + 1}
    BY <1>4, <2>1, <2>2, NumbersAppend
  <2>4. underway' = underway \cup {issued'}
    BY <1>0, <1>4, <2>3
  <2> QED
    BY <1>4, <2>4 DEF Ordered!Issue
<1>5. CASE queue' = <<>> /\ UNCHANGED <<issued, ran, Todo>>
  <2>1. underway' = {m \in underway : m <= n}
    BY <1>0, <1>1, <1>2, <1>5, NumbersEmpty
  <2>2. Ordered!LoseNewest(n)
    BY <1>5, <2>1 DEF Ordered!LoseNewest
  <2> QED
    BY <2>2 DEF Ordered!Next
<1>6. CASE Todo = <<>> /\ Todo' = queue /\ queue' = <<>> /\ UNCHANGED <<issued, ran, lost>>
  BY <1>0, <1>6, NumbersEmpty
<1>7. CASE Todo' = <<>> /\ UNCHANGED <<queue, issued, ran>>
  <2>1. underway' = {m \in underway : m > n}
    BY <1>0, <1>1, <1>2, <1>7, NumbersEmpty
  <2>2. Ordered!LoseOldest(n)
    BY <1>7, <2>1 DEF Ordered!LoseOldest
  <2> QED
    BY <2>2 DEF Ordered!Next
<1>8. CASE Run \/ RunFails
  <2>1. /\ Todo \in Seq(Commands) /\ Todo # <<>> /\ Head(Todo) \in Commands
        /\ Todo' = Tail(Todo)
        /\ ran' = Append(ran, Head(Todo).number)
        /\ UNCHANGED <<queue, issued>>
    BY <1>8, ExecuteEffect
  <2>2. PICK number, rest, queued :
           number = Head(Todo).number /\ rest = Numbers(Tail(Todo)) /\ queued = Numbers(queue)
    OBVIOUS
  <2>3. Numbers(Todo) = {number} \cup rest
    BY <2>1, <2>2, NumbersTail
  <2>4. number \in Nat /\ \A m \in rest : m \in Nat /\ number < m
    BY <2>1, <2>2, HeadOldest, BoundsAssumption DEF Commands
  <2>5. \A m \in queued : m \in Nat /\ number < m
    BY <1>1, <1>2, <2>2, <2>3, <2>4
  <2>6. underway = queued \cup {number} \cup rest /\ underway' = queued \cup rest
    BY <1>0, <2>1, <2>2, <2>3
  <2>7. underway' = underway \ {number} /\ \A m \in underway : number <= m
    BY <2>4, <2>5, <2>6
  <2>8. Ordered!Execute(number)
    BY <2>1, <2>2, <2>7 DEF Ordered!Execute
  <2> QED
    BY <2>6, <2>8 DEF Ordered!Next
<1> QED
  BY <1>3, <1>4, <1>5, <1>6, <1>7, <1>8, CommandCases DEF Ordered!Next

\* Through queue, polls, lost answers, restarts and reloads, the commands of
\* controllers (apply_controller_on_off) keep their order and none comes back once
\* it has run (_async_execute_command) or gone down.
THEOREM Implements == Spec => ImplementsOrdered
<1>1. Init => Ordered!Init
  BY OrderedInit
<1>2. IInv /\ [Next]_vars => [Ordered!Next]_<<issued, underway, ran>>
  BY OrderedStep DEF IInv
<1> QED
  BY <1>1, <1>2, Invariance, PTL DEF Spec, ImplementsOrdered, Ordered!Spec
=============================================================================
