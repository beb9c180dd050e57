-------------------------- MODULE CoverSlot_proofs --------------------------
(***************************************************************************)
(* Theorems about CoverSlot, for any scale, any number of HTTP tasks and    *)
(* any states, attributes and lifts.                                        *)
(***************************************************************************)
EXTENDS CoverSlot, SequenceTheorems, TLAPS

-----------------------------------------------------------------------------
(* The inductive invariant *)

FieldNames == {"position", "target", "moving"}
Slots == [position : Positions, target : Positions, moving : BOOLEAN]
Values(f) == IF f = "moving" THEN BOOLEAN ELSE Positions
Stores ==
    [field : {"position", "target"}, value : Positions, swap : BOOLEAN]
    \cup [field : {"moving"}, value : BOOLEAN, swap : BOOLEAN]
Commands == [kind : {"open", "close", "stop", "position"}, position : Positions \cup {None}]
Views == [status : Motions, target : 0 .. Full * Unit, position : 0 .. Full * Unit, dataver : Nat]

Loaded == {got \in Seq(Positions) : Len(got) < 3}
Read ==
    {got \in Seq(Positions \cup BOOLEAN) :
        Len(got) < 5 /\ \A i \in 1 .. Len(got) : got[i] \in Values(ReadOrder[i])}

TaskStates ==
    {Idle}
    \cup [at : {"load"}, ha : Report, got : Loaded, alone : BOOLEAN]
    \cup [at : {"store"}, ha : Report, alone : BOOLEAN, changed : BOOLEAN, todo : Seq(Stores)]
    \cup [at : {"mark"}, alone : BOOLEAN]

StackStates ==
    {Waiting}
    \cup [at : {"stopping", "notify"}]
    \cup [at : {"commanding"}, command : Commands, todo : Seq(Stores)]
    \cup [at : {"reading"}, dataver : Nat, got : Read, old : Slots \cup {None}]

TypeInv ==
    /\ slot \in Slots /\ dataver \in Nat /\ pending \in BOOLEAN /\ reports \in BOOLEAN
    /\ commands \in Seq(Commands)
    /\ task \in [Tasks -> TaskStates]
    /\ stack \in StackStates
    /\ view \in Views
    /\ inputs \in [report : 0 .. MaxReports, other : 0 .. MaxInputs]
    /\ last \in [ha : Report, misses : Nat] \cup {None}
    /\ goal \in Nat \cup {None}

\* No version is read before it is counted.
VersionBound ==
    /\ view.dataver <= dataver
    /\ stack.at = "reading" => stack.dataver <= dataver

Marked == \E t \in Tasks : task[t].at = "mark"

\* What a read in progress has got is what the slot has.
Matching ==
    /\ \A i \in 1 .. Len(stack.got) : stack.got[i] = slot[ReadOrder[i]]
    /\ stack.old \in {slot, None}

\* So it is until a version is counted that the read does not carry and a report
\* is owed.
ReadSound ==
    stack.at = "reading" /\ ~Uncounted
        /\ (stack.dataver = dataver \/ ~(pending \/ reports \/ Marked))
    => Matching

\* A report that runs alone.
Alone(t) == task[t].at \in {"load", "store", "mark"} /\ task[t].alone

AloneInv ==
    \A t \in Tasks : Alone(t) =>
        /\ \A u \in Tasks \ {t} : task[u] = Idle
        /\ stack.at \notin {"stopping", "commanding"}

\* What a sequence of stores consists of, and where it leads.
Elements(todo) == {todo[i] : i \in 1 .. Len(todo)}

Agrees(todo, end) == \A s \in Elements(todo) : s.value = end[s.field]
Touches(todo, f) == \E s \in Elements(todo) : s.field = f

Leads(from, todo, end) ==
    Agrees(todo, end) /\ \A f \in FieldNames : from[f] = end[f] \/ Touches(todo, f)

Healed(ha, end) ==
    /\ ha.position # None => end.position = ha.position
    /\ ha.motion = "stopped" =>
          /\ Shown(end) = "stopped"
          /\ ha.position # None => end.target = end.position

Opposite(motion, end) == {motion, Shown(end)} = {"opening", "closing"}

\* What the slot is like after the last report.
Good(report, end) ==
    /\ Healed(report.ha, end)
    /\ report.misses \in {0, 1}
    /\ report.misses = 1 => Opposite(report.ha.motion, end)

\* What a report that runs alone has loaded and what it will leave.
LoadInv ==
    \A t \in Tasks : task[t].at = "load" /\ task[t].alone =>
        \A i \in 1 .. Len(task[t].got) : task[t].got[i] = slot[LoadOrder[i]]

Repairs(previous, ha, end) ==
    /\ Healed(ha, end)
    /\ previous # None /\ previous.ha.motion = ha.motion /\ previous.misses = 1 =>
          ~Opposite(ha.motion, end)

StoreInv ==
    \A t \in Tasks : task[t].at = "store" /\ task[t].alone =>
        \E end \in Slots : Leads(slot, task[t].todo, end) /\ Repairs(last, task[t].ha, end)

LastInv ==
    last # None =>
        /\ stack.at \notin {"stopping", "commanding"}
        /\ \A t \in Tasks : task[t] = Idle \/ Alone(t)
        /\ last.misses \in {0, 1}
        /\ (\E t \in Tasks : task[t].at = "store") \/ Good(last, slot)

\* The target a controller asked for is there, or the command under way will
\* store it.
GoalInv ==
    goal # None =>
        /\ \A t \in Tasks : task[t] = Idle
        /\ stack.at # "stopping"
        /\ IF stack.at = "commanding"
           THEN \E end \in Slots :
                   Leads(slot, stack.todo, end) /\ Percent(end.target) \in goal .. goal + Unit - 1
           ELSE Percent(slot.target) \in goal .. goal + Unit - 1

IInv ==
    /\ TypeInv /\ VersionBound /\ ReadSound /\ VersionSound /\ NothingLost
    /\ AloneInv /\ LoadInv /\ StoreInv /\ LastInv /\ GoalInv
-----------------------------------------------------------------------------
(* Slots and sequences of stores *)

\* Storing a value replaces one field.
LEMMA SlotWith ==
    ASSUME NEW c \in Slots, NEW s \in Stores
    PROVE  /\ s.field \in FieldNames
           /\ [c EXCEPT ![s.field] = s.value] \in Slots
           /\ [c EXCEPT ![s.field] = s.value][s.field] = s.value
           /\ \A f \in FieldNames \ {s.field} : [c EXCEPT ![s.field] = s.value][f] = c[f]
           /\ c[s.field] = s.value => [c EXCEPT ![s.field] = s.value] = c
<1>1. s.field \in FieldNames
  BY DEF Stores, FieldNames
<1>2. CASE s.field = "position"
  <2>1. s.value \in Positions
    BY <1>2 DEF Stores
  <2> QED
    BY <1>2, <2>1 DEF Slots, FieldNames
<1>3. CASE s.field = "target"
  <2>1. s.value \in Positions
    BY <1>3 DEF Stores
  <2> QED
    BY <1>3, <2>1 DEF Slots, FieldNames
<1>4. CASE s.field = "moving"
  <2>1. s.value \in BOOLEAN
    BY <1>4 DEF Stores
  <2> QED
    BY <1>4, <2>1 DEF Slots, FieldNames
<1> QED
  BY <1>1, <1>2, <1>3, <1>4 DEF FieldNames

LEMMA SlotFields ==
    ASSUME NEW c \in Slots
    PROVE  /\ c.position \in Positions /\ c.target \in Positions /\ c.moving \in BOOLEAN
           /\ \A f \in FieldNames : c[f] \in Values(f)
           /\ c # None
BY NoneAssumption DEF Slots, FieldNames, Values, Positions

LEMMA SlotEqual ==
    ASSUME NEW c \in Slots, NEW d \in Slots, \A f \in FieldNames : c[f] = d[f]
    PROVE  c = d
BY DEF Slots, FieldNames

LEMMA Orders ==
    /\ Len(LoadOrder) = 3 /\ Len(ReadOrder) = 5
    /\ LoadOrder[1] = "position" /\ LoadOrder[2] = "target" /\ LoadOrder[3] = "moving"
    /\ ReadOrder[1] = "position" /\ ReadOrder[2] = "target" /\ ReadOrder[3] = "moving"
    /\ ReadOrder[4] = "target" /\ ReadOrder[5] = "position"
BY DEF LoadOrder, ReadOrder

\* What is appended to what has been read.
LEMMA Appended ==
    ASSUME NEW S, NEW got \in Seq(S), NEW v \in S
    PROVE  /\ Append(got, v) \in Seq(S) /\ Len(Append(got, v)) = Len(got) + 1 /\ Len(got) \in Nat
           /\ \A i \in 1 .. Len(got) : Append(got, v)[i] = got[i]
           /\ Append(got, v)[Len(got) + 1] = v
BY AppendProperties, LenProperties

LEMMA ElementsOf ==
    ASSUME NEW S, NEW todo \in Seq(S)
    PROVE  /\ Elements(todo) \subseteq S
           /\ todo # <<>> =>
                 /\ Head(todo) \in S /\ Tail(todo) \in Seq(S)
                 /\ Elements(todo) = {Head(todo)} \cup Elements(Tail(todo))
           /\ todo = <<>> => Elements(todo) = {}
<1>1. Len(todo) \in Nat /\ \A i \in 1 .. Len(todo) : todo[i] \in S
  BY LenProperties, ElementOfSeq
<1>2. ASSUME todo # <<>>
      PROVE  /\ Head(todo) \in S /\ Tail(todo) \in Seq(S)
             /\ Elements(todo) = {Head(todo)} \cup Elements(Tail(todo))
  <2>1. /\ Head(todo) \in S /\ Tail(todo) \in Seq(S) /\ Head(todo) = todo[1]
        /\ Len(todo) >= 1 /\ Len(Tail(todo)) = Len(todo) - 1
        /\ \A i \in 1 .. Len(Tail(todo)) : Tail(todo)[i] = todo[i + 1]
    BY <1>1, <1>2, HeadTailProperties, EmptySeq
  <2>2. \A j \in 2 .. Len(todo) : j - 1 \in 1 .. Len(Tail(todo)) /\ todo[j] = Tail(todo)[j - 1]
    BY <1>1, <2>1
  <2>3. \A j \in 1 .. Len(todo) : j = 1 \/ j \in 2 .. Len(todo)
    BY <1>1
  <2>4. \A i \in 1 .. Len(Tail(todo)) : i + 1 \in 1 .. Len(todo)
    BY <1>1, <2>1
  <2>5. 1 \in 1 .. Len(todo)
    BY <1>1, <2>1
  <2> QED
    BY <2>1, <2>2, <2>3, <2>4, <2>5 DEF Elements
<1>3. Elements(todo) \subseteq S
  BY <1>1 DEF Elements
<1>4. todo = <<>> => Elements(todo) = {}
  BY DEF Elements
<1> QED
  BY <1>2, <1>3, <1>4

LEMMA Joined ==
    ASSUME NEW S, NEW a \in Seq(S), NEW b \in Seq(S)
    PROVE  a \o b \in Seq(S) /\ Elements(a \o b) = Elements(a) \cup Elements(b)
<1>1. /\ a \o b \in Seq(S) /\ Len(a) \in Nat /\ Len(b) \in Nat /\ Len(a \o b) = Len(a) + Len(b)
      /\ \A i \in 1 .. Len(a) : (a \o b)[i] = a[i]
      /\ \A i \in 1 .. Len(b) : (a \o b)[Len(a) + i] = b[i]
  BY ConcatProperties, LenProperties
<1>2. \A i \in 1 .. Len(a) : i \in 1 .. Len(a \o b)
  BY <1>1
<1>3. \A i \in 1 .. Len(b) : Len(a) + i \in 1 .. Len(a \o b)
  BY <1>1
<1>4. \A j \in 1 .. Len(a \o b) : \/ j \in 1 .. Len(a)
                                  \/ \E i \in 1 .. Len(b) : j = Len(a) + i
  <2> SUFFICES ASSUME NEW j \in 1 .. Len(a \o b), j \notin 1 .. Len(a)
               PROVE  \E i \in 1 .. Len(b) : j = Len(a) + i
    OBVIOUS
  <2>1. j - Len(a) \in 1 .. Len(b) /\ j = Len(a) + (j - Len(a))
    BY <1>1
  <2> QED
    BY <2>1
<1>5. ASSUME NEW x \in Elements(a \o b) PROVE x \in Elements(a) \cup Elements(b)
  <2>1. PICK j \in 1 .. Len(a \o b) : x = (a \o b)[j]
    BY <1>5 DEF Elements
  <2>2. CASE j \in 1 .. Len(a)
    BY <1>1, <2>1, <2>2 DEF Elements
  <2>3. ASSUME NEW i \in 1 .. Len(b), j = Len(a) + i PROVE x \in Elements(b)
    BY <1>1, <2>1, <2>3 DEF Elements
  <2> QED
    BY <1>4, <2>2, <2>3
<1>6. ASSUME NEW x \in Elements(a) PROVE x \in Elements(a \o b)
  <2>1. PICK i \in 1 .. Len(a) : x = a[i]
    BY <1>6 DEF Elements
  <2>2. i \in 1 .. Len(a \o b) /\ x = (a \o b)[i]
    BY <1>1, <1>2, <2>1
  <2> QED
    BY <2>2 DEF Elements
<1>7. ASSUME NEW x \in Elements(b) PROVE x \in Elements(a \o b)
  <2>1. PICK i \in 1 .. Len(b) : x = b[i]
    BY <1>7 DEF Elements
  <2>2. Len(a) + i \in 1 .. Len(a \o b) /\ x = (a \o b)[Len(a) + i]
    BY <1>1, <1>3, <2>1
  <2> QED
    BY <2>2 DEF Elements
<1>8. Elements(a \o b) = Elements(a) \cup Elements(b)
  BY <1>5, <1>6, <1>7
<1> QED
  BY <1>1, <1>8

\* One store, if there is any.
LEMMA Single ==
    ASSUME NEW field, NEW value, NEW swap \in BOOLEAN, NEW end, NEW condition \in BOOLEAN,
           \/ field \in {"position", "target"} /\ (condition => value \in Positions)
           \/ field = "moving" /\ value \in BOOLEAN,
           NEW todo,
           todo = If(condition, <<[field |-> field, value |-> value, swap |-> swap]>>)
    PROVE  /\ todo \in Seq(Stores)
           /\ (condition => value = end[field]) => Agrees(todo, end)
           /\ condition => Touches(todo, field)
<1> DEFINE s == [field |-> field, value |-> value, swap |-> swap]
<1>1. s.field = field /\ s.value = value
  OBVIOUS
<1>2. condition => s \in Stores
  BY DEF Stores
<1> HIDE DEF s
<1>3. condition => todo = <<s>> /\ Elements(todo) = {s}
  BY DEF If, Elements, s
<1>4. ~condition => todo = <<>> /\ Elements(todo) = {}
  BY DEF If, Elements
<1>5. todo \in Seq(Stores)
  <2>1. CASE condition
    <3>1. \A x \in Stores : <<x>> \in Seq(Stores)
      OBVIOUS
    <3> QED
      BY <1>2, <1>3, <2>1, <3>1
  <2>2. CASE ~condition
    BY <1>4, <2>2, EmptySeq
  <2> QED
    BY <2>1, <2>2
<1> QED
  BY <1>1, <1>3, <1>4, <1>5 DEF Agrees, Touches

LEMMA JoinedStores ==
    ASSUME NEW a \in Seq(Stores), NEW b \in Seq(Stores), NEW end
    PROVE  /\ a \o b \in Seq(Stores)
           /\ Agrees(a, end) /\ Agrees(b, end) => Agrees(a \o b, end)
           /\ \A f : Touches(a, f) \/ Touches(b, f) => Touches(a \o b, f)
BY Joined DEF Agrees, Touches

-----------------------------------------------------------------------------
(* What a report and a command store *)

AfterReport(ha, cur) ==
    LET known == ha.position # None
        end == IF ha.motion = "opening" THEN Full ELSE 0
        passed == IF ha.motion = "opening" THEN cur.target <= cur.position
                  ELSE cur.target >= cur.position
    IN  [position |-> IF known THEN ha.position ELSE cur.position,
         target |-> IF ha.motion = "stopped" THEN IF known THEN ha.position ELSE cur.target
                    ELSE IF passed THEN end ELSE cur.target,
         moving |-> ha.motion # "stopped"]

LEMMA Ends == 0 \in Positions /\ Full \in Positions /\ Full \in Nat /\ Unit \in Nat
BY ScaleAssumption DEF Positions

LEMMA ReportLeads ==
    ASSUME NEW ha \in Report, NEW cur \in Slots
    PROVE  /\ ReportStores(ha, cur) \in Seq(Stores)
           /\ AfterReport(ha, cur) \in Slots
           /\ Leads(cur, ReportStores(ha, cur), AfterReport(ha, cur))
<1> DEFINE known == ha.position # None
           moved == If(known, Swap("position", ha.position))
           settled == If(known, Swap("target", ha.position))
           begun == If(~cur.moving, Store("moving", TRUE))
           ended == If(cur.moving, Store("moving", FALSE))
<1>1. /\ cur.position \in Positions /\ cur.target \in Positions /\ cur.moving \in BOOLEAN
      /\ ha.motion \in Motions /\ (known => ha.position \in Positions)
  BY SlotFields DEF Report
<1>2. AfterReport(ha, cur) \in Slots
  BY <1>1, Ends DEF AfterReport, Slots
<1> SUFFICES ASSUME NEW after \in Slots, after = AfterReport(ha, cur)
             PROVE  ReportStores(ha, cur) \in Seq(Stores) /\ Leads(cur, ReportStores(ha, cur), after)
  BY <1>2
<1>3. /\ moved \in Seq(Stores) /\ (known => Touches(moved, "position"))
      /\ (known => ha.position = after["position"]) => Agrees(moved, after)
  BY <1>1, Single DEF Swap
<1>4. /\ settled \in Seq(Stores) /\ (known => Touches(settled, "target"))
      /\ (known => ha.position = after["target"]) => Agrees(settled, after)
  BY <1>1, Single DEF Swap
<1>5. /\ begun \in Seq(Stores) /\ (~cur.moving => Touches(begun, "moving"))
      /\ after["moving"] = TRUE => Agrees(begun, after)
  BY <1>1, Single DEF Store
<1>6. /\ ended \in Seq(Stores) /\ (cur.moving => Touches(ended, "moving"))
      /\ after["moving"] = FALSE => Agrees(ended, after)
  BY <1>1, Single DEF Store
<1>7. known => after["position"] = ha.position
  BY DEF AfterReport
<1>8. ~known => after["position"] = cur["position"]
  BY DEF AfterReport
<1>9. ASSUME NEW passed \in BOOLEAN, NEW end \in Positions, after["moving"] = TRUE,
             after["target"] = IF passed THEN end ELSE cur["target"],
             ReportStores(ha, cur) = begun \o Aimed(cur, end, passed) \o moved
      PROVE  ReportStores(ha, cur) \in Seq(Stores) /\ Leads(cur, ReportStores(ha, cur), after)
  <2> DEFINE aimed == Aimed(cur, end, passed)
             far == passed /\ cur.target # end
  <2>1. /\ aimed \in Seq(Stores) /\ (far => Touches(aimed, "target"))
        /\ (far => end = after["target"]) => Agrees(aimed, after)
    <3>1. far \in BOOLEAN /\ aimed = If(far, <<[field |-> "target", value |-> end, swap |-> FALSE]>>)
      BY DEF Aimed, Store
    <3> HIDE DEF aimed, far
    <3> QED
      BY <3>1, Single
  <2>2. far \/ after["target"] = cur["target"]
    BY <1>9
  <2>3. far => end = after["target"]
    BY <1>9
  <2>4. ~cur.moving \/ after["moving"] = cur["moving"]
    BY <1>1, <1>9
  <2> HIDE DEF moved, begun, aimed, far
  <2>5. /\ begun \o aimed \in Seq(Stores) /\ Agrees(begun \o aimed, after)
        /\ \A f : Touches(begun, f) \/ Touches(aimed, f) => Touches(begun \o aimed, f)
    BY <1>5, <1>9, <2>1, <2>3, JoinedStores
  <2>6. /\ ReportStores(ha, cur) \in Seq(Stores) /\ Agrees(ReportStores(ha, cur), after)
        /\ \A f : Touches(begun, f) \/ Touches(aimed, f) \/ Touches(moved, f)
              => Touches(ReportStores(ha, cur), f)
    BY <1>3, <1>7, <1>9, <2>5, JoinedStores DEF aimed
  <2>7. \A f \in FieldNames : cur[f] = after[f] \/ Touches(ReportStores(ha, cur), f)
    BY <1>3, <1>5, <1>8, <2>1, <2>2, <2>4, <2>6 DEF FieldNames
  <2> QED
    BY <2>6, <2>7 DEF Leads
<1>10. CASE ha.motion = "opening"
  <2>0. PICK passed \in BOOLEAN : passed <=> cur.target <= cur.position
    <3>1. CASE cur.target <= cur.position
      <4> WITNESS TRUE \in BOOLEAN
      <4> QED
        BY <3>1
    <3>2. CASE ~(cur.target <= cur.position)
      <4> WITNESS FALSE \in BOOLEAN
      <4> QED
        BY <3>2
    <3> QED
      BY <3>1, <3>2
  <2>1. ReportStores(ha, cur) = begun \o Aimed(cur, Full, passed) \o moved
    BY <1>10, <2>0 DEF ReportStores, Aimed, If
  <2>2. /\ after["moving"] = TRUE
        /\ after["target"] = IF passed THEN Full ELSE cur["target"]
    BY <1>10, <2>0 DEF AfterReport
  <2> QED
    BY <1>9, <2>1, <2>2, Ends
<1>11. CASE ha.motion = "closing"
  <2>0. PICK passed \in BOOLEAN : passed <=> cur.target >= cur.position
    <3>1. CASE cur.target >= cur.position
      <4> WITNESS TRUE \in BOOLEAN
      <4> QED
        BY <3>1
    <3>2. CASE ~(cur.target >= cur.position)
      <4> WITNESS FALSE \in BOOLEAN
      <4> QED
        BY <3>2
    <3> QED
      BY <3>1, <3>2
  <2>1. ReportStores(ha, cur) = begun \o Aimed(cur, 0, passed) \o moved
    BY <1>11, <2>0 DEF ReportStores, Aimed, If
  <2>2. /\ after["moving"] = TRUE
        /\ after["target"] = IF passed THEN 0 ELSE cur["target"]
    BY <1>11, <2>0 DEF AfterReport
  <2> QED
    BY <1>9, <2>1, <2>2, Ends
<1>12. CASE ha.motion = "stopped"
  <2>1. ReportStores(ha, cur) = ended \o moved \o settled
    BY <1>12 DEF ReportStores
  <2>2. after["moving"] = FALSE
    BY <1>12 DEF AfterReport
  <2>3. /\ known => after["target"] = ha.position
        /\ ~known => after["target"] = cur["target"]
    BY <1>12 DEF AfterReport
  <2>4. cur.moving \/ after["moving"] = cur["moving"]
    BY <1>1, <2>2
  <2> HIDE DEF ended, moved, settled
  <2>5. /\ ended \o moved \in Seq(Stores) /\ Agrees(ended \o moved, after)
        /\ \A f : Touches(ended, f) \/ Touches(moved, f) => Touches(ended \o moved, f)
    BY <1>3, <1>6, <1>7, <2>2, JoinedStores
  <2>6. /\ ReportStores(ha, cur) \in Seq(Stores) /\ Agrees(ReportStores(ha, cur), after)
        /\ \A f : Touches(ended, f) \/ Touches(moved, f) \/ Touches(settled, f)
              => Touches(ReportStores(ha, cur), f)
    BY <1>4, <2>1, <2>3, <2>5, JoinedStores
  <2>7. \A f \in FieldNames : cur[f] = after[f] \/ Touches(ReportStores(ha, cur), f)
    BY <1>3, <1>4, <1>6, <1>8, <2>3, <2>4, <2>6 DEF FieldNames
  <2> QED
    BY <2>6, <2>7 DEF Leads
<1> QED
  BY <1>1, <1>10, <1>11, <1>12 DEF Motions

LEMMA CommandLeads ==
    ASSUME NEW cur \in Slots, NEW target \in Positions, NEW moving \in BOOLEAN
    PROVE  /\ CommandStores(target, moving) \in Seq(Stores)
           /\ \E end \in Slots : Leads(cur, CommandStores(target, moving), end) /\ end.target = target
<1> DEFINE a == Store("target", target)
           b == Store("moving", moving)
<1>1. PICK end \in Slots :
         end["target"] = target /\ end["moving"] = moving /\ end["position"] = cur["position"]
  <2> DEFINE end == [position |-> cur.position, target |-> target, moving |-> moving]
  <2>1. end \in Slots
    BY SlotFields DEF Slots
  <2>2. end["target"] = target /\ end["moving"] = moving /\ end["position"] = cur["position"]
    OBVIOUS
  <2> HIDE DEF end
  <2> QED
    BY <2>1, <2>2
<1>2. a \in Seq(Stores) /\ Agrees(a, end) /\ Touches(a, "target")
  <2>1. a = If(TRUE, <<[field |-> "target", value |-> target, swap |-> FALSE]>>)
    BY DEF Store, If
  <2> HIDE DEF a
  <2> QED
    BY <1>1, <2>1, Single
<1>3. b \in Seq(Stores) /\ Agrees(b, end) /\ Touches(b, "moving")
  <2>1. b = If(TRUE, <<[field |-> "moving", value |-> moving, swap |-> FALSE]>>)
    BY DEF Store, If
  <2> HIDE DEF b
  <2> QED
    BY <1>1, <2>1, Single
<1>4. CommandStores(target, moving) = a \o b
  BY DEF CommandStores
<1> HIDE DEF a, b
<1>5. /\ CommandStores(target, moving) \in Seq(Stores)
      /\ Agrees(CommandStores(target, moving), end)
      /\ Touches(CommandStores(target, moving), "target")
      /\ Touches(CommandStores(target, moving), "moving")
  BY <1>2, <1>3, <1>4, JoinedStores
<1>6. Leads(cur, CommandStores(target, moving), end)
  BY <1>1, <1>5 DEF Leads, FieldNames
<1> QED
  BY <1>1, <1>5, <1>6

\* The next store keeps a sequence on its way; the last has got there.
LEMMA LeadsOn ==
    ASSUME NEW cur \in Slots, NEW end \in Slots, NEW todo \in Seq(Stores), Leads(cur, todo, end),
           todo # <<>>
    PROVE  Leads([cur EXCEPT ![Head(todo).field] = Head(todo).value], Tail(todo), end)
<1> DEFINE s == Head(todo)
           next == [cur EXCEPT ![s.field] = s.value]
<1>1. s \in Stores /\ Tail(todo) \in Seq(Stores) /\ Elements(todo) = {s} \cup Elements(Tail(todo))
  BY ElementsOf
<1>2. next[s.field] = s.value /\ \A f \in FieldNames \ {s.field} : next[f] = cur[f]
  BY <1>1, SlotWith
<1>3. s.value = end[s.field]
  BY <1>1 DEF Leads, Agrees
<1> HIDE DEF s, next
<1>4. ASSUME NEW f \in FieldNames
      PROVE  next[f] = end[f] \/ Touches(Tail(todo), f)
  <2>1. CASE f = s.field
    BY <1>2, <1>3, <2>1
  <2>2. CASE f # s.field
    BY <1>1, <1>2, <2>2 DEF Leads, Touches
  <2> QED
    BY <2>1, <2>2
<1> QED
  BY <1>1, <1>4 DEF Leads, Agrees, s, next

LEMMA LeadsThere ==
    ASSUME NEW cur \in Slots, NEW end \in Slots, Leads(cur, <<>>, end)
    PROVE  cur = end
<1>1. Elements(<<>>) = {}
  BY DEF Elements
<1>2. \A f \in FieldNames : cur[f] = end[f]
  BY <1>1 DEF Leads, Touches
<1> QED
  BY <1>2, SlotEqual
-----------------------------------------------------------------------------
(* Conversions *)

LEMMA Quotient ==
    ASSUME NEW n \in Nat, NEW d \in Nat \ {0}
    PROVE  n \div d \in Nat /\ (n \div d) * d <= n /\ n < (n \div d) * d + d
OBVIOUS

LEMMA Product ==
    ASSUME NEW a \in Nat, NEW b \in Nat, NEW c \in Nat
    PROVE  a * c \in Nat /\ (a <= b => a * c <= b * c) /\ (b * c < a * c + c /\ c # 0 => b <= a)
<1>1. a * c \in Nat
  OBVIOUS
<1>2. ASSUME a <= b PROVE a * c <= b * c
  <2>1. PICK k \in Nat : b = a + k
    <3>1. b - a \in Nat /\ b = a + (b - a)
      BY <1>2
    <3> QED
      BY <3>1
  <2>2. (a + k) * c = a * c + k * c /\ k * c \in Nat /\ a * c \in Nat
    OBVIOUS
  <2> QED
    BY <2>1, <2>2
<1>3. ASSUME b * c < a * c + c PROVE b <= a
  <2> SUFFICES ASSUME ~(b <= a) PROVE FALSE
    OBVIOUS
  <2>1. PICK k \in Nat : b = a + 1 + k
    <3>1. b - a - 1 \in Nat /\ b = a + 1 + (b - a - 1)
      OBVIOUS
    <3> QED
      BY <3>1
  <2>2. (a + 1 + k) * c = a * c + c + k * c /\ k * c \in Nat /\ a * c \in Nat
    OBVIOUS
  <2> QED
    BY <1>3, <2>1, <2>2
<1> QED
  BY <1>1, <1>2, <1>3

LEMMA PercentScale == \A n \in Positions : Percent(n) \in 0 .. Full * Unit
<1> SUFFICES ASSUME NEW n \in Positions PROVE Percent(n) \in 0 .. Full * Unit
  OBVIOUS
<1>1. n \in Nat /\ n <= Full /\ Full \in Nat /\ Unit \in Nat
  BY Ends DEF Positions
<1>2. PICK k \in Nat : k = Full - n /\ k <= Full
  <2>1. Full - n \in Nat /\ Full - n <= Full
    BY <1>1
  <2> QED
    BY <2>1
<1>3. Percent(n) = k * Unit
  BY <1>1, <1>2 DEF Percent, AtMost
<1>4. k * Unit \in Nat /\ k * Unit <= Full * Unit /\ Full * Unit \in Nat
  BY <1>1, <1>2, Product
<1> QED
  BY <1>3, <1>4

\* There and back, rounded to less than a step.
LEMMA RoundTrip ==
    ASSUME NEW p \in Nat, ValidLift(p)
    PROVE  /\ AtMost(Full, HaPosition(p)) \in Positions
           /\ Percent(AtMost(Full, HaPosition(p))) \in p .. p + Unit - 1
<1>1. /\ Full \in Nat /\ Unit \in Nat \ {0} /\ p <= Full * Unit /\ Full * Unit \in Nat
  BY ScaleAssumption, Product DEF ValidLift
<1>2. PICK n \in Nat : n = Full * Unit - p /\ n <= Full * Unit
  <2>1. Full * Unit - p \in Nat /\ Full * Unit - p <= Full * Unit
    BY <1>1
  <2> QED
    BY <2>1
<1>3. PICK q \in Nat : q = n \div Unit /\ q * Unit <= n /\ n < q * Unit + Unit
  BY <1>1, Quotient
<1>4. HaPosition(p) = q
  BY <1>1, <1>2, <1>3 DEF HaPosition, AtMost
<1>5. q <= Full
  <2>1. q * Unit < Full * Unit + Unit
    <3>1. q * Unit \in Nat
      BY <1>1, Product
    <3> QED
      BY <1>1, <1>2, <1>3, <3>1
  <2> QED
    BY <1>1, <2>1, Product
<1>6. AtMost(Full, HaPosition(p)) = q /\ q \in Positions
  BY <1>1, <1>4, <1>5 DEF AtMost, Positions
<1>7. Percent(q) = (Full - q) * Unit
  BY <1>1, <1>5 DEF Percent, AtMost
<1>8. (Full - q) * Unit = Full * Unit - q * Unit /\ q * Unit \in Nat
  BY <1>1, <1>5, Product
<1>9. Percent(q) \in p .. p + Unit - 1
  <2> HIDE DEF Percent
  <2>1. PICK a \in Nat : a = Full * Unit
    BY <1>1
  <2>2. PICK b \in Nat : b = q * Unit
    BY <1>8
  <2>3. /\ Percent(q) = a - b /\ b <= a - p /\ a - p < b + Unit /\ Unit \in Nat /\ p \in Nat
    BY <1>1, <1>2, <1>3, <1>7, <1>8, <2>1, <2>2
  <2> QED
    BY <2>3
<1> QED
  BY <1>6, <1>9

LEMMA ReportedType == Reported \subseteq Report
<1> SUFFICES ASSUME NEW state \in States, NEW attribute \in Attributes
             PROVE  Parsed(state, attribute) \in Report
  BY DEF Reported
<1>1. attribute # None => AtMost(Full, attribute) \in Positions
  BY InputsAssumption, Ends DEF AtMost, Positions
<1>2. Parsed(state, attribute).motion \in Motions
  BY DEF Parsed, Motions
<1>3. Parsed(state, attribute).position \in Positions \cup {None}
  BY <1>1, Ends DEF Parsed
<1>4. Parsed(state, attribute) =
         [motion |-> Parsed(state, attribute).motion, position |-> Parsed(state, attribute).position]
  BY DEF Parsed
<1> QED
  BY <1>2, <1>3, <1>4 DEF Report

LEMMA StatusType == \A position, target, moving : Status(position, target, moving) \in Motions
BY DEF Status, Motions
-----------------------------------------------------------------------------
(* Types *)

LEMMA TaskMember ==
    /\ Idle \in TaskStates /\ Idle.at = "idle"
    /\ \A alone \in BOOLEAN : [at |-> "mark", alone |-> alone] \in TaskStates
    /\ \A ha \in Report, alone \in BOOLEAN, got \in Loaded :
          [at |-> "load", ha |-> ha, got |-> got, alone |-> alone] \in TaskStates
    /\ \A ha \in Report, alone \in BOOLEAN, changed \in BOOLEAN, todo \in Seq(Stores) :
          [at |-> "store", ha |-> ha, alone |-> alone, changed |-> changed, todo |-> todo] \in TaskStates
BY DEF TaskStates, Idle

LEMMA StateShape ==
    ASSUME NEW s \in TaskStates
    PROVE  /\ s.at \in {"idle", "load", "store", "mark"}
           /\ s.at = "idle" <=> s = Idle
           /\ s.at \in {"load", "store", "mark"} => s.alone \in BOOLEAN
           /\ s.at \in {"load", "store"} => s.ha \in Report
           /\ s.at = "load" => s.got \in Loaded
           /\ s.at = "load" =>
                 s = [at |-> "load", ha |-> s.ha, got |-> s.got, alone |-> s.alone]
           /\ s.at = "store" => s.changed \in BOOLEAN /\ s.todo \in Seq(Stores)
           /\ s.at = "store" =>
                 s = [at |-> "store", ha |-> s.ha, alone |-> s.alone, changed |-> s.changed, todo |-> s.todo]
           /\ s.at = "mark" => s = [at |-> "mark", alone |-> s.alone]
BY DEF TaskStates, Idle

LEMMA TaskShape == ASSUME TypeInv, NEW t \in Tasks PROVE task[t] \in TaskStates
BY DEF TypeInv

LEMMA StackMember ==
    /\ Waiting \in StackStates /\ Waiting.at = "wait"
    /\ [at |-> "stopping"] \in StackStates /\ [at |-> "notify"] \in StackStates
    /\ \A command \in Commands, todo \in Seq(Stores) :
          [at |-> "commanding", command |-> command, todo |-> todo] \in StackStates
    /\ \A version \in Nat, got \in Read, old \in Slots \cup {None} :
          [at |-> "reading", dataver |-> version, got |-> got, old |-> old] \in StackStates
BY DEF StackStates, Waiting

LEMMA StackShape ==
    ASSUME NEW s \in StackStates
    PROVE  /\ s.at \in {"wait", "stopping", "commanding", "notify", "reading"}
           /\ s.at = "wait" <=> s = Waiting
           /\ s.at = "commanding" => s.command \in Commands /\ s.todo \in Seq(Stores)
           /\ s.at = "commanding" =>
                 s = [at |-> "commanding", command |-> s.command, todo |-> s.todo]
           /\ s.at = "reading" => s.dataver \in Nat /\ s.got \in Read /\ s.old \in Slots \cup {None}
           /\ s.at = "reading" =>
                 s = [at |-> "reading", dataver |-> s.dataver, got |-> s.got, old |-> s.old]
BY DEF StackStates, Waiting

\* One more field has been loaded or read.
LEMMA LoadOne ==
    ASSUME NEW c \in Slots, NEW got \in Loaded
    PROVE  /\ Len(got) \in 0 .. 2
           /\ Len(got) < 2 => Append(got, c[LoadOrder[Len(got) + 1]]) \in Loaded
           /\ Len(Append(got, c[LoadOrder[Len(got) + 1]])) = Len(got) + 1
           /\ Append(got, c[LoadOrder[Len(got) + 1]])[Len(got) + 1] = c[LoadOrder[Len(got) + 1]]
           /\ \A i \in 1 .. Len(got) :
                 /\ Append(got, c[LoadOrder[Len(got) + 1]])[i] = got[i]
                 /\ got[i] \in Positions
<1>1. got \in Seq(Positions) /\ Len(got) \in Nat /\ Len(got) < 3
  BY LenProperties DEF Loaded
<1>2. Len(got) \in 0 .. 2 /\ \A i \in 1 .. Len(got) : got[i] \in Positions
  <2>1. \A i \in 1 .. Len(got) : got[i] \in Positions
    BY <1>1, ElementOfSeq
  <2>2. Len(got) \in 0 .. 2
    <3>1. \A n \in Nat : n < 3 => n \in 0 .. 2
      OBVIOUS
    <3> QED
      BY <1>1, <3>1
  <2> QED
    BY <2>1, <2>2
<1>3. \A v : /\ Len(Append(got, v)) = Len(got) + 1
             /\ Append(got, v)[Len(got) + 1] = v
             /\ \A i \in 1 .. Len(got) : Append(got, v)[i] = got[i]
  BY <1>1
<1>4. ASSUME Len(got) < 2
      PROVE  Append(got, c[LoadOrder[Len(got) + 1]]) \in Loaded
  <2>1. Len(got) = 0 \/ Len(got) = 1
    BY <1>2, <1>4
  <2>2. LoadOrder[Len(got) + 1] \in {"position", "target"}
    <3>1. 0 + 1 = 1 /\ 1 + 1 = 2
      OBVIOUS
    <3> QED
      BY <2>1, <3>1, Orders
  <2>3. c[LoadOrder[Len(got) + 1]] \in Positions
    BY <2>2, SlotFields
  <2>4. \A v \in Positions : Append(got, v) \in Seq(Positions) /\ Len(Append(got, v)) = Len(got) + 1
    BY <1>1
  <2> QED
    BY <2>1, <2>3, <2>4 DEF Loaded
<1> QED
  BY <1>2, <1>3, <1>4

LEMMA ReadOne ==
    ASSUME NEW c \in Slots, NEW got \in Read
    PROVE  /\ Len(got) \in 0 .. 4
           /\ Len(got) < 4 => Append(got, c[ReadOrder[Len(got) + 1]]) \in Read
           /\ Len(Append(got, c[ReadOrder[Len(got) + 1]])) = Len(got) + 1
           /\ Append(got, c[ReadOrder[Len(got) + 1]])[Len(got) + 1] = c[ReadOrder[Len(got) + 1]]
           /\ \A i \in 1 .. Len(got) :
                 /\ Append(got, c[ReadOrder[Len(got) + 1]])[i] = got[i]
                 /\ got[i] \in Values(ReadOrder[i])
<1> DEFINE f == ReadOrder[Len(got) + 1]
<1>1. got \in Seq(Positions \cup BOOLEAN) /\ Len(got) \in Nat /\ Len(got) < 5
  BY LenProperties DEF Read
<1>2. Len(got) \in 0 .. 4 /\ \A i \in 1 .. Len(got) : got[i] \in Values(ReadOrder[i])
  <2>1. \A i \in 1 .. Len(got) : got[i] \in Values(ReadOrder[i])
    BY DEF Read
  <2>2. Len(got) \in 0 .. 4
    <3>1. \A n \in Nat : n < 5 => n \in 0 .. 4
      OBVIOUS
    <3> QED
      BY <1>1, <3>1
  <2> QED
    BY <2>1, <2>2
<1>3. \A v : /\ Len(Append(got, v)) = Len(got) + 1
             /\ Append(got, v)[Len(got) + 1] = v
             /\ \A i \in 1 .. Len(got) : Append(got, v)[i] = got[i]
  BY <1>1
<1>4. f \in FieldNames
  <2>1. Len(got) = 0 \/ Len(got) = 1 \/ Len(got) = 2 \/ Len(got) = 3 \/ Len(got) = 4
    BY <1>2
  <2>2. 0 + 1 = 1 /\ 1 + 1 = 2 /\ 2 + 1 = 3 /\ 3 + 1 = 4 /\ 4 + 1 = 5
    OBVIOUS
  <2> QED
    BY <2>1, <2>2, Orders DEF FieldNames
<1>5. PICK v : v = c[f]
  OBVIOUS
<1>6. v \in Values(f) /\ v \in Positions \cup BOOLEAN
  BY <1>4, <1>5, SlotFields DEF Values
<1>7. Append(got, v) \in Seq(Positions \cup BOOLEAN)
  BY <1>1, <1>6, AppendProperties
<1>8. ASSUME NEW i \in 1 .. Len(Append(got, v)) PROVE Append(got, v)[i] \in Values(ReadOrder[i])
  <2>1. i \in 1 .. Len(got) \/ i = Len(got) + 1
    BY <1>1, <1>3
  <2>2. CASE i \in 1 .. Len(got)
    <3>1. Append(got, v)[i] = got[i]
      BY <1>3, <2>2
    <3> QED
      BY <1>2, <2>2, <3>1
  <2>3. CASE i = Len(got) + 1
    BY <1>3, <1>6, <2>3
  <2> QED
    BY <2>1, <2>2, <2>3
<1>9. Len(got) < 4 => Append(got, v) \in Read
  <2>1. Len(got) < 4 => Len(Append(got, v)) < 5
    BY <1>1, <1>3
  <2> QED
    BY <1>7, <1>8, <2>1 DEF Read
<1> QED
  BY <1>2, <1>3, <1>5, <1>9
\* What the steps of the HTTP tasks do to them.
Storing(t) ==
    LET got == Append(task[t].got, slot[LoadOrder[Len(task[t].got) + 1]])
    IN  [at |-> "store", ha |-> task[t].ha, alone |-> task[t].alone, changed |-> FALSE,
         todo |-> ReportStores(task[t].ha,
                      [position |-> got[1], target |-> got[2], moving |-> got[3]])]

LEMMA LoadEffect ==
    ASSUME TypeInv, NEW t \in Tasks, Load(t)
    PROVE  /\ task[t].at = "load" /\ task[t].got \in Loaded /\ Len(task[t].got) \in 0 .. 2
           /\ Len(task[t].got) < 2 => task' = [task EXCEPT ![t].got =
                 Append(task[t].got, slot[LoadOrder[Len(task[t].got) + 1]])]
           /\ Len(task[t].got) = 2 => task' = [task EXCEPT ![t] = Storing(t)]
<1> DEFINE got == Append(task[t].got, slot[LoadOrder[Len(task[t].got) + 1]])
<1>1. /\ task[t].at = "load" /\ task[t].got \in Loaded /\ slot \in Slots
      /\ task \in [Tasks -> TaskStates]
  BY TaskShape, StateShape DEF Load, TypeInv
<1>2. Len(task[t].got) \in 0 .. 2 /\ Len(got) = Len(task[t].got) + 1
  BY <1>1, LoadOne
<1>3. task' = [task EXCEPT ![t] =
             IF Len(got) < Len(LoadOrder) THEN [task[t] EXCEPT !.got = got] ELSE Storing(t)]
  BY <1>1 DEF Load, Storing
<1> HIDE DEF got
<1>4. Len(task[t].got) < 2 => Len(got) < Len(LoadOrder)
  BY <1>2, Orders
<1>5. Len(task[t].got) = 2 => ~(Len(got) < Len(LoadOrder))
  BY <1>2, Orders
<1> QED
  BY <1>1, <1>2, <1>3, <1>4, <1>5 DEF got

LEMMA StoringLeads ==
    ASSUME TypeInv, NEW t \in Tasks, task[t].at = "load", Len(task[t].got) = 2
    PROVE  /\ Storing(t) \in TaskStates
           /\ Storing(t).at = "store" /\ Storing(t).ha = task[t].ha /\ Storing(t).alone = task[t].alone
           /\ Storing(t).changed = FALSE
           /\ (\A i \in 1 .. 2 : task[t].got[i] = slot[LoadOrder[i]]) =>
                 Storing(t).todo = ReportStores(task[t].ha, slot)
<1> DEFINE got == Append(task[t].got, slot[LoadOrder[Len(task[t].got) + 1]])
           cur == [position |-> got[1], target |-> got[2], moving |-> got[3]]
<1>1. /\ task[t].got \in Loaded /\ slot \in Slots /\ task[t].ha \in Report
      /\ task[t].alone \in BOOLEAN
  BY TaskShape, StateShape DEF TypeInv
<1>2. /\ got[3] = slot["moving"]
      /\ got[1] = task[t].got[1] /\ got[2] = task[t].got[2]
      /\ got[1] \in Positions /\ got[2] \in Positions
  <2>1. 2 + 1 = 3 /\ 1 \in 1 .. 2 /\ 2 \in 1 .. 2
    OBVIOUS
  <2> QED
    BY <1>1, <2>1, LoadOne, Orders
<1> HIDE DEF got
<1>3. cur \in Slots
  BY <1>1, <1>2, SlotFields DEF Slots
<1>4. ReportStores(task[t].ha, cur) \in Seq(Stores)
  BY <1>1, <1>3, ReportLeads
<1>5. Storing(t) = [at |-> "store", ha |-> task[t].ha, alone |-> task[t].alone, changed |-> FALSE,
                    todo |-> ReportStores(task[t].ha, cur)]
  BY DEF Storing, got
<1>6. (\A i \in 1 .. 2 : task[t].got[i] = slot[LoadOrder[i]]) => cur = slot
  <2> SUFFICES ASSUME \A i \in 1 .. 2 : task[t].got[i] = slot[LoadOrder[i]] PROVE cur = slot
    OBVIOUS
  <2>1. 1 \in 1 .. 2 /\ 2 \in 1 .. 2
    OBVIOUS
  <2>2. got[1] = slot["position"] /\ got[2] = slot["target"]
    BY <1>2, <2>1, Orders
  <2>3. \A f \in FieldNames : cur[f] = slot[f]
    BY <1>2, <2>2 DEF FieldNames
  <2> HIDE DEF cur
  <2> QED
    BY <1>1, <1>3, <2>3, SlotEqual
<1> HIDE DEF cur
<1>7. Storing(t) \in TaskStates
  BY <1>1, <1>4, <1>5, TaskMember
<1> QED
  BY <1>5, <1>6, <1>7

LEMMA OverlappedTask ==
    ASSUME TypeInv
    PROVE  /\ Overlapped(task) \in [Tasks -> TaskStates]
           /\ \A t \in Tasks :
                 /\ task[t] = Idle => Overlapped(task)[t] = Idle
                 /\ Overlapped(task)[t].at = task[t].at
                 /\ task[t] # Idle => Overlapped(task)[t].alone = FALSE
                 /\ task[t].at = "store" => Overlapped(task)[t].changed = task[t].changed
<1>1. ASSUME NEW t \in Tasks
      PROVE  /\ Overlapped(task)[t] \in TaskStates
             /\ task[t] = Idle => Overlapped(task)[t] = Idle
             /\ Overlapped(task)[t].at = task[t].at
             /\ task[t] # Idle => Overlapped(task)[t].alone = FALSE
             /\ task[t].at = "store" => Overlapped(task)[t].changed = task[t].changed
  <2>1. Overlapped(task)[t] = IF task[t] = Idle THEN Idle ELSE [task[t] EXCEPT !.alone = FALSE]
    BY DEF Overlapped
  <2>2. PICK s \in TaskStates : s = task[t]
    BY TaskShape
  <2>0. PICK no \in BOOLEAN : no = FALSE
    OBVIOUS
  <2>7. s # Idle => Overlapped(task)[t] = [s EXCEPT !.alone = no]
    BY <2>0, <2>1, <2>2
  <2>3. CASE s = Idle
    BY <2>1, <2>2, <2>3, TaskMember
  <2>4. CASE s.at = "load"
    <3>1. PICK ha \in Report, got \in Loaded, alone \in BOOLEAN :
             s = [at |-> "load", ha |-> ha, got |-> got, alone |-> alone]
      BY <2>4 DEF TaskStates, Idle
    <3>3. s # Idle
      BY <3>1, TaskMember
    <3>2. Overlapped(task)[t] = [at |-> "load", ha |-> ha, got |-> got, alone |-> no]
      BY <2>7, <3>1, <3>3
    <3> QED
      BY <2>0, <2>2, <2>4, <3>1, <3>2, <3>3, TaskMember
  <2>5. CASE s.at = "store"
    <3>1. PICK ha \in Report, alone \in BOOLEAN, changed \in BOOLEAN, todo \in Seq(Stores) :
             s = [at |-> "store", ha |-> ha, alone |-> alone, changed |-> changed, todo |-> todo]
      BY <2>5 DEF TaskStates, Idle
    <3>3. s # Idle /\ s.changed = changed
      BY <3>1, TaskMember
    <3>2. Overlapped(task)[t] =
                [at |-> "store", ha |-> ha, alone |-> no, changed |-> changed, todo |-> todo]
      BY <2>7, <3>1, <3>3
    <3> QED
      BY <2>0, <2>2, <2>5, <3>1, <3>2, <3>3, TaskMember
  <2>6. CASE s.at = "mark"
    <3>1. PICK alone \in BOOLEAN : s = [at |-> "mark", alone |-> alone]
      BY <2>6 DEF TaskStates, Idle
    <3>3. s # Idle
      BY <3>1, TaskMember
    <3>2. Overlapped(task)[t] = [at |-> "mark", alone |-> no]
      BY <2>7, <3>1, <3>3
    <3> QED
      BY <2>0, <2>2, <2>6, <3>1, <3>2, <3>3, TaskMember
  <2> QED
    BY <2>3, <2>4, <2>5, <2>6, StateShape
<1>2. Overlapped(task) \in [Tasks -> TaskStates]
  BY <1>1 DEF Overlapped
<1> QED
  BY <1>1, <1>2
LEMMA StoreEffect ==
    ASSUME TypeInv, NEW t \in Tasks, StoreNext(t)
    PROVE  /\ task[t].at = "store" /\ task[t].todo \in Seq(Stores) /\ task[t].todo # <<>>
           /\ Head(task[t].todo) \in Stores
           /\ slot' = [slot EXCEPT ![Head(task[t].todo).field] = Head(task[t].todo).value]
           /\ slot' \in Slots
           /\ \E s \in TaskStates :
                 /\ task' = [task EXCEPT ![t] = s]
                 /\ s.at = "store" /\ s.ha = task[t].ha /\ s.alone = task[t].alone
                 /\ s.todo = Tail(task[t].todo)
                 /\ s.changed = (task[t].changed \/ Changes(Head(task[t].todo)))
           /\ task[t].changed \/ Changes(Head(task[t].todo)) \/ slot' = slot
           /\ UNCHANGED <<dataver, pending, commands, stack, reports, view, inputs, last, goal>>
<1>1. /\ task[t].at = "store" /\ task[t].todo # <<>>
      /\ slot' = [slot EXCEPT ![Head(task[t].todo).field] = Head(task[t].todo).value]
      /\ UNCHANGED <<dataver, pending, commands, stack, reports, view, inputs, last, goal>>
  BY DEF StoreNext, controller, observers
<1>2. slot \in Slots /\ task \in [Tasks -> TaskStates]
  BY DEF TypeInv
<1>3. task[t].ha \in Report /\ task[t].alone \in BOOLEAN /\ task[t].todo \in Seq(Stores)
  BY <1>1, TaskShape, StateShape
<1>4. Head(task[t].todo) \in Stores /\ Tail(task[t].todo) \in Seq(Stores)
  BY <1>1, <1>3, ElementsOf
<1>5. slot' \in Slots /\ (slot[Head(task[t].todo).field] = Head(task[t].todo).value => slot' = slot)
  <2>1. PICK w \in Stores : w = Head(task[t].todo)
    BY <1>4
  <2> QED
    BY <1>1, <1>2, <2>1, SlotWith
<1>6. PICK next \in BOOLEAN : next = (task[t].changed \/ Changes(Head(task[t].todo)))
  OBVIOUS
<1> DEFINE s == [at |-> "store", ha |-> task[t].ha, alone |-> task[t].alone, changed |-> next,
                 todo |-> Tail(task[t].todo)]
<1>7. task' = [task EXCEPT ![t] = s]
  BY <1>2, <1>6 DEF StoreNext
<1>8. s \in TaskStates
  BY <1>3, <1>4, TaskMember
<1>9. /\ s.at = "store" /\ s.ha = task[t].ha /\ s.alone = task[t].alone
      /\ s.todo = Tail(task[t].todo)
  OBVIOUS
<1>10. s.changed = next
  OBVIOUS
<1> HIDE DEF s
<1>11. \E x \in TaskStates :
          /\ task' = [task EXCEPT ![t] = x]
          /\ x.at = "store" /\ x.ha = task[t].ha /\ x.alone = task[t].alone
          /\ x.todo = Tail(task[t].todo)
          /\ x.changed = (task[t].changed \/ Changes(Head(task[t].todo)))
  BY <1>6, <1>7, <1>8, <1>9, <1>10
<1>12. \/ Changes(Head(task[t].todo))
       \/ slot[Head(task[t].todo).field] = Head(task[t].todo).value
  BY DEF Changes
<1> QED
  BY <1>1, <1>3, <1>4, <1>5, <1>11, <1>12
LEMMA CountEffect ==
    ASSUME TypeInv, NEW t \in Tasks, Count(t)
    PROVE  /\ task[t].at = "store" /\ task[t].todo = <<>>
           /\ task[t].changed => dataver' = dataver + 1
                                 /\ task' = [task EXCEPT ![t] = [at |-> "mark", alone |-> task[t].alone]]
           /\ ~task[t].changed => dataver' = dataver /\ task' = [task EXCEPT ![t] = Idle]
           /\ task[t].alone => last' = Outcome(task[t].ha)
           /\ ~task[t].alone => last' = None
           /\ last' \in [ha : Report, misses : Nat] \cup {None}
           /\ UNCHANGED <<slot, pending, commands, stack, reports, view, inputs, goal>>
<1>1. /\ task[t].at = "store" /\ task[t].todo = <<>>
      /\ UNCHANGED <<slot, pending, commands, stack, reports, view, inputs, goal>>
  BY DEF Count, controller
<1>2. /\ task[t].changed => dataver' = dataver + 1
                            /\ task' = [task EXCEPT ![t] = [at |-> "mark", alone |-> task[t].alone]]
      /\ ~task[t].changed => dataver' = dataver /\ task' = [task EXCEPT ![t] = Idle]
  BY DEF Count, TypeInv
<1>3. /\ task[t].alone => last' = Outcome(task[t].ha)
      /\ ~task[t].alone => last' = None
  BY DEF Count
<1>4. task[t].ha \in Report
  BY <1>1, TaskShape, StateShape
<1>5. Outcome(task[t].ha) \in [ha : Report, misses : Nat]
  <2>1. last # None => last.misses \in Nat
    BY DEF TypeInv
  <2>2. ASSUME NEW before, before = IF last # None /\ last.ha.motion = task[t].ha.motion
                                    THEN last.misses ELSE 0
        PROVE  before \in Nat
    BY <2>1, <2>2
  <2> QED
    BY <1>4, <2>2 DEF Outcome
<1> QED
  BY <1>1, <1>2, <1>3, <1>5

LEMMA InputType ==
    ASSUME TypeInv, NEW kind \in {"report", "other"}, Input(kind)
    PROVE  inputs' \in [report : 0 .. MaxReports, other : 0 .. MaxInputs]
<1>1. inputs \in [report : 0 .. MaxReports, other : 0 .. MaxInputs] /\ MaxReports \in Nat /\ MaxInputs \in Nat
  BY InputsAssumption DEF TypeInv
<1>2. inputs[kind] < Bound[kind] /\ inputs' = [inputs EXCEPT ![kind] = inputs[kind] + 1]
  BY DEF Input
<1>3. CASE kind = "report"
  <2>1. inputs[kind] < MaxReports /\ inputs[kind] \in Nat
    BY <1>1, <1>2, <1>3 DEF Bound
  <2>2. PICK n \in 0 .. MaxReports : n = inputs[kind] + 1
    BY <1>1, <2>1
  <2> QED
    BY <1>1, <1>2, <1>3, <2>2
<1>4. CASE kind = "other"
  <2>1. inputs[kind] < MaxInputs /\ inputs[kind] \in Nat
    BY <1>1, <1>2, <1>4 DEF Bound
  <2>2. PICK n \in 0 .. MaxInputs : n = inputs[kind] + 1
    BY <1>1, <2>1
  <2> QED
    BY <1>1, <1>2, <1>4, <2>2
<1> QED
  BY <1>3, <1>4

\* What a command begins with.
LEMMA BeginEffect ==
    ASSUME TypeInv, NEW command, Begin(command)
    PROVE  /\ stack = Waiting /\ stack' = command /\ task' = Overlapped(task) /\ last' = None
           /\ inputs' \in [report : 0 .. MaxReports, other : 0 .. MaxInputs]
           /\ UNCHANGED <<slot, dataver, pending, commands, reports, view>>
BY InputType DEF Begin, controller

LEMMA CommandType ==
    ASSUME NEW kind \in {"open", "close", "stop", "position"}, NEW position \in Positions \cup {None},
           NEW target \in Positions, NEW moving \in BOOLEAN, slot \in Slots
    PROVE  /\ Commanding(kind, position, target, moving) \in StackStates
           /\ Commanding(kind, position, target, moving).at = "commanding"
           /\ Commanding(kind, position, target, moving).todo = CommandStores(target, moving)
<1>1. CommandStores(target, moving) \in Seq(Stores)
  BY CommandLeads
<1>2. [kind |-> kind, position |-> position] \in Commands
  BY DEF Commands
<1> QED
  BY <1>1, <1>2, StackMember DEF Commanding

\* The commands of controllers, as far as they have begun.
LEMMA CommandStep ==
    ASSUME TypeInv, Open \/ Close \/ Stop \/ \E p \in Lifts : GoToLift(p)
    PROVE  /\ stack = Waiting /\ stack' \in StackStates /\ stack'.at \in {"stopping", "commanding"}
           /\ task' = Overlapped(task) /\ last' = None /\ goal' \in Nat \cup {None}
           /\ inputs' \in [report : 0 .. MaxReports, other : 0 .. MaxInputs]
           /\ UNCHANGED <<slot, dataver, pending, commands, reports, view>>
           /\ goal' # None => /\ Quiet /\ goal' \in Nat /\ ValidLift(goal') /\ stack'.at = "commanding"
                              /\ stack'.todo = CommandStores(AtMost(Full, HaPosition(goal')), TRUE)
<1>0. slot \in Slots
  BY DEF TypeInv
<1>1. CASE Open
  <2>1. Begin(Commanding("open", None, Full, TRUE)) /\ goal' = None
    BY <1>1 DEF Open
  <2>2. /\ Commanding("open", None, Full, TRUE) \in StackStates
        /\ Commanding("open", None, Full, TRUE).at = "commanding"
    BY <1>0, CommandType, Ends
  <2> QED
    BY <2>1, <2>2, BeginEffect
<1>2. CASE Close
  <2>1. Begin(Commanding("close", None, 0, TRUE)) /\ goal' = None
    BY <1>2 DEF Close
  <2>2. /\ Commanding("close", None, 0, TRUE) \in StackStates
        /\ Commanding("close", None, 0, TRUE).at = "commanding"
    BY <1>0, CommandType, Ends
  <2> QED
    BY <2>1, <2>2, BeginEffect
<1>3. CASE Stop
  <2>1. Begin([at |-> "stopping"]) /\ goal' = None
    BY <1>3 DEF Stop
  <2>2. [at |-> "stopping"] \in StackStates /\ [at |-> "stopping"].at = "stopping"
    BY StackMember
  <2> QED
    BY <2>1, <2>2, BeginEffect
<1>4. ASSUME NEW p \in Lifts, GoToLift(p)
      PROVE  /\ stack = Waiting /\ stack' \in StackStates /\ stack'.at = "commanding"
             /\ task' = Overlapped(task) /\ last' = None /\ goal' \in Nat \cup {None}
             /\ inputs' \in [report : 0 .. MaxReports, other : 0 .. MaxInputs]
             /\ UNCHANGED <<slot, dataver, pending, commands, reports, view>>
             /\ goal' # None => /\ Quiet /\ goal' \in Nat /\ ValidLift(goal')
                                /\ stack'.todo = CommandStores(AtMost(Full, HaPosition(goal')), TRUE)
  <2>1. p \in Nat /\ ValidLift(p)
    BY <1>4, InputsAssumption DEF GoToLift
  <2>2. PICK position \in Positions : position = AtMost(Full, HaPosition(p))
    BY <2>1, RoundTrip
  <2>3. Begin(Commanding("position", position, position, TRUE))
    BY <1>4, <2>2 DEF GoToLift
  <2>4. /\ Commanding("position", position, position, TRUE) \in StackStates
        /\ Commanding("position", position, position, TRUE).at = "commanding"
        /\ Commanding("position", position, position, TRUE).todo = CommandStores(position, TRUE)
    BY <1>0, CommandType
  <2>5. goal' = IF Quiet THEN p ELSE None
    BY <1>4 DEF GoToLift
  <2>6. goal' # None => Quiet /\ goal' = p
    BY <2>5
  <2>7. goal' \in Nat \cup {None}
    BY <2>1, <2>5
  <2> QED
    BY <2>1, <2>2, <2>3, <2>4, <2>6, <2>7, BeginEffect
<1> QED
  BY <1>1, <1>2, <1>3, <1>4
LEMMA CommandStoreEffect ==
    ASSUME TypeInv, CommandStore
    PROVE  /\ stack.at = "commanding" /\ stack.todo \in Seq(Stores) /\ stack.todo # <<>>
           /\ slot' = [slot EXCEPT ![Head(stack.todo).field] = Head(stack.todo).value]
           /\ slot' \in Slots
           /\ stack' \in StackStates /\ stack'.at = "commanding" /\ stack'.todo = Tail(stack.todo)
           /\ UNCHANGED <<dataver, pending, commands, task, reports, view, inputs, last, goal>>
<1>1. /\ stack.at = "commanding" /\ stack.todo # <<>> /\ slot \in Slots /\ stack \in StackStates
      /\ slot' = [slot EXCEPT ![Head(stack.todo).field] = Head(stack.todo).value]
      /\ stack' = [stack EXCEPT !.todo = Tail(stack.todo)]
      /\ UNCHANGED <<dataver, pending, commands, task, reports, view, inputs, last, goal>>
  BY DEF CommandStore, TypeInv, controller, observers
<1>2. PICK command \in Commands, todo \in Seq(Stores) :
         stack = [at |-> "commanding", command |-> command, todo |-> todo]
  BY <1>1 DEF StackStates, Waiting
<1>3. stack.todo = todo
  BY <1>2
<1>4. Head(todo) \in Stores /\ Tail(todo) \in Seq(Stores)
  BY <1>1, <1>3, ElementsOf
<1>5. PICK w \in Stores : w = Head(todo)
  BY <1>4
<1>6. slot' \in Slots
  BY <1>1, <1>3, <1>5, SlotWith
<1>7. PICK rest \in Seq(Stores) : rest = Tail(todo)
  BY <1>4
<1>8. stack' = [at |-> "commanding", command |-> command, todo |-> rest]
  BY <1>1, <1>2, <1>3, <1>7
<1>9. stack' \in StackStates
  BY <1>8, StackMember
<1>10. stack'.at = "commanding" /\ stack'.todo = rest
  BY <1>8
<1> QED
  BY <1>1, <1>3, <1>6, <1>7, <1>9, <1>10

ReadFrom == IF stack.old = None THEN slot ELSE stack.old
ReadGot == Append(stack.got, ReadFrom[ReadOrder[Len(stack.got) + 1]])

LEMMA ReadEffect ==
    ASSUME TypeInv, ReadNext
    PROVE  /\ stack.at = "reading" /\ stack.got \in Read /\ Len(stack.got) \in 0 .. 4
           /\ ReadFrom \in Slots
           /\ Len(ReadGot) = Len(stack.got) + 1
           /\ ReadGot[Len(stack.got) + 1] = ReadFrom[ReadOrder[Len(stack.got) + 1]]
           /\ \A i \in 1 .. Len(stack.got) :
                 ReadGot[i] = stack.got[i] /\ stack.got[i] \in Values(ReadOrder[i])
           /\ Len(stack.got) < 4 =>
                 /\ stack' \in StackStates /\ stack'.at = "reading" /\ stack'.got = ReadGot
                 /\ stack'.dataver = stack.dataver /\ stack'.old = stack.old
                 /\ view' = view
           /\ Len(stack.got) = 4 =>
                 /\ stack' = Waiting
                 /\ view' = [status |-> Status(ReadGot[1], ReadGot[2], ReadGot[3]),
                             target |-> Percent(ReadGot[4]), position |-> Percent(ReadGot[5]),
                             dataver |-> stack.dataver]
                 /\ view' \in Views
           /\ UNCHANGED <<slot, dataver, pending, commands, task, reports, inputs, last, goal>>
<1>1. /\ stack.at = "reading" /\ slot \in Slots /\ stack \in StackStates
      /\ UNCHANGED <<slot, dataver, pending, commands, task, reports, inputs, last, goal>>
  BY DEF ReadNext, TypeInv, observers
<1>2. PICK version \in Nat, got \in Read, old \in Slots \cup {None} :
         stack = [at |-> "reading", dataver |-> version, got |-> got, old |-> old]
  BY <1>1 DEF StackStates, Waiting
<1>3. stack.got = got /\ stack.old = old /\ stack.dataver = version
  BY <1>2
<1>4. ReadFrom \in Slots
  BY <1>1, <1>3 DEF ReadFrom
<1>5. /\ Len(got) \in 0 .. 4 /\ Len(ReadGot) = Len(got) + 1
      /\ (Len(got) < 4 => ReadGot \in Read)
      /\ ReadGot[Len(got) + 1] = ReadFrom[ReadOrder[Len(got) + 1]]
      /\ \A i \in 1 .. Len(got) : ReadGot[i] = got[i] /\ got[i] \in Values(ReadOrder[i])
  BY <1>3, <1>4, ReadOne DEF ReadGot
<1>6. IF Len(ReadGot) < Len(ReadOrder)
      THEN stack' = [stack EXCEPT !.got = ReadGot] /\ UNCHANGED view
      ELSE /\ view' = [status |-> Status(ReadGot[1], ReadGot[2], ReadGot[3]),
                       target |-> Percent(ReadGot[4]), position |-> Percent(ReadGot[5]),
                       dataver |-> stack.dataver]
           /\ stack' = Waiting
  BY DEF ReadNext, ReadGot, ReadFrom
<1> HIDE DEF ReadGot
<1>7. ASSUME Len(got) < 4
      PROVE  /\ stack' \in StackStates /\ stack'.at = "reading" /\ stack'.got = ReadGot
             /\ stack'.dataver = version /\ stack'.old = old /\ view' = view
  <2>1. Len(ReadGot) < Len(ReadOrder)
    BY <1>5, <1>7, Orders
  <2>2. PICK more \in Read : more = ReadGot
    BY <1>5, <1>7
  <2>3. stack' = [at |-> "reading", dataver |-> version, got |-> more, old |-> old]
    BY <1>2, <1>6, <2>1, <2>2
  <2>4. stack' \in StackStates
    BY <2>3, StackMember
  <2>5. stack'.at = "reading" /\ stack'.got = more /\ stack'.dataver = version /\ stack'.old = old
    BY <2>3
  <2> QED
    BY <1>6, <2>1, <2>2, <2>4, <2>5
<1>8. ASSUME Len(got) = 4
      PROVE  /\ stack' = Waiting
             /\ view' = [status |-> Status(ReadGot[1], ReadGot[2], ReadGot[3]),
                         target |-> Percent(ReadGot[4]), position |-> Percent(ReadGot[5]),
                         dataver |-> stack.dataver]
             /\ view' \in Views
  <2>1. ~(Len(ReadGot) < Len(ReadOrder))
    BY <1>5, <1>8, Orders
  <2>2. 4 \in 1 .. Len(got) /\ 4 + 1 = 5
    BY <1>8
  <2>3. ReadGot[4] \in Positions /\ ReadGot[5] \in Positions
    <3>1. ReadGot[4] \in Positions
      BY <1>5, <2>2, Orders DEF Values
    <3>2. ReadGot[5] = ReadFrom["position"]
      BY <1>5, <1>8, <2>2, Orders
    <3> QED
      BY <1>4, <3>1, <3>2, SlotFields
  <2>4. /\ Percent(ReadGot[4]) \in 0 .. Full * Unit /\ Percent(ReadGot[5]) \in 0 .. Full * Unit
        /\ Status(ReadGot[1], ReadGot[2], ReadGot[3]) \in Motions /\ stack.dataver \in Nat
    BY <1>3, <2>3, PercentScale, StatusType
  <2> QED
    BY <1>6, <2>1, <2>4 DEF Views
<1> QED
  BY <1>1, <1>3, <1>4, <1>5, <1>7, <1>8

LEMMA RebuildEffect ==
    ASSUME TypeInv, Rebuild
    PROVE  /\ slot' = slot /\ stack' \in StackStates /\ stack'.at = stack.at
           /\ stack.at # "reading" => stack' = stack
           /\ stack.at = "reading" => /\ stack'.dataver = stack.dataver /\ stack'.got = stack.got
                                      /\ stack'.old = IF stack.old = None THEN slot ELSE stack.old
           /\ inputs' \in [report : 0 .. MaxReports, other : 0 .. MaxInputs]
           /\ UNCHANGED <<dataver, pending, commands, task, reports, view, last, goal>>
<1>1. /\ slot' = slot /\ stack \in StackStates /\ slot \in Slots
      /\ stack' = IF stack.at = "reading" /\ stack.old = None
                  THEN [stack EXCEPT !.old = slot] ELSE stack
      /\ inputs' \in [report : 0 .. MaxReports, other : 0 .. MaxInputs]
      /\ UNCHANGED <<dataver, pending, commands, task, reports, view, last, goal>>
  BY InputType DEF Rebuild, Carried, TypeInv, controller, observers
<1>2. CASE stack.at = "reading" /\ stack.old = None
  <2>1. PICK version \in Nat, got \in Read, old \in Slots \cup {None} :
           stack = [at |-> "reading", dataver |-> version, got |-> got, old |-> old]
    BY <1>1, <1>2 DEF StackStates, Waiting
  <2>2. stack' = [at |-> "reading", dataver |-> version, got |-> got, old |-> slot]
    BY <1>1, <1>2, <2>1
  <2>3. stack' \in StackStates
    BY <1>1, <2>2, StackMember
  <2>4. /\ stack'.at = stack.at /\ stack'.dataver = stack.dataver /\ stack'.got = stack.got
        /\ stack'.old = slot
    BY <2>1, <2>2
  <2> QED
    BY <1>1, <1>2, <2>3, <2>4
<1>3. CASE ~(stack.at = "reading" /\ stack.old = None)
  BY <1>1, <1>3
<1> QED
  BY <1>2, <1>3
LEMMA PushEffect ==
    ASSUME TypeInv, NEW t \in Tasks, NEW ha \in Reported, Push(t, ha)
    PROVE  /\ task[t] = Idle
           /\ \E s \in TaskStates :
                 /\ task' = [Overlapped(task) EXCEPT ![t] = s]
                 /\ s.at = "load" /\ s.ha = ha /\ s.got = <<>> /\ s.alone = Quiet
           /\ inputs' \in [report : 0 .. MaxReports, other : 0 .. MaxInputs]
           /\ goal' = None
           /\ Quiet => last' = last
           /\ ~Quiet => last' = None
           /\ UNCHANGED <<slot, dataver, pending, commands, stack, reports, view>>
<1>1. ha \in Report
  BY ReportedType
<1>2. PICK quiet \in BOOLEAN : quiet = Quiet
  BY DEF Quiet
<1> DEFINE s == [at |-> "load", ha |-> ha, got |-> <<>>, alone |-> quiet]
<1>3. task' = [Overlapped(task) EXCEPT ![t] = s]
  BY <1>2 DEF Push
<1>4. s \in TaskStates
  <2>1. <<>> \in Loaded
    BY EmptySeq DEF Loaded
  <2> QED
    BY <1>1, <2>1, TaskMember
<1>5. s.at = "load" /\ s.ha = ha /\ s.got = <<>>
  OBVIOUS
<1>6. s.alone = quiet
  OBVIOUS
<1> HIDE DEF s
<1>7. \E x \in TaskStates :
         /\ task' = [Overlapped(task) EXCEPT ![t] = x]
         /\ x.at = "load" /\ x.ha = ha /\ x.got = <<>> /\ x.alone = Quiet
  BY <1>2, <1>3, <1>4, <1>5, <1>6
<1>8. /\ task[t] = Idle /\ goal' = None
      /\ last' = IF Quiet THEN last ELSE None
      /\ UNCHANGED <<slot, dataver, pending, commands, stack, reports, view>>
  BY DEF Push, controller
<1>9. inputs' \in [report : 0 .. MaxReports, other : 0 .. MaxInputs]
  BY InputType DEF Push
<1> QED
  BY <1>7, <1>8, <1>9

LEMMA TaskWith ==
    ASSUME TypeInv, NEW t \in Tasks, NEW s, task' = [task EXCEPT ![t] = s]
    PROVE  /\ task'[t] = s
           /\ \A u \in Tasks \ {t} : task'[u] = task[u]
           /\ s \in TaskStates => task' \in [Tasks -> TaskStates]
BY DEF TypeInv

LEMMA TypeStep == ASSUME TypeInv, Next PROVE TypeInv'
<1>1. /\ slot \in Slots /\ dataver \in Nat /\ pending \in BOOLEAN /\ reports \in BOOLEAN
      /\ commands \in Seq(Commands) /\ task \in [Tasks -> TaskStates] /\ stack \in StackStates
      /\ view \in Views /\ inputs \in [report : 0 .. MaxReports, other : 0 .. MaxInputs]
      /\ last \in [ha : Report, misses : Nat] \cup {None} /\ goal \in Nat \cup {None}
  BY DEF TypeInv
<1>2. dataver + 1 \in Nat
  BY <1>1
<1>3. ASSUME NEW t \in Tasks, NEW ha \in Reported, Push(t, ha) PROVE TypeInv'
  <2>1. PICK s \in TaskStates : task' = [Overlapped(task) EXCEPT ![t] = s]
    BY <1>3, PushEffect
  <2>2. task' \in [Tasks -> TaskStates]
    BY <2>1, OverlappedTask
  <2>3. last' \in [ha : Report, misses : Nat] \cup {None}
    BY <1>1, <1>3, PushEffect
  <2> QED
    BY <1>1, <1>3, <2>2, <2>3, PushEffect DEF TypeInv
<1>4. ASSUME NEW t \in Tasks, Load(t) PROVE TypeInv'
  <2>1. UNCHANGED <<slot, dataver, pending, commands, stack, reports, view, inputs, last, goal>>
    BY <1>4 DEF Load, controller, observers
  <2>2. task' \in [Tasks -> TaskStates]
    <3>1. /\ task[t].at = "load" /\ task[t].got \in Loaded /\ Len(task[t].got) \in 0 .. 2
          /\ Len(task[t].got) < 2 \/ Len(task[t].got) = 2
      <4>1. \A n \in 0 .. 2 : n < 2 \/ n = 2
        OBVIOUS
      <4> QED
        BY <1>4, <4>1, LoadEffect
    <3>2. CASE Len(task[t].got) = 2
      BY <1>4, <3>1, <3>2, LoadEffect, StoringLeads, TaskWith
    <3>3. CASE Len(task[t].got) < 2
      <4>1. PICK more \in Loaded : more = Append(task[t].got, slot[LoadOrder[Len(task[t].got) + 1]])
        BY <1>1, <3>1, <3>3, LoadOne
      <4>2. PICK ha \in Report, got \in Loaded, alone \in BOOLEAN :
               task[t] = [at |-> "load", ha |-> ha, got |-> got, alone |-> alone]
        BY <3>1, TaskShape DEF TaskStates, Idle
      <4>3. [task[t] EXCEPT !.got = more] = [at |-> "load", ha |-> ha, got |-> more, alone |-> alone]
        BY <4>2
      <4>4. task' = [task EXCEPT ![t] = [task[t] EXCEPT !.got = more]]
        BY <1>1, <1>4, <3>3, <4>1, LoadEffect
      <4>5. [at |-> "load", ha |-> ha, got |-> more, alone |-> alone] \in TaskStates
        BY TaskMember
      <4> QED
        BY <4>3, <4>4, <4>5, TaskWith
    <3> QED
      BY <3>1, <3>2, <3>3
  <2> QED
    BY <1>1, <2>1, <2>2 DEF TypeInv
<1>5. ASSUME NEW t \in Tasks, StoreNext(t) PROVE TypeInv'
  <2>1. task' \in [Tasks -> TaskStates]
    BY <1>5, StoreEffect, TaskWith
  <2> QED
    BY <1>1, <1>5, <2>1, StoreEffect DEF TypeInv
<1>6. ASSUME NEW t \in Tasks, Count(t) PROVE TypeInv'
  <2>1. task[t].alone \in BOOLEAN /\ task[t].changed \in BOOLEAN
    BY <1>6, CountEffect, TaskShape, StateShape
  <2>2. task' \in [Tasks -> TaskStates] /\ dataver' \in Nat
    BY <1>1, <1>2, <1>6, <2>1, CountEffect, TaskMember, TaskWith
  <2> QED
    BY <1>1, <1>6, <2>2, CountEffect DEF TypeInv
<1>7. ASSUME NEW t \in Tasks, Mark(t) PROVE TypeInv'
  <2>1. /\ pending' = TRUE /\ task' = [task EXCEPT ![t] = Idle]
        /\ UNCHANGED <<slot, dataver, commands, stack, reports, view, inputs, last, goal>>
    BY <1>7 DEF Mark, controller, observers
  <2>2. task' \in [Tasks -> TaskStates]
    BY <2>1, TaskMember, TaskWith
  <2> QED
    BY <1>1, <2>1, <2>2 DEF TypeInv
<1>8. CASE Rebuild
  BY <1>1, <1>8, RebuildEffect DEF TypeInv
<1>9. CASE Open \/ Close \/ Stop \/ \E p \in Lifts : GoToLift(p)
  <2>1. task' \in [Tasks -> TaskStates]
    BY <1>9, CommandStep, OverlappedTask
  <2> QED
    BY <1>1, <1>9, <2>1, CommandStep DEF TypeInv
<1>10. CASE StopLoad
  <2>1. /\ stack' = Commanding("stop", None, slot.position, FALSE)
        /\ UNCHANGED <<slot, dataver, pending, commands, task, reports, view, inputs, last, goal>>
    BY <1>10 DEF StopLoad, controller, observers
  <2>2. stack' \in StackStates
    BY <1>1, <2>1, CommandType, SlotFields
  <2> QED
    BY <1>1, <2>1, <2>2 DEF TypeInv
<1>11. CASE CommandStore
  BY <1>1, <1>11, CommandStoreEffect DEF TypeInv
<1>12. CASE QueueCommand
  <2>1. /\ stack.at = "commanding" /\ dataver' = dataver + 1
        /\ commands' = Append(commands, stack.command) /\ stack' = [at |-> "notify"]
        /\ UNCHANGED <<slot, pending, task, reports, view, inputs, last, goal>>
    BY <1>12 DEF QueueCommand, controller, observers
  <2>2. stack.command \in Commands
    BY <1>1, <2>1, StackShape
  <2>3. commands' \in Seq(Commands) /\ stack' \in StackStates
    BY <1>1, <2>1, <2>2, StackMember, AppendProperties
  <2> QED
    BY <1>1, <1>2, <2>1, <2>3 DEF TypeInv
<1>13. CASE TakeCommands
  <2>1. commands' \in Seq(Commands)
    BY <1>13, EmptySeq DEF TakeCommands
  <2>2. UNCHANGED <<slot, dataver, pending, task, stack, reports, view, inputs, last, goal>>
    BY <1>13 DEF TakeCommands, controller, observers
  <2> QED
    BY <1>1, <2>1, <2>2 DEF TypeInv
<1>14. CASE Drain
  <2>1. stack' \in StackStates /\ pending' = FALSE
    BY <1>14, StackMember DEF Drain
  <2>2. UNCHANGED <<slot, dataver, commands, task, reports, view, inputs, last, goal>>
    BY <1>14 DEF Drain, controller, observers
  <2> QED
    BY <1>1, <2>1, <2>2 DEF TypeInv
<1>15. CASE Notify
  <2>1. /\ stack' = Waiting /\ reports' = TRUE /\ dataver' = dataver + 1
        /\ UNCHANGED <<slot, pending, commands, task, view, inputs, last, goal>>
    BY <1>15 DEF Notify, observers
  <2> QED
    BY <1>1, <1>2, <2>1, StackMember DEF TypeInv
<1>16. CASE ReadVersion
  <2>1. /\ reports' = FALSE
        /\ stack' = [at |-> "reading", dataver |-> dataver, got |-> <<>>, old |-> None]
        /\ UNCHANGED <<slot, dataver, pending, commands, task, view, inputs, last, goal>>
    BY <1>16 DEF ReadVersion, observers
  <2>2. <<>> \in Read
    BY EmptySeq DEF Read
  <2>3. stack' \in StackStates
    BY <1>1, <2>1, <2>2, StackMember
  <2> QED
    BY <1>1, <2>1, <2>3 DEF TypeInv
<1>17. CASE ReadNext
  <2>1. Len(stack.got) < 4 \/ Len(stack.got) = 4
    <3>1. stack.at = "reading"
      BY <1>17 DEF ReadNext
    <3>2. stack.got \in Read
      BY <1>1, <3>1, StackShape DEF TypeInv
    <3>3. Len(stack.got) \in Nat /\ Len(stack.got) < 5
      BY <3>2, LenProperties DEF Read
    <3>4. \A n \in Nat : n < 5 => n < 4 \/ n = 4
      OBVIOUS
    <3> QED
      BY <3>3, <3>4
  <2>2. stack' \in StackStates /\ view' \in Views
    BY <1>1, <1>17, <2>1, ReadEffect, StackMember
  <2> QED
    BY <1>1, <1>17, <2>2, ReadEffect DEF TypeInv
<1> QED
  BY <1>3, <1>4, <1>5, <1>6, <1>7, <1>8, <1>9, <1>10, <1>11, <1>12, <1>13, <1>14, <1>15, <1>16, <1>17
     DEF Next, TaskStep, StackStep
-----------------------------------------------------------------------------
(* Versions and reports owed *)

Versions == VersionBound /\ ReadSound /\ VersionSound /\ NothingLost

\* A change is owed elsewhere than in the notifications and the read under way.
Unseen == pending \/ reports \/ Marked

\* What the controller holds shows the slot.
Showing ==
    /\ view.status = Shown(slot)
    /\ view.target = Percent(slot.target) /\ view.position = Percent(slot.position)

LEMMA ShowingMeans ==
    ASSUME TypeInv
    PROVE  /\ Stale <=> ~Showing
           /\ view.dataver = dataver => (view = Current <=> Showing)
<1>1. PICK status \in Motions, target \in 0 .. Full * Unit, position \in 0 .. Full * Unit, version \in Nat :
         view = [status |-> status, target |-> target, position |-> position, dataver |-> version]
  BY DEF TypeInv, Views
<1>2. PICK a, b, c, d : a = Shown(slot) /\ b = Percent(slot.target) /\ c = Percent(slot.position) /\ d = dataver
  OBVIOUS
<1>3. Current = [status |-> a, target |-> b, position |-> c, dataver |-> d]
  BY <1>2 DEF Current
<1>4. PICK zero : zero = 0
  OBVIOUS
<1>5. [view EXCEPT !.dataver = zero] =
         [status |-> status, target |-> target, position |-> position, dataver |-> zero]
  BY <1>1
<1>6. [Current EXCEPT !.dataver = zero] = [status |-> a, target |-> b, position |-> c, dataver |-> zero]
  BY <1>3
<1>7. Stale <=> ~(status = a /\ target = b /\ position = c)
  BY <1>4, <1>5, <1>6 DEF Stale
<1>8. Showing <=> status = a /\ target = b /\ position = c
  BY <1>1, <1>2 DEF Showing
<1>9. view.dataver = version
  BY <1>1
<1>10. view.dataver = dataver => (view = Current <=> status = a /\ target = b /\ position = c)
  BY <1>1, <1>2, <1>3, <1>9
<1> QED
  BY <1>7, <1>8, <1>10

LEMMA OwedMeans == Owed <=> Uncounted \/ Unseen \/ stack.at \in {"notify", "reading"}
BY DEF Owed, Unseen, Marked

\* The versions in terms of Showing and Unseen.
Reading ==
    stack.at = "reading" /\ ~Uncounted /\ (stack.dataver = dataver \/ ~Unseen) => Matching

Viewing ==
    /\ view.dataver = dataver /\ ~Uncounted => Showing
    /\ Showing \/ Owed

LEMMA VersionsMean == TypeInv => (Versions <=> VersionBound /\ Reading /\ Viewing)
<1> SUFFICES ASSUME TypeInv PROVE Versions <=> VersionBound /\ Reading /\ Viewing
  OBVIOUS
<1>1. ReadSound <=> Reading
  BY DEF ReadSound, Unseen, Reading
<1>2. VersionSound <=> (view.dataver = dataver /\ ~Uncounted => Showing)
  BY ShowingMeans DEF VersionSound
<1>3. NothingLost <=> (Showing \/ Owed)
  BY ShowingMeans DEF NothingLost
<1> QED
  BY <1>1, <1>2, <1>3 DEF Versions, Viewing

LEMMA VersionsMeanNext ==
    ASSUME TypeInv'
    PROVE  Versions' <=> VersionBound' /\ Reading' /\ Viewing'
<1>1. (TypeInv => (Versions <=> VersionBound /\ Reading /\ Viewing))'
  BY VersionsMean, PTL
<1> QED
  BY <1>1

\* A step that neither reads nor notifies.
LEMMA VersionFrame ==
    ASSUME TypeInv, TypeInv', Versions, view' = view,
           dataver' = dataver \/ dataver' = dataver + 1,
           ~Uncounted' /\ dataver' = dataver => ~Uncounted /\ slot' = slot,
           stack'.at = "reading" => stack' = stack,
           ~Uncounted' /\ ~Unseen' =>
              (~Uncounted /\ ~Unseen /\ slot' = slot) \/ stack'.at = "notify",
           ~Uncounted' /\ ~Unseen' /\ stack.at = "notify" => stack'.at = "notify",
           stack.at = "reading" => stack' = stack
    PROVE  Versions'
<1>1. /\ VersionBound
      /\ stack.at = "reading" /\ ~Uncounted /\ (stack.dataver = dataver \/ ~Unseen) => Matching
      /\ view.dataver = dataver /\ ~Uncounted => Showing
      /\ Showing \/ Owed
  BY VersionsMean DEF Reading, Viewing
<1>2. /\ dataver \in Nat /\ view.dataver \in Nat
      /\ stack.at = "reading" => stack.dataver \in Nat
  BY StackShape DEF TypeInv, Views
<1>3. VersionBound'
  BY <1>1, <1>2 DEF VersionBound
<1>4. slot' = slot => (Showing' <=> Showing)
  BY DEF Showing
<1>5. slot' = slot /\ stack' = stack => (Matching' <=> Matching)
  BY DEF Matching
<1>6. ASSUME stack'.at = "reading", ~Uncounted', stack'.dataver = dataver' \/ ~Unseen'
      PROVE  Matching'
  <2>1. stack' = stack
    BY <1>6
  <2>2. stack.dataver <= dataver /\ stack.dataver \in Nat
    BY <1>1, <1>2, <1>6, <2>1 DEF VersionBound
  <2>3. dataver' = dataver + 1 => stack'.dataver # dataver'
    BY <1>2, <2>1, <2>2
  <2>4. ~Uncounted /\ slot' = slot /\ (stack.dataver = dataver \/ ~Unseen)
    BY <1>6, <2>1, <2>3
  <2> QED
    BY <1>1, <1>5, <1>6, <2>1, <2>4
<1>7. ASSUME view'.dataver = dataver', ~Uncounted' PROVE Showing'
  <2>1. dataver' # dataver + 1
    BY <1>1, <1>2, <1>7 DEF VersionBound
  <2> QED
    BY <1>1, <1>4, <1>7, <2>1
<1>8. Showing' \/ Owed'
  <2> SUFFICES ASSUME ~Owed' PROVE Showing'
    OBVIOUS
  <2>1. ~Uncounted' /\ ~Unseen' /\ stack'.at \notin {"notify", "reading"}
    BY DEF Owed, Unseen, Marked
  <2>2. ~Uncounted /\ ~Unseen /\ slot' = slot /\ stack.at \notin {"notify", "reading"}
    BY <2>1
  <2> QED
    BY <1>1, <1>4, <2>2, OwedMeans
<1> QED
  BY <1>3, <1>6, <1>7, <1>8, VersionsMeanNext DEF Reading, Viewing
ChangedTasks == {t \in Tasks : task[t].at = "store" /\ task[t].changed}
MarkedTasks == {t \in Tasks : task[t].at = "mark"}

LEMMA TasksMean ==
    /\ Uncounted <=> ChangedTasks # {} \/ stack.at = "commanding"
    /\ Uncounted' <=> ChangedTasks' # {} \/ stack'.at = "commanding"
    /\ Unseen <=> pending \/ reports \/ MarkedTasks # {}
    /\ Unseen' <=> pending' \/ reports' \/ MarkedTasks' # {}
BY DEF Uncounted, Unseen, Marked, ChangedTasks, MarkedTasks

LEMMA VersionStep == ASSUME TypeInv, TypeInv', Versions, Next PROVE Versions'
<1>1. /\ dataver \in Nat /\ slot \in Slots /\ stack \in StackStates
      /\ task \in [Tasks -> TaskStates]
  BY DEF TypeInv
<1>2. ASSUME NEW t \in Tasks, NEW ha \in Reported, Push(t, ha) PROVE Versions'
  <2>1. PICK s \in TaskStates : task' = [Overlapped(task) EXCEPT ![t] = s] /\ s.at = "load"
    BY <1>2, PushEffect
  <2>2. /\ task[t].at = "idle" /\ task'[t].at = "load"
        /\ \A u \in Tasks \ {t} : /\ task'[u].at = task[u].at
                                  /\ task[u].at = "store" => task'[u].changed = task[u].changed
    BY <1>2, <2>1, PushEffect, OverlappedTask, TaskMember
  <2>3. ChangedTasks' = ChangedTasks /\ MarkedTasks' = MarkedTasks
    BY <2>2 DEF ChangedTasks, MarkedTasks
  <2>4. UNCHANGED <<slot, dataver, pending, stack, reports, view>>
    BY <1>2, PushEffect
  <2> QED
    BY <2>3, <2>4, TasksMean, VersionFrame
<1>3. ASSUME NEW t \in Tasks, Load(t) PROVE Versions'
  <2>1. UNCHANGED <<slot, dataver, pending, stack, reports, view>>
    BY <1>3 DEF Load, controller
  <2>2. /\ task[t].at = "load" /\ \A u \in Tasks \ {t} : task'[u] = task[u]
        /\ task'[t].at = "load" \/ (task'[t].at = "store" /\ task'[t].changed = FALSE)
    <3>1. task[t].at = "load" /\ (Len(task[t].got) < 2 \/ Len(task[t].got) = 2)
      <4>1. \A n \in 0 .. 2 : n < 2 \/ n = 2
        OBVIOUS
      <4> QED
        BY <1>3, <4>1, LoadEffect
    <3>2. CASE Len(task[t].got) = 2
      <4>1. task' = [task EXCEPT ![t] = Storing(t)]
        BY <1>3, <3>2, LoadEffect
      <4>2. task'[t] = Storing(t) /\ \A u \in Tasks \ {t} : task'[u] = task[u]
        BY <4>1, TaskWith
      <4>3. Storing(t).at = "store" /\ Storing(t).changed = FALSE
        BY <3>1, <3>2, StoringLeads
      <4> QED
        BY <3>1, <4>2, <4>3
    <3>3. CASE Len(task[t].got) < 2
      <4>1. task' = [task EXCEPT ![t].got = Append(task[t].got, slot[LoadOrder[Len(task[t].got) + 1]])]
        BY <1>3, <3>3, LoadEffect
      <4>2. task'[t] = [task[t] EXCEPT !.got = Append(task[t].got, slot[LoadOrder[Len(task[t].got) + 1]])]
        BY <1>1, <4>1
      <4>3. task'[t].at = task[t].at
        BY <4>2
      <4>4. \A u \in Tasks \ {t} : task'[u] = task[u]
        BY <1>1, <4>1
      <4> QED
        BY <3>1, <4>3, <4>4
    <3> QED
      BY <3>1, <3>2, <3>3
  <2>3. ChangedTasks' = ChangedTasks /\ MarkedTasks' = MarkedTasks
    BY <2>2 DEF ChangedTasks, MarkedTasks
  <2> QED
    BY <2>1, <2>3, TasksMean, VersionFrame
<1>4. ASSUME NEW t \in Tasks, StoreNext(t) PROVE Versions'
  <2>1. /\ task[t].at = "store"
        /\ task[t].changed \/ Changes(Head(task[t].todo)) \/ slot' = slot
        /\ UNCHANGED <<dataver, pending, stack, reports, view>>
    BY <1>4, StoreEffect
  <2>2. PICK s \in TaskStates :
           /\ task' = [task EXCEPT ![t] = s] /\ s.at = "store"
           /\ s.changed = (task[t].changed \/ Changes(Head(task[t].todo)))
    BY <1>4, StoreEffect
  <2>3. task'[t] = s /\ \A u \in Tasks \ {t} : task'[u] = task[u]
    BY <2>2, TaskWith
  <2>4. MarkedTasks' = MarkedTasks
    BY <2>1, <2>2, <2>3 DEF MarkedTasks
  <2>5. ChangedTasks \subseteq ChangedTasks' /\ (ChangedTasks' = {} => slot' = slot)
    BY <2>1, <2>2, <2>3 DEF ChangedTasks
  <2> QED
    BY <2>1, <2>4, <2>5, TasksMean, VersionFrame
<1>5. ASSUME NEW t \in Tasks, Count(t) PROVE Versions'
  <2>1. /\ task[t].at = "store" /\ task[t].changed \in BOOLEAN
        /\ UNCHANGED <<slot, pending, stack, reports, view>>
    BY <1>5, CountEffect, TaskShape, StateShape
  <2>2. CASE task[t].changed
    <3>1. dataver' = dataver + 1 /\ task' = [task EXCEPT ![t] = [at |-> "mark", alone |-> task[t].alone]]
      BY <1>5, <2>2, CountEffect
    <3>2. task'[t].at = "mark"
      <4>1. task'[t] = [at |-> "mark", alone |-> task[t].alone]
        BY <3>1, TaskWith
      <4> QED
        BY <4>1
    <3>3. MarkedTasks' # {}
      BY <3>2 DEF MarkedTasks
    <3>4. dataver' # dataver
      BY <1>1, <3>1
    <3> QED
      BY <2>1, <3>1, <3>3, <3>4, TasksMean, VersionFrame
  <2>3. CASE ~task[t].changed
    <3>1. dataver' = dataver /\ task' = [task EXCEPT ![t] = Idle]
      BY <1>5, <2>3, CountEffect
    <3>2. task'[t].at = "idle" /\ \A u \in Tasks \ {t} : task'[u] = task[u]
      BY <3>1, TaskWith, TaskMember
    <3>3. ChangedTasks' = ChangedTasks /\ MarkedTasks' = MarkedTasks
      BY <2>1, <2>3, <3>2 DEF ChangedTasks, MarkedTasks
    <3> QED
      BY <2>1, <3>1, <3>3, TasksMean, VersionFrame
  <2> QED
    BY <2>2, <2>3
<1>6. ASSUME NEW t \in Tasks, Mark(t) PROVE Versions'
  <2>1. /\ task[t].at = "mark" /\ pending' = TRUE /\ task' = [task EXCEPT ![t] = Idle]
        /\ UNCHANGED <<slot, dataver, stack, reports, view>>
    BY <1>6 DEF Mark, controller
  <2>2. task'[t].at = "idle" /\ \A u \in Tasks \ {t} : task'[u] = task[u]
    BY <2>1, TaskWith, TaskMember
  <2>3. ChangedTasks' = ChangedTasks
    BY <2>1, <2>2 DEF ChangedTasks
  <2> QED
    BY <2>1, <2>3, TasksMean, VersionFrame
<1>7. CASE Open \/ Close \/ Stop \/ \E p \in Lifts : GoToLift(p)
  <2>1. /\ stack.at = "wait" /\ stack'.at \in {"stopping", "commanding"} /\ task' = Overlapped(task)
        /\ UNCHANGED <<slot, dataver, pending, reports, view>>
    BY <1>7, CommandStep, StackMember
  <2>2. \A u \in Tasks : /\ task'[u].at = task[u].at
                         /\ task[u].at = "store" => task'[u].changed = task[u].changed
    BY <2>1, OverlappedTask
  <2>3. ChangedTasks' = ChangedTasks /\ MarkedTasks' = MarkedTasks
    BY <2>2 DEF ChangedTasks, MarkedTasks
  <2> QED
    BY <2>1, <2>3, TasksMean, VersionFrame
<1>8. CASE StopLoad
  <2>1. /\ stack.at = "stopping" /\ stack' = Commanding("stop", None, slot.position, FALSE)
        /\ UNCHANGED <<slot, dataver, pending, task, reports, view>>
    BY <1>8 DEF StopLoad, controller
  <2>2. stack'.at = "commanding"
    BY <1>1, <2>1, CommandType, SlotFields
  <2> QED
    BY <2>1, <2>2, TasksMean, VersionFrame
<1>9. CASE CommandStore
  <2>1. /\ stack.at = "commanding" /\ stack'.at = "commanding"
        /\ UNCHANGED <<dataver, pending, task, reports, view>>
    BY <1>9, CommandStoreEffect
  <2> QED
    BY <2>1, TasksMean, VersionFrame
<1>10. CASE QueueCommand
  <2>1. /\ stack.at = "commanding" /\ stack'.at = "notify" /\ dataver' = dataver + 1
        /\ UNCHANGED <<slot, pending, task, reports, view>>
    BY <1>10 DEF QueueCommand, controller
  <2>2. dataver' # dataver
    BY <1>1, <2>1
  <2> QED
    BY <2>1, <2>2, TasksMean, VersionFrame
<1>11. CASE TakeCommands
  <2>1. UNCHANGED <<slot, dataver, pending, task, stack, reports, view>>
    BY <1>11 DEF TakeCommands, controller
  <2>2. ChangedTasks' = ChangedTasks /\ MarkedTasks' = MarkedTasks
    BY <2>1 DEF ChangedTasks, MarkedTasks
  <2> QED
    BY <2>1, <2>2, TasksMean, VersionFrame
<1>12. CASE Drain
  <2>1. /\ stack.at = "wait" /\ (pending => stack'.at = "notify") /\ (~pending => stack' = stack)
        /\ pending' = FALSE /\ UNCHANGED <<slot, dataver, task, reports, view>>
    BY <1>12, StackMember DEF Drain, controller
  <2>2. ChangedTasks' = ChangedTasks /\ MarkedTasks' = MarkedTasks
    BY <2>1 DEF ChangedTasks, MarkedTasks
  <2> QED
    BY <2>1, <2>2, TasksMean, VersionFrame
<1>13. CASE Notify
  <2>1. /\ stack.at = "notify" /\ stack'.at = "wait" /\ reports' = TRUE /\ dataver' = dataver + 1
        /\ UNCHANGED <<slot, pending, task, view>>
    BY <1>13, StackMember DEF Notify
  <2>2. dataver' # dataver
    BY <1>1, <2>1
  <2> QED
    BY <2>1, <2>2, TasksMean, VersionFrame
<1>14. VersionBound /\ Reading /\ Viewing
  BY VersionsMean
<1>15. CASE Rebuild
  <2>1. /\ UNCHANGED <<slot, dataver, pending, task, reports, view>> /\ stack'.at = stack.at
        /\ stack.at = "reading" => /\ stack'.dataver = stack.dataver /\ stack'.got = stack.got
                                   /\ stack'.old = IF stack.old = None THEN slot ELSE stack.old
    BY <1>15, RebuildEffect
  <2>2. ChangedTasks' = ChangedTasks /\ MarkedTasks' = MarkedTasks
    BY <2>1 DEF ChangedTasks, MarkedTasks
  <2>3. (Uncounted' <=> Uncounted) /\ (Unseen' <=> Unseen)
    BY <2>1, <2>2, TasksMean
  <2>4. stack.at = "reading" /\ Matching => Matching'
    BY <2>1 DEF Matching
  <2>5. Reading' /\ VersionBound'
    BY <1>14, <2>1, <2>3, <2>4 DEF Reading, VersionBound
  <2>6. Showing' <=> Showing
    BY <2>1 DEF Showing
  <2>7. Owed' <=> Owed
    BY <2>1, <2>3 DEF Owed, Unseen, Marked
  <2> QED
    BY <1>14, <2>1, <2>3, <2>5, <2>6, <2>7, VersionsMeanNext DEF Viewing
<1>16. CASE ReadVersion
  <2>1. /\ stack.at = "wait" /\ UNCHANGED <<slot, dataver, pending, task, view>>
        /\ stack' = [at |-> "reading", dataver |-> dataver, got |-> <<>>, old |-> None]
    BY <1>16, StackMember DEF ReadVersion
  <2>2. stack'.at = "reading" /\ stack'.dataver = dataver /\ stack'.got = <<>> /\ stack'.old = None
    BY <2>1
  <2>3. Matching' /\ Owed'
    BY <2>2 DEF Matching, Owed
  <2>4. VersionBound'
    BY <1>1, <1>14, <2>1, <2>2 DEF VersionBound
  <2>5. ChangedTasks' = ChangedTasks
    BY <2>1 DEF ChangedTasks
  <2>6. (Uncounted' <=> Uncounted) /\ (Showing' <=> Showing)
    BY <2>1, <2>2, <2>5, TasksMean DEF Showing
  <2> QED
    BY <1>14, <2>1, <2>3, <2>4, <2>6, VersionsMeanNext DEF Reading, Viewing
<1>17. CASE ReadNext
  <2>1. /\ stack.at = "reading" /\ Len(stack.got) \in 0 .. 4
        /\ UNCHANGED <<slot, dataver, pending, task, reports>>
    BY <1>17, ReadEffect
  <2>2. ChangedTasks' = ChangedTasks /\ MarkedTasks' = MarkedTasks
    BY <2>1 DEF ChangedTasks, MarkedTasks
  <2>3. (Len(stack.got) < 4 /\ stack'.at = "reading") \/ (Len(stack.got) = 4 /\ stack' = Waiting)
    <3>1. \A n \in 0 .. 4 : n < 4 \/ n = 4
      OBVIOUS
    <3> QED
      BY <1>17, <2>1, <3>1, ReadEffect
  <2>4. (Uncounted' <=> Uncounted) /\ (Unseen' <=> Unseen)
    <3>1. stack'.at # "commanding"
      BY <2>3, StackMember
    <3> QED
      BY <2>1, <2>2, <3>1, TasksMean
  <2>5. Matching => \A i \in 1 .. Len(stack.got) + 1 : ReadGot[i] = slot[ReadOrder[i]]
    <3> SUFFICES ASSUME Matching, NEW i \in 1 .. Len(stack.got) + 1 PROVE ReadGot[i] = slot[ReadOrder[i]]
      OBVIOUS
    <3>1. ReadFrom = slot /\ \A j \in 1 .. Len(stack.got) : stack.got[j] = slot[ReadOrder[j]]
      BY DEF Matching, ReadFrom
    <3>2. i \in 1 .. Len(stack.got) \/ i = Len(stack.got) + 1
      <4>1. \A n \in 0 .. 4 : \A k \in 1 .. n + 1 : k \in 1 .. n \/ k = n + 1
        OBVIOUS
      <4> QED
        BY <2>1, <4>1
    <3> QED
      BY <1>17, <3>1, <3>2, ReadEffect
  <2>6. CASE Len(stack.got) < 4
    <3>1. /\ stack'.at = "reading" /\ stack'.got = ReadGot /\ stack'.dataver = stack.dataver
          /\ stack'.old = stack.old /\ view' = view /\ Len(ReadGot) = Len(stack.got) + 1
      BY <1>17, <2>6, ReadEffect
    <3>2. Matching => Matching'
      BY <2>1, <2>5, <3>1 DEF Matching
    <3>3. Reading' /\ VersionBound'
      BY <1>14, <2>1, <2>4, <3>1, <3>2 DEF Reading, VersionBound
    <3>4. Owed' /\ (Showing' <=> Showing)
      BY <2>1, <3>1 DEF Owed, Showing
    <3> QED
      BY <1>14, <2>1, <2>4, <3>1, <3>3, <3>4, VersionsMeanNext DEF Viewing
  <2>7. CASE Len(stack.got) = 4
    <3>1. /\ stack'.at = "wait"
          /\ view' = [status |-> Status(ReadGot[1], ReadGot[2], ReadGot[3]),
                      target |-> Percent(ReadGot[4]), position |-> Percent(ReadGot[5]),
                      dataver |-> stack.dataver]
      BY <1>17, <2>7, ReadEffect, StackMember
    <3>2. view'.dataver = stack.dataver
      BY <3>1
    <3>3. Matching => Showing'
      <4> SUFFICES ASSUME Matching PROVE Showing'
        OBVIOUS
      <4>1. \A i \in 1 .. 5 : ReadGot[i] = slot[ReadOrder[i]]
        <5>1. Len(stack.got) + 1 = 5
          BY <2>7
        <5> QED
          BY <2>5, <5>1
      <4>2. 1 \in 1 .. 5 /\ 2 \in 1 .. 5 /\ 3 \in 1 .. 5 /\ 4 \in 1 .. 5 /\ 5 \in 1 .. 5
        OBVIOUS
      <4>3. /\ ReadGot[1] = slot["position"] /\ ReadGot[2] = slot["target"] /\ ReadGot[3] = slot["moving"]
            /\ ReadGot[4] = slot["target"] /\ ReadGot[5] = slot["position"]
        BY <4>1, <4>2, Orders
      <4>4. /\ view'.status = Status(ReadGot[1], ReadGot[2], ReadGot[3])
            /\ view'.target = Percent(ReadGot[4]) /\ view'.position = Percent(ReadGot[5])
        BY <3>1
      <4> QED
        BY <2>1, <4>3, <4>4 DEF Showing, Shown
    <3>4. VersionBound' /\ Reading'
      BY <1>14, <2>1, <3>1, <3>2 DEF Reading, VersionBound
    <3>5. view'.dataver = dataver /\ ~Uncounted => Matching
      BY <1>14, <2>1, <3>2 DEF Reading
    <3>6. ~Owed' => Matching
      <4> SUFFICES ASSUME ~Owed' PROVE Matching
        OBVIOUS
      <4>1. ~Uncounted' /\ ~Unseen'
        BY DEF Owed, Unseen, Marked
      <4> QED
        BY <1>14, <2>1, <2>4, <4>1 DEF Reading
    <3> QED
      BY <2>1, <2>4, <3>3, <3>4, <3>5, <3>6, VersionsMeanNext DEF Viewing
  <2> QED
    BY <2>3, <2>6, <2>7
<1> QED
  BY <1>2, <1>3, <1>4, <1>5, <1>6, <1>7, <1>8, <1>9, <1>10, <1>11, <1>12, <1>13, <1>15, <1>16, <1>17
     DEF Next, TaskStep, StackStep
-----------------------------------------------------------------------------
(* Reports that run alone *)

LEMMA AfterRepairs ==
    ASSUME NEW ha \in Report, NEW cur \in Slots, NEW previous,
           previous # None => Good(previous, cur)
    PROVE  Repairs(previous, ha, AfterReport(ha, cur))
<1> DEFINE after == AfterReport(ha, cur)
<1>1. /\ cur.position \in Positions /\ cur.target \in Positions /\ cur.moving \in BOOLEAN
      /\ ha.motion \in Motions /\ (ha.position # None => ha.position \in Positions)
  BY SlotFields DEF Report
<1>2. /\ ha.position # None => after.position = ha.position
      /\ ha.position = None => after.position = cur.position
      /\ after.position \in Positions
  BY <1>1 DEF AfterReport
<1>3. ASSUME ha.motion = "stopped"
      PROVE  Shown(after) = "stopped" /\ (ha.position # None => after.target = after.position)
  <2>1. ~after.moving
    BY <1>3 DEF AfterReport
  <2>2. ha.position # None => after.target = ha.position
    BY <1>3 DEF AfterReport
  <2> QED
    BY <1>2, <2>1, <2>2 DEF Shown, Status
<1>4. ASSUME ha.motion = "opening", Shown(cur) = "closing" PROVE Shown(after) # "closing"
  <2>1. cur.target <= cur.position
    BY <1>1, <1>4 DEF Shown, Status, Positions
  <2>2. after.target = Full
    BY <1>4, <2>1 DEF AfterReport
  <2>3. after.position <= Full /\ after.position \in Nat /\ Full \in Nat
    BY <1>2, Ends DEF Positions
  <2>4. Full = after.position \/ Full > after.position
    BY <2>3
  <2> HIDE DEF after
  <2> QED
    BY <2>2, <2>4 DEF Shown, Status
<1>5. ASSUME ha.motion = "closing", Shown(cur) = "opening" PROVE Shown(after) # "opening"
  <2>1. cur.target >= cur.position
    BY <1>1, <1>5 DEF Shown, Status, Positions
  <2>2. after.target = 0
    BY <1>5, <2>1 DEF AfterReport
  <2>3. after.position >= 0 /\ after.position \in Nat
    BY <1>2, Ends DEF Positions
  <2>4. ~(0 > after.position)
    BY <2>3
  <2> HIDE DEF after
  <2> QED
    BY <2>2, <2>4 DEF Shown, Status
<1> HIDE DEF after
<1>6. ASSUME previous # None, previous.ha.motion = ha.motion, previous.misses = 1
      PROVE  ~Opposite(ha.motion, after)
  <2>1. Opposite(ha.motion, cur)
    BY <1>6 DEF Good
  <2>2. \/ ha.motion = "opening" /\ Shown(cur) = "closing"
        \/ ha.motion = "closing" /\ Shown(cur) = "opening"
    BY <2>1 DEF Opposite
  <2>3. ~(ha.motion = "opening" /\ Shown(after) = "closing")
        /\ ~(ha.motion = "closing" /\ Shown(after) = "opening")
    BY <1>4, <1>5, <2>2
  <2> QED
    BY <2>2, <2>3 DEF Opposite
<1>7. Healed(ha, after)
  BY <1>2, <1>3 DEF Healed
<1> QED
  BY <1>6, <1>7 DEF Repairs, after

Reports == AloneInv /\ LoadInv /\ StoreInv /\ LastInv

\* The observer after a report that ran alone.
LEMMA OutcomeGood ==
    ASSUME NEW ha \in Report, Repairs(last, ha, slot), last # None => last.misses \in {0, 1}
    PROVE  /\ Good(Outcome(ha), slot) /\ Outcome(ha).ha = ha
           /\ Outcome(ha).misses \in {0, 1}
<1>1. PICK before : before = IF last # None /\ last.ha.motion = ha.motion THEN last.misses ELSE 0
  OBVIOUS
<1>2. Outcome(ha) = [ha |-> ha, misses |-> IF Opposite(ha.motion, slot) THEN before + 1 ELSE 0]
  BY <1>1 DEF Outcome, Opposite
<1>3. Outcome(ha).ha = ha /\ Outcome(ha).misses = IF Opposite(ha.motion, slot) THEN before + 1 ELSE 0
  BY <1>2
<1>4. Opposite(ha.motion, slot) => before = 0
  <2> SUFFICES ASSUME Opposite(ha.motion, slot) PROVE before = 0
    OBVIOUS
  <2>1. ~(last # None /\ last.ha.motion = ha.motion /\ last.misses = 1)
    BY DEF Repairs
  <2> QED
    BY <1>1, <2>1
<1>5. Outcome(ha).misses = IF Opposite(ha.motion, slot) THEN 1 ELSE 0
  <2>1. 0 + 1 = 1
    OBVIOUS
  <2> QED
    BY <1>3, <1>4, <2>1
<1>6. Healed(ha, slot)
  BY DEF Repairs
<1> QED
  BY <1>3, <1>5, <1>6 DEF Good

\* A step that stores and reports nothing and begins no command.
LEMMA ReportsCalm ==
    ASSUME Reports, task' = task, slot' = slot, last' = last,
           stack'.at \in {"stopping", "commanding"} => stack.at \in {"stopping", "commanding"}
    PROVE  Reports'
<1>1. \A t \in Tasks : Alone(t)' <=> Alone(t)
  BY DEF Alone
<1>2. AloneInv' /\ LoadInv' /\ LastInv'
  BY <1>1 DEF Reports, AloneInv, LoadInv, LastInv
<1>3. StoreInv'
  BY DEF Reports, StoreInv
<1> QED
  BY <1>2, <1>3 DEF Reports

\* Nothing runs alone.
LEMMA ReportsNone ==
    ASSUME \A t \in Tasks : ~Alone(t)', last' = None
    PROVE  Reports'
BY DEF Reports, AloneInv, LoadInv, StoreInv, LastInv, Alone

\* Only task t may run alone.
LEMMA ReportsOne ==
    ASSUME NEW t \in Tasks, \A u \in Tasks \ {t} : ~Alone(u)',
           Alone(t)' => /\ \A u \in Tasks \ {t} : task'[u] = Idle
                        /\ stack'.at \notin {"stopping", "commanding"},
           task'[t].at = "load" /\ task'[t].alone =>
              \A i \in 1 .. Len(task'[t].got) : task'[t].got[i] = slot'[LoadOrder[i]],
           task'[t].at = "store" /\ task'[t].alone =>
              \E end \in Slots : Leads(slot', task'[t].todo, end) /\ Repairs(last', task'[t].ha, end),
           LastInv'
    PROVE  Reports'
<1>1. AloneInv' /\ LoadInv'
  BY DEF AloneInv, LoadInv, Alone
<1>2. StoreInv'
  BY DEF StoreInv, Alone
<1> QED
  BY <1>1, <1>2 DEF Reports
\* While a report runs alone every other task is idle.
LEMMA OthersIdle ==
    ASSUME TypeInv, Reports, NEW t \in Tasks, task[t].at # "idle"
    PROVE  \A u \in Tasks \ {t} : ~Alone(u)
BY TaskMember DEF Reports, AloneInv, Alone

LEMMA ReportStep == ASSUME TypeInv, TypeInv', Reports, Next PROVE Reports'
<1>1. /\ slot \in Slots /\ stack \in StackStates /\ task \in [Tasks -> TaskStates]
      /\ AloneInv /\ LoadInv /\ StoreInv /\ LastInv
  BY DEF TypeInv, Reports
<1>2. ASSUME NEW t \in Tasks, NEW ha \in Reported, Push(t, ha) PROVE Reports'
  <2>1. PICK s \in TaskStates :
           /\ task' = [Overlapped(task) EXCEPT ![t] = s]
           /\ s.at = "load" /\ s.got = <<>> /\ s.alone = Quiet
    BY <1>2, PushEffect
  <2>2. /\ task'[t] = s /\ task[t] = Idle
        /\ \A u \in Tasks \ {t} : task'[u] = Overlapped(task)[u]
    BY <1>2, <2>1, PushEffect, OverlappedTask
  <2>3. slot' = slot /\ stack' = stack
    BY <1>2, PushEffect
  <2>4. \A u \in Tasks \ {t} : ~Alone(u)'
    BY <2>2, OverlappedTask, TaskMember DEF Alone
  <2>5. CASE Quiet
    <3>1. /\ \A u \in Tasks : task[u] = Idle
          /\ stack.at \notin {"stopping", "commanding"} /\ last' = last
      BY <1>2, <2>5, PushEffect DEF Quiet
    <3>2. \A u \in Tasks \ {t} : task'[u] = Idle
      BY <2>2, <3>1, OverlappedTask
    <3>3. task'[t].at = "load" /\ task'[t].alone /\ task'[t].got = <<>>
      BY <2>1, <2>2, <2>5
    <3>4. \A i \in 1 .. Len(task'[t].got) : task'[t].got[i] = slot'[LoadOrder[i]]
      BY <3>3
    <3>5. LastInv'
      <4> SUFFICES ASSUME last' # None PROVE LastInv'
        BY DEF LastInv
      <4>1. last.misses \in {0, 1} /\ Good(last, slot)
        BY <1>1, <3>1, TaskMember DEF LastInv
      <4>2. \A u \in Tasks : task'[u] = Idle \/ Alone(u)'
        BY <3>2, <3>3 DEF Alone
      <4> QED
        BY <2>3, <3>1, <4>1, <4>2 DEF LastInv
    <3> QED
      BY <2>3, <2>4, <3>1, <3>2, <3>3, <3>4, <3>5, ReportsOne
  <2>6. CASE ~Quiet
    <3>1. last' = None /\ ~task'[t].alone
      BY <1>2, <2>1, <2>2, <2>6, PushEffect
    <3> QED
      BY <2>4, <3>1, ReportsNone DEF Alone
  <2> QED
    BY <2>5, <2>6
<1>3. ASSUME NEW t \in Tasks, Load(t) PROVE Reports'
  <2>1. UNCHANGED <<slot, stack, last>>
    BY <1>3 DEF Load, observers
  <2>2. /\ task[t].at = "load" /\ task[t].got \in Loaded /\ Len(task[t].got) \in 0 .. 2
        /\ Len(task[t].got) < 2 \/ Len(task[t].got) = 2
    <3>1. \A n \in 0 .. 2 : n < 2 \/ n = 2
      OBVIOUS
    <3> QED
      BY <1>3, <3>1, LoadEffect
  <2>3. \A u \in Tasks \ {t} : ~Alone(u)
    BY <2>2, OthersIdle DEF Reports
  <2>4. /\ Alone(t) <=> task[t].alone
        /\ task[t].alone => /\ \A u \in Tasks \ {t} : task[u] = Idle
                            /\ stack.at \notin {"stopping", "commanding"}
                            /\ \A i \in 1 .. Len(task[t].got) : task[t].got[i] = slot[LoadOrder[i]]
    BY <1>1, <2>2 DEF Alone, AloneInv, LoadInv
  <2>5. last # None => /\ task[t].alone /\ Good(last, slot) /\ last.misses \in {0, 1}
                       /\ \A u \in Tasks \ {t} : task[u] = Idle
                       /\ stack.at \notin {"stopping", "commanding"}
    <3> SUFFICES ASSUME last # None
                 PROVE  /\ task[t].alone /\ Good(last, slot) /\ last.misses \in {0, 1}
                        /\ \A u \in Tasks \ {t} : task[u] = Idle
                        /\ stack.at \notin {"stopping", "commanding"}
      OBVIOUS
    <3>1. /\ \A u \in Tasks : task[u] = Idle \/ Alone(u)
          /\ last.misses \in {0, 1}
          /\ (\E u \in Tasks : task[u].at = "store") \/ Good(last, slot)
      BY <1>1 DEF LastInv
    <3>2. task[t].alone /\ \A u \in Tasks \ {t} : task[u] = Idle
      BY <2>2, <2>3, <2>4, <3>1, TaskMember
    <3>3. \A u \in Tasks : task[u].at # "store"
      BY <2>2, <3>2, TaskMember
    <3> QED
      BY <2>4, <3>1, <3>2, <3>3
  <2>6. CASE Len(task[t].got) = 2
    <3>1. task'[t] = Storing(t) /\ \A u \in Tasks \ {t} : task'[u] = task[u]
      BY <1>3, <2>6, LoadEffect, TaskWith
    <3>2. /\ Storing(t).at = "store" /\ Storing(t).ha = task[t].ha /\ Storing(t).alone = task[t].alone
          /\ (\A i \in 1 .. 2 : task[t].got[i] = slot[LoadOrder[i]]) =>
                Storing(t).todo = ReportStores(task[t].ha, slot)
      BY <2>2, <2>6, StoringLeads
    <3>3. task[t].alone =>
             \E end \in Slots : Leads(slot, Storing(t).todo, end) /\ Repairs(last, task[t].ha, end)
      <4> SUFFICES ASSUME task[t].alone
                   PROVE  \E end \in Slots :
                             Leads(slot, Storing(t).todo, end) /\ Repairs(last, task[t].ha, end)
        OBVIOUS
      <4>1. task[t].ha \in Report
        BY <2>2, TaskShape, StateShape
      <4>2. Storing(t).todo = ReportStores(task[t].ha, slot)
        BY <2>4, <2>6, <3>2
      <4>3. Repairs(last, task[t].ha, AfterReport(task[t].ha, slot))
        BY <1>1, <2>5, <4>1, AfterRepairs
      <4>4. /\ AfterReport(task[t].ha, slot) \in Slots
            /\ Leads(slot, ReportStores(task[t].ha, slot), AfterReport(task[t].ha, slot))
        BY <1>1, <4>1, ReportLeads
      <4> QED
        BY <4>2, <4>3, <4>4
    <3>4. \A u \in Tasks \ {t} : ~Alone(u)'
      BY <2>3, <3>1 DEF Alone
    <3>5. Alone(t)' <=> task[t].alone
      BY <3>1, <3>2 DEF Alone
    <3>6. LastInv'
      <4> SUFFICES ASSUME last' # None PROVE LastInv'
        BY DEF LastInv
      <4>1. task'[t].at = "store" /\ \A u \in Tasks : task'[u] = Idle \/ Alone(u)'
        BY <2>1, <2>5, <3>1, <3>2, <3>5
      <4> QED
        BY <2>1, <2>5, <4>1 DEF LastInv
    <3> QED
      BY <2>1, <2>4, <3>1, <3>2, <3>3, <3>4, <3>5, <3>6, ReportsOne
  <2>7. CASE Len(task[t].got) < 2
    <3> DEFINE got == Append(task[t].got, slot[LoadOrder[Len(task[t].got) + 1]])
    <3>1. task' = [task EXCEPT ![t].got = got]
      BY <1>3, <2>7, LoadEffect
    <3>2. /\ Len(got) = Len(task[t].got) + 1
          /\ got[Len(task[t].got) + 1] = slot[LoadOrder[Len(task[t].got) + 1]]
          /\ \A i \in 1 .. Len(task[t].got) : got[i] = task[t].got[i]
      BY <1>1, <2>2, LoadOne
    <3>3. PICK more : more = got
      OBVIOUS
    <3> HIDE DEF got
    <3>4. task'[t] = [task[t] EXCEPT !.got = more] /\ \A u \in Tasks \ {t} : task'[u] = task[u]
      BY <1>1, <3>1, <3>3
    <3>5. PICK ha \in Report, old \in Loaded, alone \in BOOLEAN :
             task[t] = [at |-> "load", ha |-> ha, got |-> old, alone |-> alone]
      BY <2>2, TaskShape DEF TaskStates, Idle
    <3>6. task'[t].at = "load" /\ task'[t].alone = task[t].alone /\ task'[t].got = more
      BY <3>4, <3>5
    <3>7. task[t].alone => \A i \in 1 .. Len(more) : more[i] = slot[LoadOrder[i]]
      <4> SUFFICES ASSUME task[t].alone, NEW i \in 1 .. Len(more) PROVE more[i] = slot[LoadOrder[i]]
        OBVIOUS
      <4>1. i \in 1 .. Len(task[t].got) \/ i = Len(task[t].got) + 1
        <5>1. \A n \in 0 .. 2 : \A k \in 1 .. n + 1 : k \in 1 .. n \/ k = n + 1
          OBVIOUS
        <5> QED
          BY <2>2, <3>2, <3>3, <5>1
      <4> QED
        BY <2>4, <3>2, <3>3, <4>1
    <3>8. \A u \in Tasks \ {t} : ~Alone(u)'
      BY <2>3, <3>4 DEF Alone
    <3>9. Alone(t)' <=> task[t].alone
      BY <3>6 DEF Alone
    <3>10. LastInv'
      <4> SUFFICES ASSUME last' # None PROVE LastInv'
        BY DEF LastInv
      <4>1. \A u \in Tasks : task'[u] = Idle \/ Alone(u)'
        BY <2>1, <2>5, <3>4, <3>9
      <4> QED
        BY <2>1, <2>5, <4>1 DEF LastInv
    <3>11. task'[t].alone =>
              \A i \in 1 .. Len(task'[t].got) : task'[t].got[i] = slot'[LoadOrder[i]]
      BY <2>1, <3>6, <3>7
    <3>12. Alone(t)' => /\ \A u \in Tasks \ {t} : task'[u] = Idle
                        /\ stack'.at \notin {"stopping", "commanding"}
      BY <2>1, <2>4, <3>4, <3>9
    <3>13. task'[t].at # "store"
      BY <3>6
    <3> QED
      BY <3>8, <3>10, <3>11, <3>12, <3>13, ReportsOne
  <2> QED
    BY <2>2, <2>6, <2>7
<1>4. ASSUME NEW t \in Tasks, StoreNext(t) PROVE Reports'
  <2>1. /\ task[t].at = "store" /\ task[t].todo \in Seq(Stores) /\ task[t].todo # <<>>
        /\ slot' = [slot EXCEPT ![Head(task[t].todo).field] = Head(task[t].todo).value]
        /\ UNCHANGED <<stack, last>>
    BY <1>4, StoreEffect
  <2>2. PICK s \in TaskStates :
           /\ task' = [task EXCEPT ![t] = s]
           /\ s.at = "store" /\ s.ha = task[t].ha /\ s.alone = task[t].alone
           /\ s.todo = Tail(task[t].todo)
    BY <1>4, StoreEffect
  <2>3. task'[t] = s /\ \A u \in Tasks \ {t} : task'[u] = task[u]
    BY <2>2, TaskWith
  <2>4. \A u \in Tasks \ {t} : ~Alone(u) /\ ~Alone(u)'
    BY <2>1, <2>3, OthersIdle DEF Reports, Alone
  <2>5. (Alone(t) <=> task[t].alone) /\ (Alone(t)' <=> task[t].alone)
    BY <2>1, <2>2, <2>3 DEF Alone
  <2>6. task[t].alone => /\ \A u \in Tasks \ {t} : task'[u] = Idle
                         /\ stack.at \notin {"stopping", "commanding"}
    BY <1>1, <2>3, <2>5 DEF AloneInv
  <2>7. task[t].alone =>
           \E end \in Slots : Leads(slot', task'[t].todo, end) /\ Repairs(last', task'[t].ha, end)
    <3> SUFFICES ASSUME task[t].alone
                 PROVE  \E end \in Slots :
                           Leads(slot', task'[t].todo, end) /\ Repairs(last', task'[t].ha, end)
      OBVIOUS
    <3>1. PICK end \in Slots : Leads(slot, task[t].todo, end) /\ Repairs(last, task[t].ha, end)
      BY <1>1, <2>1 DEF StoreInv
    <3>2. PICK todo \in Seq(Stores) : todo = task[t].todo
      BY <2>1
    <3>3. Leads(slot', Tail(todo), end)
      BY <1>1, <2>1, <3>1, <3>2, LeadsOn
    <3> QED
      BY <2>1, <2>2, <2>3, <3>1, <3>2, <3>3
  <2>8. LastInv'
    <3> SUFFICES ASSUME last' # None PROVE LastInv'
      BY DEF LastInv
    <3>1. /\ stack'.at \notin {"stopping", "commanding"} /\ last'.misses \in {0, 1}
          /\ \A u \in Tasks : task[u] = Idle \/ Alone(u)
      BY <1>1, <2>1 DEF LastInv
    <3>2. task[t] # Idle
      BY <2>1, TaskMember
    <3>3. \A u \in Tasks : task'[u] = Idle \/ Alone(u)'
      BY <2>3, <2>4, <2>5, <3>1, <3>2
    <3> QED
      BY <2>2, <2>3, <3>1, <3>3 DEF LastInv
  <2> QED
    BY <2>1, <2>2, <2>3, <2>4, <2>5, <2>6, <2>7, <2>8, ReportsOne
<1>5. ASSUME NEW t \in Tasks, Count(t) PROVE Reports'
  <2>1. /\ task[t].at = "store" /\ task[t].todo = <<>>
        /\ task[t].changed \in BOOLEAN /\ task[t].alone \in BOOLEAN /\ task[t].ha \in Report
        /\ UNCHANGED <<slot, stack>>
        /\ task[t].alone => last' = Outcome(task[t].ha)
        /\ ~task[t].alone => last' = None
    BY <1>5, CountEffect, TaskShape, StateShape
  <2>2. PICK s : /\ task' = [task EXCEPT ![t] = s]
                 /\ s = Idle \/ (s.at = "mark" /\ s.alone = task[t].alone)
    <3> DEFINE s == [at |-> "mark", alone |-> task[t].alone]
    <3>1. s.at = "mark" /\ s.alone = task[t].alone
      OBVIOUS
    <3> HIDE DEF s
    <3>2. task' = [task EXCEPT ![t] = s] \/ task' = [task EXCEPT ![t] = Idle]
      BY <1>5, <2>1, CountEffect DEF s
    <3> QED
      BY <3>1, <3>2
  <2>3. task'[t] = s /\ \A u \in Tasks \ {t} : task'[u] = task[u]
    BY <2>2, TaskWith
  <2>4. \A u \in Tasks \ {t} : ~Alone(u) /\ ~Alone(u)'
    BY <2>1, <2>3, OthersIdle DEF Reports, Alone
  <2>5. /\ task'[t].at \notin {"load", "store"}
        /\ (Alone(t)' => task[t].alone) /\ (task[t].alone => Alone(t)' \/ task'[t] = Idle)
    BY <2>2, <2>3, TaskMember DEF Alone
  <2>6. task[t].alone => /\ \A u \in Tasks \ {t} : task'[u] = Idle
                         /\ stack.at \notin {"stopping", "commanding"}
    BY <1>1, <2>1, <2>3 DEF AloneInv, Alone
  <2>7. CASE task[t].alone
    <3>1. PICK end \in Slots : Leads(slot, <<>>, end) /\ Repairs(last, task[t].ha, end)
      BY <1>1, <2>1, <2>7 DEF StoreInv
    <3>2. Repairs(last, task[t].ha, slot)
      BY <1>1, <3>1, LeadsThere
    <3>3. last # None => last.misses \in {0, 1}
      BY <1>1 DEF LastInv
    <3>4. Good(last', slot) /\ last'.misses \in {0, 1}
      BY <2>1, <2>7, <3>2, <3>3, OutcomeGood
    <3>5. LastInv'
      BY <2>1, <2>3, <2>5, <2>6, <2>7, <3>4 DEF LastInv
    <3> QED
      BY <2>1, <2>4, <2>5, <2>6, <3>5, ReportsOne
  <2>8. CASE ~task[t].alone
    BY <2>1, <2>4, <2>5, <2>8, ReportsNone
  <2> QED
    BY <2>7, <2>8
<1>6. ASSUME NEW t \in Tasks, Mark(t) PROVE Reports'
  <2>1. /\ task[t].at = "mark" /\ task' = [task EXCEPT ![t] = Idle]
        /\ UNCHANGED <<slot, stack, last>>
    BY <1>6 DEF Mark, observers
  <2>2. task'[t] = Idle /\ \A u \in Tasks \ {t} : task'[u] = task[u]
    BY <2>1, TaskWith
  <2>3. \A u \in Tasks \ {t} : ~Alone(u) /\ ~Alone(u)'
    BY <2>1, <2>2, OthersIdle DEF Reports, Alone
  <2>4. ~Alone(t)' /\ task'[t].at \notin {"load", "store"}
    BY <2>2, TaskMember DEF Alone
  <2>5. LastInv'
    <3> SUFFICES ASSUME last' # None PROVE LastInv'
      BY DEF LastInv
    <3>1. /\ stack'.at \notin {"stopping", "commanding"} /\ last'.misses \in {0, 1}
          /\ \A u \in Tasks : task[u] = Idle \/ Alone(u)
          /\ (\E u \in Tasks : task[u].at = "store") \/ Good(last, slot)
      BY <1>1, <2>1 DEF LastInv
    <3>2. \A u \in Tasks : task'[u] = Idle
      BY <2>2, <2>3, <3>1
    <3>3. \A u \in Tasks : task[u].at # "store"
      BY <2>1, <2>2, <3>2, TaskMember
    <3> QED
      BY <2>1, <3>1, <3>2, <3>3 DEF LastInv
  <2> QED
    BY <2>3, <2>4, <2>5, ReportsOne
<1>7. CASE Rebuild
  <2>1. stack'.at = stack.at /\ UNCHANGED <<slot, task, last>>
    BY <1>7, RebuildEffect
  <2> QED
    BY <2>1, ReportsCalm
<1>8. CASE Open \/ Close \/ Stop \/ \E p \in Lifts : GoToLift(p)
  <2>1. task' = Overlapped(task) /\ last' = None
    BY <1>8, CommandStep
  <2>2. \A t \in Tasks : ~Alone(t)'
    BY <2>1, OverlappedTask, TaskMember DEF Alone
  <2> QED
    BY <2>1, <2>2, ReportsNone
<1>9. CASE CommandStore
  <2>1. stack.at = "commanding" /\ UNCHANGED <<task, last>>
    BY <1>9, CommandStoreEffect
  <2>2. last = None /\ \A t \in Tasks : ~Alone(t)
    BY <1>1, <2>1 DEF LastInv, AloneInv
  <2>3. \A t \in Tasks : ~Alone(t)'
    BY <2>1, <2>2 DEF Alone
  <2> QED
    BY <2>1, <2>2, <2>3, ReportsNone
<1>10. CASE StopLoad
  <2>1. stack.at = "stopping" /\ UNCHANGED <<slot, task, last>>
    BY <1>10 DEF StopLoad, observers
  <2> QED
    BY <2>1, ReportsCalm
<1>11. CASE QueueCommand \/ TakeCommands \/ Drain \/ Notify \/ ReadVersion \/ ReadNext
  <2>1. UNCHANGED <<slot, task, last>>
    BY <1>11 DEF QueueCommand, TakeCommands, Drain, Notify, ReadVersion, ReadNext, observers
  <2>2. stack'.at \in {"stopping", "commanding"} => stack.at \in {"stopping", "commanding"}
    <3>1. ReadNext => stack' = Waiting \/ stack'.at = "reading"
      <4>1. \A n \in 0 .. 4 : n < 4 \/ n = 4
        OBVIOUS
      <4> QED
        BY <4>1, ReadEffect
    <3> QED
      BY <1>11, <3>1, StackMember DEF QueueCommand, TakeCommands, Drain, Notify, ReadVersion
  <2> QED
    BY <2>1, <2>2, ReportsCalm
<1> QED
  BY <1>2, <1>3, <1>4, <1>5, <1>6, <1>7, <1>8, <1>9, <1>10, <1>11 DEF Next, TaskStep, StackStep

-----------------------------------------------------------------------------
(* The lift a controller asked for *)

LEMMA GoalStep == ASSUME TypeInv, TypeInv', GoalInv, Next PROVE GoalInv'
<1> SUFFICES ASSUME goal' # None PROVE GoalInv'
  BY DEF GoalInv
<1>1. slot \in Slots /\ stack \in StackStates /\ task \in [Tasks -> TaskStates]
  BY DEF TypeInv
<1>2. CASE Open \/ Close \/ Stop \/ \E p \in Lifts : GoToLift(p)
  <2>1. /\ task' = Overlapped(task) /\ Quiet /\ goal' \in Nat /\ ValidLift(goal') /\ slot' = slot
        /\ stack'.at = "commanding"
        /\ stack'.todo = CommandStores(AtMost(Full, HaPosition(goal')), TRUE)
    BY <1>2, CommandStep
  <2>2. \A t \in Tasks : task'[t] = Idle
    BY <2>1, OverlappedTask DEF Quiet
  <2>3. PICK lift \in Nat : lift = goal'
    BY <2>1
  <2>4. PICK target \in Positions : target = AtMost(Full, HaPosition(lift))
                                    /\ Percent(target) \in lift .. lift + Unit - 1
    BY <2>1, <2>3, RoundTrip
  <2>5. PICK end \in Slots : Leads(slot, CommandStores(target, TRUE), end) /\ end.target = target
    BY <1>1, CommandLeads
  <2> QED
    BY <2>1, <2>2, <2>3, <2>4, <2>5 DEF GoalInv
<1>3. ASSUME NEW t \in Tasks, (\E ha \in Reported : Push(t, ha)) \/ TaskStep(t)
      PROVE  FALSE
  <2>1. CASE \E ha \in Reported : Push(t, ha)
    BY <2>1 DEF Push
  <2>2. CASE TaskStep(t)
    <3>1. goal' = goal /\ task[t].at # "idle"
      BY <2>2 DEF TaskStep, Load, StoreNext, Count, Mark, observers
    <3> QED
      BY <3>1, TaskMember DEF GoalInv
  <2> QED
    BY <1>3, <2>1, <2>2
<1>4. ASSUME goal' = goal, task' = task
      PROVE  /\ \A t \in Tasks : task'[t] = Idle
             /\ stack.at # "stopping"
             /\ IF stack.at = "commanding"
                THEN \E end \in Slots :
                        Leads(slot, stack.todo, end) /\ Percent(end.target) \in goal .. goal + Unit - 1
                ELSE Percent(slot.target) \in goal .. goal + Unit - 1
  BY <1>4 DEF GoalInv
<1>5. CASE Rebuild
  <2>1. stack'.at = stack.at /\ UNCHANGED <<slot, task, goal>>
        /\ (stack.at # "reading" => stack' = stack)
    BY <1>5, RebuildEffect
  <2> QED
    BY <1>4, <2>1 DEF GoalInv
<1>6. CASE StopLoad
  BY <1>4, <1>6 DEF StopLoad, observers
<1>7. CASE CommandStore
  <2>1. /\ stack.at = "commanding" /\ stack.todo \in Seq(Stores) /\ stack.todo # <<>>
        /\ slot' = [slot EXCEPT ![Head(stack.todo).field] = Head(stack.todo).value]
        /\ stack'.at = "commanding" /\ stack'.todo = Tail(stack.todo)
        /\ UNCHANGED <<task, goal>>
    BY <1>7, CommandStoreEffect
  <2>2. PICK end \in Slots :
           Leads(slot, stack.todo, end) /\ Percent(end.target) \in goal .. goal + Unit - 1
    BY <1>4, <2>1
  <2>3. PICK todo \in Seq(Stores) : todo = stack.todo
    BY <2>1
  <2>4. Leads(slot', Tail(todo), end)
    BY <1>1, <2>1, <2>2, <2>3, LeadsOn
  <2> QED
    BY <1>4, <2>1, <2>2, <2>3, <2>4 DEF GoalInv
<1>8. CASE QueueCommand
  <2>1. /\ stack.at = "commanding" /\ stack.todo = <<>> /\ stack'.at = "notify"
        /\ UNCHANGED <<slot, task, goal>>
    BY <1>8 DEF QueueCommand, observers
  <2>2. PICK end \in Slots :
           Leads(slot, <<>>, end) /\ Percent(end.target) \in goal .. goal + Unit - 1
    BY <1>4, <2>1
  <2>3. slot = end
    BY <1>1, <2>2, LeadsThere
  <2> QED
    BY <1>4, <2>1, <2>2, <2>3 DEF GoalInv
<1>9. CASE TakeCommands
  <2>1. UNCHANGED <<slot, task, stack, goal>>
    BY <1>9 DEF TakeCommands, observers
  <2> QED
    BY <1>4, <2>1 DEF GoalInv
<1>10. CASE Drain \/ Notify \/ ReadVersion \/ ReadNext
  <2>1. UNCHANGED <<slot, task, goal>> /\ stack.at \in {"wait", "notify", "reading"}
    BY <1>10, StackMember DEF Drain, Notify, ReadVersion, ReadNext, observers
  <2>2. stack'.at \in {"wait", "notify", "reading"}
    <3>1. ReadNext => stack' = Waiting \/ stack'.at = "reading"
      <4>1. \A n \in 0 .. 4 : n < 4 \/ n = 4
        OBVIOUS
      <4> QED
        BY <4>1, ReadEffect
    <3> QED
      BY <1>10, <3>1, StackMember DEF Drain, Notify, ReadVersion
  <2> QED
    BY <1>4, <2>1, <2>2 DEF GoalInv
<1> QED
  BY <1>2, <1>3, <1>5, <1>6, <1>7, <1>8, <1>9, <1>10 DEF Next, StackStep
-----------------------------------------------------------------------------
(* The invariant *)

LEMMA InitInv == Init => IInv
<1> SUFFICES ASSUME Init PROVE IInv
  OBVIOUS
<1>1. PICK still \in BOOLEAN : still = FALSE
  OBVIOUS
<1>2. slot = [position |-> Full, target |-> Full, moving |-> still]
  BY <1>1 DEF Init
<1>3. slot \in Slots /\ slot.position = Full /\ slot.target = Full
  BY <1>2, Ends DEF Slots
<1>4. Percent(Full) = 0
  <2>1. Full \in Nat /\ Unit \in Nat /\ 0 * Unit = 0
    BY Ends
  <2> QED
    BY <2>1 DEF Percent, AtMost
<1>5. Shown(slot) = "stopped"
  BY <1>3 DEF Shown, Status
<1>6. view.status = "stopped" /\ view.target = 0 /\ view.position = 0 /\ view.dataver = 0
  BY DEF Init
<1>7. Showing
  BY <1>3, <1>4, <1>5, <1>6 DEF Showing
<1>8. dataver = 0 /\ stack.at = "wait" /\ \A t \in Tasks : task[t] = Idle /\ task[t].at = "idle"
  BY TaskMember, StackMember DEF Init
<1>9. TypeInv
  <2>1. 0 \in 0 .. Full * Unit
    BY <1>4, Ends, PercentScale
  <2>2. view \in Views
    BY <2>1 DEF Init, Views, Motions
  <2>3. inputs \in [report : 0 .. MaxReports, other : 0 .. MaxInputs]
    BY InputsAssumption DEF Init
  <2>4. task \in [Tasks -> TaskStates] /\ stack \in StackStates
    BY TaskMember, StackMember DEF Init
  <2>5. commands \in Seq(Commands)
    BY EmptySeq DEF Init
  <2>6. pending \in BOOLEAN /\ reports \in BOOLEAN
    BY DEF Init
  <2>7. dataver \in Nat
    BY <1>8
  <2>8. last = None /\ goal = None
    BY DEF Init
  <2> QED
    BY <1>3, <2>2, <2>3, <2>4, <2>5, <2>6, <2>7, <2>8 DEF TypeInv
<1>10. Versions
  <2>1. VersionBound
    BY <1>6, <1>8 DEF VersionBound
  <2>2. Reading
    BY <1>8 DEF Reading
  <2>3. Viewing
    BY <1>7 DEF Viewing
  <2> QED
    BY <1>9, <2>1, <2>2, <2>3, VersionsMean
<1>11. Reports
  <2>1. last = None
    BY DEF Init
  <2> QED
    BY <1>8, <2>1 DEF Reports, AloneInv, LoadInv, StoreInv, LastInv, Alone
<1>12. GoalInv
  BY DEF Init, GoalInv
<1> QED
  BY <1>9, <1>10, <1>11, <1>12 DEF IInv, Versions, Reports

LEMMA StepInv == IInv /\ [Next]_vars => IInv'
<1> SUFFICES ASSUME IInv, [Next]_vars PROVE IInv'
  OBVIOUS
<1>1. TypeInv /\ Versions /\ Reports /\ GoalInv
  BY DEF IInv, Versions, Reports
<1>2. CASE Next
  <2>1. TypeInv'
    BY <1>1, <1>2, TypeStep
  <2>2. Versions' /\ Reports' /\ GoalInv'
    BY <1>1, <1>2, <2>1, VersionStep, ReportStep, GoalStep
  <2> QED
    BY <2>1, <2>2 DEF IInv, Versions, Reports
<1>3. CASE UNCHANGED vars
  <2>1. UNCHANGED <<slot, dataver, pending, commands, task, stack, reports, view, inputs, last, goal>>
    BY <1>3 DEF vars
  <2>2. TypeInv' /\ VersionBound'
    BY <1>1, <2>1 DEF TypeInv, Versions, VersionBound
  <2>3. UNCHANGED Showing /\ UNCHANGED Uncounted /\ UNCHANGED Unseen /\ UNCHANGED Matching /\ UNCHANGED Owed
    BY <2>1 DEF Showing, Uncounted, Unseen, Marked, Matching, Owed, Shown
  <2>4. Versions'
    <3>1. Reading /\ Viewing
      BY <1>1, VersionsMean
    <3>2. Reading' /\ Viewing'
      BY <2>1, <2>3, <3>1 DEF Reading, Viewing
    <3> QED
      BY <2>2, <3>2, VersionsMeanNext
  <2>5. Reports'
    BY <1>1, <2>1, ReportsCalm
  <2>6. GoalInv'
    BY <1>1, <2>1 DEF GoalInv
  <2> QED
    BY <2>2, <2>4, <2>5, <2>6 DEF IInv, Versions, Reports
<1> QED
  BY <1>2, <1>3

LEMMA Invariance == Spec => []IInv
BY InitInv, StepInv, PTL DEF Spec
-----------------------------------------------------------------------------
(* Theorems *)

\* Every variable has its type; whatever Home Assistant reports and controllers
\* ask for, the fields and what is read of them stay on their scales.
THEOREM TypeCorrect == Spec => []TypeOK
<1>1. IInv => TypeOK
  <2> SUFFICES ASSUME TypeInv PROVE TypeOK
    BY DEF IInv
  <2>1. \A i \in 1 .. Len(commands) : commands[i] \in Commands
    BY ElementOfSeq DEF TypeInv
  <2>2. \A t \in Tasks : task[t].at \in {"idle", "load", "store", "mark"}
    BY TaskShape, StateShape
  <2>3. stack.at \in {"wait", "stopping", "commanding", "notify", "reading"}
    BY StackShape DEF TypeInv
  <2>4. inputs.report \in 0 .. MaxReports /\ inputs.other \in 0 .. MaxInputs
    BY DEF TypeInv
  <2> QED
    BY <2>1, <2>2, <2>3, <2>4 DEF TypeInv, TypeOK, Slots, Commands, Views
<1> QED
  BY <1>1, Invariance, PTL

\* Pushes and commands store the three fields one at a time and in parallel, and
\* reads take them one at a time: a controller that holds the current version
\* nevertheless holds what the slot has.
THEOREM VersionsSound == Spec => []VersionSound
<1>1. IInv => VersionSound
  BY DEF IInv
<1> QED
  BY <1>1, Invariance, PTL

\* Whatever the controller holds that the slot no longer has, mark_changed, a
\* command or a read under way brings it a report.
THEOREM NoChangeLost == Spec => []NothingLost
<1>1. IInv => NothingLost
  BY DEF IInv
<1> QED
  BY <1>1, Invariance, PTL

\* apply_state stores what one report says over whatever mix of fields others
\* have left, if it runs alone.
THEOREM Healing == Spec => []HealedByNextReport
<1>1. IInv => HealedByNextReport
  <2> SUFFICES ASSUME LastInv, last # None, Quiet PROVE Healed(last.ha, slot)
    BY DEF IInv, HealedByNextReport, Healed
  <2>1. \A t \in Tasks : task[t].at # "store"
    BY TaskMember DEF Quiet
  <2> QED
    BY <2>1 DEF LastInv, Good
<1> QED
  BY <1>1, Invariance, PTL

\* A report that takes the cover past its target shows the wrong direction; no
\* two reports of that motion in a row do.
THEOREM Crossing == Spec => []CrossedOnce
<1>1. IInv => CrossedOnce
  BY DEF IInv, LastInv, CrossedOnce
<1> QED
  BY <1>1, Invariance, PTL

\* The lift of GoToLiftPercentage survives the way to Home Assistant's scale and
\* back, short of a step, and the pushes that only load it.
THEOREM Goal == Spec => []GoalKept
<1>1. IInv => GoalKept
  BY DEF IInv, GoalInv, GoalKept, Quiet
<1> QED
  BY <1>1, Invariance, PTL
=============================================================================
