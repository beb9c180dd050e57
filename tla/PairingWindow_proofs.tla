------------------------ MODULE PairingWindow_proofs ------------------------
(***************************************************************************)
(* Theorems about PairingWindow, for any number of clients, fabrics and     *)
(* units of time.                                                           *)
(***************************************************************************)
EXTENDS PairingWindow, TLAPS

-----------------------------------------------------------------------------
(* The inductive invariant *)

Progress == {"idle", "waiting", "timed out", "opened", "closed", "refused"}

\* A request in the hands of the stack thread is its client's only one too.
TakenWaits == \A c \in Clients : taken # None /\ taken.from = c => client[c] = "waiting"

\* The bridge's window: no fabric more than at the last sample, and the deadline
\* is its end, unless that has passed and the deadline was cleared.
OwnWindow ==
    window.by = "bridge" =>
        /\ fabrics <= fabricCount
        /\ deadline = window.until \/ (deadline = 0 /\ now >= window.until)

\* Between the sample and the answer the stack does nothing.
Sampled == run \in {"sampled", "executing"} => fabricCount = fabrics

\* Fabrics get fewer only when a controller removes one.
Counted == ~revoked => fabricCount <= fabrics

\* A deadline to come stands for the bridge's window, or that was used, or taken
\* away.
Tracked ==
    PairingOpen /\ ~revoked /\ fabrics <= fabricCount /\ run # "dead" => window.by = "bridge"

IInv == TypeOK /\ revoked \in BOOLEAN /\ TakenWaits /\ OwnWindow /\ Sampled /\ Counted /\ Tracked

-----------------------------------------------------------------------------
(* The requests *)

LEMMA ClampType == \A t \in Timeouts : Clamp(t) \in Nat \ {0}
BY TimeoutsAssumption DEF Clamp

LEMMA OpsType == \A op \in Ops : op.do = "open" => op.for \in Nat \ {0}
<1> SUFFICES ASSUME NEW op \in Ops, op.do = "open" PROVE op.for \in Nat \ {0}
  OBVIOUS
<1>1. op \in [do : {"open"}, for : {Clamp(t) : t \in Timeouts}]
  BY DEF Ops
<1> QED
  BY <1>1, ClampType

\* A request keeps what it asks for when its client gives up.
LEMMA AbandonedType ==
    ASSUME NEW req \in Requests \cup {None}, NEW c \in Clients
    PROVE  /\ Abandoned(req, c) \in Requests \cup {None}
           /\ (Abandoned(req, c) = None) = (req = None)
           /\ Abandoned(req, c) # None =>
                 /\ Abandoned(req, c).from # c
                 /\ Abandoned(req, c).from # None => Abandoned(req, c) = req
<1>1. CASE req # None /\ req.from = c
  <2>1. req \in Requests
    BY <1>1
  <2>2. [req EXCEPT !.from = None] \in Requests /\ [req EXCEPT !.from = None].from = None
    BY <2>1 DEF Requests
  <2> QED
    BY <1>1, <2>2, NoneAssumption DEF Abandoned
<1>2. CASE ~(req # None /\ req.from = c)
  BY <1>2 DEF Abandoned
<1> QED
  BY <1>1, <1>2

-----------------------------------------------------------------------------
(* The conjuncts of the invariant *)

LEMMA InitInv == Init => IInv
<1> SUFFICES ASSUME Init PROVE IInv
  OBVIOUS
<1>1. /\ window \in [by : {"nobody", "bridge", "controller"}, until : Nat]
      /\ deadline = window.until /\ deadline \in Nat
      /\ window.by = "bridge" <=> fabrics = 0
      /\ fabrics # 0 => deadline = 0
  <2>1. CASE fabrics = 0
    <3>1. window = [by |-> "bridge", until |-> 1 + StartupTimeout] /\ deadline = window.until
      BY <2>1 DEF Init, OpenedBy
    <3> QED
      BY <2>1, <3>1, TimeoutsAssumption
  <2>2. CASE fabrics # 0
    <3>1. window = [by |-> "nobody", until |-> 0] /\ deadline = window.until
      BY <2>2 DEF Init, Closed
    <3> QED
      BY <2>2, <3>1
  <2> QED
    BY <2>1, <2>2
<1>2. TypeOK
  BY <1>1, BoundsAssumption DEF Init, TypeOK
<1>3. Tracked
  BY <1>1 DEF Tracked, PairingOpen
<1>4. TakenWaits /\ Sampled
  BY DEF Init, TakenWaits, Sampled
<1>5. OwnWindow /\ Counted
  BY <1>1, BoundsAssumption DEF Init, OwnWindow, Counted
<1> QED
  BY <1>2, <1>3, <1>4, <1>5 DEF IInv, Init

\* What the clients do leaves alone all that is about the window.
LEMMA WindowUnchanged ==
    ASSUME IInv, UNCHANGED <<now, tracked, run, stack, revoked>>
    PROVE  OwnWindow' /\ Sampled' /\ Counted' /\ Tracked' /\ revoked' \in BOOLEAN
<1>1. UNCHANGED <<now, deadline, fabricCount, run, fabrics, window, revoked>>
  BY DEF tracked, stack
<1>2. OwnWindow' /\ Sampled'
  BY <1>1 DEF IInv, OwnWindow, Sampled
<1>3. Counted' /\ Tracked'
  BY <1>1 DEF IInv, Counted, Tracked, PairingOpen
<1>4. revoked' \in BOOLEAN
  BY <1>1 DEF IInv
<1> QED
  BY <1>2, <1>3, <1>4

LEMMA ClientStep ==
    ASSUME IInv, NEW c \in Clients,
           \/ \E op \in Ops : Post(c, op)
           \/ TimeOut(c) \/ ClearMailbox(c) \/ Leave(c)
    PROVE  IInv'
<1>1. UNCHANGED <<now, tracked, run, stack, revoked>>
  BY DEF Post, TimeOut, ClearMailbox, Leave
<1>2. OwnWindow' /\ Sampled' /\ Counted' /\ Tracked' /\ revoked' \in BOOLEAN
  BY <1>1, WindowUnchanged
<1>3. UNCHANGED <<now, deadline, fabricCount, run, fabrics, window>>
  BY <1>1 DEF tracked, stack
<1>4. TypeOK /\ TakenWaits
  BY DEF IInv
<1>5. ASSUME NEW op \in Ops, Post(c, op)
      PROVE  TypeOK' /\ TakenWaits'
  <2>1. [op |-> op, from |-> c] \in Requests
    BY DEF Requests
  <2>2. /\ client[c] = "idle" /\ taken' = taken
        /\ mailbox' = [op |-> op, from |-> c]
        /\ client' = [client EXCEPT ![c] = "waiting"]
    BY <1>5 DEF Post
  <2>3. TypeOK'
    BY <1>3, <1>4, <2>1, <2>2 DEF TypeOK, TakenWaits
  <2>4. TakenWaits'
    BY <1>4, <2>2 DEF TypeOK, TakenWaits
  <2> QED
    BY <2>3, <2>4
<1>6. ASSUME TimeOut(c) PROVE TypeOK' /\ TakenWaits'
  <2>1. /\ client[c] = "waiting"
        /\ client' = [client EXCEPT ![c] = "timed out"]
        /\ mailbox' = Abandoned(mailbox, c)
        /\ taken' = Abandoned(taken, c)
    BY <1>6 DEF TimeOut
  <2>2. /\ mailbox \in Requests \cup {None} /\ taken \in Requests \cup {None}
        /\ None \notin Clients
    BY <1>4, NoneAssumption DEF TypeOK
  <2>3. /\ mailbox' \in Requests \cup {None}
        /\ mailbox' # None => mailbox'.from # c /\ (mailbox'.from \in Clients => mailbox' = mailbox)
    BY <2>1, <2>2, AbandonedType
  <2>4. /\ taken' \in Requests \cup {None} /\ (taken' = None) = (taken = None)
        /\ taken' # None => taken'.from # c /\ (taken'.from \in Clients => taken' = taken)
    BY <2>1, <2>2, AbandonedType
  <2>5. client' \in [Clients -> Progress] /\ \A d \in Clients : d # c => client'[d] = client[d]
    BY <1>4, <2>1 DEF TypeOK, Progress
  <2>6. ASSUME NEW d \in Clients, mailbox' # None, mailbox'.from = d
        PROVE  client'[d] = "waiting" /\ (taken' = None \/ taken'.from # d)
    <3>1. d # c /\ mailbox' = mailbox
      BY <2>3, <2>6
    <3>2. client[d] = "waiting" /\ (taken = None \/ taken.from # d)
      BY <1>4, <2>6, <3>1 DEF TypeOK
    <3> QED
      BY <2>4, <2>5, <3>1, <3>2
  <2>7. (run' = "executing") = (taken' # None)
    BY <1>3, <1>4, <2>4 DEF TypeOK
  <2>8. TypeOK'
    BY <1>3, <1>4, <2>3, <2>4, <2>5, <2>6, <2>7 DEF TypeOK, Progress
  <2>9. TakenWaits'
    BY <1>4, <2>4, <2>5 DEF TakenWaits
  <2> QED
    BY <2>8, <2>9
<1>7. ASSUME ClearMailbox(c) PROVE TypeOK' /\ TakenWaits'
  <2>1. /\ client[c] = "timed out" /\ taken' = taken /\ mailbox' = None
        /\ client' = [client EXCEPT ![c] = "idle"]
    BY <1>7 DEF ClearMailbox
  <2>2. TypeOK'
    BY <1>3, <1>4, <2>1 DEF TypeOK
  <2>3. TakenWaits'
    BY <1>4, <2>1 DEF TypeOK, TakenWaits
  <2> QED
    BY <2>2, <2>3
<1>8. ASSUME Leave(c) PROVE TypeOK' /\ TakenWaits'
  <2>1. /\ client[c] # "waiting" /\ taken' = taken /\ mailbox' = mailbox
        /\ client' = [client EXCEPT ![c] = "idle"]
    BY <1>8 DEF Leave
  <2>2. TypeOK'
    BY <1>3, <1>4, <2>1 DEF TypeOK
  <2>3. TakenWaits'
    BY <1>4, <2>1 DEF TypeOK, TakenWaits
  <2> QED
    BY <2>2, <2>3
<1>9. TypeOK' /\ TakenWaits'
  BY <1>5, <1>6, <1>7, <1>8
<1> QED
  BY <1>2, <1>9 DEF IInv

\* The outcomes of execute_window_op.
Answers ==
    \/ OpenAlready \/ OpenNew \/ OpenRefused \/ CloseUntracked \/ CloseTracked \/ CloseFails

\* An answer ends the client's wait, and the request is forgotten.
LEMMA AnswerTypes ==
    ASSUME IInv, run = "executing", NEW result \in {"opened", "closed", "refused"}, Answer(result),
           deadline' \in Nat, fabricCount' \in {fabricCount, fabrics},
           window' \in [by : {"nobody", "bridge", "controller"}, until : Nat]
    PROVE  TypeOK' /\ TakenWaits' /\ run' = "waiting" /\ UNCHANGED <<now, fabrics>>
<1>1. TypeOK /\ TakenWaits
  BY DEF IInv
<1>2. /\ client' = [c \in Clients |-> IF c = taken.from THEN result ELSE client[c]]
      /\ taken' = None /\ run' = "waiting" /\ UNCHANGED <<now, mailbox, fabrics>>
  BY DEF Answer
<1>3. client' \in [Clients -> Progress]
  BY <1>1, <1>2 DEF TypeOK, Progress
<1>4. ASSUME NEW c \in Clients, mailbox' # None, mailbox'.from = c
      PROVE  client'[c] = "waiting" /\ (taken' = None \/ taken'.from # c)
  <2>1. client[c] = "waiting" /\ taken # None /\ taken.from # c
    BY <1>1, <1>2, <1>4 DEF TypeOK
  <2> QED
    BY <1>2, <2>1
<1>5. fabricCount' \in 0 .. MaxFabrics
  BY <1>1 DEF TypeOK
<1>6. TypeOK'
  BY <1>1, <1>2, <1>3, <1>4, <1>5 DEF TypeOK, Progress
<1> QED
  BY <1>2, <1>6 DEF TakenWaits

LEMMA ExecuteStep == ASSUME IInv, Answers PROVE IInv'
<1>1. /\ TypeOK /\ revoked \in BOOLEAN /\ OwnWindow /\ Sampled /\ Counted /\ Tracked
      /\ run = "executing" /\ taken # None /\ taken \in Requests /\ fabricCount = fabrics
  BY DEF IInv, Answers, OpenAlready, OpenNew, OpenRefused, CloseUntracked, CloseTracked,
     CloseFails, TypeOK, Sampled
<1>2. /\ deadline \in Nat /\ now \in Nat /\ fabrics \in Nat
      /\ window \in [by : {"nobody", "bridge", "controller"}, until : Nat]
  <2>1. /\ deadline \in Nat /\ now \in Nat /\ fabrics \in 0 .. MaxFabrics
        /\ window \in [by : {"nobody", "bridge", "controller"}, until : Nat]
    BY <1>1 DEF TypeOK
  <2> QED
    BY <2>1, BoundsAssumption
<1>3. Closed \in [by : {"nobody", "bridge", "controller"}, until : Nat] /\ Closed.by = "nobody"
  BY DEF Closed
<1>4. CASE OpenAlready \/ CloseFails
  <2>1. UNCHANGED <<deadline, fabricCount, window, revoked>>
    BY <1>4 DEF OpenAlready, CloseFails, tracked
  <2>2. TypeOK' /\ TakenWaits' /\ run' = "waiting" /\ UNCHANGED <<now, fabrics>>
    BY <1>2, <1>4, <2>1, AnswerTypes DEF OpenAlready, CloseFails
  <2> QED
    BY <1>1, <2>1, <2>2 DEF IInv, OwnWindow, Sampled, Counted, Tracked, PairingOpen
<1>5. CASE OpenRefused
  <2>1. UNCHANGED <<deadline, window, revoked>> /\ fabricCount' = fabrics
    BY <1>5 DEF OpenRefused
  <2>2. TypeOK' /\ TakenWaits' /\ run' = "waiting" /\ UNCHANGED <<now, fabrics>>
    BY <1>2, <1>5, <2>1, AnswerTypes DEF OpenRefused
  <2> QED
    BY <1>1, <2>1, <2>2 DEF IInv, OwnWindow, Sampled, Counted, Tracked, PairingOpen
<1>6. CASE OpenNew
  <2>1. taken.op.for \in Nat \ {0}
    BY <1>1, <1>6, OpsType DEF OpenNew, Requests
  <2>2. /\ window' = [by |-> "bridge", until |-> now + taken.op.for]
        /\ fabricCount' = fabrics
        /\ deadline' = window'.until
        /\ revoked' = FALSE
    BY <1>6 DEF OpenNew, OpenedBy
  <2>3. /\ window' \in [by : {"nobody", "bridge", "controller"}, until : Nat]
        /\ window'.by = "bridge" /\ deadline' \in Nat
    BY <1>2, <2>1, <2>2
  <2>4. TypeOK' /\ TakenWaits' /\ run' = "waiting" /\ UNCHANGED <<now, fabrics>>
    BY <1>6, <2>2, <2>3, AnswerTypes DEF OpenNew
  <2>5. OwnWindow' /\ Counted'
    BY <1>2, <2>2, <2>4 DEF OwnWindow, Counted
  <2> QED
    BY <2>2, <2>3, <2>4, <2>5 DEF IInv, Sampled, Tracked
<1>7. CASE CloseUntracked \/ CloseTracked
  <2>1. /\ deadline' = 0 /\ fabricCount' = fabricCount /\ revoked' = FALSE
        /\ window' = Closed \/ (window' = window /\ ~PairingOpen)
    BY <1>7 DEF CloseUntracked, CloseTracked
  <2>2. window' \in [by : {"nobody", "bridge", "controller"}, until : Nat]
    BY <1>2, <1>3, <2>1
  <2>3. TypeOK' /\ TakenWaits' /\ run' = "waiting" /\ UNCHANGED <<now, fabrics>>
    BY <1>7, <2>1, <2>2, AnswerTypes DEF CloseUntracked, CloseTracked
  <2>4. OwnWindow'
    <3>1. CASE window' = Closed
      BY <1>3, <3>1 DEF OwnWindow
    <3>2. CASE window' = window /\ ~PairingOpen
      <4>1. ASSUME window.by = "bridge" PROVE fabrics <= fabricCount /\ now >= window.until
        BY <1>1, <1>2, <3>2, <4>1 DEF OwnWindow, PairingOpen
      <4> QED
        BY <2>1, <2>3, <3>2, <4>1 DEF OwnWindow
    <3> QED
      BY <2>1, <3>1, <3>2
  <2>5. Counted' /\ Tracked' /\ Sampled'
    BY <1>1, <1>2, <2>1, <2>3 DEF Counted, Tracked, Sampled, PairingOpen
  <2> QED
    BY <2>1, <2>3, <2>4, <2>5 DEF IInv
<1> QED
  BY <1>4, <1>5, <1>6, <1>7 DEF Answers

\* What the stack thread takes from the mailbox it executes next.
LEMMA LoopStep == ASSUME IInv, Sample \/ Take PROVE IInv'
<1>1. /\ TypeOK /\ revoked \in BOOLEAN /\ OwnWindow /\ Sampled /\ Counted /\ Tracked
  BY DEF IInv
<1>2. deadline \in Nat /\ now \in Nat /\ fabrics \in 0 .. MaxFabrics /\ fabricCount \in 0 .. MaxFabrics
  BY <1>1 DEF TypeOK
<1>3. fabrics \in Nat /\ fabricCount \in Nat
  BY <1>2, BoundsAssumption
<1>4. ASSUME Sample PROVE IInv'
  <2>1. /\ run = "waiting" /\ run' = "sampled" /\ fabricCount' = fabrics
        /\ deadline' = IF fabrics > fabricCount \/ now >= deadline THEN 0 ELSE deadline
        /\ UNCHANGED <<now, mailbox, client, taken, fabrics, window, revoked>>
    BY <1>4 DEF Sample, stack
  <2>2. deadline' \in Nat
    BY <1>2, <2>1
  <2>3. TypeOK'
    BY <1>1, <2>1, <2>2 DEF TypeOK
  <2>4. OwnWindow' /\ Sampled' /\ Counted'
    BY <1>1, <1>2, <1>3, <2>1 DEF OwnWindow, Sampled, Counted
  <2>5. Tracked'
    <3>1. ASSUME PairingOpen' PROVE PairingOpen /\ fabrics <= fabricCount
      BY <1>2, <1>3, <2>1, <3>1 DEF PairingOpen
    <3> QED
      BY <1>1, <2>1, <3>1 DEF Tracked
  <2>6. TakenWaits' /\ revoked' \in BOOLEAN
    BY <1>1, <2>1 DEF IInv, TakenWaits
  <2> QED
    BY <2>3, <2>4, <2>5, <2>6 DEF IInv
<1>5. ASSUME Take PROVE IInv'
  <2>1. /\ run = "sampled" /\ taken' = mailbox /\ mailbox' = None
        /\ run' = IF mailbox = None THEN "waiting" ELSE "executing"
        /\ UNCHANGED <<now, deadline, fabricCount, client, fabrics, window, revoked>>
    BY <1>5 DEF Take, tracked, stack
  <2>2. (run' = "executing") = (taken' # None)
    BY <2>1
  <2>3. TypeOK'
    BY <1>1, <2>1, <2>2 DEF TypeOK
  <2>4. TakenWaits'
    BY <1>1, <2>1 DEF TypeOK, TakenWaits
  <2>5. OwnWindow' /\ Sampled'
    BY <1>1, <2>1 DEF OwnWindow, Sampled
  <2>6. Counted' /\ Tracked' /\ revoked' \in BOOLEAN
    BY <1>1, <2>1 DEF Counted, Tracked, PairingOpen
  <2> QED
    BY <2>3, <2>4, <2>5, <2>6 DEF IInv
<1> QED
  BY <1>4, <1>5

\* A controller opens a window, for any time-out.
AnyOpens == \E op \in Ops : op.do = "open" /\ ControllerOpens(op.for)

LEMMA StackDoes ==
    ASSUME IInv, Commission \/ WindowCloses \/ ControllerRevokes \/ RemoveFabric \/ AnyOpens
    PROVE  IInv'
<1>1. /\ TypeOK /\ TakenWaits /\ revoked \in BOOLEAN
      /\ OwnWindow /\ Sampled /\ Counted /\ Tracked
  BY DEF IInv
<1>2. /\ deadline \in Nat /\ now \in Nat
      /\ fabrics \in 0 .. MaxFabrics /\ fabricCount \in 0 .. MaxFabrics
      /\ window \in [by : {"nobody", "bridge", "controller"}, until : Nat]
  BY <1>1 DEF TypeOK
<1>3. fabrics \in Nat /\ fabricCount \in Nat /\ MaxFabrics \in Nat
  BY <1>2, BoundsAssumption
<1>4. /\ run = "waiting"
      /\ UNCHANGED <<now, deadline, fabricCount, mailbox, client, run, taken>>
  BY DEF Commission, WindowCloses, ControllerRevokes, RemoveFabric, AnyOpens, ControllerOpens,
     StackStep, tracked
<1>5. Closed \in [by : {"nobody", "bridge", "controller"}, until : Nat] /\ Closed.by = "nobody"
  BY DEF Closed
<1>6. ASSUME fabrics' \in 0 .. MaxFabrics,
             window' \in [by : {"nobody", "bridge", "controller"}, until : Nat]
      PROVE  TypeOK' /\ TakenWaits' /\ Sampled'
  BY <1>1, <1>4, <1>6 DEF TypeOK, TakenWaits, Sampled
<1>7. ASSUME Commission PROVE IInv'
  <2>1. /\ window # Closed /\ fabrics < MaxFabrics /\ fabrics' = fabrics + 1
        /\ window' = Closed /\ revoked' = revoked
    BY <1>7 DEF Commission
  <2>2. fabrics' \in 0 .. MaxFabrics
    BY <1>2, <1>3, <2>1
  <2>3. TypeOK' /\ TakenWaits' /\ Sampled'
    BY <1>5, <1>6, <2>1, <2>2
  <2>4. ~revoked => ~(fabrics' <= fabricCount)
    BY <1>1, <1>3, <2>1 DEF Counted
  <2>5. Tracked'
    BY <1>4, <2>1, <2>4 DEF Tracked
  <2>6. OwnWindow' /\ Counted'
    BY <1>1, <1>3, <1>4, <1>5, <2>1 DEF OwnWindow, Counted
  <2> QED
    BY <1>1, <2>1, <2>3, <2>5, <2>6 DEF IInv
<1>8. ASSUME AnyOpens PROVE IInv'
  <2>1. PICK op \in Ops : op.do = "open" /\ ControllerOpens(op.for)
    BY <1>8 DEF AnyOpens
  <2>2. op.for \in Nat
    BY <2>1, OpsType
  <2>3. /\ window = Closed /\ window' = [by |-> "controller", until |-> now + op.for]
        /\ fabrics' = fabrics /\ revoked' = revoked
    BY <2>1 DEF ControllerOpens, OpenedBy
  <2>4. window' \in [by : {"nobody", "bridge", "controller"}, until : Nat]
        /\ window'.by = "controller"
    BY <1>2, <2>2, <2>3
  <2>5. TypeOK' /\ TakenWaits' /\ Sampled'
    BY <1>2, <1>6, <2>3, <2>4
  <2>6. OwnWindow' /\ Counted'
    BY <1>1, <1>4, <2>3, <2>4 DEF OwnWindow, Counted
  <2>7. Tracked'
    BY <1>1, <1>4, <1>5, <2>3 DEF Tracked, PairingOpen
  <2> QED
    BY <1>1, <2>3, <2>5, <2>6, <2>7 DEF IInv
<1>9. ASSUME WindowCloses PROVE IInv'
  <2>1. /\ \/ window.by = "bridge" /\ now >= window.until
           \/ window.by = "controller"
        /\ window' = Closed /\ fabrics' = fabrics /\ revoked' = revoked
    BY <1>9 DEF WindowCloses
  <2>2. TypeOK' /\ TakenWaits' /\ Sampled'
    BY <1>2, <1>5, <1>6, <2>1
  <2>3. OwnWindow' /\ Counted'
    BY <1>1, <1>4, <1>5, <2>1 DEF OwnWindow, Counted
  <2>4. window.by = "bridge" => ~PairingOpen
    BY <1>1, <1>2, <2>1 DEF OwnWindow, PairingOpen
  <2>5. Tracked'
    BY <1>1, <1>4, <2>1, <2>4 DEF Tracked, PairingOpen
  <2> QED
    BY <1>1, <2>1, <2>2, <2>3, <2>5 DEF IInv
<1>10. ASSUME ControllerRevokes \/ RemoveFabric PROVE IInv'
  <2>1. /\ fabrics' \in 0 .. MaxFabrics /\ fabrics' <= fabrics
        /\ window' \in {Closed, window} /\ revoked' = TRUE
    BY <1>2, <1>3, <1>10 DEF ControllerRevokes, RemoveFabric
  <2>2. TypeOK' /\ TakenWaits' /\ Sampled'
    BY <1>2, <1>5, <1>6, <2>1
  <2>3. OwnWindow'
    BY <1>1, <1>2, <1>3, <1>4, <1>5, <2>1 DEF OwnWindow
  <2> QED
    BY <2>1, <2>2, <2>3 DEF IInv, Counted, Tracked
<1> QED
  BY <1>7, <1>8, <1>9, <1>10

LEMMA OtherStep == ASSUME IInv, StackDies \/ Tick \/ UNCHANGED vars PROVE IInv'
<1>1. /\ TypeOK /\ TakenWaits /\ revoked \in BOOLEAN
      /\ OwnWindow /\ Sampled /\ Counted /\ Tracked
  BY DEF IInv
<1>2. /\ deadline \in Nat /\ now \in Nat
      /\ window \in [by : {"nobody", "bridge", "controller"}, until : Nat]
  BY <1>1 DEF TypeOK
<1>3. ASSUME StackDies PROVE IInv'
  <2>1. /\ run' = "dead" /\ taken' = None /\ window' = Closed
        /\ UNCHANGED <<now, deadline, fabricCount, mailbox, client, fabrics, revoked>>
    BY <1>3 DEF StackDies, tracked
  <2>2. window' \in [by : {"nobody", "bridge", "controller"}, until : Nat] /\ window'.by = "nobody"
    BY <2>1 DEF Closed
  <2>3. TypeOK'
    BY <1>1, <2>1, <2>2 DEF TypeOK
  <2> QED
    BY <1>1, <2>1, <2>2, <2>3 DEF IInv, TakenWaits, OwnWindow, Sampled, Counted, Tracked
<1>4. ASSUME Tick PROVE IInv'
  <2>1. /\ now' = now + 1
        /\ UNCHANGED <<deadline, fabricCount, mailbox, client, run, taken, fabrics, window, revoked>>
    BY <1>4 DEF Tick, tracked, stack
  <2>2. now' \in Nat
    BY <1>2, <2>1
  <2>3. TypeOK'
    BY <1>1, <2>1, <2>2 DEF TypeOK
  <2>4. OwnWindow'
    <3>1. now >= window.until => now' >= window.until
      BY <1>2, <2>1
    <3> QED
      BY <1>1, <2>1, <3>1 DEF OwnWindow
  <2>5. Tracked'
    <3>1. PairingOpen' => PairingOpen
      BY <1>2, <2>1 DEF PairingOpen
    <3> QED
      BY <1>1, <2>1, <3>1 DEF Tracked
  <2> QED
    BY <1>1, <2>1, <2>3, <2>4, <2>5 DEF IInv, TakenWaits, Sampled, Counted
<1>5. ASSUME UNCHANGED vars PROVE IInv'
  <2>1. UNCHANGED <<now, tracked, run, stack, revoked>> /\ UNCHANGED <<mailbox, client, taken>>
    BY <1>5 DEF vars
  <2>2. TypeOK' /\ TakenWaits'
    BY <1>1, <2>1 DEF TypeOK, TakenWaits, tracked, stack
  <2> QED
    BY <2>1, <2>2, WindowUnchanged DEF IInv
<1> QED
  BY <1>3, <1>4, <1>5

LEMMA StepInv == IInv /\ [Next]_vars => IInv'
<1> SUFFICES ASSUME IInv, [Next]_vars PROVE IInv'
  OBVIOUS
<1>1. CASE RunLoop
  BY <1>1, LoopStep, ExecuteStep DEF RunLoop, Answers
<1>2. ASSUME NEW c \in Clients,
             \/ \E op \in Ops : Post(c, op)
             \/ TimeOut(c) \/ ClearMailbox(c) \/ Leave(c)
      PROVE  IInv'
  BY <1>2, ClientStep
<1>3. CASE Commission \/ WindowCloses \/ ControllerRevokes \/ RemoveFabric \/ AnyOpens
  BY <1>3, StackDoes
<1>4. CASE StackDies \/ Tick \/ UNCHANGED vars
  BY <1>4, OtherStep
<1> QED
  BY <1>1, <1>2, <1>3, <1>4 DEF Next, AnyOpens

LEMMA Invariance == Spec => []IInv
BY InitInv, StepInv, PTL DEF Spec

-----------------------------------------------------------------------------
(* The theorems *)

\* The types; a client's request is in the mailbox or with the stack thread, not
\* in both, and is its only one (post_window_request, drain_window_request).
THEOREM TypeCorrect == Spec => []TypeOK
<1>1. IInv => TypeOK
  BY DEF IInv
<1> QED
  BY <1>1, Invariance, PTL

LEMMA Exact == IInv => TrackedExact
<1> SUFFICES ASSUME IInv, run \in {"sampled", "executing"}
             PROVE  /\ OwnWindowOpen => PairingOpen
                    /\ PairingOpen /\ ~revoked => OwnWindowOpen
  BY DEF TrackedExact
<1>1. /\ deadline \in Nat /\ now \in Nat
      /\ fabrics \in 0 .. MaxFabrics /\ fabricCount = fabrics
      /\ window \in [by : {"nobody", "bridge", "controller"}, until : Nat]
  BY DEF IInv, TypeOK, Sampled
<1>2. fabrics <= fabricCount /\ run # "dead"
  BY <1>1, BoundsAssumption
<1>3. OwnWindowOpen => PairingOpen
  BY <1>1 DEF IInv, OwnWindow, OwnWindowOpen, PairingOpen
<1>4. ASSUME PairingOpen, ~revoked PROVE OwnWindowOpen
  <2>1. window.by = "bridge"
    BY <1>2, <1>4 DEF IInv, Tracked
  <2> QED
    BY <1>1, <1>4, <2>1 DEF IInv, OwnWindow, OwnWindowOpen, PairingOpen
<1> QED
  BY <1>3, <1>4

\* When a request is executed the bridge's notion of its window and the stack's
\* are the same: sample_fabrics, which runs before the drain, has put right what
\* a commissioning or the clock has changed.
THEOREM Exactness == Spec => []TrackedExact
BY Exact, Invariance, PTL

LEMMA AnswersStep ==
    ASSUME IInv, [Next]_vars, NEW c \in Clients, client[c] = "waiting"
    PROVE  /\ client'[c] = "opened" => OwnWindowOpen' \/ revoked
           /\ client'[c] = "closed" => ~OwnWindowOpen'
<1>1. /\ TypeOK /\ TrackedExact
      /\ deadline \in Nat /\ now \in Nat
      /\ client \in [Clients -> Progress]
      /\ window \in [by : {"nobody", "bridge", "controller"}, until : Nat]
  BY Exact DEF IInv, TypeOK, Progress
<1>2. CASE client'[c] \notin {"opened", "closed"}
  BY <1>2
<1>3. CASE OpenAlready
  <2>1. /\ run = "executing" /\ PairingOpen /\ window' = window /\ now' = now
        /\ client' = [d \in Clients |-> IF d = taken.from THEN "opened" ELSE client[d]]
    BY <1>3 DEF OpenAlready, Answer
  <2>2. OwnWindowOpen \/ revoked
    BY <1>1, <2>1 DEF TrackedExact
  <2>3. client'[c] # "closed"
    BY <2>1
  <2> QED
    BY <2>1, <2>2, <2>3 DEF OwnWindowOpen
<1>4. CASE OpenNew
  <2>1. taken.op.for \in Nat \ {0}
    <3>1. taken \in Requests /\ taken.op.do = "open"
      BY <1>1, <1>4 DEF OpenNew, TypeOK
    <3> QED
      BY <3>1, OpsType DEF Requests
  <2>2. /\ window' = [by |-> "bridge", until |-> now + taken.op.for] /\ now' = now
        /\ client' = [d \in Clients |-> IF d = taken.from THEN "opened" ELSE client[d]]
    BY <1>4 DEF OpenNew, OpenedBy, Answer
  <2>3. OwnWindowOpen'
    BY <1>1, <2>1, <2>2 DEF OwnWindowOpen
  <2>4. client'[c] # "closed"
    BY <2>2
  <2> QED
    BY <2>3, <2>4
<1>5. CASE CloseUntracked \/ CloseTracked
  <2>1. /\ run = "executing" /\ now' = now
        /\ window' = Closed \/ (window' = window /\ ~PairingOpen)
        /\ client' = [d \in Clients |-> IF d = taken.from THEN "closed" ELSE client[d]]
    BY <1>5 DEF CloseUntracked, CloseTracked, Answer
  <2>2. client'[c] # "opened"
    BY <2>1
  <2>3. ~OwnWindowOpen'
    <3>1. CASE window' = Closed
      BY <3>1 DEF OwnWindowOpen, Closed
    <3>2. CASE window' = window /\ ~PairingOpen
      BY <1>1, <2>1, <3>2 DEF TrackedExact, OwnWindowOpen
    <3> QED
      BY <2>1, <3>1, <3>2
  <2> QED
    BY <2>2, <2>3
<1>6. CASE OpenRefused \/ CloseFails
  <2>1. client' = [d \in Clients |-> IF d = taken.from THEN "refused" ELSE client[d]]
    BY <1>6 DEF OpenRefused, CloseFails, Answer
  <2> QED
    BY <1>2, <2>1
<1>7. CASE UNCHANGED client
  BY <1>2, <1>7
<1>8. CASE Sample \/ Take \/ StackDies \/ Tick \/ UNCHANGED vars
  BY <1>7, <1>8 DEF Sample, Take, StackDies, Tick, vars
<1>9. CASE Commission \/ WindowCloses \/ ControllerRevokes \/ RemoveFabric \/ AnyOpens
  BY <1>7, <1>9 DEF Commission, WindowCloses, ControllerRevokes, RemoveFabric, AnyOpens,
     ControllerOpens, StackStep
<1>10. ASSUME NEW d \in Clients,
              \/ \E op \in Ops : Post(d, op)
              \/ TimeOut(d) \/ ClearMailbox(d) \/ Leave(d)
       PROVE  client'[c] \notin {"opened", "closed"}
  <2>1. \E to \in {"waiting", "timed out", "idle"} : client' = [client EXCEPT ![d] = to]
    BY <1>10 DEF Post, TimeOut, ClearMailbox, Leave
  <2> QED
    BY <1>1, <2>1
<1> QED
  BY <1>2, <1>3, <1>4, <1>5, <1>6, <1>8, <1>9, <1>10 DEF Next, RunLoop, AnyOpens

\* What execute_window_op answers is so: a window said to be open can be paired
\* with, one said to be closed is none of the bridge's.
THEOREM Truthful == Spec => AnswersTrue
<1>1. IInv /\ [Next]_vars =>
          [\A c \in Clients : client[c] = "waiting" =>
              /\ client'[c] = "opened" => OwnWindowOpen' \/ revoked
              /\ client'[c] = "closed" => ~OwnWindowOpen']_vars
  BY AnswersStep
<1> QED
  BY <1>1, Invariance, PTL DEF Spec, AnswersTrue

LEMMA ForeignStep ==
    ASSUME IInv, [Next]_vars, Executes, window.by = "controller", ~revoked
    PROVE  window' = window
<1>1. TrackedExact /\ run = "executing" /\ run' = "waiting" /\ ~OwnWindowOpen
  BY Exact DEF Executes, OwnWindowOpen
<1>2. ~PairingOpen
  BY <1>1 DEF TrackedExact
<1>3. CASE OpenNew
  BY <1>3 DEF OpenNew, Closed
<1>4. CASE OpenAlready \/ OpenRefused \/ CloseUntracked \/ CloseTracked \/ CloseFails
  BY <1>2, <1>4 DEF OpenAlready, OpenRefused, CloseUntracked, CloseTracked, CloseFails
<1>5. CASE Sample \/ Take \/ StackDies \/ Tick \/ UNCHANGED vars
  BY <1>1, <1>5 DEF Sample, Take, StackDies, Tick, vars, stack
<1>6. CASE Commission \/ WindowCloses \/ ControllerRevokes \/ RemoveFabric \/ AnyOpens
  BY <1>1, <1>6 DEF Commission, WindowCloses, ControllerRevokes, RemoveFabric, AnyOpens,
     ControllerOpens, StackStep
<1>7. ASSUME NEW d \in Clients,
             \/ \E op \in Ops : Post(d, op)
             \/ TimeOut(d) \/ ClearMailbox(d) \/ Leave(d)
      PROVE  window' = window
  BY <1>7 DEF Post, TimeOut, ClearMailbox, Leave, stack
<1> QED
  BY <1>3, <1>4, <1>5, <1>6, <1>7 DEF Next, RunLoop, AnyOpens

\* A request leaves a controller's window alone, unless a controller had taken
\* the bridge's away before ("Close only windows this bridge opened").
THEOREM Foreign == Spec => ForeignKept
<1>1. IInv /\ [Next]_vars =>
          [Executes /\ window.by = "controller" /\ ~revoked => window' = window]_vars
  BY ForeignStep
<1> QED
  BY <1>1, Invariance, PTL DEF Spec, ForeignKept
=============================================================================
