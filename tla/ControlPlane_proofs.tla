------------------------ MODULE ControlPlane_proofs ------------------------
(***************************************************************************)
(* Theorems about ControlPlane, for every number of exports and of requests *)
(* in progress at once.                                                     *)
(***************************************************************************)
EXTENDS ControlPlane, TLAPS

-----------------------------------------------------------------------------
(* Type correctness *)

LEMMA NothingType == Nothing \in Catalogs
BY DEF Nothing, Catalogs

\* A change of one export makes a catalog of a catalog.
LEMMA OutcomeType ==
    ASSUME NEW list \in Catalogs, NEW e \in Exports, NEW outcome \in Outcomes(list[e])
    PROVE  /\ [list EXCEPT ![e] = outcome] \in Catalogs
           /\ outcome \in ExportRecord \cup {None}
           /\ [list EXCEPT ![e] = outcome][e] = outcome
BY DEF Outcomes, Catalogs

\* What is bridged is enabled.
LEMMA BridgedType ==
    ASSUME NEW list \in Catalogs
    PROVE  Bridged(list) \in [Exports -> [enabled : {TRUE}, name : Names] \cup {None}]
<1> SUFFICES ASSUME NEW e \in Exports, list[e] # None, list[e].enabled
             PROVE  list[e] \in [enabled : {TRUE}, name : Names]
  BY Zenon DEF Bridged
<1>1. list[e] \in ExportRecord
  BY DEF Catalogs
<1> QED
  BY <1>1 DEF ExportRecord

LEMMA TypeStep == TypeOK /\ [Next]_vars => TypeOK'
<1> SUFFICES ASSUME TypeOK, [Next]_vars PROVE TypeOK'
  OBVIOUS
<1>1. CASE StartBackend
  BY <1>1 DEF StartBackend, TypeOK
<1>2. CASE Serve
  BY <1>2, BridgedType DEF Serve, TypeOK
<1>3. CASE Crash
  <2>1. worker' \in [Workers -> WorkerState]
    BY <1>3 DEF Crash, WorkerState
  <2>2. plane' \in [Exports -> [enabled : {TRUE}, name : Names] \cup {None}]
    BY <1>3 DEF Crash, Nothing
  <2> QED
    BY <1>3, <2>1, <2>2, NothingType DEF Crash, TypeOK
<1>4. ASSUME NEW w \in Workers, NEW e \in Exports, Begins(w, e)
      PROVE  /\ changes' \in 0 .. MaxChanges
             /\ alone' \in BOOLEAN
             /\ acked' \in Catalogs
             /\ exact' \in BOOLEAN
             /\ UNCHANGED <<phase, plane>>
  <2>1. changes' \in 0 .. MaxChanges
    BY <1>4, MaxChangesAssumption DEF Begins, TypeOK
  <2>2. alone' \in BOOLEAN
    BY <1>4, Zenon DEF Begins
  <2>3. exact' \in BOOLEAN
    BY <1>4 DEF Begins
  <2>4. acked' \in Catalogs
    BY <1>4 DEF Begins, TypeOK, Catalogs
  <2> QED
    BY <1>4, <2>1, <2>2, <2>3, <2>4 DEF Begins
<1>5. ASSUME NEW w \in Workers, NEW e \in Exports, Change(w, e)
      PROVE  TypeOK'
  <2>1. PICK outcome \in Outcomes(catalog[e]) :
            /\ catalog' = [catalog EXCEPT ![e] = outcome]
            /\ past' = past \cup {catalog'}
    BY <1>5 DEF Change
  <2>2. catalog' \in Catalogs /\ catalog'[e] \in ExportRecord \cup {None}
    <3>1. catalog \in Catalogs
      BY DEF TypeOK
    <3> QED
      BY <2>1, <3>1, OutcomeType
  <2>3. [at |-> "changed", export |-> e, answer |-> catalog'[e]] \in WorkerState
    BY <2>2 DEF WorkerState
  <2>4. worker' \in [Workers -> WorkerState]
    BY <1>5, <2>3 DEF Change, TypeOK
  <2> QED
    BY <1>4, <1>5, <2>1, <2>2, <2>4 DEF Change, TypeOK
<1>6. ASSUME NEW w \in Workers, NEW e \in Exports, ChangeUnsaved(w, e)
      PROVE  TypeOK'
  <2>1. PICK outcome \in Outcomes(catalog[e]) :
            /\ catalog' = [catalog EXCEPT ![e] = outcome]
            /\ past' = past \cup {catalog'}
    BY <1>6 DEF ChangeUnsaved
  <2>2. catalog' \in Catalogs
    BY <2>1, OutcomeType DEF TypeOK
  <2> QED
    BY <1>4, <1>6, <2>1, <2>2 DEF ChangeUnsaved, TypeOK
<1>7. ASSUME NEW w \in Workers, List(w)
      PROVE  TypeOK'
  <2>1. worker[w] \in [at : {"changed"}, export : Exports, answer : ExportRecord \cup {None}]
    BY <1>7 DEF List, TypeOK, WorkerState, Idle
  <2>2. [at |-> "listed", export |-> worker[w].export, answer |-> worker[w].answer,
         list |-> catalog] \in WorkerState
    BY <2>1 DEF WorkerState, TypeOK
  <2>3. worker' \in [Workers -> WorkerState]
    BY <1>7, <2>2 DEF List, TypeOK
  <2> QED
    BY <1>7, <2>3 DEF List, TypeOK, observers
<1>8. ASSUME NEW w \in Workers, Install(w)
      PROVE  TypeOK'
  <2>1. worker[w] \in [at : {"listed"}, export : Exports, answer : ExportRecord \cup {None},
                       list : Catalogs]
    BY <1>8 DEF Install, TypeOK, WorkerState, Idle
  <2>2. worker' \in [Workers -> WorkerState]
    BY <1>8 DEF Install, Answer, TypeOK, WorkerState
  <2>3. acked' \in Catalogs
    BY <1>8, <2>1 DEF Install, Answer, TypeOK, Catalogs
  <2>4. plane' \in [Exports -> [enabled : {TRUE}, name : Names] \cup {None}]
    BY <1>8, <2>1, BridgedType DEF Install
  <2> QED
    BY <1>8, <2>2, <2>3, <2>4 DEF Install, Answer, TypeOK
<1>9. CASE UNCHANGED vars
  BY <1>9 DEF vars, TypeOK
<1> QED
  BY <1>1, <1>2, <1>3, <1>5, <1>6, <1>7, <1>8, <1>9 DEF Next

\* Every variable keeps its type, and an export that is not enabled is never
\* bridged.
THEOREM TypeCorrect == Spec => []TypeOK
<1>1. Init => TypeOK
  <2> SUFFICES ASSUME Init PROVE TypeOK
    OBVIOUS
  <2>1. plane \in [Exports -> [enabled : {TRUE}, name : Names] \cup {None}]
    BY DEF Init, Nothing
  <2>2. worker \in [Workers -> WorkerState]
    BY DEF Init, WorkerState
  <2>3. changes \in 0 .. MaxChanges
    BY MaxChangesAssumption DEF Init
  <2>4. catalog \in Catalogs /\ saved \in Catalogs /\ acked \in Catalogs /\ past \subseteq Catalogs
    BY NothingType DEF Init
  <2>5. alone \in BOOLEAN /\ exact \in BOOLEAN
    BY DEF Init
  <2> QED
    BY <2>1, <2>2, <2>3, <2>4, <2>5 DEF Init, TypeOK
<1>2. TypeOK /\ [Next]_vars => TypeOK'
  BY TypeStep
<1> QED
  BY <1>1, <1>2, PTL DEF Spec

-----------------------------------------------------------------------------
(* The endpoints are those of one catalog *)

\* So is every listing that a request will hand over.
PastInv ==
    /\ catalog \in past
    /\ \A w \in Workers : worker[w].at = "listed" => worker[w].list \in past
    /\ PlaneWasCatalog

LEMMA PastStep == TypeOK /\ PastInv /\ [Next]_vars => PastInv'
<1> SUFFICES ASSUME TypeOK, PastInv, [Next]_vars PROVE PastInv'
  OBVIOUS
<1> USE DEF PastInv, PlaneWasCatalog
<1>1. CASE StartBackend
  BY <1>1 DEF StartBackend, Bridged
<1>2. CASE Serve
  BY <1>2 DEF Serve, Bridged
<1>3. CASE Crash
  <2>1. Bridged(Nothing) = Nothing
    BY DEF Bridged, Nothing
  <2>2. /\ past' = {Nothing} /\ catalog' = Nothing /\ plane' = Nothing
        /\ \A w \in Workers : worker'[w].at = "idle"
    BY <1>3 DEF Crash, Idle
  <2> QED
    BY <2>1, <2>2 DEF Bridged
<1>4. ASSUME NEW w \in Workers, NEW e \in Exports, Change(w, e) \/ ChangeUnsaved(w, e)
      PROVE  PastInv'
  <2>1. past' = past \cup {catalog'} /\ plane' = plane
    BY <1>4 DEF Change, ChangeUnsaved, Begins
  <2>2. \A v \in Workers : worker'[v].at = "listed" => worker'[v] = worker[v]
    BY <1>4 DEF Change, ChangeUnsaved, TypeOK
  <2> QED
    BY <2>1, <2>2 DEF Bridged
<1>5. ASSUME NEW w \in Workers, List(w)
      PROVE  PastInv'
  <2>1. UNCHANGED <<catalog, past, plane>>
    BY <1>5 DEF List, observers
  <2>2. worker'[w].list = catalog /\ \A v \in Workers : v # w => worker'[v] = worker[v]
    BY <1>5 DEF List, TypeOK
  <2> QED
    BY <2>1, <2>2 DEF Bridged
<1>6. ASSUME NEW w \in Workers, Install(w)
      PROVE  PastInv'
  <2>1. UNCHANGED <<catalog, past>>
    BY <1>6 DEF Install, Answer
  <2>2. \A v \in Workers : worker'[v].at = "listed" => worker'[v] = worker[v]
    BY <1>6 DEF Install, Answer, TypeOK, Idle
  <2>3. plane' = Bridged(worker[w].list) /\ worker[w].list \in past
    BY <1>6 DEF Install
  <2> QED
    BY <2>1, <2>2, <2>3 DEF Bridged
<1>7. CASE UNCHANGED vars
  BY <1>7 DEF vars, Bridged
<1> QED
  BY <1>1, <1>2, <1>3, <1>4, <1>5, <1>6, <1>7 DEF Next

\* However requests overlap and fail, controllers see one catalog of this life
\* of the process, never parts of several.
THEOREM OneCatalog == Spec => []PlaneWasCatalog
<1>1. Init => PastInv
  BY DEF Init, PastInv, PlaneWasCatalog, Bridged, Nothing, Idle
<1>2. TypeOK /\ PastInv /\ [Next]_vars => PastInv'
  BY PastStep
<1>3. PastInv => PlaneWasCatalog
  BY DEF PastInv
<1> QED
  BY <1>1, <1>2, <1>3, TypeCorrect, PTL DEF Spec

-----------------------------------------------------------------------------
(* A request that runs alone *)

\* While a request is alone its listing is the catalog; after it, and after the
\* start, the endpoints are those of the catalog.
AloneInv ==
    /\ alone =>
        /\ \A v, w \in Busy : v = w
        /\ \A w \in Busy : worker[w].at = "listed" => worker[w].list = catalog
    /\ exact => Busy = {} /\ phase = "serving" /\ plane = Bridged(catalog)

\* What was answered is in memory and on disk, and what is about to be.
AckedInv ==
    /\ alone => \A w \in Busy :
          /\ catalog[worker[w].export] = worker[w].answer
          /\ saved[worker[w].export] = worker[w].answer
    /\ \A e \in Exports : acked[e] # None =>
          /\ saved[e] = acked[e]
          /\ phase # "down" => catalog[e] = acked[e]
    /\ phase # "serving" => Busy = {}

LEMMA AloneStep == TypeOK /\ AloneInv /\ AckedInv /\ [Next]_vars => AloneInv' /\ AckedInv'
<1> SUFFICES ASSUME TypeOK, AloneInv, AckedInv, [Next]_vars PROVE AloneInv' /\ AckedInv'
  OBVIOUS
<1> USE DEF AloneInv, AckedInv
<1>1. CASE StartBackend
  BY <1>1 DEF StartBackend, Busy
<1>2. CASE Serve
  BY <1>2 DEF Serve, Busy, Bridged
<1>3. CASE Crash
  <2>1. Busy' = {}
    BY <1>3 DEF Crash, Busy
  <2> QED
    BY <1>3, <2>1 DEF Crash
<1>4. ASSUME NEW w \in Workers, NEW e \in Exports, Change(w, e) \/ ChangeUnsaved(w, e)
      PROVE  AloneInv' /\ AckedInv'
  <2>1. /\ phase = "serving" /\ phase' = "serving" /\ exact' = FALSE
        /\ alone' = (Busy = {})
        /\ worker[w] = Idle
    BY <1>4 DEF Change, ChangeUnsaved, Begins
  <2>2. catalog'[e] \in ExportRecord \cup {None} /\ \A f \in Exports : f # e => catalog'[f] = catalog[f]
    <3>1. PICK outcome \in Outcomes(catalog[e]) : catalog' = [catalog EXCEPT ![e] = outcome]
      BY <1>4 DEF Change, ChangeUnsaved
    <3> QED
      BY <3>1, OutcomeType DEF TypeOK, Catalogs
  <2>3. acked'[e] = None /\ \A f \in Exports : f # e => acked'[f] = acked[f]
    BY <1>4 DEF Change, ChangeUnsaved, Begins, TypeOK, Catalogs
  <2>4. saved' = saved \/ saved' = catalog'
    BY <1>4 DEF Change, ChangeUnsaved
  <2>5. \A f \in Exports : acked'[f] # None => saved'[f] = acked'[f] /\ catalog'[f] = acked'[f]
    BY <2>1, <2>2, <2>3, <2>4
  <2>6. CASE Change(w, e)
    <3>1. worker'[w] = [at |-> "changed", export |-> e, answer |-> catalog'[e]]
          /\ \A v \in Workers : v # w => worker'[v] = worker[v]
      BY <2>6 DEF Change, TypeOK
    <3>2. Busy' \subseteq Busy \cup {w}
      BY <3>1 DEF Busy
    <3>3. saved' = catalog'
      BY <2>6 DEF Change
    <3>4. \A v \in Busy' : alone' => v = w
      BY <2>1, <3>2
    <3>5. worker'[w].at = "changed" /\ worker'[w].export = e /\ worker'[w].answer = catalog'[e]
      BY <3>1
    <3>6. AloneInv'
      BY <2>1, <3>4, <3>5
    <3>7. AckedInv'
      BY <2>1, <2>5, <3>3, <3>4, <3>5
    <3> QED
      BY <3>6, <3>7
  <2>7. CASE ChangeUnsaved(w, e)
    <3>1. Busy' = Busy
      BY <2>7 DEF ChangeUnsaved, Busy
    <3> QED
      BY <2>1, <2>5, <3>1
  <2> QED
    BY <1>4, <2>6, <2>7
<1>5. ASSUME NEW w \in Workers, List(w)
      PROVE  AloneInv' /\ AckedInv'
  <2>1. UNCHANGED <<phase, catalog, saved, plane, alone, exact, acked>>
    BY <1>5 DEF List, observers
  <2>2. /\ worker'[w].list = catalog
        /\ worker'[w].export = worker[w].export
        /\ worker'[w].answer = worker[w].answer
        /\ \A v \in Workers : v # w => worker'[v] = worker[v]
    BY <1>5 DEF List, TypeOK
  <2>3. Busy' = Busy
    BY <1>5 DEF List, Busy, Idle, TypeOK
  <2> QED
    BY <2>1, <2>2, <2>3 DEF Busy, Bridged
<1>6. ASSUME NEW w \in Workers, Install(w)
      PROVE  AloneInv' /\ AckedInv'
  <2>1. worker[w] \in [at : {"listed"}, export : Exports, answer : ExportRecord \cup {None},
                       list : Catalogs]
    BY <1>6 DEF Install, TypeOK, WorkerState, Idle
  <2>2. w \in Busy
    BY <2>1 DEF Busy, Idle
  <2>3. /\ UNCHANGED <<phase, catalog, saved, alone>>
        /\ exact' = alone
        /\ plane' = Bridged(worker[w].list)
    BY <1>6 DEF Install, Answer
  <2>4. Busy' = Busy \ {w} /\ \A v \in Busy' : worker'[v] = worker[v]
    BY <1>6 DEF Install, Answer, Busy, TypeOK
  <2>5. /\ acked'[worker[w].export] = IF alone THEN worker[w].answer ELSE None
        /\ \A f \in Exports : f # worker[w].export => acked'[f] = acked[f]
    BY <1>6, <2>1 DEF Install, Answer, TypeOK, Catalogs
  <2>6. phase = "serving"
    BY <2>2
  <2>7. alone => Busy' = {} /\ worker[w].list = catalog
    BY <2>1, <2>2, <2>4
  <2>8. AloneInv'
    BY <2>2, <2>3, <2>4, <2>6, <2>7 DEF Bridged
  <2>9. \A f \in Exports : acked'[f] # None => saved[f] = acked'[f] /\ catalog[f] = acked'[f]
    BY <2>2, <2>5, <2>6
  <2>10. AckedInv'
    BY <2>3, <2>4, <2>6, <2>9
  <2> QED
    BY <2>8, <2>10
<1>7. CASE UNCHANGED vars
  BY <1>7 DEF vars, Busy, Bridged
<1> QED
  BY <1>1, <1>2, <1>3, <1>4, <1>5, <1>6, <1>7 DEF Next

LEMMA AloneInvariant == Spec => [](AloneInv /\ AckedInv)
<1>1. Init => AloneInv /\ AckedInv
  BY DEF Init, AloneInv, AckedInv, Busy
<1>2. TypeOK /\ AloneInv /\ AckedInv /\ [Next]_vars => AloneInv' /\ AckedInv'
  BY AloneStep
<1> QED
  BY <1>1, <1>2, TypeCorrect, PTL DEF Spec

\* A request that runs alone mends what overlapping or failed ones have left.
THEOREM Healed == Spec => []HealedByNextChange
<1>1. AloneInv => HealedByNextChange
  BY DEF AloneInv, HealedByNextChange
<1> QED
  BY <1>1, AloneInvariant, PTL

\* What was answered stays saved, and is shown once a request has run alone.
THEOREM Shown == Spec => []AckedShown
<1>1. AloneInv /\ AckedInv => AckedShown
  <2> SUFFICES ASSUME AloneInv, AckedInv, NEW e \in Exports, acked[e] # None
               PROVE  /\ saved[e] = acked[e]
                      /\ exact /\ Busy = {} => plane[e] = Bridged(acked)[e]
    BY DEF AckedShown
  <2>1. saved[e] = acked[e]
    BY DEF AckedInv
  <2>2. ASSUME exact PROVE plane[e] = Bridged(acked)[e]
    BY <2>2 DEF AloneInv, AckedInv, Bridged
  <2> QED
    BY <2>1, <2>2
<1> QED
  BY <1>1, AloneInvariant, PTL
=============================================================================
