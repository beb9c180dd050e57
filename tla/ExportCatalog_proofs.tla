----------------------- MODULE ExportCatalog_proofs -----------------------
(***************************************************************************)
(* Theorems about ExportCatalog, for every number of exports and endpoint   *)
(* ids, with I/O errors and crashes anywhere.                               *)
(***************************************************************************)
EXTENDS ExportCatalog, TLAPS

Catalogs == [Exports -> ExportRecord \cup {None}]

-----------------------------------------------------------------------------
(* The operators *)

\* The ids in use are endpoint ids.
LEMMA UsedIdsType ==
    ASSUME NEW catalog \in Catalogs
    PROVE  UsedIds(catalog) \subseteq EndpointIds
BY NoneAssumption DEF UsedIds, Catalogs, ExportRecord, EndpointIds, NoId

\* An id is in use exactly when an export has it.
LEMMA UsedIdsMember ==
    ASSUME NEW catalog \in Catalogs, NEW e \in Exports, catalog[e] # None,
           catalog[e].endpoint # NoId
    PROVE  catalog[e].endpoint \in UsedIds(catalog)
BY DEF UsedIds

\* The counter stays a u16.
LEMMA CounterAfterType ==
    ASSUME NEW id \in EndpointIds
    PROVE  CounterAfter(id) \in 0 .. MaxId
BY MaxIdAssumption DEF CounterAfter, EndpointIds

\* So does what load_or_new starts it from.
LEMMA CounterBoundsType ==
    ASSUME diskExports \in Catalogs, diskNext \in 0 .. MaxId
    PROVE  CounterBounds \subseteq 0 .. MaxId
<1>1. UsedIds(diskExports) \subseteq EndpointIds
  BY UsedIdsType
<1> QED
  BY <1>1, MaxIdAssumption DEF CounterBounds, EndpointIds

-----------------------------------------------------------------------------
(* Type correctness *)

\* What a request is answered with is in memory: no step between the change and
\* the answer takes it away.  TypeOK is not inductive without it, the observers
\* being copied from there.
RequestInMemory ==
    request # None /\ request.kind # "delete" => mem[request.export] # None

TypeInv == TypeOK /\ RequestInMemory

LEMMA TypeInit == Init => TypeInv
<1> SUFFICES ASSUME Init PROVE TypeInv
  OBVIOUS
<1>1. diskExports \in Catalogs
  BY ExportsAssumption DEF Init, Catalogs, ExportRecord
<1>2. next \in 0 .. MaxId /\ diskNext \in 0 .. MaxId
  BY MaxIdAssumption DEF Init
<1>3. mem \in Catalogs
  BY DEF Init, Catalogs, Empty
<1>4. /\ told \in [Exports -> EndpointIds \cup {NoId}]
      /\ toldName \in [Exports -> Names \cup {None}]
      /\ listed \in [Exports -> EndpointIds \cup {NoId}]
  BY DEF Init
<1> QED
  BY <1>1, <1>2, <1>3, <1>4 DEF Init, TypeInv, TypeOK, RequestInMemory, Catalogs, Phases

LEMMA TypeStep == TypeInv /\ [Next]_vars => TypeOK'
<1> SUFFICES ASSUME TypeOK, RequestInMemory, [Next]_vars PROVE TypeOK'
  BY DEF TypeInv
<1> USE DEF Phases, Catalogs
<1>1. CASE Load
  <2>1. next' \in 0 .. MaxId
    BY <1>1, CounterBoundsType DEF Load, TypeOK
  <2> QED
    BY <1>1, <2>1 DEF Load, TypeOK, disk, observers
<1>2. CASE AssignMissing
  <2>1. PICK e \in Unassigned, id \in EndpointIds :
            /\ mem' = [mem EXCEPT ![e].endpoint = id]
            /\ next' = CounterAfter(id)
            /\ NoteWrap(CounterAfter(id))
    BY <1>2 DEF AssignMissing
  <2>2. e \in Exports /\ mem[e] \in ExportRecord
    BY <2>1 DEF Unassigned, TypeOK
  <2>3. mem' \in Catalogs
    BY <2>1, <2>2 DEF TypeOK, ExportRecord
  <2>4. next' \in 0 .. MaxId
    BY <2>1, CounterAfterType
  <2>5. wrapped' \in BOOLEAN
    BY <2>1 DEF NoteWrap, TypeOK
  <2> QED
    BY <1>2, <2>3, <2>4, <2>5 DEF AssignMissing, TypeOK, disk
<1>3. CASE Start
  BY <1>3 DEF Start, TypeOK, disk, observers
<1>4. CASE LoadFails
  BY <1>4, MaxIdAssumption DEF LoadFails, TypeOK, Empty, disk, observers
<1>5. ASSUME NEW e \in Exports, NEW name \in Names, Create(e, name)
      PROVE  TypeOK'
  <2>1. PICK id \in EndpointIds :
            /\ mem' = [mem EXCEPT ![e] = [endpoint |-> id, name |-> name]]
            /\ next' = CounterAfter(id)
            /\ NoteWrap(CounterAfter(id))
    BY <1>5 DEF Create
  <2>2. mem' \in Catalogs
    BY <2>1 DEF TypeOK, ExportRecord
  <2>3. next' \in 0 .. MaxId
    BY <2>1, CounterAfterType
  <2>4. wrapped' \in BOOLEAN
    BY <2>1 DEF NoteWrap, TypeOK
  <2>5. request' \in Request /\ request' # None
    BY <1>5, NoneAssumption DEF Create, Request
  <2> QED
    BY <1>5, <2>2, <2>3, <2>4, <2>5 DEF Create, TypeOK, disk
<1>6. ASSUME NEW e \in Exports, NEW name \in Names, Patch(e, name)
      PROVE  TypeOK'
  <2>1. mem' \in Catalogs
    BY <1>6 DEF Patch, TypeOK, ExportRecord
  <2>2. request' \in Request /\ request' # None
    BY <1>6, NoneAssumption DEF Patch, Request
  <2> QED
    BY <1>6, <2>1, <2>2 DEF Patch, TypeOK, disk
<1>7. ASSUME NEW e \in Exports, NEW name \in Names, PatchBadPrimary(e, name)
      PROVE  TypeOK'
  <2>1. mem' \in Catalogs
    BY <1>7 DEF PatchBadPrimary, TypeOK, ExportRecord
  <2> QED
    BY <1>7, <2>1 DEF PatchBadPrimary, TypeOK, disk
<1>8. ASSUME NEW e \in Exports, Delete(e)
      PROVE  TypeOK'
  <2>1. mem' \in Catalogs
    BY <1>8 DEF Delete, TypeOK
  <2>2. request' \in Request /\ request' # None
    BY <1>8, NoneAssumption DEF Delete, Request
  <2>3. /\ told' \in [Exports -> EndpointIds \cup {NoId}]
        /\ toldName' \in [Exports -> Names \cup {None}]
        /\ listed' \in [Exports -> EndpointIds \cup {NoId}]
    BY <1>8 DEF Delete, TypeOK
  <2> QED
    BY <1>8, <2>1, <2>2, <2>3 DEF Delete, TypeOK, disk
<1>9. CASE List
  <2>1. listed' \in [Exports -> EndpointIds \cup {NoId}]
    BY <1>9 DEF List, TypeOK, ExportRecord
  <2> QED
    BY <1>9, <2>1 DEF List, TypeOK, memory, disk
<1>10. CASE PersistConfig
  BY <1>10 DEF PersistConfig, TypeOK, observers
<1>11. CASE PersistExports
  <2>1. request \in Request
    BY <1>11 DEF PersistExports, TypeOK
  <2>5. request # None
    BY <1>11 DEF PersistExports, TypeOK
  <2>2. diskExports' \in Catalogs
    BY <1>11 DEF PersistExports, TypeOK
  <2>3. retired' \in SUBSET EndpointIds
    BY <1>11, UsedIdsType DEF PersistExports, Answer, TypeOK
  <2>4. /\ told' \in [Exports -> EndpointIds \cup {NoId}]
        /\ toldName' \in [Exports -> Names \cup {None}]
    <3>1. CASE request.kind = "delete"
      BY <1>11, <3>1 DEF PersistExports, Answer, TypeOK
    <3>2. CASE request.kind # "delete"
      <4>1. request.export \in Exports
        BY <2>1 DEF Request
      <4>2. mem[request.export] \in ExportRecord
        BY <2>5, <3>2, <4>1 DEF RequestInMemory, TypeOK
      <4>3. /\ mem[request.export].endpoint \in EndpointIds \cup {NoId}
            /\ mem[request.export].name \in Names
        BY <4>2 DEF ExportRecord
      <4> QED
        BY <1>11, <3>2, <4>3 DEF PersistExports, Answer, TypeOK
    <3> QED
      BY <3>1, <3>2
  <2> QED
    BY <1>11, <2>2, <2>3, <2>4 DEF PersistExports, Answer, TypeOK
<1>12. CASE PersistFails
  BY <1>12 DEF PersistFails, TypeOK, disk, observers
<1>13. CASE Crash
  BY <1>13, MaxIdAssumption DEF Crash, TypeOK, Empty, disk, observers
<1>14. CASE UNCHANGED vars
  BY <1>14 DEF vars, TypeOK
<1> QED
  BY <1>1, <1>2, <1>3, <1>4, <1>5, <1>6, <1>7, <1>8, <1>9, <1>10, <1>11, <1>12,
     <1>13, <1>14 DEF Next

LEMMA RequestStep == TypeInv /\ [Next]_vars => RequestInMemory'
<1> SUFFICES ASSUME TypeOK, RequestInMemory, [Next]_vars PROVE RequestInMemory'
  BY DEF TypeInv
<1> USE DEF RequestInMemory
<1>1. CASE UNCHANGED <<mem, request>>
  BY <1>1
<1>2. CASE request' = None
  BY <1>2
<1>3. CASE AssignMissing
  <2>1. request = None
    BY <1>3 DEF AssignMissing, TypeOK
  <2> QED
    BY <1>3, <2>1 DEF AssignMissing
<1>4. ASSUME NEW e \in Exports, NEW name \in Names, Create(e, name) \/ Patch(e, name)
      PROVE  RequestInMemory'
  <2>1. request'.export = e
    BY <1>4 DEF Create, Patch
  <2>2. mem'[e] \in ExportRecord
    BY <1>4 DEF Create, Patch, TypeOK, ExportRecord
  <2> QED
    BY <2>1, <2>2, NoneAssumption
<1>5. ASSUME NEW e \in Exports, NEW name \in Names, PatchBadPrimary(e, name)
      PROVE  RequestInMemory'
  BY <1>5 DEF PatchBadPrimary, TypeOK
<1>6. ASSUME NEW e \in Exports, Delete(e)
      PROVE  RequestInMemory'
  BY <1>6 DEF Delete
<1>7. CASE Load \/ LoadFails
  BY <1>7 DEF Load, LoadFails, TypeOK
<1>8. CASE Start \/ List \/ PersistConfig
  BY <1>1, <1>8 DEF Start, List, PersistConfig, memory
<1>9. CASE PersistExports \/ PersistFails \/ Crash
  BY <1>2, <1>9 DEF PersistExports, Answer, PersistFails, Crash
<1> QED
  BY <1>1, <1>3, <1>4, <1>5, <1>6, <1>7, <1>8, <1>9 DEF Next, vars

\* Every variable keeps its type in every run; in particular the allocator
\* never takes the counter out of the u16 range.
THEOREM TypeCorrect == Spec => []TypeOK
<1>1. Init => TypeInv
  BY TypeInit
<1>2. TypeInv /\ [Next]_vars => TypeInv'
  BY TypeStep, RequestStep DEF TypeInv
<1>3. TypeInv => TypeOK
  BY DEF TypeInv
<1> QED
  BY <1>1, <1>2, <1>3, PTL DEF Spec

\* The type invariant with its strengthening, for the theorems below.
LEMMA TypeInvariant == Spec => []TypeInv
<1>1. Init => TypeInv
  BY TypeInit
<1>2. TypeInv /\ [Next]_vars => TypeInv'
  BY TypeStep, RequestStep DEF TypeInv
<1> QED
  BY <1>1, <1>2, PTL DEF Spec

-----------------------------------------------------------------------------
(* Endpoint ids are unique *)

\* One export given an id that is not in use leaves the ids distinct.
LEMMA DistinctAssign ==
    ASSUME NEW catalog \in Catalogs, DistinctIds(catalog),
           NEW e \in Exports, NEW record \in ExportRecord,
           record.endpoint # NoId, record.endpoint \notin UsedIds(catalog)
    PROVE  DistinctIds([catalog EXCEPT ![e] = record])
<1> DEFINE new == [catalog EXCEPT ![e] = record]
<1> SUFFICES ASSUME NEW f \in Exports, NEW g \in Exports, f # g,
                    new[f] # None, new[g] # None, new[f].endpoint # NoId
             PROVE  new[f].endpoint # new[g].endpoint
  BY DEF DistinctIds
<1>1. new[e] = record /\ \A x \in Exports : x # e => new[x] = catalog[x]
  BY DEF Catalogs
<1>2. CASE f = e
  <2>1. CASE catalog[g].endpoint = NoId
    BY <1>1, <1>2, <2>1
  <2>2. CASE catalog[g].endpoint # NoId
    BY <1>1, <1>2, <2>2, UsedIdsMember
  <2> QED
    BY <2>1, <2>2
<1>3. CASE g = e
  BY <1>1, <1>3, UsedIdsMember
<1>4. CASE f # e /\ g # e
  BY <1>1, <1>4 DEF DistinctIds
<1> QED
  BY <1>2, <1>3, <1>4

\* So does a name that changes.
LEMMA DistinctRename ==
    ASSUME NEW catalog \in Catalogs, DistinctIds(catalog),
           NEW e \in Exports, catalog[e] # None, NEW name \in Names
    PROVE  DistinctIds([catalog EXCEPT ![e].name = name])
<1>1. catalog[e] \in ExportRecord
  BY DEF Catalogs
<1>2. \A x \in Exports :
         /\ catalog[x] = None => [catalog EXCEPT ![e].name = name][x] = None
         /\ [catalog EXCEPT ![e].name = name][x].endpoint = catalog[x].endpoint
            \/ catalog[x] = None
  BY <1>1 DEF Catalogs, ExportRecord
<1> QED
  BY <1>2 DEF DistinctIds

LEMMA UniqueStep == TypeInv /\ UniqueEndpoints /\ [Next]_vars => UniqueEndpoints'
<1> SUFFICES ASSUME TypeOK, UniqueEndpoints, [Next]_vars PROVE UniqueEndpoints'
  BY DEF TypeInv
<1>0. mem \in Catalogs /\ diskExports \in Catalogs
  BY DEF TypeOK, Catalogs
<1> USE DEF UniqueEndpoints
<1>1. CASE UNCHANGED <<mem, diskExports>>
  BY <1>1
<1>2. CASE Load
  BY <1>2 DEF Load, disk
<1>3. CASE AssignMissing
  <2>1. PICK e \in Unassigned, id \in EndpointIds :
            /\ Allocates(mem, next, id)
            /\ mem' = [mem EXCEPT ![e].endpoint = id]
    BY <1>3 DEF AssignMissing
  <2>2. e \in Exports /\ mem[e] \in ExportRecord
    BY <2>1 DEF Unassigned, TypeOK
  <2> DEFINE record == [mem[e] EXCEPT !.endpoint = id]
  <2>3. record \in ExportRecord /\ record.endpoint = id
    BY <2>2 DEF ExportRecord
  <2>4. id # NoId /\ id \notin UsedIds(mem)
    BY <2>1 DEF Allocates, EndpointIds, NoId
  <2>5. mem' = [mem EXCEPT ![e] = record]
    BY <2>1
  <2> HIDE DEF record
  <2>6. DistinctIds(mem')
    BY <1>0, <2>2, <2>3, <2>4, <2>5, DistinctAssign
  <2> QED
    BY <1>3, <2>6 DEF AssignMissing, disk
<1>4. ASSUME NEW e \in Exports, NEW name \in Names, Create(e, name)
      PROVE  UniqueEndpoints'
  <2>1. PICK id \in EndpointIds :
            /\ Allocates(mem, next, id)
            /\ mem' = [mem EXCEPT ![e] = [endpoint |-> id, name |-> name]]
    BY <1>4 DEF Create
  <2> DEFINE record == [endpoint |-> id, name |-> name]
  <2>2. record \in ExportRecord /\ record.endpoint = id
    BY DEF ExportRecord
  <2>3. id # NoId /\ id \notin UsedIds(mem)
    BY <2>1 DEF Allocates, EndpointIds, NoId
  <2>4. mem' = [mem EXCEPT ![e] = record]
    BY <2>1
  <2> HIDE DEF record
  <2>5. DistinctIds(mem')
    BY <1>0, <2>2, <2>3, <2>4, DistinctAssign
  <2> QED
    BY <1>4, <2>5 DEF Create, disk
<1>5. ASSUME NEW e \in Exports, NEW name \in Names, Patch(e, name) \/ PatchBadPrimary(e, name)
      PROVE  UniqueEndpoints'
  <2>1. mem[e] # None /\ mem' = [mem EXCEPT ![e].name = name] /\ diskExports' = diskExports
    BY <1>5 DEF Patch, PatchBadPrimary, disk
  <2> QED
    BY <1>0, <2>1, DistinctRename
<1>6. ASSUME NEW e \in Exports, Delete(e)
      PROVE  UniqueEndpoints'
  <2>1. mem' = [mem EXCEPT ![e] = None] /\ diskExports' = diskExports
    BY <1>6 DEF Delete, disk
  <2> QED
    BY <1>0, <2>1 DEF DistinctIds, Catalogs
<1>7. CASE LoadFails \/ Crash
  BY <1>7 DEF LoadFails, Crash, Empty, DistinctIds, disk
<1>8. CASE PersistExports
  BY <1>8 DEF PersistExports, Answer
<1>9. CASE Start \/ List \/ PersistConfig \/ PersistFails
  BY <1>1, <1>9 DEF Start, List, PersistConfig, PersistFails, memory, disk
<1> QED
  BY <1>1, <1>2, <1>3, <1>4, <1>5, <1>6, <1>7, <1>8, <1>9 DEF Next, vars

\* Two exports never share an endpoint id, in memory or in exports.json.
THEOREM Uniqueness == Spec => []UniqueEndpoints
<1>1. Init => UniqueEndpoints
  BY DEF Init, UniqueEndpoints, DistinctIds, Empty, NoId
<1>2. TypeInv /\ UniqueEndpoints /\ [Next]_vars => UniqueEndpoints'
  BY UniqueStep
<1> QED
  BY <1>1, <1>2, TypeInvariant, PTL DEF Spec

-----------------------------------------------------------------------------
(* Exports are served with an id *)

LEMMA AssignedStep == TypeInv /\ AllAssigned /\ [Next]_vars => AllAssigned'
<1> SUFFICES ASSUME TypeOK, AllAssigned, [Next]_vars PROVE AllAssigned'
  BY DEF TypeInv
<1> USE DEF AllAssigned
<1>1. CASE UNCHANGED <<phase, mem>>
  BY <1>1
<1>2. CASE phase' \in {"down", "loading"}
  BY <1>2
<1>3. CASE Start
  BY <1>3 DEF Start, Unassigned
<1>4. ASSUME NEW e \in Exports, NEW name \in Names, Create(e, name)
      PROVE  AllAssigned'
  <2>1. PICK id \in EndpointIds : mem' = [mem EXCEPT ![e] = [endpoint |-> id, name |-> name]]
    BY <1>4 DEF Create
  <2> QED
    BY <1>4, <2>1 DEF Create, TypeOK, EndpointIds, NoId
<1>5. ASSUME NEW e \in Exports, NEW name \in Names, Patch(e, name) \/ PatchBadPrimary(e, name)
      PROVE  AllAssigned'
  <2>1. phase = "serving" /\ mem[e] \in ExportRecord /\ mem' = [mem EXCEPT ![e].name = name]
    BY <1>5 DEF Patch, PatchBadPrimary, TypeOK
  <2>2. mem'[e].endpoint = mem[e].endpoint
    BY <2>1 DEF TypeOK, ExportRecord
  <2>3. \A x \in Exports : x # e => mem'[x] = mem[x]
    BY <2>1 DEF TypeOK
  <2> QED
    BY <2>1, <2>2, <2>3, NoneAssumption
<1>6. ASSUME NEW e \in Exports, Delete(e)
      PROVE  AllAssigned'
  BY <1>6 DEF Delete, TypeOK
<1>7. CASE Load \/ AssignMissing \/ LoadFails \/ Crash
  BY <1>2, <1>7 DEF Load, AssignMissing, LoadFails, Crash
<1>8. CASE List \/ PersistConfig \/ PersistExports \/ PersistFails
  BY <1>8 DEF List, PersistConfig, PersistExports, Answer, PersistFails, memory
<1> QED
  BY <1>1, <1>3, <1>4, <1>5, <1>6, <1>7, <1>8 DEF Next, vars

\* While the bridge serves, no export is without an endpoint id.
THEOREM Assigned == Spec => []AllAssigned
<1>1. Init => AllAssigned
  BY DEF Init, AllAssigned
<1>2. TypeInv /\ AllAssigned /\ [Next]_vars => AllAssigned'
  BY AssignedStep
<1> QED
  BY <1>1, <1>2, TypeInvariant, PTL DEF Spec

-----------------------------------------------------------------------------
(* Answers last *)

\* What was answered is in memory too, unless it was asked to change: the next
\* request saves the whole of memory.
AckedInMemory ==
    phase # "down" =>
        \A e \in Exports :
            told[e] # NoId /\ toldName[e] # None => mem[e].name = toldName[e]

AckedInv == AckedDurable /\ AckedInMemory

LEMMA AckedStep == TypeInv /\ AckedInv /\ [Next]_vars => AckedInv'
<1> SUFFICES ASSUME TypeOK, RequestInMemory, AckedInv, [Next]_vars PROVE AckedInv'
  BY DEF TypeInv
<1> USE DEF AckedInv, AckedDurable, AckedInMemory
<1>1. CASE UNCHANGED <<phase, mem, diskExports, told, toldName>>
  BY <1>1
<1>2. CASE Load
  BY <1>2 DEF Load, disk, observers
<1>3. CASE AssignMissing
  <2>1. PICK e \in Unassigned, id \in EndpointIds : mem' = [mem EXCEPT ![e].endpoint = id]
    BY <1>3 DEF AssignMissing
  <2>2. UNCHANGED <<phase, diskExports, told, toldName>>
    BY <1>3 DEF AssignMissing, disk
  <2>3. phase # "down"
    BY <1>3 DEF AssignMissing
  <2>4. told[e] = NoId
    BY <2>1, <2>3 DEF Unassigned
  <2>5. \A x \in Exports : x # e => mem'[x] = mem[x]
    BY <2>1 DEF TypeOK
  <2> QED
    BY <2>2, <2>3, <2>4, <2>5
<1>4. ASSUME NEW e \in Exports, NEW name \in Names, Create(e, name)
      PROVE  AckedInv'
  <2>1. phase = "serving" /\ mem[e] = None /\ UNCHANGED <<diskExports, told, toldName>>
    BY <1>4 DEF Create, disk
  <2>2. \A x \in Exports : x # e => mem'[x] = mem[x]
    BY <1>4 DEF Create, TypeOK
  <2>3. told[e] = NoId
    BY <2>1
  <2> QED
    BY <2>1, <2>2, <2>3
<1>5. ASSUME NEW e \in Exports, NEW name \in Names, Patch(e, name) \/ PatchBadPrimary(e, name)
      PROVE  AckedInv'
  <2>1. /\ phase = "serving"
        /\ mem[e] \in ExportRecord
        /\ mem' = [mem EXCEPT ![e].name = name]
        /\ toldName' = [toldName EXCEPT ![e] = None]
        /\ UNCHANGED <<diskExports, told>>
    BY <1>5 DEF Patch, PatchBadPrimary, TypeOK, disk
  <2>2. mem'[e] # None /\ mem'[e].endpoint = mem[e].endpoint
    BY <2>1, NoneAssumption DEF TypeOK, ExportRecord
  <2>3. \A x \in Exports : x # e => mem'[x] = mem[x] /\ toldName'[x] = toldName[x]
    BY <2>1 DEF TypeOK
  <2>4. toldName'[e] = None
    BY <2>1 DEF TypeOK
  <2> QED
    BY <2>1, <2>2, <2>3, <2>4
<1>6. ASSUME NEW e \in Exports, Delete(e)
      PROVE  AckedInv'
  <2>1. phase = "serving" /\ UNCHANGED diskExports
    BY <1>6 DEF Delete, disk
  <2>2. \A x \in Exports : x # e => mem'[x] = mem[x] /\ told'[x] = told[x] /\ toldName'[x] = toldName[x]
    BY <1>6 DEF Delete, TypeOK
  <2>3. told'[e] = NoId
    BY <1>6 DEF Delete, TypeOK
  <2> QED
    BY <2>1, <2>2, <2>3
<1>7. CASE LoadFails \/ Crash
  BY <1>7 DEF LoadFails, Crash, disk, observers
<1>8. CASE PersistExports
  <2>1. /\ phase = "exports"
        /\ request \in Request
        /\ request # None
        /\ mem' = mem
        /\ diskExports' = mem
    BY <1>8 DEF PersistExports, Answer, TypeOK
  <2>2. CASE request.kind = "delete"
    BY <1>8, <2>1, <2>2 DEF PersistExports, Answer
  <2>3. CASE request.kind # "delete"
    <3> DEFINE e == request.export
    <3>1. e \in Exports /\ mem[e] # None
      BY <2>1, <2>3 DEF Request, RequestInMemory
    <3>2. told'[e] = mem[e].endpoint /\ toldName'[e] = mem[e].name
      BY <1>8, <2>3, <3>1 DEF PersistExports, Answer, TypeOK
    <3>3. \A x \in Exports : x # e => told'[x] = told[x] /\ toldName'[x] = toldName[x]
      BY <1>8, <2>3, <3>1 DEF PersistExports, Answer, TypeOK
    <3> QED
      BY <2>1, <3>1, <3>2, <3>3
  <2> QED
    BY <2>2, <2>3
<1>9. CASE Start \/ List \/ PersistConfig \/ PersistFails
  BY <1>9 DEF Start, List, PersistConfig, PersistFails, memory, disk, observers
<1> QED
  BY <1>1, <1>2, <1>3, <1>4, <1>5, <1>6, <1>7, <1>8, <1>9 DEF Next, vars

\* What a 2xx answer said of an export is on disk, and in memory, until a later
\* request changes it: no error of another request and no crash undoes it.
THEOREM Durability == Spec => []AckedDurable
<1>1. Init => AckedInv
  BY DEF Init, AckedInv, AckedDurable, AckedInMemory
<1>2. TypeInv /\ AckedInv /\ [Next]_vars => AckedInv'
  BY AckedStep
<1>3. AckedInv => AckedDurable
  BY DEF AckedInv
<1> QED
  BY <1>1, <1>2, <1>3, TypeInvariant, PTL DEF Spec

-----------------------------------------------------------------------------
(* Ids of deleted exports stay free until the counter wraps *)

\* What the ids in use become when one export is given a record.
LEMMA UsedIdsAssign ==
    ASSUME NEW catalog \in Catalogs, NEW e \in Exports, NEW record \in ExportRecord
    PROVE  UsedIds([catalog EXCEPT ![e] = record]) \subseteq UsedIds(catalog) \cup {record.endpoint}
BY DEF UsedIds, Catalogs

\* None appears when a record goes or keeps its id.
LEMMA UsedIdsKeep ==
    ASSUME NEW catalog \in Catalogs, NEW e \in Exports, NEW record \in ExportRecord \cup {None},
           \/ record = None
           \/ catalog[e] # None /\ record.endpoint = catalog[e].endpoint
    PROVE  UsedIds([catalog EXCEPT ![e] = record]) \subseteq UsedIds(catalog)
BY DEF UsedIds, Catalogs

\* A free counter value is what the scan finds first.
LEMMA AllocatesCounter ==
    ASSUME NEW catalog, NEW counter \in EndpointIds, counter \notin UsedIds(catalog),
           NEW id \in EndpointIds, Allocates(catalog, counter, id)
    PROVE  id = counter
<1>1. ScanDistance(counter, id) <= ScanDistance(counter, counter)
  BY DEF Allocates
<1>2. ScanDistance(counter, counter) = 0
  BY DEF ScanDistance, EndpointIds
<1>3. CASE id >= counter
  BY <1>1, <1>2, <1>3 DEF ScanDistance, EndpointIds
<1>4. CASE id < counter
  <2>1. ScanDistance(counter, id) = id - counter + MaxId
    BY <1>4 DEF ScanDistance, EndpointIds
  <2> QED
    BY <1>1, <1>2, <2>1, MaxIdAssumption DEF EndpointIds
<1> QED
  BY <1>3, <1>4 DEF EndpointIds

\* The counter goes up by one unless it wraps.
LEMMA CounterAfterSucc ==
    ASSUME NEW id \in EndpointIds, CounterAfter(id) # 0
    PROVE  CounterAfter(id) = id + 1
BY MaxIdAssumption DEF CounterAfter, EndpointIds

\* Until the counter wraps it is above every id in use or retired; in the file
\* it is above those of exports.json, for it is saved first.
CounterInv ==
    ~wrapped =>
        /\ diskNext # 0
        /\ \A id \in UsedIds(diskExports) \cup retired : id < diskNext
        /\ phase # "down" => diskNext <= next
        /\ phase # "down" => \A id \in UsedIds(mem) : id < next
        /\ phase = "exports" => diskNext = next
        /\ retired \cap (UsedIds(mem) \cup UsedIds(diskExports)) = {}

\* An id is allocated.
LEMMA CounterAllocates ==
    ASSUME TypeOK, CounterInv, phase # "down", ~wrapped,
           NEW e \in Exports, NEW id \in EndpointIds, NEW record \in ExportRecord,
           record.endpoint = id,
           Allocates(mem, next, id), CounterAfter(id) # 0
    PROVE  LET new == [mem EXCEPT ![e] = record]
           IN  /\ diskNext <= CounterAfter(id)
               /\ \A x \in UsedIds(new) : x < CounterAfter(id)
               /\ retired \cap UsedIds(new) = {}
<1>1. mem \in Catalogs
  BY DEF TypeOK, Catalogs
<1>2. UsedIds(mem) \subseteq EndpointIds /\ UsedIds(diskExports) \subseteq EndpointIds
  BY <1>1, UsedIdsType DEF TypeOK, Catalogs
<1>3. next \in EndpointIds /\ diskNext \in EndpointIds
  BY MaxIdAssumption DEF CounterInv, TypeOK, EndpointIds
<1>4. next \notin UsedIds(mem)
  BY <1>3 DEF CounterInv, EndpointIds
<1>5. id = next
  BY <1>3, <1>4, AllocatesCounter
<1>6. CounterAfter(id) = id + 1
  BY CounterAfterSucc
<1>7. UsedIds([mem EXCEPT ![e] = record]) \subseteq UsedIds(mem) \cup {id}
  BY <1>1, UsedIdsAssign
<1>8. \A x \in retired : x \in EndpointIds /\ x < id
  BY <1>3, <1>5 DEF CounterInv, TypeOK, EndpointIds
<1>9. diskNext <= CounterAfter(id)
  BY <1>3, <1>5, <1>6 DEF CounterInv, EndpointIds
<1>10. \A x \in UsedIds([mem EXCEPT ![e] = record]) : x < CounterAfter(id)
  BY <1>2, <1>3, <1>5, <1>6, <1>7 DEF CounterInv, EndpointIds
<1>11. id \notin retired
  BY <1>8 DEF EndpointIds
<1>12. retired \cap UsedIds([mem EXCEPT ![e] = record]) = {}
  BY <1>7, <1>11 DEF CounterInv
<1> QED
  BY <1>9, <1>10, <1>12

LEMMA CounterStep == TypeInv /\ CounterInv /\ [Next]_vars => CounterInv'
<1> SUFFICES ASSUME TypeOK, CounterInv, [Next]_vars, ~wrapped' PROVE CounterInv'
  BY DEF TypeInv, CounterInv
<1>0. mem \in Catalogs /\ diskExports \in Catalogs
  BY DEF TypeOK, Catalogs
<1>a. UsedIds(mem) \subseteq EndpointIds /\ UsedIds(diskExports) \subseteq EndpointIds
  BY <1>0, UsedIdsType
<1>b. next \in 0 .. MaxId /\ diskNext \in 0 .. MaxId
  BY DEF TypeOK
<1>1. CASE UNCHANGED <<phase, mem, next, diskNext, diskExports, retired, wrapped>>
  BY <1>1 DEF CounterInv, UsedIds
<1>2. CASE Load
  <2>1. next' \in Int /\ diskNext <= next' /\ mem' = diskExports
    BY <1>2, <1>0, <1>b, CounterBoundsType DEF Load, CounterBounds
  <2>2. UNCHANGED <<diskNext, diskExports, retired, wrapped>>
    BY <1>2 DEF Load, disk, observers
  <2>3. phase' = "loading"
    BY <1>2 DEF Load
  <2>4. UsedIds(mem') = UsedIds(diskExports) /\ UsedIds(diskExports)' = UsedIds(diskExports)
    BY <2>1, <2>2 DEF UsedIds
  <2>5. \A id \in UsedIds(diskExports) : id < next'
    BY <1>a, <1>b, <2>1, <2>2 DEF CounterInv, EndpointIds
  <2> QED
    BY <2>1, <2>2, <2>3, <2>4, <2>5 DEF CounterInv
<1>3. CASE AssignMissing
  <2>1. PICK e \in Unassigned, id \in EndpointIds :
            /\ Allocates(mem, next, id)
            /\ mem' = [mem EXCEPT ![e].endpoint = id]
            /\ next' = CounterAfter(id)
            /\ NoteWrap(CounterAfter(id))
    BY <1>3 DEF AssignMissing
  <2>2. e \in Exports /\ mem[e] \in ExportRecord
    BY <2>1 DEF Unassigned, TypeOK
  <2> DEFINE record == [mem[e] EXCEPT !.endpoint = id]
  <2>3. record \in ExportRecord /\ record.endpoint = id
    BY <2>2 DEF ExportRecord
  <2>4. mem' = [mem EXCEPT ![e] = record]
    BY <2>1
  <2>5. ~wrapped /\ CounterAfter(id) # 0
    BY <2>1 DEF NoteWrap
  <2>6. phase = "loading" /\ UNCHANGED <<phase, diskNext, diskExports, retired>>
    BY <1>3 DEF AssignMissing, disk
  <2> HIDE DEF record
  <2>7. /\ diskNext <= next'
        /\ \A x \in UsedIds(mem') : x < next'
        /\ retired \cap UsedIds(mem') = {}
    BY <2>1, <2>2, <2>3, <2>4, <2>5, <2>6, CounterAllocates
  <2> QED
    BY <2>5, <2>6, <2>7 DEF CounterInv, UsedIds
<1>4. ASSUME NEW e \in Exports, NEW name \in Names, Create(e, name)
      PROVE  CounterInv'
  <2>1. PICK id \in EndpointIds :
            /\ Allocates(mem, next, id)
            /\ mem' = [mem EXCEPT ![e] = [endpoint |-> id, name |-> name]]
            /\ next' = CounterAfter(id)
            /\ NoteWrap(CounterAfter(id))
    BY <1>4 DEF Create
  <2> DEFINE record == [endpoint |-> id, name |-> name]
  <2>2. record \in ExportRecord /\ record.endpoint = id
    BY DEF ExportRecord
  <2>3. mem' = [mem EXCEPT ![e] = record]
    BY <2>1
  <2>4. ~wrapped /\ CounterAfter(id) # 0
    BY <2>1 DEF NoteWrap
  <2>5. phase = "serving" /\ phase' = "config" /\ UNCHANGED <<diskNext, diskExports, retired>>
    BY <1>4 DEF Create, disk
  <2> HIDE DEF record
  <2>6. /\ diskNext <= next'
        /\ \A x \in UsedIds(mem') : x < next'
        /\ retired \cap UsedIds(mem') = {}
    BY <2>1, <2>2, <2>3, <2>4, <2>5, CounterAllocates
  <2> QED
    BY <2>4, <2>5, <2>6 DEF CounterInv, UsedIds
<1>5. ASSUME UsedIds(mem') \subseteq UsedIds(mem), phase = "serving", phase' \in {"serving", "config"},
             UNCHANGED <<next, diskNext, diskExports, retired, wrapped>>
      PROVE  CounterInv'
  BY <1>5 DEF CounterInv, UsedIds
<1>6. ASSUME NEW e \in Exports, NEW name \in Names, Patch(e, name) \/ PatchBadPrimary(e, name)
      PROVE  CounterInv'
  <2> DEFINE record == [mem[e] EXCEPT !.name = name]
  <2>1. mem[e] # None /\ mem[e] \in ExportRecord
    BY <1>6 DEF Patch, PatchBadPrimary, TypeOK
  <2>2. record \in ExportRecord /\ record.endpoint = mem[e].endpoint
    BY <2>1 DEF ExportRecord
  <2>3. mem' = [mem EXCEPT ![e] = record]
    BY <1>6 DEF Patch, PatchBadPrimary
  <2> HIDE DEF record
  <2>4. UsedIds(mem') \subseteq UsedIds(mem)
    BY <1>0, <2>1, <2>2, <2>3, UsedIdsKeep
  <2> QED
    BY <1>5, <1>6, <2>4 DEF Patch, PatchBadPrimary, disk
<1>7. ASSUME NEW e \in Exports, Delete(e)
      PROVE  CounterInv'
  <2>1. UsedIds(mem') \subseteq UsedIds(mem)
    BY <1>0, <1>7, UsedIdsKeep DEF Delete
  <2> QED
    BY <1>5, <1>7, <2>1 DEF Delete, disk
<1>8. CASE LoadFails \/ Crash
  <2>1. UsedIds(mem') = {}
    BY <1>8 DEF LoadFails, Crash, Empty, UsedIds
  <2> QED
    BY <1>8, <2>1 DEF LoadFails, Crash, disk, observers, CounterInv, UsedIds
<1>9. CASE PersistConfig
  <2>1. next # 0
    BY <1>9, <1>b DEF PersistConfig, observers, CounterInv
  <2>2. \A id \in UsedIds(diskExports) \cup retired : id < next
    <3>1. diskNext <= next /\ \A id \in UsedIds(diskExports) \cup retired : id < diskNext
      BY <1>9 DEF PersistConfig, observers, CounterInv
    <3>2. UsedIds(diskExports) \cup retired \subseteq EndpointIds
      BY <1>a DEF TypeOK
    <3> QED
      BY <1>b, <3>1, <3>2 DEF EndpointIds
  <2> QED
    BY <1>9, <1>b, <2>1, <2>2 DEF PersistConfig, observers, CounterInv, UsedIds
<1>10. CASE PersistExports
  <2>1. /\ phase = "exports" /\ phase' = "serving"
        /\ diskExports' = mem
        /\ UNCHANGED <<mem, next, diskNext, wrapped>>
        /\ retired' = retired \cup (UsedIds(diskExports) \ UsedIds(diskExports'))
    BY <1>10 DEF PersistExports, Answer
  <2>2. UsedIds(diskExports') = UsedIds(mem) /\ UsedIds(mem)' = UsedIds(mem)
    BY <2>1 DEF UsedIds
  <2>3. UsedIds(diskExports)' = UsedIds(mem)
    BY <2>1 DEF UsedIds
  <2> QED
    BY <1>b, <2>1, <2>2, <2>3 DEF CounterInv
<1>11. CASE Start
  BY <1>11 DEF Start, disk, observers, CounterInv, UsedIds
<1>12. CASE List
  BY <1>1, <1>12 DEF List, memory, disk
<1>13. CASE PersistFails
  BY <1>13 DEF PersistFails, disk, observers, CounterInv, UsedIds
<1> QED
  BY <1>1, <1>2, <1>3, <1>4, <1>6, <1>7, <1>8, <1>9, <1>10, <1>11, <1>12, <1>13 DEF Next, vars

\* Until the counter has wrapped, no export gets the id of a deleted one, in
\* this or any later life of the process.
THEOREM NoReuse == Spec => []NoReuseBeforeWrap
<1>1. Init => CounterInv
  BY MaxIdAssumption DEF Init, CounterInv, UsedIds, Empty, NoId
<1>2. TypeInv /\ CounterInv /\ [Next]_vars => CounterInv'
  BY CounterStep
<1>3. CounterInv => NoReuseBeforeWrap
  BY DEF CounterInv, NoReuseBeforeWrap
<1> QED
  BY <1>1, <1>2, <1>3, TypeInvariant, PTL DEF Spec

-----------------------------------------------------------------------------
(* The code implements the atomic catalog.  A start that is under way is     *)
(* hidden: what it has put together so far has to agree with what is saved.  *)

held == IF phase \in {"down", "loading"} THEN None ELSE mem

\* While a start assigns the missing ids, memory has the saved exports with
\* their names and the ids they had.
LoadInv ==
    phase = "loading" =>
        \A e \in Exports :
            /\ mem[e] = None <=> diskExports[e] = None
            /\ diskExports[e] # None =>
                  /\ mem[e].name = diskExports[e].name
                  /\ diskExports[e].endpoint # NoId =>
                        mem[e].endpoint = diskExports[e].endpoint

LEMMA LoadStep == TypeInv /\ LoadInv /\ [Next]_vars => LoadInv'
<1> SUFFICES ASSUME TypeOK, LoadInv, [Next]_vars, phase' = "loading" PROVE LoadInv'
  BY DEF TypeInv, LoadInv
<1> USE DEF LoadInv
<1>1. CASE UNCHANGED <<phase, mem, diskExports>>
  BY <1>1
<1>2. CASE Load
  BY <1>2 DEF Load, disk
<1>3. CASE AssignMissing
  <2>1. PICK e \in Unassigned, id \in EndpointIds : mem' = [mem EXCEPT ![e].endpoint = id]
    BY <1>3 DEF AssignMissing
  <2>2. phase = "loading" /\ diskExports' = diskExports
    BY <1>3 DEF AssignMissing, disk
  <2>3. e \in Exports /\ mem[e] \in ExportRecord /\ mem[e].endpoint = NoId
    BY <2>1 DEF Unassigned, TypeOK
  <2>4. mem'[e] \in ExportRecord /\ mem'[e].name = mem[e].name
    BY <2>1, <2>3 DEF TypeOK, ExportRecord
  <2>5. \A x \in Exports : x # e => mem'[x] = mem[x]
    BY <2>1 DEF TypeOK
  <2> QED
    BY <2>2, <2>3, <2>4, <2>5, NoneAssumption
<1>4. CASE phase' # "loading"
  BY <1>4
<1> QED
  BY <1>1, <1>2, <1>3, <1>4 DEF Next, vars, Start, LoadFails, Create, Patch, PatchBadPrimary,
     Delete, List, memory, PersistConfig, PersistExports, Answer, PersistFails, Crash

\* Unique ids as the two modules put it.
LEMMA DistinctIsUnique ==
    ASSUME NEW catalog, DistinctIds(catalog)
    PROVE  Atomic!Unique(catalog)
BY DEF DistinctIds, Atomic!Unique, Atomic!Present

LEMMA AtomicInit == Init => Atomic!Init
<1> SUFFICES ASSUME Init PROVE Atomic!Init
  OBVIOUS
<1>1. diskExports \in Atomic!Catalogs
  BY TypeInit DEF TypeInv, TypeOK, Atomic!Catalogs, ExportRecord
<1>2. Atomic!Unique(diskExports)
  BY DEF Init, Atomic!Unique, Atomic!Present
<1> QED
  BY <1>1, <1>2 DEF Init, Atomic!Init

\* Each step of the code is a step of the atomic catalog or changes nothing of
\* what that shows.
LEMMA AtomicStep ==
    ASSUME TypeInv, UniqueEndpoints, LoadInv, [Next]_vars
    PROVE  [Atomic!Next]_<<diskExports, held>>
<1>0. /\ TypeOK
      /\ mem \in [Exports -> ExportRecord \cup {None}]
      /\ mem # None
  BY NoneAssumption DEF TypeInv, TypeOK
<1>1. CASE UNCHANGED <<diskExports, held>>
  BY <1>1
<1>2. CASE Load \/ AssignMissing \/ LoadFails
  BY <1>1, <1>2 DEF Load, AssignMissing, LoadFails, disk, held
<1>3. CASE List \/ PersistConfig \/ PersistFails
  BY <1>1, <1>3 DEF List, PersistConfig, PersistFails, memory, disk, held
<1>4. CASE Start
  <2>1. /\ held = None /\ held' = mem
        /\ UNCHANGED diskExports
    BY <1>4 DEF Start, disk, held
  <2>2. mem \in Atomic!Catalogs
    BY <1>0 DEF Atomic!Catalogs, ExportRecord
  <2>3. Atomic!Unique(mem)
    BY DistinctIsUnique DEF UniqueEndpoints
  <2>4. /\ Atomic!Present(mem) = Atomic!Present(diskExports)
        /\ \A e \in Atomic!Present(diskExports) :
              /\ mem[e].name = diskExports[e].name
              /\ diskExports[e].endpoint # NoId => mem[e].endpoint = diskExports[e].endpoint
    BY <1>4 DEF Start, LoadInv, Atomic!Present
  <2>5. NoId \notin {mem[e].endpoint : e \in Atomic!Present(mem)}
    BY <1>4 DEF Start, Unassigned, Atomic!Present
  <2>6. Atomic!Open
    BY <2>1, <2>2, <2>3, <2>4, <2>5 DEF Atomic!Open, held
  <2> QED
    BY <2>6 DEF Atomic!Next
<1>5. ASSUME NEW e \in Exports, NEW name \in Names, Create(e, name)
      PROVE  Atomic!Next
  <2>1. PICK id \in EndpointIds :
            /\ id \notin UsedIds(mem)
            /\ mem' = [mem EXCEPT ![e] = [endpoint |-> id, name |-> name]]
    BY <1>5 DEF Create, Allocates
  <2>2. held = mem /\ held' = mem' /\ UNCHANGED diskExports /\ mem[e] = None
    BY <1>5 DEF Create, disk, held
  <2>3. UsedIds(mem) = Atomic!Ids(mem)
    BY DEF UsedIds, Atomic!Ids, Atomic!Present
  <2>4. Atomic!Add(e, id, name)
    BY <1>0, <2>1, <2>2, <2>3 DEF Atomic!Add, held
  <2> QED
    BY <2>4 DEF Atomic!Next
<1>6. ASSUME NEW e \in Exports, NEW name \in Names, Patch(e, name) \/ PatchBadPrimary(e, name)
      PROVE  Atomic!Next
  <2>1. /\ held = mem /\ held' = mem' /\ UNCHANGED diskExports
        /\ mem[e] # None
        /\ mem' = [mem EXCEPT ![e].name = name]
    BY <1>6 DEF Patch, PatchBadPrimary, disk, held
  <2>2. Atomic!Rename(e, name)
    BY <1>0, <2>1 DEF Atomic!Rename, held
  <2> QED
    BY <2>2 DEF Atomic!Next
<1>7. ASSUME NEW e \in Exports, Delete(e)
      PROVE  Atomic!Next
  <2>1. held = mem /\ held' = mem' /\ UNCHANGED diskExports /\ mem' = [mem EXCEPT ![e] = None]
    BY <1>7 DEF Delete, disk, held
  <2>2. Atomic!Remove(e)
    BY <1>0, <2>1 DEF Atomic!Remove, held
  <2> QED
    BY <2>2 DEF Atomic!Next
<1>8. CASE PersistExports
  <2>1. held = mem /\ held' = mem /\ diskExports' = mem
    BY <1>8 DEF PersistExports, Answer, held
  <2>2. Atomic!Save
    BY <1>0, <2>1 DEF Atomic!Save, held
  <2> QED
    BY <2>2 DEF Atomic!Next
<1>9. CASE Crash
  <2>1. Atomic!Close
    BY <1>9 DEF Crash, disk, Atomic!Close, held
  <2> QED
    BY <2>1 DEF Atomic!Next
<1>10. CASE UNCHANGED vars
  BY <1>1, <1>10 DEF vars, held
<1> QED
  BY <1>2, <1>3, <1>4, <1>5, <1>6, <1>7, <1>8, <1>9, <1>10 DEF Next

\* The catalog with its counter, its two files and its crashes implements the
\* atomic one.
THEOREM Implements == Spec => ImplementsAtomic
<1>1. Init => Atomic!Init /\ LoadInv
  BY AtomicInit DEF Init, LoadInv
<1>2. TypeInv /\ LoadInv /\ [Next]_vars => LoadInv'
  BY LoadStep
<1>3. TypeInv /\ UniqueEndpoints /\ LoadInv /\ [Next]_vars
        => [Atomic!Next]_<<diskExports, held>>
  BY AtomicStep
<1> QED
  BY <1>1, <1>2, <1>3, TypeInvariant, Uniqueness, PTL
     DEF Spec, ImplementsAtomic, Atomic!Spec, held
=============================================================================
