------------------------- MODULE CatalogSync_proofs -------------------------
(***************************************************************************)
(* Theorems about CatalogSync, for any number of exports, users, changes    *)
(* and failures.                                                            *)
(***************************************************************************)
EXTENDS CatalogSync, TLAPS

-----------------------------------------------------------------------------
(* The inductive invariant *)

\* A request for an export with what that may hold.
Fitting(r) == r \in Requests /\ (r.do # "delete" => r.data \in DataOf[r.export])

\* What a request is after is what Home Assistant has.
Aimed(r) == ha[r.export] = IF r.do = "delete" THEN None ELSE r.data

TaskStates ==
    [at : {"idle", "begin", "saving", "failed"}]
    \cup [at : {"poll"}, was : BOOLEAN]
    \cup [at : {"list"}, local : Catalogs, edition : 0 .. edits]
    \cup [at : {"sync"}, todo : SUBSET Requests, edition : 0 .. edits]

TypeInv ==
    /\ TypeOK
    /\ listed \in BOOLEAN /\ disturbed \in BOOLEAN /\ masked \in BOOLEAN
    /\ task \in [Tasks -> TaskStates]
    /\ \A t \in Tasks : task[t].at = "sync" => \A r \in task[t].todo : Fitting(r)
    /\ \A d \in delayed : Fitting(d.request)

\* A synchronization of the present catalog works for it, and has listed the
\* bridge's before its first request.
Aims ==
    /\ \A t \in Tasks : task[t].at = "list" /\ task[t].edition = edits => task[t].local = ha
    /\ \A t \in Tasks : task[t].at = "sync" /\ task[t].edition = edits =>
          listed /\ \A r \in task[t].todo : Aimed(r)
    /\ \A d \in delayed : d.edition = edits => Aimed(d.request)

\* The bridge has e as it should be, or a request ahead would be accepted and
\* make it so.
Covered(e, todo) ==
    \/ bridge[e] = ha[e]
    \/ \E r \in todo : r.export = e /\ Accepts(bridge, r) /\ Executed(bridge, r)[e] = ha[e]

\* Unless an older one or a restart interferes, it has a request ahead for every difference.
Covers ==
    \A t \in Tasks : task[t].at = "sync" /\ task[t].edition = edits /\ ~disturbed =>
        \A e \in Exports : Covered(e, task[t].todo)

\* A task that will synchronize the present catalog or take the flag down.
Current(t) ==
    \/ task[t].at \in {"begin", "saving", "failed"}
    \/ task[t].at \in {"list", "sync"} /\ task[t].edition = edits

\* NoSilentDivergence, and that no catalog stays unlisted; a synchronization of an
\* older catalog is no excuse.
Minded ==
    ha # bridge \/ ~listed => (\E t \in Tasks : Current(t)) \/ ~connected \/ disturbed \/ masked

IInv == TypeInv /\ Aims /\ Covers /\ Minded

-----------------------------------------------------------------------------
(* Requests *)

LEMMA RequestShape ==
    ASSUME NEW r \in Requests
    PROVE  /\ r.do \in {"create", "delete", "patch"} /\ r.export \in Exports
           /\ r.do = "patch" => r.fields \subseteq Fields
BY DEF Requests

LEMMA CatalogEntry ==
    ASSUME NEW c \in Catalogs, NEW e \in Exports
    PROVE  /\ c[e] \in DataOf[e] \cup {None}
           /\ c \in [Exports -> Data \cup {None}]
BY DEF Catalogs

LEMMA NotNone == \A e \in Exports : \A data \in DataOf[e] : data # None /\ data \in Data
BY NoneAssumption DEF Data

LEMMA CatalogExcept ==
    ASSUME NEW c \in Catalogs, NEW e \in Exports, NEW data \in DataOf[e] \cup {None}
    PROVE  [c EXCEPT ![e] = data] \in Catalogs
BY NotNone DEF Catalogs

\* What a request does to a catalog.
LEMMA Effect ==
    ASSUME NEW c \in Catalogs, NEW r, Fitting(r)
    PROVE  /\ Executed(c, r) \in Catalogs
           /\ \A e \in Exports : e # r.export => Executed(c, r)[e] = c[e]
           /\ ~Accepts(c, r) => Executed(c, r) = c
           /\ Accepts(c, r) /\ r.do = "create" => Executed(c, r)[r.export] = r.data
           /\ Accepts(c, r) /\ r.do = "delete" => Executed(c, r)[r.export] = None
           /\ Accepts(c, r) /\ r.do = "patch" =>
                 Executed(c, r)[r.export] = Patched(c[r.export], r.data, r.fields)
<1> DEFINE e == r.export
<1>1. /\ r \in Requests /\ r.do \in {"create", "delete", "patch"} /\ e \in Exports
      /\ r.do = "patch" => r.fields \subseteq Fields
      /\ r.do # "delete" => r.data \in DataOf[e]
  BY RequestShape DEF Fitting
<1>2. c[e] \in DataOf[e] \cup {None} /\ c \in [Exports -> Data \cup {None}]
  BY <1>1, CatalogEntry
<1>3. CASE ~Accepts(c, r)
  BY <1>3 DEF Executed
<1>4. CASE Accepts(c, r)
  <2>1. (c[e] = None) <=> (r.do = "create")
    BY <1>4 DEF Accepts
  <2>2. PICK data : data = CASE r.do = "create" -> r.data
                             [] r.do = "delete" -> None
                             [] OTHER -> Patched(c[e], r.data, r.fields)
    OBVIOUS
  <2>3. Executed(c, r) = [c EXCEPT ![e] = data]
    BY <1>4, <2>2 DEF Executed
  <2>4. /\ r.do = "create" => data = r.data
        /\ r.do = "delete" => data = None
        /\ r.do = "patch" => data = Patched(c[e], r.data, r.fields)
    <3>1. CASE r.do = "create"
      BY <2>2, <3>1
    <3>2. CASE r.do = "delete"
      BY <2>2, <3>2
    <3>3. CASE r.do = "patch"
      BY <2>2, <3>3
    <3> QED
      BY <1>1, <3>1, <3>2, <3>3
  <2>5. data \in DataOf[e] \cup {None}
    <3>1. CASE r.do = "create"
      BY <1>1, <2>4, <3>1
    <3>2. CASE r.do = "delete"
      BY <2>4, <3>2
    <3>3. CASE r.do = "patch"
      <4>1. c[e] \in DataOf[e] /\ r.data \in DataOf[e] /\ r.fields \in SUBSET Fields
        BY <1>1, <1>2, <2>1, <3>3
      <4>2. Patched(c[e], r.data, r.fields) \in DataOf[e]
        BY <1>1, <4>1, DataAssumption
      <4> QED
        BY <2>4, <3>3, <4>2
    <3> QED
      BY <1>1, <3>1, <3>2, <3>3
  <2>6. Executed(c, r) \in Catalogs
    <3>1. e \in Exports
      BY <1>1
    <3>2. [c EXCEPT ![e] = data] \in Catalogs
      BY <2>5, <3>1, CatalogExcept
    <3> QED
      BY <2>3, <3>2
  <2>7. Executed(c, r)[e] = data /\ \A f \in Exports : f # e => Executed(c, r)[f] = c[f]
    BY <1>1, <1>2, <2>3
  <2> QED
    BY <1>4, <2>4, <2>6, <2>7
<1> QED
  BY <1>3, <1>4

\* A plan has one request at most for each export, and one for each difference.
LEMMA PlanFits ==
    ASSUME NEW local \in Catalogs, NEW remote \in Catalogs
    PROVE  /\ Plan(local, remote) \subseteq Requests
           /\ \A r \in Plan(local, remote) : Fitting(r)
           /\ \A r, q \in Plan(local, remote) : r.export = q.export => r = q
           /\ \A r \in Plan(local, remote) :
                 local[r.export] = IF r.do = "delete" THEN None ELSE r.data
<1>1. \A e \in Exports :
         /\ local[e] \in DataOf[e] \cup {None} /\ remote[e] \in DataOf[e] \cup {None}
         /\ local[e] # None => local[e] \in Data
  BY CatalogEntry, NotNone
<1> DEFINE create(e) == [do |-> "create", export |-> e, data |-> local[e]]
           delete(e) == [do |-> "delete", export |-> e]
           patch(e) == [do |-> "patch", export |-> e, data |-> local[e],
                        fields |-> Differing(local[e], remote[e])]
<1>2. ASSUME NEW r \in Plan(local, remote)
      PROVE  \E e \in Exports :
                \/ r = create(e) /\ remote[e] = None /\ local[e] # None
                \/ r = delete(e) /\ remote[e] # None /\ local[e] = None
                \/ r = patch(e) /\ remote[e] # None /\ local[e] # None
  BY <1>2 DEF Plan, Creations, Patches, Deletions, Changed
<1>3. \A e \in Exports : Differing(local[e], remote[e]) \subseteq Fields
  BY DEF Differing
<1>4. \A e \in Exports : create(e).export = e /\ delete(e).export = e /\ patch(e).export = e
  OBVIOUS
<1>5. ASSUME NEW r \in Plan(local, remote)
      PROVE  Fitting(r) /\ local[r.export] = IF r.do = "delete" THEN None ELSE r.data
  <2>1. PICK e \in Exports :
           \/ r = create(e) /\ remote[e] = None /\ local[e] # None
           \/ r = delete(e) /\ remote[e] # None /\ local[e] = None
           \/ r = patch(e) /\ remote[e] # None /\ local[e] # None
    BY <1>2
  <2>2. CASE r = create(e) /\ local[e] # None
    BY <1>1, <2>2 DEF Fitting, Requests
  <2>3. CASE r = delete(e) /\ local[e] = None
    BY <2>3 DEF Fitting, Requests
  <2>4. CASE r = patch(e) /\ local[e] # None
    BY <1>1, <1>3, <2>4 DEF Fitting, Requests
  <2> QED
    BY <2>1, <2>2, <2>3, <2>4
<1>6. ASSUME NEW r \in Plan(local, remote), NEW q \in Plan(local, remote), r.export = q.export
      PROVE  r = q
  <2> HIDE DEF create, delete, patch
  <2> QED
    BY <1>2, <1>4, <1>6
<1>7. Plan(local, remote) \subseteq Requests
  BY <1>5 DEF Fitting
<1> QED
  BY <1>5, <1>6, <1>7

LEMMA PlanCovers ==
    ASSUME ha \in Catalogs, bridge \in Catalogs, NEW e \in Exports
    PROVE  Covered(e, Plan(ha, bridge))
<1> SUFFICES ASSUME bridge[e] # ha[e]
             PROVE  \E r \in Plan(ha, bridge) :
                       r.export = e /\ Accepts(bridge, r) /\ Executed(bridge, r)[e] = ha[e]
  BY DEF Covered
<1>1. ha[e] \in DataOf[e] \cup {None} /\ bridge[e] \in DataOf[e] \cup {None}
  BY CatalogEntry
<1>2. CASE bridge[e] = None
  <2> DEFINE r == [do |-> "create", export |-> e, data |-> ha[e]]
  <2>1. r \in Plan(ha, bridge) /\ r.export = e /\ r.do = "create" /\ r.data = ha[e]
    BY <1>2 DEF Plan, Creations
  <2> HIDE DEF r
  <2>2. Accepts(bridge, r) /\ Fitting(r)
    BY <1>2, <2>1, PlanFits DEF Accepts
  <2> QED
    BY <2>1, <2>2, Effect
<1>3. CASE bridge[e] # None /\ ha[e] = None
  <2> DEFINE r == [do |-> "delete", export |-> e]
  <2>1. r \in Plan(ha, bridge) /\ r.export = e /\ r.do = "delete"
    BY <1>3 DEF Plan, Deletions
  <2> HIDE DEF r
  <2>2. Accepts(bridge, r) /\ Fitting(r)
    BY <1>3, <2>1, PlanFits DEF Accepts
  <2> QED
    BY <1>3, <2>1, <2>2, Effect
<1>4. CASE bridge[e] # None /\ ha[e] # None
  <2>1. /\ ha[e] = [f \in Fields |-> ha[e][f]] /\ bridge[e] = [f \in Fields |-> bridge[e][f]]
    BY <1>1, <1>4, DataAssumption
  <2>2. Differing(ha[e], bridge[e]) # {}
    BY <2>1 DEF Differing
  <2> DEFINE r == [do |-> "patch", export |-> e, data |-> ha[e],
                   fields |-> Differing(ha[e], bridge[e])]
  <2>3. /\ r \in Plan(ha, bridge) /\ r.export = e /\ r.do = "patch" /\ r.data = ha[e]
        /\ r.fields = Differing(ha[e], bridge[e])
    BY <1>4, <2>2 DEF Plan, Patches, Changed
  <2> HIDE DEF r
  <2>4. Accepts(bridge, r) /\ Fitting(r)
    BY <1>4, <2>3, PlanFits DEF Accepts
  <2>5. Executed(bridge, r)[e] = Patched(bridge[e], ha[e], Differing(ha[e], bridge[e]))
    BY <2>3, <2>4, Effect
  <2>6. Patched(bridge[e], ha[e], Differing(ha[e], bridge[e])) = [f \in Fields |-> ha[e][f]]
    BY DEF Patched, Differing
  <2> QED
    BY <2>1, <2>3, <2>4, <2>5, <2>6
<1> QED
  BY <1>2, <1>3, <1>4

-----------------------------------------------------------------------------
(* Types *)

WellPlanned(todo) ==
    (\A r \in todo : Fitting(r)) /\ \A r, q \in todo : r.export = q.export => r = q

LEMMA TaskMember ==
    /\ Idle \in TaskStates /\ Idle.at = "idle"
    /\ [at |-> "failed"] \in TaskStates /\ [at |-> "saving"] \in TaskStates
    /\ \A was \in BOOLEAN : [at |-> "poll", was |-> was] \in TaskStates
    /\ ha \in Catalogs /\ edits \in Nat => Syncing \in TaskStates
BY DEF TaskStates, Idle, Syncing

LEMMA TaskShape ==
    ASSUME TypeInv, NEW t \in Tasks
    PROVE  /\ task[t] \in TaskStates
           /\ task[t].at \in {"idle", "begin", "saving", "list", "sync", "failed", "poll"}
           /\ task[t].at \in {"list", "sync"} => task[t].edition \in 0 .. edits
           /\ task[t].at = "list" => task[t].local \in Catalogs
           /\ task[t].at = "sync" => task[t].todo \subseteq Requests /\ WellPlanned(task[t].todo)
           /\ task[t].at = "poll" => task[t].was \in BOOLEAN
<1>1. task[t] \in TaskStates /\ edits \in Nat
  BY DEF TypeInv, TypeOK
<1>2. /\ task[t].at \in {"idle", "begin", "saving", "list", "sync", "failed", "poll"}
      /\ task[t].at \in {"list", "sync"} => task[t].edition \in 0 .. edits
      /\ task[t].at = "list" => task[t].local \in Catalogs
      /\ task[t].at = "sync" => task[t].todo \subseteq Requests
      /\ task[t].at = "poll" => task[t].was \in BOOLEAN
  BY <1>1 DEF TaskStates
<1> QED
  BY <1>1, <1>2 DEF TypeInv, TypeOK, WellPlanned

\* Task t goes to state s and the rest keeps its type.
LEMMA TypeFrom ==
    ASSUME TypeInv, NEW t \in Tasks, NEW s,
           task' = [task EXCEPT ![t] = s],
           s \in TaskStates \/ s \in TaskStates',
           s.at = "sync" => WellPlanned(s.todo),
           ha' \in Catalogs, bridge' \in Catalogs, disk' \in Catalogs,
           connected' \in BOOLEAN, listed' \in BOOLEAN, disturbed' \in BOOLEAN, masked' \in BOOLEAN,
           edits' \in edits .. MaxEdits, faults' \in 0 .. MaxFaults,
           \A d \in delayed' : Fitting(d.request) /\ d.edition \in 0 .. edits'
    PROVE  TypeInv'
<1>1. edits \in Nat /\ edits' \in 0 .. MaxEdits
  BY BoundsAssumption DEF TypeInv, TypeOK
<1>2. 0 .. edits \subseteq 0 .. edits'
  BY <1>1
<1>3. TaskStates \subseteq TaskStates'
  BY <1>2 DEF TaskStates
<1>4. s \in TaskStates' /\ task \in [Tasks -> TaskStates']
  BY <1>3 DEF TypeInv
<1>5. task' \in [Tasks -> TaskStates'] /\ \A u \in Tasks : task'[u] = IF u = t THEN s ELSE task[u]
  BY <1>4
<1>6. ASSUME NEW u \in Tasks
      PROVE  /\ task'[u].at \in {"idle", "begin", "saving", "list", "sync", "failed", "poll"}
             /\ task'[u].at = "sync" => task'[u].todo \subseteq Requests /\ WellPlanned(task'[u].todo)
  <2>1. task'[u] \in TaskStates'
    BY <1>5
  <2>2. /\ task'[u].at \in {"idle", "begin", "saving", "list", "sync", "failed", "poll"}
        /\ task'[u].at = "sync" => task'[u].todo \subseteq Requests
    BY <2>1 DEF TaskStates
  <2> QED
    BY <1>5, <2>2, TaskShape
<1>7. \A d \in delayed' : d.request \in Requests
  BY DEF Fitting
<1>8. TypeOK'
  BY <1>1, <1>6, <1>7 DEF TypeOK, WellPlanned
<1> QED
  BY <1>5, <1>6, <1>8 DEF TypeInv, WellPlanned

LEMMA TypeInit == Init => TypeInv
<1> SUFFICES ASSUME Init PROVE TypeInv
  OBVIOUS
<1>1. [at |-> "begin"] \in TaskStates
  BY DEF TaskStates
<1>2. task \in [Tasks -> TaskStates] /\ \A t \in Tasks : task[t].at \in {"idle", "begin"}
  BY <1>1, TaskMember DEF Init
<1>3. edits \in 0 .. MaxEdits /\ faults \in 0 .. MaxFaults
  BY BoundsAssumption DEF Init
<1> QED
  BY <1>2, <1>3 DEF Init, TypeInv, TypeOK

LEMMA TypeStep == ASSUME TypeInv, Next PROVE TypeInv'
<1>1. /\ ha \in Catalogs /\ bridge \in Catalogs /\ disk \in Catalogs /\ task \in [Tasks -> TaskStates]
      /\ edits \in 0 .. MaxEdits /\ edits \in Nat /\ faults \in 0 .. MaxFaults
      /\ edits \in edits .. MaxEdits
      /\ \A d \in delayed : Fitting(d.request) /\ d.edition \in 0 .. edits
  BY BoundsAssumption DEF TypeInv, TypeOK
<1>2. /\ connected \in BOOLEAN /\ listed \in BOOLEAN /\ disturbed \in BOOLEAN /\ masked \in BOOLEAN
  BY DEF TypeInv, TypeOK
<1>3. Fault => faults' \in 0 .. MaxFaults
  BY <1>1, BoundsAssumption DEF Fault
<1>4. ASSUME NEW r, NEW edition, NEW saved \in BOOLEAN, Fitting(r), Execute(r, edition, saved)
      PROVE  bridge' \in Catalogs /\ disk' \in Catalogs /\ disturbed' \in BOOLEAN
  <2>1. bridge' \in Catalogs /\ disk' \in {bridge', disk}
    BY <1>1, <1>4, Effect DEF Execute
  <2>2. disturbed' \in BOOLEAN
    BY <1>2, <1>4 DEF Execute
  <2> QED
    BY <1>1, <2>1, <2>2
<1>5. ASSUME NEW t \in Tasks, List(t) PROVE TypeInv'
  <2> DEFINE s == [at |-> "sync", todo |-> Plan(task[t].local, bridge), edition |-> task[t].edition]
  <2>1. /\ task[t].at = "list" /\ task' = [task EXCEPT ![t] = s]
        /\ UNCHANGED <<ha, bridge, disk, connected, delayed, edits, faults>>
    BY <1>1, <1>5 DEF List
  <2>2. task[t].local \in Catalogs /\ task[t].edition \in 0 .. edits
    BY <2>1, TaskShape
  <2>3. Plan(task[t].local, bridge) \in SUBSET Requests /\ WellPlanned(Plan(task[t].local, bridge))
    BY <1>1, <2>2, PlanFits DEF WellPlanned
  <2>4. s \in TaskStates /\ WellPlanned(s.todo)
    BY <2>2, <2>3 DEF TaskStates
  <2>5. listed' \in BOOLEAN /\ disturbed' \in BOOLEAN /\ masked' \in BOOLEAN
    BY <1>2, <1>5 DEF List
  <2> HIDE DEF s
  <2> QED
    BY <1>1, <1>2, <2>1, <2>4, <2>5, TypeFrom
<1>6. ASSUME NEW t \in Tasks, Request(t) PROVE TypeInv'
  <2>1. /\ task[t].at = "sync"
        /\ UNCHANGED <<ha, connected, delayed, edits, faults, listed, masked>>
    BY <1>6 DEF Request
  <2>2. PICK r \in Due(task[t].todo) :
           /\ Execute(r, task[t].edition, TRUE)
           /\ task' = [task EXCEPT ![t] =
                  IF Accepts(bridge, r) THEN [task[t] EXCEPT !.todo = @ \ {r}] ELSE [at |-> "failed"]]
    BY <1>6 DEF Request
  <2>3. r \in task[t].todo /\ WellPlanned(task[t].todo) /\ Fitting(r)
    BY <2>1, TaskShape DEF Due, WellPlanned
  <2>4. /\ [task[t] EXCEPT !.todo = @ \ {r}] \in TaskStates
        /\ WellPlanned([task[t] EXCEPT !.todo = @ \ {r}].todo)
    <3>1. task[t] \in [at : {"sync"}, todo : SUBSET Requests, edition : 0 .. edits]
      BY <2>1, TaskShape DEF TaskStates
    <3>2. /\ [task[t] EXCEPT !.todo = @ \ {r}]
                \in [at : {"sync"}, todo : SUBSET Requests, edition : 0 .. edits]
          /\ [task[t] EXCEPT !.todo = @ \ {r}].todo = task[t].todo \ {r}
      BY <3>1
    <3> QED
      BY <2>3, <3>2 DEF TaskStates, WellPlanned
  <2>5. bridge' \in Catalogs /\ disk' \in Catalogs /\ disturbed' \in BOOLEAN
    BY <1>4, <2>2, <2>3
  <2>6. CASE Accepts(bridge, r)
    <3>1. task' = [task EXCEPT ![t] = [task[t] EXCEPT !.todo = @ \ {r}]]
      BY <1>1, <2>2, <2>6
    <3> QED
      BY <1>1, <1>2, <2>1, <2>4, <2>5, <3>1, TypeFrom
  <2>7. CASE ~Accepts(bridge, r)
    <3>1. task' = [task EXCEPT ![t] = [at |-> "failed"]]
      BY <2>2, <2>7
    <3> QED
      BY <1>1, <1>2, <2>1, <2>5, <3>1, TypeFrom, TaskMember
  <2> QED
    BY <2>6, <2>7
<1>7. ASSUME NEW t \in Tasks, LoseRequest(t) PROVE TypeInv'
  <2>1. /\ task[t].at = "sync" /\ Fault
        /\ task' = [task EXCEPT ![t] = [at |-> "failed"]]
        /\ UNCHANGED <<ha, connected, edits, listed, masked>>
    BY <1>7 DEF LoseRequest
  <2>2. PICK r \in Due(task[t].todo) :
           \/ UNCHANGED <<bridge, disk, delayed, disturbed>>
           \/ \E saved \in BOOLEAN : Execute(r, task[t].edition, saved) /\ UNCHANGED delayed
           \/ /\ delayed' = delayed \cup {[request |-> r, edition |-> task[t].edition]}
              /\ UNCHANGED <<bridge, disk, disturbed>>
    BY <1>7 DEF LoseRequest
  <2>3. Fitting(r) /\ task[t].edition \in 0 .. edits
    BY <2>1, TaskShape DEF Due, WellPlanned
  <2>4. bridge' \in Catalogs /\ disk' \in Catalogs /\ disturbed' \in BOOLEAN
    BY <1>1, <1>2, <1>4, <2>2, <2>3
  <2>5. \A d \in delayed' : Fitting(d.request) /\ d.edition \in 0 .. edits
    BY <1>1, <2>2, <2>3
  <2> QED
    BY <1>1, <1>2, <1>3, <2>1, <2>4, <2>5, TypeFrom, TaskMember
<1>8. ASSUME NEW t \in Tasks, LoseList(t) \/ Finish(t) \/ Fail(t) PROVE TypeInv'
  <2>1. /\ task' = [task EXCEPT ![t] = Idle] \/ task' = [task EXCEPT ![t] = [at |-> "failed"]]
        /\ UNCHANGED <<ha, bridge, disk, delayed, edits, listed, disturbed>>
    BY <1>8 DEF LoseList, Finish, Fail, observers
  <2>2. connected' \in BOOLEAN /\ masked' \in BOOLEAN
    BY <1>2, <1>8 DEF LoseList, Finish, Fail, observers
  <2>3. faults' \in 0 .. MaxFaults
    BY <1>1, <1>3, <1>8 DEF LoseList, Finish, Fail
  <2> QED
    BY <1>1, <1>2, <2>1, <2>2, <2>3, TypeFrom, TaskMember
<1>9. ASSUME NEW t \in Tasks, Saved(t) \/ Poll(t) \/ Answered(t) \/ LosePoll(t) PROVE TypeInv'
  <2>1. /\ \/ task' = [task EXCEPT ![t] = Idle] \/ task' = [task EXCEPT ![t] = Syncing]
           \/ task' = [task EXCEPT ![t] = [at |-> "poll", was |-> connected]]
        /\ UNCHANGED <<ha, bridge, disk, delayed, edits, listed, disturbed>>
    BY <1>9 DEF Saved, Poll, Answered, LosePoll, observers
  <2>2. connected' \in BOOLEAN /\ masked' \in BOOLEAN
    BY <1>2, <1>9 DEF Saved, Poll, Answered, LosePoll, observers
  <2>3. faults' \in 0 .. MaxFaults
    BY <1>1, <1>3, <1>9 DEF Saved, Poll, Answered, LosePoll
  <2>4. Syncing.at = "list"
    BY DEF Syncing
  <2> QED
    BY <1>1, <1>2, <2>1, <2>2, <2>3, <2>4, TypeFrom, TaskMember
<1>10. ASSUME NEW t \in Users, Edit(t) PROVE TypeInv'
  <2>1. /\ edits < MaxEdits /\ edits' = edits + 1 /\ listed' = FALSE /\ disturbed' = FALSE
        /\ task' = [task EXCEPT ![t] = [at |-> "saving"]]
        /\ UNCHANGED <<bridge, disk, connected, delayed, faults, masked>>
    BY <1>10 DEF Edit
  <2>2. ha' \in Catalogs
    <3>1. PICK e \in Exports :
            \E data \in DataOf[e] \cup {None} : ha' = [ha EXCEPT ![e] = data]
      BY <1>10 DEF Edit
    <3>2. PICK data \in DataOf[e] \cup {None} : ha' = [ha EXCEPT ![e] = data]
      BY <3>1
    <3>3. [ha EXCEPT ![e] = data] \in Catalogs
      BY <1>1, CatalogExcept
    <3> QED
      BY <3>2, <3>3
  <2>3. edits' \in edits .. MaxEdits /\ 0 .. edits \subseteq 0 .. edits'
    BY <1>1, <2>1, BoundsAssumption
  <2>4. t \in Tasks
    BY DEF Tasks
  <2> QED
    BY <1>1, <1>2, <2>1, <2>2, <2>3, <2>4, TypeFrom, TaskMember
<1>11. ASSUME NEW t \in Users, Refresh(t) \/ LoseRefresh(t) PROVE TypeInv'
  <2>1. t \in Tasks
    BY DEF Tasks
  <2>2. /\ task[t] = Idle /\ UNCHANGED <<ha, bridge, disk, task, delayed, edits, listed, disturbed>>
    BY <1>11 DEF Refresh, LoseRefresh, observers
  <2>3. task' = [task EXCEPT ![t] = Idle]
    BY <1>1, <2>1, <2>2
  <2>4. connected' \in BOOLEAN /\ masked' \in BOOLEAN
    BY <1>2, <1>11 DEF Refresh, LoseRefresh, observers
  <2>5. faults' \in 0 .. MaxFaults
    BY <1>1, <1>3, <1>11 DEF Refresh, LoseRefresh
  <2> QED
    BY <1>1, <1>2, <2>1, <2>2, <2>3, <2>4, <2>5, TypeFrom, TaskMember
<1>12. ASSUME NEW reachable \in BOOLEAN, Setup(reachable) PROVE TypeInv'
  <2>1. /\ task' = [task EXCEPT !["setup"] = Idle] \/ task' = [task EXCEPT !["setup"] = Syncing]
        /\ connected' = reachable
        /\ UNCHANGED <<ha, bridge, disk, delayed, edits, faults, listed, disturbed, masked>>
    BY <1>12 DEF Setup, observers
  <2>2. "setup" \in Tasks /\ Syncing.at = "list"
    BY DEF Tasks, Syncing
  <2> QED
    BY <1>1, <1>2, <2>1, <2>2, TypeFrom, TaskMember
<1>13. ASSUME NEW d \in delayed, Deliver(d) PROVE TypeInv'
  <2>1. PICK saved \in BOOLEAN : Execute(d.request, d.edition, saved)
    BY <1>13 DEF Deliver
  <2>4. /\ delayed' = delayed \ {d}
        /\ UNCHANGED <<ha, connected, task, edits, faults, listed, masked>>
    BY <1>13 DEF Deliver
  <2>2. bridge' \in Catalogs /\ disk' \in Catalogs /\ disturbed' \in BOOLEAN
    BY <1>1, <1>4, <1>13, <2>1
  <2>3. "setup" \in Tasks /\ task' = [task EXCEPT !["setup"] = task["setup"]]
    BY <1>1, <2>4 DEF Tasks
  <2> QED
    BY <1>1, <1>2, <2>2, <2>3, <2>4, TypeFrom, TaskShape
<1>15. CASE Restart
  <2>1. /\ bridge' = disk /\ delayed' = {}
        /\ UNCHANGED <<ha, disk, connected, task, edits, faults, listed, masked>>
    BY <1>15 DEF Restart
  <2>2. disturbed' \in BOOLEAN
    BY <1>2, <1>15 DEF Restart
  <2>3. "setup" \in Tasks /\ task' = [task EXCEPT !["setup"] = task["setup"]]
    BY <1>1, <2>1 DEF Tasks
  <2> QED
    BY <1>1, <1>2, <2>1, <2>2, <2>3, TypeFrom, TaskShape
<1>14. Users \subseteq Tasks /\ Loops \subseteq Tasks
  BY DEF Tasks
<1> QED
  BY <1>5, <1>6, <1>7, <1>8, <1>9, <1>10, <1>11, <1>12, <1>13, <1>14, <1>15
     DEF Next, TaskStep

-----------------------------------------------------------------------------
(* A request of the present catalog brings the bridge nearer *)

LEMMA RightStays ==
    ASSUME ha \in Catalogs, bridge \in Catalogs, NEW r, Fitting(r), Aimed(r),
           bridge' = Executed(bridge, r), NEW e \in Exports, bridge[e] = ha[e]
    PROVE  bridge'[e] = ha[e]
<1>1. CASE e # r.export \/ ~Accepts(bridge, r)
  BY <1>1, Effect
<1>2. CASE e = r.export /\ Accepts(bridge, r)
  <2>1. r.do \in {"create", "delete", "patch"} /\ (r.do = "patch" => r.fields \subseteq Fields)
    BY RequestShape DEF Fitting
  <2>2. CASE r.do = "create"
    BY <1>2, <2>2, Effect DEF Aimed
  <2>3. CASE r.do = "delete"
    BY <1>2, <2>3, Effect DEF Aimed
  <2>4. CASE r.do = "patch"
    <3>1. ha[e] = r.data /\ r.data \in DataOf[e]
      BY <1>2, <2>4 DEF Aimed, Fitting
    <3>2. bridge'[e] = Patched(ha[e], ha[e], r.fields)
      BY <1>2, <2>4, <3>1, Effect
    <3>3. Patched(ha[e], ha[e], r.fields) = [f \in Fields |-> ha[e][f]]
      BY DEF Patched
    <3> QED
      BY <3>1, <3>2, <3>3, DataAssumption
  <2> QED
    BY <2>1, <2>2, <2>3, <2>4
<1> QED
  BY <1>1, <1>2

LEMMA CoverStays ==
    ASSUME ha \in Catalogs, bridge \in Catalogs, NEW r, Fitting(r), Aimed(r),
           bridge' = Executed(bridge, r), ha' = ha, NEW e \in Exports,
           NEW todo, \A q \in todo : Fitting(q) /\ Aimed(q), Covered(e, todo)
    PROVE  Covered(e, todo)'
<1>0. bridge' \in Catalogs
  BY Effect
<1>1. CASE bridge[e] = ha[e]
  BY <1>1, RightStays DEF Covered
<1>2. CASE e # r.export \/ ~Accepts(bridge, r)
  <2>1. bridge'[e] = bridge[e]
    BY <1>2, Effect
  <2>2. CASE bridge[e] = ha[e]
    BY <2>1, <2>2 DEF Covered
  <2>3. ASSUME NEW q \in todo, q.export = e, Accepts(bridge, q), Executed(bridge, q)[e] = ha[e]
        PROVE  Accepts(bridge', q) /\ Executed(bridge', q)[e] = ha[e]
    <3>1. Accepts(bridge', q)
      BY <2>1, <2>3 DEF Accepts
    <3>2. q.do \in {"create", "delete", "patch"} /\ Fitting(q)
      BY <2>3, RequestShape DEF Fitting
    <3>3. CASE q.do = "create"
      BY <1>0, <2>3, <3>1, <3>2, <3>3, Effect
    <3>4. CASE q.do = "delete"
      BY <1>0, <2>3, <3>1, <3>2, <3>4, Effect
    <3>5. CASE q.do = "patch"
      BY <1>0, <2>1, <2>3, <3>1, <3>2, <3>5, Effect
    <3> QED
      BY <3>2, <3>3, <3>4, <3>5
  <2> QED
    BY <2>2, <2>3 DEF Covered
<1>3. CASE e = r.export /\ Accepts(bridge, r) /\ bridge[e] # ha[e]
  <2>1. r.do \in {"create", "delete", "patch"}
    BY RequestShape DEF Fitting
  <2>2. CASE r.do \in {"create", "delete"}
    <3>1. bridge'[e] = ha[e]
      BY <1>3, <2>2, Effect DEF Aimed
    <3> QED
      BY <3>1 DEF Covered
  <2>3. CASE r.do = "patch"
    <3>1. PICK q \in todo : q.export = e /\ Accepts(bridge, q) /\ Executed(bridge, q)[e] = ha[e]
      BY <1>3 DEF Covered
    <3>2. bridge[e] # None /\ bridge[e] \in DataOf[e] \cup {None} /\ ha[e] = r.data /\ ha[e] \in DataOf[e]
      BY <1>3, <2>3, CatalogEntry DEF Accepts, Aimed, Fitting
    <3>3. q.do \in {"delete", "patch"} /\ Fitting(q) /\ Aimed(q)
      <4>1. q.do \in {"create", "delete", "patch"} /\ Fitting(q) /\ Aimed(q)
        BY <3>1, RequestShape DEF Fitting
      <4> QED
        BY <3>1, <3>2, <4>1 DEF Accepts
    <3>4. q.do = "patch" /\ ha[e] = q.data
      BY <3>1, <3>2, <3>3, NotNone DEF Aimed
    <3>5. ha[e] = Patched(bridge[e], ha[e], q.fields)
      BY <3>1, <3>4, Effect, <3>3
    <3>6. bridge'[e] = Patched(bridge[e], ha[e], r.fields)
      BY <1>3, <2>3, <3>2, Effect
    <3>7. bridge'[e] # None /\ bridge'[e] \in DataOf[e]
      <4>1. r.fields \in SUBSET Fields
        BY <2>3, RequestShape DEF Fitting
      <4> QED
        BY <3>2, <3>6, <4>1, DataAssumption, NotNone
    <3>8. Accepts(bridge', q)
      BY <3>1, <3>4, <3>7 DEF Accepts
    <3>9. Executed(bridge', q)[e] = Patched(bridge'[e], ha[e], q.fields)
      BY <1>0, <3>1, <3>3, <3>4, <3>8, Effect
    <3>10. Patched(Patched(bridge[e], ha[e], r.fields), ha[e], q.fields) = ha[e]
      <4>1. \A f \in Fields : f \notin q.fields => bridge[e][f] = ha[e][f]
        <5> SUFFICES ASSUME NEW f \in Fields, f \notin q.fields PROVE bridge[e][f] = ha[e][f]
          OBVIOUS
        <5>1. Patched(bridge[e], ha[e], q.fields)[f] = bridge[e][f]
          BY DEF Patched
        <5> QED
          BY <3>5, <5>1
      <4>2. Patched(Patched(bridge[e], ha[e], r.fields), ha[e], q.fields) = [f \in Fields |-> ha[e][f]]
        BY <4>1 DEF Patched
      <4> QED
        BY <3>2, <4>2, DataAssumption
    <3> QED
      BY <3>1, <3>6, <3>8, <3>9, <3>10 DEF Covered
  <2> QED
    BY <2>1, <2>2, <2>3
<1> QED
  BY <1>1, <1>2, <1>3

-----------------------------------------------------------------------------
(* Steps that synchronize *)

\* Every other task is where it was.
OthersStay(t) == \A u \in Tasks \ {t} : task'[u] = task[u]

\* A request of a synchronization or a late one, for task t, which may be the one
\* it belongs to: what it does to the rest.
LEMMA ExecuteRest ==
    ASSUME IInv, NEW t \in Tasks, NEW r, NEW edition, Fitting(r), edition = edits => Aimed(r),
           NEW saved \in BOOLEAN, Execute(r, edition, saved), UNCHANGED <<ha, edits, listed, connected, masked>>, OthersStay(t),
           delayed' \subseteq delayed
    PROVE  /\ \A u \in Tasks \ {t} :
                 /\ task'[u].at = "list" /\ task'[u].edition = edits' => task'[u].local = ha'
                 /\ task'[u].at = "sync" /\ task'[u].edition = edits' =>
                       listed' /\ \A q \in task'[u].todo : Aimed(q)'
                 /\ task'[u].at = "sync" /\ task'[u].edition = edits' /\ ~disturbed' =>
                       \A e \in Exports : Covered(e, task[u].todo)'
           /\ \A d \in delayed' : d.edition = edits' => Aimed(d.request)'
           /\ ~disturbed' /\ listed => edition = edits /\ ~disturbed
           /\ ~disturbed' /\ listed => (ha = bridge => ha' = bridge')
<1>1. TypeInv /\ Aims /\ Covers /\ ha \in Catalogs /\ bridge \in Catalogs
  BY DEF IInv, TypeInv, TypeOK
<1>2. bridge' = Executed(bridge, r) /\ (~disturbed' /\ listed => edition = edits /\ ~disturbed)
  BY DEF Execute
<1>3. \A q : Aimed(q)' <=> Aimed(q)
  BY DEF Aimed
<1>4. ASSUME NEW u \in Tasks \ {t}
      PROVE  /\ task'[u].at = "list" /\ task'[u].edition = edits' => task'[u].local = ha'
             /\ task'[u].at = "sync" /\ task'[u].edition = edits' =>
                   listed' /\ \A q \in task'[u].todo : Aimed(q)'
  BY <1>1, <1>3 DEF Aims, OthersStay
<1>5. ASSUME NEW u \in Tasks \ {t}, task'[u].at = "sync", task'[u].edition = edits', ~disturbed',
             NEW e \in Exports
      PROVE  Covered(e, task[u].todo)'
  <2>1. task[u].at = "sync" /\ task[u].edition = edits /\ task'[u] = task[u]
    BY <1>5 DEF OthersStay
  <2>2. PICK todo : todo = task[u].todo
    OBVIOUS
  <2>3. listed /\ \A q \in todo : Aimed(q) /\ Fitting(q)
    BY <1>1, <2>1, <2>2, TaskShape DEF Aims, WellPlanned
  <2>4. ~disturbed /\ Aimed(r)
    BY <1>2, <1>5, <2>3
  <2>5. Covered(e, todo)
    BY <1>1, <2>1, <2>2, <2>4 DEF Covers
  <2>6. Covered(e, todo)'
    BY <1>1, <1>2, <2>3, <2>4, <2>5, CoverStays
  <2> QED
    BY <2>1, <2>2, <2>6 DEF Covered
<1>6. \A d \in delayed' : d.edition = edits' => Aimed(d.request)'
  BY <1>1, <1>3 DEF Aims
<1>7. ASSUME ~disturbed', listed, ha = bridge PROVE ha' = bridge'
  <2>1. Aimed(r)
    BY <1>2, <1>7
  <2>2. \A e \in Exports : bridge'[e] = ha[e]
    BY <1>1, <1>2, <1>7, <2>1, RightStays
  <2>3. bridge' \in Catalogs
    BY <1>1, <1>2, Effect
  <2> QED
    BY <1>1, <2>2, <2>3 DEF Catalogs
<1> QED
  BY <1>2, <1>4, <1>5, <1>6, <1>7

\* Task t stops synchronizing, or begins: the rest does not change.
LEMMA CalmRest ==
    ASSUME IInv, NEW t \in Tasks, OthersStay(t),
           UNCHANGED <<ha, bridge, delayed, edits, disturbed>>, listed => listed',
           task'[t].at # "sync", task'[t].at = "list" => task'[t].local = ha
    PROVE  Aims' /\ Covers'
<1>1. Aims /\ Covers
  BY DEF IInv
<1>2. \A q : Aimed(q)' <=> Aimed(q)
  BY DEF Aimed
<1>3. \A e, todo : Covered(e, todo)' <=> Covered(e, todo)
  BY DEF Covered
<1>4. Aims'
  <2>1. ASSUME NEW u \in Tasks, task'[u].at = "list", task'[u].edition = edits'
        PROVE  task'[u].local = ha'
    BY <1>1, <2>1 DEF Aims, OthersStay
  <2>2. ASSUME NEW u \in Tasks, task'[u].at = "sync", task'[u].edition = edits'
        PROVE  listed' /\ \A q \in task'[u].todo : Aimed(q)'
    <3>1. u # t /\ task'[u] = task[u]
      BY <2>2 DEF OthersStay
    <3> QED
      BY <1>1, <1>2, <2>2, <3>1 DEF Aims
  <2>3. \A d \in delayed' : d.edition = edits' => Aimed(d.request)'
    BY <1>1, <1>2 DEF Aims
  <2> QED
    BY <2>1, <2>2, <2>3 DEF Aims
<1>5. Covers'
  <2> SUFFICES ASSUME NEW u \in Tasks, task'[u].at = "sync", task'[u].edition = edits', ~disturbed',
                      NEW e \in Exports
               PROVE  Covered(e, task[u].todo)'
    BY DEF Covers
  <2>1. u # t /\ task'[u] = task[u]
    BY DEF OthersStay
  <2>2. Covered(e, task[u].todo)
    BY <1>1, <2>1 DEF Covers
  <2> QED
    BY <2>1, <2>2 DEF Covered
<1> QED
  BY <1>4, <1>5

\* Another task that is current stays so.
LEMMA CurrentStays ==
    ASSUME NEW t \in Tasks, OthersStay(t), edits' = edits
    PROVE  \A u \in Tasks \ {t} : Current(u) => Current(u)'
BY DEF OthersStay, Current

LEMMA Frame ==
    ASSUME TypeInv, NEW t \in Tasks, NEW s, task' = [task EXCEPT ![t] = s]
    PROVE  task'[t] = s /\ OthersStay(t)
BY DEF TypeInv, OthersStay

\* A step after which task t is not synchronizing the present catalog, or has
\* nothing to synchronize.
LEMMA MindedFrom ==
    ASSUME IInv, NEW t \in Tasks, OthersStay(t), UNCHANGED <<ha, bridge, edits, disturbed>>,
           listed => listed', masked => masked',
           \/ Current(t)' \/ ~connected' \/ masked'
           \/ ~Current(t) /\ connected
           \/ ha = bridge /\ listed
           \/ disturbed
    PROVE  Minded'
<1>1. CASE \E u \in Tasks \ {t} : Current(u)
  <2>1. \E u \in Tasks : Current(u)'
    BY <1>1, CurrentStays
  <2> QED
    BY <2>1 DEF Minded
<1>2. CASE ~\E u \in Tasks \ {t} : Current(u)
  BY <1>2 DEF IInv, Minded
<1> QED
  BY <1>1, <1>2

LEMMA SyncStep ==
    ASSUME IInv, NEW t \in Tasks, List(t) \/ Request(t) \/ LoseRequest(t) \/ Finish(t)
    PROVE  Aims' /\ Covers' /\ Minded'
<1>1. /\ TypeInv /\ Aims /\ Covers /\ Minded
      /\ ha \in Catalogs /\ bridge \in Catalogs
      /\ task \in [Tasks -> TaskStates]
  BY DEF IInv, TypeInv, TypeOK
<1>3. CASE List(t)
  <2> DEFINE s == [at |-> "sync", todo |-> Plan(task[t].local, bridge), edition |-> task[t].edition]
  <2>1. /\ task[t].at = "list" /\ task' = [task EXCEPT ![t] = s]
        /\ listed' = (listed \/ task[t].edition = edits)
        /\ disturbed' = (disturbed /\ ~Afresh(t)) /\ masked' = (masked /\ ~Afresh(t))
        /\ UNCHANGED <<ha, bridge, connected, delayed, edits, faults>>
    BY <1>1, <1>3 DEF List
  <2>2. /\ task'[t].at = "sync" /\ task'[t].todo = Plan(task[t].local, bridge)
        /\ task'[t].edition = task[t].edition /\ OthersStay(t)
    BY <1>1, <2>1, Frame
  <2>3. task[t].local \in Catalogs /\ (task[t].edition = edits => task[t].local = ha)
    BY <1>1, <2>1, TaskShape DEF Aims
  <2>4. \A q : Aimed(q)' <=> Aimed(q)
    BY <2>1 DEF Aimed
  <2>5. \A e, todo : Covered(e, todo)' <=> Covered(e, todo)
    BY <2>1 DEF Covered
  <2>6. listed => listed'
    BY <2>1
  <2>7. task[t].edition = edits => listed'
    BY <2>1
  <2>8. Aims'
    <3>1. ASSUME NEW u \in Tasks, task'[u].at = "list", task'[u].edition = edits'
          PROVE  task'[u].local = ha'
      BY <1>1, <2>1, <2>2, <3>1 DEF Aims, OthersStay
    <3>2. ASSUME NEW u \in Tasks, task'[u].at = "sync", task'[u].edition = edits'
          PROVE  listed' /\ \A q \in task'[u].todo : Aimed(q)'
      <4>1. CASE u = t
        <5>1. \A q \in Plan(ha, bridge) : Aimed(q)
          BY <1>1, PlanFits DEF Aimed
        <5> QED
          BY <2>1, <2>2, <2>3, <2>4, <2>7, <3>2, <4>1, <5>1
      <4>2. CASE u # t
        BY <1>1, <2>1, <2>2, <2>4, <2>6, <3>2, <4>2 DEF Aims, OthersStay
      <4> QED
        BY <4>1, <4>2
    <3>3. \A d \in delayed' : d.edition = edits' => Aimed(d.request)'
      BY <1>1, <2>1, <2>4 DEF Aims
    <3> QED
      BY <3>1, <3>2, <3>3 DEF Aims
  <2>9. Covers'
    <3> SUFFICES ASSUME NEW u \in Tasks, task'[u].at = "sync", task'[u].edition = edits', ~disturbed',
                        NEW e \in Exports
                 PROVE  Covered(e, task[u].todo)'
      BY DEF Covers
    <3>1. CASE u = t
      <4>1. task'[u].todo = Plan(ha, bridge)
        BY <2>1, <2>2, <2>3, <3>1
      <4>2. Covered(e, Plan(ha, bridge))
        BY <1>1, PlanCovers
      <4> QED
        BY <2>1, <4>1, <4>2 DEF Covered
    <3>2. CASE u # t
      <4>1. task'[u] = task[u] /\ task[u].at = "sync" /\ task[u].edition = edits
        BY <2>1, <2>2, <3>2 DEF OthersStay
      <4>2. ~Afresh(t) /\ ~disturbed
        BY <2>1, <3>2, <4>1 DEF Afresh
      <4>3. Covered(e, task[u].todo)
        BY <1>1, <4>1, <4>2 DEF Covers
      <4> QED
        BY <2>1, <4>1, <4>3 DEF Covered
    <3> QED
      BY <3>1, <3>2
  <2>10. Current(t) <=> Current(t)'
    BY <2>1, <2>2 DEF Current
  <2>11. Minded'
    <3>1. CASE Current(t)
      BY <2>10, <3>1 DEF Minded
    <3>4. ~Current(t) => disturbed' = disturbed /\ masked' = masked
      <4>1. ~Current(t) => ~Afresh(t)
        BY <2>1 DEF Current, Afresh
      <4> QED
        BY <1>1, <2>1, <4>1 DEF TypeInv
    <3>2. CASE ~Current(t) /\ connected
      BY <2>1, <2>2, <2>6, <3>2, <3>4, MindedFrom
    <3>3. CASE ~Current(t) /\ ~connected
      BY <2>1, <2>2, <2>6, <3>3, <3>4, MindedFrom
    <3> QED
      BY <3>1, <3>2, <3>3
  <2> QED
    BY <2>8, <2>9, <2>11
<1>4. CASE Request(t)
  <2>1. task[t].at = "sync" /\ UNCHANGED <<ha, connected, delayed, edits, faults, listed, masked>>
    BY <1>4 DEF Request
  <2>2. PICK r \in Due(task[t].todo) :
           /\ Execute(r, task[t].edition, TRUE)
           /\ task' = [task EXCEPT ![t] =
                  IF Accepts(bridge, r) THEN [task[t] EXCEPT !.todo = @ \ {r}] ELSE [at |-> "failed"]]
    BY <1>4 DEF Request
  <2>3. PICK todo : todo = task[t].todo
    OBVIOUS
  <2>4. /\ r \in todo /\ WellPlanned(todo) /\ Fitting(r)
        /\ task[t].edition = edits => \A q \in todo : Aimed(q)
    BY <1>1, <2>1, <2>3, TaskShape DEF Due, WellPlanned, Aims
  <2>5. /\ task'[t] = IF Accepts(bridge, r) THEN [task[t] EXCEPT !.todo = @ \ {r}] ELSE [at |-> "failed"]
        /\ OthersStay(t)
    BY <1>1, <2>2, Frame
  <2>6. Accepts(bridge, r) => /\ task'[t].at = "sync" /\ task'[t].edition = task[t].edition
                              /\ task'[t].todo = todo \ {r}
    <3>1. task[t] \in [at : {"sync"}, todo : SUBSET Requests, edition : 0 .. edits]
      BY <1>1, <2>1 DEF TaskStates
    <3> QED
      BY <2>1, <2>3, <2>5, <3>1
  <2>7. ~Accepts(bridge, r) => task'[t].at = "failed"
    BY <2>5
  <2>8. /\ \A u \in Tasks \ {t} :
               /\ task'[u].at = "list" /\ task'[u].edition = edits' => task'[u].local = ha'
               /\ task'[u].at = "sync" /\ task'[u].edition = edits' =>
                     listed' /\ \A q \in task'[u].todo : Aimed(q)'
               /\ task'[u].at = "sync" /\ task'[u].edition = edits' /\ ~disturbed' =>
                     \A e \in Exports : Covered(e, task[u].todo)'
        /\ \A d \in delayed' : d.edition = edits' => Aimed(d.request)'
        /\ ~disturbed' /\ listed => task[t].edition = edits /\ ~disturbed
        /\ ~disturbed' /\ listed => (ha = bridge => ha' = bridge')
    BY <2>1, <2>2, <2>4, <2>5, ExecuteRest
  <2>9. \A q : Aimed(q)' <=> Aimed(q)
    BY <2>1 DEF Aimed
  <2>10. Aims'
    <3>1. task'[t].at = "sync" /\ task'[t].edition = edits' =>
             listed' /\ \A q \in task'[t].todo : Aimed(q)'
      BY <1>1, <2>1, <2>4, <2>6, <2>7, <2>9 DEF Aims
    <3>2. task'[t].at # "list"
      BY <2>6, <2>7
    <3> QED
      BY <2>8, <3>1, <3>2 DEF Aims
  <2>11. ASSUME task'[t].at = "sync", task'[t].edition = edits', ~disturbed', NEW e \in Exports
         PROVE  Covered(e, task[t].todo)'
    <3>1. /\ task[t].edition = edits /\ listed /\ ~disturbed /\ Accepts(bridge, r) /\ Aimed(r)
          /\ task'[t].todo = todo \ {r}
      BY <1>1, <2>1, <2>4, <2>6, <2>7, <2>8, <2>11 DEF Aims
    <3>2. Covered(e, todo)
      BY <1>1, <2>1, <2>3, <3>1 DEF Covers
    <3>3. bridge' = Executed(bridge, r) /\ ha' = ha
      BY <2>1, <2>2 DEF Execute
    <3>4. \A q \in todo : Fitting(q) /\ Aimed(q)
      BY <2>4, <3>1 DEF WellPlanned
    <3>5. CASE e = r.export
      <4>1. bridge'[e] = ha[e]
        BY <1>1, <2>4, <3>1, <3>2, <3>3, <3>5, RightStays DEF Covered, WellPlanned
      <4> QED
        BY <3>3, <4>1 DEF Covered
    <3>6. CASE e # r.export
      <4>1. Covered(e, todo \ {r})
        BY <3>2, <3>6 DEF Covered
      <4>2. Covered(e, todo \ {r})'
        BY <1>1, <2>4, <3>1, <3>3, <3>4, <4>1, CoverStays
      <4> QED
        BY <3>1, <4>2 DEF Covered
    <3> QED
      BY <3>5, <3>6
  <2>12. Covers'
    BY <2>8, <2>11 DEF Covers
  <2>13. Minded'
    <3>1. CASE \E u \in Tasks \ {t} : Current(u)
      <4>1. \E u \in Tasks : Current(u)'
        BY <2>1, <2>5, <3>1, CurrentStays
      <4> QED
        BY <4>1 DEF Minded
    <3>2. CASE ~\E u \in Tasks \ {t} : Current(u)
      <4>1. CASE Current(t)
        <5>1. Current(t)'
          BY <2>1, <2>6, <2>7, <4>1 DEF Current
        <5> QED
          BY <5>1 DEF Minded
      <4>2. CASE ~Current(t)
        <5>1. ha # bridge \/ ~listed => ~connected \/ disturbed \/ masked
          BY <1>1, <3>2, <4>2 DEF Minded
        <5>2. disturbed => disturbed'
          BY <2>2 DEF Execute
        <5> QED
          BY <2>1, <2>8, <5>1, <5>2 DEF Minded
      <4> QED
        BY <4>1, <4>2
    <3> QED
      BY <3>1, <3>2
  <2> QED
    BY <2>10, <2>12, <2>13
<1>5. CASE LoseRequest(t)
  <2>1. /\ task[t].at = "sync"
        /\ task' = [task EXCEPT ![t] = [at |-> "failed"]]
        /\ UNCHANGED <<ha, connected, edits, listed, masked>>
    BY <1>5 DEF LoseRequest
  <2>2. PICK r \in Due(task[t].todo) :
           \/ UNCHANGED <<bridge, disk, delayed, disturbed>>
           \/ \E saved \in BOOLEAN : Execute(r, task[t].edition, saved) /\ UNCHANGED delayed
           \/ /\ delayed' = delayed \cup {[request |-> r, edition |-> task[t].edition]}
              /\ UNCHANGED <<bridge, disk, disturbed>>
    BY <1>5 DEF LoseRequest
  <2>3. /\ r \in task[t].todo /\ Fitting(r) /\ (task[t].edition = edits => Aimed(r))
    BY <1>1, <2>1, TaskShape DEF Due, WellPlanned, Aims
  <2>4. task'[t].at = "failed" /\ OthersStay(t)
    BY <1>1, <2>1, Frame
  <2>5. Minded'
    BY <2>4 DEF Minded, Current
  <2>6. ASSUME NEW saved \in BOOLEAN, Execute(r, task[t].edition, saved), UNCHANGED delayed
        PROVE  Aims' /\ Covers' /\ Minded'
    <3>1. /\ \A u \in Tasks \ {t} :
                 /\ task'[u].at = "list" /\ task'[u].edition = edits' => task'[u].local = ha'
                 /\ task'[u].at = "sync" /\ task'[u].edition = edits' =>
                       listed' /\ \A q \in task'[u].todo : Aimed(q)'
                 /\ task'[u].at = "sync" /\ task'[u].edition = edits' /\ ~disturbed' =>
                       \A e \in Exports : Covered(e, task[u].todo)'
          /\ \A d \in delayed' : d.edition = edits' => Aimed(d.request)'
      BY <2>1, <2>3, <2>4, <2>6, ExecuteRest
    <3> QED
      BY <2>4, <2>5, <3>1 DEF Aims, Covers
  <2>7. CASE UNCHANGED <<bridge, disk, delayed, disturbed>>
    BY <2>1, <2>4, <2>5, <2>7, CalmRest
  <2>8. CASE /\ delayed' = delayed \cup {[request |-> r, edition |-> task[t].edition]}
             /\ UNCHANGED <<bridge, disk, disturbed>>
    <3>1. \A q : Aimed(q)' <=> Aimed(q)
      BY <2>1 DEF Aimed
    <3>2. Aims'
      <4>1. \A d \in delayed' : d.edition = edits' => Aimed(d.request)'
        BY <1>1, <2>1, <2>3, <2>8, <3>1 DEF Aims
      <4>2. ASSUME NEW u \in Tasks, task'[u].at = "list", task'[u].edition = edits'
            PROVE  task'[u].local = ha'
        BY <1>1, <2>1, <2>4, <4>2 DEF Aims, OthersStay
      <4>3. ASSUME NEW u \in Tasks, task'[u].at = "sync", task'[u].edition = edits'
            PROVE  listed' /\ \A q \in task'[u].todo : Aimed(q)'
        BY <1>1, <2>1, <2>4, <3>1, <4>3 DEF Aims, OthersStay
      <4> QED
        BY <4>1, <4>2, <4>3 DEF Aims
    <3>3. Covers'
      <4> SUFFICES ASSUME NEW u \in Tasks, task'[u].at = "sync", task'[u].edition = edits', ~disturbed',
                          NEW e \in Exports
                   PROVE  Covered(e, task[u].todo)'
        BY DEF Covers
      <4>1. task'[u] = task[u] /\ Covered(e, task[u].todo)
        BY <1>1, <2>1, <2>4, <2>8 DEF Covers, OthersStay
      <4> QED
        BY <2>1, <2>8, <4>1 DEF Covered
    <3> QED
      BY <2>5, <3>2, <3>3
  <2> QED
    BY <2>2, <2>6, <2>7, <2>8
<1>6. CASE Finish(t)
  <2>1. /\ task[t].at = "sync" /\ task[t].todo = {} /\ connected' = TRUE
        /\ masked' = (masked \/ (~connected /\ task[t].edition # edits))
        /\ task' = [task EXCEPT ![t] = Idle]
        /\ UNCHANGED <<ha, bridge, delayed, edits, listed, disturbed>>
    BY <1>6 DEF Finish
  <2>2. task'[t].at = "idle" /\ OthersStay(t)
    BY <1>1, <2>1, Frame, TaskMember
  <2>3. Aims' /\ Covers'
    BY <2>1, <2>2, CalmRest
  <2>4. task[t].edition = edits /\ ~disturbed => ha = bridge /\ listed
    <3> SUFFICES ASSUME task[t].edition = edits, ~disturbed PROVE ha = bridge /\ listed
      OBVIOUS
    <3>1. listed
      BY <1>1, <2>1 DEF Aims
    <3>2. \A e \in Exports : bridge[e] = ha[e]
      BY <1>1, <2>1 DEF Covers, Covered
    <3> QED
      BY <1>1, <3>1, <3>2 DEF Catalogs
  <2>5. masked => masked'
    BY <2>1
  <2>6. task[t].edition # edits => ~Current(t) /\ (connected \/ masked')
    BY <2>1 DEF Current
  <2>7. Minded'
    BY <2>1, <2>2, <2>4, <2>5, <2>6, MindedFrom
  <2> QED
    BY <2>3, <2>7
<1> QED
  BY <1>3, <1>4, <1>5, <1>6
-----------------------------------------------------------------------------
(* The other steps *)

LEMMA SyncingShape ==
    Syncing.at = "list" /\ Syncing.local = ha /\ Syncing.edition = edits
BY DEF Syncing

LEMMA FlagStep ==
    ASSUME IInv, NEW t \in Tasks,
           \/ Fail(t) \/ LoseList(t) \/ Saved(t) \/ Refresh(t) \/ LoseRefresh(t)
           \/ Poll(t) \/ Answered(t) \/ LosePoll(t)
           \/ \E reachable \in BOOLEAN : t = "setup" /\ Setup(reachable)
    PROVE  Aims' /\ Covers' /\ Minded'
<1>1. /\ TypeInv /\ UNCHANGED <<ha, bridge, delayed, edits, listed, disturbed>>
      /\ task \in [Tasks -> TaskStates] /\ task[t] = task[t]
  BY DEF IInv, TypeInv, Fail, LoseList, Saved, Refresh, LoseRefresh, Poll, Answered, LosePoll, Setup, observers
<1>2. \/ masked' = masked \/ masked' = (masked \/ ~connected)
      \/ masked' = (masked \/ (task[t].was /\ ~connected))
  BY DEF Fail, LoseList, Saved, Refresh, LoseRefresh, Poll, Answered, LosePoll, Setup, observers
<1>3. masked => masked'
  BY <1>2
<1>4. ASSUME NEW s, task' = [task EXCEPT ![t] = s], s = Syncing \/ s.at \notin {"list", "sync"},
             \/ s.at \in {"failed", "list"} \/ ~connected' \/ masked'
             \/ ~Current(t) /\ connected
      PROVE  Aims' /\ Covers' /\ Minded'
  <2>1. task'[t] = s /\ OthersStay(t)
    BY <1>1, <1>4, Frame
  <2>2. Aims' /\ Covers'
    BY <1>1, <1>4, <2>1, SyncingShape, CalmRest
  <2>3. s.at \in {"failed", "list"} => Current(t)'
    BY <1>1, <1>4, <2>1, SyncingShape DEF Current
  <2>4. Minded'
    BY <1>1, <1>3, <1>4, <2>1, <2>3, MindedFrom
  <2> QED
    BY <2>2, <2>4
<1>5. Idle.at = "idle" /\ [at |-> "failed"].at = "failed" /\ Syncing.at = "list"
  BY TaskMember, SyncingShape
<1>6. CASE Fail(t)
  BY <1>4, <1>5, <1>6 DEF Fail
<1>7. CASE LoseList(t)
  BY <1>4, <1>5, <1>7 DEF LoseList
<1>8. CASE Saved(t)
  BY <1>4, <1>5, <1>8 DEF Saved
<1>9. CASE LosePoll(t)
  BY <1>4, <1>5, <1>9 DEF LosePoll
<1>10. CASE Refresh(t) \/ LoseRefresh(t)
  <2>1. task[t].at = "idle" /\ task' = task /\ OthersStay(t) /\ task'[t].at = "idle"
    BY <1>10, TaskMember DEF Refresh, LoseRefresh, OthersStay
  <2>2. Aims' /\ Covers'
    BY <1>1, <2>1, CalmRest
  <2>3. ~Current(t)
    BY <2>1 DEF Current
  <2>4. connected \/ masked' \/ ~connected'
    BY <1>10 DEF Refresh, LoseRefresh
  <2>5. Minded'
    BY <1>1, <1>3, <2>1, <2>3, <2>4, MindedFrom
  <2> QED
    BY <2>2, <2>5
<1>11. CASE Poll(t)
  <2> DEFINE s == [at |-> "poll", was |-> connected]
  <2>1. /\ task[t].at = "idle" /\ task' = [task EXCEPT ![t] = s] /\ connected' = connected
        /\ s.at = "poll"
    BY <1>11, TaskMember DEF Poll
  <2> HIDE DEF s
  <2>2. ~Current(t)
    BY <2>1 DEF Current
  <2>3. ~connected' \/ connected
    BY <2>1
  <2> QED
    BY <1>4, <2>1, <2>2, <2>3
<1>12. CASE Answered(t)
  <2> DEFINE s == IF task[t].was THEN Idle ELSE Syncing
  <2>1. /\ task[t].at = "poll" /\ task' = [task EXCEPT ![t] = s]
        /\ masked' = (masked \/ (task[t].was /\ ~connected))
    BY <1>1, <1>12 DEF Answered
  <2>2. s = Syncing \/ s.at \notin {"list", "sync"}
    BY <1>5
  <2>3. ~Current(t)
    BY <2>1 DEF Current
  <2>4. task[t].was => connected \/ masked'
    BY <2>1
  <2>5. ~task[t].was => s.at = "list"
    BY <1>5
  <2> HIDE DEF s
  <2> QED
    BY <1>4, <2>1, <2>2, <2>3, <2>4, <2>5
<1>13. ASSUME NEW reachable \in BOOLEAN, t = "setup", Setup(reachable)
       PROVE  Aims' /\ Covers' /\ Minded'
  <2> DEFINE s == IF reachable THEN Syncing ELSE Idle
  <2>1. task' = [task EXCEPT ![t] = s] /\ connected' = reachable
    BY <1>13 DEF Setup
  <2>2. s = Syncing \/ s.at \notin {"list", "sync"}
    BY <1>5
  <2>3. s.at = "list" \/ ~connected'
    BY <1>5, <2>1
  <2> HIDE DEF s
  <2> QED
    BY <1>4, <2>1, <2>2, <2>3
<1> QED
  BY <1>6, <1>7, <1>8, <1>9, <1>10, <1>11, <1>12, <1>13

\* The editing task will list the bridge's catalog; what is under way is of an
\* older one.
LEMMA EditStep ==
    ASSUME IInv, NEW t \in Tasks, Edit(t)
    PROVE  Aims' /\ Covers' /\ Minded'
<1>1. TypeInv /\ edits \in Nat /\ edits' = edits + 1 /\ task' = [task EXCEPT ![t] = [at |-> "saving"]]
  BY BoundsAssumption DEF IInv, TypeInv, TypeOK, Edit
<1>2. task'[t].at = "saving" /\ OthersStay(t) /\ delayed' = delayed
  <2>1. task'[t] = [at |-> "saving"] /\ OthersStay(t)
    BY <1>1, Frame
  <2> QED
    BY <2>1 DEF Edit
<1>3. ASSUME NEW u \in Tasks, task'[u].at \in {"list", "sync"}
      PROVE  task'[u].edition # edits'
  <2>1. u # t /\ task'[u] = task[u]
    BY <1>2, <1>3 DEF OthersStay
  <2>2. task[u].edition \in 0 .. edits
    BY <1>1, <1>3, <2>1, TaskShape
  <2> QED
    BY <1>1, <2>1, <2>2
<1>4. ASSUME NEW d \in delayed' PROVE d.edition # edits'
  <2>1. d.edition \in 0 .. edits
    BY <1>1, <1>2, <1>4 DEF TypeInv, TypeOK
  <2> QED
    BY <1>1, <2>1
<1>5. Minded'
  BY <1>2 DEF Minded, Current
<1> QED
  BY <1>3, <1>4, <1>5 DEF Aims, Covers

LEMMA DeliverStep ==
    ASSUME IInv, NEW d \in delayed, Deliver(d)
    PROVE  Aims' /\ Covers' /\ Minded'
<1>0. PICK saved \in BOOLEAN : Execute(d.request, d.edition, saved)
  BY DEF Deliver
<1>1. /\ delayed' \subseteq delayed
      /\ UNCHANGED <<ha, edits, listed, connected, masked, task>>
      /\ Fitting(d.request) /\ (d.edition = edits => Aimed(d.request))
  BY DEF Deliver, IInv, TypeInv, Aims
<1>2. \A t \in Tasks : OthersStay(t)
  BY <1>1 DEF OthersStay
<1>3. /\ "setup" \in Tasks /\ "command" \in Tasks
      /\ \A u \in Tasks : u \in Tasks \ {"setup"} \/ u \in Tasks \ {"command"}
  BY DEF Tasks, Loops
<1>4. ASSUME NEW t \in Tasks
      PROVE  /\ \A u \in Tasks \ {t} :
                   /\ task'[u].at = "list" /\ task'[u].edition = edits' => task'[u].local = ha'
                   /\ task'[u].at = "sync" /\ task'[u].edition = edits' =>
                         listed' /\ \A q \in task'[u].todo : Aimed(q)'
                   /\ task'[u].at = "sync" /\ task'[u].edition = edits' /\ ~disturbed' =>
                         \A e \in Exports : Covered(e, task[u].todo)'
             /\ \A c \in delayed' : c.edition = edits' => Aimed(c.request)'
             /\ ~disturbed' /\ listed => (ha = bridge => ha' = bridge')
  BY <1>0, <1>1, <1>2, ExecuteRest
<1>5. Aims'
  BY <1>3, <1>4 DEF Aims
<1>6. Covers'
  BY <1>3, <1>4 DEF Covers
<1>7. \A t \in Tasks : Current(t)' <=> Current(t)
  BY <1>1 DEF Current
<1>8. disturbed => disturbed'
  BY <1>0 DEF Execute
<1>9. ~disturbed' /\ listed => (ha = bridge => ha' = bridge')
  BY <1>3, <1>4
<1>10. Minded'
  BY <1>1, <1>7, <1>8, <1>9 DEF IInv, Minded
<1> QED
  BY <1>5, <1>6, <1>10

\* What was lost in the restart was changed after the listing, or the listing is
\* still to come.
LEMMA RestartStep == ASSUME IInv, Restart PROVE Aims' /\ Covers' /\ Minded'
<1>1. /\ bridge' = disk /\ delayed' = {} /\ disturbed' = (disturbed \/ (listed /\ disk # bridge))
      /\ UNCHANGED <<ha, connected, task, edits, listed, masked>>
      /\ Aims /\ Covers /\ Minded
  BY DEF Restart, IInv
<1>2. \A q : Aimed(q)' <=> Aimed(q)
  BY <1>1 DEF Aimed
<1>3. Aims'
  BY <1>1, <1>2 DEF Aims
<1>4. Covers'
  <2> SUFFICES ASSUME NEW t \in Tasks, task'[t].at = "sync", task'[t].edition = edits', ~disturbed',
                      NEW e \in Exports
               PROVE  Covered(e, task[t].todo)'
    BY DEF Covers
  <2>1. listed /\ disk = bridge /\ ~disturbed
    BY <1>1 DEF Aims
  <2>2. Covered(e, task[t].todo)
    BY <1>1, <2>1 DEF Covers
  <2> QED
    BY <1>1, <2>1, <2>2 DEF Covered
<1>5. \A t \in Tasks : Current(t)' <=> Current(t)
  BY <1>1 DEF Current
<1>6. Minded'
  BY <1>1, <1>5 DEF Minded
<1> QED
  BY <1>3, <1>4, <1>6

-----------------------------------------------------------------------------
(* The invariant and what follows *)

LEMMA InitInv == Init => IInv
<1> SUFFICES ASSUME Init PROVE IInv
  OBVIOUS
<1>1. TypeInv
  BY TypeInit
<1>2. \A t \in Tasks : task[t].at \in {"idle", "begin"}
  BY DEF Init, Idle
<1>3. Aims /\ Covers
  BY <1>2 DEF Init, Aims, Covers
<1>4. Minded
  BY DEF Init, Minded
<1> QED
  BY <1>1, <1>3, <1>4 DEF IInv

LEMMA StepInv == IInv /\ [Next]_vars => IInv'
<1> SUFFICES ASSUME IInv, [Next]_vars PROVE IInv'
  OBVIOUS
<1>1. CASE Next
  <2>1. TypeInv'
    BY <1>1, TypeStep DEF IInv
  <2>2. Users \subseteq Tasks /\ Loops \subseteq Tasks /\ "setup" \in Tasks
    BY DEF Tasks
  <2>3. ASSUME NEW t \in Tasks, TaskStep(t) \/ LoseRequest(t) \/ LoseList(t)
        PROVE  Aims' /\ Covers' /\ Minded'
    BY <2>3, SyncStep, FlagStep DEF TaskStep
  <2>4. ASSUME NEW d \in delayed, Deliver(d) PROVE Aims' /\ Covers' /\ Minded'
    BY <2>4, DeliverStep
  <2>5. ASSUME NEW t \in Users, Edit(t) \/ Refresh(t) \/ LoseRefresh(t)
        PROVE  Aims' /\ Covers' /\ Minded'
    BY <2>2, <2>5, EditStep, FlagStep
  <2>6. ASSUME NEW reachable \in BOOLEAN, Setup(reachable) PROVE Aims' /\ Covers' /\ Minded'
    BY <2>2, <2>6, FlagStep
  <2>7. ASSUME NEW t \in Loops, LosePoll(t) PROVE Aims' /\ Covers' /\ Minded'
    BY <2>2, <2>7, FlagStep
  <2>8. ASSUME Restart PROVE Aims' /\ Covers' /\ Minded'
    BY <2>8, RestartStep
  <2>9. Aims' /\ Covers' /\ Minded'
    BY <1>1, <2>3, <2>4, <2>5, <2>6, <2>7, <2>8 DEF Next
  <2> QED
    BY <2>1, <2>9 DEF IInv
<1>2. CASE UNCHANGED vars
  BY <1>2 DEF vars, IInv, TypeInv, TypeOK, TaskStates, Aims, Covers, Minded, Aimed, Covered, Current,
              Fitting, Executed, Accepts
<1> QED
  BY <1>1, <1>2

LEMMA Invariance == Spec => []IInv
<1> QED
  BY InitInv, StepInv, PTL DEF Spec

\* Every variable keeps its type, and no plan holds two requests for one export
\* (sync_catalog).
THEOREM TypeCorrect == Spec => []TypeOK
<1>1. IInv => TypeOK
  BY DEF IInv, TypeInv
<1> QED
  BY <1>1, Invariance, PTL

\* As long as the catalogs differ a synchronization is under way or the flag
\* bridge_connected is down, so that the next poll synchronizes
\* (async_push_catalog, _command_loop, _status_loop): the only exceptions are the
\* three that NoSilentDivergence names.
THEOREM NoDivergence == Spec => []NoSilentDivergence
<1>1. ASSUME NEW t \in Tasks, Current(t) PROVE UnderWay
  BY <1>1 DEF Current, UnderWay
<1>2. IInv => NoSilentDivergence
  BY <1>1 DEF IInv, Minded, NoSilentDivergence
<1> QED
  BY <1>2, Invariance, PTL
=============================================================================
