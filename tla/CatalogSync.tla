---------------------------- MODULE CatalogSync ----------------------------
(***************************************************************************)
(* How Home Assistant keeps the bridge's catalog equal to its own           *)
(* (custom_components/thatsmatter: coordinator.py, bridge_client.py,        *)
(* export_manager.py, store.py).  Every change by the user is followed by a *)
(* synchronization: list what the bridge has, delete, create and patch one  *)
(* export after the other.  One that fails takes the flag bridge_connected  *)
(* down, and the two polling loops synchronize when a poll succeeds after   *)
(* the flag was down.                                                       *)
(*                                                                          *)
(* All of it runs in one event loop: a task goes on undisturbed from one    *)
(* request to the bridge to the next, and others run while it waits.  A     *)
(* request may fail without effect, after it, or before an effect that      *)
(* comes when its client has given up.                                      *)
(***************************************************************************)
EXTENDS Integers, FiniteSets

CONSTANTS
    Exports, \* export ids
    Fields,  \* name, type, primary_entity_id, linked, area_id, enabled
    DataOf,  \* what each export may hold: values of its fields
    Users,   \* tasks of the user interface and of services
    MaxEdits, MaxFaults, \* bounds
    None     \* no such export

Data == UNION {DataOf[e] : e \in Exports}
Catalogs == {c \in [Exports -> Data \cup {None}] : \A e \in Exports : c[e] \in DataOf[e] \cup {None}}
Loops == {"command", "status"}
Tasks == {"setup"} \cup Loops \cup Users

\* PATCH replaces the fields it is given, each by itself.
Patched(old, data, fields) == [f \in Fields |-> IF f \in fields THEN data[f] ELSE old[f]]

ASSUME DataAssumption ==
    \A e \in Exports : \A data \in DataOf[e] :
        /\ data = [f \in Fields |-> data[f]]
        /\ \A old \in DataOf[e], fields \in SUBSET Fields : Patched(old, data, fields) \in DataOf[e]
ASSUME NoneAssumption == None \notin Data
ASSUME BoundsAssumption == MaxEdits \in Nat /\ MaxFaults \in Nat

VARIABLES
    ha,        \* the catalog of Home Assistant (ExportStore)
    bridge,    \* the catalog of the bridge, in memory
    disk,      \* exports.json: what a restart of the bridge would have
    connected, \* bridge_connected
    task,      \* what each task is in the middle of
    delayed,   \* requests given up and still to be executed
    edits,     \* changes of ha so far
    faults,    \* requests that failed so far
    \* Observers, read by no action.
    listed,    \* a synchronization of the present catalog has listed the bridge's
    disturbed, \* since it was last listed, a synchronization of an older catalog or
               \* a restart has changed the bridge's
    masked     \* since then the flag went up with no synchronization that makes up
               \* for the one that took it down

vars == <<ha, bridge, disk, connected, task, delayed, edits, faults, listed, disturbed, masked>>
observers == <<listed, disturbed, masked>>

Idle == [at |-> "idle"]

-----------------------------------------------------------------------------
(* Requests that change the bridge's catalog *)

\* The fields in which the bridge's export differs from the local one.
Differing(local, remote) == {f \in Fields : local[f] # remote[f]}

Creations(local, remote) ==
    {[do |-> "create", export |-> e, data |-> local[e]] :
        e \in {e \in Exports : remote[e] = None /\ local[e] # None}}

Changed(local, remote) ==
    {e \in Exports : remote[e] # None /\ local[e] # None /\ Differing(local[e], remote[e]) # {}}

Patches(local, remote) ==
    {[do |-> "patch", export |-> e, data |-> local[e], fields |-> Differing(local[e], remote[e])] :
        e \in Changed(local, remote)}

Deletions(local, remote) ==
    {[do |-> "delete", export |-> e] : e \in {e \in Exports : remote[e] # None /\ local[e] = None}}

\* Mutant of Plan: an export that has changed is deleted and created.
PlanReplacing(local, remote) ==
    Creations(local, remote) \cup Deletions(local, remote)
    \cup {[do |-> "delete", export |-> e] : e \in Changed(local, remote)}
    \cup {[do |-> "create", export |-> e, data |-> local[e]] : e \in Changed(local, remote)}

\* sync_catalog: what it does, given the list it got.
Plan(local, remote) ==
    Creations(local, remote) \cup Patches(local, remote) \cup Deletions(local, remote)

\* Deletions go first; otherwise the order is that of the lists, which is any.
Due(todo) ==
    LET deletions == {r \in todo : r.do = "delete"}
    IN  IF deletions = {} THEN todo ELSE deletions

\* The bridge refuses to create what it has and to change what it has not.
Accepts(catalog, r) == (catalog[r.export] = None) = (r.do = "create")

Executed(catalog, r) ==
    IF ~Accepts(catalog, r) THEN catalog
    ELSE [catalog EXCEPT ![r.export] =
             CASE r.do = "create" -> r.data
               [] r.do = "delete" -> None
               [] OTHER -> Patched(@, r.data, r.fields)]

\* Executing a request of a synchronization that took its snapshot at an edition.
\* A save that fails leaves the change in memory; the next one has it all.
Execute(r, edition, saved) ==
    /\ bridge' = Executed(bridge, r)
    /\ disk' = IF saved /\ Accepts(bridge, r) THEN bridge' ELSE disk
    /\ disturbed' = (disturbed \/ (listed /\ edition # edits))

Fault == faults < MaxFaults /\ faults' = faults + 1

-----------------------------------------------------------------------------
(* async_push_catalog: one synchronization by task t *)

\* The local catalog is read before the bridge is asked for its own.
Syncing == [at |-> "list", local |-> ha, edition |-> edits]

\* This is the only synchronization of the present catalog that goes by a list of
\* the bridge's: whatever has gone by before, it makes up for it or fails.
Afresh(t) ==
    /\ task[t].edition = edits
    /\ \A u \in Tasks \ {t} : task[u].at = "sync" => task[u].edition # edits

List(t) ==
    /\ task[t].at = "list"
    /\ task' = [task EXCEPT ![t] =
           [at |-> "sync", todo |-> Plan(@.local, bridge), edition |-> @.edition]]
    /\ listed' = (listed \/ task[t].edition = edits)
    /\ disturbed' = (disturbed /\ ~Afresh(t))
    /\ masked' = (masked /\ ~Afresh(t))
    /\ UNCHANGED <<ha, bridge, disk, connected, delayed, edits, faults>>

\* A request goes through ...
Request(t) ==
    /\ task[t].at = "sync"
    /\ \E r \in Due(task[t].todo) :
          /\ Execute(r, task[t].edition, TRUE)
          /\ task' = [task EXCEPT ![t] =
                 IF Accepts(bridge, r) THEN [task[t] EXCEPT !.todo = @ \ {r}] ELSE [at |-> "failed"]]
    /\ UNCHANGED <<ha, connected, delayed, edits, faults, listed, masked>>

\* ... or its client sees it fail: it was lost, or its answer, or the change could
\* not be saved, or it is still to come.
LoseRequest(t) ==
    /\ task[t].at = "sync"
    /\ Fault
    /\ \E r \in Due(task[t].todo) :
          \/ UNCHANGED <<bridge, disk, delayed, disturbed>>
          \/ \E saved \in BOOLEAN : Execute(r, task[t].edition, saved) /\ UNCHANGED delayed
          \/ /\ delayed' = delayed \cup {[request |-> r, edition |-> task[t].edition]}
             /\ UNCHANGED <<bridge, disk, disturbed>>
    /\ task' = [task EXCEPT ![t] = [at |-> "failed"]]
    /\ UNCHANGED <<ha, connected, edits, listed, masked>>

LoseList(t) ==
    /\ task[t].at = "list"
    /\ Fault
    /\ task' = [task EXCEPT ![t] = [at |-> "failed"]]
    /\ UNCHANGED <<ha, bridge, disk, connected, delayed, edits, observers>>

Deliver(d) ==
    /\ d \in delayed
    /\ \E saved \in BOOLEAN : Execute(d.request, d.edition, saved)
    /\ delayed' = delayed \ {d}
    /\ UNCHANGED <<ha, connected, task, edits, faults, listed, masked>>

\* The bridge is restarted, perhaps between two polls: what was not saved is gone.
Restart ==
    /\ bridge' = disk
    /\ delayed' = {}
    /\ disturbed' = (disturbed \/ (listed /\ disk # bridge))
    /\ UNCHANGED <<ha, disk, connected, task, edits, faults, listed, masked>>

\* Nothing is left to do: the flag goes up.
Finish(t) ==
    /\ task[t].at = "sync"
    /\ task[t].todo = {}
    /\ connected' = TRUE
    /\ masked' = (masked \/ (~connected /\ task[t].edition # edits))
    /\ task' = [task EXCEPT ![t] = Idle]
    /\ UNCHANGED <<ha, bridge, disk, delayed, edits, faults, listed, disturbed>>

\* Mutant of Fail: a failure of the user's change is logged.
FailQuietly(t) ==
    /\ task[t].at = "failed"
    /\ connected' = (t \in Users /\ connected)
    /\ task' = [task EXCEPT ![t] = Idle]
    /\ UNCHANGED <<ha, bridge, disk, delayed, edits, faults, observers>>

\* A request has failed, be it by a refusal of the bridge.
Fail(t) ==
    /\ task[t].at = "failed"
    /\ connected' = FALSE
    /\ task' = [task EXCEPT ![t] = Idle]
    /\ UNCHANGED <<ha, bridge, disk, delayed, edits, faults, observers>>

-----------------------------------------------------------------------------
(* Changes by the user *)

\* async_add_entity_export, async_update_export_fields, async_remove_export_id
\* and async_reset_export_name: the store is changed, then saved ...
Edit(t) ==
    /\ task[t] = Idle
    /\ edits < MaxEdits
    /\ \E e \in Exports : \E data \in DataOf[e] \cup {None} :
          /\ data # ha[e]
          /\ ha' = [ha EXCEPT ![e] = data]
    /\ edits' = edits + 1
    /\ task' = [task EXCEPT ![t] = [at |-> "saving"]]
    /\ listed' = FALSE
    /\ disturbed' = FALSE
    /\ UNCHANGED <<bridge, disk, connected, delayed, faults, masked>>

\* ... and the bridge is told.
Saved(t) ==
    /\ task[t].at = "saving"
    /\ task' = [task EXCEPT ![t] = Syncing]
    /\ UNCHANGED <<ha, bridge, disk, connected, delayed, edits, faults, observers>>

\* async_open_pairing_window and the repair flow refresh the status: the flag
\* follows the answer and nothing is synchronized.
Refresh(t) ==
    /\ task[t] = Idle
    /\ connected' = TRUE
    /\ masked' = (masked \/ ~connected)
    /\ UNCHANGED <<ha, bridge, disk, task, delayed, edits, faults, listed, disturbed>>

LoseRefresh(t) ==
    /\ task[t] = Idle
    /\ Fault
    /\ connected' = FALSE
    /\ UNCHANGED <<ha, bridge, disk, task, delayed, edits, observers>>

-----------------------------------------------------------------------------
(* async_start and the loops *)

Setup(reachable) ==
    /\ task["setup"].at = "begin"
    /\ connected' = reachable
    /\ task' = [task EXCEPT !["setup"] = IF reachable THEN Syncing ELSE Idle]
    /\ UNCHANGED <<ha, bridge, disk, delayed, edits, faults, observers>>

\* _command_loop and _status_loop note the flag and ask the bridge.
Poll(t) ==
    /\ task["setup"] = Idle
    /\ task[t] = Idle
    /\ task' = [task EXCEPT ![t] = [at |-> "poll", was |-> connected]]
    /\ UNCHANGED <<ha, bridge, disk, connected, delayed, edits, faults, observers>>

\* Mutant of Answered: a reconnect is noticed and that is all.
AnsweredOnly(t) ==
    /\ task[t].at = "poll"
    /\ connected' = TRUE
    /\ task' = [task EXCEPT ![t] = Idle]
    /\ masked' = (masked \/ (task[t].was /\ ~connected))
    /\ UNCHANGED <<ha, bridge, disk, delayed, edits, faults, listed, disturbed>>

\* The answer raises the flag; what the loop compares with is the flag as it was
\* before the request.
Answered(t) ==
    /\ task[t].at = "poll"
    /\ connected' = TRUE
    /\ task' = [task EXCEPT ![t] = IF @.was THEN Idle ELSE Syncing]
    /\ masked' = (masked \/ (task[t].was /\ ~connected))
    /\ UNCHANGED <<ha, bridge, disk, delayed, edits, faults, listed, disturbed>>

LosePoll(t) ==
    /\ task[t].at = "poll"
    /\ Fault
    /\ connected' = FALSE
    /\ task' = [task EXCEPT ![t] = Idle]
    /\ UNCHANGED <<ha, bridge, disk, delayed, edits, observers>>

-----------------------------------------------------------------------------
\* Whatever either side has kept from before, and the bridge has saved.
Init ==
    /\ ha \in Catalogs
    /\ bridge \in Catalogs
    /\ disk = bridge
    /\ connected = FALSE
    /\ task = [t \in Tasks |-> IF t = "setup" THEN [at |-> "begin"] ELSE Idle]
    /\ delayed = {}
    /\ edits = 0
    /\ faults = 0
    /\ listed = FALSE
    /\ disturbed = FALSE
    /\ masked = FALSE

TaskStep(t) ==
    \/ List(t) \/ Request(t) \/ Finish(t) \/ Fail(t)
    \/ t \in Users /\ Saved(t)
    \/ t \in Loops /\ (Poll(t) \/ Answered(t))

Next ==
    \/ \E t \in Tasks : TaskStep(t) \/ LoseRequest(t) \/ LoseList(t)
    \/ \E d \in delayed : Deliver(d)
    \/ Restart
    \/ \E t \in Users : Edit(t) \/ Refresh(t) \/ LoseRefresh(t)
    \/ \E reachable \in BOOLEAN : Setup(reachable)
    \/ \E t \in Loops : LosePoll(t)

\* The event loop runs every task, and the loops poll for ever.
Fairness ==
    /\ WF_vars(\E reachable \in BOOLEAN : Setup(reachable))
    /\ \A t \in Tasks : WF_vars(TaskStep(t))

Spec == Init /\ [][Next]_vars /\ Fairness

-----------------------------------------------------------------------------
(* Properties *)

Requests ==
    [do : {"create"}, export : Exports, data : Data]
    \cup [do : {"delete"}, export : Exports]
    \cup [do : {"patch"}, export : Exports, data : Data, fields : SUBSET Fields]

\* Every variable has its type, and a plan holds one request per export at most.
TypeOK ==
    /\ ha \in Catalogs /\ bridge \in Catalogs /\ disk \in Catalogs
    /\ connected \in BOOLEAN
    /\ \A t \in Tasks :
          /\ task[t].at \in {"idle", "begin", "saving", "list", "sync", "failed", "poll"}
          /\ task[t].at = "sync" =>
                /\ task[t].todo \subseteq Requests
                /\ \A r, q \in task[t].todo : r.export = q.export => r = q
    /\ \A d \in delayed : d.request \in Requests /\ d.edition \in 0 .. edits
    /\ edits \in 0 .. MaxEdits /\ faults \in 0 .. MaxFaults

UnderWay ==
    \E t \in Tasks : task[t].at \in {"begin", "saving", "list", "sync", "failed"}

\* The catalogs never differ with nothing to bring them together: neither a
\* synchronization under way nor the flag down for the next poll to see.  There
\* are three exceptions, each until the bridge's catalog is listed again for the
\* present one of Home Assistant: a synchronization of an older catalog that went
\* on after that listing, a restart after it that lost what could not be saved,
\* and a flag raised by an answer to something else in the middle of a failure.
NoSilentDivergence ==
    ha # bridge => UnderWay \/ ~connected \/ disturbed \/ masked

\* When the changes and the failures end the catalogs become equal and stay so,
\* but for those exceptions.
Converges == <>[](ha = bridge \/ disturbed \/ masked)
=============================================================================
