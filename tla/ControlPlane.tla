---------------------------- MODULE ControlPlane ----------------------------
(***************************************************************************)
(* The handlers that change the catalog (bridge/src/ipc/handlers.rs) and how *)
(* the change gets to the Matter endpoints.  A handler locks the catalog,    *)
(* changes and saves it, unlocks; locks it again for a listing, unlocks; and *)
(* hands the listing to the backend, which replaces its endpoints by it.     *)
(* Requests run in parallel on the runtime's threads: another one may come   *)
(* in wherever the lock is free.                                             *)
(*                                                                           *)
(* How endpoint ids are given out and how the catalog is saved is the module *)
(* ExportCatalog's matter, how the backend replaces the endpoints the module *)
(* ExportPlane's; here each is one step.                                     *)
(***************************************************************************)
EXTENDS Integers, FiniteSets

CONSTANTS
    Exports,    \* export ids
    Names,      \* the names an export may have
    Workers,    \* requests that may be in progress at once
    DiskErrors, \* whether saving the catalog may fail
    MaxChanges, \* bound on the requests that change the catalog
    None        \* no export, nothing known

ExportRecord == [enabled : BOOLEAN, name : Names]
Catalogs == [Exports -> ExportRecord \cup {None}]

ASSUME DiskErrorsAssumption == DiskErrors \in BOOLEAN
ASSUME MaxChangesAssumption == MaxChanges \in Nat
ASSUME NoneAssumption == None \notin ExportRecord

VARIABLES
    phase,   \* "down", "starting" (backend up, endpoints not set), "serving"
    catalog, \* CatalogStore.by_id
    saved,   \* exports.json
    plane,   \* the bridged endpoints: what a controller can see
    worker,  \* what each request in progress has done
    changes, \* requests that changed the catalog so far
    \* Observers, read by no action.
    past,    \* every catalog since the process started
    alone,   \* the request in progress has met no other one so far
    exact,   \* the last request to finish met no other one
    acked    \* what the last 2xx answer about an export said, None when a
             \* later request has named it or it is to be gone

vars == <<phase, catalog, saved, plane, worker, changes, past, alone, exact, acked>>
observers == <<past, alone, exact, acked>>

Idle == [at |-> "idle"]
Busy == {w \in Workers : worker[w] # Idle}

\* set_exports keeps the exports that are enabled and of a bridged type, and
\* every type there is is bridged (is_matter_bridged_export).
\* Mutant of Bridged: disabled exports are bridged too.
BridgedAll(list) == list

Bridged(list) ==
    [e \in Exports |-> IF list[e] # None /\ list[e].enabled THEN list[e] ELSE None]

-----------------------------------------------------------------------------
(* main() *)

Nothing == [e \in Exports |-> None]

Init ==
    /\ phase = "down"
    /\ catalog = Nothing
    /\ saved \in Catalogs
    /\ plane = Nothing
    /\ worker = [w \in Workers |-> Idle]
    /\ changes = 0
    /\ past = {Nothing}
    /\ alone = FALSE
    /\ exact = FALSE
    /\ acked = saved

\* load_or_new, then backend.start(): the stack is up and bridges nothing yet.
StartBackend ==
    /\ phase = "down"
    /\ phase' = "starting"
    /\ catalog' = saved
    /\ past' = past \cup {saved}
    /\ UNCHANGED <<saved, plane, worker, changes, alone, exact, acked>>

\* Mutant of Serve: the loaded exports are not handed over.
ServeEmpty ==
    /\ phase = "starting"
    /\ phase' = "serving"
    /\ exact' = TRUE
    /\ UNCHANGED <<catalog, saved, plane, worker, changes, past, alone, acked>>

\* set_exports with the loaded catalog, then serve().
Serve ==
    /\ phase = "starting"
    /\ phase' = "serving"
    /\ plane' = Bridged(catalog)
    /\ exact' = TRUE
    /\ UNCHANGED <<catalog, saved, worker, changes, past, alone, acked>>

\* The process dies; requests in progress get no answer.
Crash ==
    /\ phase # "down"
    /\ phase' = "down"
    /\ catalog' = Nothing
    /\ plane' = Nothing
    /\ worker' = [w \in Workers |-> Idle]
    /\ past' = {Nothing}
    /\ alone' = FALSE
    /\ exact' = FALSE
    /\ UNCHANGED <<saved, changes, acked>>

-----------------------------------------------------------------------------
(* create_export, patch_export and delete_export *)

\* What a request may make of an export's record: a new one, another one, none.
Outcomes(record) == IF record = None THEN ExportRecord ELSE ExportRecord \cup {None}

\* A request on e begins: nothing is certain about e until it is answered.
Begins(w, e) ==
    /\ phase = "serving"
    /\ worker[w] = Idle
    /\ changes < MaxChanges
    /\ changes' = changes + 1
    /\ alone' = (Busy = {})
    /\ acked' = [acked EXCEPT ![e] = None]
    /\ exact' = FALSE
    /\ UNCHANGED <<phase, plane>>

\* Mutant of Change: an error of the saving is not passed on.
ChangeUnchecked(w, e) ==
    /\ Begins(w, e)
    /\ \E outcome \in Outcomes(catalog[e]) :
          /\ catalog' = [catalog EXCEPT ![e] = outcome]
          /\ past' = past \cup {catalog'}
    /\ saved' \in {catalog', saved}
    /\ worker' = [worker EXCEPT ![w] = [at |-> "changed", export |-> e, answer |-> catalog'[e]]]

\* The catalog is changed and saved under its lock.
Change(w, e) ==
    /\ Begins(w, e)
    /\ \E outcome \in Outcomes(catalog[e]) :
          /\ catalog' = [catalog EXCEPT ![e] = outcome]
          /\ past' = past \cup {catalog'}
    /\ saved' = catalog'
    /\ worker' = [worker EXCEPT ![w] = [at |-> "changed", export |-> e, answer |-> catalog'[e]]]

\* Saving fails: the memory stays changed, the answer is a 500 and the backend
\* hears nothing of it.  A patch refused half-way (400) leaves the same behind.
ChangeUnsaved(w, e) ==
    /\ DiskErrors
    /\ Begins(w, e)
    /\ \E outcome \in Outcomes(catalog[e]) :
          /\ catalog' = [catalog EXCEPT ![e] = outcome]
          /\ past' = past \cup {catalog'}
    /\ UNCHANGED <<saved, worker>>

\* sync_exports: the listing.
List(w) ==
    /\ worker[w].at = "changed"
    /\ worker' = [worker EXCEPT ![w] =
           [at |-> "listed", export |-> @.export, answer |-> @.answer, list |-> catalog]]
    /\ UNCHANGED <<phase, catalog, saved, plane, changes, observers>>

Answer(w) ==
    /\ worker' = [worker EXCEPT ![w] = Idle]
    /\ exact' = alone
    /\ acked' = [acked EXCEPT ![worker[w].export] = IF alone THEN worker[w].answer ELSE None]
    /\ UNCHANGED <<phase, catalog, saved, changes, past, alone>>

\* Mutant of Install: exports that are gone keep their endpoints.
InstallMerged(w) ==
    /\ worker[w].at = "listed"
    /\ plane' = [e \in Exports |->
           IF Bridged(worker[w].list)[e] = None THEN plane[e] ELSE Bridged(worker[w].list)[e]]
    /\ Answer(w)

\* sync_exports: set_exports with the listing; then the 2xx answer.
Install(w) ==
    /\ worker[w].at = "listed"
    /\ plane' = Bridged(worker[w].list)
    /\ Answer(w)

Next ==
    \/ StartBackend \/ Serve \/ Crash
    \/ \E w \in Workers :
          \/ \E e \in Exports : Change(w, e) \/ ChangeUnsaved(w, e)
          \/ List(w)
          \/ Install(w)

Spec == Init /\ [][Next]_vars

-----------------------------------------------------------------------------
(* Properties *)

WorkerState ==
    {Idle}
    \cup [at : {"changed"}, export : Exports, answer : ExportRecord \cup {None}]
    \cup [at : {"listed"}, export : Exports, answer : ExportRecord \cup {None}, list : Catalogs]

\* Every variable has its type, and nothing is bridged that is not enabled.
TypeOK ==
    /\ phase \in {"down", "starting", "serving"}
    /\ catalog \in Catalogs
    /\ saved \in Catalogs
    /\ plane \in [Exports -> [enabled : {TRUE}, name : Names] \cup {None}]
    /\ worker \in [Workers -> WorkerState]
    /\ changes \in 0 .. MaxChanges
    /\ past \subseteq Catalogs
    /\ alone \in BOOLEAN
    /\ exact \in BOOLEAN
    /\ acked \in Catalogs

\* The endpoints are at all times those of one catalog that the process has
\* had, never a mixture, whatever requests overlap and fail.
PlaneWasCatalog == \E c \in past : plane = Bridged(c)

\* A request that overlaps no other one leaves the endpoints as the catalog
\* has them, after earlier ones that overlapped or could not be saved as well.
HealedByNextChange == (exact /\ Busy = {}) => plane = Bridged(catalog)

\* What a 2xx answer said of an export stays true until a request about it
\* arrives, across failures to save other exports and restarts: it is saved so,
\* and bridged so whenever no request is in progress and the last one was alone.
AckedShown ==
    \A e \in Exports : acked[e] # None =>
        /\ saved[e] = acked[e]
        /\ exact /\ Busy = {} => plane[e] = Bridged(acked)[e]

\* With no request in progress the endpoints are the enabled exports of the
\* catalog: what is exposed can be told from the catalog alone.
PlaneFollowsCatalog ==
    (phase = "serving" /\ Busy = {}) => plane = Bridged(catalog)
=============================================================================
