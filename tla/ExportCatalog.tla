--------------------------- MODULE ExportCatalog ---------------------------
(***************************************************************************)
(* The bridge's export catalog (bridge/src/catalog/store.rs): the exports   *)
(* held in memory under one mutex, the counter that hands out Matter        *)
(* endpoint ids, and the two files they are saved to.                       *)
(*                                                                          *)
(* A handler locks the catalog, changes memory and calls persist() before   *)
(* it unlocks, so requests never overlap; what can come between the steps   *)
(* of a request is an I/O error or the death of the process.  persist()     *)
(* replaces bridge_config.json and then exports.json, each by a rename: the *)
(* renames are the two steps the disk can tell apart (a temporary file is   *)
(* never read back).                                                        *)
(***************************************************************************)
EXTENDS Integers, FiniteSets

CONSTANTS
    Exports,    \* export ids, numbered in the order of the BTreeMap they key
    Names,      \* values of the fields patch() sets before it checks the
                \* primary entity (name, type); the later ones go unmodelled
    MaxId,      \* u16::MAX, the largest endpoint id
    Legacy,     \* exports a first exports.json may hold with a null endpoint_id
    DiskErrors, \* whether the steps of persist() may return an I/O error
    None        \* no export, no request, no name

NoId == 0       \* a null endpoint_id; as a counter value, u16::MAX wrapped
EndpointIds == 1 .. MaxId

ExportRecord == [endpoint : EndpointIds \cup {NoId}, name : Names]
Request == [kind : {"create", "patch", "delete"}, export : Exports]

ASSUME MaxIdAssumption == MaxId \in Nat \ {0}
ASSUME ExportsAssumption == Exports \subseteq Nat /\ Legacy \subseteq Exports
ASSUME DiskErrorsAssumption == DiskErrors \in BOOLEAN
ASSUME NoneAssumption ==
    /\ None \notin ExportRecord /\ None \notin Request /\ None \notin Names
    /\ None \notin [Exports -> ExportRecord \cup {None}]

VARIABLES
    phase,       \* where the process is; "config"/"exports": the next rename
    mem,         \* CatalogStore.by_id
    next,        \* CatalogStore.next_endpoint
    request,     \* the request that holds the lock, None between requests
    diskNext,    \* next_endpoint in bridge_config.json
    diskExports, \* exports.json
    \* Observers: what clients were told; no action's guard reads them.
    told,        \* endpoint id in the last 2xx answer about an export
    toldName,    \* name in that answer, None once a new patch has arrived
    listed,      \* endpoint id in the last GET /exports answer
    retired,     \* ids that exports.json held once and holds no more
    wrapped      \* the counter has run past MaxId at least once

memory == <<phase, mem, next, request>>
disk == <<diskNext, diskExports>>
observers == <<told, toldName, listed, retired, wrapped>>
vars == <<phase, mem, next, request, diskNext, diskExports,
          told, toldName, listed, retired, wrapped>>

Phases == {"down", "loading", "serving", "config", "exports"}

-----------------------------------------------------------------------------
(* Endpoint allocation *)

UsedIds(catalog) ==
    {catalog[e].endpoint : e \in {x \in Exports : catalog[x] # None}} \ {NoId}

\* Steps of the alloc_endpoint scan from the counter to an id: the scan goes
\* up to MaxId and wraps to 1, and a counter of 0 starts it at 1.
ScanDistance(counter, id) ==
    LET start == IF counter = 0 THEN 1 ELSE counter
    IN  IF id >= start THEN id - start ELSE id - start + MaxId

\* Mutant of Allocates: the next counter value, used or not.
AllocatesUnchecked(catalog, counter, id) == id = IF counter = 0 THEN 1 ELSE counter

\* alloc_endpoint returns id: the first unused id of the scan.  With every id
\* used there is none (the code returns EndpointExhausted and changes nothing).
Allocates(catalog, counter, id) ==
    /\ id \notin UsedIds(catalog)
    /\ \A other \in EndpointIds \ UsedIds(catalog) :
          ScanDistance(counter, id) <= ScanDistance(counter, other)

\* Mutant of CounterAfter: a counter wider than u16.
CounterAfterWide(id) == id + 1

\* next_endpoint after id was returned: wrapping_add(1) on a u16.
CounterAfter(id) == (id + 1) % (MaxId + 1)

\* wrapping_add once took the counter to 0: the id space was walked to its end.
NoteWrap(counter) == wrapped' = (wrapped \/ counter = 0)

-----------------------------------------------------------------------------
(* Initial states: no process yet, no files or an exports.json that predates *)
(* endpoint ids.                                                             *)

Empty == [e \in Exports |-> None]

Init ==
    /\ phase = "down"
    /\ mem = Empty
    /\ next = 1
    /\ request = None
    /\ diskNext = 1
    /\ \E saved \in SUBSET Legacy, name \in Names :
          diskExports = [e \in Exports |->
              IF e \in saved THEN [endpoint |-> NoId, name |-> name] ELSE None]
    /\ told = [e \in Exports |-> NoId]
    /\ toldName = [e \in Exports |-> None]
    /\ listed = [e \in Exports |-> NoId]
    /\ retired = {}
    /\ wrapped = FALSE

-----------------------------------------------------------------------------
(* Start-up: load_or_new *)

Unassigned == {e \in Exports : mem[e] # None /\ mem[e].endpoint = NoId}

\* Mutant of CounterBounds: the saved counter is ignored.
CounterBoundsOfIds ==
    {1} \cup {IF id = MaxId THEN MaxId ELSE id + 1 : id \in UsedIds(diskExports)}

\* The lower bounds load_or_new takes the maximum of; saturating_add(1) keeps
\* an id of MaxId at MaxId.
CounterBounds ==
    {1, diskNext} \cup {IF id = MaxId THEN MaxId ELSE id + 1 : id \in UsedIds(diskExports)}

Load ==
    /\ phase = "down"
    /\ phase' = "loading"
    /\ mem' = diskExports
    /\ \E n \in CounterBounds : (\A b \in CounterBounds : b <= n) /\ next' = n
    /\ UNCHANGED <<request, disk, observers>>

\* Give the first export of the file that has no id one, in memory only.
AssignMissing ==
    /\ phase = "loading"
    /\ \E e \in Unassigned, id \in EndpointIds :
          /\ \A other \in Unassigned : e <= other
          /\ Allocates(mem, next, id)
          /\ mem' = [mem EXCEPT ![e].endpoint = id]
          /\ next' = CounterAfter(id)
          /\ NoteWrap(CounterAfter(id))
    /\ UNCHANGED <<phase, request, disk, told, toldName, listed, retired>>

\* Every loaded export has an id: main() goes on to serve.
Start ==
    /\ phase = "loading"
    /\ Unassigned = {}
    /\ phase' = "serving"
    /\ UNCHANGED <<mem, next, request, disk, observers>>

\* No id left for a loaded export: load_or_new fails and main() returns.
LoadFails ==
    /\ phase = "loading"
    /\ Unassigned # {}
    /\ EndpointIds \subseteq UsedIds(mem)
    /\ phase' = "down"
    /\ mem' = Empty
    /\ next' = 1
    /\ UNCHANGED <<request, disk, observers>>

-----------------------------------------------------------------------------
(* Requests.  One that is refused before anything is assigned (unknown or    *)
(* duplicate export, bad name, ids exhausted) changes nothing: no step.      *)

Create(e, name) ==
    /\ phase = "serving"
    /\ mem[e] = None
    /\ \E id \in EndpointIds :
          /\ Allocates(mem, next, id)
          /\ mem' = [mem EXCEPT ![e] = [endpoint |-> id, name |-> name]]
          /\ next' = CounterAfter(id)
          /\ NoteWrap(CounterAfter(id))
    /\ request' = [kind |-> "create", export |-> e]
    /\ phase' = "config"
    /\ UNCHANGED <<disk, told, toldName, listed, retired>>

\* The branch that fills a missing endpoint_id never runs: AllAssigned.
Patch(e, name) ==
    /\ phase = "serving"
    /\ mem[e] # None
    /\ mem' = [mem EXCEPT ![e].name = name]
    /\ request' = [kind |-> "patch", export |-> e]
    /\ phase' = "config"
    /\ toldName' = [toldName EXCEPT ![e] = None]
    /\ UNCHANGED <<next, disk, told, listed, retired, wrapped>>

\* An empty primary_entity_id is refused after the name was assigned: the
\* client gets a 400, memory keeps the new name and nothing is saved.
PatchBadPrimary(e, name) ==
    /\ phase = "serving"
    /\ mem[e] # None
    /\ mem' = [mem EXCEPT ![e].name = name]
    /\ toldName' = [toldName EXCEPT ![e] = None]
    /\ UNCHANGED <<phase, next, request, disk, told, listed, retired, wrapped>>

Delete(e) ==
    /\ phase = "serving"
    /\ mem[e] # None
    /\ mem' = [mem EXCEPT ![e] = None]
    /\ request' = [kind |-> "delete", export |-> e]
    /\ phase' = "config"
    /\ told' = [told EXCEPT ![e] = NoId]
    /\ toldName' = [toldName EXCEPT ![e] = None]
    /\ listed' = [listed EXCEPT ![e] = NoId]
    /\ UNCHANGED <<next, disk, retired, wrapped>>

\* GET /exports: Home Assistant reads the ids of what is in memory.
List ==
    /\ phase = "serving"
    /\ listed' = [e \in Exports |-> IF mem[e] # None THEN mem[e].endpoint ELSE listed[e]]
    /\ UNCHANGED <<memory, disk, told, toldName, retired, wrapped>>

-----------------------------------------------------------------------------
(* persist() *)

PersistConfig ==
    /\ phase = "config"
    /\ diskNext' = next
    /\ phase' = "exports"
    /\ UNCHANGED <<mem, next, request, diskExports, observers>>

\* The request is answered with a 2xx.
Answer ==
    /\ phase' = "serving"
    /\ request' = None
    /\ retired' = retired \cup (UsedIds(diskExports) \ UsedIds(diskExports'))
    /\ IF request.kind = "delete"
       THEN UNCHANGED <<told, toldName>>
       ELSE LET e == request.export
            IN  /\ told' = [told EXCEPT ![e] = mem[e].endpoint]
                /\ toldName' = [toldName EXCEPT ![e] = mem[e].name]
    /\ UNCHANGED <<mem, next, diskNext, listed, wrapped>>

\* Mutant of PersistExports: the result of the last rename is ignored.
PersistExportsUnchecked ==
    /\ phase = "exports"
    /\ diskExports' \in {mem, diskExports}
    /\ Answer

\* Mutant of PersistExports: only the export of the request is saved.
PersistExportsMerged ==
    /\ phase = "exports"
    /\ diskExports' = [diskExports EXCEPT ![request.export] = mem[request.export]]
    /\ Answer

\* The second rename.
PersistExports ==
    /\ phase = "exports"
    /\ diskExports' = mem
    /\ Answer

\* One of the file operations fails: a 500, memory is left as it is.
PersistFails ==
    /\ DiskErrors
    /\ phase \in {"config", "exports"}
    /\ phase' = "serving"
    /\ request' = None
    /\ UNCHANGED <<mem, next, disk, observers>>

-----------------------------------------------------------------------------
\* The process dies, at any point: the files are what is left.
Crash ==
    /\ phase # "down"
    /\ phase' = "down"
    /\ mem' = Empty
    /\ next' = 1
    /\ request' = None
    /\ UNCHANGED <<disk, observers>>

Next ==
    \/ Load \/ AssignMissing \/ Start \/ LoadFails
    \/ \E e \in Exports, name \in Names :
          Create(e, name) \/ Patch(e, name) \/ PatchBadPrimary(e, name)
    \/ \E e \in Exports : Delete(e)
    \/ List
    \/ PersistConfig \/ PersistExports \/ PersistFails
    \/ Crash

Spec == Init /\ [][Next]_vars

-----------------------------------------------------------------------------
(* Properties *)

\* Every variable has its type; a request is in flight exactly while persist()
\* runs.
TypeOK ==
    /\ phase \in Phases
    /\ mem \in [Exports -> ExportRecord \cup {None}]
    /\ next \in 0 .. MaxId
    /\ request \in Request \cup {None}
    /\ (request # None) <=> (phase \in {"config", "exports"})
    /\ diskNext \in 0 .. MaxId
    /\ diskExports \in [Exports -> ExportRecord \cup {None}]
    /\ told \in [Exports -> EndpointIds \cup {NoId}]
    /\ toldName \in [Exports -> Names \cup {None}]
    /\ listed \in [Exports -> EndpointIds \cup {NoId}]
    /\ retired \in SUBSET EndpointIds
    /\ wrapped \in BOOLEAN

DistinctIds(catalog) ==
    \A e, f \in Exports :
        /\ e # f
        /\ catalog[e] # None
        /\ catalog[f] # None
        /\ catalog[e].endpoint # NoId
        => catalog[e].endpoint # catalog[f].endpoint

\* Two exports never share a Matter endpoint id, in memory or in exports.json,
\* whatever was deleted, half saved or assigned at start-up.
UniqueEndpoints == DistinctIds(mem) /\ DistinctIds(diskExports)

\* Once the bridge serves, every export in memory has an endpoint id (a part of
\* what ImplementsAtomic says).
AllAssigned ==
    phase \in {"serving", "config", "exports"} =>
        \A e \in Exports : mem[e] # None => mem[e].endpoint # NoId

\* What a 2xx answer said survives errors and crashes: an acknowledged export
\* that nobody asked to delete is in exports.json, and in memory whenever the
\* bridge serves, with the id it was acknowledged with; and with the name too
\* as long as no later patch has named it.
AckedDurable ==
    \A e \in Exports : told[e] # NoId =>
        /\ diskExports[e] # None
        /\ diskExports[e].endpoint = told[e]
        /\ toldName[e] # None => diskExports[e].name = toldName[e]
        /\ phase # "down" => mem[e] # None /\ mem[e].endpoint = told[e]

\* Until the counter has walked the whole id space, the id of a deleted export
\* is not given to another one: controllers would take the new device for the
\* old.  The counter that guarantees it has to survive restarts.
NoReuseBeforeWrap ==
    ~wrapped => retired \cap (UsedIds(mem) \cup UsedIds(diskExports)) = {}

\* The catalog as AtomicCatalog has it: exports.json and, while the bridge
\* serves, what is in memory.
Atomic == INSTANCE AtomicCatalog WITH
    saved <- diskExports,
    held <- IF phase \in {"down", "loading"} THEN None ELSE mem

\* Every step of the code is one of the atomic catalog or hidden from it: what
\* is saved is one held catalog as a whole, whatever errors came before, and a
\* start brings back what was saved.
ImplementsAtomic == Atomic!Spec

\* An endpoint id that Home Assistant has read in a listing is never replaced
\* by another as long as nobody deletes the export ("assigned by bridge;
\* stable once set").
ListedStable ==
    [][\A e \in Exports : listed[e] # NoId /\ listed'[e] # NoId => listed'[e] = listed[e]]_listed
=============================================================================
