# A TLA+ model of ThatsMatter

ThatsMatter shows chosen Home Assistant devices to Matter controllers. A Rust
process, the *bridge*, keeps a catalog of *exports* and runs a Matter stack with
one bridged endpoint per enabled export. A Home Assistant integration in Python
edits the catalog, pushes states and polls commands over HTTP on the loopback
interface. This directory holds TLA+ modules translated from that code, the
configurations TLC checks them with, and proofs TLAPS checks.

## Inventory

| Part | Code | State | Operations | Made hard by |
|---|---|---|---|---|
| Export catalog | `bridge/src/catalog/store.rs` | exports by id, counter of endpoint ids, two files | load, create, patch, delete, list, persist | errors and crashes between two renames, a u16 counter that wraps, files of an older version |
| HTTP control plane | `bridge/src/ipc/handlers.rs`, `main.rs` | the catalog's mutex, the backend | change the catalog, list it, install the list; push state; poll commands; pairing | requests run in parallel and let the lock go between their steps |
| Export plane | `bridge/src/matter/export_plane.rs` | slot table under a lock, atomics in the slots, configuration generation, command queue | set_exports, apply_state, run loop, reads and commands of controllers | HTTP threads and the stack thread share slots; snapshots go stale |
| Cover slots | `export_plane.rs`, `clusters/window_covering.rs` | position, target, moving | pushes, cover commands, conversions | three atomics written under a shared lock |
| Pairing window | `export_plane.rs`, `matter/backend.rs` | mailbox of one request, tracked deadline, fabric count | open, close, sample, expire | time-outs that race late answers, two notions of "open" |
| Dev backend | `matter/dev.rs` | deadline and generation | open, close, expire | check-then-store in expiry tasks |
| Stack lifecycle | `matter/rs_matter_backend.rs`, `commissioning.rs` | running, error, thread | start, readiness, death | death by error or panic, time-out of the start |
| Interface choice | `matter/lan_netif.rs`, `config.rs` | none | choose an address and interface | pure |
| Catalog sync | `custom_components/thatsmatter/bridge_client.py`, `export_manager.py`, `store.py` | Home Assistant's catalog | reconcile by list, delete, create, patch | overlapping reconciliations, lost answers |
| Coordinator | `coordinator.py` | connected flag, tasks | reconnect, push states, poll and run commands | reordering, loss, cancellation |
| User interface, add-on, scripts | `config_flow.py`, `services.py`, entities, `addons`, `scripts` | none of their own | call the parts above | not modelled |

How they interact: a handler changes the catalog under its mutex, and after
letting it go lists it and hands the list to the plane (`sync_exports`). The
plane's table is read by the stack thread for every controller interaction. What
`run()` on the stack thread learns of a change (report bits in the slots, the
configuration generation) it turns into notifications of the Matter library.
Commands of controllers go to a queue that Home Assistant polls.

What makes each part correct:

- catalog: ids are unique, stable, not reused early, never missing; an answered
  change is durable;
- control plane: what is bridged is what the catalog says;
- plane: a data version stands for one value; no change is lost on its way to a
  controller; what a controller is shown never goes back; controllers end up with
  the table;
- cover slots: what a controller reads under one data version is one set of
  attributes, and mixed fields are reported and repaired;
- pairing window: it is reported open only while the stack's is; a request gets
  its own answer; Dev: an old expiry closes no newer window;
- lifecycle: `/health` is ok only while the stack runs, the start ends, the
  pairing code stays the same;
- interface choice: never one without IPv6, and the one the start has checked;
- sync: when edits end, bridge and Home Assistant agree;
- channel: a command is executed at most once and in order; the bridge ends up
  with the state of the entity.

`PROJECT.json` lists under "hazards" where in the code these can go wrong.

## Modules

| Module | Models | Extends |
|---|---|---|
| `ExportCatalog` | `CatalogStore` with its files, one process that crashes and restarts | |
| `ControlPlane` | the handlers over an atomic catalog and an atomic plane, `main()` | |
| `ExportPlane` | the slot table with every lock and atomic, `run()`, one controller | |
| `MonotoneViews` | what the plane promises a controller: states in their order | |
| `PlaneViews` | `ExportPlane` with an observer, and that it implements `MonotoneViews` | `ExportPlane` |
| `PairingWindow` | the mailbox between HTTP clients and the stack thread, the tracked deadline, the stack's window | |
| `AtomicCatalog` | what the catalog promises: saved and replaced as a whole | |
| `CoverSlot` | one cover: three atomics, pushes, commands, reads, conversions | |
| `LanNetif` | the check and the choice of the interface (operators) | |
| `DevWindow` | the development backend's window and its expiry tasks | |
| `Backend` | the bridge process around its backend: material, start, stack thread | `LanNetif`, `DevWindow` |
| `CatalogSync` | reconciliation of the bridge's catalog with Home Assistant's | |
| `CommandChannel` | commands and states between one entity and its slot | |
| `OrderedCommands` | what the channel promises a command: run once and in order, or lost with its neighbours | |
| `MC...` | instances for TLC, one for each module with a specification | the module |
| `ExportCatalog_proofs`, `ControlPlane_proofs`, `ExportPlane_proofs`, `CoverSlot_proofs`, `PairingWindow_proofs`, `Backend_proofs`, `CatalogSync_proofs`, `CommandChannel_proofs` | theorems | the module (`PlaneViews` for the plane), TLAPS |

**ExportCatalog.** `mem` is `by_id`, `next` is `next_endpoint`, `diskNext` and
`diskExports` are the two files, which `PersistConfig` and `PersistExports`
replace one after the other. `phase` says where the process is; between "config"
and "exports" a crash leaves a new counter with old exports. `Load` and
`AssignMissing` are `load_or_new`. `Allocates` states which id the scan of
`alloc_endpoint` returns; `MaxId` stands for `u16::MAX`. A request that is
refused before it assigns anything is no step. `PatchBadPrimary` is the one that
is refused after it assigned the name. An export is its id and one field: the
other fields are assigned, saved and returned in the same way. `told`,
`toldName`, `listed`, `retired` and `wrapped` only observe.

**ControlPlane.** `Change` is the part of a handler under the lock, `List` and
`Install` are `sync_exports`; between them other requests may come in.
`ChangeUnsaved` is a request whose save fails: the handler returns without
calling `sync_exports`. `StartBackend` and `Serve` are `main()`. `past`,
`alone`, `exact` and `acked` only observe.

**ExportPlane.** `slots` and `dataver` are the table, `requested` and `applied`
the configuration generation, `task` and `stack` what each thread is in the
middle of. Every pair of atomics that another thread can see between is two
actions: `PushStore`, `PushCount` and `PushMark` for `apply_state`, `Swap` and
`RequestBump` for `set_exports`, `LoadConfig` and `Bump` for the run loop.
`ReadLocked` is the read lock, which keeps `Swap` out; the lock's holders do not
exclude each other. The run loop and the controllers share a thread, and the
loop's one await is where it waits, so a controller is served only in "wait".
`Bumped` is `bump_dataver`, which every notification reaches. The handling of a
notification in the Matter library and the controller are external: a controller
reads what it is notified of, goes through all endpoints after a new
configuration version, and gets no value when its data version is current.

**PairingWindow.** `mailbox` is `window_request`, `deadline` and `fabricCount`
are the atomics of those names, `run` is where the run loop is, `taken` the
request it holds. A client that gives up leaves its request without a receiver
(`from` is `None`) and only then, in `ClearMailbox`, locks the mailbox and empties
it, whatever is in it. A request that finds the mailbox full fails at once and is
no step. `OpenAlready` to `CloseFails` are the outcomes of `execute_window_op`.
`fabrics` and `window` are the Matter stack's; its actions (commissioning, windows
controllers open, close and revoke, removal of a fabric) are external and happen
while the run loop waits, on whose thread they run. A window that is used closes
in the same step as the fabric is added; that the bridge clears the
deadline only at its next sample is what makes the order of sampling and draining
matter. `StackDies` may happen anywhere: by a panic, so that the check of
`running` before a request does not help. `revoked` only observes. Time passes in
`Tick`; the wall clock is not set back or forward.

**AtomicCatalog** has a saved catalog and the one held while the bridge serves; it
is opened, changed an export at a time, saved and closed. `ExportCatalog`
implements it (`ImplementsAtomic`): `saved` is exports.json, `held` is memory
while the bridge serves or saves. The counter, its file and the two renames are
hidden: a crash between them is a `Close` that has saved nothing.

**CoverSlot.** `slot` holds the atomics `position`, `target` and `moving`. A push
loads them one after the other (`Load`), decides what to store (`ReportStores` is
the body of `apply_cover_ha`) and stores one at a time (`StoreNext`), then counts
a data version and marks the report if anything has changed: a position or target
swapped for another value, or an unconditional store (`Changes`). A command of a
controller stores target and moving on the stack thread and loads the position
only for stop (`StopLoad`). The read lock that pushes and commands share keeps them from
`Rebuild` and not from each other. `ReadNext` takes five loads for the three
attributes, since the status is computed from all of them. `Full` and `Unit`
scale the 100 and 100 of the code. `last` and `goal` only observe.

**LanNetif** has no state: `Validated` is `validate_for_start`, `Pick` is `pick`
and `Score` the sum of points. Addresses are their kinds, and which names are
loopback or virtual is a constant.

**DevWindow** has the two atomics of `WindowState` as `deadline` and `generation`.
`open` and `close` raise the one and then store the other; an expiry task
(`expiry`) checks the generation and then clears the deadline, and may do both
late. Requests run in parallel.

**Backend** is the process from `main` to its end and the next start. `Load`,
`StatFails` and `Persist` are `load_or_generate`; `SpawnStack` to `TimeOut` are
`spawn_stack` on the main thread, `Preflight` to `Report` are `run_matter_stack`
on its own, with `channel` between them. `Panic` may happen at any step of that
thread up to the end of the stack. `FailStart` is a check that fails, or
interfaces that cannot be listed. The host changes interfaces and the file
from outside (external). `expected` and `touched` only observe.

**CatalogSync.** `task` holds what each task of Home Assistant's event loop is in
the middle of: setup, the command and the status loop, and users who edit.
`Syncing`, `List` and `Request` are `sync_catalog`, a request at a time; `Plan`
is what it is going to do after the one list it gets. A request the bridge
refuses, or that the client sees fail (`LoseRequest`: without its effect, after
it, or before it), ends the reconciliation and takes the flag `connected` down.
`Answered` is a poll that succeeds: it compares with the flag as it was before
the request. `bridge` is the bridge's catalog in memory, changed in one step
(`ControlPlane` has what that takes), and `disk` its exports.json: a save that fails
leaves the change in memory, where the next list finds it, until a save succeeds or
`Restart` takes it back. `listed`, `disturbed` and `masked` only observe; `Afresh`
says when a list clears the last two.

**CommandChannel.** One switch. `ControllerCommands` sets the slot and queues;
`Serve` empties the queue before the answer is on its way; `Execute` runs a
command as a service, whose effect on the entity raises an event (`Becomes`),
whose handler pushes the state. Pushes are a set, since nothing orders them.
`GiveUp` is a client that has timed out and whose push arrives all the same.
`GiveUpPoll` and `Reload` leave a GET /commands behind (`delayed`) that the bridge
may still serve: `ServeDelayed` empties the queue, of commands given after the
resync too, and nobody gets them. A resync is one request for the catalog (`Sync`, `CatalogSync` has it in detail)
and the push of the state. `Refresh` is an answer that raises the flag and pushes no
state; `PushEdited` is the push at the end of an edit, which is a task of its own
here and so may come at any time, with or without the flag. `Reload` cancels the
loops and starts a new runtime.
`ran`, `lost`, `shown` and `missed` only observe.

**OrderedCommands** has the numbers of commands that may still run (`underway`)
and of those that ran. The oldest runs next; what is lost is lost together with all
that is older (Home Assistant took it and went down) or all that is newer (the
bridge still had it and went down). `CommandChannel` implements it
(`ImplementsOrdered`): the queue, the answer on its way and the loop are hidden,
and what they hold is underway.

**MonotoneViews** has what an endpoint is in the table (`table`), what a controller
has of it (`shown`) and the states between the two (`ahead`). A controller sees one
of those and goes on from there: it may lag and skip, it never goes back, and never
sees a type with a value that did not go with it. That is weaker than reading the
table: a controller whose version is current is told "unchanged" while a push has
stored and not yet counted, and goes on with the older value. `PlaneViews` adds
`ahead` to `ExportPlane` as a history: the table's states are appended, and what the
controller has is looked up at its first occurrence, which leaves most for later.
No action reads it, so that the runs of the plane check `ExportPlane` with it
(`ViewSpec`).
`ImplementsViews` is promised to exports that keep their cluster, as
`DataVersionSound` is.

### Left out, and why it does not matter to the properties

Names of nodes and their reports (they go the way of descriptor reports), the
aggregator's data version (raised in the same two places as the configuration
version), logging, the text of answers, `Notify` (it only shortens a wait that
ends after two seconds), the linked entities of an export (never read for the
value). A notification is taken for one of the cluster its endpoint has when it is
sent; one that was drained before a rebuild changed the cluster names the old one and
raises no version of the new (`bump_dataver`). That touches exports that change
cluster only, to which the properties of `plane` are not promised; and `Bumped` may
raise a version too often there, which hides no reuse that `plane_type_change` finds.
A data version is a u32 drawn at random for a new slot; here it counts
on, that is, a fresh version is taken to be one that no controller holds.

In `CoverSlot`: a read takes one data version and then all attributes; in the code
each attribute is read with a version of its own, loaded just before it, so that the
properties are about a controller that keeps the version of the first. Left out
there: lift-value and tilt commands and writes of the mode, which are
refused or change nothing. In `Backend`: what is logged, the choice of mDNS
(either ends in the same state) and the stack's own work. In `CatalogSync`: the
endpoint ids Home Assistant notes down from the answers, which it only displays.
In `CommandChannel`: exports that are disabled or missing, whose commands are
ignored with a warning, and the refresh of the pairing material.

## Runs

| Run | Bounds | Shows |
|---|---|---|
| `catalog` | 3 exports, 2 ids, 2 names, I/O errors | `TypeOK`, `UniqueEndpoints`, `AckedDurable`, `NoReuseBeforeWrap`, `ImplementsAtomic` |
| `catalog_legacy` | 2 exports, 3 ids, no I/O errors | `ListedStable` is violated |
| `control` | 2 exports with 2 names, 2 requests at once, 3 changes, I/O errors | `TypeOK`, `PlaneWasCatalog`, `HealedByNextChange`, `AckedShown` |
| `control_overlap` | 1 export, 2 requests at once | `PlaneFollowsCatalog` is violated |
| `plane` | 2 exports (light or plug; contact), 2 HTTP tasks, 3 inputs | `TypeOK`, `DataVersionSound`, `NothingLost`, `ImplementsViews`, `Converges` |
| `plane_type_change` | 1 export (light or contact), 1 task, 5 inputs | `DataVersionSound` is violated |
| `pairing` | 2 clients, 2 time-outs (one below the minimum), 2 fabrics, 6 units of time | `TypeOK`, `TrackedExact`, `AnswersTrue`, `ForeignKept`, `MailboxFreed` |
| `pairing_foreign` | the same | `CloseOwnOnly` is violated |
| `cover` | positions 0 to 2 of 2 steps each, 2 HTTP tasks, 5 states with 3 attributes, 2 reports, 1 command or rebuild | `TypeOK`, `VersionSound`, `NothingLost`, `HealedByNextReport`, `CrossedOnce`, `GoalKept`, `Converges` |
| `backend` | 2 process starts, 1 change of the host, 52 lists of interfaces, 2 pins and none, 3 passcodes of which one is forbidden; 2 clients, 3 opens and closes, 3 units of time | `TypeOK`, `HealthTruthful`, `FaceRight`, `OpenLasts`, `CodeStable`, `StartEnds`, `DeathShown` |
| `sync` | 2 exports (one with two names), 1 user, 1 edit, 1 fault, any number of restarts of the bridge, any two catalogs to start with | `TypeOK`, `NoSilentDivergence`, `Converges` |
| `channel` | 2 commands, 1 change of the entity or edit, 1 fault | `TypeOK`, `CommandsAccounted`, `ImplementsOrdered`, `Converges` |

The bounds: with more exports than ids the counter wraps, skips ids in use, hands
out ids of deleted exports and finds none left, at run time and while loading;
nothing bounds the number of requests, errors or crashes there. Two requests are
the fewest that overlap, a third change is the one that would heal. In the plane three inputs
are enough to add an endpoint, change it and rebuild it while the change is on
its way; every mutant listed in `PROJECT.json` is found within them. With one
export and five inputs, two pushes that overtake each other around a read with rebuilds
before, between and after, `ImplementsViews` passes too, on 2.8 million states. Six units of
time hold two windows one after the other and a part of a third; two clients are
the fewest of which one clears what another has posted.

Two reports are the fewest that mix their fields, and with a command between them
the fewest of three writers; the positions are the ends and one between, a
position out of range, none, a lift between two steps and one out of range. Two
process starts are one to make the pairing material and one to find it; the
interfaces differ in each thing the score looks at. In `sync` the initial
catalogs are arbitrary and so stand for everything earlier edits and failures
may have left; one more edit and a reconciliation under way is what it takes for
an older catalog to overtake a newer. In `channel` every cause the observer
`missed` names occurs within the bounds (leaving any one of them out makes
`Converges` fail). A restart of the bridge in `sync` costs no fault: it changes
something only after a save that has failed, which does, or a delayed request.

Only `backend` is checked without deadlock detection: process starts are bounded, and
a process that is down for the last time stops.

**Fairness** in `PairingWindow`: a client's wait ends after ten seconds and its
thread goes on; nothing is assumed of the stack thread, which may have died. In
`ExportPlane`: a task that took a step goes on
(the runtime schedules its threads, the lock is held for a few instructions);
the stack thread runs (its loop wakes every two seconds); a controller reads
what it is notified of, again and again able to (strong fairness, since the
stack serves it between rounds); and saving the configuration version does not
fail for ever, the loop trying again each round (strong fairness of `Bump`).
Inputs are not fair: they may stop at any time, and do. In `CoverSlot`: a push
that has begun goes on, and the stack thread runs and serves its controller. In
`Backend`: `recv_timeout` returns, and a thread that has left the stack's code
finishes; how long the stack takes, or whether it ever gets ready, is left open.
In `CatalogSync` and `CommandChannel`: the event loop runs every task, the loops
poll for ever, and a request that is not lost is answered, since the client's
time-out ends every wait (each sender's pushes are fair by themselves, so that none
keeps another's away; nothing is assumed of the bridge's late service of a request
that was given up, which may never come); faults are bounded, that is, from some time on the
connection works.

### What the violations show

- `catalog_legacy`: `load_or_new` gives exports of an older file their ids in
  memory only. Home Assistant reads them; a save that dies between its renames
  keeps the counter and not the ids; after the restart the export has another
  id. The product specification says the id is stable once set.
- `plane_type_change`: `rebuild` carries the data version over whatever the type,
  `rebuild_kind` the value only within one kind. A light retyped to a contact and
  back is off, with the data version under which controllers know it to be on.
  Within one kind (`plane`) the property holds.
- `control_overlap`: listing and installing are two steps, so the older of two
  listings may be installed last. Reconciliation from Home Assistant compares
  catalogs and does not notice. `HealedByNextChange` says what does help.

- `pairing_foreign`: a controller closes the bridge's window by the standard
  command and opens one of its own. The bridge sees no fabric added and keeps its
  deadline, so the next `POST /pairing/close` closes the controller's window. The
  code's comment is "Close only windows this bridge opened". `ForeignKept` shows
  that short of a revoked window or a removed fabric the rule is kept, and
  `TrackedExact` that the next request puts the deadline right.

### Exceptions the properties name

Where the code does not give a property without exception, the property names the
exception and no more, and the run shows the rest:

- `HealthTruthful`: a thread that panicked leaves `running` set. `/health` says ok
  and `/status` shows no error until the process is restarted.
- `CodeStable`: a failed lookup of commissioning.json counts as a missing file, and
  the pairing code is replaced.
- `OpenLasts`: promised to a window that was opened alone. An expiry task past its
  check, or the store of a parallel request, may close or shorten a newer one.
- `CrossedOnce`: a report that takes the cover past a commanded target shows it
  going the other way, until the next report.
- `NoSilentDivergence` and `Converges` of `sync`: `disturbed`, after a reconciliation
  of the present catalog had listed the bridge's, one of an older catalog went on and
  undid it, or a restart of the bridge that no poll noticed took back a change whose
  save had failed; `masked`, an answer to a poll or a status request raised the flag
  again in the middle of a failure. Nobody notices, and each lasts until the bridge's
  catalog is listed for the present one with no other such reconciliation under way:
  at the next edit or reconnect.
- `Converges` of `channel`: `missed`, something went by while the flag was up (a
  push that failed or came late, a restart of the bridge between two polls, a
  GET /commands given up before that took commands given after the resync, a
  service that raised, a change before the subscription), or the flag went up by
  an answer that pushes no state (a status request, the reconciliation of an edit, or
  a poll sent before the failure); the next change of the entity repairs it.
- `CommandsAccounted`: commands go down with the bridge, with a lost answer
  (one to a client that has given up too) or with a reload, and in no other way: a failing resync does not lose those it carried.

## Proofs

Every safety invariant, action property and refinement of the passing runs is proved for
all values of the constants: any number of exports, tasks, clients, requests,
failures and starts. The bounds on inputs stay as constants, so a theorem holds for
each of them. Each proof has an inductive invariant `IInv` (or, in the first two
modules, one for each theorem), found with TLC and then proved in three facts:
`InitInv`, a step for each action, `Invariance`. The assumptions are the `ASSUME`s
of the modules, which say what the constants are (bounds are natural numbers, the
value `None` is none of the others); those that say more are named below.

`ExportCatalog_proofs` (any sets of exports and names, any `MaxId > 0`):

- `TypeCorrect`, with the strengthening `RequestInMemory`: an answer copies a
  record out of memory, so the record has to be there still.
- `Uniqueness`: inductive with the types; an id is only given out when unused
  (`DistinctAssign`), other changes keep ids (`DistinctRename`).
- `Assigned`: inductive with the types. No run asks for it by itself:
  `ImplementsAtomic` has it, since the atomic catalog opens and adds with ids only.
- `Durability`, with `AckedInMemory`: the next request saves all of memory, so
  what was answered must be there with its name too.
- `NoReuse`, with `CounterInv`: until the wrap the saved counter is above every
  id in exports.json and every retired one, the counter in memory above it and
  above every id in memory, and the two are equal when exports.json is replaced.
  A counter above all ids in use is itself what the scan finds first
  (`AllocatesCounter`).
- `Implements`: the refinement of `AtomicCatalog`. Initial states map to initial
  states and each step to a step or a stutter (`AtomicStep`); a start needs to know
  that while ids are assigned memory is exports.json and ids (`LoadInv`), so that
  what is opened then is what was saved last.

`ControlPlane_proofs`, for any number of exports and of requests at once:
`TypeCorrect`; `OneCatalog` (the listings in flight are catalogs of the past too);
`Healed` and `Shown` (while a request is alone its listing is the catalog, and its
answer is what is saved).

`ExportPlane_proofs`: `TypeCorrect` without any condition; `VersionsSound` and
`NoChangeLost` where an export keeps its cluster (`WithinKind`). The run
`plane_type_change` shows the first one false otherwise; the second falls with it,
since a controller whose version is current is told that nothing has changed. The
instance of `plane` meets the condition with a light that becomes a plug. A read
may have found its slot before `set_exports` replaced it: `ReadSound` says that
the old slot still has the current value unless a version will be counted, and
`ReadCurrent` that it has everything unless a report is owed elsewhere.

`NeverBack`, again where an export keeps its cluster, is the refinement of
`MonotoneViews`, over that invariant. A step changes either the table or what one
controller has of one export (`StepKinds`). `AheadInv` says that the sequence goes
from what the controller has to the table (`Leading`); that while the versions agree
the type of today with the value it has is ahead of it, which is what "unchanged"
makes it show (`Repeated`); and that the slot a read goes on with is ahead too, with
what an answer by version would make of it behind that (`ReadAhead`). What is found
in the sequence is found at a first place, which leaves everything later behind it
(`Smallest`, `FollowedEffect`).

`CoverSlot_proofs`, for any scale, any number of HTTP tasks, and any states,
attributes and lifts:

- `VersionsSound`, `NoChangeLost`, with `ReadSound`: what a read in progress has
  got is what the fields are, until a store that is going to count a version.
- `Healing`, `Crossing`, with `LoadInv`, `StoreInv` and `LastInv`: a report that
  runs alone has loaded what is there, and the stores it still has to make lead to
  one slot (`Leads`). The lemma `ReportLeads` computes that slot from the body of
  `apply_cover_ha`; `AfterRepairs` shows that it is healed, and that a report of a
  motion whose predecessor crossed its target does not cross it again.
- `Goal`, with `GoalInv`: the same for the stores of a command, and `RoundTrip`:
  from hundredths of a percent to Home Assistant's scale and back loses less than a
  step, by division with remainder on any scale.
- `TypeCorrect`: no value leaves its scale, so that no subtraction underflows.

`PairingWindow_proofs`: `TypeCorrect`, `Truthful`, `Exactness` and `Foreign`, from
`OwnWindow` (while the bridge's window is open no fabric has been added since the
last sample, and the deadline is its end), `Sampled` (between sample and answer the stack
does nothing else), `Counted` (fabrics get fewer only by removal), `Tracked` (short
of a revoked window and of a used one the deadline stands for the bridge's window)
and `TakenWaits` (a request taken from the mailbox is the only one of its client).

`Backend_proofs`:

- `TypeCorrect`, and `Health`, with `Ready`: the thread says it is ready after it has
  raised `running`, and nothing but that thread raises it.
- `CodeKept`, with `Kept`: what the next process must show is in the file and valid.
- `WindowLasts`, with `OwnGeneration` and `Promise`: each open has a generation that
  no other request or expiry task has, so the one expiry task of the promised window
  wakes at its end, and none is past its check.
- `ShownFace`, about `Pick` on any list of interfaces: what it
  returns is usable and, without a pin, outranked by no other. The scan returns the
  first of the best by points (`BestFound`, which exists by `Smallest`), and the sum
  of points orders interfaces as its terms do by weight (`OutranksScore`).

`CatalogSync_proofs`: `TypeCorrect` and `NoDivergence`, for any number of exports,
users, edits and failures, with `Aims` (a synchronization of the present catalog
asks for nothing but what that has), `Covers` (for every difference it has a request
ahead, which the bridge will accept) and `Minded`, which strengthens the property
by the catalog that has not been listed yet. It assumes that the data of an export
are functions of its fields and that replacing some fields of one by those of
another is data of the export again (`DataAssumption`), as a patch does.

`CommandChannel_proofs`: `TypeCorrect` (with `OnePush`: a task that waits for its
push has one; and `EditionBound`), and `CommandsKept`, with `Consecutive` (the queue
holds the latest numbers without a gap), `Carriers` (only the command loop has
commands) and `InOrder` (what ran is before what the loop holds, and that before the
queue): numbers are distinct, so none runs twice, and each that was given is in one
of the four places. `Implements` is the refinement of `OrderedCommands`: with
`InOrder` what the loop holds is all of what is underway up to some number, and the
queue the rest (`Halves`), so a loss on either side is one of the two abstract
losses; and the command the loop runs is the oldest (`HeadOldest`).

Only model-checked: the liveness properties (the four `Converges`, `MailboxFreed`,
`StartEnds`, `DeathShown`), since fairness and `ENABLED` are out of the prover's
reach; and the properties that runs show violated, which no theorem could state.
That conversions agree with the code for its 100 and 100 rests on reading it; the
theorems hold for those numbers as for any.

## Not modelled

- `replace()` and `set_bridge_name()` of the catalog: no HTTP route calls them.
- Power loss: files are replaced by rename without fsync; a crash here is the end
  of the process, not of the host.
- The development backend's record of exports, states and commands, kept for tests.
- `pairing.rs` (setup code and QR payload are encodings of a library),
  `net_stack.rs` (socket options), argument parsing in `config.rs`.
- An export the bridge refuses for good (a name too long, say): its reconciliation
  fails each time, as any refusal does in `CatalogSync`, and goes on failing.
- Home Assistant's forms, entities and services, the add-on and the scripts: they
  call the parts above and keep no state of their own.
- A wall clock that is set; pairing codes of real size (the checks use three
  passcodes, of which one is forbidden).

## Plan

1. The steps of liveness that are safety: that a state in which something is owed
   has an enabled step and none undoes it (`ExportPlane`, `CatalogSync`).
2. `ControlPlane` over `AtomicCatalog`: that its saved catalog is the one
   `ExportCatalog` implements.
3. The catalog's ids composed with the plane's endpoints (id 65535).
