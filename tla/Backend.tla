------------------------------ MODULE Backend ------------------------------
(***************************************************************************)
(* The life of the bridge process around its Matter backend: main starts    *)
(* the one it is configured for (bridge/src/main.rs), which loads or makes  *)
(* the commissioning material (matter/commissioning.rs); the development    *)
(* backend then is running (matter/dev.rs), the production one starts the   *)
(* thread of the Matter stack and waits thirty seconds for it to be ready   *)
(* (matter/rs_matter_backend.rs).  Then the process serves.  When it has    *)
(* exited or was killed it may be started again, with other options.        *)
(*                                                                          *)
(* The stack thread may fail, hang or panic at any of its steps, and its    *)
(* death does not end the process.  Files may fail to be read and written.  *)
(***************************************************************************)
EXTENDS LanNetif, DevWindow

CONSTANTS
    MaxPasscode, Denied, MaxDiscriminator, \* what the Matter specification allows
    Foreign,     \* what else commissioning.json may be found to hold
    Inventories, \* lists of interfaces the host may have
    Pins,        \* values of the option that pins an interface
    Absent, Garbled, \* no such file, and one that is not valid JSON
    MaxStarts, MaxChanges, \* bounds on process starts, and on changes of the host
    None

\* CommissioningMaterial: unsigned numbers, valid or not.
Material == [passcode : Nat, discriminator : Nat]

ASSUME MaterialAssumption ==
    /\ MaxPasscode \in Nat /\ Denied \subseteq Nat /\ MaxDiscriminator \in Nat
    /\ Foreign \subseteq Material
    /\ Absent \notin Material /\ Garbled \notin Material /\ None \notin Material
ASSUME InventoryAssumption ==
    \A ifaces \in Inventories :
        /\ ifaces \in Seq({ifaces[i] : i \in DOMAIN ifaces})
        /\ \A i \in DOMAIN ifaces :
              ifaces[i] # NoPin /\ ifaces[i].up \in BOOLEAN /\ ifaces[i].mac \in BOOLEAN
ASSUME BackendBounds == MaxStarts \in Nat /\ MaxChanges \in Nat

VARIABLES
    proc,      \* where main is
    kind,      \* which backend
    pin,       \* mdns_interface of a production backend
    file,      \* commissioning.json: Absent, Garbled or material
    code,      \* the material in memory, which /pairing shows
    thread,    \* where the stack thread is
    channel,   \* what the start hears of the stack thread
    running,   \* running, which /health shows
    error,     \* whether error has a message, which /status shows
    inventory, \* the interfaces the host has while a stack thread may look
    starts, changes, \* how often so far
    \* Observers, read by no action.
    expected,  \* the material the next process must show, None for any
    touched    \* since the material was loaded or saved, the file was changed
               \* from outside

process == <<proc, kind, pin, code>>
matter == <<thread, channel, running, error>>
host == <<file, inventory, starts, changes>>
vars == <<process, matter, host, expected, touched, devVars>>

Kinds == {"dev", "rs_matter"}
NoInventory == <<>>
InStart == {"preflight", "startup", "validate", "flag", "send"}

\* Mutant of IsValid: the forbidden passcodes pass.
IsInRange(m) == m.passcode \in 1 .. MaxPasscode /\ m.discriminator <= MaxDiscriminator

\* commissioning.rs is_valid, and what generate draws from.
IsValid(m) ==
    /\ m.passcode \in 1 .. MaxPasscode
    /\ m.passcode \notin Denied
    /\ m.discriminator <= MaxDiscriminator

Generated ==
    {m \in [passcode : 1 .. MaxPasscode, discriminator : 0 .. MaxDiscriminator] :
        m.passcode \notin Denied}

-----------------------------------------------------------------------------
(* main: commissioning material *)

\* The process ends and all it had in memory with it.
Gone ==
    /\ proc' = "down"
    /\ code' = None
    /\ thread' = "none" /\ channel' = "empty" /\ running' = FALSE /\ error' = FALSE
    /\ inventory' = NoInventory /\ pin' = NoPin
    /\ now' = 0 /\ deadline' = 0 /\ generation' = 0
    /\ client' = [c \in Clients |-> NoRequest] /\ expiry' = {} /\ promised' = 0

Start ==
    /\ proc = "down"
    /\ starts < MaxStarts
    /\ starts' = starts + 1
    /\ kind' \in Kinds
    /\ proc' = "load"
    /\ UNCHANGED <<pin, code, matter, file, inventory, changes, expected, touched, devVars>>

\* load_or_generate: valid material is used, garbled or invalid material and a
\* file that is not there is replaced.  A file whose existence cannot be
\* established counts as not there.
Load ==
    /\ proc = "load"
    /\ IF file \notin {Absent, Garbled} /\ IsValid(file)
       THEN /\ code' = file
            /\ proc' = "loaded"
            /\ touched' = FALSE
       ELSE /\ code' \in Generated
            /\ proc' = "write"
            /\ UNCHANGED touched
    /\ UNCHANGED <<kind, pin, matter, host, expected, devVars>>

StatFails ==
    /\ proc = "load"
    /\ file # Absent
    /\ code' \in Generated
    /\ proc' = "write"
    /\ expected' = None
    /\ UNCHANGED <<kind, pin, matter, host, touched, devVars>>

\* Mutant of Persist: a failure is only logged.
PersistOrGoOn ==
    /\ proc = "write"
    /\ file' \in {file, code}
    /\ proc' = "loaded"
    /\ touched' = FALSE
    /\ UNCHANGED <<kind, pin, code, matter, inventory, starts, changes, expected, devVars>>

\* persist: a temporary file takes the place of commissioning.json.
Persist ==
    /\ proc = "write"
    /\ file' = code
    /\ proc' = "loaded"
    /\ touched' = FALSE
    /\ UNCHANGED <<kind, pin, code, matter, inventory, starts, changes, expected, devVars>>

\* Reading or writing a file or starting a thread fails, or something kills the
\* process: at whatever step.
Exit ==
    /\ proc # "down"
    /\ Gone
    /\ UNCHANGED <<kind, file, starts, changes, expected, touched>>

-----------------------------------------------------------------------------
(* main: start of the backend *)

Serve ==
    /\ proc' = "serving"
    /\ expected' = IF touched THEN None ELSE code
    /\ UNCHANGED touched

DevStart ==
    /\ proc = "loaded" /\ kind = "dev"
    /\ Serve
    /\ running' = TRUE
    /\ deadline' = now + StartupTimeout
    /\ UNCHANGED <<kind, pin, code, thread, channel, error, host, now, generation, client, expiry, promised>>

\* start and spawn_stack.
SpawnStack ==
    /\ proc = "loaded" /\ kind = "rs_matter"
    /\ proc' = "waiting"
    /\ error' = FALSE
    /\ thread' = "preflight"
    /\ pin' \in Pins \cup {NoPin} /\ inventory' \in Inventories
    /\ UNCHANGED <<kind, code, channel, running, file, starts, changes, expected, touched, devVars>>

ReceiveReady ==
    /\ proc = "waiting"
    /\ channel = "ok"
    /\ Serve
    /\ UNCHANGED <<kind, pin, code, matter, host, devVars>>

\* The start bails and the process is about to exit.
Bail ==
    /\ proc' = "failed"
    /\ error' = TRUE
    /\ running' = FALSE
    /\ UNCHANGED <<kind, pin, code, thread, channel, host, expected, touched, devVars>>

ReceiveError == proc = "waiting" /\ channel \in {"err", "disconnected"} /\ Bail

\* Mutant of TimeOut: the wait has no end.
WaitOn == FALSE /\ UNCHANGED vars

\* Thirty seconds have passed; a slow thread may get ready in this moment still.
TimeOut == proc = "waiting" /\ channel = "empty" /\ Bail

ExitFailed ==
    /\ proc = "failed"
    /\ Gone
    /\ UNCHANGED <<kind, file, starts, changes, expected, touched>>

-----------------------------------------------------------------------------
(* The stack thread: run_matter_stack *)

Steps(from, to) ==
    /\ thread = from
    /\ thread' = to
    /\ UNCHANGED <<channel, process, host, expected, touched, devVars>>

\* UDP port 5540 is free; directories, stack.startup and the note of its window.
Preflight == Steps("preflight", "startup") /\ UNCHANGED <<running, error>>
Startup == Steps("startup", "validate") /\ UNCHANGED <<running, error>>

\* validate_for_start; then Avahi if it answers, else the built-in mDNS.
Validate ==
    /\ Validated(inventory, pin)
    /\ Steps("validate", "flag")
    /\ UNCHANGED <<running, error>>

SetRunning == Steps("flag", "send") /\ running' = TRUE /\ UNCHANGED error

SendReady ==
    /\ thread = "send"
    /\ channel' = "ok"
    /\ thread' = "run"
    /\ UNCHANGED <<running, error, process, host, expected, touched, devVars>>

\* A step before readiness fails: validation does on what it finds, or because
\* the interfaces cannot be listed.
FailStart ==
    /\ thread \in {"preflight", "startup", "validate"}
    /\ thread' = "failing"
    /\ UNCHANGED <<channel, running, error, process, host, expected, touched, devVars>>

\* run_preex ends, with an error or without.
Leave == Steps("run", "leaving") /\ UNCHANGED <<running, error>>

\* Mutant of Leaves: whoever leaves after readiness leaves the flag.
LeavesFlagged ==
    /\ thread \in {"failing", "leaving"}
    /\ thread' = IF thread = "failing" THEN "failed" ELSE "left"
    /\ UNCHANGED <<channel, running, error, process, host, expected, touched, devVars>>

\* The flag goes first ...
Leaves ==
    /\ thread \in {"failing", "leaving"}
    /\ running' = FALSE
    /\ thread' = IF thread = "failing" THEN "failed" ELSE "left"
    /\ UNCHANGED <<channel, error, process, host, expected, touched, devVars>>

\* Mutant of Report: only an error has a message.
ReportErrors ==
    /\ thread \in {"failed", "left"}
    /\ error' = (thread = "failed" \/ error)
    /\ channel' = IF thread = "failed" THEN "err" ELSE channel
    /\ thread' = "dead"
    /\ UNCHANGED <<running, process, host, expected, touched, devVars>>

\* ... then the message, which a start that still waits is sent too.
Report ==
    /\ thread \in {"failed", "left"}
    /\ error' = TRUE
    /\ channel' = IF thread = "failed" THEN "err" ELSE channel
    /\ thread' = "dead"
    /\ UNCHANGED <<running, process, host, expected, touched, devVars>>

\* A panic unwinds past all that and drops the sender.
Panic ==
    /\ thread \in InStart \cup {"run"}
    /\ thread' = "panicked"
    /\ channel' = IF channel = "empty" THEN "disconnected" ELSE channel
    /\ UNCHANGED <<running, error, process, host, expected, touched, devVars>>

-----------------------------------------------------------------------------
(* The host, and the requests to the development backend *)

InventoryChanges ==
    /\ thread # "none"
    /\ changes < MaxChanges
    /\ inventory' \in Inventories \ {inventory}
    /\ changes' = changes + 1
    /\ UNCHANGED <<process, matter, file, starts, expected, touched, devVars>>

FileChanges ==
    /\ changes < MaxChanges
    /\ file' \in {Absent, Garbled} \cup Foreign
    /\ changes' = changes + 1
    /\ touched' = TRUE
    /\ expected' = None
    /\ UNCHANGED <<process, matter, inventory, starts, devVars>>

DevServes ==
    /\ proc = "serving" /\ kind = "dev"
    /\ DevStep
    /\ UNCHANGED <<process, matter, host, expected, touched>>

-----------------------------------------------------------------------------
Init ==
    /\ proc = "down" /\ kind = "dev" /\ pin = NoPin
    /\ code = None
    /\ thread = "none" /\ channel = "empty"
    /\ running = FALSE /\ error = FALSE
    /\ file = Absent
    /\ inventory = NoInventory
    /\ starts = 0 /\ changes = 0
    /\ expected = None /\ touched = FALSE
    /\ now = 0 /\ deadline = 0 /\ generation = 0
    /\ client = [c \in Clients |-> NoRequest] /\ expiry = {} /\ promised = 0

StartStep == ReceiveReady \/ ReceiveError \/ TimeOut \/ ExitFailed

Next ==
    \/ Start \/ Load \/ StatFails \/ Persist \/ Exit
    \/ DevStart \/ SpawnStack \/ StartStep
    \/ Preflight \/ Startup \/ Validate \/ SetRunning \/ SendReady
    \/ FailStart \/ Leave \/ Leaves \/ Report \/ Panic
    \/ InventoryChanges \/ FileChanges
    \/ DevServes

\* The wait for the stack thread has an end, and a thread that has left the
\* stack's code is not held up.  How long the stack takes is left open.
Fairness == WF_vars(StartStep) /\ WF_vars(Leaves \/ Report)

Spec == Init /\ [][Next]_vars /\ Fairness

-----------------------------------------------------------------------------
(* Properties *)

\* Every variable has its type, and only material within the Matter
\* specification is in memory: the library does not check it.
TypeOK ==
    /\ proc \in {"down", "load", "write", "loaded", "waiting", "failed", "serving"}
    /\ kind \in Kinds
    /\ code = None \/ code \in Generated
    /\ proc \in {"write", "loaded", "waiting", "serving"} => code # None
    /\ thread \in InStart \cup {"none", "run", "failing", "leaving", "failed", "left",
                                "dead", "panicked"}
    /\ channel \in {"empty", "ok", "err", "disconnected"}
    /\ running \in BOOLEAN /\ error \in BOOLEAN /\ touched \in BOOLEAN
    /\ inventory \in Inventories \cup {NoInventory}
    /\ starts \in 0 .. MaxStarts /\ changes \in 0 .. MaxChanges
    /\ DevTypeOK

\* Whoever is served by the production backend is served by a stack that got
\* ready, and /health says ok only while its thread is in the stack or has yet
\* to take the flag down, the one exception being a thread that panicked.
HealthTruthful ==
    proc = "serving" /\ kind = "rs_matter" =>
        /\ channel = "ok"
        /\ running => thread \in {"run", "leaving", "panicked"}

\* The pairing code the user was shown is the one the next process shows, with
\* whichever backend and whatever fails in between, as long as the file is left
\* alone and its existence can be established.
CodeStable == [][proc # "serving" /\ proc' = "serving" => expected \in {None, code}]_vars

\* The stack is shown a usable interface or none, the pinned one if there is a
\* pin, and what the start has checked is there to be shown: up and, unless it is
\* pinned, a real one.  The check and the choice are computed apart.  Without a
\* pin no interface outranks the one chosen: the sum of points that chooses keeps
\* the order in which its terms matter.
FaceRight ==
    /\ SoundPick(inventory, pin)
    /\ ValidatedPick(inventory, pin)
    /\ BestPick(inventory)

\* A stack that hangs, fails or panics while it starts does not hang the bridge:
\* the start ends one way or the other.
StartEnds == proc = "waiting" ~> proc \in {"serving", "failed", "down"}

\* When the stack thread ends by itself, /health turns and /status says why.
DeathShown ==
    proc = "serving" /\ thread = "leaving" ~> (~running /\ error) \/ proc = "down"
=============================================================================
