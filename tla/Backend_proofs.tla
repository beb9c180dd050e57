--------------------------- MODULE Backend_proofs ---------------------------
(***************************************************************************)
(* Theorems about Backend and the modules it is made of, LanNetif and       *)
(* DevWindow: for any inventories of interfaces, any number of requests and *)
(* starts and any material.                                                 *)
(***************************************************************************)
EXTENDS Backend, FiniteSetTheorems, SequenceTheorems, TLAPS

-----------------------------------------------------------------------------
(* The inductive invariant *)

\* commissioning.json holds nothing, something found, or something generated.
Files == {Absent, Garbled} \cup Foreign \cup Generated

Early == {"down", "load", "write", "loaded"}
HasCode == {"loaded", "waiting", "failed", "serving"}

\* The stack thread tells the start it is ready after it has raised the flag, and
\* a flag that is up is somebody's.
Ready ==
    /\ thread \in InStart \cup {"failing", "failed"} => channel = "empty"
    /\ channel = "ok" => thread \in {"run", "leaving", "left", "dead", "panicked"}
    /\ kind = "rs_matter" /\ running => thread \in {"send", "run", "leaving", "panicked"}
    /\ proc \in Early => thread = "none" /\ channel = "empty" /\ running = FALSE
    /\ proc = "serving" /\ kind = "rs_matter" => channel = "ok"

\* What the next process must show is in the file, valid, and what a process has
\* in memory is in the file unless somebody changed that.
Kept ==
    /\ expected # None =>
          /\ file = expected /\ expected \in Generated /\ proc # "write"
          /\ proc \in HasCode => code = expected
    /\ proc \in HasCode /\ touched = FALSE => file = code

Requests ==
    {NoRequest} \cup [at : {"close"}]
    \cup [at : {"open"}, generation : Nat, for : Timeouts, alone : BOOLEAN]
Expiries == [at : {"sleep", "store"}, generation : Nat, until : Nat]

\* Every open has a generation of its own, also after it has scheduled its expiry.
OwnGeneration ==
    /\ \A c \in Clients : client[c].at = "open" =>
          /\ client[c].generation \in 1 .. generation
          /\ \A d \in Clients \ {c} :
                client[d].at = "open" => client[d].generation # client[c].generation
          /\ \A x \in expiry : x.generation # client[c].generation
    /\ \A x \in expiry : x.generation \in 1 .. generation

\* A promised window has its deadline, nobody is about to store another, and the
\* one expiry task of its generation wakes when it ends.
Promise ==
    promised # 0 =>
        /\ \A c \in Clients : client[c] = NoRequest
        /\ now < promised => deadline = promised
        /\ \A x \in expiry : x.at = "store" => now >= promised
        /\ \A x \in expiry : x.generation = generation => x.until = promised

DevInv ==
    /\ now \in 0 .. MaxTime /\ deadline \in Nat /\ generation \in 0 .. MaxRequests
    /\ client \in [Clients -> Requests]
    /\ expiry \subseteq Expiries
    /\ promised \in Nat
    /\ OwnGeneration
    /\ Promise

\* TypeOK but for the window of the development backend.
Typed ==
    /\ proc \in {"down", "load", "write", "loaded", "waiting", "failed", "serving"}
    /\ kind \in Kinds
    /\ code = None \/ code \in Generated
    /\ proc \in {"write", "loaded", "waiting", "serving"} => code # None
    /\ thread \in InStart \cup {"none", "run", "failing", "leaving", "failed", "left",
                                "dead", "panicked"}
    /\ channel \in {"empty", "ok", "err", "disconnected"}
    /\ running \in BOOLEAN /\ error \in BOOLEAN /\ touched \in BOOLEAN
    /\ inventory \in Inventories \cup {NoInventory}
    /\ starts \in 0 .. MaxStarts /\ changes \in 0 .. MaxChanges

IInv ==
    /\ Typed /\ file \in Files /\ Ready /\ Kept /\ DevInv
    /\ proc \in Early => promised = 0

-----------------------------------------------------------------------------
(* Material *)

\* Whatever passes is_valid might have been generated, and the other way round.
LEMMA GeneratedMaterial == Generated \subseteq Material /\ None \notin Generated
BY MaterialAssumption DEF Generated, Material

LEMMA ValidGenerated ==
    ASSUME NEW m \in Files
    PROVE  m \notin {Absent, Garbled} /\ IsValid(m) <=> m \in Generated
<1>1. Generated \subseteq Material
  BY GeneratedMaterial
<1>2. CASE m \in {Absent, Garbled}
  BY <1>1, <1>2, MaterialAssumption
<1>3. CASE m \in Material /\ m \notin {Absent, Garbled}
  BY <1>3, MaterialAssumption DEF Material, Generated, IsValid
<1> QED
  BY <1>1, <1>2, <1>3, MaterialAssumption DEF Files

LEMMA TypedStep ==
    ASSUME Typed, file \in Files, Next
    PROVE  Typed' /\ file' \in Files
<1> USE DEF process, matter, host, devVars, window
<1>1. CASE Start
  BY <1>1, BackendBounds DEF Start, Typed, Kinds
<1>2. CASE Load
  BY <1>2, ValidGenerated, GeneratedMaterial DEF Load, Typed
<1>3. CASE StatFails
  BY <1>3, GeneratedMaterial DEF StatFails, Typed
<1>4. CASE Persist
  BY <1>4 DEF Persist, Typed, Files
<1>5. CASE Exit \/ ExitFailed
  BY <1>5 DEF Exit, ExitFailed, Gone, Typed
<1>6. CASE DevStart
  BY <1>6 DEF DevStart, Serve, Typed
<1>7. CASE SpawnStack
  BY <1>7 DEF SpawnStack, Typed, InStart
<1>8. CASE ReceiveReady \/ ReceiveError \/ TimeOut
  BY <1>8 DEF ReceiveReady, ReceiveError, TimeOut, Serve, Bail, Typed
<1>9. CASE Preflight \/ Startup \/ Validate \/ SetRunning \/ SendReady
  <2>1. CASE Preflight \/ Startup \/ Validate
    BY <2>1 DEF Preflight, Startup, Validate, Steps, Typed, InStart
  <2>2. CASE SetRunning
    BY <2>2 DEF SetRunning, Steps, Typed, InStart
  <2>3. CASE SendReady
    BY <2>3 DEF SendReady, Steps, Typed, InStart
  <2> QED
    BY <1>9, <2>1, <2>2, <2>3
<1>10. CASE FailStart \/ Leave \/ Leaves \/ Report \/ Panic
  <2>1. CASE FailStart
    BY <2>1 DEF FailStart, Typed, InStart
  <2>2. CASE Leave
    BY <2>2 DEF Leave, Steps, Typed
  <2>3. CASE Leaves
    BY <2>3 DEF Leaves, Typed
  <2>4. CASE Report
    <3>1. channel' \in {"empty", "ok", "err", "disconnected"}
      BY <2>4 DEF Report, Typed
    <3> QED
      BY <2>4, <3>1 DEF Report, Typed
  <2>5. CASE Panic
    <3>1. channel' \in {"empty", "ok", "err", "disconnected"}
      BY <2>5 DEF Panic, Typed
    <3> QED
      BY <2>5, <3>1 DEF Panic, Typed
  <2> QED
    BY <1>10, <2>1, <2>2, <2>3, <2>4, <2>5
<1>11. CASE InventoryChanges
  BY <1>11, BackendBounds DEF InventoryChanges, Typed
<1>12. CASE FileChanges
  BY <1>12, BackendBounds DEF FileChanges, Typed, Files
<1>13. CASE DevServes
  BY <1>13 DEF DevServes, Typed
<1> QED
  BY <1>1, <1>2, <1>3, <1>4, <1>5, <1>6, <1>7, <1>8, <1>9, <1>10, <1>11, <1>12, <1>13
     DEF Next, StartStep

LEMMA ReadyStep == ASSUME Typed, Ready, Next PROVE Ready'
<1> USE DEF process, matter, host, devVars, window
<1>1. CASE Start
  BY <1>1 DEF Start, Ready, Early, InStart
<1>2. CASE Load \/ StatFails \/ Persist
  BY <1>2 DEF Load, StatFails, Persist, Ready, Early, InStart
<1>5. CASE Exit \/ ExitFailed
  BY <1>5 DEF Exit, ExitFailed, Gone, Ready, Early, InStart
<1>6. CASE DevStart
  BY <1>6 DEF DevStart, Serve, Ready, Early, InStart
<1>7. CASE SpawnStack
  BY <1>7 DEF SpawnStack, Ready, Early, InStart
<1>8. CASE ReceiveReady \/ ReceiveError \/ TimeOut
  BY <1>8 DEF ReceiveReady, ReceiveError, TimeOut, Serve, Bail, Ready, Early, InStart
<1>9. CASE Preflight \/ Startup \/ Validate \/ SetRunning \/ SendReady
  BY <1>9 DEF Preflight, Startup, Validate, SetRunning, SendReady, Steps, Ready, Early, InStart, Typed
<1>10. CASE FailStart \/ Leave \/ Leaves \/ Report \/ Panic
  BY <1>10 DEF FailStart, Leave, Leaves, Report, Panic, Steps, Ready, Early, InStart, Typed
<1>11. CASE InventoryChanges \/ FileChanges
  BY <1>11 DEF InventoryChanges, FileChanges, Ready, Early, InStart
<1>13. CASE DevServes
  BY <1>13 DEF DevServes, Ready, Early, InStart
<1> QED
  BY <1>1, <1>2, <1>5, <1>6, <1>7, <1>8, <1>9, <1>10, <1>11, <1>13
     DEF Next, StartStep

LEMMA KeptStep == ASSUME Typed, file \in Files, Kept, Next PROVE Kept'
<1> USE DEF process, matter, host, devVars, window
<1>1. CASE Start
  BY <1>1 DEF Start, Kept, HasCode
<1>2. CASE Load
  BY <1>2, ValidGenerated DEF Load, Kept, HasCode
<1>3. CASE StatFails \/ Persist
  BY <1>3 DEF StatFails, Persist, Kept, HasCode
<1>5. CASE Exit \/ ExitFailed
  BY <1>5 DEF Exit, ExitFailed, Gone, Kept, HasCode
<1>6. CASE DevStart \/ ReceiveReady
  BY <1>6 DEF DevStart, ReceiveReady, Serve, Kept, HasCode, Typed
<1>7. CASE SpawnStack
  BY <1>7 DEF SpawnStack, Kept, HasCode
<1>8. CASE ReceiveError \/ TimeOut
  BY <1>8 DEF ReceiveError, TimeOut, Bail, Kept, HasCode
<1>9. CASE Preflight \/ Startup \/ Validate \/ SetRunning \/ SendReady
  BY <1>9 DEF Preflight, Startup, Validate, SetRunning, SendReady, Steps, Kept, HasCode
<1>10. CASE FailStart \/ Leave \/ Leaves \/ Report \/ Panic
  BY <1>10 DEF FailStart, Leave, Leaves, Report, Panic, Steps, Kept, HasCode
<1>11. CASE InventoryChanges
  BY <1>11 DEF InventoryChanges, Kept, HasCode
<1>12. CASE FileChanges
  BY <1>12 DEF FileChanges, Kept, HasCode
<1>13. CASE DevServes
  BY <1>13 DEF DevServes, Kept, HasCode
<1> QED
  BY <1>1, <1>2, <1>3, <1>5, <1>6, <1>7, <1>8, <1>9, <1>10, <1>11, <1>12, <1>13
     DEF Next, StartStep

-----------------------------------------------------------------------------
(* The window of the development backend *)

LEMMA RequestShape ==
    ASSUME NEW r \in Requests
    PROVE  /\ r.at \in {"idle", "open", "close"}
           /\ r.at = "idle" <=> r = NoRequest
           /\ r.at = "open" => r.generation \in Nat /\ r.for \in Nat \ {0}
<1>1. CASE r = NoRequest
  BY <1>1 DEF NoRequest
<1>2. CASE r \in [at : {"close"}]
  BY <1>2 DEF NoRequest
<1>3. CASE r \in [at : {"open"}, generation : Nat, for : Timeouts, alone : BOOLEAN]
  <2>1. r.at = "open" /\ r.generation \in Nat /\ r.for \in Timeouts
    BY <1>3
  <2>2. NoRequest.at = "idle"
    BY DEF NoRequest
  <2> QED
    BY <2>1, <2>2, WindowAssumption
<1> QED
  BY <1>1, <1>2, <1>3 DEF Requests

LEMMA RaiseStep ==
    ASSUME DevInv, NEW c \in Clients, NEW r \in Requests, Raise(c, r),
           r.at = "open" => r.generation = generation + 1
    PROVE  DevInv'
<1>1. /\ generation' = generation + 1 /\ generation < MaxRequests /\ promised' = 0
      /\ client' = [client EXCEPT ![c] = r]
      /\ UNCHANGED <<now, deadline, expiry>>
  BY DEF Raise
<1>2. generation \in 0 .. MaxRequests /\ client \in [Clients -> Requests] /\ expiry \subseteq Expiries
  BY DEF DevInv
<1>3. generation' \in 0 .. MaxRequests /\ client' \in [Clients -> Requests]
  BY <1>1, <1>2, WindowAssumption
<1>4. client'[c] = r /\ \A d \in Clients \ {c} : client'[d] = client[d]
  BY <1>1, <1>2
<1>5. \A x \in expiry : x.generation \in 1 .. generation
  BY DEF DevInv, OwnGeneration
<1>6. \A d \in Clients : client[d].at = "open" => client[d].generation \in 1 .. generation
  BY DEF DevInv, OwnGeneration
<1>7. ASSUME NEW d \in Clients, client'[d].at = "open"
      PROVE  /\ client'[d].generation \in 1 .. generation'
             /\ \A b \in Clients \ {d} :
                   client'[b].at = "open" => client'[b].generation # client'[d].generation
             /\ \A x \in expiry' : x.generation # client'[d].generation
  <2>1. CASE d = c
    <3>1. client'[d].generation = generation + 1
      BY <1>4, <1>7, <2>1
    <3> QED
      BY <1>1, <1>2, <1>4, <1>5, <1>6, <2>1, <3>1
  <2>2. CASE d # c
    <3>1. client'[d] = client[d] /\ client[d].generation \in 1 .. generation
      BY <1>4, <1>6, <1>7, <2>2
    <3>2. \A b \in Clients \ {d} :
             client'[b].at = "open" => client'[b].generation # client'[d].generation
      <4> SUFFICES ASSUME NEW b \in Clients \ {d}, client'[b].at = "open"
                   PROVE  client'[b].generation # client'[d].generation
        OBVIOUS
      <4>1. CASE b = c
        BY <1>2, <1>4, <3>1, <4>1
      <4>2. CASE b # c
        BY <1>4, <1>7, <3>1, <4>2 DEF DevInv, OwnGeneration
      <4> QED
        BY <4>1, <4>2
    <3>3. \A x \in expiry : x.generation # client'[d].generation
      BY <1>7, <3>1 DEF DevInv, OwnGeneration
    <3> QED
      BY <1>1, <1>2, <3>1, <3>2, <3>3
  <2> QED
    BY <2>1, <2>2
<1>8. \A x \in expiry' : x.generation \in 1 .. generation'
  BY <1>1, <1>2, <1>5
<1> QED
  BY <1>1, <1>3, <1>7, <1>8 DEF DevInv, OwnGeneration, Promise

LEMMA OpenStoreStep == ASSUME DevInv, NEW c \in Clients, OpenStore(c) PROVE DevInv'
<1> DEFINE sleeper ==
             [at |-> "sleep", generation |-> client[c].generation, until |-> now + client[c].for]
<1>1. /\ client[c].at = "open"
      /\ deadline' = now + client[c].for
      /\ expiry' = expiry \cup {sleeper}
      /\ client' = [client EXCEPT ![c] = NoRequest]
      /\ promised' = IF Alone(c) THEN now + client[c].for ELSE 0
      /\ UNCHANGED <<now, generation>>
  BY DEF OpenStore
<1>2. /\ now \in Nat /\ generation \in Nat /\ client \in [Clients -> Requests]
      /\ expiry \subseteq Expiries /\ OwnGeneration
  BY WindowAssumption DEF DevInv
<1>3. client[c].for \in Nat \ {0} /\ client[c].generation \in 1 .. generation
  BY <1>1, <1>2, RequestShape DEF OwnGeneration
<1>4. sleeper \in Expiries
  BY <1>2, <1>3 DEF Expiries
<1>5. sleeper.at = "sleep" /\ sleeper.generation = client[c].generation
      /\ sleeper.until = now + client[c].for
  OBVIOUS
<1>6. /\ client' \in [Clients -> Requests] /\ client'[c] = NoRequest
      /\ \A d \in Clients \ {c} : client'[d] = client[d]
  BY <1>1, <1>2 DEF Requests
<1> HIDE DEF sleeper
<1>7. OwnGeneration'
  <2>1. \A d \in Clients : client'[d].at = "open" => d # c /\ client'[d] = client[d]
    BY <1>6 DEF NoRequest
  <2>2. \A x \in expiry' : x \in expiry \/ x.generation = client[c].generation
    BY <1>1, <1>5
  <2>3. \A x \in expiry' : x.generation \in 1 .. generation
    BY <1>2, <1>3, <2>2 DEF OwnGeneration
  <2>4. ASSUME NEW d \in Clients, client'[d].at = "open"
        PROVE  /\ client'[d].generation \in 1 .. generation
               /\ \A b \in Clients \ {d} :
                     client'[b].at = "open" => client'[b].generation # client'[d].generation
               /\ \A x \in expiry' : x.generation # client'[d].generation
    BY <1>1, <1>2, <2>1, <2>2, <2>4 DEF OwnGeneration
  <2> QED
    BY <1>1, <2>3, <2>4 DEF OwnGeneration
<1>8. Promise'
  <2>1. CASE ~Alone(c)
    BY <1>1, <2>1 DEF Promise
  <2>2. CASE Alone(c)
    <3>1. /\ client[c].generation = generation
          /\ \A d \in Clients \ {c} : client[d] = NoRequest
          /\ \A x \in expiry : x.at # "store"
      BY <2>2 DEF Alone
    <3>2. promised' = now + client[c].for /\ deadline' = promised'
      BY <1>1, <2>2
    <3>3. \A d \in Clients : client'[d] = NoRequest
      BY <1>6, <3>1
    <3>4. \A x \in expiry : x.generation # generation
      BY <1>1, <1>2, <3>1 DEF OwnGeneration
    <3>5. \A x \in expiry' : x.at # "store" /\ (x.generation = generation => x.until = promised')
      BY <1>1, <1>5, <3>1, <3>2, <3>4
    <3> QED
      BY <1>1, <3>2, <3>3, <3>5 DEF Promise
  <2> QED
    BY <2>1, <2>2
<1>9. deadline' \in Nat /\ promised' \in Nat /\ expiry' \subseteq Expiries
  BY <1>1, <1>2, <1>3, <1>4
<1> QED
  BY <1>1, <1>6, <1>7, <1>8, <1>9 DEF DevInv

LEMMA DevStepInv == ASSUME DevInv, DevStep PROVE DevInv'
<1>1. /\ now \in Nat /\ deadline \in Nat /\ generation \in Nat /\ client \in [Clients -> Requests]
      /\ expiry \subseteq Expiries /\ promised \in Nat /\ OwnGeneration /\ Promise
  BY WindowAssumption DEF DevInv
<1>2. ASSUME NEW c \in Clients, NEW t \in Timeouts, OpenRaise(c, t) PROVE DevInv'
  <2> DEFINE r == [at |-> "open", generation |-> generation + 1, for |-> t, alone |-> ~Storing]
  <2>1. (~Storing) \in BOOLEAN
    OBVIOUS
  <2>2. r \in Requests /\ r.generation = generation + 1
    BY <1>1, <2>1 DEF Requests
  <2>3. Raise(c, r)
    BY <1>2 DEF OpenRaise
  <2> HIDE DEF r
  <2> QED
    BY <2>2, <2>3, RaiseStep
<1>3. ASSUME NEW c \in Clients, CloseRaise(c) PROVE DevInv'
  <2>1. [at |-> "close"] \in Requests /\ [at |-> "close"].at # "open"
    BY DEF Requests
  <2> QED
    BY <1>3, <2>1, RaiseStep DEF CloseRaise
<1>4. ASSUME NEW c \in Clients, CloseStore(c) PROVE DevInv'
  <2>1. /\ client[c].at = "close" /\ deadline' = 0
        /\ client' = [client EXCEPT ![c] = NoRequest]
        /\ UNCHANGED <<now, generation, expiry, promised>>
    BY <1>4 DEF CloseStore
  <2>2. /\ client' \in [Clients -> Requests] /\ client'[c] = NoRequest
        /\ \A d \in Clients \ {c} : client'[d] = client[d]
    BY <1>1, <2>1 DEF Requests
  <2>3. OwnGeneration'
    BY <1>1, <2>1, <2>2 DEF OwnGeneration, NoRequest
  <2>4. promised = 0
    BY <1>1, <2>1 DEF Promise, NoRequest
  <2> QED
    BY <1>1, <2>1, <2>2, <2>3, <2>4 DEF DevInv, Promise
<1>5. ASSUME NEW x \in expiry, ExpiryCheck(x) PROVE DevInv'
  <2>1. /\ x.at = "sleep" /\ x.until <= now
        /\ expiry' = (expiry \ {x}) \cup
              (IF x.generation = generation THEN {[x EXCEPT !.at = "store"]} ELSE {})
        /\ UNCHANGED <<now, deadline, generation, client, promised>>
    BY <1>5 DEF ExpiryCheck, window
  <2>2. PICK s : s = [x EXCEPT !.at = "store"]
    OBVIOUS
  <2>3. s \in Expiries /\ s.at = "store" /\ s.generation = x.generation /\ s.until = x.until
    BY <1>1, <1>5, <2>2 DEF Expiries
  <2>4. \A y \in expiry' : y \in expiry \/ (y = s /\ x.generation = generation)
    BY <2>1, <2>2
  <2>5. OwnGeneration'
    BY <1>1, <2>1, <2>3, <2>4 DEF OwnGeneration
  <2>6. Promise'
    <3>1. promised # 0 /\ x.generation = generation => now >= promised
      BY <1>1, <2>1 DEF Promise
    <3>2. promised # 0 => \A y \in expiry' : y.at = "store" => now >= promised
      BY <1>1, <2>4, <3>1 DEF Promise
    <3>3. promised # 0 => \A y \in expiry' : y.generation = generation => y.until = promised
      BY <1>1, <2>3, <2>4 DEF Promise
    <3> QED
      BY <1>1, <2>1, <3>2, <3>3 DEF Promise
  <2> QED
    BY <1>1, <2>1, <2>3, <2>4, <2>5, <2>6 DEF DevInv
<1>6. ASSUME NEW x \in expiry, ExpiryStore(x) PROVE DevInv'
  <2>1. /\ x.at = "store" /\ deadline' = 0 /\ expiry' = expiry \ {x}
        /\ UNCHANGED <<now, generation, client, promised>>
    BY <1>6 DEF ExpiryStore
  <2>2. OwnGeneration'
    BY <1>1, <2>1 DEF OwnGeneration
  <2>3. promised # 0 => now >= promised
    BY <1>1, <2>1 DEF Promise
  <2>4. Promise'
    BY <1>1, <2>1, <2>3 DEF Promise
  <2> QED
    BY <1>1, <2>1, <2>2, <2>4 DEF DevInv
<1>7. ASSUME Tick PROVE DevInv'
  <2>1. now < MaxTime /\ now' = now + 1 /\ UNCHANGED <<deadline, generation, client, expiry, promised>>
    BY <1>7 DEF Tick, window
  <2>2. OwnGeneration' /\ Promise'
    BY <1>1, <2>1 DEF OwnGeneration, Promise
  <2>3. now' \in 0 .. MaxTime
    BY <1>1, <2>1, WindowAssumption
  <2> QED
    BY <1>1, <2>1, <2>2, <2>3 DEF DevInv
<1> QED
  BY <1>2, <1>3, <1>4, <1>5, <1>6, <1>7, OpenStoreStep DEF DevStep

\* Outside the window's own steps it starts anew with the process or the backend.
LEMMA DevKept ==
    ASSUME DevInv,
           \/ UNCHANGED devVars
           \/ Gone
           \/ DevStart /\ promised = 0
    PROVE  DevInv'
<1>1. CASE UNCHANGED devVars
  <2>1. UNCHANGED <<now, deadline, generation, client, expiry, promised>>
    BY <1>1 DEF devVars, window
  <2>2. OwnGeneration' /\ Promise'
    BY <2>1 DEF DevInv, OwnGeneration, Promise
  <2> QED
    BY <2>1, <2>2 DEF DevInv
<1>2. CASE Gone
  <2>1. /\ now' = 0 /\ deadline' = 0 /\ generation' = 0
        /\ client' = [c \in Clients |-> NoRequest] /\ expiry' = {} /\ promised' = 0
    BY <1>2 DEF Gone
  <2>2. client' \in [Clients -> Requests] /\ \A c \in Clients : client'[c].at = "idle"
    BY <2>1 DEF Requests, NoRequest
  <2> QED
    BY <2>1, <2>2, WindowAssumption DEF DevInv, OwnGeneration, Promise
<1>3. CASE DevStart /\ promised = 0
  <2>1. deadline' = now + StartupTimeout /\ UNCHANGED <<now, generation, client, expiry, promised>>
    BY <1>3 DEF DevStart
  <2>2. OwnGeneration'
    BY <2>1 DEF DevInv, OwnGeneration
  <2>3. deadline' \in Nat
    BY <2>1, WindowAssumption DEF DevInv
  <2> QED
    BY <1>3, <2>1, <2>2, <2>3 DEF DevInv, Promise
<1> QED
  BY <1>1, <1>2, <1>3

LEMMA NextDev ==
    ASSUME Next, DevInv, proc \in Early => promised = 0
    PROVE  DevInv' /\ (proc' \in Early => promised' = 0)
<1>1. CASE Exit \/ ExitFailed
  <2>1. Gone
    BY <1>1 DEF Exit, ExitFailed
  <2> QED
    BY <2>1, DevKept DEF Gone
<1>2. CASE DevStart
  <2>1. promised = 0 /\ promised' = 0
    BY <1>2 DEF DevStart, Early
  <2> QED
    BY <1>2, <2>1, DevKept
<1>3. CASE DevServes
  BY <1>3, DevStepInv DEF DevServes, process, Early
<1>4. CASE /\ UNCHANGED devVars
           /\ proc' \in Early => proc \in Early
  BY <1>4, DevKept DEF devVars
<1>5. CASE Start \/ Load \/ StatFails \/ Persist \/ SpawnStack \/ ReceiveReady \/ ReceiveError \/ TimeOut
  <2>1. UNCHANGED devVars
    BY <1>5 DEF Start, Load, StatFails, Persist, SpawnStack, ReceiveReady, ReceiveError, TimeOut, Bail
  <2>2. proc' \in Early => proc \in Early
    BY <1>5 DEF Start, Load, StatFails, Persist, SpawnStack, ReceiveReady, ReceiveError, TimeOut,
                Bail, Serve, Early
  <2> QED
    BY <1>4, <2>1, <2>2
<1>6. CASE \/ Preflight \/ Startup \/ Validate \/ SetRunning \/ SendReady
           \/ FailStart \/ Leave \/ Leaves \/ Report \/ Panic
           \/ InventoryChanges \/ FileChanges
  <2>1. UNCHANGED devVars /\ proc' = proc
    BY <1>6 DEF Preflight, Startup, Validate, SetRunning, SendReady, Steps,
                FailStart, Leave, Leaves, Report, Panic, InventoryChanges, FileChanges, process
  <2> QED
    BY <1>4, <2>1
<1> QED
  BY <1>1, <1>2, <1>3, <1>5, <1>6 DEF Next, StartStep

-----------------------------------------------------------------------------
(* The invariant *)

LEMMA InitInv == Init => IInv
<1> SUFFICES ASSUME Init PROVE IInv
  OBVIOUS
<1>1. client \in [Clients -> Requests] /\ \A c \in Clients : client[c].at = "idle"
  BY DEF Init, Requests, NoRequest
<1>2. DevInv
  BY <1>1, WindowAssumption DEF Init, DevInv, OwnGeneration, Promise
<1>3. Typed /\ file \in Files
  <2>1. starts \in 0 .. MaxStarts /\ changes \in 0 .. MaxChanges
    BY BackendBounds DEF Init
  <2>2. file \in Files
    BY DEF Init, Files
  <2> QED
    BY <2>1, <2>2 DEF Init, Typed, Kinds
<1>4. Ready /\ Kept
  BY DEF Init, Ready, Kept, InStart, HasCode
<1> QED
  BY <1>2, <1>3, <1>4 DEF IInv, Init

LEMMA StepInv == IInv /\ [Next]_vars => IInv'
<1> SUFFICES ASSUME IInv, [Next]_vars PROVE IInv'
  OBVIOUS
<1>1. CASE Next
  BY <1>1, TypedStep, ReadyStep, KeptStep, NextDev DEF IInv
<1>2. CASE UNCHANGED vars
  <2>1. UNCHANGED <<process, matter, host, expected, touched>> /\ UNCHANGED devVars
    BY <1>2 DEF vars
  <2>2. DevInv' /\ promised' = promised
    BY <2>1, DevKept DEF IInv, devVars
  <2>3. Typed' /\ file' \in Files
    BY <2>1 DEF IInv, Typed, process, matter, host
  <2>4. Ready' /\ Kept'
    BY <2>1 DEF IInv, Ready, Kept, process, matter, host
  <2> QED
    BY <2>1, <2>2, <2>3, <2>4 DEF IInv, process
<1> QED
  BY <1>1, <1>2

LEMMA Invariance == Spec => []IInv
BY InitInv, StepInv, PTL DEF Spec

\* Every variable has its type at whatever step the process, the stack thread or
\* the file fails, and only material within the Matter specification is in memory.
THEOREM TypeCorrect == Spec => []TypeOK
<1>1. IInv => TypeOK
  <2> SUFFICES ASSUME Typed, DevInv PROVE TypeOK
    BY DEF IInv
  <2>1. \A c \in Clients : client[c].at \in {"idle", "open", "close"}
    BY RequestShape DEF DevInv
  <2>2. \A x \in expiry : x.at \in {"sleep", "store"} /\ x.generation \in 1 .. generation
    BY DEF DevInv, OwnGeneration, Expiries
  <2>3. DevTypeOK
    BY <2>1, <2>2 DEF DevInv, DevTypeOK
  <2> QED
    BY <2>3 DEF Typed, TypeOK
<1> QED
  BY <1>1, Invariance, PTL

\* The production backend serves only after its stack got ready, and /health says
\* ok only while its thread is in the stack, is about to take the flag down or
\* has panicked (RsMatterBackend::start, spawn_stack).
THEOREM Health == Spec => []HealthTruthful
<1>1. IInv => HealthTruthful
  <2> SUFFICES ASSUME Ready PROVE HealthTruthful
    BY DEF IInv
  <2> QED
    BY DEF Ready, HealthTruthful
<1> QED
  BY <1>1, Invariance, PTL

\* The pairing code outlives the process, with whichever backend and whatever
\* fails, while commissioning.json is left alone (load_or_generate, persist).
THEOREM CodeKept == Spec => CodeStable
<1>1. IInv /\ [Next]_vars =>
         [proc # "serving" /\ proc' = "serving" => expected \in {None, code}]_vars
  <2> SUFFICES ASSUME IInv, Next, proc # "serving", proc' = "serving"
               PROVE  expected \in {None, code}
    OBVIOUS
  <2>1. CASE DevStart \/ ReceiveReady
    <3>1. proc \in HasCode
      BY <2>1 DEF DevStart, ReceiveReady, HasCode
    <3> QED
      BY <3>1 DEF IInv, Kept
  <2>2. CASE ~(DevStart \/ ReceiveReady)
    BY <2>2 DEF Next, StartStep, Start, Load, StatFails, Persist, Exit, ExitFailed, Gone, SpawnStack,
                ReceiveError, TimeOut, Bail, Preflight, Startup, Validate, SetRunning, SendReady, Steps,
                FailStart, Leave, Leaves, Report, Panic, InventoryChanges, FileChanges, DevServes, process
  <2> QED
    BY <2>1, <2>2
<1> QED
  BY <1>1, Invariance, PTL DEF Spec, CodeStable

\* A window of the development backend opened while nothing was about to store
\* lasts until its deadline unless another request comes: expiry tasks of earlier
\* windows leave it alone (schedule_expiry and its generation).
THEOREM WindowLasts == Spec => []OpenLasts
<1>1. IInv => OpenLasts
  BY DEF IInv, DevInv, Promise, OpenLasts, IsOpen
<1> QED
  BY <1>1, Invariance, PTL

-----------------------------------------------------------------------------
(* The choice of the interface *)

IsInventory(ifaces) ==
    /\ DOMAIN ifaces \subseteq Nat \ {0}
    /\ \A i \in DOMAIN ifaces :
          ifaces[i] # NoPin /\ ifaces[i].up \in BOOLEAN /\ ifaces[i].mac \in BOOLEAN

LEMMA Inventory == \A ifaces \in Inventories \cup {NoInventory} : IsInventory(ifaces)
<1> SUFFICES ASSUME NEW ifaces \in Inventories \cup {NoInventory} PROVE IsInventory(ifaces)
  OBVIOUS
<1>1. CASE ifaces \in Inventories
  <2>1. ifaces \in Seq({ifaces[i] : i \in DOMAIN ifaces})
    BY <1>1, InventoryAssumption
  <2>2. DOMAIN ifaces = 1 .. Len(ifaces) /\ Len(ifaces) \in Nat
    BY <2>1, LenProperties
  <2>3. DOMAIN ifaces \subseteq Nat \ {0}
    BY <2>2
  <2> QED
    BY <1>1, <2>3, InventoryAssumption DEF IsInventory
<1>2. CASE ifaces = NoInventory
  BY <1>2 DEF NoInventory, IsInventory
<1> QED
  BY <1>1, <1>2

\* A set of natural numbers has a smallest one.
LEMMA Smallest ==
    ASSUME NEW T \in SUBSET Nat, T # {}
    PROVE  \E x \in T : \A y \in T : x <= y
<1> DEFINE R == StrictSubsetOrdering(Nat)
           below == {0 .. x : x \in T}
<1>1. IsWellFoundedOn(R, FiniteSubsetsOf(Nat))
  BY FS_StrictSubsetOrderingWellFounded
<1>2. below \subseteq FiniteSubsetsOf(Nat) /\ below # {}
  <2>1. \A x \in T : IsFiniteSet(0 .. x) /\ 0 .. x \in SUBSET Nat
    BY FS_Interval
  <2> QED
    BY <2>1 DEF FiniteSubsetsOf
<1> HIDE DEF R, below
<1>3. PICK b \in below : \A c \in below : ~(<<c, b>> \in R)
  BY <1>1, <1>2, WFMin
<1>4. PICK x \in T : b = 0 .. x
  BY DEF below
<1>5. ASSUME NEW y \in T, y < x PROVE FALSE
  <2>1. 0 .. y \in below
    BY DEF below
  <2>2. 0 .. y \subseteq 0 .. x /\ 0 .. y # 0 .. x
    BY <1>5
  <2>3. <<0 .. y, b>> \in R
    BY <1>4, <2>2 DEF R, StrictSubsetOrdering
  <2> QED
    BY <1>3, <2>1, <2>3
<1> QED
  BY <1>5

LEMMA FirstNamed ==
    ASSUME NEW ifaces, IsInventory(ifaces), NEW name, First(ifaces, name) # 0
    PROVE  First(ifaces, name) \in DOMAIN ifaces /\ ifaces[First(ifaces, name)].name = name
<1> DEFINE named == {i \in DOMAIN ifaces : ifaces[i].name = name}
<1>1. named # {} /\ First(ifaces, name) = CHOOSE i \in named : \A j \in named : i <= j
  BY DEF First
<1>2. \E i \in named : \A j \in named : i <= j
  BY <1>1, Smallest DEF IsInventory
<1>3. First(ifaces, name) \in named
  BY <1>1, <1>2
<1> QED
  BY <1>3

LEMMA ScoreType == \A iface : Score(iface) \in Nat /\ Score(iface) <= 1370
<1> SUFFICES ASSUME NEW iface PROVE Score(iface) \in Nat /\ Score(iface) <= 1370
  OBVIOUS
<1>1. /\ Points(iface.up, 1000) \in {0, 1000} /\ Points(iface.mac, 100) \in {0, 100}
      /\ Points(HasIPv4(iface), 50) \in {0, 50} /\ Points(HasMatterIPv6(iface), 200) \in {0, 200}
      /\ Points(HasRoutableIPv6(iface), 20) \in {0, 20}
  BY DEF Points
<1> QED
  BY <1>1 DEF Score

\* Among bounded points there is a highest, and a first that has it.
LEMMA Highest ==
    ASSUME NEW among \in SUBSET Nat, among # {}, NEW points \in [among -> Nat],
           NEW bound \in Nat, \A i \in among : points[i] <= bound
    PROVE  \E i \in among : \A j \in among :
              points[i] > points[j] \/ (points[i] = points[j] /\ i <= j)
<1> DEFINE below == {bound - points[i] : i \in among}
           top(n) == {i \in among : points[i] = n}
<1>1. \A i \in among : points[i] \in Nat /\ bound - points[i] \in Nat
  OBVIOUS
<1>2. \A i \in among : bound - points[i] \in below
  OBVIOUS
<1>3. \A y \in below : \E i \in among : y = bound - points[i]
  OBVIOUS
<1>4. \A n, i : i \in top(n) <=> i \in among /\ points[i] = n
  OBVIOUS
<1> HIDE DEF below, top
<1>5. below \in SUBSET Nat /\ below # {}
  BY <1>1, <1>2, <1>3
<1>6. PICK x \in below : \A y \in below : x <= y
  BY <1>5, Smallest
<1>7. PICK b \in among : x = bound - points[b]
  BY <1>3
<1>8. ASSUME NEW j \in among PROVE points[j] <= points[b]
  <2>1. bound - points[b] <= bound - points[j]
    BY <1>2, <1>6, <1>7
  <2>2. points[j] \in Nat /\ points[b] \in Nat
    BY <1>1
  <2> QED
    BY <2>1, <2>2
<1>9. top(points[b]) \in SUBSET Nat /\ top(points[b]) # {}
  BY <1>4
<1>10. PICK i \in top(points[b]) : \A j \in top(points[b]) : i <= j
  BY <1>9, Smallest
<1>11. i \in among /\ points[i] = points[b]
  BY <1>4
<1>12. ASSUME NEW j \in among PROVE points[i] > points[j] \/ (points[i] = points[j] /\ i <= j)
  <2>1. points[j] = points[b] => i <= j
    BY <1>4, <1>10
  <2>2. points[j] \in Nat /\ points[b] \in Nat
    BY <1>1
  <2> QED
    BY <1>8, <1>11, <2>1, <2>2
<1> QED
  BY <1>11, <1>12

LEMMA BestFound ==
    ASSUME NEW ifaces, IsInventory(ifaces), NEW among \in SUBSET DOMAIN ifaces, among # {}
    PROVE  /\ Best(ifaces, among) \in among
           /\ \A j \in among : Score(ifaces[j]) <= Score(ifaces[Best(ifaces, among)])
<1> DEFINE least(i) == \A j \in among :
              \/ Score(ifaces[i]) > Score(ifaces[j])
              \/ Score(ifaces[i]) = Score(ifaces[j]) /\ i <= j
<1>1. among \in SUBSET Nat
  BY DEF IsInventory
<1>2. PICK bound \in Nat : \A iface : Score(iface) \in Nat /\ Score(iface) <= bound
  BY ScoreType
<1>3. PICK points : points = [i \in among |-> Score(ifaces[i])]
  OBVIOUS
<1>4. \A i \in among : points[i] = Score(ifaces[i])
  BY <1>3
<1>5. points \in [among -> Nat]
  BY <1>2, <1>3
<1>6. \A i \in among : points[i] <= bound
  BY <1>2, <1>4
<1> HIDE DEF least
<1>7. PICK i \in among : least(i)
  <2>1. PICK i \in among : \A j \in among :
            points[i] > points[j] \/ (points[i] = points[j] /\ i <= j)
    BY <1>1, <1>5, <1>6, Highest
  <2>2. \A j \in among : \/ Score(ifaces[i]) > Score(ifaces[j])
                         \/ Score(ifaces[i]) = Score(ifaces[j]) /\ i <= j
    BY <1>4, <2>1
  <2> QED
    BY <2>2 DEF least
<1>8. Best(ifaces, among) = CHOOSE k \in among : least(k)
  BY DEF Best, least
<1>9. Best(ifaces, among) \in among /\ least(Best(ifaces, among))
  BY <1>7, <1>8
<1>10. ASSUME NEW j \in among
       PROVE  Score(ifaces[j]) <= Score(ifaces[Best(ifaces, among)])
  <2>1. PICK best, other : best = Score(ifaces[Best(ifaces, among)]) /\ other = Score(ifaces[j])
    OBVIOUS
  <2>2. best \in Nat /\ other \in Nat
    BY <1>2, <2>1
  <2>3. best > other \/ best = other
    BY <1>9, <2>1 DEF least
  <2> QED
    BY <2>1, <2>2, <2>3
<1> QED
  BY <1>9, <1>10

\* What an interface chosen without a pin is: a real one if one competes, with a
\* score that no other of its round exceeds.
LEMMA AutoFound ==
    ASSUME NEW ifaces, IsInventory(ifaces)
    PROVE  \/ Possible(ifaces) = {} /\ PickAuto(ifaces) = NoPin
           \/ \E among \in {Possible(ifaces), Preferred(ifaces)} : \E i \in among :
                 /\ PickAuto(ifaces) = ifaces[i]
                 /\ \A j \in among : Score(ifaces[j]) <= Score(ifaces[i])
                 /\ Preferred(ifaces) # {} => among = Preferred(ifaces)
                 /\ Preferred(ifaces) = {} => among = Possible(ifaces)
<1>1. Preferred(ifaces) \subseteq Possible(ifaces) /\ Possible(ifaces) \subseteq DOMAIN ifaces
  BY DEF Preferred, Possible
<1>2. CASE Preferred(ifaces) # {}
  BY <1>1, <1>2, BestFound DEF PickAuto
<1>3. CASE Preferred(ifaces) = {} /\ Possible(ifaces) # {}
  BY <1>1, <1>3, BestFound DEF PickAuto
<1>4. CASE Possible(ifaces) = {}
  BY <1>1, <1>4 DEF PickAuto
<1> QED
  BY <1>2, <1>3, <1>4

LEMMA PickSound ==
    ASSUME NEW ifaces, IsInventory(ifaces), NEW p
    PROVE  SoundPick(ifaces, p) /\ ValidatedPick(ifaces, p)
<1>1. CASE p = NoPin
  <2>1. Pick(ifaces, p) = PickAuto(ifaces)
    BY <1>1 DEF Pick
  <2>2. Validated(ifaces, p) <=> Preferred(ifaces) # {}
    BY <1>1 DEF Validated
  <2>3. \A i \in Preferred(ifaces) : i \in Possible(ifaces) /\ ~IsVirtual(ifaces[i])
    BY DEF Preferred
  <2>4. \A i \in Possible(ifaces) :
           /\ ifaces[i].name \notin Loopbacks /\ ifaces[i].up
           /\ HasMatterIPv6(ifaces[i]) /\ ifaces[i] # NoPin
    BY DEF Possible, IsInventory
  <2>5. CASE Possible(ifaces) = {} /\ PickAuto(ifaces) = NoPin
    BY <1>1, <2>1, <2>2, <2>3, <2>5 DEF SoundPick, ValidatedPick
  <2>6. CASE ~(Possible(ifaces) = {} /\ PickAuto(ifaces) = NoPin)
    <3>1. PICK i \in Possible(ifaces) :
             PickAuto(ifaces) = ifaces[i] /\ (Preferred(ifaces) # {} => i \in Preferred(ifaces))
      BY <2>3, <2>6, AutoFound
    <3> QED
      BY <1>1, <2>1, <2>2, <2>3, <2>4, <3>1 DEF SoundPick, ValidatedPick
  <2> QED
    BY <2>5, <2>6
<1>2. CASE p # NoPin
  <2>1. Pick(ifaces, p) = PickPinned(ifaces, p)
    BY <1>2 DEF Pick
  <2> DEFINE i == First(ifaces, p)
  <2>2. CASE i # 0 /\ HasMatterIPv6(ifaces[i])
    <3>1. PickPinned(ifaces, p) = ifaces[i] /\ ifaces[i].name = p /\ ifaces[i] # NoPin
      BY <2>2, FirstNamed DEF PickPinned, IsInventory
    <3> QED
      BY <1>2, <2>1, <2>2, <3>1 DEF SoundPick, ValidatedPick, Validated
  <2>3. CASE ~(i # 0 /\ HasMatterIPv6(ifaces[i]))
    BY <1>2, <2>1, <2>3 DEF SoundPick, ValidatedPick, Validated, PickPinned
  <2> QED
    BY <2>2, <2>3
<1> QED
  BY <1>1, <1>2

\* Among interfaces that are up with IPv6, and both real or both not, whatever
\* outranks has the higher score.
LEMMA OutranksScore ==
    ASSUME NEW a, NEW b, a.up, b.up, a.mac \in BOOLEAN, b.mac \in BOOLEAN,
           HasMatterIPv6(a), HasMatterIPv6(b), Outranks(a, b)
    PROVE  \/ ~IsVirtual(a) /\ IsVirtual(b)
           \/ (IsVirtual(a) <=> IsVirtual(b)) /\ Score(a) > Score(b)
<1>1. \/ ~IsVirtual(a) /\ IsVirtual(b)
      \/ (IsVirtual(a) <=> IsVirtual(b)) /\ a.mac /\ ~b.mac
      \/ (IsVirtual(a) <=> IsVirtual(b)) /\ a.mac = b.mac /\ HasIPv4(a) /\ ~HasIPv4(b)
      \/ /\ IsVirtual(a) <=> IsVirtual(b)
         /\ a.mac = b.mac
         /\ HasIPv4(a) <=> HasIPv4(b)
         /\ HasRoutableIPv6(a) /\ ~HasRoutableIPv6(b)
  BY DEF Outranks, Rank
<1>2. /\ Score(a) = 1200 + Points(a.mac, 100) + Points(HasIPv4(a), 50) + Points(HasRoutableIPv6(a), 20)
      /\ Score(b) = 1200 + Points(b.mac, 100) + Points(HasIPv4(b), 50) + Points(HasRoutableIPv6(b), 20)
  BY DEF Score, Points
<1> QED
  BY <1>1, <1>2 DEF Points

LEMMA PickBest == ASSUME NEW ifaces, IsInventory(ifaces) PROVE BestPick(ifaces)
<1> SUFFICES ASSUME NEW i \in Possible(ifaces), Outranks(ifaces[i], Pick(ifaces, NoPin)) PROVE FALSE
  BY DEF BestPick
<1>1. \A j \in Possible(ifaces) :
         ifaces[j].up /\ HasMatterIPv6(ifaces[j]) /\ ifaces[j].mac \in BOOLEAN
  BY DEF Possible, IsInventory
<1>a. PICK among \in {Possible(ifaces), Preferred(ifaces)} : \E k \in among :
         /\ PickAuto(ifaces) = ifaces[k]
         /\ \A j \in among : Score(ifaces[j]) <= Score(ifaces[k])
         /\ Preferred(ifaces) # {} => among = Preferred(ifaces)
         /\ Preferred(ifaces) = {} => among = Possible(ifaces)
  BY AutoFound
<1>2. PICK k \in among :
         /\ PickAuto(ifaces) = ifaces[k]
         /\ \A j \in among : Score(ifaces[j]) <= Score(ifaces[k])
         /\ Preferred(ifaces) # {} => among = Preferred(ifaces)
         /\ Preferred(ifaces) = {} => among = Possible(ifaces)
  BY <1>a
<1>3. /\ k \in Possible(ifaces) /\ Pick(ifaces, NoPin) = ifaces[k]
      /\ \A j \in Possible(ifaces) : j \in Preferred(ifaces) <=> ~IsVirtual(ifaces[j])
  BY <1>2 DEF Pick, Preferred
<1>4. \/ ~IsVirtual(ifaces[i]) /\ IsVirtual(ifaces[k])
      \/ /\ IsVirtual(ifaces[i]) <=> IsVirtual(ifaces[k])
         /\ Score(ifaces[i]) > Score(ifaces[k])
  BY <1>1, <1>3, OutranksScore
<1>5. ~(~IsVirtual(ifaces[i]) /\ IsVirtual(ifaces[k]))
  BY <1>2, <1>3
<1>6. i \in among
  BY <1>2, <1>3, <1>4, <1>5
<1>7. PICK other, best : other = Score(ifaces[i]) /\ best = Score(ifaces[k])
  OBVIOUS
<1>8. other \in Nat /\ best \in Nat
  BY <1>7, ScoreType
<1>9. other > best /\ other <= best
  BY <1>2, <1>4, <1>5, <1>6, <1>7
<1> QED
  BY <1>8, <1>9

\* The stack is shown a usable interface or none, the pinned one if there is a
\* pin, and what the start has validated is there to be shown (LanNetifs::pick,
\* validate_for_start).  Without a pin no interface outranks the one chosen: the
\* points add up to the order in which what they stand for matters (score_iface).
\* All this for any list of interfaces.
THEOREM ShownFace == Spec => []FaceRight
<1>1. IInv => FaceRight
  BY Inventory, PickSound, PickBest DEF IInv, Typed, FaceRight
<1> QED
  BY <1>1, Invariance, PTL
=============================================================================
