----------------------------- MODULE DevWindow -----------------------------
(***************************************************************************)
(* The pairing window of the development backend (bridge/src/matter/dev.rs): *)
(* a deadline and a generation, two atomics.  Every window has a task that   *)
(* sleeps until its end and then clears the deadline, unless a later open or *)
(* close has raised the generation.  Requests run on HTTP tasks in parallel; *)
(* the expiry tasks may be late.                                             *)
(***************************************************************************)
EXTENDS Integers

CONSTANTS
    Clients,        \* requests that may be in progress
    Timeouts,       \* the time-outs they ask for, clamped
    StartupTimeout, \* of the window a new backend starts with, which has no expiry task
    MaxTime,        \* bound on the clock
    MaxRequests     \* bound on opens and closes

ASSUME WindowAssumption ==
    /\ Timeouts \subseteq Nat \ {0} /\ StartupTimeout \in Nat \ {0}
    /\ MaxTime \in Nat /\ MaxRequests \in Nat

VARIABLES
    now,        \* the clock
    deadline,   \* 0 for no window
    generation,
    client,     \* what each request is in the middle of
    expiry,     \* the tasks of schedule_expiry by the generation they were given
    \* Observer, read by no action.
    promised    \* deadline of the last window, if its open ran alone and
                \* nothing has begun since; else 0

window == <<deadline, generation>>
devVars == <<now, window, client, expiry, promised>>

NoRequest == [at |-> "idle"]

\* is_open.
IsOpen == deadline # 0 /\ now < deadline

\* A request, or an expiry task that has found its generation current, has a
\* store ahead of it.
Storing ==
    \/ \E c \in Clients : client[c] # NoRequest
    \/ \E x \in expiry : x.at = "store"

-----------------------------------------------------------------------------
\* open and close raise the generation first ...
Raise(c, request) ==
    /\ client[c] = NoRequest
    /\ generation < MaxRequests
    /\ generation' = generation + 1
    /\ client' = [client EXCEPT ![c] = request]
    /\ promised' = 0
    /\ UNCHANGED <<now, deadline, expiry>>

OpenRaise(c, timeout) ==
    Raise(c, [at |-> "open", generation |-> generation + 1, for |-> timeout, alone |-> ~Storing])

CloseRaise(c) == Raise(c, [at |-> "close"])

Alone(c) ==
    /\ client[c].alone
    /\ client[c].generation = generation
    /\ \A d \in Clients \ {c} : client[d] = NoRequest
    /\ \A x \in expiry : x.at # "store"

\* ... and then store the deadline; an open schedules its expiry.
OpenStore(c) ==
    /\ client[c].at = "open"
    /\ deadline' = now + client[c].for
    /\ expiry' = expiry \cup
           {[at |-> "sleep", generation |-> client[c].generation, until |-> now + client[c].for]}
    /\ client' = [client EXCEPT ![c] = NoRequest]
    /\ promised' = IF Alone(c) THEN now + client[c].for ELSE 0
    /\ UNCHANGED <<now, generation>>

CloseStore(c) ==
    /\ client[c].at = "close"
    /\ deadline' = 0
    /\ client' = [client EXCEPT ![c] = NoRequest]
    /\ UNCHANGED <<now, generation, expiry, promised>>

\* Mutant of ExpiryCheck: an expiry task clears whatever window there is.
ExpiryUnchecked(x) ==
    /\ x.at = "sleep"
    /\ x.until <= now
    /\ expiry' = (expiry \ {x}) \cup {[x EXCEPT !.at = "store"]}
    /\ UNCHANGED <<now, window, client, promised>>

\* An expiry task checks its generation ...
ExpiryCheck(x) ==
    /\ x.at = "sleep"
    /\ x.until <= now
    /\ expiry' = (expiry \ {x}) \cup
           (IF x.generation = generation THEN {[x EXCEPT !.at = "store"]} ELSE {})
    /\ UNCHANGED <<now, window, client, promised>>

\* ... and clears the deadline, which may by then be a later window's.
ExpiryStore(x) ==
    /\ x.at = "store"
    /\ deadline' = 0
    /\ expiry' = expiry \ {x}
    /\ UNCHANGED <<now, generation, client, promised>>

Tick ==
    /\ now < MaxTime
    /\ now' = now + 1
    /\ UNCHANGED <<window, client, expiry, promised>>

DevStep ==
    \/ \E c \in Clients :
          \/ \E t \in Timeouts : OpenRaise(c, t)
          \/ CloseRaise(c)
          \/ OpenStore(c)
          \/ CloseStore(c)
    \/ \E x \in expiry : ExpiryCheck(x) \/ ExpiryStore(x)
    \/ Tick

-----------------------------------------------------------------------------
DevTypeOK ==
    /\ now \in 0 .. MaxTime
    /\ deadline \in Nat
    /\ generation \in 0 .. MaxRequests
    /\ \A c \in Clients : client[c].at \in {"idle", "open", "close"}
    /\ \A x \in expiry : x.at \in {"sleep", "store"} /\ x.generation \in 1 .. generation

\* A window opened while nothing else was about to store is open until its
\* deadline, as long as no other request comes: the expiry tasks of the windows
\* before it, however late, leave it alone.
OpenLasts == promised # 0 /\ now < promised => IsOpen
=============================================================================
