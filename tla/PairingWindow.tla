---------------------------- MODULE PairingWindow ----------------------------
(***************************************************************************)
(* The basic commissioning window (bridge/src/matter/export_plane.rs).  Only *)
(* the thread of the Matter stack may touch the stack, so a client that      *)
(* wants the window opened or closed puts its request into a mailbox of one  *)
(* and waits ten seconds for the answer.  The stack thread wakes up, samples *)
(* the number of fabrics, takes the request and executes it.  Whether the    *)
(* stack has a window open cannot be read from it: the bridge tracks its own *)
(* window by a deadline.                                                     *)
(*                                                                           *)
(* The stack itself is a library: the actions named for it say what it may   *)
(* do between two runs of the bridge's code on its thread.  A unit of time   *)
(* is as long as one needs: what happens at the same time happens in any     *)
(* order.                                                                    *)
(***************************************************************************)
EXTENDS Integers

CONSTANTS
    Clients,        \* requests to the pairing routes that may be in progress
    Timeouts,       \* the time-outs clients ask for
    MinTimeout, MaxTimeout, \* what the Matter specification allows
    StartupTimeout, \* of the window of a bridge without fabrics
    MaxFabrics,     \* bound on the fabrics
    MaxTime,        \* bound on the clock
    None            \* nobody, nothing

ASSUME TimeoutsAssumption ==
    /\ Timeouts \subseteq Nat
    /\ MinTimeout \in Nat \ {0} /\ MaxTimeout \in Nat /\ MinTimeout <= MaxTimeout
    /\ StartupTimeout \in Nat \ {0}
ASSUME BoundsAssumption == MaxFabrics \in Nat /\ MaxTime \in Nat

VARIABLES
    now,         \* the clock
    deadline,    \* window_deadline, 0 for no window
    fabricCount, \* fabric_count: the last sample
    mailbox,     \* window_request
    client,      \* what each client is doing
    run,         \* where the run loop of the stack thread is
    taken,       \* the request it took from the mailbox
    fabrics,     \* the fabrics the stack has
    window,      \* the window the stack has open: whose, and until when
    \* Observer, read by no action.
    revoked      \* a controller closed the bridge's window or removed a fabric,
                 \* and no request to open or to close has gone through since

tracked == <<deadline, fabricCount>>
stack == <<fabrics, window>>
vars == <<now, tracked, mailbox, client, run, taken, stack, revoked>>

\* clamp_pairing_timeout
Clamp(t) == IF t < MinTimeout THEN MinTimeout ELSE IF t > MaxTimeout THEN MaxTimeout ELSE t

Ops == [do : {"open"}, for : {Clamp(t) : t \in Timeouts}] \cup [do : {"close"}]

\* A request whose client no longer waits is from None: its answer is lost.
Requests == [op : Ops, from : Clients \cup {None}]

ASSUME NoneAssumption == None \notin Clients /\ None \notin Requests

Closed == [by |-> "nobody", until |-> 0]
OpenedBy(who, t) == [by |-> who, until |-> now + t]

\* pairing_open
PairingOpen == deadline # 0 /\ now < deadline

-----------------------------------------------------------------------------
(* Start: the stack opens a window when it has no fabric, and the bridge     *)
(* tracks it (note_startup_commissioning_state).  The clock starts at 1, the *)
(* deadline 0 being none.                                                    *)

Init ==
    /\ now = 1
    /\ fabrics \in 0..MaxFabrics
    /\ fabricCount = fabrics
    /\ window = IF fabrics = 0 THEN OpenedBy("bridge", StartupTimeout) ELSE Closed
    /\ deadline = window.until
    /\ mailbox = None
    /\ client = [c \in Clients |-> "idle"]
    /\ run = "waiting"
    /\ taken = None
    /\ revoked = FALSE

-----------------------------------------------------------------------------
(* The clients: post_window_request.                                         *)

Post(c, op) ==
    /\ client[c] = "idle"
    /\ mailbox = None
    /\ mailbox' = [op |-> op, from |-> c]
    /\ client' = [client EXCEPT ![c] = "waiting"]
    /\ UNCHANGED <<now, tracked, run, taken, stack, revoked>>

\* A request nobody waits for any longer.
Abandoned(req, c) == IF req # None /\ req.from = c THEN [req EXCEPT !.from = None] ELSE req

\* recv_timeout returned without an answer.  The mailbox is not locked yet.
TimeOut(c) ==
    /\ client[c] = "waiting"
    /\ client' = [client EXCEPT ![c] = "timed out"]
    /\ mailbox' = Abandoned(mailbox, c)
    /\ taken' = Abandoned(taken, c)
    /\ UNCHANGED <<now, tracked, run, stack, revoked>>

\* Mutant of ClearMailbox: the request stays in the mailbox.
LeaveMailbox(c) ==
    /\ client[c] = "timed out"
    /\ client' = [client EXCEPT ![c] = "idle"]
    /\ UNCHANGED <<now, tracked, mailbox, run, taken, stack, revoked>>

\* It clears the mailbox, whatever is in it, and fails.
ClearMailbox(c) ==
    /\ client[c] = "timed out"
    /\ client' = [client EXCEPT ![c] = "idle"]
    /\ mailbox' = None
    /\ UNCHANGED <<now, tracked, run, taken, stack, revoked>>

\* The client takes the answer: "opened", "closed" or "refused".
Leave(c) ==
    /\ client[c] \in {"opened", "closed", "refused"}
    /\ client' = [client EXCEPT ![c] = "idle"]
    /\ UNCHANGED <<now, tracked, mailbox, run, taken, stack, revoked>>

-----------------------------------------------------------------------------
(* The run loop on the stack thread: between waiting and waiting again the   *)
(* stack does nothing else.                                                  *)

\* Mutant of Sample: the count is updated and the deadline left alone.
SampleOnly ==
    /\ run = "waiting"
    /\ run' = "sampled"
    /\ fabricCount' = fabrics
    /\ UNCHANGED <<now, deadline, mailbox, client, taken, stack, revoked>>

\* sample_fabrics: a fabric more and the window was used; an overdue
\* deadline is cleared.
Sample ==
    /\ run = "waiting"
    /\ run' = "sampled"
    /\ fabricCount' = fabrics
    /\ deadline' = IF fabrics > fabricCount \/ now >= deadline THEN 0 ELSE deadline
    /\ UNCHANGED <<now, mailbox, client, taken, stack, revoked>>

\* Mutant of Take: the request stays in the mailbox while it is executed.
Peek ==
    /\ run = "sampled"
    /\ taken' = mailbox
    /\ run' = IF mailbox = None THEN "waiting" ELSE "executing"
    /\ UNCHANGED <<now, tracked, mailbox, client, stack, revoked>>

\* drain_window_request: the lock is held for the take only.
Take ==
    /\ run = "sampled"
    /\ taken' = mailbox
    /\ mailbox' = None
    /\ run' = IF mailbox = None THEN "waiting" ELSE "executing"
    /\ UNCHANGED <<now, tracked, client, stack, revoked>>

\* The answer to the request, if its client still waits.
Answer(result) ==
    /\ client' = [c \in Clients |-> IF c = taken.from THEN result ELSE client[c]]
    /\ taken' = None
    /\ run' = "waiting"
    /\ UNCHANGED <<now, mailbox, fabrics>>

\* Open with a tracked window open: nothing is done, the deadline stays.
OpenAlready ==
    /\ run = "executing" /\ taken.op.do = "open" /\ PairingOpen
    /\ UNCHANGED <<tracked, window, revoked>>
    /\ Answer("opened")

\* Open: the stack opens the window unless it has one.
OpenNew ==
    /\ run = "executing" /\ taken.op.do = "open" /\ ~PairingOpen
    /\ window = Closed
    /\ window' = OpenedBy("bridge", taken.op.for)
    /\ fabricCount' = fabrics
    /\ deadline' = window'.until
    /\ revoked' = FALSE
    /\ Answer("opened")

\* Open: the stack has a window (Busy) or fails.  It is left as it is.
OpenRefused ==
    /\ run = "executing" /\ taken.op.do = "open" /\ ~PairingOpen
    /\ fabricCount' = fabrics
    /\ UNCHANGED <<deadline, window, revoked>>
    /\ Answer("refused")

\* Mutant of CloseUntracked: the stack closes the window it has all the same.
CloseAnyway ==
    /\ run = "executing" /\ taken.op.do = "close" /\ ~PairingOpen
    /\ deadline' = 0
    /\ window' = Closed
    /\ UNCHANGED fabricCount
    /\ revoked' = FALSE
    /\ Answer("closed")

\* Close with no tracked window open: the stack is not touched.
CloseUntracked ==
    /\ run = "executing" /\ taken.op.do = "close" /\ ~PairingOpen
    /\ deadline' = 0
    /\ UNCHANGED <<fabricCount, window>>
    /\ revoked' = FALSE
    /\ Answer("closed")

\* Mutant of CloseTracked: the window is not marked closed.
CloseUnmarked ==
    /\ run = "executing" /\ taken.op.do = "close" /\ PairingOpen
    /\ window' = Closed
    /\ UNCHANGED tracked
    /\ revoked' = FALSE
    /\ Answer("closed")

\* Close: the stack closes the window it has, whosever it is.
CloseTracked ==
    /\ run = "executing" /\ taken.op.do = "close" /\ PairingOpen
    /\ window' = Closed
    /\ deadline' = 0
    /\ UNCHANGED fabricCount
    /\ revoked' = FALSE
    /\ Answer("closed")

\* Close: the stack fails.
CloseFails ==
    /\ run = "executing" /\ taken.op.do = "close" /\ PairingOpen
    /\ UNCHANGED <<tracked, window, revoked>>
    /\ Answer("refused")

RunLoop ==
    Sample \/ Take \/ OpenAlready \/ OpenNew \/ OpenRefused
        \/ CloseUntracked \/ CloseTracked \/ CloseFails

-----------------------------------------------------------------------------
(* The stack, while the run loop waits.                                      *)

StackStep ==
    /\ run = "waiting"
    /\ UNCHANGED <<now, tracked, mailbox, client, run, taken>>

\* A controller commissions the bridge through the window, which closes it.
Commission ==
    /\ StackStep
    /\ window # Closed /\ fabrics < MaxFabrics
    /\ fabrics' = fabrics + 1
    /\ window' = Closed
    /\ UNCHANGED revoked

\* A controller the bridge belongs to opens a window for another one.
ControllerOpens(t) ==
    /\ StackStep
    /\ fabrics > 0 /\ window = Closed
    /\ window' = OpenedBy("controller", t)
    /\ UNCHANGED <<fabrics, revoked>>

\* A window lapses, or its controller closes it.
WindowCloses ==
    /\ StackStep
    /\ \/ window.by = "bridge" /\ now >= window.until
       \/ window.by = "controller"
    /\ window' = Closed
    /\ UNCHANGED <<fabrics, revoked>>

\* A controller closes the window of the bridge.
ControllerRevokes ==
    /\ StackStep
    /\ fabrics > 0 /\ window.by = "bridge"
    /\ window' = Closed
    /\ UNCHANGED fabrics
    /\ revoked' = TRUE

\* A controller removes a fabric, not the last one.
RemoveFabric ==
    /\ StackStep
    /\ fabrics > 1
    /\ fabrics' = fabrics - 1
    /\ UNCHANGED window
    /\ revoked' = TRUE

\* The stack thread ends, and with it the window and a request it has taken:
\* the client of that one gets no answer either.
StackDies ==
    /\ run # "dead"
    /\ run' = "dead"
    /\ taken' = None
    /\ window' = Closed
    /\ UNCHANGED <<now, tracked, mailbox, client, fabrics, revoked>>

Tick ==
    /\ now < MaxTime
    /\ now' = now + 1
    /\ UNCHANGED <<tracked, mailbox, client, run, taken, stack, revoked>>

-----------------------------------------------------------------------------
Next ==
    \/ \E c \in Clients : \/ \E op \in Ops : Post(c, op)
                          \/ TimeOut(c) \/ ClearMailbox(c) \/ Leave(c)
    \/ RunLoop
    \/ Commission \/ WindowCloses \/ ControllerRevokes \/ RemoveFabric
    \/ \E op \in Ops : op.do = "open" /\ ControllerOpens(op.for)
    \/ StackDies
    \/ Tick

\* A client waits for ten seconds only and its thread runs on.  Nothing is
\* assumed of the stack thread.
Fairness == \A c \in Clients : WF_vars(TimeOut(c)) /\ WF_vars(ClearMailbox(c))

Spec == Init /\ [][Next]_vars /\ Fairness

-----------------------------------------------------------------------------
(* Properties.                                                               *)

\* Types.  A client waits for the answer to one request, which is in the
\* mailbox or in the hands of the stack thread, not in both.
TypeOK ==
    /\ now \in Nat
    /\ deadline \in Nat
    /\ fabricCount \in 0..MaxFabrics
    /\ mailbox \in Requests \cup {None}
    /\ client \in [Clients -> {"idle", "waiting", "timed out", "opened", "closed", "refused"}]
    /\ run \in {"waiting", "sampled", "executing", "dead"}
    /\ taken \in Requests \cup {None}
    /\ (run = "executing") = (taken # None)
    /\ fabrics \in 0..MaxFabrics
    /\ window \in [by : {"nobody", "bridge", "controller"}, until : Nat]
    /\ \A c \in Clients : mailbox # None /\ mailbox.from = c =>
           client[c] = "waiting" /\ (taken = None \/ taken.from # c)

OwnWindowOpen == window.by = "bridge" /\ now < window.until

\* When a request is executed the deadline is later than now whenever the
\* bridge's own window is open, and only then: the window was not used
\* meanwhile and is not another one (apply_fabric_sample before the drain).
\* What a controller did to the bridge's window behind its back only lasts
\* until a request has gone through.
TrackedExact ==
    run \in {"sampled", "executing"} =>
        /\ OwnWindowOpen => PairingOpen
        /\ PairingOpen /\ ~revoked => OwnWindowOpen

\* A client that is told the window is open can pair now (but for a window
\* revoked by a controller), and one that is told it is closed has left no
\* window of the bridge open, even when nothing was done for it because the
\* deadline said so.
AnswersTrue ==
    [][\A c \in Clients : client[c] = "waiting" =>
          /\ client'[c] = "opened" => OwnWindowOpen' \/ revoked
          /\ client'[c] = "closed" => ~OwnWindowOpen']_vars

Executes == run = "executing" /\ run' = "waiting"

\* Executing a request leaves alone a window of a controller, also one opened
\* right after the bridge's window was used, before its fabric was sampled.
ForeignKept ==
    [][Executes /\ window.by = "controller" /\ ~revoked => window' = window]_vars

\* The same whatever controllers do: "Close only windows this bridge opened"
\* (execute_window_op).
CloseOwnOnly ==
    [][Executes /\ window.by = "controller" => window' = window]_vars

\* No request blocks the mailbox for ever, not even when the stack thread is
\* gone ("so a later open/close is not stuck behind a dead mailbox entry").
MailboxFreed == mailbox # None ~> mailbox = None
=============================================================================
