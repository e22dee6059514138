------------------------------ MODULE BridgeRpc ------------------------------
(***************************************************************************)
(* JSON-RPC over the pipes of one bridge process: BaileysBridge.call,      *)
(* _read_loop and stop (src/src/bridge/client.py) against handleRequest    *)
(* (src/bridge/index.mjs), which serves requests concurrently and answers  *)
(* in any order.  A response with a result and one with an error are both  *)
(* an answer.                                                              *)
(*                                                                         *)
(* An action is the code between two awaits.  wait_for lets its timeout    *)
(* and the future's completion race: until the caller runs again, either   *)
(* may decide what it gets.                                                *)
(***************************************************************************)
EXTENDS Integers, FiniteSets

CONSTANTS
    Calls,      \* calls that are made, each once
    Impatient,  \* those under a wait_for of their caller: the health loop's
    None        \* not a call

ASSUME RpcAssumption == Impatient \subseteq Calls /\ None \notin Calls

VARIABLES
    running,    \* _running
    proc,       \* the process: "none", "up", "gone"
    reader,     \* the task of _read_loop: "none", "on", "off"
    stopping,   \* where stop() is: "none", "reader", "exit", "done"
    stalled,    \* the bridge does not read its stdin, and the pipe is full
    requestId,  \* _request_id
    pending,    \* _pending, as the set of its items
    call,       \* the calls, with their futures
    inbox,      \* requests in the bridge's stdin
    outbox,     \* responses in its stdout
    handled,    \* calls the bridge has performed
    stoppedAt   \* _request_id when stop() began

bridge == <<running, proc, reader, stopping, stalled>>
wire == <<inbox, outbox, handled>>
vars == <<running, proc, reader, stopping, stalled, requestId, pending, call,
          inbox, outbox, handled, stoppedAt>>

Active == {"draining", "waiting"}
Settled == {"refused", "answered", "timeout", "cancelled", "interrupted", "lost"}

CallRecords == [pc : {"idle"} \cup Active \cup Settled, id : Nat,
                fut : {"none", "open", "answered", "cancelled"},
                of : Calls \cup {None}]

Lines == [id : Nat, of : Calls]

TypeOK ==
    /\ running \in BOOLEAN
    /\ proc \in {"none", "up", "gone"}
    /\ reader \in {"none", "on", "off"}
    /\ stopping \in {"none", "reader", "exit", "done"}
    /\ stalled \in BOOLEAN
    /\ requestId \in Nat
    /\ pending \subseteq [id : Nat, call : Calls]
    /\ call \in [Calls -> CallRecords]
    /\ inbox \subseteq Lines
    /\ outbox \subseteq Lines
    /\ handled \subseteq Calls
    /\ stoppedAt \in Nat

(* __init__                                                                *)
Init ==
    /\ running = FALSE
    /\ proc = "none"
    /\ reader = "none"
    /\ stopping = "none"
    /\ stalled = FALSE
    /\ requestId = 0
    /\ pending = {}
    /\ call = [c \in Calls |-> [pc |-> "idle", id |-> 0, fut |-> "none", of |-> None]]
    /\ inbox = {}
    /\ outbox = {}
    /\ handled = {}
    /\ stoppedAt = 0

(* start(), from the return of create_subprocess_exec on.                  *)
Start ==
    /\ proc = "none"
    /\ proc' = "up"
    /\ running' = TRUE
    /\ reader' = "on"
    /\ UNCHANGED <<stopping, stalled, requestId, pending, call, wire, stoppedAt>>

-----------------------------------------------------------------------------
(* call                                                                    *)

StdinOpen == proc = "up" /\ stopping \in {"none", "reader"}

\* Mutant: a number is used again once its call has left _pending.
NextIdReused == Cardinality(pending) + 1

NextId == requestId + 1

Settle(c, outcome) == [call EXCEPT ![c].pc = outcome]

\* Mutant: a cancelled future ends in a state of its own.
CancelledAsTimeout(r) == IF r.fut = "open" THEN [r EXCEPT !.fut = "timeout"] ELSE r

(* A future that is already done cannot be cancelled.                      *)
Cancelled(r) == IF r.fut = "open" THEN [r EXCEPT !.fut = "cancelled"] ELSE r

(* The items of _pending without one key, or with a value put under it.    *)
Without(id) == {e \in pending : e.id # id}
With(id, c) == Without(id) \cup {[id |-> id, call |-> c]}

CallRefused(c) ==
    /\ call[c].pc = "idle"
    /\ proc = "none"
    /\ call' = Settle(c, "refused")
    /\ UNCHANGED <<bridge, requestId, pending, wire, stoppedAt>>

(* Up to drain().  Nothing looks at _running: a call can be made while the *)
(* bridge stops, and after.  What is written to a closed pipe is lost.     *)
CallWrites(c) ==
    /\ call[c].pc = "idle"
    /\ proc # "none"
    /\ requestId' = NextId
    /\ pending' = With(NextId, c)
    /\ call' = [call EXCEPT ![c] = [pc |-> "draining", id |-> NextId,
                                    fut |-> "open", of |-> None]]
    /\ inbox' = IF StdinOpen THEN inbox \cup {[id |-> NextId, of |-> c]} ELSE inbox
    /\ UNCHANGED <<bridge, outbox, handled, stoppedAt>>

(* drain() returns at once unless the pipe is full.                        *)
DrainReturns(c) ==
    /\ call[c].pc = "draining"
    /\ ~stalled
    /\ call' = Settle(c, "waiting")
    /\ UNCHANGED <<bridge, requestId, pending, wire, stoppedAt>>

(* The pipe is gone: ConnectionResetError, outside the try, so the entry in *)
(* _pending stays.  A closed pipe is gone only when it has been emptied, or *)
(* with its reader.                                                        *)
DrainFails(c) ==
    /\ call[c].pc = "draining"
    /\ proc = "gone" \/ (~StdinOpen /\ ~stalled)
    /\ call' = Settle(c, "lost")
    /\ UNCHANGED <<bridge, requestId, pending, wire, stoppedAt>>

(* The caller runs again and finds its future done.                        *)
Resume(c) ==
    /\ call[c].pc = "waiting"
    /\ call[c].fut \in {"answered", "cancelled"}
    /\ call' = Settle(c, call[c].fut)
    /\ UNCHANGED <<bridge, requestId, pending, wire, stoppedAt>>

\* Mutant: the future is awaited without a timeout.
TimeoutNever(c) ==
    /\ FALSE
    /\ UNCHANGED <<vars, c>>

\* Mutant: the entry is left in _pending.
TimeoutKeepsEntry(c) ==
    /\ call[c].pc = "waiting"
    /\ call' = [call EXCEPT ![c] = [Cancelled(@) EXCEPT !.pc = "timeout"]]
    /\ UNCHANGED <<bridge, requestId, pending, wire, stoppedAt>>

\* Mutant: the entry of the latest call is removed.
TimeoutPopsLatest(c) ==
    /\ call[c].pc = "waiting"
    /\ call' = [call EXCEPT ![c] = [Cancelled(@) EXCEPT !.pc = "timeout"]]
    /\ pending' = Without(requestId)
    /\ UNCHANGED <<bridge, requestId, wire, stoppedAt>>

(* bridge_timeout_seconds pass.                                            *)
Timeout(c) ==
    /\ call[c].pc = "waiting"
    /\ call' = [call EXCEPT ![c] = [Cancelled(@) EXCEPT !.pc = "timeout"]]
    /\ pending' = Without(call[c].id)
    /\ UNCHANGED <<bridge, requestId, wire, stoppedAt>>

(* The caller's own wait_for cancels call(), which catches nothing: in the  *)
(* wait the future is cancelled with it; the entry in _pending stays.      *)
Interrupt(c) ==
    /\ c \in Impatient
    /\ call[c].pc \in Active
    /\ LET r == IF call[c].pc = "waiting" THEN Cancelled(call[c]) ELSE call[c]
       IN call' = [call EXCEPT ![c] = [r EXCEPT !.pc = "interrupted"]]
    /\ UNCHANGED <<bridge, requestId, pending, wire, stoppedAt>>

-----------------------------------------------------------------------------
(* handleRequest                                                           *)

(* The handler's effect, and its answer unless it never ends.              *)
Handle(r) ==
    /\ proc = "up"
    /\ ~stalled
    /\ r \in inbox
    /\ inbox' = inbox \ {r}
    /\ handled' = handled \cup {r.of}
    /\ \/ outbox' = outbox \cup {r}
       \/ UNCHANGED outbox
    /\ UNCHANGED <<bridge, requestId, pending, call, stoppedAt>>

Stall ==
    /\ proc = "up"
    /\ stalled' = ~stalled
    /\ UNCHANGED <<running, proc, reader, stopping, requestId, pending, call,
                   wire, stoppedAt>>

(* A crash, or the SIGTERM or SIGKILL of stop().  What it had written can   *)
(* still be read.                                                          *)
ProcessExits ==
    /\ proc = "up"
    /\ proc' = "gone"
    /\ inbox' = {}
    /\ UNCHANGED <<running, reader, stopping, stalled, requestId, pending, call,
                   outbox, handled, stoppedAt>>

-----------------------------------------------------------------------------
(* _read_loop                                                              *)

\* Mutant: a response with an unknown id goes to whoever waits.
MatchesAnyone(a) ==
    IF \E e \in pending : e.id = a.id
    THEN {e \in pending : e.id = a.id} ELSE pending

Matches(a) == {e \in pending : e.id = a.id}

(* The future with the response's id is popped and set.  Setting one that   *)
(* is done raises InvalidStateError, which is logged; an unknown id is      *)
(* ignored.                                                                *)
ReadAnswer(a) ==
    /\ reader = "on"
    /\ a \in outbox
    /\ outbox' = outbox \ {a}
    /\ pending' = pending \ Matches(a)
    /\ call' = [c \in Calls |->
                   IF /\ \E e \in Matches(a) : e.call = c
                      /\ call[c].fut = "open"
                   THEN [call[c] EXCEPT !.fut = "answered", !.of = a.of]
                   ELSE call[c]]
    /\ UNCHANGED <<bridge, requestId, inbox, handled, stoppedAt>>

(* A line longer than the StreamReader's limit, which nothing raises above  *)
(* its default of 64 KiB, or one that does not decode: logged and skipped. *)
SkipAnswer(a) ==
    /\ reader = "on"
    /\ a \in outbox
    /\ outbox' = outbox \ {a}
    /\ UNCHANGED <<bridge, requestId, pending, call, inbox, handled, stoppedAt>>

(* End of file.  Pending futures are left to their timeouts.               *)
ReaderEnds ==
    /\ reader = "on"
    /\ proc = "gone"
    /\ outbox = {}
    /\ reader' = "off"
    /\ UNCHANGED <<running, proc, stopping, stalled, requestId, pending, call,
                   wire, stoppedAt>>

-----------------------------------------------------------------------------
(* stop                                                                    *)

\* Mutant: the process is left to itself.
AfterReaderLeaves == "done"

AfterReader == IF proc = "up" THEN "exit" ELSE "done"

(* Up to `await self._reader_task`, which yields only if that task is still *)
(* there to be cancelled; it reads nothing more.                           *)
BeginStop ==
    /\ running
    /\ running' = FALSE
    /\ stoppedAt' = requestId
    /\ call' = [c \in Calls |->
                   IF \E e \in pending : e.call = c THEN Cancelled(call[c])
                                                    ELSE call[c]]
    /\ pending' = {}
    /\ reader' = "off"
    /\ stopping' = IF reader = "on" THEN "reader" ELSE AfterReader
    /\ UNCHANGED <<proc, stalled, requestId, wire>>

(* stdin is closed; a process that is still there is terminated.           *)
StopCloses ==
    /\ stopping = "reader"
    /\ stopping' = AfterReader
    /\ UNCHANGED <<running, proc, reader, stalled, requestId, pending, call, wire,
                   stoppedAt>>

StopReturns ==
    /\ stopping = "exit"
    /\ proc = "gone"
    /\ stopping' = "done"
    /\ UNCHANGED <<running, proc, reader, stalled, requestId, pending, call, wire,
                   stoppedAt>>

-----------------------------------------------------------------------------
Caller(c) ==
    \/ CallRefused(c)
    \/ CallWrites(c)
    \/ DrainReturns(c)
    \/ DrainFails(c)
    \/ Resume(c)
    \/ Timeout(c)
    \/ Interrupt(c)

Next ==
    \/ Start \/ Stall \/ ProcessExits \/ ReaderEnds
    \/ BeginStop \/ StopCloses \/ StopReturns
    \/ \E c \in Calls : Caller(c)
    \/ \E r \in inbox : Handle(r)
    \/ \E a \in outbox : ReadAnswer(a) \/ SkipAnswer(a)

Spec == Init /\ [][Next]_vars

(* Ready tasks run, timeouts pass, and stop() kills a process that does not *)
(* end by itself.  Nothing is assumed of the bridge.                       *)
Fairness ==
    /\ \A c \in Calls :
          WF_vars(DrainReturns(c) \/ DrainFails(c)) /\ WF_vars(Resume(c) \/ Timeout(c))
    /\ WF_vars(StopCloses \/ StopReturns)
    /\ WF_vars(stopping = "exit" /\ ProcessExits)

FairSpec == Spec /\ Fairness

-----------------------------------------------------------------------------
(* What a caller gets is the bridge's answer to its own call, although      *)
(* answers come in any order, late, or to calls nobody waits for any more. *)
AnswerMatches ==
    \A c \in Calls : call[c].pc = "answered" => call[c].of = c

(* A caller that waits for an open future is in _pending under its number:  *)
(* its answer, or stop(), will find it.                                    *)
WaiterReachable ==
    \A c \in Calls :
        call[c].pc \in Active /\ call[c].fut = "open" =>
            [id |-> call[c].id, call |-> c] \in pending

(* _pending keeps no entry of a call that was answered, timed out or was    *)
(* cancelled by stop(): only a caller's own timeout and a failed drain()   *)
(* leave one behind.                                                       *)
NoStrayEntry ==
    \A e \in pending :
        call[e.call].id = e.id /\ call[e.call].pc \in Active \cup {"interrupted", "lost"}

(* stop() leaves nobody waiting for the bridge: an open future belongs to a *)
(* call made after it began.                                               *)
StopReleases ==
    stopping # "none" =>
        \A c \in Calls :
            call[c].pc \in Active /\ call[c].fut = "open" => call[c].id > stoppedAt

(* A caller is always released, whatever the bridge does, unless the pipe   *)
(* stays full: drain() has no timeout.                                     *)
CallEnds ==
    \A c \in Calls :
        call[c].pc \in Active ~>
            (call[c].pc \in Settled \/ (call[c].pc = "draining" /\ stalled))

(* Once stop() has begun every call ends, those too that a full pipe blocks *)
(* and those made meanwhile: stop() sees the process to its end.           *)
StopFrees ==
    \A c \in Calls :
        call[c].pc \in Active /\ stopping # "none" ~> call[c].pc \in Settled

(* The promise to callers.                                                 *)
Status(pc) ==
    CASE pc = "idle" -> "idle"
      [] pc \in Active -> "asked"
      [] pc \in {"refused", "answered"} -> pc
      [] pc \in {"timeout", "cancelled", "interrupted", "lost"} -> "failed"

Promise == INSTANCE RpcPromise WITH
               status <- [c \in Calls |-> Status(call[c].pc)]

PromiseKept == Promise!Spec
=============================================================================
