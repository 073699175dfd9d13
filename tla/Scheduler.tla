------------------------------ MODULE Scheduler ------------------------------
(***************************************************************************)
(* EngineScheduler (scheduler.py) and its two kinds of callers: run_tts of *)
(* a WebSocket session (loops.py) and the handler of POST /v1/audio/speech *)
(* (app.py).  The scheduler is an asyncio.Semaphore and a counter; its     *)
(* lock is never held across a suspension, so it is never contended and    *)
(* each operation is part of the step of the task that calls it.           *)
(*                                                                         *)
(* asyncio.Semaphore is modelled with its real hand-over: a release grants *)
(* the slot to the first waiter's future at once, and the waiter runs      *)
(* later; it may be cancelled in between.                                  *)
(***************************************************************************)
EXTENDS Integers, Sequences, FiniteSets, SequencesExt

CONSTANTS
    Sessions,        \* WebSocket requests, cancelled by TTSSession.close
    HttpCalls,       \* HTTP requests
    MaxConcurrent,   \* max_concurrent_synthesis
    HttpCancellable  \* whether the server may cancel an HTTP handler

Requests == Sessions \cup HttpCalls

ASSUME SchedulerAssumption ==
    /\ IsFiniteSet(Requests)
    /\ Sessions \cap HttpCalls = {}
    /\ MaxConcurrent \in Nat \ {0}
    /\ HttpCancellable \in BOOLEAN

VARIABLES
    value,      \* Semaphore._value
    waiters,    \* Semaphore._waiters, first in first out
    granted,    \* waiters whose future has a result
    waiting,    \* EngineScheduler._waiting
    pc,         \* where each request is
    cancelReq   \* requests whose task was cancelled

vars == <<value, waiters, granted, waiting, pc, cancelReq>>

\* "prime" and "stream" are the two phases of an HTTP request that holds a
\* slot, "synth" that of a session; a "leaked" one ended without release().
Holding == {"synth", "prime", "stream"}
PcValues == {"new", "queued", "leaked", "done"} \cup Holding

Init ==
    /\ value = MaxConcurrent
    /\ waiters = <<>>
    /\ granted = {}
    /\ waiting = 0
    /\ pc = [r \in Requests |-> "new"]
    /\ cancelReq = {}

-----------------------------------------------------------------------------
(* asyncio.Semaphore.                                                       *)

InLine == ToSet(waiters)

\* locked(): no slot, or somebody in line whose future is not cancelled.
Locked == value = 0 \/ \E r \in InLine : r \in granted \/ r \notin cancelReq

\* A future that is neither granted nor cancelled.
Pending(r, g) == r \notin g /\ r \notin cancelReq

\* Mutant of Wake: any pending waiter may be granted.
WakeAny(v, g, line) ==
    \/ /\ \A i \in DOMAIN line : ~Pending(line[i], g)
       /\ value' = v
       /\ granted' = g
    \/ \E i \in DOMAIN line :
        /\ Pending(line[i], g)
        /\ value' = v - 1
        /\ granted' = g \cup {line[i]}

\* Mutant of Wake: nobody is woken.
WakeNone(v, g, line) == value' = v /\ granted' = g

\* _wake_up_next() with _value v, granted futures g and the given line.
Wake(v, g, line) ==
    \/ /\ \A i \in DOMAIN line : ~Pending(line[i], g)
       /\ value' = v
       /\ granted' = g
    \/ \E i \in DOMAIN line :
        /\ Pending(line[i], g)
        /\ \A j \in 1..(i - 1) : ~Pending(line[j], g)
        /\ value' = v - 1
        /\ granted' = g \cup {line[i]}

\* Mutant of Leave: acquire() forgets its future in the line.
StayInLine(r) == waiters

\* The line after acquire()'s finally removed the future of r.
Leave(r) == RemoveAt(waiters, CHOOSE i \in DOMAIN waiters : waiters[i] = r)

\* Mutant of Decrement: nothing is subtracted.
KeepCount(n) == n

\* max(0, _waiting - 1)
Decrement(n) == IF n = 0 THEN 0 ELSE n - 1

-----------------------------------------------------------------------------
(* The callers.                                                             *)

FirstPhase(r) == IF r \in Sessions THEN "synth" ELSE "prime"

\* reserve() and the part of wait() before it suspends: with a free slot the
\* counter goes up and down again, else the request joins the line.
Ask(r) ==
    /\ pc[r] = "new"
    /\ \/ /\ ~Locked
          /\ value' = value - 1
          /\ pc' = [pc EXCEPT ![r] = FirstPhase(r)]
          /\ UNCHANGED <<waiters, waiting>>
       \/ /\ Locked
          /\ waiters' = Append(waiters, r)
          /\ waiting' = waiting + 1
          /\ pc' = [pc EXCEPT ![r] = "queued"]
          /\ UNCHANGED value
    /\ UNCHANGED <<granted, cancelReq>>

\* acquire() returns to a waiter that was granted a slot.
Resume(r) ==
    /\ pc[r] = "queued"
    /\ r \in granted
    /\ r \notin cancelReq
    /\ waiters' = Leave(r)
    /\ \/ value > 0 /\ Wake(value, granted \ {r}, Leave(r))
       \/ value = 0 /\ value' = value /\ granted' = granted \ {r}
    /\ waiting' = Decrement(waiting)
    /\ pc' = [pc EXCEPT ![r] = FirstPhase(r)]
    /\ UNCHANGED cancelReq

\* task.cancel() on a task that waits or holds; a session that has not
\* started run_tts yet never asks.
Cancel(r) ==
    /\ r \in Sessions \/ HttpCancellable
    /\ r \notin cancelReq
    /\ pc[r] \in {"new", "queued"} \cup Holding
    /\ cancelReq' = cancelReq \cup {r}
    /\ pc' = IF pc[r] = "new" THEN [pc EXCEPT ![r] = "done"] ELSE pc
    /\ UNCHANGED <<value, waiters, granted, waiting>>

\* Mutant of CountAfterCancel: the session cancels its reservation as well.
AlwaysTwice(r) == Decrement(Decrement(waiting))

\* wait()'s finally decrements; the HTTP handler then calls
\* cancel_reservation(), which decrements again.
CountAfterCancel(r) ==
    IF r \in Sessions THEN Decrement(waiting) ELSE Decrement(Decrement(waiting))

\* Mutants of ReturnsSlot: run_tts releases although wait() did not return;
\* acquire() drops the slot it was granted.
AlwaysReturnsSlot(r) == TRUE
NeverReturnsSlot(r) == FALSE

\* A waiter cancelled in acquire() gives back a slot only if one was granted to
\* it already: acquire() does, and acquired is FALSE in run_tts.
ReturnsSlot(r) == r \in granted

\* CancelledError in acquire(): a slot already granted is handed on.
CancelledInLine(r) ==
    /\ pc[r] = "queued"
    /\ r \in cancelReq
    /\ waiters' = Leave(r)
    /\ \/ ReturnsSlot(r) /\ Wake(value + 1, granted \ {r}, Leave(r))
       \/ ~ReturnsSlot(r) /\ value' = value /\ granted' = granted \ {r}
    /\ waiting' = CountAfterCancel(r)
    /\ pc' = [pc EXCEPT ![r] = "done"]
    /\ UNCHANGED cancelReq

\* Mutant of Release: the finally forgets the slot.
KeepSlot(r) ==
    /\ pc[r] \in Holding
    /\ pc[r] = "prime" => r \notin cancelReq
    /\ pc' = [pc EXCEPT ![r] = "done"]
    /\ UNCHANGED <<value, granted, waiters, waiting, cancelReq>>

\* release() in the finally of run_tts or of the HTTP stream, or on an
\* engine error or an empty result while priming.
Release(r) ==
    /\ pc[r] \in Holding
    /\ pc[r] = "prime" => r \notin cancelReq
    /\ Wake(value + 1, granted, waiters)
    /\ pc' = [pc EXCEPT ![r] = "done"]
    /\ UNCHANGED <<waiters, waiting, cancelReq>>

\* The first chunk arrived: the response starts.
StartStream(r) ==
    /\ pc[r] = "prime"
    /\ r \notin cancelReq
    /\ pc' = [pc EXCEPT ![r] = "stream"]
    /\ UNCHANGED <<value, waiters, granted, waiting, cancelReq>>

\* CancelledError while priming is not an Exception: nothing releases.
CancelledPriming(r) ==
    /\ pc[r] = "prime"
    /\ r \in cancelReq
    /\ pc' = [pc EXCEPT ![r] = "leaked"]
    /\ UNCHANGED <<value, waiters, granted, waiting, cancelReq>>

Step(r) ==
    \/ Ask(r) \/ Resume(r) \/ CancelledInLine(r)
    \/ Release(r) \/ StartStream(r) \/ CancelledPriming(r)

Finished ==
    /\ \A r \in Requests : pc[r] \in {"leaked", "done"}
    /\ UNCHANGED vars

Next == (\E r \in Requests : Step(r) \/ Cancel(r)) \/ Finished

Spec == Init /\ [][Next]_vars

\* Every task runs, and every synthesis ends: a session's because it is closed
\* after max_session_s at the latest, an HTTP call's because its backend does.
Fairness ==
    \A r \in Requests :
        /\ WF_vars(Resume(r) \/ CancelledInLine(r))
        /\ WF_vars(Release(r) \/ CancelledPriming(r))

FairSpec == Spec /\ Fairness

-----------------------------------------------------------------------------
(* Properties.                                                              *)

Users == {r \in Requests : pc[r] \in Holding}
Queued == {r \in Requests : pc[r] = "queued"}
Leaked == {r \in Requests : pc[r] = "leaked"}
Over == {r \in Requests : pc[r] = "done"}

\* Types; the line holds each queued request once, and only those are granted.
TypeOK ==
    /\ value \in 0..MaxConcurrent
    /\ waiters \in Seq(Requests)
    /\ granted \subseteq Queued
    /\ waiting \in Nat
    /\ pc \in [Requests -> PcValues]
    /\ cancelReq \subseteq Requests

\* The line is exactly the queued requests, each once: acquire()'s finally
\* removes a future on every exit (a duplicate would be granted twice).
LineIsQueue ==
    /\ InLine = Queued
    /\ \A i, j \in DOMAIN waiters : waiters[i] = waiters[j] => i = j

\* Slots are conserved: each is free, granted to a waiter that has not run
\* yet, held, or lost by a request that ended without release().
SlotsConserved ==
    value + Cardinality(granted) + Cardinality(Users) + Cardinality(Leaked)
        = MaxConcurrent

\* The inductive invariant from which the others follow.
Inv == TypeOK /\ LineIsQueue /\ SlotsConserved

\* At most max_concurrent requests hold a slot (scheduler.py:45-75), also while
\* grants, cancellations and releases overlap.
BoundedConcurrency == Cardinality(Users) <= MaxConcurrent

\* A slot is free while a live request is in line only as long as a hand-over
\* to an earlier one is under way, which will wake the next (scheduler.py:65-75):
\* no cancellation loses a wake-up.
NoIdleSlot ==
    value > 0 /\ granted = {} => \A r \in InLine : r \in cancelReq

\* First come first served: a granted request has no live ungranted request
\* before it in the line.
GrantsInOrder ==
    \A i, j \in DOMAIN waiters :
        i < j /\ waiters[j] \in granted => waiters[i] \in granted \cup cancelReq

\* The counter behind tts.queued's position never exceeds the number of
\* requests in line, so a position is never reported too high.
NeverOvercounts == waiting <= Cardinality(Queued)

\* As long as no HTTP handler has been cancelled the counter is the number of
\* requests in line: no path, the cancellation of sessions included, decrements
\* twice (scheduler.py:7-19, 37).
CountsQueued == cancelReq \cap HttpCalls = {} => waiting = Cardinality(Queued)

\* A request in line is served or leaves, whoever else is cancelled, unless a
\* slot was leaked.
LineMoves ==
    \A r \in Requests :
        pc[r] = "queued" ~> (pc[r] # "queued" \/ Leaked # {})

\* A request uses a slot of the pool from Ask or Resume on; a leaked slot is
\* still in use.
Pool == INSTANCE SlotPool
    WITH using <- Users \cup Leaked,
         over <- Over

\* The scheduler implements SlotPool: at most MaxConcurrent users at a time, and
\* none that returned its slot or left the line ever gets one.
PoolSpec == Pool!PoolSpec

=============================================================================
