------------------------------- MODULE Session -------------------------------
(***************************************************************************)
(* One authenticated WebSocket session of the gateway: the endpoint that   *)
(* reads client frames (app.py), the tasks of loops.py (sender, heartbeat, *)
(* idle watchdog, run_tts, supervisor) and TTSSession.close (session.py),  *)
(* which any of five callers may run.  All of them are tasks of one        *)
(* asyncio event loop, so an action is what a task does between two        *)
(* suspension points.                                                      *)
(*                                                                         *)
(* Abstracted: frame contents (a frame is its kind), time (a timeout may   *)
(* fire whenever its condition can hold), the engine (reads text, yields   *)
(* chunks, ends or fails as the contract of engine.py:9-21 allows) and the *)
(* scheduler, which is modelled in Scheduler.tla.                          *)
(***************************************************************************)
EXTENDS Integers, Sequences

CONSTANTS
    OutCap,      \* maxsize of out_queue (128 in the code)
    TextCap,     \* maxsize of text_queue (32 in the code)
    MaxSplit,    \* bound: sentences one tts.text frame completes
    MaxAudio,    \* bound: audio chunks the engine yields
    MaxChatter,  \* bound: keepalives, tts.flushed and rejections enqueued
    Disturbances \* which of these may happen: "client_drops",
                 \* "server_shutdown", "handler_crash"

ASSUME SessionAssumption ==
    /\ OutCap \in Nat \ {0}
    /\ TextCap \in Nat \ {0}
    /\ MaxSplit \in Nat
    /\ MaxAudio \in Nat
    /\ MaxChatter \in Nat
    /\ Disturbances \subseteq {"client_drops", "server_shutdown",
                              "handler_crash"}

Closing == {"CLOSING", "CLOSED"}
States == {"AUTHENTICATED", "STARTED", "ENDING"} \cup Closing

Terminals == {"done", "cancelled", "error"}

\* What producers put in out_queue: audio, a tts.error that a handler enqueues
\* without closing the session ("rejected", unlike the terminal frame "error"),
\* and any other JSON frame ("event").
Frames == {"event", "rejected", "audio"}
Items == Frames \cup {"SENTINEL"}

\* Tasks that close() cancels and awaits, and tasks that may run close().
Producers == {"tts", "heartbeat", "watchdog", "supervisor"}
Closers == {"endpoint", "supervisor", "client_slow", "sender_failed",
            "server_shutdown"}
Tasks == Producers \cup Closers \cup {"sender"}

InClose == {"abort", "reap", "sentinel", "drain", "cut", "ws"}
PcValues == {"off", "done", "recv", "exit", "sleep", "get", "send", "term",
             "cterm", "new", "slot", "synth", "wait", "lock"} \cup InClose

VARIABLES
    state,           \* session.state
    started,         \* engine_request_id is set
    terminal,        \* terminal_kind, "none" before it is set
    outQueue,        \* out_queue
    textQueue,       \* text_queue, "end" stands for None
    pc,              \* where each task is suspended
    cancelReq,       \* tasks whose cancel() was called
    closeLock,       \* the task holding close_lock, or "none"
    endpointDrain,   \* the drain argument of the endpoint's close()
    senderFailed,    \* sender_failed
    sentTerminal,    \* sent_terminal of sender_loop
    hand,            \* the frame whose websocket.send_* is pending
    sock,            \* the connection as the server sees it
    wire,            \* history: frames handed to the client, oldest first
    textEnded,       \* the engine has read the end of the text
    complete,        \* history: the stream ended by itself after all text
    generated,       \* history: chunks yielded by the engine
    chatter          \* history: optional frames enqueued

clientVars == <<sock, wire>>
engineVars == <<textEnded, complete, generated>>
senderVars == <<senderFailed, sentTerminal, hand>>
lockVars == <<cancelReq, closeLock>>
vars == <<state, started, terminal, outQueue, textQueue, pc, lockVars,
          endpointDrain, senderVars, clientVars, engineVars, chatter>>

\* app.py:361-396, the session once the endpoint awaits its first frame.
Init ==
    /\ state = "AUTHENTICATED"
    /\ started = FALSE
    /\ terminal = "none"
    /\ outQueue = <<"event">>
    /\ textQueue = <<>>
    /\ pc = [t \in Tasks |->
                CASE t = "endpoint" -> "recv"
                  [] t = "sender" -> "get"
                  [] t \in {"heartbeat", "watchdog"} -> "sleep"
                  [] OTHER -> "off"]
    /\ cancelReq = {}
    /\ closeLock = "none"
    /\ endpointDrain = FALSE
    /\ senderFailed = FALSE
    /\ sentTerminal = FALSE
    /\ hand = "none"
    /\ sock = "open"
    /\ wire = <<>>
    /\ textEnded = FALSE
    /\ complete = FALSE
    /\ generated = 0
    /\ chatter = 0

-----------------------------------------------------------------------------
(* Helpers shared by the handlers.                                          *)

Alive(t) == pc[t] \notin {"off", "done"}

\* A task takes its next step normally unless a cancel() is pending on it.
Runs(t, at) == pc[t] = at /\ t \notin cancelReq

\* Mutant of FirstTerminal: the last writer wins.
LatestTerminal(kind) == kind

\* set_terminal_frame_once: the value of terminal afterwards.
FirstTerminal(kind) == IF terminal = "none" THEN kind ELSE terminal

\* Mutant of FitsOut: one frame too many.
FitsOutLoosely(n) == Len(outQueue) + n <= OutCap + 1

FitsOut(n) == Len(outQueue) + n <= OutCap

\* Mutant of SpawnSlowClose: CLOSING is set and nobody closes.
SpawnNothing(tasks) == tasks

SpawnSlowClose(tasks) == [tasks EXCEPT !["client_slow"] = "lock"]

\* Successive _put_outbound_nowait calls by a handler that set the state to
\* st and the tasks to tasks.  The first frame that does not fit makes the
\* terminal frame CLIENT_SLOW, the state CLOSING, and spawns a close().
Put(items, st, tasks) ==
    \/ /\ st \in Closing
       /\ state' = st
       /\ pc' = tasks
       /\ UNCHANGED <<outQueue, terminal>>
    \/ /\ st \notin Closing
       /\ FitsOut(Len(items))
       /\ state' = st
       /\ outQueue' = outQueue \o items
       /\ pc' = tasks
       /\ UNCHANGED terminal
    \/ /\ st \notin Closing
       /\ ~FitsOut(Len(items))
       /\ state' = "CLOSING"
       /\ outQueue' = IF Len(items) = 2 /\ FitsOut(1)
                      THEN Append(outQueue, Head(items))
                      ELSE outQueue
       /\ terminal' = FirstTerminal("error")
       /\ pc' = SpawnSlowClose(tasks)

-----------------------------------------------------------------------------
(* TTSSession.close (session.py:180-252).                                   *)

\* Mutants of Siblings: the caller awaits itself; run_tts is forgotten.
SiblingsAndSelf(c) == Producers
SiblingsButTts(c) == Producers \ {c, "tts"}

\* The producers close() stops: the one running it is skipped.
Siblings(c) == Producers \ {c}

\* Mutant of SiblingsStopped: the producers are cancelled and not awaited.
NotAwaited(c) == TRUE

SiblingsStopped(c) == \A t \in Siblings(c) : ~Alive(t)

CancelProducers(c) ==
    /\ pc' = [pc EXCEPT ![c] = "reap"]
    /\ cancelReq' = cancelReq \cup {t \in Siblings(c) : Alive(t)}

\* Mutant of AlreadyClosed: close() is not idempotent.
NeverClosed == FALSE

AlreadyClosed == state = "CLOSED"

\* The body of close() up to its first suspension, close_lock being free.
EnterClose(c) ==
    \/ /\ AlreadyClosed
       /\ pc' = [pc EXCEPT ![c] = "done"]
       /\ UNCHANGED <<state, lockVars>>
    \/ /\ ~AlreadyClosed
       /\ state' = "CLOSING"
       /\ closeLock' = c
       /\ \/ /\ started
             /\ pc' = [pc EXCEPT ![c] = "abort"]
             /\ UNCHANGED cancelReq
          \/ /\ ~started
             /\ CancelProducers(c)

CallClose(c) ==
    \/ /\ closeLock = "none"
       /\ EnterClose(c)
    \/ /\ closeLock # "none"
       /\ pc' = [pc EXCEPT ![c] = "lock"]
       /\ UNCHANGED <<state, lockVars>>

\* The drain argument of each caller.
Drains(c) ==
    \/ c \in {"supervisor", "server_shutdown"}
    \/ c = "endpoint" /\ endpointDrain

AcquireLock(c) ==
    /\ Runs(c, "lock")
    /\ closeLock = "none"
    /\ EnterClose(c)
    /\ UNCHANGED <<started, terminal, outQueue, textQueue, endpointDrain,
                   senderVars, clientVars, engineVars, chatter>>

AbortReturns(c) ==
    /\ pc[c] = "abort"
    /\ CancelProducers(c)
    /\ UNCHANGED <<state, started, terminal, outQueue, textQueue, closeLock,
                   endpointDrain, senderVars, clientVars, engineVars, chatter>>

\* Once the producers are done: put SENTINEL (drain), cancel the sender (no
\* drain), or finish when the sender is gone.
StopSender(c) ==
    /\ pc[c] = "reap"
    /\ SiblingsStopped(c)
    /\ \/ /\ ~Alive("sender")
          /\ state' = "CLOSED"
          /\ pc' = [pc EXCEPT ![c] = "ws"]
          /\ UNCHANGED cancelReq
       \/ /\ Alive("sender")
          /\ Drains(c) /\ ~senderFailed
          /\ pc' = [pc EXCEPT ![c] = "sentinel"]
          /\ UNCHANGED <<state, cancelReq>>
       \/ /\ Alive("sender")
          /\ ~(Drains(c) /\ ~senderFailed)
          /\ pc' = [pc EXCEPT ![c] = "cut"]
          /\ cancelReq' = cancelReq \cup {"sender"}
          /\ UNCHANGED state
    /\ UNCHANGED <<started, terminal, outQueue, textQueue, closeLock,
                   endpointDrain, senderVars, clientVars, engineVars, chatter>>

PutSentinel(c) ==
    /\ pc[c] = "sentinel"
    /\ Len(outQueue) < OutCap
    /\ outQueue' = Append(outQueue, "SENTINEL")
    /\ pc' = [pc EXCEPT ![c] = "drain"]
    /\ UNCHANGED <<state, started, terminal, textQueue, lockVars,
                   endpointDrain, senderVars, clientVars, engineVars, chatter>>

\* No room for SENTINEL within 0.2s, or the drain took longer than allowed.
CutSender(c) ==
    /\ \/ pc[c] = "sentinel" /\ Len(outQueue) = OutCap
       \/ pc[c] = "drain" /\ Alive("sender")
    /\ pc' = [pc EXCEPT ![c] = "cut"]
    /\ cancelReq' = cancelReq \cup {"sender"}
    /\ UNCHANGED <<state, started, terminal, outQueue, textQueue, closeLock,
                   endpointDrain, senderVars, clientVars, engineVars, chatter>>

SenderStopped(c) ==
    /\ pc[c] \in {"drain", "cut"}
    /\ ~Alive("sender")
    /\ state' = "CLOSED"
    /\ pc' = [pc EXCEPT ![c] = "ws"]
    /\ UNCHANGED <<started, terminal, outQueue, textQueue, lockVars,
                   endpointDrain, senderVars, clientVars, engineVars, chatter>>

CloseSocket(c) ==
    /\ pc[c] = "ws"
    /\ sock' = IF sock = "open" THEN "closed" ELSE sock
    /\ closeLock' = "none"
    /\ pc' = [pc EXCEPT ![c] = "done"]
    /\ UNCHANGED <<state, started, terminal, outQueue, textQueue, cancelReq,
                   endpointDrain, senderVars, wire, engineVars, chatter>>

Close(c) ==
    \/ AcquireLock(c)
    \/ AbortReturns(c)
    \/ StopSender(c)
    \/ PutSentinel(c)
    \/ CutSender(c)
    \/ SenderStopped(c)
    \/ CloseSocket(c)

-----------------------------------------------------------------------------
(* Client frames: one iteration of _receive_loop (app.py:736-1052).         *)

Receiving == pc["endpoint"] = "recv"

\* tts.start in AUTHENTICATED with a request_id.
ReceiveStart ==
    /\ Receiving
    /\ state = "AUTHENTICATED"
    /\ started' = TRUE
    /\ Put(<<"event">>, "STARTED",
           [pc EXCEPT !["tts"] = "new", !["supervisor"] = "wait"])
    /\ UNCHANGED <<textQueue, lockVars, endpointDrain, senderVars, clientVars,
                   engineVars, chatter>>

\* A frame refused with a non-terminal tts.error.  A refused text, flush or
\* end makes the loop return if that put overflowed out_queue; a start, a
\* binary frame or an unparsable or unknown one does not.
ReceiveRejected ==
    /\ Receiving
    /\ state \notin Closing
    /\ chatter < MaxChatter
    /\ chatter' = chatter + 1
    /\ \E after \in {"recv", "exit"} :
        /\ after = "exit" => ~FitsOut(1)
        /\ Put(<<"rejected">>, state, [pc EXCEPT !["endpoint"] = after])
    /\ UNCHANGED <<started, textQueue, lockVars, endpointDrain, senderVars,
                   clientVars, engineVars>>

\* A text, flush or end read while the session is being closed.
ReceiveWhileClosing ==
    /\ Receiving
    /\ state \in Closing
    /\ endpointDrain' = FALSE
    /\ CallClose("endpoint")
    /\ UNCHANGED <<started, terminal, outQueue, textQueue, senderVars,
                   clientVars, engineVars, chatter>>

Sentences(n) == [i \in 1..n |-> "text"]

TextFits(items) == Len(textQueue) + Len(items) <= TextCap

\* A sentence, or the end of the text, that does not fit in text_queue closes
\* the session with BACKPRESSURE; the sentences before it stay queued.
Backpressure(items) ==
    /\ ~TextFits(items)
    /\ textQueue' = textQueue \o SubSeq(items, 1, TextCap - Len(textQueue))
    /\ terminal' = FirstTerminal("error")
    /\ endpointDrain' = TRUE
    /\ CallClose("endpoint")

ReceiveText ==
    /\ Receiving
    /\ state = "STARTED"
    /\ \E n \in 1..MaxSplit :
        \/ Backpressure(Sentences(n))
        \/ /\ TextFits(Sentences(n))
           /\ textQueue' = textQueue \o Sentences(n)
           /\ UNCHANGED <<state, terminal, pc, lockVars, endpointDrain>>
    /\ UNCHANGED <<started, outQueue, senderVars, clientVars, engineVars,
                   chatter>>

\* tts.flush: the rest of the sentence buffer, if any, then tts.flushed.  When
\* that overflows out_queue the loop returns.
ReceiveFlush ==
    /\ Receiving
    /\ state = "STARTED"
    /\ chatter < MaxChatter
    /\ chatter' = chatter + 1
    /\ \E n \in 0..1 :
        \/ Backpressure(Sentences(n)) /\ UNCHANGED outQueue
        \/ /\ TextFits(Sentences(n))
           /\ textQueue' = textQueue \o Sentences(n)
           /\ Put(<<"event">>, state,
                  IF FitsOut(1) THEN pc ELSE [pc EXCEPT !["endpoint"] = "exit"])
           /\ UNCHANGED <<lockVars, endpointDrain>>
    /\ UNCHANGED <<started, senderVars, clientVars, engineVars>>

\* tts.end: ENDING, the rest of the sentence buffer, then the end marker.
ReceiveEnd ==
    /\ Receiving
    /\ state = "STARTED"
    /\ \E n \in 0..1 :
        LET items == Append(Sentences(n), "end") IN
        \/ Backpressure(items)
        \/ /\ TextFits(items)
           /\ textQueue' = textQueue \o items
           /\ state' = "ENDING"
           /\ UNCHANGED <<terminal, pc, lockVars, endpointDrain>>
    /\ UNCHANGED <<started, outQueue, senderVars, clientVars, engineVars,
                   chatter>>

\* Mutant of ReceiveCancel: close() without the tts.cancelled frame.
CancelUnannounced ==
    /\ Receiving
    /\ endpointDrain' = FALSE
    /\ CallClose("endpoint")
    /\ UNCHANGED <<started, terminal, outQueue, textQueue, senderVars,
                   clientVars, engineVars, chatter>>

\* tts.cancel, in any state: cancel_and_close.
ReceiveCancel ==
    /\ Receiving
    /\ terminal' = FirstTerminal("cancelled")
    /\ endpointDrain' = FALSE
    /\ CallClose("endpoint")
    /\ UNCHANGED <<started, outQueue, textQueue, senderVars, clientVars,
                   engineVars, chatter>>

\* An exception no handler expects (json.loads raises more than
\* JSONDecodeError): fail_and_close with SERVER_ERROR.
ReceiveCrashes ==
    /\ "handler_crash" \in Disturbances
    /\ Receiving
    /\ terminal' = FirstTerminal("error")
    /\ endpointDrain' = TRUE
    /\ CallClose("endpoint")
    /\ UNCHANGED <<started, outQueue, textQueue, senderVars, clientVars,
                   engineVars, chatter>>

\* The client is gone, or the loop returned: close(drain=False).
EndpointLeaves ==
    /\ \/ Receiving /\ sock # "open"
       \/ pc["endpoint"] = "exit"
    /\ endpointDrain' = FALSE
    /\ CallClose("endpoint")
    /\ UNCHANGED <<started, terminal, outQueue, textQueue, senderVars,
                   clientVars, engineVars, chatter>>

Receive ==
    \/ ReceiveStart
    \/ ReceiveRejected
    \/ ReceiveWhileClosing
    \/ ReceiveText
    \/ ReceiveFlush
    \/ ReceiveEnd
    \/ ReceiveCancel
    \/ ReceiveCrashes

-----------------------------------------------------------------------------
(* run_tts (loops.py:232-318) and the engine it drives.                     *)

\* reserve() never suspends: tts.queued and, when a slot is free,
\* tts.processing are put in one step.
TtsBegins ==
    /\ Runs("tts", "new")
    /\ \/ Put(<<"event", "event">>, state, [pc EXCEPT !["tts"] = "synth"])
       \/ Put(<<"event">>, state, [pc EXCEPT !["tts"] = "slot"])
    /\ UNCHANGED <<started, textQueue, lockVars, endpointDrain, senderVars,
                   clientVars, engineVars, chatter>>

TtsGranted ==
    /\ Runs("tts", "slot")
    /\ Put(<<"event">>, state, [pc EXCEPT !["tts"] = "synth"])
    /\ UNCHANGED <<started, textQueue, lockVars, endpointDrain, senderVars,
                   clientVars, engineVars, chatter>>

\* text_iterator: the engine pulls the next sentence, or the end.
EngineReads ==
    /\ Runs("tts", "synth")
    /\ ~textEnded
    /\ textQueue # <<>>
    /\ textQueue' = Tail(textQueue)
    /\ textEnded' = (Head(textQueue) = "end")
    /\ UNCHANGED <<state, started, terminal, outQueue, pc, lockVars,
                   endpointDrain, senderVars, clientVars, complete, generated,
                   chatter>>

\* A chunk; when it is refused run_tts leaves the loop and goes on to
\* set the "done" frame, which counts only if no other terminal is set.
EngineYields ==
    /\ Runs("tts", "synth")
    /\ generated < MaxAudio
    /\ generated' = generated + 1
    /\ \/ /\ state \notin Closing
          /\ Put(<<"audio">>, state,
                 IF FitsOut(1) THEN pc ELSE [pc EXCEPT !["tts"] = "done"])
       \/ /\ state \in Closing
          /\ terminal' = FirstTerminal("done")
          /\ pc' = [pc EXCEPT !["tts"] = "done"]
          /\ UNCHANGED <<state, outQueue>>
    /\ UNCHANGED <<started, textQueue, lockVars, endpointDrain, senderVars,
                   clientVars, textEnded, complete, chatter>>

\* abort() has at least been called.
Aborted == started /\ closeLock # "none"

\* The stream ends: by itself after the end of the text, or cut by abort().
EngineEnds ==
    /\ Runs("tts", "synth")
    /\ \/ textEnded /\ complete' = TRUE
       \/ Aborted /\ UNCHANGED complete
    /\ terminal' = FirstTerminal("done")
    /\ pc' = [pc EXCEPT !["tts"] = "done"]
    /\ UNCHANGED <<state, started, outQueue, textQueue, lockVars,
                   endpointDrain, senderVars, clientVars, textEnded, generated,
                   chatter>>

EngineFails ==
    /\ Runs("tts", "synth")
    /\ terminal' = FirstTerminal("error")
    /\ pc' = [pc EXCEPT !["tts"] = "done"]
    /\ UNCHANGED <<state, started, outQueue, textQueue, lockVars,
                   endpointDrain, senderVars, clientVars, engineVars, chatter>>

Engine == EngineReads \/ EngineYields \/ EngineEnds \/ EngineFails

-----------------------------------------------------------------------------
(* heartbeat_loop, idle_watchdog_loop, supervisor_loop, and the delivery of *)
(* CancelledError to any of the producers.                                  *)

HeartbeatBeats ==
    /\ Runs("heartbeat", "sleep")
    /\ state \notin Closing
    /\ chatter < MaxChatter
    /\ chatter' = chatter + 1
    /\ Put(<<"event">>, state,
           IF FitsOut(1) THEN pc ELSE [pc EXCEPT !["heartbeat"] = "done"])
    /\ UNCHANGED <<started, textQueue, lockVars, endpointDrain, senderVars,
                   clientVars, engineVars>>

\* START_TIMEOUT, IDLE_TIMEOUT or SESSION_TIMEOUT; nothing is closed here.
WatchdogFires ==
    /\ Runs("watchdog", "sleep")
    /\ state \notin Closing
    /\ terminal' = FirstTerminal("error")
    /\ pc' = [pc EXCEPT !["watchdog"] = "done"]
    /\ UNCHANGED <<state, started, outQueue, textQueue, lockVars,
                   endpointDrain, senderVars, clientVars, engineVars, chatter>>

\* Both loops return when they wake in a closing session.
LoopReturns(t) ==
    /\ t \in {"heartbeat", "watchdog"}
    /\ Runs(t, "sleep")
    /\ state \in Closing
    /\ pc' = [pc EXCEPT ![t] = "done"]
    /\ UNCHANGED <<state, started, terminal, outQueue, textQueue, lockVars,
                   endpointDrain, senderVars, clientVars, engineVars, chatter>>

\* Mutant of WatchedStopped: timeouts are not watched.
TtsStopped == ~Alive("tts")

WatchedStopped == ~Alive("tts") \/ ~Alive("watchdog")

SupervisorWakes ==
    /\ Runs("supervisor", "wait")
    /\ WatchedStopped
    /\ \/ /\ state \in Closing
          /\ pc' = [pc EXCEPT !["supervisor"] = "done"]
          /\ UNCHANGED <<state, lockVars>>
       \/ /\ state \notin Closing
          /\ CallClose("supervisor")
    /\ UNCHANGED <<started, terminal, outQueue, textQueue, endpointDrain,
                   senderVars, clientVars, engineVars, chatter>>

\* run_tts returns its slot in its finally clause; the supervisor may be
\* cancelled while it waits for close_lock.
ProducerCancelled(t) ==
    /\ t \in Producers \cap cancelReq
    /\ Alive(t)
    /\ pc' = [pc EXCEPT ![t] = "done"]
    /\ UNCHANGED <<state, started, terminal, outQueue, textQueue, lockVars,
                   endpointDrain, senderVars, clientVars, engineVars, chatter>>

-----------------------------------------------------------------------------
(* sender_loop (loops.py:42-105).                                           *)

\* Mutant of OwesTerminal: sent_terminal is not consulted.
HasTerminal == terminal # "none"

OwesTerminal == terminal # "none" /\ ~sentTerminal

\* get() returned SENTINEL: send the terminal frame, if there is one.
SenderStops ==
    /\ Runs("sender", "get")
    /\ outQueue # <<>>
    /\ Head(outQueue) = "SENTINEL"
    /\ outQueue' = Tail(outQueue)
    /\ pc' = [pc EXCEPT !["sender"] = IF OwesTerminal THEN "term" ELSE "done"]
    /\ sentTerminal' = (sentTerminal \/ OwesTerminal)
    /\ UNCHANGED <<state, started, terminal, textQueue, lockVars,
                   endpointDrain, senderFailed, hand, clientVars, engineVars,
                   chatter>>

\* Audio that comes out of the queue of a closing session is dropped.
SenderDrops ==
    /\ Runs("sender", "get")
    /\ outQueue # <<>>
    /\ Head(outQueue) = "audio"
    /\ state \in Closing
    /\ outQueue' = Tail(outQueue)
    /\ UNCHANGED <<state, started, terminal, textQueue, pc, lockVars,
                   endpointDrain, senderVars, clientVars, engineVars, chatter>>

SenderTakes ==
    /\ Runs("sender", "get")
    /\ outQueue # <<>>
    /\ Head(outQueue) # "SENTINEL"
    /\ Head(outQueue) = "audio" => state \notin Closing
    /\ outQueue' = Tail(outQueue)
    /\ hand' = Head(outQueue)
    /\ pc' = [pc EXCEPT !["sender"] = "send"]
    /\ UNCHANGED <<state, started, terminal, textQueue, lockVars,
                   endpointDrain, senderFailed, sentTerminal, clientVars,
                   engineVars, chatter>>

\* websocket.send_* completes: the client is reading.
SenderSends ==
    /\ Runs("sender", "send")
    /\ sock = "open"
    /\ wire' = Append(wire, hand)
    /\ hand' = "none"
    /\ pc' = [pc EXCEPT !["sender"] = "get"]
    /\ UNCHANGED <<state, started, terminal, outQueue, textQueue, lockVars,
                   endpointDrain, senderFailed, sentTerminal, sock, engineVars,
                   chatter>>

\* websocket.send_* raises: CLOSING, and a task that closes.
SenderFails ==
    /\ Runs("sender", "send")
    /\ sock # "open"
    /\ senderFailed' = TRUE
    /\ state' = "CLOSING"
    /\ hand' = "none"
    /\ pc' = [pc EXCEPT !["sender"] = "done", !["sender_failed"] = "lock"]
    /\ UNCHANGED <<started, terminal, outQueue, textQueue, lockVars,
                   endpointDrain, sentTerminal, clientVars, engineVars,
                   chatter>>

\* The frame under the cut send may or may not have reached the transport;
\* then the handler sends the terminal frame, unless that has been tried.
SenderCancelled ==
    /\ "sender" \in cancelReq
    /\ pc["sender"] \in {"get", "send", "term"}
    /\ \/ wire' = wire
       \/ /\ sock = "open"
          /\ pc["sender"] = "send"
          /\ wire' = Append(wire, hand)
       \/ /\ sock = "open"
          /\ pc["sender"] = "term"
          /\ wire' = Append(wire, terminal)
    /\ hand' = "none"
    /\ pc' = [pc EXCEPT !["sender"] = IF OwesTerminal THEN "cterm" ELSE "done"]
    /\ sentTerminal' = (sentTerminal \/ OwesTerminal)
    /\ UNCHANGED <<state, started, terminal, outQueue, textQueue, lockVars,
                   endpointDrain, senderFailed, sock, engineVars, chatter>>

AtTerminal == Runs("sender", "term") \/ pc["sender"] = "cterm"

SenderSendsTerminal ==
    /\ AtTerminal
    /\ sock = "open"
    /\ wire' = Append(wire, terminal)
    /\ pc' = [pc EXCEPT !["sender"] = "done"]
    /\ UNCHANGED <<state, started, terminal, outQueue, textQueue, lockVars,
                   endpointDrain, senderVars, sock, engineVars, chatter>>

\* An exception of the terminal send is suppressed.
SenderLosesTerminal ==
    /\ AtTerminal
    /\ sock # "open"
    /\ pc' = [pc EXCEPT !["sender"] = "done"]
    /\ UNCHANGED <<state, started, terminal, outQueue, textQueue, lockVars,
                   endpointDrain, senderVars, clientVars, engineVars, chatter>>

\* What the sender does without the client, and what needs it to read.
SenderLocal ==
    \/ SenderStops \/ SenderDrops \/ SenderTakes \/ SenderFails
    \/ SenderCancelled \/ SenderLosesTerminal

SenderWrites == SenderSends \/ SenderSendsTerminal

-----------------------------------------------------------------------------
(* The environment and the specification.                                   *)

\* lifespan shutdown (app.py:293-313), for a session still in ACTIVE_SESSIONS.
ServerShutsDown ==
    /\ "server_shutdown" \in Disturbances
    /\ pc["server_shutdown"] = "off"
    /\ state # "CLOSED"
    /\ terminal' = FirstTerminal("error")
    /\ pc' = [pc EXCEPT !["server_shutdown"] = "lock"]
    /\ UNCHANGED <<state, started, outQueue, textQueue, lockVars,
                   endpointDrain, senderVars, clientVars, engineVars, chatter>>

ClientDrops ==
    /\ "client_drops" \in Disturbances
    /\ sock = "open"
    /\ sock' = "lost"
    /\ UNCHANGED <<state, started, terminal, outQueue, textQueue, pc, lockVars,
                   endpointDrain, senderVars, wire, engineVars, chatter>>

\* All tasks are over: the only state in which nothing need happen.
Finished ==
    /\ \A t \in Tasks : ~Alive(t)
    /\ UNCHANGED vars

Next ==
    \/ Receive \/ EndpointLeaves
    \/ TtsBegins \/ TtsGranted \/ Engine
    \/ HeartbeatBeats \/ WatchdogFires \/ SupervisorWakes
    \/ \E t \in Producers : LoopReturns(t) \/ ProducerCancelled(t)
    \/ SenderLocal \/ SenderWrites
    \/ \E c \in Closers : Close(c)
    \/ ServerShutsDown \/ ClientDrops \/ Finished

Spec == Init /\ [][Next]_vars

\* The event loop runs every task that is ready and every timer fires.  No
\* fairness for the client, the engine, a free slot, or a heartbeat.
Fairness ==
    /\ WF_vars(EndpointLeaves)
    /\ WF_vars(TtsBegins)
    /\ WF_vars(WatchdogFires)
    /\ WF_vars(SupervisorWakes)
    /\ \A t \in Producers : WF_vars(LoopReturns(t) \/ ProducerCancelled(t))
    /\ WF_vars(SenderLocal)
    /\ \A c \in Closers : WF_vars(Close(c))

FairSpec == Spec /\ Fairness

\* A client that keeps reading as long as it is connected.
ClientReads == WF_vars(SenderWrites)

-----------------------------------------------------------------------------
(* Safety.                                                                  *)

\* Every variable has its type and neither queue exceeds its maxsize.
TypeOK ==
    /\ state \in States
    /\ started \in BOOLEAN
    /\ terminal \in Terminals \cup {"none"}
    /\ outQueue \in Seq(Items) /\ Len(outQueue) <= OutCap
    /\ textQueue \in Seq({"text", "end"}) /\ Len(textQueue) <= TextCap
    /\ pc \in [Tasks -> PcValues]
    /\ cancelReq \subseteq Tasks
    /\ closeLock \in Closers \cup {"none"}
    /\ endpointDrain \in BOOLEAN
    /\ senderFailed \in BOOLEAN
    /\ sentTerminal \in BOOLEAN
    /\ hand \in Frames \cup {"none"}
    /\ sock \in {"open", "lost", "closed"}
    /\ wire \in Seq(Frames \cup Terminals)
    /\ textEnded \in BOOLEAN
    /\ complete \in BOOLEAN
    /\ generated \in 0..MaxAudio
    /\ chatter \in 0..MaxChatter

\* A terminal frame is the last frame the client gets, and it gets one at
\* most: the SENTINEL path and the cancel handler of sender_loop, in whatever
\* order a slow drain and its timeout run them, never both send it
\* (loops.py:57-63, 69-71, 90-93).
TerminalFrameIsLast ==
    \A i \in 1..Len(wire) : wire[i] \in Terminals => i = Len(wire)

\* tts.done reaches the client only if the engine finished the whole text by
\* itself: a session that is cancelled, timed out, shut down or torn down for
\* a slow client never reports success, although run_tts sets "done" after
\* every loop exit, the break and an aborted stream included
\* (loops.py:280-299, session.py:165-174).
DoneMeansComplete ==
    \A i \in 1..Len(wire) : wire[i] = "done" => complete

\* A session leaves ACTIVE_SESSIONS with nothing running: no producer other
\* than a supervisor that is the closer itself, and no sender, outlives CLOSED
\* (session.py:209-249), whichever callers raced for close_lock.
QuietWhenClosed ==
    state = "CLOSED" =>
        /\ ~Alive("sender")
        /\ \A t \in Producers : Alive(t) => t = closeLock

\* The engine slot is free again before close() waits for the client: while
\* SENTINEL is put, the queue drained, the sender cut or the socket closed,
\* run_tts is over, so a client that does not read never holds a slot
\* (session.py:209-222 before 239-252).
SlotFreeBeforeSocket ==
    (\E c \in Closers : pc[c] \in {"sentinel", "drain", "cut", "ws"})
        => ~Alive("tts")

\* A session closed under a client that is still connected has had its
\* terminal frame attempted: no path to CLOSED is silent (callers set the
\* frame before close(), session.py:291-325; the sender owes it on both exits).
EveryCloseIsAnnounced ==
    state = "CLOSED" /\ sock # "lost" => sentTerminal

\* CLOSED is final: no later step of a task that was waiting for the lock, of
\* the sender's failure path or of a handler reopens the session, enqueues a
\* frame or writes to the socket.
ClosedIsFinal ==
    [][state = "CLOSED" => state' = "CLOSED" /\ UNCHANGED <<outQueue, wire>>]_vars

Phase ==
    CASE state = "CLOSED" -> "closed"
      [] state = "CLOSING" -> "closing"
      [] OTHER -> "open"

Service == INSTANCE SessionService WITH
    phase <- Phase, outcome <- terminal, finished <- complete, said <- wire,
    tried <- sentTerminal, conn <- sock

\* The session keeps the promises of SessionService, whichever tasks race: one
\* outcome, decided once, told last and once by whichever exit of sender_loop
\* comes first, and no close before it (session.py:165-252, loops.py:57-93).
KeepsPromises == Service!ServiceSpec

\* The inductive strengthening of QuietWhenClosed, SlotFreeBeforeSocket and
\* TerminalFrameIsLast.
SenderPcs == {"get", "send", "term", "cterm", "done"}

\* What the sender is about to write exists, and nothing follows a terminal.
SenderInv ==
    /\ pc["sender"] \in SenderPcs
    /\ pc["sender"] = "send" => hand \in Frames
    /\ pc["sender"] \in {"term", "cterm"} => terminal # "none" /\ sentTerminal
    /\ (\E i \in 1..Len(wire) : wire[i] \in Terminals) => ~Alive("sender")

\* One caller is past close_lock, in a session that is closing; it is not
\* cancelled; and the sender's own closer exists only once the sender is over.
LockInv ==
    /\ \A c \in Closers : pc[c] \in InClose <=> closeLock = c
    /\ closeLock # "none" => state \in Closing
    /\ closeLock = "supervisor" => "supervisor" \notin cancelReq
    /\ pc["sender_failed"] # "off" => ~Alive("sender")

\* What the caller has achieved at each stage of close().
ProgressInv ==
    \A c \in Closers :
        /\ pc[c] \in {"sentinel", "drain", "cut", "ws"} => SiblingsStopped(c)
        /\ pc[c] \in InClose => (pc[c] = "ws" <=> state = "CLOSED")

Inv == TypeOK /\ SenderInv /\ LockInv /\ ProgressInv
        /\ TerminalFrameIsLast /\ QuietWhenClosed

\* The inductive strengthening of EveryCloseIsAnnounced and DoneMeansComplete.
\* The client has, or will get, a terminal frame, or its connection is gone.
Announced == terminal # "none" \/ sock # "open"

HasSentinel == \E i \in 1..Len(outQueue) : outQueue[i] = "SENTINEL"

\* Whoever closes, or has the supervisor close, has announced it before.
CallersAnnounce ==
    /\ state \in Closing => Announced
    /\ \A c \in Closers : pc[c] \in {"lock", "exit"} => Announced
    /\ \A t \in {"tts", "watchdog"} : pc[t] = "done" => Announced
    /\ pc["watchdog"] # "off"
    /\ pc["supervisor"] # "off" => pc["tts"] # "off"

\* A task is cancelled, SENTINEL put and the socket closed by close() only,
\* and the sender that is over has tried to send the terminal frame.
SenderAnnounces ==
    /\ cancelReq # {} \/ HasSentinel => state \in Closing
    /\ sock = "closed" => state = "CLOSED"
    /\ pc["sender"] = "done" => sentTerminal \/ sock = "lost"

\* "done" before the end of the stream is set only for a client that is gone.
DoneIsEarned ==
    /\ terminal = "done" => complete \/ sock # "open"
    /\ DoneMeansComplete

AnnounceInv == CallersAnnounce /\ SenderAnnounces /\ DoneIsEarned

-----------------------------------------------------------------------------
(* Liveness.                                                                *)

\* A session in CLOSING reaches CLOSED if the client reads or is known to be
\* gone: whoever set CLOSING, a task that closes exists, and it never waits
\* for itself or for a task that waits for it.
ClosingCloses ==
    ClientReads => ((state = "CLOSING") ~> (state = "CLOSED"))

\* A started session ends even if the engine is silent, no slot is free and
\* the client says nothing: the watchdog fires and the supervisor closes.
StartedSessionEnds == ClientReads => (started ~> (state = "CLOSED"))

\* Once a session is closing, run_tts ends and its slot is returned, whether
\* or not the client reads, and whatever the engine does.
ClosingFreesSlot == (state = "CLOSING") ~> ~Alive("tts")

\* After CLOSED every task ends: the endpoint, and the callers that were
\* queued on close_lock.
ClosedLeavesNoTask == (state = "CLOSED") ~> (\A t \in Tasks : ~Alive(t))

=============================================================================
