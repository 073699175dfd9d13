# TLA+ verification of tts-gateway

This directory holds TLA+ models of the concurrent core of tts-gateway, the
TLC configurations that check them on small instances, and TLAPS proofs of
their main safety properties for every value of the parameters. Line numbers
refer to the files under `src/`.

1. [The system](#1-the-system): parts, state, interaction, hazards
2. [Modules](#2-modules): what models what
3. [Runs](#3-runs): what TLC checks, with which bounds
4. [Fairness](#4-fairness)
5. [Proofs](#5-proofs)
6. [Disagreements found](#6-disagreements-found)
7. [What is not modelled](#7-what-is-not-modelled)
8. [Plan](#8-plan)
9. [Running](#9-running)

## 1. The system

The gateway is one asyncio process. It speaks the WebSocket protocol `tts.v1`
(text in, audio out, cancel at any time) and an OpenAI-like HTTP endpoint, and
drives one TTS backend of limited concurrency.

| Part | Code | State | Operations |
| --- | --- | --- | --- |
| Session | `tts_gateway/session.py` | `state`, `terminal_frame`, `out_queue` (128), `text_queue` (32), `close_lock`, `sender_failed` | enqueue a frame, set the terminal frame once, `close()`, `fail_and_close`, `cancel_and_close` |
| Session tasks | `tts_gateway/loops.py` | their position, `sent_terminal` | `sender_loop`, `heartbeat_loop`, `idle_watchdog_loop`, `run_tts`, `supervisor_loop` |
| WS endpoint | `tts_gateway/app.py:229-419, 736-1052` | `ACTIVE_SESSIONS` | authenticate, receive and dispatch client frames, shut down |
| Scheduler | `tts_gateway/scheduler.py` | a semaphore and `_waiting` | `reserve`, `cancel_reservation`, `wait`, `release` |
| HTTP speech | `tts_gateway/app.py:472-645` | the slot, the engine generator, the generator behind the response | queue, prime the engine generator, answer (raw, SSE, whole body) |
| Voice list | `tts_gateway/app.py:664-684` | none | forward |
| Request ids | `tts_gateway/app.py:208-216` | a counter | `make` |
| Sentence buffer | `tts_gateway/sentence_buffer.py` | the text not yet cut | `push`, `flush`, `reset` |
| Engines | `tts_gateway/engine*.py` | request id to abort event, response, or backend | `stream_tts`, `abort`, `list_voices` |
| cosyvoice-svc | `cosyvoice_service/app.py` | the model; per request a worker thread and a bounded queue (64) | synthesize in the thread, send from the event loop |
| Around it | `scripts/`, `tools/`, Docker files, `tests/` | none shared with the gateway | clients, uploads, deployment, tests |

How they interact:

- The endpoint task reads client frames. Text goes to `text_queue`, from which
  the engine pulls it inside `run_tts`; audio and events go to `out_queue`,
  from which the sender alone writes to the socket. Every `put` is `nowait`, so
  a full queue is an event, not a wait: a full `out_queue` makes whoever
  enqueues the one that starts the close (`session.py:119-137`), a full
  `text_queue` closes the session with `BACKPRESSURE`.
- `run_tts` and the watchdog end by setting the terminal frame; the supervisor
  notices and calls `close()`. The endpoint (cancel, disconnect, backpressure,
  handler error), a failed sender, a slow client and the shutdown of the server
  call `close()` too. It runs under `close_lock`: abort the engine, cancel and
  await the producers, drain or cut the sender, set CLOSED, close the socket.
- The sender owes the client one terminal frame, sent when it takes SENTINEL
  (drain) or in its `CancelledError` handler (cut).
- Sessions and HTTP calls share the engine through the scheduler. A session
  that is closed while it waits is cancelled inside `Semaphore.acquire()`.
- An HTTP handler pulls one chunk before it decides on a status, then hands the
  engine generator to a response generator whose `finally` returns the slot. A
  response that streams is cancelled by Starlette when its client is gone; a
  generator cancelled between two pulls is closed later, by the event loop.
- `RoutingEngine` sends a call with instructions to cosyvoice-svc, where a
  thread makes chunks, a queue hands them to a task, and a connection to the
  gateway; each of these waits for the next one when it is full.

What is hard in it: five possible closers and four cancellable tasks in any
order; a terminal frame with five possible writers and two possible senders;
cancellation at each suspension point; queues that fill in the middle of a
handler; a client that vanishes, or stays and does not read; timeouts that race
with what they time; slots that must come back whatever happens. Every such
place is in `PROJECT.json` under `hazards`, with the properties that cover it.

What makes each part correct:

- *Session and tasks*: one terminal frame at most, as the last frame, and truly
  reporting what happened; CLOSED leaves nothing running and is final; every
  session that starts or closes reaches CLOSED; its slot returns first.
- *Scheduler*: slots are conserved and never exceeded, the line is first come
  first served and loses no wake-up, the position counter is right.
- *HTTP*: a slot comes back, and behind it the backend's work for a call whose
  client left; a 200 has audio; a stream of events tells how the synthesis ended.
- *Engines*: abort reaches the stream it names and no other.
- *Sentence buffer and text path*: what the engine is asked to speak is all the
  text or nothing; sentences end where they should, however the text was framed.
- *cosyvoice-svc*: no chunk is lost, doubled or reordered; a worker ends, or it is
  known what blocks it.

## 2. Modules

| Module | Content |
| --- | --- |
| `Session` | one authenticated WebSocket session: endpoint, five tasks, five closers, client, engine |
| `MCSession` | statements of the documentation that the session does not keep |
| `SessionService` | abstract specification: what a session promises its client |
| `SessionProofs` | type, terminal-frame and close() theorems; that close() is never stuck |
| `AnnounceProofs` | what the client is told; that a session implements `SessionService` |
| `SlotPool` | abstract specification: a bounded pool of slots |
| `Scheduler` | `EngineScheduler`, `asyncio.Semaphore` and both kinds of callers |
| `MCScheduler` | a statement of `scheduler.py` that a cancelled HTTP call breaks |
| `SchedulerProofs` | invariants of the scheduler, and that it implements `SlotPool` |
| `HttpSpeech` | the HTTP endpoint, its response tasks and clients, over `Scheduler` |
| `MCHttpSpeech` | a statement about complete answers that an engine failure breaks |
| `HttpProofs` | theorems about HTTP calls, and that they use the scheduler as specified |
| `WorkerBridge` | cosyvoice-svc: worker threads, queues, response tasks, a crash |
| `SpeechPath` | composition: `HttpSpeech` with `WorkerBridge` as one of its two backends |
| `MCSpeechPath` | a statement about `speech.audio.done` that a crash of cosyvoice-svc breaks |
| `PathProofs` | theorems about the path: order of the chunks, what holds of any engine |
| `TextPath` | first frame, text frames, `SentenceBuffer`, `text_queue`, what the engine posts |
| `TextProofs` | theorems about the text path, for texts of any length |
| `RecursionLemmas` | induction and recursion on a measure, for `TextProofs` |
| `EngineStreams` | `stream_tts` and `abort` of `RoutingEngine` over `VllmOminiEngine` |
| `EngineProofs` | theorems about the registries |

### Session

All tasks run on one event loop, so an action is what a task does between two
suspension points: from an `await` that returns to the next that blocks. Locks
that are never held across a suspension (`RequestIdFactory._lock`,
`EngineScheduler._lock`) add no suspension point. `pc[t]` says where task `t`
is suspended, `cancelReq` on whom `cancel()` was called; a task with a pending
cancel takes its cancelled step next, never its normal one.

| Specification | Code |
| --- | --- |
| `Init` | the endpoint after authentication, tasks spawned, `auth.ok` queued (`app.py:361-396`) |
| `Receive*`, `EndpointLeaves` | one iteration of `_receive_loop` with the handler it calls (`app.py:736-1052`), and `tts_ws`'s exits (`app.py:398-419`) |
| `Put`, `SpawnSlowClose` | `_put_outbound_nowait` (`session.py:108-137`) |
| `FirstTerminal` | `set_terminal_frame_once` (`session.py:165-174`) |
| `CallClose`, `Close(c)` | `close()` and `_stop_sender_with_drain` run by caller `c`, one action per stage: lock, abort, reap the producers, SENTINEL, drain, cut, socket |
| `TtsBegins`, `TtsGranted`, `Engine*` | `run_tts` and the engine it iterates (`loops.py:232-318`) |
| `HeartbeatBeats`, `WatchdogFires`, `LoopReturns`, `SupervisorWakes` | the other loops (`loops.py:113-210, 326-373`) |
| `ProducerCancelled` | `CancelledError` in any of the four producers |
| `Sender*` | `sender_loop` (`loops.py:42-105`), the write to the socket split from the `get()` |
| `ServerShutsDown`, `ClientDrops` | lifespan shutdown (`app.py:293-313`); the connection breaks |

Abstractions. A frame is its kind: `audio`, `event` (started, queued,
processing, flushed, keepalive, auth.ok), `rejected` (a `tts.error` that closes
nothing) and the three terminals. Time is not measured: a timeout may fire
whenever its branch is reachable, so each statement holds for every setting of
the timeouts. A text frame completes any number of sentences up to `MaxSplit`.
The engine follows the contract of `engine.py:9-21`: it pulls text, yields
chunks, ends by itself only after the end of the text, ends early only when
aborted, or fails at any moment. `wire`, `complete`, `generated` and `chatter`
are history variables; `complete` says that the stream ended by itself after
all the text (a backend connection that breaks silently,
`engine_vllm_omini.py:222`, is such an end for the session). The sender's first
step runs before anything can cancel it, since the loop's ready queue is first
in first out, so the sender starts at its `get()`; `run_tts` may be cancelled
before its first step (`pc = "new"`).

`SessionService` sees of this a phase (`open`, `closing`, `closed`: `Phase`), the
outcome (`terminal`), whether it has been tried (`sentTerminal`), the frames on the
wire, the end of the stream and the connection: six variables of the session, no
task, queue or lock.

### Scheduler

`asyncio.Semaphore` is written out because its hand-over is where the difficulty
is: `release()` increments `_value`, and `_wake_up_next` gives the slot at once
to the first pending future (`granted`), whose task runs later and may be
cancelled before. `Ask` is `reserve()` with the part of `wait()` before its
suspension, `Resume` and `CancelledInLine` the two exits of `wait()`, `Release`
the `finally` of the callers. `waiting` is the counter behind `tts.queued`.
`HttpCancellable` says whether the server cancels HTTP handlers: the shipped
uvicorn command line does not, other servers and
`--timeout-graceful-shutdown` do, and `app.py:504` expects it.

`Session` and `Scheduler` are modelled apart: to a session the scheduler is one
suspension that is granted a slot or cancelled (`TtsGranted`,
`ProducerCancelled`), to the scheduler a session is a task that is cancelled
anywhere. `ClosingFreesSlot` and `SlotFreeBeforeSocket` on one side and
`Fairness` on the other are the contract between them.

### EngineStreams

A stream is two nested async generators, the router's and the backend's, each
with a registry entry: `_routed` from its first step, `_active` from the
response headers. `Begins`, `TextComplete`, `HeadersArrive`, `Yields`, ... are
the steps of `VllmOminiEngine.stream_tts` between its awaits
(`engine_vllm_omini.py:136-235`); `Unwinds` and `Closed` are its `finally` and
that of the router (`engine_routing.py:101-102`), `Cancelled` a `CancelledError`
at each await. When `run_tts` breaks out of its loop (`loops.py:284`), or an HTTP
response is cancelled between two chunks, nobody closes the generators: asyncio
does, in tasks of their own, the router's (`RouterFinalized`) before the
backend's (`BackendFinalized`). `Abort` is `RoutingEngine.abort` with the
lookup of the backend's `abort`, up to the await of `aclose()`. The model is the
deployment with both backends; with one, `engine` is that backend and the
routing entry plays no part. httpx is external: a response closed by `aclose()`
makes the reading task raise.

To `Session`, this is the engine that ends early only when aborted, or fails;
an `abort()` that finds nothing is why `close()` must also cancel `run_tts`.

### HttpSpeech

`HttpSpeech` extends `Scheduler`: an HTTP call is one of its requests, and a
WebSocket session is a request of which only the scheduler part matters.
`at[c]` is what the handler, then the response task, is about to do; `stream[c]`
is the engine's generator.

| Specification | Code |
| --- | --- |
| `Refuse`, `Asks`, `Resumes` | authentication, sse with wav, `reserve()` and `wait()` (`app.py:479-526`) |
| `FirstChunk`, `EndsPriming` | priming: the first chunk, or an error status and `release()` (`app.py:528-564`) |
| `NextChunk`, `EndsStream`, `LastSent`, `EndSent` | `_audio_stream`, `_sse_stream` and the three responses (`app.py:566-645`) |
| `EngineYields`, `EngineEnds`, `EngineFails`, `EngineCut`, `EngineStalls` | the engine contract; `EngineCut` is the swallowed `ReadError` (`engine_vllm_omini.py:222`), `EngineStalls` a backend silent for ever (`read=None`, line 110) |
| `Noticed`, `CancelledPulling`, `CancelledSending`, `Finalized`, `OrphanCloses` | a lost client or a cancelling server: the response task gets `CancelledError` inside the generator (its `finally` runs at once) or at a send (the generators are finalized later, the outer one first) |
| `CancelledEarly` | cancelled in line or while priming |
| `ClientStalls`, `ClientLeaves`, `ServerCancels` | environment |

Starlette and uvicorn are external: a `StreamingResponse` cancels its body when
the client is gone, a handler that collects a whole body does not notice; a send
waits for a client that does not take its data. A response generator runs before
anything can cancel it, so its `finally` always exists.

### WorkerBridge and SpeechPath

`WorkerBridge` is cosyvoice-svc. `Synthesizes` and `Puts` are the worker thread
(`cosyvoice_service/app.py:205-235, 319-328`), `Gets` is `q.get` in the helper
thread, `Sends` the response task, `PeerGone` its lost client, `Crash` the end of
the process. Threads are preemptive; their steps are the operations on the shared
queue. A cancelled task leaves only when `q.get` has returned, since a thread
cannot be cancelled, and one item of the queue goes with it. Chunks are numbers
in the order the model makes them.

`SpeechPath` extends `HttpSpeech` and instantiates the bridge. `instructed` holds
the calls that `RoutingEngine._pick` gives to cosyvoice-svc; all others have a
backend of which only the contract is known (`FastStep`, `FastStalls`). For an
instructed call the engine actions of `HttpSpeech` happen only with a step of the
service: `ChunkArrives` is `Read` and `EngineYields` in one, `BodyEnds` is
`ReadEnd` and `EngineEnds`, `Breaks` a dead service and `EngineCut`. So
`SpeechPath` has by construction fewer behaviours than `HttpSpeech` and adds only
steps that leave the gateway alone. That it is a special case of `HttpSpec`
(`PathIsHttp`) carries invariants over and says nothing about the service; what is
checked of the service is `BridgeInOrder`, `GoneClientStopsService` and
`WorkerEndsOrBlocks`.
A host that vanishes without closing its connections is not a `Crash` but a stall,
which the other backend shows.

### TextPath

A session's text from its frames to the body that `VllmOminiEngine` posts. One
action per frame: `ReceiveText` is `push` and the puts into `text_queue`,
`ReceiveTextAndFlush` a frame with `flush: true`, `ReceiveEnd` the flush, the
state ENDING and the end marker. `Pieces` is the loop of `push` as a recursive
function of the buffer (its text and `first`), `CutAt` its search, `Flush` is
`flush`; characters are a letter, a strong mark, a weak mark
and a space, all that the code tells apart. `PutAll` stops at the first sentence
that does not fit and closes the session; the engine may go on gathering until it
is cancelled (`Stops`), which is why a gap in the text could reach it.
`Authenticates` is the first frame, before which there is no session.

## 3. Runs

| Run | Instance | Shows |
| --- | --- | --- |
| `SessionSafety` | `OutCap` 1, `TextCap` 1, two sentences per frame, one chunk, one optional frame, drops and shutdown; 4.0 M states | the safety properties of a session, refinement of `SessionService` |
| `SessionLiveness` | queues of 1, one chunk, drops and handler crash; 0.38 M states | every session ends and leaves nothing |
| `SessionDoneEarly`, `SessionStartTimeout`, `SessionStuckClient` | minimal | section 6 |
| `SchedulerCancel` | three sessions, two HTTP calls, two slots, everything cancellable; 67 k states | safety, refinement of `SlotPool`, progress of the line |
| `SchedulerLeak` | minimal | section 6 |
| `SpeechPath` | one session and one HTTP call on one slot, three chunks, `QueueCap` and `NetCap` 1; 55 k states | an HTTP call from the line to its last byte, through both backends |
| `TextPath` | thresholds 2, 3 and 4, queue of 2, five characters of text in any frames; 172 k states | what the engine is asked to speak |
| `HttpTruncated` | minimal | section 6 |
| `EventTruncated` | one HTTP call, two chunks | section 6 |
| `EngineStreams` | two requests on two backends; 7.7 k states | registries and `abort()` |

**SessionSafety.** `TypeOK` bounds both queues. `KeepsPromises`, the refinement:
the outcome is decided once; the SENTINEL path and the cancel handler never both
send it, and nothing follows it; no session closes without a decided outcome or a
lost connection. `DoneMeansComplete`: a session that is cancelled, timed out,
shut down or torn down never tells the client `tts.done`, although `run_tts`
tries to after each exit of its loop. `QuietWhenClosed`: CLOSED means that no
producer (but a supervisor that is the closer) and no sender is left.
`SlotFreeBeforeSocket`: close() waits for the client only when `run_tts` is
over. `EveryCloseIsAnnounced`: no session closes under a connected client
without an attempt at its terminal frame. `ClosedIsFinal`: no latecomer
reopens the session, enqueues or writes.

**SessionLiveness.** `ClosingCloses`, `StartedSessionEnds`, `ClosingFreesSlot`,
`ClosedLeavesNoTask`; the first two for a client that reads while connected. The
closers are the endpoint, the supervisor, the slow-client task and the
sender-failure task; with the shutdown of the server, the fifth, the run is too
long, so its effect on progress is not checked. The safety of all five is
(`SessionSafety`), and so is that close() goes on under any caller (`NeverStuck`,
`Advancing` in section 5).

**SchedulerCancel.** `LineIsQueue`, `SlotsConserved` and `BoundedConcurrency`;
`NoIdleSlot`: a free slot with a live request in line exists only during a
hand-over that will wake it; `GrantsInOrder`; `NeverOvercounts`: also with the
double decrement of `app.py:505` a position is never reported too high;
`CountsQueued`: and it is exact until an HTTP handler has been cancelled;
`PoolSpec`, the refinement; and `LineMoves`: each request in line is served or
leaves.

**SpeechPath.** `OnlyDroppedOutlivesSlot`: an engine generator that is not closed
belongs to a call with a slot, with one exception, which is real: a streaming
response cancelled at a send drops its generators, the outer one's `finally`
returns the slot, and the engine's generator, with the backend's response, is
closed only after that. For this time more than `max_concurrent` backend responses
may be open (section 6). `GoneClientStopsService`: it ends; a client that leaves a
streaming response stops the service's task, whichever way the gateway's task was
cancelled. `OkHasAudio`: the 200 is never empty, also when the
service answers 200 and then fails, as it does for an unknown voice.
`EventFollowsGenerator`: the closing event is `error` after an exception of the
engine's generator and `speech.audio.done`, after all chunks it yielded, otherwise;
no stream of events is over without one. That is what the gateway can tell: a
generator that swallowed a lost connection gets a `done`, which is
`EventTruncated`. `BridgeInOrder`: what is between the model and the gateway is
exactly the chunks made and not read, in order, then the end.
`GoneClientFreesSlot`: a streaming response gives its slot back when its client
hangs up, though the backend never answers again. `SlotReturns`: any slot comes
back unless the backend stalls or the client is stuck, which nothing in the
gateway bounds. `EveryCallIsAnswered`: a call whose client stays is answered
unless some call is stuck in one of these ways, or has leaked its slot.
`WorkerEndsOrBlocks`: a worker thread ends, or its task is gone with a full queue
in front of it: the thread then blocks for the life of the process, and
`engine_vllm_omini.py:246-248` ("a few hundred ms") is too optimistic here.

**TextPath.** `PostsAllOrNothing`: the request body is all accepted text, but for
spaces around sentences, or there is none. `FramingIrrelevant`: without a flush
or a cut at the cap, sentences do not depend on the frames; with a cut at the cap
they do. `OverlongEndsAtMark`: a sentence longer than `max_chars` ends at the
first mark that could end it. `EndIsHeard`: `tts.end` reaches the engine.

**EngineStreams.** `NothingLeft`: a stream that is over has no entry in either
registry and no open connection, also when it was dropped in the middle;
`OpenIsFindable`: `abort()` finds every open response, also of a stream that has
lost its routing entry and not yet its connection; `AbortEnds`: a response that
`abort()` closes ends its stream although the backend is silent.

Why these bounds are enough. The queues matter when empty, when they have room
and when full, in particular full between the two puts of one step
(`TtsBegins`) and when SENTINEL is due: `OutCap` 1 has these cases. With it a
session that finds a slot free at once always overflows on its second put, and
audio is reached through the wait for a slot; `SessionDoneEarly` has `OutCap` 2
and both paths, and `SessionSafety` was also run with `OutCap` 2 (5.7 M states,
no violation). `TextCap` 1 with two sentences per frame overflows between
sentences and at the end marker. One audio chunk can be written, queued,
dropped or refused. A second optional frame
or chunk repeats these cases. On the path a call has three chunks, one more than
queue and connection hold, so that every stage is full at once; calls of different
clients meet in the scheduler, whose interaction `SchedulerCancel` checks and
`UsesScheduler` carries over, and in the crash of the service, which ends them
together. So the run has one call, and one session that takes the slot from it.
It does not exercise what takes two: a call kept waiting by another one's stuck
client or stalled backend (the disjunct `Blocked` of `EveryCallIsAnswered`), and a
call that the restarted service answers. For these `SpeechPath` was also run, beside
the listed runs, with two calls, no session, one chunk and a server that does not
cancel: all ten properties hold on its 0.38 M states, in which the system may stop,
when a call that will never end has the slot. The theorems of `HttpProofs` and
`PathProofs` hold for any number of calls.
Five characters reach past `max_chars` 4 and hold two sentences;
two sentences and the end marker overflow a queue of two at each of the three
puts. Five requests on two slots give a line of three:
a granted, a cancelled and a pending waiter at once. Streams of different ids
share nothing but the dictionaries, so two of them show all there is. The proofs of section 5
have no bounds. A session has no interchangeable parts, so no symmetry is used.
Deadlock is checked in every run; a session whose tasks are all over, and a
scheduler without live requests, stutter in `Finished`.

## 4. Fairness

The event loop runs every ready task and fires every timer, so each local step
of a task has weak fairness: `EndpointLeaves`, `TtsBegins`, `WatchdogFires`
(after `start_timeout_s` or `max_session_s`), `SupervisorWakes`, the exits of
the producers, `SenderLocal`, the stages of `close()`. Nothing is assumed of
the client (its frames, its reading), of the engine (it may be silent for
ever), of the scheduler or of the heartbeat. That a connected client reads is
the premise `ClientReads`, stated inside the properties that need it and absent
from `ClosingFreesSlot` and `ClosedLeavesNoTask`. In `Scheduler` a task that can
go on does, and a synthesis ends: a session's because it is closed after
`max_session_s`, an HTTP call's because its backend answers. The last is an
assumption about the backend, which `read=None` does not enforce; `SpeechPath`
does without it. There the gateway's tasks run, dropped generators are finalized,
a client that reads takes what is sent, a backend that has not stalled goes on
(`FastStep`, `Connects`, `ConnectFails`, `SaysNothing`, `Reading`), the service's
threads and tasks run and its model answers. Nothing makes a client leave or stay, a
backend stall or a process crash. In `TextPath` a slot becomes free at last and the
engine takes what is in the queue; no frame need come. In
`EngineStreams` the steps that wait for nothing are fair, and a consumer that
has a chunk takes the next; the backend may be silent.

## 5. Proofs

Proved with TLAPS for every value of the constants, from `SchedulerAssumption`
(requests finite, two disjoint kinds, at least one slot),
`SessionAssumption` (positive queue sizes, natural bounds), `HttpAssumption` (at
least one chunk), `PathAssumption` (positive queue and connection sizes) and
`TextAssumption` (positive thresholds and queue size, in any order: the code
compares no threshold with another):

| Theorem | Module | Statement |
| --- | --- | --- |
| `Conservation`, `Line`, `Bounded` | `SchedulerProofs` | `[]SlotsConserved`, `[]LineIsQueue`, `[]BoundedConcurrency` |
| `Types`, `NoSlotIdles`, `InOrder` | `SchedulerProofs` | `[]TypeOK`, `[]NoIdleSlot`, `[]GrantsInOrder` |
| `NoOvercount`, `ExactCount` | `SchedulerProofs` | `[]NeverOvercounts`, `[]CountsQueued` |
| `Implements` | `SchedulerProofs` | `Spec => PoolSpec` |
| `UsesScheduler`, `HttpBounded` | `HttpProofs` | `HttpSpec => SchedulerSpec`, `[]BoundedConcurrency` |
| `HttpTypes`, `OnlyDropped` | `HttpProofs` | `[]HttpTypeOK`, `[]OnlyDroppedOutlivesSlot` |
| `AudioFirst`, `EventFollows` | `HttpProofs` | `[]OkHasAudio`, `[]EventFollowsGenerator` |
| `PathKeepsPromises` | `PathProofs` | the last three of these, of `PathSpec` |
| `BridgeOrder`, `PathTypes` | `PathProofs` | `[]BridgeInOrder`, `[]PathTypeOK` |
| `Types`, `TerminalLast`, `Quiet`, `SlotFree` | `SessionProofs` | `[]TypeOK`, `[]TerminalFrameIsLast`, `[]QuietWhenClosed`, `[]SlotFreeBeforeSocket` |
| `Final` | `SessionProofs` | `ClosedIsFinal` |
| `NeverStuck`, `Advancing` | `SessionProofs` | `[]CloseGoesOn`, `CloseAdvances` |
| `NeverSilent`, `DoneIsTrue` | `AnnounceProofs` | `[]EveryCloseIsAnnounced`, `[]DoneMeansComplete` |
| `Implements` | `AnnounceProofs` | `Spec => KeepsPromises` |
| `Types`, `Clean`, `Findable` | `EngineProofs` | `[]TypeOK`, `[]NothingLeft`, `[]OpenIsFindable` |
| `TextTypes`, `PostsWhole` | `TextProofs` | `[]TextTypeOK`, `[]PostsAllOrNothing` |
| `FramingFree`, `OverlongAtMark` | `TextProofs` | `[]FramingIrrelevant`, `[]OverlongEndsAtMark` |

*Scheduler.* `Inv` is types, line and conservation. The bound on users alone is
not inductive: a release hands a slot to a future before its task runs, so the
slots in `granted` must be counted, and removing a request from the line keeps
the rest of it only if the line has no duplicates. With `Inv`, a step moves one
slot between free, granted, held and leaked, and maps to a `Take`, `Give` or
`GiveUp` of the pool, or to a stutter.

Two pairs of properties are inductive once `Inv` is known, and are proved as
they stand. `NoIdleSlot /\ GrantsInOrder` (`FairLine`): a waiter that leaves takes
no grant past a live one, and a wake-up grants the first live request that has
none. `NeverOvercounts /\ CountsQueued` (`Counting`): each step changes the counter
as it changes the number of queued requests, except the cancellation of an HTTP
handler, which may decrement twice and so only lowers it.

*Session.* `QuietWhenClosed` is not inductive: it needs to know what the caller
inside `close()` has achieved. `LockInv` says that one caller at most is past
`close_lock`, that the session is then closing, that a supervisor which closes
is not itself cancelled, and that the sender's own closer exists only once the
sender is over. `ProgressInv` says that the siblings are stopped from the
sentinel stage on, and that CLOSED is set exactly at the last stage.
`SenderInv` relates the sender's position to what it holds and to the wire: a
terminal frame on the wire means that the sender is over. The proof has one
lemma per group of actions; `QuietStep` collects what most steps leave alone.
`Final` follows from `Inv`: in CLOSED the sender is over, the producers are over
but for a closing supervisor, and whoever is inside `close()` is at its last
stage, so every action that could reopen, enqueue or write is disabled.

*close() is never stuck.* The run `SessionLiveness` checks `ClosingCloses` on a
small instance; two theorems are its safety part for every instance. `CloseGoesOn`:
in CLOSING some caller can take a free `close_lock`, or the one that has it waits
for nothing but tasks it has cancelled. `CloseAdvances`: the holder keeps the lock
to CLOSED, goes through the stages in order, and no task that it stops comes back.
Both follow from `Attended`: whoever sets CLOSING leaves a caller behind that will
close (the overflow of `out_queue` and the sender's failure spawn one), and no
task is cancelled before somebody has the lock. The second half matters for the
supervisor: it may be cancelled while it waits for the lock, but only by the holder,
so that a close which it was to run is run by another. What remains to the run is
that these steps are taken: that `abort()` returns, that a cancelled task ends, and
that a client takes its terminal frame or goes. Before they were proved
`CloseGoesOn`, `CloseAdvances` and the invariant were checked with TLC on the
instance of `SessionSafety`.

*Announcements.* `AnnounceInv` rests on `Inv`. `CallersAnnounce`: whoever closes
or lets the supervisor close has set the terminal frame before, or the
connection is gone. `SenderAnnounces`: the sender is cancelled, or handed
SENTINEL, only in a closing session, and when it is over it has tried to send the
terminal frame or lost the connection. `DoneIsEarned`: `done` is the terminal
kind only when the engine completed or the connection is gone.

*Refinement of `SessionService`.* A step of the sender maps to `Say`, `Try`,
`SayOutcome`, `StartClosing` (its failure) or a stutter; a step of any other task
decides the outcome, ends the stream or moves the phase forward, and touches neither
wire nor sender (`OutsideStep`). That needs one more invariant, `TriedLast`: the
sender tries the terminal frame only in a closing session, and then sends nothing
else. `EndClosing` asks for a frame that was tried, which is `EveryCloseIsAnnounced`
at the step that closes. `TerminalFrameIsLast` follows from the refinement and is
checked through it; it is also part of `Inv`, which the proof starts from.

*Engine.* The two invariants need the link between the position of a stream and
its entries (`TypeOK`, `RoutedFrom`). All of it is about one request at a time:
`Good` is the invariant of one request as a constant formula, `Pointwise` says
that `Inv` is `Good` for each, and `OneRequest` that a step of one request need
only keep its own.

*HTTP.* `CallInv` is pointwise, like the invariant of the engine: `Good` relates a
call's phase in the scheduler, its handler's place, its generator, its client and
what was sent. `CallKeeps` says that a step of one call keeps the invariant and
leaves the other calls alone; a session's step changes none of it. `OnlyDropped` needs to know why a
generator was dropped: a response is dropped only at a send of a streaming shape, and
only for a client that is gone or a server that cancelled, neither of which is ever
taken back (`Requested`). `EventFollows` needs that a client that still reads has
been sent every chunk whenever the handler pulls. `UsesScheduler` maps every step to a scheduler step or
a stutter, which brings all theorems of `SchedulerProofs` with it.

*Path.* Every step of the path is one of the gateway or a stutter
(`PathIsHttp`), so that `CallInv` and with it the HTTP theorems hold of the path.
`BridgeInOrder` is made inductive by `Joint`, which ties the service's task and
worker to the gateway's generator (a call that has not arrived has no chunks, a task
leaves only if the generator was closed, a body that ended had a worker that was
done). `InOrderFor` says that connection, task, queue and worker in a row hold the
run of chunks from `yielded + 1` to `made`, and the end behind them once the
worker is through. Each step moves, adds or removes one end of that row; the
lemmas on `Row` and `Run` say so for sequences of any length.

*Text path.* What `push` returns for every text needs induction. The induction
theorems of the library take an operator, which the provers cannot instantiate,
so `RecursionLemmas` states induction over sets: `MeasureInduction` (a set that
holds every element whose smaller ones it holds, holds all), from the existence of
minimal elements. `RecursionHasSolution` gives a recursive function its equation:
if the value at an element depends only on the values at smaller ones, there is
such a function, and the CHOOSE behind a recursive definition is one.

`TextProofs` applies both to `Pieces` along the length of the buffer
(`PiecesEquation`, `BufferInduction`), and `TailInduction` to `Letters` and
`Spoken`, the letters of a list of texts. Four facts about `push` carry the rest:
what it leaves holds no sentence (`LeftHasNoCut`), what it returns are sentences
that respect `max_chars` or end at a mark (`OutIsFine`), it loses no letter
(`PiecesKeepLetters`), and on a text in two parts it does what it does on one part
after the other, unless the cap cut the first part (`PiecesSplit`). The last is
false without that condition: a mark in the second part could have ended the
sentence that the cap ended.

None of the four invariants but the type invariant is inductive. `TextInv` adds
where the letters are: before `tts.end`, what is gathered, queued and buffered
makes up all that was accepted, in this order; once the end marker is queued, what
is gathered and queued does (`NothingLost`), and the marker is the last thing in
the queue (`EndIsLast`). A put that overflows the queue may lose letters, but it
cuts the marker off with them, so that an engine that goes on gathering never
posts. For the framing, `AsOneFrame` keeps the sentences, the rest and `first` of
`push` on the whole text, and `PiecesSplit` is its induction step.

Only model-checked: the liveness properties, which are out of the prover's reach.
Their safety parts are proved where they have one of their own (`NeverStuck`). The
invariants used in the proofs were checked with TLC first, `TextInv` on the
instance of the run `TextPath`.

## 6. Disagreements found

Each is a run that TLC must find violated; the details are in `PROJECT.json`
under `findings`.

1. `SessionDoneEarly`: on normal completion the audio still in `out_queue` is
   dropped (`loops.py:77-81`), then `tts.done` is sent, against
   `PROTOCOL.md:150`.
2. `SessionStartTimeout`: START_TIMEOUT sets the terminal frame but nothing
   closes the session, because no supervisor exists before `tts.start`, against
   `PROTOCOL.md:171`.
3. `SessionStuckClient`: `close()` waits without bound for a sender blocked on a
   client that does not read, against `session.py:265-266`.
4. `EventTruncated`: cosyvoice-svc crashes behind the first chunk of a body.
   `stream_tts` swallows the exception (`engine_vllm_omini.py:222-227`), whose
   comment expects it only "when abort() closes the response mid-stream", so the
   generator ends like a complete one and truncated audio is followed by
   `speech.audio.done`, against `app.py:121-127`, `app.py:597-599` and
   `CLIENT_GUIDE.md:89, 127-128`, which promise `error` for a failure in
   mid-stream. A WebSocket session does the same with `tts.done`
   (`loops.py:286-299`), which follows from the code and has no run.
5. `SchedulerLeak`: an HTTP handler cancelled while priming keeps its slot for
   ever (`app.py:540`). Only a server that cancels handlers shows it.
6. `HttpTruncated`: without `stream=true` an engine failure behind the first chunk
   is answered with a complete 200 and truncated audio, though no header has been
   sent (`app.py:582-589, 638-645`), against `app.py:469` and `CLIENT_GUIDE.md:187`.

Without a run: `engine_vllm_omini.py:105-106` says that the scheduler bounds the
connections to the backend. A response cancelled at a send returns its slot before
its backend response is closed (`Finalized` before `OrphanCloses`), so for that
time there may be more of them than `max_concurrent`; a session that leaves its loop
at a refused chunk (`loops.py:284, 318`) does the same. `PROTOCOL.md:171` calls `tts.error` terminal, but refused frames are
answered with a `tts.error` and the session goes on (`app.py:756-793, 837-844`).
`except KeyError` at `cosyvoice_service/app.py:343` is dead, since the voice is
looked up in the worker thread after the 200: through the gateway an unknown voice
is a 400 with vllm-omini and a 502 with cosyvoice-svc.

## 7. What is not modelled

- The voice list and request ids: stateless, or atomic in asyncio.
- Dead code: the watchdog's CONNECTED branch (the session is created
  authenticated), TASK_ERROR (the watched tasks do not raise), `purge_queue`
  (never passed), `SentenceBuffer.reset`, the states CONNECTED and INIT of
  `TTSSession`.
- A failed `abort()`: it is logged and close() goes on, as if it had succeeded.
- `load()` and `shutdown()` of the engines, which run before the first and
  after the last session; voice management; `MockEngine`.
- cosyvoice-svc: loading of the model, `/health` and the voice list, which keep no
  state; its `wav` header; two calls on one model at a time, which is up to the
  model (the code has no lock).
- Scripts, the browser page, deployment and tests: sequential programs or
  configuration that share no state with the gateway.

## 8. Plan

The modules and proofs planned for this project are written. What would add most
next: one model of sessions over the scheduler, to check the contract between
`Session` and `Scheduler` (section 2) instead of stating it; and `Session` with
`EngineStreams` in place of its engine actions.

## 9. Running

    tlc -workers 2 -config SessionSafety.cfg MCSession
    tlc -workers 2 -config SchedulerCancel.cfg MCScheduler
    tlc -workers 2 -config SpeechPath.cfg SpeechPath
    tlapm SessionProofs.tla
    tlapm TextProofs.tla

`SessionSafety` and `SessionLiveness` take about two minutes each, the others
up to one; each proof module takes a few minutes.
