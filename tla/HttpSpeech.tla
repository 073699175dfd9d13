----------------------------- MODULE HttpSpeech -----------------------------
(***************************************************************************)
(* POST /v1/audio/speech (app.py): the handler, its three kinds of         *)
(* response and its client, as users of the scheduler, which this module   *)
(* extends.  A handler takes a slot, primes the engine generator with one  *)
(* chunk so that an early failure still gets a status code, and then       *)
(* answers with one body, a raw audio stream or server-sent events.        *)
(*                                                                         *)
(* The response classes of Starlette notice a lost client only while they  *)
(* stream, and cancel the response task: the generator sees the exception  *)
(* if it is waiting for the engine; if a send was pending it is dropped    *)
(* and finalized later by the event loop.  An engine is what engine.py     *)
(* promises: chunks, then a normal or an exceptional end, or nothing more. *)
(***************************************************************************)
EXTENDS Scheduler

CONSTANT MaxChunks  \* bound on the chunks of one synthesis

ASSUME HttpAssumption == MaxChunks \in Nat \ {0}

VARIABLES
    shape,    \* the kind of response each call asks for
    conn,     \* its client: reads, is stuck (neither reads nor hangs up), is gone
    stream,   \* its engine generator
    yielded,  \* chunks the generator has yielded
    at,       \* what the handler, then the response task, is about to do
    sent,     \* chunks written to the client
    event     \* closing event written to the client, of server-sent events

httpVars == <<shape, conn, stream, yielded, at, sent, event>>
allVars == <<vars, httpVars>>

\* stream=true responses: raw chunks, and stream_format=sse.
Streaming == {"audio", "sse"}
Shapes == {"whole"} \cup Streaming

\* A generator that is "cut" lost its backend and ended as if by itself; an
\* "orphan" was dropped and is not closed yet.
StreamValues ==
    {"off", "open", "stalled", "ended", "cut", "failed", "closed", "orphan"}

\* "refused", "bad", "failed" and "over" are answers: 401 or 400, an unknown
\* voice, 502, and 200 with the body complete; "cut" is a handler that ended
\* without.
Answered == {"refused", "bad", "failed", "over"}
AtValues == Answered \cup {"idle", "pull", "send", "last", "end", "dropped", "cut"}

HttpInit ==
    /\ Init
    /\ shape = [c \in HttpCalls |-> "none"]
    /\ conn = [c \in HttpCalls |-> "reads"]
    /\ stream = [c \in HttpCalls |-> "off"]
    /\ yielded = [c \in HttpCalls |-> 0]
    /\ at = [c \in HttpCalls |-> "idle"]
    /\ sent = [c \in HttpCalls |-> 0]
    /\ event = [c \in HttpCalls |-> "none"]

-----------------------------------------------------------------------------
(* The handler up to the first chunk.                                       *)

\* An invalid token, or server-sent events asked for with wav: no slot is taken.
Refuse(c) ==
    /\ pc[c] = "new" /\ at[c] = "idle"
    /\ at' = [at EXCEPT ![c] = "refused"]
    /\ UNCHANGED <<vars, shape, conn, stream, yielded, sent, event>>

\* The generator is created and pulled once the slot is there.
Begins(c) ==
    stream' = IF pc'[c] = "prime" THEN [stream EXCEPT ![c] = "open"] ELSE stream

\* reserve() and wait() of a request that asks for response s.
Asks(c, s) ==
    /\ at[c] = "idle"
    /\ Ask(c)
    /\ Begins(c)
    /\ shape' = [shape EXCEPT ![c] = s]
    /\ UNCHANGED <<conn, yielded, at, sent, event>>

Resumes(c) ==
    /\ Resume(c)
    /\ Begins(c)
    /\ UNCHANGED <<shape, conn, yielded, at, sent, event>>

\* Mutant of EndsPriming: without a look at the first chunk the response starts,
\* and the generator is pulled again to find its end.
StartsEmpty(c, how) ==
    /\ pc[c] = "prime" /\ c \notin cancelReq
    /\ stream' = [stream EXCEPT ![c] = how]
    /\ StartStream(c)
    /\ at' = [at EXCEPT ![c] = IF shape[c] = "sse" THEN "last" ELSE "pull"]
    /\ UNCHANGED <<shape, conn, yielded, sent, event>>

\* The generator ended before its first chunk: the slot is returned and the
\* answer is 502, or 400 if the backend's error says that the voice is unknown.
EndsPriming(c, how) ==
    /\ pc[c] = "prime"
    /\ stream' = [stream EXCEPT ![c] = how]
    /\ Release(c)
    /\ \/ at' = [at EXCEPT ![c] = "failed"]
       \/ how = "failed" /\ at' = [at EXCEPT ![c] = "bad"]
    /\ UNCHANGED <<shape, conn, yielded, sent, event>>

\* The first chunk: the response starts with it, or collects it.
FirstChunk(c) ==
    /\ StartStream(c)
    /\ at' = [at EXCEPT ![c] = IF shape[c] = "whole" THEN "pull" ELSE "send"]

-----------------------------------------------------------------------------
(* The generators behind the response, which hold the slot until they end.  *)

Pulling(c) == at[c] = "pull" /\ c \notin cancelReq

\* One more chunk, to be sent or collected.
NextChunk(c) ==
    /\ Pulling(c)
    /\ at' = [at EXCEPT ![c] = IF shape[c] = "whole" THEN "pull" ELSE "send"]
    /\ UNCHANGED vars

\* The engine's generator ended, in the given way: _sse_stream has an event for
\* it, _audio_stream logs an exception and returns the slot.
EndsStream(c, how) ==
    /\ Pulling(c)
    /\ stream' = [stream EXCEPT ![c] = how]
    /\ \/ shape[c] = "sse" /\ at' = [at EXCEPT ![c] = "last"] /\ UNCHANGED vars
       \/ shape[c] # "sse" /\ at' = [at EXCEPT ![c] = "end"] /\ Release(c)
    /\ UNCHANGED <<shape, conn, yielded, sent, event>>

\* What the engine may do with the generator of call c.
EngineYields(c) ==
    /\ stream[c] = "open" /\ yielded[c] < MaxChunks
    /\ yielded' = [yielded EXCEPT ![c] = @ + 1]
    /\ FirstChunk(c) \/ NextChunk(c)
    /\ UNCHANGED <<shape, conn, stream, sent, event>>

EngineStops(c, how) ==
    /\ stream[c] = "open"
    /\ EndsPriming(c, how) \/ EndsStream(c, how)

EngineEnds(c) == EngineStops(c, "ended")
EngineFails(c) == EngineStops(c, "failed")
EngineCut(c) == EngineStops(c, "cut")

\* The backend keeps the connection and sends nothing any more: no read timeout.
EngineStalls(c) ==
    /\ stream[c] = "open"
    /\ stream' = [stream EXCEPT ![c] = "stalled"]
    /\ UNCHANGED <<vars, shape, conn, yielded, at, sent, event>>

-----------------------------------------------------------------------------
(* The response task.                                                       *)

\* A send returns when the client takes the data, and at once when it is gone.
Sendable(c) == conn[c] # "stuck" /\ c \notin cancelReq
Got(c, n) == sent' = IF conn[c] = "reads" THEN [sent EXCEPT ![c] = n] ELSE sent

SendCompletes(c) ==
    /\ at[c] = "send" /\ Sendable(c)
    /\ Got(c, yielded[c])
    /\ at' = [at EXCEPT ![c] = "pull"]
    /\ UNCHANGED <<vars, shape, conn, stream, yielded, event>>

\* Mutant of ClosingEvent: the exception is swallowed as in _audio_stream.
AlwaysDone(c) == "done"

\* speech.audio.done, or an error event in the generator's except.
ClosingEvent(c) == IF stream[c] = "failed" THEN "error" ELSE "done"

\* Mutant of LastSent: release() only in _audio_stream.
LastKeepsSlot(c) ==
    /\ at[c] = "last" /\ Sendable(c)
    /\ event' = [event EXCEPT ![c] = ClosingEvent(c)]
    /\ at' = [at EXCEPT ![c] = "end"]
    /\ UNCHANGED <<vars, shape, conn, stream, yielded, sent>>

\* The closing event is written, the generator resumes and returns the slot.
LastSent(c) ==
    /\ at[c] = "last" /\ Sendable(c)
    /\ event' = IF conn[c] = "reads"
                   THEN [event EXCEPT ![c] = ClosingEvent(c)] ELSE event
    /\ Release(c)
    /\ at' = [at EXCEPT ![c] = "end"]
    /\ UNCHANGED <<shape, conn, stream, yielded, sent>>

\* The body ends: nothing more of a stream, all that was collected otherwise.
EndSent(c) ==
    /\ at[c] = "end" /\ Sendable(c)
    /\ Got(c, yielded[c])
    /\ at' = [at EXCEPT ![c] = IF conn[c] = "reads" THEN "over" ELSE "cut"]
    /\ UNCHANGED <<vars, shape, conn, stream, yielded, event>>

-----------------------------------------------------------------------------
(* Clients that stop, and servers that cancel.                              *)

\* A call that is not over yet.
Live(c) == shape[c] # "none" /\ at[c] \notin Answered \cup {"cut"}

ClientStalls(c) ==
    /\ Live(c) /\ conn[c] = "reads"
    /\ conn' = [conn EXCEPT ![c] = "stuck"]
    /\ UNCHANGED <<vars, shape, stream, yielded, at, sent, event>>

ClientLeaves(c) ==
    /\ Live(c) /\ conn[c] # "gone"
    /\ conn' = [conn EXCEPT ![c] = "gone"]
    /\ UNCHANGED <<vars, shape, stream, yielded, at, sent, event>>

ServerCancels(c) ==
    /\ pc[c] # "new"
    /\ Cancel(c)
    /\ UNCHANGED httpVars

\* Mutant of Noticed: the response task does not listen for a disconnect.
OnlyServer(c) == c \in cancelReq

\* The task is cancelled by the server, or by its own response class that
\* listens for a disconnect while it streams.
Noticed(c) == c \in cancelReq \/ (conn[c] = "gone" /\ shape[c] \in Streaming)

Open(c) == stream[c] \in {"open", "stalled"}

\* Mutant of CancelledPulling: the engine's generator is left open.
CancelledPullingOnly(c) ==
    /\ at[c] = "pull" /\ Noticed(c)
    /\ Release(c)
    /\ at' = [at EXCEPT ![c] = "cut"]
    /\ UNCHANGED <<shape, conn, stream, yielded, sent, event>>

\* CancelledError inside the generator: the engine's is closed, the finally
\* returns the slot.
CancelledPulling(c) ==
    /\ at[c] = "pull" /\ Noticed(c)
    /\ Release(c)
    /\ stream' = IF Open(c) THEN [stream EXCEPT ![c] = "closed"] ELSE stream
    /\ at' = [at EXCEPT ![c] = "cut"]
    /\ UNCHANGED <<shape, conn, yielded, sent, event>>

\* CancelledError in a pending send: the generator is left where it is.
CancelledSending(c) ==
    /\ at[c] \in {"send", "last"} /\ Noticed(c)
    /\ at' = [at EXCEPT ![c] = "dropped"]
    /\ UNCHANGED <<vars, shape, conn, stream, yielded, sent, event>>

\* Mutant of Finalized: the generator has no finally.
FinalizedIdly(c) ==
    /\ at[c] = "dropped"
    /\ stream' = IF Open(c) THEN [stream EXCEPT ![c] = "orphan"] ELSE stream
    /\ at' = [at EXCEPT ![c] = "cut"]
    /\ UNCHANGED <<vars, shape, conn, yielded, sent, event>>

\* The event loop closes the dropped generator: its finally returns the slot,
\* which leaves the engine's generator to be closed later.
Finalized(c) ==
    /\ at[c] = "dropped"
    /\ Release(c)
    /\ stream' = IF Open(c) THEN [stream EXCEPT ![c] = "orphan"] ELSE stream
    /\ at' = [at EXCEPT ![c] = "cut"]
    /\ UNCHANGED <<shape, conn, yielded, sent, event>>

\* Mutant of OrphanCloses: something still refers to the generator.
OrphanKept(c) ==
    /\ stream[c] = "orphan"
    /\ UNCHANGED allVars

\* The engine's generator is finalized in its turn.
OrphanCloses(c) ==
    /\ stream[c] = "orphan"
    /\ stream' = [stream EXCEPT ![c] = "closed"]
    /\ UNCHANGED <<vars, shape, conn, yielded, at, sent, event>>

\* Cancelled in line, or while priming, where the slot is lost.
CancelledEarly(c) ==
    /\ \/ CancelledInLine(c) /\ UNCHANGED stream
       \/ CancelledPriming(c) /\ stream' = [stream EXCEPT ![c] = "closed"]
    /\ at' = [at EXCEPT ![c] = "cut"]
    /\ UNCHANGED <<shape, conn, yielded, sent, event>>

-----------------------------------------------------------------------------
(* The specification.                                                       *)

\* The handler, the response task, its client and its server.
HandlerStep(c) ==
    \/ Refuse(c) \/ (\E s \in Shapes : Asks(c, s)) \/ Resumes(c)
    \/ SendCompletes(c) \/ LastSent(c) \/ EndSent(c)
    \/ ClientStalls(c) \/ ClientLeaves(c) \/ ServerCancels(c)
    \/ CancelledPulling(c) \/ CancelledSending(c) \/ Finalized(c)
    \/ OrphanCloses(c) \/ CancelledEarly(c)

EngineAnswers(c) ==
    EngineYields(c) \/ EngineEnds(c) \/ EngineFails(c) \/ EngineCut(c)

\* A WebSocket session, of which only the use of its slot matters here.
SessionStep(s) == (Step(s) \/ Cancel(s)) /\ UNCHANGED httpVars

HttpFinished ==
    /\ \A c \in HttpCalls : at[c] \in Answered \cup {"cut"} /\ stream[c] # "orphan"
    /\ \A s \in Sessions : pc[s] = "done"
    /\ UNCHANGED allVars

HttpNext ==
    \/ \E c \in HttpCalls : HandlerStep(c) \/ EngineAnswers(c) \/ EngineStalls(c)
    \/ \E s \in Sessions : SessionStep(s)
    \/ HttpFinished

HttpSpec == HttpInit /\ [][HttpNext]_allVars

-----------------------------------------------------------------------------
(* Properties.                                                              *)

\* Types, and how the handler's place follows from the request's phase.
HttpTypeOK ==
    /\ shape \in [HttpCalls -> Shapes \cup {"none"}]
    /\ conn \in [HttpCalls -> {"reads", "stuck", "gone"}]
    /\ stream \in [HttpCalls -> StreamValues]
    /\ yielded \in [HttpCalls -> 0..MaxChunks]
    /\ at \in [HttpCalls -> AtValues]
    /\ sent \in [HttpCalls -> 0..MaxChunks]
    /\ event \in [HttpCalls -> {"none", "done", "error"}]
    /\ \A c \in HttpCalls :
        pc[c] = "stream" <=> at[c] \in {"pull", "send", "last", "dropped"}

\* Generators that are not over, and may have a response of the backend open.
Alive(c) == Open(c) \/ stream[c] = "orphan"

\* An engine generator outlives the slot of its call in one case only: a
\* streaming response was cancelled at a send, because its client was gone or
\* the server stopped it, and the finally of the dropped generator returned the
\* slot before the engine's was closed (app.py:566-626).  Nobody pulls it any
\* more, but until it is closed more than MaxConcurrent may be alive.
OnlyDroppedOutlivesSlot ==
    \A c \in HttpCalls :
        Alive(c) /\ pc[c] \notin Holding =>
            /\ stream[c] = "orphan" /\ at[c] = "cut" /\ shape[c] \in Streaming
            /\ conn[c] = "gone" \/ c \in cancelReq

\* A 200 response carries audio: an engine that fails or ends before its first
\* chunk is answered with an error status (app.py:528-564, "200 OK with zero
\* bytes ... is exactly the bug users reported").
OkHasAudio ==
    \A c \in HttpCalls :
        at[c] \in {"pull", "send", "last", "end", "over"} => yielded[c] > 0

\* The closing event says how the engine's generator ended, as far as the gateway
\* can tell: done after the last chunk and no exception, error after one, and no
\* stream of events is over without either (app.py:596-626).  A generator whose
\* backend was lost behind its first chunk ends without an exception
\* (engine_vllm_omini.py:222): its done is false, which is the run EventTruncated.
EventFollowsGenerator ==
    \A c \in HttpCalls :
        /\ event[c] = "done" => stream[c] \in {"ended", "cut"} /\ sent[c] = yielded[c]
        /\ event[c] = "error" => stream[c] = "failed"
        /\ at[c] = "over" /\ shape[c] = "sse" => event[c] # "none"

\* The calls use the scheduler as it is meant to be used: what they do to it is
\* a behaviour of Scheduler, whose theorems hold here too.
SchedulerSpec == Spec

\* A streaming response whose client hung up gives its slot back, even if the
\* backend never answers again (app.py:566-626).
GoneClientFreesSlot ==
    \A c \in HttpCalls :
        conn[c] = "gone" /\ pc[c] = "stream" /\ shape[c] \in Streaming
            ~> pc[c] # "stream"

\* A slot is kept for ever only by a backend that stalls or a client that
\* neither reads nor hangs up: nothing in the gateway bounds either
\* (engine_vllm_omini.py:110, app.py:566-589).
SlotReturns ==
    \A c \in HttpCalls :
        pc[c] \in Holding
            ~> pc[c] \notin Holding \/ stream[c] = "stalled" \/ conn[c] = "stuck"

\* Some call is in the way of all others.
Blocked ==
    Leaked # {} \/ \E c \in HttpCalls : stream[c] = "stalled" \/ conn[c] = "stuck"

\* A call whose client stays gets an answer, unless a slot is kept for ever or
\* the server cancels it.
EveryCallIsAnswered ==
    \A c \in HttpCalls :
        shape[c] # "none"
            ~> at[c] \in Answered \/ conn[c] = "gone" \/ c \in cancelReq \/ Blocked

=============================================================================
