----------------------------- MODULE HttpProofs -----------------------------
(***************************************************************************)
(* POST /v1/audio/speech, proved for any number of sessions, calls, slots  *)
(* and chunks: it uses the scheduler as it is meant to be used, so that the *)
(* theorems of SchedulerProofs hold of it; what outlives a slot; and what   *)
(* its answers say about the engine.                                       *)
(***************************************************************************)
EXTENDS HttpSpeech, SchedulerProofs

-----------------------------------------------------------------------------
(* What a call does to the scheduler.                                       *)

\* A step of a call is a step of the scheduler or leaves it alone.
LEMMA CallsTheScheduler ==
    ASSUME NEW c \in HttpCalls, HandlerStep(c) \/ EngineAnswers(c) \/ EngineStalls(c)
    PROVE  Step(c) \/ Cancel(c) \/ UNCHANGED vars
<1>1. CASE HandlerStep(c)
    BY <1>1
    DEF HandlerStep, Step, Refuse, Asks, Resumes, SendCompletes, LastSent, EndSent,
        ClientStalls, ClientLeaves, ServerCancels, CancelledPulling,
        CancelledSending, Finalized, OrphanCloses, CancelledEarly
<1>2. CASE EngineAnswers(c)
    BY <1>2
    DEF EngineAnswers, Step, EngineYields, FirstChunk, NextChunk, EngineEnds,
        EngineFails, EngineCut, EngineStops, EndsPriming, EndsStream
<1>3. CASE EngineStalls(c)
    BY <1>3 DEF EngineStalls
<1> QED
    BY <1>1, <1>2, <1>3

\* The calls, their clients and the sessions do to the scheduler what Scheduler
\* allows (app.py:501-589, loops.py:238-318).
THEOREM UsesScheduler == HttpSpec => SchedulerSpec
<1>1. HttpInit => Init
    BY DEF HttpInit
<1>2. [HttpNext]_allVars => [Next]_vars
    <2> SUFFICES ASSUME [HttpNext]_allVars PROVE [Next]_vars
        OBVIOUS
    <2>1. ASSUME NEW c \in HttpCalls,
                 HandlerStep(c) \/ EngineAnswers(c) \/ EngineStalls(c)
          PROVE  [Next]_vars
        BY <2>1, CallsTheScheduler DEF Next, Requests
    <2>2. ASSUME NEW s \in Sessions, SessionStep(s)
          PROVE  [Next]_vars
        BY <2>2 DEF SessionStep, Next, Requests
    <2>3. CASE HttpFinished \/ UNCHANGED allVars
        BY <2>3 DEF HttpFinished, allVars
    <2> QED
        BY <2>1, <2>2, <2>3 DEF HttpNext
<1> QED
    BY <1>1, <1>2, PTL DEF HttpSpec, SchedulerSpec, Spec

\* At most max_concurrent sessions and calls hold a slot at a time, whatever
\* clients, backends and the server do (app.py:501-589).
THEOREM HttpBounded == HttpSpec => []BoundedConcurrency
BY UsesScheduler, Bounded DEF SchedulerSpec

-----------------------------------------------------------------------------
(* The invariant of the calls.                                              *)

\* The domains of the variables of this module and of pc.
CallTypes ==
    /\ pc \in [Requests -> PcValues]
    /\ shape \in [HttpCalls -> Shapes \cup {"none"}]
    /\ conn \in [HttpCalls -> {"reads", "stuck", "gone"}]
    /\ stream \in [HttpCalls -> StreamValues]
    /\ yielded \in [HttpCalls -> 0..MaxChunks]
    /\ at \in [HttpCalls -> AtValues]
    /\ sent \in [HttpCalls -> 0..MaxChunks]
    /\ event \in [HttpCalls -> {"none", "done", "error"}]

\* What the invariant says of one call in phase p at place x, of response s to
\* client k, with its generator at g, n chunks yielded and m sent, and event e;
\* z tells whether the server has cancelled it.
Good(p, x, s, k, g, n, m, e, z) ==
    /\ p = "stream" <=> x \in {"pull", "send", "last", "dropped"}
    /\ p \in {"queued", "prime"} => x = "idle"
    /\ p \in {"new", "queued"} => g = "off"
    /\ s = "none" => p = "new"
    /\ g = "off" => n = 0
    /\ g \in {"open", "stalled"} => p \in {"prime", "stream"}
    /\ x = "send" => s \in Streaming
    /\ x = "dropped" => s \in Streaming /\ (k = "gone" \/ z)
    /\ g = "orphan" =>
        p = "done" /\ x = "cut" /\ s \in Streaming /\ (k = "gone" \/ z)
    /\ x \in {"pull", "send", "last", "end", "over"} => n > 0
    /\ x = "last" => s = "sse" /\ g \in {"ended", "cut", "failed"}
    /\ x \in {"pull", "last"} /\ s = "sse" /\ k = "reads" => m = n
    /\ x = "end" /\ s = "sse" /\ k = "reads" => e # "none"
    /\ x = "over" /\ s = "sse" => e # "none"
    /\ e # "none" => x \in {"end", "over", "cut"} /\ g \in {"ended", "cut", "failed"}
    /\ e = "done" => g \in {"ended", "cut"} /\ m = n
    /\ e = "error" => g = "failed"

GoodCall(c) ==
    Good(pc[c], at[c], shape[c], conn[c], stream[c], yielded[c], sent[c], event[c],
         c \in cancelReq)

CallInv == CallTypes /\ \A c \in HttpCalls : GoodCall(c)

\* The invariant implies the checked ones.
LEMMA CallInvSuffices ==
    ASSUME CallInv
    PROVE  HttpTypeOK /\ OnlyDroppedOutlivesSlot /\ OkHasAudio /\ EventFollowsGenerator
BY DEF CallInv, CallTypes, GoodCall, Good, HttpTypeOK, OnlyDroppedOutlivesSlot,
       OkHasAudio, EventFollowsGenerator, Alive, Open, Holding

\* Nothing of the other calls changes.
Others(c) ==
    \A d \in HttpCalls \ {c} :
        /\ pc'[d] = pc[d]           /\ at'[d] = at[d]
        /\ shape'[d] = shape[d]     /\ conn'[d] = conn[d]
        /\ stream'[d] = stream[d]   /\ yielded'[d] = yielded[d]
        /\ sent'[d] = sent[d]       /\ event'[d] = event[d]
        /\ d \in cancelReq' <=> d \in cancelReq

\* A step of one call that keeps its own part keeps the invariant.
LEMMA OneCall ==
    ASSUME CallInv, CallTypes', NEW c \in HttpCalls, Others(c), GoodCall(c)'
    PROVE  CallInv'
<1>1. ASSUME NEW d \in HttpCalls, d # c
      PROVE  GoodCall(d)'
    BY <1>1 DEF CallInv, GoodCall, Others
<1> QED
    BY <1>1 DEF CallInv

\* What the scheduler's operations do to the phase of a call.
LEMMA Phases ==
    ASSUME NEW c \in HttpCalls
    PROVE  /\ Ask(c) => /\ pc[c] = "new"
                        /\ \E p \in {"queued", "prime"} : pc' = [pc EXCEPT ![c] = p]
           /\ Resume(c) => pc[c] = "queued" /\ pc' = [pc EXCEPT ![c] = "prime"]
           /\ CancelledInLine(c) => pc[c] = "queued" /\ pc' = [pc EXCEPT ![c] = "done"]
           /\ Cancel(c) =>
                \/ pc' = pc
                \/ pc[c] = "new" /\ pc' = [pc EXCEPT ![c] = "done"]
           /\ Release(c) => pc[c] \in Holding /\ pc' = [pc EXCEPT ![c] = "done"]
           /\ StartStream(c) => pc[c] = "prime" /\ pc' = [pc EXCEPT ![c] = "stream"]
           /\ CancelledPriming(c) => pc[c] = "prime" /\ pc' = [pc EXCEPT ![c] = "leaked"]
<1>1. FirstPhase(c) = "prime"
    BY SchedulerAssumption DEF FirstPhase
<1> QED
    BY <1>1 DEF Ask, Resume, CancelledInLine, Cancel, Release, StartStream,
                CancelledPriming

\* Only Cancel asks for a cancellation, and none is taken back.
LEMMA Requested ==
    ASSUME NEW c \in HttpCalls
    PROVE  /\ Cancel(c) => cancelReq' = cancelReq \cup {c}
           /\ Ask(c) \/ Resume(c) \/ CancelledInLine(c) \/ Release(c)
                \/ StartStream(c) \/ CancelledPriming(c) => cancelReq' = cancelReq
BY DEF Ask, Resume, CancelledInLine, Cancel, Release, StartStream, CancelledPriming

-----------------------------------------------------------------------------
(* Each step of a call keeps the invariant.                                 *)

\* Refused before a slot is taken.
LEMMA RefuseKeeps ==
    ASSUME CallInv, NEW c \in HttpCalls, Refuse(c)
    PROVE  CallInv' /\ Others(c)
<1> USE DEF Refuse, vars
<1>1. CallTypes'
    BY HttpAssumption
    DEF CallInv, CallTypes, Requests, PcValues, Holding, AtValues, Answered,
        StreamValues, Shapes, Streaming
<1>2. Others(c)
    BY HttpAssumption DEF CallInv, CallTypes, Others, Requests
<1>3. GoodCall(c)'
    BY HttpAssumption DEF CallInv, CallTypes, GoodCall, Good, Requests, Holding
<1> QED
    BY <1>1, <1>2, <1>3, OneCall

\* A request joins the line or gets a slot.
LEMMA AsksKeeps ==
    ASSUME CallInv, NEW c \in HttpCalls, NEW s \in Shapes, Asks(c, s)
    PROVE  CallInv' /\ Others(c)
<1> USE DEF Asks, Begins
<1>1. CallTypes'
    BY Phases, Requested, HttpAssumption
    DEF CallInv, CallTypes, Requests, PcValues, Holding, AtValues, Answered,
        StreamValues, Shapes, Streaming
<1>2. Others(c)
    BY Phases, Requested, HttpAssumption DEF CallInv, CallTypes, Others, Requests
<1>3. GoodCall(c)'
    BY Phases, Requested, HttpAssumption
    DEF CallInv, CallTypes, GoodCall, Good, Requests, Holding,
        Shapes, Streaming
<1> QED
    BY <1>1, <1>2, <1>3, OneCall

\* The slot comes.
LEMMA ResumesKeeps ==
    ASSUME CallInv, NEW c \in HttpCalls, Resumes(c)
    PROVE  CallInv' /\ Others(c)
<1> USE DEF Resumes, Begins
<1>1. CallTypes'
    BY Phases, Requested, HttpAssumption
    DEF CallInv, CallTypes, Requests, PcValues, Holding, AtValues, Answered,
        StreamValues, Shapes, Streaming
<1>2. Others(c)
    BY Phases, Requested, HttpAssumption DEF CallInv, CallTypes, Others, Requests
<1>3. GoodCall(c)'
    BY Phases, Requested, HttpAssumption
    DEF CallInv, CallTypes, GoodCall, Good, Requests, Holding
<1> QED
    BY <1>1, <1>2, <1>3, OneCall

\* A chunk arrives, the first or another.
LEMMA YieldsKeeps ==
    ASSUME CallInv, NEW c \in HttpCalls, EngineYields(c)
    PROVE  CallInv' /\ Others(c)
<1> USE DEF EngineYields, FirstChunk, NextChunk, Pulling, vars
<1>1. CallTypes'
    BY Phases, Requested, HttpAssumption
    DEF CallInv, CallTypes, Requests, PcValues, Holding, AtValues, Answered,
        StreamValues, Shapes, Streaming
<1>2. Others(c)
    BY Phases, Requested, HttpAssumption DEF CallInv, CallTypes, Others, Requests
<1>3. GoodCall(c)'
    BY Phases, Requested, HttpAssumption
    DEF CallInv, CallTypes, GoodCall, Good, Requests, Holding, Shapes, Streaming
<1> QED
    BY <1>1, <1>2, <1>3, OneCall

\* The generator ends before its first chunk.
LEMMA PrimingEndsKeeps ==
    ASSUME CallInv, NEW c \in HttpCalls, stream[c] = "open", NEW how \in {"ended", "failed", "cut"}, EndsPriming(c, how)
    PROVE  CallInv' /\ Others(c)
<1> USE DEF EndsPriming
<1>1. CallTypes'
    BY Phases, Requested, HttpAssumption
    DEF CallInv, CallTypes, Requests, PcValues, Holding, AtValues, Answered,
        StreamValues, Shapes, Streaming
<1>2. Others(c)
    BY Phases, Requested, HttpAssumption DEF CallInv, CallTypes, Others, Requests
<1>3. GoodCall(c)'
    BY Phases, Requested, HttpAssumption
    DEF CallInv, CallTypes, GoodCall, Good, Requests, Holding
<1> QED
    BY <1>1, <1>2, <1>3, OneCall

\* The generator ends behind a chunk.
LEMMA StreamEndsKeeps ==
    ASSUME CallInv, NEW c \in HttpCalls, stream[c] = "open", NEW how \in {"ended", "failed", "cut"}, EndsStream(c, how)
    PROVE  CallInv' /\ Others(c)
<1> USE DEF EndsStream, Pulling, vars
<1>1. CallTypes'
    BY Phases, Requested, HttpAssumption
    DEF CallInv, CallTypes, Requests, PcValues, Holding, AtValues, Answered,
        StreamValues, Shapes, Streaming
<1>2. Others(c)
    BY Phases, Requested, HttpAssumption DEF CallInv, CallTypes, Others, Requests
<1>3. GoodCall(c)'
    BY Phases, Requested, HttpAssumption
    DEF CallInv, CallTypes, GoodCall, Good, Requests, Holding
<1> QED
    BY <1>1, <1>2, <1>3, OneCall

\* A chunk or the end of the body is sent.
LEMMA SendKeeps ==
    ASSUME CallInv, NEW c \in HttpCalls, SendCompletes(c) \/ EndSent(c)
    PROVE  CallInv' /\ Others(c)
<1> USE DEF SendCompletes, EndSent, Got, vars
<1>1. CallTypes'
    BY HttpAssumption
    DEF CallInv, CallTypes, Requests, PcValues, Holding, AtValues, Answered,
        StreamValues, Shapes, Streaming
<1>2. Others(c)
    BY HttpAssumption DEF CallInv, CallTypes, Others, Requests
<1>3. GoodCall(c)'
    BY HttpAssumption DEF CallInv, CallTypes, GoodCall, Good, Requests, Holding
<1> QED
    BY <1>1, <1>2, <1>3, OneCall

\* The closing event is sent.
LEMMA LastKeeps ==
    ASSUME CallInv, NEW c \in HttpCalls, LastSent(c)
    PROVE  CallInv' /\ Others(c)
<1> USE DEF LastSent, ClosingEvent
<1>1. CallTypes'
    BY Phases, Requested, HttpAssumption
    DEF CallInv, CallTypes, Requests, PcValues, Holding, AtValues, Answered,
        StreamValues, Shapes, Streaming
<1>2. Others(c)
    BY Phases, Requested, HttpAssumption DEF CallInv, CallTypes, Others, Requests
<1>3. GoodCall(c)'
    BY Phases, Requested, HttpAssumption
    DEF CallInv, CallTypes, GoodCall, Good, Requests, Holding
<1> QED
    BY <1>1, <1>2, <1>3, OneCall

\* The client or the backend stops.
LEMMA ClientKeeps ==
    ASSUME CallInv, NEW c \in HttpCalls, ClientStalls(c) \/ ClientLeaves(c) \/ EngineStalls(c)
    PROVE  CallInv' /\ Others(c)
<1> USE DEF ClientStalls, ClientLeaves, EngineStalls, Live, vars
<1>1. CallTypes'
    BY HttpAssumption
    DEF CallInv, CallTypes, Requests, PcValues, Holding, AtValues, Answered,
        StreamValues, Shapes, Streaming
<1>2. Others(c)
    BY HttpAssumption DEF CallInv, CallTypes, Others, Requests
<1>3. GoodCall(c)'
    BY HttpAssumption DEF CallInv, CallTypes, GoodCall, Good, Requests, Holding
<1> QED
    BY <1>1, <1>2, <1>3, OneCall

\* The server cancels the task.
LEMMA CancelKeeps ==
    ASSUME CallInv, NEW c \in HttpCalls, ServerCancels(c)
    PROVE  CallInv' /\ Others(c)
<1> USE DEF ServerCancels, httpVars
<1>1. CallTypes'
    BY Phases, Requested, HttpAssumption
    DEF CallInv, CallTypes, Requests, PcValues, Holding, AtValues, Answered,
        StreamValues, Shapes, Streaming
<1>2. Others(c)
    BY Phases, Requested, HttpAssumption DEF CallInv, CallTypes, Others, Requests
<1>3. GoodCall(c)'
    BY Phases, Requested, HttpAssumption
    DEF CallInv, CallTypes, GoodCall, Good, Requests, Holding
<1> QED
    BY <1>1, <1>2, <1>3, OneCall

\* The response task is cancelled.
LEMMA CancelledKeeps ==
    ASSUME CallInv, NEW c \in HttpCalls, CancelledPulling(c) \/ CancelledSending(c)
    PROVE  CallInv' /\ Others(c)
<1> USE DEF CancelledPulling, CancelledSending, Open, vars
<1>1. CallTypes'
    BY Phases, Requested, HttpAssumption
    DEF CallInv, CallTypes, Requests, PcValues, Holding, AtValues, Answered,
        StreamValues, Shapes, Streaming
<1>2. Others(c)
    BY Phases, Requested, HttpAssumption DEF CallInv, CallTypes, Others, Requests
<1>3. GoodCall(c)'
    BY Phases, Requested, HttpAssumption
    DEF CallInv, CallTypes, GoodCall, Good, Requests, Holding, Streaming, Noticed
<1> QED
    BY <1>1, <1>2, <1>3, OneCall

\* A dropped generator is closed.
LEMMA FinalizedKeeps ==
    ASSUME CallInv, NEW c \in HttpCalls, Finalized(c) \/ OrphanCloses(c)
    PROVE  CallInv' /\ Others(c)
<1> USE DEF Finalized, OrphanCloses, Open, vars
<1>1. CallTypes'
    BY Phases, Requested, HttpAssumption
    DEF CallInv, CallTypes, Requests, PcValues, Holding, AtValues, Answered,
        StreamValues, Shapes, Streaming
<1>2. Others(c)
    BY Phases, Requested, HttpAssumption DEF CallInv, CallTypes, Others, Requests
<1>3. GoodCall(c)'
    BY Phases, Requested, HttpAssumption
    DEF CallInv, CallTypes, GoodCall, Good, Requests, Holding
<1> QED
    BY <1>1, <1>2, <1>3, OneCall

\* The handler is cancelled before it answers.
LEMMA EarlyKeeps ==
    ASSUME CallInv, NEW c \in HttpCalls, CancelledEarly(c)
    PROVE  CallInv' /\ Others(c)
<1> USE DEF CancelledEarly
<1>1. CallTypes'
    BY Phases, Requested, HttpAssumption
    DEF CallInv, CallTypes, Requests, PcValues, Holding, AtValues, Answered,
        StreamValues, Shapes, Streaming
<1>2. Others(c)
    BY Phases, Requested, HttpAssumption DEF CallInv, CallTypes, Others, Requests
<1>3. GoodCall(c)'
    BY Phases, Requested, HttpAssumption
    DEF CallInv, CallTypes, GoodCall, Good, Requests, Holding
<1> QED
    BY <1>1, <1>2, <1>3, OneCall

-----------------------------------------------------------------------------
(* The theorems.                                                            *)

\* What a session does is nothing to the calls.
LEMMA SessionKeeps ==
    ASSUME CallInv, NEW s \in Sessions, SessionStep(s)
    PROVE  CallInv'
<1>1. /\ \A c \in HttpCalls : pc'[c] = pc[c] /\ (c \in cancelReq' <=> c \in cancelReq)
      /\ pc' \in [Requests -> PcValues]
    BY SchedulerAssumption
    DEF SessionStep, Step, Cancel, Ask, Resume, CancelledInLine, Release,
        StartStream, CancelledPriming, CallInv, CallTypes, Requests, PcValues,
        Holding, FirstPhase
<1>2. UNCHANGED httpVars
    BY DEF SessionStep
<1>3. ASSUME NEW c \in HttpCalls
      PROVE  GoodCall(c)'
    BY <1>1, <1>2, <1>3 DEF CallInv, GoodCall, httpVars
<1> QED
    BY <1>1, <1>2, <1>3 DEF CallInv, CallTypes, httpVars

\* A step of a call keeps the invariant and does nothing to other calls.
LEMMA CallKeeps ==
    ASSUME CallInv, NEW c \in HttpCalls,
           HandlerStep(c) \/ EngineAnswers(c) \/ EngineStalls(c)
    PROVE  CallInv' /\ Others(c)
<1>1. CASE HandlerStep(c)
    BY <1>1, RefuseKeeps, AsksKeeps, ResumesKeeps, SendKeeps, LastKeeps,
       ClientKeeps, CancelKeeps, CancelledKeeps, FinalizedKeeps, EarlyKeeps
    DEF HandlerStep
<1>2. CASE EngineAnswers(c) \/ EngineStalls(c)
    BY <1>2, YieldsKeeps, PrimingEndsKeeps, StreamEndsKeeps, ClientKeeps
    DEF EngineAnswers, EngineEnds, EngineFails, EngineCut, EngineStops
<1> QED
    BY <1>1, <1>2

\* The inductive invariant of the calls.
THEOREM CallInvariance == HttpSpec => []CallInv
<1>1. HttpInit => CallInv
    <2> SUFFICES ASSUME HttpInit PROVE CallInv
        OBVIOUS
    <2>1. CallTypes
        BY HttpAssumption
        DEF HttpInit, Init, CallTypes, Requests, PcValues, Shapes, Streaming,
            StreamValues, AtValues
    <2>2. ASSUME NEW c \in HttpCalls
          PROVE  GoodCall(c)
        BY <2>2 DEF HttpInit, Init, GoodCall, Good, Requests
    <2> QED
        BY <2>1, <2>2 DEF CallInv
<1>2. CallInv /\ [HttpNext]_allVars => CallInv'
    <2> SUFFICES ASSUME CallInv, [HttpNext]_allVars PROVE CallInv'
        OBVIOUS
    <2>1. CASE UNCHANGED allVars
        BY <2>1 DEF allVars, vars, httpVars, CallInv, CallTypes, GoodCall
    <2>2. CASE HttpNext
        BY <2>1, <2>2, CallKeeps, SessionKeeps DEF HttpNext, HttpFinished
    <2> QED
        BY <2>1, <2>2
<1> QED
    BY <1>1, <1>2, PTL DEF HttpSpec

\* Types, and the handler's place in step with its request's phase
\* (app.py:472-645).
THEOREM HttpTypes == HttpSpec => []HttpTypeOK
BY CallInvariance, CallInvSuffices, PTL

\* An engine generator that is not closed belongs to a call with a slot, or is
\* that of a streaming response cancelled at a send, which returned its slot
\* first (app.py:501-626).
THEOREM OnlyDropped == HttpSpec => []OnlyDroppedOutlivesSlot
BY CallInvariance, CallInvSuffices, PTL

\* No 200 response starts before the first chunk (app.py:528-564).
THEOREM AudioFirst == HttpSpec => []OkHasAudio
BY CallInvariance, CallInvSuffices, PTL

\* The closing event of server-sent events follows the end of the generator:
\* error after an exception, done after the last chunk otherwise, which includes
\* a backend lost on the way (app.py:596-626, engine_vllm_omini.py:222).
THEOREM EventFollows == HttpSpec => []EventFollowsGenerator
BY CallInvariance, CallInvSuffices, PTL

=============================================================================
