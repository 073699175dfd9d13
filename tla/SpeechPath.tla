----------------------------- MODULE SpeechPath -----------------------------
(***************************************************************************)
(* The path of an HTTP request through the gateway and its two backends:   *)
(* RoutingEngine gives a call with instructions to cosyvoice-svc, here the *)
(* WorkerBridge, and any other to a backend known only by the engine       *)
(* contract of HttpSpeech.  A chunk crosses from the bridge into the       *)
(* gateway in one joint step of Read and EngineYields.                     *)
(***************************************************************************)
EXTENDS HttpSpeech

CONSTANTS
    QueueCap,  \* maxsize of the service's queue
    NetCap     \* what its connection takes before a send waits

ASSUME PathAssumption ==
    /\ QueueCap \in Nat \ {0}
    /\ NetCap \in Nat \ {0}

VARIABLES
    instructed,                       \* calls with instructions
    wpc, made, q, cpc, hand, net      \* the service, see WorkerBridge

svcVars == <<wpc, made, q, cpc, hand, net>>
pathVars == <<allVars, instructed, svcVars>>

Svc == INSTANCE WorkerBridge WITH Calls <- HttpCalls

PathInit == HttpInit /\ Svc!SvcInit /\ instructed = {}

-----------------------------------------------------------------------------
(* VllmOminiEngine.stream_tts as the client of cosyvoice-svc.               *)

\* The request is sent and its headers come back.
Connects(c) ==
    /\ c \in instructed
    /\ stream[c] = "open"
    /\ Svc!Accept(c)
    /\ UNCHANGED <<allVars, instructed>>

\* A text of spaces is not sent to any backend.
SaysNothing(c) ==
    /\ c \in instructed
    /\ cpc[c] = "off"
    /\ EngineEnds(c)
    /\ UNCHANGED <<instructed, svcVars>>

\* No connection, or a status other than 200: an exception, which names no voice.
ConnectFails(c) ==
    /\ c \in instructed
    /\ cpc[c] = "off"
    /\ EngineFails(c)
    /\ at'[c] = "failed"
    /\ UNCHANGED <<instructed, svcVars>>

\* aiter_bytes() has a chunk and its consumer asks for one, or finds the end.
ChunkArrives(c) == Svc!Read(c) /\ EngineYields(c) /\ UNCHANGED instructed
BodyEnds(c) == Svc!ReadEnd(c) /\ EngineEnds(c) /\ UNCHANGED instructed

\* The connection broke with the service; stream_tts swallows the exception.
Breaks(c) ==
    /\ cpc[c] = "dead"
    /\ EngineCut(c)
    /\ UNCHANGED <<instructed, svcVars>>

\* The generator has closed the response: the service sees the connection go.
HangsUp(c) ==
    /\ stream[c] = "closed"
    /\ Svc!PeerGone(c)
    /\ UNCHANGED <<allVars, instructed>>

Reading(c) == ChunkArrives(c) \/ BodyEnds(c) \/ Breaks(c)

-----------------------------------------------------------------------------
(* The specification.                                                       *)

\* A step of the gateway alone; the request says whether it has instructions.
GatewayStep(c) ==
    /\ HandlerStep(c)
    /\ \/ instructed' = instructed
       \/ shape[c] = "none" /\ shape'[c] # "none" /\ instructed' = instructed \cup {c}
    /\ UNCHANGED svcVars

\* The other backend.
FastStep(c) ==
    /\ c \notin instructed
    /\ EngineAnswers(c)
    /\ UNCHANGED <<instructed, svcVars>>

FastStalls(c) ==
    /\ c \notin instructed
    /\ EngineStalls(c)
    /\ UNCHANGED <<instructed, svcVars>>

ServiceStep(c) ==
    /\ Svc!Synthesizes(c) \/ Svc!Puts(c) \/ Svc!Gets(c) \/ Svc!Sends(c)
    /\ UNCHANGED <<allVars, instructed>>

ServiceCrashes == Svc!Crash /\ UNCHANGED <<allVars, instructed>>

PathNext ==
    \/ \E c \in HttpCalls :
        \/ GatewayStep(c) \/ FastStep(c) \/ FastStalls(c)
        \/ Connects(c) \/ SaysNothing(c) \/ ConnectFails(c) \/ Reading(c)
        \/ HangsUp(c) \/ ServiceStep(c)
    \/ ServiceCrashes
    \/ \E s \in Sessions : SessionStep(s) /\ UNCHANGED <<instructed, svcVars>>
    \/ HttpFinished /\ UNCHANGED <<instructed, svcVars>>

PathSpec == PathInit /\ [][PathNext]_pathVars

\* No step outside the gateway's handlers.
Alone == UNCHANGED <<instructed, svcVars>>

\* Every task of the gateway runs, its event loop finalizes dropped generators,
\* a client that reads takes what is sent, a session is closed after
\* max_session_s; a backend that has not stalled goes on, and so do the model,
\* the threads and the tasks of the service.
PathFairness ==
    /\ \A c \in HttpCalls :
        /\ WF_pathVars((Resumes(c) \/ CancelledEarly(c)) /\ Alone)
        /\ WF_pathVars((SendCompletes(c) \/ LastSent(c) \/ EndSent(c)) /\ Alone)
        /\ WF_pathVars((CancelledPulling(c) \/ CancelledSending(c)) /\ Alone)
        /\ WF_pathVars((Finalized(c) \/ OrphanCloses(c)) /\ Alone)
        /\ WF_pathVars(FastStep(c) \/ Connects(c) \/ SaysNothing(c) \/ ConnectFails(c)
                        \/ Reading(c))
        /\ WF_pathVars(HangsUp(c))
        /\ WF_pathVars((Svc!Synthesizes(c) \/ Svc!Puts(c))
                        /\ UNCHANGED <<allVars, instructed>>)
        /\ WF_pathVars((Svc!Gets(c) \/ Svc!Sends(c))
                        /\ UNCHANGED <<allVars, instructed>>)
    /\ \A s \in Sessions :
        /\ WF_pathVars((Resume(s) \/ CancelledInLine(s)) /\ UNCHANGED httpVars /\ Alone)
        /\ WF_pathVars(Release(s) /\ UNCHANGED httpVars /\ Alone)

PathFairSpec == PathSpec /\ PathFairness

-----------------------------------------------------------------------------
(* Properties.                                                              *)

\* Types of the gateway and of the service, the bounds of its queue and its
\* connection included.
PathTypeOK == HttpTypeOK /\ Svc!SvcTypeOK /\ instructed \subseteq HttpCalls

\* The chunks made and not read yet, and the end behind them.
Unread(c) == [i \in 1..(made[c] - yielded[c]) |-> yielded[c] + i]
UnreadEnd(c) ==
    IF wpc[c] \in {"last", "done"} /\ stream[c] = "open" THEN <<Svc!SENTINEL>> ELSE <<>>

\* Between the model and the gateway nothing is lost, doubled or reordered while
\* the service lives, and a body that ended ends after the last chunk made
\* (cosyvoice_service/app.py:315-336).
BridgeInOrder ==
    \A c \in instructed :
        stream[c] \in {"open", "ended"} /\ cpc[c] # "dead" =>
            Svc!InFlight(c) = Unread(c) \o UnreadEnd(c)

\* The response task of the service runs.
Serving(c) == cpc[c] \in {"get", "send", "fin"}

\* A client that leaves a streaming response stops the service's response task,
\* through the cancelled task of the gateway, or its dropped generator and, after
\* the slot is back, the engine's (app.py:566-626, engine_vllm_omini.py:228-235).
GoneClientStopsService ==
    \A c \in HttpCalls :
        (conn[c] = "gone" /\ shape[c] \in Streaming /\ Serving(c)) ~> ~Serving(c)

\* A worker thread ends, unless its reader is there and does not read, or is gone
\* and the queue is full: then it blocks for ever, and no call of the gateway
\* can reach it (cosyvoice_service/app.py:315-331).
WorkerEndsOrBlocks ==
    \A c \in HttpCalls :
        wpc[c] \notin {"off", "done", "dead"}
            ~> \/ wpc[c] \in {"done", "dead"}
               \/ cpc[c] = "gone" /\ Len(q[c]) = QueueCap
               \/ conn[c] = "stuck"

=============================================================================
