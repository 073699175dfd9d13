---------------------------- MODULE EngineStreams ----------------------------
(***************************************************************************)
(* stream_tts() and abort() of the production engine: RoutingEngine        *)
(* (engine_routing.py), which forwards each request to one of two          *)
(* VllmOminiEngines (engine_vllm_omini.py).  A stream is two nested async   *)
(* generators, each with a registry entry that its finally removes:        *)
(* _routed of the router, set at the first step, and _active of the        *)
(* backend, set when the response headers arrive.  abort() runs in another *)
(* task and finds the stream through these entries.                        *)
(*                                                                         *)
(* Request ids are unique (RequestIdFactory, app.py:208-216), so a request *)
(* is its id.  Abstracted: the payload, and the other state of a session   *)
(* (Session.tla).  httpx is external: closing a response makes its reader  *)
(* raise one of the exceptions caught at engine_vllm_omini.py:222.         *)
(***************************************************************************)
EXTENDS FiniteSets

CONSTANT Requests

Backends == {"fast", "instruct"}

VARIABLES
    pc,         \* where the stream of each request is suspended
    routed,     \* RoutingEngine._routed, "none" for no entry
    active,     \* the backend whose _active has an entry, or "none"
    resp,       \* the HTTP response: "none", "open" or "closed"
    aborting,   \* abort(): "no", "aclose" while it closes, "done"
    outcome     \* how the stream ended for its consumer, "none" before

vars == <<pc, routed, active, resp, aborting, outcome>>

\* "gather" awaits text, "connect" the response headers, "refused" the body
\* of an error response, "stream" a chunk; at "yield" the consumer has one;
\* an "abandoned" generator is dropped at its yield, and so is the backend's
\* ("orphan") when the router's is closed; "closing" awaits aclose().
PcValues == {"idle", "gather", "connect", "refused", "stream", "yield",
             "abandoned", "orphan", "closing", "over"}

Init ==
    /\ pc = [r \in Requests |-> "idle"]
    /\ routed = [r \in Requests |-> "none"]
    /\ active = [r \in Requests |-> "none"]
    /\ resp = [r \in Requests |-> "none"]
    /\ aborting = [r \in Requests |-> "no"]
    /\ outcome = [r \in Requests |-> "none"]

-----------------------------------------------------------------------------
(* How a stream ends.                                                       *)

\* Before there is a response: the router's finally.
EndsEarly(r, how) ==
    /\ pc' = [pc EXCEPT ![r] = "over"]
    /\ routed' = [routed EXCEPT ![r] = "none"]
    /\ outcome' = [outcome EXCEPT ![r] = how]
    /\ UNCHANGED <<active, resp, aborting>>

\* Mutant of Unwinds: the entry of the backend stays.
UnwindsWithoutPop(r, how) ==
    /\ pc' = [pc EXCEPT ![r] = "closing"]
    /\ outcome' = [outcome EXCEPT ![r] = how]
    /\ UNCHANGED <<routed, active, resp, aborting>>

\* With a response: the backend's finally up to its await of aclose().
Unwinds(r, how) ==
    /\ pc' = [pc EXCEPT ![r] = "closing"]
    /\ active' = [active EXCEPT ![r] = "none"]
    /\ outcome' = [outcome EXCEPT ![r] = how]
    /\ UNCHANGED <<routed, resp, aborting>>

\* aclose() is over, normally or cancelled: then the router's finally.
Closed(r) ==
    /\ pc[r] = "closing"
    /\ pc' = [pc EXCEPT ![r] = "over"]
    /\ resp' = [resp EXCEPT ![r] = "closed"]
    /\ routed' = [routed EXCEPT ![r] = "none"]
    /\ UNCHANGED <<active, aborting, outcome>>

-----------------------------------------------------------------------------
(* The stream.                                                              *)

\* The first step: _pick and the routing entry, then the wait for text.
Begins(r) ==
    /\ pc[r] = "idle"
    /\ pc' = [pc EXCEPT ![r] = "gather"]
    /\ \E b \in Backends : routed' = [routed EXCEPT ![r] = b]
    /\ UNCHANGED <<active, resp, aborting, outcome>>

\* The text is complete; without any, the stream ends without audio.
TextComplete(r) ==
    /\ pc[r] = "gather"
    /\ \/ EndsEarly(r, "ended")
       \/ /\ pc' = [pc EXCEPT ![r] = "connect"]
          /\ UNCHANGED <<routed, active, resp, aborting, outcome>>

\* Headers arrived and the response is registered; a status other than 200
\* has its body read first.
HeadersArrive(r) ==
    /\ pc[r] = "connect"
    /\ \E next \in {"stream", "refused"} : pc' = [pc EXCEPT ![r] = next]
    /\ active' = [active EXCEPT ![r] = routed[r]]
    /\ resp' = [resp EXCEPT ![r] = "open"]
    /\ UNCHANGED <<routed, aborting, outcome>>

ConnectFails(r) ==
    /\ pc[r] = "connect"
    /\ EndsEarly(r, "failed")

Refused(r) ==
    /\ pc[r] = "refused"
    /\ resp[r] = "open"
    /\ Unwinds(r, "failed")

\* A chunk.  A session takes it and asks for the next without suspending, or
\* leaves its loop; an HTTP call writes it to its client first.
Yields(r) ==
    /\ pc[r] = "stream"
    /\ resp[r] = "open"
    /\ \E next \in {"yield", "abandoned"} : pc' = [pc EXCEPT ![r] = next]
    /\ UNCHANGED <<routed, active, resp, aborting, outcome>>

Pulls(r) ==
    /\ pc[r] = "yield"
    /\ pc' = [pc EXCEPT ![r] = "stream"]
    /\ UNCHANGED <<routed, active, resp, aborting, outcome>>

\* The response is complete.
Completes(r) ==
    /\ pc[r] = "stream"
    /\ resp[r] = "open"
    /\ Unwinds(r, "ended")

\* The response was closed by abort(): the exception is swallowed.
SeesClosed(r) ==
    /\ pc[r] \in {"stream", "refused"}
    /\ resp[r] = "closed"
    /\ Unwinds(r, "ended")

\* The connection broke: the same exceptions, swallowed all the same.
ConnectionBreaks(r) ==
    /\ pc[r] \in {"stream", "refused"}
    /\ resp[r] = "open"
    /\ Unwinds(r, "ended")

\* Mutant of Cancelled: a dropped generator is never finalized.
CancelledForgets(r) ==
    \/ /\ pc[r] \in {"gather", "connect"}
       /\ EndsEarly(r, "cancelled")
    \/ /\ pc[r] \in {"stream", "refused", "yield"}
       /\ pc' = [pc EXCEPT ![r] = "over"]
       /\ outcome' = [outcome EXCEPT ![r] = "cancelled"]
       /\ UNCHANGED <<routed, active, resp, aborting>>

\* The consumer's task is cancelled: CancelledError at the await of the
\* stream, or, at a yield, the generator is dropped.
Cancelled(r) ==
    \/ /\ pc[r] \in {"gather", "connect"}
       /\ EndsEarly(r, "cancelled")
    \/ /\ pc[r] \in {"stream", "refused"}
       /\ Unwinds(r, "cancelled")
    \/ /\ pc[r] = "yield"
       /\ pc' = [pc EXCEPT ![r] = "abandoned"]
       /\ UNCHANGED <<routed, active, resp, aborting, outcome>>

\* asyncio closes a dropped generator in a task of its own: first the router's,
\* whose finally drops the backend's.
RouterFinalized(r) ==
    /\ pc[r] = "abandoned"
    /\ pc' = [pc EXCEPT ![r] = "orphan"]
    /\ routed' = [routed EXCEPT ![r] = "none"]
    /\ UNCHANGED <<active, resp, aborting, outcome>>

BackendFinalized(r) ==
    /\ pc[r] = "orphan"
    /\ Unwinds(r, "cancelled")

-----------------------------------------------------------------------------
(* abort().                                                                 *)

\* Mutant of Targets: an id without routing entry is ignored.
RoutedOnly(r) == {routed[r]} \ {"none"}

\* The backends abort() asks: the one routed to, or both.
Targets(r) == IF routed[r] # "none" THEN {routed[r]} ELSE Backends

\* Mutant of Abort: the response is not closed.
AbortForgets(r) ==
    /\ aborting[r] = "no"
    /\ \/ /\ active[r] \in Targets(r)
          /\ aborting' = [aborting EXCEPT ![r] = "aclose"]
       \/ /\ active[r] \notin Targets(r)
          /\ aborting' = [aborting EXCEPT ![r] = "done"]
    /\ UNCHANGED <<pc, routed, active, resp, outcome>>

\* abort() up to its await of aclose(), which marks the response closed first;
\* without an entry in _active it returns at once.
Abort(r) ==
    /\ aborting[r] = "no"
    /\ \/ /\ active[r] \in Targets(r)
          /\ resp' = [resp EXCEPT ![r] = "closed"]
          /\ aborting' = [aborting EXCEPT ![r] = "aclose"]
       \/ /\ active[r] \notin Targets(r)
          /\ aborting' = [aborting EXCEPT ![r] = "done"]
          /\ UNCHANGED resp
    /\ UNCHANGED <<pc, routed, active, outcome>>

AbortReturns(r) ==
    /\ aborting[r] = "aclose"
    /\ aborting' = [aborting EXCEPT ![r] = "done"]
    /\ UNCHANGED <<pc, routed, active, resp, outcome>>

\* What needs neither the backend nor the consumer nor a cancellation.
Local(r) ==
    \/ SeesClosed(r) \/ Closed(r)
    \/ RouterFinalized(r) \/ BackendFinalized(r)

Stream(r) ==
    \/ Begins(r) \/ TextComplete(r) \/ HeadersArrive(r) \/ ConnectFails(r)
    \/ Refused(r) \/ Yields(r) \/ Pulls(r) \/ Completes(r)
    \/ ConnectionBreaks(r) \/ Cancelled(r)

\* Every stream is over and has been aborted, which changed nothing.
Finished ==
    /\ \A r \in Requests : pc[r] = "over" /\ aborting[r] = "done"
    /\ UNCHANGED vars

Next ==
    \/ \E r \in Requests : Stream(r) \/ Local(r) \/ Abort(r) \/ AbortReturns(r)
    \/ Finished

Spec == Init /\ [][Next]_vars

\* Tasks that can run do, and a consumer that has a chunk takes the next.
Fairness ==
    \A r \in Requests : WF_vars(Local(r)) /\ WF_vars(Pulls(r))

FairSpec == Spec /\ Fairness

-----------------------------------------------------------------------------
(* Properties.                                                              *)

Registered == {"refused", "stream", "yield", "abandoned", "orphan"}

\* Types; a response is registered from its headers to the finally.
TypeOK ==
    /\ pc \in [Requests -> PcValues]
    /\ routed \in [Requests -> Backends \cup {"none"}]
    /\ active \in [Requests -> Backends \cup {"none"}]
    /\ resp \in [Requests -> {"none", "open", "closed"}]
    /\ aborting \in [Requests -> {"no", "aclose", "done"}]
    /\ outcome \in [Requests -> {"none", "ended", "failed", "cancelled"}]
    /\ \A r \in Requests : active[r] # "none" <=> pc[r] \in Registered

\* A stream that is over has left nothing behind: no entry in either registry
\* and no open connection, wherever it was cancelled, dropped or aborted
\* (engine_vllm_omini.py:228-235, engine_routing.py:101-102).
NothingLeft ==
    \A r \in Requests : pc[r] = "over" =>
        routed[r] = "none" /\ active[r] = "none" /\ resp[r] # "open"

\* abort() finds every open response that its stream is not closing already,
\* also in the window in which a dropped stream has lost its routing entry and
\* not yet its connection (engine_routing.py:104-114).
OpenIsFindable ==
    \A r \in Requests : resp[r] = "open" /\ pc[r] # "closing" =>
        active[r] \in Targets(r)

\* The inductive strengthening of the two.
RoutedFrom ==
    \A r \in Requests :
        /\ pc[r] \in {"gather", "connect"} => routed[r] # "none"
        /\ active[r] # "none" /\ routed[r] # "none" => active[r] = routed[r]
        /\ pc[r] \in {"idle", "gather", "connect"} => resp[r] = "none"

Inv == TypeOK /\ RoutedFrom /\ NothingLeft /\ OpenIsFindable

\* An aborted response ends its stream whatever the backend does, with nothing
\* but the consumer taking the chunk it was given (engine.py:17-18).
AbortEnds ==
    \A r \in Requests : aborting[r] = "aclose" ~> pc[r] = "over"

=============================================================================
