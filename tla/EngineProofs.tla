----------------------------- MODULE EngineProofs -----------------------------
(***************************************************************************)
(* The registries of the engine and abort(), proved for any number of       *)
(* requests.                                                                *)
(***************************************************************************)
EXTENDS EngineStreams, TLAPS

\* What the invariant says of one request, with its routing entry d, backend
\* entry a and response p at the place x of the stream.
Good(x, d, a, p) ==
    /\ x \in PcValues
    /\ d \in Backends \cup {"none"}
    /\ a \in Backends \cup {"none"}
    /\ p \in {"none", "open", "closed"}
    /\ a # "none" <=> x \in Registered
    /\ x \in {"gather", "connect"} => d # "none"
    /\ a # "none" /\ d # "none" => a = d
    /\ x \in {"idle", "gather", "connect"} => p = "none"
    /\ x = "over" => d = "none" /\ a = "none" /\ p # "open"
    /\ p = "open" /\ x # "closing" => a # "none"

\* The domains, and the values of the variables that Good leaves out.
Shape ==
    /\ pc \in [Requests -> PcValues]
    /\ routed \in [Requests -> Backends \cup {"none"}]
    /\ active \in [Requests -> Backends \cup {"none"}]
    /\ resp \in [Requests -> {"none", "open", "closed"}]
    /\ aborting \in [Requests -> {"no", "aclose", "done"}]
    /\ outcome \in [Requests -> {"none", "ended", "failed", "cancelled"}]

AllGood == \A r \in Requests : Good(pc[r], routed[r], active[r], resp[r])

\* The invariant, request by request.
LEMMA Pointwise == Inv <=> Shape /\ AllGood
<1>1. ASSUME Shape, NEW r \in Requests,
             Good(pc[r], routed[r], active[r], resp[r]),
             resp[r] = "open", pc[r] # "closing"
      PROVE  active[r] \in Targets(r)
    BY <1>1 DEF Good, Shape, Targets, Backends
<1>2. ASSUME Inv, NEW r \in Requests
      PROVE  Good(pc[r], routed[r], active[r], resp[r])
    <2>1. resp[r] = "open" /\ pc[r] # "closing" => active[r] # "none"
        BY <1>2 DEF Inv, OpenIsFindable, Targets, Backends
    <2> QED
        BY <1>2, <2>1 DEF Inv, TypeOK, RoutedFrom, NothingLeft, Good
<1>3. Inv => Shape
    BY DEF Inv, TypeOK, Shape
<1>4. Shape /\ AllGood => TypeOK /\ RoutedFrom /\ NothingLeft
    BY DEF AllGood, Shape, TypeOK, RoutedFrom, NothingLeft, Good
<1>5. Shape /\ AllGood => OpenIsFindable
    BY <1>1 DEF AllGood, OpenIsFindable
<1> QED
    BY <1>2, <1>3, <1>4, <1>5 DEF Inv, AllGood

\* A step of one request that keeps its own part keeps the invariant.
LEMMA OneRequest ==
    ASSUME Inv, NEW r \in Requests, NEW x, NEW d, NEW a, NEW p,
           Good(x, d, a, p),
           pc' = [pc EXCEPT ![r] = x],
           routed' = [routed EXCEPT ![r] = d],
           active' = [active EXCEPT ![r] = a],
           resp' = [resp EXCEPT ![r] = p],
           aborting' \in [Requests -> {"no", "aclose", "done"}],
           outcome' \in [Requests -> {"none", "ended", "failed", "cancelled"}]
    PROVE  Inv'
<1>1. /\ Shape
      /\ \A s \in Requests : Good(pc[s], routed[s], active[s], resp[s])
    BY Pointwise DEF AllGood
<1>2. Shape'
    BY <1>1 DEF Shape, Good
<1>3. ASSUME NEW s \in Requests
      PROVE  Good(pc'[s], routed'[s], active'[s], resp'[s])
    <2>1. CASE s = r
        <3>1. pc'[s] = x /\ routed'[s] = d /\ active'[s] = a /\ resp'[s] = p
            BY <1>1, <2>1 DEF Shape
        <3> QED
            BY <3>1
    <2>2. CASE s # r
        <3>1. /\ pc'[s] = pc[s] /\ routed'[s] = routed[s]
              /\ active'[s] = active[s] /\ resp'[s] = resp[s]
            BY <1>1, <2>2 DEF Shape
        <3> QED
            BY <1>1, <3>1
    <2> QED
        BY <2>1, <2>2
<1>4. AllGood'
    BY <1>3 DEF AllGood
<1> QED
    BY <1>2, <1>4, Pointwise, PTL

\* What Good says of request r in a state of the invariant.
LEMMA GoodNow ==
    ASSUME Inv, NEW r \in Requests
    PROVE  /\ Shape
           /\ Good(pc[r], routed[r], active[r], resp[r])
BY Pointwise DEF AllGood

\* The two ways a stream ends keep the invariant.
LEMMA EndKeepsInv ==
    ASSUME Inv, NEW r \in Requests,
           NEW how \in {"ended", "failed", "cancelled"},
           \/ pc[r] \in {"gather", "connect"} /\ EndsEarly(r, how)
           \/ /\ pc[r] \in Registered
              /\ Unwinds(r, how)
    PROVE  Inv'
<1>1. Shape /\ Good(pc[r], routed[r], active[r], resp[r])
    BY GoodNow
<1>2. outcome' = [outcome EXCEPT ![r] = how] /\ aborting' = aborting
    BY DEF EndsEarly, Unwinds
<1>3. /\ aborting' \in [Requests -> {"no", "aclose", "done"}]
      /\ outcome' \in [Requests -> {"none", "ended", "failed", "cancelled"}]
    BY <1>1, <1>2 DEF Shape
<1>4. CASE pc[r] \in {"gather", "connect"} /\ EndsEarly(r, how)
    <2>1. Good("over", "none", active[r], resp[r])
        BY <1>1, <1>4 DEF Good, PcValues, Registered
    <2>2. /\ pc' = [pc EXCEPT ![r] = "over"]
          /\ routed' = [routed EXCEPT ![r] = "none"]
          /\ active' = [active EXCEPT ![r] = active[r]]
          /\ resp' = [resp EXCEPT ![r] = resp[r]]
        BY <1>1, <1>4 DEF EndsEarly, Shape
    <2> QED
        BY <1>3, <2>1, <2>2, OneRequest
<1>5. CASE pc[r] \in Registered /\ Unwinds(r, how)
    <2>1. Good("closing", routed[r], "none", resp[r])
        BY <1>1, <1>5 DEF Good, PcValues, Registered
    <2>2. /\ pc' = [pc EXCEPT ![r] = "closing"]
          /\ routed' = [routed EXCEPT ![r] = routed[r]]
          /\ active' = [active EXCEPT ![r] = "none"]
          /\ resp' = [resp EXCEPT ![r] = resp[r]]
        BY <1>1, <1>5 DEF Unwinds, Shape
    <2> QED
        BY <1>3, <2>1, <2>2, OneRequest
<1> QED
    BY <1>4, <1>5

\* A step that changes only the place, the routing entry, the backend entry
\* and the response of r keeps the invariant.
LEMMA MoveKeepsInv ==
    ASSUME Inv, NEW r \in Requests, NEW x, NEW d, NEW a, NEW p,
           Good(x, d, a, p),
           pc' = [pc EXCEPT ![r] = x],
           \/ routed' = [routed EXCEPT ![r] = d]
           \/ routed' = routed /\ d = routed[r],
           \/ active' = [active EXCEPT ![r] = a]
           \/ active' = active /\ a = active[r],
           \/ resp' = [resp EXCEPT ![r] = p]
           \/ resp' = resp /\ p = resp[r],
           UNCHANGED <<aborting, outcome>>
    PROVE  Inv'
<1>1. Shape
    BY GoodNow
<1>2. /\ routed' = [routed EXCEPT ![r] = d]
      /\ active' = [active EXCEPT ![r] = a]
      /\ resp' = [resp EXCEPT ![r] = p]
    BY <1>1 DEF Shape
<1>3. /\ aborting' \in [Requests -> {"no", "aclose", "done"}]
      /\ outcome' \in [Requests -> {"none", "ended", "failed", "cancelled"}]
    BY <1>1 DEF Shape
<1> QED
    BY <1>2, <1>3, OneRequest

\* The steps of the stream that wait for text, backend, consumer or a
\* cancellation.
LEMMA StreamKeepsInv ==
    ASSUME Inv, NEW r \in Requests, Stream(r)
    PROVE  Inv'
<1>1. Shape /\ Good(pc[r], routed[r], active[r], resp[r])
    BY GoodNow
<1>2. CASE Begins(r)
    <2>1. PICK b \in Backends : routed' = [routed EXCEPT ![r] = b]
        BY <1>2 DEF Begins
    <2>2. Good("gather", b, active[r], resp[r])
        BY <1>1, <1>2, <2>1 DEF Begins, Good, PcValues, Registered, Backends
    <2>3. /\ pc' = [pc EXCEPT ![r] = "gather"]
          /\ active' = active /\ resp' = resp
          /\ UNCHANGED <<aborting, outcome>>
        BY <1>2 DEF Begins
    <2> QED
        BY <2>1, <2>2, <2>3, MoveKeepsInv
<1>3. CASE TextComplete(r)
    <2>1. CASE EndsEarly(r, "ended")
        BY <1>3, <2>1, EndKeepsInv DEF TextComplete
    <2>2. CASE /\ pc' = [pc EXCEPT ![r] = "connect"]
               /\ UNCHANGED <<routed, active, resp, aborting, outcome>>
        <3>1. Good("connect", routed[r], active[r], resp[r])
            BY <1>1, <1>3 DEF TextComplete, Good, PcValues, Registered
        <3> QED
            BY <2>2, <3>1, MoveKeepsInv
    <2> QED
        BY <1>3, <2>1, <2>2 DEF TextComplete
<1>4. CASE HeadersArrive(r)
    <2>1. PICK x \in {"stream", "refused"} : pc' = [pc EXCEPT ![r] = x]
        BY <1>4 DEF HeadersArrive
    <2>2. Good(x, routed[r], routed[r], "open")
        BY <1>1, <1>4, <2>1 DEF HeadersArrive, Good, PcValues, Registered
    <2>3. /\ routed' = routed
          /\ active' = [active EXCEPT ![r] = routed[r]]
          /\ resp' = [resp EXCEPT ![r] = "open"]
          /\ UNCHANGED <<aborting, outcome>>
        BY <1>4 DEF HeadersArrive
    <2> QED
        BY <2>1, <2>2, <2>3, MoveKeepsInv
<1>5. CASE ConnectFails(r)
    BY <1>5, EndKeepsInv DEF ConnectFails
<1>6. CASE Yields(r)
    <2>1. PICK x \in {"yield", "abandoned"} : pc' = [pc EXCEPT ![r] = x]
        BY <1>6 DEF Yields
    <2>2. Good(x, routed[r], active[r], resp[r])
        BY <1>1, <1>6, <2>1 DEF Yields, Good, PcValues, Registered
    <2>3. UNCHANGED <<routed, active, resp, aborting, outcome>>
        BY <1>6 DEF Yields
    <2> QED
        BY <2>1, <2>2, <2>3, MoveKeepsInv
<1>7. CASE Pulls(r)
    <2>1. Good("stream", routed[r], active[r], resp[r])
        BY <1>1, <1>7 DEF Pulls, Good, PcValues, Registered
    <2>2. /\ pc' = [pc EXCEPT ![r] = "stream"]
          /\ UNCHANGED <<routed, active, resp, aborting, outcome>>
        BY <1>7 DEF Pulls
    <2> QED
        BY <2>1, <2>2, MoveKeepsInv
<1>8. CASE Refused(r) \/ Completes(r) \/ ConnectionBreaks(r)
    <2>1. pc[r] \in Registered
        BY <1>8 DEF Refused, Completes, ConnectionBreaks, Registered
    <2>2. Unwinds(r, "failed") \/ Unwinds(r, "ended")
        BY <1>8 DEF Refused, Completes, ConnectionBreaks
    <2> QED
        BY <2>1, <2>2, EndKeepsInv
<1>9. CASE Cancelled(r)
    <2>1. CASE pc[r] \in {"gather", "connect"} /\ EndsEarly(r, "cancelled")
        BY <2>1, EndKeepsInv
    <2>2. CASE /\ pc[r] \in {"stream", "refused"}
               /\ Unwinds(r, "cancelled")
        <3>1. pc[r] \in Registered
            BY <1>1, <2>2 DEF Registered, Shape
        <3> QED
            BY <2>2, <3>1, EndKeepsInv
    <2>3. CASE /\ pc[r] = "yield"
               /\ pc' = [pc EXCEPT ![r] = "abandoned"]
               /\ UNCHANGED <<routed, active, resp, aborting, outcome>>
        <3>1. Good("abandoned", routed[r], active[r], resp[r])
            BY <1>1, <2>3 DEF Good, PcValues, Registered
        <3> QED
            BY <2>3, <3>1, MoveKeepsInv
    <2> QED
        BY <1>9, <2>1, <2>2, <2>3 DEF Cancelled
<1> QED
    BY <1>2, <1>3, <1>4, <1>5, <1>6, <1>7, <1>8, <1>9 DEF Stream

\* The steps a stream takes by itself.
LEMMA LocalKeepsInv ==
    ASSUME Inv, NEW r \in Requests, Local(r)
    PROVE  Inv'
<1>1. Shape /\ Good(pc[r], routed[r], active[r], resp[r])
    BY GoodNow
<1>2. CASE SeesClosed(r) \/ BackendFinalized(r)
    <2>1. pc[r] \in Registered
        BY <1>1, <1>2 DEF SeesClosed, BackendFinalized, Registered, Shape
    <2>2. Unwinds(r, "ended") \/ Unwinds(r, "cancelled")
        BY <1>2 DEF SeesClosed, BackendFinalized
    <2> QED
        BY <2>1, <2>2, EndKeepsInv
<1>3. CASE Closed(r)
    <2>1. Good("over", "none", active[r], "closed")
        BY <1>1, <1>3 DEF Closed, Good, PcValues, Registered
    <2>2. /\ pc' = [pc EXCEPT ![r] = "over"]
          /\ routed' = [routed EXCEPT ![r] = "none"]
          /\ resp' = [resp EXCEPT ![r] = "closed"]
          /\ UNCHANGED <<active, aborting, outcome>>
        BY <1>3 DEF Closed
    <2> QED
        BY <2>1, <2>2, MoveKeepsInv
<1>4. CASE RouterFinalized(r)
    <2>1. Good("orphan", "none", active[r], resp[r])
        BY <1>1, <1>4 DEF RouterFinalized, Good, PcValues, Registered
    <2>2. /\ pc' = [pc EXCEPT ![r] = "orphan"]
          /\ routed' = [routed EXCEPT ![r] = "none"]
          /\ UNCHANGED <<active, resp, aborting, outcome>>
        BY <1>4 DEF RouterFinalized
    <2> QED
        BY <2>1, <2>2, MoveKeepsInv
<1> QED
    BY <1>2, <1>3, <1>4 DEF Local

\* abort() changes nothing of the stream but the response it closes.
LEMMA AbortKeepsInv ==
    ASSUME Inv, NEW r \in Requests, Abort(r) \/ AbortReturns(r)
    PROVE  Inv'
<1>1. Shape /\ Good(pc[r], routed[r], active[r], resp[r])
    BY GoodNow
<1>2. /\ aborting' \in [Requests -> {"no", "aclose", "done"}]
      /\ outcome' \in [Requests -> {"none", "ended", "failed", "cancelled"}]
    BY <1>1 DEF Abort, AbortReturns, Shape
<1>3. PICK p : /\ Good(pc[r], routed[r], active[r], p)
               /\ resp' = [resp EXCEPT ![r] = p]
    <2>1. CASE resp' = resp
        BY <1>1, <2>1 DEF Shape
    <2>2. CASE /\ active[r] \in Targets(r)
               /\ resp' = [resp EXCEPT ![r] = "closed"]
        BY <1>1, <2>2 DEF Good, Targets, Backends, Registered
    <2> QED
        BY <2>1, <2>2 DEF Abort, AbortReturns
<1>4. /\ pc' = [pc EXCEPT ![r] = pc[r]]
      /\ routed' = [routed EXCEPT ![r] = routed[r]]
      /\ active' = [active EXCEPT ![r] = active[r]]
    BY <1>1 DEF Abort, AbortReturns, Shape
<1> QED
    BY <1>2, <1>3, <1>4, OneRequest

\* The invariant of the engine: every step of every task keeps it.
THEOREM Invariance == Spec => []Inv
<1>1. Init => Inv
    <2> SUFFICES ASSUME Init PROVE Shape /\ AllGood
        BY Pointwise
    <2>1. Shape
        BY DEF Init, Shape, PcValues
    <2>2. AllGood
        BY DEF Init, AllGood, Good, PcValues, Registered
    <2> QED
        BY <2>1, <2>2
<1>2. Inv /\ [Next]_vars => Inv'
    <2> SUFFICES ASSUME Inv, [Next]_vars PROVE Inv'
        OBVIOUS
    <2>1. CASE UNCHANGED vars
        BY <2>1
        DEF vars, Inv, TypeOK, RoutedFrom, NothingLeft, OpenIsFindable, Targets
    <2>2. ASSUME NEW r \in Requests,
                 Stream(r) \/ Local(r) \/ Abort(r) \/ AbortReturns(r)
          PROVE  Inv'
        BY <2>2, StreamKeepsInv, LocalKeepsInv, AbortKeepsInv
    <2> QED
        BY <2>1, <2>2 DEF Next, Finished
<1> QED
    BY <1>1, <1>2, PTL DEF Spec

\* A response is registered exactly from its headers to the finally that closes
\* it (engine_vllm_omini.py:213-235).
THEOREM Types == Spec => []TypeOK
BY Invariance, PTL DEF Inv

\* A stream that is over leaves no registry entry and no open connection,
\* however it ended (engine_vllm_omini.py:228-235, engine_routing.py:101-102).
THEOREM Clean == Spec => []NothingLeft
BY Invariance, PTL DEF Inv

\* abort() finds every open response that is not being closed already
\* (engine_routing.py:104-114).
THEOREM Findable == Spec => []OpenIsFindable
BY Invariance, PTL DEF Inv

=============================================================================
