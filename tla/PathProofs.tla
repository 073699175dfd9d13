----------------------------- MODULE PathProofs -----------------------------
(***************************************************************************)
(* The path through the gateway and cosyvoice-svc, proved for any number   *)
(* of calls, chunks and queue sizes: what crosses it arrives whole and in  *)
(* order, and what HttpProofs proves of the gateway with any engine holds  *)
(* with the service as one.                                                *)
(***************************************************************************)
EXTENDS SpeechPath, HttpProofs, SequenceTheorems

-----------------------------------------------------------------------------
(* The gateway.                                                             *)

\* A step of the path is a step of the gateway or leaves the gateway alone.
LEMMA PathStep ==
    ASSUME [PathNext]_pathVars
    PROVE  [HttpNext]_allVars
<1>1. ASSUME NEW c \in HttpCalls,
             GatewayStep(c) \/ FastStep(c) \/ FastStalls(c) \/ SaysNothing(c)
                \/ ConnectFails(c) \/ Reading(c)
      PROVE  HttpNext
    BY <1>1
    DEF GatewayStep, FastStep, FastStalls, SaysNothing, ConnectFails, Reading, ChunkArrives,
        BodyEnds, Breaks, HttpNext, EngineAnswers
<1>2. ASSUME NEW c \in HttpCalls, Connects(c) \/ HangsUp(c) \/ ServiceStep(c)
      PROVE  UNCHANGED allVars
    BY <1>2 DEF Connects, HangsUp, ServiceStep
<1>3. CASE ServiceCrashes \/ UNCHANGED pathVars
    BY <1>3 DEF ServiceCrashes, pathVars
<1> QED
    BY <1>1, <1>2, <1>3 DEF PathNext, HttpNext

\* By its construction the path adds steps of the service to those of HttpSpeech
\* and lets the gateway do nothing else, so that the invariants of
\* HttpSpec are invariants here.
LEMMA PathIsHttp == PathSpec => HttpSpec
<1>1. PathInit => HttpInit
    BY DEF PathInit
<1> QED
    BY <1>1, PathStep, PTL DEF PathSpec, HttpSpec

\* With the service behind the gateway: a generator outlives the slot of its call
\* only if it was dropped at a send, a 200 response has audio, and the closing
\* event follows the generator, which says done for a crashed service too
\* (app.py:501-626).
THEOREM PathKeepsPromises ==
    PathSpec => [](OnlyDroppedOutlivesSlot /\ OkHasAudio /\ EventFollowsGenerator)
BY PathIsHttp, OnlyDropped, AudioFirst, EventFollows, PTL

-----------------------------------------------------------------------------
(* Sequences of chunks.                                                     *)

\* The chunks from y + 1 to m.
Run(y, m) == [i \in 1..(m - y) |-> y + i]

\* A sequence is its head in front of its tail.
LEMMA SplitHead ==
    ASSUME NEW S, NEW a \in Seq(S), a # <<>>
    PROVE  /\ Head(a) \in S /\ Tail(a) \in Seq(S)
           /\ a = <<Head(a)>> \o Tail(a)
<1>1. Head(a) \in S /\ Tail(a) \in Seq(S) /\ Len(Tail(a)) = Len(a) - 1 /\ Len(a) \in Nat \ {0}
    BY HeadTailProperties, EmptySeq
<1>2. <<Head(a)>> \o Tail(a) \in Seq(S) /\ Len(<<Head(a)>> \o Tail(a)) = Len(a)
    BY <1>1, ConcatProperties
<1>3. \A i \in 1..Len(a) : a[i] = (<<Head(a)>> \o Tail(a))[i]
    BY <1>1, HeadTailProperties, ConcatProperties
<1> QED
    BY <1>1, <1>2, <1>3, SeqEqual

\* Reading from the front of a concatenation reads its first part.
LEMMA ReadFirst ==
    ASSUME NEW S, NEW a \in Seq(S), a # <<>>, NEW b \in Seq(S)
    PROVE  Head(a \o b) = Head(a) /\ Tail(a \o b) = Tail(a) \o b /\ a \o b # <<>>
<1>1. a \o b \in Seq(S) /\ Len(a \o b) = Len(a) + Len(b) /\ Len(a) \in Nat \ {0} /\ Len(b) \in Nat
    BY ConcatProperties, EmptySeq
<1>2. a \o b # <<>> /\ Head(a \o b) = Head(a)
    BY <1>1, ConcatProperties, EmptySeq
<1>3. Tail(a) \in Seq(S) /\ Len(Tail(a)) = Len(a) - 1
    BY HeadTailProperties
<1>4. /\ Tail(a \o b) \in Seq(S) /\ Len(Tail(a \o b)) = Len(a) + Len(b) - 1
      /\ Tail(a) \o b \in Seq(S) /\ Len(Tail(a) \o b) = Len(a) + Len(b) - 1
    BY <1>1, <1>2, <1>3, HeadTailProperties, ConcatProperties
<1>5. ASSUME NEW i \in 1..(Len(a) + Len(b) - 1)
      PROVE  Tail(a \o b)[i] = (Tail(a) \o b)[i]
    <2>1. Tail(a \o b)[i] = (a \o b)[i + 1]
        BY <1>1, <1>2, <1>4, HeadTailProperties
    <2>2. (a \o b)[i + 1] = IF i + 1 <= Len(a) THEN a[i + 1] ELSE b[i + 1 - Len(a)]
        BY <1>1, ConcatProperties
    <2>3. (Tail(a) \o b)[i] = IF i <= Len(a) - 1 THEN Tail(a)[i] ELSE b[i - (Len(a) - 1)]
        BY <1>1, <1>3, ConcatProperties
    <2>4. i <= Len(a) - 1 => Tail(a)[i] = a[i + 1]
        BY <1>1, <1>3, HeadTailProperties
    <2> QED
        BY <2>1, <2>2, <2>3, <2>4, <1>1
<1> QED
    BY <1>2, <1>4, <1>5, SeqEqual

\* Runs of chunks.
LEMMA Runs ==
    ASSUME NEW N \in Nat, NEW m \in 0..N, NEW y \in 0..N, y <= m
    PROVE  /\ Run(y, m) \in Seq(0..N) /\ Len(Run(y, m)) = m - y
           /\ y = m => Run(y, m) = <<>>
           /\ m < N => Run(y, m + 1) = Run(y, m) \o <<m + 1>>
           /\ y < m => /\ Run(y, m) # <<>> /\ Head(Run(y, m)) = y + 1
                       /\ Tail(Run(y, m)) = Run(y + 1, m)
<1>1. ASSUME NEW k \in 0..N, NEW j \in 0..N, k <= j
      PROVE  /\ Run(k, j) \in Seq(0..N) /\ Len(Run(k, j)) = j - k
             /\ \A i \in 1..(j - k) : Run(k, j)[i] = k + i
    <2>1. j - k \in Nat /\ Run(k, j) \in [1..(j - k) -> 0..N]
        BY <1>1 DEF Run
    <2> QED
        BY <2>1, SeqDef, LenProperties DEF Run
<1>2. y = m => Run(y, m) = <<>>
    BY <1>1, EmptySeq
<1>3. ASSUME m < N
      PROVE  Run(y, m + 1) = Run(y, m) \o <<m + 1>>
    <2>1. /\ Run(y, m + 1) \in Seq(0..N) /\ Len(Run(y, m + 1)) = m + 1 - y
          /\ \A i \in 1..(m + 1 - y) : Run(y, m + 1)[i] = y + i
        BY <1>1, <1>3
    <2>2. <<m + 1>> \in Seq(0..N) /\ Len(<<m + 1>>) = 1
        BY <1>3
    <2>3. Run(y, m) \in Seq(0..N) /\ Len(Run(y, m)) = m - y
        BY <1>1
    <2>4. /\ Run(y, m) \o <<m + 1>> \in Seq(0..N)
          /\ Len(Run(y, m) \o <<m + 1>>) = m + 1 - y
          /\ \A i \in 1..(m + 1 - y) : (Run(y, m) \o <<m + 1>>)[i] =
                IF i <= m - y THEN Run(y, m)[i] ELSE <<m + 1>>[i - (m - y)]
        BY <2>2, <2>3, ConcatProperties
    <2>5. ASSUME NEW i \in 1..(m + 1 - y)
          PROVE  Run(y, m + 1)[i] = (Run(y, m) \o <<m + 1>>)[i]
        <3>1. i \in Int /\ m \in Int /\ y \in Int /\ 1 <= i /\ i <= m + 1 - y
            OBVIOUS
        <3>2. Run(y, m + 1)[i] = y + i
            BY <2>1
        <3>3. (Run(y, m) \o <<m + 1>>)[i] =
                IF i <= m - y THEN Run(y, m)[i] ELSE <<m + 1>>[i - (m - y)]
            BY <2>4
        <3>4. i <= m - y => Run(y, m)[i] = y + i
            BY <1>1, <3>1
        <3>5. ~(i <= m - y) => i - (m - y) = 1 /\ m + 1 = y + i
            BY <3>1
        <3>6. CASE i <= m - y
            BY <3>2, <3>3, <3>4, <3>6
        <3>7. CASE ~(i <= m - y)
            <4>1. <<m + 1>>[i - (m - y)] = m + 1
                BY <3>5, <3>7
            <4> QED
                BY <3>2, <3>3, <3>5, <3>7, <4>1
        <3> QED
            BY <3>6, <3>7
    <2> QED
        BY <2>1, <2>4, <2>5, SeqEqual
<1>4. ASSUME y < m
      PROVE  /\ Run(y, m) # <<>> /\ Head(Run(y, m)) = y + 1
             /\ Tail(Run(y, m)) = Run(y + 1, m)
    <2>1. Run(y, m) # <<>> /\ Head(Run(y, m)) = y + 1
        BY <1>1, <1>4, EmptySeq
    <2>2. /\ Tail(Run(y, m)) \in Seq(0..N) /\ Len(Tail(Run(y, m))) = m - y - 1
          /\ \A i \in 1..(m - y - 1) : Tail(Run(y, m))[i] = y + i + 1
        BY <1>1, <2>1, HeadTailProperties
    <2>3. /\ Run(y + 1, m) \in Seq(0..N) /\ Len(Run(y + 1, m)) = m - y - 1
          /\ \A i \in 1..(m - y - 1) : Run(y + 1, m)[i] = y + 1 + i
        <3>1. y + 1 \in 0..N /\ y + 1 <= m /\ m - (y + 1) = m - y - 1
            BY <1>4
        <3> QED
            BY <1>1, <3>1
    <2>4. ASSUME NEW i \in 1..(m - y - 1)
          PROVE  Tail(Run(y, m))[i] = Run(y + 1, m)[i]
        BY <2>2, <2>3
    <2>5. Tail(Run(y, m)) = Run(y + 1, m)
        BY <2>2, <2>3, <2>4, SeqEqual
    <2> QED
        BY <2>1, <2>5
<1> QED
    BY <1>1, <1>2, <1>3, <1>4

\* What is sent, what the task and the worker hold, and the queue, in a row; and
\* a run of chunks with the end behind it.
Row(n, h, p, o) == (n \o h) \o (p \o o)
RunEnd(y, m) == Run(y, m) \o <<0>>

\* The head of a queue moves to the reader's side.
LEMMA HeadMoves ==
    ASSUME NEW S, NEW n \in Seq(S), NEW p \in Seq(S), NEW o \in Seq(S), p # <<>>
    PROVE  (n \o <<>>) \o (p \o o) = (n \o <<Head(p)>>) \o (Tail(p) \o o)
<1> DEFINE v == <<Head(p)>>
           t == Tail(p)
           d == t \o o
<1>1. v \in Seq(S)
    BY SplitHead
<1>2. t \in Seq(S)
    BY SplitHead
<1>3. p = v \o t
    BY SplitHead
<1>4. d \in Seq(S)
    BY <1>2, ConcatProperties
<1> HIDE DEF v, t
<1>5. (v \o t) \o o = v \o d
    BY <1>1, <1>2, ConcatAssociative, SMTT(60)
<1> HIDE DEF d
<1>6. (n \o v) \o d = n \o (v \o d)
    BY <1>1, <1>4, ConcatAssociative, SMTT(60)
<1>7. n \o <<>> = n
    BY ConcatEmptySeq
<1>8. (n \o <<>>) \o (p \o o) = (n \o v) \o d
    BY <1>3, <1>5, <1>6, <1>7
<1> QED
    BY <1>8 DEF v, t, d

\* The worker makes something to put.
LEMMA RowMake ==
    ASSUME NEW S, NEW n \in Seq(S), NEW h \in Seq(S), NEW p \in Seq(S), NEW x \in S
    PROVE  Row(n, h, p, <<x>>) = Row(n, h, p, <<>>) \o <<x>>
<1> DEFINE a == n \o h
           w == <<x>>
<1>1. a \in Seq(S)
    BY ConcatProperties
<1>2. w \in Seq(S)
    OBVIOUS
<1> HIDE DEF a, w
<1>3. p \o <<>> = p
    BY ConcatEmptySeq
<1>4. (a \o p) \o w = a \o (p \o w)
    BY <1>1, <1>2, ConcatAssociative, SMTT(60)
<1>5. a \o (p \o w) = (a \o (p \o <<>>)) \o w
    BY <1>3, <1>4
<1> QED
    BY <1>5 DEF Row, a, w

\* It enters the queue.
LEMMA RowPut ==
    ASSUME NEW S, NEW n, NEW h, NEW p \in Seq(S), NEW x \in S
    PROVE  Row(n, h, Append(p, x), <<>>) = Row(n, h, p, <<x>>)
<1>1. Append(p, x) = p \o <<x>> /\ Append(p, x) \in Seq(S)
    BY AppendIsConcat, AppendProperties
<1>2. Append(p, x) \o <<>> = p \o <<x>>
    BY <1>1, ConcatEmptySeq
<1> QED
    BY <1>2 DEF Row

\* What the task holds is sent.
LEMMA RowSend ==
    ASSUME NEW S, NEW n \in Seq(S), NEW p, NEW o, NEW x \in S
    PROVE  Row(Append(n, x), <<>>, p, o) = Row(n, <<x>>, p, o)
<1>1. <<x>> \in Seq(S) /\ Append(n, x) = n \o <<x>> /\ Append(n, x) \in Seq(S)
    BY AppendIsConcat, AppendProperties
<1>2. Append(n, x) \o <<>> = n \o <<x>>
    BY <1>1, ConcatEmptySeq
<1> QED
    BY <1>2 DEF Row

\* The task takes the head of the queue.
LEMMA RowGet ==
    ASSUME NEW S, NEW n \in Seq(S), NEW p \in Seq(S), NEW o \in Seq(S), p # <<>>
    PROVE  Row(n, <<>>, p, o) = Row(n, <<Head(p)>>, Tail(p), o)
BY HeadMoves DEF Row

\* What arrives first is read first.
LEMMA RowRead ==
    ASSUME NEW S, NEW n \in Seq(S), NEW h \in Seq(S), NEW p \in Seq(S), NEW o \in Seq(S),
           n # <<>>
    PROVE  /\ Row(n, h, p, o) # <<>> /\ Head(Row(n, h, p, o)) = Head(n)
           /\ Tail(Row(n, h, p, o)) = Row(Tail(n), h, p, o)
<1> DEFINE a == n \o h
           b == p \o o
<1>1. a \in Seq(S) /\ b \in Seq(S) /\ a # <<>> /\ Head(a) = Head(n) /\ Tail(a) = Tail(n) \o h
    BY ConcatProperties, ReadFirst
<1> HIDE DEF a, b
<1>2. a \o b # <<>> /\ Head(a \o b) = Head(a) /\ Tail(a \o b) = Tail(a) \o b
    BY <1>1, ReadFirst
<1>3. /\ a \o b # <<>> /\ Head(a \o b) = Head(n)
      /\ Tail(a \o b) = (Tail(n) \o h) \o b
    BY <1>1, <1>2
<1> QED
    BY <1>3 DEF Row, a, b

\* An empty row has nothing anywhere.
LEMMA RowEmpty ==
    ASSUME NEW S, NEW n \in Seq(S), NEW h \in Seq(S), NEW p \in Seq(S), NEW o \in Seq(S),
           Row(n, h, p, o) = <<>>
    PROVE  n = <<>> /\ h = <<>> /\ p = <<>> /\ o = <<>>
<1>1. n \o h \in Seq(S) /\ p \o o \in Seq(S)
    BY ConcatProperties
<1>2. n \o h = <<>> /\ p \o o = <<>>
    BY <1>1, ConcatEqualIffEmpty DEF Row
<1> QED
    BY <1>2, ConcatEqualIffEmpty

\* Runs of chunks with the end behind them.
LEMMA RunEnds ==
    ASSUME NEW N \in Nat, NEW m \in 0..N, NEW y \in 0..N, y <= m
    PROVE  /\ RunEnd(y, m) \in Seq(0..N) /\ RunEnd(y, m) # <<>>
           /\ y < m => /\ Head(RunEnd(y, m)) = y + 1
                       /\ Tail(RunEnd(y, m)) = RunEnd(y + 1, m)
           /\ y = m => Head(RunEnd(y, m)) = 0 /\ Tail(RunEnd(y, m)) = <<>>
<1>1. <<0>> \in Seq(0..N) /\ Run(y, m) \in Seq(0..N)
    <2>1. 0 \in 0..N
        OBVIOUS
    <2>2. <<0>> \in Seq(0..N)
        BY <2>1
    <2> QED
        BY <2>2, Runs
<1>2. RunEnd(y, m) \in Seq(0..N) /\ RunEnd(y, m) # <<>>
    BY <1>1, ConcatProperties, ConcatEqualIffEmpty DEF RunEnd
<1>3. ASSUME y < m
      PROVE  /\ Head(RunEnd(y, m)) = y + 1
             /\ Tail(RunEnd(y, m)) = RunEnd(y + 1, m)
    <2>1. Run(y, m) # <<>> /\ Head(Run(y, m)) = y + 1 /\ Tail(Run(y, m)) = Run(y + 1, m)
        BY <1>3, Runs
    <2> QED
        BY <1>1, <2>1, ReadFirst DEF RunEnd
<1>4. ASSUME y = m
      PROVE  Head(RunEnd(y, m)) = 0 /\ Tail(RunEnd(y, m)) = <<>>
    <2>1. RunEnd(y, m) = <<0>>
        BY <1>1, <1>4, Runs, ConcatEmptySeq DEF RunEnd
    <2> QED
        BY <2>1
<1> QED
    BY <1>2, <1>3, <1>4

\* Nothing, and only the end, behind the last chunk.
LEMMA RunsOut ==
    ASSUME NEW N \in Nat, NEW m \in 0..N
    PROVE  Run(m, m) = <<>> /\ Tail(RunEnd(m, m)) = <<>>
<1>1. m <= m
    OBVIOUS
<1> QED
    BY <1>1, Runs, RunEnds

\* A chunk read from a row that ends with the end.
LEMMA ReadOfRunEnd ==
    ASSUME NEW N \in Nat, NEW m \in 0..N, NEW y \in 0..N, y <= m,
           NEW r, r = RunEnd(y, m), Head(r) # 0
    PROVE  y < m /\ Tail(r) = RunEnd(y + 1, m)
<1>1. y # m
    BY RunEnds
<1>2. y < m
    BY <1>1
<1> QED
    BY <1>2, RunEnds

\* A chunk read from a row that goes on.
LEMMA ReadOfRun ==
    ASSUME NEW N \in Nat, NEW m \in 0..N, NEW y \in 0..N, y <= m,
           NEW r, r = Run(y, m), r # <<>>
    PROVE  y < m /\ Tail(r) = Run(y + 1, m)
<1>1. y # m
    BY Runs
<1>2. y < m
    BY <1>1
<1> QED
    BY <1>2, Runs

\* The end is read only behind every chunk.
LEMMA ReadOfEnd ==
    ASSUME NEW N \in Nat, NEW m \in 0..N, NEW y \in 0..N, y <= m,
           NEW r, r # <<>>, Head(r) = 0
    PROVE  r # Run(y, m) /\ (r = RunEnd(y, m) => y = m /\ Tail(r) = <<>>)
<1>1. y < m => Head(Run(y, m)) = y + 1
    BY Runs
<1>2. y = m => Run(y, m) = <<>>
    BY Runs
<1>3. y < m => Head(RunEnd(y, m)) = y + 1
    BY RunEnds
<1>4. y = m => Tail(RunEnd(y, m)) = <<>>
    BY RunsOut
<1>5. y < m \/ y = m
    OBVIOUS
<1>6. y + 1 # 0
    OBVIOUS
<1> QED
    BY <1>1, <1>2, <1>3, <1>4, <1>5, <1>6

-----------------------------------------------------------------------------
(* The invariant of the bridge.                                             *)

\* How the parts of one call in the service, and its generator, go together.
Joint(c) ==
    /\ cpc[c] = "off" =>
        /\ wpc[c] = "off" /\ made[c] = 0 /\ q[c] = <<>> /\ net[c] = <<>>
        /\ c \in instructed => yielded[c] = 0
    /\ cpc[c] # "off" => c \in instructed /\ stream[c] # "off"
    /\ cpc[c] \in {"leaving", "gone"} => stream[c] = "closed"
    /\ wpc[c] = "dead" => cpc[c] = "dead"
    /\ cpc[c] # "send" => hand[c] = Svc!SENTINEL
    /\ cpc[c] \notin {"off", "dead"} /\ stream[c] = "ended" => wpc[c] = "done"

\* The bridge of one call is in order.
InOrderFor(c) ==
    c \in instructed /\ stream[c] \in {"open", "ended"} /\ cpc[c] # "dead" =>
        /\ yielded[c] <= made[c]
        /\ Row(net[c], Svc!Held(c), q[c], Svc!Offered(c)) =
            IF wpc[c] \in {"last", "done"} /\ stream[c] = "open"
            THEN RunEnd(yielded[c], made[c]) ELSE Run(yielded[c], made[c])

BridgeInv ==
    /\ instructed \subseteq HttpCalls
    /\ Svc!SvcTypeOK
    /\ \A c \in HttpCalls : Joint(c) /\ InOrderFor(c)

-----------------------------------------------------------------------------
(* The steps of the service.                                                *)

\* Nothing of call d changes that the invariant speaks of.
Apart(d) ==
    /\ wpc'[d] = wpc[d] /\ made'[d] = made[d] /\ q'[d] = q[d]
    /\ cpc'[d] = cpc[d] /\ hand'[d] = hand[d] /\ net'[d] = net[d]
    /\ stream'[d] = stream[d] /\ yielded'[d] = yielded[d]
    /\ d \in instructed' <=> d \in instructed

\* A step of call c keeps its part of the invariant and touches no other call.
Keeps(c) ==
    /\ Joint(c)' /\ InOrderFor(c)'
    /\ \A d \in HttpCalls \ {c} : Apart(d)

\* A call nothing of which changes keeps its part.
LEMMA Untouched ==
    ASSUME BridgeInv, NEW d \in HttpCalls, Apart(d)
    PROVE  Joint(d)' /\ InOrderFor(d)'
BY DEF BridgeInv, Joint, InOrderFor, Apart, Svc!Held, Svc!Offered, Svc!SENTINEL

\* The domains of one call's part of the service.
LEMMA CallDomains ==
    ASSUME Svc!SvcTypeOK, NEW c \in HttpCalls
    PROVE  /\ made[c] \in 0..MaxChunks /\ hand[c] \in 0..MaxChunks
           /\ q[c] \in Seq(0..MaxChunks) /\ net[c] \in Seq(0..MaxChunks)
           /\ Svc!Held(c) \in Seq(0..MaxChunks) /\ Svc!Offered(c) \in Seq(0..MaxChunks)
           /\ wpc[c] \in Svc!WorkerValues /\ cpc[c] \in Svc!TaskValues
<1>1. /\ made[c] \in 0..MaxChunks /\ hand[c] \in 0..MaxChunks
      /\ q[c] \in Seq(0..MaxChunks) /\ net[c] \in Seq(0..MaxChunks)
      /\ wpc[c] \in Svc!WorkerValues /\ cpc[c] \in Svc!TaskValues
    BY DEF Svc!SvcTypeOK
<1>2. Svc!SENTINEL \in 0..MaxChunks
    BY HttpAssumption DEF Svc!SENTINEL
<1>3. ASSUME NEW x \in 0..MaxChunks
      PROVE  <<x>> \in Seq(0..MaxChunks)
    OBVIOUS
<1>4. <<>> \in Seq(0..MaxChunks)
    OBVIOUS
<1> QED
    BY <1>1, <1>2, <1>3, <1>4 DEF Svc!Held, Svc!Offered

\* The gateway's part of the invariant does not move.
GatewayStays == UNCHANGED <<stream, yielded, instructed>>

\* The model makes a chunk, or its generator ends.
LEMMA SynthesizesKeeps ==
    ASSUME BridgeInv, yielded \in [HttpCalls -> 0..MaxChunks],
           NEW c \in HttpCalls, Svc!Synthesizes(c), GatewayStays
    PROVE  Svc!SvcTypeOK' /\ Keeps(c)
<1>1. Svc!SvcTypeOK'
    <2>1. made[c] < MaxChunks => made[c] + 1 \in 0..MaxChunks
        BY HttpAssumption DEF BridgeInv, Svc!SvcTypeOK
    <2> QED
        BY <2>1 DEF BridgeInv, Svc!SvcTypeOK, Svc!Synthesizes, Svc!WorkerValues
<1>2. ASSUME NEW d \in HttpCalls \ {c}
      PROVE  Apart(d)
    BY <1>2 DEF BridgeInv, Svc!SvcTypeOK, Svc!Synthesizes, GatewayStays, Apart
<1>3. Joint(c)'
    BY DEF BridgeInv, Joint, Svc!SvcTypeOK, Svc!Synthesizes, GatewayStays, Svc!SENTINEL
<1>4. InOrderFor(c)'
    <2> SUFFICES ASSUME c \in instructed, stream[c] \in {"open", "ended"}, cpc[c] # "dead"
                 PROVE  InOrderFor(c)'
        BY DEF InOrderFor, GatewayStays, Svc!Synthesizes
    <2> DEFINE n == net[c]
               h == Svc!Held(c)
               p == q[c]
               m == made[c]
               y == yielded[c]
               S == 0..MaxChunks
    <2>1. /\ n \in Seq(S) /\ h \in Seq(S) /\ p \in Seq(S)
          /\ m \in S /\ y \in S /\ MaxChunks \in Nat
        BY CallDomains, HttpAssumption DEF BridgeInv
    <2>2. /\ stream[c] = "open" /\ y <= m
          /\ Row(n, h, p, <<>>) = Run(y, m)
        BY DEF BridgeInv, Joint, InOrderFor, Svc!Synthesizes, Svc!Offered
    <2>3. /\ n = net'[c] /\ h = Svc!Held(c)' /\ p = q'[c] /\ y = yielded'[c]
          /\ stream'[c] = "open"
        BY <2>2 DEF Svc!Synthesizes, GatewayStays, Svc!Held
    <2>4. CASE wpc'[c] = "put"
        <3>1. m < MaxChunks /\ made'[c] = m + 1 /\ Svc!Offered(c)' = <<m + 1>>
            BY <2>4 DEF BridgeInv, Svc!SvcTypeOK, Svc!Synthesizes, Svc!Offered
        <3> HIDE DEF n, h, p, m, y, S
        <3>2. m + 1 \in S
            BY <2>1, <3>1 DEF S
        <3>3. Row(n, h, p, <<m + 1>>) = Row(n, h, p, <<>>) \o <<m + 1>>
            BY <2>1, <3>2, RowMake
        <3>4. Run(y, m + 1) = Run(y, m) \o <<m + 1>>
            BY <2>1, <2>2, <3>1, Runs DEF S
        <3>5. Row(n, h, p, <<m + 1>>) = Run(y, m + 1)
            BY <2>2, <3>3, <3>4
        <3>6. y <= m + 1
            BY <2>1, <2>2 DEF S
        <3> QED
            BY <2>3, <2>4, <3>1, <3>5, <3>6 DEF InOrderFor
    <2>5. CASE wpc'[c] = "last"
        <3>1. made'[c] = m /\ Svc!Offered(c)' = <<0>>
            BY <2>5
            DEF BridgeInv, Svc!SvcTypeOK, Svc!Synthesizes, Svc!Offered, Svc!SENTINEL
        <3> HIDE DEF n, h, p, m, y, S
        <3>2. 0 \in S
            BY <2>1 DEF S
        <3>3. Row(n, h, p, <<0>>) = Row(n, h, p, <<>>) \o <<0>>
            BY <2>1, <3>2, RowMake
        <3>4. Row(n, h, p, <<0>>) = RunEnd(y, m)
            BY <2>2, <3>3 DEF RunEnd
        <3> QED
            BY <2>2, <2>3, <2>5, <3>1, <3>4 DEF InOrderFor
    <2> QED
        BY <2>4, <2>5 DEF BridgeInv, Svc!SvcTypeOK, Svc!Synthesizes
<1> QED
    BY <1>1, <1>2, <1>3, <1>4 DEF Keeps

\* The worker puts what it has.
LEMMA PutsKeeps ==
    ASSUME BridgeInv, NEW c \in HttpCalls, Svc!Puts(c), GatewayStays
    PROVE  Svc!SvcTypeOK' /\ Keeps(c)
<1> DEFINE S == 0..MaxChunks
           x == IF wpc[c] = "put" THEN made[c] ELSE Svc!SENTINEL
<1>1. x \in S /\ q[c] \in Seq(S)
    BY CallDomains, HttpAssumption DEF BridgeInv, Svc!SENTINEL
<1>2. /\ wpc[c] \in {"put", "last"} /\ Len(q[c]) < QueueCap
      /\ q' = [q EXCEPT ![c] = Append(q[c], x)]
      /\ wpc' = [wpc EXCEPT ![c] = IF wpc[c] = "put" THEN "synth" ELSE "done"]
      /\ UNCHANGED <<made, cpc, hand, net>>
    BY DEF Svc!Puts, Svc!Enqueue
<1>3. Append(q[c], x) \in Seq(S) /\ Len(Append(q[c], x)) = Len(q[c]) + 1 /\ Len(q[c]) \in Nat
    BY <1>1, AppendProperties, LenProperties
<1>4. Svc!SvcTypeOK'
    <2>1. Len(Append(q[c], x)) <= QueueCap
        BY <1>2, <1>3, PathAssumption
    <2> HIDE DEF x
    <2> QED
        BY <1>2, <1>3, <2>1 DEF BridgeInv, Svc!SvcTypeOK, Svc!WorkerValues
<1>5. ASSUME NEW d \in HttpCalls \ {c}
      PROVE  Apart(d)
    BY <1>2, <1>5 DEF BridgeInv, Svc!SvcTypeOK, GatewayStays, Apart
<1>6. Joint(c)'
    BY <1>2 DEF BridgeInv, Joint, Svc!SvcTypeOK, GatewayStays, Svc!SENTINEL
<1>7. InOrderFor(c)'
    <2>1. Svc!Offered(c) = <<x>> /\ Svc!Offered(c)' = <<>> /\ Svc!Held(c)' = Svc!Held(c)
        BY <1>2 DEF BridgeInv, Svc!SvcTypeOK, Svc!Offered, Svc!Held
    <2>2. q'[c] = Append(q[c], x) /\ net'[c] = net[c]
        BY <1>2 DEF BridgeInv, Svc!SvcTypeOK
    <2>3. wpc[c] \in {"last", "done"} <=> wpc'[c] \in {"last", "done"}
        BY <1>2 DEF BridgeInv, Svc!SvcTypeOK
    <2> HIDE DEF x, S
    <2>4. Row(net[c], Svc!Held(c), Append(q[c], x), <<>>)
            = Row(net[c], Svc!Held(c), q[c], <<x>>)
        BY <1>1, RowPut
    <2>5. Row(net'[c], Svc!Held(c)', q'[c], Svc!Offered(c)')
            = Row(net[c], Svc!Held(c), q[c], Svc!Offered(c))
        BY <2>1, <2>2, <2>4
    <2> QED
        BY <1>2, <2>3, <2>5 DEF BridgeInv, InOrderFor, GatewayStays
<1> QED
    BY <1>4, <1>5, <1>6, <1>7 DEF Keeps

\* The task takes an item.
LEMMA GetsKeeps ==
    ASSUME BridgeInv, NEW c \in HttpCalls, Svc!Gets(c), GatewayStays
    PROVE  Svc!SvcTypeOK' /\ Keeps(c)
<1> DEFINE S == 0..MaxChunks
<1>1. /\ cpc[c] \in {"get", "leaving"} /\ q[c] # <<>>
      /\ q' = [q EXCEPT ![c] = Tail(q[c])]
      /\ UNCHANGED <<wpc, made, net>>
    BY DEF Svc!Gets
<1>2. /\ q[c] \in Seq(S) /\ net[c] \in Seq(S) /\ Svc!Offered(c) \in Seq(S)
      /\ Svc!Held(c) = <<>> /\ hand[c] = Svc!SENTINEL
    BY <1>1, CallDomains DEF BridgeInv, Joint, Svc!Held
<1>3. /\ Head(q[c]) \in S /\ Tail(q[c]) \in Seq(S)
      /\ Len(Tail(q[c])) = Len(q[c]) - 1 /\ Len(q[c]) \in Nat
    BY <1>1, <1>2, HeadTailProperties, LenProperties
<1>4. \/ cpc[c] = "leaving" /\ cpc' = [cpc EXCEPT ![c] = "gone"] /\ hand' = hand
      \/ /\ cpc[c] = "get" /\ Head(q[c]) = Svc!SENTINEL
         /\ cpc' = [cpc EXCEPT ![c] = "fin"] /\ hand' = hand
      \/ /\ cpc[c] = "get" /\ cpc' = [cpc EXCEPT ![c] = "send"]
         /\ hand' = [hand EXCEPT ![c] = Head(q[c])]
    BY DEF Svc!Gets, Svc!IsEnd
<1>5. Svc!SvcTypeOK'
    <2>1. Len(Tail(q[c])) <= QueueCap
        BY <1>3, PathAssumption DEF BridgeInv, Svc!SvcTypeOK
    <2> QED
        BY <1>1, <1>3, <1>4, <2>1 DEF BridgeInv, Svc!SvcTypeOK, Svc!TaskValues
<1>6. ASSUME NEW d \in HttpCalls \ {c}
      PROVE  Apart(d)
    BY <1>1, <1>4, <1>6 DEF BridgeInv, Svc!SvcTypeOK, GatewayStays, Apart
<1>7. Joint(c)'
    BY <1>1, <1>4 DEF BridgeInv, Joint, Svc!SvcTypeOK, GatewayStays
<1>8. ASSUME cpc[c] = "get"
      PROVE  InOrderFor(c)'
    <2>1. Svc!Held(c)' = <<Head(q[c])>>
        BY <1>2, <1>4, <1>8 DEF BridgeInv, Svc!SvcTypeOK, Svc!Held
    <2>2. q'[c] = Tail(q[c]) /\ net'[c] = net[c] /\ Svc!Offered(c)' = Svc!Offered(c)
        BY <1>1 DEF BridgeInv, Svc!SvcTypeOK, Svc!Offered
    <2> HIDE DEF S
    <2>3. Row(net[c], <<>>, q[c], Svc!Offered(c))
            = Row(net[c], <<Head(q[c])>>, Tail(q[c]), Svc!Offered(c))
        BY <1>1, <1>2, RowGet
    <2>4. Row(net'[c], Svc!Held(c)', q'[c], Svc!Offered(c)')
            = Row(net[c], Svc!Held(c), q[c], Svc!Offered(c))
        BY <1>2, <2>1, <2>2, <2>3
    <2> QED
        BY <1>1, <1>8, <2>4 DEF BridgeInv, InOrderFor, GatewayStays
<1>9. CASE cpc[c] = "leaving"
    <2>1. stream'[c] = "closed"
        BY <1>9 DEF BridgeInv, Joint, GatewayStays
    <2>2. InOrderFor(c)'
        BY <2>1 DEF InOrderFor
    <2> QED
        BY <1>5, <1>6, <1>7, <2>2 DEF Keeps
<1> QED
    BY <1>1, <1>5, <1>6, <1>7, <1>8, <1>9 DEF Keeps

\* The task sends a chunk, or the end.
LEMMA SendsKeeps ==
    ASSUME BridgeInv, NEW c \in HttpCalls, Svc!Sends(c), GatewayStays
    PROVE  Svc!SvcTypeOK' /\ Keeps(c)
<1> DEFINE S == 0..MaxChunks
<1>1. /\ hand[c] \in S /\ net[c] \in Seq(S) /\ Svc!SENTINEL \in S
      /\ cpc[c] = "fin" => hand[c] = Svc!SENTINEL
    BY CallDomains, HttpAssumption DEF BridgeInv, Joint, Svc!SENTINEL
<1>2. /\ cpc[c] \in {"send", "fin"} /\ Len(net[c]) < NetCap
      /\ net' = [net EXCEPT ![c] = Append(net[c], hand[c])]
      /\ cpc' = [cpc EXCEPT ![c] = IF cpc[c] = "send" THEN "get" ELSE "done"]
      /\ hand' = [hand EXCEPT ![c] = Svc!SENTINEL]
      /\ UNCHANGED <<wpc, made, q>>
    BY <1>1 DEF Svc!Sends
<1>3. /\ Append(net[c], hand[c]) \in Seq(S)
      /\ Len(Append(net[c], hand[c])) = Len(net[c]) + 1 /\ Len(net[c]) \in Nat
    BY <1>1, AppendProperties, LenProperties
<1>4. Svc!SvcTypeOK'
    <2>1. Len(Append(net[c], hand[c])) <= NetCap
        BY <1>2, <1>3, PathAssumption
    <2> QED
        BY <1>1, <1>2, <1>3, <2>1 DEF BridgeInv, Svc!SvcTypeOK, Svc!TaskValues
<1>5. ASSUME NEW d \in HttpCalls \ {c}
      PROVE  Apart(d)
    BY <1>2, <1>5 DEF BridgeInv, Svc!SvcTypeOK, GatewayStays, Apart
<1>6. Joint(c)'
    BY <1>2 DEF BridgeInv, Joint, Svc!SvcTypeOK, GatewayStays
<1>7. InOrderFor(c)'
    <2>1. Svc!Held(c) = <<hand[c]>> /\ Svc!Held(c)' = <<>> /\ Svc!Offered(c)' = Svc!Offered(c)
        BY <1>2 DEF BridgeInv, Svc!SvcTypeOK, Svc!Offered, Svc!Held
    <2>2. net'[c] = Append(net[c], hand[c]) /\ q'[c] = q[c]
        BY <1>2 DEF BridgeInv, Svc!SvcTypeOK
    <2> HIDE DEF S
    <2>3. Row(Append(net[c], hand[c]), <<>>, q[c], Svc!Offered(c))
            = Row(net[c], <<hand[c]>>, q[c], Svc!Offered(c))
        BY <1>1, RowSend
    <2>4. Row(net'[c], Svc!Held(c)', q'[c], Svc!Offered(c)')
            = Row(net[c], Svc!Held(c), q[c], Svc!Offered(c))
        BY <2>1, <2>2, <2>3
    <2> QED
        BY <1>2, <2>4 DEF BridgeInv, InOrderFor, GatewayStays
<1> QED
    BY <1>4, <1>5, <1>6, <1>7 DEF Keeps

\* The call arrives at the service.
LEMMA ConnectsKeeps ==
    ASSUME BridgeInv, NEW c \in HttpCalls, Connects(c)
    PROVE  Svc!SvcTypeOK' /\ Keeps(c)
<1>1. /\ c \in instructed /\ stream[c] = "open" /\ cpc[c] = "off"
      /\ wpc' = [wpc EXCEPT ![c] = "synth"] /\ cpc' = [cpc EXCEPT ![c] = "get"]
      /\ UNCHANGED <<made, q, hand, net, stream, yielded, instructed>>
    BY DEF Connects, Svc!Accept, allVars, httpVars
<1>2. Svc!SvcTypeOK'
    BY <1>1 DEF BridgeInv, Svc!SvcTypeOK, Svc!WorkerValues, Svc!TaskValues
<1>3. ASSUME NEW d \in HttpCalls \ {c}
      PROVE  Apart(d)
    BY <1>1, <1>3 DEF BridgeInv, Svc!SvcTypeOK, Apart
<1>4. Joint(c)'
    BY <1>1 DEF BridgeInv, Joint, Svc!SvcTypeOK
<1>5. InOrderFor(c)'
    BY <1>1 DEF BridgeInv, Joint, InOrderFor, Svc!SvcTypeOK, Svc!Held, Svc!Offered
<1> QED
    BY <1>2, <1>3, <1>4, <1>5 DEF Keeps

\* A chunk crosses into the gateway.
LEMMA ArrivesKeeps ==
    ASSUME BridgeInv, CallInv, NEW c \in HttpCalls, ChunkArrives(c)
    PROVE  Svc!SvcTypeOK' /\ Keeps(c)
<1> DEFINE S == 0..MaxChunks
           n == net[c]
           h == Svc!Held(c)
           p == q[c]
           o == Svc!Offered(c)
           y == yielded[c]
           m == made[c]
<1>1. /\ n # <<>> /\ Head(n) # 0
      /\ net' = [net EXCEPT ![c] = Tail(n)]
      /\ UNCHANGED <<wpc, made, q, cpc, hand, instructed>>
    BY DEF ChunkArrives, Svc!Read, Svc!SENTINEL
<1>2. /\ stream[c] = "open" /\ y < MaxChunks
      /\ yielded' = [yielded EXCEPT ![c] = y + 1]
      /\ stream' = stream
    BY DEF ChunkArrives, EngineYields
<1>3. /\ n \in Seq(S) /\ h \in Seq(S) /\ p \in Seq(S) /\ o \in Seq(S)
      /\ y \in S /\ m \in S /\ MaxChunks \in Nat
    BY CallDomains, HttpAssumption DEF BridgeInv, CallInv, CallTypes
<1>4. Tail(n) \in Seq(S) /\ Len(Tail(n)) = Len(n) - 1 /\ Len(n) \in Nat
    BY <1>1, <1>3, HeadTailProperties, LenProperties
<1>5. Svc!SvcTypeOK'
    <2>1. Len(Tail(n)) <= NetCap
        BY <1>4, PathAssumption DEF BridgeInv, Svc!SvcTypeOK
    <2> QED
        BY <1>1, <1>4, <2>1 DEF BridgeInv, Svc!SvcTypeOK
<1>6. ASSUME NEW d \in HttpCalls \ {c}
      PROVE  Apart(d)
    BY <1>1, <1>2, <1>6 DEF BridgeInv, CallInv, CallTypes, Svc!SvcTypeOK, Apart
<1>7. Joint(c)'
    BY <1>1, <1>2 DEF BridgeInv, Joint, Svc!SvcTypeOK
<1>8. ASSUME c \in instructed, cpc[c] # "dead"
      PROVE  InOrderFor(c)'
    <2>1. /\ y <= m
          /\ Row(n, h, p, o) =
                IF wpc[c] \in {"last", "done"} THEN RunEnd(y, m) ELSE Run(y, m)
        BY <1>2, <1>8 DEF BridgeInv, InOrderFor
    <2>2. /\ net'[c] = Tail(n) /\ Svc!Held(c)' = h /\ q'[c] = p /\ Svc!Offered(c)' = o
          /\ made'[c] = m /\ yielded'[c] = y + 1 /\ wpc'[c] = wpc[c] /\ stream'[c] = "open"
        BY <1>1, <1>2
        DEF BridgeInv, CallInv, CallTypes, Svc!SvcTypeOK, Svc!Held, Svc!Offered
    <2> HIDE DEF S, n, h, p, o, y, m
    <2>3. /\ Row(n, h, p, o) # <<>> /\ Head(Row(n, h, p, o)) = Head(n)
          /\ Tail(Row(n, h, p, o)) = Row(Tail(n), h, p, o)
        BY <1>1, <1>3, RowRead
    <2>4. y + 1 \in Int /\ m \in 0..MaxChunks /\ y \in 0..MaxChunks
        BY <1>3 DEF S
    <2>5. y < m => y + 1 <= m
        BY <2>4
    <2>6. Head(Row(n, h, p, o)) # 0
        BY <1>1, <2>3
    <2>7. CASE wpc[c] \in {"last", "done"}
        <3>1. Row(n, h, p, o) = RunEnd(y, m)
            BY <2>1, <2>7
        <3>2. y < m /\ Tail(Row(n, h, p, o)) = RunEnd(y + 1, m)
            BY <1>3, <2>1, <2>4, <2>6, <3>1, ReadOfRunEnd
        <3>3. Row(Tail(n), h, p, o) = RunEnd(y + 1, m)
            BY <2>3, <3>2
        <3> QED
            BY <2>2, <2>5, <2>7, <3>2, <3>3 DEF InOrderFor
    <2>8. CASE wpc[c] \notin {"last", "done"}
        <3>1. Row(n, h, p, o) = Run(y, m)
            BY <2>1, <2>8
        <3>2. y < m /\ Tail(Row(n, h, p, o)) = Run(y + 1, m)
            BY <1>3, <2>1, <2>3, <2>4, <3>1, ReadOfRun
        <3>3. Row(Tail(n), h, p, o) = Run(y + 1, m)
            BY <2>3, <3>2
        <3> QED
            BY <2>2, <2>5, <2>8, <3>2, <3>3 DEF InOrderFor
    <2> QED
        BY <2>7, <2>8
<1>9. CASE c \notin instructed \/ cpc[c] = "dead"
    <2>1. InOrderFor(c)'
        BY <1>1, <1>9 DEF InOrderFor
    <2> QED
        BY <1>5, <1>6, <1>7, <2>1 DEF Keeps
<1> QED
    BY <1>5, <1>6, <1>7, <1>8, <1>9 DEF Keeps

\* The gateway finds the end of the body.
LEMMA BodyEndsKeeps ==
    ASSUME BridgeInv, CallInv, NEW c \in HttpCalls, BodyEnds(c)
    PROVE  Svc!SvcTypeOK' /\ Keeps(c)
<1> DEFINE S == 0..MaxChunks
           n == net[c]
           h == Svc!Held(c)
           p == q[c]
           o == Svc!Offered(c)
           y == yielded[c]
           m == made[c]
<1>1. /\ n # <<>> /\ Head(n) = 0
      /\ net' = [net EXCEPT ![c] = Tail(n)]
      /\ UNCHANGED <<wpc, made, q, cpc, hand, instructed>>
    BY DEF BodyEnds, Svc!ReadEnd, Svc!SENTINEL
<1>2. /\ stream[c] = "open" /\ stream' = [stream EXCEPT ![c] = "ended"]
      /\ yielded' = yielded
    BY DEF BodyEnds, EngineEnds, EngineStops, EndsPriming, EndsStream
<1>3. /\ n \in Seq(S) /\ h \in Seq(S) /\ p \in Seq(S) /\ o \in Seq(S)
      /\ y \in S /\ m \in S /\ MaxChunks \in Nat
    BY CallDomains, HttpAssumption DEF BridgeInv, CallInv, CallTypes
<1>4. Tail(n) \in Seq(S) /\ Len(Tail(n)) = Len(n) - 1 /\ Len(n) \in Nat
    BY <1>1, <1>3, HeadTailProperties, LenProperties
<1>5. Svc!SvcTypeOK'
    <2>1. Len(Tail(n)) <= NetCap
        BY <1>4, PathAssumption DEF BridgeInv, Svc!SvcTypeOK
    <2> QED
        BY <1>1, <1>4, <2>1 DEF BridgeInv, Svc!SvcTypeOK
<1>6. ASSUME NEW d \in HttpCalls \ {c}
      PROVE  Apart(d)
    BY <1>1, <1>2, <1>6 DEF BridgeInv, CallInv, CallTypes, Svc!SvcTypeOK, Apart
<1>7. stream'[c] = "ended"
    BY <1>2 DEF CallInv, CallTypes
<1>8. ASSUME c \in instructed, cpc[c] # "dead"
      PROVE  InOrderFor(c)' /\ wpc[c] = "done"
    <2>1. /\ y <= m
          /\ Row(n, h, p, o) =
                IF wpc[c] \in {"last", "done"} THEN RunEnd(y, m) ELSE Run(y, m)
        BY <1>2, <1>8 DEF BridgeInv, InOrderFor
    <2>2. /\ net'[c] = Tail(n) /\ Svc!Held(c)' = h /\ q'[c] = p /\ Svc!Offered(c)' = o
          /\ made'[c] = m /\ yielded'[c] = y
        BY <1>1, <1>2
        DEF BridgeInv, CallInv, CallTypes, Svc!SvcTypeOK, Svc!Held, Svc!Offered
    <2>3. wpc[c] = "last" => o # <<>>
        BY DEF Svc!Offered
    <2> HIDE DEF S, n, h, p, o, y, m
    <2>4. /\ Row(n, h, p, o) # <<>> /\ Head(Row(n, h, p, o)) = Head(n)
          /\ Tail(Row(n, h, p, o)) = Row(Tail(n), h, p, o)
        BY <1>1, <1>3, RowRead
    <2>5. Head(Row(n, h, p, o)) = 0
        BY <1>1, <2>4
    <2>6. m \in 0..MaxChunks /\ y \in 0..MaxChunks
        BY <1>3 DEF S
    <2>7. Row(n, h, p, o) # Run(y, m)
        BY <1>3, <2>1, <2>4, <2>5, <2>6, ReadOfEnd
    <2>8. wpc[c] \in {"last", "done"} /\ Row(n, h, p, o) = RunEnd(y, m)
        BY <2>1, <2>7
    <2>9. y = m /\ Tail(Row(n, h, p, o)) = <<>>
        <3> DEFINE r == Row(n, h, p, o)
        <3>1. r # <<>> /\ Head(r) = 0 /\ r = RunEnd(y, m) /\ y <= m /\ MaxChunks \in Nat
            BY <1>3, <2>1, <2>4, <2>5, <2>8
        <3> HIDE DEF r
        <3>2. y = m /\ Tail(r) = <<>>
            BY <2>6, <3>1, ReadOfEnd
        <3> QED
            BY <3>2 DEF r
    <2>10. Row(Tail(n), h, p, o) = <<>>
        BY <2>4, <2>9
    <2>11. o = <<>>
        BY <1>3, <1>4, <2>10, RowEmpty
    <2>12. wpc[c] = "done"
        <3>1. wpc[c] # "last"
            BY <2>3, <2>11
        <3> QED
            BY <2>8, <3>1
    <2>13. Run(y, m) = <<>>
        BY <1>3, <2>6, <2>9, RunsOut
    <2> QED
        BY <1>7, <2>1, <2>2, <2>10, <2>12, <2>13 DEF InOrderFor
<1>9. Joint(c)'
    <2>1. /\ wpc'[c] = wpc[c] /\ cpc'[c] = cpc[c] /\ hand'[c] = hand[c]
          /\ made'[c] = made[c] /\ q'[c] = q[c] /\ (c \in instructed' <=> c \in instructed)
        BY <1>1
    <2>2. cpc[c] # "off" /\ c \in instructed
        BY <1>1 DEF BridgeInv, Joint
    <2>3. cpc[c] \notin {"leaving", "gone"} /\ stream[c] = "open"
        BY <1>2 DEF BridgeInv, Joint
    <2>4. /\ wpc[c] = "dead" => cpc[c] = "dead"
          /\ cpc[c] # "send" => hand[c] = Svc!SENTINEL
        BY DEF BridgeInv, Joint
    <2>5. cpc[c] # "dead" => wpc[c] = "done"
        BY <1>8, <2>2
    <2> HIDE DEF n
    <2> QED
        BY <1>7, <2>1, <2>2, <2>3, <2>4, <2>5 DEF Joint, Svc!SENTINEL
<1>10. c \notin instructed \/ cpc[c] = "dead" => InOrderFor(c)'
    BY <1>1 DEF InOrderFor
<1> QED
    BY <1>5, <1>6, <1>8, <1>9, <1>10 DEF Keeps

\* The service sees the gateway's connection go.
LEMMA HangsUpKeeps ==
    ASSUME BridgeInv, NEW c \in HttpCalls, HangsUp(c)
    PROVE  Svc!SvcTypeOK' /\ Keeps(c)
<1>1. /\ stream[c] = "closed" /\ cpc[c] \in {"get", "send", "fin"}
      /\ cpc' = [cpc EXCEPT ![c] = IF cpc[c] = "get" THEN "leaving" ELSE "gone"]
      /\ net' = [net EXCEPT ![c] = <<>>]
      /\ hand' = [hand EXCEPT ![c] = Svc!SENTINEL]
      /\ UNCHANGED <<wpc, made, q, stream, yielded, instructed>>
    BY DEF HangsUp, Svc!PeerGone, Svc!Unwinds, allVars, httpVars
<1>2. Svc!SvcTypeOK'
    <2>1. Svc!SENTINEL \in 0..MaxChunks /\ <<>> \in Seq(0..MaxChunks) /\ Len(<<>>) <= NetCap
        BY HttpAssumption, PathAssumption DEF Svc!SENTINEL
    <2> QED
        BY <1>1, <2>1 DEF BridgeInv, Svc!SvcTypeOK, Svc!TaskValues
<1>3. ASSUME NEW d \in HttpCalls \ {c}
      PROVE  Apart(d)
    BY <1>1, <1>3 DEF BridgeInv, Svc!SvcTypeOK, Apart
<1>4. Joint(c)'
    BY <1>1 DEF BridgeInv, Joint, Svc!SvcTypeOK, Svc!SENTINEL
<1>5. InOrderFor(c)'
    BY <1>1 DEF InOrderFor
<1> QED
    BY <1>2, <1>3, <1>4, <1>5 DEF Keeps

\* The process dies: nothing more is promised of the calls it had.
LEMMA CrashKeeps ==
    ASSUME BridgeInv, ServiceCrashes
    PROVE  BridgeInv'
<1>1. /\ wpc' = [c \in HttpCalls |-> IF wpc[c] = "off" THEN "off" ELSE "dead"]
      /\ cpc' = [c \in HttpCalls |-> IF cpc[c] = "off" THEN "off" ELSE "dead"]
      /\ q' = [c \in HttpCalls |-> <<>>]
      /\ hand' = [c \in HttpCalls |-> Svc!SENTINEL]
      /\ UNCHANGED <<made, net, stream, yielded, instructed>>
    BY DEF ServiceCrashes, Svc!Crash, allVars, httpVars
<1>2. Svc!SvcTypeOK'
    <2>1. Svc!SENTINEL \in 0..MaxChunks /\ <<>> \in Seq(0..MaxChunks) /\ Len(<<>>) <= QueueCap
        BY HttpAssumption, PathAssumption DEF Svc!SENTINEL
    <2> QED
        BY <1>1, <2>1 DEF BridgeInv, Svc!SvcTypeOK, Svc!TaskValues, Svc!WorkerValues
<1>3. ASSUME NEW c \in HttpCalls
      PROVE  Joint(c)'
    BY <1>1, <1>3 DEF BridgeInv, Joint, Svc!SvcTypeOK
<1>4. ASSUME NEW c \in HttpCalls, cpc[c] # "off"
      PROVE  InOrderFor(c)'
    BY <1>1, <1>4 DEF InOrderFor
<1>5. ASSUME NEW c \in HttpCalls, cpc[c] = "off"
      PROVE  InOrderFor(c)'
    <2>1. wpc[c] = "off" /\ q[c] = <<>>
        BY <1>5 DEF BridgeInv, Joint
    <2>2. Apart(c) \/ hand'[c] # hand[c]
        BY <1>1, <1>5, <2>1 DEF BridgeInv, Svc!SvcTypeOK, Apart
    <2>3. hand[c] = Svc!SENTINEL
        BY <1>5 DEF BridgeInv, Joint
    <2> QED
        BY <1>1, <2>2, <2>3, Untouched
<1> QED
    BY <1>1, <1>2, <1>3, <1>4, <1>5 DEF BridgeInv

-----------------------------------------------------------------------------
(* The steps of the gateway.                                                *)

\* What a step of a handler does to its generator.
LEMMA HandlerMoves ==
    ASSUME CallInv, NEW c \in HttpCalls, HandlerStep(c)
    PROVE  /\ yielded' = yielded
           /\ \/ stream'[c] = stream[c]
              \/ stream[c] = "off" /\ stream'[c] = "open"
              \/ stream'[c] = "closed"
              \/ stream[c] # "closed" /\ stream'[c] = "orphan"
<1>1. /\ pc[c] \in {"new", "queued"} => stream[c] = "off"
      /\ stream \in [HttpCalls -> StreamValues]
    BY DEF CallInv, CallTypes, GoodCall, Good
<1>2. CASE Refuse(c) \/ ClientStalls(c) \/ ClientLeaves(c) \/ ServerCancels(c)
             \/ SendCompletes(c) \/ LastSent(c) \/ EndSent(c) \/ CancelledSending(c)
    BY <1>2 DEF Refuse, ClientStalls, ClientLeaves, ServerCancels, SendCompletes,
                LastSent, EndSent, CancelledSending, httpVars
<1>3. CASE (\E s \in Shapes : Asks(c, s)) \/ Resumes(c)
    BY <1>1, <1>3, Phases DEF Asks, Resumes, Begins
<1>4. CASE CancelledPulling(c) \/ Finalized(c) \/ OrphanCloses(c)
    BY <1>1, <1>4 DEF CancelledPulling, Finalized, OrphanCloses, Open
<1>5. CASE CancelledEarly(c)
    BY <1>1, <1>5, Phases DEF CancelledEarly
<1> QED
    BY <1>2, <1>3, <1>4, <1>5 DEF HandlerStep

\* A step of the gateway that leaves the service alone.
LEMMA GatewayKeeps ==
    ASSUME BridgeInv, CallInv, NEW c \in HttpCalls, GatewayStep(c)
    PROVE  Svc!SvcTypeOK' /\ Keeps(c)
<1>1. /\ HandlerStep(c) /\ Others(c) /\ UNCHANGED <<wpc, made, q, cpc, hand, net>>
      /\ \/ instructed' = instructed
         \/ shape[c] = "none" /\ instructed' = instructed \cup {c}
    BY CallKeeps DEF GatewayStep, svcVars
<1>2. Svc!SvcTypeOK'
    BY <1>1 DEF BridgeInv, Svc!SvcTypeOK
<1>3. ASSUME NEW d \in HttpCalls \ {c}
      PROVE  Apart(d)
    BY <1>1, <1>3 DEF Others, Apart
<1>4. /\ yielded' = yielded
      /\ \/ stream'[c] = stream[c]
         \/ stream[c] = "off" /\ stream'[c] = "open"
         \/ stream'[c] = "closed"
         \/ stream[c] # "closed" /\ stream'[c] = "orphan"
    BY <1>1, HandlerMoves
<1>5. /\ stream[c] = "off" => yielded[c] = 0
      /\ shape[c] = "none" => stream[c] = "off"
    BY DEF CallInv, CallTypes, GoodCall, Good
<1>6. Joint(c)'
    BY <1>1, <1>4, <1>5 DEF BridgeInv, Joint, Svc!SENTINEL
<1>7. InOrderFor(c)'
    <2>1. CASE c \in instructed /\ stream'[c] = stream[c]
        BY <1>1, <1>4, <2>1 DEF BridgeInv, InOrderFor, Svc!Held, Svc!Offered, Svc!SENTINEL
    <2>2. CASE c \in instructed' /\ stream[c] = "off" /\ stream'[c] = "open"
        <3>1. /\ cpc[c] = "off" /\ wpc[c] = "off" /\ made[c] = 0 /\ q[c] = <<>>
              /\ net[c] = <<>> /\ yielded[c] = 0
            BY <1>5, <2>2 DEF BridgeInv, Joint
        <3>2. /\ cpc'[c] = "off" /\ wpc'[c] = "off" /\ made'[c] = 0 /\ q'[c] = <<>>
              /\ net'[c] = <<>> /\ yielded'[c] = 0
            BY <1>1, <1>4, <3>1
        <3>3. Svc!Held(c)' = <<>> /\ Svc!Offered(c)' = <<>>
            BY <3>2 DEF Svc!Held, Svc!Offered
        <3>4. Row(<<>>, <<>>, <<>>, <<>>) = <<>>
            BY DEF Row
        <3>5. Run(0, 0) = <<>>
            BY HttpAssumption, RunsOut
        <3>6. 0 <= 0
            OBVIOUS
        <3> QED
            BY <2>2, <3>2, <3>3, <3>4, <3>5, <3>6 DEF InOrderFor
    <2>3. CASE c \notin instructed' \/ stream'[c] \notin {"open", "ended"}
        BY <2>3 DEF InOrderFor
    <2> QED
        BY <1>1, <1>4, <1>5, <2>1, <2>2, <2>3
<1> QED
    BY <1>2, <1>3, <1>6, <1>7 DEF Keeps

\* The other backend, and the calls that never reach the service or lose it.
LEMMA EngineKeeps ==
    ASSUME BridgeInv, CallInv, NEW c \in HttpCalls,
           FastStep(c) \/ FastStalls(c) \/ SaysNothing(c) \/ ConnectFails(c) \/ Breaks(c)
    PROVE  Svc!SvcTypeOK' /\ Keeps(c)
<1>1. /\ EngineAnswers(c) \/ EngineStalls(c)
      /\ UNCHANGED <<wpc, made, q, cpc, hand, net, instructed>>
    BY DEF FastStep, FastStalls, SaysNothing, ConnectFails, Breaks, EngineAnswers, svcVars
<1>2. Others(c)
    BY <1>1, CallKeeps
<1>3. Svc!SvcTypeOK'
    BY <1>1 DEF BridgeInv, Svc!SvcTypeOK
<1>4. ASSUME NEW d \in HttpCalls \ {c}
      PROVE  Apart(d)
    BY <1>1, <1>2, <1>4 DEF Others, Apart
<1>5. CASE c \notin instructed
    BY <1>1, <1>3, <1>4, <1>5
    DEF BridgeInv, Joint, InOrderFor, Keeps, Svc!SENTINEL
<1>6. CASE c \in instructed
    <2>1. /\ stream[c] = "open" /\ yielded' = yielded
          /\ \/ stream'[c] \in {"failed", "cut"} /\ cpc[c] \in {"off", "dead"}
             \/ stream'[c] = "ended" /\ cpc[c] = "off"
        BY <1>6
        DEF FastStep, FastStalls, SaysNothing, ConnectFails, Breaks, EngineEnds,
            EngineFails, EngineCut, EngineStops, EndsPriming, EndsStream, CallInv, CallTypes
    <2>2. Joint(c)'
        BY <1>1, <2>1 DEF BridgeInv, Joint, Svc!SENTINEL
    <2>3. CASE stream'[c] \in {"failed", "cut"}
        BY <1>3, <1>4, <2>2, <2>3 DEF InOrderFor, Keeps
    <2>4. CASE stream'[c] = "ended"
        <3>1. wpc[c] = "off"
            BY <2>1, <2>4 DEF BridgeInv, Joint
        <3>2. InOrderFor(c)'
            BY <1>1, <1>6, <2>1, <2>4, <3>1
            DEF BridgeInv, InOrderFor, Svc!Held, Svc!Offered, Svc!SENTINEL
        <3> QED
            BY <1>3, <1>4, <2>2, <3>2 DEF Keeps
    <2> QED
        BY <2>1, <2>3, <2>4
<1> QED
    BY <1>5, <1>6

\* A step of the path of one call.
LEMMA PathKeeps ==
    ASSUME BridgeInv, CallInv, NEW c \in HttpCalls,
           \/ GatewayStep(c) \/ FastStep(c) \/ FastStalls(c)
           \/ Connects(c) \/ SaysNothing(c) \/ ConnectFails(c) \/ Reading(c)
           \/ HangsUp(c) \/ ServiceStep(c)
    PROVE  BridgeInv'
<1>2. Svc!SvcTypeOK' /\ Keeps(c)
    <2>1. CASE ServiceStep(c)
        <3>1. GatewayStays
            BY <2>1 DEF ServiceStep, GatewayStays, allVars, httpVars
        <3>2. yielded \in [HttpCalls -> 0..MaxChunks]
            BY DEF CallInv, CallTypes
        <3> QED
            BY <2>1, <3>1, <3>2, SynthesizesKeeps, PutsKeeps, GetsKeeps, SendsKeeps
            DEF ServiceStep
    <2>2. CASE ~ServiceStep(c)
        BY <2>2, GatewayKeeps, EngineKeeps, ConnectsKeeps, ArrivesKeeps,
           BodyEndsKeeps, HangsUpKeeps
        DEF Reading
    <2> QED
        BY <2>1, <2>2
<1>3. instructed' \subseteq HttpCalls
    BY DEF BridgeInv, GatewayStep, FastStep, FastStalls, Connects, SaysNothing,
           ConnectFails, Reading, ChunkArrives, BodyEnds, Breaks, HangsUp, ServiceStep
<1>4. ASSUME NEW d \in HttpCalls, d # c
      PROVE  Joint(d)' /\ InOrderFor(d)'
    BY <1>2, <1>4, Untouched DEF Keeps
<1> QED
    BY <1>2, <1>3, <1>4 DEF BridgeInv, Keeps

-----------------------------------------------------------------------------
(* The theorems.                                                            *)

\* The invariants of the gateway's calls hold on the path.
LEMMA PathCalls == PathSpec => []CallInv
BY PathIsHttp, CallInvariance

\* The inductive invariant of the bridge.
THEOREM BridgeInvariance == PathSpec => []BridgeInv
<1>1. PathInit => BridgeInv
    <2> SUFFICES ASSUME PathInit PROVE BridgeInv
        OBVIOUS
    <2>1. Svc!SvcTypeOK
        BY HttpAssumption, PathAssumption
        DEF PathInit, Svc!SvcInit, Svc!SvcTypeOK, Svc!WorkerValues, Svc!TaskValues,
            Svc!SENTINEL
    <2>2. ASSUME NEW c \in HttpCalls
          PROVE  Joint(c) /\ InOrderFor(c)
        BY <2>2 DEF PathInit, HttpInit, Svc!SvcInit, Joint, InOrderFor
    <2> QED
        BY <2>1, <2>2 DEF BridgeInv, PathInit
<1>2. BridgeInv /\ CallInv /\ [PathNext]_pathVars => BridgeInv'
    <2> SUFFICES ASSUME BridgeInv, CallInv, [PathNext]_pathVars PROVE BridgeInv'
        OBVIOUS
    <2>1. CASE UNCHANGED <<stream, yielded, instructed, wpc, made, q, cpc, hand, net>>
        <3>1. Svc!SvcTypeOK' /\ instructed' \subseteq HttpCalls
            BY <2>1 DEF BridgeInv, Svc!SvcTypeOK
        <3>2. ASSUME NEW c \in HttpCalls
              PROVE  Joint(c)' /\ InOrderFor(c)'
            BY <2>1, <3>2, Untouched DEF Apart
        <3> QED
            BY <3>1, <3>2 DEF BridgeInv
    <2>2. CASE UNCHANGED pathVars
        BY <2>1, <2>2 DEF pathVars, allVars, httpVars, svcVars
    <2>3. ASSUME NEW s \in Sessions, SessionStep(s), UNCHANGED <<instructed, svcVars>>
          PROVE  BridgeInv'
        BY <2>1, <2>3 DEF SessionStep, httpVars, svcVars
    <2>4. CASE HttpFinished /\ UNCHANGED <<instructed, svcVars>>
        BY <2>1, <2>4 DEF HttpFinished, allVars, httpVars, svcVars
    <2> QED
        BY <2>2, <2>3, <2>4, PathKeeps, CrashKeeps DEF PathNext
<1> QED
    BY <1>1, <1>2, PathCalls, PTL DEF PathSpec

\* Nothing is lost, doubled or reordered between the model and the gateway, and
\* the end comes after the last chunk (cosyvoice_service/app.py:315-336).
THEOREM BridgeOrder == PathSpec => []BridgeInOrder
<1>1. ASSUME BridgeInv, CallInv
      PROVE  BridgeInOrder
    <2> SUFFICES ASSUME NEW c \in instructed,
                        stream[c] \in {"open", "ended"}, cpc[c] # "dead"
                 PROVE  Svc!InFlight(c) = Unread(c) \o UnreadEnd(c)
        BY DEF BridgeInOrder
    <2>1. /\ c \in HttpCalls /\ InOrderFor(c)
          /\ made[c] \in 0..MaxChunks /\ yielded[c] \in 0..MaxChunks
        <3>1. c \in HttpCalls
            BY <1>1 DEF BridgeInv
        <3>2. InOrderFor(c)
            BY <1>1, <3>1 DEF BridgeInv
        <3> QED
            BY <1>1, <3>1, <3>2 DEF BridgeInv, CallInv, CallTypes, Svc!SvcTypeOK
    <2>2. /\ Svc!InFlight(c) = Row(net[c], Svc!Held(c), q[c], Svc!Offered(c))
          /\ Unread(c) = Run(yielded[c], made[c])
        BY DEF Svc!InFlight, Row, Unread, Run
    <2>3. yielded[c] <= made[c]
        BY <2>1 DEF InOrderFor
    <2>4. Run(yielded[c], made[c]) \in Seq(0..MaxChunks)
        BY <2>1, <2>3, HttpAssumption, Runs
    <2>5. Run(yielded[c], made[c]) \o <<>> = Run(yielded[c], made[c])
        BY <2>4, ConcatEmptySeq
    <2> QED
        BY <2>1, <2>2, <2>5 DEF InOrderFor, RunEnd, UnreadEnd, Svc!SENTINEL
<1> QED
    BY <1>1, PathCalls, BridgeInvariance, PTL

\* Types of gateway and service: the queue and the connection never hold more
\* than they take (cosyvoice_service/app.py:315).
THEOREM PathTypes == PathSpec => []PathTypeOK
<1>1. BridgeInv /\ CallInv => PathTypeOK
    BY CallInvSuffices DEF BridgeInv, PathTypeOK
<1> QED
    BY <1>1, PathCalls, BridgeInvariance, PTL

=============================================================================
