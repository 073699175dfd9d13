---------------------------- MODULE SessionProofs ----------------------------
(***************************************************************************)
(* Proofs about Session.tla, for every size of the queues and every bound. *)
(* The argument: (1) types; (2) Inv is inductive, where most actions are   *)
(* quiet for it (they start or end no close() and leave the sender alone), *)
(* and the rest enter close(), advance it, or are steps of the sender;     *)
(* (3) with Inv known, AttendedInv: close() is never stuck.                *)
(***************************************************************************)
EXTENDS Session, SequenceTheorems, TLAPS

-----------------------------------------------------------------------------
(* Types.                                                                   *)

\* A frame that is put keeps out_queue within its maxsize: one that does not
\* fit is refused (session.py:108-137).
LEMMA PutType ==
    ASSUME TypeOK, NEW items \in Seq(Items), NEW st \in States,
           NEW tasks \in [Tasks -> PcValues], Put(items, st, tasks)
    PROVE  /\ state' \in States
           /\ terminal' \in Terminals \cup {"none"}
           /\ outQueue' \in Seq(Items) /\ Len(outQueue') <= OutCap
           /\ pc' \in [Tasks -> PcValues]
<1>1. /\ outQueue \in Seq(Items) /\ Len(outQueue) <= OutCap
      /\ terminal \in Terminals \cup {"none"} /\ state \in States
    BY DEF TypeOK
<1>2. FirstTerminal("error") \in Terminals \cup {"none"}
    BY <1>1 DEF FirstTerminal, Terminals
<1>3. "lock" \in PcValues /\ "client_slow" \in Tasks /\ "CLOSING" \in States
    BY DEF PcValues, Tasks, Closers, States, Closing
<1>4. SpawnSlowClose(tasks) \in [Tasks -> PcValues]
    BY <1>3 DEF SpawnSlowClose
<1>5. CASE outQueue' = outQueue
    BY <1>1, <1>2, <1>3, <1>4, <1>5 DEF Put
<1>6. CASE outQueue' = outQueue \o items /\ FitsOut(Len(items))
    <2>1. outQueue' \in Seq(Items) /\ Len(outQueue') = Len(outQueue) + Len(items)
        BY <1>1, <1>6, ConcatProperties
    <2> QED
        BY <1>1, <1>2, <1>3, <1>4, <1>6, <2>1 DEF Put, FitsOut
<1>7. CASE outQueue' = Append(outQueue, Head(items)) /\ Len(items) = 2 /\ FitsOut(1)
    <2>1. Head(items) \in Items
        <3>1. Len(items) = 2
            BY <1>7
        <3>2. 1 \in 1..Len(items)
            BY <3>1
        <3>3. items[1] \in Items
            BY <3>2, ElementOfSeq, Zenon
        <3>4. Head(items) = items[1]
            BY DEF Head
        <3> QED
            BY <3>3, <3>4
    <2>2. outQueue' \in Seq(Items) /\ Len(outQueue') = Len(outQueue) + 1
        BY <1>1, <1>7, <2>1, AppendProperties
    <2> QED
        BY <1>1, <1>2, <1>3, <1>4, <1>7, <2>2 DEF Put, FitsOut
<1> QED
    BY <1>5, <1>6, <1>7 DEF Put

\* Whatever close() finds, it leaves states, tasks and the lock well typed.
LEMMA CallCloseType ==
    ASSUME TypeOK, NEW c \in Closers, EnterClose(c) \/ CallClose(c)
    PROVE  /\ state' \in States
           /\ pc' \in [Tasks -> PcValues]
           /\ cancelReq' \subseteq Tasks
           /\ closeLock' \in Closers \cup {"none"}
<1>1. /\ pc \in [Tasks -> PcValues] /\ state \in States /\ cancelReq \subseteq Tasks
      /\ closeLock \in Closers \cup {"none"}
    BY DEF TypeOK
<1>2. /\ {"done", "abort", "reap", "lock"} \subseteq PcValues
      /\ c \in Tasks /\ "CLOSING" \in States /\ Siblings(c) \subseteq Tasks
    BY DEF PcValues, InClose, Tasks, States, Closing, Siblings
<1>3. /\ [pc EXCEPT ![c] = "done"] \in [Tasks -> PcValues]
      /\ [pc EXCEPT ![c] = "abort"] \in [Tasks -> PcValues]
      /\ [pc EXCEPT ![c] = "reap"] \in [Tasks -> PcValues]
      /\ [pc EXCEPT ![c] = "lock"] \in [Tasks -> PcValues]
    BY <1>1, <1>2
<1>4. CancelProducers(c) => /\ pc' \in [Tasks -> PcValues]
                            /\ cancelReq' \subseteq Tasks
    BY <1>1, <1>2, <1>3 DEF CancelProducers
<1>5. CASE EnterClose(c)
    BY <1>1, <1>2, <1>3, <1>4, <1>5 DEF EnterClose, lockVars
<1> QED
    BY <1>1, <1>2, <1>3, <1>5 DEF CallClose, lockVars

\* A frame has one terminal kind, whoever sets it first.
LEMMA FirstTerminalType ==
    ASSUME TypeOK, NEW kind \in Terminals
    PROVE  FirstTerminal(kind) \in Terminals
BY DEF TypeOK, FirstTerminal, Terminals

\* Text that is accepted fits in text_queue.
LEMMA TextType ==
    ASSUME TypeOK, NEW items \in Seq({"text", "end"})
    PROVE  /\ TextFits(items) =>
                /\ textQueue \o items \in Seq({"text", "end"})
                /\ Len(textQueue \o items) <= TextCap
           /\ ~TextFits(items) =>
                LET cut == SubSeq(items, 1, TextCap - Len(textQueue)) IN
                /\ textQueue \o cut \in Seq({"text", "end"})
                /\ Len(textQueue \o cut) <= TextCap
<1>1. /\ textQueue \in Seq({"text", "end"}) /\ Len(textQueue) \in Nat
      /\ Len(textQueue) <= TextCap /\ TextCap \in Nat /\ Len(items) \in Nat
    BY SessionAssumption DEF TypeOK
<1>2. ASSUME TextFits(items)
      PROVE  /\ textQueue \o items \in Seq({"text", "end"})
             /\ Len(textQueue \o items) <= TextCap
    <2>1. /\ textQueue \o items \in Seq({"text", "end"})
          /\ Len(textQueue \o items) = Len(textQueue) + Len(items)
        BY <1>1, ConcatProperties
    <2> QED
        BY <1>2, <2>1 DEF TextFits
<1>3. ASSUME ~TextFits(items), NEW cut, cut = SubSeq(items, 1, TextCap - Len(textQueue))
      PROVE  /\ textQueue \o cut \in Seq({"text", "end"})
             /\ Len(textQueue \o cut) <= TextCap
    <2> DEFINE k == TextCap - Len(textQueue)
    <2>1. k \in Nat /\ k <= Len(items)
        BY <1>1, <1>3 DEF TextFits
    <2>2. cut \in Seq({"text", "end"}) /\ Len(cut) = k
        BY <1>1, <1>3, <2>1
    <2>3. /\ textQueue \o cut \in Seq({"text", "end"})
          /\ Len(textQueue \o cut) = Len(textQueue) + Len(cut)
        BY <1>1, <2>2, ConcatProperties
    <2> QED
        BY <1>1, <2>2, <2>3
<1> QED
    BY <1>2, <1>3

\* The sentences of a frame, and the end marker after them, are text items.
LEMMA SentencesType ==
    ASSUME NEW n \in Nat
    PROVE  /\ Sentences(n) \in Seq({"text", "end"})
           /\ Append(Sentences(n), "end") \in Seq({"text", "end"})
<1>1. Sentences(n) \in [1..n -> {"text", "end"}]
    BY DEF Sentences
<1>2. Sentences(n) \in Seq({"text", "end"})
    BY <1>1, SeqDef
<1> QED
    BY <1>2, AppendProperties


\* The steps that only run close(), or call it.
LEMMA CloseType ==
    ASSUME TypeOK, NEW c \in Closers, Close(c)
    PROVE  TypeOK'
<1> USE DEF TypeOK
<1>1. /\ {"reap", "ws", "sentinel", "cut", "drain", "done"} \subseteq PcValues
      /\ c \in Tasks /\ "sender" \in Tasks /\ "CLOSED" \in States
      /\ Siblings(c) \subseteq Tasks
    BY DEF PcValues, InClose, Tasks, States, Closing, Siblings
<1>2. \A x \in {"reap", "ws", "sentinel", "cut", "drain", "done"} :
        [pc EXCEPT ![c] = x] \in [Tasks -> PcValues]
    BY <1>1
<1>3. CASE AcquireLock(c)
    BY <1>3, CallCloseType
    DEF AcquireLock, senderVars, clientVars, engineVars
<1>4. CASE AbortReturns(c)
    BY <1>1, <1>2, <1>4
    DEF AbortReturns, CancelProducers, senderVars, clientVars, engineVars
<1>5. CASE StopSender(c)
    BY <1>1, <1>2, <1>5 DEF StopSender, senderVars, clientVars, engineVars
<1>6. CASE PutSentinel(c)
    <2>1. /\ outQueue' \in Seq(Items) /\ Len(outQueue') <= OutCap
        <3>1. "SENTINEL" \in Items /\ Len(outQueue) < OutCap
                /\ outQueue' = Append(outQueue, "SENTINEL")
            BY <1>6 DEF PutSentinel, Items
        <3>2. outQueue' \in Seq(Items) /\ Len(outQueue') = Len(outQueue) + 1
            BY <3>1, AppendProperties
        <3> QED
            BY <3>1, <3>2, SessionAssumption
    <2> QED
        BY <1>1, <1>2, <1>6, <2>1
        DEF PutSentinel, lockVars, senderVars, clientVars, engineVars
<1>7. CASE CutSender(c)
    BY <1>1, <1>2, <1>7 DEF CutSender, senderVars, clientVars, engineVars
<1>8. CASE SenderStopped(c)
    BY <1>1, <1>2, <1>8
    DEF SenderStopped, lockVars, senderVars, clientVars, engineVars
<1>9. CASE CloseSocket(c)
    BY <1>1, <1>2, <1>9 DEF CloseSocket, senderVars, engineVars
<1> QED
    BY <1>3, <1>4, <1>5, <1>6, <1>7, <1>8, <1>9 DEF Close

\* The frames of the client.
LEMMA ReceiveType ==
    ASSUME TypeOK, Receive \/ EndpointLeaves
    PROVE  TypeOK'
<1> USE DEF TypeOK
<1>0. "endpoint" \in Closers
    BY DEF Closers
<1>1. /\ {"new", "wait", "recv", "exit"} \subseteq PcValues
      /\ {"tts", "supervisor", "endpoint"} \subseteq Tasks
      /\ {"STARTED", "ENDING"} \subseteq States
      /\ {"error", "cancelled"} \subseteq Terminals
    BY DEF PcValues, Tasks, Producers, Closers, States, Terminals
<1>2. <<"event">> \in Seq(Items) /\ <<"rejected">> \in Seq(Items)
    BY DEF Items, Frames
<1>3. CASE ReceiveStart
    <2>1. [pc EXCEPT !["tts"] = "new", !["supervisor"] = "wait"]
            \in [Tasks -> PcValues]
        BY <1>1
    <2> QED
        BY <1>1, <1>2, <1>3, <2>1, PutType
        DEF ReceiveStart, lockVars, senderVars, clientVars, engineVars
<1>4. CASE ReceiveRejected
    <2>1. PICK after \in {"recv", "exit"} :
            Put(<<"rejected">>, state, [pc EXCEPT !["endpoint"] = after])
        BY <1>4 DEF ReceiveRejected
    <2>2. [pc EXCEPT !["endpoint"] = after] \in [Tasks -> PcValues]
        BY <1>1
    <2>3. chatter' \in 0..MaxChatter
        BY <1>4, SessionAssumption DEF ReceiveRejected
    <2> QED
        BY <1>2, <1>4, <2>1, <2>2, <2>3, PutType
        DEF ReceiveRejected, lockVars, senderVars, clientVars, engineVars
<1>5. CASE ReceiveWhileClosing \/ EndpointLeaves
    BY <1>0, <1>5, CallCloseType
    DEF ReceiveWhileClosing, EndpointLeaves, senderVars, clientVars, engineVars
<1>6. CASE ReceiveCancel \/ ReceiveCrashes
    BY <1>0, <1>1, <1>6, CallCloseType, FirstTerminalType
    DEF ReceiveCancel, ReceiveCrashes, senderVars, clientVars, engineVars
<1>7. ASSUME NEW items \in Seq({"text", "end"}), Backpressure(items)
      PROVE  /\ textQueue' \in Seq({"text", "end"}) /\ Len(textQueue') <= TextCap
             /\ terminal' \in Terminals \cup {"none"}
             /\ endpointDrain' \in BOOLEAN
             /\ state' \in States
             /\ pc' \in [Tasks -> PcValues]
             /\ cancelReq' \subseteq Tasks
             /\ closeLock' \in Closers \cup {"none"}
    BY <1>0, <1>1, <1>7, CallCloseType, FirstTerminalType, TextType
    DEF Backpressure
<1>8. ASSUME NEW items \in Seq({"text", "end"}), TextFits(items),
             textQueue' = textQueue \o items
      PROVE  textQueue' \in Seq({"text", "end"}) /\ Len(textQueue') <= TextCap
    BY <1>8, TextType
<1>9. CASE ReceiveText
    <2>1. PICK n \in 1..MaxSplit :
            \/ Backpressure(Sentences(n))
            \/ /\ TextFits(Sentences(n))
               /\ textQueue' = textQueue \o Sentences(n)
               /\ UNCHANGED <<state, terminal, pc, lockVars, endpointDrain>>
        BY <1>9 DEF ReceiveText
    <2>2. Sentences(n) \in Seq({"text", "end"})
        BY SentencesType, SessionAssumption
    <2>3. UNCHANGED <<started, outQueue, senderVars, clientVars, engineVars, chatter>>
        BY <1>9 DEF ReceiveText
    <2>4. CASE Backpressure(Sentences(n))
        BY <1>7, <2>2, <2>3, <2>4 DEF senderVars, clientVars, engineVars
    <2>5. CASE ~Backpressure(Sentences(n))
        <3>1. textQueue' \in Seq({"text", "end"}) /\ Len(textQueue') <= TextCap
            BY <1>8, <2>1, <2>2, <2>5
        <3> QED
            BY <1>1, <2>1, <2>3, <2>5, <3>1
            DEF lockVars, senderVars, clientVars, engineVars
    <2> QED
        BY <2>4, <2>5
<1>10. CASE ReceiveFlush
    <2>1. PICK n \in 0..1 :
            \/ Backpressure(Sentences(n)) /\ UNCHANGED outQueue
            \/ /\ TextFits(Sentences(n))
               /\ textQueue' = textQueue \o Sentences(n)
               /\ Put(<<"event">>, state,
                      IF FitsOut(1) THEN pc ELSE [pc EXCEPT !["endpoint"] = "exit"])
               /\ UNCHANGED <<lockVars, endpointDrain>>
        BY <1>10 DEF ReceiveFlush
    <2>2. Sentences(n) \in Seq({"text", "end"})
        <3>1. n \in Nat
            OBVIOUS
        <3> QED
            BY <3>1, SentencesType
    <2>3. UNCHANGED <<started, senderVars, clientVars, engineVars>>
            /\ chatter' \in 0..MaxChatter
        BY <1>10, SessionAssumption DEF ReceiveFlush
    <2>4. (IF FitsOut(1) THEN pc ELSE [pc EXCEPT !["endpoint"] = "exit"])
            \in [Tasks -> PcValues]
        BY <1>1
    <2>5. CASE Backpressure(Sentences(n)) /\ UNCHANGED outQueue
        BY <1>7, <2>2, <2>3, <2>5 DEF senderVars, clientVars, engineVars
    <2>6. CASE ~(Backpressure(Sentences(n)) /\ UNCHANGED outQueue)
        <3>1. /\ textQueue' \in Seq({"text", "end"}) /\ Len(textQueue') <= TextCap
            BY <1>8, <2>1, <2>2, <2>6
        <3>2. /\ state' \in States
              /\ terminal' \in Terminals \cup {"none"}
              /\ outQueue' \in Seq(Items) /\ Len(outQueue') <= OutCap
              /\ pc' \in [Tasks -> PcValues]
            BY <1>2, <2>1, <2>4, <2>6, PutType
        <3> QED
            BY <2>1, <2>3, <2>6, <3>1, <3>2
            DEF lockVars, senderVars, clientVars, engineVars
    <2> QED
        BY <2>5, <2>6
<1>11. CASE ReceiveEnd
    <2>1. PICK n \in 0..1 :
            \/ Backpressure(Append(Sentences(n), "end"))
            \/ /\ TextFits(Append(Sentences(n), "end"))
               /\ textQueue' = textQueue \o Append(Sentences(n), "end")
               /\ state' = "ENDING"
               /\ UNCHANGED <<terminal, pc, lockVars, endpointDrain>>
        BY <1>11 DEF ReceiveEnd
    <2>2. Append(Sentences(n), "end") \in Seq({"text", "end"})
        <3>1. n \in Nat
            OBVIOUS
        <3> QED
            BY <3>1, SentencesType
    <2>3. UNCHANGED <<started, outQueue, senderVars, clientVars, engineVars, chatter>>
        BY <1>11 DEF ReceiveEnd
    <2>4. CASE Backpressure(Append(Sentences(n), "end"))
        BY <1>7, <2>2, <2>3, <2>4 DEF senderVars, clientVars, engineVars
    <2>5. CASE ~Backpressure(Append(Sentences(n), "end"))
        <3>1. textQueue' \in Seq({"text", "end"}) /\ Len(textQueue') <= TextCap
            BY <1>8, <2>1, <2>2, <2>5
        <3> QED
            BY <1>1, <2>1, <2>3, <2>5, <3>1
            DEF lockVars, senderVars, clientVars, engineVars
    <2> QED
        BY <2>4, <2>5
<1> QED
    BY <1>3, <1>4, <1>5, <1>6, <1>9, <1>10, <1>11 DEF Receive

\* run_tts, the timers and the supervisor.
LEMMA TaskType ==
    ASSUME TypeOK,
           \/ TtsBegins \/ TtsGranted \/ Engine
           \/ HeartbeatBeats \/ WatchdogFires \/ SupervisorWakes
           \/ \E t \in Producers : LoopReturns(t) \/ ProducerCancelled(t)
    PROVE  TypeOK'
<1> USE DEF TypeOK
<1>1. /\ {"synth", "slot", "done"} \subseteq PcValues
      /\ {"tts", "supervisor", "watchdog", "heartbeat"} \subseteq Tasks
      /\ Producers \subseteq Tasks
      /\ {"done", "error"} \subseteq Terminals
    BY DEF PcValues, Tasks, Producers, Closers, Terminals
<1>2. /\ <<"event">> \in Seq(Items) /\ <<"event", "event">> \in Seq(Items)
      /\ <<"audio">> \in Seq(Items)
    BY DEF Items, Frames
<1>3. \A t \in Tasks : \A x \in {"synth", "slot", "done"} :
        [pc EXCEPT ![t] = x] \in [Tasks -> PcValues]
    BY <1>1
<1>4. CASE TtsBegins \/ TtsGranted
    <2>1. PICK items \in {<<"event">>, <<"event", "event">>},
               x \in {"synth", "slot"} :
            Put(items, state, [pc EXCEPT !["tts"] = x])
        BY <1>4 DEF TtsBegins, TtsGranted
    <2>2. /\ state' \in States
          /\ terminal' \in Terminals \cup {"none"}
          /\ outQueue' \in Seq(Items) /\ Len(outQueue') <= OutCap
          /\ pc' \in [Tasks -> PcValues]
        BY <1>1, <1>2, <1>3, <2>1, PutType
    <2> QED
        BY <1>4, <2>2
        DEF TtsBegins, TtsGranted, lockVars, senderVars, clientVars, engineVars
<1>5. CASE EngineReads
    <2>1. /\ textQueue' \in Seq({"text", "end"}) /\ Len(textQueue') <= TextCap
          /\ textEnded' \in BOOLEAN
        <3>1. textQueue # <<>> /\ textQueue' = Tail(textQueue)
                /\ textEnded' = (Head(textQueue) = "end")
            BY <1>5 DEF EngineReads
        <3>2. textQueue' \in Seq({"text", "end"}) /\ Len(textQueue') = Len(textQueue) - 1
            BY <3>1, HeadTailProperties
        <3> QED
            BY <3>1, <3>2, SessionAssumption
    <2> QED
        BY <1>5, <2>1 DEF EngineReads, lockVars, senderVars, clientVars
<1>6. CASE EngineYields
    <2>1. generated' \in 0..MaxAudio
        BY <1>6, SessionAssumption DEF EngineYields
    <2>2. /\ state' \in States
          /\ terminal' \in Terminals \cup {"none"}
          /\ outQueue' \in Seq(Items) /\ Len(outQueue') <= OutCap
          /\ pc' \in [Tasks -> PcValues]
        <3>1. CASE Put(<<"audio">>, state,
                       IF FitsOut(1) THEN pc ELSE [pc EXCEPT !["tts"] = "done"])
            BY <1>1, <1>2, <1>3, <3>1, PutType
        <3>2. CASE /\ terminal' = FirstTerminal("done")
                   /\ pc' = [pc EXCEPT !["tts"] = "done"]
                   /\ UNCHANGED <<state, outQueue>>
            BY <1>1, <1>3, <3>2, FirstTerminalType
        <3> QED
            BY <1>6, <3>1, <3>2 DEF EngineYields
    <2> QED
        BY <1>6, <2>1, <2>2
        DEF EngineYields, lockVars, senderVars, clientVars
<1>7. CASE EngineEnds \/ EngineFails
    <2>1. terminal' \in Terminals /\ pc' \in [Tasks -> PcValues]
        BY <1>1, <1>3, <1>7, FirstTerminalType DEF EngineEnds, EngineFails
    <2>2. complete' \in BOOLEAN
        BY <1>7 DEF EngineEnds, EngineFails, engineVars
    <2> QED
        BY <1>7, <2>1, <2>2
        DEF EngineEnds, EngineFails, lockVars, senderVars, clientVars, engineVars
<1>8. CASE HeartbeatBeats
    <2>1. chatter' \in 0..MaxChatter
        BY <1>8, SessionAssumption DEF HeartbeatBeats
    <2>2. Put(<<"event">>, state,
              IF FitsOut(1) THEN pc ELSE [pc EXCEPT !["heartbeat"] = "done"])
        BY <1>8 DEF HeartbeatBeats
    <2>3. /\ state' \in States
          /\ terminal' \in Terminals \cup {"none"}
          /\ outQueue' \in Seq(Items) /\ Len(outQueue') <= OutCap
          /\ pc' \in [Tasks -> PcValues]
        BY <1>1, <1>2, <1>3, <2>2, PutType
    <2> QED
        BY <1>8, <2>1, <2>3
        DEF HeartbeatBeats, lockVars, senderVars, clientVars, engineVars
<1>9. CASE WatchdogFires
    BY <1>1, <1>3, <1>9, FirstTerminalType
    DEF WatchdogFires, lockVars, senderVars, clientVars, engineVars
<1>10. CASE SupervisorWakes
    <2>1. "supervisor" \in Closers
        BY DEF Closers
    <2> QED
        BY <1>1, <1>3, <1>10, <2>1, CallCloseType
        DEF SupervisorWakes, lockVars, senderVars, clientVars, engineVars
<1>11. CASE \E t \in Producers : LoopReturns(t) \/ ProducerCancelled(t)
    BY <1>1, <1>3, <1>11
    DEF LoopReturns, ProducerCancelled, lockVars, senderVars, clientVars, engineVars
<1> QED
    BY <1>4, <1>5, <1>6, <1>7, <1>8, <1>9, <1>10, <1>11 DEF Engine

\* The sender, and the environment.
LEMMA SenderType ==
    ASSUME TypeOK, SenderInv,
           SenderLocal \/ SenderWrites \/ ServerShutsDown \/ ClientDrops
    PROVE  TypeOK'
<1> USE DEF TypeOK
<1>1. /\ {"term", "done", "send", "get", "lock", "cterm"} \subseteq PcValues
      /\ {"sender", "sender_failed", "server_shutdown"} \subseteq Tasks
      /\ "CLOSING" \in States /\ "error" \in Terminals
    BY DEF PcValues, Tasks, Closers, States, Closing, Terminals
<1>2. \A x \in {"term", "done", "send", "get", "lock", "cterm"} :
        [pc EXCEPT !["sender"] = x] \in [Tasks -> PcValues]
    BY <1>1
<1>3. ASSUME outQueue # <<>>
      PROVE  /\ Head(outQueue) \in Items
             /\ Tail(outQueue) \in Seq(Items) /\ Len(Tail(outQueue)) <= OutCap
    <2>1. /\ Head(outQueue) \in Items
          /\ Tail(outQueue) \in Seq(Items) /\ Len(Tail(outQueue)) = Len(outQueue) - 1
        BY <1>3, HeadTailProperties
    <2> QED
        BY <2>1, SessionAssumption
<1>4. CASE SenderStops
    BY <1>2, <1>3, <1>4
    DEF SenderStops, OwesTerminal, lockVars, clientVars, engineVars
<1>5. CASE SenderDrops
    BY <1>3, <1>5 DEF SenderDrops, lockVars, senderVars, clientVars, engineVars
<1>6. CASE SenderTakes
    <2>1. hand' \in Frames
        BY <1>3, <1>6 DEF SenderTakes, Items
    <2> QED
        BY <1>2, <1>3, <1>6, <2>1 DEF SenderTakes, lockVars, clientVars, engineVars
<1>7. ASSUME pc["sender"] = "send"
      PROVE  Append(wire, hand) \in Seq(Frames \cup Terminals)
    BY <1>7, AppendProperties DEF SenderInv
<1>8. ASSUME pc["sender"] \in {"term", "cterm"}
      PROVE  Append(wire, terminal) \in Seq(Frames \cup Terminals)
    BY <1>8, AppendProperties DEF SenderInv
<1>9. CASE SenderFails
    <2>1. [pc EXCEPT !["sender"] = "done", !["sender_failed"] = "lock"]
            \in [Tasks -> PcValues]
        BY <1>1
    <2> QED
        BY <1>1, <1>9, <2>1 DEF SenderFails, lockVars, clientVars, engineVars
<1>10. CASE SenderSends
    BY <1>2, <1>7, <1>10 DEF SenderSends, Runs, lockVars, engineVars
<1>11. CASE SenderCancelled
    <2>1. wire' \in Seq(Frames \cup Terminals)
        BY <1>7, <1>8, <1>11 DEF SenderCancelled
    <2>2. pc' \in [Tasks -> PcValues]
        BY <1>2, <1>11 DEF SenderCancelled
    <2>3. sentTerminal' \in BOOLEAN
        BY <1>11 DEF SenderCancelled, OwesTerminal
    <2> QED
        BY <1>11, <2>1, <2>2, <2>3 DEF SenderCancelled, lockVars, engineVars
<1>12. CASE SenderSendsTerminal
    BY <1>2, <1>8, <1>12
    DEF SenderSendsTerminal, AtTerminal, Runs, lockVars, senderVars, engineVars
<1>13. CASE SenderLosesTerminal
    BY <1>2, <1>13
    DEF SenderLosesTerminal, lockVars, senderVars, clientVars, engineVars
<1>14. CASE ServerShutsDown
    <2>1. [pc EXCEPT !["server_shutdown"] = "lock"] \in [Tasks -> PcValues]
        BY <1>1
    <2> QED
        BY <1>1, <1>14, <2>1, FirstTerminalType
        DEF ServerShutsDown, lockVars, senderVars, clientVars, engineVars
<1>15. CASE ClientDrops
    BY <1>15 DEF ClientDrops, lockVars, senderVars, engineVars
<1> QED
    BY <1>4, <1>5, <1>6, <1>9, <1>10, <1>11, <1>12, <1>13, <1>14, <1>15
    DEF SenderLocal, SenderWrites

-----------------------------------------------------------------------------
(* The invariant.                                                           *)

\* A step that neither starts, advances nor ends a close() and does not touch
\* the sender: no state leaves CLOSING, and no producer starts in it.
QuietStep ==
    /\ UNCHANGED <<closeLock, cancelReq, sentTerminal, hand, wire>>
    /\ \A t \in {"sender", "sender_failed"} : pc'[t] = pc[t]
    /\ terminal # "none" => terminal' = terminal
    /\ state \in Closing => state' = state
    /\ state \notin Closing => state' # "CLOSED"
    /\ \A c \in Closers :
        pc'[c] = pc[c] \/ (pc[c] \notin InClose /\ pc'[c] \notin InClose)
    /\ \A t \in Producers : Alive(t)' => Alive(t) \/ state \notin Closing

\* Quiet steps keep the invariant.
LEMMA QuietKeepsInv ==
    ASSUME Inv, TypeOK', QuietStep
    PROVE  Inv'
<1> USE DEF Inv, QuietStep
<1>1. Alive("sender")' = Alive("sender")
    BY DEF Alive
<1>2. SenderInv'
    BY <1>1 DEF SenderInv
<1>3. LockInv'
    BY <1>1 DEF LockInv
<1>4. ProgressInv'
    <2> SUFFICES ASSUME NEW c \in Closers, pc'[c] \in InClose
                 PROVE  /\ pc'[c] \in {"sentinel", "drain", "cut", "ws"}
                            => SiblingsStopped(c)'
                        /\ pc'[c] = "ws" <=> state' = "CLOSED"
        BY DEF ProgressInv, InClose
    <2>1. pc'[c] = pc[c] /\ state \in Closing /\ state' = state
        BY DEF LockInv, Closers
    <2>2. SiblingsStopped(c) => SiblingsStopped(c)'
        BY <2>1 DEF SiblingsStopped, Siblings
    <2> QED
        BY <2>1, <2>2 DEF ProgressInv
<1>5. TerminalFrameIsLast'
    BY DEF TerminalFrameIsLast
<1>6. QuietWhenClosed'
    BY <1>1 DEF QuietWhenClosed, Closing
<1> QED
    BY <1>2, <1>3, <1>4, <1>5, <1>6

\* Putting frames is quiet: a refused one makes the session CLOSING and
\* spawns a close() (session.py:108-137) only where none is under way.
LEMMA PutIsQuiet ==
    ASSUME Inv, NEW items, NEW st \in States, NEW tasks \in [Tasks -> PcValues],
           Put(items, st, tasks),
           UNCHANGED <<closeLock, cancelReq, sentTerminal, hand, wire>>,
           st = state \/ {st, state} \cap Closing = {},
           \A c \in Closers \cup {"sender"} :
                tasks[c] = pc[c] \/ {tasks[c], pc[c]} \cap InClose = {},
           \A t \in {"sender", "sender_failed"} : tasks[t] = pc[t],
           \A t \in Producers :
                tasks[t] \notin {"off", "done"} => Alive(t) \/ state \notin Closing
    PROVE  QuietStep
<1>1. state \notin Closing => \A c \in Closers : pc[c] \notin InClose
    BY DEF Inv, LockInv, Closers
<1>2. /\ terminal # "none" => terminal' = terminal
      /\ st \in Closing => state' = st
      /\ st \notin Closing => state' \in {st, "CLOSING"}
    BY DEF Put, FirstTerminal
<1>3. \/ pc' = tasks
      \/ st \notin Closing /\ pc' = [tasks EXCEPT !["client_slow"] = "lock"]
    BY DEF Put, SpawnSlowClose
<1>4. CASE pc' = tasks
    BY <1>2, <1>4 DEF QuietStep, Alive, Closing
<1>5. CASE st \notin Closing /\ pc' = [tasks EXCEPT !["client_slow"] = "lock"]
    <2>1. "lock" \notin InClose
        BY DEF InClose
    <2>2. /\ \A t \in {"sender", "sender_failed"} : pc'[t] = tasks[t]
          /\ \A t \in Producers : pc'[t] = tasks[t]
        BY <1>5 DEF Tasks, Producers, Closers
    <2>3. \A c \in Closers :
            pc'[c] = pc[c] \/ (pc[c] \notin InClose /\ pc'[c] \notin InClose)
        BY <1>1, <1>5, <2>1 DEF Tasks
    <2> QED
        BY <1>2, <1>5, <2>2, <2>3 DEF QuietStep, Alive, Closing
<1> QED
    BY <1>3, <1>4, <1>5

\* Entering close(), or queueing for its lock, keeps the invariant.
LEMMA CallCloseKeepsInv ==
    ASSUME Inv, TypeOK', NEW c \in Closers, CallClose(c),
           Alive(c), pc[c] \notin InClose, c \notin cancelReq \/ c # "supervisor",
           terminal # "none" => terminal' = terminal,
           UNCHANGED <<sentTerminal, hand, wire>>
    PROVE  Inv'
<1>1. /\ pc \in [Tasks -> PcValues] /\ c \in Tasks /\ c # "sender"
      /\ state \in States
    BY DEF Inv, TypeOK, Tasks, Closers
<1>2. CASE UNCHANGED <<state, lockVars>> /\ \E x \in {"done", "lock"} :
                pc' = [pc EXCEPT ![c] = x]
    <2>1. {"done", "lock"} \cap InClose = {}
        BY DEF InClose
    <2>2. c = "sender_failed" => ~Alive("sender")
        BY DEF Inv, LockInv, Alive
    <2>3. PICK x \in {"done", "lock"} : pc' = [pc EXCEPT ![c] = x]
        BY <1>2
    <2>4. c # "sender_failed" => QuietStep
        BY <1>1, <1>2, <2>1, <2>3
        DEF QuietStep, lockVars, Alive, Closing, Closers, Tasks
    <2>5. CASE c = "sender_failed"
        <3>1. \A t \in Tasks \ {"sender_failed"} : pc'[t] = pc[t]
            BY <1>1, <2>3, <2>5
        <3>2. \A t \in Producers \cup {"sender"} : pc'[t] = pc[t]
            BY <3>1 DEF Tasks, Closers, Producers
        <3>3. \A d \in Closers :
                pc'[d] = pc[d] \/ (pc[d] \notin InClose /\ pc'[d] \notin InClose)
            BY <1>1, <2>1, <2>3, <3>1 DEF Tasks
        <3> QED
            BY <1>2, <2>2, <3>2, <3>3
            DEF Inv, SenderInv, LockInv, ProgressInv, TerminalFrameIsLast,
                QuietWhenClosed, SiblingsStopped, Siblings, Alive, lockVars
    <2> QED
        BY <2>4, <2>5, QuietKeepsInv
<1>3. CASE /\ closeLock = "none" /\ ~AlreadyClosed
           /\ state' = "CLOSING" /\ closeLock' = c
           /\ \E x \in {"abort", "reap"} : pc' = [pc EXCEPT ![c] = x]
           /\ c = "supervisor" => "supervisor" \notin cancelReq'
    <2>1. PICK x \in {"abort", "reap"} : pc' = [pc EXCEPT ![c] = x]
        BY <1>3
    <2>2. x \in InClose /\ x \notin {"sentinel", "drain", "cut", "ws", "off", "done"}
        BY DEF InClose
    <2>3. /\ pc'[c] = x
          /\ \A t \in Tasks \ {c} : pc'[t] = pc[t]
        BY <1>1, <2>1
    <2>4. pc'["sender"] = pc["sender"]
        BY <1>1, <2>3 DEF Tasks
    <2>5. \A d \in Closers \ {c} : pc'[d] = pc[d] /\ pc[d] \notin InClose
        BY <1>3, <2>3 DEF Inv, LockInv, Tasks, Closers
    <2>6. SenderInv'
        BY <2>4 DEF Inv, SenderInv, Alive
    <2>7. LockInv'
        <3>1. \A d \in Closers : pc'[d] \in InClose <=> closeLock' = d
            BY <1>3, <2>2, <2>3, <2>5
        <3>2. pc'["sender_failed"] # "off" => ~Alive("sender")'
            BY <2>3, <2>4 DEF Inv, LockInv, Alive, Tasks, Closers
        <3> QED
            BY <1>3, <3>1, <3>2 DEF LockInv, Closing
    <2>8. ProgressInv'
        BY <1>3, <2>2, <2>3, <2>5 DEF ProgressInv, InClose
    <2> QED
        BY <1>3, <2>6, <2>7, <2>8
        DEF Inv, TerminalFrameIsLast, QuietWhenClosed
<1>4. CallClose(c) =>
        \/ UNCHANGED <<state, lockVars>> /\ \E x \in {"done", "lock"} :
                pc' = [pc EXCEPT ![c] = x]
        \/ /\ closeLock = "none" /\ ~AlreadyClosed
           /\ state' = "CLOSING" /\ closeLock' = c
           /\ \E x \in {"abort", "reap"} : pc' = [pc EXCEPT ![c] = x]
           /\ c = "supervisor" => "supervisor" \notin cancelReq'
    BY DEF CallClose, EnterClose, CancelProducers, Siblings
<1> QED
    BY <1>2, <1>3, <1>4

\* What a client frame does keeps the invariant.
LEMMA ReceiveKeepsInv ==
    ASSUME Inv, Receive \/ EndpointLeaves
    PROVE  Inv'
<1>0. TypeOK'
    BY ReceiveType DEF Inv
<1>1. /\ pc \in [Tasks -> PcValues] /\ state \in States
      /\ {"recv", "exit", "new", "wait"} \subseteq PcValues
      /\ {"recv", "exit", "new", "wait"} \cap (InClose \cup {"off", "done"}) = {}
      /\ {"STARTED", "ENDING"} \subseteq States \ Closing
      /\ "AUTHENTICATED" \notin Closing
    BY DEF Inv, TypeOK, PcValues, InClose, States, Closing
<1>2. ASSUME CallClose("endpoint"), pc["endpoint"] \in {"recv", "exit"},
             terminal # "none" => terminal' = terminal,
             UNCHANGED <<senderVars, clientVars>>
      PROVE  Inv'
    <2>1. "endpoint" \in Closers /\ Alive("endpoint")
            /\ pc["endpoint"] \notin InClose
        BY <1>1, <1>2 DEF Closers, Alive
    <2>2. UNCHANGED <<sentTerminal, hand, wire>>
        BY <1>2 DEF senderVars, clientVars
    <2> QED
        BY <1>0, <1>2, <2>1, <2>2, CallCloseKeepsInv
<1>3. \A kind : terminal # "none" => FirstTerminal(kind) = terminal
    BY DEF FirstTerminal
<1>4. CASE ReceiveWhileClosing \/ EndpointLeaves \/ ReceiveCancel \/ ReceiveCrashes
    BY <1>2, <1>3, <1>4
    DEF ReceiveWhileClosing, EndpointLeaves, ReceiveCancel, ReceiveCrashes,
        Receiving, clientVars
<1>5. ASSUME NEW items, Backpressure(items), Receiving,
             UNCHANGED <<senderVars, clientVars>>
      PROVE  Inv'
    BY <1>2, <1>3, <1>5 DEF Backpressure, Receiving
<1>6. CASE ReceiveStart
    <2>1. /\ state = "AUTHENTICATED"
          /\ Put(<<"event">>, "STARTED",
                 [pc EXCEPT !["tts"] = "new", !["supervisor"] = "wait"])
          /\ UNCHANGED <<closeLock, cancelReq, sentTerminal, hand, wire>>
        BY <1>6 DEF ReceiveStart, lockVars, senderVars, clientVars
    <2> DEFINE tasks == [pc EXCEPT !["tts"] = "new", !["supervisor"] = "wait"]
    <2>2. /\ tasks \in [Tasks -> PcValues]
          /\ tasks["supervisor"] = "wait" /\ tasks["tts"] = "new"
          /\ \A t \in Tasks \ {"supervisor", "tts"} : tasks[t] = pc[t]
        BY <1>1 DEF Tasks, Producers, Closers
    <2>3. pc["supervisor"] \notin InClose
        BY <1>1, <2>1 DEF Inv, LockInv, Closers
    <2> HIDE DEF tasks
    <2>4. \A c \in Closers \cup {"sender"} :
            tasks[c] = pc[c] \/ {tasks[c], pc[c]} \cap InClose = {}
        BY <1>1, <2>2, <2>3 DEF Tasks, Closers
    <2>5. \A t \in {"sender", "sender_failed"} : tasks[t] = pc[t]
        BY <2>2 DEF Tasks, Closers
    <2>6. Put(<<"event">>, "STARTED", tasks)
        BY <2>1 DEF tasks
    <2>7. state \notin Closing /\ {"STARTED", state} \cap Closing = {}
        BY <1>1, <2>1
    <2>8. QuietStep
        BY <1>1, <2>1, <2>2, <2>4, <2>5, <2>6, <2>7, PutIsQuiet
    <2> QED
        BY <1>0, <2>8, QuietKeepsInv
<1>7. ASSUME NEW items, Put(items, state, pc)
                \/ \E x \in {"recv", "exit"} :
                    Put(items, state, [pc EXCEPT !["endpoint"] = x]),
             Receiving, UNCHANGED <<lockVars, senderVars, clientVars>>
      PROVE  Inv'
    <2>1. PICK x \in {"recv", "exit"} :
            Put(items, state, [pc EXCEPT !["endpoint"] = x])
        <3>1. pc = [pc EXCEPT !["endpoint"] = "recv"]
            BY <1>1, <1>7 DEF Receiving
        <3> QED
            BY <1>7, <3>1
    <2> DEFINE tasks == [pc EXCEPT !["endpoint"] = x]
    <2>2. /\ tasks \in [Tasks -> PcValues] /\ tasks["endpoint"] = x
          /\ \A t \in Tasks \ {"endpoint"} : tasks[t] = pc[t]
        BY <1>1 DEF Tasks, Closers
    <2> HIDE DEF tasks
    <2>3. \A c \in Closers \cup {"sender"} :
            tasks[c] = pc[c] \/ {tasks[c], pc[c]} \cap InClose = {}
        BY <1>1, <1>7, <2>2 DEF Tasks, Closers, Receiving
    <2>4. /\ \A t \in {"sender", "sender_failed"} : tasks[t] = pc[t]
          /\ \A t \in Producers : tasks[t] = pc[t]
        BY <2>2 DEF Tasks, Closers, Producers
    <2>5. Put(items, state, tasks)
        BY <2>1 DEF tasks
    <2>6. UNCHANGED <<closeLock, cancelReq, sentTerminal, hand, wire>>
        BY <1>7 DEF lockVars, senderVars, clientVars
    <2>7. QuietStep
        BY <1>1, <2>2, <2>3, <2>4, <2>5, <2>6, PutIsQuiet DEF Alive
    <2> QED
        BY <1>0, <2>7, QuietKeepsInv
<1>8. CASE ReceiveRejected
    BY <1>7, <1>8 DEF ReceiveRejected
<1>9. ASSUME UNCHANGED <<terminal, pc, lockVars, senderVars, clientVars>>,
             state' = state \/ (state = "STARTED" /\ state' = "ENDING")
      PROVE  Inv'
    <2>1. QuietStep
        BY <1>1, <1>9
        DEF QuietStep, lockVars, senderVars, clientVars, Alive, Closing
    <2> QED
        BY <1>0, <2>1, QuietKeepsInv
<1>10. CASE ReceiveText
    BY <1>5, <1>9, <1>10 DEF ReceiveText
<1>11. CASE ReceiveFlush
    <2>1. PICK n \in 0..1 :
            \/ Backpressure(Sentences(n))
            \/ /\ Put(<<"event">>, state, IF FitsOut(1) THEN pc
                                          ELSE [pc EXCEPT !["endpoint"] = "exit"])
               /\ UNCHANGED lockVars
        BY <1>11 DEF ReceiveFlush
    <2> QED
        BY <1>5, <1>7, <1>11, <2>1 DEF ReceiveFlush
<1>12. CASE ReceiveEnd
    BY <1>5, <1>9, <1>12 DEF ReceiveEnd
<1> QED
    BY <1>4, <1>6, <1>8, <1>10, <1>11, <1>12 DEF Receive

\* What run_tts, the timers and the supervisor do keeps the invariant.
LEMMA TaskKeepsInv ==
    ASSUME Inv,
           \/ TtsBegins \/ TtsGranted \/ Engine
           \/ HeartbeatBeats \/ WatchdogFires \/ SupervisorWakes
           \/ \E t \in Producers : LoopReturns(t) \/ ProducerCancelled(t)
    PROVE  Inv'
<1>0. TypeOK'
    BY TaskType DEF Inv
<1>1. /\ pc \in [Tasks -> PcValues] /\ state \in States
      /\ {"synth", "slot", "done"} \subseteq PcValues
      /\ {"synth", "slot", "done"} \cap InClose = {}
      /\ Producers \subseteq Tasks /\ "sender" \notin Producers
      /\ "sender_failed" \notin Producers
    BY DEF Inv, TypeOK, PcValues, InClose, Tasks, Producers, Closers
<1>2. \A kind : terminal # "none" => FirstTerminal(kind) = terminal
    BY DEF FirstTerminal
\* A producer other than the supervisor moves to x, which is not in close().
<1>3. ASSUME NEW t \in Producers \ {"supervisor"}, NEW x \in {"synth", "slot", "done"},
             Alive(t)
      PROVE  LET tasks == [pc EXCEPT ![t] = x] IN
             /\ tasks \in [Tasks -> PcValues]
             /\ \A c \in Closers \cup {"sender"} : tasks[c] = pc[c]
             /\ \A u \in Producers : tasks[u] \notin {"off", "done"} => Alive(u)
    BY <1>1, <1>3 DEF Producers, Closers, Tasks, Alive
<1>4. ASSUME NEW t \in Producers \ {"supervisor"}, NEW x \in {"synth", "slot", "done"},
             Alive(t), NEW items,
             Put(items, state, pc) \/ Put(items, state, [pc EXCEPT ![t] = x]),
             UNCHANGED <<lockVars, senderVars, clientVars>>
      PROVE  Inv'
    <2>1. PICK tasks \in {pc, [pc EXCEPT ![t] = x]} : Put(items, state, tasks)
        BY <1>4
    <2>2. /\ tasks \in [Tasks -> PcValues]
          /\ \A c \in Closers \cup {"sender"} : tasks[c] = pc[c]
          /\ \A u \in Producers : tasks[u] \notin {"off", "done"} => Alive(u)
        <3>1. CASE tasks = pc
            BY <1>1, <3>1 DEF Alive
        <3>2. CASE tasks = [pc EXCEPT ![t] = x]
            BY <1>1, <1>4, <3>2 DEF Producers, Closers, Tasks, Alive
        <3> QED
            BY <3>1, <3>2
    <2>3. UNCHANGED <<closeLock, cancelReq, sentTerminal, hand, wire>>
        BY <1>4 DEF lockVars, senderVars, clientVars
    <2>4. \A u \in {"sender", "sender_failed"} : tasks[u] = pc[u]
        BY <2>2 DEF Closers
    <2>5. QuietStep
        BY <1>1, <2>1, <2>2, <2>3, <2>4, PutIsQuiet
    <2> QED
        BY <1>0, <2>5, QuietKeepsInv
<1>5. ASSUME NEW t \in Producers \ {"supervisor"},
             Alive(t), pc' = [pc EXCEPT ![t] = "done"],
             terminal # "none" => terminal' = terminal,
             UNCHANGED <<state, lockVars, senderVars, clientVars>>
      PROVE  Inv'
    <2>1. /\ \A c \in Closers \cup {"sender"} : pc'[c] = pc[c]
          /\ \A u \in Producers : Alive(u)' => Alive(u)
        BY <1>3, <1>5 DEF Alive
    <2>2. \A u \in {"sender", "sender_failed"} : pc'[u] = pc[u]
        BY <2>1 DEF Closers
    <2>3. state \notin Closing => state' # "CLOSED"
        BY <1>5 DEF Closing
    <2>4. UNCHANGED <<closeLock, cancelReq, sentTerminal, hand, wire>>
        BY <1>5 DEF lockVars, senderVars, clientVars
    <2>5. QuietStep
        BY <1>5, <2>1, <2>2, <2>3, <2>4 DEF QuietStep
    <2> QED
        BY <1>0, <2>5, QuietKeepsInv
<1>6. /\ {"tts", "heartbeat", "watchdog"} \subseteq Producers \ {"supervisor"}
      /\ \A t \in Tasks : pc[t] \in {"new", "slot", "synth", "sleep", "wait"} => Alive(t)
    BY DEF Producers, Alive
<1>7. CASE TtsBegins \/ TtsGranted
    BY <1>1, <1>4, <1>6, <1>7
    DEF TtsBegins, TtsGranted, Runs, lockVars, senderVars, clientVars
<1>8. CASE EngineReads
    <2>1. QuietStep
        BY <1>8 DEF EngineReads, QuietStep, lockVars, senderVars, clientVars,
                    Alive, Closing
    <2> QED
        BY <1>0, <2>1, QuietKeepsInv
<1>9. CASE EngineYields \/ EngineEnds \/ EngineFails
    <2>1. "tts" \in Producers \ {"supervisor"} /\ Alive("tts")
            /\ UNCHANGED <<lockVars, senderVars, clientVars>>
        BY <1>1, <1>6, <1>9
        DEF EngineYields, EngineEnds, EngineFails, Runs, lockVars, senderVars,
            clientVars
    <2>2. CASE \/ Put(<<"audio">>, state, pc)
               \/ Put(<<"audio">>, state, [pc EXCEPT !["tts"] = "done"])
        BY <1>4, <2>1, <2>2
    <2>3. CASE /\ pc' = [pc EXCEPT !["tts"] = "done"] /\ state' = state
               /\ terminal # "none" => terminal' = terminal
        BY <1>5, <2>1, <2>3
    <2>4. \/ Put(<<"audio">>, state, pc)
          \/ Put(<<"audio">>, state, [pc EXCEPT !["tts"] = "done"])
          \/ /\ pc' = [pc EXCEPT !["tts"] = "done"] /\ state' = state
             /\ terminal # "none" => terminal' = terminal
        BY <1>2, <1>9 DEF EngineYields, EngineEnds, EngineFails
    <2> QED
        BY <2>2, <2>3, <2>4
<1>10. CASE HeartbeatBeats
    <2>1. "heartbeat" \in Producers \ {"supervisor"} /\ Alive("heartbeat")
            /\ UNCHANGED <<lockVars, senderVars, clientVars>>
        BY <1>1, <1>6, <1>10
        DEF HeartbeatBeats, Runs, lockVars, senderVars, clientVars
    <2>2. \/ Put(<<"event">>, state, pc)
          \/ Put(<<"event">>, state, [pc EXCEPT !["heartbeat"] = "done"])
        BY <1>10 DEF HeartbeatBeats
    <2> QED
        BY <1>4, <2>1, <2>2
<1>11. CASE WatchdogFires
    BY <1>1, <1>2, <1>5, <1>6, <1>11 DEF WatchdogFires, Runs
<1>12. CASE SupervisorWakes
    <2>1. /\ pc["supervisor"] = "wait" /\ "supervisor" \notin cancelReq
          /\ UNCHANGED <<terminal, sentTerminal, hand, wire>>
        BY <1>12 DEF SupervisorWakes, Runs, senderVars, clientVars
    <2>2. "supervisor" \in Closers /\ Alive("supervisor") /\ "wait" \notin InClose
        BY <2>1 DEF Closers, Alive, InClose
    <2>3. CASE CallClose("supervisor")
        BY <1>0, <2>1, <2>2, <2>3, CallCloseKeepsInv
    <2>4. CASE /\ pc' = [pc EXCEPT !["supervisor"] = "done"]
               /\ UNCHANGED <<state, lockVars>>
        <3>1. \A t \in Tasks \ {"supervisor"} : pc'[t] = pc[t]
            BY <1>1, <2>4
        <3>2. pc'["supervisor"] = "done"
            BY <1>1, <2>4 DEF Producers
        <3>3. \A c \in Closers : pc'[c] = pc[c] \/
                (pc[c] \notin InClose /\ pc'[c] \notin InClose)
            BY <1>1, <2>1, <2>2, <3>1, <3>2 DEF Tasks
        <3>4. \A t \in Producers : Alive(t)' => Alive(t)
            BY <1>1, <3>1, <3>2 DEF Alive
        <3>5. \A t \in {"sender", "sender_failed"} : pc'[t] = pc[t]
            BY <3>1 DEF Tasks, Closers
        <3>6. QuietStep
            BY <2>1, <2>4, <3>3, <3>4, <3>5 DEF QuietStep, lockVars, Closing
        <3> QED
            BY <1>0, <3>6, QuietKeepsInv
    <2> QED
        BY <1>12, <2>3, <2>4 DEF SupervisorWakes
<1>13. CASE \E t \in Producers : LoopReturns(t) \/ ProducerCancelled(t)
    <2>1. PICK t \in Producers : LoopReturns(t) \/ ProducerCancelled(t)
        BY <1>13
    <2>2. /\ Alive(t) /\ pc' = [pc EXCEPT ![t] = "done"]
          /\ UNCHANGED <<state, terminal, lockVars, senderVars, clientVars>>
        BY <2>1 DEF LoopReturns, ProducerCancelled, Runs, Alive
    <2>3. CASE t # "supervisor"
        BY <1>5, <2>2, <2>3
    <2>4. CASE t = "supervisor"
        <3>1. pc["supervisor"] \notin InClose
            BY <2>1, <2>4
            DEF LoopReturns, ProducerCancelled, Inv, LockInv, Closers
        <3>2. \A u \in Tasks \ {"supervisor"} : pc'[u] = pc[u]
            BY <1>1, <2>2, <2>4
        <3>3. pc'["supervisor"] = "done"
            BY <1>1, <2>2, <2>4
        <3>4. \A c \in Closers : pc'[c] = pc[c] \/
                (pc[c] \notin InClose /\ pc'[c] \notin InClose)
            BY <1>1, <3>1, <3>2, <3>3 DEF Tasks
        <3>5. \A u \in Producers : Alive(u)' => Alive(u)
            BY <1>1, <3>2, <3>3 DEF Alive
        <3>6. \A u \in {"sender", "sender_failed"} : pc'[u] = pc[u]
            BY <3>2 DEF Tasks, Closers
        <3>7. QuietStep
            BY <2>2, <3>4, <3>5, <3>6
            DEF QuietStep, lockVars, senderVars, clientVars, Closing
        <3> QED
            BY <1>0, <3>7, QuietKeepsInv
    <2> QED
        BY <2>3, <2>4
<1> QED
    BY <1>7, <1>8, <1>9, <1>10, <1>11, <1>12, <1>13 DEF Engine

\* What the environment does keeps the invariant.
LEMMA EnvironmentKeepsInv ==
    ASSUME Inv, ServerShutsDown \/ ClientDrops
    PROVE  Inv'
<1>0. TypeOK'
    BY SenderType DEF Inv
<1>1. CASE ServerShutsDown
    <2>1. /\ pc["server_shutdown"] = "off"
          /\ pc' = [pc EXCEPT !["server_shutdown"] = "lock"]
          /\ terminal # "none" => terminal' = terminal
          /\ UNCHANGED <<state, closeLock, cancelReq, sentTerminal, hand, wire>>
        BY <1>1
        DEF ServerShutsDown, FirstTerminal, lockVars, senderVars, clientVars
    <2>2. pc \in [Tasks -> PcValues] /\ {"off", "lock"} \cap InClose = {}
        BY DEF Inv, TypeOK, InClose
    <2>3. \A t \in Tasks \ {"server_shutdown"} : pc'[t] = pc[t]
        BY <2>1, <2>2
    <2>4. /\ \A t \in Producers : pc'[t] = pc[t]
          /\ \A t \in {"sender", "sender_failed"} : pc'[t] = pc[t]
        BY <2>3 DEF Tasks, Producers, Closers
    <2>5. \A c \in Closers : pc'[c] = pc[c] \/
            (pc[c] \notin InClose /\ pc'[c] \notin InClose)
        BY <2>1, <2>2, <2>3 DEF Tasks
    <2>6. QuietStep
        BY <2>1, <2>4, <2>5 DEF QuietStep, Alive, Closing
    <2> QED
        BY <1>0, <2>6, QuietKeepsInv
<1>2. CASE ClientDrops
    <2>1. QuietStep
        BY <1>2 DEF ClientDrops, QuietStep, lockVars, senderVars, Alive, Closing
    <2> QED
        BY <1>0, <2>1, QuietKeepsInv
<1> QED
    BY <1>1, <1>2

\* A stage of close() that its caller c, who holds the lock, completes keeps
\* the invariant; the producers are not touched by it.
LEMMA CloseKeepsInv ==
    ASSUME Inv, NEW c \in Closers, Close(c)
    PROVE  Inv'
<1>0. TypeOK'
    BY CloseType DEF Inv
<1>1. /\ pc \in [Tasks -> PcValues] /\ c \in Tasks /\ c # "sender"
      /\ state \in States /\ "none" \notin Closers
    BY DEF Inv, TypeOK, Tasks, Closers
<1>2. CASE AcquireLock(c)
    <2>1. /\ CallClose(c) /\ pc[c] = "lock" /\ c \notin cancelReq
          /\ UNCHANGED <<terminal, sentTerminal, hand, wire>>
        BY <1>2 DEF AcquireLock, CallClose, Runs, senderVars, clientVars
    <2>2. Alive(c) /\ pc[c] \notin InClose
        BY <2>1 DEF Alive, InClose
    <2> QED
        BY <1>0, <2>1, <2>2, CallCloseKeepsInv
\* The stages after it: c is at x, and goes to y.
<1>3. ASSUME NEW y \in InClose, pc[c] \in InClose, pc' = [pc EXCEPT ![c] = y],
             \/ /\ y \notin {"sentinel", "drain", "cut", "ws"}
                /\ pc[c] # "ws" /\ state' = state
             \/ /\ y \in {"sentinel", "drain", "cut"} /\ SiblingsStopped(c)
                /\ pc[c] # "ws" /\ state' = state
             \/ /\ y = "ws" /\ SiblingsStopped(c)
                /\ ~Alive("sender") /\ state' = "CLOSED",
             UNCHANGED <<closeLock, terminal, senderVars, clientVars>>,
             "supervisor" \in cancelReq' => "supervisor" \in cancelReq \/ c # "supervisor"
      PROVE  Inv'
    <2>1. /\ pc'[c] = y
          /\ \A t \in Tasks \ {c} : pc'[t] = pc[t]
        BY <1>1, <1>3
    <2>2. closeLock = c /\ state \in Closing
        BY <1>1, <1>3 DEF Inv, LockInv
    <2>3. state' \in Closing
        BY <1>3, <2>2 DEF Closing
    <2>4. pc'["sender"] = pc["sender"] /\ Alive("sender")' = Alive("sender")
        BY <1>1, <2>1 DEF Tasks, Alive
    <2>5. \A t \in Producers : Alive(t)' => Alive(t) \/ t = c
        BY <2>1 DEF Alive, Tasks
    <2>6. SiblingsStopped(c) => SiblingsStopped(c)'
        BY <2>5 DEF SiblingsStopped, Siblings
    <2>7. \A d \in Closers \ {c} : pc'[d] = pc[d] /\ pc[d] \notin InClose
        BY <1>1, <2>1, <2>2 DEF Inv, LockInv, Tasks
    <2>8. UNCHANGED <<closeLock, terminal, sentTerminal, hand, wire>>
        BY <1>3 DEF senderVars, clientVars
    <2>9. SenderInv'
        BY <2>4, <2>8 DEF Inv, SenderInv
    <2>10. LockInv'
        <3>1. \A d \in Closers : pc'[d] \in InClose <=> closeLock' = d
            BY <1>3, <2>1, <2>2, <2>7, <2>8
        <3>2. closeLock' = "supervisor" => "supervisor" \notin cancelReq'
            BY <1>3, <2>2, <2>8 DEF Inv, LockInv
        <3>3. pc'["sender_failed"] # "off" => ~Alive("sender")'
            <4>1. "off" \notin InClose /\ "sender_failed" \in Tasks
                BY DEF InClose, Tasks, Closers
            <4> QED
                BY <1>3, <2>1, <2>4, <4>1 DEF Inv, LockInv
        <3> QED
            BY <2>3, <3>1, <3>2, <3>3 DEF LockInv
    <2>11. ProgressInv'
        <3>1. pc'[c] \in {"sentinel", "drain", "cut", "ws"} => SiblingsStopped(c)'
            BY <1>3, <2>1, <2>6
        <3>2. pc'[c] = "ws" <=> state' = "CLOSED"
            BY <1>3, <2>1 DEF Inv, ProgressInv
        <3>3. {"sentinel", "drain", "cut", "ws"} \subseteq InClose
            BY DEF InClose
        <3> QED
            BY <2>7, <3>1, <3>2, <3>3 DEF ProgressInv
    <2>12. TerminalFrameIsLast'
        BY <2>8 DEF Inv, TerminalFrameIsLast
    <2>13. QuietWhenClosed'
        <3>1. CASE y = "ws"
            <4>1. ~Alive("sender") /\ SiblingsStopped(c)
                BY <1>3, <3>1
            <4> QED
                BY <2>2, <2>4, <2>5, <2>8, <4>1
                DEF QuietWhenClosed, SiblingsStopped, Siblings
        <3>2. CASE y # "ws"
            BY <1>3, <3>2 DEF Inv, ProgressInv, QuietWhenClosed
        <3> QED
            BY <3>1, <3>2
    <2> QED
        BY <1>0, <2>9, <2>10, <2>11, <2>12, <2>13 DEF Inv
<1>4. /\ {"abort", "reap", "sentinel", "drain", "cut", "ws"} = InClose
      /\ pc[c] \in {"sentinel", "drain", "cut"} => SiblingsStopped(c)
    BY DEF InClose, Inv, ProgressInv
<1>5. CASE AbortReturns(c)
    <2>1. /\ pc[c] = "abort" /\ pc' = [pc EXCEPT ![c] = "reap"] /\ state' = state
          /\ UNCHANGED <<closeLock, terminal, senderVars, clientVars>>
          /\ "supervisor" \in cancelReq' => "supervisor" \in cancelReq \/ c # "supervisor"
        BY <1>5 DEF AbortReturns, CancelProducers, Siblings
    <2> QED
        BY <1>3, <1>4, <2>1
<1>6. CASE StopSender(c)
    <2>1. /\ pc[c] = "reap" /\ SiblingsStopped(c)
          /\ UNCHANGED <<closeLock, terminal, senderVars, clientVars>>
          /\ "supervisor" \in cancelReq' => "supervisor" \in cancelReq
        BY <1>6 DEF StopSender
    <2>2. \/ ~Alive("sender") /\ state' = "CLOSED" /\ pc' = [pc EXCEPT ![c] = "ws"]
          \/ state' = state /\ pc' = [pc EXCEPT ![c] = "sentinel"]
          \/ state' = state /\ pc' = [pc EXCEPT ![c] = "cut"]
        BY <1>6 DEF StopSender
    <2>3. PICK y \in {"ws", "sentinel", "cut"} :
            /\ pc' = [pc EXCEPT ![c] = y]
            /\ y = "ws" => ~Alive("sender") /\ state' = "CLOSED"
            /\ y # "ws" => state' = state
        BY <2>2
    <2> QED
        BY <1>3, <1>4, <2>1, <2>3
<1>7. CASE PutSentinel(c) \/ CutSender(c) \/ SenderStopped(c)
    <2>1. /\ pc[c] \in {"sentinel", "drain", "cut"}
          /\ UNCHANGED <<closeLock, terminal, senderVars, clientVars>>
          /\ "supervisor" \in cancelReq' => "supervisor" \in cancelReq
        BY <1>7 DEF PutSentinel, CutSender, SenderStopped, lockVars
    <2>2. PICK y \in {"drain", "cut", "ws"} :
            /\ pc' = [pc EXCEPT ![c] = y]
            /\ y = "ws" => ~Alive("sender") /\ state' = "CLOSED"
            /\ y # "ws" => state' = state
        BY <1>7 DEF PutSentinel, CutSender, SenderStopped
    <2> QED
        BY <1>3, <1>4, <2>1, <2>2
<1>8. CASE CloseSocket(c)
    <2>1. /\ pc[c] = "ws" /\ pc' = [pc EXCEPT ![c] = "done"]
          /\ closeLock' = "none"
          /\ UNCHANGED <<state, terminal, cancelReq, sentTerminal, hand, wire>>
        BY <1>8 DEF CloseSocket, senderVars
    <2>2. /\ closeLock = c /\ state = "CLOSED" /\ SiblingsStopped(c)
        BY <1>1, <1>4, <2>1 DEF Inv, LockInv, ProgressInv
    <2>3. /\ pc'[c] = "done"
          /\ \A t \in Tasks \ {c} : pc'[t] = pc[t]
        BY <1>1, <2>1
    <2>4. pc'["sender"] = pc["sender"] /\ ~Alive("sender") /\ ~Alive("sender")'
        BY <1>1, <2>2, <2>3 DEF Inv, QuietWhenClosed, Tasks, Alive
    <2>5. \A t \in Producers : ~Alive(t)'
        BY <2>2, <2>3 DEF SiblingsStopped, Siblings, Alive, Tasks
    <2>6. \A d \in Closers : pc'[d] \notin InClose
        BY <1>1, <1>4, <2>2, <2>3 DEF Inv, LockInv, Tasks
    <2>7. SenderInv'
        BY <2>1, <2>4 DEF Inv, SenderInv
    <2>8. LockInv'
        BY <1>1, <2>1, <2>4, <2>6 DEF LockInv
    <2>9. ProgressInv'
        BY <1>4, <2>6 DEF ProgressInv
    <2> QED
        BY <1>0, <2>1, <2>4, <2>5, <2>7, <2>8, <2>9
        DEF Inv, TerminalFrameIsLast, QuietWhenClosed
<1> QED
    BY <1>2, <1>5, <1>6, <1>7, <1>8 DEF Close

\* Every step of the sender keeps the invariant: what it sends exists, and
\* after a terminal frame it is over.
LEMMA SenderKeepsInv ==
    ASSUME Inv, SenderLocal \/ SenderWrites
    PROVE  Inv'
<1>0. TypeOK'
    BY SenderType DEF Inv
<1>1. /\ pc \in [Tasks -> PcValues] /\ "sender" \in Tasks
      /\ "sender" \notin Closers \cup Producers
      /\ wire \in Seq(Frames \cup Terminals) /\ Frames \cap Terminals = {}
      /\ "sender_failed" \in Closers \ Producers
    BY DEF Inv, TypeOK, Tasks, Closers, Producers, Frames, Terminals
<1>2. /\ Alive("sender") /\ UNCHANGED <<closeLock, terminal, cancelReq>>
    BY DEF SenderLocal, SenderWrites, SenderStops, SenderDrops, SenderTakes,
           SenderFails, SenderCancelled, SenderLosesTerminal, SenderSends,
           SenderSendsTerminal, AtTerminal, Runs, Alive, lockVars
<1>3. /\ state # "CLOSED" /\ pc["sender_failed"] = "off"
      /\ \A i \in 1..Len(wire) : wire[i] \notin Terminals
    BY <1>2 DEF Inv, QuietWhenClosed, LockInv, SenderInv
\* A step after which the other tasks are where they were, or the sender has
\* failed and its closer is queued.
<1>4. ASSUME \/ /\ \A t \in Tasks \ {"sender"} : pc'[t] = pc[t]
                /\ state' = state
             \/ /\ \A t \in Tasks \ {"sender", "sender_failed"} : pc'[t] = pc[t]
                /\ pc'["sender_failed"] = "lock"
                /\ pc'["sender"] = "done"
                /\ state' = "CLOSING",
             SenderInv', TerminalFrameIsLast'
      PROVE  Inv'
    <2>1. {"off", "lock"} \cap InClose = {}
        BY DEF InClose
    <2>2. \A d \in Closers : pc'[d] = pc[d] \/ {pc'[d], pc[d]} \cap InClose = {}
        BY <1>1, <1>3, <1>4, <2>1 DEF Tasks
    <2>3. \A d \in Closers : pc'[d] \in InClose <=> pc[d] \in InClose
        BY <2>2
    <2>4. \A t \in Producers : pc'[t] = pc[t]
        BY <1>1, <1>4 DEF Tasks
    <2>5. state' # "CLOSED" /\ (state \in Closing => state' \in Closing)
        BY <1>3, <1>4 DEF Closing
    <2>6. LockInv'
        <3>1. pc'["sender_failed"] # "off" => ~Alive("sender")'
            BY <1>1, <1>3, <1>4 DEF Alive, Tasks
        <3> QED
            BY <1>2, <2>3, <2>5, <3>1 DEF Inv, LockInv
    <2>7. ProgressInv'
        <3>1. ASSUME NEW d \in Closers, pc'[d] \in InClose
              PROVE  /\ pc'[d] \in {"sentinel", "drain", "cut", "ws"}
                            => SiblingsStopped(d)'
                     /\ pc'[d] = "ws" <=> state' = "CLOSED"
            <4>1. pc'[d] = pc[d] /\ pc[d] # "ws"
                BY <1>3, <2>2, <3>1 DEF Inv, ProgressInv
            <4>2. SiblingsStopped(d)' <=> SiblingsStopped(d)
                BY <2>4 DEF SiblingsStopped, Siblings, Alive
            <4> QED
                BY <2>5, <4>1, <4>2 DEF Inv, ProgressInv
        <3>2. {"sentinel", "drain", "cut", "ws"} \subseteq InClose
            BY DEF InClose
        <3> QED
            BY <3>1, <3>2 DEF ProgressInv
    <2>8. QuietWhenClosed'
        BY <2>5 DEF QuietWhenClosed
    <2> QED
        BY <1>0, <1>4, <2>6, <2>7, <2>8 DEF Inv
<1>5. ASSUME NEW y \in SenderPcs, pc' = [pc EXCEPT !["sender"] = y]
      PROVE  /\ pc'["sender"] = y
             /\ \A t \in Tasks \ {"sender"} : pc'[t] = pc[t]
    BY <1>1, <1>5
\* What a step that writes no terminal frame has to show.
<1>6. ASSUME \/ wire' = wire
             \/ wire' = Append(wire, hand) /\ hand \in Frames
      PROVE  \A i \in 1..Len(wire') : wire'[i] \notin Terminals
    <2>1. CASE wire' = wire
        BY <1>3, <2>1
    <2>2. CASE wire' = Append(wire, hand) /\ hand \in Frames
        <3>1. /\ Len(wire') = Len(wire) + 1 /\ Len(wire) \in Nat
              /\ \A i \in 1..Len(wire) : wire'[i] = wire[i]
              /\ wire'[Len(wire) + 1] = hand
            BY <1>1, <2>2, AppendProperties
        <3> QED
            BY <1>1, <1>3, <2>2, <3>1
    <2> QED
        BY <1>6, <2>1, <2>2
\* What a step that writes the terminal frame has to show.
<1>7. ASSUME wire' = Append(wire, terminal), terminal # "none"
      PROVE  TerminalFrameIsLast'
    <2>1. /\ Len(wire') = Len(wire) + 1 /\ Len(wire) \in Nat
          /\ \A i \in 1..Len(wire) : wire'[i] = wire[i]
        <3>1. terminal \in Frames \cup Terminals
            BY <1>7 DEF Inv, TypeOK
        <3> QED
            BY <1>1, <1>7, <3>1, AppendProperties
    <2> QED
        BY <1>3, <2>1 DEF TerminalFrameIsLast
<1>8. CASE SenderStops \/ SenderDrops \/ SenderTakes \/ SenderSends
            \/ SenderLosesTerminal
    <2>1. PICK y \in SenderPcs :
            /\ pc' = [pc EXCEPT !["sender"] = y]
            /\ y = "send" => hand' \in Frames
            /\ y \in {"term", "cterm"} => terminal # "none" /\ sentTerminal'
        <3>1. CASE SenderStops
            BY <3>1 DEF SenderStops, OwesTerminal, SenderPcs
        <3>2. CASE SenderDrops
            <4>1. pc' = [pc EXCEPT !["sender"] = "get"] /\ "get" \in SenderPcs
                BY <1>1, <3>2 DEF SenderDrops, Runs, SenderPcs
            <4> QED
                BY <4>1
        <3>3. CASE SenderTakes
            <4>1. hand' \in Frames
                <5>1. /\ outQueue # <<>> /\ Head(outQueue) # "SENTINEL"
                      /\ hand' = Head(outQueue) /\ outQueue \in Seq(Items)
                    BY <3>3 DEF SenderTakes, Inv, TypeOK
                <5> QED
                    BY <5>1, HeadTailProperties DEF Items
            <4> QED
                BY <3>3, <4>1 DEF SenderTakes, SenderPcs
        <3>4. CASE SenderSends \/ SenderLosesTerminal
            BY <3>4 DEF SenderSends, SenderLosesTerminal, SenderPcs
        <3> QED
            BY <1>8, <3>1, <3>2, <3>3, <3>4
    <2>2. wire' = wire \/ (wire' = Append(wire, hand) /\ hand \in Frames)
        BY <1>8
        DEF SenderStops, SenderDrops, SenderTakes, SenderSends, Runs,
            SenderLosesTerminal, clientVars, Inv, SenderInv
    <2>3. \A i \in 1..Len(wire') : wire'[i] \notin Terminals
        BY <1>6, <2>2
    <2>4. state' = state
        BY <1>8 DEF SenderStops, SenderDrops, SenderTakes, SenderSends,
                    SenderLosesTerminal
    <2>5. SenderInv' /\ TerminalFrameIsLast'
        BY <1>2, <1>5, <2>1, <2>3 DEF SenderInv, TerminalFrameIsLast
    <2> QED
        BY <1>4, <1>5, <2>1, <2>4, <2>5
<1>9. CASE SenderFails
    <2>1. /\ pc' = [pc EXCEPT !["sender"] = "done", !["sender_failed"] = "lock"]
          /\ state' = "CLOSING" /\ wire' = wire
        BY <1>9 DEF SenderFails, clientVars
    <2>2. /\ \A t \in Tasks \ {"sender", "sender_failed"} : pc'[t] = pc[t]
          /\ pc'["sender_failed"] = "lock" /\ pc'["sender"] = "done"
        BY <1>1, <2>1 DEF Tasks
    <2>3. SenderInv' /\ TerminalFrameIsLast'
        BY <1>6, <2>1, <2>2 DEF SenderInv, SenderPcs, TerminalFrameIsLast
    <2> QED
        BY <1>4, <2>1, <2>2, <2>3
<1>10. CASE SenderCancelled
    <2>1. PICK y \in {"cterm", "done"} :
            /\ pc' = [pc EXCEPT !["sender"] = y]
            /\ y = "cterm" <=> OwesTerminal
            /\ sentTerminal' = (sentTerminal \/ OwesTerminal)
            /\ state' = state
        BY <1>10 DEF SenderCancelled
    <2>2. \/ wire' = wire
          \/ wire' = Append(wire, hand) /\ hand \in Frames
          \/ wire' = Append(wire, terminal) /\ pc["sender"] = "term"
        BY <1>10 DEF SenderCancelled, Inv, SenderInv
    <2>3. pc["sender"] = "term" => terminal # "none" /\ ~OwesTerminal
        BY DEF Inv, SenderInv, OwesTerminal
    <2>4. /\ pc'["sender"] = y
          /\ \A t \in Tasks \ {"sender"} : pc'[t] = pc[t]
        BY <1>5, <2>1 DEF SenderPcs
    <2>5. TerminalFrameIsLast' /\ (y = "cterm" =>
                \A i \in 1..Len(wire') : wire'[i] \notin Terminals)
        BY <1>6, <1>7, <2>1, <2>2, <2>3 DEF TerminalFrameIsLast
    <2>6. SenderInv'
        <3>1. y = "cterm" => terminal' # "none" /\ sentTerminal'
            BY <1>2, <2>1 DEF OwesTerminal
        <3>2. y = "done" => ~Alive("sender")'
            BY <2>4 DEF Alive
        <3> QED
            BY <2>1, <2>4, <2>5, <3>1, <3>2 DEF SenderInv, SenderPcs
    <2> QED
        BY <1>4, <2>1, <2>4, <2>5, <2>6
<1>11. CASE SenderSendsTerminal
    <2>1. /\ pc' = [pc EXCEPT !["sender"] = "done"] /\ state' = state
          /\ wire' = Append(wire, terminal) /\ terminal # "none"
        BY <1>11 DEF SenderSendsTerminal, AtTerminal, Runs, Inv, SenderInv
    <2>2. /\ pc'["sender"] = "done"
          /\ \A t \in Tasks \ {"sender"} : pc'[t] = pc[t]
        BY <1>5, <2>1 DEF SenderPcs
    <2>3. TerminalFrameIsLast' /\ SenderInv'
        BY <1>7, <2>1, <2>2 DEF SenderInv, SenderPcs, Alive
    <2> QED
        BY <1>4, <2>1, <2>2, <2>3
<1> QED
    BY <1>8, <1>9, <1>10, <1>11 DEF SenderLocal, SenderWrites

-----------------------------------------------------------------------------
(* The theorems.                                                            *)

\* The invariant holds in every reachable state of a session, for every size
\* of the queues: types; one closer at a time, which no one cancels; what each
\* stage of close() has achieved; and what the sender may still write.
THEOREM Invariance == Spec => []Inv
<1>1. Init => Inv
    <2> SUFFICES ASSUME Init PROVE Inv
        OBVIOUS
    <2>1. /\ pc \in [Tasks -> PcValues]
          /\ pc["sender"] = "get"
          /\ \A c \in Closers : pc[c] \in {"recv", "off"}
          /\ pc["sender_failed"] = "off"
        BY DEF Init, Tasks, Producers, Closers, PcValues
    <2>2. <<"event">> \in Seq(Items) /\ Len(<<"event">>) = 1
        BY DEF Items, Frames
    <2>3. TypeOK
        <3>1. /\ outQueue \in Seq(Items) /\ Len(outQueue) <= OutCap
            BY <2>2, SessionAssumption DEF Init
        <3>2. /\ textQueue \in Seq({"text", "end"}) /\ Len(textQueue) <= TextCap
            BY SessionAssumption DEF Init
        <3>3. wire \in Seq(Frames \cup Terminals)
            BY DEF Init
        <3>4. generated \in 0..MaxAudio /\ chatter \in 0..MaxChatter
            BY SessionAssumption DEF Init
        <3> QED
            BY <2>1, <3>1, <3>2, <3>3, <3>4
            DEF Init, TypeOK, States, Closing, Terminals
    <2>4. {"recv", "off"} \cap InClose = {}
        BY DEF InClose
    <2>5. SenderInv /\ TerminalFrameIsLast
        BY <2>1 DEF Init, SenderInv, SenderPcs, TerminalFrameIsLast
    <2>6. LockInv /\ ProgressInv /\ QuietWhenClosed
        BY <2>1, <2>4
        DEF Init, LockInv, ProgressInv, QuietWhenClosed, InClose, Closers
    <2> QED
        BY <2>3, <2>5, <2>6 DEF Inv
<1>2. Inv /\ [Next]_vars => Inv'
    <2> SUFFICES ASSUME Inv, [Next]_vars PROVE Inv'
        OBVIOUS
    <2>1. CASE UNCHANGED vars
        BY <2>1
        DEF vars, lockVars, senderVars, clientVars, engineVars, Inv, TypeOK,
            SenderInv, LockInv, ProgressInv, TerminalFrameIsLast,
            QuietWhenClosed, SiblingsStopped, Siblings, Alive
    <2>2. CASE Receive \/ EndpointLeaves
        BY <2>2, ReceiveKeepsInv
    <2>3. CASE \/ TtsBegins \/ TtsGranted \/ Engine
               \/ HeartbeatBeats \/ WatchdogFires \/ SupervisorWakes
               \/ \E t \in Producers : LoopReturns(t) \/ ProducerCancelled(t)
        BY <2>3, TaskKeepsInv
    <2>4. CASE SenderLocal \/ SenderWrites
        BY <2>4, SenderKeepsInv
    <2>5. CASE \E c \in Closers : Close(c)
        BY <2>5, CloseKeepsInv
    <2>6. CASE ServerShutsDown \/ ClientDrops
        BY <2>6, EnvironmentKeepsInv
    <2> QED
        BY <2>1, <2>2, <2>3, <2>4, <2>5, <2>6 DEF Next, Finished
<1> QED
    BY <1>1, <1>2, PTL DEF Spec

\* Every variable keeps its type, and neither queue exceeds its maxsize.
THEOREM Types == Spec => []TypeOK
BY Invariance, PTL DEF Inv

\* At most one terminal frame reaches the client, and nothing after it
\* (loops.py:57-63, 69-71, 90-93).
THEOREM TerminalLast == Spec => []TerminalFrameIsLast
BY Invariance, PTL DEF Inv

\* When a session is CLOSED its sender and its producers are over, whichever
\* callers raced to close it (session.py:209-249).
THEOREM Quiet == Spec => []QuietWhenClosed
BY Invariance, PTL DEF Inv

\* close() waits for the client only when run_tts is over, so that the slot is
\* free by then (session.py:209-222).
THEOREM SlotFree == Spec => []SlotFreeBeforeSocket
<1>1. Inv => SlotFreeBeforeSocket
    BY DEF Inv, ProgressInv, SlotFreeBeforeSocket, SiblingsStopped, Siblings,
           Producers, Closers
<1> QED
    BY <1>1, Invariance, PTL

\* In a CLOSED session only the last stage of close(), callers that wait for
\* close_lock and the endpoint still run.
LEMMA WhoRunsWhenClosed ==
    ASSUME Inv, state = "CLOSED"
    PROVE  /\ pc["sender"] = "done"
           /\ \A t \in Producers : pc[t] \in {"off", "done"} \cup InClose
           /\ \A c \in Closers : pc[c] \in InClose => pc[c] = "ws"
<1>1. pc["sender"] = "done"
    BY DEF Inv, QuietWhenClosed, Alive, SenderInv, SenderPcs
<1>2. ASSUME NEW t \in Producers, pc[t] \notin {"off", "done"}
      PROVE  pc[t] \in InClose
    <2>1. closeLock = t
        BY <1>2 DEF Inv, QuietWhenClosed, Alive
    <2>2. t \in Closers
        BY <2>1 DEF Inv, TypeOK, Producers
    <2> QED
        BY <2>1, <2>2 DEF Inv, LockInv
<1> QED
    BY <1>1, <1>2 DEF Inv, ProgressInv

\* No step leaves CLOSED, enqueues a frame or writes to the socket there.
LEMMA ClosedStaysClosed ==
    ASSUME Inv, [Next]_vars, state = "CLOSED"
    PROVE  state' = "CLOSED" /\ UNCHANGED <<outQueue, wire>>
<1>1. /\ pc["sender"] = "done"
      /\ \A t \in Producers : pc[t] \in {"off", "done"} \cup InClose
      /\ \A c \in Closers : pc[c] \in InClose => pc[c] = "ws"
    BY WhoRunsWhenClosed
<1>2. ASSUME NEW c \in Closers, CallClose(c)
      PROVE  state' = state
    BY <1>2 DEF CallClose, EnterClose, AlreadyClosed
<1>3. CASE Receive \/ EndpointLeaves
    <2>1. CASE \/ ReceiveStart \/ ReceiveRejected \/ ReceiveText
               \/ ReceiveFlush \/ ReceiveEnd
        BY <2>1
        DEF ReceiveStart, ReceiveRejected, ReceiveText, ReceiveFlush,
            ReceiveEnd, Closing
    <2>2. CASE \/ ReceiveWhileClosing \/ ReceiveCancel \/ ReceiveCrashes
               \/ EndpointLeaves
        BY <1>2, <2>2
        DEF ReceiveWhileClosing, ReceiveCancel, ReceiveCrashes, EndpointLeaves,
            clientVars, Closers
    <2> QED
        BY <1>3, <2>1, <2>2 DEF Receive
<1>4. CASE \/ TtsBegins \/ TtsGranted \/ Engine
           \/ HeartbeatBeats \/ WatchdogFires \/ SupervisorWakes
    BY <1>1, <1>4
    DEF TtsBegins, TtsGranted, Engine, EngineReads, EngineYields, EngineEnds,
        EngineFails, HeartbeatBeats, WatchdogFires, SupervisorWakes, Runs,
        Producers, InClose
<1>5. CASE \E t \in Producers : LoopReturns(t) \/ ProducerCancelled(t)
    BY <1>5 DEF LoopReturns, ProducerCancelled, clientVars
<1>6. CASE SenderLocal \/ SenderWrites
    BY <1>1, <1>6
    DEF SenderLocal, SenderWrites, SenderStops, SenderDrops, SenderTakes,
        SenderSends, SenderFails, SenderCancelled, SenderSendsTerminal,
        SenderLosesTerminal, AtTerminal, Runs
<1>7. ASSUME NEW c \in Closers, Close(c)
      PROVE  state' = "CLOSED" /\ UNCHANGED <<outQueue, wire>>
    <2>1. CASE AcquireLock(c)
        BY <2>1 DEF AcquireLock, EnterClose, AlreadyClosed, clientVars
    <2>2. CASE CloseSocket(c)
        BY <2>2 DEF CloseSocket
    <2>3. CASE \/ AbortReturns(c) \/ StopSender(c) \/ PutSentinel(c)
               \/ CutSender(c) \/ SenderStopped(c)
        BY <1>1, <2>3
        DEF AbortReturns, StopSender, PutSentinel, CutSender, SenderStopped,
            InClose
    <2> QED
        BY <1>7, <2>1, <2>2, <2>3 DEF Close
<1>8. CASE ServerShutsDown \/ ClientDrops
    BY <1>8 DEF ServerShutsDown, ClientDrops
<1>9. CASE UNCHANGED vars
    BY <1>9 DEF vars, clientVars
<1> QED
    BY <1>3, <1>4, <1>5, <1>6, <1>7, <1>8, <1>9 DEF Next, Finished

\* CLOSED is final: no task that comes late to close_lock, no handler and no
\* failing sender reopens the session, enqueues or writes (session.py:190-194).
THEOREM Final == Spec => ClosedIsFinal
<1>1. Inv /\ [Next]_vars
        => [state = "CLOSED" => state' = "CLOSED" /\ UNCHANGED <<outQueue, wire>>]_vars
    BY ClosedStaysClosed
<1> QED
    BY <1>1, Invariance, PTL DEF Spec, ClosedIsFinal


-----------------------------------------------------------------------------
(* close() is never stuck: the safety half of ClosingCloses.                *)

\* The tasks that c waits for inside close() have been cancelled.
AwaitsCancelled(c) ==
    /\ pc[c] = "reap" => \A t \in Siblings(c) : Alive(t) => t \in cancelReq
    /\ pc[c] = "cut" /\ Alive("sender") => "sender" \in cancelReq

\* Nobody is cancelled before somebody closes, and CLOSING is somebody's work.
Attended ==
    /\ closeLock = "none" /\ state # "CLOSED" => cancelReq = {}
    /\ state = "CLOSING" => closeLock # "none" \/ \E c \in Closers : pc[c] = "lock"

AttendedInv == Attended /\ \A c \in Closers : AwaitsCancelled(c)

\* In CLOSING a caller that was not cancelled can take a free close_lock, or the
\* one that holds it waits for cancelled tasks only; neither the caller itself
\* nor the lock is among the things it waits for.
CloseGoesOn ==
    state = "CLOSING" =>
        \/ closeLock = "none" /\ \E c \in Closers : Runs(c, "lock")
        \/ \E c \in Closers : closeLock = c /\ AwaitsCancelled(c)

\* The order of the stages of close().
Stage(c) ==
    CASE pc[c] = "abort" -> 1
      [] pc[c] = "reap" -> 2
      [] pc[c] = "sentinel" -> 3
      [] pc[c] = "drain" -> 4
      [] pc[c] = "cut" -> 5
      [] OTHER -> 6

\* The lock stays with its holder, which stays at its stage or advances, and no
\* task that it stops comes back.
GoesForward ==
    /\ closeLock' = closeLock
    /\ Stage(closeLock)' >= Stage(closeLock)
    /\ \A t \in (Producers \cup {"sender"}) \ {closeLock} : Alive(t)' => Alive(t)

\* A close() under way runs to CLOSED under one caller, stage after stage.
CloseAdvances == [][state = "CLOSING" /\ closeLock # "none" => GoesForward]_vars

\* A step outside close(): the lock, the cancellations and whoever is in
\* close() stay, and a session that it makes CLOSING has somebody to close it.
PlainStep ==
    /\ UNCHANGED <<closeLock, cancelReq>>
    /\ state' = "CLOSED" <=> state = "CLOSED"
    /\ state' = "CLOSING" => state = "CLOSING" \/ \E c \in Closers : pc'[c] = "lock"
    /\ \A t \in Producers \cup {"sender"} :
        Alive(t)' => Alive(t) \/ state \notin Closing
    /\ \A c \in Closers :
        /\ pc'[c] \in InClose \/ pc[c] \in InClose => pc'[c] = pc[c]
        /\ state = "CLOSING" /\ closeLock = "none" /\ pc[c] = "lock" => pc'[c] = "lock"

\* A task that is not in close() yet calls it.
Calls(c) == CallClose(c) /\ Alive(c) /\ pc[c] \notin InClose

\* Plain steps keep the invariant.
LEMMA PlainKeepsAttended ==
    ASSUME Inv, AttendedInv, PlainStep
    PROVE  AttendedInv'
<1>1. Attended'
    BY DEF AttendedInv, Attended, PlainStep
<1>2. ASSUME NEW c \in Closers
      PROVE  AwaitsCancelled(c)'
    <2>1. CASE pc'[c] \in {"reap", "cut"}
        <3>1. pc'[c] = pc[c] /\ pc[c] \in InClose
            BY <2>1 DEF PlainStep, InClose
        <3>2. state \in Closing
            BY <3>1 DEF Inv, LockInv, Closers
        <3>3. \A t \in Producers \cup {"sender"} : Alive(t)' => Alive(t)
            BY <3>2 DEF PlainStep
        <3>4. cancelReq' = cancelReq /\ AwaitsCancelled(c)
            BY DEF PlainStep, AttendedInv
        <3> QED
            BY <3>1, <3>3, <3>4 DEF AwaitsCancelled, Siblings
    <2>2. CASE pc'[c] \notin {"reap", "cut"}
        BY <2>2 DEF AwaitsCancelled
    <2> QED
        BY <2>1, <2>2
<1> QED
    BY <1>1, <1>2 DEF AttendedInv

\* A put is plain: the frame that does not fit spawns the close() with CLOSING.
LEMMA PutIsPlain ==
    ASSUME Inv, NEW items, NEW st \in States, NEW tasks \in [Tasks -> PcValues],
           Put(items, st, tasks), UNCHANGED <<closeLock, cancelReq>>,
           st = state \/ {st, state} \cap Closing = {},
           \A c \in Closers :
                \/ tasks[c] = pc[c]
                \/ /\ {tasks[c], pc[c]} \cap InClose = {}
                   /\ pc[c] # "lock" \/ state # "CLOSING",
           \A t \in Producers \cup {"sender"} :
                tasks[t] \notin {"off", "done"} => Alive(t) \/ state \notin Closing
    PROVE  PlainStep
<1>1. state \notin Closing => \A c \in Closers : pc[c] \notin InClose
    BY DEF Inv, LockInv, Closers
<1>2. \/ pc' = tasks /\ state' = st
      \/ /\ st \notin Closing /\ state' = "CLOSING"
         /\ pc' = [tasks EXCEPT !["client_slow"] = "lock"]
    BY DEF Put, SpawnSlowClose
<1>3. CASE pc' = tasks /\ state' = st
    BY <1>3 DEF PlainStep, Alive, Closing
<1>4. CASE /\ st \notin Closing /\ state' = "CLOSING"
           /\ pc' = [tasks EXCEPT !["client_slow"] = "lock"]
    <2>1. /\ "lock" \notin InClose /\ "client_slow" \in Closers \cap Tasks
          /\ "client_slow" \notin Producers \cup {"sender"} /\ Closers \subseteq Tasks
        BY DEF InClose, Closers, Tasks, Producers
    <2>2. /\ pc'["client_slow"] = "lock"
          /\ \A t \in Tasks \ {"client_slow"} : pc'[t] = tasks[t]
        BY <1>4, <2>1
    <2>3. \A t \in Producers \cup {"sender"} :
            Alive(t)' => Alive(t) \/ state \notin Closing
        BY <2>1, <2>2 DEF Alive, Tasks
    <2>4. state \notin Closing
        BY <1>4
    <2>5. \A c \in Closers : pc[c] \notin InClose /\ pc'[c] \notin InClose
        BY <1>1, <2>1, <2>2, <2>4
    <2> QED
        BY <1>4, <2>1, <2>2, <2>3, <2>4, <2>5 DEF PlainStep, Closing
<1> QED
    BY <1>2, <1>3, <1>4

\* A call of close() keeps the invariant: the caller waits for the lock, which
\* is taken, or takes it and cancels its siblings before it waits for them.
LEMMA CallKeepsAttended ==
    ASSUME Inv, AttendedInv, NEW c \in Closers, Calls(c)
    PROVE  AttendedInv'
<1>1. /\ pc \in [Tasks -> PcValues] /\ c \in Tasks /\ c # "sender"
      /\ "sender" \notin Closers /\ Closers \subseteq Tasks
      /\ "none" \notin Closers /\ "sender" \in Tasks
    BY DEF Inv, TypeOK, Tasks, Closers
<1>2. \A x \in {"done", "lock", "abort", "reap"} : pc' = [pc EXCEPT ![c] = x] =>
        /\ pc'[c] = x /\ \A t \in Tasks \ {c} : pc'[t] = pc[t]
        /\ Alive("sender")' = Alive("sender")
        /\ \A t \in Producers \ {c} : Alive(t)' = Alive(t)
    BY <1>1 DEF Alive, Tasks
<1>3. CASE AlreadyClosed /\ pc' = [pc EXCEPT ![c] = "done"] /\ UNCHANGED <<state, lockVars>>
    <2>1. /\ pc'[c] = "done" /\ \A t \in Tasks \ {c} : pc'[t] = pc[t]
          /\ Alive("sender")' = Alive("sender")
          /\ \A t \in Producers : Alive(t)' => Alive(t)
        BY <1>2, <1>3 DEF Alive
    <2>2. \A d \in Closers : AwaitsCancelled(d)'
        BY <1>1, <1>3, <2>1 DEF AttendedInv, AwaitsCancelled, Siblings, lockVars
    <2> QED
        BY <1>3, <2>2 DEF AttendedInv, Attended, AlreadyClosed, lockVars
<1>4. CASE closeLock # "none" /\ pc' = [pc EXCEPT ![c] = "lock"] /\ UNCHANGED <<state, lockVars>>
    <2>1. /\ pc'[c] = "lock" /\ \A t \in Tasks \ {c} : pc'[t] = pc[t]
          /\ Alive("sender")' = Alive("sender")
          /\ \A t \in Producers : Alive(t)' => Alive(t)
        BY <1>2, <1>4 DEF Calls, Alive
    <2>2. \A d \in Closers : AwaitsCancelled(d)'
        BY <1>1, <1>4, <2>1 DEF AttendedInv, AwaitsCancelled, Siblings, lockVars
    <2> QED
        BY <1>4, <2>2 DEF AttendedInv, Attended, lockVars
<1>5. CASE /\ closeLock = "none" /\ state' = "CLOSING" /\ closeLock' = c
           /\ \/ pc' = [pc EXCEPT ![c] = "abort"]
              \/ CancelProducers(c)
    <2>1. PICK x \in {"abort", "reap"} : pc' = [pc EXCEPT ![c] = x]
        BY <1>5 DEF CancelProducers
    <2>2. \A d \in Closers \ {c} : pc'[d] \notin InClose
        BY <1>1, <1>2, <1>5, <2>1 DEF Inv, LockInv
    <2>3. AwaitsCancelled(c)'
        <3>1. CASE pc' = [pc EXCEPT ![c] = "abort"]
            BY <1>2, <3>1 DEF AwaitsCancelled
        <3>2. CASE CancelProducers(c)
            <4>1. pc'[c] = "reap" /\ \A t \in Producers \ {c} : Alive(t)' = Alive(t)
                BY <1>2, <3>2 DEF CancelProducers
            <4> QED
                BY <3>2, <4>1 DEF CancelProducers, AwaitsCancelled, Siblings
        <3> QED
            BY <1>5, <3>1, <3>2
    <2>4. {"reap", "cut"} \subseteq InClose
        BY DEF InClose
    <2> QED
        BY <1>1, <1>5, <2>2, <2>3, <2>4 DEF AttendedInv, Attended, AwaitsCancelled
<1> QED
    BY <1>3, <1>4, <1>5 DEF Calls, CallClose, EnterClose

\* Each stage of close() keeps the invariant.
LEMMA CloseKeepsAttended ==
    ASSUME Inv, AttendedInv, NEW c \in Closers, Close(c), pc[c] \in InClose
    PROVE  AttendedInv'
<1>1. /\ pc \in [Tasks -> PcValues] /\ c \in Tasks /\ c # "sender"
      /\ "none" \notin Closers /\ Closers \subseteq Tasks /\ "lock" \notin InClose
      /\ {"reap", "cut"} \subseteq InClose
    BY DEF Inv, TypeOK, Tasks, Closers, InClose
<1>2. closeLock = c /\ \A d \in Closers \ {c} : pc[d] \notin InClose
    BY <1>1 DEF Inv, LockInv
<1>3. CASE CloseSocket(c)
    <2>1. /\ pc' = [pc EXCEPT ![c] = "done"] /\ state' = state /\ state = "CLOSED"
        BY <1>3 DEF CloseSocket, Inv, ProgressInv, InClose
    <2>2. \A d \in Closers : pc'[d] \notin {"reap", "cut"}
        BY <1>1, <1>2, <2>1
    <2> QED
        BY <2>1, <2>2 DEF AttendedInv, Attended, AwaitsCancelled
<1>4. CASE AbortReturns(c) \/ StopSender(c) \/ PutSentinel(c) \/ CutSender(c) \/ SenderStopped(c)
    <2>1. PICK y \in InClose : pc' = [pc EXCEPT ![c] = y]
        BY <1>4 DEF AbortReturns, CancelProducers, StopSender, PutSentinel, CutSender,
                    SenderStopped, InClose
    <2>2. closeLock' = closeLock
        BY <1>4 DEF AbortReturns, StopSender, PutSentinel, CutSender, SenderStopped, lockVars
    <2>3. pc'[c] = y /\ \A d \in Tasks \ {c} : pc'[d] = pc[d]
        BY <1>1, <2>1
    <2>4. y = "reap" => CancelProducers(c)
        BY <1>1, <1>4, <2>3 DEF AbortReturns, StopSender, PutSentinel, CutSender, SenderStopped
    <2>5. y = "cut" => "sender" \in cancelReq'
        BY <1>1, <1>4, <2>3
        DEF AbortReturns, CancelProducers, StopSender, PutSentinel, CutSender, SenderStopped
    <2>6. y = "reap" => \A t \in Siblings(c) : Alive(t)' => t \in cancelReq'
        BY <2>3, <2>4 DEF CancelProducers, Siblings, Alive, Tasks
    <2>7. AwaitsCancelled(c)'
        BY <2>3, <2>5, <2>6 DEF AwaitsCancelled, Siblings
    <2>8. \A d \in Closers \ {c} : AwaitsCancelled(d)'
        BY <1>1, <1>2, <2>3 DEF AwaitsCancelled
    <2> QED
        BY <1>1, <1>2, <2>2, <2>7, <2>8 DEF AttendedInv, Attended
<1>5. ~AcquireLock(c)
    BY <1>1 DEF AcquireLock, Runs
<1> QED
    BY <1>3, <1>4, <1>5 DEF Close

\* A frame of the client is plain, or the endpoint calls close().
LEMMA ReceiveIsPlain ==
    ASSUME Inv, Receive \/ EndpointLeaves
    PROVE  PlainStep \/ Calls("endpoint")
<1>1. /\ pc \in [Tasks -> PcValues] /\ state \in States
      /\ {"recv", "exit", "new", "wait"} \subseteq PcValues
      /\ {"recv", "exit", "new", "wait"} \cap (InClose \cup {"off", "done", "lock"}) = {}
      /\ {"STARTED", "ENDING"} \subseteq States \ Closing
      /\ "AUTHENTICATED" \notin Closing /\ "endpoint" \in Closers
      /\ Closers \subseteq Tasks /\ "endpoint" \notin Producers \cup {"sender"}
      /\ "sender" \in Tasks \ Closers /\ Producers \subseteq Tasks
      /\ "supervisor" \in Closers \cap Producers /\ "tts" \in Producers \ Closers
    BY DEF Inv, TypeOK, PcValues, InClose, States, Closing, Closers, Producers, Tasks
<1>2. CallClose("endpoint") /\ pc["endpoint"] \in {"recv", "exit"} => Calls("endpoint")
    BY <1>1 DEF Calls, Alive
<1>3. CASE ReceiveWhileClosing \/ EndpointLeaves \/ ReceiveCancel \/ ReceiveCrashes
    BY <1>2, <1>3
    DEF ReceiveWhileClosing, EndpointLeaves, ReceiveCancel, ReceiveCrashes, Receiving
<1>4. \A items : Backpressure(items) /\ Receiving => Calls("endpoint")
    BY <1>2 DEF Backpressure, Receiving
<1>5. CASE ReceiveStart
    <2> DEFINE tasks == [pc EXCEPT !["tts"] = "new", !["supervisor"] = "wait"]
    <2>1. /\ state = "AUTHENTICATED" /\ Put(<<"event">>, "STARTED", tasks)
          /\ UNCHANGED <<closeLock, cancelReq>>
        BY <1>5 DEF ReceiveStart, lockVars
    <2>2. /\ tasks \in [Tasks -> PcValues]
          /\ tasks["supervisor"] = "wait" /\ tasks["tts"] = "new"
          /\ \A t \in Tasks \ {"supervisor", "tts"} : tasks[t] = pc[t]
        BY <1>1
    <2>3. state \notin Closing /\ pc["supervisor"] \notin InClose
        BY <1>1, <2>1 DEF Inv, LockInv
    <2> HIDE DEF tasks
    <2>4. \A c \in Closers : tasks[c] = pc[c] \/ {tasks[c], pc[c]} \cap InClose = {}
        BY <1>1, <2>2, <2>3
    <2>5. \A t \in Producers \cup {"sender"} :
            tasks[t] \notin {"off", "done"} => Alive(t) \/ state \notin Closing
        BY <2>3
    <2> QED
        BY <1>1, <2>1, <2>2, <2>3, <2>4, <2>5, PutIsPlain DEF Closing
<1>6. ASSUME NEW items, Put(items, state, pc)
                \/ \E x \in {"recv", "exit"} :
                    Put(items, state, [pc EXCEPT !["endpoint"] = x]),
             Receiving, UNCHANGED lockVars
      PROVE  PlainStep
    <2>1. PICK x \in {"recv", "exit"} :
            Put(items, state, [pc EXCEPT !["endpoint"] = x])
        <3>1. pc = [pc EXCEPT !["endpoint"] = "recv"]
            BY <1>1, <1>6 DEF Receiving
        <3> QED
            BY <1>6, <3>1
    <2> DEFINE tasks == [pc EXCEPT !["endpoint"] = x]
    <2>2. /\ tasks \in [Tasks -> PcValues] /\ tasks["endpoint"] = x
          /\ \A t \in Tasks \ {"endpoint"} : tasks[t] = pc[t]
        BY <1>1
    <2>3. Put(items, state, tasks)
        BY <2>1
    <2> HIDE DEF tasks
    <2>4. \A c \in Closers :
            \/ tasks[c] = pc[c]
            \/ {tasks[c], pc[c]} \cap InClose = {} /\ pc[c] # "lock"
        BY <1>1, <1>6, <2>2 DEF Receiving
    <2>5. \A t \in Producers \cup {"sender"} : tasks[t] = pc[t]
        BY <1>1, <2>2
    <2> QED
        BY <1>1, <1>6, <2>2, <2>3, <2>4, <2>5, PutIsPlain DEF Alive, lockVars
<1>7. ASSUME UNCHANGED <<pc, lockVars>>,
             state' = state \/ (state = "STARTED" /\ state' = "ENDING")
      PROVE  PlainStep
    BY <1>7 DEF PlainStep, lockVars, Alive
<1>8. CASE ReceiveRejected
    BY <1>6, <1>8 DEF ReceiveRejected
<1>9. CASE ReceiveText
    BY <1>4, <1>7, <1>9 DEF ReceiveText
<1>10. CASE ReceiveFlush
    <2>1. PICK n \in 0..1 :
            \/ Backpressure(Sentences(n))
            \/ /\ Put(<<"event">>, state, IF FitsOut(1) THEN pc
                                          ELSE [pc EXCEPT !["endpoint"] = "exit"])
               /\ UNCHANGED lockVars
        BY <1>10 DEF ReceiveFlush
    <2> QED
        BY <1>4, <1>6, <1>10, <2>1 DEF ReceiveFlush
<1>11. CASE ReceiveEnd
    BY <1>4, <1>7, <1>11 DEF ReceiveEnd
<1> QED
    BY <1>3, <1>5, <1>8, <1>9, <1>10, <1>11 DEF Receive

\* What run_tts, the timers, the supervisor, the sender and the environment do
\* is plain, or the supervisor calls close().
LEMMA TaskIsPlain ==
    ASSUME Inv, AttendedInv,
           \/ TtsBegins \/ TtsGranted \/ Engine
           \/ HeartbeatBeats \/ WatchdogFires \/ SupervisorWakes
           \/ \E t \in Producers : LoopReturns(t) \/ ProducerCancelled(t)
           \/ SenderLocal \/ SenderWrites
           \/ ServerShutsDown \/ ClientDrops
    PROVE  PlainStep \/ Calls("supervisor")
<1>1. /\ pc \in [Tasks -> PcValues] /\ state \in States
      /\ {"synth", "slot", "done"} \subseteq PcValues
      /\ {"synth", "slot", "done"} \cap (InClose \cup {"lock"}) = {}
      /\ {"off", "lock"} \cap InClose = {}
      /\ Producers \subseteq Tasks /\ Closers \subseteq Tasks
      /\ "sender" \in Tasks \ (Closers \cup Producers)
      /\ Producers = {"tts", "heartbeat", "watchdog", "supervisor"}
      /\ Producers \cap Closers = {"supervisor"}
      /\ {"sender_failed", "server_shutdown"} \subseteq Closers \ Producers
    BY DEF Inv, TypeOK, PcValues, InClose, Tasks, Producers, Closers
\* A producer other than the supervisor moves to x, perhaps with a put.
<1>2. ASSUME NEW t \in Producers \ {"supervisor"}, NEW x \in {"synth", "slot", "done"},
             Alive(t), NEW items,
             Put(items, state, pc) \/ Put(items, state, [pc EXCEPT ![t] = x]),
             UNCHANGED lockVars
      PROVE  PlainStep
    <2>1. PICK tasks \in {pc, [pc EXCEPT ![t] = x]} : Put(items, state, tasks)
        BY <1>2
    <2>2. /\ tasks \in [Tasks -> PcValues]
          /\ \A c \in Closers \cup {"sender"} : tasks[c] = pc[c]
          /\ \A u \in Producers : tasks[u] \notin {"off", "done"} => Alive(u)
        <3>1. CASE tasks = pc
            BY <1>1, <3>1 DEF Alive
        <3>2. CASE tasks = [pc EXCEPT ![t] = x]
            BY <1>1, <1>2, <3>2 DEF Alive
        <3> QED
            BY <3>1, <3>2
    <2>3. \A u \in Producers \cup {"sender"} :
            tasks[u] \notin {"off", "done"} => Alive(u) \/ state \notin Closing
        BY <2>2 DEF Alive
    <2> QED
        BY <1>1, <1>2, <2>1, <2>2, <2>3, PutIsPlain DEF lockVars
\* It ends without one, or only the connection, the text or the wire changes.
<1>3. ASSUME NEW t \in (Producers \ {"supervisor"}) \cup {"sender"}, NEW x,
             Alive(t), pc' = [pc EXCEPT ![t] = x], UNCHANGED <<state, lockVars>>
      PROVE  PlainStep
    <2>1. \A u \in Tasks \ {t} : pc'[u] = pc[u]
        BY <1>1, <1>3
    <2>2. t \notin Closers
        BY <1>1
    <2> QED
        BY <1>1, <1>3, <2>1, <2>2 DEF PlainStep, Alive, lockVars
<1>4. ASSUME UNCHANGED <<state, pc, lockVars>>
      PROVE  PlainStep
    BY <1>4 DEF PlainStep, Alive, lockVars
<1>5. \A t \in Tasks : pc[t] \in {"new", "slot", "synth", "sleep", "wait", "get", "send",
                                 "term", "cterm"} => Alive(t)
    BY DEF Alive
<1>6. CASE TtsBegins \/ TtsGranted
    BY <1>1, <1>2, <1>5, <1>6 DEF TtsBegins, TtsGranted, Runs
<1>7. CASE Engine
    <2>1. CASE EngineReads
        BY <1>4, <2>1 DEF EngineReads
    <2>2. CASE EngineYields
        <3>1. Alive("tts") /\ "tts" \in Producers \ {"supervisor"} /\ UNCHANGED lockVars
            BY <1>1, <1>5, <2>2 DEF EngineYields, Runs
        <3>2. \/ Put(<<"audio">>, state, pc)
              \/ Put(<<"audio">>, state, [pc EXCEPT !["tts"] = "done"])
              \/ pc' = [pc EXCEPT !["tts"] = "done"] /\ UNCHANGED state
            BY <2>2 DEF EngineYields
        <3> QED
            BY <1>2, <1>3, <3>1, <3>2
    <2>3. CASE EngineEnds \/ EngineFails
        BY <1>1, <1>3, <1>5, <2>3 DEF EngineEnds, EngineFails, Runs
    <2> QED
        BY <1>7, <2>1, <2>2, <2>3 DEF Engine
<1>8. CASE HeartbeatBeats
    <2>1. /\ Alive("heartbeat") /\ UNCHANGED lockVars
          /\ \/ Put(<<"event">>, state, pc)
             \/ Put(<<"event">>, state, [pc EXCEPT !["heartbeat"] = "done"])
        BY <1>1, <1>5, <1>8 DEF HeartbeatBeats, Runs
    <2> QED
        BY <1>1, <1>2, <2>1
<1>9. CASE WatchdogFires
    BY <1>1, <1>3, <1>5, <1>9 DEF WatchdogFires, Runs
<1>10. CASE SupervisorWakes
    <2>1. pc["supervisor"] = "wait" /\ "wait" \notin InClose \cup {"lock"}
        BY <1>10 DEF SupervisorWakes, Runs, InClose
    <2>2. CASE CallClose("supervisor")
        BY <2>1, <2>2 DEF Calls, Alive
    <2>3. CASE pc' = [pc EXCEPT !["supervisor"] = "done"] /\ UNCHANGED <<state, lockVars>>
        <3>1. pc'["supervisor"] = "done" /\ \A t \in Tasks \ {"supervisor"} : pc'[t] = pc[t]
            BY <1>1, <2>3
        <3> QED
            BY <1>1, <2>1, <2>3, <3>1 DEF PlainStep, Alive, lockVars
    <2> QED
        BY <1>10, <2>2, <2>3 DEF SupervisorWakes
<1>11. CASE \E t \in Producers : LoopReturns(t) \/ ProducerCancelled(t)
    <2>1. PICK t \in Producers : LoopReturns(t) \/ ProducerCancelled(t)
        BY <1>11
    <2>2. /\ Alive(t) /\ pc' = [pc EXCEPT ![t] = "done"]
          /\ UNCHANGED <<state, lockVars>>
        BY <2>1 DEF LoopReturns, ProducerCancelled, Runs, Alive
    <2>3. CASE t # "supervisor"
        BY <1>3, <2>2, <2>3
    \* A supervisor that is cancelled while it waits for the lock: somebody has it.
    <2>4. CASE t = "supervisor"
        <3>1. "supervisor" \in cancelReq
            BY <2>1, <2>4 DEF LoopReturns, ProducerCancelled
        <3>2. closeLock # "none" \/ state = "CLOSED"
            BY <3>1 DEF AttendedInv, Attended
        <3>3. pc["supervisor"] \notin InClose
            BY <1>1, <3>1 DEF Inv, LockInv
        <3>4. pc'["supervisor"] = "done" /\ \A u \in Tasks \ {"supervisor"} : pc'[u] = pc[u]
            BY <1>1, <2>2, <2>4
        <3> QED
            BY <1>1, <2>2, <2>4, <3>2, <3>3, <3>4 DEF PlainStep, Alive, lockVars
    <2> QED
        BY <2>3, <2>4
<1>12. CASE SenderLocal \/ SenderWrites
    <2>1. CASE SenderFails
        <3>1. /\ pc' = [pc EXCEPT !["sender"] = "done", !["sender_failed"] = "lock"]
              /\ state' = "CLOSING" /\ UNCHANGED lockVars /\ Alive("sender")
            BY <1>1, <1>5, <2>1 DEF SenderFails, Runs
        <3>2. /\ pc'["sender"] = "done" /\ pc'["sender_failed"] = "lock"
              /\ \A t \in Tasks \ {"sender", "sender_failed"} : pc'[t] = pc[t]
            BY <1>1, <3>1
        <3>3. state # "CLOSED" /\ pc["sender_failed"] = "off"
            BY <3>1 DEF Inv, LockInv, QuietWhenClosed
        <3> QED
            BY <1>1, <3>1, <3>2, <3>3 DEF PlainStep, Alive, lockVars
    <2>2. CASE SenderDrops
        BY <1>4, <2>2 DEF SenderDrops
    <2>3. CASE SenderStops \/ SenderTakes \/ SenderSends \/ SenderCancelled
                \/ SenderSendsTerminal \/ SenderLosesTerminal
        <3>1. /\ Alive("sender") /\ UNCHANGED <<state, lockVars>>
              /\ \E x \in PcValues : pc' = [pc EXCEPT !["sender"] = x]
            BY <1>1, <1>5, <2>3
            DEF SenderStops, SenderTakes, SenderSends, SenderCancelled, SenderSendsTerminal,
                SenderLosesTerminal, AtTerminal, Runs, PcValues
        <3> QED
            BY <1>3, <3>1
    <2> QED
        BY <1>12, <2>1, <2>2, <2>3 DEF SenderLocal, SenderWrites
<1>13. CASE ServerShutsDown
    <2>1. /\ pc["server_shutdown"] = "off" /\ UNCHANGED <<state, lockVars>>
          /\ pc'["server_shutdown"] = "lock"
          /\ \A t \in Tasks \ {"server_shutdown"} : pc'[t] = pc[t]
        BY <1>1, <1>13 DEF ServerShutsDown
    <2> QED
        BY <1>1, <2>1 DEF PlainStep, Alive, lockVars
<1>14. CASE ClientDrops
    BY <1>4, <1>14 DEF ClientDrops
<1> QED
    BY <1>6, <1>7, <1>8, <1>9, <1>10, <1>11, <1>12, <1>13, <1>14

\* Every step is plain, calls close(), or is a stage of it.
LEMMA StepsOfASession ==
    ASSUME Inv, AttendedInv, [Next]_vars
    PROVE  \/ PlainStep
           \/ \E c \in Closers : Calls(c)
           \/ \E c \in Closers : Close(c) /\ pc[c] \in InClose
<1>1. {"endpoint", "supervisor"} \subseteq Closers
    BY DEF Closers
<1>2. CASE UNCHANGED vars
    BY <1>2 DEF vars, lockVars, PlainStep, Alive
<1>3. ASSUME NEW c \in Closers, Close(c), pc[c] \notin InClose
      PROVE  Calls(c)
    <2>1. AcquireLock(c)
        BY <1>3
        DEF Close, AbortReturns, StopSender, PutSentinel, CutSender, SenderStopped,
            CloseSocket, InClose
    <2> QED
        BY <1>3, <2>1 DEF AcquireLock, Runs, Calls, CallClose, Alive
<1>4. CASE Receive \/ EndpointLeaves
    BY <1>1, <1>4, ReceiveIsPlain
<1>5. CASE \/ TtsBegins \/ TtsGranted \/ Engine
           \/ HeartbeatBeats \/ WatchdogFires \/ SupervisorWakes
           \/ \E t \in Producers : LoopReturns(t) \/ ProducerCancelled(t)
           \/ SenderLocal \/ SenderWrites
           \/ ServerShutsDown \/ ClientDrops
    BY <1>1, <1>5, TaskIsPlain
<1> QED
    BY <1>2, <1>3, <1>4, <1>5 DEF Next, Finished

\* In every reachable state CLOSING is somebody's work, and what a caller waits
\* for in close() has been cancelled.
THEOREM Attendance == Spec => []AttendedInv
<1>1. Init => AttendedInv
    BY DEF Init, Tasks, Producers, Closers, AttendedInv, Attended, AwaitsCancelled
<1>2. Inv /\ AttendedInv /\ [Next]_vars => AttendedInv'
    BY StepsOfASession, PlainKeepsAttended, CallKeepsAttended, CloseKeepsAttended
<1> QED
    BY <1>1, <1>2, Invariance, PTL DEF Spec

\* A session that is closing never waits on itself: whoever set CLOSING, there
\* is a caller that can take the lock, or one that has it and waits for nothing
\* but tasks it has cancelled (session.py:180-252).
THEOREM NeverStuck == Spec => []CloseGoesOn
<1>1. Inv /\ AttendedInv => CloseGoesOn
    <2> SUFFICES ASSUME Inv, AttendedInv, state = "CLOSING" PROVE CloseGoesOn
        BY DEF CloseGoesOn
    <2>1. CASE closeLock = "none"
        BY <2>1 DEF AttendedInv, Attended, CloseGoesOn, Runs
    <2>2. CASE closeLock \in Closers
        BY <2>2 DEF AttendedInv, CloseGoesOn
    <2> QED
        BY <2>1, <2>2 DEF Inv, TypeOK
<1> QED
    BY <1>1, Attendance, Invariance, PTL

\* A step in CLOSING leaves the holder of the lock where it is or advances it,
\* and brings no task back.
LEMMA StepAdvances ==
    ASSUME Inv, AttendedInv, [Next]_vars, state = "CLOSING", closeLock # "none"
    PROVE  GoesForward
<1> DEFINE h == closeLock
<1>1. /\ pc \in [Tasks -> PcValues] /\ Closers \subseteq Tasks
      /\ h \in Closers /\ pc[h] \in InClose /\ pc[h] # "ws"
      /\ \A c \in Closers \ {h} : pc[c] \notin InClose
      /\ "sender" \in Tasks \ Closers /\ Producers \subseteq Tasks
    BY DEF Inv, TypeOK, LockInv, ProgressInv, Tasks, Closers
<1>2. CASE PlainStep
    <2>1. closeLock' = h /\ pc'[h] = pc[h]
        BY <1>1, <1>2 DEF PlainStep
    <2>2. Stage(closeLock)' >= Stage(closeLock)
        BY <2>1 DEF Stage
    <2> QED
        BY <1>2, <2>1, <2>2 DEF PlainStep, Closing, GoesForward
<1>3. ASSUME NEW c \in Closers, Calls(c)
      PROVE  GoesForward
    <2>1. c # h /\ closeLock' = h /\ pc' = [pc EXCEPT ![c] = "lock"] /\ Alive(c)
        BY <1>1, <1>3 DEF Calls, CallClose, lockVars
    <2>2. \A t \in Tasks \ {c} : pc'[t] = pc[t]
        BY <1>1, <2>1
    <2>3. pc'[h] = pc[h]
        BY <1>1, <2>1, <2>2
    <2>4. Stage(closeLock)' >= Stage(closeLock)
        BY <2>1, <2>3 DEF Stage
    <2>5. \A t \in Producers \cup {"sender"} : Alive(t)' => Alive(t)
        BY <1>1, <2>1, <2>2 DEF Alive
    <2> QED
        BY <2>1, <2>4, <2>5 DEF GoesForward
<1>4. ASSUME NEW c \in Closers, Close(c), pc[c] \in InClose
      PROVE  GoesForward
    <2>1. c = h
        BY <1>1, <1>4
    <2>2. \/ AbortReturns(h) \/ StopSender(h) \/ PutSentinel(h) \/ CutSender(h)
          \/ SenderStopped(h)
        BY <1>1, <1>4, <2>1 DEF Close, AcquireLock, CloseSocket, Runs, InClose
    <2>3. closeLock' = h
        BY <2>2 DEF AbortReturns, StopSender, PutSentinel, CutSender, SenderStopped, lockVars
    <2>4. PICK y \in {"reap", "sentinel", "drain", "cut", "ws"} :
            /\ pc' = [pc EXCEPT ![h] = y]
            /\ y = "reap" => pc[h] = "abort"
            /\ y = "sentinel" => pc[h] = "reap"
            /\ y = "drain" => pc[h] = "sentinel"
            /\ y = "cut" => pc[h] \in {"reap", "sentinel", "drain"}
        BY <2>2 DEF AbortReturns, CancelProducers, StopSender, PutSentinel, CutSender,
                    SenderStopped
    <2>5. pc'[h] = y /\ \A t \in Tasks \ {h} : pc'[t] = pc[t]
        BY <1>1, <2>4
    <2>6. Stage(closeLock)' >= Stage(closeLock)
        BY <1>1, <2>3, <2>4, <2>5 DEF Stage, InClose
    <2>7. \A t \in (Producers \cup {"sender"}) \ {closeLock} : Alive(t)' => Alive(t)
        BY <1>1, <2>5 DEF Alive
    <2> QED
        BY <2>3, <2>6, <2>7 DEF GoesForward
<1> QED
    BY <1>2, <1>3, <1>4, StepsOfASession

\* close() goes through its stages once and in order, under one caller, until
\* CLOSED (session.py:190-249).
THEOREM Advancing == Spec => CloseAdvances
<1>1. Inv /\ AttendedInv /\ [Next]_vars
        => [state = "CLOSING" /\ closeLock # "none" => GoesForward]_vars
    BY StepAdvances
<1> QED
    BY <1>1, Attendance, Invariance, PTL DEF Spec, CloseAdvances

=============================================================================
