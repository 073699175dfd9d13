---------------------------- MODULE AnnounceProofs ----------------------------
(***************************************************************************)
(* What the client is told: every session that is closed under a connected *)
(* client has its terminal frame attempted, and "done" is never said of an *)
(* incomplete stream.  AnnounceInv is inductive relative to Inv; the       *)
(* argument is that whoever causes a close announces it first, and that    *)
(* both exits of the sender owe the announcement.  With it, the session    *)
(* implements SessionService.                                              *)
(***************************************************************************)
EXTENDS SessionProofs

\* An ordinary step: the sender, cancellations and the connection are left
\* alone, and what ends or closes has been announced.
OrdinaryStep ==
    /\ UNCHANGED <<cancelReq, sentTerminal, wire, sock>>
    /\ HasSentinel' => HasSentinel
    /\ pc'["sender"] = pc["sender"]
    /\ pc'["watchdog"] # "off"
    /\ pc'["supervisor"] # "off" => pc'["tts"] # "off"
    /\ terminal # "none" => terminal' = terminal
    /\ terminal' = "done" => terminal = "done" \/ complete' \/ sock # "open"
    /\ complete => complete'
    /\ state \in Closing => state' = state
    /\ state' \in Closing => state \in Closing \/ Announced'
    /\ \A c \in Closers :
        pc'[c] \in {"lock", "exit"} => pc'[c] = pc[c] \/ Announced'
    /\ \A t \in {"tts", "watchdog"} :
        pc'[t] = "done" => pc[t] = "done" \/ Announced'

\* Ordinary steps keep the invariant.
LEMMA OrdinaryKeepsInv ==
    ASSUME AnnounceInv, OrdinaryStep
    PROVE  AnnounceInv'
<1> USE DEF AnnounceInv, OrdinaryStep
<1>1. Announced => Announced'
    BY DEF Announced
<1>2. CallersAnnounce'
    BY <1>1 DEF CallersAnnounce
<1>3. SenderAnnounces'
    BY DEF SenderAnnounces, Closing
<1>4. DoneIsEarned'
    BY DEF DoneIsEarned, DoneMeansComplete
<1> QED
    BY <1>2, <1>3, <1>4

\* A put adds no SENTINEL, and announces the close it starts.
LEMMA PutAnnounces ==
    ASSUME Inv, NEW items \in {<<"event">>, <<"event", "event">>, <<"audio">>, <<"rejected">>},
           NEW st \in States, NEW tasks \in [Tasks -> PcValues],
           Put(items, st, tasks), sock' = sock
    PROVE  /\ HasSentinel' => HasSentinel
           /\ terminal # "none" => terminal' = terminal
           /\ terminal' = "done" => terminal = "done"
           /\ st \in Closing => state' = st
           /\ state' \in Closing => st \in Closing \/ Announced'
           /\ pc' = tasks \/ (/\ pc' = [tasks EXCEPT !["client_slow"] = "lock"]
                              /\ Announced')
           /\ ~FitsOut(1) => st \in Closing \/ Announced'
<1>1. outQueue \in Seq(Items) /\ Len(outQueue) \in Nat
    BY DEF Inv, TypeOK
<1>2. /\ items \in Seq(Items) /\ Len(items) \in 1..2
      /\ \A i \in 1..Len(items) : items[i] # "SENTINEL"
      /\ Head(items) # "SENTINEL" /\ Head(items) \in Items
    <2>1. CASE items \in {<<"event">>, <<"audio">>, <<"rejected">>}
        <3>1. PICK f \in Frames : items = <<f>>
            BY <2>1 DEF Frames
        <3>2. f \in Items /\ f # "SENTINEL"
            BY <3>1 DEF Items, Frames
        <3> QED
            BY <3>1, <3>2
    <2>2. CASE items = <<"event", "event">>
        BY <2>2 DEF Items, Frames
    <2> QED
        BY <2>1, <2>2
<1>3. HasSentinel' => HasSentinel
    <2>1. CASE outQueue' = outQueue
        BY <2>1 DEF HasSentinel
    <2>2. CASE outQueue' = outQueue \o items
        <3>1. /\ Len(outQueue') = Len(outQueue) + Len(items)
              /\ \A i \in 1..(Len(outQueue) + Len(items)) : outQueue'[i] =
                    IF i <= Len(outQueue) THEN outQueue[i] ELSE items[i - Len(outQueue)]
            BY <1>1, <1>2, <2>2, ConcatProperties
        <3>2. ASSUME NEW i \in 1..Len(outQueue'), outQueue'[i] = "SENTINEL"
              PROVE  i \in 1..Len(outQueue) /\ outQueue[i] = "SENTINEL"
            <4>1. CASE i <= Len(outQueue)
                BY <1>1, <1>2, <3>1, <3>2, <4>1
            <4>2. CASE ~(i <= Len(outQueue))
                <5>1. i - Len(outQueue) \in 1..Len(items)
                    BY <1>1, <1>2, <3>1, <4>2
                <5> QED
                    BY <1>1, <1>2, <3>1, <3>2, <4>2, <5>1
            <4> QED
                BY <4>1, <4>2
        <3> QED
            BY <3>2 DEF HasSentinel
    <2>3. CASE outQueue' = Append(outQueue, Head(items))
        <3>1. /\ Len(outQueue') = Len(outQueue) + 1
              /\ \A i \in 1..Len(outQueue) : outQueue'[i] = outQueue[i]
              /\ outQueue'[Len(outQueue) + 1] = Head(items)
            BY <1>1, <1>2, <2>3, AppendProperties
        <3> QED
            BY <1>1, <1>2, <3>1 DEF HasSentinel
    <2> QED
        BY <2>1, <2>2, <2>3 DEF Put
<1>4. /\ terminal # "none" => terminal' = terminal
      /\ terminal' = "done" => terminal = "done"
      /\ st \in Closing => state' = st
    BY DEF Put, FirstTerminal
<1>5. st \notin Closing /\ terminal' = FirstTerminal("error") => Announced'
    BY DEF FirstTerminal, Announced
<1>6. state' \in Closing => st \in Closing \/ Announced'
    BY <1>5 DEF Put
<1>7. pc' = tasks \/ (/\ pc' = [tasks EXCEPT !["client_slow"] = "lock"]
                      /\ Announced')
    BY <1>5 DEF Put, SpawnSlowClose
<1>8. ~FitsOut(1) => st \in Closing \/ Announced'
    <2>1. ~FitsOut(1) => ~FitsOut(Len(items))
        BY <1>1, <1>2, SessionAssumption DEF FitsOut
    <2> QED
        BY <1>5, <2>1 DEF Put
<1> QED
    BY <1>3, <1>4, <1>6, <1>7, <1>8

\* A close() that has been announced keeps the invariant when it is called.
LEMMA CallCloseAnnounces ==
    ASSUME Inv, AnnounceInv, NEW c \in Closers, CallClose(c), Alive(c), Announced',
           terminal # "none" => terminal' = terminal,
           terminal' = "done" => terminal = "done",
           UNCHANGED <<outQueue, sentTerminal, wire, sock, complete>>
    PROVE  AnnounceInv'
<1>1. /\ pc \in [Tasks -> PcValues] /\ c \in Tasks
      /\ {"sender", "tts", "watchdog"} \cap Closers = {}
      /\ {"sender", "tts", "watchdog", "supervisor"} \subseteq Tasks
    BY DEF Inv, TypeOK, Tasks, Closers, Producers
<1>2. PICK x \in PcValues : pc' = [pc EXCEPT ![c] = x]
    BY DEF CallClose, EnterClose, CancelProducers, PcValues, InClose
<1>3. /\ \A t \in Tasks \ {c} : pc'[t] = pc[t]
    BY <1>1, <1>2
<1>4. pc["supervisor"] # "off" \/ c # "supervisor"
    BY DEF Alive
<1>5. CallersAnnounce'
    BY <1>1, <1>3, <1>4, Zenon DEF AnnounceInv, CallersAnnounce
<1>6. \/ UNCHANGED <<state, cancelReq>>
      \/ state' = "CLOSING" /\ state # "CLOSED"
    BY DEF CallClose, EnterClose, AlreadyClosed, lockVars
<1>7. HasSentinel' = HasSentinel
    BY DEF HasSentinel
<1>8. SenderAnnounces'
    BY <1>1, <1>3, <1>6, <1>7 DEF AnnounceInv, SenderAnnounces, Closing
<1>9. DoneIsEarned'
    BY DEF AnnounceInv, DoneIsEarned, DoneMeansComplete
<1> QED
    BY <1>5, <1>8, <1>9 DEF AnnounceInv

\* The endpoint keeps the invariant: a frame that closes the session has set
\* the terminal frame, and an endpoint that leaves without has lost the client.
LEMMA ReceiveAnnounces ==
    ASSUME Inv, AnnounceInv, Receive \/ EndpointLeaves
    PROVE  AnnounceInv'
<1>1. /\ pc \in [Tasks -> PcValues] /\ state \in States
      /\ {"recv", "exit", "new", "wait"} \subseteq PcValues
      /\ "endpoint" \in Closers /\ "endpoint" \notin Producers \cup {"sender"}
      /\ {"sender", "tts", "watchdog", "supervisor", "endpoint"} \subseteq Tasks
      /\ {"tts", "watchdog", "sender", "supervisor", "client_slow"} \cap {"endpoint"} = {}
      /\ {"STARTED", "ENDING"} \subseteq States \ Closing
      /\ "AUTHENTICATED" \notin Closing
    BY DEF Inv, TypeOK, PcValues, Tasks, Producers, Closers, States, Closing
<1>2. /\ pc["watchdog"] # "off"
      /\ pc["supervisor"] # "off" => pc["tts"] # "off"
      /\ state \in Closing => Announced
      /\ pc["endpoint"] = "exit" => Announced
      /\ Announced /\ sock' = sock /\ (terminal # "none" => terminal' = terminal)
            => Announced'
    BY <1>1 DEF AnnounceInv, CallersAnnounce, Announced
<1>3. \A kind \in {"error", "cancelled"} : terminal' = FirstTerminal(kind) =>
        /\ terminal # "none" => terminal' = terminal
        /\ terminal' = "done" => terminal = "done"
        /\ Announced'
    BY DEF FirstTerminal, Announced
<1>4. ASSUME CallClose("endpoint"), pc["endpoint"] \in {"recv", "exit"},
             \/ terminal' = terminal /\ Announced
             \/ \E kind \in {"error", "cancelled"} : terminal' = FirstTerminal(kind),
             UNCHANGED <<outQueue, senderVars, clientVars, engineVars>>
      PROVE  AnnounceInv'
    <2>1. UNCHANGED <<outQueue, sentTerminal, wire, sock, complete>>
        BY <1>4 DEF senderVars, clientVars, engineVars
    <2>2. Alive("endpoint")
        BY <1>4 DEF Alive
    <2>3. /\ terminal # "none" => terminal' = terminal
          /\ terminal' = "done" => terminal = "done"
          /\ Announced'
        BY <1>2, <1>3, <1>4, <2>1
    <2> QED
        BY <1>1, <1>4, <2>1, <2>2, <2>3, CallCloseAnnounces
<1>5. CASE ReceiveWhileClosing \/ EndpointLeaves
    BY <1>2, <1>4, <1>5
    DEF ReceiveWhileClosing, EndpointLeaves, Receiving, Announced
<1>6. CASE ReceiveCancel \/ ReceiveCrashes
    BY <1>4, <1>6 DEF ReceiveCancel, ReceiveCrashes, Receiving
<1>7. ASSUME NEW items, Backpressure(items), Receiving,
             UNCHANGED <<outQueue, senderVars, clientVars, engineVars>>
      PROVE  AnnounceInv'
    BY <1>4, <1>7 DEF Backpressure, Receiving
<1>8. CASE ReceiveStart
    <2> DEFINE tasks == [pc EXCEPT !["tts"] = "new", !["supervisor"] = "wait"]
    <2>1. /\ state = "AUTHENTICATED" /\ Put(<<"event">>, "STARTED", tasks)
          /\ UNCHANGED <<cancelReq, sentTerminal, wire, sock, complete>>
        BY <1>8 DEF ReceiveStart, lockVars, senderVars, clientVars, engineVars
    <2>2. /\ tasks \in [Tasks -> PcValues]
          /\ tasks["supervisor"] = "wait" /\ tasks["tts"] = "new"
          /\ \A t \in Tasks \ {"supervisor", "tts"} : tasks[t] = pc[t]
        BY <1>1
    <2> HIDE DEF tasks
    <2>3. /\ HasSentinel' => HasSentinel
          /\ terminal # "none" => terminal' = terminal
          /\ terminal' = "done" => terminal = "done"
          /\ state' \in Closing => Announced'
          /\ pc' = tasks \/ (pc' = [tasks EXCEPT !["client_slow"] = "lock"] /\ Announced')
        BY <1>1, <2>1, <2>2, PutAnnounces
    <2>4. /\ pc'["sender"] = pc["sender"] /\ pc'["watchdog"] = pc["watchdog"]
          /\ pc'["tts"] = "new" /\ pc'["supervisor"] = "wait"
          /\ \A c \in Closers \ {"supervisor"} : pc'[c] = pc[c] \/ Announced'
        BY <1>1, <2>2, <2>3 DEF Closers, Tasks
    <2>5. OrdinaryStep
        BY <1>1, <1>2, <2>1, <2>3, <2>4 DEF OrdinaryStep
    <2> QED
        BY <2>5, OrdinaryKeepsInv
<1>9. ASSUME NEW items \in {<<"event">>, <<"rejected">>},
             NEW x \in {"recv", "exit"}, x = "exit" => ~FitsOut(1),
             Put(items, state, [pc EXCEPT !["endpoint"] = x]),
             state \notin Closing, Receiving,
             UNCHANGED <<lockVars, senderVars, clientVars, engineVars>>
      PROVE  AnnounceInv'
    <2> DEFINE tasks == [pc EXCEPT !["endpoint"] = x]
    <2>1. /\ tasks \in [Tasks -> PcValues] /\ tasks["endpoint"] = x
          /\ \A t \in Tasks \ {"endpoint"} : tasks[t] = pc[t]
        BY <1>1
    <2>2. Put(items, state, tasks)
        BY <1>9
    <2> HIDE DEF tasks
    <2>3. UNCHANGED <<cancelReq, sentTerminal, wire, sock, complete>>
        BY <1>9 DEF lockVars, senderVars, clientVars, engineVars
    <2>4. /\ HasSentinel' => HasSentinel
          /\ terminal # "none" => terminal' = terminal
          /\ terminal' = "done" => terminal = "done"
          /\ state' \in Closing => Announced'
          /\ pc' = tasks \/ (pc' = [tasks EXCEPT !["client_slow"] = "lock"] /\ Announced')
          /\ x = "exit" => Announced'
        BY <1>1, <1>9, <2>1, <2>2, <2>3, PutAnnounces
    <2>5. /\ pc'["sender"] = pc["sender"] /\ pc'["watchdog"] = pc["watchdog"]
          /\ pc'["tts"] = pc["tts"] /\ pc'["supervisor"] = pc["supervisor"]
          /\ \A c \in Closers : pc'[c] = pc[c] \/ Announced' \/ pc'[c] = "recv"
        BY <1>1, <1>9, <2>1, <2>4 DEF Closers, Tasks
    <2>6. OrdinaryStep
        BY <1>1, <1>2, <1>9, <2>3, <2>4, <2>5 DEF OrdinaryStep
    <2> QED
        BY <2>6, OrdinaryKeepsInv
<1>10. CASE ReceiveRejected
    BY <1>9, <1>10 DEF ReceiveRejected
<1>11. ASSUME UNCHANGED <<terminal, pc, outQueue, lockVars, senderVars, clientVars,
                          engineVars>>,
             state' = state \/ (state = "STARTED" /\ state' = "ENDING")
      PROVE  AnnounceInv'
    <2>1. OrdinaryStep
        BY <1>1, <1>2, <1>11
        DEF OrdinaryStep, lockVars, senderVars, clientVars, engineVars,
            HasSentinel, Closing
    <2> QED
        BY <2>1, OrdinaryKeepsInv
<1>12. CASE ReceiveText
    BY <1>7, <1>11, <1>12 DEF ReceiveText
<1>13. CASE ReceiveFlush
    <2>1. PICK n \in 0..1 :
            \/ Backpressure(Sentences(n)) /\ UNCHANGED outQueue
            \/ /\ Put(<<"event">>, state, IF FitsOut(1) THEN pc
                                          ELSE [pc EXCEPT !["endpoint"] = "exit"])
               /\ UNCHANGED lockVars
        BY <1>13 DEF ReceiveFlush
    <2>2. pc = [pc EXCEPT !["endpoint"] = "recv"] /\ state \notin Closing
        BY <1>1, <1>13 DEF ReceiveFlush, Receiving
    <2>3. Receiving /\ UNCHANGED <<senderVars, clientVars, engineVars>>
        BY <1>13 DEF ReceiveFlush
    <2>4. CASE Backpressure(Sentences(n)) /\ UNCHANGED outQueue
        BY <1>7, <2>3, <2>4
    <2>5. CASE \E x \in {"recv", "exit"} :
                /\ x = "exit" => ~FitsOut(1)
                /\ Put(<<"event">>, state, [pc EXCEPT !["endpoint"] = x])
                /\ UNCHANGED lockVars
        BY <1>9, <2>2, <2>3, <2>5
    <2> QED
        BY <2>1, <2>2, <2>4, <2>5
<1>14. CASE ReceiveEnd
    BY <1>7, <1>11, <1>14 DEF ReceiveEnd
<1> QED
    BY <1>5, <1>6, <1>8, <1>10, <1>12, <1>13, <1>14 DEF Receive

\* run_tts, the timers and the supervisor keep the invariant: a stream that is
\* cut ends in a session that is closing, hence announced, so its "done" is
\* not the first terminal frame unless the client is gone.
LEMMA TaskAnnounces ==
    ASSUME Inv, AnnounceInv,
           \/ TtsBegins \/ TtsGranted \/ Engine
           \/ HeartbeatBeats \/ WatchdogFires \/ SupervisorWakes
           \/ \E t \in Producers : LoopReturns(t) \/ ProducerCancelled(t)
    PROVE  AnnounceInv'
<1>1. /\ pc \in [Tasks -> PcValues] /\ state \in States
      /\ {"synth", "slot", "done"} \subseteq PcValues
      /\ {"tts", "watchdog", "heartbeat"} \cap (Closers \cup {"sender"}) = {}
      /\ Producers \subseteq Tasks /\ Closers \subseteq Tasks /\ "sender" \in Tasks
      /\ Producers = {"tts", "heartbeat", "watchdog", "supervisor"}
      /\ "supervisor" \in Closers /\ "sender" \notin Closers \cup Producers
    BY DEF Inv, TypeOK, PcValues, Tasks, Producers, Closers
<1>2. /\ pc["watchdog"] # "off"
      /\ pc["supervisor"] # "off" => pc["tts"] # "off"
      /\ state \in Closing => Announced
      /\ cancelReq # {} => state \in Closing
      /\ Announced /\ sock' = sock /\ (terminal # "none" => terminal' = terminal)
            => Announced'
    BY DEF AnnounceInv, CallersAnnounce, SenderAnnounces, Announced
<1>3. \A kind : terminal' = FirstTerminal(kind) =>
        /\ terminal # "none" => terminal' = terminal
        /\ terminal' = "done" => terminal = "done" \/ kind = "done"
        /\ kind # "none" => Announced'
    BY DEF FirstTerminal, Announced
\* A step of t, which is not the supervisor, that announces or has announced.
<1>4. ASSUME NEW t \in {"tts", "heartbeat", "watchdog"}, pc' = [pc EXCEPT ![t] = "done"],
             t = "heartbeat" \/ Announced',
             terminal # "none" => terminal' = terminal,
             terminal' = "done" => terminal = "done" \/ complete' \/ sock # "open",
             complete => complete',
             UNCHANGED <<state, outQueue, lockVars, senderVars, clientVars>>
      PROVE  AnnounceInv'
    <2>1. /\ pc'[t] = "done" /\ \A u \in Tasks \ {t} : pc'[u] = pc[u]
        BY <1>1, <1>4
    <2>2. \A c \in Closers \cup {"sender"} : pc'[c] = pc[c]
        BY <1>1, <2>1
    <2>3. pc'["watchdog"] # "off" /\ (pc'["supervisor"] # "off" => pc'["tts"] # "off")
        BY <1>1, <1>2, <2>1
    <2>4. \A u \in {"tts", "watchdog"} :
            pc'[u] = "done" => pc[u] = "done" \/ Announced'
        BY <1>1, <1>4, <2>1
    <2>5. UNCHANGED <<cancelReq, sentTerminal, wire, sock, HasSentinel>>
        BY <1>4 DEF lockVars, senderVars, clientVars, HasSentinel
    <2>6. OrdinaryStep
        BY <1>4, <2>2, <2>3, <2>4, <2>5 DEF OrdinaryStep
    <2> QED
        BY <2>6, OrdinaryKeepsInv
\* A step of t that puts frames.
<1>5. ASSUME NEW t \in {"tts", "heartbeat"}, NEW x \in {"synth", "slot", "done"},
             NEW items \in {<<"event">>, <<"event", "event">>, <<"audio">>},
             \/ Put(items, state, pc)
             \/ Put(items, state, [pc EXCEPT ![t] = x]),
             t = "tts" /\ x = "done" => Put(items, state, pc) \/ state \in Closing \/ ~FitsOut(1),
             UNCHANGED <<lockVars, senderVars, clientVars, complete>>
      PROVE  AnnounceInv'
    <2>1. PICK tasks \in {pc, [pc EXCEPT ![t] = x]} :
            /\ Put(items, state, tasks)
            /\ t = "tts" /\ x = "done" => tasks = pc \/ state \in Closing \/ ~FitsOut(1)
        BY <1>5
    <2>2. /\ tasks \in [Tasks -> PcValues]
          /\ tasks[t] \in {pc[t], x} /\ \A u \in Tasks \ {t} : tasks[u] = pc[u]
          /\ tasks = pc \/ tasks[t] = x
        BY <1>1, <2>1
    <2>3. UNCHANGED <<cancelReq, sentTerminal, wire, sock>>
        BY <1>5 DEF lockVars, senderVars, clientVars
    <2>4. /\ HasSentinel' => HasSentinel
          /\ terminal # "none" => terminal' = terminal
          /\ terminal' = "done" => terminal = "done"
          /\ state \in Closing => state' = state
          /\ state' \in Closing => state \in Closing \/ Announced'
          /\ pc' = tasks \/ (pc' = [tasks EXCEPT !["client_slow"] = "lock"] /\ Announced')
          /\ ~FitsOut(1) => state \in Closing \/ Announced'
        BY <1>1, <2>1, <2>2, <2>3, PutAnnounces
    <2>5. /\ \A u \in Producers \cup {"sender"} : pc'[u] = tasks[u]
          /\ \A c \in Closers : pc'[c] = pc[c] \/ Announced'
        BY <1>1, <2>2, <2>4 DEF Closers
    <2>6. pc'["sender"] = pc["sender"] /\ pc'["watchdog"] = pc["watchdog"]
            /\ pc'["supervisor"] = pc["supervisor"]
            /\ (pc["tts"] # "off" => pc'["tts"] # "off")
        BY <1>1, <2>2, <2>5
    <2>7. pc'["tts"] = "done" => pc["tts"] = "done" \/ Announced'
        <3>1. CASE t = "tts" /\ tasks # pc /\ x = "done"
            BY <1>2, <2>1, <2>3, <2>4, <3>1
        <3>2. CASE ~(t = "tts" /\ tasks # pc /\ x = "done")
            BY <1>1, <2>2, <2>5, <3>2
        <3> QED
            BY <3>1, <3>2
    <2>8. OrdinaryStep
        BY <1>2, <1>5, <2>3, <2>4, <2>5, <2>6, <2>7 DEF OrdinaryStep
    <2> QED
        BY <2>8, OrdinaryKeepsInv
<1>6. CASE TtsBegins \/ TtsGranted
    <2>1. UNCHANGED <<lockVars, senderVars, clientVars, complete>>
        BY <1>6 DEF TtsBegins, TtsGranted, engineVars
    <2>2. PICK x \in {"synth", "slot"}, items \in {<<"event">>, <<"event", "event">>} :
            Put(items, state, [pc EXCEPT !["tts"] = x])
        BY <1>6 DEF TtsBegins, TtsGranted
    <2> QED
        BY <1>5, <2>1, <2>2
<1>7. CASE EngineReads
    <2>1. OrdinaryStep
        BY <1>2, <1>7
        DEF EngineReads, OrdinaryStep, lockVars, senderVars, clientVars, HasSentinel
    <2> QED
        BY <2>1, OrdinaryKeepsInv
<1>8. CASE EngineYields
    <2>1. UNCHANGED <<lockVars, senderVars, clientVars, complete>>
        BY <1>8 DEF EngineYields
    <2>2. CASE Put(<<"audio">>, state,
                   IF FitsOut(1) THEN pc ELSE [pc EXCEPT !["tts"] = "done"])
        BY <1>5, <2>1, <2>2
    <2>3. CASE /\ state \in Closing
               /\ terminal' = FirstTerminal("done")
               /\ pc' = [pc EXCEPT !["tts"] = "done"]
               /\ UNCHANGED <<state, outQueue>>
        <3>1. terminal # "none" => terminal' = terminal
            BY <1>3, <2>3
        <3>2. Announced'
            BY <1>3, <2>3
        <3>3. terminal' = "done" => terminal = "done" \/ sock # "open"
            BY <1>2, <2>3, <3>1 DEF Announced
        <3> QED
            BY <1>4, <2>1, <2>3, <3>1, <3>2, <3>3
    <2> QED
        BY <1>8, <2>2, <2>3 DEF EngineYields
<1>9. CASE EngineEnds
    <2>1. /\ UNCHANGED <<state, outQueue, lockVars, senderVars, clientVars>>
          /\ terminal' = FirstTerminal("done")
          /\ pc' = [pc EXCEPT !["tts"] = "done"]
        BY <1>9 DEF EngineEnds
    <2>2. /\ terminal # "none" => terminal' = terminal
          /\ Announced'
        BY <1>3, <2>1
    <2>3. complete' = TRUE \/ (Aborted /\ complete' = complete)
        BY <1>9 DEF EngineEnds
    <2>4. Aborted => Announced
        BY <1>2 DEF Aborted, Inv, LockInv
    <2>5. terminal' = "done" => terminal = "done" \/ complete' \/ sock # "open"
        BY <2>2, <2>3, <2>4 DEF Announced
    <2>6. complete => complete'
        BY <2>3
    <2> QED
        BY <1>4, <2>1, <2>2, <2>5, <2>6
<1>10. CASE EngineFails \/ WatchdogFires
    <2>1. PICK t \in {"tts", "watchdog"} : pc' = [pc EXCEPT ![t] = "done"]
        BY <1>10 DEF EngineFails, WatchdogFires
    <2>2. /\ UNCHANGED <<state, outQueue, lockVars, senderVars, clientVars, complete>>
          /\ terminal' = FirstTerminal("error")
        BY <1>10 DEF EngineFails, WatchdogFires, engineVars
    <2>3. /\ terminal # "none" => terminal' = terminal
          /\ terminal' = "done" => terminal = "done"
          /\ Announced'
        BY <1>3, <2>2
    <2> QED
        BY <1>4, <2>1, <2>2, <2>3
<1>11. CASE HeartbeatBeats
    <2>1. UNCHANGED <<lockVars, senderVars, clientVars, complete>>
        BY <1>11 DEF HeartbeatBeats, engineVars
    <2>2. Put(<<"event">>, state, pc)
            \/ Put(<<"event">>, state, [pc EXCEPT !["heartbeat"] = "done"])
        BY <1>11 DEF HeartbeatBeats
    <2> QED
        BY <1>5, <2>1, <2>2
<1>12. CASE SupervisorWakes
    <2>1. /\ pc["supervisor"] = "wait" /\ WatchedStopped
          /\ UNCHANGED <<terminal, outQueue, sentTerminal, wire, sock, complete>>
        BY <1>12 DEF SupervisorWakes, Runs, senderVars, clientVars, engineVars
    <2>2. Announced /\ Announced'
        BY <1>2, <2>1
        DEF WatchedStopped, Alive, AnnounceInv, CallersAnnounce, Announced
    <2>3. CASE CallClose("supervisor")
        BY <1>1, <2>1, <2>2, <2>3, CallCloseAnnounces DEF Alive
    <2>4. CASE /\ pc' = [pc EXCEPT !["supervisor"] = "done"]
               /\ UNCHANGED <<state, lockVars>>
        <3>1. \A t \in Tasks \ {"supervisor"} : pc'[t] = pc[t]
            BY <1>1, <2>4
        <3>2. OrdinaryStep
            BY <1>1, <1>2, <2>1, <2>2, <2>4, <3>1
            DEF OrdinaryStep, lockVars, HasSentinel
        <3> QED
            BY <3>2, OrdinaryKeepsInv
    <2> QED
        BY <1>12, <2>3, <2>4 DEF SupervisorWakes
<1>13. CASE \E t \in Producers : LoopReturns(t) \/ ProducerCancelled(t)
    <2>1. PICK t \in Producers : LoopReturns(t) \/ ProducerCancelled(t)
        BY <1>13
    <2>2. /\ pc' = [pc EXCEPT ![t] = "done"] /\ pc[t] # "off"
          /\ UNCHANGED <<state, terminal, outQueue, lockVars, senderVars, clientVars,
                         complete>>
        BY <2>1 DEF LoopReturns, ProducerCancelled, Runs, Alive, engineVars
    <2>3. state \in Closing
        BY <1>2, <2>1 DEF LoopReturns, ProducerCancelled
    <2>4. Announced /\ Announced'
        BY <1>2, <2>2, <2>3 DEF Announced, clientVars
    <2>5. CASE t # "supervisor"
        BY <1>1, <1>4, <2>2, <2>4, <2>5
    <2>6. CASE t = "supervisor"
        <3>1. \A u \in Tasks \ {"supervisor"} : pc'[u] = pc[u]
            BY <1>1, <2>2, <2>6
        <3>2. OrdinaryStep
            BY <1>1, <1>2, <2>2, <2>4, <2>6, <3>1
            DEF OrdinaryStep, lockVars, senderVars, clientVars, HasSentinel
        <3> QED
            BY <3>2, OrdinaryKeepsInv
    <2> QED
        BY <2>5, <2>6
<1> QED
    BY <1>6, <1>7, <1>8, <1>9, <1>10, <1>11, <1>12, <1>13 DEF Engine

\* A lost connection, and the shutdown of the server, which announces itself.
LEMMA EnvironmentAnnounces ==
    ASSUME Inv, AnnounceInv, ServerShutsDown \/ ClientDrops
    PROVE  AnnounceInv'
<1>1. /\ pc \in [Tasks -> PcValues]
      /\ {"sender", "tts", "watchdog", "supervisor", "server_shutdown"} \subseteq Tasks
      /\ Closers \subseteq Tasks
    BY DEF Inv, TypeOK, Tasks, Closers, Producers
<1>2. CASE ServerShutsDown
    <2>1. /\ pc' = [pc EXCEPT !["server_shutdown"] = "lock"]
          /\ terminal' = FirstTerminal("error")
          /\ UNCHANGED <<state, outQueue, cancelReq, sentTerminal, wire, sock, complete>>
        BY <1>2 DEF ServerShutsDown, lockVars, senderVars, clientVars, engineVars
    <2>2. \A t \in Tasks \ {"server_shutdown"} : pc'[t] = pc[t]
        BY <1>1, <2>1
    <2>3. /\ terminal # "none" => terminal' = terminal
          /\ terminal' = "done" => terminal = "done"
          /\ Announced'
        BY <2>1 DEF FirstTerminal, Announced
    <2>4. OrdinaryStep
        BY <1>1, <2>1, <2>2, <2>3
        DEF OrdinaryStep, HasSentinel, AnnounceInv, CallersAnnounce
    <2> QED
        BY <2>4, OrdinaryKeepsInv
<1>3. CASE ClientDrops
    <2>1. /\ sock' = "lost"
          /\ UNCHANGED <<state, terminal, outQueue, pc, cancelReq, sentTerminal, wire,
                         complete>>
        BY <1>3 DEF ClientDrops, lockVars, senderVars, engineVars
    <2> QED
        BY <2>1
        DEF AnnounceInv, CallersAnnounce, SenderAnnounces, DoneIsEarned,
            DoneMeansComplete, Announced, HasSentinel
<1> QED
    BY <1>2, <1>3

\* The stages of close() keep the invariant: they run in a session that is
\* closing, hence announced, and close the socket only once it is CLOSED.
LEMMA CloseAnnounces ==
    ASSUME Inv, AnnounceInv, NEW c \in Closers, Close(c)
    PROVE  AnnounceInv'
<1>1. /\ pc \in [Tasks -> PcValues] /\ c \in Tasks
      /\ {"sender", "tts", "watchdog"} \cap Closers = {}
      /\ {"sender", "tts", "watchdog", "supervisor"} \subseteq Tasks
    BY DEF Inv, TypeOK, Tasks, Closers, Producers
<1>2. CASE AcquireLock(c)
    <2>1. /\ CallClose(c) /\ pc[c] = "lock"
          /\ UNCHANGED <<terminal, outQueue, sentTerminal, wire, sock, complete>>
        BY <1>2 DEF AcquireLock, Runs, CallClose, senderVars, clientVars, engineVars
    <2>2. Announced' /\ Alive(c)
        BY <2>1 DEF AnnounceInv, CallersAnnounce, Announced, Alive
    <2> QED
        BY <2>1, <2>2, CallCloseAnnounces
<1>3. ASSUME pc[c] \in InClose, NEW y \in InClose \cup {"done"},
             pc' = [pc EXCEPT ![c] = y],
             state' = state \/ state' = "CLOSED",
             sock' = sock \/ (sock' = "closed" /\ sock = "open" /\ state = "CLOSED"),
             UNCHANGED <<terminal, sentTerminal, wire, complete>>
      PROVE  AnnounceInv'
    <2>1. state \in Closing /\ state' \in Closing /\ Announced /\ Announced'
        BY <1>3 DEF Inv, LockInv, Closing, Closers, AnnounceInv, CallersAnnounce,
                    Announced
    <2>2. \A t \in Tasks \ {c} : pc'[t] = pc[t]
        BY <1>1, <1>3
    <2>3. CallersAnnounce'
        <3>1. pc'["watchdog"] # "off" /\ pc["supervisor"] # "off" => pc'["tts"] # "off"
            BY <1>1, <2>2 DEF AnnounceInv, CallersAnnounce
        <3>2. pc'["supervisor"] # "off" => pc["supervisor"] # "off"
            <4>1. "off" \notin InClose
                BY DEF InClose
            <4> QED
                BY <1>1, <1>3, <2>2, <4>1
        <3>3. pc'["watchdog"] # "off"
            BY <1>1, <2>2 DEF AnnounceInv, CallersAnnounce
        <3> QED
            BY <2>1, <3>1, <3>2, <3>3 DEF CallersAnnounce
    <2>4. SenderAnnounces'
        <3>1. sock' = "closed" => state' = "CLOSED"
            BY <1>3 DEF AnnounceInv, SenderAnnounces
        <3>2. pc'["sender"] = "done" => sentTerminal' \/ sock' = "lost"
            BY <1>1, <1>3, <2>2 DEF AnnounceInv, SenderAnnounces
        <3> QED
            BY <2>1, <3>1, <3>2 DEF SenderAnnounces
    <2>5. DoneIsEarned'
        BY <1>3 DEF AnnounceInv, DoneIsEarned, DoneMeansComplete
    <2> QED
        BY <2>3, <2>4, <2>5 DEF AnnounceInv
<1>4. {"abort", "reap", "sentinel", "drain", "cut", "ws"} = InClose
    BY DEF InClose
<1>5. CASE AbortReturns(c) \/ StopSender(c) \/ PutSentinel(c) \/ CutSender(c)
                \/ SenderStopped(c)
    <2>1. /\ pc[c] \in InClose
          /\ \E y \in InClose : pc' = [pc EXCEPT ![c] = y]
          /\ state' = state \/ state' = "CLOSED"
          /\ UNCHANGED <<terminal, sentTerminal, wire, sock, complete>>
        BY <1>4, <1>5
        DEF AbortReturns, CancelProducers, StopSender, PutSentinel, CutSender,
            SenderStopped, senderVars, clientVars, engineVars
    <2> QED
        BY <1>3, <2>1
<1>6. CASE CloseSocket(c)
    <2>1. /\ pc[c] = "ws" /\ pc' = [pc EXCEPT ![c] = "done"] /\ state' = state
          /\ sock' = sock \/ (sock' = "closed" /\ sock = "open")
          /\ UNCHANGED <<terminal, sentTerminal, wire, complete>>
        BY <1>6 DEF CloseSocket, senderVars, engineVars
    <2>2. state = "CLOSED" /\ pc[c] \in InClose
        BY <1>4, <2>1 DEF Inv, ProgressInv
    <2> QED
        BY <1>3, <2>1, <2>2
<1> QED
    BY <1>2, <1>5, <1>6 DEF Close

\* The sender keeps the invariant: it ends by SENTINEL or by a cancellation,
\* both of which come from a close() that was announced, and tries to send the
\* frame first; or by a failure, when the client is gone.
LEMMA SenderAnnouncesInv ==
    ASSUME Inv, AnnounceInv, SenderLocal \/ SenderWrites
    PROVE  AnnounceInv'
<1>1. /\ pc \in [Tasks -> PcValues]
      /\ {"sender", "tts", "watchdog", "supervisor"} \subseteq Tasks
      /\ Closers \subseteq Tasks /\ "sender" \notin Closers
      /\ "sender_failed" \notin {"sender", "tts", "watchdog", "supervisor"}
      /\ wire \in Seq(Frames \cup Terminals) /\ outQueue \in Seq(Items)
      /\ "done" \notin Frames /\ sock \in {"open", "lost", "closed"}
    BY DEF Inv, TypeOK, Tasks, Closers, Producers, Frames
<1>2. Alive("sender") /\ UNCHANGED <<terminal, cancelReq, sock, complete>>
    BY DEF SenderLocal, SenderWrites, SenderStops, SenderDrops, SenderTakes,
           SenderFails, SenderCancelled, SenderLosesTerminal, SenderSends,
           SenderSendsTerminal, AtTerminal, Runs, Alive, lockVars, clientVars,
           engineVars
<1>3. /\ state # "CLOSED" /\ sock # "closed"
      /\ Announced' = Announced
    BY <1>2 DEF Inv, QuietWhenClosed, AnnounceInv, SenderAnnounces, Announced
<1>4. ASSUME outQueue # <<>>, outQueue' = Tail(outQueue)
      PROVE  HasSentinel' => HasSentinel
    <2>1. /\ Len(outQueue') = Len(outQueue) - 1 /\ Len(outQueue) \in Nat
          /\ \A i \in 1..Len(outQueue') : outQueue'[i] = outQueue[i + 1]
        BY <1>1, <1>4, HeadTailProperties
    <2> QED
        BY <2>1 DEF HasSentinel
\* What a step of the sender has to show.
<1>5. ASSUME \/ /\ \A t \in Tasks \ {"sender"} : pc'[t] = pc[t]
                /\ state' = state
             \/ /\ \A t \in Tasks \ {"sender", "sender_failed"} : pc'[t] = pc[t]
                /\ state' = "CLOSING" /\ Announced,
             pc'["sender"] = "done" => sentTerminal' \/ sock = "lost",
             HasSentinel' => HasSentinel,
             \/ wire' = wire
             \/ wire' = Append(wire, hand) /\ hand \in Frames
             \/ wire' = Append(wire, terminal) /\ terminal # "none" /\ sock = "open"
      PROVE  AnnounceInv'
    <2>1. CallersAnnounce'
        <3>1. \A t \in {"tts", "watchdog", "supervisor"} : pc'[t] = pc[t]
            BY <1>1, <1>5
        <3>2. \A c \in Closers : pc'[c] = pc[c] \/ Announced'
            BY <1>1, <1>3, <1>5
        <3>3. state' \in Closing => Announced'
            BY <1>3, <1>5 DEF AnnounceInv, CallersAnnounce
        <3> QED
            BY <1>3, <3>1, <3>2, <3>3 DEF AnnounceInv, CallersAnnounce
    <2>2. SenderAnnounces'
        BY <1>2, <1>3, <1>5 DEF AnnounceInv, SenderAnnounces, Closing
    <2>3. DoneMeansComplete'
        <3>1. CASE wire' = wire
            BY <1>2, <3>1 DEF AnnounceInv, DoneIsEarned, DoneMeansComplete
        <3>2. CASE \E f \in Frames \cup Terminals :
                    wire' = Append(wire, f) /\ (f = "done" => complete)
            <4>1. PICK f \in Frames \cup Terminals :
                    wire' = Append(wire, f) /\ (f = "done" => complete)
                BY <3>2
            <4>2. /\ Len(wire') = Len(wire) + 1 /\ Len(wire) \in Nat
                  /\ \A i \in 1..Len(wire) : wire'[i] = wire[i]
                  /\ wire'[Len(wire) + 1] = f
                BY <1>1, <4>1, AppendProperties
            <4> QED
                BY <1>2, <4>1, <4>2 DEF AnnounceInv, DoneIsEarned, DoneMeansComplete
        <3>3. terminal # "none" /\ sock = "open" =>
                terminal \in Terminals /\ (terminal = "done" => complete)
            BY DEF Inv, TypeOK, AnnounceInv, DoneIsEarned
        <3> QED
            BY <1>1, <1>5, <3>1, <3>2, <3>3
    <2>4. DoneIsEarned'
        BY <1>2, <2>3 DEF AnnounceInv, DoneIsEarned
    <2> QED
        BY <2>1, <2>2, <2>4 DEF AnnounceInv
<1>6. ASSUME NEW y \in SenderPcs, pc' = [pc EXCEPT !["sender"] = y]
      PROVE  /\ pc'["sender"] = y
             /\ \A t \in Tasks \ {"sender"} : pc'[t] = pc[t]
    BY <1>1, <1>6
<1>7. ASSUME state \in Closing, ~OwesTerminal
      PROVE  sentTerminal \/ sock = "lost"
    BY <1>1, <1>3, <1>7
    DEF OwesTerminal, AnnounceInv, CallersAnnounce, Announced
<1>8. CASE SenderStops
    <2>1. /\ outQueue # <<>> /\ Head(outQueue) = "SENTINEL"
          /\ outQueue' = Tail(outQueue)
          /\ sentTerminal' = (sentTerminal \/ OwesTerminal)
          /\ state' = state /\ wire' = wire
        BY <1>8 DEF SenderStops, clientVars
    <2>2. PICK y \in {"term", "done"} :
            pc' = [pc EXCEPT !["sender"] = y] /\ (y = "term" <=> OwesTerminal)
        BY <1>8 DEF SenderStops
    <2>3. HasSentinel
        <3>1. Len(outQueue) \in Nat \ {0}
            BY <1>1, <2>1, EmptySeq
        <3> QED
            BY <2>1, <3>1 DEF HasSentinel
    <2>4. state \in Closing
        BY <2>3 DEF AnnounceInv, SenderAnnounces
    <2>5. y = "done" => sentTerminal' \/ sock = "lost"
        BY <1>7, <2>1, <2>2, <2>4
    <2> QED
        BY <1>4, <1>5, <1>6, <2>1, <2>2, <2>5 DEF SenderPcs
<1>9. CASE SenderDrops
    BY <1>4, <1>5, <1>9 DEF SenderDrops, Runs, senderVars, clientVars
<1>10. CASE SenderTakes
    <2>1. pc' = [pc EXCEPT !["sender"] = "send"] /\ "send" \in SenderPcs
            /\ outQueue # <<>> /\ outQueue' = Tail(outQueue)
            /\ state' = state /\ wire' = wire
        BY <1>10 DEF SenderTakes, SenderPcs, clientVars
    <2> QED
        BY <1>4, <1>5, <1>6, <2>1
<1>11. CASE SenderSends
    <2>1. pc' = [pc EXCEPT !["sender"] = "get"] /\ "get" \in SenderPcs
            /\ state' = state /\ wire' = Append(wire, hand) /\ hand \in Frames
            /\ outQueue' = outQueue
        BY <1>11 DEF SenderSends, SenderPcs, Runs, Inv, SenderInv
    <2>2. HasSentinel' = HasSentinel
        BY <2>1 DEF HasSentinel
    <2> QED
        BY <1>5, <1>6, <2>1, <2>2
<1>12. CASE SenderFails
    <2>1. /\ pc' = [pc EXCEPT !["sender"] = "done", !["sender_failed"] = "lock"]
          /\ state' = "CLOSING" /\ wire' = wire /\ sock # "open"
          /\ outQueue' = outQueue
        BY <1>12 DEF SenderFails, clientVars
    <2>2. /\ \A t \in Tasks \ {"sender", "sender_failed"} : pc'[t] = pc[t]
        BY <1>1, <2>1
    <2>3. Announced /\ sock = "lost"
        BY <1>1, <1>3, <2>1 DEF Announced
    <2>4. HasSentinel' = HasSentinel
        BY <2>1 DEF HasSentinel
    <2> QED
        BY <1>5, <2>1, <2>2, <2>3, <2>4
<1>13. CASE SenderCancelled
    <2>1. PICK y \in {"cterm", "done"} :
            /\ pc' = [pc EXCEPT !["sender"] = y]
            /\ y = "cterm" <=> OwesTerminal
            /\ sentTerminal' = (sentTerminal \/ OwesTerminal)
            /\ state' = state /\ outQueue' = outQueue
        BY <1>13 DEF SenderCancelled
    <2>2. \/ wire' = wire
          \/ wire' = Append(wire, hand) /\ hand \in Frames
          \/ wire' = Append(wire, terminal) /\ terminal # "none" /\ sock = "open"
        BY <1>13 DEF SenderCancelled, Inv, SenderInv
    <2>3. state \in Closing
        BY <1>13 DEF SenderCancelled, AnnounceInv, SenderAnnounces
    <2>4. y = "done" => sentTerminal' \/ sock = "lost"
        BY <1>7, <2>1, <2>3
    <2>5. HasSentinel' = HasSentinel
        BY <2>1 DEF HasSentinel
    <2> QED
        BY <1>5, <1>6, <2>1, <2>2, <2>4, <2>5 DEF SenderPcs
<1>14. CASE SenderSendsTerminal \/ SenderLosesTerminal
    <2>1. /\ pc' = [pc EXCEPT !["sender"] = "done"] /\ "done" \in SenderPcs
          /\ state' = state /\ outQueue' = outQueue /\ sentTerminal' = sentTerminal
          /\ sentTerminal /\ terminal # "none"
        BY <1>14
        DEF SenderSendsTerminal, SenderLosesTerminal, AtTerminal, Runs, SenderPcs,
            senderVars, Inv, SenderInv
    <2>2. wire' = wire \/ (wire' = Append(wire, terminal) /\ sock = "open")
        BY <1>14 DEF SenderSendsTerminal, SenderLosesTerminal, clientVars
    <2>3. HasSentinel' = HasSentinel
        BY <2>1 DEF HasSentinel
    <2> QED
        BY <1>5, <1>6, <2>1, <2>2, <2>3
<1> QED
    BY <1>8, <1>9, <1>10, <1>11, <1>12, <1>13, <1>14 DEF SenderLocal, SenderWrites

-----------------------------------------------------------------------------
(* The theorems.                                                            *)

\* In every reachable state whoever closes the session has announced it, and
\* "done" has been set only for a complete stream or a client that is gone.
THEOREM Announcements == Spec => []AnnounceInv
<1>1. Init => AnnounceInv
    BY DEF Init, Tasks, Closers, Producers, Closing, AnnounceInv, CallersAnnounce,
           SenderAnnounces, DoneIsEarned, DoneMeansComplete, HasSentinel
<1>2. Inv /\ AnnounceInv /\ [Next]_vars => AnnounceInv'
    <2> SUFFICES ASSUME Inv, AnnounceInv, [Next]_vars PROVE AnnounceInv'
        OBVIOUS
    <2>1. CASE UNCHANGED vars
        BY <2>1
        DEF vars, lockVars, senderVars, clientVars, engineVars, AnnounceInv,
            CallersAnnounce, SenderAnnounces, DoneIsEarned, DoneMeansComplete,
            HasSentinel, Announced
    <2>2. CASE Receive \/ EndpointLeaves
        BY <2>2, ReceiveAnnounces
    <2>3. CASE \/ TtsBegins \/ TtsGranted \/ Engine
               \/ HeartbeatBeats \/ WatchdogFires \/ SupervisorWakes
               \/ \E t \in Producers : LoopReturns(t) \/ ProducerCancelled(t)
        BY <2>3, TaskAnnounces
    <2>4. CASE SenderLocal \/ SenderWrites
        BY <2>4, SenderAnnouncesInv
    <2>5. CASE \E c \in Closers : Close(c)
        BY <2>5, CloseAnnounces
    <2>6. CASE ServerShutsDown \/ ClientDrops
        BY <2>6, EnvironmentAnnounces
    <2> QED
        BY <2>1, <2>2, <2>3, <2>4, <2>5, <2>6 DEF Next, Finished
<1> QED
    BY <1>1, <1>2, Invariance, PTL DEF Spec

\* No session is closed silently under a connected client, whatever the race
\* between its closers (session.py:291-325, loops.py:57-63, 69-71, 90-93).
THEOREM NeverSilent == Spec => []EveryCloseIsAnnounced
<1>1. Inv /\ AnnounceInv => EveryCloseIsAnnounced
    BY DEF Inv, SenderInv, SenderPcs, QuietWhenClosed, Alive, AnnounceInv,
           SenderAnnounces, EveryCloseIsAnnounced
<1> QED
    BY <1>1, Announcements, Invariance, PTL

\* No client is told "done" of a stream that did not end by itself
\* (loops.py:280-299, session.py:165-174).
THEOREM DoneIsTrue == Spec => []DoneMeansComplete
<1>1. AnnounceInv => DoneMeansComplete
    BY DEF AnnounceInv, DoneIsEarned
<1> QED
    BY <1>1, Announcements, PTL

-----------------------------------------------------------------------------
(* The session implements SessionService.                                   *)

\* The sender tries to send the terminal frame when it will send nothing else,
\* and only in a session that closes.
TriedLast ==
    /\ pc["sender"] \in {"get", "send"} => ~sentTerminal
    /\ sentTerminal => state \in Closing

\* A step of any task but the sender: it may decide the outcome, end the stream
\* or move the state forward.
OutsideStep ==
    /\ UNCHANGED <<sentTerminal, wire, sock>>
    /\ pc'["sender"] = pc["sender"]
    /\ terminal' = terminal \/ (terminal = "none" /\ terminal' \in Terminals)
    /\ complete' = complete \/ (complete' = TRUE /\ state' = state /\ state # "CLOSED")
    /\ \/ state' = state
       \/ state \notin Closing /\ state' # "CLOSED"
       \/ state = "CLOSING" /\ state' = "CLOSED" /\ terminal' = terminal

\* The phase of a session, in this state and in the next.
LEMMA PhaseOf ==
    /\ Phase = "closed" <=> state = "CLOSED"
    /\ Phase = "closing" <=> state = "CLOSING"
    /\ Phase = "open" <=> state \notin Closing
BY DEF Phase, Closing

LEMMA PhaseOfNext ==
    /\ Phase' = "closed" <=> state' = "CLOSED"
    /\ Phase' = "closing" <=> state' = "CLOSING"
    /\ Phase' = "open" <=> state' \notin Closing
BY DEF Phase, Closing

\* An outside step is a step of the service.
LEMMA OutsideIsService ==
    ASSUME Inv, AnnounceInv, Inv', AnnounceInv', OutsideStep
    PROVE  [Service!ServiceNext]_(Service!serviceVars)
<1> USE DEF OutsideStep
<1>1. state \in States /\ state' \in States
    BY DEF Inv, TypeOK
<1>2. CASE terminal' # terminal
    <2>1. terminal' = "done" => complete' \/ sock # "open"
        BY DEF AnnounceInv, DoneIsEarned
    <2>2. Phase' = Phase \/ (Phase = "open" /\ Phase' = "closing")
        BY <1>2, PhaseOf, PhaseOfNext DEF Phase, Closing
    <2>3. Service!Decide(terminal')
        BY <1>2, <2>1, <2>2 DEF Service!Decide
    <2> QED
        BY <1>2, <2>3 DEF Service!ServiceNext
<1>3. CASE terminal' = terminal /\ Phase' = Phase
    <2>1. CASE complete' = complete
        BY <1>3, <2>1 DEF Service!serviceVars
    <2>2. CASE complete' # complete
        BY <1>3, <2>2, PhaseOf DEF Service!Finish, Service!ServiceNext
    <2> QED
        BY <2>1, <2>2
<1>4. CASE terminal' = terminal /\ state \notin Closing /\ state' = "CLOSING"
    <2>1. complete' = complete
        BY <1>4 DEF Closing
    <2>2. terminal # "none" \/ sock # "open"
        BY <1>4 DEF AnnounceInv, CallersAnnounce, Announced, Closing
    <2> QED
        BY <1>4, <2>1, <2>2, PhaseOf, PhaseOfNext
        DEF Service!StartClosing, Service!ServiceNext
<1>5. CASE state = "CLOSING" /\ state' = "CLOSED"
    <2>1. complete' = complete
        BY <1>5
    <2>2. sentTerminal \/ sock = "lost"
        <3>1. sentTerminal' \/ sock' = "lost"
            BY <1>5
            DEF Inv, QuietWhenClosed, SenderInv, SenderPcs, Alive, AnnounceInv,
                SenderAnnounces
        <3> QED
            BY <3>1
    <2> QED
        BY <1>5, <2>1, <2>2, PhaseOf, PhaseOfNext
        DEF Service!EndClosing, Service!ServiceNext
<1>6. \/ Phase' = Phase
      \/ state \notin Closing /\ state' = "CLOSING"
      \/ state = "CLOSING" /\ state' = "CLOSED"
    BY DEF Phase, Closing
<1> QED
    BY <1>2, <1>3, <1>4, <1>5, <1>6

\* A put is an outside step: a frame that does not fit decides the outcome.
LEMMA PutIsOutside ==
    ASSUME Inv, NEW items, NEW st, NEW tasks \in [Tasks -> PcValues],
           Put(items, st, tasks), tasks["sender"] = pc["sender"],
           st = state \/ {st, state} \cap Closing = {},
           UNCHANGED <<sentTerminal, wire, sock, complete>>
    PROVE  OutsideStep
<1>1. terminal' = terminal \/ (terminal = "none" /\ terminal' \in Terminals)
    BY DEF Put, FirstTerminal, Terminals
<1>2. "sender" # "client_slow" /\ "sender" \in Tasks
    BY DEF Tasks
<1>3. pc'["sender"] = pc["sender"]
    BY <1>2 DEF Put, SpawnSlowClose
<1>4. state' = st \/ (st \notin Closing /\ state' = "CLOSING")
    BY DEF Put
<1> QED
    BY <1>1, <1>3, <1>4 DEF OutsideStep, Closing

\* So is a call of close().
LEMMA CallIsOutside ==
    ASSUME Inv, NEW c \in Closers, CallClose(c),
           terminal' = terminal \/ (terminal = "none" /\ terminal' \in Terminals),
           UNCHANGED <<sentTerminal, wire, sock, complete>>
    PROVE  OutsideStep
<1>1. /\ pc \in [Tasks -> PcValues] /\ c # "sender" /\ state \in States
    BY DEF Inv, TypeOK, Closers
<1>2. \E x : pc' = [pc EXCEPT ![c] = x]
    BY DEF CallClose, EnterClose, CancelProducers
<1>3. pc'["sender"] = pc["sender"]
    BY <1>1, <1>2
<1>4. state' = state \/ (state # "CLOSED" /\ state' = "CLOSING")
    BY DEF CallClose, EnterClose, AlreadyClosed
<1> QED
    BY <1>3, <1>4 DEF OutsideStep, Closing

\* The first outcome that is offered is decided.
LEMMA FirstDecides ==
    ASSUME NEW kind \in Terminals, terminal' = FirstTerminal(kind)
    PROVE  terminal' = terminal \/ (terminal = "none" /\ terminal' \in Terminals)
BY DEF FirstTerminal

\* The steps of the client's frames.
LEMMA ReceiveIsOutside ==
    ASSUME Inv, Receive \/ EndpointLeaves
    PROVE  OutsideStep
<1>1. /\ pc \in [Tasks -> PcValues] /\ state \in States
      /\ {"recv", "exit", "new", "wait"} \subseteq PcValues
      /\ "endpoint" \in Closers /\ {"error", "cancelled"} \subseteq Terminals
      /\ "sender" \in Tasks \ {"endpoint", "tts", "supervisor"}
      /\ {"AUTHENTICATED", "STARTED", "ENDING"} \cap Closing = {}
    BY DEF Inv, TypeOK, PcValues, Closers, Terminals, Tasks, Closing
<1>2. ASSUME CallClose("endpoint"),
             \/ terminal' = terminal
             \/ terminal' = FirstTerminal("error")
             \/ terminal' = FirstTerminal("cancelled"),
             UNCHANGED <<senderVars, clientVars, engineVars>>
      PROVE  OutsideStep
    <2>1. terminal' = terminal \/ (terminal = "none" /\ terminal' \in Terminals)
        BY <1>1, <1>2, FirstDecides
    <2> QED
        BY <1>1, <1>2, <2>1, CallIsOutside DEF senderVars, clientVars, engineVars
<1>3. CASE ReceiveWhileClosing \/ EndpointLeaves \/ ReceiveCancel \/ ReceiveCrashes
    BY <1>2, <1>3
    DEF ReceiveWhileClosing, EndpointLeaves, ReceiveCancel, ReceiveCrashes
<1>4. \A items : Backpressure(items) /\ UNCHANGED <<senderVars, clientVars, engineVars>>
                    => OutsideStep
    BY <1>2 DEF Backpressure
<1>5. CASE ReceiveStart
    <2> DEFINE tasks == [pc EXCEPT !["tts"] = "new", !["supervisor"] = "wait"]
    <2>1. tasks \in [Tasks -> PcValues] /\ tasks["sender"] = pc["sender"]
        BY <1>1
    <2>2. /\ Put(<<"event">>, "STARTED", tasks) /\ state = "AUTHENTICATED"
          /\ UNCHANGED <<sentTerminal, wire, sock, complete>>
        BY <1>5 DEF ReceiveStart, senderVars, clientVars, engineVars
    <2> HIDE DEF tasks
    <2> QED
        BY <1>1, <2>1, <2>2, PutIsOutside
<1>6. ASSUME NEW items, NEW tasks \in {pc, [pc EXCEPT !["endpoint"] = "recv"],
                                       [pc EXCEPT !["endpoint"] = "exit"]},
             Put(items, state, tasks), UNCHANGED <<senderVars, clientVars, engineVars>>
      PROVE  OutsideStep
    <2>1. tasks \in [Tasks -> PcValues] /\ tasks["sender"] = pc["sender"]
        BY <1>1
    <2> QED
        BY <1>6, <2>1, PutIsOutside DEF senderVars, clientVars, engineVars
<1>7. CASE ReceiveRejected
    BY <1>6, <1>7 DEF ReceiveRejected
<1>8. ASSUME UNCHANGED <<terminal, pc, senderVars, clientVars, engineVars>>,
             state' = state \/ (state = "STARTED" /\ state' = "ENDING")
      PROVE  OutsideStep
    BY <1>1, <1>8 DEF OutsideStep, senderVars, clientVars, engineVars, Closing
<1>9. CASE ReceiveText
    BY <1>4, <1>8, <1>9 DEF ReceiveText
<1>10. CASE ReceiveFlush
    <2>1. PICK n \in 0..1 :
            \/ Backpressure(Sentences(n))
            \/ Put(<<"event">>, state, IF FitsOut(1) THEN pc
                                       ELSE [pc EXCEPT !["endpoint"] = "exit"])
        BY <1>10 DEF ReceiveFlush
    <2> QED
        BY <1>4, <1>6, <1>10, <2>1 DEF ReceiveFlush
<1>11. CASE ReceiveEnd
    BY <1>4, <1>8, <1>11 DEF ReceiveEnd
<1> QED
    BY <1>3, <1>5, <1>7, <1>9, <1>10, <1>11 DEF Receive

\* The steps of run_tts, the timers, the supervisor, and the lifespan.
LEMMA TaskIsOutside ==
    ASSUME Inv,
           \/ TtsBegins \/ TtsGranted \/ Engine
           \/ HeartbeatBeats \/ WatchdogFires \/ SupervisorWakes
           \/ \E t \in Producers : LoopReturns(t) \/ ProducerCancelled(t)
           \/ ServerShutsDown
    PROVE  OutsideStep
<1>1. /\ pc \in [Tasks -> PcValues] /\ state \in States
      /\ {"synth", "slot", "done"} \subseteq PcValues
      /\ {"error", "done"} \subseteq Terminals /\ "supervisor" \in Closers
      /\ "sender" \in Tasks \ (Producers \cup Closers)
      /\ {"tts", "heartbeat", "watchdog", "supervisor"} = Producers
      /\ "server_shutdown" \in Closers
    BY DEF Inv, TypeOK, PcValues, Terminals, Closers, Tasks, Producers
<1>2. ASSUME NEW t \in {"tts", "heartbeat"}, NEW x \in {"synth", "slot", "done"}, NEW items,
             Put(items, state, pc) \/ Put(items, state, [pc EXCEPT ![t] = x]),
             UNCHANGED <<senderVars, clientVars>>, complete' = complete
      PROVE  OutsideStep
    <2>1. PICK tasks \in {pc, [pc EXCEPT ![t] = x]} : Put(items, state, tasks)
        BY <1>2
    <2>2. tasks \in [Tasks -> PcValues] /\ tasks["sender"] = pc["sender"]
        BY <1>1
    <2> QED
        BY <1>2, <2>1, <2>2, PutIsOutside DEF senderVars, clientVars
<1>3. ASSUME NEW t \in Producers \cup Closers, NEW x, pc' = [pc EXCEPT ![t] = x],
             \/ terminal' = terminal
             \/ \E kind \in Terminals : terminal' = FirstTerminal(kind),
             complete' = complete \/ (complete' = TRUE /\ state # "CLOSED"),
             UNCHANGED <<state, senderVars, clientVars>>
      PROVE  OutsideStep
    <2>1. terminal' = terminal \/ (terminal = "none" /\ terminal' \in Terminals)
        BY <1>3, FirstDecides
    <2>2. pc'["sender"] = pc["sender"]
        BY <1>1, <1>3
    <2> QED
        BY <1>3, <2>1, <2>2 DEF OutsideStep, senderVars, clientVars
<1>4. CASE TtsBegins \/ TtsGranted
    BY <1>2, <1>4 DEF TtsBegins, TtsGranted, engineVars
<1>5. CASE EngineReads
    BY <1>5 DEF EngineReads, OutsideStep, senderVars, clientVars
<1>6. CASE EngineYields
    <2>1. UNCHANGED <<senderVars, clientVars>> /\ complete' = complete
        BY <1>6 DEF EngineYields
    <2>2. \/ Put(<<"audio">>, state, pc)
          \/ Put(<<"audio">>, state, [pc EXCEPT !["tts"] = "done"])
          \/ /\ terminal' = FirstTerminal("done") /\ state' = state
             /\ pc' = [pc EXCEPT !["tts"] = "done"]
        BY <1>6 DEF EngineYields
    <2> QED
        BY <1>1, <1>2, <1>3, <2>1, <2>2
<1>7. CASE EngineEnds \/ EngineFails
    <2>1. state # "CLOSED"
        BY <1>7
        DEF EngineEnds, EngineFails, Runs, Inv, TypeOK, QuietWhenClosed, Alive, Producers,
            Closers
    <2>2. /\ \E kind \in {"done", "error"} : terminal' = FirstTerminal(kind)
          /\ pc' = [pc EXCEPT !["tts"] = "done"]
          /\ complete' = complete \/ complete' = TRUE
          /\ UNCHANGED <<state, senderVars, clientVars>>
        BY <1>7 DEF EngineEnds, EngineFails, engineVars
    <2> QED
        BY <1>1, <1>3, <2>1, <2>2
<1>8. CASE HeartbeatBeats
    <2>1. /\ UNCHANGED <<senderVars, clientVars>> /\ complete' = complete
          /\ \/ Put(<<"event">>, state, pc)
             \/ Put(<<"event">>, state, [pc EXCEPT !["heartbeat"] = "done"])
        BY <1>8 DEF HeartbeatBeats, engineVars
    <2> QED
        BY <1>2, <2>1
<1>9. CASE WatchdogFires \/ ServerShutsDown
    <2>1. /\ \E t \in {"watchdog", "server_shutdown"}, x \in {"done", "lock"} :
                pc' = [pc EXCEPT ![t] = x]
          /\ terminal' = FirstTerminal("error") /\ complete' = complete
          /\ UNCHANGED <<state, senderVars, clientVars>>
        BY <1>9 DEF WatchdogFires, ServerShutsDown, engineVars
    <2> QED
        BY <1>1, <1>3, <2>1
<1>10. CASE SupervisorWakes
    <2>1. /\ terminal' = terminal /\ complete' = complete
          /\ UNCHANGED <<senderVars, clientVars>>
        BY <1>10 DEF SupervisorWakes, engineVars
    <2>2. CASE CallClose("supervisor")
        BY <1>1, <2>1, <2>2, CallIsOutside DEF senderVars, clientVars
    <2>3. CASE pc' = [pc EXCEPT !["supervisor"] = "done"] /\ state' = state
        BY <1>1, <1>3, <2>1, <2>3
    <2> QED
        BY <1>10, <2>2, <2>3 DEF SupervisorWakes
<1>11. CASE \E t \in Producers : LoopReturns(t) \/ ProducerCancelled(t)
    BY <1>3, <1>11 DEF LoopReturns, ProducerCancelled, engineVars
<1> QED
    BY <1>4, <1>5, <1>6, <1>7, <1>8, <1>9, <1>10, <1>11 DEF Engine

\* The stages of close(), up to the socket.
LEMMA CloseIsOutside ==
    ASSUME Inv, NEW c \in Closers, Close(c), ~CloseSocket(c)
    PROVE  OutsideStep
<1>1. /\ pc \in [Tasks -> PcValues] /\ c # "sender" /\ state \in States
      /\ "sender" \in Tasks
    BY DEF Inv, TypeOK, Closers, Tasks
<1>2. CASE AcquireLock(c)
    <2>1. /\ CallClose(c) /\ terminal' = terminal
          /\ UNCHANGED <<sentTerminal, wire, sock, complete>>
        BY <1>2 DEF AcquireLock, CallClose, senderVars, clientVars, engineVars
    <2> QED
        BY <2>1, CallIsOutside
<1>3. CASE AbortReturns(c) \/ StopSender(c) \/ PutSentinel(c) \/ CutSender(c) \/ SenderStopped(c)
    <2>1. state \in Closing
        BY <1>3
        DEF AbortReturns, StopSender, PutSentinel, CutSender, SenderStopped, InClose,
            Inv, LockInv, Closers
    <2>2. /\ terminal' = terminal /\ state' \in {state, "CLOSED"}
          /\ UNCHANGED <<sentTerminal, wire, sock, complete>>
        BY <1>3
        DEF AbortReturns, StopSender, PutSentinel, CutSender, SenderStopped,
            senderVars, clientVars, engineVars
    <2>3. \E x : pc' = [pc EXCEPT ![c] = x]
        BY <1>3
        DEF AbortReturns, CancelProducers, StopSender, PutSentinel, CutSender, SenderStopped
    <2>4. pc'["sender"] = pc["sender"]
        BY <1>1, <2>3
    <2> QED
        BY <2>1, <2>2, <2>4 DEF OutsideStep, Closing
<1> QED
    BY <1>2, <1>3 DEF Close

\* The connection is lost, or closed by a session that is CLOSED.
LEMMA HangUpIsService ==
    ASSUME Inv, ClientDrops \/ \E c \in Closers : CloseSocket(c)
    PROVE  /\ [Service!ServiceNext]_(Service!serviceVars)
           /\ UNCHANGED <<state, sentTerminal>> /\ pc'["sender"] = pc["sender"]
<1>1. CASE ClientDrops
    <2>1. Phase' = Phase
        BY <1>1 DEF ClientDrops, Phase
    <2> QED
        BY <1>1, <2>1
        DEF ClientDrops, senderVars, engineVars, Service!HangUp, Service!ServiceNext
<1>2. ASSUME NEW c \in Closers, CloseSocket(c)
      PROVE  /\ [Service!ServiceNext]_(Service!serviceVars)
             /\ UNCHANGED <<state, sentTerminal>> /\ pc'["sender"] = pc["sender"]
    <2>1. state = "CLOSED" /\ Phase = "closed" /\ Phase' = Phase
        BY <1>2, PhaseOf DEF CloseSocket, Inv, ProgressInv, InClose, Phase
    <2>2. pc'["sender"] = pc["sender"]
        BY <1>2 DEF CloseSocket, Inv, TypeOK, Tasks, Closers
    <2>3. sock' = sock \/ Service!HangUp
        BY <1>2, <2>1 DEF CloseSocket, senderVars, engineVars, Service!HangUp
    <2> QED
        BY <1>2, <2>1, <2>2, <2>3
        DEF CloseSocket, senderVars, engineVars, Service!ServiceNext, Service!serviceVars
<1> QED
    BY <1>1, <1>2

\* What the sender does is a step of the service: it hands over a frame, tries
\* to send the outcome once, or fails because the client is gone.
LEMMA SenderIsService ==
    ASSUME Inv, AnnounceInv, TriedLast, SenderLocal \/ SenderWrites
    PROVE  [Service!ServiceNext]_(Service!serviceVars) /\ TriedLast'
<1>1. /\ pc \in [Tasks -> PcValues] /\ "sender" \in Tasks /\ state \in States
      /\ Alive("sender") /\ UNCHANGED <<terminal, complete, sock>>
    BY DEF Inv, TypeOK, Tasks, SenderLocal, SenderWrites, SenderStops, SenderDrops,
           SenderTakes, SenderFails, SenderCancelled, SenderLosesTerminal, SenderSends,
           SenderSendsTerminal, AtTerminal, Runs, Alive, clientVars, engineVars
<1>2. /\ state # "CLOSED" /\ Phase # "closed"
      /\ \A i \in 1..Len(wire) : wire[i] \notin Terminals
    BY <1>1, PhaseOf DEF Inv, QuietWhenClosed, SenderInv
<1>3. state \in Closing => Phase = "closing"
    BY <1>2, PhaseOf DEF Closing
\* What changes nothing that the client or the service can see.
<1>4. ASSUME UNCHANGED <<state, sentTerminal, wire>>
      PROVE  UNCHANGED Service!serviceVars
    BY <1>1, <1>4 DEF Phase, Service!serviceVars
<1>5. sentTerminal' = (sentTerminal \/ OwesTerminal) =>
        \/ OwesTerminal /\ ~sentTerminal /\ sentTerminal' = TRUE
        \/ ~OwesTerminal /\ sentTerminal' = sentTerminal
    <2>1. sentTerminal \in BOOLEAN
        BY DEF Inv, TypeOK
    <2> QED
        BY <2>1 DEF OwesTerminal
<1>6. CASE SenderStops
    <2>1. /\ sentTerminal' = (sentTerminal \/ OwesTerminal)
          /\ pc'["sender"] \in {"term", "done"} /\ UNCHANGED <<state, wire>>
        BY <1>1, <1>6 DEF SenderStops, clientVars
    <2>2. HasSentinel
        <3>1. outQueue \in Seq(Items) /\ outQueue # <<>> /\ Head(outQueue) = "SENTINEL"
            BY <1>6 DEF SenderStops, Inv, TypeOK
        <3>2. Len(outQueue) \in Nat \ {0}
            BY <3>1, EmptySeq
        <3> QED
            BY <3>1, <3>2 DEF HasSentinel
    <2>3. state \in Closing
        BY <2>2 DEF AnnounceInv, SenderAnnounces
    <2>4. CASE OwesTerminal
        <3>1. Service!Try
            BY <1>1, <1>3, <2>1, <2>3, <2>4
            DEF OwesTerminal, Phase, Service!Try, Service!Due
        <3> QED
            BY <2>1, <2>3, <3>1 DEF Service!ServiceNext, TriedLast
    <2>5. CASE ~OwesTerminal
        BY <1>4, <1>5, <2>1, <2>3, <2>5 DEF TriedLast
    <2> QED
        BY <2>4, <2>5
<1>7. CASE SenderDrops \/ SenderTakes
    <2>1. /\ UNCHANGED <<state, sentTerminal, wire>> /\ pc["sender"] = "get"
        BY <1>7 DEF SenderDrops, SenderTakes, Runs, senderVars, clientVars
    <2> QED
        BY <1>4, <2>1 DEF TriedLast
<1>8. CASE SenderSends
    <2>1. /\ wire' = Append(wire, hand) /\ hand \in Frames /\ ~sentTerminal
          /\ UNCHANGED <<state, sentTerminal>> /\ sock = "open"
        BY <1>8 DEF SenderSends, Runs, Inv, SenderInv, TriedLast
    <2>2. Service!Say(hand)
        BY <1>1, <1>2, <2>1 DEF Service!Say, Phase
    <2> QED
        BY <2>1, <2>2 DEF Service!ServiceNext, TriedLast
<1>9. CASE SenderFails
    <2>1. /\ state' = "CLOSING" /\ sock # "open" /\ UNCHANGED <<sentTerminal, wire>>
          /\ pc["sender"] = "send"
        BY <1>9 DEF SenderFails, Runs, clientVars
    <2>2. TriedLast'
        BY <2>1 DEF TriedLast, Closing
    <2>3. CASE state \in Closing
        BY <1>1, <1>2, <2>1, <2>2, <2>3 DEF Closing, Phase, Service!serviceVars
    <2>4. CASE state \notin Closing
        <3>1. Phase = "open" /\ Phase' = "closing"
            BY <2>1, <2>4, PhaseOf, PhaseOfNext
        <3> QED
            BY <1>1, <2>1, <2>2, <3>1 DEF Service!StartClosing, Service!ServiceNext
    <2> QED
        BY <2>3, <2>4
<1>10. CASE SenderCancelled
    <2>1. /\ sentTerminal' = (sentTerminal \/ OwesTerminal) /\ state' = state
          /\ pc'["sender"] \in {"cterm", "done"}
        BY <1>1, <1>10 DEF SenderCancelled
    <2>2. state \in Closing
        BY <1>10 DEF SenderCancelled, AnnounceInv, SenderAnnounces
    <2>3. TriedLast'
        BY <2>1, <2>2 DEF TriedLast
    <2>4. Phase = "closing" /\ Phase' = Phase
        BY <1>3, <2>1, <2>2 DEF Phase
    <2>5. CASE wire' = wire
        <3>1. OwesTerminal => Service!Try
            BY <1>1, <2>1, <2>4, <2>5 DEF OwesTerminal, Service!Try, Service!Due
        <3>2. ~OwesTerminal => UNCHANGED Service!serviceVars
            BY <1>4, <1>5, <2>1, <2>5
        <3> QED
            BY <2>3, <3>1, <3>2 DEF Service!ServiceNext
    <2>6. CASE /\ sock = "open" /\ pc["sender"] = "send"
               /\ wire' = Append(wire, hand)
        <3>1. hand \in Frames /\ ~sentTerminal
            BY <2>6 DEF Inv, SenderInv, TriedLast
        <3>2. Service!Say(hand)
            BY <1>1, <1>5, <2>1, <2>4, <2>6, <3>1 DEF OwesTerminal, Service!Say, Service!Due
        <3> QED
            BY <2>3, <3>1, <3>2 DEF Service!ServiceNext
    <2>7. CASE /\ sock = "open" /\ pc["sender"] = "term"
               /\ wire' = Append(wire, terminal)
        <3>1. sentTerminal /\ sentTerminal' = sentTerminal
            BY <2>1, <2>7 DEF Inv, SenderInv, OwesTerminal
        <3>2. Service!SayOutcome
            BY <1>1, <1>2, <2>4, <2>7, <3>1 DEF Service!SayOutcome
        <3> QED
            BY <2>3, <3>2 DEF Service!ServiceNext
    <2> QED
        BY <1>10, <2>5, <2>6, <2>7 DEF SenderCancelled
<1>11. CASE SenderSendsTerminal \/ SenderLosesTerminal
    <2>1. /\ sentTerminal /\ UNCHANGED <<state, sentTerminal>>
          /\ pc'["sender"] = "done"
        BY <1>1, <1>11
        DEF SenderSendsTerminal, SenderLosesTerminal, AtTerminal, Runs, senderVars, Inv,
            SenderInv
    <2>2. state \in Closing /\ TriedLast'
        BY <2>1 DEF TriedLast
    <2>3. Phase = "closing" /\ Phase' = Phase
        BY <1>3, <2>1, <2>2 DEF Phase
    <2>4. CASE SenderSendsTerminal
        <3>1. Service!SayOutcome
            BY <1>1, <1>2, <2>1, <2>3, <2>4 DEF SenderSendsTerminal, Service!SayOutcome
        <3> QED
            BY <2>2, <3>1 DEF Service!ServiceNext
    <2>5. CASE SenderLosesTerminal
        BY <1>4, <2>1, <2>2, <2>5 DEF SenderLosesTerminal, clientVars
    <2> QED
        BY <1>11, <2>4, <2>5
<1> QED
    BY <1>6, <1>7, <1>8, <1>9, <1>10, <1>11 DEF SenderLocal, SenderWrites

\* Every step of the session is a step of the service, or none.
LEMMA StepIsService ==
    ASSUME Inv, AnnounceInv, Inv', AnnounceInv', TriedLast, [Next]_vars
    PROVE  [Service!ServiceNext]_(Service!serviceVars) /\ TriedLast'
<1>1. ASSUME OutsideStep
      PROVE  [Service!ServiceNext]_(Service!serviceVars) /\ TriedLast'
    BY <1>1, OutsideIsService DEF OutsideStep, TriedLast, Closing
<1>2. CASE SenderLocal \/ SenderWrites
    BY <1>2, SenderIsService
<1>3. CASE ClientDrops \/ \E c \in Closers : CloseSocket(c)
    BY <1>3, HangUpIsService DEF TriedLast
<1>4. CASE \E c \in Closers : Close(c) /\ ~CloseSocket(c)
    BY <1>1, <1>4, CloseIsOutside
<1>5. CASE Receive \/ EndpointLeaves
    BY <1>1, <1>5, ReceiveIsOutside
<1>6. CASE \/ TtsBegins \/ TtsGranted \/ Engine
           \/ HeartbeatBeats \/ WatchdogFires \/ SupervisorWakes
           \/ \E t \in Producers : LoopReturns(t) \/ ProducerCancelled(t)
           \/ ServerShutsDown
    BY <1>1, <1>6, TaskIsOutside
<1>7. CASE UNCHANGED vars
    BY <1>7 DEF vars, clientVars, senderVars, engineVars, TriedLast, Phase,
                Service!serviceVars
<1> QED
    BY <1>2, <1>3, <1>4, <1>5, <1>6, <1>7 DEF Next, Finished

\* The session implements SessionService: one outcome, decided by the first and
\* told last, and no close under a connected client before it is tried
\* (session.py:165-252, loops.py:57-93).
THEOREM Implements == Spec => KeepsPromises
<1>1. Init => Service!ServiceInit /\ TriedLast
    BY DEF Init, Service!ServiceInit, TriedLast, Phase
<1>2. Inv /\ AnnounceInv /\ Inv' /\ AnnounceInv' /\ TriedLast /\ [Next]_vars
        => [Service!ServiceNext]_(Service!serviceVars) /\ TriedLast'
    BY StepIsService
<1> QED
    BY <1>1, <1>2, Announcements, Invariance, PTL
    DEF Spec, KeepsPromises, Service!ServiceSpec

=============================================================================
