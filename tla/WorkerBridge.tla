---------------------------- MODULE WorkerBridge ----------------------------
(***************************************************************************)
(* POST /v1/audio/speech of cosyvoice-svc (cosyvoice_service/app.py): per  *)
(* call, a worker thread runs the blocking synthesis and puts its chunks   *)
(* into a bounded queue; the response task gets them in a helper thread,   *)
(* q.get, and sends them.  The status line is sent before the first chunk, *)
(* so an unknown voice or a failed synthesis only ends the body early.     *)
(*                                                                         *)
(* net is what was sent and not read yet.  The actions Read, ReadEnd and   *)
(* PeerGone are steps of the peer, to be joined with its own.              *)
(***************************************************************************)
EXTENDS Integers, Sequences

CONSTANTS
    Calls,      \* the calls this service is given
    MaxChunks,  \* bound on the chunks of one synthesis
    QueueCap,   \* maxsize of the queue
    NetCap      \* what the connection takes before send() waits

VARIABLES
    wpc,   \* the worker thread
    made,  \* chunks the model has made
    q,     \* the queue
    cpc,   \* the response task
    hand,  \* the chunk it is sending, SENTINEL if none
    net    \* sent and not yet read

svcVars == <<wpc, made, q, cpc, hand, net>>

SENTINEL == 0

\* "gone" has lost its client, "leaving" as well, but q.get() cannot be
\* cancelled; "dead" threads and tasks went down with the process.
WorkerValues == {"off", "synth", "put", "last", "done", "dead"}
TaskValues == {"off", "get", "send", "fin", "leaving", "gone", "done", "dead"}

SvcInit ==
    /\ wpc = [c \in Calls |-> "off"]
    /\ made = [c \in Calls |-> 0]
    /\ q = [c \in Calls |-> <<>>]
    /\ cpc = [c \in Calls |-> "off"]
    /\ hand = [c \in Calls |-> SENTINEL]
    /\ net = [c \in Calls |-> <<>>]

-----------------------------------------------------------------------------
(* The worker thread.                                                       *)

\* The model makes one more chunk; or its generator ends, or raises, which is
\* only logged (an unknown voice raises before the first chunk).
Synthesizes(c) ==
    /\ wpc[c] = "synth"
    /\ \/ /\ made[c] < MaxChunks
          /\ made' = [made EXCEPT ![c] = @ + 1]
          /\ wpc' = [wpc EXCEPT ![c] = "put"]
       \/ /\ wpc' = [wpc EXCEPT ![c] = "last"]
          /\ UNCHANGED made
    /\ UNCHANGED <<q, cpc, hand, net>>

\* Mutant of Enqueue: put_nowait(), with queue.Full ignored.
EnqueueOrDrop(c, item) ==
    q' = IF Len(q[c]) < QueueCap THEN [q EXCEPT ![c] = Append(@, item)] ELSE q

\* q.put() waits for room.
Enqueue(c, item) ==
    /\ Len(q[c]) < QueueCap
    /\ q' = [q EXCEPT ![c] = Append(@, item)]

Puts(c) ==
    /\ \/ wpc[c] = "put" /\ Enqueue(c, made[c])
            /\ wpc' = [wpc EXCEPT ![c] = "synth"]
       \/ wpc[c] = "last" /\ Enqueue(c, SENTINEL)
            /\ wpc' = [wpc EXCEPT ![c] = "done"]
    /\ UNCHANGED <<made, cpc, hand, net>>

-----------------------------------------------------------------------------
(* The response task.                                                       *)

\* The call arrives: the response starts, and agen() starts the thread.
Accept(c) ==
    /\ cpc[c] = "off"
    /\ wpc' = [wpc EXCEPT ![c] = "synth"]
    /\ cpc' = [cpc EXCEPT ![c] = "get"]
    /\ UNCHANGED <<made, q, hand, net>>

\* Mutant of IsEnd: the test for SENTINEL is inverted.
IsNotEnd(item) == item # SENTINEL

\* chunk is SENTINEL
IsEnd(item) == item = SENTINEL

\* q.get() in the helper thread returns an item.
Gets(c) ==
    /\ cpc[c] \in {"get", "leaving"} /\ q[c] # <<>>
    /\ q' = [q EXCEPT ![c] = Tail(@)]
    /\ \/ cpc[c] = "leaving" /\ cpc' = [cpc EXCEPT ![c] = "gone"] /\ UNCHANGED hand
       \/ cpc[c] = "get" /\ IsEnd(Head(q[c]))
            /\ cpc' = [cpc EXCEPT ![c] = "fin"] /\ UNCHANGED hand
       \/ cpc[c] = "get" /\ ~IsEnd(Head(q[c]))
            /\ cpc' = [cpc EXCEPT ![c] = "send"]
            /\ hand' = [hand EXCEPT ![c] = Head(q[c])]
    /\ UNCHANGED <<wpc, made, net>>

\* The chunk, or the end of the body, is sent.
Sends(c) ==
    /\ Len(net[c]) < NetCap
    /\ \/ cpc[c] = "send" /\ cpc' = [cpc EXCEPT ![c] = "get"]
            /\ net' = [net EXCEPT ![c] = Append(@, hand[c])]
       \/ cpc[c] = "fin" /\ cpc' = [cpc EXCEPT ![c] = "done"]
            /\ net' = [net EXCEPT ![c] = Append(@, SENTINEL)]
    /\ hand' = [hand EXCEPT ![c] = SENTINEL]
    /\ UNCHANGED <<wpc, made, q>>

\* The client closed the connection and the task is cancelled: at its send, or
\* once q.get() has returned.  Nobody tells the worker.
Unwinds(c) ==
    cpc' = [cpc EXCEPT ![c] = IF @ = "get" THEN "leaving" ELSE "gone"]

PeerGone(c) ==
    /\ cpc[c] \in {"get", "send", "fin"}
    /\ Unwinds(c)
    /\ net' = [net EXCEPT ![c] = <<>>]
    /\ hand' = [hand EXCEPT ![c] = SENTINEL]
    /\ UNCHANGED <<wpc, made, q>>

\* The peer reads a chunk, or the end of the body.
Read(c) ==
    /\ net[c] # <<>> /\ Head(net[c]) # SENTINEL
    /\ net' = [net EXCEPT ![c] = Tail(@)]
    /\ UNCHANGED <<wpc, made, q, cpc, hand>>

ReadEnd(c) ==
    /\ net[c] # <<>> /\ Head(net[c]) = SENTINEL
    /\ net' = [net EXCEPT ![c] = Tail(@)]
    /\ UNCHANGED <<wpc, made, q, cpc, hand>>

\* The process dies, with every thread and task of it; what was sent may still
\* be read.  Started again, it serves new calls.
Crash ==
    /\ \E c \in Calls : wpc[c] \notin {"off", "dead"}
    /\ wpc' = [c \in Calls |-> IF wpc[c] = "off" THEN "off" ELSE "dead"]
    /\ cpc' = [c \in Calls |-> IF cpc[c] = "off" THEN "off" ELSE "dead"]
    /\ q' = [c \in Calls |-> <<>>]
    /\ hand' = [c \in Calls |-> SENTINEL]
    /\ UNCHANGED <<made, net>>

\* Types and the bounds of the two buffers.
SvcTypeOK ==
    /\ wpc \in [Calls -> WorkerValues]
    /\ made \in [Calls -> 0..MaxChunks]
    /\ q \in [Calls -> Seq(0..MaxChunks)]
    /\ cpc \in [Calls -> TaskValues]
    /\ hand \in [Calls -> 0..MaxChunks]
    /\ net \in [Calls -> Seq(0..MaxChunks)]
    /\ \A c \in Calls : Len(q[c]) <= QueueCap /\ Len(net[c]) <= NetCap

\* What the task is sending, and what the worker is putting.
Held(c) == IF cpc[c] \in {"send", "fin"} THEN <<hand[c]>> ELSE <<>>
Offered(c) ==
    IF wpc[c] = "put" THEN <<made[c]>>
    ELSE IF wpc[c] = "last" THEN <<SENTINEL>> ELSE <<>>

\* All that is between the model and the reader, oldest first.
InFlight(c) == (net[c] \o Held(c)) \o (q[c] \o Offered(c))

=============================================================================
