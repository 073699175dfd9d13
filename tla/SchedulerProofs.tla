---------------------------- MODULE SchedulerProofs ----------------------------
(***************************************************************************)
(* Proofs about Scheduler.tla: the types, the line and slot conservation   *)
(* are an inductive invariant (one lemma per action), which bounds the     *)
(* concurrent users and gives the refinement of SlotPool; relative to it,  *)
(* the order of the line and the reservation counter are inductive too.    *)
(***************************************************************************)
EXTENDS Scheduler, FiniteSetTheorems, SequenceTheorems, TLAPS

\* acquire()'s finally takes the leaver out of the line and nobody else: the
\* rest stays, in it once each and in the same order.
LEMMA LeaveProperties ==
    ASSUME TypeOK, LineIsQueue, NEW r \in Queued
    PROVE  /\ Leave(r) \in Seq(Requests)
           /\ ToSet(Leave(r)) = InLine \ {r}
           /\ \A i, j \in DOMAIN Leave(r) : Leave(r)[i] = Leave(r)[j] => i = j
           /\ \A i, j \in DOMAIN Leave(r) : i < j =>
                \E a, b \in DOMAIN waiters :
                    a < b /\ Leave(r)[i] = waiters[a] /\ Leave(r)[j] = waiters[b]
<1> DEFINE k == CHOOSE i \in DOMAIN waiters : waiters[i] = r
<1>1. k \in DOMAIN waiters /\ waiters[k] = r
    BY DEF LineIsQueue, InLine, ToSet
<1>2. waiters \in Seq(Requests)
    BY DEF TypeOK
<1>3. Leave(r) = SubSeq(waiters, 1, k - 1) \o SubSeq(waiters, k + 1, Len(waiters))
    BY DEF Leave, RemoveAt
<1> HIDE DEF k
<1> DEFINE A == SubSeq(waiters, 1, k - 1)
           B == SubSeq(waiters, k + 1, Len(waiters))
<1>4. /\ Leave(r) \in Seq(Requests)
      /\ Len(Leave(r)) = Len(waiters) - 1
      /\ \A i \in 1..(Len(waiters) - 1) :
            Leave(r)[i] = IF i < k THEN waiters[i] ELSE waiters[i + 1]
    <2>1. k \in 1..Len(waiters) /\ Len(waiters) \in Nat
        BY <1>1, <1>2
    <2>2. /\ A \in Seq(Requests)
          /\ Len(A) = k - 1
          /\ \A i \in 1..(k - 1) : A[i] = waiters[i]
        BY <1>2, <2>1
    <2>3. /\ B \in Seq(Requests)
          /\ Len(B) = Len(waiters) - k
          /\ \A i \in 1..(Len(waiters) - k) : B[i] = waiters[i + k]
        BY <1>2, <2>1
    <2> HIDE DEF A, B
    <2>4. /\ A \o B \in Seq(Requests)
          /\ Len(A \o B) = Len(waiters) - 1
          /\ \A i \in 1..(Len(waiters) - 1) :
                (A \o B)[i] = IF i < k THEN A[i] ELSE B[i - (k - 1)]
        <3>1. /\ A \o B \in Seq(Requests)
              /\ Len(A \o B) = Len(A) + Len(B)
              /\ \A i \in 1..(Len(A) + Len(B)) :
                    (A \o B)[i] = IF i <= Len(A) THEN A[i] ELSE B[i - Len(A)]
            BY <2>2, <2>3, ConcatProperties
        <3>2. Len(A) + Len(B) = Len(waiters) - 1
            BY <2>1, <2>2, <2>3
        <3> QED
            BY <2>1, <2>2, <3>1, <3>2
    <2>5. ASSUME NEW i \in 1..(Len(waiters) - 1)
          PROVE  (A \o B)[i] = IF i < k THEN waiters[i] ELSE waiters[i + 1]
        <3>1. CASE i < k
            BY <2>1, <2>2, <2>4, <3>1
        <3>2. CASE ~(i < k)
            <4>1. i - (k - 1) \in 1..(Len(waiters) - k)
                BY <2>1, <3>2
            <4>2. B[i - (k - 1)] = waiters[i - (k - 1) + k]
                BY <2>3, <4>1
            <4>3. i - (k - 1) + k = i + 1
                BY <2>1
            <4> QED
                BY <2>4, <3>2, <4>2, <4>3
        <3> QED
            BY <3>1, <3>2
    <2> QED
        BY <1>3, <2>4, <2>5 DEF A, B
<1>5. \A i, j \in DOMAIN waiters : waiters[i] = waiters[j] => i = j
    BY DEF LineIsQueue
<1>6. DOMAIN waiters = 1..Len(waiters) /\ DOMAIN Leave(r) = 1..(Len(waiters) - 1)
    BY <1>2, <1>4
<1>7. Len(waiters) \in Nat
    BY <1>2
<1>8. \A i, j \in DOMAIN Leave(r) : Leave(r)[i] = Leave(r)[j] => i = j
    BY <1>1, <1>4, <1>5, <1>6, <1>7
<1>9. ASSUME NEW x \in ToSet(Leave(r))
      PROVE  x \in InLine \ {r}
    <2>1. PICK i \in 1..(Len(waiters) - 1) : x = Leave(r)[i]
        BY <1>6, <1>9 DEF ToSet
    <2>2. PICK j \in 1..Len(waiters) : x = waiters[j] /\ j # k
        BY <2>1, <1>1, <1>4, <1>6, <1>7
    <2>3. x # r
        BY <2>2, <1>1, <1>5, <1>6
    <2> QED
        BY <2>2, <2>3, <1>6 DEF InLine, ToSet
<1>10. ASSUME NEW x \in InLine \ {r}
       PROVE  x \in ToSet(Leave(r))
    <2>1. PICK i \in 1..Len(waiters) : x = waiters[i]
        BY <1>6 DEF InLine, ToSet
    <2>2. i # k
        BY <2>1, <1>1
    <2>3. CASE i < k
        <3>1. i \in 1..(Len(waiters) - 1) /\ Leave(r)[i] = x
            BY <2>1, <2>3, <1>1, <1>4, <1>6, <1>7
        <3> QED
            BY <3>1, <1>6 DEF ToSet
    <2>4. CASE i > k
        <3>1. i - 1 \in 1..(Len(waiters) - 1) /\ Leave(r)[i - 1] = x
            BY <2>1, <2>4, <1>1, <1>4, <1>6, <1>7
        <3> QED
            BY <3>1, <1>6 DEF ToSet
    <2> QED
        BY <2>1, <2>2, <2>3, <2>4, <1>1, <1>6
<1>11. ToSet(Leave(r)) = InLine \ {r}
    BY <1>9, <1>10
<1>12. ASSUME NEW i \in DOMAIN Leave(r), NEW j \in DOMAIN Leave(r), i < j
       PROVE  \E a, b \in DOMAIN waiters :
                a < b /\ Leave(r)[i] = waiters[a] /\ Leave(r)[j] = waiters[b]
    <2> DEFINE At(m) == IF m < k THEN m ELSE m + 1
    <2>1. k \in Nat
        BY <1>1, <1>6, <1>7
    <2>2. At(i) \in DOMAIN waiters /\ At(j) \in DOMAIN waiters /\ At(i) < At(j)
        BY <1>6, <1>7, <1>12, <2>1
    <2>3. Leave(r)[i] = waiters[At(i)] /\ Leave(r)[j] = waiters[At(j)]
        BY <1>4, <1>6, <2>1
    <2> QED
        BY <2>2, <2>3
<1> QED
    BY <1>4, <1>8, <1>11, <1>12

\* What _wake_up_next does: nothing, or one slot goes to one request in line
\* that had none.
LEMMA WakeProperties ==
    ASSUME NEW v \in Nat, NEW g, NEW line \in Seq(Requests), Wake(v, g, line)
    PROVE  \/ value' = v /\ granted' = g
           \/ \E w \in ToSet(line) \ g : value' = v - 1 /\ granted' = g \cup {w}
<1>1. CASE value' = v /\ granted' = g
    BY <1>1
<1>2. CASE \E i \in DOMAIN line : /\ Pending(line[i], g)
                                  /\ value' = v - 1
                                  /\ granted' = g \cup {line[i]}
    <2>1. PICK i \in DOMAIN line : /\ Pending(line[i], g)
                                   /\ value' = v - 1
                                   /\ granted' = g \cup {line[i]}
        BY <1>2
    <2>2. line[i] \in ToSet(line) \ g
        BY <2>1 DEF ToSet, Pending
    <2> QED
        BY <2>1, <2>2
<1> QED
    BY <1>1, <1>2 DEF Wake

\* How the sets of requests change when request r moves to phase x.
LEMMA PhaseChange ==
    ASSUME pc \in [Requests -> PcValues], NEW r \in Requests, NEW x \in PcValues,
           pc' = [pc EXCEPT ![r] = x]
    PROVE  /\ pc' \in [Requests -> PcValues]
           /\ x \in Holding => Users' = Users \cup {r}
           /\ x \notin Holding => Users' = Users \ {r}
           /\ x = "queued" => Queued' = Queued \cup {r}
           /\ x # "queued" => Queued' = Queued \ {r}
           /\ x = "leaked" => Leaked' = Leaked \cup {r}
           /\ x # "leaked" => Leaked' = Leaked \ {r}
BY DEF Users, Queued, Leaked

\* The sets that SlotsConserved counts are finite.
LEMMA FiniteParts ==
    ASSUME TypeOK
    PROVE  /\ IsFiniteSet(granted) /\ Cardinality(granted) \in Nat
           /\ IsFiniteSet(Users) /\ Cardinality(Users) \in Nat
           /\ IsFiniteSet(Leaked) /\ Cardinality(Leaked) \in Nat
<1>1. granted \in SUBSET Requests /\ Users \in SUBSET Requests
        /\ Leaked \in SUBSET Requests
    BY DEF TypeOK, Users, Leaked, Queued
<1>2. IsFiniteSet(granted) /\ IsFiniteSet(Users) /\ IsFiniteSet(Leaked)
    BY <1>1, SchedulerAssumption, FS_Subset
<1> QED
    BY <1>2, FS_CardinalityType

\* reserve() and the part of wait() before it suspends keep the invariant: a
\* free slot is taken, or the line grows by the request.
LEMMA AskKeepsInv ==
    ASSUME Inv, NEW r \in Requests, Ask(r)
    PROVE  Inv'
<1> USE DEF Inv
<1>1. pc \in [Requests -> PcValues] /\ pc[r] = "new" /\ value \in Nat
        /\ waiters \in Seq(Requests) /\ waiting \in Nat
    BY DEF TypeOK, Ask
<1>2. r \notin Users /\ r \notin Queued /\ r \notin Leaked
    BY <1>1 DEF Users, Queued, Leaked, Holding
<1>3. CASE ~Locked
    <2>1. /\ value' = value - 1 /\ value # 0
          /\ pc' = [pc EXCEPT ![r] = FirstPhase(r)]
          /\ UNCHANGED <<waiters, waiting, granted, cancelReq>>
        BY <1>3 DEF Ask, Locked
    <2>2. FirstPhase(r) \in Holding /\ FirstPhase(r) \in PcValues
            /\ FirstPhase(r) \notin {"queued", "leaked"}
        BY DEF FirstPhase, Holding, PcValues
    <2>3. /\ pc' \in [Requests -> PcValues]
          /\ Users' = Users \cup {r} /\ Queued' = Queued /\ Leaked' = Leaked
        <3>1. /\ pc' \in [Requests -> PcValues] /\ Users' = Users \cup {r}
              /\ Queued' = Queued \ {r} /\ Leaked' = Leaked \ {r}
            BY <1>1, <2>1, <2>2, PhaseChange
        <3> QED
            BY <1>2, <3>1
    <2>4. Cardinality(Users') = Cardinality(Users) + 1
        BY <1>2, <2>3, FiniteParts, FS_AddElement
    <2>5. SlotsConserved'
        BY <1>1, <2>1, <2>3, <2>4, FiniteParts DEF SlotsConserved
    <2>6. value' \in 0..MaxConcurrent
        BY <2>1, SchedulerAssumption DEF TypeOK
    <2>7. TypeOK'
        BY <2>1, <2>3, <2>6 DEF TypeOK
    <2>8. LineIsQueue'
        BY <2>1, <2>3 DEF LineIsQueue, InLine
    <2> QED
        BY <2>5, <2>7, <2>8
<1>4. CASE Locked
    <2>1. /\ waiters' = Append(waiters, r)
          /\ waiting' = waiting + 1
          /\ pc' = [pc EXCEPT ![r] = "queued"]
          /\ UNCHANGED <<value, granted, cancelReq>>
        BY <1>4 DEF Ask
    <2>2. /\ pc' \in [Requests -> PcValues]
          /\ Users' = Users /\ Queued' = Queued \cup {r} /\ Leaked' = Leaked
        <3>1. "queued" \in PcValues /\ "queued" \notin Holding
            BY DEF Holding, PcValues
        <3>2. /\ pc' \in [Requests -> PcValues] /\ Users' = Users \ {r}
              /\ Queued' = Queued \cup {r} /\ Leaked' = Leaked \ {r}
            BY <1>1, <2>1, <3>1, PhaseChange
        <3> QED
            BY <1>2, <3>2
    <2>3. /\ waiters' \in Seq(Requests)
          /\ Len(waiters') = Len(waiters) + 1
          /\ \A i \in 1..Len(waiters) : waiters'[i] = waiters[i]
          /\ waiters'[Len(waiters) + 1] = r
          /\ DOMAIN waiters = 1..Len(waiters)
          /\ DOMAIN waiters' = 1..(Len(waiters) + 1)
          /\ Len(waiters) \in Nat
        BY <1>1, <2>1
    <2>4. InLine' = InLine \cup {r}
        BY <2>3 DEF InLine, ToSet
    <2>5. \A i \in 1..Len(waiters) : waiters[i] # r
        BY <1>2, <2>3 DEF LineIsQueue, InLine, ToSet
    <2>6. LineIsQueue'
        BY <2>2, <2>3, <2>4, <2>5 DEF LineIsQueue
    <2>7. TypeOK'
        BY <2>1, <2>2, <2>3 DEF TypeOK
    <2>8. SlotsConserved'
        BY <2>1, <2>2 DEF SlotsConserved
    <2> QED
        BY <2>6, <2>7, <2>8
<1> QED
    BY <1>3, <1>4

\* acquire() returning to a granted waiter turns the grant into a use.
LEMMA ResumeKeepsInv ==
    ASSUME Inv, NEW r \in Requests, Resume(r)
    PROVE  Inv'
<1> USE DEF Inv
<1>1. /\ pc \in [Requests -> PcValues] /\ pc[r] = "queued" /\ value \in Nat
      /\ r \in granted /\ granted \subseteq Queued /\ r \in Queued
      /\ waiters' = Leave(r) /\ pc' = [pc EXCEPT ![r] = FirstPhase(r)]
      /\ waiting' \in Nat /\ cancelReq' = cancelReq
    BY DEF TypeOK, Resume, Decrement
<1>2. FirstPhase(r) \in Holding /\ FirstPhase(r) \in PcValues
        /\ FirstPhase(r) \notin {"queued", "leaked"}
    BY DEF FirstPhase, Holding, PcValues
<1>3. r \notin Users /\ r \notin Leaked
    BY <1>1 DEF Users, Leaked, Holding
<1>4. /\ pc' \in [Requests -> PcValues]
      /\ Users' = Users \cup {r} /\ Queued' = Queued \ {r} /\ Leaked' = Leaked
    <2>1. /\ pc' \in [Requests -> PcValues] /\ Users' = Users \cup {r}
          /\ Queued' = Queued \ {r} /\ Leaked' = Leaked \ {r}
        BY <1>1, <1>2, PhaseChange
    <2> QED
        BY <1>3, <2>1
<1>5. /\ waiters' \in Seq(Requests)
      /\ InLine' = InLine \ {r}
      /\ \A i, j \in DOMAIN waiters' : waiters'[i] = waiters'[j] => i = j
      /\ Leave(r) \in Seq(Requests)
      /\ ToSet(Leave(r)) = Queued \ {r}
    BY <1>1, LeaveProperties DEF InLine, LineIsQueue
<1>6. LineIsQueue'
    BY <1>4, <1>5 DEF LineIsQueue
<1>7. \/ value' = value /\ granted' = granted \ {r}
      \/ \E w \in ToSet(Leave(r)) \ (granted \ {r}) :
            /\ value > 0 /\ value' = value - 1
            /\ granted' = (granted \ {r}) \cup {w}
    BY <1>1, <1>5, WakeProperties DEF Resume
<1>8. /\ Cardinality(Users') = Cardinality(Users) + 1
      /\ Cardinality(granted \ {r}) = Cardinality(granted) - 1
      /\ IsFiniteSet(granted \ {r})
    BY <1>1, <1>3, <1>4, FiniteParts, FS_AddElement, FS_RemoveElement
<1>9. /\ value' \in 0..MaxConcurrent
      /\ granted' \subseteq Queued \ {r}
      /\ value' + Cardinality(granted') = value + Cardinality(granted) - 1
    <2>1. CASE value' = value /\ granted' = granted \ {r}
        BY <1>1, <1>8, <2>1, FiniteParts DEF TypeOK
    <2>2. CASE \E w \in ToSet(Leave(r)) \ (granted \ {r}) :
                 /\ value > 0 /\ value' = value - 1
                 /\ granted' = (granted \ {r}) \cup {w}
        <3>1. PICK w \in ToSet(Leave(r)) \ (granted \ {r}) :
                 /\ value > 0 /\ value' = value - 1
                 /\ granted' = (granted \ {r}) \cup {w}
            BY <2>2
        <3>2. Cardinality(granted') = Cardinality(granted \ {r}) + 1
            BY <1>8, <3>1, FS_AddElement
        <3>3. value' \in 0..MaxConcurrent
            BY <3>1, SchedulerAssumption DEF TypeOK
        <3> QED
            BY <1>1, <1>5, <1>8, <3>1, <3>2, <3>3, FiniteParts
    <2> QED
        BY <1>7, <2>1, <2>2
<1>10. IsFiniteSet(granted') /\ Cardinality(granted') \in Nat
    <2>1. granted' \in SUBSET Requests
        BY <1>9 DEF Queued
    <2> QED
        BY <2>1, SchedulerAssumption, FS_Subset, FS_CardinalityType
<1>11. SlotsConserved'
    BY <1>1, <1>4, <1>8, <1>9, <1>10, FiniteParts, SchedulerAssumption
    DEF SlotsConserved
<1>12. TypeOK'
    BY <1>1, <1>4, <1>5, <1>9 DEF TypeOK
<1> QED
    BY <1>6, <1>11, <1>12

\* A waiter that is cancelled leaves the line, and its grant, if it had one, is
\* handed on or becomes a free slot again.
LEMMA CancelledInLineKeepsInv ==
    ASSUME Inv, NEW r \in Requests, CancelledInLine(r)
    PROVE  Inv'
<1> USE DEF Inv
<1>1. /\ pc \in [Requests -> PcValues] /\ pc[r] = "queued" /\ value \in Nat
      /\ granted \subseteq Queued /\ r \in Queued
      /\ waiters' = Leave(r) /\ pc' = [pc EXCEPT ![r] = "done"]
      /\ waiting' \in Nat /\ cancelReq' = cancelReq
    BY DEF TypeOK, CancelledInLine, CountAfterCancel, Decrement, Queued
<1>2. r \notin Users /\ r \notin Leaked
    BY <1>1 DEF Users, Leaked, Holding
<1>3. /\ pc' \in [Requests -> PcValues]
      /\ Users' = Users /\ Queued' = Queued \ {r} /\ Leaked' = Leaked
    <2>1. "done" \in PcValues /\ "done" \notin Holding
        BY DEF Holding, PcValues
    <2>2. /\ pc' \in [Requests -> PcValues] /\ Users' = Users \ {r}
          /\ Queued' = Queued \ {r} /\ Leaked' = Leaked \ {r}
        BY <1>1, <2>1, PhaseChange
    <2> QED
        BY <1>2, <2>2
<1>4. /\ waiters' \in Seq(Requests)
      /\ InLine' = InLine \ {r}
      /\ \A i, j \in DOMAIN waiters' : waiters'[i] = waiters'[j] => i = j
      /\ ToSet(Leave(r)) = Queued \ {r}
    BY <1>1, LeaveProperties DEF InLine, LineIsQueue
<1>5. LineIsQueue'
    BY <1>3, <1>4 DEF LineIsQueue
<1>6. /\ value' \in Nat
      /\ granted' \subseteq Queued \ {r}
      /\ value' + Cardinality(granted') = value + Cardinality(granted)
    <2>1. CASE r \notin granted
        <3>1. granted \ {r} = granted
            BY <2>1
        <3> QED
            BY <1>1, <2>1, <3>1, FiniteParts DEF CancelledInLine, ReturnsSlot
    <2>2. CASE r \in granted
        <3>1. /\ IsFiniteSet(granted \ {r})
              /\ Cardinality(granted \ {r}) = Cardinality(granted) - 1
              /\ Cardinality(granted) \in Nat
            BY <2>2, FiniteParts, FS_RemoveElement
        <3>2. \/ value' = value + 1 /\ granted' = granted \ {r}
              \/ \E w \in ToSet(Leave(r)) \ (granted \ {r}) :
                    value' = value + 1 - 1 /\ granted' = (granted \ {r}) \cup {w}
            BY <1>1, <1>4, <2>2, WakeProperties
            DEF CancelledInLine, ReturnsSlot
        <3>3. CASE value' = value + 1 /\ granted' = granted \ {r}
            BY <1>1, <3>1, <3>3
        <3>4. CASE \E w \in ToSet(Leave(r)) \ (granted \ {r}) :
                    value' = value + 1 - 1 /\ granted' = (granted \ {r}) \cup {w}
            <4>1. PICK w \in ToSet(Leave(r)) \ (granted \ {r}) :
                    value' = value + 1 - 1 /\ granted' = (granted \ {r}) \cup {w}
                BY <3>4
            <4>2. Cardinality(granted') = Cardinality(granted \ {r}) + 1
                BY <3>1, <4>1, FS_AddElement
            <4> QED
                BY <1>1, <1>4, <3>1, <4>1, <4>2
        <3> QED
            BY <3>2, <3>3, <3>4
    <2> QED
        BY <2>1, <2>2
<1>7. IsFiniteSet(granted') /\ Cardinality(granted') \in Nat
    <2>1. granted' \in SUBSET Requests
        BY <1>6 DEF Queued
    <2> QED
        BY <2>1, SchedulerAssumption, FS_Subset, FS_CardinalityType
<1>8. SlotsConserved'
    BY <1>1, <1>3, <1>6, <1>7, FiniteParts, SchedulerAssumption
    DEF SlotsConserved
<1>9. value' \in 0..MaxConcurrent
    BY <1>3, <1>6, <1>7, <1>8, FiniteParts, SchedulerAssumption
    DEF SlotsConserved
<1>10. TypeOK'
    BY <1>1, <1>3, <1>4, <1>6, <1>9 DEF TypeOK
<1> QED
    BY <1>5, <1>8, <1>10

\* release() turns a use into a free slot or a grant.
LEMMA ReleaseKeepsInv ==
    ASSUME Inv, NEW r \in Requests, Release(r)
    PROVE  Inv'
<1> USE DEF Inv
<1>1. /\ pc \in [Requests -> PcValues] /\ pc[r] \in Holding /\ value \in Nat
      /\ granted \subseteq Queued /\ r \in Users
      /\ pc' = [pc EXCEPT ![r] = "done"] /\ waiters \in Seq(Requests)
      /\ UNCHANGED <<waiters, waiting, cancelReq>>
    BY DEF TypeOK, Release, Users
<1>2. r \notin Queued /\ r \notin Leaked
    BY <1>1 DEF Queued, Leaked, Holding
<1>3. /\ pc' \in [Requests -> PcValues]
      /\ Users' = Users \ {r} /\ Queued' = Queued /\ Leaked' = Leaked
    <2>1. "done" \in PcValues /\ "done" \notin Holding
        BY DEF Holding, PcValues
    <2>2. /\ pc' \in [Requests -> PcValues] /\ Users' = Users \ {r}
          /\ Queued' = Queued \ {r} /\ Leaked' = Leaked \ {r}
        BY <1>1, <2>1, PhaseChange
    <2> QED
        BY <1>2, <2>2
<1>4. LineIsQueue'
    BY <1>1, <1>3 DEF LineIsQueue, InLine
<1>5. Cardinality(Users') = Cardinality(Users) - 1
    BY <1>1, <1>3, FiniteParts, FS_RemoveElement
<1>6. /\ value' \in Nat
      /\ granted' \subseteq Queued
      /\ value' + Cardinality(granted') = value + Cardinality(granted) + 1
    <2>1. ToSet(waiters) = Queued
        BY DEF LineIsQueue, InLine
    <2>2. \/ value' = value + 1 /\ granted' = granted
          \/ \E w \in ToSet(waiters) \ granted :
                value' = value + 1 - 1 /\ granted' = granted \cup {w}
        BY <1>1, WakeProperties DEF Release
    <2>3. CASE value' = value + 1 /\ granted' = granted
        BY <1>1, <2>3, FiniteParts
    <2>4. CASE \E w \in ToSet(waiters) \ granted :
                value' = value + 1 - 1 /\ granted' = granted \cup {w}
        <3>1. PICK w \in ToSet(waiters) \ granted :
                value' = value + 1 - 1 /\ granted' = granted \cup {w}
            BY <2>4
        <3>2. Cardinality(granted') = Cardinality(granted) + 1
            BY <3>1, FiniteParts, FS_AddElement
        <3>3. granted' \subseteq Queued
            BY <1>1, <2>1, <3>1
        <3>4. value' = value
            BY <1>1, <3>1
        <3>5. value' \in Nat /\ value \in Nat /\ Cardinality(granted) \in Nat
            BY <1>1, <3>4, FiniteParts
        <3> QED
            BY <3>2, <3>3, <3>4, <3>5
    <2> QED
        BY <2>2, <2>3, <2>4
<1>7. IsFiniteSet(granted') /\ Cardinality(granted') \in Nat
    <2>1. granted' \in SUBSET Requests
        BY <1>6 DEF Queued
    <2> QED
        BY <2>1, SchedulerAssumption, FS_Subset, FS_CardinalityType
<1>8. SlotsConserved'
    BY <1>1, <1>3, <1>5, <1>6, <1>7, FiniteParts, SchedulerAssumption
    DEF SlotsConserved
<1>9. Cardinality(Users') \in Nat /\ Cardinality(Leaked') \in Nat
    <2>1. IsFiniteSet(Users')
        BY <1>3, FiniteParts, FS_RemoveElement
    <2> QED
        BY <1>3, <2>1, FiniteParts, FS_CardinalityType
<1>10. value' \in 0..MaxConcurrent
    BY <1>6, <1>7, <1>8, <1>9, SchedulerAssumption DEF SlotsConserved
<1>11. TypeOK'
    BY <1>1, <1>3, <1>6, <1>10 DEF TypeOK
<1> QED
    BY <1>4, <1>8, <1>11

\* Steps that move no slot between free, granted and in use.
LEMMA OtherStepsKeepInv ==
    ASSUME Inv, NEW r \in Requests,
           Cancel(r) \/ StartStream(r) \/ CancelledPriming(r)
    PROVE  Inv'
<1> USE DEF Inv
<1>1. /\ pc \in [Requests -> PcValues]
      /\ UNCHANGED <<value, waiters, granted, waiting>>
      /\ cancelReq' \subseteq Requests
    BY DEF TypeOK, Cancel, StartStream, CancelledPriming
<1>0. pc \in [Requests -> PcValues]
    BY <1>1
<1>2. SUFFICES /\ pc' \in [Requests -> PcValues] /\ Queued' = Queued
               /\ Cardinality(Users') + Cardinality(Leaked')
                    = Cardinality(Users) + Cardinality(Leaked)
               /\ Cardinality(Users') \in Nat /\ Cardinality(Leaked') \in Nat
    <2>1. TypeOK' /\ LineIsQueue'
        BY <1>1, <1>2 DEF TypeOK, LineIsQueue, InLine
    <2>2. SlotsConserved'
        <3>1. value \in Nat /\ value' = value
                /\ Cardinality(granted') = Cardinality(granted)
            BY <1>1 DEF TypeOK
        <3> QED
            BY <3>1, <1>2, FiniteParts DEF SlotsConserved
    <2> QED
        BY <2>1, <2>2
<1>3. CASE Cancel(r)
    <2>1. CASE pc' = pc
        BY <1>1, <2>1, FiniteParts DEF Users, Leaked, Queued
    <2>2. CASE pc[r] = "new" /\ pc' = [pc EXCEPT ![r] = "done"]
        <3>1. r \notin Users /\ r \notin Queued /\ r \notin Leaked
            BY <2>2 DEF Users, Queued, Leaked, Holding
        <3>2. "done" \in PcValues /\ "done" \notin Holding
            BY DEF Holding, PcValues
        <3>3. /\ pc' \in [Requests -> PcValues] /\ Users' = Users \ {r}
              /\ Queued' = Queued \ {r} /\ Leaked' = Leaked \ {r}
            BY <1>0, <2>2, <3>2 DEF Users, Queued, Leaked
        <3>4. Users' = Users /\ Queued' = Queued /\ Leaked' = Leaked
            BY <3>1, <3>3
        <3> QED
            BY <3>3, <3>4, FiniteParts
    <2> QED
        BY <1>3, <2>1, <2>2 DEF Cancel
<1>4. CASE StartStream(r)
    <2>1. pc[r] = "prime" /\ pc' = [pc EXCEPT ![r] = "stream"]
        BY <1>4 DEF StartStream
    <2>2. r \in Users /\ r \notin Queued /\ r \notin Leaked
        BY <2>1 DEF Users, Queued, Leaked, Holding
    <2>3. "stream" \in PcValues /\ "stream" \in Holding
        BY DEF Holding, PcValues
    <2>4. /\ pc' \in [Requests -> PcValues] /\ Users' = Users \cup {r}
          /\ Queued' = Queued \ {r} /\ Leaked' = Leaked \ {r}
        BY <1>0, <2>1, <2>3 DEF Users, Queued, Leaked
    <2>5. Users' = Users /\ Queued' = Queued /\ Leaked' = Leaked
        BY <2>2, <2>4
    <2> QED
        BY <2>4, <2>5, FiniteParts
<1>5. CASE CancelledPriming(r)
    <2>1. pc[r] = "prime" /\ pc' = [pc EXCEPT ![r] = "leaked"]
        BY <1>5 DEF CancelledPriming
    <2>2. r \in Users /\ r \notin Queued /\ r \notin Leaked
        BY <2>1 DEF Users, Queued, Leaked, Holding
    <2>3. "leaked" \in PcValues /\ "leaked" \notin Holding
        BY DEF Holding, PcValues
    <2>4. /\ pc' \in [Requests -> PcValues] /\ Users' = Users \ {r}
          /\ Queued' = Queued \ {r} /\ Leaked' = Leaked \cup {r}
        BY <1>0, <2>1, <2>3, PhaseChange
    <2>5. /\ Cardinality(Users') = Cardinality(Users) - 1
          /\ Cardinality(Leaked') = Cardinality(Leaked) + 1
          /\ IsFiniteSet(Users') /\ IsFiniteSet(Leaked')
        BY <2>2, <2>4, FiniteParts, FS_AddElement, FS_RemoveElement
    <2>6. Queued' = Queued
        BY <2>2, <2>4
    <2> QED
        BY <2>4, <2>5, <2>6, FiniteParts, FS_CardinalityType
<1> QED
    BY <1>3, <1>4, <1>5

\* Types, the line and slot conservation hold in every reachable state, for
\* any requests and any number of slots (scheduler.py:45-75 over
\* asyncio.Semaphore).
THEOREM Invariance == Spec => []Inv
<1>1. Init => Inv
    <2> SUFFICES ASSUME Init PROVE Inv
        OBVIOUS
    <2>1. Users = {} /\ Queued = {} /\ Leaked = {}
        BY DEF Init, Users, Queued, Leaked, Holding
    <2>2. TypeOK
        BY <2>1, SchedulerAssumption DEF Init, TypeOK, PcValues
    <2>3. LineIsQueue
        BY <2>1 DEF Init, LineIsQueue, InLine, ToSet
    <2>4. SlotsConserved
        BY <2>1, FS_EmptySet, SchedulerAssumption DEF Init, SlotsConserved
    <2> QED
        BY <2>2, <2>3, <2>4 DEF Inv
<1>2. Inv /\ [Next]_vars => Inv'
    <2> SUFFICES ASSUME Inv, [Next]_vars PROVE Inv'
        OBVIOUS
    <2>1. CASE \E r \in Requests : Step(r) \/ Cancel(r)
        BY <2>1, AskKeepsInv, ResumeKeepsInv, CancelledInLineKeepsInv,
           ReleaseKeepsInv, OtherStepsKeepInv DEF Step
    <2>2. CASE UNCHANGED vars
        BY <2>2 DEF vars, Inv, TypeOK, LineIsQueue, SlotsConserved, InLine,
                    Users, Queued, Leaked
    <2> QED
        BY <2>1, <2>2 DEF Next, Finished
<1> QED
    BY <1>1, <1>2, PTL DEF Spec

\* Types and the structure of the line, for any requests and any number of slots.
THEOREM Types == Spec => []TypeOK
BY Invariance, PTL DEF Inv

\* No step of a reachable state creates or destroys a slot: each is free, on
\* its way to a waiter, in use, or lost to a handler that was cancelled while
\* priming (scheduler.py:45-75, app.py:493-550).
THEOREM Conservation == Spec => []SlotsConserved
BY Invariance, PTL DEF Inv

\* In every reachable state the line holds exactly the queued requests, each
\* once: whichever way acquire() ends, its future is removed.
THEOREM Line == Spec => []LineIsQueue
BY Invariance, PTL DEF Inv

-----------------------------------------------------------------------------
(* The order of the line and the reservation counter.                       *)

\* After _wake_up_next the line is served in order, and a slot stays free only
\* if every future in it is granted or cancelled.
LEMMA WakeInOrder ==
    ASSUME NEW v, NEW g, NEW line \in Seq(Requests), Wake(v, g, line),
           \A i, j \in DOMAIN line : line[i] = line[j] => i = j,
           \A i, j \in DOMAIN line :
               i < j /\ line[j] \in g => line[i] \in g \cup cancelReq,
           waiters' = line, cancelReq' = cancelReq
    PROVE  NoIdleSlot' /\ GrantsInOrder'
<1>1. CASE granted' = g /\ \A i \in DOMAIN line : ~Pending(line[i], g)
    BY <1>1 DEF NoIdleSlot, GrantsInOrder, Pending, InLine, ToSet
<1>2. CASE \E i \in DOMAIN line : /\ Pending(line[i], g)
                                  /\ \A j \in 1..(i - 1) : ~Pending(line[j], g)
                                  /\ granted' = g \cup {line[i]}
    <2>1. PICK i \in DOMAIN line : /\ Pending(line[i], g)
                                   /\ \A j \in 1..(i - 1) : ~Pending(line[j], g)
                                   /\ granted' = g \cup {line[i]}
        BY <1>2
    <2>2. NoIdleSlot'
        BY <2>1 DEF NoIdleSlot
    <2>3. DOMAIN line = 1..Len(line) /\ Len(line) \in Nat
        OBVIOUS
    <2>4. ASSUME NEW a \in DOMAIN line, NEW b \in DOMAIN line,
                 a < b, line[b] \in granted'
          PROVE  line[a] \in granted' \cup cancelReq
        <3>1. CASE line[b] \in g
            BY <2>1, <2>4, <3>1
        <3>2. CASE b = i
            BY <2>1, <2>3, <2>4, <3>2 DEF Pending
        <3> QED
            BY <2>1, <2>4, <3>1, <3>2
    <2> QED
        BY <2>2, <2>4 DEF GrantsInOrder
<1> QED
    BY <1>1, <1>2 DEF Wake

\* Leaving the line changes nobody's place before anybody else.
LEMMA LeaveInOrder ==
    ASSUME Inv, GrantsInOrder, NEW r \in Queued
    PROVE  \A i, j \in DOMAIN Leave(r) :
               i < j /\ Leave(r)[j] \in granted \ {r}
                   => Leave(r)[i] \in (granted \ {r}) \cup cancelReq
<1>1. TypeOK /\ LineIsQueue
    BY DEF Inv
<1> SUFFICES ASSUME NEW i \in DOMAIN Leave(r), NEW j \in DOMAIN Leave(r),
                    i < j, Leave(r)[j] \in granted \ {r}
             PROVE  Leave(r)[i] \in (granted \ {r}) \cup cancelReq
    OBVIOUS
<1>2. Leave(r)[i] # r
    BY <1>1, LeaveProperties DEF ToSet
<1>3. PICK a, b \in DOMAIN waiters :
        a < b /\ Leave(r)[i] = waiters[a] /\ Leave(r)[j] = waiters[b]
    BY <1>1, LeaveProperties
<1> QED
    BY <1>2, <1>3 DEF GrantsInOrder

\* The scheduler's steps keep the line fair and no live request waiting beside
\* a free slot.
LEMMA StepKeepsOrder ==
    ASSUME Inv, NoIdleSlot, GrantsInOrder, NEW r \in Requests, Step(r) \/ Cancel(r)
    PROVE  NoIdleSlot' /\ GrantsInOrder'
<1>1. /\ pc \in [Requests -> PcValues] /\ value \in Nat /\ waiters \in Seq(Requests)
      /\ granted \subseteq Queued /\ InLine = Queued
      /\ \A i, j \in DOMAIN waiters : waiters[i] = waiters[j] => i = j
    BY DEF Inv, TypeOK, LineIsQueue
<1>2. CASE Ask(r) /\ UNCHANGED waiters
    BY <1>1, <1>2 DEF Ask, NoIdleSlot, GrantsInOrder, InLine
<1>3. CASE Ask(r) /\ Locked /\ waiters' = Append(waiters, r)
    <2>1. UNCHANGED <<value, granted, cancelReq>>
        BY <1>1, <1>3 DEF Ask
    <2>2. NoIdleSlot'
        BY <1>1, <1>3, <2>1 DEF Locked, NoIdleSlot
    <2>3. r \notin granted
        BY <1>1, <1>3 DEF Ask, Queued
    <2>4. /\ Len(waiters) \in Nat /\ DOMAIN waiters = 1..Len(waiters)
          /\ DOMAIN waiters' = 1..(Len(waiters) + 1)
          /\ \A i \in 1..Len(waiters) : waiters'[i] = waiters[i]
          /\ waiters'[Len(waiters) + 1] = r
        BY <1>1, <1>3
    <2>5. ASSUME NEW i \in DOMAIN waiters', NEW j \in DOMAIN waiters',
                 i < j, waiters'[j] \in granted
          PROVE  waiters'[i] \in granted \cup cancelReq
        <3>1. j # Len(waiters) + 1
            BY <2>3, <2>4, <2>5
        <3>2. i \in DOMAIN waiters /\ j \in DOMAIN waiters
            BY <2>4, <2>5, <3>1
        <3>3. waiters'[i] = waiters[i] /\ waiters'[j] = waiters[j]
            BY <2>4, <3>2
        <3> QED
            BY <2>5, <3>2, <3>3 DEF GrantsInOrder
    <2> QED
        BY <2>1, <2>2, <2>5 DEF GrantsInOrder
<1>4. CASE Resume(r) \/ CancelledInLine(r)
    <2>1. /\ r \in Queued /\ waiters' = Leave(r) /\ cancelReq' = cancelReq
          /\ \/ \E v \in Nat : Wake(v, granted \ {r}, Leave(r))
             \/ value' = value /\ granted' = granted \ {r}
                    /\ (value = 0 \/ r \notin granted)
        <3>1. value + 1 \in Nat
            BY <1>1
        <3> QED
            BY <1>1, <1>4, <3>1 DEF Resume, CancelledInLine, Queued, ReturnsSlot
    <2>2. /\ Leave(r) \in Seq(Requests)
          /\ ToSet(Leave(r)) = InLine \ {r}
          /\ \A i, j \in DOMAIN Leave(r) : Leave(r)[i] = Leave(r)[j] => i = j
        BY <2>1, LeaveProperties DEF Inv
    <2>3. \A i, j \in DOMAIN Leave(r) :
              i < j /\ Leave(r)[j] \in granted \ {r}
                  => Leave(r)[i] \in (granted \ {r}) \cup cancelReq
        BY <2>1, LeaveInOrder
    <2>4. CASE \E v \in Nat : Wake(v, granted \ {r}, Leave(r))
        BY <2>1, <2>2, <2>3, <2>4, WakeInOrder
    <2>5. CASE value' = value /\ granted' = granted \ {r}
                    /\ (value = 0 \/ r \notin granted)
        <3>1. GrantsInOrder'
            BY <2>1, <2>3, <2>5 DEF GrantsInOrder
        <3>2. InLine' = InLine \ {r}
            BY <2>1, <2>2 DEF InLine
        <3> QED
            BY <2>1, <2>5, <3>1, <3>2 DEF NoIdleSlot
    <2> QED
        BY <2>1, <2>4, <2>5
<1>5. CASE Release(r)
    <2>1. Wake(value + 1, granted, waiters) /\ UNCHANGED <<waiters, cancelReq>>
        BY <1>5 DEF Release
    <2> QED
        BY <1>1, <2>1, WakeInOrder DEF GrantsInOrder
<1>6. CASE Cancel(r) \/ StartStream(r) \/ CancelledPriming(r)
    BY <1>6 DEF Cancel, StartStream, CancelledPriming, NoIdleSlot, GrantsInOrder, InLine
<1>7. CASE Ask(r)
    BY <1>2, <1>3, <1>7 DEF Ask
<1> QED
    BY <1>4, <1>5, <1>6, <1>7 DEF Step

\* The line is served in order and hand-overs are never lost, in every reachable
\* state (asyncio.Semaphore under scheduler.py:45-75).
THEOREM FairLine == Spec => [](NoIdleSlot /\ GrantsInOrder)
<1>1. Init => NoIdleSlot /\ GrantsInOrder
    BY DEF Init, NoIdleSlot, GrantsInOrder, InLine, ToSet
<1>2. Inv /\ (NoIdleSlot /\ GrantsInOrder) /\ [Next]_vars
        => (NoIdleSlot /\ GrantsInOrder)'
    <2> SUFFICES ASSUME Inv, NoIdleSlot, GrantsInOrder, [Next]_vars
                 PROVE  NoIdleSlot' /\ GrantsInOrder'
        OBVIOUS
    <2>1. CASE \E r \in Requests : Step(r) \/ Cancel(r)
        BY <2>1, StepKeepsOrder
    <2>2. CASE UNCHANGED vars
        BY <2>2 DEF vars, NoIdleSlot, GrantsInOrder, InLine
    <2> QED
        BY <2>1, <2>2 DEF Next, Finished
<1> QED
    BY <1>1, <1>2, Invariance, PTL DEF Spec

\* No cancellation loses a wake-up: a slot is free beside a live request in line
\* only while a hand-over is under way (scheduler.py:65-75).
THEOREM NoSlotIdles == Spec => []NoIdleSlot
BY FairLine, PTL

\* Nobody in line is overtaken, however grants and cancellations overlap
\* (scheduler.py:65-75).
THEOREM InOrder == Spec => []GrantsInOrder
BY FairLine, PTL

\* How the number of queued requests changes when r moves to phase x.
LEMMA QueuedChange ==
    ASSUME TypeOK, NEW r \in Requests, NEW x \in PcValues, pc' = [pc EXCEPT ![r] = x]
    PROVE  /\ Cardinality(Queued) \in Nat
           /\ pc[r] # "queued" /\ x = "queued"
                => Cardinality(Queued)' = Cardinality(Queued) + 1
           /\ pc[r] = "queued" /\ x # "queued"
                => Cardinality(Queued)' = Cardinality(Queued) - 1
           /\ pc[r] # "queued" /\ x # "queued"
                => Cardinality(Queued)' = Cardinality(Queued)
<1>1. IsFiniteSet(Queued) /\ Cardinality(Queued) \in Nat
    BY SchedulerAssumption, FS_Subset, FS_CardinalityType DEF Queued
<1>2. pc \in [Requests -> PcValues]
    BY DEF TypeOK
<1>3. pc[r] = "queued" => r \in Queued
    BY DEF Queued
<1>4. pc[r] # "queued" => r \notin Queued
    BY DEF Queued
<1>5. x = "queued" => Queued' = Queued \cup {r}
    BY <1>2, PhaseChange
<1>6. x # "queued" => Queued' = Queued \ {r}
    BY <1>2 DEF Queued
<1>7. r \notin Queued => Queued \ {r} = Queued
    OBVIOUS
<1>8. r \notin Queued => Cardinality(Queued \cup {r}) = Cardinality(Queued) + 1
    BY <1>1, FS_AddElement
<1>9. r \in Queued => Cardinality(Queued \ {r}) = Cardinality(Queued) - 1
    BY <1>1, FS_RemoveElement
<1> QED
    BY <1>1, <1>3, <1>4, <1>5, <1>6, <1>7, <1>8, <1>9

\* The scheduler's steps keep the counter at most, and without a cancelled HTTP
\* handler exactly, the length of the line.
LEMMA StepKeepsCount ==
    ASSUME Inv, NeverOvercounts, CountsQueued, NEW r \in Requests, Step(r) \/ Cancel(r)
    PROVE  NeverOvercounts' /\ CountsQueued'
<1>1. TypeOK /\ pc \in [Requests -> PcValues] /\ waiting \in Nat
    BY DEF Inv, TypeOK
<1>2. FirstPhase(r) \in PcValues \ {"queued"}
    BY DEF FirstPhase, PcValues, Holding
<1>3. {"done", "stream", "leaked"} \subseteq PcValues \ {"queued"}
        /\ "queued" \in PcValues
    BY DEF PcValues, Holding
<1>4. CASE Ask(r)
    <2>1. pc[r] # "queued" /\ cancelReq' = cancelReq
        BY <1>4 DEF Ask
    <2>2. CASE waiting' = waiting /\ pc' = [pc EXCEPT ![r] = FirstPhase(r)]
        <3>1. Cardinality(Queued)' = Cardinality(Queued)
            BY <1>1, <1>2, <2>1, <2>2, QueuedChange
        <3> QED
            BY <2>1, <2>2, <3>1 DEF NeverOvercounts, CountsQueued
    <2>3. CASE waiting' = waiting + 1 /\ pc' = [pc EXCEPT ![r] = "queued"]
        <3>1. Cardinality(Queued)' = Cardinality(Queued) + 1
                /\ Cardinality(Queued) \in Nat
            BY <1>1, <1>3, <2>1, <2>3, QueuedChange
        <3> QED
            BY <1>1, <2>1, <2>3, <3>1 DEF NeverOvercounts, CountsQueued
    <2> QED
        BY <1>4, <2>2, <2>3 DEF Ask
<1>5. CASE Resume(r)
    <2>1. pc[r] = "queued" /\ cancelReq' = cancelReq
            /\ waiting' = Decrement(waiting) /\ pc' = [pc EXCEPT ![r] = FirstPhase(r)]
        BY <1>5 DEF Resume
    <2>2. Cardinality(Queued)' = Cardinality(Queued) - 1
            /\ Cardinality(Queued) \in Nat /\ Cardinality(Queued)' \in Nat
        <3>1. Cardinality(Queued)' = Cardinality(Queued) - 1
                /\ Cardinality(Queued) \in Nat
            BY <1>1, <1>2, <2>1, QueuedChange
        <3>2. Cardinality(Queued) # 0
            BY <1>1, <2>1, FS_EmptySet, SchedulerAssumption, FS_Subset DEF Queued
        <3> QED
            BY <3>1, <3>2
    <2> QED
        BY <1>1, <2>1, <2>2 DEF NeverOvercounts, CountsQueued, Decrement
<1>6. CASE CancelledInLine(r)
    <2>1. pc[r] = "queued" /\ cancelReq' = cancelReq /\ r \in cancelReq
            /\ waiting' = CountAfterCancel(r) /\ pc' = [pc EXCEPT ![r] = "done"]
        BY <1>6 DEF CancelledInLine
    <2>2. Cardinality(Queued)' = Cardinality(Queued) - 1
            /\ Cardinality(Queued) \in Nat /\ Cardinality(Queued)' \in Nat
        <3>1. Cardinality(Queued)' = Cardinality(Queued) - 1
                /\ Cardinality(Queued) \in Nat
            BY <1>1, <1>3, <2>1, QueuedChange
        <3>2. Cardinality(Queued) # 0
            BY <1>1, <2>1, FS_EmptySet, SchedulerAssumption, FS_Subset DEF Queued
        <3> QED
            BY <3>1, <3>2
    <2>3. cancelReq \cap HttpCalls = {} => waiting' = Decrement(waiting)
        BY <2>1 DEF CountAfterCancel, Requests
    <2>4. waiting' \in Nat /\ waiting' <= Decrement(waiting)
        BY <1>1, <2>1 DEF CountAfterCancel, Decrement
    <2>5. NeverOvercounts'
        BY <1>1, <2>2, <2>4 DEF NeverOvercounts, Decrement
    <2>6. CountsQueued'
        BY <1>1, <2>1, <2>2, <2>3 DEF CountsQueued, Decrement
    <2> QED
        BY <2>5, <2>6
<1>7. CASE Cancel(r) \/ Release(r) \/ StartStream(r) \/ CancelledPriming(r)
    <2>1. waiting' = waiting
            /\ (cancelReq' \cap HttpCalls = {} => cancelReq \cap HttpCalls = {})
        BY <1>7 DEF Cancel, Release, StartStream, CancelledPriming
    <2>2. Cardinality(Queued)' = Cardinality(Queued)
        <3>1. CASE pc' = pc
            BY <3>1 DEF Queued
        <3>2. CASE \E x \in PcValues \ {"queued"} :
                    pc[r] # "queued" /\ pc' = [pc EXCEPT ![r] = x]
            BY <1>1, <3>2, QueuedChange
        <3> QED
            BY <1>3, <1>7, <3>1, <3>2
            DEF Cancel, Release, StartStream, CancelledPriming, Holding
    <2> QED
        BY <2>1, <2>2 DEF NeverOvercounts, CountsQueued
<1> QED
    BY <1>4, <1>5, <1>6, <1>7 DEF Step

\* The queue counter, whatever is cancelled when (scheduler.py:7-19, 37-75).
THEOREM Counting == Spec => [](NeverOvercounts /\ CountsQueued)
<1>1. Init => NeverOvercounts /\ CountsQueued
    <2> SUFFICES ASSUME Init PROVE NeverOvercounts /\ CountsQueued
        OBVIOUS
    <2>1. Queued = {}
        BY DEF Init, Queued
    <2> QED
        BY <2>1, FS_EmptySet DEF Init, NeverOvercounts, CountsQueued
<1>2. Inv /\ (NeverOvercounts /\ CountsQueued) /\ [Next]_vars
        => (NeverOvercounts /\ CountsQueued)'
    <2> SUFFICES ASSUME Inv, NeverOvercounts, CountsQueued, [Next]_vars
                 PROVE  NeverOvercounts' /\ CountsQueued'
        OBVIOUS
    <2>1. CASE \E r \in Requests : Step(r) \/ Cancel(r)
        BY <2>1, StepKeepsCount
    <2>2. CASE UNCHANGED vars
        BY <2>2 DEF vars, NeverOvercounts, CountsQueued, Queued
    <2> QED
        BY <2>1, <2>2 DEF Next, Finished
<1> QED
    BY <1>1, <1>2, Invariance, PTL DEF Spec

\* A position reported to a client is never too high (scheduler.py:37-60).
THEOREM NoOvercount == Spec => []NeverOvercounts
BY Counting, PTL

\* As long as no HTTP handler was cancelled, a position is exact
\* (scheduler.py:7-19).
THEOREM ExactCount == Spec => []CountsQueued
BY Counting, PTL

-----------------------------------------------------------------------------
(* The refinement of SlotPool.                                              *)

\* The slots in use, leaked ones included, never exceed the pool, and leave
\* room for every free or granted one.
LEMMA UsedSlots ==
    ASSUME Inv
    PROVE  Cardinality(Users \cup Leaked) = MaxConcurrent - value - Cardinality(granted)
<1>1. Users \cap Leaked = {}
    BY DEF Users, Leaked, Holding
<1>2. Cardinality(Users \cup Leaked) = Cardinality(Users) + Cardinality(Leaked)
    <2>1. IsFiniteSet(Users) /\ IsFiniteSet(Leaked)
            /\ Cardinality(Users) \in Nat /\ Cardinality(Leaked) \in Nat
        BY FiniteParts DEF Inv
    <2>2. Cardinality(Users \cup Leaked) =
            Cardinality(Users) + Cardinality(Leaked) - Cardinality(Users \cap Leaked)
        BY <2>1, FS_Union
    <2> QED
        BY <1>1, <2>1, <2>2, FS_EmptySet
<1>3. /\ Cardinality(granted) \in Nat /\ Cardinality(Users) \in Nat
      /\ Cardinality(Leaked) \in Nat /\ value \in Nat /\ MaxConcurrent \in Nat
    BY FiniteParts, SchedulerAssumption DEF Inv, TypeOK
<1>4. value + Cardinality(granted) + Cardinality(Users) + Cardinality(Leaked)
        = MaxConcurrent
    BY DEF Inv, SlotsConserved
<1>5. Cardinality(Users) + Cardinality(Leaked)
        = MaxConcurrent - value - Cardinality(granted)
    BY <1>3, <1>4
<1> QED
    BY <1>2, <1>5, Zenon

\* At most MaxConcurrent requests hold a slot, whatever the interleaving
\* of grants, cancellations and releases (scheduler.py:45-75).
THEOREM Bounded == Spec => []BoundedConcurrency
<1>1. Inv => BoundedConcurrency
    BY FiniteParts, SchedulerAssumption
    DEF Inv, TypeOK, SlotsConserved, BoundedConcurrency
<1> QED
    BY <1>1, Invariance, PTL

\* SlotPool counts as this module does.
LEMMA PoolCardinality == \A S : Pool!Cardinality(S) = Cardinality(S)
BY Zenon DEF Pool!Cardinality, Cardinality, Pool!IsFiniteSet, IsFiniteSet

\* How the state of the pool changes when request r moves to phase x.
LEMMA PoolChange ==
    ASSUME pc \in [Requests -> PcValues], NEW r \in Requests, NEW x \in PcValues,
           pc' = [pc EXCEPT ![r] = x]
    PROVE  /\ x \in Holding \cup {"leaked"} =>
                (Users \cup Leaked)' = (Users \cup Leaked) \cup {r}
           /\ x \notin Holding \cup {"leaked"} =>
                (Users \cup Leaked)' = (Users \cup Leaked) \ {r}
           /\ x = "done" => Over' = Over \cup {r}
           /\ x # "done" => Over' = Over \ {r}
BY DEF Users, Leaked, Over

\* A request that is new or in line and gets a slot takes one from the pool.
LEMMA StartRefinesTake ==
    ASSUME Inv, NEW r \in Requests, pc[r] \in {"new", "queued"},
           pc' = [pc EXCEPT ![r] = FirstPhase(r)],
           value > 0 \/ r \in granted
    PROVE  Pool!Take(r)
<1>1. pc \in [Requests -> PcValues]
    BY DEF Inv, TypeOK
<1>2. r \notin Users \cup Leaked /\ r \notin Over
    BY <1>1 DEF Users, Leaked, Over, Holding
<1>3. FirstPhase(r) \in Holding /\ FirstPhase(r) \in PcValues
        /\ FirstPhase(r) # "done"
    BY DEF FirstPhase, Holding, PcValues
<1>4. /\ (Users \cup Leaked)' = (Users \cup Leaked) \cup {r}
      /\ Over' = Over \ {r}
    BY <1>1, <1>3, PoolChange
<1>5. Over' = Over
    BY <1>2, <1>4
<1>6. Cardinality(Users \cup Leaked) < MaxConcurrent
    <2>1. /\ value \in Nat /\ Cardinality(granted) \in Nat
          /\ MaxConcurrent \in Nat /\ IsFiniteSet(granted)
        BY FiniteParts, SchedulerAssumption DEF Inv, TypeOK
    <2>2. r \in granted => Cardinality(granted) # 0
        BY <2>1, FS_EmptySet
    <2> QED
        BY <2>1, <2>2, UsedSlots
<1> QED
    BY <1>2, <1>4, <1>5, <1>6, PoolCardinality DEF Pool!Take

\* Every step of the scheduler is a step of the pool, or leaves it unchanged.
LEMMA StepRefines ==
    ASSUME Inv, NEW r \in Requests, Step(r) \/ Cancel(r)
    PROVE  [Pool!PoolNext]_(Pool!poolVars)
<1>1. pc \in [Requests -> PcValues]
    BY DEF Inv, TypeOK
<1>2. "done" \in PcValues /\ "leaked" \in PcValues /\ "stream" \in PcValues
        /\ "queued" \in PcValues /\ "done" \notin Holding \cup {"leaked"}
        /\ "queued" \notin Holding \cup {"leaked"} /\ "stream" \in Holding
    BY DEF PcValues, Holding
<1>3. CASE Ask(r)
    <2>1. CASE pc' = [pc EXCEPT ![r] = FirstPhase(r)] /\ ~Locked
        <3>1. pc[r] = "new" /\ value > 0
            BY <1>3, <2>1 DEF Ask, Locked, Inv, TypeOK
        <3> QED
            BY <2>1, <3>1, StartRefinesTake DEF Pool!PoolNext
    <2>2. CASE pc' = [pc EXCEPT ![r] = "queued"]
        <3>1. r \notin Users \cup Leaked /\ r \notin Over
            BY <1>3 DEF Ask, Users, Leaked, Over, Holding
        <3>2. (Users \cup Leaked)' = (Users \cup Leaked) \ {r} /\ Over' = Over \ {r}
            BY <1>1, <1>2, <2>2, PoolChange
        <3> QED
            BY <3>1, <3>2 DEF Pool!poolVars
    <2> QED
        BY <1>3, <2>1, <2>2 DEF Ask
<1>4. CASE Resume(r)
    <2>1. pc[r] = "queued" /\ r \in granted
            /\ pc' = [pc EXCEPT ![r] = FirstPhase(r)]
        BY <1>4 DEF Resume
    <2> QED
        BY <2>1, StartRefinesTake DEF Pool!PoolNext
<1>5. CASE CancelledInLine(r) \/ (Cancel(r) /\ pc[r] = "new")
    <2>1. pc[r] \in {"new", "queued"} /\ pc' = [pc EXCEPT ![r] = "done"]
        BY <1>5 DEF CancelledInLine, Cancel
    <2>2. r \notin Users \cup Leaked /\ r \notin Over
        BY <2>1 DEF Users, Leaked, Over, Holding
    <2>3. (Users \cup Leaked)' = (Users \cup Leaked) \ {r} /\ Over' = Over \cup {r}
        BY <1>1, <1>2, <2>1, PoolChange
    <2>4. Pool!GiveUp(r)
        BY <2>2, <2>3 DEF Pool!GiveUp
    <2> QED
        BY <2>4 DEF Pool!PoolNext
<1>6. CASE Cancel(r) /\ pc[r] # "new"
    BY <1>6 DEF Cancel, Users, Leaked, Over, Pool!poolVars
<1>7. CASE Release(r)
    <2>1. pc[r] \in Holding /\ pc' = [pc EXCEPT ![r] = "done"]
        BY <1>7 DEF Release
    <2>2. r \in Users \cup Leaked
        BY <2>1 DEF Users
    <2>3. (Users \cup Leaked)' = (Users \cup Leaked) \ {r} /\ Over' = Over \cup {r}
        BY <1>1, <1>2, <2>1, PoolChange
    <2>4. Pool!Give(r)
        BY <2>2, <2>3 DEF Pool!Give
    <2> QED
        BY <2>4 DEF Pool!PoolNext
<1>8. CASE StartStream(r) \/ CancelledPriming(r)
    <2>1. PICK x \in {"stream", "leaked"} : pc' = [pc EXCEPT ![r] = x]
        BY <1>8 DEF StartStream, CancelledPriming
    <2>2. r \in Users \cup Leaked /\ r \notin Over
        BY <1>8 DEF StartStream, CancelledPriming, Users, Over, Holding
    <2>3. /\ (Users \cup Leaked)' = (Users \cup Leaked) \cup {r}
          /\ Over' = Over \ {r}
        BY <1>1, <1>2, <2>1, PoolChange
    <2> QED
        BY <2>2, <2>3 DEF Pool!poolVars
<1> QED
    BY <1>3, <1>4, <1>5, <1>6, <1>7, <1>8 DEF Step

\* The scheduler implements SlotPool (scheduler.py:1-38): whatever its callers
\* do, it never has more users than slots and never serves anyone twice.
THEOREM Implements == Spec => PoolSpec
<1>1. Init => Pool!PoolInit
    BY DEF Init, Pool!PoolInit, Users, Leaked, Over, Holding
<1>2. Inv /\ [Next]_vars => [Pool!PoolNext]_(Pool!poolVars)
    <2> SUFFICES ASSUME Inv, [Next]_vars PROVE [Pool!PoolNext]_(Pool!poolVars)
        OBVIOUS
    <2>1. CASE \E r \in Requests : Step(r) \/ Cancel(r)
        BY <2>1, StepRefines
    <2>2. CASE UNCHANGED vars
        BY <2>2 DEF vars, Pool!poolVars, Users, Leaked, Over
    <2> QED
        BY <2>1, <2>2 DEF Next, Finished
<1> QED
    BY <1>1, <1>2, Invariance, PTL DEF Spec, PoolSpec, Pool!PoolSpec

=============================================================================
