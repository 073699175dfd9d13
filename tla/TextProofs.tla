----------------------------- MODULE TextProofs -----------------------------
(***************************************************************************)
(* Theorems of TextPath, for all thresholds, queue sizes and texts.  What  *)
(* the recursive functions compute is proved by induction on the length of *)
(* the text, with the lemmas of RecursionLemmas.                           *)
(***************************************************************************)
EXTENDS TextPath, RecursionLemmas

Text == Seq(Chars)

-----------------------------------------------------------------------------
(* Minima, cuts and strip().                                                *)

\* The least element of a set of positions.
LEMMA MinOf ==
    ASSUME NEW T, T \subseteq Nat, T # {}
    PROVE  Min(T) \in T /\ \A k \in T : Min(T) <= k
BY LeastNat DEF Min

\* The greatest element of a bounded set of positions.
LEMMA MaxOf ==
    ASSUME NEW b \in Nat, NEW T, T \subseteq 0..b, T # {}
    PROVE  Max(T) \in T /\ \A k \in T : k <= Max(T)
BY GreatestNat DEF Max

\* Where the next sentence of a buffer ends: at its first cut, else at the cap.
LEMMA CutFacts ==
    ASSUME NEW b \in Text, NEW isFirst \in BOOLEAN
    PROVE  /\ CutAt(b, isFirst) \in 0..Len(b)
           /\ CutAt(b, isFirst) = 0 <=> Cuts(b, isFirst) = {} /\ Len(b) < MaxChars
           /\ Cuts(b, isFirst) # {} =>
                  /\ CutAt(b, isFirst) \in Cuts(b, isFirst)
                  /\ \A i \in Cuts(b, isFirst) : CutAt(b, isFirst) <= i
           /\ Cuts(b, isFirst) = {} /\ CutAt(b, isFirst) # 0
                  => CutAt(b, isFirst) = MaxChars
<1>1. Cuts(b, isFirst) \subseteq 1..Len(b) /\ Len(b) \in Nat
    BY DEF Cuts, Text
<1>2. MaxChars \in Nat \ {0}
    BY TextAssumption
<1>3. CASE Cuts(b, isFirst) = {}
    BY <1>1, <1>2, <1>3 DEF CutAt
<1>4. CASE Cuts(b, isFirst) # {}
    <2>1. /\ Min(Cuts(b, isFirst)) \in Cuts(b, isFirst)
          /\ \A i \in Cuts(b, isFirst) : Min(Cuts(b, isFirst)) <= i
        <3>1. Cuts(b, isFirst) \subseteq Nat
            BY <1>1
        <3> QED
            BY <3>1, <1>4, MinOf
    <2>2. CutAt(b, isFirst) = Min(Cuts(b, isFirst))
        BY <1>4 DEF CutAt
    <2> QED
        BY <1>1, <1>4, <2>1, <2>2
<1> QED
    BY <1>3, <1>4

\* A text is its first k characters and the others.
LEMMA CutText ==
    ASSUME NEW s \in Text, NEW k \in 0..Len(s)
    PROVE  /\ SubSeq(s, 1, k) \in Text /\ Len(SubSeq(s, 1, k)) = k
           /\ \A i \in 1..k : SubSeq(s, 1, k)[i] = s[i]
           /\ SubSeq(s, k + 1, Len(s)) \in Text
           /\ Len(SubSeq(s, k + 1, Len(s))) = Len(s) - k
           /\ s = SubSeq(s, 1, k) \o SubSeq(s, k + 1, Len(s))
<1>1. Len(s) \in Nat
    BY DEF Text
<1>2. SubSeq(s, 1, k) \o SubSeq(s, k + 1, Len(s)) = SubSeq(s, 1, Len(s))
    <2>1. /\ s \in Seq(Chars) /\ 1 \in 1..Len(s) + 1
          /\ k \in 1 - 1..Len(s) /\ Len(s) \in k..Len(s)
        BY <1>1 DEF Text
    <2> QED
        BY <2>1, ConcatAdjacentSubSeq
<1>3. SubSeq(s, 1, Len(s)) = s
    BY SubSeqFull DEF Text
<1>4. /\ SubSeq(s, 1, k) \in Text /\ Len(SubSeq(s, 1, k)) = k
      /\ SubSeq(s, k + 1, Len(s)) \in Text
      /\ Len(SubSeq(s, k + 1, Len(s))) = Len(s) - k
    BY <1>1 DEF Text
<1>5. \A i \in 1..k : SubSeq(s, 1, k)[i] = s[i]
    BY <1>1 DEF Text
<1> QED
    BY <1>2, <1>3, <1>4, <1>5

\* strip() of a text that is not blank: the part between its first and its last
\* character that is no space.
LEMMA StripFacts ==
    ASSUME NEW s \in Text, ~ Blank(s)
    PROVE  \E i, j \in 1..Len(s) :
               /\ i <= j /\ Strip(s) = SubSeq(s, i, j)
               /\ s[i] # Space /\ s[j] # Space
               /\ \A k \in 1..Len(s) : k < i \/ k > j => s[k] = Space
<1>1. NonBlank(s) \subseteq 1..Len(s) /\ NonBlank(s) # {} /\ Len(s) \in Nat
    BY DEF NonBlank, Blank, Text
<1>2. /\ Min(NonBlank(s)) \in NonBlank(s)
      /\ \A k \in NonBlank(s) : Min(NonBlank(s)) <= k
    <2>1. NonBlank(s) \subseteq Nat
        BY <1>1
    <2> QED
        BY <1>1, <2>1, MinOf
<1>3. /\ Max(NonBlank(s)) \in NonBlank(s)
      /\ \A k \in NonBlank(s) : k <= Max(NonBlank(s))
    <2>1. NonBlank(s) \subseteq 0..Len(s)
        BY <1>1
    <2> QED
        BY <1>1, <2>1, MaxOf
<1>4. Strip(s) = SubSeq(s, Min(NonBlank(s)), Max(NonBlank(s)))
    BY DEF Strip
<1>5. \A k \in 1..Len(s) : k \in NonBlank(s) <=> s[k] # Space
    BY DEF NonBlank, Text
<1> DEFINE i == Min(NonBlank(s))
           j == Max(NonBlank(s))
<1>6. i \in 1..Len(s) /\ j \in 1..Len(s) /\ i <= j
    BY <1>1, <1>2, <1>3
<1>7. s[i] # Space /\ s[j] # Space
    BY <1>2, <1>3, <1>5, <1>6
<1>8. \A k \in 1..Len(s) : k < i \/ k > j => s[k] = Space
    BY <1>1, <1>2, <1>3, <1>5, <1>6
<1> HIDE DEF i, j
<1> QED
    BY <1>4, <1>6, <1>7, <1>8 DEF i, j

\* Stripped texts are texts, and no longer.
LEMMA StripType ==
    ASSUME NEW s \in Text
    PROVE  Strip(s) \in Text /\ Len(Strip(s)) <= Len(s) /\ (~ Blank(s) => Strip(s) # <<>>)
<1>1. CASE Blank(s)
    BY <1>1 DEF Strip, Text
<1>2. CASE ~ Blank(s)
    <2>1. PICK i, j \in 1..Len(s) : i <= j /\ Strip(s) = SubSeq(s, i, j)
        BY <1>2, StripFacts
    <2>2. SubSeq(s, i, j) \in Text /\ Len(SubSeq(s, i, j)) = j - i + 1
        BY <2>1, SubSeqProperties, ElementOfSeq DEF Text
    <2>3. SubSeq(s, i, j) # <<>>
        BY <2>1, <2>2, EmptySeq
    <2> QED
        BY <2>1, <2>2, <2>3 DEF Text
<1> QED
    BY <1>1, <1>2

\* What is said of a sentence: it is the stripped text, or there is none.
LEMMA SentenceType ==
    ASSUME NEW s \in Text
    PROVE  /\ Sentence(s) \in Seq(Text)
           /\ Blank(s) => Sentence(s) = <<>>
           /\ ~ Blank(s) => Sentence(s) = <<Strip(s)>>
           /\ \A i \in DOMAIN Sentence(s) : Sentence(s)[i] = Strip(s) /\ Strip(s) # <<>>
BY StripType DEF Sentence

-----------------------------------------------------------------------------
(* The loop of push().                                                      *)

Results == [out : Seq(Text), left : Buffers, capped : BOOLEAN]

\* The buffer behind its next sentence.
After(s) == Buffer(SubSeq(s.text, CutAt(s.text, s.first) + 1, Len(s.text)), FALSE)

\* One round of the loop, where r is the result of the rounds behind it.
Round(s, r) ==
    IF CutAt(s.text, s.first) = 0 THEN [out |-> <<>>, left |-> s, capped |-> FALSE]
    ELSE [out |-> Sentence(SubSeq(s.text, 1, CutAt(s.text, s.first))) \o r.out,
          left |-> r.left,
          capped |-> r.capped \/ Cuts(s.text, s.first) = {}]

BufferLen == [s \in Buffers |-> Len(s.text)]

\* Sizes and types of what a round cuts off and leaves.
LEMMA AfterType ==
    ASSUME NEW s \in Buffers
    PROVE  /\ s.text \in Text /\ s.first \in BOOLEAN
           /\ BufferLen \in [Buffers -> Nat]
           /\ After(s) \in Buffers
           /\ CutAt(s.text, s.first) # 0 => BufferLen[After(s)] < BufferLen[s]
           /\ SubSeq(s.text, 1, CutAt(s.text, s.first)) \in Text
           /\ Len(SubSeq(s.text, 1, CutAt(s.text, s.first))) = CutAt(s.text, s.first)
<1> DEFINE k == CutAt(s.text, s.first)
<1>1. s.text \in Text /\ s.first \in BOOLEAN /\ Len(s.text) \in Nat
    BY DEF Buffers, Text
<1>2. k \in 0..Len(s.text)
    BY <1>1, CutFacts
<1> HIDE DEF k
<1>3. /\ SubSeq(s.text, k + 1, Len(s.text)) \in Text
      /\ Len(SubSeq(s.text, k + 1, Len(s.text))) = Len(s.text) - k
    BY <1>1, <1>2 DEF Text
<1>4. SubSeq(s.text, 1, k) \in Text /\ Len(SubSeq(s.text, 1, k)) = k
    BY <1>1, <1>2 DEF Text
<1>5. BufferLen \in [Buffers -> Nat]
    BY DEF BufferLen, Buffers, Text
<1>6. After(s) \in Buffers /\ After(s).text = SubSeq(s.text, k + 1, Len(s.text))
    BY <1>3 DEF After, Buffer, Buffers, Text, k
<1>7. k # 0 => BufferLen[After(s)] < BufferLen[s]
    BY <1>1, <1>2, <1>3, <1>6 DEF BufferLen
<1> QED
    BY <1>1, <1>4, <1>5, <1>6, <1>7 DEF k

\* A round keeps the types.
LEMMA RoundType ==
    ASSUME NEW s \in Buffers, NEW r \in Results
    PROVE  Round(s, r) \in Results
<1>1. CASE CutAt(s.text, s.first) = 0
    BY <1>1, EmptySeq DEF Round, Results
<1>2. CASE CutAt(s.text, s.first) # 0
    <2>1. Sentence(SubSeq(s.text, 1, CutAt(s.text, s.first))) \in Seq(Text)
        BY AfterType, SentenceType
    <2>2. r.out \in Seq(Text) /\ r.left \in Buffers /\ r.capped \in BOOLEAN
        BY DEF Results
    <2>3. Sentence(SubSeq(s.text, 1, CutAt(s.text, s.first))) \o r.out \in Seq(Text)
        BY <2>1, <2>2, ConcatProperties
    <2> QED
        BY <1>2, <2>2, <2>3 DEF Round, Results
<1> QED
    BY <1>1, <1>2

\* Only the rounds behind it matter to a round, and the last has none.
LEMMA RoundContracts ==
    LET D == [p \in Buffers \X [Buffers -> Results] |-> Round(p[1], p[2][After(p[1])])]
    IN  /\ D \in [Buffers \X [Buffers -> Results] -> Results]
        /\ Contracts(D, Buffers, Results, BufferLen)
<1> DEFINE D == [p \in Buffers \X [Buffers -> Results] |-> Round(p[1], p[2][After(p[1])])]
<1>1. ASSUME NEW s \in Buffers, NEW g \in [Buffers -> Results]
      PROVE  D[<<s, g>>] = Round(s, g[After(s)]) /\ g[After(s)] \in Results
    BY AfterType
<1>2. D \in [Buffers \X [Buffers -> Results] -> Results]
    <2> SUFFICES ASSUME NEW p \in Buffers \X [Buffers -> Results]
                 PROVE  Round(p[1], p[2][After(p[1])]) \in Results
        OBVIOUS
    <2>1. p[1] \in Buffers /\ p[2][After(p[1])] \in Results
        BY AfterType
    <2> QED
        BY <2>1, RoundType
<1>3. ASSUME NEW s \in Buffers, NEW g \in [Buffers -> Results],
             NEW h \in [Buffers -> Results],
             \A r \in Buffers : BufferLen[r] < BufferLen[s] => g[r] = h[r]
      PROVE  D[<<s, g>>] = D[<<s, h>>]
    <2>1. Round(s, g[After(s)]) = Round(s, h[After(s)])
        BY <1>3, AfterType DEF Round
    <2> QED
        BY <1>1, <2>1
<1> HIDE DEF D
<1>4. Contracts(D, Buffers, Results, BufferLen)
    BY <1>3 DEF Contracts
<1> QED
    BY <1>2, <1>4 DEF D

\* push() goes round by round (sentence_buffer.py:45-61).
LEMMA PiecesEquation ==
    \A s \in Buffers : Pieces[s] = Round(s, Pieces[After(s)])
<1> DEFINE D == [p \in Buffers \X [Buffers -> Results] |-> Round(p[1], p[2][After(p[1])])]
           Loop(f) == [s \in Buffers |-> Round(s, f[After(s)])]
<1>1. PICK f : Solves(f, D, Buffers, Results)
    <2>1. D \in [Buffers \X [Buffers -> Results] -> Results]
          /\ Contracts(D, Buffers, Results, BufferLen)
        BY RoundContracts
    <2>2. Results # {} /\ BufferLen \in [Buffers -> Nat]
        <3>1. BufferLen \in [Buffers -> Nat]
            BY DEF BufferLen, Buffers, Text
        <3>2. Buffer(<<>>, TRUE) \in Buffers
            BY EmptySeq DEF Buffer, Buffers, Text
        <3>3. [out |-> <<>>, left |-> Buffer(<<>>, TRUE), capped |-> FALSE] \in Results
            BY <3>2, EmptySeq DEF Results
        <3> QED
            BY <3>1, <3>3
    <2> HIDE DEF D
    <2> QED
        BY <2>1, <2>2, RecursionHasSolution
<1>2. f = Loop(f)
    <2>1. f \in [Buffers -> Results] /\ \A s \in Buffers : f[s] = D[<<s, f>>]
        BY <1>1 DEF Solves
    <2>2. \A s \in Buffers : D[<<s, f>>] = Round(s, f[After(s)])
        BY <2>1
    <2> HIDE DEF D
    <2> QED
        BY <2>1, <2>2
<1>3. Pieces = CHOOSE g : g = Loop(g)
    BY DEF Pieces, Round, After
<1>4. Pieces = Loop(Pieces)
    <2> HIDE DEF Loop
    <2> QED
        BY <1>2, <1>3
<1> QED
    BY <1>4

\* One round of the loop, spelled out.
LEMMA PiecesRound ==
    ASSUME NEW s \in Buffers
    PROVE  /\ CutAt(s.text, s.first) = 0 =>
                  /\ Pieces[s] = [out |-> <<>>, left |-> s, capped |-> FALSE]
                  /\ Pieces[s].out = <<>> /\ Pieces[s].left = s /\ ~ Pieces[s].capped
           /\ CutAt(s.text, s.first) # 0 =>
                  /\ Pieces[s].out = Sentence(SubSeq(s.text, 1, CutAt(s.text, s.first)))
                                         \o Pieces[After(s)].out
                  /\ Pieces[s].left = Pieces[After(s)].left
                  /\ Pieces[s].capped =
                         (Pieces[After(s)].capped \/ Cuts(s.text, s.first) = {})
<1>1. Pieces[s] = Round(s, Pieces[After(s)])
    BY PiecesEquation
<1>2. CASE CutAt(s.text, s.first) = 0
    <2>1. Pieces[s] = [out |-> <<>>, left |-> s, capped |-> FALSE]
        BY <1>1, <1>2 DEF Round
    <2> QED
        BY <1>2, <2>1
<1>3. CASE CutAt(s.text, s.first) # 0
    <2> DEFINE t == Sentence(SubSeq(s.text, 1, CutAt(s.text, s.first)))
               q == Pieces[After(s)]
               c == q.capped \/ Cuts(s.text, s.first) = {}
    <2>1. Pieces[s] = [out |-> t \o q.out, left |-> q.left, capped |-> c]
        BY <1>1, <1>3 DEF Round
    <2> HIDE DEF t, q, c
    <2>2. Pieces[s].out = t \o q.out /\ Pieces[s].left = q.left /\ Pieces[s].capped = c
        BY <2>1
    <2> QED
        BY <1>3, <2>2 DEF t, q, c
<1> QED
    BY <1>2, <1>3

\* Induction along the rounds: T holds each buffer that has no sentence, and
\* each for which it holds what is behind the first sentence.
LEMMA BufferInduction ==
    ASSUME NEW T,
           \A s \in Buffers : (CutAt(s.text, s.first) # 0 => After(s) \in T) => s \in T
    PROVE  Buffers \subseteq T
<1>1. BufferLen \in [Buffers -> Nat]
    BY DEF BufferLen, Buffers, Text
<1>2. ASSUME NEW s \in Buffers,
             \A r \in Buffers : BufferLen[r] < BufferLen[s] => r \in T
      PROVE  s \in T
    BY <1>2, AfterType
<1> QED
    BY <1>1, <1>2, MeasureInduction

\* push() returns sentences and leaves a buffer (sentence_buffer.py:38-63).
LEMMA PiecesType ==
    \A s \in Buffers : Pieces[s] \in Results
<1> DEFINE T == {s \in Buffers : Pieces[s] \in Results}
<1>1. ASSUME NEW s \in Buffers, CutAt(s.text, s.first) # 0 => After(s) \in T
      PROVE  s \in T
    <2>1. CASE CutAt(s.text, s.first) = 0
        <3>1. Pieces[s] = [out |-> <<>>, left |-> s, capped |-> FALSE]
            BY <2>1, PiecesRound
        <3>2. <<>> \in Seq(Text)
            OBVIOUS
        <3>3. [out |-> <<>>, left |-> s, capped |-> FALSE] \in Results
            BY <3>2 DEF Results
        <3> QED
            BY <3>1, <3>3
    <2>2. CASE CutAt(s.text, s.first) # 0
        <3>1. Pieces[s] = Round(s, Pieces[After(s)])
            BY PiecesEquation
        <3>2. Pieces[After(s)] \in Results
            BY <1>1, <2>2
        <3> QED
            BY <3>1, <3>2, RoundType
    <2> QED
        BY <2>1, <2>2
<1> HIDE DEF T
<1>2. Buffers \subseteq T
    BY <1>1, BufferInduction
<1> QED
    BY <1>2 DEF T

\* What push() leaves holds no further sentence.
LEMMA LeftHasNoCut ==
    \A s \in Buffers : CutAt(Pieces[s].left.text, Pieces[s].left.first) = 0
<1> DEFINE T == {s \in Buffers : CutAt(Pieces[s].left.text, Pieces[s].left.first) = 0}
<1>1. ASSUME NEW s \in Buffers, CutAt(s.text, s.first) # 0 => After(s) \in T
      PROVE  s \in T
    <2>1. CASE CutAt(s.text, s.first) = 0
        BY <2>1, PiecesRound
    <2>2. CASE CutAt(s.text, s.first) # 0
        BY <1>1, <2>2, PiecesRound
    <2> QED
        BY <2>1, <2>2
<1> HIDE DEF T
<1>2. Buffers \subseteq T
    BY <1>1, BufferInduction
<1> QED
    BY <1>2 DEF T

\* A sentence that flush() or push() may return: not empty, and beyond max_chars
\* only if it ends at the first mark that could end it.
Fine(s) ==
    /\ s # <<>>
    /\ Len(s) > MaxChars =>
           /\ s[Len(s)] \in Strong \cup Weak
           /\ \A j \in 1..(Len(s) - 1) : s[j] \notin Strong

\* What a round cuts off is such a sentence, once stripped.
LEMMA CutIsFine ==
    ASSUME NEW s \in Buffers, CutAt(s.text, s.first) # 0,
           NEW t, t = SubSeq(s.text, 1, CutAt(s.text, s.first)), ~ Blank(t)
    PROVE  Fine(Strip(t))
<1> DEFINE k == CutAt(s.text, s.first)
<1>1. /\ s.text \in Text /\ s.first \in BOOLEAN /\ t \in Text /\ Len(t) = k
      /\ Strip(t) # <<>> /\ Len(Strip(t)) <= k /\ k \in 1..Len(s.text)
    <2>1. s.text \in Text /\ s.first \in BOOLEAN /\ t \in Text /\ Len(t) = k
        BY AfterType
    <2>2. k \in 0..Len(s.text) /\ Len(s.text) \in Nat
        BY <2>1, CutFacts DEF Text
    <2>3. Strip(t) # <<>> /\ Len(Strip(t)) <= Len(t)
        BY <2>1, StripType
    <2> QED
        BY <2>1, <2>2, <2>3
<1>2. \A i \in 1..k : t[i] = s.text[i]
    BY <1>1 DEF Text
<1>3. SUFFICES ASSUME Len(Strip(t)) > MaxChars
               PROVE  /\ Strip(t)[Len(Strip(t))] \in Strong \cup Weak
                      /\ \A j \in 1..(Len(Strip(t)) - 1) : Strip(t)[j] \notin Strong
    BY <1>1 DEF Fine
<1>4. MaxChars \in Nat /\ k > MaxChars
    BY <1>1, <1>3, TextAssumption, StripType DEF Text
<1>5. Cuts(s.text, s.first) # {} /\ k \in Cuts(s.text, s.first)
        /\ \A i \in Cuts(s.text, s.first) : k <= i
    BY <1>1, <1>4, CutFacts
<1>6. t[k] \in Strong \cup Weak
    BY <1>1, <1>2, <1>5 DEF Cuts, IsCut
<1>7. \A i \in 1..k : i < k => t[i] \notin Strong
    BY <1>1, <1>2, <1>5 DEF Cuts, IsCut, Text
<1>8. t[k] # Space
    BY <1>6 DEF Strong, Weak, Space
<1>9. PICK i, j \in 1..Len(t) :
          /\ i <= j /\ Strip(t) = SubSeq(t, i, j)
          /\ \A n \in 1..Len(t) : n < i \/ n > j => t[n] = Space
    BY <1>1, StripFacts
<1>10. j = k
    BY <1>1, <1>8, <1>9
<1>11. Len(Strip(t)) = k - i + 1 /\ \A n \in 1..(k - i + 1) : Strip(t)[n] = t[i + n - 1]
    BY <1>1, <1>9, <1>10, SubSeqProperties, ElementOfSeq DEF Text
<1>12. Strip(t)[k - i + 1] = t[k]
    BY <1>1, <1>9, <1>10, <1>11
<1>13. ASSUME NEW n \in 1..(k - i) PROVE Strip(t)[n] \notin Strong
    <2>1. Strip(t)[n] = t[i + n - 1] /\ i + n - 1 \in 1..k /\ i + n - 1 < k
        BY <1>1, <1>9, <1>11
    <2> QED
        BY <2>1, <1>7
<1> QED
    BY <1>1, <1>6, <1>11, <1>12, <1>13

\* Each sentence push() returns is one (sentence_buffer.py:45-63).
LEMMA OutIsFine ==
    \A s \in Buffers : \A i \in DOMAIN Pieces[s].out : Fine(Pieces[s].out[i])
<1> DEFINE T == {s \in Buffers : \A i \in DOMAIN Pieces[s].out : Fine(Pieces[s].out[i])}
<1>1. ASSUME NEW s \in Buffers, CutAt(s.text, s.first) # 0 => After(s) \in T
      PROVE  s \in T
    <2>1. CASE CutAt(s.text, s.first) = 0
        <3>1. Pieces[s].out = <<>>
            BY <2>1, PiecesRound
        <3> QED
            BY <3>1
    <2>2. CASE CutAt(s.text, s.first) # 0
        <3> DEFINE t == SubSeq(s.text, 1, CutAt(s.text, s.first))
                   a == Sentence(t)
                   b == Pieces[After(s)].out
        <3>1. t \in Text /\ After(s) \in Buffers
            BY AfterType
        <3>2. a \in Seq(Text) /\ \A i \in DOMAIN a : a[i] = Strip(t) /\ ~ Blank(t)
            BY <3>1, SentenceType
        <3>3. \A i \in DOMAIN a : Fine(a[i])
            BY <3>2, <2>2, CutIsFine
        <3>4. b \in Seq(Text) /\ \A i \in DOMAIN b : Fine(b[i])
            BY <1>1, <2>2, <3>1, PiecesType DEF Results
        <3>5. Pieces[s].out = a \o b
            BY <2>2, PiecesRound
        <3> HIDE DEF a, b
        <3>6. \A i \in DOMAIN (a \o b) : Fine((a \o b)[i])
            BY <3>2, <3>3, <3>4
        <3> QED
            BY <3>5, <3>6
    <2> QED
        BY <2>1, <2>2
<1> HIDE DEF T
<1>2. Buffers \subseteq T
    BY <1>1, BufferInduction
<1> QED
    BY <1>2 DEF T

-----------------------------------------------------------------------------
(* Letters of a text, and of a list of texts.                               *)

\* The texts of list q behind each other, without their spaces.
Spoken[q \in Seq(Text)] ==
    IF q = <<>> THEN <<>> ELSE Letters[Head(q)] \o Spoken[Tail(q)]

\* What Letters gives for a character.
OwnLetter == [c \in Chars |-> IF c = Space THEN <<>> ELSE <<c>>]

\* Letters takes a text character by character.
LEMMA LettersJoins == Joins(Letters, OwnLetter, Chars, Chars)
<1> DEFINE Loop(f) == [s \in Seq(Chars) |->
                          IF s = <<>> THEN <<>>
                          ELSE (IF Head(s) = Space THEN <<>> ELSE <<Head(s)>>) \o f[Tail(s)]]
<1>1. OwnLetter \in [Chars -> Seq(Chars)]
    BY DEF OwnLetter
<1>2. \A f : Joins(f, OwnLetter, Chars, Chars) <=> f = Loop(f)
    <2> TAKE f
    <2>1. \A s \in Seq(Chars) : s # <<>> =>
              OwnLetter[Head(s)] = IF Head(s) = Space THEN <<>> ELSE <<Head(s)>>
        BY DEF OwnLetter
    <2>2. [s \in Seq(Chars) |-> IF s = <<>> THEN <<>> ELSE OwnLetter[Head(s)] \o f[Tail(s)]]
              = Loop(f)
        BY <2>1
    <2> HIDE DEF Loop
    <2> QED
        BY <1>1, <2>2 DEF Joins
<1>3. \E f : f = Loop(f)
    <2> HIDE DEF Loop
    <2> QED
        BY <1>1, <1>2, JoinsSolution
<1>4. Letters = CHOOSE g : g = Loop(g)
    BY DEF Letters
<1>5. Letters = Loop(Letters)
    <2> HIDE DEF Loop
    <2> QED
        BY <1>3, <1>4
<1> HIDE DEF Loop
<1> QED
    BY <1>1, <1>2, <1>5

\* What is needed of Letters.
LEMMA LettersFacts ==
    /\ Letters \in [Text -> Text]
    /\ Letters[<<>>] = <<>>
    /\ \A s \in Text : s # <<>> => Letters[s] = OwnLetter[Head(s)] \o Letters[Tail(s)]
    /\ \A s, t \in Text : Letters[s \o t] = Letters[s] \o Letters[t]
<1>1. Letters \in [Seq(Chars) -> Seq(Chars)]
    BY LettersJoins, JoinsType
<1>2. Splits(Letters, Chars)
    BY LettersJoins, JoinsConcat
<1>3. /\ Letters[<<>>] = <<>>
      /\ \A s \in Seq(Chars) : s # <<>> => Letters[s] = OwnLetter[Head(s)] \o Letters[Tail(s)]
    BY LettersJoins, EmptySeq DEF Joins
<1> QED
    BY <1>1, <1>2, <1>3 DEF Text, Splits

\* What is needed of Spoken: it takes a list text by text.
LEMMA SpokenFacts ==
    /\ Spoken \in [Seq(Text) -> Text]
    /\ Spoken[<<>>] = <<>>
    /\ \A q \in Seq(Text) : q # <<>> => Spoken[q] = Letters[Head(q)] \o Spoken[Tail(q)]
    /\ \A q, r \in Seq(Text) : Spoken[q \o r] = Spoken[q] \o Spoken[r]
<1>1. Letters \in [Text -> Seq(Chars)]
    BY LettersFacts DEF Text
<1> DEFINE Loop(f) == [q \in Seq(Text) |->
                          IF q = <<>> THEN <<>> ELSE Letters[Head(q)] \o f[Tail(q)]]
<1>2. \A f : Joins(f, Letters, Text, Chars) <=> f = Loop(f)
    BY <1>1 DEF Joins
<1>3. Joins(Spoken, Letters, Text, Chars)
    <2>1. Spoken = CHOOSE f : f = Loop(f)
        BY DEF Spoken
    <2> HIDE DEF Loop
    <2>2. \E f : f = Loop(f)
        BY <1>1, <1>2, JoinsSolution
    <2> QED
        BY <1>2, <2>1, <2>2
<1> HIDE DEF Loop
<1>4. Spoken \in [Seq(Text) -> Text]
    BY <1>3, JoinsType DEF Text
<1>5. Splits(Spoken, Text)
    BY <1>3, JoinsConcat
<1>6. /\ Spoken[<<>>] = <<>>
      /\ \A q \in Seq(Text) : q # <<>> => Spoken[q] = Letters[Head(q)] \o Spoken[Tail(q)]
    <2>1. <<>> \in Seq(Text)
        BY EmptySeq
    <2> QED
        BY <1>3, <2>1 DEF Joins
<1> QED
    BY <1>4, <1>5, <1>6 DEF Splits

\* A blank text has no letters, and the other way round.
LEMMA LettersBlank ==
    \A s \in Text : Letters[s] = <<>> <=> Blank(s)
<1> DEFINE T == {s \in Text : Letters[s] = <<>> <=> Blank(s)}
<1>1. <<>> \in T
    BY LettersFacts, EmptySeq DEF Text, Blank
<1>2. ASSUME NEW s \in Text, s # <<>>, Tail(s) \in T PROVE s \in T
    <2>1. /\ Head(s) \in Chars /\ Head(s) = s[1] /\ Tail(s) \in Text
          /\ Len(s) \in Nat \ {0} /\ Len(Tail(s)) = Len(s) - 1
          /\ \A i \in 1..Len(Tail(s)) : Tail(s)[i] = s[i + 1]
        BY <1>2, HeadTailProperties, EmptySeq DEF Text
    <2>2. Letters[s] = OwnLetter[Head(s)] \o Letters[Tail(s)]
        BY <1>2, LettersFacts
    <2>3. OwnLetter[Head(s)] \in Text /\ Letters[Tail(s)] \in Text
        BY <2>1, LettersFacts, LettersJoins DEF Joins, Text
    <2>4. Letters[s] = <<>> <=> OwnLetter[Head(s)] = <<>> /\ Letters[Tail(s)] = <<>>
        BY <2>2, <2>3, ConcatEqualIffEmpty DEF Text
    <2>5. OwnLetter[Head(s)] = <<>> <=> s[1] = Space
        BY <2>1 DEF OwnLetter
    <2>6. Blank(s) <=> s[1] = Space /\ Blank(Tail(s))
        <3>1. DOMAIN s = 1..Len(s) /\ DOMAIN Tail(s) = 1..(Len(s) - 1)
            BY <1>2, <2>1 DEF Text
        <3>2. ASSUME s[1] = Space, Blank(Tail(s)), NEW i \in 1..Len(s) PROVE s[i] = Space
            <4>1. CASE i # 1
                <5>1. i - 1 \in 1..(Len(s) - 1) /\ (i - 1) + 1 = i
                    BY <2>1, <4>1
                <5> QED
                    BY <2>1, <3>1, <3>2, <5>1 DEF Blank
            <4> QED
                BY <3>2, <4>1
        <3>3. ASSUME Blank(s), NEW i \in 1..(Len(s) - 1) PROVE Tail(s)[i] = Space
            <4>1. i + 1 \in 1..Len(s)
                BY <2>1
            <4> QED
                BY <2>1, <3>1, <3>3, <4>1 DEF Blank
        <3>4. Blank(s) => s[1] = Space
            BY <2>1, <3>1 DEF Blank
        <3> QED
            BY <3>1, <3>2, <3>3, <3>4 DEF Blank
    <2> QED
        BY <1>2, <2>4, <2>5, <2>6
<1> HIDE DEF T
<1>3. Seq(Chars) \subseteq T
    BY <1>1, <1>2, TailInduction DEF Text
<1> QED
    BY <1>3 DEF T, Text

\* strip() takes no letter away.
LEMMA LettersStrip ==
    \A s \in Text : Letters[Strip(s)] = Letters[s]
<1> SUFFICES ASSUME NEW s \in Text PROVE Letters[Strip(s)] = Letters[s]
    OBVIOUS
<1>1. CASE Blank(s)
    BY <1>1, LettersBlank, LettersFacts DEF Strip
<1>2. CASE ~ Blank(s)
    <2>1. PICK i, j \in 1..Len(s) :
              /\ i <= j /\ Strip(s) = SubSeq(s, i, j)
              /\ \A k \in 1..Len(s) : k < i \/ k > j => s[k] = Space
        BY <1>2, StripFacts
    <2> DEFINE a == SubSeq(s, 1, i - 1)
               b == SubSeq(s, i, j)
               c == SubSeq(s, j + 1, Len(s))
    <2>2. a \in Text /\ b \in Text /\ c \in Text /\ Len(s) \in Nat
        BY DEF Text
    <2>3. Blank(a)
        <3>1. i - 1 \in 0..Len(s)
            BY <2>2
        <3>2. DOMAIN a = 1..(i - 1) /\ \A n \in 1..(i - 1) : a[n] = s[n]
            BY <3>1, CutText DEF Text
        <3> QED
            BY <2>1, <2>2, <3>2 DEF Blank
    <2>4. Blank(c)
        BY <2>1, <2>2 DEF Blank, Text
    <2>5. s = (a \o b) \o c
        <3>1. a \o b = SubSeq(s, 1, j)
            BY <2>1, <2>2 DEF Text
        <3>2. SubSeq(s, 1, j) \o c = s
            BY <2>1, <2>2 DEF Text
        <3> QED
            BY <3>1, <3>2
    <2>6. Letters[a] = <<>> /\ Letters[c] = <<>>
        BY <2>2, <2>3, <2>4, LettersBlank
    <2>7. Letters[b] \in Text
        BY <2>2, LettersFacts
    <2> HIDE DEF a, b, c
    <2>8. a \o b \in Text
        BY <2>2 DEF Text
    <2>9. Letters[s] = (<<>> \o Letters[b]) \o <<>>
        <3>1. Letters[(a \o b) \o c] = Letters[a \o b] \o Letters[c]
            BY <2>2, <2>8, LettersFacts
        <3>2. Letters[a \o b] = Letters[a] \o Letters[b]
            BY <2>2, LettersFacts
        <3> QED
            BY <2>5, <2>6, <3>1, <3>2
    <2>10. Letters[s] = Letters[b]
        BY <2>7, <2>9, ConcatEmptySeq DEF Text
    <2> QED
        BY <2>1, <2>10 DEF b
<1> QED
    BY <1>1, <1>2

\* A list of one text, and what becomes of a text as a sentence.
LEMMA SpokenOne ==
    ASSUME NEW s \in Text
    PROVE  Spoken[<<s>>] = Letters[s] /\ Spoken[Sentence(s)] = Letters[s]
<1>1. ASSUME NEW t \in Text PROVE Spoken[<<t>>] = Letters[t]
    <2>1. <<t>> \in Seq(Text) /\ <<t>> # <<>> /\ Head(<<t>>) = t /\ Tail(<<t>>) = <<>>
        OBVIOUS
    <2>2. Spoken[<<t>>] = Letters[t] \o <<>>
        BY <2>1, SpokenFacts
    <2>3. Letters[t] \in Text
        BY LettersFacts
    <2> QED
        BY <2>2, <2>3, ConcatEmptySeq DEF Text
<1>2. CASE Blank(s)
    BY <1>1, <1>2, SentenceType, SpokenFacts, LettersBlank
<1>3. CASE ~ Blank(s)
    <2>1. Sentence(s) = <<Strip(s)>> /\ Strip(s) \in Text
        BY <1>3, SentenceType, StripType
    <2>2. Spoken[<<Strip(s)>>] = Letters[Strip(s)]
        BY <1>1, <2>1
    <2> QED
        BY <1>1, <2>1, <2>2, LettersStrip
<1> QED
    BY <1>2, <1>3

\* push() loses no letter: what it returns and what it leaves is the buffer with
\* the new text (sentence_buffer.py:38-63).
LEMMA PiecesKeepLetters ==
    \A s \in Buffers :
        Spoken[Pieces[s].out] \o Letters[Pieces[s].left.text] = Letters[s.text]
<1> DEFINE Kept(s) == Spoken[Pieces[s].out] \o Letters[Pieces[s].left.text] = Letters[s.text]
           T == {s \in Buffers : Kept(s)}
<1>1. ASSUME NEW s \in Buffers, CutAt(s.text, s.first) # 0 => After(s) \in T
      PROVE  s \in T
    <2>1. s.text \in Text /\ Letters[s.text] \in Text
        BY AfterType, LettersFacts
    <2>2. CASE CutAt(s.text, s.first) = 0
        <3>1. Pieces[s].out = <<>> /\ Pieces[s].left = s
            BY <2>2, PiecesRound
        <3>2. <<>> \o Letters[s.text] = Letters[s.text]
            BY <2>1, ConcatEmptySeq DEF Text
        <3> QED
            BY <3>1, <3>2, SpokenFacts
    <2>3. CASE CutAt(s.text, s.first) # 0
        <3> DEFINE k == CutAt(s.text, s.first)
                   t == SubSeq(s.text, 1, k)
                   p == Pieces[After(s)]
        <3>1. t \in Text /\ After(s) \in Buffers /\ After(s).text \in Text
            BY AfterType
        <3>2. s.text = t \o After(s).text
            <4>1. After(s).text = SubSeq(s.text, k + 1, Len(s.text))
                BY DEF After, Buffer
            <4>2. k \in 0..Len(s.text) /\ Len(s.text) \in Nat
                BY AfterType, CutFacts DEF Text
            <4> DEFINE b == s.text
            <4>3. b \in Text /\ k \in 0..Len(b)
                BY <2>1, <4>2
            <4> HIDE DEF k, b
            <4>4. b = SubSeq(b, 1, k) \o SubSeq(b, k + 1, Len(b))
                BY <4>3, CutText
            <4> QED
                BY <4>1, <4>4 DEF b
        <3>3. p.out \in Seq(Text) /\ p.left.text \in Text
            BY <3>1, PiecesType DEF Results, Buffers, Text
        <3>4. Sentence(t) \in Seq(Text)
            BY <3>1, SentenceType
        <3>5. Pieces[s].out = Sentence(t) \o p.out /\ Pieces[s].left = p.left
            BY <2>3, PiecesRound
        <3>6. Spoken[p.out] \o Letters[p.left.text] = Letters[After(s).text]
            BY <1>1, <2>3
        <3> HIDE DEF t, p, k
        <3>7. Spoken[Pieces[s].out] = Letters[t] \o Spoken[p.out]
            BY <3>1, <3>3, <3>4, <3>5, SpokenFacts, SpokenOne
        <3> DEFINE a == Letters[t]
                   b == Spoken[p.out]
                   c == Letters[p.left.text]
        <3>8. a \in Text /\ b \in Text /\ c \in Text
            BY <3>1, <3>3, LettersFacts, SpokenFacts
        <3> HIDE DEF a, b, c
        <3>9. (a \o b) \o c = a \o (b \o c)
            BY <3>8, ConcatAssociative DEF Text
        <3>10. Letters[s.text] = a \o Letters[After(s).text]
            BY <3>1, <3>2, LettersFacts DEF a
        <3>11. Spoken[Pieces[s].out] \o Letters[Pieces[s].left.text] = (a \o b) \o c
            BY <3>5, <3>7 DEF a, b, c
        <3> QED
            BY <3>6, <3>9, <3>10, <3>11 DEF b, c
    <2> QED
        BY <2>2, <2>3
<1> HIDE DEF T
<1>2. Buffers \subseteq T
    BY <1>1, BufferInduction
<1> QED
    BY <1>2 DEF T

\* What comes later in a text does not move a cut in front of it.
LEMMA CutStays ==
    ASSUME NEW b \in Text, NEW t \in Text, NEW isFirst \in BOOLEAN,
           Cuts(b, isFirst) # {}
    PROVE  /\ Cuts(b \o t, isFirst) # {}
           /\ CutAt(b \o t, isFirst) = CutAt(b, isFirst)
<1>1. b \o t \in Text /\ Len(b) \in Nat /\ Len(t) \in Nat /\ Len(b \o t) = Len(b) + Len(t)
        /\ \A i \in 1..Len(b) : (b \o t)[i] = b[i]
    BY DEF Text
<1>2. \A i \in 1..Len(b) : i \in Cuts(b, isFirst) <=> i \in Cuts(b \o t, isFirst)
    BY <1>1 DEF Cuts, IsCut, Text
<1>3. /\ CutAt(b, isFirst) \in Cuts(b, isFirst) /\ CutAt(b, isFirst) \in 1..Len(b)
      /\ \A i \in Cuts(b, isFirst) : CutAt(b, isFirst) <= i
    <2>1. Cuts(b, isFirst) \subseteq 1..Len(b)
        BY DEF Cuts, Text
    <2> QED
        BY <2>1, CutFacts
<1>4. Cuts(b \o t, isFirst) # {}
    BY <1>2, <1>3
<1>5. /\ CutAt(b \o t, isFirst) \in Cuts(b \o t, isFirst)
      /\ \A i \in Cuts(b \o t, isFirst) : CutAt(b \o t, isFirst) <= i
    BY <1>1, <1>4, CutFacts
<1>6. CutAt(b \o t, isFirst) \in 1..(Len(b) + Len(t))
    BY <1>1, <1>5 DEF Cuts, Text
<1>7. CutAt(b \o t, isFirst) <= CutAt(b, isFirst)
    BY <1>2, <1>3, <1>5
<1>8. CutAt(b \o t, isFirst) \in 1..Len(b)
    BY <1>1, <1>3, <1>6, <1>7
<1>9. CutAt(b, isFirst) <= CutAt(b \o t, isFirst)
    BY <1>2, <1>3, <1>5, <1>8
<1> QED
    BY <1>3, <1>4, <1>7, <1>8, <1>9

\* Buffer s with more text behind.
Longer(s, t) == Buffer(s.text \o t, s.first)

\* One round on a longer buffer: the same sentence, and the rest is longer.
LEMMA RoundStays ==
    ASSUME NEW s \in Buffers, NEW t \in Text, Cuts(s.text, s.first) # {}
    PROVE  /\ Longer(s, t) \in Buffers
           /\ CutAt(Longer(s, t).text, Longer(s, t).first) = CutAt(s.text, s.first)
           /\ CutAt(s.text, s.first) # 0
           /\ Cuts(Longer(s, t).text, Longer(s, t).first) # {}
           /\ SubSeq(Longer(s, t).text, 1, CutAt(s.text, s.first))
                  = SubSeq(s.text, 1, CutAt(s.text, s.first))
           /\ After(Longer(s, t)) = Longer(After(s), t)
<1> DEFINE b == s.text
           k == CutAt(s.text, s.first)
<1>1. b \in Text /\ s.first \in BOOLEAN /\ b \o t \in Text
    BY DEF Buffers, Text
<1>2. Longer(s, t).text = b \o t /\ Longer(s, t).first = s.first /\ Longer(s, t) \in Buffers
    BY <1>1 DEF Longer, Buffer, Buffers, Text
<1>3. /\ Cuts(b \o t, s.first) # {} /\ CutAt(b \o t, s.first) = k
      /\ k \in 1..Len(b) /\ Len(b) \in Nat
    <2>1. Cuts(b \o t, s.first) # {} /\ CutAt(b \o t, s.first) = k
        BY <1>1, CutStays
    <2>2. k \in Cuts(b, s.first)
        BY <1>1, CutFacts
    <2> QED
        BY <1>1, <2>1, <2>2 DEF Cuts, Text
<1>4. After(s).text = SubSeq(b, k + 1, Len(b)) /\ After(s).first = FALSE
    BY DEF After, Buffer
<1>5. After(Longer(s, t)) = Buffer(SubSeq(b \o t, k + 1, Len(b \o t)), FALSE)
    BY <1>2, <1>3 DEF After
<1> HIDE DEF b, k
<1>6. SubSeq(b \o t, 1, k) = SubSeq(b, 1, k)
    BY <1>1, <1>3 DEF Text
<1>7. SubSeq(b \o t, k + 1, Len(b \o t)) = SubSeq(b, k + 1, Len(b)) \o t
    <2> DEFINE x == SubSeq(b \o t, k + 1, Len(b \o t))
               c == SubSeq(b, k + 1, Len(b))
    <2>1. Len(b \o t) = Len(b) + Len(t) /\ Len(t) \in Nat
        BY <1>1 DEF Text
    <2>2. /\ x \in Text /\ Len(x) = Len(b) + Len(t) - k
          /\ \A i \in 1..(Len(b) + Len(t) - k) : x[i] = (b \o t)[k + i]
        BY <1>1, <1>3, <2>1 DEF Text
    <2>3. /\ c \in Text /\ Len(c) = Len(b) - k
          /\ \A i \in 1..(Len(b) - k) : c[i] = b[k + i]
        BY <1>1, <1>3 DEF Text
    <2> HIDE DEF x, c
    <2>4. c \o t \in Text /\ Len(c \o t) = Len(b) + Len(t) - k
        <3>1. c \o t \in Text /\ Len(c \o t) = Len(c) + Len(t)
            BY <2>3, ConcatProperties DEF Text
        <3>2. k \in Int /\ Len(b) \in Nat
            BY <1>3
        <3> QED
            BY <2>1, <2>3, <3>1, <3>2
    <2>5. ASSUME NEW i \in 1..(Len(b) + Len(t) - k) PROVE x[i] = (c \o t)[i]
        <3>1. CASE i <= Len(b) - k
            <4>1. (c \o t)[i] = c[i] /\ (b \o t)[k + i] = b[k + i]
                BY <1>1, <1>3, <2>1, <2>3, <3>1 DEF Text
            <4> QED
                BY <1>3, <2>1, <2>2, <2>3, <3>1, <4>1
        <3>2. CASE i > Len(b) - k
            <4>1. (c \o t)[i] = t[i - (Len(b) - k)] /\ (b \o t)[k + i] = t[k + i - Len(b)]
                BY <1>1, <1>3, <2>1, <2>3, <3>2 DEF Text
            <4>2. i - (Len(b) - k) = k + i - Len(b)
                BY <1>3
            <4> QED
                BY <2>2, <4>1, <4>2
        <3>3. i \in Int /\ Len(b) - k \in Int
            BY <1>3, <2>1
        <3>4. i <= Len(b) - k \/ i > Len(b) - k
            BY <3>3
        <3> QED
            BY <3>1, <3>2, <3>4
    <2>6. x = c \o t
        BY <2>2, <2>4, <2>5, SeqEqual DEF Text
    <2> QED
        BY <2>6 DEF x, c
<1>8. After(Longer(s, t)) = Longer(After(s), t)
    BY <1>4, <1>5, <1>7 DEF Longer
<1> QED
    BY <1>2, <1>3, <1>6, <1>8 DEF b, k

\* push() on a text in two parts is push() on the one and then on the other,
\* unless max_chars cut the first where the second may have brought a mark
\* (sentence_buffer.py:45-61).
LEMMA PiecesSplit ==
    ASSUME NEW t \in Text
    PROVE  \A s \in Buffers : ~ Pieces[s].capped =>
               LET p == Pieces[Longer(Pieces[s].left, t)]
                   q == Pieces[Longer(s, t)]
               IN  /\ q.out = Pieces[s].out \o p.out
                   /\ q.left = p.left
                   /\ q.capped = p.capped
<1> DEFINE Same(s) ==
               LET p == Pieces[Longer(Pieces[s].left, t)]
                   q == Pieces[Longer(s, t)]
               IN  /\ q.out = Pieces[s].out \o p.out
                   /\ q.left = p.left
                   /\ q.capped = p.capped
           T == {s \in Buffers : ~ Pieces[s].capped => Same(s)}
<1>0. ASSUME NEW s \in Buffers
      PROVE  Longer(s, t) \in Buffers
    BY DEF Longer, Buffer, Buffers, Text
<1>1. ASSUME NEW s \in Buffers, CutAt(s.text, s.first) # 0 => After(s) \in T
      PROVE  s \in T
    <2> SUFFICES ASSUME ~ Pieces[s].capped PROVE Same(s)
        OBVIOUS
    <2>1. CASE CutAt(s.text, s.first) = 0
        <3>1. Pieces[s].out = <<>> /\ Pieces[s].left = s
            BY <2>1, PiecesRound
        <3>2. Pieces[Longer(s, t)].out \in Seq(Text)
            BY <1>0, PiecesType DEF Results
        <3>3. <<>> \o Pieces[Longer(s, t)].out = Pieces[Longer(s, t)].out
            BY <3>2, ConcatEmptySeq
        <3> QED
            BY <3>1, <3>3
    <2>2. CASE CutAt(s.text, s.first) # 0
        <3> DEFINE k == CutAt(s.text, s.first)
                   a == Sentence(SubSeq(s.text, 1, k))
                   r == Pieces[After(s)]
                   p == Pieces[Longer(r.left, t)]
                   q == Pieces[Longer(After(s), t)]
        <3>1. /\ Pieces[s].out = a \o r.out /\ Pieces[s].left = r.left
              /\ Cuts(s.text, s.first) # {} /\ ~ r.capped
              /\ After(s) \in Buffers /\ r \in Results
            BY <2>2, AfterType, PiecesRound, PiecesType
        <3>2. q.out = r.out \o p.out /\ q.left = p.left /\ q.capped = p.capped
            BY <1>1, <2>2, <3>1
        <3> DEFINE u == Longer(s, t)
        <3>3. /\ u \in Buffers /\ CutAt(u.text, u.first) = k /\ Cuts(u.text, u.first) # {}
              /\ SubSeq(u.text, 1, k) = SubSeq(s.text, 1, k)
              /\ After(u) = Longer(After(s), t)
            BY <3>1, RoundStays
        <3> HIDE DEF u
        <3>4. /\ Pieces[u].out = a \o q.out /\ Pieces[u].left = q.left
              /\ Pieces[u].capped = (q.capped \/ Cuts(u.text, u.first) = {})
            <4>1. CutAt(u.text, u.first) # 0
                BY <2>2, <3>3
            <4>2. /\ Pieces[u].out = Sentence(SubSeq(u.text, 1, CutAt(u.text, u.first)))
                                         \o Pieces[After(u)].out
                  /\ Pieces[u].left = Pieces[After(u)].left
                  /\ Pieces[u].capped =
                         (Pieces[After(u)].capped \/ Cuts(u.text, u.first) = {})
                BY <3>3, <4>1, PiecesRound
            <4>3. Pieces[After(u)] = q
                BY <3>3
            <4>4. Sentence(SubSeq(u.text, 1, CutAt(u.text, u.first))) = a
                BY <3>3
            <4> HIDE DEF a, q
            <4> QED
                BY <4>2, <4>3, <4>4
        <3>5. q \in Results /\ p \in Results
            <4>1. r.left \in Buffers
                BY <3>1 DEF Results
            <4> QED
                BY <1>0, <3>1, <4>1, PiecesType
        <3>6. Pieces[u].capped = q.capped
            BY <3>3, <3>4, <3>5 DEF Results
        <3>7. a \in Seq(Text)
            BY AfterType, SentenceType
        <3>8. (a \o r.out) \o p.out = a \o (r.out \o p.out)
            <4> DEFINE x == r.out
                       y == p.out
            <4>1. x \in Seq(Text) /\ y \in Seq(Text)
                BY <3>1, <3>5 DEF Results
            <4> HIDE DEF a, x, y
            <4>2. (a \o x) \o y = a \o (x \o y)
                BY <3>7, <4>1, ConcatAssociative
            <4> QED
                BY <4>2 DEF x, y
        <3> HIDE DEF a, q, k
        <3> QED
            BY <3>1, <3>2, <3>4, <3>6, <3>8 DEF u
    <2> QED
        BY <2>1, <2>2
<1> HIDE DEF T
<1>2. Buffers \subseteq T
    BY <1>1, BufferInduction
<1> QED
    BY <1>2 DEF T

-----------------------------------------------------------------------------
(* The inductive invariant.                                                 *)

\* The end marker is in the queue.
HasEnd == \E i \in DOMAIN tq : tq[i] = END

\* Nothing has happened before tts.start, and while the session is started
\* run_tts is on its way.
Phases ==
    /\ state \in {"connected", "rejected", "authenticated"} =>
           epc = "off" /\ buf = <<>> /\ tq = <<>> /\ chunks = <<>> /\ accepted = <<>>
    /\ state = "started" => epc \in {"queued", "gather"}

\* tts.end puts the end marker, and nothing is put behind it.
EndIsLast ==
    \A i \in DOMAIN tq : tq[i] = END => i = Len(tq) /\ state \in {"ending", "closing"}

\* As long as the engine may still read the end marker, all the text is where it
\* will find it: gathered, queued or, before tts.end, buffered.
NothingLost ==
    epc \in {"queued", "gather"} =>
        /\ state = "started" =>
               Letters[chunks] \o (Spoken[tq] \o Letters[buf]) = Letters[accepted]
        /\ HasEnd => Letters[chunks] \o Spoken[tq] = Letters[accepted]

\* The buffer is as if all the text had come in one frame.
AsOneFrame ==
    plain =>
        LET p == Pieces[Buffer(accepted, TRUE)]
        IN  emitted = p.out /\ Buffer(buf, first) = p.left /\ ~ p.capped

\* All that left the buffer are sentences.
AllFine == \A i \in DOMAIN emitted : Fine(emitted[i])

TextInv ==
    /\ TextTypeOK
    /\ Phases
    /\ EndIsLast
    /\ NothingLost
    /\ AsOneFrame
    /\ AllFine
    /\ PostsAllOrNothing

\* A buffer without text holds no sentence.
LEMMA EmptyBuffer ==
    ASSUME NEW isFirst \in BOOLEAN
    PROVE  /\ CutAt(<<>>, isFirst) = 0
           /\ Buffer(<<>>, isFirst) \in Buffers
           /\ Buffer(<<>>, isFirst).text = <<>> /\ Buffer(<<>>, isFirst).first = isFirst
           /\ Pieces[Buffer(<<>>, isFirst)].out = <<>>
           /\ Pieces[Buffer(<<>>, isFirst)].left = Buffer(<<>>, isFirst)
           /\ ~ Pieces[Buffer(<<>>, isFirst)].capped
<1>1. <<>> \in Text /\ Len(<<>>) = 0
    BY EmptySeq DEF Text
<1>2. CutAt(<<>>, isFirst) = 0
    BY <1>1, CutFacts
<1>3. /\ Buffer(<<>>, isFirst).text = <<>> /\ Buffer(<<>>, isFirst).first = isFirst
      /\ Buffer(<<>>, isFirst) \in Buffers
    BY <1>1 DEF Buffer, Buffers, Text
<1> QED
    BY <1>2, <1>3, PiecesRound

\* Result r takes the buffer and t to sentences and a rest without any, and loses
\* no letter.
Delivers(r, t) ==
    /\ r.out \in Seq(Text) /\ \A i \in DOMAIN r.out : Fine(r.out[i])
    /\ r.left \in Buffers /\ r.left.text \in Text /\ r.left.first \in BOOLEAN
    /\ CutAt(r.left.text, r.left.first) = 0
    /\ Spoken[r.out] \o Letters[r.left.text] = Letters[buf] \o Letters[t]

\* push() does (sentence_buffer.py:38-63).
LEMMA PushDelivers ==
    ASSUME TextTypeOK, NEW t \in Text
    PROVE  Push(t) \in Results /\ Delivers(Push(t), t)
<1> DEFINE s == Buffer(buf \o t, first)
<1>1. buf \in Text /\ first \in BOOLEAN /\ buf \o t \in Text
    BY DEF TextTypeOK, Text
<1>2. s \in Buffers /\ s.text = buf \o t
    BY <1>1 DEF Buffer, Buffers, Text
<1> HIDE DEF s
<1> DEFINE p == Pieces[s]
<1>3. p \in Results
    BY <1>2, PiecesType
<1>4. /\ p.out \in Seq(Text) /\ p.left \in Buffers
      /\ p.left.text \in Text /\ p.left.first \in BOOLEAN
    <2>1. p.out \in Seq(Text) /\ p.left \in Buffers
        BY <1>3 DEF Results
    <2> QED
        BY <2>1, AfterType
<1>5. \A i \in DOMAIN p.out : Fine(p.out[i])
    BY <1>2, OutIsFine
<1>6. CutAt(p.left.text, p.left.first) = 0
    BY <1>2, LeftHasNoCut
<1>7. Spoken[p.out] \o Letters[p.left.text] = Letters[buf] \o Letters[t]
    <2>1. Spoken[p.out] \o Letters[p.left.text] = Letters[s.text]
        BY <1>2, PiecesKeepLetters
    <2>2. Letters[buf \o t] = Letters[buf] \o Letters[t]
        BY <1>1, LettersFacts
    <2> QED
        BY <1>2, <2>1, <2>2
<1>8. Delivers(p, t)
    BY <1>4, <1>5, <1>6, <1>7 DEF Delivers
<1> QED
    BY <1>3, <1>8 DEF Push, s

\* flush() of a buffer without a sentence to cut off returns all its letters
\* (sentence_buffer.py:65-73).
LEMMA FlushFacts ==
    ASSUME NEW s \in Buffers, CutAt(s.text, s.first) = 0
    PROVE  /\ Flush(s).out \in Seq(Text)
           /\ \A i \in DOMAIN Flush(s).out : Fine(Flush(s).out[i])
           /\ Flush(s).left \in Buffers /\ Flush(s).left.text = <<>>
           /\ Flush(s).left.first \in BOOLEAN
           /\ CutAt(Flush(s).left.text, Flush(s).left.first) = 0
           /\ Spoken[Flush(s).out] = Letters[s.text]
<1> DEFINE b == s.text
           f == s.first /\ Blank(b)
<1>1. b \in Text /\ s.first \in BOOLEAN /\ f \in BOOLEAN
    BY AfterType
<1>2. Flush(s).out = Sentence(b) /\ Flush(s).left = Buffer(<<>>, f)
    BY DEF Flush
<1>3. Len(b) < MaxChars /\ Len(b) \in Nat /\ MaxChars \in Nat
    BY <1>1, CutFacts, TextAssumption DEF Text
<1> HIDE DEF b, f
<1>4. /\ Sentence(b) \in Seq(Text)
      /\ \A i \in DOMAIN Sentence(b) : Sentence(b)[i] = Strip(b) /\ Strip(b) # <<>>
    BY <1>1, SentenceType
<1>5. Strip(b) # <<>> => Fine(Strip(b))
    <2>1. Strip(b) \in Text /\ Len(Strip(b)) <= Len(b) /\ Len(Strip(b)) \in Nat
        BY <1>1, StripType DEF Text
    <2>2. ~ (Len(Strip(b)) > MaxChars)
        BY <1>3, <2>1
    <2> QED
        BY <2>2 DEF Fine
<1>6. Spoken[Sentence(b)] = Letters[b]
    BY <1>1, SpokenOne
<1>7. /\ Buffer(<<>>, f) \in Buffers /\ Buffer(<<>>, f).text = <<>>
      /\ Buffer(<<>>, f).first = f /\ CutAt(<<>>, f) = 0
    BY <1>1, EmptyBuffer
<1> QED
    BY <1>1, <1>2, <1>4, <1>5, <1>6, <1>7 DEF b

\* The sentence buffer as it stands between frames.
LEMMA BufferBetween ==
    ASSUME TextTypeOK
    PROVE  /\ Buffer(buf, first) \in Buffers
           /\ Buffer(buf, first).text = buf /\ Buffer(buf, first).first = first
           /\ CutAt(buf, first) = 0
           /\ buf \in Text /\ accepted \in Text /\ chunks \in Text /\ tq \in Seq(Text)
BY DEF TextTypeOK, Buffer, Buffers, Text

\* So does flush() alone.
LEMMA FlushDelivers ==
    ASSUME TextTypeOK
    PROVE  /\ Delivers(Flush(Buffer(buf, first)), <<>>)
           /\ Flush(Buffer(buf, first)).left.text = <<>>
<1> DEFINE s == Buffer(buf, first)
<1>1. s \in Buffers /\ s.text = buf /\ CutAt(s.text, s.first) = 0 /\ buf \in Text
    BY BufferBetween
<1> HIDE DEF s
<1> DEFINE r == Flush(s)
<1>2. /\ r.out \in Seq(Text) /\ \A i \in DOMAIN r.out : Fine(r.out[i])
      /\ r.left \in Buffers /\ r.left.text = <<>> /\ r.left.first \in BOOLEAN
      /\ CutAt(r.left.text, r.left.first) = 0
      /\ Spoken[r.out] = Letters[s.text]
    BY <1>1, FlushFacts
<1> HIDE DEF r
<1>3. Letters[<<>>] = <<>> /\ Letters[buf] \in Text /\ <<>> \in Text
    BY <1>1, LettersFacts, EmptySeq DEF Text
<1>4. Spoken[r.out] \o Letters[r.left.text] = Letters[buf] \o Letters[<<>>]
    BY <1>1, <1>2, <1>3
<1>5. Delivers(r, <<>>)
    BY <1>2, <1>3, <1>4 DEF Delivers
<1> QED
    BY <1>2, <1>5 DEF r, s

\* And push() followed by flush().
LEMMA PushFlushDelivers ==
    ASSUME TextTypeOK, NEW t \in Text
    PROVE  Delivers([Flush(Push(t).left) EXCEPT !.out = Push(t).out \o @], t)
<1> DEFINE p == Push(t)
<1>1. Delivers(p, t)
    BY PushDelivers
<1> HIDE DEF p
<1> DEFINE f == Flush(p.left)
<1>2. p.left \in Buffers /\ CutAt(p.left.text, p.left.first) = 0 /\ p.left.text \in Text
    BY <1>1 DEF Delivers
<1>3. /\ f.out \in Seq(Text) /\ \A i \in DOMAIN f.out : Fine(f.out[i])
      /\ f.left \in Buffers /\ f.left.text = <<>> /\ f.left.first \in BOOLEAN
      /\ CutAt(f.left.text, f.left.first) = 0
      /\ Spoken[f.out] = Letters[p.left.text]
    BY <1>2, FlushFacts
<1> DEFINE r == [f EXCEPT !.out = p.out \o @]
<1>4. r.out = p.out \o f.out /\ r.left = f.left
    BY DEF Flush
<1> HIDE DEF r, f
<1>5. p.out \in Seq(Text) /\ \A i \in DOMAIN p.out : Fine(p.out[i])
    BY <1>1 DEF Delivers
<1>6. r.out \in Seq(Text) /\ \A i \in DOMAIN r.out : Fine(r.out[i])
    <2> DEFINE a == p.out
               b == f.out
    <2>1. a \in Seq(Text) /\ b \in Seq(Text)
            /\ (\A i \in DOMAIN a : Fine(a[i])) /\ (\A i \in DOMAIN b : Fine(b[i]))
        BY <1>3, <1>5
    <2>2. r.out = a \o b
        BY <1>4
    <2> HIDE DEF a, b
    <2>3. \A i \in DOMAIN (a \o b) : Fine((a \o b)[i])
        BY <2>1
    <2> QED
        BY <2>1, <2>2, <2>3
<1>7. Spoken[r.out] = Spoken[p.out] \o Letters[p.left.text]
    BY <1>3, <1>4, <1>5, SpokenFacts
<1>8. Spoken[r.out] \o Letters[r.left.text] = Letters[buf] \o Letters[t]
    <2>1. Spoken[r.out] = Letters[buf] \o Letters[t]
        BY <1>1, <1>7 DEF Delivers
    <2>2. Spoken[r.out] \in Text /\ Letters[<<>>] = <<>>
        BY <1>6, SpokenFacts, LettersFacts
    <2>3. Spoken[r.out] \o <<>> = Spoken[r.out]
        BY <2>2, ConcatEmptySeq DEF Text
    <2> QED
        BY <1>3, <1>4, <2>1, <2>2, <2>3
<1>9. <<>> \in Text
    BY EmptySeq DEF Text
<1>10. Delivers(r, t)
    BY <1>3, <1>4, <1>6, <1>8, <1>9 DEF Delivers
<1> QED
    BY <1>10 DEF r, f, p

\* What is behind a put: the items in order, cut off at maxsize, in which case
\* the session closes (app.py:991-1052).
LEMMA PutFacts ==
    ASSUME tq \in Seq(Text), NEW items \in Seq(Text), NEW ok, PutAll(items, ok)
    PROVE  /\ tq' \in Seq(Text) /\ Len(tq') <= TextCap
           /\ \A i \in DOMAIN tq' : i \in DOMAIN (tq \o items) /\ tq'[i] = (tq \o items)[i]
           /\ \/ state' = ok /\ tq' = tq \o items
              \/ state' = "closing" /\ Len(tq') < Len(tq \o items)
<1> DEFINE q == tq \o items
<1>1. /\ q \in Seq(Text) /\ Len(q) = Len(tq) + Len(items)
      /\ Len(q) \in Nat /\ TextCap \in Nat
    BY ConcatProperties, TextAssumption
<1>2. CASE Len(q) <= TextCap /\ tq' = q /\ state' = ok
    BY <1>1, <1>2
<1>3. CASE Len(q) > TextCap /\ tq' = SubSeq(q, 1, TextCap) /\ state' = "closing"
    <2>1. /\ SubSeq(q, 1, TextCap) \in Seq(Text) /\ Len(SubSeq(q, 1, TextCap)) = TextCap
          /\ \A i \in 1..TextCap : i \in DOMAIN q /\ SubSeq(q, 1, TextCap)[i] = q[i]
        <3> HIDE DEF q
        <3> QED
            BY <1>1, <1>3
    <2> HIDE DEF q
    <2> QED
        BY <1>1, <1>3, <2>1 DEF q
<1> QED
    BY <1>1, <1>2, <1>3 DEF PutAll

\* Three texts are joined either way.
Joined(a, b, c) == (a \o b) \o c = a \o (b \o c)

LEMMA JoinedText == \A a, b, c \in Text : Joined(a, b, c)
<1> SUFFICES ASSUME NEW a \in Text, NEW b \in Text, NEW c \in Text PROVE Joined(a, b, c)
    OBVIOUS
<1>1. a \in Seq(Chars) /\ b \in Seq(Chars) /\ c \in Seq(Chars)
    BY DEF Text
<1> QED
    BY <1>1, ConcatAssociative DEF Joined

\* What is gathered, queued and buffered is regrouped when sentences c leave the
\* buffer that held u and took v, and d stays in it.
Regrouped(a, b, c, d, u, v) ==
    c \o d = u \o v => a \o ((b \o c) \o d) = (a \o (b \o u)) \o v

LEMMA Regroup == \A a, b, c, d, u, v \in Text : Regrouped(a, b, c, d, u, v)
<1> SUFFICES ASSUME NEW a \in Text, NEW b \in Text, NEW c \in Text, NEW d \in Text,
                    NEW u \in Text, NEW v \in Text, c \o d = u \o v
             PROVE  a \o ((b \o c) \o d) = (a \o (b \o u)) \o v
    BY DEF Regrouped
<1> DEFINE w == c \o d
           x == b \o u
<1>1. x \in Text
    BY ConcatProperties DEF Text
<1>2. w = u \o v
    OBVIOUS
<1> HIDE DEF x
<1>3. Joined(b, c, d) /\ Joined(b, u, v) /\ Joined(a, x, v)
    BY <1>1, JoinedText
<1>4. (b \o c) \o d = b \o w
    BY <1>3 DEF Joined
<1>5. x \o v = b \o w
    BY <1>2, <1>3 DEF Joined, x
<1>6. (a \o x) \o v = a \o (x \o v)
    BY <1>3 DEF Joined
<1> HIDE DEF w
<1> QED
    BY <1>4, <1>5, <1>6 DEF x

\* Before tts.end there is no end marker in the queue.
LEMMA NoEndYet ==
    ASSUME TextInv, state = "started"
    PROVE  /\ \A i \in DOMAIN tq : tq[i] # END
           /\ epc \in {"queued", "gather"}
           /\ Letters[chunks] \o (Spoken[tq] \o Letters[buf]) = Letters[accepted]
BY DEF TextInv, EndIsLast, Phases, NothingLost

\* What frames do to the part of the invariant that the items put decide.
Kept ==
    /\ Phases' /\ EndIsLast' /\ NothingLost' /\ AllFine' /\ PostsAllOrNothing'
    /\ buf' \in Seq(Chars) /\ CutAt(buf', first') = 0 /\ first' \in BOOLEAN
    /\ tq' \in Seq(Seq(Chars)) /\ Len(tq') <= TextCap
    /\ emitted' \in Seq(Seq(Chars)) /\ accepted' \in Seq(Chars)
    /\ state' \in {"started", "ending", "closing"}

\* A frame with text t, or one that only flushes.
LEMMA EmitText ==
    ASSUME TextInv, state = "started", NEW t \in Text, NEW r, Delivers(r, t),
           Emit(r, r.out, "started"), accepted' = accepted \o t,
           UNCHANGED <<epc, chunks>>
    PROVE  Kept
<1> DEFINE o == r.out
           l == r.left.text
<1>1. /\ o \in Seq(Text) /\ \A i \in DOMAIN o : Fine(o[i])
      /\ l \in Text /\ r.left.first \in BOOLEAN /\ CutAt(l, r.left.first) = 0
      /\ Spoken[o] \o Letters[l] = Letters[buf] \o Letters[t]
    BY DEF Delivers
<1>2. PutAll(o, "started") /\ buf' = l /\ first' = r.left.first /\ emitted' = emitted \o o
    BY DEF Emit
<1>3. /\ tq \in Seq(Text) /\ buf \in Text /\ chunks \in Text /\ accepted \in Text
      /\ emitted \in Seq(Text)
    BY DEF TextInv, TextTypeOK, Text
<1> HIDE DEF o, l
<1>4. /\ tq' \in Seq(Text) /\ Len(tq') <= TextCap
      /\ \A i \in DOMAIN tq' : i \in DOMAIN (tq \o o) /\ tq'[i] = (tq \o o)[i]
      /\ \/ state' = "started" /\ tq' = tq \o o
         \/ state' = "closing" /\ Len(tq') < Len(tq \o o)
    BY <1>1, <1>2, <1>3, PutFacts
<1>5. \A i \in DOMAIN tq' : tq'[i] # END
    <2>1. \A i \in DOMAIN tq : tq[i] # END
        BY NoEndYet
    <2>2. \A i \in DOMAIN o : o[i] # END
        BY <1>1 DEF Fine, END
    <2>3. \A i \in DOMAIN (tq \o o) : (tq \o o)[i] # END
        BY <1>1, <1>3, <2>1, <2>2
    <2> QED
        BY <1>4, <2>3
<1>6. epc' \in {"queued", "gather"} /\ epc' = epc /\ chunks' = chunks
    BY NoEndYet
<1>7. Phases' /\ EndIsLast' /\ PostsAllOrNothing'
    BY <1>4, <1>5, <1>6 DEF Phases, EndIsLast, PostsAllOrNothing
<1>8. ~ HasEnd'
    BY <1>5 DEF HasEnd
<1>9. ASSUME state' = "started"
      PROVE  Letters[chunks'] \o (Spoken[tq'] \o Letters[buf']) = Letters[accepted']
    <2>1. Letters[chunks] \o (Spoken[tq] \o Letters[buf]) = Letters[accepted]
        BY NoEndYet
    <2>2. tq' = tq \o o
        BY <1>4, <1>9
    <2>3. Spoken[tq'] = Spoken[tq] \o Spoken[o] /\ Letters[accepted'] = Letters[accepted] \o Letters[t]
        BY <1>1, <1>3, <2>2, SpokenFacts, LettersFacts
    <2>4. /\ Letters[chunks] \in Text /\ Spoken[tq] \in Text /\ Spoken[o] \in Text
          /\ Letters[l] \in Text /\ Letters[buf] \in Text /\ Letters[t] \in Text
        BY <1>1, <1>3, SpokenFacts, LettersFacts
    <2>5. Letters[chunks] \o ((Spoken[tq] \o Spoken[o]) \o Letters[l])
              = (Letters[chunks] \o (Spoken[tq] \o Letters[buf])) \o Letters[t]
        <3>1. Regrouped(Letters[chunks], Spoken[tq], Spoken[o], Letters[l],
                        Letters[buf], Letters[t])
            BY <2>4, Regroup
        <3> QED
            BY <1>1, <3>1 DEF Regrouped
    <2> QED
        BY <1>2, <1>6, <2>1, <2>3, <2>5
<1>10. NothingLost'
    BY <1>8, <1>9 DEF NothingLost
<1>11. AllFine' /\ emitted' \in Seq(Text)
    <2>1. \A i \in DOMAIN emitted : Fine(emitted[i])
        BY DEF TextInv, AllFine
    <2>2. \A i \in DOMAIN (emitted \o o) : Fine((emitted \o o)[i])
        BY <1>1, <1>3, <2>1
    <2> QED
        BY <1>1, <1>2, <1>3, <2>2 DEF AllFine
<1>12. accepted' \in Seq(Chars)
    BY <1>3 DEF Text
<1> QED
    BY <1>1, <1>2, <1>4, <1>7, <1>10, <1>11, <1>12 DEF Kept, Text

\* tts.end, which flushes and puts the end marker.
LEMMA EmitEnd ==
    ASSUME TextInv, state = "started", NEW r, Delivers(r, <<>>), r.left.text = <<>>,
           Emit(r, Append(r.out, END), "ending"), UNCHANGED <<epc, chunks, accepted>>
    PROVE  Kept
<1> DEFINE o == r.out
           items == Append(o, END)
<1>1. /\ o \in Seq(Text) /\ \A i \in DOMAIN o : Fine(o[i])
      /\ <<>> \in Text /\ r.left.first \in BOOLEAN /\ CutAt(<<>>, r.left.first) = 0
      /\ Spoken[o] \o Letters[<<>>] = Letters[buf] \o Letters[<<>>]
    BY DEF Delivers
<1>2. /\ PutAll(items, "ending") /\ buf' = <<>> /\ first' = r.left.first
      /\ emitted' = emitted \o o
    BY DEF Emit
<1>3. /\ tq \in Seq(Text) /\ buf \in Text /\ chunks \in Text /\ accepted \in Text
      /\ emitted \in Seq(Text)
    BY DEF TextInv, TextTypeOK, Text
<1> HIDE DEF o
<1>4. /\ items \in Seq(Text) /\ items = o \o <<END>> /\ <<END>> \in Seq(Text)
      /\ \A i \in DOMAIN items : items[i] = END <=> i = Len(items)
    <2>1. <<END>> \in Seq(Text) /\ items \in Seq(Text) /\ items = o \o <<END>>
        BY <1>1 DEF END
    <2>2. \A i \in DOMAIN o : o[i] # END
        BY <1>1 DEF Fine, END
    <2>3. /\ Len(items) = Len(o) + 1 /\ Len(o) \in Nat
          /\ DOMAIN items = 1..(Len(o) + 1) /\ DOMAIN o = 1..Len(o)
          /\ items[Len(o) + 1] = END /\ \A i \in 1..Len(o) : items[i] = o[i]
        BY <1>1
    <2> HIDE DEF items
    <2> QED
        BY <2>1, <2>2, <2>3
<1> HIDE DEF items
<1> DEFINE q == tq \o items
<1>5. /\ tq' \in Seq(Text) /\ Len(tq') <= TextCap
      /\ \A i \in DOMAIN tq' : i \in DOMAIN q /\ tq'[i] = q[i]
      /\ \/ state' = "ending" /\ tq' = q
         \/ state' = "closing" /\ Len(tq') < Len(q)
    BY <1>2, <1>3, <1>4, PutFacts
<1>6. q \in Seq(Text) /\ \A i \in DOMAIN q : q[i] = END <=> i = Len(q)
    <2>1. \A i \in DOMAIN tq : tq[i] # END
        BY NoEndYet
    <2>2. /\ q \in Seq(Text) /\ Len(q) = Len(tq) + Len(items)
          /\ Len(tq) \in Nat /\ Len(items) \in Nat
          /\ DOMAIN q = 1..(Len(tq) + Len(items))
          /\ DOMAIN tq = 1..Len(tq) /\ DOMAIN items = 1..Len(items)
          /\ \A i \in 1..Len(tq) : q[i] = tq[i]
          /\ \A i \in 1..Len(items) : q[Len(tq) + i] = items[i]
        BY <1>3, <1>4
    <2>3. Len(items) # 0
        BY <1>1, <1>4
    <2> HIDE DEF q
    <2>4. ASSUME NEW i \in DOMAIN q PROVE q[i] = END <=> i = Len(q)
        <3>1. CASE i <= Len(tq)
            BY <2>1, <2>2, <2>3, <3>1
        <3>2. CASE i > Len(tq)
            <4>1. i - Len(tq) \in 1..Len(items) /\ Len(tq) + (i - Len(tq)) = i
                BY <2>2, <3>2
            <4>2. q[i] = items[i - Len(tq)]
                BY <2>2, <4>1
            <4>3. items[i - Len(tq)] = END <=> i - Len(tq) = Len(items)
                BY <1>4, <2>2, <4>1
            <4> QED
                BY <2>2, <4>1, <4>2, <4>3
        <3> QED
            BY <2>2, <3>1, <3>2
    <2> QED
        BY <2>2, <2>4
<1> HIDE DEF q
<1>7. EndIsLast' /\ (HasEnd' => state' = "ending" /\ tq' = q)
    <2>1. DOMAIN tq' = 1..Len(tq') /\ DOMAIN q = 1..Len(q) /\ Len(tq') \in Nat /\ Len(q) \in Nat
        BY <1>5, <1>6
    <2>2. CASE state' = "ending" /\ tq' = q
        BY <1>6, <2>2 DEF EndIsLast, HasEnd
    <2>3. CASE state' = "closing" /\ Len(tq') < Len(q)
        <3>1. \A i \in DOMAIN tq' : tq'[i] # END
            BY <1>5, <1>6, <2>1, <2>3
        <3> QED
            BY <3>1 DEF EndIsLast, HasEnd
    <2> QED
        BY <1>5, <2>2, <2>3
<1>8. epc' \in {"queued", "gather"} /\ epc' = epc /\ chunks' = chunks /\ accepted' = accepted
    BY NoEndYet
<1>9. Phases' /\ PostsAllOrNothing' /\ state' \in {"ending", "closing"}
    BY <1>5, <1>8 DEF Phases, PostsAllOrNothing
<1>10. ASSUME HasEnd' PROVE Letters[chunks'] \o Spoken[tq'] = Letters[accepted']
    <2>1. Letters[chunks] \o (Spoken[tq] \o Letters[buf]) = Letters[accepted]
        BY NoEndYet
    <2>2. Letters[<<>>] = <<>> /\ Letters[buf] \in Text /\ Spoken[o] \in Text /\ Spoken[tq] \in Text
        BY <1>1, <1>3, LettersFacts, SpokenFacts
    <2>3. Spoken[o] = Letters[buf]
        <3>1. Spoken[o] \o <<>> = Spoken[o] /\ Letters[buf] \o <<>> = Letters[buf]
            BY <2>2, ConcatEmptySeq DEF Text
        <3> QED
            BY <1>1, <2>2, <3>1
    <2>4. Spoken[<<END>>] = <<>>
        BY <1>1, <2>2, SpokenOne DEF END
    <2>5. Spoken[items] = Letters[buf]
        <3>1. Spoken[o \o <<END>>] = Spoken[o] \o Spoken[<<END>>]
            BY <1>1, <1>4, SpokenFacts
        <3>2. Spoken[o] \o <<>> = Spoken[o]
            BY <2>2, ConcatEmptySeq DEF Text
        <3> QED
            BY <1>4, <2>3, <2>4, <3>1, <3>2
    <2>6. Spoken[q] = Spoken[tq] \o Letters[buf]
        BY <1>3, <1>4, <2>5, SpokenFacts DEF q
    <2> QED
        BY <1>7, <1>8, <1>10, <2>1, <2>6
<1>11. NothingLost'
    BY <1>9, <1>10 DEF NothingLost
<1>12. AllFine' /\ emitted' \in Seq(Text)
    <2>1. \A i \in DOMAIN emitted : Fine(emitted[i])
        BY DEF TextInv, AllFine
    <2>2. \A i \in DOMAIN (emitted \o o) : Fine((emitted \o o)[i])
        BY <1>1, <1>3, <2>1
    <2> QED
        BY <1>1, <1>2, <1>3, <2>2 DEF AllFine
<1> QED
    BY <1>1, <1>2, <1>3, <1>5, <1>7, <1>8, <1>9, <1>11, <1>12 DEF Kept, Text

\* Where push() cuts does not depend on the frames that brought the text.
LEMMA PushAsOneFrame ==
    ASSUME TextTypeOK, AsOneFrame, NEW t \in Text,
           buf' = Push(t).left.text, first' = Push(t).left.first,
           emitted' = emitted \o Push(t).out, accepted' = accepted \o t,
           plain' = (plain /\ ~ Push(t).capped)
    PROVE  AsOneFrame'
<1> SUFFICES ASSUME plain'
             PROVE  /\ emitted' = Pieces[Buffer(accepted', TRUE)].out
                    /\ Buffer(buf', first') = Pieces[Buffer(accepted', TRUE)].left
                    /\ ~ Pieces[Buffer(accepted', TRUE)].capped
    BY DEF AsOneFrame
<1> DEFINE s == Buffer(accepted, TRUE)
           p == Push(t)
<1>1. plain /\ ~ p.capped
    OBVIOUS
<1>2. emitted = Pieces[s].out /\ Buffer(buf, first) = Pieces[s].left /\ ~ Pieces[s].capped
    BY <1>1 DEF AsOneFrame
<1>3. s \in Buffers /\ s.text = accepted /\ s.first = TRUE
    BY BufferBetween DEF Buffer, Buffers, Text
<1>4. Longer(s, t) = Buffer(accepted', TRUE)
    BY <1>3 DEF Longer
<1>5. p = Pieces[Longer(Pieces[s].left, t)]
    BY <1>2, BufferBetween DEF Longer, Push
<1>6. p.left \in Buffers /\ p.capped \in BOOLEAN
    BY PushDelivers DEF Results
<1>7. Buffer(buf', first') = p.left
    BY <1>6 DEF Buffer, Buffers
<1> HIDE DEF s, p
<1> DEFINE q == Pieces[Longer(s, t)]
<1>8. q.out = Pieces[s].out \o p.out /\ q.left = p.left /\ q.capped = p.capped
    BY <1>2, <1>3, <1>5, PiecesSplit
<1>9. emitted' = emitted \o p.out
    BY DEF p
<1> QED
    BY <1>1, <1>2, <1>4, <1>7, <1>8, <1>9

\* The initial state satisfies the invariant.
LEMMA TextInvInit == TextInit => TextInv
<1> SUFFICES ASSUME TextInit PROVE TextInv
    OBVIOUS
<1>1. /\ CutAt(<<>>, TRUE) = 0
      /\ Pieces[Buffer(<<>>, TRUE)].out = <<>>
      /\ Pieces[Buffer(<<>>, TRUE)].left = Buffer(<<>>, TRUE)
      /\ ~ Pieces[Buffer(<<>>, TRUE)].capped
    BY EmptyBuffer
<1>2. TextTypeOK
    <2>1. <<>> \in Seq(Chars) /\ <<>> \in Seq(Seq(Chars)) /\ Len(<<>>) <= TextCap
        BY TextAssumption, EmptySeq
    <2>2. CutAt(buf, first) = 0
        BY <1>1 DEF TextInit
    <2> QED
        BY <2>1, <2>2 DEF TextInit, TextTypeOK
<1>3. Phases /\ EndIsLast /\ NothingLost /\ PostsAllOrNothing /\ AllFine
    BY DEF TextInit, Phases, EndIsLast, NothingLost, HasEnd, PostsAllOrNothing, AllFine
<1>4. AsOneFrame
    BY <1>1 DEF TextInit, AsOneFrame
<1> QED
    BY <1>2, <1>3, <1>4 DEF TextInv

\* A step that takes no frame leaves what concerns the buffer alone.
LEMMA BufferAlone ==
    ASSUME TextInv, UNCHANGED <<buf, first, accepted, emitted, plain>>
    PROVE  AsOneFrame' /\ AllFine'
BY DEF TextInv, AsOneFrame, AllFine

\* So do the engine's steps on the queue.
LEMMA EngineSteps ==
    ASSUME TextInv, Granted \/ Gathers \/ Posts
    PROVE  TextInv'
<1>1. AsOneFrame' /\ AllFine'
    BY BufferAlone DEF Granted, Gathers, Posts
<1>2. /\ tq \in Seq(Text) /\ buf \in Text /\ chunks \in Text /\ accepted \in Text
      /\ Len(tq) \in Nat /\ Len(tq) <= TextCap /\ TextCap \in Nat
    BY TextAssumption DEF TextInv, TextTypeOK, Text
<1>3. ASSUME tq # <<>>
      PROVE  /\ Head(tq) \in Text /\ Tail(tq) \in Seq(Text) /\ Head(tq) = tq[1]
             /\ Len(Tail(tq)) = Len(tq) - 1 /\ Len(tq) > 0
             /\ DOMAIN tq = 1..Len(tq) /\ DOMAIN Tail(tq) = 1..(Len(tq) - 1)
             /\ \A i \in 1..(Len(tq) - 1) : Tail(tq)[i] = tq[i + 1]
    BY <1>2, <1>3
<1>4. CASE Granted
    <2>1. TextTypeOK'
        BY <1>4 DEF TextInv, TextTypeOK, Granted, Over
    <2>2. Phases' /\ EndIsLast' /\ NothingLost' /\ PostsAllOrNothing'
        BY <1>4 DEF TextInv, Phases, EndIsLast, NothingLost, HasEnd,
                    PostsAllOrNothing, Granted
    <2> QED
        BY <1>1, <2>1, <2>2 DEF TextInv
<1>5. CASE Gathers
    <2> DEFINE h == Head(tq)
               r == Tail(tq)
    <2>1. /\ epc = "gather" /\ tq # <<>> /\ h # END
          /\ chunks' = chunks \o h /\ tq' = r
          /\ UNCHANGED <<state, buf, first, epc, accepted, emitted, plain>>
        BY <1>5 DEF Gathers
    <2>2. h \in Text /\ r \in Seq(Text) /\ chunks' \in Text
        BY <1>2, <1>3, <2>1, ConcatProperties DEF Text
    <2>3. TextTypeOK'
        <3>1. Len(r) <= TextCap
            BY <1>2, <1>3, <2>1
        <3> HIDE DEF r, h
        <3> QED
            BY <2>1, <2>2, <3>1 DEF TextInv, TextTypeOK, Text
    <2>4. Phases' /\ PostsAllOrNothing'
        <3>1. state \notin {"connected", "rejected", "authenticated"}
            BY <2>1 DEF TextInv, Phases
        <3> HIDE DEF r, h
        <3> QED
            BY <2>1, <3>1 DEF TextInv, Phases, PostsAllOrNothing
    <2>5. EndIsLast' /\ (HasEnd' => HasEnd)
        <3>1. \A i \in DOMAIN r : i + 1 \in DOMAIN tq /\ r[i] = tq[i + 1]
            BY <1>2, <1>3, <2>1
        <3>2. \A i \in DOMAIN r : i \in Int /\ Len(r) = Len(tq) - 1
            BY <1>2, <1>3, <2>1
        <3>3. \A i \in DOMAIN tq : tq[i] = END => i = Len(tq) /\ state \in {"ending", "closing"}
            BY DEF TextInv, EndIsLast
        <3> HIDE DEF r, h
        <3>4. \A i \in DOMAIN r : r[i] = END => i = Len(r) /\ state \in {"ending", "closing"}
            BY <1>2, <3>1, <3>2, <3>3
        <3> QED
            BY <2>1, <3>1, <3>4 DEF EndIsLast, HasEnd
    <2>6. Spoken[tq] = Letters[h] \o Spoken[r] /\ Letters[chunks'] = Letters[chunks] \o Letters[h]
        BY <1>2, <2>1, <2>2, SpokenFacts, LettersFacts
    <2>7. /\ Letters[chunks] \in Text /\ Letters[h] \in Text /\ Spoken[r] \in Text
          /\ Letters[buf] \in Text
        BY <1>2, <2>2, SpokenFacts, LettersFacts
    <2> DEFINE a == Letters[chunks]
               b == Letters[h]
               c == Spoken[r]
               d == Letters[buf]
    <2>8. Joined(a, b, c) /\ Joined(b, c, d) /\ c \o d \in Text
        BY <2>7, JoinedText, ConcatProperties DEF Text
    <2> HIDE DEF a, b, c, d
    <2>9. a \in Text /\ b \in Text
        BY <2>7 DEF a, b
    <2>10. Joined(a, b, c \o d)
        BY <2>8, <2>9, JoinedText
    <2>11. NothingLost'
        <3>1. ASSUME state = "started"
              PROVE  Letters[chunks'] \o (Spoken[r] \o Letters[buf]) = Letters[accepted]
            <4>1. a \o ((b \o c) \o d) = Letters[accepted]
                BY <2>1, <2>6, <3>1 DEF TextInv, NothingLost, a, b, c, d
            <4>2. (b \o c) \o d = b \o (c \o d)
                BY <2>8 DEF Joined
            <4>3. (a \o b) \o (c \o d) = a \o (b \o (c \o d))
                BY <2>10 DEF Joined
            <4>4. (a \o b) \o (c \o d) = Letters[accepted]
                BY <4>1, <4>2, <4>3
            <4> QED
                BY <2>6, <4>4 DEF a, b, c, d
        <3>2. ASSUME HasEnd
              PROVE  Letters[chunks'] \o Spoken[r] = Letters[accepted]
            <4>1. a \o (b \o c) = Letters[accepted]
                BY <2>1, <2>6, <3>2 DEF TextInv, NothingLost, a, b, c
            <4>2. (a \o b) \o c = a \o (b \o c)
                BY <2>8 DEF Joined
            <4> QED
                BY <2>6, <4>1, <4>2 DEF a, b, c
        <3> HIDE DEF r, h
        <3> QED
            BY <2>1, <2>5, <3>1, <3>2 DEF NothingLost
    <2> QED
        BY <1>1, <2>3, <2>4, <2>5, <2>11 DEF TextInv
<1>6. CASE Posts
    <2>1. /\ epc = "gather" /\ tq # <<>> /\ Head(tq) = END
          /\ tq' = Tail(tq) /\ chunks' = Strip(chunks)
          /\ epc' = IF Blank(chunks) THEN "silent" ELSE "posted"
          /\ UNCHANGED <<state, buf, first, accepted, emitted, plain>>
        BY <1>6 DEF Posts
    <2>2. Len(tq) = 1 /\ HasEnd /\ state \in {"ending", "closing"}
        <3>1. 1 \in DOMAIN tq /\ tq[1] = END
            BY <1>2, <1>3, <2>1
        <3> QED
            BY <3>1 DEF TextInv, EndIsLast, HasEnd
    <2>3. Tail(tq) = <<>>
        BY <1>2, <1>3, <2>1, <2>2, EmptySeq
    <2>4. Letters[chunks] = Letters[accepted]
        <3>1. Letters[chunks] \o Spoken[tq] = Letters[accepted]
            BY <2>1, <2>2 DEF TextInv, NothingLost
        <3>2. Spoken[tq] = Letters[END] \o Spoken[<<>>]
            BY <1>2, <2>1, <2>3, SpokenFacts
        <3>3. Letters[END] = <<>> /\ Spoken[<<>>] = <<>> /\ Letters[chunks] \in Text
            BY <1>2, LettersFacts, SpokenFacts DEF END
        <3>4. Letters[chunks] \o <<>> = Letters[chunks]
            BY <3>3, ConcatEmptySeq DEF Text
        <3>5. <<>> \o <<>> = <<>>
            BY ConcatEmptySeq, EmptySeq DEF Text
        <3> QED
            BY <3>1, <3>2, <3>3, <3>4, <3>5
    <2>5. Letters[chunks'] = Letters[accepted'] /\ chunks' \in Text
        BY <1>2, <2>1, <2>4, LettersStrip, StripType
    <2>6. Blank(chunks) => Blank(accepted')
        BY <1>2, <2>1, <2>4, LettersBlank
    <2>7. PostsAllOrNothing'
        BY <2>1, <2>5, <2>6 DEF PostsAllOrNothing
    <2>8. TextTypeOK'
        BY <1>2, <2>1, <2>3, <2>5, EmptySeq DEF TextInv, TextTypeOK, Over, Text
    <2>9. Phases' /\ EndIsLast' /\ NothingLost'
        BY <2>1, <2>2, <2>3 DEF TextInv, Phases, EndIsLast, NothingLost
    <2> QED
        BY <1>1, <2>7, <2>8, <2>9 DEF TextInv
<1> QED
    BY <1>4, <1>5, <1>6

\* Between frames only the phase of the session and of run_tts moves.
LEMMA PhaseSteps ==
    ASSUME TextInv, Authenticates \/ ReceiveStart \/ Closes \/ Stops
    PROVE  TextInv'
<1>1. /\ UNCHANGED <<buf, first, tq, chunks, accepted, emitted, plain>>
      /\ AsOneFrame' /\ AllFine'
    BY BufferAlone DEF Authenticates, ReceiveStart, Closes, Stops
<1>2. TextTypeOK'
    <2>1. /\ state' \in {"connected", "rejected", "authenticated", "started", "ending", "closing"}
          /\ epc' \in {"off", "queued", "gather"} \cup Over
        BY DEF TextInv, TextTypeOK, Authenticates, ReceiveStart, Closes, Stops, Over
    <2> QED
        BY <1>1, <2>1 DEF TextInv, TextTypeOK
<1>3. CASE Authenticates
    <2>1. /\ epc = "off" /\ epc' = "off" /\ state' \in {"authenticated", "rejected"}
          /\ buf = <<>> /\ tq = <<>> /\ chunks = <<>> /\ accepted = <<>>
        BY <1>3 DEF TextInv, Phases, Authenticates
    <2>2. Phases' /\ EndIsLast' /\ NothingLost' /\ PostsAllOrNothing'
        BY <1>1, <2>1 DEF Phases, EndIsLast, NothingLost, PostsAllOrNothing
    <2> QED
        BY <1>1, <1>2, <2>2 DEF TextInv
<1>4. CASE ReceiveStart
    <2>1. /\ epc' = "queued" /\ state' = "started"
          /\ buf = <<>> /\ tq = <<>> /\ chunks = <<>> /\ accepted = <<>>
        BY <1>4 DEF TextInv, Phases, ReceiveStart
    <2>2. Phases' /\ EndIsLast' /\ ~ HasEnd' /\ PostsAllOrNothing'
        BY <1>1, <2>1 DEF Phases, EndIsLast, HasEnd, PostsAllOrNothing
    <2>3. Letters[chunks'] \o (Spoken[tq'] \o Letters[buf']) = Letters[accepted']
        <3>1. Letters[<<>>] = <<>> /\ Spoken[<<>>] = <<>>
            BY LettersFacts, SpokenFacts
        <3>2. <<>> \o (<<>> \o <<>>) = <<>>
            BY ConcatEmptySeq, EmptySeq DEF Text
        <3> QED
            BY <1>1, <2>1, <3>1, <3>2
    <2>4. NothingLost'
        BY <2>2, <2>3 DEF NothingLost
    <2> QED
        BY <1>1, <1>2, <2>2, <2>4 DEF TextInv
<1>5. CASE Closes
    <2>1. state' = "closing" /\ epc' = epc
        BY <1>5 DEF Closes
    <2>2. Phases' /\ EndIsLast' /\ NothingLost' /\ PostsAllOrNothing'
        BY <1>1, <2>1 DEF TextInv, Phases, EndIsLast, NothingLost, HasEnd, PostsAllOrNothing
    <2> QED
        BY <1>1, <1>2, <2>2 DEF TextInv
<1>6. CASE Stops
    <2>1. state' = state /\ state = "closing" /\ epc' = "stopped"
        BY <1>6 DEF Stops
    <2>2. Phases' /\ EndIsLast' /\ NothingLost' /\ PostsAllOrNothing'
        BY <1>1, <2>1 DEF TextInv, Phases, EndIsLast, NothingLost, PostsAllOrNothing
    <2> QED
        BY <1>1, <1>2, <2>2 DEF TextInv
<1> QED
    BY <1>3, <1>4, <1>5, <1>6

\* What Kept leaves of the type invariant.
LEMMA KeptInv ==
    ASSUME TextInv, Kept, AsOneFrame', UNCHANGED <<epc, chunks>>, plain' \in BOOLEAN
    PROVE  TextInv'
<1>1. TextTypeOK'
    BY DEF TextInv, TextTypeOK, Kept
<1> QED
    BY <1>1 DEF TextInv, Kept

\* What a frame brings is a text.
LEMMA TextOfFrame == \A t \in Texts : t \in Text
BY DEF Texts, Text, SeqOf

\* The frames that bring text, flush, or end the text.
LEMMA FrameSteps ==
    ASSUME TextInv,
           \/ ReceiveFlush \/ ReceiveEnd
           \/ \E t \in Texts : ReceiveText(t) \/ ReceiveTextAndFlush(t)
    PROVE  TextInv'
<1>1. TextTypeOK /\ plain \in BOOLEAN /\ accepted \in Seq(Chars)
    BY DEF TextInv, TextTypeOK
<1>2. ASSUME ~ plain' PROVE AsOneFrame'
    BY <1>2 DEF AsOneFrame
<1>3. CASE ReceiveFlush
    <2> DEFINE f == Flush(Buffer(buf, first))
    <2>1. /\ state = "started" /\ Emit(f, f.out, "started") /\ plain' = FALSE
          /\ UNCHANGED <<epc, chunks>> /\ accepted' = accepted
        BY <1>3 DEF ReceiveFlush
    <2>2. Delivers(f, <<>>) /\ <<>> \in Text
        BY <1>1, FlushDelivers, EmptySeq DEF Text
    <2> HIDE DEF f
    <2>3. accepted' = accepted \o <<>>
        BY <1>1, <2>1, ConcatEmptySeq
    <2>4. Kept
        BY <2>1, <2>2, <2>3, EmitText
    <2> QED
        BY <1>2, <2>1, <2>4, KeptInv
<1>4. CASE ReceiveEnd
    <2> DEFINE f == Flush(Buffer(buf, first))
    <2>1. /\ state = "started" /\ Emit(f, Append(f.out, END), "ending") /\ plain' = FALSE
          /\ UNCHANGED <<epc, chunks, accepted>>
        BY <1>4 DEF ReceiveEnd
    <2>2. Delivers(f, <<>>) /\ f.left.text = <<>>
        BY <1>1, FlushDelivers
    <2> HIDE DEF f
    <2>3. Kept
        BY <2>1, <2>2, EmitEnd
    <2> QED
        BY <1>2, <2>1, <2>3, KeptInv
<1>5. ASSUME NEW t \in Texts, ReceiveText(t) PROVE TextInv'
    <2> DEFINE p == Push(t)
    <2>1. /\ state = "started" /\ Emit(p, p.out, "started") /\ plain' = (plain /\ ~ p.capped)
          /\ UNCHANGED <<epc, chunks>> /\ accepted' = accepted \o t
        BY <1>5 DEF ReceiveText
    <2>2. t \in Text
        BY TextOfFrame
    <2>3. p \in Results /\ Delivers(p, t)
        BY <1>1, <2>2, PushDelivers
    <2>4. plain' \in BOOLEAN
        BY <2>1
    <2>5. buf' = p.left.text /\ first' = p.left.first /\ emitted' = emitted \o p.out
        BY <2>1 DEF Emit
    <2>6. AsOneFrame'
        BY <1>1, <2>1, <2>2, <2>5, PushAsOneFrame DEF TextInv
    <2> HIDE DEF p
    <2>7. Kept
        BY <2>1, <2>2, <2>3, EmitText
    <2> QED
        BY <2>1, <2>4, <2>6, <2>7, KeptInv
<1>6. ASSUME NEW t \in Texts, ReceiveTextAndFlush(t) PROVE TextInv'
    <2> DEFINE r == [Flush(Push(t).left) EXCEPT !.out = Push(t).out \o @]
    <2>1. /\ state = "started" /\ Emit(r, r.out, "started") /\ plain' = FALSE
          /\ UNCHANGED <<epc, chunks>> /\ accepted' = accepted \o t
        BY <1>6 DEF ReceiveTextAndFlush
    <2>2. t \in Text
        BY TextOfFrame
    <2>3. Delivers(r, t)
        BY <1>1, <2>2, PushFlushDelivers
    <2> HIDE DEF r
    <2>4. Kept
        BY <2>1, <2>2, <2>3, EmitText
    <2> QED
        BY <1>2, <2>1, <2>4, KeptInv
<1> QED
    BY <1>3, <1>4, <1>5, <1>6

\* Every step keeps the invariant.
LEMMA TextInvStep == TextInv /\ [TextNext]_textVars => TextInv'
<1> SUFFICES ASSUME TextInv, [TextNext]_textVars PROVE TextInv'
    OBVIOUS
<1>1. CASE Authenticates \/ ReceiveStart \/ Closes \/ Stops
    BY <1>1, PhaseSteps
<1>2. CASE \/ ReceiveFlush \/ ReceiveEnd
           \/ \E t \in Texts : ReceiveText(t) \/ ReceiveTextAndFlush(t)
    BY <1>2, FrameSteps
<1>3. CASE Granted \/ Gathers \/ Posts
    BY <1>3, EngineSteps
<1>4. CASE Finished \/ UNCHANGED textVars
    <2>1. UNCHANGED <<state, buf, first, tq, epc, chunks, accepted, emitted, plain>>
        BY <1>4 DEF Finished, textVars
    <2>2. AsOneFrame' /\ AllFine'
        BY <2>1, BufferAlone
    <2>3. TextTypeOK' /\ Phases' /\ EndIsLast' /\ NothingLost' /\ PostsAllOrNothing'
        BY <2>1 DEF TextInv, TextTypeOK, Phases, EndIsLast, NothingLost, HasEnd,
                    PostsAllOrNothing
    <2> QED
        BY <2>2, <2>3 DEF TextInv
<1> QED
    BY <1>1, <1>2, <1>3, <1>4 DEF TextNext, ReceiveFrame

\* The invariant holds in every state of every behaviour.
THEOREM TextInvariance == TextSpec => []TextInv
<1>1. TextInit => TextInv
    BY TextInvInit
<1>2. TextInv /\ [TextNext]_textVars => TextInv'
    BY TextInvStep
<1> QED
    BY <1>1, <1>2, PTL DEF TextSpec

\* Types, and between frames the buffer holds no sentence that push() would
\* return: the queue stays within its maxsize (sentence_buffer.py:38-63).
THEOREM TextTypes == TextSpec => []TextTypeOK
<1>1. TextInv => TextTypeOK
    BY DEF TextInv
<1> QED
    BY <1>1, TextInvariance, PTL

\* For any thresholds, queue and texts, the engine posts all the text accepted or
\* nothing (app.py:930-1052, engine_vllm_omini.py:149-156).
THEOREM PostsWhole == TextSpec => []PostsAllOrNothing
<1>1. TextInv => PostsAllOrNothing
    BY DEF TextInv
<1> QED
    BY <1>1, TextInvariance, PTL

\* For any texts, where sentences end depends on the text alone and not on its
\* frames, as long as nothing was flushed and max_chars cut nothing
\* (sentence_buffer.py:38-63).
THEOREM FramingFree == TextSpec => []FramingIrrelevant
<1>1. TextInv => FramingIrrelevant
    BY DEF TextInv, AsOneFrame, FramingIrrelevant
<1> QED
    BY <1>1, TextInvariance, PTL

\* For any thresholds, a sentence longer than max_chars ends at its first strong
\* mark or at a weak one in front of it (sentence_buffer.py:45-59).
THEOREM OverlongAtMark == TextSpec => []OverlongEndsAtMark
<1>1. TextInv => OverlongEndsAtMark
    BY DEF TextInv, AllFine, Fine, OverlongEndsAtMark
<1> QED
    BY <1>1, TextInvariance, PTL

=============================================================================
