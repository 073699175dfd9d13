--------------------------- MODULE RecursionLemmas ---------------------------
(***************************************************************************)
(* Induction and recursion on a measure, stated over sets and functions    *)
(* instead of operators, so that each can be cited for what a recursive    *)
(* function computes.                                                      *)
(***************************************************************************)
EXTENDS Integers, Sequences, SequenceTheorems, WellFoundedInduction, TLAPS

\* A nonempty set of natural numbers has a least element.  An induction cites
\* it for the set of counterexamples.
LEMMA LeastNat ==
    ASSUME NEW T, T \subseteq Nat, T # {}
    PROVE  \E n \in T : \A k \in T : n <= k
<1>1. \A x, y \in Nat : x < y => <<x, y>> \in OpToRel(<, Nat)
    BY DEF OpToRel
<1>2. PICK n \in T : \A k \in T : <<k, n>> \notin OpToRel(<, Nat)
    BY NatLessThanWellFounded, WFMin
<1>3. \A k \in T : ~ (k < n)
    BY <1>1, <1>2
<1> QED
    BY <1>3

\* A nonempty bounded set of natural numbers has a greatest element.
LEMMA GreatestNat ==
    ASSUME NEW b \in Nat, NEW T, T \subseteq 0..b, T # {}
    PROVE  \E n \in T : \A k \in T : k <= n
<1> DEFINE Gaps == {k \in 0..b : b - k \in T}
<1>1. PICK g \in Gaps : \A k \in Gaps : g <= k
    <2>1. PICK n \in T : TRUE
        OBVIOUS
    <2>2. b - n \in Gaps
        BY <2>1
    <2>3. Gaps \subseteq Nat
        OBVIOUS
    <2> HIDE DEF Gaps
    <2> QED
        BY <2>2, <2>3, LeastNat
<1>2. b - g \in T
    OBVIOUS
<1>3. ASSUME NEW k \in T PROVE k <= b - g
    <2>1. b - k \in Gaps
        OBVIOUS
    <2> QED
        BY <2>1, <1>1
<1> QED
    BY <1>2, <1>3

\* Among the elements of a set that are smaller by measure m, one is least.
LEMMA LeastElement ==
    ASSUME NEW S, NEW m \in [S -> Nat], NEW T, T \subseteq S, T # {}
    PROVE  \E x \in T : \A y \in S : m[y] < m[x] => y \notin T
<1> DEFINE Sizes == {m[x] : x \in T}
<1>1. PICK n \in Sizes : \A k \in Sizes : n <= k
    <2>1. Sizes \subseteq Nat /\ Sizes # {}
        OBVIOUS
    <2> QED
        BY <2>1, LeastNat
<1>2. PICK x \in T : m[x] = n
    OBVIOUS
<1> QED
    BY <1>1, <1>2

\* Induction on measure m: T holds all of S if it holds each element whose
\* smaller ones it holds.
LEMMA MeasureInduction ==
    ASSUME NEW S, NEW m \in [S -> Nat], NEW T,
           \A x \in S : (\A y \in S : m[y] < m[x] => y \in T) => x \in T
    PROVE  S \subseteq T
<1> SUFFICES ASSUME S \ T # {} PROVE FALSE
    OBVIOUS
<1>1. PICK x \in S \ T : \A y \in S : m[y] < m[x] => y \notin S \ T
    <2> DEFINE U == S \ T
    <2>1. U \subseteq S /\ U # {}
        OBVIOUS
    <2> HIDE DEF U
    <2>2. \E x \in U : \A y \in S : m[y] < m[x] => y \notin U
        BY <2>1, LeastElement
    <2> QED
        BY <2>2 DEF U
<1> QED
    BY <1>1

\* Induction on sequences: T holds the empty one, and each whose tail it holds.
LEMMA TailInduction ==
    ASSUME NEW X, NEW T, <<>> \in T,
           \A s \in Seq(X) : s # <<>> /\ Tail(s) \in T => s \in T
    PROVE  Seq(X) \subseteq T
<1> DEFINE m == [s \in Seq(X) |-> Len(s)]
<1>1. m \in [Seq(X) -> Nat]
    OBVIOUS
<1>2. ASSUME NEW s \in Seq(X), \A r \in Seq(X) : m[r] < m[s] => r \in T
      PROVE  s \in T
    <2>1. CASE s # <<>>
        <3>1. Tail(s) \in Seq(X) /\ m[Tail(s)] < m[s]
            BY <2>1, HeadTailProperties, EmptySeq
        <3> QED
            BY <1>2, <2>1, <3>1
    <2> QED
        BY <2>1
<1>3. \A s \in Seq(X) : (\A r \in Seq(X) : m[r] < m[s] => r \in T) => s \in T
    BY <1>2
<1> DEFINE S == Seq(X)
<1> HIDE DEF m, S
<1>4. /\ m \in [S -> Nat]
      /\ \A s \in S : (\A r \in S : m[r] < m[s] => r \in T) => s \in T
    BY <1>1, <1>3 DEF S
<1>5. S \subseteq T
    BY <1>4, MeasureInduction
<1> QED
    BY <1>5 DEF S

\* D[<<x, g>>] depends on g at the elements only that are smaller than x.
Contracts(D, S, V, m) ==
    \A x \in S : \A g, h \in [S -> V] :
        (\A y \in S : m[y] < m[x] => g[y] = h[y]) => D[<<x, g>>] = D[<<x, h>>]

\* f is defined by the recursion.
Solves(f, D, S, V) == f \in [S -> V] /\ \A x \in S : f[x] = D[<<x, f>>]

\* A definition by recursion on measure m has a solution: D[<<x, g>>] is the
\* value at x when the values at smaller elements are those of g.
THEOREM RecursionHasSolution ==
    ASSUME NEW S, NEW V, V # {}, NEW m \in [S -> Nat],
           NEW D \in [S \X [S -> V] -> V], Contracts(D, S, V, m)
    PROVE  \E f : Solves(f, D, S, V)
<1> USE DEF Contracts
<1> DEFINE Upto(n) == {g \in [S -> V] : \A x \in S : m[x] < n => g[x] = D[<<x, g>>]}
<1>1. \A n \in Nat : Upto(n) # {}
    <2> DEFINE Missing == {n \in Nat : Upto(n) = {}}
    <2> SUFFICES ASSUME Missing # {} PROVE FALSE
        OBVIOUS
    <2>1. PICK n \in Missing : \A k \in Missing : n <= k
        <3>1. Missing \subseteq Nat
            OBVIOUS
        <3> QED
            BY <3>1, LeastNat
    <2>2. n \in Nat /\ Upto(n) = {} /\ \A k \in Nat : k < n => Upto(k) # {}
        <3> HIDE DEF Upto
        <3>1. \A k \in Nat : k < n => k \notin Missing
            BY <2>1
        <3> QED
            BY <3>1
    <2> HIDE DEF Missing, Upto
    <2>3. n # 0
        <3>1. PICK v \in V : TRUE
            OBVIOUS
        <3>2. [x \in S |-> v] \in Upto(0)
            BY DEF Upto
        <3> QED
            BY <3>2, <2>2
    <2>4. PICK g \in Upto(n - 1) : TRUE
        <3>1. n - 1 \in Nat /\ n - 1 < n
            BY <2>2, <2>3
        <3> QED
            BY <3>1, <2>2
    <2> DEFINE h == [x \in S |-> IF m[x] < n - 1 THEN g[x] ELSE D[<<x, g>>]]
    <2>5. /\ g \in [S -> V]
          /\ \A x \in S : m[x] < n - 1 => g[x] = D[<<x, g>>]
        BY <2>4 DEF Upto
    <2>6. h \in [S -> V]
        BY <2>5
    <2>7. ASSUME NEW x \in S, m[x] < n PROVE h[x] = D[<<x, h>>]
        <3>1. \A y \in S : m[y] < m[x] => g[y] = h[y]
            BY <2>7, <2>2
        <3>2. h[x] = IF m[x] < n - 1 THEN g[x] ELSE D[<<x, g>>]
            OBVIOUS
        <3> HIDE DEF h
        <3>3. D[<<x, g>>] = D[<<x, h>>]
            BY <3>1, <2>5, <2>6
        <3> QED
            BY <3>2, <3>3, <2>5
    <2> HIDE DEF h
    <2>8. h \in Upto(n)
        BY <2>6, <2>7 DEF Upto
    <2> QED
        BY <2>8, <2>2
<1>2. ASSUME NEW n \in Nat, NEW k \in Nat, NEW g \in Upto(n), NEW h \in Upto(k)
      PROVE  \A x \in S : m[x] < n /\ m[x] < k => g[x] = h[x]
    <2> DEFINE Differ == {x \in S : m[x] < n /\ m[x] < k /\ g[x] # h[x]}
    <2> SUFFICES ASSUME Differ # {} PROVE FALSE
        OBVIOUS
    <2>1. PICK x \in Differ : \A y \in S : m[y] < m[x] => y \notin Differ
        <3>1. Differ \subseteq S
            OBVIOUS
        <3> HIDE DEF Differ
        <3> QED
            BY <3>1, LeastElement
    <2>2. \A y \in S : m[y] < m[x] => g[y] = h[y]
        BY <2>1
    <2>3. g \in [S -> V] /\ h \in [S -> V] /\ x \in S
        OBVIOUS
    <2>4. D[<<x, g>>] = D[<<x, h>>]
        BY <2>2, <2>3
    <2> QED
        BY <2>4
<1> DEFINE f == [x \in S |-> (CHOOSE g \in Upto(m[x] + 1) : TRUE)[x]]
<1>3. \A x \in S : (CHOOSE g \in Upto(m[x] + 1) : TRUE) \in Upto(m[x] + 1)
    <2> SUFFICES ASSUME NEW x \in S
                 PROVE  (CHOOSE g \in Upto(m[x] + 1) : TRUE) \in Upto(m[x] + 1)
        OBVIOUS
    <2>0. m[x] + 1 \in Nat
        OBVIOUS
    <2> HIDE DEF Upto
    <2> DEFINE U == Upto(m[x] + 1)
    <2>1. U # {}
        BY <1>1, <2>0
    <2> HIDE DEF U
    <2>2. (CHOOSE g \in U : TRUE) \in U
        BY <2>1
    <2> QED
        BY <2>2 DEF U
<1>4. f \in [S -> V]
    BY <1>3
<1>5. ASSUME NEW x \in S PROVE f[x] = D[<<x, f>>]
    <2> DEFINE g == CHOOSE g \in Upto(m[x] + 1) : TRUE
    <2>1. g \in Upto(m[x] + 1)
        BY <1>3
    <2>2. \A y \in S : m[y] < m[x] => g[y] = f[y]
        <3> SUFFICES ASSUME NEW y \in S, m[y] < m[x] PROVE g[y] = f[y]
            OBVIOUS
        <3> DEFINE h == CHOOSE g_1 \in Upto(m[y] + 1) : TRUE
        <3>1. h \in Upto(m[y] + 1)
            BY <1>3
        <3>2. f[y] = h[y]
            OBVIOUS
        <3> HIDE DEF h, g, f, Upto
        <3>3. m[x] + 1 \in Nat /\ m[y] + 1 \in Nat /\ m[y] < m[x] + 1 /\ m[y] < m[y] + 1
            OBVIOUS
        <3>4. g[y] = h[y]
            BY <1>2, <2>1, <3>1, <3>3
        <3> QED
            BY <3>2, <3>4
    <2>3. f[x] = g[x]
        OBVIOUS
    <2> HIDE DEF g, f
    <2>4. D[<<x, g>>] = D[<<x, f>>]
        BY <2>1, <2>2, <1>4
    <2> QED
        BY <2>1, <2>3, <2>4
<1> HIDE DEF f
<1>6. Solves(f, D, S, V)
    BY <1>4, <1>5 DEF Solves
<1> QED
    BY <1>6

\* f takes a sequence over X element by element and joins the sequences over Y
\* that e gives for each.
Joins(f, e, X, Y) ==
    /\ e \in [X -> Seq(Y)]
    /\ f = [s \in Seq(X) |-> IF s = <<>> THEN <<>> ELSE e[Head(s)] \o f[Tail(s)]]

\* There is such a function.
LEMMA JoinsSolution ==
    ASSUME NEW X, NEW Y, NEW e \in [X -> Seq(Y)]
    PROVE  \E f : Joins(f, e, X, Y)
<1> DEFINE m == [s \in Seq(X) |-> Len(s)]
           At(s, g) == IF s = <<>> THEN <<>> ELSE e[Head(s)] \o g[Tail(s)]
           D == [p \in Seq(X) \X [Seq(X) -> Seq(Y)] |-> At(p[1], p[2])]
<1>1. m \in [Seq(X) -> Nat]
    OBVIOUS
<1>2. ASSUME NEW s \in Seq(X), s # <<>>
      PROVE  Head(s) \in X /\ Tail(s) \in Seq(X) /\ m[Tail(s)] < m[s]
    BY <1>2, HeadTailProperties, EmptySeq
<1>3. ASSUME NEW s \in Seq(X), NEW g \in [Seq(X) -> Seq(Y)]
      PROVE  At(s, g) \in Seq(Y) /\ D[<<s, g>>] = At(s, g)
    <2>1. CASE s = <<>>
        BY <2>1, EmptySeq
    <2>2. CASE s # <<>>
        <3>1. e[Head(s)] \in Seq(Y) /\ g[Tail(s)] \in Seq(Y)
            BY <1>2, <2>2
        <3>2. e[Head(s)] \o g[Tail(s)] \in Seq(Y)
            BY <3>1, ConcatProperties
        <3> QED
            BY <2>2, <3>2
    <2> QED
        BY <2>1, <2>2
<1>4. D \in [Seq(X) \X [Seq(X) -> Seq(Y)] -> Seq(Y)]
    <2> SUFFICES ASSUME NEW p \in Seq(X) \X [Seq(X) -> Seq(Y)]
                 PROVE  At(p[1], p[2]) \in Seq(Y)
        OBVIOUS
    <2>1. p[1] \in Seq(X) /\ p[2] \in [Seq(X) -> Seq(Y)]
        OBVIOUS
    <2> HIDE DEF At
    <2> QED
        BY <1>3, <2>1
<1>5. ASSUME NEW s \in Seq(X), NEW g \in [Seq(X) -> Seq(Y)],
             NEW h \in [Seq(X) -> Seq(Y)],
             \A r \in Seq(X) : m[r] < m[s] => g[r] = h[r]
      PROVE  D[<<s, g>>] = D[<<s, h>>]
    <2>1. At(s, g) = At(s, h)
        BY <1>5, <1>2
    <2> HIDE DEF At, D
    <2>2. D[<<s, g>>] = At(s, g) /\ D[<<s, h>>] = At(s, h)
        BY <1>3
    <2> QED
        BY <2>1, <2>2
<1> HIDE DEF m, D
<1>6. Contracts(D, Seq(X), Seq(Y), m)
    BY <1>5 DEF Contracts
<1>7. PICK f : Solves(f, D, Seq(X), Seq(Y))
    <2>1. Seq(Y) # {}
        BY EmptySeq
    <2> HIDE DEF At
    <2> QED
        BY <1>1, <1>4, <1>6, <2>1, RecursionHasSolution
<1>8. f \in [Seq(X) -> Seq(Y)] /\ \A s \in Seq(X) : f[s] = At(s, f)
    <2> HIDE DEF At
    <2> QED
        BY <1>3, <1>7 DEF Solves
<1>9. Joins(f, e, X, Y)
    BY <1>8 DEF Joins
<1> QED
    BY <1>9

\* It takes sequences to sequences.
LEMMA JoinsType ==
    ASSUME NEW X, NEW Y, NEW e, NEW f, Joins(f, e, X, Y)
    PROVE  f \in [Seq(X) -> Seq(Y)]
<1>1. /\ e \in [X -> Seq(Y)]
      /\ \A s \in Seq(X) : f[s] = IF s = <<>> THEN <<>> ELSE e[Head(s)] \o f[Tail(s)]
    BY DEF Joins
<1> DEFINE T == {s \in Seq(X) : f[s] \in Seq(Y)}
<1>2. <<>> \in T
    BY <1>1, EmptySeq
<1>3. ASSUME NEW s \in Seq(X), s # <<>>, Tail(s) \in T PROVE s \in T
    <2>1. Head(s) \in X /\ f[Tail(s)] \in Seq(Y) /\ e[Head(s)] \in Seq(Y)
        BY <1>1, <1>3
    <2>2. e[Head(s)] \o f[Tail(s)] \in Seq(Y)
        BY <2>1, ConcatProperties
    <2> QED
        BY <1>1, <1>3, <2>2
<1> HIDE DEF T
<1>4. Seq(X) \subseteq T
    BY <1>2, <1>3, TailInduction
<1>5. f \in [Seq(X) -> Seq(Y)]
    BY <1>4 DEF T, Joins
<1> QED
    BY <1>5

\* f is the same on a sequence as on its two parts.
Splits(f, X) == \A s, t \in Seq(X) : f[s \o t] = f[s] \o f[t]

\* Such a function splits.
LEMMA JoinsConcat ==
    ASSUME NEW X, NEW Y, NEW e, NEW f, Joins(f, e, X, Y)
    PROVE  Splits(f, X)
<1> DEFINE T == {s \in Seq(X) : \A t \in Seq(X) : f[s \o t] = f[s] \o f[t]}
<1>0. /\ f \in [Seq(X) -> Seq(Y)] /\ e \in [X -> Seq(Y)]
      /\ f[<<>>] = <<>>
      /\ \A s \in Seq(X) : s # <<>> => f[s] = e[Head(s)] \o f[Tail(s)]
    <2>1. f \in [Seq(X) -> Seq(Y)]
        BY JoinsType
    <2>2. e \in [X -> Seq(Y)] /\ <<>> \in Seq(X)
        BY EmptySeq DEF Joins
    <2> QED
        BY <2>1, <2>2 DEF Joins
<1>1. <<>> \in T
    <2>1. ASSUME NEW t \in Seq(X) PROVE <<>> \o t = t /\ <<>> \o f[t] = f[t]
        BY <1>0, ConcatEmptySeq
    <2> QED
        BY <1>0, <2>1, EmptySeq
<1>2. ASSUME NEW s \in Seq(X), s # <<>>, Tail(s) \in T PROVE s \in T
    <2> SUFFICES ASSUME NEW t \in Seq(X) PROVE f[s \o t] = f[s] \o f[t]
        OBVIOUS
    <2>1. Head(s) \in X /\ Tail(s) \in Seq(X) /\ s \o t \in Seq(X)
        BY <1>2
    <2>2. s \o t # <<>> /\ Head(s \o t) = Head(s) /\ Tail(s \o t) = Tail(s) \o t
        BY <1>2
    <2>3. f[s \o t] = e[Head(s)] \o f[Tail(s) \o t]
        BY <1>0, <2>1, <2>2
    <2>4. f[Tail(s) \o t] = f[Tail(s)] \o f[t]
        BY <1>2
    <2>5. e[Head(s)] \in Seq(Y) /\ f[Tail(s)] \in Seq(Y) /\ f[t] \in Seq(Y)
        BY <1>0, <2>1
    <2>6. f[s] = e[Head(s)] \o f[Tail(s)]
        BY <1>0, <1>2
    <2> DEFINE a == e[Head(s)]
               b == f[Tail(s)]
               c == f[t]
    <2> HIDE DEF a, b, c, T
    <2>7. (a \o b) \o c = a \o (b \o c)
        <3>1. a \in Seq(Y) /\ b \in Seq(Y) /\ c \in Seq(Y)
            BY <2>5 DEF a, b, c
        <3> QED
            BY <3>1, ConcatAssociative
    <2> QED
        BY <2>3, <2>4, <2>6, <2>7 DEF a, b, c
<1> HIDE DEF T
<1>3. Seq(X) \subseteq T
    BY <1>1, <1>2, TailInduction
<1> QED
    BY <1>3 DEF T, Splits

=============================================================================
