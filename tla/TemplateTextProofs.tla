------------------------- MODULE TemplateTextProofs --------------------------
(***************************************************************************)
(* Proofs about TemplateText for every text, every set of fields, letters, *)
(* digits and persons.  The recursions of the conversions are first shown  *)
(* to be what they say, by induction on lengths; then that markers undo    *)
(* what save wrote.                                                        *)
(***************************************************************************)
EXTENDS TemplateText, FiniteSetTheorems, SequenceTheorems, WellFoundedInduction, TLAPS

-----------------------------------------------------------------------------
(* Induction, for a property given as a set of numbers                     *)

(* A set that has every number whose predecessors it has, has all.         *)
LEMMA Induction ==
  ASSUME NEW T, \A n \in Nat : (\A k \in Nat : k < n => k \in T) => n \in T
  PROVE  \A n \in Nat : n \in T
<1> DEFINE Out == Nat \ T
           R == OpToRel(<, Nat)
<1>1. IsWellFoundedOn(OpToRel(<, Nat), Nat)
  BY NatLessThanWellFounded
<1>2. \A k, m \in Nat : k < m => <<k, m>> \in R
  BY DEF OpToRel
<1>3. ASSUME Out # {} PROVE FALSE
  <2>1. Out \subseteq Nat
    OBVIOUS
  <2> HIDE DEF R, Out
  <2>2. PICK m \in Out : \A k \in Out : ~ (<<k, m>> \in R)
    BY <1>1, <1>3, <2>1, WFMin, Zenon DEF R
  <2>3. m \in Nat /\ m \notin T
    BY <2>2 DEF Out
  <2>4. \A k \in Nat : k < m => k \in T
    BY <1>2, <2>2, <2>3 DEF Out
  <2> QED BY <2>3, <2>4
<1> QED BY <1>3

(* A function on 1 .. n is a sequence of length n.                         *)
LEMMA FunctionIsSeq ==
  ASSUME NEW S, NEW n \in Nat, NEW f \in [1 .. n -> S]
  PROVE  f \in Seq(S) /\ Len(f) = n
BY SeqDef

(* One element in front of a sequence.                                     *)
LEMMA InFront ==
  ASSUME NEW S, NEW x \in S, NEW s \in Seq(S)
  PROVE  /\ <<x>> \o s \in Seq(S)
         /\ Len(<<x>> \o s) = Len(s) + 1
         /\ (<<x>> \o s)[1] = x
         /\ \A i \in 1 .. Len(s) : (<<x>> \o s)[i + 1] = s[i]
<1>1. <<x>> \in Seq(S) /\ Len(<<x>>) = 1 /\ <<x>>[1] = x
  OBVIOUS
<1>2. Len(s) \in Nat
  BY LenProperties
<1> QED BY <1>1, <1>2, ConcatProperties

(* The two parts of a concatenation.                                       *)
LEMMA CutConcat ==
  ASSUME NEW S, NEW s \in Seq(S), NEW t \in Seq(S)
  PROVE  /\ SubSeq(s \o t, 1, Len(s)) = s
         /\ SubSeq(s \o t, Len(s) + 1, Len(s \o t)) = t
<1>1. Len(s) \in Nat /\ Len(t) \in Nat
  BY LenProperties
<1>2. /\ s \o t \in Seq(S) /\ Len(s \o t) = Len(s) + Len(t)
      /\ \A i \in 1 .. Len(s) : (s \o t)[i] = s[i]
      /\ \A i \in 1 .. Len(t) : (s \o t)[i + Len(s)] = t[i]
  BY <1>1, ConcatProperties
<1> DEFINE u == s \o t
<1>3. \A i \in 1 .. Len(u) : u[i] \in S
  BY <1>2, ElementOfSeq
<1> HIDE DEF u
<1>4. SubSeq(u, 1, Len(s)) = s
  <2>1. /\ SubSeq(u, 1, Len(s)) \in Seq(S) /\ Len(SubSeq(u, 1, Len(s))) = Len(s)
        /\ \A i \in 1 .. Len(s) : SubSeq(u, 1, Len(s))[i] = u[i]
    BY <1>1, <1>2, <1>3, SubSeqProperties DEF u
  <2> QED BY <1>2, <2>1, SeqEqual DEF u
<1>5. SubSeq(u, Len(s) + 1, Len(u)) = t
  <2> DEFINE v == SubSeq(u, Len(s) + 1, Len(u))
  <2>1. /\ v \in Seq(S) /\ Len(v) = Len(t)
        /\ \A i \in 1 .. Len(t) : v[i] = u[i + Len(s)]
    <3>1. Len(s) + 1 \in Int /\ Len(u) \in Int /\ Len(u) = Len(s) + Len(t)
      BY <1>1, <1>2 DEF u
    <3>2. \A i \in Len(s) + 1 .. Len(u) : u[i] \in S
      BY <1>1, <1>3, <3>1
    <3>3. /\ v \in Seq(S)
          /\ Len(v) = (IF Len(s) + 1 <= Len(u) THEN Len(u) - (Len(s) + 1) + 1 ELSE 0)
          /\ \A i \in 1 .. Len(u) - (Len(s) + 1) + 1 : v[i] = u[Len(s) + 1 + i - 1]
      BY <3>1, <3>2, SubSeqProperties
    <3> QED BY <1>1, <3>1, <3>3
  <2> HIDE DEF v
  <2>2. \A i \in 1 .. Len(v) : v[i] = t[i]
    BY <1>2, <2>1 DEF u
  <2>3. v = t
    BY <2>1, <2>2, SeqEqual
  <2> QED BY <2>3 DEF v
<1> QED BY <1>4, <1>5 DEF u

(* A sequence that is not empty is its first element and the rest.         *)
LEMMA FirstAndRest ==
  ASSUME NEW S, NEW s \in Seq(S), Len(s) > 0
  PROVE  /\ s[1] \in S
         /\ SubSeq(s, 2, Len(s)) \in Seq(S)
         /\ Len(SubSeq(s, 2, Len(s))) = Len(s) - 1
         /\ \A i \in 1 .. Len(s) - 1 : SubSeq(s, 2, Len(s))[i] = s[i + 1]
         /\ s = <<s[1]>> \o SubSeq(s, 2, Len(s))
<1>1. Len(s) \in Nat /\ s[1] \in S
  BY LenProperties, ElementOfSeq
<1>2. \A i \in 2 .. Len(s) : s[i] \in S
  BY <1>1, ElementOfSeq
<1>3. /\ SubSeq(s, 2, Len(s)) \in Seq(S)
      /\ Len(SubSeq(s, 2, Len(s))) = (IF 2 <= Len(s) THEN Len(s) - 2 + 1 ELSE 0)
      /\ \A i \in 1 .. Len(s) - 2 + 1 : SubSeq(s, 2, Len(s))[i] = s[2 + i - 1]
  BY <1>1, <1>2, SubSeqProperties
<1>4. SubSeq(s, 1, Len(s)) = <<s[1]>> \o SubSeq(s, 1 + 1, Len(s))
  BY <1>1, SubSeqRecursiveFirst
<1>5. SubSeq(s, 1, Len(s)) = s
  BY SubSeqFull
<1> QED BY <1>1, <1>3, <1>4, <1>5

-----------------------------------------------------------------------------
(* What FlattenSeq computes                                                *)

(* f holds what is flattened of s so far.                                  *)
Flattens(f, s, n) ==
  /\ f[1] = s[1]
  /\ \A i \in 2 .. n : f[i] = f[i - 1] \o s[i]

(* Concatenations may be put together in either order.                     *)
LEMMA Associative ==
  ASSUME NEW S
  PROVE  \A a, b, c \in Seq(S) : (a \o b) \o c = a \o (b \o c)
BY ConcatAssociative

(* The recursion of FlattenSeq has a solution.                             *)
LEMMA FlatteningExists ==
  ASSUME NEW S, NEW s \in Seq(Seq(S)), Len(s) > 0
  PROVE  \E f \in [1 .. Len(s) -> Seq(S)] : Flattens(f, s, Len(s))
<1> DEFINE L == Len(s)
           E(n) == n > 0 /\ n <= L =>
                     \E f \in [1 .. n -> Seq(S)] : Flattens(f, s, n)
           T == {n \in Nat : E(n)}
<1>0. L \in Nat /\ \A i \in 1 .. L : s[i] \in Seq(S)
  BY LenProperties, ElementOfSeq
<1> HIDE DEF L
<1>1. ASSUME NEW n \in Nat, \A k \in Nat : k < n => k \in T PROVE n \in T
  <2> SUFFICES ASSUME n > 0, n <= L
               PROVE  \E f \in [1 .. n -> Seq(S)] : Flattens(f, s, n)
    OBVIOUS
  <2>1. CASE n = 1
    <3> DEFINE f == [i \in 1 .. 1 |-> s[1]]
    <3>1. f \in [1 .. 1 -> Seq(S)] /\ f[1] = s[1]
      BY <1>0, <2>1
    <3>2. Flattens(f, s, n)
      BY <2>1, <3>1 DEF Flattens
    <3> QED BY <2>1, <3>1, <3>2
  <2>2. CASE n > 1
    <3> DEFINE m == n - 1
    <3>1. m \in Nat /\ m < n /\ m > 0 /\ m <= L
      BY <1>0, <2>2
    <3>2. PICK g \in [1 .. m -> Seq(S)] : Flattens(g, s, m)
      BY <1>1, <3>1
    <3> DEFINE f == [i \in 1 .. n |-> IF i <= m THEN g[i] ELSE g[m] \o s[n]]
    <3>3. g[m] \o s[n] \in Seq(S)
      BY <1>0, <3>1, ConcatProperties
    <3>4. f \in [1 .. n -> Seq(S)]
      BY <3>1, <3>3
    <3>5. f[1] = s[1]
      BY <3>1, <3>2 DEF Flattens
    <3>6. ASSUME NEW i \in 2 .. n PROVE f[i] = f[i - 1] \o s[i]
      <4>1. CASE i = n
        <5>1. n \in 1 .. n /\ ~ (n <= m) /\ m \in 1 .. n /\ m <= m
          BY <3>1
        <5>2. f[n] = g[m] \o s[n] /\ f[m] = g[m]
          BY <5>1
        <5> HIDE DEF f
        <5> QED BY <4>1, <5>2
      <4>2. CASE i # n
        <5>1. i \in 2 .. m /\ i \in 1 .. n /\ i - 1 \in 1 .. n /\ i <= m /\ i - 1 <= m
          BY <3>1, <4>2
        <5>2. f[i] = g[i] /\ f[i - 1] = g[i - 1]
          BY <5>1
        <5> HIDE DEF f
        <5> QED BY <3>2, <5>1, <5>2 DEF Flattens
      <4> QED BY <4>1, <4>2
    <3> HIDE DEF f
    <3> QED BY <3>4, <3>5, <3>6 DEF Flattens
  <2> QED BY <2>1, <2>2
<1> HIDE DEF T
<1>2. \A n \in Nat : n \in T
  BY <1>1, Induction, Zenon
<1> QED BY <1>0, <1>2 DEF T, L

(* FlattenSeq is the last value of a solution of its recursion.            *)
LEMMA FlattenSteps ==
  ASSUME NEW S, NEW s \in Seq(Seq(S)), Len(s) > 0
  PROVE  \E f \in [1 .. Len(s) -> Seq(S)] :
           Flattens(f, s, Len(s)) /\ FlattenSeq(s) = f[Len(s)]
<1> DEFINE Rec(g) == g = [i \in 1 .. Len(s) |-> IF i = 1 THEN s[i] ELSE g[i - 1] \o s[i]]
           c == CHOOSE g : Rec(g)
<1>0. Len(s) \in Nat /\ \A i \in 1 .. Len(s) : s[i] \in Seq(S)
  BY LenProperties, ElementOfSeq
<1>1. FlattenSeq(s) = c[Len(s)]
  BY DEF FlattenSeq
<1>2. PICK h \in [1 .. Len(s) -> Seq(S)] : Flattens(h, s, Len(s))
  BY FlatteningExists
<1>3. Rec(h)
  <2>1. h[1] = s[1] /\ \A i \in 2 .. Len(s) : h[i] = h[i - 1] \o s[i]
    BY <1>2 DEF Flattens
  <2>2. \A i \in 1 .. Len(s) : i = 1 \/ i \in 2 .. Len(s)
    BY <1>0
  <2>3. \A i \in 1 .. Len(s) : h[i] = IF i = 1 THEN s[i] ELSE h[i - 1] \o s[i]
    BY <2>1, <2>2, Zenon
  <2> QED BY <2>3
<1>4. Rec(c)
  BY <1>3, Zenon
<1> HIDE DEF c
<1>5. Flattens(c, s, Len(s))
  <2>1. \A i \in 1 .. Len(s) : c[i] = IF i = 1 THEN s[i] ELSE c[i - 1] \o s[i]
    BY <1>4, Zenon
  <2>2. 1 \in 1 .. Len(s) /\ \A i \in 2 .. Len(s) : i \in 1 .. Len(s) /\ i # 1
    BY <1>0
  <2> QED BY <2>1, <2>2, Zenon DEF Flattens
<1> DEFINE T == {n \in Nat : n \in 1 .. Len(s) => c[n] \in Seq(S)}
<1>6. ASSUME NEW n \in Nat, \A k \in Nat : k < n => k \in T PROVE n \in T
  <2> SUFFICES ASSUME n \in 1 .. Len(s) PROVE c[n] \in Seq(S)
    OBVIOUS
  <2>1. CASE n = 1
    BY <1>0, <1>5, <2>1 DEF Flattens
  <2>2. CASE n # 1
    <3>0. n \in 2 .. Len(s)
      BY <1>0, <2>2
    <3>1. c[n] = c[n - 1] \o s[n] /\ s[n] \in Seq(S)
      BY <1>0, <1>5, <3>0, Zenon DEF Flattens
    <3>2. n - 1 \in Nat /\ n - 1 < n /\ n - 1 \in 1 .. Len(s)
      BY <1>0, <2>2
    <3>3. c[n - 1] \in Seq(S)
      BY <1>6, <3>2
    <3> QED BY <3>1, <3>3, ConcatProperties
  <2> QED BY <2>1, <2>2
<1> HIDE DEF T
<1>7. \A n \in Nat : n \in T
  BY <1>6, Induction, Zenon
<1>8. \A n \in 1 .. Len(s) : c[n] \in Seq(S)
  BY <1>0, <1>7 DEF T
<1>9. c \in [1 .. Len(s) -> Seq(S)]
  BY <1>4, <1>8
<1> QED BY <1>1, <1>5, <1>9

(* Nothing flattened is nothing.                                           *)
LEMMA FlattenNone ==
  FlattenSeq(<<>>) = <<>>
BY DEF FlattenSeq

(* Flattening keeps the elements.                                          *)
LEMMA FlattenType ==
  ASSUME NEW S, NEW s \in Seq(Seq(S))
  PROVE  FlattenSeq(s) \in Seq(S)
<1>0. Len(s) \in Nat
  BY LenProperties
<1>1. CASE Len(s) = 0
  <2>1. s = <<>>
    BY <1>1, EmptySeq
  <2> QED BY <2>1, FlattenNone, EmptySeq
<1>2. CASE Len(s) > 0
  <2>1. PICK f \in [1 .. Len(s) -> Seq(S)] : FlattenSeq(s) = f[Len(s)]
    BY <1>2, FlattenSteps
  <2>2. Len(s) \in 1 .. Len(s)
    BY <1>0, <1>2
  <2>3. f[Len(s)] \in Seq(S)
    BY <2>2, Zenon
  <2> QED BY <2>1, <2>3, Zenon
<1>3. Len(s) = 0 \/ Len(s) > 0
  BY <1>0
<1> QED BY <1>1, <1>2, <1>3, Zenon

(* One part in front of the others is flattened to the front.              *)
LEMMA FlattenFront ==
  ASSUME NEW S, NEW x \in Seq(S), NEW s \in Seq(Seq(S))
  PROVE  FlattenSeq(<<x>> \o s) = x \o FlattenSeq(s)
<1> DEFINE u == <<x>> \o s
<1>0. Len(s) \in Nat /\ \A i \in 1 .. Len(s) : s[i] \in Seq(S)
  BY LenProperties, ElementOfSeq
<1>1. /\ u \in Seq(Seq(S)) /\ Len(u) = Len(s) + 1 /\ u[1] = x
      /\ \A i \in 1 .. Len(s) : u[i + 1] = s[i]
  BY InFront
<1>a. \A a, b \in Seq(S) : (x \o a) \o b = x \o (a \o b)
  BY Associative
<1> HIDE DEF u
<1>2. PICK g \in [1 .. Len(u) -> Seq(S)] :
        Flattens(g, u, Len(u)) /\ FlattenSeq(u) = g[Len(u)]
  BY <1>0, <1>1, FlattenSteps
<1>3. CASE Len(s) = 0
  <2>1. s = <<>>
    BY <1>3, EmptySeq
  <2>2. FlattenSeq(u) = x
    BY <1>1, <1>2, <1>3 DEF Flattens
  <2>3. x \o FlattenSeq(s) = x
    BY <2>1, FlattenNone, ConcatEmptySeq
  <2> QED BY <2>2, <2>3 DEF u
<1>4. CASE Len(s) > 0
  <2>1. PICK f \in [1 .. Len(s) -> Seq(S)] :
          Flattens(f, s, Len(s)) /\ FlattenSeq(s) = f[Len(s)]
    BY <1>4, FlattenSteps
  <2> DEFINE T == {n \in Nat : n \in 1 .. Len(s) => g[n + 1] = x \o f[n]}
  <2>2. ASSUME NEW n \in Nat, \A k \in Nat : k < n => k \in T PROVE n \in T
    <3> SUFFICES ASSUME n \in 1 .. Len(s) PROVE g[n + 1] = x \o f[n]
      OBVIOUS
    <3>1. g[n + 1] = g[n] \o s[n]
      <4>1. n + 1 \in 2 .. Len(u) /\ u[n + 1] = s[n] /\ (n + 1) - 1 = n
        BY <1>0, <1>1
      <4>2. g[n + 1] = g[(n + 1) - 1] \o u[n + 1]
        BY <1>2, <4>1 DEF Flattens
      <4> QED BY <4>1, <4>2
    <3>2. CASE n = 1
      <4>1. g[1] = x /\ f[1] = s[1]
        BY <1>1, <1>2, <2>1 DEF Flattens
      <4> QED BY <3>1, <3>2, <4>1
    <3>3. CASE n # 1
      <4>1. n - 1 \in Nat /\ n - 1 < n /\ n - 1 \in 1 .. Len(s) /\ (n - 1) + 1 = n
        BY <1>0, <3>3
      <4>2. n - 1 \in T
        BY <2>2, <4>1
      <4>3. g[n] = x \o f[n - 1]
        BY <4>1, <4>2
      <4>0. n \in 2 .. Len(s)
        BY <1>0, <3>3
      <4>4. f[n] = f[n - 1] \o s[n]
        BY <2>1, <4>0, Zenon DEF Flattens
      <4>5. f[n - 1] \in Seq(S) /\ s[n] \in Seq(S)
        BY <1>0, <2>1, <4>1
      <4>6. (x \o f[n - 1]) \o s[n] = x \o (f[n - 1] \o s[n])
        BY <1>a, <4>5, Zenon
      <4> QED BY <3>1, <4>3, <4>4, <4>6
    <3> QED BY <3>2, <3>3
  <2> HIDE DEF T
  <2>3. \A n \in Nat : n \in T
    BY <2>2, Induction, Zenon
  <2>4. g[Len(s) + 1] = x \o f[Len(s)]
    BY <1>0, <1>4, <2>3 DEF T
  <2> QED BY <1>1, <1>2, <2>1, <2>4 DEF u
<1>5. Len(s) = 0 \/ Len(s) > 0
  BY <1>0
<1> QED BY <1>3, <1>4, <1>5, Zenon

-----------------------------------------------------------------------------
(* A text rewritten token by token                                         *)

(* w says what to write for each of the tokens of A.                      *)
Rewrites(w, A, S) == w \in [A -> Seq(S)]

\* What w writes for the tokens of s, one by one and put together.
Parts(w, s) == [i \in DOMAIN s |-> w[s[i]]]

Through(w, s) == FlattenSeq(Parts(w, s))

(* The parts that are put together.                                        *)
LEMMA ThroughParts ==
  ASSUME NEW A, NEW S, NEW w, Rewrites(w, A, S), NEW s \in Seq(A)
  PROVE  /\ Parts(w, s) \in Seq(Seq(S))
         /\ Len(Parts(w, s)) = Len(s)
         /\ \A i \in 1 .. Len(s) : Parts(w, s)[i] = w[s[i]]
<1>1. Len(s) \in Nat /\ DOMAIN s = 1 .. Len(s) /\ \A i \in 1 .. Len(s) : s[i] \in A
  BY LenProperties, ElementOfSeq
<1>2. /\ Parts(w, s) \in [1 .. Len(s) -> Seq(S)]
      /\ \A i \in 1 .. Len(s) : Parts(w, s)[i] = w[s[i]]
  BY <1>1 DEF Parts, Rewrites
<1> QED BY <1>1, <1>2, FunctionIsSeq

(* A text written with tokens of S is a text over S.                       *)
LEMMA ThroughType ==
  ASSUME NEW A, NEW S, NEW w, Rewrites(w, A, S), NEW s \in Seq(A)
  PROVE  Through(w, s) \in Seq(S)
BY ThroughParts, FlattenType DEF Through

(* Nothing is written for the empty text.                                  *)
LEMMA ThroughNone ==
  ASSUME NEW w
  PROVE  Through(w, <<>>) = <<>>
<1> DEFINE s == <<>>
<1>1. s \in Seq({}) /\ Len(s) = 0 /\ DOMAIN s = 1 .. 0
  BY EmptySeq, LenProperties
<1> HIDE DEF s
<1>2. Parts(w, s) \in [1 .. 0 -> {}]
  BY <1>1 DEF Parts
<1>3. Parts(w, s) \in Seq({}) /\ Len(Parts(w, s)) = 0
  BY <1>2, FunctionIsSeq
<1>4. Parts(w, s) = <<>>
  BY <1>3, EmptySeq
<1> QED BY <1>4, FlattenNone DEF Through, s

(* The first token is written first.                                       *)
LEMMA ThroughFront ==
  ASSUME NEW A, NEW S, NEW w, Rewrites(w, A, S)
  PROVE  \A x \in A, s \in Seq(A) : Through(w, Cons(x, s)) = w[x] \o Through(w, s)
<1> SUFFICES ASSUME NEW x \in A, NEW s \in Seq(A)
             PROVE  Through(w, <<x>> \o s) = w[x] \o Through(w, s)
  BY DEF Cons
<1> DEFINE u == <<x>> \o s
           f == Parts(w, s)
           g == Parts(w, u)
           h == <<w[x]>> \o f
<1>1. /\ u \in Seq(A) /\ Len(u) = Len(s) + 1 /\ u[1] = x
      /\ \A i \in 1 .. Len(s) : u[i + 1] = s[i]
  BY InFront
<1>2. Len(s) \in Nat
  BY LenProperties
<1> HIDE DEF u
<1>3. f \in Seq(Seq(S)) /\ Len(f) = Len(s) /\ \A i \in 1 .. Len(s) : f[i] = w[s[i]]
  BY ThroughParts
<1>4. g \in Seq(Seq(S)) /\ Len(g) = Len(u) /\ \A i \in 1 .. Len(u) : g[i] = w[u[i]]
  BY <1>1, ThroughParts
<1>5. w[x] \in Seq(S)
  BY DEF Rewrites
<1> HIDE DEF f, g
<1>8. /\ h \in Seq(Seq(S)) /\ Len(h) = Len(f) + 1 /\ h[1] = w[x]
      /\ \A i \in 1 .. Len(f) : h[i + 1] = f[i]
  BY <1>3, <1>5, InFront
<1>11. FlattenSeq(h) = w[x] \o FlattenSeq(f)
  BY <1>3, <1>5, FlattenFront
<1> HIDE DEF h
<1>9. ASSUME NEW i \in 1 .. Len(g) PROVE g[i] = h[i]
  <2>1. CASE i = 1
    BY <1>1, <1>2, <1>4, <1>8, <2>1
  <2>2. CASE i # 1
    <3>1. i - 1 \in 1 .. Len(s) /\ (i - 1) + 1 = i /\ i \in 1 .. Len(u)
      BY <1>1, <1>2, <1>4, <2>2
    <3>2. h[i] = f[i - 1] /\ u[i] = s[i - 1]
      BY <1>1, <1>3, <1>8, <3>1
    <3> QED BY <1>3, <1>4, <3>1, <3>2
  <2> QED BY <2>1, <2>2
<1>10. g = h
  BY <1>1, <1>3, <1>4, <1>8, <1>9, SeqEqual
<1> QED BY <1>10, <1>11 DEF Through, u, f, g

(* The first token and the rest.                                           *)
LEMMA ThroughRest ==
  ASSUME NEW A, NEW S, NEW w, Rewrites(w, A, S)
  PROVE  \A s \in Seq(A) : Len(s) > 0 =>
           Through(w, s) = w[s[1]] \o Through(w, SubSeq(s, 2, Len(s)))
<1>1. \A x \in A, t \in Seq(A) : Through(w, Cons(x, t)) = w[x] \o Through(w, t)
  BY ThroughFront
<1> SUFFICES ASSUME NEW s \in Seq(A), Len(s) > 0
             PROVE  Through(w, s) = w[s[1]] \o Through(w, SubSeq(s, 2, Len(s)))
  OBVIOUS
<1> DEFINE r == SubSeq(s, 2, Len(s))
<1>2. s[1] \in A /\ r \in Seq(A) /\ s = Cons(s[1], r)
  BY FirstAndRest DEF Cons
<1> HIDE DEF r
<1>3. Through(w, Cons(s[1], r)) = w[s[1]] \o Through(w, r)
  BY <1>1, <1>2, Zenon
<1> QED BY <1>2, <1>3 DEF r

(* What rewrites every token to itself changes nothing.                    *)
LEMMA ThroughItself ==
  ASSUME NEW A, NEW w, Rewrites(w, A, A), \A x \in A : w[x] = <<x>>
  PROVE  \A s \in Seq(A) : Through(w, s) = s
<1>r. \A s \in Seq(A) : Len(s) > 0 =>
        Through(w, s) = w[s[1]] \o Through(w, SubSeq(s, 2, Len(s)))
  BY ThroughRest
<1> DEFINE T == {n \in Nat : \A s \in Seq(A) : Len(s) = n => Through(w, s) = s}
<1>1. ASSUME NEW n \in Nat, \A k \in Nat : k < n => k \in T PROVE n \in T
  <2> SUFFICES ASSUME NEW s \in Seq(A), Len(s) = n PROVE Through(w, s) = s
    OBVIOUS
  <2>1. CASE n = 0
    <3>1. s = <<>> /\ Through(w, <<>>) = <<>>
      BY <2>1, ThroughNone, EmptySeq
    <3> QED BY <3>1
  <2>2. CASE n > 0
    <3> DEFINE r == SubSeq(s, 2, Len(s))
    <3>1. s[1] \in A /\ r \in Seq(A) /\ Len(r) = n - 1 /\ s = <<s[1]>> \o r
      BY <2>2, FirstAndRest
    <3>2. Through(w, s) = w[s[1]] \o Through(w, r)
      BY <1>r, <2>2
    <3> HIDE DEF r
    <3>3. n - 1 \in Nat /\ n - 1 < n
      BY <2>2
    <3>4. Through(w, r) = r
      BY <1>1, <3>1, <3>3
    <3> QED BY <3>1, <3>2, <3>4
  <2> QED BY <2>1, <2>2
<1> HIDE DEF T
<1>2. \A n \in Nat : n \in T
  BY <1>1, Induction, Zenon
<1> QED BY <1>2, LenProperties DEF T

-----------------------------------------------------------------------------
(* How Pieces cuts a text                                                  *)

\* Where the piece that begins at i ends, and what it is.
After(text, i) == IF MarkerAt(text, i) THEN i + 3 ELSE i + 1
PieceAt(text, i) == SubSeq(text, i, After(text, i) - 1)

\* f holds the pieces of the text from each place on, down to place m.
Cuts(f, text, m) ==
  /\ f[Len(text) + 1] = <<>>
  /\ \A i \in m .. Len(text) : f[i] = Cons(PieceAt(text, i), f[After(text, i)])

(* A piece is the one or three tokens at its place.                        *)
LEMMA PieceType ==
  ASSUME NEW A, NEW text \in Seq(A)
  PROVE  \A i \in 1 .. Len(text) :
           /\ After(text, i) \in i + 1 .. Len(text) + 1
           /\ PieceAt(text, i) \in Seq(A)
           /\ Len(PieceAt(text, i)) = After(text, i) - i
           /\ \A j \in 1 .. After(text, i) - i : PieceAt(text, i)[j] = text[i + j - 1]
<1>0. Len(text) \in Nat /\ \A i \in 1 .. Len(text) : text[i] \in A
  BY LenProperties, ElementOfSeq
<1> SUFFICES ASSUME NEW i \in 1 .. Len(text)
             PROVE  /\ After(text, i) \in i + 1 .. Len(text) + 1
                    /\ PieceAt(text, i) \in Seq(A)
                    /\ Len(PieceAt(text, i)) = After(text, i) - i
                    /\ \A j \in 1 .. After(text, i) - i : PieceAt(text, i)[j] = text[i + j - 1]
  OBVIOUS
<1>1. After(text, i) \in i + 1 .. Len(text) + 1
  BY <1>0 DEF After, MarkerAt
<1> DEFINE n == After(text, i) - 1
<1>2. n \in Int /\ i \in Int /\ i <= n /\ n <= Len(text) /\ After(text, i) - i = n - i + 1
  BY <1>0, <1>1
<1>3. PieceAt(text, i) = SubSeq(text, i, n)
  BY DEF PieceAt
<1> HIDE DEF n
<1>4. \A j \in i .. n : text[j] \in A
  BY <1>0, <1>2
<1>5. /\ SubSeq(text, i, n) \in Seq(A)
      /\ Len(SubSeq(text, i, n)) = n - i + 1
      /\ \A j \in 1 .. n - i + 1 : SubSeq(text, i, n)[j] = text[i + j - 1]
  BY <1>2, <1>4, SubSeqProperties
<1> QED BY <1>1, <1>2, <1>3, <1>5

(* A text with a token in front is a text.                                 *)
LEMMA ConsType ==
  ASSUME NEW A
  PROVE  \A x \in A, s \in Seq(A) : Cons(x, s) \in Seq(A)
BY ConcatProperties DEF Cons

(* The recursion of Pieces has a solution.                                 *)
LEMMA CuttingExists ==
  ASSUME NEW A, NEW text \in Seq(A)
  PROVE  \E f \in [1 .. Len(text) + 1 -> Seq(Seq(A))] : Cuts(f, text, 1)
<1> DEFINE L == Len(text)
           E(m) == \E f \in [1 .. L + 1 -> Seq(Seq(A))] : Cuts(f, text, m)
           T == {n \in Nat : n <= L => E(L + 1 - n)}
<1>0. L \in Nat
  BY LenProperties
<1>1. \A i \in 1 .. L : After(text, i) \in i + 1 .. L + 1 /\ PieceAt(text, i) \in Seq(A)
  BY PieceType
<1>2. <<>> \in Seq(Seq(A))
  BY EmptySeq
<1>3. \A x \in Seq(A), s \in Seq(Seq(A)) : Cons(x, s) \in Seq(Seq(A))
  BY ConsType
<1>4. ASSUME NEW n \in Nat, \A k \in Nat : k < n => k \in T PROVE n \in T
  <2> SUFFICES ASSUME n <= L PROVE E(L + 1 - n)
    OBVIOUS
  <2>1. CASE n = 0
    <3> DEFINE f == [i \in 1 .. L + 1 |-> <<>>]
    <3>1. f \in [1 .. L + 1 -> Seq(Seq(A))] /\ f[L + 1] = <<>>
      BY <1>0, <1>2
    <3> HIDE DEF f
    <3>2. \A i \in L + 1 .. L : FALSE
      BY <1>0
    <3>3. Cuts(f, text, L + 1)
      BY <3>1, <3>2 DEF Cuts
    <3>4. L + 1 - n = L + 1
      BY <1>0, <2>1
    <3> QED BY <3>1, <3>3, <3>4
  <2>2. CASE n > 0
    <3> DEFINE m == L + 1 - n
    <3>1. /\ n - 1 \in Nat /\ n - 1 < n /\ n - 1 <= L /\ L + 1 - (n - 1) = m + 1
          /\ m \in 1 .. L
      BY <1>0, <2>2
    <3> HIDE DEF m
    <3>2. PICK g \in [1 .. L + 1 -> Seq(Seq(A))] : Cuts(g, text, m + 1)
      BY <1>4, <3>1
    <3> DEFINE v == Cons(PieceAt(text, m), g[After(text, m)])
               f == [g EXCEPT ![m] = v]
    <3>3. After(text, m) \in m + 1 .. L + 1 /\ After(text, m) \in 1 .. L + 1
      BY <1>0, <1>1, <3>1
    <3>4. v \in Seq(Seq(A))
      BY <1>1, <1>3, <3>1, <3>3
    <3> HIDE DEF v
    <3>5. /\ f \in [1 .. L + 1 -> Seq(Seq(A))] /\ f[m] = v
          /\ \A i \in m + 1 .. L + 1 : f[i] = g[i]
      BY <1>0, <3>1, <3>4
    <3> HIDE DEF f
    <3>6. f[L + 1] = <<>>
      <4>1. L + 1 \in m + 1 .. L + 1
        BY <1>0, <3>1
      <4> QED BY <3>2, <3>5, <4>1 DEF Cuts
    <3>7. ASSUME NEW i \in m .. L PROVE f[i] = Cons(PieceAt(text, i), f[After(text, i)])
      <4>1. CASE i = m
        <5>1. f[After(text, m)] = g[After(text, m)]
          BY <3>3, <3>5
        <5> QED BY <3>5, <4>1, <5>1 DEF v
      <4>2. CASE i # m
        <5>1. i \in m + 1 .. L /\ i \in m + 1 .. L + 1 /\ i \in 1 .. L
          BY <1>0, <3>1, <4>2
        <5>2. After(text, i) \in m + 1 .. L + 1
          BY <1>0, <1>1, <3>1, <5>1
        <5>3. g[i] = Cons(PieceAt(text, i), g[After(text, i)])
          BY <3>2, <5>1 DEF Cuts
        <5> QED BY <3>5, <5>1, <5>2, <5>3
      <4> QED BY <4>1, <4>2
    <3>8. Cuts(f, text, m)
      BY <3>6, <3>7 DEF Cuts
    <3> QED BY <3>5, <3>8 DEF m
  <2> QED BY <2>1, <2>2
<1> HIDE DEF T
<1>5. \A n \in Nat : n \in T
  BY <1>4, Induction, Zenon
<1>6. E(L + 1 - L)
  BY <1>0, <1>5 DEF T
<1>7. L + 1 - L = 1
  BY <1>0
<1> QED BY <1>6, <1>7

(* Pieces is the first value of a solution of its recursion.               *)
LEMMA PiecesCut ==
  ASSUME NEW A, NEW text \in Seq(A)
  PROVE  \E f \in [1 .. Len(text) + 1 -> Seq(Seq(A))] :
           Cuts(f, text, 1) /\ Pieces(text) = f[1]
<1> DEFINE next(i) == IF MarkerAt(text, i) THEN i + 3 ELSE i + 1
           Rec(g) == g = [i \in 1 .. Len(text) + 1 |->
                            IF i > Len(text) THEN <<>>
                            ELSE <<SubSeq(text, i, next(i) - 1)>> \o g[next(i)]]
           c == CHOOSE g : Rec(g)
           L == Len(text)
<1>0. L \in Nat
  BY LenProperties
<1>1. Pieces(text) = c[1]
  BY DEF Pieces
<1>2. \A i : next(i) = After(text, i) /\ SubSeq(text, i, next(i) - 1) = PieceAt(text, i)
  BY Zenon DEF After, PieceAt
<1> HIDE DEF next
<1>3. \A g, i : <<SubSeq(text, i, next(i) - 1)>> \o g[next(i)]
                  = Cons(PieceAt(text, i), g[After(text, i)])
  BY <1>2, Zenon DEF Cons
<1>4. \A g : Rec(g) <=> g = [i \in 1 .. L + 1 |->
                               IF i > L THEN <<>>
                               ELSE Cons(PieceAt(text, i), g[After(text, i)])]
  BY <1>3, Zenon
<1> HIDE DEF Rec, L
<1>5. PICK h \in [1 .. L + 1 -> Seq(Seq(A))] : Cuts(h, text, 1)
  BY CuttingExists DEF L
<1>6. Rec(h)
  <2>1. /\ h[L + 1] = <<>>
        /\ \A i \in 1 .. L : h[i] = Cons(PieceAt(text, i), h[After(text, i)])
    BY <1>5 DEF Cuts, L
  <2>2. \A i \in 1 .. L + 1 : (i > L => i = L + 1) /\ (~ (i > L) => i \in 1 .. L)
    BY <1>0
  <2>3. \A i \in 1 .. L + 1 :
          h[i] = IF i > L THEN <<>> ELSE Cons(PieceAt(text, i), h[After(text, i)])
    BY <2>1, <2>2, Zenon
  <2>4. h = [i \in 1 .. L + 1 |->
               IF i > L THEN <<>> ELSE Cons(PieceAt(text, i), h[After(text, i)])]
    BY <2>3
  <2> QED BY <1>4, <2>4, Zenon
<1>7. Rec(c)
  BY <1>6, Zenon
<1> HIDE DEF c
<1>8. /\ DOMAIN c = 1 .. L + 1
      /\ \A i \in 1 .. L + 1 :
           c[i] = IF i > L THEN <<>> ELSE Cons(PieceAt(text, i), c[After(text, i)])
  <2>1. c = [i \in 1 .. L + 1 |->
               IF i > L THEN <<>> ELSE Cons(PieceAt(text, i), c[After(text, i)])]
    BY <1>4, <1>7, Zenon
  <2> QED BY <2>1, Zenon
<1>9. Cuts(c, text, 1)
  <2>1. L + 1 \in 1 .. L + 1 /\ L + 1 > L
    BY <1>0
  <2>2. \A i \in 1 .. L : i \in 1 .. L + 1 /\ ~ (i > L)
    BY <1>0
  <2>3. c[L + 1] = <<>> /\ \A i \in 1 .. L : c[i] = Cons(PieceAt(text, i), c[After(text, i)])
    BY <1>8, <2>1, <2>2, Zenon
  <2> QED BY <2>3 DEF Cuts, L
<1>10. ASSUME NEW i \in 1 .. L + 1 PROVE c[i] \in Seq(Seq(A))
  <2>a. \A j \in 1 .. L : After(text, j) \in j + 1 .. L + 1 /\ PieceAt(text, j) \in Seq(A)
    BY PieceType DEF L
  <2>b. \A x \in Seq(A), s \in Seq(Seq(A)) : Cons(x, s) \in Seq(Seq(A))
    BY ConsType
  <2>c. <<>> \in Seq(Seq(A))
    BY EmptySeq
  <2> DEFINE T == {n \in Nat : n <= L => c[L + 1 - n] \in Seq(Seq(A))}
  <2>1. ASSUME NEW n \in Nat, \A k \in Nat : k < n => k \in T PROVE n \in T
    <3> SUFFICES ASSUME n <= L PROVE c[L + 1 - n] \in Seq(Seq(A))
      OBVIOUS
    <3>1. CASE n = 0
      <4>1. L + 1 - n \in 1 .. L + 1 /\ L + 1 - n > L
        BY <1>0, <3>1
      <4> QED BY <1>8, <2>c, <4>1, Zenon
    <3>2. CASE n > 0
      <4> DEFINE j == L + 1 - n
                 k == L + 1 - After(text, j)
      <4>1. j \in 1 .. L /\ j \in 1 .. L + 1 /\ ~ (j > L)
        BY <1>0, <3>2
      <4>2. After(text, j) \in j + 1 .. L + 1 /\ PieceAt(text, j) \in Seq(A)
        BY <2>a, <4>1
      <4>3. k \in Nat /\ k < n /\ k <= L /\ L + 1 - k = After(text, j)
        BY <1>0, <3>2, <4>2
      <4>4. c[After(text, j)] \in Seq(Seq(A))
        BY <2>1, <4>3
      <4>5. c[j] = Cons(PieceAt(text, j), c[After(text, j)])
        BY <1>8, <4>1, Zenon
      <4> QED BY <2>b, <4>2, <4>4, <4>5
    <3> QED BY <3>1, <3>2
  <2> HIDE DEF T
  <2>2. \A n \in Nat : n \in T
    BY <2>1, Induction, Zenon
  <2>3. L + 1 - i \in Nat /\ L + 1 - i <= L /\ L + 1 - (L + 1 - i) = i
    BY <1>0
  <2> QED BY <2>2, <2>3 DEF T
<1>11. c \in [1 .. L + 1 -> Seq(Seq(A))]
  <2>1. c = [i \in 1 .. L + 1 |-> c[i]]
    BY <1>4, <1>7, <1>8, Zenon
  <2> QED BY <1>10, <2>1
<1> QED BY <1>1, <1>9, <1>11 DEF L

(* The pieces of a text are texts.                                         *)
LEMMA PiecesType ==
  ASSUME NEW A
  PROVE  \A text \in Seq(A) : Pieces(text) \in Seq(Seq(A))
<1> SUFFICES ASSUME NEW text \in Seq(A) PROVE Pieces(text) \in Seq(Seq(A))
  OBVIOUS
<1>1. PICK f \in [1 .. Len(text) + 1 -> Seq(Seq(A))] :
        Cuts(f, text, 1) /\ Pieces(text) = f[1]
  BY PiecesCut
<1>2. 1 \in 1 .. Len(text) + 1
  BY LenProperties
<1> QED BY <1>1, <1>2

(* The empty text has no pieces.                                           *)
LEMMA PiecesNone ==
  Pieces(<<>>) = <<>>
<1> DEFINE text == <<>>
<1>1. text \in Seq({}) /\ Len(text) + 1 = 1
  BY EmptySeq
<1> HIDE DEF text
<1>2. PICK f \in [1 .. Len(text) + 1 -> Seq(Seq({}))] :
        Cuts(f, text, 1) /\ Pieces(text) = f[1]
  BY <1>1, PiecesCut
<1>3. Pieces(text) = <<>>
  BY <1>1, <1>2, Zenon DEF Cuts
<1> QED BY <1>3 DEF text

\* rest is what follows the first m tokens of the text.
Follows(rest, text, m) ==
  /\ Len(rest) = Len(text) - m
  /\ \A j \in 1 .. Len(rest) : rest[j] = text[j + m]

(* What follows the first m tokens is cut the same way by itself.          *)
LEMMA SameCuts ==
  ASSUME NEW A, NEW text \in Seq(A), NEW m \in 0 .. Len(text), NEW rest \in Seq(A),
         Follows(rest, text, m),
         NEW f, Cuts(f, text, 1), NEW g, Cuts(g, rest, 1)
  PROVE  f[1 + m] = g[1]
<1> DEFINE L == Len(text)
           R == Len(rest)
           T == {n \in Nat : n <= R => f[R + 1 - n + m] = g[R + 1 - n]}
<1>0. L \in Nat /\ R \in Nat /\ m \in Nat /\ R = L - m /\ L = R + m
  BY LenProperties DEF Follows
<1>f. \A j \in 1 .. R : rest[j] = text[j + m]
  BY DEF Follows
<1>1. ASSUME NEW j \in 1 .. R
      PROVE  /\ After(text, j + m) = After(rest, j) + m
             /\ PieceAt(text, j + m) = PieceAt(rest, j)
             /\ After(rest, j) \in j + 1 .. R + 1
  <2>1. MarkerAt(text, j + m) <=> MarkerAt(rest, j)
    <3>1. j + m + 2 <= L <=> j + 2 <= R
      BY <1>0
    <3>2. CASE j + 2 <= R
      <4>1. /\ j \in 1 .. R /\ j + 1 \in 1 .. R /\ j + 2 \in 1 .. R
            /\ j + m + 1 = j + 1 + m /\ j + m + 2 = j + 2 + m
        BY <1>0, <3>2
      <4>2. rest[j] = text[j + m] /\ rest[j + 1] = text[j + m + 1]
            /\ rest[j + 2] = text[j + m + 2]
        BY <1>f, <4>1
      <4> QED BY <3>1, <4>2 DEF MarkerAt
    <3>3. CASE ~ (j + 2 <= R)
      BY <3>1, <3>3 DEF MarkerAt
    <3> QED BY <3>2, <3>3
  <2>2. After(text, j + m) = After(rest, j) + m
    BY <1>0, <2>1 DEF After
  <2>3. /\ After(rest, j) \in j + 1 .. R + 1
        /\ PieceAt(rest, j) \in Seq(A)
        /\ Len(PieceAt(rest, j)) = After(rest, j) - j
        /\ \A i \in 1 .. After(rest, j) - j : PieceAt(rest, j)[i] = rest[j + i - 1]
    BY PieceType
  <2>4. j + m \in 1 .. L
    BY <1>0
  <2>5. /\ PieceAt(text, j + m) \in Seq(A)
        /\ Len(PieceAt(text, j + m)) = After(text, j + m) - (j + m)
        /\ \A i \in 1 .. After(text, j + m) - (j + m) :
             PieceAt(text, j + m)[i] = text[j + m + i - 1]
    BY <2>4, PieceType
  <2>6. After(text, j + m) - (j + m) = After(rest, j) - j
    BY <1>0, <2>2, <2>3
  <2>7. ASSUME NEW i \in 1 .. After(rest, j) - j
        PROVE  PieceAt(text, j + m)[i] = PieceAt(rest, j)[i]
    <3>1. j + i - 1 \in 1 .. R /\ j + m + i - 1 = j + i - 1 + m
      BY <1>0, <2>3
    <3>2. rest[j + i - 1] = text[j + m + i - 1]
      BY <1>f, <3>1
    <3> QED BY <2>3, <2>5, <2>6, <3>2
  <2>8. PieceAt(text, j + m) = PieceAt(rest, j)
    BY <2>3, <2>5, <2>6, <2>7, SeqEqual
  <2> QED BY <2>2, <2>3, <2>8
<1>2. ASSUME NEW n \in Nat, \A k \in Nat : k < n => k \in T PROVE n \in T
  <2> SUFFICES ASSUME n <= R PROVE f[R + 1 - n + m] = g[R + 1 - n]
    OBVIOUS
  <2>1. CASE n = 0
    <3>1. R + 1 - n + m = L + 1 /\ R + 1 - n = R + 1
      BY <1>0, <2>1
    <3> QED BY <3>1 DEF Cuts
  <2>2. CASE n > 0
    <3> DEFINE j == R + 1 - n
               k == R + 1 - After(rest, j)
    <3>1. j \in 1 .. R /\ j + m \in 1 .. L /\ R + 1 - n + m = j + m
      BY <1>0, <2>2
    <3>2. /\ After(text, j + m) = After(rest, j) + m
          /\ PieceAt(text, j + m) = PieceAt(rest, j)
          /\ After(rest, j) \in j + 1 .. R + 1
      BY <1>1, <3>1
    <3>3. k \in Nat /\ k < n /\ k <= R /\ R + 1 - k = After(rest, j)
      <4> DEFINE a == After(rest, j)
      <4>1. a \in j + 1 .. R + 1
        BY <3>2
      <4> HIDE DEF a, R
      <4>2. R + 1 - a \in Nat /\ R + 1 - a < n /\ R + 1 - a <= R /\ R + 1 - (R + 1 - a) = a
        BY <1>0, <2>2, <4>1
      <4> QED BY <4>2 DEF a
    <3>4. f[After(rest, j) + m] = g[After(rest, j)]
      BY <1>2, <3>3
    <3>5. f[j + m] = Cons(PieceAt(text, j + m), f[After(text, j + m)])
      BY <3>1 DEF Cuts
    <3>6. g[j] = Cons(PieceAt(rest, j), g[After(rest, j)])
      BY <3>1 DEF Cuts
    <3> QED BY <3>1, <3>2, <3>4, <3>5, <3>6
  <2> QED BY <2>1, <2>2
<1> HIDE DEF T
<1>3. \A n \in Nat : n \in T
  BY <1>2, Induction, Zenon
<1>r. R \in T /\ R <= R
  BY <1>0, <1>3
<1>4. f[R + 1 - R + m] = g[R + 1 - R]
  BY <1>r DEF T
<1>5. R + 1 - R + m = 1 + m /\ R + 1 - R = 1
  BY <1>0
<1> QED BY <1>4, <1>5

\* The text behind its first piece.
Behind(text) == SubSeq(text, After(text, 1), Len(text))

(* What is behind the first piece is shorter than the text.                *)
LEMMA BehindType ==
  ASSUME NEW A
  PROVE  \A text \in Seq(A) : Len(text) > 0 =>
           /\ Behind(text) \in Seq(A)
           /\ Len(Behind(text)) = Len(text) - (After(text, 1) - 1)
           /\ Len(Behind(text)) < Len(text)
           /\ \A j \in 1 .. Len(Behind(text)) : Behind(text)[j] = text[j + (After(text, 1) - 1)]
<1> SUFFICES ASSUME NEW text \in Seq(A), Len(text) > 0
             PROVE  /\ Behind(text) \in Seq(A)
                    /\ Len(Behind(text)) = Len(text) - (After(text, 1) - 1)
                    /\ Len(Behind(text)) < Len(text)
                    /\ \A j \in 1 .. Len(Behind(text)) :
                         Behind(text)[j] = text[j + (After(text, 1) - 1)]
  OBVIOUS
<1> DEFINE n == After(text, 1)
           L == Len(text)
<1>0. L \in Nat /\ 1 \in 1 .. L /\ \A i \in 1 .. L : text[i] \in A
  BY LenProperties, ElementOfSeq
<1>1. n \in 2 .. L + 1
  BY <1>0, PieceType
<1>2. Behind(text) = SubSeq(text, n, L)
  BY DEF Behind
<1> HIDE DEF n, L
<1>3. n \in Int /\ L \in Int /\ \A i \in n .. L : text[i] \in A
  BY <1>0, <1>1
<1>4. /\ SubSeq(text, n, L) \in Seq(A)
      /\ Len(SubSeq(text, n, L)) = IF n <= L THEN L - n + 1 ELSE 0
      /\ \A i \in 1 .. L - n + 1 : SubSeq(text, n, L)[i] = text[n + i - 1]
  BY <1>3, SubSeqProperties
<1>5. Len(Behind(text)) = L - (n - 1) /\ Len(Behind(text)) < L
  BY <1>0, <1>1, <1>2, <1>4
<1>6. \A j \in 1 .. Len(Behind(text)) : Behind(text)[j] = text[j + (n - 1)]
  <2> SUFFICES ASSUME NEW j \in 1 .. Len(Behind(text))
               PROVE  Behind(text)[j] = text[j + (n - 1)]
    OBVIOUS
  <2>1. j \in 1 .. L - n + 1 /\ n + j - 1 = j + (n - 1)
    BY <1>3, <1>5
  <2> QED BY <1>2, <1>4, <2>1
<1> QED BY <1>2, <1>4, <1>5, <1>6 DEF n, L

(* The pieces are the first one and those of what is behind it.            *)
LEMMA PiecesStep ==
  ASSUME NEW A
  PROVE  \A text \in Seq(A) : Len(text) > 0 =>
           Pieces(text) = Cons(PieceAt(text, 1), Pieces(Behind(text)))
<1>s. \A t, r \in Seq(A) : \A k \in 0 .. Len(t) : \A u, v :
        Follows(r, t, k) /\ Cuts(u, t, 1) /\ Cuts(v, r, 1) => u[1 + k] = v[1]
  BY SameCuts
<1> SUFFICES ASSUME NEW text \in Seq(A), Len(text) > 0
             PROVE  Pieces(text) = Cons(PieceAt(text, 1), Pieces(Behind(text)))
  OBVIOUS
<1> DEFINE rest == Behind(text)
           m == After(text, 1) - 1
<1>1. Len(text) \in Nat /\ 1 \in 1 .. Len(text)
  BY LenProperties
<1>2. After(text, 1) \in 2 .. Len(text) + 1
  BY <1>1, PieceType
<1>3. m \in 0 .. Len(text) /\ 1 + m = After(text, 1)
  BY <1>1, <1>2
<1>4. rest \in Seq(A) /\ Follows(rest, text, m)
  BY BehindType DEF Follows
<1>5. PICK f \in [1 .. Len(text) + 1 -> Seq(Seq(A))] :
        Cuts(f, text, 1) /\ Pieces(text) = f[1]
  BY PiecesCut
<1> HIDE DEF rest, m
<1>6. PICK g \in [1 .. Len(rest) + 1 -> Seq(Seq(A))] :
        Cuts(g, rest, 1) /\ Pieces(rest) = g[1]
  BY <1>4, PiecesCut
<1>7. f[1 + m] = g[1]
  BY <1>s, <1>3, <1>4, <1>5, <1>6
<1>8. f[1] = Cons(PieceAt(text, 1), f[After(text, 1)])
  BY <1>1, <1>5 DEF Cuts
<1> QED BY <1>3, <1>5, <1>6, <1>7, <1>8 DEF rest

-----------------------------------------------------------------------------
(* Markers                                                                 *)

(* What is needed of quotient and remainder.                               *)
LEMMA Division ==
  ASSUME NEW n \in Nat, NEW b \in Nat, b > 1
  PROVE  /\ n \div b \in Nat /\ n % b \in 0 .. b - 1
         /\ n = b * (n \div b) + (n % b)
         /\ n < b * b => n \div b < b /\ (n \div b) % b = n \div b
<1> DEFINE q == n \div b
           r == n % b
<1>1. q \in Int /\ r \in 0 .. b - 1 /\ n = b * q + r
  OBVIOUS
<1> HIDE DEF q, r
<1>2. q >= 0
  <2>1. CASE q < 0
    <3>1. q <= -1
      BY <1>1, <2>1
    <3>2. b * q <= b * (-1)
      BY <1>1, <3>1
    <3> QED BY <1>1, <3>2
  <2> QED BY <1>1, <2>1
<1>3. ASSUME n < b * b PROVE q < b
  <2>1. CASE q >= b
    <3> DEFINE d == q - b
    <3>0. d \in Nat /\ q = b + d
      BY <1>1, <2>1
    <3> HIDE DEF d
    <3>1. b * d \in Nat /\ b * (b + d) = b * b + b * d /\ b * b \in Nat
      BY <3>0
    <3> QED BY <1>1, <1>3, <3>0, <3>1
  <2> QED BY <1>1, <2>1
<1>4. ASSUME q < b PROVE q % b = q
  BY <1>1, <1>2, <1>4
<1> QED BY <1>1, <1>2, <1>3, <1>4 DEF q, r

\* The digits, as a set.
Digital == ToSet(Digits)

(* Digits and their values belong together.                                *)
LEMMA DigitFacts ==
  /\ Base \in Nat /\ Base > 1
  /\ \A n \in Nat : Digit(n) \in Digital
  /\ \A c \in Digital : Value(c) \in 0 .. Base - 1
  /\ \A i \in 0 .. Base - 1 : Value(Digits[i + 1]) = i
<1>1. /\ DOMAIN Digits = 1 .. Base /\ Base \in Nat /\ Base > 1
      /\ \A i, j \in 1 .. Base : Digits[i] = Digits[j] => i = j
  BY TextAssumption, LenProperties DEF TextAssumption, Base, IsInjective
<1>2. ASSUME NEW n \in Nat PROVE Digit(n) \in Digital
  <2>1. (n % Base) + 1 \in 1 .. Base
    BY <1>1, Division
  <2> QED BY <1>1, <2>1 DEF Digit, Digital, ToSet
<1>3. ASSUME NEW j \in 1 .. Base
      PROVE  (CHOOSE i \in DOMAIN Digits : Digits[i] = Digits[j]) = j
  BY <1>1
<1>4. ASSUME NEW j \in 1 .. Base PROVE Value(Digits[j]) = j - 1
  BY <1>3 DEF Value
<1>5. ASSUME NEW c \in Digital PROVE Value(c) \in 0 .. Base - 1
  <2>1. PICK j \in 1 .. Base : c = Digits[j]
    BY <1>1 DEF Digital, ToSet
  <2> QED BY <1>1, <1>4, <2>1
<1>6. ASSUME NEW i \in 0 .. Base - 1 PROVE Value(Digits[i + 1]) = i
  <2>1. i + 1 \in 1 .. Base /\ (i + 1) - 1 = i
    BY <1>1
  <2> QED BY <1>4, <2>1
<1> QED BY <1>1, <1>2, <1>5, <1>6

(* Characters, digits and fields do not overlap where they must not.       *)
LEMMA CharFacts ==
  /\ Digital \subseteq Chars /\ "%" \in Chars /\ "%" \notin Digital
  /\ Fields \intersect Chars = {}
  /\ \A c : IsDigit(c) <=> c \in Digital
BY TextAssumption DEF TextAssumption, Digital, Chars, IsDigit

(* Two and three characters in a row.                                      *)
LEMMA Strings ==
  ASSUME NEW A, NEW a \in A, NEW b \in A, NEW c \in A, NEW d \in A
  PROVE  /\ <<a>> \o <<>> \o <<b, c>> \in Seq(A)
         /\ <<a>> \o <<>> \o <<b, c>> = <<a, b, c>>
         /\ <<a>> \o <<d>> \o <<b, c>> \in Seq(A)
<1>1. <<a>> \in Seq(A) /\ <<d>> \in Seq(A) /\ <<b, c>> \in Seq(A) /\ <<>> \in Seq(A)
      /\ <<a, b, c>> \in Seq(A) /\ Len(<<a>>) = 1 /\ Len(<<b, c>>) = 2
  OBVIOUS
<1>2. <<a>> \o <<>> = <<a>>
  BY <1>1, ConcatEmptySeq
<1>3. <<a>> \o <<b, c>> \in Seq(A) /\ (<<a>> \o <<d>>) \o <<b, c>> \in Seq(A)
  BY <1>1, ConcatProperties
<1>4. <<a>> \o <<b, c>> = <<a, b, c>>
  <2> DEFINE u == <<a>>
             v == <<b, c>>
             s == u \o v
             t == <<a, b, c>>
  <2>1. u \in Seq(A) /\ Len(u) = 1 /\ u[1] = a
    OBVIOUS
  <2>2. v \in Seq(A) /\ Len(v) = 2 /\ v[1] = b /\ v[2] = c
    OBVIOUS
  <2>3. t \in Seq(A) /\ Len(t) = 3 /\ t[1] = a /\ t[2] = b /\ t[3] = c
    OBVIOUS
  <2> HIDE DEF u, v, t
  <2>4. /\ s \in Seq(A) /\ Len(s) = Len(u) + Len(v)
        /\ \A i \in 1 .. Len(u) + Len(v) :
             s[i] = IF i <= Len(u) THEN u[i] ELSE v[i - Len(u)]
    BY <2>1, <2>2, ConcatProperties
  <2> HIDE DEF s
  <2>5. Len(s) = 3 /\ s[1] = u[1] /\ s[2] = v[1] /\ s[3] = v[2]
    BY <2>1, <2>2, <2>4
  <2>6. \A i \in 1 .. Len(s) : s[i] = t[i]
    <3>1. \A i \in 1 .. 3 : i = 1 \/ i = 2 \/ i = 3
      OBVIOUS
    <3> QED BY <2>1, <2>2, <2>3, <2>5, <3>1
  <2>7. s = t
    BY <2>3, <2>4, <2>5, <2>6, SeqEqual
  <2> QED BY <2>7 DEF s, t, u, v
<1> QED BY <1>2, <1>3, <1>4

(* A marker is characters.                                                 *)
LEMMA MarkerType ==
  \A n \in Nat : Marker(n) \in Seq(Chars)
<1> SUFFICES ASSUME NEW n \in Nat PROVE Marker(n) \in Seq(Chars)
  OBVIOUS
<1>1. n \div Base \in Nat /\ n \div (Base * Base) \in Nat
  <2>1. Base \in Nat /\ Base > 1
    BY DigitFacts
  <2>2. Base * Base \in Nat /\ Base * Base > 1
    BY <2>1
  <2> QED BY <2>1, <2>2, Division
<1> DEFINE a == Digit(n \div Base)
           b == Digit(n)
           c == Digit(n \div (Base * Base))
<1>2. a \in Chars /\ b \in Chars /\ c \in Chars /\ "%" \in Chars
  BY <1>1, DigitFacts, CharFacts
<1>3. Marker(n) = <<"%">> \o (IF n \div Base < Base THEN <<>> ELSE <<c>>) \o <<a, b>>
  BY DEF Marker
<1> HIDE DEF a, b, c
<1>4. <<"%">> \o <<>> \o <<a, b>> \in Seq(Chars) /\ <<"%">> \o <<c>> \o <<a, b>> \in Seq(Chars)
  BY <1>2, Strings
<1> QED BY <1>3, <1>4

\* A marker of three characters that stands for n.
MarkerOf(m, n) ==
  /\ m \in Seq(Chars) /\ Len(m) = 3 /\ m[1] = "%"
  /\ m[2] \in Digital /\ m[3] \in Digital
  /\ Index(m) = n

(* An index below Base * Base is written with two digits and read back.    *)
LEMMA MarkerShort ==
  \A n \in Nat : n < Base * Base => MarkerOf(Marker(n), n)
<1> TAKE n \in Nat
<1> HAVE n < Base * Base
<1> DEFINE q == n \div Base
           r == n % Base
           a == Digit(q)
           b == Digit(n)
<1>1. Base \in Nat /\ Base > 1
  BY DigitFacts
<1>2. /\ q \in Nat /\ r \in 0 .. Base - 1 /\ n = Base * q + r /\ q < Base
      /\ q % Base = q
  BY <1>1, Division
<1>3. a = Digits[q + 1] /\ b = Digits[r + 1]
  BY <1>2 DEF Digit
<1>4. a \in Digital /\ b \in Digital
  BY <1>2, DigitFacts
<1>5. Value(a) = q /\ Value(b) = r
  <2>1. q \in 0 .. Base - 1 /\ r \in 0 .. Base - 1
    BY <1>1, <1>2
  <2> QED BY <1>3, <2>1, DigitFacts
<1>6. Marker(n) = <<"%">> \o <<>> \o <<a, b>>
  BY <1>2 DEF Marker
<1> HIDE DEF a, b
<1>7. a \in Chars /\ b \in Chars /\ "%" \in Chars
  BY <1>4, CharFacts
<1>8. Marker(n) = <<"%", a, b>>
  BY <1>6, <1>7, Strings
<1>9. Index(Marker(n)) = n
  BY <1>2, <1>5, <1>8 DEF Index
<1>10. Marker(n) \in Seq(Chars) /\ Len(Marker(n)) = 3
  BY <1>7, <1>8
<1> QED BY <1>4, <1>8, <1>9, <1>10 DEF MarkerOf

-----------------------------------------------------------------------------
(* Counting: the k-th of a set of numbers                                  *)

\* The members of S up to n, which are counted.
UpTo(S, n) == {j \in S : j <= n}

(* Counting the members up to n, one number at a time.                     *)
LEMMA CountStep ==
  ASSUME NEW S, S \subseteq Nat, NEW n \in Nat
  PROVE  /\ IsFiniteSet(UpTo(S, n)) /\ Cardinality(UpTo(S, n)) \in Nat
         /\ n = 0 => Cardinality(UpTo(S, n)) <= 1
         /\ n \notin S /\ n = 0 => Cardinality(UpTo(S, n)) = 0
         /\ n > 0 => Cardinality(UpTo(S, n))
              = Cardinality(UpTo(S, n - 1)) + (IF n \in S THEN 1 ELSE 0)
<1>1. ASSUME NEW m \in Nat
      PROVE  /\ IsFiniteSet(UpTo(S, m)) /\ Cardinality(UpTo(S, m)) \in Nat
             /\ Cardinality(UpTo(S, m)) <= m + 1
  <2>1. UpTo(S, m) \in SUBSET Nat /\ \A s \in UpTo(S, m) : s <= m
    BY DEF UpTo
  <2>2. IsFiniteSet(UpTo(S, m)) /\ Cardinality(UpTo(S, m)) <= m + 1
    BY <2>1, FS_BoundedSetOfNaturals
  <2> QED BY <2>2, FS_CardinalityType
<1>2. ASSUME n = 0 PROVE Cardinality(UpTo(S, n)) <= 1
  BY <1>1, <1>2
<1>3. ASSUME n \notin S, n = 0 PROVE Cardinality(UpTo(S, n)) = 0
  <2>a. \A j \in Nat : j <= n => j = n
    BY <1>3
  <2>1. UpTo(S, n) = {}
    BY <1>3, <2>a, Zenon DEF UpTo
  <2> QED BY <2>1, FS_EmptySet
<1>4. ASSUME n > 0
      PROVE  Cardinality(UpTo(S, n))
               = Cardinality(UpTo(S, n - 1)) + (IF n \in S THEN 1 ELSE 0)
  <2>1. n - 1 \in Nat
    BY <1>4
  <2>2. IsFiniteSet(UpTo(S, n - 1)) /\ Cardinality(UpTo(S, n - 1)) \in Nat
    BY <1>1, <2>1
  <2>a. \A j \in S : j <= n <=> j <= n - 1 \/ j = n
    BY <1>4
  <2>b. ~ (n <= n - 1)
    OBVIOUS
  <2>3. CASE n \in S
    <3>1. UpTo(S, n) = UpTo(S, n - 1) \cup {n} /\ n \notin UpTo(S, n - 1)
      BY <2>3, <2>a, <2>b, Zenon DEF UpTo
    <3>2. Cardinality(UpTo(S, n)) = Cardinality(UpTo(S, n - 1)) + 1
      BY <2>2, <3>1, FS_AddElement
    <3> QED BY <2>3, <3>2
  <2>4. CASE n \notin S
    <3>1. UpTo(S, n) = UpTo(S, n - 1)
      BY <2>4, <2>a, Zenon DEF UpTo
    <3> QED BY <2>2, <2>4, <3>1
  <2> QED BY <2>3, <2>4
<1> QED BY <1>1, <1>2, <1>3, <1>4

(* What is counted to k or more is counted to k at an element.             *)
LEMMA KthElement ==
  ASSUME NEW S, S \subseteq Nat, NEW N \in Nat, NEW k \in Nat, k > 0,
         Cardinality(UpTo(S, N)) >= k
  PROVE  \E i \in S : i <= N /\ Cardinality(UpTo(S, i)) = k
<1> DEFINE c(n) == Cardinality(UpTo(S, n))
<1> SUFFICES ASSUME \A i \in S : i <= N => c(i) # k
             PROVE  FALSE
  OBVIOUS
<1>1. /\ \A n \in Nat : c(n) \in Nat
      /\ c(0) <= 1 /\ (0 \notin S => c(0) = 0)
      /\ \A n \in Nat : n > 0 => c(n) = c(n - 1) + (IF n \in S THEN 1 ELSE 0)
  BY CountStep
<1> HIDE DEF c
<1> DEFINE T == {n \in Nat : n <= N => c(n) < k}
<1>2. ASSUME NEW n \in Nat, \A j \in Nat : j < n => j \in T PROVE n \in T
  <2> SUFFICES ASSUME n <= N PROVE c(n) < k
    OBVIOUS
  <2>1. n \in S => c(n) # k
    OBVIOUS
  <2>2. CASE n = 0
    BY <1>1, <2>1, <2>2
  <2>3. CASE n > 0
    <3>1. n - 1 \in Nat /\ n - 1 < n /\ n - 1 <= N
      BY <2>3
    <3>2. c(n - 1) < k /\ c(n - 1) \in Nat
      BY <1>1, <1>2, <3>1
    <3>3. c(n) = c(n - 1) + (IF n \in S THEN 1 ELSE 0)
      BY <1>1, <2>3
    <3> QED BY <2>1, <3>2, <3>3
  <2> QED BY <2>2, <2>3
<1> HIDE DEF T
<1>3. \A n \in Nat : n \in T
  BY <1>2, Induction, Zenon
<1>4. c(N) < k
  BY <1>3 DEF T
<1>5. c(N) >= k
  BY DEF c
<1> QED BY <1>1, <1>4, <1>5

(* A set of numbers that is not empty has a least member.                  *)
LEMMA MinIsIn ==
  ASSUME NEW I, I \subseteq Nat, I # {}
  PROVE  Min(I) \in I /\ \A j \in I : Min(I) <= j
<1> DEFINE T == {n \in Nat : n \in I => \E m \in I : \A j \in I : m <= j}
<1>1. ASSUME NEW n \in Nat, \A k \in Nat : k < n => k \in T PROVE n \in T
  <2> SUFFICES ASSUME n \in I PROVE \E m \in I : \A j \in I : m <= j
    OBVIOUS
  <2>1. CASE \E k \in I : k < n
    BY <1>1, <2>1
  <2>2. CASE ~ \E k \in I : k < n
    BY <2>2
  <2> QED BY <2>1, <2>2
<1> HIDE DEF T
<1>2. \A n \in Nat : n \in T
  BY <1>1, Induction, Zenon
<1>3. \E m \in I : \A j \in I : m <= j
  BY <1>2 DEF T
<1> QED BY <1>3, Zenon DEF Min

(* The indexes a template uses are finite in number.                       *)
LEMMA ExtractFinite ==
  ASSUME NEW A, NEW text \in Seq(A)
  PROVE  IsFiniteSet(template_extract_parameters(text))
<1> DEFINE s == Pieces(text)
           M == {x \in ToSet(s) : IsMarker(x)}
           f == [x \in M |-> Index(x)]
<1>1. s \in Seq(Seq(A))
  BY PiecesType
<1> HIDE DEF s
<1>2. Len(s) \in Nat /\ s \in [1 .. Len(s) -> Seq(A)] /\ DOMAIN s = 1 .. Len(s)
  BY <1>1, LenProperties
<1>3. IsFiniteSet(1 .. Len(s))
  BY <1>2, FS_Interval
<1>4. s \in Surjection(1 .. Len(s), ToSet(s))
  BY <1>2 DEF Surjection, ToSet
<1>5. IsFiniteSet(ToSet(s))
  BY <1>3, <1>4, FS_Surjection
<1>6. IsFiniteSet(M)
  BY <1>5, FS_Subset
<1>7. f \in Surjection(M, {Index(x) : x \in M})
  BY DEF Surjection
<1>8. IsFiniteSet({Index(x) : x \in M})
  BY <1>6, <1>7, FS_Surjection
<1> QED BY <1>8 DEF template_extract_parameters, s

(* The k-th index outside fade is one, and only the k-th.                  *)
LEMMA ParamIndexFacts ==
  ASSUME NEW fade, IsFiniteSet(fade), NEW k \in Nat, k > 0
  PROVE  /\ ParamIndex(k, fade) \in Nat /\ ParamIndex(k, fade) \notin fade
         /\ Cardinality((0 .. ParamIndex(k, fade)) \ fade) = k
<1> DEFINE S == Nat \ fade
           N == k + Cardinality(fade)
<1>1. Cardinality(fade) \in Nat /\ N \in Nat
  BY FS_CardinalityType
<1>2. \A n \in Nat : UpTo(S, n) = (0 .. n) \ fade
  BY DEF UpTo
<1> HIDE DEF S, N
<1>3. Cardinality(UpTo(S, N)) >= k
  <2>1. IsFiniteSet(0 .. N) /\ Cardinality(0 .. N) = N + 1
    BY <1>1, FS_Interval
  <2>2. Cardinality((0 .. N) \ fade) = Cardinality(0 .. N) - Cardinality((0 .. N) \cap fade)
    BY <2>1, FS_Difference
  <2>3. IsFiniteSet((0 .. N) \cap fade) /\ Cardinality((0 .. N) \cap fade) <= Cardinality(fade)
    <3>1. (0 .. N) \cap fade \in SUBSET fade
      OBVIOUS
    <3> QED BY <3>1, FS_Subset
  <2>4. Cardinality((0 .. N) \cap fade) \in Nat
    BY <2>3, FS_CardinalityType
  <2>5. UpTo(S, N) = (0 .. N) \ fade
    BY <1>1, <1>2
  <2> DEFINE a == Cardinality((0 .. N) \cap fade)
             b == Cardinality(fade)
             d == Cardinality(UpTo(S, N))
             e == Cardinality(0 .. N)
  <2>a. N = k + b
    BY DEF N
  <2>b. d = e - a /\ e = N + 1
    BY <2>1, <2>2, <2>5, Zenon
  <2>6. N = k + b /\ b \in Nat /\ a \in Nat /\ a <= b /\ d = e - a /\ e = N + 1
    BY <1>1, <2>3, <2>4, <2>a, <2>b
  <2> HIDE DEF a, b, d, e, N
  <2>7. d >= k
    BY <2>6
  <2> QED BY <2>7 DEF d
<1>4. S \subseteq Nat /\ \A j \in S : j \notin fade
  BY DEF S
<1>5. PICK i \in S : i <= N /\ Cardinality(UpTo(S, i)) = k
  BY <1>1, <1>3, <1>4, KthElement
<1>6. i \in 0 .. N /\ i \notin fade /\ Cardinality((0 .. i) \ fade) = k
  <2>1. i \in Nat
    BY <1>4
  <2>2. UpTo(S, i) = (0 .. i) \ fade
    BY <1>2, <2>1
  <2> QED BY <1>1, <1>4, <1>5, <2>1, <2>2
<1>7. ParamIndex(k, fade) \in 0 .. N /\ ParamIndex(k, fade) \notin fade
      /\ Cardinality((0 .. ParamIndex(k, fade)) \ fade) = k
  BY <1>6, Zenon DEF ParamIndex, N
<1> QED BY <1>1, <1>7

-----------------------------------------------------------------------------
(* What save stores, when every field of the text exists                   *)

\* What a text may consist of.
Tokens == Chars \cup Fields

\* Where a field is mentioned for the first time.
FirstItems(label) ==
  {i \in DOMAIN label :
     label[i] \in Fields /\ \A j \in 1 .. i - 1 : label[j] # label[i]}

\* The k-th number of S.
Place(S, k) == CHOOSE i \in S : Cardinality({j \in S : j <= i}) = k

\* The fields of the text, in the order of their first item.
FieldsUsed(label) ==
  [k \in 1 .. Cardinality(FirstItems(label)) |-> label[Place(FirstItems(label), k)]]

\* The index of the k-th of them, and which one a field is.
IndexAt(label, k) == ParamIndex(k, template_extract_parameters(label))
PositionOf(label, x) == SelectInSeq(FieldsUsed(label), LAMBDA f : f = x)

\* What save writes for a token: a field becomes its marker.
Written(label, x) ==
  IF x \notin Fields THEN <<x>>
  ELSE IF x \in ToSet(FieldsUsed(label)) THEN Marker(IndexAt(label, PositionOf(label, x)))
  ELSE <<>>

WrittenFor(label) == [x \in Tokens |-> Written(label, x)]

\* The template that is stored.
Stored(label) ==
  [message |-> Through(WrittenFor(label), label),
   params  |-> [k \in DOMAIN FieldsUsed(label) |->
                  [index |-> IndexAt(label, k), field_id |-> FieldsUsed(label)[k]]]]

(* Every item of a field that has one is in the list of fields, once more  *)
(* than the items of other fields before its first one.                    *)
LEMMA FieldsUsedFacts ==
  ASSUME NEW label \in Seq(Tokens)
  PROVE  /\ FieldsUsed(label) \in Seq(Fields)
         /\ DOMAIN FieldsUsed(label) = 1 .. Len(FieldsUsed(label))
         /\ \A i \in 1 .. Len(label) : label[i] \in Fields =>
              \E k \in 1 .. Len(FieldsUsed(label)) : FieldsUsed(label)[k] = label[i]
<1> DEFINE S == FirstItems(label)
           L == Len(label)
           n == Cardinality(S)
<1>1. L \in Nat /\ DOMAIN label = 1 .. L
  BY LenProperties
<1> HIDE DEF L
<1>2. /\ S \subseteq 1 .. L /\ S \subseteq Nat
      /\ \A i \in S : label[i] \in Fields
      /\ \A i \in 1 .. L : label[i] \in Fields /\ (\A j \in 1 .. i - 1 : label[j] # label[i])
                           => i \in S
  BY <1>1 DEF FirstItems
<1> HIDE DEF S
<1>3. IsFiniteSet(S) /\ n \in Nat
  <2>1. IsFiniteSet(1 .. L)
    BY <1>1, FS_Interval
  <2>2. IsFiniteSet(S)
    BY <1>2, <2>1, FS_Subset
  <2> QED BY <2>2, FS_CardinalityType
<1>4. UpTo(S, L) = S
  <2>1. \A i \in S : i <= L
    BY <1>1, <1>2
  <2> QED BY <2>1 DEF UpTo
<1>5. \A i \in S : {j \in S : j <= i} = UpTo(S, i)
  BY DEF UpTo
<1> HIDE DEF n
<1>6. ASSUME NEW k \in 1 .. n
      PROVE  Place(S, k) \in S /\ Cardinality(UpTo(S, Place(S, k))) = k
  <2>1. k \in Nat /\ k > 0 /\ Cardinality(UpTo(S, L)) >= k
    BY <1>3, <1>4 DEF n
  <2>2. \E i \in S : Cardinality(UpTo(S, i)) = k
    BY <1>1, <1>2, <2>1, KthElement
  <2>3. \E i \in S : Cardinality({j \in S : j <= i}) = k
    BY <1>5, <2>2
  <2>4. Place(S, k) \in S /\ Cardinality({j \in S : j <= Place(S, k)}) = k
    BY <2>3, Zenon DEF Place
  <2> QED BY <1>5, <2>4
<1> DEFINE u == FieldsUsed(label)
<1>7. u = [k \in 1 .. n |-> label[Place(S, k)]]
  BY DEF FieldsUsed, S, n
<1> HIDE DEF u
<1>8. u \in [1 .. n -> Fields]
  BY <1>2, <1>6, <1>7
<1>9. u \in Seq(Fields) /\ Len(u) = n /\ DOMAIN u = 1 .. n
  BY <1>3, <1>8, FunctionIsSeq
<1>10. ASSUME NEW i \in 1 .. L, label[i] \in Fields
       PROVE  \E k \in 1 .. n : u[k] = label[i]
  <2> DEFINE J == {j \in 1 .. L : label[j] = label[i]}
             m == Min(J)
  <2>1. J \subseteq Nat /\ J # {} /\ J \subseteq 1 .. L
    OBVIOUS
  <2>2. \A j \in 1 .. L : j \in J <=> label[j] = label[i]
    OBVIOUS
  <2> HIDE DEF J
  <2>3. m \in J /\ \A j \in J : m <= j
    BY <2>1, MinIsIn
  <2> HIDE DEF m
  <2>4. m \in 1 .. L /\ label[m] = label[i]
    BY <2>1, <2>2, <2>3
  <2>5. \A j \in 1 .. m - 1 : label[j] # label[m]
    <3> SUFFICES ASSUME NEW j \in 1 .. m - 1, label[j] = label[m] PROVE FALSE
      OBVIOUS
    <3>1. j \in 1 .. L /\ ~ (m <= j)
      BY <1>1, <2>4
    <3>2. j \in J
      BY <2>2, <2>4, <3>1
    <3> QED BY <2>3, <3>1, <3>2
  <2>6. m \in S /\ m \in Nat
    BY <1>2, <1>10, <2>4, <2>5
  <2> DEFINE k == Cardinality(UpTo(S, m))
  <2>7. UpTo(S, m) \in SUBSET S /\ UpTo(S, m) # {}
    BY <2>6 DEF UpTo
  <2>8. IsFiniteSet(UpTo(S, m)) /\ k <= n /\ k \in Nat /\ k # 0
    <3>1. IsFiniteSet(UpTo(S, m)) /\ k <= n
      BY <1>3, <2>7, FS_Subset DEF n
    <3> QED BY <2>7, <3>1, FS_CardinalityType, FS_EmptySet
  <2> HIDE DEF k
  <2>9. k \in 1 .. n
    BY <1>3, <2>8
  <2> DEFINE p == Place(S, k)
  <2>10. p \in S /\ Cardinality(UpTo(S, p)) = k /\ p \in Nat
    BY <1>2, <1>6, <2>9
  <2> HIDE DEF p
  <2>11. \A a, b \in S : a < b =>
           /\ UpTo(S, a) \in SUBSET UpTo(S, b)
           /\ UpTo(S, a) # UpTo(S, b)
    <3> SUFFICES ASSUME NEW a \in S, NEW b \in S, a < b
                 PROVE  UpTo(S, a) \in SUBSET UpTo(S, b) /\ UpTo(S, a) # UpTo(S, b)
      OBVIOUS
    <3>1. a \in Nat /\ b \in Nat /\ ~ (b <= a) /\ b <= b
      BY <1>2
    <3>2. \A j \in S : j <= a => j <= b
      BY <1>2, <3>1
    <3>3. b \in UpTo(S, b) /\ b \notin UpTo(S, a)
      BY <3>1, Zenon DEF UpTo
    <3>4. UpTo(S, a) \in SUBSET UpTo(S, b)
      BY <3>2, Zenon DEF UpTo
    <3> QED BY <3>3, <3>4, Zenon
  <2>12. IsFiniteSet(UpTo(S, p))
    <3>1. UpTo(S, p) \in SUBSET S
      BY DEF UpTo
    <3> QED BY <1>3, <3>1, FS_Subset
  <2>13. ~ (m < p)
    BY <2>6, <2>8, <2>10, <2>11, <2>12, FS_Subset DEF k
  <2>14. ~ (p < m)
    BY <2>6, <2>8, <2>10, <2>11, FS_Subset DEF k
  <2>15. p = m
    BY <2>6, <2>10, <2>13, <2>14
  <2>16. u[k] = label[m]
    BY <1>7, <2>9, <2>15 DEF p
  <2> QED BY <2>4, <2>9, <2>16
<1> QED BY <1>9, <1>10 DEF u, L

(* A place is selected where there is one.                                 *)
LEMMA SelectFinds ==
  ASSUME NEW A, NEW s \in Seq(A), NEW x, \E i \in 1 .. Len(s) : s[i] = x
  PROVE  /\ SelectInSeq(s, LAMBDA f : f = x) \in 1 .. Len(s)
         /\ s[SelectInSeq(s, LAMBDA f : f = x)] = x
<1> DEFINE I == {i \in 1 .. Len(s) : s[i] = x}
<1>1. SelectInSeq(s, LAMBDA f : f = x) = IF I # {} THEN Min(I) ELSE 0
  BY DEF SelectInSeq
<1>2. I # {} /\ I \subseteq Nat
  BY LenProperties
<1>3. Min(I) \in I
  BY <1>2, MinIsIn
<1> QED BY <1>1, <1>2, <1>3

(* A text over a set is one over every larger set.                         *)
LEMMA SeqWider ==
  ASSUME NEW A, NEW B, A \subseteq B
  PROVE  \A s \in Seq(A) : s \in Seq(B)
BY SeqDef

(* What may be typed is a character or a field that exists.                *)
LEMMA TypableFacts ==
  ASSUME existing \subseteq UserFields
  PROVE  /\ Typable \subseteq Tokens
         /\ \A x \in Typable : x \in Fields => Existed(x)
         /\ \A x \in Typable : x \notin Fields => x \in Chars
BY CharFacts DEF Typable, Tokens, Fields, Existed

(* tedit_template::save stores what Stored says.                           *)
LEMMA SaveIsStored ==
  ASSUME existing \subseteq UserFields, NEW label \in Seq(Typable)
  PROVE  Save(label) = Stored(label)
<1>1. label \in Seq(Tokens)
  BY TypableFacts, SeqWider
<1>2. /\ Len(label) \in Nat /\ DOMAIN label = 1 .. Len(label)
      /\ \A i \in DOMAIN label : label[i] \in Typable /\ label[i] \in Tokens
  BY <1>1, LenProperties, ElementOfSeq
<1>3. \A i \in DOMAIN label : label[i] \in Fields => Existed(label[i])
  BY <1>2, TypableFacts
<1> DEFINE first == {i \in DOMAIN label :
                       /\ label[i] \in Fields /\ Existed(label[i])
                       /\ \A j \in 1 .. i - 1 : label[j] # label[i]}
<1>4. first = FirstItems(label)
  BY <1>3, Zenon DEF FirstItems
<1>5. UsedParams(label) =
        [k \in 1 .. Cardinality(first) |->
           label[CHOOSE i \in first : Cardinality({j \in first : j <= i}) = k]]
  BY DEF UsedParams
<1> HIDE DEF first
<1>6. UsedParams(label) = FieldsUsed(label)
  BY <1>4, <1>5 DEF FieldsUsed, Place
<1> DEFINE written(x) ==
             CASE x \notin Fields -> <<x>>
               [] x \in ToSet(UsedParams(label)) ->
                    Marker(ParamIndex(SelectInSeq(UsedParams(label), LAMBDA f : f = x),
                                      template_extract_parameters(label)))
               [] OTHER -> <<>>
           parts == [i \in DOMAIN label |-> written(label[i])]
           params == [k \in DOMAIN UsedParams(label) |->
                        [index |-> ParamIndex(k, template_extract_parameters(label)),
                         field_id |-> UsedParams(label)[k]]]
<1>7. Save(label) = [message |-> FlattenSeq(parts), params |-> params]
  BY DEF Save
<1>8. \A x : written(x) = Written(label, x)
  <2>1. ToSet(FieldsUsed(label)) \subseteq Fields
    BY <1>1, FieldsUsedFacts, LenProperties, ElementOfSeq DEF ToSet
  <2> TAKE x
  <2> DEFINE marker == Marker(IndexAt(label, PositionOf(label, x)))
  <2>2. written(x) = CASE x \notin Fields -> <<x>>
                       [] x \in ToSet(FieldsUsed(label)) -> marker
                       [] OTHER -> <<>>
    BY <1>6, Zenon DEF IndexAt, PositionOf
  <2>3. Written(label, x) = IF x \notin Fields THEN <<x>>
                            ELSE IF x \in ToSet(FieldsUsed(label)) THEN marker ELSE <<>>
    BY Zenon DEF Written
  <2> HIDE DEF marker, written
  <2> QED BY <2>1, <2>2, <2>3
<1> HIDE DEF written
<1>9. parts = Parts(WrittenFor(label), label)
  <2>1. \A i \in DOMAIN label : written(label[i]) = WrittenFor(label)[label[i]]
    BY <1>2, <1>8 DEF WrittenFor
  <2> QED BY <2>1 DEF Parts
<1>10. params = [k \in DOMAIN FieldsUsed(label) |->
                   [index |-> IndexAt(label, k), field_id |-> FieldsUsed(label)[k]]]
  BY <1>6, Zenon DEF IndexAt
<1> HIDE DEF parts, params
<1> QED BY <1>7, <1>9, <1>10, Zenon DEF Stored, Through

(* What is stored has the types of a template.                             *)
LEMMA StoredType ==
  ASSUME NEW label \in Seq(Tokens)
  PROVE  /\ Stored(label).message \in Seq(Chars)
         /\ Stored(label).params \in Seq([index : Nat, field_id : Fields])
         /\ Rewrites(WrittenFor(label), Tokens, Chars)
         /\ \A k \in 1 .. Len(FieldsUsed(label)) :
              /\ IndexAt(label, k) \in Nat
              /\ IndexAt(label, k) \notin template_extract_parameters(label)
              /\ Cardinality((0 .. IndexAt(label, k)) \ template_extract_parameters(label)) = k
         /\ \A x \in ToSet(FieldsUsed(label)) :
              /\ PositionOf(label, x) \in 1 .. Len(FieldsUsed(label))
              /\ FieldsUsed(label)[PositionOf(label, x)] = x
<1> DEFINE u == FieldsUsed(label)
           L == Len(u)
<1>1. u \in Seq(Fields) /\ DOMAIN u = 1 .. L /\ L \in Nat /\ \A k \in 1 .. L : u[k] \in Fields
  BY FieldsUsedFacts, LenProperties, ElementOfSeq
<1>2. IsFiniteSet(template_extract_parameters(label))
  BY ExtractFinite
<1>3. \A k \in 1 .. L :
        /\ IndexAt(label, k) \in Nat
        /\ IndexAt(label, k) \notin template_extract_parameters(label)
        /\ Cardinality((0 .. IndexAt(label, k)) \ template_extract_parameters(label)) = k
  <2> SUFFICES ASSUME NEW k \in 1 .. L
               PROVE  /\ IndexAt(label, k) \in Nat
                      /\ IndexAt(label, k) \notin template_extract_parameters(label)
                      /\ Cardinality((0 .. IndexAt(label, k)) \ template_extract_parameters(label)) = k
    OBVIOUS
  <2>1. k \in Nat /\ k > 0
    BY <1>1
  <2> QED BY <1>2, <2>1, ParamIndexFacts DEF IndexAt
<1>4. \A x \in ToSet(u) : PositionOf(label, x) \in 1 .. L /\ u[PositionOf(label, x)] = x
  <2> SUFFICES ASSUME NEW x \in ToSet(u)
               PROVE  PositionOf(label, x) \in 1 .. L /\ u[PositionOf(label, x)] = x
    OBVIOUS
  <2>1. \E i \in 1 .. L : u[i] = x
    BY <1>1 DEF ToSet
  <2> QED BY <1>1, <2>1, SelectFinds DEF PositionOf
<1> HIDE DEF u, L
<1>5. Rewrites(WrittenFor(label), Tokens, Chars)
  <2>1. ASSUME NEW x \in Tokens PROVE Written(label, x) \in Seq(Chars)
    <3>1. CASE x \notin Fields
      <4>1. x \in Chars
        BY <3>1 DEF Tokens
      <4>2. <<x>> \in Seq(Chars)
        BY <4>1
      <4> QED BY <3>1, <4>2 DEF Written
    <3>2. CASE x \in Fields /\ x \in ToSet(FieldsUsed(label))
      <4>1. IndexAt(label, PositionOf(label, x)) \in Nat
        BY <1>3, <1>4, <3>2 DEF u
      <4>2. Marker(IndexAt(label, PositionOf(label, x))) \in Seq(Chars)
        BY <4>1, MarkerType
      <4> QED BY <3>2, <4>2 DEF Written
    <3>3. CASE x \in Fields /\ x \notin ToSet(FieldsUsed(label))
      BY <3>3, EmptySeq DEF Written
    <3> QED BY <3>1, <3>2, <3>3
  <2> QED BY <2>1 DEF Rewrites, WrittenFor
<1>6. Through(WrittenFor(label), label) \in Seq(Chars)
  BY <1>5, ThroughType
<1> DEFINE p == [k \in DOMAIN FieldsUsed(label) |->
                   [index |-> IndexAt(label, k), field_id |-> FieldsUsed(label)[k]]]
<1>7. p \in [1 .. L -> [index : Nat, field_id : Fields]]
  BY <1>1, <1>3 DEF u
<1> HIDE DEF p
<1>8. p \in Seq([index : Nat, field_id : Fields])
  BY <1>1, <1>7, FunctionIsSeq
<1>9. Stored(label).message = Through(WrittenFor(label), label) /\ Stored(label).params = p
  BY DEF Stored, p
<1> QED BY <1>3, <1>4, <1>5, <1>6, <1>8, <1>9 DEF u, L

-----------------------------------------------------------------------------
(* Cutting what was put together                                           *)

(* A token in front of a text.                                             *)
LEMMA ConsFacts ==
  ASSUME NEW A, NEW x \in A, NEW s \in Seq(A)
  PROVE  /\ Cons(x, s) \in Seq(A) /\ Len(Cons(x, s)) = Len(s) + 1
         /\ Cons(x, s)[1] = x
         /\ \A i \in 1 .. Len(s) : Cons(x, s)[i + 1] = s[i]
         /\ x \in ToSet(Cons(x, s)) /\ ToSet(s) \subseteq ToSet(Cons(x, s))
<1> DEFINE u == Cons(x, s)
<1>1. /\ u \in Seq(A) /\ Len(u) = Len(s) + 1 /\ u[1] = x
      /\ \A i \in 1 .. Len(s) : u[i + 1] = s[i]
  BY InFront DEF Cons
<1> HIDE DEF u
<1>2. /\ DOMAIN u = 1 .. Len(u) /\ DOMAIN s = 1 .. Len(s) /\ Len(s) \in Nat
      /\ Len(u) \in Nat
  BY <1>1, LenProperties
<1>3. x \in ToSet(u)
  <2>1. 1 \in DOMAIN u
    BY <1>1, <1>2
  <2> QED BY <1>1, <2>1 DEF ToSet
<1>4. ToSet(s) \subseteq ToSet(u)
  <2>1. \A i \in DOMAIN s : i + 1 \in DOMAIN u /\ u[i + 1] = s[i]
    BY <1>1, <1>2
  <2> QED BY <2>1 DEF ToSet
<1> QED BY <1>1, <1>3, <1>4 DEF u

(* The same for all texts at once.                                         *)
LEMMA ConsElements ==
  ASSUME NEW A
  PROVE  \A x \in A, s \in Seq(A) :
           /\ Len(Cons(x, s)) = Len(s) + 1 /\ Cons(x, s)[1] = x
           /\ \A i \in 1 .. Len(s) : Cons(x, s)[i + 1] = s[i]
BY ConsFacts

(* A first piece of m tokens is cut off.                                   *)
LEMMA FirstPiece ==
  ASSUME NEW A, NEW a \in Seq(A), NEW t \in Seq(A), Len(a) > 0,
         After(a \o t, 1) = Len(a) + 1
  PROVE  Pieces(a \o t) = Cons(a, Pieces(t))
<1> DEFINE u == a \o t
<1>p. \A x \in Seq(A) : Len(x) > 0 => Pieces(x) = Cons(PieceAt(x, 1), Pieces(Behind(x)))
  BY PiecesStep
<1>1. u \in Seq(A) /\ Len(u) = Len(a) + Len(t) /\ Len(a) \in Nat /\ Len(t) \in Nat
  BY ConcatProperties, LenProperties
<1>2. SubSeq(u, 1, Len(a)) = a /\ SubSeq(u, Len(a) + 1, Len(u)) = t
  BY CutConcat
<1> HIDE DEF u
<1>3. After(u, 1) = Len(a) + 1 /\ After(u, 1) - 1 = Len(a)
  BY <1>1 DEF u
<1>4. PieceAt(u, 1) = a
  BY <1>2, <1>3, Zenon DEF PieceAt
<1>5. Behind(u) = t
  BY <1>2, <1>3, Zenon DEF Behind
<1>6. Len(u) > 0
  BY <1>1
<1> QED BY <1>p, <1>1, <1>4, <1>5, <1>6 DEF u

\* A text of three characters that reads as a marker.
Marks(a) == Len(a) = 3 /\ a[1] = "%" /\ a[2] \in Digital /\ a[3] \in Digital

(* A marker in front is cut off whole.                                     *)
LEMMA FirstMarker ==
  ASSUME NEW A, NEW a \in Seq(A), NEW t \in Seq(A), Marks(a)
  PROVE  Pieces(a \o t) = Cons(a, Pieces(t))
<1> DEFINE u == a \o t
<1>1. /\ Len(a) = 3 /\ Len(t) \in Nat /\ Len(u) = Len(a) + Len(t)
      /\ \A i \in 1 .. Len(a) + Len(t) : u[i] = IF i <= Len(a) THEN a[i] ELSE t[i - Len(a)]
  BY ConcatProperties, LenProperties DEF Marks
<1> HIDE DEF u
<1>2. u[1] = a[1] /\ u[2] = a[2] /\ u[3] = a[3] /\ 1 + 2 <= Len(u)
  BY <1>1
<1>3. MarkerAt(u, 1)
  BY <1>2, CharFacts DEF MarkerAt, Marks
<1>4. After(u, 1) = Len(a) + 1
  BY <1>1, <1>3 DEF After
<1>5. Len(a) > 0 /\ After(a \o t, 1) = Len(a) + 1
  BY <1>1, <1>4 DEF u
<1> QED BY <1>5, FirstPiece

(* A token in front that begins no marker is cut off alone.                *)
LEMMA FirstToken ==
  ASSUME NEW A, NEW x \in A, NEW t \in Seq(A), ~ MarkerAt(Cons(x, t), 1)
  PROVE  Pieces(Cons(x, t)) = Cons(<<x>>, Pieces(t))
<1> DEFINE a == <<x>>
<1>1. a \in Seq(A) /\ Len(a) = 1
  OBVIOUS
<1>2. Cons(x, t) = a \o t
  BY DEF Cons
<1> HIDE DEF a
<1>3. Len(a) > 0 /\ After(a \o t, 1) = Len(a) + 1
  BY <1>1, <1>2 DEF After
<1>4. Pieces(a \o t) = Cons(a, Pieces(t))
  BY <1>1, <1>3, FirstPiece
<1> QED BY <1>2, <1>4 DEF a

(* A text that begins with a marker is the marker and what is behind it.   *)
LEMMA CutAtMarker ==
  ASSUME NEW A
  PROVE  \A s \in Seq(A) : MarkerAt(s, 1) =>
           /\ Marks(PieceAt(s, 1)) /\ PieceAt(s, 1) \in Seq(A)
           /\ PieceAt(s, 1)[1] = s[1] /\ PieceAt(s, 1)[2] = s[2] /\ PieceAt(s, 1)[3] = s[3]
           /\ Behind(s) \in Seq(A) /\ Len(Behind(s)) < Len(s)
           /\ s = PieceAt(s, 1) \o Behind(s)
<1> TAKE s \in Seq(A)
<1> HAVE MarkerAt(s, 1)
<1> DEFINE L == Len(s)
           p == PieceAt(s, 1)
<1>1. L \in Nat /\ 3 <= L /\ After(s, 1) = 4 /\ \A i \in 1 .. L : s[i] \in A
  BY LenProperties, ElementOfSeq DEF MarkerAt, After
<1>2. 1 \in 1 .. L
  BY <1>1
<1>3. p \in Seq(A) /\ Len(p) = 3 /\ \A j \in 1 .. 3 : p[j] = s[1 + j - 1]
  <2>1. /\ p \in Seq(A) /\ Len(p) = After(s, 1) - 1
        /\ \A j \in 1 .. After(s, 1) - 1 : p[j] = s[1 + j - 1]
    BY <1>2, PieceType, Zenon
  <2>2. After(s, 1) - 1 = 3
    BY <1>1
  <2> HIDE DEF p
  <2> QED BY <2>1, <2>2
<1>4. p[1] = s[1] /\ p[2] = s[2] /\ p[3] = s[3]
  BY <1>3
<1>5. Marks(p)
  BY <1>3, <1>4, CharFacts DEF Marks, MarkerAt
<1>6. Behind(s) \in Seq(A) /\ Len(Behind(s)) < Len(s)
  BY <1>1, BehindType
<1>7. s = p \o Behind(s)
  <2> DEFINE b == Behind(s)
  <2>1. Len(b) = L - 3 /\ \A j \in 1 .. Len(b) : b[j] = s[j + 3]
    <3>1. After(s, 1) - 1 = 3
      BY <1>1
    <3>2. /\ Len(Behind(s)) = Len(s) - (After(s, 1) - 1)
          /\ \A j \in 1 .. Len(Behind(s)) : Behind(s)[j] = s[j + (After(s, 1) - 1)]
      BY <1>1, BehindType
    <3> QED BY <3>1, <3>2
  <2>2. b \in Seq(A)
    BY <1>6
  <2> HIDE DEF b, p, L
  <2>3. /\ p \o b \in Seq(A) /\ Len(p \o b) = Len(p) + Len(b)
        /\ \A i \in 1 .. Len(p) + Len(b) :
             (p \o b)[i] = IF i <= Len(p) THEN p[i] ELSE b[i - Len(p)]
    BY <1>3, <2>2, ConcatProperties
  <2> DEFINE u == p \o b
  <2> HIDE DEF u
  <2>4. u \in Seq(A) /\ Len(u) = L
        /\ \A i \in 1 .. L : u[i] = IF i <= 3 THEN p[i] ELSE b[i - 3]
    BY <1>1, <1>3, <2>1, <2>3 DEF u
  <2>5. ASSUME NEW i \in 1 .. L PROVE s[i] = u[i]
    <3>1. CASE i <= 3
      <4>1. i \in 1 .. 3 /\ 1 + i - 1 = i
        BY <3>1, <1>1
      <4> QED BY <1>3, <2>4, <3>1, <4>1
    <3>2. CASE ~ (i <= 3)
      <4>1. i - 3 \in 1 .. Len(b) /\ (i - 3) + 3 = i
        BY <1>1, <2>1, <3>2
      <4> QED BY <2>1, <2>4, <3>2, <4>1
    <3> QED BY <3>1, <3>2
  <2>6. s = u
    BY <2>4, <2>5, SeqEqual DEF L
  <2> QED BY <2>6 DEF u, b, p
<1> QED BY <1>3, <1>4, <1>5, <1>6, <1>7

-----------------------------------------------------------------------------
(* Markers undo what save wrote                                            *)

\* What is put in the place of a piece when Q are the parameters.
ReplacedBy(Q) == [piece \in Seq(Chars) |-> Replaced(piece, Q)]

\* w writes a marker for every field of F, Q replaces the marker by what the
\* field means, and characters mean themselves.
Translating(w, mean, Q, F) ==
  /\ F \subseteq Fields
  /\ Rewrites(w, Tokens, Chars) /\ Rewrites(mean, Tokens, Tokens)
  /\ Rewrites(ReplacedBy(Q), Seq(Chars), Tokens)
  /\ \A x \in Chars : w[x] = <<x>> /\ mean[x] = <<x>>
  /\ \A f \in F : /\ Marks(w[f])
                  /\ Index(w[f]) \in DOMAIN Q /\ Q[Index(w[f])] = mean[f]

\* No marker that was typed has a replacement.
Untouched(text, Q) ==
  \A piece \in ToSet(Pieces(text)) : IsMarker(piece) => Index(piece) \notin DOMAIN Q

(* Tokens that are written as themselves are.                              *)
LEMMA ThroughPlain ==
  ASSUME NEW A, NEW S, NEW w, Rewrites(w, A, S), NEW P, P \subseteq A, P \subseteq S,
         \A x \in P : w[x] = <<x>>
  PROVE  \A a \in Seq(P), b \in Seq(A) : Through(w, a \o b) = a \o Through(w, b)
<1> DEFINE T == {n \in Nat : \A a \in Seq(P), b \in Seq(A) :
                   Len(a) = n => Through(w, a \o b) = a \o Through(w, b)}
<1>a. \A a, b, c \in Seq(S) : (a \o b) \o c = a \o (b \o c)
  BY Associative
<1>t. \A s \in Seq(A) : Through(w, s) \in Seq(S)
  BY ThroughType
<1>f. \A x \in A, s \in Seq(A) : Through(w, Cons(x, s)) = w[x] \o Through(w, s)
  BY ThroughFront
<1>1. ASSUME NEW n \in Nat, \A k \in Nat : k < n => k \in T PROVE n \in T
  <2> SUFFICES ASSUME NEW a \in Seq(P), NEW b \in Seq(A), Len(a) = n
               PROVE  Through(w, a \o b) = a \o Through(w, b)
    OBVIOUS
  <2> DEFINE tb == Through(w, b)
  <2>t. tb \in Seq(S)
    BY <1>t
  <2>1. CASE n = 0
    <3>1. a = <<>>
      BY <2>1, EmptySeq
    <3>2. a \o b = b
      BY <3>1, ConcatEmptySeq
    <3> HIDE DEF tb
    <3>3. a \o tb = tb
      BY <2>t, <3>1, ConcatEmptySeq
    <3> QED BY <3>2, <3>3 DEF tb
  <2>2. CASE n > 0
    <3> DEFINE x == a[1]
               r == SubSeq(a, 2, Len(a))
    <3>1. x \in P /\ r \in Seq(P) /\ Len(r) = n - 1 /\ a = <<x>> \o r
      BY <2>2, FirstAndRest
    <3>2. x \in A /\ r \in Seq(A) /\ r \in Seq(S) /\ x \in S
      BY <3>1, SeqWider
    <3> HIDE DEF x, r, tb
    <3>3. <<x>> \in Seq(A) /\ <<x>> \in Seq(S)
      BY <3>2
    <3>4. (<<x>> \o r) \o b = Cons(x, r \o b)
      BY <3>2, <3>3, ConcatAssociative DEF Cons
    <3>5. r \o b \in Seq(A)
      BY <3>2, ConcatProperties
    <3>6. n - 1 \in Nat /\ n - 1 < n
      BY <2>2
    <3>7. Through(w, r \o b) = r \o tb
      BY <1>1, <3>1, <3>6 DEF tb
    <3>8. Through(w, Cons(x, r \o b)) = w[x] \o Through(w, r \o b)
      BY <1>f, <3>2, <3>5
    <3>9. w[x] = <<x>>
      BY <3>1
    <3>10. <<x>> \o (r \o tb) = (<<x>> \o r) \o tb
      BY <1>a, <2>t, <3>2, <3>3, Zenon
    <3>11. Through(w, (<<x>> \o r) \o b) = (<<x>> \o r) \o tb
      BY <3>4, <3>7, <3>8, <3>9, <3>10
    <3> QED BY <3>1, <3>11 DEF tb
  <2> QED BY <2>1, <2>2
<1> HIDE DEF T
<1>2. \A n \in Nat : n \in T
  BY <1>1, Induction, Zenon
<1> QED BY <1>2, LenProperties DEF T

(* A text is written with a digit in front when it has it in front.        *)
LEMMA DigitAhead ==
  ASSUME NEW w, NEW mean, NEW Q, NEW F, Translating(w, mean, Q, F)
  PROVE  \A s \in Seq(Chars \cup F) :
           Len(Through(w, s)) > 0 /\ Through(w, s)[1] \in Digital =>
             /\ Len(s) > 0 /\ s[1] = Through(w, s)[1]
             /\ SubSeq(s, 2, Len(s)) \in Seq(Chars \cup F)
             /\ Through(w, s) = Cons(s[1], Through(w, SubSeq(s, 2, Len(s))))
<1>w. Rewrites(w, Tokens, Chars) /\ Chars \cup F \subseteq Tokens
  BY DEF Translating, Tokens
<1>r. \A s \in Seq(Tokens) : Len(s) > 0 =>
        Through(w, s) = w[s[1]] \o Through(w, SubSeq(s, 2, Len(s)))
  BY <1>w, ThroughRest
<1>t. \A s \in Seq(Tokens) : Through(w, s) \in Seq(Chars)
  BY <1>w, ThroughType
<1> TAKE s \in Seq(Chars \cup F)
<1> HAVE Len(Through(w, s)) > 0 /\ Through(w, s)[1] \in Digital
<1>1. s \in Seq(Tokens) /\ Len(s) \in Nat
  BY <1>w, SeqWider, LenProperties
<1>2. Len(s) > 0
  <2>1. CASE Len(s) = 0
    <3>1. s = <<>>
      BY <2>1, EmptySeq
    <3>2. Through(w, s) = <<>>
      BY <3>1, ThroughNone
    <3> QED BY <3>2
  <2> QED BY <1>1, <2>1
<1> DEFINE x == s[1]
           r == SubSeq(s, 2, Len(s))
           m == Through(w, r)
<1>3. x \in Chars \cup F /\ r \in Seq(Chars \cup F)
  BY <1>2, FirstAndRest
<1>4. m \in Seq(Chars)
  BY <1>t, <1>w, <1>3, SeqWider
<1>5. Through(w, s) = w[x] \o m
  BY <1>r, <1>1, <1>2
<1> HIDE DEF x, r, m
<1>6. CASE x \in F
  <2>1. Marks(w[x]) /\ w[x] \in Seq(Chars)
    BY <1>6 DEF Translating, Rewrites, Tokens
  <2>2. (w[x] \o m)[1] = w[x][1]
    BY <1>4, <2>1, ConcatProperties, LenProperties DEF Marks
  <2>3. Through(w, s)[1] = "%"
    BY <1>5, <2>1, <2>2 DEF Marks
  <2> QED BY <2>3, CharFacts
<1>7. CASE x \in Chars
  <2>1. w[x] = <<x>>
    BY <1>7 DEF Translating
  <2>2. Through(w, s) = Cons(x, m)
    BY <1>5, <2>1 DEF Cons
  <2>3. Cons(x, m)[1] = x
    BY <1>4, <1>7, ConsFacts
  <2> QED BY <1>2, <1>3, <2>2, <2>3 DEF x, r, m
<1> QED BY <1>3, <1>6, <1>7

(* Only what was typed as a marker is written as one at a character.       *)
LEMMA MarkerBack ==
  ASSUME NEW w, NEW mean, NEW Q, NEW F, Translating(w, mean, Q, F)
  PROVE  \A x \in Chars, r \in Seq(Chars \cup F) :
           MarkerAt(Cons(x, Through(w, r)), 1) => MarkerAt(Cons(x, r), 1)
<1>w. Rewrites(w, Tokens, Chars) /\ Chars \cup F \subseteq Tokens
  BY DEF Translating, Tokens
<1>t. \A s \in Seq(Chars \cup F) : Through(w, s) \in Seq(Chars)
  BY <1>w, ThroughType, SeqWider
<1>d. \A s \in Seq(Chars \cup F) :
        Len(Through(w, s)) > 0 /\ Through(w, s)[1] \in Digital =>
          /\ Len(s) > 0 /\ s[1] = Through(w, s)[1]
          /\ SubSeq(s, 2, Len(s)) \in Seq(Chars \cup F)
          /\ Through(w, s) = Cons(s[1], Through(w, SubSeq(s, 2, Len(s))))
  BY DigitAhead
<1>c. \A y \in Chars, s \in Seq(Chars) :
        /\ Len(Cons(y, s)) = Len(s) + 1 /\ Cons(y, s)[1] = y
        /\ \A i \in 1 .. Len(s) : Cons(y, s)[i + 1] = s[i]
  BY ConsElements
<1>cf. \A y \in Chars \cup F, s \in Seq(Chars \cup F) :
        /\ Len(Cons(y, s)) = Len(s) + 1 /\ Cons(y, s)[1] = y
        /\ \A i \in 1 .. Len(s) : Cons(y, s)[i + 1] = s[i]
  <2> DEFINE X == Chars \cup F
  <2> HIDE DEF X
  <2>1. \A y \in X, s \in Seq(X) :
          /\ Len(Cons(y, s)) = Len(s) + 1 /\ Cons(y, s)[1] = y
          /\ \A i \in 1 .. Len(s) : Cons(y, s)[i + 1] = s[i]
    BY ConsElements
  <2> QED BY <2>1, Zenon DEF X
<1> TAKE x \in Chars, r \in Seq(Chars \cup F)
<1> HAVE MarkerAt(Cons(x, Through(w, r)), 1)
<1> DEFINE m == Through(w, r)
           r2 == SubSeq(r, 2, Len(r))
           m2 == Through(w, r2)
<1>1. m \in Seq(Chars) /\ Len(m) \in Nat
  BY <1>t, LenProperties
<1>2. Len(Cons(x, m)) = Len(m) + 1 /\ Cons(x, m)[1] = x
      /\ \A i \in 1 .. Len(m) : Cons(x, m)[i + 1] = m[i]
  BY <1>1, ConsFacts
<1> HIDE DEF m
<1>3. Len(m) >= 2 /\ x = "%" /\ m[1] \in Digital /\ m[2] \in Digital
  <2>1. /\ 1 + 2 <= Len(Cons(x, m)) /\ Cons(x, m)[1] = "%"
        /\ Cons(x, m)[2] \in Digital /\ Cons(x, m)[3] \in Digital
    BY CharFacts DEF MarkerAt, m
  <2>2. Len(m) >= 2
    BY <1>1, <1>2, <2>1
  <2>3. Cons(x, m)[2] = m[1] /\ Cons(x, m)[3] = m[2]
    BY <1>1, <1>2, <2>2
  <2> QED BY <1>2, <2>1, <2>2, <2>3
<1>4. /\ Len(r) > 0 /\ r[1] = m[1] /\ r2 \in Seq(Chars \cup F) /\ m = Cons(r[1], m2)
  BY <1>d, <1>1, <1>3 DEF m
<1>5. m2 \in Seq(Chars) /\ Len(m2) \in Nat
  BY <1>t, <1>4, LenProperties
<1>6. Len(r) \in Nat /\ Len(r2) = Len(r) - 1 /\ \A i \in 1 .. Len(r) - 1 : r2[i] = r[i + 1]
  BY <1>4, FirstAndRest, LenProperties
<1>7. r[1] \in Chars
  BY <1>3, <1>4, CharFacts
<1> HIDE DEF m2, r2
<1>8. Len(m) = Len(m2) + 1 /\ \A i \in 1 .. Len(m2) : m[i + 1] = m2[i]
  <2>1. /\ Len(Cons(r[1], m2)) = Len(m2) + 1
        /\ \A i \in 1 .. Len(m2) : Cons(r[1], m2)[i + 1] = m2[i]
    BY <1>c, <1>5, <1>7, Zenon
  <2> QED BY <1>4, <2>1, Zenon
<1>9. Len(m2) > 0 /\ m2[1] = m[2]
  BY <1>3, <1>5, <1>8
<1>10. Len(r2) > 0 /\ r2[1] = m2[1]
  BY <1>d, <1>3, <1>4, <1>9 DEF m2
<1>11. Len(r) >= 2 /\ r[2] = m[2]
  BY <1>6, <1>9, <1>10
<1>12. /\ Len(Cons(x, r)) = Len(r) + 1 /\ Cons(x, r)[1] = x
       /\ \A i \in 1 .. Len(r) : Cons(x, r)[i + 1] = r[i]
  <2>1. x \in Chars \cup F
    OBVIOUS
  <2> QED BY <1>cf, <2>1, Zenon
<1>13. /\ 1 + 2 <= Len(Cons(x, r)) /\ Cons(x, r)[1] = "%"
       /\ Cons(x, r)[2] = r[1] /\ Cons(x, r)[3] = r[2]
  BY <1>3, <1>6, <1>11, <1>12
<1> QED BY <1>3, <1>4, <1>11, <1>13, CharFacts DEF MarkerAt

(* What a marker that was typed is made of.                                *)
LEMMA MarksAreChars ==
  ASSUME NEW A
  PROVE  \A p \in Seq(A) : Marks(p) => p \in Seq(Chars)
<1> SUFFICES ASSUME NEW p \in Seq(A), Marks(p) PROVE p \in Seq(Chars)
  OBVIOUS
<1>1. /\ p \in [1 .. 3 -> A] /\ p[1] \in Chars /\ p[2] \in Chars /\ p[3] \in Chars
  BY LenProperties, CharFacts DEF Marks
<1>2. \A i \in 1 .. 3 : i = 1 \/ i = 2 \/ i = 3
  OBVIOUS
<1>3. \A i \in 1 .. 3 : p[i] \in Chars
  BY <1>1, <1>2
<1>4. p \in [1 .. 3 -> Chars]
  BY <1>1, <1>3
<1> QED BY <1>4, FunctionIsSeq

(* The message of what save wrote is what the text means.                  *)
LEMMA Translation ==
  ASSUME NEW w, NEW mean, NEW Q, NEW F, Translating(w, mean, Q, F)
  PROVE  \A s \in Seq(Chars \cup F) : Untouched(s, Q) =>
           Through(ReplacedBy(Q), Pieces(Through(w, s))) = Through(mean, s)
<1> DEFINE X == Chars \cup F
           R == ReplacedBy(Q)
           T == {n \in Nat : \A s \in Seq(X) : Len(s) = n /\ Untouched(s, Q) =>
                   Through(R, Pieces(Through(w, s))) = Through(mean, s)}
<1>x. X \subseteq Tokens /\ Chars \subseteq X /\ Chars \subseteq Tokens
      /\ (\A x \in X : x \in Chars \/ x \in F)
  BY DEF Translating, Tokens
<1>w. /\ Rewrites(w, Tokens, Chars) /\ Rewrites(mean, Tokens, Tokens)
      /\ Rewrites(R, Seq(Chars), Tokens)
      /\ \A x \in Chars : w[x] = <<x>> /\ mean[x] = <<x>>
      /\ \A f \in F : /\ Marks(w[f]) /\ f \in Tokens
                      /\ Index(w[f]) \in DOMAIN Q /\ Q[Index(w[f])] = mean[f]
  BY DEF Translating, Tokens
<1>m. \A x \in Chars, r \in Seq(X) : MarkerAt(Cons(x, Through(w, r)), 1) => MarkerAt(Cons(x, r), 1)
  BY MarkerBack
<1> HIDE DEF X, R
<1>s. \A s \in Seq(X) : s \in Seq(Tokens)
  BY <1>x, SeqWider
<1>t. \A s \in Seq(X) : Through(w, s) \in Seq(Chars)
  BY <1>s, <1>w, ThroughType
<1>a. \A a \in Seq(Chars), b \in Seq(Tokens) : Through(w, a \o b) = a \o Through(w, b)
  BY <1>w, <1>x, ThroughPlain
<1>b. \A a \in Seq(Chars), b \in Seq(Tokens) : Through(mean, a \o b) = a \o Through(mean, b)
  BY <1>w, <1>x, ThroughPlain
<1>r. \A s \in Seq(X) : Len(s) > 0 =>
        /\ Through(w, s) = w[s[1]] \o Through(w, SubSeq(s, 2, Len(s)))
        /\ Through(mean, s) = mean[s[1]] \o Through(mean, SubSeq(s, 2, Len(s)))
  BY <1>s, <1>w, ThroughRest
<1>f. \A p \in Seq(Chars), ps \in Seq(Seq(Chars)) :
        Through(R, Cons(p, ps)) = R[p] \o Through(R, ps)
  BY <1>w, ThroughFront
<1>p. /\ \A m \in Seq(Chars) : Pieces(m) \in Seq(Seq(Chars))
      /\ \A s \in Seq(X) : Pieces(s) \in Seq(Seq(X))
  BY PiecesType
<1>u. \A p \in Seq(X), ps \in Seq(Seq(X)) :
        p \in ToSet(Cons(p, ps)) /\ ToSet(ps) \subseteq ToSet(Cons(p, ps))
  BY ConsFacts
<1>q. \A p \in Seq(Chars) : R[p] = Replaced(p, Q)
  BY DEF R, ReplacedBy
<1>1. ASSUME NEW n \in Nat, \A k \in Nat : k < n => k \in T PROVE n \in T
  <2> SUFFICES ASSUME NEW s \in Seq(X), Len(s) = n, Untouched(s, Q)
               PROVE  Through(R, Pieces(Through(w, s))) = Through(mean, s)
    OBVIOUS
  <2>i. ASSUME NEW b \in Seq(X), Len(b) < n, Untouched(b, Q)
        PROVE  Through(R, Pieces(Through(w, b))) = Through(mean, b)
    <3>1. Len(b) \in Nat
      BY LenProperties
    <3> QED BY <1>1, <2>i, <3>1
  <2>n. n = 0 \/ n > 0
    OBVIOUS
  <2>1. CASE n = 0
    <3>1. s = <<>>
      BY <2>1, EmptySeq
    <3>2. /\ Through(w, s) = <<>> /\ Through(mean, s) = <<>> /\ Through(R, <<>>) = <<>>
          /\ Pieces(<<>>) = <<>>
      BY <3>1, ThroughNone, PiecesNone
    <3> QED BY <3>2
  <2>2. CASE MarkerAt(s, 1)
    <3> DEFINE p == PieceAt(s, 1)
               b == Behind(s)
               m == Through(w, b)
    <3>1. /\ Marks(p) /\ p \in Seq(X) /\ b \in Seq(X) /\ Len(b) < n /\ s = p \o b
      BY <2>2, CutAtMarker
    <3>2. p \in Seq(Chars)
      BY <3>1, MarksAreChars
    <3> HIDE DEF p, b
    <3>3. Through(w, p \o b) = p \o m /\ m \in Seq(Chars)
      BY <1>a, <1>s, <1>t, <3>1, <3>2
    <3>4. Through(mean, p \o b) = p \o Through(mean, b)
      BY <1>b, <1>s, <3>1, <3>2
    <3> HIDE DEF m
    <3>5. Pieces(p \o m) = Cons(p, Pieces(m))
      BY <3>1, <3>2, <3>3, FirstMarker
    <3>6. Pieces(s) = Cons(p, Pieces(b))
      BY <3>1, FirstMarker
    <3>7. p \in ToSet(Pieces(s)) /\ ToSet(Pieces(b)) \subseteq ToSet(Pieces(s))
      BY <1>p, <1>u, <3>1, <3>6
    <3>8. Untouched(b, Q) /\ Index(p) \notin DOMAIN Q
      BY <3>1, <3>7 DEF Untouched, IsMarker, Marks
    <3>9. R[p] = p
      BY <1>q, <3>2, <3>8 DEF Replaced
    <3>10. Through(R, Pieces(m)) = Through(mean, b)
      BY <2>i, <3>1, <3>8 DEF m
    <3>11. Through(R, Cons(p, Pieces(m))) = R[p] \o Through(R, Pieces(m))
      BY <1>f, <1>p, <3>2, <3>3
    <3> QED BY <3>1, <3>3, <3>4, <3>5, <3>9, <3>10, <3>11
  <2>3. CASE n > 0 /\ ~ MarkerAt(s, 1)
    <3> DEFINE x == s[1]
               r == SubSeq(s, 2, Len(s))
               m == Through(w, r)
    <3>1. x \in X /\ r \in Seq(X) /\ Len(r) < n /\ s = Cons(x, r)
      BY <2>3, FirstAndRest DEF Cons
    <3>2. Through(w, s) = w[x] \o m /\ Through(mean, s) = mean[x] \o Through(mean, r)
      BY <1>r, <2>3
    <3>3. m \in Seq(Chars)
      BY <1>t, <3>1
    <3> HIDE DEF x, r, m
    <3>4. Pieces(s) = Cons(<<x>>, Pieces(r))
      BY <2>3, <3>1, FirstToken
    <3>5. ToSet(Pieces(r)) \subseteq ToSet(Pieces(s))
      <4>1. <<x>> \in Seq(X)
        BY <3>1
      <4> QED BY <1>p, <1>u, <3>1, <3>4, <4>1
    <3>6. Untouched(r, Q)
      BY <3>5 DEF Untouched
    <3>7. Through(R, Pieces(m)) = Through(mean, r)
      BY <2>i, <3>1, <3>6 DEF m
    <3>8. CASE x \in F
      <4>1. Marks(w[x]) /\ w[x] \in Seq(Chars)
        BY <1>w, <3>8 DEF Rewrites
      <4>2. Pieces(w[x] \o m) = Cons(w[x], Pieces(m))
        BY <3>3, <4>1, FirstMarker
      <4>3. R[w[x]] = mean[x]
        BY <1>q, <1>w, <3>8, <4>1 DEF Replaced, IsMarker, Marks
      <4>4. Through(R, Cons(w[x], Pieces(m))) = R[w[x]] \o Through(R, Pieces(m))
        BY <1>f, <1>p, <3>3, <4>1
      <4> QED BY <3>2, <3>7, <4>2, <4>3, <4>4
    <3>9. CASE x \in Chars
      <4>1. w[x] = <<x>> /\ mean[x] = <<x>>
        BY <1>w, <3>9
      <4>2. Through(w, s) = Cons(x, m)
        BY <3>2, <4>1 DEF Cons
      <4>3. ~ MarkerAt(Cons(x, m), 1)
        BY <1>m, <2>3, <3>1, <3>9 DEF m
      <4>4. Pieces(Cons(x, m)) = Cons(<<x>>, Pieces(m))
        BY <3>3, <3>9, <4>3, FirstToken
      <4>5. <<x>> \in Seq(Chars) /\ Len(<<x>>) = 1
        BY <3>9
      <4>6. R[<<x>>] = <<x>>
        <5> DEFINE y == <<x>>
        <5>n. ~ (1 = 3)
          OBVIOUS
        <5>1. y \in Seq(Chars) /\ Len(y) = 1
          BY <4>5
        <5> HIDE DEF y
        <5>2. R[y] = y
          BY <1>q, <5>1, <5>n DEF Replaced, IsMarker
        <5> QED BY <5>2 DEF y
      <4>7. Through(R, Cons(<<x>>, Pieces(m))) = R[<<x>>] \o Through(R, Pieces(m))
        BY <1>f, <1>p, <3>3, <4>5
      <4> QED BY <3>2, <3>7, <4>1, <4>2, <4>4, <4>6, <4>7
    <3> QED BY <1>x, <3>1, <3>8, <3>9
  <2> QED BY <2>n, <2>1, <2>2, <2>3
<1> HIDE DEF T
<1>2. \A n \in Nat : n \in T
  BY <1>1, Induction, Zenon
<1> QED BY <1>2, LenProperties DEF T, X, R

-----------------------------------------------------------------------------
(* A stored text and its meaning                                           *)

(* A message is generated piece by piece.                                  *)
LEMMA GenerateIsThrough ==
  ASSUME NEW m \in Seq(Chars), NEW Q
  PROVE  template_generate_message(m, Q) = Through(ReplacedBy(Q), Pieces(m))
<1> DEFINE s == Pieces(m)
           f == [i \in DOMAIN s |-> Replaced(s[i], Q)]
<1>1. template_generate_message(m, Q) = FlattenSeq(f)
  BY DEF template_generate_message
<1>2. s \in Seq(Seq(Chars))
  BY PiecesType
<1> HIDE DEF s
<1>3. \A i \in DOMAIN s : s[i] \in Seq(Chars)
  BY <1>2, LenProperties, ElementOfSeq
<1>4. \A i \in DOMAIN s : Replaced(s[i], Q) = ReplacedBy(Q)[s[i]]
  BY <1>3 DEF ReplacedBy
<1>5. f = Parts(ReplacedBy(Q), s)
  BY <1>4 DEF Parts
<1> HIDE DEF f
<1> QED BY <1>1, <1>5, Zenon DEF Through, s

\* Q is what P says of the markers of the message.
Covers(Q, P, m) ==
  /\ DOMAIN Q = template_extract_parameters(m) \cap DOMAIN P
  /\ \A n \in DOMAIN Q : Q[n] = P[n]

(* Only the indexes of the markers of the message matter.                  *)
LEMMA OnlyUsedMatter ==
  ASSUME NEW m \in Seq(Chars), NEW Q, NEW P, Covers(Q, P, m)
  PROVE  template_generate_message(m, Q) = template_generate_message(m, P)
<1> DEFINE s == Pieces(m)
           f == [i \in DOMAIN s |-> Replaced(s[i], Q)]
           g == [i \in DOMAIN s |-> Replaced(s[i], P)]
           E == template_extract_parameters(m)
<1>1. template_generate_message(m, Q) = FlattenSeq(f)
      /\ template_generate_message(m, P) = FlattenSeq(g)
  BY DEF template_generate_message
<1>2. \A piece \in ToSet(s) : IsMarker(piece) => Index(piece) \in E
  BY DEF template_extract_parameters
<1>3. DOMAIN Q = E \cap DOMAIN P /\ \A n \in DOMAIN Q : Q[n] = P[n]
  BY DEF Covers
<1> HIDE DEF s, E
<1>4. ASSUME NEW i \in DOMAIN s PROVE Replaced(s[i], Q) = Replaced(s[i], P)
  <2>1. s[i] \in ToSet(s)
    BY DEF ToSet
  <2>2. CASE IsMarker(s[i])
    <3>1. Index(s[i]) \in DOMAIN Q <=> Index(s[i]) \in DOMAIN P
      BY <1>2, <1>3, <2>1, <2>2
    <3>2. Index(s[i]) \in DOMAIN Q => Q[Index(s[i])] = P[Index(s[i])]
      BY <1>3
    <3> QED BY <3>1, <3>2, Zenon DEF Replaced
  <2>3. CASE ~ IsMarker(s[i])
    BY <2>3, Zenon DEF Replaced
  <2> QED BY <2>2, <2>3
<1>5. f = g
  BY <1>4
<1> HIDE DEF f, g
<1> QED BY <1>1, <1>5

\* A text for every field, and what a token means then.
Mean(val) == [x \in Tokens |-> IF x \in Fields THEN val[x] ELSE <<x>>]

\* The indexes that parameters were stored for.
IndexesOf(t) == {t.params[k].index : k \in DOMAIN t.params}

(* The marker of a field stands for the field.                             *)
LEMMA StoredParams ==
  ASSUME NEW label \in Seq(Tokens)
  PROVE  /\ \A n \in IndexesOf(Stored(label)) :
              /\ n \notin template_extract_parameters(label)
              /\ FieldAt(Stored(label), n) \in ToSet(FieldsUsed(label))
         /\ \A f \in ToSet(FieldsUsed(label)) :
              /\ IndexAt(label, PositionOf(label, f)) \in IndexesOf(Stored(label))
              /\ IndexAt(label, PositionOf(label, f)) \in Nat
              /\ FieldAt(Stored(label), IndexAt(label, PositionOf(label, f))) = f
<1> DEFINE u == FieldsUsed(label)
           L == Len(u)
           t == Stored(label)
           ps == t.params
           fade == template_extract_parameters(label)
           ind(k) == IndexAt(label, k)
<1>1. u \in Seq(Fields) /\ DOMAIN u = 1 .. L /\ L \in Nat
  BY FieldsUsedFacts, LenProperties
<1>2. ps \in Seq([index : Nat, field_id : Fields])
  BY StoredType
<1>3. ps = [k \in DOMAIN u |-> [index |-> ind(k), field_id |-> u[k]]]
  BY DEF Stored
<1>4. /\ \A k \in 1 .. L : ind(k) \in Nat /\ ind(k) \notin fade
      /\ \A k \in 1 .. L : Cardinality((0 .. ind(k)) \ fade) = k
      /\ \A x \in ToSet(u) : PositionOf(label, x) \in 1 .. L /\ u[PositionOf(label, x)] = x
  BY StoredType
<1>5. IndexesOf(t) = {ps[k].index : k \in DOMAIN ps}
  BY DEF IndexesOf
<1> HIDE DEF u, L, t, ps, fade, ind
<1>7. /\ DOMAIN ps = 1 .. L /\ Len(ps) = L
      /\ \A k \in 1 .. L : ps[k].index = ind(k) /\ ps[k].field_id = u[k]
  <2>1. DOMAIN ps = 1 .. L /\ \A k \in 1 .. L : ps[k].index = ind(k) /\ ps[k].field_id = u[k]
    BY <1>1, <1>3
  <2>2. DOMAIN ps = 1 .. Len(ps) /\ Len(ps) \in Nat
    BY <1>2, LenProperties
  <2>3. Len(ps) = L
    BY <1>1, <2>1, <2>2
  <2> QED BY <2>1, <2>3
<1>8. ASSUME NEW n \in IndexesOf(t)
      PROVE  \E k \in 1 .. L : ind(k) = n /\ FieldAt(t, n) = u[k]
  <2> DEFINE I == {k \in 1 .. Len(ps) : ps[k].index = n}
  <2>1. SelectInSeq(ps, LAMBDA param : param.index = n) = IF I # {} THEN Min(I) ELSE 0
    BY DEF SelectInSeq
  <2>2. I # {}
    BY <1>5, <1>7
  <2>3. I \subseteq Nat /\ I \subseteq 1 .. L /\ \A k \in I : ps[k].index = n
    BY <1>7
  <2> HIDE DEF I
  <2>4. Min(I) \in I
    BY <2>2, <2>3, MinIsIn
  <2>5. FieldAt(t, n) = ps[Min(I)].field_id
    <3>1. FieldAt(t, n) = ps[SelectInSeq(ps, LAMBDA param : param.index = n)].field_id
      BY Zenon DEF FieldAt, ps
    <3> QED BY <2>1, <2>2, <3>1, Zenon
  <2> QED BY <1>7, <2>3, <2>4, <2>5
<1>9. ASSUME NEW n \in IndexesOf(t)
      PROVE  n \notin fade /\ FieldAt(t, n) \in ToSet(u)
  <2>1. PICK k \in 1 .. L : ind(k) = n /\ FieldAt(t, n) = u[k]
    BY <1>8
  <2> QED BY <1>1, <1>4, <2>1 DEF ToSet
<1>10. ASSUME NEW f \in ToSet(u)
       PROVE  /\ ind(PositionOf(label, f)) \in IndexesOf(t)
              /\ ind(PositionOf(label, f)) \in Nat
              /\ FieldAt(t, ind(PositionOf(label, f))) = f
  <2> DEFINE j == PositionOf(label, f)
  <2>1. j \in 1 .. L /\ u[j] = f
    BY <1>4
  <2> HIDE DEF j
  <2>2. ind(j) \in IndexesOf(t) /\ ind(j) \in Nat
    BY <1>4, <1>5, <1>7, <2>1
  <2>3. PICK k \in 1 .. L : ind(k) = ind(j) /\ FieldAt(t, ind(j)) = u[k]
    BY <1>8, <2>2
  <2>4. k = j
    BY <1>4, <2>1, <2>3
  <2> QED BY <2>1, <2>2, <2>3, <2>4 DEF j
<1> QED BY <1>9, <1>10 DEF u, t, fade, ind

(* The message of a stored text: every field is replaced by its text.      *)
LEMMA StoredMeans ==
  ASSUME NEW label \in Seq(Tokens), Fits(Stored(label)),
         NEW val \in [Fields -> Seq(Tokens)]
  PROVE  template_generate_message(Stored(label).message,
           [n \in IndexesUsed(Stored(label)) |-> val[FieldAt(Stored(label), n)]])
             = Through(Mean(val), label)
<1> DEFINE t == Stored(label)
           w == WrittenFor(label)
           F == ToSet(FieldsUsed(label))
           D == IndexesOf(t)
           V == [n \in D |-> val[FieldAt(t, n)]]
           E == template_extract_parameters(t.message)
           Q == [n \in E \cap D |-> V[n]]
           mean == Mean(val)
<1>1. t.message \in Seq(Chars) /\ t.message = Through(w, label)
  BY StoredType DEF Stored
<1>2. IndexesUsed(t) = E \cap D
  BY DEF IndexesUsed, IndexesOf
<1>3. F \subseteq Fields
  BY FieldsUsedFacts, LenProperties, ElementOfSeq DEF ToSet
<1>4. label \in Seq(Chars \cup F)
  <2>1. /\ Len(label) \in Nat /\ label \in [1 .. Len(label) -> Tokens]
        /\ DOMAIN FieldsUsed(label) = 1 .. Len(FieldsUsed(label))
    BY LenProperties, FieldsUsedFacts
  <2>2. \A i \in 1 .. Len(label) : label[i] \in Chars \cup F
    BY <2>1, FieldsUsedFacts DEF ToSet, Tokens
  <2>3. label \in [1 .. Len(label) -> Chars \cup F]
    BY <2>1, <2>2
  <2> QED BY <2>1, <2>3, FunctionIsSeq
<1>5. /\ \A n \in D : n \notin template_extract_parameters(label) /\ FieldAt(t, n) \in F
      /\ \A f \in F : /\ IndexAt(label, PositionOf(label, f)) \in D
                      /\ IndexAt(label, PositionOf(label, f)) \in Nat
                      /\ FieldAt(t, IndexAt(label, PositionOf(label, f))) = f
  BY StoredParams
<1>6. \A n \in D : n < Base * Base
  BY DEF Fits, IndexesOf
<1> HIDE DEF t, F, D
<1>7. Untouched(label, V)
  <2>1. DOMAIN V = D
    OBVIOUS
  <2>2. \A piece \in ToSet(Pieces(label)) :
          IsMarker(piece) => Index(piece) \in template_extract_parameters(label)
    BY DEF template_extract_parameters
  <2> HIDE DEF V
  <2> QED BY <1>5, <2>1, <2>2 DEF Untouched
<1>8. V \in [D -> Seq(Tokens)]
  BY <1>3, <1>5
<1>9. Rewrites(ReplacedBy(V), Seq(Chars), Tokens)
  <2>1. DOMAIN V = D /\ \A n \in D : V[n] \in Seq(Tokens)
    BY <1>8
  <2>2. \A piece \in Seq(Chars) : piece \in Seq(Tokens)
    BY SeqWider DEF Tokens
  <2> HIDE DEF V
  <2>3. \A piece \in Seq(Chars) : Replaced(piece, V) \in Seq(Tokens)
    BY <2>1, <2>2, Zenon DEF Replaced
  <2> QED BY <2>3 DEF Rewrites, ReplacedBy
<1>10. Rewrites(mean, Tokens, Tokens)
  <2>1. \A x \in Tokens : <<x>> \in Seq(Tokens)
    OBVIOUS
  <2>2. \A x \in Fields : val[x] \in Seq(Tokens)
    OBVIOUS
  <2>3. \A x \in Tokens : (IF x \in Fields THEN val[x] ELSE <<x>>) \in Seq(Tokens)
    BY <2>1, <2>2, Zenon
  <2> QED BY <2>3 DEF Rewrites, Mean
<1>11. ASSUME NEW x \in Chars PROVE w[x] = <<x>> /\ mean[x] = <<x>>
  <2>1. x \in Tokens /\ x \notin Fields
    BY CharFacts DEF Tokens
  <2>2. Written(label, x) = <<x>>
    BY <2>1, Zenon DEF Written
  <2> QED BY <2>1, <2>2 DEF WrittenFor, Mean
<1>12. ASSUME NEW f \in F
       PROVE  Marks(w[f]) /\ Index(w[f]) \in DOMAIN V /\ V[Index(w[f])] = mean[f]
  <2> DEFINE n == IndexAt(label, PositionOf(label, f))
  <2>1. n \in D /\ n \in Nat /\ n < Base * Base /\ FieldAt(t, n) = f
    BY <1>5, <1>6
  <2>2. f \in Tokens /\ f \in Fields
    BY <1>3 DEF Tokens
  <2>3. Written(label, f) = Marker(n)
    BY <2>2, Zenon DEF Written, F
  <2> HIDE DEF n
  <2>4. w[f] = Marker(n)
    BY <2>2, <2>3 DEF WrittenFor
  <2>5. MarkerOf(Marker(n), n)
    BY <2>1, MarkerShort
  <2>6. Marks(w[f]) /\ Index(w[f]) = n
    BY <2>4, <2>5, Zenon DEF MarkerOf, Marks
  <2>7. V[n] = val[f] /\ DOMAIN V = D
    BY <2>1
  <2>8. mean[f] = val[f]
    BY <2>2 DEF Mean
  <2> HIDE DEF V, mean, w
  <2> QED BY <2>1, <2>6, <2>7, <2>8
<1>13. Rewrites(w, Tokens, Chars)
  BY StoredType
<1>14. Translating(w, mean, V, F)
  <2> HIDE DEF V, w, mean
  <2> QED BY <1>3, <1>9, <1>10, <1>11, <1>12, <1>13, Zenon DEF Translating
<1>15. Through(ReplacedBy(V), Pieces(Through(w, label))) = Through(mean, label)
  <2> HIDE DEF V, w, mean
  <2> QED BY <1>4, <1>7, <1>14, Translation
<1>16. template_generate_message(t.message, V) = Through(mean, label)
  <2> HIDE DEF V, w, mean
  <2> QED BY <1>1, <1>15, GenerateIsThrough
<1>17. Covers(Q, V, t.message)
  <2>1. DOMAIN V = D /\ DOMAIN Q = E \cap D /\ \A n \in DOMAIN Q : Q[n] = V[n]
    BY <1>8
  <2> HIDE DEF V, Q
  <2> QED BY <2>1 DEF Covers
<1>18. template_generate_message(t.message, Q) = template_generate_message(t.message, V)
  <2> HIDE DEF V, Q
  <2> QED BY <1>1, <1>17, OnlyUsedMatter
<1>19. Q = [n \in IndexesUsed(t) |-> val[FieldAt(t, n)]]
  BY <1>2
<1> QED BY <1>16, <1>18, <1>19 DEF t

(* The meaning of a text is written token by token.                        *)
LEMMA MeaningIsThrough ==
  ASSUME NEW label \in Seq(Tokens), NEW val
  PROVE  Meaning(label, val) = Through(Mean(val), label)
<1>1. \A i \in DOMAIN label : label[i] \in Tokens
  BY LenProperties, ElementOfSeq
<1> DEFINE f == [i \in DOMAIN label |->
                   IF label[i] \in Fields THEN val[label[i]] ELSE <<label[i]>>]
<1>2. Meaning(label, val) = FlattenSeq(f)
  BY DEF Meaning
<1>3. f = Parts(Mean(val), label)
  BY <1>1 DEF Parts, Mean
<1> HIDE DEF f
<1> QED BY <1>2, <1>3, Zenon DEF Through

(* What is sent for a stored text is what the text means.                  *)
LEMMA StoredIsSent ==
  ASSUME NEW label \in Seq(Tokens), Fits(Stored(label)), NEW person \in Persons
  PROVE  template_generate_message2(Stored(label), person) = Meaning(label, person)
<1>1. person \in [Fields -> Seq(Chars)]
  BY TextAssumption DEF TextAssumption
<1>2. Seq(Chars) \subseteq Seq(Tokens)
  BY SeqWider DEF Tokens
<1>3. person \in [Fields -> Seq(Tokens)]
  BY <1>1, <1>2
<1>4. template_generate_message(Stored(label).message,
        [n \in IndexesUsed(Stored(label)) |-> person[FieldAt(Stored(label), n)]])
          = Through(Mean(person), label)
  BY <1>3, StoredMeans
<1>5. Meaning(label, person) = Through(Mean(person), label)
  BY MeaningIsThrough
<1> QED BY <1>4, <1>5, Zenon DEF template_generate_message2

\* What a template shows when all its fields exist.
Shown(t) ==
  template_generate_message(t.message, [n \in IndexesUsed(t) |-> <<FieldAt(t, n)>>])

(* The markers of a stored text stand for its fields, and only for them.   *)
LEMMA UsedIndexes ==
  ASSUME NEW label \in Seq(Tokens)
  PROVE  /\ \A n \in IndexesUsed(Stored(label)) :
              FieldAt(Stored(label), n) \in ToSet(FieldsUsed(label))
         /\ FieldsOf(Stored(label)) = ToSet(FieldsUsed(label))
         /\ ToSet(FieldsUsed(label)) \subseteq Fields
<1> DEFINE t == Stored(label)
<1>1. IndexesUsed(t) \subseteq IndexesOf(t)
  BY DEF IndexesUsed, IndexesOf
<1>2. \A n \in IndexesOf(t) : FieldAt(t, n) \in ToSet(FieldsUsed(label))
  BY StoredParams
<1>3. FieldsOf(t) = ToSet(FieldsUsed(label))
  <2>1. t.params = [k \in DOMAIN FieldsUsed(label) |->
                      [index |-> IndexAt(label, k), field_id |-> FieldsUsed(label)[k]]]
    BY DEF Stored
  <2>2. /\ DOMAIN t.params = DOMAIN FieldsUsed(label)
        /\ \A k \in DOMAIN FieldsUsed(label) : t.params[k].field_id = FieldsUsed(label)[k]
    BY <2>1
  <2> HIDE DEF t
  <2> QED BY <2>2 DEF FieldsOf, ToSet
<1>4. ToSet(FieldsUsed(label)) \subseteq Fields
  BY FieldsUsedFacts, LenProperties, ElementOfSeq DEF ToSet
<1> HIDE DEF t
<1>5. \A n \in IndexesUsed(t) : FieldAt(t, n) \in ToSet(FieldsUsed(label))
  BY <1>1, <1>2
<1> QED BY <1>3, <1>4, <1>5 DEF t

(* A stored text is shown as the text it was made of.                      *)
LEMMA StoredIsShown ==
  ASSUME NEW label \in Seq(Tokens), Fits(Stored(label))
  PROVE  Shown(Stored(label)) = label
<1> DEFINE t == Stored(label)
           val == [f \in Fields |-> <<f>>]
           Q == [n \in IndexesUsed(t) |-> val[FieldAt(t, n)]]
<1>1. val \in [Fields -> Seq(Tokens)]
  BY DEF Tokens
<1>2. Mean(val) = [x \in Tokens |-> <<x>>]
  BY DEF Mean
<1> DEFINE same == [x \in Tokens |-> <<x>>]
<1>3. Rewrites(Mean(val), Tokens, Tokens) /\ \A x \in Tokens : Mean(val)[x] = <<x>>
  <2>1. \A x \in Tokens : same[x] = <<x>>
    OBVIOUS
  <2>2. \A x \in Tokens : <<x>> \in Seq(Tokens)
    OBVIOUS
  <2>3. same \in [Tokens -> Seq(Tokens)]
    BY <2>2
  <2> HIDE DEF same
  <2>4. Rewrites(same, Tokens, Tokens) /\ \A x \in Tokens : same[x] = <<x>>
    BY <2>1, <2>3 DEF Rewrites
  <2>5. Mean(val) = same
    BY <1>2 DEF same
  <2> HIDE DEF val
  <2> QED BY <2>4, <2>5
<1>4. \A n \in IndexesUsed(t) : val[FieldAt(t, n)] = <<FieldAt(t, n)>>
  BY UsedIndexes
<1> HIDE DEF val
<1>5. Through(Mean(val), label) = label
  BY <1>3, ThroughItself
<1>6. template_generate_message(t.message, Q) = Through(Mean(val), label)
  BY <1>1, StoredMeans
<1> HIDE DEF t
<1>7. Q = [n \in IndexesUsed(t) |-> <<FieldAt(t, n)>>]
  BY <1>4
<1> HIDE DEF Q
<1> QED BY <1>5, <1>6, <1>7 DEF Shown, t

(* The editor opens with it, if it exists.                                 *)
LEMMA StoredIsReopened ==
  ASSUME NEW label \in Seq(Tokens), Fits(Stored(label)), AllExist(Stored(label))
  PROVE  template_generate_preview(Stored(label)) = label
<1> DEFINE t == Stored(label)
           P == [n \in IndexesUsed(t) |-> Item(FieldAt(t, n))]
           Q == [n \in IndexesUsed(t) |-> <<FieldAt(t, n)>>]
<1>1. \A n \in IndexesUsed(t) : FieldAt(t, n) \in FieldsOf(t)
  BY UsedIndexes
<1>2. \A f \in FieldsOf(t) : Item(f) = <<f>>
  BY DEF AllExist, Item
<1>3. Shown(t) = label
  BY StoredIsShown
<1> HIDE DEF t
<1>4. P = Q
  BY <1>1, <1>2
<1>5. template_generate_preview(t) = template_generate_message(t.message, P)
  BY DEF template_generate_preview
<1>6. Shown(t) = template_generate_message(t.message, Q)
  BY DEF Shown
<1> HIDE DEF P, Q
<1> QED BY <1>3, <1>4, <1>5, <1>6 DEF t

(* It shows only what may be typed.                                        *)
LEMMA PreviewType ==
  ASSUME existing \subseteq UserFields, NEW label \in Seq(Tokens)
  PROVE  template_generate_preview(Stored(label)) \in Seq(Typable)
<1> DEFINE t == Stored(label)
           Q == [n \in IndexesUsed(t) |-> Item(FieldAt(t, n))]
<1>1. t.message \in Seq(Chars)
  BY StoredType
<1>2. template_generate_preview(t) = template_generate_message(t.message, Q)
  BY DEF template_generate_preview
<1> HIDE DEF t
<1>3. \A f : Item(f) \in Seq(Typable)
  <2> TAKE f
  <2>1. CASE Existed(f)
    <3>1. f \in Typable
      BY <2>1 DEF Existed, Typable
    <3>2. <<f>> \in Seq(Typable)
      BY <3>1
    <3> QED BY <2>1, <3>2 DEF Item
  <2>2. CASE ~ Existed(f)
    BY <2>2, EmptySeq DEF Item
  <2> QED BY <2>1, <2>2
<1>4. \A n \in DOMAIN Q : Q[n] \in Seq(Typable)
  BY <1>3
<1> HIDE DEF Q
<1>5. \A piece \in Seq(Chars) : piece \in Seq(Typable)
  BY SeqWider DEF Typable
<1>6. \A piece \in Seq(Chars) : Replaced(piece, Q) \in Seq(Typable)
  BY <1>4, <1>5, Zenon DEF Replaced
<1>7. Rewrites(ReplacedBy(Q), Seq(Chars), Typable)
  BY <1>6 DEF Rewrites, ReplacedBy
<1>8. Pieces(t.message) \in Seq(Seq(Chars))
  BY <1>1, PiecesType
<1>9. Through(ReplacedBy(Q), Pieces(t.message)) \in Seq(Typable)
  BY <1>7, <1>8, ThroughType
<1>10. template_generate_message(t.message, Q) = Through(ReplacedBy(Q), Pieces(t.message))
  BY <1>1, GenerateIsThrough
<1> QED BY <1>2, <1>9, <1>10 DEF t

(* A text stays one over its set when a token is inserted or removed.      *)
LEMMA EditTypes ==
  ASSUME NEW A
  PROVE  \A s \in Seq(A) :
           /\ \A i \in DOMAIN s : RemoveAt(s, i) \in Seq(A)
           /\ \A i \in 1 .. Len(s) + 1, x \in A : InsertAt(s, i, x) \in Seq(A)
<1> TAKE s \in Seq(A)
<1>0. Len(s) \in Nat /\ DOMAIN s = 1 .. Len(s) /\ \A j \in 1 .. Len(s) : s[j] \in A
  BY LenProperties, ElementOfSeq
<1>1. ASSUME NEW a \in 1 .. Len(s) + 2, NEW b \in 0 .. Len(s)
      PROVE  SubSeq(s, a, b) \in Seq(A)
  <2>1. a \in Int /\ b \in Int /\ \A j \in a .. b : s[j] \in A
    BY <1>0
  <2> QED BY <2>1, SubSeqProperties
<1>2. ASSUME NEW i \in DOMAIN s PROVE RemoveAt(s, i) \in Seq(A)
  <2>1. 1 \in 1 .. Len(s) + 2 /\ i - 1 \in 0 .. Len(s) /\ i + 1 \in 1 .. Len(s) + 2
        /\ Len(s) \in 0 .. Len(s)
    BY <1>0
  <2>2. SubSeq(s, 1, i - 1) \in Seq(A) /\ SubSeq(s, i + 1, Len(s)) \in Seq(A)
    BY <1>1, <2>1
  <2> QED BY <2>2, ConcatProperties DEF RemoveAt
<1>3. ASSUME NEW i \in 1 .. Len(s) + 1, NEW x \in A PROVE InsertAt(s, i, x) \in Seq(A)
  <2>1. 1 \in 1 .. Len(s) + 2 /\ i - 1 \in 0 .. Len(s) /\ i \in 1 .. Len(s) + 2
        /\ Len(s) \in 0 .. Len(s)
    BY <1>0
  <2>2. SubSeq(s, 1, i - 1) \in Seq(A) /\ SubSeq(s, i, Len(s)) \in Seq(A) /\ <<x>> \in Seq(A)
    BY <1>1, <2>1
  <2> QED BY <2>2, ConcatProperties DEF InsertAt
<1> QED BY <1>2, <1>3

-----------------------------------------------------------------------------
(* The invariant                                                           *)

\* A template is what save makes of the text last typed, whatever fields
\* were made or erased since.  A template that is in use is there.
TextInv ==
  /\ existing \subseteq UserFields /\ inUse \in BOOLEAN
  /\ typed \in Seq(Tokens)
  /\ template = <<>> \/ template = <<Stored(typed)>>
  /\ inUse => template # <<>>

(* The invariant holds before anything is typed.                           *)
LEMMA TextInvInit == Init => TextInv
BY EmptySeq DEF Init, TextInv

(* It holds after the editor saved a text.                                 *)
LEMMA StoreKeeps ==
  ASSUME TextInv, NEW label \in Seq(Typable), Store(label)
  PROVE  TextInv'
<1>1. Save(label) = Stored(label)
  BY SaveIsStored DEF TextInv
<1>2. label \in Seq(Tokens)
  BY TypableFacts, SeqWider DEF TextInv
<1>3. typed' = label /\ template' = <<Stored(label)>> /\ existing' = existing /\ inUse' = inUse
  BY <1>1 DEF Store
<1>4. ~ inUse
  BY DEF Store
<1>5. template' = <<Stored(typed')>> /\ typed' \in Seq(Tokens)
  BY <1>2, <1>3
<1> QED BY <1>3, <1>4, <1>5, Zenon DEF TextInv

(* Every step keeps the invariant.                                         *)
LEMMA TextInvStep == TextInv /\ [Next]_vars => TextInv'
<1> SUFFICES ASSUME TextInv, [Next]_vars PROVE TextInv'
  OBVIOUS
<1>1. CASE InsertTemplate
  <2>1. PICK x \in Typable : Store(<<x>>)
    BY <1>1 DEF InsertTemplate
  <2>2. <<x>> \in Seq(Typable)
    OBVIOUS
  <2> QED BY <2>1, <2>2, StoreKeeps
<1>2. CASE EditTemplate
  <2> DEFINE label == template_generate_preview(template[1])
  <2>1. label \in Seq(Typable)
    <3>1. template = <<Stored(typed)>>
      BY <1>2, Zenon DEF EditTemplate, TextInv
    <3>2. template[1] = Stored(typed)
      BY <3>1
    <3> QED BY <3>2, PreviewType DEF TextInv
  <2>2. \/ Store(label)
        \/ \E i \in DOMAIN label : Store(RemoveAt(label, i))
        \/ \E i \in 1 .. Len(label) + 1, x \in Typable : Store(InsertAt(label, i, x))
    BY <1>2 DEF EditTemplate
  <2> HIDE DEF label
  <2>3. CASE Store(label)
    BY <2>1, <2>3, StoreKeeps
  <2>4. CASE \E i \in DOMAIN label : Store(RemoveAt(label, i))
    <3>1. PICK i \in DOMAIN label : Store(RemoveAt(label, i))
      BY <2>4
    <3>2. RemoveAt(label, i) \in Seq(Typable)
      BY <2>1, EditTypes
    <3> QED BY <3>1, <3>2, StoreKeeps
  <2>5. CASE \E i \in 1 .. Len(label) + 1, x \in Typable : Store(InsertAt(label, i, x))
    <3>1. PICK i \in 1 .. Len(label) + 1, x \in Typable : Store(InsertAt(label, i, x))
      BY <2>5
    <3>2. InsertAt(label, i, x) \in Seq(Typable)
      BY <2>1, EditTypes
    <3> QED BY <3>1, <3>2, StoreKeeps
  <2> QED BY <2>2, <2>3, <2>4, <2>5
<1>3. CASE EraseTemplate
  BY <1>3, EmptySeq DEF EraseTemplate, TextInv
<1>4. CASE \E f \in UserFields : InsertField(f) \/ EraseField(f)
  BY <1>4 DEF InsertField, EraseField, TextInv
<1>5. CASE UseTemplate
  BY <1>5 DEF UseTemplate, TextInv
<1>6. CASE UNCHANGED vars
  BY <1>6, Zenon DEF vars, TextInv
<1> QED BY <1>1, <1>2, <1>3, <1>4, <1>5, <1>6 DEF Next

(* In every reachable state the template is what save made of the text     *)
(* last typed (tedit_template::save).                                      *)
THEOREM TextInvariance == Spec => []TextInv
<1>1. Init => TextInv
  BY TextInvInit
<1>2. TextInv /\ [Next]_vars => TextInv'
  BY TextInvStep
<1> QED BY <1>1, <1>2, PTL DEF Spec

-----------------------------------------------------------------------------
(* The properties                                                          *)

(* A stored text is characters only, and its parameters are fields.        *)
THEOREM TypeCorrect == Spec => []TypeOK
<1>1. TextInv => TypeOK
  <2> SUFFICES ASSUME TextInv PROVE TypeOK
    OBVIOUS
  <2>1. existing \subseteq UserFields /\ inUse \in BOOLEAN /\ typed \in Seq(Tokens)
    BY DEF TextInv
  <2>2. ASSUME NEW i \in DOMAIN template
        PROVE  /\ template[i].message \in Seq(Chars)
               /\ template[i].params \in Seq([index : Nat, field_id : Fields])
    <3>1. template[i] = Stored(typed)
      BY <2>2 DEF TextInv
    <3> QED BY <2>1, <3>1, StoredType
  <2>3. typed \in Seq(Chars \union Fields)
    BY <2>1 DEF Tokens
  <2> QED BY <2>1, <2>2, <2>3, Zenon DEF TypeOK
<1> QED BY <1>1, TextInvariance, PTL

(* Whatever an addressee's values contain, and whatever the user typed, a  *)
(* message is what the text meant for him when it was saved                *)
(* (template_generate_message2 after tedit_template::save).                *)
THEOREM MessagesMeanWhatWasTyped == Spec => []SendsWhatWasTyped
<1>1. TextInv => SendsWhatWasTyped
  <2> SUFFICES ASSUME TextInv, NEW i \in DOMAIN template, Fits(template[i]),
                      NEW p \in Persons
               PROVE  template_generate_message2(template[i], p) = Meaning(typed, p)
    BY DEF SendsWhatWasTyped
  <2>1. typed \in Seq(Tokens) /\ template[i] = Stored(typed)
    BY DEF TextInv
  <2> QED BY <2>1, StoredIsSent
<1> QED BY <1>1, TextInvariance, PTL

(* While its fields exist, the editor shows a saved text as it was typed   *)
(* (template_generate_preview undoes tedit_template::save).                *)
THEOREM PreviewsAreWhatWasTyped == Spec => []ReopensAsTyped
<1>1. TextInv => ReopensAsTyped
  <2> SUFFICES ASSUME TextInv, NEW i \in DOMAIN template,
                      Fits(template[i]), AllExist(template[i])
               PROVE  template_generate_preview(template[i]) = typed
    BY DEF ReopensAsTyped
  <2>1. typed \in Seq(Tokens) /\ template[i] = Stored(typed)
    BY DEF TextInv
  <2> QED BY <2>1, StoredIsReopened
<1> QED BY <1>1, TextInvariance, PTL

(* is_template_equal holds after a save exactly if the text is the one     *)
(* that was saved before: two texts are never stored alike.                *)
THEOREM EditsAreSeen == Spec => ChangesWithTheText
<1>1. ASSUME TextInv, TextInv'
      PROVE  \A i \in DOMAIN template \intersect DOMAIN template' :
               Fits(template[i]) /\ Fits(template'[i]) /\ AllExist(template[i]) =>
                 (template'[i] = template[i] <=> typed' = typed)
  <2> SUFFICES ASSUME NEW i \in DOMAIN template, i \in DOMAIN template',
                      Fits(template[i]), Fits(template'[i])
               PROVE  template'[i] = template[i] <=> typed' = typed
    OBVIOUS
  <2>1. typed \in Seq(Tokens) /\ template[i] = Stored(typed)
    BY <1>1 DEF TextInv
  <2>2. typed' \in Seq(Tokens) /\ template'[i] = Stored(typed')
    BY <1>1 DEF TextInv
  <2>3. Shown(Stored(typed)) = typed
    BY <2>1, StoredIsShown
  <2>4. Shown(Stored(typed')) = typed'
    BY <2>2, StoredIsShown
  <2> QED BY <2>1, <2>2, <2>3, <2>4
<1> QED BY <1>1, TextInvariance, PTL DEF ChangesWithTheText

(* No step erases a field that the template of the running task shows      *)
(* (did_fields_can_drag), nor the item it shows for it.                    *)
THEOREM NothingVanishesWhileSent == Spec => ShownWhileSent
<1> DEFINE Stays == inUse /\ inUse' =>
             FieldsOf(template[1]) \intersect existing
               \subseteq FieldsOf(template'[1]) \intersect existing'
<1>1. TextInv /\ [Next]_vars => Stays
  <2> SUFFICES ASSUME TextInv, [Next]_vars, inUse, inUse' PROVE Stays
    OBVIOUS
  <2>1. template = <<Stored(typed)>>
    BY DEF TextInv
  <2>2. ASSUME template' = template, existing \subseteq existing' PROVE Stays
    BY <2>2
  <2>3. CASE InsertTemplate \/ EditTemplate
    BY <2>3 DEF InsertTemplate, EditTemplate, Store
  <2>4. CASE EraseTemplate
    BY <2>4 DEF EraseTemplate
  <2>5. CASE \E f \in UserFields : InsertField(f)
    BY <2>2, <2>5 DEF InsertField
  <2>6. ASSUME NEW f \in UserFields, EraseField(f) PROVE Stays
    <3>1. f \notin FieldsOf(template[1])
      BY <2>1, <2>6 DEF EraseField, InFirstTemplate, FieldsOf
    <3> QED BY <2>6, <3>1 DEF EraseField
  <2>7. CASE UseTemplate
    BY <2>7 DEF UseTemplate, TextInv
  <2>8. CASE UNCHANGED vars
    BY <2>2, <2>8 DEF vars
  <2> QED BY <2>3, <2>4, <2>5, <2>6, <2>7, <2>8 DEF Next
<1> QED BY <1>1, TextInvariance, PTL DEF Spec, ShownWhileSent

-----------------------------------------------------------------------------
(* When two digits are enough                                              *)

\* A text of the editor mentions no more fields, and has no more different
\* markers typed into it, than there are indices of two digits together.
FewIndexes(text) ==
  Cardinality(ToSet(text) \cap Fields)
    + Cardinality(template_extract_parameters(text)) <= Base * Base

(* No more indices are given out than fields are mentioned.                *)
LEMMA FieldsUsedCount ==
  ASSUME NEW label \in Seq(Tokens)
  PROVE  /\ IsFiniteSet(ToSet(label) \cap Fields)
         /\ Cardinality(ToSet(label) \cap Fields) \in Nat
         /\ Len(FieldsUsed(label)) <= Cardinality(ToSet(label) \cap Fields)
<1> DEFINE S == FirstItems(label)
           T == ToSet(label) \cap Fields
           h == [i \in S |-> label[i]]
           L == Len(label)
<1>1. L \in Nat /\ DOMAIN label = 1 .. L
  BY LenProperties
<1>2. IsFiniteSet(1 .. L)
  BY <1>1, FS_Interval
<1>3. IsFiniteSet(T) /\ Cardinality(T) \in Nat
  <2>1. label \in Surjection(1 .. L, ToSet(label))
    <3>1. label \in [1 .. L -> Tokens]
      BY LenProperties
    <3> QED BY <1>1, <3>1 DEF Surjection, ToSet
  <2>2. IsFiniteSet(ToSet(label))
    BY <1>2, <2>1, FS_Surjection
  <2>3. T \in SUBSET ToSet(label)
    OBVIOUS
  <2>4. IsFiniteSet(T)
    BY <2>2, <2>3, FS_Subset
  <2> QED BY <2>4, FS_CardinalityType
<1>4. /\ S \subseteq 1 .. L
      /\ \A i \in S : label[i] \in T
      /\ \A i, j \in S : label[i] = label[j] => i = j
  <2>1. \A i \in S : i \in 1 .. L /\ label[i] \in Fields
                     /\ \A j \in 1 .. i - 1 : label[j] # label[i]
    BY <1>1 DEF FirstItems
  <2>2. \A i \in S : label[i] \in T
    BY <1>1, <2>1 DEF ToSet
  <2>3. ASSUME NEW i \in S, NEW j \in S, label[i] = label[j] PROVE i = j
    <3>1. i \in Nat /\ j \in Nat /\ i > 0 /\ j > 0
      BY <1>1, <2>1
    <3>2. ~ (i < j)
      BY <2>1, <2>3, <3>1
    <3>3. ~ (j < i)
      BY <2>1, <2>3, <3>1
    <3> QED BY <3>1, <3>2, <3>3
  <2> QED BY <2>1, <2>2, <2>3
<1> HIDE DEF S, T
<1>5. h \in Injection(S, T)
  BY <1>4 DEF Injection, IsInjective
<1>6. Cardinality(S) <= Cardinality(T) /\ IsFiniteSet(S)
  BY <1>3, <1>5, FS_Injection
<1>7. Cardinality(S) \in Nat
  BY <1>6, FS_CardinalityType
<1>8. DOMAIN FieldsUsed(label) = 1 .. Cardinality(S)
  BY DEF FieldsUsed, S
<1>9. Len(FieldsUsed(label)) = Cardinality(S)
  <2>1. FieldsUsed(label) \in Seq(Fields)
    BY FieldsUsedFacts
  <2>2. Len(FieldsUsed(label)) \in Nat /\ DOMAIN FieldsUsed(label) = 1 .. Len(FieldsUsed(label))
    BY <2>1, LenProperties
  <2> QED BY <1>7, <1>8, <2>2
<1> QED BY <1>3, <1>6, <1>9 DEF T

(* The k-th index that is not typed is at most k - 1 and those typed.      *)
LEMMA FewFit ==
  ASSUME NEW label \in Seq(Tokens), FewIndexes(label)
  PROVE  Fits(Stored(label))
<1> DEFINE u == FieldsUsed(label)
           fade == template_extract_parameters(label)
           c == Cardinality(fade)
           d == Cardinality(ToSet(label) \cap Fields)
<1>1. IsFiniteSet(fade) /\ c \in Nat
  BY ExtractFinite, FS_CardinalityType
<1>2. d \in Nat /\ Len(u) <= d /\ Len(u) \in Nat /\ DOMAIN u = 1 .. Len(u)
  BY FieldsUsedCount, FieldsUsedFacts, LenProperties
<1>3. d + c <= Base * Base
  BY DEF FewIndexes
<1> HIDE DEF d
<1>4. ASSUME NEW k \in 1 .. Len(u) PROVE IndexAt(label, k) < Base * Base
  <2> DEFINE n == IndexAt(label, k)
             free == (0 .. n) \ fade
             taken == (0 .. n) \cap fade
  <2>1. n \in Nat /\ Cardinality(free) = k
    BY StoredType
  <2> HIDE DEF n
  <2>2. IsFiniteSet(0 .. n) /\ Cardinality(0 .. n) = n + 1
    BY <2>1, FS_Interval
  <2>3. IsFiniteSet(free) /\ IsFiniteSet(taken) /\ Cardinality(taken) <= c
    <3>1. free \in SUBSET (0 .. n) /\ taken \in SUBSET (0 .. n) /\ taken \in SUBSET fade
      OBVIOUS
    <3> QED BY <1>1, <2>2, <3>1, FS_Subset
  <2>4. Cardinality(taken) \in Nat
    BY <2>3, FS_CardinalityType
  <2>5. Cardinality(free) = Cardinality(0 .. n) - Cardinality(taken)
    BY <2>2, FS_Difference
  <2> HIDE DEF free, taken
  <2>6. n + 1 = k + Cardinality(taken)
    BY <2>1, <2>2, <2>4, <2>5
  <2>7. Base * Base \in Nat
    BY DigitFacts
  <2> DEFINE B == Base * Base
             q == Cardinality(taken)
  <2> HIDE DEF B, q, c
  <2>8. q <= c /\ q \in Nat /\ n + 1 = k + q /\ d + c <= B /\ B \in Nat
    BY <1>3, <2>3, <2>4, <2>6, <2>7 DEF B, q, c
  <2>9. n < B
    BY <1>1, <1>2, <2>1, <2>8
  <2> QED BY <2>9 DEF n, B
<1>5. ASSUME NEW k \in DOMAIN Stored(label).params
      PROVE  Stored(label).params[k].index < Base * Base
  <2>1. Stored(label).params = [j \in DOMAIN u |-> [index |-> IndexAt(label, j), field_id |-> u[j]]]
    BY DEF Stored
  <2> HIDE DEF u
  <2>2. k \in DOMAIN u /\ Stored(label).params[k].index = IndexAt(label, k)
    BY <2>1
  <2> QED BY <1>2, <1>4, <2>2
<1> QED BY <1>5 DEF Fits

(* The premise that two digits are enough, which the properties above      *)
(* have, is true of every text that mentions no more fields, and has no    *)
(* more markers typed into it, than there are such indices: 100 together.  *)
THEOREM TwoDigitsAreEnough ==
  Spec => [](\A i \in DOMAIN template : FewIndexes(typed) => Fits(template[i]))
<1>1. TextInv => \A i \in DOMAIN template : FewIndexes(typed) => Fits(template[i])
  <2> SUFFICES ASSUME TextInv, NEW i \in DOMAIN template, FewIndexes(typed)
               PROVE  Fits(template[i])
    OBVIOUS
  <2>1. typed \in Seq(Tokens) /\ template[i] = Stored(typed)
    BY DEF TextInv
  <2> QED BY <2>1, FewFit
<1> QED BY <1>1, TextInvariance, PTL
=============================================================================
