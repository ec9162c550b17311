----------------------------- MODULE FoldTheorems ---------------------------
(***************************************************************************)
(* What a fold over a sequence comes to.  The induction is over sets of    *)
(* natural numbers, and a fold's step is a function, so that every         *)
(* statement is about values and none about operators.                     *)
(***************************************************************************)
EXTENDS Naturals, Sequences, SequencesExt, SequenceTheorems, WellFoundedInduction, TLAPS

\* Induction, on the set of the numbers a statement holds of.
LEMMA Induction ==
    ASSUME NEW S \in SUBSET Nat, 0 \in S, \A n \in S : n + 1 \in S
    PROVE  S = Nat
<1> SUFFICES ASSUME Nat \ S # {} PROVE FALSE
  OBVIOUS
<1>1. PICK n \in Nat \ S : \A m \in Nat \ S : ~(<<m, n>> \in OpToRel(<, Nat))
  BY WFMin, NatLessThanWellFounded
<1>2. n # 0 /\ n - 1 \in Nat /\ <<n - 1, n>> \in OpToRel(<, Nat)
  BY <1>1 DEF OpToRel
<1>3. n - 1 \in S
  BY <1>1, <1>2
<1>4. n - 1 + 1 = n
  OBVIOUS
<1> QED  BY <1>1, <1>3, <1>4

\* The greatest of a set of numbers that has one, the first numbers.
LEMMA MaxIs ==
    /\ \A k \in Nat : Max(1..k + 1) = k + 1 /\ (1..k + 1) \ {k + 1} = 1..k
    /\ \A k \in Nat : \A t \in SUBSET (1..k + 1) : k + 1 \in t => Max(t) = k + 1
<1>1. ASSUME NEW k \in Nat, NEW t \in SUBSET (1..k + 1), k + 1 \in t
      PROVE  Max(t) = k + 1
  <2>1. k + 1 \in t /\ \A y \in t : k + 1 >= y
    BY <1>1
  <2>2. \A x \in t : (\A y \in t : x >= y) => x = k + 1
    BY <1>1
  <2> QED  BY <2>1, <2>2 DEF Max
<1>2. \A k \in Nat : k + 1 \in 1..k + 1 /\ (1..k + 1) \ {k + 1} = 1..k
  OBVIOUS
<1> QED  BY <1>1, <1>2

\* Every set of the first numbers that is not empty has a greatest.
LEMMA MaxInside ==
    \A n \in Nat : \A t \in SUBSET (1..n) : t # {} => Max(t) \in t
<1> DEFINE S == {n \in Nat : \A t \in SUBSET (1..n) : t # {} => Max(t) \in t}
<1>1. 0 \in S
  <2>1. \A t \in SUBSET (1..0) : t = {}
    OBVIOUS
  <2> QED  BY <2>1
<1>2. ASSUME NEW n \in S
      PROVE  n + 1 \in S
  <2>1. n \in Nat /\ \A t \in SUBSET (1..n) : t # {} => Max(t) \in t
    OBVIOUS
  <2>2. ASSUME NEW t \in SUBSET (1..n + 1), t # {}
        PROVE  Max(t) \in t
    <3>1. CASE n + 1 \in t
      BY <2>1, <3>1, MaxIs
    <3>2. CASE n + 1 \notin t
      <4>1. t \in SUBSET (1..n)
        BY <2>1, <3>2
      <4> QED  BY <2>1, <2>2, <4>1
    <3> QED  BY <3>1, <3>2
  <2> QED  BY <2>1, <2>2
<1> HIDE DEF S
<1>3. S = Nat
  <2>1. S \in SUBSET Nat
    BY DEF S
  <2> QED  BY <1>1, <1>2, <2>1, Induction
<1> QED  BY <1>3 DEF S

\* The recursion of a fold over the first n items of q, on the sets of their places.
Iterates(h, n, step, base, q) ==
    \A t \in SUBSET (1..n) :
        h[t] = IF t = {} THEN base ELSE step[<<h[t \ {Max(t)}], q[Max(t)]>>]

\* It has a solution.
LEMMA FoldExists ==
    ASSUME NEW A, NEW B, NEW step \in [A \X B -> A], NEW base \in A, NEW q \in Seq(B)
    PROVE  \E h \in [SUBSET (1..Len(q)) -> A] : Iterates(h, Len(q), step, base, q)
<1> USE DEF Iterates
<1> DEFINE Solves(h, n) == Iterates(h, n, step, base, q)
           P(n) == n <= Len(q) => \E h \in [SUBSET (1..n) -> A] : Solves(h, n)
<1>1. Len(q) \in Nat /\ \A i \in 1..Len(q) : q[i] \in B
  BY LenProperties, ElementOfSeq
<1>2. P(0)
  <2> DEFINE h == [t \in SUBSET (1..0) |-> base]
  <2>1. \A t \in SUBSET (1..0) : t = {}
    OBVIOUS
  <2>2. h \in [SUBSET (1..0) -> A]
    OBVIOUS
  <2>3. \A t \in SUBSET (1..0) : h[t] = base
    OBVIOUS
  <2> HIDE DEF h
  <2>4. Solves(h, 0)
    BY <2>1, <2>3
  <2> QED  BY <2>2, <2>4
<1>3. ASSUME NEW n \in Nat, P(n)
      PROVE  P(n + 1)
  <2>1. n \in Nat
    OBVIOUS
  <2> SUFFICES ASSUME n + 1 <= Len(q)
               PROVE  \E h \in [SUBSET (1..n + 1) -> A] : Solves(h, n + 1)
    OBVIOUS
  <2>2. n <= Len(q) /\ n + 1 \in 1..Len(q)
    BY <1>1, <2>1
  <2>3. PICK g \in [SUBSET (1..n) -> A] : Solves(g, n)
    BY <1>3, <2>2
  <2>4. \A t \in SUBSET (1..n + 1) : t \ {n + 1} \in SUBSET (1..n)
    BY <2>1
  <2> DEFINE h == [t \in SUBSET (1..n + 1) |->
                     IF n + 1 \in t THEN step[<<g[t \ {n + 1}], q[n + 1]>>] ELSE g[t]]
  <2>5. \A t \in SUBSET (1..n + 1) : n + 1 \notin t => t \in SUBSET (1..n)
    BY <2>4
  <2>6. h \in [SUBSET (1..n + 1) -> A]
    BY <1>1, <2>2, <2>3, <2>4, <2>5
  <2>7. ASSUME NEW t \in SUBSET (1..n + 1)
        PROVE  h[t] = IF t = {} THEN base ELSE step[<<h[t \ {Max(t)}], q[Max(t)]>>]
    <3>1. CASE n + 1 \in t
      <4>1. Max(t) = n + 1
        BY <2>1, <3>1, MaxIs
      <4>2. t \ {n + 1} \in SUBSET (1..n) /\ t \ {n + 1} \in SUBSET (1..n + 1)
        BY <2>4
      <4>3. h[t \ {n + 1}] = g[t \ {n + 1}]
        BY <4>2
      <4>4. h[t] = step[<<g[t \ {n + 1}], q[n + 1]>>]
        BY <3>1
      <4> HIDE DEF h
      <4> QED  BY <3>1, <4>1, <4>3, <4>4
    <3>2. CASE n + 1 \notin t
      <4>1. t \in SUBSET (1..n) /\ h[t] = g[t]
        BY <2>5, <3>2
      <4>2. t \ {Max(t)} \in SUBSET (1..n) /\ n + 1 \notin t \ {Max(t)}
        BY <3>2, <4>1
      <4>3. h[t \ {Max(t)}] = g[t \ {Max(t)}]
        BY <4>2
      <4>4. g[t] = IF t = {} THEN base ELSE step[<<g[t \ {Max(t)}], q[Max(t)]>>]
        BY <2>3, <4>1
      <4> HIDE DEF h
      <4> QED  BY <4>1, <4>3, <4>4
    <3> QED  BY <3>1, <3>2
  <2> HIDE DEF h
  <2> QED  BY <2>6, <2>7
<1> HIDE DEF P
<1> DEFINE S == {n \in Nat : P(n)}
<1>4. S = Nat
  <2>1. S \in SUBSET Nat /\ 0 \in S /\ \A n \in S : n + 1 \in S
    BY <1>2, <1>3
  <2> HIDE DEF S
  <2> QED  BY <2>1, Induction
<1>5. P(Len(q))
  BY <1>1, <1>4
<1>6. \E h \in [SUBSET (1..Len(q)) -> A] : Solves(h, Len(q))
  <2>1. Len(q) <= Len(q)
    BY <1>1
  <2> HIDE DEF Iterates
  <2> QED  BY <1>5, <2>1 DEF P
<1> QED  BY <1>6

\* What it comes to, one item of q after the other.
Reaches(A, step, base, q, last) ==
    \E h \in [0..Len(q) -> A] :
        /\ h[0] = base /\ h[Len(q)] = last
        /\ \A i \in 1..Len(q) : h[i] = step[<<h[i - 1], q[i]>>]

LEMMA FoldGoes ==
    ASSUME NEW A, NEW B, NEW step \in [A \X B -> A], NEW base \in A, NEW q \in Seq(B),
           NEW iter \in [SUBSET (1..Len(q)) -> A],
           Iterates(iter, Len(q), step, base, q)
    PROVE  Reaches(A, step, base, q, iter[1..Len(q)])
<1> DEFINE n == Len(q)
           h == [i \in 0..n |-> iter[1..i]]
<1>1. n \in Nat
  BY LenProperties
<1> HIDE DEF n
<1>2. \A i \in 0..n : 1..i \in SUBSET (1..n)
  BY <1>1
<1>3. h \in [0..n -> A]
  BY <1>2 DEF n
<1>4. ASSUME NEW i \in 1..n
      PROVE  h[i] = step[<<h[i - 1], q[i]>>]
  <2>1. i - 1 \in Nat /\ i = (i - 1) + 1 /\ i - 1 \in 0..n /\ i \in 0..n /\ i \in 1..i
    BY <1>1
  <2>2. Max(1..i) = i /\ (1..i) \ {i} = 1..(i - 1)
    BY <2>1, MaxIs
  <2>3. iter[1..i] = IF 1..i = {} THEN base ELSE step[<<iter[(1..i) \ {Max(1..i)}], q[Max(1..i)]>>]
    BY <1>2, <2>1 DEF n, Iterates
  <2>4. iter[1..i] = step[<<iter[1..(i - 1)], q[i]>>]
    BY <2>1, <2>2, <2>3
  <2> QED  BY <2>1, <2>4
<1>5. h[0] = base /\ h[n] = iter[1..n]
  <2>1. 1..0 = {} /\ 0 \in 0..n /\ n \in 0..n
    BY <1>1
  <2>2. iter[1..0] = base
    BY <1>2, <2>1 DEF n, Iterates
  <2> QED  BY <2>1, <2>2
<1> HIDE DEF h
<1> QED  BY <1>3, <1>4, <1>5 DEF n, Reaches

\* A recursion over the sets of places stays where it starts, if its step does.
LEMMA FoldStays ==
    ASSUME NEW n \in Nat, NEW A, NEW iter, iter[{}] \in A,
           \A t \in SUBSET (1..n) : t # {} /\ iter[t \ {Max(t)}] \in A => iter[t] \in A
    PROVE  \A t \in SUBSET (1..n) : iter[t] \in A
<1> DEFINE S == {k \in Nat : k <= n => \A t \in SUBSET (1..k) : iter[t] \in A}
<1>1. 0 \in S
  <2>1. \A t \in SUBSET (1..0) : t = {}
    OBVIOUS
  <2> QED  BY <2>1
<1>2. ASSUME NEW k \in S
      PROVE  k + 1 \in S
  <2>1. k \in Nat
    OBVIOUS
  <2> SUFFICES ASSUME k + 1 <= n, NEW t \in SUBSET (1..k + 1)
               PROVE  iter[t] \in A
    BY <2>1
  <2>2. (\A u \in SUBSET (1..k) : iter[u] \in A) /\ t \in SUBSET (1..n)
    BY <2>1
  <2>3. CASE k + 1 \in t
    <3>1. Max(t) = k + 1 /\ t \ {k + 1} \in SUBSET (1..k)
      BY <2>1, <2>3, MaxIs
    <3> QED  BY <2>2, <2>3, <3>1
  <2>4. CASE k + 1 \notin t
    <3>1. t \in SUBSET (1..k)
      BY <2>1, <2>4
    <3> QED  BY <2>2, <3>1
  <2> QED  BY <2>3, <2>4
<1> HIDE DEF S
<1>3. S = Nat
  <2>1. S \in SUBSET Nat
    BY DEF S
  <2> QED  BY <1>1, <1>2, <2>1, Induction
<1> QED  BY <1>3 DEF S

\* What a recursion over the sets of places comes to, if every step of it from A is step.
Recurs(iter, A, n, step, base, q) ==
    /\ iter = [t \in SUBSET (1..n) |-> iter[t]] /\ iter[{}] = base
    /\ \A t \in SUBSET (1..n) : t # {} /\ iter[t \ {Max(t)}] \in A =>
            iter[t] = step[<<iter[t \ {Max(t)}], q[Max(t)]>>]

LEMMA FoldReaches ==
    ASSUME NEW A, NEW B, NEW step \in [A \X B -> A], NEW base \in A, NEW q \in Seq(B), NEW iter,
           Recurs(iter, A, Len(q), step, base, q)
    PROVE  Reaches(A, step, base, q, iter[1..Len(q)])
<1> DEFINE n == Len(q)
<1>1. n \in Nat /\ \A i \in 1..n : q[i] \in B
  BY LenProperties, ElementOfSeq
<1> HIDE DEF n
<1>2. \A t \in SUBSET (1..n) : t # {} => Max(t) \in 1..n /\ t \ {Max(t)} \in SUBSET (1..n)
  BY <1>1, MaxInside
<1>3. /\ iter = [t \in SUBSET (1..n) |-> iter[t]] /\ iter[{}] = base
      /\ \A t \in SUBSET (1..n) : t # {} /\ iter[t \ {Max(t)}] \in A =>
            iter[t] = step[<<iter[t \ {Max(t)}], q[Max(t)]>>]
  BY DEF n, Recurs
<1>4. \A t \in SUBSET (1..n) : t # {} /\ iter[t \ {Max(t)}] \in A => iter[t] \in A
  BY <1>1, <1>2, <1>3
<1>5. \A t \in SUBSET (1..n) : iter[t] \in A
  BY <1>1, <1>3, <1>4, FoldStays
<1>6. iter \in [SUBSET (1..n) -> A]
  BY <1>3, <1>5
<1>7. Iterates(iter, n, step, base, q)
  BY <1>2, <1>3, <1>5 DEF Iterates
<1> QED  BY <1>6, <1>7, FoldGoes DEF n

\* What holds of the start, and after each item if it held before, holds of the end.
Lasts(I, A, step, q) ==
    \A i \in 1..Len(q), a \in A : <<i - 1, a>> \in I => <<i, step[<<a, q[i]>>]>> \in I

LEMMA FoldKeeps ==
    ASSUME NEW A, NEW B, NEW step \in [A \X B -> A], NEW base \in A, NEW q \in Seq(B), NEW last,
           Reaches(A, step, base, q, last), NEW I, <<0, base>> \in I, Lasts(I, A, step, q)
    PROVE  last \in A /\ <<Len(q), last>> \in I
<1> DEFINE n == Len(q)
<1>1. n \in Nat
  BY LenProperties
<1>2. PICK h \in [0..n -> A] : /\ h[0] = base /\ h[n] = last
                               /\ \A i \in 1..n : h[i] = step[<<h[i - 1], q[i]>>]
  BY DEF Reaches
<1>3. \A i \in 1..n, a \in A : <<i - 1, a>> \in I => <<i, step[<<a, q[i]>>]>> \in I
  BY DEF Lasts
<1> HIDE DEF n
<1> DEFINE S == {k \in Nat : k <= n => <<k, h[k]>> \in I}
<1>4. 0 \in S
  BY <1>2
<1>5. ASSUME NEW k \in S
      PROVE  k + 1 \in S
  <2>1. k \in Nat
    OBVIOUS
  <2> SUFFICES ASSUME k + 1 <= n PROVE <<k + 1, h[k + 1]>> \in I
    BY <2>1
  <2>2. k + 1 \in 1..n /\ k \in 0..n /\ (k + 1) - 1 = k /\ <<k, h[k]>> \in I
    BY <1>1, <2>1
  <2>3. h[k + 1] = step[<<h[k], q[k + 1]>>] /\ h[k] \in A
    BY <1>2, <2>2
  <2> QED  BY <1>3, <2>2, <2>3
<1> HIDE DEF S
<1>6. S = Nat
  <2>1. S \in SUBSET Nat
    BY DEF S
  <2> QED  BY <1>4, <1>5, <2>1, Induction
<1>7. n \in S /\ n \in 0..n
  BY <1>1, <1>6
<1> QED  BY <1>2, <1>7 DEF S, n
=============================================================================
