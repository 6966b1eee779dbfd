----------------------------- MODULE FoldLemmas -----------------------------
(***************************************************************************)
(* Induction over what a left fold accumulates, for any operation and any   *)
(* predicate: the prover cannot apply a theorem to an operator, but it can  *)
(* use one of an instance of this module, whose constants are operators.    *)
(***************************************************************************)
EXTENDS SequencesExt, Integers, WellFoundedInduction, TLAPS

CONSTANTS
  Op(_, _, _), \* the operation, given the context, what is accumulated, an element
  P(_, _, _)   \* of the context, a number of elements and what they make

\* The fold of a sequence, in a context that does not change.
Fold(c, base, seq) == FoldLeft(LAMBDA x, y : Op(c, x, y), base, seq)

\* What the fold computes for the elements at the indices s.
Body(c, base, seq, iter, s) ==
  IF s = {} THEN base ELSE Op(c, iter[s \ {Max(s)}], seq[Max(s)])

\* Induction over the natural numbers, about a set of them.
LEMMA NatSetInduction ==
  ASSUME NEW S, 0 \in S, \A n \in Nat : n \in S => n + 1 \in S
  PROVE  Nat \subseteq S
<1>1. SUFFICES ASSUME Nat \ S # {} PROVE FALSE
  OBVIOUS
<1>2. PICK n \in Nat \ S : \A m \in Nat \ S : <<m, n>> \notin OpToRel(<, Nat)
  BY <1>1, NatLessThanWellFounded, WFMin
<1>3. n # 0 /\ n - 1 \in Nat
  OBVIOUS
<1>4. <<n - 1, n>> \in OpToRel(<, Nat)
  BY <1>3 DEF OpToRel
<1>5. n - 1 \in S
  BY <1>2, <1>3, <1>4
<1>6. QED
  BY <1>3, <1>5

LEMMA MaxLast ==
  ASSUME NEW k \in Nat, NEW s \in SUBSET (1 .. k + 1), k + 1 \in s
  PROVE  Max(s) = k + 1
<1>1. \A y \in s : k + 1 >= y
  OBVIOUS
<1>2. \E x : x \in s /\ \A y \in s : x >= y
  BY <1>1
<1>3. Max(s) = CHOOSE x : x \in s /\ \A y \in s : x >= y
  BY DEF Max
<1>4. Max(s) \in s /\ \A y \in s : Max(s) >= y
  BY <1>2, <1>3
<1>5. \A m \in s : (\A y \in s : m >= y) => m = k + 1
  OBVIOUS
<1>6. QED
  BY <1>4, <1>5, Zenon

\* What the function that computes the fold is like.
IsIter(c, base, seq, n, iter) ==
  iter = [s \in SUBSET (1 .. n) |-> Body(c, base, seq, iter, s)]

\* The function that the fold chooses exists ...
LEMMA FoldExists ==
  ASSUME NEW c, NEW base, NEW seq, NEW n \in Nat
  PROVE  \E iter : iter = [s \in SUBSET (1 .. n) |-> Body(c, base, seq, iter, s)]
<1> DEFINE Exists(k) ==
             \E iter : iter = [s \in SUBSET (1 .. k) |-> Body(c, base, seq, iter, s)]
           S == {k \in Nat : Exists(k)}
<1>1. 0 \in S
  <2> DEFINE iter == [s \in SUBSET (1 .. 0) |-> base]
  <2>1. \A s \in SUBSET (1 .. 0) : s = {}
    OBVIOUS
  <2>2. iter = [s \in SUBSET (1 .. 0) |-> Body(c, base, seq, iter, s)]
    BY <2>1 DEF Body
  <2>3. QED
    BY <2>2
<1>2. ASSUME NEW k \in Nat, k \in S
      PROVE  k + 1 \in S
  <2>1. PICK f : f = [s \in SUBSET (1 .. k) |-> Body(c, base, seq, f, s)]
    BY <1>2
  <2> DEFINE iter == [s \in SUBSET (1 .. k + 1) |->
                        IF k + 1 \in s THEN Op(c, f[s \ {k + 1}], seq[k + 1]) ELSE f[s]]
  <2>2. ASSUME NEW s \in SUBSET (1 .. k + 1)
        PROVE  iter[s] = Body(c, base, seq, iter, s)
    <3>1. CASE k + 1 \in s
      <4>1. s \ {k + 1} \in SUBSET (1 .. k) /\ k + 1 \notin s \ {k + 1}
            /\ s \ {k + 1} \in SUBSET (1 .. k + 1)
        OBVIOUS
      <4>2. iter[s \ {k + 1}] = f[s \ {k + 1}]
        BY <4>1
      <4>3. QED
        BY <3>1, <4>2, MaxLast DEF Body
    <3>2. CASE k + 1 \notin s
      <4>1. s \in SUBSET (1 .. k)
        BY <3>2
      <4>2. iter[s] = Body(c, base, seq, f, s)
        BY <2>1, <3>2, <4>1
      <4>3. s # {} => /\ s \ {Max(s)} \in SUBSET (1 .. k + 1)
                      /\ k + 1 \notin s \ {Max(s)}
        BY <3>2
      <4>4. s # {} => iter[s \ {Max(s)}] = f[s \ {Max(s)}]
        BY <4>3
      <4>5. QED
        BY <4>2, <4>4 DEF Body
    <3>3. QED
      BY <3>1, <3>2
  <2>3. iter = [s \in SUBSET (1 .. k + 1) |-> Body(c, base, seq, iter, s)]
    <3> HIDE DEF iter
    <3>1. iter = [s \in SUBSET (1 .. k + 1) |-> iter[s]]
      BY DEF iter
    <3>2. QED
      BY <2>2, <3>1
  <2>4. Exists(k + 1)
    <3> HIDE DEF iter
    <3>1. QED
      BY <2>3
  <2>5. QED
    BY <2>4
<1> HIDE DEF S
<1>3. n \in S
  BY <1>1, <1>2, NatSetInduction
<1>4. QED
  BY <1>3 DEF S

\* ... so that it satisfies its definition.
LEMMA FoldEquation ==
  ASSUME NEW c, NEW base, NEW seq, NEW n \in Nat, DOMAIN seq = 1 .. n
  PROVE  \E iter : IsIter(c, base, seq, n, iter) /\ Fold(c, base, seq) = iter[1 .. n]
<1> DEFINE iter == CHOOSE iter :
             iter = [s \in SUBSET (1 .. n) |-> Body(c, base, seq, iter, s)]
<1>1. iter = [s \in SUBSET (1 .. n) |-> Body(c, base, seq, iter, s)]
  BY FoldExists
<1>2. Fold(c, base, seq) =
        LET it[s \in SUBSET DOMAIN seq] ==
              IF s = {} THEN base
              ELSE LET x == Max(s) IN Op(c, it[s \ {x}], seq[x])
        IN  it[DOMAIN seq]
  BY DEF Fold, FoldLeft, MapThenFoldSet
<1>3. Fold(c, base, seq) = iter[1 .. n]
  BY <1>2 DEF Body
<1>4. IsIter(c, base, seq, n, iter)
  BY <1>1 DEF IsIter
<1>5. QED
  BY <1>3, <1>4

\* What holds of the base, and is kept by each element in turn, holds of the
\* fold.
LEMMA FoldInduction ==
  ASSUME NEW c, NEW base, NEW seq, NEW n \in Nat, DOMAIN seq = 1 .. n,
         P(c, 0, base),
         \A k \in 0 .. n - 1 : \A x : P(c, k, x) => P(c, k + 1, Op(c, x, seq[k + 1]))
  PROVE  P(c, n, Fold(c, base, seq))
<1>1. PICK iter : IsIter(c, base, seq, n, iter) /\ Fold(c, base, seq) = iter[1 .. n]
  BY FoldEquation
<1> DEFINE S == {k \in Nat : k <= n => P(c, k, iter[1 .. k])}
<1>2. 0 \in S
  <2>1. 1 .. 0 = {} /\ 1 .. 0 \in SUBSET (1 .. n)
    OBVIOUS
  <2>2. iter[1 .. 0] = base
    BY <1>1, <2>1 DEF IsIter, Body
  <2>3. QED
    BY <2>2
<1>3. ASSUME NEW k \in Nat, k \in S
      PROVE  k + 1 \in S
  <2>1. SUFFICES ASSUME k + 1 <= n PROVE P(c, k + 1, iter[1 .. k + 1])
    OBVIOUS
  <2>2. /\ 1 .. k + 1 \in SUBSET (1 .. n) /\ 1 .. k + 1 # {}
        /\ k + 1 \in 1 .. k + 1
        /\ (1 .. k + 1) \ {k + 1} = 1 .. k
    BY <2>1
  <2>3. Max(1 .. k + 1) = k + 1
    BY <2>2, MaxLast
  <2>4. iter[1 .. k + 1] = Op(c, iter[1 .. k], seq[k + 1])
    BY <1>1, <2>2, <2>3 DEF IsIter, Body
  <2>5. P(c, k, iter[1 .. k]) /\ k \in 0 .. n - 1
    BY <1>3, <2>1
  <2>6. QED
    BY <2>4, <2>5
<1> HIDE DEF S
<1>4. n \in S
  BY <1>2, <1>3, NatSetInduction
<1>5. QED
  BY <1>1, <1>4 DEF S
=============================================================================
