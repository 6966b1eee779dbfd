------------------------- MODULE ApplicationProofs -------------------------
(***************************************************************************)
(* Theorems about game detection and the application's games and settings,   *)
(* for any games, machines, settings files and command lines, and any number *)
(* of starts, edits and installs.                                           *)
(*                                                                         *)
(* First what sequences, folds and derived names give; then detection, step *)
(* by step; then the lists of games, the file, the objects and the dialog;  *)
(* last the inductive invariant and the theorems that follow from it.  That *)
(* folders are unique, above all, is what lets an entry stand for its game. *)
(***************************************************************************)
EXTENDS Application, FiniteSetTheorems, SequenceTheorems, TLAPS

-----------------------------------------------------------------------------
(* Sequences that are put together from others.                             *)

\* The folds of detection, so that the lemmas about folds apply.
KeepStep(c, kept, i) == Keep(kept, i)
KeepStepKeeps(c, k, kept) == kept \in Seq(c)
KeepFold == INSTANCE FoldLemmas WITH Op <- KeepStep, P <- KeepStepKeeps

\* A sequence of sequences is flattened one after the other.
FlatPart(seqs, g, i) == IF i = 1 THEN seqs[i] ELSE g[i - 1] \o seqs[i]
Flattens(seqs, n, g) == g = [i \in 1 .. n |-> FlatPart(seqs, g, i)]

\* The function that FlattenSeq chooses exists.
LEMMA FlattensExists ==
  ASSUME NEW n \in Nat, NEW seqs
  PROVE  \E g : Flattens(seqs, n, g)
<1> DEFINE Exists == {k \in Nat : \E g : Flattens(seqs, k, g)}
<1>1. 0 \in Exists
  <2>1. 1 .. 0 = {}
    OBVIOUS
  <2>2. Flattens(seqs, 0, [i \in {} |-> <<>>])
    BY <2>1 DEF Flattens
  <2>3. QED
    BY <2>2
<1>2. ASSUME NEW k \in Nat, k \in Exists
      PROVE  k + 1 \in Exists
  <2>1. PICK g : Flattens(seqs, k, g)
    BY <1>2
  <2> DEFINE h == [i \in 1 .. k + 1 |-> FlatPart(seqs, g, i)]
  <2>2. ASSUME NEW i \in 1 .. k + 1
        PROVE  FlatPart(seqs, g, i) = FlatPart(seqs, h, i)
    <3>1. CASE i = 1
      BY <3>1 DEF FlatPart
    <3>2. CASE i # 1
      <4>1. i - 1 \in 1 .. k /\ i - 1 \in 1 .. k + 1
        BY <3>2
      <4>2. h[i - 1] = g[i - 1]
        BY <2>1, <4>1 DEF Flattens
      <4>3. QED
        BY <4>2 DEF FlatPart
    <3>3. QED
      BY <3>1, <3>2
  <2>3. Flattens(seqs, k + 1, h)
    BY <2>2 DEF Flattens
  <2>4. QED
    BY <2>3
<1> HIDE DEF Exists
<1>3. n \in Exists
  BY <1>1, <1>2, KeepFold!NatSetInduction
<1>4. QED
  BY <1>3 DEF Exists

\* Flattening is putting one sequence after another, from the empty one.
LEMMA FlattenIter ==
  ASSUME NEW S, NEW n \in Nat, NEW seqs \in [1 .. n -> Seq(S)]
  PROVE  \E f \in [0 .. n -> Seq(S)] :
           /\ f[0] = <<>>
           /\ \A k \in 0 .. n - 1 : f[k + 1] = f[k] \o seqs[k + 1]
           /\ FlattenSeq(seqs) = f[n]
<1>1. seqs \in Seq(Seq(S)) /\ Len(seqs) = n
  OBVIOUS
<1>2. CASE n = 0
  <2>1. FlattenSeq(seqs) = <<>>
    BY <1>1, <1>2 DEF FlattenSeq
  <2> DEFINE f == [k \in 0 .. n |-> <<>>]
  <2>2. f \in [0 .. n -> Seq(S)] /\ f[0] = <<>> /\ f[n] = <<>>
    BY <1>2
  <2>3. \A k \in 0 .. n - 1 : FALSE
    BY <1>2
  <2>4. QED
    BY <2>1, <2>2, <2>3
<1>3. CASE n # 0
  <2> DEFINE g == CHOOSE g : Flattens(seqs, n, g)
  <2>1. FlattenSeq(seqs) = g[n]
    BY <1>1, <1>3, Zenon DEF FlattenSeq, Flattens, FlatPart
  <2>2. Flattens(seqs, n, g)
    BY FlattensExists
  <2> HIDE DEF g
  <2>3. /\ g[1] = seqs[1]
        /\ \A k \in 1 .. n - 1 : g[k + 1] = g[k] \o seqs[k + 1]
    <3>1. \A k \in 1 .. n : g[k] = FlatPart(seqs, g, k)
      BY <2>2 DEF Flattens
    <3>2. g[1] = seqs[1]
      BY <1>3, <3>1 DEF FlatPart
    <3>3. \A i : i # 1 => FlatPart(seqs, g, i) = g[i - 1] \o seqs[i]
      BY DEF FlatPart
    <3>4. ASSUME NEW k \in 1 .. n - 1
          PROVE  g[k + 1] = g[k] \o seqs[k + 1]
      <4>1. k + 1 \in 1 .. n /\ k + 1 # 1 /\ (k + 1) - 1 = k
        OBVIOUS
      <4>2. g[k + 1] = FlatPart(seqs, g, k + 1)
        BY <3>1, <4>1
      <4>3. FlatPart(seqs, g, k + 1) = g[(k + 1) - 1] \o seqs[k + 1]
        BY <3>3, <4>1, Zenon
      <4>4. QED
        BY <4>1, <4>2, <4>3, Zenon
    <3>5. QED
      BY <3>2, <3>4
  <2> DEFINE InSeq == {k \in Nat : k + 1 <= n => g[k + 1] \in Seq(S)}
  <2>4. 0 \in InSeq
    BY <2>3
  <2>5. ASSUME NEW k \in Nat, k \in InSeq
        PROVE  k + 1 \in InSeq
    <3>1. SUFFICES ASSUME k + 2 <= n PROVE g[k + 2] \in Seq(S)
      OBVIOUS
    <3>2. g[k + 2] = g[k + 1] \o seqs[k + 2]
      <4>1. k + 1 \in 1 .. n - 1 /\ k + 1 + 1 = k + 2
        BY <3>1
      <4>2. g[k + 1 + 1] = g[k + 1] \o seqs[k + 1 + 1]
        BY <2>3, <4>1
      <4>3. QED
        BY <4>1, <4>2
    <3>3. g[k + 1] \in Seq(S) /\ seqs[k + 2] \in Seq(S)
      BY <2>5, <3>1
    <3>4. QED
      BY <3>2, <3>3, ConcatProperties
  <2> HIDE DEF InSeq
  <2>6. Nat \subseteq InSeq
    BY <2>4, <2>5, KeepFold!NatSetInduction
  <2>7. ASSUME NEW k \in 1 .. n
        PROVE  g[k] \in Seq(S)
    <3>1. k - 1 \in InSeq /\ (k - 1) + 1 = k
      BY <2>6
    <3>2. QED
      BY <3>1 DEF InSeq
  <2> DEFINE f == [k \in 0 .. n |-> IF k = 0 THEN <<>> ELSE g[k]]
  <2>8. f \in [0 .. n -> Seq(S)] /\ f[0] = <<>> /\ f[n] = g[n]
    BY <1>3, <2>7
  <2>9. ASSUME NEW k \in 0 .. n - 1
        PROVE  f[k + 1] = f[k] \o seqs[k + 1]
    <3>1. CASE k = 0
      <4>1. f[k] = <<>> /\ f[k + 1] = seqs[k + 1] /\ seqs[k + 1] \in Seq(S)
        BY <2>3, <3>1
      <4>2. QED
        BY <4>1, ConcatEmptySeq
    <3>2. CASE k # 0
      <4>1. k \in 1 .. n - 1 /\ f[k + 1] = g[k + 1] /\ f[k] = g[k]
        BY <3>2
      <4> HIDE DEF f
      <4>2. QED
        BY <2>3, <4>1
    <3>3. QED
      BY <3>1, <3>2
  <2> HIDE DEF f
  <2>10. QED
    BY <2>1, <2>8, <2>9
<1>4. QED
  BY <1>2, <1>3

\* What is flattened has the elements of the sequences.
LEMMA FlattenIn ==
  ASSUME NEW S, NEW n \in Nat, NEW seqs \in [1 .. n -> Seq(S)]
  PROVE  FlattenSeq(seqs) \in Seq(S)
<1>1. PICK f \in [0 .. n -> Seq(S)] :
        /\ f[0] = <<>>
        /\ \A k \in 0 .. n - 1 : f[k + 1] = f[k] \o seqs[k + 1]
        /\ FlattenSeq(seqs) = f[n]
  BY FlattenIter, Zenon
<1>2. QED
  BY <1>1

\* The elements of s at the indices in I, in order, and those indices.
Picked(s, n, I) == FlattenSeq([i \in 1 .. n |-> IF i \in I THEN <<s[i]>> ELSE <<>>])
Order(n, I) == Picked([i \in 1 .. n |-> i], n, I)

\* e lists those indices of I that are at most k.
Ordered(e, I, k) ==
  /\ e \in Seq(I)
  /\ \A j \in 1 .. Len(e) : e[j] <= k
  /\ \A j, l \in 1 .. Len(e) : e[j] = e[l] => j = l
  /\ \A i \in I : i <= k => \E j \in 1 .. Len(e) : e[j] = i

\* The next index is appended, or left out.
LEMMA OrderedOneMore ==
  ASSUME NEW k \in Nat, NEW I \in SUBSET Nat, NEW e, Ordered(e, I, k)
  PROVE  /\ k + 1 \in I => Ordered(e \o <<k + 1>>, I, k + 1)
         /\ k + 1 \notin I => Ordered(e, I, k + 1)
<1>1. ASSUME k + 1 \in I
      PROVE  Ordered(e \o <<k + 1>>, I, k + 1)
  <2> DEFINE f == e \o <<k + 1>>
             m == Len(e)
  <2>1. /\ e \in Seq(I) /\ m \in Nat /\ f \in Seq(I) /\ Len(f) = m + 1
        /\ f[m + 1] = k + 1
        /\ \A j \in 1 .. m : f[j] = e[j] /\ e[j] \in Nat /\ e[j] <= k
    <3>1. e \in Seq(I) /\ m \in Nat /\ \A j \in 1 .. m : e[j] <= k
      BY DEF Ordered
    <3>2. \A j \in 1 .. m : e[j] \in Nat
      BY <3>1, ElementOfSeq
    <3>3. <<k + 1>> \in Seq(I) /\ Len(<<k + 1>>) = 1 /\ <<k + 1>>[1] = k + 1
      BY <1>1
    <3>4. QED
      BY <3>1, <3>2, <3>3, ConcatProperties
  <2> HIDE DEF f
  <2>2. \A j \in 1 .. m + 1 : f[j] <= k + 1
    BY <2>1
  <2>3. ASSUME NEW j \in 1 .. m + 1, NEW l \in 1 .. m + 1, f[j] = f[l]
        PROVE  j = l
    BY <2>1, <2>3 DEF Ordered
  <2>4. ASSUME NEW i \in I, i <= k + 1
        PROVE  \E j \in 1 .. m + 1 : f[j] = i
    <3>1. CASE i = k + 1
      BY <2>1, <3>1
    <3>2. CASE i # k + 1
      <4>1. PICK j \in 1 .. m : e[j] = i
        BY <2>4, <3>2 DEF Ordered
      <4>2. QED
        BY <2>1, <4>1
    <3>3. QED
      BY <3>1, <3>2
  <2>5. QED
    BY <2>1, <2>2, <2>3, <2>4 DEF Ordered, f
<1>2. ASSUME k + 1 \notin I
      PROVE  Ordered(e, I, k + 1)
  <2>1. \A j \in 1 .. Len(e) : e[j] \in Nat
    <3>1. e \in Seq(I)
      BY DEF Ordered
    <3>2. QED
      BY <3>1, ElementOfSeq
  <2>2. QED
    BY <1>2, <2>1 DEF Ordered
<1>3. QED
  BY <1>1, <1>2

\* The indices are listed in order, each once.
LEMMA OrderIs ==
  ASSUME NEW n \in Nat, NEW I \in SUBSET (1 .. n)
  PROVE  Ordered(Order(n, I), I, n)
<1> DEFINE seqs == [i \in 1 .. n |-> IF i \in I THEN <<i>> ELSE <<>>]
<1>1. seqs \in [1 .. n -> Seq(I)]
  OBVIOUS
<1>2. Order(n, I) = FlattenSeq(seqs)
  BY DEF Order, Picked
<1>3. PICK e \in [0 .. n -> Seq(I)] :
        /\ e[0] = <<>>
        /\ \A k \in 0 .. n - 1 : e[k + 1] = e[k] \o seqs[k + 1]
        /\ FlattenSeq(seqs) = e[n]
  <2> HIDE DEF seqs
  <2>1. QED
    BY <1>1, FlattenIter, Zenon
<1> DEFINE Done == {k \in Nat : k <= n => Ordered(e[k], I, k)}
<1>4. 0 \in Done
  BY <1>3 DEF Ordered
<1>5. ASSUME NEW k \in Nat, k \in Done
      PROVE  k + 1 \in Done
  <2>1. SUFFICES ASSUME k + 1 <= n PROVE Ordered(e[k + 1], I, k + 1)
    OBVIOUS
  <2>2. Ordered(e[k], I, k) /\ e[k] \in Seq(I) /\ e[k + 1] = e[k] \o seqs[k + 1]
    <3>1. k \in 0 .. n - 1 /\ k \in 0 .. n
      BY <2>1
    <3>2. Ordered(e[k], I, k)
      BY <1>5, <2>1
    <3> HIDE DEF seqs
    <3>3. QED
      BY <1>3, <3>1, <3>2
  <2>3. I \in SUBSET Nat
    OBVIOUS
  <2>4. CASE k + 1 \in I
    <3>1. e[k + 1] = e[k] \o <<k + 1>>
      BY <2>1, <2>2, <2>4
    <3>2. QED
      BY <2>2, <2>3, <2>4, <3>1, OrderedOneMore
  <2>5. CASE k + 1 \notin I
    <3>1. seqs[k + 1] = <<>>
      BY <2>1, <2>5
    <3>2. e[k + 1] = e[k]
      BY <2>2, <3>1, ConcatEmptySeq
    <3>3. QED
      BY <2>2, <2>3, <2>5, <3>2, OrderedOneMore
  <2>6. QED
    BY <2>4, <2>5
<1> HIDE DEF Done
<1>6. n \in Done
  BY <1>4, <1>5, KeepFold!NatSetInduction
<1>7. QED
  BY <1>2, <1>3, <1>6 DEF Done

\* What is picked are the elements at those indices.
LEMMA PickedBy ==
  ASSUME NEW S, NEW s \in Seq(S), NEW I \in SUBSET (1 .. Len(s))
  PROVE  /\ Picked(s, Len(s), I) \in Seq(S)
         /\ Len(Picked(s, Len(s), I)) = Len(Order(Len(s), I))
         /\ \A j \in 1 .. Len(Order(Len(s), I)) :
              Picked(s, Len(s), I)[j] = s[Order(Len(s), I)[j]]
<1> DEFINE n == Len(s)
           ids == [i \in 1 .. n |-> IF i \in I THEN <<i>> ELSE <<>>]
           seqs == [i \in 1 .. n |-> IF i \in I THEN <<s[i]>> ELSE <<>>]
<1>1. ids \in [1 .. n -> Seq(1 .. n)] /\ seqs \in [1 .. n -> Seq(S)]
  <2>1. ASSUME NEW i \in 1 .. n
        PROVE  seqs[i] \in Seq(S) /\ ids[i] \in Seq(1 .. n)
    <3>1. s[i] \in S
      OBVIOUS
    <3>2. <<s[i]>> \in Seq(S) /\ <<i>> \in Seq(1 .. n)
      BY <3>1
    <3>3. <<>> \in Seq(S) /\ <<>> \in Seq(1 .. n)
      OBVIOUS
    <3>4. seqs[i] = (IF i \in I THEN <<s[i]>> ELSE <<>>)
          /\ ids[i] = (IF i \in I THEN <<i>> ELSE <<>>)
      OBVIOUS
    <3> HIDE DEF seqs, ids
    <3>5. QED
      BY <3>2, <3>3, <3>4
  <2>2. QED
    BY <2>1
<1>2. Order(n, I) = FlattenSeq(ids) /\ Picked(s, n, I) = FlattenSeq(seqs)
  BY DEF Order, Picked
<1>3. n \in Nat
  OBVIOUS
<1> HIDE DEF n
<1>4. PICK e \in [0 .. n -> Seq(1 .. n)] :
        /\ e[0] = <<>>
        /\ \A k \in 0 .. n - 1 : e[k + 1] = e[k] \o ids[k + 1]
        /\ FlattenSeq(ids) = e[n]
  <2> HIDE DEF ids
  <2>1. QED
    BY <1>1, <1>3, FlattenIter, Zenon
<1>5. PICK f \in [0 .. n -> Seq(S)] :
        /\ f[0] = <<>>
        /\ \A k \in 0 .. n - 1 : f[k + 1] = f[k] \o seqs[k + 1]
        /\ FlattenSeq(seqs) = f[n]
  <2> HIDE DEF seqs
  <2>1. QED
    BY <1>1, <1>3, FlattenIter, Zenon
<1> DEFINE Alike(k) == /\ Len(f[k]) = Len(e[k])
                       /\ \A j \in 1 .. Len(e[k]) : f[k][j] = s[e[k][j]]
           Done == {k \in Nat : k <= n => Alike(k)}
<1>6. 0 \in Done
  BY <1>4, <1>5
<1>7. ASSUME NEW k \in Nat, k \in Done
      PROVE  k + 1 \in Done
  <2>1. SUFFICES ASSUME k + 1 <= n PROVE Alike(k + 1)
    OBVIOUS
  <2>2. k + 1 \in 1 .. n /\ k \in 0 .. n - 1 /\ k \in 0 .. n
    BY <1>3, <2>1
  <2>3. e[k + 1] = e[k] \o ids[k + 1] /\ f[k + 1] = f[k] \o seqs[k + 1]
    <3> HIDE DEF ids, seqs
    <3>1. QED
      BY <1>4, <1>5, <2>2
  <2>4. e[k] \in Seq(1 .. n) /\ f[k] \in Seq(S) /\ Alike(k)
    BY <1>7, <2>1, <2>2
  <2>5. CASE k + 1 \in I
    <3>1. e[k + 1] = e[k] \o <<k + 1>> /\ f[k + 1] = f[k] \o <<s[k + 1]>>
      BY <2>2, <2>3, <2>5
    <3>2. QED
      BY <2>2, <2>4, <3>1
  <2>6. CASE k + 1 \notin I
    <3>1. ids[k + 1] = <<>> /\ seqs[k + 1] = <<>>
      BY <2>2, <2>6
    <3>2. e[k + 1] = e[k] /\ f[k + 1] = f[k]
      BY <2>3, <2>4, <3>1, ConcatEmptySeq
    <3>3. QED
      BY <2>4, <3>2
  <2>7. QED
    BY <2>5, <2>6
<1> HIDE DEF Done
<1>8. n \in Done
  BY <1>3, <1>6, <1>7, KeepFold!NatSetInduction
<1>9. Alike(n) /\ f[n] \in Seq(S)
  BY <1>3, <1>8 DEF Done
<1>10. QED
  BY <1>2, <1>4, <1>5, <1>9 DEF n

\* A set of natural numbers has a least one.
LEMMA LeastExists ==
  ASSUME NEW S \in SUBSET Nat, S # {}
  PROVE  \E m \in S : \A k \in S : m <= k
<1> DEFINE Above == {n \in Nat : \A k \in S : n <= k}
<1>1. SUFFICES ASSUME ~\E m \in S : \A k \in S : m <= k
               PROVE  FALSE
  OBVIOUS
<1>2. 0 \in Above
  OBVIOUS
<1>3. ASSUME NEW n \in Nat, n \in Above
      PROVE  n + 1 \in Above
  BY <1>1, <1>3
<1> HIDE DEF Above
<1>4. Nat \subseteq Above
  BY <1>2, <1>3, KeepFold!NatSetInduction
<1>5. PICK k \in S : TRUE
  OBVIOUS
<1>6. k + 1 \in Above
  BY <1>4
<1>7. QED
  BY <1>5, <1>6 DEF Above

-----------------------------------------------------------------------------
(* Sorting.                                                                 *)

\* A name has a place in the order of names.
LEMMA RankIsInt ==
  ASSUME NEW name \in GameNames
  PROVE  Rank(name) \in Int
<1> DEFINE Place(s) == CASE s = "" -> 0 [] s = "epic" -> 1 [] s = "gog" -> 2
                         [] s = "microsoft" -> 3 [] OTHER -> 4
           base == CHOOSE i \in DOMAIN Alphabetical : Alphabetical[i] = name.base
<1>1. Alphabetical \in Seq(Range(Alphabetical))
  BY ListsAssumption DEF IsList
<1>2. DOMAIN Alphabetical \subseteq Nat
  BY <1>1
<1>3. name.n \in Nat /\ name.base \in Range(Alphabetical)
  BY DEF GameNames
<1>4. \E i \in DOMAIN Alphabetical : Alphabetical[i] = name.base
  BY <1>3 DEF Range
<1>5. base \in Nat
  BY <1>2, <1>4
<1>6. Place(name.store) \in Nat
  OBVIOUS
<1>7. Rank(name) = 1000 * base + (IF name.store = "" THEN name.n
                                  ELSE 100 * Place(name.store) + name.n)
  BY DEF Rank
<1> DEFINE b == base
           p == Place(name.store)
<1>8. b \in Nat /\ p \in Nat
  BY <1>5, <1>6
<1>9. Rank(name) = 1000 * b + (IF name.store = "" THEN name.n ELSE 100 * p + name.n)
  BY <1>7
<1> HIDE DEF b, p
<1>10. CASE name.store = ""
  <2>1. Rank(name) = 1000 * b + name.n
    BY <1>9, <1>10
  <2>2. QED
    BY <1>3, <1>8, <2>1
<1>11. CASE name.store # ""
  <2>1. Rank(name) = 1000 * b + (100 * p + name.n)
    BY <1>9, <1>11
  <2>2. QED
    BY <1>3, <1>8, <2>1
<1>12. QED
  BY <1>10, <1>11

\* later lists what old does, perhaps in another order.
Reorders(old, later) ==
  \E h \in [DOMAIN old -> DOMAIN old] :
    /\ later = [i \in DOMAIN old |-> old[h[i]]]
    /\ \A i, j \in DOMAIN old : h[i] = h[j] => i = j
    /\ \A k \in DOMAIN old : \E i \in DOMAIN old : h[i] = k

\* Games that are sorted by name are the same games: the order is total.
LEMMA SortedReorders ==
  ASSUME NEW games \in Seq(Game)
  PROVE  Reorders(games, SortedByName(games))
<1> DEFINE n == Len(games)
           D == 1 .. n
           R(k) == Rank(games[k].name)
           Below(k) == {m \in DOMAIN games :
                          \/ Rank(games[m].name) < Rank(games[k].name)
                          \/ Rank(games[m].name) = Rank(games[k].name) /\ m < k}
           At(i) == CHOOSE k \in DOMAIN games : Cardinality(Below(k)) = i - 1
<1>1. n \in Nat /\ DOMAIN games = D
  OBVIOUS
<1>2. ASSUME NEW k \in D
      PROVE  R(k) \in Int
  <2>1. games[k] \in Game
    BY <1>1
  <2>2. QED
    BY <2>1, RankIsInt DEF Game
<1>3. SortedByName(games) = [i \in D |-> games[At(i)]]
  BY <1>1 DEF SortedByName
<1> DEFINE B(k) == {m \in D : R(m) < R(k) \/ (R(m) = R(k) /\ m < k)}
<1>4. \A k \in D : Below(k) = B(k)
  BY <1>1
<1> HIDE DEF n, R
<1>5. ASSUME NEW k \in D
      PROVE  /\ IsFiniteSet(B(k)) /\ Cardinality(B(k)) \in 0 .. n - 1
             /\ B(k) \in SUBSET D
  <2>1. IsFiniteSet(D) /\ Cardinality(D) = n
    BY <1>1, FS_Interval
  <2>2. k \notin B(k) /\ B(k) \in SUBSET (D \ {k}) /\ B(k) \in SUBSET D
    BY <1>1, <1>2
  <2>3. IsFiniteSet(D \ {k}) /\ Cardinality(D \ {k}) = n - 1
    BY <2>1, FS_RemoveElement
  <2> HIDE DEF B
  <2>4. IsFiniteSet(B(k)) /\ Cardinality(B(k)) <= n - 1
    BY <2>2, <2>3, FS_Subset
  <2>5. Cardinality(B(k)) \in Nat
    BY <2>4, FS_CardinalityType
  <2>6. QED
    BY <1>1, <2>2, <2>4, <2>5
<1>6. ASSUME NEW k \in D, NEW l \in D, k # l
      PROVE  Cardinality(B(k)) # Cardinality(B(l))
  <2>1. B(k) # B(l) /\ (B(k) \subseteq B(l) \/ B(l) \subseteq B(k))
    <3>1. CASE R(k) < R(l) \/ (R(k) = R(l) /\ k < l)
      <4>1. k \in B(l) /\ k \notin B(k)
        BY <1>1, <1>2, <3>1
      <4>2. B(k) \subseteq B(l)
        BY <1>1, <1>2, <3>1
      <4>3. QED
        BY <4>1, <4>2
    <3>2. CASE R(l) < R(k) \/ (R(k) = R(l) /\ l < k)
      <4>1. l \in B(k) /\ l \notin B(l)
        BY <1>1, <1>2, <3>2
      <4>2. B(l) \subseteq B(k)
        BY <1>1, <1>2, <3>2
      <4>3. QED
        BY <4>1, <4>2
    <3>3. QED
      BY <1>1, <1>2, <1>6, <3>1, <3>2
  <2>2. IsFiniteSet(B(k)) /\ IsFiniteSet(B(l))
    BY <1>5
  <2> HIDE DEF B
  <2>3. QED
    BY <2>1, <2>2, FS_Subset
<1> DEFINE c == [k \in D |-> Cardinality(B(k))]
<1> HIDE DEF B
<1>7. c \in Injection(D, 0 .. n - 1)
  BY <1>5, <1>6 DEF Injection, IsInjective
<1>8. c \in Surjection(D, 0 .. n - 1)
  <2>1. IsFiniteSet(D) /\ Cardinality(D) = n
    BY <1>1, FS_Interval
  <2>2. IsFiniteSet(0 .. n - 1) /\ Cardinality(0 .. n - 1) = n
    BY <1>1, FS_Interval
  <2> HIDE DEF c
  <2>3. QED
    BY <1>7, <2>1, <2>2, FS_Injection
<1> DEFINE h == [i \in D |-> At(i)]
<1>9. ASSUME NEW i \in D
      PROVE  At(i) \in D /\ Cardinality(B(At(i))) = i - 1
  <2>1. i - 1 \in 0 .. n - 1
    BY <1>1
  <2>2. PICK k \in D : Cardinality(B(k)) = i - 1
    BY <1>8, <2>1 DEF Surjection
  <2> HIDE DEF Below
  <2>3. Cardinality(Below(k)) = i - 1
    BY <1>4, <2>2
  <2>4. At(i) \in DOMAIN games /\ Cardinality(Below(At(i))) = i - 1
    BY <1>1, <2>3
  <2> HIDE DEF At
  <2>5. QED
    BY <1>1, <1>4, <2>4
<1> HIDE DEF At, Below, c
<1>10. h \in [D -> D] /\ SortedByName(games) = [i \in D |-> games[h[i]]]
  BY <1>3, <1>9
<1>11. \A i, j \in D : h[i] = h[j] => i = j
  BY <1>1, <1>9
<1>12. ASSUME NEW k \in D
       PROVE  \E i \in D : h[i] = k
  <2>1. Cardinality(B(k)) + 1 \in D
    BY <1>1, <1>5
  <2>2. Cardinality(B(h[Cardinality(B(k)) + 1])) = Cardinality(B(k))
    BY <1>1, <1>5, <1>9, <2>1
  <2>3. h[Cardinality(B(k)) + 1] \in D
    BY <1>10, <2>1
  <2> HIDE DEF h
  <2>4. QED
    BY <1>6, <2>1, <2>2, <2>3
<1> HIDE DEF h
<1>13. QED
  BY <1>1, <1>10, <1>11, <1>12 DEF Reorders

-----------------------------------------------------------------------------
(* Names.                                                                   *)

\* A list has finitely many values.
LEMMA ImageFinite ==
  ASSUME NEW n \in Nat, NEW f, DOMAIN f = 1 .. n
  PROVE  IsFiniteSet({f[i] : i \in 1 .. n})
<1> DEFINE T == {f[i] : i \in 1 .. n}
           g == [i \in 1 .. n |-> f[i]]
<1>1. g \in Surjection(1 .. n, T)
  BY DEF Surjection
<1>2. IsFiniteSet(1 .. n)
  BY FS_Interval
<1> HIDE DEF g
<1>3. QED
  BY <1>1, <1>2, FS_Surjection

\* A list of games has finitely many names.
LEMMA NamesAreFinite ==
  ASSUME NEW games \in Seq(Game)
  PROVE  /\ IsFiniteSet({s.folder : s \in Range(games)})
         /\ IsFiniteSet({s.name : s \in Range(games)})
<1> DEFINE n == Len(games)
           f == [i \in 1 .. n |-> games[i].folder]
           g == [i \in 1 .. n |-> games[i].name]
<1>1. n \in Nat /\ DOMAIN games = 1 .. n
  OBVIOUS
<1>2. IsFiniteSet({f[i] : i \in 1 .. n}) /\ IsFiniteSet({g[i] : i \in 1 .. n})
  BY <1>1, ImageFinite
<1>3. {s.folder : s \in Range(games)} = {f[i] : i \in 1 .. n}
  BY <1>1 DEF Range
<1>4. {s.name : s \in Range(games)} = {g[i] : i \in 1 .. n}
  BY <1>1 DEF Range
<1>5. QED
  BY <1>2, <1>3, <1>4

\* A derived name is none of those that exist.
LEMMA DeriveNameIs ==
  ASSUME NEW base, NEW store, NEW existing, IsFiniteSet(existing)
  PROVE  /\ DeriveName(base, store, existing) \notin existing
         /\ base \in Range(Alphabetical) /\ store \in Stores =>
              DeriveName(base, store, existing) \in GameNames
<1> DEFINE C == Cardinality(existing)
           N(k) == Name(base, store, k)
           Free == {k \in 0 .. C : N(k) \notin existing}
<1>1. C \in Nat
  BY FS_CardinalityType
<1>2. Free # {}
  <2>1. SUFFICES ASSUME Free = {} PROVE FALSE
    OBVIOUS
  <2> DEFINE f == [k \in 0 .. C |-> N(k)]
  <2>2. f \in [0 .. C -> existing]
    BY <2>1
  <2>3. IsFiniteSet(0 .. C) /\ Cardinality(0 .. C) = C + 1
    BY <1>1, FS_Interval
  <2>4. C < Cardinality(0 .. C)
    BY <1>1, <2>3
  <2> HIDE DEF f
  <2>5. PICK j, k \in 0 .. C : j # k /\ f[j] = f[k]
    BY <2>2, <2>3, <2>4, FS_PigeonHole
  <2>6. N(j) = N(k)
    BY <2>5 DEF f
  <2>7. N(j).n = j /\ N(k).n = k
    BY DEF Name
  <2>8. QED
    BY <2>5, <2>6, <2>7
<1>3. PICK m \in Free : \A k \in Free : m <= k
  <2>1. Free \in SUBSET Nat
    BY <1>1
  <2> HIDE DEF Free
  <2>2. QED
    BY <1>2, <2>1, LeastExists
<1> DEFINE Lowest(k) == /\ N(k) \notin existing
                        /\ \A l \in 0 .. k - 1 : N(l) \in existing
           n == CHOOSE k \in 0 .. C : Lowest(k)
<1>4. m \in 0 .. C /\ Lowest(m)
  BY <1>1, <1>3
<1>5. n \in 0 .. C /\ Lowest(n)
  <2> HIDE DEF Lowest
  <2>1. QED
    BY <1>4
<1>6. DeriveName(base, store, existing) = N(n)
  BY DEF DeriveName
<1> HIDE DEF n
<1>7. N(n) \notin existing
  BY <1>5
<1>8. base \in Range(Alphabetical) /\ store \in Stores => N(n) \in GameNames
  BY <1>1, <1>5 DEF Name, GameNames
<1>9. QED
  BY <1>6, <1>7, <1>8

-----------------------------------------------------------------------------
(* Merging finds with the configured games.                                 *)

Installation ==
  [id : Ids, source : Stores \cup {"unknown"}, path : Paths \ {NoPath}, local : Locals]
Has(list, path) == \E i \in DOMAIN list : list[i].path = path

\* games is old, with some of the empty paths filled.
FilledIn(s, t) ==
  /\ t.folder = s.folder /\ t.id = s.id /\ t.name = s.name /\ t.source = s.source
  /\ s.path # NoPath => t.path = s.path
  /\ s.local # NoPath => t.local = s.local
Fills(old, games) ==
  /\ games \in Seq(Game) /\ Len(games) = Len(old)
  /\ \A i \in 1 .. Len(old) : FilledIn(old[i], games[i])

MergeStep(c, acc, i) == Merge(acc, i)
MergeStepKeeps(c, k, acc) ==
  /\ acc \in [games : Seq(Game), new : Seq(Installation)]
  /\ Fills(c.games, acc.games)
  /\ \A j \in 1 .. k : Has(acc.games, c.finds[j].path) \/ Has(acc.new, c.finds[j].path)
  /\ (\A j \in 1 .. Len(c.finds) : Has(c.games, c.finds[j].path)) =>
       /\ acc.new = <<>>
       /\ \A i \in 1 .. Len(c.games) : acc.games[i].path = c.games[i].path

MergeFold == INSTANCE FoldLemmas WITH Op <- MergeStep, P <- MergeStepKeeps

\* A find fills only what is empty.
LEMMA FilledIs ==
  ASSUME NEW s \in Game, NEW i \in Installation
  PROVE  /\ Filled(s, i) \in Game /\ FilledIn(s, Filled(s, i))
         /\ Filled(s, i).path = IF s.path = NoPath THEN i.path ELSE s.path
BY DEF Filled, FilledIn, Game, Installation

\* The first match is one.
LEMMA FirstIs ==
  ASSUME NEW match \in SUBSET Nat, match # {}
  PROVE  First(match) \in match
<1>1. \E m \in match : \A k \in match : m <= k
  BY LeastExists
<1>2. QED
  BY <1>1 DEF First

\* A find is merged with the game that has its path, or fills the path of one
\* that has none, or is new.
LEMMA MergeIs ==
  ASSUME NEW games \in Seq(Game), NEW new \in Seq(Installation), NEW i \in Installation
  PROVE  LET acc == Merge([games |-> games, new |-> new], i)
         IN \/ /\ acc = [games |-> games, new |-> Append(new, i)]
               /\ ~Has(games, i.path)
            \/ \E k \in 1 .. Len(games) :
                 /\ acc = [games |-> [games EXCEPT ![k] = Filled(games[k], i)], new |-> new]
                 /\ games[k].path \in {NoPath, i.path}
                 /\ Has(games, i.path) => games[k].path = i.path
<1> DEFINE acc == Merge([games |-> games, new |-> new], i)
           match == Matching(games, i)
           same == {k \in DOMAIN games : games[k].path = i.path}
<1>1. acc = IF match = {} THEN [games |-> games, new |-> Append(new, i)]
            ELSE [games |-> [games EXCEPT ![First(match)] = Filled(games[First(match)], i)],
                  new |-> new]
  <2> DEFINE a == [games |-> games, new |-> new]
  <2>1. a.games = games /\ a.new = new
    OBVIOUS
  <2>2. Merge(a, i) = IF Matching(a.games, i) = {} THEN [a EXCEPT !.new = Append(a.new, i)]
                      ELSE [a EXCEPT !.games[First(Matching(a.games, i))] =
                              Filled(a.games[First(Matching(a.games, i))], i)]
    BY DEF Merge
  <2>3. ASSUME NEW x
        PROVE  [a EXCEPT !.new = x] = [games |-> games, new |-> x]
    OBVIOUS
  <2>4. ASSUME NEW k, NEW x
        PROVE  [a EXCEPT !.games[k] = x] =
                 [games |-> [games EXCEPT ![k] = x], new |-> new]
    OBVIOUS
  <2> HIDE DEF a
  <2>5. QED
    BY <2>1, <2>2, <2>3, <2>4 DEF a
<1>2. /\ match \subseteq DOMAIN games
      /\ \A k \in match : games[k].path \in {NoPath, i.path}
      /\ same # {} => match = same
  BY DEF Matching, Unfilled
<1>3. Has(games, i.path) <=> same # {}
  BY DEF Has
<1>4. DOMAIN games = 1 .. Len(games) /\ 1 .. Len(games) \subseteq Nat
  OBVIOUS
<1> HIDE DEF match
<1>5. CASE match = {}
  BY <1>1, <1>2, <1>3, <1>5
<1>6. CASE match # {}
  <2>1. First(match) \in match
    BY <1>2, <1>4, <1>6, FirstIs
  <2>2. /\ acc = [games |-> [games EXCEPT ![First(match)] = Filled(games[First(match)], i)],
                  new |-> new]
        /\ First(match) \in 1 .. Len(games)
        /\ games[First(match)].path \in {NoPath, i.path}
        /\ Has(games, i.path) => games[First(match)].path = i.path
    BY <1>1, <1>2, <1>3, <1>4, <1>6, <2>1
  <2>3. QED
    BY <2>2
<1>7. QED
  BY <1>5, <1>6

\* Updating the games that match is a fold.
LEMMA UpdateMatchingFolds ==
  ASSUME NEW c
  PROVE  UpdateMatching(c.games, c.finds) =
           MergeFold!Fold(c, [games |-> c.games, new |-> <<>>], c.finds)
BY Zenon DEF UpdateMatching, FoldLeft, MapThenFoldSet, Max, MergeStep,
   MergeFold!Fold, MergeFold!FoldLeft, MergeFold!MapThenFoldSet, MergeFold!Max

IsFilled(games, k, i, later) == later = [games EXCEPT ![k] = Filled(games[k], i)]

\* Filling one game leaves the others as they are.
LEMMA FillsOne ==
  ASSUME NEW old \in Seq(Game), NEW games, Fills(old, games),
         NEW i \in Installation, NEW k \in 1 .. Len(games),
         games[k].path \in {NoPath, i.path},
         NEW later, IsFilled(games, k, i, later)
  PROVE  /\ Fills(old, later)
         /\ later[k].path = i.path
         /\ \A j \in 1 .. Len(games) : games[j].path # NoPath => later[j].path = games[j].path
<1> DEFINE t == Filled(games[k], i)
<1>1. games \in Seq(Game) /\ games[k] \in Game /\ Len(games) = Len(old)
  BY ElementOfSeq DEF Fills
<1>2. t \in Game /\ FilledIn(games[k], t) /\ t.path = IF games[k].path = NoPath THEN i.path
                                                      ELSE games[k].path
  BY <1>1, FilledIs
<1>3. t.path = i.path
  BY <1>2
<1> HIDE DEF t
<1>4. /\ later \in Seq(Game) /\ Len(later) = Len(games)
      /\ \A j \in 1 .. Len(games) : later[j] = IF j = k THEN t ELSE games[j]
  BY <1>1, <1>2, ExceptSeq DEF t, IsFilled
<1>5. FilledIn(old[k], games[k])
  BY <1>1 DEF Fills
<1>6. FilledIn(old[k], t)
  BY <1>2, <1>5 DEF FilledIn
<1>7. Fills(old, later)
  BY <1>1, <1>4, <1>6 DEF Fills
<1>8. later[k].path = i.path
  BY <1>3, <1>4
<1>9. ASSUME NEW j \in 1 .. Len(games), games[j].path # NoPath
      PROVE  later[j].path = games[j].path
  BY <1>2, <1>4, <1>9 DEF FilledIn
<1>10. QED
  BY <1>7, <1>8, <1>9

\* No game is lost when finds fill games, each find is at the path of a game or
\* left over, and no path changes when each was a game's already.
LEMMA UpdateMatchingIs ==
  ASSUME NEW games \in Seq(Game), NEW fs \in Seq(Installation)
  PROVE  MergeStepKeeps([games |-> games, finds |-> fs], Len(fs), UpdateMatching(games, fs))
<1> DEFINE c == [games |-> games, finds |-> fs]
           n == Len(fs)
<1>1. n \in Nat /\ DOMAIN fs = 1 .. n /\ c.games = games /\ c.finds = fs
  OBVIOUS
<1>2. UpdateMatching(games, fs) = MergeFold!Fold(c, [games |-> games, new |-> <<>>], fs)
  BY <1>1, UpdateMatchingFolds
<1> HIDE DEF c, n
<1>3. MergeStepKeeps(c, 0, [games |-> games, new |-> <<>>])
  <2>1. Fills(games, games)
    <3>1. \A i \in 1 .. Len(games) : FilledIn(games[i], games[i])
      BY DEF FilledIn
    <3>2. QED
      BY <3>1 DEF Fills
  <2>2. <<>> \in Seq(Installation)
    OBVIOUS
  <2>3. QED
    BY <1>1, <2>1, <2>2 DEF MergeStepKeeps
<1>4. ASSUME NEW k \in 0 .. n - 1, NEW acc, MergeStepKeeps(c, k, acc)
      PROVE  MergeStepKeeps(c, k + 1, MergeStep(c, acc, fs[k + 1]))
  <2> DEFINE i == fs[k + 1]
             after == Merge(acc, i)
  <2>1. k + 1 \in 1 .. n /\ i \in Installation
    BY <1>1, ElementOfSeq
  <2>2. /\ acc = [games |-> acc.games, new |-> acc.new]
        /\ acc.games \in Seq(Game) /\ acc.new \in Seq(Installation)
        /\ Fills(games, acc.games) /\ Len(acc.games) = Len(games)
    BY <1>1, <1>4 DEF MergeStepKeeps, Fills
  <2> HIDE DEF i
  <2>3. \/ /\ after = [games |-> acc.games, new |-> Append(acc.new, i)]
           /\ ~Has(acc.games, i.path)
        \/ \E j \in 1 .. Len(acc.games) :
             /\ after = [games |-> [acc.games EXCEPT ![j] = Filled(acc.games[j], i)],
                         new |-> acc.new]
             /\ acc.games[j].path \in {NoPath, i.path}
             /\ Has(acc.games, i.path) => acc.games[j].path = i.path
    <3>1. after = Merge([games |-> acc.games, new |-> acc.new], i)
      BY <2>2, Zenon
    <3> HIDE DEF after
    <3>2. QED
      BY <2>1, <2>2, <3>1, MergeIs
  <2>4. /\ \A j \in 1 .. k + 1 : j \in 1 .. k \/ fs[j] = i
        /\ \A j \in 1 .. n : fs[j].path # NoPath
    <3>1. \A j \in 1 .. n : fs[j] \in Installation
      BY <1>1, ElementOfSeq
    <3>2. QED
      BY <2>1, <3>1 DEF Installation, i
  <2> HIDE DEF after
  <2>5. CASE /\ after = [games |-> acc.games, new |-> Append(acc.new, i)]
             /\ ~Has(acc.games, i.path)
    <3>1. /\ after \in [games : Seq(Game), new : Seq(Installation)]
          /\ after.games = acc.games /\ after.new = Append(acc.new, i)
      BY <2>1, <2>2, <2>5
    <3>2. \A path : Has(acc.new, path) => Has(after.new, path)
      <4>1. /\ DOMAIN acc.new \subseteq DOMAIN after.new
            /\ \A l \in DOMAIN acc.new : after.new[l] = acc.new[l]
        BY <2>1, <2>2, <3>1
      <4>2. QED
        BY <4>1 DEF Has
    <3>3. Has(after.new, i.path)
      <4>1. Len(acc.new) + 1 \in DOMAIN after.new /\ after.new[Len(acc.new) + 1] = i
        BY <2>1, <2>2, <3>1
      <4>2. QED
        BY <4>1 DEF Has
    <3>4. ~\A j \in 1 .. n : Has(games, fs[j].path)
      <4>1. SUFFICES ASSUME \A j \in 1 .. n : Has(games, fs[j].path)
                     PROVE  FALSE
        OBVIOUS
      <4>2. Has(games, i.path)
        BY <2>1, <4>1 DEF i
      <4>3. \A j \in 1 .. Len(games) : acc.games[j].path = games[j].path
        BY <1>1, <1>4, <4>1 DEF MergeStepKeeps, n
      <4>4. DOMAIN games = 1 .. Len(games) /\ DOMAIN acc.games = 1 .. Len(games)
        BY <2>2
      <4>5. QED
        BY <2>5, <4>2, <4>3, <4>4 DEF Has
    <3>5. \A j \in 1 .. k : Has(acc.games, fs[j].path) \/ Has(acc.new, fs[j].path)
      BY <1>1, <1>4 DEF MergeStepKeeps
    <3>6. QED
      BY <1>1, <2>2, <2>4, <3>1, <3>2, <3>3, <3>4, <3>5
         DEF MergeStepKeeps, n, MergeStep, after, i
  <2>6. CASE \E j \in 1 .. Len(acc.games) :
               /\ after = [games |-> [acc.games EXCEPT ![j] = Filled(acc.games[j], i)],
                           new |-> acc.new]
               /\ acc.games[j].path \in {NoPath, i.path}
               /\ Has(acc.games, i.path) => acc.games[j].path = i.path
    <3>1. PICK j \in 1 .. Len(acc.games) :
                 /\ after = [games |-> [acc.games EXCEPT ![j] = Filled(acc.games[j], i)],
                             new |-> acc.new]
                 /\ acc.games[j].path \in {NoPath, i.path}
                 /\ Has(acc.games, i.path) => acc.games[j].path = i.path
      BY <2>6
    <3> DEFINE later == [acc.games EXCEPT ![j] = Filled(acc.games[j], i)]
    <3>2. /\ Fills(games, later)
          /\ later[j].path = i.path
          /\ \A l \in 1 .. Len(acc.games) :
               acc.games[l].path # NoPath => later[l].path = acc.games[l].path
      <4>1. Fills(games, acc.games) /\ i \in Installation /\ games \in Seq(Game)
        BY <2>1, <2>2
      <4>2. IsFilled(acc.games, j, i, later)
        BY DEF IsFilled
      <4> HIDE DEF later
      <4>3. QED
        BY <3>1, <4>1, <4>2, FillsOne
    <3>3. after = [games |-> later, new |-> acc.new]
      BY <3>1
    <3> HIDE DEF later
    <3>4. later \in Seq(Game) /\ Len(later) = Len(acc.games)
      BY <2>2, <3>2 DEF Fills
    <3>5. after \in [games : Seq(Game), new : Seq(Installation)]
      BY <2>2, <3>3, <3>4
    <3>6. DOMAIN later = 1 .. Len(games) /\ DOMAIN acc.games = 1 .. Len(games)
          /\ DOMAIN games = 1 .. Len(games)
      BY <2>2, <3>4
    <3>7. Has(later, i.path)
      BY <2>2, <3>1, <3>2, <3>6 DEF Has
    <3>8. \A l \in 1 .. k : \/ Has(later, fs[l].path)
                            \/ Has(acc.new, fs[l].path)
      <4>1. \A l \in 1 .. k : Has(acc.games, fs[l].path) \/ Has(acc.new, fs[l].path)
        BY <1>1, <1>4 DEF MergeStepKeeps
      <4>2. \A l \in 1 .. k : fs[l].path # NoPath
        BY <1>1, <2>1, <2>4
      <4>3. QED
        BY <2>2, <3>2, <3>6, <4>1, <4>2 DEF Has
    <3>9. ASSUME \A l \in 1 .. n : Has(games, fs[l].path)
          PROVE  acc.new = <<>> /\ \A l \in 1 .. Len(games) : later[l].path = games[l].path
      <4>1. acc.new = <<>> /\ \A l \in 1 .. Len(games) : acc.games[l].path = games[l].path
        BY <1>1, <1>4, <3>9 DEF MergeStepKeeps, n
      <4>2. Has(acc.games, i.path)
        BY <2>1, <3>6, <3>9, <4>1 DEF Has, i
      <4>3. acc.games[j].path = i.path /\ i.path # NoPath
        BY <2>1, <2>4, <3>1, <4>2 DEF i
      <4>4. QED
        <5>1. \A l \in 1 .. Len(games) : l # j => later[l] = acc.games[l]
          BY <3>1, <3>6 DEF later
        <5>2. QED
          BY <3>2, <4>1, <4>3, <5>1
    <3>10. QED
      BY <1>1, <2>4, <3>2, <3>3, <3>5, <3>7, <3>8, <3>9
         DEF MergeStepKeeps, n, MergeStep, after, i
  <2>7. QED
    BY <2>3, <2>5, <2>6
<1>5. MergeStepKeeps(c, n, MergeFold!Fold(c, [games |-> games, new |-> <<>>], fs))
  BY <1>1, <1>3, <1>4, MergeFold!FoldInduction
<1>6. QED
  BY <1>2, <1>5 DEF c, n

-----------------------------------------------------------------------------
(* New games.                                                               *)

AddStep(c, gs, i) == Append(gs, NewGame(gs, i, Suffix(c.w, c.games, c.new, i)))
AddStepKeeps(c, k, gs) ==
  /\ gs \in Seq(Game) /\ Len(gs) = Len(c.games) + k
  /\ \A i \in 1 .. Len(c.games) : gs[i] = c.games[i]
  /\ \A j \in 1 .. k : Has(gs, c.new[j].path)
  /\ Unique(c.games) => Unique(gs)

AddFold == INSTANCE FoldLemmas WITH Op <- AddStep, P <- AddStepKeeps

\* Appending new games is a fold.
LEMMA AppendNewFolds ==
  ASSUME NEW c
  PROVE  AppendNew(c.w, c.games, c.new) = AddFold!Fold(c, c.games, c.new)
BY Zenon DEF AppendNew, FoldLeft, MapThenFoldSet, Max, AddStep,
   AddFold!Fold, AddFold!FoldLeft, AddFold!MapThenFoldSet, AddFold!Max

\* A new game is at its find's path, in a folder that no game has.
LEMMA NewGameIs ==
  ASSUME NEW gs \in Seq(Game), NEW i \in Installation, NEW suffix \in Stores
  PROVE  /\ NewGame(gs, i, suffix) \in Game
         /\ NewGame(gs, i, suffix).path = i.path
         /\ NewGame(gs, i, suffix).folder \notin Folders(gs)
<1> DEFINE folder == DeriveName(i.id, suffix, {s.folder : s \in Range(gs)})
           name == DeriveName(i.id, suffix, {s.name : s \in Range(gs)})
<1>1. i.id \in Ids /\ i.id \in Range(Alphabetical)
      /\ i.path \in Paths /\ i.local \in Locals
  BY NamesAssumption DEF Installation
<1>2. folder \in GameNames /\ name \in GameNames /\ folder \notin {s.folder : s \in Range(gs)}
  BY <1>1, NamesAreFinite, DeriveNameIs
<1>3. NewGame(gs, i, suffix) = [GameSettings(i.id, folder) EXCEPT
                                  !.name = name, !.path = i.path, !.local = i.local]
  BY DEF NewGame
<1> HIDE DEF folder, name
<1>4. "default" \in Sources
  BY DEF Sources
<1>5. QED
  BY <1>1, <1>2, <1>3, <1>4 DEF GameSettings, Game, Folders

\* A name's suffix is a store's, or none.
LEMMA SuffixIs ==
  ASSUME NEW w, NEW games, NEW new, NEW i \in Installation
  PROVE  Suffix(w, games, new, i) \in Stores
BY DEF Suffix, Installation, Stores

\* A game in a folder of its own can be appended.
LEMMA AppendUnique ==
  ASSUME NEW gs \in Seq(Game), Unique(gs), NEW g \in Game, g.folder \notin Folders(gs)
  PROVE  Unique(Append(gs, g))
<1> DEFINE later == Append(gs, g)
<1>1. /\ DOMAIN later = 1 .. Len(gs) + 1 /\ DOMAIN gs = 1 .. Len(gs) /\ Len(gs) \in Nat
      /\ later[Len(gs) + 1] = g
      /\ \A i \in 1 .. Len(gs) : later[i] = gs[i]
  OBVIOUS
<1>2. \A i \in 1 .. Len(gs) : gs[i].folder # g.folder
  BY <1>1 DEF Folders, Range
<1> HIDE DEF later
<1>3. Unique(later)
  BY <1>1, <1>2 DEF Unique
<1>4. QED
  BY <1>3 DEF later

\* Each find that is left over gets a game, and folders stay unique.
LEMMA AppendNewIs ==
  ASSUME NEW w, NEW games \in Seq(Game), NEW new \in Seq(Installation)
  PROVE  AddStepKeeps([w |-> w, games |-> games, new |-> new], Len(new),
                      AppendNew(w, games, new))
<1> DEFINE c == [w |-> w, games |-> games, new |-> new]
           n == Len(new)
<1>1. n \in Nat /\ DOMAIN new = 1 .. n /\ c.w = w /\ c.games = games /\ c.new = new
  OBVIOUS
<1>2. AppendNew(w, games, new) = AddFold!Fold(c, games, new)
  BY <1>1, AppendNewFolds
<1> HIDE DEF c, n
<1>3. AddStepKeeps(c, 0, games)
  BY <1>1 DEF AddStepKeeps
<1>4. ASSUME NEW k \in 0 .. n - 1, NEW gs, AddStepKeeps(c, k, gs)
      PROVE  AddStepKeeps(c, k + 1, AddStep(c, gs, new[k + 1]))
  <2> DEFINE i == new[k + 1]
             g == NewGame(gs, i, Suffix(w, games, new, i))
             later == Append(gs, g)
  <2>1. k + 1 \in 1 .. n /\ i \in Installation
    BY <1>1, ElementOfSeq
  <2>2. /\ gs \in Seq(Game) /\ Len(gs) = Len(games) + k /\ Len(games) \in Nat
        /\ \A j \in 1 .. Len(games) : gs[j] = games[j]
        /\ \A j \in 1 .. k : Has(gs, new[j].path)
        /\ Unique(games) => Unique(gs)
    BY <1>1, <1>4 DEF AddStepKeeps
  <2> HIDE DEF i
  <2>3. g \in Game /\ g.path = i.path /\ g.folder \notin Folders(gs)
    BY <2>1, <2>2, SuffixIs, NewGameIs
  <2> HIDE DEF g
  <2>4. /\ later \in Seq(Game) /\ Len(later) = Len(gs) + 1
        /\ DOMAIN later = 1 .. Len(gs) + 1 /\ DOMAIN gs = 1 .. Len(gs)
        /\ later[Len(gs) + 1] = g
        /\ \A j \in 1 .. Len(gs) : later[j] = gs[j]
    BY <2>2, <2>3
  <2>5. Unique(games) => Unique(later)
    BY <2>2, <2>3, AppendUnique
  <2> HIDE DEF later
  <2>6. \A path : Has(gs, path) => Has(later, path)
    BY <2>2, <2>4 DEF Has
  <2>7. Has(later, i.path)
    BY <2>2, <2>3, <2>4 DEF Has
  <2>8. \A j \in 1 .. k + 1 : j \in 1 .. k \/ new[j] = i
    BY DEF i
  <2>9. AddStep(c, gs, new[k + 1]) = later
    BY <1>1 DEF AddStep, later, g, i
  <2>10. QED
    BY <1>1, <2>2, <2>4, <2>5, <2>6, <2>7, <2>8, <2>9 DEF AddStepKeeps
<1>5. AddStepKeeps(c, n, AddFold!Fold(c, games, new))
  BY <1>1, <1>3, <1>4, AddFold!FoldInduction
<1>6. QED
  BY <1>2, <1>5 DEF c, n

-----------------------------------------------------------------------------
(* Detection as a whole.                                                    *)

\* What detection makes of the configured games: none is lost, none has a
\* folder that another has, every find is there, and nothing changes when every
\* find was there already.
Detects(games, fs, later) ==
  /\ later \in Seq(Game)
  /\ Unique(games) => Unique(later)
  /\ \A i \in 1 .. Len(games) : \E j \in 1 .. Len(later) : FilledIn(games[i], later[j])
  /\ \A j \in 1 .. Len(fs) : Has(later, fs[j].path)
  /\ (\A j \in 1 .. Len(fs) : Has(games, fs[j].path)) =>
       /\ Len(later) = Len(games)
       /\ \E h \in [1 .. Len(games) -> 1 .. Len(games)] :
            /\ \A i \in 1 .. Len(games) :
                 later[i].folder = games[h[i]].folder /\ later[i].path = games[h[i]].path
            /\ \A k \in 1 .. Len(games) : \E i \in 1 .. Len(games) : h[i] = k

\* Detection as a whole: no game is lost, folders stay unique, each find gets a
\* game, and nothing moves when each find had one already.
LEMMA DetectsGames ==
  ASSUME NEW w, NEW games \in Seq(Game), NEW fs \in Seq(Installation)
  PROVE  Detects(games, fs, FindInstalledGames(w, fs, games))
<1> DEFINE merged == UpdateMatching(games, fs)
           m == merged.games
           new == merged.new
           added == AppendNew(w, m, new)
           later == SortedByName(added)
           n == Len(games)
<1>1. /\ merged \in [games : Seq(Game), new : Seq(Installation)]
      /\ Fills(games, m)
      /\ \A j \in 1 .. Len(fs) : Has(m, fs[j].path) \/ Has(new, fs[j].path)
      /\ (\A j \in 1 .. Len(fs) : Has(games, fs[j].path)) =>
           /\ new = <<>>
           /\ \A i \in 1 .. n : m[i].path = games[i].path
  BY UpdateMatchingIs DEF MergeStepKeeps
<1> HIDE DEF merged
<1>2. /\ m \in Seq(Game) /\ new \in Seq(Installation) /\ Len(m) = n /\ n \in Nat
      /\ DOMAIN m = 1 .. n /\ DOMAIN games = 1 .. n /\ DOMAIN new = 1 .. Len(new)
  BY <1>1 DEF Fills
<1> HIDE DEF m, new
<1>3. /\ added \in Seq(Game) /\ Len(added) = n + Len(new) /\ Len(new) \in Nat
      /\ \A i \in 1 .. n : added[i] = m[i]
      /\ \A j \in 1 .. Len(new) : Has(added, new[j].path)
      /\ Unique(m) => Unique(added)
  <2> DEFINE c == [w |-> w, games |-> m, new |-> new]
  <2>1. AddStepKeeps(c, Len(new), added)
    BY <1>2, AppendNewIs
  <2>2. c.games = m /\ c.new = new
    OBVIOUS
  <2> HIDE DEF added, c
  <2>3. /\ added \in Seq(Game) /\ Len(added) = Len(m) + Len(new)
        /\ \A i \in 1 .. Len(m) : added[i] = m[i]
        /\ \A j \in 1 .. Len(new) : Has(added, new[j].path)
        /\ Unique(m) => Unique(added)
    BY <2>1, <2>2, Zenon DEF AddStepKeeps
  <2>4. Len(new) \in Nat /\ Len(m) = n
    BY <1>2
  <2> HIDE DEF n
  <2>5. QED
    BY <2>3, <2>4, Zenon
<1>4. FindInstalledGames(w, fs, games) = later
  BY DEF FindInstalledGames, m, new, merged
<1> HIDE DEF added
<1> DEFINE N == Len(added)
<1>5. DOMAIN added = 1 .. N /\ N \in Nat /\ \A i \in 1 .. N : added[i] \in Game
  BY <1>3
<1>6. PICK h \in [1 .. N -> 1 .. N] :
        /\ later = [i \in 1 .. N |-> added[h[i]]]
        /\ \A i, j \in 1 .. N : h[i] = h[j] => i = j
        /\ \A k \in 1 .. N : \E i \in 1 .. N : h[i] = k
  <2>1. Reorders(added, later)
    BY <1>3, SortedReorders
  <2> HIDE DEF later, N
  <2>2. QED
    BY <1>5, <2>1 DEF Reorders
<1> HIDE DEF later
<1>7. later \in Seq(Game) /\ Len(later) = N /\ DOMAIN later = 1 .. N
  BY <1>5, <1>6
<1>8. Unique(games) => Unique(later)
  <2>1. Unique(games) => Unique(m)
    <3>1. \A i \in 1 .. n : m[i].folder = games[i].folder
      BY <1>1 DEF Fills, FilledIn
    <3>2. DOMAIN games = 1 .. n /\ DOMAIN m = 1 .. n
      BY <1>2
    <3>3. QED
      BY <3>1, <3>2 DEF Unique
  <2>2. Unique(added) => Unique(later)
    <3>1. SUFFICES ASSUME Unique(added), NEW i \in 1 .. N, NEW j \in 1 .. N,
                          later[i].folder = later[j].folder
                   PROVE  i = j
      BY <1>7 DEF Unique
    <3>2. h[i] \in 1 .. N /\ h[j] \in 1 .. N /\ added[h[i]].folder = added[h[j]].folder
      BY <1>6, <3>1
    <3>3. h[i] = h[j]
      BY <1>5, <3>1, <3>2 DEF Unique
    <3>4. QED
      BY <1>6, <3>3
  <2>3. QED
    BY <1>3, <2>1, <2>2
<1>9. ASSUME NEW i \in 1 .. n
      PROVE  \E j \in 1 .. Len(later) : FilledIn(games[i], later[j])
  <2>1. FilledIn(games[i], m[i]) /\ added[i] = m[i] /\ i \in 1 .. N
    BY <1>1, <1>2, <1>3 DEF Fills
  <2>2. PICK j \in 1 .. N : h[j] = i
    BY <1>6, <2>1
  <2>3. later[j] = added[i]
    BY <1>6, <2>2
  <2>4. QED
    BY <1>7, <2>1, <2>3
<1>10. \A path : Has(added, path) => Has(later, path)
  <2>1. ASSUME NEW path, Has(added, path)
        PROVE  Has(later, path)
    <3>1. PICK k \in 1 .. N : added[k].path = path
      BY <1>5, <2>1 DEF Has
    <3>2. PICK j \in 1 .. N : h[j] = k
      BY <1>6
    <3>3. later[j].path = path /\ j \in DOMAIN later
      BY <1>6, <1>7, <3>1, <3>2
    <3>4. QED
      BY <3>3 DEF Has
  <2>2. QED
    BY <2>1
<1>11. ASSUME NEW j \in 1 .. Len(fs)
       PROVE  Has(later, fs[j].path)
  <2>1. CASE Has(m, fs[j].path)
    <3>1. PICK k \in 1 .. n : m[k].path = fs[j].path
      BY <1>2, <2>1 DEF Has
    <3>2. k \in DOMAIN added /\ added[k].path = fs[j].path
      BY <1>2, <1>3, <1>5, <3>1
    <3>3. QED
      BY <1>10, <3>2 DEF Has
  <2>2. CASE Has(new, fs[j].path)
    <3>1. PICK k \in 1 .. Len(new) : new[k].path = fs[j].path
      BY <1>2, <2>2 DEF Has
    <3>2. QED
      BY <1>3, <1>10, <3>1
  <2>3. QED
    BY <1>1, <2>1, <2>2
<1>12. ASSUME \A j \in 1 .. Len(fs) : Has(games, fs[j].path)
       PROVE  /\ Len(later) = n
              /\ \E g \in [1 .. n -> 1 .. n] :
                   /\ \A i \in 1 .. n : /\ later[i].folder = games[g[i]].folder
                                        /\ later[i].path = games[g[i]].path
                   /\ \A k \in 1 .. n : \E i \in 1 .. n : g[i] = k
  <2>1. new = <<>> /\ \A i \in 1 .. n : m[i].path = games[i].path
    BY <1>1, <1>12
  <2>2. N = n
    BY <1>2, <1>3, <2>1
  <2>3. \A i \in 1 .. n : added[i].folder = games[i].folder /\ added[i].path = games[i].path
    BY <1>1, <1>3, <2>1 DEF Fills, FilledIn
  <2>4. \A i \in 1 .. n : /\ later[i].folder = games[h[i]].folder
                          /\ later[i].path = games[h[i]].path
    BY <1>6, <2>2, <2>3
  <2>5. h \in [1 .. n -> 1 .. n] /\ \A k \in 1 .. n : \E i \in 1 .. n : h[i] = k
    BY <1>6, <2>2
  <2> HIDE DEF n
  <2>6. QED
    BY <1>7, <2>2, <2>4, <2>5
<1>13. QED
  BY <1>4, <1>7, <1>8, <1>9, <1>11, <1>12 DEF Detects

-----------------------------------------------------------------------------
(* Finds.                                                                   *)

\* A game is only found in a directory that is there.
LEMMA ValidPath ==
  ASSUME NEW w, IsWorld(w), NEW g, NEW p, Valid(w, g, p)
  PROVE  p \in Paths \ {NoPath}
BY DEF Valid, IsWorld

\* No path is an empty one.
LEMMA NoPathIsPath == NoPath \in Paths /\ NoPath \in Locals
BY DEF NoPath, Paths, Locals

\* The roots are a list.
LEMMA RootsAre ==
  /\ Len(Roots) \in Nat /\ Roots \in Seq(Range(Roots))
  /\ \A i \in 1 .. Len(Roots) : Roots[i] \in Range(Roots)
<1>1. Roots \in Seq(Range(Roots))
  BY ListsAssumption DEF IsList
<1>2. QED
  BY <1>1, ElementOfSeq

\* The games' ids are a list.
LEMMA GameIdsAre ==
  Len(GameIds) \in Nat /\ \A i \in 1 .. Len(GameIds) : GameIds[i] \in Ids
<1>1. GameIds \in Seq(Ids)
  BY ListsAssumption DEF IsList, Ids
<1>2. QED
  BY <1>1, ElementOfSeq

\* A find has its types.
LEMMA InstallIs ==
  ASSUME NEW g \in Ids, NEW s \in Stores \cup {"unknown"}, NEW p \in Paths \ {NoPath},
         NEW l \in Locals
  PROVE  Install(g, s, p, l) \in Installation
BY DEF Install, Installation

\* What finds come from are stores.
LEMMA StoresAre == {"steam", "gog", "epic", "microsoft"} \subseteq Stores \cup {"unknown"}
BY DEF Stores

\* What is found in the roots are finds.
LEMMA InRootsIn ==
  ASSUME NEW w, IsWorld(w), NEW at, NEW g \in Ids, NEW s \in Stores \cup {"unknown"},
         NEW local, \A r \in Range(Roots) : local[r] \in Locals
  PROVE  InRoots(w, at, g, s, local) \in Seq(Installation)
<1> DEFINE one(r) == IF Valid(w, g, at[r]) THEN <<Install(g, s, at[r], local[r])>> ELSE <<>>
           seqs == [i \in 1 .. Len(Roots) |-> one(Roots[i])]
<1>1. ASSUME NEW r \in Range(Roots)
      PROVE  one(r) \in Seq(Installation)
  <2>1. CASE Valid(w, g, at[r])
    <3>1. Install(g, s, at[r], local[r]) \in Installation
      BY <2>1, ValidPath, InstallIs
    <3>2. QED
      BY <2>1, <3>1
  <2>2. CASE ~Valid(w, g, at[r])
    BY <2>2
  <2>3. QED
    BY <2>1, <2>2
<1> HIDE DEF one
<1>2. seqs \in [1 .. Len(Roots) -> Seq(Installation)]
  BY <1>1, RootsAre
<1>3. InRoots(w, at, g, s, local) = FlattenSeq(seqs)
  BY DEF InRoots, one
<1> HIDE DEF seqs
<1>4. QED
  BY <1>2, <1>3, RootsAre, FlattenIn

\* Where a prefix has a game's local data is a local path.
LEMMA LocalsAre ==
  ASSUME NEW w, NEW g, NEW r \in Range(Roots)
  PROVE  SteamLocal(w, g, r) \in Locals /\ HeroicLocal(w, g, r) \in Locals
BY NoPathIsPath DEF SteamLocal, HeroicLocal, Locals

\* As above, for every root.
LEMMA HeroicLocalsAre ==
  ASSUME NEW w, NEW g
  PROVE  \A r \in Range(Roots) : HeroicLocals(w, g)[r] \in Locals /\ NoLocal[r] \in Locals
BY LocalsAre, NoPathIsPath DEF HeroicLocals, NoLocal

\* Steam's libraries give finds.
LEMMA SteamLibrariesIn ==
  ASSUME NEW w, IsWorld(w)
  PROVE  SteamLibraries(w) \in Seq(Installation)
<1>1. ASSUME NEW r \in Range(Roots), NEW g \in Ids
      PROVE  SteamInstall(w, g, r) \in Seq(Installation)
  <2>1. CASE SteamManifest(w, g, r) /\ Valid(w, g, SteamPath(g, r))
    <3>1. Install(g, "steam", SteamPath(g, r), SteamLocal(w, g, r)) \in Installation
      BY <2>1, ValidPath, LocalsAre, StoresAre, InstallIs
    <3>2. QED
      BY <2>1, <3>1 DEF SteamInstall
  <2>2. CASE ~(SteamManifest(w, g, r) /\ Valid(w, g, SteamPath(g, r)))
    BY <2>2 DEF SteamInstall
  <2>3. QED
    BY <2>1, <2>2
<1> DEFINE Of(r) == [i \in 1 .. Len(GameIds) |-> SteamInstall(w, GameIds[i], r)]
           seqs == [j \in 1 .. Len(Roots) |-> FlattenSeq(Of(Roots[j]))]
<1>2. ASSUME NEW r \in Range(Roots)
      PROVE  FlattenSeq(Of(r)) \in Seq(Installation)
  <2>1. Of(r) \in [1 .. Len(GameIds) -> Seq(Installation)]
    BY <1>1, GameIdsAre
  <2> HIDE DEF Of
  <2>2. QED
    BY <2>1, GameIdsAre, FlattenIn
<1>3. SteamLibraries(w) = FlattenSeq(seqs)
  BY DEF SteamLibraries, EachGame
<1> HIDE DEF Of
<1>4. seqs \in [1 .. Len(Roots) -> Seq(Installation)]
  BY <1>2, RootsAre
<1> HIDE DEF seqs
<1>5. QED
  BY <1>3, <1>4, RootsAre, FlattenIn

\* Heroic's lists give finds.
LEMMA HeroicIn ==
  ASSUME NEW w, IsWorld(w)
  PROVE  Heroic(w) \in Seq(Installation)
<1>1. ASSUME NEW g \in Ids
      PROVE  HeroicGog(w, g) \in Seq(Installation) /\ HeroicEpic(w, g) \in Seq(Installation)
  BY HeroicLocalsAre, StoresAre, InRootsIn DEF HeroicGog, HeroicEpic
<1> DEFINE gog == [i \in 1 .. Len(GameIds) |->
                     IF GameIds[i] \in OnGog THEN HeroicGog(w, GameIds[i]) ELSE <<>>]
           epic == [i \in 1 .. Len(GameIds) |->
                     IF GameIds[i] \in OnEpic THEN HeroicEpic(w, GameIds[i]) ELSE <<>>]
<1>2. /\ gog \in [1 .. Len(GameIds) -> Seq(Installation)]
      /\ epic \in [1 .. Len(GameIds) -> Seq(Installation)]
  BY <1>1, GameIdsAre
<1>3. Heroic(w) = FlattenSeq(gog) \o FlattenSeq(epic)
  BY DEF Heroic, EachGame
<1> HIDE DEF gog, epic
<1>4. FlattenSeq(gog) \in Seq(Installation) /\ FlattenSeq(epic) \in Seq(Installation)
  BY <1>2, GameIdsAre, FlattenIn
<1>5. QED
  BY <1>3, <1>4, ConcatProperties

\* A directory comes from a store that LOOT knows, or an unknown one.
LEMMA SourceOfIs ==
  ASSUME NEW w, NEW g, NEW p
  PROVE  SourceOf(w, g, p) \in Stores \cup {"unknown"}
BY Zenon DEF SourceOf, Stores

\* A root is only found where the game is in it.
LEMMA FoundIn ==
  ASSUME NEW w, NEW l, NEW g
  PROVE  Found(w, l, g) \in Seq({r \in Range(Roots) : Valid(w, g, <<r>>)})
<1> DEFINE S == {r \in Range(Roots) : Valid(w, g, <<r>>)}
           Test(r) == Claimed(w, l, g, r) /\ Valid(w, g, <<r>>)
           seqs == [i \in 1 .. Len(Roots) |-> IF Test(Roots[i]) THEN <<Roots[i]>> ELSE <<>>]
<1>1. ASSUME NEW i \in 1 .. Len(Roots)
      PROVE  seqs[i] \in Seq(S)
  <2>1. CASE Test(Roots[i])
    <3>1. Roots[i] \in S
      BY <2>1, RootsAre
    <3>2. seqs[i] = <<Roots[i]>>
      BY <2>1
    <3> HIDE DEF S, seqs
    <3>3. QED
      BY <3>1, <3>2
  <2>2. CASE ~Test(Roots[i])
    BY <2>2
  <2>3. QED
    BY <2>1, <2>2
<1>2. seqs \in [1 .. Len(Roots) -> Seq(S)]
  BY <1>1
<1>3. Found(w, l, g) = FlattenSeq(seqs)
  BY Zenon DEF Found, Where
<1> HIDE DEF seqs, S
<1>4. FlattenSeq(seqs) \in Seq(S)
  BY <1>2, RootsAre, FlattenIn
<1>5. QED
  BY <1>3, <1>4 DEF S

\* A find in the root r, of a game that is there.
LEMMA RootFind ==
  ASSUME NEW w, IsWorld(w), NEW g \in Ids, NEW r, Valid(w, g, <<r>>),
         NEW s \in Stores \cup {"unknown"}
  PROVE  Install(g, s, <<r>>, NoPath) \in Installation
BY ValidPath, NoPathIsPath, InstallIs

\* Siblings, the Registry and the usual directories give finds.
LEMMA GenericIn ==
  ASSUME NEW w, IsWorld(w), NEW g \in Ids
  PROVE  Generic(w, g) \in Seq(Installation)
<1> DEFINE S(h) == {r \in Range(Roots) : Valid(w, h, <<r>>)}
           Find(r) == IF SourceOf(w, g, <<r>>) \in {"steam", "gog"} THEN ByFiles(w, g, r)
                      ELSE Install(g, "unknown", <<r>>, NoPath)
<1>1. \A l, h : Found(w, l, h) \in Seq(S(h))
  BY FoundIn
<1>2. ASSUME NEW r \in S(g)
      PROVE  ByFiles(w, g, r) \in Installation /\ Find(r) \in Installation
             /\ Install(g, "unknown", <<r>>, NoPath) \in Installation
  <2>1. Valid(w, g, <<r>>)
    OBVIOUS
  <2>2. QED
    BY <2>1, RootFind, SourceOfIs DEF ByFiles
<1> HIDE DEF S
<1>3. Siblings(w, g) \in Seq(Installation)
  <2> DEFINE there == Found(w, "sibling", g)
  <2>1. there \in Seq(S(g))
    BY <1>1
  <2>2. Siblings(w, g) = [i \in DOMAIN there |-> ByFiles(w, g, there[i])]
    BY DEF Siblings
  <2>3. /\ DOMAIN there = 1 .. Len(there) /\ Len(there) \in Nat
        /\ \A i \in 1 .. Len(there) : there[i] \in S(g)
    BY <2>1, ElementOfSeq
  <2> HIDE DEF there
  <2>4. \A i \in 1 .. Len(there) : ByFiles(w, g, there[i]) \in Installation
    BY <1>2, <2>3
  <2>5. QED
    BY <2>2, <2>3, <2>4
<1>4. FromRegistry(w, g) \in Seq(Installation)
  <2> DEFINE there == Found(w, "registry", g)
  <2>1. there \in Seq(S(g))
    BY <1>1
  <2>2. FromRegistry(w, g) = [i \in DOMAIN there |-> Find(there[i])]
    BY DEF FromRegistry
  <2>3. /\ DOMAIN there = 1 .. Len(there) /\ Len(there) \in Nat
        /\ \A i \in 1 .. Len(there) : there[i] \in S(g)
    BY <2>1, ElementOfSeq
  <2> HIDE DEF there, Find
  <2>4. \A i \in 1 .. Len(there) : Find(there[i]) \in Installation
    BY <1>2, <2>3
  <2>5. QED
    BY <2>2, <2>3, <2>4
<1>5. ASSUME g = "openmw"
      PROVE  UsualOpenMW(w) \in Seq(Installation)
  <2> DEFINE there == Found(w, "usual", "openmw")
  <2>1. there \in Seq(S(g))
    BY <1>1, <1>5
  <2>2. UsualOpenMW(w) = [i \in DOMAIN there |-> Install(g, "unknown", <<there[i]>>, NoPath)]
    BY <1>5 DEF UsualOpenMW
  <2>3. /\ DOMAIN there = 1 .. Len(there) /\ Len(there) \in Nat
        /\ \A i \in 1 .. Len(there) : there[i] \in S(g)
    BY <2>1, ElementOfSeq
  <2> HIDE DEF there
  <2>4. \A i \in 1 .. Len(there) : Install(g, "unknown", <<there[i]>>, NoPath) \in Installation
    BY <1>2, <2>3
  <2>5. QED
    BY <2>2, <2>3, <2>4
<1>6. QED
  BY <1>3, <1>4, <1>5, ConcatProperties DEF Generic

\* The copies of a game are a list of directories.
LEMMA CopiesAre ==
  ASSUME NEW g, NEW r
  PROVE  \E S : EpicCopies(g, r) \in Seq(S) /\ MicrosoftCopies(g, r) \in Seq(S)
<1> DEFINE S == {<<r>>} \cup {<<r, l>> : l \in {"en", "fr", "de", "it", "es"}}
           five == Copies(r, FiveLanguages)
           three == Copies(r, <<"en", "fr", "de">>)
<1>1. five \in Seq(S) /\ three \in Seq(S)
  BY DEF Copies, FiveLanguages
<1>2. <<<<r>>>> \in Seq(S)
  OBVIOUS
<1> HIDE DEF five, three, S
<1>3. EpicCopies(g, r) \in Seq(S)
  BY <1>1, <1>2 DEF EpicCopies, five
<1>4. MicrosoftCopies(g, r) \in Seq(S)
  BY <1>1, <1>2 DEF MicrosoftCopies, five, three
<1>5. QED
  BY <1>3, <1>4

\* The copy that is chosen is there.
LEMMA LocalisedPathIs ==
  ASSUME NEW w, NEW g, NEW r, NEW store \in {"epic", "microsoft"},
         LocalisedPath(w, store, g, r) # NoPath
  PROVE  Valid(w, g, LocalisedPath(w, store, g, r))
<1> DEFINE paths == CASE store = "epic" -> EpicCopies(g, r)
                      [] store = "microsoft" -> MicrosoftCopies(g, r)
           In(lang) == Where(paths, LAMBDA p : Len(p) = 2 /\ p[2] = lang)
           Unwanted(p) == Len(p) = 1 \/ p[2] \notin Range(Languages)
           wanted == [i \in 1 .. Len(Languages) |-> In(Languages[i])]
           sorted == FlattenSeq(wanted) \o Where(paths, Unwanted)
           good == [i \in 1 .. Len(sorted) |->
                      IF Valid(w, g, sorted[i]) THEN <<sorted[i]>> ELSE <<>>]
           V == {p \in DOMAIN w.dirs : Valid(w, g, p)}
<1>1. LocalisedPath(w, store, g, r) =
        IF FlattenSeq(good) = <<>> THEN NoPath ELSE Head(FlattenSeq(good))
  BY Zenon DEF LocalisedPath, Where
<1>2. PICK S : paths \in Seq(S)
  BY CopiesAre
<1> HIDE DEF paths
<1>3. Len(paths) \in Nat /\ \A i \in 1 .. Len(paths) : paths[i] \in S
  BY <1>2
<1>4. \A lang : In(lang) \in Seq(S)
  <2> SUFFICES ASSUME NEW lang PROVE In(lang) \in Seq(S)
    OBVIOUS
  <2> DEFINE Test(p) == Len(p) = 2 /\ p[2] = lang
             seqs == [i \in 1 .. Len(paths) |-> IF Test(paths[i]) THEN <<paths[i]>> ELSE <<>>]
  <2>1. In(lang) = FlattenSeq(seqs)
    BY Zenon DEF Where
  <2> HIDE DEF Test
  <2>2. seqs \in [1 .. Len(paths) -> Seq(S)]
    BY <1>3
  <2> HIDE DEF seqs
  <2>3. FlattenSeq(seqs) \in Seq(S)
    BY <1>3, <2>2, FlattenIn
  <2>4. QED
    BY <2>1, <2>3
<1>5. Where(paths, Unwanted) \in Seq(S)
  <2> DEFINE seqs == [i \in 1 .. Len(paths) |->
                        IF Unwanted(paths[i]) THEN <<paths[i]>> ELSE <<>>]
  <2>1. Where(paths, Unwanted) = FlattenSeq(seqs)
    BY Zenon DEF Where
  <2> HIDE DEF Unwanted
  <2>2. seqs \in [1 .. Len(paths) -> Seq(S)]
    BY <1>3
  <2> HIDE DEF seqs
  <2>3. FlattenSeq(seqs) \in Seq(S)
    BY <1>3, <2>2, FlattenIn
  <2>4. QED
    BY <2>1, <2>3
<1> DEFINE rest == Where(paths, Unwanted)
<1>6. rest \in Seq(S)
  BY <1>5
<1> HIDE DEF rest, In
<1>7. Len(Languages) \in Nat
  BY ListsAssumption DEF IsList
<1>8. FlattenSeq(wanted) \in Seq(S)
  <2>1. wanted \in [1 .. Len(Languages) -> Seq(S)]
    BY <1>4
  <2> HIDE DEF wanted
  <2>2. QED
    BY <1>7, <2>1, FlattenIn
<1> HIDE DEF wanted
<1>9. Len(sorted) \in Nat
  BY <1>6, <1>8, ConcatProperties DEF rest
<1> HIDE DEF sorted
<1>10. good \in [1 .. Len(sorted) -> Seq(V)]
  <2>1. \A i : Valid(w, g, sorted[i]) => sorted[i] \in V
    BY DEF Valid
  <2> HIDE DEF V
  <2>2. QED
    BY <2>1
<1> HIDE DEF good, V
<1>11. FlattenSeq(good) \in Seq(V)
  BY <1>9, <1>10, FlattenIn
<1>12. FlattenSeq(good) # <<>> => Head(FlattenSeq(good)) \in V
  BY <1>11
<1>13. QED
  BY <1>1, <1>12 DEF V

\* The finds of one game, in all the ways that it is looked for.
LEMMA InstallsOfIn ==
  ASSUME NEW w, IsWorld(w), NEW g \in Ids
  PROVE  InstallsOf(w, g) \in Seq(Installation)
<1>1. SteamRegistry(w, g) \in Seq(Installation) /\ GogRegistry(w, g) \in Seq(Installation)
  BY HeroicLocalsAre, StoresAre, InRootsIn DEF SteamRegistry, GogRegistry
<1>2. Generic(w, g) \in Seq(Installation)
  BY GenericIn
<1>3. Epic(w, g) \in Seq(Installation)
  <2> DEFINE path == LocalisedPath(w, "epic", g, Head(EpicManifests(w, g)))
             one == <<Install(g, "epic", path, NoPath)>>
  <2>1. ASSUME path # NoPath
        PROVE  one \in Seq(Installation)
    <3>1. path \in Paths \ {NoPath}
      BY <2>1, LocalisedPathIs, ValidPath
    <3> HIDE DEF path
    <3>2. Install(g, "epic", path, NoPath) \in Installation
      BY <3>1, StoresAre, NoPathIsPath, InstallIs
    <3>3. QED
      BY <3>2
  <2>2. (Epic(w, g) = one /\ path # NoPath) \/ Epic(w, g) = <<>>
    BY DEF Epic
  <2> HIDE DEF one, path
  <2>3. <<>> \in Seq(Installation)
    OBVIOUS
  <2>4. QED
    BY <2>1, <2>2, <2>3, Zenon
<1>4. Microsoft(w, g) \in Seq(Installation)
  <2> DEFINE at == [r \in Range(Roots) |->
                      IF XboxContent(w, g, r) THEN LocalisedPath(w, "microsoft", g, r)
                      ELSE NoPath]
             there == InRoots(w, at, g, "microsoft", NoLocal)
  <2>1. there \in Seq(Installation)
    BY HeroicLocalsAre, StoresAre, InRootsIn
  <2>2. (Microsoft(w, g) = <<Head(there)>> /\ there # <<>>) \/ Microsoft(w, g) = <<>>
    BY DEF Microsoft
  <2> HIDE DEF there
  <2>3. there # <<>> => <<Head(there)>> \in Seq(Installation)
    BY <2>1
  <2>4. <<>> \in Seq(Installation)
    OBVIOUS
  <2>5. QED
    BY <2>2, <2>3, <2>4, Zenon
<1> DEFINE a == SteamRegistry(w, g)
           b == GogRegistry(w, g)
           c == Generic(w, g)
           d == Epic(w, g)
           e == Microsoft(w, g)
<1>5. InstallsOf(w, g) = a \o b \o c \o d \o e
  BY DEF InstallsOf
<1> HIDE DEF a, b, c, d, e
<1>6. a \in Seq(Installation) /\ b \in Seq(Installation) /\ c \in Seq(Installation)
      /\ d \in Seq(Installation) /\ e \in Seq(Installation)
  BY <1>1, <1>2, <1>3, <1>4 DEF a, b, c, d, e
<1>7. QED
  BY <1>5, <1>6, ConcatProperties

\* Of the finds in one directory only the first is kept.
LEMMA DeduplicateIn ==
  ASSUME NEW S, NEW installs \in Seq(S)
  PROVE  Deduplicate(installs) \in Seq(S)
<1> DEFINE n == Len(installs)
<1>1. DOMAIN installs = 1 .. n /\ n \in Nat /\ \A i \in 1 .. n : installs[i] \in S
  BY ElementOfSeq
<1>2. Deduplicate(installs) = KeepFold!Fold(S, <<>>, installs)
  BY Zenon DEF Deduplicate, FoldLeft, MapThenFoldSet, Max, KeepStep,
     KeepFold!Fold, KeepFold!FoldLeft, KeepFold!MapThenFoldSet, KeepFold!Max
<1>3. KeepStepKeeps(S, 0, <<>>)
  BY DEF KeepStepKeeps
<1>4. ASSUME NEW k \in 0 .. n - 1, NEW kept, KeepStepKeeps(S, k, kept)
      PROVE  KeepStepKeeps(S, k + 1, KeepStep(S, kept, installs[k + 1]))
  <2>1. k + 1 \in 1 .. n
    BY <1>1
  <2>2. kept \in Seq(S) /\ installs[k + 1] \in S
    BY <1>1, <1>4, <2>1 DEF KeepStepKeeps
  <2>3. QED
    BY <2>2 DEF KeepStepKeeps, KeepStep, Keep
<1> HIDE DEF n
<1>5. KeepStepKeeps(S, n, KeepFold!Fold(S, <<>>, installs))
  BY <1>1, <1>3, <1>4, KeepFold!FoldInduction
<1>6. QED
  BY <1>2, <1>5 DEF KeepStepKeeps

\* Detection on a machine gives a list of finds, each with its types.
LEMMA FindsAre ==
  ASSUME NEW w, IsWorld(w)
  PROVE  FindGameInstalls(w) \in Seq(Installation)
<1> DEFINE each == [i \in 1 .. Len(GameIds) |-> InstallsOf(w, GameIds[i])]
           all == SteamLibraries(w) \o Heroic(w) \o FlattenSeq(each)
<1>1. FindGameInstalls(w) = Deduplicate(all)
  BY DEF FindGameInstalls, EachGame
<1>2. each \in [1 .. Len(GameIds) -> Seq(Installation)]
  BY InstallsOfIn, GameIdsAre
<1> HIDE DEF each
<1>3. FlattenSeq(each) \in Seq(Installation)
  BY <1>2, GameIdsAre, FlattenIn
<1>4. all \in Seq(Installation)
  BY <1>3, SteamLibrariesIn, HeroicIn, ConcatProperties
<1> HIDE DEF all
<1>5. QED
  BY <1>1, <1>4, DeduplicateIn

-----------------------------------------------------------------------------
(* Lists of games.                                                          *)

Proper(games) == games \in Seq(Game) /\ Unique(games)

\* A list of games, by its indices.
LEMMA GamesAre ==
  ASSUME NEW games \in Seq(Game)
  PROVE  /\ DOMAIN games = 1 .. Len(games) /\ Len(games) \in Nat
         /\ \A i \in 1 .. Len(games) : games[i] \in Game
         /\ \A f : f \in Folders(games) <=> \E i \in 1 .. Len(games) : games[i].folder = f
BY ElementOfSeq DEF Folders, Range

\* Where folders are unique, the entry of a game's folder is that game.
LEMMA EntryIs ==
  ASSUME NEW games, Proper(games), NEW k \in 1 .. Len(games)
  PROVE  Entry(games, games[k].folder) = games[k]
<1> DEFINE f == games[k].folder
           Earliest(i) == /\ games[i].folder = f
                          /\ \A j \in 1 .. i - 1 : games[j].folder # f
           e == CHOOSE i \in DOMAIN games : Earliest(i)
<1>1. DOMAIN games = 1 .. Len(games) /\ Len(games) \in Nat
  BY GamesAre DEF Proper
<1>2. \A i, j \in 1 .. Len(games) : games[i].folder = games[j].folder => i = j
  BY <1>1 DEF Proper, Unique
<1>3. Earliest(k)
  <2>1. ASSUME NEW j \in 1 .. k - 1
        PROVE  games[j].folder # f
    <3>1. j \in 1 .. Len(games) /\ j # k
      BY <1>1
    <3>2. QED
      BY <1>2, <3>1
  <2>2. QED
    BY <2>1
<1>4. e \in 1 .. Len(games) /\ games[e].folder = f
  BY <1>1, <1>3
<1>5. e = k
  BY <1>2, <1>4
<1>6. Entry(games, f) = games[e]
  BY Zenon DEF Entry
<1>7. QED
  BY <1>5, <1>6

\* A folder that is listed has an entry.
LEMMA EntryOf ==
  ASSUME NEW games, Proper(games), NEW f \in Folders(games)
  PROVE  \E k \in 1 .. Len(games) : games[k].folder = f /\ Entry(games, f) = games[k]
BY GamesAre, EntryIs DEF Proper

\* Only the game in the folder is replaced.
LEMMA PutIs ==
  ASSUME NEW games, Proper(games), NEW f \in Folders(games), NEW e
  PROVE  Put(games, f, e) = [i \in 1 .. Len(games) |->
                               IF games[i].folder = f THEN e ELSE games[i]]
<1>1. PICK k \in 1 .. Len(games) : games[k].folder = f /\ Entry(games, f) = games[k]
  BY EntryOf
<1>2. ASSUME NEW i \in 1 .. Len(games)
      PROVE  games[i] = Entry(games, f) <=> games[i].folder = f
  BY <1>1, EntryIs
<1>3. DOMAIN games = 1 .. Len(games)
  BY GamesAre DEF Proper
<1>4. QED
  BY <1>2, <1>3 DEF Put

\* The games, of which that in the folder f hides x, or is at p.
Hides(g, x) == [g EXCEPT !.hidden = x]
At(g, p) == [g EXCEPT !.path = p]
Marked(games, f, x) ==
  [i \in 1 .. Len(games) |-> IF games[i].folder = f THEN Hides(games[i], x) ELSE games[i]]
Moved(games, f, p) ==
  [i \in 1 .. Len(games) |-> IF games[i].folder = f THEN At(games[i], p) ELSE games[i]]

\* Replacing a field of the folder's entry is changing that game's.
LEMMA ReplaceIs ==
  ASSUME NEW games, Proper(games), NEW f \in Folders(games)
  PROVE  \A x : /\ Replace(games, f, "hidden", x) = Marked(games, f, x)
                /\ Replace(games, f, "path", x) = Moved(games, f, x)
<1> SUFFICES ASSUME NEW x
             PROVE  /\ Replace(games, f, "hidden", x) = Marked(games, f, x)
                    /\ Replace(games, f, "path", x) = Moved(games, f, x)
  OBVIOUS
<1> DEFINE e == Entry(games, f)
<1>1. \A i \in 1 .. Len(games) : games[i].folder = f => games[i] = e
  BY EntryIs
<1>2. /\ Replace(games, f, "hidden", x) = Put(games, f, [e EXCEPT !["hidden"] = x])
      /\ Replace(games, f, "path", x) = Put(games, f, [e EXCEPT !["path"] = x])
  BY DEF Replace
<1> HIDE DEF e
<1>3. /\ Put(games, f, [e EXCEPT !["hidden"] = x]) = Marked(games, f, x)
      /\ Put(games, f, [e EXCEPT !["path"] = x]) = Moved(games, f, x)
  <2>1. [e EXCEPT !["hidden"] = x] = Hides(e, x) /\ [e EXCEPT !["path"] = x] = At(e, x)
    BY DEF Hides, At
  <2>2. \A b : Put(games, f, b) = [i \in 1 .. Len(games) |->
                                   IF games[i].folder = f THEN b ELSE games[i]]
    BY PutIs
  <2>3. ASSUME NEW i \in 1 .. Len(games)
        PROVE  /\ (IF games[i].folder = f THEN Hides(e, x) ELSE games[i])
                    = IF games[i].folder = f THEN Hides(games[i], x) ELSE games[i]
               /\ (IF games[i].folder = f THEN At(e, x) ELSE games[i])
                    = IF games[i].folder = f THEN At(games[i], x) ELSE games[i]
    BY <1>1
  <2>4. Put(games, f, Hides(e, x)) = Marked(games, f, x)
    BY <2>2, <2>3 DEF Marked
  <2>5. Put(games, f, At(e, x)) = Moved(games, f, x)
    BY <2>2, <2>3 DEF Moved
  <2>6. QED
    BY <2>1, <2>4, <2>5
<1>4. QED
  BY <1>2, <1>3

\* What a game hides has no part in its folder, path or id.
LEMMA MarkedIs ==
  ASSUME NEW games, Proper(games), NEW f, NEW x \in SUBSET Messages
  PROVE  /\ Proper(Marked(games, f, x)) /\ Len(Marked(games, f, x)) = Len(games)
         /\ \A i \in 1 .. Len(games) :
              /\ Marked(games, f, x)[i].folder = games[i].folder
              /\ Marked(games, f, x)[i].path = games[i].path
              /\ Marked(games, f, x)[i].id = games[i].id
         /\ Folders(Marked(games, f, x)) = Folders(games)
<1> DEFINE later == Marked(games, f, x)
<1>1. /\ DOMAIN games = 1 .. Len(games) /\ Len(games) \in Nat
      /\ \A i \in 1 .. Len(games) : games[i] \in Game
  BY GamesAre DEF Proper
<1>2. ASSUME NEW i \in 1 .. Len(games)
      PROVE  /\ later[i] \in Game /\ later[i].folder = games[i].folder
             /\ later[i].path = games[i].path /\ later[i].id = games[i].id
  BY <1>1 DEF Marked, Hides, Game
<1>3. later \in Seq(Game) /\ Len(later) = Len(games)
  BY <1>1, <1>2 DEF Marked
<1> HIDE DEF later
<1>4. DOMAIN later = 1 .. Len(games)
  BY <1>3
<1>5. Unique(later)
  BY <1>1, <1>2, <1>4 DEF Proper, Unique
<1>6. \A g : g \in Folders(later) <=> g \in Folders(games)
  BY <1>2, <1>3, GamesAre DEF Proper
<1>7. QED
  BY <1>2, <1>3, <1>5, <1>6 DEF Proper, later

\* A game that is moved keeps its folder.
LEMMA MovedIs ==
  ASSUME NEW games, Proper(games), NEW f, NEW p \in Paths
  PROVE  Proper(Moved(games, f, p))
<1> DEFINE later == Moved(games, f, p)
<1>1. /\ DOMAIN games = 1 .. Len(games) /\ Len(games) \in Nat
      /\ \A i \in 1 .. Len(games) : games[i] \in Game
  BY GamesAre DEF Proper
<1>2. ASSUME NEW i \in 1 .. Len(games)
      PROVE  later[i] \in Game /\ later[i].folder = games[i].folder
  BY <1>1 DEF Moved, At, Game
<1>3. later \in Seq(Game) /\ Len(later) = Len(games)
  BY <1>1, <1>2 DEF Moved
<1> HIDE DEF later
<1>4. DOMAIN later = 1 .. Len(games)
  BY <1>3
<1>5. Unique(later)
  BY <1>1, <1>2, <1>4 DEF Proper, Unique
<1>6. QED
  BY <1>3, <1>5 DEF Proper, later

\* Games picked from others by their indices.
LEMMA PickedIs ==
  ASSUME NEW S, NEW s \in Seq(S), NEW I \in SUBSET (1 .. Len(s)),
         \A i \in I : s[i] \in Game,
         \A i, j \in I : s[i].folder = s[j].folder => i = j
  PROVE  /\ Proper(Picked(s, Len(s), I))
         /\ \A j \in 1 .. Len(Picked(s, Len(s), I)) :
              \E i \in I : Picked(s, Len(s), I)[j] = s[i]
         /\ \A i \in I : \E j \in 1 .. Len(Picked(s, Len(s), I)) :
              Picked(s, Len(s), I)[j] = s[i]
<1> DEFINE p == Picked(s, Len(s), I)
           e == Order(Len(s), I)
<1>1. /\ p \in Seq(S) /\ Len(p) = Len(e)
      /\ \A j \in 1 .. Len(e) : p[j] = s[e[j]]
  BY PickedBy
<1>2. Ordered(e, I, Len(s))
  BY OrderIs
<1> HIDE DEF p, e
<1>3. /\ e \in Seq(I) /\ Len(e) \in Nat
      /\ \A j \in 1 .. Len(e) : e[j] \in I
      /\ \A j, l \in 1 .. Len(e) : e[j] = e[l] => j = l
      /\ \A i \in I : \E j \in 1 .. Len(e) : e[j] = i
  <2>1. e \in Seq(I)
    BY <1>2 DEF Ordered
  <2>2. \A i \in I : i <= Len(s)
    OBVIOUS
  <2>3. QED
    BY <1>2, <2>1, <2>2, ElementOfSeq DEF Ordered
<1>4. DOMAIN p = 1 .. Len(e) /\ \A j \in 1 .. Len(e) : p[j] \in Game
  <2>1. DOMAIN p = 1 .. Len(p)
    BY <1>1
  <2>2. ASSUME NEW j \in 1 .. Len(e)
        PROVE  p[j] \in Game
    <3>1. p[j] = s[e[j]] /\ e[j] \in I
      BY <1>1, <1>3
    <3>2. QED
      BY <3>1
  <2>3. QED
    BY <1>1, <2>1, <2>2
<1>5. p \in Seq(Game)
  <2>1. p = [j \in 1 .. Len(e) |-> p[j]]
    BY <1>1
  <2>2. QED
    BY <1>3, <1>4, <2>1
<1>6. Unique(p)
  <2>1. ASSUME NEW j \in 1 .. Len(e), NEW l \in 1 .. Len(e), p[j].folder = p[l].folder
        PROVE  j = l
    <3>1. p[j] = s[e[j]] /\ e[j] \in I /\ p[l] = s[e[l]] /\ e[l] \in I
      BY <1>1, <1>3
    <3>2. e[j] = e[l]
      BY <2>1, <3>1
    <3>3. QED
      BY <1>3, <3>2
  <2>2. QED
    BY <1>4, <2>1 DEF Unique
<1>7. /\ \A j \in 1 .. Len(p) : \E i \in I : p[j] = s[i]
      /\ \A i \in I : \E j \in 1 .. Len(p) : p[j] = s[i]
  <2>1. ASSUME NEW j \in 1 .. Len(e)
        PROVE  \E i \in I : p[j] = s[i]
    <3>1. e[j] \in I /\ p[j] = s[e[j]]
      BY <1>1, <1>3
    <3>2. QED
      BY <3>1, Zenon
  <2>2. ASSUME NEW i \in I
        PROVE  \E j \in 1 .. Len(e) : p[j] = s[i]
    <3>1. PICK j \in 1 .. Len(e) : e[j] = i
      BY <1>3
    <3>2. p[j] = s[i]
      BY <1>1, <3>1
    <3>3. QED
      BY <3>2, Zenon
  <2>3. QED
    BY <1>1, <2>1, <2>2
<1>8. QED
  BY <1>5, <1>6, <1>7 DEF Proper, p

-----------------------------------------------------------------------------
(* The settings file.                                                       *)

Fields == {"game", "lastGame", "games"}

Converted(w, t) ==
  [GameSettings(IdOf(w, t), t.folder) EXCEPT
     !.name = t.name,
     !.source = IF t.source # "none" THEN MigrateSource(t.source) ELSE MigrateRepo(t.repo),
     !.path = t.path,
     !.local = t.local,
     !.hidden = t.hidden]

\* A valid entry of the file becomes a game, in the same folder.
LEMMA ConvertedIs ==
  ASSUME NEW w, NEW t, IsEntry(t), t.valid # FALSE
  PROVE  Converted(w, t) \in Game /\ Converted(w, t).folder = t.folder
<1>1. /\ t.folder \in GameNames /\ t.name \in GameNames
      /\ t.path \in Paths /\ t.local \in Locals
      /\ t.hidden \subseteq Messages
      /\ t.source \in Sources \cup {"none"}
  BY DEF IsEntry
<1>2. IdOf(w, t) \in Ids
  BY DEF IsEntry, IdOf
<1> DEFINE source == IF t.source # "none" THEN MigrateSource(t.source) ELSE MigrateRepo(t.repo)
<1>3. source \in Sources
  BY <1>1 DEF MigrateSource, MigrateRepo, Sources
<1>4. Converted(w, t) = [GameSettings(IdOf(w, t), t.folder) EXCEPT
                           !.name = t.name, !.source = source, !.path = t.path,
                           !.local = t.local, !.hidden = t.hidden]
  BY DEF Converted
<1> HIDE DEF source
<1>5. QED
  BY <1>1, <1>2, <1>3, <1>4 DEF GameSettings, Game

\* Whatever the file is, what is loaded are games whose folders are unique.
LEMMA LoadIs ==
  ASSUME NEW w, NEW f, f \in {NoFile, Truncated} \/ IsFile(f)
  PROVE  DOMAIN Load(w, f) = Fields /\ Proper(Load(w, f).games)
<1>1. CASE f \in {NoFile, Truncated}
  <2>1. Load(w, f) = Defaults
    BY <1>1 DEF Load
  <2>2. Defaults.games = <<>> /\ DOMAIN Defaults = Fields
    BY DEF Defaults, Fields
  <2>3. Proper(<<>>)
    BY DEF Proper, Unique
  <2>4. QED
    BY <2>1, <2>2, <2>3
<1>2. CASE f \notin {NoFile, Truncated}
  <2> DEFINE old == f.games
             n == Len(old)
             I == {i \in 1 .. n : old[i].valid # FALSE}
             s == [i \in 1 .. n |-> Converted(w, old[i])]
             seqs == [i \in 1 .. n |-> IF i \in I THEN <<s[i]>> ELSE <<>>]
  <2>1. IsFile(f)
    BY <1>2
  <2>2. /\ n \in Nat /\ DOMAIN old = 1 .. n
        /\ \A i \in 1 .. n : IsEntry(old[i])
        /\ \A i, j \in I : old[i].folder = old[j].folder => i = j
    <3>1. n \in Nat /\ DOMAIN old = 1 .. n
      BY <2>1 DEF IsFile, IsList
    <3>2. \A i \in 1 .. n : IsEntry(old[i])
      BY <2>1, <3>1 DEF IsFile
    <3>3. \A i, j \in DOMAIN old :
            old[i].valid # FALSE /\ old[j].valid # FALSE /\ old[i].folder = old[j].folder
            => i = j
      BY <2>1 DEF IsFile
    <3> HIDE DEF old, n
    <3>4. QED
      BY <3>1, <3>2, <3>3
  <2>3. Load(w, f) = [f EXCEPT !.games =
             FlattenSeq([i \in DOMAIN old |-> ConvertGame(w, old[i])])]
    BY <1>2 DEF Load
  <2>4. DOMAIN f = Fields /\ "games" \in Fields
    BY <2>1 DEF IsFile, Fields
  <2> HIDE DEF old
  <2>5. ASSUME NEW i \in 1 .. n
        PROVE  ConvertGame(w, old[i]) = IF i \in I THEN <<s[i]>> ELSE <<>>
    BY DEF ConvertGame, Converted
  <2>6. [i \in DOMAIN old |-> ConvertGame(w, old[i])] = seqs
    BY <2>2, <2>5
  <2>7. ASSUME NEW i \in I
        PROVE  s[i] \in Game /\ s[i].folder = old[i].folder
    BY <2>2, ConvertedIs
  <2>8. s \in Seq(Range(s)) /\ Len(s) = n
    BY <2>2 DEF Range
  <2>9. FlattenSeq(seqs) = Picked(s, n, I)
    BY DEF Picked
  <2> HIDE DEF s, seqs
  <2>10. I \in SUBSET (1 .. n) /\ \A i, j \in I : s[i].folder = s[j].folder => i = j
    BY <2>2, <2>7
  <2> HIDE DEF I, n
  <2>11. Proper(Picked(s, n, I))
    <3> DEFINE S == Range(s)
    <3>1. s \in Seq(S) /\ I \in SUBSET (1 .. Len(s))
      BY <2>8, <2>10
    <3> HIDE DEF S
    <3>2. QED
      BY <2>7, <2>8, <2>10, <3>1, PickedIs
  <2>12. QED
    BY <2>3, <2>4, <2>6, <2>9, <2>11
<1>3. QED
  BY <1>1, <1>2

\* What is saved is a file that can be loaded.
LEMMA SavedIs ==
  ASSUME NEW s, DOMAIN s = Fields, Proper(s.games)
  PROVE  IsFile(Saved(s))
<1> DEFINE old == s.games
           n == Len(old)
           list == [i \in DOMAIN old |-> Written(old[i])]
<1>1. /\ n \in Nat /\ DOMAIN old = 1 .. n
      /\ \A i \in 1 .. n : old[i] \in Game
      /\ \A i, j \in 1 .. n : old[i].folder = old[j].folder => i = j
  BY GamesAre DEF Proper, Unique
<1>2. Saved(s) = [s EXCEPT !.games = list]
  BY DEF Saved
<1> HIDE DEF old, n
<1>3. ASSUME NEW i \in 1 .. n
      PROVE  IsEntry(list[i]) /\ list[i].folder = old[i].folder
  <2> DEFINE g == old[i]
             t == Written(g)
  <2>1. g \in Game /\ list[i] = t
    BY <1>1
  <2> HIDE DEF g
  <2>2. /\ g = [id |-> g.id, folder |-> g.folder, name |-> g.name, path |-> g.path,
               local |-> g.local, source |-> g.source, hidden |-> g.hidden]
        /\ g.folder \in GameNames /\ g.name \in GameNames /\ g.id \in Ids /\ g.path \in Paths
        /\ g.local \in Locals /\ g.source \in Sources /\ g.hidden \subseteq Messages
    BY <2>1 DEF Game
  <2>3. DOMAIN g = {"id", "folder", "name", "path", "local", "source", "hidden"}
    BY <2>2
  <2>4. /\ "id" \in DOMAIN t
        /\ t.id = g.id /\ t.folder = g.folder /\ t.name = g.name
        /\ t.path = g.path /\ t.local = g.local /\ t.source = g.source
        /\ t.hidden = g.hidden
    BY <2>3 DEF Written
  <2> HIDE DEF t
  <2>5. IsEntry(t)
    BY <2>2, <2>4 DEF IsEntry
  <2>6. QED
    BY <2>1, <2>4, <2>5 DEF g
<1>4. DOMAIN list = 1 .. n /\ IsList(list)
  <2> DEFINE S == Range(list)
  <2>1. \A i \in 1 .. n : list[i] \in S
    BY <1>1 DEF Range
  <2>2. list \in Seq(S)
    <3> HIDE DEF S
    <3>1. QED
      BY <1>1, <2>1
  <2>3. QED
    BY <1>1, <2>2 DEF IsList
<1>5. /\ DOMAIN [s EXCEPT !.games = list] = Fields
      /\ [s EXCEPT !.games = list].games = list
  BY DEF Fields
<1> HIDE DEF list
<1>6. \A i, j \in 1 .. n : list[i].folder = list[j].folder => i = j
  BY <1>1, <1>3
<1> DEFINE f == [s EXCEPT !.games = list]
<1>7. DOMAIN f = Fields /\ f.games = list
  BY <1>5
<1> HIDE DEF f
<1>8. IsFile(f)
  BY <1>3, <1>4, <1>6, <1>7, Zenon DEF IsFile, Fields
<1>9. QED
  BY <1>2, <1>8 DEF f

-----------------------------------------------------------------------------
(* The games that are installed.                                            *)

InstalledAt(w, games) == {i \in 1 .. Len(games) : IsInstalled(w, games[i])}

\* The games that are installed are picked from those that are configured.
LEMMA InstalledOfPicks ==
  ASSUME NEW w, NEW games
  PROVE  InstalledOf(w, games) = Picked(games, Len(games), InstalledAt(w, games))
<1> DEFINE n == Len(games)
           I == InstalledAt(w, games)
<1>1. ASSUME NEW i \in 1 .. n
      PROVE  (IF IsInstalled(w, games[i]) THEN <<games[i]>> ELSE <<>>)
               = IF i \in I THEN <<games[i]>> ELSE <<>>
  BY DEF InstalledAt
<1>2. InstalledOf(w, games) =
        FlattenSeq([i \in 1 .. n |-> IF IsInstalled(w, games[i]) THEN <<games[i]>> ELSE <<>>])
  BY Zenon DEF InstalledOf, Where
<1>3. Picked(games, n, I) =
       FlattenSeq([i \in 1 .. n |-> IF i \in I THEN <<games[i]>> ELSE <<>>])
  BY DEF Picked
<1> HIDE DEF I, n
<1>4. [i \in 1 .. n |-> IF IsInstalled(w, games[i]) THEN <<games[i]>> ELSE <<>>]
        = [i \in 1 .. n |-> IF i \in I THEN <<games[i]>> ELSE <<>>]
  BY <1>1
<1>5. QED
  BY <1>2, <1>3, <1>4 DEF I, n

\* They are configured games, and their folders are unique.
LEMMA InstalledOfIs ==
  ASSUME NEW w, NEW games, Proper(games)
  PROVE  LET found == InstalledOf(w, games)
         IN /\ Proper(found)
            /\ \A j \in 1 .. Len(found) : \E i \in 1 .. Len(games) : found[j] = games[i]
            /\ Folders(found) \subseteq Folders(games)
<1> DEFINE I == InstalledAt(w, games)
           found == Picked(games, Len(games), I)
<1>1. /\ games \in Seq(Game) /\ I \in SUBSET (1 .. Len(games))
      /\ DOMAIN games = 1 .. Len(games)
      /\ \A i \in I : games[i] \in Game
      /\ \A i, j \in I : games[i].folder = games[j].folder => i = j
  BY GamesAre DEF Proper, Unique, InstalledAt
<1> HIDE DEF I
<1>2. Proper(found) /\ \A j \in 1 .. Len(found) : \E i \in I : found[j] = games[i]
  BY <1>1, PickedIs
<1> HIDE DEF found
<1>3. \A j \in 1 .. Len(found) : \E i \in 1 .. Len(games) : found[j] = games[i]
  BY <1>1, <1>2
<1>4. \A f : f \in Folders(found) => f \in Folders(games)
  BY <1>2, <1>3, GamesAre DEF Proper
<1>5. InstalledOf(w, games) = found
  BY InstalledOfPicks DEF found, I
<1>6. QED
  BY <1>2, <1>3, <1>4, <1>5

\* What is hidden has no part in what is installed.
LEMMA InstalledMarked ==
  ASSUME NEW w, NEW games, Proper(games), NEW f, NEW x \in SUBSET Messages
  PROVE  InstalledOf(w, Marked(games, f, x)) = Marked(InstalledOf(w, games), f, x)
<1> DEFINE n == Len(games)
           I == InstalledAt(w, games)
           e == Order(n, I)
           later == Marked(games, f, x)
           M(g) == IF g.folder = f THEN Hides(g, x) ELSE g
<1>1. /\ Len(later) = n /\ n \in Nat /\ games \in Seq(Game) /\ later \in Seq(Game)
      /\ \A i \in 1 .. n : /\ later[i].path = games[i].path
                           /\ later[i].id = games[i].id
  BY GamesAre, MarkedIs DEF Proper
<1>2. \A i \in 1 .. n : later[i] = M(games[i])
  BY DEF Marked
<1> HIDE DEF later, M
<1>3. InstalledAt(w, later) = I
  BY <1>1 DEF InstalledAt, IsInstalled
<1>4. I \in SUBSET (1 .. n)
  BY DEF InstalledAt
<1>5. Ordered(e, I, n)
  BY <1>1, <1>4, OrderIs
<1>6. e \in Seq(I) /\ Len(e) \in Nat /\ \A j \in 1 .. Len(e) : e[j] \in I
  <2>1. e \in Seq(I)
    BY <1>5 DEF Ordered
  <2>2. QED
    BY <2>1, ElementOfSeq
<1> DEFINE a == InstalledOf(w, games)
           b == InstalledOf(w, later)
<1>7. a = Picked(games, n, I) /\ b = Picked(later, n, I)
  BY <1>1, <1>3, InstalledOfPicks
<1> HIDE DEF I, a, b
<1>8. a \in Seq(Game) /\ Len(a) = Len(e) /\ \A j \in 1 .. Len(e) : a[j] = games[e[j]]
  BY <1>1, <1>4, <1>7, PickedBy
<1>9. b \in Seq(Game) /\ Len(b) = Len(e) /\ \A j \in 1 .. Len(e) : b[j] = later[e[j]]
  BY <1>1, <1>4, <1>7, PickedBy
<1> HIDE DEF e, n
<1>10. ASSUME NEW j \in 1 .. Len(e)
       PROVE  b[j] = M(a[j])
  <2>1. e[j] \in 1 .. n
    BY <1>4, <1>6
  <2>2. QED
    BY <1>2, <1>8, <1>9, <2>1
<1>11. Marked(a, f, x) = [j \in 1 .. Len(e) |-> M(a[j])]
  BY <1>8 DEF Marked, M
<1>12. b = [j \in 1 .. Len(e) |-> b[j]]
  BY <1>9
<1>13. b = Marked(a, f, x)
  BY <1>10, <1>11, <1>12
<1>14. QED
  BY <1>13 DEF a, b, later

\* The first game is one that is installed, or none.
LEMMA InitialGameIs ==
  ASSUME NEW cmdLineGame, NEW s, NEW games, Proper(games)
  PROVE  InitialGame(cmdLineGame, s, games) \in Folders(games) \cup {NoGame}
<1>1. games # <<>> => games[1].folder \in Folders(games)
  <2>1. games # <<>> => 1 \in 1 .. Len(games)
    BY DEF Proper
  <2>2. QED
    BY <2>1, GamesAre DEF Proper
<1>2. QED
  BY <1>1, Zenon DEF InitialGame

\* A path from the command line leaves the folders unique.
LEMMA OverridePathIs ==
  ASSUME NEW s, NEW args, DOMAIN s = Fields, Proper(s.games), args.path \in Paths
  PROVE  DOMAIN OverridePath(s, args) = Fields /\ Proper(OverridePath(s, args).games)
<1>1. CASE args.game \in Folders(s.games)
  <2> DEFINE later == Replace(s.games, args.game, "path", args.path)
  <2>1. Proper(later)
    BY <1>1, ReplaceIs, MovedIs
  <2> HIDE DEF later
  <2>2. /\ DOMAIN [s EXCEPT !.games = later] = Fields
        /\ [s EXCEPT !.games = later].games = later
    BY DEF Fields
  <2>3. OverridePath(s, args) \in {s, [s EXCEPT !.games = later]}
    BY DEF OverridePath, later
  <2>4. QED
    BY <2>1, <2>2, <2>3
<1>2. CASE args.game \notin Folders(s.games)
  BY <1>2 DEF OverridePath
<1>3. QED
  BY <1>1, <1>2

\* later is s, but hides in the folder c what the game of that folder does.
Hiding(s, games, c, later) ==
  /\ DOMAIN later = Fields
  /\ Proper(later.games)
  /\ c \in Folders(s.games) /\ c \in Folders(games) =>
       later.games = Marked(s.games, c, Entry(games, c).hidden)
  /\ ~(c \in Folders(s.games) /\ c \in Folders(games)) => later.games = s.games
  /\ \A path : Has(s.games, path) => Has(later.games, path)

\* Recording what the current game hides changes nothing else.
LEMMA RecordHiddenIs ==
  ASSUME NEW s, DOMAIN s = Fields, Proper(s.games), NEW games, Proper(games), NEW c
  PROVE  Hiding(s, games, c, RecordHidden(s, games, c))
<1>1. CASE c \in Folders(s.games) /\ c \in Folders(games)
  <2> DEFINE x == Entry(games, c).hidden
             list == Marked(s.games, c, x)
             later == [s EXCEPT !.games = list]
  <2>1. x \in SUBSET Messages
    <3>1. PICK k \in 1 .. Len(games) : Entry(games, c) = games[k]
      BY <1>1, EntryOf
    <3>2. games[k] \in Game
      BY GamesAre DEF Proper
    <3>3. QED
      BY <3>1, <3>2 DEF Game
  <2>2. RecordHidden(s, games, c) = later
    BY <1>1, ReplaceIs DEF RecordHidden
  <2> HIDE DEF x
  <2>3. /\ Proper(list) /\ Len(list) = Len(s.games)
        /\ \A i \in 1 .. Len(s.games) : list[i].path = s.games[i].path
    BY <2>1, MarkedIs
  <2> HIDE DEF list
  <2>4. DOMAIN later = Fields /\ later.games = list
    BY DEF Fields
  <2>5. DOMAIN list = 1 .. Len(s.games) /\ DOMAIN s.games = 1 .. Len(s.games)
    BY <2>3, GamesAre DEF Proper
  <2>6. \A path : Has(s.games, path) => Has(list, path)
    BY <2>3, <2>5 DEF Has
  <2> HIDE DEF later
  <2>7. QED
    BY <1>1, <2>2, <2>3, <2>4, <2>6 DEF Hiding, list, x
<1>2. CASE ~(c \in Folders(s.games) /\ c \in Folders(games))
  BY <1>2 DEF RecordHidden, Hiding
<1>3. QED
  BY <1>1, <1>2

-----------------------------------------------------------------------------
(* The tabs of the Settings dialog.                                         *)

\* A tab stays the current game's.
HasTab(tabs, f, id) == \E i \in 1 .. Len(tabs) : tabs[i].folder = f /\ tabs[i].id = id

\* The dialog opens with a tab for each game.
LEMMA TabsAre ==
  ASSUME NEW games, Proper(games)
  PROVE  LET tabs == [i \in DOMAIN games |-> TabOf(games[i])]
         IN /\ Proper(tabs)
            /\ \A i \in 1 .. Len(games) : HasTab(tabs, games[i].folder, games[i].id)
<1> DEFINE n == Len(games)
           tabs == [i \in DOMAIN games |-> TabOf(games[i])]
<1>1. /\ DOMAIN games = 1 .. n /\ n \in Nat /\ \A i \in 1 .. n : games[i] \in Game
      /\ \A i, j \in 1 .. n : games[i].folder = games[j].folder => i = j
  BY GamesAre DEF Proper, Unique
<1> HIDE DEF n
<1>2. ASSUME NEW i \in 1 .. n
      PROVE  tabs[i] \in Game /\ tabs[i].folder = games[i].folder /\ tabs[i].id = games[i].id
  BY <1>1 DEF TabOf, Game
<1>3. tabs \in Seq(Game) /\ Len(tabs) = n /\ DOMAIN tabs = 1 .. n
  BY <1>1, <1>2
<1> HIDE DEF tabs
<1>4. Unique(tabs)
  BY <1>1, <1>2, <1>3 DEF Unique
<1>5. \A i \in 1 .. n : HasTab(tabs, games[i].folder, games[i].id)
  BY <1>2, <1>3 DEF HasTab
<1>6. QED
  BY <1>3, <1>4, <1>5 DEF Proper, tabs, n

\* One tab is another, of the same game.
LEMMA TabEdited ==
  ASSUME NEW tabs, Proper(tabs), NEW k \in DOMAIN tabs, NEW t \in Game,
         t.folder = tabs[k].folder, t.id = tabs[k].id
  PROVE  /\ Proper([tabs EXCEPT ![k] = t])
         /\ \A f, id : HasTab(tabs, f, id) => HasTab([tabs EXCEPT ![k] = t], f, id)
<1> DEFINE n == Len(tabs)
           later == [tabs EXCEPT ![k] = t]
<1>1. /\ DOMAIN tabs = 1 .. n /\ n \in Nat /\ \A i \in 1 .. n : tabs[i] \in Game
      /\ \A i, j \in 1 .. n : tabs[i].folder = tabs[j].folder => i = j
      /\ tabs \in Seq(Game)
  BY GamesAre DEF Proper, Unique
<1>2. later \in Seq(Game) /\ Len(later) = n /\ DOMAIN later = 1 .. n
  BY <1>1
<1>3. \A i \in 1 .. n : later[i].folder = tabs[i].folder /\ later[i].id = tabs[i].id
  BY <1>1
<1> HIDE DEF later
<1>4. Unique(later)
  BY <1>1, <1>2, <1>3 DEF Unique
<1>5. \A f, id : HasTab(tabs, f, id) => HasTab(later, f, id)
  BY <1>2, <1>3 DEF HasTab
<1>6. QED
  BY <1>2, <1>4, <1>5 DEF Proper, later

\* Removing a tab keeps the others.
LEMMA TabRemoved ==
  ASSUME NEW tabs, Proper(tabs), NEW k \in DOMAIN tabs
  PROVE  /\ Proper(RemoveAt(tabs, k))
         /\ \A f, id : f # tabs[k].folder /\ HasTab(tabs, f, id)
                       => HasTab(RemoveAt(tabs, k), f, id)
<1> DEFINE n == Len(tabs)
           a == SubSeq(tabs, 1, k - 1)
           b == SubSeq(tabs, k + 1, n)
           later == a \o b
<1>1. /\ DOMAIN tabs = 1 .. n /\ n \in Nat /\ \A i \in 1 .. n : tabs[i] \in Game
      /\ \A i, j \in 1 .. n : tabs[i].folder = tabs[j].folder => i = j
      /\ tabs \in Seq(Game) /\ k \in 1 .. n
  BY GamesAre DEF Proper, Unique
<1>2. RemoveAt(tabs, k) = later
  BY DEF RemoveAt
<1>3. /\ a \in Seq(Game) /\ Len(a) = k - 1
      /\ \A i \in 1 .. k - 1 : a[i] = tabs[i]
  <2>1. a \in Seq(Game) /\ Len(a) = k - 1
    BY <1>1
  <2>2. \A i \in 1 .. k - 1 : a[i] = tabs[i]
    BY <1>1
  <2>3. QED
    BY <2>1, <2>2
<1>4. /\ b \in Seq(Game) /\ Len(b) = n - k
      /\ \A i \in 1 .. n - k : b[i] = tabs[k + i]
  BY <1>1
<1> HIDE DEF a, b, n
<1>5. /\ later \in Seq(Game) /\ Len(later) = n - 1 /\ DOMAIN later = 1 .. n - 1
      /\ \A i \in 1 .. n - 1 : later[i] = IF i < k THEN tabs[i] ELSE tabs[i + 1]
  <2>1. later \in Seq(Game) /\ Len(later) = n - 1 /\ DOMAIN later = 1 .. n - 1
    <3>1. later \in Seq(Game) /\ Len(later) = Len(a) + Len(b)
      BY <1>3, <1>4, ConcatProperties
    <3>2. Len(a) + Len(b) = n - 1
      BY <1>1, <1>3, <1>4
    <3> HIDE DEF later
    <3>3. DOMAIN later = 1 .. Len(later)
      BY <3>1
    <3>4. QED
      BY <3>1, <3>2, <3>3
  <2>2. ASSUME NEW i \in 1 .. n - 1
        PROVE  later[i] = IF i < k THEN tabs[i] ELSE tabs[i + 1]
    <3>1. i \in 1 .. Len(a) + Len(b)
      <4>1. Len(a) + Len(b) = n - 1
        BY <1>1, <1>3, <1>4
      <4>2. QED
        BY <4>1, Zenon
    <3>2. later[i] = IF i <= Len(a) THEN a[i] ELSE b[i - Len(a)]
      BY <1>3, <1>4, <3>1, ConcatProperties
    <3> HIDE DEF later
    <3>3. CASE i < k
      <4>1. i <= k - 1 /\ i \in 1 .. k - 1
        BY <1>1, <3>3
      <4>2. QED
        BY <1>3, <3>2, <3>3, <4>1
    <3>4. CASE ~(i < k)
      <4>1. i - (k - 1) \in 1 .. n - k /\ k + (i - (k - 1)) = i + 1
        BY <1>1, <3>4
      <4>2. later[i] = b[i - (k - 1)]
        BY <1>1, <1>3, <3>2, <3>4
      <4>3. QED
        BY <1>4, <3>4, <4>1, <4>2
    <3>5. QED
      BY <3>3, <3>4
  <2>3. QED
    BY <2>1, <2>2
<1> HIDE DEF later
<1>6. Unique(later)
  <2>1. ASSUME NEW i \in 1 .. n - 1, NEW j \in 1 .. n - 1, later[i].folder = later[j].folder
        PROVE  i = j
    <3> DEFINE At1(m) == IF m < k THEN m ELSE m + 1
    <3>1. At1(i) \in 1 .. n /\ At1(j) \in 1 .. n
      BY <1>1
    <3>2. later[i] = tabs[At1(i)] /\ later[j] = tabs[At1(j)]
      BY <1>5
    <3>3. At1(i) = At1(j)
      BY <1>1, <2>1, <3>1, <3>2
    <3>4. QED
      BY <1>1, <3>3
  <2>2. QED
    BY <1>5, <2>1 DEF Unique
<1>7. ASSUME NEW f, NEW id, f # tabs[k].folder, HasTab(tabs, f, id)
      PROVE  HasTab(later, f, id)
  <2>1. PICK i \in 1 .. n : tabs[i].folder = f /\ tabs[i].id = id
    BY <1>7 DEF HasTab, n
  <2>2. i # k
    BY <1>7, <2>1
  <2>3. CASE i < k
    <3>1. i \in 1 .. n - 1 /\ later[i] = tabs[i]
      BY <1>1, <1>5, <2>3
    <3>2. QED
      BY <1>5, <2>1, <3>1 DEF HasTab
  <2>4. CASE i > k
    <3>1. i - 1 \in 1 .. n - 1 /\ later[i - 1] = tabs[(i - 1) + 1] /\ (i - 1) + 1 = i
      BY <1>1, <1>5, <2>4
    <3>2. QED
      BY <1>5, <2>1, <3>1 DEF HasTab
  <2>5. QED
    BY <1>1, <2>2, <2>3, <2>4
<1>8. QED
  BY <1>2, <1>5, <1>6, <1>7 DEF Proper

\* Adding a tab with a new folder keeps the others.
LEMMA TabAdded ==
  ASSUME NEW tabs, Proper(tabs), NEW t \in Game, t.folder \notin Folders(tabs)
  PROVE  /\ Proper(Append(tabs, t))
         /\ \A f, id : HasTab(tabs, f, id) => HasTab(Append(tabs, t), f, id)
<1> DEFINE later == Append(tabs, t)
<1>1. /\ tabs \in Seq(Game) /\ later \in Seq(Game) /\ Len(tabs) \in Nat
      /\ Len(later) = Len(tabs) + 1 /\ \A i \in 1 .. Len(tabs) : later[i] = tabs[i]
  BY DEF Proper
<1>2. Unique(later)
  BY AppendUnique DEF Proper
<1> HIDE DEF later
<1>3. \A f, id : HasTab(tabs, f, id) => HasTab(later, f, id)
  BY <1>1 DEF HasTab
<1>4. QED
  BY <1>1, <1>2, <1>3 DEF Proper, later

-----------------------------------------------------------------------------
(* The objects of the games that are installed.                             *)

\* No game is in the folder that stands for none.
LEMMA NoGameHasNoFolder ==
  ASSUME NEW games, Proper(games)
  PROVE  NoGame \notin Folders(games)
<1>1. \A i \in 1 .. Len(games) : games[i].folder \in GameNames
  BY GamesAre DEF Proper, Game
<1>2. QED
  BY <1>1, GamesAre, NoGameAssumption DEF Proper

\* An object is kept for a game with its folder and its paths.
LEMMA KeptIs ==
  ASSUME Proper(installed), current \in Folders(installed) \cup {NoGame},
         NEW s \in Game, Kept(s)
  PROVE  /\ Entry(installed, current) \in Game
         /\ Entry(installed, current).folder = s.folder
         /\ Entry(installed, current).path = s.path
         /\ Entry(installed, current).local = s.local
<1>1. current = s.folder /\ s.folder \in GameNames
  BY DEF Kept, Game
<1>2. current \in Folders(installed)
  BY <1>1, NoGameAssumption
<1>3. PICK k \in 1 .. Len(installed) :
        installed[k].folder = current /\ Entry(installed, current) = installed[k]
  BY <1>2, EntryOf
<1>4. installed[k] \in Game
  BY GamesAre DEF Proper
<1>5. QED
  BY <1>1, <1>3, <1>4 DEF Kept, NeedsRecreating

\* An object that is kept differs from its game's settings in what it hides.
LEMMA UpdatedHides ==
  ASSUME NEW e \in Game, NEW s \in Game, e.id = s.id, e.folder = s.folder,
         e.path = s.path, e.local = s.local
  PROVE  Updated(e, s) = Hides(s, e.hidden)
<1>1. /\ e = [id |-> e.id, folder |-> e.folder, name |-> e.name, path |-> e.path,
              local |-> e.local, source |-> e.source, hidden |-> e.hidden]
      /\ s = [id |-> s.id, folder |-> s.folder, name |-> s.name, path |-> s.path,
              local |-> s.local, source |-> s.source, hidden |-> s.hidden]
  BY DEF Game
<1>2. Updated(e, s) = [id |-> e.id, folder |-> e.folder, name |-> s.name, path |-> e.path,
                       local |-> e.local, source |-> s.source, hidden |-> e.hidden]
  <2>1. DOMAIN e = {"id", "folder", "name", "path", "local", "source", "hidden"}
    BY <1>1
  <2> DEFINE u == [e EXCEPT !.name = s.name, !.source = s.source]
             r == [id |-> e.id, folder |-> e.folder, name |-> s.name, path |-> e.path,
                   local |-> e.local, source |-> s.source, hidden |-> e.hidden]
  <2>2. u = [f \in DOMAIN e |-> u[f]] /\ r = [f \in DOMAIN r |-> r[f]]
    OBVIOUS
  <2>3. DOMAIN r = DOMAIN e
    BY <2>1
  <2>4. /\ u.id = r.id /\ u.folder = r.folder /\ u.name = r.name /\ u.path = r.path
        /\ u.local = r.local /\ u.source = r.source /\ u.hidden = r.hidden
    BY <2>1
  <2>7. DOMAIN u = DOMAIN e
    OBVIOUS
  <2> HIDE DEF u, r
  <2>5. u = r
    BY <2>1, <2>2, <2>3, <2>4, <2>7
  <2>6. QED
    BY <2>5 DEF u, r, Updated
<1>3. Hides(s, e.hidden) = [id |-> s.id, folder |-> s.folder, name |-> s.name,
                            path |-> s.path, local |-> s.local, source |-> s.source,
                            hidden |-> e.hidden]
  BY <1>1 DEF Hides
<1>4. QED
  BY <1>2, <1>3

\* The objects are those of the installed games, in the same folders.
LEMMA InstalledGamesIs ==
  ASSUME NEW games, Proper(games), Proper(installed),
         current \in Folders(installed) \cup {NoGame}
  PROVE  LET found == InstalledOf(world, games)
             objects == InstalledGames(games)
         IN /\ Proper(objects) /\ Len(objects) = Len(found)
            /\ \A i \in 1 .. Len(found) :
                 /\ objects[i].folder = found[i].folder
                 /\ objects[i] = IF Kept(found[i])
                                 THEN Updated(Entry(installed, current), found[i])
                                 ELSE found[i]
            /\ Folders(objects) = Folders(found)
<1> DEFINE found == InstalledOf(world, games)
           objects == InstalledGames(games)
           n == Len(found)
           e == Entry(installed, current)
<1>1. /\ Proper(found) /\ DOMAIN found = 1 .. n /\ n \in Nat
      /\ \A i \in 1 .. n : found[i] \in Game
      /\ \A i, j \in 1 .. n : found[i].folder = found[j].folder => i = j
  <2>1. Proper(found)
    BY InstalledOfIs
  <2> HIDE DEF found
  <2>2. QED
    BY <2>1, GamesAre DEF Proper, Unique
<1>2. objects = [i \in DOMAIN found |-> IF Kept(found[i]) THEN Updated(e, found[i])
                                        ELSE found[i]]
  BY DEF InstalledGames
<1> HIDE DEF found, n, objects, e
<1>3. ASSUME NEW i \in 1 .. n
      PROVE  objects[i] \in Game /\ objects[i].folder = found[i].folder
  <2>1. CASE Kept(found[i])
    <3>1. e \in Game /\ e.folder = found[i].folder
      BY <1>1, <2>1, KeptIs DEF e
    <3>2. objects[i] = Updated(e, found[i])
      BY <1>1, <1>2, <2>1
    <3>3. QED
      BY <1>1, <3>1, <3>2 DEF Updated, Game
  <2>2. CASE ~Kept(found[i])
    BY <1>1, <1>2, <2>2
  <2>3. QED
    BY <2>1, <2>2
<1>4. objects \in Seq(Game) /\ Len(objects) = n /\ DOMAIN objects = 1 .. n
  BY <1>1, <1>2, <1>3
<1>5. Unique(objects)
  BY <1>1, <1>3, <1>4 DEF Unique
<1>6. \A f : f \in Folders(objects) <=> f \in Folders(found)
  <2>1. \A f : f \in Folders(objects) <=> \E i \in 1 .. n : objects[i].folder = f
    BY <1>4, GamesAre
  <2>2. \A f : f \in Folders(found) <=> \E i \in 1 .. n : found[i].folder = f
    BY <1>1, GamesAre DEF Proper, n
  <2>3. QED
    BY <1>3, <2>1, <2>2
<1>7. \A i \in 1 .. n :
        objects[i] = IF Kept(found[i]) THEN Updated(e, found[i]) ELSE found[i]
  BY <1>1, <1>2
<1>8. QED
  BY <1>3, <1>4, <1>5, <1>6, <1>7 DEF Proper, found, n, objects, e

\* The objects are what is recorded for them, where the current game's object
\* is that of the same game.
LEMMA RecordedAgree ==
  ASSUME NEW games, Proper(games), Proper(installed),
         current \in Folders(installed) \cup {NoGame},
         \A i \in 1 .. Len(games) : games[i].folder = current =>
           games[i].id = Entry(installed, current).id,
         NEW s, DOMAIN s = Fields, s.games = games
  PROVE  LET objects == InstalledGames(games)
         IN InstalledOf(world, RecordHidden(s, objects, CurrentAmong(objects)).games)
              = objects
<1> DEFINE found == InstalledOf(world, games)
           objects == InstalledGames(games)
           n == Len(found)
           e == Entry(installed, current)
           now == CurrentAmong(objects)
           later == RecordHidden(s, objects, now).games
<1>1. /\ Proper(found) /\ Folders(found) \subseteq Folders(games)
      /\ \A j \in 1 .. n : \E i \in 1 .. Len(games) : found[j] = games[i]
  BY InstalledOfIs
<1>2. /\ Proper(objects) /\ Len(objects) = n
      /\ \A i \in 1 .. n : /\ objects[i].folder = found[i].folder
                           /\ objects[i] = IF Kept(found[i]) THEN Updated(e, found[i])
                                           ELSE found[i]
      /\ Folders(objects) = Folders(found)
  BY InstalledGamesIs
<1>3. now = IF current \in Folders(objects) THEN current ELSE NoGame
  BY DEF CurrentAmong
<1>4. /\ now \in Folders(games) /\ now \in Folders(objects) =>
           later = Marked(games, now, Entry(objects, now).hidden)
      /\ ~(now \in Folders(games) /\ now \in Folders(objects)) => later = games
  <2> HIDE DEF objects, now
  <2>1. QED
    BY <1>2, RecordHiddenIs DEF Hiding
<1>5. found \in Seq(Game) /\ objects \in Seq(Game) /\ DOMAIN found = 1 .. n
      /\ DOMAIN objects = 1 .. n /\ n \in Nat
  <2> HIDE DEF found, objects
  <2>1. QED
    BY <1>1, <1>2, GamesAre DEF Proper
<1> HIDE DEF found, objects, e, now, later, n
<1>6. CASE current \notin Folders(found)
  <2>1. now = NoGame
    BY <1>2, <1>3, <1>6
  <2>2. later = games
    BY <1>2, <1>4, <2>1, NoGameHasNoFolder
  <2>3. ASSUME NEW i \in 1 .. n
        PROVE  objects[i] = found[i]
    <3>1. found[i].folder # current
      BY <1>1, <1>5, <1>6, GamesAre DEF n
    <3>2. QED
      BY <1>2, <3>1 DEF Kept
  <2>4. objects = found
    BY <1>5, <2>3
  <2>5. QED
    BY <2>2, <2>4 DEF found, objects, now, later
<1>7. CASE current \in Folders(found)
  <2> DEFINE x == Entry(objects, current).hidden
  <2>1. now = current /\ now \in Folders(games) /\ now \in Folders(objects)
    BY <1>1, <1>2, <1>3, <1>7
  <2>2. PICK k \in 1 .. n : objects[k].folder = current /\ Entry(objects, current) = objects[k]
    BY <1>2, <2>1, EntryOf
  <2>3. objects[k] \in Game /\ found[k] \in Game /\ found[k].folder = current
    BY <1>2, <1>5, <2>2
  <2>4. x = objects[k].hidden /\ x \in SUBSET Messages
    BY <2>2, <2>3 DEF Game
  <2> HIDE DEF x
  <2>5. later = Marked(games, current, x)
    BY <1>4, <2>1 DEF x
  <2>6. InstalledOf(world, later) = Marked(found, current, x)
    BY <2>4, <2>5, InstalledMarked DEF found
  <2>7. objects[k] = Hides(found[k], x)
    <3>1. CASE Kept(found[k])
      <4>1. /\ e \in Game /\ e.folder = found[k].folder /\ e.path = found[k].path
            /\ e.local = found[k].local
        BY <2>3, <3>1, KeptIs DEF e
      <4>2. e.id = found[k].id
        BY <1>1, <2>3 DEF e
      <4>3. objects[k] = Updated(e, found[k])
        BY <1>2, <3>1
      <4>4. x = e.hidden
        BY <2>4, <4>1, <4>3 DEF Updated, Game
      <4>5. QED
        BY <2>3, <4>1, <4>2, <4>3, <4>4, UpdatedHides
    <3>2. CASE ~Kept(found[k])
      <4>1. objects[k] = found[k]
        BY <1>2, <3>2
      <4>2. QED
        BY <2>3, <2>4, <4>1 DEF Hides, Game
    <3>3. QED
      BY <3>1, <3>2
  <2>8. ASSUME NEW i \in 1 .. n
        PROVE  objects[i] = IF found[i].folder = current THEN Hides(found[i], x) ELSE found[i]
    <3>1. CASE found[i].folder = current
      <4>1. i = k
        <5>1. found[i].folder = found[k].folder
          BY <2>3, <3>1
        <5>2. \A a, b \in 1 .. n : found[a].folder = found[b].folder => a = b
          BY <1>1, <1>5 DEF Proper, Unique
        <5>3. QED
          BY <5>1, <5>2
      <4>2. QED
        BY <2>7, <3>1, <4>1
    <3>2. CASE found[i].folder # current
      <4>1. ~Kept(found[i])
        BY <3>2 DEF Kept
      <4>2. QED
        BY <1>2, <3>2, <4>1
    <3>3. QED
      BY <3>1, <3>2
  <2>9. objects = Marked(found, current, x)
    <3>1. objects = [i \in 1 .. n |-> objects[i]]
      BY <1>5
    <3>2. Marked(found, current, x) =
            [i \in 1 .. n |-> IF found[i].folder = current THEN Hides(found[i], x)
                              ELSE found[i]]
      BY DEF Marked, n
    <3>3. QED
      BY <2>8, <3>1, <3>2
  <2>10. QED
    BY <2>6, <2>9 DEF objects, now, later
<1>8. QED
  BY <1>6, <1>7

-----------------------------------------------------------------------------
(* The inductive invariant: what the files, the settings, the objects and    *)
(* the dialog hold.                                                         *)

Machine ==
  IsWorld(world) /\ finds = FindGameInstalls(world) /\ changes \in 0 .. MaxChanges
Disk == (file \in {NoFile, Truncated} \/ IsFile(file)) /\ IsFiniteSet(folders)
Recorded == DOMAIN settings = Fields /\ Proper(settings.games)
Objects == Proper(installed) /\ current \in Folders(installed) \cup {NoGame}
Window == DOMAIN view = {"game", "hidden"} /\ view.hidden \subseteq Messages
Inputs ==
  dialog # NoDialog =>
    running /\ DOMAIN dialog = {"default", "listed", "tabs"} /\ Proper(dialog.tabs)
History ==
  /\ running \in BOOLEAN /\ accepted \in {"always", "again", "failed"}
  /\ edits \in 0 .. MaxEdits /\ starts \in 0 .. MaxStarts

Inv ==
  Machine /\ Disk /\ Recorded /\ Objects /\ Window /\ Inputs /\ History

\* The bounds are numbers.
LEMMA BoundsAre == MaxChanges \in Nat /\ MaxEdits \in Nat /\ MaxStarts \in Nat
BY BoundsAssumption

\* The folders on the disk stay finitely many.
LEMMA FolderAdded ==
  ASSUME IsFiniteSet(folders), NEW f
  PROVE  IsFiniteSet(folders \cup ({f} \ {NoGame}))
<1>1. IsFiniteSet({f})
  BY FS_Singleton
<1>2. IsFiniteSet({f} \ {NoGame})
  BY <1>1, FS_Subset
<1>3. QED
  BY <1>2, FS_Union

\* No games are a proper list of games.
LEMMA EmptyProper == Proper(<<>>)
BY DEF Proper, Unique

\* The invariant holds at first.
LEMMA InitInv == Init => Inv
<1> SUFFICES ASSUME Init PROVE Inv
  OBVIOUS
<1> USE DEF Init, NotRunning
<1>1. Machine
  BY PathsAssumption, BoundsAre DEF Machine
<1>2. Disk
  BY FilesAssumption, FS_EmptySet DEF Disk
<1>3. Recorded
  BY EmptyProper DEF Recorded, Defaults, Fields
<1>4. Objects
  BY EmptyProper DEF Objects
<1>5. Window /\ Inputs
  BY DEF Window, Inputs, NoView
<1>6. History
  <2>1. running \in BOOLEAN /\ accepted \in {"always", "again", "failed"}
    BY Zenon
  <2>2. edits \in 0 .. MaxEdits /\ starts \in 0 .. MaxStarts
    BY BoundsAre
  <2>3. QED
    BY <2>1, <2>2 DEF History
<1>7. QED
  BY <1>1, <1>2, <1>3, <1>4, <1>5, <1>6 DEF Inv

\* What starting LOOT makes of the settings file.
LoadedBy(args) == OverridePath(Load(world, file), args)

\* What starting LOOT sets.
LEMMA StartIs ==
  ASSUME Inv, NEW args \in CommandLines, Start(args)
  PROVE  /\ Proper(LoadedBy(args).games)
         /\ settings'.games = FindInstalledGames(world, finds, LoadedBy(args).games)
         /\ Detects(LoadedBy(args).games, finds, settings'.games)
         /\ DOMAIN settings' = Fields /\ Proper(settings'.games)
         /\ installed' = InstalledOf(world, settings'.games) /\ Proper(installed')
         /\ current' \in Folders(installed') \cup {NoGame}
         /\ folders' = folders \cup ({current'} \ {NoGame})
         /\ \/ /\ current' # NoGame
               /\ view' = FirstView(installed', current')
            \/ view' = NoView
<1> DEFINE loaded == LoadedBy(args)
           games == FindInstalledGames(world, finds, loaded.games)
           found == InstalledOf(world, games)
           first == InitialGame(args.game, loaded, found)
<1>1. args.path \in Paths
  BY PathsAssumption
<1>2. DOMAIN Load(world, file) = Fields /\ Proper(Load(world, file).games)
  BY LoadIs DEF Inv, Disk
<1>3. DOMAIN loaded = Fields /\ Proper(loaded.games)
  BY <1>1, <1>2, OverridePathIs DEF LoadedBy
<1>4. finds \in Seq(Installation)
  BY FindsAre DEF Inv, Machine
<1>5. /\ settings' = [loaded EXCEPT !.games = games]
      /\ installed' = found /\ current' = first
      /\ folders' = folders \cup ({first} \ {NoGame})
      /\ (first # NoGame /\ view' = FirstView(found, first)) \/ view' = NoView
  BY DEF Start, LoadedBy
<1> HIDE DEF loaded
<1>6. Detects(loaded.games, finds, games)
  BY <1>3, <1>4, DetectsGames DEF Proper
<1> HIDE DEF games
<1>7. Proper(games)
  BY <1>3, <1>6 DEF Detects, Proper
<1>8. Proper(found)
  BY <1>7, InstalledOfIs
<1> HIDE DEF found
<1>9. first \in Folders(found) \cup {NoGame}
  BY <1>8, InitialGameIs
<1> HIDE DEF first
<1>10. DOMAIN settings' = Fields /\ settings'.games = games
  BY <1>3, <1>5 DEF Fields
<1>11. QED
  BY <1>3, <1>5, <1>6, <1>7, <1>8, <1>9, <1>10 DEF loaded, games, found

\* Starting LOOT keeps the invariant.
LEMMA StartInv ==
  ASSUME Inv, NEW args \in CommandLines, Start(args)
  PROVE  Inv'
<1>1. /\ DOMAIN settings' = Fields /\ Proper(settings'.games)
      /\ Proper(installed') /\ current' \in Folders(installed') \cup {NoGame}
      /\ folders' = folders \cup ({current'} \ {NoGame})
      /\ \/ current' # NoGame /\ view' = FirstView(installed', current')
         \/ view' = NoView
  BY StartIs
<1>2. Machine'
  BY DEF Inv, Machine, Start
<1>3. Disk'
  BY <1>1, FolderAdded DEF Inv, Disk, Start
<1>4. Recorded' /\ Objects'
  BY <1>1 DEF Recorded, Objects
<1>5. Window'
  <2>1. CASE view' = NoView
    BY <2>1 DEF Window, NoView
  <2>2. CASE current' # NoGame /\ view' = FirstView(installed', current')
    <3>1. PICK k \in 1 .. Len(installed') : Entry(installed', current') = installed'[k]
      BY <1>1, <2>2, EntryOf
    <3>2. installed'[k] \in Game
      BY <1>1, GamesAre DEF Proper
    <3>3. Entry(installed', current').hidden \subseteq Messages
      BY <3>1, <3>2 DEF Game
    <3>4. QED
      BY <2>2, <3>3 DEF Window, FirstView
  <2>3. QED
    BY <1>1, <2>1, <2>2
<1>6. Inputs' /\ History'
  BY BoundsAre DEF Inv, Inputs, History, Start
<1>7. QED
  BY <1>2, <1>3, <1>4, <1>5, <1>6 DEF Inv

\* Changing the game keeps it.
LEMMA ChangeGameInv ==
  ASSUME Inv, NEW f, ChangeGame(f)
  PROVE  Inv'
<1>1. current' = (IF f \in Folders(installed) THEN f ELSE NoGame) /\ installed' = installed
  BY DEF ChangeGame
<1>2. Objects'
  BY <1>1 DEF Inv, Objects
<1>3. Machine' /\ Recorded' /\ Inputs' /\ History'
  BY DEF ChangeGame, Inv, Machine, Recorded, Inputs, History
<1>4. Disk'
  BY FolderAdded DEF ChangeGame, Inv, Disk
<1>5. Window'
  BY DEF ChangeGame, ChangedView, Inv, Window
<1>6. QED
  BY <1>2, <1>3, <1>4, <1>5 DEF Inv

\* The current game hides other messages, in its object and its settings.
LEMMA SetHiddenIs ==
  ASSUME Inv, NEW hidden \in SUBSET Messages, NEW shown, SetHidden(hidden, shown)
  PROVE  /\ current' = current /\ current \in Folders(installed)
         /\ installed' = Marked(installed, current, hidden)
         /\ Proper(installed') /\ Folders(installed') = Folders(installed)
         /\ DOMAIN settings' = Fields /\ Proper(settings'.games)
         /\ settings'.games = IF current \in Folders(settings.games)
                              THEN Marked(settings.games, current, hidden)
                              ELSE settings.games
         /\ \A path : Has(settings.games, path) => Has(settings'.games, path)
<1>1. /\ current' = current /\ current \in Folders(installed)
      /\ Proper(installed) /\ DOMAIN settings = Fields /\ Proper(settings.games)
  BY DEF SetHidden, Inv, Objects, Recorded
<1>2. installed' = Marked(installed, current, hidden)
  BY <1>1, ReplaceIs DEF SetHidden
<1>3. Proper(installed') /\ Folders(installed') = Folders(installed)
  BY <1>1, <1>2, MarkedIs
<1>4. settings' = RecordHidden(settings, installed', current)
  BY <1>1 DEF SetHidden
<1>5. Entry(installed', current).hidden = hidden
  <2>1. PICK k \in 1 .. Len(installed') :
          installed'[k].folder = current /\ Entry(installed', current) = installed'[k]
    BY <1>1, <1>3, EntryOf
  <2>2. k \in 1 .. Len(installed) /\ installed[k].folder = current
    BY <1>1, <1>2, <2>1, MarkedIs
  <2>3. installed'[k] = Hides(installed[k], hidden) /\ installed[k] \in Game
    BY <1>1, <1>2, <2>2, GamesAre DEF Marked, Proper
  <2>4. QED
    BY <2>1, <2>3 DEF Hides, Game
<1>6. /\ DOMAIN settings' = Fields /\ Proper(settings'.games)
      /\ current \in Folders(settings.games) =>
           settings'.games = Marked(settings.games, current, hidden)
      /\ current \notin Folders(settings.games) => settings'.games = settings.games
      /\ \A path : Has(settings.games, path) => Has(settings'.games, path)
  <2> DEFINE later == RecordHidden(settings, installed', current)
             x == Entry(installed', current).hidden
  <2>1. Hiding(settings, installed', current, later)
    BY <1>1, <1>3, RecordHiddenIs
  <2>2. settings' = later /\ x = hidden /\ current \in Folders(installed')
    BY <1>1, <1>3, <1>4, <1>5
  <2> HIDE DEF later
  <2>3. QED
    BY <2>1, <2>2 DEF Hiding
<1>7. QED
  BY <1>1, <1>2, <1>3, <1>6

\* The actions that change what is hidden.
LEMMA HideIs ==
  ASSUME Inv, NEW m \in Messages, Hide(m)
  PROVE  \E hidden \in SUBSET Messages, shown \in SUBSET Messages :
           SetHidden(hidden, shown)
<1>1. PICK k \in 1 .. Len(installed) : Hidden = installed[k].hidden
  BY EntryOf DEF Inv, Objects, Hide, Hidden
<1>2. installed[k] \in Game
  BY GamesAre DEF Inv, Objects, Proper
<1>3. Hidden \cup {m} \in SUBSET Messages /\ view.hidden \cup {m} \in SUBSET Messages
  BY <1>1, <1>2 DEF Game, Inv, Window
<1>4. QED
  BY <1>3 DEF Hide

\* As above, for unhiding.
LEMMA UnhideIs ==
  ASSUME Inv, NEW ms, Unhide(ms)
  PROVE  \E hidden \in SUBSET Messages, shown \in SUBSET Messages :
           SetHidden(hidden, shown)
<1>1. PICK k \in 1 .. Len(installed) : Hidden = installed[k].hidden
  BY EntryOf DEF Inv, Objects, Unhide, Hidden
<1>2. installed[k] \in Game
  BY GamesAre DEF Inv, Objects, Proper
<1>3. Hidden \ ms \in SUBSET Messages
  BY <1>1, <1>2 DEF Game
<1>4. QED
  BY <1>3 DEF Unhide

\* Hiding or unhiding keeps the invariant.
LEMMA SetHiddenInv ==
  ASSUME Inv, NEW hidden \in SUBSET Messages, NEW shown \in SUBSET Messages,
         SetHidden(hidden, shown), edits' \in 0 .. MaxEdits
  PROVE  Inv'
<1>1. Recorded' /\ Objects'
  BY SetHiddenIs DEF Recorded, Objects
<1>2. Machine' /\ Disk' /\ Inputs' /\ History'
  BY DEF SetHidden, Ready, Inv, Machine, Disk, Inputs, History
<1>3. Window'
  BY DEF SetHidden, Inv, Window
<1>4. QED
  BY <1>1, <1>2, <1>3 DEF Inv

\* So do the actions that do it.
LEMMA HidingInv ==
  ASSUME Inv, (\E m \in Messages : Hide(m)) \/ UnhideAll \/ UnhideGeneral \/ UnhidePlugin
  PROVE  Inv'
<1>1. ASSUME NEW m \in Messages, Hide(m)
      PROVE  Inv'
  <2>1. edits' \in 0 .. MaxEdits
    BY <1>1, BoundsAre DEF Hide, Inv, History
  <2>2. QED
    BY <1>1, <2>1, HideIs, SetHiddenInv
<1>2. ASSUME NEW ms, Unhide(ms)
      PROVE  Inv'
  <2>1. edits' \in 0 .. MaxEdits
    BY <1>2 DEF Unhide, Inv, History
  <2>2. QED
    BY <1>2, <2>1, UnhideIs, SetHiddenInv
<1>3. QED
  BY <1>1, <1>2 DEF UnhideAll, UnhideGeneral, UnhidePlugin

InputFields == {"default", "listed", "tabs"}

\* The dialog's inputs when it opens.
LEMMA InputsAre ==
  ASSUME Inv
  PROVE  /\ DOMAIN InputsOf(settings) = InputFields
         /\ Proper(InputsOf(settings).tabs)
         /\ \A i \in 1 .. Len(settings.games) :
              HasTab(InputsOf(settings).tabs, settings.games[i].folder, settings.games[i].id)
<1> DEFINE tabs == [i \in DOMAIN settings.games |-> TabOf(settings.games[i])]
<1>1. /\ Proper(tabs)
      /\ \A i \in 1 .. Len(settings.games) :
           HasTab(tabs, settings.games[i].folder, settings.games[i].id)
  BY TabsAre DEF Inv, Recorded
<1>2. InputsOf(settings).tabs = tabs /\ DOMAIN InputsOf(settings) = InputFields
  BY DEF InputsOf, InputFields
<1>3. QED
  BY <1>1, <1>2

Edit == ChooseDefault \/ EditTab \/ DeleteGame \/ AddGame

\* Tabs stay proper, and the current game's tab stays.
Keeps(tabs, later) ==
  /\ Proper(later)
  /\ \A id : HasTab(tabs, current, id) => HasTab(later, current, id)

\* A name or a path that is edited keeps the tabs proper.
LEMMA EditTabKeeps ==
  ASSUME Inv, dialog # NoDialog, NEW k \in DOMAIN dialog.tabs
  PROVE  /\ \A n \in GameNames : Keeps(dialog.tabs, [dialog EXCEPT !.tabs[k].name = n].tabs)
         /\ \A p \in Paths : Keeps(dialog.tabs, [dialog EXCEPT !.tabs[k].path = p].tabs)
<1> DEFINE tabs == dialog.tabs
           t == tabs[k]
<1>1. Proper(tabs) /\ "tabs" \in DOMAIN dialog
  BY DEF Inv, Inputs
<1>2. t \in Game
  BY <1>1, GamesAre DEF Proper
<1>3. ASSUME NEW n \in GameNames
      PROVE  Keeps(tabs, [dialog EXCEPT !.tabs[k].name = n].tabs)
  <2> DEFINE u == [t EXCEPT !.name = n]
  <2>1. u \in Game /\ u.folder = t.folder /\ u.id = t.id
    BY <1>2 DEF Game
  <2>2. [dialog EXCEPT !.tabs[k].name = n].tabs = [tabs EXCEPT ![k] = u]
    BY <1>1
  <2> HIDE DEF u, tabs
  <2>3. Keeps(tabs, [tabs EXCEPT ![k] = u])
    BY <1>1, <2>1, TabEdited DEF Keeps, tabs
  <2>4. QED
    BY <2>2, <2>3
<1>4. ASSUME NEW p \in Paths
      PROVE  Keeps(tabs, [dialog EXCEPT !.tabs[k].path = p].tabs)
  <2> DEFINE u == [t EXCEPT !.path = p]
  <2>1. u \in Game /\ u.folder = t.folder /\ u.id = t.id
    BY <1>2 DEF Game
  <2>2. [dialog EXCEPT !.tabs[k].path = p].tabs = [tabs EXCEPT ![k] = u]
    BY <1>1
  <2> HIDE DEF u, tabs
  <2>3. Keeps(tabs, [tabs EXCEPT ![k] = u])
    BY <1>1, <2>1, TabEdited DEF Keeps, tabs
  <2>4. QED
    BY <2>2, <2>3
<1>5. QED
  BY <1>3, <1>4

\* A folder is derived that no tab has.
LEMMA NewFolderIs ==
  ASSUME Inv, dialog # NoDialog, NEW g \in Ids
  PROVE  NewFolder(g) \in GameNames /\ NewFolder(g) \notin Folders(dialog.tabs)
<1> DEFINE existing == Folders(dialog.tabs) \cup folders
<1>1. dialog.tabs \in Seq(Game) /\ IsFiniteSet(folders)
  BY DEF Inv, Inputs, Disk, Proper
<1>2. IsFiniteSet(Folders(dialog.tabs))
  BY <1>1, NamesAreFinite DEF Folders
<1>3. IsFiniteSet(existing)
  BY <1>1, <1>2, FS_Union
<1>4. g \in Range(Alphabetical) /\ "" \in Stores
  BY NamesAssumption DEF Stores
<1> HIDE DEF existing
<1>5. DeriveName(g, "", existing) \notin existing /\ DeriveName(g, "", existing) \in GameNames
  BY <1>3, <1>4, DeriveNameIs
<1>6. QED
  BY <1>5 DEF NewFolder, existing

\* The names that the user gives are names.
LEMMA CustomNameIs ==
  ASSUME NEW c \in CustomNames
  PROVE  Name(c, "", 0) \in GameNames
BY CustomNamesAssumption DEF Name, GameNames, Stores

\* What the edits in the dialog set.
LEMMA EditIs ==
  ASSUME Inv, Edit
  PROVE  /\ dialog # NoDialog
         /\ DOMAIN dialog' = InputFields
         /\ Keeps(dialog.tabs, dialog'.tabs)
         /\ edits' \in 0 .. MaxEdits
         /\ UNCHANGED <<world, finds, changes, file, folders, running, starts, settings,
                        installed, current, view, dropdown, accepted, detected>>
<1> DEFINE Rest == /\ edits' \in 0 .. MaxEdits
                   /\ UNCHANGED <<world, finds, changes, file, folders, running, starts,
                                  settings, installed, current, view, dropdown, accepted,
                                  detected>>
<1>1. ASSUME NEW d, EditInputs(d)
      PROVE  dialog' = d /\ Rest
  BY <1>1, BoundsAre DEF EditInputs, Inv, History
<1>2. dialog # NoDialog
  BY DEF Edit, ChooseDefault, EditTab, DeleteGame, AddGame, InDialog
<1>3. DOMAIN dialog = InputFields /\ Proper(dialog.tabs)
  BY <1>2 DEF Inv, Inputs, InputFields
<1> HIDE DEF Rest
<1>4. CASE ChooseDefault
  <2>1. PICK f : EditInputs([dialog EXCEPT !.default = f])
    BY <1>4 DEF ChooseDefault
  <2>2. dialog' = [dialog EXCEPT !.default = f] /\ Rest
    BY <1>1, <2>1
  <2>3. DOMAIN dialog' = InputFields /\ dialog'.tabs = dialog.tabs
    BY <1>3, <2>2 DEF InputFields
  <2>4. QED
    BY <1>2, <1>3, <2>2, <2>3 DEF Keeps, Rest
<1>5. CASE EditTab
  <2>1. PICK k \in DOMAIN dialog.tabs :
          \/ \E n \in {Name(c, "", 0) : c \in CustomNames} :
               EditInputs([dialog EXCEPT !.tabs[k].name = n])
          \/ \E p \in DOMAIN world.dirs \cup {NoPath} :
               EditInputs([dialog EXCEPT !.tabs[k].path = p])
    BY <1>5 DEF EditTab
  <2>2. ASSUME NEW c \in CustomNames,
               EditInputs([dialog EXCEPT !.tabs[k].name = Name(c, "", 0)])
        PROVE  DOMAIN dialog' = InputFields /\ Keeps(dialog.tabs, dialog'.tabs) /\ Rest
    <3>1. dialog' = [dialog EXCEPT !.tabs[k].name = Name(c, "", 0)] /\ Rest
      BY <1>1, <2>2
    <3>2. Keeps(dialog.tabs, [dialog EXCEPT !.tabs[k].name = Name(c, "", 0)].tabs)
      BY <1>2, CustomNameIs, EditTabKeeps
    <3>3. QED
      BY <1>3, <3>1, <3>2
  <2>3. ASSUME NEW p \in DOMAIN world.dirs \cup {NoPath},
               EditInputs([dialog EXCEPT !.tabs[k].path = p])
        PROVE  DOMAIN dialog' = InputFields /\ Keeps(dialog.tabs, dialog'.tabs) /\ Rest
    <3>1. dialog' = [dialog EXCEPT !.tabs[k].path = p] /\ Rest
      BY <1>1, <2>3
    <3>2. p \in Paths
      BY NoPathIsPath DEF Inv, Machine, IsWorld
    <3>3. Keeps(dialog.tabs, [dialog EXCEPT !.tabs[k].path = p].tabs)
      BY <1>2, <3>2, EditTabKeeps
    <3>4. QED
      BY <1>3, <3>1, <3>3
  <2>4. QED
    BY <1>2, <2>1, <2>2, <2>3 DEF Rest
<1>6. CASE DeleteGame
  <2>1. PICK k \in DOMAIN dialog.tabs :
          /\ dialog.tabs[k].folder # current
          /\ EditInputs([dialog EXCEPT !.tabs = RemoveAt(@, k)])
    BY <1>6 DEF DeleteGame
  <2>2. dialog' = [dialog EXCEPT !.tabs = RemoveAt(@, k)] /\ Rest
    BY <1>1, <2>1
  <2>3. DOMAIN dialog' = InputFields /\ dialog'.tabs = RemoveAt(dialog.tabs, k)
    BY <1>3, <2>2 DEF InputFields
  <2>4. Keeps(dialog.tabs, RemoveAt(dialog.tabs, k))
    BY <1>3, <2>1, TabRemoved DEF Keeps
  <2>5. QED
    BY <1>2, <2>2, <2>3, <2>4 DEF Rest
<1>7. CASE AddGame
  <2>1. PICK g \in Ids, c \in CustomNames :
          EditInputs([dialog EXCEPT !.tabs =
            Append(@, [GameSettings(g, NewFolder(g)) EXCEPT !.name = Name(c, "", 0)])])
    BY <1>7 DEF AddGame
  <2> DEFINE t == [GameSettings(g, NewFolder(g)) EXCEPT !.name = Name(c, "", 0)]
  <2>2. dialog' = [dialog EXCEPT !.tabs = Append(@, t)] /\ Rest
    BY <1>1, <2>1
  <2>3. t \in Game /\ t.folder = NewFolder(g)
    <3>1. NewFolder(g) \in GameNames /\ Name(c, "", 0) \in GameNames
      BY <1>2, NewFolderIs, CustomNameIs
    <3>2. "default" \in Sources
      BY DEF Sources
    <3>3. QED
      BY <3>1, <3>2, NoPathIsPath DEF GameSettings, Game
  <2> HIDE DEF t
  <2>4. DOMAIN dialog' = InputFields /\ dialog'.tabs = Append(dialog.tabs, t)
    BY <1>3, <2>2 DEF InputFields
  <2>5. t.folder \notin Folders(dialog.tabs)
    BY <1>2, <2>3, NewFolderIs
  <2>6. Keeps(dialog.tabs, Append(dialog.tabs, t))
    BY <1>3, <2>3, <2>5, TabAdded DEF Keeps
  <2>7. QED
    BY <1>2, <2>2, <2>4, <2>6 DEF Rest
<1>8. QED
  BY <1>4, <1>5, <1>6, <1>7 DEF Edit

\* Edits in the dialog keep the invariant.
LEMMA EditInv ==
  ASSUME Inv, Edit
  PROVE  Inv'
<1>1. /\ dialog # NoDialog /\ DOMAIN dialog' = InputFields
      /\ Keeps(dialog.tabs, dialog'.tabs) /\ edits' \in 0 .. MaxEdits
      /\ UNCHANGED <<world, finds, changes, file, folders, running, starts, settings,
                     installed, current, view, dropdown, accepted, detected>>
  BY EditIs
<1>2. Machine' /\ Disk' /\ Recorded' /\ Objects' /\ Window' /\ History'
  BY <1>1 DEF Inv, Machine, Disk, Recorded, Objects, Window, History
<1>3. Inputs'
  BY <1>1 DEF Inv, Inputs, Keeps, InputFields
<1>4. QED
  BY <1>2, <1>3 DEF Inv

\* Opening the dialog keeps it.
LEMMA OpenInv ==
  ASSUME Inv, OpenSettings
  PROVE  Inv'
<1>1. Inputs'
  BY InputsAre DEF OpenSettings, Ready, Inputs, InputFields
<1>2. Machine' /\ Disk' /\ Recorded' /\ Objects' /\ Window' /\ History'
  BY DEF OpenSettings, Inv, Machine, Disk, Recorded, Objects, Window, History
<1>3. QED
  BY <1>1, <1>2 DEF Inv

\* Cancelling the dialog keeps it.
LEMMA CancelInv ==
  ASSUME Inv, CancelSettings
  PROVE  Inv'
<1>1. Inputs'
  BY DEF CancelSettings, Inputs
<1>2. Machine' /\ Disk' /\ Recorded' /\ Objects' /\ Window' /\ History'
  BY DEF CancelSettings, Inv, Machine, Disk, Recorded, Objects, Window, History
<1>3. QED
  BY <1>1, <1>2 DEF Inv

\* What accepting the Settings dialog detects.
Detected == FindInstalledGames(world, finds, dialog.tabs)

\* What accepting the dialog sets, when it is cut short and when it is not.
LEMMA AcceptIs ==
  ASSUME Inv, AcceptSettings
  PROVE  /\ dialog # NoDialog /\ Proper(dialog.tabs)
         /\ Proper(Detected) /\ Detects(dialog.tabs, finds, Detected)
         /\ installed' = InstalledGames(Detected) /\ Proper(installed')
         /\ current' = CurrentAmong(InstalledGames(Detected))
         /\ current' \in Folders(installed') \cup {NoGame}
         /\ \/ /\ accepted' = "failed" /\ file' = file
               /\ DOMAIN settings' = Fields /\ settings'.games = settings.games
            \/ /\ accepted' = IF accepted = "always" THEN "always" ELSE "again"
               /\ file' = Saved(settings')
               /\ \E s : /\ DOMAIN s = Fields /\ s.games = Detected
                         /\ settings' = RecordHidden(s, InstalledGames(Detected),
                                                     CurrentAmong(InstalledGames(Detected)))
               /\ Hiding([settings EXCEPT !.games = Detected], installed', current', settings')
<1> DEFINE objects == InstalledGames(Detected)
           general == [settings EXCEPT !.game = dialog.default]
           s == [general EXCEPT !.games = Detected]
<1>1. dialog # NoDialog
  BY DEF AcceptSettings, InDialog
<1>2. Proper(dialog.tabs) /\ finds \in Seq(Installation)
  BY <1>1, FindsAre DEF Inv, Inputs, Machine
<1>3. Detects(dialog.tabs, finds, Detected)
  BY <1>2, DetectsGames DEF Proper, Detected
<1>4. Proper(Detected)
  BY <1>2, <1>3 DEF Detects, Proper
<1>5. Proper(objects)
  BY <1>4, InstalledGamesIs DEF Inv, Objects
<1>6. /\ installed' = objects /\ current' = CurrentAmong(objects)
      /\ \/ accepted' = "failed" /\ settings' = general /\ file' = file
         \/ /\ accepted' = (IF accepted = "always" THEN accepted ELSE "again")
            /\ settings' = RecordHidden(s, objects, current')
            /\ file' = Saved(settings')
  BY Zenon DEF AcceptSettings, Detected
<1>7. CurrentAmong(objects) \in Folders(objects) \cup {NoGame}
  BY DEF CurrentAmong
<1>8. DOMAIN settings = Fields /\ Proper(settings.games)
  BY DEF Inv, Recorded
<1>9. /\ DOMAIN general = Fields /\ general.games = settings.games
      /\ DOMAIN s = Fields /\ s.games = Detected
      /\ DOMAIN [settings EXCEPT !.games = Detected] = Fields
      /\ [settings EXCEPT !.games = Detected].games = Detected
  BY <1>8 DEF Fields
<1> HIDE DEF objects, general, s
<1>10. Hiding(s, objects, CurrentAmong(objects),
             RecordHidden(s, objects, CurrentAmong(objects)))
  BY <1>4, <1>5, <1>9, RecordHiddenIs
<1>11. \A c, later : Hiding(s, objects, c, later) =>
         Hiding([settings EXCEPT !.games = Detected], objects, c, later)
  BY <1>9 DEF Hiding
<1>12. CASE accepted' = "failed" /\ settings' = general /\ file' = file
  BY <1>1, <1>2, <1>3, <1>4, <1>5, <1>6, <1>7, <1>9, <1>12 DEF objects
<1>13. CASE /\ accepted' = (IF accepted = "always" THEN accepted ELSE "again")
            /\ settings' = RecordHidden(s, objects, current')
            /\ file' = Saved(settings')
  <2>1. settings' = RecordHidden(s, objects, CurrentAmong(objects))
    BY <1>6, <1>13
  <2>2. Hiding([settings EXCEPT !.games = Detected], objects, current', settings')
    BY <1>6, <1>10, <1>11, <2>1
  <2>3. \E r : /\ DOMAIN r = Fields /\ r.games = Detected
               /\ settings' = RecordHidden(r, objects, CurrentAmong(objects))
    BY <1>9, <2>1
  <2>4. accepted' = IF accepted = "always" THEN "always" ELSE "again"
    BY <1>13
  <2>5. QED
    BY <1>1, <1>2, <1>3, <1>4, <1>5, <1>6, <1>7, <1>13, <2>2, <2>3, <2>4 DEF objects
<1>14. QED
  BY <1>6, <1>12, <1>13

\* Accepting the dialog keeps the invariant.
LEMMA AcceptInv ==
  ASSUME Inv, AcceptSettings
  PROVE  Inv'
<1>1. /\ Proper(Detected)
      /\ Proper(installed') /\ current' \in Folders(installed') \cup {NoGame}
      /\ \/ /\ accepted' = "failed" /\ file' = file
            /\ DOMAIN settings' = Fields /\ settings'.games = settings.games
         \/ /\ accepted' = IF accepted = "always" THEN "always" ELSE "again"
            /\ file' = Saved(settings')
            /\ Hiding([settings EXCEPT !.games = Detected], installed', current', settings')
  BY AcceptIs, Zenon
<1>2. Recorded'
  BY <1>1 DEF Inv, Recorded, Hiding
<1>3. Objects'
  BY <1>1 DEF Objects
<1>4. Disk'
  <2>1. folders' = folders
    BY DEF AcceptSettings
  <2>2. file' = file \/ IsFile(file')
    BY <1>1, <1>2, SavedIs DEF Recorded
  <2>3. QED
    BY <2>1, <2>2 DEF Inv, Disk
<1>5. Machine' /\ Window' /\ Inputs'
  BY DEF AcceptSettings, Inv, Machine, Window, Inputs
<1>6. History'
  BY <1>1 DEF AcceptSettings, Inv, History
<1>7. QED
  BY <1>2, <1>3, <1>4, <1>5, <1>6 DEF Inv

\* The end of the program keeps it, with any file that can be loaded.
LEMMA StopInv ==
  ASSUME Inv, Stop, file' \in {NoFile, Truncated, file} \/ IsFile(file')
  PROVE  Inv'
<1>1. Recorded'
  BY EmptyProper DEF Stop, Recorded, Defaults, Fields
<1>2. Objects'
  BY EmptyProper DEF Stop, Objects
<1>3. Machine' /\ Disk'
  BY DEF Stop, Inv, Machine, Disk
<1>4. Window' /\ Inputs'
  BY DEF Stop, Window, NoView, Inputs
<1>5. History'
  BY DEF Stop, Inv, History
<1>6. QED
  BY <1>1, <1>2, <1>3, <1>4, <1>5 DEF Inv

\* Closing the window keeps it.
LEMMA CloseInv ==
  ASSUME Inv, Close
  PROVE  Inv'
<1> DEFINE last == IF current = NoGame THEN settings ELSE [settings EXCEPT !.lastGame = current]
           later == RecordHidden(last, installed, current)
<1>1. Stop /\ file' = Saved(later)
  BY Zenon DEF Close
<1>2. DOMAIN last = Fields /\ last.games = settings.games
  BY DEF Inv, Recorded, Fields
<1> HIDE DEF last
<1>3. Proper(last.games) /\ Proper(installed)
  BY <1>2 DEF Inv, Recorded, Objects
<1>4. DOMAIN later = Fields /\ Proper(later.games)
  BY <1>2, <1>3, RecordHiddenIs DEF Hiding
<1> HIDE DEF later
<1>5. IsFile(file')
  BY <1>1, <1>4, SavedIs
<1>6. QED
  BY <1>1, <1>5, StopInv

\* A kill keeps it.
LEMMA KillInv ==
  ASSUME Inv, Kill
  PROVE  Inv'
BY StopInv DEF Kill

\* A change of the machine keeps it.
LEMMA WorldInv ==
  ASSUME Inv, NEW w, IsWorld(w), ChangeWorld(w)
  PROVE  Inv'
<1>1. Machine'
  BY BoundsAre DEF ChangeWorld, Inv, Machine
<1>2. Disk' /\ Recorded' /\ Objects' /\ Window' /\ Inputs' /\ History'
  BY DEF ChangeWorld, appVars, Inv, Disk, Recorded, Objects, Window, Inputs, History
<1>3. QED
  BY <1>1, <1>2 DEF Inv

\* What installing or removing a game makes of the machine.
LEMMA WorldsAre ==
  ASSUME Inv, InstallGame \/ RemoveGame
  PROVE  \E w : IsWorld(w) /\ ChangeWorld(w)
<1>1. DOMAIN world = {"windows", "dirs", "claims"} /\ DOMAIN world.dirs \subseteq Paths
  BY DEF Inv, Machine, IsWorld
<1>2. CASE InstallGame
  <2>1. PICK c \in Claims : ChangeWorld([world EXCEPT
          !.claims = @ \cup {[launcher |-> c.launcher, id |-> c.id, root |-> c.root]},
          !.dirs = [p \in DOMAIN @ \cup {c.path} |->
                      IF p = c.path THEN [id |-> c.id, source |-> c.source] ELSE @[p]]])
    BY <1>2 DEF InstallGame
  <2> DEFINE w == [world EXCEPT
          !.claims = @ \cup {[launcher |-> c.launcher, id |-> c.id, root |-> c.root]},
          !.dirs = [p \in DOMAIN @ \cup {c.path} |->
                      IF p = c.path THEN [id |-> c.id, source |-> c.source] ELSE @[p]]]
  <2>2. DOMAIN w = DOMAIN world /\ DOMAIN w.dirs = DOMAIN world.dirs \cup {c.path}
    BY <1>1
  <2>3. c.path \in Paths
    BY PathsAssumption
  <2>4. ChangeWorld(w)
    BY <2>1
  <2> HIDE DEF w
  <2>5. QED
    BY <1>1, <2>2, <2>3, <2>4 DEF IsWorld
<1>3. CASE RemoveGame
  <2>1. PICK p \in DOMAIN world.dirs :
          ChangeWorld([world EXCEPT !.dirs = [q \in DOMAIN @ \ {p} |-> @[q]]])
    BY <1>3 DEF RemoveGame
  <2> DEFINE w == [world EXCEPT !.dirs = [q \in DOMAIN @ \ {p} |-> @[q]]]
  <2>2. DOMAIN w = DOMAIN world /\ DOMAIN w.dirs = DOMAIN world.dirs \ {p}
    BY <1>1
  <2>3. ChangeWorld(w)
    BY <2>1
  <2> HIDE DEF w
  <2>4. QED
    BY <1>1, <2>2, <2>3 DEF IsWorld
<1>4. QED
  BY <1>2, <1>3

\* Every step keeps the invariant.
LEMMA StepInv == Inv /\ [Next]_vars => Inv'
<1> SUFFICES ASSUME Inv, [Next]_vars PROVE Inv'
  OBVIOUS
<1>1. ASSUME NEW args \in CommandLines, Start(args)
      PROVE  Inv'
  BY <1>1, StartInv
<1>2. ASSUME NEW f \in dropdown, ChangeGame(f)
      PROVE  Inv'
  BY <1>2, ChangeGameInv
<1>3. CASE (\E m \in Messages : Hide(m)) \/ UnhideAll \/ UnhideGeneral \/ UnhidePlugin
  BY <1>3, HidingInv
<1>4. CASE OpenSettings
  BY <1>4, OpenInv
<1>5. CASE Edit
  BY <1>5, EditInv
<1>6. CASE CancelSettings
  BY <1>6, CancelInv
<1>7. CASE AcceptSettings
  BY <1>7, AcceptInv
<1>8. CASE Close
  BY <1>8, CloseInv
<1>9. CASE Kill
  BY <1>9, KillInv
<1>10. CASE InstallGame \/ RemoveGame
  BY <1>10, WorldsAre, WorldInv
<1>11. CASE UNCHANGED vars
  BY <1>11 DEF vars, appVars, Inv, Machine, Disk, Recorded, Objects, Window, Inputs, History
<1>12. QED
  BY <1>1, <1>2, <1>3, <1>4, <1>5, <1>6, <1>7, <1>8, <1>9, <1>10, <1>11, Zenon DEF Next, Edit

\* Whatever is started, detected, edited, saved, killed and loaded again, the
\* file can be loaded, and the lists of games in the settings, the objects and
\* the dialog have no folder twice.
THEOREM Invariant == Spec => []Inv
BY InitInv, StepInv, PTL DEF Spec

\* The state has its types: what is loaded from the settings file, found by
\* detection or entered in the Settings dialog are games, and the current game is
\* one of those that are installed.
THEOREM TypeCorrect == Spec => []TypeOK
<1>1. Inv => TypeOK
  BY DEF Inv, Machine, Recorded, Objects, Window, Inputs, History, TypeOK, Proper
<1>2. QED
  BY <1>1, Invariant, PTL

\* Games are told apart by their LOOT folder: neither detection's derived names
\* (deriveName, appendNewGamesSettings), nor the New Game dialog's, nor what is
\* loaded from a file that LOOT wrote ever give two games the same folder.
THEOREM FoldersStayUnique == Spec => []FoldersUnique
<1>1. Inv => FoldersUnique
  BY DEF Inv, Recorded, Objects, Inputs, FoldersUnique, Proper
<1>2. QED
  BY <1>1, Invariant, PTL

-----------------------------------------------------------------------------
(* Detection is stable: everything that the last detection found is          *)
(* configured, unless recording the Settings dialog was cut short.           *)

AllThere(games, fs) == \A j \in 1 .. Len(fs) : Has(games, fs[j].path)
FindsRecorded ==
  running /\ accepted # "failed" => AllThere(settings.games, FindGameInstalls(detected))

\* Every step keeps what detection has found among the settings.
LEMMA StepRecords ==
  ASSUME Inv, FindsRecorded, [Next]_vars
  PROVE  FindsRecorded'
<1> DEFINE fs == FindGameInstalls(detected)
<1>1. ASSUME NEW args \in CommandLines, Start(args)
      PROVE  FindsRecorded'
  <2>1. Detects(LoadedBy(args).games, finds, settings'.games)
    BY <1>1, StartIs
  <2>2. AllThere(settings'.games, finds)
    BY <2>1 DEF Detects, AllThere
  <2>3. detected' = world /\ finds = FindGameInstalls(world)
    BY <1>1 DEF Start, Inv, Machine
  <2>4. FindGameInstalls(detected') = finds
    BY <2>3
  <2>5. QED
    BY <2>2, <2>4 DEF FindsRecorded
<1>2. ASSUME NEW hidden \in SUBSET Messages, NEW shown \in SUBSET Messages,
             SetHidden(hidden, shown)
      PROVE  FindsRecorded'
  <2>1. \A path : Has(settings.games, path) => Has(settings'.games, path)
    BY <1>2, SetHiddenIs
  <2>2. UNCHANGED <<running, accepted, detected>>
    BY <1>2 DEF SetHidden
  <2>3. AllThere(settings.games, fs) => AllThere(settings'.games, fs)
    BY <2>1 DEF AllThere
  <2>4. QED
    BY <2>2, <2>3 DEF FindsRecorded
<1>3. CASE (\E m \in Messages : Hide(m)) \/ UnhideAll \/ UnhideGeneral \/ UnhidePlugin
  BY <1>2, <1>3, HideIs, UnhideIs DEF UnhideAll, UnhideGeneral, UnhidePlugin
<1>4. CASE AcceptSettings
  <2>1. CASE accepted' = "failed"
    BY <2>1 DEF FindsRecorded
  <2>2. CASE accepted' # "failed"
    <3>1. /\ Detects(dialog.tabs, finds, Detected)
          /\ Hiding([settings EXCEPT !.games = Detected], installed', current', settings')
      BY <1>4, <2>2, AcceptIs, Zenon
    <3>2. [settings EXCEPT !.games = Detected].games = Detected
      BY DEF Inv, Recorded, Fields
    <3>3. \A path : Has(Detected, path) => Has(settings'.games, path)
      BY <3>1, <3>2 DEF Hiding
    <3>4. AllThere(settings'.games, finds)
      BY <3>1, <3>3 DEF Detects, AllThere
    <3>5. detected' = world /\ finds = FindGameInstalls(world)
      BY <1>4 DEF AcceptSettings, Inv, Machine
    <3>6. FindGameInstalls(detected') = finds
      BY <3>5
    <3>7. QED
      BY <3>4, <3>6 DEF FindsRecorded
  <2>3. QED
    BY <2>1, <2>2
<1>5. CASE Close \/ Kill
  BY <1>5 DEF Close, Kill, Stop, FindsRecorded
<1>6. CASE UNCHANGED <<running, accepted, detected, settings>>
  BY <1>6 DEF FindsRecorded
<1>7. ASSUME (\E f \in dropdown : ChangeGame(f)) \/ OpenSettings \/ CancelSettings \/ Edit
             \/ InstallGame \/ RemoveGame \/ UNCHANGED vars
      PROVE  UNCHANGED <<running, accepted, detected, settings>>
  <2>1. (\E f \in dropdown : ChangeGame(f)) \/ OpenSettings \/ CancelSettings
          => UNCHANGED <<running, accepted, detected, settings>>
    BY DEF ChangeGame, OpenSettings, CancelSettings
  <2>2. Edit => UNCHANGED <<running, accepted, detected, settings>>
    BY EditIs
  <2>3. InstallGame \/ RemoveGame => UNCHANGED <<running, accepted, detected, settings>>
    BY WorldsAre DEF ChangeWorld, appVars
  <2>4. UNCHANGED vars => UNCHANGED <<running, accepted, detected, settings>>
    BY DEF vars, appVars
  <2>5. QED
    BY <1>7, <2>1, <2>2, <2>3, <2>4
<1>8. QED
  BY <1>1, <1>3, <1>4, <1>5, <1>6, <1>7, Zenon DEF Next, Edit

\* So detecting again on the same machine finds nothing new.
LEMMA StableIs == Inv /\ FindsRecorded => DetectionIsStable
<1> DEFINE games == settings.games
           n == Len(games)
           again == FindInstalledGames(world, finds, games)
           Located(gs) == {[folder |-> g.folder, path |-> g.path] : g \in Range(gs)}
<1>1. SUFFICES ASSUME Inv, FindsRecorded, Ready, accepted # "failed", world = detected
               PROVE  Len(again) = n /\ Located(again) = Located(games)
  BY Zenon DEF DetectionIsStable
<1>2. finds \in Seq(Installation) /\ finds = FindGameInstalls(detected)
      /\ games \in Seq(Game)
  BY <1>1, FindsAre DEF Inv, Machine, Recorded, Proper
<1>3. AllThere(games, finds)
  BY <1>1, <1>2 DEF FindsRecorded, Ready
<1>4. Detects(games, finds, again)
  BY <1>2, DetectsGames
<1>5. n \in Nat /\ DOMAIN games = 1 .. n
  BY <1>2
<1> HIDE DEF games, again, n
<1>6. again \in Seq(Game) /\ Len(again) = n
  BY <1>3, <1>4 DEF Detects, AllThere, n
<1>7. PICK h \in [1 .. n -> 1 .. n] :
        /\ \A i \in 1 .. n : /\ again[i].folder = games[h[i]].folder
                             /\ again[i].path = games[h[i]].path
        /\ \A k \in 1 .. n : \E i \in 1 .. n : h[i] = k
  BY <1>3, <1>4 DEF Detects, AllThere, n
<1>8. DOMAIN again = 1 .. n
  BY <1>6
<1> DEFINE L(g) == [folder |-> g.folder, path |-> g.path]
<1>9. \A i \in 1 .. n : L(again[i]) = L(games[h[i]])
  BY <1>7
<1> HIDE DEF L
<1>10. Located(again) = {L(again[i]) : i \in 1 .. n}
  BY <1>8 DEF L, Range
<1>11. Located(games) = {L(games[i]) : i \in 1 .. n}
  BY <1>5 DEF L, Range
<1>12. Located(again) = Located(games)
  <2>1. ASSUME NEW i \in 1 .. n
        PROVE  L(again[i]) \in {L(games[j]) : j \in 1 .. n}
    <3>1. h[i] \in 1 .. n /\ L(again[i]) = L(games[h[i]])
      BY <1>7, <1>9
    <3>2. QED
      BY <3>1
  <2>2. ASSUME NEW k \in 1 .. n
        PROVE  L(games[k]) \in {L(again[i]) : i \in 1 .. n}
    <3>1. PICK i \in 1 .. n : h[i] = k
      BY <1>7
    <3>2. L(again[i]) = L(games[k])
      BY <1>9, <3>1
    <3>3. QED
      BY <3>2
  <2>3. {L(again[i]) : i \in 1 .. n} = {L(games[i]) : i \in 1 .. n}
    BY <2>1, <2>2
  <2> HIDE DEF Located
  <2>4. QED
    BY <1>10, <1>11, <2>3
<1>13. QED
  BY <1>6, <1>12

\* Detecting games again on a machine that has not changed adds no game and moves
\* none (findInstalledGames), however the settings were edited and saved between:
\* each find is at a configured path, so updateMatchingSettings leaves no find
\* over, and sortByName only reorders.
THEOREM DetectionStable == Spec => []DetectionIsStable
<1>1. Init => FindsRecorded
  BY DEF Init, NotRunning, FindsRecorded
<1>2. Inv /\ FindsRecorded /\ [Next]_vars => FindsRecorded'
  BY StepRecords
<1>3. QED
  BY <1>1, <1>2, Invariant, StableIs, PTL DEF Spec

-----------------------------------------------------------------------------
(* The copies of the settings agree.                                        *)

CurrentTab ==
  dialog # NoDialog /\ accepted = "always" /\ current # NoGame =>
    HasTab(dialog.tabs, current, Entry(installed, current).id)

Agreement == CopiesAgree /\ CurrentTab

\* Hiding changes the object and the settings alike.
LEMMA SetHiddenAgrees ==
  ASSUME Inv, Agreement, NEW hidden \in SUBSET Messages, NEW shown \in SUBSET Messages,
         SetHidden(hidden, shown)
  PROVE  Agreement'
<1>1. /\ current \in Folders(installed)
      /\ installed' = Marked(installed, current, hidden)
      /\ settings'.games = IF current \in Folders(settings.games)
                           THEN Marked(settings.games, current, hidden)
                           ELSE settings.games
  BY SetHiddenIs
<1>2. dialog' = NoDialog /\ UNCHANGED <<running, accepted, detected>>
  BY DEF SetHidden, Ready
<1>3. Proper(settings.games)
  BY DEF Inv, Recorded
<1>4. ASSUME installed = InstalledOf(detected, settings.games)
      PROVE  installed' = InstalledOf(detected, settings'.games)
  <2>1. current \in Folders(settings.games)
    BY <1>1, <1>3, <1>4, InstalledOfIs
  <2>2. InstalledOf(detected, Marked(settings.games, current, hidden))
          = Marked(InstalledOf(detected, settings.games), current, hidden)
    BY <1>3, InstalledMarked
  <2>3. QED
    BY <1>1, <1>4, <2>1, <2>2
<1>5. CopiesAgree'
  BY <1>2, <1>4 DEF Agreement, CopiesAgree
<1>6. CurrentTab'
  BY <1>2 DEF CurrentTab
<1>7. QED
  BY <1>5, <1>6 DEF Agreement

\* The dialog opens with a tab for the current game.
LEMMA OpenAgrees ==
  ASSUME Inv, Agreement, OpenSettings
  PROVE  Agreement'
<1>1. /\ dialog' = InputsOf(settings) /\ running
      /\ UNCHANGED <<running, settings, installed, current, accepted, detected>>
  BY DEF OpenSettings, Ready
<1>2. CopiesAgree'
  BY <1>1 DEF Agreement, CopiesAgree
<1>3. ASSUME accepted = "always", current # NoGame
      PROVE  HasTab(dialog'.tabs, current, Entry(installed, current).id)
  <2>1. installed = InstalledOf(detected, settings.games)
    BY <1>1, <1>3 DEF Agreement, CopiesAgree
  <2>2. PICK k \in 1 .. Len(installed) :
          installed[k].folder = current /\ Entry(installed, current) = installed[k]
    BY <1>3, EntryOf DEF Inv, Objects
  <2>3. PICK i \in 1 .. Len(settings.games) : installed[k] = settings.games[i]
    BY <2>1, InstalledOfIs DEF Inv, Recorded
  <2>4. HasTab(InputsOf(settings).tabs, settings.games[i].folder, settings.games[i].id)
    BY InputsAre
  <2>5. QED
    BY <1>1, <2>2, <2>3, <2>4
<1>4. QED
  BY <1>1, <1>2, <1>3 DEF Agreement, CurrentTab

\* Accepting the dialog sets objects that are what is recorded.
LEMMA AcceptAgrees ==
  ASSUME Inv, Agreement, AcceptSettings
  PROVE  Agreement'
<1> DEFINE e == Entry(installed, current)
<1>1. dialog' = NoDialog /\ detected' = world /\ running' = running
  BY DEF AcceptSettings
<1>2. CurrentTab'
  BY <1>1 DEF CurrentTab
<1>3. ASSUME accepted' = "always"
      PROVE  installed' = InstalledOf(world, settings'.games)
  <2>1. /\ dialog # NoDialog /\ Proper(dialog.tabs)
        /\ Proper(Detected) /\ Detects(dialog.tabs, finds, Detected)
        /\ installed' = InstalledGames(Detected)
    BY AcceptIs
  <2>2. /\ accepted' = IF accepted = "always" THEN "always" ELSE "again"
        /\ \E s : /\ DOMAIN s = Fields /\ s.games = Detected
                  /\ settings' = RecordHidden(s, InstalledGames(Detected),
                                              CurrentAmong(InstalledGames(Detected)))
    <3>1. accepted' # "failed"
      BY <1>3
    <3>2. QED
      BY <3>1, AcceptIs, Zenon
  <2>3. accepted = "always"
    BY <1>3, <2>2
  <2>4. ASSUME NEW i \in 1 .. Len(Detected), Detected[i].folder = current
        PROVE  Detected[i].id = e.id
    <3>1. Detected[i] \in Game
      BY <2>1, GamesAre DEF Proper
    <3>2. current # NoGame
      BY <2>4, <3>1, NoGameAssumption DEF Game
    <3>3. PICK j \in 1 .. Len(dialog.tabs) :
            dialog.tabs[j].folder = current /\ dialog.tabs[j].id = e.id
      BY <2>1, <2>3, <3>2 DEF Agreement, CurrentTab, HasTab
    <3>4. PICK l \in 1 .. Len(Detected) : FilledIn(dialog.tabs[j], Detected[l])
      BY <2>1 DEF Detects
    <3>5. Detected[l].folder = current /\ Detected[l].id = e.id
      BY <3>3, <3>4 DEF FilledIn
    <3>6. i = l
      BY <2>1, <2>4, <3>5, GamesAre DEF Proper, Unique
    <3>7. QED
      BY <3>5, <3>6
  <2>5. PICK s : /\ DOMAIN s = Fields /\ s.games = Detected
                 /\ settings' = RecordHidden(s, InstalledGames(Detected),
                                             CurrentAmong(InstalledGames(Detected)))
    BY <2>2
  <2> HIDE DEF e
  <2>6. InstalledOf(world, RecordHidden(s, InstalledGames(Detected),
                                        CurrentAmong(InstalledGames(Detected))).games)
          = InstalledGames(Detected)
    BY <2>1, <2>4, <2>5, RecordedAgree DEF Inv, Objects, e
  <2>7. QED
    BY <2>1, <2>5, <2>6
<1>4. CopiesAgree'
  BY <1>1, <1>3 DEF CopiesAgree
<1>5. QED
  BY <1>2, <1>4 DEF Agreement

\* Every step keeps the agreement.
LEMMA StepAgrees ==
  ASSUME Inv, Agreement, [Next]_vars
  PROVE  Agreement'
<1>1. ASSUME NEW args \in CommandLines, Start(args)
      PROVE  Agreement'
  <2>1. installed' = InstalledOf(world, settings'.games)
    BY <1>1, StartIs
  <2>2. detected' = world /\ dialog' = NoDialog
    BY <1>1 DEF Start
  <2>3. QED
    BY <2>1, <2>2 DEF Agreement, CopiesAgree, CurrentTab
<1>2. ASSUME NEW f, ChangeGame(f)
      PROVE  Agreement'
  BY <1>2 DEF ChangeGame, Ready, Agreement, CopiesAgree, CurrentTab
<1>3. CASE (\E m \in Messages : Hide(m)) \/ UnhideAll \/ UnhideGeneral \/ UnhidePlugin
  BY <1>3, HideIs, UnhideIs, SetHiddenAgrees DEF UnhideAll, UnhideGeneral, UnhidePlugin
<1>4. CASE OpenSettings
  BY <1>4, OpenAgrees
<1>5. CASE Edit
  <2>1. /\ dialog # NoDialog /\ Keeps(dialog.tabs, dialog'.tabs)
        /\ UNCHANGED <<running, settings, installed, current, accepted, detected>>
    BY <1>5, EditIs
  <2>2. CopiesAgree'
    BY <2>1 DEF Agreement, CopiesAgree
  <2>3. CurrentTab'
    BY <2>1 DEF Agreement, CurrentTab, Keeps
  <2>4. QED
    BY <2>2, <2>3 DEF Agreement
<1>6. CASE CancelSettings
  BY <1>6 DEF CancelSettings, Agreement, CopiesAgree, CurrentTab
<1>7. CASE AcceptSettings
  BY <1>7, AcceptAgrees
<1>8. CASE Close \/ Kill
  BY <1>8 DEF Close, Kill, Stop, Agreement, CopiesAgree, CurrentTab
<1>9. ASSUME UNCHANGED <<running, appVars>>
      PROVE  Agreement'
  BY <1>9 DEF appVars, Agreement, CopiesAgree, CurrentTab
<1>10. CASE InstallGame \/ RemoveGame
  <2>1. UNCHANGED <<running, appVars>>
    BY <1>10, WorldsAre DEF ChangeWorld
  <2>2. QED
    BY <1>9, <2>1
<1>11. CASE UNCHANGED vars
  BY <1>9, <1>11 DEF vars
<1>12. QED
  BY <1>1, <1>2, <1>3, <1>4, <1>5, <1>6, <1>7, <1>8, <1>10, <1>11, Zenon DEF Next, Edit

\* Until an error cuts recording the Settings dialog short, the Game objects of
\* GamesManager hold what LootSettings records for the games that were found: the
\* current game's object that setInstalledGames keeps, and what it hides, too.
THEOREM CopiesStayAlike == Spec => []CopiesAgree
<1>1. Init => Agreement
  BY DEF Init, NotRunning, Agreement, CopiesAgree, CurrentTab
<1>2. Inv /\ Agreement /\ [Next]_vars => Agreement'
  BY StepAgrees
<1>3. Agreement => CopiesAgree
  BY DEF Agreement
<1>4. QED
  BY <1>1, <1>2, <1>3, Invariant, PTL DEF Spec

-----------------------------------------------------------------------------
(* Detection keeps what is configured.                                      *)

\* What detection keeps is kept by what only hides other messages.
LEMMA ConfiguredBy ==
  ASSUME NEW games \in Seq(Game), NEW fs, NEW found, Detects(games, fs, found),
         NEW later \in Seq(Game), Len(later) = Len(found),
         \A i \in 1 .. Len(found) : \A g : FilledIn(g, found[i]) => FilledIn(g, later[i])
  PROVE  Configured(games, later)
<1>1. DOMAIN games = 1 .. Len(games) /\ DOMAIN later = 1 .. Len(later)
  OBVIOUS
<1>2. ASSUME NEW i \in 1 .. Len(games)
      PROVE  \E j \in 1 .. Len(later) : FilledIn(games[i], later[j])
  BY DEF Detects
<1>3. ASSUME NEW g \in Range(games)
      PROVE  \E h \in Range(later) : FilledIn(g, h)
  BY <1>1, <1>2 DEF Range
<1>4. QED
  BY <1>3 DEF Configured, FilledIn

\* What a game hides has no part in what detection fills.
LEMMA MarkedFills ==
  ASSUME NEW games, Proper(games), NEW f, NEW x \in SUBSET Messages
  PROVE  \A i \in 1 .. Len(games) : \A g :
           FilledIn(g, games[i]) => FilledIn(g, Marked(games, f, x)[i])
<1>1. ASSUME NEW i \in 1 .. Len(games), NEW g, FilledIn(g, games[i])
      PROVE  FilledIn(g, Marked(games, f, x)[i])
  <2>1. games[i] \in Game
    BY GamesAre DEF Proper
  <2>2. Marked(games, f, x)[i] \in {games[i], Hides(games[i], x)}
    BY DEF Marked
  <2>3. FilledIn(g, Hides(games[i], x))
    BY <1>1, <2>1 DEF Hides, FilledIn, Game
  <2>4. QED
    BY <1>1, <2>2, <2>3
<1>2. QED
  BY <1>1

\* The property, of one step.
KeepsConfigured ==
  /\ ~running /\ running' =>
       \E args \in CommandLines :
         /\ Start(args)
         /\ Configured(OverridePath(Load(world, file), args).games, settings'.games)
  /\ dialog # NoDialog /\ settings'.games # settings.games /\ running' =>
       Configured(dialog.tabs, settings'.games)

\* Every step keeps what is configured.
LEMMA StepKeeps ==
  ASSUME Inv, [Next]_vars
  PROVE  KeepsConfigured
<1>1. ASSUME NEW args \in CommandLines, Start(args)
      PROVE  KeepsConfigured
  <2>1. /\ LoadedBy(args).games \in Seq(Game) /\ settings'.games \in Seq(Game)
        /\ Detects(LoadedBy(args).games, finds, settings'.games)
    BY <1>1, StartIs DEF Proper
  <2>2. Configured(LoadedBy(args).games, settings'.games)
    BY <2>1, ConfiguredBy
  <2>3. dialog = NoDialog
    BY <1>1 DEF Start, Inv, Inputs
  <2>4. QED
    BY <1>1, <2>2, <2>3 DEF KeepsConfigured, LoadedBy
<1>2. CASE AcceptSettings
  <2>1. /\ dialog # NoDialog /\ Proper(dialog.tabs)
        /\ Proper(Detected) /\ Detects(dialog.tabs, finds, Detected)
        /\ Proper(installed')
        /\ \/ settings'.games = settings.games
           \/ Hiding([settings EXCEPT !.games = Detected], installed', current', settings')
    BY <1>2, AcceptIs
  <2>2. running' = running
    BY <1>2 DEF AcceptSettings
  <2>3. ASSUME Hiding([settings EXCEPT !.games = Detected], installed', current', settings')
        PROVE  Configured(dialog.tabs, settings'.games)
    <3> DEFINE x == Entry(installed', current').hidden
    <3>1. [settings EXCEPT !.games = Detected].games = Detected
      BY DEF Inv, Recorded, Fields
    <3>2. /\ Proper(settings'.games)
          /\ \/ /\ current' \in Folders(installed')
                /\ settings'.games = Marked(Detected, current', x)
             \/ settings'.games = Detected
      BY <2>3, <3>1 DEF Hiding
    <3>3. CASE settings'.games = Detected
      BY <2>1, <3>3, ConfiguredBy DEF Proper
    <3>4. CASE /\ current' \in Folders(installed')
               /\ settings'.games = Marked(Detected, current', x)
      <4>1. PICK k \in 1 .. Len(installed') : Entry(installed', current') = installed'[k]
        BY <2>1, <3>4, EntryOf
      <4>2. installed'[k] \in Game
        BY <2>1, GamesAre DEF Proper
      <4>3. x \in SUBSET Messages
        BY <4>1, <4>2 DEF Game
      <4> HIDE DEF x
      <4> DEFINE later == Marked(Detected, current', x)
      <4>4. /\ \A i \in 1 .. Len(Detected) : \A g :
                 FilledIn(g, Detected[i]) => FilledIn(g, later[i])
            /\ Len(later) = Len(Detected) /\ later \in Seq(Game)
        BY <2>1, <4>3, MarkedFills, MarkedIs DEF Proper
      <4> HIDE DEF later
      <4>5. Configured(dialog.tabs, later)
        BY <2>1, <4>4, ConfiguredBy DEF Proper
      <4>6. QED
        BY <3>4, <4>5 DEF later
    <3>5. QED
      BY <3>2, <3>3, <3>4
  <2>4. QED
    BY <2>1, <2>2, <2>3 DEF KeepsConfigured
<1>3. CASE (\E m \in Messages : Hide(m)) \/ UnhideAll \/ UnhideGeneral \/ UnhidePlugin
  BY <1>3, HideIs, UnhideIs DEF UnhideAll, UnhideGeneral, UnhidePlugin, SetHidden, Ready,
     KeepsConfigured
<1>4. CASE Close \/ Kill
  BY <1>4 DEF Close, Kill, Stop, KeepsConfigured
<1>5. ASSUME UNCHANGED <<running, settings>>
      PROVE  KeepsConfigured
  BY <1>5 DEF KeepsConfigured
<1>6. ASSUME (\E f \in dropdown : ChangeGame(f)) \/ OpenSettings \/ CancelSettings \/ Edit
             \/ InstallGame \/ RemoveGame \/ UNCHANGED vars
      PROVE  UNCHANGED <<running, settings>>
  <2>1. (\E f \in dropdown : ChangeGame(f)) \/ OpenSettings \/ CancelSettings
          => UNCHANGED <<running, settings>>
    BY DEF ChangeGame, OpenSettings, CancelSettings
  <2>2. Edit => UNCHANGED <<running, settings>>
    BY EditIs
  <2>3. InstallGame \/ RemoveGame => UNCHANGED <<running, settings>>
    BY WorldsAre DEF ChangeWorld, appVars
  <2>4. UNCHANGED vars => UNCHANGED <<running, settings>>
    BY DEF vars, appVars
  <2>5. QED
    BY <1>6, <2>1, <2>2, <2>3, <2>4
<1>7. QED
  BY <1>1, <1>2, <1>3, <1>4, <1>5, <1>6, Zenon DEF Next, Edit

\* Detection keeps every configured game, at start-up and when the Settings dialog
\* is accepted, with its folder, kind, name and masterlist source, and any path
\* that was not empty.
THEOREM ConfiguredStays == Spec => ConfiguredGamesKept
<1>1. Inv /\ [Next]_vars => KeepsConfigured
  BY StepKeeps
<1>2. QED
  BY <1>1, Invariant, PTL DEF Spec, ConfiguredGamesKept, KeepsConfigured
=============================================================================
