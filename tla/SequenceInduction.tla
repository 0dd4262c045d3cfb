------------------------- MODULE SequenceInduction -------------------------
(***************************************************************************)
(* Induction over numbers and sequences, and what the folds of the         *)
(* community modules compute.  A theorem cannot be applied to an operator  *)
(* here, so what varies is a constant of this module, which is             *)
(* instantiated for each operator that it is used for.                     *)
(***************************************************************************)
EXTENDS Naturals, Sequences

CONSTANTS
  Step(_, _),  \* what is folded
  Holds(_, _)  \* what is shown of all numbers, or of all sequences, in a context

\* Every set of numbers has a least one: what an induction rests on.  It is proved once, in
\* the module that instantiates this one.
WellOrdered == \A S \in SUBSET Nat : S # {} => \E m \in S : \A k \in S : m <= k

\* Induction over the numbers.
THEOREM ByNumber ==
  ASSUME WellOrdered, NEW c, Holds(c, 0), \A n \in Nat : Holds(c, n) => Holds(c, n + 1)
  PROVE  \A n \in Nat : Holds(c, n)
<1> DEFINE S == {n \in Nat : ~ Holds(c, n)}
<1> SUFFICES ASSUME S # {} PROVE FALSE
  OBVIOUS
<1>1. PICK m \in S : \A k \in S : m <= k
  BY DEF WellOrdered
<1>2. m # 0 /\ m \in Nat
  OBVIOUS
<1>3. m - 1 \in Nat /\ m - 1 \notin S /\ (m - 1) + 1 = m
  BY <1>1, <1>2
<1>4. Holds(c, m)
  BY <1>3
<1> QED
  BY <1>4

\* Induction over the sequences, which are built from the left.
THEOREM BySequence ==
  ASSUME WellOrdered, NEW c, NEW T, Holds(c, <<>>),
         \A s \in Seq(T), e \in T : Holds(c, s) => Holds(c, Append(s, e))
  PROVE  \A s \in Seq(T) : Holds(c, s)
<1> DEFINE S == {Len(s) : s \in {t \in Seq(T) : ~ Holds(c, t)}}
<1> SUFFICES ASSUME S # {} PROVE FALSE
  OBVIOUS
<1>1. PICK m \in S : \A k \in S : m <= k
  <2>1. S \in SUBSET Nat
    OBVIOUS
  <2> HIDE DEF S
  <2> QED
    BY <2>1 DEF WellOrdered
<1>2. PICK s \in Seq(T) : ~ Holds(c, s) /\ m = Len(s)
  OBVIOUS
<1>3. s # <<>>
  BY <1>2
<1> DEFINE front == SubSeq(s, 1, Len(s) - 1)
           last == s[Len(s)]
<1>4. front \in Seq(T) /\ last \in T /\ s = Append(front, last) /\ Len(front) = m - 1
  BY <1>2, <1>3
<1>5. Holds(c, front)
  <2>0. m \in Nat /\ ~ (m <= m - 1)
    BY <1>2
  <2>1. m - 1 \notin S
    BY <1>1, <2>0
  <2> QED
    BY <1>4, <2>1
<1> QED
  BY <1>2, <1>4, <1>5

-----------------------------------------------------------------------------
(* What folding a sequence from the left computes.                         *)

\* The greatest element of a set of numbers.
Greatest(t) == CHOOSE x \in t : \A y \in t : x >= y

\* The function on the subsets of an interval that a fold is defined by.
Folds(iter, base, s, positions) ==
  iter = [t \in SUBSET positions |->
            IF t = {} THEN base ELSE Step(iter[t \ {Greatest(t)}], s[Greatest(t)])]

\* Folding from the left: FoldLeft(Step, base, s) with its definitions expanded.
Fold(base, s) == (CHOOSE iter : Folds(iter, base, s, DOMAIN s))[DOMAIN s]

\* An interval's greatest number is its bound.
LEMMA GreatestOfInterval ==
  ASSUME NEW n \in Nat, NEW t \in SUBSET (1 .. n + 1), n + 1 \in t
  PROVE  Greatest(t) = n + 1
<1>1. \A x \in t : n + 1 >= x
  OBVIOUS
<1>2. \A m \in t : (\A x \in t : m >= x) => m = n + 1
  OBVIOUS
<1> QED
  BY <1>1, <1>2 DEF Greatest

\* There is such a function.
LEMMA FoldsExists ==
  ASSUME WellOrdered, NEW base, NEW s
  PROVE  \A n \in Nat : \E iter : Folds(iter, base, s, 1 .. n)
<1> DEFINE S == {n \in Nat : ~ \E iter : Folds(iter, base, s, 1 .. n)}
<1> SUFFICES ASSUME S # {} PROVE FALSE
  OBVIOUS
<1>1. PICK m \in S : \A k \in S : m <= k
  BY DEF WellOrdered
<1>2. m # 0
  <2>1. 1 .. 0 = {}
    OBVIOUS
  <2>2. Folds([t \in SUBSET (1 .. 0) |-> base], base, s, 1 .. 0)
    BY <2>1 DEF Folds
  <2> QED
    BY <2>2
<1>3. PICK k \in Nat : m = k + 1
  BY <1>2
<1>4. PICK old : Folds(old, base, s, 1 .. k)
  <2>1. ~ (m <= k)
    BY <1>3
  <2> QED
    BY <1>1, <2>1
<1> DEFINE new == [t \in SUBSET (1 .. k + 1) |->
                     IF k + 1 \in t THEN Step(old[t \ {k + 1}], s[k + 1]) ELSE old[t]]
<1>5. ASSUME NEW t \in SUBSET (1 .. k + 1)
      PROVE  new[t] = IF t = {} THEN base ELSE Step(new[t \ {Greatest(t)}], s[Greatest(t)])
  <2>1. CASE k + 1 \in t
    <3>1. Greatest(t) = k + 1
      BY <2>1, GreatestOfInterval
    <3>2. t \ {k + 1} \in SUBSET (1 .. k + 1) /\ k + 1 \notin t \ {k + 1}
      OBVIOUS
    <3>3. new[t \ {k + 1}] = old[t \ {k + 1}]
      BY <3>2
    <3> QED
      BY <2>1, <3>1, <3>3
  <2>2. CASE k + 1 \notin t
    <3>1. t \in SUBSET (1 .. k)
      BY <2>2
    <3>2. old[t] = IF t = {} THEN base ELSE Step(old[t \ {Greatest(t)}], s[Greatest(t)])
      BY <1>4, <3>1 DEF Folds
    <3>3. t \ {Greatest(t)} \in SUBSET (1 .. k + 1) /\ k + 1 \notin t \ {Greatest(t)}
      BY <2>2
    <3>4. new[t] = old[t] /\ new[t \ {Greatest(t)}] = old[t \ {Greatest(t)}]
      BY <2>2, <3>3
    <3> QED
      BY <3>2, <3>4
  <2> QED
    BY <2>1, <2>2
<1>6. Folds(new, base, s, 1 .. k + 1)
  BY <1>5 DEF Folds
<1> QED
  BY <1>3, <1>6

\* What that function is on the intervals that begin at 1.
Unfolds(iter, base, s, n) ==
  /\ iter[1 .. 0] = base
  /\ \A k \in Nat : k < n => iter[1 .. k + 1] = Step(iter[1 .. k], s[k + 1])

\* This is what it is.
LEMMA FoldsStep ==
  ASSUME NEW base, NEW s, NEW n \in Nat, NEW iter, Folds(iter, base, s, 1 .. n)
  PROVE  Unfolds(iter, base, s, n)
<1>1. ASSUME NEW t \in SUBSET (1 .. n)
      PROVE  iter[t] = IF t = {} THEN base ELSE Step(iter[t \ {Greatest(t)}], s[Greatest(t)])
  BY DEF Folds
<1>2. 1 .. 0 = {}
  OBVIOUS
<1>3. ASSUME NEW k \in Nat, k < n PROVE iter[1 .. k + 1] = Step(iter[1 .. k], s[k + 1])
  <2>1. 1 .. k + 1 \in SUBSET (1 .. n) /\ k + 1 \in 1 .. k + 1
    BY <1>3
  <2>2. Greatest(1 .. k + 1) = k + 1
    BY <2>1, GreatestOfInterval
  <2>3. (1 .. k + 1) \ {k + 1} = 1 .. k
    OBVIOUS
  <2> QED
    BY <1>1, <2>1, <2>2, <2>3
<1> QED
  BY <1>1, <1>2, <1>3 DEF Unfolds

\* Nothing is folded.
THEOREM FoldEmpty ==
  ASSUME WellOrdered, NEW base
  PROVE  Fold(base, <<>>) = base
<1>1. DOMAIN <<>> = 1 .. 0
  OBVIOUS
<1> DEFINE none == CHOOSE iter : Folds(iter, base, <<>>, 1 .. 0)
<1>2. Fold(base, <<>>) = none[1 .. 0]
  BY <1>1 DEF Fold
<1>3. \E iter : Folds(iter, base, <<>>, 1 .. 0)
  BY FoldsExists
<1>4. Folds(none, base, <<>>, 1 .. 0)
  BY <1>3
<1> HIDE DEF none
<1>5. Unfolds(none, base, <<>>, 0)
  BY <1>4, FoldsStep
<1> QED
  BY <1>2, <1>5 DEF Unfolds

\* One element more is folded.
THEOREM FoldAppend ==
  ASSUME WellOrdered, NEW base, NEW T, NEW s \in Seq(T), NEW e \in T
  PROVE  Fold(base, Append(s, e)) = Step(Fold(base, s), e)
<1> DEFINE n == Len(s)
           new == Append(s, e)
           one == CHOOSE iter : Folds(iter, base, s, 1 .. n)
           two == CHOOSE iter : Folds(iter, base, new, 1 .. n + 1)
<1>1. /\ n \in Nat /\ DOMAIN s = 1 .. n /\ DOMAIN new = 1 .. n + 1 /\ new[n + 1] = e
      /\ \A i \in 1 .. n : new[i] = s[i]
  OBVIOUS
<1> HIDE DEF new, n
<1>2. n + 1 \in Nat
  BY <1>1
<1>7. Folds(one, base, s, 1 .. n) /\ Folds(two, base, new, 1 .. n + 1)
  <2>1. \E iter : Folds(iter, base, s, 1 .. n)
    BY <1>1, FoldsExists
  <2>2. \E iter : Folds(iter, base, new, 1 .. n + 1)
    BY <1>2, FoldsExists
  <2> QED
    BY <2>1, <2>2
<1>3. Fold(base, s) = one[1 .. n] /\ Fold(base, new) = two[1 .. n + 1]
  <2>1. Fold(base, s) = one[1 .. n]
    BY <1>1 DEF Fold
  <2>2. Fold(base, new) = two[1 .. n + 1]
    BY <1>1 DEF Fold
  <2> QED
    BY <2>1, <2>2
<1> HIDE DEF one, two
<1>4. Unfolds(one, base, s, n) /\ Unfolds(two, base, new, n + 1)
  <2>1. Unfolds(one, base, s, n)
    BY <1>1, <1>7, FoldsStep
  <2>2. Unfolds(two, base, new, n + 1)
    BY <1>2, <1>7, FoldsStep
  <2> QED
    BY <2>1, <2>2
<1>5. one[1 .. n] = two[1 .. n]
  <2> DEFINE S == {k \in 0 .. n : one[1 .. k] # two[1 .. k]}
  <2> SUFFICES ASSUME S # {} PROVE FALSE
    BY <1>1
  <2>1. PICK m \in S : \A k \in S : m <= k
    <3>1. S \in SUBSET Nat
      BY <1>1
    <3> HIDE DEF S
    <3> QED
      BY <3>1 DEF WellOrdered
  <2>2. PICK k \in Nat : m = k + 1 /\ k < n
    BY <1>1, <1>4 DEF Unfolds
  <2>3. one[1 .. k] = two[1 .. k]
    <3>1. ~ (m <= k) /\ k \in 0 .. n
      BY <1>1, <2>2
    <3> QED
      BY <2>1, <3>1
  <2>4. new[k + 1] = s[k + 1] /\ k < n + 1
    BY <1>1, <2>2
  <2> QED
    BY <1>4, <2>2, <2>3, <2>4 DEF Unfolds
<1>6. two[1 .. n + 1] = Step(two[1 .. n], e)
  BY <1>1, <1>4 DEF Unfolds
<1> QED
  BY <1>3, <1>5, <1>6 DEF new

\* What is folded in two parts.
THEOREM FoldConcat ==
  ASSUME WellOrdered, NEW base, NEW T, NEW s \in Seq(T), NEW t \in Seq(T)
  PROVE  Fold(base, s \o t) = Fold(Fold(base, s), t)
<1> DEFINE Bad == {r \in Seq(T) : Fold(base, s \o r) # Fold(Fold(base, s), r)}
           S == {Len(r) : r \in Bad}
<1> SUFFICES ASSUME S # {} PROVE FALSE
  OBVIOUS
<1>1. PICK m \in S : \A k \in S : m <= k
  <2>1. S \in SUBSET Nat
    OBVIOUS
  <2> HIDE DEF S
  <2> QED
    BY <2>1 DEF WellOrdered
<1>2. PICK r \in Bad : m = Len(r)
  OBVIOUS
<1>3. r \in Seq(T) /\ Fold(base, s \o r) # Fold(Fold(base, s), r)
  BY <1>2
<1>4. r # <<>>
  <2>1. s \o <<>> = s
    OBVIOUS
  <2> QED
    BY <1>3, <2>1, FoldEmpty
<1> DEFINE front == SubSeq(r, 1, Len(r) - 1)
           last == r[Len(r)]
<1>5. front \in Seq(T) /\ last \in T /\ r = Append(front, last) /\ Len(front) = m - 1
  BY <1>2, <1>3, <1>4
<1>6. Fold(base, s \o front) = Fold(Fold(base, s), front)
  <2>1. m \in Nat /\ ~ (m <= m - 1)
    BY <1>2, <1>3
  <2>2. m - 1 \notin S
    BY <1>1, <2>1
  <2> QED
    BY <1>5, <2>2
<1>7. s \o r = Append(s \o front, last) /\ s \o front \in Seq(T)
  <2> HIDE DEF front, last
  <2> QED
    BY <1>5
<1> HIDE DEF front, last, Bad, S
<1>8. Fold(base, s \o r) = Step(Fold(base, s \o front), last)
  <2> DEFINE whole == s \o front
  <2>1. whole \in Seq(T) /\ last \in T
    BY <1>5, <1>7
  <2> HIDE DEF whole
  <2>2. Fold(base, Append(whole, last)) = Step(Fold(base, whole), last)
    BY <2>1, FoldAppend
  <2> QED
    BY <1>7, <2>2 DEF whole
<1>9. Fold(Fold(base, s), r) = Step(Fold(Fold(base, s), front), last)
  BY <1>5, FoldAppend
<1> QED
  BY <1>3, <1>6, <1>8, <1>9

=============================================================================
