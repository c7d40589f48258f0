------------------------------ MODULE Folding ------------------------------
(***************************************************************************)
(* Folding a sequence from the left, as the replay of a log does, and      *)
(* induction over the natural numbers: lemmas for the proof modules.       *)
(*                                                                         *)
(* The induction theorems of the library take the induction hypothesis as  *)
(* an operator.  Here it is a set, the numbers it holds for, and induction *)
(* comes from WFMin: a set of numbers that is not empty has a least one.   *)
(* What is folded with is a parameter of the module, given by INSTANCE.    *)
(***************************************************************************)
EXTENDS Integers, Sequences, SequencesExt, SequenceTheorems,
        WellFoundedInduction, TLAPS

CONSTANT op(_, _)  \* what is folded with: the result so far, the next element

Fold(base, seq) == FoldLeft(op, base, seq)

-----------------------------------------------------------------------------
(* Induction.                                                              *)

\* A set of numbers that is not empty has a least element.
LEMMA LeastNatural ==
  ASSUME NEW T, T \subseteq Nat, T # {}
  PROVE  \E x \in T : \A y \in T : x <= y
<1> DEFINE R == {ss \in Nat \X Nat : ss[1] < ss[2]}
<1>1. IsWellFoundedOn(R, Nat)
  BY NatLessThanWellFounded DEF OpToRel
<1> HIDE DEF R
<1>2. PICK x \in T : \A y \in T : ~(<<y, x>> \in R)
  BY <1>1, WFMin, Zenon
<1>3. \A y \in T : ~(y < x)
  BY <1>2 DEF R
<1> QED BY <1>3

\* A set that holds zero, and with a number the next, holds every number.
LEMMA NatSetInduction ==
  ASSUME NEW T, 0 \in T, \A n \in Nat : n \in T => n + 1 \in T
  PROVE  Nat \subseteq T
<1>1. SUFFICES ASSUME Nat \ T # {} PROVE FALSE
  OBVIOUS
<1>2. PICK x \in Nat \ T : \A y \in Nat \ T : x <= y
  BY <1>1, LeastNatural
<1>3. x - 1 \in Nat /\ x - 1 \notin T
  BY <1>2
<1> QED BY <1>2, <1>3

-----------------------------------------------------------------------------
(* The table of partial results FoldLeft is defined by.                    *)

\* The partial results of a fold, by the set of the places folded.
Entry(g, base, seq, s) ==
  IF s = {} THEN base ELSE op(g[s \ {Max(s)}], seq[Max(s)])
Tabulates(g, base, seq, n) ==
  g = [s \in SUBSET (1..n) |-> Entry(g, base, seq, s)]
Table(base, seq) ==
  CHOOSE g : g = [s \in SUBSET DOMAIN seq |->
                   IF s = {} THEN base ELSE op(g[s \ {Max(s)}], seq[Max(s)])]

\* A fold is the last entry of its table.
LEMMA FoldIsTabulated ==
  ASSUME NEW base, NEW seq
  PROVE  Fold(base, seq) = Table(base, seq)[DOMAIN seq]
BY DEF Fold, FoldLeft, MapThenFoldSet, Table

\* A set of places that is not empty has a last one.
LEMMA MaxOfPlaces ==
  ASSUME NEW n \in Nat, NEW s \in SUBSET (1..n), s # {}
  PROVE  Max(s) \in s /\ \A y \in s : Max(s) >= y
<1> DEFINE T == {n - y : y \in s}
<1>1. T \subseteq Nat /\ T # {}
  <2>1. \A y \in s : y \in 1..n
    OBVIOUS
  <2>2. \A y \in 1..n : n - y \in Nat
    OBVIOUS
  <2> QED BY <2>1, <2>2
<1>2. PICK x \in T : \A y \in T : x <= y
  BY <1>1, LeastNatural
<1>3. PICK z \in s : x = n - z
  BY <1>2
<1>4. \A y \in s : n - y \in T
  OBVIOUS
<1> HIDE DEF T
<1>5. \A y \in s : z >= y
  BY <1>2, <1>3, <1>4
<1> QED BY <1>5 DEF Max

\* The last of the first places.
LEMMA MaxOfFirst ==
  ASSUME NEW n \in Nat, NEW k \in Nat, k + 1 <= n
  PROVE  1..(k+1) \in SUBSET (1..n) /\ 1..(k+1) # {} /\ Max(1..(k+1)) = k + 1
<1>1. \A y \in 1..(k+1) : y \in 1..n
  OBVIOUS
<1>2. k + 1 \in 1..(k+1)
  OBVIOUS
<1>3. 1..(k+1) \in SUBSET (1..n) /\ 1..(k+1) # {}
  BY <1>1, <1>2, Zenon
<1> DEFINE m == Max(1..(k+1))
<1>4. m \in 1..(k+1) /\ \A y \in 1..(k+1) : m >= y
  BY <1>3, MaxOfPlaces
<1>5. m >= k + 1
  BY <1>2, <1>4
<1> HIDE DEF m
<1>6. m = k + 1
  BY <1>4, <1>5
<1> QED BY <1>3, <1>6 DEF m

\* A table of the first n places gives one of the first n + 1.
LEMMA TableExtends ==
  ASSUME NEW base, NEW seq, NEW n \in Nat, NEW g, Tabulates(g, base, seq, n)
  PROVE  \E h : Tabulates(h, base, seq, n + 1)
<1> DEFINE h == [s \in SUBSET (1..(n+1)) |->
                   IF n + 1 \in s THEN op(g[s \ {n+1}], seq[n+1]) ELSE g[s]]
<1>1. ASSUME NEW s \in SUBSET (1..(n+1)), n + 1 \notin s
      PROVE  s \in SUBSET (1..n) /\ h[s] = g[s] /\ g[s] = Entry(g, base, seq, s)
  <2>1. s \in SUBSET (1..n)
    BY <1>1
  <2> QED BY <1>1, <2>1 DEF Tabulates
<1>2. ASSUME NEW s \in SUBSET (1..(n+1))
      PROVE  h[s] = Entry(h, base, seq, s)
  <2>1. CASE n + 1 \in s
    <3>1. Max(s) = n + 1
      <4>1. n + 1 \in Nat /\ s # {}
        BY <2>1
      <4>2. Max(s) \in s /\ Max(s) >= n + 1
        BY <2>1, <4>1, MaxOfPlaces
      <4>3. Max(s) \in 1..(n+1)
        BY <4>2
      <4> QED BY <4>2, <4>3
    <3>2. s \ {n+1} \in SUBSET (1..(n+1)) /\ n + 1 \notin s \ {n+1}
      OBVIOUS
    <3>3. h[s \ {n+1}] = g[s \ {n+1}]
      BY <3>2, <1>1
    <3>4. h[s] = op(g[s \ {n+1}], seq[n+1])
      BY <2>1
    <3> HIDE DEF h
    <3> QED BY <2>1, <3>1, <3>3, <3>4 DEF Entry
  <2>2. CASE n + 1 \notin s
    <3>1. CASE s = {}
      BY <2>2, <3>1, <1>1 DEF Entry
    <3>2. CASE s # {}
      <4>1. s \in SUBSET (1..n)
        BY <1>1, <2>2
      <4>2. s \ {Max(s)} \in SUBSET (1..(n+1)) /\ n + 1 \notin s \ {Max(s)}
        BY <2>2
      <4>3. h[s \ {Max(s)}] = g[s \ {Max(s)}]
        BY <4>2, <1>1
      <4>4. h[s] = g[s] /\ g[s] = Entry(g, base, seq, s)
        BY <2>2, <1>1
      <4> HIDE DEF h
      <4> QED BY <3>2, <4>3, <4>4 DEF Entry
    <3> QED BY <3>1, <3>2
  <2> QED BY <2>1, <2>2
<1>3. DOMAIN h = SUBSET (1..(n+1)) /\ h = [s \in DOMAIN h |-> h[s]]
  OBVIOUS
<1> HIDE DEF h
<1>4. h = [s \in SUBSET (1..(n+1)) |-> Entry(h, base, seq, s)]
  BY <1>2, <1>3
<1> QED BY <1>4 DEF Tabulates

\* So there is a table for any number of places.
LEMMA TableExists ==
  ASSUME NEW base, NEW seq, NEW n \in Nat
  PROVE  \E g : Tabulates(g, base, seq, n)
<1> DEFINE T == {k \in Nat : \E g : Tabulates(g, base, seq, k)}
<1>1. 0 \in T
  <2> DEFINE g == [s \in SUBSET (1..0) |-> base]
  <2>1. \A s \in SUBSET (1..0) : s = {}
    OBVIOUS
  <2>2. g = [s \in SUBSET (1..0) |-> Entry(g, base, seq, s)]
    BY <2>1 DEF Entry
  <2> QED BY <2>2 DEF Tabulates
<1>2. \A k \in Nat : k \in T => k + 1 \in T
  BY TableExtends
<1> HIDE DEF T
<1>3. n \in T
  BY <1>1, <1>2, NatSetInduction
<1> QED BY <1>3 DEF T

\* And the one FoldLeft chooses is one.
LEMMA TableDef ==
  ASSUME NEW S, NEW seq \in Seq(S), NEW base
  PROVE  Tabulates(Table(base, seq), base, seq, Len(seq))
<1> DEFINE P(g) == g = [s \in SUBSET DOMAIN seq |->
                   IF s = {} THEN base ELSE op(g[s \ {Max(s)}], seq[Max(s)])]
<1>1. DOMAIN seq = 1..Len(seq) /\ Len(seq) \in Nat
  OBVIOUS
<1>2. \A g : P(g) <=> Tabulates(g, base, seq, Len(seq))
  BY <1>1 DEF Tabulates, Entry
<1>3. \E g : P(g)
  BY <1>1, <1>2, TableExists
<1>4. P(CHOOSE g : P(g))
  BY <1>3
<1>5. Table(base, seq) = CHOOSE g : P(g)
  BY DEF Table
<1> QED BY <1>2, <1>4, <1>5

-----------------------------------------------------------------------------
(* The laws of folding.                                                    *)

\* Nothing to fold leaves the result as it is.
LEMMA FoldEmpty ==
  \A base : Fold(base, <<>>) = base
<1> SUFFICES ASSUME NEW base PROVE Fold(base, <<>>) = base
  OBVIOUS
<1>1. Tabulates(Table(base, <<>>), base, <<>>, 0)
  BY TableDef, <<>> \in Seq({}), Len(<<>>) = 0
<1>2. Table(base, <<>>)[{}] = Entry(Table(base, <<>>), base, <<>>, {})
  BY <1>1 DEF Tabulates
<1>3. DOMAIN <<>> = {}
  OBVIOUS
<1> QED BY <1>2, <1>3, FoldIsTabulated DEF Entry

\* The last element is folded last.
LEMMA FoldAppend ==
  \A S : \A seq \in Seq(S) : \A e \in S : \A base :
    Fold(base, Append(seq, e)) = op(Fold(base, seq), e)
<1> SUFFICES ASSUME NEW S, NEW seq \in Seq(S), NEW e \in S, NEW base
             PROVE  Fold(base, Append(seq, e)) = op(Fold(base, seq), e)
  BY Zenon
<1> DEFINE n == Len(seq)
           longer == Append(seq, e)
           f == Table(base, seq)
           h == Table(base, longer)
<1>1. n \in Nat /\ longer \in Seq(S) /\ Len(longer) = n + 1
  OBVIOUS
<1>2. longer[n + 1] = e /\ \A i \in 1..n : longer[i] = seq[i]
  OBVIOUS
<1>3. Tabulates(f, base, seq, n)
  BY TableDef
<1>4. Tabulates(h, base, longer, n + 1)
  BY <1>1, TableDef
<1>5. DOMAIN seq = 1..n /\ DOMAIN longer = 1..(n+1)
  OBVIOUS
<1> DEFINE T == {k \in Nat : k > n \/ h[1..k] = f[1..k]}
<1> HIDE DEF n, longer, f, h
<1>6. ASSUME NEW k \in Nat, k + 1 <= n + 1
      PROVE  h[1..(k+1)] = op(h[1..k], longer[k+1])
  <2>1. 1..(k+1) \in SUBSET (1..(n+1)) /\ 1..(k+1) # {}
    BY <1>1, <1>6, MaxOfFirst
  <2>2. Max(1..(k+1)) = k + 1
    BY <1>1, <1>6, MaxOfFirst
  <2>3. (1..(k+1)) \ {k+1} = 1..k
    OBVIOUS
  <2>4. h[1..(k+1)] = Entry(h, base, longer, 1..(k+1))
    BY <1>4, <2>1 DEF Tabulates
  <2> QED BY <2>1, <2>2, <2>3, <2>4 DEF Entry
<1>7. ASSUME NEW k \in Nat, k + 1 <= n
      PROVE  f[1..(k+1)] = op(f[1..k], seq[k+1])
  <2>1. 1..(k+1) \in SUBSET (1..n) /\ 1..(k+1) # {}
    BY <1>1, <1>7, MaxOfFirst
  <2>2. Max(1..(k+1)) = k + 1
    BY <1>1, <1>7, MaxOfFirst
  <2>3. (1..(k+1)) \ {k+1} = 1..k
    OBVIOUS
  <2>4. f[1..(k+1)] = Entry(f, base, seq, 1..(k+1))
    BY <1>3, <2>1 DEF Tabulates
  <2> QED BY <2>1, <2>2, <2>3, <2>4 DEF Entry
<1>8. 0 \in T
  <2>1. 1..0 = {} /\ {} \in SUBSET (1..n) /\ {} \in SUBSET (1..(n+1))
    OBVIOUS
  <2>2. h[{}] = base
    BY <1>4, <2>1 DEF Tabulates, Entry
  <2>3. f[{}] = base
    BY <1>3, <2>1 DEF Tabulates, Entry
  <2> QED BY <2>1, <2>2, <2>3
<1>9. ASSUME NEW k \in Nat, k \in T PROVE k + 1 \in T
  <2>1. CASE k + 1 > n
    BY <2>1
  <2>2. CASE k + 1 <= n
    <3>1. h[1..k] = f[1..k]
      BY <1>9, <2>2, <1>1
    <3>2. k + 1 \in 1..n
      BY <2>2, <1>1
    <3>3. longer[k+1] = seq[k+1]
      BY <3>2, <1>2 DEF n
    <3>4. h[1..(k+1)] = op(h[1..k], longer[k+1])
      BY <2>2, <1>1, <1>6
    <3>5. f[1..(k+1)] = op(f[1..k], seq[k+1])
      BY <2>2, <1>7
    <3> QED BY <3>1, <3>3, <3>4, <3>5
  <2> QED BY <2>1, <2>2, <1>1
<1> HIDE DEF T
<1>10. n \in T
  BY <1>1, <1>8, <1>9, NatSetInduction
<1>11. h[1..n] = f[1..n]
  BY <1>1, <1>10 DEF T
<1>12. h[1..(n+1)] = op(f[1..n], e)
  BY <1>1, <1>2, <1>6, <1>11 DEF longer, n
<1>13. Fold(base, longer) = h[1..(n+1)]
  BY <1>5, FoldIsTabulated DEF longer, h, n
<1>14. Fold(base, seq) = f[1..n]
  BY <1>5, FoldIsTabulated DEF f, n
<1> QED BY <1>12, <1>13, <1>14 DEF longer

\* One element is folded in one application.
LEMMA FoldOne ==
  \A base, e : Fold(base, <<e>>) = op(base, e)
<1> SUFFICES ASSUME NEW base, NEW e PROVE Fold(base, <<e>>) = op(base, e)
  BY Zenon
<1>1. <<>> \in Seq({e}) /\ <<e>> = Append(<<>>, e)
  OBVIOUS
<1>2. Fold(base, Append(<<>>, e)) = op(Fold(base, <<>>), e)
  BY <1>1, FoldAppend
<1> QED BY <1>1, <1>2, FoldEmpty

\* Two sequences in a row are folded one after the other.
LEMMA FoldConcat ==
  \A S : \A one, two \in Seq(S) : \A base :
    Fold(base, one \o two) = Fold(Fold(base, one), two)
<1> SUFFICES ASSUME NEW S, NEW one \in Seq(S), NEW two \in Seq(S), NEW base
             PROVE  Fold(base, one \o two) = Fold(Fold(base, one), two)
  BY Zenon
<1> DEFINE P(n) == Fold(base, one \o SubSeq(two, 1, n)) = Fold(Fold(base, one), SubSeq(two, 1, n))
           T == {n \in Nat : n <= Len(two) => P(n)}
<1>1. 0 \in T
  <2>1. SubSeq(two, 1, 0) = <<>> /\ one \o <<>> = one
    OBVIOUS
  <2> QED BY <2>1, FoldEmpty
<1>2. ASSUME NEW n \in Nat, n \in T PROVE n + 1 \in T
  <2>1. SUFFICES ASSUME n + 1 <= Len(two) PROVE P(n + 1)
    OBVIOUS
  <2> DEFINE part == SubSeq(two, 1, n)
             e == two[n + 1]
  <2>2. part \in Seq(S) /\ e \in S
    BY <2>1
  <2>3. SubSeq(two, 1, n + 1) = Append(part, e)
    BY <2>1
  <2>4. one \o Append(part, e) = Append(one \o part, e) /\ one \o part \in Seq(S)
    BY <2>2
  <2>5. P(n)
    BY <1>2, <2>1
  <2> HIDE DEF part, e
  <2>6. Fold(base, Append(one \o part, e)) = op(Fold(base, one \o part), e)
    BY <2>2, <2>4, FoldAppend
  <2>7. Fold(Fold(base, one), Append(part, e)) = op(Fold(Fold(base, one), part), e)
    BY <2>2, FoldAppend
  <2> QED BY <2>3, <2>4, <2>5, <2>6, <2>7 DEF part
<1> HIDE DEF T
<1>3. Len(two) \in T
  BY <1>1, <1>2, NatSetInduction
<1>4. P(Len(two))
  BY <1>3 DEF T
<1>5. SubSeq(two, 1, Len(two)) = two
  OBVIOUS
<1> QED BY <1>4, <1>5

\* What every application keeps, the fold keeps.
LEMMA FoldStays ==
  \A S, X : (\A x \in X, e \in S : op(x, e) \in X) =>
            \A seq \in Seq(S), base \in X : Fold(base, seq) \in X
<1> SUFFICES ASSUME NEW S, NEW X, \A x \in X, e \in S : op(x, e) \in X,
                    NEW seq \in Seq(S), NEW base \in X
             PROVE  Fold(base, seq) \in X
  BY Zenon
<1> DEFINE T == {n \in Nat : n <= Len(seq) => Fold(base, SubSeq(seq, 1, n)) \in X}
<1>1. 0 \in T
  <2>1. SubSeq(seq, 1, 0) = <<>>
    OBVIOUS
  <2> QED BY <2>1, FoldEmpty
<1>2. ASSUME NEW n \in Nat, n \in T PROVE n + 1 \in T
  <2>1. SUFFICES ASSUME n + 1 <= Len(seq) PROVE Fold(base, SubSeq(seq, 1, n + 1)) \in X
    OBVIOUS
  <2> DEFINE part == SubSeq(seq, 1, n)
             e == seq[n + 1]
  <2>2. part \in Seq(S) /\ e \in S
    BY <2>1
  <2>3. SubSeq(seq, 1, n + 1) = Append(part, e)
    BY <2>1
  <2>4. Fold(base, part) \in X
    BY <1>2, <2>1
  <2> HIDE DEF part, e
  <2> QED BY <2>2, <2>3, <2>4, FoldAppend
<1> HIDE DEF T
<1>3. Len(seq) \in T
  BY <1>1, <1>2, NatSetInduction
<1>4. SubSeq(seq, 1, Len(seq)) = seq /\ Len(seq) \in Nat
  OBVIOUS
<1>5. Len(seq) <= Len(seq) => Fold(base, SubSeq(seq, 1, Len(seq))) \in X
  BY <1>3 DEF T
<1>6. Len(seq) <= Len(seq)
  BY <1>4
<1>7. Fold(base, SubSeq(seq, 1, Len(seq))) \in X
  BY <1>5, <1>6
<1> QED BY <1>4, <1>7

\* A fold gathers what each element brings: what a result has is a function of it,
\* and so is what an element brings.
Gathers(S, X, has, brings) ==
  \A x \in X, e \in S : op(x, e) \in X /\ has[op(x, e)] = has[x] \cup brings[e]

Brought(brings, seq) == UNION {brings[seq[i]] : i \in 1..Len(seq)}

LEMMA FoldGathers ==
  \A S, X, has, brings : Gathers(S, X, has, brings) =>
    \A seq \in Seq(S), base \in X :
      /\ Fold(base, seq) \in X
      /\ has[Fold(base, seq)] = has[base] \cup Brought(brings, seq)
<1> SUFFICES ASSUME NEW S, NEW X, NEW has, NEW brings, Gathers(S, X, has, brings),
                    NEW seq \in Seq(S), NEW base \in X
             PROVE  /\ Fold(base, seq) \in X
                    /\ has[Fold(base, seq)] = has[base] \cup Brought(brings, seq)
  BY Zenon
<1> DEFINE part(n) == SubSeq(seq, 1, n)
           P(n) == /\ Fold(base, part(n)) \in X
                   /\ has[Fold(base, part(n))] = has[base] \cup Brought(brings, part(n))
           T == {n \in Nat : n <= Len(seq) => P(n)}
<1>1. 0 \in T
  <2>1. part(0) = <<>>
    OBVIOUS
  <2>2. Brought(brings, <<>>) = {}
    BY DEF Brought
  <2> QED BY <2>1, <2>2, FoldEmpty
<1>2. ASSUME NEW n \in Nat, n \in T PROVE n + 1 \in T
  <2>1. SUFFICES ASSUME n + 1 <= Len(seq) PROVE P(n + 1)
    OBVIOUS
  <2>2. part(n) \in Seq(S) /\ seq[n + 1] \in S
    BY <2>1
  <2>3. part(n + 1) = Append(part(n), seq[n + 1])
    BY <2>1
  <2>4. P(n)
    BY <1>2, <2>1
  <2>5. Brought(brings, part(n + 1)) = Brought(brings, part(n)) \cup brings[seq[n + 1]]
    <3>1. 1..(n + 1) = (1..n) \cup {n + 1}
      OBVIOUS
    <3>2. /\ Len(part(n)) = n /\ Len(part(n + 1)) = n + 1
          /\ \A i \in 1..n : part(n)[i] = seq[i] /\ part(n + 1)[i] = seq[i]
          /\ part(n + 1)[n + 1] = seq[n + 1]
      BY <2>1
    <3> HIDE DEF part
    <3>3. ASSUME NEW x
          PROVE  x \in Brought(brings, part(n + 1)) <=>
                   x \in Brought(brings, part(n)) \/ x \in brings[seq[n + 1]]
      <4>1. x \in Brought(brings, part(n + 1)) <=> \E i \in 1..(n + 1) : x \in brings[part(n + 1)[i]]
        BY <3>2 DEF Brought
      <4>2. x \in Brought(brings, part(n)) <=> \E i \in 1..n : x \in brings[part(n)[i]]
        BY <3>2 DEF Brought
      <4>3. (\E i \in 1..(n + 1) : x \in brings[part(n + 1)[i]]) <=>
              (\E i \in 1..n : x \in brings[part(n)[i]]) \/ x \in brings[seq[n + 1]]
        BY <3>1, <3>2
      <4> QED BY <4>1, <4>2, <4>3
    <3> QED BY <3>3
  <2> HIDE DEF part, T
  <2>6. Fold(base, part(n + 1)) = op(Fold(base, part(n)), seq[n + 1])
    BY <2>2, <2>3, FoldAppend
  <2>7. /\ op(Fold(base, part(n)), seq[n + 1]) \in X
        /\ has[op(Fold(base, part(n)), seq[n + 1])] =
             has[Fold(base, part(n))] \cup brings[seq[n + 1]]
    BY <2>2, <2>4, Zenon DEF Gathers
  <2> QED BY <2>4, <2>5, <2>6, <2>7
<1> HIDE DEF T
<1>3. Len(seq) \in T
  BY <1>1, <1>2, NatSetInduction
<1>4. P(Len(seq))
  BY <1>3 DEF T
<1>5. part(Len(seq)) = seq
  OBVIOUS
<1> QED BY <1>4, <1>5
=============================================================================
