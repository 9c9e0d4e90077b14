---------------------------- MODULE NumberLemmas ----------------------------
(***************************************************************************)
(* What several proofs need of the natural numbers and of what is counted  *)
(* with them: a set of them that has a bound has a largest member;         *)
(* induction over them and over finite sets, stated of sets, which can be  *)
(* cited; that a fold over a finite set is well defined; and what a sum is *)
(* of its parts.                                                           *)
(***************************************************************************)
EXTENDS Lists, FiniteSetsExt, FiniteSetTheorems, WellFoundedInduction, TLAPS

LessThan == {ss \in Nat \X Nat : ss[1] < ss[2]}

\* The library's fact about OpToRel(<, Nat), as a relation that can be cited.
LEMMA LessIsWellFounded == IsWellFoundedOn(LessThan, Nat)
BY NatLessThanWellFounded, Zenon DEF OpToRel, LessThan

\* A set of natural numbers has a least member.
LEMMA LeastExists ==
    ASSUME NEW T \in SUBSET Nat, T # {}
    PROVE  \E m \in T : \A k \in T : m <= k
<1>1. PICK m \in T : \A k \in T : ~(<<k, m>> \in LessThan)
  BY LessIsWellFounded, WFMin, Zenon
<1>2. ASSUME NEW k \in T PROVE m <= k
  <2>1. m \in Nat /\ k \in Nat
    OBVIOUS
  <2>2. ~(<<k, m>> \in Nat \X Nat /\ k < m)
    BY <1>1 DEF LessThan
  <2> QED
    BY <2>1, <2>2
<1> QED
  BY <1>2

\* One that has a bound has a largest member, which is what Max chooses.
LEMMA LargestExists ==
    ASSUME NEW n \in Nat, NEW S, S \subseteq 0 .. n, S # {}
    PROVE  Max(S) \in S /\ \A k \in S : k <= Max(S)
<1> DEFINE T == {n - k : k \in S}
<1>1. T \subseteq Nat /\ T # {}
  <2>1. \A k \in S : n - k \in Nat
    OBVIOUS
  <2> QED
    BY <2>1
<1>2. PICK x \in T : \A y \in T : x <= y
  <2> HIDE DEF T
  <2> QED
    BY <1>1, LeastExists
<1>3. PICK m \in S : x = n - m
  OBVIOUS
<1>4. \A k \in S : m >= k
  <2> SUFFICES ASSUME NEW k \in S PROVE m >= k
    OBVIOUS
  <2>1. x <= n - k
    BY <1>2
  <2>2. k \in Int /\ m \in Int
    <3>1. k \in 0 .. n /\ m \in 0 .. n
      OBVIOUS
    <3> QED
      BY <3>1
  <2> QED
    BY <1>3, <2>1, <2>2
<1> QED
  BY <1>3, <1>4 DEF Max

-----------------------------------------------------------------------------
(***************************************************************************)
(* Induction, over sets that can be cited                                  *)
(***************************************************************************)
\* What holds of 0, and of n + 1 when it holds of n, holds of every natural number.
LEMMA NumbersAreReached ==
    ASSUME NEW T, 0 \in T, \A n \in Nat : n \in T => n + 1 \in T
    PROVE  Nat \subseteq T
<1> DEFINE Left == Nat \ T
<1> SUFFICES ASSUME Left # {} PROVE FALSE
  OBVIOUS
<1>1. PICK m \in Left : \A k \in Left : m <= k
  <2>1. Left \in SUBSET Nat
    OBVIOUS
  <2> HIDE DEF Left
  <2> QED
    BY <2>1, LeastExists
<1>2. m # 0
  OBVIOUS
<1>3. m - 1 \in Nat /\ m - 1 \notin Left
  BY <1>1, <1>2
<1>4. m - 1 \in T
  BY <1>3
<1>5. (m - 1) + 1 \in T /\ (m - 1) + 1 = m
  BY <1>3, <1>4
<1> QED
  BY <1>5

\* What holds of the empty set, and of a set with one member more, holds of every finite set.
LEMMA SubsetsAreReached ==
    ASSUME NEW S, IsFiniteSet(S), NEW G, {} \in G,
           \A T \in SUBSET S : \A x \in S \ T : T \in G => T \cup {x} \in G
    PROVE  \A T \in SUBSET S : T \in G
<1> DEFINE N == {n \in Nat : \A T \in SUBSET S : Cardinality(T) = n => T \in G}
<1>1. \A T \in SUBSET S : IsFiniteSet(T) /\ Cardinality(T) \in Nat
  BY FS_Subset, FS_CardinalityType
<1>2. 0 \in N
  BY <1>1, FS_EmptySet
<1>3. ASSUME NEW n \in Nat, n \in N PROVE n + 1 \in N
  <2> SUFFICES ASSUME NEW T \in SUBSET S, Cardinality(T) = n + 1 PROVE T \in G
    OBVIOUS
  <2>1. PICK x \in T : TRUE
    BY <1>1, FS_EmptySet
  <2>2. Cardinality(T \ {x}) = n
    <3>1. IsFiniteSet(T) /\ Cardinality(T) = n + 1
      BY <1>1
    <3>2. Cardinality(T \ {x}) = Cardinality(T) - 1
      BY <2>1, <3>1, FS_RemoveElement
    <3> QED
      BY <3>1, <3>2
  <2>3. T \ {x} \in G
    BY <1>3, <2>2
  <2>4. T = (T \ {x}) \cup {x}
    BY <2>1
  <2> QED
    BY <2>1, <2>3, <2>4
<1>4. Nat \subseteq N
  <2> HIDE DEF N
  <2> QED
    BY <1>2, <1>3, NumbersAreReached
<1> QED
  BY <1>1, <1>4

-----------------------------------------------------------------------------
(***************************************************************************)
(* Folds.  A fold is a recursive function on the subsets of what is        *)
(* folded; that there is one is what its definition leaves to be proved.   *)
(***************************************************************************)
\* g folds the subsets of S: ch chooses a member, and step[<<m, v>>] folds it into v.
IsFold(g, S, base, ch, step) ==
    \A s \in SUBSET S :
        g[s] = IF s = {} THEN base ELSE step[<<ch[s], g[s \ {ch[s]}]>>]

\* A fold exists.
LEMMA FoldExists ==
    ASSUME NEW S, IsFiniteSet(S), NEW D, NEW base \in D, NEW step \in [S \X D -> D],
           NEW ch, \A s \in SUBSET S : s # {} => ch[s] \in s
    PROVE  \E g \in [SUBSET S -> D] : IsFold(g, S, base, ch, step)
<1> DEFINE Upto(n) == {s \in SUBSET S : Cardinality(s) <= n}
           Next(g, s) == IF s = {} THEN base ELSE step[<<ch[s], g[s \ {ch[s]}]>>]
           N == {n \in Nat : \E g \in [Upto(n) -> D] : \A s \in Upto(n) : g[s] = Next(g, s)}
<1>1. \A T \in SUBSET S : IsFiniteSet(T) /\ Cardinality(T) \in Nat /\ (Cardinality(T) = 0 <=> T = {})
  BY FS_Subset, FS_CardinalityType, FS_EmptySet
<1>2. 0 \in N
  <2> DEFINE g == [s \in Upto(0) |-> base]
  <2>1. \A s \in Upto(0) : s = {}
    BY <1>1
  <2>2. g \in [Upto(0) -> D] /\ \A s \in Upto(0) : g[s] = Next(g, s)
    BY <2>1
  <2> HIDE DEF g
  <2> QED
    BY <2>2
<1>3. ASSUME NEW n \in Nat, n \in N PROVE n + 1 \in N
  <2>1. PICK g \in [Upto(n) -> D] : \A s \in Upto(n) : g[s] = Next(g, s)
    BY <1>3
  <2> DEFINE h == [s \in Upto(n + 1) |-> Next(g, s)]
  <2>2. ASSUME NEW s \in Upto(n + 1), s # {}
        PROVE  ch[s] \in s /\ s \ {ch[s]} \in Upto(n)
    <3>1. ch[s] \in s /\ s \in SUBSET S /\ Cardinality(s) <= n + 1
      BY <2>2
    <3>2. Cardinality(s \ {ch[s]}) = Cardinality(s) - 1 /\ Cardinality(s) \in Nat
      BY <1>1, <3>1, FS_RemoveElement
    <3> QED
      BY <3>1, <3>2
  <2>3. ASSUME NEW s \in Upto(n + 1) PROVE Next(g, s) \in D
    BY <2>1, <2>2, <2>3
  <2>4. h \in [Upto(n + 1) -> D]
    BY <2>3
  <2>5. ASSUME NEW s \in Upto(n) PROVE s \in Upto(n + 1) /\ h[s] = g[s]
    BY <1>1, <2>1
  <2>6. ASSUME NEW s \in Upto(n + 1) PROVE h[s] = Next(h, s)
    <3>1. CASE s = {}
      BY <3>1
    <3>2. CASE s # {}
      <4>1. h[s \ {ch[s]}] = g[s \ {ch[s]}]
        BY <2>2, <2>5, <3>2
      <4> QED
        BY <3>2, <4>1
    <3> QED
      BY <3>1, <3>2
  <2> HIDE DEF h, Upto, Next
  <2> QED
    BY <2>4, <2>6
<1>4. Nat \subseteq N
  <2> HIDE DEF N
  <2> QED
    BY <1>2, <1>3, NumbersAreReached
<1>5. Cardinality(S) \in N
  BY <1>1, <1>4
<1>6. Upto(Cardinality(S)) = SUBSET S
  BY FS_Subset
<1>7. PICK g \in [Upto(Cardinality(S)) -> D] : \A s \in Upto(Cardinality(S)) : g[s] = Next(g, s)
  BY <1>5
<1> QED
  BY <1>6, <1>7 DEF IsFold

\* Two functions that fold alike, a member at a time ...
FoldAlike(ch, S, g, h) ==
    /\ g[{}] = h[{}]
    /\ \A s \in SUBSET S : s # {} =>
           ch[s] \in s /\ (g[s \ {ch[s]}] = h[s \ {ch[s]}] => g[s] = h[s])

\* ... are alike.
LEMMA FoldsAgree ==
    ASSUME NEW S, IsFiniteSet(S), NEW ch, NEW g, NEW h, FoldAlike(ch, S, g, h)
    PROVE  g[S] = h[S]
<1> USE DEF FoldAlike
<1> DEFINE N == {n \in Nat : \A s \in SUBSET S : Cardinality(s) = n => g[s] = h[s]}
<1>1. \A s \in SUBSET S : IsFiniteSet(s) /\ Cardinality(s) \in Nat /\ (Cardinality(s) = 0 <=> s = {})
  BY FS_Subset, FS_CardinalityType, FS_EmptySet
<1>2. 0 \in N
  BY <1>1
<1>3. ASSUME NEW n \in Nat, n \in N PROVE n + 1 \in N
  <2> SUFFICES ASSUME NEW s \in SUBSET S, Cardinality(s) = n + 1 PROVE g[s] = h[s]
    OBVIOUS
  <2>1. IsFiniteSet(s) /\ ch[s] \in s /\ Cardinality(s) = n + 1
    BY <1>1
  <2>2. Cardinality(s \ {ch[s]}) = n
    <3>1. Cardinality(s \ {ch[s]}) = Cardinality(s) - 1
      BY <2>1, FS_RemoveElement
    <3> QED
      BY <2>1, <3>1
  <2>3. g[s \ {ch[s]}] = h[s \ {ch[s]}]
    BY <1>3, <2>2
  <2> QED
    BY <2>1, <2>3
<1>4. Nat \subseteq N
  <2> HIDE DEF N
  <2> QED
    BY <1>2, <1>3, NumbersAreReached
<1> QED
  BY <1>1, <1>4

-----------------------------------------------------------------------------
(***************************************************************************)
(* Folds over a sequence, from the left                                    *)
(***************************************************************************)
\* g folds the numbers up to n in their order, and any set of them likewise.
FoldsUp(g, n, base, step) ==
    /\ g[{}] = base
    /\ \A s \in SUBSET (1 .. n) : s # {} => Max(s) \in s /\ g[s] = step[<<Max(s), g[s \ {Max(s)}]>>]

\* How far it has got after i of them: it goes up one number at a time.
UpTo(g, i) == g[1 .. i]

\* There is such a fold ...
LEMMA FoldUpExists ==
    ASSUME NEW n \in Nat, NEW D, NEW base \in D, NEW step \in [(1 .. n) \X D -> D]
    PROVE  \E g \in [SUBSET (1 .. n) -> D] : FoldsUp(g, n, base, step)
<1> DEFINE S == 1 .. n
           ch == [s \in SUBSET S |-> Max(s)]
<1>1. IsFiniteSet(S)
  BY FS_Interval
<1>2. ASSUME NEW s \in SUBSET S, s # {} PROVE Max(s) \in s /\ ch[s] = Max(s)
  <2>1. s \subseteq 0 .. n
    OBVIOUS
  <2> QED
    BY <1>2, <2>1, LargestExists
<1>3. \A s \in SUBSET S : s # {} => ch[s] \in s
  BY <1>2
<1>4. PICK g \in [SUBSET S -> D] : IsFold(g, S, base, ch, step)
  <2> HIDE DEF S, ch
  <2>1. step \in [S \X D -> D]
    BY DEF S
  <2> QED
    BY <1>1, <1>3, <2>1, FoldExists
<1>5. g[{}] = base
  BY <1>4 DEF IsFold
<1>6. ASSUME NEW s \in SUBSET S, s # {} PROVE g[s] = step[<<Max(s), g[s \ {Max(s)}]>>]
  <2>1. g[s] = step[<<ch[s], g[s \ {ch[s]}]>>]
    BY <1>4, <1>6 DEF IsFold
  <2>2. ch[s] = Max(s)
    BY <1>2, <1>6
  <2> QED
    BY <2>1, <2>2
<1> QED
  BY <1>2, <1>5, <1>6 DEF FoldsUp

GoesUp(g, n, D, base, step) ==
    /\ UpTo(g, 0) = base
    /\ \A i \in 0 .. n : UpTo(g, i) \in D
    /\ \A i \in 1 .. n : UpTo(g, i) = step[<<i, UpTo(g, i - 1)>>]

\* ... and it does go up so.
LEMMA FoldGoesUp ==
    ASSUME NEW n \in Nat, NEW D, NEW base \in D, NEW step,
           NEW g \in [SUBSET (1 .. n) -> D], FoldsUp(g, n, base, step)
    PROVE  GoesUp(g, n, D, base, step)
<1>1. UpTo(g, 0) = base
  <2>1. 1 .. 0 = {}
    OBVIOUS
  <2> QED
    BY <2>1 DEF UpTo, FoldsUp
<1>2. ASSUME NEW i \in 0 .. n PROVE UpTo(g, i) \in D
  BY DEF UpTo
<1>3. ASSUME NEW i \in 1 .. n PROVE UpTo(g, i) = step[<<i, UpTo(g, i - 1)>>]
  <2>1. 1 .. i \in SUBSET (1 .. n) /\ 1 .. i # {} /\ i \in 1 .. i /\ 1 .. i \subseteq 0 .. n
    <3>1. i \in Nat /\ i <= n /\ i >= 1
      OBVIOUS
    <3>2. i \in 1 .. i
      BY <3>1
    <3>3. \A k \in 1 .. i : k \in 1 .. n /\ k \in 0 .. n
      BY <3>1
    <3> QED
      BY <3>2, <3>3
  <2>2. Max(1 .. i) \in 1 .. i /\ \A k \in 1 .. i : k <= Max(1 .. i)
    BY <2>1, LargestExists
  <2>3. Max(1 .. i) = i
    BY <2>1, <2>2
  <2>4. (1 .. i) \ {i} = 1 .. i - 1
    OBVIOUS
  <2>5. g[1 .. i] = step[<<i, g[(1 .. i) \ {i}]>>]
    BY <2>1, <2>3 DEF FoldsUp
  <2> QED
    BY <2>4, <2>5 DEF UpTo
<1> QED
  BY <1>1, <1>2, <1>3 DEF GoesUp

\* So a function can be defined by recursion over the numbers up to n.
RecursesUp(f, n, base, step) == f[0] = base /\ \A i \in 1 .. n : f[i] = step[<<i, f[i - 1]>>]

\* There is such a function.
LEMMA RecursionExists ==
    ASSUME NEW n \in Nat, NEW D, NEW base \in D, NEW step \in [(1 .. n) \X D -> D]
    PROVE  \E f \in [0 .. n -> D] : RecursesUp(f, n, base, step)
<1>1. PICK g \in [SUBSET (1 .. n) -> D] : FoldsUp(g, n, base, step)
  BY FoldUpExists
<1> DEFINE f == [i \in 0 .. n |-> UpTo(g, i)]
<1>2. /\ UpTo(g, 0) = base
      /\ \A i \in 0 .. n : UpTo(g, i) \in D
      /\ \A i \in 1 .. n : UpTo(g, i) = step[<<i, UpTo(g, i - 1)>>]
  <2>1. GoesUp(g, n, D, base, step)
    BY <1>1, FoldGoesUp
  <2> QED
    BY <2>1 DEF GoesUp
<1>3. f \in [0 .. n -> D] /\ f[0] = base
  BY <1>2
<1>4. ASSUME NEW i \in 1 .. n PROVE f[i] = step[<<i, f[i - 1]>>]
  <2>1. i \in 0 .. n /\ i - 1 \in 0 .. n
    OBVIOUS
  <2> QED
    BY <1>2, <2>1
<1> QED
  BY <1>3, <1>4 DEF RecursesUp

-----------------------------------------------------------------------------
(***************************************************************************)
(* Selections                                                              *)
(***************************************************************************)
\* What is selected of the first n members of seq: f tells where each of them was.
Selects(f, sel, seq, set, n) ==
    /\ f \in [1 .. Len(sel) -> {j \in 1 .. n : seq[j] \in set}]
    /\ \A i \in 1 .. Len(sel) : sel[i] = seq[f[i]]
    /\ \A i, k \in 1 .. Len(sel) : i < k => f[i] < f[k]
    /\ \A j \in 1 .. n : seq[j] \in set => \E i \in 1 .. Len(sel) : f[i] = j

\* A selection keeps the order, and leaves out only what is not in the set.
IsSelection(sel, seq, set) == \E f : Selects(f, sel, seq, set, Len(seq))

\* A selection of one element more.
LEMMA SelectedOneMore ==
    ASSUME NEW S, NEW seq \in Seq(S), NEW set, NEW n \in 1 .. Len(seq), NEW sel \in Seq(S),
           NEW f, Selects(f, sel, seq, set, n - 1)
    PROVE  IF seq[n] \in set
           THEN \E g : Selects(g, Append(sel, seq[n]), seq, set, n)
           ELSE Selects(f, sel, seq, set, n)
<1>0. /\ f \in [1 .. Len(sel) -> {j \in 1 .. n - 1 : seq[j] \in set}]
      /\ \A i \in 1 .. Len(sel) : sel[i] = seq[f[i]]
      /\ \A i, k \in 1 .. Len(sel) : i < k => f[i] < f[k]
      /\ \A j \in 1 .. n - 1 : seq[j] \in set => \E i \in 1 .. Len(sel) : f[i] = j
      /\ n \in Nat /\ Len(sel) \in Nat
  BY DEF Selects
<1>1. CASE seq[n] \notin set
  <2>1. f \in [1 .. Len(sel) -> {j \in 1 .. n : seq[j] \in set}]
    BY <1>0
  <2>2. \A j \in 1 .. n : seq[j] \in set => \E i \in 1 .. Len(sel) : f[i] = j
    BY <1>0, <1>1
  <2> QED
    BY <1>0, <1>1, <2>1, <2>2 DEF Selects
<1>2. CASE seq[n] \in set
  <2> DEFINE m == Len(sel)
             more == Append(sel, seq[n])
             g == [i \in 1 .. m + 1 |-> IF i = m + 1 THEN n ELSE f[i]]
  <2>1. /\ Len(more) = m + 1 /\ more[m + 1] = seq[n]
        /\ \A i \in 1 .. m : more[i] = sel[i]
    OBVIOUS
  <2>2. \A i \in 1 .. m : i \in 1 .. m + 1 /\ i # m + 1 /\ g[i] = f[i] /\ f[i] \in 1 .. n - 1
    BY <1>0
  <2>3. g[m + 1] = n /\ m + 1 \in 1 .. m + 1 /\ \A i \in 1 .. m + 1 : i \in 1 .. m \/ i = m + 1
    BY <1>0
  <2> HIDE DEF more
  <2>4. g \in [1 .. m + 1 -> {j \in 1 .. n : seq[j] \in set}]
    BY <1>0, <1>2
  <2> HIDE DEF g, m
  <2>5. \A i \in 1 .. m + 1 : more[i] = seq[g[i]]
    BY <1>0, <2>1, <2>2, <2>3 DEF m
  <2>6. ASSUME NEW i \in 1 .. m + 1, NEW k \in 1 .. m + 1, i < k PROVE g[i] < g[k]
    <3>1. i \in 1 .. m
      BY <1>0, <2>6 DEF m
    <3>2. CASE k = m + 1
      BY <2>2, <2>3, <3>1, <3>2, <1>0
    <3>3. CASE k # m + 1
      <4>1. k \in 1 .. m
        BY <2>3, <3>3
      <4>2. f[i] < f[k]
        BY <1>0, <2>6, <3>1, <4>1 DEF m
      <4> QED
        BY <2>2, <3>1, <4>1, <4>2
    <3> QED
      BY <3>2, <3>3
  <2>7. ASSUME NEW j \in 1 .. n, seq[j] \in set PROVE \E i \in 1 .. m + 1 : g[i] = j
    <3>1. CASE j = n
      BY <2>3, <3>1
    <3>2. CASE j # n
      <4>1. j \in 1 .. n - 1
        BY <1>0, <3>2
      <4>2. PICK i \in 1 .. m : f[i] = j
        BY <1>0, <2>7, <4>1 DEF m
      <4> QED
        BY <2>2, <4>2
    <3> QED
      BY <3>1, <3>2
  <2> QED
    BY <1>2, <2>1, <2>4, <2>5, <2>6, <2>7 DEF Selects, more
<1> QED
  BY <1>1, <1>2

\* Selected is a selection.
LEMMA SelectedIs ==
    ASSUME NEW S, NEW seq \in Seq(S), NEW set
    PROVE  Selected(seq, set) \in Seq(S) /\ IsSelection(Selected(seq, set), seq, set)
<1> DEFINE n == Len(seq)
           P(h) == h = [i \in 0 .. Len(seq) |->
                          IF i = 0 THEN <<>>
                          ELSE IF seq[i] \in set THEN Append(h[i - 1], seq[i]) ELSE h[i - 1]]
           got == CHOOSE h : P(h)
           step == [p \in (1 .. n) \X Seq(S) |->
                       IF seq[p[1]] \in set THEN Append(p[2], seq[p[1]]) ELSE p[2]]
<1>1. n \in Nat /\ <<>> \in Seq(S) /\ \A i \in 1 .. n : seq[i] \in S
  OBVIOUS
<1>2. step \in [(1 .. n) \X Seq(S) -> Seq(S)]
  BY <1>1
<1>3. PICK f \in [0 .. n -> Seq(S)] : RecursesUp(f, n, <<>>, step)
  <2> HIDE DEF n, step
  <2> QED
    BY <1>1, <1>2, RecursionExists
<1>4. \E h : P(h)
  <2>1. ASSUME NEW i \in 1 .. n
        PROVE  f[i] = IF seq[i] \in set THEN Append(f[i - 1], seq[i]) ELSE f[i - 1]
    <3>1. f[i] = step[<<i, f[i - 1]>>]
      <4> HIDE DEF step, n
      <4> QED
        BY <1>3 DEF RecursesUp
    <3>2. i - 1 \in 0 .. n
      BY <1>1
    <3>3. f[i - 1] \in Seq(S)
      BY <1>3, <3>2
    <3>4. <<i, f[i - 1]>> \in (1 .. n) \X Seq(S)
      BY <3>3
    <3> QED
      BY <3>1, <3>4
  <2>2. f[0] = <<>>
    BY <1>3 DEF RecursesUp
  <2>3. ASSUME NEW i \in 0 .. n
        PROVE  f[i] = IF i = 0 THEN <<>>
                      ELSE IF seq[i] \in set THEN Append(f[i - 1], seq[i]) ELSE f[i - 1]
    <3>1. i = 0 \/ i \in 1 .. n
      BY <1>1
    <3> QED
      BY <2>1, <2>2, <3>1
  <2>4. f = [i \in 0 .. n |-> f[i]]
    BY <1>3
  <2>5. P(f)
    BY <2>3, <2>4
  <2> QED
    BY <2>5
<1>5. P(got)
  <2> HIDE DEF P
  <2> QED
    BY <1>4, Zenon
<1>6. Selected(seq, set) = got[n]
  BY DEF Selected
<1> HIDE DEF got
<1> DEFINE N == {i \in Nat : i <= n => got[i] \in Seq(S) /\ \E g : Selects(g, got[i], seq, set, i)}
<1>7. 0 \in N
  <2>1. got[0] = <<>>
    BY <1>1, <1>5
  <2>2. Selects(<<>>, <<>>, seq, set, 0)
    BY DEF Selects
  <2> QED
    BY <1>1, <2>1, <2>2
<1>8. ASSUME NEW i \in Nat, i \in N PROVE i + 1 \in N
  <2> SUFFICES ASSUME i + 1 <= n
               PROVE  got[i + 1] \in Seq(S) /\ \E g : Selects(g, got[i + 1], seq, set, i + 1)
    OBVIOUS
  <2>1. got[i] \in Seq(S) /\ \E g : Selects(g, got[i], seq, set, i)
    BY <1>1, <1>8
  <2>2. /\ i + 1 \in 1 .. n /\ (i + 1) - 1 = i
        /\ got[i + 1] = IF seq[i + 1] \in set THEN Append(got[i], seq[i + 1]) ELSE got[i]
    <3>1. i + 1 \in 0 .. n /\ i + 1 # 0 /\ (i + 1) - 1 = i /\ i + 1 \in 1 .. n
      BY <1>1
    <3> QED
      BY <1>5, <3>1
  <2>3. PICK g : Selects(g, got[i], seq, set, (i + 1) - 1)
    BY <2>1, <2>2
  <2>4. IF seq[i + 1] \in set
        THEN \E h : Selects(h, Append(got[i], seq[i + 1]), seq, set, i + 1)
        ELSE Selects(g, got[i], seq, set, i + 1)
    <3> DEFINE sel == got[i]
               k == i + 1
    <3>1. k \in 1 .. Len(seq) /\ sel \in Seq(S) /\ Selects(g, sel, seq, set, k - 1)
      BY <2>1, <2>2, <2>3
    <3> HIDE DEF sel, k
    <3>2. IF seq[k] \in set
          THEN \E h : Selects(h, Append(sel, seq[k]), seq, set, k)
          ELSE Selects(g, sel, seq, set, k)
      BY <3>1, SelectedOneMore
    <3> QED
      BY <3>2 DEF sel, k
  <2> QED
    BY <1>1, <2>1, <2>2, <2>4
<1>9. Nat \subseteq N
  <2> HIDE DEF N
  <2> QED
    BY <1>7, <1>8, NumbersAreReached
<1>10. n \in N
  BY <1>1, <1>9
<1> QED
  BY <1>1, <1>6, <1>10 DEF IsSelection

\* So its members are those of the sequence that are in the set.
LEMMA SelectedMembers ==
    ASSUME NEW S, NEW seq \in Seq(S), NEW set
    PROVE  /\ \A i \in 1 .. Len(Selected(seq, set)) :
                  \E j \in 1 .. Len(seq) : Selected(seq, set)[i] = seq[j] /\ seq[j] \in set
           /\ \A j \in 1 .. Len(seq) : seq[j] \in set =>
                  \E i \in 1 .. Len(Selected(seq, set)) : Selected(seq, set)[i] = seq[j]
<1> DEFINE sel == Selected(seq, set)
<1>1. PICK f : Selects(f, sel, seq, set, Len(seq))
  BY SelectedIs DEF IsSelection
<1> HIDE DEF sel
<1>2. \A i \in 1 .. Len(sel) : f[i] \in 1 .. Len(seq) /\ seq[f[i]] \in set /\ sel[i] = seq[f[i]]
  BY <1>1 DEF Selects
<1>3. \A j \in 1 .. Len(seq) : seq[j] \in set => \E i \in 1 .. Len(sel) : sel[i] = seq[j]
  BY <1>1, <1>2 DEF Selects
<1> QED
  BY <1>2, <1>3 DEF sel

-----------------------------------------------------------------------------
(***************************************************************************)
(* Sums                                                                    *)
(***************************************************************************)
\* The sum of a function over a set.
SumOver(f, S) == MapThenSumSet(LAMBDA x : f[x], S)

ChoiceOf(S) == [s \in SUBSET S |-> CHOOSE x \in s : TRUE]
Adding(f, S) == [p \in S \X Int |-> f[p[1]] + p[2]]

\* How the library's definition adds up.
LEMMA SumFolds ==
    ASSUME NEW S, IsFiniteSet(S), NEW f, \A x \in S : f[x] \in Int
    PROVE  \E g \in [SUBSET S -> Int] :
               /\ IsFold(g, S, 0, ChoiceOf(S), Adding(f, S))
               /\ SumOver(f, S) = g[S]
<1> DEFINE P(g) == g = [s \in SUBSET S |->
                          IF s = {} THEN 0
                          ELSE f[CHOOSE x \in s : TRUE] + g[s \ {CHOOSE x \in s : TRUE}]]
           iter == CHOOSE g : P(g)
<1>1. \A s \in SUBSET S : s # {} => ChoiceOf(S)[s] \in s
  BY DEF ChoiceOf
<1>2. Adding(f, S) \in [S \X Int -> Int]
  BY DEF Adding
<1>3. PICK g \in [SUBSET S -> Int] : IsFold(g, S, 0, ChoiceOf(S), Adding(f, S))
  <2>1. 0 \in Int
    OBVIOUS
  <2> QED
    BY <1>1, <1>2, <2>1, FoldExists, Zenon
<1>4. ASSUME NEW s \in SUBSET S, s # {}
      PROVE  Adding(f, S)[<<ChoiceOf(S)[s], g[s \ {ChoiceOf(S)[s]}]>>]
                = f[CHOOSE x \in s : TRUE] + g[s \ {CHOOSE x \in s : TRUE}]
  <2>1. ChoiceOf(S)[s] \in S /\ ChoiceOf(S)[s] = CHOOSE x \in s : TRUE
    BY <1>1, <1>4 DEF ChoiceOf
  <2>2. g[s \ {ChoiceOf(S)[s]}] \in Int
    OBVIOUS
  <2> QED
    BY <2>1, <2>2 DEF Adding
<1>5. P(g)
  BY <1>3, <1>4 DEF IsFold
<1>6. P(iter)
  <2> HIDE DEF P
  <2> QED
    BY <1>5, Zenon
<1>7. SumOver(f, S) = iter[S]
  BY DEF SumOver, MapThenSumSet, MapThenFoldSet
<1> HIDE DEF iter
<1>8. iter[S] = g[S]
  <2>1. iter[{}] = g[{}]
    BY <1>5, <1>6
  <2>2. ASSUME NEW s \in SUBSET S, s # {}
        PROVE  /\ ChoiceOf(S)[s] \in s
               /\ iter[s \ {ChoiceOf(S)[s]}] = g[s \ {ChoiceOf(S)[s]}] => iter[s] = g[s]
    <3>1. ChoiceOf(S)[s] \in s /\ ChoiceOf(S)[s] = CHOOSE x \in s : TRUE
      BY <1>1, <2>2 DEF ChoiceOf
    <3>2. /\ iter[s] = f[CHOOSE x \in s : TRUE] + iter[s \ {CHOOSE x \in s : TRUE}]
          /\ g[s] = f[CHOOSE x \in s : TRUE] + g[s \ {CHOOSE x \in s : TRUE}]
      BY <1>5, <1>6, <2>2
    <3> QED
      BY <3>1, <3>2
  <2>3. \A s \in SUBSET S : s # {} =>
            /\ ChoiceOf(S)[s] \in s
            /\ iter[s \ {ChoiceOf(S)[s]}] = g[s \ {ChoiceOf(S)[s]}] => iter[s] = g[s]
    BY <2>2
  <2>4. FoldAlike(ChoiceOf(S), S, iter, g)
    BY <2>1, <2>3 DEF FoldAlike
  <2> QED
    BY <2>4, FoldsAgree
<1> QED
  BY <1>3, <1>7, <1>8

\* g sums f over the subsets of S, a member at a time.
Sums(g, f, S) ==
    /\ g \in [SUBSET S -> Int] /\ g[{}] = 0
    /\ \A s \in SUBSET S : s # {} =>
           ChoiceOf(S)[s] \in s /\ g[s] = f[ChoiceOf(S)[s]] + g[s \ {ChoiceOf(S)[s]}]

\* The sum over a set is the value of its members' function that adds one at a time: the same
\* function for every subset.
LEMMA SumFoldsAll ==
    ASSUME NEW S, IsFiniteSet(S), NEW f, \A x \in S : f[x] \in Int
    PROVE  \E g : Sums(g, f, S) /\ (\A s \in SUBSET S : SumOver(f, s) = g[s])
<1>1. PICK g \in [SUBSET S -> Int] : IsFold(g, S, 0, ChoiceOf(S), Adding(f, S))
  BY SumFolds
<1>2. ASSUME NEW T \in SUBSET S, NEW h \in [SUBSET T -> Int], IsFold(h, T, 0, ChoiceOf(T), Adding(f, T))
      PROVE  /\ h[{}] = 0
             /\ \A s \in SUBSET T : s # {} =>
                    /\ ChoiceOf(S)[s] \in s /\ ChoiceOf(S)[s] = ChoiceOf(T)[s]
                    /\ h[s] = f[ChoiceOf(S)[s]] + h[s \ {ChoiceOf(S)[s]}]
  <2>1. h[{}] = 0
    BY <1>2 DEF IsFold
  <2>2. ASSUME NEW s \in SUBSET T, s # {}
        PROVE  /\ ChoiceOf(S)[s] \in s /\ ChoiceOf(S)[s] = ChoiceOf(T)[s]
               /\ h[s] = f[ChoiceOf(S)[s]] + h[s \ {ChoiceOf(S)[s]}]
    <3>1. ChoiceOf(S)[s] \in s /\ ChoiceOf(S)[s] = ChoiceOf(T)[s]
      BY <2>2 DEF ChoiceOf
    <3>2. h[s] = Adding(f, T)[<<ChoiceOf(T)[s], h[s \ {ChoiceOf(T)[s]}]>>]
      BY <1>2, <2>2 DEF IsFold
    <3>3. ChoiceOf(T)[s] \in T /\ h[s \ {ChoiceOf(T)[s]}] \in Int
      BY <1>2, <3>1
    <3> QED
      BY <3>1, <3>2, <3>3 DEF Adding
  <2> QED
    BY <2>1, <2>2
<1>3. Sums(g, f, S)
  <2>1. S \in SUBSET S
    OBVIOUS
  <2> QED
    BY <1>1, <1>2, <2>1 DEF Sums
<1>4. ASSUME NEW T \in SUBSET S PROVE SumOver(f, T) = g[T]
  <2>1. IsFiniteSet(T)
    BY FS_Subset
  <2>2. PICK h \in [SUBSET T -> Int] :
           IsFold(h, T, 0, ChoiceOf(T), Adding(f, T)) /\ SumOver(f, T) = h[T]
    BY <2>1, SumFolds
  <2>3. h[{}] = g[{}]
    BY <1>3, <1>2, <2>2 DEF Sums
  <2>4. \A s \in SUBSET T : s # {} =>
            /\ ChoiceOf(S)[s] \in s
            /\ h[s \ {ChoiceOf(S)[s]}] = g[s \ {ChoiceOf(S)[s]}] => h[s] = g[s]
    <3>1. \A s \in SUBSET T : s # {} =>
              ChoiceOf(S)[s] \in s /\ h[s] = f[ChoiceOf(S)[s]] + h[s \ {ChoiceOf(S)[s]}]
      BY <1>2, <2>2
    <3>2. \A s \in SUBSET S : s # {} => g[s] = f[ChoiceOf(S)[s]] + g[s \ {ChoiceOf(S)[s]}]
      BY <1>3 DEF Sums
    <3>3. \A s \in SUBSET T : s \in SUBSET S
      OBVIOUS
    <3> QED
      BY <3>1, <3>2, <3>3
  <2>5. FoldAlike(ChoiceOf(S), T, h, g)
    BY <2>3, <2>4 DEF FoldAlike
  <2>6. h[T] = g[T]
    BY <2>1, <2>5, FoldsAgree
  <2> QED
    BY <2>2, <2>6
<1> QED
  BY <1>3, <1>4

\* A sum of integers is one, and any member may be split off.
LEMMA SumSplit ==
    ASSUME NEW S, IsFiniteSet(S), NEW f, \A x \in S : f[x] \in Int
    PROVE  /\ SumOver(f, S) \in Int
           /\ S = {} => SumOver(f, S) = 0
           /\ \A x \in S : SumOver(f, S \ {x}) \in Int
                           /\ SumOver(f, S) = f[x] + SumOver(f, S \ {x})
<1>1. PICK g : Sums(g, f, S) /\ (\A s \in SUBSET S : SumOver(f, s) = g[s])
  BY SumFoldsAll
<1>0. /\ g \in [SUBSET S -> Int] /\ g[{}] = 0
      /\ \A s \in SUBSET S : s # {} =>
           ChoiceOf(S)[s] \in s /\ g[s] = f[ChoiceOf(S)[s]] + g[s \ {ChoiceOf(S)[s]}]
  BY <1>1 DEF Sums
<1> DEFINE N == {n \in Nat : \A s \in SUBSET S : Cardinality(s) = n =>
                                 \A x \in s : g[s] = f[x] + g[s \ {x}]}
<1>2. \A s \in SUBSET S : IsFiniteSet(s) /\ Cardinality(s) \in Nat /\ (Cardinality(s) = 0 <=> s = {})
  BY FS_Subset, FS_CardinalityType, FS_EmptySet
<1>3. 0 \in N
  BY <1>2
<1>4. ASSUME NEW n \in Nat, n \in N PROVE n + 1 \in N
  <2> SUFFICES ASSUME NEW s \in SUBSET S, Cardinality(s) = n + 1, NEW x \in s
               PROVE  g[s] = f[x] + g[s \ {x}]
    OBVIOUS
  <2> DEFINE c == ChoiceOf(S)[s]
  <2>1. c \in s /\ g[s] = f[c] + g[s \ {c}]
    BY <1>0
  <2>2. CASE c = x
    BY <2>1, <2>2
  <2>3. CASE c # x
    <3>0. IsFiniteSet(s) /\ Cardinality(s) = n + 1
      BY <1>2
    <3>1. Cardinality(s \ {c}) = Cardinality(s) - 1 /\ Cardinality(s \ {x}) = Cardinality(s) - 1
      BY <3>0, <2>1, FS_RemoveElement
    <3>2. Cardinality(s \ {c}) = n /\ Cardinality(s \ {x}) = n
      BY <3>0, <3>1
    <3> HIDE DEF c
    <3>3. s \ {c} \in SUBSET S /\ s \ {x} \in SUBSET S /\ x \in s \ {c} /\ c \in s \ {x}
      BY <2>1, <2>3
    <3>4. g[s \ {c}] = f[x] + g[(s \ {c}) \ {x}] /\ g[s \ {x}] = f[c] + g[(s \ {x}) \ {c}]
      BY <1>4, <3>2, <3>3
    <3>5. (s \ {c}) \ {x} = (s \ {x}) \ {c} /\ (s \ {c}) \ {x} \in SUBSET S
      OBVIOUS
    <3>6. f[x] \in Int /\ f[c] \in Int /\ g[(s \ {c}) \ {x}] \in Int
      BY <1>0, <2>1, <3>5
    <3>7. g[s \ {x}] = f[c] + g[(s \ {c}) \ {x}]
      BY <3>4, <3>5
    <3> QED
      BY <2>1, <3>4, <3>6, <3>7
  <2> QED
    BY <2>2, <2>3
<1>5. Nat \subseteq N
  <2> HIDE DEF N
  <2> QED
    BY <1>3, <1>4, NumbersAreReached
<1>6. ASSUME NEW x \in S PROVE g[S] = f[x] + g[S \ {x}]
  <2>1. Cardinality(S) \in N
    BY <1>2, <1>5
  <2> QED
    BY <2>1
<1>7. \A x \in S : S \ {x} \in SUBSET S
  OBVIOUS
<1> HIDE DEF N
<1> QED
  BY <1>0, <1>1, <1>6, <1>7

\* A member can be taken out of a sum.
LEMMA SumWithout ==
    ASSUME NEW S, IsFiniteSet(S), NEW f, \A x \in S : f[x] \in Int, NEW y \in S
    PROVE  SumOver(f, S \ {y}) \in Int /\ SumOver(f, S) = f[y] + SumOver(f, S \ {y})
BY SumSplit

\* h is the function that the library's definition of a sum chooses.
SumsAsLibrary(h, f, S) ==
    h = [s \in SUBSET S |->
            IF s = {} THEN 0 ELSE f[CHOOSE x \in s : TRUE] + h[s \ {CHOOSE x \in s : TRUE}]]

\* What it gives is the sum ...
LEMMA SumsAreAlike ==
    ASSUME NEW S, IsFiniteSet(S), NEW f, \A x \in S : f[x] \in Int, NEW h, SumsAsLibrary(h, f, S)
    PROVE  h[S] = SumOver(f, S)
<1> USE DEF SumsAsLibrary
<1>1. PICK g : Sums(g, f, S) /\ (\A s \in SUBSET S : SumOver(f, s) = g[s])
  BY SumFoldsAll
<1>2. S \in SUBSET S /\ {} \in SUBSET S
  OBVIOUS
<1>3. h[{}] = g[{}]
  BY <1>1, <1>2 DEF Sums
<1>4. ASSUME NEW s \in SUBSET S, s # {}
      PROVE  /\ ChoiceOf(S)[s] \in s
             /\ h[s \ {ChoiceOf(S)[s]}] = g[s \ {ChoiceOf(S)[s]}] => h[s] = g[s]
  <2>1. ChoiceOf(S)[s] = CHOOSE x \in s : TRUE
    BY DEF ChoiceOf
  <2>2. h[s] = f[CHOOSE x \in s : TRUE] + h[s \ {CHOOSE x \in s : TRUE}]
    BY <1>4
  <2>3. ChoiceOf(S)[s] \in s /\ g[s] = f[ChoiceOf(S)[s]] + g[s \ {ChoiceOf(S)[s]}]
    BY <1>1, <1>4 DEF Sums
  <2> QED
    BY <2>1, <2>2, <2>3
<1>5. FoldAlike(ChoiceOf(S), S, h, g)
  BY <1>3, <1>4 DEF FoldAlike
<1>6. h[S] = g[S]
  BY <1>5, FoldsAgree
<1> QED
  BY <1>1, <1>2, <1>6

\* ... and there is one.
LEMMA SumsExist ==
    ASSUME NEW S, IsFiniteSet(S), NEW f, \A x \in S : f[x] \in Int
    PROVE  \E h : SumsAsLibrary(h, f, S)
<1>1. PICK g : Sums(g, f, S)
  BY SumFoldsAll
<1>2. ASSUME NEW s \in SUBSET S, s # {}
      PROVE  g[s] = f[CHOOSE x \in s : TRUE] + g[s \ {CHOOSE x \in s : TRUE}]
  BY <1>1, <1>2 DEF Sums, ChoiceOf
<1>3. g = [s \in SUBSET S |->
             IF s = {} THEN 0
             ELSE f[CHOOSE x \in s : TRUE] + g[s \ {CHOOSE x \in s : TRUE}]]
  <2>1. g \in [SUBSET S -> Int] /\ g[{}] = 0
    BY <1>1 DEF Sums
  <2> QED
    BY <1>2, <2>1
<1>4. SumsAsLibrary(g, f, S)
  BY <1>3 DEF SumsAsLibrary
<1> QED
  BY <1>4

\* A sum is of what its function gives of the members.
LEMMA SumsOfTheSame ==
    ASSUME NEW S, IsFiniteSet(S), NEW f, \A x \in S : f[x] \in Int,
           NEW g, \A x \in S : g[x] = f[x]
    PROVE  SumOver(g, S) = SumOver(f, S)
<1>1. PICK h : SumsAsLibrary(h, f, S)
  BY SumsExist
<1>2. ASSUME NEW s \in SUBSET S, s # {}
      PROVE  g[CHOOSE x \in s : TRUE] = f[CHOOSE x \in s : TRUE]
  <2>1. (CHOOSE x \in s : TRUE) \in S
    BY <1>2
  <2> QED
    BY <2>1
<1>3. SumsAsLibrary(h, g, S)
  <2>1. ASSUME NEW s \in SUBSET S
        PROVE  (IF s = {} THEN 0 ELSE g[CHOOSE x \in s : TRUE] + h[s \ {CHOOSE x \in s : TRUE}])
                 = (IF s = {} THEN 0 ELSE f[CHOOSE x \in s : TRUE] + h[s \ {CHOOSE x \in s : TRUE}])
    BY <1>2
  <2> QED
    BY <1>1, <2>1 DEF SumsAsLibrary
<1>4. \A x \in S : g[x] \in Int
  OBVIOUS
<1> QED
  BY <1>1, <1>3, <1>4, SumsAreAlike

\* The sums over two sets that have no member in common.
LEMMA SumUnion ==
    ASSUME NEW A, NEW B, IsFiniteSet(A), IsFiniteSet(B), A \cap B = {},
           NEW f, \A x \in A \cup B : f[x] \in Int
    PROVE  /\ SumOver(f, A) \in Int /\ SumOver(f, B) \in Int
           /\ SumOver(f, A \cup B) = SumOver(f, A) + SumOver(f, B)
<1> DEFINE G == {T \in SUBSET B : SumOver(f, A \cup T) = SumOver(f, A) + SumOver(f, T)}
<1>1. ASSUME NEW T \in SUBSET B
      PROVE  /\ IsFiniteSet(T) /\ IsFiniteSet(A \cup T)
             /\ \A x \in T : f[x] \in Int
             /\ \A x \in A \cup T : f[x] \in Int
  BY FS_Subset, FS_Union
<1>2. SumOver(f, A) \in Int /\ SumOver(f, {}) = 0 /\ SumOver(f, B) \in Int
  <2>1. SumOver(f, A) \in Int
    BY SumSplit
  <2>2. SumOver(f, {}) = 0
    BY FS_EmptySet, SumSplit
  <2>3. SumOver(f, B) \in Int
    BY SumSplit
  <2> QED
    BY <2>1, <2>2, <2>3
<1>3. {} \in G
  <2>1. A \cup {} = A
    OBVIOUS
  <2> QED
    BY <1>2, <2>1
<1>4. ASSUME NEW T \in SUBSET B, NEW x \in B \ T, T \in G PROVE T \cup {x} \in G
  <2> DEFINE U == T \cup {x}
             V == A \cup U
  <2>1. U \in SUBSET B /\ x \in U /\ x \in V /\ U \ {x} = T /\ V \ {x} = A \cup T
    BY <1>4
  <2>a. /\ IsFiniteSet(U) /\ IsFiniteSet(V)
        /\ \A y \in U : f[y] \in Int
        /\ \A y \in V : f[y] \in Int
    BY <1>1, <2>1
  <2> HIDE DEF U, V
  <2>2. SumOver(f, U) = f[x] + SumOver(f, T)
    <3>1. SumOver(f, U) = f[x] + SumOver(f, U \ {x})
      BY <2>a, <2>1, SumWithout
    <3> QED
      BY <2>1, <3>1
  <2>3. SumOver(f, V) = f[x] + SumOver(f, A \cup T)
    <3>1. SumOver(f, V) = f[x] + SumOver(f, V \ {x})
      BY <2>a, <2>1, SumWithout
    <3> QED
      BY <2>1, <3>1
  <2>4. SumOver(f, T) \in Int /\ SumOver(f, A \cup T) \in Int
    BY <1>1, SumSplit
  <2>5. SumOver(f, A \cup T) = SumOver(f, A) + SumOver(f, T)
    BY <1>4
  <2>6. f[x] \in Int
    BY <1>4
  <2>7. SumOver(f, V) = SumOver(f, A) + SumOver(f, U)
    BY <1>2, <2>2, <2>3, <2>4, <2>5, <2>6
  <2> QED
    BY <2>1, <2>7 DEF U, V
<1>5. \A T \in SUBSET B : T \in G
  <2> HIDE DEF G
  <2> QED
    BY <1>3, <1>4, SubsetsAreReached
<1> QED
  BY <1>2, <1>5

\* A sum of natural numbers is one, and no smaller than a part of it.
LEMMA SumOfNaturals ==
    ASSUME NEW S, IsFiniteSet(S), NEW f, \A x \in S : f[x] \in Nat
    PROVE  SumOver(f, S) \in Nat
<1> DEFINE G == {T \in SUBSET S : SumOver(f, T) \in Nat}
<1>1. {} \in G
  BY FS_EmptySet, SumSplit
<1>2. ASSUME NEW T \in SUBSET S, NEW x \in S \ T, T \in G PROVE T \cup {x} \in G
  <2> DEFINE U == T \cup {x}
  <2>1. IsFiniteSet(U) /\ x \in U /\ U \ {x} = T /\ U \in SUBSET S
    BY <1>2, FS_Subset
  <2>2. \A y \in U : f[y] \in Int
    BY <2>1
  <2> HIDE DEF U
  <2>3. SumOver(f, U) = f[x] + SumOver(f, T)
    BY <2>1, <2>2, SumWithout
  <2>4. f[x] \in Nat /\ SumOver(f, T) \in Nat
    BY <1>2
  <2> QED
    BY <2>1, <2>3, <2>4 DEF U
<1>3. \A T \in SUBSET S : T \in G
  <2> HIDE DEF G
  <2> QED
    BY <1>1, <1>2, SubsetsAreReached
<1> QED
  BY <1>3

\* A part of a sum of natural numbers is no more than the sum.
LEMMA SumOfPart ==
    ASSUME NEW S, IsFiniteSet(S), NEW f, \A x \in S : f[x] \in Nat, NEW T \in SUBSET S
    PROVE  SumOver(f, T) \in Nat /\ SumOver(f, T) <= SumOver(f, S)
<1>1. IsFiniteSet(T) /\ IsFiniteSet(S \ T) /\ T \cup (S \ T) = S /\ T \cap (S \ T) = {}
  BY FS_Subset
<1>2. SumOver(f, T) \in Nat /\ SumOver(f, S \ T) \in Nat
  BY <1>1, SumOfNaturals
<1>3. \A x \in T \cup (S \ T) : f[x] \in Int
  OBVIOUS
<1>4. SumOver(f, T \cup (S \ T)) = SumOver(f, T) + SumOver(f, S \ T)
  <2> DEFINE U == S \ T
  <2> HIDE DEF U
  <2>1. IsFiniteSet(U) /\ T \cap U = {} /\ \A x \in T \cup U : f[x] \in Int
    BY <1>1, <1>3 DEF U
  <2>2. SumOver(f, T \cup U) = SumOver(f, T) + SumOver(f, U)
    BY <1>1, <2>1, SumUnion
  <2> QED
    BY <2>2 DEF U
<1>5. SumOver(f, S) = SumOver(f, T) + SumOver(f, S \ T)
  BY <1>1, <1>4
<1> QED
  BY <1>2, <1>5

\* What a sequence of numbers grows by is the sum of its steps.
LEMMA SumOfSteps ==
    ASSUME NEW k \in Nat, NEW n \in Nat, NEW c, NEW f,
           \A i \in k .. k + n : c[i] \in Int,
           \A i \in k .. k + n - 1 : f[i] = c[i + 1] - c[i]
    PROVE  SumOver(f, k .. k + n - 1) = c[k + n] - c[k]
<1> DEFINE G == {l \in Nat : l <= n => SumOver(f, k .. k + l - 1) = c[k + l] - c[k]}
<1>1. 0 \in G
  <2>1. k .. k + 0 - 1 = {} /\ k + 0 = k /\ c[k] \in Int
    OBVIOUS
  <2>2. SumOver(f, {}) = 0
    BY FS_EmptySet, SumSplit
  <2> QED
    BY <2>1, <2>2
<1>2. ASSUME NEW l \in Nat, l \in G PROVE l + 1 \in G
  <2> SUFFICES ASSUME l + 1 <= n
               PROVE  SumOver(f, k .. k + (l + 1) - 1) = c[k + (l + 1)] - c[k]
    OBVIOUS
  <2> DEFINE U == k .. k + l
  <2>1. IsFiniteSet(U) /\ k + l \in U /\ U \ {k + l} = k .. k + l - 1
    <3>1. IsFiniteSet(U)
      BY FS_Interval
    <3>2. k + l \in U /\ U \ {k + l} = k .. k + l - 1
      OBVIOUS
    <3> QED
      BY <3>1, <3>2
  <2>2. \A i \in U : f[i] = c[i + 1] - c[i] /\ f[i] \in Int
    <3> SUFFICES ASSUME NEW i \in U PROVE f[i] = c[i + 1] - c[i] /\ f[i] \in Int
      OBVIOUS
    <3>1. i \in k .. k + n - 1 /\ i \in k .. k + n /\ i + 1 \in k .. k + n
      OBVIOUS
    <3> QED
      BY <3>1
  <2> HIDE DEF U
  <2>3. SumOver(f, U) = f[k + l] + SumOver(f, k .. k + l - 1)
    <3> DEFINE y == k + l
    <3>1. y \in U /\ \A i \in U : f[i] \in Int
      BY <2>1, <2>2
    <3> HIDE DEF y
    <3>2. SumOver(f, U) = f[y] + SumOver(f, U \ {y})
      BY <2>1, <3>1, SumWithout
    <3> QED
      BY <2>1, <3>2 DEF y
  <2>4. SumOver(f, k .. k + l - 1) = c[k + l] - c[k]
    BY <1>2
  <2>5. f[k + l] = c[(k + l) + 1] - c[k + l]
    BY <2>1, <2>2
  <2>6. /\ k + (l + 1) - 1 = k + l /\ (k + l) + 1 = k + (l + 1)
        /\ k \in k .. k + n /\ k + l \in k .. k + n /\ k + (l + 1) \in k .. k + n
    OBVIOUS
  <2>7. c[k] \in Int /\ c[k + l] \in Int /\ c[k + (l + 1)] \in Int
    BY <2>6
  <2>8. SumOver(f, U) = c[k + (l + 1)] - c[k]
    BY <2>3, <2>4, <2>5, <2>6, <2>7
  <2> QED
    BY <2>6, <2>8 DEF U
<1>3. Nat \subseteq G
  <2> HIDE DEF G
  <2> QED
    BY <1>1, <1>2, NumbersAreReached
<1>4. n \in G
  BY <1>3
<1> QED
  BY <1>4

\* The values of a function are no more than its arguments.
LEMMA FiniteImage ==
    ASSUME NEW S, IsFiniteSet(S), NEW f
    PROVE  IsFiniteSet({f[x] : x \in S})
<1> DEFINE Image(T) == {f[x] : x \in T}
           G == {T \in SUBSET S : IsFiniteSet(Image(T))}
<1>1. {} \in G
  <2>1. Image({}) = {}
    OBVIOUS
  <2> QED
    BY <2>1, FS_EmptySet
<1>2. ASSUME NEW T \in SUBSET S, NEW x \in S \ T, T \in G PROVE T \cup {x} \in G
  <2>1. Image(T \cup {x}) = Image(T) \cup {f[x]}
    OBVIOUS
  <2>2. IsFiniteSet(Image(T))
    BY <1>2
  <2> HIDE DEF Image
  <2>3. IsFiniteSet(Image(T) \cup {f[x]})
    BY <2>2, FS_AddElement
  <2> QED
    BY <2>1, <2>3
<1>3. \A T \in SUBSET S : T \in G
  <2> HIDE DEF G
  <2> QED
    BY <1>1, <1>2, SubsetsAreReached
<1>4. S \in G
  BY <1>3
<1> QED
  BY <1>4

\* f counts sets that have no member in common ...
CountsApart(f, F, S) ==
    /\ \A x \in S : IsFiniteSet(F[x]) /\ f[x] = Cardinality(F[x])
    /\ \A x, y \in S : x # y => F[x] \cap F[y] = {}

\* ... and so all their members, each once.
LEMMA SumOfCardinalities ==
    ASSUME NEW S, IsFiniteSet(S), NEW F, NEW f, CountsApart(f, F, S)
    PROVE  /\ IsFiniteSet(UNION {F[x] : x \in S})
           /\ SumOver(f, S) = Cardinality(UNION {F[x] : x \in S})
<1> USE DEF CountsApart
<1> DEFINE All(T) == UNION {F[x] : x \in T}
           G == {T \in SUBSET S : IsFiniteSet(All(T)) /\ SumOver(f, T) = Cardinality(All(T))}
<1>1. \A x \in S : f[x] \in Nat /\ f[x] \in Int
  BY FS_CardinalityType
<1>2. {} \in G
  <2>1. All({}) = {}
    OBVIOUS
  <2>2. SumOver(f, {}) = 0
    BY FS_EmptySet, SumSplit
  <2> HIDE DEF All
  <2> QED
    BY <2>1, <2>2, FS_EmptySet
<1>3. ASSUME NEW T \in SUBSET S, NEW x \in S \ T, T \in G PROVE T \cup {x} \in G
  <2> DEFINE V == T \cup {x}
  <2>1. IsFiniteSet(V) /\ x \in V /\ V \ {x} = T /\ V \in SUBSET S
    BY <1>3, FS_Subset
  <2>2. \A y \in V : f[y] \in Int
    BY <1>1, <2>1
  <2>3. All(V) = All(T) \cup F[x] /\ All(T) \cap F[x] = {}
    OBVIOUS
  <2>4. IsFiniteSet(All(T)) /\ SumOver(f, T) = Cardinality(All(T)) /\ IsFiniteSet(F[x])
        /\ f[x] = Cardinality(F[x])
    BY <1>3
  <2> HIDE DEF V, All
  <2>5. SumOver(f, V) = f[x] + SumOver(f, T)
    <3>1. SumOver(f, V) = f[x] + SumOver(f, V \ {x})
      BY <2>1, <2>2, SumWithout
    <3> QED
      BY <2>1, <3>1
  <2>6. /\ IsFiniteSet(All(V))
        /\ Cardinality(All(V)) = Cardinality(All(T)) + Cardinality(F[x])
    <3> DEFINE A == All(T)
               B == F[x]
    <3> HIDE DEF A, B
    <3>1. IsFiniteSet(A) /\ IsFiniteSet(B) /\ A \cap B = {}
      BY <2>3, <2>4 DEF A, B
    <3>2. IsFiniteSet(A \cup B)
          /\ Cardinality(A \cup B) = Cardinality(A) + Cardinality(B) - Cardinality(A \cap B)
      BY <3>1, FS_Union
    <3>3. Cardinality(A \cap B) = 0 /\ Cardinality(A) \in Nat /\ Cardinality(B) \in Nat
      BY <3>1, FS_EmptySet, FS_CardinalityType
    <3> QED
      BY <2>3, <3>2, <3>3 DEF A, B
  <2>7. Cardinality(All(T)) \in Nat /\ Cardinality(F[x]) \in Nat
    BY <2>4, FS_CardinalityType
  <2>8. SumOver(f, V) = Cardinality(All(V))
    BY <2>4, <2>5, <2>6, <2>7
  <2> QED
    BY <2>1, <2>6, <2>8 DEF V
<1>4. \A T \in SUBSET S : T \in G
  <2> HIDE DEF G
  <2> QED
    BY <1>2, <1>3, SubsetsAreReached
<1>5. S \in G
  BY <1>4
<1> QED
  BY <1>5
=============================================================================
