--------------------------- MODULE PodPatchProofs ---------------------------
(* Theorems about PodPatch, for all values of its constants. *)
EXTENDS PodPatch, SequenceTheorems, FiniteSetTheorems, WellFoundedInduction, TLAPS

-----------------------------------------------------------------------------
(* Induction and folds.                                                      *)

(* Induction over the natural numbers, for a set instead of a predicate.     *)
(* The sets 0..i are finite and strict inclusion of finite sets is           *)
(* well-founded.                                                             *)
LEMMA SetInduction ==
  ASSUME NEW S, 0 \in S, \A n \in Nat : n \in S => n + 1 \in S
  PROVE  Nat \subseteq S
<1> SUFFICES ASSUME Nat \ S # {} PROVE FALSE
  OBVIOUS
<1> DEFINE UpTo(i) == 0..i
           T == {UpTo(i) : i \in Nat \ S}
           R == StrictSubsetOrdering(Nat)
<1>1. T \subseteq FiniteSubsetsOf(Nat) /\ T # {}
  <2>1. \A i \in Nat : UpTo(i) \subseteq Nat /\ IsFiniteSet(UpTo(i))
    BY FS_Interval
  <2> QED BY <2>1 DEF FiniteSubsetsOf
<1>2. IsWellFoundedOn(R, FiniteSubsetsOf(Nat))
  BY FS_StrictSubsetOrderingWellFounded
<1>3. \E x \in T : \A y \in T : <<y, x>> \notin R
  <2> HIDE DEF T, R
  <2> QED BY <1>1, <1>2, WFMin
<1>4. PICK i \in Nat \ S : \A j \in Nat \ S : <<UpTo(j), UpTo(i)>> \notin R
  BY <1>3
<1>5. i # 0 /\ i - 1 \in Nat /\ i - 1 \notin S
  BY <1>4
<1>6. UpTo(i - 1) \subseteq UpTo(i) /\ i \in UpTo(i) /\ i \notin UpTo(i - 1)
  BY <1>5
<1>7. <<UpTo(i - 1), UpTo(i)>> \in R
  BY <1>5, <1>6 DEF StrictSubsetOrdering
<1> QED BY <1>4, <1>5, <1>7

(* Every nonempty set of positions has a last one. *)
LEMMA MaxFacts ==
  ASSUME NEW n \in Nat, NEW s \in SUBSET (1..n), s # {}
  PROVE  Max(s) \in s /\ \A j \in s : j <= Max(s)
<1> DEFINE Good == {m \in Nat : \A t \in SUBSET (1..m) :
                       t # {} => \E x \in t : \A y \in t : x >= y}
<1>1. 0 \in Good
  <2>1. 1..0 = {}
    OBVIOUS
  <2> QED BY <2>1
<1>2. ASSUME NEW m \in Nat, m \in Good
      PROVE  m + 1 \in Good
  <2>1. ASSUME NEW t \in SUBSET (1..(m + 1)), t # {}
        PROVE  \E x \in t : \A y \in t : x >= y
    <3>1. CASE m + 1 \in t
      BY <3>1
    <3>2. CASE m + 1 \notin t
      <4>1. t \in SUBSET (1..m)
        BY <3>2
      <4> QED BY <1>2, <2>1, <4>1
    <3> QED BY <3>1, <3>2
  <2> QED BY <2>1
<1>3. n \in Good
  <2> HIDE DEF Good
  <2> QED BY <1>1, <1>2, SetInduction
<1>4. \E x \in s : \A y \in s : x >= y
  BY <1>3
<1> QED BY <1>4 DEF Max

(* The function that a fold over the first n positions is defined by.        *)
IsFold(g, b, n, step) ==
  \A s \in SUBSET (1..n) : g[s] = IF s = {} THEN b ELSE step[Max(s)][g[s \ {Max(s)}]]

(* There is one. *)
LEMMA FoldExists ==
  ASSUME NEW Q, NEW b \in Q, NEW N \in Nat, NEW step \in [1..N -> [Q -> Q]]
  PROVE  \E g \in [SUBSET (1..N) -> Q] : IsFold(g, b, N, step)
<1> USE DEF IsFold
<1> DEFINE Folds(n, g) == IsFold(g, b, n, step)
           Exists(n) == \E g \in [SUBSET (1..n) -> Q] : Folds(n, g)
           Good == {n \in Nat : n <= N => Exists(n)}
<1>1. 0 \in Good
  <2> DEFINE g == [s \in SUBSET (1..0) |-> b]
  <2>1. g \in [SUBSET (1..0) -> Q]
    OBVIOUS
  <2>2. \A s \in SUBSET (1..0) : s = {}
    OBVIOUS
  <2>3. Folds(0, g)
    BY <2>2
  <2> QED BY <2>1, <2>3
<1>2. ASSUME NEW n \in Nat, n \in Good
      PROVE  n + 1 \in Good
  <2> SUFFICES ASSUME n + 1 <= N PROVE Exists(n + 1)
    <3> HIDE DEF Exists
    <3> QED OBVIOUS
  <2>0. Exists(n)
    <3> HIDE DEF Exists
    <3> QED BY <1>2
  <2>1. PICK g \in [SUBSET (1..n) -> Q] : Folds(n, g)
    BY <2>0
  <2> DEFINE h == [s \in SUBSET (1..(n + 1)) |->
                     IF n + 1 \in s THEN step[n + 1][g[s \ {n + 1}]] ELSE g[s]]
  <2>2. ASSUME NEW s \in SUBSET (1..(n + 1))
        PROVE  /\ h[s] \in Q
               /\ h[s] = IF s = {} THEN b ELSE step[Max(s)][h[s \ {Max(s)}]]
    <3>1. CASE n + 1 \in s
      <4>1. Max(s) = n + 1
        <5>1. n + 1 \in Nat /\ s # {}
          BY <3>1
        <5>2. Max(s) \in s /\ n + 1 <= Max(s)
          BY <3>1, <5>1, MaxFacts
        <5>3. Max(s) \in 1..(n + 1)
          <6> HIDE DEF h
          <6> QED BY <5>2
        <5> HIDE DEF h, Good
        <5> QED BY <5>1, <5>2, <5>3
      <4>2. s \ {n + 1} \in SUBSET (1..n)
        OBVIOUS
      <4>3. h[s \ {n + 1}] = g[s \ {n + 1}]
        BY <4>2
      <4>4. h[s] = step[n + 1][g[s \ {n + 1}]]
        BY <3>1
      <4>5. step[n + 1] \in [Q -> Q] /\ g[s \ {n + 1}] \in Q
        BY <4>2
      <4> HIDE DEF h
      <4> QED BY <3>1, <4>1, <4>3, <4>4, <4>5
    <3>2. CASE n + 1 \notin s
      <4>1. s \in SUBSET (1..n)
        BY <3>2
      <4>2. h[s] = g[s]
        BY <3>2
      <4>3. CASE s = {}
        BY <2>1, <4>1, <4>2, <4>3
      <4>4. CASE s # {}
        <5>1. s \ {Max(s)} \in SUBSET (1..n) /\ n + 1 \notin s \ {Max(s)}
          BY <4>1, <3>2
        <5>2. h[s \ {Max(s)}] = g[s \ {Max(s)}]
          BY <5>1
        <5>3. g[s] = step[Max(s)][g[s \ {Max(s)}]]
          BY <2>1, <4>1, <4>4
        <5> HIDE DEF h
        <5> QED BY <4>1, <4>2, <4>4, <5>2, <5>3
      <4> QED BY <4>3, <4>4
    <3> QED BY <3>1, <3>2
  <2>3. h \in [SUBSET (1..(n + 1)) -> Q]
    <3>1. \A s \in SUBSET (1..(n + 1)) : h[s] \in Q
      BY <2>2
    <3> QED BY <3>1
  <2>4. Folds(n + 1, h)
    BY <2>2
  <2> HIDE DEF h
  <2> QED BY <2>3, <2>4
<1>3. N \in Good
  <2> HIDE DEF Good
  <2> QED BY <1>1, <1>2, SetInduction
<1>4. Exists(N)
  <2> HIDE DEF Exists
  <2> QED BY <1>3
<1> QED BY <1>4

(* Such a function, by itself: its value for the first n positions comes     *)
(* from that for the first n - 1.                                            *)
LEMMA MaxOfInterval ==
  ASSUME NEW n \in Nat, n # 0
  PROVE  Max(1..n) = n /\ (1..n) \ {n} = 1..(n - 1)
<1>1. 1..n \in SUBSET (1..n) /\ n \in 1..n
  OBVIOUS
<1>2. Max(1..n) \in 1..n /\ n <= Max(1..n)
  BY <1>1, MaxFacts
<1> QED BY <1>2

-----------------------------------------------------------------------------
(* Sequences.                                                                *)

LEMMA IsSeqFacts ==
  ASSUME NEW s, IsSeq(s)
  PROVE  Len(s) \in Nat /\ DOMAIN s = 1..Len(s) /\ \A i \in DOMAIN s : s[i] \in ToSet(s)
BY LenProperties DEF IsSeq, ToSet

LEMMA SeqIsSeq ==
  ASSUME NEW S, NEW s \in Seq(S)
  PROVE  IsSeq(s) /\ ToSet(s) \subseteq S
<1>1. DOMAIN s = 1..Len(s) /\ Len(s) \in Nat /\ s \in [1..Len(s) -> S]
  BY LenProperties
<1>2. s \in [1..Len(s) -> ToSet(s)]
  BY <1>1 DEF ToSet
<1>3. s \in Seq(ToSet(s))
  BY <1>1, <1>2, SeqDef
<1> QED BY <1>1, <1>3 DEF IsSeq, ToSet

LEMMA IsSeqIn ==
  ASSUME NEW s, IsSeq(s), NEW S, ToSet(s) \subseteq S
  PROVE  s \in Seq(S)
BY SeqMonotonic DEF IsSeq

LEMMA IsSeqConcat ==
  ASSUME NEW a, NEW b, IsSeq(a), IsSeq(b)
  PROVE  /\ IsSeq(a \o b)
         /\ ToSet(a \o b) = ToSet(a) \cup ToSet(b)
         /\ Len(a \o b) = Len(a) + Len(b)
         /\ \A i \in 1..(Len(a) + Len(b)) :
              (a \o b)[i] = IF i <= Len(a) THEN a[i] ELSE b[i - Len(a)]
<1> DEFINE S == ToSet(a) \cup ToSet(b)
           m == Len(a)
           n == Len(b)
           x == a \o b
<1>1. a \in Seq(S) /\ b \in Seq(S)
  BY IsSeqIn
<1>2. m \in Nat /\ n \in Nat /\ DOMAIN a = 1..m /\ DOMAIN b = 1..n
  BY IsSeqFacts
<1>3. /\ x \in Seq(S) /\ Len(x) = m + n
      /\ \A i \in 1..(m + n) : x[i] = IF i <= m THEN a[i] ELSE b[i - m]
  <2> HIDE DEF S
  <2> QED BY <1>1, ConcatProperties
<1>4. IsSeq(x) /\ ToSet(x) \subseteq S
  <2> HIDE DEF S, x
  <2> QED BY <1>3, SeqIsSeq
<1>5. DOMAIN x = 1..(m + n)
  <2> HIDE DEF x, m, n
  <2> QED BY <1>3, <1>4, IsSeqFacts
<1> HIDE DEF m, n, x
<1>6. \A i \in 1..m : i \in 1..(m + n) /\ x[i] = a[i]
  BY <1>2, <1>3
<1>7. \A i \in 1..n : m + i \in 1..(m + n) /\ x[m + i] = b[i]
  BY <1>2, <1>3
<1>8. S \subseteq ToSet(x)
  BY <1>2, <1>5, <1>6, <1>7 DEF ToSet
<1> QED BY <1>3, <1>4, <1>8 DEF m, n, x

-----------------------------------------------------------------------------
(* Applying a patch.                                                         *)

(* The operations of a patch: items that are added, mounts that are removed, *)
(* and empty lists.                                                          *)
IsAddition(o)  == o.op = "append" /\ o.list \in Lists
IsRemoval(o)   == o.op = "remove" /\ o.list = "mounts" /\ o.value \in Nat \ {0}
IsCreation(o)  == o.op = "create" /\ o.list \in Lists
IsOperation(o) == IsAddition(o) \/ IsRemoval(o) \/ IsCreation(o)

IsPatch(x) == IsSeq(x) /\ \A o \in ToSet(x) : IsOperation(o)

(* What applyPatch does with one operation. *)
Step(d, o) == IF d.ok /\ Applicable(d, o) THEN applyOp(d, o) ELSE [d EXCEPT !.ok = FALSE]

(* Documents with lists of items of I; of any items. *)
DocsOf(I) == [lists : [Lists -> Seq(I)], has : SUBSET Lists, ok : BOOLEAN]
IsDoc(d)  == \E I : d \in DocsOf(I)

LEMMA StepType ==
  ASSUME NEW I, NEW d \in DocsOf(I), NEW o, IsOperation(o), IsAddition(o) => o.value \in I
  PROVE  Step(d, o) \in DocsOf(I)
<1> SUFFICES ASSUME Applicable(d, o)
             PROVE  applyOp(d, o) \in DocsOf(I)
  BY DEF Step, DocsOf
<1>1. CASE IsAddition(o)
  <2>1. o.op = "append" /\ o.list \in Lists /\ d.lists[o.list] \in Seq(I)
    BY <1>1 DEF IsAddition, DocsOf
  <2>2. Append(d.lists[o.list], o.value) \in Seq(I)
    BY <1>1, <2>1
  <2> DEFINE v == Append(d.lists[o.list], o.value)
             lists == [d.lists EXCEPT ![o.list] = v]
  <2>3. applyOp(d, o) = [d EXCEPT !.lists = lists]
    BY <2>1 DEF applyOp, DocsOf
  <2>4. lists \in [Lists -> Seq(I)]
    <3> HIDE DEF v
    <3> QED BY <2>1, <2>2 DEF v, DocsOf
  <2> HIDE DEF lists
  <2> QED BY <2>3, <2>4 DEF DocsOf
<1>2. CASE IsRemoval(o)
  <2>1. o.op = "remove" /\ o.list = "mounts" /\ o.list \in Lists
    BY <1>2 DEF IsRemoval, Lists
  <2>2. d.lists[o.list] \in Seq(I) /\ o.value \in DOMAIN d.lists[o.list]
    BY <2>1 DEF Applicable, DocsOf
  <2>3. RemoveAt(d.lists[o.list], o.value) \in Seq(I)
    <3> DEFINE s == d.lists[o.list]
               i == o.value
    <3>1. s \in Seq(I) /\ i \in 1..Len(s) /\ Len(s) \in Nat
      BY <2>2
    <3> HIDE DEF s, i
    <3>2. SubSeq(s, 1, i - 1) \in Seq(I) /\ SubSeq(s, i + 1, Len(s)) \in Seq(I)
      BY <3>1
    <3>3. RemoveAt(s, i) \in Seq(I)
      BY <3>2 DEF RemoveAt
    <3> QED BY <3>3 DEF s, i
  <2>4. applyOp(d, o) = [d EXCEPT !.lists[o.list] = RemoveAt(d.lists[o.list], o.value)]
    BY <2>1 DEF applyOp, DocsOf
  <2> QED BY <2>1, <2>3, <2>4 DEF DocsOf
<1>3. CASE IsCreation(o)
  <2>1. o.op = "create" /\ o.list \in Lists
    BY <1>3 DEF IsCreation
  <2> DEFINE lists == [d.lists EXCEPT ![o.list] = <<>>]
  <2>2. applyOp(d, o) = [d EXCEPT !.lists = lists, !.has = d.has \cup {o.list}]
    BY <2>1 DEF applyOp, DocsOf
  <2>3. lists \in [Lists -> Seq(I)]
    BY <2>1 DEF DocsOf
  <2> HIDE DEF lists
  <2> QED BY <2>1, <2>2, <2>3, ZenonT(60) DEF DocsOf
<1> QED BY <1>1, <1>2, <1>3 DEF IsOperation

(* The document after each operation of a patch. *)
Runs(f, d, patch) ==
  f[0] = d /\ \A i \in 1..Len(patch) : f[i] = Step(f[i - 1], patch[i])

LEMMA RunUnique ==
  ASSUME NEW d, NEW patch, Len(patch) \in Nat, NEW f, NEW h,
         Runs(f, d, patch), Runs(h, d, patch)
  PROVE  f[Len(patch)] = h[Len(patch)]
<1> DEFINE Same == {n \in Nat : n <= Len(patch) => f[n] = h[n]}
<1>1. 0 \in Same
  BY DEF Runs
<1>2. ASSUME NEW n \in Nat, n \in Same
      PROVE  n + 1 \in Same
  <2> SUFFICES ASSUME n + 1 <= Len(patch) PROVE f[n + 1] = h[n + 1]
    OBVIOUS
  <2>1. f[n] = h[n] /\ n + 1 \in 1..Len(patch) /\ (n + 1) - 1 = n
    BY <1>2
  <2>2. f[n + 1] = Step(f[n], patch[n + 1]) /\ h[n + 1] = Step(h[n], patch[n + 1])
    BY <2>1 DEF Runs
  <2> QED BY <2>1, <2>2
<1>3. Len(patch) \in Same
  <2> HIDE DEF Same
  <2> QED BY <1>1, <1>2, SetInduction
<1> QED BY <1>3

(* applyPatch goes from one operation to the next. *)
LEMMA PatchRuns ==
  ASSUME NEW d, IsDoc(d), NEW patch, IsPatch(patch)
  PROVE  \E f : /\ Runs(f, d, patch)
                /\ applyPatch(d, patch) = f[Len(patch)]
                /\ \A n \in 0..Len(patch) : IsDoc(f[n])
<1>1. PICK H : d \in DocsOf(H)
  BY DEF IsDoc
<1> DEFINE N == Len(patch)
           I == H \cup {patch[i].value : i \in 1..N}
           Q == DocsOf(I)
           body(g) == [s \in SUBSET (1..N) |->
                         IF s = {} THEN d ELSE Step(g[s \ {Max(s)}], patch[Max(s)])]
<1>2. N \in Nat /\ DOMAIN patch = 1..N
  BY IsSeqFacts DEF IsPatch
<1>3. applyPatch(d, patch) = (CHOOSE g : g = body(g))[1..N]
  <2>1. applyPatch(d, patch) =
          (CHOOSE g : g = [s \in SUBSET DOMAIN patch |->
             IF s = {} THEN d ELSE Step(g[s \ {Max(s)}], patch[Max(s)])])[DOMAIN patch]
    BY DEF applyPatch, Step, FoldLeft, MapThenFoldSet
  <2> QED BY <1>2, <2>1
<1>4. d \in Q
  <2>1. Seq(H) \subseteq Seq(I)
    BY SeqMonotonic
  <2> HIDE DEF I
  <2> QED BY <1>1, <2>1 DEF DocsOf
<1>5. ASSUME NEW i \in 1..N, NEW e \in Q
      PROVE  Step(e, patch[i]) \in Q
  <2>1. IsOperation(patch[i]) /\ patch[i].value \in I
    BY <1>2 DEF IsPatch, ToSet
  <2> HIDE DEF I
  <2> QED BY <2>1, StepType
<1>6. \E g : g = body(g)
  <2> DEFINE step == [i \in 1..N |-> [q \in Q |-> Step(q, patch[i])]]
  <2>1. step \in [1..N -> [Q -> Q]]
    <3> HIDE DEF Q, N
    <3> QED BY <1>5
  <2>2. PICK g \in [SUBSET (1..N) -> Q] : IsFold(g, d, N, step)
    <3>1. N \in Nat
      BY <1>2
    <3> HIDE DEF step, Q, N
    <3> QED BY <1>4, <2>1, <3>1, FoldExists
  <2>3. ASSUME NEW s \in SUBSET (1..N)
        PROVE  g[s] = IF s = {} THEN d ELSE Step(g[s \ {Max(s)}], patch[Max(s)])
    <3> HIDE DEF Q, N
    <3>1. CASE s = {}
      BY <2>2, <3>1 DEF IsFold
    <3>2. CASE s # {}
      <4>1. Max(s) \in 1..N /\ s \ {Max(s)} \in SUBSET (1..N)
        BY <1>2, <3>2, MaxFacts
      <4>2. g[s \ {Max(s)}] \in Q
        BY <4>1
      <4> QED BY <2>2, <3>2, <4>1, <4>2 DEF IsFold
    <3> QED BY <3>1, <3>2
  <2>4. g = body(g)
    <3> HIDE DEF Q, N
    <3> QED BY <2>3
  <2> QED BY <2>4
<1> DEFINE g == CHOOSE g : g = body(g)
           f == [n \in 0..N |-> g[1..n]]
<1>7. g = body(g)
  <2> HIDE DEF body
  <2> QED BY <1>6
<1>8. \A s \in SUBSET (1..N) :
        g[s] = IF s = {} THEN d ELSE Step(g[s \ {Max(s)}], patch[Max(s)])
  <2> HIDE DEF g
  <2> QED BY <1>7
<1>9. f[0] = d
  <2>1. 1..0 = {} /\ 0 \in 0..N
    BY <1>2
  <2> HIDE DEF g
  <2> QED BY <1>8, <2>1
<1>10. ASSUME NEW i \in 1..N
       PROVE  f[i] = Step(f[i - 1], patch[i])
  <2>1. Max(1..i) = i /\ (1..i) \ {i} = 1..(i - 1)
    BY <1>2, MaxOfInterval
  <2>2. 1..i \in SUBSET (1..N) /\ i \in 1..i /\ i \in 0..N /\ i - 1 \in 0..N
    <3> HIDE DEF N, g
    <3> QED BY <1>2
  <2>3. g[1..i] = Step(g[1..(i - 1)], patch[i])
    <3> HIDE DEF g
    <3> QED BY <1>8, <2>1, <2>2
  <2> HIDE DEF g
  <2> QED BY <2>2, <2>3
<1>11. ASSUME NEW n \in Nat
       PROVE  n <= N => f[n] \in Q
  <2> DEFINE Typed == {m \in Nat : m <= N => f[m] \in Q}
  <2> HIDE DEF f, Q
  <2>1. 0 \in Typed
    BY <1>4, <1>9
  <2>2. ASSUME NEW m \in Nat, m \in Typed
        PROVE  m + 1 \in Typed
    <3> SUFFICES ASSUME m + 1 <= N PROVE f[m + 1] \in Q
      OBVIOUS
    <3>1. m + 1 \in 1..N /\ (m + 1) - 1 = m
      BY <1>2
    <3>2. f[m + 1] = Step(f[m], patch[m + 1]) /\ f[m] \in Q
      BY <1>2, <1>10, <2>2, <3>1
    <3> QED BY <1>5, <3>1, <3>2
  <2> HIDE DEF Typed
  <2>3. n \in Typed
    BY <2>1, <2>2, SetInduction
  <2> QED BY <2>3 DEF Typed
<1>12. Runs(f, d, patch)
  <2> HIDE DEF f
  <2> QED BY <1>9, <1>10 DEF Runs
<1>13. \A n \in 0..N : IsDoc(f[n])
  <2>1. \A n \in 0..N : f[n] \in DocsOf(I)
    <3> HIDE DEF f, I
    <3> QED BY <1>2, <1>11
  <2> HIDE DEF f, I
  <2> QED BY <2>1 DEF IsDoc
<1>14. applyPatch(d, patch) = f[N]
  BY <1>2, <1>3
<1> HIDE DEF f
<1> QED BY <1>12, <1>13, <1>14

LEMMA PatchType ==
  ASSUME NEW d, IsDoc(d), NEW patch, IsPatch(patch)
  PROVE  IsDoc(applyPatch(d, patch))
<1>1. Len(patch) \in 0..Len(patch)
  BY IsSeqFacts DEF IsPatch
<1> QED BY <1>1, PatchRuns

LEMMA EmptyPatch ==
  ASSUME NEW d, IsDoc(d)
  PROVE  applyPatch(d, <<>>) = d
<1>1. IsPatch(<<>>) /\ Len(<<>>) = 0
  BY DEF IsPatch, IsSeq, ToSet
<1>2. PICK f : Runs(f, d, <<>>) /\ applyPatch(d, <<>>) = f[0]
  BY <1>1, PatchRuns
<1> QED BY <1>2 DEF Runs

LEMMA OneOperation ==
  ASSUME NEW d, IsDoc(d), NEW o, IsOperation(o)
  PROVE  applyPatch(d, <<o>>) = Step(d, o)
<1>1. <<o>> \in Seq({o}) /\ Len(<<o>>) = 1 /\ <<o>>[1] = o
  OBVIOUS
<1>2. IsPatch(<<o>>)
  <2>1. IsSeq(<<o>>) /\ ToSet(<<o>>) \subseteq {o}
    BY <1>1, SeqIsSeq
  <2> QED BY <2>1 DEF IsPatch
<1>3. PICK f : Runs(f, d, <<o>>) /\ applyPatch(d, <<o>>) = f[1]
  BY <1>1, <1>2, PatchRuns
<1>4. f[1] = Step(f[0], o) /\ f[0] = d
  BY <1>1, <1>3 DEF Runs
<1> QED BY <1>3, <1>4

LEMMA PatchConcat ==
  ASSUME NEW d, IsDoc(d), NEW a, NEW b, IsPatch(a), IsPatch(b)
  PROVE  IsPatch(a \o b) /\ applyPatch(d, a \o b) = applyPatch(applyPatch(d, a), b)
<1> DEFINE q == applyPatch(d, a)
           m == Len(a)
           n == Len(b)
<1>1. IsDoc(q)
  BY PatchType
<1>2. PICK f : Runs(f, d, a) /\ q = f[m]
  BY PatchRuns
<1>3. PICK g : Runs(g, q, b) /\ applyPatch(q, b) = g[n]
  <2> HIDE DEF q
  <2> QED BY <1>1, PatchRuns
<1> DEFINE h == [i \in 0..(m + n) |-> IF i <= m THEN f[i] ELSE g[i - m]]
<1>4. Len(a \o b) = m + n /\ m \in Nat /\ n \in Nat /\ IsPatch(a \o b)
  BY IsSeqConcat, IsSeqFacts DEF IsPatch
<1>5. \A i \in 1..(m + n) : (a \o b)[i] = IF i <= m THEN a[i] ELSE b[i - m]
  BY IsSeqConcat DEF IsPatch
<1> HIDE DEF q, m, n
<1>6. h[0] = d
  BY <1>2, <1>4 DEF Runs, m
<1>7. ASSUME NEW i \in 1..(m + n)
      PROVE  h[i] = Step(h[i - 1], (a \o b)[i])
  <2>1. CASE i <= m
    <3>1. i \in 1..m /\ i - 1 <= m /\ i \in 0..(m + n) /\ i - 1 \in 0..(m + n)
      BY <1>4, <2>1
    <3>2. f[i] = Step(f[i - 1], a[i])
      BY <1>2, <3>1 DEF Runs, m
    <3>3. (a \o b)[i] = a[i]
      BY <1>5, <2>1
    <3> QED BY <2>1, <3>1, <3>2, <3>3
  <2>2. CASE i > m
    <3>1. i - m \in 1..n /\ (i - m) - 1 = (i - 1) - m /\ i \in 0..(m + n) /\ i - 1 \in 0..(m + n)
      BY <1>4, <2>2
    <3>2. g[i - m] = Step(g[(i - m) - 1], b[i - m])
      BY <1>3, <3>1 DEF Runs, n
    <3>3. (a \o b)[i] = b[i - m] /\ h[i] = g[i - m]
      BY <1>4, <1>5, <2>2, <3>1
    <3>4. h[i - 1] = g[(i - m) - 1]
      <4>1. CASE i - 1 <= m
        <5>1. i - 1 = m /\ (i - m) - 1 = 0
          BY <1>4, <2>2, <4>1
        <5>2. h[i - 1] = f[m] /\ g[0] = q
          BY <1>3, <3>1, <5>1 DEF Runs
        <5> QED BY <1>2, <5>1, <5>2
      <4>2. CASE ~(i - 1 <= m)
        BY <3>1, <4>2
      <4> QED BY <4>1, <4>2
    <3> HIDE DEF h
    <3> QED BY <3>2, <3>3, <3>4
  <2> QED BY <1>4, <2>1, <2>2
<1>8. Runs(h, d, a \o b)
  <2> HIDE DEF h
  <2> QED BY <1>4, <1>6, <1>7 DEF Runs
<1>9. h[m + n] = applyPatch(q, b)
  <2>1. CASE n = 0
    BY <1>2, <1>3, <1>4, <2>1 DEF Runs
  <2>2. CASE n # 0
    BY <1>3, <1>4, <2>2
  <2> QED BY <2>1, <2>2
<1>10. PICK k : Runs(k, d, a \o b) /\ applyPatch(d, a \o b) = k[m + n]
  BY <1>4, PatchRuns
<1>11. k[m + n] = h[m + n]
  <2>1. Len(a \o b) \in Nat
    BY <1>4
  <2>2. k[Len(a \o b)] = h[Len(a \o b)]
    <3> HIDE DEF h
    <3> QED BY <1>8, <1>10, <2>1, RunUnique, Zenon
  <2> HIDE DEF h
  <2> QED BY <1>4, <2>2
<1>12. applyPatch(d, a \o b) = applyPatch(q, b)
  <2> HIDE DEF h
  <2> QED BY <1>9, <1>10, <1>11
<1> QED BY <1>4, <1>12 DEF q

-----------------------------------------------------------------------------
(* What additions and removals make of a document.                           *)

IsChanges(x) == IsSeq(x) /\ \A o \in ToSet(x) : IsAddition(o) \/ IsRemoval(o)

(* The values that operations add to a list, and those that a patch adds.    *)
AddedBy(os, list) == {o.value : o \in {c \in os : c.op = "append" /\ c.list = list}}
Added(x, list)    == AddedBy(ToSet(x), list)

(* The first operations of a patch. *)
Firsts(x, n) == {x[i] : i \in 1..n}

(* The second sequence starts with the first. *)
Keeps(s, t) == Len(s) <= Len(t) /\ \A i \in 1..Len(s) : t[i] = s[i]

LEMMA AppendKeeps ==
  ASSUME NEW s, IsSeq(s), NEW v
  PROVE  /\ IsSeq(Append(s, v))
         /\ ToSet(Append(s, v)) = ToSet(s) \cup {v}
         /\ \A r : IsSeq(r) /\ Keeps(r, s) => Keeps(r, Append(s, v))
         /\ Len(Append(s, v)) = Len(s) + 1
<1> DEFINE t == Append(s, v)
           S == ToSet(s) \cup {v}
<1>1. s \in Seq(S) /\ v \in S
  BY IsSeqIn
<1>2. /\ t \in Seq(S)
      /\ Len(t) = Len(s) + 1
      /\ \A i \in 1..Len(s) : t[i] = s[i]
      /\ t[Len(s) + 1] = v
  <2> HIDE DEF S
  <2> QED BY <1>1, AppendProperties
<1>3. IsSeq(t)
  <2> HIDE DEF S, t
  <2> QED BY <1>2, SeqIsSeq
<1>4. DOMAIN t = 1..Len(t) /\ Len(s) \in Nat /\ DOMAIN s = 1..Len(s)
  <2> HIDE DEF t
  <2> QED BY <1>3, IsSeqFacts
<1> HIDE DEF t, S
<1>5. ToSet(t) = ToSet(s) \cup {v}
  <2>1. \A i \in 1..(Len(s) + 1) : i \in 1..Len(s) \/ i = Len(s) + 1
    BY <1>4
  <2>2. \A i \in 1..Len(s) : i \in 1..(Len(s) + 1)
    BY <1>4
  <2>3. Len(s) + 1 \in 1..(Len(s) + 1)
    BY <1>4
  <2> QED BY <1>2, <1>4, <2>1, <2>2, <2>3 DEF ToSet
<1>6. ASSUME NEW r, IsSeq(r), Keeps(r, s)
      PROVE  Keeps(r, t)
  <2>1. Len(r) \in Nat
    BY <1>6, IsSeqFacts
  <2>2. \A i \in 1..Len(r) : i \in 1..Len(s)
    BY <1>4, <1>6, <2>1 DEF Keeps
  <2> QED BY <1>2, <1>4, <1>6, <2>1, <2>2 DEF Keeps
<1> QED BY <1>2, <1>3, <1>5, <1>6 DEF t

LEMMA RemoveLeaves ==
  ASSUME NEW s, IsSeq(s), NEW k \in DOMAIN s
  PROVE  /\ IsSeq(RemoveAt(s, k))
         /\ ToSet(RemoveAt(s, k)) \subseteq ToSet(s)
         /\ Len(RemoveAt(s, k)) = Len(s) - 1
<1> DEFINE S == ToSet(s)
           a == SubSeq(s, 1, k - 1)
           b == SubSeq(s, k + 1, Len(s))
<1>1. k \in 1..Len(s) /\ Len(s) \in Nat /\ s \in Seq(S)
  BY IsSeqFacts DEF IsSeq
<1> HIDE DEF S
<1>2. a \in Seq(S) /\ Len(a) = k - 1
  BY <1>1
<1>3. b \in Seq(S) /\ Len(b) = Len(s) - k
  BY <1>1
<1> HIDE DEF a, b
<1>4. a \o b \in Seq(S) /\ Len(a \o b) = Len(s) - 1
  <2>1. Len(a \o b) = Len(a) + Len(b) /\ a \o b \in Seq(S)
    BY <1>2, <1>3, ConcatProperties
  <2> QED BY <1>1, <1>2, <1>3, <2>1
<1>5. RemoveAt(s, k) = a \o b
  BY DEF RemoveAt, a, b
<1>6. IsSeq(a \o b) /\ ToSet(a \o b) \subseteq S
  BY <1>4, SeqIsSeq
<1> QED BY <1>4, <1>5, <1>6 DEF S

LEMMA RemovedIs ==
  ASSUME NEW s, IsSeq(s), NEW k \in DOMAIN s, NEW i \in 1..(Len(s) - 1)
  PROVE  RemoveAt(s, k)[i] = IF i < k THEN s[i] ELSE s[i + 1]
<1> DEFINE S == ToSet(s)
           a == SubSeq(s, 1, k - 1)
           b == SubSeq(s, k + 1, Len(s))
<1>1. k \in 1..Len(s) /\ Len(s) \in Nat /\ s \in Seq(S)
  BY IsSeqFacts DEF IsSeq
<1> HIDE DEF S
<1>2. a \in Seq(S) /\ Len(a) = k - 1 /\ \A j \in 1..(k - 1) : a[j] = s[j]
  BY <1>1
<1>3. b \in Seq(S) /\ Len(b) = Len(s) - k /\ \A j \in 1..(Len(s) - k) : b[j] = s[k + j]
  BY <1>1
<1> HIDE DEF a, b
<1>4. (a \o b)[i] = IF i <= Len(a) THEN a[i] ELSE b[i - Len(a)]
  <2>1. i \in 1..(Len(a) + Len(b))
    BY <1>1, <1>2, <1>3
  <2> QED BY <1>2, <1>3, <2>1, ConcatProperties
<1>5. CASE i < k
  <2>1. i <= Len(a) /\ i \in 1..(k - 1)
    BY <1>1, <1>2, <1>5
  <2> QED BY <1>2, <1>4, <1>5, <2>1 DEF RemoveAt, a, b
<1>6. CASE ~(i < k)
  <2>1. ~(i <= Len(a)) /\ i - Len(a) \in 1..(Len(s) - k) /\ k + (i - Len(a)) = i + 1
    BY <1>1, <1>2, <1>6
  <2> QED BY <1>3, <1>4, <1>6, <2>1 DEF RemoveAt, a, b
<1> QED BY <1>5, <1>6

(* The same member removed of both. *)
LEMMA RemoveKeeps ==
  ASSUME NEW s, NEW t, IsSeq(s), IsSeq(t), Keeps(s, t), NEW k \in DOMAIN s
  PROVE  k \in DOMAIN t /\ Keeps(RemoveAt(s, k), RemoveAt(t, k))
<1>1. /\ DOMAIN s = 1..Len(s) /\ Len(s) \in Nat /\ DOMAIN t = 1..Len(t) /\ Len(t) \in Nat
      /\ Len(s) <= Len(t) /\ \A i \in 1..Len(s) : t[i] = s[i]
  BY IsSeqFacts DEF Keeps
<1>2. k \in DOMAIN t
  BY <1>1
<1>3. Len(RemoveAt(s, k)) = Len(s) - 1 /\ Len(RemoveAt(t, k)) = Len(t) - 1
  BY <1>2, RemoveLeaves
<1>4. ASSUME NEW i \in 1..(Len(s) - 1)
      PROVE  RemoveAt(t, k)[i] = RemoveAt(s, k)[i]
  <2>1. i \in 1..(Len(t) - 1) /\ i \in 1..Len(s) /\ i + 1 \in 1..Len(s)
    BY <1>1
  <2> QED BY <1>1, <1>2, <2>1, RemovedIs
<1> QED BY <1>1, <1>2, <1>3, <1>4 DEF Keeps

LEMMA KeepsItself ==
  ASSUME NEW s, IsSeq(s)
  PROVE  Keeps(s, s)
BY IsSeqFacts DEF Keeps

LEMMA KeepsOn ==
  ASSUME NEW r, NEW s, NEW t, IsSeq(r), IsSeq(s), IsSeq(t), Keeps(r, s), Keeps(s, t)
  PROVE  Keeps(r, t)
<1>1. Len(r) \in Nat /\ Len(s) \in Nat /\ Len(t) \in Nat
  BY IsSeqFacts
<1> QED BY <1>1 DEF Keeps

LEMMA KeepsIsPrefix ==
  ASSUME NEW s, NEW t, IsSeq(s), IsSeq(t), Keeps(s, t)
  PROVE  IsPrefix(s, t)
<1>1. Len(s) \in Nat /\ Len(t) \in Nat /\ Len(s) <= Len(t) /\ \A i \in 1..Len(s) : t[i] = s[i]
  BY IsSeqFacts DEF Keeps
<1>2. SubSeq(s, 1, Len(s)) = SubSeq(t, 1, Len(s))
  BY <1>1
<1> QED BY <1>1, <1>2 DEF IsPrefix

LEMMA DocFacts ==
  ASSUME NEW d, IsDoc(d)
  PROVE  /\ \A list \in Lists : IsSeq(d.lists[list])
         /\ d.has \subseteq Lists /\ d.ok \in BOOLEAN
<1>1. PICK I : d \in DocsOf(I)
  BY DEF IsDoc
<1>2. \A list \in Lists : d.lists[list] \in Seq(I)
  BY <1>1 DEF DocsOf
<1> QED BY <1>1, <1>2, SeqIsSeq DEF DocsOf

LEMMA StepIsDoc ==
  ASSUME NEW d, IsDoc(d), NEW o, IsOperation(o)
  PROVE  IsDoc(Step(d, o))
<1>1. PICK H : d \in DocsOf(H)
  BY DEF IsDoc
<1> DEFINE I == H \cup {o.value}
<1>2. Seq(H) \subseteq Seq(I)
  BY SeqMonotonic
<1>3. d \in DocsOf(I) /\ o.value \in I
  BY <1>1, <1>2 DEF DocsOf
<1> HIDE DEF I
<1>4. Step(d, o) \in DocsOf(I)
  BY <1>3, StepType
<1> QED BY <1>4 DEF IsDoc

(* One change: the list it is about, and the others. *)
LEMMA ChangeStep ==
  ASSUME NEW d, IsDoc(d), NEW o, IsAddition(o) \/ IsRemoval(o), Step(d, o).ok,
         NEW list \in Lists
  PROVE  LET s == d.lists[list]
             t == Step(d, o).lists[list]
         IN  /\ d.ok /\ o.list \in d.has /\ Step(d, o).has = d.has
             /\ list # o.list => t = s
             /\ list = o.list =>
                  \/ o.op = "append" /\ t = Append(s, o.value)
                  \/ /\ o.op = "remove" /\ list = "mounts" /\ o.value \in DOMAIN s
                     /\ t = RemoveAt(s, o.value)
<1> DEFINE e == Step(d, o)
<1>0. PICK I : d \in DocsOf(I)
  BY DEF IsDoc
<1>1. d.ok /\ Applicable(d, o) /\ e = applyOp(d, o)
  BY <1>0 DEF Step, DocsOf
<1> HIDE DEF e
<1>2. CASE IsAddition(o)
  <2>1. o.op = "append" /\ o.list \in Lists
    BY <1>2 DEF IsAddition
  <2> DEFINE lists == [d.lists EXCEPT ![o.list] = Append(d.lists[o.list], o.value)]
  <2>2. e = [d EXCEPT !.lists = lists] /\ o.list \in d.has
    BY <1>0, <1>1, <2>1 DEF applyOp, Applicable, DocsOf
  <2>3. e.lists = lists /\ e.has = d.has
    <3> HIDE DEF lists
    <3> QED BY <1>0, <2>2 DEF DocsOf
  <2>4. lists[list] = IF list = o.list THEN Append(d.lists[list], o.value) ELSE d.lists[list]
    BY <1>0 DEF DocsOf
  <2> HIDE DEF lists
  <2> QED BY <1>1, <2>1, <2>2, <2>3, <2>4 DEF e
<1>3. CASE IsRemoval(o)
  <2>1. o.op = "remove" /\ o.list = "mounts"
    BY <1>3 DEF IsRemoval
  <2> DEFINE lists == [d.lists EXCEPT ![o.list] = RemoveAt(d.lists[o.list], o.value)]
  <2>2. e = [d EXCEPT !.lists = lists] /\ o.list \in d.has /\ o.value \in DOMAIN d.lists[o.list]
    BY <1>0, <1>1, <2>1 DEF applyOp, Applicable, DocsOf
  <2>3. e.lists = lists /\ e.has = d.has
    <3> HIDE DEF lists
    <3> QED BY <1>0, <2>2 DEF DocsOf
  <2>4. lists[list] = IF list = o.list THEN RemoveAt(d.lists[list], o.value) ELSE d.lists[list]
    BY <1>0 DEF DocsOf
  <2> HIDE DEF lists
  <2> QED BY <1>1, <2>1, <2>2, <2>3, <2>4 DEF e
<1> QED BY <1>2, <1>3

(* The document e comes from d by changes os. *)
Grows(d, e, os) ==
  /\ IsDoc(e) /\ d.ok /\ e.has = d.has
  /\ \A list \in Lists :
       /\ ToSet(e.lists[list]) \subseteq ToSet(d.lists[list]) \cup AddedBy(os, list)
       /\ list # "mounts" =>
            /\ ToSet(d.lists[list]) \cup AddedBy(os, list) \subseteq ToSet(e.lists[list])
            /\ Keeps(d.lists[list], e.lists[list])

LEMMA FirstsNext ==
  ASSUME NEW x, NEW n \in Nat
  PROVE  Firsts(x, 0) = {} /\ Firsts(x, n + 1) = Firsts(x, n) \cup {x[n + 1]}
<1>1. 1..0 = {}
  OBVIOUS
<1>2. \A i \in 1..(n + 1) : i \in 1..n \/ i = n + 1
  OBVIOUS
<1>3. n + 1 \in 1..(n + 1) /\ \A i \in 1..n : i \in 1..(n + 1)
  OBVIOUS
<1> QED BY <1>1, <1>2, <1>3 DEF Firsts

LEMMA GrowsByOne ==
  ASSUME NEW d, IsDoc(d), NEW e, NEW os, NEW o, IsAddition(o) \/ IsRemoval(o),
         Grows(d, e, os), Step(e, o).ok
  PROVE  Grows(d, Step(e, o), os \cup {o})
<1> DEFINE r == Step(e, o)
<1>1. IsDoc(e) /\ d.ok /\ e.has = d.has
  BY DEF Grows
<1>2. IsDoc(r)
  BY <1>1, StepIsDoc DEF IsOperation
<1>3. r.has = d.has
  <2>1. "env" \in Lists
    BY DEF Lists
  <2> QED BY <1>1, <2>1, ChangeStep
<1>4. ASSUME NEW list \in Lists
      PROVE  /\ ToSet(r.lists[list]) \subseteq ToSet(d.lists[list]) \cup AddedBy(os \cup {o}, list)
             /\ list # "mounts" =>
                  /\ ToSet(d.lists[list]) \cup AddedBy(os \cup {o}, list) \subseteq ToSet(r.lists[list])
                  /\ Keeps(d.lists[list], r.lists[list])
  <2> DEFINE s == e.lists[list]
             t == r.lists[list]
             u == d.lists[list]
  <2>1. /\ ToSet(s) \subseteq ToSet(u) \cup AddedBy(os, list)
        /\ list # "mounts" => /\ ToSet(u) \cup AddedBy(os, list) \subseteq ToSet(s)
                              /\ Keeps(u, s)
    BY DEF Grows
  <2>2. AddedBy(os \cup {o}, list) =
          AddedBy(os, list) \cup (IF o.op = "append" /\ o.list = list THEN {o.value} ELSE {})
    BY DEF AddedBy
  <2>3. /\ list # o.list => t = s
        /\ list = o.list =>
             \/ o.op = "append" /\ t = Append(s, o.value)
             \/ /\ o.op = "remove" /\ list = "mounts" /\ o.value \in DOMAIN s
                /\ t = RemoveAt(s, o.value)
    BY <1>1, ChangeStep
  <2>4. IsSeq(s) /\ IsSeq(u)
    BY <1>1, DocFacts
  <2> HIDE DEF r, s, t, u
  <2>5. CASE list # o.list
    BY <2>1, <2>2, <2>3, <2>5 DEF s, t, u
  <2>6. CASE list = o.list /\ o.op = "append"
    <3>1. t = Append(s, o.value)
      BY <2>3, <2>6
    <3>2. ToSet(t) = ToSet(s) \cup {o.value} /\ (Keeps(u, s) => Keeps(u, t))
      BY <2>4, <3>1, AppendKeeps
    <3>3. AddedBy(os \cup {o}, list) = AddedBy(os, list) \cup {o.value}
      BY <2>2, <2>6
    <3> QED BY <2>1, <3>2, <3>3 DEF s, t, u
  <2>7. CASE list = o.list /\ o.op = "remove"
    <3>1. list = "mounts" /\ o.value \in DOMAIN s /\ t = RemoveAt(s, o.value)
      BY <2>3, <2>7
    <3>2. ToSet(t) \subseteq ToSet(s)
      BY <2>4, <3>1, RemoveLeaves
    <3> QED BY <2>1, <2>2, <3>1, <3>2 DEF s, t, u
  <2>8. list = o.list => o.op = "append" \/ o.op = "remove"
    BY <2>3
  <2> QED BY <2>5, <2>6, <2>7, <2>8 DEF s, t, u
<1> QED BY <1>1, <1>2, <1>3, <1>4 DEF Grows

LEMMA ChangesGrow ==
  ASSUME NEW d, IsDoc(d), NEW x, IsChanges(x), applyPatch(d, x).ok
  PROVE  Grows(d, applyPatch(d, x), ToSet(x))
<1>1. IsPatch(x) /\ Len(x) \in Nat /\ DOMAIN x = 1..Len(x)
  BY IsSeqFacts DEF IsPatch, IsChanges, IsOperation
<1>2. PICK f : /\ Runs(f, d, x) /\ applyPatch(d, x) = f[Len(x)]
                /\ \A n \in 0..Len(x) : IsDoc(f[n])
  BY <1>1, PatchRuns
<1> DEFINE Good == {n \in Nat : n <= Len(x) /\ f[n].ok => Grows(d, f[n], Firsts(x, n))}
<1>3. 0 \in Good
  <2>1. \A list \in Lists : AddedBy({}, list) = {}
    BY DEF AddedBy
  <2>2. \A list \in Lists : Keeps(d.lists[list], d.lists[list])
    BY DocFacts, KeepsItself
  <2>3. Firsts(x, 0) = {}
    BY FirstsNext
  <2>4. d.ok => Grows(d, d, {})
    BY <2>1, <2>2 DEF Grows
  <2> QED BY <1>2, <2>3, <2>4 DEF Runs
<1>4. ASSUME NEW n \in Nat, n \in Good
      PROVE  n + 1 \in Good
  <2> SUFFICES ASSUME n + 1 <= Len(x), f[n + 1].ok
               PROVE  Grows(d, f[n + 1], Firsts(x, n + 1))
    OBVIOUS
  <2>1. n + 1 \in 1..Len(x) /\ (n + 1) - 1 = n /\ n <= Len(x)
    BY <1>1
  <2>2. f[n + 1] = Step(f[n], x[n + 1])
    BY <1>2, <2>1 DEF Runs
  <2>3. IsAddition(x[n + 1]) \/ IsRemoval(x[n + 1])
    BY <1>1, <2>1 DEF IsChanges, ToSet
  <2>4. IsDoc(f[n])
    <3>1. n \in 0..Len(x)
      BY <1>1, <2>1
    <3> QED BY <1>2, <3>1
  <2>5. f[n].ok
    BY <2>2, <2>3, <2>4, ChangeStep DEF Lists
  <2>6. Grows(d, f[n], Firsts(x, n))
    BY <1>4, <2>1, <2>5
  <2>7. Firsts(x, n + 1) = Firsts(x, n) \cup {x[n + 1]}
    BY FirstsNext
  <2> HIDE DEF Good
  <2> QED BY <2>2, <2>3, <2>6, <2>7, GrowsByOne
<1>5. Len(x) \in Good
  <2> HIDE DEF Good
  <2> QED BY <1>1, <1>3, <1>4, SetInduction
<1>6. ToSet(x) = Firsts(x, Len(x)) /\ Len(x) <= Len(x)
  BY <1>1 DEF ToSet, Firsts
<1> QED BY <1>2, <1>5, <1>6

-----------------------------------------------------------------------------
(* What the technologies add.                                                *)

(* The volumes that an item mounts, but for what a collector does not bring. *)
MountedBy(list, item) ==
  IF list = "mounts" THEN {item.volume}
  ELSE IF list = "inits" THEN ToSet(item.volumes)
  ELSE IF list = "containers" THEN ToSet(item.volumes) \ NotBrought(item) ELSE {}

(* A patch of additions that mount only volumes it adds, or of V.            *)
Brings(x, V) ==
  /\ IsSeq(x)
  /\ \A o \in ToSet(x) : /\ IsAddition(o)
                         /\ MountedBy(o.list, o.value) \subseteq V \cup Added(x, "volumes")

LEMMA BringsConcat ==
  ASSUME NEW V, NEW a, NEW b, Brings(a, V), Brings(b, V)
  PROVE  Brings(a \o b, V)
<1>1. IsSeq(a \o b) /\ ToSet(a \o b) = ToSet(a) \cup ToSet(b)
  BY IsSeqConcat DEF Brings
<1>2. Added(a \o b, "volumes") = Added(a, "volumes") \cup Added(b, "volumes")
  BY <1>1 DEF Added, AddedBy
<1> QED BY <1>1, <1>2 DEF Brings

LEMMA BringsFive ==
  ASSUME NEW V, NEW a, NEW b, NEW c, NEW d, NEW e,
         Brings(a, V), Brings(b, V), Brings(c, V), Brings(d, V), Brings(e, V)
  PROVE  Brings(a \o b \o c \o d \o e, V)
<1>1. Brings(a \o b, V)
  BY BringsConcat
<1>2. Brings(a \o b \o c, V)
  BY <1>1, BringsConcat
<1>3. Brings(a \o b \o c \o d, V)
  BY <1>2, BringsConcat
<1> QED BY <1>3, BringsConcat

LEMMA BringsSix ==
  ASSUME NEW V, NEW a, NEW b, NEW c, NEW d, NEW e, NEW f,
         Brings(a, V), Brings(b, V), Brings(c, V), Brings(d, V), Brings(e, V), Brings(f, V)
  PROVE  Brings(a \o b \o c \o d \o e \o f, V)
<1>1. Brings(a \o b \o c \o d \o e, V)
  BY BringsFive
<1> QED BY <1>1, BringsConcat

LEMMA Tuples ==
  /\ IsSeq(<<>>) /\ ToSet(<<>>) = {}
  /\ \A a : IsSeq(<<a>>) /\ ToSet(<<a>>) = {a}
  /\ \A a, b : IsSeq(<<a, b>>) /\ ToSet(<<a, b>>) = {a, b}
  /\ \A a, b, c : IsSeq(<<a, b, c>>) /\ ToSet(<<a, b, c>>) = {a, b, c}
<1>1. IsSeq(<<>>) /\ ToSet(<<>>) = {}
  BY DEF IsSeq, ToSet
<1>2. ASSUME NEW a
      PROVE  IsSeq(<<a>>) /\ ToSet(<<a>>) = {a}
  <2>1. ToSet(<<a>>) = {a}
    BY DEF ToSet
  <2> QED BY <2>1 DEF IsSeq
<1>3. ASSUME NEW a, NEW b
      PROVE  IsSeq(<<a, b>>) /\ ToSet(<<a, b>>) = {a, b}
  <2>1. ToSet(<<a, b>>) = {a, b}
    BY DEF ToSet
  <2> QED BY <2>1 DEF IsSeq
<1>4. ASSUME NEW a, NEW b, NEW c
      PROVE  IsSeq(<<a, b, c>>) /\ ToSet(<<a, b, c>>) = {a, b, c}
  <2> DEFINE t == <<a, b, c>>
  <2>1. DOMAIN t = 1..3 /\ t[1] = a /\ t[2] = b /\ t[3] = c /\ t \in Seq({a, b, c})
    OBVIOUS
  <2> HIDE DEF t
  <2>2. \A i \in 1..3 : i = 1 \/ i = 2 \/ i = 3
    OBVIOUS
  <2>3. ToSet(t) = {a, b, c}
    BY <2>1, <2>2 DEF ToSet
  <2> QED BY <2>1, <2>3 DEF IsSeq, t
<1> QED BY <1>1, <1>2, <1>3, <1>4

(* Variables mount nothing. *)
LEMMA EnvBrings ==
  ASSUME NEW v, IsSeq(v), NEW V
  PROVE  Brings(Env(v), V)
<1>1. DOMAIN v = 1..Len(v) /\ Len(v) \in Nat
  BY IsSeqFacts
<1> DEFINE S == {AddItem("env", v[i]) : i \in DOMAIN v}
<1>2. Env(v) \in Seq(S)
  BY <1>1 DEF Env, Adding
<1>3. IsSeq(Env(v)) /\ ToSet(Env(v)) \subseteq S
  <2> HIDE DEF S
  <2> QED BY <1>2, SeqIsSeq
<1>4. \A o \in S : IsAddition(o) /\ MountedBy(o.list, o.value) = {}
  BY DEF AddItem, IsAddition, Lists, MountedBy
<1> QED BY <1>3, <1>4 DEF Brings

LEMMA VariablesBring ==
  ASSUME NEW V
  PROVE  /\ Brings(<<>>, V) /\ Brings(addControllerEnvVars, V) /\ Brings(Naming, V)
         /\ Brings(Netviz, V) /\ Brings(Service, V)
         /\ \A v : Brings(Env(<<v>>), V)
         /\ \A v, w : Brings(Env(<<v, w>>), V)
         /\ \A r, name : Brings(addK8SOtelResourceAttrs(r, name), V)
         /\ \A r, c : Brings(addJavaEnvVar(r, c), V)
         /\ \A r : Brings(dotnetOtelEnv(r), V)
<1>1. Brings(<<>>, V)
  BY Tuples DEF Brings
<1>2. \A v : Brings(Env(<<v>>), V)
  BY Tuples, EnvBrings
<1>3. \A v, w : Brings(Env(<<v, w>>), V)
  BY Tuples, EnvBrings
<1>4. \A r, name : Brings(addK8SOtelResourceAttrs(r, name), V)
  BY <1>1, <1>3 DEF addK8SOtelResourceAttrs
<1>5. \A r, c : Brings(addJavaEnvVar(r, c), V)
  BY <1>2, <1>4, BringsConcat DEF addJavaEnvVar
<1>6. \A r : Brings(dotnetOtelEnv(r), V)
  BY <1>2, <1>4, BringsConcat DEF dotnetOtelEnv
<1> QED
  BY <1>1, <1>2, <1>3, <1>4, <1>5, <1>6
  DEF addControllerEnvVars, Naming, Netviz, Service

LEMMA AgentBrings ==
  ASSUME NEW V, NEW repo
  PROVE  Brings(Agent(repo), V)
<1> DEFINE a == AddItem("mounts", Mount(repo, "agent"))
           b == AddItem("inits", Container(repo, <<repo>>, "none"))
           c == AddItem("volumes", repo)
<1>1. IsSeq(Agent(repo)) /\ ToSet(Agent(repo)) = {a, b, c}
  BY Tuples DEF Agent
<1>2. IsAddition(a) /\ IsAddition(b) /\ IsAddition(c)
  BY DEF AddItem, IsAddition, Lists
<1>3. repo \in AddedBy({a, b, c}, "volumes")
  <2>1. c.op = "append" /\ c.list = "volumes" /\ c.value = repo
    BY DEF AddItem
  <2> HIDE DEF a, b, c
  <2> QED BY <2>1 DEF AddedBy
<1>4. /\ MountedBy(a.list, a.value) \subseteq {repo}
      /\ MountedBy(b.list, b.value) \subseteq {repo}
      /\ MountedBy(c.list, c.value) \subseteq {repo}
  BY Tuples DEF MountedBy, AddItem, Mount, Container
<1> HIDE DEF a, b, c
<1> QED BY <1>1, <1>2, <1>3, <1>4 DEF Brings, Added

(* So are the volumes of the spec of a collector.                            *)
LEMMA OwnAreSeqs ==
  ASSUME NEW c
  PROVE  IsSeq(OwnMounts(c)) /\ IsSeq(OwnVolumes(c))
BY PatchAssumption, Tuples DEF OwnMounts, OwnVolumes

LEMMA AddingVolumes ==
  ASSUME NEW v, IsSeq(v)
  PROVE  /\ IsSeq(Adding("volumes", v))
         /\ \A o \in ToSet(Adding("volumes", v)) :
              IsAddition(o) /\ o.list = "volumes" /\ MountedBy(o.list, o.value) = {}
         /\ Added(Adding("volumes", v), "volumes") = ToSet(v)
<1>1. DOMAIN v = 1..Len(v) /\ Len(v) \in Nat
  BY IsSeqFacts
<1> DEFINE x == Adding("volumes", v)
           S == {AddItem("volumes", v[i]) : i \in DOMAIN v}
<1>2. x \in Seq(S) /\ DOMAIN x = DOMAIN v /\ \A i \in DOMAIN v : x[i] = AddItem("volumes", v[i])
  BY <1>1 DEF Adding
<1>3. IsSeq(x) /\ ToSet(x) \subseteq S
  <2> HIDE DEF S, x
  <2> QED BY <1>2, SeqIsSeq
<1>4. \A o \in S : IsAddition(o) /\ o.list = "volumes" /\ MountedBy(o.list, o.value) = {}
  BY DEF AddItem, IsAddition, Lists, MountedBy
<1>5. ToSet(x) = S
  <2> HIDE DEF x
  <2> QED BY <1>2 DEF ToSet
<1>6. \A w : AddItem("volumes", w).op = "append" /\ AddItem("volumes", w).list = "volumes"
             /\ AddItem("volumes", w).value = w
  BY DEF AddItem
<1>7. AddedBy(S, "volumes") = {v[i] : i \in DOMAIN v}
  <2>1. {o \in S : o.op = "append" /\ o.list = "volumes"} = S
    BY <1>6
  <2>2. {o.value : o \in S} = {v[i] : i \in DOMAIN v}
    <3>1. \A o \in S : \E i \in DOMAIN v : o.value = v[i]
      BY <1>6
    <3>2. \A i \in DOMAIN v : \E o \in S : o.value = v[i]
      BY <1>6
    <3> HIDE DEF S
    <3> QED BY <3>1, <3>2
  <2> HIDE DEF S
  <2> QED BY <2>1, <2>2 DEF AddedBy
<1> HIDE DEF x, S
<1>8. Added(x, "volumes") = ToSet(v)
  BY <1>5, <1>7 DEF Added, ToSet
<1> QED BY <1>3, <1>4, <1>8 DEF x

(* A sidecar mounts what comes with it, and what its collector does not      *)
(* bring.                                                                    *)
LEMMA SidecarMountsBrought ==
  ASSUME NEW c
  PROVE  ToSet(Sidecar(c).volumes) \ NotBrought(Sidecar(c))
           \subseteq {ConfigVolume} \cup ToSet(OwnVolumes(c))
<1>1. ToSet(Sidecar(c).volumes) = ToSet(OwnMounts(c)) \cup {ConfigVolume}
  <2>1. Sidecar(c).volumes = Append(OwnMounts(c), ConfigVolume)
    BY DEF Sidecar, Container
  <2> QED BY <2>1, OwnAreSeqs, AppendKeeps
<1>2. CASE c \in OwnSidecars
  <2>1. ToSet(SidecarMounts[c]) \ ToSet(SidecarVolumes[c]) \subseteq NotBrought(Sidecar(c))
    BY <1>2 DEF NotBrought
  <2> QED BY <1>1, <1>2, <2>1 DEF OwnMounts, OwnVolumes
<1>3. CASE c \notin OwnSidecars
  BY <1>1, <1>3, Tuples DEF OwnMounts
<1> QED BY <1>2, <1>3

LEMMA SidecarBrings ==
  ASSUME NEW V
  PROVE  /\ \A first, second, third : Brings(SidecarIf(first, second, third), V)
         /\ \A look : Brings(Exporting(look), V)
<1>1. ASSUME NEW d
      PROVE  Brings(SidecarOps(d), V)
  <2> DEFINE a == AddItem("containers", Sidecar(d))
             b == AddItem("inits", Container(SidecarInit, <<ConfigVolume>>, "none"))
             c == AddItem("volumes", ConfigVolume)
             v == Adding("volumes", OwnVolumes(d))
  <2>1. /\ IsSeq(v)
        /\ \A o \in ToSet(v) : IsAddition(o) /\ MountedBy(o.list, o.value) = {}
        /\ Added(v, "volumes") = ToSet(OwnVolumes(d))
    BY OwnAreSeqs, AddingVolumes
  <2>2. IsSeq(SidecarOps(d)) /\ ToSet(SidecarOps(d)) = {a, b, c} \cup ToSet(v)
    <3>1. IsSeq(<<a, b, c>>) /\ ToSet(<<a, b, c>>) = {a, b, c}
      BY Tuples
    <3>2. SidecarOps(d) = <<a, b, c>> \o v
      BY DEF SidecarOps
    <3> DEFINE t == <<a, b, c>>
    <3> HIDE DEF t, v
    <3>3. IsSeq(t \o v) /\ ToSet(t \o v) = ToSet(t) \cup ToSet(v)
      BY <2>1, <3>1, IsSeqConcat DEF t
    <3> QED BY <3>1, <3>2, <3>3 DEF t
  <2>3. IsAddition(a) /\ IsAddition(b) /\ IsAddition(c)
    BY DEF AddItem, IsAddition, Lists
  <2>4. c.op = "append" /\ c.list = "volumes" /\ c.value = ConfigVolume
    BY DEF AddItem
  <2>5. /\ MountedBy(a.list, a.value) \subseteq {ConfigVolume} \cup ToSet(OwnVolumes(d))
        /\ MountedBy(b.list, b.value) \subseteq {ConfigVolume}
        /\ MountedBy(c.list, c.value) \subseteq {ConfigVolume}
    BY SidecarMountsBrought, Tuples DEF MountedBy, AddItem, Container
  <2> HIDE DEF a, b, c, v
  <2>6. {ConfigVolume} \cup ToSet(OwnVolumes(d)) \subseteq Added(SidecarOps(d), "volumes")
    BY <2>1, <2>2, <2>4 DEF Added, AddedBy
  <2> QED BY <2>1, <2>2, <2>3, <2>5, <2>6 DEF Brings
<1>2. \A first, second, third : Brings(SidecarIf(first, second, third), V)
  BY <1>1, VariablesBring DEF SidecarIf, addOtelCollSidecar
<1>3. \A look : Brings(Exporting(look), V)
  BY <1>2, VariablesBring, BringsConcat DEF Exporting
<1> QED BY <1>2, <1>3

(* Whatever the technology, but for the web servers.                         *)
LEMMA TechnologyBrings ==
  ASSUME NEW V, NEW p, NEW r, NEW look, IsSeq(r.env),
         r.technology \notin {"apache/otel", "nginx/otel"}
  PROVE  Brings(applyInjectionRule(p, r, look), V)
<1>1. Brings(Env(r.env), V)
  BY EnvBrings
<1>2. /\ Brings(addControllerEnvVars, V) /\ Brings(Naming, V) /\ Brings(Netviz, V)
      /\ Brings(Service, V) /\ Brings(Exporting(look), V)
      /\ \A v : Brings(Env(<<v>>), V)
      /\ \A repo : Brings(Agent(repo), V)
  BY VariablesBring, AgentBrings, SidecarBrings
<1>3. Brings(javaAppd(r, look), V)
  <2>1. Brings(addJavaEnvVar(r, look[1]), V) /\ Brings(Agent("appd-agent-repo-java"), V)
    BY <1>2, VariablesBring
  <2>2. Brings(SidecarIf(look[2], look[3], look[4]), V)
    BY SidecarBrings
  <2>3. Brings(addControllerEnvVars \o addJavaEnvVar(r, look[1]) \o Naming \o Env(r.env)
                 \o Netviz \o Agent("appd-agent-repo-java"), V)
    BY <1>1, <1>2, <2>1, BringsSix
  <2> QED BY <2>2, <2>3, BringsConcat DEF javaAppd
<1>4. Brings(dotnetAppd(r, look), V)
  <2> DEFINE x == IF Found(look[1]) THEN dotnetOtelEnv(r) ELSE <<>>
             y == Env(<<Var("CORECLR_PROFILER")>>)
             z == Agent("appd-agent-repo-dotnetcore")
  <2>1. Brings(x, V) /\ Brings(y, V) /\ Brings(z, V)
    BY <1>2, VariablesBring
  <2>2. dotnetAppd(r, look) = addControllerEnvVars \o y \o x \o Exporting(look)
                                \o Naming \o Env(r.env) \o Netviz \o z
    BY DEF dotnetAppd
  <2> HIDE DEF x, y, z
  <2>3. Brings(addControllerEnvVars \o y \o x \o Exporting(look) \o Naming \o Env(r.env), V)
    BY <1>1, <1>2, <2>1, BringsSix
  <2> QED BY <1>2, <2>1, <2>2, <2>3, BringsConcat
<1>5. Brings(nodejsAppd(r), V)
  <2> DEFINE y == Env(<<Var("NODE_OPTIONS")>>)
             z == Agent("appd-agent-repo-nodejs")
  <2>1. Brings(y, V) /\ Brings(z, V)
    BY <1>2
  <2>2. nodejsAppd(r) = addControllerEnvVars \o y \o Naming \o Env(r.env) \o Netviz \o z
    BY DEF nodejsAppd
  <2> HIDE DEF y, z
  <2> QED BY <1>1, <1>2, <2>1, <2>2, BringsSix
<1>6. Brings(javaOtel(r, look), V)
  <2> DEFINE y == Env(<<Var("JAVA_TOOL_OPTIONS"), Var(Attributes)>>)
             z == Agent("otel-agent-repo-java")
  <2>1. Brings(y, V) /\ Brings(z, V)
    BY <1>2, VariablesBring
  <2>2. javaOtel(r, look) = y \o Service \o Env(r.env) \o z \o Exporting(look)
    BY DEF javaOtel
  <2> HIDE DEF y, z
  <2> QED BY <1>1, <1>2, <2>1, <2>2, BringsFive
<1>7. Brings(dotnetOtel(r, look), V)
  <2> DEFINE x == Env(<<Var("CORECLR_PROFILER")>>)
             y == Env(<<Var(Attributes)>>)
             z == Agent("otel-agent-repo-dotnetcore")
  <2>1. Brings(x, V) /\ Brings(y, V) /\ Brings(z, V)
    BY <1>2
  <2>2. dotnetOtel(r, look) = x \o Service \o y \o Exporting(look) \o Env(r.env) \o z
    BY DEF dotnetOtel
  <2> HIDE DEF x, y, z
  <2> QED BY <1>1, <1>2, <2>1, <2>2, BringsSix
<1>8. Brings(nodejsOtel(r, look), V)
  <2> DEFINE y == Env(<<Var("NODE_OPTIONS")>>)
             z == Agent("otel-agent-repo-nodejs")
  <2>1. Brings(y, V) /\ Brings(z, V)
    BY <1>2
  <2>2. nodejsOtel(r, look) = y \o Service \o Env(r.env) \o z \o Exporting(look)
    BY DEF nodejsOtel
  <2> HIDE DEF y, z
  <2> QED BY <1>1, <1>2, <2>1, <2>2, BringsFive
<1>9. Brings(<<>>, V)
  BY VariablesBring
<1> QED BY <1>3, <1>4, <1>5, <1>6, <1>7, <1>8, <1>9 DEF applyInjectionRule

-----------------------------------------------------------------------------
(* Which patches apply.                                                      *)

(* A document that has all the lists, and at least n mounts. *)
Whole(d, n) == IsDoc(d) /\ d.ok /\ d.has = Lists /\ Len(d.lists["mounts"]) >= n

LEMMA AdditionApplies ==
  ASSUME NEW d, NEW n \in Nat, Whole(d, n), NEW o, IsAddition(o)
  PROVE  /\ Whole(Step(d, o), n)
         /\ o.list = "mounts" => Whole(Step(d, o), n + 1)
         /\ Keeps(d.lists["mounts"], Step(d, o).lists["mounts"])
<1> DEFINE e == Step(d, o)
           s == d.lists["mounts"]
           t == e.lists["mounts"]
<1>1. IsDoc(d) /\ d.ok /\ d.has = Lists /\ Len(s) >= n
  BY DEF Whole
<1>2. IsDoc(e)
  BY <1>1, StepIsDoc DEF IsOperation
<1>3. e.ok
  <2>1. PICK I : d \in DocsOf(I)
    BY <1>1 DEF IsDoc
  <2>2. o.op = "append" /\ o.list \in Lists
    BY DEF IsAddition
  <2>3. Applicable(d, o)
    BY <1>1, <2>2 DEF Applicable
  <2> QED BY <1>1, <2>1, <2>2, <2>3 DEF Step, applyOp, DocsOf
<1>4. e.has = Lists /\ (IF o.list = "mounts" THEN t = Append(s, o.value) ELSE t = s)
  <2>1. "mounts" \in Lists /\ o.op = "append"
    BY DEF Lists, IsAddition
  <2> QED BY <1>1, <1>3, <2>1, ChangeStep
<1>5. IsSeq(s) /\ Len(s) \in Nat
  <2>1. IsSeq(s)
    BY <1>1, DocFacts DEF Lists
  <2> QED BY <2>1, IsSeqFacts
<1>6. (o.list = "mounts" => Len(t) = Len(s) + 1) /\ Keeps(s, t)
  <2> HIDE DEF e, s, t
  <2>1. Keeps(s, s)
    BY <1>5, KeepsItself
  <2>2. Len(Append(s, o.value)) = Len(s) + 1 /\ Keeps(s, Append(s, o.value))
    BY <1>5, <2>1, AppendKeeps
  <2> QED BY <1>4, <2>1, <2>2 DEF e, s, t
<1> HIDE DEF e, s, t
<1>7. Len(t) >= n /\ (o.list = "mounts" => Len(t) >= n + 1)
  BY <1>1, <1>4, <1>5, <1>6
<1> QED BY <1>2, <1>3, <1>4, <1>6, <1>7 DEF Whole, e, s, t

LEMMA RemovalApplies ==
  ASSUME NEW d, NEW n \in Nat, Whole(d, n + 1), NEW o, IsRemoval(o), o.value \in 1..(n + 1)
  PROVE  /\ Whole(Step(d, o), n)
         /\ o.value \in DOMAIN d.lists["mounts"]
         /\ Step(d, o).lists["mounts"] = RemoveAt(d.lists["mounts"], o.value)
<1> DEFINE e == Step(d, o)
           s == d.lists["mounts"]
           t == e.lists["mounts"]
<1>1. IsDoc(d) /\ d.ok /\ d.has = Lists /\ Len(s) >= n + 1
  BY DEF Whole
<1>2. IsDoc(e)
  BY <1>1, StepIsDoc DEF IsOperation
<1>3. IsSeq(s) /\ Len(s) \in Nat /\ DOMAIN s = 1..Len(s)
  <2>1. IsSeq(s)
    BY <1>1, DocFacts DEF Lists
  <2> QED BY <2>1, IsSeqFacts
<1>4. o.value \in DOMAIN s
  <2> HIDE DEF s
  <2> QED BY <1>1, <1>3
<1>5. e.ok
  <2>1. PICK I : d \in DocsOf(I)
    BY <1>1 DEF IsDoc
  <2>2. o.op = "remove" /\ o.list = "mounts"
    BY DEF IsRemoval
  <2>3. Applicable(d, o)
    BY <1>1, <1>4, <2>2 DEF Applicable, Lists
  <2> QED BY <1>1, <2>1, <2>2, <2>3 DEF Step, applyOp, DocsOf
<1>6. e.has = Lists /\ t = RemoveAt(s, o.value)
  <2>1. "mounts" \in Lists /\ o.op = "remove" /\ o.list = "mounts"
    BY DEF Lists, IsRemoval
  <2> QED BY <1>1, <1>5, <2>1, ChangeStep
<1>7. Len(t) = Len(s) - 1
  BY <1>3, <1>4, <1>6, RemoveLeaves
<1> HIDE DEF e, s, t
<1>8. Len(t) >= n
  BY <1>1, <1>3, <1>7
<1> QED BY <1>2, <1>4, <1>5, <1>6, <1>8 DEF Whole, e, s, t

(* Additions to a document with all the lists. *)
LEMMA AdditionsApply ==
  ASSUME NEW d, NEW n \in Nat, Whole(d, n), NEW x, IsSeq(x),
         \A o \in ToSet(x) : IsAddition(o)
  PROVE  /\ Whole(applyPatch(d, x), n)
         /\ Keeps(d.lists["mounts"], applyPatch(d, x).lists["mounts"])
<1>1. IsPatch(x) /\ Len(x) \in Nat /\ DOMAIN x = 1..Len(x) /\ IsDoc(d)
  BY IsSeqFacts DEF IsPatch, IsOperation, Whole
<1>2. PICK f : Runs(f, d, x) /\ applyPatch(d, x) = f[Len(x)]
  BY <1>1, PatchRuns
<1> DEFINE s == d.lists["mounts"]
           Good == {m \in Nat : m <= Len(x) => Whole(f[m], n) /\ Keeps(s, f[m].lists["mounts"])}
<1> HIDE DEF s
<1>0. IsSeq(s) /\ \A e : Whole(e, n) => IsSeq(e.lists["mounts"])
  BY DocFacts DEF Whole, Lists, s
<1>3. 0 \in Good
  <2>1. f[0] = d
    BY <1>2 DEF Runs
  <2> QED BY <1>0, <2>1, KeepsItself DEF s
<1>4. ASSUME NEW m \in Nat, m \in Good
      PROVE  m + 1 \in Good
  <2> SUFFICES ASSUME m + 1 <= Len(x)
               PROVE  Whole(f[m + 1], n) /\ Keeps(s, f[m + 1].lists["mounts"])
    OBVIOUS
  <2>1. m + 1 \in 1..Len(x) /\ (m + 1) - 1 = m /\ m <= Len(x)
    BY <1>1
  <2>2. f[m + 1] = Step(f[m], x[m + 1])
    BY <1>2, <2>1 DEF Runs
  <2>3. IsAddition(x[m + 1])
    BY <1>1, <2>1 DEF ToSet
  <2>4. Whole(f[m], n) /\ Keeps(s, f[m].lists["mounts"])
    BY <1>4, <2>1
  <2>5. Whole(f[m + 1], n) /\ Keeps(f[m].lists["mounts"], f[m + 1].lists["mounts"])
    BY <2>2, <2>3, <2>4, AdditionApplies
  <2> HIDE DEF Good
  <2> QED BY <1>0, <2>4, <2>5, KeepsOn
<1>5. Len(x) \in Good
  <2> HIDE DEF Good
  <2> QED BY <1>1, <1>3, <1>4, SetInduction
<1> QED BY <1>1, <1>2, <1>5 DEF s

(* At most two removals, of mounts with indices of n mounts, from n + 2.     *)
LEMMA RemovalsApply ==
  ASSUME NEW d, NEW n \in Nat, Whole(d, n + 2), NEW x, IsSeq(x), Len(x) <= 2,
         \A o \in ToSet(x) : IsRemoval(o) /\ o.value \in 1..n
  PROVE  Whole(applyPatch(d, x), n)
<1>1. IsPatch(x) /\ Len(x) \in Nat /\ DOMAIN x = 1..Len(x) /\ IsDoc(d)
  BY IsSeqFacts DEF IsPatch, IsOperation, Whole
<1>2. PICK f : /\ Runs(f, d, x) /\ applyPatch(d, x) = f[Len(x)]
                /\ \A m \in 0..Len(x) : IsDoc(f[m])
  BY <1>1, PatchRuns
<1>3. f[0] = d /\ \A i \in 1..Len(x) : f[i] = Step(f[i - 1], x[i])
  BY <1>2 DEF Runs
<1>4. \A i \in 1..Len(x) : IsRemoval(x[i]) /\ x[i].value \in 1..n
  BY <1>1 DEF ToSet
<1>5. Len(x) >= 1 => Whole(f[1], n + 1)
  <2> SUFFICES ASSUME Len(x) >= 1 PROVE Whole(f[1], n + 1)
    OBVIOUS
  <2>1. 1 \in 1..Len(x) /\ 1 - 1 = 0 /\ n + 1 \in Nat /\ n + 2 = (n + 1) + 1
    BY <1>1
  <2>2. x[1].value \in 1..((n + 1) + 1) /\ IsRemoval(x[1]) /\ f[1] = Step(d, x[1])
    <3>1. f[1] = Step(f[0], x[1])
      BY <1>3, <2>1
    <3> QED BY <1>3, <1>4, <2>1, <3>1
  <2>3. Whole(d, (n + 1) + 1)
    BY <2>1
  <2> QED BY <2>1, <2>2, <2>3, RemovalApplies
<1>6. Len(x) = 2 => Whole(f[2], n)
  <2> SUFFICES ASSUME Len(x) = 2 PROVE Whole(f[2], n)
    OBVIOUS
  <2>1. 2 \in 1..Len(x) /\ 2 - 1 = 1 /\ Len(x) >= 1
    BY <1>1
  <2>2. x[2].value \in 1..(n + 1) /\ IsRemoval(x[2]) /\ f[2] = Step(f[1], x[2])
    <3>1. f[2] = Step(f[2 - 1], x[2])
      BY <1>3, <2>1
    <3> QED BY <1>4, <2>1, <3>1
  <2> QED BY <1>5, <2>1, <2>2, RemovalApplies
<1>7. \A e, m : m \in Nat /\ m >= n /\ Whole(e, m) => Whole(e, n)
  <2> SUFFICES ASSUME NEW e, NEW m \in Nat, m >= n, Whole(e, m) PROVE Whole(e, n)
    OBVIOUS
  <2>1. IsSeq(e.lists["mounts"])
    BY DocFacts DEF Whole, Lists
  <2>2. Len(e.lists["mounts"]) \in Nat
    BY <2>1, IsSeqFacts
  <2> QED BY <2>2 DEF Whole
<1>8. Len(x) = 0 \/ Len(x) = 1 \/ Len(x) = 2
  BY <1>1
<1>9. Len(x) = 0 => Whole(f[0], n)
  BY <1>3, <1>7
<1>10. Len(x) = 1 => Whole(f[1], n)
  BY <1>5, <1>7
<1> QED BY <1>2, <1>6, <1>8, <1>9, <1>10
-----------------------------------------------------------------------------
(* The web servers: mounts that are dropped.                                 *)

(* dropPassedConfig goes from one mount to the next. *)
LEMMA DropsRun ==
  ASSUME NEW p, IsSeq(p.mounts), NEW server
  PROVE  \E h : /\ h[0] = <<>>
                /\ \A i \in 1..Len(p.mounts) :
                     h[i] = IF IsPassed(p.mounts[i], server)
                              THEN Append(h[i - 1], Removing("mounts", i)) ELSE h[i - 1]
                /\ dropPassedConfig(p, server) = h[Len(p.mounts)]
<1> DEFINE N == Len(p.mounts)
           id == [i \in DOMAIN p.mounts |-> i]
           Q == Seq({Removing("mounts", i) : i \in 1..N})
           body(g) == [s \in SUBSET (1..N) |->
                         IF s = {} THEN <<>>
                         ELSE IF IsPassed(p.mounts[id[Max(s)]], server)
                                THEN Append(g[s \ {Max(s)}], Removing("mounts", id[Max(s)]))
                                ELSE g[s \ {Max(s)}]]
<1>1. N \in Nat /\ DOMAIN p.mounts = 1..N /\ DOMAIN id = 1..N
  BY IsSeqFacts
<1>2. dropPassedConfig(p, server) = (CHOOSE g : g = body(g))[1..N]
  <2>1. dropPassedConfig(p, server) =
          (CHOOSE g : g = [s \in SUBSET DOMAIN id |->
             IF s = {} THEN <<>>
             ELSE IF IsPassed(p.mounts[id[Max(s)]], server)
                    THEN Append(g[s \ {Max(s)}], Removing("mounts", id[Max(s)]))
                    ELSE g[s \ {Max(s)}]])[DOMAIN id]
    BY DEF dropPassedConfig, FoldLeftDomain, FoldLeft, MapThenFoldSet
  <2> QED BY <1>1, <2>1
<1>3. \A i \in 1..N : id[i] = i
  BY <1>1
<1>4. \E g : g = body(g)
  <2> DEFINE step == [i \in 1..N |-> [q \in Q |->
                        IF IsPassed(p.mounts[i], server)
                          THEN Append(q, Removing("mounts", i)) ELSE q]]
  <2>1. step \in [1..N -> [Q -> Q]]
    <3>1. \A i \in 1..N, q \in Q : Append(q, Removing("mounts", i)) \in Q
      OBVIOUS
    <3> HIDE DEF Q, N
    <3> QED BY <3>1
  <2>2. PICK g \in [SUBSET (1..N) -> Q] : IsFold(g, <<>>, N, step)
    <3>1. N \in Nat /\ <<>> \in Q
      BY <1>1
    <3> HIDE DEF step, Q, N
    <3> QED BY <2>1, <3>1, FoldExists
  <2>3. ASSUME NEW s \in SUBSET (1..N)
        PROVE  g[s] = IF s = {} THEN <<>>
                      ELSE IF IsPassed(p.mounts[id[Max(s)]], server)
                             THEN Append(g[s \ {Max(s)}], Removing("mounts", id[Max(s)]))
                             ELSE g[s \ {Max(s)}]
    <3> HIDE DEF Q, N, id
    <3>1. CASE s = {}
      BY <2>2, <3>1 DEF IsFold
    <3>2. CASE s # {}
      <4>1. Max(s) \in 1..N /\ s \ {Max(s)} \in SUBSET (1..N)
        BY <1>1, <3>2, MaxFacts
      <4>2. g[s \ {Max(s)}] \in Q /\ id[Max(s)] = Max(s)
        BY <1>3, <4>1
      <4> QED BY <2>2, <3>2, <4>1, <4>2 DEF IsFold
    <3> QED BY <3>1, <3>2
  <2>4. g = body(g)
    <3> HIDE DEF Q, N, id
    <3> QED BY <2>3
  <2> QED BY <2>4
<1> DEFINE g == CHOOSE g : g = body(g)
           h == [n \in 0..N |-> g[1..n]]
<1>5. g = body(g)
  <2> HIDE DEF body
  <2> QED BY <1>4
<1>6. \A s \in SUBSET (1..N) :
        g[s] = IF s = {} THEN <<>>
               ELSE IF IsPassed(p.mounts[id[Max(s)]], server)
                      THEN Append(g[s \ {Max(s)}], Removing("mounts", id[Max(s)]))
                      ELSE g[s \ {Max(s)}]
  <2> HIDE DEF g
  <2> QED BY <1>5
<1>7. h[0] = <<>>
  <2>1. 1..0 = {} /\ 0 \in 0..N
    BY <1>1
  <2> HIDE DEF g, id
  <2> QED BY <1>6, <2>1
<1>8. ASSUME NEW i \in 1..N
      PROVE  h[i] = IF IsPassed(p.mounts[i], server)
                      THEN Append(h[i - 1], Removing("mounts", i)) ELSE h[i - 1]
  <2>1. Max(1..i) = i /\ (1..i) \ {i} = 1..(i - 1) /\ id[i] = i
    BY <1>1, <1>3, MaxOfInterval
  <2>2. 1..i \in SUBSET (1..N) /\ i \in 1..i /\ i \in 0..N /\ i - 1 \in 0..N
    <3> HIDE DEF N, g
    <3> QED BY <1>1
  <2>3. g[1..i] = IF IsPassed(p.mounts[i], server)
                    THEN Append(g[1..(i - 1)], Removing("mounts", i)) ELSE g[1..(i - 1)]
    <3> HIDE DEF g, id
    <3> QED BY <1>6, <2>1, <2>2
  <2> HIDE DEF g
  <2> QED BY <2>2, <2>3
<1>9. dropPassedConfig(p, server) = h[N]
  BY <1>1, <1>2
<1> HIDE DEF h
<1> QED BY <1>7, <1>8, <1>9

(* What is dropped: mounts of the pod as it was posted, those that pass      *)
(* configuration.                                                            *)
LEMMA DropsAre ==
  ASSUME NEW p, IsSeq(p.mounts), NEW server
  PROVE  /\ IsSeq(dropPassedConfig(p, server))
         /\ \A o \in ToSet(dropPassedConfig(p, server)) :
              IsRemoval(o) /\ o.value \in Passing(p, server)
         /\ Len(dropPassedConfig(p, server)) = Cardinality(Passing(p, server))
         /\ Cardinality(Passing(p, server)) \in Nat
         /\ Passing(p, server) \subseteq 1..Len(p.mounts)
<1> DEFINE N == Len(p.mounts)
           S == {Removing("mounts", i) : i \in Passing(p, server)}
           Marked(n) == {i \in 1..n : IsPassed(p.mounts[i], server)}
<1>1. N \in Nat /\ DOMAIN p.mounts = 1..N
  BY IsSeqFacts
<1>2. PICK h : /\ h[0] = <<>>
               /\ \A i \in 1..N :
                    h[i] = IF IsPassed(p.mounts[i], server)
                             THEN Append(h[i - 1], Removing("mounts", i)) ELSE h[i - 1]
               /\ dropPassedConfig(p, server) = h[N]
  BY DropsRun
<1> DEFINE Good == {n \in Nat : n <= N => /\ h[n] \in Seq(S)
                                          /\ IsFiniteSet(Marked(n))
                                          /\ Len(h[n]) = Cardinality(Marked(n))}
<1>3. 0 \in Good
  <2>1. Marked(0) = {}
    OBVIOUS
  <2>2. IsFiniteSet({}) /\ Cardinality({}) = 0
    BY FS_EmptySet
  <2>3. <<>> \in Seq(S) /\ Len(<<>>) = 0
    OBVIOUS
  <2> HIDE DEF S, Marked
  <2> QED BY <1>2, <2>1, <2>2, <2>3
<1>4. ASSUME NEW n \in Nat, n \in Good
      PROVE  n + 1 \in Good
  <2> SUFFICES ASSUME n + 1 <= N
               PROVE  /\ h[n + 1] \in Seq(S)
                      /\ IsFiniteSet(Marked(n + 1))
                      /\ Len(h[n + 1]) = Cardinality(Marked(n + 1))
    <3> HIDE DEF Marked
    <3> QED OBVIOUS
  <2>1. n + 1 \in 1..N /\ (n + 1) - 1 = n /\ n <= N
    BY <1>1
  <2>2. h[n] \in Seq(S) /\ IsFiniteSet(Marked(n)) /\ Len(h[n]) = Cardinality(Marked(n))
    BY <1>4, <2>1
  <2>3. h[n + 1] = IF IsPassed(p.mounts[n + 1], server)
                     THEN Append(h[n], Removing("mounts", n + 1)) ELSE h[n]
    <3> HIDE DEF Good
    <3> QED BY <1>2, <2>1
  <2>4. IsPassed(p.mounts[n + 1], server) => Removing("mounts", n + 1) \in S
    BY <1>1, <2>1 DEF Passing
  <2>5. CASE IsPassed(p.mounts[n + 1], server)
    <3>1. Marked(n + 1) = Marked(n) \cup {n + 1} /\ n + 1 \notin Marked(n)
      <4> HIDE DEF Good
      <4> QED BY <2>1, <2>5
    <3> HIDE DEF Marked, S, Good
    <3>2. /\ IsFiniteSet(Marked(n) \cup {n + 1})
          /\ Cardinality(Marked(n) \cup {n + 1}) = Cardinality(Marked(n)) + 1
      BY <2>2, <3>1, FS_AddElement
    <3>3. /\ Append(h[n], Removing("mounts", n + 1)) \in Seq(S)
          /\ Len(Append(h[n], Removing("mounts", n + 1))) = Len(h[n]) + 1
      BY <2>2, <2>4, <2>5, AppendProperties
    <3> QED BY <2>2, <2>3, <2>5, <3>1, <3>2, <3>3
  <2>6. CASE ~IsPassed(p.mounts[n + 1], server)
    <3>1. Marked(n + 1) = Marked(n)
      <4> HIDE DEF Good
      <4> QED BY <2>1, <2>6
    <3> HIDE DEF Marked, S, Good
    <3> QED BY <2>2, <2>3, <2>6, <3>1
  <2> QED BY <2>5, <2>6
<1>5. N \in Good
  <2> HIDE DEF Good
  <2> QED BY <1>1, <1>3, <1>4, SetInduction
<1>6. Marked(N) = Passing(p, server)
  BY <1>1 DEF Passing
<1>7. /\ dropPassedConfig(p, server) \in Seq(S)
      /\ Len(dropPassedConfig(p, server)) = Cardinality(Passing(p, server))
  <2> HIDE DEF Marked, S
  <2> QED BY <1>1, <1>2, <1>5, <1>6
<1>8. IsSeq(dropPassedConfig(p, server)) /\ ToSet(dropPassedConfig(p, server)) \subseteq S
  <2> HIDE DEF S
  <2> QED BY <1>7, SeqIsSeq
<1>9. Passing(p, server) \subseteq 1..N
  BY <1>1 DEF Passing
<1>10. \A o \in S : IsRemoval(o) /\ o.value \in Passing(p, server)
  BY <1>9 DEF Removing, IsRemoval
<1>11. Cardinality(Passing(p, server)) \in Nat
  BY <1>7, <1>8, IsSeqFacts
<1> QED BY <1>7, <1>8, <1>9, <1>10, <1>11

(* A patch of changes that adds what mounts volumes of V or volumes it adds. *)
Carries(x, V) ==
  /\ IsChanges(x)
  /\ \A o \in ToSet(x) :
       IsAddition(o) => MountedBy(o.list, o.value) \subseteq V \cup Added(x, "volumes")

LEMMA BringsCarries ==
  ASSUME NEW x, NEW V, Brings(x, V)
  PROVE  Carries(x, V)
BY DEF Brings, Carries, IsChanges

LEMMA CarriesConcat ==
  ASSUME NEW V, NEW a, NEW b, Carries(a, V), Carries(b, V)
  PROVE  Carries(a \o b, V)
<1>1. IsSeq(a \o b) /\ ToSet(a \o b) = ToSet(a) \cup ToSet(b)
  BY IsSeqConcat DEF Carries, IsChanges
<1>2. Added(a \o b, "volumes") = Added(a, "volumes") \cup Added(b, "volumes")
  BY <1>1 DEF Added, AddedBy
<1> QED BY <1>1, <1>2 DEF Carries, IsChanges

LEMMA AddedConcat ==
  ASSUME NEW a, NEW b, IsSeq(a), IsSeq(b)
  PROVE  Added(a \o b, "volumes") = Added(a, "volumes") \cup Added(b, "volumes")
BY IsSeqConcat DEF Added, AddedBy

LEMMA ThreeOperations ==
  ASSUME NEW d, IsDoc(d), NEW a, NEW b, NEW c, IsOperation(a), IsOperation(b), IsOperation(c)
  PROVE  applyPatch(d, <<a, b, c>>) = Step(Step(Step(d, a), b), c)
<1> DEFINE x == <<a, b, c>>
<1>1. x \in Seq({a, b, c}) /\ Len(x) = 3 /\ x[1] = a /\ x[2] = b /\ x[3] = c
  OBVIOUS
<1> HIDE DEF x
<1>2. IsPatch(x)
  <2>1. IsSeq(x) /\ ToSet(x) \subseteq {a, b, c}
    BY <1>1, SeqIsSeq
  <2> QED BY <2>1 DEF IsPatch
<1>3. PICK f : Runs(f, d, x) /\ applyPatch(d, x) = f[3]
  BY <1>1, <1>2, PatchRuns
<1>4. f[1] = Step(f[0], a) /\ f[2] = Step(f[1], b) /\ f[3] = Step(f[2], c) /\ f[0] = d
  BY <1>1, <1>3 DEF Runs
<1> QED BY <1>3, <1>4 DEF x

LEMMA CarriesPatch ==
  ASSUME NEW x, NEW V, Carries(x, V)
  PROVE  IsPatch(x)
BY DEF Carries, IsChanges, IsPatch, IsOperation

(* The pod's mounts are there, but for what is passed to the server.         *)
Serves(p, server, mounts) ==
  /\ Passing(p, server) = {} => Keeps(p.mounts, mounts)
  /\ \A i \in Passing(p, server) : Keeps(RemoveAt(p.mounts, i), mounts)

LEMMA ServesOn ==
  ASSUME NEW p, IsSeq(p.mounts), NEW server, NEW s, NEW t, IsSeq(s), IsSeq(t), Keeps(s, t),
         Serves(p, server, s)
  PROVE  Serves(p, server, t)
<1>1. \A i \in Passing(p, server) : IsSeq(RemoveAt(p.mounts, i))
  BY RemoveLeaves DEF Passing
<1> QED BY <1>1, KeepsOn DEF Serves

(* Dropping at most one mount.                                               *)
LEMMA DropServes ==
  ASSUME NEW p, IsSeq(p.mounts), NEW server, Cardinality(Passing(p, server)) <= 1,
         NEW d, Whole(d, Len(p.mounts)), Keeps(p.mounts, d.lists["mounts"])
  PROVE  Serves(p, server, applyPatch(d, dropPassedConfig(p, server)).lists["mounts"])
<1> DEFINE P == Passing(p, server)
           x == dropPassedConfig(p, server)
           n == Len(p.mounts)
           s == d.lists["mounts"]
<1>1. /\ IsSeq(x) /\ \A o \in ToSet(x) : IsRemoval(o) /\ o.value \in P
      /\ Len(x) = Cardinality(P) /\ P \subseteq 1..n /\ Cardinality(P) \in Nat
  BY DropsAre
<1>2. IsDoc(d) /\ IsSeq(s) /\ n \in Nat /\ DOMAIN p.mounts = 1..n
  BY IsSeqFacts, DocFacts DEF Whole, Lists
<1> HIDE DEF P, x, n, s
<1>3. IsFiniteSet(P)
  <2>1. IsFiniteSet(1..n)
    BY <1>2, FS_Interval
  <2> QED BY <1>1, <2>1, FS_Subset
<1>4. Len(x) = 0 \/ Len(x) = 1
  BY <1>1 DEF P
<1>5. CASE Len(x) = 0
  <2>1. P = {}
    BY <1>1, <1>3, <1>5, FS_EmptySet
  <2>2. x = <<>>
    BY <1>1, <1>5, EmptySeq DEF IsSeq
  <2>3. applyPatch(d, x) = d
    BY <1>2, <2>2, EmptyPatch
  <2> QED BY <2>1, <2>3 DEF Serves, P, x, s
<1>6. CASE Len(x) = 1
  <2>1. PICK i : P = {i}
    BY <1>1, <1>3, <1>6, FS_Singleton
  <2>2. x = <<x[1]>> /\ x[1] \in ToSet(x)
    <3>1. DOMAIN x = 1..1 /\ x \in Seq(ToSet(x))
      BY <1>1, <1>6, IsSeqFacts DEF IsSeq
    <3>2. x = [j \in 1..1 |-> x[j]]
      BY <3>1
    <3>3. x = [j \in 1..1 |-> x[1]]
      BY <3>2
    <3>4. <<x[1]>> = [j \in 1..1 |-> x[1]]
      OBVIOUS
    <3>5. x = <<x[1]>>
      BY <3>3, <3>4
    <3> QED BY <3>1, <3>5 DEF ToSet
  <2>3. IsRemoval(x[1]) /\ x[1].value = i /\ i \in 1..n
    BY <1>1, <2>1, <2>2
  <2>4. applyPatch(d, x) = Step(d, x[1])
    BY <1>2, <2>2, <2>3, OneOperation DEF IsOperation
  <2>5. applyPatch(d, x).lists["mounts"] = RemoveAt(s, i)
    <3>1. n - 1 \in Nat /\ (n - 1) + 1 = n
      BY <1>2, <2>3
    <3> QED BY <2>3, <2>4, <3>1, RemovalApplies DEF n, s
  <2>6. Keeps(RemoveAt(p.mounts, i), RemoveAt(s, i))
    BY <1>2, <2>3, RemoveKeeps DEF s
  <2> QED BY <2>1, <2>5, <2>6 DEF Serves, P, x
<1> QED BY <1>4, <1>5, <1>6

(* The patch of a web server carries the volumes it mounts, and applies if   *)
(* at most two mounts are dropped: two are added before.  It drops the right *)
(* mount if it is only one.                                                  *)
LEMMA WebserverPatch ==
  ASSUME NEW p, IsSeq(p.mounts), NEW r, IsSeq(r.env), NEW look, NEW server,
         IsSeq(server.env), NEW V, \A m \in ToSet(p.mounts) : m.volume \in V
  PROVE  /\ Carries(webserverOtel(p, r, look, server), V)
         /\ \A d : Whole(d, Len(p.mounts)) /\ Cardinality(Passing(p, server)) <= 2 =>
                     /\ Whole(applyPatch(d, webserverOtel(p, r, look, server)), Len(p.mounts))
                     /\ Cardinality(Passing(p, server)) <= 1
                          /\ Keeps(p.mounts, d.lists["mounts"]) =>
                          Serves(p, server,
                                 applyPatch(d, webserverOtel(p, r, look, server)).lists["mounts"])
<1> DEFINE n == Len(p.mounts)
           u == Env(server.env)
           v == addK8SOtelResourceAttrs(r, Attributes)
           w == Env(r.env)
           a == AddItem("mounts", Mount(server.conf, server.dir))
           b == AddItem("mounts", Mount(server.repo, "agent"))
           c == AddItem("inits", CloneAsInit(p, server))
           abc == <<a, b, c>>
           drops == dropPassedConfig(p, server)
           i == AddItem("inits", Container(server.repo, <<server.conf, server.repo>>,
                                           Endpoint(look[1])))
           volumes == WebserverVolumes(server)
           sidecar == SidecarIf(look[2], look[3], look[4])
           W == V \cup {server.conf, server.repo}
           x == webserverOtel(p, r, look, server)
<1>1. n \in Nat
  BY IsSeqFacts
<1>2. x = u \o v \o w \o abc \o drops \o <<i>> \o volumes \o sidecar
  BY DEF webserverOtel
<1>3. Carries(u, W) /\ Carries(v, W) /\ Carries(w, W) /\ Carries(sidecar, W)
  <2>1. Brings(u, W) /\ Brings(w, W)
    BY EnvBrings
  <2>2. Brings(v, W)
    BY VariablesBring
  <2>3. Brings(sidecar, W)
    BY SidecarBrings
  <2> HIDE DEF u, v, w, sidecar, W
  <2> QED BY <2>1, <2>2, <2>3, BringsCarries
<1>4. /\ IsAddition(a) /\ IsAddition(b) /\ IsAddition(c) /\ IsAddition(i)
      /\ MountedBy(a.list, a.value) \subseteq W
      /\ MountedBy(b.list, b.value) \subseteq W
      /\ MountedBy(c.list, c.value) \subseteq W
      /\ MountedBy(i.list, i.value) \subseteq W
      /\ a.list = "mounts" /\ b.list = "mounts"
  <2>1. IsAddition(a) /\ IsAddition(b) /\ IsAddition(c) /\ IsAddition(i)
    BY DEF AddItem, IsAddition, Lists
  <2>2. MountedBy(a.list, a.value) \subseteq W /\ MountedBy(b.list, b.value) \subseteq W
    BY DEF AddItem, MountedBy, Mount
  <2>3. MountedBy(c.list, c.value) \subseteq W
    <3> DEFINE s == [j \in DOMAIN p.mounts |-> p.mounts[j].volume]
    <3>1. DOMAIN p.mounts = 1..n /\ \A j \in 1..n : p.mounts[j].volume \in V
      BY IsSeqFacts
    <3>2. s \in Seq(V)
      BY <1>1, <3>1
    <3> HIDE DEF s, W
    <3>3. IsSeq(s) /\ ToSet(s) \subseteq V
      BY <3>2, SeqIsSeq
    <3>4. ToSet(Append(s, server.conf)) \subseteq W
      BY <3>3, AppendKeeps DEF W
    <3>5. MountedBy(c.list, c.value) = ToSet(Append(s, server.conf))
      BY DEF AddItem, MountedBy, CloneAsInit, Container, s
    <3> QED BY <3>4, <3>5
  <2>4. MountedBy(i.list, i.value) \subseteq W
    BY Tuples DEF AddItem, MountedBy, Container
  <2>5. a.list = "mounts" /\ b.list = "mounts"
    BY DEF AddItem
  <2> QED BY <2>1, <2>2, <2>3, <2>4, <2>5
<1>5. IsSeq(abc) /\ ToSet(abc) = {a, b, c} /\ Carries(abc, W)
  <2> HIDE DEF a, b, c, W
  <2>1. IsSeq(abc) /\ ToSet(abc) = {a, b, c}
    BY Tuples
  <2> QED BY <1>4, <2>1 DEF Carries, IsChanges
<1>6. IsSeq(<<i>>) /\ Carries(<<i>>, W)
  <2> HIDE DEF i, W
  <2>1. IsSeq(<<i>>) /\ ToSet(<<i>>) = {i}
    BY Tuples
  <2> QED BY <1>4, <2>1 DEF Carries, IsChanges
<1>7. /\ Carries(volumes, W)
      /\ {server.conf, server.repo} \subseteq Added(volumes, "volumes")
  <2> DEFINE y == AddItem("volumes", server.repo)
             z == AddItem("volumes", server.conf)
  <2>1. /\ IsAddition(y) /\ y.list = "volumes" /\ y.value = server.repo /\ y.op = "append"
        /\ IsAddition(z) /\ z.list = "volumes" /\ z.value = server.conf /\ z.op = "append"
    BY DEF AddItem, IsAddition, Lists
  <2>2. IsSeq(volumes) /\ ToSet(volumes) = {y, z}
    BY Tuples DEF WebserverVolumes
  <2>3. MountedBy(y.list, y.value) = {} /\ MountedBy(z.list, z.value) = {}
    BY <2>1 DEF MountedBy
  <2> HIDE DEF y, z, W, volumes
  <2> QED BY <2>1, <2>2, <2>3 DEF Carries, IsChanges, Added, AddedBy
<1>8. Carries(drops, W)
  <2>1. IsSeq(drops) /\ \A o \in ToSet(drops) : IsRemoval(o)
    BY DropsAre
  <2> HIDE DEF drops, W
  <2> QED BY <2>1 DEF Carries, IsChanges, IsRemoval, IsAddition
<1> HIDE DEF u, v, w, a, b, c, abc, drops, i, volumes, sidecar, W, x
<1>9. Carries(x, W) /\ {server.conf, server.repo} \subseteq Added(x, "volumes")
  <2>1. Carries(u \o v, W)
    BY <1>3, CarriesConcat
  <2>2. Carries(u \o v \o w, W)
    BY <1>3, <2>1, CarriesConcat
  <2>3. Carries(u \o v \o w \o abc, W)
    BY <1>5, <2>2, CarriesConcat
  <2>4. Carries(u \o v \o w \o abc \o drops, W)
    BY <1>8, <2>3, CarriesConcat
  <2>5. Carries(u \o v \o w \o abc \o drops \o <<i>>, W)
    BY <1>6, <2>4, CarriesConcat
  <2> DEFINE l == u \o v \o w \o abc \o drops \o <<i>>
  <2> HIDE DEF l
  <2>6. Carries(l, W) /\ x = l \o volumes \o sidecar
    BY <1>2, <2>5 DEF l
  <2>7. /\ Carries(l \o volumes, W)
        /\ Added(l \o volumes, "volumes") = Added(l, "volumes") \cup Added(volumes, "volumes")
    <3>1. Carries(l, W) /\ Carries(volumes, W)
      BY <1>7, <2>6
    <3> QED BY <3>1, CarriesConcat, AddedConcat DEF Carries, IsChanges
  <2>8. /\ Carries(l \o volumes \o sidecar, W)
        /\ Added(l \o volumes \o sidecar, "volumes")
             = Added(l \o volumes, "volumes") \cup Added(sidecar, "volumes")
    <3>1. Carries(l \o volumes, W) /\ Carries(sidecar, W)
      BY <1>3, <2>7
    <3> DEFINE m == l \o volumes
    <3> HIDE DEF m
    <3>2. Carries(m, W) /\ IsSeq(m) /\ IsSeq(sidecar)
      BY <3>1 DEF m, Carries, IsChanges
    <3>3. /\ Carries(m \o sidecar, W)
          /\ Added(m \o sidecar, "volumes") = Added(m, "volumes") \cup Added(sidecar, "volumes")
      BY <3>1, <3>2, CarriesConcat, AddedConcat
    <3> QED BY <3>3 DEF m
  <2> QED BY <1>7, <2>6, <2>7, <2>8
<1>10. Carries(x, V)
  BY <1>9 DEF Carries, W
<1>11. ASSUME NEW d, Whole(d, n), Cardinality(Passing(p, server)) <= 2
       PROVE  /\ Whole(applyPatch(d, x), n)
              /\ Cardinality(Passing(p, server)) <= 1 /\ Keeps(p.mounts, d.lists["mounts"]) =>
                   Serves(p, server, applyPatch(d, x).lists["mounts"])
  <2>1. /\ IsSeq(u \o v \o w) /\ \A o \in ToSet(u \o v \o w) : IsAddition(o)
        /\ IsSeq(<<i>>) /\ \A o \in ToSet(<<i>>) : IsAddition(o)
        /\ IsSeq(volumes) /\ \A o \in ToSet(volumes) : IsAddition(o)
        /\ IsSeq(sidecar) /\ \A o \in ToSet(sidecar) : IsAddition(o)
    <3>1. Brings(u, W) /\ Brings(w, W) /\ Brings(v, W) /\ Brings(sidecar, W)
      BY EnvBrings, VariablesBring, SidecarBrings DEF u, v, w, sidecar
    <3>2. Brings(u \o v \o w, W)
      BY <3>1, BringsConcat
    <3>3. Brings(volumes, W)
      <4>1. IsSeq(volumes)
            /\ ToSet(volumes) = {AddItem("volumes", server.repo), AddItem("volumes", server.conf)}
        BY Tuples DEF volumes, WebserverVolumes
      <4> QED BY <4>1 DEF Brings, AddItem, IsAddition, MountedBy, Lists
    <3>4. IsSeq(<<i>>) /\ ToSet(<<i>>) = {i}
      BY Tuples
    <3> QED BY <1>4, <3>1, <3>2, <3>3, <3>4 DEF Brings
  <2> DEFINE e == applyPatch(d, u \o v \o w)
             f == applyPatch(e, abc)
             g == applyPatch(f, drops)
             h == applyPatch(g, <<i>>)
             j == applyPatch(h, volumes)
             k == applyPatch(j, sidecar)
  <2>0. IsSeq(p.mounts) /\ \A q : Whole(q, n) => IsSeq(q.lists["mounts"])
    BY DocFacts DEF Whole, Lists
  <2>2. Whole(e, n) /\ Keeps(d.lists["mounts"], e.lists["mounts"])
    BY <1>1, <1>11, <2>1, AdditionsApply
  <2>3. Whole(f, n + 2) /\ Whole(f, n) /\ Keeps(e.lists["mounts"], f.lists["mounts"])
    <3> HIDE DEF e
    <3>3. f = Step(Step(Step(e, a), b), c)
      <4>1. IsDoc(e) /\ IsOperation(a) /\ IsOperation(b) /\ IsOperation(c)
        BY <1>4, <2>2 DEF Whole, IsOperation
      <4> QED BY <4>1, ThreeOperations DEF abc
    <3>4. Whole(Step(e, a), n + 1)
      BY <1>1, <1>4, <2>2, AdditionApplies
    <3>5. n + 1 \in Nat /\ n + 2 \in Nat /\ n + 2 = (n + 1) + 1
      BY <1>1
    <3>6. Whole(Step(Step(e, a), b), n + 2)
      <4>1. Whole(Step(Step(e, a), b), (n + 1) + 1)
        BY <1>4, <3>4, <3>5, AdditionApplies
      <4> QED BY <3>5, <4>1
    <3>7. Whole(Step(Step(Step(e, a), b), c), n + 2)
      BY <1>4, <3>5, <3>6, AdditionApplies
    <3>8. Whole(f, n) /\ Keeps(e.lists["mounts"], f.lists["mounts"])
      <4>1. IsSeq(abc) /\ \A o \in ToSet(abc) : IsAddition(o)
        BY <1>4, <1>5
      <4> QED BY <1>1, <2>2, <4>1, AdditionsApply
    <3> QED BY <3>3, <3>7, <3>8
  <2>4. Whole(g, n)
    <3>1. /\ IsSeq(drops) /\ Len(drops) = Cardinality(Passing(p, server))
          /\ \A o \in ToSet(drops) : IsRemoval(o) /\ o.value \in 1..n
      BY DropsAre DEF drops
    <3>2. Len(drops) <= 2
      BY <1>11, <3>1
    <3> HIDE DEF f
    <3> QED BY <1>1, <2>3, <3>1, <3>2, RemovalsApply
  <2>5. Whole(h, n) /\ Keeps(g.lists["mounts"], h.lists["mounts"])
    <3> HIDE DEF g
    <3> QED BY <1>1, <2>1, <2>4, AdditionsApply
  <2>6. Whole(j, n) /\ Keeps(h.lists["mounts"], j.lists["mounts"])
    <3> HIDE DEF h
    <3> QED BY <1>1, <2>1, <2>5, AdditionsApply
  <2>7. Whole(k, n) /\ Keeps(j.lists["mounts"], k.lists["mounts"])
    <3> HIDE DEF j
    <3> QED BY <1>1, <2>1, <2>6, AdditionsApply
  <2>8. applyPatch(d, x) = k
    <3> DEFINE q == u \o v \o w
               q1 == q \o abc
               q2 == q1 \o drops
               q3 == q2 \o <<i>>
               q4 == q3 \o volumes
    <3>1. IsPatch(q) /\ IsPatch(abc) /\ IsPatch(drops) /\ IsPatch(<<i>>) /\ IsPatch(volumes)
          /\ IsPatch(sidecar)
      <4>1. IsPatch(q)
        BY <2>1 DEF IsPatch, IsOperation
      <4> QED BY <1>3, <1>5, <1>6, <1>7, <1>8, <4>1, CarriesPatch
    <3>2. IsDoc(d)
      BY <1>11 DEF Whole
    <3>3. x = q4 \o sidecar
      BY <1>2
    <3> HIDE DEF q
    <3>4. IsPatch(q1) /\ applyPatch(d, q1) = applyPatch(applyPatch(d, q), abc)
      BY <3>1, <3>2, PatchConcat
    <3> HIDE DEF q1
    <3>5. IsPatch(q2) /\ applyPatch(d, q2) = applyPatch(applyPatch(d, q1), drops)
      BY <3>1, <3>2, <3>4, PatchConcat
    <3> HIDE DEF q2
    <3>6. IsPatch(q3) /\ applyPatch(d, q3) = applyPatch(applyPatch(d, q2), <<i>>)
      BY <3>1, <3>2, <3>5, PatchConcat
    <3> HIDE DEF q3
    <3>7. IsPatch(q4) /\ applyPatch(d, q4) = applyPatch(applyPatch(d, q3), volumes)
      BY <3>1, <3>2, <3>6, PatchConcat
    <3> HIDE DEF q4
    <3>8. applyPatch(d, q4 \o sidecar) = applyPatch(applyPatch(d, q4), sidecar)
      BY <3>1, <3>2, <3>7, PatchConcat
    <3> QED BY <3>3, <3>4, <3>5, <3>6, <3>7, <3>8 DEF q
  <2> HIDE DEF e, f, g, h, j, k
  <2>9. ASSUME Cardinality(Passing(p, server)) <= 1, Keeps(p.mounts, d.lists["mounts"])
        PROVE  Serves(p, server, k.lists["mounts"])
    <3>1. Keeps(p.mounts, f.lists["mounts"])
      <4>1. Keeps(p.mounts, e.lists["mounts"])
        BY <1>11, <2>0, <2>2, <2>9, KeepsOn
      <4> QED BY <2>0, <2>2, <2>3, <4>1, KeepsOn
    <3>2. Serves(p, server, g.lists["mounts"])
      BY <2>3, <2>9, <3>1, DropServes DEF g, drops
    <3>3. Serves(p, server, h.lists["mounts"])
      BY <2>0, <2>4, <2>5, <3>2, ServesOn
    <3>4. Serves(p, server, j.lists["mounts"])
      BY <2>0, <2>5, <2>6, <3>3, ServesOn
    <3> QED BY <2>0, <2>6, <2>7, <3>4, ServesOn
  <2> QED BY <2>7, <2>8, <2>9
<1> QED BY <1>10, <1>11 DEF x

(* Pods with few mounts that pass configuration. *)
FewPassing(p) == \A server \in {Apache, Nginx} : Cardinality(Passing(p, server)) <= 2

(* The patch of any technology. *)
LEMMA RulePatch ==
  ASSUME NEW p, IsPod(p), Mounted(p) \subseteq ToSet(p.volumes), NEW r, IsSeq(r.env), NEW look
  PROVE  /\ Carries(applyInjectionRule(p, r, look), ToSet(p.volumes))
         /\ \A d : Whole(d, Len(p.mounts)) /\ FewPassing(p) =>
                     Whole(applyPatch(d, applyInjectionRule(p, r, look)), Len(p.mounts))
<1> DEFINE V == ToSet(p.volumes)
           n == Len(p.mounts)
           x == applyInjectionRule(p, r, look)
<1>1. IsSeq(p.mounts) /\ n \in Nat
  <2>1. IsSeq(p.mounts)
    BY DEF IsPod, IsSeq
  <2> QED BY <2>1, IsSeqFacts
<1>2. \A m \in ToSet(p.mounts) : m.volume \in V
  BY DEF Mounted
<1>3. ASSUME NEW server \in {Apache, Nginx}, x = webserverOtel(p, r, look, server)
      PROVE  /\ Carries(x, V)
             /\ \A d : Whole(d, n) /\ FewPassing(p) => Whole(applyPatch(d, x), n)
  <2>1. IsSeq(server.env)
    BY Tuples DEF Apache, Nginx
  <2>2. FewPassing(p) => Cardinality(Passing(p, server)) <= 2
    BY DEF FewPassing
  <2> HIDE DEF V, x
  <2> QED BY <1>1, <1>2, <1>3, <2>1, <2>2, WebserverPatch
<1>4. CASE r.technology \notin {"apache/otel", "nginx/otel"}
  <2>1. Brings(x, V)
    BY <1>4, TechnologyBrings
  <2> HIDE DEF V, x, n
  <2>2. Carries(x, V) /\ IsSeq(x) /\ \A o \in ToSet(x) : IsAddition(o)
    BY <2>1, BringsCarries DEF Brings
  <2>3. \A d : Whole(d, n) => Whole(applyPatch(d, x), n)
    BY <1>1, <2>2, AdditionsApply DEF n
  <2> QED BY <2>2, <2>3 DEF V, x, n
<1>5. CASE r.technology = "apache/otel"
  <2>1. x = webserverOtel(p, r, look, Apache)
    BY <1>5 DEF applyInjectionRule
  <2> HIDE DEF V, x, n
  <2>2. /\ Carries(x, V)
        /\ \A d : Whole(d, n) /\ FewPassing(p) => Whole(applyPatch(d, x), n)
    BY <1>3, <2>1
  <2> QED BY <2>2 DEF V, x, n
<1>6. CASE r.technology = "nginx/otel"
  <2>1. x = webserverOtel(p, r, look, Nginx)
    BY <1>6 DEF applyInjectionRule
  <2> HIDE DEF V, x, n
  <2>2. /\ Carries(x, V)
        /\ \A d : Whole(d, n) /\ FewPassing(p) => Whole(applyPatch(d, x), n)
    BY <1>3, <2>1
  <2> QED BY <2>2 DEF V, x, n
<1> QED BY <1>4, <1>5, <1>6

-----------------------------------------------------------------------------
(* Variables of one name.                                                    *)

(* A variable that is not the last of its name. *)
IsSuperseded(x, i) ==
  /\ IsVariable(x[i])
  /\ \E j \in (i + 1)..Len(x) : IsVariable(x[j]) /\ x[j].value.name = x[i].value.name

(* removeDupliciteEnvs goes from one operation to the next. *)
LEMMA KeptRun ==
  ASSUME NEW x, IsSeq(x)
  PROVE  \E h : /\ h[0] = <<>>
                /\ \A i \in 1..Len(x) :
                     h[i] = IF IsSuperseded(x, i) THEN h[i - 1] ELSE Append(h[i - 1], x[i])
                /\ removeDupliciteEnvs(x) = h[Len(x)]
<1> DEFINE N == Len(x)
           id == [i \in DOMAIN x |-> i]
           drop(i) == IsSuperseded(x, i)
           Q == Seq(ToSet(x))
           body(g) == [s \in SUBSET (1..N) |->
                         IF s = {} THEN <<>>
                         ELSE IF drop(id[Max(s)]) THEN g[s \ {Max(s)}]
                         ELSE Append(g[s \ {Max(s)}], x[id[Max(s)]])]
<1>1. N \in Nat /\ DOMAIN x = 1..N /\ DOMAIN id = 1..N /\ \A i \in 1..N : x[i] \in ToSet(x)
  BY IsSeqFacts
<1>2. removeDupliciteEnvs(x) = (CHOOSE g : g = body(g))[1..N]
  <2>1. removeDupliciteEnvs(x) =
          (CHOOSE g : g = [s \in SUBSET DOMAIN id |->
             IF s = {} THEN <<>>
             ELSE IF drop(id[Max(s)]) THEN g[s \ {Max(s)}]
             ELSE Append(g[s \ {Max(s)}], x[id[Max(s)]])])[DOMAIN id]
    BY DEF removeDupliciteEnvs, FoldLeftDomain, FoldLeft, MapThenFoldSet, IsSuperseded
  <2> QED BY <1>1, <2>1
<1>3. \A i \in 1..N : id[i] = i
  BY <1>1
<1>4. \E g : g = body(g)
  <2> DEFINE step == [i \in 1..N |-> [q \in Q |-> IF drop(i) THEN q ELSE Append(q, x[i])]]
  <2>1. step \in [1..N -> [Q -> Q]]
    <3>1. \A i \in 1..N, q \in Q : Append(q, x[i]) \in Q
      <4> HIDE DEF N
      <4> QED BY <1>1
    <3> HIDE DEF Q, N, drop
    <3> QED BY <3>1
  <2>2. PICK g \in [SUBSET (1..N) -> Q] : IsFold(g, <<>>, N, step)
    <3>1. N \in Nat /\ <<>> \in Q
      BY <1>1
    <3> HIDE DEF step, Q, N
    <3> QED BY <2>1, <3>1, FoldExists
  <2>3. ASSUME NEW s \in SUBSET (1..N)
        PROVE  g[s] = IF s = {} THEN <<>>
                      ELSE IF drop(id[Max(s)]) THEN g[s \ {Max(s)}]
                      ELSE Append(g[s \ {Max(s)}], x[id[Max(s)]])
    <3> HIDE DEF Q, N, id, drop
    <3>1. CASE s = {}
      BY <2>2, <3>1 DEF IsFold
    <3>2. CASE s # {}
      <4>1. Max(s) \in 1..N /\ s \ {Max(s)} \in SUBSET (1..N)
        BY <1>1, <3>2, MaxFacts
      <4>2. g[s \ {Max(s)}] \in Q /\ id[Max(s)] = Max(s)
        BY <1>3, <4>1
      <4> QED BY <2>2, <3>2, <4>1, <4>2 DEF IsFold
    <3> QED BY <3>1, <3>2
  <2>4. g = body(g)
    <3> HIDE DEF Q, N, id, drop
    <3> QED BY <2>3
  <2> HIDE DEF body
  <2> QED BY <2>4
<1> DEFINE g == CHOOSE g : g = body(g)
           h == [n \in 0..N |-> g[1..n]]
<1>5. g = body(g)
  <2> HIDE DEF body
  <2> QED BY <1>4
<1>6. \A s \in SUBSET (1..N) :
        g[s] = IF s = {} THEN <<>>
               ELSE IF drop(id[Max(s)]) THEN g[s \ {Max(s)}]
               ELSE Append(g[s \ {Max(s)}], x[id[Max(s)]])
  <2> HIDE DEF g
  <2> QED BY <1>5
<1>7. h[0] = <<>>
  <2>1. 1..0 = {} /\ 0 \in 0..N
    BY <1>1
  <2> HIDE DEF g, id, drop
  <2> QED BY <1>6, <2>1
<1>8. ASSUME NEW i \in 1..N
      PROVE  h[i] = IF drop(i) THEN h[i - 1] ELSE Append(h[i - 1], x[i])
  <2>1. Max(1..i) = i /\ (1..i) \ {i} = 1..(i - 1) /\ id[i] = i
    BY <1>1, <1>3, MaxOfInterval
  <2>2. 1..i \in SUBSET (1..N) /\ i \in 1..i /\ i \in 0..N /\ i - 1 \in 0..N
    <3> HIDE DEF N, g
    <3> QED BY <1>1
  <2>3. g[1..i] = IF drop(i) THEN g[1..(i - 1)] ELSE Append(g[1..(i - 1)], x[i])
    <3> HIDE DEF g, id, drop
    <3> QED BY <1>6, <2>1, <2>2
  <2> HIDE DEF g, drop
  <2> QED BY <2>2, <2>3
<1>9. removeDupliciteEnvs(x) = h[N]
  BY <1>1, <1>2
<1> HIDE DEF h
<1> QED BY <1>7, <1>8, <1>9

(* Patched on or not, the two pods differ in variables only.                 *)
Alike(d, e) ==
  /\ IsDoc(d) /\ IsDoc(e)
  /\ d.ok => /\ e.ok /\ e.has = d.has
             /\ \A list \in Lists \ {"env"} : e.lists[list] = d.lists[list]
  /\ e.ok /\ "env" \in e.has => d.ok

(* A change that applies. *)
LEMMA ChangeApplies ==
  ASSUME NEW d, IsDoc(d), NEW o, IsAddition(o) \/ IsRemoval(o), d.ok, o.list \in d.has,
         o.op = "remove" => o.value \in DOMAIN d.lists[o.list]
  PROVE  Step(d, o).ok
<1>1. Applicable(d, o)
  BY DEF Applicable, IsAddition, IsRemoval
<1>2. PICK I : d \in DocsOf(I)
  BY DEF IsDoc
<1> QED BY <1>1, <1>2 DEF Step, applyOp, DocsOf, IsAddition, IsRemoval

LEMMA AlikeStep ==
  ASSUME NEW d, NEW e, Alike(d, e), NEW o, IsAddition(o) \/ IsRemoval(o)
  PROVE  Alike(Step(d, o), Step(e, o)) /\ (IsVariable(o) => Alike(Step(d, o), e))
<1> DEFINE d1 == Step(d, o)
           e1 == Step(e, o)
           Others == Lists \ {"env"}
<1>1. IsDoc(d) /\ IsDoc(e) /\ IsDoc(d1) /\ IsDoc(e1)
  BY StepIsDoc DEF Alike, IsOperation
<1>2. /\ Others \subseteq Lists /\ "env" \in Lists /\ "env" \notin Others
      /\ IsVariable(o) => o.list = "env" /\ o.op = "append"
      /\ o.op = "remove" => o.list \in Others
      /\ o.list \in Lists
  BY DEF Lists, IsVariable, IsAddition, IsRemoval
<1>3. ASSUME NEW p, IsDoc(p), Step(p, o).ok
      PROVE  /\ p.ok /\ o.list \in p.has /\ Step(p, o).has = p.has
             /\ o.op = "remove" => o.value \in DOMAIN p.lists[o.list]
             /\ \A list \in Others :
                  Step(p, o).lists[list] =
                    IF list # o.list THEN p.lists[list]
                    ELSE IF o.op = "append" THEN Append(p.lists[list], o.value)
                    ELSE RemoveAt(p.lists[list], o.value)
  <2>1. /\ p.ok /\ o.list \in p.has /\ Step(p, o).has = p.has
        /\ o.op = "remove" => o.value \in DOMAIN p.lists[o.list]
    BY <1>2, <1>3, ChangeStep
  <2>2. ASSUME NEW list \in Others
        PROVE  Step(p, o).lists[list] =
                 IF list # o.list THEN p.lists[list]
                 ELSE IF o.op = "append" THEN Append(p.lists[list], o.value)
                 ELSE RemoveAt(p.lists[list], o.value)
    <3> DEFINE s == p.lists[list]
               t == Step(p, o).lists[list]
    <3>1. /\ list # o.list => t = s
          /\ list = o.list => \/ o.op = "append" /\ t = Append(s, o.value)
                              \/ o.op = "remove" /\ t = RemoveAt(s, o.value)
      BY <1>2, <1>3, ChangeStep
    <3> HIDE DEF s, t
    <3> QED BY <3>1 DEF s, t
  <2> QED BY <2>1, <2>2
<1>4. ASSUME d1.ok
      PROVE  /\ e1.ok /\ e1.has = d1.has /\ e.ok /\ e.has = d1.has
             /\ \A list \in Others : e1.lists[list] = d1.lists[list]
             /\ IsVariable(o) => \A list \in Others : e.lists[list] = d1.lists[list]
  <2>1. /\ d.ok /\ o.list \in d.has /\ d1.has = d.has
        /\ o.op = "remove" => o.value \in DOMAIN d.lists[o.list]
    BY <1>1, <1>3, <1>4
  <2>2. e.ok /\ e.has = d.has /\ \A list \in Others : e.lists[list] = d.lists[list]
    BY <2>1 DEF Alike
  <2>3. e1.ok
    BY <1>1, <1>2, <2>1, <2>2, ChangeApplies
  <2> HIDE DEF Others
  <2> QED BY <1>1, <1>2, <1>3, <1>4, <2>1, <2>2, <2>3
<1>5. ASSUME e1.ok, "env" \in e1.has
      PROVE  d1.ok
  <2>1. /\ e.ok /\ o.list \in e.has /\ e1.has = e.has
        /\ o.op = "remove" => o.value \in DOMAIN e.lists[o.list]
    BY <1>1, <1>3, <1>5
  <2>2. d.ok /\ e.has = d.has /\ \A list \in Others : e.lists[list] = d.lists[list]
    BY <1>5, <2>1 DEF Alike
  <2> QED BY <1>1, <1>2, <2>1, <2>2, ChangeApplies
<1>6. ASSUME IsVariable(o), e.ok, "env" \in e.has
      PROVE  d1.ok
  <2>1. d.ok /\ e.has = d.has
    BY <1>6 DEF Alike
  <2> QED BY <1>1, <1>2, <1>6, <2>1, ChangeApplies
<1> HIDE DEF d1, e1
<1>7. Alike(d1, e1)
  BY <1>1, <1>4, <1>5 DEF Alike
<1>8. IsVariable(o) => Alike(d1, e)
  BY <1>1, <1>4, <1>6 DEF Alike
<1> QED BY <1>7, <1>8 DEF d1, e1

(* z is what is left of the first k operations of y, in their order, without *)
(* variables that are superseded.                                            *)
IsSelection(g, z, y, k) ==
  /\ g \in [1..Len(z) -> 1..k]
  /\ \A i \in 1..Len(z) : z[i] = y[g[i]]
  /\ \A i \in 1..Len(z) : \A j \in 1..(i - 1) : g[j] < g[i]
  /\ \A m \in 1..k : IsSuperseded(y, m) \/ \E i \in 1..Len(z) : g[i] = m

Selects(z, y, k) == \E g : IsSelection(g, z, y, k)

LEMMA SelectsNext ==
  ASSUME NEW y, NEW k \in Nat, NEW z, IsSeq(z), Selects(z, y, k)
  PROVE  /\ Selects(Append(z, y[k + 1]), y, k + 1)
         /\ IsSuperseded(y, k + 1) => Selects(z, y, k + 1)
<1> DEFINE o == y[k + 1]
           n == Len(z)
           w == Append(z, o)
<1>1. n \in Nat /\ \A m \in 1..(k + 1) : m \in 1..k \/ m = k + 1
  BY IsSeqFacts
<1>2. /\ Len(w) = n + 1 /\ w[n + 1] = o /\ \A i \in 1..n : w[i] = z[i]
  <2> DEFINE S == ToSet(z) \cup {o}
  <2>1. z \in Seq(S) /\ o \in S
    BY IsSeqIn
  <2> HIDE DEF S, o
  <2> QED BY <2>1, AppendProperties
<1>3. PICK g : IsSelection(g, z, y, k)
  BY DEF Selects
<1> HIDE DEF o, n, w
<1>4. /\ g \in [1..n -> 1..k] /\ \A i \in 1..n : z[i] = y[g[i]]
      /\ \A i \in 1..n : \A j \in 1..(i - 1) : g[j] < g[i]
      /\ \A m \in 1..k : IsSuperseded(y, m) \/ \E i \in 1..n : g[i] = m
  BY <1>3 DEF IsSelection, n
<1>5. Selects(w, y, k + 1)
  <2> DEFINE f == [i \in 1..(n + 1) |-> IF i = n + 1 THEN k + 1 ELSE g[i]]
  <2>1. f \in [1..(n + 1) -> 1..(k + 1)]
    BY <1>1, <1>4
  <2>2. \A i \in 1..n : i \in 1..(n + 1) /\ i # n + 1 /\ f[i] = g[i]
    BY <1>1
  <2>3. f[n + 1] = k + 1 /\ n + 1 \in 1..(n + 1) /\ \A i \in 1..(n + 1) : i \in 1..n \/ i = n + 1
    BY <1>1
  <2> HIDE DEF f
  <2>4. \A i \in 1..(n + 1) : w[i] = y[f[i]]
    BY <1>2, <1>4, <2>2, <2>3 DEF o
  <2>5. ASSUME NEW i \in 1..(n + 1), NEW j \in 1..(i - 1)
        PROVE  f[j] < f[i]
    <3>1. j \in 1..n
      BY <1>1
    <3>2. CASE i = n + 1
      <4>1. g[j] \in 1..k
        BY <1>4, <3>1
      <4> QED BY <2>2, <2>3, <3>1, <3>2, <4>1
    <3>3. CASE i \in 1..n
      BY <1>4, <2>2, <3>1, <3>3
    <3> QED BY <2>3, <3>2, <3>3
  <2>6. ASSUME NEW m \in 1..(k + 1)
        PROVE  IsSuperseded(y, m) \/ \E i \in 1..(n + 1) : f[i] = m
    BY <1>1, <1>4, <2>2, <2>3
  <2> QED BY <1>2, <2>1, <2>4, <2>5, <2>6 DEF Selects, IsSelection
<1>6. ASSUME IsSuperseded(y, k + 1)
      PROVE  Selects(z, y, k + 1)
  <2>1. g \in [1..n -> 1..(k + 1)]
    BY <1>1, <1>4
  <2>2. \A m \in 1..(k + 1) : IsSuperseded(y, m) \/ \E i \in 1..n : g[i] = m
    BY <1>1, <1>4, <1>6
  <2> QED BY <1>4, <2>1, <2>2 DEF Selects, IsSelection, n
<1> QED BY <1>5, <1>6 DEF w, o

(* What is kept of changes y after creations e: all but variables, so that   *)
(* what follows applies to the same mounts.                                  *)
KeptOf(z, y, k) ==
  /\ IsChanges(z)
  /\ ToSet(z) \subseteq Firsts(y, k)
  /\ \A o \in Firsts(y, k) : IsVariable(o) \/ o \in ToSet(z)
  /\ \A d, f : IsDoc(d) /\ Runs(f, d, y) => Alike(f[k], applyPatch(d, z))
  /\ Selects(z, y, k)

LEMMA KeptNext ==
  ASSUME NEW y, IsChanges(y), NEW k \in Nat, k + 1 <= Len(y), NEW z, KeptOf(z, y, k)
  PROVE  /\ KeptOf(Append(z, y[k + 1]), y, k + 1)
         /\ IsSuperseded(y, k + 1) => KeptOf(z, y, k + 1)
<1> DEFINE o == y[k + 1]
           z1 == Append(z, o)
<1>1. IsSeq(y) /\ Len(y) \in Nat /\ DOMAIN y = 1..Len(y) /\ IsSeq(z) /\ IsPatch(z)
  BY IsSeqFacts DEF IsChanges, KeptOf, IsPatch, IsOperation
<1>2. IsAddition(o) \/ IsRemoval(o)
  <2>1. k + 1 \in DOMAIN y
    BY <1>1
  <2> QED BY <2>1 DEF IsChanges, ToSet
<1>3. IsSeq(z1) /\ ToSet(z1) = ToSet(z) \cup {o}
  BY <1>1, AppendKeeps
<1>4. Firsts(y, k + 1) = Firsts(y, k) \cup {o}
  BY FirstsNext
<1>5. z1 = z \o <<o>>
  <2>1. z \in Seq(ToSet(z) \cup {o}) /\ o \in ToSet(z) \cup {o}
    BY <1>1, IsSeqIn
  <2> HIDE DEF o
  <2> QED BY <2>1, AppendIsConcat
<1>6. IsPatch(<<o>>)
  BY <1>2, Tuples DEF IsPatch, IsOperation
<1>0. /\ Selects(z1, y, k + 1)
      /\ IsSuperseded(y, k + 1) => Selects(z, y, k + 1)
  BY <1>1, SelectsNext DEF KeptOf
<1>10. IsSuperseded(y, k + 1) => IsVariable(o)
  BY DEF IsSuperseded
<1> HIDE DEF o, z1
<1>7. ASSUME NEW d, NEW f, IsDoc(d), Runs(f, d, y)
      PROVE  /\ Alike(f[k + 1], applyPatch(d, z1))
             /\ IsVariable(o) => Alike(f[k + 1], applyPatch(d, z))
  <2>1. f[k + 1] = Step(f[k], o)
    <3>1. k + 1 \in 1..Len(y) /\ (k + 1) - 1 = k
      BY <1>1
    <3> QED BY <1>7, <3>1 DEF Runs, o
  <2>2. Alike(f[k], applyPatch(d, z)) /\ IsDoc(applyPatch(d, z))
    BY <1>1, <1>7, PatchType DEF KeptOf
  <2>3. applyPatch(d, z1) = Step(applyPatch(d, z), o)
    BY <1>1, <1>2, <1>5, <1>6, <1>7, <2>2, PatchConcat, OneOperation DEF IsOperation
  <2> QED BY <1>2, <2>1, <2>2, <2>3, AlikeStep
<1>8. KeptOf(z1, y, k + 1)
  <2>1. IsChanges(z1)
    BY <1>2, <1>3 DEF KeptOf, IsChanges
  <2> QED BY <1>0, <1>3, <1>4, <1>7, <2>1 DEF KeptOf
<1>9. IsSuperseded(y, k + 1) => KeptOf(z, y, k + 1)
  BY <1>0, <1>4, <1>7, <1>10 DEF KeptOf
<1> QED BY <1>8, <1>9 DEF o, z1

LEMMA KeptChanges ==
  ASSUME NEW e, IsSeq(e), \A o \in ToSet(e) : ~IsVariable(o), NEW y, IsChanges(y)
  PROVE  \E z : removeDupliciteEnvs(e \o y) = e \o z /\ KeptOf(z, y, Len(y))
<1> DEFINE x == e \o y
           m == Len(e)
           n == Len(y)
<1>1. /\ IsSeq(y) /\ IsSeq(x) /\ m \in Nat /\ n \in Nat /\ Len(x) = m + n
      /\ DOMAIN e = 1..m /\ \A i \in 1..m : e[i] \in ToSet(e)
      /\ \A i \in 1..(m + n) : x[i] = IF i <= m THEN e[i] ELSE y[i - m]
  BY IsSeqConcat, IsSeqFacts DEF IsChanges
<1> HIDE DEF x, m, n
<1>2. PICK h : /\ h[0] = <<>>
               /\ \A i \in 1..(m + n) :
                    h[i] = IF IsSuperseded(x, i) THEN h[i - 1] ELSE Append(h[i - 1], x[i])
               /\ removeDupliciteEnvs(x) = h[m + n]
  <2>1. \E h : /\ h[0] = <<>>
               /\ \A i \in 1..Len(x) :
                    h[i] = IF IsSuperseded(x, i) THEN h[i - 1] ELSE Append(h[i - 1], x[i])
               /\ removeDupliciteEnvs(x) = h[Len(x)]
    BY <1>1, KeptRun, Zenon
  <2> QED BY <1>1, <2>1
<1>3. h[m] = e
  <2> DEFINE S == ToSet(e)
             Good == {k \in Nat : k <= m => /\ h[k] \in Seq(S) /\ Len(h[k]) = k
                                            /\ \A i \in 1..k : h[k][i] = e[i]}
  <2>1. 0 \in Good
    <3>1. <<>> \in Seq(S) /\ Len(<<>>) = 0
      OBVIOUS
    <3>2. \A i \in 1..0 : h[0][i] = e[i]
      OBVIOUS
    <3>3. h[0] \in Seq(S) /\ Len(h[0]) = 0
      <4> HIDE DEF S
      <4> QED BY <1>2, <3>1, Zenon
    <3> HIDE DEF S
    <3> QED BY <3>2, <3>3
  <2>2. ASSUME NEW k \in Nat, k \in Good
        PROVE  k + 1 \in Good
    <3> SUFFICES ASSUME k + 1 <= m
                 PROVE  /\ h[k + 1] \in Seq(S) /\ Len(h[k + 1]) = k + 1
                        /\ \A i \in 1..(k + 1) : h[k + 1][i] = e[i]
      OBVIOUS
    <3>1. k + 1 \in 1..(m + n) /\ (k + 1) - 1 = k /\ k <= m /\ k + 1 \in 1..m
      BY <1>1
    <3>2. x[k + 1] = e[k + 1] /\ e[k + 1] \in S /\ ~IsVariable(e[k + 1])
      BY <1>1, <3>1
    <3>3. h[k + 1] = Append(h[k], e[k + 1])
      <4> HIDE DEF Good
      <4> QED BY <1>2, <3>1, <3>2 DEF IsSuperseded
    <3>4. h[k] \in Seq(S) /\ Len(h[k]) = k /\ \A i \in 1..k : h[k][i] = e[i]
      BY <2>2, <3>1
    <3> DEFINE v == e[k + 1]
               t == h[k]
    <3> HIDE DEF Good, S, v, t
    <3>5. t \in Seq(S) /\ v \in S /\ Len(t) = k
      BY <3>2, <3>4 DEF v, t
    <3>6. /\ Append(t, v) \in Seq(S) /\ Len(Append(t, v)) = k + 1
          /\ \A i \in 1..k : Append(t, v)[i] = t[i]
          /\ Append(t, v)[k + 1] = v
      BY <3>5, AppendProperties
    <3>7. \A i \in 1..(k + 1) : i \in 1..k \/ i = k + 1
      OBVIOUS
    <3> QED BY <3>3, <3>4, <3>6, <3>7 DEF v, t
  <2>3. m \in Good
    <3> HIDE DEF Good
    <3> QED BY <1>1, <2>1, <2>2, SetInduction
  <2>4. h[m] \in Seq(S) /\ Len(h[m]) = m /\ \A i \in 1..m : h[m][i] = e[i]
    BY <1>1, <2>3
  <2>5. e \in Seq(S) /\ Len(e) = m
    BY DEF IsSeq, m
  <2> HIDE DEF S, Good
  <2> QED BY <2>4, <2>5, SeqEqual
<1> DEFINE P(k) == \E z : h[m + k] = e \o z /\ KeptOf(z, y, k)
           Good == {k \in Nat : k <= n => P(k)}
<1>4. 0 \in Good
  <2>1. m + 0 = m /\ Firsts(y, 0) = {}
    BY <1>1, FirstsNext
  <2>2. e \o <<>> = e
    BY ConcatEmptySeq DEF IsSeq
  <2>3. IsSeq(<<>>) /\ ToSet(<<>>) = {}
    BY Tuples
  <2>4. \A d, f : IsDoc(d) /\ Runs(f, d, y) => Alike(f[0], applyPatch(d, <<>>))
    BY EmptyPatch DEF Runs, Alike
  <2>6. Selects(<<>>, y, 0)
    <3> DEFINE g == [i \in 1..0 |-> 0]
    <3>1. IsSelection(g, <<>>, y, 0)
      BY DEF IsSelection
    <3> QED BY <3>1 DEF Selects
  <2>5. KeptOf(<<>>, y, 0)
    BY <2>1, <2>3, <2>4, <2>6 DEF KeptOf, IsChanges
  <2> QED BY <1>3, <2>1, <2>2, <2>5
<1>5. ASSUME NEW k \in Nat, k \in Good
      PROVE  k + 1 \in Good
  <2> SUFFICES ASSUME k + 1 <= n PROVE P(k + 1)
    <3> HIDE DEF P
    <3> QED OBVIOUS
  <2>1. PICK z : h[m + k] = e \o z /\ KeptOf(z, y, k)
    <3>1. k <= n
      BY <1>1
    <3> QED BY <1>5, <3>1
  <2>2. /\ m + (k + 1) \in 1..(m + n) /\ (m + (k + 1)) - 1 = m + k
        /\ (m + (k + 1)) - m = k + 1 /\ ~(m + (k + 1) <= m)
    BY <1>1
  <2>3. x[m + (k + 1)] = y[k + 1]
    BY <1>1, <2>2
  <2> DEFINE o == y[k + 1]
  <2>4. /\ KeptOf(Append(z, o), y, k + 1)
        /\ IsSuperseded(y, k + 1) => KeptOf(z, y, k + 1)
    BY <2>1, KeptNext DEF n
  <2>7. IsSuperseded(x, m + (k + 1)) => IsSuperseded(y, k + 1)
    <3> SUFFICES ASSUME NEW j \in (m + (k + 1) + 1)..(m + n), IsVariable(x[j]), IsVariable(o),
                        x[j].value.name = o.value.name
                 PROVE  IsSuperseded(y, k + 1)
      BY <1>1, <2>3 DEF IsSuperseded
    <3>1. j \in 1..(m + n) /\ ~(j <= m) /\ j - m \in ((k + 1) + 1)..n
      BY <1>1
    <3>2. x[j] = y[j - m]
      BY <1>1, <3>1
    <3> QED BY <3>1, <3>2 DEF IsSuperseded, n
  <2>5. \/ h[m + (k + 1)] = Append(e \o z, o)
        \/ h[m + (k + 1)] = e \o z /\ IsSuperseded(y, k + 1)
    <3>1. h[m + (k + 1)] = IF IsSuperseded(x, m + (k + 1)) THEN h[m + k]
                           ELSE Append(h[m + k], x[m + (k + 1)])
      <4> HIDE DEF Good
      <4> QED BY <1>2, <2>2
    <3> HIDE DEF Good
    <3> QED BY <2>1, <2>3, <2>7, <3>1
  <2> HIDE DEF o
  <2>6. Append(e \o z, o) = e \o Append(z, o)
    <3> DEFINE S == ToSet(e) \cup ToSet(z) \cup {o}
    <3>1. IsSeq(z)
      BY <2>1 DEF KeptOf, IsChanges
    <3>2. e \in Seq(S) /\ z \in Seq(S) /\ o \in S /\ <<o>> \in Seq(S)
      BY <3>1, IsSeqIn
    <3> HIDE DEF S
    <3>3. e \o z \in Seq(S)
      BY <3>2, ConcatProperties
    <3>4. Append(e \o z, o) = (e \o z) \o <<o>> /\ Append(z, o) = z \o <<o>>
      BY <3>2, <3>3, AppendIsConcat
    <3> QED BY <3>2, <3>4, ConcatAssociative
  <2> QED BY <2>4, <2>5, <2>6
<1>6. n \in Good
  <2> HIDE DEF Good
  <2> QED BY <1>1, <1>4, <1>5, SetInduction
<1> QED BY <1>1, <1>2, <1>6 DEF x, n

-----------------------------------------------------------------------------
(* The lists that are added first.                                           *)

LEMMA PodIsDoc ==
  ASSUME NEW p, IsPod(p), NEW H \in SUBSET Lists, NEW ok \in BOOLEAN
  PROVE  IsDoc([lists |-> p, has |-> H, ok |-> ok])
<1> DEFINE I == ToSet(p.env) \cup ToSet(p.mounts) \cup ToSet(p.volumes)
                  \cup ToSet(p.inits) \cup ToSet(p.containers)
<1>1. /\ p = [env |-> p.env, mounts |-> p.mounts, volumes |-> p.volumes,
              inits |-> p.inits, containers |-> p.containers]
      /\ DOMAIN p = Lists
  BY DEF IsPod, Lists
<1>2. /\ p.env \in Seq(I) /\ p.mounts \in Seq(I) /\ p.volumes \in Seq(I)
      /\ p.inits \in Seq(I) /\ p.containers \in Seq(I)
  <2>1. /\ p.env \in Seq(ToSet(p.env)) /\ p.mounts \in Seq(ToSet(p.mounts))
        /\ p.volumes \in Seq(ToSet(p.volumes)) /\ p.inits \in Seq(ToSet(p.inits))
        /\ p.containers \in Seq(ToSet(p.containers))
    BY DEF IsPod
  <2> QED BY <2>1, SeqMonotonic
<1> HIDE DEF I
<1>3. \A list \in Lists : p[list] \in Seq(I)
  BY <1>2 DEF Lists
<1>4. p = [list \in Lists |-> p[list]]
  BY <1>1
<1>5. p \in [Lists -> Seq(I)]
  BY <1>3, <1>4
<1>6. [lists |-> p, has |-> H, ok |-> ok] \in DocsOf(I)
  BY <1>5 DEF DocsOf
<1> QED BY <1>6 DEF IsDoc

(* One list: if it is empty it is added, but for the volumes. *)
LEMMA EmptyListAdds ==
  ASSUME NEW p, IsPod(p), NEW H \in SUBSET Lists, NEW list \in Lists
  PROVE  LET d == [lists |-> p, has |-> H, ok |-> TRUE]
         IN  /\ IsPatch(EmptyList(p, list))
             /\ \A o \in ToSet(EmptyList(p, list)) : ~IsVariable(o)
             /\ p[list] # <<>> => applyPatch(d, EmptyList(p, list)) = d
             /\ p[list] = <<>> /\ list # "volumes" =>
                  applyPatch(d, EmptyList(p, list))
                    = [lists |-> p, has |-> H \cup {list}, ok |-> TRUE]
             /\ p[list] = <<>> /\ list = "volumes" => ~applyPatch(d, EmptyList(p, list)).ok
<1> DEFINE d == [lists |-> p, has |-> H, ok |-> TRUE]
           o == Create(list)
<1>1. IsDoc(d)
  BY PodIsDoc
<1>2. IsOperation(o) /\ ~IsVariable(o) /\ o.op = "create" /\ o.list = list
  BY DEF Create, IsOperation, IsCreation, IsVariable
<1>3. CASE p[list] # <<>>
  <2>1. EmptyList(p, list) = <<>>
    BY <1>3 DEF EmptyList
  <2>2. IsPatch(<<>>) /\ ToSet(<<>>) = {}
    BY Tuples DEF IsPatch
  <2>3. applyPatch(d, <<>>) = d
    <3> HIDE DEF d
    <3> QED BY <1>1, EmptyPatch
  <2> HIDE DEF d
  <2> QED BY <1>3, <2>1, <2>2, <2>3 DEF d
<1>4. CASE p[list] = <<>>
  <2>1. EmptyList(p, list) = <<o>>
    BY <1>4 DEF EmptyList
  <2>2. IsPatch(<<o>>) /\ ToSet(<<o>>) = {o}
    <3> HIDE DEF o
    <3> QED BY <1>2, Tuples DEF IsPatch
  <2>3. applyPatch(d, <<o>>) = Step(d, o)
    <3> HIDE DEF d, o
    <3> QED BY <1>1, <1>2, OneOperation
  <2>4. list # "volumes" => Step(d, o) = [lists |-> p, has |-> H \cup {list}, ok |-> TRUE]
    <3> SUFFICES ASSUME list # "volumes"
                 PROVE  Step(d, o) = [lists |-> p, has |-> H \cup {list}, ok |-> TRUE]
      OBVIOUS
    <3>1. Applicable(d, o)
      BY <1>2 DEF Applicable
    <3>2. applyOp(d, o) = [d EXCEPT !.lists[list] = <<>>, !.has = @ \cup {list}]
      BY <1>2 DEF applyOp
    <3>3. [p EXCEPT ![list] = <<>>] = p
      <4>1. DOMAIN p = Lists /\ p = [l \in Lists |-> p[l]]
        BY DEF IsPod, Lists
      <4> QED BY <1>4, <4>1
    <3> QED BY <3>1, <3>2, <3>3 DEF Step
  <2>5. list = "volumes" => ~Step(d, o).ok
    BY <1>2 DEF Step, Applicable
  <2> HIDE DEF d, o
  <2> QED BY <1>2, <1>4, <2>1, <2>2, <2>3, <2>4, <2>5 DEF d
<1> QED BY <1>3, <1>4

LEMMA NotOkRemains ==
  ASSUME NEW d, IsDoc(d), ~d.ok, NEW p, IsPod(p), NEW list \in Lists
  PROVE  ~applyPatch(d, EmptyList(p, list)).ok
<1>1. CASE p[list] # <<>>
  BY <1>1, EmptyPatch DEF EmptyList
<1>2. CASE p[list] = <<>>
  <2>1. IsOperation(Create(list))
    BY DEF Create, IsOperation, IsCreation
  <2>2. applyPatch(d, EmptyList(p, list)) = Step(d, Create(list))
    BY <1>2, <2>1, OneOperation DEF EmptyList
  <2>3. PICK I : d \in DocsOf(I)
    BY DEF IsDoc
  <2> QED BY <2>2, <2>3 DEF Step, DocsOf
<1> QED BY <1>1, <1>2

(* The pod that is patched on. *)
Prepared(p) == applyPatch(Document(p), EmptyLists(p))

LEMMA PreparedIs ==
  ASSUME NEW p, IsPod(p), p.containers # <<>>
  PROVE  /\ IsPatch(EmptyLists(p)) /\ IsDoc(Document(p)) /\ IsDoc(Prepared(p))
         /\ \A o \in ToSet(EmptyLists(p)) : ~IsVariable(o)
         /\ IF p.volumes = <<>> THEN ~Prepared(p).ok
            ELSE Prepared(p) = [lists |-> p, has |-> Lists, ok |-> TRUE]
<1> DEFINE H == {list \in Lists : p[list] # <<>>}
           doc(G) == [lists |-> p, has |-> G, ok |-> TRUE]
           a == EmptyList(p, "env")
           b == EmptyList(p, "mounts")
           c == EmptyList(p, "volumes")
           e == EmptyList(p, "inits")
           H1 == H \cup {"env"}
           H2 == H1 \cup {"mounts"}
           H3 == H2 \cup {"inits"}
<1>1. Document(p) = doc(H) /\ \A G \in SUBSET Lists : IsDoc(doc(G))
  BY PodIsDoc DEF Document
<1>2. H \in SUBSET Lists /\ H1 \in SUBSET Lists /\ H2 \in SUBSET Lists
  BY DEF Lists
<1>3. /\ "env" \in Lists /\ "mounts" \in Lists /\ "volumes" \in Lists /\ "inits" \in Lists
  BY DEF Lists
<1>4. /\ IsPatch(a) /\ IsPatch(b) /\ IsPatch(c) /\ IsPatch(e)
      /\ \A o \in ToSet(a) \cup ToSet(b) \cup ToSet(c) \cup ToSet(e) : ~IsVariable(o)
  BY <1>2, <1>3, EmptyListAdds
<1> DEFINE l == a \o b \o c \o e
<1>5. IsPatch(l) /\ ToSet(l) = ToSet(a) \cup ToSet(b) \cup ToSet(c) \cup ToSet(e)
  <2> HIDE DEF a, b, c, e
  <2>1. IsPatch(a \o b) /\ ToSet(a \o b) = ToSet(a) \cup ToSet(b)
    BY <1>4, IsSeqConcat DEF IsPatch
  <2>2. IsPatch(a \o b \o c) /\ ToSet(a \o b \o c) = ToSet(a \o b) \cup ToSet(c)
    BY <1>4, <2>1, IsSeqConcat DEF IsPatch
  <2> QED BY <1>4, <2>1, <2>2, IsSeqConcat DEF IsPatch
<1>6. EmptyLists(p) = l
  BY DEF EmptyLists
<1>7. applyPatch(doc(H), l)
        = applyPatch(applyPatch(applyPatch(applyPatch(doc(H), a), b), c), e)
  <2> HIDE DEF a, b, c, e, H
  <2>1. IsDoc(doc(H))
    BY <1>1, <1>2
  <2> HIDE DEF doc
  <2>2. IsPatch(a \o b) /\ applyPatch(doc(H), a \o b) = applyPatch(applyPatch(doc(H), a), b)
    BY <1>4, <2>1, PatchConcat
  <2>3. /\ IsPatch(a \o b \o c)
        /\ applyPatch(doc(H), a \o b \o c) = applyPatch(applyPatch(doc(H), a \o b), c)
    BY <1>4, <2>1, <2>2, PatchConcat
  <2>4. applyPatch(doc(H), a \o b \o c \o e) = applyPatch(applyPatch(doc(H), a \o b \o c), e)
    BY <1>4, <2>1, <2>3, PatchConcat
  <2> QED BY <2>2, <2>3, <2>4
<1>8. applyPatch(doc(H), a) = doc(H1)
  <2>1. CASE p["env"] = <<>>
    BY <1>2, <1>3, <2>1, EmptyListAdds
  <2>2. CASE p["env"] # <<>>
    <3>1. H1 = H
      BY <1>3, <2>2
    <3>2. applyPatch(doc(H), a) = doc(H)
      BY <1>2, <1>3, <2>2, EmptyListAdds
    <3> QED BY <3>1, <3>2
  <2> QED BY <2>1, <2>2
<1>9. applyPatch(doc(H1), b) = doc(H2)
  <2>1. CASE p["mounts"] = <<>>
    BY <1>2, <1>3, <2>1, EmptyListAdds
  <2>2. CASE p["mounts"] # <<>>
    <3>1. H2 = H1
      BY <1>3, <2>2
    <3>2. applyPatch(doc(H1), b) = doc(H1)
      BY <1>2, <1>3, <2>2, EmptyListAdds
    <3> QED BY <3>1, <3>2
  <2> QED BY <2>1, <2>2
<1>10. CASE p.volumes = <<>>
  <2>1. ~applyPatch(doc(H2), c).ok
    BY <1>2, <1>3, <1>10, EmptyListAdds
  <2>2. IsDoc(applyPatch(doc(H2), c))
    <3>1. IsDoc(doc(H2))
      BY <1>1, <1>2
    <3> HIDE DEF doc, c, H2
    <3> QED BY <1>4, <3>1, PatchType
  <2>3. ~applyPatch(applyPatch(doc(H2), c), e).ok
    <3> HIDE DEF doc, c, H2
    <3> QED BY <1>3, <2>1, <2>2, NotOkRemains
  <2>4. ~Prepared(p).ok
    <3> HIDE DEF doc, a, b, c, e, H, H1, H2
    <3> QED BY <1>1, <1>6, <1>7, <1>8, <1>9, <2>3 DEF Prepared
  <2>5. IsDoc(Prepared(p))
    <3>1. IsDoc(Document(p))
      BY <1>1, <1>2
    <3> HIDE DEF l
    <3> QED BY <1>5, <1>6, <3>1, PatchType DEF Prepared
  <2> HIDE DEF doc, l, H
  <2> QED BY <1>1, <1>2, <1>4, <1>5, <1>6, <1>10, <2>4, <2>5
<1>11. CASE p.volumes # <<>>
  <2>1. applyPatch(doc(H2), c) = doc(H2)
    BY <1>2, <1>3, <1>11, EmptyListAdds
  <2>2. applyPatch(doc(H2), e) = doc(H3)
    <3>1. CASE p["inits"] = <<>>
      BY <1>2, <1>3, <3>1, EmptyListAdds
    <3>2. CASE p["inits"] # <<>>
      <4>1. H3 = H2
        BY <1>3, <3>2
      <4>2. applyPatch(doc(H2), e) = doc(H2)
        BY <1>2, <1>3, <3>2, EmptyListAdds
      <4> QED BY <4>1, <4>2
    <3> QED BY <3>1, <3>2
  <2>3. H3 = Lists
    BY <1>11 DEF Lists
  <2>4. Prepared(p) = doc(Lists)
    <3> HIDE DEF doc, a, b, c, e, H, H1, H2, H3
    <3> QED BY <1>1, <1>6, <1>7, <1>8, <1>9, <2>1, <2>2, <2>3 DEF Prepared
  <2>5. IsDoc(Prepared(p)) /\ IsDoc(Document(p))
    <3>1. Lists \in SUBSET Lists
      OBVIOUS
    <3> HIDE DEF doc, H
    <3> QED BY <1>1, <1>2, <2>4, <3>1
  <2> HIDE DEF l, H
  <2> QED BY <1>4, <1>5, <1>6, <1>11, <2>4, <2>5
<1> QED BY <1>10, <1>11

-----------------------------------------------------------------------------
(* The rules, as they are completed.                                         *)

(* Whether a rule of the config map has the attributes of the pod injected.  *)
AttrsOf(r) ==
  applyTemplate(r.attrs, IF r.template \notin {Unset, NotFound} THEN r.template.attrs = TRUE
                         ELSE TRUE)

(* What a member of the rule comes to: an injection rule, that has its       *)
(* options unless it is of a rule set of a custom resource.                  *)
IsCompleted(m, r) ==
  /\ m.attrs \in BOOLEAN \cup {Unset}
  /\ m.template = r.template
  /\ IsSeq(m.env) /\ SendsNowhere(m.env)
  /\ r.template \in {Unset, NotFound} => m.env = r.env
  /\ rule.source = "configmap" => m.attrs = AttrsOf(r)
  /\ (rule.source = "cr" /\ rule.set) \/ (m.attrs # Unset /\ m.reservation # Unset)

LEMMA MergedIsSeq ==
  ASSUME NEW a, NEW b, IsSeq(a), IsSeq(b), NEW merged \in mergeNameValues(a, b)
  PROVE  IsSeq(merged) /\ ToSet(merged) \subseteq ToSet(a) \cup ToSet(b)
<1> DEFINE given == b \o a
           T == {given[i] : i \in {n \in DOMAIN given :
                   \A later \in DOMAIN given :
                     later > n => given[later].name # given[n].name}}
           R == ToSet(given)
<1>1. IsSeq(given) /\ DOMAIN given = 1..Len(given) /\ Len(given) \in Nat
  <2>1. IsSeq(given)
    BY IsSeqConcat
  <2> HIDE DEF given
  <2> QED BY <2>1, IsSeqFacts
<1> HIDE DEF given
<1>2. given \in Surjection(DOMAIN given, R)
  BY <1>1 DEF Surjection, ToSet, IsSeq
<1>3. IsFiniteSet(DOMAIN given)
  BY <1>1, FS_Interval
<1>4. IsFiniteSet(R)
  BY <1>2, <1>3, FS_Surjection
<1>5. T \in SUBSET R
  BY DEF ToSet
<1>6. IsFiniteSet(T)
  BY <1>4, <1>5, FS_Subset
<1>7. Cardinality(T) \in Nat
  BY <1>6, FS_CardinalityType
<1>8. merged \in [1..Cardinality(T) -> T]
  BY DEF mergeNameValues, SetToSeqs, given
<1> HIDE DEF T
<1>9. merged \in Seq(T)
  BY <1>7, <1>8, SeqDef
<1>10. R = ToSet(a) \cup ToSet(b)
  BY IsSeqConcat DEF given
<1> QED BY <1>5, <1>9, <1>10, SeqIsSeq

LEMMA MergedSendsNowhere ==
  ASSUME NEW a, NEW b, IsSeq(a), IsSeq(b), SendsNowhere(a), SendsNowhere(b),
         NEW merged \in mergeNameValues(a, b)
  PROVE  SendsNowhere(merged)
<1>1. IsSeq(merged) /\ ToSet(merged) \subseteq ToSet(a) \cup ToSet(b)
  BY MergedIsSeq
<1>2. \A v \in ToSet(a) \cup ToSet(b) : v.to = "none"
  BY DEF SendsNowhere, ToSet
<1> QED BY <1>1, <1>2, IsSeqFacts DEF SendsNowhere

(* applyInjectionTemplates leaves an injection rule, with the attributes     *)
(* given if there was a template.                                            *)
LEMMA TemplateApplied ==
  ASSUME NEW r, IsInjectionRule(r), NEW m \in applyInjectionTemplates(r)
  PROVE  /\ DOMAIN m = DOMAIN r
         /\ m.attrs \in BOOLEAN \cup {Unset} /\ m.template = r.template
         /\ IsSeq(m.env) /\ SendsNowhere(m.env)
         /\ r.template \in {Unset, NotFound} => m.env = r.env
         /\ applyTemplate(m.attrs, TRUE) = AttrsOf(r)
<1>1. CASE r.template \in {Unset, NotFound}
  BY <1>1 DEF applyInjectionTemplates, IsInjectionRule, IsOption, AttrsOf
<1>2. CASE r.template \notin {Unset, NotFound}
  <2>1. IsOption(r.template) /\ IsOption(r)
    BY <1>2 DEF IsInjectionRule
  <2> DEFINE t == r.template
             attrs == applyTemplate(r.attrs, applyTemplate(t.attrs, FALSE))
             reservation == applyTemplate(r.reservation, t.reservation)
             collector == applyTemplate(r.collector, t.collector)
  <2>2. PICK merged \in mergeNameValues(r.env, t.env) :
          m = [r EXCEPT !.attrs = attrs, !.reservation = reservation,
                        !.collector = collector, !.env = merged]
    BY <1>2 DEF applyInjectionTemplates, injectionRuleTemplate
  <2>3. IsSeq(merged) /\ SendsNowhere(merged)
    BY <2>1, <2>2, MergedIsSeq, MergedSendsNowhere DEF IsOption
  <2>4. attrs \in BOOLEAN \cup {Unset} /\ applyTemplate(attrs, TRUE) = AttrsOf(r)
    BY <1>2, <2>1, PatchAssumption DEF applyTemplate, IsOption, AttrsOf
  <2>5. DOMAIN r = {"technology", "template", "env", "attrs", "reservation", "collector"}
    BY DEF IsInjectionRule, Options
  <2> HIDE DEF attrs, reservation, collector
  <2> QED BY <1>2, <2>2, <2>3, <2>4, <2>5
<1> QED BY <1>1, <1>2

LEMMA DefaultsApplied ==
  ASSUME NEW m, {"attrs", "reservation", "template", "env"} \subseteq DOMAIN m,
         m.attrs \in BOOLEAN \cup {Unset}
  PROVE  LET d == injectionRuleDefaults(m)
         IN  /\ d.attrs \in BOOLEAN /\ d.attrs # Unset /\ d.reservation # Unset
             /\ d.template = m.template /\ d.env = m.env
             /\ d.attrs = applyTemplate(m.attrs, TRUE)
<1> DEFINE attrs == applyTemplate(m.attrs, TRUE)
           reservation == applyTemplate(m.reservation, "default")
<1>1. attrs \in BOOLEAN /\ attrs # Unset /\ reservation # Unset
  BY PatchAssumption DEF applyTemplate
<1>2. injectionRuleDefaults(m) = [m EXCEPT !.attrs = attrs, !.reservation = reservation]
  BY DEF injectionRuleDefaults
<1>3. attrs = applyTemplate(m.attrs, TRUE)
  OBVIOUS
<1> HIDE DEF attrs, reservation
<1> QED BY <1>1, <1>2, <1>3

LEMMA MembersCompleted ==
  ASSUME rule \in Rules, NEW r \in ToSet(rule.members), NEW m \in Completed(r, rule.set)
  PROVE  IsCompleted(m, r)
<1>1. rule.source \in {"configmap", "cr"} /\ IsInjectionRule(r)
  BY PatchAssumption
<1>2. DOMAIN r = {"technology", "template", "env", "attrs", "reservation", "collector"}
  BY <1>1 DEF IsInjectionRule, Options
<1>3. CASE rule.source = "configmap"
  <2>1. PICK t \in applyInjectionTemplates(r) : m = injectionRuleDefaults(t)
    BY <1>3 DEF Completed, fromConfigMap
  <2>2. /\ DOMAIN t = DOMAIN r /\ t.attrs \in BOOLEAN \cup {Unset}
        /\ t.template = r.template /\ IsSeq(t.env) /\ SendsNowhere(t.env)
        /\ r.template \in {Unset, NotFound} => t.env = r.env
        /\ applyTemplate(t.attrs, TRUE) = AttrsOf(r)
    BY <1>1, <2>1, TemplateApplied
  <2>3. /\ m.attrs \in BOOLEAN /\ m.attrs # Unset /\ m.reservation # Unset
        /\ m.template = t.template /\ m.env = t.env
        /\ m.attrs = applyTemplate(t.attrs, TRUE)
    BY <1>2, <2>1, <2>2, DefaultsApplied
  <2> QED BY <2>2, <2>3 DEF IsCompleted
<1>4. CASE rule.source = "cr" /\ ~rule.set
  <2>1. m = injectionRuleDefaults(r)
    BY <1>4 DEF Completed, fromCustomResource
  <2>2. r.attrs \in BOOLEAN \cup {Unset} /\ IsSeq(r.env) /\ SendsNowhere(r.env)
    BY <1>1 DEF IsInjectionRule, IsOption
  <2>3. /\ m.attrs \in BOOLEAN /\ m.attrs # Unset /\ m.reservation # Unset
        /\ m.template = r.template /\ m.env = r.env
    BY <1>2, <2>1, <2>2, DefaultsApplied
  <2> QED BY <1>4, <2>2, <2>3 DEF IsCompleted
<1>5. CASE rule.source = "cr" /\ rule.set
  <2>1. m = r
    BY <1>5 DEF Completed, fromCustomResource
  <2> QED BY <1>1, <1>5, <2>1 DEF IsCompleted, IsInjectionRule, IsOption
<1> QED BY <1>1, <1>3, <1>4, <1>5

-----------------------------------------------------------------------------
(* The invariant.                                                            *)

Typed ==
  /\ app \in Apps /\ rule \in Rules
  /\ at \in {"start", "instrument", "created", "failed", "panicked"}
  /\ next \in 1..Len(rule.members) + 1
  /\ looked \in Collectors \cup {"changed", Unset}

MembersAre ==
  at # "start" => /\ Len(members) = Len(rule.members)
                  /\ DOMAIN members = 1..Len(rule.members)
                  /\ \A i \in DOMAIN members : IsCompleted(members[i], rule.members[i])

(* What is patched on a pod that has all the lists: changes that carry the   *)
(* volumes they mount, and that apply to a pod with volumes.                 *)
Patches(x) ==
  /\ Carries(x, ToSet(app.volumes))
  /\ app.volumes # <<>> /\ FewPassing(app) =>
       Whole(applyPatch(Prepared(app), x), Len(app.mounts))

IsPatching(patch) == \E x : patch = EmptyLists(app) \o x /\ Patches(x)

OpsAre == IF at = "start" THEN ops = <<>> ELSE IsPatching(ops)

Outcome ==
  LET doc == applyPatch(Document(app), ops)
  IN  /\ at # "created" => pod = app
      /\ at = "created" => doc.ok /\ pod = doc.lists
      /\ at = "failed" => ~doc.ok
      /\ OnlyIncompleteRulesPanic

PatchInv == Typed /\ MembersAre /\ OpsAre /\ Outcome

LEMMA AppIs ==
  ASSUME app \in Apps
  PROVE  /\ IsPod(app) /\ app.containers # <<>> /\ Mounted(app) \subseteq ToSet(app.volumes)
         /\ IsSeq(app.mounts) /\ Len(app.mounts) \in Nat
<1>1. IsPod(app) /\ app.containers # <<>> /\ Mounted(app) \subseteq ToSet(app.volumes)
  BY PatchAssumption
<1>2. IsSeq(app.mounts)
  BY <1>1 DEF IsPod, IsSeq
<1> QED BY <1>1, <1>2, IsSeqFacts

LEMMA InitInv == Init => PatchInv
<1> SUFFICES ASSUME Init PROVE PatchInv
  OBVIOUS
<1>1. Len(rule.members) \in Nat
  BY PatchAssumption, IsSeqFacts DEF Init
<1> QED BY <1>1 DEF Init, PatchInv, Typed, MembersAre, OpsAre, Outcome, OnlyIncompleteRulesPanic

LEMMA NothingPatched ==
  ASSUME app \in Apps
  PROVE  Patches(<<>>) /\ EmptyLists(app) = EmptyLists(app) \o <<>>
<1>1. IsPod(app) /\ app.containers # <<>> /\ IsSeq(app.mounts) /\ Len(app.mounts) \in Nat
  BY AppIs
<1>2. EmptyLists(app) \o <<>> = EmptyLists(app)
  BY <1>1, PreparedIs, ConcatEmptySeq DEF IsPatch, IsSeq
<1>3. Carries(<<>>, ToSet(app.volumes))
  BY Tuples DEF Carries, IsChanges
<1>4. applyPatch(Prepared(app), <<>>) = Prepared(app)
  BY <1>1, PreparedIs, EmptyPatch
<1>5. app.volumes # <<>> => Whole(Prepared(app), Len(app.mounts))
  BY <1>1, PreparedIs DEF Whole
<1> QED BY <1>2, <1>3, <1>4, <1>5 DEF Patches

LEMMA CompleteInv == PatchInv /\ Complete => PatchInv'
<1> SUFFICES ASSUME PatchInv, Complete PROVE PatchInv'
  OBVIOUS
<1>1. /\ at = "start" /\ at' = "instrument" /\ ops' = EmptyLists(app) /\ app' = app
      /\ rule' = rule /\ next' = next /\ looked' = looked /\ pod' = pod
  BY DEF Complete
<1>2. Typed'
  BY <1>1 DEF PatchInv, Typed
<1>3. MembersAre'
  <2> DEFINE may(r) == Completed(r, rule.set)
             U == UNION {may(r) : r \in ToSet(rule.members)}
  <2>1. PICK m \in [DOMAIN rule.members -> U] :
          (\A i \in DOMAIN m : m[i] \in may(rule.members[i])) /\ members' = m
    BY DEF Complete
  <2>2. rule \in Rules /\ IsSeq(rule.members)
    BY PatchAssumption DEF PatchInv, Typed
  <2>3. /\ Len(rule.members) \in Nat /\ DOMAIN rule.members = 1..Len(rule.members)
        /\ \A i \in DOMAIN rule.members : rule.members[i] \in ToSet(rule.members)
    BY <2>2, IsSeqFacts
  <2> HIDE DEF U
  <2>4. Len(m) = Len(rule.members) /\ DOMAIN m = 1..Len(rule.members)
    <3>1. m \in Seq(U)
      BY <2>1, <2>3, SeqDef
    <3> QED BY <2>1, <2>3, <3>1
  <2>5. \A i \in DOMAIN m : IsCompleted(m[i], rule.members[i])
    <3> SUFFICES ASSUME NEW i \in DOMAIN m PROVE IsCompleted(m[i], rule.members[i])
      OBVIOUS
    <3>1. rule.members[i] \in ToSet(rule.members) /\ m[i] \in Completed(rule.members[i], rule.set)
      BY <2>1, <2>3, <2>4
    <3> QED BY <2>2, <3>1, MembersCompleted
  <2> QED BY <1>1, <2>1, <2>4, <2>5 DEF MembersAre, IsCompleted
<1>4. OpsAre'
  <2>1. Patches(<<>>) /\ EmptyLists(app) = EmptyLists(app) \o <<>>
    BY NothingPatched DEF PatchInv, Typed
  <2>2. IsPatching(ops')
    BY <1>1, <2>1 DEF IsPatching
  <2> QED BY <1>1, <2>2 DEF OpsAre, IsPatching, Patches
<1>5. Outcome'
  BY <1>1 DEF PatchInv, Outcome, OnlyIncompleteRulesPanic
<1> QED BY <1>2, <1>3, <1>4, <1>5 DEF PatchInv

(* z is what removeDupliciteEnvs leaves of changes y. *)
IsReduced(z, y) ==
  /\ Patches(z) /\ Selects(z, y, Len(y))
  /\ Alike(applyPatch(Prepared(app), y), applyPatch(Prepared(app), z))
  /\ ToSet(z) \subseteq ToSet(y)
  /\ \A o \in ToSet(y) : IsVariable(o) \/ o \in ToSet(z)
  /\ removeDupliciteEnvs(EmptyLists(app) \o y) = EmptyLists(app) \o z

CanReduce(y) == \E z : IsReduced(z, y)

(* What is patched already, and the patch of one more injection rule. *)
LEMMA PatchesLonger ==
  ASSUME app \in Apps, NEW x, Patches(x), NEW r, IsSeq(r.env), NEW look
  PROVE  LET u == applyInjectionRule(app, r, look)
         IN  /\ Patches(x \o u) /\ IsChanges(x) /\ IsChanges(u)
             /\ (EmptyLists(app) \o x) \o u = EmptyLists(app) \o (x \o u)
             /\ CanReduce(x \o u)
<1> DEFINE e == EmptyLists(app)
           V == ToSet(app.volumes)
           n == Len(app.mounts)
           u == applyInjectionRule(app, r, look)
           y == x \o u
           d == Prepared(app)
<1>1. /\ IsPod(app) /\ app.containers # <<>> /\ Mounted(app) \subseteq V
      /\ IsSeq(app.mounts) /\ n \in Nat
  BY AppIs
<1>2. IsPatch(e) /\ IsSeq(e) /\ IsDoc(d) /\ \A o \in ToSet(e) : ~IsVariable(o)
  BY <1>1, PreparedIs DEF IsPatch
<1>3. /\ Carries(u, V)
      /\ \A f : Whole(f, n) /\ FewPassing(app) => Whole(applyPatch(f, u), n)
  BY <1>1, RulePatch
<1>4. Carries(x, V) /\ (app.volumes # <<>> /\ FewPassing(app) => Whole(applyPatch(d, x), n))
  BY DEF Patches
<1> HIDE DEF e, V, n, u, d
<1>5. e \o x \o u = e \o y
  <2>1. IsSeq(x) /\ IsSeq(u)
    BY <1>3, <1>4 DEF Carries, IsChanges
  <2> DEFINE S == ToSet(e) \cup ToSet(x) \cup ToSet(u)
  <2>2. e \in Seq(S) /\ x \in Seq(S) /\ u \in Seq(S)
    BY <1>2, <2>1, IsSeqIn
  <2>3. (e \o x) \o u = e \o (x \o u)
    <3> HIDE DEF S
    <3> QED BY <2>2, ConcatAssociative, SMTT(60)
  <2> QED BY <2>3
<1>6. Carries(y, V) /\ IsChanges(y)
  BY <1>3, <1>4, CarriesConcat DEF Carries
<1>7. applyPatch(d, y) = applyPatch(applyPatch(d, x), u) /\ IsPatch(y)
  BY <1>2, <1>3, <1>4, CarriesPatch, PatchConcat
<1>8. app.volumes # <<>> /\ FewPassing(app) => Whole(applyPatch(d, y), n)
  BY <1>3, <1>4, <1>7
<1> HIDE DEF y
<1>9. Patches(y)
  BY <1>6, <1>8 DEF Patches, V, d, n
<1>10. PICK z : removeDupliciteEnvs(e \o y) = e \o z /\ KeptOf(z, y, Len(y))
  BY <1>2, <1>6, KeptChanges
<1>11. Firsts(y, Len(y)) = ToSet(y)
  BY <1>6, IsSeqFacts DEF Firsts, ToSet, IsChanges
<1>12. Added(z, "volumes") = Added(y, "volumes")
  <2>1. \A o : IsVariable(o) => o.list # "volumes"
    BY DEF IsVariable
  <2> QED BY <1>10, <1>11, <2>1 DEF KeptOf, Added, AddedBy
<1>13. Carries(z, V)
  BY <1>6, <1>10, <1>11, <1>12 DEF KeptOf, Carries
<1>14. Alike(applyPatch(d, y), applyPatch(d, z))
  <2>1. PICK f : Runs(f, d, y) /\ applyPatch(d, y) = f[Len(y)]
    BY <1>2, <1>7, PatchRuns
  <2> QED BY <1>2, <1>10, <2>1 DEF KeptOf
<1>15. Patches(z)
  <2>1. "mounts" \in Lists \ {"env"}
    BY DEF Lists
  <2> QED BY <1>8, <1>13, <1>14, <2>1 DEF Patches, V, d, n, Alike, Whole
<1>16. IsReduced(z, y)
  BY <1>10, <1>11, <1>14, <1>15 DEF KeptOf, IsReduced, e, d
<1>17. IsChanges(x) /\ IsChanges(u)
  BY <1>3, <1>4 DEF Carries
<1> QED BY <1>5, <1>9, <1>16, <1>17 DEF u, e, y, CanReduce

LEMMA PatchesOn ==
  ASSUME app \in Apps, NEW patch, IsPatching(patch), NEW r, IsSeq(r.env), NEW look
  PROVE  LET longer == patch \o applyInjectionRule(app, r, look)
         IN  IsPatching(longer) /\ IsPatching(removeDupliciteEnvs(longer))
<1>1. PICK x : patch = EmptyLists(app) \o x /\ Patches(x)
  BY DEF IsPatching
<1> DEFINE u == applyInjectionRule(app, r, look)
<1>2. /\ Patches(x \o u) /\ patch \o u = EmptyLists(app) \o (x \o u)
      /\ CanReduce(x \o u)
  BY <1>1, PatchesLonger
<1> HIDE DEF u
<1> QED BY <1>2 DEF IsPatching, IsReduced, CanReduce, u

LEMMA LookupsAre ==
  ASSUME looked \in Collectors \cup {"changed", Unset}, NEW look \in Lookups \cup {NoLookups}
  PROVE  Looking(look) \in Collectors \cup {"changed", Unset}
<1>1. look[1] \in Collectors
  <2>1. CASE look \in Lookups
    <3>1. PICK c \in Collectors, d \in Collectors, n \in 0..4 :
            look = [i \in 1..4 |-> IF i <= n THEN c ELSE d]
      BY <2>1 DEF Lookups
    <3> QED BY <3>1
  <2>2. CASE look = NoLookups
    BY <2>2 DEF NoLookups, Collectors, OtherCollectors
  <2> QED BY <2>1, <2>2
<1> QED BY <1>1 DEF Looking

LEMMA InstrumentInv == PatchInv /\ Instrument => PatchInv'
<1> SUFFICES ASSUME PatchInv, Instrument PROVE PatchInv'
  OBVIOUS
<1> DEFINE r == members[next]
<1>1. PICK look \in Lookups \cup {NoLookups} :
        /\ looked' = IF r.collector = Unset THEN looked ELSE Looking(look)
        /\ IF Panics(r, look) THEN at' = "panicked" /\ UNCHANGED <<ops, next>>
           ELSE LET patch == ops \o applyInjectionRule(app, r, look)
                IN  /\ ops' = IF rule.set THEN removeDupliciteEnvs(patch) ELSE patch
                    /\ next' = next + 1
                    /\ at' = at
  BY DEF Instrument
<1>2. /\ at = "instrument" /\ next \in DOMAIN members /\ app' = app /\ rule' = rule
      /\ members' = members /\ pod' = pod
  BY DEF Instrument
<1>3. /\ app \in Apps /\ rule \in Rules
      /\ DOMAIN members = 1..Len(rule.members) /\ Len(rule.members) \in Nat
      /\ IsCompleted(r, rule.members[next])
  <2>1. app \in Apps /\ rule \in Rules
    BY DEF PatchInv, Typed
  <2>2. Len(rule.members) \in Nat
    BY <2>1, PatchAssumption, IsSeqFacts
  <2> QED BY <1>2, <2>1, <2>2 DEF PatchInv, MembersAre
<1>4. next' \in 1..Len(rule.members) + 1 /\ at' \in {"instrument", "panicked"}
  <2>1. next' = next \/ next' = next + 1
    BY <1>1
  <2>2. at' \in {"instrument", "panicked"}
    BY <1>1, <1>2
  <2> QED BY <1>2, <1>3, <2>1, <2>2
<1>5. Typed'
  <2>1. looked' \in Collectors \cup {"changed", Unset}
    BY <1>1, LookupsAre DEF PatchInv, Typed
  <2> QED BY <1>2, <1>3, <1>4, <2>1 DEF Typed
<1>6. MembersAre'
  BY <1>2, <1>4 DEF PatchInv, MembersAre, IsCompleted
<1>7. IsPatching(ops)
  BY <1>2 DEF PatchInv, OpsAre
<1>8. IsPatching(ops')
  <2>1. CASE Panics(r, look)
    BY <1>1, <1>7, <2>1
  <2>2. CASE ~Panics(r, look)
    <3> DEFINE u == applyInjectionRule(app, r, look)
    <3>1. ops' = IF rule.set THEN removeDupliciteEnvs(ops \o u) ELSE ops \o u
      BY <1>1, <2>2
    <3>2. IsSeq(r.env)
      BY <1>3 DEF IsCompleted
    <3> HIDE DEF r
    <3>3. IsPatching(ops \o u) /\ IsPatching(removeDupliciteEnvs(ops \o u))
      BY <1>3, <1>7, <3>2, PatchesOn
    <3> HIDE DEF u
    <3> QED BY <3>1, <3>3
  <2> QED BY <2>1, <2>2
<1>9. OpsAre'
  BY <1>2, <1>4, <1>8 DEF OpsAre, IsPatching, Patches
<1>10. Outcome'
  <2>1. Panics(r, look) => rule.source = "cr" /\ rule.set
    BY <1>3 DEF Panics, IsCompleted
  <2> HIDE DEF r
  <2>2. at' = "panicked" => rule.source = "cr" /\ rule.set
    BY <1>1, <1>2, <2>1
  <2> QED BY <1>2, <1>4, <2>2 DEF PatchInv, Outcome, OnlyIncompleteRulesPanic
<1> QED BY <1>5, <1>6, <1>9, <1>10 DEF PatchInv

(* Of the rules that may be chosen, only those of the config map may have    *)
(* no member.                                                                *)
LEMMA DereferenceInv == PatchInv /\ DereferenceNil => PatchInv'
<1> SUFFICES ASSUME PatchInv, DereferenceNil PROVE PatchInv'
  OBVIOUS
<1>1. /\ at = "instrument" /\ members = <<>> /\ at' = "panicked" /\ app' = app /\ rule' = rule
      /\ members' = members /\ next' = next /\ looked' = looked /\ ops' = ops /\ pod' = pod
  BY DEF DereferenceNil
<1>2. rule.source = "configmap" /\ rule.members = <<>>
  <2>1. rule \in Rules /\ Len(rule.members) = 0
    BY <1>1 DEF PatchInv, Typed, MembersAre
  <2>2. IsSeq(rule.members)
    BY <2>1, PatchAssumption
  <2>3. rule.members = <<>>
    BY <2>1, <2>2, IsSeqFacts, EmptySeq
  <2> QED BY <2>1, <2>3, PatchAssumption
<1>3. Typed'
  BY <1>1 DEF PatchInv, Typed
<1>4. MembersAre'
  BY <1>1 DEF PatchInv, MembersAre, IsCompleted
<1>5. OpsAre'
  BY <1>1 DEF PatchInv, OpsAre, IsPatching, Patches
<1>6. Outcome'
  BY <1>1, <1>2 DEF PatchInv, Outcome, OnlyIncompleteRulesPanic
<1> QED BY <1>3, <1>4, <1>5, <1>6 DEF PatchInv

LEMMA PatchStepInv == PatchInv /\ Patch => PatchInv'
<1> SUFFICES ASSUME PatchInv, Patch PROVE PatchInv'
  OBVIOUS
<1>1. /\ at = "instrument" /\ app' = app /\ rule' = rule /\ members' = members
      /\ next' = next /\ looked' = looked /\ ops' = ops
  BY DEF Patch
<1> DEFINE doc == applyPatch(Document(app), ops)
<1>2. \/ doc.ok /\ at' = "created" /\ pod' = doc.lists
      \/ ~doc.ok /\ at' = "failed" /\ pod' = pod
  BY DEF Patch
<1>3. Typed'
  BY <1>1, <1>2 DEF PatchInv, Typed
<1>4. MembersAre'
  BY <1>1, <1>2 DEF PatchInv, MembersAre, IsCompleted
<1>5. OpsAre'
  BY <1>1, <1>2 DEF PatchInv, OpsAre, IsPatching, Patches
<1>6. Outcome'
  <2>1. doc' = doc
    BY <1>1
  <2> QED BY <1>1, <1>2 DEF PatchInv, Outcome, OnlyIncompleteRulesPanic
<1> QED BY <1>3, <1>4, <1>5, <1>6 DEF PatchInv

LEMMA StutterInv == PatchInv /\ UNCHANGED vars => PatchInv'
BY DEF vars, PatchInv, Typed, MembersAre, IsCompleted, OpsAre, IsPatching, Patches, Outcome,
       OnlyIncompleteRulesPanic

LEMMA PatchInvariance == Spec => []PatchInv
<1>1. PatchInv /\ [Next]_vars => PatchInv'
  BY CompleteInv, InstrumentInv, DereferenceInv, PatchStepInv, StutterInv DEF Next
<1> QED BY InitInv, <1>1, PTL DEF Spec

-----------------------------------------------------------------------------
(* The theorems.                                                             *)

(* Only a rule set of a custom resource, whose members get no defaults, and  *)
(* a rule of the config map that has no injection rule at all can end the    *)
(* call of a pod in a panic: every other rule has its options by the time it *)
(* is used, whatever the layers gave.                                        *)
THEOREM PanicsAreOfIncompleteRules == Spec => []OnlyIncompleteRulesPanic
<1>1. PatchInv => OnlyIncompleteRulesPanic
  BY DEF PatchInv, Outcome
<1> QED BY <1>1, PatchInvariance, PTL

(* The patch of a pod with volumes, in which at most two mounts pass         *)
(* configuration of one web server, always applies: what is appended to is   *)
(* there, and the indices that are removed are those of mounts.              *)
THEOREM PatchesApply == Spec => []PatchApplies
<1>1. ASSUME PatchInv PROVE PatchApplies
  <2> SUFFICES ASSUME at = "failed", app.volumes # <<>>,
                      \A server \in {Apache, Nginx} : ~(Cardinality(Passing(app, server)) > 2)
               PROVE  FALSE
    BY DEF PatchApplies
  <2>1. app \in Apps /\ IsPatching(ops) /\ ~applyPatch(Document(app), ops).ok
    BY <1>1 DEF PatchInv, Typed, OpsAre, Outcome
  <2>2. IsPod(app) /\ app.containers # <<>> /\ IsSeq(app.mounts) /\ Len(app.mounts) \in Nat
    BY <2>1, AppIs
  <2>3. FewPassing(app)
    <3> SUFFICES ASSUME NEW server \in {Apache, Nginx}
                 PROVE  Cardinality(Passing(app, server)) <= 2
      BY DEF FewPassing
    <3>1. DOMAIN app.mounts = 1..Len(app.mounts)
      BY <2>2, IsSeqFacts
    <3>2. IsFiniteSet(1..Len(app.mounts)) /\ Passing(app, server) \in SUBSET (1..Len(app.mounts))
      BY <2>2, <3>1, FS_Interval DEF Passing
    <3>3. Cardinality(Passing(app, server)) \in Nat
      BY <3>2, FS_Subset, FS_CardinalityType
    <3> QED BY <3>3
  <2>4. PICK x : ops = EmptyLists(app) \o x /\ Patches(x)
    BY <2>1 DEF IsPatching
  <2>5. applyPatch(Prepared(app), x).ok
    BY <2>3, <2>4 DEF Patches, Whole
  <2>6. applyPatch(Document(app), ops) = applyPatch(Prepared(app), x)
    BY <2>2, <2>4, PreparedIs, PatchConcat, CarriesPatch DEF Patches, Prepared
  <2> QED BY <2>1, <2>5, <2>6
<1> QED BY <1>1, PatchInvariance, PTL

(* What a pod that was created comes from: the pod as it was posted, by the  *)
(* changes of the patch.                                                     *)
LEMMA CreatedFrom ==
  ASSUME PatchInv, at = "created", NEW x, ops = EmptyLists(app) \o x, Patches(x)
  PROVE  LET d == Prepared(app)
         IN  /\ app \in Apps /\ IsDoc(d) /\ d.lists = app /\ IsChanges(x)
             /\ applyPatch(d, x).ok /\ pod = applyPatch(d, x).lists
             /\ Grows(d, applyPatch(d, x), ToSet(x))
<1> DEFINE d == Prepared(app)
<1>1. /\ app \in Apps
      /\ applyPatch(Document(app), ops).ok /\ pod = applyPatch(Document(app), ops).lists
  BY DEF PatchInv, Typed, Outcome
<1>2. IsPod(app) /\ app.containers # <<>>
  BY <1>1, AppIs
<1>3. Carries(x, ToSet(app.volumes)) /\ IsChanges(x)
  BY DEF Patches, Carries
<1>4. applyPatch(Document(app), ops) = applyPatch(d, x) /\ IsDoc(d)
  BY <1>2, <1>3, PreparedIs, PatchConcat, CarriesPatch DEF Prepared
<1>5. Grows(d, applyPatch(d, x), ToSet(x))
  <2> HIDE DEF d
  <2> QED BY <1>1, <1>3, <1>4, ChangesGrow
<1>6. d.lists = app
  <2>1. d.ok
    BY <1>5 DEF Grows
  <2> QED BY <1>2, <2>1, PreparedIs
<1> QED BY <1>1, <1>3, <1>4, <1>5, <1>6

LEMMA CreatedWith ==
  ASSUME PatchInv, at = "created", NEW x, ops = EmptyLists(app) \o x, Patches(x)
  PROVE  /\ app \in Apps
         /\ \A list \in Lists :
              /\ IsSeq(app[list]) /\ IsSeq(pod[list])
              /\ ToSet(pod[list]) \subseteq ToSet(app[list]) \cup Added(x, list)
              /\ list # "mounts" =>
                   /\ ToSet(app[list]) \cup Added(x, list) \subseteq ToSet(pod[list])
                   /\ Keeps(app[list], pod[list])
<1> DEFINE d == Prepared(app)
           e == applyPatch(d, x)
<1>1. /\ app \in Apps /\ IsDoc(d) /\ d.lists = app /\ pod = e.lists
      /\ Grows(d, e, ToSet(x))
  BY CreatedFrom
<1>2. IsDoc(e)
  BY <1>1 DEF Grows
<1> HIDE DEF d, e
<1>3. \A list \in Lists : IsSeq(d.lists[list]) /\ IsSeq(e.lists[list])
  BY <1>1, <1>2, DocFacts
<1>4. \A list \in Lists :
        /\ ToSet(pod[list]) \subseteq ToSet(app[list]) \cup Added(x, list)
        /\ list # "mounts" =>
             /\ ToSet(app[list]) \cup Added(x, list) \subseteq ToSet(pod[list])
             /\ Keeps(app[list], pod[list])
  BY <1>1 DEF Grows, Added
<1> QED BY <1>1, <1>3, <1>4

LEMMA CreatedBy ==
  ASSUME PatchInv, at = "created"
  PROVE  \E x : ops = EmptyLists(app) \o x /\ Patches(x)
BY DEF PatchInv, OpsAre, IsPatching

(* A container of the created pod mounts nothing but volumes of the pod, but *)
(* for what the spec of a sidecar's collector mounts and does not bring,     *)
(* whatever technologies a rule instruments it with, in whatever order.      *)
THEOREM VolumesAreMounted == Spec => []MountsHaveVolumes
<1>1. ASSUME PatchInv PROVE MountsHaveVolumes
  <2> SUFFICES ASSUME at = "created"
               PROVE  /\ Mounted([pod EXCEPT !.containers = <<>>]) \subseteq ToSet(pod.volumes)
                      /\ \A c \in ToSet(pod.containers) :
                           ToSet(c.volumes) \ NotBrought(c) \subseteq ToSet(pod.volumes)
    BY DEF MountsHaveVolumes
  <2>0. PICK x : ops = EmptyLists(app) \o x /\ Patches(x)
    BY <1>1, CreatedBy
  <2>1. Mounted(app) \subseteq ToSet(app.volumes)
    BY <1>1, AppIs DEF PatchInv, Typed
  <2>2. /\ Carries(x, ToSet(app.volumes))
        /\ \A list \in Lists :
             /\ ToSet(pod[list]) \subseteq ToSet(app[list]) \cup Added(x, list)
             /\ list # "mounts" =>
                  ToSet(app[list]) \cup Added(x, list) \subseteq ToSet(pod[list])
    BY <1>1, <2>0, CreatedWith DEF Patches
  <2> DEFINE W == ToSet(pod.volumes)
  <2>3. ToSet(app.volumes) \cup Added(x, "volumes") \subseteq W
    BY <2>2 DEF Lists
  <2>4. ASSUME NEW list \in Lists, NEW item \in Added(x, list)
        PROVE  MountedBy(list, item) \subseteq W
    <3>1. PICK o \in ToSet(x) : o.op = "append" /\ o.list = list /\ o.value = item
      BY DEF Added, AddedBy
    <3>2. IsAddition(o)
      BY <2>4, <3>1 DEF IsAddition
    <3>3. MountedBy(o.list, o.value) \subseteq ToSet(app.volumes) \cup Added(x, "volumes")
      BY <2>2, <3>2 DEF Carries
    <3> QED BY <2>3, <3>1, <3>3
  <2>5. ASSUME NEW m \in ToSet(pod.mounts)
        PROVE  m.volume \in W
    <3>1. m \in ToSet(app.mounts) \/ m \in Added(x, "mounts")
      BY <2>2 DEF Lists
    <3>2. m \in ToSet(app.mounts) => m.volume \in W
      BY <2>1, <2>3 DEF Mounted
    <3>3. m \in Added(x, "mounts") => m.volume \in W
      <4>1. m \in Added(x, "mounts") => MountedBy("mounts", m) \subseteq W
        BY <2>4 DEF Lists
      <4> QED BY <4>1 DEF MountedBy
    <3> QED BY <3>1, <3>2, <3>3
  <2>6. ASSUME NEW list \in {"inits", "containers"}, NEW c \in ToSet(pod[list])
        PROVE  ToSet(c.volumes) \subseteq W \/ MountedBy(list, c) \subseteq W
    <3>1. list \in Lists
      BY <2>6 DEF Lists
    <3>2. c \in ToSet(app[list]) \/ c \in Added(x, list)
      BY <2>2, <3>1
    <3>3. c \in ToSet(app[list]) => ToSet(c.volumes) \subseteq W
      BY <2>1, <2>3 DEF Mounted
    <3> QED BY <2>4, <3>1, <3>2, <3>3
  <2> HIDE DEF W
  <2>7. \A c \in ToSet(pod.inits) : ToSet(c.volumes) \subseteq W
    BY <2>6 DEF MountedBy
  <2>8. \A c \in ToSet(pod.containers) : ToSet(c.volumes) \ NotBrought(c) \subseteq W
    BY <2>6 DEF MountedBy
  <2>9. Mounted([pod EXCEPT !.containers = <<>>]) \subseteq W
    <3> DEFINE p == [pod EXCEPT !.containers = <<>>]
    <3>1. p.mounts = pod.mounts /\ p.inits = pod.inits /\ ToSet(p.containers) = {}
      <4>1. /\ app \in Apps /\ IsDoc(Prepared(app)) /\ pod = applyPatch(Prepared(app), x).lists
            /\ IsDoc(applyPatch(Prepared(app), x))
        BY <1>1, <2>0, CreatedFrom DEF Grows
      <4>2. DOMAIN pod = Lists
        BY <4>1 DEF IsDoc, DocsOf
      <4> QED BY <4>2, Tuples DEF Lists
    <3> HIDE DEF p
    <3>2. Mounted(p) = {m.volume : m \in ToSet(pod.mounts)}
                         \cup UNION {ToSet(c.volumes) : c \in ToSet(pod.inits)}
      BY <3>1 DEF Mounted
    <3> QED BY <2>5, <2>7, <3>2 DEF p
  <2> QED BY <2>8, <2>9 DEF W
<1> QED BY <1>1, PatchInvariance, PTL

(* The application's variables, volumes, init containers and containers are  *)
(* left alone and stay in front, whatever instruments the pod.               *)
THEOREM ApplicationStays == Spec => []ApplicationIsKept
<1>1. ASSUME PatchInv PROVE ApplicationIsKept
  <2> SUFFICES ASSUME at = "created", NEW list \in Lists \ {"mounts"}
               PROVE  IsPrefix(app[list], pod[list])
    BY DEF ApplicationIsKept
  <2> DEFINE s == app[list]
             t == pod[list]
  <2>0. PICK x : ops = EmptyLists(app) \o x /\ Patches(x)
    BY <1>1, CreatedBy
  <2>1. IsSeq(s) /\ IsSeq(t) /\ Keeps(s, t)
    BY <1>1, <2>0, CreatedWith
  <2> QED BY <2>1, KeepsIsPrefix
<1> QED BY <1>1, PatchInvariance, PTL

(* Types of the call's state: what a rule is completed to and what the patch *)
(* is made of, among them.                                                   *)
THEOREM PatchTypes == Spec => []PatchTypeOK
<1>1. ASSUME PatchInv PROVE PatchTypeOK
  <2>1. /\ at \in {"start", "instrument", "created", "failed", "panicked"}
        /\ next \in 1..Len(rule.members) + 1
        /\ looked \in Collectors \cup {"changed", Unset}
        /\ at # "created" => pod = app
    BY <1>1 DEF PatchInv, Typed, Outcome
  <2>2. at # "start" => /\ Len(members) = Len(rule.members)
                        /\ \A i \in DOMAIN members :
                             /\ members[i].attrs \in BOOLEAN \cup {Unset}
                             /\ members[i].template = rule.members[i].template
    BY <1>1 DEF PatchInv, MembersAre, IsCompleted
  <2>3. ASSUME NEW i \in DOMAIN ops
        PROVE  ops[i].list \in Lists /\ (ops[i].op = "remove" => ops[i].value \in Nat \ {0})
    <3>1. CASE at = "start"
      BY <1>1, <2>3, <3>1 DEF PatchInv, OpsAre
    <3>2. CASE at # "start"
      <4>1. app \in Apps /\ IsPatching(ops)
        BY <1>1, <3>2 DEF PatchInv, Typed, OpsAre
      <4>2. PICK x : ops = EmptyLists(app) \o x /\ Patches(x)
        BY <4>1 DEF IsPatching
      <4>3. IsPatch(EmptyLists(app)) /\ IsPatch(x)
        BY <4>1, <4>2, AppIs, PreparedIs, CarriesPatch DEF Patches
      <4>4. IsSeq(ops) /\ ToSet(ops) = ToSet(EmptyLists(app)) \cup ToSet(x)
        BY <4>2, <4>3, IsSeqConcat DEF IsPatch
      <4>5. IsOperation(ops[i])
        BY <4>3, <4>4, IsSeqFacts DEF IsPatch
      <4> QED BY <4>5 DEF IsOperation, IsAddition, IsRemoval, IsCreation, Lists
    <3> QED BY <3>1, <3>2
  <2> QED BY <2>1, <2>2, <2>3 DEF PatchTypeOK
<1> QED BY <1>1, PatchInvariance, PTL
=============================================================================
