--------------------------- MODULE RuleTableProofs ---------------------------
(* Facts about the operators of RuleTable, for every list of rules. *)
EXTENDS RuleTable, SequenceTheorems, TLAPS

(* What sorting returns: a list of the same length, in ascending order, that *)
(* holds the same rules; names that were distinct stay distinct.             *)
LEMMA SortFuncFacts ==
  ASSUME NEW R, NEW rules \in Seq(R), NEW sorted \in SortFunc(rules)
  PROVE  /\ sorted \in Seq(R)
         /\ Len(sorted) = Len(rules)
         /\ Ascending(sorted)
         /\ \A i \in DOMAIN sorted : \E j \in DOMAIN rules : sorted[i] = rules[j]
         /\ \A j \in DOMAIN rules : \E i \in DOMAIN sorted : sorted[i] = rules[j]
         /\ NamesDistinct(rules) => NamesDistinct(sorted)
<1>1. PICK p \in Bijection(1..Len(rules), 1..Len(rules)) :
         sorted = [i \in 1..Len(rules) |-> rules[p[i]]]
  BY DEF SortFunc
<1>2. /\ Len(rules) \in Nat
      /\ DOMAIN rules = 1..Len(rules)
      /\ p \in [1..Len(rules) -> 1..Len(rules)]
      /\ \A i, j \in 1..Len(rules) : p[i] = p[j] => i = j
      /\ \A j \in 1..Len(rules) : \E i \in 1..Len(rules) : p[i] = j
  BY DEF Bijection, Injection, IsInjective, Surjection
<1>3. \A i \in 1..Len(rules) : rules[p[i]] \in R
  BY <1>2, SMTT(60)
<1>4. /\ sorted \in Seq(R)
      /\ Len(sorted) = Len(rules)
      /\ DOMAIN sorted = 1..Len(rules)
  BY <1>1, <1>2, <1>3
<1>5. /\ \A i \in DOMAIN sorted : \E j \in DOMAIN rules : sorted[i] = rules[j]
      /\ \A j \in DOMAIN rules : \E i \in DOMAIN sorted : sorted[i] = rules[j]
  BY <1>1, <1>2, <1>4
<1>6. ASSUME NamesDistinct(rules)
      PROVE  NamesDistinct(sorted)
  <2> SUFFICES ASSUME NEW i \in 1..Len(rules), NEW j \in 1..Len(rules),
                      sorted[i].name = sorted[j].name
               PROVE  i = j
    BY <1>4 DEF NamesDistinct
  <2>1. rules[p[i]].name = rules[p[j]].name
    BY <1>1
  <2>2. p[i] \in DOMAIN rules /\ p[j] \in DOMAIN rules
    BY <1>2
  <2>3. p[i] = p[j]
    BY <1>6, <2>1, <2>2 DEF NamesDistinct
  <2> QED BY <1>2, <2>3
<1> QED BY <1>4, <1>5, <1>6 DEF SortFunc

(* A name occurs in a list of distinct names exactly if FirstNamed finds it, *)
(* and then at one position only.                                            *)
LEMMA FirstNamedFacts ==
  ASSUME NEW R, NEW rules \in Seq(R), NamesDistinct(rules), NEW name
  PROVE  /\ FirstNamed(rules, name) = {} <=> ~IsNamed(rules, name)
         /\ \A i \in FirstNamed(rules, name) :
              i \in DOMAIN rules /\ rules[i].name = name
<1>1. DOMAIN rules = 1..Len(rules) /\ Len(rules) \in Nat
  OBVIOUS
<1>2. ASSUME NEW i \in DOMAIN rules, rules[i].name = name
      PROVE  i \in FirstNamed(rules, name)
  <2>1. \A j \in 1..(i - 1) : j \in DOMAIN rules /\ j # i
    BY <1>1
  <2> QED BY <1>2, <2>1 DEF FirstNamed, NamesDistinct
<1> QED BY <1>2 DEF FirstNamed, IsNamed

(* Upserting a rule leaves exactly one rule of its name in the list, the new *)
(* one, keeps every rule of another name, and restores the order.            *)
LEMMA UpsertSpecFacts ==
  ASSUME NEW R, NEW rules \in Seq(R), NEW rule \in R, NamesDistinct(rules),
         NEW result \in UpsertSpec(rules, rule)
  PROVE  /\ result \in Seq(R)
         /\ Ascending(result)
         /\ NamesDistinct(result)
         /\ \A i \in DOMAIN result :
              \/ result[i] = rule
              \/ \E j \in DOMAIN rules : result[i] = rules[j]
         /\ \E i \in DOMAIN result : result[i] = rule
         /\ \A j \in DOMAIN rules : rules[j].name # rule.name =>
              \E i \in DOMAIN result : result[i] = rules[j]
<1> DEFINE found == FirstNamed(rules, rule.name)
<1>1. DOMAIN rules = 1..Len(rules) /\ Len(rules) \in Nat
  OBVIOUS
<1>2. CASE found = {}
  <2> DEFINE longer == Append(rules, rule)
  <2>1. /\ longer \in Seq(R)
        /\ DOMAIN longer = 1..(Len(rules) + 1)
        /\ \A i \in DOMAIN rules : longer[i] = rules[i]
        /\ longer[Len(rules) + 1] = rule
    OBVIOUS
  <2>2. \A i \in DOMAIN longer : i \in DOMAIN rules \/ i = Len(rules) + 1
    BY <2>1, <1>1
  <2>3. \A i \in DOMAIN rules : rules[i].name # rule.name
    BY <1>2, FirstNamedFacts DEF IsNamed
  <2>4. NamesDistinct(longer)
    BY <2>1, <2>2, <2>3 DEF NamesDistinct
  <2>5. result \in SortFunc(longer)
    BY <1>2 DEF UpsertSpec
  <2>6. \A i \in DOMAIN longer :
           longer[i] = rule \/ \E j \in DOMAIN rules : longer[i] = rules[j]
    BY <2>1, <2>2
  <2>7. longer \in Seq(R)
    BY <2>1
  <2> HIDE DEF longer
  <2>8. /\ result \in Seq(R)
        /\ Ascending(result)
        /\ \A i \in DOMAIN result : \E j \in DOMAIN longer : result[i] = longer[j]
        /\ \A j \in DOMAIN longer : \E i \in DOMAIN result : result[i] = longer[j]
        /\ NamesDistinct(result)
    BY <2>4, <2>5, <2>7, SortFuncFacts
  <2>9. /\ \E j \in DOMAIN longer : longer[j] = rule
        /\ \A j \in DOMAIN rules : \E i \in DOMAIN longer : longer[i] = rules[j]
    BY <1>1, <2>1 DEF longer
  <2> QED BY <2>6, <2>8, <2>9
<1>3. CASE found # {}
  <2> DEFINE at == CHOOSE i \in found : TRUE
             changed == [rules EXCEPT ![at] = rule]
  <2>1. at \in DOMAIN rules /\ rules[at].name = rule.name
    BY <1>3, FirstNamedFacts
  <2>2. /\ changed \in Seq(R)
        /\ DOMAIN changed = DOMAIN rules
        /\ changed[at] = rule
        /\ \A i \in DOMAIN rules : i # at => changed[i] = rules[i]
    BY <2>1
  <2>3. NamesDistinct(changed)
    BY <2>1, <2>2 DEF NamesDistinct
  <2>4. result \in SortFunc(changed)
    BY <1>3 DEF UpsertSpec
  <2>5. \A i \in DOMAIN changed :
           changed[i] = rule \/ \E j \in DOMAIN rules : changed[i] = rules[j]
    BY <2>1, <2>2
  <2>6. changed \in Seq(R)
    BY <2>2
  <2> HIDE DEF at, changed
  <2>7. /\ result \in Seq(R)
        /\ Ascending(result)
        /\ \A i \in DOMAIN result : \E j \in DOMAIN changed : result[i] = changed[j]
        /\ \A j \in DOMAIN changed : \E i \in DOMAIN result : result[i] = changed[j]
        /\ NamesDistinct(result)
    BY <2>3, <2>4, <2>6, SortFuncFacts
  <2>8. /\ \E j \in DOMAIN changed : changed[j] = rule
        /\ \A j \in DOMAIN rules : rules[j].name # rule.name =>
             \E i \in DOMAIN changed : changed[i] = rules[j]
    BY <2>1, <2>2
  <2> QED BY <2>5, <2>7, <2>8
<1> QED BY <1>2, <1>3

(* Deleting a name leaves no rule of that name and all the others, in order. *)
LEMMA DeleteSpecFacts ==
  ASSUME NEW R, NEW rules \in Seq(R), NEW name, NamesDistinct(rules),
         Ascending(rules)
  PROVE  LET result == DeleteSpec(rules, name)
         IN  /\ result \in Seq(R)
             /\ Ascending(result)
             /\ NamesDistinct(result)
             /\ ~IsNamed(result, name)
             /\ \A i \in DOMAIN result : \E j \in DOMAIN rules : result[i] = rules[j]
             /\ \A j \in DOMAIN rules : rules[j].name # name =>
                  \E i \in DOMAIN result : result[i] = rules[j]
<1> DEFINE found  == FirstNamed(rules, name)
           result == DeleteSpec(rules, name)
<1>1. DOMAIN rules = 1..Len(rules) /\ Len(rules) \in Nat
  OBVIOUS
<1>2. CASE found = {}
  <2>1. result = rules
    BY <1>2 DEF DeleteSpec
  <2>2. ~IsNamed(rules, name)
    BY <1>2, FirstNamedFacts
  <2> QED BY <2>1, <2>2
<1>3. CASE found # {}
  <2> DEFINE at   == CHOOSE i \in found : TRUE
             from == [i \in 1..(Len(rules) - 1) |-> IF i < at THEN i ELSE i + 1]
  <2>1. at \in 1..Len(rules) /\ rules[at].name = name
    BY <1>1, <1>3, FirstNamedFacts
  <2>2. result = RemoveAt(rules, at)
    BY <1>3 DEF DeleteSpec
  <2> HIDE DEF at
  <2>3. /\ result \in Seq(R)
        /\ DOMAIN result = 1..(Len(rules) - 1)
        /\ \A i \in 1..(Len(rules) - 1) : result[i] = rules[from[i]]
    <3> DEFINE front == SubSeq(rules, 1, at - 1)
               back  == SubSeq(rules, at + 1, Len(rules))
    <3>1. result = front \o back
      BY <2>2 DEF RemoveAt
    <3>2. /\ front \in Seq(R) /\ Len(front) = at - 1
          /\ \A i \in 1..(at - 1) : front[i] = rules[i]
      <4>1. 1 \in Int /\ at - 1 \in Int /\ \A i \in 1..(at - 1) : rules[i] \in R
        BY <1>1, <2>1
      <4> QED BY <2>1, <4>1, SubSeqProperties
    <3>3. /\ back \in Seq(R) /\ Len(back) = Len(rules) - at
          /\ \A i \in 1..(Len(rules) - at) : back[i] = rules[at + i]
      <4>1. /\ at + 1 \in Int /\ Len(rules) \in Int
            /\ \A i \in (at + 1)..Len(rules) : rules[i] \in R
        BY <1>1, <2>1
      <4>2. /\ back \in Seq(R)
            /\ Len(back) = IF at + 1 <= Len(rules) THEN Len(rules) - (at + 1) + 1 ELSE 0
            /\ \A i \in 1..(Len(rules) - (at + 1) + 1) : back[i] = rules[(at + 1) + i - 1]
        BY <4>1, SubSeqProperties
      <4>3. \A i \in 1..(Len(rules) - at) :
              i \in 1..(Len(rules) - (at + 1) + 1) /\ (at + 1) + i - 1 = at + i
        BY <1>1, <2>1
      <4> HIDE DEF back
      <4>4. Len(back) = Len(rules) - at
        <5>1. at \in Int /\ Len(rules) \in Int /\ at <= Len(rules)
          BY <1>1, <2>1
        <5>2. CASE at + 1 <= Len(rules)
          BY <4>2, <5>1, <5>2
        <5>3. CASE Len(rules) < at + 1
          BY <4>2, <5>1, <5>3
        <5> QED BY <5>1, <5>2, <5>3
      <4>5. ASSUME NEW i \in 1..(Len(rules) - at)
            PROVE  back[i] = rules[at + i]
        BY <4>2, <4>3
      <4> QED BY <4>2, <4>4, <4>5
    <3> HIDE DEF front, back, from, result
    <3>4. /\ front \o back \in Seq(R)
          /\ Len(front \o back) = Len(rules) - 1
          /\ \A i \in 1..(Len(rules) - 1) :
               (front \o back)[i] = IF i < at THEN front[i] ELSE back[i - at + 1]
      <4>1. /\ front \o back \in Seq(R)
            /\ Len(front \o back) = Len(front) + Len(back)
            /\ \A i \in 1..(Len(front) + Len(back)) : (front \o back)[i] =
                 IF i <= Len(front) THEN front[i] ELSE back[i - Len(front)]
        BY <3>2, <3>3, ConcatProperties
      <4>2. \A i \in 1..(Len(rules) - 1) :
              (i <= at - 1 <=> i < at) /\ i - (at - 1) = i - at + 1
        BY <1>1, <2>1
      <4>3. Len(front) + Len(back) = Len(rules) - 1
        BY <1>1, <2>1, <3>2, <3>3
      <4> QED BY <3>2, <4>1, <4>2, <4>3
    <3>5. ASSUME NEW i \in 1..(Len(rules) - 1)
          PROVE  (front \o back)[i] = rules[from[i]]
      <4>1. from[i] = IF i < at THEN i ELSE i + 1
        BY DEF from
      <4>2. CASE i < at
        BY <1>1, <2>1, <3>2, <3>4, <4>1, <4>2
      <4>3. CASE ~(i < at)
        <5>1. i - at + 1 \in 1..(Len(rules) - at) /\ at + (i - at + 1) = i + 1
          BY <1>1, <2>1, <4>3
        <5> QED BY <3>3, <3>4, <4>1, <4>3, <5>1
      <4> QED BY <4>2, <4>3
    <3>6. Len(rules) - 1 \in Nat
      BY <1>1, <2>1
    <3>7. result \in Seq(R) /\ Len(result) = Len(rules) - 1
      BY <3>1, <3>4
    <3>8. DOMAIN result = 1..(Len(rules) - 1)
      BY <3>6, <3>7
    <3> QED BY <3>1, <3>5, <3>7, <3>8
  <2>4. /\ \A i \in 1..(Len(rules) - 1) : from[i] \in DOMAIN rules /\ from[i] # at
        /\ \A i, j \in 1..(Len(rules) - 1) : i < j => from[i] < from[j]
        /\ \A i, j \in 1..(Len(rules) - 1) : from[i] = from[j] => i = j
    BY <1>1, <2>1
  <2> HIDE DEF from, result
  <2>5. Ascending(result)
    <3> SUFFICES ASSUME NEW i \in 1..(Len(rules) - 1),
                        NEW j \in 1..(Len(rules) - 1), i < j
                 PROVE  result[i].spec.priority <= result[j].spec.priority
      BY <2>3 DEF Ascending
    <3>1. rules[from[i]].spec.priority <= rules[from[j]].spec.priority
      BY <2>4 DEF Ascending
    <3> QED BY <2>3, <3>1
  <2>6. NamesDistinct(result)
    BY <2>3, <2>4, SMTT(60) DEF NamesDistinct
  <2>7. ~IsNamed(result, name)
    BY <2>1, <2>3, <2>4, <1>1, SMTT(60) DEF IsNamed, NamesDistinct
  <2>8. ASSUME NEW j \in DOMAIN rules, rules[j].name # name
        PROVE  \E i \in DOMAIN result : result[i] = rules[j]
    <3> DEFINE i == IF j < at THEN j ELSE j - 1
    <3>1. j # at
      BY <2>1, <2>8
    <3>2. i \in 1..(Len(rules) - 1)
      BY <1>1, <2>1, <3>1
    <3>3. from[i] = j
      BY <1>1, <2>1, <3>1, <3>2 DEF from
    <3> HIDE DEF i
    <3> QED BY <2>3, <3>2, <3>3
  <2> QED BY <2>3, <2>4, <2>5, <2>6, <2>7, <2>8 DEF result
<1> QED BY <1>2, <1>3
=============================================================================
