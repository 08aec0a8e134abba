---------------------------- MODULE SequenceLemmas ----------------------------
(***************************************************************************)
(* Lemmas about the operators that the models take from the community      *)
(* modules or define by recursion over a sequence.  The induction theorems *)
(* of the library have an operator for a parameter, which a proof here     *)
(* cannot supply; these have a set or a function in its place and rest on  *)
(* the order of the natural numbers being well founded.                    *)
(***************************************************************************)
EXTENDS SequencesExt, WellFoundedInduction, TLAPS

-----------------------------------------------------------------------------
(* Induction.                                                              *)

\* Numbers have a least one among them, where there are any.
LEMMA LeastElement ==
  ASSUME NEW T, T \subseteq Nat, T # {}
  PROVE  \E least \in T : \A other \in T : least <= other
<1> DEFINE Less == OpToRel(<, Nat)
<1>1. IsWellFoundedOn(Less, Nat)
  BY NatLessThanWellFounded
<1>2. \A x, y \in Nat : x < y => <<x, y>> \in Less
  BY DEF OpToRel
<1> HIDE DEF Less
<1>3. PICK least \in T : \A other \in T : <<other, least>> \notin Less
  BY <1>1, WFMin
<1>4. ASSUME NEW other \in T PROVE least <= other
  <2>1. least \in Nat /\ other \in Nat /\ ~(other < least)
    BY <1>2, <1>3
  <2> QED
    BY <2>1
<1> QED
  BY <1>4

\* What holds of the first number of an interval, and of the next one where it
\* holds of one, holds of all of it.
LEMMA IntervalInduction ==
  ASSUME NEW S, NEW m \in Nat, NEW n \in Nat, m \in S,
         \A i \in m..(n - 1) : i \in S => i + 1 \in S
  PROVE  m..n \subseteq S
<1> DEFINE T == {i \in m..n : i \notin S}
<1> SUFFICES ASSUME T # {} PROVE FALSE
  OBVIOUS
<1>1. \A i : i \in T <=> i \in m..n /\ i \notin S
  OBVIOUS
<1> HIDE DEF T
<1>2. T \subseteq Nat
  BY <1>1
<1>3. PICK least \in T : \A other \in T : least <= other
  BY <1>2, LeastElement
<1>4. least \in m..n /\ least # m /\ least \notin S
  BY <1>1
<1>5. least - 1 \in m..(n - 1) /\ least - 1 \notin T
  BY <1>3, <1>4
<1>6. least - 1 \in S
  BY <1>1, <1>5
<1> QED
  BY <1>4, <1>5, <1>6

\* f begins with first at m, and goes on to n by the step.
Recurs(f, m, n, first, step) ==
  \A i \in m..n : f[i] = IF i = m THEN first ELSE step[<<f[i - 1], i>>]

\* A step that is a function defines a function by recursion over an interval.
LEMMA RecursionOnInterval ==
  ASSUME NEW V, NEW m \in Nat, NEW n \in Nat, m <= n, NEW first \in V,
         NEW step, \A v \in V, i \in (m + 1)..n : step[<<v, i>>] \in V
  PROVE  \E f \in [m..n -> V] : Recurs(f, m, n, first, step)
<1> DEFINE Defined(f, last) == Recurs(f, m, last, first, step)
           S == {last \in m..n : \E f \in [m..last -> V] : Defined(f, last)}
<1>1. \A last : last \in S <=> last \in m..n /\ \E f \in [m..last -> V] : Defined(f, last)
  OBVIOUS
<1> HIDE DEF S
<1>2. m \in S
  <2> DEFINE g == [i \in m..m |-> first]
  <2>1. g \in [m..m -> V] /\ \A i \in m..m : i = m /\ g[i] = first
    OBVIOUS
  <2> HIDE DEF g
  <2>2. Defined(g, m) /\ m \in m..n
    BY <2>1 DEF Recurs
  <2> QED
    BY <1>1, <2>1, <2>2
<1>3. ASSUME NEW last \in m..(n - 1), last \in S
      PROVE  last + 1 \in S
  <2>1. PICK f \in [m..last -> V] : Defined(f, last)
    BY <1>1, <1>3
  <2> DEFINE next == step[<<f[last], last + 1>>]
             g == [i \in m..(last + 1) |-> IF i = last + 1 THEN next ELSE f[i]]
  <2>2. /\ last \in Nat /\ last + 1 \in m..n /\ last + 1 \in (m + 1)..n /\ last \in m..last /\ last + 1 # m
        /\ last + 1 \in m..(last + 1)
        /\ \A i \in m..(last + 1) : i \in m..last \/ i = last + 1
        /\ \A i \in m..last : /\ i # last + 1 /\ i \in m..(last + 1)
                              /\ i # m => i - 1 \in m..last /\ i - 1 # last + 1 /\ i - 1 \in m..(last + 1)
    OBVIOUS
  <2>3. next \in V
    BY <2>2
  <2>4. (last + 1) - 1 = last
    BY <2>2
  <2>5. next = step[<<f[(last + 1) - 1], last + 1>>]
    BY <2>4
  <2> HIDE DEF next
  <2>6. g[last + 1] = next /\ \A i \in m..last : g[i] = f[i]
    BY <2>2
  <2>7. g \in [m..(last + 1) -> V]
    BY <2>2, <2>3
  <2> HIDE DEF g
  <2>8. ASSUME NEW i \in m..(last + 1)
        PROVE  g[i] = IF i = m THEN first ELSE step[<<g[i - 1], i>>]
    <3>1. CASE i \in m..last
      <4>1. g[i] = f[i] /\ (i # m => g[i - 1] = f[i - 1])
        BY <2>2, <2>6, <3>1
      <4>2. f[i] = IF i = m THEN first ELSE step[<<f[i - 1], i>>]
        BY <2>1, <3>1 DEF Recurs
      <4> QED
        BY <4>1, <4>2
    <3>2. CASE i = last + 1
      BY <2>2, <2>4, <2>5, <2>6, <3>2
    <3> QED
      BY <2>2, <3>1, <3>2
  <2>9. Defined(g, last + 1)
    BY <2>8 DEF Recurs
  <2> HIDE DEF Defined
  <2> QED
    BY <1>1, <2>2, <2>7, <2>9
<1>4. m..n \subseteq S
  <2> HIDE DEF Defined
  <2> QED
    BY <1>2, <1>3, IntervalInduction
<1>5. n \in S
  BY <1>4
<1> QED
  BY <1>1, <1>5

-----------------------------------------------------------------------------
(* The least and the greatest number of a set, with which SelectInSeq and  *)
(* SelectLastInSeq find the first and the last match.                      *)

\* A set of numbers that is not empty holds its minimum.
LEMMA MinIs ==
  ASSUME NEW S, S \subseteq Nat, S # {}
  PROVE  Min(S) \in S /\ \A i \in S : Min(S) <= i
BY LeastElement DEF Min

\* So it does its maximum, if the numbers are bounded.
LEMMA MaxIs ==
  ASSUME NEW n \in Nat, NEW S, S \subseteq 1..n, S # {}
  PROVE  Max(S) \in S /\ \A i \in S : i <= Max(S)
<1> DEFINE T == {n - i : i \in S}
<1>1. T \subseteq Nat /\ T # {}
  <2>1. \A i \in S : n - i \in Nat
    OBVIOUS
  <2> QED
    BY <2>1
<1>2. \A i \in S : i \in Int /\ n - i \in T
  OBVIOUS
<1>3. \A t \in T : \E i \in S : t = n - i
  OBVIOUS
<1> HIDE DEF T
<1>4. PICK least \in T : \A other \in T : least <= other
  BY <1>1, LeastElement
<1>5. PICK greatest \in S : least = n - greatest
  BY <1>3
<1>6. \A i \in S : greatest >= i
  BY <1>2, <1>4, <1>5
<1> QED
  BY <1>2, <1>6 DEF Max

-----------------------------------------------------------------------------
(* Sequences of sequences.                                                 *)

\* What a sequence holds is what stands at its places.
LEMMA RangeIs ==
  ASSUME NEW T, NEW seq \in Seq(T)
  PROVE  /\ Range(seq) \subseteq T
         /\ \A t : t \in Range(seq) <=> \E i \in 1..Len(seq) : t = seq[i]
BY DEF Range

\* Concatenation holds what the two sequences hold.
LEMMA RangeOfConcat ==
  ASSUME NEW T, NEW s \in Seq(T), NEW t \in Seq(T)
  PROVE  s \o t \in Seq(T) /\ Range(s \o t) = Range(s) \cup Range(t)
<1>1. /\ s \o t \in Seq(T) /\ Len(s \o t) = Len(s) + Len(t)
      /\ Len(s) \in Nat /\ Len(t) \in Nat
      /\ \A i \in 1..(Len(s) + Len(t)) :
           (s \o t)[i] = IF i <= Len(s) THEN s[i] ELSE t[i - Len(s)]
  OBVIOUS
<1>2. ASSUME NEW x \in Range(s \o t)
      PROVE  x \in Range(s) \cup Range(t)
  <2>1. PICK i \in 1..Len(s \o t) : x = (s \o t)[i]
    BY <1>1, RangeIs
  <2>2. CASE i <= Len(s)
    BY <1>1, <2>1, <2>2, RangeIs
  <2>3. CASE ~(i <= Len(s))
    <3>1. i - Len(s) \in 1..Len(t) /\ x = t[i - Len(s)]
      BY <1>1, <2>1, <2>3
    <3> QED
      BY <3>1, RangeIs
  <2> QED
    BY <2>2, <2>3
<1>3. ASSUME NEW x \in Range(s)
      PROVE  x \in Range(s \o t)
  <2>1. PICK i \in 1..Len(s) : x = s[i]
    BY RangeIs
  <2>2. i \in 1..Len(s \o t) /\ x = (s \o t)[i]
    BY <1>1, <2>1
  <2> QED
    BY <1>1, <2>2, RangeIs
<1>4. ASSUME NEW x \in Range(t)
      PROVE  x \in Range(s \o t)
  <2>1. PICK i \in 1..Len(t) : x = t[i]
    BY RangeIs
  <2>2. Len(s) + i \in 1..(Len(s) + Len(t)) /\ ~(Len(s) + i <= Len(s)) /\ (Len(s) + i) - Len(s) = i
    BY <1>1
  <2>3. x = (s \o t)[Len(s) + i]
    BY <1>1, <2>1, <2>2
  <2> QED
    BY <1>1, <2>2, <2>3, RangeIs
<1> QED
  BY <1>1, <1>2, <1>3, <1>4

\* A flattened sequence holds what its parts hold.
LEMMA FlattenSeqIs ==
  ASSUME NEW T, NEW seqs \in Seq(Seq(T))
  PROVE  /\ FlattenSeq(seqs) \in Seq(T)
         /\ Range(FlattenSeq(seqs)) = UNION {Range(seqs[i]) : i \in 1..Len(seqs)}
<1>1. Len(seqs) \in Nat /\ \A i \in 1..Len(seqs) : seqs[i] \in Seq(T)
  OBVIOUS
<1>2. CASE Len(seqs) = 0
  <2>1. FlattenSeq(seqs) = <<>> /\ 1..Len(seqs) = {}
    BY <1>2 DEF FlattenSeq
  <2>2. <<>> \in Seq(T) /\ Range(<<>>) = {}
    BY DEF Range
  <2> QED
    BY <2>1, <2>2
<1>3. ASSUME NEW n \in Nat, n = Len(seqs), n # 0
      PROVE  FlattenSeq(seqs) \in Seq(T)
             /\ Range(FlattenSeq(seqs)) = UNION {Range(seqs[i]) : i \in 1..n}
  <2> DEFINE step == [p \in Seq(T) \X (1..n) |-> p[1] \o seqs[p[2]]]
             Flattens(f) == f = [i \in 1..n |-> IF i = 1 THEN seqs[i] ELSE f[i - 1] \o seqs[i]]
             flatten == CHOOSE f : Flattens(f)
  <2>1. FlattenSeq(seqs) = flatten[n]
    BY <1>3 DEF FlattenSeq
  <2>2. \A i \in 1..n : seqs[i] \in Seq(T)
    BY <1>1, <1>3
  <2>3. n >= 1 /\ 1 \in 1..n /\ \A i \in 1..n : i # 1 => i - 1 \in 1..n
    BY <1>3
  <2>4. \A s \in Seq(T), i \in 1..n : step[<<s, i>>] = s \o seqs[i]
    OBVIOUS
  <2>5. \A s \in Seq(T), i \in 1..n : step[<<s, i>>] \in Seq(T)
    BY <2>2
  <2> HIDE DEF step
  <2>6. PICK f \in [1..n -> Seq(T)] : Recurs(f, 1, n, seqs[1], step)
    <3>1. 1 \in Nat /\ 1 <= n /\ seqs[1] \in Seq(T)
      BY <2>2, <2>3
    <3>2. \A i \in (1 + 1)..n : i \in 1..n
      OBVIOUS
    <3>3. \A s \in Seq(T), i \in (1 + 1)..n : step[<<s, i>>] \in Seq(T)
      BY <2>5, <3>2
    <3> HIDE DEF flatten, Flattens
    <3> QED
      BY <3>1, <3>3, RecursionOnInterval
  <2>7. \A i \in 1..n : f[i] = IF i = 1 THEN seqs[i] ELSE f[i - 1] \o seqs[i]
    BY <2>3, <2>4, <2>6 DEF Recurs
  <2>8. f = [i \in 1..n |-> IF i = 1 THEN seqs[i] ELSE f[i - 1] \o seqs[i]]
    BY <2>7
  <2>9. Flattens(flatten)
    <3>1. Flattens(f)
      BY <2>8
    <3> HIDE DEF Flattens
    <3> QED
      BY <3>1
  <2> HIDE DEF flatten
  <2>10. \A i \in 1..n : flatten[i] = IF i = 1 THEN seqs[i] ELSE flatten[i - 1] \o seqs[i]
    BY <2>9
  <2> HIDE DEF Flattens
  <2> DEFINE Held(i) == UNION {Range(seqs[j]) : j \in 1..i}
             S == {i \in 1..n : flatten[i] \in Seq(T) /\ Range(flatten[i]) = Held(i)}
  <2>11. \A i : i \in S <=> i \in 1..n /\ flatten[i] \in Seq(T) /\ Range(flatten[i]) = Held(i)
    OBVIOUS
  <2> HIDE DEF S
  <2>12. 1 \in S
    <3>1. flatten[1] = seqs[1]
      BY <2>3, <2>10
    <3>2. Held(1) = Range(seqs[1])
      OBVIOUS
    <3> HIDE DEF Held
    <3> QED
      BY <2>2, <2>3, <2>11, <3>1, <3>2
  <2>13. ASSUME NEW i \in 1..(n - 1), i \in S
         PROVE  i + 1 \in S
    <3>1. i \in 1..n /\ i + 1 \in 1..n /\ i + 1 # 1 /\ (i + 1) - 1 = i
      OBVIOUS
    <3>2. flatten[i + 1] = flatten[i] \o seqs[i + 1]
      BY <2>10, <3>1
    <3>3. flatten[i] \in Seq(T) /\ Range(flatten[i]) = Held(i)
      BY <2>11, <2>13
    <3>4. seqs[i + 1] \in Seq(T)
      BY <2>2, <3>1
    <3>5. Held(i + 1) = Held(i) \cup Range(seqs[i + 1])
      <4>1. 1..(i + 1) = (1..i) \cup {i + 1}
        BY <3>1
      <4> QED
        BY <4>1
    <3> HIDE DEF Held
    <3>6. flatten[i] \o seqs[i + 1] \in Seq(T)
          /\ Range(flatten[i] \o seqs[i + 1]) = Range(flatten[i]) \cup Range(seqs[i + 1])
      BY <3>3, <3>4, RangeOfConcat
    <3> QED
      BY <2>11, <3>1, <3>2, <3>3, <3>5, <3>6
  <2>14. n \in S
    <3> HIDE DEF Held
    <3>1. 1..n \subseteq S
      BY <2>12, <2>13, IntervalInduction
    <3> QED
      BY <2>3, <3>1
  <2> QED
    BY <2>1, <2>11, <2>14
<1> QED
  BY <1>1, <1>2, <1>3
=============================================================================
