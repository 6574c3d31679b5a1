---------------------------- MODULE EgressProofs -----------------------------
(***************************************************************************)
(* For any names, addresses, policies, resolver answers, bodies and cap:   *)
(* what the proxy sends is accounted for, went to a host a policy that was *)
(* in force can admit, and holds no key in the clear.  Nothing is assumed  *)
(* of the resolver but that it answers with one of the sets it may return. *)
(*                                                                         *)
(* First what Egress uses: the DLP pipeline, then the loader.  For every   *)
(* payload made of pieces, of any length, the ten passes of Scrub, each    *)
(* over what the earlier ones have left, come to what is read off the      *)
(* payload alone, piece by piece.  The loops of the code are recursive     *)
(* functions in DLP; the induction over their steps is SetInduction.       *)
(***************************************************************************)
EXTENDS Egress, FiniteSetTheorems, SequenceTheorems, WellFoundedInduction, TLAPS

-----------------------------------------------------------------------------
(***************************************************************************)
(* Induction over the natural numbers, from their being well-founded.      *)
(***************************************************************************)

\* Every set of natural numbers that is not empty has a least element.
LEMMA LeastNumber ==
  ASSUME NEW T, T \subseteq Nat, T # {}
  PROVE  \E x \in T : \A y \in T : x <= y
<1> DEFINE R == OpToRel(<, Nat)
<1>1. IsWellFoundedOn(R, Nat)
  BY NatLessThanWellFounded
<1>2. \A x, y \in Nat : y < x => <<y, x>> \in R
  BY DEF OpToRel
<1> HIDE DEF R
<1>3. PICK x \in T : \A y \in T : <<y, x>> \notin R
  BY <1>1, WFMin
<1>4. \A y \in T : ~(y < x)
  BY <1>2, <1>3
<1> QED
  BY <1>4

\* Induction, for a set: what the theorems about predicates cannot be used for.
LEMMA SetInduction ==
  ASSUME NEW S, 0 \in S, \A n \in Nat : n \in S => n + 1 \in S
  PROVE  Nat \subseteq S
<1> SUFFICES ASSUME Nat \ S # {} PROVE FALSE
  OBVIOUS
<1>1. PICK x \in Nat \ S : \A y \in Nat \ S : x <= y
  BY LeastNumber
<1>2. x \in Nat /\ x # 0 /\ x - 1 \in Nat /\ (x - 1) + 1 = x
  BY <1>1
<1>3. x - 1 \in S
  BY <1>1, <1>2
<1> QED
  BY <1>1, <1>2, <1>3

-----------------------------------------------------------------------------
(***************************************************************************)
(* Luhn's rule.                                                            *)
(***************************************************************************)

\* SumTo adds up step by step.
LEMMA SumToSteps ==
  ASSUME NEW n \in Nat, NEW w, \A i \in 1..n : w[i] \in Int
  PROVE  \E s \in [0..n -> Int] :
            s[0] = 0 /\ (\A i \in 1..n : s[i] = s[i - 1] + w[i]) /\ SumTo(w, n) = s[n]
<1> DEFINE Upto(s, k) == s = [i \in 0..k |-> IF i = 0 THEN 0 ELSE s[i - 1] + w[i]]
           A == {k \in Nat : \E s : Upto(s, k)}
<1>1. 0 \in A
  <2>1. Upto([i \in 0..0 |-> 0], 0)
    OBVIOUS
  <2> QED
    BY <2>1
<1>2. ASSUME NEW k \in Nat, k \in A PROVE k + 1 \in A
  <2>1. PICK s : Upto(s, k)
    BY <1>2
  <2> DEFINE t == [i \in 0..(k + 1) |-> IF i = k + 1 THEN s[k] + w[k + 1] ELSE s[i]]
  <2>2. /\ t[k + 1] = s[k] + w[k + 1] /\ \A i \in 0..k : t[i] = s[i]
        /\ t = [i \in 0..(k + 1) |-> t[i]]
    OBVIOUS
  <2>3. s[0] = 0 /\ \A i \in 1..k : s[i] = s[i - 1] + w[i]
    BY <2>1
  <2> HIDE DEF t, Upto
  <2>4. \A i \in 0..(k + 1) : t[i] = IF i = 0 THEN 0 ELSE t[i - 1] + w[i]
    <3>1. t[0] = 0
      BY <2>2, <2>3
    <3>2. ASSUME NEW i \in 1..k PROVE t[i] = t[i - 1] + w[i]
      <4>1. i \in 0..k /\ i - 1 \in 0..k
        OBVIOUS
      <4> QED
        BY <2>2, <2>3, <4>1
    <3>3. t[k + 1] = t[(k + 1) - 1] + w[k + 1]
      <4>1. (k + 1) - 1 = k /\ k \in 0..k
        OBVIOUS
      <4> QED
        BY <2>2, <4>1
    <3> QED
      BY <3>1, <3>2, <3>3
  <2>5. Upto(t, k + 1)
    BY <2>2, <2>4 DEF Upto
  <2> QED
    BY <2>5
<1>3. \E s : Upto(s, n)
  <2>1. Nat \subseteq A
    <3> HIDE DEF A
    <3> QED
      BY <1>1, <1>2, SetInduction
  <2> QED
    BY <2>1
<1> DEFINE s == CHOOSE s : Upto(s, n)
<1>4. Upto(s, n) /\ SumTo(w, n) = s[n]
  BY <1>3 DEF SumTo
<1> HIDE DEF s
<1>5. s[0] = 0 /\ \A i \in 1..n : s[i] = s[i - 1] + w[i]
  BY <1>4
<1> DEFINE B == {i \in Nat : i <= n => s[i] \in Int}
<1>6. 0 \in B
  BY <1>5
<1>7. ASSUME NEW i \in Nat, i \in B PROVE i + 1 \in B
  <2>1. i + 1 <= n => s[i + 1] = s[i] + w[i + 1] /\ w[i + 1] \in Int
    <3>1. i + 1 <= n => i + 1 \in 1..n /\ (i + 1) - 1 = i
      OBVIOUS
    <3> QED
      BY <1>5, <3>1
  <2>2. i + 1 <= n => s[i] \in Int
    BY <1>7
  <2> QED
    BY <2>1, <2>2
<1>8. \A i \in 0..n : s[i] \in Int
  <2>1. Nat \subseteq B
    <3> HIDE DEF B
    <3> QED
      BY <1>6, <1>7, SetInduction
  <2> QED
    BY <2>1
<1>9. s \in [0..n -> Int]
  BY <1>4, <1>8
<1> QED
  BY <1>4, <1>5, <1>9

\* Adding up from the other end makes no difference.
LEMMA SumToReversed ==
  ASSUME NEW n \in Nat, NEW w, NEW v, \A i \in 1..n : w[i] \in Int,
         \A i \in 1..n : v[i] = w[n - i + 1]
  PROVE  SumTo(v, n) = SumTo(w, n)
<1>1. \A i \in 1..n : n - i + 1 \in 1..n
  OBVIOUS
<1>2. \A i \in 1..n : v[i] \in Int
  BY <1>1
<1>3. PICK s \in [0..n -> Int] : s[0] = 0 /\ (\A i \in 1..n : s[i] = s[i - 1] + w[i])
                                 /\ SumTo(w, n) = s[n]
  BY SumToSteps
<1>4. PICK r \in [0..n -> Int] : r[0] = 0 /\ (\A i \in 1..n : r[i] = r[i - 1] + v[i])
                                 /\ SumTo(v, n) = r[n]
  BY <1>2, SumToSteps
<1> DEFINE A == {k \in Nat : k <= n => r[k] = s[n] - s[n - k]}
<1>5. 0 \in A
  BY <1>4
<1>6. ASSUME NEW k \in Nat, k \in A PROVE k + 1 \in A
  <2>1. CASE k + 1 <= n
    <3>1. /\ k \in 0..n /\ k + 1 \in 1..n /\ (k + 1) - 1 = k
          /\ n - k \in 1..n /\ (n - k) - 1 = n - (k + 1) /\ n - (k + 1) + 1 = n - k
          /\ n - (k + 1) \in 0..n
      BY <2>1
    <3>2. r[k + 1] = r[k] + v[k + 1] /\ v[k + 1] = w[n - k]
      BY <1>4, <3>1
    <3>3. s[n - k] = s[n - (k + 1)] + w[n - k]
      BY <1>3, <3>1
    <3>4. r[k] = s[n] - s[n - k]
      BY <1>6, <3>1
    <3> DEFINE sn == s[n]
               sk == s[n - (k + 1)]
               wk == w[n - k]
    <3>5. /\ sn \in Int /\ sk \in Int /\ wk \in Int
          /\ r[k + 1] = (sn - (sk + wk)) + wk
      BY <3>1, <3>2, <3>3, <3>4
    <3> HIDE DEF sn, sk, wk
    <3>6. r[k + 1] = sn - sk
      BY <3>5
    <3> QED
      BY <3>6 DEF sn, sk
  <2>2. CASE ~(k + 1 <= n)
    BY <2>2
  <2> QED
    BY <2>1, <2>2
<1>7. n \in A
  <2> HIDE DEF A
  <2> QED
    BY <1>5, <1>6, SetInduction
<1>8. r[n] = s[n]
  BY <1>3, <1>7
<1> QED
  BY <1>3, <1>4, <1>8

\* luhnCheck doubles the digits Luhn's rule doubles: the parity of the length, from the
\* left, is every second one, from the right (dlp.go:201-230).
THEOREM LuhnIsLuhn ==
  \A d \in Seq(0..9) : CardShape(d) /\ LuhnCheck(d) <=> ValidNumber(d)
<1> DEFINE Right(d) == [i \in 1..Len(d) |-> IF i % 2 = 0 THEN Doubled(Reverse(d)[i])
                                                         ELSE Reverse(d)[i]]
           ValidSum(d) == SumTo(Right(d), Len(d)) % 10 = 0
<1> SUFFICES ASSUME NEW d \in Seq(0..9), Len(d) \in 13..19
             PROVE  LuhnCheck(d) <=> ValidSum(d)
  BY DEF CardShape, LuhnCheck, ValidNumber
<1> DEFINE n == Len(d)
           w == [i \in 1..n |-> IF (i - 1) % 2 = n % 2 THEN Doubled(d[i]) ELSE d[i]]
           v == Right(d)
<1>1. n \in Nat /\ \A i \in 1..n : d[i] \in 0..9
  OBVIOUS
<1>2. \A i \in 1..n : w[i] \in Int
  BY <1>1 DEF Doubled
<1>3. ASSUME NEW i \in 1..n PROVE v[i] = w[n - i + 1]
  <2>1. n - i + 1 \in 1..n
    BY <1>1
  <2>2. Reverse(d)[i] = d[n - i + 1]
    BY DEF Reverse
  <2>3. i % 2 = 0 <=> ((n - i + 1) - 1) % 2 = n % 2
    <3> HIDE DEF n
    <3> QED
      BY <1>1
  <2> QED
    BY <2>1, <2>2, <2>3
<1> HIDE DEF w, v
<1>4. SumTo(v, n) = SumTo(w, n)
  <2> HIDE DEF n
  <2> QED
    BY <1>1, <1>2, <1>3, SumToReversed
<1> QED
  BY <1>4 DEF LuhnCheck, w, v

-----------------------------------------------------------------------------
(***************************************************************************)
(* Views. A buffer is seen as what is left of each piece of an earlier     *)
(* one: nothing, or one piece. c counts how much is left of the first i    *)
(* pieces.                                                                 *)
(***************************************************************************)

\* Each piece of g stands in q, in order, or has been left out: c[i] is how many of the
\* first i stand in q.
IsView(q, g, c, n) ==
    /\ c \in [0..n -> Nat] /\ c[0] = 0 /\ Len(q) = c[n]
    /\ \A i \in 1..n : \/ g[i] = << >> /\ c[i] = c[i - 1]
                       \/ c[i] = c[i - 1] + 1 /\ g[i] = <<q[c[i]]>>

\* Every piece of q comes from one of g.
Onto(q, g, c, n) == \A m \in 1..c[n] : \E i \in 1..n : c[i] = m /\ g[i] = <<q[m]>>

\* Every piece of what is left comes from one of the pieces before.
LEMMA ViewOnto ==
  ASSUME NEW q, NEW g, NEW c, NEW n \in Nat, IsView(q, g, c, n)
  PROVE  Onto(q, g, c, n)
<1> DEFINE From(k) == \A m \in 1..c[k] : \E i \in 1..k : c[i] = m /\ g[i] = <<q[m]>>
           A == {k \in Nat : k <= n => From(k)}
<1>1. 0 \in A
  BY DEF IsView
<1>2. ASSUME NEW k \in Nat, k \in A PROVE k + 1 \in A
  <2> HIDE DEF From
  <2> SUFFICES ASSUME k + 1 <= n PROVE From(k + 1)
    OBVIOUS
  <2> USE DEF From
  <2> SUFFICES ASSUME NEW m \in 1..c[k + 1]
               PROVE  \E i \in 1..(k + 1) : c[i] = m /\ g[i] = <<q[m]>>
    OBVIOUS
  <2>1. k + 1 \in 1..n /\ (k + 1) - 1 = k /\ k \in 0..n /\ k <= n
    OBVIOUS
  <2>2. c[k] \in Nat /\ c[k + 1] \in Nat
    BY <2>1 DEF IsView
  <2>3. \A j \in 1..c[k] : \E i \in 1..k : c[i] = j /\ g[i] = <<q[j]>>
    BY <1>2, <2>1
  <2>4. CASE m \in 1..c[k]
    BY <2>3, <2>4
  <2>5. CASE m \notin 1..c[k]
    <3>1. c[k + 1] = c[k] + 1 /\ g[k + 1] = <<q[c[k + 1]]>>
      BY <2>1, <2>2, <2>5 DEF IsView
    <3>2. m = c[k + 1]
      BY <2>2, <2>5, <3>1
    <3> QED
      BY <3>1, <3>2
  <2> QED
    BY <2>4, <2>5
<1>3. n \in A
  <2> HIDE DEF A
  <2> QED
    BY <1>1, <1>2, SetInduction
<1> QED
  BY <1>3 DEF Onto

\* What is left out does not depend on q.
LEMMA ViewCounts ==
  ASSUME NEW q, NEW g, NEW c, NEW r, NEW h, NEW d, NEW n \in Nat,
         IsView(q, g, c, n), IsView(r, h, d, n), \A i \in 1..n : g[i] = << >> <=> h[i] = << >>
  PROVE  \A i \in 0..n : c[i] = d[i]
<1> DEFINE A == {k \in Nat : k <= n => c[k] = d[k]}
<1>1. 0 \in A
  BY DEF IsView
<1>2. ASSUME NEW k \in Nat, k \in A PROVE k + 1 \in A
  <2> SUFFICES ASSUME k + 1 <= n PROVE c[k + 1] = d[k + 1]
    OBVIOUS
  <2>1. k + 1 \in 1..n /\ (k + 1) - 1 = k /\ c[k] = d[k]
    BY <1>2
  <2>2. \A one : <<one>> # << >>
    OBVIOUS
  <2>3. CASE g[k + 1] = << >>
    BY <2>1, <2>2, <2>3 DEF IsView
  <2>4. CASE g[k + 1] # << >>
    BY <2>1, <2>2, <2>4 DEF IsView
  <2> QED
    BY <2>3, <2>4
<1>3. Nat \subseteq A
  <2> HIDE DEF A
  <2> QED
    BY <1>1, <1>2, SetInduction
<1> QED
  BY <1>3

\* The pieces determine what they are the view of.
LEMMA ViewUnique ==
  ASSUME NEW X, NEW q \in Seq(X), NEW r \in Seq(X), NEW g, NEW c, NEW d, NEW n \in Nat,
         IsView(q, g, c, n), IsView(r, g, d, n)
  PROVE  q = r
<1>1. c[n] = d[n] /\ Len(q) = c[n] /\ Len(r) = c[n] /\ \A i \in 1..n : c[i] = d[i]
  <2>1. \A i \in 0..n : c[i] = d[i]
    BY ViewCounts
  <2> QED
    BY <2>1 DEF IsView
<1>2. ASSUME NEW m \in 1..Len(q) PROVE q[m] = r[m]
  <2>0. Onto(q, g, c, n)
    BY ViewOnto
  <2>1. PICK i \in 1..n : c[i] = m /\ g[i] = <<q[m]>>
    BY <1>1, <2>0 DEF Onto
  <2>2. g[i] # << >>
    BY <2>1
  <2>3. g[i] = <<r[d[i]]>>
    BY <2>2 DEF IsView
  <2>4. d[i] = m
    BY <1>1, <2>1
  <2>5. <<q[m]>>[1] = <<r[m]>>[1]
    BY <2>1, <2>3, <2>4
  <2> QED
    BY <2>5
<1> QED
  BY <1>1, <1>2, SeqEqual

\* At most one piece stands for each of the pieces before.
IsFamily(g, n, X) == \A i \in 1..n : g[i] = << >> \/ \E x \in X : g[i] = <<x>>

\* FlattenSeq joins the sequences one after another.
LEMMA FlattenSteps ==
  ASSUME NEW n \in Nat \ {0}, NEW g, Len(g) = n
  PROVE  \E s : s[1] = g[1] /\ (\A i \in 2..n : s[i] = s[i - 1] \o g[i]) /\ FlattenSeq(g) = s[n]
<1> DEFINE Upto(s, k) == s = [i \in 1..k |-> IF i = 1 THEN g[i] ELSE s[i - 1] \o g[i]]
           A == {k \in Nat : \E s : Upto(s, k + 1)}
<1>1. 0 \in A
  <2>1. Upto([i \in 1..1 |-> g[1]], 0 + 1)
    OBVIOUS
  <2> QED
    BY <2>1
<1>2. ASSUME NEW k \in Nat, k \in A PROVE k + 1 \in A
  <2> DEFINE m == k + 1
  <2>1. PICK s : Upto(s, m)
    BY <1>2
  <2>0. /\ m \in Nat /\ m >= 1 /\ 1 \in 1..m /\ m + 1 \in 1..(m + 1) /\ (m + 1) - 1 = m
        /\ m \in 1..m /\ \A i \in 1..m : i \in 1..(m + 1) /\ i # m + 1
        /\ \A i \in 2..m : i \in 1..m /\ i # 1 /\ i - 1 \in 1..m
        /\ \A i \in 1..(m + 1) : i = 1 \/ i \in 2..m \/ i = m + 1
    OBVIOUS
  <2> HIDE DEF m
  <2> DEFINE t == [i \in 1..(m + 1) |-> IF i = m + 1 THEN s[m] \o g[m + 1] ELSE s[i]]
  <2>2. /\ t[m + 1] = s[m] \o g[m + 1] /\ \A i \in 1..m : t[i] = s[i]
        /\ t = [i \in 1..(m + 1) |-> t[i]]
    BY <2>0
  <2>3. s[1] = g[1] /\ \A i \in 2..m : s[i] = s[i - 1] \o g[i]
    BY <2>0, <2>1
  <2> HIDE DEF t, Upto
  <2>4. \A i \in 1..(m + 1) : t[i] = IF i = 1 THEN g[i] ELSE t[i - 1] \o g[i]
    <3>1. t[1] = g[1]
      BY <2>0, <2>2, <2>3
    <3>2. ASSUME NEW i \in 2..m PROVE t[i] = t[i - 1] \o g[i]
      BY <2>0, <2>2, <2>3
    <3>3. t[m + 1] = t[(m + 1) - 1] \o g[m + 1]
      BY <2>0, <2>2
    <3> QED
      BY <2>0, <3>1, <3>2, <3>3
  <2>5. Upto(t, m + 1)
    BY <2>2, <2>4 DEF Upto
  <2> QED
    BY <2>5 DEF m
<1>3. \E s : Upto(s, n)
  <2>1. Nat \subseteq A
    <3> HIDE DEF A
    <3> QED
      BY <1>1, <1>2, SetInduction
  <2>2. n - 1 \in Nat /\ (n - 1) + 1 = n
    OBVIOUS
  <2>3. \E s : Upto(s, (n - 1) + 1)
    BY <2>1, <2>2
  <2> HIDE DEF Upto
  <2> QED
    BY <2>2, <2>3
<1> DEFINE s == CHOOSE s : Upto(s, n)
<1>4. Upto(s, n) /\ FlattenSeq(g) = s[n]
  BY <1>3 DEF FlattenSeq
<1> HIDE DEF s
<1>5. 1 \in 1..n /\ \A i \in 2..n : i \in 1..n /\ i # 1
  OBVIOUS
<1>6. s[1] = g[1] /\ \A i \in 2..n : s[i] = s[i - 1] \o g[i]
  BY <1>4, <1>5
<1> QED
  BY <1>4, <1>6

\* Nothing moves to the left of what was before it.
LEMMA ViewMonotone ==
  ASSUME NEW q, NEW g, NEW c, NEW n \in Nat, IsView(q, g, c, n), NEW i \in 0..n,
         NEW j \in i..n
  PROVE  c[i] <= c[j]
<1> DEFINE A == {k \in Nat : i + k <= n => c[i] <= c[i + k]}
<1>1. \A k \in 0..n : c[k] \in Nat
  BY DEF IsView
<1>2. 0 \in A
  BY <1>1
<1>3. ASSUME NEW k \in Nat, k \in A PROVE k + 1 \in A
  <2>1. CASE i + (k + 1) <= n
    <3> DEFINE m == i + (k + 1)
    <3>1. m \in 1..n /\ m - 1 = i + k /\ m - 1 \in 0..n /\ i + k <= n /\ m \in 0..n
      BY <2>1
    <3> HIDE DEF m
    <3>2. c[m] = c[m - 1] \/ c[m] = c[m - 1] + 1
      BY <3>1 DEF IsView
    <3>3. c[i] <= c[m - 1]
      BY <1>3, <3>1
    <3>4. c[i] <= c[m]
      BY <1>1, <3>1, <3>2, <3>3
    <3> QED
      BY <3>4 DEF m
  <2>2. CASE ~(i + (k + 1) <= n)
    BY <2>2
  <2> QED
    BY <2>1, <2>2
<1>4. j - i \in A /\ i + (j - i) = j
  <2>1. Nat \subseteq A
    <3> HIDE DEF A
    <3> QED
      BY <1>2, <1>3, SetInduction
  <2>2. j - i \in Nat /\ i + (j - i) = j
    OBVIOUS
  <2> QED
    BY <2>1, <2>2
<1> QED
  <2> DEFINE k == j - i
  <2>1. k \in A /\ i + k = j
    BY <1>4
  <2> HIDE DEF k
  <2> QED
    BY <2>1

\* A piece more at the end of what is viewed, or left out.
LEMMA ViewExtends ==
  ASSUME NEW X, NEW q \in Seq(X), NEW g, NEW c, NEW k \in Nat, IsView(q, g, c, k),
         g[k + 1] = << >> \/ \E x \in X : g[k + 1] = <<x>>
  PROVE  q \o g[k + 1] \in Seq(X) /\ \E d : IsView(q \o g[k + 1], g, d, k + 1)
<1> DEFINE r == q \o g[k + 1]
           d == [i \in 0..(k + 1) |-> IF i = k + 1 THEN Len(r) ELSE c[i]]
<1>1. Len(q) \in Nat /\ c[k] = Len(q) /\ \A i \in 0..k : c[i] \in Nat
  BY DEF IsView
<1>2. CASE g[k + 1] = << >>
  <2>1. r = q
    BY <1>2, ConcatEmptySeq
  <2>2. IsView(r, g, d, k + 1)
    <3>1. d \in [0..(k + 1) -> Nat] /\ d[0] = 0 /\ Len(r) = d[k + 1]
      BY <1>1, <2>1 DEF IsView
    <3>2. \A i \in 1..k : d[i] = c[i] /\ d[i - 1] = c[i - 1]
      OBVIOUS
    <3>3. d[k + 1] = d[(k + 1) - 1]
      BY <1>1, <2>1
    <3> HIDE DEF d
    <3>4. \A i \in 1..k : \/ g[i] = << >> /\ d[i] = d[i - 1]
                          \/ d[i] = d[i - 1] + 1 /\ g[i] = <<q[d[i]]>>
      BY <3>2 DEF IsView
    <3>5. \A i \in 1..(k + 1) : i \in 1..k \/ i = k + 1
      OBVIOUS
    <3> HIDE DEF r
    <3> QED
      BY <1>2, <2>1, <3>1, <3>3, <3>4, <3>5 DEF IsView
  <2> QED
    BY <2>1, <2>2
<1>3. CASE g[k + 1] # << >>
  <2>1. PICK x \in X : g[k + 1] = <<x>>
    BY <1>3
  <2>2. r = Append(q, x)
    BY <2>1, AppendIsConcat
  <2>3. /\ r \in Seq(X) /\ Len(r) = Len(q) + 1 /\ r[Len(q) + 1] = x
        /\ \A i \in 1..Len(q) : r[i] = q[i]
    BY <2>2, AppendProperties
  <2>4. IsView(r, g, d, k + 1)
    <3>1. d \in [0..(k + 1) -> Nat] /\ d[0] = 0 /\ Len(r) = d[k + 1]
      BY <1>1, <2>3 DEF IsView
    <3>2. \A i \in 1..k : d[i] = c[i] /\ d[i - 1] = c[i - 1]
      OBVIOUS
    <3>3. d[k + 1] = d[(k + 1) - 1] + 1 /\ d[k + 1] = Len(q) + 1
      BY <1>1, <2>3
    <3> HIDE DEF d, r
    <3>4. ASSUME NEW i \in 1..k, g[i] # << >> PROVE d[i] = d[i - 1] + 1 /\ g[i] = <<r[d[i]]>>
      <4>1. c[i] = c[i - 1] + 1 /\ g[i] = <<q[c[i]]>>
        BY <3>4 DEF IsView
      <4>2. c[i] \in 1..Len(q)
        <5>1. i - 1 \in 0..k /\ i \in 0..k /\ k \in i..k
          OBVIOUS
        <5>2. c[i - 1] \in Nat /\ c[i] <= c[k]
          BY <1>1, <5>1, ViewMonotone
        <5> QED
          BY <1>1, <4>1, <5>2
      <4> QED
        BY <2>3, <3>2, <4>1, <4>2
    <3>5. \A i \in 1..k : g[i] = << >> => d[i] = d[i - 1]
      <4>1. \A one : <<one>> # << >>
        OBVIOUS
      <4> QED
        BY <3>2, <4>1 DEF IsView
    <3> QED
      BY <2>1, <2>3, <3>1, <3>3, <3>4, <3>5 DEF IsView
  <2> QED
    BY <2>3, <2>4
<1> QED
  BY <1>2, <1>3

\* FlattenSeq of a family is what the family is the view of.
LEMMA FlattenIsView ==
  ASSUME NEW X, NEW n \in Nat, NEW g \in Seq(Seq(X)), Len(g) = n, IsFamily(g, n, X)
  PROVE  FlattenSeq(g) \in Seq(X) /\ \E c : IsView(FlattenSeq(g), g, c, n)
<1>1. << >> \in Seq(X) /\ IsView(<< >>, g, [i \in 0..0 |-> 0], 0)
  BY DEF IsView
<1>2. CASE n = 0
  <2>1. FlattenSeq(g) = g /\ g = << >>
    BY <1>2, EmptySeq DEF FlattenSeq
  <2> QED
    BY <1>1, <1>2, <2>1
<1>3. CASE n # 0
  <2>1. PICK s : s[1] = g[1] /\ (\A i \in 2..n : s[i] = s[i - 1] \o g[i]) /\ FlattenSeq(g) = s[n]
    <3>1. n \in Nat \ {0}
      BY <1>3
    <3> QED
      BY <3>1, FlattenSteps
  <2> DEFINE Viewed(k) == s[k] \in Seq(X) /\ \E c : IsView(s[k], g, c, k)
             A == {k \in Nat : k + 1 <= n => Viewed(k + 1)}
  <2>2. ASSUME NEW k \in 1..n PROVE g[k] = << >> \/ \E x \in X : g[k] = <<x>>
    BY DEF IsFamily
  <2>3. 0 \in A
    <3>1. << >> \o g[1] = g[1]
      <4>1. g[1] \in Seq(X)
        BY <1>3
      <4> QED
        BY <4>1, ConcatEmptySeq
    <3>2. g[0 + 1] = << >> \/ \E x \in X : g[0 + 1] = <<x>>
      BY <1>3, <2>2
    <3>3. << >> \o g[0 + 1] \in Seq(X) /\ \E d : IsView(<< >> \o g[0 + 1], g, d, 0 + 1)
      BY <1>1, <3>2, ViewExtends
    <3> QED
      BY <2>1, <3>1, <3>3
  <2>4. ASSUME NEW k \in Nat, k \in A PROVE k + 1 \in A
    <3> SUFFICES ASSUME (k + 1) + 1 <= n PROVE Viewed((k + 1) + 1)
      <4> HIDE DEF Viewed
      <4> QED
        OBVIOUS
    <3> DEFINE m == k + 1
    <3>1. m \in Nat /\ m + 1 \in 2..n /\ m + 1 \in 1..n /\ (m + 1) - 1 = m /\ m <= n
      OBVIOUS
    <3>2. Viewed(m)
      BY <2>4, <3>1
    <3> HIDE DEF m
    <3>3. PICK c : IsView(s[m], g, c, m)
      BY <3>2
    <3>4. g[m + 1] = << >> \/ \E x \in X : g[m + 1] = <<x>>
      BY <2>2, <3>1
    <3>5. s[m] \o g[m + 1] \in Seq(X) /\ \E d : IsView(s[m] \o g[m + 1], g, d, m + 1)
      BY <3>1, <3>2, <3>3, <3>4, ViewExtends
    <3>6. s[m + 1] = s[m] \o g[m + 1]
      BY <2>1, <3>1
    <3> QED
      BY <3>5, <3>6 DEF m
  <2>5. Viewed(n)
    <3>1. Nat \subseteq A
      <4> HIDE DEF A
      <4> QED
        BY <2>3, <2>4, SetInduction
    <3> HIDE DEF Viewed
    <3> DEFINE m == n - 1
    <3>2. m \in Nat /\ m + 1 = n
      BY <1>3
    <3> HIDE DEF m
    <3>3. m \in A
      BY <3>1, <3>2
    <3> QED
      BY <3>2, <3>3
  <2> QED
    BY <2>1, <2>5
<1> QED
  BY <1>2, <1>3

\* What is left is the pieces that stand for those before, one after another.
LEMMA ViewIsFlatten ==
  ASSUME NEW X, NEW n \in Nat, NEW g \in Seq(Seq(X)), Len(g) = n, IsFamily(g, n, X),
         NEW q \in Seq(X), NEW c, IsView(q, g, c, n)
  PROVE  q = FlattenSeq(g)
<1>1. FlattenSeq(g) \in Seq(X) /\ \E d : IsView(FlattenSeq(g), g, d, n)
  BY FlattenIsView
<1> QED
  BY <1>1, ViewUnique

-----------------------------------------------------------------------------
(***************************************************************************)
(* Splices.                                                                *)
(***************************************************************************)

\* What stands where after pieces i to e of q have been replaced by the w pieces of t.
IsSplice(r, q, t, w, i, e) ==
    /\ Len(r) = (i - 1) + w + (Len(q) - e)
    /\ \A k \in 1..(i - 1) : r[k] = q[k]
    /\ \A k \in 1..w : r[(i - 1) + k] = t[k]
    /\ \A k \in (e + 1)..Len(q) : r[(i - 1) + w + (k - e)] = q[k]

\* Two SubSeqs with something between them (dlp.go:168): where everything goes.
LEMMA Splice ==
  ASSUME NEW X, NEW q \in Seq(X), NEW t \in Seq(X), NEW i \in 1..Len(q), NEW e \in i..Len(q),
         NEW r, r = SubSeq(q, 1, i - 1) \o t \o SubSeq(q, e + 1, Len(q))
  PROVE  r \in Seq(X) /\ IsSplice(r, q, t, Len(t), i, e)
<1> DEFINE left == SubSeq(q, 1, i - 1)
           right == SubSeq(q, e + 1, Len(q))
<1>0. Len(q) \in Nat /\ Len(t) \in Nat /\ i \in Nat /\ e \in Nat /\ i <= e /\ e <= Len(q) /\ i >= 1
  OBVIOUS
<1>1. left \in Seq(X) /\ Len(left) = i - 1 /\ \A k \in 1..(i - 1) : left[k] = q[k]
  <2>1. \A k \in 1..(i - 1) : q[k] \in X
    OBVIOUS
  <2>2. /\ left \in Seq(X) /\ Len(left) = IF 1 <= i - 1 THEN (i - 1) - 1 + 1 ELSE 0
        /\ \A k \in 1..((i - 1) - 1 + 1) : left[k] = q[1 + k - 1]
    BY <2>1, SubSeqProperties
  <2> HIDE DEF left
  <2> QED
    BY <1>0, <2>2
<1>2. /\ right \in Seq(X) /\ Len(right) = Len(q) - e
      /\ \A k \in 1..(Len(q) - e) : right[k] = q[e + k]
  <2>1. \A k \in (e + 1)..Len(q) : q[k] \in X
    BY <1>0
  <2>2. /\ right \in Seq(X)
        /\ Len(right) = IF e + 1 <= Len(q) THEN Len(q) - (e + 1) + 1 ELSE 0
        /\ \A k \in 1..(Len(q) - (e + 1) + 1) : right[k] = q[(e + 1) + k - 1]
    BY <1>0, <2>1, SubSeqProperties
  <2> HIDE DEF right
  <2>3. Len(right) = Len(q) - e
    BY <1>0, <2>2
  <2>4. ASSUME NEW k \in 1..(Len(q) - e) PROVE right[k] = q[e + k]
    <3>1. k \in 1..(Len(q) - (e + 1) + 1) /\ (e + 1) + k - 1 = e + k
      BY <1>0
    <3> QED
      BY <2>2, <3>1
  <2> QED
    BY <2>2, <2>3, <2>4
<1> HIDE DEF left, right
<1>3. /\ left \o t \in Seq(X) /\ Len(left \o t) = (i - 1) + Len(t)
      /\ \A k \in 1..((i - 1) + Len(t)) :
            (left \o t)[k] = IF k <= i - 1 THEN left[k] ELSE t[k - (i - 1)]
  BY <1>1, ConcatProperties
<1> DEFINE lt == left \o t
           m == (i - 1) + Len(t)
<1>4. /\ lt \o right \in Seq(X) /\ Len(lt \o right) = m + (Len(q) - e)
      /\ \A k \in 1..(m + (Len(q) - e)) :
            (lt \o right)[k] = IF k <= m THEN lt[k] ELSE right[k - m]
  <2> HIDE DEF lt
  <2>0. lt \in Seq(X) /\ right \in Seq(X)
    BY <1>2, <1>3 DEF lt
  <2>1. Len(lt) = m /\ Len(right) = Len(q) - e
    BY <1>2, <1>3 DEF lt
  <2>2. /\ lt \o right \in Seq(X) /\ Len(lt \o right) = Len(lt) + Len(right)
        /\ \A k \in 1..(Len(lt) + Len(right)) :
              (lt \o right)[k] = IF k <= Len(lt) THEN lt[k] ELSE right[k - Len(lt)]
    BY <2>0, ConcatProperties
  <2> HIDE DEF m
  <2> QED
    BY <2>0, <2>1, <2>2
<1>5. r = lt \o right
  BY DEF left, right
<1> HIDE DEF lt
<1>6. m \in Nat /\ i - 1 \in Nat /\ i - 1 <= m
  BY <1>0
<1>7. ASSUME NEW k \in 1..(i - 1) PROVE r[k] = q[k]
  <2>1. k \in 1..m /\ k <= i - 1 /\ k <= m /\ k \in 1..(m + (Len(q) - e))
    BY <1>0
  <2> HIDE DEF m
  <2>2. r[k] = lt[k]
    BY <1>4, <1>5, <2>1
  <2>3. lt[k] = left[k]
    BY <1>3, <2>1 DEF lt, m
  <2> QED
    BY <1>1, <2>2, <2>3
<1>8. ASSUME NEW k \in 1..Len(t) PROVE r[(i - 1) + k] = t[k]
  <2> DEFINE j == (i - 1) + k
  <2>1. /\ j \in 1..m /\ ~(j <= i - 1) /\ j - (i - 1) = k /\ j \in 1..(m + (Len(q) - e))
        /\ j <= m
    BY <1>0
  <2> HIDE DEF j, m
  <2>2. r[j] = lt[j]
    BY <1>4, <1>5, <2>1
  <2>3. lt[j] = t[k]
    BY <1>3, <2>1 DEF lt, m
  <2> QED
    BY <2>2, <2>3 DEF j
<1>9. ASSUME NEW k \in (e + 1)..Len(q) PROVE r[m + (k - e)] = q[k]
  <2> DEFINE j == m + (k - e)
  <2>1. ~(j <= m) /\ j - m = k - e /\ j \in 1..(m + (Len(q) - e)) /\ k - e \in 1..(Len(q) - e)
        /\ e + (k - e) = k
    BY <1>0, <1>6
  <2> HIDE DEF j, m
  <2>2. r[j] = right[k - e]
    BY <1>4, <1>5, <2>1
  <2>3. right[k - e] = q[k]
    BY <1>2, <2>1
  <2> QED
    BY <2>2, <2>3 DEF j
<1> QED
  BY <1>4, <1>5, <1>7, <1>8, <1>9 DEF IsSplice

\* As long as nothing is left out every piece is in its own place.
InPlace(c, e) == \A i \in 0..e : c[i] = i

\* Where nothing has been left out, nothing has moved.
LEMMA ViewPrefix ==
  ASSUME NEW q, NEW g, NEW c, NEW n \in Nat, IsView(q, g, c, n), NEW e \in 0..n,
         \A i \in 1..e : g[i] # << >>
  PROVE  InPlace(c, e)
<1> DEFINE A == {k \in Nat : k <= e => c[k] = k}
<1>1. 0 \in A
  BY DEF IsView
<1>2. ASSUME NEW k \in Nat, k \in A PROVE k + 1 \in A
  <2> SUFFICES ASSUME k + 1 <= e PROVE c[k + 1] = k + 1
    OBVIOUS
  <2>1. k + 1 \in 1..e /\ k + 1 \in 1..n /\ (k + 1) - 1 = k /\ c[k] = k
    BY <1>2
  <2> QED
    BY <2>1 DEF IsView
<1>3. Nat \subseteq A
  <2> HIDE DEF A
  <2> QED
    BY <1>1, <1>2, SetInduction
<1> QED
  BY <1>3 DEF InPlace

\* Nothing is left out up to e.
Whole(g, e) == \A j \in 1..e : g[j] # << >>

\* h is g with the pieces i to e replaced: a stub for the first, the token for the last.
IsReplaced(h, g, stub, token, i, e, n) ==
    /\ h[e] = <<token>>
    /\ i # e => h[i] = <<stub>>
    /\ \A j \in (i + 1)..(e - 1) : h[j] = << >>
    /\ \A j \in 1..(i - 1) : h[j] = g[j]
    /\ \A j \in (e + 1)..n : h[j] = g[j]

\* t is that stub and that token, or the token alone.
IsTokens(t, w, stub, token, i, e) ==
    /\ w = (IF i = e THEN 1 ELSE 2)
    /\ t[w] = token
    /\ i # e => t[1] = stub

\* A splice of a view is a view: replacements to the right of a match have not moved it,
\* so the offsets FindAllIndex gave are still right (dlp.go:143-168).
LEMMA SpliceIsView ==
  ASSUME NEW n \in Nat, NEW q, NEW g, NEW c, IsView(q, g, c, n),
         NEW i \in 1..n, NEW e \in i..n, Whole(g, e),
         NEW stub, NEW token, NEW h, IsReplaced(h, g, stub, token, i, e, n),
         NEW t, NEW w, IsTokens(t, w, stub, token, i, e),
         NEW r, IsSplice(r, q, t, w, i, e)
  PROVE  \E d : IsView(r, h, d, n)
<1> DEFINE lost == (e - i) - (w - 1)
           d == [j \in 0..n |-> IF j < i THEN j ELSE IF j < e THEN i ELSE c[j] - lost]
<1>0. /\ i \in Nat /\ e \in Nat /\ 1 <= i /\ i <= e /\ e <= n /\ e \in 0..n
      /\ w \in 1..2 /\ (i = e => w = 1) /\ (i # e => w = 2)
      /\ lost \in Nat /\ lost <= e /\ e - lost = (i - 1) + w
  BY DEF IsTokens
<1>1. \A j \in 0..e : c[j] = j
  <2>1. InPlace(c, e)
    BY <1>0, ViewPrefix DEF Whole
  <2> QED
    BY <2>1 DEF InPlace
<1>2. ASSUME NEW j \in 0..n, j >= e PROVE c[j] \in Nat /\ e <= c[j] /\ c[j] <= Len(q)
  <2>1. e \in 0..n /\ j \in e..n /\ n \in j..n /\ c[e] = e
    BY <1>0, <1>1, <1>2
  <2>2. c[e] <= c[j] /\ c[j] <= c[n]
    BY <2>1, ViewMonotone
  <2> QED
    BY <2>1, <2>2 DEF IsView
<1>3. Len(q) \in Nat /\ e <= Len(q) /\ Len(q) = c[n]
  BY <1>0, <1>2 DEF IsView
<1>6. d \in [0..n -> {d[j] : j \in 0..n}]
  OBVIOUS
<1>61. ASSUME NEW j \in 0..n, j < i PROVE d[j] = j
  BY <1>61
<1>62. ASSUME NEW j \in 0..n, i <= j, j < e PROVE d[j] = i
  BY <1>0, <1>62
<1>63. ASSUME NEW j \in 0..n, j >= e PROVE d[j] = c[j] - lost
  BY <1>0, <1>63
<1> HIDE DEF lost, d
<1>7. \A j \in 0..n : d[j] \in Nat
  <2> SUFFICES ASSUME NEW j \in 0..n PROVE d[j] \in Nat
    OBVIOUS
  <2>1. CASE j >= e
    BY <1>0, <1>2, <1>61, <1>62, <1>63, <2>1
  <2>2. CASE j < e
    BY <1>0, <1>61, <1>62, <1>63, <2>2
  <2> QED
    BY <1>0, <2>1, <2>2
<1>8. d \in [0..n -> Nat] /\ d[0] = 0 /\ Len(r) = d[n]
  <2>1. d[0] = 0
    BY <1>0, <1>61, <1>62, <1>63
  <2>2. Len(r) = Len(q) - lost
    <3>1. Len(r) = (i - 1) + w + (Len(q) - e)
      BY DEF IsSplice
    <3> QED
      BY <1>0, <1>3, <3>1
  <2>3. d[n] = Len(q) - lost
    BY <1>0, <1>3, <1>61, <1>62, <1>63
  <2> QED
    BY <1>6, <1>7, <2>1, <2>2, <2>3
<1>9. ASSUME NEW j \in 1..n
      PROVE  \/ h[j] = << >> /\ d[j] = d[j - 1]
             \/ d[j] = d[j - 1] + 1 /\ h[j] = <<r[d[j]]>>
  <2>0. j \in 0..n /\ j - 1 \in 0..n /\ j - 1 < j /\ j \in Nat
    OBVIOUS
  <2>1. CASE j < i
    <3>1. d[j] = j /\ d[j - 1] = j - 1 /\ j \in 1..(i - 1) /\ j \in 0..e /\ j \in 1..e
      BY <1>0, <1>61, <1>62, <1>63, <2>0, <2>1
    <3>2. g[j] = <<q[j]>>
      BY <1>1, <3>1 DEF IsView
    <3>3. r[j] = q[j]
      BY <3>1 DEF IsSplice
    <3>4. h[j] = g[j]
      BY <3>1 DEF IsReplaced
    <3> QED
      BY <3>1, <3>2, <3>3, <3>4
  <2>2. CASE j = i /\ i # e
    <3>1. d[j] = i /\ d[j - 1] = i - 1
      BY <1>0, <1>61, <1>62, <1>63, <2>0, <2>2
    <3>2. r[i] = stub
      <4>1. 1 \in 1..w /\ (i - 1) + 1 = i
        BY <1>0
      <4>2. r[(i - 1) + 1] = t[1]
        BY <4>1 DEF IsSplice
      <4> QED
        BY <2>2, <4>1, <4>2 DEF IsTokens
    <3>3. h[j] = <<stub>>
      BY <2>2 DEF IsReplaced
    <3> QED
      BY <1>0, <2>2, <3>1, <3>2, <3>3
  <2>3. CASE i < j /\ j < e
    <3>1. d[j] = i /\ d[j - 1] = i
      BY <1>0, <1>61, <1>62, <1>63, <2>0, <2>3
    <3>2. h[j] = << >>
      <4>1. j \in (i + 1)..(e - 1)
        BY <1>0, <2>0, <2>3
      <4> QED
        BY <4>1 DEF IsReplaced
    <3> QED
      BY <3>1, <3>2
  <2>4. CASE j = e
    <3>1. d[e] = (i - 1) + w
      BY <1>0, <1>1, <1>61, <1>62, <1>63
    <3>2. d[e - 1] = (i - 1) + w - 1
      BY <1>0, <1>61, <1>62, <1>63, <2>0, <2>4
    <3>3. r[(i - 1) + w] = token
      <4>1. w \in 1..w
        BY <1>0
      <4> QED
        BY <4>1 DEF IsSplice, IsTokens
    <3>4. d[j] = d[j - 1] + 1
      BY <1>0, <2>4, <3>1, <3>2
    <3>5. h[j] = <<token>>
      BY <2>4 DEF IsReplaced
    <3> QED
      BY <2>4, <3>1, <3>3, <3>4, <3>5
  <2>5. CASE j > e
    <3>1. d[j] = c[j] - lost /\ d[j - 1] = c[j - 1] - lost
      BY <1>0, <1>61, <1>62, <1>63, <2>0, <2>5
    <3>2. c[j] \in Nat /\ c[j - 1] \in Nat /\ e <= c[j - 1] /\ c[j] <= Len(q)
      BY <1>0, <1>2, <2>0, <2>5
    <3>3. h[j] = g[j]
      <4>1. j \in (e + 1)..n
        BY <1>0, <2>0, <2>5
      <4> QED
        BY <4>1 DEF IsReplaced
    <3>4. CASE g[j] = << >> /\ c[j] = c[j - 1]
      BY <3>1, <3>3, <3>4
    <3>5. CASE c[j] = c[j - 1] + 1 /\ g[j] = <<q[c[j]]>>
      <4>1. d[j] = d[j - 1] + 1
        BY <1>0, <3>1, <3>2, <3>5
      <4> DEFINE k == c[j]
      <4>2. k \in (e + 1)..Len(q) /\ d[j] = (i - 1) + w + (k - e)
        <5>1. c[j] = c[j - 1] + 1
          BY <3>5
        <5>2. e + 1 <= c[j] /\ c[j] <= Len(q)
          BY <1>0, <3>2, <5>1
        <5>3. c[j] - lost = (i - 1) + w + (c[j] - e)
          BY <1>0, <3>2
        <5> QED
          BY <1>0, <1>3, <3>1, <3>2, <5>2, <5>3
      <4> HIDE DEF k
      <4>3. r[d[j]] = q[k]
        BY <4>2 DEF IsSplice
      <4> QED
        BY <3>3, <3>5, <4>1, <4>3 DEF k
    <3> QED
      BY <3>4, <3>5 DEF IsView
  <2> QED
    BY <1>0, <2>0, <2>1, <2>2, <2>3, <2>4, <2>5
<1>10. IsView(r, h, d, n)
  BY <1>8, <1>9 DEF IsView
<1> QED
  BY <1>10

-----------------------------------------------------------------------------
(***************************************************************************)
(* Matches are replaced one after another, patterns applied one after      *)
(* another.                                                                *)
(***************************************************************************)

\* gone is what the replacements of one pattern make of st, from the last piece on.
IsGone(gone, st, name, n) ==
    /\ gone[0] = st
    /\ \A k \in 1..n :
          gone[k] = ReplaceFrom(gone[k - 1], Matches(st.body, name), n - k + 1, name)

\* ApplyPattern replaces match after match.
LEMMA PatternSteps ==
  ASSUME NEW st, NEW name, NEW n \in Nat, n = Len(st.body)
  PROVE  \E gone : IsGone(gone, st, name, n) /\ ApplyPattern(st, name) = gone[n]
<1> DEFINE found == Matches(st.body, name)
           Upto(s, k) == s = [i \in 0..k |-> IF i = 0 THEN st
                                             ELSE ReplaceFrom(s[i - 1], found, n - i + 1, name)]
           A == {k \in Nat : \E s : Upto(s, k)}
<1> HIDE DEF found
<1>1. 0 \in A
  <2>1. Upto([i \in 0..0 |-> st], 0)
    OBVIOUS
  <2> QED
    BY <2>1
<1>2. ASSUME NEW k \in Nat, k \in A PROVE k + 1 \in A
  <2>1. PICK s : Upto(s, k)
    BY <1>2
  <2> DEFINE last == ReplaceFrom(s[k], found, n - (k + 1) + 1, name)
  <2> HIDE DEF last
  <2> DEFINE t == [i \in 0..(k + 1) |-> IF i = k + 1 THEN last ELSE s[i]]
  <2>2. /\ t[k + 1] = last /\ \A i \in 0..k : t[i] = s[i]
        /\ t = [i \in 0..(k + 1) |-> t[i]]
    OBVIOUS
  <2>3. s[0] = st /\ \A i \in 1..k : s[i] = ReplaceFrom(s[i - 1], found, n - i + 1, name)
    BY <2>1
  <2> HIDE DEF t, Upto
  <2>4. \A i \in 0..(k + 1) :
           t[i] = IF i = 0 THEN st ELSE ReplaceFrom(t[i - 1], found, n - i + 1, name)
    <3>1. t[0] = st
      BY <2>2, <2>3
    <3>2. ASSUME NEW i \in 1..k PROVE t[i] = ReplaceFrom(t[i - 1], found, n - i + 1, name)
      <4>1. i \in 0..k /\ i - 1 \in 0..k
        OBVIOUS
      <4> QED
        BY <2>2, <2>3, <4>1
    <3>3. t[k + 1] = ReplaceFrom(t[(k + 1) - 1], found, n - (k + 1) + 1, name)
      <4>1. (k + 1) - 1 = k /\ k \in 0..k
        OBVIOUS
      <4> QED
        BY <2>2, <4>1 DEF last
    <3>4. /\ \A i \in 0..(k + 1) : i = 0 \/ i \in 1..k \/ i = k + 1
          /\ k + 1 # 0 /\ \A i \in 1..k : i # 0
      OBVIOUS
    <3> QED
      BY <3>1, <3>2, <3>3, <3>4
  <2>5. Upto(t, k + 1)
    BY <2>2, <2>4 DEF Upto
  <2> QED
    BY <2>5
<1>3. \E s : Upto(s, n)
  <2>1. Nat \subseteq A
    <3> HIDE DEF A
    <3> QED
      BY <1>1, <1>2, SetInduction
  <2> QED
    BY <2>1
<1> DEFINE s == CHOOSE s : Upto(s, n)
<1>4. Upto(s, n) /\ ApplyPattern(st, name) = s[n]
  BY <1>3 DEF ApplyPattern, found
<1> HIDE DEF s
<1>5. IsGone(s, st, name, n)
  <2>1. 0 \in 0..n /\ \A k \in 1..n : k \in 0..n /\ k # 0
    OBVIOUS
  <2> QED
    BY <1>4, <2>1 DEF IsGone, found
<1> QED
  BY <1>4, <1>5

\* pass is what Scrub makes of b, pattern by pattern.
IsPass(pass, b) ==
    /\ pass[0] = [body |-> b, findings |-> << >>]
    /\ \A k \in 1..Len(Patterns) : pass[k] = ApplyPattern(pass[k - 1], Patterns[k])

\* Scrub applies pattern after pattern.
LEMMA ScrubSteps ==
  ASSUME NEW b
  PROVE  \E pass : /\ IsPass(pass, b)
                   /\ Scrub(b) = [body |-> pass[Len(Patterns)].body,
                                  findings |-> Reverse(pass[Len(Patterns)].findings)]
<1> DEFINE n == Len(Patterns)
           st == [body |-> b, findings |-> << >>]
           Upto(s, k) == s = [i \in 0..k |-> IF i = 0 THEN st
                                             ELSE ApplyPattern(s[i - 1], Patterns[i])]
           A == {k \in Nat : \E s : Upto(s, k)}
<1>0. n \in Nat
  BY DEF Patterns
<1> HIDE DEF n, st
<1>1. 0 \in A
  <2>1. Upto([i \in 0..0 |-> st], 0)
    OBVIOUS
  <2> QED
    BY <2>1
<1>2. ASSUME NEW k \in Nat, k \in A PROVE k + 1 \in A
  <2>1. PICK s : Upto(s, k)
    BY <1>2
  <2> DEFINE last == ApplyPattern(s[k], Patterns[k + 1])
  <2> HIDE DEF last
  <2> DEFINE t == [i \in 0..(k + 1) |-> IF i = k + 1 THEN last ELSE s[i]]
  <2>2. /\ t[k + 1] = last /\ \A i \in 0..k : t[i] = s[i]
        /\ t = [i \in 0..(k + 1) |-> t[i]]
    OBVIOUS
  <2>3. s[0] = st /\ \A i \in 1..k : s[i] = ApplyPattern(s[i - 1], Patterns[i])
    BY <2>1
  <2> HIDE DEF t, Upto
  <2>4. \A i \in 0..(k + 1) : t[i] = IF i = 0 THEN st ELSE ApplyPattern(t[i - 1], Patterns[i])
    <3>1. t[0] = st
      BY <2>2, <2>3
    <3>2. ASSUME NEW i \in 1..k PROVE t[i] = ApplyPattern(t[i - 1], Patterns[i])
      <4>1. i \in 0..k /\ i - 1 \in 0..k
        OBVIOUS
      <4> QED
        BY <2>2, <2>3, <4>1
    <3>3. t[k + 1] = ApplyPattern(t[(k + 1) - 1], Patterns[k + 1])
      <4>1. (k + 1) - 1 = k /\ k \in 0..k
        OBVIOUS
      <4> QED
        BY <2>2, <4>1 DEF last
    <3> QED
      BY <3>1, <3>2, <3>3
  <2>5. Upto(t, k + 1)
    BY <2>2, <2>4 DEF Upto
  <2> QED
    BY <2>5
<1>3. \E s : Upto(s, n)
  <2>1. Nat \subseteq A
    <3> HIDE DEF A
    <3> QED
      BY <1>1, <1>2, SetInduction
  <2> QED
    BY <1>0, <2>1
<1> DEFINE s == CHOOSE s : Upto(s, n)
<1>4. Upto(s, n) /\ Scrub(b) = [body |-> s[n].body, findings |-> Reverse(s[n].findings)]
  BY <1>3 DEF Scrub, n, st
<1> HIDE DEF s
<1>5. IsPass(s, b)
  <2>1. 0 \in 0..n /\ \A k \in 1..n : k \in 0..n /\ k # 0
    BY <1>0
  <2> QED
    BY <1>4, <2>1 DEF IsPass, n, st
<1> QED
  BY <1>4, <1>5 DEF n

-----------------------------------------------------------------------------
(***************************************************************************)
(* One pattern. Matches that do not overlap are replaced in place, from    *)
(* the last to the first.                                                  *)
(***************************************************************************)

\* The matches lie in the buffer and do not overlap.
Within(M, n) == \A s \in M : s[1] \in 1..n /\ s[2] \in s[1]..n

Disjoint(M) == \A s, t \in M : s # t => s[2] < t[1] \/ t[2] < s[1]

\* What the replacement of the matches M leaves of each piece of b.
Left(b, M, name, n) ==
    [i \in 1..n |-> IF \E s \in M : s[2] = i THEN <<Token(name)>>
                    ELSE IF \E s \in M : s[1] = i THEN <<Stub>>
                    ELSE IF \E s \in M : s[1] < i /\ i < s[2] THEN << >>
                    ELSE <<b[i]>>]

\* The matches that start behind piece p: those already replaced.
Beyond(M, p) == {s \in M : s[1] > p}

\* All matches are replaced in the end, none at first.
LEMMA BeyondAll ==
  ASSUME NEW n \in Nat, NEW M, Within(M, n)
  PROVE  Beyond(M, 0) = M /\ Beyond(M, n) = {}
BY DEF Beyond, Within

\* Where no match starts, there is nothing to replace.
LEMMA BeyondSame ==
  ASSUME NEW n \in Nat, NEW M, Within(M, n), NEW p \in 1..n, {s \in M : s[1] = p} = {}
  PROVE  Beyond(M, p - 1) = Beyond(M, p)
<1>1. \A s \in M : s[1] \in Nat /\ s[1] # p
  BY DEF Within
<1> QED
  BY <1>1 DEF Beyond

\* Where one starts, it is the only one, and those already replaced lie behind it.
LEMMA BeyondNext ==
  ASSUME NEW n \in Nat, NEW M, Within(M, n), Disjoint(M), NEW s \in M
  PROVE  /\ Beyond(M, s[1] - 1) = Beyond(M, s[1]) \cup {s}
         /\ s \notin Beyond(M, s[1])
         /\ \A t \in Beyond(M, s[1]) : s[2] < t[1] /\ t[1] <= t[2] /\ t[1] \in Nat /\ t[2] \in Nat
<1>1. \A t \in M : t[1] \in Nat /\ t[2] \in Nat /\ t[1] <= t[2]
  BY DEF Within
<1>2. \A t \in M : t[1] = s[1] => t = s
  <2> SUFFICES ASSUME NEW t \in M, t[1] = s[1], t # s PROVE FALSE
    OBVIOUS
  <2>1. s[2] < t[1] \/ t[2] < s[1]
    BY DEF Disjoint
  <2> QED
    BY <1>1, <2>1
<1>3. \A t \in M : t[1] > s[1] - 1 <=> t[1] > s[1] \/ t[1] = s[1]
  BY <1>1
<1>4. Beyond(M, s[1] - 1) = Beyond(M, s[1]) \cup {s}
  BY <1>2, <1>3 DEF Beyond
<1>5. s \notin Beyond(M, s[1])
  BY <1>1 DEF Beyond
<1>6. ASSUME NEW t \in Beyond(M, s[1]) PROVE s[2] < t[1]
  <2>1. t \in M /\ t[1] > s[1] /\ t # s
    BY <1>1, <1>6 DEF Beyond
  <2>2. s[2] < t[1] \/ t[2] < s[1]
    BY <2>1 DEF Disjoint
  <2> QED
    BY <1>1, <2>1, <2>2
<1> QED
  BY <1>1, <1>4, <1>5, <1>6 DEF Beyond

\* Replacing the match s does to Left what Replace does to the buffer.
LEMMA LeftReplaced ==
  ASSUME NEW n \in Nat, NEW M, Within(M, n), Disjoint(M), NEW s \in M, NEW b, NEW name
  PROVE  /\ Whole(Left(b, Beyond(M, s[1]), name, n), s[2])
         /\ IsReplaced(Left(b, Beyond(M, s[1] - 1), name, n), Left(b, Beyond(M, s[1]), name, n),
                       Stub, Token(name), s[1], s[2], n)
<1> DEFINE N == Beyond(M, s[1])
           i == s[1]
           e == s[2]
<1>1. i \in 1..n /\ e \in i..n /\ i \in Nat /\ e \in Nat /\ 1 <= i /\ i <= e /\ e <= n
  BY DEF Within
<1>2. Beyond(M, s[1] - 1) = N \cup {s} /\ s \notin N
      /\ \A t \in N : e < t[1] /\ t[1] <= t[2] /\ t[1] \in Nat /\ t[2] \in Nat
  BY BeyondNext
<1> DEFINE g == Left(b, N, name, n)
           h == Left(b, N \cup {s}, name, n)
<1>3. ASSUME NEW j \in 1..e
      PROVE  j \in 1..n /\ g[j] = <<b[j]>>
  <2>1. j \in 1..n /\ j \in Nat /\ j <= e
    BY <1>1
  <2>2. \A t \in N : t[2] # j /\ t[1] # j /\ ~(t[1] < j)
    BY <1>1, <1>2, <2>1
  <2> QED
    BY <2>1, <2>2 DEF Left
<1>4. Whole(g, e)
  <2>1. \A one : <<one>> # << >>
    OBVIOUS
  <2> QED
    BY <1>3, <2>1 DEF Whole
<1>5. e \in 1..n /\ i \in 1..n
  BY <1>1
<1>6. h[e] = <<Token(name)>>
  BY <1>5 DEF Left
<1>7. i # e => h[i] = <<Stub>>
  <2>1. i # e => \A t \in N \cup {s} : t[2] # i
    BY <1>1, <1>2
  <2> QED
    BY <1>5, <2>1 DEF Left
<1>8. ASSUME NEW j \in (i + 1)..(e - 1) PROVE h[j] = << >>
  <2>1. j \in 1..n /\ j \in Nat /\ i < j /\ j < e
    BY <1>1
  <2>2. \A t \in N \cup {s} : t[2] # j /\ t[1] # j
    BY <1>1, <1>2, <2>1
  <2> QED
    BY <2>1, <2>2 DEF Left
<1>9. ASSUME NEW j \in 1..n, j < i \/ e < j PROVE h[j] = g[j]
  <2>1. s[2] # j /\ s[1] # j /\ ~(s[1] < j /\ j < s[2])
    BY <1>1, <1>9
  <2> QED
    BY <2>1 DEF Left
<1>10. \A j \in 1..(i - 1) : j \in 1..n /\ j < i
  BY <1>1
<1>11. \A j \in (e + 1)..n : j \in 1..n /\ e < j
  BY <1>1
<1>12. IsReplaced(h, g, Stub, Token(name), i, e, n)
  <2> HIDE DEF h, g, i, e
  <2> QED
    BY <1>6, <1>7, <1>8, <1>9, <1>10, <1>11 DEF IsReplaced
<1> QED
  BY <1>2, <1>4, <1>12

\* st is the state before the pattern, M the matches that have been replaced in r.
Replaced(r, st, M, name, n, X, F) ==
    /\ r.body \in Seq(X) /\ r.findings \in Seq(F)
    /\ Len(r.findings) = Len(st.findings) + Cardinality(M)
    /\ \E c : IsView(r.body, Left(st.body, M, name, n), c, n)

\* One replacement (dlp.go:168) makes of the buffer what Left says, and adds a finding.
LEMMA ReplaceOne ==
  ASSUME NEW n \in Nat, NEW M, Within(M, n), Disjoint(M), IsFiniteSet(M), NEW s \in M,
         NEW X, NEW F, NEW name \in F, Stub \in X, Token(name) \in X,
         NEW st, Len(st.findings) \in Nat,
         NEW r, Replaced(r, st, Beyond(M, s[1]), name, n, X, F)
  PROVE  Replaced(Replace(r, s, name), st, Beyond(M, s[1] - 1), name, n, X, F)
<1> DEFINE i == s[1]
           e == s[2]
           b == st.body
           g == Left(b, Beyond(M, i), name, n)
           h == Left(b, Beyond(M, i - 1), name, n)
           q == r.body
           t == IF i = e THEN <<Token(name)>> ELSE <<Stub, Token(name)>>
           a == SubSeq(q, 1, i - 1) \o t \o SubSeq(q, e + 1, Len(q))
<1>0. Replace(r, s, name).body = a /\ Replace(r, s, name).findings = Append(r.findings, name)
  BY DEF Replace
<1>1. i \in 1..n /\ e \in i..n
  BY DEF Within
<1>2. Whole(g, e) /\ IsReplaced(h, g, Stub, Token(name), i, e, n)
  BY LeftReplaced
<1>3. t \in Seq(X) /\ IsTokens(t, Len(t), Stub, Token(name), i, e)
  BY DEF IsTokens
<1>4. PICK c : IsView(q, g, c, n)
  BY DEF Replaced
<1>5. q \in Seq(X)
  BY DEF Replaced
<1>6. Beyond(M, i - 1) = Beyond(M, i) \cup {s} /\ s \notin Beyond(M, i)
  BY BeyondNext
<1>7. Replace(r, s, name).findings \in Seq(F)
      /\ Len(Replace(r, s, name).findings) = Len(st.findings) + Cardinality(Beyond(M, i - 1))
  <2>1. r.findings \in Seq(F) /\ Len(r.findings) = Len(st.findings) + Cardinality(Beyond(M, i))
    BY DEF Replaced
  <2>2. IsFiniteSet(Beyond(M, i))
    BY FS_Subset DEF Beyond
  <2>3. Cardinality(Beyond(M, i - 1)) = Cardinality(Beyond(M, i)) + 1
        /\ Cardinality(Beyond(M, i)) \in Nat
    BY <1>6, <2>2, FS_AddElement, FS_CardinalityType
  <2>4. Append(r.findings, name) \in Seq(F) /\ Len(Append(r.findings, name)) = Len(r.findings) + 1
    BY <2>1
  <2> DEFINE new == Append(r.findings, name)
             few == Cardinality(Beyond(M, i))
             many == Cardinality(Beyond(M, i - 1))
             old == Len(st.findings)
             done == Len(r.findings)
             more == Len(new)
  <2>5. new \in Seq(F) /\ Replace(r, s, name).findings = new
    BY <1>0, <2>4
  <2>6. more = done + 1 /\ done = old + few /\ many = few + 1 /\ old \in Nat /\ few \in Nat
    BY <2>1, <2>3, <2>4
  <2> HIDE DEF new, few, many, old, done, more
  <2>7. more = old + many
    BY <2>6
  <2> QED
    BY <2>5, <2>7 DEF more, old, many
<1> HIDE DEF i, e, b, g, h, q, t
<1>8. e \in 1..Len(q) /\ i \in 1..Len(q) /\ e \in i..Len(q) /\ Len(q) \in Nat
  <2>1. e \in 0..n /\ n \in e..n /\ e \in Nat /\ i \in Nat /\ 1 <= i /\ i <= e
    BY <1>1
  <2>2. InPlace(c, e)
    BY <1>2, <1>4, <2>1, ViewPrefix DEF Whole
  <2>3. e \in 0..e
    BY <2>1
  <2>4. c[e] = e
    BY <2>2, <2>3 DEF InPlace
  <2>5. c[e] <= c[n]
    BY <1>4, <2>1, ViewMonotone
  <2>6. Len(q) = c[n] /\ Len(q) \in Nat
    BY <1>4, <1>5 DEF IsView
  <2> QED
    BY <2>1, <2>4, <2>5, <2>6
<1>9. a \in Seq(X) /\ IsSplice(a, q, t, Len(t), i, e)
  BY <1>3, <1>5, <1>8, Splice
<1>10. \E d : IsView(a, h, d, n)
  BY <1>1, <1>2, <1>3, <1>4, <1>9, SpliceIsView
<1> QED
  BY <1>0, <1>7, <1>9, <1>10 DEF Replaced, b, h, i

\* So does the step for any piece, whether a match starts there or not.
LEMMA ReplaceFromView ==
  ASSUME NEW n \in Nat, NEW M, Within(M, n), Disjoint(M), IsFiniteSet(M), NEW p \in 1..n,
         NEW X, NEW F, NEW name \in F, Stub \in X, Token(name) \in X,
         NEW st, Len(st.findings) \in Nat,
         NEW r, Replaced(r, st, Beyond(M, p), name, n, X, F)
  PROVE  Replaced(ReplaceFrom(r, M, p, name), st, Beyond(M, p - 1), name, n, X, F)
<1> DEFINE starting == {s \in M : s[1] = p}
<1>1. CASE starting = {}
  <2>1. Beyond(M, p - 1) = Beyond(M, p)
    BY <1>1, BeyondSame
  <2> QED
    BY <1>1, <2>1 DEF ReplaceFrom
<1>2. CASE starting # {}
  <2> DEFINE s == CHOOSE s \in starting : TRUE
  <2>1. s \in M /\ s[1] = p
    BY <1>2
  <2>2. ReplaceFrom(r, M, p, name) = Replace(r, s, name)
    BY <1>2 DEF ReplaceFrom
  <2> HIDE DEF s
  <2>3. Replaced(r, st, Beyond(M, s[1]), name, n, X, F)
    BY <2>1
  <2>4. Replaced(Replace(r, s, name), st, Beyond(M, s[1] - 1), name, n, X, F)
    BY <2>1, <2>3, ReplaceOne
  <2> QED
    BY <2>1, <2>2, <2>4
<1> QED
  BY <1>1, <1>2

\* One pattern replaces its matches and nothing else, and adds a finding for each.
LEMMA PatternReplaces ==
  ASSUME NEW X, NEW F, NEW name \in F, Stub \in X, Token(name) \in X,
         NEW st, st.body \in Seq(X), st.findings \in Seq(F),
         NEW M, M = Matches(st.body, name),
         NEW n, n = Len(st.body), Within(M, n), Disjoint(M), IsFiniteSet(M)
  PROVE  Replaced(ApplyPattern(st, name), st, M, name, n, X, F)
<1>0. n \in Nat /\ Len(st.findings) \in Nat
  OBVIOUS
<1>1. PICK gone : IsGone(gone, st, name, n) /\ ApplyPattern(st, name) = gone[n]
  BY <1>0, PatternSteps
<1> DEFINE Done(k) == Replaced(gone[k], st, Beyond(M, n - k), name, n, X, F)
           A == {k \in Nat : k <= n => Done(k)}
<1>2. Done(0)
  <2>1. gone[0] = st
    BY <1>1 DEF IsGone
  <2>2. n - 0 = n /\ Beyond(M, n) = {}
    BY <1>0, BeyondAll
  <2>3. Cardinality({}) = 0 /\ Len(st.findings) = Len(st.findings) + 0
    BY <1>0, FS_EmptySet
  <2> DEFINE g == Left(st.body, {}, name, n)
             c == [i \in 0..n |-> i]
  <2>4. \A i \in 1..n : g[i] = <<st.body[i]>>
    BY DEF Left
  <2>5. IsView(st.body, g, c, n)
    <3>1. c \in [0..n -> Nat] /\ c[0] = 0 /\ c[n] = n
      BY <1>0
    <3>2. \A i \in 1..n : c[i] = i /\ c[i - 1] + 1 = i
      BY <1>0
    <3> HIDE DEF c, g
    <3> QED
      BY <2>4, <3>1, <3>2 DEF IsView
  <2>6. Replaced(st, st, {}, name, n, X, F)
    BY <2>3, <2>5 DEF Replaced
  <2> QED
    BY <2>1, <2>2, <2>6
<1> HIDE DEF Done
<1>3. 0 \in A
  BY <1>2
<1>4. ASSUME NEW k \in Nat, k \in A PROVE k + 1 \in A
  <2> SUFFICES ASSUME k + 1 <= n PROVE Done(k + 1)
    OBVIOUS
  <2> DEFINE p == n - k
  <2>1. Done(k) /\ p \in 1..n /\ n - (k + 1) = p - 1 /\ k + 1 \in 1..n /\ (k + 1) - 1 = k
        /\ n - (k + 1) + 1 = p
    BY <1>0, <1>4
  <2>2. Replaced(gone[k], st, Beyond(M, p), name, n, X, F)
    BY <2>1 DEF Done
  <2> HIDE DEF p
  <2>3. gone[k + 1] = ReplaceFrom(gone[k], M, p, name)
    BY <1>1, <2>1 DEF IsGone
  <2>4. Replaced(ReplaceFrom(gone[k], M, p, name), st, Beyond(M, p - 1), name, n, X, F)
    BY <1>0, <2>1, <2>2, ReplaceFromView
  <2> QED
    BY <2>1, <2>3, <2>4 DEF Done
<1>5. Done(n)
  <2>1. Nat \subseteq A
    <3> HIDE DEF A
    <3> QED
      BY <1>3, <1>4, SetInduction
  <2> QED
    BY <1>0, <2>1
<1>6. n - n = 0 /\ Beyond(M, 0) = M
  BY <1>0, BeyondAll
<1> QED
  BY <1>1, <1>5, <1>6 DEF Done

\* Every match is a single piece, and is replaced where it stands.
OneForOne(r, st, M, name, n, X, F) ==
    /\ r.body \in Seq(X) /\ r.findings \in Seq(F)
    /\ Len(r.findings) = Len(st.findings) + Cardinality(M)
    /\ Len(r.body) = n
    /\ \A j \in 1..n : r.body[j] = IF <<j, j>> \in M THEN Token(name) ELSE st.body[j]

\* All matches are single pieces.
Single(M, n) == \A s \in M : \E j \in 1..n : s = <<j, j>>

\* A pattern whose matches are single pieces leaves all other pieces where they are.
LEMMA SingleMatches ==
  ASSUME NEW X, NEW F, NEW name \in F, Stub \in X, Token(name) \in X,
         NEW st, st.body \in Seq(X), st.findings \in Seq(F),
         NEW M, M = Matches(st.body, name),
         NEW n, n = Len(st.body), Single(M, n)
  PROVE  IsFiniteSet(M) /\ OneForOne(ApplyPattern(st, name), st, M, name, n, X, F)
<1> DEFINE r == ApplyPattern(st, name)
           g == Left(st.body, M, name, n)
<1>0. n \in Nat
  OBVIOUS
<1>1. Within(M, n)
  BY <1>0 DEF Within, Single
<1>2. Disjoint(M)
  <2> SUFFICES ASSUME NEW s \in M, NEW t \in M, s # t PROVE s[2] < t[1] \/ t[2] < s[1]
    BY DEF Disjoint
  <2>1. PICK j \in 1..n : s = <<j, j>>
    BY DEF Single
  <2>2. PICK k \in 1..n : t = <<k, k>>
    BY DEF Single
  <2> QED
    BY <1>0, <2>1, <2>2
<1>3. IsFiniteSet(M)
  <2>1. IsFiniteSet((1..n) \X (1..n))
    <3>1. 1 \in Int /\ n \in Int
      BY <1>0
    <3>2. IsFiniteSet(1..n)
      BY <3>1, FS_Interval
    <3> QED
      BY <3>2, FS_Product
  <2>2. M \subseteq (1..n) \X (1..n)
    BY DEF Single
  <2> QED
    BY <2>1, <2>2, FS_Subset
<1>4. Replaced(r, st, M, name, n, X, F)
  <2> HIDE DEF r
  <2> QED
    BY <1>1, <1>2, <1>3, PatternReplaces DEF r
<1> HIDE DEF r
<1>5. ASSUME NEW j \in 1..n
      PROVE  g[j] = IF <<j, j>> \in M THEN <<Token(name)>> ELSE <<st.body[j]>>
  <2>1. CASE <<j, j>> \in M
    BY <2>1 DEF Left
  <2>2. CASE <<j, j>> \notin M
    <3>1. ASSUME NEW s \in M PROVE s[2] # j /\ s[1] # j /\ ~(s[1] < j /\ j < s[2])
      <4>1. PICK k \in 1..n : s = <<k, k>>
        BY DEF Single
      <4> QED
        BY <1>0, <2>2, <4>1
    <3> QED
      BY <2>2, <3>1 DEF Left
  <2> QED
    BY <2>1, <2>2
<1> HIDE DEF g
<1>6. PICK c : IsView(r.body, g, c, n)
  BY <1>4 DEF Replaced, g
<1>7. n \in 0..n /\ n \in Nat
  BY <1>0
<1>8. InPlace(c, n)
  <2>1. \A one : <<one>> # << >>
    OBVIOUS
  <2>2. \A j \in 1..n : g[j] # << >>
    BY <1>5, <2>1
  <2> QED
    BY <1>6, <1>7, <2>2, ViewPrefix
<1>9. Len(r.body) = n
  BY <1>6, <1>7, <1>8 DEF InPlace, IsView
<1>10. ASSUME NEW j \in 1..n
       PROVE  r.body[j] = IF <<j, j>> \in M THEN Token(name) ELSE st.body[j]
  <2>1. c[j] = j
    BY <1>0, <1>8 DEF InPlace
  <2>2. g[j] # << >> /\ g[j] = IF <<j, j>> \in M THEN <<Token(name)>> ELSE <<st.body[j]>>
    <3>1. g[j] = IF <<j, j>> \in M THEN <<Token(name)>> ELSE <<st.body[j]>>
      BY <1>5
    <3>2. \A one : <<one>> # << >>
      OBVIOUS
    <3>3. g[j] # << >>
      BY <3>1, <3>2
    <3> QED
      BY <3>1, <3>3
  <2>3. g[j] = <<r.body[j]>>
    BY <1>6, <2>1, <2>2 DEF IsView
  <2> QED
    BY <2>2, <2>3
<1> QED
  BY <1>3, <1>4, <1>9, <1>10 DEF OneForOne, Replaced, r

-----------------------------------------------------------------------------
(***************************************************************************)
(* Counting, pieces and names.                                             *)
(***************************************************************************)

\* A one-to-one image has as many elements.
OneToOne(f, S, T) ==
    /\ \A x \in S : f[x] \in T
    /\ \A x, y \in S : f[x] = f[y] => x = y
    /\ \A z \in T : \E x \in S : f[x] = z

\* A set and its image have equally many elements.
LEMMA SameCount ==
  ASSUME NEW S, NEW T, IsFiniteSet(S), NEW f, f = [x \in S |-> f[x]], OneToOne(f, S, T)
  PROVE  IsFiniteSet(T) /\ Cardinality(T) = Cardinality(S)
<1>1. f \in Bijection(S, T)
  BY DEF OneToOne, Bijection, Injection, Surjection, IsInjective
<1>2. ExistsBijection(S, T)
  BY <1>1 DEF ExistsBijection
<1> QED
  BY <1>2, FS_Bijection

\* The elements of two disjoint sets add up.
LEMMA DisjointCount ==
  ASSUME NEW S, NEW T, IsFiniteSet(S), IsFiniteSet(T), S \cap T = {}
  PROVE  IsFiniteSet(S \cup T) /\ Cardinality(S \cup T) = Cardinality(S) + Cardinality(T)
<1>1. /\ IsFiniteSet(S \cup T)
      /\ Cardinality(S \cup T) = Cardinality(S) + Cardinality(T) - Cardinality(S \cap T)
  BY FS_Union
<1>2. Cardinality(S \cap T) = 0
  BY FS_EmptySet
<1>3. Cardinality(S) \in Nat /\ Cardinality(T) \in Nat
  BY FS_CardinalityType
<1> QED
  BY <1>1, <1>2, <1>3

(***************************************************************************)
(* Pieces and names.                                                       *)
(***************************************************************************)
PatternNames == {Patterns[k] : k \in 1..Len(Patterns)}

\* What the buffer holds.
Buffered == Pieces \cup {Stub} \cup {Token(name) : name \in PatternNames}

\* The patterns in their order (dlp.go:57-101).
LEMMA PatternFacts ==
  /\ Len(Patterns) = 10
  /\ Patterns[1] = "aws_access_key_id" /\ Patterns[2] = "aws_secret_access_key"
  /\ Patterns[3] = "ssh_private_key_header" /\ Patterns[4] = "pem_private_key"
  /\ Patterns[5] = "generic_api_key" /\ Patterns[6] = "bearer_token"
  /\ Patterns[7] = "us_ssn" /\ Patterns[8] = "credit_card"
  /\ Patterns[9] = "nexiscore_internal_uuid" /\ Patterns[10] = "private_key_pem_content"
BY DEF Patterns

\* What is known of a piece of a payload.
IsPiece(p) ==
    \/ p = Word
    \/ p = Gap
    \/ p = Labelled
    \/ /\ p.type = "secret" /\ p.name \in PatternNames
       /\ p.name = "credit_card" => p.digits \in Seq(0..9)

\* And it is known of all of them.
LEMMA PieceFacts ==
  ASSUME NEW p \in Pieces
  PROVE  IsPiece(p)
<1>1. CASE p \in {Word, Gap, Labelled}
  BY <1>1 DEF IsPiece
<1>2. CASE \E d \in DigitRuns : p = Number(d)
  <2>1. PICK d \in DigitRuns : p = Number(d)
    BY <1>2
  <2>2. p.type = "secret" /\ p.name = "credit_card" /\ p.digits = d
    BY <2>1 DEF Number
  <2>3. "credit_card" \in PatternNames
    BY PatternFacts DEF PatternNames
  <2>4. d \in Seq(0..9)
    BY <2>1, PayloadAssumption
  <2> QED
    BY <2>2, <2>3, <2>4 DEF IsPiece
<1>3. CASE \E k \in 1..Len(Patterns) : Patterns[k] # "credit_card" /\ p = Secret(Patterns[k])
  <2>1. PICK k \in 1..Len(Patterns) : Patterns[k] # "credit_card" /\ p = Secret(Patterns[k])
    BY <1>3
  <2>2. p.type = "secret" /\ p.name = Patterns[k]
    BY <2>1 DEF Secret
  <2> QED
    BY <2>1, <2>2 DEF IsPiece, PatternNames
<1> QED
  BY <1>1, <1>2, <1>3 DEF Pieces

-----------------------------------------------------------------------------
(***************************************************************************)
(* The first two patterns.                                                 *)
(***************************************************************************)

\* The buffer after the first pattern.
KeysGone(q, p, n) ==
    /\ q \in Seq(Buffered) /\ Len(q) = n
    /\ \A i \in 1..n : q[i] = IF IsSecret(p[i], "aws_access_key_id")
                              THEN Token("aws_access_key_id") ELSE p[i]

\* The secrets of one kind in a payload.
Keys(p, n, name) == {i \in 1..n : IsSecret(p[i], name)}

\* There are as many matches of one piece as pieces that match.
LEMMA PairsCount ==
  ASSUME NEW S, IsFiniteSet(S)
  PROVE  Cardinality({<<i, i>> : i \in S}) = Cardinality(S)
<1> DEFINE f == [i \in S |-> <<i, i>>]
           T == {<<i, i>> : i \in S}
<1>1. f = [i \in S |-> f[i]] /\ OneToOne(f, S, T)
  BY DEF OneToOne
<1> HIDE DEF f, T
<1> QED
  BY <1>1, SameCount DEF T

\* A buffer has finitely many pieces.
LEMMA SomePieces ==
  ASSUME NEW n \in Nat, NEW S, S \subseteq 1..n
  PROVE  IsFiniteSet(S)
<1>1. 1 \in Int /\ n \in Int
  OBVIOUS
<1>2. IsFiniteSet(1..n)
  BY <1>1, FS_Interval
<1> QED
  BY <1>2, FS_Subset

\* The tokens of all patterns may occur in the buffer.
LEMMA NamesAreNames ==
  ASSUME NEW k \in 1..Len(Patterns)
  PROVE  /\ Patterns[k] \in PatternNames /\ Stub \in Buffered /\ Token(Patterns[k]) \in Buffered
BY DEF PatternNames, Buffered

\* Nothing a payload holds is a token or a stub.
LEMMA Distinct ==
  ASSUME NEW p, IsPiece(p), NEW name
  PROVE  /\ p # Token(name) /\ p # Stub
         /\ Token(name) # Gap /\ Token(name) # Stub /\ Stub # Gap
         /\ ~IsSecret(Token(name), name) /\ ~IsSecret(Stub, name)
         /\ Token(name).type = "token" /\ Token(name).name = name
         /\ Stub.type = "stub" /\ Gap.type = "gap"
<1>1. Token(name).type = "token" /\ Stub.type = "stub" /\ Gap.type = "gap" /\ Word.type = "word"
      /\ Labelled.type = "labelled" /\ Token(name).name = name
  BY DEF Token, Stub, Gap, Word, Labelled
<1> QED
  BY <1>1 DEF IsPiece, IsSecret

\* The first pattern replaces all access keys and nothing else (dlp.go:59-62).
LEMMA FirstPass ==
  ASSUME NEW p \in Seq(Pieces), NEW n, n = Len(p),
         NEW r, r = ApplyPattern([body |-> p, findings |-> << >>], Patterns[1])
  PROVE  /\ KeysGone(r.body, p, n)
         /\ r.findings \in Seq(PatternNames)
         /\ Len(r.findings) = Cardinality(Keys(p, n, "aws_access_key_id"))
<1> DEFINE name == "aws_access_key_id"
           st == [body |-> p, findings |-> << >>]
           K == Keys(p, n, name)
           M == {<<i, i>> : i \in K}
<1>0. n \in Nat /\ Len(Patterns) = 10 /\ Patterns[1] = name /\ 1 \in 1..Len(Patterns)
  BY PatternFacts
<1>1. st.body = p /\ st.findings = << >> /\ st.findings \in Seq(PatternNames)
      /\ Len(st.findings) = 0
  OBVIOUS
<1>2. st.body \in Seq(Buffered) /\ Len(st.body) = n
  <2>1. Pieces \subseteq Buffered
    BY DEF Buffered
  <2> QED
    BY <1>1, <2>1
<1>3. Matches(p, name) = M
  BY DEF Matches, Keys
<1>4. Single(M, n)
  BY DEF Single, Keys
<1>5. name \in PatternNames /\ Stub \in Buffered /\ Token(name) \in Buffered
  BY <1>0, NamesAreNames
<1>6. K \subseteq 1..n
  BY DEF Keys
<1> HIDE DEF K, M, st, name
<1>7. OneForOne(ApplyPattern(st, name), st, M, name, n, Buffered, PatternNames)
  BY <1>1, <1>2, <1>3, <1>4, <1>5, SingleMatches
<1>8. Cardinality(M) = Cardinality(K) /\ Cardinality(K) \in Nat
  <2>1. IsFiniteSet(K)
    BY <1>0, <1>6, SomePieces
  <2> QED
    BY <2>1, PairsCount, FS_CardinalityType DEF M
<1>9. r = ApplyPattern(st, name)
  BY <1>0 DEF st
<1>10. Len(r.findings) = 0 + Cardinality(M)
  BY <1>1, <1>7, <1>9 DEF OneForOne
<1>11. \A i \in 1..n : <<i, i>> \in M <=> IsSecret(p[i], name)
  BY DEF M, K, Keys
<1>12. \A i \in 1..n : r.body[i] = IF IsSecret(p[i], name) THEN Token(name) ELSE p[i]
  BY <1>1, <1>7, <1>9, <1>11 DEF OneForOne
<1>13. r.body \in Seq(Buffered) /\ Len(r.body) = n /\ r.findings \in Seq(PatternNames)
  BY <1>7, <1>9 DEF OneForOne
<1>14. Len(r.findings) = Cardinality(K)
  BY <1>8, <1>10
<1> QED
  BY <1>12, <1>13, <1>14 DEF KeysGone, K, name

\* How far aws.{0,20}secret spans (dlp.go:65).
LEMMA ReachFacts ==
  ASSUME NEW x
  PROVE  /\ x.type = "labelled" => Reach(x) = 5
         /\ x.type # "labelled" /\ IsSecret(x, "aws_secret_access_key") => Reach(x) = 1
         /\ x.type # "labelled" /\ ~IsSecret(x, "aws_secret_access_key") => Reach(x) = -1
<1>1. x.type = "labelled" => Reach(x) = 5
  BY DEF Reach, IsSecret
<1>2. x.type # "labelled" /\ IsSecret(x, "aws_secret_access_key") => Reach(x) = 1
  BY DEF Reach
<1>3. x.type # "labelled" /\ ~IsSecret(x, "aws_secret_access_key") => Reach(x) = -1
  BY Zenon DEF Reach
<1> QED
  BY <1>1, <1>2, <1>3

\* Only a labelled key or an AWS secret can be reached.
Reachable(x) == x.type = "labelled" \/ IsSecret(x, "aws_secret_access_key")

\* p is a payload of n pieces.
IsPayload(p, n) == n \in Nat /\ p \in Seq(Pieces) /\ Len(p) = n /\ \A i \in 1..n : IsPiece(p[i])

\* Every sequence of pieces is one.
LEMMA PayloadFacts ==
  ASSUME NEW p \in Seq(Pieces)
  PROVE  IsPayload(p, Len(p))
<1>1. \A i \in 1..Len(p) : p[i] \in Pieces
  OBVIOUS
<1> QED
  BY <1>1, PieceFacts DEF IsPayload

\* What an access key reaches, and what lies between.
LEMMA EatsFacts ==
  ASSUME NEW p, NEW n, IsPayload(p, n), NEW k \in 1..n, NEW i \in 1..n, EatsKeyAt(p, k, i)
  PROVE  /\ k < i /\ IsSecret(p[k], "aws_access_key_id") /\ Reachable(p[i])
         /\ \A m \in 1..n : k < m /\ m < i => p[m] = Gap
<1>1. k \in Nat /\ i \in Nat /\ k < i /\ i - k - 1 >= 0
  BY DEF EatsKeyAt, IsPayload
<1>2. i - k - 1 <= Reach(p[i])
  BY DEF EatsKeyAt
<1>3. Reach(p[i]) # -1
  BY <1>1, <1>2
<1>4. Reachable(p[i])
  BY <1>3, ReachFacts DEF Reachable
<1>5. \A m \in 1..n : k < m /\ m < i => m \in (k + 1)..(i - 1)
  BY <1>1
<1> QED
  BY <1>1, <1>4, <1>5 DEF EatsKeyAt

\* The first pattern changes nothing of what the second looks at but the access keys.
LEMMA KeysGoneFacts ==
  ASSUME NEW p, NEW n, IsPayload(p, n), NEW q, KeysGone(q, p, n), NEW k \in 1..n
  PROVE  /\ q[k] = Token("aws_access_key_id") <=> IsSecret(p[k], "aws_access_key_id")
         /\ q[k] = Gap <=> p[k] = Gap
         /\ Reach(q[k]) = Reach(p[k])
         /\ IsSecret(q[k], "aws_secret_access_key") <=> IsSecret(p[k], "aws_secret_access_key")
         /\ Reachable(q[k]) <=> Reachable(p[k])
<1> DEFINE key == "aws_access_key_id"
<1>1. IsPiece(p[k])
  BY DEF IsPayload
<1>2. /\ p[k] # Token(key) /\ Token(key) # Gap /\ Token(key).type = "token" /\ Gap.type = "gap"
  BY <1>1, Distinct
<1>3. CASE IsSecret(p[k], key)
  <2>1. q[k] = Token(key)
    BY <1>3 DEF KeysGone
  <2>2. p[k].type = "secret" /\ p[k].name = key
    BY <1>3 DEF IsSecret
  <2>3. Reach(q[k]) = -1 /\ Reach(p[k]) = -1
    BY <1>2, <2>1, <2>2, ReachFacts DEF IsSecret
  <2> QED
    BY <1>2, <1>3, <2>1, <2>2, <2>3 DEF IsSecret, Reachable
<1>4. CASE ~IsSecret(p[k], key)
  <2>1. q[k] = p[k]
    BY <1>4 DEF KeysGone
  <2> QED
    BY <1>2, <1>4, <2>1
<1> QED
  BY <1>3, <1>4

\* The second pattern spans from the tokens of access keys, so from where those were.
LEMMA SpansAreEats ==
  ASSUME NEW p, NEW n, IsPayload(p, n), NEW q, KeysGone(q, p, n),
         NEW k \in 1..n, NEW i \in 1..n
  PROVE  k < i /\ Spans(q, k, i) <=> EatsKeyAt(p, k, i)
<1>1. \A m \in (k + 1)..(i - 1) : m \in 1..n
  BY DEF IsPayload
<1>2. (\A m \in (k + 1)..(i - 1) : q[m] = Gap) <=> (\A m \in (k + 1)..(i - 1) : p[m] = Gap)
  <2>1. \A m \in (k + 1)..(i - 1) : q[m] = Gap <=> p[m] = Gap
    BY <1>1, KeysGoneFacts
  <2> QED
    BY <2>1
<1>3. q[k] = Token("aws_access_key_id") <=> IsSecret(p[k], "aws_access_key_id")
  BY KeysGoneFacts
<1>4. Reach(q[i]) = Reach(p[i])
  BY KeysGoneFacts
<1> QED
  BY <1>2, <1>3, <1>4 DEF Spans, EatsKeyAt

\* The pattern of dlp.go:63-66.
AwsSecret == "aws_secret_access_key"

\* The matches of the second pattern, read off the payload: what access keys reach, and
\* the secrets they do not.
IsSecond(M, p, n) ==
    \A s : s \in M <=>
       \/ /\ s \in (1..n) \X (1..n)
          /\ EatsKeyAt(p, s[1], s[2])
       \/ \E i \in 1..n : s = <<i, i>> /\ IsSecret(p[i], AwsSecret) /\ ~EatsKey(p, i)

\* These are what FindAllIndex finds in the buffer (dlp.go:143).
LEMMA SecondMatches ==
  ASSUME NEW p, NEW n, IsPayload(p, n), NEW q, KeysGone(q, p, n)
  PROVE  IsSecond(Matches(q, AwsSecret), p, n)
<1> DEFINE M == Matches(q, AwsSecret)
           plain == {i \in 1..n : IsSecret(q[i], AwsSecret)}
<1>1. Len(q) = n /\ Len(p) = n
  BY DEF KeysGone, IsPayload
<1>2. M = Eaten(q) \cup {<<i, i>> : i \in {j \in plain : \A s \in Eaten(q) : s[2] # j}}
  BY <1>1 DEF Matches, AwsSecret
<1>3. \A s : s \in Eaten(q) <=> s \in (1..n) \X (1..n) /\ EatsKeyAt(p, s[1], s[2])
  <2>1. \A s : s \in Eaten(q) <=> s \in (1..n) \X (1..n) /\ s[1] < s[2] /\ Spans(q, s[1], s[2])
    BY <1>1 DEF Eaten
  <2> SUFFICES ASSUME NEW s, s \in (1..n) \X (1..n)
               PROVE  s[1] < s[2] /\ Spans(q, s[1], s[2]) <=> EatsKeyAt(p, s[1], s[2])
    BY <2>1
  <2>2. s[1] \in 1..n /\ s[2] \in 1..n
    OBVIOUS
  <2> QED
    BY <2>2, SpansAreEats
<1>4. \A i \in 1..n : i \in plain <=> IsSecret(p[i], AwsSecret)
  BY KeysGoneFacts DEF AwsSecret
<1>5. \A i \in 1..n : (\A s \in Eaten(q) : s[2] # i) <=> ~EatsKey(p, i)
  <2> SUFFICES ASSUME NEW i \in 1..n
               PROVE  (\E s \in Eaten(q) : s[2] = i) <=> \E k \in 1..n : EatsKeyAt(p, k, i)
    BY <1>1 DEF EatsKey
  <2>1. ASSUME NEW s \in Eaten(q), s[2] = i PROVE \E k \in 1..n : EatsKeyAt(p, k, i)
    <3>1. s[1] \in 1..n /\ EatsKeyAt(p, s[1], i)
      BY <1>3, <2>1
    <3> QED
      BY <3>1
  <2>2. ASSUME NEW k \in 1..n, EatsKeyAt(p, k, i) PROVE \E s \in Eaten(q) : s[2] = i
    <3> DEFINE s == <<k, i>>
    <3>1. s \in (1..n) \X (1..n) /\ s[1] = k /\ s[2] = i
      OBVIOUS
    <3> HIDE DEF s
    <3>2. s \in Eaten(q)
      BY <1>3, <2>2, <3>1
    <3> QED
      BY <3>1, <3>2
  <2> QED
    BY <2>1, <2>2
<1>6. \A s : (\E i \in {j \in plain : \A t \in Eaten(q) : t[2] # j} : s = <<i, i>>)
         <=> (\E i \in 1..n : s = <<i, i>> /\ IsSecret(p[i], AwsSecret) /\ ~EatsKey(p, i))
  <2>1. \A i : i \in {j \in plain : \A t \in Eaten(q) : t[2] # j}
          <=> i \in 1..n /\ IsSecret(p[i], AwsSecret) /\ ~EatsKey(p, i)
    BY <1>4, <1>5
  <2> QED
    BY <2>1
<1>7. \A s : s \in M <=> \/ s \in Eaten(q)
                         \/ \E i \in {j \in plain : \A t \in Eaten(q) : t[2] # j} : s = <<i, i>>
  BY <1>2
<1> HIDE DEF M, plain
<1> QED
  BY <1>3, <1>6, <1>7 DEF IsSecond, M

\* The pattern of dlp.go:59-62.
AwsKey == "aws_access_key_id"

\* A piece is reached, reaches, lies between, or none of these.
Reaches(p, n, i) == \E k \in 1..n : EatsKeyAt(p, i, k)
Between(p, n, i) == \E k, m \in 1..n : k < i /\ i < m /\ EatsKeyAt(p, k, m)

\* A piece is one of these at most.
LEMMA KindFacts ==
  ASSUME NEW p, NEW n, IsPayload(p, n), NEW i \in 1..n
  PROVE  /\ Reaches(p, n, i) => IsSecret(p[i], AwsKey)
         /\ EatsKey(p, i) => Reachable(p[i])
         /\ Between(p, n, i) => p[i] = Gap
         /\ IsSecret(p[i], AwsKey) => ~EatsKey(p, i)
         /\ p[i] = Gap => ~EatsKey(p, i) /\ ~Reaches(p, n, i)
<1>1. Reaches(p, n, i) => IsSecret(p[i], AwsKey)
  BY EatsFacts DEF Reaches, AwsKey
<1>2. EatsKey(p, i) => Reachable(p[i])
  <2>1. Len(p) = n
    BY DEF IsPayload
  <2> QED
    BY <2>1, EatsFacts DEF EatsKey
<1>3. Between(p, n, i) => p[i] = Gap
  BY EatsFacts DEF Between
<1>4. ~(IsSecret(p[i], AwsKey) /\ Reachable(p[i]))
  BY DEF IsSecret, Reachable, AwsKey
<1>5. p[i] = Gap => ~Reachable(p[i]) /\ ~IsSecret(p[i], AwsKey)
  BY DEF Gap, Reachable, IsSecret
<1> QED
  BY <1>1, <1>2, <1>3, <1>4, <1>5

\* The matches of the second pattern do not overlap: between an access key and what it
\* reaches there are gaps only.
LEMMA SecondApart ==
  ASSUME NEW p, NEW n, IsPayload(p, n), NEW M, IsSecond(M, p, n)
  PROVE  Within(M, n) /\ Disjoint(M) /\ IsFiniteSet(M)
<1> DEFINE Eats(s) == s[1] \in 1..n /\ s[2] \in 1..n /\ EatsKeyAt(p, s[1], s[2])
           Plain(s) == \E i \in 1..n : s = <<i, i>> /\ IsSecret(p[i], AwsSecret) /\ ~EatsKey(p, i)
<1>0. n \in Nat /\ Len(p) = n
  BY DEF IsPayload
<1>1. \A s \in M : Eats(s) \/ Plain(s)
  BY DEF IsSecond
<1>2. ASSUME NEW s, Eats(s)
      PROVE  /\ s[1] \in 1..n /\ s[2] \in 1..n /\ s[1] < s[2]
             /\ IsSecret(p[s[1]], AwsKey) /\ Reachable(p[s[2]]) /\ EatsKey(p, s[2])
             /\ \A m \in 1..n : s[1] < m /\ m < s[2] => p[m] = Gap
  BY <1>0, <1>2, EatsFacts DEF AwsKey, EatsKey
<1>3. ASSUME NEW s, Plain(s)
      PROVE  s[1] \in 1..n /\ s[2] = s[1] /\ IsSecret(p[s[1]], AwsSecret) /\ ~EatsKey(p, s[2])
  BY <1>3
<1>4. ASSUME NEW x
      PROVE  /\ ~(x = Gap /\ Reachable(x)) /\ ~(x = Gap /\ IsSecret(x, AwsKey))
             /\ ~(x = Gap /\ IsSecret(x, AwsSecret))
             /\ ~(IsSecret(x, AwsKey) /\ Reachable(x))
             /\ ~(IsSecret(x, AwsKey) /\ IsSecret(x, AwsSecret))
  BY DEF Gap, Reachable, IsSecret, AwsKey, AwsSecret
<1>5. \A s, t : Plain(s) /\ Plain(t) /\ s # t => s[1] # t[1]
  OBVIOUS
<1>6. \A s, t \in M : Eats(s) /\ Eats(t) /\ s[1] = t[1] /\ s[2] = t[2] => s = t
  BY <1>3 DEF IsSecond
<1> HIDE DEF Eats, Plain
<1>7. ASSUME NEW s, NEW t, Eats(s), Eats(t)
      PROVE  (s[1] = t[1] /\ s[2] = t[2]) \/ s[2] < t[1] \/ t[2] < s[1]
  <2>1. ASSUME NEW u, NEW v, Eats(u), Eats(v), u[1] = v[1], u[2] < v[2] PROVE FALSE
    <3>1. p[u[2]] = Gap /\ Reachable(p[u[2]])
      BY <1>2, <2>1
    <3> QED
      BY <1>4, <3>1
  <2>2. ASSUME NEW u, NEW v, Eats(u), Eats(v), u[1] < v[1] PROVE u[2] < v[1]
    <3> SUFFICES ASSUME ~(u[2] < v[1]) PROVE FALSE
      OBVIOUS
    <3>1. u[2] \in 1..n /\ v[1] \in 1..n /\ u[1] \in 1..n
      BY <1>2, <2>2
    <3>2. CASE u[2] = v[1]
      BY <1>2, <1>4, <2>2, <3>2
    <3>3. CASE v[1] < u[2]
      <4>1. p[v[1]] = Gap /\ IsSecret(p[v[1]], AwsKey)
        BY <1>2, <2>2, <3>1, <3>3
      <4> QED
        BY <1>4, <4>1
    <3> QED
      BY <1>0, <3>1, <3>2, <3>3
  <2>3. s[1] \in Nat /\ t[1] \in Nat /\ s[2] \in Nat /\ t[2] \in Nat
    BY <1>0, <1>2, <1>7
  <2>4. CASE s[1] < t[1]
    BY <1>7, <2>2, <2>4
  <2>5. CASE t[1] < s[1]
    BY <1>7, <2>2, <2>5
  <2>6. CASE s[1] = t[1]
    <3>1. ~(s[2] < t[2]) /\ ~(t[2] < s[2])
      BY <1>7, <2>1, <2>6
    <3> QED
      BY <2>3, <2>6, <3>1
  <2> QED
    BY <2>3, <2>4, <2>5, <2>6
<1>8. ASSUME NEW s, NEW t, Eats(s), Plain(t)
      PROVE  s[2] < t[1] \/ t[2] < s[1]
  <2>1. s[1] \in 1..n /\ t[1] \in 1..n /\ s[2] \in 1..n /\ t[2] = t[1]
    BY <1>2, <1>3, <1>8
  <2>2. t[1] # s[1]
    BY <1>2, <1>3, <1>4, <1>8
  <2>3. t[1] # s[2]
    BY <1>2, <1>3, <1>8
  <2>4. ~(s[1] < t[1] /\ t[1] < s[2])
    BY <1>2, <1>3, <1>4, <1>8
  <2> QED
    BY <1>0, <2>1, <2>2, <2>3, <2>4
<1>9. ASSUME NEW s, NEW t, Plain(s), Plain(t), s # t
      PROVE  s[2] < t[1] \/ t[2] < s[1]
  <2>1. s[1] \in 1..n /\ t[1] \in 1..n /\ s[2] = s[1] /\ t[2] = t[1] /\ s[1] # t[1]
    BY <1>3, <1>5, <1>9
  <2> QED
    BY <1>0, <2>1
<1>10. Within(M, n)
  <2> SUFFICES ASSUME NEW s \in M PROVE s[1] \in 1..n /\ s[2] \in s[1]..n
    BY DEF Within
  <2>1. CASE Eats(s)
    BY <1>0, <1>2, <2>1
  <2>2. CASE Plain(s)
    BY <1>0, <1>3, <2>2
  <2> QED
    BY <1>1, <2>1, <2>2
<1>11. Disjoint(M)
  <2> SUFFICES ASSUME NEW s \in M, NEW t \in M, s # t PROVE s[2] < t[1] \/ t[2] < s[1]
    BY DEF Disjoint
  <2> QED
    BY <1>1, <1>6, <1>7, <1>8, <1>9
<1>12. IsFiniteSet(M)
  <2>1. M \subseteq (1..n) \X (1..n)
    BY DEF IsSecond
  <2>2. 1 \in Int /\ n \in Int
    BY <1>0
  <2>3. IsFiniteSet(1..n)
    BY <2>2, FS_Interval
  <2>4. IsFiniteSet((1..n) \X (1..n))
    BY <2>3, FS_Product
  <2> QED
    BY <2>1, <2>4, FS_Subset
<1> QED
  BY <1>10, <1>11, <1>12

-----------------------------------------------------------------------------
(***************************************************************************)
(* What the first patterns leave of a payload.                             *)
(***************************************************************************)

\* The names of the first r patterns.
First(r) == {Patterns[k] : k \in 1..r}

\* A secret that is to be redacted and whose pattern is one of the first r.
Found(p, i, r) == Redacted(p, i) /\ p[i].type = "secret" /\ p[i].name \in First(r)

\* What the first r >= 2 patterns leave of each piece of the payload.
Stage(p, n, r) ==
    [i \in 1..n |-> IF Reaches(p, n, i) THEN <<Stub>>
                    ELSE IF EatsKey(p, i) THEN <<Token(AwsSecret)>>
                    ELSE IF Between(p, n, i) THEN << >>
                    ELSE IF Found(p, i, r) THEN <<Token(p[i].name)>>
                    ELSE <<p[i]>>]

\* What they have found.
Gone(p, n, r) == {i \in 1..n : EatsKey(p, i) \/ Found(p, i, r)}

\* A secret that is no number is always redacted.
LEMMA KeyIsRedacted ==
  ASSUME NEW p, NEW i, p[i].type = "secret", ~Numeric(p[i])
  PROVE  Redacted(p, i)
BY DEF Redacted, Numeric

\* The first two patterns find keys, which are always redacted.
LEMMA FirstTwo ==
  ASSUME NEW p, NEW n, IsPayload(p, n), NEW i \in 1..n
  PROVE  Found(p, i, 2) <=> IsSecret(p[i], AwsKey) \/ IsSecret(p[i], AwsSecret)
<1>1. First(2) = {AwsKey, AwsSecret}
  BY PatternFacts DEF First, AwsKey, AwsSecret
<1>2. IsSecret(p[i], AwsKey) \/ IsSecret(p[i], AwsSecret) => Redacted(p, i)
  BY KeyIsRedacted DEF IsSecret, Numeric, AwsKey, AwsSecret
<1> QED
  BY <1>1, <1>2 DEF Found, IsSecret

\* The first two patterns leave what Stage says.
LEMMA SecondLeft ==
  ASSUME NEW p, NEW n, IsPayload(p, n), NEW q, KeysGone(q, p, n),
         NEW M, IsSecond(M, p, n)
  PROVE  Left(q, M, AwsSecret, n) = Stage(p, n, 2)
<1> SUFFICES ASSUME NEW i \in 1..n PROVE Left(q, M, AwsSecret, n)[i] = Stage(p, n, 2)[i]
  BY DEF Left, Stage
<1> DEFINE ends == \E s \in M : s[2] = i
           starts == \E s \in M : s[1] = i
           inside == \E s \in M : s[1] < i /\ i < s[2]
<1>0. n \in Nat /\ Len(p) = n
  BY DEF IsPayload
<1>1. ends <=> EatsKey(p, i) \/ IsSecret(p[i], AwsSecret)
  <2>1. ASSUME NEW s \in M, s[2] = i PROVE EatsKey(p, i) \/ IsSecret(p[i], AwsSecret)
    BY <1>0, <2>1 DEF IsSecond, EatsKey
  <2>2. ASSUME EatsKey(p, i) PROVE ends
    <3>1. PICK k \in 1..n : EatsKeyAt(p, k, i)
      BY <1>0, <2>2 DEF EatsKey
    <3> DEFINE s == <<k, i>>
    <3>2. s \in (1..n) \X (1..n) /\ s[1] = k /\ s[2] = i
      OBVIOUS
    <3> HIDE DEF s
    <3>3. s \in M
      BY <3>1, <3>2 DEF IsSecond
    <3> QED
      BY <3>2, <3>3
  <2>3. ASSUME ~EatsKey(p, i), IsSecret(p[i], AwsSecret) PROVE ends
    <3> DEFINE s == <<i, i>>
    <3>1. s \in M
      BY <2>3 DEF IsSecond
    <3>2. s[2] = i
      OBVIOUS
    <3> HIDE DEF s
    <3> QED
      BY <3>1, <3>2
  <2> QED
    BY <2>1, <2>2, <2>3
<1>2. ~ends => (starts <=> Reaches(p, n, i))
  <2>1. ASSUME NEW s \in M, s[1] = i, ~ends PROVE Reaches(p, n, i)
    <3>1. CASE s \in (1..n) \X (1..n) /\ EatsKeyAt(p, s[1], s[2])
      BY <2>1, <3>1 DEF Reaches
    <3>2. CASE \E j \in 1..n : s = <<j, j>>
      BY <2>1, <3>2
    <3> QED
      BY <3>1, <3>2 DEF IsSecond
  <2>2. ASSUME Reaches(p, n, i) PROVE starts
    <3>1. PICK k \in 1..n : EatsKeyAt(p, i, k)
      BY <2>2 DEF Reaches
    <3> DEFINE s == <<i, k>>
    <3>2. s \in (1..n) \X (1..n) /\ s[1] = i /\ s[2] = k
      OBVIOUS
    <3> HIDE DEF s
    <3>3. s \in M
      BY <3>1, <3>2 DEF IsSecond
    <3> QED
      BY <3>2, <3>3
  <2> QED
    BY <2>1, <2>2
<1>3. inside <=> Between(p, n, i)
  <2>1. ASSUME NEW s \in M, s[1] < i, i < s[2] PROVE Between(p, n, i)
    <3>1. CASE s \in (1..n) \X (1..n) /\ EatsKeyAt(p, s[1], s[2])
      BY <2>1, <3>1 DEF Between
    <3>2. CASE \E j \in 1..n : s = <<j, j>>
      BY <1>0, <2>1, <3>2
    <3> QED
      BY <3>1, <3>2 DEF IsSecond
  <2>2. ASSUME Between(p, n, i) PROVE inside
    <3>1. PICK k \in 1..n, m \in 1..n : k < i /\ i < m /\ EatsKeyAt(p, k, m)
      BY <2>2 DEF Between
    <3> DEFINE s == <<k, m>>
    <3>2. s \in (1..n) \X (1..n) /\ s[1] = k /\ s[2] = m
      OBVIOUS
    <3> HIDE DEF s
    <3>3. s \in M
      BY <3>1, <3>2 DEF IsSecond
    <3> QED
      BY <3>1, <3>2, <3>3
  <2> QED
    BY <2>1, <2>2
<1>4. Left(q, M, AwsSecret, n)[i] = IF ends THEN <<Token(AwsSecret)>> ELSE IF starts THEN <<Stub>>
                                    ELSE IF inside THEN << >> ELSE <<q[i]>>
  BY DEF Left
<1>5. Stage(p, n, 2)[i] = IF Reaches(p, n, i) THEN <<Stub>>
                          ELSE IF EatsKey(p, i) THEN <<Token(AwsSecret)>>
                          ELSE IF Between(p, n, i) THEN << >>
                          ELSE IF Found(p, i, 2) THEN <<Token(p[i].name)>> ELSE <<p[i]>>
  BY DEF Stage
<1> HIDE DEF ends, starts, inside
<1>6. /\ Reaches(p, n, i) => IsSecret(p[i], AwsKey)
      /\ Between(p, n, i) => p[i] = Gap
      /\ IsSecret(p[i], AwsKey) => ~EatsKey(p, i)
      /\ p[i] = Gap => ~EatsKey(p, i) /\ ~Reaches(p, n, i)
  BY KindFacts
<1>7. /\ ~(IsSecret(p[i], AwsKey) /\ IsSecret(p[i], AwsSecret))
      /\ p[i] = Gap => ~IsSecret(p[i], AwsSecret)
      /\ IsSecret(p[i], AwsKey) => p[i].name = AwsKey
      /\ IsSecret(p[i], AwsSecret) => p[i].name = AwsSecret
  BY DEF IsSecret, AwsKey, AwsSecret, Gap
<1>8. Found(p, i, 2) <=> IsSecret(p[i], AwsKey) \/ IsSecret(p[i], AwsSecret)
  BY FirstTwo
<1>9. q[i] = IF IsSecret(p[i], AwsKey) THEN Token(AwsKey) ELSE p[i]
  BY DEF KeysGone, AwsKey
<1>10. CASE ends
  <2>1. ~Reaches(p, n, i) /\ ~Between(p, n, i)
    BY <1>1, <1>6, <1>7, <1>10
  <2>2. CASE EatsKey(p, i)
    BY <1>4, <1>5, <1>10, <2>1, <2>2
  <2>3. CASE ~EatsKey(p, i)
    <3>1. IsSecret(p[i], AwsSecret)
      BY <1>1, <1>10, <2>3
    <3> QED
      BY <1>4, <1>5, <1>7, <1>8, <1>10, <2>1, <2>3, <3>1
  <2> QED
    BY <2>2, <2>3
<1>11. CASE ~ends
  <2>1. ~EatsKey(p, i) /\ ~IsSecret(p[i], AwsSecret) /\ (starts <=> Reaches(p, n, i))
    BY <1>1, <1>2, <1>11
  <2> QED
    BY <1>3, <1>4, <1>5, <1>7, <1>8, <1>9, <1>11, <2>1
<1> QED
  BY <1>10, <1>11

\* The state after the first r >= 2 patterns.
AfterPass(s, p, n, r) ==
    /\ s.body \in Seq(Buffered) /\ s.findings \in Seq(PatternNames)
    /\ Len(s.findings) = Cardinality(Gone(p, n, r))
    /\ \E c : IsView(s.body, Stage(p, n, r), c, n)

\* And have as many findings.
LEMMA SecondCount ==
  ASSUME NEW p, NEW n, IsPayload(p, n), NEW M, IsSecond(M, p, n)
  PROVE  Cardinality(Gone(p, n, 2)) = Cardinality(Keys(p, n, AwsKey)) + Cardinality(M)
<1> DEFINE T == {i \in 1..n : EatsKey(p, i) \/ IsSecret(p[i], AwsSecret)}
           K == Keys(p, n, AwsKey)
           f == [s \in M |-> s[2]]
<1>0. n \in Nat /\ Len(p) = n
  BY DEF IsPayload
<1>1. IsFiniteSet(M) /\ Within(M, n) /\ Disjoint(M)
  BY SecondApart
<1>2. ASSUME NEW s \in M PROVE s[2] \in T
  BY <1>0 DEF IsSecond, EatsKey
<1>3. ASSUME NEW s \in M, NEW t \in M, s[2] = t[2] PROVE s = t
  <2>1. s[1] \in Nat /\ s[2] \in Nat /\ t[1] \in Nat /\ s[1] <= s[2] /\ t[1] <= t[2] /\ t[2] \in Nat
    BY <1>0, <1>1 DEF Within
  <2>2. s # t => s[2] < t[1] \/ t[2] < s[1]
    BY <1>1 DEF Disjoint
  <2> QED
    BY <1>3, <2>1, <2>2
<1>4. ASSUME NEW i \in T PROVE \E s \in M : s[2] = i
  <2>1. CASE EatsKey(p, i)
    <3>1. PICK k \in 1..n : EatsKeyAt(p, k, i)
      BY <1>0, <2>1 DEF EatsKey
    <3> DEFINE s == <<k, i>>
    <3>2. s \in (1..n) \X (1..n) /\ s[1] = k /\ s[2] = i
      OBVIOUS
    <3> HIDE DEF s
    <3>3. s \in M
      BY <3>1, <3>2 DEF IsSecond
    <3> QED
      BY <3>2, <3>3
  <2>2. CASE ~EatsKey(p, i) /\ IsSecret(p[i], AwsSecret)
    <3> DEFINE s == <<i, i>>
    <3>1. s \in M /\ i \in 1..n
      BY <2>2 DEF IsSecond
    <3>2. s[2] = i
      OBVIOUS
    <3> HIDE DEF s
    <3> QED
      BY <3>1, <3>2
  <2> QED
    BY <2>1, <2>2
<1>5. T \subseteq 1..n /\ K \subseteq 1..n
  BY DEF Keys
<1>6. Gone(p, n, 2) = K \cup T
  <2>1. \A i \in 1..n : i \in Gone(p, n, 2) <=> i \in K \cup T
    BY FirstTwo DEF Gone, Keys
  <2>2. Gone(p, n, 2) \subseteq 1..n
    BY DEF Gone
  <2> QED
    BY <1>5, <2>1, <2>2
<1>7. K \cap T = {}
  <2> SUFFICES ASSUME NEW i \in K \cap T PROVE FALSE
    OBVIOUS
  <2>1. i \in 1..n /\ IsSecret(p[i], AwsKey)
    BY DEF Keys
  <2>2. ~EatsKey(p, i) /\ ~IsSecret(p[i], AwsSecret)
    BY <2>1, KindFacts DEF IsSecret, AwsKey, AwsSecret
  <2> QED
    BY <2>2
<1> HIDE DEF T, K
<1>8. Cardinality(T) = Cardinality(M)
  <2>1. f = [s \in M |-> f[s]] /\ OneToOne(f, M, T)
    BY <1>2, <1>3, <1>4 DEF OneToOne
  <2> HIDE DEF f
  <2> QED
    BY <1>1, <2>1, SameCount
<1>9. IsFiniteSet(K) /\ IsFiniteSet(T)
  BY <1>0, <1>5, SomePieces
<1>10. Cardinality(K \cup T) = Cardinality(K) + Cardinality(T)
  BY <1>7, <1>9, DisjointCount
<1> QED
  BY <1>6, <1>8, <1>10 DEF K

\* The second pattern, whose matches may eat a token of the first and the gaps behind it
\* (dlp.go:63-66).
LEMMA SecondPass ==
  ASSUME NEW p, NEW n, IsPayload(p, n),
         NEW st, KeysGone(st.body, p, n), st.findings \in Seq(PatternNames),
         Len(st.findings) = Cardinality(Keys(p, n, AwsKey)),
         NEW r, r = ApplyPattern(st, Patterns[2])
  PROVE  AfterPass(r, p, n, 2)
<1> DEFINE M == Matches(st.body, AwsSecret)
<1>0. Patterns[2] = AwsSecret /\ 2 \in 1..Len(Patterns)
  BY PatternFacts DEF AwsSecret
<1>1. IsSecond(M, p, n)
  BY SecondMatches
<1>2. Within(M, n) /\ Disjoint(M) /\ IsFiniteSet(M)
  BY <1>1, SecondApart
<1>3. AwsSecret \in PatternNames /\ Stub \in Buffered /\ Token(AwsSecret) \in Buffered
  BY <1>0, NamesAreNames
<1>4. st.body \in Seq(Buffered) /\ n = Len(st.body)
  BY DEF KeysGone
<1>5. M = Matches(st.body, AwsSecret)
  OBVIOUS
<1> HIDE DEF M
<1>6. Replaced(r, st, M, AwsSecret, n, Buffered, PatternNames)
  BY <1>0, <1>2, <1>3, <1>4, <1>5, PatternReplaces
<1>7. Left(st.body, M, AwsSecret, n) = Stage(p, n, 2)
  BY <1>1, SecondLeft
<1>8. Cardinality(Gone(p, n, 2)) = Cardinality(Keys(p, n, AwsKey)) + Cardinality(M)
  BY <1>1, SecondCount
<1> QED
  BY <1>6, <1>7, <1>8 DEF Replaced, AfterPass

-----------------------------------------------------------------------------
(***************************************************************************)
(* The patterns after the second.                                          *)
(***************************************************************************)

\* Where a pattern stands among the others.
Ranked(r, name) ==
    /\ name \notin First(r) /\ First(r + 1) = First(r) \cup {name}
    /\ name # AwsKey /\ name # AwsSecret
    /\ name = "us_ssn" => First(r) = PatternNames \ Late
    /\ name = "credit_card" => First(r) = (PatternNames \ Late) \cup {"us_ssn"}

\* The patterns have different names; numbers are looked for after the keys a \b may stand
\* against and before the late ones (dlp.go:83-90).
LEMMA RankFacts ==
  ASSUME NEW r \in 2..9
  PROVE  Ranked(r, Patterns[r + 1])
<1>1. First(r + 1) = First(r) \cup {Patterns[r + 1]}
  <2>1. \A k : k \in 1..(r + 1) <=> k \in 1..r \/ k = r + 1
    OBVIOUS
  <2> QED
    BY <2>1 DEF First
<1>2. Patterns[r + 1] \notin First(r)
  <2>1. \A k \in 1..r : Patterns[k] # Patterns[r + 1]
    <3>1. r = 2 \/ r = 3 \/ r = 4 \/ r = 5 \/ r = 6 \/ r = 7 \/ r = 8 \/ r = 9
      OBVIOUS
    <3> QED
      BY <3>1, PatternFacts
  <2> QED
    BY <2>1 DEF First
<1>3. 1 \in 1..r /\ 2 \in 1..r
  OBVIOUS
<1>4. Patterns[1] \in First(r) /\ Patterns[2] \in First(r)
  BY <1>3 DEF First
<1>5. Patterns[r + 1] # AwsKey /\ Patterns[r + 1] # AwsSecret
  BY <1>2, <1>4, PatternFacts DEF AwsKey, AwsSecret
<1>6. PatternNames = {Patterns[1], Patterns[2], Patterns[3], Patterns[4], Patterns[5],
                      Patterns[6], Patterns[7], Patterns[8], Patterns[9], Patterns[10]}
  BY PatternFacts DEF PatternNames
<1>7. First(6) = PatternNames \ Late
  <2>1. First(6) = {Patterns[1], Patterns[2], Patterns[3], Patterns[4], Patterns[5], Patterns[6]}
    BY DEF First
  <2> QED
    BY <1>6, <2>1, PatternFacts DEF Late
<1>8. First(7) = (PatternNames \ Late) \cup {"us_ssn"}
  <2>1. \A k : k \in 1..7 <=> k \in 1..6 \/ k = 7
    OBVIOUS
  <2>2. First(7) = First(6) \cup {Patterns[7]}
    BY <2>1 DEF First
  <2> QED
    BY <1>7, <2>2, PatternFacts
<1>9. (Patterns[r + 1] = "us_ssn" => r = 6) /\ (Patterns[r + 1] = "credit_card" => r = 7)
  <2>1. r = 2 \/ r = 3 \/ r = 4 \/ r = 5 \/ r = 6 \/ r = 7 \/ r = 8 \/ r = 9
    OBVIOUS
  <2> QED
    BY <2>1, PatternFacts
<1> QED
  BY <1>1, <1>2, <1>5, <1>7, <1>8, <1>9 DEF Ranked

\* A secret of a later pattern stands as it was.
LEMMA LaterStands ==
  ASSUME NEW p, NEW n, IsPayload(p, n), NEW i \in 1..n,
         NEW r, NEW name, Ranked(r, name), IsSecret(p[i], name)
  PROVE  /\ ~EatsKey(p, i) /\ ~Found(p, i, r)
         /\ Stage(p, n, r)[i] = <<p[i]>>
<1>1. p[i].type = "secret" /\ p[i].name = name /\ name # AwsKey /\ name # AwsSecret
  BY DEF IsSecret, Ranked
<1>2. ~IsSecret(p[i], AwsKey) /\ ~Reachable(p[i]) /\ p[i] # Gap
  BY <1>1 DEF IsSecret, Reachable, AwsKey, AwsSecret, Gap
<1>3. ~EatsKey(p, i) /\ ~Reaches(p, n, i) /\ ~Between(p, n, i)
  BY <1>2, KindFacts
<1>4. ~Found(p, i, r)
  BY <1>1 DEF Found, Ranked
<1> QED
  BY <1>3, <1>4 DEF Stage

\* The secrets of a later pattern are those of the payload.
LEMMA LaterSecrets ==
  ASSUME NEW p, NEW n, IsPayload(p, n), NEW i \in 1..n,
         NEW r, NEW name, Ranked(r, name), NEW x, Stage(p, n, r)[i] = <<x>>
  PROVE  IsSecret(x, name) <=> IsSecret(p[i], name)
<1>1. CASE IsSecret(p[i], name)
  <2>1. <<x>> = <<p[i]>>
    BY <1>1, LaterStands
  <2>2. x = p[i]
    BY <2>1
  <2> QED
    BY <2>2
<1>2. CASE ~IsSecret(p[i], name)
  <2>1. \A other : ~IsSecret(Token(other), name) /\ ~IsSecret(Stub, name)
    BY DEF Token, Stub, IsSecret
  <2>2. \/ <<x>> = <<Stub>>
        \/ <<x>> = <<Token(AwsSecret)>>
        \/ <<x>> = << >>
        \/ <<x>> = <<Token(p[i].name)>>
        \/ <<x>> = <<p[i]>>
    BY DEF Stage
  <2>3. x = Stub \/ x = Token(AwsSecret) \/ x = Token(p[i].name) \/ x = p[i]
    BY <2>2
  <2> QED
    BY <1>2, <2>1, <2>3
<1> QED
  BY <1>1, <1>2

(***************************************************************************)
(* Beside a number.                                                        *)
(***************************************************************************)
Beside(i, j) == j = i - 1 \/ j = i + 1

\* A number is none of the keys, and no free side for another.
LEMMA NumericFacts ==
  ASSUME NEW p, NEW n, IsPayload(p, n), NEW i \in 1..n, Numeric(p[i])
  PROVE  ~FreeSide(p, i) /\ ~Reachable(p[i]) /\ p[i] # Gap /\ ~IsSecret(p[i], AwsKey)
         /\ ~EatsKey(p, i) /\ ~Reaches(p, n, i) /\ ~Between(p, n, i)
<1>1. p[i].type = "secret" /\ (p[i].name = "us_ssn" \/ p[i].name = "credit_card")
  BY DEF Numeric
<1>2. ~IsSecret(p[i], AwsKey) /\ ~Reachable(p[i]) /\ p[i] # Gap
  BY <1>1 DEF IsSecret, Reachable, AwsKey, AwsSecret, Gap
<1>3. ~EatsKey(p, i) /\ ~Reaches(p, n, i) /\ ~Between(p, n, i)
  BY <1>2, KindFacts
<1>4. WordEdges(p[i]) /\ p[i].name \in Late
  BY <1>1 DEF WordEdges, Late
<1>5. i \in 1..Len(p)
  BY DEF IsPayload
<1> QED
  BY <1>2, <1>3, <1>4, <1>5 DEF FreeSide

\* What stands beside a number is never left out: a number is no gap.
LEMMA BesideStays ==
  ASSUME NEW p, NEW n, IsPayload(p, n), NEW i \in 1..n, Numeric(p[i]),
         NEW j \in 1..n, Beside(i, j)
  PROVE  ~Between(p, n, j)
<1> SUFFICES ASSUME Between(p, n, j) PROVE FALSE
  OBVIOUS
<1>0. n \in Nat
  BY DEF IsPayload
<1>1. PICK k \in 1..n, m \in 1..n : k < j /\ j < m /\ EatsKeyAt(p, k, m)
  BY DEF Between
<1>2. k = i \/ m = i \/ (k < i /\ i < m)
  BY <1>0, <1>1 DEF Beside
<1>3. IsSecret(p[k], AwsKey) /\ Reachable(p[m]) /\ \A l \in 1..n : k < l /\ l < m => p[l] = Gap
  BY <1>1, EatsFacts DEF AwsKey
<1>4. p[i] # Gap /\ ~Reachable(p[i]) /\ ~IsSecret(p[i], AwsKey)
  BY NumericFacts
<1> QED
  BY <1>2, <1>3, <1>4

\* Beside a number, a word edge in the buffer is what FreeSide says of the payload: keys
\* found before are tokens by now, those found later are not, and of two numbers side by
\* side neither is redacted.
LEMMA BesideEdges ==
  ASSUME NEW p, NEW n, IsPayload(p, n), NEW i \in 1..n, Numeric(p[i]),
         NEW j \in 1..n, Beside(i, j),
         NEW r, NEW name, Ranked(r, name), name \in {"us_ssn", "credit_card"},
         NEW x, Stage(p, n, r)[j] = <<x>>
  PROVE  WordEdges(x) <=> ~FreeSide(p, j)
<1>0. n \in Nat /\ j \in 1..Len(p) /\ Len(p) = n /\ IsPiece(p[j])
  BY DEF IsPayload
<1>1. FreeSide(p, j) <=> \/ ~WordEdges(p[j])
                         \/ p[j].type = "secret" /\ p[j].name \notin Late
                         \/ EatsKey(p, j)
  BY <1>0 DEF FreeSide
<1>2. \A other : ~WordEdges(Token(other)) /\ ~WordEdges(Stub)
  BY DEF Token, Stub, WordEdges
<1>3. ~Between(p, n, j)
  BY BesideStays
<1>4. First(r) = PatternNames \ Late \/ First(r) = (PatternNames \ Late) \cup {"us_ssn"}
  BY DEF Ranked
<1>5. CASE Reaches(p, n, j)
  <2>1. <<x>> = <<Stub>>
    BY <1>5 DEF Stage
  <2>2. x = Stub
    BY <2>1
  <2>3. p[j].type = "secret" /\ p[j].name = AwsKey
    BY <1>5, KindFacts DEF IsSecret
  <2>4. AwsKey \notin Late
    BY DEF AwsKey, Late
  <2> QED
    BY <1>1, <1>2, <2>2, <2>3, <2>4
<1>6. CASE ~Reaches(p, n, j) /\ EatsKey(p, j)
  <2>1. <<x>> = <<Token(AwsSecret)>>
    BY <1>6 DEF Stage
  <2>2. x = Token(AwsSecret)
    BY <2>1
  <2> QED
    BY <1>1, <1>2, <1>6, <2>2
<1>7. CASE ~Reaches(p, n, j) /\ ~EatsKey(p, j) /\ Found(p, j, r)
  <2>1. <<x>> = <<Token(p[j].name)>>
    BY <1>3, <1>7 DEF Stage
  <2>2. x = Token(p[j].name)
    BY <2>1
  <2>3. p[j].type = "secret" /\ p[j].name \in First(r) /\ Redacted(p, j)
    BY <1>7 DEF Found
  <2>4. p[j].name # "us_ssn"
    <3> SUFFICES ASSUME p[j].name = "us_ssn" PROVE FALSE
      OBVIOUS
    <3>1. Numeric(p[j])
      BY <2>3 DEF Numeric
    <3>2. FreeSide(p, j - 1) /\ FreeSide(p, j + 1)
      BY <1>7, <2>3, <3>1 DEF Redacted
    <3>3. i = j - 1 \/ i = j + 1
      BY <1>0 DEF Beside
    <3>4. ~FreeSide(p, i)
      BY NumericFacts
    <3> QED
      BY <3>2, <3>3, <3>4
  <2>5. p[j].name \notin Late
    BY <1>4, <2>3, <2>4
  <2> QED
    BY <1>1, <1>2, <2>2, <2>3, <2>5
<1>8. CASE ~Reaches(p, n, j) /\ ~EatsKey(p, j) /\ ~Found(p, j, r)
  <2>1. <<x>> = <<p[j]>>
    BY <1>3, <1>8 DEF Stage
  <2>2. x = p[j]
    BY <2>1
  <2>3. ~(p[j].type = "secret" /\ p[j].name \notin Late)
    <3> SUFFICES ASSUME p[j].type = "secret", p[j].name \notin Late PROVE FALSE
      OBVIOUS
    <3>1. p[j].name \in PatternNames
      BY <1>0 DEF IsPiece, Word, Gap, Labelled
    <3>2. ~Numeric(p[j])
      BY DEF Numeric, Late
    <3>3. Redacted(p, j)
      BY <3>2, KeyIsRedacted
    <3> QED
      BY <1>4, <1>8, <3>1, <3>3 DEF Found
  <2> QED
    BY <1>1, <1>8, <2>2, <2>3
<1> QED
  BY <1>5, <1>6, <1>7, <1>8

\* A number stands free in the buffer when it stands free in the payload.
LEMMA BoundedIsFree ==
  ASSUME NEW p, NEW n, IsPayload(p, n), NEW i \in 1..n, Numeric(p[i]),
         NEW r, NEW name, Ranked(r, name), name \in {"us_ssn", "credit_card"},
         NEW q, NEW c, IsView(q, Stage(p, n, r), c, n)
  PROVE  Bounded(q, c[i]) <=> FreeSide(p, i - 1) /\ FreeSide(p, i + 1)
<1> DEFINE g == Stage(p, n, r)
<1>0. n \in Nat /\ Len(p) = n /\ i \in Nat
  BY DEF IsPayload
<1>1. c \in [0..n -> Nat] /\ c[0] = 0 /\ Len(q) = c[n]
  BY DEF IsView
<1>2. \A j \in 1..n : Beside(i, j) \/ j = i => g[j] # << >>
  <2> SUFFICES ASSUME NEW j \in 1..n, Beside(i, j) \/ j = i PROVE g[j] # << >>
    OBVIOUS
  <2>1. ~Between(p, n, j)
    BY BesideStays, NumericFacts
  <2>2. \A one : <<one>> # << >>
    OBVIOUS
  <2> QED
    BY <2>1, <2>2 DEF Stage
<1> HIDE DEF g
<1>3. \A j \in 1..n : Beside(i, j) \/ j = i => c[j] = c[j - 1] + 1 /\ g[j] = <<q[c[j]]>>
  BY <1>2 DEF IsView, g
<1>4. c[i] = c[i - 1] + 1 /\ c[i - 1] \in Nat /\ c[i] \in Nat /\ c[i] <= c[n] /\ c[n] \in Nat
  <2>1. i - 1 \in 0..n /\ i \in 0..n /\ n \in i..n /\ n \in 0..n
    BY <1>0
  <2>2. c[i] <= c[n]
    BY <1>0, <2>1, ViewMonotone
  <2> QED
    BY <1>1, <1>3, <2>1, <2>2
<1>5. (c[i] > 1 => ~WordEdges(q[c[i] - 1])) <=> FreeSide(p, i - 1)
  <2>1. CASE i = 1
    <3>1. i - 1 \notin 1..Len(p) /\ c[i - 1] = 0
      BY <1>1, <2>1
    <3> QED
      BY <1>4, <3>1 DEF FreeSide
  <2>2. CASE i # 1
    <3> DEFINE j == i - 1
    <3>1. j \in 1..n /\ Beside(i, j) /\ j - 1 \in 0..n
      BY <1>0, <2>2 DEF Beside
    <3>2. c[j] = c[j - 1] + 1 /\ g[j] = <<q[c[j]]>> /\ c[j - 1] \in Nat
      BY <1>1, <1>3, <3>1
    <3>3. WordEdges(q[c[j]]) <=> ~FreeSide(p, j)
      BY <3>1, <3>2, BesideEdges DEF g
    <3>4. c[i] > 1 /\ c[i] - 1 = c[j]
      BY <1>4, <3>2
    <3> HIDE DEF j
    <3> QED
      BY <3>3, <3>4 DEF j
  <2> QED
    BY <2>1, <2>2
<1>6. (c[i] < Len(q) => ~WordEdges(q[c[i] + 1])) <=> FreeSide(p, i + 1)
  <2>1. CASE i = n
    <3>1. i + 1 \notin 1..Len(p)
      BY <1>0, <2>1
    <3>2. ~(c[i] < Len(q))
      BY <1>1, <1>4, <2>1
    <3> QED
      BY <3>1, <3>2 DEF FreeSide
  <2>2. CASE i # n
    <3> DEFINE j == i + 1
    <3>1. j \in 1..n /\ Beside(i, j) /\ j - 1 = i /\ j \in 0..n /\ n \in j..n
      BY <1>0, <2>2 DEF Beside
    <3>2. c[j] = c[j - 1] + 1 /\ g[j] = <<q[c[j]]>>
      BY <1>3, <3>1
    <3>3. WordEdges(q[c[j]]) <=> ~FreeSide(p, j)
      BY <3>1, <3>2, BesideEdges DEF g
    <3>4. c[j] <= c[n]
      BY <1>0, <3>1, ViewMonotone
    <3>5. c[j] = c[i] + 1
      BY <3>1, <3>2
    <3> HIDE DEF j
    <3>6. c[i] < Len(q) /\ c[i] + 1 = c[j]
      BY <1>1, <1>4, <3>4, <3>5
    <3> QED
      BY <3>3, <3>6 DEF j
  <2> QED
    BY <2>1, <2>2
<1> QED
  BY <1>5, <1>6 DEF Bounded

\* The matches of a pattern after the second are single pieces.
LEMMA LaterMatches ==
  ASSUME NEW q, NEW name, name # AwsSecret
  PROVE  /\ Single(Matches(q, name), Len(q))
         /\ \A j \in 1..Len(q) : <<j, j>> \in Matches(q, name) <=>
               /\ IsSecret(q[j], name)
               /\ name \in {"us_ssn", "credit_card"} => Bounded(q, j)
               /\ name = "credit_card" => CardShape(q[j].digits) /\ LuhnCheck(q[j].digits)
<1>1. CASE name = "us_ssn"
  BY <1>1 DEF Matches, Single
<1>2. CASE name = "credit_card"
  BY <1>2 DEF Matches, Single
<1>3. CASE name \notin {"us_ssn", "credit_card"}
  <2>1. Matches(q, name) = {<<i, i>> : i \in {j \in 1..Len(q) : IsSecret(q[j], name)}}
    BY <1>3 DEF Matches, AwsSecret
  <2> QED
    BY <1>3, <2>1 DEF Single
<1> QED
  BY <1>1, <1>2, <1>3

\* What a later pattern finds in the buffer is what is to be redacted of the payload.
LEMMA MatchesAreFound ==
  ASSUME NEW p, NEW n, IsPayload(p, n), NEW i \in 1..n,
         NEW r, NEW name, Ranked(r, name),
         NEW q, NEW c, IsView(q, Stage(p, n, r), c, n), Stage(p, n, r)[i] # << >>
  PROVE  /\ c[i] \in 1..Len(q) /\ Stage(p, n, r)[i] = <<q[c[i]]>>
         /\ <<c[i], c[i]>> \in Matches(q, name) <=> IsSecret(p[i], name) /\ Redacted(p, i)
<1> DEFINE j == c[i]
<1>0. n \in Nat /\ IsPiece(p[i])
  BY DEF IsPayload
<1>1. Stage(p, n, r)[i] = <<q[j]>> /\ j = c[i - 1] + 1
  BY DEF IsView
<1>2. j \in 1..Len(q)
  <2>1. i - 1 \in 0..n /\ i \in 0..n /\ n \in i..n /\ n \in 0..n
    BY <1>0
  <2>2. c[i] <= c[n]
    BY <1>0, <2>1, ViewMonotone
  <2>3. c[i - 1] \in Nat /\ c[n] \in Nat /\ Len(q) = c[n]
    BY <2>1 DEF IsView
  <2> QED
    BY <1>1, <2>2, <2>3
<1>3. IsSecret(q[j], name) <=> IsSecret(p[i], name)
  BY <1>1, LaterSecrets
<1>4. name # AwsSecret
  BY DEF Ranked
<1>5. <<j, j>> \in Matches(q, name) <=>
         /\ IsSecret(q[j], name)
         /\ name \in {"us_ssn", "credit_card"} => Bounded(q, j)
         /\ name = "credit_card" => CardShape(q[j].digits) /\ LuhnCheck(q[j].digits)
  BY <1>2, <1>4, LaterMatches
<1>6. CASE ~IsSecret(p[i], name)
  BY <1>1, <1>2, <1>3, <1>5, <1>6
<1>7. CASE IsSecret(p[i], name)
  <2>1. ~EatsKey(p, i) /\ Stage(p, n, r)[i] = <<p[i]>>
    BY <1>7, LaterStands
  <2>2. q[j] = p[i]
    <3>1. <<q[j]>> = <<p[i]>>
      BY <1>1, <2>1
    <3> QED
      BY <3>1
  <2>3. p[i].type = "secret" /\ p[i].name = name
    BY <1>7 DEF IsSecret
  <2>4. Numeric(p[i]) <=> name \in {"us_ssn", "credit_card"}
    BY <2>3 DEF Numeric
  <2>5. Redacted(p, i) <=> /\ Numeric(p[i]) => FreeSide(p, i - 1) /\ FreeSide(p, i + 1)
                           /\ name = "credit_card" => ValidNumber(p[i].digits)
    BY <2>1, <2>3 DEF Redacted
  <2>6. Numeric(p[i]) => (Bounded(q, j) <=> FreeSide(p, i - 1) /\ FreeSide(p, i + 1))
    BY <2>4, BoundedIsFree
  <2>7. name = "credit_card" =>
           (CardShape(q[j].digits) /\ LuhnCheck(q[j].digits) <=> ValidNumber(p[i].digits))
    <3> SUFFICES ASSUME name = "credit_card"
                 PROVE  CardShape(p[i].digits) /\ LuhnCheck(p[i].digits)
                           <=> ValidNumber(p[i].digits)
      BY <2>2
    <3>1. p[i].digits \in Seq(0..9)
      BY <1>0, <2>3 DEF IsPiece, Word, Gap, Labelled
    <3> QED
      BY <3>1, LuhnIsLuhn
  <2>8. IsSecret(q[j], name) /\ IsSecret(p[i], name)
    BY <1>3, <1>7
  <2> HIDE DEF j
  <2>9. <<j, j>> \in Matches(q, name) <=> Redacted(p, i)
    BY <1>5, <2>4, <2>5, <2>6, <2>7, <2>8
  <2> QED
    BY <1>1, <1>2, <1>7, <2>9 DEF j
<1> QED
  BY <1>6, <1>7

\* What one pattern more leaves.
LEMMA StageNext ==
  ASSUME NEW p, NEW n, IsPayload(p, n), NEW i \in 1..n, NEW r, NEW name, Ranked(r, name)
  PROVE  /\ Found(p, i, r + 1) <=> Found(p, i, r) \/ (IsSecret(p[i], name) /\ Redacted(p, i))
         /\ IsSecret(p[i], name) /\ Redacted(p, i) => Stage(p, n, r + 1)[i] = <<Token(name)>>
         /\ ~(IsSecret(p[i], name) /\ Redacted(p, i)) =>
               Stage(p, n, r + 1)[i] = Stage(p, n, r)[i]
<1>1. Found(p, i, r + 1) <=> Found(p, i, r) \/ (IsSecret(p[i], name) /\ Redacted(p, i))
  BY DEF Found, Ranked, IsSecret
<1>2. ASSUME IsSecret(p[i], name), Redacted(p, i)
      PROVE  Stage(p, n, r + 1)[i] = <<Token(name)>>
  <2>1. Stage(p, n, r)[i] = <<p[i]>> /\ ~EatsKey(p, i) /\ ~Found(p, i, r)
    BY <1>2, LaterStands
  <2>2. \A one : <<one>> # << >>
    OBVIOUS
  <2>3. p[i].name = name /\ p[i].type = "secret"
    BY <1>2 DEF IsSecret
  <2>4. ~IsSecret(p[i], AwsKey) /\ p[i] # Gap
    BY <2>3 DEF IsSecret, Ranked, Gap
  <2>5. ~Reaches(p, n, i) /\ ~Between(p, n, i)
    BY <2>4, KindFacts
  <2> QED
    BY <1>1, <1>2, <2>1, <2>3, <2>5 DEF Stage
<1>3. ASSUME ~(IsSecret(p[i], name) /\ Redacted(p, i))
      PROVE  Stage(p, n, r + 1)[i] = Stage(p, n, r)[i]
  <2>1. Found(p, i, r + 1) <=> Found(p, i, r)
    BY <1>1, <1>3
  <2> QED
    BY <2>1 DEF Stage
<1> QED
  BY <1>1, <1>2, <1>3

\* Every pattern after the second replaces what is to be redacted of its kind, and nothing
\* else (dlp.go:138-170).
LEMMA LaterPass ==
  ASSUME NEW p, NEW n, IsPayload(p, n), NEW r \in 2..9,
         NEW st, AfterPass(st, p, n, r), NEW s, s = ApplyPattern(st, Patterns[r + 1])
  PROVE  AfterPass(s, p, n, r + 1)
<1> DEFINE name == Patterns[r + 1]
           q == st.body
           M == Matches(q, name)
           g == Stage(p, n, r)
           h == Stage(p, n, r + 1)
           m == Len(q)
           New == {i \in 1..n : IsSecret(p[i], name) /\ Redacted(p, i)}
<1>0. n \in Nat /\ r + 1 \in 1..Len(Patterns)
  BY PatternFacts DEF IsPayload
<1>1. Ranked(r, name)
  BY RankFacts
<1>2. name \in PatternNames /\ Stub \in Buffered /\ Token(name) \in Buffered /\ name # AwsSecret
  BY <1>0, <1>1, NamesAreNames DEF Ranked
<1>3. q \in Seq(Buffered) /\ st.findings \in Seq(PatternNames)
      /\ Len(st.findings) = Cardinality(Gone(p, n, r))
  BY DEF AfterPass
<1>4. PICK c : IsView(q, g, c, n)
  BY DEF AfterPass
<1> HIDE DEF name
<1>5. Single(M, m)
  BY <1>2, LaterMatches
<1>6. IsFiniteSet(M) /\ OneForOne(s, st, M, name, m, Buffered, PatternNames)
  <2> HIDE DEF M
  <2>1. IsFiniteSet(M) /\ OneForOne(ApplyPattern(st, name), st, M, name, m, Buffered, PatternNames)
    BY <1>2, <1>3, <1>5, SingleMatches DEF M
  <2> QED
    BY <2>1 DEF name
<1> HIDE DEF q, M, g, h, m
<1>7. ASSUME NEW i \in 1..n, g[i] # << >>
      PROVE  /\ c[i] \in 1..m /\ g[i] = <<q[c[i]]>>
             /\ <<c[i], c[i]>> \in M <=> i \in New
  <2>1. IsView(q, Stage(p, n, r), c, n) /\ Stage(p, n, r)[i] # << >>
    BY <1>4, <1>7 DEF g
  <2>2. /\ c[i] \in 1..Len(q) /\ Stage(p, n, r)[i] = <<q[c[i]]>>
        /\ <<c[i], c[i]>> \in Matches(q, name) <=> IsSecret(p[i], name) /\ Redacted(p, i)
    BY <1>1, <2>1, MatchesAreFound
  <2>3. i \in New <=> IsSecret(p[i], name) /\ Redacted(p, i)
    OBVIOUS
  <2> HIDE DEF New
  <2> QED
    BY <2>2, <2>3 DEF M, g, m
<1>8. \A i \in New : g[i] # << >>
  <2>1. \A one : <<one>> # << >>
    OBVIOUS
  <2> SUFFICES ASSUME NEW i \in New PROVE g[i] # << >>
    OBVIOUS
  <2>2. i \in 1..n /\ IsSecret(p[i], name)
    OBVIOUS
  <2>3. Stage(p, n, r)[i] = <<p[i]>>
    BY <1>1, <2>2, LaterStands
  <2> QED
    BY <2>1, <2>3 DEF g
<1>9. ASSUME NEW i \in 1..n
      PROVE  h[i] = IF i \in New THEN <<Token(name)>> ELSE g[i]
  BY <1>1, StageNext DEF g, h
<1>10. s.body \in Seq(Buffered) /\ s.findings \in Seq(PatternNames) /\ Len(s.body) = m
       /\ Len(s.findings) = Len(st.findings) + Cardinality(M)
       /\ \A j \in 1..m : s.body[j] = IF <<j, j>> \in M THEN Token(name) ELSE q[j]
  BY <1>6 DEF OneForOne, q
<1> HIDE DEF New
<1>11. IsView(s.body, h, c, n)
  <2>1. c \in [0..n -> Nat] /\ c[0] = 0 /\ Len(s.body) = c[n]
    BY <1>4, <1>10 DEF IsView, m
  <2>2. ASSUME NEW i \in 1..n
        PROVE  \/ h[i] = << >> /\ c[i] = c[i - 1]
               \/ c[i] = c[i - 1] + 1 /\ h[i] = <<s.body[c[i]]>>
    <3>1. CASE g[i] = << >>
      <4>1. \A one : <<one>> # << >>
        OBVIOUS
      <4>2. c[i] = c[i - 1]
        BY <1>4, <3>1, <4>1 DEF IsView
      <4>3. h[i] = << >>
        BY <1>8, <1>9, <3>1
      <4> QED
        BY <4>2, <4>3
    <3>2. CASE g[i] # << >>
      <4>1. c[i] = c[i - 1] + 1
        BY <1>4, <3>2 DEF IsView
      <4>2. c[i] \in 1..m /\ g[i] = <<q[c[i]]>> /\ (<<c[i], c[i]>> \in M <=> i \in New)
        BY <1>7, <3>2
      <4>3. s.body[c[i]] = IF i \in New THEN Token(name) ELSE q[c[i]]
        BY <1>10, <4>2
      <4>4. h[i] = <<s.body[c[i]]>>
        BY <1>9, <4>2, <4>3
      <4> QED
        BY <4>1, <4>4
    <3> QED
      BY <3>1, <3>2
  <2> QED
    BY <2>1, <2>2 DEF IsView
<1>12. Cardinality(M) = Cardinality(New) /\ IsFiniteSet(New)
  <2> DEFINE f == [i \in New |-> <<c[i], c[i]>>]
  <2>0. New \subseteq 1..n
    BY DEF New
  <2>1. ASSUME NEW i \in New PROVE f[i] \in M
    BY <1>7, <1>8, <2>0
  <2>2. ASSUME NEW i \in New, NEW j \in New, f[i] = f[j] PROVE i = j
    <3>1. c[i] = c[j]
      BY <2>2
    <3>2. \A k, l \in New : k < l => c[k] # c[l]
      <4> SUFFICES ASSUME NEW k \in New, NEW l \in New, k < l PROVE c[k] # c[l]
        OBVIOUS
      <4>1. k \in 1..n /\ l \in 1..n /\ g[l] # << >>
        BY <1>8, <2>0
      <4>2. l - 1 \in k..n /\ k \in 0..n /\ l - 1 \in 0..n
        BY <1>0, <4>1
      <4>3. c[k] <= c[l - 1]
        BY <1>0, <1>4, <4>2, ViewMonotone
      <4>4. c[l] = c[l - 1] + 1
        BY <1>4, <4>1 DEF IsView
      <4>5. c[k] \in Nat /\ c[l - 1] \in Nat
        BY <1>4, <4>2 DEF IsView
      <4> QED
        BY <4>3, <4>4, <4>5
    <3>3. i \in Nat /\ j \in Nat
      BY <1>0, <2>0
    <3> QED
      BY <3>1, <3>2, <3>3
  <2>3. ASSUME NEW t \in M PROVE \E i \in New : f[i] = t
    <3>1. PICK j \in 1..m : t = <<j, j>>
      BY <1>5 DEF Single
    <3>2. Onto(q, g, c, n)
      BY <1>0, <1>4, ViewOnto
    <3>3. m = c[n]
      BY <1>4 DEF IsView, m
    <3>4. PICK i \in 1..n : c[i] = j /\ g[i] = <<q[j]>>
      BY <3>1, <3>2, <3>3 DEF Onto
    <3>5. g[i] # << >>
      BY <3>4
    <3>6. i \in New
      BY <1>7, <3>1, <3>4, <3>5
    <3> QED
      BY <3>1, <3>4, <3>6
  <2>4. IsFiniteSet(New)
    BY <1>0, <2>0, SomePieces
  <2>5. f = [i \in New |-> f[i]] /\ OneToOne(f, New, M)
    BY <2>1, <2>2, <2>3 DEF OneToOne
  <2> HIDE DEF f
  <2> QED
    BY <2>4, <2>5, SameCount
<1>13. Cardinality(Gone(p, n, r + 1)) = Cardinality(Gone(p, n, r)) + Cardinality(New)
  <2>1. Gone(p, n, r + 1) = Gone(p, n, r) \cup New
    <3>1. \A i \in 1..n : Found(p, i, r + 1) <=> Found(p, i, r) \/ i \in New
      BY <1>1, StageNext DEF New
    <3>2. New \subseteq 1..n
      BY DEF New
    <3> QED
      BY <3>1, <3>2 DEF Gone
  <2>2. Gone(p, n, r) \cap New = {}
    BY <1>1, LaterStands DEF Gone, New
  <2>3. IsFiniteSet(Gone(p, n, r))
    <3>1. Gone(p, n, r) \subseteq 1..n
      BY DEF Gone
    <3> QED
      BY <1>0, <3>1, SomePieces
  <2> QED
    BY <1>12, <2>1, <2>2, <2>3, DisjointCount
<1>14. Len(s.findings) = Cardinality(Gone(p, n, r + 1))
  BY <1>3, <1>10, <1>12, <1>13
<1> QED
  BY <1>10, <1>11, <1>14 DEF AfterPass, h

-----------------------------------------------------------------------------
(***************************************************************************)
(* All of Scrub.                                                           *)
(***************************************************************************)

\* After the last pattern Stage is Outcome: what is read off the payload alone.
LEMMA LastStage ==
  ASSUME NEW p, NEW n, IsPayload(p, n), NEW i \in 1..n
  PROVE  /\ Stage(p, n, 10)[i] = Outcome(p, i)
         /\ i \in Gone(p, n, 10) <=> Redacted(p, i)
         /\ Outcome(p, i) = << >> \/ \E x \in Buffered : Outcome(p, i) = <<x>>
<1>0. Len(p) = n /\ IsPiece(p[i]) /\ p[i] \in Pieces
  BY DEF IsPayload
<1>1. First(10) = PatternNames
  BY PatternFacts DEF First, PatternNames
<1>2. Found(p, i, 10) <=> p[i].type = "secret" /\ Redacted(p, i)
  <2>1. p[i].type = "secret" => p[i].name \in PatternNames
    BY <1>0 DEF IsPiece, Word, Gap, Labelled
  <2> QED
    BY <1>1, <2>1 DEF Found
<1>3. Redacted(p, i) <=> EatsKey(p, i) \/ Found(p, i, 10)
  BY <1>2 DEF Redacted
<1>4. Found(p, i, 10) => ~Between(p, n, i)
  <2>1. p[i].type = "secret" => p[i] # Gap
    BY DEF Gap
  <2> QED
    BY <1>2, <2>1, KindFacts
<1>5. Outcome(p, i) = IF Reaches(p, n, i) THEN <<Stub>>
                      ELSE IF EatsKey(p, i) THEN <<Token(AwsSecret)>>
                      ELSE IF Redacted(p, i) THEN <<Token(p[i].name)>>
                      ELSE IF Between(p, n, i) THEN << >>
                      ELSE <<p[i]>>
  BY <1>0 DEF Outcome, Reaches, Between, AwsSecret
<1>6. Stage(p, n, 10)[i] = IF Reaches(p, n, i) THEN <<Stub>>
                           ELSE IF EatsKey(p, i) THEN <<Token(AwsSecret)>>
                           ELSE IF Between(p, n, i) THEN << >>
                           ELSE IF Found(p, i, 10) THEN <<Token(p[i].name)>>
                           ELSE <<p[i]>>
  BY DEF Stage
<1>7. Stage(p, n, 10)[i] = Outcome(p, i)
  BY <1>3, <1>4, <1>5, <1>6
<1>8. i \in Gone(p, n, 10) <=> Redacted(p, i)
  BY <1>3 DEF Gone
<1>9. Stub \in Buffered /\ Token(AwsSecret) \in Buffered /\ p[i] \in Buffered
  <2>1. 2 \in 1..Len(Patterns) /\ Patterns[2] = AwsSecret
    BY PatternFacts DEF AwsSecret
  <2> QED
    BY <1>0, <2>1, NamesAreNames DEF Buffered
<1>10. Found(p, i, 10) => Token(p[i].name) \in Buffered
  BY <1>1 DEF Found, Buffered
<1>11. Outcome(p, i) = << >> \/ \E x \in Buffered : Outcome(p, i) = <<x>>
  BY <1>6, <1>7, <1>9, <1>10
<1> QED
  BY <1>7, <1>8, <1>11

\* The ten passes, one after another (dlp.go:138-170).
LEMMA AllPasses ==
  ASSUME NEW p \in Seq(Pieces)
  PROVE  AfterPass(Scrub(p), p, Len(p), 10)
<1> DEFINE n == Len(p)
<1>0. n \in Nat /\ IsPayload(p, n)
  BY PayloadFacts
<1>1. Len(Patterns) = 10
  BY PatternFacts
<1>2. PICK pass : /\ IsPass(pass, p)
                  /\ Scrub(p) = [body |-> pass[Len(Patterns)].body,
                                 findings |-> Reverse(pass[Len(Patterns)].findings)]
  BY ScrubSteps
<1>3. /\ pass[0] = [body |-> p, findings |-> << >>]
      /\ \A k \in 1..10 : pass[k] = ApplyPattern(pass[k - 1], Patterns[k])
      /\ Scrub(p).body = pass[10].body /\ Scrub(p).findings = Reverse(pass[10].findings)
  BY <1>1, <1>2 DEF IsPass
<1> DEFINE first == pass[1]
           second == pass[2]
<1>4. /\ KeysGone(first.body, p, n)
      /\ first.findings \in Seq(PatternNames)
      /\ Len(first.findings) = Cardinality(Keys(p, n, AwsKey))
  <2>1. 1 \in 1..10 /\ 1 - 1 = 0
    OBVIOUS
  <2>2. first = ApplyPattern([body |-> p, findings |-> << >>], Patterns[1])
    BY <1>3, <2>1
  <2> HIDE DEF first
  <2> QED
    BY <2>2, FirstPass DEF AwsKey
<1>5. AfterPass(second, p, n, 2)
  <2>1. 2 \in 1..10 /\ 2 - 1 = 1
    OBVIOUS
  <2>2. second = ApplyPattern(first, Patterns[2])
    BY <1>3, <2>1
  <2> HIDE DEF first, second
  <2> QED
    BY <1>0, <1>4, <2>2, SecondPass
<1> DEFINE Passed(k) == AfterPass(pass[k], p, n, k)
           A == {k \in Nat : k <= 8 => Passed(k + 2)}
<1>6. 0 \in A
  <2>1. 0 + 2 = 2
    OBVIOUS
  <2>2. Passed(0 + 2)
    BY <1>5, <2>1
  <2> HIDE DEF Passed
  <2> QED
    BY <2>2
<1>7. ASSUME NEW k \in Nat, k \in A PROVE k + 1 \in A
  <2> HIDE DEF Passed
  <2> SUFFICES ASSUME k + 1 <= 8 PROVE Passed((k + 1) + 2)
    OBVIOUS
  <2> DEFINE r == k + 2
  <2>1. r \in 2..9 /\ (k + 1) + 2 = r + 1 /\ r + 1 \in 1..10 /\ (r + 1) - 1 = r /\ Passed(r)
    BY <1>7
  <2> HIDE DEF r
  <2>2. pass[r + 1] = ApplyPattern(pass[r], Patterns[r + 1])
    BY <1>3, <2>1
  <2>3. AfterPass(pass[r], p, n, r)
    BY <2>1 DEF Passed
  <2>4. AfterPass(pass[r + 1], p, n, r + 1)
    BY <1>0, <2>1, <2>2, <2>3, LaterPass
  <2> QED
    BY <2>1, <2>4 DEF Passed
<1>8. AfterPass(pass[10], p, n, 10)
  <2>1. Nat \subseteq A
    <3> HIDE DEF A
    <3> QED
      BY <1>6, <1>7, SetInduction
  <2>2. 8 \in Nat /\ 8 <= 8 /\ 8 + 2 = 10
    OBVIOUS
  <2>3. Passed(8 + 2)
    <3> HIDE DEF Passed
    <3> QED
      BY <2>1, <2>2
  <2> QED
    BY <2>2, <2>3
<1>9. Reverse(pass[10].findings) \in Seq(PatternNames)
      /\ Len(Reverse(pass[10].findings)) = Len(pass[10].findings)
  <2> DEFINE s == pass[10].findings
  <2>1. s \in Seq(PatternNames)
    BY <1>8 DEF AfterPass
  <2> HIDE DEF s
  <2>2. \A i \in 1..Len(s) : Len(s) - i + 1 \in 1..Len(s)
    BY <2>1
  <2>3. \A i \in 1..Len(s) : s[Len(s) - i + 1] \in PatternNames
    BY <2>1, <2>2
  <2> DEFINE m == Len(s)
             t == [i \in 1..m |-> s[m - i + 1]]
  <2>4. m \in Nat /\ t \in [1..m -> PatternNames]
    BY <2>1, <2>3
  <2>5. Reverse(s) = t
    BY Zenon DEF Reverse
  <2> HIDE DEF t, m
  <2>6. t \in Seq(PatternNames) /\ Len(t) = m
    BY <2>4
  <2>7. Reverse(s) \in Seq(PatternNames) /\ Len(Reverse(s)) = Len(s)
    BY <2>5, <2>6 DEF m
  <2> QED
    BY <2>7 DEF s
<1> HIDE DEF n
<1> QED
  BY <1>3, <1>8, <1>9 DEF AfterPass, n

\* ScrubIsExact for one payload.
Exact(b) ==
    /\ Scrub(b).body = FlattenSeq([i \in 1..Len(b) |-> Outcome(b, i)])
    /\ Len(Scrub(b).findings) = Cardinality({i \in 1..Len(b) : Redacted(b, i)})

\* The body and the number of findings are what is read off the payload.
LEMMA ScrubbedExactly ==
  ASSUME NEW p \in Seq(Pieces)
  PROVE  Exact(p)
<1> DEFINE n == Len(p)
           q == Scrub(p).body
           g == [i \in 1..n |-> Outcome(p, i)]
<1>0. n \in Nat /\ IsPayload(p, n)
  BY PayloadFacts
<1>8. AfterPass(Scrub(p), p, n, 10)
  BY AllPasses
<1>9. PICK c : IsView(q, Stage(p, n, 10), c, n)
  BY <1>8 DEF AfterPass
<1>10. q \in Seq(Buffered)
  BY <1>8 DEF AfterPass
<1> HIDE DEF q
<1>11. \A i \in 1..n : g[i] = Stage(p, n, 10)[i]
                       /\ (g[i] = << >> \/ \E x \in Buffered : g[i] = <<x>>)
  <2> SUFFICES ASSUME NEW i \in 1..n
               PROVE  Outcome(p, i) = Stage(p, n, 10)[i]
                      /\ (Outcome(p, i) = << >> \/ \E x \in Buffered : Outcome(p, i) = <<x>>)
    OBVIOUS
  <2> HIDE DEF n
  <2> QED
    BY <1>0, LastStage
<1>12. g \in Seq(Seq(Buffered)) /\ Len(g) = n
  <2>1. \A i \in 1..n : g[i] \in Seq(Buffered)
    <3> SUFFICES ASSUME NEW i \in 1..n PROVE g[i] \in Seq(Buffered)
      OBVIOUS
    <3>1. << >> \in Seq(Buffered) /\ \A x \in Buffered : <<x>> \in Seq(Buffered)
      OBVIOUS
    <3> HIDE DEF g
    <3> QED
      BY <1>11, <3>1
  <2>2. g \in [1..n -> Seq(Buffered)]
    <3> HIDE DEF n
    <3> QED
      BY <2>1
  <2> HIDE DEF g
  <2>3. g \in Seq(Seq(Buffered)) /\ Len(g) = n
    <3> HIDE DEF n
    <3> QED
      BY <1>0, <2>2
  <2> QED
    BY <2>3
<1>13. q = FlattenSeq(g)
  <2> HIDE DEF g, n
  <2>1. IsFamily(g, n, Buffered)
    BY <1>11 DEF IsFamily
  <2>2. IsView(q, g, c, n)
    BY <1>9, <1>11 DEF IsView
  <2> QED
    BY <1>0, <1>10, <1>12, <2>1, <2>2, ViewIsFlatten
<1>14. Len(Scrub(p).findings) = Cardinality({i \in 1..n : Redacted(p, i)})
  <2>1. Gone(p, n, 10) = {i \in 1..n : Redacted(p, i)}
    <3>1. \A i \in 1..n : i \in Gone(p, n, 10) <=> Redacted(p, i)
      BY <1>0, LastStage
    <3>2. Gone(p, n, 10) \subseteq 1..n
      BY DEF Gone
    <3> QED
      BY <3>1, <3>2
  <2> QED
    BY <1>8, <2>1 DEF AfterPass
<1> QED
  BY <1>13, <1>14 DEF Exact, q

\* No key the patterns look for is left, only numbers.
NoKeys(q) == \A m \in 1..Len(q) : q[m].type = "secret" => Numeric(q[m])

\* Whatever Scrub returns (dlp.go:177) holds none, and its findings can be counted.
LEMMA NoKeyIsLeft ==
  ASSUME NEW p \in Seq(Pieces)
  PROVE  NoKeys(Scrub(p).body) /\ Len(Scrub(p).findings) \in Nat
<1> DEFINE n == Len(p)
           q == Scrub(p).body
           g == Stage(p, n, 10)
<1>0. n \in Nat /\ IsPayload(p, n)
  BY PayloadFacts
<1>1. AfterPass(Scrub(p), p, n, 10)
  BY AllPasses
<1> HIDE DEF n
<1>2. PICK c : IsView(q, g, c, n)
  BY <1>1 DEF AfterPass
<1>3. Len(q) = c[n] /\ Onto(q, g, c, n)
  <2> HIDE DEF g, q
  <2> QED
    BY <1>0, <1>2, ViewOnto DEF IsView
<1>4. ASSUME NEW m \in 1..Len(q), q[m].type = "secret", ~Numeric(q[m])
      PROVE  FALSE
  <2>1. PICK i \in 1..n : g[i] = <<q[m]>>
    <3> HIDE DEF g, q
    <3> QED
      BY <1>3 DEF Onto
  <2> DEFINE x == q[m]
  <2>2. \/ <<x>> = <<Stub>>
        \/ <<x>> = <<Token(AwsSecret)>>
        \/ <<x>> = << >>
        \/ <<x>> = <<Token(p[i].name)>>
        \/ <<x>> = <<p[i]>> /\ ~Found(p, i, 10)
    BY <2>1 DEF Stage
  <2>3. x.type = "secret" /\ ~Numeric(x)
    BY <1>4
  <2> HIDE DEF x, q, g
  <2>4. x = Stub \/ x = Token(AwsSecret) \/ x = Token(p[i].name) \/ (x = p[i] /\ ~Found(p, i, 10))
    BY <2>2
  <2>5. x = p[i] /\ ~Found(p, i, 10)
    BY <2>3, <2>4 DEF Stub, Token
  <2>6. Redacted(p, i)
    BY <2>3, <2>5, KeyIsRedacted
  <2>7. p[i].name \in PatternNames
    <3>1. IsPiece(p[i])
      BY <1>0 DEF IsPayload
    <3> QED
      BY <2>3, <2>5, <3>1 DEF IsPiece, Word, Gap, Labelled
  <2>8. First(10) = PatternNames
    BY PatternFacts DEF First, PatternNames
  <2> QED
    BY <2>3, <2>5, <2>6, <2>7, <2>8 DEF Found
<1>5. NoKeys(q)
  <2> HIDE DEF q
  <2> QED
    BY <1>4 DEF NoKeys
<1>6. Len(Scrub(p).findings) \in Nat
  <2>1. Scrub(p).findings \in Seq(PatternNames)
    BY <1>1 DEF AfterPass
  <2> QED
    BY <2>1
<1> QED
  BY <1>5, <1>6

\* All that the pipeline promises (dlp.go:133-178), for every payload there may be.
THEOREM ScrubExact == ScrubIsExact
<1> SUFFICES ASSUME NEW b \in Payloads PROVE Exact(b)
  BY DEF ScrubIsExact, Exact
<1>1. b \in Seq(Pieces)
  BY PayloadAssumption
<1> QED
  BY <1>1, ScrubbedExactly

-----------------------------------------------------------------------------
(***************************************************************************)
(* The poller, of the allowlist and of PolicyManager alike: it never takes *)
(* a file it has not loaded for one it has, as long as every save gives    *)
(* the file a later modification time.  The theorems about Spec are those  *)
(* of HotReload; Egress leaves its definitions as they are.                *)
(***************************************************************************)

\* The state before NewPolicyManager (policy.go:84-90) satisfies the invariant.
LEMMA InitEstablishes == Init => ReloadInv
<1> SUFFICES ASSUME Init PROVE ReloadInv
  OBVIOUS
<1>1. TypeOK
  <2>1. exists \in BOOLEAN /\ stopCh \in BOOLEAN
    BY Zenon DEF Init
  <2>2. 0 \in 0..MaxWrites
    BY ReloadAssumption
  <2> QED
    BY <2>1, <2>2, ReloadAssumption DEF Init, TypeOK, Contents
<1> QED
  BY <1>1 DEF Init, ReloadInv

(***************************************************************************)
(* What operators do: a saved file is newer than everything load has seen. *)
(***************************************************************************)

\* A save between any two steps of load (policy.go:138-183) keeps the invariant.
LEMMA SavePreserves ==
  ASSUME ~Backdating, ReloadInv, Save
  PROVE  ReloadInv'
<1>1. PICK c \in Contents : Put(c, stamp + 1)
  BY DEF Save
<1>2. /\ exists' = TRUE /\ content' = c /\ mtime' = stamp + 1 /\ stamp' = stamp + 1
      /\ writes' = writes + 1 /\ writes < MaxWrites
      /\ UNCHANGED <<routes, lastMod, pc, info, raw, life, stopCh>>
  BY <1>1 DEF Save, Put, manager, ReloadInv, TypeOK
<1>3. TypeOK'
  BY <1>1, <1>2, ReloadAssumption DEF ReloadInv, TypeOK, Contents
<1>4. lastMod < mtime' /\ info < mtime'
  BY <1>2 DEF ReloadInv, TypeOK
<1> QED
  BY <1>2, <1>3, <1>4 DEF ReloadInv, TypeOK

\* So does a delete between any two steps of load (policy.go:138-183).
LEMMA DeletePreserves ==
  ASSUME ReloadInv, Delete
  PROVE  ReloadInv'
<1>1. /\ exists' = FALSE /\ writes' = writes + 1 /\ writes < MaxWrites
      /\ UNCHANGED <<content, mtime, stamp, routes, lastMod, pc, info, raw, life, stopCh>>
  BY DEF Delete, manager
<1>2. TypeOK'
  <2>1. exists' \in BOOLEAN
    BY <1>1, Zenon
  <2>2. writes' \in 0..MaxWrites
    BY <1>1, ReloadAssumption DEF ReloadInv, TypeOK
  <2> QED
    BY <1>1, <2>1, <2>2 DEF ReloadInv, TypeOK, Contents
<1> QED
  BY <1>1, <1>2 DEF ReloadInv, TypeOK

(***************************************************************************)
(* The steps of load.                                                      *)
(***************************************************************************)

\* An error of load is fatal to the constructor and harmless to the poller
\* (policy.go:91-93, 190-192).
LEMMA FailureReturns ==
  ASSUME TypeOK, Return(FALSE)
  PROVE  /\ pc' = "idle"
         /\ life' \in {"serving", "failed"}
         /\ life' = "serving" => life = "serving"
  BY DEF Return, TypeOK

\* The four outcomes of os.Stat (policy.go:141-158).
LEMMA StatPreserves ==
  ASSUME ReloadInv, Stat
  PROVE  ReloadInv'
<1>1. /\ UNCHANGED <<exists, content, mtime, stamp, writes, routes, lastMod, raw, stopCh>>
      /\ pc = "idle"
  BY DEF Stat, file, manager
<1>2. CASE ~exists /\ pc' = "missing" /\ UNCHANGED <<info, life>>
  BY <1>1, <1>2 DEF ReloadInv, TypeOK, Contents
<1>3. CASE exists /\ mtime <= lastMod /\ Return(TRUE) /\ UNCHANGED info
  <2>1. life # "starting"
    BY <1>1, <1>3 DEF ReloadInv, TypeOK
  <2>2. pc' = "idle" /\ life' = life
    BY <1>3, <2>1 DEF Return
  <2> QED
    BY <1>1, <1>3, <2>2 DEF ReloadInv, TypeOK, Contents
<1>4. CASE exists /\ mtime > lastMod /\ info' = mtime /\ pc' = "read" /\ UNCHANGED life
  BY <1>1, <1>4 DEF ReloadInv, TypeOK, Contents
<1>5. CASE IOErrors /\ Return(FALSE) /\ UNCHANGED info
  <2>1. /\ pc' = "idle" /\ life' \in {"serving", "failed"}
        /\ life' = "serving" => life = "serving"
    BY <1>5, FailureReturns DEF ReloadInv
  <2> QED
    BY <1>1, <1>5, <2>1 DEF ReloadInv, TypeOK, Contents
<1> QED
  BY <1>2, <1>3, <1>4, <1>5 DEF Stat

\* The default, written or not (policy.go:143-150), leaves the file newer than
\* lastModTime: the next poll reads it.
LEMMA WriteDefaultPreserves ==
  ASSUME ReloadInv, WriteDefault
  PROVE  ReloadInv'
<1>1. /\ pc = "missing" /\ raw' = Default /\ pc' = "parse"
      /\ UNCHANGED <<writes, routes, lastMod, info, life, stopCh>>
      /\ Default \in Policies
  BY ReloadAssumption DEF WriteDefault, manager
<1>2. CASE Put(Default, stamp + 1)
  <2>1. exists' = TRUE /\ content' = Default /\ mtime' = stamp + 1 /\ stamp' = stamp + 1
    BY <1>2 DEF Put, ReloadInv, TypeOK
  <2> QED
    BY <1>1, <2>1 DEF ReloadInv, TypeOK, Contents
<1>3. CASE UNCHANGED file
  <2>1. UNCHANGED <<exists, content, mtime, stamp>>
    BY <1>3 DEF file
  <2> QED
    BY <1>1, <2>1 DEF ReloadInv, TypeOK, Contents
<1> QED
  BY <1>2, <1>3 DEF WriteDefault

\* What is read is at least as new as what Stat saw (policy.go:159-162).
LEMMA ReadPreserves ==
  ASSUME ReloadInv, Read
  PROVE  ReloadInv'
<1>1. /\ UNCHANGED <<exists, content, mtime, stamp, writes, routes, lastMod, info, stopCh>>
      /\ pc = "read"
  BY DEF Read, file, manager
<1>2. CASE exists /\ raw' = content /\ pc' = "mark" /\ UNCHANGED life
  BY <1>1, <1>2 DEF ReloadInv, TypeOK, Contents
<1>3. CASE Return(FALSE) /\ UNCHANGED raw
  <2>1. /\ pc' = "idle" /\ life' \in {"serving", "failed"}
        /\ life' = "serving" => life = "serving"
    BY <1>3, FailureReturns DEF ReloadInv
  <2>2. exists => lastMod < mtime
    BY <1>1 DEF ReloadInv
  <2> QED
    BY <1>1, <1>3, <2>1, <2>2 DEF ReloadInv, TypeOK, Contents
<1> QED
  BY <1>2, <1>3 DEF Read

\* The time recorded is the one Stat saw (policy.go:163-165), never a later one.
LEMMA MarkPreserves ==
  ASSUME ReloadInv, Mark
  PROVE  ReloadInv'
<1>1. /\ UNCHANGED <<exists, content, mtime, stamp, writes, routes, info, raw, life, stopCh>>
      /\ pc = "mark" /\ lastMod' = info /\ pc' = "parse"
  BY DEF Mark, file
<1> QED
  BY <1>1 DEF ReloadInv, TypeOK, Contents

\* What parses is installed, and the constructor succeeds only then
\* (policy.go:168-183, 91-93).
LEMMA ParsePreserves ==
  ASSUME ReloadInv, Parse
  PROVE  ReloadInv'
<1>1. /\ UNCHANGED <<exists, content, mtime, stamp, writes, lastMod, info, raw, stopCh>>
      /\ pc = "parse"
  BY DEF Parse, file
<1>2. CASE raw \in Policies
  <2>1. routes' = raw /\ pc' = "idle" /\ life' \in {"serving", "failed"}
    BY <1>2 DEF Parse, Return, ReloadInv, TypeOK
  <2> QED
    BY <1>1, <1>2, <2>1 DEF ReloadInv, TypeOK, Contents
<1>3. CASE raw \notin Policies
  <2>1. routes' = routes /\ Return(FALSE)
    <3>1. (raw \in Policies) = FALSE
      BY <1>3
    <3> QED
      BY <1>3, <3>1, Zenon DEF Parse
  <2>2. /\ pc' = "idle" /\ life' \in {"serving", "failed"}
        /\ life' = "serving" => life = "serving"
    BY <2>1, FailureReturns DEF ReloadInv
  <2> QED
    BY <1>1, <1>3, <2>1, <2>2 DEF ReloadInv, TypeOK, Contents
<1> QED
  BY <1>2, <1>3

\* Every step of load, of its poller and of the operators keeps the invariant.
LEMMA NextPreserves ==
  ASSUME ~Backdating, ReloadInv, [Next]_vars
  PROVE  ReloadInv'
<1>1. CASE Save
  BY <1>1, SavePreserves
<1>2. CASE Delete
  BY <1>2, DeletePreserves
<1>3. CASE Stat
  BY <1>3, StatPreserves
<1>4. CASE WriteDefault
  BY <1>4, WriteDefaultPreserves
<1>5. CASE Read
  BY <1>5, ReadPreserves
<1>6. CASE Mark
  BY <1>6, MarkPreserves
<1>7. CASE Parse
  BY <1>7, ParsePreserves
<1>8. CASE PollerStops
  BY <1>8 DEF PollerStops, file, manager, ReloadInv, TypeOK, Contents
<1>9. CASE Shutdown
  BY <1>9 DEF Shutdown, file, manager, ReloadInv, TypeOK, Contents
<1>10. CASE UNCHANGED vars
  BY <1>10 DEF vars, file, manager, ReloadInv, TypeOK, Contents
<1> QED
  BY <1>1, <1>2, <1>3, <1>4, <1>5, <1>6, <1>7, <1>8, <1>9, <1>10 DEF Next, LoadStep

-----------------------------------------------------------------------------
(***************************************************************************)
(* What holds of the loader whatever becomes of modification times, also   *)
(* when a file is moved into place that is older than the one before: the  *)
(* first load cannot take the file for one it knows, because lastModTime   *)
(* is the zero time until it has read one.                                 *)
(***************************************************************************)
Armed ==
    /\ TypeOK
    /\ exists => 0 < mtime
    /\ life = "starting" => pc = "parse" \/ lastMod = 0
    /\ ServingMeansLoaded

\* Nothing has been loaded before NewPolicyManager (policy.go:84-90).
LEMMA ArmedInit == Init => Armed
<1>1. Init => ReloadInv
  BY InitEstablishes
<1> QED
  BY <1>1 DEF ReloadInv, Armed, ServingMeansLoaded

\* Operators save any file they like (policy.go:138-158 stats what is there).
LEMMA ArmedSave ==
  ASSUME Armed, Save
  PROVE  Armed'
<1>1. PICK c \in Contents, t \in Nat : Put(c, t) /\ 0 < t
  BY DEF Save, Armed, TypeOK
<1>2. /\ exists' = TRUE /\ content' = c /\ mtime' = t /\ stamp' \in Nat
      /\ writes' = writes + 1 /\ writes < MaxWrites
      /\ UNCHANGED <<routes, lastMod, pc, info, raw, life, stopCh>>
  BY <1>1 DEF Save, Put, manager, Armed, TypeOK
<1>3. TypeOK'
  BY <1>1, <1>2, ReloadAssumption DEF Armed, TypeOK, Contents
<1> QED
  BY <1>1, <1>2, <1>3 DEF Armed, ServingMeansLoaded

\* No step of load (policy.go:138-183) serves without a policy.
LEMMA ArmedLoad ==
  ASSUME Armed, LoadStep
  PROVE  Armed'
<1> USE DEF Armed, ServingMeansLoaded
<1>1. CASE Stat
  <2>1. /\ UNCHANGED <<exists, content, mtime, stamp, writes, routes, lastMod, raw, stopCh>>
        /\ pc = "idle"
    BY <1>1 DEF Stat, file, manager
  <2>2. CASE ~exists /\ pc' = "missing" /\ UNCHANGED <<info, life>>
    BY <2>1, <2>2 DEF TypeOK, Contents
  <2>3. CASE exists /\ mtime <= lastMod /\ Return(TRUE) /\ UNCHANGED info
    <3>1. life # "starting"
      BY <2>1, <2>3 DEF TypeOK
    <3>2. pc' = "idle" /\ life' = life
      BY <2>3, <3>1 DEF Return
    <3> QED
      BY <2>1, <2>3, <3>2 DEF TypeOK, Contents
  <2>4. CASE exists /\ mtime > lastMod /\ info' = mtime /\ pc' = "read" /\ UNCHANGED life
    BY <2>1, <2>4 DEF TypeOK, Contents
  <2>5. CASE IOErrors /\ Return(FALSE) /\ UNCHANGED info
    <3>1. /\ pc' = "idle" /\ life' \in {"serving", "failed"}
          /\ life' = "serving" => life = "serving"
      BY <2>5, FailureReturns
    <3> QED
      BY <2>1, <2>5, <3>1 DEF TypeOK, Contents
  <2> QED
    BY <1>1, <2>2, <2>3, <2>4, <2>5 DEF Stat
<1>2. CASE WriteDefault
  <2>1. /\ raw' = Default /\ pc' = "parse" /\ Default \in Policies
        /\ UNCHANGED <<writes, routes, lastMod, info, life, stopCh>>
    BY <1>2, ReloadAssumption DEF WriteDefault, manager
  <2>2. CASE Put(Default, stamp + 1)
    <3>1. exists' = TRUE /\ content' = Default /\ mtime' = stamp + 1 /\ stamp' = stamp + 1
      BY <2>2 DEF Put, TypeOK
    <3> QED
      BY <2>1, <3>1 DEF TypeOK, Contents
  <2>3. CASE UNCHANGED file
    BY <2>1, <2>3 DEF file, TypeOK, Contents
  <2> QED
    BY <1>2, <2>2, <2>3 DEF WriteDefault
<1>3. CASE Read
  <2>1. /\ UNCHANGED <<exists, content, mtime, stamp, writes, routes, lastMod, info, stopCh>>
        /\ pc = "read"
    BY <1>3 DEF Read, file, manager
  <2>2. CASE exists /\ raw' = content /\ pc' = "mark" /\ UNCHANGED life
    BY <2>1, <2>2 DEF TypeOK, Contents
  <2>3. CASE Return(FALSE) /\ UNCHANGED raw
    <3>1. /\ pc' = "idle" /\ life' \in {"serving", "failed"}
          /\ life' = "serving" => life = "serving"
      BY <2>3, FailureReturns
    <3> QED
      BY <2>1, <2>3, <3>1 DEF TypeOK, Contents
  <2> QED
    BY <1>3, <2>2, <2>3 DEF Read
<1>4. CASE Mark
  BY <1>4 DEF Mark, file, TypeOK, Contents
<1>5. CASE Parse
  <2>1. /\ UNCHANGED <<exists, content, mtime, stamp, writes, lastMod, info, raw, stopCh>>
        /\ pc = "parse"
    BY <1>5 DEF Parse, file
  <2>2. CASE raw \in Policies
    <3>1. routes' = raw /\ pc' = "idle" /\ life' \in {"serving", "failed"}
      BY <1>5, <2>2 DEF Parse, Return, TypeOK
    <3> QED
      BY <2>1, <2>2, <3>1 DEF TypeOK, Contents
  <2>3. CASE raw \notin Policies
    <3>1. routes' = routes /\ Return(FALSE)
      <4>1. (raw \in Policies) = FALSE
        BY <2>3
      <4> QED
        BY <1>5, <2>3, <4>1, Zenon DEF Parse
    <3>2. /\ pc' = "idle" /\ life' \in {"serving", "failed"}
          /\ life' = "serving" => life = "serving"
      BY <3>1, FailureReturns
    <3> QED
      BY <2>1, <2>3, <3>1, <3>2 DEF TypeOK, Contents
  <2> QED
    BY <2>2, <2>3
<1>6. CASE PollerStops
  BY <1>6 DEF PollerStops, file, manager, TypeOK, Contents
<1> QED
  BY <1>1, <1>2, <1>3, <1>4, <1>5, <1>6 DEF LoadStep

\* Nor does any other.
LEMMA ArmedNext ==
  ASSUME Armed, [Next]_vars
  PROVE  Armed'
<1>1. CASE Delete
  <2>1. /\ exists' = FALSE /\ writes' = writes + 1 /\ writes < MaxWrites
        /\ UNCHANGED <<content, mtime, stamp, routes, lastMod, pc, info, raw, life, stopCh>>
    BY <1>1 DEF Delete, manager
  <2>2. exists' \in BOOLEAN
    BY <2>1, Zenon
  <2>3. writes' \in 0..MaxWrites
    BY <2>1, ReloadAssumption DEF Armed, TypeOK
  <2> QED
    BY <2>1, <2>2, <2>3 DEF Armed, TypeOK, Contents, ServingMeansLoaded
<1>2. CASE Shutdown
  BY <1>2 DEF Shutdown, file, manager, Armed, TypeOK, Contents, ServingMeansLoaded
<1>3. CASE UNCHANGED vars
  BY <1>3 DEF vars, file, manager, Armed, TypeOK, Contents, ServingMeansLoaded
<1> QED
  BY <1>1, <1>2, <1>3, ArmedSave, ArmedLoad DEF Next

-----------------------------------------------------------------------------

\* The inductive invariant holds of every behaviour of load and its poller
\* (policy.go:138-199) as long as modification times grow.
THEOREM ReloadInvariance ==
  ASSUME ~Backdating
  PROVE  Spec => []ReloadInv
<1>1. Init => ReloadInv
  BY InitEstablishes
<1>2. ReloadInv /\ [Next]_vars => ReloadInv'
  BY NextPreserves
<1> QED
  BY <1>1, <1>2, PTL DEF Spec

\* "No change" (policy.go:152-158) is never answered for a file whose policy is not in
\* force, however saves and deletes fall between the steps of load.
THEOREM NoMissedUpdate ==
  ASSUME ~Backdating
  PROVE  Spec => []CaughtUpMeansCurrent
<1>1. ReloadInv => CaughtUpMeansCurrent
  BY DEF ReloadInv, CaughtUpMeansCurrent
<1> QED
  BY <1>1, ReloadInvariance, PTL

\* The gateway never serves without a policy (policy.go:91-93), whatever modification
\* times the files bring along.
THEOREM AlwaysAPolicy == Spec => []ServingMeansLoaded
<1>1. Armed => ServingMeansLoaded
  BY DEF Armed
<1> QED
  BY <1>1, ArmedInit, ArmedNext, PTL DEF Spec

-----------------------------------------------------------------------------
(***************************************************************************)
(* The proxy.  The inductive invariant of a call: nothing is counted,      *)
(* reported or sent before the body is prepared; from there on the headers *)
(* agree with the body and the counters.  What a call reads of the         *)
(* allowlist is a policy, because the proxy is armed only after the first  *)
(* load.                                                                   *)
(***************************************************************************)
Untouched == tally = NoTally /\ audit = {} /\ arrived = {}

Prepared ==
    /\ Signer => headers.sig = payload
    /\ headers.redactions = tally.findings
    /\ tally.allowed = 0 /\ tally.blocked = 0
    /\ tally.findings > 0 <=> "findings" \in audit
    /\ audit \subseteq {"findings"} /\ arrived = {}
    /\ DOMAIN tally = {"allowed", "blocked", "findings"}

CallInv ==
    /\ at \in {"idle", "lookup", "refused", "admitted", "forward"}
    /\ at # "idle" => seen \in Policies
    /\ at \in {"lookup", "refused", "admitted"} => Untouched
    /\ at = "lookup" => host \in Names
    /\ at \in {"admitted", "forward"} => CanAdmit(seen, host)
    /\ at = "forward" => Prepared
    /\ arrived # {} => seen \in Policies /\ CanAdmit(seen, host)
    /\ AccountedFor

-----------------------------------------------------------------------------

\* Before the first request (proxy.go:48-61) nothing has been counted or sent.
LEMMA CallInitEstablishes == EgressInit => CallInv
  BY DEF EgressInit, CallInv, AccountedFor, NoTally, NoHeaders

\* IsAllowed reads a policy, because main has an allowlist only after its first load
\* (main.go:500-512), and admits at once only what that policy lists
\* (allowlist.go:85-112).
LEMMA CallPreserves ==
  ASSUME ServingMeansLoaded, CallInv, NEW h \in Hosts, Call(h)
  PROVE  CallInv'
<1>1. seen' \in Policies
  BY DEF Call, ServingMeansLoaded
<1>2. Untouched'
  BY DEF Call, Untouched
<1>3. host' = h /\ seen' = routes
  BY DEF Call
<1>4. CASE Lists(routes, h)
  <2>1. at' = "admitted"
    BY <1>4 DEF Call
  <2>2. CanAdmit(seen, host)'
    BY <1>3, <1>4 DEF CanAdmit, Lists, Listed
  <2> QED
    BY <1>1, <1>2, <2>1, <2>2 DEF CallInv, AccountedFor, Untouched
<1>5. CASE ~Lists(routes, h)
  <2>1. at' \in {"lookup", "refused"} /\ (at' = "lookup" => h \in Names)
    BY <1>5 DEF Call
  <2> QED
    BY <1>1, <1>2, <1>3, <2>1 DEF CallInv, AccountedFor, Untouched
<1> QED
  BY <1>4, <1>5

\* One address in a block is what CanAdmit asks for (allowlist.go:114-126).
LEMMA LookupPreserves ==
  ASSUME CallInv, Lookup
  PROVE  CallInv'
<1>1. PICK ips \in Answers[host] \cup {{}} :
          at' = IF ips \cap Cidrs[seen] # {} THEN "admitted" ELSE "refused"
  BY DEF Lookup
<1>2. /\ at = "lookup" /\ host \in Names /\ seen \in Policies /\ Untouched
      /\ UNCHANGED <<host, seen, payload, headers, tally, audit, arrived>>
  BY DEF Lookup, CallInv
<1>3. CASE ips \cap Cidrs[seen] # {}
  <2>1. ips \in Answers[host]
    BY <1>1, <1>3
  <2>2. CanAdmit(seen, host)
    BY <1>2, <1>3, <2>1 DEF CanAdmit
  <2>3. CanAdmit(seen, host)'
    BY <1>2, <2>2 DEF CanAdmit, Lists, Listed
  <2> QED
    BY <1>1, <1>2, <1>3, <2>3 DEF CallInv, AccountedFor, Untouched
<1>4. CASE ips \cap Cidrs[seen] = {}
  BY <1>1, <1>2, <1>4 DEF CallInv, AccountedFor, Untouched
<1> QED
  BY <1>3, <1>4

\* A blocked call (proxy.go:88-94) has sent nothing and found nothing.
LEMMA RefusePreserves ==
  ASSUME CallInv, Refuse
  PROVE  CallInv'
  BY DEF Refuse, CallInv, AccountedFor, Untouched, NoTally

\* A body that cannot be read (proxy.go:97-105) leaves the call as it was.
LEMMA UnreadablePreserves ==
  ASSUME CallInv, Unreadable
  PROVE  CallInv'
  BY DEF Unreadable, CallInv, AccountedFor, Untouched, NoTally

\* The headers are made from the body and the findings of one run of Scrub
\* (proxy.go:107-163), and the findings are reported before anything can fail.
LEMMA PreparePreserves ==
  ASSUME CallInv, Prepare
  PROVE  CallInv'
<1> DEFINE Piped(b) == Scrub(SubSeq(b, 1, IF Len(b) > Cap THEN Cap ELSE Len(b)))
<1>1. PICK b \in Bodies :
        /\ payload' = Piped(b).body
        /\ tally' = [tally EXCEPT !.findings = Len(Piped(b).findings)]
        /\ audit' = IF Len(Piped(b).findings) > 0 THEN audit \cup {"findings"} ELSE audit
        /\ \/ /\ at' = "forward"
              /\ headers' = [sig |-> IF Signer THEN Piped(b).body ELSE << >>,
                             redactions |-> Len(Piped(b).findings)]
           \/ /\ Signer /\ Len(Piped(b).body) > 0
              /\ at' = "idle"
              /\ UNCHANGED headers
  BY DEF Prepare
<1> DEFINE body == Piped(b).body
           found == Len(Piped(b).findings)
<1>2. /\ at = "admitted" /\ Untouched /\ seen \in Policies /\ CanAdmit(seen, host)
      /\ UNCHANGED <<host, seen, arrived>>
  BY DEF Prepare, CallInv
<1> HIDE DEF Piped
<1>3. tally' = [allowed |-> 0, blocked |-> 0, findings |-> found]
  BY <1>1, <1>2 DEF Untouched, NoTally
<1>4. (found > 0 <=> "findings" \in audit') /\ audit' \subseteq {"findings"}
  BY <1>1, <1>2 DEF Untouched
<1>5. CanAdmit(seen, host)' /\ seen' \in Policies /\ arrived' = {}
  BY <1>2 DEF CanAdmit, Lists, Listed, Untouched
<1>6. CASE /\ at' = "forward"
           /\ headers' = [sig |-> IF Signer THEN body ELSE << >>, redactions |-> found]
  <2>1. headers'.redactions = found /\ (Signer => headers'.sig = payload')
    BY <1>1, <1>6
  <2>2. Prepared'
    BY <1>3, <1>4, <1>5, <2>1 DEF Prepared
  <2> QED
    BY <1>5, <1>6, <2>2 DEF CallInv, AccountedFor
<1>7. CASE at' = "idle"
  <2>1. AccountedFor'
    BY <1>3, <1>4, <1>5 DEF AccountedFor
  <2> QED
    BY <1>5, <1>7, <2>1 DEF CallInv
<1> QED
  BY <1>1, <1>6, <1>7

\* What arrived is the body the headers were made from, whatever becomes of the answer
\* (proxy.go:165-186).
LEMMA AnsweredPreserves ==
  ASSUME CallInv, Answered
  PROVE  CallInv'
<1>1. /\ at = "forward" /\ Prepared /\ seen \in Policies /\ CanAdmit(seen, host)
      /\ at' = "idle" /\ arrived' = {payload} /\ audit' = audit \cup {"success"}
      /\ tally' = [tally EXCEPT !.allowed = 1]
      /\ UNCHANGED <<host, seen, payload, headers>>
  BY DEF Answered, CallInv
<1>2. /\ tally'.allowed = 1 /\ tally'.blocked = 0
      /\ tally'.findings = tally.findings
  BY <1>1 DEF Prepared
<1>3. CanAdmit(seen, host)'
  BY <1>1 DEF CanAdmit, Lists, Listed
<1>4. AccountedFor'
  BY <1>1, <1>2, <1>3 DEF AccountedFor, Prepared
<1> QED
  BY <1>1, <1>3, <1>4 DEF CallInv

\* A request that fails has sent that body or nothing (proxy.go:165-174).
LEMMA ForwardFailedPreserves ==
  ASSUME CallInv, ForwardFailed
  PROVE  CallInv'
<1>1. /\ at = "forward" /\ Prepared /\ seen \in Policies /\ CanAdmit(seen, host)
      /\ at' = "idle" /\ arrived' \in {{}, {payload}} /\ audit' = audit \cup {"failure"}
      /\ UNCHANGED <<host, seen, payload, headers, tally>>
  BY DEF ForwardFailed, CallInv
<1>2. CanAdmit(seen, host)'
  BY <1>1 DEF CanAdmit, Lists, Listed
<1>3. AccountedFor'
  BY <1>1, <1>2 DEF AccountedFor, Prepared
<1> QED
  BY <1>1, <1>2, <1>3 DEF CallInv

-----------------------------------------------------------------------------

\* A step of the whole is a step of the allowlist's loader or leaves it alone
\* (allowlist.go:85-88): calls only read it.
LEMMA CallsOnlyRead == [EgressNext]_egress => [Next]_vars
  BY DEF EgressNext, egress, Call, CallStep, Lookup, Refuse, Unreadable, Prepare,
         Answered, ForwardFailed

\* Every step keeps the invariant of the call: reloads in the middle of one do not
\* disturb it, because IsAllowed reads the lists once (allowlist.go:85-88).
LEMMA EgressNextPreserves ==
  ASSUME ServingMeansLoaded, CallInv, [EgressNext]_egress
  PROVE  CallInv'
<1>1. CASE UNCHANGED call
  BY <1>1 DEF call, CallInv, AccountedFor, Untouched, Prepared, CanAdmit, Lists, Listed
<1>2. CASE \E h \in Hosts : Call(h)
  BY <1>2, CallPreserves
<1>3. CASE Lookup
  BY <1>3, LookupPreserves
<1>4. CASE Refuse
  BY <1>4, RefusePreserves
<1>5. CASE Unreadable
  BY <1>5, UnreadablePreserves
<1>6. CASE Prepare
  BY <1>6, PreparePreserves
<1>7. CASE Answered
  BY <1>7, AnsweredPreserves
<1>8. CASE ForwardFailed
  BY <1>8, ForwardFailedPreserves
<1> QED
  BY <1>1, <1>2, <1>3, <1>4, <1>5, <1>6, <1>7, <1>8 DEF EgressNext, egress, CallStep

-----------------------------------------------------------------------------

\* The allowlist behind the proxy keeps the invariant of the loader it shares with the
\* policy manager (allowlist.go:58-73).
LEMMA LoaderInvariance ==
  ASSUME ~Backdating
  PROVE  EgressSpec => []ReloadInv
<1>1. EgressInit => ReloadInv
  BY InitEstablishes DEF EgressInit
<1>2. ReloadInv /\ [EgressNext]_egress => ReloadInv'
  BY CallsOnlyRead, NextPreserves
<1> QED
  BY <1>1, <1>2, PTL DEF EgressSpec

\* So no poll of the allowlist takes a file it has not loaded for one it has, although
\* requests run at the same time.
THEOREM AllowlistMissesNoUpdate ==
  ASSUME ~Backdating
  PROVE  EgressSpec => []CaughtUpMeansCurrent
<1>1. ReloadInv => CaughtUpMeansCurrent
  BY DEF ReloadInv, CaughtUpMeansCurrent
<1> QED
  BY <1>1, LoaderInvariance, PTL

\* It has a policy in force whenever the proxy is armed (main.go:500-512).
LEMMA ArmedInvariance == EgressSpec => []Armed
<1>1. EgressInit => Armed
  BY ArmedInit DEF EgressInit
<1>2. Armed /\ [EgressNext]_egress => Armed'
  BY CallsOnlyRead, ArmedNext
<1> QED
  BY <1>1, <1>2, PTL DEF EgressSpec

\* The invariant of a call holds however calls, reloads and operators interleave.
LEMMA CallInvariance == EgressSpec => []CallInv
<1>1. EgressInit => CallInv
  BY CallInitEstablishes
<1>2. Armed /\ CallInv /\ [EgressNext]_egress => CallInv'
  BY EgressNextPreserves DEF Armed
<1> QED
  BY <1>1, <1>2, ArmedInvariance, PTL DEF EgressSpec

\* Every call that has returned is accounted for (proxy.go:80-187).
THEOREM CallsAreAccountedFor == EgressSpec => []AccountedFor
<1>1. CallInv => AccountedFor
  BY DEF CallInv
<1> QED
  BY <1>1, CallInvariance, PTL

\* Nothing reaches a destination before an allowlist is in force (main.go:500-512), and
\* then only one that the policy IsAllowed read can admit.
THEOREM NothingSentUnlisted ==
  EgressSpec => [](arrived # {} => seen \in Policies /\ CanAdmit(seen, host))
<1>1. CallInv => (arrived # {} => seen \in Policies /\ CanAdmit(seen, host))
  BY DEF CallInv
<1> QED
  BY <1>1, CallInvariance, PTL

-----------------------------------------------------------------------------
(***************************************************************************)
(* What is scrubbed.                                                       *)
(***************************************************************************)

\* ScrubExact, for the payloads of the runs and any others.
THEOREM PipelineExact == EgressSpec => []PipelineIsExact
<1>1. PipelineIsExact
  BY ScrubExact DEF PipelineIsExact
<1> QED
  BY <1>1, PTL

\* What the body of a request is after Scrub: its beginning, up to the cap.
Piped(b) == Scrub(SubSeq(b, 1, IF Len(b) > Cap THEN Cap ELSE Len(b)))

\* It holds no key, and its findings can be counted (proxy.go:107-127).
LEMMA PipedBody ==
  ASSUME NEW b \in Bodies
  PROVE  Len(Piped(b).findings) \in Nat /\ NoKeys(Piped(b).body)
<1> DEFINE m == IF Len(b) > Cap THEN Cap ELSE Len(b)
           p == SubSeq(b, 1, m)
<1>1. b \in Seq(Pieces) /\ Cap \in Nat
  BY EgressAssumption
<1>2. m \in Nat /\ m <= Len(b)
  BY <1>1
<1>3. p \in Seq(Pieces)
  <2> HIDE DEF m
  <2>1. \A i \in 1..m : b[i] \in Pieces
    BY <1>1, <1>2
  <2> QED
    BY <1>1, <1>2, <2>1, SubSeqProperties
<1> HIDE DEF p
<1>4. Piped(b) = Scrub(p)
  BY DEF Piped, p
<1> QED
  BY <1>3, <1>4, NoKeyIsLeft

\* The body of a call under way, and what has arrived of it, is scrubbed.
ScrubInv ==
    /\ NoKeys(payload) /\ \A b \in arrived : NoKeys(b)
    /\ host \in Hosts /\ seen \in Policies \cup {Unloaded}
    /\ tally \in [allowed : 0..1, blocked : 0..1, findings : Nat]
    /\ audit \subseteq {"block", "findings", "success", "failure"}

\* Before the first request (proxy.go:48-61) there is no body.
LEMMA ScrubInitEstablishes == EgressInit => ScrubInv
<1> SUFFICES ASSUME EgressInit PROVE ScrubInv
  OBVIOUS
<1>1. NoKeys(<< >>)
  BY DEF NoKeys
<1>2. host \in Hosts
  BY EgressAssumption DEF EgressInit
<1> QED
  BY <1>1, <1>2 DEF EgressInit, ScrubInv, NoTally

\* Every step keeps it: only Prepare (proxy.go:107-146) makes a body, by Scrub.
LEMMA ScrubNextPreserves ==
  ASSUME TypeOK, ScrubInv, [EgressNext]_egress
  PROVE  ScrubInv'
<1>1. CASE UNCHANGED call
  BY <1>1 DEF call, ScrubInv
<1>2. ASSUME NEW h \in Hosts, Call(h) PROVE ScrubInv'
  <2>1. NoKeys(<< >>)
    BY DEF NoKeys
  <2>2. /\ host' = h /\ seen' = routes /\ payload' = << >> /\ arrived' = {}
        /\ tally' = NoTally /\ audit' = {}
    BY <1>2 DEF Call
  <2>3. routes \in Policies \cup {Unloaded}
    BY DEF TypeOK
  <2> QED
    BY <2>1, <2>2, <2>3 DEF ScrubInv, NoTally
<1>3. CASE Lookup \/ Unreadable
  BY <1>3 DEF Lookup, Unreadable, ScrubInv
<1>4. CASE Refuse
  BY <1>4 DEF Refuse, ScrubInv
<1>5. CASE Prepare
  <2>1. PICK b \in Bodies :
          /\ payload' = Piped(b).body
          /\ tally' = [tally EXCEPT !.findings = Len(Piped(b).findings)]
          /\ audit' = IF Len(Piped(b).findings) > 0 THEN audit \cup {"findings"} ELSE audit
          /\ UNCHANGED <<host, seen, arrived>>
    BY <1>5 DEF Prepare, Piped
  <2>2. Len(Piped(b).findings) \in Nat /\ NoKeys(Piped(b).body)
    BY PipedBody
  <2> QED
    BY <2>1, <2>2 DEF ScrubInv
<1>6. CASE Answered
  BY <1>6 DEF Answered, ScrubInv
<1>7. CASE ForwardFailed
  BY <1>7 DEF ForwardFailed, ScrubInv
<1> QED
  BY <1>1, <1>2, <1>3, <1>4, <1>5, <1>6, <1>7 DEF EgressNext, egress, CallStep

\* So it is, however calls, reloads and operators interleave.
LEMMA ScrubInvariance == EgressSpec => []ScrubInv
<1>1. Armed /\ ScrubInv /\ [EgressNext]_egress => ScrubInv'
  BY ScrubNextPreserves DEF Armed
<1> QED
  BY <1>1, ArmedInvariance, ScrubInitEstablishes, PTL DEF EgressSpec

\* The variables of loader and call keep their types (proxy.go:80-187).
THEOREM EgressTypeCorrect == EgressSpec => []EgressTypeOK
<1>1. Armed /\ CallInv /\ ScrubInv => EgressTypeOK
  BY DEF Armed, CallInv, ScrubInv, EgressTypeOK
<1> QED
  BY <1>1, ArmedInvariance, CallInvariance, ScrubInvariance, PTL

\* Whatever has arrived at a destination holds no key the patterns look for, only numbers
\* that did not stand free or are no cards (proxy.go:97-186).  A key that the cap cuts in
\* two is no longer one: the cap falls between pieces.
THEOREM NoKeyIsSent ==
  EgressSpec => [](\A b \in arrived : NoKeys(b))
<1>1. ScrubInv => \A b \in arrived : NoKeys(b)
  BY DEF ScrubInv
<1> QED
  BY <1>1, ScrubInvariance, PTL

=============================================================================
