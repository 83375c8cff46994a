------------------------ MODULE ConferenceMixerProofs ------------------------
(***************************************************************************)
(* Proofs about ConferenceMixer for any channels, energies and bound on    *)
(* the mix: each channel that plays out is listed once, Process() mixes    *)
(* the loudest and ramps the others in and out, every frame is returned    *)
(* once and heard, and no lock is held where _cbCrit is waited for.        *)
(***************************************************************************)
EXTENDS ConferenceMixer, FiniteSetTheorems, SequenceTheorems, WellFoundedInduction, TLAPS

-----------------------------------------------------------------------------
(* Sequences as lists without repetition. *)

\* The members of a list, by position.
LEMMA SetOf ==
  ASSUME NEW S, NEW s \in Seq(S)
  PROVE  /\ DOMAIN s = 1 .. Len(s) /\ Len(s) \in Nat
         /\ \A x : x \in ToSet(s) <=> \E i \in 1 .. Len(s) : s[i] = x
         /\ ToSet(s) \subseteq S
         /\ \A i \in 1 .. Len(s) : s[i] \in S
         /\ IsInjective(s) <=> \A i, j \in 1 .. Len(s) : s[i] = s[j] => i = j
         /\ s = <<>> <=> Len(s) = 0
BY DEF ToSet, IsInjective

\* The empty list has no members.
LEMMA EmptySet ==
  ToSet(<<>>) = {} /\ IsInjective(<<>>) /\ \A S : <<>> \in Seq(S)
BY DEF ToSet, IsInjective

\* Only the empty list has no members.
LEMMA NoneIsEmpty ==
  ASSUME NEW S, NEW s \in Seq(S)
  PROVE  ToSet(s) = {} <=> s = <<>>
<1>1. CASE s = <<>>
  BY <1>1, EmptySet
<1>2. CASE s # <<>>
  <2>1. s[1] \in ToSet(s)
    BY <1>2, SetOf
  <2> QED BY <1>2, <2>1
<1> QED BY <1>1, <1>2

\* A list with one more at its end.
LEMMA Appended ==
  ASSUME NEW S, NEW s \in Seq(S), NEW x \in S
  PROVE  /\ Append(s, x) \in Seq(S) /\ Len(Append(s, x)) = Len(s) + 1
         /\ ToSet(Append(s, x)) = ToSet(s) \cup {x}
         /\ IsInjective(s) /\ x \notin ToSet(s) => IsInjective(Append(s, x))
<1> DEFINE t == Append(s, x)
<1>1. /\ t \in Seq(S) /\ Len(t) = Len(s) + 1 /\ t[Len(s) + 1] = x
      /\ \A i \in 1 .. Len(s) : t[i] = s[i]
  BY AppendProperties
<1> HIDE DEF t
<1>2. Len(s) \in Nat /\ 1 .. Len(t) = (1 .. Len(s)) \cup {Len(s) + 1}
  BY <1>1, SetOf
<1>3. ToSet(t) = ToSet(s) \cup {x}
  BY <1>1, <1>2, SetOf
<1>4. ASSUME IsInjective(s), x \notin ToSet(s) PROVE IsInjective(t)
  BY <1>1, <1>2, <1>4, SetOf
<1> QED BY <1>1, <1>3, <1>4 DEF t

\* Two lists one after the other.
LEMMA Joined ==
  ASSUME NEW S, NEW s \in Seq(S), NEW t \in Seq(S)
  PROVE  /\ s \o t \in Seq(S) /\ Len(s \o t) = Len(s) + Len(t)
         /\ ToSet(s \o t) = ToSet(s) \cup ToSet(t)
         /\ IsInjective(s \o t) <=>
              IsInjective(s) /\ IsInjective(t) /\ ToSet(s) \cap ToSet(t) = {}
<1> DEFINE u == s \o t
           m == Len(s)
           n == Len(t)
<1>1. /\ u \in Seq(S) /\ Len(u) = m + n /\ m \in Nat /\ n \in Nat
      /\ \A i \in 1 .. m + n : u[i] = IF i <= m THEN s[i] ELSE t[i - m]
  BY ConcatProperties, SetOf
<1> HIDE DEF u, m, n
<1>2. /\ \A i \in 1 .. m : u[i] = s[i] /\ i \in 1 .. m + n
      /\ \A i \in 1 .. n : u[m + i] = t[i] /\ m + i \in 1 .. m + n
      /\ \A i \in 1 .. m + n : i \in 1 .. m \/ \E j \in 1 .. n : i = m + j
  <2>1. \A i \in 1 .. m + n : i \in 1 .. m \/ (i - m \in 1 .. n /\ i = m + (i - m))
    BY <1>1
  <2>2. \A i \in 1 .. n : m + i \in 1 .. m + n /\ ~(m + i <= m) /\ m + i - m = i
    BY <1>1
  <2> QED BY <1>1, <2>1, <2>2
<1>3. /\ \A x : x \in ToSet(s) <=> \E i \in 1 .. m : s[i] = x
      /\ \A x : x \in ToSet(t) <=> \E i \in 1 .. n : t[i] = x
      /\ \A x : x \in ToSet(u) <=> \E i \in 1 .. m + n : u[i] = x
      /\ IsInjective(s) <=> \A i, j \in 1 .. m : s[i] = s[j] => i = j
      /\ IsInjective(t) <=> \A i, j \in 1 .. n : t[i] = t[j] => i = j
      /\ IsInjective(u) <=> \A i, j \in 1 .. m + n : u[i] = u[j] => i = j
  <2>1. /\ \A x : x \in ToSet(s) <=> \E i \in 1 .. m : s[i] = x
        /\ IsInjective(s) <=> \A i, j \in 1 .. m : s[i] = s[j] => i = j
    BY SetOf DEF m
  <2>2. /\ \A x : x \in ToSet(t) <=> \E i \in 1 .. n : t[i] = x
        /\ IsInjective(t) <=> \A i, j \in 1 .. n : t[i] = t[j] => i = j
    BY SetOf DEF n
  <2>3. /\ \A x : x \in ToSet(u) <=> \E i \in 1 .. m + n : u[i] = x
        /\ IsInjective(u) <=> \A i, j \in 1 .. m + n : u[i] = u[j] => i = j
    <3>1. /\ \A x : x \in ToSet(u) <=> \E i \in 1 .. Len(u) : u[i] = x
          /\ IsInjective(u) <=> \A i, j \in 1 .. Len(u) : u[i] = u[j] => i = j
      BY <1>1, SetOf
    <3> QED BY <1>1, <3>1
  <2> QED BY <2>1, <2>2, <2>3
<1>4. ToSet(u) = ToSet(s) \cup ToSet(t)
  BY <1>2, <1>3
<1>5. ASSUME IsInjective(u)
      PROVE  IsInjective(s) /\ IsInjective(t) /\ ToSet(s) \cap ToSet(t) = {}
  <2>1. IsInjective(s)
    BY <1>2, <1>3, <1>5
  <2>2. IsInjective(t)
    BY <1>1, <1>2, <1>3, <1>5
  <2>3. \A x : ~(x \in ToSet(s) /\ x \in ToSet(t))
    <3> SUFFICES ASSUME NEW i \in 1 .. m, NEW j \in 1 .. n, s[i] = t[j] PROVE FALSE
      BY <1>3
    <3>1. i = m + j
      BY <1>2, <1>3, <1>5
    <3> QED BY <1>1, <3>1
  <2> QED BY <2>1, <2>2, <2>3
<1>6. ASSUME IsInjective(s), IsInjective(t), ToSet(s) \cap ToSet(t) = {}
      PROVE  IsInjective(u)
  <2> SUFFICES ASSUME NEW i \in 1 .. m + n, NEW j \in 1 .. m + n, u[i] = u[j]
               PROVE  i = j
    BY <1>3
  <2>1. CASE i \in 1 .. m /\ j \in 1 .. m
    BY <1>2, <1>3, <1>6, <2>1
  <2>2. CASE i \in 1 .. m /\ j \notin 1 .. m
    <3>1. u[i] \in ToSet(s) /\ u[j] \in ToSet(t)
      BY <1>2, <1>3, <2>2
    <3> QED BY <1>6, <3>1
  <2>3. CASE i \notin 1 .. m /\ j \in 1 .. m
    <3>1. u[i] \in ToSet(t) /\ u[j] \in ToSet(s)
      BY <1>2, <1>3, <2>3
    <3> QED BY <1>6, <3>1
  <2>4. CASE i \notin 1 .. m /\ j \notin 1 .. m
    BY <1>2, <1>3, <1>6, <2>4
  <2> QED BY <2>1, <2>2, <2>3, <2>4
<1> QED BY <1>1, <1>4, <1>5, <1>6 DEF u, m, n

\* A list without its first.
LEMMA Rest ==
  ASSUME NEW S, NEW s \in Seq(S), s # <<>>
  PROVE  /\ Head(s) \in S /\ Head(s) \in ToSet(s) /\ Tail(s) \in Seq(S)
         /\ ToSet(s) = {Head(s)} \cup ToSet(Tail(s))
         /\ IsInjective(s) => IsInjective(Tail(s)) /\ Head(s) \notin ToSet(Tail(s))
<1> DEFINE t == Tail(s)
           h == <<Head(s)>>
<1>1. t \in Seq(S) /\ Head(s) \in S /\ h \in Seq(S) /\ s = h \o t
  OBVIOUS
<1>2. ToSet(h) = {Head(s)}
  BY DEF ToSet
<1> HIDE DEF t, h
<1>3. ToSet(s) = ToSet(h) \cup ToSet(t) /\
      (IsInjective(s) => IsInjective(t) /\ ToSet(h) \cap ToSet(t) = {})
  BY <1>1, Joined
<1> QED BY <1>1, <1>2, <1>3 DEF t

\* A list cut in two.
LEMMA Split ==
  ASSUME NEW S, NEW s \in Seq(S), NEW k \in 0 .. Len(s)
  PROVE  LET a == SubSeq(s, 1, k)
             b == SubSeq(s, k + 1, Len(s))
         IN  /\ a \in Seq(S) /\ b \in Seq(S) /\ Len(a) = k
             /\ ToSet(a) \cup ToSet(b) = ToSet(s)
             /\ IsInjective(s) =>
                  IsInjective(a) /\ IsInjective(b) /\ ToSet(a) \cap ToSet(b) = {}
<1> DEFINE a == SubSeq(s, 1, k)
           b == SubSeq(s, k + 1, Len(s))
<1>1. a \in Seq(S) /\ b \in Seq(S) /\ Len(a) = k /\ s = a \o b
  <2>1. Len(s) \in Nat /\ k \in Nat /\ k <= Len(s) /\ \A i \in 1 .. Len(s) : s[i] \in S
    BY SetOf
  <2>2. a \in Seq(S) /\ Len(a) = k
    <3>1. \A i \in 1 .. k : s[i] \in S
      BY <2>1
    <3> QED BY <2>1, <3>1, SubSeqProperties
  <2>3. b \in Seq(S)
    <3>1. \A i \in k + 1 .. Len(s) : s[i] \in S
      BY <2>1
    <3> QED BY <2>1, <3>1, SubSeqProperties
  <2>4. s = a \o b
    <3>1. SubSeq(s, 1, k) \o SubSeq(s, k + 1, Len(s)) = SubSeq(s, 1, Len(s))
      <4>1. /\ 1 \in 1 .. Len(s) + 1 /\ k \in 1 - 1 .. Len(s) /\ Len(s) \in k .. Len(s)
        BY <2>1
      <4> QED BY <4>1, ConcatAdjacentSubSeq
    <3> QED BY <3>1, SubSeqFull
  <2> QED BY <2>2, <2>3, <2>4
<1> HIDE DEF a, b
<1>2. /\ ToSet(a) \cup ToSet(b) = ToSet(s)
      /\ IsInjective(s) => IsInjective(a) /\ IsInjective(b) /\ ToSet(a) \cap ToSet(b) = {}
  BY <1>1, Joined
<1> QED BY <1>1, <1>2 DEF a, b

\* Erasing what is in a list once takes just that out of it.
LEMMA Removed ==
  ASSUME NEW S, NEW s \in Seq(S), IsInjective(s), NEW x \in ToSet(s)
  PROVE  LET r == RemoveFirst(s, x)
         IN  /\ r \in Seq(S) /\ IsInjective(r) /\ Len(r) = Len(s) - 1
             /\ ToSet(r) = ToSet(s) \ {x}
<1>1. PICK k \in 1 .. Len(s) : s[k] = x
  BY SetOf
<1>2. {i \in 1 .. Len(s) : s[i] = x} = {k}
  BY <1>1, SetOf
<1>3. SelectInSeq(s, LAMBDA v : v = x) = k
  BY <1>2 DEF SelectInSeq, Min
<1> DEFINE a == SubSeq(s, 1, k - 1)
           b == SubSeq(s, k + 1, Len(s))
           r == a \o b
<1>4. RemoveFirst(s, x) = r
  BY <1>1, <1>3 DEF RemoveFirst, RemoveAt
<1>5. /\ Len(s) \in Nat /\ k \in Nat /\ k > 0 /\ k <= Len(s)
      /\ \A i \in 1 .. Len(s) : s[i] \in S
  BY SetOf
<1>6. /\ a \in Seq(S) /\ Len(a) = k - 1 /\ \A i \in 1 .. k - 1 : a[i] = s[i]
  <2>1. \A i \in 1 .. k - 1 : s[i] \in S
    BY <1>5
  <2> QED BY <1>5, <2>1, SubSeqProperties
<1>7. /\ b \in Seq(S) /\ Len(b) = Len(s) - k
      /\ \A i \in 1 .. Len(s) - k : b[i] = s[k + i]
  <2> DEFINE m == k + 1
             n == Len(s)
  <2>1. /\ m \in Int /\ n \in Int /\ m <= n + 1 /\ n - m + 1 = n - k
        /\ \A i \in m .. n : s[i] \in S
        /\ \A i \in Nat : m + i - 1 = k + i
    BY <1>5
  <2> HIDE DEF m, n
  <2>2. /\ SubSeq(s, m, n) \in Seq(S)
        /\ Len(SubSeq(s, m, n)) = IF m <= n THEN n - m + 1 ELSE 0
        /\ \A i \in 1 .. n - m + 1 : SubSeq(s, m, n)[i] = s[m + i - 1]
    BY <2>1, SubSeqProperties
  <2>3. Len(SubSeq(s, m, n)) = n - k
    BY <2>1, <2>2
  <2>4. ASSUME NEW i \in 1 .. n - k PROVE SubSeq(s, m, n)[i] = s[k + i]
    <3>1. SubSeq(s, m, n)[i] = s[m + i - 1] /\ i \in Nat
      BY <2>1, <2>2
    <3> QED BY <2>1, <3>1
  <2> QED BY <2>2, <2>3, <2>4 DEF m, n
<1> HIDE DEF a, b
<1>8. /\ r \in Seq(S) /\ Len(r) = Len(s) - 1
      /\ \A i \in 1 .. Len(s) - 1 : r[i] = IF i < k THEN s[i] ELSE s[i + 1]
  <2>1. /\ r \in Seq(S) /\ Len(r) = Len(a) + Len(b)
        /\ \A i \in 1 .. Len(a) + Len(b) : r[i] = IF i <= Len(a) THEN a[i] ELSE b[i - Len(a)]
    BY <1>6, <1>7, ConcatProperties
  <2>2. Len(a) + Len(b) = Len(s) - 1
    BY <1>5, <1>6, <1>7
  <2>3. ASSUME NEW i \in 1 .. Len(s) - 1 PROVE r[i] = IF i < k THEN s[i] ELSE s[i + 1]
    <3>1. CASE i < k
      BY <1>5, <1>6, <2>1, <2>2, <3>1
    <3>2. CASE ~(i < k)
      <4>1. i - (k - 1) \in 1 .. Len(s) - k /\ k + (i - (k - 1)) = i + 1
        BY <1>5, <3>2
      <4>2. r[i] = b[i - (k - 1)]
        BY <1>5, <1>6, <2>1, <2>2, <3>2
      <4> QED BY <1>7, <3>2, <4>1, <4>2
    <3> QED BY <3>1, <3>2
  <2> QED BY <2>1, <2>2, <2>3
<1> HIDE DEF r
<1>9. /\ \A i, j \in 1 .. Len(s) : s[i] = s[j] => i = j
      /\ \A y : y \in ToSet(s) <=> \E i \in 1 .. Len(s) : s[i] = y
  BY SetOf
<1>10. /\ \A y : y \in ToSet(r) <=> \E i \in 1 .. Len(s) - 1 : r[i] = y
       /\ IsInjective(r) <=> \A i, j \in 1 .. Len(s) - 1 : r[i] = r[j] => i = j
  <2>1. /\ \A y : y \in ToSet(r) <=> \E i \in 1 .. Len(r) : r[i] = y
        /\ IsInjective(r) <=> \A i, j \in 1 .. Len(r) : r[i] = r[j] => i = j
    BY <1>8, SetOf
  <2> QED BY <1>8, <2>1
<1>11. IsInjective(r)
  <2> SUFFICES ASSUME NEW i \in 1 .. Len(s) - 1, NEW j \in 1 .. Len(s) - 1, r[i] = r[j]
               PROVE  i = j
    BY <1>10
  <2>1. (IF i < k THEN i ELSE i + 1) = (IF j < k THEN j ELSE j + 1)
    BY <1>5, <1>8, <1>9
  <2> QED BY <1>5, <2>1
<1>12. ASSUME NEW y \in ToSet(r) PROVE y \in ToSet(s) \ {x}
  <2>1. PICK i \in 1 .. Len(s) - 1 : r[i] = y
    BY <1>10
  <2>2. PICK j \in 1 .. Len(s) : j # k /\ s[j] = y
    BY <1>5, <1>8, <2>1
  <2> QED BY <1>1, <1>9, <2>2
<1>13. ASSUME NEW y \in ToSet(s) \ {x} PROVE y \in ToSet(r)
  <2>1. PICK j \in 1 .. Len(s) : j # k /\ s[j] = y
    BY <1>1, <1>9
  <2>2. CASE j < k
    <3>1. j \in 1 .. Len(s) - 1 /\ r[j] = y
      BY <1>5, <1>8, <2>1, <2>2
    <3> QED BY <1>10, <3>1
  <2>3. CASE j > k
    <3>1. j - 1 \in 1 .. Len(s) - 1 /\ ~(j - 1 < k) /\ j - 1 + 1 = j
      BY <1>5, <2>1, <2>3
    <3>2. r[j - 1] = y
      BY <1>8, <2>1, <3>1
    <3> QED BY <1>10, <3>1, <3>2
  <2> QED BY <1>5, <2>1, <2>2, <2>3
<1>14. r \in Seq(S) /\ IsInjective(r) /\ Len(r) = Len(s) - 1 /\ ToSet(r) = ToSet(s) \ {x}
  BY <1>8, <1>11, <1>12, <1>13
<1> QED BY <1>4, <1>14 DEF r

\* The first k of two lists in a row: all of the first list, or only of it.
LEMMA Prefix ==
  ASSUME NEW S, NEW s \in Seq(S), NEW t \in Seq(S), NEW k \in 0 .. Len(s \o t)
  PROVE  /\ k >= Len(s) => ToSet(s) \subseteq ToSet(SubSeq(s \o t, 1, k))
         /\ k <= Len(s) => ToSet(SubSeq(s \o t, 1, k)) \subseteq ToSet(s)
<1> DEFINE u == s \o t
           a == SubSeq(u, 1, k)
           m == Len(s)
<1>1. /\ u \in Seq(S) /\ m \in Nat /\ Len(u) \in Nat /\ k \in Nat /\ k <= Len(u) /\ m <= Len(u)
      /\ \A i \in 1 .. m : u[i] = s[i]
      /\ \A i \in 1 .. Len(u) : u[i] \in S
  <2>1. /\ u \in Seq(S) /\ Len(u) = Len(s) + Len(t) /\ Len(s) \in Nat /\ Len(t) \in Nat
        /\ \A i \in 1 .. Len(s) + Len(t) : u[i] = IF i <= Len(s) THEN s[i] ELSE t[i - Len(s)]
    BY ConcatProperties, SetOf
  <2>2. \A i \in 1 .. Len(u) : u[i] \in S
    BY <2>1, SetOf
  <2> HIDE DEF u
  <2> QED BY <2>1, <2>2
<1> HIDE DEF u
<1>2. a \in Seq(S) /\ Len(a) = k /\ \A i \in 1 .. k : a[i] = u[i]
  <2>1. \A i \in 1 .. k : u[i] \in S
    BY <1>1
  <2> QED BY <1>1, <2>1, SubSeqProperties
<1> HIDE DEF a
<1>3. \A x : x \in ToSet(a) <=> \E i \in 1 .. k : a[i] = x
  BY <1>2, SetOf
<1>4. \A x : x \in ToSet(s) <=> \E i \in 1 .. m : s[i] = x
  BY SetOf
<1> HIDE DEF m
<1>5. ASSUME k >= m PROVE ToSet(s) \subseteq ToSet(a)
  <2>1. \A i \in 1 .. m : i \in 1 .. k /\ a[i] = s[i]
    <3> TAKE i \in 1 .. m
    <3>1. i \in 1 .. k
      BY <1>1, <1>5
    <3> QED BY <1>1, <1>2, <3>1
  <2> QED BY <1>3, <1>4, <2>1
<1>6. ASSUME k <= m PROVE ToSet(a) \subseteq ToSet(s)
  <2>1. \A i \in 1 .. k : i \in 1 .. m /\ a[i] = s[i]
    BY <1>1, <1>2, <1>6
  <2> QED BY <1>3, <1>4, <2>1
<1> QED BY <1>5, <1>6 DEF a, u, m

\* Every nonempty set of naturals has a least element.
LEMMA Least ==
  ASSUME NEW T, T \subseteq Nat, T # {}
  PROVE  \E x \in T : \A y \in T : x <= y
<1>1. \E x \in T : \A y \in T : ~(<<y, x>> \in OpToRel(<, Nat))
  BY WFMin, NatLessThanWellFounded
<1>2. \A x, y \in Nat : y < x => <<y, x>> \in OpToRel(<, Nat)
  BY DEF OpToRel
<1>3. PICK x \in T : \A y \in T : ~(<<y, x>> \in OpToRel(<, Nat))
  BY <1>1
<1>4. ASSUME NEW y \in T PROVE x <= y
  <2>1. ~(y < x)
    BY <1>2, <1>3
  <2>2. x \in Nat /\ y \in Nat
    OBVIOUS
  <2> QED BY <2>1, <2>2
<1> QED BY <1>3, <1>4

\* A list without repetition is as long as it has members.
LEMMA LenIsCardinality ==
  ASSUME NEW S, NEW s \in Seq(S), IsInjective(s)
  PROVE  IsFiniteSet(ToSet(s)) /\ Cardinality(ToSet(s)) = Len(s)
<1>1. Len(s) \in Nat /\ DOMAIN s = 1 .. Len(s) /\ s \in [1 .. Len(s) -> ToSet(s)]
  BY DEF ToSet
<1>2. s \in Surjection(1 .. Len(s), ToSet(s)) /\ s \in Injection(1 .. Len(s), ToSet(s))
  BY <1>1 DEF Surjection, Injection, ToSet
<1>3. IsFiniteSet(1 .. Len(s)) /\ Cardinality(1 .. Len(s)) = Len(s)
  <2>1. 1 \in Int /\ Len(s) \in Int /\ (IF 1 > Len(s) THEN 0 ELSE Len(s) - 1 + 1) = Len(s)
    BY <1>1
  <2> QED BY <2>1, FS_Interval
<1> QED BY <1>2, <1>3, FS_Surjection

-----------------------------------------------------------------------------
(* The invariant. *)

ApiPlaces == {"idle", "count", "started", "stopped", "remove", "register", "anonymise"}
FilePlaces == {"idle", "starting", "stopping", "register", "anonymise", "deanonymise",
               "dropFile"}
MixerPlaces == {"idle", "toMix", "additional", "mix", "deliver"}

Named == ToSet(participantList)
Anonymous == ToSet(additionalParticipantList)
Participants == Named \cup Anonymous

ListTypes ==
  /\ participantList \in Seq(Channels) /\ additionalParticipantList \in Seq(Channels)
  /\ isMixed \subseteq Channels
CallerTypes ==
  /\ at \in [Callers -> ApiPlaces \cup FilePlaces]
  /\ at["api"] \in ApiPlaces /\ at["file"] \in FilePlaces
  /\ on \in [Callers -> Channels \cup {None}]
  /\ \A t \in Callers : at[t] # "idle" => on[t] \in Channels
  /\ playing \subseteq Channels /\ count \in Nat /\ numMixedParticipants \in Nat
RoundTypes ==
  /\ mixer \in MixerPlaces /\ todo \in Seq(Channels)
  /\ activeList \in Seq(Channels) /\ passiveWasMixedList \in Seq(Channels)
  /\ passiveWasNotMixedList \in Seq(Channels) /\ mixList \in Seq(Channels)
  /\ rampOutList \in Seq(Channels) /\ additionalFramesList \in Seq(Channels)
  /\ DOMAIN frame \subseteq Channels
  /\ frame \in [DOMAIN frame -> Energies \cup {Passive}]
  /\ calm \in BOOLEAN
Types == ListTypes /\ CallerTypes /\ RoundTypes

\* A participant is listed once, as named or as anonymous.
ListedOnce ==
  /\ IsInjective(participantList) /\ IsInjective(additionalParticipantList)
  /\ Named \cap Anonymous = {}

\* StartPlayout() or StopPlayout() has changed the lists and not yet the flag.
Between(c) == at["api"] \in {"count", "started", "stopped"} /\ on["api"] = c
CallsInv ==
  /\ \A c \in Channels : IF Between(c) THEN c \in Participants <=> c \notin playing
                                       ELSE c \in Participants <=> c \in playing
  /\ at["api"] \in {"remove", "register", "anonymise", "stopped"} => on["api"] \in playing
  /\ at["api"] = "started" => on["api"] \notin playing
  /\ at["file"] \in {"anonymise", "deanonymise", "register"} => on["file"] \notin fileCrit

\* There is one participant: the shortcut of the mix is taken only then.
Alone == \E c \in Channels : Participants = {c}
CountInv ==
  /\ at["api"] = "count" /\ count = 1 => Alone
  /\ at["api"] # "count" /\ numMixedParticipants = 1 => Alone

\* The frames given so far, and where the frames are.
Active == {p \in DOMAIN frame : frame[p] # Passive}
WasMixed == {p \in DOMAIN frame : frame[p] = Passive /\ p \in isMixed}
WasNotMixed == {p \in DOMAIN frame : frame[p] = Passive /\ p \notin isMixed}
Sorted == ToSet(activeList) \cup ToSet(passiveWasMixedList) \cup ToSet(passiveWasNotMixedList)
Output == ToSet(mixList) \cup ToSet(rampOutList) \cup ToSet(additionalFramesList)

Injective ==
  /\ IsInjective(activeList) /\ IsInjective(passiveWasMixedList)
  /\ IsInjective(passiveWasNotMixedList)
  /\ IsInjective(mixList) /\ IsInjective(rampOutList) /\ IsInjective(additionalFramesList)
  /\ IsInjective(todo)

\* While the participants are asked, those asked and those to ask are apart.
AskedSoFar ==
  /\ mixList = <<>> /\ additionalFramesList = <<>>
  /\ ToSet(todo) \subseteq Named /\ DOMAIN frame \subseteq Named \ ToSet(todo)
  /\ rampedIn \subseteq DOMAIN frame

\* The three lists hold the best of the frames given so far: the loudest active
\* ones, all passive ones mixed before, and others while there is room.
Ranked ==
  /\ ToSet(activeList) \subseteq Active /\ Len(activeList) <= MaxMixed
  /\ \A p \in Active \ ToSet(activeList), q \in ToSet(activeList) : frame[p] <= frame[q]
  /\ Active # ToSet(activeList) => Len(activeList) = MaxMixed
  /\ ToSet(passiveWasMixedList) = WasMixed
  /\ ToSet(passiveWasNotMixedList) \subseteq WasNotMixed
  /\ WasNotMixed # ToSet(passiveWasNotMixedList) =>
       Len(activeList) + Len(passiveWasMixedList) + Len(passiveWasNotMixedList) >= MaxMixed

\* Active frames that were mixed and found no room are to be ramped out, and
\* those in the lists that were not are ramped in.
Ramped ==
  /\ ToSet(rampOutList) = (Active \cap isMixed) \ ToSet(activeList)
  /\ \A p \in Sorted : p \in rampedIn <=> p \notin isMixed

\* The frames of the named participants are chosen, the anonymous ones are asked.
Chosen ==
  /\ ToSet(todo) \subseteq Anonymous \ ToSet(additionalFramesList)
  /\ ToSet(additionalFramesList) \subseteq Anonymous
  /\ DOMAIN frame \subseteq Named
  /\ ToSet(mixList) \subseteq DOMAIN frame /\ ToSet(rampOutList) \subseteq DOMAIN frame
  /\ ToSet(mixList) \cap ToSet(rampOutList) = {}

\* While no call of the API intervenes all output is the participants', and the
\* mixed audio is that of all output.
Heard ==
  /\ calm /\ mixer # "idle" => at["api"] = "idle" /\ Output \subseteq Participants
  /\ mixer = "deliver" /\ calm => mixed = Output

RoundInv ==
  /\ mixer = "toMix" => AskedSoFar /\ Ranked /\ Ramped
  /\ mixer = "additional" => Chosen /\ Len(mixList) <= MaxMixed
  /\ mixer # "toMix" => activeList = <<>> /\ passiveWasMixedList = <<>> /\ passiveWasNotMixedList = <<>>
  /\ ~CbCritHeld => todo = <<>> /\ DOMAIN frame = {} /\ rampedIn = {}
  /\ mixer = "idle" => Output = {}
  /\ IsFiniteSet(isMixed) /\ Cardinality(isMixed) <= MaxMixed

\* No frame is in two of the lists that are mixed.
Apart ==
  /\ ToSet(mixList) \cap ToSet(rampOutList) = {}
  /\ ToSet(mixList) \cap ToSet(additionalFramesList) = {}
  /\ ToSet(rampOutList) \cap ToSet(additionalFramesList) = {}

\* The frames out of the pool are those in the lists.
Taken == taken = Sorted \cup Output \cup Held

MixerInv ==
  Types /\ ListedOnce /\ CallsInv /\ CountInv /\ Injective /\ RoundInv /\ Apart /\ Taken /\ Heard

-----------------------------------------------------------------------------
(* What the callers do with the lists. *)

\* A count of one is counted only when there is just one participant.
LEMMA CountTells ==
  ASSUME ListTypes', CountParticipants
  PROVE  count' \in Nat /\ (count' = 1 => Alone')
<1> DEFINE m == Len(participantList')
           n == Len(additionalParticipantList')
<1>1. m \in Nat /\ n \in Nat /\ MaxMixed \in Nat /\ MaxMixed >= 2
  BY MixerAssumption DEF ListTypes
<1>2. count' = (IF m < MaxMixed THEN m ELSE MaxMixed) + n
  BY DEF CountParticipants, AtMost
<1> HIDE DEF m, n
<1>3. count' = 1 => (m = 1 /\ n = 0) \/ (m = 0 /\ n = 1)
  BY <1>1, <1>2
<1>4. ASSUME NEW s \in Seq(Channels), Len(s) = 1 PROVE \E c \in Channels : ToSet(s) = {c}
  BY <1>4, SetOf
<1>5. ASSUME NEW s \in Seq(Channels), Len(s) = 0 PROVE ToSet(s) = {}
  <2>1. s = <<>>
    BY <1>5, SetOf
  <2> QED BY <2>1, EmptySet
<1>6. count' = 1 => Alone'
  BY <1>3, <1>4, <1>5 DEF Alone, Participants, Named, Anonymous, ListTypes, m, n
<1> QED BY <1>1, <1>2, <1>6

\* StartPlayout() puts one more channel into the lists.
LEMMA Added ==
  ASSUME ListTypes, ListedOnce, NEW c \in Channels, c \notin Participants,
         participantList' = Append(participantList, c), isMixed' \subseteq isMixed,
         UNCHANGED additionalParticipantList
  PROVE  ListTypes' /\ ListedOnce' /\ Participants' = Participants \cup {c}
<1>1. /\ participantList' \in Seq(Channels) /\ Named' = Named \cup {c}
      /\ IsInjective(participantList')
  BY Appended DEF ListTypes, ListedOnce, Named, Participants
<1> QED BY <1>1 DEF ListTypes, ListedOnce, Named, Anonymous, Participants

\* StopPlayout() takes one channel out of the lists.
LEMMA Gone ==
  ASSUME ListTypes, ListedOnce, NEW c \in Named,
         participantList' = RemovedFrom(participantList, c), isMixed' \subseteq isMixed,
         UNCHANGED additionalParticipantList
  PROVE  ListTypes' /\ ListedOnce' /\ Participants' = Participants \ {c}
<1>1. /\ participantList' \in Seq(Channels) /\ Named' = Named \ {c}
      /\ IsInjective(participantList')
  BY Removed DEF ListTypes, ListedOnce, Named, RemovedFrom
<1> QED BY <1>1 DEF ListTypes, ListedOnce, Named, Anonymous, Participants

\* A channel made anonymous stays a participant.
LEMMA MadeAnonymous ==
  ASSUME ListTypes, ListedOnce, NEW c \in Named, MakeAnonymous(c)
  PROVE  /\ ListTypes' /\ ListedOnce' /\ Participants' = Participants
         /\ isMixed' \subseteq isMixed
<1>0. c \in Channels
  BY SetOf DEF ListTypes, Named
<1>1. /\ participantList' \in Seq(Channels) /\ Named' = Named \ {c}
      /\ IsInjective(participantList')
  BY Removed DEF ListTypes, ListedOnce, Named, RemovedFrom, MakeAnonymous
<1>2. /\ additionalParticipantList' \in Seq(Channels) /\ Anonymous' = Anonymous \cup {c}
      /\ IsInjective(additionalParticipantList')
  BY <1>0, Appended DEF ListTypes, ListedOnce, Named, Anonymous, MakeAnonymous
<1> QED BY <1>1, <1>2 DEF ListTypes, ListedOnce, Participants, MakeAnonymous

\* A channel made named again stays a participant.
LEMMA MadeNamed ==
  ASSUME ListTypes, ListedOnce, NEW c \in Channels, MakeNamed(c)
  PROVE  /\ ListTypes' /\ ListedOnce' /\ Participants' = Participants
         /\ isMixed' \subseteq isMixed
<1>1. CASE c \in Anonymous
  <2>1. /\ additionalParticipantList' \in Seq(Channels) /\ Anonymous' = Anonymous \ {c}
        /\ IsInjective(additionalParticipantList')
    BY <1>1, Removed DEF ListTypes, ListedOnce, Anonymous, RemovedFrom, MakeNamed
  <2>2. /\ participantList' \in Seq(Channels) /\ Named' = Named \cup {c}
        /\ IsInjective(participantList')
    <3>1. participantList \in Seq(Channels) /\ IsInjective(participantList)
          /\ c \notin ToSet(participantList)
      BY <1>1 DEF ListTypes, ListedOnce, Named
    <3>2. participantList' = Append(participantList, c)
      BY <1>1 DEF MakeNamed, Anonymous
    <3> QED BY <3>1, <3>2, Appended DEF Named
  <2> QED BY <1>1, <2>1, <2>2 DEF ListTypes, ListedOnce, Participants, Anonymous, MakeNamed
<1>2. CASE c \notin Anonymous
  BY <1>2 DEF Anonymous, MakeNamed, lists, ListTypes, ListedOnce, Participants, Named
<1> QED BY <1>1, <1>2

\* A caller leaves what Process() has alone, and the lists while it holds _cbCrit.
LEMMA RoundKept ==
  ASSUME MixerInv, UNCHANGED round, CbCritHeld => UNCHANGED lists,
         isMixed' \subseteq isMixed, calm' \in BOOLEAN
  PROVE  RoundTypes' /\ Injective' /\ RoundInv' /\ Apart' /\ Taken'
<1>1. RoundTypes'
  BY DEF MixerInv, Types, RoundTypes, round, asked, sorted, output
<1>2. Injective' /\ Apart' /\ Taken'
  BY DEF MixerInv, Injective, Apart, Taken, Sorted, Output, Held, round, asked, sorted, output
<1>3. IsFiniteSet(isMixed') /\ Cardinality(isMixed') <= MaxMixed
  <2>1. IsFiniteSet(isMixed) /\ Cardinality(isMixed) <= MaxMixed /\ MaxMixed \in Nat
    BY MixerAssumption DEF MixerInv, RoundInv
  <2> QED BY <2>1, FS_Subset, FS_CardinalityType
<1>4. RoundInv'
  <2>1. CASE CbCritHeld
    BY <1>3, <2>1 DEF MixerInv, RoundInv, CbCritHeld, round, asked, sorted, output, lists,
       AskedSoFar, Ranked, Ramped, Chosen, Named, Anonymous, Active, WasMixed, WasNotMixed,
       Sorted, Output
  <2>2. CASE ~CbCritHeld
    BY <1>3, <2>2 DEF MixerInv, RoundInv, CbCritHeld, round, asked, sorted, output, Output
  <2> QED BY <2>1, <2>2
<1> QED BY <1>1, <1>2, <1>4

\* A step of a caller keeps the invariant if it keeps the callers' part of it.
LEMMA CallerKeeps ==
  ASSUME MixerInv, UNCHANGED round, CbCritHeld => UNCHANGED lists,
         isMixed' \subseteq isMixed, calm' \in BOOLEAN,
         ListTypes', CallerTypes', ListedOnce', CallsInv', CountInv',
         calm' /\ mixer # "idle" => calm /\ at'["api"] = "idle" /\ Participants' = Participants
  PROVE  MixerInv'
<1>1. RoundTypes' /\ Injective' /\ RoundInv' /\ Apart' /\ Taken'
  BY RoundKept
<1>2. Heard'
  BY DEF MixerInv, Heard, round, output, Output
<1> QED BY <1>1, <1>2 DEF MixerInv, Types

\* StartPlayout() lists its channel and counts, outside _cbCrit of a round.
LEMMA StartPlayoutStep ==
  ASSUME MixerInv, NEW c \in Channels, StartPlayout(c)
  PROVE  MixerInv'
<1>1. /\ at["api"] = "idle" /\ c \notin playing /\ ~CbCritHeld
      /\ participantList' = Append(participantList, c) /\ isMixed' = isMixed \ {c}
      /\ UNCHANGED <<additionalParticipantList, numMixedParticipants, flags, fileCrit, round>>
      /\ CountParticipants /\ Goto("api", "count", c) /\ calm' = (mixer = "idle")
  BY DEF StartPlayout, Disturb
<1>2. ListTypes /\ ListedOnce /\ CallerTypes /\ c \notin Participants
  BY <1>1 DEF MixerInv, Types, CallsInv, Between
<1>3. ListTypes' /\ ListedOnce' /\ Participants' = Participants \cup {c}
  BY <1>1, <1>2, Added
<1>4. count' \in Nat /\ (count' = 1 => Alone')
  BY <1>1, <1>3, CountTells
<1>5. /\ at' \in [Callers -> ApiPlaces \cup FilePlaces]
      /\ at'["api"] = "count" /\ at'["file"] = at["file"]
      /\ on'["api"] = c /\ on'["file"] = on["file"]
      /\ on' \in [Callers -> Channels \cup {None}]
  BY <1>1, <1>2 DEF Goto, CallerTypes, Callers, ApiPlaces
<1>6. CallerTypes'
  BY <1>1, <1>2, <1>4, <1>5 DEF CallerTypes, Callers, ApiPlaces, flags
<1>7. CallsInv'
  BY <1>1, <1>3, <1>5 DEF MixerInv, CallsInv, Between, flags
<1>8. CountInv'
  BY <1>4, <1>5 DEF CountInv
<1>9. UNCHANGED round /\ (CbCritHeld => UNCHANGED lists) /\ isMixed' \subseteq isMixed
      /\ calm' \in BOOLEAN /\ ~(calm' /\ mixer # "idle")
  BY <1>1
<1> QED BY <1>3, <1>6, <1>7, <1>8, <1>9, CallerKeeps

\* StopPlayout() makes its channel named.
LEMMA StopPlayoutStep ==
  ASSUME MixerInv, NEW c \in Channels, StopPlayout(c)
  PROVE  MixerInv'
<1>1. /\ at["api"] = "idle" /\ c \in playing /\ ~CbCritHeld /\ MakeNamed(c)
      /\ UNCHANGED <<numMixedParticipants, flags, fileCrit, count, round>>
      /\ Goto("api", "remove", c) /\ calm' = (mixer = "idle")
  BY DEF StopPlayout, Disturb
<1>2. ListTypes /\ ListedOnce /\ CallerTypes
  BY DEF MixerInv, Types
<1>3. ListTypes' /\ ListedOnce' /\ Participants' = Participants /\ isMixed' \subseteq isMixed
  BY <1>1, <1>2, MadeNamed
<1>5. /\ at' \in [Callers -> ApiPlaces \cup FilePlaces]
      /\ at'["api"] = "remove" /\ at'["file"] = at["file"]
      /\ on'["api"] = c /\ on'["file"] = on["file"]
      /\ on' \in [Callers -> Channels \cup {None}]
  BY <1>1, <1>2 DEF Goto, CallerTypes, Callers, ApiPlaces
<1>6. CallerTypes'
  BY <1>1, <1>2, <1>5 DEF CallerTypes, Callers, ApiPlaces, flags
<1>7. CallsInv'
  BY <1>1, <1>3, <1>5 DEF MixerInv, CallsInv, Between, flags
<1>8. CountInv'
  BY <1>1, <1>3, <1>5 DEF MixerInv, CountInv, Alone
<1>9. UNCHANGED round /\ (CbCritHeld => UNCHANGED lists)
      /\ calm' \in BOOLEAN /\ ~(calm' /\ mixer # "idle")
  BY <1>1
<1> QED BY <1>3, <1>6, <1>7, <1>8, <1>9, CallerKeeps

\* The channel made named may have been made anonymous since: then it stays.
LEMMA RemoveParticipantStep ==
  ASSUME MixerInv, NEW c \in Channels, RemoveParticipant(c)
  PROVE  MixerInv'
<1>1. /\ at["api"] = "remove" /\ on["api"] = c /\ ~CbCritHeld
      /\ UNCHANGED <<numMixedParticipants, flags, fileCrit, round, calm>>
  BY DEF RemoveParticipant
<1>2. /\ ListTypes /\ ListedOnce /\ CallerTypes /\ c \in playing /\ c \in Participants
      /\ CallsInv /\ CountInv /\ calm \in BOOLEAN
  BY <1>1 DEF MixerInv, Types, CallsInv, Between, RoundTypes
<1>3. CASE c \in Named
  <2>1. /\ participantList' = RemovedFrom(participantList, c) /\ isMixed' = isMixed \ {c}
        /\ UNCHANGED additionalParticipantList
        /\ CountParticipants /\ Goto("api", "count", c)
    BY <1>3 DEF RemoveParticipant, Named
  <2>2. ListTypes' /\ ListedOnce' /\ Participants' = Participants \ {c}
    BY <1>2, <1>3, <2>1, Gone
  <2>3. count' \in Nat /\ (count' = 1 => Alone')
    BY <2>1, <2>2, CountTells
  <2>4. /\ at' \in [Callers -> ApiPlaces \cup FilePlaces]
        /\ at'["api"] = "count" /\ at'["file"] = at["file"]
        /\ on'["api"] = c /\ on'["file"] = on["file"]
        /\ on' \in [Callers -> Channels \cup {None}]
    BY <1>2, <2>1 DEF Goto, CallerTypes, Callers, ApiPlaces
  <2>5. CallerTypes'
    BY <1>1, <1>2, <2>3, <2>4 DEF CallerTypes, Callers, ApiPlaces, flags
  <2>6. CallsInv'
    BY <1>1, <1>2, <2>2, <2>4 DEF CallsInv, Between, flags
  <2>7. CountInv'
    BY <2>3, <2>4 DEF CountInv
  <2>8. ~(calm /\ mixer # "idle")
    BY <1>1 DEF MixerInv, Heard
  <2> QED BY <1>1, <1>2, <2>1, <2>2, <2>5, <2>6, <2>7, <2>8, CallerKeeps
<1>4. CASE c \notin Named
  <2>1. Goto("api", "idle", c) /\ UNCHANGED <<lists, count>>
    BY <1>4 DEF RemoveParticipant, Named
  <2>2. ListTypes' /\ ListedOnce' /\ Participants' = Participants
    BY <1>2, <2>1 DEF ListTypes, ListedOnce, Participants, Named, Anonymous, lists
  <2>3. /\ at' \in [Callers -> ApiPlaces \cup FilePlaces]
        /\ at'["api"] = "idle" /\ at'["file"] = at["file"]
        /\ on'["file"] = on["file"]
        /\ on' \in [Callers -> Channels \cup {None}]
    BY <1>2, <2>1 DEF Goto, CallerTypes, Callers, ApiPlaces
  <2>4. CallerTypes'
    BY <1>1, <1>2, <2>1, <2>3 DEF CallerTypes, Callers, ApiPlaces, flags
  <2>5. CallsInv'
    BY <1>1, <1>2, <2>2, <2>3 DEF CallsInv, Between, flags
  <2>6. CountInv'
    BY <1>1, <1>2, <2>1, <2>2, <2>3 DEF CountInv, Alone
  <2>7. ~(calm /\ mixer # "idle")
    BY <1>1 DEF MixerInv, Heard
  <2>8. isMixed' \subseteq isMixed /\ UNCHANGED lists
    BY <2>1 DEF lists
  <2> QED BY <1>1, <1>2, <2>2, <2>4, <2>5, <2>6, <2>7, <2>8, CallerKeeps
<1> QED BY <1>3, <1>4

\* The count stored later is still that of the participants.
LEMMA StoreCountStep ==
  ASSUME MixerInv, NEW c \in Channels, StoreCount(c)
  PROVE  MixerInv'
<1>1. /\ at["api"] = "count" /\ on["api"] = c /\ numMixedParticipants' = count /\ count' = 0
      /\ Goto("api", IF c \in playing THEN "stopped" ELSE "started", c)
      /\ UNCHANGED <<lists, flags, fileCrit, round, calm>>
  BY DEF StoreCount
<1>2. /\ ListTypes /\ ListedOnce /\ CallerTypes /\ CallsInv /\ CountInv /\ calm \in BOOLEAN
      /\ ~(calm /\ mixer # "idle")
  BY <1>1 DEF MixerInv, Types, RoundTypes, Heard
<1>3. /\ ListTypes' /\ ListedOnce' /\ Participants' = Participants
      /\ isMixed' \subseteq isMixed /\ UNCHANGED lists
  BY <1>1, <1>2 DEF ListTypes, ListedOnce, Participants, Named, Anonymous, lists
<1>4. /\ at' \in [Callers -> ApiPlaces \cup FilePlaces]
      /\ at'["api"] = IF c \in playing THEN "stopped" ELSE "started"
      /\ at'["file"] = at["file"]
      /\ on'["api"] = c /\ on'["file"] = on["file"]
      /\ on' \in [Callers -> Channels \cup {None}]
  BY <1>1, <1>2 DEF Goto, CallerTypes, Callers, ApiPlaces
<1>5. CallerTypes'
  BY <1>1, <1>2, <1>4 DEF CallerTypes, Callers, ApiPlaces, flags
<1>6. CallsInv'
  BY <1>1, <1>2, <1>3, <1>4 DEF CallsInv, Between, flags
<1>7. CountInv'
  BY <1>1, <1>2, <1>3, <1>4 DEF CountInv, Alone
<1> QED BY <1>1, <1>2, <1>3, <1>5, <1>6, <1>7, CallerKeeps

\* The flag follows the lists.
LEMMA SetPlayingStep ==
  ASSUME MixerInv, NEW c \in Channels, SetPlaying(c)
  PROVE  MixerInv'
<1>1. /\ on["api"] = c
      /\ UNCHANGED <<lists, numMixedParticipants, filePlaying, fileCrit, count, round, calm>>
      /\ \/ at["api"] = "started" /\ playing' = playing \cup {c} /\ Goto("api", "register", c)
         \/ at["api"] = "stopped" /\ playing' = playing \ {c} /\ Goto("api", "idle", c)
  BY DEF SetPlaying
<1>2. /\ ListTypes /\ ListedOnce /\ CallerTypes /\ CallsInv /\ CountInv /\ calm \in BOOLEAN
      /\ ~(calm /\ mixer # "idle")
  BY <1>1 DEF MixerInv, Types, RoundTypes, Heard
<1>3. /\ ListTypes' /\ ListedOnce' /\ Participants' = Participants
      /\ isMixed' \subseteq isMixed /\ UNCHANGED lists
  BY <1>1, <1>2 DEF ListTypes, ListedOnce, Participants, Named, Anonymous, lists
<1>4. /\ at' \in [Callers -> ApiPlaces \cup FilePlaces]
      /\ \/ /\ at["api"] = "started" /\ at'["api"] = "register" /\ on'["api"] = c
            /\ playing' = playing \cup {c}
         \/ /\ at["api"] = "stopped" /\ at'["api"] = "idle" /\ playing' = playing \ {c}
      /\ at'["file"] = at["file"] /\ on'["file"] = on["file"]
      /\ on' \in [Callers -> Channels \cup {None}]
  BY <1>1, <1>2 DEF Goto, CallerTypes, Callers, ApiPlaces
<1>5. CallerTypes'
  BY <1>1, <1>2, <1>4 DEF CallerTypes, Callers, ApiPlaces
<1>6. CallsInv'
  BY <1>1, <1>2, <1>3, <1>4 DEF CallsInv, Between
<1>7. CountInv'
  BY <1>1, <1>2, <1>3, <1>4 DEF CountInv, Alone
<1> QED BY <1>1, <1>2, <1>3, <1>5, <1>6, <1>7, CallerKeeps

\* Steps of a caller that neither start nor stop playing a channel out.
LEMMA Settled ==
  ASSUME MixerInv, NEW t \in Callers, NEW c \in Channels, at[t] # "count",
         NEW place, Goto(t, place, c), place \notin {"count", "started", "stopped", "remove"},
         place \in IF t = "api" THEN ApiPlaces ELSE FilePlaces,
         t = "api" => at["api"] \in {"register", "anonymise"} /\ on["api"] = c,
         UNCHANGED <<playing, numMixedParticipants, count, round, calm>>,
         ListTypes', ListedOnce', Participants' = Participants, isMixed' \subseteq isMixed,
         CbCritHeld => UNCHANGED lists,
         fileCrit' = IF t = "file" /\ place \in {"starting", "stopping"}
                     THEN fileCrit \cup {c} ELSE IF at[t] \in {"starting", "stopping"}
                     THEN fileCrit \ {c} ELSE fileCrit,
         t = "file" /\ place \in {"anonymise", "deanonymise", "register"} => c \notin fileCrit'
  PROVE  MixerInv'
<1>1. /\ ListTypes /\ CallerTypes /\ CallsInv /\ CountInv /\ calm \in BOOLEAN
      /\ (calm /\ mixer # "idle" => at["api"] = "idle")
  BY DEF MixerInv, Types, RoundTypes, Heard
<1>2. /\ at' \in [Callers -> ApiPlaces \cup FilePlaces]
      /\ at'[t] = place /\ (place # "idle" => on'[t] = c)
      /\ \A u \in Callers \ {t} : at'[u] = at[u] /\ on'[u] = on[u]
      /\ on' \in [Callers -> Channels \cup {None}]
  BY <1>1 DEF Goto, CallerTypes, Callers
<1>3. CASE t = "api"
  <2>1. at'["file"] = at["file"] /\ on'["file"] = on["file"] /\ at'["api"] = place
    BY <1>2, <1>3 DEF Callers
  <2>2. place \in {"idle", "register", "anonymise"} /\ at["api"] \in {"register", "anonymise"}
        /\ on["api"] = c
    BY <1>3 DEF ApiPlaces
  <2>3. CallerTypes'
    BY <1>1, <1>2, <1>3, <2>1, <2>2 DEF CallerTypes, Callers, ApiPlaces
  <2>4. fileCrit' = fileCrit
    BY <1>3, <2>2
  <2>5. CallsInv'
    BY <1>1, <1>2, <1>3, <2>1, <2>2, <2>4 DEF CallsInv, Between
  <2>6. CountInv'
    BY <1>1, <2>1, <2>2 DEF CountInv, Alone
  <2> QED BY <1>1, <2>2, <2>3, <2>5, <2>6, CallerKeeps
<1>4. CASE t = "file"
  <2>1. at'["api"] = at["api"] /\ on'["api"] = on["api"] /\ at'["file"] = place
    BY <1>2, <1>4 DEF Callers
  <2>2. place \in FilePlaces /\ (place # "idle" => on'["file"] = c)
    BY <1>2, <1>4
  <2>3. CallerTypes'
    BY <1>1, <1>2, <1>4, <2>1, <2>2 DEF CallerTypes, Callers
  <2>5. CallsInv'
    <3>1. \A b \in Channels : IF Between(b)' THEN b \in Participants' <=> b \notin playing'
                                             ELSE b \in Participants' <=> b \in playing'
      BY <1>1, <2>1 DEF CallsInv, Between
    <3>2. at'["file"] \in {"anonymise", "deanonymise", "register"} => on'["file"] \notin fileCrit'
      BY <1>4, <2>1, <2>2
    <3> QED BY <1>1, <2>1, <3>1, <3>2 DEF CallsInv, Between
  <2>6. CountInv'
    BY <1>1, <2>1 DEF CountInv, Alone
  <2> QED BY <1>1, <2>1, <2>3, <2>5, <2>6, CallerKeeps
<1> QED BY <1>3, <1>4 DEF Callers

\* A registration that sees both flags goes on to make the channel anonymous.
LEMMA RegisterStep ==
  ASSUME MixerInv, NEW t \in Callers, NEW c \in Channels, Register(t, c)
  PROVE  MixerInv'
<1> DEFINE place == IF c \in playing \cap filePlaying THEN "anonymise" ELSE "idle"
<1>1. /\ at[t] = "register" /\ on[t] = c /\ Goto(t, place, c)
      /\ UNCHANGED <<lists, numMixedParticipants, flags, fileCrit, count, round, calm>>
  BY DEF Register
<1>2. /\ ListTypes' /\ ListedOnce' /\ Participants' = Participants
      /\ isMixed' \subseteq isMixed /\ UNCHANGED lists
  BY <1>1 DEF MixerInv, Types, ListTypes, ListedOnce, Participants, Named, Anonymous, lists
<1>3. t = "file" => c \notin fileCrit
  BY <1>1 DEF MixerInv, CallsInv
<1>4. place \in {"anonymise", "idle"}
  OBVIOUS
<1> HIDE DEF place
<1> QED BY <1>1, <1>2, <1>3, <1>4, Settled DEF flags, ApiPlaces, FilePlaces

\* Making a channel anonymous leaves the participants as they are.
LEMMA AnonymiseStep ==
  ASSUME MixerInv, NEW t \in Callers, NEW c \in Channels, Anonymise(t, c)
  PROVE  MixerInv'
<1>1. /\ at[t] = "anonymise" /\ on[t] = c /\ ~CbCritHeld
      /\ UNCHANGED <<numMixedParticipants, flags, fileCrit, count, round, calm>>
  BY DEF Anonymise
<1>2. ListTypes /\ ListedOnce
  BY DEF MixerInv, Types
<1>3. CASE c \in Anonymous \/ c \in Named
  <2>1. Goto(t, "idle", c) /\ (UNCHANGED lists \/ (c \in Named /\ MakeAnonymous(c)))
    BY <1>3 DEF Anonymise, Anonymous, Named
  <2>2. /\ ListTypes' /\ ListedOnce' /\ Participants' = Participants
        /\ isMixed' \subseteq isMixed
    <3>1. CASE UNCHANGED lists
      BY <1>2, <3>1 DEF ListTypes, ListedOnce, Participants, Named, Anonymous, lists
    <3> QED BY <1>2, <2>1, <3>1, MadeAnonymous
  <2> QED BY <1>1, <2>1, <2>2, Settled DEF flags, ApiPlaces, FilePlaces
<1>4. CASE c \notin Participants
  <2>1. Goto(t, "dropFile", c) /\ UNCHANGED lists
    BY <1>4 DEF Anonymise, Anonymous, Named, Participants
  <2>2. /\ ListTypes' /\ ListedOnce' /\ Participants' = Participants
        /\ isMixed' \subseteq isMixed
    BY <1>2, <2>1 DEF ListTypes, ListedOnce, Participants, Named, Anonymous, lists
  <2>3. t = "file"
    BY <1>1, <1>4 DEF MixerInv, CallsInv, Between, Callers
  <2> QED BY <1>1, <2>1, <2>2, <2>3, Settled DEF flags, FilePlaces
<1> QED BY <1>3, <1>4 DEF Participants

\* Starting and stopping a file leaves the participants as they are.
LEMMA FileStep ==
  ASSUME MixerInv, NEW c \in Channels, FilePlaying(c)
  PROVE  MixerInv'
<1>0. ListTypes /\ ListedOnce
  BY DEF MixerInv, Types
<1>1. CASE StartFile(c)
  <2>1. /\ at["file"] = "idle" /\ fileCrit' = fileCrit \cup {c} /\ Goto("file", "starting", c)
        /\ UNCHANGED <<lists, numMixedParticipants, flags, count, round, calm>>
    BY <1>1 DEF StartFile
  <2>2. /\ ListTypes' /\ ListedOnce' /\ Participants' = Participants
        /\ isMixed' \subseteq isMixed
    BY <1>0, <2>1 DEF ListTypes, ListedOnce, Participants, Named, Anonymous, lists
  <2> QED BY <2>1, <2>2, Settled DEF flags, FilePlaces, Callers
<1>2. CASE StopFile(c)
  <2>1. /\ at["file"] = "idle" /\ fileCrit' = fileCrit \cup {c} /\ Goto("file", "stopping", c)
        /\ UNCHANGED <<lists, numMixedParticipants, flags, count, round, calm>>
    BY <1>2 DEF StopFile
  <2>2. /\ ListTypes' /\ ListedOnce' /\ Participants' = Participants
        /\ isMixed' \subseteq isMixed
    BY <1>0, <2>1 DEF ListTypes, ListedOnce, Participants, Named, Anonymous, lists
  <2> QED BY <2>1, <2>2, Settled DEF flags, FilePlaces, Callers
<1>3. CASE FilePlayerDone(c)
  <2>1. /\ at["file"] \in {"starting", "stopping"} /\ fileCrit' = fileCrit \ {c}
        /\ UNCHANGED <<lists, numMixedParticipants, playing, count, round, calm>>
        /\ \E place \in {"idle", "register", "deanonymise"} : Goto("file", place, c)
    BY <1>3 DEF FilePlayerDone, UnlockFile
  <2>2. /\ ListTypes' /\ ListedOnce' /\ Participants' = Participants
        /\ isMixed' \subseteq isMixed
    BY <1>0, <2>1 DEF ListTypes, ListedOnce, Participants, Named, Anonymous, lists
  <2>3. PICK place \in {"idle", "register", "deanonymise"} : Goto("file", place, c)
    BY <2>1
  <2> QED BY <2>1, <2>2, <2>3, Settled DEF FilePlaces, Callers
<1>4. CASE Deanonymise(c)
  <2>1. /\ at["file"] = "deanonymise" /\ on["file"] = c /\ ~CbCritHeld /\ MakeNamed(c)
        /\ Goto("file", "idle", c)
        /\ UNCHANGED <<numMixedParticipants, flags, fileCrit, count, round, calm>>
    BY <1>4 DEF Deanonymise
  <2>2. /\ ListTypes' /\ ListedOnce' /\ Participants' = Participants
        /\ isMixed' \subseteq isMixed
    BY <1>0, <2>1, MadeNamed
  <2> QED BY <2>1, <2>2, Settled DEF flags, FilePlaces, Callers
<1>5. CASE DropFile(c)
  <2>1. /\ at["file"] = "dropFile" /\ Goto("file", "idle", c)
        /\ UNCHANGED <<lists, numMixedParticipants, playing, fileCrit, count, round, calm>>
    BY <1>5 DEF DropFile
  <2>2. /\ ListTypes' /\ ListedOnce' /\ Participants' = Participants
        /\ isMixed' \subseteq isMixed
    BY <1>0, <2>1 DEF ListTypes, ListedOnce, Participants, Named, Anonymous, lists
  <2> QED BY <2>1, <2>2, Settled DEF FilePlaces, Callers
<1> QED BY <1>1, <1>2, <1>3, <1>4, <1>5 DEF FilePlaying

-----------------------------------------------------------------------------
(* What Process() does. *)

callerVars == <<participantList, additionalParticipantList, numMixedParticipants, callers>>

\* Process() leaves the callers and the lists alone.
LEMMA CallersKept ==
  ASSUME MixerInv, UNCHANGED callerVars, isMixed' \subseteq Channels
  PROVE  /\ ListTypes' /\ CallerTypes' /\ ListedOnce' /\ CallsInv' /\ CountInv'
         /\ Participants' = Participants /\ Named' = Named /\ Anonymous' = Anonymous
         /\ Named \cap Anonymous = {} /\ Named \subseteq Channels /\ Anonymous \subseteq Channels
<1>1. Participants' = Participants /\ Named' = Named /\ Anonymous' = Anonymous
  BY DEF callerVars, Participants, Named, Anonymous
<1>2. ListTypes' /\ CallerTypes' /\ ListedOnce'
  BY <1>1 DEF MixerInv, Types, ListTypes, CallerTypes, ListedOnce, callerVars, callers, flags, places
<1>3. CallsInv' /\ CountInv'
  BY <1>1 DEF MixerInv, CallsInv, Between, CountInv, Alone, callerVars, callers, flags, places
<1>4. Named \cap Anonymous = {} /\ Named \subseteq Channels /\ Anonymous \subseteq Channels
  BY SetOf DEF MixerInv, Types, ListTypes, ListedOnce, Named, Anonymous
<1> QED BY <1>1, <1>2, <1>3, <1>4

\* One more participant has given its frame.
LEMMA FrameGiven ==
  ASSUME RoundTypes, NEW p \in Channels \ DOMAIN frame, NEW f \in Energies \cup {Passive},
         frame' = FrameWith(p, f)
  PROVE  /\ DOMAIN frame' = DOMAIN frame \cup {p} /\ frame'[p] = f
         /\ \A q \in DOMAIN frame : frame'[q] = frame[q]
         /\ frame' \in [DOMAIN frame' -> Energies \cup {Passive}]
         /\ DOMAIN frame' \subseteq Channels
BY DEF RoundTypes, FrameWith

\* The active list, once it is full, has a quietest frame.
LEMMA QuietestIs ==
  ASSUME RoundTypes, activeList # <<>>, ToSet(activeList) \subseteq Active
  PROVE  /\ Quietest(activeList) \in ToSet(activeList)
         /\ \A q \in ToSet(activeList) : frame[Quietest(activeList)] <= frame[q]
<1> DEFINE list == activeList
           e == [i \in 1 .. Len(list) |-> frame[list[i]]]
           T == {e[i] : i \in 1 .. Len(list)}
<1>1. /\ list \in Seq(Channels) /\ DOMAIN list = 1 .. Len(list) /\ Len(list) \in Nat
      /\ Len(list) # 0
      /\ \A x : x \in ToSet(list) <=> \E i \in 1 .. Len(list) : list[i] = x
  BY SetOf DEF RoundTypes
<1>2. \A i \in 1 .. Len(list) : e[i] \in Nat /\ e[i] = frame[list[i]]
  BY <1>1, MixerAssumption DEF RoundTypes, Active
<1>3. T \subseteq Nat /\ T # {} /\ \A v \in T : \E i \in 1 .. Len(list) : e[i] = v
  <2>1. e[1] \in T
    BY <1>1
  <2> QED BY <1>2, <2>1
<1>4. \A i \in 1 .. Len(list) : e[i] \in T
  OBVIOUS
<1> HIDE DEF T, e
<1>5. PICK v \in T : \A w \in T : v <= w
  BY <1>3, Least
<1> DEFINE U == {i \in 1 .. Len(list) : e[i] = v}
<1>6. U \subseteq Nat /\ U # {}
  BY <1>1, <1>3, <1>5
<1>7. PICK i \in U : \A j \in U : i <= j
  BY <1>6, Least
<1> DEFINE Q(k) == \A j \in DOMAIN list : \/ frame[list[k]] < frame[list[j]]
                                          \/ frame[list[k]] = frame[list[j]] /\ k <= j
<1>8. i \in DOMAIN list /\ Q(i)
  <2>1. ASSUME NEW j \in DOMAIN list
        PROVE  frame[list[i]] < frame[list[j]] \/ (frame[list[i]] = frame[list[j]] /\ i <= j)
    <3>1. i \in 1 .. Len(list) /\ j \in 1 .. Len(list) /\ e[i] = v /\ e[j] \in T
      BY <1>1, <1>4, <2>1
    <3>2. frame[list[i]] = e[i] /\ frame[list[j]] = e[j] /\ e[i] \in Nat /\ e[j] \in Nat
      BY <1>2, <3>1
    <3>3. e[i] <= e[j] /\ (e[j] = v => i <= j)
      BY <1>5, <1>7, <3>1
    <3> QED BY <3>1, <3>2, <3>3
  <2> QED BY <1>1, <2>1
<1>9. PICK k \in DOMAIN list : Q(k) /\ Quietest(list) = list[k]
  <2> DEFINE k == CHOOSE k \in DOMAIN list : Q(k)
  <2>1. k \in DOMAIN list /\ Q(k)
    BY <1>8
  <2> QED BY <2>1 DEF Quietest
<1>10. \A j \in DOMAIN list : frame[list[k]] <= frame[list[j]]
  <2> TAKE j \in DOMAIN list
  <2>1. frame[list[k]] \in Nat /\ frame[list[j]] \in Nat
    BY <1>1, <1>2
  <2> QED BY <1>9, <2>1
<1> QED BY <1>1, <1>9, <1>10

\* A round begins with the named participants still to ask.
LEMMA MixerStartStep ==
  ASSUME MixerInv, MixerStart
  PROVE  MixerInv'
<1>1. /\ mixer = "idle" /\ mixer' = "toMix" /\ todo' = participantList
      /\ calm' = (at["api"] = "idle")
      /\ UNCHANGED <<lists, numMixedParticipants, callers, frame, rampedIn, sorted, output,
                     taken, mixed>>
  BY DEF MixerStart
<1>2. /\ ListTypes /\ ListedOnce /\ RoundTypes /\ Injective /\ Apart /\ Taken
      /\ activeList = <<>> /\ passiveWasMixedList = <<>> /\ passiveWasNotMixedList = <<>>
      /\ DOMAIN frame = {} /\ rampedIn = {} /\ Output = {}
      /\ IsFiniteSet(isMixed) /\ Cardinality(isMixed) <= MaxMixed
  BY <1>1 DEF MixerInv, Types, RoundInv, CbCritHeld
<1>3. /\ ListTypes' /\ CallerTypes' /\ ListedOnce' /\ CallsInv' /\ CountInv'
  BY <1>1, <1>2, CallersKept DEF callerVars, lists, ListTypes
<1>4. RoundTypes'
  BY <1>1, <1>2 DEF RoundTypes, ListTypes, MixerPlaces, sorted, output
<1>5. Injective' /\ Apart' /\ Taken'
  BY <1>1, <1>2 DEF Injective, ListedOnce, Apart, Taken, Sorted, Output, Held, sorted, output
<1>6. mixList = <<>> /\ rampOutList = <<>> /\ additionalFramesList = <<>>
  BY <1>2, NoneIsEmpty DEF Output, RoundTypes
<1>7. AskedSoFar'
  BY <1>1, <1>2, <1>6 DEF AskedSoFar, Named, lists, output
<1>8. Ranked' /\ Ramped'
  <2>1. /\ Active' = {} /\ WasMixed' = {} /\ WasNotMixed' = {} /\ Sorted' = {}
    BY <1>1, <1>2, EmptySet DEF Active, WasMixed, WasNotMixed, Sorted, sorted
  <2>2. Len(<<>>) <= MaxMixed
    BY MixerAssumption
  <2> QED BY <1>1, <1>2, <1>6, <2>1, <2>2, EmptySet DEF Ranked, Ramped, sorted, output
<1>9. RoundInv'
  BY <1>1, <1>2, <1>7, <1>8 DEF RoundInv, CbCritHeld, lists
<1>10. Heard'
  BY <1>1, <1>2 DEF Heard, Output, output, callers, places
<1> QED BY <1>3, <1>4, <1>5, <1>9, <1>10 DEF MixerInv, Types

\* The participant that is asked.
LEMMA Asked ==
  ASSUME MixerInv, NEW place, NEW p \in Channels, Asks(place, p)
  PROVE  /\ mixer = place /\ p \in ToSet(todo) /\ ToSet(todo') = ToSet(todo) \ {p}
         /\ todo' \in Seq(Channels) /\ IsInjective(todo')
<1>1. /\ mixer = place /\ todo # <<>> /\ p = Head(todo) /\ todo' = Tail(todo)
      /\ todo \in Seq(Channels) /\ IsInjective(todo)
  BY DEF Asks, MixerInv, Types, RoundTypes, Injective
<1> QED BY <1>1, Rest

\* A participant that gives no frame is passed over.
LEMMA AskInVainStep ==
  ASSUME MixerInv, NEW p \in Channels, AskInVain(p)
  PROVE  MixerInv'
<1>1. /\ mixer = "toMix" /\ p \in ToSet(todo) /\ ToSet(todo') = ToSet(todo) \ {p}
      /\ todo' \in Seq(Channels) /\ IsInjective(todo')
  BY Asked DEF AskInVain
<1>2. UNCHANGED <<lists, numMixedParticipants, callers, mixer, mixList, additionalFramesList,
                  mixed, calm, frame, rampedIn, sorted, rampOutList, taken>>
  BY DEF AskInVain, ToMixUnchanged
<1>3. /\ ListTypes' /\ CallerTypes' /\ ListedOnce' /\ CallsInv' /\ CountInv'
      /\ Named' = Named /\ Participants' = Participants
  BY <1>2, CallersKept DEF callerVars, lists, MixerInv, Types, ListTypes
<1>4. RoundTypes' /\ Injective' /\ Apart' /\ Taken'
  BY <1>1, <1>2 DEF MixerInv, Types, RoundTypes, Injective, Apart, Taken, Sorted, Output, Held, sorted
<1>5. AskedSoFar /\ Ranked /\ Ramped
  BY <1>1 DEF MixerInv, RoundInv
<1>6. AskedSoFar'
  BY <1>1, <1>2, <1>3, <1>5 DEF AskedSoFar
<1>7. Ranked' /\ Ramped'
  BY <1>2, <1>5 DEF Ranked, Ramped, Active, WasMixed, WasNotMixed, Sorted, lists, sorted
<1>8. RoundInv' /\ Heard'
  BY <1>1, <1>2, <1>3, <1>6, <1>7
     DEF MixerInv, RoundInv, CbCritHeld, lists, sorted, Output, Heard, callers, places
<1> QED BY <1>3, <1>4, <1>8 DEF MixerInv, Types

\* The active participants after p gave a frame: all but the one, if any, that
\* found or lost no room, which is ramped out or returned.
LEMMA ActiveChosen ==
  ASSUME MixerInv, NEW p \in Channels, AskActive(p)
  PROVE  \E gone \in SUBSET (ToSet(activeList) \cup {p}) :
           /\ activeList' \in Seq(Channels) /\ IsInjective(activeList')
           /\ rampOutList' \in Seq(Channels) /\ IsInjective(rampOutList')
           /\ ToSet(activeList') = (ToSet(activeList) \cup {p}) \ gone
           /\ ToSet(rampOutList') = ToSet(rampOutList) \cup (gone \cap isMixed)
           /\ taken' = (taken \cup {p}) \ (gone \ isMixed)
           /\ Len(activeList') <= MaxMixed /\ Len(activeList') >= Len(activeList)
           /\ gone # {} => Len(activeList') = MaxMixed
           /\ Len(activeList) = MaxMixed => gone # {}
           /\ \A g \in gone, q \in ToSet(activeList') : frame'[g] <= frame'[q]
<1>1. /\ mixer = "toMix" /\ p \in ToSet(todo)
  BY Asked DEF AskActive
<1>2. /\ AskedSoFar /\ Ranked /\ Ramped /\ RoundTypes /\ Injective
  BY <1>1 DEF MixerInv, RoundInv, Types
<1>3. /\ p \in Named \ DOMAIN frame /\ p = Head(todo)
  BY <1>1, <1>2 DEF AskedSoFar, AskActive, Asks
<1>4. PICK f \in Energies :
        /\ frame' = FrameWith(p, f)
        /\ \/ /\ Len(activeList) < MaxMixed
              /\ activeList' = <<p>> \o activeList
              /\ taken' = taken \cup {p} /\ UNCHANGED rampOutList
           \/ /\ Len(activeList) >= MaxMixed /\ frame[Quietest(activeList)] < f
              /\ activeList' = <<p>> \o RemovedFrom(activeList, Quietest(activeList))
              /\ LeavesMix(Quietest(activeList))
           \/ /\ Len(activeList) >= MaxMixed /\ frame[Quietest(activeList)] >= f
              /\ LeavesMix(p) /\ UNCHANGED activeList
  BY DEF AskActive
<1>5. /\ frame'[p] = f /\ \A q \in DOMAIN frame : frame'[q] = frame[q]
      /\ f \in Nat
  BY <1>2, <1>3, <1>4, FrameGiven, MixerAssumption
<1>6. /\ activeList \in Seq(Channels) /\ IsInjective(activeList) /\ Len(activeList) \in Nat
      /\ rampOutList \in Seq(Channels) /\ IsInjective(rampOutList)
      /\ MaxMixed \in Nat /\ MaxMixed >= 2 /\ Len(activeList) <= MaxMixed
  BY <1>2, MixerAssumption DEF RoundTypes, Injective, Ranked
<1>7. /\ ToSet(activeList) \subseteq Active
      /\ ToSet(rampOutList) \subseteq DOMAIN frame
      /\ ToSet(rampOutList) \cap ToSet(activeList) = {}
      /\ \A q \in Active : q \in DOMAIN frame /\ frame[q] \in Nat
  BY <1>2, MixerAssumption DEF Ranked, Ramped, Active, RoundTypes
<1>8. /\ <<p>> \in Seq(Channels) /\ ToSet(<<p>>) = {p} /\ IsInjective(<<p>>) /\ Len(<<p>>) = 1
  BY DEF ToSet, IsInjective
<1>9. ASSUME NEW s \in Seq(Channels), IsInjective(s), p \notin ToSet(s)
      PROVE  /\ <<p>> \o s \in Seq(Channels) /\ IsInjective(<<p>> \o s)
             /\ ToSet(<<p>> \o s) = ToSet(s) \cup {p} /\ Len(<<p>> \o s) = Len(s) + 1
  <2>1. ToSet(<<p>>) \cap ToSet(s) = {} /\ Len(s) \in Nat
    BY <1>8, <1>9
  <2>2. /\ <<p>> \o s \in Seq(Channels) /\ Len(<<p>> \o s) = Len(<<p>>) + Len(s)
        /\ ToSet(<<p>> \o s) = ToSet(<<p>>) \cup ToSet(s)
        /\ IsInjective(<<p>> \o s)
    BY <1>8, <1>9, <2>1, Joined
  <2> QED BY <1>8, <2>1, <2>2
<1>10. ASSUME NEW c \in Channels, LeavesMix(c), c \notin ToSet(rampOutList)
       PROVE  /\ rampOutList' \in Seq(Channels) /\ IsInjective(rampOutList')
              /\ ToSet(rampOutList') = ToSet(rampOutList) \cup ({c} \cap isMixed)
              /\ taken' = (taken \cup {p}) \ ({c} \ isMixed)
  <2>1. CASE c \in isMixed
    <3>1. rampOutList' = Append(rampOutList, c) /\ taken' = taken \cup {p}
      BY <1>3, <1>10, <2>1 DEF LeavesMix, RampsOut
    <3> QED BY <1>6, <1>10, <2>1, <3>1, Appended
  <2>2. CASE c \notin isMixed
    BY <1>3, <1>6, <1>10, <2>2 DEF LeavesMix, RampsOut
  <2> QED BY <2>1, <2>2
<1>11. p \notin ToSet(activeList) /\ p \notin ToSet(rampOutList)
  BY <1>3, <1>7
<1>12. CASE Len(activeList) < MaxMixed
  <2> DEFINE gone == {}
  <2>1. activeList' = <<p>> \o activeList /\ taken' = taken \cup {p} /\ UNCHANGED rampOutList
    BY <1>4, <1>6, <1>12
  <2>2. /\ activeList' \in Seq(Channels) /\ IsInjective(activeList')
        /\ ToSet(activeList') = ToSet(activeList) \cup {p} /\ Len(activeList') = Len(activeList) + 1
    BY <1>6, <1>9, <1>11, <2>1
  <2>3. /\ Len(activeList') <= MaxMixed /\ Len(activeList') >= Len(activeList)
        /\ Len(activeList) # MaxMixed
    BY <1>6, <1>12, <2>2
  <2>4. /\ gone \in SUBSET (ToSet(activeList) \cup {p})
        /\ ToSet(activeList') = (ToSet(activeList) \cup {p}) \ gone
        /\ ToSet(rampOutList') = ToSet(rampOutList) \cup (gone \cap isMixed)
        /\ taken' = (taken \cup {p}) \ (gone \ isMixed) /\ gone = {}
    BY <2>1, <2>2
  <2> HIDE DEF gone
  <2> QED BY <1>6, <2>1, <2>2, <2>3, <2>4
<1>13. CASE Len(activeList) >= MaxMixed
  <2> DEFINE quiet == Quietest(activeList)
  <2>1. activeList # <<>>
    BY <1>6, <1>13
  <2>2. /\ quiet \in ToSet(activeList)
        /\ \A q \in ToSet(activeList) : frame[quiet] <= frame[q]
    BY <1>2, <1>7, <2>1, QuietestIs
  <2> HIDE DEF quiet
  <2>3. /\ quiet \in Channels /\ quiet \notin ToSet(rampOutList) /\ frame[quiet] \in Nat
        /\ quiet \in DOMAIN frame
    BY <1>2, <1>7, <2>2 DEF RoundTypes
  <2>4. \A q \in ToSet(activeList) : frame'[q] = frame[q] /\ frame[q] \in Nat
    BY <1>5, <1>7
  <2>5. CASE frame[quiet] < f
    <3>1. /\ activeList' = <<p>> \o RemovedFrom(activeList, quiet) /\ LeavesMix(quiet)
      BY <1>4, <1>5, <1>6, <1>13, <2>3, <2>5 DEF quiet
    <3>2. /\ RemovedFrom(activeList, quiet) \in Seq(Channels)
          /\ IsInjective(RemovedFrom(activeList, quiet))
          /\ ToSet(RemovedFrom(activeList, quiet)) = ToSet(activeList) \ {quiet}
          /\ Len(RemovedFrom(activeList, quiet)) = Len(activeList) - 1
      BY <1>6, <2>2, Removed DEF RemovedFrom
    <3>3. /\ activeList' \in Seq(Channels) /\ IsInjective(activeList')
          /\ ToSet(activeList') = (ToSet(activeList) \ {quiet}) \cup {p}
          /\ Len(activeList') = Len(activeList) - 1 + 1
      BY <1>9, <1>11, <3>1, <3>2
    <3>4. Len(activeList') = MaxMixed /\ Len(activeList') >= Len(activeList)
          /\ Len(activeList') <= MaxMixed
      BY <1>6, <1>13, <3>3
    <3>5. /\ rampOutList' \in Seq(Channels) /\ IsInjective(rampOutList')
          /\ ToSet(rampOutList') = ToSet(rampOutList) \cup ({quiet} \cap isMixed)
          /\ taken' = (taken \cup {p}) \ ({quiet} \ isMixed)
      BY <1>10, <2>3, <3>1
    <3>6. \A q \in ToSet(activeList') : frame'[quiet] <= frame'[q]
      BY <1>5, <2>2, <2>3, <2>4, <2>5, <3>3
    <3>7. ToSet(activeList') = (ToSet(activeList) \cup {p}) \ {quiet}
      BY <1>11, <2>2, <3>3
    <3>8. {quiet} \in SUBSET (ToSet(activeList) \cup {p})
      BY <2>2
    <3> QED BY <3>3, <3>4, <3>5, <3>6, <3>7, <3>8
  <2>6. CASE frame[quiet] >= f
    <3>1. LeavesMix(p) /\ UNCHANGED activeList
      BY <1>4, <1>5, <1>6, <1>13, <2>3, <2>6 DEF quiet
    <3>2. /\ rampOutList' \in Seq(Channels) /\ IsInjective(rampOutList')
          /\ ToSet(rampOutList') = ToSet(rampOutList) \cup ({p} \cap isMixed)
          /\ taken' = (taken \cup {p}) \ ({p} \ isMixed)
      BY <1>10, <1>11, <3>1
    <3>3. \A q \in ToSet(activeList') : frame'[p] <= frame'[q]
      <4> TAKE q \in ToSet(activeList')
      <4>1. frame[quiet] <= frame[q] /\ frame'[q] = frame[q] /\ frame[q] \in Nat
        BY <2>2, <2>4, <3>1
      <4> QED BY <1>5, <2>3, <2>6, <4>1
    <3>4. ToSet(activeList') = (ToSet(activeList) \cup {p}) \ {p}
      BY <1>11, <3>1
    <3>5. Len(activeList') = MaxMixed /\ Len(activeList') >= Len(activeList)
          /\ Len(activeList') <= MaxMixed
      BY <1>6, <1>13, <3>1
    <3> QED BY <1>6, <3>1, <3>2, <3>3, <3>4, <3>5
  <2>7. frame[quiet] < f \/ frame[quiet] >= f
    BY <1>5, <2>3
  <2> QED BY <2>5, <2>6, <2>7
<1>14. Len(activeList) < MaxMixed \/ Len(activeList) >= MaxMixed
  BY <1>6
<1> QED BY <1>12, <1>13, <1>14

\* The best active frames stay in the list, those pushed out are ramped out or
\* returned.
LEMMA AskActiveStep ==
  ASSUME MixerInv, NEW p \in Channels, AskActive(p)
  PROVE  MixerInv'
<1>1. /\ mixer = "toMix" /\ p \in ToSet(todo) /\ ToSet(todo') = ToSet(todo) \ {p}
      /\ todo' \in Seq(Channels) /\ IsInjective(todo')
  BY Asked DEF AskActive
<1>2. PICK f \in Energies :
        /\ UNCHANGED <<lists, numMixedParticipants, callers, mixer, mixList,
                       additionalFramesList, mixed, calm, passiveWasMixedList,
                       passiveWasNotMixedList>>
        /\ rampedIn' = IF p \notin isMixed THEN rampedIn \cup {p} ELSE rampedIn
        /\ frame' = FrameWith(p, f)
  BY DEF AskActive, ToMixUnchanged, RampInIf
<1>3. /\ AskedSoFar /\ Ranked /\ Ramped /\ RoundTypes /\ Injective /\ Taken /\ ListTypes
  BY <1>1 DEF MixerInv, RoundInv, Types
<1>4. /\ ListTypes' /\ CallerTypes' /\ ListedOnce' /\ CallsInv' /\ CountInv'
      /\ Named' = Named /\ Participants' = Participants
  BY <1>2, <1>3, CallersKept DEF callerVars, lists, ListTypes
<1>5. p \in Named /\ p \notin DOMAIN frame
  BY <1>1, <1>3 DEF AskedSoFar
<1>6a. f # Passive
  BY MixerAssumption DEF Passive
<1>6. /\ DOMAIN frame' = DOMAIN frame \cup {p} /\ frame'[p] = f /\ f # Passive
      /\ \A q \in DOMAIN frame : frame'[q] = frame[q]
      /\ frame' \in [DOMAIN frame' -> Energies \cup {Passive}]
      /\ DOMAIN frame' \subseteq Channels
  BY <1>2, <1>3, <1>5, <1>6a, FrameGiven
<1>7. PICK gone \in SUBSET (ToSet(activeList) \cup {p}) :
        /\ activeList' \in Seq(Channels) /\ IsInjective(activeList')
        /\ rampOutList' \in Seq(Channels) /\ IsInjective(rampOutList')
        /\ ToSet(activeList') = (ToSet(activeList) \cup {p}) \ gone
        /\ ToSet(rampOutList') = ToSet(rampOutList) \cup (gone \cap isMixed)
        /\ taken' = (taken \cup {p}) \ (gone \ isMixed)
        /\ Len(activeList') <= MaxMixed /\ Len(activeList') >= Len(activeList)
        /\ gone # {} => Len(activeList') = MaxMixed
        /\ Len(activeList) = MaxMixed => gone # {}
        /\ \A g \in gone, q \in ToSet(activeList') : frame'[g] <= frame'[q]
  BY ActiveChosen
<1>8. /\ Active' = Active \cup {p} /\ WasMixed' = WasMixed /\ WasNotMixed' = WasNotMixed
      /\ p \notin Active /\ isMixed' = isMixed
  BY <1>2, <1>5, <1>6 DEF Active, WasMixed, WasNotMixed, lists
<1>9. /\ ToSet(activeList) \subseteq Active
      /\ ToSet(passiveWasMixedList) \cap Active = {}
      /\ ToSet(passiveWasNotMixedList) \cap Active = {}
      /\ ToSet(passiveWasMixedList) \subseteq DOMAIN frame
      /\ ToSet(passiveWasNotMixedList) \subseteq DOMAIN frame
      /\ Active \subseteq DOMAIN frame
  BY <1>3 DEF Ranked, Active, WasMixed, WasNotMixed
<1>10. RoundTypes'
  BY <1>1, <1>2, <1>3, <1>6, <1>7 DEF RoundTypes
<1>11. Injective'
  BY <1>1, <1>2, <1>3, <1>7 DEF Injective
<1>12. /\ mixList = <<>> /\ additionalFramesList = <<>> /\ ToSet(<<>>) = {}
       /\ mixList' = <<>> /\ additionalFramesList' = <<>>
  BY <1>2, <1>3, EmptySet DEF AskedSoFar
<1>13. Apart'
  BY <1>12 DEF Apart
<1>14. /\ Sorted = ToSet(activeList) \cup ToSet(passiveWasMixedList)
                     \cup ToSet(passiveWasNotMixedList)
       /\ Sorted' = ToSet(activeList') \cup ToSet(passiveWasMixedList)
                     \cup ToSet(passiveWasNotMixedList)
       /\ Output = ToSet(rampOutList) /\ Output' = ToSet(rampOutList') /\ Held = {} /\ Held' = {}
  BY <1>1, <1>2, <1>12 DEF Sorted, Output, Held
<1>15. ToSet(rampOutList) = (Active \cap isMixed) \ ToSet(activeList)
  BY <1>3 DEF Ramped
<1>16. Taken'
  <2>1. taken = Sorted \cup ToSet(rampOutList)
    BY <1>3, <1>14 DEF Taken
  <2>2. taken' = Sorted' \cup ToSet(rampOutList')
    BY <1>5, <1>7, <1>8, <1>9, <1>14, <1>15, <2>1
  <2> QED BY <1>14, <2>2 DEF Taken
<1>17. AskedSoFar'
  BY <1>1, <1>2, <1>3, <1>4, <1>5, <1>6, <1>12 DEF AskedSoFar
<1>18. Ranked'
  <2>1. ToSet(activeList') \subseteq Active' /\ Len(activeList') <= MaxMixed
    BY <1>7, <1>8, <1>9
  <2>2. /\ \A x \in Active \ ToSet(activeList), q \in ToSet(activeList) : frame[x] <= frame[q]
        /\ Active # ToSet(activeList) => Len(activeList) = MaxMixed
    BY <1>3 DEF Ranked
  <2>3. \A x \in Active' \ ToSet(activeList'), q \in ToSet(activeList') : frame'[x] <= frame'[q]
    <3> SUFFICES ASSUME NEW x \in Active', x \notin ToSet(activeList'),
                        NEW q \in ToSet(activeList')
                 PROVE  frame'[x] <= frame'[q]
      OBVIOUS
    <3>1. CASE x \in gone
      BY <1>7, <3>1
    <3>2. CASE x \notin gone
      <4>1. x \in Active \ ToSet(activeList)
        BY <1>7, <1>8, <3>2
      <4>2. \A y \in ToSet(activeList) : frame'[x] <= frame'[y]
        BY <1>6, <1>9, <2>2, <4>1
      <4>3. CASE q \in ToSet(activeList)
        BY <4>2, <4>3
      <4>4. CASE q \notin ToSet(activeList)
        <5>1. q = p /\ p \notin gone
          BY <1>7, <4>4
        <5>2. PICK g \in gone : g \in ToSet(activeList)
          BY <1>7, <2>2, <4>1, <5>1
        <5>3. frame'[x] <= frame'[g] /\ frame'[g] <= frame'[q]
          BY <1>7, <4>2, <5>2
        <5>4. frame'[x] \in Int /\ frame'[g] \in Int /\ frame'[q] \in Int
          <6>1. x \in DOMAIN frame' /\ g \in DOMAIN frame' /\ q \in DOMAIN frame'
            BY <1>6, <1>9, <4>1, <5>1, <5>2
          <6> QED BY <1>6, <6>1, MixerAssumption DEF Passive
        <5> QED BY <5>3, <5>4
      <4> QED BY <4>3, <4>4
    <3> QED BY <3>1, <3>2
  <2>4. Active' # ToSet(activeList') => Len(activeList') = MaxMixed
    BY <1>7, <1>8, <2>2
  <2>5. ToSet(passiveWasMixedList') = WasMixed' /\ ToSet(passiveWasNotMixedList') \subseteq WasNotMixed'
    BY <1>2, <1>3, <1>8 DEF Ranked
  <2>6. WasNotMixed' # ToSet(passiveWasNotMixedList') =>
          Len(activeList') + Len(passiveWasMixedList') + Len(passiveWasNotMixedList') >= MaxMixed
    <3>1. /\ Len(activeList) \in Nat /\ Len(activeList') \in Nat /\ Len(passiveWasMixedList) \in Nat
          /\ Len(passiveWasNotMixedList) \in Nat /\ MaxMixed \in Nat
      BY <1>3, <1>7, MixerAssumption DEF RoundTypes
    <3>2. WasNotMixed # ToSet(passiveWasNotMixedList) =>
            Len(activeList) + Len(passiveWasMixedList) + Len(passiveWasNotMixedList) >= MaxMixed
      BY <1>3 DEF Ranked
    <3> QED BY <1>2, <1>7, <1>8, <3>1, <3>2
  <2> QED BY <2>1, <2>3, <2>4, <2>5, <2>6 DEF Ranked
<1>19. Ramped'
  <2>1. ToSet(rampOutList') = (Active' \cap isMixed') \ ToSet(activeList')
    BY <1>5, <1>7, <1>8, <1>9, <1>15
  <2>2. \A x \in Sorted' : x \in rampedIn' <=> x \notin isMixed'
    <3> SUFFICES ASSUME NEW x \in Sorted' PROVE x \in rampedIn' <=> x \notin isMixed'
      OBVIOUS
    <3>1. CASE x = p
      <4>1. p \notin rampedIn
        BY <1>3, <1>5 DEF AskedSoFar
      <4> QED BY <1>2, <1>8, <3>1, <4>1
    <3>2. CASE x # p
      <4>1. x \in Sorted
        BY <1>7, <1>14, <3>2
      <4>2. x \in rampedIn <=> x \notin isMixed
        BY <1>3, <4>1 DEF Ramped
      <4> QED BY <1>2, <1>8, <3>2, <4>2
    <3> QED BY <3>1, <3>2
  <2> QED BY <2>1, <2>2 DEF Ramped
<1>20. RoundInv'
  BY <1>1, <1>2, <1>8, <1>17, <1>18, <1>19 DEF MixerInv, RoundInv, CbCritHeld
<1>21. Heard'
  <2>1. calm => at["api"] = "idle"
    BY <1>1 DEF MixerInv, Heard
  <2>2. Output' \subseteq Participants'
    <3>1. Output' \subseteq DOMAIN frame'
      BY <1>6, <1>7, <1>9, <1>14, <1>15
    <3> QED BY <1>4, <1>17, <3>1 DEF AskedSoFar, Participants
  <2> QED BY <1>1, <1>2, <2>1, <2>2 DEF Heard, callers, places
<1> QED BY <1>4, <1>10, <1>11, <1>13, <1>16, <1>20, <1>21 DEF MixerInv, Types

\* A passive frame is kept if it was mixed, or as long as there is room.
LEMMA AskPassiveStep ==
  ASSUME MixerInv, NEW p \in Channels, AskPassive(p)
  PROVE  MixerInv'
<1> DEFINE listed == Len(activeList) + Len(passiveWasMixedList) + Len(passiveWasNotMixedList)
<1>1. /\ mixer = "toMix" /\ p \in ToSet(todo) /\ ToSet(todo') = ToSet(todo) \ {p}
      /\ todo' \in Seq(Channels) /\ IsInjective(todo')
  BY Asked DEF AskPassive
<1>2. /\ UNCHANGED <<lists, numMixedParticipants, callers, mixer, mixList,
                     additionalFramesList, mixed, calm, activeList, rampOutList>>
      /\ frame' = FrameWith(p, Passive)
      /\ \/ /\ p \in isMixed
            /\ passiveWasMixedList' = Append(passiveWasMixedList, p)
            /\ taken' = taken \cup {p} /\ UNCHANGED <<passiveWasNotMixedList, rampedIn>>
         \/ /\ p \notin isMixed /\ MaxMixed > listed
            /\ passiveWasNotMixedList' = Append(passiveWasNotMixedList, p)
            /\ rampedIn' = rampedIn \cup {p}
            /\ taken' = taken \cup {p} /\ UNCHANGED passiveWasMixedList
         \/ /\ p \notin isMixed /\ ~(MaxMixed > listed)
            /\ UNCHANGED <<passiveWasMixedList, passiveWasNotMixedList, rampedIn, taken>>
  BY DEF AskPassive, ToMixUnchanged, RampInIf
<1>3. /\ AskedSoFar /\ Ranked /\ Ramped /\ RoundTypes /\ Injective /\ Taken /\ ListTypes
  BY <1>1 DEF MixerInv, RoundInv, Types
<1>4. /\ ListTypes' /\ CallerTypes' /\ ListedOnce' /\ CallsInv' /\ CountInv'
      /\ Named' = Named /\ Participants' = Participants
  BY <1>2, <1>3, CallersKept DEF callerVars, lists, ListTypes
<1>5. p \in Named /\ p \notin DOMAIN frame
  BY <1>1, <1>3 DEF AskedSoFar
<1>6. /\ DOMAIN frame' = DOMAIN frame \cup {p} /\ frame'[p] = Passive
      /\ \A q \in DOMAIN frame : frame'[q] = frame[q]
      /\ frame' \in [DOMAIN frame' -> Energies \cup {Passive}]
      /\ DOMAIN frame' \subseteq Channels
  BY <1>2, <1>3, <1>5, FrameGiven
<1>7. /\ Active' = Active /\ isMixed' = isMixed
      /\ WasMixed' = IF p \in isMixed THEN WasMixed \cup {p} ELSE WasMixed
      /\ WasNotMixed' = IF p \in isMixed THEN WasNotMixed ELSE WasNotMixed \cup {p}
  BY <1>2, <1>5, <1>6 DEF Active, WasMixed, WasNotMixed, lists
<1>8. /\ ToSet(activeList) \subseteq DOMAIN frame
      /\ ToSet(passiveWasMixedList) \subseteq DOMAIN frame
      /\ ToSet(passiveWasNotMixedList) \subseteq DOMAIN frame
      /\ ToSet(rampOutList) \subseteq DOMAIN frame
      /\ Active \subseteq DOMAIN frame
  BY <1>3 DEF Ranked, Ramped, Active, WasMixed, WasNotMixed
<1>9. /\ passiveWasMixedList \in Seq(Channels) /\ passiveWasNotMixedList \in Seq(Channels)
      /\ activeList \in Seq(Channels)
      /\ IsInjective(passiveWasMixedList) /\ IsInjective(passiveWasNotMixedList)
      /\ Len(activeList) \in Nat /\ Len(passiveWasMixedList) \in Nat
      /\ Len(passiveWasNotMixedList) \in Nat /\ MaxMixed \in Nat
  BY <1>3, MixerAssumption DEF RoundTypes, Injective
<1>10. /\ passiveWasMixedList' \in Seq(Channels) /\ passiveWasNotMixedList' \in Seq(Channels)
       /\ IsInjective(passiveWasMixedList') /\ IsInjective(passiveWasNotMixedList')
       /\ \/ /\ p \in isMixed
             /\ ToSet(passiveWasMixedList') = ToSet(passiveWasMixedList) \cup {p}
             /\ Len(passiveWasMixedList') = Len(passiveWasMixedList) + 1
             /\ UNCHANGED <<passiveWasNotMixedList, rampedIn>> /\ taken' = taken \cup {p}
          \/ /\ p \notin isMixed /\ MaxMixed > listed
             /\ ToSet(passiveWasNotMixedList') = ToSet(passiveWasNotMixedList) \cup {p}
             /\ Len(passiveWasNotMixedList') = Len(passiveWasNotMixedList) + 1
             /\ UNCHANGED passiveWasMixedList
             /\ rampedIn' = rampedIn \cup {p} /\ taken' = taken \cup {p}
          \/ /\ p \notin isMixed /\ ~(MaxMixed > listed)
             /\ UNCHANGED <<passiveWasMixedList, passiveWasNotMixedList, rampedIn, taken>>
  <2> HIDE DEF listed
  <2>1. CASE p \in isMixed
    <3>1. /\ passiveWasMixedList' = Append(passiveWasMixedList, p)
          /\ taken' = taken \cup {p} /\ UNCHANGED <<passiveWasNotMixedList, rampedIn>>
      BY <1>2, <2>1
    <3>2. p \notin ToSet(passiveWasMixedList)
      BY <1>5, <1>8
    <3>3. /\ passiveWasMixedList' \in Seq(Channels) /\ IsInjective(passiveWasMixedList')
          /\ ToSet(passiveWasMixedList') = ToSet(passiveWasMixedList) \cup {p}
          /\ Len(passiveWasMixedList') = Len(passiveWasMixedList) + 1
      BY <1>9, <3>1, <3>2, Appended
    <3> QED BY <1>9, <2>1, <3>1, <3>3
  <2>2. CASE p \notin isMixed /\ MaxMixed > listed
    <3>1. /\ passiveWasNotMixedList' = Append(passiveWasNotMixedList, p)
          /\ rampedIn' = rampedIn \cup {p}
          /\ taken' = taken \cup {p} /\ UNCHANGED passiveWasMixedList
      BY <1>2, <2>2
    <3>2. p \notin ToSet(passiveWasNotMixedList)
      BY <1>5, <1>8
    <3>3. /\ passiveWasNotMixedList' \in Seq(Channels) /\ IsInjective(passiveWasNotMixedList')
          /\ ToSet(passiveWasNotMixedList') = ToSet(passiveWasNotMixedList) \cup {p}
          /\ Len(passiveWasNotMixedList') = Len(passiveWasNotMixedList) + 1
      BY <1>9, <3>1, <3>2, Appended
    <3> QED BY <1>9, <2>2, <3>1, <3>3
  <2>3. CASE p \notin isMixed /\ ~(MaxMixed > listed)
    <3>1. UNCHANGED <<passiveWasMixedList, passiveWasNotMixedList, rampedIn, taken>>
      BY <1>2, <2>3
    <3> QED BY <1>9, <2>3, <3>1
  <2> QED BY <2>1, <2>2, <2>3
<1>11. RoundTypes' /\ Injective'
  BY <1>1, <1>2, <1>3, <1>6, <1>10 DEF RoundTypes, Injective
<1>12. /\ mixList = <<>> /\ additionalFramesList = <<>> /\ ToSet(<<>>) = {}
       /\ mixList' = <<>> /\ additionalFramesList' = <<>>
  BY <1>2, <1>3, EmptySet DEF AskedSoFar
<1>13. Apart'
  BY <1>12 DEF Apart
<1>14. /\ Sorted' = Sorted \cup (IF p \in isMixed \/ MaxMixed > listed THEN {p} ELSE {})
       /\ Output' = Output /\ Held = {} /\ Held' = {} /\ Output = ToSet(rampOutList)
  BY <1>1, <1>2, <1>10, <1>12 DEF Sorted, Output, Held
<1>15. Taken'
  <2> HIDE DEF listed
  <2>1. taken' = taken \cup (IF p \in isMixed \/ MaxMixed > listed THEN {p} ELSE {})
    BY <1>10
  <2> QED BY <1>3, <1>14, <2>1 DEF Taken
<1>16. AskedSoFar'
  <2>1. rampedIn' \subseteq rampedIn \cup {p}
    BY <1>10
  <2> QED BY <1>1, <1>3, <1>4, <1>5, <1>6, <1>12, <2>1 DEF AskedSoFar
<1>17. Ranked'
  <2>1. /\ ToSet(activeList') \subseteq Active' /\ Len(activeList') <= MaxMixed
        /\ Active' # ToSet(activeList') => Len(activeList') = MaxMixed
    BY <1>2, <1>3, <1>7 DEF Ranked
  <2>2. \A x \in Active' \ ToSet(activeList'), q \in ToSet(activeList') : frame'[x] <= frame'[q]
    <3>1. \A x \in Active \ ToSet(activeList), q \in ToSet(activeList) : frame[x] <= frame[q]
      BY <1>3 DEF Ranked
    <3> QED BY <1>2, <1>6, <1>7, <1>8, <3>1
  <2>3. ToSet(passiveWasMixedList') = WasMixed'
    <3>1. ToSet(passiveWasMixedList) = WasMixed
      BY <1>3 DEF Ranked
    <3> QED BY <1>7, <1>10, <3>1
  <2>4. ToSet(passiveWasNotMixedList') \subseteq WasNotMixed'
    <3>1. ToSet(passiveWasNotMixedList) \subseteq WasNotMixed
      BY <1>3 DEF Ranked
    <3> QED BY <1>7, <1>10, <3>1
  <2>5. WasNotMixed' # ToSet(passiveWasNotMixedList') =>
          Len(activeList') + Len(passiveWasMixedList') + Len(passiveWasNotMixedList') >= MaxMixed
    <3>1. WasNotMixed # ToSet(passiveWasNotMixedList) => listed >= MaxMixed
      BY <1>3 DEF Ranked
    <3>2. CASE p \in isMixed
      BY <1>2, <1>7, <1>9, <1>10, <3>1, <3>2
    <3>3. CASE p \notin isMixed /\ MaxMixed > listed
      <4>1. WasNotMixed = ToSet(passiveWasNotMixedList)
        BY <1>9, <3>1, <3>3
      <4> QED BY <1>7, <1>10, <3>3, <4>1
    <3>4. CASE p \notin isMixed /\ ~(MaxMixed > listed)
      BY <1>2, <1>9, <1>10, <3>4
    <3> QED BY <3>2, <3>3, <3>4
  <2> QED BY <2>1, <2>2, <2>3, <2>4, <2>5 DEF Ranked
<1>18. Ramped'
  <2>1. ToSet(rampOutList') = (Active' \cap isMixed') \ ToSet(activeList')
    BY <1>2, <1>3, <1>7 DEF Ramped
  <2>2. \A x \in Sorted' : x \in rampedIn' <=> x \notin isMixed'
    <3> HIDE DEF listed
    <3> SUFFICES ASSUME NEW x \in Sorted' PROVE x \in rampedIn' <=> x \notin isMixed'
      OBVIOUS
    <3>1. CASE x = p
      <4>1. p \notin rampedIn /\ p \notin Sorted
        BY <1>3, <1>5, <1>8 DEF AskedSoFar, Sorted
      <4>2. p \in isMixed \/ MaxMixed > listed
        BY <1>14, <3>1, <4>1
      <4> QED BY <1>7, <1>10, <3>1, <4>1, <4>2
    <3>2. CASE x # p
      <4>1. x \in Sorted /\ (x \in rampedIn' <=> x \in rampedIn)
        BY <1>10, <1>14, <3>2
      <4>2. x \in rampedIn <=> x \notin isMixed
        BY <1>3, <4>1 DEF Ramped
      <4> QED BY <1>7, <4>1, <4>2
    <3> QED BY <3>1, <3>2
  <2> QED BY <2>1, <2>2 DEF Ramped
<1>19. RoundInv'
  BY <1>1, <1>2, <1>7, <1>16, <1>17, <1>18 DEF MixerInv, RoundInv, CbCritHeld
<1>20. Heard'
  <2>1. calm => at["api"] = "idle" /\ Output \subseteq Participants
    BY <1>1 DEF MixerInv, Heard
  <2> QED BY <1>1, <1>2, <1>4, <1>14, <2>1 DEF Heard, callers, places
<1> QED BY <1>4, <1>11, <1>13, <1>15, <1>19, <1>20 DEF MixerInv, Types

\* The frames chosen of those that are sorted: the best, as many as there is room for.
LEMMA Filled ==
  ASSUME MixerInv, FillMixList
  PROVE  /\ mixList' \in Seq(Channels) /\ IsInjective(mixList') /\ Len(mixList') <= MaxMixed
         /\ ToSet(activeList) \subseteq ToSet(mixList') /\ ToSet(mixList') \subseteq Sorted
         /\ taken' = taken \ (Sorted \ ToSet(mixList'))
         /\ \/ Len(mixList') = MaxMixed
            \/ /\ ToSet(mixList') = Sorted
               /\ Len(mixList') = Len(activeList) + Len(passiveWasMixedList)
                                    + Len(passiveWasNotMixedList)
         /\ \A p \in WasMixed \ ToSet(mixList'), q \in ToSet(mixList') : q \notin WasNotMixed
<1> DEFINE a == activeList
           b == passiveWasMixedList
           c == passiveWasNotMixedList
           ranked == a \o b \o c
           chosen == AtMost(MaxMixed, ranked)
           rest == SubSeq(ranked, chosen + 1, Len(ranked))
<1>1. /\ mixer = "toMix" /\ mixList' = SubSeq(ranked, 1, chosen)
      /\ taken' = taken \ ToSet(rest)
  BY DEF FillMixList
<1>2. /\ Ranked /\ RoundTypes /\ Injective
  BY <1>1 DEF MixerInv, RoundInv, Types
<1>3. /\ a \in Seq(Channels) /\ b \in Seq(Channels) /\ c \in Seq(Channels)
      /\ IsInjective(a) /\ IsInjective(b) /\ IsInjective(c)
      /\ Len(a) \in Nat /\ Len(b) \in Nat /\ Len(c) \in Nat /\ MaxMixed \in Nat
      /\ Len(a) <= MaxMixed
  BY <1>2, MixerAssumption DEF RoundTypes, Injective, Ranked
<1>4. /\ ToSet(a) \cap ToSet(b) = {} /\ ToSet(a) \cap ToSet(c) = {} /\ ToSet(b) \cap ToSet(c) = {}
      /\ ToSet(b) = WasMixed /\ ToSet(a) \cap WasNotMixed = {} /\ ToSet(b) \cap WasNotMixed = {}
  BY <1>2 DEF Ranked, Active, WasMixed, WasNotMixed
<1>5. Sorted = ToSet(a) \cup ToSet(b) \cup ToSet(c)
  BY DEF Sorted
<1> HIDE DEF a, b, c
<1>6. /\ a \o b \in Seq(Channels) /\ IsInjective(a \o b)
      /\ ToSet(a \o b) = ToSet(a) \cup ToSet(b) /\ Len(a \o b) = Len(a) + Len(b)
  BY <1>3, <1>4, Joined
<1>7. /\ ranked \in Seq(Channels) /\ IsInjective(ranked)
      /\ ToSet(ranked) = Sorted /\ Len(ranked) = Len(a) + Len(b) + Len(c)
  <2> DEFINE u == a \o b
  <2>1. /\ u \in Seq(Channels) /\ IsInjective(u) /\ ToSet(u) \cap ToSet(c) = {}
        /\ ToSet(u) = ToSet(a) \cup ToSet(b) /\ Len(u) = Len(a) + Len(b)
    BY <1>4, <1>6
  <2> HIDE DEF u
  <2>2. /\ u \o c \in Seq(Channels) /\ IsInjective(u \o c)
        /\ ToSet(u \o c) = ToSet(u) \cup ToSet(c) /\ Len(u \o c) = Len(u) + Len(c)
    <3>1. u \in Seq(Channels) /\ c \in Seq(Channels) /\ IsInjective(u) /\ IsInjective(c)
      BY <1>3, <2>1
    <3>2. /\ u \o c \in Seq(Channels) /\ Len(u \o c) = Len(u) + Len(c)
          /\ ToSet(u \o c) = ToSet(u) \cup ToSet(c)
          /\ IsInjective(u \o c) <=>
               IsInjective(u) /\ IsInjective(c) /\ ToSet(u) \cap ToSet(c) = {}
      BY <3>1, Joined, Zenon
    <3> QED BY <2>1, <3>1, <3>2
  <2>3. ToSet(u \o c) = Sorted /\ Len(u \o c) = Len(a) + Len(b) + Len(c)
    BY <1>5, <2>1, <2>2
  <2> QED BY <2>2, <2>3 DEF u
<1>8. b \o c \in Seq(Channels) /\ ranked = a \o (b \o c)
  BY <1>3, ConcatAssociative, ConcatProperties
<1>9. /\ chosen \in 0 .. Len(ranked) /\ chosen <= MaxMixed /\ chosen >= Len(a)
      /\ chosen = MaxMixed \/ chosen = Len(ranked)
  <2> HIDE DEF ranked
  <2> QED BY <1>3, <1>7 DEF AtMost
<1>10. /\ mixList' \in Seq(Channels) /\ Len(mixList') = chosen /\ IsInjective(mixList')
       /\ ToSet(mixList') \cup ToSet(rest) = Sorted /\ ToSet(mixList') \cap ToSet(rest) = {}
  <2> HIDE DEF ranked, chosen
  <2> QED BY <1>1, <1>7, <1>9, Split DEF rest
<1>11. ToSet(a) \subseteq ToSet(mixList')
  <2> HIDE DEF chosen
  <2>1. chosen \in 0 .. Len(a \o (b \o c))
    BY <1>8, <1>9
  <2>2. ToSet(a) \subseteq ToSet(SubSeq(a \o (b \o c), 1, chosen))
    BY <1>3, <1>8, <1>9, <2>1, Prefix
  <2> QED BY <1>1, <1>8, <2>2
<1>12. \A p \in WasMixed \ ToSet(mixList'), q \in ToSet(mixList') : q \notin WasNotMixed
  <2> HIDE DEF chosen
  <2>1. chosen \in Nat /\ (chosen >= Len(a \o b) \/ chosen <= Len(a \o b))
    BY <1>3, <1>6, <1>9
  <2>2. CASE chosen >= Len(a \o b)
    <3>1. ToSet(a \o b) \subseteq ToSet(mixList')
      BY <1>1, <1>3, <1>6, <1>9, <2>2, Prefix
    <3> QED BY <1>4, <1>6, <3>1
  <2>3. CASE chosen <= Len(a \o b)
    <3>1. ToSet(mixList') \subseteq ToSet(a \o b)
      BY <1>1, <1>3, <1>6, <1>9, <2>3, Prefix
    <3> QED BY <1>4, <1>6, <3>1
  <2> QED BY <2>1, <2>2, <2>3
<1>13. chosen = Len(ranked) => ToSet(mixList') = Sorted
  BY <1>1, <1>7, SubSeqFull
<1> HIDE DEF chosen, ranked, rest
<1>14. taken' = taken \ (Sorted \ ToSet(mixList'))
  BY <1>1, <1>10
<1>15. \/ Len(mixList') = MaxMixed
       \/ /\ ToSet(mixList') = Sorted
          /\ Len(mixList') = Len(a) + Len(b) + Len(c)
  BY <1>7, <1>9, <1>10, <1>13
<1> QED BY <1>5, <1>9, <1>10, <1>11, <1>12, <1>14, <1>15 DEF a, b, c

\* What does not fit into the mix is returned.
LEMMA FillMixListStep ==
  ASSUME MixerInv, FillMixList
  PROVE  MixerInv'
<1>1. /\ mixer = "toMix" /\ mixer' = "additional" /\ todo' = additionalParticipantList
      /\ activeList' = <<>> /\ passiveWasMixedList' = <<>> /\ passiveWasNotMixedList' = <<>>
      /\ UNCHANGED <<lists, numMixedParticipants, callers, frame, rampedIn, rampOutList,
                     additionalFramesList, mixed, calm>>
  BY DEF FillMixList
<1>2. /\ AskedSoFar /\ Ranked /\ Ramped /\ RoundTypes /\ Injective /\ Taken /\ ListTypes /\ ListedOnce
  BY <1>1 DEF MixerInv, RoundInv, Types
<1>3. /\ ListTypes' /\ CallerTypes' /\ ListedOnce' /\ CallsInv' /\ CountInv'
      /\ Named' = Named /\ Anonymous' = Anonymous /\ Participants' = Participants
      /\ Named \cap Anonymous = {}
  BY <1>1, <1>2, CallersKept DEF callerVars, lists, ListTypes
<1>4. /\ mixList' \in Seq(Channels) /\ IsInjective(mixList') /\ Len(mixList') <= MaxMixed
      /\ ToSet(activeList) \subseteq ToSet(mixList') /\ ToSet(mixList') \subseteq Sorted
      /\ taken' = taken \ (Sorted \ ToSet(mixList'))
  BY Filled
<1>5. <<>> \in Seq(Channels) /\ IsInjective(<<>>) /\ ToSet(<<>>) = {}
  BY EmptySet
<1>6. RoundTypes'
  BY <1>1, <1>2, <1>4, <1>5 DEF RoundTypes, ListTypes, MixerPlaces
<1>7. Injective'
  BY <1>1, <1>2, <1>4, <1>5 DEF Injective, ListedOnce
<1>8. /\ additionalFramesList = <<>> /\ additionalFramesList' = <<>> /\ mixList = <<>>
      /\ ToSet(rampOutList) = (Active \cap isMixed) \ ToSet(activeList)
      /\ rampOutList' = rampOutList
      /\ DOMAIN frame \subseteq Named
  BY <1>1, <1>2 DEF AskedSoFar, Ramped
<1>9. Sorted \cap ToSet(rampOutList) = {} /\ Sorted \subseteq DOMAIN frame
      /\ ToSet(rampOutList) \subseteq DOMAIN frame
  BY <1>2, <1>8 DEF Ranked, Sorted, Active, WasMixed, WasNotMixed
<1>10. Apart'
  BY <1>4, <1>5, <1>8, <1>9 DEF Apart
<1>11. Taken'
  <2>1. taken = Sorted \cup ToSet(rampOutList)
    BY <1>1, <1>2, <1>5, <1>8 DEF Taken, Output, Held
  <2>2. taken' = ToSet(mixList') \cup ToSet(rampOutList)
    BY <1>4, <1>9, <2>1
  <2>3. Sorted' = {} /\ Output' = ToSet(mixList') \cup ToSet(rampOutList) /\ Held' = {}
    BY <1>1, <1>5, <1>8 DEF Sorted, Output, Held
  <2> QED BY <2>2, <2>3 DEF Taken
<1>12. Chosen'
  BY <1>1, <1>3, <1>4, <1>5, <1>8, <1>9 DEF Chosen, Anonymous
<1>13. RoundInv'
  BY <1>1, <1>4, <1>12 DEF MixerInv, RoundInv, CbCritHeld, lists
<1>14. Heard'
  <2>1. calm => at["api"] = "idle"
    BY <1>1 DEF MixerInv, Heard
  <2>2. Output' \subseteq Participants'
    BY <1>3, <1>4, <1>5, <1>8, <1>9 DEF Output, Participants
  <2> QED BY <1>1, <2>1, <2>2 DEF Heard, callers, places
<1> QED BY <1>3, <1>6, <1>7, <1>10, <1>11, <1>13, <1>14 DEF MixerInv, Types

\* The frames of the anonymous participants are taken besides.
LEMMA TakeAdditionalStep ==
  ASSUME MixerInv, NEW p \in Channels, TakeAdditional(p)
  PROVE  MixerInv'
<1>1. /\ mixer = "additional" /\ p \in ToSet(todo) /\ ToSet(todo') = ToSet(todo) \ {p}
      /\ todo' \in Seq(Channels) /\ IsInjective(todo')
  BY Asked DEF TakeAdditional
<1>2. /\ UNCHANGED <<lists, numMixedParticipants, callers, mixer, frame, rampedIn, sorted,
                     mixList, rampOutList, mixed, calm>>
      /\ \/ UNCHANGED <<additionalFramesList, taken>>
         \/ /\ additionalFramesList' = Append(additionalFramesList, p)
            /\ taken' = taken \cup {p}
  BY DEF TakeAdditional
<1>3. /\ Chosen /\ RoundTypes /\ Injective /\ Apart /\ Taken /\ ListTypes
  BY <1>1 DEF MixerInv, RoundInv, Types
<1>4. /\ ListTypes' /\ CallerTypes' /\ ListedOnce' /\ CallsInv' /\ CountInv'
      /\ Named' = Named /\ Anonymous' = Anonymous /\ Participants' = Participants
      /\ Named \cap Anonymous = {}
  BY <1>2, <1>3, CallersKept DEF callerVars, lists, ListTypes
<1>5. PICK more \in SUBSET {p} :
        /\ additionalFramesList' \in Seq(Channels) /\ IsInjective(additionalFramesList')
        /\ ToSet(additionalFramesList') = ToSet(additionalFramesList) \cup more
        /\ taken' = taken \cup more
  <2>1. additionalFramesList \in Seq(Channels) /\ IsInjective(additionalFramesList)
        /\ p \notin ToSet(additionalFramesList)
    BY <1>1, <1>3 DEF RoundTypes, Injective, Chosen
  <2>2. CASE UNCHANGED <<additionalFramesList, taken>>
    <3>1. {} \in SUBSET {p} /\ ToSet(additionalFramesList') = ToSet(additionalFramesList) \cup {}
          /\ taken' = taken \cup {}
      BY <2>2
    <3> QED BY <2>1, <2>2, <3>1
  <2>3. CASE /\ additionalFramesList' = Append(additionalFramesList, p)
             /\ taken' = taken \cup {p}
    <3>1. {p} \in SUBSET {p} /\ ToSet(additionalFramesList') = ToSet(additionalFramesList) \cup {p}
          /\ additionalFramesList' \in Seq(Channels) /\ IsInjective(additionalFramesList')
      BY <2>1, <2>3, Appended
    <3> QED BY <2>3, <3>1
  <2> QED BY <1>2, <2>2, <2>3
<1>6. RoundTypes' /\ Injective'
  BY <1>1, <1>2, <1>3, <1>5 DEF RoundTypes, Injective, sorted
<1>7. Apart'
  BY <1>1, <1>2, <1>3, <1>4, <1>5 DEF Apart, Chosen
<1>8. Taken'
  BY <1>1, <1>2, <1>3, <1>5 DEF Taken, Sorted, Output, Held, sorted
<1>9. Chosen'
  BY <1>1, <1>2, <1>3, <1>4, <1>5 DEF Chosen
<1>10. RoundInv'
  BY <1>1, <1>2, <1>9 DEF MixerInv, RoundInv, CbCritHeld, lists, sorted
<1>11. Heard'
  <2>1. calm => at["api"] = "idle" /\ Output \subseteq Participants
    BY <1>1 DEF MixerInv, Heard
  <2>2. Output' \subseteq Output \cup Anonymous
    BY <1>1, <1>2, <1>3, <1>5 DEF Output, Chosen
  <2> QED BY <1>1, <1>2, <1>4, <2>1, <2>2 DEF Heard, callers, places, Participants
<1> QED BY <1>4, <1>6, <1>7, <1>8, <1>10, <1>11 DEF MixerInv, Types

\* The participants that are mixed are noted, at most MaxMixed of them.
LEMMA UpdateMixedStatusStep ==
  ASSUME MixerInv, UpdateMixedStatus
  PROVE  MixerInv'
<1>1. /\ mixer = "additional" /\ todo = <<>> /\ mixer' = "mix" /\ frame' = <<>> /\ rampedIn' = {}
      /\ isMixed' = ToSet(mixList) \cap ToSet(participantList)
      /\ UNCHANGED <<participantList, additionalParticipantList, numMixedParticipants, callers,
                     todo, sorted, output, taken, mixed, calm>>
  BY DEF UpdateMixedStatus
<1>2. /\ Chosen /\ RoundTypes /\ Injective /\ Apart /\ Taken /\ ListTypes
      /\ Len(mixList) <= MaxMixed
      /\ activeList = <<>> /\ passiveWasMixedList = <<>> /\ passiveWasNotMixedList = <<>>
  BY <1>1 DEF MixerInv, RoundInv, Types
<1>3. IsFiniteSet(isMixed') /\ Cardinality(isMixed') <= MaxMixed
  <2>1. /\ IsFiniteSet(ToSet(mixList)) /\ Cardinality(ToSet(mixList)) = Len(mixList)
        /\ Len(mixList) \in Nat /\ MaxMixed \in Nat
    BY <1>2, LenIsCardinality, MixerAssumption DEF RoundTypes, Injective
  <2>2. isMixed' \in SUBSET ToSet(mixList)
    BY <1>1
  <2> QED BY <1>2, <2>1, <2>2, FS_Subset, FS_CardinalityType
<1>4. /\ ListTypes' /\ CallerTypes' /\ ListedOnce' /\ CallsInv' /\ CountInv'
      /\ Named' = Named /\ Anonymous' = Anonymous /\ Participants' = Participants
  <2>1. isMixed' \subseteq Channels
    BY <1>1, <1>2, SetOf DEF RoundTypes
  <2> QED BY <1>1, <2>1, CallersKept DEF callerVars
<1>5. DOMAIN frame' = {} /\ frame' \in [DOMAIN frame' -> Energies \cup {Passive}]
  BY <1>1
<1>6. RoundTypes'
  BY <1>1, <1>2, <1>5 DEF RoundTypes, MixerPlaces, sorted, output
<1>7. Injective' /\ Apart' /\ Taken'
  BY <1>1, <1>2 DEF Injective, Apart, Taken, Sorted, Output, Held, sorted, output
<1>8. RoundInv'
  BY <1>1, <1>2, <1>3, <1>5 DEF RoundInv, CbCritHeld, sorted
<1>9. Heard'
  <2>1. calm => at["api"] = "idle" /\ Output \subseteq Participants
    BY <1>1 DEF MixerInv, Heard
  <2> QED BY <1>1, <1>4, <2>1 DEF Heard, Output, output, callers, places
<1> QED BY <1>4, <1>6, <1>7, <1>8, <1>9 DEF MixerInv, Types

\* With one participant in the lists the shortcut overwrites nothing.
LEMMA MixStep ==
  ASSUME MixerInv, Mix
  PROVE  MixerInv'
<1>1. /\ mixer = "mix" /\ mixer' = "deliver" /\ taken' = taken \cup {MixedAudio}
      /\ mixed' = MixedWith(MixedWith(MixedWith({}, mixList), additionalFramesList), rampOutList)
      /\ UNCHANGED <<lists, numMixedParticipants, callers, asked, sorted, output, calm>>
  BY DEF Mix
<1>2. /\ RoundTypes /\ Injective /\ Apart /\ Taken /\ ListTypes /\ CountInv /\ RoundInv
  BY DEF MixerInv, Types
<1>3. /\ ListTypes' /\ CallerTypes' /\ ListedOnce' /\ CallsInv' /\ CountInv'
      /\ Participants' = Participants
  BY <1>1, <1>2, CallersKept DEF callerVars, lists, ListTypes
<1>4. RoundTypes' /\ Injective' /\ Apart' /\ Taken'
  BY <1>1, <1>2 DEF RoundTypes, MixerPlaces, Injective, Apart, Taken, Sorted, Output, Held,
                    asked, sorted, output
<1>5. RoundInv'
  BY <1>1, <1>2 DEF RoundInv, CbCritHeld, asked, sorted, lists
<1>6. Heard'
  <2>1. calm => at["api"] = "idle" /\ Output \subseteq Participants
    BY <1>1 DEF MixerInv, Heard
  <2>2. ASSUME calm PROVE mixed' = Output
    <3>1. ASSUME NEW list \in Seq(Channels), ToSet(list) \subseteq Output,
                 NEW audio, audio \subseteq Output
          PROVE  MixedWith(audio, list) = audio \cup ToSet(list)
      <4>1. CASE list = <<>>
        BY <4>1, EmptySet DEF MixedWith
      <4>2. CASE list # <<>> /\ ~AloneInMix
        BY <4>2 DEF MixedWith
      <4>3. CASE list # <<>> /\ AloneInMix
        <5>1. PICK c \in Channels : Participants = {c}
          BY <1>2, <2>1, <2>2, <4>3 DEF CountInv, AloneInMix, Alone
        <5>2. Head(list) \in ToSet(list) /\ Output \subseteq {c}
          BY <2>1, <2>2, <4>3, <5>1, Rest
        <5> QED BY <3>1, <4>3, <5>2 DEF MixedWith
      <4> QED BY <4>1, <4>2, <4>3
    <3>2. /\ mixList \in Seq(Channels) /\ additionalFramesList \in Seq(Channels)
          /\ rampOutList \in Seq(Channels)
      BY <1>2 DEF RoundTypes
    <3>3. /\ ToSet(mixList) \subseteq Output /\ ToSet(additionalFramesList) \subseteq Output
          /\ ToSet(rampOutList) \subseteq Output
      BY DEF Output
    <3>4. MixedWith({}, mixList) = ToSet(mixList)
      <4>1. MixedWith({}, mixList) = {} \cup ToSet(mixList)
        BY <3>1, <3>2, <3>3
      <4> QED BY <4>1
    <3>5. MixedWith(ToSet(mixList), additionalFramesList)
            = ToSet(mixList) \cup ToSet(additionalFramesList)
      BY <3>1, <3>2, <3>3
    <3>6. MixedWith(ToSet(mixList) \cup ToSet(additionalFramesList), rampOutList)
            = ToSet(mixList) \cup ToSet(additionalFramesList) \cup ToSet(rampOutList)
      BY <3>1, <3>2, <3>3
    <3> QED BY <1>1, <3>4, <3>5, <3>6 DEF Output
  <2> QED BY <1>1, <1>3, <2>1, <2>2 DEF Heard, Output, output, callers, places
<1> QED BY <1>3, <1>4, <1>5, <1>6 DEF MixerInv, Types

\* All frames go back to the pool.
LEMMA DeliverStep ==
  ASSUME MixerInv, Deliver
  PROVE  MixerInv'
<1>1. /\ mixer = "deliver" /\ mixer' = "idle" /\ calm' = TRUE
      /\ taken' = (((taken \ {MixedAudio}) \ ToSet(mixList)) \ ToSet(rampOutList))
                      \ ToSet(additionalFramesList)
      /\ mixList' = <<>> /\ rampOutList' = <<>> /\ additionalFramesList' = <<>>
      /\ UNCHANGED <<lists, numMixedParticipants, callers, asked, sorted>>
  BY DEF Deliver, Pushed
<1>2. /\ RoundTypes /\ Injective /\ Apart /\ Taken /\ ListTypes /\ CountInv /\ RoundInv
      /\ activeList = <<>> /\ passiveWasMixedList = <<>> /\ passiveWasNotMixedList = <<>>
  BY <1>1 DEF MixerInv, Types, RoundInv
<1>3. /\ ListTypes' /\ CallerTypes' /\ ListedOnce' /\ CallsInv' /\ CountInv'
      /\ Participants' = Participants
  BY <1>1, <1>2, CallersKept DEF callerVars, lists, ListTypes
<1>4. <<>> \in Seq(Channels) /\ IsInjective(<<>>) /\ ToSet(<<>>) = {}
  BY EmptySet
<1>5. RoundTypes' /\ Injective' /\ Apart'
  BY <1>1, <1>2, <1>4 DEF RoundTypes, MixerPlaces, Injective, Apart, asked, sorted
<1>6. Sorted = {} /\ Sorted' = {} /\ Output' = {} /\ Held = {MixedAudio} /\ Held' = {}
  BY <1>1, <1>2, <1>4 DEF Sorted, Output, Held, sorted
<1>7. Taken'
  BY <1>1, <1>2, <1>6 DEF Taken, Output
<1>8. RoundInv' /\ Heard'
  BY <1>1, <1>2, <1>6 DEF RoundInv, CbCritHeld, Heard, asked, sorted, lists
<1> QED BY <1>3, <1>5, <1>7, <1>8 DEF MixerInv, Types

-----------------------------------------------------------------------------
(* The invariant holds, and what follows from it. *)

\* The invariant holds at first ...
LEMMA MixerBegins == Init => MixerInv
<1> SUFFICES ASSUME Init PROVE MixerInv
  OBVIOUS
<1>1. <<>> \in Seq(Channels) /\ IsInjective(<<>>) /\ ToSet(<<>>) = {} /\ Len(<<>>) = 0
  BY EmptySet
<1>2. IsFiniteSet({}) /\ Cardinality({}) = 0 /\ MaxMixed \in Nat /\ MaxMixed >= 2
  BY FS_EmptySet, MixerAssumption
<1>3. ListTypes /\ CallerTypes
  BY <1>1 DEF Init, ListTypes, CallerTypes, Callers, ApiPlaces, FilePlaces
<1>4. DOMAIN frame = {} /\ frame \in [DOMAIN frame -> Energies \cup {Passive}]
  BY DEF Init
<1>5. RoundTypes
  BY <1>1, <1>4 DEF Init, RoundTypes, MixerPlaces
<1>6. Named = {} /\ Anonymous = {} /\ Participants = {} /\ Sorted = {} /\ Output = {} /\ Held = {}
  BY <1>1 DEF Init, Named, Anonymous, Participants, Sorted, Output, Held
<1>7. ListedOnce /\ Injective /\ Apart /\ Taken
  BY <1>1, <1>6 DEF Init, ListedOnce, Injective, Apart, Taken
<1>8. CallsInv /\ CountInv
  BY <1>6 DEF Init, CallsInv, CountInv, Between, Callers
<1>9. RoundInv /\ Heard
  BY <1>1, <1>2, <1>4, <1>6 DEF Init, RoundInv, Heard, CbCritHeld
<1> QED BY <1>3, <1>5, <1>7, <1>8, <1>9 DEF MixerInv, Types

\* ... is kept by each step ...
LEMMA MixerSteps == MixerInv /\ [Next]_vars => MixerInv'
<1> SUFFICES ASSUME MixerInv, [Next]_vars PROVE MixerInv'
  OBVIOUS
<1>1. CASE \E c \in Channels : Playout(c)
  BY <1>1, StartPlayoutStep, StopPlayoutStep, RemoveParticipantStep, StoreCountStep,
     SetPlayingStep DEF Playout
<1>2. CASE \E c \in Channels : FilePlaying(c)
  BY <1>2, FileStep
<1>3. CASE \E c \in Channels : Registering(c)
  BY <1>3, RegisterStep, AnonymiseStep DEF Registering
<1>4. CASE \E c \in Channels : Asking(c)
  BY <1>4, AskInVainStep, AskActiveStep, AskPassiveStep, TakeAdditionalStep DEF Asking
<1>5. CASE MixerStart \/ FillMixList \/ UpdateMixedStatus \/ Mix \/ Deliver
  BY <1>5, MixerStartStep, FillMixListStep, UpdateMixedStatusStep, MixStep, DeliverStep
<1>6. CASE UNCHANGED vars
  <2>1. UNCHANGED callerVars /\ UNCHANGED round /\ UNCHANGED lists /\ UNCHANGED calm
    BY <1>6 DEF vars, callerVars, lists
  <2>2. isMixed' = isMixed /\ at' = at
    BY <2>1 DEF lists, callerVars, callers, places
  <2>3. /\ ListTypes' /\ CallerTypes' /\ ListedOnce' /\ CallsInv' /\ CountInv'
        /\ Participants' = Participants /\ calm' \in BOOLEAN
    BY <2>1, <2>2, CallersKept DEF MixerInv, Types, ListTypes, RoundTypes
  <2>4. calm' /\ mixer # "idle" => calm /\ at'["api"] = "idle"
    BY <2>1, <2>2 DEF MixerInv, Heard
  <2> QED BY <2>1, <2>2, <2>3, <2>4, CallerKeeps
<1> QED BY <1>1, <1>2, <1>3, <1>4, <1>5, <1>6 DEF Next

\* ... and so always holds.
LEMMA MixerInvariant == Spec => []MixerInv
  BY MixerBegins, MixerSteps, PTL DEF Spec

\* A channel that plays out is always in just one of the lists, and once
\* (SetMixabilityStatus(), SetAnonymousMixabilityStatus()).
THEOREM Listing == Spec => []PlayingIsListed
<1>1. MixerInv => PlayingIsListed
  <2> SUFFICES ASSUME MixerInv PROVE PlayingIsListed
    OBVIOUS
  <2>1. /\ participantList \in Seq(Channels) /\ additionalParticipantList \in Seq(Channels)
        /\ IsInjective(participantList) /\ IsInjective(additionalParticipantList)
        /\ ToSet(participantList) \cap ToSet(additionalParticipantList) = {}
    BY DEF MixerInv, Types, ListTypes, ListedOnce, Named, Anonymous
  <2>2. /\ IsInjective(participantList \o additionalParticipantList)
        /\ ToSet(participantList \o additionalParticipantList) = Participants
    BY <2>1, Joined DEF Participants, Named, Anonymous
  <2>3. \A c \in Channels : on["api"] # c => (c \in playing <=> c \in Participants)
    BY DEF MixerInv, CallsInv, Between
  <2> QED BY <2>2, <2>3 DEF PlayingIsListed
<1> QED BY <1>1, MixerInvariant, PTL

\* Each frame out of the memory pool is always in just one list of Process(), and
\* none is out when it is not running.
THEOREM FramesAreReturned == Spec => []FramesReturned
<1>1. MixerInv => FramesReturned
  <2> SUFFICES ASSUME MixerInv PROVE FramesReturned
    OBVIOUS
  <2>0. RoundInv /\ Apart /\ Injective /\ Taken
    BY DEF MixerInv
  <2>1. /\ DOMAIN Lists = 1 .. 6
        /\ Lists[1] = activeList /\ Lists[2] = passiveWasMixedList
        /\ Lists[3] = passiveWasNotMixedList /\ Lists[4] = mixList
        /\ Lists[5] = rampOutList /\ Lists[6] = additionalFramesList
    BY DEF Lists
  <2>2. \A i \in DOMAIN Lists : i = 1 \/ i = 2 \/ i = 3 \/ i = 4 \/ i = 5 \/ i = 6
    BY <2>1
  <2>3. Listed = Sorted \cup Output
    <3>1. \A x : x \in Listed <=> \E i \in DOMAIN Lists : x \in ToSet(Lists[i])
      BY DEF Listed
    <3>2. \A x : (\E i \in DOMAIN Lists : x \in ToSet(Lists[i])) <=>
                   \/ x \in ToSet(activeList) \/ x \in ToSet(passiveWasMixedList)
                   \/ x \in ToSet(passiveWasNotMixedList) \/ x \in ToSet(mixList)
                   \/ x \in ToSet(rampOutList) \/ x \in ToSet(additionalFramesList)
      BY <2>1, <2>2
    <3> QED BY <3>1, <3>2 DEF Sorted, Output
  <2>4. /\ ToSet(activeList) \cap ToSet(passiveWasMixedList) = {}
        /\ ToSet(activeList) \cap ToSet(passiveWasNotMixedList) = {}
        /\ ToSet(passiveWasMixedList) \cap ToSet(passiveWasNotMixedList) = {}
        /\ Sorted \cap Output = {}
    <3>1. CASE mixer = "toMix"
      <4>1. AskedSoFar /\ Ranked /\ Ramped
        BY <2>0, <3>1 DEF RoundInv
      <4>2. Output = ToSet(rampOutList)
        BY <4>1, EmptySet DEF Output, AskedSoFar
      <4> QED BY <4>1, <4>2 DEF Ranked, Ramped, Sorted, Active, WasMixed, WasNotMixed
    <3>2. CASE mixer # "toMix"
      <4>1. ToSet(activeList) = {} /\ ToSet(passiveWasMixedList) = {}
            /\ ToSet(passiveWasNotMixedList) = {}
        BY <2>0, <3>2, EmptySet DEF RoundInv
      <4> QED BY <4>1 DEF Sorted
    <3> QED BY <3>1, <3>2
  <2>5. \A i, j \in DOMAIN Lists : i # j => ToSet(Lists[i]) \cap ToSet(Lists[j]) = {}
    <3>1. /\ ToSet(mixList) \subseteq Output /\ ToSet(rampOutList) \subseteq Output
          /\ ToSet(additionalFramesList) \subseteq Output
          /\ ToSet(activeList) \subseteq Sorted /\ ToSet(passiveWasMixedList) \subseteq Sorted
          /\ ToSet(passiveWasNotMixedList) \subseteq Sorted
      BY DEF Sorted, Output
    <3>2. /\ ToSet(mixList) \cap ToSet(rampOutList) = {}
          /\ ToSet(mixList) \cap ToSet(additionalFramesList) = {}
          /\ ToSet(rampOutList) \cap ToSet(additionalFramesList) = {}
      BY <2>0 DEF Apart
    <3> QED BY <2>1, <2>2, <2>4, <3>1, <3>2
  <2>6. \A i \in DOMAIN Lists : IsInjective(Lists[i])
    BY <2>0, <2>1, <2>2 DEF Injective
  <2>7. mixer = "idle" => taken = {}
    <3>1. mixer = "idle" => Sorted = {} /\ Output = {} /\ Held = {}
      BY <2>0, EmptySet DEF RoundInv, Sorted, Held
    <3> QED BY <2>0, <3>1 DEF Taken
  <2> QED BY <2>0, <2>3, <2>5, <2>6, <2>7 DEF FramesReturned, Taken
<1> QED BY <1>1, MixerInvariant, PTL

\* All frames that Process() chose are in the mixed audio, if no call of the API
\* intervened, whatever the shortcut for a single participant does.
THEOREM AllIsHeard == Spec => []NothingUnheard
<1>1. MixerInv => NothingUnheard
  <2> SUFFICES ASSUME MixerInv, mixer = "deliver", calm PROVE mixed = Listed
    BY DEF NothingUnheard
  <2>1. mixed = Output /\ activeList = <<>> /\ passiveWasMixedList = <<>>
        /\ passiveWasNotMixedList = <<>>
    BY DEF MixerInv, Heard, RoundInv
  <2>2. /\ DOMAIN Lists = 1 .. 6
        /\ Lists[1] = activeList /\ Lists[2] = passiveWasMixedList
        /\ Lists[3] = passiveWasNotMixedList /\ Lists[4] = mixList
        /\ Lists[5] = rampOutList /\ Lists[6] = additionalFramesList
    BY DEF Lists
  <2>3. \A i \in DOMAIN Lists : i = 1 \/ i = 2 \/ i = 3 \/ i = 4 \/ i = 5 \/ i = 6
    BY <2>2
  <2>4. \A x : x \in Listed <=> \E i \in DOMAIN Lists : x \in ToSet(Lists[i])
    BY DEF Listed
  <2>5. \A x : (\E i \in DOMAIN Lists : x \in ToSet(Lists[i])) <=>
                 x \in ToSet(mixList) \/ x \in ToSet(rampOutList) \/ x \in ToSet(additionalFramesList)
    BY <2>1, <2>2, <2>3, EmptySet
  <2> QED BY <2>1, <2>4, <2>5 DEF Output
<1> QED BY <1>1, MixerInvariant, PTL

\* No thread that holds a _fileCritSect comes to wait for _cbCrit.
THEOREM LocksInOrder == Spec => []NoLockHeldForCbCrit
<1>1. MixerInv => NoLockHeldForCbCrit
  BY DEF MixerInv, CallsInv, NoLockHeldForCbCrit
<1> QED BY <1>1, MixerInvariant, PTL

-----------------------------------------------------------------------------
(* The choice that Process() makes. *)

\* The frames chosen when all have been asked are the right ones.
LEMMA FillChooses ==
  ASSUME MixerInv, FillMixList
  PROVE  MixesTheRightOnes' /\ RampsSmoothly'
<1> DEFINE M == ToSet(mixList')
           D == DOMAIN frame
<1>1. /\ mixer = "toMix" /\ activeList' = <<>>
      /\ frame' = frame /\ isMixed' = isMixed /\ rampedIn' = rampedIn
      /\ rampOutList' = rampOutList
  BY DEF FillMixList, lists
<1>2. /\ AskedSoFar /\ Ranked /\ Ramped /\ RoundTypes /\ Injective /\ ListTypes /\ ListedOnce
      /\ IsFiniteSet(isMixed) /\ Cardinality(isMixed) <= MaxMixed
  BY <1>1 DEF MixerInv, RoundInv, Types
<1>3. /\ mixList' \in Seq(Channels) /\ IsInjective(mixList') /\ Len(mixList') <= MaxMixed
      /\ ToSet(activeList) \subseteq M /\ M \subseteq Sorted
      /\ \/ Len(mixList') = MaxMixed
         \/ /\ M = Sorted
            /\ Len(mixList') = Len(activeList) + Len(passiveWasMixedList)
                                 + Len(passiveWasNotMixedList)
      /\ \A p \in WasMixed \ M, q \in M : q \notin WasNotMixed
  BY Filled
<1>4. D = Active \cup WasMixed \cup WasNotMixed /\ Sorted \subseteq D
  BY <1>2 DEF Active, WasMixed, WasNotMixed, Ranked, Sorted
<1>5. /\ IsFiniteSet(M) /\ Cardinality(M) = Len(mixList') /\ Len(mixList') \in Nat
      /\ IsFiniteSet(ToSet(activeList)) /\ Cardinality(ToSet(activeList)) = Len(activeList)
      /\ IsFiniteSet(D) /\ Cardinality(D) \in Nat /\ Cardinality(M) <= Cardinality(D)
      /\ MaxMixed \in Nat /\ MaxMixed >= 2
  <2>1. IsFiniteSet(M) /\ Cardinality(M) = Len(mixList') /\ Len(mixList') \in Nat
    BY <1>3, LenIsCardinality
  <2>2. IsFiniteSet(ToSet(activeList)) /\ Cardinality(ToSet(activeList)) = Len(activeList)
    BY <1>2, LenIsCardinality DEF RoundTypes, Injective
  <2>3. IsFiniteSet(Named)
    BY <1>2, LenIsCardinality DEF ListTypes, ListedOnce, Named
  <2>4. D \in SUBSET Named
    BY <1>2 DEF AskedSoFar
  <2>5. IsFiniteSet(D)
    BY <2>3, <2>4, FS_Subset
  <2>6. M \in SUBSET D
    BY <1>3, <1>4
  <2>7. Cardinality(M) <= Cardinality(D) /\ Cardinality(D) \in Nat
    BY <2>5, <2>6, FS_Subset, FS_CardinalityType
  <2> QED BY <2>1, <2>2, <2>5, <2>7, MixerAssumption
<1> HIDE DEF M, D
<1>6. Len(mixList') = IF Cardinality(D) < MaxMixed THEN Cardinality(D) ELSE MaxMixed
  <2>1. CASE Len(mixList') = MaxMixed
    BY <1>5, <2>1
  <2>2. CASE Len(mixList') # MaxMixed
    <3>1. /\ Len(activeList) \in Nat /\ Len(passiveWasMixedList) \in Nat
          /\ Len(passiveWasNotMixedList) \in Nat
      BY <1>2 DEF RoundTypes
    <3>2. /\ M = Sorted
          /\ Len(activeList) + Len(passiveWasMixedList) + Len(passiveWasNotMixedList)
               < MaxMixed
          /\ Len(activeList) < MaxMixed
      BY <1>3, <1>5, <2>2, <3>1
    <3>3. ~(Len(activeList) = MaxMixed)
          /\ ~(Len(activeList) + Len(passiveWasMixedList) + Len(passiveWasNotMixedList)
                 >= MaxMixed)
      BY <1>5, <3>1, <3>2
    <3>4. Active = ToSet(activeList) /\ WasMixed = ToSet(passiveWasMixedList)
          /\ WasNotMixed = ToSet(passiveWasNotMixedList)
      BY <1>2, <3>3 DEF Ranked
    <3>5. D = M
      BY <1>4, <3>2, <3>4 DEF Sorted
    <3> QED BY <1>3, <1>5, <2>2, <3>5
  <2> QED BY <2>1, <2>2
<1>7. \A p \in Active : p \in M <=> p \in ToSet(activeList)
  BY <1>2, <1>3 DEF Ranked, Sorted, Active, WasMixed, WasNotMixed
<1>8. ASSUME NEW p \in D \ M, NEW q \in M
      PROVE  /\ ~(frame[p] > frame[q])
             /\ ~(frame[p] = Passive /\ frame[q] = Passive /\ p \in isMixed /\ q \notin isMixed)
  <2>1. q \in D
    BY <1>3, <1>4
  <2>2. frame[p] \in Energies \cup {Passive} /\ frame[q] \in Energies \cup {Passive}
    BY <1>2, <2>1 DEF RoundTypes, D
  <2>3. \A v \in Energies \cup {Passive} : v \in Int /\ v >= Passive
    BY MixerAssumption DEF Passive
  <2>4. frame[p] \in Int /\ frame[q] \in Int /\ frame[q] >= Passive /\ Passive \in Int
    BY <2>2, <2>3 DEF Passive
  <2>5. CASE p \in Active
    <3>1. frame[p] # Passive /\ p \notin ToSet(activeList)
      BY <1>7, <2>5 DEF Active
    <3>2. Len(activeList) = MaxMixed
      BY <1>2, <2>5, <3>1 DEF Ranked
    <3>3. Cardinality(ToSet(activeList)) = Cardinality(M)
      <4>1. ToSet(activeList) \in SUBSET M
        BY <1>3 DEF M
      <4>2. Cardinality(ToSet(activeList)) <= Cardinality(M)
        BY <1>5, <4>1, FS_Subset
      <4> QED BY <1>3, <1>5, <3>2, <4>2
    <3>4. q \in ToSet(activeList)
      <4>1. ToSet(activeList) \in SUBSET M
        BY <1>3 DEF M
      <4> QED BY <1>5, <3>3, <4>1, FS_Subset
    <3>5. frame[p] <= frame[q]
      BY <1>2, <2>5, <3>1, <3>4 DEF Ranked
    <3>6. ~(frame[p] > frame[q])
      BY <2>4, <3>5
    <3> QED BY <3>1, <3>6
  <2>6. CASE p \notin Active
    <3>1. frame[p] = Passive
      BY <2>6 DEF Active, D
    <3>2. ~(frame[p] > frame[q])
      BY <2>4, <3>1
    <3>3. ~(frame[q] = Passive /\ p \in isMixed /\ q \notin isMixed)
      BY <1>3, <2>1, <3>1 DEF WasMixed, WasNotMixed, D, M
    <3> QED BY <3>2, <3>3
  <2> QED BY <2>5, <2>6
<1>9. MixesTheRightOnes'
  <2>1. Len(activeList') <= MaxMixed
    BY <1>1, <1>5
  <2>2. \A p \in DOMAIN frame' \ ToSet(mixList'), q \in ToSet(mixList') : ~RanksAbove(p, q)'
    BY <1>1, <1>8 DEF RanksAbove, D, M
  <2> QED BY <1>1, <1>6, <2>1, <2>2 DEF MixesTheRightOnes, D
<1>10. ToSet(rampOutList) = {p \in D : frame[p] # Passive /\ p \in isMixed \ M}
  BY <1>2, <1>7 DEF Ramped, Active, D
<1>11. IsInjective(rampOutList) /\ Len(rampOutList) <= MaxMixed
  <2>1. /\ IsInjective(rampOutList) /\ IsFiniteSet(ToSet(rampOutList))
        /\ Cardinality(ToSet(rampOutList)) = Len(rampOutList) /\ Len(rampOutList) \in Nat
    BY <1>2, LenIsCardinality DEF RoundTypes, Injective
  <2>2. ToSet(rampOutList) \in SUBSET isMixed
    BY <1>10
  <2>3. Cardinality(ToSet(rampOutList)) <= Cardinality(isMixed) /\ Cardinality(isMixed) \in Nat
    BY <1>2, <2>2, FS_Subset, FS_CardinalityType
  <2> QED BY <1>2, <1>5, <2>1, <2>3
<1>12. \A p \in M : p \in rampedIn <=> p \notin isMixed
  BY <1>2, <1>3 DEF Ramped
<1>13. /\ \A p \in (D \cap isMixed) \ M : frame[p] # Passive => p \in ToSet(rampOutList)
       /\ ToSet(rampOutList) \subseteq isMixed \ M
  BY <1>10
<1> QED BY <1>1, <1>9, <1>11, <1>12, <1>13 DEF RampsSmoothly, D, M

\* Once they are chosen, nothing changes them, or what they were chosen by.
LEMMA ChoiceKept ==
  ASSUME MixerInv, [Next]_vars, ~FillMixList, mixer' = "additional"
  PROVE  mixer = "additional" /\ UNCHANGED <<frame, mixList, isMixed, activeList, rampOutList, rampedIn>>
<1>1. CASE UNCHANGED vars
  BY <1>1 DEF vars, round, lists, asked, sorted, output
<1>2. ASSUME NEW c \in Channels, Playout(c) \/ FilePlaying(c) \/ Registering(c)
      PROVE  UNCHANGED round /\ (CbCritHeld => UNCHANGED lists)
  <2>1. CASE Playout(c)
    BY <2>1 DEF Playout, StartPlayout, StopPlayout, RemoveParticipant, StoreCount, SetPlaying
  <2>2. CASE FilePlaying(c)
    BY <2>2 DEF FilePlaying, StartFile, StopFile, FilePlayerDone, Deanonymise, DropFile
  <2>3. CASE Registering(c)
    BY <2>3 DEF Registering, Register, Anonymise
  <2> QED BY <1>2, <2>1, <2>2, <2>3
<1>3. CASE \E c \in Channels : Playout(c) \/ FilePlaying(c) \/ Registering(c)
  <2>1. UNCHANGED round /\ (CbCritHeld => UNCHANGED lists)
    BY <1>2, <1>3
  <2> QED BY <2>1 DEF round, lists, asked, sorted, output, CbCritHeld
<1>4. ASSUME NEW p \in Channels, Asking(p) PROVE TakeAdditional(p)
  <2>1. ASSUME mixer = "toMix", ToMixUnchanged PROVE FALSE
    BY <2>1 DEF ToMixUnchanged
  <2> QED BY <1>4, <2>1 DEF Asking, AskInVain, AskActive, AskPassive, Asks
<1>5. CASE \E p \in Channels : Asking(p)
  BY <1>4, <1>5 DEF TakeAdditional, Asks, lists, sorted
<1>6. ~MixerStart /\ ~UpdateMixedStatus /\ ~Mix /\ ~Deliver
  BY DEF MixerStart, UpdateMixedStatus, Mix, Deliver
<1> QED BY <1>1, <1>3, <1>5, <1>6 DEF Next

\* The choice made in FillMixList stands to the end of the round.
LEMMA ChoiceHolds == Spec => [](MixesTheRightOnes /\ RampsSmoothly)
<1> DEFINE Choice == MixesTheRightOnes /\ RampsSmoothly
<1>1. Init => Choice
  BY DEF Init, MixesTheRightOnes, RampsSmoothly
<1>2. MixerInv /\ Choice /\ [Next]_vars => Choice'
  <2> SUFFICES ASSUME MixerInv, Choice, [Next]_vars PROVE Choice'
    OBVIOUS
  <2>1. CASE FillMixList
    BY <2>1, FillChooses
  <2>2. CASE ~FillMixList /\ mixer' = "additional"
    BY <2>2, ChoiceKept DEF MixesTheRightOnes, RampsSmoothly, RanksAbove
  <2>3. CASE mixer' # "additional"
    BY <2>3 DEF MixesTheRightOnes, RampsSmoothly
  <2> QED BY <2>1, <2>2, <2>3
<1> QED BY <1>1, <1>2, MixerInvariant, PTL DEF Spec

\* UpdateToMix() always mixes as many of the frames given as it may, and of
\* these the loudest, those mixed before first among the passive.
THEOREM LoudestAreMixed == Spec => []MixesTheRightOnes
BY ChoiceHolds, PTL

\* UpdateToMix() ramps out the active frames that were mixed and no longer are, none
\* that were not or still are, never more than it asserts, and of those it mixes ramps
\* in just those that were not mixed.
THEOREM RampsAreRight == Spec => []RampsSmoothly
BY ChoiceHolds, PTL

=============================================================================
