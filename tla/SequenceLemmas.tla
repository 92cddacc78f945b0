--------------------------- MODULE SequenceLemmas ---------------------------
(***************************************************************************)
(* The elements of a sequence after each of the operations the engines and *)
(* the allocator perform on their lists, and how often each one occurs.    *)
(***************************************************************************)
EXTENDS Integers, SequencesExt, SequenceTheorems, FiniteSetTheorems,
        WellFoundedInduction, TLAPS

(* A set of naturals has a least element. *)
LEMMA LeastNatural ==
    ASSUME NEW S \in SUBSET Nat, S # {}
    PROVE  \E n \in S : \A m \in S : n <= m
<1> DEFINE Less == OpToRel(<, Nat)
<1>1. IsWellFoundedOn(Less, Nat)
  BY NatLessThanWellFounded
<1>2. \A m, n \in Nat : m < n => <<m, n>> \in Less
  BY DEF OpToRel
<1> HIDE DEF Less
<1>3. PICK n \in S : \A m \in S : ~ (<<m, n>> \in Less)
  BY <1>1, WFMin
<1>4. \A m \in S : m \in Nat /\ n \in Nat /\ ~ (m < n)
  BY <1>2, <1>3
<1>5. \A m \in S : n <= m
  BY <1>4
<1> QED BY <1>5

(* The sequences of bounded length. *)
LEMMA ShortSequences ==
    ASSUME NEW S, NEW n \in Nat, NEW p
    PROVE  p \in SeqOf(S, n) <=> p \in Seq(S) /\ Len(p) <= n
<1>1. ASSUME p \in SeqOf(S, n) PROVE p \in Seq(S) /\ Len(p) <= n
  <2>1. PICK m \in 0..n : p \in [1..m -> S]
    BY <1>1 DEF SeqOf
  <2>2. m \in Nat /\ p \in Seq(S)
    BY <2>1, SeqDef
  <2>3. DOMAIN p = 1..m /\ DOMAIN p = 1..Len(p) /\ Len(p) \in Nat
    BY <2>1, <2>2, LenProperties
  <2>4. Len(p) = m
    BY <2>2, <2>3
  <2> QED BY <2>2, <2>4, <2>1
<1>2. ASSUME p \in Seq(S), Len(p) <= n PROVE p \in SeqOf(S, n)
  <2>1. Len(p) \in 0..n /\ p \in [1..Len(p) -> S]
    BY <1>2, LenProperties
  <2> QED BY <2>1 DEF SeqOf
<1> QED BY <1>1, <1>2

(* The longest common prefix of two sequences is no longer than either. *)
LEMMA CommonPrefixLength ==
    ASSUME NEW S, NEW s \in Seq(S), NEW t \in Seq(S)
    PROVE  /\ Len(LongestCommonPrefix({s, t})) \in Nat
           /\ Len(LongestCommonPrefix({s, t})) <= Len(s)
           /\ Len(LongestCommonPrefix({s, t})) <= Len(t)
<1> DEFINE C == CommonPrefixes({s, t})
           D == {Len(s) - Len(c) : c \in C}
<1>1. Len(s) \in Nat /\ Len(t) \in Nat /\ \A i \in 1..Len(s) : s[i] \in S
  BY LenProperties, ElementOfSeq
<1>2. << >> \in C
  <2>1. << >> = SubSeq(s, 1, 0) /\ << >> = SubSeq(t, 1, 0) /\ Len(<< >>) = 0
    BY SubSeqEmpty, EmptySeq
  <2>2. SubSeq(<< >>, 1, 0) = << >>
    BY SubSeqEmpty
  <2>3. << >> \in Prefixes(s)
    BY <1>1, <2>1 DEF Prefixes
  <2>4. IsPrefix(<< >>, s) /\ IsPrefix(<< >>, t)
    BY <1>1, <2>1, <2>2 DEF IsPrefix
  <2> QED BY <2>3, <2>4 DEF CommonPrefixes
<1>3. ASSUME NEW c \in C
      PROVE  Len(c) \in Nat /\ Len(c) <= Len(s) /\ Len(c) <= Len(t)
  <2>1. IsPrefix(c, s) /\ IsPrefix(c, t) /\ c \in Prefixes(s) \cup Prefixes(t)
    BY DEF CommonPrefixes
  <2>2. PICK u \in {s, t} : c \in Prefixes(u)
    BY <2>1
  <2>3. u \in Seq(S) /\ Len(u) \in Nat
    BY LenProperties
  <2>4. PICK l \in 0..Len(u) : c = SubSeq(u, 1, l)
    BY <2>2 DEF Prefixes
  <2>5. \A i \in 1..l : u[i] \in S
    BY <2>3, ElementOfSeq
  <2>6. l \in Int /\ c \in Seq(S)
    BY <2>3, <2>4, <2>5, SubSeqProperties
  <2>7. Len(c) \in Nat
    BY <2>6, LenProperties
  <2> QED BY <2>1, <2>7 DEF IsPrefix
<1> HIDE DEF C
<1>4. D \in SUBSET Nat /\ D # {}
  BY <1>1, <1>2, <1>3
<1>5. PICK n \in D : \A m \in D : n <= m
  BY <1>4, LeastNatural
<1>6. PICK longest \in C : n = Len(s) - Len(longest)
  BY <1>5
<1>7. \A other \in C : Len(other) <= Len(longest)
  <2> TAKE other \in C
  <2>1. n <= Len(s) - Len(other)
    BY <1>5
  <2> QED BY <2>1, <1>6, <1>3, <1>1
<1>8. LongestCommonPrefix({s, t}) \in C
  BY <1>7 DEF LongestCommonPrefix, C
<1> QED BY <1>3, <1>8

(* The sequences in which each element of a finite set occurs once. *)
LEMMA EachElementOnce ==
    ASSUME NEW S, IsFiniteSet(S), NEW s \in SetToSeqs(S)
    PROVE  s \in Seq(S) /\ IsInjective(s) /\ ToSet(s) = S
<1> DEFINE D == 1..Cardinality(S)
<1>1. s \in [D -> S] /\ \A i, j \in D : i # j => s[i] # s[j]
  BY DEF SetToSeqs
<1>2. Cardinality(S) \in Nat
  BY FS_CardinalityType
<1>3. IsInjective(s) /\ s \in Injection(D, S)
  BY <1>1 DEF IsInjective, Injection
<1>4. s \in Seq(S) /\ DOMAIN s = D
  BY <1>1, <1>2, SeqDef
<1>5. ToSet(s) = S
  <2>1. Cardinality(D) = Cardinality(S)
    BY <1>2, FS_Interval
  <2> HIDE DEF D
  <2>2. s \in Surjection(D, S)
    BY <1>3, <2>1, FS_Injection
  <2> QED BY <2>2, <1>1, <1>4 DEF Surjection, ToSet
<1> QED BY <1>3, <1>4, <1>5

(***************************************************************************)
(* Removing the only occurrence of an element from a sequence.             *)
(***************************************************************************)
LEMMA RemoveFirstProperties ==
    ASSUME NEW S, NEW s \in Seq(S), IsInjective(s), NEW e \in ToSet(s)
    PROVE  /\ RemoveFirst(s, e) \in Seq(S)
           /\ Len(RemoveFirst(s, e)) = Len(s) - 1
           /\ IsInjective(RemoveFirst(s, e))
           /\ ToSet(RemoveFirst(s, e)) = ToSet(s) \ {e}
<1> DEFINE I == {i \in 1..Len(s) : s[i] = e}
<1>1. Len(s) \in Nat /\ DOMAIN s = 1..Len(s) /\ \A i \in 1..Len(s) : s[i] \in S
  BY LenProperties
<1>2. PICK k \in 1..Len(s) : s[k] = e
  BY <1>1 DEF ToSet
<1>3. I = {k}
  BY <1>1, <1>2 DEF IsInjective
<1>4. Min(I) = k
  BY <1>3 DEF Min
<1> DEFINE t == RemoveAt(s, k)
<1>5. RemoveFirst(s, e) = t
  BY <1>2, <1>3, <1>4 DEF RemoveFirst, SelectInSeq
<1> DEFINE n == Len(s)
<1> HIDE DEF I, n
<1>n. n = Len(s) /\ n \in Nat /\ k \in 1..n /\ DOMAIN s = 1..n
  BY <1>1 DEF n
<1> DEFINE A == SubSeq(s, 1, k - 1)
           B == SubSeq(s, k + 1, n)
<1>6. /\ A \in Seq(S) /\ Len(A) = k - 1
      /\ \A i \in 1..(k - 1) : A[i] = s[i]
  <2>1. \A i \in 1..(k - 1) : s[i] \in S
    BY <1>1
  <2> QED BY <2>1, <1>1, SubSeqProperties
<1>7. /\ B \in Seq(S) /\ Len(B) = n - k
      /\ \A i \in 1..(n - k) : B[i] = s[k + i]
  <2>1. \A i \in (k + 1)..n : s[i] \in S
    BY <1>1, <1>n
  <2>2. k + 1 \in Int /\ n \in Int
    BY <1>n
  <2>3. /\ B \in Seq(S)
        /\ Len(B) = IF k + 1 <= n THEN n - (k + 1) + 1 ELSE 0
        /\ \A i \in 1..(n - (k + 1) + 1) : B[i] = s[(k + 1) + i - 1]
    BY <2>1, <2>2, SubSeqProperties
  <2> HIDE DEF B
  <2>4. ASSUME NEW i \in 1..(n - k) PROVE B[i] = s[k + i]
    <3>1. i \in 1..(n - (k + 1) + 1) /\ (k + 1) + i - 1 = k + i
      BY <1>n
    <3> QED BY <2>3, <3>1
  <2>5. Len(B) = n - k
    BY <2>3, <1>n
  <2> QED BY <2>3, <2>4, <2>5
<1>t. t = A \o B
  BY <1>n DEF RemoveAt
<1> HIDE DEF A, B, t
<1>8. /\ t \in Seq(S) /\ Len(t) = n - 1
      /\ \A i \in 1..(n - 1) : t[i] = IF i < k THEN s[i] ELSE s[i + 1]
  <2>1. /\ t \in Seq(S)
        /\ Len(t) = (k - 1) + (n - k)
        /\ \A i \in 1..((k - 1) + (n - k)) :
              t[i] = IF i <= k - 1 THEN A[i] ELSE B[i - (k - 1)]
    <3>1. /\ A \o B \in Seq(S)
          /\ Len(A \o B) = Len(A) + Len(B)
          /\ \A i \in 1..(Len(A) + Len(B)) :
                (A \o B)[i] = IF i <= Len(A) THEN A[i] ELSE B[i - Len(A)]
      BY <1>6, <1>7, ConcatProperties, Zenon
    <3> QED BY <3>1, <1>t, <1>6, <1>7, Zenon
  <2>2. (k - 1) + (n - k) = n - 1
    BY <1>n
  <2>3. ASSUME NEW i \in 1..(n - 1), i < k PROVE t[i] = s[i]
    <3>1. i \in 1..(k - 1) /\ i <= k - 1
      BY <2>3, <1>n
    <3> QED BY <3>1, <2>1, <2>2, <1>6
  <2>4. ASSUME NEW i \in 1..(n - 1), ~ (i < k) PROVE t[i] = s[i + 1]
    <3>1. i - (k - 1) \in 1..(n - k) /\ ~ (i <= k - 1) /\ k + (i - (k - 1)) = i + 1
      BY <2>4, <1>n
    <3>2. t[i] = B[i - (k - 1)]
      BY <3>1, <2>1, <2>2
    <3>3. B[i - (k - 1)] = s[k + (i - (k - 1))]
      BY <3>1, <1>7
    <3> QED BY <3>1, <3>2, <3>3
  <2> QED BY <2>1, <2>2, <2>3, <2>4
<1>9. DOMAIN t = 1..(n - 1)
  BY <1>8, LenProperties
<1>10. IsInjective(t)
  <2> SUFFICES ASSUME NEW a \in 1..(n - 1), NEW b \in 1..(n - 1), t[a] = t[b]
               PROVE  a = b
    BY <1>9 DEF IsInjective
  <2> DEFINE at(i) == IF i < k THEN i ELSE i + 1
  <2>1. t[a] = s[at(a)] /\ t[b] = s[at(b)]
    BY <1>8
  <2>2. at(a) \in 1..n /\ at(b) \in 1..n
    BY <1>n
  <2> HIDE DEF at
  <2>3. at(a) = at(b)
    BY <2>1, <2>2, <1>n DEF IsInjective
  <2> QED BY <2>3, <1>n DEF at
<1>11. ToSet(t) = ToSet(s) \ {e}
  <2>1. ASSUME NEW x \in ToSet(t) PROVE x \in ToSet(s) \ {e}
    <3>1. PICK i \in 1..(n - 1) : x = t[i]
      BY <1>9 DEF ToSet
    <3>2. CASE i < k
      <4>1. x = s[i] /\ i \in 1..n /\ i # k
        BY <3>1, <3>2, <1>1, <1>n, <1>8
      <4> QED BY <4>1, <1>1, <1>n, <1>2 DEF ToSet, IsInjective
    <3>3. CASE i >= k
      <4>1. x = s[i + 1] /\ i + 1 \in 1..n /\ i + 1 # k
        BY <3>1, <3>3, <1>1, <1>n, <1>8
      <4> QED BY <4>1, <1>1, <1>n, <1>2 DEF ToSet, IsInjective
    <3> QED BY <3>2, <3>3, <1>n
  <2>2. ASSUME NEW x \in ToSet(s) \ {e} PROVE x \in ToSet(t)
    <3>1. PICK i \in 1..n : x = s[i]
      BY <1>n DEF ToSet
    <3>2. i # k
      BY <3>1, <1>2
    <3>3. CASE i < k
      <4>1. i \in 1..(n - 1) /\ t[i] = x
        BY <3>1, <3>3, <1>1, <1>n, <1>8
      <4> QED BY <4>1, <1>9 DEF ToSet
    <3>4. CASE i > k
      <4>1. i - 1 \in 1..(n - 1) /\ ~ (i - 1 < k) /\ (i - 1) + 1 = i
        BY <3>4, <1>n
      <4>2. t[i - 1] = x
        BY <4>1, <3>1, <1>8
      <4> QED BY <4>1, <4>2, <1>9 DEF ToSet
    <3> QED BY <3>2, <3>3, <3>4, <1>n
  <2> QED BY <2>1, <2>2
<1> QED BY <1>5, <1>8, <1>10, <1>11, <1>n

(* What is first stays first. *)
LEMMA RemoveFirstHead ==
    ASSUME NEW S, NEW s \in Seq(S), IsInjective(s), NEW e \in ToSet(s), Head(s) # e
    PROVE  RemoveFirst(s, e) # << >> /\ Head(RemoveFirst(s, e)) = Head(s)
<1>1. /\ Len(s) \in Nat /\ DOMAIN s = 1..Len(s)
      /\ \A i \in 1..Len(s) : s[i] \in S
  BY LenProperties, ElementOfSeq
<1>2. PICK k \in 1..Len(s) : s[k] = e
  BY <1>1 DEF ToSet
<1>3. PICK n : n = Len(s)
  OBVIOUS
<1>4. n \in Nat /\ k \in 2..n /\ Head(s) = s[1]
  <2>1. s # << >>
    BY <1>2, EmptySeq
  <2>2. Head(s) = s[1]
    BY <2>1, HeadTailProperties
  <2> QED BY <2>2, <1>1, <1>2, <1>3
<1> DEFINE I == {i \in 1..Len(s) : s[i] = e}
<1>5. I = {k}
  BY <1>1, <1>2 DEF IsInjective
<1>6. Min(I) = k
  BY <1>5 DEF Min
<1>7. RemoveFirst(s, e) = RemoveAt(s, k)
  BY <1>2, <1>5, <1>6 DEF RemoveFirst, SelectInSeq
<1>8. PICK a : a = SubSeq(s, 1, k - 1)
  OBVIOUS
<1>9. PICK b : b = SubSeq(s, k + 1, n)
  OBVIOUS
<1>10. a \in Seq(S) /\ Len(a) = k - 1 /\ a[1] = s[1]
  <2>1. \A i \in 1..(k - 1) : s[i] \in S
    BY <1>1, <1>3, <1>4
  <2>2. /\ SubSeq(s, 1, k - 1) \in Seq(S) /\ Len(SubSeq(s, 1, k - 1)) = k - 1
        /\ \A i \in 1..(k - 1) : SubSeq(s, 1, k - 1)[i] = s[i]
    BY <2>1, <1>1, <1>4, SubSeqProperties, SMT
  <2>3. 1 \in 1..(k - 1)
    BY <1>4
  <2> QED BY <2>2, <2>3, <1>8
<1>11. b \in Seq(S)
  <2>1. \A i \in (k + 1)..n : s[i] \in S
    BY <1>1, <1>3, <1>4
  <2>2. k + 1 \in Int /\ n \in Int
    BY <1>4
  <2>3. SubSeq(s, k + 1, n) \in Seq(S)
    BY <2>1, <2>2, <1>1, SubSeqProperties, SMT
  <2> QED BY <2>3, <1>9
<1>12. RemoveFirst(s, e) = a \o b
  BY <1>3, <1>7, <1>8, <1>9 DEF RemoveAt
<1>13. Len(b) \in Nat /\ Len(a) \in Nat /\ Len(a) >= 1
  BY <1>4, <1>10, <1>11, LenProperties
<1>14. /\ a \o b \in Seq(S) /\ Len(a \o b) = Len(a) + Len(b)
       /\ (a \o b)[1] = a[1]
  <2>1. /\ a \o b \in Seq(S) /\ Len(a \o b) = Len(a) + Len(b)
        /\ \A i \in 1..(Len(a) + Len(b)) :
              (a \o b)[i] = IF i <= Len(a) THEN a[i] ELSE b[i - Len(a)]
    BY <1>10, <1>11, ConcatProperties, Zenon
  <2>2. 1 \in 1..(Len(a) + Len(b)) /\ 1 <= Len(a)
    BY <1>13
  <2> QED BY <2>1, <2>2
<1>15. a \o b # << >>
  <2>1. Len(a \o b) # 0
    BY <1>13, <1>14
  <2> QED BY <2>1, EmptySeq
<1> QED BY <1>4, <1>10, <1>12, <1>14, <1>15, HeadTailProperties

(***************************************************************************)
(* The elements of a sequence that grows at its end, loses its head, or is *)
(* joined with another one.                                                *)
(***************************************************************************)
LEMMA AppendElements ==
    ASSUME NEW S, NEW s \in Seq(S), NEW e \in S
    PROVE  /\ ToSet(Append(s, e)) = ToSet(s) \cup {e}
           /\ IsInjective(s) /\ e \notin ToSet(s) => IsInjective(Append(s, e))
<1> DEFINE t == Append(s, e)
           n == Len(s)
<1>1. n \in Nat /\ DOMAIN s = 1..n
  BY LenProperties
<1>2. /\ t \in Seq(S) /\ Len(t) = n + 1
      /\ \A i \in 1..n : t[i] = s[i]
      /\ t[n + 1] = e
  BY AppendProperties
<1>3. DOMAIN t = 1..(n + 1)
  BY <1>2, LenProperties
<1> HIDE DEF t, n
<1>4. ToSet(t) = ToSet(s) \cup {e}
  <2>1. ASSUME NEW x \in ToSet(t) PROVE x \in ToSet(s) \cup {e}
    <3>1. PICK i \in 1..(n + 1) : x = t[i]
      BY <1>3 DEF ToSet
    <3> QED BY <3>1, <1>1, <1>2 DEF ToSet
  <2>2. ASSUME NEW x \in ToSet(s) PROVE x \in ToSet(t)
    <3>1. PICK i \in 1..n : x = s[i]
      BY <1>1 DEF ToSet
    <3>2. i \in 1..(n + 1) /\ t[i] = x
      BY <3>1, <1>1, <1>2
    <3> QED BY <3>2, <1>3 DEF ToSet
  <2>3. e \in ToSet(t)
    BY <1>1, <1>2, <1>3 DEF ToSet
  <2> QED BY <2>1, <2>2, <2>3
<1>5. ASSUME IsInjective(s), e \notin ToSet(s) PROVE IsInjective(t)
  <2>1. \A i \in 1..n : s[i] # e
    BY <1>5, <1>1 DEF ToSet
  <2> QED BY <2>1, <1>5, <1>1, <1>2, <1>3 DEF IsInjective
<1> QED BY <1>4, <1>5 DEF t

(* The head of a sequence that holds nothing twice is not in its tail. *)
LEMMA TailElements ==
    ASSUME NEW S, NEW s \in Seq(S), s # << >>, IsInjective(s)
    PROVE  /\ Head(s) \in ToSet(s)
           /\ ToSet(Tail(s)) = ToSet(s) \ {Head(s)}
           /\ IsInjective(Tail(s))
<1> DEFINE t == Tail(s)
           n == Len(s)
<1>1. n \in Nat /\ n > 0 /\ DOMAIN s = 1..n
  BY LenProperties, EmptySeq
<1>2. /\ t \in Seq(S) /\ Len(t) = n - 1 /\ Head(s) = s[1]
      /\ \A i \in 1..(n - 1) : t[i] = s[i + 1]
  BY HeadTailProperties
<1>3. DOMAIN t = 1..(n - 1)
  BY <1>2, LenProperties
<1> HIDE DEF t, n
<1>4. Head(s) \in ToSet(s)
  BY <1>1, <1>2 DEF ToSet
<1>5. ASSUME NEW x \in ToSet(t) PROVE x \in ToSet(s) \ {Head(s)}
  <2>1. PICK i \in 1..(n - 1) : x = t[i]
    BY <1>3 DEF ToSet
  <2>2. x = s[i + 1] /\ i + 1 \in 1..n /\ i + 1 # 1 /\ 1 \in 1..n
    BY <2>1, <1>1, <1>2
  <2> QED BY <2>2, <1>1, <1>2 DEF ToSet, IsInjective
<1>6. ASSUME NEW x \in ToSet(s) \ {Head(s)} PROVE x \in ToSet(t)
  <2>1. PICK i \in 1..n : x = s[i]
    BY <1>1 DEF ToSet
  <2>2. i - 1 \in 1..(n - 1) /\ (i - 1) + 1 = i
    BY <2>1, <1>1, <1>2
  <2>3. t[i - 1] = x
    BY <2>1, <2>2, <1>2
  <2> QED BY <2>2, <2>3, <1>3 DEF ToSet
<1>7. IsInjective(t)
  <2> SUFFICES ASSUME NEW a \in 1..(n - 1), NEW b \in 1..(n - 1), t[a] = t[b]
               PROVE  a = b
    BY <1>3 DEF IsInjective
  <2>1. a + 1 \in 1..n /\ b + 1 \in 1..n /\ s[a + 1] = s[b + 1]
    BY <1>1, <1>2
  <2>2. a + 1 = b + 1
    BY <2>1, <1>1 DEF IsInjective
  <2> QED BY <2>2
<1> QED BY <1>4, <1>5, <1>6, <1>7 DEF t

(* Two sequences are joined. *)
LEMMA ConcatElements ==
    ASSUME NEW S, NEW s \in Seq(S), NEW t \in Seq(S)
    PROVE  /\ ToSet(s \o t) = ToSet(s) \cup ToSet(t)
           /\ /\ IsInjective(s) /\ IsInjective(t)
              /\ \A x \in ToSet(s) : x \notin ToSet(t)
              => IsInjective(s \o t)
<1> DEFINE u == s \o t
           n == Len(s)
           m == Len(t)
<1>1. /\ n \in Nat /\ DOMAIN s = 1..n
      /\ m \in Nat /\ DOMAIN t = 1..m
  BY LenProperties
<1>2. /\ u \in Seq(S) /\ Len(u) = n + m
      /\ \A i \in 1..(n + m) : u[i] = IF i <= n THEN s[i] ELSE t[i - n]
  BY ConcatProperties
<1>3. DOMAIN u = 1..(n + m)
  BY <1>2, LenProperties
<1> HIDE DEF u, n, m
<1>4. \A i \in 1..n : i \in 1..(n + m) /\ u[i] = s[i]
  BY <1>1, <1>2
<1>5. \A i \in 1..m : n + i \in 1..(n + m) /\ u[n + i] = t[i]
  <2> SUFFICES ASSUME NEW i \in 1..m
               PROVE  n + i \in 1..(n + m) /\ u[n + i] = t[i]
    OBVIOUS
  <2>1. n + i \in 1..(n + m) /\ ~ (n + i <= n) /\ (n + i) - n = i
    BY <1>1
  <2> QED BY <2>1, <1>2
<1>6. \A i \in 1..(n + m) : \/ i \in 1..n
                            \/ i - n \in 1..m /\ n + (i - n) = i
  BY <1>1
<1>7. ToSet(u) = ToSet(s) \cup ToSet(t)
  <2>1. ASSUME NEW x \in ToSet(u) PROVE x \in ToSet(s) \cup ToSet(t)
    <3>1. PICK i \in 1..(n + m) : x = u[i]
      BY <1>3 DEF ToSet
    <3>2. CASE i \in 1..n
      BY <3>1, <3>2, <1>1, <1>4 DEF ToSet
    <3>3. CASE i - n \in 1..m /\ n + (i - n) = i
      <4>1. x = t[i - n]
        BY <3>1, <3>3, <1>5
      <4> QED BY <4>1, <3>3, <1>1 DEF ToSet
    <3> QED BY <3>2, <3>3, <1>6
  <2>2. ASSUME NEW x \in ToSet(s) PROVE x \in ToSet(u)
    BY <1>1, <1>3, <1>4 DEF ToSet
  <2>3. ASSUME NEW x \in ToSet(t) PROVE x \in ToSet(u)
    BY <1>1, <1>3, <1>5 DEF ToSet
  <2> QED BY <2>1, <2>2, <2>3
<1>8. ASSUME IsInjective(s), IsInjective(t), \A x \in ToSet(s) : x \notin ToSet(t)
      PROVE  IsInjective(u)
  <2>1. \A i \in 1..n, j \in 1..m : s[i] # t[j]
    BY <1>8, <1>1 DEF ToSet
  <2> SUFFICES ASSUME NEW a \in 1..(n + m), NEW b \in 1..(n + m), u[a] = u[b]
               PROVE  a = b
    BY <1>3 DEF IsInjective
  <2>2. CASE a \in 1..n /\ b \in 1..n
    BY <2>2, <1>1, <1>4, <1>8 DEF IsInjective
  <2>3. CASE a \in 1..n /\ b - n \in 1..m /\ n + (b - n) = b
    BY <2>1, <2>3, <1>4, <1>5
  <2>4. CASE b \in 1..n /\ a - n \in 1..m /\ n + (a - n) = a
    BY <2>1, <2>4, <1>4, <1>5
  <2>5. CASE /\ a - n \in 1..m /\ n + (a - n) = a
             /\ b - n \in 1..m /\ n + (b - n) = b
    <3>1. t[a - n] = t[b - n]
      BY <2>5, <1>5
    <3>2. a - n = b - n
      BY <3>1, <2>5, <1>1, <1>8 DEF IsInjective
    <3> QED BY <3>2, <2>5
  <2> QED BY <2>2, <2>3, <2>4, <2>5, <1>6
<1> QED BY <1>7, <1>8 DEF u
-----------------------------------------------------------------------------
(***************************************************************************)
(* How often an element occurs in a sequence: reference counts are counts  *)
(* of this kind.                                                           *)
(***************************************************************************)
Occurrences(s, x) == {i \in DOMAIN s : s[i] = x}
Count(s, x) == Cardinality(Occurrences(s, x))

LEMMA CountType ==
    ASSUME NEW S, NEW s \in Seq(S), NEW x
    PROVE  /\ IsFiniteSet(Occurrences(s, x))
           /\ Count(s, x) \in Nat
           /\ Count(s, x) = 0 <=> \A i \in 1..Len(s) : s[i] # x
<1>1. DOMAIN s = 1..Len(s) /\ Len(s) \in Nat
  BY LenProperties
<1>2. IsFiniteSet(1..Len(s))
  BY <1>1, FS_Interval
<1>3. Occurrences(s, x) \in SUBSET (1..Len(s))
  BY <1>1 DEF Occurrences
<1>4. IsFiniteSet(Occurrences(s, x))
  BY <1>2, <1>3, FS_Subset
<1>5. Count(s, x) \in Nat
  BY <1>4, FS_CardinalityType DEF Count
<1>6. Count(s, x) = 0 <=> Occurrences(s, x) = {}
  BY <1>4, FS_EmptySet DEF Count
<1> QED BY <1>1, <1>4, <1>5, <1>6 DEF Occurrences

(* Nothing occurs in the empty sequence. *)
LEMMA CountEmpty ==
    ASSUME NEW x
    PROVE  Count(<< >>, x) = 0
<1>1. << >> \in Seq({}) /\ Len(<< >>) = 0
  BY EmptySeq
<1>2. \A i \in 1..Len(<< >>) : << >>[i] # x
  BY <1>1
<1> QED BY <1>1, <1>2, CountType

(* The copies of a finite set under an injective renaming are as many. *)
LEMMA Renaming ==
    ASSUME NEW S, NEW T, IsFiniteSet(S), NEW f \in [S -> T],
           \A a, b \in S : f[a] = f[b] => a = b,
           \A t \in T : \E a \in S : f[a] = t
    PROVE  IsFiniteSet(T) /\ Cardinality(T) = Cardinality(S)
<1>1. f \in Injection(S, T)
  BY DEF Injection, IsInjective
<1>2. f \in Surjection(S, T)
  BY DEF Surjection
<1>3. ExistsBijection(S, T)
  BY <1>1, <1>2 DEF ExistsBijection, Bijection
<1> QED BY <1>3, FS_Bijection

(* The size of a set put together from two that have nothing in common. *)
LEMMA DisjointUnion ==
    ASSUME NEW S, NEW T, IsFiniteSet(S), IsFiniteSet(T), S \cap T = {}
    PROVE  /\ IsFiniteSet(S \cup T)
           /\ Cardinality(S \cup T) = Cardinality(S) + Cardinality(T)
<1>1. /\ IsFiniteSet(S \cup T)
      /\ Cardinality(S \cup T) = Cardinality(S) + Cardinality(T) - Cardinality(S \cap T)
  BY FS_Union
<1>2. Cardinality(S \cap T) = 0
  BY FS_EmptySet
<1>3. Cardinality(S) \in Nat /\ Cardinality(T) \in Nat
  BY FS_CardinalityType
<1> QED BY <1>1, <1>2, <1>3

LEMMA CountConcat ==
    ASSUME NEW S, NEW s \in Seq(S), NEW t \in Seq(S), NEW x
    PROVE  Count(s \o t, x) = Count(s, x) + Count(t, x)
<1> DEFINE n == Len(s)
           m == Len(t)
           u == s \o t
           A == Occurrences(s, x)
           B == Occurrences(t, x)
           C == {i \in (n + 1)..(n + m) : u[i] = x}
           f == [i \in B |-> n + i]
<1>1. /\ n \in Nat /\ DOMAIN s = 1..n
      /\ m \in Nat /\ DOMAIN t = 1..m
  BY LenProperties
<1>2. /\ u \in Seq(S) /\ Len(u) = n + m
      /\ \A i \in 1..(n + m) : u[i] = IF i <= n THEN s[i] ELSE t[i - n]
  BY ConcatProperties
<1>3. DOMAIN u = 1..(n + m)
  BY <1>2, LenProperties
<1> HIDE DEF u, n, m
<1>4. A = {i \in 1..n : s[i] = x} /\ B = {i \in 1..m : t[i] = x}
  BY <1>1 DEF Occurrences
<1>5. IsFiniteSet(A) /\ IsFiniteSet(B)
  BY CountType
<1>6. Occurrences(u, x) = A \cup C
  <2>1. Occurrences(u, x) = {i \in 1..(n + m) : u[i] = x}
    BY <1>3 DEF Occurrences
  <2>2. \A i \in 1..n : i \in 1..(n + m) /\ u[i] = s[i]
    BY <1>1, <1>2
  <2>3. \A i \in 1..(n + m) : i \in 1..n \/ i \in (n + 1)..(n + m)
    BY <1>1
  <2>4. \A i \in (n + 1)..(n + m) : i \in 1..(n + m)
    BY <1>1
  <2> QED BY <2>1, <2>2, <2>3, <2>4, <1>4
<1>7. A \cap C = {}
  BY <1>1, <1>4
<1>8. \A i \in B : n + i \in C
  <2> SUFFICES ASSUME NEW i \in B PROVE n + i \in C
    OBVIOUS
  <2>1. i \in 1..m /\ t[i] = x
    BY <1>4
  <2>2. /\ n + i \in 1..(n + m) /\ n + i \in (n + 1)..(n + m)
        /\ ~ (n + i <= n) /\ (n + i) - n = i
    BY <2>1, <1>1
  <2>3. u[n + i] = t[i]
    BY <2>2, <1>2
  <2> QED BY <2>1, <2>2, <2>3
<1>9. f \in [B -> C]
  BY <1>8
<1>10. \A a, b \in B : f[a] = f[b] => a = b
  BY <1>1, <1>4
<1>11. \A c \in C : \E a \in B : f[a] = c
  <2> SUFFICES ASSUME NEW c \in C PROVE \E a \in B : n + a = c
    OBVIOUS
  <2>1. /\ c \in 1..(n + m) /\ ~ (c <= n) /\ c - n \in 1..m /\ n + (c - n) = c
    BY <1>1
  <2>2. t[c - n] = u[c]
    BY <2>1, <1>2
  <2>3. c - n \in B
    BY <2>1, <2>2, <1>4
  <2> QED BY <2>1, <2>3
<1> HIDE DEF A, B, C, f
<1>12. IsFiniteSet(C) /\ Cardinality(C) = Cardinality(B)
  BY <1>5, <1>9, <1>10, <1>11, Renaming
<1>13. Cardinality(A \cup C) = Cardinality(A) + Cardinality(B)
  BY <1>5, <1>7, <1>12, DisjointUnion
<1> QED BY <1>6, <1>13 DEF Count, A, B, u

LEMMA CountAppend ==
    ASSUME NEW S, NEW s \in Seq(S), NEW e \in S, NEW x
    PROVE  Count(Append(s, e), x) = Count(s, x) + (IF e = x THEN 1 ELSE 0)
<1>1. /\ Append(s, e) \in Seq(S) /\ Len(Append(s, e)) = Len(s) + 1
      /\ \A i \in 1..Len(s) : Append(s, e)[i] = s[i]
      /\ Append(s, e)[Len(s) + 1] = e
  BY AppendProperties
<1>2. /\ Len(s) \in Nat /\ DOMAIN s = 1..Len(s)
      /\ DOMAIN Append(s, e) = 1..(Len(s) + 1)
  BY <1>1, LenProperties
<1> DEFINE t == Append(s, e)
           n == Len(s)
<1> HIDE DEF t, n
<1>3. /\ n \in Nat /\ DOMAIN s = 1..n /\ DOMAIN t = 1..(n + 1)
      /\ \A i \in 1..n : t[i] = s[i]
      /\ t[n + 1] = e
  BY <1>1, <1>2 DEF t, n
<1>4. IsFiniteSet(Occurrences(s, x)) /\ Count(s, x) \in Nat
  BY CountType
<1>5. n + 1 \notin Occurrences(s, x)
  BY <1>3 DEF Occurrences
<1>6. \A i \in 1..(n + 1) : i \in 1..n \/ i = n + 1
  BY <1>3
<1>7. \A i \in 1..n : i \in 1..(n + 1)
  BY <1>3
<1>8. n + 1 \in 1..(n + 1)
  BY <1>3
<1>9. CASE e = x
  <2>1. Occurrences(t, x) = Occurrences(s, x) \cup {n + 1}
    BY <1>3, <1>6, <1>7, <1>8, <1>9 DEF Occurrences
  <2>2. Cardinality(Occurrences(t, x)) = Cardinality(Occurrences(s, x)) + 1
    BY <2>1, <1>4, <1>5, FS_AddElement
  <2> QED BY <2>2, <1>9 DEF Count, t
<1>10. CASE e # x
  <2>1. Occurrences(t, x) = Occurrences(s, x)
    BY <1>3, <1>6, <1>7, <1>8, <1>10 DEF Occurrences
  <2> QED BY <2>1, <1>10, <1>4 DEF Count, t
<1> QED BY <1>9, <1>10

LEMMA CountTail ==
    ASSUME NEW S, NEW s \in Seq(S), s # << >>, NEW x
    PROVE  Count(s, x) = Count(Tail(s), x) + (IF Head(s) = x THEN 1 ELSE 0)
<1>1. Len(s) \in Nat \ {0} /\ DOMAIN s = 1..Len(s) /\ s[1] \in S
  BY LenProperties, EmptySeq, ElementOfSeq
<1>2. Head(s) \in S /\ Tail(s) \in Seq(S) /\ Head(s) = s[1]
  BY HeadTailProperties
<1>3. SubSeq(s, 1, Len(s)) = <<s[1]>> \o SubSeq(s, 2, Len(s))
  <2>1. 1 \in 1..Len(s) /\ Len(s) \in 1..Len(s) /\ 1 + 1 = 2
    BY <1>1
  <2> QED BY <2>1, SubSeqRecursiveFirst
<1>4. s = <<s[1]>> \o Tail(s)
  BY <1>3, SubSeqFull, TailIsSubSeq
<1>5. <<s[1]>> \in Seq(S)
  BY <1>1
<1>6. Count(s, x) = Count(<<s[1]>>, x) + Count(Tail(s), x)
  <2>1. Count(<<s[1]>> \o Tail(s), x) = Count(<<s[1]>>, x) + Count(Tail(s), x)
    BY <1>2, <1>5, CountConcat, Zenon
  <2> QED BY <2>1, <1>4, Zenon
<1>7. Count(<<s[1]>>, x) = IF Head(s) = x THEN 1 ELSE 0
  <2>1. Occurrences(<<s[1]>>, x) = IF s[1] = x THEN {1} ELSE {}
    BY DEF Occurrences
  <2> QED BY <2>1, <1>2, FS_EmptySet, FS_Singleton DEF Count
<1>8. Count(Tail(s), x) \in Nat
  BY <1>2, CountType
<1> QED BY <1>6, <1>7, <1>8

LEMMA CountExcept ==
    ASSUME NEW S, NEW s \in Seq(S), NEW k \in 1..Len(s), NEW e \in S, NEW x,
           NEW t \in Seq(S), Len(t) = Len(s),
           \A i \in 1..Len(s) : t[i] = IF i = k THEN e ELSE s[i]
    PROVE  /\ s[k] = x /\ e # x => Count(t, x) + 1 = Count(s, x)
           /\ s[k] # x /\ e = x => Count(t, x) = Count(s, x) + 1
           /\ (s[k] = x <=> e = x) => Count(t, x) = Count(s, x)
<1> DEFINE R == Occurrences(s, x) \ {k}
<1>1. DOMAIN s = 1..Len(s) /\ DOMAIN t = 1..Len(s)
  BY LenProperties
<1>2. \A i \in 1..Len(s) : t[i] = IF i = k THEN e ELSE s[i]
  OBVIOUS
<1>3. IsFiniteSet(Occurrences(s, x)) /\ Count(s, x) \in Nat
  BY CountType
<1>4. /\ IsFiniteSet(R) /\ Cardinality(R) \in Nat
      /\ Cardinality(R) = IF s[k] = x THEN Count(s, x) - 1 ELSE Count(s, x)
  <2>1. k \in Occurrences(s, x) <=> s[k] = x
    BY <1>1 DEF Occurrences
  <2>2. /\ IsFiniteSet(R)
        /\ Cardinality(R) = IF k \in Occurrences(s, x) THEN Cardinality(Occurrences(s, x)) - 1
                            ELSE Cardinality(Occurrences(s, x))
    BY <1>3, FS_RemoveElement
  <2>3. Cardinality(R) \in Nat
    BY <2>2, FS_CardinalityType
  <2> QED BY <2>1, <2>2, <2>3 DEF Count
<1>5. Occurrences(t, x) = IF e = x THEN R \cup {k} ELSE R
  BY <1>1, <1>2 DEF Occurrences
<1>6. Count(t, x) = IF e = x THEN Cardinality(R) + 1 ELSE Cardinality(R)
  <2>1. k \notin R
    OBVIOUS
  <2> HIDE DEF R
  <2>2. Cardinality(R \cup {k}) = Cardinality(R) + 1
    BY <2>1, <1>4, FS_AddElement
  <2> QED BY <2>2, <1>5 DEF Count
<1> HIDE DEF R
<1> QED BY <1>3, <1>4, <1>6

(* A sequence cut in two. *)
LEMMA CountCut ==
    ASSUME NEW S, NEW s \in Seq(S), NEW k \in 0..Len(s), NEW x
    PROVE  Count(s, x) = Count(SubSeq(s, 1, k), x) + Count(SubSeq(s, k + 1, Len(s)), x)
<1>1. Len(s) \in Nat /\ \A i \in 1..Len(s) : s[i] \in S
  BY LenProperties, ElementOfSeq
<1>2. SubSeq(s, 1, k) \in Seq(S)
  <2>1. \A i \in 1..k : s[i] \in S
    BY <1>1
  <2> QED BY <2>1, SubSeqProperties
<1>3. SubSeq(s, k + 1, Len(s)) \in Seq(S)
  <2>1. \A i \in (k + 1)..Len(s) : s[i] \in S
    BY <1>1
  <2> QED BY <2>1, <1>1, SubSeqProperties
<1>4. SubSeq(s, 1, k) \o SubSeq(s, k + 1, Len(s)) = SubSeq(s, 1, Len(s))
  <2>1. 1 \in 1..(Len(s) + 1) /\ k \in (1 - 1)..Len(s) /\ Len(s) \in k..Len(s)
    BY <1>1
  <2> QED BY <2>1, ConcatAdjacentSubSeq
<1>5. SubSeq(s, 1, Len(s)) = s
  BY SubSeqFull
<1>6. Count(SubSeq(s, 1, k) \o SubSeq(s, k + 1, Len(s)), x)
      = Count(SubSeq(s, 1, k), x) + Count(SubSeq(s, k + 1, Len(s)), x)
  BY <1>2, <1>3, CountConcat, Zenon
<1> QED BY <1>4, <1>5, <1>6, Zenon

(* A function of the first naturals is a sequence. *)
LEMMA SeqOfFunction ==
    ASSUME NEW S, NEW n \in Nat, NEW f \in [1..n -> S]
    PROVE  f \in Seq(S) /\ DOMAIN f = 1..n
<1>1. [1..n -> S] \in {[1..m -> S] : m \in Nat}
  OBVIOUS
<1>2. f \in Seq(S)
  BY <1>1, SeqDef
<1> QED BY <1>2

(* The length is what the domain says. *)
LEMMA LengthOf ==
    ASSUME NEW n \in Nat, NEW S, NEW s \in Seq(S), DOMAIN s = 1..n
    PROVE  Len(s) = n
<1>1. Len(s) \in Nat /\ DOMAIN s = 1..Len(s)
  BY LenProperties
<1>2. CASE Len(s) < n
  <2>1. n \in 1..n /\ n \notin 1..Len(s)
    BY <1>1, <1>2
  <2> QED BY <2>1, <1>1
<1>3. CASE n < Len(s)
  <2>1. Len(s) \in 1..Len(s) /\ Len(s) \notin 1..n
    BY <1>1, <1>3
  <2> QED BY <2>1, <1>1
<1> QED BY <1>1, <1>2, <1>3

(* What holds of the empty sequence, and behind every element, holds. *)
LEMMA ByAppend ==
    ASSUME NEW A, NEW S, << >> \in S,
           \A s \in Seq(A), c \in A : s \in S => Append(s, c) \in S
    PROVE  Seq(A) \subseteq S
<1> SUFFICES ASSUME NEW r \in Seq(A), r \notin S PROVE FALSE
  OBVIOUS
<1> DEFINE Bad == {n \in Nat : \E s \in Seq(A) : Len(s) = n /\ s \notin S}
<1>1. Bad \in SUBSET Nat /\ Bad # {}
  <2>1. Len(r) \in Bad
    BY LenProperties
  <2> QED BY <2>1
<1>2. PICK n \in Bad : \A m \in Bad : n <= m
  BY <1>1, LeastNatural
<1>3. PICK s \in Seq(A) : Len(s) = n /\ s \notin S
  BY <1>2
<1>4. PICK f \in Seq(A), c \in A : s = Append(f, c)
  BY <1>3, SequenceEmptyOrAppend
<1>5. Len(f) \in Nat /\ n = Len(f) + 1
  <2>1. Len(Append(f, c)) = Len(f) + 1 /\ Len(f) \in Nat
    BY LenProperties, AppendProperties
  <2> QED BY <2>1, <1>3, <1>4
<1>6. Len(f) \notin Bad
  <2>1. n \in Nat /\ ~ (n <= Len(f))
    BY <1>2, <1>5
  <2> HIDE DEF Bad
  <2> QED BY <2>1, <1>2
<1>7. f \in S
  BY <1>5, <1>6
<1> QED BY <1>3, <1>4, <1>7

(* A concatenation with an element behind it. *)
LEMMA ConcatAppend ==
    ASSUME NEW A, NEW s \in Seq(A), NEW t \in Seq(A), NEW c \in A
    PROVE  s \o Append(t, c) = Append(s \o t, c)
<1>1. Append(t, c) = t \o <<c>>
  BY AppendIsConcat
<1>2. s \o t \in Seq(A) /\ <<c>> \in Seq(A)
  BY ConcatProperties
<1>3. Append(s \o t, c) = (s \o t) \o <<c>>
  BY <1>2, AppendIsConcat
<1>4. (s \o t) \o <<c>> = s \o (t \o <<c>>)
  BY <1>2, ConcatAssociative
<1> QED BY <1>1, <1>3, <1>4

(* What Append puts together, Last and Front take apart. *)
LEMMA EndOfAppend ==
    ASSUME NEW A, NEW s \in Seq(A), NEW c \in A
    PROVE  Last(Append(s, c)) = c /\ Front(Append(s, c)) = s /\ Append(s, c) # << >>
<1>1. PICK t : t = Append(s, c)
  OBVIOUS
<1>2. /\ t \in Seq(A) /\ Len(t) = Len(s) + 1 /\ t # << >>
      /\ \A i \in 1..Len(s) : t[i] = s[i]
      /\ t[Len(s) + 1] = c
      /\ Len(s) \in Nat
  BY <1>1, AppendProperties, LenProperties
<1>3. Last(t) = c
  BY <1>2 DEF Last
<1>4. PICK f : f = SubSeq(t, 1, Len(s))
  OBVIOUS
<1>5. \A i \in 1..Len(s) : t[i] \in A
  BY <1>2, ElementOfSeq
<1>6. f \in Seq(A) /\ Len(f) = Len(s) /\ \A i \in 1..Len(s) : f[i] = s[i]
  <2>1. /\ SubSeq(t, 1, Len(s)) \in Seq(A)
        /\ Len(SubSeq(t, 1, Len(s))) = IF 1 <= Len(s) THEN Len(s) - 1 + 1 ELSE 0
        /\ \A i \in 1..(Len(s) - 1 + 1) : SubSeq(t, 1, Len(s))[i] = t[1 + i - 1]
    BY <1>2, <1>5, SubSeqProperties
  <2>2. \A i \in 1..Len(s) : i \in 1..(Len(s) - 1 + 1) /\ 1 + i - 1 = i
    BY <1>2
  <2>3. \A i \in 1..Len(s) : f[i] = t[i]
    BY <2>1, <2>2, <1>4
  <2> QED BY <2>1, <2>3, <1>2, <1>4
<1>7. f = s
  BY <1>6, SeqEqual
<1>8. Front(t) = f
  <2>1. Len(t) - 1 = Len(s)
    BY <1>2
  <2> QED BY <2>1, <1>4 DEF Front
<1> QED BY <1>1, <1>2, <1>3, <1>7, <1>8

(* The first of two sequences is found before the second. *)
LEMMA PrefixOfConcat ==
    ASSUME NEW S, NEW s \in Seq(S), NEW t \in Seq(S)
    PROVE  /\ SubSeq(s \o t, 1, Len(s)) = s
           /\ Len(s \o t) - Len(t) = Len(s)
<1>1. PICK c : c = s \o t
  OBVIOUS
<1>2. /\ c \in Seq(S) /\ Len(c) = Len(s) + Len(t) /\ Len(s) \in Nat /\ Len(t) \in Nat
      /\ \A i \in 1..(Len(s) + Len(t)) : c[i] = IF i <= Len(s) THEN s[i] ELSE t[i - Len(s)]
  BY <1>1, ConcatProperties, LenProperties
<1>3. \A i \in 1..Len(c) : c[i] \in S
  BY <1>2, ElementOfSeq
<1>4. \A i \in 1..Len(s) : c[i] = s[i] /\ c[i] \in S
  BY <1>2, <1>3
<1>5. PICK p : p = SubSeq(c, 1, Len(s))
  OBVIOUS
<1>6. p \in Seq(S) /\ Len(p) = Len(s) /\ \A i \in 1..Len(s) : p[i] = c[i]
  <2>1. /\ SubSeq(c, 1, Len(s)) \in Seq(S)
        /\ Len(SubSeq(c, 1, Len(s))) = IF 1 <= Len(s) THEN Len(s) - 1 + 1 ELSE 0
        /\ \A i \in 1..(Len(s) - 1 + 1) : SubSeq(c, 1, Len(s))[i] = c[1 + i - 1]
    BY <1>2, <1>4, SubSeqProperties
  <2>2. \A i \in 1..Len(s) : i \in 1..(Len(s) - 1 + 1) /\ 1 + i - 1 = i
    BY <1>2
  <2>3. \A i \in 1..Len(s) : p[i] = c[i]
    BY <2>1, <2>2, <1>5
  <2> QED BY <2>1, <2>3, <1>2, <1>5
<1>7. p = s
  BY <1>4, <1>6, SeqEqual
<1> QED BY <1>1, <1>2, <1>5, <1>7

(* Nothing is lost by a concatenation. *)
LEMMA RangeOfConcat ==
    ASSUME NEW S, NEW s \in Seq(S), NEW t \in Seq(S)
    PROVE  Range(s) \subseteq Range(s \o t)
<1> SUFFICES ASSUME NEW x \in Range(s) PROVE x \in Range(s \o t)
  OBVIOUS
<1>1. DOMAIN s = 1..Len(s) /\ Len(s) \in Nat /\ Len(t) \in Nat
  BY LenProperties
<1>2. PICK i \in 1..Len(s) : x = s[i]
  BY <1>1 DEF Range
<1>3. PICK u : u = s \o t
  OBVIOUS
<1>4. /\ u \in Seq(S) /\ Len(u) = Len(s) + Len(t)
      /\ \A j \in 1..(Len(s) + Len(t)) : u[j] = IF j <= Len(s) THEN s[j] ELSE t[j - Len(s)]
  BY <1>3, ConcatProperties
<1>5. i \in 1..(Len(s) + Len(t)) /\ i <= Len(s)
  BY <1>1
<1>6. u[i] = x /\ i \in DOMAIN u
  BY <1>2, <1>4, <1>5, LenProperties
<1> QED BY <1>3, <1>6 DEF Range
=============================================================================
