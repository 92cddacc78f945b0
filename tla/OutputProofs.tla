---------------------------- MODULE OutputProofs ----------------------------
(***************************************************************************)
(* Theorems about the way from logits to text, for every vocabulary, every *)
(* logits and every stop string.                                           *)
(***************************************************************************)
EXTENDS Output, SequenceLemmas

-----------------------------------------------------------------------------
(***************************************************************************)
(* Folds.  FoldLeft and FlattenSeq are recursive functions: that there is  *)
(* one, and what it is on the prefixes of a sequence, is induction on the  *)
(* length, by the least length that is an exception.                       *)
(***************************************************************************)
LEMMA MaxOf ==
    ASSUME NEW D \in SUBSET Nat, NEW n \in D, \A m \in D : m <= n
    PROVE  Max(D) = n
<1>1. PICK k : k = Max(D)
  OBVIOUS
<1>2. k \in D /\ \A m \in D : k >= m
  BY <1>1 DEF Max
<1> QED BY <1>1, <1>2

LEMMA MaxIn ==
    ASSUME NEW N \in Nat, NEW D \in SUBSET (1..N), D # {}
    PROVE  Max(D) \in D /\ \A m \in D : m <= Max(D)
<1> DEFINE E == {N - d : d \in D}
<1>1. E \in SUBSET Nat /\ E # {}
  <2>1. \A d \in D : N - d \in Nat
    OBVIOUS
  <2>2. PICK d \in D : TRUE
    OBVIOUS
  <2> QED BY <2>1, <2>2
<1>2. PICK e \in E : \A m \in E : e <= m
  BY <1>1, LeastNatural
<1>3. PICK d \in D : e = N - d
  OBVIOUS
<1>4. ASSUME NEW m \in D PROVE m <= d
  <2>1. N - m \in E /\ m \in Nat /\ d \in Nat
    OBVIOUS
  <2>2. N - d <= N - m
    BY <2>1, <1>2, <1>3
  <2> QED BY <2>1, <2>2
<1> QED BY <1>4, MaxOf

LEMMA Initial ==
    ASSUME NEW N \in Nat, NEW n \in 1..N
    PROVE  /\ 1..n \in SUBSET (1..N) /\ 1..n # {} /\ (1..n) \ {n} = 1..(n - 1)
           /\ Max(1..n) = n
<1>1. n \in 1..n /\ \A m \in 1..n : m <= n
  OBVIOUS
<1> QED BY <1>1, MaxOf

(* h is the fold of each selection of elements; g, of each prefix. *)
SolvesFold(h, op, b, s) ==
    \A D \in SUBSET DOMAIN s :
       h[D] = IF D = {} THEN b ELSE op[<<h[D \ {Max(D)}], s[Max(D)]>>]

FoldsPrefixes(g, op, b, s) ==
    g[0] = b /\ \A n \in 1..Len(s) : g[n] = op[<<g[n - 1], s[n]>>]

LEMMA FoldSolution ==
    ASSUME NEW S, NEW T, NEW op \in [S \X T -> S], NEW b \in S, NEW s \in Seq(T)
    PROVE  \E h \in [SUBSET DOMAIN s -> S] : SolvesFold(h, op, b, s)
<1> DEFINE Solves(h, n) ==
              \A D \in SUBSET (1..n) :
                 h[D] = IF D = {} THEN b ELSE op[<<h[D \ {Max(D)}], s[Max(D)]>>]
           Solvable(n) == \E h \in [SUBSET (1..n) -> S] : Solves(h, n)
           Bad == {n \in Nat : n <= Len(s) /\ ~ Solvable(n)}
<1>1. Len(s) \in Nat /\ DOMAIN s = 1..Len(s) /\ \A i \in 1..Len(s) : s[i] \in T
  BY LenProperties, ElementOfSeq
<1>2. Solvable(0)
  <2> DEFINE h == [D \in SUBSET (1..0) |-> b]
  <2>1. h \in [SUBSET (1..0) -> S] /\ \A D \in SUBSET (1..0) : D = {} /\ h[D] = b
    OBVIOUS
  <2> QED BY <2>1
<1>3. ASSUME NEW n \in Nat, n + 1 <= Len(s), Solvable(n) PROVE Solvable(n + 1)
  <2>1. PICK h \in [SUBSET (1..n) -> S] : Solves(h, n)
    BY <1>3
  <2> DEFINE k == n + 1
             g == [D \in SUBSET (1..k) |->
                     IF k \in D THEN op[<<h[D \ {k}], s[k]>>] ELSE h[D]]
  <2>2. \A D \in SUBSET (1..k) : /\ D \ {k} \in SUBSET (1..n)
                                /\ k \notin D => D \in SUBSET (1..n)
    OBVIOUS
  <2>3. s[k] \in T /\ k \in Nat
    BY <1>1, <1>3
  <2>4. g \in [SUBSET (1..k) -> S]
    BY <2>2, <2>3
  <2>5. ASSUME NEW D \in SUBSET (1..k)
        PROVE  g[D] = IF D = {} THEN b ELSE op[<<g[D \ {Max(D)}], s[Max(D)]>>]
    <3>1. CASE k \in D
      <4>1. Max(D) = k
        BY <3>1, MaxOf
      <4>2. g[D] = op[<<h[D \ {k}], s[k]>>]
        BY <3>1
      <4>3. g[D \ {k}] = h[D \ {k}]
        BY <2>2
      <4> QED BY <3>1, <4>1, <4>2, <4>3
    <3>2. CASE k \notin D
      <4>1. D \in SUBSET (1..n) /\ g[D] = h[D]
        BY <3>2, <2>2
      <4>2. g[D \ {Max(D)}] = h[D \ {Max(D)}]
        BY <3>2, <2>2
      <4> QED BY <4>1, <4>2, <2>1
    <3> QED BY <3>1, <3>2
  <2> QED BY <2>4, <2>5
<1> HIDE DEF Solvable
<1>4. Bad = {}
  <2> SUFFICES ASSUME Bad # {} PROVE FALSE
    OBVIOUS
  <2>1. PICK n \in Bad : \A m \in Bad : n <= m
    BY LeastNatural
  <2>2. n # 0 /\ n - 1 \in Nat /\ n - 1 \notin Bad /\ (n - 1) + 1 = n
    BY <2>1, <1>2
  <2> QED BY <2>1, <2>2, <1>1, <1>3
<1>5. Solvable(Len(s))
  BY <1>1, <1>4
<1> QED BY <1>1, <1>5 DEF Solvable, SolvesFold

Foldable(S, T, op, b, s) == op \in [S \X T -> S] /\ b \in S /\ s \in Seq(T)

(* iter is the fold where it has a value at all: on the prefixes it has. *)
Unfolds(iter, S, op, b, s) ==
    /\ iter[{}] = b
    /\ \A D \in (SUBSET DOMAIN s) \ {{}} : iter[D \ {Max(D)}] \in S =>
          iter[D] = op[<<iter[D \ {Max(D)}], s[Max(D)]>>]

LEMMA FoldUnique ==
    ASSUME NEW S, NEW T, NEW op, NEW b, NEW s, Foldable(S, T, op, b, s),
           NEW iter, Unfolds(iter, S, op, b, s),
           NEW g, FoldsPrefixes(g, op, b, s)
    PROVE  iter[DOMAIN s] = g[Len(s)] /\ g[Len(s)] \in S
<1> DEFINE Bad == {n \in Nat : n <= Len(s) /\ ~ (iter[1..n] = g[n] /\ g[n] \in S)}
<1> USE DEF Foldable
<1>1. Len(s) \in Nat /\ DOMAIN s = 1..Len(s) /\ \A i \in 1..Len(s) : s[i] \in T
  BY LenProperties, ElementOfSeq
<1>2. 1..0 = {} /\ iter[{}] = b /\ g[0] = b
  BY DEF Unfolds, FoldsPrefixes
<1>3. ASSUME NEW n \in 1..Len(s), iter[1..(n - 1)] \in S
      PROVE  iter[1..n] = op[<<iter[1..(n - 1)], s[n]>>]
  <2>1. /\ 1..n \in (SUBSET DOMAIN s) \ {{}} /\ (1..n) \ {n} = 1..(n - 1)
        /\ Max(1..n) = n
    BY <1>1, Initial
  <2> QED BY <2>1, <1>3 DEF Unfolds
<1>4. Bad = {}
  <2> SUFFICES ASSUME Bad # {} PROVE FALSE
    OBVIOUS
  <2>1. PICK n \in Bad : \A m \in Bad : n <= m
    BY LeastNatural
  <2>2. n # 0
    BY <1>2
  <2>3. n - 1 \in Nat /\ n - 1 <= Len(s) /\ n - 1 \notin Bad /\ n \in 1..Len(s)
    BY <2>1, <2>2, <1>1
  <2>4. iter[1..(n - 1)] = g[n - 1] /\ g[n - 1] \in S
    BY <2>3
  <2>5. iter[1..n] = op[<<iter[1..(n - 1)], s[n]>>] /\ s[n] \in T
    BY <2>3, <2>4, <1>1, <1>3
  <2>6. g[n] = op[<<g[n - 1], s[n]>>]
    BY <2>3 DEF FoldsPrefixes
  <2> QED BY <2>4, <2>5, <2>6
<1> QED BY <1>1, <1>4

LEMMA FoldOnPrefixes ==
    ASSUME NEW S, NEW T, NEW op, NEW b, NEW s, Foldable(S, T, op, b, s)
    PROVE  \E g : FoldsPrefixes(g, op, b, s)
<1> DEFINE g(h) == [n \in 0..Len(s) |-> h[1..n]]
<1>1. Len(s) \in Nat /\ DOMAIN s = 1..Len(s)
  BY LenProperties DEF Foldable
<1>2. PICK h \in [SUBSET DOMAIN s -> S] : SolvesFold(h, op, b, s)
  BY FoldSolution DEF Foldable
<1>3. ASSUME NEW n \in 1..Len(s) PROVE g(h)[n] = op[<<g(h)[n - 1], s[n]>>]
  <2>1. n - 1 \in 0..Len(s) /\ n \in 0..Len(s)
    BY <1>1
  <2>2. /\ 1..n \in SUBSET DOMAIN s /\ 1..n # {} /\ (1..n) \ {n} = 1..(n - 1)
        /\ Max(1..n) = n
    BY <1>1, Initial
  <2>3. h[1..n] = op[<<h[1..(n - 1)], s[n]>>]
    BY <2>2, <1>2 DEF SolvesFold
  <2> QED BY <2>1, <2>3
<1>4. g(h)[0] = b
  <2>1. 1..0 = {} /\ {} \in SUBSET DOMAIN s /\ 0 \in 0..Len(s)
    BY <1>1
  <2>2. h[{}] = b
    BY <1>2, <2>1 DEF SolvesFold
  <2> QED BY <2>1, <2>2
<1> HIDE DEF g
<1> QED BY <1>3, <1>4 DEF FoldsPrefixes

LEMMA FoldAppend ==
    ASSUME NEW S, NEW T, NEW op, NEW b, NEW s, Foldable(S, T, op, b, s), NEW c \in T,
           NEW iter, Unfolds(iter, S, op, b, s),
           NEW next, Unfolds(next, S, op, b, Append(s, c))
    PROVE  /\ iter[DOMAIN s] \in S
           /\ next[DOMAIN Append(s, c)] = op[<<iter[DOMAIN s], c>>]
<1>0. PICK t : t = Append(s, c)
  OBVIOUS
<1>1. Foldable(S, T, op, b, t) /\ s \in Seq(T)
  BY <1>0, AppendProperties DEF Foldable
<1>2. PICK g : FoldsPrefixes(g, op, b, t)
  BY <1>1, FoldOnPrefixes
<1>3. FoldsPrefixes(g, op, b, s) /\ g[Len(t)] = op[<<g[Len(s)], c>>]
  <2>1. /\ Len(s) \in Nat /\ Len(t) = Len(s) + 1
        /\ \A i \in 1..Len(s) : t[i] = s[i]
        /\ t[Len(s) + 1] = c
    BY <1>0, <1>1, LenProperties, AppendProperties
  <2> QED BY <2>1, <1>2 DEF FoldsPrefixes
<1>4. iter[DOMAIN s] = g[Len(s)] /\ g[Len(s)] \in S
  BY <1>3, FoldUnique
<1>5. next[DOMAIN t] = g[Len(t)]
  <2>1. Unfolds(next, S, op, b, t)
    BY <1>0
  <2> QED BY <2>1, <1>1, <1>2, FoldUnique
<1> QED BY <1>0, <1>3, <1>4, <1>5

-----------------------------------------------------------------------------
(***************************************************************************)
(* A sequence of sequences, flattened.                                     *)
(***************************************************************************)
LEMMA Flattened ==
    ASSUME NEW T, NEW s \in Seq(Seq(T)), NEW op,
           op = [p \in Seq(T) \X Seq(T) |-> p[1] \o p[2]],
           NEW g, FoldsPrefixes(g, op, << >>, s)
    PROVE  FlattenSeq(s) = g[Len(s)] /\ g[Len(s)] \in Seq(T)
<1> DEFINE n == Len(s)
           Solves(f) == f = [i \in 1..Len(s) |->
                               IF i = 1 THEN s[i] ELSE f[i - 1] \o s[i]]
           flatten == CHOOSE f : Solves(f)
           sol == [i \in 1..Len(s) |-> g[i]]
           Wrong == {m \in Nat : m <= n /\ g[m] \notin Seq(T)}
           Bad == {m \in Nat : m \in 1..n /\ flatten[m] # g[m]}
<1>1. n \in Nat /\ \A i \in 1..n : s[i] \in Seq(T)
  BY LenProperties, ElementOfSeq
<1>2. g[0] = << >> /\ \A i \in 1..n : g[i] = op[<<g[i - 1], s[i]>>]
  BY DEF FoldsPrefixes
<1>3. << >> \in Seq(T) /\ \A x, y \in Seq(T) : x \o y \in Seq(T) /\ op[<<x, y>>] = x \o y
  <2>1. \A x, y \in Seq(T) : x \o y \in Seq(T)
    BY ConcatProperties
  <2>2. \A x, y \in Seq(T) : op[<<x, y>>] = x \o y
    <3> SUFFICES ASSUME NEW x \in Seq(T), NEW y \in Seq(T)
                 PROVE  op[<<x, y>>] = x \o y
      OBVIOUS
    <3>1. <<x, y>> \in Seq(T) \X Seq(T)
      OBVIOUS
    <3> QED BY <3>1
  <2>3. << >> \in Seq(T)
    BY EmptySeq
  <2> QED BY <2>1, <2>2, <2>3, Zenon
<1>4. Wrong = {}
  <2> SUFFICES ASSUME Wrong # {} PROVE FALSE
    OBVIOUS
  <2>1. PICK m \in Wrong : \A k \in Wrong : m <= k
    BY LeastNatural
  <2>2. m # 0
    BY <1>2, <1>3
  <2>3. m - 1 \in Nat /\ m - 1 <= n /\ m - 1 \notin Wrong /\ m \in 1..n
    BY <2>1, <2>2, <1>1
  <2>4. g[m - 1] \in Seq(T) /\ g[m] = op[<<g[m - 1], s[m]>>] /\ s[m] \in Seq(T)
    BY <2>3, <1>1, <1>2
  <2> QED BY <2>4, <1>3
<1>5. ASSUME NEW i \in 0..n PROVE g[i] \in Seq(T)
  <2>1. i \in Nat /\ i <= n /\ i \notin Wrong
    BY <1>1, <1>4
  <2> QED BY <2>1
<1>6. \A i \in 1..n : g[i] = g[i - 1] \o s[i]
  <2> SUFFICES ASSUME NEW i \in 1..n PROVE g[i] = g[i - 1] \o s[i]
    OBVIOUS
  <2>1. i - 1 \in 0..n
    BY <1>1
  <2> QED BY <2>1, <1>1, <1>2, <1>3, <1>5
<1>7. 1 \in 1..n => g[1] = s[1]
  <2> SUFFICES ASSUME 1 \in 1..n PROVE g[1] = s[1]
    OBVIOUS
  <2>0. PICK i \in 1..n : i = 1 /\ i - 1 = 0
    OBVIOUS
  <2>1. g[i] = op[<<g[i - 1], s[i]>>] /\ s[i] \in Seq(T)
    BY <1>1, <1>2
  <2>2. op[<< << >>, s[i]>>] = << >> \o s[i]
    BY <2>1, <1>3
  <2>3. << >> \o s[i] = s[i]
    BY <2>1, ConcatEmptySeq
  <2> QED BY <2>0, <2>1, <2>2, <2>3, <1>2
<1>8. Solves(sol)
  <2>1. \A i \in 1..n : i # 1 => i - 1 \in 1..n
    BY <1>1
  <2>2. \A i \in 1..n : sol[i] = IF i = 1 THEN s[i] ELSE sol[i - 1] \o s[i]
    BY <2>1, <1>6, <1>7
  <2> QED BY <2>2
<1>9. Solves(flatten)
  BY <1>8
<1> HIDE DEF flatten
<1>10. Bad = {}
  <2> SUFFICES ASSUME Bad # {} PROVE FALSE
    OBVIOUS
  <2>1. PICK m \in Bad : \A k \in Bad : m <= k
    BY LeastNatural
  <2>2. m # 1
    BY <1>7, <1>9
  <2>3. m - 1 \in Nat /\ m - 1 \in 1..n /\ m - 1 \notin Bad /\ m \in 1..n
    BY <2>1, <2>2, <1>1
  <2>4. flatten[m - 1] = g[m - 1]
    BY <2>3
  <2>5. flatten[m] = flatten[m - 1] \o s[m]
    BY <1>9, <2>2, <2>3
  <2> QED BY <2>3, <2>4, <2>5, <1>6
<1>11. CASE n = 0
  <2>1. FlattenSeq(s) = << >>
    BY <1>11, EmptySeq DEF FlattenSeq
  <2> QED BY <2>1, <1>2, <1>3, <1>11
<1>12. CASE n # 0
  <2>1. FlattenSeq(s) = flatten[n]
    BY <1>12, Zenon DEF FlattenSeq, flatten
  <2>2. n \in 1..n /\ n \in Nat /\ n \notin Bad
    <3> HIDE DEF n, Bad
    <3> QED BY <1>1, <1>10, <1>12
  <2>3. flatten[n] = g[n] /\ g[n] \in Seq(T)
    BY <2>2, <1>1, <1>5
  <2> QED BY <2>1, <2>3
<1> QED BY <1>11, <1>12

LEMMA FlattenAppend ==
    ASSUME NEW T, NEW s \in Seq(Seq(T)), NEW x \in Seq(T)
    PROVE  /\ FlattenSeq(s) \in Seq(T)
           /\ FlattenSeq(Append(s, x)) = FlattenSeq(s) \o x
<1> DEFINE S == Seq(T)
           f == [p \in Seq(T) \X Seq(T) |-> p[1] \o p[2]]
<1>1. PICK op : op = f
  OBVIOUS
<1>2. \A p \in S \X S : p[1] \o p[2] \in S
  BY ConcatProperties
<1>3. op \in [S \X S -> S] /\ \A y, z \in S : op[<<y, z>>] = y \o z
  BY <1>1, <1>2
<1>4. PICK t : t = Append(s, x) /\ t \in Seq(S)
  BY AppendProperties
<1>5. Foldable(S, S, op, << >>, t)
  BY <1>3, <1>4, EmptySeq DEF Foldable
<1>6. PICK g : FoldsPrefixes(g, op, << >>, t)
  BY <1>5, FoldOnPrefixes
<1>7. FoldsPrefixes(g, op, << >>, s) /\ g[Len(t)] = op[<<g[Len(s)], x>>]
  <2>1. /\ Len(s) \in Nat /\ Len(t) = Len(s) + 1
        /\ \A i \in 1..Len(s) : t[i] = s[i]
        /\ t[Len(s) + 1] = x
    BY <1>4, LenProperties, AppendProperties
  <2> QED BY <2>1, <1>6 DEF FoldsPrefixes
<1>8. FlattenSeq(s) = g[Len(s)] /\ g[Len(s)] \in Seq(T)
  BY <1>1, <1>7, Flattened
<1>9. FlattenSeq(t) = g[Len(t)]
  BY <1>1, <1>4, <1>6, Flattened
<1> QED BY <1>3, <1>4, <1>7, <1>8, <1>9

-----------------------------------------------------------------------------
(***************************************************************************)
(* What the assumption on the constants says of the pieces, and where they *)
(* are sequences of.                                                       *)
(***************************************************************************)
Chars == (UNION {Range(Bytes[t]) : t \in Vocab}) \cup {LEAD, TRAIL, CHAR, REPLACED}

(* The fold that reads bytes, a byte at a time. *)
Raw(bytes) == FoldLeft(AndByte, << >>, bytes)

LEMMA AndByteType ==
    ASSUME NEW s \in Seq(Chars), NEW b \in Chars
    PROVE  AndByte(s, b) \in Seq(Chars)
<1>1. CASE s # << >>
  <2>1. Front(s) \in Seq(Chars) /\ CHAR \in Chars
    <3>1. Len(s) \in Nat /\ \A i \in 1..Len(s) : s[i] \in Chars
      BY LenProperties, ElementOfSeq
    <3>2. SubSeq(s, 1, Len(s) - 1) \in Seq(Chars)
      BY <3>1, SubSeqProperties
    <3>3. CHAR \in Chars
      BY DEF Chars
    <3> QED BY <3>2, <3>3 DEF Front
  <2> QED BY <2>1, AppendProperties DEF AndByte
<1>2. CASE s = << >>
  BY <1>2, AppendProperties DEF AndByte
<1> QED BY <1>1, <1>2

LEMMA RawUnfolds ==
    ASSUME NEW s \in Seq(Chars), NEW op,
           op = [p \in Seq(Chars) \X Chars |-> AndByte(p[1], p[2])]
    PROVE  /\ Foldable(Seq(Chars), Chars, op, << >>, s)
           /\ \E iter : /\ Unfolds(iter, Seq(Chars), op, << >>, s)
                        /\ Raw(s) = iter[DOMAIN s]
<1> DEFINE S == Seq(Chars)
           Solves(h) == h = [D \in SUBSET DOMAIN s |->
                               IF D = {} THEN << >>
                               ELSE AndByte(h[D \ {Max(D)}], s[Max(D)])]
           iter == CHOOSE h : Solves(h)
<1>1. Len(s) \in Nat /\ DOMAIN s = 1..Len(s) /\ \A i \in 1..Len(s) : s[i] \in Chars
  BY LenProperties, ElementOfSeq
<1>2. op \in [S \X Chars -> S] /\ \A x \in S, y \in Chars : op[<<x, y>>] = AndByte(x, y)
  BY AndByteType
<1>3. << >> \in S
  OBVIOUS
<1> HIDE DEF S
<1>4. \A D \in SUBSET DOMAIN s : D # {} => s[Max(D)] \in Chars
  BY <1>1, MaxIn
<1>5. PICK h \in [SUBSET DOMAIN s -> S] : SolvesFold(h, op, << >>, s)
  BY <1>2, <1>3, FoldSolution, Zenon
<1>6. Solves(h)
  <2>1. ASSUME NEW D \in SUBSET DOMAIN s, D # {}
        PROVE  op[<<h[D \ {Max(D)}], s[Max(D)]>>] = AndByte(h[D \ {Max(D)}], s[Max(D)])
    BY <1>2, <1>4, <1>5, <2>1
  <2> QED BY <1>5, <2>1 DEF SolvesFold
<1>7. Solves(iter)
  BY <1>6
<1>8. Raw(s) = iter[DOMAIN s]
  BY Zenon DEF Raw, FoldLeft, MapThenFoldSet
<1> HIDE DEF iter
<1>9. Unfolds(iter, S, op, << >>, s)
  BY <1>2, <1>4, <1>7 DEF Unfolds
<1>10. Foldable(S, Chars, op, << >>, s)
  BY <1>2, <1>3 DEF Foldable
<1> QED BY <1>8, <1>9, <1>10 DEF S

LEMMA RawAppend ==
    ASSUME NEW s \in Seq(Chars), NEW c \in Chars
    PROVE  /\ Raw(s) \in Seq(Chars)
           /\ Raw(Append(s, c)) = AndByte(Raw(s), c)
<1> DEFINE f == [p \in Seq(Chars) \X Chars |-> AndByte(p[1], p[2])]
<1>1. PICK op : op = f
  OBVIOUS
<1>2. Append(s, c) \in Seq(Chars)
  BY AppendProperties
<1>3. /\ Foldable(Seq(Chars), Chars, op, << >>, s)
      /\ \E iter : /\ Unfolds(iter, Seq(Chars), op, << >>, s)
                   /\ Raw(s) = iter[DOMAIN s]
  BY <1>1, RawUnfolds
<1>4. \E iter : /\ Unfolds(iter, Seq(Chars), op, << >>, Append(s, c))
                /\ Raw(Append(s, c)) = iter[DOMAIN Append(s, c)]
  BY <1>1, <1>2, RawUnfolds
<1>5. /\ Raw(s) \in Seq(Chars)
      /\ Raw(Append(s, c)) = op[<<Raw(s), c>>]
  BY <1>3, <1>4, FoldAppend
<1> QED BY <1>1, <1>5

LEMMA RawEmpty == Raw(<< >>) = << >>
<1> DEFINE f == [p \in Seq(Chars) \X Chars |-> AndByte(p[1], p[2])]
<1>1. PICK op : op = f
  OBVIOUS
<1>2. PICK e \in Seq(Chars) : e = << >> /\ Len(e) = 0
  BY EmptySeq
<1>3. DOMAIN e = 1..0 /\ 1..0 = {}
  BY <1>2, LenProperties
<1>4. PICK iter : /\ Unfolds(iter, Seq(Chars), op, << >>, e)
                  /\ Raw(e) = iter[DOMAIN e]
  BY <1>1, <1>2, RawUnfolds
<1> QED BY <1>2, <1>3, <1>4 DEF Unfolds

-----------------------------------------------------------------------------
(***************************************************************************)
(* The penalty history is the last tokens, one at a time or all at once.   *)
(***************************************************************************)
LEMMA LastTokensFacts ==
    ASSUME NEW s \in Seq(Vocab)
    PROVE  /\ LastTokens(s) \in Seq(Vocab)
           /\ Len(LastTokens(s)) = IF Len(s) > LAST_N THEN LAST_N ELSE Len(s)
           /\ Len(s) > LAST_N => \A i \in 1..LAST_N :
                                    LastTokens(s)[i] = s[Len(s) - LAST_N + i]
           /\ Len(s) <= LAST_N => LastTokens(s) = s
<1>1. Len(s) \in Nat /\ LAST_N \in Nat \ {0} /\ \A i \in 1..Len(s) : s[i] \in Vocab
  BY LenProperties, ElementOfSeq, OutputAssumption
<1>2. CASE Len(s) > LAST_N
  <2> DEFINE m == Len(s) - LAST_N + 1
  <2>1. m \in Int /\ Len(s) \in Int /\ m <= Len(s) /\ Len(s) - m + 1 = LAST_N
    BY <1>1, <1>2
  <2>2. \A i \in m..Len(s) : s[i] \in Vocab
    BY <1>1, <1>2
  <2>3. LastTokens(s) = SubSeq(s, m, Len(s))
    BY <1>2 DEF LastTokens
  <2> HIDE DEF m
  <2>4. /\ SubSeq(s, m, Len(s)) \in Seq(Vocab)
        /\ Len(SubSeq(s, m, Len(s))) = LAST_N
        /\ \A i \in 1..LAST_N : SubSeq(s, m, Len(s))[i] = s[m + i - 1]
    BY <2>1, <2>2, SubSeqProperties
  <2>5. \A i \in 1..LAST_N : m + i - 1 = Len(s) - LAST_N + i
    BY <1>1 DEF m
  <2> QED BY <2>3, <2>4, <2>5, <1>1, <1>2
<1>3. CASE ~ (Len(s) > LAST_N)
  BY <1>1, <1>3 DEF LastTokens
<1> QED BY <1>2, <1>3

LEMMA WithLast ==
    ASSUME NEW s \in Seq(Vocab), NEW t \in Vocab
    PROVE  With(LastTokens(s), t) = LastTokens(Append(s, t))
<1>1. Len(s) \in Nat /\ LAST_N \in Nat \ {0}
  BY LenProperties, OutputAssumption
<1>2. PICK a : a = Append(s, t)
  OBVIOUS
<1>3. /\ a \in Seq(Vocab) /\ Len(a) = Len(s) + 1
      /\ \A i \in 1..Len(s) : a[i] = s[i]
      /\ a[Len(s) + 1] = t
  BY <1>2, AppendProperties
<1>4. PICK h : h = LastTokens(s)
  OBVIOUS
<1>5. /\ h \in Seq(Vocab)
      /\ Len(h) = IF Len(s) > LAST_N THEN LAST_N ELSE Len(s)
      /\ Len(s) > LAST_N => \A i \in 1..LAST_N : h[i] = s[Len(s) - LAST_N + i]
      /\ Len(s) <= LAST_N => h = s
  BY <1>4, LastTokensFacts
<1>6. PICK b : b = Append(h, t)
  OBVIOUS
<1>7. /\ b \in Seq(Vocab) /\ Len(b) = Len(h) + 1
      /\ \A i \in 1..Len(h) : b[i] = h[i]
      /\ b[Len(h) + 1] = t
  BY <1>5, <1>6, AppendProperties
<1>8. LastTokens(b) = LastTokens(a)
  <2>1. CASE Len(s) <= LAST_N
    BY <2>1, <1>2, <1>5, <1>6
  <2>2. CASE Len(s) > LAST_N
    <3>1. PICK x : x = LastTokens(a)
      OBVIOUS
    <3>2. PICK y : y = LastTokens(b)
      OBVIOUS
    <3>3. /\ x \in Seq(Vocab) /\ Len(x) = LAST_N
          /\ \A i \in 1..LAST_N : x[i] = a[Len(s) + 1 - LAST_N + i]
      <4>1. Len(a) = Len(s) + 1 /\ Len(s) + 1 > LAST_N
        BY <2>2, <1>1, <1>3
      <4>2. /\ x \in Seq(Vocab) /\ Len(x) = LAST_N
            /\ \A i \in 1..LAST_N : x[i] = a[Len(a) - LAST_N + i]
        BY <3>1, <4>1, <1>1, <1>3, LastTokensFacts
      <4>3. \A i \in 1..LAST_N : Len(a) - LAST_N + i = Len(s) + 1 - LAST_N + i
        BY <4>1, <1>1
      <4> QED BY <4>2, <4>3
    <3>4. /\ y \in Seq(Vocab) /\ Len(y) = LAST_N
          /\ \A i \in 1..LAST_N : y[i] = b[1 + i]
      <4>1. Len(b) = LAST_N + 1 /\ LAST_N + 1 > LAST_N
        BY <2>2, <1>1, <1>5, <1>7
      <4>2. /\ y \in Seq(Vocab) /\ Len(y) = LAST_N
            /\ \A i \in 1..LAST_N : y[i] = b[Len(b) - LAST_N + i]
        BY <3>2, <4>1, <1>1, <1>7, LastTokensFacts
      <4>3. \A i \in 1..LAST_N : Len(b) - LAST_N + i = 1 + i
        BY <4>1, <1>1
      <4> QED BY <4>2, <4>3
    <3>5. ASSUME NEW i \in 1..LAST_N PROVE x[i] = y[i]
      <4>1. CASE i = LAST_N
        <5>1. y[i] = t
          BY <4>1, <3>4, <2>2, <1>1, <1>5, <1>7
        <5>2. x[i] = t
          <6>1. Len(s) + 1 - LAST_N + i = Len(s) + 1
            BY <4>1, <1>1
          <6> QED BY <6>1, <3>3, <1>3
        <5> QED BY <5>1, <5>2
      <4>2. CASE i # LAST_N
        <5>1. 1 + i \in 1..LAST_N /\ Len(h) = LAST_N
          BY <4>2, <2>2, <1>1, <1>5
        <5>2. y[i] = s[Len(s) - LAST_N + (1 + i)]
          BY <5>1, <3>4, <2>2, <1>5, <1>7
        <5>3. /\ Len(s) + 1 - LAST_N + i = Len(s) - LAST_N + (1 + i)
              /\ Len(s) + 1 - LAST_N + i \in 1..Len(s)
          BY <5>1, <2>2, <1>1
        <5> QED BY <5>2, <5>3, <3>3, <1>3
      <4> QED BY <4>1, <4>2
    <3>6. x = y
      BY <3>3, <3>4, <3>5, SeqEqual
    <3> QED BY <3>1, <3>2, <3>6
  <2> QED BY <2>1, <2>2, <1>1
<1> QED BY <1>2, <1>4, <1>6, <1>8 DEF With

LEMMA FastAcceptType ==
    ASSUME NEW h \in Seq(Vocab), NEW t \in Vocab
    PROVE  FastAccept(h, t) \in Seq(Vocab)
<1>1. PICK a : a = Append(h, t) /\ a \in Seq(Vocab)
  BY AppendProperties
<1> QED BY <1>1, LastTokensFacts DEF FastAccept, With

LEMMA ChainWithType ==
    ASSUME NEW h \in Seq(Vocab), NEW t \in Vocab
    PROVE  ChainWith(h, t) \in Seq(Vocab)
BY FastAcceptType DEF FastAccept, ChainWith

LEMMA FastUnfolds ==
    ASSUME NEW s \in Seq(Vocab), NEW op,
           op = [p \in Seq(Vocab) \X Vocab |-> FastAccept(p[1], p[2])]
    PROVE  /\ Foldable(Seq(Vocab), Vocab, op, << >>, s)
           /\ \E iter : /\ Unfolds(iter, Seq(Vocab), op, << >>, s)
                        /\ FoldLeft(FastAccept, << >>, s) = iter[DOMAIN s]
<1> DEFINE S == Seq(Vocab)
           Solves(h) == h = [D \in SUBSET DOMAIN s |->
                               IF D = {} THEN << >>
                               ELSE FastAccept(h[D \ {Max(D)}], s[Max(D)])]
           iter == CHOOSE h : Solves(h)
<1>1. Len(s) \in Nat /\ DOMAIN s = 1..Len(s) /\ \A i \in 1..Len(s) : s[i] \in Vocab
  BY LenProperties, ElementOfSeq
<1>2. op \in [S \X Vocab -> S] /\ \A x \in S, y \in Vocab : op[<<x, y>>] = FastAccept(x, y)
  BY FastAcceptType
<1>3. << >> \in S
  OBVIOUS
<1> HIDE DEF S
<1>4. \A D \in SUBSET DOMAIN s : D # {} => s[Max(D)] \in Vocab
  BY <1>1, MaxIn
<1>5. PICK h \in [SUBSET DOMAIN s -> S] : SolvesFold(h, op, << >>, s)
  BY <1>2, <1>3, FoldSolution, Zenon
<1>6. Solves(h)
  <2>1. ASSUME NEW D \in SUBSET DOMAIN s, D # {}
        PROVE  op[<<h[D \ {Max(D)}], s[Max(D)]>>] = FastAccept(h[D \ {Max(D)}], s[Max(D)])
    BY <1>2, <1>4, <1>5, <2>1
  <2> QED BY <1>5, <2>1 DEF SolvesFold
<1>7. Solves(iter)
  BY <1>6
<1>8. FoldLeft(FastAccept, << >>, s) = iter[DOMAIN s]
  BY Zenon DEF FoldLeft, MapThenFoldSet
<1> HIDE DEF iter
<1>9. Unfolds(iter, S, op, << >>, s)
  BY <1>2, <1>4, <1>7 DEF Unfolds
<1>10. Foldable(S, Vocab, op, << >>, s)
  BY <1>2, <1>3 DEF Foldable
<1> QED BY <1>8, <1>9, <1>10 DEF S

LEMMA FastAppend ==
    ASSUME NEW s \in Seq(Vocab), NEW c \in Vocab
    PROVE  /\ FoldLeft(FastAccept, << >>, s) \in Seq(Vocab)
           /\ FoldLeft(FastAccept, << >>, Append(s, c)) = FastAccept(FoldLeft(FastAccept, << >>, s), c)
<1> DEFINE f == [p \in Seq(Vocab) \X Vocab |-> FastAccept(p[1], p[2])]
<1>1. PICK op : op = f
  OBVIOUS
<1>2. Append(s, c) \in Seq(Vocab)
  BY AppendProperties
<1>3. /\ Foldable(Seq(Vocab), Vocab, op, << >>, s)
      /\ \E iter : /\ Unfolds(iter, Seq(Vocab), op, << >>, s)
                   /\ FoldLeft(FastAccept, << >>, s) = iter[DOMAIN s]
  BY <1>1, FastUnfolds
<1>4. \E iter : /\ Unfolds(iter, Seq(Vocab), op, << >>, Append(s, c))
                /\ FoldLeft(FastAccept, << >>, Append(s, c)) = iter[DOMAIN Append(s, c)]
  BY <1>1, <1>2, FastUnfolds
<1>5. /\ FoldLeft(FastAccept, << >>, s) \in Seq(Vocab)
      /\ FoldLeft(FastAccept, << >>, Append(s, c)) = op[<<FoldLeft(FastAccept, << >>, s), c>>]
  BY <1>3, <1>4, FoldAppend
<1> QED BY <1>1, <1>5

LEMMA ChainUnfolds ==
    ASSUME NEW s \in Seq(Vocab), NEW op,
           op = [p \in Seq(Vocab) \X Vocab |-> ChainWith(p[1], p[2])]
    PROVE  /\ Foldable(Seq(Vocab), Vocab, op, << >>, s)
           /\ \E iter : /\ Unfolds(iter, Seq(Vocab), op, << >>, s)
                        /\ ChainRestored(s) = iter[DOMAIN s]
<1> DEFINE S == Seq(Vocab)
           Solves(h) == h = [D \in SUBSET DOMAIN s |->
                               IF D = {} THEN << >>
                               ELSE ChainWith(h[D \ {Max(D)}], s[Max(D)])]
           iter == CHOOSE h : Solves(h)
<1>1. Len(s) \in Nat /\ DOMAIN s = 1..Len(s) /\ \A i \in 1..Len(s) : s[i] \in Vocab
  BY LenProperties, ElementOfSeq
<1>2. op \in [S \X Vocab -> S] /\ \A x \in S, y \in Vocab : op[<<x, y>>] = ChainWith(x, y)
  BY ChainWithType
<1>3. << >> \in S
  OBVIOUS
<1> HIDE DEF S
<1>4. \A D \in SUBSET DOMAIN s : D # {} => s[Max(D)] \in Vocab
  BY <1>1, MaxIn
<1>5. PICK h \in [SUBSET DOMAIN s -> S] : SolvesFold(h, op, << >>, s)
  BY <1>2, <1>3, FoldSolution, Zenon
<1>6. Solves(h)
  <2>1. ASSUME NEW D \in SUBSET DOMAIN s, D # {}
        PROVE  op[<<h[D \ {Max(D)}], s[Max(D)]>>] = ChainWith(h[D \ {Max(D)}], s[Max(D)])
    BY <1>2, <1>4, <1>5, <2>1
  <2> QED BY <1>5, <2>1 DEF SolvesFold
<1>7. Solves(iter)
  BY <1>6
<1>8. ChainRestored(s) = iter[DOMAIN s]
  BY Zenon DEF ChainRestored, FoldLeft, MapThenFoldSet
<1> HIDE DEF iter
<1>9. Unfolds(iter, S, op, << >>, s)
  BY <1>2, <1>4, <1>7 DEF Unfolds
<1>10. Foldable(S, Vocab, op, << >>, s)
  BY <1>2, <1>3 DEF Foldable
<1> QED BY <1>8, <1>9, <1>10 DEF S

LEMMA ChainAppend ==
    ASSUME NEW s \in Seq(Vocab), NEW c \in Vocab
    PROVE  /\ ChainRestored(s) \in Seq(Vocab)
           /\ ChainRestored(Append(s, c)) = ChainWith(ChainRestored(s), c)
<1> DEFINE f == [p \in Seq(Vocab) \X Vocab |-> ChainWith(p[1], p[2])]
<1>1. PICK op : op = f
  OBVIOUS
<1>2. Append(s, c) \in Seq(Vocab)
  BY AppendProperties
<1>3. /\ Foldable(Seq(Vocab), Vocab, op, << >>, s)
      /\ \E iter : /\ Unfolds(iter, Seq(Vocab), op, << >>, s)
                   /\ ChainRestored(s) = iter[DOMAIN s]
  BY <1>1, ChainUnfolds
<1>4. \E iter : /\ Unfolds(iter, Seq(Vocab), op, << >>, Append(s, c))
                /\ ChainRestored(Append(s, c)) = iter[DOMAIN Append(s, c)]
  BY <1>1, <1>2, ChainUnfolds
<1>5. /\ ChainRestored(s) \in Seq(Vocab)
      /\ ChainRestored(Append(s, c)) = op[<<ChainRestored(s), c>>]
  BY <1>3, <1>4, FoldAppend
<1> QED BY <1>1, <1>5

LEMMA FastEmpty == FoldLeft(FastAccept, << >>, << >>) = << >>
<1> DEFINE f == [p \in Seq(Vocab) \X Vocab |-> FastAccept(p[1], p[2])]
<1>1. PICK op : op = f
  OBVIOUS
<1>2. PICK e \in Seq(Vocab) : e = << >> /\ Len(e) = 0
  BY EmptySeq
<1>3. DOMAIN e = 1..0 /\ 1..0 = {}
  BY <1>2, LenProperties
<1>4. PICK iter : /\ Unfolds(iter, Seq(Vocab), op, << >>, e)
                  /\ FoldLeft(FastAccept, << >>, e) = iter[DOMAIN e]
  BY <1>1, <1>2, FastUnfolds
<1> QED BY <1>2, <1>3, <1>4 DEF Unfolds

LEMMA ChainEmpty == ChainRestored(<< >>) = << >>
<1> DEFINE f == [p \in Seq(Vocab) \X Vocab |-> ChainWith(p[1], p[2])]
<1>1. PICK op : op = f
  OBVIOUS
<1>2. PICK e \in Seq(Vocab) : e = << >> /\ Len(e) = 0
  BY EmptySeq
<1>3. DOMAIN e = 1..0 /\ 1..0 = {}
  BY <1>2, LenProperties
<1>4. PICK iter : /\ Unfolds(iter, Seq(Vocab), op, << >>, e)
                  /\ ChainRestored(e) = iter[DOMAIN e]
  BY <1>1, <1>2, ChainUnfolds
<1> QED BY <1>2, <1>3, <1>4 DEF Unfolds

(* What a new sampler is told on a resume. *)
LEMMA Restored ==
    ASSUME NEW s \in Seq(Vocab)
    PROVE  /\ FoldLeft(FastAccept, << >>, s) = LastTokens(s)
           /\ ChainRestored(s) = IF ChainPenalises THEN LastTokens(s) ELSE << >>
<1> DEFINE Right(q) ==
              /\ FoldLeft(FastAccept, << >>, q) = LastTokens(q)
              /\ ChainRestored(q) = IF ChainPenalises THEN LastTokens(q) ELSE << >>
           S == {q \in Seq(Vocab) : Right(q)}
<1>1. LAST_N \in Nat \ {0}
  BY OutputAssumption
<1>2. Right(<< >>)
  <2>1. LastTokens(<< >>) = << >>
    BY <1>1, EmptySeq DEF LastTokens
  <2>2. FoldLeft(FastAccept, << >>, << >>) = << >>
    BY FastEmpty
  <2>3. ChainRestored(<< >>) = << >>
    BY ChainEmpty
  <2> QED BY <2>1, <2>2, <2>3
<1>3. ASSUME NEW q \in Seq(Vocab), Right(q), NEW c \in Vocab
      PROVE  Right(Append(q, c))
  <2>1. FoldLeft(FastAccept, << >>, Append(q, c)) = FastAccept(LastTokens(q), c)
    BY <1>3, FastAppend
  <2>2. ChainRestored(Append(q, c))
        = ChainWith(IF ChainPenalises THEN LastTokens(q) ELSE << >>, c)
    BY <1>3, ChainAppend
  <2>3. With(LastTokens(q), c) = LastTokens(Append(q, c))
    BY WithLast
  <2> QED BY <2>1, <2>2, <2>3 DEF FastAccept, ChainWith
<1> HIDE DEF Right
<1>4. Seq(Vocab) \subseteq S
  <2>1. << >> \in S
    BY <1>2, EmptySeq
  <2>2. \A q \in Seq(Vocab), c \in Vocab : q \in S => Append(q, c) \in S
    BY <1>3, AppendProperties
  <2> HIDE DEF S
  <2> QED BY <2>1, <2>2, ByAppend
<1>5. Right(s)
  BY <1>4
<1> QED BY <1>5 DEF Right

-----------------------------------------------------------------------------
(***************************************************************************)
(* Some token is the best of any logits, and a token.                      *)
(***************************************************************************)
Best(l, n, t) == \A u \in 0..n : l[u] < l[t] \/ (l[u] = l[t] /\ t <= u)

LEMMA ArgMaxExists ==
    ASSUME NEW l \in [Vocab -> Int]
    PROVE  ArgMax(l) \in Vocab
<1> DEFINE Good(n) == \E t \in 0..n : Best(l, n, t)
           Bad == {n \in Nat : n < NumTokens /\ ~ Good(n)}
<1>1. NumTokens \in Nat \ {0}
  BY OutputAssumption DEF Vocab
<1>2. Good(0)
  <2>1. 0 \in 0..0 /\ \A u \in 0..0 : u = 0
    OBVIOUS
  <2> QED BY <2>1, <1>1 DEF Best, Vocab
<1>3. ASSUME NEW n \in Nat, n + 1 < NumTokens, Good(n) PROVE Good(n + 1)
  <2>1. PICK t \in 0..n : Best(l, n, t)
    BY <1>3
  <2>2. \A u \in 0..(n + 1) : u \in Vocab /\ l[u] \in Int /\ (u \in 0..n \/ u = n + 1)
    BY <1>1, <1>3 DEF Vocab
  <2>3. t \in 0..(n + 1) /\ n + 1 \in 0..(n + 1) /\ t <= n + 1
    OBVIOUS
  <2>4. CASE l[n + 1] <= l[t]
    <3>1. Best(l, n + 1, t)
      BY <2>1, <2>2, <2>3, <2>4 DEF Best
    <3> QED BY <2>3, <3>1
  <2>5. CASE ~ (l[n + 1] <= l[t])
    <3>1. Best(l, n + 1, n + 1)
      <4> SUFFICES ASSUME NEW u \in 0..(n + 1)
                   PROVE  l[u] < l[n + 1] \/ (l[u] = l[n + 1] /\ n + 1 <= u)
        BY DEF Best
      <4>1. CASE u = n + 1
        BY <4>1
      <4>2. CASE u \in 0..n
        BY <4>2, <2>1, <2>2, <2>3, <2>5 DEF Best
      <4> QED BY <4>1, <4>2, <2>2
    <3> QED BY <2>3, <3>1
  <2> QED BY <2>4, <2>5
<1> HIDE DEF Good
<1>4. Bad = {}
  <2> SUFFICES ASSUME Bad # {} PROVE FALSE
    OBVIOUS
  <2>1. PICK n \in Bad : \A m \in Bad : n <= m
    BY LeastNatural
  <2>2. n # 0
    BY <2>1, <1>2
  <2>3. n - 1 \in Nat /\ n - 1 < NumTokens /\ n - 1 \notin Bad /\ (n - 1) + 1 = n
    BY <2>1, <2>2, <1>1
  <2>4. Good(n - 1)
    BY <2>3
  <2> QED BY <2>1, <2>3, <2>4, <1>3
<1>5. Good(NumTokens - 1)
  <2>1. NumTokens - 1 \in Nat /\ NumTokens - 1 < NumTokens
    BY <1>1
  <2> QED BY <2>1, <1>4
<1>6. \E t \in Vocab : \A u \in Vocab : l[u] < l[t] \/ (l[u] = l[t] /\ t <= u)
  BY <1>5 DEF Good, Best, Vocab
<1> QED BY <1>6 DEF ArgMax

LEMMA PenalisedType ==
    ASSUME NEW l \in [Vocab -> Int], NEW D, repeat_penalty \in 0..2
    PROVE  /\ Penalised(l, D) \in [Vocab -> Int]
           /\ ~ ChainPenalises => Penalised(l, D) = l
<1>1. Penalty \in {1, 2} /\ (~ ChainPenalises => Penalty = 1)
  BY DEF Penalty, ChainPenalises
<1>2. \A t \in Vocab : l[t] \in Int /\ l[t] \div Penalty \in Int /\ l[t] * Penalty \in Int
  BY <1>1
<1>3. Penalised(l, D) \in [Vocab -> Int]
  BY <1>2 DEF Penalised
<1>4. ASSUME ~ ChainPenalises PROVE Penalised(l, D) = l
  <2>1. \A t \in Vocab : l[t] \div Penalty = l[t] /\ l[t] * Penalty = l[t]
    BY <1>1, <1>4
  <2>2. \A t \in Vocab : Penalised(l, D)[t] = l[t]
    BY <2>1 DEF Penalised
  <2> QED BY <1>3, <2>2
<1> QED BY <1>3, <1>4

-----------------------------------------------------------------------------
(***************************************************************************)
(* The samplers.  Between two tokens each history is that of the output;   *)
(* the chain's is ahead of it by the token it has picked.                  *)
(***************************************************************************)
History(tokens) == IF ChainPenalises THEN LastTokens(tokens) ELSE << >>

Typed ==
    /\ repeat_penalty \in 0..2
    /\ phase \in {"decode", "fast", "chain", "emit"}
    /\ phase # "decode" => reason = RUNNING
    /\ logits \in [Vocab -> Int]
    /\ picked \in [fast : Vocab, chain : Vocab]
    /\ output \in Seq(Vocab)
    /\ text \in Seq(Chars) /\ streamed \in Seq(Chars)

HistoriesOK ==
    /\ recent = LastTokens(output)
    /\ phase # "emit" /\ reason = RUNNING => ring = History(output)
    /\ phase = "emit" => ring = ChainWith(History(output), picked.chain)

PicksOK ==
    /\ phase = "chain" => picked.fast = ArgMax(Penalised(logits, Range(recent)))
    /\ phase = "emit" => picked.fast = picked.chain

IInv == Typed /\ HistoriesOK /\ PicksOK

LEMMA BytesType ==
    ASSUME NEW t \in Vocab
    PROVE  Bytes[t] \in Seq(Chars)
<1>1. Bytes[t] \in Seq(Range(Bytes[t])) /\ Range(Bytes[t]) \subseteq Chars
  BY OutputAssumption DEF Chars
<1> QED BY <1>1, SeqMonotonic

LEMMA DecodedType ==
    ASSUME NEW s \in Seq(Chars)
    PROVE  /\ Raw(s) \in Seq(Chars) /\ Decoded(s) \in Seq(Chars)
           /\ Len(Decoded(s)) = Len(Raw(s))
           /\ \A i \in 1..Len(Raw(s)) :
                 Decoded(s)[i] = IF Raw(s)[i] \in {LEAD, TRAIL} THEN REPLACED ELSE Raw(s)[i]
<1>1. LEAD \in Chars /\ REPLACED \in Chars
  BY DEF Chars
<1>2. PICK r : r = Raw(s)
  OBVIOUS
<1>3. r \in Seq(Chars)
  BY <1>1, <1>2, RawAppend
<1>4. Len(r) \in Nat /\ DOMAIN r = 1..Len(r) /\ \A i \in 1..Len(r) : r[i] \in Chars
  BY <1>3, LenProperties, ElementOfSeq
<1>5. Decoded(s) = [i \in 1..Len(r) |-> IF r[i] \in {LEAD, TRAIL} THEN REPLACED ELSE r[i]]
  BY <1>2, <1>4 DEF Decoded, Raw
<1>6. PICK d : d = Decoded(s)
  OBVIOUS
<1>7. d \in Seq(Chars)
  <2>1. d \in [1..Len(r) -> Chars]
    BY <1>1, <1>4, <1>5, <1>6
  <2> QED BY <2>1, <1>4
<1>8. Len(d) = Len(r)
  <2>1. DOMAIN d = 1..Len(r)
    BY <1>5, <1>6
  <2>2. DOMAIN d = 1..Len(d) /\ Len(d) \in Nat
    BY <1>7, LenProperties
  <2> QED BY <2>1, <2>2, <1>4
<1>9. \A i \in 1..Len(r) : d[i] = IF r[i] \in {LEAD, TRAIL} THEN REPLACED ELSE r[i]
  BY <1>5, <1>6
<1> QED BY <1>2, <1>3, <1>6, <1>7, <1>8, <1>9

LEMMA PieceType ==
    ASSUME NEW t \in Vocab
    PROVE  Piece(t) \in Seq(Chars)
BY BytesType, DecodedType DEF Piece

LEMMA InitTyped == Init => IInv
<1> SUFFICES ASSUME Init PROVE IInv
  OBVIOUS
<1>1. Eog \in Vocab /\ LAST_N \in Nat \ {0} /\ Penalties \subseteq 0..2
  BY OutputAssumption
<1>2. Typed
  <2>1. logits \in [Vocab -> Int]
    BY DEF Init
  <2>2. output \in Seq(Vocab) /\ text \in Seq(Chars) /\ streamed \in Seq(Chars)
    BY EmptySeq DEF Init
  <2>3. picked \in [fast : Vocab, chain : Vocab]
    BY <1>1 DEF Init
  <2> QED BY <1>1, <2>1, <2>2, <2>3 DEF Init, Typed
<1>3. LastTokens(<< >>) = << >>
  BY <1>1, EmptySeq DEF LastTokens
<1>4. HistoriesOK /\ PicksOK
  BY <1>3 DEF Init, HistoriesOK, PicksOK, History
<1> QED BY <1>2, <1>4 DEF IInv

LEMMA DecodeStep ==
    ASSUME IInv, Decode
    PROVE  IInv'
<1> USE DEF IInv, Decode, requestVars, params
<1>1. Typed'
  <2>1. Scores \subseteq Int
    BY OutputAssumption
  <2>2. logits' \in [Vocab -> Int]
    BY <2>1
  <2> QED BY <2>2 DEF Typed
<1>2. History(output)' = History(output)
  BY DEF History, ChainPenalises
<1>3. HistoriesOK' /\ PicksOK'
  BY <1>2 DEF HistoriesOK, PicksOK
<1> QED BY <1>1, <1>3

LEMMA FastStep ==
    ASSUME IInv, FastSample
    PROVE  IInv'
<1> USE DEF IInv, FastSample, requestVars, params
<1> DEFINE best == ArgMax(Penalised(logits, Range(recent)))
<1>1. Penalised(logits, Range(recent)) \in [Vocab -> Int]
  BY PenalisedType DEF Typed
<1>2. best \in Vocab
  BY <1>1, ArgMaxExists
<1>3. /\ picked' = [picked EXCEPT !.fast = best] /\ logits' = logits
      /\ recent' = recent /\ repeat_penalty' = repeat_penalty
  BY DEF BufferAfter
<1>4. Penalised(logits, Range(recent))' = Penalised(logits, Range(recent))
  BY <1>3 DEF Penalised, Penalty
<1>5. ArgMax(Penalised(logits, Range(recent)))' = best
  BY <1>4 DEF ArgMax
<1> HIDE DEF best
<1>6. picked' \in [fast : Vocab, chain : Vocab] /\ picked'.fast = best
  BY <1>2, <1>3 DEF Typed
<1>7. Typed'
  BY <1>3, <1>6 DEF Typed
<1>8. History(output)' = History(output)
  BY DEF History, ChainPenalises
<1>9. HistoriesOK' /\ PicksOK'
  BY <1>5, <1>6, <1>8 DEF HistoriesOK, PicksOK, Typed
<1> QED BY <1>7, <1>9

LEMMA ChainStep ==
    ASSUME IInv, ChainSample
    PROVE  IInv'
<1> USE DEF IInv, ChainSample, requestVars, params
<1> DEFINE best == ArgMax(Penalised(logits, Range(ring)))
<1>1. Penalised(logits, Range(ring)) \in [Vocab -> Int]
  BY PenalisedType DEF Typed
<1>2. best \in Vocab
  BY <1>1, ArgMaxExists
<1>3. Penalised(logits, Range(ring)) = Penalised(logits, Range(recent))
  <2>1. CASE ChainPenalises
    BY <2>1 DEF HistoriesOK, History, Typed
  <2>2. CASE ~ ChainPenalises
    BY <2>2, PenalisedType DEF Typed
  <2> QED BY <2>1, <2>2
<1>4. best = picked.fast
  BY <1>3 DEF PicksOK
<1>5. picked' = [picked EXCEPT !.chain = best] /\ ring' = ChainWith(ring, best)
  OBVIOUS
<1> HIDE DEF best
<1>6. /\ picked' \in [fast : Vocab, chain : Vocab]
      /\ picked'.fast = picked.fast /\ picked'.chain = best
  BY <1>2, <1>5 DEF Typed
<1>7. Typed'
  BY <1>6 DEF Typed
<1>8. /\ History(output)' = History(output)
      /\ ChainWith(History(output), picked.chain)' = ChainWith(History(output), best)
  BY <1>6 DEF History, ChainWith, ChainPenalises
<1>9. HistoriesOK' /\ PicksOK'
  BY <1>4, <1>5, <1>6, <1>8 DEF HistoriesOK, PicksOK, Typed
<1> QED BY <1>7, <1>9

LEMMA ResumeStep ==
    ASSUME IInv, Resume
    PROVE  IInv'
<1> USE DEF IInv, Resume, requestVars, params
<1>1. PICK o \in Seq(Vocab) : o = output
  BY DEF Typed
<1>2. FoldLeft(FastAccept, << >>, o) = LastTokens(o) /\ ChainRestored(o) = History(o)
  BY Restored DEF History
<1>3. recent' = LastTokens(output) /\ ring' = History(output)
  BY <1>1, <1>2
<1>4. History(output)' = History(output)
  BY DEF History, ChainPenalises
<1>5. Typed'
  BY DEF Typed
<1>6. HistoriesOK' /\ PicksOK'
  BY <1>3, <1>4 DEF HistoriesOK, PicksOK
<1> QED BY <1>5, <1>6

-----------------------------------------------------------------------------
(***************************************************************************)
(* Stop strings.                                                           *)
(***************************************************************************)
LEMMA MinOf ==
    ASSUME NEW S \in SUBSET Nat, S # {}
    PROVE  Min(S) \in S /\ \A m \in S : Min(S) <= m
<1>1. PICK n \in S : \A m \in S : n <= m
  BY LeastNatural
<1> QED BY <1>1 DEF Min

LEMMA FindFacts ==
    ASSUME NEW s \in Seq(Chars), NEW i \in DOMAIN Stop
    PROVE  /\ Find(s, Stop[i]) \in Nat /\ Len(Stop[i]) \in Nat
           /\ Find(s, Stop[i]) > 0 => Find(s, Stop[i]) + Len(Stop[i]) <= Len(s) + 1
           /\ Len(Stop[i]) = 0 => Stop[i] = << >>
<1>1. PICK sub : sub = Stop[i]
  OBVIOUS
<1>2. sub \in Seq(Range(sub))
  <2>1. sub \in Range(Stop)
    BY <1>1 DEF Range
  <2> QED BY <2>1, OutputAssumption
<1>3. /\ Len(s) \in Nat /\ Len(sub) \in Nat /\ (Len(sub) = 0 => sub = << >>)
  BY <1>2, LenProperties, EmptySeq
<1> DEFINE at == {j \in 1..(Len(s) - Len(sub) + 1) : SubSeq(s, j, j + Len(sub) - 1) = sub}
<1>4. Find(s, sub) = IF at = {} THEN 0 ELSE Min(at)
  BY DEF Find
<1>5. at \in SUBSET Nat /\ \A j \in at : j > 0 /\ j + Len(sub) <= Len(s) + 1
  BY <1>3
<1> HIDE DEF at
<1>6. at # {} => Min(at) \in at
  BY <1>5, MinOf
<1>7. /\ Find(s, sub) \in Nat
      /\ Find(s, sub) > 0 => Find(s, sub) + Len(sub) <= Len(s) + 1
  <2>1. CASE at = {}
    BY <2>1, <1>4
  <2>2. CASE at # {}
    <3>1. PICK m \in at : m = Min(at)
      BY <2>2, <1>6
    <3>2. Find(s, sub) = m /\ m \in Nat /\ m + Len(sub) <= Len(s) + 1
      BY <2>2, <3>1, <1>4, <1>5
    <3> QED BY <3>2
  <2> QED BY <2>1, <2>2
<1> QED BY <1>1, <1>3, <1>7

LEMMA FoundFacts ==
    ASSUME NEW s \in Seq(Chars), Stops(s) # {}
    PROVE  \E i \in DOMAIN Stop :
              /\ Found(s) = Stop[i] /\ Find(s, Stop[i]) > 0
              /\ \A j \in 1..(i - 1) : Find(s, Stop[j]) = 0
<1>1. DOMAIN Stop = 1..Len(Stop) /\ Len(Stop) \in Nat
  BY OutputAssumption, LenProperties
<1>2. Stops(s) \in SUBSET Nat
  BY <1>1 DEF Stops
<1>3. PICK i \in Stops(s) : i = Min(Stops(s)) /\ \A j \in Stops(s) : i <= j
  BY <1>2, MinOf
<1>4. i \in DOMAIN Stop /\ Found(s) = Stop[i] /\ Find(s, Stop[i]) > 0
  BY <1>3 DEF Stops, Found
<1>5. ASSUME NEW j \in 1..(i - 1) PROVE Find(s, Stop[j]) = 0
  <2>1. j \in DOMAIN Stop /\ ~ (i <= j)
    BY <1>1, <1>4
  <2>2. ~ (Find(s, Stop[j]) > 0)
    BY <2>1, <1>3 DEF Stops
  <2>3. PICK k \in Nat : k = Find(s, Stop[j])
    BY <2>1, FindFacts
  <2> QED BY <2>2, <2>3
<1> QED BY <1>4, <1>5

(* The text where it is cut, and what is before the cut. *)
LEMMA TruncatedFacts ==
    ASSUME NEW s \in Seq(Chars), Stops(s) # {}
    PROVE  /\ Truncated(s) \in Seq(Chars)
           /\ IsPrefix(Truncated(s), s)
           /\ \E i \in DOMAIN Stop :
                 /\ Find(s, Stop[i]) = Len(Truncated(s)) + 1
                 /\ \A j \in 1..(i - 1) : Find(s, Stop[j]) = 0
<1>1. PICK i \in DOMAIN Stop :
         /\ Found(s) = Stop[i] /\ Find(s, Stop[i]) > 0
         /\ \A j \in 1..(i - 1) : Find(s, Stop[j]) = 0
  BY FoundFacts
<1>2. PICK n : n = Find(s, Stop[i]) - 1
  OBVIOUS
<1>3. /\ n \in Nat /\ n <= Len(s) /\ Len(s) \in Nat
      /\ Find(s, Stop[i]) = n + 1
  <2>1. /\ Find(s, Stop[i]) \in Nat /\ Len(Stop[i]) \in Nat
        /\ Find(s, Stop[i]) + Len(Stop[i]) <= Len(s) + 1
    BY <1>1, FindFacts
  <2> QED BY <2>1, <1>1, <1>2, LenProperties
<1>4. PICK t : t = SubSeq(s, 1, n)
  OBVIOUS
<1>5. Truncated(s) = t
  BY <1>1, <1>2, <1>4 DEF Truncated
<1>6. t \in Seq(Chars) /\ Len(t) = n
  <2>1. \A j \in 1..n : s[j] \in Chars
    BY <1>3, ElementOfSeq
  <2>2. /\ SubSeq(s, 1, n) \in Seq(Chars)
        /\ Len(SubSeq(s, 1, n)) = IF 1 <= n THEN n - 1 + 1 ELSE 0
    BY <2>1, <1>3, SubSeqProperties
  <2> QED BY <2>2, <1>3, <1>4
<1>7. IsPrefix(t, s)
  <2>1. SubSeq(t, 1, Len(t)) = t
    BY <1>6, SubSeqFull
  <2> QED BY <2>1, <1>3, <1>4, <1>6 DEF IsPrefix
<1> QED BY <1>1, <1>3, <1>5, <1>6, <1>7

LEMMA EmitStep ==
    ASSUME IInv, Emit
    PROVE  IInv'
<1> DEFINE full == text \o Piece(picked.chain)
<1>1. PICK tok \in Vocab : tok = picked.chain
  BY DEF IInv, Typed
<1>2. PICK piece \in Seq(Chars) : piece = Piece(tok)
  BY PieceType
<1>3. /\ text \in Seq(Chars) /\ streamed \in Seq(Chars) /\ output \in Seq(Vocab)
      /\ phase = "emit" /\ reason = RUNNING /\ phase' = "decode"
      /\ UNCHANGED <<repeat_penalty, logits, picked>>
  BY DEF IInv, Typed, Emit, params
<1>4. PICK f \in Seq(Chars) : f = text \o piece
  BY <1>3, ConcatProperties
<1>5. /\ recent = LastTokens(output)
      /\ ring = ChainWith(History(output), tok)
  BY <1>1, <1>3 DEF IInv, HistoriesOK
<1>6. PicksOK'
  BY <1>3 DEF PicksOK
<1>7. \A o : History(o)' = IF ChainPenalises THEN LastTokens(o') ELSE << >>
  BY <1>3 DEF History, ChainPenalises
<1>8. CASE IsStopToken(tok)
  <2>1. UNCHANGED <<recent, output, text, streamed>> /\ reason' = "eos"
    BY <1>1, <1>8 DEF Emit
  <2>2. Typed'
    BY <2>1, <1>3 DEF IInv, Typed
  <2>3. HistoriesOK'
    BY <2>1, <1>3, <1>5 DEF HistoriesOK, RUNNING
  <2> QED BY <2>2, <2>3, <1>6 DEF IInv
<1>9. CASE ~ IsStopToken(tok)
  <2>1. /\ recent' = With(recent, tok) /\ ring' = ring
        /\ output' = Append(output, tok)
        /\ streamed' = streamed \o piece
        /\ text' = IF Stops(f) # {} THEN Truncated(f) ELSE f
    BY <1>1, <1>2, <1>4, <1>9 DEF Emit, FastAccept, ChainAccept
  <2>2. output' \in Seq(Vocab)
    BY <2>1, <1>3, AppendProperties
  <2>3. streamed' \in Seq(Chars)
    BY <2>1, <1>3, ConcatProperties
  <2>4. text' \in Seq(Chars)
    BY <2>1, TruncatedFacts
  <2>5. Typed'
    BY <2>2, <2>3, <2>4, <1>3 DEF IInv, Typed
  <2>6. PICK o \in Seq(Vocab) : o = output
    BY <1>3
  <2>7. With(LastTokens(o), tok) = LastTokens(Append(o, tok))
    BY WithLast
  <2>8. recent' = LastTokens(output')
    BY <2>1, <2>6, <2>7, <1>5
  <2>9. ring' = IF ChainPenalises THEN LastTokens(output') ELSE << >>
    BY <2>1, <2>6, <2>7, <1>5 DEF ChainWith, History
  <2>10. HistoriesOK'
    BY <2>8, <2>9, <1>3, <1>7 DEF HistoriesOK
  <2> QED BY <2>5, <2>10, <1>6 DEF IInv
<1> QED BY <1>8, <1>9

(***************************************************************************)
(* For every vocabulary, penalty and length of the history: both samplers  *)
(* are told of the same tokens, also on a resume, and pick the same token. *)
(***************************************************************************)
THEOREM Invariance == Spec => []IInv
<1>1. IInv /\ [Next]_vars => IInv'
  <2> SUFFICES ASSUME IInv, [Next]_vars PROVE IInv'
    OBVIOUS
  <2>1. CASE UNCHANGED vars
    BY <2>1 DEF vars, params, samplerVars, requestVars, IInv, Typed, HistoriesOK,
                PicksOK, History, ChainWith, ChainPenalises, Penalised, Penalty, ArgMax
  <2>2. CASE Next
    BY <2>2, DecodeStep, FastStep, ChainStep, EmitStep, ResumeStep DEF Next
  <2> QED BY <2>1, <2>2
<1> QED BY <1>1, InitTyped, PTL DEF Spec

(***************************************************************************)
(* The fast path of sampling is no approximation of the chain: before each *)
(* token the histories agree, and after each the tokens, pauses included.  *)
(***************************************************************************)
THEOREM OneSampler == Spec => []SamplersAgree
<1>1. IInv => SamplersAgree
  BY DEF IInv, Typed, HistoriesOK, PicksOK, History, SamplersAgree
<1> QED BY <1>1, Invariance, PTL

-----------------------------------------------------------------------------
(***************************************************************************)
(* The text and the stream.                                                *)
(***************************************************************************)
NoStopIsEmpty == \A i \in DOMAIN Stop : Stop[i] # << >>

LEMMA NothingToStop ==
    ASSUME NoStopIsEmpty
    PROVE  Stops(<< >>) = {}
<1>1. PICK e \in Seq(Chars) : e = << >> /\ Len(e) = 0
  BY EmptySeq
<1>2. ASSUME NEW i \in DOMAIN Stop PROVE ~ (Find(e, Stop[i]) > 0)
  <2>1. Len(Stop[i]) \in Nat /\ Len(Stop[i]) # 0
    BY FindFacts, <1>1 DEF NoStopIsEmpty
  <2>2. PICK k \in Nat : k = Find(e, Stop[i])
    BY FindFacts
  <2>3. k > 0 => k + Len(Stop[i]) <= Len(e) + 1
    BY <2>2, FindFacts
  <2> QED BY <2>1, <2>2, <2>3, <1>1
<1> QED BY <1>1, <1>2 DEF Stops

LEMMA TextStep ==
    ASSUME IInv, TextMatchesStream, Next
    PROVE  TextMatchesStream'
<1>1. CASE Decode \/ FastSample \/ ChainSample \/ Resume
  <2>1. UNCHANGED requestVars
    BY <1>1 DEF Decode, FastSample, ChainSample, Resume
  <2> QED BY <2>1 DEF requestVars, TextMatchesStream
<1>2. CASE Emit
  <2>1. PICK tok \in Vocab : tok = picked.chain
    BY DEF IInv, Typed
  <2>2. PICK piece \in Seq(Chars) : piece = Piece(tok)
    BY PieceType
  <2>3. PICK x \in Seq(Chars) : x = text
    BY DEF IInv, Typed
  <2>4. x = streamed /\ Stops(x) = {} /\ output \in Seq(Vocab)
    BY <1>2, <2>3 DEF Emit, IInv, Typed, TextMatchesStream, RUNNING
  <2>5. PICK f \in Seq(Chars) : f = x \o piece
    BY ConcatProperties
  <2>6. CASE IsStopToken(tok)
    <3>1. UNCHANGED <<output, text, streamed>> /\ reason' = "eos"
      BY <1>2, <2>1, <2>6 DEF Emit
    <3> QED BY <3>1, <2>3, <2>4 DEF TextMatchesStream
  <2>7. CASE ~ IsStopToken(tok)
    <3>1. /\ output' = Append(output, tok)
          /\ streamed' = f
          /\ text' = IF Stops(f) # {} THEN Truncated(f) ELSE f
          /\ Stops(f) # {} => reason' = "stop"
          /\ Stops(f) = {} => reason' # "stop"
      BY <1>2, <2>1, <2>2, <2>3, <2>4, <2>5, <2>7 DEF Emit, RUNNING
    <3>2. CASE Stops(f) = {}
      BY <3>1, <3>2 DEF TextMatchesStream
    <3>3. CASE Stops(f) # {}
      <4>1. /\ \E i \in DOMAIN Stop :
                  /\ Find(f, Stop[i]) = Len(Truncated(f)) + 1
                  /\ \A j \in 1..(i - 1) : Find(f, Stop[j]) = 0
            /\ IsPrefix(Truncated(f), f)
        BY <3>3, TruncatedFacts
      <4>2. Last(output') = tok
        BY <3>1, <2>4, AppendProperties DEF Last
      <4>3. SubSeq(f, 1, Len(f) - Len(piece)) = x
        BY <2>5, PrefixOfConcat
      <4>4. Stops(SubSeq(streamed', 1, Len(streamed') - Len(Piece(Last(output'))))) = {}
        BY <3>1, <4>2, <4>3, <2>2, <2>4
      <4> QED BY <3>1, <3>3, <4>1, <4>4 DEF TextMatchesStream
    <3> QED BY <3>2, <3>3
  <2> QED BY <2>6, <2>7
<1> QED BY <1>1, <1>2 DEF Next

(***************************************************************************)
(* An empty stop string, which the API lets through, is in every text: it  *)
(* ends the request at its first token, whose text was without one before. *)
(***************************************************************************)
THEOREM TextIsTheStream ==
    ASSUME NoStopIsEmpty
    PROVE  Spec => []TextMatchesStream
<1>1. Init => TextMatchesStream
  BY NothingToStop DEF Init, TextMatchesStream, RUNNING
<1>2. IInv /\ TextMatchesStream /\ [Next]_vars => TextMatchesStream'
  <2>1. TextMatchesStream /\ UNCHANGED vars => TextMatchesStream'
    BY DEF vars, requestVars, TextMatchesStream
  <2> QED BY <2>1, TextStep
<1> QED BY <1>1, <1>2, Invariance, PTL DEF Spec

-----------------------------------------------------------------------------
(***************************************************************************)
(* Characters split over two tokens.  Marks is what is left of a character *)
(* or a byte where CHAR is taken for its two bytes: read in any pieces,    *)
(* the bytes have the same marks.                                          *)
(***************************************************************************)
Marks(c) == IF c = CHAR THEN <<REPLACED, REPLACED>>
            ELSE IF c \in {LEAD, TRAIL} THEN <<REPLACED>> ELSE <<c>>

MarksOf(s) == FlattenSeq([i \in DOMAIN s |-> Marks(s[i])])

(* The marks of characters, and the bytes of tokens, in a row. *)
BytesOf(tokens) == FlattenSeq([i \in DOMAIN tokens |-> Bytes[tokens[i]]])

LEMMA MarksType ==
    ASSUME NEW c \in Chars
    PROVE  Marks(c) \in Seq(Chars)
<1>1. REPLACED \in Chars
  BY DEF Chars
<1> QED BY <1>1 DEF Marks

(* A function of the elements, of a sequence with one more. *)
Each(f, s) == [i \in DOMAIN s |-> f[s[i]]]
Maps(f, A, B) == \A a \in A : f[a] \in B

LEMMA EachOfAppend ==
    ASSUME NEW A, NEW B, NEW s \in Seq(A), NEW c \in A,
           NEW f, Maps(f, A, B)
    PROVE  /\ Each(f, s) \in Seq(B)
           /\ Each(f, Append(s, c)) = Append(Each(f, s), f[c])
<1>1. /\ Len(s) \in Nat /\ DOMAIN s = 1..Len(s)
      /\ \A i \in 1..Len(s) : s[i] \in A
  BY LenProperties, ElementOfSeq
<1>2. PICK t : t = Append(s, c)
  OBVIOUS
<1>3. /\ t \in Seq(A) /\ Len(t) = Len(s) + 1
      /\ \A i \in 1..Len(s) : t[i] = s[i]
      /\ t[Len(s) + 1] = c
  BY <1>2, AppendProperties
<1>4. DOMAIN t = 1..(Len(s) + 1) /\ \A i \in 1..(Len(s) + 1) : t[i] \in A
  BY <1>3, LenProperties, ElementOfSeq
<1>5. PICK x : x = [i \in DOMAIN s |-> f[s[i]]]
  OBVIOUS
<1>6. PICK y : y = [i \in DOMAIN t |-> f[t[i]]]
  OBVIOUS
<1>7. x \in Seq(B) /\ DOMAIN x = 1..Len(s)
  <2>1. x \in [1..Len(s) -> B] /\ DOMAIN x = 1..Len(s)
    BY <1>1, <1>5 DEF Maps
  <2> QED BY <2>1, <1>1
<1>8. y \in Seq(B) /\ DOMAIN y = 1..(Len(s) + 1)
  <2>1. y \in [1..(Len(s) + 1) -> B] /\ DOMAIN y = 1..(Len(s) + 1)
    BY <1>4, <1>6 DEF Maps
  <2> QED BY <2>1, <1>1
<1>9. Len(x) = Len(s) /\ Len(y) = Len(s) + 1
  BY <1>1, <1>7, <1>8, LengthOf
<1>10. f[c] \in B
  BY DEF Maps
<1>11. PICK z : z = Append(x, f[c])
  OBVIOUS
<1>12. /\ z \in Seq(B) /\ Len(z) = Len(s) + 1
       /\ \A i \in 1..Len(s) : z[i] = x[i]
       /\ z[Len(s) + 1] = f[c]
  BY <1>7, <1>9, <1>10, <1>11, AppendProperties
<1>13. ASSUME NEW i \in 1..(Len(s) + 1) PROVE y[i] = z[i]
  <2>1. y[i] = f[t[i]]
    BY <1>4, <1>6
  <2>2. CASE i = Len(s) + 1
    BY <2>1, <2>2, <1>3, <1>12
  <2>3. CASE i # Len(s) + 1
    <3>1. i \in 1..Len(s)
      BY <2>3, <1>1
    <3> QED BY <2>1, <3>1, <1>1, <1>3, <1>5, <1>12
  <2> QED BY <2>2, <2>3
<1>14. y = z
  BY <1>8, <1>9, <1>12, <1>13, SeqEqual
<1> QED BY <1>2, <1>5, <1>6, <1>7, <1>11, <1>14 DEF Each

LEMMA MarksAppend ==
    ASSUME NEW s \in Seq(Chars), NEW c \in Chars
    PROVE  /\ MarksOf(s) \in Seq(Chars)
           /\ MarksOf(Append(s, c)) = MarksOf(s) \o Marks(c)
<1>1. PICK f : f = [a \in Chars |-> Marks(a)]
  OBVIOUS
<1>2. \A a \in Chars : f[a] = Marks(a) /\ f[a] \in Seq(Chars)
  BY <1>1, MarksType
<1>3. PICK t : t = Append(s, c)
  OBVIOUS
<1>4. /\ t \in Seq(Chars)
      /\ \A i \in DOMAIN t : t[i] \in Chars
      /\ \A i \in DOMAIN s : s[i] \in Chars
  BY <1>3, AppendProperties, LenProperties, ElementOfSeq
<1>5. PICK x : x = Each(f, s)
  OBVIOUS
<1>6. x = [i \in DOMAIN s |-> Marks(s[i])]
  BY <1>2, <1>4, <1>5 DEF Each
<1>7. Each(f, t) = [i \in DOMAIN t |-> Marks(t[i])]
  BY <1>2, <1>4 DEF Each
<1>8. x \in Seq(Seq(Chars)) /\ Each(f, t) = Append(x, f[c])
  <2>1. Maps(f, Chars, Seq(Chars))
    BY <1>2 DEF Maps
  <2>2. Each(f, Append(s, c)) = Append(Each(f, s), f[c]) /\ Each(f, s) \in Seq(Seq(Chars))
    BY <2>1, EachOfAppend
  <2> QED BY <2>2, <1>3, <1>5, Zenon
<1>9. PICK m \in Seq(Chars) : m = Marks(c) /\ f[c] = m
  BY <1>2
<1>10. FlattenSeq(x) \in Seq(Chars) /\ FlattenSeq(Append(x, m)) = FlattenSeq(x) \o m
  BY <1>8, <1>9, FlattenAppend
<1> QED BY <1>3, <1>6, <1>7, <1>8, <1>9, <1>10 DEF MarksOf

LEMMA BytesAppend ==
    ASSUME NEW s \in Seq(Vocab), NEW c \in Vocab
    PROVE  /\ BytesOf(s) \in Seq(Chars)
           /\ BytesOf(Append(s, c)) = BytesOf(s) \o Bytes[c]
<1>1. \A a \in Vocab : Bytes[a] \in Seq(Chars)
  BY BytesType
<1>2. PICK x : x = Each(Bytes, s)
  OBVIOUS
<1>3. PICK t : t = Append(s, c)
  OBVIOUS
<1>4. x \in Seq(Seq(Chars)) /\ Each(Bytes, t) = Append(x, Bytes[c])
  <2>1. Maps(Bytes, Vocab, Seq(Chars))
    BY <1>1 DEF Maps
  <2>2. /\ Each(Bytes, Append(s, c)) = Append(Each(Bytes, s), Bytes[c])
        /\ Each(Bytes, s) \in Seq(Seq(Chars))
    BY <2>1, EachOfAppend
  <2> QED BY <2>2, <1>2, <1>3, Zenon
<1>5. PICK m \in Seq(Chars) : m = Bytes[c]
  BY <1>1
<1>6. FlattenSeq(x) \in Seq(Chars) /\ FlattenSeq(Append(x, m)) = FlattenSeq(x) \o m
  BY <1>4, <1>5, FlattenAppend
<1> QED BY <1>2, <1>3, <1>4, <1>5, <1>6 DEF BytesOf, Each

LEMMA MarksEmpty == MarksOf(<< >>) = << >>
<1>1. PICK e \in Seq(Chars) : e = << >> /\ Len(e) = 0
  BY EmptySeq
<1>2. PICK x : x = [i \in DOMAIN e |-> Marks(e[i])]
  OBVIOUS
<1>3. DOMAIN e = 1..0
  BY <1>1, LenProperties
<1>4. x \in [1..0 -> Seq(Chars)]
  BY <1>2, <1>3
<1>5. x \in Seq(Seq(Chars)) /\ DOMAIN x = 1..0
  BY <1>4
<1>6. Len(x) = 0
  BY <1>5, LengthOf
<1>7. x = << >>
  BY <1>5, <1>6, EmptySeq
<1>8. FlattenSeq(x) = x
  BY <1>6 DEF FlattenSeq
<1> QED BY <1>1, <1>2, <1>7, <1>8 DEF MarksOf

Associate(r, s, t) == (r \o s) \o t = r \o (s \o t)

LEMMA Associative ==
    ASSUME NEW r \in Seq(Chars), NEW s \in Seq(Chars), NEW t \in Seq(Chars)
    PROVE  Associate(r, s, t)
<1>1. PICK x \in Seq(Chars) : x = r \o s
  BY ConcatProperties
<1>2. /\ Len(x) = Len(r) + Len(s)
      /\ \A i \in 1..(Len(r) + Len(s)) : x[i] = IF i <= Len(r) THEN r[i] ELSE s[i - Len(r)]
  BY <1>1, ConcatProperties
<1>3. PICK y \in Seq(Chars) : y = s \o t
  BY ConcatProperties
<1>4. /\ Len(y) = Len(s) + Len(t)
      /\ \A i \in 1..(Len(s) + Len(t)) : y[i] = IF i <= Len(s) THEN s[i] ELSE t[i - Len(s)]
  BY <1>3, ConcatProperties
<1>5. PICK u : u = x \o t
  OBVIOUS
<1>6. /\ u \in Seq(Chars) /\ Len(u) = Len(x) + Len(t)
      /\ \A i \in 1..(Len(x) + Len(t)) : u[i] = IF i <= Len(x) THEN x[i] ELSE t[i - Len(x)]
  BY <1>5, ConcatProperties
<1>7. PICK v : v = r \o y
  OBVIOUS
<1>8. /\ v \in Seq(Chars) /\ Len(v) = Len(r) + Len(y)
      /\ \A i \in 1..(Len(r) + Len(y)) : v[i] = IF i <= Len(r) THEN r[i] ELSE y[i - Len(r)]
  BY <1>7, ConcatProperties
<1>9. Len(r) \in Nat /\ Len(s) \in Nat /\ Len(t) \in Nat
  BY LenProperties
<1>10. ASSUME NEW i \in 1..(Len(r) + Len(s) + Len(t)) PROVE u[i] = v[i]
  <2>1. CASE i <= Len(r)
    <3>1. u[i] = x[i] /\ x[i] = r[i]
      BY <2>1, <1>2, <1>6, <1>9
    <3>2. v[i] = r[i]
      BY <2>1, <1>4, <1>8, <1>9
    <3> QED BY <3>1, <3>2
  <2>2. CASE ~ (i <= Len(r)) /\ i <= Len(r) + Len(s)
    <3>1. u[i] = x[i] /\ x[i] = s[i - Len(r)]
      BY <2>2, <1>2, <1>6, <1>9
    <3>2. v[i] = y[i - Len(r)]
      BY <2>2, <1>4, <1>8, <1>9
    <3>3. y[i - Len(r)] = s[i - Len(r)]
      <4>1. PICK j : j = i - Len(r)
        OBVIOUS
      <4>2. j \in 1..(Len(s) + Len(t)) /\ j <= Len(s)
        BY <2>2, <4>1, <1>9
      <4> QED BY <4>1, <4>2, <1>4
    <3> QED BY <3>1, <3>2, <3>3
  <2>3. CASE ~ (i <= Len(r) + Len(s))
    <3>1. u[i] = t[i - (Len(r) + Len(s))]
      BY <2>3, <1>2, <1>6, <1>9
    <3>2. v[i] = y[i - Len(r)]
      BY <2>3, <1>4, <1>8, <1>9
    <3>3. y[i - Len(r)] = t[(i - Len(r)) - Len(s)]
      <4>1. PICK j : j = i - Len(r)
        OBVIOUS
      <4>2. j \in 1..(Len(s) + Len(t)) /\ ~ (j <= Len(s))
        BY <2>3, <4>1, <1>9
      <4> QED BY <4>1, <4>2, <1>4
    <3>4. (i - Len(r)) - Len(s) = i - (Len(r) + Len(s))
      BY <1>9
    <3> QED BY <3>1, <3>2, <3>3, <3>4
  <2> QED BY <2>1, <2>2, <2>3
<1>11. u = v
  <2>1. Len(u) = Len(r) + Len(s) + Len(t) /\ Len(v) = Len(u)
    BY <1>2, <1>4, <1>6, <1>8, <1>9
  <2> QED BY <2>1, <1>6, <1>8, <1>10, SeqEqual
<1> QED BY <1>1, <1>3, <1>5, <1>7, <1>11 DEF Associate

LEMMA MarksConcat ==
    ASSUME NEW s \in Seq(Chars), NEW t \in Seq(Chars)
    PROVE  MarksOf(s \o t) = MarksOf(s) \o MarksOf(t)
<1> DEFINE Right(q) == MarksOf(s \o q) = MarksOf(s) \o MarksOf(q)
           Rights == {q \in Seq(Chars) : Right(q)}
<1>0. PICK d \in Chars : TRUE
  BY DEF Chars
<1>1. \A q \in Seq(Chars) : MarksOf(q) \in Seq(Chars)
  BY <1>0, MarksAppend
<1>2. Right(<< >>)
  <2>1. s \o << >> = s
    BY ConcatEmptySeq
  <2>2. MarksOf(s) \o << >> = MarksOf(s)
    BY <1>1, ConcatEmptySeq
  <2> QED BY <2>1, <2>2, MarksEmpty
<1>3. ASSUME NEW q \in Seq(Chars), Right(q), NEW c \in Chars
      PROVE  Right(Append(q, c))
  <2>1. PICK x \in Seq(Chars) : x = s \o q
    BY ConcatProperties
  <2>2. s \o Append(q, c) = Append(x, c)
    BY <2>1, ConcatAppend
  <2>3. MarksOf(Append(x, c)) = MarksOf(x) \o Marks(c)
    BY MarksAppend
  <2>4. MarksOf(Append(q, c)) = MarksOf(q) \o Marks(c)
    BY MarksAppend
  <2>5. PICK i \in Seq(Chars), j \in Seq(Chars), k \in Seq(Chars) :
           i = MarksOf(s) /\ j = MarksOf(q) /\ k = Marks(c)
    BY <1>1, MarksType
  <2>6. MarksOf(s \o Append(q, c)) = (i \o j) \o k
    BY <2>1, <2>2, <2>3, <2>5, <1>3
  <2>7. (i \o j) \o k = i \o (j \o k)
    <3>1. Associate(i, j, k)
      BY Associative
    <3> QED BY <3>1 DEF Associate
  <2>8. MarksOf(s) \o MarksOf(Append(q, c)) = i \o (j \o k)
    BY <2>4, <2>5
  <2> QED BY <2>6, <2>7, <2>8
<1> HIDE DEF Right
<1>4. Seq(Chars) \subseteq Rights
  <2>1. << >> \in Rights
    BY <1>2, EmptySeq
  <2>2. \A q \in Seq(Chars), c \in Chars : q \in Rights => Append(q, c) \in Rights
    BY <1>3, AppendProperties
  <2> HIDE DEF Rights
  <2> QED BY <2>1, <2>2, ByAppend
<1>5. Right(t)
  BY <1>4
<1> QED BY <1>5 DEF Right

(* The two bytes of a character, or the character. *)
LEMMA ByteMarks ==
    ASSUME NEW s \in Seq(Chars), NEW c \in Chars
    PROVE  MarksOf(AndByte(s, c)) = MarksOf(s) \o Marks(c)
<1>1. CASE c = TRAIL /\ s # << >> /\ Last(s) = LEAD
  <2>1. PICK f \in Seq(Chars), e \in Chars : s = Append(f, e)
    BY <1>1, SequenceEmptyOrAppend
  <2>2. Last(s) = e /\ Front(s) = f
    BY <2>1, EndOfAppend
  <2>3. CHAR \in Chars /\ REPLACED \in Chars
    BY DEF Chars
  <2>4. MarksOf(AndByte(s, c)) = MarksOf(f) \o Marks(CHAR)
    BY <2>2, <2>3, <1>1, MarksAppend DEF AndByte
  <2>5. MarksOf(s) = MarksOf(f) \o Marks(e)
    BY <2>1, MarksAppend
  <2>6. /\ Marks(e) = <<REPLACED>> /\ Marks(c) = <<REPLACED>>
        /\ Marks(CHAR) = <<REPLACED, REPLACED>>
    BY <2>2, <1>1 DEF Marks, LEAD, TRAIL, CHAR
  <2>7. <<REPLACED>> \o <<REPLACED>> = <<REPLACED, REPLACED>>
    <3>1. PICK r \in Chars : r = REPLACED
      BY <2>3
    <3>2. PICK x : x = <<r>>
      OBVIOUS
    <3>3. x \in Seq(Chars) /\ Len(x) = 1 /\ x[1] = r
      BY <3>2
    <3>4. PICK y : y = x \o x
      OBVIOUS
    <3>5. y \in Seq(Chars) /\ Len(y) = 2 /\ y[1] = r /\ y[2] = r
      <4>1. /\ y \in Seq(Chars) /\ Len(y) = Len(x) + Len(x)
            /\ \A i \in 1..(Len(x) + Len(x)) :
                  y[i] = IF i <= Len(x) THEN x[i] ELSE x[i - Len(x)]
        BY <3>3, <3>4, ConcatProperties
      <4>2. PICK i \in 1..(Len(x) + Len(x)) : i = 2 /\ ~ (i <= Len(x)) /\ i - Len(x) = 1
        BY <3>3
      <4>3. PICK j \in 1..(Len(x) + Len(x)) : j = 1 /\ j <= Len(x)
        BY <3>3
      <4>4. y[i] = r
        BY <4>1, <4>2, <3>3
      <4>5. y[j] = r
        BY <4>1, <4>3, <3>3
      <4>6. Len(x) + Len(x) = 2
        BY <3>3
      <4> QED BY <4>1, <4>2, <4>3, <4>4, <4>5, <4>6
    <3>6. PICK z : z = <<r, r>>
      OBVIOUS
    <3>7. z \in Seq(Chars) /\ Len(z) = 2 /\ z[1] = r /\ z[2] = r
      BY <3>6
    <3>8. \A i \in 1..Len(y) : y[i] = z[i]
      BY <3>5, <3>7
    <3>9. y = z
      BY <3>5, <3>7, <3>8, SeqEqual
    <3> QED BY <3>1, <3>2, <3>4, <3>6, <3>9
  <2>8. PICK m \in Seq(Chars) : m = MarksOf(f)
    BY <2>3, MarksAppend
  <2>9. (m \o <<REPLACED>>) \o <<REPLACED>> = m \o (<<REPLACED>> \o <<REPLACED>>)
    <3>0. <<REPLACED>> \in Seq(Chars)
      BY <2>3
    <3>1. PICK r \in Seq(Chars) : r = <<REPLACED>>
      BY <3>0
    <3>2. Associate(m, r, r)
      BY Associative
    <3> QED BY <3>1, <3>2 DEF Associate
  <2> QED BY <2>4, <2>5, <2>6, <2>7, <2>8, <2>9
<1>2. CASE ~ (c = TRAIL /\ s # << >> /\ Last(s) = LEAD)
  <2>1. AndByte(s, c) = Append(s, c)
    BY <1>2 DEF AndByte
  <2> QED BY <2>1, MarksAppend
<1> QED BY <1>1, <1>2

LEMMA RawMarks ==
    ASSUME NEW s \in Seq(Chars)
    PROVE  MarksOf(Raw(s)) = MarksOf(s)
<1> DEFINE Right(q) == MarksOf(Raw(q)) = MarksOf(q)
           S == {q \in Seq(Chars) : Right(q)}
<1>1. Right(<< >>)
  BY RawEmpty
<1>2. ASSUME NEW q \in Seq(Chars), Right(q), NEW c \in Chars
      PROVE  Right(Append(q, c))
  <2>1. PICK r \in Seq(Chars) : r = Raw(q) /\ Raw(Append(q, c)) = AndByte(r, c)
    BY RawAppend
  <2>2. MarksOf(AndByte(r, c)) = MarksOf(r) \o Marks(c)
    BY ByteMarks
  <2>3. MarksOf(Append(q, c)) = MarksOf(q) \o Marks(c)
    BY MarksAppend
  <2> QED BY <2>1, <2>2, <2>3, <1>2
<1> HIDE DEF Right
<1>3. Seq(Chars) \subseteq S
  <2>1. << >> \in S
    BY <1>1, EmptySeq
  <2>2. \A q \in Seq(Chars), c \in Chars : q \in S => Append(q, c) \in S
    BY <1>2, AppendProperties
  <2> HIDE DEF S
  <2> QED BY <2>1, <2>2, ByAppend
<1>4. Right(s)
  BY <1>3
<1> QED BY <1>4 DEF Right

(* A character is not made across the end of what ends in no first byte. *)
Whole(s) == s = << >> \/ Last(s) # LEAD

LEMMA AndByteConcat ==
    ASSUME NEW s \in Seq(Chars), NEW t \in Seq(Chars), NEW c \in Chars, Whole(s)
    PROVE  AndByte(s \o t, c) = s \o AndByte(t, c)
<1>1. CASE t = << >>
  <2>1. s \o t = s
    BY <1>1, ConcatEmptySeq
  <2>2. AndByte(s, c) = Append(s, c)
    BY DEF AndByte, Whole
  <2>3. AndByte(t, c) = Append(t, c)
    BY <1>1 DEF AndByte
  <2>4. s \o Append(t, c) = Append(s \o t, c)
    BY ConcatAppend
  <2> QED BY <2>1, <2>2, <2>3, <2>4
<1>2. CASE t # << >>
  <2>1. PICK f \in Seq(Chars), e \in Chars : t = Append(f, e)
    BY <1>2, SequenceEmptyOrAppend
  <2>2. Last(t) = e /\ Front(t) = f
    BY <2>1, EndOfAppend
  <2>3. PICK x \in Seq(Chars) : x = s \o f
    BY ConcatProperties
  <2>4. PICK u \in Seq(Chars) : u = s \o t
    BY ConcatProperties
  <2>5. u = Append(x, e)
    BY <2>1, <2>3, <2>4, ConcatAppend
  <2>6. Last(u) = e /\ Front(u) = x /\ u # << >>
    BY <2>5, EndOfAppend
  <2>7. CASE c = TRAIL /\ e = LEAD
    <3>1. AndByte(u, c) = Append(x, CHAR) /\ AndByte(t, c) = Append(f, CHAR)
      BY <2>2, <2>6, <2>7, <1>2 DEF AndByte
    <3>2. s \o Append(f, CHAR) = Append(s \o f, CHAR)
      <4>1. CHAR \in Chars
        BY DEF Chars
      <4> QED BY <4>1, ConcatAppend
    <3> QED BY <3>1, <3>2, <2>3, <2>4
  <2>8. CASE ~ (c = TRAIL /\ e = LEAD)
    <3>1. AndByte(u, c) = Append(u, c) /\ AndByte(t, c) = Append(t, c)
      BY <2>2, <2>6, <2>8 DEF AndByte
    <3>2. s \o Append(t, c) = Append(s \o t, c)
      BY ConcatAppend
    <3> QED BY <3>1, <3>2, <2>4
  <2> QED BY <2>7, <2>8
<1> QED BY <1>1, <1>2

LEMMA RawConcat ==
    ASSUME NEW s \in Seq(Chars), NEW t \in Seq(Chars), Whole(Raw(s))
    PROVE  Raw(s \o t) = Raw(s) \o Raw(t)
<1> DEFINE Right(q) == Raw(s \o q) = Raw(s) \o Raw(q)
           S == {q \in Seq(Chars) : Right(q)}
<1>0. PICK r \in Seq(Chars) : r = Raw(s) /\ Whole(r)
  BY DecodedType
<1>1. Right(<< >>)
  <2>1. s \o << >> = s /\ r \o << >> = r
    BY ConcatEmptySeq
  <2> QED BY <2>1, <1>0, RawEmpty
<1>2. ASSUME NEW q \in Seq(Chars), Right(q), NEW c \in Chars
      PROVE  Right(Append(q, c))
  <2>1. PICK x \in Seq(Chars) : x = s \o q
    BY ConcatProperties
  <2>2. s \o Append(q, c) = Append(x, c)
    BY <2>1, ConcatAppend
  <2>3. PICK y \in Seq(Chars) : y = Raw(q) /\ Raw(Append(q, c)) = AndByte(y, c)
    BY RawAppend
  <2>4. Raw(Append(x, c)) = AndByte(Raw(x), c)
    BY RawAppend
  <2>5. Raw(x) = r \o y
    BY <2>1, <2>3, <1>0, <1>2
  <2>6. AndByte(r \o y, c) = r \o AndByte(y, c)
    BY <1>0, AndByteConcat
  <2> QED BY <2>2, <2>3, <2>4, <2>5, <2>6, <1>0
<1> HIDE DEF Right
<1>3. Seq(Chars) \subseteq S
  <2>1. << >> \in S
    BY <1>1, EmptySeq
  <2>2. \A q \in Seq(Chars), c \in Chars : q \in S => Append(q, c) \in S
    BY <1>2, AppendProperties
  <2> HIDE DEF S
  <2> QED BY <2>1, <2>2, ByAppend
<1>4. Right(t)
  BY <1>3
<1> QED BY <1>4 DEF Right

LEMMA DecodedConcat ==
    ASSUME NEW s \in Seq(Chars), NEW t \in Seq(Chars), Whole(Raw(s))
    PROVE  Decoded(s \o t) = Decoded(s) \o Decoded(t)
<1> DEFINE Shown(c) == IF c \in {LEAD, TRAIL} THEN REPLACED ELSE c
<1>1. PICK u \in Seq(Chars) : u = s \o t
  BY ConcatProperties
<1>2. PICK a \in Seq(Chars), b \in Seq(Chars) : a = Raw(s) /\ b = Raw(t)
  BY DecodedType
<1>3. PICK c \in Seq(Chars) : c = a \o b
  BY ConcatProperties
<1>4. Raw(u) = c
  BY <1>1, <1>2, <1>3, RawConcat
<1>5. PICK x \in Seq(Chars), y \in Seq(Chars), z \in Seq(Chars) :
         x = Decoded(s) /\ y = Decoded(t) /\ z = Decoded(u)
  BY DecodedType
<1>6. /\ Len(x) = Len(a) /\ Len(y) = Len(b) /\ Len(z) = Len(c)
      /\ \A i \in 1..Len(a) : x[i] = Shown(a[i])
      /\ \A i \in 1..Len(b) : y[i] = Shown(b[i])
      /\ \A i \in 1..Len(c) : z[i] = Shown(c[i])
  BY <1>2, <1>4, <1>5, DecodedType
<1>7. /\ Len(a) \in Nat /\ Len(b) \in Nat /\ Len(c) = Len(a) + Len(b)
      /\ \A i \in 1..(Len(a) + Len(b)) :
            c[i] = IF i <= Len(a) THEN a[i] ELSE b[i - Len(a)]
  BY <1>3, ConcatProperties, LenProperties
<1>8. PICK w : w = x \o y
  OBVIOUS
<1>9. /\ w \in Seq(Chars) /\ Len(w) = Len(x) + Len(y)
      /\ \A i \in 1..(Len(x) + Len(y)) :
            w[i] = IF i <= Len(x) THEN x[i] ELSE y[i - Len(x)]
  BY <1>8, ConcatProperties
<1> HIDE DEF Shown
<1>10. ASSUME NEW i \in 1..(Len(a) + Len(b)) PROVE w[i] = z[i]
  <2>1. z[i] = Shown(c[i])
    BY <1>6, <1>7
  <2>2. CASE i <= Len(a)
    <3>1. i \in 1..Len(a)
      BY <2>2, <1>7
    <3>2. w[i] = x[i] /\ c[i] = a[i]
      BY <2>2, <1>6, <1>7, <1>9
    <3> QED BY <2>1, <3>1, <3>2, <1>6
  <2>3. CASE ~ (i <= Len(a))
    <3>1. i - Len(a) \in 1..Len(b)
      BY <2>3, <1>7
    <3>2. w[i] = y[i - Len(a)] /\ c[i] = b[i - Len(a)]
      BY <2>3, <1>6, <1>7, <1>9
    <3> QED BY <2>1, <3>1, <3>2, <1>6
  <2> QED BY <2>2, <2>3
<1>11. w = z
  <2>1. Len(w) = Len(a) + Len(b) /\ Len(z) = Len(w)
    BY <1>6, <1>7, <1>9
  <2> QED BY <2>1, <1>9, <1>10, <1>5, SeqEqual
<1> QED BY <1>1, <1>5, <1>8, <1>11

(* The text with each character taken for two replaced bytes. *)
Split(s) == FlattenSeq([i \in DOMAIN s |->
                IF s[i] = CHAR THEN <<REPLACED, REPLACED>> ELSE <<s[i]>>])

(***************************************************************************)
(* How much less than the text of its bytes an output comes to             *)
(* (llama_cpp_backend.py:282): nothing where no byte was replaced, and     *)
(* else nothing but characters, with two replaced bytes for each.          *)
(***************************************************************************)
OnlySplitCharactersLost ==
    LET whole == Decoded(FlattenSeq([i \in DOMAIN output |-> Bytes[output[i]]]))
    IN  /\ REPLACED \notin Range(streamed) => streamed = whole
        /\ Split(streamed) = Split(whole)

(* What was decoded holds no byte by itself. *)
Plain == Chars \ {LEAD, TRAIL}

LEMMA DecodedMarks ==
    ASSUME NEW s \in Seq(Chars)
    PROVE  Decoded(s) \in Seq(Plain) /\ MarksOf(Decoded(s)) = MarksOf(s)
<1>1. PICK r \in Seq(Chars) : r = Raw(s)
  BY DecodedType
<1>2. PICK d \in Seq(Chars) : d = Decoded(s)
  BY DecodedType
<1>3. /\ Len(d) = Len(r)
      /\ \A i \in 1..Len(r) : d[i] = IF r[i] \in {LEAD, TRAIL} THEN REPLACED ELSE r[i]
  BY <1>1, <1>2, DecodedType
<1>4. /\ DOMAIN d = 1..Len(r) /\ DOMAIN r = 1..Len(r) /\ Len(r) \in Nat
      /\ \A i \in 1..Len(r) : r[i] \in Chars
  BY <1>3, LenProperties, ElementOfSeq
<1>5. REPLACED \in Plain
  BY DEF Plain, Chars, REPLACED, LEAD, TRAIL
<1>6. \A i \in 1..Len(r) : d[i] \in Plain
  BY <1>3, <1>4, <1>5 DEF Plain
<1>7. d \in Seq(Plain)
  <2>1. d \in [1..Len(d) -> Chars]
    BY LenProperties
  <2>2. d \in [1..Len(r) -> Plain]
    BY <2>1, <1>3, <1>6
  <2> QED BY <2>2, <1>4
<1>8. \A i \in 1..Len(r) : Marks(d[i]) = Marks(r[i])
  BY <1>3 DEF Marks, REPLACED, LEAD, TRAIL, CHAR
<1>9. [i \in DOMAIN d |-> Marks(d[i])] = [i \in DOMAIN r |-> Marks(r[i])]
  BY <1>4, <1>8
<1>10. MarksOf(d) = MarksOf(r)
  BY <1>9 DEF MarksOf
<1> QED BY <1>1, <1>2, <1>7, <1>10, RawMarks

LEMMA SplitMarks ==
    ASSUME NEW s \in Seq(Plain)
    PROVE  Split(s) = MarksOf(s)
<1>1. DOMAIN s = 1..Len(s) /\ \A i \in 1..Len(s) : s[i] \in Plain
  BY LenProperties, ElementOfSeq
<1>2. \A i \in DOMAIN s :
         Marks(s[i]) = IF s[i] = CHAR THEN <<REPLACED, REPLACED>> ELSE <<s[i]>>
  BY <1>1 DEF Marks, Plain
<1>3. [i \in DOMAIN s |-> Marks(s[i])]
      = [i \in DOMAIN s |-> IF s[i] = CHAR THEN <<REPLACED, REPLACED>> ELSE <<s[i]>>]
  BY <1>2
<1> QED BY <1>3 DEF Split, MarksOf

-----------------------------------------------------------------------------
(***************************************************************************)
(* The stream has the marks of the bytes of the output, and is these bytes *)
(* decoded as long as no byte was replaced in it.                          *)
(***************************************************************************)
LossOK ==
    /\ streamed \in Seq(Plain)
    /\ MarksOf(streamed) = MarksOf(BytesOf(output))
    /\ REPLACED \notin Range(streamed) => streamed = Decoded(BytesOf(output))

LEMMA LossIsBounded == IInv /\ LossOK => OnlySplitCharactersLost
<1> SUFFICES ASSUME IInv, LossOK PROVE OnlySplitCharactersLost
  OBVIOUS
<1>1. PICK o \in Seq(Vocab) : o = output
  BY DEF IInv, Typed
<1>2. PICK b \in Seq(Chars) : b = BytesOf(o)
  <2>1. PICK t \in Vocab : TRUE
    BY OutputAssumption
  <2> QED BY <2>1, BytesAppend
<1>3. PICK s \in Seq(Plain) : s = streamed
  BY DEF LossOK
<1>4. Split(s) = MarksOf(s) /\ MarksOf(s) = MarksOf(b)
  BY <1>1, <1>2, <1>3, SplitMarks DEF LossOK
<1>5. PICK d \in Seq(Plain) : d = Decoded(b) /\ MarksOf(d) = MarksOf(b)
  BY DecodedMarks
<1>6. Split(d) = MarksOf(d)
  BY SplitMarks
<1>7. b = FlattenSeq([i \in DOMAIN output |-> Bytes[output[i]]])
  BY <1>1, <1>2 DEF BytesOf
<1>8. REPLACED \notin Range(streamed) => streamed = Decoded(b)
  BY <1>1, <1>2 DEF LossOK
<1> QED BY <1>3, <1>4, <1>5, <1>6, <1>7, <1>8 DEF OnlySplitCharactersLost

LEMMA LossInit == Init => LossOK
<1> SUFFICES ASSUME Init PROVE LossOK
  OBVIOUS
<1>1. BytesOf(<< >>) = << >>
  <2>1. PICK e \in Seq(Vocab) : e = << >> /\ Len(e) = 0
    BY EmptySeq
  <2>2. PICK x : x = [i \in DOMAIN e |-> Bytes[e[i]]]
    OBVIOUS
  <2>3. DOMAIN e = 1..0
    BY <2>1, LenProperties
  <2>4. x \in [1..0 -> Seq(Chars)]
    BY <2>2, <2>3
  <2>5. x \in Seq(Seq(Chars)) /\ DOMAIN x = 1..0
    BY <2>4
  <2>6. Len(x) = 0
    BY <2>5, LengthOf
  <2>7. x = << >>
    BY <2>5, <2>6, EmptySeq
  <2>8. FlattenSeq(x) = x
    BY <2>6 DEF FlattenSeq
  <2> QED BY <2>1, <2>2, <2>7, <2>8 DEF BytesOf
<1>2. Decoded(<< >>) = << >>
  <2>1. PICK e \in Seq(Chars) : e = << >> /\ Len(e) = 0
    BY EmptySeq
  <2>2. Raw(e) = e
    BY <2>1, RawEmpty
  <2>3. Decoded(e) \in Seq(Chars) /\ Len(Decoded(e)) = 0
    BY <2>1, <2>2, DecodedType
  <2> QED BY <2>1, <2>3, EmptySeq
<1>3. << >> \in Seq(Plain)
  BY EmptySeq
<1> QED BY <1>1, <1>2, <1>3 DEF Init, LossOK

(* A stream that holds no replaced byte ends in no first one. *)
LEMMA NothingReplaced ==
    ASSUME NEW s \in Seq(Chars), REPLACED \notin Range(Decoded(s))
    PROVE  Whole(Raw(s))
<1>1. PICK r \in Seq(Chars) : r = Raw(s)
  BY DecodedType
<1>2. PICK d \in Seq(Chars) : d = Decoded(s)
  BY DecodedType
<1>3. /\ Len(d) = Len(r)
      /\ \A i \in 1..Len(r) : d[i] = IF r[i] \in {LEAD, TRAIL} THEN REPLACED ELSE r[i]
  BY <1>1, <1>2, DecodedType
<1>4. SUFFICES ASSUME r # << >>, Last(r) = LEAD PROVE FALSE
  BY <1>1 DEF Whole
<1>5. Len(r) \in 1..Len(r) /\ DOMAIN d = 1..Len(r)
  <2>1. Len(r) \in Nat \ {0} /\ DOMAIN d = 1..Len(d)
    BY <1>4, EmptySeq, LenProperties
  <2> QED BY <2>1, <1>3
<1>6. d[Len(r)] = REPLACED
  BY <1>3, <1>4, <1>5 DEF Last
<1> QED BY <1>2, <1>5, <1>6 DEF Range

LEMMA LossStep ==
    ASSUME IInv, LossOK, Next
    PROVE  LossOK'
<1>1. CASE UNCHANGED <<output, streamed>>
  BY <1>1 DEF LossOK
<1>2. CASE ~ UNCHANGED <<output, streamed>>
  <2>1. Emit /\ ~ IsStopToken(picked.chain)
    BY <1>2 DEF Next, Decode, FastSample, ChainSample, Resume, Emit, requestVars
  <2>2. PICK tok \in Vocab : tok = picked.chain
    BY DEF IInv, Typed
  <2>3. PICK o \in Seq(Vocab), s \in Seq(Plain) : o = output /\ s = streamed
    BY DEF IInv, Typed, LossOK
  <2>4. PICK m \in Seq(Chars) : m = Bytes[tok]
    BY BytesType
  <2>5. PICK p \in Seq(Plain) : p = Decoded(m) /\ MarksOf(p) = MarksOf(m)
    BY DecodedMarks
  <2>6. output' = Append(o, tok) /\ streamed' = s \o p
    BY <2>1, <2>2, <2>3, <2>4, <2>5 DEF Emit, Piece
  <2>7. PICK b \in Seq(Chars) : b = BytesOf(o) /\ BytesOf(Append(o, tok)) = b \o m
    BY <2>4, BytesAppend
  <2>8. s \in Seq(Chars) /\ p \in Seq(Chars)
    <3>1. Plain \subseteq Chars
      BY DEF Plain
    <3> QED BY <3>1, SeqMonotonic
  <2>9. MarksOf(s \o p) = MarksOf(b \o m)
    <3>1. MarksOf(s) = MarksOf(b)
      BY <2>3, <2>7 DEF LossOK
    <3>2. /\ MarksOf(s \o p) = MarksOf(s) \o MarksOf(p)
          /\ MarksOf(b \o m) = MarksOf(b) \o MarksOf(m)
      BY <2>8, MarksConcat
    <3> QED BY <2>5, <3>1, <3>2
  <2>10. ASSUME REPLACED \notin Range(s \o p) PROVE s \o p = Decoded(b \o m)
    <3>1. REPLACED \notin Range(s)
      BY <2>10, RangeOfConcat
    <3>2. s = Decoded(b)
      BY <3>1, <2>3, <2>7 DEF LossOK
    <3>3. Decoded(b \o m) = Decoded(b) \o Decoded(m)
      BY <3>1, <3>2, NothingReplaced, DecodedConcat
    <3> QED BY <2>5, <3>2, <3>3
  <2>11. s \o p \in Seq(Plain)
    BY ConcatProperties
  <2> QED BY <2>6, <2>7, <2>9, <2>10, <2>11 DEF LossOK
<1> QED BY <1>1, <1>2

(***************************************************************************)
(* In whatever pieces the tokens cut the bytes: the loss that              *)
(* PiecesAreLossless denies is of characters split over two tokens, and of *)
(* nothing else.                                                           *)
(***************************************************************************)
THEOREM SplittingIsAllThatIsLost == Spec => []OnlySplitCharactersLost
<1>1. IInv /\ LossOK /\ [Next]_vars => LossOK'
  <2>1. LossOK /\ UNCHANGED vars => LossOK'
    BY DEF vars, requestVars, LossOK
  <2> QED BY <2>1, LossStep
<1> QED BY <1>1, LossInit, LossIsBounded, Invariance, PTL DEF Spec
=============================================================================
