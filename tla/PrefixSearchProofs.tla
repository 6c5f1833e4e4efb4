------------------------ MODULE PrefixSearchProofs ------------------------
(* The lists by prefix, for paths and prefixes of any characters and length. *)
(* The pattern and its match are recursive functions: the steps are that     *)
(* such functions exist, where each character of a prefix ends up in its     *)
(* pattern, and that the pattern from there on is like the texts that begin  *)
(* with the rest of the prefix.                                              *)
EXTENDS PrefixSearch, MetaStoreProofs, WellFoundedInduction

-----------------------------------------------------------------------------
(* Induction on numbers, over a set: the theorems of the library are about   *)
(* operators.                                                                *)

\* A set of numbers that is not empty has a least element.
LEMMA LeastNatural ==
    ASSUME NEW S \in SUBSET Nat, S # {}
    PROVE  \E m \in S : \A n \in S : m <= n
<1>1. \E x \in S : \A y \in S : ~ (<<y, x>> \in OpToRel(<, Nat))
  BY NatLessThanWellFounded, WFMin
<1>2. PICK x \in S : \A y \in S : ~ (<<y, x>> \in OpToRel(<, Nat))
  BY <1>1
<1>3. \A y \in S : <<y, x>> \in OpToRel(<, Nat) <=> y < x
  BY DEF OpToRel
<1>4. \A y \in S : ~(y < x)
  BY <1>2, <1>3
<1>5. x \in Nat /\ \A y \in S : y \in Nat
  OBVIOUS
<1>6. \A y \in S : x <= y
  BY <1>4, <1>5
<1> QED
  BY <1>6

\* A set with 0 and with the successors of its numbers has every number.
LEMMA Induct ==
    ASSUME NEW S, 0 \in S, \A n \in Nat : n \in S => n + 1 \in S
    PROVE  Nat \subseteq S
<1> SUFFICES ASSUME Nat \ S # {} PROVE FALSE
  OBVIOUS
<1>1. PICK m \in Nat \ S : \A n \in Nat \ S : m <= n
  <2>1. Nat \ S \in SUBSET Nat
   OBVIOUS
  <2> QED
    BY <2>1, LeastNatural
<1>2. m # 0 /\ m - 1 \in Nat
  BY <1>1
<1>3. m - 1 \in S
  BY <1>1, <1>2
<1> QED
  BY <1>1, <1>2, <1>3

-----------------------------------------------------------------------------
(* LIKE.                                                                     *)

LEMMA Wild ==
    /\ AnyText # AnyCharacter /\ AnyText # Escape /\ AnyCharacter # Escape
BY DEF AnyText, AnyCharacter, Escape

\* How much of text and pattern is left.
Rank(p, text, pattern) == (Len(pattern) + 1 - p[1]) + (Len(text) + 1 - p[2])

\* A match depends on the matches of shorter rests only.
LEMMA LikeFromLocal ==
    ASSUME NEW text, NEW pattern, Len(text) \in Nat, Len(pattern) \in Nat,
           NEW f, NEW g, NEW p \in Rests(text, pattern),
           \A q \in Rests(text, pattern) : Rank(q, text, pattern) < Rank(p, text, pattern) => f[q] = g[q]
    PROVE  LikeFrom(f, text, pattern, p[1], p[2]) = LikeFrom(g, text, pattern, p[1], p[2])
<1> DEFINE i == p[1]  j == p[2]
<1>1. i \in 1..Len(pattern) + 1 /\ j \in 1..Len(text) + 1
  BY DEF Rests
<1>2. \A m \in i..Len(pattern) + 1, n \in j..Len(text) + 1 :
         m + n > i + j => f[<<m, n>>] = g[<<m, n>>]
  <2> SUFFICES ASSUME NEW m \in i..Len(pattern) + 1, NEW n \in j..Len(text) + 1, m + n > i + j
               PROVE  f[<<m, n>>] = g[<<m, n>>]
    OBVIOUS
  <2>1. <<m, n>> \in Rests(text, pattern)
    BY <1>1 DEF Rests
  <2>2. Rank(<<m, n>>, text, pattern) < Rank(p, text, pattern)
    <3>1. Rank(<<m, n>>, text, pattern) = (Len(pattern) + 1 - m) + (Len(text) + 1 - n)
      BY DEF Rank
    <3>2. Rank(p, text, pattern) = (Len(pattern) + 1 - i) + (Len(text) + 1 - j)
      BY DEF Rank
    <3> HIDE DEF i, j
    <3> QED
      BY <1>1, <3>1, <3>2
  <2> QED
    BY <2>1, <2>2
<1> HIDE DEF i, j
<1>3. i <= Len(pattern) => f[<<i + 1, j>>] = g[<<i + 1, j>>]
  BY <1>1, <1>2
<1>4. j <= Len(text) => f[<<i, j + 1>>] = g[<<i, j + 1>>]
  BY <1>1, <1>2
<1>5. i <= Len(pattern) /\ j <= Len(text) => f[<<i + 1, j + 1>>] = g[<<i + 1, j + 1>>]
  BY <1>1, <1>2
<1>6. i < Len(pattern) /\ j <= Len(text) => f[<<i + 2, j + 1>>] = g[<<i + 2, j + 1>>]
  BY <1>1, <1>2
<1>7. i > Len(pattern) \/ i <= Len(pattern)
  BY <1>1
<1>8. LikeFrom(f, text, pattern, i, j) = LikeFrom(g, text, pattern, i, j)
  BY <1>3, <1>4, <1>5, <1>6, <1>7 DEF LikeFrom
<1> QED
  BY <1>8 DEF i, j

\* So there is a match of all rests.
LEMMA MatchExists ==
    ASSUME NEW text, NEW pattern, Len(text) \in Nat, Len(pattern) \in Nat
    PROVE  \E match :
             match = [p \in Rests(text, pattern) |-> LikeFrom(match, text, pattern, p[1], p[2])]
<1> DEFINE dom == Rests(text, pattern)
           rank(p) == Rank(p, text, pattern)
           step(f, p) == LikeFrom(f, text, pattern, p[1], p[2])
           S == {r \in Nat : \E f : \A p \in dom : rank(p) < r => f[p] = step(f, p)}
<1>1. \A p \in dom : rank(p) \in 0..Len(pattern) + Len(text)
  BY DEF Rests, Rank
<1>2. \A f, g : \A p \in dom :
        (\A q \in dom : rank(q) < rank(p) => f[q] = g[q]) => step(f, p) = step(g, p)
  BY LikeFromLocal
<1> HIDE DEF dom, rank, step
<1>3. 0 \in S
  <2>1. \A p \in dom : ~(rank(p) < 0)
    BY <1>1
  <2> QED
    BY <2>1
<1>4. \A r \in Nat : r \in S => r + 1 \in S
  <2> SUFFICES ASSUME NEW r \in Nat, r \in S
               PROVE  \E g : \A p \in dom : rank(p) < r + 1 => g[p] = step(g, p)
    OBVIOUS
  <2>1. PICK f : \A p \in dom : rank(p) < r => f[p] = step(f, p)
    OBVIOUS
  <2> DEFINE g == [p \in dom |-> IF rank(p) < r THEN f[p] ELSE step(f, p)]
  <2>2. \A q \in dom : rank(q) < r => g[q] = f[q]
    OBVIOUS
  <2>3. ASSUME NEW p \in dom, rank(p) < r + 1
        PROVE  g[p] = step(g, p)
    <3>1. \A q \in dom : rank(q) < rank(p) => f[q] = g[q]
      BY <2>2, <2>3, <1>1
    <3>2. step(f, p) = step(g, p)
      BY <3>1, <1>2
    <3>3. g[p] = step(f, p)
      BY <2>1
    <3> QED
      BY <3>2, <3>3
  <2> QED
    BY <2>3
<1>5. Nat \subseteq S
  <2> HIDE DEF S
  <2> QED
    BY <1>3, <1>4, Induct
<1>6. PICK f : \A p \in dom : rank(p) < Len(pattern) + Len(text) + 1 => f[p] = step(f, p)
  <2>1. Len(pattern) + Len(text) + 1 \in S
    BY <1>5
  <2> QED
    BY <2>1
<1>7. \A p \in dom : f[p] = step(f, p)
  BY <1>6, <1>1
<1> DEFINE h == [p \in dom |-> f[p]]
<1>8. \A q \in dom : f[q] = h[q]
  OBVIOUS
<1>9. \A p \in dom : step(f, p) = step(h, p)
  BY <1>8, <1>2
<1>10. h = [p \in dom |-> step(h, p)]
  BY <1>7, <1>9
<1> HIDE DEF h
<1>11. \E match : match = [p \in dom |-> step(match, p)]
  BY <1>10
<1> QED
  BY <1>11 DEF dom, step

\* Like is the match of the whole text, and each match follows from shorter ones.
LEMMA MatchLike ==
    ASSUME NEW text, NEW pattern, Len(text) \in Nat, Len(pattern) \in Nat
    PROVE  \E match :
             /\ \A p \in Rests(text, pattern) :
                  match[p] = LikeFrom(match, text, pattern, p[1], p[2])
             /\ Like(text, pattern) = match[<<1, 1>>]
<1> DEFINE IsMatch(m) == m = [p \in Rests(text, pattern) |-> LikeFrom(m, text, pattern, p[1], p[2])]
           match == CHOOSE m : IsMatch(m)
<1>1. \E m : IsMatch(m)
  BY MatchExists
<1>2. IsMatch(match)
  <2> HIDE DEF IsMatch
  <2> QED
    BY <1>1
<1>3. Like(text, pattern) = match[<<1, 1>>]
  BY DEF Like
<1>4. \A p \in Rests(text, pattern) : match[p] = LikeFrom(match, text, pattern, p[1], p[2])
  <2> HIDE DEF match
  <2> QED
    BY <1>2
<1> HIDE DEF match
<1> QED
  BY <1>3, <1>4

-----------------------------------------------------------------------------
(* The pattern of a prefix.                                                  *)

\* A sequence that begins another one begins its extensions.
LEMMA JoinExtends ==
    ASSUME NEW X, NEW r \in Seq(X), NEW s \in Seq(X), NEW t \in Seq(X),
           Len(r) <= Len(s), \A q \in 1..Len(r) : s[q] = r[q]
    PROVE  Len(r) <= Len(s \o t) /\ \A q \in 1..Len(r) : (s \o t)[q] = r[q]
<1>1. Len(s \o t) = Len(s) + Len(t) /\ Len(r) \in Nat /\ Len(s) \in Nat /\ Len(t) \in Nat
  OBVIOUS
<1>2. \A q \in 1..Len(s) : (s \o t)[q] = s[q]
  OBVIOUS
<1>3. \A q \in 1..Len(r) : q \in 1..Len(s)
  BY <1>1
<1>4. Len(r) <= Len(s \o t)
  BY <1>1
<1> QED
  BY <1>2, <1>3, <1>4

\* The pieces of a flattened sequence of sequences follow each other.
LEMMA FlattenSeqIsJoin ==
    ASSUME NEW X, NEW n \in Nat \ {0}, NEW seqs \in [1..n -> Seq(X)]
    PROVE  \E f \in [0..n -> Seq(X)] :
             /\ f[0] = <<>> /\ \A i \in 1..n : f[i] = f[i - 1] \o seqs[i]
             /\ Texts!FlattenSeq(seqs) = f[n]
<1> DEFINE step(f, i) == IF i = 1 THEN seqs[i] ELSE f[i - 1] \o seqs[i]
           IsFlat(f) == f = [i \in 1..n |-> step(f, i)]
           S == {m \in Nat : \E f \in [1..n -> Seq(X)] : \A i \in 1..n : i <= m => f[i] = step(f, i)}
<1>1. 0 \in S
  <2>1. seqs \in [1..n -> Seq(X)] /\ \A i \in 1..n : ~(i <= 0)
    OBVIOUS
  <2> QED
    BY <2>1
<1>2. \A m \in Nat : m \in S => m + 1 \in S
  <2> SUFFICES ASSUME NEW m \in Nat, m \in S
               PROVE  m + 1 \in S
    OBVIOUS
  <2>1. PICK f \in [1..n -> Seq(X)] : \A i \in 1..n : i <= m => f[i] = step(f, i)
    OBVIOUS
  <2> DEFINE g == [i \in 1..n |-> IF i <= m THEN f[i] ELSE step(f, i)]
  <2>2. ASSUME NEW i \in 1..n
        PROVE  step(f, i) \in Seq(X)
    <3>1. seqs[i] \in Seq(X) /\ (i # 1 => f[i - 1] \in Seq(X))
      OBVIOUS
    <3> QED
      BY <3>1
  <2>3. g \in [1..n -> Seq(X)]
    BY <2>2
  <2>4. \A i \in 1..n : i <= m => g[i] = f[i]
    OBVIOUS
  <2>5. ASSUME NEW i \in 1..n, i <= m + 1
        PROVE  g[i] = step(g, i)
    <3>1. g[i] = step(f, i)
      BY <2>1
    <3>2. i # 1 => g[i - 1] = f[i - 1]
      BY <2>4, <2>5
    <3> QED
      BY <3>1, <3>2
  <2>6. \A i \in 1..n : i <= m + 1 => g[i] = step(g, i)
    BY <2>5
  <2> HIDE DEF g, step
  <2>7. \E h \in [1..n -> Seq(X)] : \A i \in 1..n : i <= m + 1 => h[i] = step(h, i)
    BY <2>3, <2>6
  <2>8. m + 1 \in Nat
    OBVIOUS
  <2> QED
    BY <2>7, <2>8, Zenon
<1>3. Nat \subseteq S
  <2> HIDE DEF S
  <2> QED
    BY <1>1, <1>2, Induct
<1>4. PICK f \in [1..n -> Seq(X)] : \A i \in 1..n : f[i] = step(f, i)
  <2>1. n \in S
    BY <1>3
  <2> QED
    BY <2>1
<1>5. f = [i \in 1..n |-> step(f, i)]
  BY <1>4
<1>6. \E h : IsFlat(h)
  BY <1>5
<1> DEFINE flat == CHOOSE h : IsFlat(h)
<1>7. IsFlat(flat)
  <2> HIDE DEF IsFlat
  <2> QED
    BY <1>6
<1>8. Len(seqs) = n
  OBVIOUS
<1>9. Texts!FlattenSeq(seqs) = flat[n]
  BY <1>8 DEF Texts!FlattenSeq
<1> HIDE DEF flat
<1>10. \A i \in 1..n : flat[i] = step(flat, i)
  BY <1>7

<1>11. \A m \in Nat : m \in 1..n => flat[m] \in Seq(X)
  <2> DEFINE T == {m \in Nat : m \in 1..n => flat[m] \in Seq(X)}
  <2>1. 0 \in T
    OBVIOUS
  <2>2. ASSUME NEW m \in Nat, m \in T
        PROVE  m + 1 \in T
    <3> SUFFICES ASSUME m + 1 \in 1..n
                 PROVE  flat[m + 1] \in Seq(X)
      OBVIOUS
    <3>1. seqs[m + 1] \in Seq(X) /\ (m # 0 => flat[m] \in Seq(X))
      BY <2>2
    <3>2. flat[m + 1] = IF m = 0 THEN seqs[m + 1] ELSE flat[m] \o seqs[m + 1]
      BY <1>10
    <3> QED
      BY <3>1, <3>2
  <2> HIDE DEF T
  <2>3. Nat \subseteq T
    BY <2>1, <2>2, Induct
  <2> QED
    BY <2>3 DEF T
<1> DEFINE g == [i \in 0..n |-> IF i = 0 THEN <<>> ELSE flat[i]]
<1>12. g \in [0..n -> Seq(X)]
  BY <1>11
<1>13. ASSUME NEW i \in 1..n
       PROVE  g[i] = g[i - 1] \o seqs[i]
  <2>1. flat[i] = IF i = 1 THEN seqs[i] ELSE flat[i - 1] \o seqs[i]
    BY <1>10
  <2>2. g[i] = flat[i] /\ g[i - 1] = IF i = 1 THEN <<>> ELSE flat[i - 1]
    OBVIOUS
  <2>3. seqs[i] \in Seq(X)
    OBVIOUS
  <2>4. <<>> \o seqs[i] = seqs[i]
    BY <2>3
  <2> HIDE DEF g
  <2> QED
    BY <2>1, <2>2, <2>4
<1>14. g[0] = <<>> /\ g[n] = flat[n]
  OBVIOUS
<1> HIDE DEF g
<1> QED
  BY <1>9, <1>12, <1>13, <1>14

\* at[k] is where the k-th character of the prefix is in its pattern, behind an
\* escape character if it needs one, and at the end the final wildcard.
IsPattern(pattern, at, prefix) ==
    /\ pattern = escapeLike(prefix) \o <<AnyText>>
    /\ at[1] = 1 /\ at[Len(prefix) + 1] = Len(pattern) /\ pattern[Len(pattern)] = AnyText
    /\ \A k \in 1..Len(prefix) :
         \/ /\ prefix[k] \in {AnyText, AnyCharacter, Escape}
            /\ at[k + 1] = at[k] + 2 /\ at[k + 1] <= Len(pattern)
            /\ pattern[at[k]] = Escape /\ pattern[at[k] + 1] = prefix[k]
         \/ /\ prefix[k] \notin {AnyText, AnyCharacter, Escape}
            /\ at[k + 1] = at[k] + 1 /\ at[k + 1] <= Len(pattern)
            /\ pattern[at[k]] = prefix[k]

\* The pattern of every prefix is laid out like that.
LEMMA PatternOf ==
    ASSUME NEW X, {AnyText, AnyCharacter, Escape} \subseteq X, NEW prefix \in Seq(X)
    PROVE  \E pattern \in Seq(X), at \in [1..Len(prefix) + 1 -> Nat \ {0}] :
             IsPattern(pattern, at, prefix)
<1> DEFINE n == Len(prefix)
           seqs == [i \in DOMAIN prefix |-> Escaped(prefix[i])]
           pattern == escapeLike(prefix) \o <<AnyText>>
           Flat(f) == /\ f[0] = <<>> /\ \A i \in 1..n : f[i] = f[i - 1] \o seqs[i]
                      /\ escapeLike(prefix) = f[n]
<1>1. n \in Nat /\ DOMAIN prefix = 1..n /\ \A k \in 1..n : prefix[k] \in X
  OBVIOUS
<1>2. \A c \in X : Escaped(c) \in Seq(X)
  BY DEF Escaped
<1>3. seqs \in [1..n -> Seq(X)]
  BY <1>1, <1>2
<1>4. \E f \in [0..n -> Seq(X)] : Flat(f)
  <2>1. CASE n = 0
    <3>1. seqs = <<>> /\ Len(seqs) = 0
      BY <2>1, <1>1
    <3>2. escapeLike(prefix) = <<>>
      BY <3>1 DEF escapeLike, Texts!FlattenSeq
    <3>3. [i \in 0..n |-> <<>>] \in [0..n -> Seq(X)]
      OBVIOUS
    <3> DEFINE f == [i \in 0..n |-> <<>>]
    <3>4. f[0] = <<>> /\ f[n] = <<>> /\ 1..n = {}
      BY <2>1, <1>1
    <3>5. Flat(f)
      BY <3>2, <3>4
    <3> HIDE DEF Flat
    <3> QED
      BY <3>3, <3>5
  <2>2. CASE n # 0
    <3>1. n \in Nat \ {0}
      BY <2>2, <1>1
    <3> HIDE DEF n
    <3>2. \E f \in [0..n -> Seq(X)] :
             /\ f[0] = <<>> /\ \A i \in 1..n : f[i] = f[i - 1] \o seqs[i]
             /\ Texts!FlattenSeq(seqs) = f[n]
      <4> HIDE DEF seqs
      <4> QED
        BY <3>1, <1>3, FlattenSeqIsJoin
    <3> QED
      BY <3>2 DEF escapeLike
  <2> QED
    BY <2>1, <2>2
<1>5. PICK f \in [0..n -> Seq(X)] : Flat(f)
  BY <1>4
<1>6. f[0] = <<>> /\ (\A i \in 1..n : f[i] = f[i - 1] \o seqs[i]) /\ escapeLike(prefix) = f[n]
  BY <1>5
<1>7. \A k \in 1..n : seqs[k] = Escaped(prefix[k])
  BY <1>1
<1> DEFINE at == [k \in 1..n + 1 |-> Len(f[k - 1]) + 1]
<1>8. at \in [1..n + 1 -> Nat \ {0}]
  BY <1>1
<1>9. pattern = f[n] \o <<AnyText>> /\ f[n] \in Seq(X)
  BY <1>6, <1>1
<1> HIDE DEF n, seqs, pattern, Flat
<1>10. ASSUME NEW k \in 1..n
       PROVE  Len(f[k]) <= Len(f[n]) /\ \A q \in 1..Len(f[k]) : f[n][q] = f[k][q]
  <2> DEFINE S == {d \in Nat : k + d <= n => /\ Len(f[k]) <= Len(f[k + d])
                                             /\ \A q \in 1..Len(f[k]) : f[k + d][q] = f[k][q]}
  <2>1. 0 \in S
    BY <1>1
  <2>2. \A d \in Nat : d \in S => d + 1 \in S
    <3> SUFFICES ASSUME NEW d \in Nat, d \in S, k + (d + 1) <= n
                 PROVE  /\ Len(f[k]) <= Len(f[k + (d + 1)])
                        /\ \A q \in 1..Len(f[k]) : f[k + (d + 1)][q] = f[k][q]
      OBVIOUS
    <3> DEFINE e == k + (d + 1)
    <3>1. e \in 1..n /\ e - 1 = k + d /\ k + d \in 0..n
      BY <1>1
    <3>0. Len(f[k]) <= Len(f[k + d]) /\ \A q \in 1..Len(f[k]) : f[k + d][q] = f[k][q]
      BY <3>1, <1>1
    <3> HIDE DEF e, S
    <3>2. f[k + d] \in Seq(X) /\ f[k] \in Seq(X)
      BY <3>1
    <3>3. seqs[e] \in Seq(X)
      BY <1>3, <3>1
    <3>4. f[e] = f[e - 1] \o seqs[e]
      BY <1>6, <3>1
    <3>5. f[e] = f[k + d] \o seqs[e]
      BY <3>1, <3>4
    <3>7. Len(f[k]) <= Len(f[e]) /\ \A q \in 1..Len(f[k]) : f[e][q] = f[k][q]
      <4> DEFINE a == f[k]  b == f[k + d]  c == seqs[e]
      <4>1. a \in Seq(X) /\ b \in Seq(X) /\ c \in Seq(X)
        BY <3>2, <3>3
      <4>2. Len(a) <= Len(b) /\ \A q \in 1..Len(a) : b[q] = a[q]
        BY <3>0
      <4>3. f[e] = b \o c
        BY <3>5
      <4> HIDE DEF a, b, c
      <4>4. Len(a) <= Len(b \o c) /\ \A q \in 1..Len(a) : (b \o c)[q] = a[q]
        BY <4>1, <4>2, JoinExtends
      <4>5. Len(a) <= Len(f[e]) /\ \A q \in 1..Len(a) : f[e][q] = a[q]
        BY <4>3, <4>4
      <4> QED
        BY <4>5 DEF a
    <3> QED
      BY <3>7 DEF e
  <2> HIDE DEF S
  <2>3. Nat \subseteq S
    BY <2>1, <2>2, Induct
  <2>4. n - k \in Nat /\ k + (n - k) = n
    BY <1>1
  <2>5. n - k \in S
    BY <2>3, <2>4
  <2>6. k + (n - k) <= n
    BY <2>4, <1>1
  <2> QED
    BY <2>4, <2>5, <2>6 DEF S
<1>11. /\ pattern \in Seq(X) /\ Len(pattern) = Len(f[n]) + 1 /\ pattern[Len(pattern)] = AnyText
       /\ \A q \in 1..Len(f[n]) : pattern[q] = f[n][q]
  BY <1>9
<1>12. at[1] = 1 /\ at[n + 1] = Len(pattern)
  BY <1>1, <1>6, <1>11
<1>13. ASSUME NEW k \in 1..n
       PROVE  \/ /\ prefix[k] \in {AnyText, AnyCharacter, Escape}
                 /\ at[k + 1] = at[k] + 2 /\ at[k + 1] <= Len(pattern)
                 /\ pattern[at[k]] = Escape /\ pattern[at[k] + 1] = prefix[k]
              \/ /\ prefix[k] \notin {AnyText, AnyCharacter, Escape}
                 /\ at[k + 1] = at[k] + 1 /\ at[k + 1] <= Len(pattern)
                 /\ pattern[at[k]] = prefix[k]
  <2> DEFINE l == Len(f[k - 1])
  <2>1. k - 1 \in 0..n /\ k \in 0..n /\ k + 1 \in 1..n + 1
    BY <1>1
  <2>2. /\ f[k] = f[k - 1] \o Escaped(prefix[k]) /\ f[k - 1] \in Seq(X)
        /\ Escaped(prefix[k]) \in Seq(X) /\ prefix[k] \in X
    BY <2>1, <1>1, <1>2, <1>6, <1>7
  <2>3. at[k] = l + 1 /\ at[k + 1] = Len(f[k]) + 1 /\ l \in Nat
    <3> DEFINE x == k + 1
    <3>0. \A y \in 1..n + 1 : at[y] = Len(f[y - 1]) + 1
      OBVIOUS
    <3>2. k \in 1..n + 1 /\ x \in 1..n + 1 /\ x - 1 = k
      BY <2>1, <1>1
    <3> HIDE DEF at, x
    <3>1. at[k] = Len(f[k - 1]) + 1
      BY <3>0, <3>2
    <3>3. at[x] = Len(f[k]) + 1
      BY <3>0, <3>2
    <3>4. Len(f[k - 1]) \in Nat
      BY <2>2
    <3> QED
      BY <3>1, <3>3, <3>4 DEF x, l
  <2>4. Len(f[k]) <= Len(f[n]) /\ \A q \in 1..Len(f[k]) : pattern[q] = f[k][q]
    <3>1. Len(f[k]) \in Nat /\ Len(f[n]) \in Nat
      BY <2>1, <1>1
    <3> QED
      BY <3>1, <1>10, <1>11
  <2>6. Len(f[n]) \in Nat
    BY <1>9
  <2> HIDE DEF at, l
  <2>5. CASE prefix[k] \in {AnyText, AnyCharacter, Escape}
    <3>1. Escaped(prefix[k]) = <<Escape, prefix[k]>>
      BY <2>5 DEF Escaped
    <3>2. Len(f[k]) = l + 2 /\ f[k][l + 1] = Escape /\ f[k][l + 2] = prefix[k]
      BY <2>2, <3>1 DEF l
    <3> QED
      BY <2>3, <2>4, <2>5, <2>6, <3>2, <1>11
  <2>7. CASE prefix[k] \notin {AnyText, AnyCharacter, Escape}
    <3>1. Escaped(prefix[k]) = <<prefix[k]>>
      BY <2>7 DEF Escaped
    <3>2. Len(f[k]) = l + 1 /\ f[k][l + 1] = prefix[k]
      BY <2>2, <3>1 DEF l
    <3> QED
      BY <2>3, <2>4, <2>7, <2>6, <3>2, <1>11
  <2> QED
    BY <2>5, <2>7
<1> HIDE DEF at
<1> QED
  BY <1>8, <1>11, <1>12, <1>13 DEF n, pattern, IsPattern

\* The pattern of a prefix is like the texts that begin with it.
LEMMA LikeIsBeginsWith ==
    ASSUME NEW X, NEW prefix \in Seq(X), NEW text, Len(text) \in Nat
    PROVE  Like(text, escapeLike(prefix) \o <<AnyText>>) <=> BeginsWith(text, prefix)
<1> DEFINE Y == X \cup {AnyText, AnyCharacter, Escape}
           n == Len(prefix)
           N == Len(text)
<1>1. prefix \in Seq(Y) /\ {AnyText, AnyCharacter, Escape} \subseteq Y
  OBVIOUS
<1>2. n \in Nat /\ N \in Nat
  OBVIOUS
<1>3. PICK pattern \in Seq(Y), at \in [1..n + 1 -> Nat \ {0}] :
             IsPattern(pattern, at, prefix)
  <2> HIDE DEF Y
  <2> QED
    BY <1>1, PatternOf
<1>4. IsPattern(pattern, at, prefix)
  BY <1>3
<1> DEFINE M == Len(pattern)
<1>5. M \in Nat /\ M = at[n + 1] /\ M # 0
  BY <1>4, <1>2 DEF IsPattern
<1>6. PICK match :
             /\ \A p \in Rests(text, pattern) :
                  match[p] = LikeFrom(match, text, pattern, p[1], p[2])
             /\ Like(text, pattern) = match[<<1, 1>>]
  BY <1>2, <1>5, MatchLike
<1>7. ASSUME NEW i \in 1..M + 1, NEW j \in 1..N + 1
      PROVE  match[<<i, j>>] = LikeFrom(match, text, pattern, i, j)
  <2>1. <<i, j>> \in Rests(text, pattern)
    BY DEF Rests
  <2> QED
    BY <2>1, <1>6
<1> HIDE DEF n, N, M, Y
\* The final wildcard is like everything.
<1>8. \A j \in 1..N + 1 : match[<<M, j>>]
  <2> DEFINE S == {d \in Nat : d <= N => match[<<M, N + 1 - d>>]}
  <2>1. ASSUME NEW j \in 1..N + 1
        PROVE  match[<<M, j>>] <=> match[<<M + 1, j>>] \/ (j <= N /\ match[<<M, j + 1>>])
    <3>1. M \in 1..M + 1 /\ ~(M > M) /\ pattern[M] = AnyText
      BY <1>4, <1>5 DEF M, IsPattern, n
    <3>2. match[<<M, j>>] = LikeFrom(match, text, pattern, M, j)
      BY <3>1, <1>7
    <3>3. LikeFrom(match, text, pattern, M, j) <=>
            match[<<M + 1, j>>] \/ (j <= N /\ match[<<M, j + 1>>])
      BY <3>1, Wild, Zenon DEF LikeFrom, M, N
    <3> QED
      BY <3>2, <3>3
  <2>2. match[<<M + 1, N + 1>>]
    <3>1. M + 1 \in 1..M + 1 /\ N + 1 \in 1..N + 1 /\ M + 1 > M /\ N + 1 > N
      BY <1>2, <1>5
    <3>2. match[<<M + 1, N + 1>>] = LikeFrom(match, text, pattern, M + 1, N + 1)
      BY <3>1, <1>7
    <3> QED
      BY <3>1, <3>2, Zenon DEF LikeFrom, M, N
  <2>3. 0 \in S
    <3>1. N + 1 \in 1..N + 1 /\ N + 1 - 0 = N + 1
      BY <1>2
    <3> QED
      BY <3>1, <2>1, <2>2
  <2>4. ASSUME NEW d \in Nat, d \in S
        PROVE  d + 1 \in S
    <3> SUFFICES ASSUME d + 1 <= N
                 PROVE  match[<<M, N + 1 - (d + 1)>>]
      OBVIOUS
    <3> DEFINE j == N + 1 - (d + 1)
    <3>1. j \in 1..N + 1 /\ j <= N /\ j + 1 = N + 1 - d /\ d <= N
      BY <1>2
    <3>2. match[<<M, j + 1>>]
      BY <3>1, <2>4
    <3> HIDE DEF j
    <3>3. match[<<M, j>>]
      BY <3>1, <3>2, <2>1
    <3> QED
      BY <3>3 DEF j
  <2> HIDE DEF S
  <2>5. Nat \subseteq S
    BY <2>3, <2>4, Induct
  <2> SUFFICES ASSUME NEW j \in 1..N + 1
               PROVE  match[<<M, j>>]
    OBVIOUS
  <2>6. N + 1 - j \in Nat /\ N + 1 - j <= N /\ N + 1 - (N + 1 - j) = j
    BY <1>2
  <2>7. N + 1 - j \in S
    BY <2>5, <2>6
  <2> QED
    BY <2>6, <2>7 DEF S
\* From the k-th character on: the pattern, and the rest of the prefix.
<1> DEFINE Begins(k) == \A i \in k..n : i <= N /\ Lower(prefix[i]) = Lower(text[i])
<1>9. ASSUME NEW k \in 1..n, k <= N + 1
      PROVE  match[<<at[k], k>>] <=>
               /\ k <= N /\ Lower(prefix[k]) = Lower(text[k])
               /\ match[<<at[k + 1], k + 1>>]
  <2>1. at[k] \in Nat \ {0} /\ at[k + 1] \in Nat \ {0} /\ k \in 1..N + 1
    <3>1. k \in 1..n + 1 /\ k + 1 \in 1..n + 1
      BY <1>2
    <3> QED
      BY <3>1, <1>2, <1>9
  <2>2. CASE /\ prefix[k] \in {AnyText, AnyCharacter, Escape}
             /\ at[k + 1] = at[k] + 2 /\ at[k + 1] <= M
             /\ pattern[at[k]] = Escape /\ pattern[at[k] + 1] = prefix[k]
    <3>1. at[k] \in 1..M + 1 /\ at[k] < M /\ ~(at[k] > M)
      BY <2>1, <2>2, <1>5
    <3>2. match[<<at[k], k>>] = LikeFrom(match, text, pattern, at[k], k)
      BY <3>1, <2>1, <1>7
    <3> QED
      BY <3>1, <3>2, <2>2, Wild, Zenon DEF LikeFrom, M, N
  <2>3. CASE /\ prefix[k] \notin {AnyText, AnyCharacter, Escape}
             /\ at[k + 1] = at[k] + 1 /\ at[k + 1] <= M
             /\ pattern[at[k]] = prefix[k]
    <3>1. at[k] \in 1..M + 1 /\ at[k] < M /\ ~(at[k] > M)
      BY <2>1, <2>3, <1>5
    <3>2. match[<<at[k], k>>] = LikeFrom(match, text, pattern, at[k], k)
      BY <3>1, <2>1, <1>7
    <3> QED
      BY <3>1, <3>2, <2>3, Wild, Zenon DEF LikeFrom, M, N
  <2> QED
    BY <2>2, <2>3, <1>4 DEF M, IsPattern, n
<1>10. \A k \in 1..n + 1 : k <= N + 1 => (match[<<at[k], k>>] <=> Begins(k))
  <2> DEFINE S == {d \in Nat : d <= n /\ n + 1 - d <= N + 1 =>
                      (match[<<at[n + 1 - d], n + 1 - d>>] <=> Begins(n + 1 - d))}
  <2>1. 0 \in S
    <3> SUFFICES ASSUME n + 1 <= N + 1
                 PROVE  match[<<at[n + 1], n + 1>>] <=> Begins(n + 1)
      BY <1>2
    <3>1. n + 1 \in 1..N + 1 /\ (n + 1)..n = {}
      BY <1>2
    <3>2. match[<<at[n + 1], n + 1>>]
      BY <3>1, <1>5, <1>8
    <3> QED
      BY <3>1, <3>2
  <2>2. ASSUME NEW d \in Nat, d \in S
        PROVE  d + 1 \in S
    <3> DEFINE k == n + 1 - (d + 1)
    <3> SUFFICES ASSUME d + 1 <= n, k <= N + 1
                 PROVE  match[<<at[k], k>>] <=> Begins(k)
      OBVIOUS
    <3>1. k \in 1..n /\ k + 1 = n + 1 - d /\ d <= n
      BY <1>2
    <3>2. k <= N => (match[<<at[k + 1], k + 1>>] <=> Begins(k + 1))
      <4> DEFINE e == n + 1 - d
      <4>1. k <= N => d <= n /\ e <= N + 1
        BY <3>1, <1>2
      <4>2. d <= n /\ e <= N + 1 => (match[<<at[e], e>>] <=> Begins(e))
        BY <2>2
      <4>3. e = k + 1
        BY <3>1
      <4> HIDE DEF e, Begins
      <4>4. k <= N => (match[<<at[e], e>>] <=> Begins(e))
        BY <4>1, <4>2
      <4> QED
        BY <4>3, <4>4
    <3> HIDE DEF k
    <3>3. k..n = {k} \cup (k + 1)..n
      BY <3>1, <1>2
    <3>4. Begins(k) <=> k <= N /\ Lower(prefix[k]) = Lower(text[k]) /\ Begins(k + 1)
      BY <3>3
    <3> HIDE DEF Begins
    <3> QED
      BY <3>1, <3>2, <3>4, <1>9
  <2> HIDE DEF S, Begins
  <2>3. Nat \subseteq S
    BY <2>1, <2>2, Induct
  <2> SUFFICES ASSUME NEW k \in 1..n + 1, k <= N + 1
               PROVE  match[<<at[k], k>>] <=> Begins(k)
    OBVIOUS
  <2>4. n + 1 - k \in Nat /\ n + 1 - k <= n /\ n + 1 - (n + 1 - k) = k
    BY <1>2
  <2>5. n + 1 - k \in S
    BY <2>3, <2>4
  <2> QED
    BY <2>4, <2>5 DEF S
<1>11. match[<<1, 1>>] <=> Begins(1)
  <2>1. 1 \in 1..n + 1 /\ 1 <= N + 1 /\ at[1] = 1
    BY <1>2, <1>4 DEF n, IsPattern
  <2> HIDE DEF Begins
  <2> QED
    BY <2>1, <1>10
<1>12. Begins(1) <=> BeginsWith(text, prefix)
  <2>1. Begins(1) => n <= N
    <3>1. CASE n = 0
      BY <3>1, <1>2
    <3>2. CASE n # 0
      <4>1. n \in 1..n
        BY <3>2, <1>2
      <4> QED
        BY <4>1
    <3> QED
      BY <3>1, <3>2
  <2>2. n <= N => \A i \in 1..n : i <= N
    BY <1>2
  <2> QED
    BY <2>1, <2>2 DEF BeginsWith, n, N
<1> HIDE DEF Begins
<1> QED
  BY <1>4, <1>6, <1>11, <1>12, Zenon DEF IsPattern

\* The lists of every database with well-typed rows.
LEMMA TypedListsAreExact == TypeOK => PrefixListIsExact
<1> SUFFICES ASSUME TypeOK, NEW account \in AccountIds, NEW prefix \in Prefixes,
                    NEW t \in {"files", "folders"}
             PROVE  {id \in DOMAIN db[t] :
                       db[t][id].account = account /\ Matches[db[t][id].path][prefix]}
                      = Under(t, account, prefix)
  BY Zenon DEF PrefixListIsExact, ListByPrefix
<1>1. prefix \in Seq(Characters)
  BY PrefixSearchAssumption DEF Prefixes
<1>2. ASSUME NEW path \in Paths
      PROVE  Matches[path][prefix] <=> BeginsWith(path, prefix)
  <2>1. Len(path) \in Nat
    BY PrefixSearchAssumption
  <2>2. Matches[path][prefix] = Like(path, escapeLike(prefix) \o <<AnyText>>)
    BY DEF Matches
  <2> QED
    BY <1>1, <2>1, <2>2, LikeIsBeginsWith
<1>3. ASSUME NEW id \in DOMAIN db[t]
      PROVE  db[t][id].path \in Paths
  <2>1. t \in Tables /\ RowsOf[t] = Located
    BY DEF Tables, RowsOf
  <2>2. db[t][id] \in Located
    BY <2>1, TypesAre, TableRows DEF TypesOf
  <2> QED
    BY <2>2 DEF Located
<1> QED
  BY <1>2, <1>3 DEF Under

\* Files and folders are listed by the texts their paths begin with, whatever
\* wildcards paths and prefix contain (store.go: escapeLike, ESCAPE '\').
THEOREM PrefixListsAreExact == Spec => []PrefixListIsExact
BY TypeCorrect, TypedListsAreExact, PTL
=============================================================================
