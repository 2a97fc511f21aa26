-------------------------- MODULE FingerprintProofs --------------------------
(***************************************************************************)
(* Theorems about Fingerprint, for every set of components that callers may  *)
(* pass: fingerprints are equal exactly for equal machines.                 *)
(*                                                                         *)
(* Two codes are read backwards: UTF-8, and the canonical form.  Both make a *)
(* text of words that begin with a letter no word has further on (a byte     *)
(* that leads; the separator), and such a text has one reading.  A sort is    *)
(* unique as the order of the bytes is total, and labels differ.             *)
(***************************************************************************)
EXTENDS Fingerprint, TLAPS, SequenceTheorems, FiniteSetTheorems

(* A non-empty set of numbers has a least one. *)
LEMMA LeastNumber ==
  ASSUME NEW T, T \subseteq Nat, T # {}
  PROVE  \E n \in T : \A m \in T : n <= m
<1>1. PICK n \in T : \A m \in T : <<m, n>> \notin OpToRel(<, Nat)
  BY WFMin, NatLessThanWellFounded
<1>2. ASSUME NEW m \in T PROVE ~(m < n)
  <2>1. <<m, n>> \in Nat \X Nat
    OBVIOUS
  <2> QED
    BY <1>1, <2>1, Zenon DEF OpToRel
<1> QED
  BY <1>2

(* f[1], f[2], ... f[n] are the joins of the first of ss, of the first two ... *)
Joins(f, ss, n) ==
  \A i \in 1..n : f[i] = IF i = 1 THEN ss[i] ELSE f[i - 1] \o ss[i]

(* f joins all of ss, which are strings over S.                               *)
Builds(f, ss, S) == f \in [1..Len(ss) -> Seq(S)] /\ Joins(f, ss, Len(ss))

(* Every list of strings can be joined from the front.                        *)
LEMMA BuildExists ==
  ASSUME NEW S, NEW ss \in Seq(Seq(S))
  PROVE  \E f : Builds(f, ss, S)
<1> DEFINE Upto(k, f) == f \in [1..k -> Seq(S)] /\ Joins(f, ss, k)
           T == {k \in 0..Len(ss) : ~ \E f : Upto(k, f)}
<1>n. Len(ss) \in Nat
  OBVIOUS
<1>t. T \subseteq Nat
  BY <1>n
<1>1. SUFFICES ASSUME T # {} PROVE FALSE
  <2>1. Len(ss) \notin T
    BY <1>1
  <2>2. \E f : Upto(Len(ss), f)
    BY <2>1, <1>n
  <2> QED
    BY <2>2 DEF Builds
<1>2. PICK k \in T : \A m \in T : k <= m
  <2> HIDE DEF T
  <2> QED
    BY <1>1, <1>t, LeastNumber
<1>3. k # 0
  <2>1. Upto(0, [i \in 1..0 |-> <<>>])
    BY DEF Joins
  <2> QED
    BY <2>1, <1>n
<1>4. PICK f : Upto(k - 1, f)
  <2>1. k - 1 \in 0..Len(ss) /\ ~(k <= k - 1)
    BY <1>3, <1>n
  <2> QED
    BY <1>2, <2>1
<1> DEFINE last == IF k = 1 THEN ss[k] ELSE f[k - 1] \o ss[k]
           g == [i \in 1..k |-> IF i < k THEN f[i] ELSE last]
<1>5. k \in 1..Len(ss)
  BY <1>3, <1>n
<1> HIDE DEF T
<1>6. last \in Seq(S)
  <2>1. ss[k] \in Seq(S)
    BY <1>5
  <2>2. CASE k # 1
    <3>1. f[k - 1] \in Seq(S)
      BY <2>2, <1>4, <1>5
    <3> QED
      BY <2>1, <2>2, <3>1, ConcatProperties
  <2> QED
    BY <2>1, <2>2
<1>7. g \in [1..k -> Seq(S)]
  <2> HIDE DEF last
  <2> QED
    BY <1>4, <1>5, <1>6
<1>8. ASSUME NEW i \in 1..k
      PROVE  g[i] = IF i = 1 THEN ss[i] ELSE g[i - 1] \o ss[i]
  <2>1. CASE i < k
    <3> HIDE DEF last
    <3>1. i \in 1..(k - 1) /\ (i # 1 => i - 1 \in 1..k /\ i - 1 < k)
      BY <2>1, <1>5
    <3>2. g[i] = f[i] /\ (i # 1 => g[i - 1] = f[i - 1])
      BY <3>1, <2>1
    <3> QED
      BY <3>1, <3>2, <1>4 DEF Joins
  <2>2. CASE i = k
    <3>1. g[k] = last /\ (k # 1 => g[k - 1] = f[k - 1])
      <4> HIDE DEF last
      <4> QED
        BY <1>5
    <3> HIDE DEF g
    <3> QED
      BY <2>2, <3>1
  <2> QED
    BY <2>1, <2>2, <1>5
<1>9. Upto(k, g)
  <2> HIDE DEF g
  <2> QED
    BY <1>7, <1>8 DEF Joins
<1> QED
  BY <1>9, <1>2 DEF T

(* There is only one way to join it.                                          *)
LEMMA BuildUnique ==
  ASSUME NEW S, NEW ss \in Seq(Seq(S)), NEW f, Builds(f, ss, S),
         NEW g, Joins(g, ss, Len(ss))
  PROVE  \A i \in 1..Len(ss) : g[i] = f[i]
<1> DEFINE T == {i \in 1..Len(ss) : g[i] # f[i]}
<1>1. SUFFICES ASSUME T # {} PROVE FALSE
  OBVIOUS
<1>n. Len(ss) \in Nat
  OBVIOUS
<1>t. T \subseteq Nat
  BY <1>n
<1>2. PICK i \in T : \A m \in T : i <= m
  <2> HIDE DEF T
  <2> QED
    BY <1>1, <1>t, LeastNumber
<1>5. i \in 1..Len(ss) /\ g[i] # f[i]
  BY <1>2
<1>3. /\ f[i] = IF i = 1 THEN ss[i] ELSE f[i - 1] \o ss[i]
      /\ g[i] = IF i = 1 THEN ss[i] ELSE g[i - 1] \o ss[i]
  <2> HIDE DEF T
  <2> QED
    BY <1>5 DEF Builds, Joins
<1>4. i # 1 => g[i - 1] = f[i - 1]
  <2>1. i # 1 => i - 1 \in 1..Len(ss) /\ ~(i <= i - 1)
    BY <1>n, <1>5
  <2> QED
    BY <2>1, <1>2
<1> HIDE DEF T
<1> QED
  BY <1>3, <1>4, <1>5

(* FlattenSeq is the last of them. *)
LEMMA FlattenIsBuilt ==
  ASSUME NEW S, NEW ss \in Seq(Seq(S)), ss # <<>>, NEW f, Builds(f, ss, S)
  PROVE  FlattenSeq(ss) = f[Len(ss)]
<1> DEFINE Built(g) == g = [i \in 1..Len(ss) |-> IF i = 1 THEN ss[i] ELSE g[i - 1] \o ss[i]]
           flatten == CHOOSE g : Built(g)
<1>n. Len(ss) \in Nat \ {0}
  BY EmptySeq
<1>1. FlattenSeq(ss) = flatten[Len(ss)]
  BY <1>n DEF FlattenSeq
<1>2. Built(f)
  BY DEF Builds, Joins
<1>3. Built(flatten)
  BY <1>2
<1> HIDE DEF flatten
<1>4. Joins(flatten, ss, Len(ss))
  BY <1>3 DEF Joins
<1>5. \A i \in 1..Len(ss) : flatten[i] = f[i]
  <2> HIDE DEF Built
  <2> QED
    BY <1>4, BuildUnique
<1> QED
  BY <1>1, <1>5, <1>n

(* FlattenSeq of strings is a string.                                         *)
LEMMA FlattenType ==
  ASSUME NEW S, NEW ss \in Seq(Seq(S))
  PROVE  FlattenSeq(ss) \in Seq(S)
<1>1. CASE ss = <<>>
  BY <1>1 DEF FlattenSeq
<1>2. CASE ss # <<>>
  <2>1. PICK f : Builds(f, ss, S)
    BY BuildExists
  <2>2. Len(ss) \in Nat \ {0}
    BY <1>2, EmptySeq
  <2>3. FlattenSeq(ss) = f[Len(ss)]
    BY <1>2, <2>1, FlattenIsBuilt
  <2>4. f \in [1..Len(ss) -> Seq(S)] /\ Len(ss) \in 1..Len(ss)
    BY <2>1, <2>2 DEF Builds
  <2> QED
    BY <2>3, <2>4
<1> QED
  BY <1>1, <1>2

(* Joining one more. *)
LEMMA FlattenAppend ==
  ASSUME NEW S, NEW ss \in Seq(Seq(S)), NEW w \in Seq(S)
  PROVE  FlattenSeq(Append(ss, w)) = FlattenSeq(ss) \o w
<1> DEFINE all == Append(ss, w)
<1>1. /\ all \in Seq(Seq(S)) /\ all # <<>> /\ Len(all) = Len(ss) + 1
      /\ all[Len(ss) + 1] = w /\ \A i \in 1..Len(ss) : all[i] = ss[i]
  BY AppendProperties
<1> HIDE DEF all
<1>n. Len(ss) \in Nat
  OBVIOUS
<1>2. PICK g : Builds(g, all, S)
  BY <1>1, BuildExists
<1>3. FlattenSeq(all) = g[Len(ss) + 1]
  BY <1>1, <1>2, FlattenIsBuilt
<1>4. g[Len(ss) + 1] = IF Len(ss) = 0 THEN w ELSE g[Len(ss)] \o w
  <2>1. Len(ss) + 1 \in 1..Len(all) /\ Len(ss) + 1 - 1 = Len(ss)
    BY <1>1, <1>n
  <2>2. \A i \in 1..Len(all) : g[i] = IF i = 1 THEN all[i] ELSE g[i - 1] \o all[i]
    BY <1>2 DEF Builds, Joins
  <2>3. (Len(ss) + 1 = 1) = (Len(ss) = 0)
    BY <1>n
  <2>4. g[Len(ss) + 1] = IF Len(ss) + 1 = 1 THEN all[Len(ss) + 1]
                         ELSE g[Len(ss)] \o all[Len(ss) + 1]
    BY <2>1, <2>2
  <2> QED
    BY <1>1, <2>3, <2>4
<1>5. CASE ss = <<>>
  <2>1. FlattenSeq(ss) = <<>> /\ Len(ss) = 0
    BY <1>5 DEF FlattenSeq
  <2>2. <<>> \o w = w
    BY ConcatEmptySeq
  <2> QED
    BY <1>3, <1>4, <2>1, <2>2 DEF all
<1>6. CASE ss # <<>>
  <2>0. Len(ss) \in Nat \ {0}
    BY <1>6, EmptySeq
  <2>1. PICK f : Builds(f, ss, S)
    BY BuildExists
  <2>2. FlattenSeq(ss) = f[Len(ss)]
    BY <2>1, <1>6, FlattenIsBuilt
  <2>3. Joins(g, ss, Len(ss))
    <3>1. \A i \in 1..Len(all) : g[i] = IF i = 1 THEN all[i] ELSE g[i - 1] \o all[i]
      BY <1>2 DEF Builds, Joins
    <3>2. ASSUME NEW i \in 1..Len(ss)
          PROVE  g[i] = IF i = 1 THEN ss[i] ELSE g[i - 1] \o ss[i]
      <4>1. i \in 1..Len(all) /\ all[i] = ss[i]
        BY <1>1, <1>n
      <4> QED
        BY <3>1, <4>1
    <3> QED
      BY <3>2 DEF Joins
  <2>4. \A i \in 1..Len(ss) : g[i] = f[i]
    BY <2>1, <2>3, BuildUnique
  <2>5. FlattenSeq(all) = g[Len(ss)] \o w /\ g[Len(ss)] = f[Len(ss)]
    <3>1. Len(ss) # 0 /\ Len(ss) \in 1..Len(ss)
      BY <2>0
    <3>2. g[Len(ss)] = f[Len(ss)]
      BY <3>1, <2>4
    <3>3. FlattenSeq(all) = g[Len(ss)] \o w
      BY <3>1, <1>3, <1>4, Zenon
    <3> QED
      BY <3>2, <3>3
  <2> QED
    BY <2>2, <2>5 DEF all
<1> QED
  BY <1>5, <1>6

-----------------------------------------------------------------------------
(* A word begins with a letter of L and has no other one. *)
Word(w, L) == w # <<>> /\ w[1] \in L /\ \A i \in 2..Len(w) : w[i] \notin L

(* The last letter of L in a text is where its last word begins.              *)
LEMMA LastWord ==
  ASSUME NEW S, NEW L,
         NEW x \in Seq(S), NEW w \in Seq(S), Word(w, L),
         NEW y \in Seq(S), NEW v \in Seq(S), Word(v, L),
         x \o w = y \o v
  PROVE  x = y /\ w = v
<1> DEFINE N == Len(x \o w)
<1>1. /\ Len(x) \in Nat /\ Len(w) \in Nat \ {0}
      /\ Len(y) \in Nat /\ Len(v) \in Nat \ {0}
  BY EmptySeq DEF Word
<1>2. /\ N = Len(x) + Len(w)
      /\ \A i \in 1..N : (x \o w)[i] = IF i <= Len(x) THEN x[i] ELSE w[i - Len(x)]
  BY ConcatProperties
<1>3. /\ N = Len(y) + Len(v)
      /\ \A i \in 1..N : (x \o w)[i] = IF i <= Len(y) THEN y[i] ELSE v[i - Len(y)]
  BY ConcatProperties
<1> DEFINE z == x \o w
<1> HIDE DEF z, N
<1>4. ASSUME NEW i \in 1..N, z[i] \in L, \A j \in 1..N : j > i => z[j] \notin L
      PROVE  i = Len(x) + 1 /\ i = Len(y) + 1
  <2>1. z[Len(x) + 1] = w[1] /\ z[Len(y) + 1] = v[1]
    <3>1. Len(x) + 1 \in 1..N /\ Len(y) + 1 \in 1..N
      BY <1>1, <1>2, <1>3
    <3>2. /\ ~(Len(x) + 1 <= Len(x)) /\ Len(x) + 1 - Len(x) = 1
          /\ ~(Len(y) + 1 <= Len(y)) /\ Len(y) + 1 - Len(y) = 1
      BY <1>1
    <3> QED
      BY <3>1, <3>2, <1>2, <1>3 DEF z
  <2>2. ~(i < Len(x) + 1) /\ ~(i < Len(y) + 1)
    <3>1. z[Len(x) + 1] \in L /\ z[Len(y) + 1] \in L
      BY <2>1 DEF Word
    <3>2. Len(x) + 1 \in 1..N /\ Len(y) + 1 \in 1..N
      BY <1>1, <1>2, <1>3
    <3>3. \A j \in 1..N : z[j] \in L => ~(j > i)
      BY <1>4
    <3>4. ~(Len(x) + 1 > i) /\ ~(Len(y) + 1 > i)
      BY <3>1, <3>2, <3>3
    <3> QED
      BY <3>2, <3>4
  <2>3. ~(i > Len(x) + 1)
    <3> SUFFICES ASSUME i > Len(x) + 1 PROVE FALSE
      OBVIOUS
    <3>1. i - Len(x) \in 2..Len(w) /\ ~(i <= Len(x))
      BY <1>1, <1>2
    <3>2. z[i] = w[i - Len(x)]
      BY <3>1, <1>2 DEF z
    <3> QED
      BY <3>1, <3>2, <1>4 DEF Word
  <2>4. ~(i > Len(y) + 1)
    <3> SUFFICES ASSUME i > Len(y) + 1 PROVE FALSE
      OBVIOUS
    <3>1. i - Len(y) \in 2..Len(v) /\ ~(i <= Len(y))
      BY <1>1, <1>3
    <3>2. z[i] = v[i - Len(y)]
      BY <3>1, <1>3 DEF z
    <3> QED
      BY <3>1, <3>2, <1>4 DEF Word
  <2> QED
    BY <2>2, <2>3, <2>4, <1>1, <1>2
<1>5. Len(x) = Len(y)
  <2>1. Len(x) + 1 \in 1..N
    BY <1>1, <1>2
  <2>2. z[Len(x) + 1] = w[1]
    <3>1. ~(Len(x) + 1 <= Len(x)) /\ Len(x) + 1 - Len(x) = 1
      BY <1>1
    <3> QED
      BY <2>1, <3>1, <1>2 DEF z
  <2>3. ASSUME NEW j \in 1..N, j > Len(x) + 1 PROVE z[j] \notin L
    <3>1. j - Len(x) \in 2..Len(w) /\ ~(j <= Len(x))
      BY <1>1, <1>2, <2>3
    <3>2. z[j] = w[j - Len(x)]
      BY <3>1, <1>2 DEF z
    <3> QED
      BY <3>1, <3>2 DEF Word
  <2>4. Len(x) + 1 = Len(y) + 1
    BY <2>1, <2>2, <2>3, <1>4 DEF Word
  <2> QED
    BY <2>4, <1>1
<1>6. Len(w) = Len(v)
  BY <1>1, <1>2, <1>3, <1>5
<1>7. \A i \in 1..Len(x) : x[i] = y[i]
  BY <1>1, <1>2, <1>3, <1>5
<1>8. ASSUME NEW i \in 1..Len(w) PROVE w[i] = v[i]
  <2> DEFINE k == Len(x) + i
  <2>1. k \in 1..N /\ ~(k <= Len(x)) /\ k - Len(x) = i
    BY <1>1, <1>2
  <2> HIDE DEF k
  <2>2. z[k] = w[k - Len(x)]
    BY <2>1, <1>2 DEF z
  <2>3. z[k] = v[k - Len(y)]
    BY <2>1, <1>3, <1>5 DEF z
  <2> QED
    BY <2>1, <2>2, <2>3, <1>5
<1> QED
  BY <1>5, <1>6, <1>7, <1>8, SeqEqual

(* A text is made of words in one way only. *)
LEMMA WordsApart ==
  ASSUME NEW S, NEW L,
         NEW ss \in Seq(Seq(S)), \A i \in 1..Len(ss) : Word(ss[i], L),
         NEW tt \in Seq(Seq(S)), \A i \in 1..Len(tt) : Word(tt[i], L),
         FlattenSeq(ss) = FlattenSeq(tt)
  PROVE  ss = tt
<1>0. \A x, y, w, v \in Seq(S) :
        Word(w, L) /\ Word(v, L) /\ x \o w = y \o v => x = y /\ w = v
  BY LastWord
<1> DEFINE Words(u) == u \in Seq(Seq(S)) /\ \A i \in 1..Len(u) : Word(u[i], L)
           Clash(u, r) == Words(u) /\ Words(r) /\ FlattenSeq(u) = FlattenSeq(r) /\ u # r
           T == {n \in Nat : \E u, r : Clash(u, r) /\ Len(u) = n}
<1>1. SUFFICES ASSUME T # {} PROVE FALSE
  <2>1. Len(ss) \notin T
    BY <1>1
  <2>2. Len(ss) \in Nat
    OBVIOUS
  <2>3. ~Clash(ss, tt)
    BY <2>1, <2>2
  <2> QED
    BY <2>3
<1>t. T \subseteq Nat
  OBVIOUS
<1>2. PICK n \in T : \A m \in T : n <= m
  <2> HIDE DEF T
  <2> QED
    BY <1>1, <1>t, LeastNumber
<1>3. PICK u, r : Clash(u, r) /\ Len(u) = n
  BY <1>2
<1>4. ASSUME NEW p, Words(p), p # <<>>
      PROVE  \E q, w : /\ Words(q) /\ w \in Seq(S) /\ Word(w, L)
                       /\ p = Append(q, w) /\ Len(p) = Len(q) + 1
                       /\ FlattenSeq(p) = FlattenSeq(q) \o w
  <2>1. PICK q \in Seq(Seq(S)), w \in Seq(S) : p = Append(q, w)
    BY <1>4, SequenceEmptyOrAppend
  <2>2. /\ Len(p) = Len(q) + 1 /\ p[Len(q) + 1] = w
        /\ \A i \in 1..Len(q) : p[i] = q[i]
    BY <2>1, AppendProperties
  <2>3. Len(q) \in Nat
    OBVIOUS
  <2>4. Word(w, L)
    BY <1>4, <2>2, <2>3
  <2>5. \A i \in 1..Len(q) : Word(q[i], L)
    BY <1>4, <2>2, <2>3
  <2>6. FlattenSeq(p) = FlattenSeq(q) \o w
    BY <2>1, FlattenAppend
  <2> QED
    BY <2>1, <2>2, <2>4, <2>5, <2>6
<1>5. ASSUME NEW p, Words(p), p # <<>> PROVE FlattenSeq(p) # <<>>
  <2>1. PICK q, w : Words(q) /\ w \in Seq(S) /\ Word(w, L) /\ FlattenSeq(p) = FlattenSeq(q) \o w
    BY <1>4, <1>5
  <2>2. FlattenSeq(q) \in Seq(S)
    BY <2>1, FlattenType
  <2> QED
    BY <2>1, <2>2, ConcatEqualIffEmpty DEF Word
<1>6. FlattenSeq(<<>>) = <<>>
  BY DEF FlattenSeq
<1>7. u # <<>> /\ r # <<>>
  BY <1>3, <1>5, <1>6
<1>8. PICK q, w : /\ Words(q) /\ w \in Seq(S) /\ Word(w, L)
                  /\ u = Append(q, w) /\ Len(u) = Len(q) + 1
                  /\ FlattenSeq(u) = FlattenSeq(q) \o w
  BY <1>3, <1>4, <1>7
<1>9. PICK s, v : /\ Words(s) /\ v \in Seq(S) /\ Word(v, L)
                  /\ r = Append(s, v) /\ Len(r) = Len(s) + 1
                  /\ FlattenSeq(r) = FlattenSeq(s) \o v
  BY <1>3, <1>4, <1>7
<1>10. FlattenSeq(q) = FlattenSeq(s) /\ w = v
  <2>1. FlattenSeq(q) \in Seq(S) /\ FlattenSeq(s) \in Seq(S)
    BY <1>8, <1>9, FlattenType
  <2>2. FlattenSeq(q) \o w = FlattenSeq(s) \o v
    BY <1>3, <1>8, <1>9
  <2>3. w \in Seq(S) /\ v \in Seq(S) /\ Word(w, L) /\ Word(v, L)
    BY <1>8, <1>9
  <2> HIDE DEF T
  <2> QED
    BY <2>1, <2>2, <2>3, <1>0
<1>11. q # s
  BY <1>3, <1>8, <1>9, <1>10
<1>12. Len(q) \in Nat /\ n = Len(q) + 1
  BY <1>3, <1>8
<1>13. Len(q) \in T
  BY <1>8, <1>9, <1>10, <1>11, <1>12
<1> QED
  <2> HIDE DEF T
  <2> QED
    BY <1>2, <1>12, <1>13

(* The bytes that do not continue a character. *)
LeadByte == {b \in Nat : ~(128 <= b /\ b < 192)}

(* A code point is a natural number.                                          *)
LEMMA CodePointNat == CodePoint \subseteq Nat
<1>1. LastCodePoint \in Nat
  BY SMT DEF LastCodePoint
<1> QED
  BY <1>1 DEF CodePoint

(* A number by its digits to the base 64, as UTF-8 cuts it up.                *)
LEMMA Digits ==
  ASSUME NEW c \in Nat
  PROVE  /\ c \div 64 \in Nat /\ c % 64 \in 0..63 /\ c = 64 * (c \div 64) + (c % 64)
         /\ c \div 4096 \in Nat /\ c \div 4096 = (c \div 64) \div 64
  OBVIOUS

(* How many bytes a code point takes, and which. *)
LEMMA Utf8Cases ==
  ASSUME NEW c \in Nat
  PROVE  /\ c < 128 => Utf8Bytes(c) = <<c>>
         /\ 128 <= c /\ c < 2048 => Utf8Bytes(c) = <<192 + c \div 64, 128 + (c % 64)>>
         /\ 2048 <= c /\ c < 65536 =>
              Utf8Bytes(c) = <<224 + c \div 4096, 128 + ((c \div 64) % 64), 128 + (c % 64)>>
         /\ 65536 <= c =>
              Utf8Bytes(c) = <<240 + (c \div 4096) \div 64, 128 + ((c \div 4096) % 64),
                               128 + ((c \div 64) % 64), 128 + (c % 64)>>
  BY SMT DEF Utf8Bytes, Continued

(* A byte that leads is a word on its own ...                                 *)
LEMMA Words1 ==
  ASSUME NEW a \in Nat, ~(128 <= a /\ a < 192)
  PROVE  <<a>> \in Seq(Nat) /\ Word(<<a>>, LeadByte)
  BY DEF Word, LeadByte

(* ... and so it is with one byte that continues it ...                       *)
LEMMA Words2 ==
  ASSUME NEW a \in Nat, ~(128 <= a /\ a < 192), NEW b \in 128..191
  PROVE  <<a, b>> \in Seq(Nat) /\ Word(<<a, b>>, LeadByte)
<1>1. Len(<<a, b>>) = 2 /\ <<a, b>>[1] = a /\ <<a, b>>[2] = b /\ <<a, b>> \in Seq(Nat)
  OBVIOUS
<1> QED
  BY <1>1 DEF Word, LeadByte

(* ... with two ...                                                           *)
LEMMA Words3 ==
  ASSUME NEW a \in Nat, ~(128 <= a /\ a < 192), NEW b \in 128..191, NEW c \in 128..191
  PROVE  <<a, b, c>> \in Seq(Nat) /\ Word(<<a, b, c>>, LeadByte)
<1> DEFINE w == <<a, b, c>>
<1>1. Len(w) = 3 /\ w[1] = a /\ w[2] = b /\ w[3] = c /\ w \in Seq(Nat)
  OBVIOUS
<1> HIDE DEF w
<1>2. \A i \in 2..3 : i = 2 \/ i = 3
  OBVIOUS
<1> QED
  BY <1>1, <1>2 DEF Word, LeadByte

(* ... and with three.                                                        *)
LEMMA Words4 ==
  ASSUME NEW a \in Nat, ~(128 <= a /\ a < 192),
         NEW b \in 128..191, NEW c \in 128..191, NEW d \in 128..191
  PROVE  <<a, b, c, d>> \in Seq(Nat) /\ Word(<<a, b, c, d>>, LeadByte)
<1> DEFINE w == <<a, b, c, d>>
<1>1. Len(w) = 4 /\ w[1] = a /\ w[2] = b /\ w[3] = c /\ w[4] = d /\ w \in Seq(Nat)
  OBVIOUS
<1> HIDE DEF w
<1>2. \A i \in 2..4 : i = 2 \/ i = 3 \/ i = 4
  OBVIOUS
<1> QED
  BY <1>1, <1>2 DEF Word, LeadByte

(* The bytes of a code point are a word: the first one leads, the others do not.*)
LEMMA Utf8Word ==
  ASSUME NEW c \in Nat
  PROVE  Utf8Bytes(c) \in Seq(Nat) /\ Word(Utf8Bytes(c), LeadByte)
<1> DEFINE d == c \div 64
           e == c \div 4096
           last == 128 + (c % 64)
           last2 == 128 + (d % 64)
           last3 == 128 + (e % 64)
<1>d. d \in Nat /\ e \in Nat
  BY Digits
<1>l. last \in 128..191 /\ last2 \in 128..191 /\ last3 \in 128..191
  <2> HIDE DEF d, e
  <2> QED
    BY <1>d, Digits
<1>1. CASE c < 128
  <2>1. Utf8Bytes(c) = <<c>> /\ ~(128 <= c /\ c < 192)
    BY <1>1, Utf8Cases, SMT
  <2> QED
    BY <2>1, Words1, Zenon
<1>2. CASE 128 <= c /\ c < 2048
  <2> DEFINE first == 192 + d
  <2>1. first \in Nat /\ ~(128 <= first /\ first < 192)
    <3> HIDE DEF d
    <3> QED
      BY <1>d
  <2>2. Utf8Bytes(c) = <<first, last>>
    BY <1>2, Utf8Cases, SMT
  <2> HIDE DEF first, last, last2, last3
  <2>3. <<first, last>> \in Seq(Nat) /\ Word(<<first, last>>, LeadByte)
    BY <1>l, <2>1, Words2
  <2> QED
    BY <2>2, <2>3
<1>3. CASE 2048 <= c /\ c < 65536
  <2> DEFINE first == 224 + e
  <2>1. first \in Nat /\ ~(128 <= first /\ first < 192)
    <3> HIDE DEF e
    <3> QED
      BY <1>d
  <2>2. Utf8Bytes(c) = <<first, last2, last>>
    BY <1>3, Utf8Cases, SMT
  <2> HIDE DEF first, last, last2, last3
  <2>3. <<first, last2, last>> \in Seq(Nat) /\ Word(<<first, last2, last>>, LeadByte)
    BY <1>l, <2>1, Words3
  <2> QED
    BY <2>2, <2>3
<1>4. CASE 65536 <= c
  <2> DEFINE first == 240 + e \div 64
  <2>1. first \in Nat /\ ~(128 <= first /\ first < 192)
    <3> HIDE DEF e
    <3> QED
      BY <1>d, Digits
  <2>2. Utf8Bytes(c) = <<first, last3, last2, last>>
    BY <1>4, Utf8Cases, SMT
  <2> HIDE DEF first, last, last2, last3
  <2>3. /\ <<first, last3, last2, last>> \in Seq(Nat)
        /\ Word(<<first, last3, last2, last>>, LeadByte)
    BY <1>l, <2>1, Words4
  <2> QED
    BY <2>2, <2>3
<1> QED
  BY <1>1, <1>2, <1>3, <1>4, SMT

(* No two code points have the same bytes.                                    *)
LEMMA Utf8BytesApart ==
  ASSUME NEW c \in Nat, NEW d \in Nat, Utf8Bytes(c) = Utf8Bytes(d)
  PROVE  c = d
<1>1. ASSUME NEW a \in Nat
      PROVE  /\ a < 128 => Len(Utf8Bytes(a)) = 1
             /\ 128 <= a /\ a < 2048 => Len(Utf8Bytes(a)) = 2
             /\ 2048 <= a /\ a < 65536 => Len(Utf8Bytes(a)) = 3
             /\ 65536 <= a => Len(Utf8Bytes(a)) = 4
  <2>1. CASE a < 128
    BY <2>1, Utf8Cases, SMT
  <2>2. CASE 128 <= a /\ a < 2048
    BY <2>2, Utf8Cases, SMT
  <2>3. CASE 2048 <= a /\ a < 65536
    BY <2>3, Utf8Cases, SMT
  <2>4. CASE 65536 <= a
    BY <2>4, Utf8Cases, SMT
  <2> QED
    BY <2>1, <2>2, <2>3, <2>4, SMT
<1>2. \/ c < 128 /\ d < 128
      \/ 128 <= c /\ c < 2048 /\ 128 <= d /\ d < 2048
      \/ 2048 <= c /\ c < 65536 /\ 2048 <= d /\ d < 65536
      \/ 65536 <= c /\ 65536 <= d
  BY <1>1, SMT
<1>3. CASE c < 128 /\ d < 128
  BY <1>3, Utf8Cases, SMT
<1>4. CASE 128 <= c /\ c < 2048 /\ 128 <= d /\ d < 2048
  BY <1>4, Utf8Cases, SMT
<1> DEFINE p == c \div 64
           q == d \div 64
           r == c \div 4096
           s == d \div 4096
<1>5. /\ p \in Nat /\ c % 64 \in 0..63 /\ c = 64 * p + (c % 64)
      /\ q \in Nat /\ d % 64 \in 0..63 /\ d = 64 * q + (d % 64)
      /\ r = p \div 64 /\ r \in Nat /\ s = q \div 64 /\ s \in Nat
  BY Digits
<1>6. /\ p % 64 \in 0..63 /\ p = 64 * r + (p % 64) /\ q % 64 \in 0..63 /\ q = 64 * s + (q % 64)
      /\ r \div 64 \in Nat /\ r % 64 \in 0..63 /\ r = 64 * (r \div 64) + (r % 64)
      /\ s \div 64 \in Nat /\ s % 64 \in 0..63 /\ s = 64 * (s \div 64) + (s % 64)
  <2> HIDE DEF p, q, r, s
  <2> QED
    BY <1>5, Digits
<1>7. CASE 2048 <= c /\ c < 65536 /\ 2048 <= d /\ d < 65536
  <2>1. <<224 + r, 128 + (p % 64), 128 + (c % 64)>> = <<224 + s, 128 + (q % 64), 128 + (d % 64)>>
    BY <1>7, Utf8Cases, SMT
  <2> HIDE DEF p, q, r, s
  <2>2. 224 + r = 224 + s /\ 128 + (p % 64) = 128 + (q % 64) /\ 128 + (c % 64) = 128 + (d % 64)
    BY <2>1
  <2>3. r = s /\ p % 64 = q % 64 /\ c % 64 = d % 64
    BY <2>2, <1>5, <1>6
  <2> QED
    BY <2>3, <1>5, <1>6
<1>8. CASE 65536 <= c /\ 65536 <= d
  <2>1. <<240 + r \div 64, 128 + (r % 64), 128 + (p % 64), 128 + (c % 64)>>
          = <<240 + s \div 64, 128 + (s % 64), 128 + (q % 64), 128 + (d % 64)>>
    BY <1>8, Utf8Cases, SMT
  <2> HIDE DEF p, q, r, s
  <2>2. /\ 240 + r \div 64 = 240 + s \div 64 /\ 128 + (r % 64) = 128 + (s % 64)
        /\ 128 + (p % 64) = 128 + (q % 64) /\ 128 + (c % 64) = 128 + (d % 64)
    BY <2>1
  <2>3. r \div 64 = s \div 64 /\ r % 64 = s % 64 /\ p % 64 = q % 64 /\ c % 64 = d % 64
    BY <2>2, <1>5, <1>6
  <2> QED
    BY <2>3, <1>5, <1>6
<1> QED
  BY <1>2, <1>3, <1>4, <1>7, <1>8

(* A text in UTF-8 is made of words, one for each code point.                 *)
LEMMA Utf8Parts ==
  ASSUME NEW s \in Seq(Nat)
  PROVE  LET bytes == [i \in DOMAIN s |-> Utf8Bytes(s[i])]
         IN  /\ bytes \in Seq(Seq(Nat)) /\ Len(bytes) = Len(s)
             /\ \A i \in 1..Len(bytes) : bytes[i] = Utf8Bytes(s[i]) /\ Word(bytes[i], LeadByte)
<1> DEFINE bytes == [i \in DOMAIN s |-> Utf8Bytes(s[i])]
<1>1. Len(s) \in Nat /\ DOMAIN s = 1..Len(s) /\ \A i \in 1..Len(s) : s[i] \in Nat
  BY LenProperties
<1>2. \A i \in 1..Len(s) : Utf8Bytes(s[i]) \in Seq(Nat) /\ Word(Utf8Bytes(s[i]), LeadByte)
  BY <1>1, Utf8Word
<1>3. bytes \in [1..Len(s) -> Seq(Nat)]
  BY <1>1, <1>2
<1>4. bytes \in Seq(Seq(Nat)) /\ Len(bytes) = Len(s)
  BY <1>1, <1>3
<1> QED
  BY <1>1, <1>2, <1>4

(* UTF-8 is made of numbers, too.                                             *)
LEMMA Utf8Type ==
  ASSUME NEW s \in Seq(Nat)
  PROVE  Utf8(s) \in Seq(Nat)
<1> DEFINE bytes == [i \in DOMAIN s |-> Utf8Bytes(s[i])]
<1>1. bytes \in Seq(Seq(Nat))
  BY Utf8Parts
<1> HIDE DEF bytes
<1>2. FlattenSeq(bytes) \in Seq(Nat)
  BY <1>1, FlattenType
<1> QED
  BY <1>2 DEF Utf8, bytes

(* No two texts have the same bytes. *)
LEMMA Utf8Apart ==
  ASSUME NEW s \in Seq(Nat), NEW t \in Seq(Nat), Utf8(s) = Utf8(t)
  PROVE  s = t
<1> DEFINE left8 == [i \in DOMAIN s |-> Utf8Bytes(s[i])]
           right8 == [i \in DOMAIN t |-> Utf8Bytes(t[i])]
<1>1. /\ left8 \in Seq(Seq(Nat)) /\ Len(left8) = Len(s)
      /\ \A i \in 1..Len(left8) : left8[i] = Utf8Bytes(s[i]) /\ Word(left8[i], LeadByte)
  BY Utf8Parts
<1>2. /\ right8 \in Seq(Seq(Nat)) /\ Len(right8) = Len(t)
      /\ \A i \in 1..Len(right8) : right8[i] = Utf8Bytes(t[i]) /\ Word(right8[i], LeadByte)
  BY Utf8Parts
<1>3. FlattenSeq(left8) = FlattenSeq(right8)
  BY DEF Utf8
<1> HIDE DEF left8, right8
<1>4. left8 = right8
  BY <1>1, <1>2, <1>3, WordsApart
<1>5. Len(s) = Len(t)
  BY <1>1, <1>2, <1>4
<1>6. ASSUME NEW i \in 1..Len(s) PROVE s[i] = t[i]
  <2>1. Utf8Bytes(s[i]) = Utf8Bytes(t[i])
    BY <1>1, <1>2, <1>4, <1>5
  <2>2. s[i] \in Nat /\ t[i] \in Nat
    BY <1>5, ElementOfSeq
  <2> QED
    BY <2>1, <2>2, Utf8BytesApart
<1> QED
  BY <1>5, <1>6, SeqEqual

-----------------------------------------------------------------------------
(* Before is a strict order, and tells any two sequences apart. *)
LEMMA BeforeIrreflexive ==
  ASSUME NEW a \in Seq(Nat)
  PROVE  ~Before(a, a)
<1> SUFFICES ASSUME NEW i \in DOMAIN a, a[i] < a[i] PROVE FALSE
  BY DEF Before
<1> QED
  BY LenProperties

(* Before is transitive: the first of two differences decides.                *)
LEMMA BeforeTransitive ==
  ASSUME NEW a \in Seq(Nat), NEW b \in Seq(Nat), NEW c \in Seq(Nat),
         Before(a, b), Before(b, c)
  PROVE  Before(a, c)
<1>1. PICK i \in DOMAIN b : /\ \A m \in 1..(i - 1) : m \in DOMAIN a /\ a[m] = b[m]
                            /\ i \in DOMAIN a => a[i] < b[i]
  BY DEF Before
<1>2. PICK j \in DOMAIN c : /\ \A m \in 1..(j - 1) : m \in DOMAIN b /\ b[m] = c[m]
                            /\ j \in DOMAIN b => b[j] < c[j]
  BY DEF Before
<1>3. /\ DOMAIN a = 1..Len(a) /\ DOMAIN b = 1..Len(b) /\ DOMAIN c = 1..Len(c)
      /\ Len(a) \in Nat /\ Len(b) \in Nat /\ Len(c) \in Nat
      /\ \A m \in DOMAIN a : a[m] \in Nat
      /\ \A m \in DOMAIN b : b[m] \in Nat
      /\ \A m \in DOMAIN c : c[m] \in Nat
  BY LenProperties
<1>4. CASE i < j
  <2>1. i \in 1..(j - 1)
    BY <1>3, <1>4
  <2>2. i \in DOMAIN c /\ b[i] = c[i]
    BY <2>1, <1>2, <1>3
  <2>3. ASSUME NEW m \in 1..(i - 1) PROVE m \in DOMAIN a /\ a[m] = c[m]
    <3>1. m \in 1..(j - 1)
      BY <1>3, <1>4
    <3> QED
      BY <3>1, <1>1, <1>2
  <2> QED
    BY <2>2, <2>3, <1>1 DEF Before
<1>5. CASE i = j
  <2>1. \A m \in 1..(j - 1) : m \in DOMAIN a /\ a[m] = c[m]
    BY <1>1, <1>2, <1>5
  <2>2. j \in DOMAIN a => a[j] < c[j]
    BY <1>1, <1>2, <1>3, <1>5
  <2> QED
    BY <2>1, <2>2 DEF Before
<1>6. CASE j < i
  <2>1. j \in 1..(i - 1) /\ j \in DOMAIN b
    BY <1>3, <1>6
  <2>2. a[j] = b[j] /\ b[j] < c[j]
    BY <2>1, <1>1, <1>2
  <2>3. ASSUME NEW m \in 1..(j - 1) PROVE m \in DOMAIN a /\ a[m] = c[m]
    <3>1. m \in 1..(i - 1)
      BY <1>3, <1>6
    <3> QED
      BY <3>1, <1>1, <1>2
  <2>4. a[j] < c[j]
    BY <2>2
  <2> QED
    BY <2>3, <2>4 DEF Before
<1> QED
  BY <1>3, <1>4, <1>5, <1>6

(* Of two strings that differ, one comes before the other.                    *)
LEMMA BeforeTotal ==
  ASSUME NEW a \in Seq(Nat), NEW b \in Seq(Nat), a # b
  PROVE  Before(a, b) \/ Before(b, a)
<1> DEFINE T == {i \in Nat \ {0} : /\ i \in DOMAIN a \/ i \in DOMAIN b
                                   /\ i \in DOMAIN a /\ i \in DOMAIN b => a[i] # b[i]}
<1>1. /\ DOMAIN a = 1..Len(a) /\ DOMAIN b = 1..Len(b)
      /\ Len(a) \in Nat /\ Len(b) \in Nat
      /\ \A m \in DOMAIN a : a[m] \in Nat
      /\ \A m \in DOMAIN b : b[m] \in Nat
  BY LenProperties
<1>t. T \subseteq Nat
  OBVIOUS
<1>2. T # {}
  <2>1. CASE Len(a) = Len(b)
    <3>1. PICK i \in 1..Len(a) : a[i] # b[i]
      BY <2>1, SeqEqual
    <3> QED
      BY <3>1, <1>1
  <2>2. CASE Len(a) < Len(b)
    <3>1. Len(a) + 1 \in T
      BY <2>2, <1>1
    <3> QED
      BY <3>1
  <2>3. CASE Len(b) < Len(a)
    <3>1. Len(b) + 1 \in T
      BY <2>3, <1>1
    <3> QED
      BY <3>1
  <2>4. Len(a) = Len(b) \/ Len(a) < Len(b) \/ Len(b) < Len(a)
    <3>1. Len(a) \in Nat /\ Len(b) \in Nat
      BY <1>1
    <3> HIDE DEF T
    <3> QED
      BY <3>1
  <2> QED
    BY <2>1, <2>2, <2>3, <2>4
<1>3. PICK i \in T : \A m \in T : i <= m
  <2> HIDE DEF T
  <2> QED
    BY <1>2, <1>t, LeastNumber
<1>4. i \in Nat \ {0} /\ (i \in DOMAIN a \/ i \in DOMAIN b)
      /\ (i \in DOMAIN a /\ i \in DOMAIN b => a[i] # b[i])
  BY <1>3
<1>5. ASSUME NEW m \in 1..(i - 1)
      PROVE  m \in DOMAIN a /\ m \in DOMAIN b /\ a[m] = b[m]
  <2>1. m \notin T
    <3> HIDE DEF T
    <3>1. m \in Nat /\ ~(i <= m)
      BY <1>4
    <3> QED
      BY <3>1, <1>3
  <2>2. m \in Nat \ {0} /\ m < i
    BY <1>4
  <2>3. m \in DOMAIN a \/ m \in DOMAIN b
    BY <2>2, <1>4, <1>1
  <2> QED
    BY <2>1, <2>2, <2>3
<1> HIDE DEF T
<1>6. CASE i \in DOMAIN a /\ i \in DOMAIN b
  <2>1. a[i] < b[i] \/ b[i] < a[i]
    BY <1>1, <1>4, <1>6
  <2> QED
    BY <2>1, <1>5, <1>6 DEF Before
<1>7. CASE i \notin DOMAIN a
  BY <1>4, <1>5, <1>7 DEF Before
<1>8. CASE i \notin DOMAIN b
  BY <1>4, <1>5, <1>8 DEF Before
<1> QED
  BY <1>6, <1>7, <1>8

(* The order the encoded components are put in: by their bytes. *)
Precedes(a, b) == Before(Utf8(a), Utf8(b))

(* Precedes is a strict total order of texts.                                 *)
LEMMA PrecedesOrder ==
  ASSUME NEW a \in Seq(Nat), NEW b \in Seq(Nat)
  PROVE  /\ ~Precedes(a, a)
         /\ ~(Precedes(a, b) /\ Precedes(b, a))
         /\ a # b => Precedes(a, b) \/ Precedes(b, a)
         /\ \A c \in Seq(Nat) : Precedes(a, b) /\ Precedes(b, c) => Precedes(a, c)
<1>1. \A c \in Seq(Nat) : Utf8(c) \in Seq(Nat)
  BY Utf8Type
<1>2. ~Precedes(a, a)
  BY <1>1, BeforeIrreflexive DEF Precedes
<1>3. ASSUME NEW c \in Seq(Nat), Precedes(a, b), Precedes(b, c) PROVE Precedes(a, c)
  BY <1>1, <1>3, BeforeTransitive DEF Precedes
<1>4. ASSUME a # b PROVE Precedes(a, b) \/ Precedes(b, a)
  BY <1>1, <1>4, BeforeTotal, Utf8Apart DEF Precedes
<1> QED
  BY <1>2, <1>3, <1>4

(* Distinct strings: what is asked of a list that is sorted. *)
Distinct(e) == \A i, j \in DOMAIN e : e[i] = e[j] => i = j

(* No smaller string after a larger one.                                      *)
Ascending(e) == \A i, j \in DOMAIN e : i < j => ~Precedes(e[j], e[i])

(* Each string goes to as many places from the front as there are strings that *)
(* do not follow it.                                                        *)
LEMMA SortingExists ==
  ASSUME NEW e \in Seq(Seq(Nat)), Distinct(e)
  PROVE  \E p \in Bijection(DOMAIN e, DOMAIN e) :
           \A i, j \in DOMAIN e : i < j => ~Precedes(e[p[j]], e[p[i]])
<1> DEFINE D == DOMAIN e
           n == Len(e)
           Upto(i) == {j \in D : j = i \/ Precedes(e[j], e[i])}
           rank == [i \in D |-> Cardinality(Upto(i))]
<1>1. n \in Nat /\ D = 1..n /\ \A i \in D : e[i] \in Seq(Nat)
  BY LenProperties
<1>2. IsFiniteSet(D) /\ Cardinality(D) = n
  BY <1>1, FS_Interval
<1> HIDE DEF D, n
<1>3. ASSUME NEW i \in D
      PROVE  /\ IsFiniteSet(Upto(i)) /\ Cardinality(Upto(i)) \in 1..n
  <2>1. Upto(i) \in SUBSET D /\ i \in Upto(i)
    OBVIOUS
  <2> HIDE DEF Upto
  <2>2. IsFiniteSet(Upto(i)) /\ Cardinality(Upto(i)) <= n
    BY <2>1, <1>2, FS_Subset
  <2>3. Cardinality(Upto(i)) \in Nat /\ Cardinality(Upto(i)) # 0
    BY <2>1, <2>2, FS_CardinalityType, FS_EmptySet
  <2> QED
    BY <2>2, <2>3, <1>1
<1>4. ASSUME NEW i \in D, NEW k \in D, Precedes(e[i], e[k])
      PROVE  rank[i] < rank[k]
  <2>1. Upto(i) \subseteq Upto(k)
    <3> SUFFICES ASSUME NEW j \in D, j = i \/ Precedes(e[j], e[i])
                 PROVE  Precedes(e[j], e[k])
      OBVIOUS
    <3> QED
      BY <1>1, <1>4, PrecedesOrder
  <2>2. k \in Upto(k) /\ k \notin Upto(i)
    BY <1>1, <1>4, PrecedesOrder
  <2>3. Upto(i) \in SUBSET Upto(k) /\ Upto(i) # Upto(k)
    BY <2>1, <2>2
  <2>4. IsFiniteSet(Upto(k)) /\ Cardinality(Upto(k)) \in Nat /\ Cardinality(Upto(i)) \in Nat
    <3> HIDE DEF Upto, rank
    <3>1. IsFiniteSet(Upto(k)) /\ Cardinality(Upto(k)) \in 1..n /\ Cardinality(Upto(i)) \in 1..n
      BY <1>3
    <3> QED
      BY <3>1, <1>1
  <2>r. rank[i] = Cardinality(Upto(i)) /\ rank[k] = Cardinality(Upto(k))
    OBVIOUS
  <2> HIDE DEF Upto, rank
  <2>5. Cardinality(Upto(i)) <= Cardinality(Upto(k)) /\ Cardinality(Upto(i)) # Cardinality(Upto(k))
    BY <2>3, <2>4, FS_Subset
  <2> QED
    BY <2>4, <2>5, <2>r
<1>5. rank \in [D -> D]
  BY <1>1, <1>3
<1> HIDE DEF rank, Upto
<1>6. ASSUME NEW i \in D, NEW k \in D, rank[i] = rank[k] PROVE i = k
  <2>1. SUFFICES ASSUME i # k PROVE FALSE
    OBVIOUS
  <2>2. e[i] # e[k]
    BY <2>1 DEF Distinct, D
  <2>3. Precedes(e[i], e[k]) \/ Precedes(e[k], e[i])
    BY <2>2, <1>1, PrecedesOrder
  <2>4. rank[i] < rank[k] \/ rank[k] < rank[i]
    BY <2>3, <1>4
  <2>5. rank[i] \in Int /\ rank[k] \in Int
    BY <1>1, <1>5
  <2> QED
    BY <2>4, <2>5, <1>6
<1>7. rank \in Injection(D, D)
  BY <1>5, <1>6 DEF Injection, IsInjective
<1>8. rank \in Surjection(D, D)
  BY <1>2, <1>7, FS_Injection
<1>9. \A r \in D : \E i \in D : rank[i] = r
  BY <1>8 DEF Surjection
<1> DEFINE p == [r \in D |-> CHOOSE i \in D : rank[i] = r]
<1>10. \A r \in D : p[r] \in D /\ rank[p[r]] = r
  BY <1>9
<1>11. p \in [D -> D]
  BY <1>10
<1>12. p \in Bijection(D, D)
  <2> HIDE DEF p
  <2>1. \A r, t \in D : p[r] = p[t] => r = t
    BY <1>10
  <2>2. \A i \in D : p[rank[i]] = i
    BY <1>5, <1>6, <1>10
  <2>3. \A i \in D : \E r \in D : p[r] = i
    BY <1>5, <2>2
  <2> QED
    BY <1>11, <2>1, <2>3 DEF Bijection, Injection, Surjection, IsInjective
<1>13. ASSUME NEW i \in D, NEW j \in D, i < j PROVE ~Precedes(e[p[j]], e[p[i]])
  <2> HIDE DEF p
  <2>1. SUFFICES ASSUME Precedes(e[p[j]], e[p[i]]) PROVE FALSE
    OBVIOUS
  <2>2. rank[p[j]] < rank[p[i]]
    BY <2>1, <1>10, <1>4
  <2>3. j < i
    BY <2>2, <1>10
  <2> QED
    BY <2>3, <1>13, <1>1
<1> HIDE DEF p
<1> QED
  BY <1>12, <1>13 DEF D

(* There is one ascending arrangement of a set of strings. *)
LEMMA SortingUnique ==
  ASSUME NEW a \in Seq(Seq(Nat)), Distinct(a), Ascending(a),
         NEW b \in Seq(Seq(Nat)), Distinct(b), Ascending(b),
         {a[i] : i \in DOMAIN a} = {b[i] : i \in DOMAIN b}
  PROVE  a = b
<1> DEFINE R == {a[i] : i \in DOMAIN a}
<1>1. /\ Len(a) \in Nat /\ DOMAIN a = 1..Len(a) /\ \A i \in 1..Len(a) : a[i] \in Seq(Nat)
      /\ Len(b) \in Nat /\ DOMAIN b = 1..Len(b) /\ \A i \in 1..Len(b) : b[i] \in Seq(Nat)
  BY LenProperties
<1>2. /\ \A i \in 1..Len(a) : \E j \in 1..Len(b) : a[i] = b[j]
      /\ \A j \in 1..Len(b) : \E i \in 1..Len(a) : a[i] = b[j]
  BY <1>1
<1>3. Len(a) = Len(b)
  <2>1. a \in [1..Len(a) -> R] /\ b \in [1..Len(b) -> R]
    BY LenProperties, <1>1, <1>2
  <2>2. a \in Bijection(1..Len(a), R)
    <3>1. \A r \in R : \E i \in 1..Len(a) : a[i] = r
      BY <1>1
    <3> HIDE DEF R
    <3> QED
      BY <2>1, <3>1, <1>1 DEF Bijection, Injection, Surjection, IsInjective, Distinct
  <2>3. b \in Bijection(1..Len(b), R)
    <3>1. \A r \in R : \E i \in 1..Len(b) : b[i] = r
      BY <1>1, <1>2
    <3> HIDE DEF R
    <3> QED
      BY <2>1, <3>1, <1>1 DEF Bijection, Injection, Surjection, IsInjective, Distinct
  <2> HIDE DEF R
  <2>4. Cardinality(R) = Len(a) /\ Cardinality(R) = Len(b)
    BY <2>2, <2>3, <1>1, FS_CountingElements DEF ExistsBijection
  <2> QED
    BY <2>4
<1> DEFINE T == {i \in 1..Len(a) : a[i] # b[i]}
<1>4. SUFFICES ASSUME T # {} PROVE FALSE
  BY <1>3, SeqEqual
<1>t. T \subseteq Nat
  OBVIOUS
<1>5. PICK i \in T : \A m \in T : i <= m
  <2> HIDE DEF T
  <2> QED
    BY <1>4, <1>t, LeastNumber
<1>6. i \in 1..Len(a) /\ a[i] # b[i] /\ \A m \in 1..Len(a) : m < i => a[m] = b[m]
  <2>1. i \in 1..Len(a) /\ a[i] # b[i]
    OBVIOUS
  <2>2. ASSUME NEW m \in 1..Len(a), m < i PROVE a[m] = b[m]
    <3>1. m \notin T
      <4> HIDE DEF T
      <4>1. ~(i <= m)
        BY <2>2, <2>1
      <4> QED
        BY <4>1, <1>5
    <3> QED
      BY <3>1
  <2> QED
    BY <2>1, <2>2
<1> HIDE DEF T
<1>7. PICK j \in 1..Len(b) : a[i] = b[j]
  BY <1>2, <1>6
<1>8. PICK k \in 1..Len(a) : a[k] = b[i]
  BY <1>2, <1>3, <1>6
<1>9. j > i
  <2>1. j # i
    BY <1>6, <1>7
  <2>2. ~(j < i)
    <3> SUFFICES ASSUME j < i PROVE FALSE
      OBVIOUS
    <3>1. a[j] = a[i] /\ j \in 1..Len(a)
      BY <1>3, <1>6, <1>7
    <3> QED
      BY <3>1, <1>1, <1>6 DEF Distinct
  <2> QED
    BY <2>1, <2>2, <1>1, <1>6
<1>10. k > i
  <2>1. k # i
    BY <1>6, <1>8
  <2>2. ~(k < i)
    <3> SUFFICES ASSUME k < i PROVE FALSE
      OBVIOUS
    <3>1. b[k] = b[i] /\ k \in 1..Len(b) /\ i \in 1..Len(b)
      BY <1>3, <1>6, <1>8
    <3> QED
      BY <3>1, <1>1, <1>6 DEF Distinct
  <2> QED
    BY <2>1, <2>2, <1>1, <1>6
<1>11. ~Precedes(b[j], b[i])
  BY <1>1, <1>3, <1>6, <1>9 DEF Ascending
<1>12. ~Precedes(a[k], a[i])
  BY <1>1, <1>6, <1>10 DEF Ascending
<1>13. ~Precedes(a[i], b[i]) /\ ~Precedes(b[i], a[i])
  BY <1>7, <1>8, <1>11, <1>12
<1>14. a[i] \in Seq(Nat) /\ b[i] \in Seq(Nat)
  BY <1>1, <1>3, <1>6
<1> QED
  BY <1>6, <1>13, <1>14, PrecedesOrder

(* Min and Max of a finite set of positions are in it, and bound it.          *)
LEMMA MinAndMax ==
  ASSUME NEW n \in Nat, NEW T \in SUBSET (1..n), T # {}
  PROVE  /\ Min(T) \in T /\ \A x \in T : Min(T) <= x
         /\ Max(T) \in T /\ \A x \in T : x <= Max(T)
<1>1. \E m \in T : \A x \in T : m <= x
  <2>1. T \subseteq Nat
    OBVIOUS
  <2> QED
    BY <2>1, LeastNumber
<1>2. \E m \in T : \A x \in T : m >= x
  <2> DEFINE far == {d \in Nat : n - d \in T}
  <2>0. \A x \in T : x \in 1..n /\ n - x \in Nat /\ n - (n - x) = x
    OBVIOUS
  <2>1. far \subseteq Nat /\ far # {}
    <3>1. PICK x \in T : TRUE
      OBVIOUS
    <3>2. n - x \in far
      BY <2>0
    <3> QED
      BY <3>2
  <2>2. PICK d \in far : \A y \in far : d <= y
    <3> HIDE DEF far
    <3> QED
      BY <2>1, LeastNumber
  <2>3. n - d \in T /\ d \in Nat
    BY <2>2
  <2>4. ASSUME NEW x \in T PROVE n - d >= x
    <3>1. n - x \in far
      BY <2>0
    <3>2. d <= n - x
      BY <2>2, <3>1
    <3> HIDE DEF far
    <3> QED
      BY <3>2, <2>0, <2>3
  <2> QED
    BY <2>3, <2>4
<1>3. Min(T) \in T /\ \A x \in T : Min(T) <= x
  BY <1>1 DEF Min
<1>4. Max(T) \in T /\ \A x \in T : Max(T) >= x
  BY <1>2 DEF Max
<1>5. \A x \in T : x \in Int
  OBVIOUS
<1> QED
  BY <1>3, <1>4, <1>5

(* The positions from the first to the last of which strip() keeps.           *)
Kept(v) == {i \in DOMAIN v : v[i] \notin Whitespace}

(* Trimmed cuts at the first and the last position that are kept.             *)
LEMMA TrimmedIs ==
  ASSUME NEW v
  PROVE  Trimmed(v) = IF Kept(v) = {} THEN <<>> ELSE SubSeq(v, Min(Kept(v)), Max(Kept(v)))
  BY DEF Trimmed, Kept

(* What lies outside of the positions kept is whitespace, what lies at the ends of*)
(* them is not.                                                               *)
LEMMA KeptFacts ==
  ASSUME NEW v \in Seq(Nat), Kept(v) # {}
  PROVE  /\ Min(Kept(v)) \in 1..Len(v) /\ Max(Kept(v)) \in 1..Len(v)
         /\ Min(Kept(v)) <= Max(Kept(v))
         /\ v[Min(Kept(v))] \notin Whitespace /\ v[Max(Kept(v))] \notin Whitespace
         /\ \A i \in 1..Len(v) : i < Min(Kept(v)) \/ i > Max(Kept(v)) => v[i] \in Whitespace
<1>1. Len(v) \in Nat /\ DOMAIN v = 1..Len(v)
  BY LenProperties
<1>2. Kept(v) \in SUBSET (1..Len(v))
  BY <1>1 DEF Kept
<1> DEFINE lo == Min(Kept(v))
           hi == Max(Kept(v))
<1>3. lo \in Kept(v) /\ hi \in Kept(v) /\ \A i \in Kept(v) : lo <= i /\ i <= hi
  BY <1>1, <1>2, MinAndMax
<1> HIDE DEF lo, hi
<1>4. lo \in 1..Len(v) /\ hi \in 1..Len(v) /\ v[lo] \notin Whitespace /\ v[hi] \notin Whitespace
  BY <1>1, <1>3 DEF Kept
<1>5. lo <= hi
  BY <1>3
<1>6. ASSUME NEW i \in 1..Len(v), i < lo \/ i > hi PROVE v[i] \in Whitespace
  <2>1. i \notin Kept(v)
    BY <1>3, <1>4, <1>6
  <2> QED
    BY <2>1, <1>1 DEF Kept
<1> QED
  BY <1>4, <1>5, <1>6 DEF lo, hi

(* What is left of a text is a text.                                          *)
LEMMA TrimmedType ==
  ASSUME NEW v \in Seq(Nat)
  PROVE  Trimmed(v) \in Seq(Nat)
<1>1. CASE Kept(v) = {}
  BY <1>1, TrimmedIs, EmptySeq
<1>2. CASE Kept(v) # {}
  <2> DEFINE lo == Min(Kept(v))
             hi == Max(Kept(v))
  <2>1. lo \in 1..Len(v) /\ hi \in 1..Len(v)
    BY <1>2, KeptFacts
  <2>2. Trimmed(v) = SubSeq(v, lo, hi)
    BY <1>2, TrimmedIs
  <2> HIDE DEF lo, hi
  <2>3. lo \in Int /\ hi \in Int /\ \A i \in lo..hi : v[i] \in Nat
    BY <2>1, LenProperties
  <2> QED
    BY <2>2, <2>3, SubSeqProperties
<1> QED
  BY <1>1, <1>2

(* v without the spaces at its ends, for a reader. *)
Stripped(v, s) ==
  /\ \E p \in Prefixes(v), q \in Suffixes(v) :
       Spaces(p) /\ Spaces(q) /\ v = p \o s \o q
  /\ s # <<>> => ~Spaces(<<Head(s)>>) /\ ~Spaces(<<Last(s)>>)

(* Core chooses such an s.                                                    *)
LEMMA CoreIs ==
  ASSUME NEW v
  PROVE  Core(v) = CHOOSE s \in SubSeqs(v) : Stripped(v, s)
  BY DEF Core, Stripped

(* Whitespace of the code and spaces of the definition are the same.          *)
LEMMA SpacesWhite ==
  ASSUME NEW s \in Seq(Nat)
  PROVE  Spaces(s) <=> \A i \in 1..Len(s) : s[i] \in Whitespace
<1>1. DOMAIN s = 1..Len(s)
  BY LenProperties
<1>2. Whitespace = {9, 10, 11, 12, 13, 32}
  BY DEF Whitespace, Tab, LF, VT, FF, CR, Space
<1> QED
  BY <1>1, <1>2 DEF Spaces

(* Prefixes, suffixes and parts of a text are texts.                          *)
LEMMA PartsAreText ==
  ASSUME NEW v \in Seq(Nat)
  PROVE  /\ \A p \in Prefixes(v) : p \in Seq(Nat)
         /\ \A q \in Suffixes(v) : q \in Seq(Nat)
         /\ \A s \in SubSeqs(v) : s \in Seq(Nat)
<1>1. Len(v) \in Nat /\ \A i \in 1..Len(v) : v[i] \in Nat
  BY LenProperties
<1>2. ASSUME NEW m \in 1..(Len(v) + 1), NEW n \in 0..Len(v) PROVE SubSeq(v, m, n) \in Seq(Nat)
  <2>1. m \in Int /\ n \in Int /\ \A i \in m..n : v[i] \in Nat
    BY <1>1
  <2> QED
    BY <2>1, SubSeqProperties
<1>3. ASSUME NEW p \in Prefixes(v) PROVE p \in Seq(Nat)
  <2>1. PICK l \in 0..Len(v) : p = SubSeq(v, 1, l)
    BY DEF Prefixes
  <2>2. 1 \in 1..(Len(v) + 1)
    BY <1>1
  <2> QED
    BY <2>1, <2>2, <1>2
<1>4. ASSUME NEW q \in Suffixes(v) PROVE q \in Seq(Nat)
  <2>1. CASE q = <<>>
    BY <2>1
  <2>2. CASE q # <<>>
    <3>1. PICK l \in 1..Len(v) : q = SubSeq(v, l, Len(v))
      BY <2>2 DEF Suffixes
    <3>2. l \in 1..(Len(v) + 1) /\ Len(v) \in 0..Len(v)
      BY <1>1
    <3> QED
      BY <3>1, <3>2, <1>2
  <2> QED
    BY <2>1, <2>2
<1>5. ASSUME NEW s \in SubSeqs(v) PROVE s \in Seq(Nat)
  <2>1. PICK i \in 0..Len(v), j \in 0..Len(v) : s = SubSeq(v, i + 1, j)
    BY DEF SubSeqs
  <2>2. i + 1 \in 1..(Len(v) + 1)
    BY <1>1
  <2> QED
    BY <2>1, <2>2, <1>2
<1> QED
  BY <1>3, <1>4, <1>5

(* What strip() returns is such an s ...                                      *)
LEMMA TrimmedStripped ==
  ASSUME NEW v \in Seq(Nat)
  PROVE  Trimmed(v) \in SubSeqs(v) /\ Stripped(v, Trimmed(v))
<1>1. Len(v) \in Nat /\ DOMAIN v = 1..Len(v) /\ \A i \in 1..Len(v) : v[i] \in Nat
  BY LenProperties
<1>2. CASE Kept(v) = {}
  <2>1. Trimmed(v) = <<>>
    BY <1>2, TrimmedIs
  <2>2. <<>> \in SubSeqs(v)
    <3>1. SubSeq(v, 0 + 1, 0) = <<>> /\ 0 \in 0..Len(v)
      BY <1>1, SubSeqEmpty
    <3> QED
      BY <3>1 DEF SubSeqs
  <2>3. v \in Prefixes(v)
    <3>1. SubSeq(v, 1, Len(v)) = v /\ Len(v) \in 0..Len(v)
      BY <1>1, SubSeqFull
    <3> QED
      BY <3>1 DEF Prefixes
  <2>4. <<>> \in Suffixes(v)
    BY DEF Suffixes
  <2>5. Spaces(v)
    BY <1>1, <1>2, SpacesWhite DEF Kept
  <2>6. Spaces(<<>>)
    BY DEF Spaces
  <2>7. v = v \o <<>> \o <<>>
    BY ConcatEmptySeq
  <2> QED
    BY <2>1, <2>2, <2>3, <2>4, <2>5, <2>6, <2>7 DEF Stripped
<1>3. CASE Kept(v) # {}
  <2> DEFINE lo == Min(Kept(v))
             hi == Max(Kept(v))
  <2>1. /\ lo \in 1..Len(v) /\ hi \in 1..Len(v) /\ lo <= hi
        /\ v[lo] \notin Whitespace /\ v[hi] \notin Whitespace
        /\ \A i \in 1..Len(v) : i < lo \/ i > hi => v[i] \in Whitespace
    BY <1>3, KeptFacts
  <2>2. Trimmed(v) = SubSeq(v, lo, hi)
    BY <1>3, TrimmedIs
  <2> HIDE DEF lo, hi
  <2> DEFINE s == SubSeq(v, lo, hi)
             p == SubSeq(v, 1, lo - 1)
             q == SubSeq(v, hi + 1, Len(v))
  <2>3. lo \in Int /\ hi \in Int /\ lo - 1 \in Int /\ hi + 1 \in Int /\ 1 \in Int /\ Len(v) \in Int
    BY <1>1, <2>1
  <2>4. /\ s \in Seq(Nat) /\ Len(s) = hi - lo + 1
        /\ \A i \in 1..(hi - lo + 1) : s[i] = v[lo + i - 1]
    <3>1. \A i \in lo..hi : v[i] \in Nat
      BY <1>1, <2>1
    <3>2. /\ s \in Seq(Nat) /\ Len(s) = IF lo <= hi THEN hi - lo + 1 ELSE 0
          /\ \A i \in 1..(hi - lo + 1) : s[i] = v[lo + i - 1]
      BY <2>3, <3>1, SubSeqProperties
    <3> HIDE DEF s
    <3> QED
      BY <2>1, <3>2
  <2>5. p \in Seq(Nat) /\ Spaces(p)
    <3>1. \A i \in 1..(lo - 1) : v[i] \in Nat
      BY <1>1, <2>1
    <3>2. /\ p \in Seq(Nat) /\ Len(p) = IF 1 <= lo - 1 THEN lo - 1 - 1 + 1 ELSE 0
          /\ \A i \in 1..(lo - 1 - 1 + 1) : p[i] = v[1 + i - 1]
      BY <2>3, <3>1, SubSeqProperties
    <3>3. ASSUME NEW i \in 1..Len(p) PROVE p[i] \in Whitespace
      <4>1. i \in 1..Len(v) /\ i < lo /\ i \in 1..(lo - 1 - 1 + 1) /\ 1 + i - 1 = i
        BY <1>1, <2>1, <3>2
      <4> QED
        BY <4>1, <2>1, <3>2
    <3> HIDE DEF p
    <3> QED
      BY <3>2, <3>3, SpacesWhite
  <2>6. q \in Seq(Nat) /\ Spaces(q)
    <3>1. \A i \in (hi + 1)..Len(v) : v[i] \in Nat
      BY <1>1, <2>1
    <3>2. /\ q \in Seq(Nat)
          /\ Len(q) = IF hi + 1 <= Len(v) THEN Len(v) - (hi + 1) + 1 ELSE 0
          /\ \A i \in 1..(Len(v) - (hi + 1) + 1) : q[i] = v[hi + 1 + i - 1]
      BY <2>3, <3>1, SubSeqProperties
    <3>3. ASSUME NEW i \in 1..Len(q) PROVE q[i] \in Whitespace
      <4>1. /\ hi + 1 + i - 1 \in 1..Len(v) /\ hi + 1 + i - 1 > hi
            /\ i \in 1..(Len(v) - (hi + 1) + 1)
        BY <1>1, <2>1, <3>2
      <4> QED
        BY <4>1, <2>1, <3>2
    <3> HIDE DEF q
    <3> QED
      BY <3>2, <3>3, SpacesWhite
  <2>7. v = p \o s \o q
    <3>1. /\ 1 \in 1..(Len(v) + 1) /\ lo - 1 \in (1 - 1)..Len(v) /\ hi \in (lo - 1)..Len(v)
          /\ hi \in (1 - 1)..Len(v) /\ Len(v) \in hi..Len(v) /\ lo - 1 + 1 = lo
      BY <1>1, <2>1
    <3>2. SubSeq(v, 1, lo - 1) \o SubSeq(v, lo - 1 + 1, hi) = SubSeq(v, 1, hi)
      BY <3>1, ConcatAdjacentSubSeq
    <3>3. SubSeq(v, 1, hi) \o SubSeq(v, hi + 1, Len(v)) = SubSeq(v, 1, Len(v))
      BY <3>1, ConcatAdjacentSubSeq
    <3>4. SubSeq(v, 1, Len(v)) = v
      BY SubSeqFull
    <3> QED
      BY <3>1, <3>2, <3>3, <3>4
  <2>8. p \in Prefixes(v)
    <3>1. lo - 1 \in 0..Len(v)
      BY <1>1, <2>1
    <3> QED
      BY <3>1 DEF Prefixes
  <2>9. q \in Suffixes(v)
    <3>1. CASE hi = Len(v)
      <4>1. q = <<>>
        BY <3>1, <2>3, SubSeqEmpty
      <4> QED
        BY <4>1 DEF Suffixes
    <3>2. CASE hi # Len(v)
      <4>1. hi + 1 \in 1..Len(v)
        <5> HIDE DEF q, p, s
        <5>1. hi \in 1..Len(v) /\ hi \in Int /\ Len(v) \in Int
          BY <2>1, <2>3
        <5> QED
          BY <5>1, <3>2
      <4> QED
        BY <4>1 DEF Suffixes
    <3> QED
      BY <3>1, <3>2
  <2>10. s \in SubSeqs(v)
    <3>1. lo - 1 \in 0..Len(v) /\ hi \in 0..Len(v) /\ lo - 1 + 1 = lo
      BY <1>1, <2>1
    <3>2. SubSeq(v, (lo - 1) + 1, hi) \in SubSeqs(v)
      <4> DEFINE i == lo - 1
      <4>1. i \in 0..Len(v)
        BY <3>1
      <4> HIDE DEF i, s, p, q
      <4>2. hi \in 0..Len(v)
        BY <3>1
      <4>3. SubSeq(v, i + 1, hi) \in SubSeqs(v)
        BY <4>1, <4>2 DEF SubSeqs
      <4> QED
        BY <4>3 DEF i
    <3> QED
      BY <3>1, <3>2
  <2>11. ~Spaces(<<Head(s)>>) /\ ~Spaces(<<Last(s)>>)
    <3>1. /\ 1 \in 1..(hi - lo + 1) /\ hi - lo + 1 \in 1..(hi - lo + 1)
          /\ lo + 1 - 1 = lo /\ lo + (hi - lo + 1) - 1 = hi
      BY <1>1, <2>1
    <3>2. s[1] = v[lo] /\ s[Len(s)] = v[hi]
      BY <2>4, <3>1
    <3>3. Head(s) = v[lo] /\ Last(s) = v[hi]
      <4> HIDE DEF s
      <4> QED
        BY <3>2 DEF Last
    <3>4. \A x \in Nat : <<x>> \in Seq(Nat) /\ Len(<<x>>) = 1 /\ <<x>>[1] = x /\ 1 \in 1..1
      OBVIOUS
    <3>5. \A x \in Nat : Spaces(<<x>>) => x \in Whitespace
      BY <3>4, SpacesWhite
    <3> HIDE DEF s
    <3> QED
      BY <3>3, <3>5, <1>1, <2>1
  <2> HIDE DEF s, p, q
  <2>12. Stripped(v, s)
    BY <2>5, <2>6, <2>7, <2>8, <2>9, <2>11 DEF Stripped
  <2> QED
    BY <2>2, <2>10, <2>12 DEF s
<1> QED
  BY <1>2, <1>3

(* ... and there is no other one.                                             *)
LEMMA StrippedUnique ==
  ASSUME NEW v \in Seq(Nat), NEW s \in Seq(Nat), Stripped(v, s)
  PROVE  s = Trimmed(v)
<1>1. PICK p \in Prefixes(v), q \in Suffixes(v) : Spaces(p) /\ Spaces(q) /\ v = p \o s \o q
  BY DEF Stripped
<1>2. p \in Seq(Nat) /\ q \in Seq(Nat)
  BY PartsAreText
<1>3. /\ \A i \in 1..Len(p) : p[i] \in Whitespace
      /\ \A i \in 1..Len(q) : q[i] \in Whitespace
  BY <1>1, <1>2, SpacesWhite
<1> DEFINE a == Len(p)
           b == Len(p) + Len(s)
<1>4. Len(p) \in Nat /\ Len(s) \in Nat /\ Len(q) \in Nat /\ Len(v) \in Nat /\ DOMAIN v = 1..Len(v)
  BY <1>2, LenProperties
<1>5. /\ p \o s \in Seq(Nat) /\ Len(p \o s) = b
      /\ \A i \in 1..b : (p \o s)[i] = IF i <= a THEN p[i] ELSE s[i - a]
  BY <1>2, ConcatProperties
<1>6. /\ Len(v) = b + Len(q)
      /\ \A i \in 1..(b + Len(q)) : v[i] = IF i <= b THEN (p \o s)[i] ELSE q[i - b]
  BY <1>1, <1>2, <1>5, ConcatProperties
<1>n. a \in Nat /\ b \in Nat /\ a <= b /\ b <= Len(v) /\ b - a = Len(s) /\ Len(v) - b = Len(q)
  BY <1>4, <1>6
<1> HIDE DEF a, b
<1>7. ASSUME NEW i \in 1..Len(v), i <= a \/ i > b PROVE v[i] \in Whitespace
  <2>1. CASE i <= a
    <3>1. i \in 1..b /\ i <= b /\ i \in 1..(b + Len(q))
      BY <2>1, <1>n, <1>6
    <3>2. v[i] = p[i] /\ i \in 1..Len(p)
      BY <3>1, <2>1, <1>5, <1>6 DEF a
    <3> QED
      BY <3>2, <1>3
  <2>2. CASE i > b
    <3>1. ~(i <= b) /\ i \in 1..(b + Len(q)) /\ i - b \in 1..Len(q)
      BY <2>2, <1>n, <1>6
    <3> QED
      BY <3>1, <1>3, <1>6
  <2> QED
    BY <1>7, <2>1, <2>2
<1>8. ASSUME NEW i \in 1..Len(s) PROVE a + i \in 1..Len(v) /\ v[a + i] = s[i]
  <2>1. /\ a + i \in 1..Len(v) /\ a + i \in 1..b /\ a + i <= b /\ ~(a + i <= a) /\ a + i - a = i
        /\ a + i \in 1..(b + Len(q))
    BY <1>n, <1>4, <1>6
  <2>2. v[a + i] = (p \o s)[a + i]
    BY <2>1, <1>6
  <2>3. (p \o s)[a + i] = s[i]
    <3>1. ASSUME NEW k \in 1..b, ~(k <= a) PROVE (p \o s)[k] = s[k - a]
      BY <3>1, <1>5
    <3> DEFINE k == a + i
    <3>2. k \in 1..b /\ ~(k <= a) /\ k - a = i
      BY <2>1, <1>n
    <3> HIDE DEF k
    <3>3. (p \o s)[k] = s[k - a]
      BY <3>1, <3>2
    <3> QED
      BY <3>2, <3>3 DEF k
  <2> QED
    BY <2>1, <2>2, <2>3
<1>9. CASE s = <<>>
  <2>1. a = b
    BY <1>9, <1>n, EmptySeq
  <2>2. \A i \in 1..Len(v) : v[i] \in Whitespace
    <3>1. \A i \in 1..Len(v) : i <= a \/ i > b
      BY <2>1, <1>n
    <3> QED
      BY <3>1, <1>7
  <2>3. Kept(v) = {}
    BY <2>2, <1>4 DEF Kept
  <2> QED
    BY <2>3, <1>9, TrimmedIs
<1>10. CASE s # <<>>
  <2>1. Len(s) \in Nat \ {0} /\ 1 \in 1..Len(s) /\ Len(s) \in 1..Len(s)
    BY <1>10, EmptySeq
  <2>2. s[1] \notin Whitespace /\ s[Len(s)] \notin Whitespace
    <3>1. ~Spaces(<<Head(s)>>) /\ ~Spaces(<<Last(s)>>)
      BY <1>10 DEF Stripped
    <3>2. Head(s) = s[1] /\ Last(s) = s[Len(s)]
      BY <2>1 DEF Last
    <3>3. \A x : <<x>>[1] = x /\ DOMAIN <<x>> = {1}
      OBVIOUS
    <3>4. \A x : x \in Whitespace => Spaces(<<x>>)
      BY <3>3 DEF Spaces, Whitespace, Tab, LF, VT, FF, CR, Space
    <3> QED
      BY <3>1, <3>2, <3>4
  <2>3. a + 1 \in 1..Len(v) /\ v[a + 1] \notin Whitespace /\ a + 1 \in Kept(v)
    BY <2>1, <2>2, <1>4, <1>8 DEF Kept
  <2>4. b \in 1..Len(v) /\ v[b] \notin Whitespace /\ b \in Kept(v)
    <3>1. a + Len(s) = b
      BY <1>n, <2>1
    <3> QED
      BY <3>1, <2>1, <2>2, <1>4, <1>8 DEF Kept
  <2>5. Kept(v) # {}
    BY <2>3
  <2> DEFINE lo == Min(Kept(v))
             hi == Max(Kept(v))
  <2>6. /\ lo \in 1..Len(v) /\ hi \in 1..Len(v)
        /\ v[lo] \notin Whitespace /\ v[hi] \notin Whitespace
        /\ \A i \in 1..Len(v) : i < lo \/ i > hi => v[i] \in Whitespace
    BY <2>5, KeptFacts
  <2>7. Trimmed(v) = SubSeq(v, lo, hi)
    BY <2>5, TrimmedIs
  <2> HIDE DEF lo, hi
  <2>8. ~(lo <= a) /\ ~(lo > b) /\ ~(hi <= a) /\ ~(hi > b)
    BY <2>6, <1>7
  <2>9. ~(a + 1 < lo) /\ ~(b > hi)
    BY <2>3, <2>4, <2>6
  <2>10. lo = a + 1 /\ hi = b
    BY <2>6, <2>8, <2>9, <1>n, <1>4
  <2>11. \A i \in (a + 1)..b : v[i] \in Nat
    <3>1. \A i \in (a + 1)..b : i \in 1..Len(v)
      BY <1>n, <1>4
    <3> QED
      BY <3>1, ElementOfSeq
  <2>12. /\ SubSeq(v, a + 1, b) \in Seq(Nat)
         /\ Len(SubSeq(v, a + 1, b)) = IF a + 1 <= b THEN b - (a + 1) + 1 ELSE 0
         /\ \A i \in 1..(b - (a + 1) + 1) : SubSeq(v, a + 1, b)[i] = v[a + 1 + i - 1]
    <3>1. a + 1 \in Int /\ b \in Int
      BY <1>n
    <3> QED
      BY <2>11, <3>1, SubSeqProperties
  <2>13. Len(SubSeq(v, a + 1, b)) = Len(s)
    <3>1. a + 1 <= b /\ b - (a + 1) + 1 = Len(s)
      BY <2>1, <1>n
    <3> QED
      BY <2>12, <3>1
  <2>14. \A i \in 1..Len(s) : SubSeq(v, a + 1, b)[i] = s[i]
    <3> SUFFICES ASSUME NEW i \in 1..Len(s) PROVE SubSeq(v, a + 1, b)[i] = s[i]
      OBVIOUS
    <3>1. i \in 1..(b - (a + 1) + 1) /\ a + 1 + i - 1 = a + i
      BY <1>n, <1>4
    <3>2. SubSeq(v, a + 1, b)[i] = v[a + 1 + i - 1]
      BY <2>12, <3>1
    <3> QED
      BY <3>1, <3>2, <1>8
  <2>15. s = SubSeq(v, a + 1, b)
    BY <2>12, <2>13, <2>14, SeqEqual
  <2> QED
    BY <2>7, <2>10, <2>15
<1> QED
  BY <1>9, <1>10

(* strip() leaves what is between the spaces. *)
LEMMA CoreTrimmed ==
  ASSUME NEW v \in Seq(Nat)
  PROVE  Core(v) = Trimmed(v)
<1>1. Trimmed(v) \in SubSeqs(v) /\ Stripped(v, Trimmed(v))
  BY TrimmedStripped
<1>2. Core(v) \in SubSeqs(v) /\ Stripped(v, Core(v))
  BY <1>1, CoreIs
<1>3. Core(v) \in Seq(Nat)
  BY <1>2, PartsAreText
<1> QED
  BY <1>2, <1>3, StrippedUnique

(* Where the "=" of a component is. *)
LEMMA EncodedAt ==
  ASSUME NEW l \in Seq(Nat), NEW t \in Seq(Nat), NEW x \in Nat
  PROVE  /\ l \o <<x>> \o t \in Seq(Nat)
         /\ Len(l \o <<x>> \o t) = Len(l) + 1 + Len(t)
         /\ \A i \in 1..Len(l) : (l \o <<x>> \o t)[i] = l[i]
         /\ (l \o <<x>> \o t)[Len(l) + 1] = x
         /\ \A i \in 1..Len(t) : (l \o <<x>> \o t)[Len(l) + 1 + i] = t[i]
<1>1. <<x>> \in Seq(Nat) /\ Len(<<x>>) = 1 /\ <<x>>[1] = x
  OBVIOUS
<1>2. Len(l) \in Nat /\ Len(t) \in Nat
  OBVIOUS
<1>3. /\ l \o <<x>> \in Seq(Nat) /\ Len(l \o <<x>>) = Len(l) + 1
      /\ \A i \in 1..(Len(l) + 1) : (l \o <<x>>)[i] = IF i <= Len(l) THEN l[i] ELSE <<x>>[i - Len(l)]
  BY <1>1, ConcatProperties
<1> DEFINE h == l \o <<x>>
<1> HIDE DEF h
<1>4. /\ h \o t \in Seq(Nat) /\ Len(h \o t) = Len(h) + Len(t)
      /\ \A i \in 1..(Len(h) + Len(t)) : (h \o t)[i] = IF i <= Len(h) THEN h[i] ELSE t[i - Len(h)]
  BY <1>3, ConcatProperties DEF h
<1>5. Len(h) = Len(l) + 1 /\ h \in Seq(Nat)
  BY <1>3 DEF h
<1>6. \A i \in 1..Len(l) : h[i] = l[i]
  BY <1>2, <1>3 DEF h
<1>7. h[Len(l) + 1] = x
  <2>1. Len(l) + 1 \in 1..(Len(l) + 1) /\ ~(Len(l) + 1 <= Len(l)) /\ Len(l) + 1 - Len(l) = 1
    BY <1>2
  <2> QED
    BY <2>1, <1>1, <1>3 DEF h
<1>8. ASSUME NEW i \in 1..Len(h) PROVE (h \o t)[i] = h[i]
  <2>1. i \in 1..(Len(h) + Len(t)) /\ i <= Len(h)
    BY <1>2, <1>5
  <2> QED
    BY <2>1, <1>4
<1>9. ASSUME NEW i \in 1..Len(t) PROVE (h \o t)[Len(l) + 1 + i] = t[i]
  <2>1. /\ Len(l) + 1 + i \in 1..(Len(h) + Len(t)) /\ ~(Len(l) + 1 + i <= Len(h))
        /\ Len(l) + 1 + i - Len(h) = i
    BY <1>2, <1>5
  <2> QED
    BY <2>1, <1>4
<1>10. ASSUME NEW i \in 1..Len(l) PROVE (h \o t)[i] = l[i]
  <2>1. i \in 1..Len(h)
    BY <1>2, <1>5
  <2> QED
    BY <2>1, <1>6, <1>8
<1>11. (h \o t)[Len(l) + 1] = x
  <2>1. Len(l) + 1 \in 1..Len(h)
    BY <1>2, <1>5
  <2> QED
    BY <2>1, <1>7, <1>8
<1> QED
  BY <1>4, <1>5, <1>9, <1>10, <1>11 DEF h

(* x does not occur in s.                                                     *)
Without(s, x) == \A i \in 1..Len(s) : s[i] # x

(* A component as it is spelled, x being the equals sign.                     *)
Joined(s, x, t) == s \o <<x>> \o t

(* The first "=" ends the label. *)
LEMMA LabelEnds ==
  ASSUME NEW l \in Seq(Nat), NEW t \in Seq(Nat), NEW m \in Seq(Nat), NEW u \in Seq(Nat),
         NEW x \in Nat, Without(l, x), Without(m, x),
         Joined(l, x, t) = Joined(m, x, u)
  PROVE  l = m /\ t = u
<1> DEFINE w == l \o <<x>> \o t
<1>1. /\ w \in Seq(Nat) /\ Len(w) = Len(l) + 1 + Len(t)
      /\ \A i \in 1..Len(l) : w[i] = l[i]
      /\ w[Len(l) + 1] = x
      /\ \A i \in 1..Len(t) : w[Len(l) + 1 + i] = t[i]
  BY EncodedAt
<1>2. /\ Len(w) = Len(m) + 1 + Len(u)
      /\ \A i \in 1..Len(m) : w[i] = m[i]
      /\ w[Len(m) + 1] = x
      /\ \A i \in 1..Len(u) : w[Len(m) + 1 + i] = u[i]
  <2>1. w = m \o <<x>> \o u
    BY DEF Joined
  <2> HIDE DEF w
  <2> QED
    BY <2>1, EncodedAt
<1>3. Len(l) \in Nat /\ Len(t) \in Nat /\ Len(m) \in Nat /\ Len(u) \in Nat
  OBVIOUS
<1> HIDE DEF w
<1>4. ~(Len(l) < Len(m))
  <2> SUFFICES ASSUME Len(l) < Len(m) PROVE FALSE
    OBVIOUS
  <2>1. Len(l) + 1 \in 1..Len(m)
    BY <1>3
  <2>2. m[Len(l) + 1] # x
    BY <2>1 DEF Without
  <2> QED
    BY <2>1, <2>2, <1>1, <1>2
<1>5. ~(Len(m) < Len(l))
  <2> SUFFICES ASSUME Len(m) < Len(l) PROVE FALSE
    OBVIOUS
  <2>1. Len(m) + 1 \in 1..Len(l)
    BY <1>3
  <2>2. l[Len(m) + 1] # x
    BY <2>1 DEF Without
  <2> QED
    BY <2>1, <2>2, <1>1, <1>2
<1>6. Len(l) = Len(m) /\ Len(t) = Len(u)
  BY <1>1, <1>2, <1>3, <1>4, <1>5
<1>7. l = m
  BY <1>1, <1>2, <1>6, SeqEqual
<1>8. t = u
  BY <1>1, <1>2, <1>6, SeqEqual
<1> QED
  BY <1>7, <1>8

-----------------------------------------------------------------------------
(* What the checks of canonical_form establish of each component. *)
LEMMA ComponentFacts ==
  ASSUME NEW c \in Seq(Items), Accepted(c), NEW i \in DOMAIN c
  PROVE  /\ c[i][1] \in Seq(Nat) /\ c[i][2] \in Seq(Nat) /\ Trimmed(c[i][2]) \in Seq(Nat)
         /\ \A k \in 1..Len(c[i][1]) : c[i][1][k] # Equals /\ c[i][1][k] # US
         /\ \A k \in 1..Len(Trimmed(c[i][2])) : Trimmed(c[i][2])[k] # US
<1>1. i \in 1..Len(c) /\ c[i] \in Items
  BY LenProperties
<1>2. c[i] \in Seq(Seq(CodePoint) \cup {NotText})
  BY <1>1, ItemsAssumption, Accepted(c) DEF Accepted, Paired
<1>3. /\ Len(c[i]) = 2
      /\ LabelAccepted(c[i][1]) /\ ValueAccepted(c[i][2])
  BY DEF Accepted, Paired
<1>4. 1 \in 1..Len(c[i]) /\ 2 \in 1..Len(c[i])
  BY <1>3
<1>5. c[i][1] \in Seq(CodePoint) /\ c[i][2] \in Seq(CodePoint)
  <2>1. c[i][1] \in Seq(CodePoint) \cup {NotText} /\ c[i][2] \in Seq(CodePoint) \cup {NotText}
    BY <1>2, <1>4, ElementOfSeq
  <2>2. c[i][1] # NotText /\ c[i][2] # NotText
    BY <1>3 DEF LabelAccepted, ValueAccepted, Text
  <2> QED
    BY <2>1, <2>2
<1>6. c[i][1] \in Seq(Nat) /\ c[i][2] \in Seq(Nat)
  BY <1>5, CodePointNat, SeqMonotonic
<1>7. Trimmed(c[i][2]) \in Seq(Nat)
  BY <1>6, TrimmedType
<1>8. DOMAIN c[i][1] = 1..Len(c[i][1]) /\ DOMAIN Trimmed(c[i][2]) = 1..Len(Trimmed(c[i][2]))
  BY <1>6, <1>7, LenProperties
<1>9. \A k \in 1..Len(c[i][1]) : c[i][1][k] # Equals /\ c[i][1][k] # US
  <2>1. \A k \in DOMAIN c[i][1] : c[i][1][k] \in 33..126 /\ c[i][1][k] # Equals
    BY <1>3 DEF LabelAccepted
  <2>2. \A x \in 33..126 : x # US
    BY DEF US
  <2> QED
    BY <2>1, <2>2, <1>8
<1>10. \A k \in 1..Len(Trimmed(c[i][2])) : Trimmed(c[i][2])[k] # US
  BY <1>3, <1>8 DEF ValueAccepted, US
<1> QED
  BY <1>6, <1>7, <1>9, <1>10

(* An encoded component is a text without a separator.                        *)
LEMMA EncodedFacts ==
  ASSUME NEW c \in Seq(Items), Accepted(c), NEW i \in DOMAIN c
  PROVE  /\ Encoded(c[i]) \in Seq(Nat)
         /\ \A k \in 1..Len(Encoded(c[i])) : Encoded(c[i])[k] # US
<1> DEFINE l == c[i][1]
           t == Trimmed(c[i][2])
           w == Encoded(c[i])
<1>1. /\ l \in Seq(Nat) /\ t \in Seq(Nat)
      /\ \A k \in 1..Len(l) : l[k] # US
      /\ \A k \in 1..Len(t) : t[k] # US
  BY ComponentFacts
<1>1a. \A k \in 1..Len(t) : t[k] # US
  BY ComponentFacts
<1>2. w = l \o <<Equals>> \o t /\ Equals \in Nat /\ Equals # US
  BY DEF Encoded, Equals, US
<1> HIDE DEF l, t, w
<1>3. /\ w \in Seq(Nat) /\ Len(w) = Len(l) + 1 + Len(t)
      /\ \A k \in 1..Len(l) : w[k] = l[k]
      /\ w[Len(l) + 1] = Equals
      /\ \A k \in 1..Len(t) : w[Len(l) + 1 + k] = t[k]
  BY <1>1, <1>2, EncodedAt
<1>4. ASSUME NEW k \in 1..Len(w) PROVE w[k] # US
  <2>1. Len(l) \in Nat /\ Len(t) \in Nat
    BY <1>1
  <2>2. CASE k \in 1..Len(l)
    BY <2>2, <1>1, <1>3
  <2>3. CASE k = Len(l) + 1
    BY <2>3, <1>2, <1>3
  <2>4. CASE k > Len(l) + 1
    <3>1. k - (Len(l) + 1) \in 1..Len(t) /\ Len(l) + 1 + (k - (Len(l) + 1)) = k
      BY <2>1, <2>4, <1>3
    <3>2. w[k] = t[k - (Len(l) + 1)]
      BY <3>1, <1>3
    <3> QED
      BY <3>1, <3>2, <1>1a
  <2> QED
    BY <2>1, <2>2, <2>3, <2>4, <1>3
<1> QED
  BY <1>3, <1>4 DEF w

(* A component can be read off its encoding. *)
LEMMA EncodedApart ==
  ASSUME NEW c \in Seq(Items), Accepted(c), NEW i \in DOMAIN c,
         NEW d \in Seq(Items), Accepted(d), NEW j \in DOMAIN d
  PROVE  Encoded(c[i]) = Encoded(d[j]) <=>
           c[i][1] = d[j][1] /\ Core(c[i][2]) = Core(d[j][2])
<1>1. /\ c[i][1] \in Seq(Nat) /\ c[i][2] \in Seq(Nat) /\ Trimmed(c[i][2]) \in Seq(Nat)
      /\ \A k \in 1..Len(c[i][1]) : c[i][1][k] # Equals
  BY ComponentFacts
<1>2. /\ d[j][1] \in Seq(Nat) /\ d[j][2] \in Seq(Nat) /\ Trimmed(d[j][2]) \in Seq(Nat)
      /\ \A k \in 1..Len(d[j][1]) : d[j][1][k] # Equals
  BY ComponentFacts
<1>3. Core(c[i][2]) = Trimmed(c[i][2]) /\ Core(d[j][2]) = Trimmed(d[j][2])
  BY <1>1, <1>2, CoreTrimmed
<1>4. Equals \in Nat
  BY DEF Equals
<1>5. Encoded(c[i]) = Encoded(d[j]) => c[i][1] = d[j][1] /\ Trimmed(c[i][2]) = Trimmed(d[j][2])
  <2> SUFFICES ASSUME Encoded(c[i]) = Encoded(d[j])
               PROVE  c[i][1] = d[j][1] /\ Trimmed(c[i][2]) = Trimmed(d[j][2])
    OBVIOUS
  <2> DEFINE l == c[i][1]
             m == d[j][1]
             t == Trimmed(c[i][2])
             u == Trimmed(d[j][2])
  <2>2. Joined(l, Equals, t) = Joined(m, Equals, u)
    BY DEF Encoded, Joined
  <2>3. Without(l, Equals) /\ Without(m, Equals)
    BY <1>1, <1>2 DEF Without
  <2>4. l \in Seq(Nat) /\ t \in Seq(Nat) /\ m \in Seq(Nat) /\ u \in Seq(Nat)
    BY <1>1, <1>2
  <2> HIDE DEF l, m, t, u
  <2>5. l = m /\ t = u
    BY <2>2, <2>3, <2>4, <1>4, LabelEnds
  <2> QED
    BY <2>5 DEF l, m, t, u
<1>6. c[i][1] = d[j][1] /\ Trimmed(c[i][2]) = Trimmed(d[j][2]) => Encoded(c[i]) = Encoded(d[j])
  BY DEF Encoded
<1> QED
  BY <1>3, <1>5, <1>6

(* The encoded components, before they are sorted. *)
Spelled(c) == [i \in DOMAIN c |-> Encoded(c[i])]

(* An order of the places of e, as encoded.sort looks for it. *)
Orders(p, e) == \A i, j \in DOMAIN e : i < j => ~Precedes(e[p[j]], e[p[i]])

(* Encoded components are text, and no two are the same. *)
LEMMA SpelledFacts ==
  ASSUME NEW c \in Seq(Items), Accepted(c)
  PROVE  /\ Spelled(c) \in Seq(Seq(Nat)) /\ Distinct(Spelled(c))
         /\ DOMAIN Spelled(c) = DOMAIN c
         /\ \A i \in DOMAIN c : Spelled(c)[i] = Encoded(c[i])
         /\ \A i \in DOMAIN c : \A k \in 1..Len(Encoded(c[i])) : Encoded(c[i])[k] # US
<1>1. /\ DOMAIN Spelled(c) = DOMAIN c
      /\ \A i \in DOMAIN c : Spelled(c)[i] = Encoded(c[i])
  BY DEF Spelled
<1>2. \A i \in DOMAIN c : /\ Encoded(c[i]) \in Seq(Nat)
                          /\ \A k \in 1..Len(Encoded(c[i])) : Encoded(c[i])[k] # US
  BY EncodedFacts
<1>3. Spelled(c) \in Seq(Seq(Nat))
  <2>1. DOMAIN c = 1..Len(c) /\ Len(c) \in Nat
    BY LenProperties
  <2>2. Spelled(c) \in [1..Len(c) -> Seq(Nat)]
    BY <1>2, <2>1 DEF Spelled
  <2> QED
    BY <2>1, <2>2, SeqDef
<1>4. ASSUME NEW i \in DOMAIN c, NEW j \in DOMAIN c, Encoded(c[i]) = Encoded(c[j])
      PROVE  i = j
  <2>1. c[i][1] = c[j][1]
    BY <1>4, EncodedApart
  <2> QED
    BY <2>1 DEF Accepted, LabelsDiffer
<1>5. Distinct(Spelled(c))
  BY <1>1, <1>4 DEF Distinct
<1> QED
  BY <1>1, <1>2, <1>3, <1>5

(* Sorted chooses such an order. *)
LEMMA SortedIs ==
  ASSUME NEW c
  PROVE  LET e == Spelled(c)
             p == CHOOSE q \in Bijection(DOMAIN e, DOMAIN e) : Orders(q, e)
         IN  Sorted(c) = [i \in DOMAIN e |-> e[p[i]]]
BY DEF Sorted, Spelled, Orders, Precedes

(* What is sorted is what was spelled, each component once and in order. *)
LEMMA SortedFacts ==
  ASSUME NEW c \in Seq(Items), Accepted(c)
  PROVE  /\ Sorted(c) \in Seq(Seq(Nat)) /\ Distinct(Sorted(c)) /\ Ascending(Sorted(c))
         /\ {Sorted(c)[i] : i \in DOMAIN Sorted(c)} = {Encoded(c[i]) : i \in DOMAIN c}
         /\ \A i \in DOMAIN Sorted(c) :
              \A k \in 1..Len(Sorted(c)[i]) : Sorted(c)[i][k] # US
<1> DEFINE e == Spelled(c)
           D == DOMAIN e
           p == CHOOSE q \in Bijection(D, D) : Orders(q, e)
           s == Sorted(c)
<1>1. /\ e \in Seq(Seq(Nat)) /\ Distinct(e) /\ D = DOMAIN c
      /\ \A i \in DOMAIN c : e[i] = Encoded(c[i])
      /\ \A i \in DOMAIN c : \A k \in 1..Len(Encoded(c[i])) : Encoded(c[i])[k] # US
  BY SpelledFacts
<1>2. s = [i \in D |-> e[p[i]]]
  BY SortedIs
<1> HIDE DEF e, s
<1>3. \E q \in Bijection(D, D) : Orders(q, e)
  BY <1>1, SortingExists DEF Orders
<1>4. p \in Bijection(D, D) /\ Orders(p, e)
  BY <1>3
<1> HIDE DEF p
<1>5. /\ \A i \in D : p[i] \in D
      /\ \A i, j \in D : p[i] = p[j] => i = j
      /\ \A j \in D : \E i \in D : p[i] = j
  BY <1>4 DEF Bijection, Injection, Surjection, IsInjective
<1>6. DOMAIN s = D /\ \A i \in D : s[i] = e[p[i]]
  BY <1>2
<1>7. D = 1..Len(e) /\ Len(e) \in Nat /\ \A i \in D : e[i] \in Seq(Nat)
  BY <1>1, LenProperties
<1>8. s \in Seq(Seq(Nat))
  <2>1. s \in [1..Len(e) -> Seq(Nat)]
    BY <1>2, <1>5, <1>7
  <2> QED
    BY <2>1, <1>7, SeqDef
<1>9. Distinct(s)
  <2> SUFFICES ASSUME NEW i \in D, NEW j \in D, s[i] = s[j] PROVE i = j
    BY <1>6 DEF Distinct
  <2>1. e[p[i]] = e[p[j]] /\ p[i] \in D /\ p[j] \in D
    BY <1>5, <1>6
  <2>2. p[i] = p[j]
    BY <2>1, <1>1 DEF Distinct
  <2> QED
    BY <2>2, <1>5
<1>10. Ascending(s)
  BY <1>4, <1>6 DEF Ascending, Orders
<1>11. {s[i] : i \in DOMAIN s} = {Encoded(c[i]) : i \in DOMAIN c}
  <2>1. \A i \in DOMAIN s : p[i] \in DOMAIN c /\ s[i] = Encoded(c[p[i]])
    BY <1>1, <1>5, <1>6
  <2>2. ASSUME NEW j \in DOMAIN c PROVE \E i \in DOMAIN s : s[i] = Encoded(c[j])
    <3>1. PICK i \in D : p[i] = j
      BY <1>1, <1>5
    <3>2. i \in DOMAIN s /\ s[i] = Encoded(c[j])
      BY <3>1, <1>1, <1>6
    <3> QED
      BY <3>2
  <2> QED
    BY <2>1, <2>2
<1>12. \A i \in DOMAIN s : \A k \in 1..Len(s[i]) : s[i][k] # US
  <2> SUFFICES ASSUME NEW i \in DOMAIN s PROVE \A k \in 1..Len(s[i]) : s[i][k] # US
    OBVIOUS
  <2>1. p[i] \in DOMAIN c /\ s[i] = Encoded(c[p[i]])
    BY <1>1, <1>5, <1>6
  <2> QED
    BY <2>1, <1>1
<1> QED
  BY <1>8, <1>9, <1>10, <1>11, <1>12 DEF s

(* The parts that are joined: each begins with the separator, and it has no  *)
(* other one.                                                              *)
Separated(c) == [i \in DOMAIN Sorted(c) |-> <<US>> \o Sorted(c)[i]]

(* A separator before a text that has none is a word.                         *)
LEMMA SeparatorFirst ==
  ASSUME NEW w \in Seq(Nat), \A k \in 1..Len(w) : w[k] # US
  PROVE  <<US>> \o w \in Seq(Nat) /\ Word(<<US>> \o w, {US})
<1> DEFINE u == <<US>>
           h == u \o w
<1>1. u \in Seq(Nat) /\ Len(u) = 1 /\ u[1] = US
  BY DEF US
<1> HIDE DEF u
<1>2. /\ h \in Seq(Nat) /\ Len(h) = 1 + Len(w)
      /\ \A i \in 1..(1 + Len(w)) : h[i] = IF i <= 1 THEN u[i] ELSE w[i - 1]
  <2>1. /\ h \in Seq(Nat) /\ Len(h) = Len(u) + Len(w)
        /\ \A i \in 1..(Len(u) + Len(w)) : h[i] = IF i <= Len(u) THEN u[i] ELSE w[i - Len(u)]
    BY <1>1, ConcatProperties
  <2> HIDE DEF h
  <2> QED
    BY <2>1, <1>1
<1> HIDE DEF h
<1>3. Len(w) \in Nat
  OBVIOUS
<1>4. h[1] = US /\ h # <<>>
  <2>1. 1 \in 1..(1 + Len(w)) /\ 1 <= 1
    BY <1>3
  <2>2. Len(h) # 0
    BY <1>2, <1>3
  <2> QED
    BY <2>1, <2>2, <1>1, <1>2
<1>5. ASSUME NEW i \in 2..Len(h) PROVE h[i] # US
  <2>1. i \in 1..(1 + Len(w)) /\ ~(i <= 1) /\ i - 1 \in 1..Len(w)
    BY <1>2, <1>3
  <2>2. h[i] = w[i - 1]
    BY <2>1, <1>2
  <2> QED
    BY <2>1, <2>2
<1> QED
  BY <1>2, <1>4, <1>5 DEF Word, h, u

(* The parts that are joined are such words.                                  *)
LEMMA SeparatedFacts ==
  ASSUME NEW c \in Seq(Items), Accepted(c)
  PROVE  /\ Separated(c) \in Seq(Seq(Nat))
         /\ Len(Separated(c)) = Len(Sorted(c))
         /\ \A i \in 1..Len(Separated(c)) :
              /\ Word(Separated(c)[i], {US})
              /\ Separated(c)[i] = <<US>> \o Sorted(c)[i]
<1> DEFINE s == Sorted(c)
           parts == Separated(c)
<1>1. /\ s \in Seq(Seq(Nat))
      /\ \A i \in DOMAIN s : \A k \in 1..Len(s[i]) : s[i][k] # US
  BY SortedFacts
<1>2. parts = [i \in DOMAIN s |-> <<US>> \o s[i]]
  BY DEF Separated
<1> HIDE DEF s, parts
<1>3. DOMAIN s = 1..Len(s) /\ Len(s) \in Nat /\ \A i \in 1..Len(s) : s[i] \in Seq(Nat)
  BY <1>1, LenProperties
<1>4. ASSUME NEW i \in 1..Len(s)
      PROVE  /\ parts[i] = <<US>> \o s[i]
             /\ parts[i] \in Seq(Nat) /\ Word(parts[i], {US})
  <2>1. parts[i] = <<US>> \o s[i]
    BY <1>2, <1>3
  <2>2. s[i] \in Seq(Nat) /\ \A k \in 1..Len(s[i]) : s[i][k] # US
    BY <1>1, <1>3
  <2> QED
    BY <2>1, <2>2, SeparatorFirst
<1>5. parts \in [1..Len(s) -> Seq(Nat)]
  BY <1>2, <1>3, <1>4
<1>6. parts \in Seq(Seq(Nat)) /\ Len(parts) = Len(s)
  BY <1>3, <1>5, SeqDef
<1> QED
  BY <1>4, <1>6 DEF s, parts

(* The canonical form is the domain and the parts, and a text.                *)
LEMMA CanonicalIs ==
  ASSUME NEW c \in Seq(Items), Accepted(c)
  PROVE  /\ Canonical(c) = Domain \o FlattenSeq(Separated(c))
         /\ FlattenSeq(Separated(c)) \in Seq(Nat) /\ Domain \in Seq(Nat)
         /\ Canonical(c) \in Seq(Nat)
<1>1. Canonical(c) = Domain \o FlattenSeq(Separated(c))
  BY DEF Canonical, Separated
<1>2. FlattenSeq(Separated(c)) \in Seq(Nat)
  BY SeparatedFacts, FlattenType
<1>3. Domain \in Seq(Nat)
  BY DEF Domain
<1> QED
  BY <1>1, <1>2, <1>3, ConcatProperties

(* The sorted components can be read off the canonical form. *)
LEMMA CanonicalApart ==
  ASSUME NEW c \in Seq(Items), Accepted(c), NEW d \in Seq(Items), Accepted(d),
         Canonical(c) = Canonical(d)
  PROVE  Sorted(c) = Sorted(d)
<1> DEFINE x == FlattenSeq(Separated(c))
           y == FlattenSeq(Separated(d))
           dom == Domain
<1>1. dom \o x = dom \o y /\ x \in Seq(Nat) /\ y \in Seq(Nat) /\ dom \in Seq(Nat)
  BY CanonicalIs
<1>2. x = y
  <2> HIDE DEF x, y, dom
  <2> QED
    BY <1>1, ConcatSimplifications
<1>3. /\ Separated(c) \in Seq(Seq(Nat)) /\ Len(Separated(c)) = Len(Sorted(c))
      /\ \A i \in 1..Len(Separated(c)) :
           Word(Separated(c)[i], {US}) /\ Separated(c)[i] = <<US>> \o Sorted(c)[i]
  BY SeparatedFacts
<1>4. /\ Separated(d) \in Seq(Seq(Nat)) /\ Len(Separated(d)) = Len(Sorted(d))
      /\ \A i \in 1..Len(Separated(d)) :
           Word(Separated(d)[i], {US}) /\ Separated(d)[i] = <<US>> \o Sorted(d)[i]
  BY SeparatedFacts
<1>5. Separated(c) = Separated(d)
  BY <1>2, <1>3, <1>4, WordsApart
<1>6. Sorted(c) \in Seq(Seq(Nat)) /\ Sorted(d) \in Seq(Seq(Nat))
  BY SortedFacts
<1>7. Len(Sorted(c)) = Len(Sorted(d))
  BY <1>3, <1>4, <1>5
<1>8. ASSUME NEW i \in 1..Len(Sorted(c)) PROVE Sorted(c)[i] = Sorted(d)[i]
  <2> DEFINE v == Sorted(c)[i]
             w == Sorted(d)[i]
             u == <<US>>
  <2>1. u \o v = u \o w
    BY <1>3, <1>4, <1>5, <1>7
  <2>2. v \in Seq(Nat) /\ w \in Seq(Nat) /\ u \in Seq(Nat)
    BY <1>6, <1>7, ElementOfSeq DEF US
  <2> HIDE DEF v, w, u
  <2>3. v = w
    BY <2>1, <2>2, ConcatSimplifications
  <2> QED
    BY <2>3 DEF v, w
<1> QED
  BY <1>6, <1>7, <1>8, SeqEqual

-----------------------------------------------------------------------------
(* The encoded components are the machine, spelled out. *)
LEMMA EncodedMachine ==
  ASSUME NEW c \in Seq(Items), Accepted(c), NEW d \in Seq(Items), Accepted(d)
  PROVE  Machine(c) = Machine(d) <=>
           {Encoded(c[i]) : i \in DOMAIN c} = {Encoded(d[j]) : j \in DOMAIN d}
<1>1. \A i \in DOMAIN c, j \in DOMAIN d :
        Encoded(c[i]) = Encoded(d[j]) <=>
          <<c[i][1], Core(c[i][2])>> = <<d[j][1], Core(d[j][2])>>
  BY EncodedApart
<1> DEFINE A == {Encoded(c[i]) : i \in DOMAIN c}
           B == {Encoded(d[j]) : j \in DOMAIN d}
<1>2. ASSUME A = B PROVE Machine(c) = Machine(d)
  <2>1. \A i \in DOMAIN c : \E j \in DOMAIN d : Encoded(c[i]) = Encoded(d[j])
    BY <1>2
  <2>2. \A j \in DOMAIN d : \E i \in DOMAIN c : Encoded(c[i]) = Encoded(d[j])
    BY <1>2
  <2>3. ASSUME NEW x \in Machine(c) PROVE x \in Machine(d)
    <3>1. PICK i \in DOMAIN c : x = <<c[i][1], Core(c[i][2])>>
      BY DEF Machine
    <3>2. PICK j \in DOMAIN d : Encoded(c[i]) = Encoded(d[j])
      BY <2>1
    <3>3. x = <<d[j][1], Core(d[j][2])>>
      BY <3>1, <3>2, <1>1
    <3> QED
      BY <3>3 DEF Machine
  <2>4. ASSUME NEW x \in Machine(d) PROVE x \in Machine(c)
    <3>1. PICK j \in DOMAIN d : x = <<d[j][1], Core(d[j][2])>>
      BY DEF Machine
    <3>2. PICK i \in DOMAIN c : Encoded(c[i]) = Encoded(d[j])
      BY <2>2
    <3>3. x = <<c[i][1], Core(c[i][2])>>
      BY <3>1, <3>2, <1>1
    <3> QED
      BY <3>3 DEF Machine
  <2> QED
    BY <2>3, <2>4 DEF Machine
<1>3. ASSUME Machine(c) = Machine(d) PROVE A = B
  <2>1. \A i \in DOMAIN c : <<c[i][1], Core(c[i][2])>> \in Machine(d)
    BY <1>3 DEF Machine
  <2>2. \A j \in DOMAIN d : <<d[j][1], Core(d[j][2])>> \in Machine(c)
    BY <1>3 DEF Machine
  <2>3. \A i \in DOMAIN c : \E j \in DOMAIN d : Encoded(c[i]) = Encoded(d[j])
    BY <2>1, <1>1 DEF Machine
  <2>4. \A j \in DOMAIN d : \E i \in DOMAIN c : Encoded(c[i]) = Encoded(d[j])
    BY <2>2, <1>1 DEF Machine
  <2> QED
    BY <2>3, <2>4
<1> QED
  BY <1>2, <1>3

(* The fingerprint of accepted components names the machine, and only it. *)
THEOREM FingerprintNames ==
  ASSUME NEW c \in Seq(Items), Accepted(c), NEW d \in Seq(Items), Accepted(d)
  PROVE  MachineFingerprint(c) = MachineFingerprint(d) <=> Machine(c) = Machine(d)
<1>1. /\ Sorted(c) \in Seq(Seq(Nat)) /\ Distinct(Sorted(c)) /\ Ascending(Sorted(c))
      /\ {Sorted(c)[i] : i \in DOMAIN Sorted(c)} = {Encoded(c[i]) : i \in DOMAIN c}
  BY SortedFacts
<1>2. /\ Sorted(d) \in Seq(Seq(Nat)) /\ Distinct(Sorted(d)) /\ Ascending(Sorted(d))
      /\ {Sorted(d)[i] : i \in DOMAIN Sorted(d)} = {Encoded(d[i]) : i \in DOMAIN d}
  BY SortedFacts
<1>3. ASSUME MachineFingerprint(c) = MachineFingerprint(d) PROVE Machine(c) = Machine(d)
  <2>1. Canonical(c) \in Seq(Nat) /\ Canonical(d) \in Seq(Nat)
    BY CanonicalIs
  <2>2. Utf8(Canonical(c)) = Utf8(Canonical(d))
    BY <1>3 DEF MachineFingerprint
  <2>3. Canonical(c) = Canonical(d)
    BY <2>1, <2>2, Utf8Apart
  <2>4. Sorted(c) = Sorted(d)
    BY <2>3, CanonicalApart
  <2>5. {Encoded(c[i]) : i \in DOMAIN c} = {Encoded(d[i]) : i \in DOMAIN d}
    BY <2>4, <1>1, <1>2
  <2> QED
    BY <2>5, EncodedMachine
<1>4. ASSUME Machine(c) = Machine(d) PROVE MachineFingerprint(c) = MachineFingerprint(d)
  <2>1. {Encoded(c[i]) : i \in DOMAIN c} = {Encoded(d[i]) : i \in DOMAIN d}
    BY <1>4, EncodedMachine
  <2>2. Sorted(c) = Sorted(d)
    BY <2>1, <1>1, <1>2, SortingUnique
  <2> QED
    BY <2>2 DEF MachineFingerprint, Canonical
<1> QED
  BY <1>3, <1>4

-----------------------------------------------------------------------------
(* Both installations have a list of components. *)
TypeOK == left \in Seq(Items) /\ right \in Seq(Items)

(* Both installations have lists of what callers pass.                        *)
THEOREM TypeCorrect == Spec => []TypeOK
<1>1. Init => TypeOK
  BY EmptySeq DEF Init, TypeOK
<1>2. TypeOK /\ [Next]_vars => TypeOK'
  <2> SUFFICES ASSUME TypeOK, [Next]_vars PROVE TypeOK'
    OBVIOUS
  <2>1. \A c \in Seq(Items), item \in Items : Append(c, item) \in Seq(Items)
    BY AppendProperties
  <2>2. CASE UNCHANGED vars
    BY <2>2 DEF TypeOK, vars
  <2>3. ASSUME NEW item \in Items, left' = Append(left, item), right' = right
        PROVE  TypeOK'
    BY <2>1, <2>3 DEF TypeOK
  <2>4. ASSUME NEW item \in Items, right' = Append(right, item), left' = left
        PROVE  TypeOK'
    BY <2>1, <2>4 DEF TypeOK
  <2> QED
    BY <2>2, <2>3, <2>4 DEF Next
<1> QED
  BY <1>1, <1>2, PTL DEF Spec

(* Order and surrounding whitespace do not cost a second seat: accepted components*)
(* that describe one machine have one fingerprint, however they are spelled.  *)
THEOREM SameMachine == Spec => []SameMachineSameSeat
<1>1. TypeOK => SameMachineSameSeat
  BY FingerprintNames DEF TypeOK, SameMachineSameSeat, Both
<1> QED
  BY <1>1, TypeCorrect, PTL

(* Two machines do not share a seat: no accepted component passes for another one,*)
(* or for two of them.                                                        *)
THEOREM DifferentMachines == Spec => []DifferentMachinesApart
<1>1. TypeOK => DifferentMachinesApart
  BY FingerprintNames DEF TypeOK, DifferentMachinesApart, Both
<1> QED
  BY <1>1, TypeCorrect, PTL
=============================================================================
