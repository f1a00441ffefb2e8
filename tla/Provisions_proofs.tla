-------------------------- MODULE Provisions_proofs --------------------------
(***************************************************************************)
(* Theorems of Provisions: whatever lists are asked for and appended, and  *)
(* for masks of any width, a fault is put down to the right channels, and  *)
(* a faulty channel keeps all it is to retry.                              *)
(***************************************************************************)
EXTENDS Provisions, FiniteSetTheorems, WellFoundedInduction, TLAPS

(***************************************************************************)
(* Induction, over sets in place of formulas, and the functions that are   *)
(* defined by it.                                                          *)
(***************************************************************************)
\* What holds of 0 and passes on to the next number holds of all.
LEMMA Induction ==
  ASSUME NEW N \in Nat, NEW T, 0 \in T, \A n \in 1 .. N : n - 1 \in T => n \in T
  PROVE  \A n \in 0 .. N : n \in T
<1> DEFINE R == {ss \in Nat \X Nat : ss[1] < ss[2]}
           U == (0 .. N) \ T
<1>1. IsWellFoundedOn(R, Nat)
  BY NatLessThanWellFounded DEF OpToRel
<1> SUFFICES ASSUME U # {} PROVE FALSE
  OBVIOUS
<1>2. PICK n \in U : \A m \in U : <<m, n>> \notin R
  <2>1. U \subseteq Nat
    OBVIOUS
  <2> HIDE DEF R, U
  <2> QED BY <1>1, <2>1, WFMin
<1>3. n - 1 \in U
  BY <1>2
<1>4. <<n - 1, n>> \in Nat \X Nat /\ <<n - 1, n>>[1] = n - 1 /\ <<n - 1, n>>[2] = n
  BY <1>2, <1>3
<1>5. <<n - 1, n>> \in R
  BY <1>2, <1>4
<1> QED BY <1>2, <1>3, <1>5

\* The results of N steps g that begin with x.
Chain(f, N, S, x, g) ==
  f \in [0 .. N -> S] /\ f[0] = x /\ \A k \in 1 .. N : f[k] = g[k][f[k - 1]]

\* Steps of which each maps S to S can be taken one after the other.
LEMMA Steps ==
  ASSUME NEW N \in Nat, NEW S, NEW x \in S, NEW g \in [1 .. N -> [S -> S]]
  PROVE  \E f : Chain(f, N, S, x, g)
<1> DEFINE Good(n, f) == f[0] = x /\ \A k \in 1 .. n : f[k] = g[k][f[k - 1]]
           T == {n \in 0 .. N : \E f \in [0 .. n -> S] : Good(n, f)}
<1>1. 0 \in T
  <2> DEFINE h == [k \in 0 .. 0 |-> x]
  <2>1. h \in [0 .. 0 -> S] /\ h[0] = x
    OBVIOUS
  <2> HIDE DEF h
  <2>2. Good(0, h)
    BY <2>1
  <2> QED BY <2>1, <2>2
<1>2. ASSUME NEW n \in 1 .. N, n - 1 \in T
      PROVE  n \in T
  <2>1. PICK f \in [0 .. n - 1 -> S] : Good(n - 1, f)
    BY <1>2
  <2> DEFINE h == [k \in 0 .. n |-> IF k = n THEN g[n][f[n - 1]] ELSE f[k]]
  <2>2. f[n - 1] \in S /\ g[n] \in [S -> S]
    OBVIOUS
  <2>3. g[n][f[n - 1]] \in S
    BY <2>2
  <2>4. h \in [0 .. n -> S]
    BY <2>3
  <2>5. h[0] = x
    BY <2>1
  <2>6. ASSUME NEW k \in 1 .. n
        PROVE  h[k] = g[k][h[k - 1]]
    <3>1. h[k - 1] = f[k - 1]
      OBVIOUS
    <3>2. CASE k = n
      BY <3>1, <3>2
    <3>3. CASE k # n
      <4>1. k \in 1 .. n - 1 /\ h[k] = f[k]
        BY <3>3
      <4> QED BY <2>1, <3>1, <4>1
    <3> QED BY <3>2, <3>3
  <2> HIDE DEF h
  <2> QED BY <2>4, <2>5, <2>6
<1> HIDE DEF T
<1>3. N \in T
  <2>1. \A n \in 0 .. N : n \in T
    BY <1>1, <1>2, Induction
  <2> QED BY <2>1
<1>4. PICK f \in [0 .. N -> S] : Good(N, f)
  BY <1>3 DEF T
<1>5. Chain(f, N, S, x, g)
  BY <1>4 DEF Chain
<1> QED BY <1>5

(***************************************************************************)
(* Sequences.                                                              *)
(***************************************************************************)
Distinct(s) == \A i, k \in 1 .. Len(s) : s[i] = s[k] => i = k

\* What is left when an element is taken out.
LEMMA RemoveFields ==
  ASSUME NEW E, NEW s \in Seq(E), NEW k \in 1 .. Len(s)
  PROVE  LET t == RemoveAt(s, k)
         IN  /\ t \in Seq(E) /\ Len(t) = Len(s) - 1
             /\ \A i \in 1 .. Len(s) - 1 : t[i] = IF i < k THEN s[i] ELSE s[i + 1]
<1> DEFINE u == SubSeq(s, 1, k - 1)
           v == SubSeq(s, k + 1, Len(s))
<1>1. u \in Seq(E) /\ Len(u) = k - 1 /\ \A i \in 1 .. k - 1 : u[i] = s[i]
  OBVIOUS
<1>2. v \in Seq(E) /\ Len(v) = Len(s) - k /\ \A i \in 1 .. Len(s) - k : v[i] = s[i + k]
  OBVIOUS
<1>3. RemoveAt(s, k) = u \o v
  BY DEF RemoveAt
<1> HIDE DEF u, v
<1>4. u \o v \in Seq(E) /\ Len(u \o v) = Len(s) - 1
  BY <1>1, <1>2
<1>5. ASSUME NEW i \in 1 .. Len(s) - 1
      PROVE  (u \o v)[i] = IF i < k THEN s[i] ELSE s[i + 1]
  BY <1>1, <1>2
<1> QED BY <1>3, <1>4, <1>5

\* What there is when an element is put in.
LEMMA InsertFields ==
  ASSUME NEW E, NEW s \in Seq(E), NEW k \in 1 .. Len(s) + 1, NEW e \in E
  PROVE  LET t == InsertAt(s, k, e)
         IN  /\ t \in Seq(E) /\ Len(t) = Len(s) + 1
             /\ \A i \in 1 .. Len(s) + 1 :
                  t[i] = IF i < k THEN s[i] ELSE IF i = k THEN e ELSE s[i - 1]
<1> DEFINE u == SubSeq(s, 1, k - 1)
           v == SubSeq(s, k, Len(s))
<1>1. u \in Seq(E) /\ Len(u) = k - 1 /\ \A i \in 1 .. k - 1 : u[i] = s[i]
  OBVIOUS
<1>2. /\ v \in Seq(E) /\ Len(v) = Len(s) - k + 1
      /\ \A i \in 1 .. Len(s) - k + 1 : v[i] = s[i + k - 1]
  OBVIOUS
<1>3. InsertAt(s, k, e) = (u \o <<e>>) \o v
  BY DEF InsertAt
<1> HIDE DEF u, v
<1> DEFINE w == u \o <<e>>
<1>4. w \in Seq(E) /\ Len(w) = k /\ \A i \in 1 .. k : w[i] = IF i < k THEN s[i] ELSE e
  BY <1>1
<1> HIDE DEF w
<1>5. w \o v \in Seq(E) /\ Len(w \o v) = Len(s) + 1
  BY <1>2, <1>4
<1>6. ASSUME NEW i \in 1 .. Len(s) + 1
      PROVE  (w \o v)[i] = IF i < k THEN s[i] ELSE IF i = k THEN e ELSE s[i - 1]
  BY <1>2, <1>4
<1> QED BY <1>3, <1>5, <1>6 DEF w

\* What is in a list after one is appended.
LEMMA AppendRange ==
  ASSUME NEW E, NEW s \in Seq(E), NEW e \in E
  PROVE  Range(Append(s, e)) = Range(s) \cup {e}
<1> DEFINE t == Append(s, e)
<1>1. /\ Len(s) \in Nat /\ DOMAIN t = 1 .. Len(s) + 1 /\ DOMAIN s = 1 .. Len(s)
      /\ \A i \in 1 .. Len(s) + 1 : t[i] = IF i = Len(s) + 1 THEN e ELSE s[i]
  OBVIOUS
<1> HIDE DEF t
<1>2. ASSUME NEW x \in Range(t) PROVE x \in Range(s) \cup {e}
  BY <1>1 DEF Range
<1>3. e \in Range(t)
  BY <1>1 DEF Range
<1>4. ASSUME NEW x \in Range(s) PROVE x \in Range(t)
  <2>1. PICK i \in 1 .. Len(s) : x = s[i]
    BY <1>1 DEF Range
  <2>2. i \in DOMAIN t /\ t[i] = x
    BY <1>1, <2>1
  <2> QED BY <2>2 DEF Range
<1> QED BY <1>2, <1>3, <1>4 DEF t

\* What is in two lists that are joined.
LEMMA ConcatRange ==
  ASSUME NEW E, NEW s \in Seq(E), NEW t \in Seq(E)
  PROVE  s \o t \in Seq(E) /\ Range(s \o t) = Range(s) \cup Range(t)
<1> DEFINE u == s \o t
<1>1. /\ u \in Seq(E) /\ Len(s) \in Nat /\ Len(t) \in Nat
      /\ DOMAIN s = 1 .. Len(s) /\ DOMAIN t = 1 .. Len(t)
      /\ DOMAIN u = 1 .. Len(s) + Len(t)
      /\ \A i \in 1 .. Len(s) : u[i] = s[i]
      /\ \A i \in 1 .. Len(t) : u[Len(s) + i] = t[i]
  OBVIOUS
<1> HIDE DEF u
<1>2. ASSUME NEW x \in Range(u) PROVE x \in Range(s) \cup Range(t)
  <2>1. PICK i \in 1 .. Len(s) + Len(t) : x = u[i]
    BY <1>1 DEF Range
  <2>2. CASE i <= Len(s)
    BY <1>1, <2>1, <2>2 DEF Range
  <2>3. CASE i > Len(s)
    <3>1. i - Len(s) \in 1 .. Len(t) /\ Len(s) + (i - Len(s)) = i
      BY <1>1, <2>3
    <3>2. x = t[i - Len(s)]
      BY <1>1, <2>1, <3>1
    <3> QED BY <1>1, <3>1, <3>2 DEF Range
  <2> QED BY <1>1, <2>2, <2>3
<1>3. ASSUME NEW x \in Range(s) PROVE x \in Range(u)
  <2>1. PICK i \in 1 .. Len(s) : x = s[i]
    BY <1>1 DEF Range
  <2>2. i \in DOMAIN u /\ u[i] = x
    BY <1>1, <2>1
  <2> QED BY <2>2 DEF Range
<1>4. ASSUME NEW x \in Range(t) PROVE x \in Range(u)
  <2>1. PICK i \in 1 .. Len(t) : x = t[i]
    BY <1>1 DEF Range
  <2>2. Len(s) + i \in DOMAIN u /\ u[Len(s) + i] = x
    BY <1>1, <2>1
  <2> QED BY <2>2 DEF Range
<1> QED BY <1>1, <1>2, <1>3, <1>4 DEF u

\* A list without repetitions is as long as its range is large.
LEMMA DistinctLength ==
  ASSUME NEW E, NEW s \in Seq(E), Distinct(s)
  PROVE  Cardinality(Range(s)) = Len(s)
<1>1. Range(s) = {s[i] : i \in 1 .. Len(s)}
  BY DEF Range
<1>2. s \in [1 .. Len(s) -> Range(s)]
  BY <1>1
<1>3. s \in Bijection(1 .. Len(s), Range(s))
  BY <1>1, <1>2 DEF Bijection, Injection, Surjection, IsInjective, Distinct
<1>4. IsFiniteSet(1 .. Len(s)) /\ Cardinality(1 .. Len(s)) = Len(s)
  <2>1. Len(s) \in Nat /\ 1 \in Int
    OBVIOUS
  <2> QED BY <2>1, FS_Interval
<1> QED BY <1>3, <1>4, FS_Bijection DEF ExistsBijection

(***************************************************************************)
(* Masks.                                                                  *)
(***************************************************************************)
\* A shift by less than the width is by that amount.
LEMMA SmallShift ==
  ASSUME ProvisionsAssumption, NEW n \in 0 .. Width - 1
  PROVE  Bit(n) = n
BY DEF ProvisionsAssumption, Bit

\* A shift is by the number of some bit.
LEMMA AnyShift ==
  ASSUME ProvisionsAssumption, NEW n \in Nat
  PROVE  Bit(n) \in Bits
BY DEF ProvisionsAssumption, Bit, Bits

\* A mask stays a mask.
LEMMA MovedType ==
  ASSUME ProvisionsAssumption, NEW m \in SUBSET Bits, NEW j \in Nat
  PROVE  Moved(m, j) \in SUBSET Bits
BY DEF Moved, ShiftLeft

\* The bits above the one that is removed move down by one; the sign is not
\* there to be copied.
LEMMA MovedBits ==
  ASSUME ProvisionsAssumption, NEW n \in 0 .. Width - 1,
         NEW m \in SUBSET (0 .. n - 1), NEW j \in 0 .. n - 1
  PROVE  Moved(m, j) = {i \in 0 .. n - 2 : IF i < j THEN i \in m ELSE i + 1 \in m}
<1>1. Width \in Nat /\ n \in Nat /\ n < Width /\ j \in Nat /\ j + 1 \in 0 .. Width - 1
  BY DEF ProvisionsAssumption
<1>2. Bit(j) = j /\ Bit(j + 1) = j + 1
  BY <1>1, SmallShift
<1> DEFINE r == {b \in Bits : b + (j + 1) \in m}
<1>3. ShiftRight(m, j + 1) = r
  BY <1>1, <1>2 DEF ShiftRight
<1>4. Moved(m, j) = (m \cap (0 .. j - 1)) \cup ({b + j : b \in r} \cap Bits)
  BY <1>2, <1>3 DEF Moved, Low, ShiftLeft
<1>5. \A i \in Int : i \in {b + j : b \in r} <=> i - j \in r
  BY <1>1 DEF Bits
<1>6. \A i \in Int : i - j \in r <=> (i - j \in Bits /\ i + 1 \in m)
  BY <1>1
<1> HIDE DEF r
<1>7. ASSUME NEW i \in Moved(m, j)
      PROVE  i \in 0 .. n - 2 /\ IF i < j THEN i \in m ELSE i + 1 \in m
  BY <1>1, <1>4, <1>5, <1>6 DEF Bits
<1>8. ASSUME NEW i \in 0 .. n - 2, IF i < j THEN i \in m ELSE i + 1 \in m
      PROVE  i \in Moved(m, j)
  BY <1>1, <1>4, <1>5, <1>6, <1>8 DEF Bits
<1> QED BY <1>7, <1>8

\* The pairs of one channel.
LEMMA Pairs ==
  ASSUME NEW c, NEW E
  PROVE  {c} \X E = {<<c, e>> : e \in E}
<1>1. ASSUME NEW a \in {c} \X E PROVE a \in {<<c, e>> : e \in E}
  <2>1. a[2] \in E /\ a = <<c, a[2]>>
    OBVIOUS
  <2> QED BY <2>1
<1>2. ASSUME NEW e \in E PROVE <<c, e>> \in {c} \X E
  OBVIOUS
<1> QED BY <1>1, <1>2

(***************************************************************************)
(* The batch.  as is who asked for what: as long as there are fewer        *)
(* provisions than bits, the mask of a channel has the bits of those it    *)
(* asked for.                                                              *)
(***************************************************************************)
Batches(D) == [batch : Seq(Provision), channels : [D -> SUBSET Bits]]

Masked(b, as) ==
  /\ Distinct(b.batch)
  /\ \A a \in as : \E i \in 1 .. Len(b.batch) : b.batch[i] = a[2]
  /\ Len(b.batch) < Width =>
       \A d \in DOMAIN b.channels :
         b.channels[d] = {i \in 0 .. Len(b.batch) - 1 : <<d, b.batch[i + 1]>> \in as}

\* A provision is asked for that the batch does not have.
LEMMA AddNew ==
  ASSUME ProvisionsAssumption, NEW D, NEW b \in Batches(D), NEW c \in D, NEW p \in Provision,
         \A i \in 1 .. Len(b.batch) : b.batch[i] # p
  PROVE  /\ Add(b, c, p) \in Batches(D)
         /\ \A as : Masked(b, as) => Masked(Add(b, c, p), as \cup {<<c, p>>})
<1> DEFINE n == Len(b.batch)
           s == Append(b.batch, p)
           chs == [d \in D |-> b.channels[d] \cup IF d = c THEN {Bit(n)} ELSE {}]
<1>1. n \in Nat /\ s \in Seq(Provision) /\ b.channels \in [D -> SUBSET Bits]
  BY DEF Batches
<1>2. Add(b, c, p) = [batch |-> s, channels |-> chs]
  <2>1. {j \in 0 .. n - 1 : b.batch[j + 1] = p} = {}
    BY <1>1
  <2>2. DOMAIN b.channels = D
    BY <1>1
  <2> QED BY <2>1, <2>2 DEF Add
<1>3. Bit(n) \in Bits
  BY <1>1, AnyShift
<1>4. chs \in [D -> SUBSET Bits]
  BY <1>1, <1>3
<1>5. Len(s) = n + 1 /\ \A i \in 1 .. n + 1 : s[i] = IF i = n + 1 THEN p ELSE b.batch[i]
  BY <1>1 DEF Batches
<1>6. ASSUME NEW as, Masked(b, as)
      PROVE  Masked([batch |-> s, channels |-> chs], as \cup {<<c, p>>})
  <2> DEFINE at == as \cup {<<c, p>>}
  <2>1. Distinct(s)
    BY <1>1, <1>5, <1>6 DEF Distinct, Masked
  <2>2. ASSUME NEW a \in at
        PROVE  \E i \in 1 .. Len(s) : s[i] = a[2]
    <3>1. CASE a = <<c, p>>
      BY <1>1, <1>5, <3>1
    <3>2. CASE a \in as
      <4>1. PICK i \in 1 .. n : b.batch[i] = a[2]
        BY <1>6, <3>2 DEF Masked
      <4> QED BY <1>1, <1>5, <4>1
    <3> QED BY <3>1, <3>2
  <2>3. ASSUME Len(s) < Width, NEW d \in D
        PROVE  chs[d] = {i \in 0 .. Len(s) - 1 : <<d, s[i + 1]>> \in at}
    <3>1. n \in 0 .. Width - 1 /\ Width \in Nat
      BY <1>1, <1>5, <2>3 DEF ProvisionsAssumption
    <3>2. Bit(n) = n
      BY <3>1, SmallShift
    <3>3. b.channels[d] = {i \in 0 .. n - 1 : <<d, b.batch[i + 1]>> \in as}
      <4>1. Len(b.batch) < Width /\ d \in DOMAIN b.channels
        BY <1>1, <3>1
      <4> QED BY <1>6, <4>1 DEF Masked
    <3>4. ASSUME NEW i \in 0 .. n - 1
          PROVE  <<d, s[i + 1]>> \in at <=> i \in b.channels[d]
      <4>1. s[i + 1] = b.batch[i + 1] /\ b.batch[i + 1] # p
        BY <1>1, <1>5
      <4> QED BY <3>3, <4>1
    <3>5. <<d, s[n + 1]>> \in at <=> d = c
      <4>1. s[n + 1] = p
        BY <1>1, <1>5
      <4>2. <<d, p>> \notin as
        BY <1>6 DEF Masked
      <4> QED BY <4>1, <4>2
    <3>6. 0 .. Len(s) - 1 = (0 .. n - 1) \cup {n}
      BY <1>1, <1>5
    <3>7. chs[d] = b.channels[d] \cup IF d = c THEN {n} ELSE {}
      BY <3>2
    <3> HIDE DEF s, chs, at
    <3> QED BY <3>3, <3>4, <3>5, <3>6, <3>7
  <2> QED BY <1>4, <2>1, <2>2, <2>3 DEF Masked
<1> HIDE DEF s, chs
<1> QED BY <1>1, <1>2, <1>4, <1>6 DEF Batches

\* A provision is asked for again: it moves to the end.
LEMMA AddAgain ==
  ASSUME ProvisionsAssumption, NEW D, NEW b \in Batches(D), NEW c \in D, NEW p \in Provision,
         \E i \in 1 .. Len(b.batch) : b.batch[i] = p
  PROVE  /\ Add(b, c, p) \in Batches(D)
         /\ \A as : Masked(b, as) => Masked(Add(b, c, p), as \cup {<<c, p>>})
<1> DEFINE n == Len(b.batch)
           at == {k \in 0 .. n - 1 : b.batch[k + 1] = p}
           j == CHOOSE k \in at : TRUE
           s == Append(RemoveAt(b.batch, j + 1), p)
           asks(d) == d = c \/ Bit(j) \in b.channels[d]
           chs == [d \in D |-> Moved(b.channels[d], j)
                                \cup IF asks(d) THEN {Bit(n - 1)} ELSE {}]
<1>1. n \in Nat /\ b.batch \in Seq(Provision) /\ b.channels \in [D -> SUBSET Bits]
  BY DEF Batches
<1>2. at # {}
  <2>1. PICK i \in 1 .. n : b.batch[i] = p
    OBVIOUS
  <2>2. i - 1 \in 0 .. n - 1 /\ (i - 1) + 1 = i
    BY <1>1
  <2>3. i - 1 \in at
    BY <2>1, <2>2
  <2> QED BY <2>3
<1>3. j \in 0 .. n - 1 /\ b.batch[j + 1] = p /\ j + 1 \in 1 .. n /\ n - 1 \in Nat
  <2>1. j \in at
    BY <1>2
  <2> QED BY <1>1, <2>1
<1>4. Add(b, c, p) = [batch |-> s, channels |-> chs]
  <2>1. DOMAIN b.channels = D
    BY <1>1
  <2> QED BY <1>2, <2>1 DEF Add
<1> HIDE DEF at, j
<1>5. Bit(n - 1) \in Bits /\ \A d \in D : Moved(b.channels[d], j) \in SUBSET Bits
  BY <1>1, <1>3, AnyShift, MovedType
<1>6. chs \in [D -> SUBSET Bits]
  BY <1>5
<1>7. /\ s \in Seq(Provision) /\ Len(s) = n
      /\ \A i \in 1 .. n : s[i] = IF i = n THEN p
                                 ELSE IF i < j + 1 THEN b.batch[i] ELSE b.batch[i + 1]
  <2> DEFINE u == RemoveAt(b.batch, j + 1)
  <2>1. /\ u \in Seq(Provision) /\ Len(u) = n - 1
        /\ \A i \in 1 .. n - 1 : u[i] = IF i < j + 1 THEN b.batch[i] ELSE b.batch[i + 1]
    BY <1>1, <1>3, RemoveFields
  <2> HIDE DEF u
  <2> QED BY <1>1, <1>3, <2>1 DEF u
<1>8. ASSUME NEW as, Masked(b, as)
      PROVE  Masked([batch |-> s, channels |-> chs], as \cup {<<c, p>>})
  <2> DEFINE all == as \cup {<<c, p>>}
             Old(i) == IF i < j + 1 THEN i ELSE i + 1
  <2>1. \A i \in 1 .. n - 1 : Old(i) \in 1 .. n /\ Old(i) # j + 1 /\ s[i] = b.batch[Old(i)]
    BY <1>1, <1>3, <1>7
  <2>2. s[n] = p /\ n \in 1 .. n
    BY <1>1, <1>3, <1>7
  <2>3. \A i, k \in 1 .. n : b.batch[i] = b.batch[k] => i = k
    BY <1>8 DEF Masked, Distinct
  <2>4. Distinct(s)
    <3>1. ASSUME NEW i \in 1 .. n, NEW k \in 1 .. n, s[i] = s[k], i # n, k # n
          PROVE  i = k
      <4>1. i \in 1 .. n - 1 /\ k \in 1 .. n - 1
        BY <1>1, <3>1
      <4>2. Old(i) = Old(k)
        BY <2>1, <2>3, <3>1, <4>1
      <4> QED BY <1>3, <4>1, <4>2
    <3>2. ASSUME NEW i \in 1 .. n - 1
          PROVE  s[i] # p
      BY <1>3, <2>1, <2>3
    <3>3. ASSUME NEW i \in 1 .. n, i # n
          PROVE  i \in 1 .. n - 1
      BY <1>1, <3>3
    <3> HIDE DEF s, Old
    <3> QED BY <1>7, <2>2, <3>1, <3>2, <3>3 DEF Distinct
  <2>5. ASSUME NEW a \in all
        PROVE  \E i \in 1 .. Len(s) : s[i] = a[2]
    <3>1. CASE a[2] = p
      BY <1>7, <2>2, <3>1
    <3>2. CASE a \in as /\ a[2] # p
      <4>1. PICK k \in 1 .. n : b.batch[k] = a[2]
        BY <1>8, <3>2 DEF Masked
      <4>2. k # j + 1
        BY <1>3, <3>2, <4>1
      <4>3. CASE k < j + 1
        BY <1>1, <1>3, <1>7, <4>1, <4>3
      <4>4. CASE k > j + 1
        <5>1. k - 1 \in 1 .. n - 1 /\ ~(k - 1 < j + 1) /\ (k - 1) + 1 = k
          BY <1>1, <1>3, <4>1, <4>4
        <5> QED BY <1>1, <1>7, <4>1, <5>1
      <4> QED BY <1>1, <1>3, <4>1, <4>2, <4>3, <4>4
    <3>3. CASE a = <<c, p>>
      BY <1>7, <2>2, <3>3
    <3> QED BY <3>1, <3>2, <3>3
  <2>6. ASSUME Len(s) < Width, NEW d \in D
        PROVE  chs[d] = {i \in 0 .. Len(s) - 1 : <<d, s[i + 1]>> \in all}
    <3>1. n \in 0 .. Width - 1 /\ n - 1 \in 0 .. Width - 1 /\ j \in 0 .. Width - 1
      BY <1>1, <1>3, <1>7, <2>6 DEF ProvisionsAssumption
    <3>2. Bit(n - 1) = n - 1 /\ Bit(j) = j
      BY <3>1, SmallShift
    <3>3. b.channels[d] = {i \in 0 .. n - 1 : <<d, b.batch[i + 1]>> \in as}
      BY <1>1, <1>7, <1>8, <2>6 DEF Masked
    <3>3a. \A k \in 0 .. n - 1 : k \in b.channels[d] <=> <<d, b.batch[k + 1]>> \in as
      BY <3>3
    <3>4. Moved(b.channels[d], j) =
            {i \in 0 .. n - 2 : IF i < j THEN i \in b.channels[d] ELSE i + 1 \in b.channels[d]}
      <4>1. b.channels[d] \in SUBSET (0 .. n - 1)
        BY <3>3
      <4> QED BY <1>3, <3>1, <4>1, MovedBits
    <3>5. ASSUME NEW i \in 0 .. n - 2
          PROVE  <<d, s[i + 1]>> \in all <=> i \in Moved(b.channels[d], j)
      <4> DEFINE k == IF i < j THEN i ELSE i + 1
      <4>1. i + 1 \in 1 .. n - 1 /\ k \in 0 .. n - 1 /\ Old(i + 1) = k + 1
        BY <1>1, <1>3
      <4>2. s[i + 1] = b.batch[k + 1] /\ b.batch[k + 1] # p
        BY <1>3, <2>1, <2>3, <4>1
      <4>3. <<d, s[i + 1]>> \in all <=> <<d, b.batch[k + 1]>> \in as
        BY <4>2
      <4>4. i \in Moved(b.channels[d], j) <=> k \in b.channels[d]
        BY <3>4
      <4> HIDE DEF k, s, all
      <4>5. <<d, b.batch[k + 1]>> \in as <=> k \in b.channels[d]
        BY <3>3a, <4>1
      <4> QED BY <4>3, <4>4, <4>5
    <3>6. <<d, s[(n - 1) + 1]>> \in all <=> asks(d)
      <4>1. s[(n - 1) + 1] = p
        <5>1. (n - 1) + 1 = n
          BY <1>1
        <5> HIDE DEF n, s
        <5> QED BY <2>2, <5>1
      <4>2. <<d, p>> \in as <=> Bit(j) \in b.channels[d]
        BY <1>3, <3>2, <3>3
      <4> QED BY <4>1, <4>2
    <3>7. 0 .. Len(s) - 1 = (0 .. n - 2) \cup {n - 1}
      <4>1. Len(s) = n /\ n \in Nat /\ n > 0
        BY <1>1, <1>3, <1>7
      <4> HIDE DEF n, s
      <4> QED BY <4>1
    <3>8. chs[d] = Moved(b.channels[d], j) \cup IF asks(d) THEN {n - 1} ELSE {}
      BY <3>2
    <3>9. Moved(b.channels[d], j) \subseteq 0 .. n - 2
      BY <3>4
    <3> HIDE DEF s, chs, all, Old, asks
    <3> QED BY <3>5, <3>6, <3>7, <3>8, <3>9
  <2> HIDE DEF s, all
  <2> QED BY <1>6, <2>4, <2>5, <2>6 DEF Masked, all
<1> HIDE DEF s, chs
<1> QED BY <1>4, <1>6, <1>7, <1>8 DEF Batches

\* A provision is asked for, whether the batch has it or not.
LEMMA AddStep ==
  ASSUME ProvisionsAssumption, NEW D, NEW b \in Batches(D), NEW c \in D, NEW p \in Provision
  PROVE  /\ Add(b, c, p) \in Batches(D)
         /\ \A as : Masked(b, as) => Masked(Add(b, c, p), as \cup {<<c, p>>})
<1>1. CASE \E i \in 1 .. Len(b.batch) : b.batch[i] = p
  BY <1>1, AddAgain
<1>2. CASE \A i \in 1 .. Len(b.batch) : b.batch[i] # p
  BY <1>2, AddNew
<1> QED BY <1>1, <1>2

\* The provisions of a list are asked for, one by one.
LEMMA AddList ==
  ASSUME ProvisionsAssumption, NEW D, NEW b \in Batches(D), NEW c \in D,
         NEW list \in Seq(Provision), NEW as, Masked(b, as)
  PROVE  /\ AddEach(b, c, list) \in Batches(D)
         /\ Masked(AddEach(b, c, list), as \cup ({c} \X Range(list)))
<1> DEFINE N == Len(list)
           g == [n \in 1 .. N |-> [x \in Batches(D) |-> Add(x, c, list[n])]]
           R(f) == f = [n \in 0 .. N |-> IF n = 0 THEN b ELSE Add(f[n - 1], c, list[n])]
           h == CHOOSE f : R(f)
           Upto(n) == as \cup {<<c, list[i]>> : i \in 1 .. n}
           T == {n \in 0 .. N : Masked(h[n], Upto(n))}
<1>1. N \in Nat /\ \A n \in 1 .. N : list[n] \in Provision
  OBVIOUS
<1>2. g \in [1 .. N -> [Batches(D) -> Batches(D)]]
  BY <1>1, AddStep
<1>3. PICK f : Chain(f, N, Batches(D), b, g)
  <2>1. N \in Nat /\ b \in Batches(D)
    BY <1>1
  <2> HIDE DEF N, g
  <2> QED BY <1>2, <2>1, Steps
<1>4. R(f)
  <2>1. f \in [0 .. N -> Batches(D)] /\ f[0] = b /\ \A k \in 1 .. N : f[k] = g[k][f[k - 1]]
    BY <1>3 DEF Chain
  <2>2. ASSUME NEW k \in 1 .. N
        PROVE  f[k] = Add(f[k - 1], c, list[k])
    <3>1. k - 1 \in 0 .. N /\ f[k - 1] \in Batches(D)
      BY <1>1, <2>1
    <3> QED BY <2>1, <3>1
  <2>3. \A n \in 0 .. N : f[n] = IF n = 0 THEN b ELSE Add(f[n - 1], c, list[n])
    <3>1. \A n \in 0 .. N : n = 0 \/ n \in 1 .. N
      BY <1>1
    <3> QED BY <2>1, <2>2, <3>1
  <2> HIDE DEF N
  <2> QED BY <2>1, <2>3
<1>5. AddEach(b, c, list) = h[N]
  BY DEF AddEach
<1>6. R(h)
  <2> HIDE DEF R
  <2> QED BY <1>4
<1> HIDE DEF h
<1>7. h[0] = b /\ \A n \in 1 .. N : h[n] = Add(h[n - 1], c, list[n])
  <2>1. 0 \in 0 .. N /\ \A n \in 1 .. N : n \in 0 .. N /\ n # 0
    BY <1>1
  <2> HIDE DEF N
  <2> QED BY <1>6, <2>1
<1>8. \A n \in 0 .. N : h[n] \in Batches(D)
  <2> DEFINE U == {n \in 0 .. N : h[n] \in Batches(D)}
  <2>1. 0 \in U
    BY <1>1, <1>7
  <2>2. ASSUME NEW n \in 1 .. N, n - 1 \in U
        PROVE  n \in U
    BY <1>1, <1>7, <2>2, AddStep
  <2> HIDE DEF U, N
  <2>3. \A n \in 0 .. N : n \in U
    BY <1>1, <2>1, <2>2, Induction
  <2> QED BY <2>3 DEF U
<1>9. \A n \in 0 .. N : n \in T
  <2>1. 0 \in T
    <3>1. Upto(0) = as /\ 0 \in 0 .. N
      BY <1>1
    <3> HIDE DEF Upto, N
    <3> QED BY <1>7, <3>1
  <2>2. ASSUME NEW n \in 1 .. N, n - 1 \in T
        PROVE  n \in T
    <3>1. Upto(n) = Upto(n - 1) \cup {<<c, list[n]>>}
      <4>1. 1 .. n = (1 .. n - 1) \cup {n}
        OBVIOUS
      <4> QED BY <4>1
    <3>2. h[n - 1] \in Batches(D) /\ Masked(h[n - 1], Upto(n - 1))
      BY <1>1, <1>8, <2>2
    <3> HIDE DEF Upto, N
    <3>3. Masked(h[n], Upto(n))
      <4>1. list[n] \in Provision /\ h[n] = Add(h[n - 1], c, list[n])
        BY <1>1, <1>7
      <4> QED BY <3>1, <3>2, <4>1, AddStep
    <3> QED BY <3>3
  <2> HIDE DEF T, N
  <2> QED BY <1>1, <2>1, <2>2, Induction
<1>10. Upto(N) = as \cup ({c} \X Range(list))
  <2>1. {<<c, list[i]>> : i \in 1 .. N} = {<<c, e>> : e \in Range(list)}
    <3>1. Range(list) = {list[i] : i \in 1 .. N}
      BY DEF Range
    <3> HIDE DEF N
    <3> QED BY <3>1
  <2> HIDE DEF N
  <2> QED BY <2>1, Pairs
<1>11. N \in 0 .. N
  BY <1>1
<1> HIDE DEF N, Upto
<1> QED BY <1>5, <1>8, <1>9, <1>10, <1>11

(***************************************************************************)
(* The provisions of a fault.                                              *)
(***************************************************************************)
\* A provision is moved, or put, where it is to be retried.
LEMMA AppendStep ==
  ASSUME NEW s \in Seq(Provision), Distinct(s), NEW m \in Nat \ {0}, NEW p \in Provision
  PROVE  /\ AppendOne(s, m, p) \in Seq(Provision) /\ Distinct(AppendOne(s, m, p))
         /\ Range(AppendOne(s, m, p)) = Range(s) \cup {p}
<1> DEFINE at == {j \in 0 .. Len(s) - 1 : s[j + 1] = p}
           j0 == CHOOSE j \in at : TRUE
           rest == IF at = {} THEN s ELSE RemoveAt(s, 1 + j0)
           n == Len(rest)
           k == 1 + (IF n - m + 1 >= 0 THEN n - m + 1
                     ELSE IF n + (n - m + 1) >= 0 THEN n + (n - m + 1) ELSE 0)
           t == InsertAt(rest, k, p)
<1>1. CASE \E j \in at : j >= Len(s) - m
  <2>1. AppendOne(s, m, p) = s
    BY <1>1 DEF AppendOne
  <2>2. p \in Range(s)
    <3>1. PICK j \in at : TRUE
      BY <1>1
    <3>2. j + 1 \in DOMAIN s /\ s[j + 1] = p
      BY <3>1
    <3> QED BY <3>2 DEF Range
  <2> QED BY <2>1, <2>2
<1>2. CASE ~ \E j \in at : j >= Len(s) - m
  <2>1. AppendOne(s, m, p) = t
    BY <1>2 DEF AppendOne, Spliced
  <2>2. /\ rest \in Seq(Provision) /\ Distinct(rest)
        /\ Range(rest) = Range(s) \ {p}
    <3>1. CASE at = {}
      <4>1. \A i \in 1 .. Len(s) : s[i] # p
        <5>1. ASSUME NEW i \in 1 .. Len(s), s[i] = p PROVE FALSE
          <6>1. i - 1 \in 0 .. Len(s) - 1 /\ (i - 1) + 1 = i
            OBVIOUS
          <6> QED BY <3>1, <5>1, <6>1
        <5> QED BY <5>1
      <4> QED BY <3>1, <4>1 DEF Range
    <3>2. CASE at # {}
      <4>1. j0 \in at
        BY <3>2
      <4> HIDE DEF j0
      <4>2. 1 + j0 \in 1 .. Len(s) /\ s[1 + j0] = p /\ j0 \in Nat /\ Len(s) \in Nat
        BY <4>1
      <4>3. /\ rest \in Seq(Provision) /\ Len(rest) = Len(s) - 1
            /\ \A i \in 1 .. Len(s) - 1 : rest[i] = IF i < 1 + j0 THEN s[i] ELSE s[i + 1]
        BY <3>2, <4>2, RemoveFields
      <4> HIDE DEF rest, at
      <4>4. Distinct(rest)
        BY <4>2, <4>3 DEF Distinct
      <4>5. ASSUME NEW e \in Range(rest)
            PROVE  e \in Range(s) /\ e # p
        <5>1. PICK i \in 1 .. Len(s) - 1 : e = rest[i]
          BY <4>2, <4>3 DEF Range
        <5>2. CASE i < 1 + j0
          BY <4>2, <4>3, <5>1, <5>2 DEF Range, Distinct
        <5>3. CASE ~(i < 1 + j0)
          <6>1. i + 1 \in 1 .. Len(s) /\ i + 1 # 1 + j0 /\ e = s[i + 1]
            BY <4>2, <4>3, <5>1, <5>3
          <6> QED BY <4>2, <6>1 DEF Range, Distinct
        <5> QED BY <5>2, <5>3
      <4>6. ASSUME NEW e \in Range(s), e # p
            PROVE  e \in Range(rest)
        <5>1. PICK i \in 1 .. Len(s) : e = s[i]
          BY DEF Range
        <5>2. i # 1 + j0
          BY <4>2, <4>6, <5>1
        <5>3. CASE i < 1 + j0
          <6>1. i \in 1 .. Len(s) - 1 /\ rest[i] = s[i]
            BY <4>2, <4>3, <5>3
          <6> QED BY <4>3, <5>1, <6>1 DEF Range
        <5>4. CASE i > 1 + j0
          <6>1. i - 1 \in 1 .. Len(s) - 1 /\ ~(i - 1 < 1 + j0) /\ (i - 1) + 1 = i
            BY <4>2, <5>4
          <6>2. i - 1 \in DOMAIN rest /\ rest[i - 1] = e
            BY <4>3, <5>1, <6>1
          <6> QED BY <6>2 DEF Range
        <5> QED BY <4>2, <5>2, <5>3, <5>4
      <4> QED BY <4>3, <4>4, <4>5, <4>6
    <3> QED BY <3>1, <3>2
  <2> HIDE DEF rest
  <2>3. n \in Nat /\ k \in 1 .. n + 1
    BY <2>2
  <2> HIDE DEF k
  <2>4. /\ t \in Seq(Provision) /\ Len(t) = n + 1
        /\ \A i \in 1 .. n + 1 :
             t[i] = IF i < k THEN rest[i] ELSE IF i = k THEN p ELSE rest[i - 1]
    BY <2>2, <2>3, InsertFields
  <2> HIDE DEF t
  <2>5. ASSUME NEW i \in 1 .. n
        PROVE  rest[i] # p
    <3>1. rest[i] \in Range(rest)
      BY <2>2 DEF Range
    <3> QED BY <2>2, <3>1
  <2>6. Distinct(t)
    <3> DEFINE Old(i) == IF i < k THEN i ELSE i - 1
    <3>1. \A i \in 1 .. n + 1 : i # k => Old(i) \in 1 .. n /\ t[i] = rest[Old(i)]
      BY <2>3, <2>4
    <3>2. \A i \in 1 .. n + 1 : i # k => t[i] # p
      BY <2>5, <3>1
    <3>3. t[k] = p
      BY <2>3, <2>4
    <3>4. \A i, l \in 1 .. n : rest[i] = rest[l] => i = l
      BY <2>2 DEF Distinct
    <3>5. ASSUME NEW i \in 1 .. n + 1, NEW l \in 1 .. n + 1, t[i] = t[l]
          PROVE  i = l
      <4>1. CASE i # k /\ l # k
        <5>1. Old(i) = Old(l)
          BY <3>1, <3>4, <3>5, <4>1
        <5> QED BY <2>3, <4>1, <5>1
      <4>2. CASE i = k \/ l = k
        BY <3>2, <3>3, <3>5, <4>2
      <4> QED BY <4>1, <4>2
    <3> QED BY <2>4, <3>5 DEF Distinct
  <2>7. ASSUME NEW e \in Range(t)
        PROVE  e \in Range(s) \cup {p}
    <3>1. PICK i \in 1 .. n + 1 : e = t[i]
      BY <2>3, <2>4 DEF Range
    <3>2. e = p \/ \E l \in 1 .. n : e = rest[l]
      <4>1. CASE i < k
        BY <2>3, <2>4, <3>1, <4>1
      <4>2. CASE i > k
        <5>1. i - 1 \in 1 .. n /\ e = rest[i - 1]
          BY <2>3, <2>4, <3>1, <4>2
        <5> QED BY <5>1
      <4>3. CASE i = k
        BY <2>3, <2>4, <3>1, <4>3
      <4> QED BY <2>3, <4>1, <4>2, <4>3
    <3>3. \A l \in 1 .. n : rest[l] \in Range(rest)
      BY <2>2, <2>3 DEF Range
    <3> QED BY <2>2, <3>2, <3>3
  <2>8. p \in Range(t)
    BY <2>3, <2>4 DEF Range
  <2>9. ASSUME NEW e \in Range(rest)
        PROVE  e \in Range(t)
    <3>1. PICK l \in 1 .. n : e = rest[l]
      BY <2>2 DEF Range
    <3>2. CASE l < k
      <4>1. l \in DOMAIN t /\ t[l] = e
        BY <2>3, <2>4, <3>1, <3>2
      <4> QED BY <4>1 DEF Range
    <3>3. CASE ~(l < k)
      <4>1. l + 1 \in 1 .. n + 1 /\ ~(l + 1 < k) /\ l + 1 # k /\ (l + 1) - 1 = l
        BY <2>3, <3>3
      <4>2. l + 1 \in DOMAIN t /\ t[l + 1] = e
        BY <2>4, <3>1, <4>1
      <4> QED BY <4>2 DEF Range
    <3> QED BY <3>2, <3>3
  <2> QED BY <2>1, <2>2, <2>4, <2>6, <2>7, <2>8, <2>9
<1> HIDE DEF at
<1> QED BY <1>1, <1>2

\* Two lists are put together: nothing is lost, and nothing is there twice.
LEMMA AppendAll ==
  ASSUME NEW original \in Seq(Provision), Distinct(original), NEW toAppend \in Seq(Provision)
  PROVE  LET t == AppendProvisions(original, toAppend)
         IN  /\ t \in Seq(Provision) /\ Distinct(t)
             /\ Range(t) = Range(original) \cup Range(toAppend)
<1> DEFINE N == Len(toAppend)
           S == {s \in Seq(Provision) : Distinct(s)}
           g == [m \in 1 .. N |-> [s \in S |-> AppendOne(s, m, toAppend[N - m + 1])]]
           R(f) == f = [m \in 0 .. N |->
                         IF m = 0 THEN original ELSE AppendOne(f[m - 1], m, toAppend[N - m + 1])]
           h == CHOOSE f : R(f)
           Back(m) == {toAppend[N - i + 1] : i \in 1 .. m}
           T == {m \in 0 .. N : Range(h[m]) = Range(original) \cup Back(m)}
<1>1. /\ N \in Nat /\ original \in S
      /\ \A m \in 1 .. N : m \in Nat \ {0} /\ toAppend[N - m + 1] \in Provision
  OBVIOUS
<1>2. g \in [1 .. N -> [S -> S]]
  BY <1>1, AppendStep
<1>3. PICK f : Chain(f, N, S, original, g)
  <2> HIDE DEF N, S, g
  <2> QED BY <1>1, <1>2, Steps
<1>4. R(f)
  <2>1. f \in [0 .. N -> S] /\ f[0] = original /\ \A m \in 1 .. N : f[m] = g[m][f[m - 1]]
    BY <1>3 DEF Chain
  <2>2. ASSUME NEW m \in 1 .. N
        PROVE  f[m] = AppendOne(f[m - 1], m, toAppend[N - m + 1])
    <3>1. m - 1 \in 0 .. N
      BY <1>1
    <3>2. f[m - 1] \in S
      BY <2>1, <3>1
    <3> HIDE DEF S, N
    <3> QED BY <2>1, <3>2
  <2>3. \A m \in 0 .. N : m = 0 \/ m \in 1 .. N
    BY <1>1
  <2>4. \A m \in 0 .. N :
          f[m] = IF m = 0 THEN original ELSE AppendOne(f[m - 1], m, toAppend[N - m + 1])
    BY <2>1, <2>2, <2>3
  <2> HIDE DEF N, S
  <2> QED BY <2>1, <2>4
<1>5. AppendProvisions(original, toAppend) = h[N]
  BY DEF AppendProvisions
<1>6. R(h)
  <2> HIDE DEF R
  <2> QED BY <1>4
<1> HIDE DEF h
<1>7. /\ h[0] = original
      /\ \A m \in 1 .. N : h[m] = AppendOne(h[m - 1], m, toAppend[N - m + 1])
  <2>1. 0 \in 0 .. N /\ \A m \in 1 .. N : m \in 0 .. N /\ m # 0
    BY <1>1
  <2> HIDE DEF N
  <2> QED BY <1>6, <2>1
<1>8. \A m \in 0 .. N : h[m] \in S
  <2> DEFINE U == {m \in 0 .. N : h[m] \in S}
  <2>1. 0 \in U
    BY <1>1, <1>7
  <2>2. ASSUME NEW m \in 1 .. N, m - 1 \in U
        PROVE  m \in U
    <3>1. h[m - 1] \in Seq(Provision) /\ Distinct(h[m - 1])
      BY <2>2
    <3>2. h[m] \in S
      <4> DEFINE p == toAppend[N - m + 1]
                 q == h[m - 1]
      <4>1. m \in Nat \ {0} /\ p \in Provision /\ h[m] = AppendOne(q, m, p)
        BY <1>1, <1>7
      <4>2. q \in Seq(Provision) /\ Distinct(q)
        BY <3>1
      <4> HIDE DEF p, q
      <4>3. AppendOne(q, m, p) \in Seq(Provision) /\ Distinct(AppendOne(q, m, p))
        BY <4>1, <4>2, AppendStep
      <4> QED BY <4>1, <4>3
    <3> QED BY <3>2
  <2> HIDE DEF U, N
  <2>3. \A m \in 0 .. N : m \in U
    BY <1>1, <2>1, <2>2, Induction
  <2> QED BY <2>3 DEF U
<1>9. \A m \in 0 .. N : m \in T
  <2>1. 0 \in T
    <3>1. Back(0) = {} /\ 0 \in 0 .. N
      BY <1>1
    <3> HIDE DEF Back, N
    <3> QED BY <1>7, <3>1
  <2>2. ASSUME NEW m \in 1 .. N, m - 1 \in T
        PROVE  m \in T
    <3>1. Back(m) = Back(m - 1) \cup {toAppend[N - m + 1]}
      <4>1. 1 .. m = (1 .. m - 1) \cup {m}
        OBVIOUS
      <4> HIDE DEF N
      <4> QED BY <4>1
    <3>2. /\ h[m - 1] \in Seq(Provision) /\ Distinct(h[m - 1])
          /\ Range(h[m - 1]) = Range(original) \cup Back(m - 1)
      BY <1>1, <1>8, <2>2
    <3> HIDE DEF Back, N
    <3>3. Range(h[m]) = Range(original) \cup Back(m)
      <4> DEFINE p == toAppend[N - m + 1]
                 q == h[m - 1]
      <4>1. m \in Nat \ {0} /\ p \in Provision /\ h[m] = AppendOne(q, m, p)
        BY <1>1, <1>7
      <4>2. /\ q \in Seq(Provision) /\ Distinct(q)
            /\ Range(q) = Range(original) \cup Back(m - 1)
            /\ Back(m) = Back(m - 1) \cup {p}
        BY <3>1, <3>2
      <4> HIDE DEF p, q
      <4>3. Range(AppendOne(q, m, p)) = Range(q) \cup {p}
        BY <4>1, <4>2, AppendStep
      <4> QED BY <4>1, <4>2, <4>3
    <3> QED BY <3>3
  <2> HIDE DEF T, N
  <2> QED BY <1>1, <2>1, <2>2, Induction
<1>10. Back(N) = Range(toAppend)
  <2>1. Range(toAppend) = {toAppend[i] : i \in 1 .. N}
    BY DEF Range
  <2>2. \A i \in 1 .. N : N - i + 1 \in 1 .. N /\ N - (N - i + 1) + 1 = i
    BY <1>1
  <2> HIDE DEF N
  <2> QED BY <2>1, <2>2
<1>11. N \in 0 .. N
  BY <1>1
<1> HIDE DEF N, Back
<1> QED BY <1>5, <1>8, <1>9, <1>10, <1>11

\* The provisions a channel is blamed for, as a list of those whose bit is set.
LEMMA BlamedList ==
  ASSUME batch \in Seq(Provision), NEW c
  PROVE  /\ Blamed(c) \in Seq(Provision)
         /\ Range(Blamed(c)) =
              {batch[i] : i \in {k \in 1 .. Len(batch) : 0 \in ShiftRight(channels[c], k - 1)}}
<1> DEFINE N == Len(batch)
           S == Seq(Provision)
           Is(n) == 0 \in ShiftRight(channels[c], n - 1)
           Next1(s, n) == IF Is(n) THEN Append(s, batch[n]) ELSE s
           g == [n \in 1 .. N |-> [s \in S |-> Next1(s, n)]]
           R(f) == f = [n \in 0 .. N |->
                         IF n = 0 THEN <<>>
                         ELSE IF Is(n) THEN Append(f[n - 1], batch[n]) ELSE f[n - 1]]
           h == CHOOSE f : R(f)
           Set(n) == {batch[i] : i \in {k \in 1 .. n : Is(k)}}
           T == {n \in 0 .. N : Range(h[n]) = Set(n)}
<1>1. N \in Nat /\ <<>> \in S /\ \A n \in 1 .. N : batch[n] \in Provision
  OBVIOUS
<1>2. g \in [1 .. N -> [S -> S]]
  BY <1>1
<1>3. PICK f : Chain(f, N, S, <<>>, g)
  <2> HIDE DEF N, S, g
  <2> QED BY <1>1, <1>2, Steps
<1> HIDE DEF Is
<1>4. R(f)
  <2>1. f \in [0 .. N -> S] /\ f[0] = <<>> /\ \A n \in 1 .. N : f[n] = g[n][f[n - 1]]
    BY <1>3 DEF Chain
  <2>2. ASSUME NEW n \in 1 .. N
        PROVE  f[n] = Next1(f[n - 1], n)
    <3>1. n - 1 \in 0 .. N
      BY <1>1
    <3>2. f[n - 1] \in S
      BY <2>1, <3>1
    <3> HIDE DEF S, N
    <3> QED BY <2>1, <3>2
  <2>3. \A n \in 0 .. N : n = 0 \/ (n \in 1 .. N /\ n # 0)
    BY <1>1
  <2>4. \A n \in 0 .. N :
          f[n] = IF n = 0 THEN <<>>
                 ELSE IF Is(n) THEN Append(f[n - 1], batch[n]) ELSE f[n - 1]
    <3> HIDE DEF N, S
    <3> QED BY <2>1, <2>2, <2>3
  <2> HIDE DEF N, S
  <2> QED BY <2>1, <2>4
<1>5. Blamed(c) = h[N]
  BY DEF Blamed, Is
<1>6. R(h)
  <2> HIDE DEF R
  <2> QED BY <1>4
<1> HIDE DEF h
<1>7. h[0] = <<>> /\ \A n \in 1 .. N : h[n] = Next1(h[n - 1], n)
  <2>1. 0 \in 0 .. N /\ \A n \in 1 .. N : n \in 0 .. N /\ n # 0
    BY <1>1
  <2> HIDE DEF N
  <2> QED BY <1>6, <2>1
<1>8. \A n \in 0 .. N : h[n] \in S
  <2> DEFINE U == {n \in 0 .. N : h[n] \in S}
  <2>1. 0 \in U
    <3>1. 0 \in 0 .. N
      BY <1>1
    <3> HIDE DEF N, S
    <3> QED BY <1>1, <1>7, <3>1
  <2>2. ASSUME NEW n \in 1 .. N, n - 1 \in U
        PROVE  n \in U
    <3>1. n \in 0 .. N /\ batch[n] \in Provision /\ h[n] = Next1(h[n - 1], n) /\ h[n - 1] \in S
      BY <1>1, <1>7, <2>2
    <3> HIDE DEF N
    <3>2. h[n] \in S
      BY <3>1
    <3> QED BY <3>1, <3>2
  <2> HIDE DEF U, N
  <2>3. \A n \in 0 .. N : n \in U
    BY <1>1, <2>1, <2>2, Induction
  <2> QED BY <2>3 DEF U
<1>9. \A n \in 0 .. N : n \in T
  <2>1. 0 \in T
    <3>1. Set(0) = {} /\ 0 \in 0 .. N
      BY <1>1
    <3>2. Range(<<>>) = {}
      BY DEF Range
    <3> HIDE DEF Set, N
    <3> QED BY <1>7, <3>1, <3>2
  <2>2. ASSUME NEW n \in 1 .. N, n - 1 \in T
        PROVE  n \in T
    <3>1. Set(n) = Set(n - 1) \cup IF Is(n) THEN {batch[n]} ELSE {}
      <4>1. 1 .. n = (1 .. n - 1) \cup {n}
        OBVIOUS
      <4> HIDE DEF N
      <4> QED BY <4>1
    <3>2. h[n - 1] \in S /\ Range(h[n - 1]) = Set(n - 1)
      BY <1>1, <1>8, <2>2
    <3>3. h[n] = Next1(h[n - 1], n)
      BY <1>7
    <3>4. \A s \in S, e \in Provision : Range(Append(s, e)) = Range(s) \cup {e}
      BY AppendRange
    <3> HIDE DEF Set, N, S
    <3>5. Range(h[n]) = Set(n)
      BY <1>1, <3>1, <3>2, <3>3, <3>4
    <3> QED BY <3>5
  <2> HIDE DEF T, N
  <2> QED BY <1>1, <2>1, <2>2, Induction
<1>10. N \in 0 .. N
  BY <1>1
<1> HIDE DEF N, S
<1> QED BY <1>5, <1>8, <1>9, <1>10 DEF N, S, Is

(***************************************************************************)
(* The invariant.                                                          *)
(***************************************************************************)
Current == [batch |-> batch, channels |-> channels]

\* What is asked for is a provision, by one of the channels D.
AskedBy(as, D) == \A a \in as : \E d \in D, p \in Provision : a = <<d, p>>

\* The batch: what was asked for is in it, under the bits of the channels.
BatchInv ==
  /\ DOMAIN channels \subseteq Channel
  /\ Current \in Batches(DOMAIN channels)
  /\ AskedBy(asked, DOMAIN channels)
  /\ Masked(Current, asked)

\* The faults: a channel has what it owes, each provision once.
FaultsInv ==
  /\ faults \in [Channel -> Seq(Provision)] /\ owed \in [Channel -> SUBSET Provision]
  /\ \A c \in Channel : Distinct(faults[c]) /\ Range(faults[c]) = owed[c]

ProvisionsInv == BatchInv /\ FaultsInv /\ calls \in 0 .. MaxCalls

\* A batch that is empty.
LEMMA EmptyBatch ==
  ASSUME batch = <<>>, channels = <<>>, asked = {}
  PROVE  BatchInv
<1>1. DOMAIN channels = {} /\ channels \in [DOMAIN channels -> SUBSET Bits]
  OBVIOUS
<1>2. batch \in Seq(Provision) /\ Len(batch) = 0
  OBVIOUS
<1> QED BY <1>1, <1>2 DEF BatchInv, Current, Batches, Masked, Distinct, AskedBy

\* addProvisions keeps the masks right.
LEMMA BatchAdd ==
  ASSUME ProvisionsAssumption, BatchInv, NEW c \in Channel, NEW list \in Lists,
         AddToBatch(c, list)
  PROVE  BatchInv'
<1> DEFINE D == DOMAIN channels \cup {c}
           named == [d \in D |-> IF d \in DOMAIN channels THEN channels[d] ELSE {}]
           b == [batch |-> batch, channels |-> named]
           after == AddEach(b, c, list)
           as == asked \cup ({c} \X Range(list))
<1>1. batch \in Seq(Provision) /\ channels \in [DOMAIN channels -> SUBSET Bits]
  BY DEF BatchInv, Current, Batches
<1>2. batch' = after.batch /\ channels' = after.channels /\ asked' = as
  BY DEF AddToBatch
<1>3. named \in [D -> SUBSET Bits]
  BY <1>1
<1>4. b \in Batches(D)
  BY <1>1, <1>3 DEF Batches
<1>5. Masked(b, asked)
  <2>1. Distinct(batch) /\ \A a \in asked : \E i \in 1 .. Len(batch) : batch[i] = a[2]
    BY DEF BatchInv, Masked, Current
  <2>2. ASSUME Len(batch) < Width, NEW d \in D
        PROVE  named[d] = {i \in 0 .. Len(batch) - 1 : <<d, batch[i + 1]>> \in asked}
    <3>1. CASE d \in DOMAIN channels
      <4>1. channels[d] = {i \in 0 .. Len(batch) - 1 : <<d, batch[i + 1]>> \in asked}
        BY <2>2, <3>1 DEF BatchInv, Masked, Current
      <4> QED BY <3>1, <4>1
    <3>2. CASE d \notin DOMAIN channels
      <4>1. \A e : <<d, e>> \notin asked
        BY <3>2 DEF BatchInv, AskedBy
      <4>2. named[d] = {}
        BY <3>2
      <4> HIDE DEF named
      <4> QED BY <4>1, <4>2
    <3> QED BY <3>1, <3>2
  <2>3. DOMAIN named = D
    OBVIOUS
  <2> HIDE DEF D, named
  <2> QED BY <2>1, <2>2, <2>3 DEF Masked
<1>6. list \in Seq(Provision) /\ c \in D
  BY DEF ProvisionsAssumption
<1> HIDE DEF b, D
<1>7. after \in Batches(D) /\ Masked(after, as)
  BY <1>4, <1>5, <1>6, AddList
<1> HIDE DEF after
<1>8. /\ after.channels \in [D -> SUBSET Bits] /\ DOMAIN after.channels = D
      /\ after = [batch |-> after.batch, channels |-> after.channels]
  BY <1>7 DEF Batches
<1>9. D \subseteq Channel
  BY DEF BatchInv, D
<1>10. AskedBy(as, D)
  <2>1. ASSUME NEW a \in asked
        PROVE  \E d \in D, p \in Provision : a = <<d, p>>
    BY DEF BatchInv, AskedBy, D
  <2>2. \A e \in Range(list) : e \in Provision
    BY <1>6 DEF Range
  <2>3. ASSUME NEW a \in {c} \X Range(list)
        PROVE  \E d \in D, p \in Provision : a = <<d, p>>
    BY <1>6, <2>2, <2>3, Pairs
  <2> QED BY <2>1, <2>3 DEF AskedBy
<1>11. Current' = after
  BY <1>2, <1>8 DEF Current
<1>12. DOMAIN channels' = D
  BY <1>2, <1>8
<1> HIDE DEF as
<1> QED BY <1>2, <1>7, <1>9, <1>10, <1>11, <1>12 DEF BatchInv

\* The empty list has no repetitions.
LEMMA NoProvisions == <<>> \in Seq(Provision) /\ Distinct(<<>>) /\ Range(<<>>) = {}
BY DEF Distinct, Range

\* What is kept or forgotten of the faults.
LEMMA FaultsStep ==
  ASSUME ProvisionsAssumption, BatchInv, FaultsInv, calls \in 0 .. MaxCalls,
         \/ RecordFault \/ Succeed
         \/ \E c \in Channel, list \in Lists : AppendToFault(c, list)
  PROVE  FaultsInv'
<1>1. batch \in Seq(Provision)
  BY DEF BatchInv, Current, Batches
<1>2. \A c \in Channel : /\ faults[c] \in Seq(Provision) /\ Distinct(faults[c])
                         /\ owed[c] \in SUBSET Provision /\ Range(faults[c]) = owed[c]
  BY DEF FaultsInv
<1>3. ASSUME NEW f, NEW o,
             \A c \in Channel : /\ f[c] \in Seq(Provision) /\ Distinct(f[c])
                                /\ Range(f[c]) = o[c],
             faults' = [c \in Channel |-> f[c]], owed' = [c \in Channel |-> o[c]]
      PROVE  FaultsInv'
  <2>1. \A c \in Channel : o[c] \in SUBSET Provision
    <3>1. ASSUME NEW c \in Channel PROVE Range(f[c]) \subseteq Provision
      <4>1. f[c] \in Seq(Provision)
        BY <1>3
      <4> QED BY <4>1 DEF Range
    <3> QED BY <1>3, <3>1
  <2>2. \A c \in Channel : faults'[c] = f[c] /\ owed'[c] = o[c]
    BY <1>3
  <2>3. faults' \in [Channel -> Seq(Provision)] /\ owed' \in [Channel -> SUBSET Provision]
    BY <1>3, <2>1
  <2> QED BY <1>3, <2>2, <2>3 DEF FaultsInv
<1>4. CASE RecordFault
  <2> DEFINE New(c) == AppendProvisions(<<>>, faults[c] \o Blamed(c))
             f == [c \in Channel |-> IF c \in DOMAIN channels THEN New(c) ELSE faults[c]]
             o == [c \in Channel |-> IF c \in DOMAIN channels THEN owed[c] \cup Range(Blamed(c))
                                                             ELSE owed[c]]
  <2>1. faults' = f /\ owed' = o
    BY <1>4 DEF RecordFault
  <2>2. ASSUME NEW c \in Channel
        PROVE  /\ New(c) \in Seq(Provision) /\ Distinct(New(c))
               /\ Range(New(c)) = owed[c] \cup Range(Blamed(c))
    <3> DEFINE l == Blamed(c)
               k == faults[c] \o l
    <3>1. l \in Seq(Provision)
      BY <1>1, BlamedList
    <3> HIDE DEF l
    <3>2. k \in Seq(Provision) /\ Range(k) = Range(faults[c]) \cup Range(l)
      BY <1>2, <3>1, ConcatRange
    <3> HIDE DEF k
    <3>3. LET t == AppendProvisions(<<>>, k)
          IN  t \in Seq(Provision) /\ Distinct(t) /\ Range(t) = Range(k)
      <4> DEFINE none == <<>>
      <4>1. none \in Seq(Provision) /\ Distinct(none) /\ Range(none) = {}
        BY NoProvisions
      <4> HIDE DEF none
      <4>2. LET t == AppendProvisions(none, k)
            IN  t \in Seq(Provision) /\ Distinct(t) /\ Range(t) = Range(k)
        BY <3>2, <4>1, AppendAll
      <4> QED BY <4>2 DEF none
    <3> QED BY <1>2, <3>2, <3>3 DEF k, l
  <2> HIDE DEF New
  <2>3. \A c \in Channel : /\ f[c] \in Seq(Provision) /\ Distinct(f[c])
                           /\ Range(f[c]) = o[c]
    BY <1>2, <2>2
  <2>4. f = [c \in Channel |-> f[c]] /\ o = [c \in Channel |-> o[c]]
    OBVIOUS
  <2> HIDE DEF f, o
  <2> QED BY <1>3, <2>1, <2>3, <2>4
<1>5. CASE Succeed
  <2> DEFINE f == [c \in Channel |-> IF c \in Done THEN <<>> ELSE faults[c]]
             o == [c \in Channel |-> IF c \in Done THEN {} ELSE owed[c]]
  <2>1. faults' = f /\ owed' = o
    BY <1>5 DEF Succeed
  <2>2. \A c \in Channel : /\ f[c] \in Seq(Provision) /\ Distinct(f[c])
                           /\ Range(f[c]) = o[c]
    BY <1>2, NoProvisions
  <2>3. f = [c \in Channel |-> f[c]] /\ o = [c \in Channel |-> o[c]]
    OBVIOUS
  <2> HIDE DEF f, o
  <2> QED BY <1>3, <2>1, <2>2, <2>3
<1>6. ASSUME NEW c \in Channel, NEW list \in Lists, AppendToFault(c, list)
      PROVE  FaultsInv'
  <2> DEFINE new == AppendProvisions(faults[c], list)
             f == [d \in Channel |-> IF d = c THEN new ELSE faults[d]]
             o == [d \in Channel |-> IF d = c THEN owed[d] \cup Range(list) ELSE owed[d]]
  <2>1. faults' = f /\ owed' = o
    BY <1>6 DEF AppendToFault, FaultsInv
  <2>2. list \in Seq(Provision)
    BY DEF ProvisionsAssumption
  <2>3. new \in Seq(Provision) /\ Distinct(new) /\ Range(new) = owed[c] \cup Range(list)
    BY <1>2, <2>2, AppendAll
  <2> HIDE DEF new
  <2>4. \A d \in Channel : /\ f[d] \in Seq(Provision) /\ Distinct(f[d])
                           /\ Range(f[d]) = o[d]
    BY <1>2, <2>3
  <2>5. f = [d \in Channel |-> f[d]] /\ o = [d \in Channel |-> o[d]]
    OBVIOUS
  <2> HIDE DEF f, o
  <2> QED BY <1>3, <2>1, <2>4, <2>5
<1> QED BY <1>4, <1>5, <1>6

\* The invariant holds at first.
LEMMA ProvisionsInvInit == ProvisionsAssumption /\ ProvisionsInit => ProvisionsInv
<1> SUFFICES ASSUME ProvisionsAssumption, ProvisionsInit PROVE ProvisionsInv
  OBVIOUS
<1>1. BatchInv
  BY EmptyBatch DEF ProvisionsInit
<1>2. FaultsInv
  BY NoProvisions DEF ProvisionsInit, FaultsInv
<1> QED BY <1>1, <1>2 DEF ProvisionsInit, ProvisionsInv, ProvisionsAssumption

\* Every step keeps it.
LEMMA ProvisionsInvNext ==
  ProvisionsAssumption /\ ProvisionsInv /\ [ProvisionsNext]_provisionVars => ProvisionsInv'
<1> SUFFICES ASSUME ProvisionsAssumption, ProvisionsInv, [ProvisionsNext]_provisionVars PROVE ProvisionsInv'
  OBVIOUS
<1> USE DEF ProvisionsInv
<1>1. ASSUME NEW c \in Channel, NEW list \in Lists, AddToBatch(c, list)
      PROVE  ProvisionsInv'
  <2>1. BatchInv'
    BY <1>1, BatchAdd
  <2>2. FaultsInv' /\ calls' \in 0 .. MaxCalls
    BY <1>1 DEF AddToBatch, FaultsInv, ProvisionsAssumption
  <2> QED BY <2>1, <2>2
<1>2. ASSUME NEW c \in Channel, NEW list \in Lists, AppendToFault(c, list)
      PROVE  ProvisionsInv'
  <2>1. FaultsInv'
    BY <1>2, FaultsStep
  <2>2. calls' \in 0 .. MaxCalls
    BY <1>2 DEF AppendToFault, ProvisionsAssumption
  <2>3. UNCHANGED <<batch, channels, asked>>
    BY <1>2 DEF AppendToFault
  <2>4. BatchInv'
    BY <2>3 DEF BatchInv, Current, Batches, Masked, Distinct, AskedBy
  <2> QED BY <2>1, <2>2, <2>4
<1>3. CASE RecordFault \/ Succeed
  <2>1. FaultsInv'
    BY <1>3, FaultsStep
  <2>2. batch' = <<>> /\ channels' = <<>> /\ asked' = {} /\ calls' = calls
    BY <1>3 DEF RecordFault, Succeed, ClearBatch
  <2>3. BatchInv'
    <3>1. /\ DOMAIN channels' = {} /\ channels' \in [DOMAIN channels' -> SUBSET Bits]
          /\ batch' \in Seq(Provision) /\ Len(batch') = 0
      BY <2>2
    <3> QED BY <2>2, <3>1 DEF BatchInv, Current, Batches, Masked, Distinct, AskedBy
  <2> QED BY <2>1, <2>2, <2>3
<1>4. CASE UNCHANGED provisionVars
  BY <1>4 DEF provisionVars, BatchInv, FaultsInv, Current, Batches, Masked, Distinct, AskedBy
<1> QED BY <1>1, <1>2, <1>3, <1>4 DEF ProvisionsNext

\* The invariant, always.
LEMMA ProvisionsSafe ==
  ASSUME ProvisionsAssumption
  PROVE  ProvisionsSpec => []ProvisionsInv
<1>1. ProvisionsInit => ProvisionsInv
  BY ProvisionsInvInit
<1>2. ProvisionsInv /\ [ProvisionsNext]_provisionVars => ProvisionsInv'
  BY ProvisionsInvNext
<1> QED BY <1>1, <1>2, PTL DEF ProvisionsSpec

(***************************************************************************)
(* Theorems.                                                               *)
(***************************************************************************)
\* The types, for masks of any width and any lists.
THEOREM ProvisionsTyping == ProvisionsAssumption => (ProvisionsSpec => []ProvisionsTypeOK)
<1> SUFFICES ASSUME ProvisionsAssumption PROVE ProvisionsSpec => []ProvisionsTypeOK
  OBVIOUS
<1>1. ProvisionsInv => ProvisionsTypeOK
  <2> SUFFICES ASSUME ProvisionsInv PROVE ProvisionsTypeOK
    OBVIOUS
  <2>1. /\ batch \in Seq(Provision) /\ DOMAIN channels \in SUBSET Channel
        /\ channels \in [DOMAIN channels -> SUBSET Bits]
    BY DEF ProvisionsInv, BatchInv, Current, Batches
  <2>2. ASSUME NEW a \in asked PROVE a \in Channel \X Provision
    BY <2>1 DEF ProvisionsInv, BatchInv, AskedBy
  <2> QED BY <2>1, <2>2 DEF ProvisionsInv, FaultsInv, ProvisionsTypeOK
<1> QED BY <1>1, ProvisionsSafe, PTL

\* As long as a batch has fewer provisions than a mask has bits, a channel is
\* blamed for the provisions it asked for and for no others.
THEOREM BlamedRightly == ProvisionsAssumption => (ProvisionsSpec => []BlameRight)
<1> SUFFICES ASSUME ProvisionsAssumption PROVE ProvisionsSpec => []BlameRight
  OBVIOUS
<1>1. ProvisionsInv => BlameRight
  <2> SUFFICES ASSUME ProvisionsInv, Len(batch) < Width, NEW c \in DOMAIN channels
               PROVE  Range(Blamed(c)) = {p \in Provision : <<c, p>> \in asked}
    BY DEF BlameRight
  <2> DEFINE n == Len(batch)
  <2>1. batch \in Seq(Provision) /\ n \in Nat /\ n < Width /\ Width \in Nat
    BY DEF ProvisionsInv, BatchInv, Current, Batches, ProvisionsAssumption
  <2>2. channels[c] = {i \in 0 .. n - 1 : <<c, batch[i + 1]>> \in asked}
    BY DEF ProvisionsInv, BatchInv, Masked, Current
  <2>3. ASSUME NEW k \in 1 .. n
        PROVE  0 \in ShiftRight(channels[c], k - 1) <=> <<c, batch[k]>> \in asked
    <3>1. k - 1 \in 0 .. n - 1 /\ k - 1 \in 0 .. Width - 1 /\ (k - 1) + 1 = k
          /\ 0 \in Bits /\ 0 + (k - 1) = k - 1 /\ ~(k - 1 >= Width)
      BY <2>1 DEF Bits
    <3>2. Bit(k - 1) = k - 1
      BY <3>1, SmallShift
    <3>3. 0 \in ShiftRight(channels[c], k - 1) <=> k - 1 \in channels[c]
      BY <3>1, <3>2 DEF ShiftRight
    <3>4. k - 1 \in channels[c] <=> <<c, batch[(k - 1) + 1]>> \in asked
      BY <2>2, <3>1
    <3> QED BY <3>1, <3>3, <3>4
  <2>4. Range(Blamed(c)) =
          {batch[i] : i \in {k \in 1 .. n : 0 \in ShiftRight(channels[c], k - 1)}}
    BY <2>1, BlamedList
  <2>5. \A a \in asked : \E i \in 1 .. n : batch[i] = a[2]
    BY DEF ProvisionsInv, BatchInv, Masked, Current
  <2>6. ASSUME NEW p \in Provision, <<c, p>> \in asked
        PROVE  p \in Range(Blamed(c))
    <3>1. PICK i \in 1 .. n : batch[i] = p
      BY <2>5, <2>6
    <3> QED BY <2>3, <2>4, <2>6, <3>1
  <2>7. ASSUME NEW p \in Range(Blamed(c))
        PROVE  p \in Provision /\ <<c, p>> \in asked
    BY <2>1, <2>3, <2>4
  <2> QED BY <2>6, <2>7
<1> QED BY <1>1, ProvisionsSafe, PTL

\* A faulty channel retries all it was blamed for or was given since, each
\* provision once, whatever lists were put together.
THEOREM FaultsKeep == ProvisionsAssumption => (ProvisionsSpec => []FaultKeepsProvisions)
<1> SUFFICES ASSUME ProvisionsAssumption PROVE ProvisionsSpec => []FaultKeepsProvisions
  OBVIOUS
<1>1. ProvisionsInv => FaultKeepsProvisions
  BY DistinctLength DEF ProvisionsInv, FaultsInv, FaultKeepsProvisions
<1> QED BY <1>1, ProvisionsSafe, PTL
=============================================================================
