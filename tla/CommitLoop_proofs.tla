------------------------- MODULE CommitLoop_proofs -------------------------
(***************************************************************************)
(* Theorems of CommitLoop: type correctness, that scripts that run again   *)
(* read what they have read, that the latest revision of a key is what it  *)
(* was last set to, and that an answer is not taken for that of another    *)
(* request: for any keys, values and limits, and scripts that declare      *)
(* whatever they like.                                                     *)
(***************************************************************************)
EXTENDS CommitLoop, SequenceTheorems, WellFoundedInduction, TLAPS

(***************************************************************************)
(* The revisions of one key, with the operations of VersionedMap.          *)
(***************************************************************************)
\* What is read is one of the values, or that there is none.
LEMMA GetType ==
  ASSUME NEW s \in Seq(AnyValue), NEW rev \in Nat
  PROVE  Get(s, rev) \in AnyValue /\ Latest(s) \in AnyValue
<1>1. CASE s = <<>>
  BY <1>1 DEF Get, Latest, AnyValue
<1>2. CASE s # <<>>
  <2>1. Len(s) \in Nat \ {0}
    BY <1>2, EmptySeq
  <2>2. \A i \in 1 .. Len(s) : s[i] \in AnyValue
    BY ElementOfSeq
  <2> QED BY <1>2, <2>1, <2>2 DEF Get, Latest
<1> QED BY <1>1, <1>2

\* The revisions below one, the last value repeated as often as needed.
LEMMA BelowType ==
  ASSUME NEW s \in Seq(AnyValue), NEW rev \in Nat
  PROVE  /\ Below(s, rev) \in Seq(AnyValue)
         /\ Len(Below(s, rev)) = rev
         /\ \A i \in 1 .. rev : Below(s, rev)[i] = Get(s, i - 1)
<1>1. \A i \in 1 .. rev : Get(s, i - 1) \in AnyValue
  BY GetType
<1>2. Below(s, rev) \in [1 .. rev -> AnyValue]
  BY <1>1 DEF Below
<1> QED BY <1>2 DEF Below

\* Setting a revision that is not too old makes it the latest, and leaves those
\* below it as they read.
LEMMA PutKeeps ==
  ASSUME NEW s \in Seq(AnyValue), NEW rev \in Nat, NEW v \in AnyValue
  PROVE  /\ Put(s, rev, v) \in Seq(AnyValue)
         /\ \A r \in Nat : r < rev => Get(Put(s, rev, v), r) = Get(s, r)
         /\ Len(s) <= rev + 1 => /\ Latest(Put(s, rev, v)) = v
                                 /\ Len(Put(s, rev, v)) <= rev + 1
<1> DEFINE b == Below(s, rev)
           p == Append(b, v)
<1>1. b \in Seq(AnyValue) /\ Len(b) = rev /\ \A i \in 1 .. rev : b[i] = Get(s, i - 1)
  BY BelowType
<1>2. p \in Seq(AnyValue) /\ Len(p) = rev + 1 /\ p[rev + 1] = v
      /\ \A i \in 1 .. rev : p[i] = b[i]
  <2> HIDE DEF b
  <2> QED BY <1>1, AppendProperties
<1>3. Len(s) \in Nat
  BY LenProperties
<1>4. CASE rev + 1 < Len(s) \/ (v = Absent /\ Latest(s) = Absent)
  BY <1>3, <1>4 DEF Put
<1>5. CASE ~(rev + 1 < Len(s) \/ (v = Absent /\ Latest(s) = Absent))
  <2>1. Put(s, rev, v) = p
    BY <1>5 DEF Put
  <2>2. p # <<>>
    <3> HIDE DEF p
    <3> QED BY <1>2, EmptySeq
  <2>3. Latest(p) = v
    BY <1>2, <2>2 DEF Latest
  <2>4. ASSUME NEW r \in Nat, r < rev PROVE Get(p, r) = Get(s, r)
    <3>1. Get(p, r) = p[r + 1]
      BY <1>2, <2>2, <2>4 DEF Get
    <3>2. r + 1 \in 1 .. rev /\ (r + 1) - 1 = r
      BY <2>4
    <3> QED BY <1>1, <1>2, <3>1, <3>2
  <2> QED BY <1>2, <2>1, <2>3, <2>4
<1> QED BY <1>4, <1>5

\* Merging the revisions from one on keeps the latest value, and what is read
\* below that revision.
LEMMA CollapseKeeps ==
  ASSUME NEW s \in Seq(AnyValue), NEW rev \in Nat
  PROVE  /\ Collapse(s, rev) \in Seq(AnyValue)
         /\ Len(Collapse(s, rev)) <= rev + 1
         /\ Latest(Collapse(s, rev)) = Latest(s)
         /\ \A r \in Nat : r < rev => Get(Collapse(s, rev), r) = Get(s, r)
<1> DEFINE b == SubSeq(s, 1, rev)
           m == Merged(s, rev)
<1>1. Len(s) \in Nat /\ \A i \in 1 .. Len(s) : s[i] \in AnyValue
  BY LenProperties, ElementOfSeq
<1>2. CASE Len(s) <= rev + 1
  BY <1>2, <1>1 DEF Collapse
<1>3. CASE Len(s) > rev + 1
  <2>1. b \in Seq(AnyValue) /\ Len(b) = rev /\ \A i \in 1 .. rev : b[i] = s[i]
    <3>1. \A i \in 1 .. rev : s[i] \in AnyValue
      BY <1>1, <1>3
    <3> QED BY <3>1, SubSeqProperties
  <2>2. Latest(s) \in AnyValue
    BY GetType
  <2>3. m \in Seq(AnyValue) /\ Len(m) = rev + 1 /\ m[rev + 1] = Latest(s)
        /\ \A i \in 1 .. rev : m[i] = s[i]
    <3> HIDE DEF b
    <3>1. m = Append(b, Latest(s))
      BY DEF Merged, b
    <3> QED BY <2>1, <2>2, <3>1, AppendProperties
  <2>4. s # <<>>
    BY <1>1, <1>3
  <2>5. ASSUME NEW r \in Nat, r < rev PROVE Get(s, r) = m[r + 1]
    <3>1. r + 1 < Len(s) /\ r + 1 \in 1 .. rev
      BY <1>1, <1>3, <2>5
    <3> QED BY <2>3, <2>4, <3>1 DEF Get
  <2>6. CASE \A i \in 1 .. Len(m) : m[i] = Absent
    <3>1. Collapse(s, rev) = <<>>
      BY <1>1, <1>3, <2>6 DEF Collapse
    <3>2. Latest(s) = Absent
      BY <2>3, <2>6
    <3>3. ASSUME NEW r \in Nat, r < rev PROVE Get(s, r) = Absent
      <4>1. r + 1 \in 1 .. Len(m)
        BY <2>3, <3>3
      <4> QED BY <2>5, <2>6, <3>3, <4>1
    <3>4. <<>> \in Seq(AnyValue) /\ Len(<<>>) = 0 /\ Latest(<<>>) = Absent
          /\ \A r \in Nat : Get(<<>>, r) = Absent
      BY DEF Latest, Get
    <3> QED BY <3>1, <3>2, <3>3, <3>4
  <2>7. CASE ~(\A i \in 1 .. Len(m) : m[i] = Absent)
    <3>1. Collapse(s, rev) = m
      BY <1>1, <1>3, <2>7 DEF Collapse
    <3>2. m # <<>>
      BY <2>3
    <3>3. Latest(m) = Latest(s)
      BY <2>3, <3>2 DEF Latest
    <3>4. ASSUME NEW r \in Nat, r < rev PROVE Get(m, r) = m[r + 1]
      BY <2>3, <3>2, <3>4 DEF Get
    <3> HIDE DEF m
    <3> QED BY <2>3, <2>5, <3>1, <3>3, <3>4
  <2> QED BY <2>6, <2>7
<1> QED BY <1>1, <1>2, <1>3

\* Every set of natural numbers that is not empty has a least one.
LEMMA LeastNatural ==
  ASSUME NEW T, T \subseteq Nat, T # {}
  PROVE  \E n \in T : \A m \in T : n <= m
<1> DEFINE R == {ss \in Nat \X Nat : ss[1] < ss[2]}
<1>1. IsWellFoundedOn(R, Nat)
  BY NatLessThanWellFounded DEF OpToRel
<1>2. PICK n \in T : \A m \in T : <<m, n>> \notin R
  <2> HIDE DEF R
  <2> QED BY <1>1, WFMin
<1>3. ASSUME NEW m \in T PROVE n <= m
  <2>1. <<m, n>> \in Nat \X Nat /\ <<m, n>>[1] = m /\ <<m, n>>[2] = n
    OBVIOUS
  <2>2. ~(m < n)
    BY <1>2, <2>1
  <2> QED BY <2>2
<1> QED BY <1>3

\* What is read at the last revision of the first n ones.
LEMMA GetPrefix ==
  ASSUME NEW s \in Seq(AnyValue), NEW n \in 0 .. Len(s), NEW r \in Nat
  PROVE  /\ SubSeq(s, 1, n) \in Seq(AnyValue)
         /\ Len(SubSeq(s, 1, n)) = n
         /\ n = 0 => Get(SubSeq(s, 1, n), r) = Absent
         /\ n > 0 => Get(SubSeq(s, 1, n), r) = IF r + 1 < n THEN s[r + 1] ELSE s[n]
<1> DEFINE p == SubSeq(s, 1, n)
<1>1. \A i \in 1 .. n : s[i] \in AnyValue
  BY ElementOfSeq, LenProperties
<1>2. p \in Seq(AnyValue) /\ Len(p) = n /\ \A i \in 1 .. n : p[i] = s[i]
  BY <1>1, SubSeqProperties, LenProperties
<1> HIDE DEF p
<1>3. n = 0 => p = <<>>
  BY <1>2, EmptySeq
<1>4. n > 0 => p # <<>>
  BY <1>2, EmptySeq
<1>5. n = 0 => Get(p, r) = Absent
  BY <1>3 DEF Get
<1>6. n > 0 => Get(p, r) = IF r + 1 < n THEN s[r + 1] ELSE s[n]
  BY <1>2, <1>4 DEF Get
<1> QED BY <1>2, <1>5, <1>6 DEF p

\* Dropping repeated values at the end changes nothing that is read.
LEMMA RestoredKeeps ==
  ASSUME NEW s \in Seq(AnyValue)
  PROVE  /\ Restored(s) \in Seq(AnyValue)
         /\ Len(Restored(s)) <= Len(s)
         /\ Latest(Restored(s)) = Latest(s)
         /\ \A r \in Nat : Get(Restored(s), r) = Get(s, r)
<1> DEFINE Rest(n) == \A i \in n + 1 .. Len(s) : s[i] = Get(SubSeq(s, 1, n), n)
           Last2(n) == n > 0 => s[n] # Get(SubSeq(s, 1, n - 1), n)
           T == {n \in 0 .. Len(s) : Rest(n)}
<1>1. Len(s) \in Nat /\ s = SubSeq(s, 1, Len(s))
  BY LenProperties, SubSeqFull
<1>2. PICK n \in T : \A m \in T : n <= m
  <2>1. Len(s) \in T
    BY <1>1
  <2>2. T \subseteq Nat
    BY <1>1
  <2> HIDE DEF T
  <2> QED BY <2>1, <2>2, LeastNatural
<1>3. n \in 0 .. Len(s) /\ Rest(n)
  OBVIOUS
<1>4. Last2(n)
  <2> SUFFICES ASSUME n > 0, s[n] = Get(SubSeq(s, 1, n - 1), n) PROVE FALSE
    OBVIOUS
  <2>1. n - 1 \in 0 .. Len(s) /\ n - 1 \in Nat /\ n \in Nat
    BY <1>1
  <2>2. Get(SubSeq(s, 1, n - 1), n - 1) = Get(SubSeq(s, 1, n - 1), n)
    BY <2>1, GetPrefix
  <2>3. Get(SubSeq(s, 1, n), n) = s[n]
    BY <1>3, <2>1, GetPrefix
  <2>4. \A i \in n .. Len(s) : s[i] = s[n]
    BY <1>1, <1>3, <2>3
  <2>5. Rest(n - 1)
    BY <2>1, <2>2, <2>4
  <2> QED BY <1>2, <2>1, <2>5
<1>5. PICK k \in 0 .. Len(s) : Last2(k) /\ Rest(k) /\ Restored(s) = SubSeq(s, 1, k)
  BY <1>3, <1>4 DEF Restored
<1> DEFINE p == SubSeq(s, 1, k)
<1>6. p \in Seq(AnyValue) /\ Len(p) = k
  BY GetPrefix
<1>7. \A r \in Nat : Get(p, r) = Get(s, r)
  <2> SUFFICES ASSUME NEW r \in Nat PROVE Get(p, r) = Get(s, r)
    OBVIOUS
  <2>1. CASE k = 0
    <3>1. Get(p, r) = Absent /\ \A i \in 1 .. Len(s) : s[i] = Absent
      BY <1>5, <2>1, GetPrefix
    <3>2. s # <<>> => /\ r + 1 < Len(s) => r + 1 \in 1 .. Len(s)
                      /\ Len(s) \in 1 .. Len(s)
      BY <1>1, EmptySeq
    <3>3. Get(s, r) = Absent
      BY <3>1, <3>2 DEF Get
    <3> QED BY <3>1, <3>3
  <2>2. CASE k > 0
    <3>1. Get(p, k) = s[k]
      BY <2>2, GetPrefix
    <3>2. \A i \in k .. Len(s) : s[i] = s[k]
      BY <1>1, <1>5, <3>1
    <3>3. Get(p, r) = IF r + 1 < k THEN s[r + 1] ELSE s[k]
      BY <2>2, GetPrefix
    <3>4. Get(s, r) = IF r + 1 < Len(s) THEN s[r + 1] ELSE s[Len(s)]
      <4>1. s # <<>>
        BY <1>1, <2>2, EmptySeq
      <4> QED BY <4>1 DEF Get
    <3> QED BY <1>1, <2>2, <3>2, <3>3, <3>4
  <2> QED BY <2>1, <2>2
<1>8. Latest(p) = Get(p, Len(s)) /\ Latest(s) = Get(s, Len(s))
  BY <1>1, <1>6 DEF Latest, Get
<1> QED BY <1>1, <1>5, <1>6, <1>7, <1>8

(***************************************************************************)
(* The data of the device.                                                 *)
(***************************************************************************)
DataType == data \in [Key -> Seq(AnyValue)] /\ lastSet \in [Key -> AnyValue]

\* What a write does to one key: nothing, or it puts one of the values.
LEMMA StoreEach ==
  ASSUME NEW d \in [Key -> Seq(AnyValue)], NEW rev \in Nat, NEW V \in SUBSET AnyValue,
         lastSet \in [Key -> AnyValue], Store(d, rev, V)
  PROVE  /\ DataType'
         /\ \A k \in Key :
              \/ data'[k] = d[k] /\ lastSet'[k] = lastSet[k]
              \/ \E v \in AnyValue : data'[k] = Put(d[k], rev, v) /\ lastSet'[k] = v
<1>1. PICK new \in [Key -> V \cup {"same"}] :
        /\ data' = [k \in Key |-> IF new[k] = "same" THEN d[k] ELSE Put(d[k], rev, new[k])]
        /\ lastSet' = [k \in Key |-> IF new[k] = "same" THEN lastSet[k] ELSE new[k]]
  BY DEF Store
<1>2. ASSUME NEW k \in Key
      PROVE  /\ data'[k] \in Seq(AnyValue) /\ lastSet'[k] \in AnyValue
             /\ \/ data'[k] = d[k] /\ lastSet'[k] = lastSet[k]
                \/ \E v \in AnyValue : data'[k] = Put(d[k], rev, v) /\ lastSet'[k] = v
  <2>1. CASE new[k] = "same"
    BY <1>1, <2>1
  <2>2. CASE new[k] # "same"
    <3>1. new[k] \in AnyValue
      BY <2>2
    <3>2. data'[k] = Put(d[k], rev, new[k]) /\ lastSet'[k] = new[k]
      BY <1>1, <2>2
    <3>3. Put(d[k], rev, new[k]) \in Seq(AnyValue)
      BY <3>1, PutKeeps
    <3> QED BY <3>1, <3>2, <3>3
  <2> QED BY <2>1, <2>2
<1>3. DataType'
  BY <1>1, <1>2 DEF DataType
<1> QED BY <1>2, <1>3

\* Merging, key by key.
LEMMA CollapsedEach ==
  ASSUME NEW rev \in Nat, DataType
  PROVE  /\ Collapsed(rev) \in [Key -> Seq(AnyValue)]
         /\ \A k \in Key : Collapsed(rev)[k] \in {data[k], Collapse(data[k], rev)}
         /\ GivesUp(rev) => Collapsed(rev) = data
         /\ ~GivesUp(rev) => \A k \in Key : Collapsed(rev)[k] = Collapse(data[k], rev)
<1>1. \A k \in Key : Collapse(data[k], rev) \in Seq(AnyValue)
  BY CollapseKeeps DEF DataType
<1> QED BY <1>1 DEF Collapsed, DataType

(***************************************************************************)
(* Types.  Where scripts have declared what they want, writes go to the    *)
(* revision after the last commit.                                         *)
(***************************************************************************)
Sound ==
  /\ CommitLoopTypeOK
  /\ phase = "await" => rpc > 0
  /\ phase = "idle" => decl = 0
  /\ phase = "done" => decl = 0 /\ vps = 0
  /\ Scripted => cursor = NextRev(revs)

\* The last revision of a stack, and the next one.
LEMMA StackType ==
  ASSUME NEW rs \in Seq(Revision)
  PROVE  /\ LastRev(rs) \in Nat /\ NextRev(rs) \in Nat /\ NextRev(rs) = LastRev(rs) + 1
         /\ rs # <<>> => Top(rs) \in Revision
<1>1. rs # <<>> => Len(rs) \in 1 .. Len(rs) /\ rs[Len(rs)] \in Revision
  BY EmptySeq, LenProperties, ElementOfSeq
<1>2. rs # <<>> => Top(rs) \in Revision
  BY <1>1 DEF Top
<1>3. LastRev(rs) \in Nat
  BY <1>2 DEF LastRev, Revision
<1> QED BY <1>2, <1>3 DEF NextRev

\* The stack of revisions.
LEMMA RevsType ==
  ASSUME Sound
  PROVE  /\ LastRev(revs) \in Nat /\ NextRev(revs) \in Nat
         /\ NextRev(revs) = LastRev(revs) + 1
         /\ phase # "done" => /\ Len(revs) = vps + 1 /\ revs # <<>>
                              /\ Top(revs) \in Revision
<1>1. revs \in Seq(Revision) /\ Len(revs) \in Nat /\ vps \in Nat
  BY LenProperties DEF Sound, CommitLoopTypeOK
<1>2. LastRev(revs) \in Nat /\ NextRev(revs) \in Nat /\ NextRev(revs) = LastRev(revs) + 1
  BY <1>1, StackType
<1>3. ASSUME phase # "done" PROVE Len(revs) = vps + 1
  BY <1>3 DEF Sound, CommitLoopTypeOK
<1>4. ASSUME phase # "done" PROVE revs # <<>> /\ Top(revs) \in Revision
  BY <1>1, <1>3, <1>4, EmptySeq, StackType
<1> QED BY <1>2, <1>3, <1>4

\* A write keeps the types of the device.
LEMMA WriteType ==
  ASSUME Sound, NEW rev \in Nat, NEW V \in SUBSET AnyValue, WriteAt(rev, V)
  PROVE  /\ cursor' = rev /\ sizes' \in Nat /\ DataType' /\ short' = short
<1>1. DataType
  BY DEF Sound, CommitLoopTypeOK, DataType, AnyValue
<1>2. data \in [Key -> Seq(AnyValue)] /\ lastSet \in [Key -> AnyValue] /\ sizes \in Nat
  BY <1>1 DEF DataType, Sound, CommitLoopTypeOK
<1>3. Store(data, rev, V)
  BY DEF WriteAt
<1>4. DataType'
  BY <1>2, <1>3, StoreEach
<1> QED BY <1>2, <1>4 DEF WriteAt

\* A change of the device alone, from one state of a batch to another.
DeviceType == cursor \in Nat /\ sizes \in Nat /\ DataType /\ short \in BOOLEAN

\* The rest of the types.
BatchType ==
  /\ phase \in Phase
  /\ provs \in BOOLEAN /\ probes \in BOOLEAN
  /\ revs \in Seq(Revision) /\ missing \in BOOLEAN
  /\ decl \in Nat /\ vps \in Nat /\ sync \in 0 .. decl
  /\ ran \in Seq(BOOLEAN) /\ Len(ran) = decl
  /\ decl <= vps + 1
  /\ Len(revs) = vps + 1 \/ (phase = "done" /\ revs = <<>>)
  /\ local \in BOOLEAN /\ changed \in BOOLEAN
  /\ rpc \in 0 .. Chain /\ (rpc > 0 => phase \in {"await", "fault", "ended"})
  /\ cycle \in Nat /\ iter \in Nat /\ rpcs \in Nat
  /\ phase = "await" => rpc > 0
  /\ phase = "idle" => decl = 0
  /\ phase = "done" => decl = 0 /\ vps = 0

\* The types are those of the device, of the batch, and the cursor's place.
LEMMA SoundParts ==
  /\ Sound <=> BatchType /\ DeviceType /\ (Scripted => cursor = NextRev(revs))
  /\ Sound' <=> BatchType' /\ DeviceType' /\ (Scripted' => cursor' = NextRev(revs'))
<1>1. Sound <=> BatchType /\ DeviceType /\ (Scripted => cursor = NextRev(revs))
  BY DEF Sound, CommitLoopTypeOK, BatchType, DeviceType, DataType, AnyValue
<1>2. Sound' <=> BatchType' /\ DeviceType' /\ (Scripted' => cursor' = NextRev(revs'))
  BY DEF Sound, CommitLoopTypeOK, BatchType, DeviceType, DataType, AnyValue, NextRev, LastRev, Top
<1> QED BY <1>1, <1>2

\* Between batches.
LEMMA BetweenType ==
  ASSUME LimitAssumption, Sound, AddProvisions \/ ClearProvisions \/ Start \/ Restart
  PROVE  Sound'
<1> BatchType /\ DeviceType
  BY SoundParts
<1> MAX_ITERATIONS \in Nat
  BY DEF MAX_ITERATIONS, LimitAssumption
<1>1. ASSUME NextCycle PROVE cycle' \in Nat /\ iter' \in Nat /\ rpcs' \in Nat
  <2> cycle \in Nat /\ iter \in Nat /\ rpcs \in Nat
    BY DEF BatchType
  <2>1. CASE UNCHANGED <<counts, rpcs>>
    BY <2>1 DEF counts
  <2>2. CASE cycle' = cycle + 1 /\ rpcs' = 0 /\ iter' = cycle' * MAX_ITERATIONS
    <3> HIDE DEF MAX_ITERATIONS
    <3> QED BY <2>2
  <2> QED BY <1>1, <2>1, <2>2 DEF NextCycle
<1>2. ASSUME Reset, phase' \in Phase \ {"await", "done"},
             provs' \in BOOLEAN, probes' \in BOOLEAN,
             changed' \in BOOLEAN, NextCycle
      PROVE  BatchType' /\ ~Scripted'
  <2>1. <<0>> \in Seq(Revision) /\ Len(<<0>>) = 1 /\ <<>> \in Seq(BOOLEAN) /\ Len(<<>>) = 0
    BY DEF Revision
  <2>2. revs' \in Seq(Revision) /\ Len(revs') = vps' + 1 /\ ran' \in Seq(BOOLEAN) /\ Len(ran') = decl'
    <3>1. revs' = <<0>> /\ vps' = 0 /\ ran' = <<>> /\ decl' = 0
      BY <1>2 DEF Reset
    <3> QED BY <2>1, <3>1
  <2>3. decl' = 0 /\ vps' = 0 /\ sync' = 0 /\ rpc' = 0
    BY <1>2 DEF Reset
  <2>4. cycle' \in Nat /\ iter' \in Nat /\ rpcs' \in Nat
    BY <1>1, <1>2
  <2>5. phase' \in Phase /\ phase' # "await" /\ ~Scripted'
    BY <1>2, <2>3 DEF Scripted
  <2>6. local' \in BOOLEAN /\ missing' \in BOOLEAN
    BY <1>2, Zenon DEF Reset
  <2> QED BY <1>2, <2>2, <2>3, <2>4, <2>5, <2>6 DEF BatchType, Chain
<1>3. CASE AddProvisions
  BY <1>2, <1>3, SoundParts DEF AddProvisions, device, DeviceType, DataType, BatchType, Phase
<1>4. CASE ClearProvisions
  <2>1. DeviceType'
    <3>1. CASE UNCHANGED <<sizes, data, short>>
      BY <1>4, <3>1 DEF ClearProvisions, DeviceType, DataType
    <3>2. CASE /\ data' = Collapsed(1)
               /\ sizes' = IF GivesUp(1) THEN sizes ELSE 2
               /\ NoteShort(1)
      <4>1. Collapsed(1) \in [Key -> Seq(AnyValue)]
        BY CollapsedEach DEF DeviceType
      <4> QED BY <1>4, <3>2, <4>1 DEF ClearProvisions, NoteShort, DeviceType, DataType
    <3> QED BY <1>4, <3>1, <3>2 DEF ClearProvisions
  <2> QED BY <1>2, <1>4, <2>1, SoundParts DEF ClearProvisions, BatchType, Phase
<1>5. CASE Start
  <2>1. BatchType' /\ DeviceType'
    BY <1>5 DEF Start, BatchType, DeviceType, DataType, device, progress, counts, Phase
  <2>2. ~Scripted'
    BY <1>5 DEF Start, Scripted, BatchType
  <2> QED BY <2>1, <2>2, SoundParts
<1>6. CASE Restart
  <2>1. revs' \in Seq(Revision) /\ Len(revs') = vps + 1
    <3>1. CASE revs = <<>>
      <4>1. revs' = <<Undefined>> /\ Len(<<Undefined>>) = 1 /\ <<Undefined>> \in Seq(Revision)
        BY <1>6, <3>1 DEF Restart, Revision
      <4>2. vps = 0
        BY <1>6 DEF Restart, BatchType
      <4> QED BY <4>1, <4>2
    <3>2. CASE revs # <<>>
      BY <1>6, <3>2 DEF Restart, BatchType
    <3> QED BY <3>1, <3>2
  <2>2. missing' \in BOOLEAN
    BY <1>6, Zenon DEF Restart
  <2>3. BatchType' /\ DeviceType'
    BY <1>6, <2>1, <2>2 DEF Restart, BatchType, DeviceType, DataType, device, progress, counts,
       Phase
  <2>4. ~Scripted'
    BY <1>6 DEF Restart, Scripted, BatchType
  <2> QED BY <2>3, <2>4, SoundParts
<1> QED BY <1>3, <1>4, <1>5, <1>6

\* The scripts of the batch, or of virtual parameters, run.
LEMMA RunType ==
  ASSUME Sound, RunScripts
  PROVE  Sound'
<1> BatchType /\ DeviceType
  BY SoundParts
<1>1. NextRev(revs) \in Nat /\ decl <= vps /\ phase = "run"
  BY RevsType DEF RunScripts
<1>2. CASE phase' = "fault" /\ WriteAt(NextRev(revs), {}) /\ UNCHANGED <<decl, ran, changed>>
  <2>1. DeviceType'
    BY <1>1, <1>2, WriteType DEF DeviceType
  <2>2. BatchType' /\ ~Scripted'
    BY <1>1, <1>2 DEF RunScripts, counts, BatchType, Phase, Scripted
  <2> QED BY <2>1, <2>2, SoundParts
<1>3. ASSUME NEW d \in BOOLEAN, phase' = phase,
             WriteAt(NextRev(revs), IF Stops THEN {Absent} ELSE {}),
             decl' = decl + 1, ran' = Append(ran, d), changed' \in {changed, TRUE}
      PROVE  Sound'
  <2>1. DeviceType' /\ cursor' = NextRev(revs)
    BY <1>1, <1>3, WriteType DEF DeviceType, AnyValue
  <2>2. ran' \in Seq(BOOLEAN) /\ Len(ran') = decl'
    BY <1>3, AppendProperties DEF BatchType
  <2>3. decl' \in Nat /\ sync' \in 0 .. decl' /\ decl' <= vps' + 1
    BY <1>1, <1>3 DEF RunScripts, BatchType
  <2>4. revs' = revs
    BY DEF RunScripts
  <2>7. changed' \in BOOLEAN
    BY <1>3 DEF BatchType
  <2>5. BatchType'
    BY <1>1, <1>3, <2>2, <2>3, <2>4, <2>7 DEF RunScripts, counts, BatchType
  <2>6. NextRev(revs') = NextRev(revs)
    BY <2>4
  <2> QED BY <2>1, <2>5, <2>6, SoundParts
<1> QED BY <1>2, <1>3 DEF RunScripts

\* Declarations are processed, or fail.
LEMMA DeclareType ==
  ASSUME LimitAssumption, Sound,
         AddDeclarations \/ LimitFault \/ RunDeclarations \/ Reprocess \/ SetLocal
  PROVE  Sound'
<1> BatchType /\ DeviceType
  BY SoundParts
<1>1. phase = "run" /\ Scripted /\ cursor = NextRev(revs) /\ cursor \in Nat
  BY SoundParts, RevsType DEF AddDeclarations, LimitFault, RunDeclarations, Reprocess,
     SetLocal, Declared, Synced, Scripted
<1>2. ASSUME revs' = revs, cursor' = cursor, BatchType', DeviceType' PROVE Sound'
  <2>1. NextRev(revs') = NextRev(revs)
    BY <1>2
  <2> QED BY <1>1, <1>2, <2>1, SoundParts
<1>3. CASE AddDeclarations
  <2>1. revs' = revs /\ cursor' = cursor /\ DeviceType'
    BY <1>3 DEF AddDeclarations, device, DeviceType, DataType
  <2>2. probes' \in BOOLEAN /\ local' \in BOOLEAN
    BY <1>3, Zenon DEF AddDeclarations
  <2>3. BatchType'
    BY <1>1, <1>3, <2>2 DEF AddDeclarations, counts, BatchType
  <2> QED BY <1>2, <2>1, <2>3
<1>4. CASE LimitFault
  <2>1. revs' = revs /\ cursor' = cursor /\ DeviceType'
    BY <1>4 DEF LimitFault, loop, device, DeviceType, DataType
  <2>2. BatchType'
    BY <1>1, <1>4 DEF LimitFault, loop, progress, counts, BatchType, Phase
  <2> QED BY <1>2, <2>1, <2>2
<1>5. CASE RunDeclarations
  <2>1. revs' = revs /\ cursor' = cursor /\ DeviceType'
    BY <1>1, <1>5, WriteType DEF RunDeclarations, loop, DeviceType
  <2>2. iter' \in Nat /\ sync' \in 0 .. decl /\ cycle' = cycle /\ rpcs' = rpcs
    BY <1>5 DEF RunDeclarations, Iteration, BatchType
  <2>3. local' \in BOOLEAN /\ changed' \in BOOLEAN
    BY <1>5 DEF RunDeclarations, BatchType
  <2>4. BatchType'
    BY <1>1, <1>5, <2>2, <2>3 DEF RunDeclarations, loop, BatchType
  <2> QED BY <1>2, <2>1, <2>4
<1>6. CASE Reprocess
  <2>1. revs' = revs /\ cursor' = cursor /\ DeviceType'
    BY <1>6 DEF Reprocess, loop, device, DeviceType, DataType
  <2>2. local' \in BOOLEAN /\ changed' \in BOOLEAN
    BY <1>6, Zenon DEF Reprocess
  <2>3. BatchType'
    BY <1>1, <1>6, <2>2 DEF Reprocess, loop, counts, BatchType
  <2> QED BY <1>2, <2>1, <2>3
<1>7. CASE SetLocal
  <2>1. revs' = revs /\ cursor' = cursor /\ DeviceType'
    BY <1>1, <1>7, WriteType DEF SetLocal, loop, DeviceType
  <2>2. BatchType'
    BY <1>1, <1>7 DEF SetLocal, loop, counts, BatchType
  <2> QED BY <1>2, <2>1, <2>2
<1> QED BY <1>3, <1>4, <1>5, <1>6, <1>7

\* A script asks for a virtual parameter.
LEMMA PushType ==
  ASSUME Sound, Scripted, decl <= vps + 1, PushVirtualParameters
  PROVE  Sound'
<1> BatchType /\ DeviceType
  BY SoundParts
<1>1. revs[Len(revs)] \in Revision
  BY RevsType DEF Top, Scripted
<1>2. revs' \in Seq(Revision) /\ Len(revs') = vps' + 1
  <2>1. revs' = Append(revs, revs[Len(revs)]) /\ vps' = vps + 1
    BY DEF PushVirtualParameters, Top
  <2>2. revs \in Seq(Revision) /\ Len(revs) = vps + 1
    BY RevsType DEF BatchType, Scripted
  <2> QED BY <1>1, <2>1, <2>2, AppendProperties
<1>3. BatchType'
  BY <1>2 DEF PushVirtualParameters, progress, counts, BatchType, Scripted
<1>4. DeviceType' /\ ~Scripted'
  BY DEF PushVirtualParameters, device, DeviceType, DataType, BatchType, Scripted
<1> QED BY <1>3, <1>4, SoundParts

\* A step that leaves the device alone and declares nothing.
LEMMA SendType ==
  ASSUME Sound,
         \/ NothingToDo \/ EndSession
         \/ \E n \in {1, Chain} : Scripted /\ SendRpc(n)
  PROVE  Sound'
<1> BatchType /\ DeviceType
  BY SoundParts
<1>1. CASE NothingToDo
  <2>1. BatchType' /\ DeviceType' /\ ~Scripted'
    BY <1>1 DEF NothingToDo, loop, progress, counts, device, BatchType, DeviceType, DataType,
       Phase, Scripted
  <2> QED BY <2>1, SoundParts
<1>2. CASE EndSession
  <2>1. BatchType' /\ DeviceType' /\ ~Scripted'
    BY <1>2 DEF EndSession, loop, progress, counts, device, BatchType, DeviceType, DataType,
       Phase, Scripted
  <2> QED BY <2>1, SoundParts
<1>3. ASSUME NEW n \in {1, Chain}, Scripted, SendRpc(n) PROVE Sound'
  <2>1. BatchType' /\ DeviceType' /\ ~Scripted'
    BY <1>3 DEF SendRpc, loop, progress, counts, device, BatchType, DeviceType, DataType,
       Phase, Scripted, Chain
  <2> QED BY <2>1, SoundParts
<1> QED BY <1>1, <1>2, <1>3

\* The stack without its last revision.
LEMMA Popped ==
  ASSUME Sound, Scripted, decl = vps + 1
  PROVE  LET below == SubSeq(revs, 1, Len(revs) - 1)
         IN  /\ below \in Seq(Revision) /\ Len(below) = vps
             /\ LastRev(below) \in Nat /\ NextRev(below) = LastRev(below) + 1
             /\ vps = 0 => below = <<>>
             /\ SubSeq(ran, 1, decl - 1) \in Seq(BOOLEAN)
             /\ Len(SubSeq(ran, 1, decl - 1)) = decl - 1
<1> DEFINE below == SubSeq(revs, 1, Len(revs) - 1)
<1> BatchType
  BY SoundParts
<1>1. Len(revs) = vps + 1 /\ revs \in Seq(Revision) /\ vps \in Nat
      /\ ran \in Seq(BOOLEAN) /\ Len(ran) = vps + 1
  BY RevsType DEF BatchType, Scripted
<1>2. \A i \in 1 .. vps : revs[i] \in Revision /\ ran[i] \in BOOLEAN
  BY <1>1, ElementOfSeq
<1>3. below \in Seq(Revision) /\ Len(below) = vps
  BY <1>1, <1>2, SubSeqProperties
<1>4. SubSeq(ran, 1, decl - 1) \in Seq(BOOLEAN) /\ Len(SubSeq(ran, 1, decl - 1)) = decl - 1
  BY <1>1, <1>2, SubSeqProperties
<1> HIDE DEF below
<1>6. LastRev(below) \in Nat
  BY <1>3, StackType
<1>7. vps = 0 => below = <<>>
  BY <1>3, EmptySeq
<1> QED BY <1>3, <1>4, <1>6, <1>7 DEF NextRev, below

\* The uppermost scripts go on after their commit.
LEMMA CommitType ==
  ASSUME Sound, Commit
  PROVE  Sound'
<1> BatchType /\ DeviceType
  BY SoundParts
<1>1. Scripted /\ decl = vps + 1 /\ decl = sync /\ phase = "run"
  BY DEF Commit, Settled, Synced, Declared, Scripted, BatchType
<1>2. decl \in 1 .. Len(revs) /\ revs \in Seq(Revision) /\ revs[decl] \in Revision
  <2>1. decl \in 1 .. Len(revs)
    BY <1>1, RevsType DEF BatchType
  <2> QED BY <2>1, ElementOfSeq DEF BatchType
<1>3. revs' \in Seq(Revision) /\ Len(revs') = Len(revs)
  <2>1. revs[decl] + 1 \in Revision
    BY <1>2 DEF Revision, Undefined
  <2> QED BY <1>2, <2>1, ExceptSeq DEF Commit
<1>4. ran' \in Seq(BOOLEAN) /\ Len(ran') = decl'
  BY <1>1, Popped DEF Commit
<1>5. BatchType'
  BY <1>1, <1>3, <1>4 DEF Commit, counts, BatchType
<1>6. DeviceType' /\ ~Scripted'
  BY <1>1 DEF Commit, device, DeviceType, DataType, BatchType, Scripted
<1> QED BY <1>5, <1>6, SoundParts

\* The uppermost scripts are done.
LEMMA ReturnType ==
  ASSUME Sound, Return
  PROVE  Sound'
<1> DEFINE below == SubSeq(revs, 1, Len(revs) - 1)
           rev == NextRev(below)
<1> BatchType /\ DeviceType
  BY SoundParts
<1>1. Scripted /\ decl = vps + 1 /\ decl = sync /\ phase = "run"
  BY DEF Return, Settled, Synced, Declared, Scripted, BatchType
<1>2. below \in Seq(Revision) /\ Len(below) = vps /\ rev \in Nat /\ vps \in Nat
      /\ (vps = 0 => below = <<>>) /\ ran' \in Seq(BOOLEAN) /\ Len(ran') = decl'
  <2>1. /\ below \in Seq(Revision) /\ Len(below) = vps
        /\ LastRev(below) \in Nat /\ rev = LastRev(below) + 1
        /\ vps = 0 => below = <<>>
        /\ SubSeq(ran, 1, decl - 1) \in Seq(BOOLEAN)
        /\ Len(SubSeq(ran, 1, decl - 1)) = decl - 1
    BY <1>1, Popped
  <2>2. ran' = SubSeq(ran, 1, decl - 1) /\ decl' = decl - 1
    BY DEF Return
  <2> HIDE DEF below
  <2>3. rev \in Nat
    BY <2>1
  <2> QED BY <2>1, <2>2, <2>3 DEF BatchType
<1>3. /\ revs' = below /\ decl' = decl - 1 /\ sync' = sync - 1
      /\ cursor' = rev /\ sizes' = rev + 1 /\ NoteShort(rev)
      /\ UNCHANGED <<provs, probes, local, rpc, counts, rpcs, old>>
  BY DEF Return
<1>4. \E V \in SUBSET AnyValue : Store(Collapsed(rev), rev, V)
  BY DEF Return, AnyValue
<1>5. \/ vps = 0 /\ phase' = "done" /\ vps' = vps
      \/ vps > 0 /\ vps' = vps - 1 /\ phase' = phase
  BY DEF Return
<1>9. changed' \in BOOLEAN /\ missing' \in BOOLEAN
  BY Zenon DEF Return, BatchType
<1> HIDE DEF below, rev
<1>6. DeviceType'
  <2>1. Collapsed(rev) \in [Key -> Seq(AnyValue)]
    BY <1>2, CollapsedEach DEF DeviceType
  <2>2. DataType'
    BY <1>2, <1>4, <2>1, StoreEach DEF DeviceType, DataType
  <2> QED BY <1>2, <1>3, <2>2 DEF DeviceType, NoteShort
<1>7. BatchType'
  <2>1. decl' \in Nat /\ vps' \in Nat /\ sync' \in 0 .. decl' /\ decl' <= vps' + 1
    <3>1. decl' = vps /\ sync' = vps
      BY <1>1, <1>2, <1>3
    <3> QED BY <1>2, <1>5, <3>1
  <2>6. phase' = "done" => decl' = 0 /\ vps' = 0
    BY <1>1, <1>2, <1>3, <1>5
  <2>2. revs' \in Seq(Revision) /\ (Len(revs') = vps' + 1 \/ (phase' = "done" /\ revs' = <<>>))
    <3>1. Len(revs') = vps /\ (vps = 0 => revs' = <<>>)
      BY <1>2, <1>3
    <3> QED BY <1>2, <1>3, <1>5, <3>1
  <2>3. phase' \in Phase /\ phase' \notin {"await", "idle"}
    BY <1>1, <1>5 DEF BatchType, Phase
  <2>4. rpc' \in 0 .. Chain /\ ~(rpc' > 0)
        /\ cycle' \in Nat /\ iter' \in Nat /\ rpcs' \in Nat
    <3>1. rpc = 0
      BY <1>1 DEF BatchType, Chain
    <3> QED BY <1>3, <3>1 DEF BatchType, Chain, counts
  <2>5. provs' \in BOOLEAN /\ probes' \in BOOLEAN /\ local' \in BOOLEAN
    BY <1>3 DEF BatchType
  <2> QED BY <1>2, <1>9, <2>1, <2>2, <2>3, <2>4, <2>5, <2>6, Zenon DEF BatchType
<1>8. cursor' = NextRev(revs')
  BY <1>3 DEF rev
<1> QED BY <1>6, <1>7, <1>8, SoundParts

\* What the stack is restored to reads as before.
LEMMA RestoredStack ==
  ASSUME Sound
  PROVE  /\ RestoredRevs \in Seq(Revision) /\ Len(RestoredRevs) = Len(revs)
         /\ LastRev(RestoredRevs) = LastRev(revs)
<1>1. revs \in Seq(Revision) /\ Len(revs) \in Nat /\ DOMAIN revs = 1 .. Len(revs)
  BY LenProperties DEF Sound, CommitLoopTypeOK
<1>2. \A i \in 1 .. Len(revs) : revs[i] \in Revision
  BY <1>1, ElementOfSeq
<1>3. RestoredRevs \in [1 .. Len(revs) -> Revision]
  BY <1>1, <1>2 DEF RestoredRevs, Revision
<1>4. RestoredRevs \in Seq(Revision) /\ Len(RestoredRevs) = Len(revs)
  BY <1>1, <1>3
<1>5. CASE revs = <<>>
  BY <1>4, <1>5, EmptySeq DEF LastRev
<1>6. CASE revs # <<>>
  <2>1. Len(revs) \in DOMAIN revs /\ RestoredRevs # <<>>
    BY <1>1, <1>4, <1>6, EmptySeq
  <2>2. \/ Top(RestoredRevs) = Top(revs)
        \/ Top(revs) = Undefined /\ Top(RestoredRevs) = 0
    BY <1>4, <2>1 DEF RestoredRevs, Top
  <2>3. LastRev(RestoredRevs) = LastRev(revs)
    BY <1>6, <2>1, <2>2 DEF LastRev, Undefined
  <2> QED BY <1>4, <2>3
<1> QED BY <1>4, <1>5, <1>6

\* An answer, a fault, or none.
LEMMA AnswerType ==
  ASSUME Sound, RpcResponse \/ InvalidResponse \/ RpcFault \/ HandOff
  PROVE  Sound'
<1> BatchType /\ DeviceType
  BY SoundParts
<1>1. phase = "await" /\ rpc \in 1 .. Chain /\ NextRev(revs) \in Nat
  <2>1. phase = "await"
    BY DEF RpcResponse, InvalidResponse, RpcFault, HandOff
  <2> QED BY <2>1, RevsType DEF BatchType, Chain
<1>2. CASE RpcResponse
  <2>1. DeviceType' /\ cursor' = NextRev(revs) /\ revs' = revs
    BY <1>1, <1>2, WriteType DEF RpcResponse, DeviceType, loop
  <2>2. rpc' \in 0 .. Chain /\ (rpc' = 0 <=> phase' = "run")
        /\ phase' \in {"run", "await"} /\ rpcs' \in Nat
    BY <1>1, <1>2 DEF RpcResponse, BatchType, Chain
  <2>5. changed' \in BOOLEAN
    BY <1>2 DEF RpcResponse, BatchType
  <2>3. BatchType'
    BY <1>1, <1>2, <2>2, <2>5 DEF RpcResponse, BatchType, Phase, loop, counts, Chain
  <2>4. NextRev(revs') = NextRev(revs)
    BY <2>1
  <2> QED BY <2>1, <2>3, <2>4, SoundParts
<1>3. CASE InvalidResponse
  <2>1. rpc' \in 0 .. Chain /\ rpcs' \in Nat /\ phase' = "fault"
    BY <1>1, <1>3 DEF InvalidResponse, BatchType, Chain
  <2>2. BatchType' /\ ~Scripted'
    BY <1>1, <1>3, <2>1 DEF InvalidResponse, BatchType, Phase, loop, progress, counts, Scripted
  <2>3. DeviceType'
    <3>1. CASE UNCHANGED device
      BY <3>1 DEF device, DeviceType, DataType
    <3>2. CASE WriteAt(NextRev(revs), {})
      BY <1>1, <3>2, WriteType DEF DeviceType
    <3> QED BY <1>3, <3>1, <3>2 DEF InvalidResponse
  <2> QED BY <2>2, <2>3, SoundParts
<1>4. CASE RpcFault
  <2>1. rpcs' \in Nat /\ phase' \in {"run", "fault"}
    <3>1. rpcs' = rpcs + 1
      BY <1>4 DEF RpcFault
    <3>2. phase' \in {"run", "fault"}
      BY <1>4, Zenon DEF RpcFault
    <3> QED BY <3>1, <3>2 DEF BatchType
  <2>5. changed' \in BOOLEAN
    BY <1>4 DEF RpcFault, BatchType
  <2>6. local' \in BOOLEAN
    BY <1>4, Zenon DEF RpcFault
  <2>2. BatchType'
    BY <1>1, <1>4, <2>1, <2>5, <2>6 DEF RpcFault, BatchType, Phase, loop, counts, Chain
  <2>3. CASE phase' = "run" /\ WriteAt(NextRev(revs), {Absent})
    <3>1. DeviceType' /\ cursor' = NextRev(revs)
      BY <1>1, <2>3, WriteType DEF DeviceType, AnyValue
    <3>2. NextRev(revs') = NextRev(revs)
      BY <1>4 DEF RpcFault, loop
    <3> QED BY <2>2, <3>1, <3>2, SoundParts
  <2>4. CASE phase' = "fault" /\ (WriteAt(NextRev(revs), {}) \/ UNCHANGED device)
    <3>1. CASE UNCHANGED device
      BY <2>2, <2>4, <3>1, SoundParts DEF device, DeviceType, DataType, Scripted
    <3>2. CASE WriteAt(NextRev(revs), {})
      <4>1. DeviceType'
        BY <1>1, <3>2, WriteType DEF DeviceType
      <4> QED BY <2>2, <2>4, <4>1, SoundParts DEF Scripted
    <3> QED BY <2>4, <3>1, <3>2
  <2> QED BY <1>4, <2>3, <2>4 DEF RpcFault
<1>5. CASE HandOff
  <2>1. data' \in [Key -> Seq(AnyValue)]
    BY <1>5, RestoredKeeps DEF HandOff, DeviceType, DataType
  <2>2. local' \in BOOLEAN /\ changed' \in BOOLEAN
    BY <1>5, Zenon DEF HandOff
  <2>5. revs' = RestoredRevs /\ RestoredRevs \in Seq(Revision) /\ Len(RestoredRevs) = Len(revs)
    BY <1>5, RestoredStack DEF HandOff
  <2>3. BatchType' /\ ~Scripted'
    BY <1>1, <1>5, <2>2, <2>5 DEF HandOff, BatchType, counts, Scripted
  <2>4. DeviceType'
    BY <1>5, <2>1 DEF HandOff, DeviceType, DataType
  <2> QED BY <2>3, <2>4, SoundParts
<1> QED BY <1>2, <1>3, <1>4, <1>5

\* Every step keeps the types, and the cursor where scripts write.
LEMMA SoundStep ==
  ASSUME LimitAssumption, Sound, [LoopNext]_loopVars
  PROVE  Sound'
<1>1. CASE UNCHANGED loopVars
  BY <1>1, SoundParts DEF loopVars, loop, progress, counts, device, BatchType, DeviceType,
     DataType, Scripted, NextRev, LastRev, Top
<1>2. CASE AddProvisions \/ ClearProvisions \/ Start \/ Restart
  BY <1>2, BetweenType
<1>3. CASE RunProvisions \/ RunVirtualParameters
  BY <1>3, RunType DEF RunProvisions, RunVirtualParameters
<1>4. CASE AddDeclarations \/ LimitFault \/ RunDeclarations \/ Reprocess \/ SetLocal
  BY <1>4, DeclareType
<1>5. CASE GetVirtualParameters \/ SetVirtualParameters
  BY <1>5, PushType DEF GetVirtualParameters, SetVirtualParameters, Settled, Synced, Declared,
     Sound, CommitLoopTypeOK
<1>6. CASE NothingToDo \/ EndSession \/ SendGet \/ SendSet
  BY <1>6, SendType DEF SendGet, SendSet, Settled, Synced, Declared
<1>7. CASE Commit \/ Return
  BY <1>7, CommitType, ReturnType
<1>8. CASE RpcResponse \/ InvalidResponse \/ RpcFault \/ HandOff
  BY <1>8, AnswerType
<1> QED BY <1>1, <1>2, <1>3, <1>4, <1>5, <1>6, <1>7, <1>8 DEF LoopNext, Pass, Answered

\* The initial states.
LEMMA SoundInit ==
  ASSUME LimitAssumption, LoopInit
  PROVE  Sound
<1>1. PICK base \in [Key -> AnyValue] :
        data = [k \in Key |-> Put(IF base[k] = Absent THEN <<>> ELSE <<base[k]>>, 1, lastSet[k])]
  BY DEF LoopInit, AnyValue
<1>2. lastSet \in [Key -> AnyValue]
  BY DEF LoopInit, AnyValue
<1>3. DataType
  <2>1. ASSUME NEW k \in Key
        PROVE  (IF base[k] = Absent THEN <<>> ELSE <<base[k]>>) \in Seq(AnyValue)
    <3>1. base[k] \in AnyValue
      OBVIOUS
    <3> QED BY <3>1
  <2>2. \A k \in Key :
          Put(IF base[k] = Absent THEN <<>> ELSE <<base[k]>>, 1, lastSet[k]) \in Seq(AnyValue)
    BY <1>2, <2>1, PutKeeps
  <2> QED BY <1>1, <1>2, <2>2 DEF DataType
<1>4. DeviceType
  BY <1>3 DEF LoopInit, DeviceType
<1>5. revs \in Seq(Revision) /\ Len(revs) = 1 /\ ran \in Seq(BOOLEAN) /\ Len(ran) = 0
  BY DEF LoopInit, Revision
<1>6. BatchType /\ ~Scripted
  <2>1. provs \in BOOLEAN /\ probes \in BOOLEAN /\ local \in BOOLEAN /\ changed \in BOOLEAN
        /\ missing \in BOOLEAN
    BY Zenon DEF LoopInit
  <2>2. phase = "idle" /\ decl = 0 /\ vps = 0 /\ sync = 0 /\ rpc = 0
        /\ cycle = 0 /\ iter = 0 /\ rpcs = 0
    BY DEF LoopInit
  <2> QED BY <1>5, <2>1, <2>2 DEF BatchType, Phase, Chain, Scripted
<1> QED BY <1>4, <1>6, SoundParts

\* The type invariant of the commit loop, for any limits, keys and values.
THEOREM CommitLoopTyping == LimitAssumption => (LoopSpec => []CommitLoopTypeOK)
<1> SUFFICES ASSUME LimitAssumption PROVE LoopSpec => []CommitLoopTypeOK
  OBVIOUS
<1>1. LoopInit => Sound
  BY SoundInit
<1>2. Sound /\ [LoopNext]_loopVars => Sound'
  BY SoundStep
<1>3. Sound => CommitLoopTypeOK
  BY DEF Sound
<1> QED BY <1>1, <1>2, <1>3, PTL DEF LoopSpec

(***************************************************************************)
(* Scripts that run again read what they have read.                        *)
(***************************************************************************)
\* What a step does to the data: nothing; a write after the last commit; a
\* merge after the one below, with a write; or a hand-off.
DataStep ==
  \/ data' = data /\ lastSet' = lastSet /\ short' = short
  \/ \E V \in SUBSET AnyValue : WriteAt(NextRev(revs), V)
  \/ Return \/ ClearProvisions
  \/ HandOff

\* Every step does one of these.
LEMMA EveryDataStep ==
  ASSUME LimitAssumption, Sound, [LoopNext]_loopVars
  PROVE  DataStep
<1> USE DEF DataStep
<1>1. CASE UNCHANGED loopVars
  BY <1>1 DEF loopVars, device
<1>2. CASE AddProvisions \/ Start \/ Restart \/ NothingToDo \/ LimitFault \/ AddDeclarations
           \/ Reprocess \/ Commit \/ EndSession
  BY <1>2 DEF AddProvisions, Start, Restart, NothingToDo, LimitFault, AddDeclarations, Reprocess,
     Commit, EndSession, device
<1>3. CASE GetVirtualParameters \/ SetVirtualParameters \/ SendGet \/ SendSet
  BY <1>3 DEF GetVirtualParameters, SetVirtualParameters, SendGet, SendSet,
     PushVirtualParameters, SendRpc, device
<1>4. CASE RunProvisions \/ RunVirtualParameters
  BY <1>4 DEF RunProvisions, RunVirtualParameters, RunScripts, AnyValue
<1>5. CASE RunDeclarations \/ SetLocal
  <2>1. cursor = NextRev(revs)
    BY <1>5 DEF RunDeclarations, SetLocal, Synced, Declared, Sound
  <2> QED BY <1>5, <2>1 DEF RunDeclarations, SetLocal
<1>6. CASE RpcResponse \/ InvalidResponse \/ RpcFault
  BY <1>6 DEF RpcResponse, InvalidResponse, RpcFault, device, AnyValue
<1>7. CASE Return \/ ClearProvisions \/ HandOff
  BY <1>7
<1> QED BY <1>1, <1>2, <1>3, <1>4, <1>5, <1>6, <1>7 DEF LoopNext, Pass, Answered

\* What Return does to one key, where below is the stack it leaves.
LEMMA ReturnEach ==
  ASSUME Sound, Return, NEW k \in Key
  PROVE  LET rev == NextRev(revs')
             d   == Collapsed(rev)[k]
         IN  /\ rev \in Nat /\ rev = LastRev(revs') + 1 /\ LastRev(revs') \in Nat
             /\ NoteShort(rev)
             /\ d \in Seq(AnyValue)
             /\ \/ data'[k] = d /\ lastSet'[k] = lastSet[k]
                \/ \E v \in AnyValue : data'[k] = Put(d, rev, v) /\ lastSet'[k] = v
<1> DEFINE below == SubSeq(revs, 1, Len(revs) - 1)
<1>1. Scripted /\ decl = vps + 1
  BY DEF Return, Settled, Synced, Declared, Scripted, Sound, CommitLoopTypeOK
<1>2. LastRev(below) \in Nat /\ NextRev(below) = LastRev(below) + 1
  BY <1>1, Popped
<1>3. revs' = below /\ NoteShort(NextRev(below))
  BY DEF Return
<1>4. \E V \in SUBSET AnyValue : Store(Collapsed(NextRev(below)), NextRev(below), V)
  BY DEF Return, AnyValue
<1> HIDE DEF below
<1>5. DataType
  BY SoundParts DEF DeviceType
<1>6. NextRev(below) \in Nat
  BY <1>2
<1>7. Collapsed(NextRev(below)) \in [Key -> Seq(AnyValue)]
  BY <1>5, <1>6, CollapsedEach
<1>8. LET d == Collapsed(NextRev(below))[k]
      IN  \/ data'[k] = d /\ lastSet'[k] = lastSet[k]
          \/ \E v \in AnyValue : data'[k] = Put(d, NextRev(below), v) /\ lastSet'[k] = v
  BY <1>4, <1>5, <1>6, <1>7, StoreEach DEF DataType
<1> QED BY <1>2, <1>3, <1>6, <1>7, <1>8

\* Merging changes nothing that is read below the revision, whether or not it
\* gives up.
LEMMA CollapsedReads ==
  ASSUME Sound, NEW k \in Key, NEW rev \in Nat, NEW r \in Nat, r < rev
  PROVE  Collapsed(rev)[k] \in Seq(AnyValue) /\ Get(Collapsed(rev)[k], r) = Get(data[k], r)
<1>1. DataType
  BY SoundParts DEF DeviceType
<1>2. data[k] \in Seq(AnyValue)
  BY <1>1 DEF DataType
<1>3. Collapsed(rev)[k] \in {data[k], Collapse(data[k], rev)}
  BY <1>1, CollapsedEach
<1> QED BY <1>2, <1>3, CollapseKeeps

\* A revision on the stack, before and after a step, reads as it did.
LEMMA ReadsStay ==
  ASSUME LimitAssumption, Sound, [LoopNext]_loopVars, NEW k \in Key, NEW r \in Nat,
         r <= LastRev(revs), r <= LastRev(revs')
  PROVE  Get(data'[k], r) = Get(data[k], r)
<1>1. DataType /\ data[k] \in Seq(AnyValue)
  BY SoundParts DEF DeviceType, DataType
<1>2. CASE data' = data
  BY <1>2
<1>3. CASE \E V \in SUBSET AnyValue : WriteAt(NextRev(revs), V)
  <2>1. NextRev(revs) \in Nat /\ r < NextRev(revs)
    BY RevsType
  <2>2. \/ data'[k] = data[k]
        \/ \E v \in AnyValue : data'[k] = Put(data[k], NextRev(revs), v)
    BY <1>1, <1>3, <2>1, StoreEach DEF WriteAt, DataType
  <2> QED BY <1>1, <2>1, <2>2, PutKeeps
<1>4. CASE Return
  <2> DEFINE rev == NextRev(revs')
             d == Collapsed(rev)[k]
  <2>1. /\ rev \in Nat /\ rev = LastRev(revs') + 1 /\ LastRev(revs') \in Nat
        /\ data'[k] = d \/ \E v \in AnyValue : data'[k] = Put(d, rev, v)
    BY <1>4, ReturnEach
  <2> HIDE DEF rev
  <2>2. r < rev
    BY <2>1
  <2>3. d \in Seq(AnyValue) /\ Get(d, r) = Get(data[k], r)
    BY <2>1, <2>2, CollapsedReads
  <2> HIDE DEF d
  <2>4. ASSUME NEW v \in AnyValue PROVE Get(Put(d, rev, v), r) = Get(d, r)
    BY <2>1, <2>2, <2>3, PutKeeps
  <2>5. data'[k] = d \/ \E v \in AnyValue : data'[k] = Put(d, rev, v)
    BY <2>1 DEF d
  <2> QED BY <2>3, <2>4, <2>5
<1>5. CASE ClearProvisions
  <2>1. r = 0
    BY <1>5 DEF ClearProvisions, Reset, LastRev, Top
  <2>2. data' \in {data, Collapsed(1)}
    BY <1>5 DEF ClearProvisions
  <2> QED BY <2>1, <2>2, CollapsedReads
<1>6. CASE HandOff
  BY <1>1, <1>6, RestoredKeeps DEF HandOff
<1> QED BY <1>2, <1>3, <1>4, <1>5, <1>6, EveryDataStep DEF DataStep

\* A script that runs again reads what it has read: no write, merge or hand-off
\* changes a revision on the stack, or what the database has.
THEOREM ReadsRepeat == LimitAssumption => (LoopSpec => RepeatableReads)
<1> SUFFICES ASSUME LimitAssumption PROVE LoopSpec => RepeatableReads
  OBVIOUS
<1> DEFINE Reads ==
      \A k \in Key : \A rev \in 0 .. LastRev(revs) :
        rev <= LastRev(revs') => Get(data'[k], rev) = Get(data[k], rev)
<1>1. LoopInit => Sound
  BY SoundInit
<1>2. Sound /\ [LoopNext]_loopVars => Sound'
  BY SoundStep
<1>3. Sound /\ [LoopNext]_loopVars => [Reads]_loopVars
  <2>1. ASSUME Sound, [LoopNext]_loopVars PROVE Reads
    <3> SUFFICES ASSUME NEW k \in Key, NEW rev \in 0 .. LastRev(revs),
                        rev <= LastRev(revs')
                 PROVE  Get(data'[k], rev) = Get(data[k], rev)
      OBVIOUS
    <3>1. rev \in Nat /\ rev <= LastRev(revs)
      BY <2>1, RevsType
    <3> QED BY <2>1, <3>1, ReadsStay
  <2> HIDE DEF Reads
  <2> QED BY <2>1
<1> QED BY <1>1, <1>2, <1>3, PTL DEF LoopSpec, RepeatableReads

(***************************************************************************)
(* The latest revision of a key is what it was last set to: no key has a   *)
(* revision beyond the one scripts write at, so that no write is dropped.  *)
(***************************************************************************)
Fit ==
  ~short => \A k \in Key : Len(data[k]) <= NextRev(revs) + 1 /\ Latest(data[k]) = lastSet[k]

FreshBetween == phase = "idle" => LastRev(revs) = 0

FitInv == Sound /\ Fit /\ FreshBetween

\* The stack a step leaves is no lower, but for Return and between batches.
LEMMA StackGrows ==
  ASSUME LimitAssumption, FitInv, [LoopNext]_loopVars
  PROVE  /\ FreshBetween'
         /\ ~Return /\ ~ClearProvisions => LastRev(revs) <= LastRev(revs')
         /\ ~Return /\ ~ClearProvisions => NextRev(revs) <= NextRev(revs')
<1> Sound /\ LastRev(revs) \in Nat
  BY RevsType DEF FitInv
<1>1. CASE revs' = revs /\ (phase' = "idle" => phase = "idle")
  BY <1>1 DEF FitInv, FreshBetween, LastRev, Top, NextRev
<1>2. CASE AddProvisions
  <2>1. revs' = <<0>> /\ LastRev(revs) = 0
    BY <1>2 DEF AddProvisions, Reset, FitInv, FreshBetween
  <2> QED BY <2>1 DEF LastRev, Top, NextRev, FreshBetween
<1>3. CASE ClearProvisions
  BY <1>3 DEF ClearProvisions, Reset, LastRev, Top, FreshBetween
<1>4. CASE GetVirtualParameters \/ SetVirtualParameters
  <2>1. revs' = Append(revs, Top(revs)) /\ phase' = phase /\ phase = "run"
    BY <1>4 DEF GetVirtualParameters, SetVirtualParameters, Settled, Synced, Declared, Scripted,
       PushVirtualParameters
  <2>2. revs \in Seq(Revision) /\ revs # <<>> /\ Top(revs) \in Revision
    BY <2>1, RevsType DEF Sound, CommitLoopTypeOK
  <2>3. LastRev(revs') = LastRev(revs)
    <3>1. revs' # <<>> /\ revs'[Len(revs')] = Top(revs)
      BY <2>1, <2>2, AppendProperties
    <3> QED BY <2>2, <3>1 DEF LastRev, Top
  <2> QED BY <2>1, <2>3 DEF NextRev, FreshBetween
<1>5. CASE Commit
  <2>1. phase = "run" /\ phase' = phase /\ decl = vps + 1 /\ revs' = [revs EXCEPT ![decl] = @ + 1]
    BY <1>5 DEF Commit, Settled, Synced, Declared, Scripted, Sound, CommitLoopTypeOK
  <2>2. revs \in Seq(Revision) /\ revs # <<>> /\ Len(revs) = decl /\ decl \in 1 .. Len(revs)
        /\ revs[decl] \in Revision
    BY <2>1, RevsType, ElementOfSeq DEF Sound, CommitLoopTypeOK
  <2>3. Len(revs') = decl /\ revs' # <<>> /\ revs'[decl] = revs[decl] + 1
    BY <2>1, <2>2, ExceptSeq
  <2>4. LastRev(revs') \in {LastRev(revs), LastRev(revs) + 1}
    BY <2>2, <2>3 DEF LastRev, Top, Undefined, Revision
  <2> QED BY <2>1, <2>4 DEF NextRev, FreshBetween
<1>6. CASE Return
  <2>1. phase' # "idle"
    BY <1>6 DEF Return, Settled, Synced, Declared, Scripted
  <2> QED BY <1>6, <2>1 DEF FreshBetween
<1>7. CASE UNCHANGED loopVars
  BY <1>1, <1>7 DEF loopVars, loop
<1>8. CASE Start \/ RunProvisions \/ RunVirtualParameters
  BY <1>1, <1>8 DEF Start, RunProvisions, RunVirtualParameters, RunScripts
<1>9. CASE NothingToDo \/ AddDeclarations \/ LimitFault \/ RunDeclarations \/ Reprocess \/ SetLocal
  BY <1>1, <1>9 DEF NothingToDo, AddDeclarations, LimitFault, RunDeclarations, Reprocess,
     SetLocal, Scripted, Declared, Synced, loop
<1>10. CASE SendGet \/ SendSet
  BY <1>1, <1>10 DEF SendGet, SendSet, SendRpc, loop
<1>11. CASE RpcResponse \/ InvalidResponse \/ RpcFault \/ EndSession
  BY <1>1, <1>11 DEF RpcResponse, InvalidResponse, RpcFault, EndSession, loop
<1>12. CASE HandOff
  <2>1. revs' = RestoredRevs /\ phase' # "idle"
    BY <1>12 DEF HandOff
  <2>2. LastRev(revs') = LastRev(revs)
    BY <2>1, RestoredStack
  <2> QED BY <2>1, <2>2 DEF NextRev, FreshBetween
<1>13. CASE Restart
  <2>1. revs' \in {revs, <<Undefined>>} /\ phase' # "idle" /\ (revs # <<>> => revs' = revs)
    BY <1>13 DEF Restart
  <2>2. LastRev(revs') = LastRev(revs)
    BY <2>1 DEF LastRev, Top
  <2> QED BY <2>1, <2>2 DEF NextRev, FreshBetween
<1> QED
  BY <1>2, <1>3, <1>4, <1>5, <1>6, <1>7, <1>8, <1>9, <1>10, <1>11, <1>12, <1>13
  DEF LoopNext, Pass, Answered

\* Merging keeps the latest value, and leaves no revision beyond, unless it is
\* noted.
LEMMA CollapsedFits ==
  ASSUME Sound, NEW k \in Key, NEW rev \in Nat, NoteShort(rev), ~short'
  PROVE  /\ Collapsed(rev)[k] \in Seq(AnyValue) /\ ~short
         /\ Len(Collapsed(rev)[k]) <= rev + 1
         /\ Latest(Collapsed(rev)[k]) = Latest(data[k])
<1>1. DataType /\ data[k] \in Seq(AnyValue)
  BY SoundParts DEF DeviceType, DataType
<1>2. ~short /\ (GivesUp(rev) => ~(Len(data[k]) > rev + 1))
  BY DEF NoteShort
<1>3. CASE GivesUp(rev)
  <2>1. Collapsed(rev)[k] = data[k]
    BY <1>1, <1>3, CollapsedEach
  <2>2. Len(data[k]) \in Nat
    BY <1>1, LenProperties
  <2> QED BY <1>1, <1>2, <1>3, <2>1, <2>2
<1>4. CASE ~GivesUp(rev)
  <2>1. Collapsed(rev)[k] = Collapse(data[k], rev)
    BY <1>1, <1>4, CollapsedEach
  <2> QED BY <1>1, <1>2, <2>1, CollapseKeeps
<1> QED BY <1>3, <1>4

\* Every step keeps the latest values, and room for the next write.
LEMMA FitStep ==
  ASSUME LimitAssumption, FitInv, [LoopNext]_loopVars
  PROVE  FitInv'
<1> Sound /\ Fit /\ Sound'
  BY SoundStep DEF FitInv
<1>1. DataType /\ NextRev(revs) \in Nat /\ NextRev(revs') \in Nat
  <2>1. NextRev(revs') \in Nat
    BY StackType DEF Sound, CommitLoopTypeOK
  <2> QED BY <2>1, SoundParts, RevsType DEF DeviceType
<1>2. SUFFICES ASSUME ~short', NEW k \in Key
               PROVE  /\ Len(data'[k]) <= NextRev(revs') + 1
                      /\ Latest(data'[k]) = lastSet'[k]
  BY StackGrows DEF FitInv, Fit, NextRev, LastRev, Top
<1>3. data[k] \in Seq(AnyValue) /\ Len(data[k]) \in Nat /\ lastSet[k] \in AnyValue
  BY <1>1, LenProperties DEF DataType
<1>4. ~short => Len(data[k]) <= NextRev(revs) + 1 /\ Latest(data[k]) = lastSet[k]
  BY DEF Fit
<1>5. CASE Return
  <2> DEFINE rev == NextRev(revs')
             d == Collapsed(rev)[k]
  <2>1. /\ rev \in Nat /\ NoteShort(rev)
        /\ \/ data'[k] = d /\ lastSet'[k] = lastSet[k]
           \/ \E v \in AnyValue : data'[k] = Put(d, rev, v) /\ lastSet'[k] = v
    BY <1>5, ReturnEach
  <2> HIDE DEF rev
  <2>2. d \in Seq(AnyValue) /\ ~short /\ Len(d) <= rev + 1 /\ Latest(d) = Latest(data[k])
    BY <1>2, <2>1, CollapsedFits
  <2> HIDE DEF d
  <2>3. ASSUME NEW v \in AnyValue
        PROVE  Latest(Put(d, rev, v)) = v /\ Len(Put(d, rev, v)) <= rev + 1
    BY <2>1, <2>2, PutKeeps
  <2>4. \/ data'[k] = d /\ lastSet'[k] = lastSet[k]
        \/ \E v \in AnyValue : data'[k] = Put(d, rev, v) /\ lastSet'[k] = v
    BY <2>1 DEF d
  <2>5. Len(data'[k]) <= rev + 1 /\ Latest(data'[k]) = lastSet'[k]
    BY <1>4, <2>2, <2>3, <2>4
  <2> QED BY <2>5 DEF rev
<1>6. CASE ClearProvisions
  <2>1. NextRev(revs') = 1 /\ lastSet' = lastSet
    BY <1>6 DEF ClearProvisions, Reset, NextRev, LastRev, Top
  <2>2. CASE LastRev(revs) > 0
    <3>1. data' = Collapsed(1) /\ NoteShort(1)
      BY <1>6, <2>2 DEF ClearProvisions
    <3>2. ~short /\ Len(Collapsed(1)[k]) <= 1 + 1 /\ Latest(Collapsed(1)[k]) = Latest(data[k])
      BY <1>2, <3>1, CollapsedFits
    <3> QED BY <1>4, <2>1, <3>1, <3>2
  <2>3. CASE ~(LastRev(revs) > 0)
    <3>1. data' = data /\ short' = short
      BY <1>6, <2>3 DEF ClearProvisions
    <3>2. NextRev(revs) = 1
      BY <2>3, RevsType
    <3> QED BY <1>2, <1>4, <2>1, <3>1, <3>2
  <2> QED BY <2>2, <2>3
<1>7. CASE ~Return /\ ~ClearProvisions
  <2>1. NextRev(revs) <= NextRev(revs')
    BY <1>7, StackGrows
  <2>2. \/ data' = data /\ lastSet' = lastSet /\ short' = short
        \/ \E V \in SUBSET AnyValue : WriteAt(NextRev(revs), V)
        \/ HandOff
    BY <1>7, EveryDataStep DEF DataStep
  <2>3. short' = short
    BY <2>2 DEF WriteAt, HandOff
  <2>4. SUFFICES Len(data'[k]) <= NextRev(revs) + 1 /\ Latest(data'[k]) = lastSet'[k]
    <3>1. data'[k] \in Seq(AnyValue)
      BY SoundParts DEF DeviceType, DataType
    <3>2. Len(data'[k]) \in Nat
      BY <3>1, LenProperties
    <3> QED BY <1>1, <2>1, <2>4, <3>2
  <2>5. CASE data' = data /\ lastSet' = lastSet
    BY <1>2, <1>4, <2>3, <2>5
  <2>6. CASE \E V \in SUBSET AnyValue : WriteAt(NextRev(revs), V)
    <3>1. \/ data'[k] = data[k] /\ lastSet'[k] = lastSet[k]
          \/ \E v \in AnyValue : data'[k] = Put(data[k], NextRev(revs), v) /\ lastSet'[k] = v
      BY <1>1, <2>6, StoreEach DEF WriteAt, DataType
    <3>2. ASSUME NEW v \in AnyValue
          PROVE  /\ Latest(Put(data[k], NextRev(revs), v)) = v
                 /\ Len(Put(data[k], NextRev(revs), v)) <= NextRev(revs) + 1
      BY <1>1, <1>2, <1>3, <1>4, <2>3, PutKeeps
    <3> QED BY <1>2, <1>4, <2>3, <3>1, <3>2
  <2>7. CASE HandOff
    <3>1. data'[k] = Restored(data[k]) /\ lastSet'[k] = lastSet[k]
      BY <1>1, <2>7 DEF HandOff, DataType
    <3>2. /\ Restored(data[k]) \in Seq(AnyValue)
          /\ Len(Restored(data[k])) <= Len(data[k])
          /\ Latest(Restored(data[k])) = Latest(data[k])
      BY <1>3, RestoredKeeps
    <3>3. Len(Restored(data[k])) \in Nat
      BY <3>2, LenProperties
    <3> QED BY <1>1, <1>2, <1>3, <1>4, <2>3, <3>1, <3>2, <3>3
  <2> QED BY <2>2, <2>5, <2>6, <2>7
<1> QED BY <1>5, <1>6, <1>7

\* The latest revision of every key is what it was last set to, for any limits
\* and any scripts, unless a merge was given up after a hand-off.
THEOREM LatestStays == LimitAssumption => (LoopSpec => []LatestKept)
<1> SUFFICES ASSUME LimitAssumption PROVE LoopSpec => []LatestKept
  OBVIOUS
<1>1. LoopInit => FitInv
  <2> SUFFICES ASSUME LoopInit PROVE FitInv
    OBVIOUS
  <2>1. Sound
    BY SoundInit
  <2>2. revs = <<0>> /\ LastRev(revs) = 0 /\ NextRev(revs) = 1
    BY DEF LoopInit, LastRev, NextRev, Top
  <2>3. PICK base \in [Key -> AnyValue] :
          data = [k \in Key |-> Put(IF base[k] = Absent THEN <<>> ELSE <<base[k]>>, 1, lastSet[k])]
    BY DEF LoopInit, AnyValue
  <2>4. ASSUME NEW k \in Key
        PROVE  Len(data[k]) <= 1 + 1 /\ Latest(data[k]) = lastSet[k]
    <3> DEFINE s == IF base[k] = Absent THEN <<>> ELSE <<base[k]>>
    <3>1. s \in Seq(AnyValue) /\ Len(s) <= 1 + 1
      <4>1. base[k] \in AnyValue
        OBVIOUS
      <4> QED BY <4>1
    <3>2. lastSet[k] \in AnyValue
      BY DEF LoopInit, AnyValue
    <3>3. data[k] = Put(s, 1, lastSet[k])
      BY <2>3
    <3> HIDE DEF s
    <3>4. Latest(Put(s, 1, lastSet[k])) = lastSet[k] /\ Len(Put(s, 1, lastSet[k])) <= 1 + 1
      BY <3>1, <3>2, PutKeeps
    <3> QED BY <3>3, <3>4
  <2> QED BY <2>1, <2>2, <2>4 DEF FitInv, Fit, FreshBetween
<1>2. FitInv /\ [LoopNext]_loopVars => FitInv'
  BY FitStep
<1>3. FitInv => LatestKept
  BY DEF FitInv, Fit, LatestKept
<1> QED BY <1>1, <1>2, <1>3, PTL DEF LoopSpec

(***************************************************************************)
(* Answers.  The counters of the ids stay below the numbers of digits: the *)
(* ids of earlier cycles are of those cycles, and those of this cycle of   *)
(* RPCs that were counted.                                                 *)
(***************************************************************************)
Counted ==
  /\ cycle <= CycleLimit
  /\ iter # cycle * MAX_ITERATIONS => cycle < CycleLimit
  /\ phase = "await" => cycle < CycleLimit

Answers ==
  \A id \in old : \E c, n \in Nat :
    /\ id = <<c, n>>
    /\ c <= cycle
    /\ c = cycle /\ rpcs <= RpcLimit => n < rpcs

MatchInv == Sound /\ Counted /\ Answers

\* The id of the RPC that is with the CPE.
LEMMA IdIs ==
  ASSUME LimitAssumption, Sound, Counted
  PROVE  /\ RpcId = <<cycle, rpcs % (RpcLimit + 1)>>
         /\ rpcs % (RpcLimit + 1) \in Nat
         /\ rpcs <= RpcLimit => rpcs % (RpcLimit + 1) = rpcs
<1> cycle \in Nat /\ rpcs \in Nat /\ CycleLimit \in Nat /\ RpcLimit \in Nat
  BY DEF Sound, CommitLoopTypeOK, LimitAssumption
<1>1. cycle % (CycleLimit + 1) = cycle
  BY DEF Counted
<1>2. rpcs % (RpcLimit + 1) \in Nat
  OBVIOUS
<1>3. rpcs <= RpcLimit => rpcs % (RpcLimit + 1) = rpcs
  OBVIOUS
<1> QED BY <1>1, <1>2, <1>3 DEF RpcId

\* A new cycle: the ids that were used are of earlier ones.
LEMMA CycleStep ==
  ASSUME LimitAssumption, MatchInv, NextCycle, old' = old, phase' # "await"
  PROVE  Counted' /\ Answers'
<1> cycle \in Nat /\ iter \in Nat /\ rpcs \in Nat /\ CycleLimit \in Nat
  BY DEF MatchInv, Sound, CommitLoopTypeOK, LimitAssumption
<1> MAX_ITERATIONS' = MAX_ITERATIONS
  BY DEF MAX_ITERATIONS
<1>1. CASE UNCHANGED <<counts, rpcs>>
  BY <1>1 DEF counts, MatchInv, Counted, Answers
<1>2. CASE /\ iter # cycle * MAX_ITERATIONS
           /\ cycle' = cycle + 1 /\ rpcs' = 0 /\ iter' = cycle' * MAX_ITERATIONS
  <2>1. cycle < CycleLimit
    BY <1>2 DEF MatchInv, Counted
  <2>2. Counted'
    BY <1>2, <2>1 DEF Counted
  <2>3. Answers'
    <3> SUFFICES ASSUME NEW id \in old
                 PROVE  \E c, n \in Nat : /\ id = <<c, n>>
                                          /\ c <= cycle'
                                          /\ c = cycle' /\ rpcs' <= RpcLimit => n < rpcs'
      BY DEF Answers
    <3>1. PICK c \in Nat, n \in Nat : id = <<c, n>> /\ c <= cycle
      BY DEF MatchInv, Answers
    <3>2. c <= cycle' /\ c # cycle'
      BY <1>2, <3>1
    <3> QED BY <3>1, <3>2
  <2> QED BY <2>2, <2>3
<1> QED BY <1>1, <1>2 DEF NextCycle

\* An answer: its id is noted, and its RPC counted.
LEMMA AnswerStep ==
  ASSUME LimitAssumption, MatchInv, rpcs' = rpcs + 1, old' = old \cup {RpcId},
         phase = "await", UNCHANGED counts
  PROVE  Counted' /\ Answers'
<1> cycle \in Nat /\ rpcs \in Nat /\ RpcLimit \in Nat
  BY DEF MatchInv, Sound, CommitLoopTypeOK, LimitAssumption
<1>1. Counted' /\ cycle' = cycle
  BY DEF MatchInv, Counted, counts, MAX_ITERATIONS
<1>2. SUFFICES ASSUME NEW id \in old \cup {RpcId}
               PROVE  \E c, n \in Nat : /\ id = <<c, n>>
                                        /\ c <= cycle
                                        /\ c = cycle /\ rpcs + 1 <= RpcLimit => n < rpcs + 1
  BY <1>1 DEF Answers
<1>3. CASE id \in old
  <2>1. PICK c \in Nat, n \in Nat :
          id = <<c, n>> /\ c <= cycle /\ (c = cycle /\ rpcs <= RpcLimit => n < rpcs)
    BY <1>3 DEF MatchInv, Answers
  <2>2. c = cycle /\ rpcs + 1 <= RpcLimit => n < rpcs + 1
    BY <2>1
  <2> QED BY <2>1, <2>2
<1>4. CASE id = RpcId
  <2> DEFINE n == rpcs % (RpcLimit + 1)
  <2>1. id = <<cycle, n>> /\ n \in Nat /\ (rpcs <= RpcLimit => n = rpcs)
    BY <1>4, IdIs DEF MatchInv
  <2> HIDE DEF n
  <2>2. cycle <= cycle /\ (rpcs + 1 <= RpcLimit => n < rpcs + 1)
    BY <2>1
  <2> QED BY <2>1, <2>2
<1> QED BY <1>2, <1>3, <1>4

\* A step within a cycle, without an answer.
LEMMA CountStep ==
  ASSUME LimitAssumption, MatchInv, old' = old, rpcs' = rpcs, cycle' = cycle,
         iter' = iter \/ cycle < CycleLimit,
         phase' = "await" => phase = "await" \/ cycle < CycleLimit
  PROVE  Counted' /\ Answers'
<1>1. MAX_ITERATIONS' = MAX_ITERATIONS
  BY DEF MAX_ITERATIONS
<1> QED BY <1>1 DEF MatchInv, Counted, Answers

\* Every step keeps the counters within their digits.
LEMMA MatchStep ==
  ASSUME LimitAssumption, MatchInv, [LoopNext]_loopVars
  PROVE  MatchInv'
<1>1. Sound'
  BY SoundStep DEF MatchInv
<1>2. SUFFICES Counted' /\ Answers'
  BY <1>1 DEF MatchInv
<1>3. CASE AddProvisions \/ ClearProvisions
  BY <1>3, CycleStep DEF AddProvisions, ClearProvisions
<1>4. CASE RpcResponse \/ RpcFault
  BY <1>4, AnswerStep DEF RpcResponse, RpcFault
<1>5. CASE InvalidResponse
  <2>1. CASE rpcs' = rpcs + 1 /\ old' = old \cup {RpcId}
    BY <1>5, <2>1, AnswerStep DEF InvalidResponse
  <2>2. CASE UNCHANGED <<rpc, rpcs, device, old>>
    BY <1>5, <2>2, CountStep DEF InvalidResponse, counts
  <2> QED BY <1>5, <2>1, <2>2 DEF InvalidResponse
<1>6. CASE RunDeclarations \/ SendGet \/ SendSet
  <2>1. cycle < CycleLimit
    <3>1. ~(cycle >= CycleLimit) /\ cycle \in Nat /\ CycleLimit \in Nat
      BY <1>6 DEF RunDeclarations, SendGet, SendSet, Settled, Synced, Declared, Exceeded,
         MatchInv, Sound, CommitLoopTypeOK, LimitAssumption
    <3> QED BY <3>1
  <2>2. old' = old /\ rpcs' = rpcs /\ cycle' = cycle
    BY <1>6 DEF RunDeclarations, SendGet, SendSet, SendRpc, counts
  <2> QED BY <2>1, <2>2, CountStep
<1>7. CASE GetVirtualParameters \/ SetVirtualParameters \/ Start \/ Restart
           \/ RunProvisions \/ RunVirtualParameters \/ NothingToDo \/ AddDeclarations \/ LimitFault
  BY <1>7, CountStep DEF GetVirtualParameters, SetVirtualParameters, PushVirtualParameters,
     Start, Restart, RunProvisions, RunVirtualParameters, RunScripts, NothingToDo,
     AddDeclarations, LimitFault, counts
<1>8. CASE Reprocess \/ SetLocal \/ Commit \/ Return \/ HandOff \/ EndSession
  <2>1. old' = old /\ rpcs' = rpcs /\ cycle' = cycle /\ iter' = iter
    BY <1>8 DEF Reprocess, SetLocal, Commit, Return, HandOff, EndSession, counts
  <2>2. phase' = "await" => phase = "await"
    BY <1>8 DEF Reprocess, SetLocal, Commit, Return, HandOff, EndSession
  <2> QED BY <2>1, <2>2, CountStep
<1>9. CASE UNCHANGED loopVars
  BY <1>9, CountStep DEF loopVars, counts
<1> QED BY <1>3, <1>4, <1>5, <1>6, <1>7, <1>8, <1>9 DEF LoopNext, Pass, Answered

\* The answer the CPE gives has the id of no other RPC of the session, whatever
\* the limits, unless a chain of RPCs went beyond its limit.
THEOREM AnswersAreTold == LimitAssumption => (LoopSpec => []AnswersMatch)
<1> SUFFICES ASSUME LimitAssumption PROVE LoopSpec => []AnswersMatch
  OBVIOUS
<1>1. LoopInit => MatchInv
  <2> SUFFICES ASSUME LoopInit PROVE MatchInv
    OBVIOUS
  <2>1. cycle = 0 /\ iter = 0 /\ phase = "idle" /\ old = {}
    BY DEF LoopInit
  <2>2. Counted
    <3>1. MAX_ITERATIONS \in Nat /\ CycleLimit \in Nat
      BY DEF MAX_ITERATIONS, LimitAssumption
    <3> QED BY <2>1, <3>1 DEF Counted
  <2> QED BY <2>1, <2>2, SoundInit DEF MatchInv, Answers
<1>2. MatchInv /\ [LoopNext]_loopVars => MatchInv'
  BY MatchStep
<1>3. MatchInv => AnswersMatch
  <2> SUFFICES ASSUME MatchInv, rpcs <= RpcLimit, RpcId \in old PROVE FALSE
    BY DEF AnswersMatch
  <2>1. PICK c \in Nat, n \in Nat :
          RpcId = <<c, n>> /\ (c = cycle /\ rpcs <= RpcLimit => n < rpcs)
    BY DEF MatchInv, Answers
  <2>2. RpcId = <<cycle, rpcs>> /\ rpcs \in Nat
    BY IdIs DEF MatchInv, Sound, CommitLoopTypeOK
  <2>3. c = cycle /\ n = rpcs
    BY <2>1, <2>2
  <2> QED BY <2>1, <2>2, <2>3
<1> QED BY <1>1, <1>2, <1>3, PTL DEF LoopSpec
=============================================================================
