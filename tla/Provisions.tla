----------------------------- MODULE Provisions -----------------------------
(***************************************************************************)
(* The provisions of a batch and the channels that asked for them          *)
(* (session.ts, addProvisions), and the provisions a faulty channel is to  *)
(* retry (cwmp.ts, recordFault and appendProvisions).                      *)
(*                                                                         *)
(* A channel's part of the batch is a mask: bit i stands for provision i.  *)
(* Masks are 32-bit integers; a mask is the set of its bits here, the last *)
(* of which is the sign.                                                   *)
(***************************************************************************)
EXTENDS Integers, Sequences, FiniteSets, SequencesExt

CONSTANTS
  Channel,
  Provision,
  Width,      \* 32
  Lists,      \* the lists of provisions a task or preset can have
  MaxCalls    \* bound on the lists that are asked for or appended

ProvisionsAssumption ==
  Width \in Nat \ {0} /\ Lists \subseteq Seq(Provision) /\ MaxCalls \in Nat

VARIABLES
  batch,     \* provisions
  channels,  \* masks of the channels of the batch
  asked,     \* history: which channel asked for which provision
  faults,    \* provisions of the faulty channels
  owed,      \* history: those the channel was blamed for or given since
  calls

provisionVars == <<batch, channels, asked, faults, owed, calls>>

Bits == 0 .. Width - 1

ProvisionsTypeOK ==
  /\ batch \in Seq(Provision)
  /\ \E S \in SUBSET Channel : channels \in [S -> SUBSET Bits]
  /\ asked \subseteq Channel \X Provision
  /\ faults \in [Channel -> Seq(Provision)]
  /\ owed \in [Channel -> SUBSET Provision]
  /\ calls \in 0 .. MaxCalls

ProvisionsInit ==
  /\ batch = <<>> /\ channels = <<>> /\ asked = {}
  /\ faults = [c \in Channel |-> <<>>]
  /\ owed = [c \in Channel |-> {}]
  /\ calls = 0

(***************************************************************************)
(* Integers as the language has them: a shift is by the amount modulo the  *)
(* width, and one to the right copies the sign.                            *)
(***************************************************************************)
Bit(n) == n % Width

ShiftLeft(m, n) == {b + Bit(n) : b \in m} \cap Bits

ShiftRight(m, n) ==
  {b \in Bits : b + Bit(n) \in m \/ (b + Bit(n) >= Width /\ Width - 1 \in m)}

\* (1 << n) - 1
Low(n) == 0 .. Bit(n) - 1

\* A mutant of Moved: the bits above stay where they are.
Unmoved(m, j) == m \ {Bit(j)}

\* The mask once provision j is removed.
Moved(m, j) == (m \cap Low(j)) \cup ShiftLeft(ShiftRight(m, j + 1), j)

(***************************************************************************)
(* The batch.                                                              *)
(***************************************************************************)
\* One provision is asked for: if the batch has it, it is moved to the end,
\* for the channels that asked before as well.
Add(b, c, p) ==
  LET n     == Len(b.batch)
      at    == {j \in 0 .. n - 1 : b.batch[j + 1] = p}
      j     == CHOOSE k \in at : TRUE
      again == at # {}
      last  == Bit(IF again THEN n - 1 ELSE n)
      asks(d) == d = c \/ (again /\ Bit(j) \in b.channels[d])
  IN  [batch    |-> Append(IF again THEN RemoveAt(b.batch, j + 1) ELSE b.batch, p),
       channels |-> [d \in DOMAIN b.channels |->
                       (IF again THEN Moved(b.channels[d], j) ELSE b.channels[d])
                         \cup (IF asks(d) THEN {last} ELSE {})]]

AddEach(b, c, list) ==
  LET after[n \in 0 .. Len(list)] ==
        IF n = 0 THEN b ELSE Add(after[n - 1], c, list[n])
  IN  after[Len(list)]

\* A channel without provisions is in the batch, too.
AddToBatch(c, list) ==
  LET named == [d \in DOMAIN channels \cup {c} |->
                  IF d \in DOMAIN channels THEN channels[d] ELSE {}]
      after == AddEach([batch |-> batch, channels |-> named], c, list)
  IN  /\ calls < MaxCalls /\ calls' = calls + 1
      /\ batch' = after.batch
      /\ channels' = after.channels
      /\ asked' = asked \cup ({c} \X Range(list))
      /\ UNCHANGED <<faults, owed>>

ClearBatch ==
  batch' = <<>> /\ channels' = <<>> /\ asked' = {}

(***************************************************************************)
(* The provisions of a fault.                                              *)
(***************************************************************************)
\* A mutant of Spliced: what is there already is taken out only.
TakenOut(s, x, p) == s

\* splice(x, 0, p), x counted from the end where it is negative.
Spliced(s, x, p) ==
  InsertAt(s, 1 + (IF x >= 0 THEN x ELSE IF Len(s) + x >= 0 THEN Len(s) + x ELSE 0), p)

\* One step of appendProvisions, m provisions from the end of toAppend: one
\* that is not among the last m of original is moved there.  It is in original
\* once at most.
AppendOne(s, m, p) ==
  LET at   == {j \in 0 .. Len(s) - 1 : s[j + 1] = p}
      rest == IF at = {} THEN s ELSE RemoveAt(s, 1 + CHOOSE j \in at : TRUE)
  IN  IF \E j \in at : j >= Len(s) - m THEN s
      ELSE Spliced(rest, Len(rest) - m + 1, p)

AppendProvisions(original, toAppend) ==
  LET n == Len(toAppend)
      s[m \in 0 .. n] == IF m = 0 THEN original
                         ELSE AppendOne(s[m - 1], m, toAppend[n - m + 1])
  IN  s[n]

\* The provisions of the batch whose bit the channel has.
Blamed(c) ==
  LET first[n \in 0 .. Len(batch)] ==
        IF n = 0 THEN <<>>
        ELSE IF 0 \in ShiftRight(channels[c], n - 1) THEN Append(first[n - 1], batch[n])
        ELSE first[n - 1]
  IN  first[Len(batch)]

\* Every channel of the batch is faulty: it keeps what it had to retry.
RecordFault ==
  /\ DOMAIN channels # {}
  /\ faults' = [c \in Channel |->
                  IF c \in DOMAIN channels
                    THEN AppendProvisions(<<>>, faults[c] \o Blamed(c))
                    ELSE faults[c]]
  /\ owed' = [c \in Channel |->
                IF c \in DOMAIN channels THEN owed[c] \cup Range(Blamed(c))
                                         ELSE owed[c]]
  /\ ClearBatch
  /\ UNCHANGED calls

\* The channels of the batch with a part in it.
Done == {c \in DOMAIN channels : channels[c] # {}}

\* nextRpc: the batch is done.
Succeed ==
  /\ DOMAIN channels # {}
  /\ faults' = [c \in Channel |-> IF c \in Done THEN <<>> ELSE faults[c]]
  /\ owed' = [c \in Channel |-> IF c \in Done THEN {} ELSE owed[c]]
  /\ ClearBatch
  /\ UNCHANGED calls

\* applyPresets: a preset of a channel that waits to be retried.
AppendToFault(c, list) ==
  /\ calls < MaxCalls /\ calls' = calls + 1
  /\ faults[c] # <<>>
  /\ faults' = [faults EXCEPT ![c] = AppendProvisions(@, list)]
  /\ owed' = [owed EXCEPT ![c] = @ \cup Range(list)]
  /\ UNCHANGED <<batch, channels, asked>>

ProvisionsNext ==
  \/ \E c \in Channel, list \in Lists :
       AddToBatch(c, list) \/ AppendToFault(c, list)
  \/ RecordFault \/ Succeed

ProvisionsSpec == ProvisionsInit /\ [][ProvisionsNext]_provisionVars

(***************************************************************************)
(* Properties.                                                             *)
(***************************************************************************)
\* A fault is put down to the right channels: as long as a batch has fewer
\* provisions than a mask has bits, each channel is blamed for the provisions
\* it asked for and no others, whatever was asked for twice and moved.
BlameRight ==
  Len(batch) < Width =>
    \A c \in DOMAIN channels : Range(Blamed(c)) = {p \in Provision : <<c, p>> \in asked}

\* A faulty channel retries all it was blamed for or was given since, each
\* provision once, however lists that share provisions were put together.
FaultKeepsProvisions ==
  \A c \in Channel :
    Range(faults[c]) = owed[c] /\ Len(faults[c]) = Cardinality(owed[c])
=============================================================================
