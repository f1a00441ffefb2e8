---------------------------- MODULE VersionedMap ----------------------------
(***************************************************************************)
(* The revisions of one key of a VersionedMap (versioned-map.ts): the      *)
(* values it had, from revision 0 on; the last one stands for all later    *)
(* revisions.  A key without revisions is absent.                          *)
(***************************************************************************)
EXTENDS Naturals, Sequences

CONSTANT Absent  \* NONEXISTENT

\* The value that holds at the last revision.
Latest(s) == IF s = <<>> THEN Absent ELSE s[Len(s)]

\* get
Get(s, rev) ==
  IF s = <<>> THEN Absent
  ELSE IF rev + 1 < Len(s) THEN s[rev + 1] ELSE s[Len(s)]

\* The revisions below rev, the last value repeated as often as needed.
Below(s, rev) == [i \in 1 .. rev |-> Get(s, i - 1)]

\* set and delete: an old revision cannot be changed, and what does not exist
\* is not deleted.
Put(s, rev, v) ==
  IF rev + 1 < Len(s) \/ (v = Absent /\ Latest(s) = Absent)
  THEN s
  ELSE Append(Below(s, rev), v)

\* A mutant of Merged: the value at the revision stays.
MergedFirst(s, rev) == SubSeq(s, 1, rev + 1)

\* collapse, for one key: later revisions are merged into this one.
Merged(s, rev) == Append(SubSeq(s, 1, rev), Latest(s))

Collapse(s, rev) ==
  LET m == Merged(s, rev)
  IN  IF Len(s) <= rev + 1 THEN s
      ELSE IF \A i \in 1 .. Len(m) : m[i] = Absent THEN <<>> ELSE m

\* setRevisions after getRevisions: repeated values at the end are dropped.
Restored(s) ==
  SubSeq(s, 1, CHOOSE n \in 0 .. Len(s) :
                 /\ n > 0 => s[n] # Get(SubSeq(s, 1, n - 1), n)
                 /\ \A i \in n + 1 .. Len(s) : s[i] = Get(SubSeq(s, 1, n), n))
=============================================================================
