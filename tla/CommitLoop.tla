----------------------------- MODULE CommitLoop -----------------------------
(***************************************************************************)
(* The commit loop of a session (session.ts, rpcRequest) over the          *)
(* versioned data of the device (versioned-map.ts).                        *)
(*                                                                         *)
(* Scripts are run again from their start after every commit; they read    *)
(* the data as of the revision of each commit they have passed, and the    *)
(* loop writes at the revision after the last.  A script of the batch can  *)
(* ask for virtual parameters, whose scripts run on a stack above it, with *)
(* commits of their own.                                                   *)
(*                                                                         *)
(* What scripts declare, and what is then to be read or written, is left   *)
(* open.                                                                   *)
(***************************************************************************)
EXTENDS VersionedMap, Integers, FiniteSets

CONSTANTS
  Key,         \* parameters of the device
  Value,
  RpcLimit,    \* 255 RPCs in a cycle
  DepthLimit,  \* 8 revisions on the stack
  CycleLimit,  \* 255 cycles in a session
  MaxCommits   \* cwmp.maxCommitIterations

LimitAssumption ==
  /\ Absent \notin Value
  /\ RpcLimit \in Nat /\ DepthLimit \in Nat /\ CycleLimit \in Nat
  /\ MaxCommits \in Nat

VARIABLES
  phase,    \* where the batch is
  provs,    \* there are provisions
  probes,   \* rpcRequest was given declarations
  revs,     \* revisions; Undefined counts as 0
  missing,  \* revisions is without the last of revs, which is Undefined
  decl,     \* number of declarations, one list for each script run
  vps,      \* number of virtualParameters
  sync,     \* declarations that were processed; 0 without a syncState
  ran,      \* provisionsRet: the script ran to its end
  local,    \* tags or downloads are to be set
  changed,  \* deviceData.changes has "prerequisite"
  rpc,      \* RPCs of rpcRequest that are to come, with those its next names
  cycle, iter, rpcs,
  cursor,   \* revision of the device data
  sizes,    \* length of _sizeDiff
  data,     \* revisions of every key
  lastSet,  \* history: what each key was last set to
  old,      \* history: ids of the RPCs that were answered
  short     \* history: collapse gave up on data that had more revisions

loop == <<provs, probes, revs, missing, decl, vps, ran>>
progress == <<sync, local, changed>>
counts == <<cycle, iter>>
device == <<cursor, sizes, data, lastSet, short>>
loopVars == <<phase, loop, progress, rpc, counts, rpcs, device, old>>

\* idle   no batch; fault, done: what rpcRequest has returned
\* run    in rpcRequest; await: an RPC is with the CPE
Phase == {"idle", "run", "await", "fault", "done", "ended"}

\* The longest chain of RPCs: AddObject, GetParameterValues, SetParameterValues.
Chain == 3

MAX_ITERATIONS == 2 * MaxCommits

\* What is read beyond the end of revisions.
Undefined == -1

Revision == Nat \cup {Undefined}

Top(s) == s[Len(s)]

CommitLoopTypeOK ==
  /\ phase \in Phase
  /\ provs \in BOOLEAN /\ probes \in BOOLEAN
  /\ revs \in Seq(Revision) /\ missing \in BOOLEAN
  /\ decl \in Nat /\ vps \in Nat /\ sync \in 0 .. decl
  /\ ran \in Seq(BOOLEAN) /\ Len(ran) = decl
  /\ decl <= vps + 1
  /\ Len(revs) = vps + 1 \/ (phase = "done" /\ revs = <<>>)
  /\ local \in BOOLEAN /\ changed \in BOOLEAN
  /\ rpc \in 0 .. Chain /\ (rpc > 0 => phase \in {"await", "fault", "ended"})
  /\ cycle \in Nat /\ iter \in Nat /\ rpcs \in Nat
  /\ cursor \in Nat /\ sizes \in Nat
  /\ data \in [Key -> Seq(Value \cup {Absent})]
  /\ lastSet \in [Key -> Value \cup {Absent}]
  /\ short \in BOOLEAN

\* The device is known from an earlier session or not; the Inform sets its
\* parameters at revision 1.
LoopInit ==
  /\ phase = "idle" /\ provs = FALSE /\ probes = FALSE
  /\ revs = <<0>> /\ missing = FALSE /\ decl = 0 /\ vps = 0 /\ ran = <<>>
  /\ sync = 0 /\ local = FALSE /\ changed = FALSE
  /\ rpc = 0 /\ cycle = 0 /\ iter = 0 /\ rpcs = 0
  /\ cursor = 1 /\ sizes = 2
  /\ lastSet \in [Key -> Value \cup {Absent}]
  /\ \E base \in [Key -> Value \cup {Absent}] :
       data = [k \in Key |->
                 Put(IF base[k] = Absent THEN <<>> ELSE <<base[k]>>, 1, lastSet[k])]
  /\ old = {} /\ short = FALSE

(***************************************************************************)
(* The data of the device.                                                 *)
(***************************************************************************)
AnyValue == Value \cup {Absent}

\* device.set and device.clear at revision rev, on any keys, to values of V.
Store(d, rev, V) ==
  \E new \in [Key -> V \cup {"same"}] :
    /\ data' = [k \in Key |-> IF new[k] = "same" THEN d[k] ELSE Put(d[k], rev, new[k])]
    /\ lastSet' = [k \in Key |-> IF new[k] = "same" THEN lastSet[k] ELSE new[k]]

\* The same once timestamps.revision and attributes.revision are set to rev.
WriteAt(rev, V) ==
  /\ cursor' = rev
  /\ sizes' = IF sizes > rev THEN sizes ELSE rev + 1
  /\ Store(data, rev, V)
  /\ UNCHANGED short

\* collapse does nothing where no revision was set since the map was made.
GivesUp(rev) == sizes <= rev

Collapsed(rev) ==
  IF GivesUp(rev) THEN data ELSE [k \in Key |-> Collapse(data[k], rev)]

NoteShort(rev) ==
  short' = (short \/ (GivesUp(rev) /\ \E k \in Key : Len(data[k]) > rev + 1))

LastRev(rs) == IF rs = <<>> \/ Top(rs) = Undefined THEN 0 ELSE Top(rs)

\* A mutant of NextRev: the revision scripts have read.
ReadRev(rs) == LastRev(rs)

\* The revision after the last commit.
NextRev(rs) == LastRev(rs) + 1

(***************************************************************************)
(* Batches.                                                                *)
(***************************************************************************)
\* A mutant of NextCycle: the RPCs are counted anew in the same cycle.
SameCycle == rpcs' = 0 /\ UNCHANGED counts

\* A batch that got to run declarations ends its cycle.
NextCycle ==
  IF iter # cycle * MAX_ITERATIONS
  THEN /\ cycle' = cycle + 1
       /\ rpcs' = 0
       /\ iter' = cycle' * MAX_ITERATIONS
  ELSE UNCHANGED <<counts, rpcs>>

Reset ==
  /\ revs' = <<0>> /\ missing' = FALSE /\ decl' = 0 /\ vps' = 0 /\ ran' = <<>>
  /\ sync' = 0 /\ local' = FALSE
  /\ rpc' = 0

\* addProvisions, once or more, between batches.
AddProvisions ==
  /\ phase = "idle"
  /\ provs' = TRUE
  /\ Reset
  /\ NextCycle
  /\ UNCHANGED <<phase, probes, changed, device, old>>

\* clearProvisions, which nextRpc and applyPresets call once a batch is over.
ClearProvisions ==
  /\ phase \in {"fault", "done"}
  /\ phase' = "idle"
  /\ IF LastRev(revs) > 0
       THEN /\ data' = Collapsed(1)
            /\ sizes' = IF GivesUp(1) THEN sizes ELSE 2
            /\ NoteShort(1)
       ELSE UNCHANGED <<sizes, data, short>>
  /\ provs' = FALSE /\ probes' = FALSE
  /\ Reset
  /\ NextCycle
  /\ UNCHANGED <<changed, cursor, lastSet, old>>

\* rpcRequest is called, by applyPresets with declarations.
Start ==
  /\ phase = "idle"
  /\ phase' = "run"
  /\ probes' \in BOOLEAN
  /\ UNCHANGED <<provs, revs, missing, decl, vps, ran, progress, rpc, counts, rpcs,
                 device, old>>

\* applyPresets starts over, when the batch was for the fault of one channel or
\* has changed the data: it runs once more, and revisions is empty.
Restart ==
  /\ phase = "done"
  /\ phase' = "run"
  /\ probes' \in BOOLEAN
  /\ revs' = IF revs = <<>> THEN <<Undefined>> ELSE revs
  /\ missing' = (missing \/ revs = <<>>)
  /\ UNCHANGED <<provs, decl, vps, ran, progress, rpc, counts, rpcs, device, old>>

NothingToDo ==
  /\ phase = "run" /\ vps = 0 /\ decl = 0 /\ ~probes /\ ~provs
  /\ phase' = "done"
  /\ UNCHANGED <<loop, progress, rpc, counts, rpcs, device, old>>

(***************************************************************************)
(* One pass of rpcRequest.                                                 *)
(***************************************************************************)
\* maxRevision: without it scripts run through their commits to the end, and
\* what they clear stays.
Stops == Top(revs) # Undefined

\* The uppermost scripts run: they fail, or declare, and clear what they ask
\* for anew.
RunScripts ==
  /\ phase = "run" /\ decl <= vps
  /\ \/ /\ phase' = "fault"
        /\ WriteAt(NextRev(revs), {})
        /\ UNCHANGED <<decl, ran, changed>>
     \/ /\ phase' = phase
        /\ WriteAt(NextRev(revs), IF Stops THEN {Absent} ELSE {})
        /\ decl' = decl + 1
        /\ \E d \in BOOLEAN : (d \/ Stops) /\ ran' = Append(ran, d)
        /\ changed' \in {changed, TRUE}
  /\ UNCHANGED <<provs, probes, revs, missing, vps, sync, local, rpc, counts, rpcs, old>>

\* Without scripts there are only the declarations that were given.
RunProvisions == vps = 0 /\ (probes \/ provs) /\ RunScripts

RunVirtualParameters == vps > 0 /\ RunScripts

Scripted == phase = "run" /\ decl > vps

\* The declarations rpcRequest was given go with the first ones.
AddDeclarations ==
  /\ Scripted /\ probes
  /\ probes' = FALSE
  /\ sync' = 0 /\ local' = FALSE
  /\ UNCHANGED <<phase, provs, revs, missing, decl, vps, ran, changed, rpc, counts,
                 rpcs, device, old>>

\* The length of revisions.
Depth == IF missing THEN Len(revs) - 1 ELSE Len(revs)

\* too_many_rpcs, deeply_nested_vparams, too_many_cycles, too_many_commits
Exceeded ==
  \/ rpcs >= RpcLimit
  \/ Depth >= DepthLimit
  \/ cycle >= CycleLimit
  \/ iter >= MAX_ITERATIONS * (cycle + 1)

LimitFault ==
  /\ Scripted /\ ~probes /\ Exceeded
  /\ phase' = "fault"
  /\ UNCHANGED <<loop, progress, rpc, counts, rpcs, device, old>>

Declared == Scripted /\ ~probes /\ ~Exceeded

\* A mutant of Iteration: only the declarations of the batch count.
OuterIteration == IF decl = 1 THEN 2 ELSE 0

\* What one pass of runDeclarations counts for: only the uppermost ones count.
Iteration == IF sync = decl - 1 THEN 2 ELSE 0

\* runDeclarations, and the virtual parameters that are made known.
RunDeclarations ==
  /\ Declared /\ sync < decl
  /\ sync' = sync + 1
  /\ iter' = iter + Iteration
  /\ WriteAt(cursor, AnyValue)
  /\ local' \in {local, TRUE}
  /\ changed' \in {changed, TRUE}
  /\ UNCHANGED <<phase, loop, rpc, cycle, rpcs, old>>

Synced == Declared /\ sync = decl

\* generateGetVirtualParameterProvisions, generateSetVirtualParameterProvisions
PushVirtualParameters ==
  /\ vps' = vps + 1
  /\ revs' = Append(revs, Top(revs))
  /\ UNCHANGED <<phase, provs, probes, missing, decl, ran, progress, rpc, counts,
                 rpcs, device, old>>

SendRpc(n) ==
  /\ phase' = "await"
  /\ rpc' = n
  /\ UNCHANGED <<loop, progress, counts, rpcs, device, old>>

GetVirtualParameters == Synced /\ PushVirtualParameters

\* generateGetRpcRequest
SendGet == Synced /\ SendRpc(1)

\* The read stage is over and has changed what declarations depend on.
Reprocess ==
  /\ Synced /\ changed
  /\ sync' = 0 /\ local' = FALSE /\ changed' = FALSE
  /\ UNCHANGED <<phase, loop, rpc, counts, rpcs, device, old>>

\* Tags and downloads.
SetLocal ==
  /\ Synced /\ ~changed /\ local
  /\ WriteAt(cursor, AnyValue)
  /\ local' = FALSE
  /\ changed' \in BOOLEAN
  /\ UNCHANGED <<phase, loop, sync, rpc, counts, rpcs, old>>

Settled == Synced /\ ~changed /\ ~local

SetVirtualParameters == Settled /\ PushVirtualParameters

\* generateSetRpcRequest: AddObject comes with a chain.
SendSet == Settled /\ (SendRpc(1) \/ SendRpc(Chain))

\* The uppermost scripts go on after their commit().
Commit ==
  /\ Settled /\ ~Top(ran)
  /\ revs' = [revs EXCEPT ![decl] = @ + 1]
  /\ decl' = decl - 1
  /\ sync' = sync - 1
  /\ ran' = SubSeq(ran, 1, decl - 1)
  /\ UNCHANGED <<phase, provs, probes, missing, vps, local, changed, rpc, counts,
                 rpcs, device, old>>

\* The uppermost scripts are done: their revisions are merged into one, and
\* virtual parameters get their values.
Return ==
  LET below == SubSeq(revs, 1, Len(revs) - 1)
      rev   == NextRev(below)
  IN  /\ Settled /\ Top(ran)
      /\ revs' = below /\ missing' = FALSE
      /\ decl' = decl - 1
      /\ sync' = sync - 1
      /\ ran' = SubSeq(ran, 1, decl - 1)
      /\ cursor' = rev
      /\ sizes' = rev + 1
      /\ NoteShort(rev)
      /\ \/ vps = 0 /\ phase' = "done"
                /\ Store(Collapsed(rev), rev, {})
                /\ UNCHANGED <<vps, changed>>
         \/ vps > 0 /\ vps' = vps - 1
                /\ Store(Collapsed(rev), rev, AnyValue)
                /\ changed' \in {changed, TRUE}
                /\ UNCHANGED phase
      /\ UNCHANGED <<provs, probes, local, rpc, counts, rpcs, old>>

(***************************************************************************)
(* The answer to an RPC.                                                   *)
(***************************************************************************)
\* The id takes two digits each of the counters.
RpcId == <<cycle % (CycleLimit + 1), rpcs % (RpcLimit + 1)>>

\* rpcResponse: what the chain names is sent at once, without a look at limits.
RpcResponse ==
  /\ phase = "await"
  /\ rpcs' = rpcs + 1
  /\ rpc' \in {0, rpc - 1}
  /\ phase' = IF rpc' = 0 THEN "run" ELSE "await"
  /\ WriteAt(NextRev(revs), AnyValue)
  /\ changed' \in {changed, TRUE}
  /\ old' = old \cup {RpcId}
  /\ UNCHANGED <<loop, sync, local, counts>>

\* invalid_response: the id is that of another request, or the name is.
InvalidResponse ==
  /\ phase = "await"
  /\ phase' = "fault"
  /\ \/ UNCHANGED <<rpc, rpcs, device, old>>
     \/ /\ rpcs' = rpcs + 1
        /\ rpc' \in {0, rpc - 1}
        /\ WriteAt(NextRev(revs), {})
        /\ old' = old \cup {RpcId}
  /\ UNCHANGED <<loop, progress, counts>>

\* rpcFault: an invalid parameter name is cleared and the loop goes on.
RpcFault ==
  /\ phase = "await"
  /\ rpc' = 0
  /\ rpcs' = rpcs + 1
  /\ sync' = 0 /\ local' = FALSE
  /\ old' = old \cup {RpcId}
  /\ \/ phase' = "run" /\ WriteAt(NextRev(revs), {Absent}) /\ changed' \in {changed, TRUE}
     \/ phase' = "fault" /\ WriteAt(NextRev(revs), {}) /\ UNCHANGED changed
     \/ phase' = "fault" /\ UNCHANGED <<device, changed>>
  /\ UNCHANGED <<loop, counts>>

\* What the list of revisions is restored to: null where it was undefined.
RestoredRevs ==
  [i \in DOMAIN revs |->
     IF revs[i] = Undefined /\ i <= Depth THEN 0 ELSE revs[i]]

\* The connection closes: serialize and, on another one, deserialize.
HandOff ==
  /\ phase = "await"
  /\ sync' = 0 /\ local' = FALSE /\ changed' = FALSE
  /\ cursor' = 0 /\ sizes' = 1
  /\ data' = [k \in Key |-> Restored(data[k])]
  /\ revs' = RestoredRevs
  /\ UNCHANGED <<phase, provs, probes, missing, decl, vps, ran, rpc, counts, rpcs, lastSet, short, old>>

EndSession ==
  /\ phase \in {"idle", "await"}
  /\ phase' = "ended"
  /\ UNCHANGED <<loop, progress, rpc, counts, rpcs, device, old>>

Answered == RpcResponse \/ InvalidResponse \/ RpcFault \/ EndSession

Pass ==
  \/ NothingToDo \/ RunProvisions \/ RunVirtualParameters \/ AddDeclarations \/ LimitFault
  \/ RunDeclarations \/ GetVirtualParameters \/ SendGet \/ Reprocess
  \/ SetLocal \/ SetVirtualParameters \/ SendSet \/ Commit \/ Return

LoopNext ==
  \/ AddProvisions \/ ClearProvisions \/ Start \/ Restart \/ HandOff
  \/ Pass \/ Answered

LoopSpec == LoopInit /\ [][LoopNext]_loopVars

\* rpcRequest runs on; the CPE answers, or the session ends without it.
FairLoopSpec == LoopSpec /\ WF_loopVars(Pass) /\ WF_loopVars(Answered)

(***************************************************************************)
(* Properties.                                                             *)
(***************************************************************************)
\* A script that runs again reads what it has read: as long as its revision is
\* on the stack nothing changes at it or below.  Revision 0, what the database
\* has, never changes, so that the session saves the right difference.
RepeatableReads ==
  [][\A k \in Key : \A rev \in 0 .. LastRev(revs) :
       rev <= LastRev(revs') =>
         Get(data'[k], rev) = Get(data[k], rev)]_loopVars

\* No value the CPE reported, or a script was to set, is lost: the latest
\* revision of a key is what it was last set to, whatever was merged, unless
\* the merge was given up after a hand-off.
LatestKept == ~short => \A k \in Key : Latest(data[k]) = lastSet[k]

\* An answer is for the RPC the session waits for: no other RPC of the session
\* had its id, unless a chain went beyond the limit.
AnswersMatch == phase = "await" /\ rpcs <= RpcLimit => RpcId \notin old

\* rpcRequest returns an RPC, a fault or nothing, and a batch comes to an end,
\* whatever scripts declare and virtual parameters ask for.
BatchEnds == phase = "run" ~> phase \in {"fault", "done", "ended"}
=============================================================================
