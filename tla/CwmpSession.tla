---------------------------- MODULE CwmpSession ----------------------------
(***************************************************************************)
(* The CWMP sessions of one device (cwmp.ts) over the collections they     *)
(* share: tasks, faults, operations and the device's lock (lock.ts,        *)
(* cwmp/db.ts).                                                            *)
(*                                                                         *)
(* Each member of Session is a request handler with its context.  The      *)
(* handler reads the collections before it tries the lock, keeps           *)
(* them in its context while it exchanges RPCs with the CPE, and writes    *)
(* what it changed when the session ends, before it releases the lock.     *)
(* Every await after which another process may have changed the database   *)
(* separates two actions.                                                  *)
(***************************************************************************)
EXTENDS SessionContext

CONSTANTS
  Session,     \* session ids; an id is reused once its session is over
  Free,        \* no document in the locks collection
  MaxCrashes,  \* bound on the sessions lost in a crash of their worker
  MaxDrops,    \* bound on the sessions the CPE does not finish
  MaxStalls    \* bound on the sessions so slow that their lock expires

ASSUME SessionAssumption ==
  /\ Free \notin Session
  /\ MaxCrashes \in Nat
  /\ MaxDrops \in Nat
  /\ MaxStalls \in Nat

VARIABLES
  tasks,    \* tasks collection
  faults,   \* channels with a document in the faults collection
  timed,    \* those whose document has an expiry
  operations,  \* operations collection
  lock,     \* value of the lock document, or Free
  pc,       \* where each session is
  ctx,      \* its sessionContext
  created,  \* history: tasks ever inserted
  ran,      \* history: tasks a session carried through on the CPE
  failed,   \* history: tasks whose download failed when they were off the queue
  expired,  \* tasks whose expiry has passed
  bad,      \* channels whose provisions or conditions may fault; others never do
  crashes, drops, stalls

store == <<tasks, faults, timed, operations>>
world == <<created, expired, bad>>
bounds == <<crashes, drops, stalls>>
past == <<ran, failed>>
vars == <<tasks, faults, timed, operations, lock, pc, ctx, created, ran, failed,
          expired, bad, crashes, drops, stalls>>

Label == {"idle", "reading", "locked", "empty", "next", "presets", "wait", "saving",
          "lost"}

\* Between a successful acquireLock and the end of endSession.
InSession == {"locked", "empty", "next", "presets", "wait", "saving"}

SessionTypeOK ==
  /\ tasks \subseteq Task
  /\ faults \subseteq Channel
  /\ timed \subseteq Channel
  /\ operations \subseteq Operation
  /\ pc \in [Session -> Label]
  /\ ctx \in [Session -> Context]
  /\ created \subseteq Task
  /\ ran \subseteq Task
  /\ failed \subseteq Task
  /\ expired \subseteq Expiring
  /\ bad \subseteq Channel
  /\ crashes \in 0 .. MaxCrashes
  /\ drops \in 0 .. MaxDrops
  /\ stalls \in 0 .. MaxStalls

TypeOK == SessionTypeOK /\ lock \in Session \cup {Free}

Init ==
  /\ tasks = {} /\ faults = {} /\ timed = {} /\ operations = {}
  /\ lock = Free
  /\ pc = [s \in Session |-> "idle"]
  /\ ctx = [s \in Session |-> NoContext]
  /\ created = {} /\ ran = {} /\ failed = {} /\ expired = {}
  /\ bad \in SUBSET (Channel \ EmptyTask)
  /\ crashes = 0 /\ drops = 0 /\ stalls = 0

Go(s, from, to, c) ==
  /\ pc[s] = from
  /\ pc' = [pc EXCEPT ![s] = to]
  /\ ctx' = [ctx EXCEPT ![s] = c]

\* A step of the handler that reads and writes its context only.
Local(s, from, to, c) ==
  Go(s, from, to, c) /\ UNCHANGED <<store, lock, past, world, bounds>>

(***************************************************************************)
(* Environment.                                                            *)
(***************************************************************************)
\* insertTasks without a connection request takes no lock.
InsertTask(t) ==
  /\ t \notin created
  /\ created' = created \cup {t}
  /\ tasks' = tasks \cup {t}
  /\ UNCHANGED <<faults, timed, operations, lock, pc, ctx, past, expired, bad, bounds>>

\* Time passes the expiry of a task.
PassExpiry(t) ==
  /\ t \in (Expiring \cap created) \ expired
  /\ expired' = expired \cup {t}
  /\ UNCHANGED <<store, lock, pc, ctx, created, past, bad, bounds>>

(***************************************************************************)
(* Inform: the database is read first, then the lock is tried.             *)
(***************************************************************************)
\* listenerAsync, a new session.  Its timestamp decides which tasks are due
\* (those inserted before) and which have expired.  The device's document has
\* the condition parameters of the known channels.
Inform(s, known) ==
  Local(s, "idle", "reading",
        [NoContext EXCEPT !.tasks = tasks, !.expired = expired,
                          !.fetched = known, !.toRead = {"tasks", "faults", "operations"}])

\* getDueTasks
ReadTasks(s) ==
  /\ "tasks" \in ctx[s].toRead
  /\ Local(s, "reading", "reading",
           [ctx[s] EXCEPT !.tasks = @ \cap tasks, !.toRead = @ \ {"tasks"}])

\* v.expiry >= sessionContext.timestamp, for the fault documents.
DiscardedFaults(c) == (faults \cap timed) \ c.expired

\* getFaults, and the loop that drops some of what it returns.  Which of the
\* others have waited out their backoff depends on the time.
ReadFaults(s, due) ==
  LET c == ctx[s]
      drop == DiscardedFaults(c)
      keep == faults \ drop
  IN  /\ "faults" \in c.toRead
      /\ due \subseteq keep
      /\ Local(s, "reading", "reading",
               [c EXCEPT !.faulty = keep, !.due = due,
                         !.timed = timed \cap keep, !.retried = keep,
                         !.touched = drop, !.toRead = @ \ {"faults"}])

\* getOperations
ReadOperations(s) ==
  /\ "operations" \in ctx[s].toRead
  /\ Local(s, "reading", "reading",
           [ctx[s] EXCEPT !.ops = operations, !.toRead = @ \ {"operations"}])

\* A mutant of LockIsFree: the lock is taken over from its holder.
LockIsMine(s) == TRUE

\* acquireLock with timeout 0: no document, or one with this session's token.
LockIsFree(s) == lock \in {Free, s}

\* A mutant of Lock: the document carries a constant, not the session's token.
LockUnnamed(s) ==
  /\ ctx[s].toRead = {}
  /\ LockIsFree(s)
  /\ lock' = "cwmp_session"
  /\ Go(s, "reading", "locked", ctx[s])
  /\ UNCHANGED <<store, past, world, bounds>>

\* processRequest, state 0: the Inform is answered once the lock is held.
Lock(s) ==
  /\ ctx[s].toRead = {}
  /\ LockIsFree(s)
  /\ lock' = s
  /\ Go(s, "reading", "locked", ctx[s])
  /\ UNCHANGED <<store, past, world, bounds>>

\* "CPE already in session".
Refuse(s) ==
  /\ ctx[s].toRead = {}
  /\ ~LockIsFree(s)
  /\ Local(s, "reading", "idle", NoContext)

\* Credentials refused twice.  After the first refusal the context, with what
\* it has read, waits for the CPE's second attempt.
Unauthorized(s) ==
  /\ ctx[s].toRead = {}
  /\ drops < MaxDrops
  /\ drops' = drops + 1
  /\ Go(s, "reading", "idle", NoContext)
  /\ UNCHANGED <<store, lock, past, world, crashes, stalls>>

(***************************************************************************)
(* writeResponse, endSession and the ways into it.                         *)
(***************************************************************************)
\* writeResponse with close unset.  A lock that is due for it is extended, or
\* taken again if it was removed; "Failed to extend lock" if another has it.
WriteResponse(s, from, to, c) ==
  \/ Go(s, from, to, c) /\ UNCHANGED lock
  \/ LockIsFree(s) /\ lock' = s /\ Go(s, from, to, c)
  \/ ~LockIsFree(s) /\ Go(s, from, "lost", NoContext) /\ UNCHANGED lock

Respond(s, from, to, c) ==
  WriteResponse(s, from, to, c) /\ UNCHANGED <<store, past, world, bounds>>

\* writeResponse with close set.  If the connection is found destroyed the
\* batch is not cleared first and counts as unfinished.
Close(s, from, c) ==
  \/ /\ Go(s, from, "saving", EndSession(ClearProvisions(c)))
     /\ UNCHANGED drops
  \/ /\ drops < MaxDrops
     /\ drops' = drops + 1
     /\ Go(s, from, "saving", EndSession(c))

\* Session timeout, dropped connection, bad state or unreadable request.
Terminate(s) ==
  /\ drops < MaxDrops
  /\ drops' = drops + 1
  /\ \E from \in {"locked", "wait"} : Go(s, from, "saving", EndSession(ctx[s]))
  /\ UNCHANGED <<store, lock, past, world, crashes, stalls>>

\* saveDevice, clearTasks, saveFault and deleteFault run in parallel.
SaveDevice(s) ==
  /\ "device" \in ctx[s].toWrite
  /\ Local(s, "saving", "saving", [ctx[s] EXCEPT !.toWrite = @ \ {"device"}])

\* A mutant of ClearTasks: every task of the device is removed.
ClearAllTasks(s) ==
  /\ "tasks" \in ctx[s].toWrite
  /\ tasks' = {}
  /\ Go(s, "saving", "saving", [ctx[s] EXCEPT !.toWrite = @ \ {"tasks"}])
  /\ UNCHANGED <<faults, timed, operations, lock, past, world, bounds>>

ClearTasks(s) ==
  /\ "tasks" \in ctx[s].toWrite
  /\ tasks' = tasks \ ctx[s].done
  /\ Go(s, "saving", "saving", [ctx[s] EXCEPT !.toWrite = @ \ {"tasks"}])
  /\ UNCHANGED <<faults, timed, operations, lock, past, world, bounds>>

SaveFault(s, ch) ==
  LET c == ctx[s]
      Written(old, new) == IF ch \in new THEN old \cup {ch} ELSE old \ {ch}
  IN  /\ ch \in c.toSave
      /\ faults' = Written(faults, c.faulty)
      /\ timed' = Written(timed, c.timed)
      /\ Go(s, "saving", "saving", [c EXCEPT !.toSave = @ \ {ch}])
      /\ UNCHANGED <<tasks, operations, lock, past, world, bounds>>

\* saveOperation, or deleteOperation if the session has it no more.
SaveOperation(s, k) ==
  LET c == ctx[s]
      Of(ops) == {op \in ops : op.key = k}
  IN  /\ k \in c.opsTouched
      /\ operations' = (operations \ Of(operations)) \cup Of(c.ops)
      /\ Go(s, "saving", "saving", [c EXCEPT !.opsTouched = @ \ {k}])
      /\ UNCHANGED <<tasks, faults, timed, lock, past, world, bounds>>

\* releaseLock, when every write is done; "Lock expired" if it is not ours.
Saved(s) == ctx[s].toSave = {} /\ ctx[s].toWrite = {} /\ ctx[s].opsTouched = {}

Release(s) ==
  /\ Saved(s)
  /\ lock = s
  /\ lock' = Free
  /\ Go(s, "saving", "idle", NoContext)
  /\ UNCHANGED <<store, past, world, bounds>>

LockExpired(s) ==
  /\ Saved(s)
  /\ lock # s
  /\ Local(s, "saving", "lost", NoContext)

\* The worker dies: the context is gone, the lock document stays.
Crash(s) ==
  /\ pc[s] \notin {"idle", "lost"}
  /\ crashes < MaxCrashes
  /\ crashes' = crashes + 1
  /\ Go(s, pc[s], "lost", NoContext)
  /\ UNCHANGED <<store, lock, past, world, drops, stalls>>

\* The lock of a session that goes on expires: its handler was stalled.
Stall(s) ==
  /\ pc[s] \in InSession
  /\ lock = s
  /\ stalls < MaxStalls
  /\ stalls' = stalls + 1
  /\ lock' = Free
  /\ UNCHANGED <<store, pc, ctx, past, world, crashes, drops>>

\* A mutant of ExpireLock: the document is removed whoever holds it.
ExpireAnyLock(s) ==
  /\ Go(s, "lost", "idle", NoContext)
  /\ lock' = Free
  /\ UNCHANGED <<store, past, world, bounds>>

\* The TTL index removes the lock of a session that no longer extends it.
ExpireLock(s) ==
  /\ Go(s, "lost", "idle", NoContext)
  /\ lock' = IF lock = s THEN Free ELSE lock
  /\ UNCHANGED <<store, past, world, bounds>>

(***************************************************************************)
(* The CPE's requests.                                                     *)
(***************************************************************************)
\* GetRPCMethods, an unknown method, or a TransferComplete with an unknown
\* command key, before the empty request.
CpeRequest(s) == Respond(s, "locked", "locked", ctx[s])

\* transferComplete.  The download failed or not; only that of a batch with a
\* channel that may fault can fail.
TransferComplete(s, op) ==
  /\ op \in ctx[s].ops
  /\ \/ /\ WriteResponse(s, "locked", "locked", ForgetOperation(ctx[s], op))
        /\ UNCHANGED failed
     \/ /\ op.chan \cap bad # {}
        /\ WriteResponse(s, "locked", "locked", OperationFault(ctx[s], op))
        /\ failed' = failed \cup ((op.chan \cap Task) \ tasks)
  /\ UNCHANGED <<store, ran, world, bounds>>

\* The empty request: state 1 becomes 2.
EmptyRequest(s) == Local(s, "locked", "empty", ctx[s])

\* timeoutOperations, and the faults recorded for what it returns: downloads
\* that have been outstanding for too long.
TimeoutOperation(s, op) ==
  /\ op \in ctx[s].ops
  /\ op.chan \cap bad # {}
  /\ Go(s, "empty", "empty", OperationFault(ctx[s], op))
  /\ failed' = failed \cup ((op.chan \cap Task) \ tasks)
  /\ UNCHANGED <<store, lock, ran, world, bounds>>

StartRpcs(s) == Local(s, "empty", "next", ctx[s])

Answered(c) == [c EXCEPT !.rpcs = @ + 1]

\* cpeResponse, or a 9005 fault the session recovers from.
CpeResponse(s) == Local(s, "wait", "next", Answered(ctx[s]))

\* Command keys are never used twice: those of the operations known anywhere.
UsedKeys ==
  {op.key : op \in operations} \cup
    UNION {{op.key : op \in ctx[s].ops} \cup ctx[s].opsTouched : s \in Session}

\* cpeResponse to a Download whose transfer the CPE has only begun.
BeginDownload(s, k) ==
  /\ ctx[s].active \cap Downloading # {}
  /\ k \notin UsedKeys
  /\ Local(s, "wait", "next", AddOperation(Answered(ctx[s]), k))

\* What is outstanding may fault if a channel it is for may fault.
MayFault(c) == c.active \cap bad # {}

\* cpeFault, an unknown method, or a response that does not fit its request.
CpeFault(s) ==
  /\ MayFault(ctx[s])
  /\ Local(s, "wait", "next", RecordFault(ctx[s]))

(***************************************************************************)
(* nextRpc                                                                 *)
(***************************************************************************)
NextFault(s) ==
  /\ MayFault(ctx[s])
  /\ Local(s, "next", "next", RecordFault(ctx[s]))

NextSend(s) ==
  /\ ctx[s].active # {}
  /\ ctx[s].rpcs < MaxRpcs
  /\ Respond(s, "next", "wait", ctx[s])

\* Nothing more to do for the batch: complete it and pick the next task.
NextTask(s) ==
  LET c == DropExpired(CompleteBatch(ctx[s]))
  IN  /\ ran' = ran \cup (ctx[s].chan \cap Task)
      /\ \/ Runnable(c) = {} /\ Go(s, "next", "presets", c)
         \/ \E t \in Oldest(Runnable(c)) : Go(s, "next", "next", StartTask(c, t))
      /\ UNCHANGED <<store, lock, failed, world, bounds>>

(***************************************************************************)
(* applyPresets.  First the parameters that conditions read, together with *)
(* what an earlier pass left in the batch.                                 *)
(***************************************************************************)
ProbeFault(s, c) ==
  /\ MayFault(c)
  /\ Local(s, "presets", "presets", RecordFault(c))

ProbeSend(s, c) ==
  /\ c.active # {}
  /\ Respond(s, "presets", "wait", c)

\* Then the batch of the presets that match.
\* recordFault throws when the batch is empty, and the worker goes down.
PresetLoop(s, c) ==
  /\ c.cycles > MaxCycles
  /\ \/ /\ c.chan # {}
        /\ Close(s, "presets", RecordFault(c))
        /\ UNCHANGED <<store, lock, past, world, crashes, stalls>>
     \/ /\ c.chan = {}
        /\ Local(s, "presets", "lost", NoContext)

PresetFault(s, c) ==
  /\ MayFault(c)
  /\ Local(s, "presets", "presets", RecordFault(c))

PresetSend(s, c) ==
  /\ c.chan # {}
  /\ MaxRpcs > 0
  /\ Respond(s, "presets", "wait", c)

\* The batch needs no RPC: its faults go.  After a retry, or when the device
\* data changed, start over with the batch still in place; else close.
PresetDone(s, white, c) ==
  LET d == ForgetFaults(c, c.chan)
  IN  /\ ran' = ran \cup (c.chan \cap Task)
      /\ \/ /\ white # {} \/ c.chan # {}
            /\ Go(s, "presets", "presets", d)
            /\ UNCHANGED drops
         \/ /\ white = {}
            /\ Close(s, "presets", d)
      /\ UNCHANGED <<store, lock, failed, world, crashes, stalls>>

ApplyBatch(s, white, match, appended) ==
  LET c == LoadBatch(ctx[s], white, PresetBatch(ctx[s], white, match), appended)
  IN  /\ match \cap Probing \subseteq ctx[s].fetched
      /\ appended \subseteq (IF white # {} THEN {} ELSE match \cap ctx[s].faulty)
      /\ \/ PresetLoop(s, c)
         \/ c.cycles <= MaxCycles /\ PresetFault(s, c)
         \/ c.cycles <= MaxCycles /\ PresetSend(s, c)
         \/ c.cycles <= MaxCycles /\ PresetDone(s, white, c)

Probe(s) ==
  \E white \in WhiteLists(ctx[s]) :
    \E match \in SUBSET Eligible(ctx[s], white) :
      LET c == MarkProbes(ctx[s], match \cap Probing)
      IN  ProbeFault(s, c) \/ ProbeSend(s, c)

ApplyPresets(s) ==
  \E white \in WhiteLists(ctx[s]) :
    \E match \in SUBSET Eligible(ctx[s], white) :
      \E appended \in SUBSET match : ApplyBatch(s, white, match, appended)

(***************************************************************************)
(* Specification.                                                          *)
(***************************************************************************)
\* The handler's own steps.
Handler(s) ==
  \/ ReadTasks(s)
  \/ \E due \in SUBSET faults : ReadFaults(s, due)
  \/ ReadOperations(s) \/ Lock(s) \/ Refuse(s)
  \/ \E op \in ctx[s].ops : TimeoutOperation(s, op)
  \/ StartRpcs(s)
  \/ NextFault(s) \/ NextSend(s) \/ NextTask(s)
  \/ Probe(s) \/ ApplyPresets(s)
  \/ SaveDevice(s) \/ ClearTasks(s)
  \/ \E ch \in Channel : SaveFault(s, ch)
  \/ \E k \in Key : SaveOperation(s, k)
  \/ Release(s) \/ LockExpired(s)

\* What the CPE does next, or the timeout that ends its silence.
Cpe(s) ==
  \/ EmptyRequest(s)
  \/ CpeResponse(s) \/ (\E k \in Key : BeginDownload(s, k))
  \/ CpeFault(s) \/ Terminate(s)

SessionNext(s) ==
  \/ \E known \in SUBSET Probing : Inform(s, known)
  \/ Unauthorized(s)
  \/ CpeRequest(s) \/ (\E op \in ctx[s].ops : TransferComplete(s, op))
  \/ Handler(s) \/ Cpe(s)
  \/ Crash(s) \/ Stall(s) \/ ExpireLock(s)

Next ==
  \/ \E t \in Task : InsertTask(t) \/ PassExpiry(t)
  \/ \E s \in Session : SessionNext(s)

Spec == Init /\ [][Next]_vars

\* Every backoff runs out: a session that finds all the faults due.
ReadFaultsLate(s) == ReadFaults(s, faults \ DiscardedFaults(ctx[s]))

\* The handler runs, the CPE answers or its silence times out, the database
\* removes expired locks, and the CPE keeps informing.
Fairness ==
  \A s \in Session :
    /\ WF_vars(Handler(s)) /\ WF_vars(Cpe(s)) /\ WF_vars(ExpireLock(s))
    /\ WF_vars(\E known \in SUBSET Probing : Inform(s, known))
    /\ SF_vars(ReadFaultsLate(s))

FairSpec == Spec /\ Fairness

(***************************************************************************)
(* Properties.                                                             *)
(***************************************************************************)
\* A session works on the device, from its answer to the Inform to its last
\* write, only while the lock document carries its token; hence two sessions
\* of a device never overlap, unless one is stalled past the expiry of its lock
\* (lock.ts, processRequest, endSession).
LockHeld == stalls = 0 => \A s \in Session : pc[s] \in InSession => lock = s

\* A session loses its lock by its own steps or by its expiry, never because
\* a stalled session ends late and releases a lock that is not its own any
\* more (releaseLock, endSession, writeResponse).
LockKept ==
  [][\A s \in Session :
       lock = s /\ lock' # s => pc[s] # pc'[s] \/ stalls' > stalls]_vars

\* A task leaves the collection only once a session has carried it through,
\* or because it expired or has no meaning; faults, dropped connections,
\* crashes and overlapping sessions never lose one (nextRpc, endSession).
NoTaskLost == created \ tasks \subseteq ran \cup expired \cup InvalidTask

\* A session never marks a task done and leaves a fault on it, however its
\* retries, leftover batches and aborts combine (nextRpc, applyPresets).
DoneHasNoFault ==
  \A s \in Session : ctx[s].done \cap ctx[s].faulty = {}

\* There is one session.
Alone == \E s \in Session : Session = {s}

\* With one session at a time and no crash, the only faults that outlive their
\* tasks are those of downloads that failed or timed out after the tasks were
\* done: any other would be retried for a task that is no longer queued
\* (nextRpc, transferComplete, endSession).
NoOrphanFault ==
  (Alone /\ crashes = 0 /\ \A s \in Session : pc[s] = "idle")
    => (faults \cap Task) \ tasks \subseteq failed

\* A task that does not fault by itself gets its first fault of a session
\* only if the CPE leaves that session unfinished, or a download fails that
\* began in its batch; other tasks and presets cannot cause it (recordFault,
\* nextRpc, transferComplete).
TaskIsolation ==
  [][\A s \in Session : \A t \in Task \ bad :
       t \in ctx'[s].faulty \ (ctx[s].faulty \cup ctx[s].retried)
         => \/ pc[s] = "reading" \/ drops' > drops
            \/ \E op \in ctx[s].ops \ ctx'[s].ops : t \in op.chan]_vars

\* Every session ends, whatever its faults, retries and preset cycles.
SessionEnds ==
  \A s \in Session : pc[s] \in InSession ~> pc[s] \in {"idle", "lost"}

\* A task that can succeed eventually leaves the queue, whatever other tasks
\* do and even if earlier sessions were dropped or lost while they worked on
\* it; unless a preset faults, whose probes can take a retried task down with
\* them in every session, or preset loops stop the worker again and again
\* (nextRpc, applyPresets, endSession).
GoodTaskServed ==
  \/ bad \cap PresetChannel # {}
  \/ []<><<\E s \in Session : pc[s] = "presets" /\ pc'[s] = "lost">>_vars
  \/ \A t \in Task : (t \in tasks /\ t \notin bad) ~> t \notin tasks

\* CHANGELOG 1.1.0: "A fault in one channel only blocks presets in that
\* channel."  A session that ran to its end, without a preset loop, leaves no
\* new fault on a channel that cannot fault.
FaultIsolation ==
  \A s \in Session :
    (pc[s] = "saving" /\ drops = 0 /\ ctx[s].cycles <= MaxCycles)
      => ctx[s].faulty \ bad \subseteq faults

\* recordFault asserts that a fault is "associated with a channel"; hence a
\* session is lost only in a crash that has another cause.
FaultHasChannel ==
  [][\A s \in Session :
       pc[s] # "lost" /\ pc'[s] = "lost" => crashes' > crashes]_vars

\* "Delete expired faults": the faults dropped when a session starts are those
\* of tasks whose expiry has passed.
OnlyExpiredDiscarded ==
  [][\A s \in Session :
       pc'[s] = "reading" => ctx'[s].touched \subseteq expired]_vars
=============================================================================
