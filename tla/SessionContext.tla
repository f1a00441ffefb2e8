--------------------------- MODULE SessionContext ---------------------------
(***************************************************************************)
(* The in-memory context of one CWMP session (cwmp.ts, type SessionContext)*)
(* and the functions of cwmp.ts that transform it without touching the     *)
(* database: recordFault, clearProvisions, the completion of a batch of    *)
(* provisions, the expiry of tasks and the choice of the next task; and    *)
(* what it keeps of the downloads the CPE has begun (session.ts).          *)
(*                                                                         *)
(* A channel is a task (the source's "task_<id>") or the name given to a   *)
(* group of presets.  The provisions of a channel are abstracted to whether*)
(* the channel has a bit set in the channel mask.                          *)
(***************************************************************************)
EXTENDS Naturals, FiniteSets

CONSTANTS
  Task,           \* task ids; the order of the ids is the order of timestamps
  PresetChannel,  \* channels used by presets
  Expiring,       \* tasks created with an expiry
  EmptyTask,      \* "provisions" tasks with an empty list
  InvalidTask,    \* tasks of an unknown name, stored before the API checked it
  Probing,        \* preset channels whose conditions read device parameters
  Downloading,    \* channels whose provisions start downloads
  Key,            \* command keys; bounds the downloads outstanding at once
  MaxCycles,      \* MAX_CYCLES: preset cycles before "preset_loop"
  MaxRpcs         \* bound on the RPCs of one batch (255 in rpcRequest)

ASSUME TaskAssumption ==
  /\ Task \subseteq Nat
  /\ Task \cap PresetChannel = {}
  /\ Expiring \subseteq Task
  /\ EmptyTask \subseteq Task
  /\ InvalidTask \subseteq Task
  /\ Probing \subseteq PresetChannel
  /\ Downloading \subseteq Task \cup PresetChannel

ASSUME BoundAssumption == MaxCycles \in Nat \ {0} /\ MaxRpcs \in Nat

Channel == Task \cup PresetChannel

\* A download the CPE has begun: the channels of its batch, those with a bit
\* in their mask, and those with retries at the time.
Operation ==
  [key : Key, chan : SUBSET Channel, work : SUBSET Channel, retried : SUBSET Channel]

(***************************************************************************)
(* tasks      tasks read from the database and not finished                *)
(* expired    tasks whose expiry had passed at the session's timestamp     *)
(* faulty     channels with an entry in sessionContext.faults              *)
(* due        faulty channels that may be retried now: retryNow, or their  *)
(*            backoff had run out at the session's timestamp               *)
(* pre        faulty channels whose fault has the precondition flag        *)
(* timed      faulty channels whose fault carries an expiry                *)
(* retried    channels with a non-null sessionContext.retries entry        *)
(* touched    sessionContext.faultsTouched                                 *)
(* chan       keys of sessionContext.channels                              *)
(* work       channels whose bit mask in sessionContext.channels is not 0  *)
(* active     channels the commit loop still works for: their provisions,  *)
(*            or the condition parameters of their presets, are outstanding*)
(* provs      sessionContext.provisions.length > 0                         *)
(* fetched    preset channels whose condition parameters are known         *)
(* done       sessionContext.doneTasks                                     *)
(* cycles     sessionContext.presetCycles                                  *)
(* rpcs       sessionContext.rpcCount                                      *)
(* ops        sessionContext.operations                                    *)
(* opsTouched sessionContext.operationsTouched, and what is left to write  *)
(*            of it                                                        *)
(* toRead     collections not yet read by the Inform handler               *)
(* toSave     faults endSession has still to write                         *)
(* toWrite    the other writes of endSession: the device, and clearTasks   *)
(***************************************************************************)
Context ==
  [tasks : SUBSET Task, expired : SUBSET Task,
   faulty : SUBSET Channel, due : SUBSET Channel, pre : SUBSET Channel,
   timed : SUBSET Channel, retried : SUBSET Channel,
   touched : SUBSET Channel, chan : SUBSET Channel, work : SUBSET Channel,
   active : SUBSET Channel, provs : BOOLEAN, fetched : SUBSET Channel, done : SUBSET Task,
   cycles : Nat, rpcs : Nat,
   ops : SUBSET Operation, opsTouched : SUBSET Key,
   toRead : SUBSET {"tasks", "faults", "operations"}, toSave : SUBSET Channel,
   toWrite : SUBSET {"device", "tasks"}]

\* session.init: nothing is known of the device yet.
NoContext ==
  [tasks |-> {}, expired |-> {}, faulty |-> {}, due |-> {}, pre |-> {},
   timed |-> {}, retried |-> {}, touched |-> {}, chan |-> {}, work |-> {},
   active |-> {}, provs |-> FALSE, fetched |-> {}, done |-> {}, cycles |-> 0, rpcs |-> 0,
   ops |-> {}, opsTouched |-> {}, toRead |-> {}, toSave |-> {}, toWrite |-> {}]

\* session.clearProvisions: the batch and its channels are forgotten.
ClearProvisions(c) ==
  [c EXCEPT !.chan = {}, !.work = {}, !.active = {}, !.provs = FALSE, !.rpcs = 0]

\* session.addProvisions for one channel whose provision list is not empty.
AddProvisions(c, ch) ==
  [c EXCEPT !.chan = @ \cup {ch}, !.work = @ \cup {ch},
            !.active = @ \cup {ch}, !.provs = TRUE]

\* delete sessionContext.faults[channel], marking it touched if it was there.
ForgetFaults(c, chs) ==
  [c EXCEPT !.faulty = @ \ chs, !.due = @ \ chs, !.pre = @ \ chs,
            !.timed = @ \ chs, !.touched = @ \cup (chs \cap c.faulty)]

\* A fault is blamed on every channel of a batch b: the current one, or that of
\* an operation.  Only when there are several is it retried in this session
\* (retryNow), and only for the channels that had no retries yet.
RetryNow(c, b) == IF Cardinality(b.chan) # 1 THEN b.chan \ c.retried ELSE {}

Blame(c, b) ==
  [c EXCEPT !.faulty  = @ \cup b.chan,
            !.due     = (@ \ b.chan) \cup RetryNow(c, b),
            !.pre     = (@ \ b.chan) \cup (b.chan \ b.work),
            !.timed   = (@ \ b.chan) \cup (b.chan \cap c.tasks \cap Expiring),
            !.retried = @ \cup b.chan,
            !.touched = @ \cup b.chan]

RecordFault(c) == ClearProvisions([Blame(c, c) EXCEPT !.fetched = @ \ c.active])

\* delete sessionContext.operations[commandKey], marking it touched.
ForgetOperation(c, op) ==
  [c EXCEPT !.ops = @ \ {op}, !.opsTouched = @ \cup {op.key}]

\* The fault of an operation: its batch gets back the retries it had.
OperationFault(c, op) ==
  ClearProvisions(Blame([ForgetOperation(c, op) EXCEPT !.retried = @ \cup op.retried], op))

\* rpcResponse, when the CPE has begun the download of the current batch.
AddOperation(c, k) ==
  [c EXCEPT !.ops = @ \cup {[key |-> k, chan |-> c.chan, work |-> c.work,
                             retried |-> c.chan \cap c.retried]},
            !.opsTouched = @ \cup {k}]

\* Mutants of CompleteBatch: the faults of the batch are kept, or the batch
\* itself is.
KeepFaults(c) ==
  ClearProvisions([c EXCEPT !.done = @ \cup (c.chan \cap Task), !.tasks = @ \ c.chan])

KeepBatch(c) ==
  [ForgetFaults(c, c.work) EXCEPT !.done = @ \cup (c.chan \cap Task), !.tasks = @ \ c.chan]

\* nextRpc, when rpcRequest has nothing more to do for the batch.
CompleteBatch(c) ==
  ClearProvisions(
    [ForgetFaults(c, c.work) EXCEPT !.done  = @ \cup (c.chan \cap Task),
                                    !.tasks = @ \ c.chan])

\* nextRpc: tasks past their expiry are done, and so are their faults.
DropExpired(c) ==
  LET gone == c.tasks \cap Expiring \cap c.expired
  IN  [ForgetFaults(c, gone) EXCEPT !.done = @ \cup gone, !.tasks = @ \ gone]

\* nextRpc: the tasks that have no fault, and the first of them.
Runnable(c) == c.tasks \ c.faulty
Oldest(ts) == {t \in ts : \A u \in ts : t <= u}

StartTask(c, t) ==
  CASE t \in InvalidTask -> [c EXCEPT !.done = @ \cup {t}, !.tasks = @ \ {t}]
    [] t \in EmptyTask \ InvalidTask -> [c EXCEPT !.chan = @ \cup {t}]
    [] OTHER -> AddProvisions(c, t)

\* A mutant of EndSession: the tasks of an unfinished batch count as done.
EndSessionDone(c) ==
  LET d == c.done \cup (c.chan \cap Task)
  IN  [NoContext EXCEPT !.faulty = c.faulty, !.timed = c.timed, !.done = d,
                        !.ops = c.ops, !.opsTouched = c.opsTouched,
                        !.toSave = c.touched, !.toWrite = {"device", "tasks"}]

\* endSession: an unfinished batch is a "session_terminated" fault, and the
\* writes that remain are the done tasks and the touched faults and operations.
\* The rest of the context is not used any more.
EndSession(c) ==
  LET d == IF c.provs THEN RecordFault(c) ELSE c
  IN  [NoContext EXCEPT !.faulty = d.faulty, !.timed = d.timed, !.done = d.done,
                        !.ops = d.ops, !.opsTouched = d.opsTouched, !.toSave = d.touched,
                        !.toWrite = {"device"} \cup (IF d.done = {} THEN {} ELSE {"tasks"}),
                        !.cycles = d.cycles]

\* A mutant of WhiteLists: no channel is retried.
RetryNothing(c) == {{}}

\* applyPresets: the channel retried alone, as a set of at most one channel.
WhiteLists(c) ==
  LET ready == c.faulty \cap c.due
  IN  IF ready = {} THEN {{}} ELSE {{ch} : ch \in ready}

\* Presets that are considered: those of the retried channel, or all those
\* whose channel has no precondition fault.
Eligible(c, white) ==
  PresetChannel \cap (IF white # {} THEN white ELSE Channel \ (c.faulty \cap c.pre))

\* Channels of the presets whose conditions read the device are marked with
\* an empty mask.  What an earlier pass left in the batch stays in it.
MarkProbes(c, probes) ==
  [c EXCEPT !.chan = @ \cup probes, !.work = @ \ probes,
            !.active = @ \cup (probes \ c.fetched),
            !.fetched = @ \cup probes]

\* The batch applyPresets builds from the retried channel, or else from the
\* matching presets.  The presets of a faulty channel are only appended to
\* its fault.
PresetBatch(c, white, match) == IF white # {} THEN white ELSE match \ c.faulty

\* A mutant of LoadBatch: the cycles of presets are not counted.
LoadUncounted(c, white, batch, appended) ==
  [ClearProvisions(c) EXCEPT
     !.chan = batch, !.work = batch, !.active = batch, !.provs = batch # {},
     !.touched = @ \cup appended]

LoadBatch(c, white, batch, appended) ==
  [ClearProvisions(c) EXCEPT
     !.chan = batch, !.work = batch, !.active = batch, !.provs = batch # {},
     !.touched = @ \cup appended,
     !.cycles = IF white # {} THEN @ ELSE @ + 1]
=============================================================================
