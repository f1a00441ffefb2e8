-------------------------- MODULE CwmpTasks_proofs --------------------------
(***************************************************************************)
(* Theorems on the tasks of CwmpSession, for any number of sessions, tasks *)
(* and channels: a session never marks a task done and leaves a fault on   *)
(* it (DoneIsClean); a session that is alone leaves no fault of a task     *)
(* that is no longer queued, but for failed downloads (NoOrphan); a fault  *)
(* of one task is not recorded for another (TasksIsolated); and            *)
(* CwmpSession implements TaskQueue (Refinement).                          *)
(***************************************************************************)
EXTENDS SessionQueue, CwmpSession_proofs

(***************************************************************************)
(* The invariant of one context.  A task becomes done when the batch with  *)
(* its channel is completed, which deletes the faults of the channels in   *)
(* work only: the other channels of the batch must have none.  A done task *)
(* must not come back into a batch, from the tasks or as a retried channel.*)
(***************************************************************************)
Clean(c) ==
  /\ c \in Context
  /\ c.done \cap c.faulty = {}
  /\ c.done \cap c.tasks = {}
  /\ c.done \cap c.chan = {}
  /\ (c.chan \ c.work) \cap Task \cap c.faulty = {}

\* Nothing is in the batch, or done, until the CPE's empty request.
Fresh(c) == c.done = {} /\ c.chan = {}

BeforeRpcs == {"reading", "locked", "empty"}

FaultInv ==
  /\ pc \in [Session -> Label]
  /\ faults \subseteq Channel /\ timed \subseteq Channel
  /\ tasks \subseteq Task /\ expired \subseteq Task
  /\ operations \subseteq Operation
  /\ ctx \in [Session -> Context]
  /\ \A s \in Session : Clean(ctx[s]) /\ (pc[s] \in BeforeRpcs => Fresh(ctx[s]))

(***************************************************************************)
(* The functions on a context.                                             *)
(***************************************************************************)
\* The context of no session is clean.
LEMMA CleanNone == Clean(NoContext)
BY NoContextType DEF Clean, NoContext

\* clearProvisions keeps a context clean.
LEMMA CleanClear ==
  ASSUME NEW c, Clean(c)
  PROVE  Clean(ClearProvisions(c))
BY ClearType DEF Clean, ClearProvisions, Context

\* Deleting faults keeps a context clean.
LEMMA CleanForget ==
  ASSUME NEW c, NEW chs, Clean(c)
  PROVE  Clean(ForgetFaults(c, chs))
BY ForgetType DEF Clean, ForgetFaults, Context

\* recordFault blames no done task: none is in the batch.
LEMMA CleanRecord ==
  ASSUME NEW c, Clean(c)
  PROVE  Clean(RecordFault(c))
<1>1. /\ RecordFault(c).done = c.done
      /\ RecordFault(c).faulty = c.faulty \cup c.chan
      /\ RecordFault(c).tasks = c.tasks
      /\ RecordFault(c).chan = {}
  BY RecordFields DEF Clean
<1>2. RecordFault(c) \in Context
  BY RecordType DEF Clean
<1> QED
  BY <1>1, <1>2 DEF Clean

\* An operation ends before there is a batch, or a task that is done.
LEMMA CleanOperation ==
  ASSUME NEW c, NEW op \in c.ops, Clean(c), Fresh(c)
  PROVE  /\ Clean(ForgetOperation(c, op)) /\ Fresh(ForgetOperation(c, op))
         /\ Clean(OperationFault(c, op)) /\ Fresh(OperationFault(c, op))
<1>1. c \in Context /\ op \in Operation
  BY DEF Clean, Context
<1>2. ForgetOperation(c, op) \in Context /\ OperationFault(c, op) \in Context
  BY <1>1, ForgetOperationType, OperationFaultType
<1>3. Fresh(ForgetOperation(c, op)) /\ Fresh(OperationFault(c, op))
  BY <1>1, OperationFields DEF Fresh
<1> QED
  BY <1>2, <1>3 DEF Clean, Fresh

\* What the CPE answers, or begins to download, leaves the batch as it is.
LEMMA CleanAnswered ==
  ASSUME NEW c, Clean(c)
  PROVE  Clean(Answered(c)) /\ \A k \in Key : Clean(AddOperation(Answered(c), k))
<1>1. ASSUME NEW k \in Key, NEW d, Clean(d)
      PROVE  Clean(AddOperation(d, k))
  BY <1>1, AddOperationType, AnsweredFields DEF Clean
<1>2. Answered(c) \in Context
  BY AnsweredType DEF Clean
<1>3. /\ Answered(c).faulty = c.faulty /\ Answered(c).tasks = c.tasks
      /\ Answered(c).chan = c.chan /\ Answered(c).work = c.work
      /\ Answered(c).done = c.done
  BY DEF Answered, Clean, Context
<1>4. Clean(Answered(c))
  BY <1>2, <1>3 DEF Clean
<1> QED
  BY <1>1, <1>4

\* endSession keeps a context clean.
LEMMA CleanEnd ==
  ASSUME NEW c, Clean(c)
  PROVE  Clean(EndSession(c))
<1> DEFINE d == IF c.provs THEN RecordFault(c) ELSE c
<1>1. Clean(d)
  BY CleanRecord
<1>2. EndSession(c) \in Context
  BY EndType DEF Clean
<1>3. /\ EndSession(c).done = d.done /\ EndSession(c).faulty = d.faulty
      /\ EndSession(c).tasks = {} /\ EndSession(c).chan = {}
  BY DEF EndSession, NoContext
<1> HIDE DEF d
<1> QED
  BY <1>1, <1>2, <1>3 DEF Clean

\* The completion of a batch takes the faults of its tasks with it.
LEMMA CleanComplete ==
  ASSUME NEW c, Clean(c)
  PROVE  Clean(CompleteBatch(c)) /\ CompleteBatch(c).chan = {}
<1>1. /\ CompleteBatch(c).done = c.done \cup (c.chan \cap Task)
      /\ CompleteBatch(c).faulty = c.faulty \ c.work
      /\ CompleteBatch(c).tasks = c.tasks \ c.chan
      /\ CompleteBatch(c).chan = {}
  BY DEF Clean, CompleteBatch, ForgetFaults, ClearProvisions, Context
<1>2. CompleteBatch(c) \in Context
  BY CompleteType DEF Clean
<1> QED
  BY <1>1, <1>2 DEF Clean

\* A task that has expired is done without its fault.
LEMMA CleanDrop ==
  ASSUME NEW c, Clean(c), c.chan = {}
  PROVE  Clean(DropExpired(c)) /\ DropExpired(c).chan = {}
<1> DEFINE gone == c.tasks \cap Expiring \cap c.expired
<1>1. /\ DropExpired(c).done = c.done \cup gone
      /\ DropExpired(c).faulty = c.faulty \ gone
      /\ DropExpired(c).tasks = c.tasks \ gone
      /\ DropExpired(c).chan = {}
  BY DEF Clean, DropExpired, ForgetFaults, Context
<1>2. DropExpired(c) \in Context
  BY DropType DEF Clean
<1> HIDE DEF gone
<1> QED
  BY <1>1, <1>2 DEF Clean

\* A runnable task is neither done nor faulty.
LEMMA CleanStart ==
  ASSUME NEW c, NEW t \in Runnable(c), Clean(c), c.chan = {}
  PROVE  Clean(StartTask(c, t))
<1>1. /\ t \in Task /\ t \in c.tasks /\ t \notin c.faulty /\ t \notin c.done
      /\ c \in Context
  BY DEF Runnable, Clean, Context
<1>2. StartTask(c, t) \in Context
  BY <1>1, StartType
<1>3. CASE t \in InvalidTask
  <2>1. /\ StartTask(c, t).done = c.done \cup {t}
        /\ StartTask(c, t).tasks = c.tasks \ {t}
        /\ StartTask(c, t).faulty = c.faulty
        /\ StartTask(c, t).chan = {}
    BY <1>1, <1>3 DEF StartTask, Context
  <2> QED
    BY <1>1, <1>2, <2>1 DEF Clean
<1>4. CASE t \notin InvalidTask
  <2>1. /\ StartTask(c, t).done = c.done
        /\ StartTask(c, t).tasks = c.tasks
        /\ StartTask(c, t).faulty = c.faulty
        /\ StartTask(c, t).chan = {t}
    BY <1>1, <1>4 DEF StartTask, AddProvisions, Context
  <2> QED
    BY <1>1, <1>2, <2>1 DEF Clean
<1> QED
  BY <1>3, <1>4

\* Channels of presets that probe are no tasks.
LEMMA CleanMark ==
  ASSUME NEW c, NEW chs \in SUBSET Probing, Clean(c)
  PROVE  Clean(MarkProbes(c, chs))
<1>1. chs \subseteq Channel /\ chs \cap Task = {}
  BY TaskAssumption DEF Channel
<1>2. /\ MarkProbes(c, chs).done = c.done
      /\ MarkProbes(c, chs).tasks = c.tasks
      /\ MarkProbes(c, chs).faulty = c.faulty
      /\ MarkProbes(c, chs).chan = c.chan \cup chs
      /\ MarkProbes(c, chs).work = c.work \ chs
  BY DEF Clean, MarkProbes, Context
<1>3. MarkProbes(c, chs) \in Context
  BY <1>1, MarkType DEF Clean
<1>4. c.done \subseteq Task
  BY DEF Clean, Context
<1> QED
  BY <1>1, <1>2, <1>3, <1>4 DEF Clean

\* The batch of applyPresets has channels of presets, or one faulty channel.
LEMMA CleanLoad ==
  ASSUME NEW c, Clean(c), NEW white \in WhiteLists(c),
         NEW match \in SUBSET Eligible(c, white), NEW appended \in SUBSET match
  PROVE  Clean(LoadBatch(c, white, PresetBatch(c, white, match), appended))
<1> DEFINE b == PresetBatch(c, white, match)
           d == LoadBatch(c, white, b, appended)
<1>1. /\ white \subseteq c.faulty /\ white \subseteq Channel
      /\ match \subseteq PresetChannel /\ match \subseteq Channel
  BY DEF WhiteLists, Eligible, Clean, Context, Channel
<1>2. b \subseteq Channel /\ c.done \cap b = {}
  BY <1>1, TaskAssumption DEF PresetBatch, Clean, Context
<1> HIDE DEF b
<1>3. d \in Context
  BY <1>1, <1>2, LoadType DEF Clean
<1>4. /\ d.done = c.done /\ d.tasks = c.tasks /\ d.faulty = c.faulty
      /\ d.chan = b /\ d.work = b
  BY DEF LoadBatch, ClearProvisions, Clean, Context
<1> HIDE DEF d
<1>5. Clean(d)
  BY <1>2, <1>3, <1>4 DEF Clean
<1> QED
  BY <1>5 DEF d, b

(***************************************************************************)
(* The steps.  One session gets a clean context; what the collections hold *)
(* does not matter, beyond its type.                                       *)
(***************************************************************************)
Typed == /\ faults \subseteq Channel /\ timed \subseteq Channel
         /\ tasks \subseteq Task /\ expired \subseteq Task
         /\ operations \subseteq Operation

\* One session moves to a clean context.
LEMMA CleanGo ==
  ASSUME FaultInv, NEW s \in Session, NEW from, NEW to \in Label, NEW c,
         Go(s, from, to, c), Clean(c), to \in BeforeRpcs => Fresh(c), Typed'
  PROVE  FaultInv'
<1>1. /\ pc' = [pc EXCEPT ![s] = to] /\ ctx' = [ctx EXCEPT ![s] = c]
      /\ c \in Context
  BY DEF Go, Clean
<1>2. pc' \in [Session -> Label] /\ ctx' \in [Session -> Context]
  BY <1>1 DEF FaultInv
<1>3. \A r \in Session : Clean(ctx'[r]) /\ (pc'[r] \in BeforeRpcs => Fresh(ctx'[r]))
  <2>1. TAKE r \in Session
  <2>2. CASE r = s
    BY <1>1, <2>2 DEF FaultInv
  <2>3. CASE r # s
    <3>1. ctx'[r] = ctx[r] /\ pc'[r] = pc[r]
      BY <1>1, <2>1, <2>3 DEF FaultInv
    <3> QED
      BY <3>1 DEF FaultInv
  <2> QED
    BY <2>2, <2>3
<1> QED
  BY <1>2, <1>3 DEF FaultInv, Typed

\* One session moves to a clean context, and nothing else changes.
LEMMA CleanLocal ==
  ASSUME FaultInv, NEW s \in Session, NEW from, NEW to \in Label, NEW c,
         Local(s, from, to, c), Clean(c), to \in BeforeRpcs => Fresh(c)
  PROVE  FaultInv'
<1>1. Go(s, from, to, c) /\ Typed'
  BY DEF Local, store, world, FaultInv, Typed
<1> QED
  BY <1>1, CleanGo

\* Writing an answer to the device.
LEMMA CleanWrite ==
  ASSUME FaultInv, NEW s \in Session, NEW from, NEW to \in Label, NEW c,
         WriteResponse(s, from, to, c), UNCHANGED <<store, world>>,
         Clean(c), to \in BeforeRpcs => Fresh(c)
  PROVE  FaultInv'
<1>1. Typed'
  BY DEF store, world, FaultInv, Typed
<1>2. CASE Go(s, from, to, c)
  BY <1>1, <1>2, CleanGo
<1>3. CASE Go(s, from, "lost", NoContext)
  BY <1>1, <1>3, CleanGo, CleanNone DEF Label, BeforeRpcs
<1> QED
  BY <1>2, <1>3 DEF WriteResponse

\* A response that is sent with a clean context.
LEMMA CleanRespond ==
  ASSUME FaultInv, NEW s \in Session, NEW from, NEW to \in Label, NEW c,
         Respond(s, from, to, c), Clean(c), to \in BeforeRpcs => Fresh(c)
  PROVE  FaultInv'
BY CleanWrite DEF Respond

\* The end of a session reached while its presets are applied.
LEMMA CleanClose ==
  ASSUME FaultInv, NEW s \in Session, NEW from, NEW c,
         Close(s, from, c), Clean(c), UNCHANGED <<store, world>>
  PROVE  FaultInv'
<1>1. PICK d : Go(s, from, "saving", EndSession(d)) /\ Clean(d)
  BY CleanClear DEF Close
<1>2. Clean(EndSession(d)) /\ Typed'
  BY <1>1, CleanEnd DEF store, world, FaultInv, Typed
<1> QED
  BY <1>1, <1>2, CleanGo DEF Label, BeforeRpcs

\* The Inform and the reads that follow it.
LEMMA CleanReading ==
  ASSUME FaultInv, NEW s \in Session,
         \/ \E known \in SUBSET Probing : Inform(s, known)
         \/ ReadTasks(s)
         \/ \E due \in SUBSET faults : ReadFaults(s, due)
         \/ ReadOperations(s)
  PROVE  FaultInv'
<1>1. ASSUME NEW known \in SUBSET Probing, Inform(s, known)
      PROVE  FaultInv'
  <2> DEFINE c == [NoContext EXCEPT !.tasks = tasks, !.expired = expired,
                                    !.fetched = known, !.toRead = {"tasks", "faults", "operations"}]
  <2>1. tasks \subseteq Task /\ expired \subseteq Task /\ known \subseteq Channel
    BY TaskAssumption DEF FaultInv, Channel
  <2>2. c \in Context /\ Fresh(c)
    BY <2>1, NoContextType DEF Context, Fresh, NoContext
  <2>3. Clean(c)
    BY <2>2 DEF Clean, Fresh
  <2> HIDE DEF c
  <2> QED
    BY <1>1, <2>2, <2>3, CleanLocal DEF Inform, Label, c
<1>2. CASE ReadTasks(s)
  <2> DEFINE c == ctx[s]
             d == [c EXCEPT !.tasks = @ \cap tasks, !.toRead = @ \ {"tasks"}]
  <2>1. Local(s, "reading", "reading", d) /\ Clean(c) /\ Fresh(c)
    BY <1>2 DEF ReadTasks, Local, Go, FaultInv, BeforeRpcs
  <2> HIDE DEF c
  <2>2. d \in Context /\ Fresh(d)
    BY <2>1 DEF Clean, Context, Fresh
  <2> HIDE DEF d
  <2>3. Clean(d)
    BY <2>2 DEF Clean, Fresh
  <2> QED
    BY <2>1, <2>2, <2>3, CleanLocal DEF Label
<1>3. ASSUME NEW due \in SUBSET faults, ReadFaults(s, due)
      PROVE  FaultInv'
  <2> DEFINE c == ctx[s]
             drop == DiscardedFaults(c)
             keep == faults \ drop
             d == [c EXCEPT !.faulty = keep, !.due = due,
                            !.timed = timed \cap keep, !.retried = keep,
                            !.touched = drop, !.toRead = @ \ {"faults"}]
  <2>1. Local(s, "reading", "reading", d) /\ Clean(c) /\ Fresh(c)
    BY <1>3 DEF ReadFaults, Local, Go, FaultInv, BeforeRpcs
  <2>2. /\ drop \subseteq Channel /\ keep \subseteq Channel /\ due \subseteq Channel
        /\ timed \cap keep \subseteq Channel
    BY DEF FaultInv, DiscardedFaults
  <2> HIDE DEF c, drop, keep
  <2>3. d \in Context /\ Fresh(d)
    BY <2>1, <2>2 DEF Clean, Context, Fresh
  <2> HIDE DEF d
  <2>4. Clean(d)
    BY <2>3 DEF Clean, Fresh
  <2> QED
    BY <2>1, <2>3, <2>4, CleanLocal DEF Label
<1>4. CASE ReadOperations(s)
  <2> DEFINE c == ctx[s]
             d == [c EXCEPT !.ops = operations, !.toRead = @ \ {"operations"}]
  <2>1. /\ Local(s, "reading", "reading", d) /\ Clean(c) /\ Fresh(c)
        /\ operations \subseteq Operation
    BY <1>4 DEF ReadOperations, Local, Go, FaultInv, BeforeRpcs
  <2> HIDE DEF c
  <2>2. d \in Context /\ Fresh(d)
    BY <2>1 DEF Clean, Context, Fresh
  <2> HIDE DEF d
  <2>3. Clean(d)
    BY <2>2 DEF Clean, Fresh
  <2> QED
    BY <2>1, <2>2, <2>3, CleanLocal DEF Label
<1> QED
  BY <1>1, <1>2, <1>3, <1>4

\* nextRpc, when no batch is loaded.
LEMMA CleanNextTask ==
  ASSUME FaultInv, NEW s \in Session, NextTask(s)
  PROVE  FaultInv'
<1> DEFINE c == DropExpired(CompleteBatch(ctx[s]))
<1>1. Clean(c) /\ c.chan = {}
  BY CleanComplete, CleanDrop DEF FaultInv
<1>2. Typed'
  BY DEF NextTask, store, world, FaultInv, Typed
<1>3. CASE Go(s, "next", "presets", c)
  BY <1>1, <1>2, <1>3, CleanGo DEF Label, BeforeRpcs
<1>4. ASSUME NEW t \in Oldest(Runnable(c)), Go(s, "next", "next", StartTask(c, t))
      PROVE  FaultInv'
  <2>1. Clean(StartTask(c, t))
    BY <1>1, CleanStart DEF Oldest
  <2> QED
    BY <1>2, <1>4, <2>1, CleanGo DEF Label, BeforeRpcs
<1> QED
  BY <1>3, <1>4 DEF NextTask

\* applyPresets, when its conditions ask for parameters.
LEMMA CleanProbe ==
  ASSUME FaultInv, NEW s \in Session, Probe(s)
  PROVE  FaultInv'
<1>1. PICK chs \in SUBSET Probing :
        \/ ProbeFault(s, MarkProbes(ctx[s], chs))
        \/ ProbeSend(s, MarkProbes(ctx[s], chs))
  BY DEF Probe
<1>2. Clean(MarkProbes(ctx[s], chs))
  BY CleanMark DEF FaultInv
<1>3. CASE ProbeFault(s, MarkProbes(ctx[s], chs))
  BY <1>2, <1>3, CleanRecord, CleanLocal DEF ProbeFault, Label, BeforeRpcs
<1>4. CASE ProbeSend(s, MarkProbes(ctx[s], chs))
  BY <1>2, <1>4, CleanRespond DEF ProbeSend, Label, BeforeRpcs
<1> QED
  BY <1>1, <1>3, <1>4

\* applyPresets with its conditions decided, and a batch made of them.
LEMMA CleanBatch ==
  ASSUME FaultInv, NEW s \in Session, NEW white, NEW c, Clean(c),
         PresetLoop(s, c) \/ PresetFault(s, c) \/ PresetSend(s, c)
           \/ PresetDone(s, white, c)
  PROVE  FaultInv'
<1>1. CASE PresetLoop(s, c)
  <2>1. CASE Close(s, "presets", RecordFault(c)) /\ UNCHANGED <<store, world>>
    BY <2>1, CleanRecord, CleanClose
  <2>2. CASE Local(s, "presets", "lost", NoContext)
    BY <2>2, CleanNone, CleanLocal DEF Label, BeforeRpcs
  <2> QED
    BY <1>1, <2>1, <2>2 DEF PresetLoop
<1>2. CASE PresetFault(s, c)
  BY <1>2, CleanRecord, CleanLocal DEF PresetFault, Label, BeforeRpcs
<1>3. CASE PresetSend(s, c)
  BY <1>3, CleanRespond DEF PresetSend, Label, BeforeRpcs
<1>4. CASE PresetDone(s, white, c)
  <2> DEFINE d == ForgetFaults(c, c.chan)
  <2>1. Clean(d) /\ UNCHANGED <<store, world>>
    BY <1>4, CleanForget DEF PresetDone
  <2>2. CASE Go(s, "presets", "presets", d)
    <3>1. Typed'
      BY <2>1 DEF store, world, FaultInv, Typed
    <3> QED
      BY <2>1, <2>2, <3>1, CleanGo DEF Label, BeforeRpcs
  <2>3. CASE Close(s, "presets", d)
    BY <2>1, <2>3, CleanClose
  <2> QED
    BY <1>4, <2>2, <2>3 DEF PresetDone
<1> QED
  BY <1>1, <1>2, <1>3, <1>4

\* applyPresets with its conditions decided.
LEMMA CleanApply ==
  ASSUME FaultInv, NEW s \in Session, ApplyPresets(s)
  PROVE  FaultInv'
<1>1. PICK white \in WhiteLists(ctx[s]) :
        \E match \in SUBSET Eligible(ctx[s], white) :
          \E appended \in SUBSET match : ApplyBatch(s, white, match, appended)
  BY DEF ApplyPresets
<1>2. PICK match \in SUBSET Eligible(ctx[s], white) :
        \E appended \in SUBSET match : ApplyBatch(s, white, match, appended)
  BY <1>1
<1>3. PICK appended \in SUBSET match : ApplyBatch(s, white, match, appended)
  BY <1>2
<1>4. Clean(LoadBatch(ctx[s], white, PresetBatch(ctx[s], white, match), appended))
  BY CleanLoad DEF FaultInv
<1> QED
  BY <1>3, <1>4, CleanBatch DEF ApplyBatch

\* The writes of endSession change only what remains to be written.
LEMMA CleanSaving ==
  ASSUME FaultInv, NEW s \in Session,
         \/ SaveDevice(s) \/ ClearTasks(s)
         \/ \E ch \in Channel : SaveFault(s, ch)
         \/ \E k \in Key : SaveOperation(s, k)
  PROVE  FaultInv'
<1> DEFINE c == ctx[s]
<1>1. Clean(c)
  BY DEF FaultInv
<1>2. Typed'
  BY <1>1 DEF SaveDevice, ClearTasks, SaveFault, SaveOperation, Local, store, world,
              FaultInv, Typed, Clean, Context
<1>3. PICK d : /\ Go(s, "saving", "saving", d)
               /\ \/ \E w : d = [c EXCEPT !.toWrite = @ \ {w}]
                  \/ \E ch : d = [c EXCEPT !.toSave = @ \ {ch}]
                  \/ \E k : d = [c EXCEPT !.opsTouched = @ \ {k}]
  BY DEF SaveDevice, ClearTasks, SaveFault, SaveOperation, Local
<1> HIDE DEF c
<1>4. /\ d \in Context
      /\ d.done = c.done /\ d.faulty = c.faulty /\ d.tasks = c.tasks
      /\ d.chan = c.chan /\ d.work = c.work
  BY <1>1, <1>3 DEF Clean, Context
<1>5. Clean(d)
  BY <1>1, <1>4 DEF Clean
<1> QED
  BY <1>2, <1>3, <1>5, CleanGo DEF Label, BeforeRpcs

\* What the CPE does next, and what the session makes of the operations.
LEMMA CleanCpe ==
  ASSUME FaultInv, NEW s \in Session,
         \/ Cpe(s) \/ CpeRequest(s) \/ StartRpcs(s)
         \/ \E op \in ctx[s].ops : TransferComplete(s, op) \/ TimeoutOperation(s, op)
  PROVE  FaultInv'
<1>1. Clean(ctx[s]) /\ (pc[s] \in BeforeRpcs => Fresh(ctx[s]))
  BY DEF FaultInv
<1>2. CASE EmptyRequest(s)
  BY <1>1, <1>2, CleanLocal DEF EmptyRequest, Local, Go, Label, BeforeRpcs
<1>3. CASE CpeResponse(s)
  BY <1>1, <1>3, CleanAnswered, CleanLocal DEF CpeResponse, Label, BeforeRpcs
<1>4. CASE CpeFault(s)
  BY <1>1, <1>4, CleanRecord, CleanLocal DEF CpeFault, Label, BeforeRpcs
<1>5. CASE Terminate(s)
  <2>1. PICK from : Go(s, from, "saving", EndSession(ctx[s]))
    BY <1>5 DEF Terminate
  <2>2. Typed'
    BY <1>5 DEF Terminate, store, world, FaultInv, Typed
  <2> QED
    BY <1>1, <2>1, <2>2, CleanEnd, CleanGo DEF Label, BeforeRpcs
<1>6. CASE CpeRequest(s)
  <2>1. pc[s] = "locked"
    BY <1>6 DEF CpeRequest, Respond, WriteResponse, Go
  <2> QED
    BY <1>1, <1>6, <2>1, CleanRespond DEF CpeRequest, Label, BeforeRpcs
<1>7. CASE StartRpcs(s)
  BY <1>1, <1>7, CleanLocal DEF StartRpcs, Label, BeforeRpcs
<1>8. ASSUME NEW k \in Key, BeginDownload(s, k)
      PROVE  FaultInv'
  BY <1>1, <1>8, CleanAnswered, CleanLocal DEF BeginDownload, Label, BeforeRpcs
<1>9. ASSUME NEW op \in ctx[s].ops, TransferComplete(s, op)
      PROVE  FaultInv'
  <2>1. pc[s] = "locked" /\ UNCHANGED <<store, world>>
    BY <1>9 DEF TransferComplete, WriteResponse, Go
  <2>2. Fresh(ctx[s])
    BY <1>1, <2>1 DEF BeforeRpcs
  <2>3. \/ WriteResponse(s, "locked", "locked", ForgetOperation(ctx[s], op))
        \/ WriteResponse(s, "locked", "locked", OperationFault(ctx[s], op))
    BY <1>9 DEF TransferComplete
  <2> QED
    BY <1>1, <2>1, <2>2, <2>3, CleanOperation, CleanWrite DEF Label
<1>10. ASSUME NEW op \in ctx[s].ops, TimeoutOperation(s, op)
       PROVE  FaultInv'
  <2>1. /\ Go(s, "empty", "empty", OperationFault(ctx[s], op)) /\ pc[s] = "empty"
        /\ UNCHANGED <<store, world>>
    BY <1>10 DEF TimeoutOperation, Go
  <2>2. Fresh(ctx[s]) /\ Typed'
    BY <1>1, <2>1 DEF BeforeRpcs, store, world, FaultInv, Typed
  <2> QED
    BY <1>1, <2>1, <2>2, CleanOperation, CleanGo DEF Label
<1> QED
  BY <1>2, <1>3, <1>4, <1>5, <1>6, <1>7, <1>8, <1>9, <1>10 DEF Cpe

\* The steps around the lock, and those that end or lose a session.
LEMMA CleanLoss ==
  ASSUME FaultInv, NEW s \in Session,
         \/ Lock(s) \/ Refuse(s) \/ Unauthorized(s) \/ Release(s) \/ LockExpired(s)
         \/ Crash(s) \/ Stall(s) \/ ExpireLock(s)
  PROVE  FaultInv'
<1>1. Typed'
  BY DEF Lock, Refuse, Unauthorized, Release, LockExpired, Crash, Stall, ExpireLock,
         Local, store, world, FaultInv, Typed
<1>2. CASE Lock(s)
  <2>1. Go(s, "reading", "locked", ctx[s]) /\ pc[s] = "reading"
    BY <1>2 DEF Lock, Go
  <2>2. Clean(ctx[s]) /\ Fresh(ctx[s])
    BY <2>1 DEF FaultInv, BeforeRpcs
  <2> QED
    BY <1>1, <2>1, <2>2, CleanGo DEF Label
<1>3. CASE Stall(s)
  BY <1>3 DEF Stall, store, world, FaultInv
<1>4. CASE \/ Refuse(s) \/ Unauthorized(s) \/ Release(s) \/ LockExpired(s)
           \/ Crash(s) \/ ExpireLock(s)
  <2>1. PICK to \in {"idle", "lost"} : \E from : Go(s, from, to, NoContext)
    BY <1>4 DEF Refuse, Unauthorized, Release, LockExpired, Crash, ExpireLock, Local
  <2>2. PICK from : Go(s, from, to, NoContext)
    BY <2>1
  <2> QED
    BY <1>1, <2>2, CleanNone, CleanGo DEF Label, BeforeRpcs
<1> QED
  BY <1>2, <1>3, <1>4

\* FaultInv holds at first.
LEMMA FaultInvInit == Init => FaultInv
BY CleanNone, NoContextType DEF Init, FaultInv, Label, BeforeRpcs

\* Every step keeps FaultInv.
LEMMA FaultInvNext == FaultInv /\ [Next]_vars => FaultInv'
<1> SUFFICES ASSUME FaultInv, [Next]_vars PROVE FaultInv'
  OBVIOUS
<1>1. ASSUME NEW t \in Task, InsertTask(t) \/ PassExpiry(t)
      PROVE  FaultInv'
  BY <1>1, TaskAssumption DEF InsertTask, PassExpiry, store, bounds, FaultInv
<1>2. CASE UNCHANGED vars
  BY <1>2 DEF vars, FaultInv
<1>3. ASSUME NEW s \in Session, SessionNext(s)
      PROVE  FaultInv'
  <2>1. Clean(ctx[s])
    BY DEF FaultInv
  <2>2. CASE NextFault(s)
    BY <2>1, <2>2, CleanRecord, CleanLocal DEF NextFault, Label, BeforeRpcs
  <2>3. CASE NextSend(s)
    BY <2>1, <2>3, CleanRespond DEF NextSend, Label, BeforeRpcs
  <2> QED
    BY <1>3, <2>2, <2>3, CleanReading, CleanNextTask, CleanProbe, CleanApply,
       CleanSaving, CleanCpe, CleanLoss DEF SessionNext, Handler
<1> QED
  BY <1>1, <1>2, <1>3 DEF Next

\* A session never marks a task done and leaves a fault on it.
THEOREM DoneIsClean == Spec => []DoneHasNoFault
<1>1. FaultInv => DoneHasNoFault
  BY DEF FaultInv, Clean, DoneHasNoFault
<1> QED
  BY <1>1, FaultInvInit, FaultInvNext, PTL DEF Spec

(***************************************************************************)
(* NoOrphanFault.  What a session is to write agrees with the collections  *)
(* it is to write to: every task it knows of is queued, or its download    *)
(* has failed since it was done; and a fault document it will not touch is *)
(* one of a channel it holds to be faulty.  Only then do clearTasks and    *)
(* the writes of the touched faults, in any order, leave no fault without  *)
(* its task but those of failed downloads.                                 *)
(***************************************************************************)
\* Tasks that may have a fault.
Known == tasks \cup failed

\* What the context knows of tasks and faults, against the collections.
Accounts(c, ts, fs) ==
  /\ (c.faulty \cup c.chan \cup c.tasks) \cap Task \subseteq ts
  /\ fs \ c.touched \subseteq c.faulty

\* A session whose context has all the faults.
HasRead(s) ==
  \/ pc[s] = "reading" /\ "faults" \notin ctx[s].toRead
  \/ pc[s] \in {"locked", "empty", "next", "presets", "wait"}

Accounted(s) ==
  /\ pc[s] # "saving" => faults \cap Task \subseteq Known
  /\ (ctx[s].faulty \cup ctx[s].chan \cup ctx[s].tasks) \cap Task \subseteq Known
  /\ HasRead(s) => Accounts(ctx[s], Known, faults)
  /\ pc[s] = "saving" => faults \ ctx[s].toSave \subseteq ctx[s].faulty

OrphanInv ==
  /\ crashes \in Nat
  /\ Alone /\ crashes = 0 => \A s \in Session : Accounted(s)

(***************************************************************************)
(* The functions on a context keep the accounts.                           *)
(***************************************************************************)
\* clearProvisions, and faults that are forgotten, which are touched.
LEMMA AccountClear ==
  ASSUME NEW c \in Context, NEW ts, NEW fs, Accounts(c, ts, fs)
  PROVE  /\ Accounts(ClearProvisions(c), ts, fs)
         /\ \A chs : Accounts(ForgetFaults(c, chs), ts, fs)
<1>1. Accounts(ClearProvisions(c), ts, fs)
  BY ClearFields DEF Accounts
<1>2. ASSUME NEW chs PROVE Accounts(ForgetFaults(c, chs), ts, fs)
  BY ForgetFields DEF Accounts
<1> QED
  BY <1>1, <1>2

\* The channels that are blamed are presets or queued tasks.
LEMMA AccountRecord ==
  ASSUME NEW c \in Context, NEW ts, NEW fs, Accounts(c, ts, fs)
  PROVE  Accounts(RecordFault(c), ts, fs)
BY RecordFields DEF Accounts

\* The completion of a batch, and the tasks that have expired.
LEMMA AccountComplete ==
  ASSUME NEW c \in Context, NEW ts, NEW fs, Accounts(c, ts, fs)
  PROVE  Accounts(DropExpired(CompleteBatch(c)), ts, fs)
<1> DEFINE d == CompleteBatch(c)
<1>1. d \in Context
  BY CompleteType
<1>2. Accounts(d, ts, fs)
  BY CompleteFields DEF Accounts
<1> HIDE DEF d
<1>3. Accounts(DropExpired(d), ts, fs)
  BY <1>1, <1>2, DropFields DEF Accounts
<1> QED
  BY <1>3 DEF d

\* The task that is started is queued.
LEMMA AccountStart ==
  ASSUME NEW c \in Context, NEW t \in Runnable(c), NEW ts, NEW fs, Accounts(c, ts, fs)
  PROVE  Accounts(StartTask(c, t), ts, fs)
BY StartFields DEF Accounts, Runnable

\* Channels of presets that probe are no tasks.
LEMMA AccountMark ==
  ASSUME NEW c \in Context, NEW chs \in SUBSET Probing, NEW ts, NEW fs, Accounts(c, ts, fs)
  PROVE  Accounts(MarkProbes(c, chs), ts, fs)
<1>1. chs \cap Task = {}
  BY TaskAssumption
<1> QED
  BY <1>1, MarkFields DEF Accounts

\* A task is retried only when it is faulty.
LEMMA AccountLoad ==
  ASSUME NEW c \in Context, NEW ts, NEW fs, Accounts(c, ts, fs),
         NEW white \in WhiteLists(c),
         NEW match \in SUBSET Eligible(c, white), NEW appended \in SUBSET match
  PROVE  Accounts(LoadBatch(c, white, PresetBatch(c, white, match), appended), ts, fs)
<1> DEFINE b == PresetBatch(c, white, match)
<1>1. white \subseteq c.faulty /\ match \subseteq PresetChannel
  BY DEF WhiteLists, Eligible
<1>2. b \cap Task \subseteq c.faulty
  BY <1>1, TaskAssumption DEF PresetBatch
<1> HIDE DEF b
<1>3. Accounts(LoadBatch(c, white, b, appended), ts, fs)
  BY <1>2, LoadFields DEF Accounts
<1> QED
  BY <1>3 DEF b

(***************************************************************************)
(* The steps of the session that is alone, but for its crash.              *)
(***************************************************************************)
\* The context moves and keeps the accounts; the collections stay.
LEMMA AccountMove ==
  ASSUME FaultInv, NEW s \in Session, NEW from, NEW to, NEW c,
         Go(s, from, to, c), UNCHANGED store, failed \subseteq failed',
         from # "saving", to # "saving", Accounted(s), Accounts(c, Known', faults)
  PROVE  Accounted(s)'
<1>1. pc[s] = from /\ pc'[s] = to /\ ctx'[s] = c
  BY DEF Go, FaultInv
<1>2. faults' = faults /\ Known \subseteq Known'
  BY DEF store, Known
<1> QED
  BY <1>1, <1>2 DEF Accounted, Accounts

\* A session that goes on, with a context that agrees with the collections.
LEMMA AccountGo ==
  ASSUME FaultInv, NEW s \in Session, NEW from, NEW to, NEW c,
         Go(s, from, to, c), UNCHANGED <<store, failed>>,
         from # "saving", to # "saving", Accounted(s), Accounts(c, Known, faults)
  PROVE  Accounted(s)'
<1>1. Known' = Known /\ failed' = failed
  BY DEF store, Known
<1> QED
  BY <1>1, AccountMove

\* The context is given up while nothing is half written.
LEMMA AccountNone ==
  ASSUME FaultInv, NEW s \in Session, NEW from, NEW to \in {"idle", "lost"},
         Go(s, from, to, NoContext), UNCHANGED store, failed \subseteq failed',
         from # "saving", Accounted(s)
  PROVE  Accounted(s)'
<1>1. pc[s] = from /\ pc'[s] = to /\ ctx'[s] = NoContext
  BY DEF Go, FaultInv
<1>2. faults' = faults /\ Known \subseteq Known'
  BY DEF store, Known
<1> QED
  BY <1>1, <1>2 DEF Accounted, HasRead, NoContext

\* The session ends: what it touched is to be written.
LEMMA AccountEnd ==
  ASSUME FaultInv, NEW s \in Session, NEW from, NEW c \in Context,
         Go(s, from, "saving", EndSession(c)), UNCHANGED <<store, failed>>,
         Accounted(s), Accounts(c, Known, faults)
  PROVE  Accounted(s)'
<1> DEFINE d == IF c.provs THEN RecordFault(c) ELSE c
           e == EndSession(c)
<1>1. Accounts(d, Known, faults)
  BY AccountRecord
<1>2. e.faulty = d.faulty /\ e.toSave = d.touched /\ e.tasks = {} /\ e.chan = {}
  BY EndFields
<1>3. pc'[s] = "saving" /\ ctx'[s] = e
  BY DEF Go, FaultInv
<1>4. Known' = Known /\ faults' = faults
  BY DEF store, Known
<1> HIDE DEF d, e
<1> QED
  BY <1>1, <1>2, <1>3, <1>4 DEF Accounted, Accounts, HasRead

\* Writing an answer to the device.
LEMMA AccountWrite ==
  ASSUME FaultInv, NEW s \in Session, NEW from, NEW to, NEW c,
         WriteResponse(s, from, to, c), UNCHANGED store, failed \subseteq failed',
         from # "saving", to # "saving", Accounted(s), Accounts(c, Known', faults)
  PROVE  Accounted(s)'
<1>1. CASE Go(s, from, to, c)
  BY <1>1, AccountMove
<1>2. CASE Go(s, from, "lost", NoContext)
  BY <1>2, AccountNone
<1> QED
  BY <1>1, <1>2 DEF WriteResponse

\* A response, with a context that agrees with the collections.
LEMMA AccountRespond ==
  ASSUME FaultInv, NEW s \in Session, NEW from, NEW to, NEW c,
         Respond(s, from, to, c),
         from # "saving", to # "saving", Accounted(s), Accounts(c, Known, faults)
  PROVE  Accounted(s)'
<1>1. UNCHANGED store /\ failed' = failed /\ Known' = Known
  BY DEF Respond, store, past, Known
<1> QED
  BY <1>1, AccountWrite DEF Respond

\* The end of a session reached while its presets are applied.
LEMMA AccountClose ==
  ASSUME FaultInv, NEW s \in Session, NEW from, NEW c \in Context,
         Close(s, from, c), UNCHANGED <<store, failed>>,
         Accounted(s), Accounts(c, Known, faults)
  PROVE  Accounted(s)'
<1>1. PICK d \in Context : Go(s, from, "saving", EndSession(d)) /\ Accounts(d, Known, faults)
  BY AccountClear, ClearType DEF Close
<1> QED
  BY <1>1, AccountEnd

\* The Inform and the reads that follow it.
LEMMA AccountReading ==
  ASSUME FaultInv, NEW s \in Session, Accounted(s),
         \/ \E known \in SUBSET Probing : Inform(s, known)
         \/ ReadTasks(s)
         \/ \E due \in SUBSET faults : ReadFaults(s, due)
         \/ ReadOperations(s)
  PROVE  Accounted(s)'
<1> DEFINE c == ctx[s]
<1>1. c \in Context /\ (pc[s] = "reading" => Fresh(c))
  BY DEF FaultInv, BeforeRpcs
<1>2. ASSUME NEW known \in SUBSET Probing, Inform(s, known)
      PROVE  Accounted(s)'
  <2> DEFINE d == [NoContext EXCEPT !.tasks = tasks, !.expired = expired,
                                    !.fetched = known, !.toRead = {"tasks", "faults", "operations"}]
  <2>1. /\ pc[s] = "idle" /\ pc'[s] = "reading" /\ ctx'[s] = d
        /\ Known' = Known /\ faults' = faults
    BY <1>2 DEF Inform, Local, Go, store, past, Known, FaultInv
  <2>2. /\ d.faulty = {} /\ d.chan = {} /\ d.tasks \subseteq Known
        /\ d.toRead = {"tasks", "faults", "operations"}
    BY DEF NoContext, Known
  <2> HIDE DEF d
  <2> QED
    BY <2>1, <2>2 DEF Accounted, HasRead
<1>3. CASE ReadTasks(s)
  <2> DEFINE d == [c EXCEPT !.tasks = @ \cap tasks, !.toRead = @ \ {"tasks"}]
  <2>1. /\ pc[s] = "reading" /\ pc'[s] = "reading" /\ ctx'[s] = d
        /\ Known' = Known /\ faults' = faults
    BY <1>3 DEF ReadTasks, Local, Go, store, past, Known, FaultInv
  <2>2. Accounted(s) <=> /\ pc[s] # "saving" => faults \cap Task \subseteq Known
                         /\ (c.faulty \cup c.chan \cup c.tasks) \cap Task \subseteq Known
                         /\ HasRead(s) => Accounts(c, Known, faults)
                         /\ pc[s] = "saving" => faults \ c.toSave \subseteq c.faulty
    BY DEF Accounted
  <2>3. HasRead(s) <=> "faults" \notin c.toRead
    BY <2>1 DEF HasRead
  <2> HIDE DEF c
  <2>4. /\ d.faulty = c.faulty /\ d.chan = c.chan /\ d.touched = c.touched
        /\ d.tasks \subseteq c.tasks
        /\ d.toRead = c.toRead \ {"tasks"}
    BY <1>1 DEF Context
  <2> HIDE DEF d
  <2> QED
    BY <2>1, <2>2, <2>3, <2>4 DEF Accounted, HasRead, Accounts
<1>4. ASSUME NEW due \in SUBSET faults, ReadFaults(s, due)
      PROVE  Accounted(s)'
  <2> DEFINE drop == DiscardedFaults(c)
             keep == faults \ drop
             d == [c EXCEPT !.faulty = keep, !.due = due,
                            !.timed = timed \cap keep, !.retried = keep,
                            !.touched = drop, !.toRead = @ \ {"faults"}]
  <2>1. /\ pc[s] = "reading" /\ pc'[s] = "reading" /\ ctx'[s] = d
        /\ Known' = Known /\ faults' = faults
    BY <1>4 DEF ReadFaults, Local, Go, store, past, Known, FaultInv
  <2>2. (c.faulty \cup c.chan \cup c.tasks) \cap Task \subseteq Known
    BY DEF Accounted
  <2>3. faults \cap Task \subseteq Known
    BY <2>1 DEF Accounted
  <2> HIDE DEF c, drop
  <2>4. /\ d.faulty = faults \ drop /\ d.chan = c.chan /\ d.touched = drop
        /\ d.tasks = c.tasks
    BY <1>1 DEF Context
  <2> HIDE DEF d
  <2>5. Accounts(d, Known, faults)
    BY <2>2, <2>3, <2>4 DEF Accounts
  <2> QED
    BY <2>1, <2>3, <2>5 DEF Accounted, Accounts
<1>5. CASE ReadOperations(s)
  <2> DEFINE d == [c EXCEPT !.ops = operations, !.toRead = @ \ {"operations"}]
  <2>1. /\ pc[s] = "reading" /\ pc'[s] = "reading" /\ ctx'[s] = d
        /\ Known' = Known /\ faults' = faults
    BY <1>5 DEF ReadOperations, Local, Go, store, past, Known, FaultInv
  <2>2. Accounted(s) <=> /\ pc[s] # "saving" => faults \cap Task \subseteq Known
                         /\ (c.faulty \cup c.chan \cup c.tasks) \cap Task \subseteq Known
                         /\ HasRead(s) => Accounts(c, Known, faults)
                         /\ pc[s] = "saving" => faults \ c.toSave \subseteq c.faulty
    BY DEF Accounted
  <2>3. HasRead(s) <=> "faults" \notin c.toRead
    BY <2>1 DEF HasRead
  <2> HIDE DEF c
  <2>4. /\ d.faulty = c.faulty /\ d.chan = c.chan /\ d.touched = c.touched
        /\ d.tasks = c.tasks
        /\ d.toRead = c.toRead \ {"operations"}
    BY <1>1 DEF Context
  <2> HIDE DEF d
  <2> QED
    BY <2>1, <2>2, <2>3, <2>4 DEF Accounted, HasRead, Accounts
<1> QED
  BY <1>2, <1>3, <1>4, <1>5

\* nextRpc, when no batch is loaded.
LEMMA AccountNextTask ==
  ASSUME FaultInv, NEW s \in Session, Accounted(s), NextTask(s)
  PROVE  Accounted(s)'
<1> DEFINE c == DropExpired(CompleteBatch(ctx[s]))
<1>1. ctx[s] \in Context /\ Accounts(ctx[s], Known, faults)
  BY DEF NextTask, Go, FaultInv, Accounted, HasRead
<1>2. c \in Context /\ Accounts(c, Known, faults)
  BY <1>1, AccountComplete, CompleteType, DropType
<1>3. UNCHANGED <<store, failed>>
  BY DEF NextTask
<1>4. CASE Go(s, "next", "presets", c)
  BY <1>2, <1>3, <1>4, AccountGo
<1>5. ASSUME NEW t \in Oldest(Runnable(c)), Go(s, "next", "next", StartTask(c, t))
      PROVE  Accounted(s)'
  <2>1. Accounts(StartTask(c, t), Known, faults)
    BY <1>2, AccountStart DEF Oldest
  <2> QED
    BY <1>3, <1>5, <2>1, AccountGo
<1> QED
  BY <1>4, <1>5 DEF NextTask

\* applyPresets, when its conditions ask for parameters.
LEMMA AccountProbe ==
  ASSUME FaultInv, NEW s \in Session, Accounted(s), Probe(s)
  PROVE  Accounted(s)'
<1>1. PICK chs \in SUBSET Probing :
        \/ ProbeFault(s, MarkProbes(ctx[s], chs))
        \/ ProbeSend(s, MarkProbes(ctx[s], chs))
  BY DEF Probe
<1> DEFINE c == MarkProbes(ctx[s], chs)
<1>2. pc[s] = "presets"
  BY <1>1 DEF ProbeFault, ProbeSend, Respond, WriteResponse, Local, Go
<1>3. ctx[s] \in Context /\ Accounts(ctx[s], Known, faults)
  BY <1>2 DEF FaultInv, Accounted, HasRead
<1>4. c \in Context /\ Accounts(c, Known, faults)
  <2>1. chs \in SUBSET Channel
    BY TaskAssumption DEF Channel
  <2> QED
    BY <1>3, <2>1, AccountMark, MarkType
<1> HIDE DEF c
<1>5. CASE ProbeFault(s, c)
  BY <1>4, <1>5, AccountRecord, AccountGo DEF ProbeFault, Local, past
<1>6. CASE ProbeSend(s, c)
  BY <1>4, <1>6, AccountRespond DEF ProbeSend
<1> QED
  BY <1>1, <1>5, <1>6 DEF c

\* applyPresets with its conditions decided.
LEMMA AccountApply ==
  ASSUME FaultInv, NEW s \in Session, Accounted(s), ApplyPresets(s)
  PROVE  Accounted(s)'
<1>1. PICK white \in WhiteLists(ctx[s]) :
        \E match \in SUBSET Eligible(ctx[s], white) :
          \E appended \in SUBSET match : ApplyBatch(s, white, match, appended)
  BY DEF ApplyPresets
<1>2. PICK match \in SUBSET Eligible(ctx[s], white) :
        \E appended \in SUBSET match : ApplyBatch(s, white, match, appended)
  BY <1>1
<1>3. PICK appended \in SUBSET match : ApplyBatch(s, white, match, appended)
  BY <1>2
<1> DEFINE c == LoadBatch(ctx[s], white, PresetBatch(ctx[s], white, match), appended)
<1>4. PresetLoop(s, c) \/ PresetFault(s, c) \/ PresetSend(s, c) \/ PresetDone(s, white, c)
  BY <1>3 DEF ApplyBatch
<1>5. pc[s] = "presets"
  BY <1>4 DEF PresetLoop, PresetFault, PresetSend, PresetDone, Close, Respond,
                 WriteResponse, Local, Go
<1>6. Clean(ctx[s]) /\ ctx[s] \in Context /\ Accounts(ctx[s], Known, faults)
  BY <1>5 DEF FaultInv, Accounted, HasRead
<1>7. c \in Context /\ Accounts(c, Known, faults)
  <2>1. Clean(c)
    BY <1>6, CleanLoad
  <2>2. Accounts(c, Known, faults)
    BY <1>6, AccountLoad
  <2> QED
    BY <2>1, <2>2 DEF Clean
<1> HIDE DEF c
<1>8. CASE PresetLoop(s, c)
  <2>1. CASE Close(s, "presets", RecordFault(c)) /\ UNCHANGED <<store, failed>>
    BY <1>7, <2>1, AccountRecord, RecordType, AccountClose
  <2>2. CASE Local(s, "presets", "lost", NoContext)
    <3>1. UNCHANGED store /\ failed' = failed
      BY <2>2 DEF Local, past
    <3> QED
      BY <2>2, <3>1, AccountNone DEF Local
  <2> QED
    BY <1>8, <2>1, <2>2 DEF PresetLoop, past
<1>9. CASE PresetFault(s, c)
  BY <1>7, <1>9, AccountRecord, AccountGo DEF PresetFault, Local, past
<1>10. CASE PresetSend(s, c)
  BY <1>7, <1>10, AccountRespond DEF PresetSend
<1>11. CASE PresetDone(s, white, c)
  <2> DEFINE d == ForgetFaults(c, c.chan)
  <2>1. d \in Context /\ Accounts(d, Known, faults) /\ UNCHANGED <<store, failed>>
    BY <1>7, <1>11, AccountClear, ForgetType DEF PresetDone
  <2>2. CASE Go(s, "presets", "presets", d)
    BY <2>1, <2>2, AccountGo
  <2>3. CASE Close(s, "presets", d)
    BY <2>1, <2>3, AccountClose
  <2> QED
    BY <1>11, <2>2, <2>3 DEF PresetDone
<1> QED
  BY <1>4, <1>8, <1>9, <1>10, <1>11

\* The writes of endSession, in any order.
LEMMA AccountSaving ==
  ASSUME FaultInv, NEW s \in Session, Accounted(s),
         \/ SaveDevice(s) \/ ClearTasks(s)
         \/ \E ch \in Channel : SaveFault(s, ch)
         \/ \E k \in Key : SaveOperation(s, k)
  PROVE  Accounted(s)'
<1> DEFINE c == ctx[s]
<1>1. /\ c \in Context /\ Clean(c) /\ failed' = failed
      /\ pc[s] = "saving" /\ pc'[s] = "saving"
  BY DEF SaveDevice, ClearTasks, SaveFault, SaveOperation, Local, Go, past, FaultInv, Clean
<1>2. /\ (c.faulty \cup c.chan \cup c.tasks) \cap Task \subseteq Known
      /\ faults \ c.toSave \subseteq c.faulty
  BY <1>1 DEF Accounted
<1>3. CASE SaveDevice(s) \/ ClearTasks(s)
  <2>1. PICK w : ctx'[s] = [c EXCEPT !.toWrite = @ \ {w}]
    BY <1>3 DEF SaveDevice, ClearTasks, Local, Go, FaultInv
  <2>2. faults' = faults /\ Known \ c.done \subseteq Known'
    BY <1>1, <1>3 DEF SaveDevice, ClearTasks, Local, store, Known
  <2> HIDE DEF c
  <2>3. /\ ctx'[s].faulty = c.faulty /\ ctx'[s].chan = c.chan
        /\ ctx'[s].tasks = c.tasks /\ ctx'[s].toSave = c.toSave
    BY <1>1, <2>1 DEF Context
  <2>4. (c.faulty \cup c.chan \cup c.tasks) \cap c.done = {}
    BY <1>1 DEF Clean
  <2> QED
    BY <1>1, <1>2, <2>2, <2>3, <2>4 DEF Accounted, HasRead
<1>4. ASSUME NEW ch \in Channel, SaveFault(s, ch)
      PROVE  Accounted(s)'
  <2>1. /\ ctx'[s] = [c EXCEPT !.toSave = @ \ {ch}]
        /\ Known' = Known
        /\ faults' = IF ch \in c.faulty THEN faults \cup {ch} ELSE faults \ {ch}
    BY <1>1, <1>4 DEF SaveFault, Go, Known, FaultInv
  <2> HIDE DEF c
  <2>2. /\ ctx'[s].faulty = c.faulty /\ ctx'[s].chan = c.chan
        /\ ctx'[s].tasks = c.tasks /\ ctx'[s].toSave = c.toSave \ {ch}
    BY <1>1, <2>1 DEF Context
  <2> QED
    BY <1>1, <1>2, <2>1, <2>2 DEF Accounted, HasRead
<1>5. ASSUME NEW k \in Key, SaveOperation(s, k)
      PROVE  Accounted(s)'
  <2>1. /\ ctx'[s] = [c EXCEPT !.opsTouched = @ \ {k}]
        /\ Known' = Known /\ faults' = faults
    BY <1>1, <1>5 DEF SaveOperation, Go, Known, FaultInv
  <2> HIDE DEF c
  <2>2. /\ ctx'[s].faulty = c.faulty /\ ctx'[s].chan = c.chan
        /\ ctx'[s].tasks = c.tasks /\ ctx'[s].toSave = c.toSave
    BY <1>1, <2>1 DEF Context
  <2> QED
    BY <1>1, <1>2, <2>1, <2>2 DEF Accounted, HasRead
<1> QED
  BY <1>3, <1>4, <1>5

\* releaseLock: every fault that is left is one the session holds to be faulty.
LEMMA AccountRelease ==
  ASSUME FaultInv, NEW s \in Session, Accounted(s), Release(s) \/ LockExpired(s)
  PROVE  Accounted(s)'
<1>1. /\ pc[s] = "saving" /\ pc'[s] \in {"idle", "lost"} /\ ctx'[s] = NoContext
      /\ Known' = Known /\ faults' = faults
      /\ ctx[s].toSave = {}
  BY DEF Release, LockExpired, Saved, Local, Go, store, past, Known, FaultInv
<1>2. faults \cap Task \subseteq Known
  BY <1>1 DEF Accounted
<1> QED
  BY <1>1, <1>2 DEF Accounted, HasRead, NoContext

\* A download that fails leaves a fault of its task, which is noted if the task
\* is not queued.
LEMMA AccountTransfer ==
  ASSUME FaultInv, NEW s \in Session, Accounted(s), NEW op \in ctx[s].ops,
         TransferComplete(s, op) \/ TimeoutOperation(s, op)
  PROVE  Accounted(s)'
<1> DEFINE c == ctx[s]
           f == ForgetOperation(c, op)
           d == OperationFault(c, op)
<1>1. /\ pc[s] \in {"locked", "empty"} /\ UNCHANGED store
      /\ failed' \in {failed, failed \cup ((op.chan \cap Task) \ tasks)}
  BY DEF TransferComplete, TimeoutOperation, WriteResponse, Go
<1>2. c \in Context /\ op \in Operation /\ Accounts(c, Known, faults)
  BY <1>1 DEF FaultInv, Accounted, HasRead, Context
<1>3. Known \subseteq Known' /\ failed \subseteq failed'
  BY <1>1 DEF store, Known
<1>4. Accounts(f, Known', faults)
  BY <1>2, <1>3, OperationFields DEF Accounts
<1>5. ASSUME failed' = failed \cup ((op.chan \cap Task) \ tasks)
      PROVE  Accounts(d, Known', faults)
  <2>1. op.chan \cap Task \subseteq Known'
    BY <1>1, <1>5 DEF store, Known
  <2> QED
    BY <1>2, <1>3, <2>1, OperationFields DEF Accounts
<1> HIDE DEF f, d
<1>6. CASE WriteResponse(s, "locked", "locked", f)
  BY <1>1, <1>3, <1>4, <1>6, AccountWrite
<1>7. CASE /\ WriteResponse(s, "locked", "locked", d)
           /\ failed' = failed \cup ((op.chan \cap Task) \ tasks)
  BY <1>1, <1>3, <1>5, <1>7, AccountWrite
<1>8. CASE TimeoutOperation(s, op)
  BY <1>1, <1>3, <1>5, <1>8, AccountMove DEF TimeoutOperation, d
<1> QED
  BY <1>6, <1>7, <1>8 DEF TransferComplete, f, d

\* What the CPE does next.
LEMMA AccountCpe ==
  ASSUME FaultInv, NEW s \in Session, Accounted(s),
         Cpe(s) \/ CpeRequest(s) \/ StartRpcs(s)
  PROVE  Accounted(s)'
<1> DEFINE c == ctx[s]
<1>1. pc[s] \in {"locked", "empty", "wait"}
  BY DEF Cpe, CpeRequest, StartRpcs, EmptyRequest, CpeResponse, BeginDownload, CpeFault,
         Terminate, Respond, WriteResponse, Local, Go
<1>2. c \in Context /\ Accounts(c, Known, faults)
  BY <1>1 DEF FaultInv, Accounted, HasRead
<1>3. CASE EmptyRequest(s) \/ StartRpcs(s)
  BY <1>2, <1>3, AccountGo DEF EmptyRequest, StartRpcs, Local, past
<1>4. CASE CpeResponse(s) \/ \E k \in Key : BeginDownload(s, k)
  <2>1. PICK d : /\ Go(s, "wait", "next", d) /\ UNCHANGED <<store, failed>>
                 /\ \/ d = Answered(c)
                    \/ \E k \in Key : d = AddOperation(Answered(c), k)
    BY <1>4 DEF CpeResponse, BeginDownload, Local, past
  <2>2. Answered(c) \in Context /\ Accounts(Answered(c), Known, faults)
    <3> HIDE DEF c
    <3> QED
      BY <1>2, AnsweredType DEF Accounts, Answered, Context
  <2>3. Accounts(d, Known, faults)
    BY <2>1, <2>2, AnsweredFields DEF Accounts
  <2> QED
    BY <2>1, <2>3, AccountGo
<1>5. CASE CpeFault(s)
  BY <1>2, <1>5, AccountRecord, AccountGo DEF CpeFault, Local, past
<1>6. CASE Terminate(s)
  <2>1. PICK from : Go(s, from, "saving", EndSession(c))
    BY <1>6 DEF Terminate
  <2>2. UNCHANGED <<store, failed>>
    BY <1>6 DEF Terminate, past
  <2> QED
    BY <1>2, <2>1, <2>2, AccountEnd
<1>7. CASE CpeRequest(s)
  BY <1>2, <1>7, AccountRespond DEF CpeRequest
<1> QED
  BY <1>3, <1>4, <1>5, <1>6, <1>7 DEF Cpe

\* The steps around the lock, and those that lose a session.
LEMMA AccountLoss ==
  ASSUME FaultInv, NEW s \in Session, Accounted(s),
         Lock(s) \/ Refuse(s) \/ Unauthorized(s) \/ Stall(s) \/ ExpireLock(s)
  PROVE  Accounted(s)'
<1>1. CASE Lock(s)
  <2>1. /\ Go(s, "reading", "locked", ctx[s]) /\ UNCHANGED <<store, failed>>
        /\ ctx[s].toRead = {} /\ pc[s] = "reading"
    BY <1>1 DEF Lock, Go, past
  <2>2. Accounts(ctx[s], Known, faults)
    BY <2>1 DEF Accounted, HasRead
  <2> QED
    BY <2>1, <2>2, AccountGo
<1>2. CASE Stall(s)
  BY <1>2 DEF Stall, store, past, Known, Accounted, HasRead, Accounts
<1>3. CASE Refuse(s) \/ Unauthorized(s) \/ ExpireLock(s)
  <2>1. PICK from \in {"reading", "lost"} : Go(s, from, "idle", NoContext)
    BY <1>3 DEF Refuse, Unauthorized, ExpireLock, Local
  <2>2. UNCHANGED store /\ failed' = failed
    BY <1>3 DEF Refuse, Unauthorized, ExpireLock, Local, past
  <2> QED
    BY <2>1, <2>2, AccountNone
<1> QED
  BY <1>1, <1>2, <1>3

\* Every step of a session but its crash.
LEMMA AccountSession ==
  ASSUME FaultInv, NEW s \in Session, Accounted(s), SessionNext(s), ~Crash(s)
  PROVE  Accounted(s)'
<1>1. CASE NextFault(s)
  <2>1. ctx[s] \in Context /\ Accounts(ctx[s], Known, faults)
    BY <1>1 DEF NextFault, Local, Go, FaultInv, Accounted, HasRead
  <2> QED
    BY <1>1, <2>1, AccountRecord, AccountGo DEF NextFault, Local, past
<1>2. CASE NextSend(s)
  <2>1. Accounts(ctx[s], Known, faults)
    BY <1>2 DEF NextSend, Respond, WriteResponse, Local, Go, Accounted, HasRead
  <2> QED
    BY <1>2, <2>1, AccountRespond DEF NextSend
<1> QED
  BY <1>1, <1>2, AccountReading, AccountNextTask, AccountProbe, AccountApply,
     AccountSaving, AccountRelease, AccountTransfer, AccountCpe, AccountLoss
     DEF SessionNext, Handler

\* OrphanInv holds at first.
LEMMA OrphanInvInit == Init => OrphanInv
BY DEF Init, OrphanInv, Accounted, HasRead, NoContext, Known

\* Every step keeps OrphanInv: of a session that is alone there is no other
\* whose accounts the step could upset.
LEMMA OrphanInvNext == FaultInv /\ OrphanInv /\ [Next]_vars => OrphanInv'
<1> SUFFICES ASSUME FaultInv, OrphanInv, [Next]_vars
             PROVE  OrphanInv'
  OBVIOUS
<1>1. CASE UNCHANGED vars
  BY <1>1 DEF vars, OrphanInv, Accounted, HasRead, Accounts, Known
<1>2. ASSUME NEW t \in Task, InsertTask(t)
      PROVE  OrphanInv'
  <2>1. /\ Known \subseteq Known' /\ faults' = faults /\ pc' = pc /\ ctx' = ctx
        /\ crashes' = crashes
    BY <1>2 DEF InsertTask, bounds, past, Known
  <2>2. ASSUME NEW s \in Session, Accounted(s)
        PROVE  Accounted(s)'
    BY <2>1, <2>2 DEF Accounted, HasRead, Accounts
  <2> QED
    BY <2>1, <2>2 DEF OrphanInv
<1>3. ASSUME NEW t \in Task, PassExpiry(t)
      PROVE  OrphanInv'
  BY <1>3 DEF PassExpiry, store, bounds, past, OrphanInv, Accounted, HasRead, Accounts,
              Known
<1>4. ASSUME NEW s \in Session, SessionNext(s)
      PROVE  OrphanInv'
  <2>1. crashes' \in {crashes, crashes + 1} /\ (Crash(s) => crashes' = crashes + 1)
    BY <1>4, SessionFrame DEF Frame, Crash
  <2>2. ASSUME Alone, crashes' = 0, NEW r \in Session
        PROVE  Accounted(r)'
    <3>1. r = s
      BY <2>2 DEF Alone
    <3>2. crashes = 0 /\ ~Crash(s)
      BY <2>1, <2>2 DEF OrphanInv
    <3> QED
      BY <1>4, <2>2, <3>1, <3>2, AccountSession DEF OrphanInv
  <2> QED
    BY <2>1, <2>2 DEF OrphanInv, Alone
<1> QED
  BY <1>1, <1>2, <1>3, <1>4 DEF Next

\* A session that is alone, and whose worker does not crash, leaves no fault
\* document behind of a task that is not queued any more, but for a download
\* that failed or timed out after its task was done.
THEOREM NoOrphan == Spec => []NoOrphanFault
<1>1. OrphanInv => NoOrphanFault
  <2> SUFFICES ASSUME OrphanInv, Alone, crashes = 0, \A s \in Session : pc[s] = "idle"
               PROVE  faults \cap Task \subseteq Known
    BY DEF NoOrphanFault, Known
  <2>1. PICK s \in Session : pc[s] = "idle" /\ Accounted(s)
    BY DEF OrphanInv, Alone
  <2> QED
    BY <2>1 DEF Accounted
<1> QED
  BY <1>1, FaultInvInit, FaultInvNext, OrphanInvInit, OrphanInvNext, PTL DEF Spec

(***************************************************************************)
(* TaskIsolation.  A fault is blamed on every channel of the batch, so     *)
(* that a task without faults must be alone in its batch when there is one *)
(* to record.  nextRpc starts tasks in empty batches; applyPresets takes   *)
(* only tasks that have faulted, and what it leaves in the batch has       *)
(* faulted in this session, also when its fault was forgotten meanwhile.   *)
(***************************************************************************)
\* Whatever is faulty is noted as retried; the commit loop works for no other
\* channel than a task that is not.
Isolated(c) ==
  /\ c.faulty \subseteq c.retried
  /\ \A t \in (c.chan \cap Task) \ c.retried : c.active \subseteq {t}

\* Every task in the batch has faulted before.
Retrying(c) == c.chan \cap Task \subseteq c.retried

\* No task that does not fault by itself has its first fault in d.
Spares(c, d) == (d.faulty \cap Task) \ bad \subseteq c.faulty \cup c.retried

\* None but those of a download that has failed.
SparesBut(chs, c, d) == ((d.faulty \cap Task) \ bad) \ chs \subseteq c.faulty \cup c.retried

IsoAt(s) ==
  /\ pc[s] # "saving" => Isolated(ctx[s])
  /\ pc[s] = "presets" => Retrying(ctx[s])

IsoInv == drops \in Nat /\ \A s \in Session : IsoAt(s)

\* What a step does for the session that takes it.
Isolates(s) ==
  /\ IsoAt(s)'
  /\ \/ pc[s] = "reading" \/ drops' > drops \/ Spares(ctx[s], ctx'[s])
     \/ \E op \in ctx[s].ops \ ctx'[s].ops : SparesBut(op.chan, ctx[s], ctx'[s])

\* recordFault, for a fault of a channel that the commit loop works for.
LEMMA IsoRecord ==
  ASSUME NEW c \in Context, Isolated(c), MayFault(c) \/ Retrying(c)
  PROVE  LET d == RecordFault(c)
         IN  /\ d \in Context /\ Isolated(d) /\ Retrying(d) /\ Spares(c, d)
<1> DEFINE d == RecordFault(c)
<1>1. d \in Context /\ d.faulty = c.faulty \cup c.chan /\ d.chan = {}
  BY RecordType, RecordFields
<1>2. d.retried = c.retried \cup c.chan
  BY RecordFields
<1> HIDE DEF d
<1>3. Isolated(d) /\ Retrying(d)
  BY <1>1, <1>2 DEF Isolated, Retrying
<1>4. (c.chan \cap Task) \ c.retried \subseteq bad
  BY DEF Isolated, Retrying, MayFault
<1>5. Spares(c, d)
  BY <1>1, <1>4 DEF Spares
<1> QED
  BY <1>1, <1>3, <1>5 DEF d

\* Deleting faults, and clearing the batch.
LEMMA IsoForget ==
  ASSUME NEW c \in Context, NEW chs
  PROVE  /\ LET d == ForgetFaults(c, chs)
            IN  /\ d.retried = c.retried /\ d.active = c.active
                /\ Isolated(c) => Isolated(d)
                /\ Retrying(c) => Retrying(d)
         /\ LET d == ClearProvisions(c)
            IN  d.retried = c.retried /\ d.active = {} /\ (Isolated(c) => Isolated(d))
<1>1. LET d == ForgetFaults(c, chs)
      IN  /\ d.retried = c.retried /\ d.active = c.active
          /\ d.faulty \subseteq c.faulty /\ d.chan = c.chan
  BY DEF ForgetFaults, Context
<1>2. LET d == ClearProvisions(c)
      IN  d.retried = c.retried /\ d.active = {} /\ d.faulty = c.faulty /\ d.chan = {}
  BY DEF ClearProvisions, Context
<1> QED
  BY <1>1, <1>2 DEF Isolated, Retrying

\* A batch that is completed, and the expired tasks, leave an empty batch.
LEMMA IsoComplete ==
  ASSUME NEW c \in Context, Isolated(c)
  PROVE  LET d == DropExpired(CompleteBatch(c))
         IN  /\ d \in Context /\ Isolated(d) /\ Retrying(d)
             /\ d.chan = {} /\ d.active = {} /\ d.faulty \subseteq c.faulty
<1> DEFINE b == CompleteBatch(c)
           d == DropExpired(b)
<1>1. b \in Context /\ b.chan = {} /\ b.faulty \subseteq c.faulty
      /\ b.retried = c.retried /\ b.active = {}
  <2>1. b.retried = c.retried /\ b.active = {}
    BY DEF CompleteBatch, ForgetFaults, ClearProvisions, Context
  <2> QED
    BY <2>1, CompleteType, CompleteFields
<1> HIDE DEF b
<1>2. d \in Context /\ d.chan = {} /\ d.faulty \subseteq c.faulty
      /\ d.retried = c.retried /\ d.active = {}
  <2>1. d.retried = b.retried /\ d.active = b.active
    BY <1>1 DEF DropExpired, ForgetFaults, Context
  <2> QED
    BY <1>1, <2>1, DropType, DropFields
<1> HIDE DEF d
<1>3. Isolated(d) /\ Retrying(d)
  BY <1>2 DEF Isolated, Retrying
<1> QED
  BY <1>2, <1>3 DEF b, d

\* A task is started in an empty batch.
LEMMA IsoStart ==
  ASSUME NEW c \in Context, NEW t \in Task, Isolated(c), c.chan = {}, c.active = {}
  PROVE  LET d == StartTask(c, t)
         IN  Isolated(d) /\ d.faulty = c.faulty
<1> DEFINE d == StartTask(c, t)
<1>1. d.faulty = c.faulty /\ d.chan \subseteq {t}
  BY StartFields
<1>2. d.retried = c.retried /\ d.active \subseteq {t}
  <2>1. CASE t \in InvalidTask
    BY <2>1 DEF StartTask, Context
  <2>2. CASE t \notin InvalidTask
    BY <2>2 DEF StartTask, AddProvisions, Context
  <2> QED
    BY <2>1, <2>2
<1> HIDE DEF d
<1>3. Isolated(d)
  BY <1>1, <1>2 DEF Isolated
<1> QED
  BY <1>1, <1>3 DEF d

\* Channels that probe are no tasks.
LEMMA IsoMark ==
  ASSUME NEW c \in Context, NEW chs \in SUBSET Probing, Isolated(c), Retrying(c)
  PROVE  LET d == MarkProbes(c, chs)
         IN  /\ d \in Context /\ Isolated(d) /\ Retrying(d)
             /\ d.faulty = c.faulty /\ d.retried = c.retried
<1> DEFINE d == MarkProbes(c, chs)
<1>1. chs \in SUBSET Channel /\ chs \cap Task = {}
  BY TaskAssumption DEF Channel
<1>2. d \in Context /\ d.faulty = c.faulty /\ d.chan = c.chan \cup chs
  BY <1>1, MarkType, MarkFields
<1>3. d.retried = c.retried
  BY DEF MarkProbes, Context
<1> HIDE DEF d
<1>4. Isolated(d) /\ Retrying(d)
  BY <1>1, <1>2, <1>3 DEF Isolated, Retrying
<1> QED
  BY <1>2, <1>3, <1>4 DEF d

\* applyPresets takes tasks only to retry them.
LEMMA IsoLoad ==
  ASSUME NEW c \in Context, Isolated(c),
         NEW white \in WhiteLists(c),
         NEW match \in SUBSET Eligible(c, white), NEW appended \in SUBSET match
  PROVE  LET d == LoadBatch(c, white, PresetBatch(c, white, match), appended)
         IN  /\ Isolated(d) /\ Retrying(d)
             /\ d.faulty = c.faulty /\ d.retried = c.retried
<1> DEFINE b == PresetBatch(c, white, match)
           d == LoadBatch(c, white, b, appended)
           some == b # {}
           n == IF white # {} THEN c.cycles ELSE c.cycles + 1
           f == ClearProvisions(c)
<1>1. white \subseteq c.faulty /\ match \subseteq PresetChannel
  BY DEF WhiteLists, Eligible
<1>2. b \cap Task \subseteq c.faulty
  BY <1>1, TaskAssumption DEF PresetBatch
<1>3. f \in Context /\ f.cycles = c.cycles /\ f.retried = c.retried
  BY ClearType, ClearFields, IsoForget
<1> HIDE DEF b
<1>4. d.faulty = c.faulty /\ d.chan = b
  BY LoadFields
<1>5. d.retried = c.retried
  <2>1. d = [f EXCEPT !.chan = b, !.work = b, !.active = b,
                      !.provs = some, !.touched = @ \cup appended, !.cycles = n]
    BY <1>3 DEF LoadBatch
  <2> HIDE DEF d, f, some, n
  <2> QED
    BY <1>3, <2>1 DEF Context
<1> HIDE DEF d
<1>6. Isolated(d) /\ Retrying(d)
  BY <1>2, <1>4, <1>5 DEF Isolated, Retrying
<1> QED
  BY <1>4, <1>5, <1>6 DEF b, d

(***************************************************************************)
(* The steps of a session.                                                 *)
(***************************************************************************)
\* The context moves, and has no new faults or is still read.
LEMMA IsoGo ==
  ASSUME FaultInv, NEW s \in Session, NEW from, NEW to, NEW c,
         Go(s, from, to, c), to # "saving", Isolated(c),
         to = "presets" => Retrying(c),
         from = "reading" \/ Spares(ctx[s], c)
  PROVE  Isolates(s)
<1>1. pc[s] = from /\ pc'[s] = to /\ ctx'[s] = c
  BY DEF Go, FaultInv
<1> QED
  BY <1>1 DEF Isolates, IsoAt, Isolated, Retrying, Spares

\* The context is given up.
LEMMA IsoNone ==
  ASSUME FaultInv, NEW s \in Session, NEW from, NEW to \in {"idle", "lost"},
         Go(s, from, to, NoContext)
  PROVE  Isolates(s)
<1>1. Isolated(NoContext) /\ Spares(ctx[s], NoContext)
  BY DEF NoContext, Isolated, Spares
<1> QED
  BY <1>1, IsoGo

\* The session ends, by itself or because the CPE leaves it.
LEMMA IsoClose ==
  ASSUME FaultInv, NEW s \in Session, NEW from, NEW c \in Context,
         Close(s, from, c), drops \in Nat, Spares(ctx[s], c)
  PROVE  Isolates(s)
<1>1. pc'[s] = "saving"
  BY DEF Close, Go, FaultInv
<1>2. CASE drops' = drops + 1
  BY <1>1, <1>2 DEF Isolates, IsoAt
<1>3. CASE Go(s, from, "saving", EndSession(ClearProvisions(c)))
  <2> DEFINE d == ClearProvisions(c)
  <2>1. d \in Context /\ d.provs = FALSE /\ d.faulty = c.faulty
    BY ClearType, ClearFields
  <2> HIDE DEF d
  <2>2. EndSession(d).faulty = c.faulty
    BY <2>1, EndFields
  <2>3. ctx'[s].faulty = c.faulty
    BY <1>3, <2>2 DEF Go, FaultInv, d
  <2> QED
    BY <1>1, <2>3 DEF Isolates, IsoAt, Spares
<1> QED
  BY <1>2, <1>3 DEF Close

\* Writing an answer to the device.
LEMMA IsoWrite ==
  ASSUME FaultInv, NEW s \in Session, NEW from, NEW to, NEW c,
         WriteResponse(s, from, to, c), to \notin {"saving", "presets"}, Isolated(c),
         c.faulty = ctx[s].faulty
  PROVE  Isolates(s)
<1>1. Spares(ctx[s], c)
  BY DEF Spares
<1>2. CASE Go(s, from, to, c)
  BY <1>1, <1>2, IsoGo
<1>3. CASE Go(s, from, "lost", NoContext)
  BY <1>3, IsoNone
<1> QED
  BY <1>2, <1>3 DEF WriteResponse

\* A response, with the faults unchanged and the batch isolated.
LEMMA IsoRespond ==
  ASSUME FaultInv, NEW s \in Session, NEW from, NEW to, NEW c,
         Respond(s, from, to, c), to \notin {"saving", "presets"}, Isolated(c),
         c.faulty = ctx[s].faulty
  PROVE  Isolates(s)
BY IsoWrite DEF Respond

\* The Inform, the reads that follow it, and the lock.
LEMMA IsoReading ==
  ASSUME FaultInv, NEW s \in Session, IsoAt(s),
         \/ \E known \in SUBSET Probing : Inform(s, known)
         \/ ReadTasks(s) \/ Lock(s)
         \/ \E due \in SUBSET faults : ReadFaults(s, due)
         \/ ReadOperations(s)
  PROVE  Isolates(s)
<1> DEFINE c == ctx[s]
<1>1. c \in Context /\ (pc[s] = "reading" => Fresh(c) /\ Isolated(c))
  BY DEF FaultInv, IsoAt, BeforeRpcs
<1>2. ASSUME NEW known \in SUBSET Probing, Inform(s, known)
      PROVE  Isolates(s)
  <2> DEFINE d == [NoContext EXCEPT !.tasks = tasks, !.expired = expired,
                                    !.fetched = known, !.toRead = {"tasks", "faults", "operations"}]
  <2>1. Go(s, "idle", "reading", d)
    BY <1>2 DEF Inform, Local
  <2>2. d.faulty = {} /\ d.chan = {} /\ d.retried = {}
    BY DEF NoContext
  <2> HIDE DEF d
  <2>3. Isolated(d) /\ Spares(ctx[s], d)
    BY <2>2 DEF Isolated, Spares
  <2> QED
    BY <2>1, <2>3, IsoGo
<1>3. CASE ReadTasks(s)
  <2> DEFINE d == [c EXCEPT !.tasks = @ \cap tasks, !.toRead = @ \ {"tasks"}]
  <2>1. Go(s, "reading", "reading", d) /\ pc[s] = "reading"
    BY <1>3 DEF ReadTasks, Local, Go
  <2> HIDE DEF c
  <2>2. d.faulty = c.faulty /\ d.chan = c.chan /\ d.retried = c.retried
        /\ d.active = c.active
    BY <1>1 DEF Context
  <2> HIDE DEF d
  <2>3. Isolated(d)
    BY <1>1, <2>1, <2>2 DEF Isolated
  <2> QED
    BY <2>1, <2>3, IsoGo
<1>4. ASSUME NEW due \in SUBSET faults, ReadFaults(s, due)
      PROVE  Isolates(s)
  <2> DEFINE drop == DiscardedFaults(c)
             keep == faults \ drop
             d == [c EXCEPT !.faulty = keep, !.due = due,
                            !.timed = timed \cap keep, !.retried = keep,
                            !.touched = drop, !.toRead = @ \ {"faults"}]
  <2>1. Go(s, "reading", "reading", d) /\ pc[s] = "reading"
    BY <1>4 DEF ReadFaults, Local, Go
  <2> HIDE DEF c, drop
  <2>2. d.faulty = keep /\ d.chan = c.chan /\ d.retried = keep
    BY <1>1 DEF Context
  <2> HIDE DEF d
  <2>3. Isolated(d)
    BY <1>1, <2>1, <2>2 DEF Isolated, Fresh
  <2> QED
    BY <2>1, <2>3, IsoGo
<1>5. CASE Lock(s)
  <2>1. Go(s, "reading", "locked", c) /\ pc[s] = "reading"
    BY <1>5 DEF Lock, Go
  <2> QED
    BY <1>1, <2>1, IsoGo
<1>6. CASE ReadOperations(s)
  <2> DEFINE d == [c EXCEPT !.ops = operations, !.toRead = @ \ {"operations"}]
  <2>1. Go(s, "reading", "reading", d) /\ pc[s] = "reading"
    BY <1>6 DEF ReadOperations, Local, Go
  <2> HIDE DEF c
  <2>2. d.faulty = c.faulty /\ d.chan = c.chan /\ d.retried = c.retried
        /\ d.active = c.active
    BY <1>1 DEF Context
  <2> HIDE DEF d
  <2>3. Isolated(d)
    BY <1>1, <2>1, <2>2 DEF Isolated
  <2> QED
    BY <2>1, <2>3, IsoGo
<1> QED
  BY <1>2, <1>3, <1>4, <1>5, <1>6

\* nextRpc, when no batch is loaded.
LEMMA IsoNextTask ==
  ASSUME FaultInv, NEW s \in Session, IsoAt(s), NextTask(s)
  PROVE  Isolates(s)
<1> DEFINE c == DropExpired(CompleteBatch(ctx[s]))
<1>1. ctx[s] \in Context /\ Isolated(ctx[s])
  BY DEF NextTask, Go, FaultInv, IsoAt
<1>2. /\ c \in Context /\ Isolated(c) /\ Retrying(c)
      /\ c.chan = {} /\ c.active = {} /\ c.faulty \subseteq ctx[s].faulty
  BY <1>1, IsoComplete
<1>3. CASE Go(s, "next", "presets", c)
  <2> HIDE DEF c
  <2>1. Spares(ctx[s], c)
    BY <1>2 DEF Spares
  <2> QED
    BY <1>2, <1>3, <2>1, IsoGo
<1>4. ASSUME NEW t \in Oldest(Runnable(c)), Go(s, "next", "next", StartTask(c, t))
      PROVE  Isolates(s)
  <2> HIDE DEF c
  <2>1. t \in Task
    BY <1>2 DEF Oldest, Runnable, Context
  <2>2. Isolated(StartTask(c, t)) /\ StartTask(c, t).faulty = c.faulty
    BY <1>2, <2>1, IsoStart
  <2>3. Spares(ctx[s], StartTask(c, t))
    BY <1>2, <2>2 DEF Spares
  <2> QED
    BY <1>4, <2>2, <2>3, IsoGo
<1> QED
  BY <1>3, <1>4 DEF NextTask

\* applyPresets, when its conditions ask for parameters.
LEMMA IsoProbe ==
  ASSUME FaultInv, NEW s \in Session, IsoAt(s), Probe(s)
  PROVE  Isolates(s)
<1>1. PICK chs \in SUBSET Probing :
        \/ ProbeFault(s, MarkProbes(ctx[s], chs))
        \/ ProbeSend(s, MarkProbes(ctx[s], chs))
  BY DEF Probe
<1> DEFINE c == MarkProbes(ctx[s], chs)
<1>2. pc[s] = "presets"
  BY <1>1 DEF ProbeFault, ProbeSend, Respond, WriteResponse, Local, Go
<1>3. ctx[s] \in Context /\ Isolated(ctx[s]) /\ Retrying(ctx[s])
  BY <1>2 DEF FaultInv, IsoAt
<1>4. /\ c \in Context /\ Isolated(c) /\ Retrying(c)
      /\ c.faulty = ctx[s].faulty /\ c.retried = ctx[s].retried
  BY <1>3, IsoMark
<1> HIDE DEF c
<1>5. CASE ProbeFault(s, c)
  <2>1. Isolated(RecordFault(c)) /\ Retrying(RecordFault(c)) /\ Spares(c, RecordFault(c))
    BY <1>4, IsoRecord
  <2>2. Spares(ctx[s], RecordFault(c))
    BY <1>4, <2>1 DEF Spares
  <2> QED
    BY <1>5, <2>1, <2>2, IsoGo DEF ProbeFault, Local
<1>6. CASE ProbeSend(s, c)
  BY <1>4, <1>6, IsoRespond DEF ProbeSend
<1> QED
  BY <1>1, <1>5, <1>6 DEF c

\* applyPresets with its conditions decided.
LEMMA IsoApply ==
  ASSUME FaultInv, drops \in Nat, NEW s \in Session, IsoAt(s), ApplyPresets(s)
  PROVE  Isolates(s)
<1>1. PICK white \in WhiteLists(ctx[s]) :
        \E match \in SUBSET Eligible(ctx[s], white) :
          \E appended \in SUBSET match : ApplyBatch(s, white, match, appended)
  BY DEF ApplyPresets
<1>2. PICK match \in SUBSET Eligible(ctx[s], white) :
        \E appended \in SUBSET match : ApplyBatch(s, white, match, appended)
  BY <1>1
<1>3. PICK appended \in SUBSET match : ApplyBatch(s, white, match, appended)
  BY <1>2
<1> DEFINE c == LoadBatch(ctx[s], white, PresetBatch(ctx[s], white, match), appended)
<1>4. PresetLoop(s, c) \/ PresetFault(s, c) \/ PresetSend(s, c) \/ PresetDone(s, white, c)
  BY <1>3 DEF ApplyBatch
<1>5. pc[s] = "presets"
  BY <1>4 DEF PresetLoop, PresetFault, PresetSend, PresetDone, Close, Respond,
                 WriteResponse, Local, Go
<1>6. Clean(ctx[s]) /\ ctx[s] \in Context /\ Isolated(ctx[s])
  BY <1>5 DEF FaultInv, IsoAt
<1>7. /\ c \in Context /\ Isolated(c) /\ Retrying(c)
      /\ c.faulty = ctx[s].faulty /\ c.retried = ctx[s].retried
  <2>1. Clean(c)
    BY <1>6, CleanLoad
  <2> QED
    BY <1>6, <2>1, IsoLoad DEF Clean
<1> HIDE DEF c
<1>8. LET d == RecordFault(c)
      IN  d \in Context /\ Isolated(d) /\ Retrying(d) /\ Spares(ctx[s], d)
  BY <1>7, IsoRecord DEF Spares
<1>9. CASE PresetLoop(s, c)
  <2>1. CASE Close(s, "presets", RecordFault(c))
    BY <1>8, <2>1, IsoClose
  <2>2. CASE Local(s, "presets", "lost", NoContext)
    BY <2>2, IsoNone DEF Local
  <2> QED
    BY <1>9, <2>1, <2>2 DEF PresetLoop
<1>10. CASE PresetFault(s, c)
  BY <1>8, <1>10, IsoGo DEF PresetFault, Local
<1>11. CASE PresetSend(s, c)
  BY <1>7, <1>11, IsoRespond DEF PresetSend
<1>12. CASE PresetDone(s, white, c)
  <2> DEFINE d == ForgetFaults(c, c.chan)
  <2>1. d \in Context /\ Isolated(d) /\ Retrying(d) /\ d.faulty \subseteq c.faulty
    BY <1>7, IsoForget, ForgetType, ForgetFields
  <2> HIDE DEF d
  <2>2. Spares(ctx[s], d)
    BY <1>7, <2>1 DEF Spares
  <2>3. CASE Go(s, "presets", "presets", d)
    BY <2>1, <2>2, <2>3, IsoGo
  <2>4. CASE Close(s, "presets", d)
    BY <2>1, <2>2, <2>4, IsoClose
  <2> QED
    BY <1>12, <2>3, <2>4 DEF PresetDone, d
<1> QED
  BY <1>4, <1>9, <1>10, <1>11, <1>12

\* The writes of endSession.
LEMMA IsoSaving ==
  ASSUME FaultInv, NEW s \in Session,
         \/ SaveDevice(s) \/ ClearTasks(s)
         \/ \E ch \in Channel : SaveFault(s, ch)
         \/ \E k \in Key : SaveOperation(s, k)
  PROVE  Isolates(s)
<1> DEFINE c == ctx[s]
<1>1. c \in Context /\ pc'[s] = "saving"
  BY DEF SaveDevice, ClearTasks, SaveFault, SaveOperation, Local, Go, FaultInv
<1>2. \/ \E w : ctx'[s] = [c EXCEPT !.toWrite = @ \ {w}]
      \/ \E ch : ctx'[s] = [c EXCEPT !.toSave = @ \ {ch}]
      \/ \E k : ctx'[s] = [c EXCEPT !.opsTouched = @ \ {k}]
  BY DEF SaveDevice, ClearTasks, SaveFault, SaveOperation, Local, Go, FaultInv
<1> HIDE DEF c
<1>3. ctx'[s].faulty = c.faulty
  BY <1>1, <1>2 DEF Context
<1> QED
  BY <1>1, <1>3 DEF Isolates, IsoAt, Spares, c

\* A download that ends takes no other task with it.
LEMMA IsoTransfer ==
  ASSUME FaultInv, NEW s \in Session, IsoAt(s), NEW op \in ctx[s].ops,
         TransferComplete(s, op) \/ TimeoutOperation(s, op)
  PROVE  Isolates(s)
<1> DEFINE c == ctx[s]
           f == ForgetOperation(c, op)
           d == OperationFault(c, op)
<1>1. pc[s] \in {"locked", "empty"}
  BY DEF TransferComplete, TimeoutOperation, WriteResponse, Go
<1>2. c \in Context /\ op \in Operation /\ Isolated(c)
  BY <1>1 DEF FaultInv, IsoAt, Context
<1>3. Isolated(f) /\ f.faulty = c.faulty
  BY <1>2, OperationFields DEF Isolated
<1>4. Isolated(d) /\ op \in c.ops \ d.ops /\ SparesBut(op.chan, c, d)
  BY <1>2, OperationFields DEF Isolated, SparesBut
<1> HIDE DEF f, d
<1>5. CASE WriteResponse(s, "locked", "locked", f)
  BY <1>3, <1>5, IsoWrite
<1>6. ASSUME NEW to \in {"locked", "empty"}, pc'[s] = to, ctx'[s] = d
      PROVE  Isolates(s)
  BY <1>4, <1>6 DEF Isolates, IsoAt
<1>7. CASE WriteResponse(s, "locked", "locked", d)
  <2>1. CASE Go(s, "locked", "lost", NoContext)
    BY <2>1, IsoNone
  <2>2. CASE Go(s, "locked", "locked", d)
    BY <1>6, <2>2 DEF Go, FaultInv
  <2> QED
    BY <1>7, <2>1, <2>2 DEF WriteResponse
<1>8. CASE TimeoutOperation(s, op)
  BY <1>6, <1>8 DEF TimeoutOperation, Go, FaultInv, d
<1> QED
  BY <1>5, <1>7, <1>8 DEF TransferComplete, f, d

\* The requests and answers of the CPE, and the faults of a batch.
LEMMA IsoCpe ==
  ASSUME FaultInv, drops \in Nat, NEW s \in Session, IsoAt(s),
         Cpe(s) \/ CpeRequest(s) \/ StartRpcs(s) \/ NextFault(s) \/ NextSend(s)
  PROVE  Isolates(s)
<1> DEFINE c == ctx[s]
<1>1. pc[s] \in {"locked", "empty", "wait", "next"}
  BY DEF Cpe, CpeRequest, StartRpcs, EmptyRequest, CpeResponse, BeginDownload, CpeFault,
     Terminate, NextFault, NextSend, Respond, WriteResponse, Local, Go
<1>2. c \in Context /\ Isolated(c) /\ Spares(ctx[s], c)
  BY <1>1 DEF FaultInv, IsoAt, Spares
<1>3. CASE EmptyRequest(s) \/ StartRpcs(s)
  BY <1>2, <1>3, IsoGo DEF EmptyRequest, StartRpcs, Local
<1>4. CASE CpeResponse(s) \/ \E k \in Key : BeginDownload(s, k)
  <2>1. PICK d : /\ Go(s, "wait", "next", d)
                 /\ \/ d = Answered(c)
                    \/ \E k \in Key : d = AddOperation(Answered(c), k)
    BY <1>4 DEF CpeResponse, BeginDownload, Local
  <2>2. /\ Answered(c) \in Context /\ Answered(c).faulty = c.faulty
        /\ Answered(c).chan = c.chan /\ Answered(c).retried = c.retried
        /\ Answered(c).active = c.active
    <3> HIDE DEF c
    <3> QED
      BY <1>2, AnsweredType DEF Answered, Context
  <2>3. d.faulty = c.faulty /\ d.chan = c.chan /\ d.retried = c.retried
        /\ d.active = c.active
    BY <2>1, <2>2, AnsweredFields
  <2>4. Isolated(d) /\ Spares(ctx[s], d)
    BY <1>2, <2>3 DEF Isolated, Spares
  <2> QED
    BY <2>1, <2>4, IsoGo
<1>5. CASE CpeFault(s) \/ NextFault(s)
  <2>1. MayFault(c) /\ \E from : Go(s, from, "next", RecordFault(c))
    BY <1>5 DEF CpeFault, NextFault, Local
  <2>2. Isolated(RecordFault(c)) /\ Spares(ctx[s], RecordFault(c))
    BY <1>2, <2>1, IsoRecord
  <2> QED
    BY <2>1, <2>2, IsoGo
<1>6. CASE Terminate(s)
  <2>1. drops' > drops /\ pc'[s] = "saving"
    BY <1>6 DEF Terminate, Go, FaultInv
  <2> QED
    BY <2>1 DEF Isolates, IsoAt
<1>7. CASE CpeRequest(s) \/ NextSend(s)
  BY <1>2, <1>7, IsoRespond DEF CpeRequest, NextSend
<1> QED
  BY <1>3, <1>4, <1>5, <1>6, <1>7 DEF Cpe

\* The steps that lose or finish a session, and the expiry of its lock.
LEMMA IsoLoss ==
  ASSUME FaultInv, NEW s \in Session, IsoAt(s),
         \/ Refuse(s) \/ Unauthorized(s) \/ Release(s) \/ LockExpired(s)
         \/ Crash(s) \/ Stall(s) \/ ExpireLock(s)
  PROVE  Isolates(s)
<1>1. CASE Stall(s)
  BY <1>1 DEF Stall, Isolates, IsoAt, Isolated, Retrying, Spares
<1>2. CASE Refuse(s) \/ Unauthorized(s) \/ Release(s) \/ LockExpired(s) \/ Crash(s)
           \/ ExpireLock(s)
  <2>1. \E from, to : to \in {"idle", "lost"} /\ Go(s, from, to, NoContext)
    BY <1>2 DEF Refuse, Unauthorized, Release, LockExpired, Crash, ExpireLock, Local
  <2> QED
    BY <2>1, IsoNone
<1> QED
  BY <1>1, <1>2

\* A step of a session leaves the contexts of the others alone.
LEMMA OthersStay ==
  ASSUME FaultInv, NEW s \in Session, SessionNext(s), NEW r \in Session \ {s}
  PROVE  pc'[r] = pc[r] /\ ctx'[r] = ctx[r]
<1>1. ASSUME NEW from, NEW to, NEW c, Go(s, from, to, c)
      PROVE  pc'[r] = pc[r] /\ ctx'[r] = ctx[r]
  BY <1>1 DEF Go, FaultInv
<1>2. ASSUME NEW from, NEW to, NEW c, WriteResponse(s, from, to, c)
      PROVE  pc'[r] = pc[r] /\ ctx'[r] = ctx[r]
  BY <1>1, <1>2 DEF WriteResponse
<1>3. CASE Probe(s)
  BY <1>1, <1>2, <1>3 DEF Probe, ProbeFault, ProbeSend, Respond, Local
<1>4. CASE ApplyPresets(s)
  <2>1. PICK white, c : \/ PresetLoop(s, c) \/ PresetFault(s, c) \/ PresetSend(s, c)
                        \/ PresetDone(s, white, c)
    BY <1>4 DEF ApplyPresets, ApplyBatch
  <2> QED
    BY <1>1, <1>2, <2>1 DEF PresetLoop, PresetFault, PresetSend, PresetDone, Close, Respond,
                             Local
<1>5. CASE Handler(s) /\ ~ Probe(s) /\ ~ ApplyPresets(s)
  BY <1>1, <1>2, <1>5 DEF Handler, ReadTasks, ReadFaults, ReadOperations, Lock, Refuse,
     TimeoutOperation, StartRpcs, NextFault, NextSend, NextTask, SaveDevice, ClearTasks,
     SaveFault, SaveOperation, Release, LockExpired, Respond, Local
<1>6. CASE \/ Cpe(s) \/ CpeRequest(s)
           \/ \E op \in ctx[s].ops : TransferComplete(s, op)
  BY <1>1, <1>2, <1>6 DEF Cpe, CpeRequest, EmptyRequest, CpeResponse, BeginDownload,
     CpeFault, Terminate, TransferComplete, Respond, Local
<1>7. CASE \/ Unauthorized(s) \/ Crash(s) \/ Stall(s) \/ ExpireLock(s)
           \/ \E known \in SUBSET Probing : Inform(s, known)
  BY <1>1, <1>7 DEF Unauthorized, Crash, Stall, ExpireLock, Inform, Local
<1> QED
  BY <1>3, <1>4, <1>5, <1>6, <1>7 DEF SessionNext

\* Every step isolates the tasks of every session.
LEMMA IsoNext ==
  ASSUME FaultInv, IsoInv, [Next]_vars
  PROVE  IsoInv' /\ \A s \in Session : Isolates(s)
<1>1. ASSUME NEW s \in Session, pc'[s] = pc[s], ctx'[s] = ctx[s]
      PROVE  Isolates(s)
  BY <1>1 DEF IsoInv, Isolates, IsoAt, Isolated, Retrying, Spares
<1>2. CASE UNCHANGED vars
  BY <1>1, <1>2 DEF vars, Isolates, IsoInv
<1>3. ASSUME NEW t \in Task, InsertTask(t) \/ PassExpiry(t)
      PROVE  IsoInv' /\ \A s \in Session : Isolates(s)
  <2>1. pc' = pc /\ ctx' = ctx /\ drops' = drops
    BY <1>3 DEF InsertTask, PassExpiry, bounds
  <2> QED
    BY <1>1, <2>1 DEF Isolates, IsoInv
<1>4. ASSUME NEW s \in Session, SessionNext(s)
      PROVE  IsoInv' /\ \A r \in Session : Isolates(r)
  <2>1. Isolates(s)
    BY <1>4, IsoReading, IsoNextTask, IsoProbe, IsoApply, IsoSaving, IsoTransfer, IsoCpe,
       IsoLoss DEF SessionNext, Handler, IsoInv
  <2>2. ASSUME NEW r \in Session \ {s}
        PROVE  pc'[r] = pc[r] /\ ctx'[r] = ctx[r]
    BY <1>4, OthersStay
  <2>3. drops' \in Nat
    BY <1>4, SessionFrame DEF IsoInv, Frame
  <2>4. \A r \in Session : Isolates(r)
    BY <1>1, <2>1, <2>2
  <2> QED
    BY <2>3, <2>4 DEF Isolates, IsoInv
<1> QED
  BY <1>2, <1>3, <1>4 DEF Next

\* A task that does not fault by itself has its first fault of a session only if
\* the CPE leaves the session unfinished, or a download of its batch fails, for
\* any number of tasks, presets and sessions: no other task and no preset
\* causes it.
THEOREM TasksIsolated == Spec => TaskIsolation
<1> DEFINE Isolating ==
      \A s \in Session : \A t \in Task \ bad :
        t \in ctx'[s].faulty \ (ctx[s].faulty \cup ctx[s].retried)
          => \/ pc[s] = "reading" \/ drops' > drops
             \/ \E op \in ctx[s].ops \ ctx'[s].ops : t \in op.chan
<1>1. Init => IsoInv
  BY DEF Init, IsoInv, IsoAt, Isolated, NoContext
<1>2. FaultInv /\ IsoInv /\ [Next]_vars => IsoInv'
  BY IsoNext
<1>3. FaultInv /\ IsoInv /\ [Next]_vars => [Isolating]_vars
  BY IsoNext DEF Isolates, Spares, SparesBut
<1> QED
  BY <1>1, <1>2, <1>3, FaultInvInit, FaultInvNext, PTL DEF Spec, TaskIsolation

-----------------------------------------------------------------------------

(***************************************************************************)
(* TaskQueue executes only tasks that were queued, so the invariant has to *)
(* say that a context never refers to another one: its tasks come from the *)
(* queue, its faults from the documents, its batch from both, and its      *)
(* operations from batches.                                                *)
(***************************************************************************)
OpChannels(ops) == UNION {op.chan : op \in ops}

Refs(c) == c.tasks \cup (((c.faulty \cup c.chan) \cup OpChannels(c.ops)) \cap Task)

RefsInv ==
  /\ QueueInv /\ LockInv
  /\ tasks \subseteq created
  /\ faults \cap Task \subseteq created
  /\ OpChannels(operations) \cap Task \subseteq created
  /\ \A s \in Session : Refs(ctx[s]) \subseteq created

(***************************************************************************)
(* The functions on a context add no reference.                            *)
(***************************************************************************)
\* The channels of more operations.
LEMMA ChannelsBound ==
  ASSUME NEW ops, NEW more, NEW chs, \A op \in more : op \in ops \/ op.chan \subseteq chs
  PROVE  OpChannels(more) \subseteq OpChannels(ops) \cup chs
BY DEF OpChannels

\* The context of no session refers to nothing.
LEMMA RefsNone == Refs(NoContext) = {}
BY DEF Refs, NoContext, OpChannels

\* The fault of an operation is blamed on channels that it refers to.
LEMMA RefsOperation ==
  ASSUME NEW c \in Context, NEW op \in c.ops
  PROVE  /\ Refs(ForgetOperation(c, op)) \subseteq Refs(c)
         /\ Refs(OperationFault(c, op)) \subseteq Refs(c)
<1>1. op \in Operation
  BY DEF Context
<1>2. OpChannels(c.ops \ {op}) \subseteq OpChannels(c.ops) /\ op.chan \subseteq OpChannels(c.ops)
  BY DEF OpChannels
<1> DEFINE f == ForgetOperation(c, op)
           d == OperationFault(c, op)
<1>3. /\ f.tasks = c.tasks /\ f.faulty = c.faulty /\ f.chan = c.chan
      /\ f.ops = c.ops \ {op}
      /\ d.tasks = c.tasks /\ d.faulty = c.faulty \cup op.chan /\ d.chan = {}
      /\ d.ops = c.ops \ {op}
  BY <1>1, OperationFields
<1> HIDE DEF f, d
<1>4. Refs(f) \subseteq Refs(c) /\ Refs(d) \subseteq Refs(c)
  BY <1>2, <1>3 DEF Refs
<1> QED
  BY <1>4 DEF f, d

\* A download that begins refers to the batch.
LEMMA RefsAnswered ==
  ASSUME NEW c \in Context
  PROVE  /\ Refs(Answered(c)) \subseteq Refs(c)
         /\ \A k \in Key : Refs(AddOperation(Answered(c), k)) \subseteq Refs(c)
<1> DEFINE a == Answered(c)
<1>1. /\ a \in Context /\ a.tasks = c.tasks /\ a.faulty = c.faulty /\ a.chan = c.chan
      /\ a.ops = c.ops
  <2>1. a \in Context
    BY AnsweredType
  <2>2. a.tasks = c.tasks /\ a.faulty = c.faulty /\ a.chan = c.chan /\ a.ops = c.ops
    BY DEF Answered, Context
  <2> QED
    BY <2>1, <2>2
<1> HIDE DEF a
<1>2. ASSUME NEW k \in Key
      PROVE  Refs(AddOperation(a, k)) \subseteq Refs(a)
  <2> DEFINE d == AddOperation(a, k)
  <2>1. /\ d.tasks = a.tasks /\ d.faulty = a.faulty /\ d.chan = a.chan
        /\ \A op \in d.ops : op \in a.ops \/ op.chan = a.chan
    BY <1>1, AnsweredFields
  <2> HIDE DEF d
  <2>2. OpChannels(d.ops) \subseteq OpChannels(a.ops) \cup a.chan
    BY <2>1, ChannelsBound
  <2> QED
    BY <2>1, <2>2 DEF Refs, d
<1>3. Refs(a) \subseteq Refs(c)
  BY <1>1 DEF Refs
<1> QED
  BY <1>2, <1>3 DEF a

\* recordFault blames the batch.
LEMMA RefsRecord ==
  ASSUME NEW c \in Context
  PROVE  Refs(RecordFault(c)) \subseteq Refs(c)
BY RecordFields DEF Refs

\* clearProvisions.
LEMMA RefsClear ==
  ASSUME NEW c \in Context
  PROVE  Refs(ClearProvisions(c)) \subseteq Refs(c)
BY DEF Refs, ClearProvisions, Context

\* endSession.
LEMMA RefsEnd ==
  ASSUME NEW c \in Context
  PROVE  Refs(EndSession(c)) \subseteq Refs(c)
<1> DEFINE d == IF c.provs THEN RecordFault(c) ELSE c
<1>1. Refs(d) \subseteq Refs(c)
  BY RefsRecord
<1>2. /\ EndSession(c).faulty = d.faulty /\ EndSession(c).ops = d.ops
      /\ EndSession(c).tasks = {} /\ EndSession(c).chan = {}
  BY DEF EndSession, NoContext
<1> HIDE DEF d
<1> QED
  BY <1>1, <1>2 DEF Refs

\* The end of a batch and the expiry of tasks.
LEMMA RefsNext ==
  ASSUME NEW c \in Context
  PROVE  Refs(DropExpired(CompleteBatch(c))) \subseteq Refs(c)
<1>1. Refs(CompleteBatch(c)) \subseteq Refs(c) /\ CompleteBatch(c) \in Context
  <2>1. /\ CompleteBatch(c).tasks = c.tasks \ c.chan
        /\ CompleteBatch(c).faulty = c.faulty \ c.work
        /\ CompleteBatch(c).chan = {} /\ CompleteBatch(c).ops = c.ops
    BY DEF CompleteBatch, ForgetFaults, ClearProvisions, Context
  <2> QED
    BY <2>1, CompleteType DEF Refs
<1>2. ASSUME NEW d \in Context
      PROVE  Refs(DropExpired(d)) \subseteq Refs(d)
  BY DEF Refs, DropExpired, ForgetFaults, Context
<1> QED
  BY <1>1, <1>2

\* The task that is started is one of the context.
LEMMA RefsStart ==
  ASSUME NEW c \in Context, NEW t \in Runnable(c)
  PROVE  Refs(StartTask(c, t)) \subseteq Refs(c)
<1>1. t \in c.tasks
  BY DEF Runnable
<1> QED
  BY <1>1 DEF Refs, StartTask, AddProvisions, Context

\* Presets are no tasks.
LEMMA RefsMark ==
  ASSUME NEW c \in Context, NEW chs \in SUBSET Probing
  PROVE  Refs(MarkProbes(c, chs)) \subseteq Refs(c)
<1>1. chs \cap Task = {}
  BY TaskAssumption
<1>2. /\ MarkProbes(c, chs).tasks = c.tasks
      /\ MarkProbes(c, chs).faulty = c.faulty
      /\ MarkProbes(c, chs).chan = c.chan \cup chs
      /\ MarkProbes(c, chs).ops = c.ops
  BY DEF MarkProbes, Context
<1> QED
  BY <1>1, <1>2 DEF Refs

\* The task in a batch of applyPresets is the one whose fault is retried.
LEMMA RefsLoad ==
  ASSUME NEW c \in Context, NEW white \in WhiteLists(c),
         NEW match \in SUBSET Eligible(c, white), NEW appended
  PROVE  LET d == LoadBatch(c, white, PresetBatch(c, white, match), appended)
         IN  Refs(d) \subseteq Refs(c) /\ Refs(ForgetFaults(d, d.chan)) \subseteq Refs(c)
<1> DEFINE b == PresetBatch(c, white, match)
           d == LoadBatch(c, white, b, appended)
           e == ForgetFaults(d, d.chan)
<1>1. b \cap Task \subseteq c.faulty
  BY TaskAssumption DEF PresetBatch, WhiteLists, Eligible
<1> HIDE DEF b
<1>2. d.tasks = c.tasks /\ d.faulty = c.faulty /\ d.chan = b /\ d.ops = c.ops
  BY DEF LoadBatch, ClearProvisions, Context
<1>3. e.tasks = d.tasks /\ e.faulty \subseteq d.faulty /\ e.chan = d.chan /\ e.ops = d.ops
  BY DEF ForgetFaults, LoadBatch, ClearProvisions, Context
<1> HIDE DEF d, e
<1>4. Refs(d) \subseteq Refs(c) /\ Refs(e) \subseteq Refs(c)
  BY <1>1, <1>2, <1>3 DEF Refs
<1> QED
  BY <1>4 DEF e, d, b

(***************************************************************************)
(* The steps, by what they do to the queue.  A step of a session gives it  *)
(* a context with no new reference, and counts the tasks ts as executed.   *)
(***************************************************************************)
Move(s, from, to, c, ts) ==
  /\ Go(s, from, to, c)
  /\ Refs(c) \subseteq created
  /\ ts \subseteq created
  /\ ran' = ran \cup ts
  /\ faults' \cap Task \subseteq created
  /\ OpChannels(operations') \cap Task \subseteq created
  /\ UNCHANGED <<created, expired, stalls>>

\* The session works on, ends, or is not at work.
Passes(s) ==
  \E from, to, c :
    Move(s, from, to, c, {}) /\ tasks' = tasks /\ (to \in InSession => from \in InSession)

Carries(s) ==
  \E from, to \in InSession : \E c, ts : Move(s, from, to, c, ts) /\ tasks' = tasks

Begins(s) ==
  /\ Move(s, "reading", "locked", ctx[s], {})
  /\ LockIsFree(s)
  /\ tasks' = tasks

Clears(s) ==
  \E c : Move(s, "saving", "saving", c, {}) /\ tasks' = tasks \ ctx[s].done

Effect(s) == Passes(s) \/ Carries(s) \/ Begins(s) \/ Clears(s)

\* A step within a session, or out of it.
LEMMA PassLocal ==
  ASSUME RefsInv, NEW s \in Session, NEW from, NEW to, NEW c,
         Local(s, from, to, c), Refs(c) \subseteq created,
         to \in InSession => from \in InSession
  PROVE  Passes(s)
<1>1. Move(s, from, to, c, {}) /\ tasks' = tasks
  BY DEF Local, store, world, past, bounds, Move, RefsInv
<1> QED
  BY <1>1 DEF Passes

\* Writing an answer.
LEMMA PassWrite ==
  ASSUME RefsInv, NEW s \in Session, NEW from \in InSession, NEW to, NEW c,
         WriteResponse(s, from, to, c), Refs(c) \subseteq created,
         UNCHANGED <<store, ran, world, bounds>>
  PROVE  Passes(s)
<1>1. CASE Go(s, from, to, c)
  <2>1. Move(s, from, to, c, {}) /\ tasks' = tasks
    BY <1>1 DEF store, world, bounds, Move, RefsInv
  <2> QED
    BY <2>1 DEF Passes
<1>2. CASE Go(s, from, "lost", NoContext)
  <2>1. Move(s, from, "lost", NoContext, {}) /\ tasks' = tasks
    BY <1>2, RefsNone DEF store, world, bounds, Move, RefsInv
  <2> QED
    BY <2>1 DEF Passes, InSession
<1> QED
  BY <1>1, <1>2 DEF WriteResponse

\* A response passes: it does nothing to the queue.
LEMMA PassRespond ==
  ASSUME RefsInv, NEW s \in Session, NEW from \in InSession, NEW to, NEW c,
         Respond(s, from, to, c), Refs(c) \subseteq created
  PROVE  Passes(s)
<1>1. UNCHANGED <<store, ran, world, bounds>>
  BY DEF Respond, past
<1> QED
  BY <1>1, PassWrite DEF Respond

\* The end of a session reached while its presets are applied.
LEMMA CarryClose ==
  ASSUME RefsInv, NEW s \in Session, NEW from \in InSession, NEW c \in Context, NEW ts,
         Close(s, from, c), Refs(c) \subseteq created, ts \subseteq created,
         ran' = ran \cup ts, UNCHANGED <<store, world, stalls>>
  PROVE  Carries(s)
<1>1. PICK d \in Context : Go(s, from, "saving", EndSession(d)) /\ Refs(d) \subseteq created
  BY ClearType, RefsClear DEF Close
<1>2. Move(s, from, "saving", EndSession(d), ts) /\ tasks' = tasks
  BY <1>1, RefsEnd DEF store, world, Move, RefsInv
<1> QED
  BY <1>2 DEF Carries, InSession

\* The Inform and the reads that follow it.
LEMMA ReadEffect ==
  ASSUME RefsInv, NEW s \in Session,
         \/ \E known \in SUBSET Probing : Inform(s, known)
         \/ ReadTasks(s)
         \/ \E due \in SUBSET faults : ReadFaults(s, due)
         \/ ReadOperations(s)
  PROVE  Passes(s)
<1> DEFINE c == ctx[s]
           known == Refs(c) \cup tasks \cup ((faults \cup OpChannels(operations)) \cap Task)
<1>1. PICK from, d : Local(s, from, "reading", d) /\ Refs(d) \subseteq known
  <2>1. ASSUME NEW params \in SUBSET Probing, Inform(s, params)
        PROVE  \E from, d : Local(s, from, "reading", d) /\ Refs(d) \subseteq known
    <3> DEFINE d == [NoContext EXCEPT !.tasks = tasks, !.expired = expired,
                                      !.fetched = params,
                                      !.toRead = {"tasks", "faults", "operations"}]
    <3>1. d.tasks = tasks /\ d.faulty = {} /\ d.chan = {} /\ OpChannels(d.ops) = {}
      BY DEF NoContext, OpChannels
    <3>2. Local(s, "idle", "reading", d)
      BY <2>1 DEF Inform
    <3> QED
      BY <3>1, <3>2 DEF Refs
  <2>2. CASE ReadTasks(s)
    <3> DEFINE d == [c EXCEPT !.tasks = @ \cap tasks, !.toRead = @ \ {"tasks"}]
    <3>1. d.tasks \subseteq c.tasks /\ d.faulty = c.faulty /\ d.chan = c.chan
          /\ d.ops = c.ops
      BY DEF RefsInv, QueueInv, SessionInv, SessionTypeOK, Context
    <3>2. Local(s, "reading", "reading", d)
      BY <2>2 DEF ReadTasks
    <3> QED
      BY <3>1, <3>2 DEF Refs
  <2>3. ASSUME NEW due \in SUBSET faults, ReadFaults(s, due)
        PROVE  \E from, d : Local(s, from, "reading", d) /\ Refs(d) \subseteq known
    <3> DEFINE keep == faults \ DiscardedFaults(c)
               d == [c EXCEPT !.faulty = keep, !.due = due,
                              !.timed = timed \cap keep, !.retried = keep,
                              !.touched = DiscardedFaults(c), !.toRead = @ \ {"faults"}]
    <3>1. d.tasks = c.tasks /\ d.faulty \subseteq faults /\ d.chan = c.chan
          /\ d.ops = c.ops
      BY DEF RefsInv, QueueInv, SessionInv, SessionTypeOK, Context
    <3>2. Local(s, "reading", "reading", d)
      BY <2>3 DEF ReadFaults
    <3> QED
      BY <3>1, <3>2 DEF Refs
  <2>4. CASE ReadOperations(s)
    <3> DEFINE d == [c EXCEPT !.ops = operations, !.toRead = @ \ {"operations"}]
    <3>1. d.tasks = c.tasks /\ d.faulty = c.faulty /\ d.chan = c.chan
          /\ d.ops = operations
      BY DEF RefsInv, QueueInv, SessionInv, SessionTypeOK, Context
    <3>2. Local(s, "reading", "reading", d)
      BY <2>4 DEF ReadOperations
    <3> QED
      BY <3>1, <3>2 DEF Refs
  <2> QED
    BY <2>1, <2>2, <2>3, <2>4
<1>2. Refs(d) \subseteq created
  BY <1>1 DEF RefsInv
<1> QED
  BY <1>1, <1>2, PassLocal DEF InSession

\* nextRpc, when no batch is loaded.
LEMMA NextTaskEffect ==
  ASSUME RefsInv, NEW s \in Session, NextTask(s)
  PROVE  Carries(s)
<1> DEFINE c == DropExpired(CompleteBatch(ctx[s]))
<1>1. ctx[s] \in Context /\ Refs(ctx[s]) \subseteq created
  BY DEF RefsInv, QueueInv, SessionInv, SessionTypeOK
<1>2. c \in Context /\ Refs(c) \subseteq created
  BY <1>1, CompleteType, DropType, RefsNext
<1>3. ctx[s].chan \cap Task \subseteq created
  BY <1>1 DEF Refs
<1> HIDE DEF c
<1>4. PICK to \in {"presets", "next"} : \E d : Go(s, "next", to, d) /\ Refs(d) \subseteq created
  BY <1>2, RefsStart DEF NextTask, Oldest, c
<1>5. PICK d : Go(s, "next", to, d) /\ Refs(d) \subseteq created
  BY <1>4
<1>6. Move(s, "next", to, d, ctx[s].chan \cap Task) /\ tasks' = tasks
  BY <1>3, <1>5 DEF NextTask, store, world, bounds, Move, RefsInv
<1> QED
  BY <1>6 DEF Carries, InSession

\* applyPresets, when its conditions ask for parameters.
LEMMA ProbeEffect ==
  ASSUME RefsInv, NEW s \in Session, Probe(s)
  PROVE  Passes(s)
<1>1. PICK chs \in SUBSET Probing :
        \/ ProbeFault(s, MarkProbes(ctx[s], chs))
        \/ ProbeSend(s, MarkProbes(ctx[s], chs))
  BY DEF Probe
<1> DEFINE c == MarkProbes(ctx[s], chs)
<1>2. c \in Context /\ Refs(c) \subseteq created
  BY TaskAssumption, MarkType, RefsMark DEF RefsInv, QueueInv, SessionInv, SessionTypeOK, Channel
<1> HIDE DEF c
<1>3. Refs(RecordFault(c)) \subseteq created
  BY <1>2, RefsRecord
<1>4. ProbeFault(s, c) \/ ProbeSend(s, c)
  BY <1>1 DEF c
<1>5. CASE ProbeFault(s, c)
  BY <1>3, <1>5, PassLocal DEF ProbeFault, InSession
<1>6. CASE ProbeSend(s, c)
  BY <1>2, <1>6, PassRespond DEF ProbeSend, InSession
<1> QED
  BY <1>4, <1>5, <1>6

\* applyPresets with its conditions decided, and a batch made of them.
LEMMA BatchEffect ==
  ASSUME RefsInv, NEW s \in Session, NEW white, NEW c \in Context,
         Refs(c) \subseteq created, Refs(ForgetFaults(c, c.chan)) \subseteq created,
         PresetLoop(s, c) \/ PresetFault(s, c) \/ PresetSend(s, c)
           \/ PresetDone(s, white, c)
  PROVE  Passes(s) \/ Carries(s)
<1>1. Refs(RecordFault(c)) \subseteq created /\ RecordFault(c) \in Context
  BY RefsRecord, RecordType
<1>2. CASE PresetLoop(s, c)
  <2>1. CASE Close(s, "presets", RecordFault(c)) /\ UNCHANGED <<store, past, world, stalls>>
    <3> DEFINE none == {}
    <3>1. ran' = ran \cup none /\ none \subseteq created
      BY <2>1 DEF past
    <3> HIDE DEF none
    <3>2. "presets" \in InSession /\ UNCHANGED <<store, world, stalls>>
      BY <2>1 DEF InSession
    <3> QED
      BY <1>1, <2>1, <3>1, <3>2, CarryClose
  <2>2. CASE Local(s, "presets", "lost", NoContext)
    BY <2>2, RefsNone, PassLocal DEF InSession
  <2> QED
    BY <1>2, <2>1, <2>2 DEF PresetLoop
<1>3. CASE PresetFault(s, c)
  BY <1>1, <1>3, PassLocal DEF PresetFault, InSession
<1>4. CASE PresetSend(s, c)
  BY <1>4, PassRespond DEF PresetSend, InSession
<1>5. CASE PresetDone(s, white, c)
  <2> DEFINE d == ForgetFaults(c, c.chan)
             ts == c.chan \cap Task
  <2>1. /\ ran' = ran \cup ts /\ UNCHANGED <<store, world, stalls>>
        /\ ts \subseteq created /\ d \in Context
    BY <1>5, ForgetType DEF PresetDone, Refs
  <2> HIDE DEF ts
  <2>2. CASE Go(s, "presets", "presets", d)
    <3>1. Move(s, "presets", "presets", d, ts) /\ tasks' = tasks
      BY <2>1, <2>2 DEF store, world, Move, RefsInv
    <3> QED
      BY <3>1 DEF Carries, InSession
  <2>3. CASE Close(s, "presets", d)
    BY <2>1, <2>3, CarryClose DEF InSession
  <2> QED
    BY <1>5, <2>2, <2>3 DEF PresetDone
<1> QED
  BY <1>2, <1>3, <1>4, <1>5

\* applyPresets with its conditions decided.
LEMMA ApplyEffect ==
  ASSUME RefsInv, NEW s \in Session, ApplyPresets(s)
  PROVE  Passes(s) \/ Carries(s)
<1>1. PICK white \in WhiteLists(ctx[s]) :
        \E match \in SUBSET Eligible(ctx[s], white) :
          \E appended \in SUBSET match : ApplyBatch(s, white, match, appended)
  BY DEF ApplyPresets
<1>2. PICK match \in SUBSET Eligible(ctx[s], white) :
        \E appended \in SUBSET match : ApplyBatch(s, white, match, appended)
  BY <1>1
<1>3. PICK appended \in SUBSET match : ApplyBatch(s, white, match, appended)
  BY <1>2
<1> DEFINE b == PresetBatch(ctx[s], white, match)
           c == LoadBatch(ctx[s], white, b, appended)
<1>4. ctx[s] \in Context /\ Refs(ctx[s]) \subseteq created
  BY DEF RefsInv, QueueInv, SessionInv, SessionTypeOK
<1>5. b \subseteq Channel /\ appended \subseteq Channel
  BY <1>4 DEF PresetBatch, WhiteLists, Eligible, Context, Channel
<1>6. c \in Context
  BY <1>4, <1>5, LoadType
<1>7. Refs(c) \subseteq created /\ Refs(ForgetFaults(c, c.chan)) \subseteq created
  BY <1>4, RefsLoad
<1>8. PresetLoop(s, c) \/ PresetFault(s, c) \/ PresetSend(s, c) \/ PresetDone(s, white, c)
  BY <1>3 DEF ApplyBatch
<1> HIDE DEF c
<1> QED
  BY <1>6, <1>7, <1>8, BatchEffect

\* The writes of endSession.
LEMMA SaveEffect ==
  ASSUME RefsInv, NEW s \in Session,
         \/ SaveDevice(s) \/ ClearTasks(s)
         \/ \E ch \in Channel : SaveFault(s, ch)
         \/ \E k \in Key : SaveOperation(s, k)
  PROVE  Passes(s) \/ Clears(s)
<1> DEFINE c == ctx[s]
<1>1. c \in Context /\ Refs(c) \subseteq created
  BY DEF RefsInv, QueueInv, SessionInv, SessionTypeOK
<1>2. CASE SaveDevice(s)
  <2> DEFINE d == [c EXCEPT !.toWrite = @ \ {"device"}]
  <2>1. d.tasks = c.tasks /\ d.faulty = c.faulty /\ d.chan = c.chan
        /\ d.ops = c.ops
    BY <1>1 DEF Context
  <2>2. Local(s, "saving", "saving", d)
    BY <1>2 DEF SaveDevice
  <2> HIDE DEF c, d
  <2> QED
    BY <1>1, <2>1, <2>2, PassLocal DEF Refs
<1>3. CASE ClearTasks(s)
  <2> DEFINE d == [c EXCEPT !.toWrite = @ \ {"tasks"}]
  <2>1. d.tasks = c.tasks /\ d.faulty = c.faulty /\ d.chan = c.chan
        /\ d.ops = c.ops
    BY <1>1 DEF Context
  <2>2. Go(s, "saving", "saving", d) /\ tasks' = tasks \ c.done
    BY <1>3 DEF ClearTasks
  <2>3. UNCHANGED <<ran, created, expired, stalls, faults, operations>>
    BY <1>3 DEF ClearTasks, past, world, bounds
  <2> HIDE DEF d
  <2>4. Move(s, "saving", "saving", d, {})
    BY <1>1, <2>1, <2>2, <2>3 DEF Move, Refs, RefsInv
  <2> QED
    BY <2>2, <2>4 DEF Clears
<1>4. ASSUME NEW ch \in Channel, SaveFault(s, ch)
      PROVE  Passes(s)
  <2> DEFINE d == [c EXCEPT !.toSave = @ \ {ch}]
  <2>1. d.tasks = c.tasks /\ d.faulty = c.faulty /\ d.chan = c.chan
        /\ d.ops = c.ops
    BY <1>1 DEF Context
  <2>2. Go(s, "saving", "saving", d) /\ tasks' = tasks
    BY <1>4 DEF SaveFault
  <2>3. UNCHANGED <<ran, created, expired, stalls, operations>>
    BY <1>4 DEF SaveFault, past, world, bounds
  <2>4. faults' \subseteq faults \cup (c.faulty \cap {ch})
    BY <1>4 DEF SaveFault
  <2> HIDE DEF d, c
  <2>5. Move(s, "saving", "saving", d, {})
    BY <1>1, <2>1, <2>2, <2>3, <2>4 DEF Move, Refs, RefsInv
  <2> QED
    BY <2>2, <2>5 DEF Passes
<1>5. ASSUME NEW k \in Key, SaveOperation(s, k)
      PROVE  Passes(s)
  <2> DEFINE d == [c EXCEPT !.opsTouched = @ \ {k}]
  <2>1. d.tasks = c.tasks /\ d.faulty = c.faulty /\ d.chan = c.chan
        /\ d.ops = c.ops
    BY <1>1 DEF Context
  <2>2. Go(s, "saving", "saving", d) /\ tasks' = tasks
    BY <1>5 DEF SaveOperation
  <2>3. UNCHANGED <<ran, created, expired, stalls, faults>>
    BY <1>5 DEF SaveOperation, past, world, bounds
  <2>4. \A op \in operations' : op \in operations \/ op \in c.ops
    BY <1>5 DEF SaveOperation
  <2>5. OpChannels(operations') \subseteq OpChannels(operations) \cup OpChannels(c.ops)
    BY <2>4 DEF OpChannels
  <2> HIDE DEF d, c
  <2>6. Move(s, "saving", "saving", d, {})
    BY <1>1, <2>1, <2>2, <2>3, <2>5 DEF Move, Refs, RefsInv
  <2> QED
    BY <2>2, <2>6 DEF Passes
<1> QED
  BY <1>2, <1>3, <1>4, <1>5

\* Downloads that end.
LEMMA TransferEffect ==
  ASSUME RefsInv, NEW s \in Session, NEW op \in ctx[s].ops,
         TransferComplete(s, op) \/ TimeoutOperation(s, op)
  PROVE  Passes(s)
<1> DEFINE f == ForgetOperation(ctx[s], op)
           d == OperationFault(ctx[s], op)
<1>1. ctx[s] \in Context /\ Refs(ctx[s]) \subseteq created
  BY DEF RefsInv, QueueInv, SessionInv, SessionTypeOK
<1>2. Refs(f) \subseteq created /\ Refs(d) \subseteq created
  BY <1>1, RefsOperation
<1> HIDE DEF f, d
<1>3. CASE TransferComplete(s, op)
  <2>1. /\ WriteResponse(s, "locked", "locked", f) \/ WriteResponse(s, "locked", "locked", d)
        /\ UNCHANGED <<store, ran, world, bounds>>
    BY <1>3 DEF TransferComplete, f, d
  <2> QED
    BY <1>2, <2>1, PassWrite DEF InSession
<1>4. CASE TimeoutOperation(s, op)
  <2>1. Go(s, "empty", "empty", d) /\ UNCHANGED <<store, ran, world, bounds>>
    BY <1>4 DEF TimeoutOperation, d
  <2>2. Move(s, "empty", "empty", d, {}) /\ tasks' = tasks
    BY <1>2, <2>1 DEF store, world, bounds, Move, RefsInv
  <2> QED
    BY <2>2 DEF Passes
<1> QED
  BY <1>3, <1>4

\* What the CPE does next.
LEMMA CpeEffect ==
  ASSUME RefsInv, NEW s \in Session, Cpe(s) \/ CpeRequest(s) \/ StartRpcs(s)
  PROVE  Passes(s)
<1> DEFINE c == ctx[s]
<1>1. c \in Context /\ Refs(c) \subseteq created
  BY DEF RefsInv, QueueInv, SessionInv, SessionTypeOK
<1>2. CASE EmptyRequest(s) \/ StartRpcs(s)
  BY <1>1, <1>2, PassLocal DEF EmptyRequest, StartRpcs, InSession
<1>3. CASE CpeResponse(s) \/ \E k \in Key : BeginDownload(s, k)
  <2>1. PICK d : Local(s, "wait", "next", d) /\ Refs(d) \subseteq Refs(c)
    BY <1>1, <1>3, RefsAnswered DEF CpeResponse, BeginDownload
  <2> QED
    BY <1>1, <2>1, PassLocal DEF InSession
<1>4. CASE CpeFault(s)
  BY <1>1, <1>4, RefsRecord, PassLocal DEF CpeFault, InSession
<1>5. CASE Terminate(s)
  <2>1. PICK from \in {"locked", "wait"} : Go(s, from, "saving", EndSession(c))
    BY <1>5 DEF Terminate
  <2>2. Move(s, from, "saving", EndSession(c), {}) /\ tasks' = tasks
    BY <1>1, <1>5, <2>1, RefsEnd DEF Terminate, Move, store, past, world, RefsInv
  <2> QED
    BY <2>2 DEF Passes, InSession
<1>6. CASE CpeRequest(s)
  BY <1>1, <1>6, PassRespond DEF CpeRequest, InSession
<1> QED
  BY <1>2, <1>3, <1>4, <1>5, <1>6 DEF Cpe

\* The steps around the lock, and those that lose a session.
LEMMA LockEffect ==
  ASSUME RefsInv, NEW s \in Session,
         \/ Lock(s) \/ Refuse(s) \/ Unauthorized(s) \/ Release(s) \/ LockExpired(s)
         \/ Crash(s) \/ ExpireLock(s)
  PROVE  Passes(s) \/ Begins(s)
<1>1. UNCHANGED <<tasks, faults, operations, ran, created, expired, stalls>>
  BY DEF Lock, Refuse, Unauthorized, Release, LockExpired, Crash, ExpireLock,
         Local, store, past, world, bounds
<1>2. CASE Lock(s)
  BY <1>1, <1>2 DEF Lock, Move, Begins, RefsInv
<1>3. CASE \/ Refuse(s) \/ Unauthorized(s) \/ Release(s) \/ LockExpired(s)
           \/ Crash(s) \/ ExpireLock(s)
  <2>1. PICK to \in {"idle", "lost"} : \E from : Go(s, from, to, NoContext)
    BY <1>3 DEF Refuse, Unauthorized, Release, LockExpired, Crash, ExpireLock, Local
  <2>2. PICK from : Go(s, from, to, NoContext)
    BY <2>1
  <2>3. Move(s, from, to, NoContext, {})
    BY <1>1, <2>2, RefsNone DEF Move, RefsInv
  <2> QED
    BY <1>1, <2>3 DEF Passes, InSession
<1> QED
  BY <1>2, <1>3

\* Every step of a session that is not stalled.
LEMMA SessionEffect ==
  ASSUME RefsInv, NEW s \in Session, SessionNext(s), ~ Stall(s)
  PROVE  Effect(s)
<1>1. ctx[s] \in Context /\ Refs(ctx[s]) \subseteq created
  BY DEF RefsInv, QueueInv, SessionInv, SessionTypeOK
<1>2. CASE NextFault(s)
  BY <1>1, <1>2, RefsRecord, PassLocal DEF NextFault, InSession, Effect
<1>3. CASE NextSend(s)
  BY <1>1, <1>3, PassRespond DEF NextSend, InSession, Effect
<1> QED
  BY <1>2, <1>3, ReadEffect, NextTaskEffect, ProbeEffect, ApplyEffect, SaveEffect,
     TransferEffect, CpeEffect, LockEffect DEF SessionNext, Handler, Effect

(***************************************************************************)
(* The invariant.                                                          *)
(***************************************************************************)
\* RefsInv holds at first.
LEMMA RefsInvInit == Init => RefsInv
BY QueueInvInit, LockInvInit, RefsNone DEF Init, RefsInv, OpChannels

\* Every step keeps RefsInv.
LEMMA RefsInvNext == RefsInv /\ [Next]_vars => RefsInv'
<1> SUFFICES ASSUME RefsInv, [Next]_vars PROVE RefsInv'
  OBVIOUS
<1> DEFINE Queued == /\ tasks \subseteq created
                     /\ faults \cap Task \subseteq created
                     /\ OpChannels(operations) \cap Task \subseteq created
                     /\ \A s \in Session : Refs(ctx[s]) \subseteq created
<1>1. QueueInv' /\ LockInv'
  BY QueueInvNext, LockInvNext DEF RefsInv, QueueInv, SessionInv
<1>2. ASSUME NEW t \in Task, InsertTask(t) \/ PassExpiry(t)
      PROVE  Queued'
  <2>1. UNCHANGED <<faults, operations, ctx>> /\ created \subseteq created' /\ tasks' \subseteq created'
    BY <1>2 DEF InsertTask, PassExpiry, store, RefsInv
  <2> QED
    BY <2>1 DEF RefsInv
<1>3. ASSUME UNCHANGED vars
      PROVE  Queued'
  BY <1>3 DEF vars, RefsInv
<1>4. ASSUME NEW s \in Session, SessionNext(s)
      PROVE  Queued'
  <2>1. CASE Stall(s)
    BY <2>1 DEF Stall, store, world, RefsInv
  <2>2. CASE Effect(s)
    <3>1. PICK from, to, c, ts : Move(s, from, to, c, ts) /\ tasks' \subseteq tasks
      BY <2>2 DEF Effect, Passes, Carries, Begins, Clears
    <3>2. \A r \in Session : Refs(ctx'[r]) \subseteq created
      BY <3>1 DEF Move, Go, RefsInv, QueueInv, SessionInv, SessionTypeOK
    <3> QED
      BY <3>1, <3>2 DEF Move, RefsInv
  <2> QED
    BY <1>4, <2>1, <2>2, SessionEffect
<1> QED
  BY <1>1, <1>2, <1>3, <1>4 DEF Next, RefsInv

(***************************************************************************)
(* The simulation.  LockHeld makes a session at work the only one, and the *)
(* one that begins the first, until there is a stall.                      *)
(***************************************************************************)
\* What a step of one session does to the set of sessions at work.
LEMMA AtWorkStep ==
  ASSUME RefsInv, stalls = 0, NEW s \in Session,
         NEW from, NEW to, NEW c, Go(s, from, to, c)
  PROVE  /\ from \in InSession => AtWork = {s}
         /\ AtWork' = IF to \in InSession THEN AtWork \cup {s} ELSE AtWork \ {s}
<1>1. pc \in [Session -> Label] /\ pc[s] = from /\ pc' = [pc EXCEPT ![s] = to]
  BY DEF RefsInv, QueueInv, SessionInv, SessionTypeOK, Go
<1>2. ASSUME NEW r \in Session, r # s
      PROVE  pc'[r] = pc[r]
  BY <1>1, <1>2
<1>3. pc'[s] = to
  BY <1>1
<1>4. AtWork' = IF to \in InSession THEN AtWork \cup {s} ELSE AtWork \ {s}
  BY <1>2, <1>3 DEF AtWork
<1>5. \A r \in AtWork : lock = r
  BY DEF RefsInv, LockInv, LockHeld, AtWork
<1>6. from \in InSession => AtWork = {s}
  BY <1>1, <1>5 DEF AtWork
<1> QED
  BY <1>4, <1>6

\* A step of a session maps to a step of TaskQueue, or changes nothing there.
LEMMA EffectSimulates ==
  ASSUME RefsInv, stalls = 0, NEW s \in Session, Effect(s)
  PROVE  Abstract!Next \/ UNCHANGED <<created, tasks, ran, expired, AtWork, stalls>>
<1>1. CASE Passes(s)
  <2>1. PICK from, to, c : /\ Move(s, from, to, c, {}) /\ tasks' = tasks
                           /\ to \in InSession => from \in InSession
    BY <1>1 DEF Passes
  <2>2. UNCHANGED <<created, tasks, ran, expired, stalls>> /\ Go(s, from, to, c)
    BY <2>1 DEF Move
  <2>3. CASE from \in InSession /\ to \notin InSession
    <3>1. AtWork = {s} /\ AtWork' = {}
      BY <2>2, <2>3, AtWorkStep
    <3> QED
      BY <2>2, <3>1 DEF Abstract!Next, Abstract!End
  <2>4. CASE from \in InSession <=> to \in InSession
    <3>1. AtWork' = AtWork
      <4>1. CASE to \in InSession
        BY <2>2, <2>4, <4>1, AtWorkStep
      <4>2. CASE to \notin InSession
        <5>1. s \notin AtWork
          BY <2>2, <2>4, <4>2 DEF AtWork, Go
        <5> QED
          BY <2>2, <4>2, <5>1, AtWorkStep
      <4> QED
        BY <4>1, <4>2
    <3> QED
      BY <2>2, <3>1
  <2> QED
    BY <2>1, <2>3, <2>4
<1>2. CASE Carries(s)
  <2>1. PICK from \in InSession, to \in InSession :
          \E c, ts : Move(s, from, to, c, ts) /\ tasks' = tasks
    BY <1>2 DEF Carries
  <2>2. PICK c, ts : Move(s, from, to, c, ts) /\ tasks' = tasks
    BY <2>1
  <2>3. AtWork = {s} /\ AtWork' = {s}
    BY <2>2, AtWorkStep DEF Move
  <2>4. /\ ts \subseteq created /\ created \subseteq Task /\ ran' = ran \cup ts
        /\ UNCHANGED <<created, tasks, expired>>
    BY <2>2 DEF Move, RefsInv, QueueInv, SessionInv, SessionTypeOK
  <2> QED
    BY <2>3, <2>4 DEF Abstract!Next, Abstract!Execute
<1>3. CASE Begins(s)
  <2>1. Move(s, "reading", "locked", ctx[s], {}) /\ tasks' = tasks /\ LockIsFree(s)
    BY <1>3 DEF Begins
  <2>2. UNCHANGED <<created, tasks, ran, expired, stalls>> /\ Go(s, "reading", "locked", ctx[s])
    BY <2>1 DEF Move
  <2>3. AtWork = {}
    BY <2>1, <2>2, SessionAssumption
    DEF AtWork, RefsInv, LockInv, LockHeld, LockIsFree, Go, InSession
  <2>4. AtWork' = {s}
    BY <2>2, <2>3, AtWorkStep DEF InSession
  <2> QED
    BY <2>2, <2>3, <2>4 DEF Abstract!Next, Abstract!Begin
<1>4. CASE Clears(s)
  <2>1. PICK c : Move(s, "saving", "saving", c, {}) /\ tasks' = tasks \ ctx[s].done
    BY <1>4 DEF Clears
  <2>2. UNCHANGED <<created, ran, expired>> /\ Go(s, "saving", "saving", c)
    BY <2>1 DEF Move
  <2>3. AtWork = {s} /\ AtWork' = {s}
    BY <2>2, AtWorkStep DEF InSession
  <2>4. ctx[s].done \subseteq ran \cup (expired \cup InvalidTask) /\ ctx[s].done \in SUBSET Task
    BY DEF RefsInv, QueueInv, SessionInv, ContextsSound, Sound, Gone, Context
  <2> QED
    BY <2>1, <2>2, <2>3, <2>4 DEF Abstract!Next, Abstract!Remove
<1> QED
  BY <1>1, <1>2, <1>3, <1>4 DEF Effect

\* Until a session is stalled past the expiry of its lock, the sessions of a
\* device behave as one worker at a time on an at-least-once queue.
THEOREM Refinement == Spec => ImplementsTaskQueue
<1> DEFINE Step == [stalls' > 0 \/ Abstract!Next]_<<Abstract!vars, stalls>>
<1>1. Init => Abstract!Init
  BY TaskAssumption, SessionAssumption
  DEF Init, Abstract!Init, AtWork, InSession
<1>2. RefsInv /\ [Next]_vars => Step
  <2> SUFFICES ASSUME RefsInv, [Next]_vars, ~ (stalls' > 0)
               PROVE  Step
    OBVIOUS
  <2>1. ASSUME NEW t \in Task, InsertTask(t)
        PROVE  Step
    <3>1. AtWork' = AtWork
      BY <2>1 DEF InsertTask, AtWork
    <3> QED
      BY <2>1, <3>1 DEF InsertTask, past, Abstract!Next, Abstract!Queue
  <2>2. ASSUME NEW t \in Task, PassExpiry(t)
        PROVE  Step
    <3>1. AtWork' = AtWork
      BY <2>2 DEF PassExpiry, AtWork
    <3> QED
      BY <2>2, <3>1 DEF PassExpiry, store, past, Abstract!Next, Abstract!Void
  <2>3. ASSUME NEW s \in Session, SessionNext(s)
        PROVE  Step
    <3>1. stalls \in Nat
      BY SessionAssumption DEF RefsInv, QueueInv, SessionInv, SessionTypeOK
    <3>2. ~ Stall(s)
      BY <3>1 DEF Stall
    <3>3. Effect(s)
      BY <2>3, <3>2, SessionEffect DEF RefsInv
    <3>4. stalls = 0
      BY <3>1, <3>3 DEF Effect, Passes, Carries, Begins, Clears, Move
    <3> QED
      BY <3>3, <3>4, EffectSimulates DEF Abstract!vars
  <2>4. CASE UNCHANGED vars
    <3>1. AtWork' = AtWork
      BY <2>4 DEF vars, AtWork
    <3> QED
      BY <2>4, <3>1 DEF vars, Abstract!vars
  <2> QED
    BY <2>1, <2>2, <2>3, <2>4 DEF Next
<1> QED
  BY <1>1, <1>2, RefsInvInit, RefsInvNext, PTL DEF Spec, ImplementsTaskQueue
=============================================================================
