------------------------- MODULE NbiAnswers_proofs -------------------------
(***************************************************************************)
(* The theorem of NbiRequests on its answers: a task that a POST reports   *)
(* as done was executed, for any number of requests, sessions and tasks    *)
(* and any lists of tasks.                                                 *)
(*                                                                         *)
(* A request that has inserted its tasks, when no session had read the     *)
(* queue, finds each of them in every session that comes after: the        *)
(* session has the task, or it has a fault for it that it is yet to save,  *)
(* or the fault is saved.  When the request sees that a session has ended, *)
(* no fault for a task means that it was carried through.                  *)
(***************************************************************************)
EXTENDS NbiRequests_proofs

\* No session is cut short, and no preset may cut one short.
Quiet == crashes = 0 /\ drops = 0 /\ stalls = 0 /\ PresetChannel = {}

Settled(t) == t \in Gone(ran, expired)

(***************************************************************************)
(* The sessions.                                                           *)
(***************************************************************************)
\* Without crashes no session is lost; the lock is that of a session at work;
\* one that is not at its end has had no cycle of presets; and faults are
\* forgotten only for channels of the batch.
Calm(s) ==
  /\ pc[s] # "lost"
  /\ lock = s => pc[s] \in InSession
  /\ pc[s] # "saving" => ctx[s].cycles = 0
  /\ ctx[s].work \subseteq ctx[s].chan

\* A context that has the task t, and is to save the fault it has for it.
Carries(c, t, fs) == t \in c.tasks /\ (t \in c.faulty => t \in c.touched \cup fs)

\* Where the session does not execute the task it leaves a fault.
Carrying(s, t) ==
  /\ pc[s] \in {"reading", "locked", "empty", "next", "presets", "wait"}
       => Carries(ctx[s], t, faults)
  /\ pc[s] = "presets" => t \in ctx[s].faulty
  /\ pc[s] = "saving" => t \in ctx[s].faulty /\ t \in ctx[s].toSave \cup faults

\* The task is queued and carried, and the step does not execute it.
Owed(s, t) == t \in tasks /\ Carrying(s, t) /\ ~ Settled(t)'

\* What a step of a session does for such a task.
Kept(s) ==
  /\ Calm(s)'
  /\ \A t \in Task :
       Owed(s, t) => /\ Carrying(s, t)'
                     /\ pc[s] \in InSession /\ pc'[s] \notin InSession => t \in faults'

\* The invariants the steps of a session start from.
Before == SessionInv /\ LockHeld /\ Quiet /\ \A s \in Session : Calm(s)

\* There are no channels but tasks.
LEMMA QuietChannels ==
  ASSUME Quiet
  PROVE  Channel = Task /\ PresetChannel = {} /\ Probing = {}
BY TaskAssumption DEF Quiet, Channel

\* recordFault, and the deletion of other faults.
LEMMA CarryRecord ==
  ASSUME NEW c \in Context, NEW t, NEW fs, Carries(c, t, fs)
  PROVE  /\ Carries(RecordFault(c), t, fs)
         /\ t \in c.faulty => t \in RecordFault(c).faulty
BY RecordFields DEF Carries

\* The completion of a batch the task is not in.
LEMMA CarryComplete ==
  ASSUME NEW c \in Context, NEW t, NEW fs, Carries(c, t, fs), c.work \subseteq c.chan,
         t \notin c.chan, t \notin c.expired
  PROVE  LET d == DropExpired(CompleteBatch(c))
         IN  d \in Context /\ Carries(d, t, fs) /\ d.work = {} /\ d.chan = {} /\ d.cycles = c.cycles
<1> DEFINE d == CompleteBatch(c)
<1>1. /\ d \in Context /\ Carries(d, t, fs) /\ d.expired = c.expired
      /\ d.work = {} /\ d.chan = {} /\ d.cycles = c.cycles
  BY CompleteType, CompleteFields DEF Carries
<1> HIDE DEF d
<1>2. /\ DropExpired(d) \in Context /\ Carries(DropExpired(d), t, fs)
      /\ DropExpired(d).work = {} /\ DropExpired(d).chan = {}
      /\ DropExpired(d).cycles = c.cycles
  BY <1>1, DropType, DropFields DEF Carries
<1> QED
  BY <1>2 DEF d

\* A step within a session that ends elsewhere in it, or starts one.
LEMMA CarryGo ==
  ASSUME Before, NEW s \in Session, NEW from, NEW c,
         NEW to \in {"reading", "locked", "empty", "next", "presets", "wait"},
         Go(s, from, to, c), faults' = faults,
         lock' = s \/ from \in InSession => to # "reading",
         c.cycles = 0, c.work \subseteq c.chan,
         \A t \in Task : Owed(s, t)
           => Carries(c, t, faults) /\ (to = "presets" => t \in c.faulty)
  PROVE  Kept(s)
<1>1. pc[s] = from /\ pc'[s] = to /\ ctx'[s] = c
  BY DEF Before, SessionInv, SessionTypeOK, Go
<1>2. Calm(s)'
  BY <1>1 DEF Calm, InSession
<1> QED
  BY <1>1, <1>2 DEF Kept, Owed, Carrying, InSession

\* The end of a session.
LEMMA CarryEnd ==
  ASSUME Before, NEW s \in Session, NEW from, NEW c \in Context,
         Go(s, from, "saving", EndSession(c)), faults' = faults, c.provs = FALSE,
         \A t \in Task : Owed(s, t)
           => t \in c.faulty /\ t \in c.touched \cup faults
  PROVE  Kept(s)
<1> DEFINE e == EndSession(c)
<1>1. pc[s] = from /\ pc'[s] = "saving" /\ ctx'[s] = e
  BY DEF Before, SessionInv, SessionTypeOK, Go
<1>2. e.faulty = c.faulty /\ e.toSave = c.touched /\ e.work = {}
  BY EndFields
<1> HIDE DEF e
<1>3. Calm(s)'
  BY <1>1, <1>2 DEF Calm, InSession
<1> QED
  BY <1>1, <1>2, <1>3 DEF Kept, Owed, Carrying, InSession

\* An answer is written under the lock of the session.
LEMMA CarryWrite ==
  ASSUME Before, NEW s \in Session, NEW from \in InSession, NEW c,
         NEW to \in {"locked", "next", "presets", "wait"}, WriteResponse(s, from, to, c),
         faults' = faults, c.cycles = 0, c.work \subseteq c.chan,
         \A t \in Task : Owed(s, t)
           => Carries(c, t, faults) /\ (to = "presets" => t \in c.faulty)
  PROVE  Kept(s)
<1>1. lock = s
  BY DEF Before, LockHeld, Quiet, WriteResponse, Go
<1>2. Go(s, from, to, c)
  BY <1>1 DEF WriteResponse, LockIsFree
<1> QED
  BY <1>2, CarryGo DEF InSession

\* The same when no download failed.
LEMMA CarryRespond ==
  ASSUME Before, NEW s \in Session, NEW from \in InSession, NEW c,
         NEW to \in {"locked", "next", "presets", "wait"}, Respond(s, from, to, c),
         c.cycles = 0, c.work \subseteq c.chan,
         \A t \in Task : Owed(s, t)
           => Carries(c, t, faults) /\ (to = "presets" => t \in c.faulty)
  PROVE  Kept(s)
BY CarryWrite DEF Respond, store

\* The Inform and the reads that follow it.
LEMMA CarryReading ==
  ASSUME Before, NEW s \in Session,
         \/ \E known \in SUBSET Probing : Inform(s, known)
         \/ ReadTasks(s) \/ ReadOperations(s)
         \/ \E due \in SUBSET faults : ReadFaults(s, due)
  PROVE  Kept(s)
<1> DEFINE c == ctx[s]
<1>1. c \in Context /\ c.work \subseteq c.chan /\ (pc[s] # "saving" => c.cycles = 0)
  BY DEF Before, SessionInv, SessionTypeOK, Calm
<1>2. lock = s => pc[s] \in InSession
  BY DEF Before, Calm
<1>3. ASSUME NEW known \in SUBSET Probing, Inform(s, known)
      PROVE  Kept(s)
  <2> DEFINE d == [NoContext EXCEPT !.tasks = tasks, !.expired = expired,
                                    !.fetched = known,
                                    !.toRead = {"tasks", "faults", "operations"}]
  <2>1. Go(s, "idle", "reading", d) /\ faults' = faults /\ lock' = lock /\ pc[s] = "idle"
    BY <1>3 DEF Inform, Local, Go, store
  <2>2. d.faulty = {} /\ d.work = {} /\ d.cycles = 0 /\ d.tasks = tasks
    BY DEF NoContext
  <2> HIDE DEF d
  <2> QED
    BY <1>2, <2>1, <2>2, CarryGo DEF Owed, Carries, InSession
<1>4. CASE ReadTasks(s)
  <2> DEFINE d == [c EXCEPT !.tasks = @ \cap tasks, !.toRead = @ \ {"tasks"}]
  <2>1. Go(s, "reading", "reading", d) /\ faults' = faults /\ lock' = lock /\ pc[s] = "reading"
    BY <1>4 DEF ReadTasks, Local, Go, store
  <2>2. \A t \in Task : Owed(s, t) => t \in tasks /\ Carries(c, t, faults)
    BY <2>1 DEF Owed, Carrying
  <2> HIDE DEF c
  <2>3. /\ d.tasks = c.tasks \cap tasks /\ d.faulty = c.faulty /\ d.touched = c.touched
        /\ d.work = c.work /\ d.chan = c.chan /\ d.cycles = c.cycles
    BY <1>1 DEF Context
  <2> HIDE DEF d
  <2> QED
    BY <1>1, <1>2, <2>1, <2>2, <2>3, CarryGo DEF Carries, InSession
<1>5. ASSUME NEW due \in SUBSET faults, ReadFaults(s, due)
      PROVE  Kept(s)
  <2> DEFINE drop == DiscardedFaults(c)
             keep == faults \ drop
             d == [c EXCEPT !.faulty = keep, !.due = due,
                            !.timed = timed \cap keep, !.retried = keep,
                            !.touched = drop, !.toRead = @ \ {"faults"}]
  <2>1. Go(s, "reading", "reading", d) /\ faults' = faults /\ lock' = lock /\ pc[s] = "reading"
    BY <1>5 DEF ReadFaults, Local, Go, store
  <2>2. \A t \in Task : Owed(s, t) => Carries(c, t, faults)
    BY <2>1 DEF Owed, Carrying
  <2> HIDE DEF c, drop
  <2>3. /\ d.tasks = c.tasks /\ d.faulty = faults \ drop
        /\ d.work = c.work /\ d.chan = c.chan /\ d.cycles = c.cycles
    BY <1>1 DEF Context
  <2> HIDE DEF d
  <2> QED
    BY <1>1, <1>2, <2>1, <2>2, <2>3, CarryGo DEF Carries, InSession
<1>6. CASE ReadOperations(s)
  <2> DEFINE d == [c EXCEPT !.ops = operations, !.toRead = @ \ {"operations"}]
  <2>1. Go(s, "reading", "reading", d) /\ faults' = faults /\ lock' = lock /\ pc[s] = "reading"
    BY <1>6 DEF ReadOperations, Local, Go, store
  <2>2. \A t \in Task : Owed(s, t) => Carries(c, t, faults)
    BY <2>1 DEF Owed, Carrying
  <2> HIDE DEF c
  <2>3. /\ d.tasks = c.tasks /\ d.faulty = c.faulty /\ d.touched = c.touched
        /\ d.work = c.work /\ d.chan = c.chan /\ d.cycles = c.cycles
    BY <1>1 DEF Context
  <2> HIDE DEF d
  <2> QED
    BY <1>1, <1>2, <2>1, <2>2, <2>3, CarryGo DEF Carries, InSession
<1> QED
  BY <1>3, <1>4, <1>5, <1>6

\* nextRpc, when no batch is loaded.
LEMMA CarryNextTask ==
  ASSUME Before, NEW s \in Session, NextTask(s)
  PROVE  Kept(s)
<1> DEFINE c == ctx[s]
           d == DropExpired(CompleteBatch(c))
<1>1. /\ c \in Context /\ c.work \subseteq c.chan /\ c.expired \subseteq expired
      /\ c.cycles = 0 /\ pc[s] = "next"
  BY DEF Before, SessionInv, SessionTypeOK, ContextsSound, Sound, Calm, NextTask, Go
<1>2. /\ ran' = ran \cup (c.chan \cap Task) /\ faults' = faults /\ lock' = lock
      /\ expired' = expired
  BY DEF NextTask, store, world
<1>3. d \in Context /\ d.work = {} /\ d.chan = {} /\ d.cycles = 0
  BY <1>1, CompleteType, CompleteFields, DropType, DropFields
<1>4. ASSUME NEW t \in Task, Owed(s, t)
      PROVE  Carries(d, t, faults) /\ t \notin InvalidTask
  <2>1. Carries(c, t, faults)
    BY <1>1, <1>4 DEF Owed, Carrying
  <2>2. t \notin c.chan /\ t \notin c.expired /\ t \notin InvalidTask
    BY <1>1, <1>2, <1>4 DEF Owed, Settled, Gone
  <2> HIDE DEF c
  <2> QED
    BY <1>1, <2>1, <2>2, CarryComplete
<1> HIDE DEF c, d
<1>5. CASE Runnable(d) = {} /\ Go(s, "next", "presets", d)
  <2>1. \A t \in Task : Owed(s, t) => t \in d.faulty
    BY <1>4, <1>5 DEF Runnable, Carries
  <2> QED
    BY <1>2, <1>3, <1>4, <1>5, <2>1, CarryGo
<1>6. ASSUME NEW u \in Oldest(Runnable(d)), Go(s, "next", "next", StartTask(d, u))
      PROVE  Kept(s)
  <2>1. /\ StartTask(d, u).work \subseteq StartTask(d, u).chan /\ StartTask(d, u).cycles = 0
        /\ \A t \in Task : Owed(s, t) => Carries(StartTask(d, u), t, faults)
    BY <1>3, <1>4, StartFields DEF Carries
  <2> QED
    BY <1>2, <1>6, <2>1, CarryGo
<1> QED
  BY <1>5, <1>6 DEF NextTask, c, d

\* Where a session is while it applies presets, or waits.
LEMMA InTheMiddle ==
  ASSUME Before, NEW s \in Session, pc[s] \in {"locked", "empty", "next", "presets", "wait"}
  PROVE  /\ ctx[s] \in Context /\ ctx[s].cycles = 0 /\ ctx[s].work \subseteq ctx[s].chan
         /\ \A t \in Task : Owed(s, t)
              => /\ Carries(ctx[s], t, faults)
                 /\ pc[s] = "presets" => t \in ctx[s].faulty
BY DEF Before, SessionInv, SessionTypeOK, Calm, Owed, Carrying

\* A fault that is recorded.
LEMMA CarryFault ==
  ASSUME Before, NEW s \in Session, NEW c \in Context, NEW from \in {"next", "presets", "wait"},
         NEW to \in {"next", "presets"}, Local(s, from, to, RecordFault(c)),
         c.cycles = 0,
         \A t \in Task : Owed(s, t)
           => Carries(c, t, faults) /\ (to = "presets" => t \in c.faulty)
  PROVE  Kept(s)
<1>1. RecordFault(c).cycles = 0 /\ RecordFault(c).work = {}
  BY RecordFields
<1>2. \A t \in Task : Owed(s, t)
        => /\ Carries(RecordFault(c), t, faults)
           /\ to = "presets" => t \in RecordFault(c).faulty
  BY CarryRecord
<1>3. Go(s, from, to, RecordFault(c)) /\ faults' = faults
  BY DEF Local, store
<1> QED
  BY <1>1, <1>2, <1>3, CarryGo

\* applyPresets, when its conditions ask for parameters: with no presets it
\* goes on with what is left in the batch.
LEMMA CarryProbe ==
  ASSUME Before, NEW s \in Session, Probe(s)
  PROVE  Kept(s)
<1>1. PICK chs \in SUBSET Probing :
        \/ ProbeFault(s, MarkProbes(ctx[s], chs))
        \/ ProbeSend(s, MarkProbes(ctx[s], chs))
  BY DEF Probe
<1> DEFINE c == MarkProbes(ctx[s], chs)
<1>2. chs = {}
  BY QuietChannels DEF Before
<1>3. pc[s] = "presets"
  BY <1>1 DEF ProbeFault, ProbeSend, Respond, WriteResponse, Local, Go
<1>4. /\ c \in Context /\ c.cycles = 0 /\ c.work \subseteq c.chan
      /\ \A t \in Task : Owed(s, t) => Carries(c, t, faults) /\ t \in c.faulty
  BY <1>2, <1>3, InTheMiddle, MarkFields, MarkType DEF Carries
<1> HIDE DEF c
<1>5. CASE ProbeFault(s, c)
  BY <1>4, <1>5, CarryFault DEF ProbeFault
<1>6. CASE ProbeSend(s, c)
  BY <1>4, <1>6, CarryRespond DEF ProbeSend, InSession
<1> QED
  BY <1>1, <1>5, <1>6 DEF c

\* applyPresets with its conditions decided: a task is retried, or the session
\* ends with all the faults it has.
LEMMA CarryApply ==
  ASSUME Before, Quiet', NEW s \in Session, ApplyPresets(s)
  PROVE  Kept(s)
<1>1. PICK white \in WhiteLists(ctx[s]) :
        \E match \in SUBSET Eligible(ctx[s], white) :
          \E appended \in SUBSET match : ApplyBatch(s, white, match, appended)
  BY DEF ApplyPresets
<1>2. PICK match \in SUBSET Eligible(ctx[s], white) :
        \E appended \in SUBSET match : ApplyBatch(s, white, match, appended)
  BY <1>1
<1>3. PICK appended \in SUBSET match : ApplyBatch(s, white, match, appended)
  BY <1>2
<1> DEFINE b == PresetBatch(ctx[s], white, match)
           c == LoadBatch(ctx[s], white, b, appended)
<1>4. PresetLoop(s, c) \/ PresetFault(s, c) \/ PresetSend(s, c) \/ PresetDone(s, white, c)
  BY <1>3 DEF ApplyBatch
<1>5. pc[s] = "presets"
  BY <1>4 DEF PresetLoop, PresetFault, PresetSend, PresetDone, Close, Respond, WriteResponse,
               Local, Go
<1>6. /\ ctx[s] \in Context /\ ctx[s].cycles = 0
      /\ \A t \in Task : Owed(s, t) => Carries(ctx[s], t, faults) /\ t \in ctx[s].faulty
  BY <1>5, InTheMiddle
<1>7. match = {} /\ appended = {} /\ b = white /\ white \subseteq Task
  BY <1>6, QuietChannels DEF Before, Eligible, PresetBatch, WhiteLists, Context
<1> HIDE DEF b
<1>8. /\ c \in Context /\ c.work = white /\ c.chan = white /\ c.active = white
      /\ c.cycles = IF white # {} THEN 0 ELSE 1
      /\ \A t \in Task : Owed(s, t) => Carries(c, t, faults) /\ t \in c.faulty
  BY <1>6, <1>7, LoadType, LoadFields DEF Carries, Channel
<1> HIDE DEF c
<1>9. ~ PresetLoop(s, c)
  BY <1>8, BoundAssumption DEF PresetLoop
<1>10. CASE PresetFault(s, c)
  <2>1. white # {}
    BY <1>8, <1>10 DEF PresetFault, MayFault
  <2> QED
    BY <1>8, <1>10, <2>1, CarryFault DEF PresetFault
<1>11. CASE PresetSend(s, c)
  BY <1>8, <1>11, CarryRespond DEF PresetSend, InSession
<1>12. CASE PresetDone(s, white, c)
  <2> DEFINE d == ForgetFaults(c, c.chan)
  <2>1. /\ d \in Context /\ d.work = white /\ d.chan = white /\ d.cycles = c.cycles
        /\ faults' = faults /\ ran' = ran \cup (white \cap Task) /\ lock' = lock
    BY <1>8, <1>12, ForgetType, ForgetFields DEF PresetDone, store
  <2>2. \A t \in Task : Owed(s, t) => Carries(d, t, faults) /\ t \in d.faulty
    <3>1. \A t \in Task : Owed(s, t) => t \notin white
      BY <2>1 DEF Owed, Settled, Gone
    <3> QED
      BY <1>8, <3>1, ForgetFields DEF Carries
  <2> HIDE DEF d
  <2>3. CASE white # {} /\ Go(s, "presets", "presets", d)
    BY <1>8, <2>1, <2>2, <2>3, CarryGo
  <2>4. CASE Close(s, "presets", d)
    <3>1. Go(s, "presets", "saving", EndSession(ClearProvisions(d)))
      BY <2>4 DEF Close, Quiet, Before
    <3>2. /\ ClearProvisions(d) \in Context /\ ClearProvisions(d).provs = FALSE
          /\ ClearProvisions(d).faulty = d.faulty /\ ClearProvisions(d).touched = d.touched
      BY <2>1, ClearType, ClearFields
    <3> QED
      BY <2>1, <2>2, <3>1, <3>2, CarryEnd DEF Carries
  <2>5. c.chan = white
    BY <1>8
  <2> QED
    BY <1>12, <2>3, <2>4, <2>5 DEF PresetDone, d
<1> QED
  BY <1>4, <1>9, <1>10, <1>11, <1>12 DEF c

\* The writes of endSession: the fault of a task that is owed is saved.
LEMMA CarrySaving ==
  ASSUME Before, NEW s \in Session,
         \/ SaveDevice(s) \/ ClearTasks(s)
         \/ \E ch \in Channel : SaveFault(s, ch)
         \/ \E k \in Key : SaveOperation(s, k)
  PROVE  Kept(s)
<1> DEFINE c == ctx[s]
<1>1. /\ c \in Context /\ c.work \subseteq c.chan
      /\ pc[s] = "saving" /\ pc'[s] = "saving"
  BY DEF SaveDevice, ClearTasks, SaveFault, SaveOperation, Local, Go, Before, SessionInv,
         SessionTypeOK, Calm
<1>2. \A t \in Task : Owed(s, t) => t \in c.faulty /\ t \in c.toSave \cup faults
  BY <1>1 DEF Owed, Carrying
<1>3. CASE SaveDevice(s) \/ ClearTasks(s)
  <2>1. PICK w : ctx'[s] = [c EXCEPT !.toWrite = @ \ {w}]
    BY <1>3 DEF SaveDevice, ClearTasks, Local, Go, Before, SessionInv, SessionTypeOK
  <2>2. faults' = faults
    BY <1>3 DEF SaveDevice, ClearTasks, Local, store
  <2> HIDE DEF c
  <2>3. /\ ctx'[s].faulty = c.faulty /\ ctx'[s].toSave = c.toSave
        /\ ctx'[s].work = c.work /\ ctx'[s].chan = c.chan
    BY <1>1, <2>1 DEF Context
  <2> QED
    BY <1>1, <1>2, <2>2, <2>3 DEF Kept, Calm, Carrying, InSession
<1>4. ASSUME NEW ch \in Channel, SaveFault(s, ch)
      PROVE  Kept(s)
  <2>1. /\ ctx'[s] = [c EXCEPT !.toSave = @ \ {ch}]
        /\ faults' = IF ch \in c.faulty THEN faults \cup {ch} ELSE faults \ {ch}
    BY <1>4 DEF SaveFault, Go, Before, SessionInv, SessionTypeOK
  <2> HIDE DEF c
  <2>2. /\ ctx'[s].faulty = c.faulty /\ ctx'[s].toSave = c.toSave \ {ch}
        /\ ctx'[s].work = c.work /\ ctx'[s].chan = c.chan
    BY <1>1, <2>1 DEF Context
  <2> QED
    BY <1>1, <1>2, <2>1, <2>2 DEF Kept, Calm, Carrying, InSession
<1>5. ASSUME NEW k \in Key, SaveOperation(s, k)
      PROVE  Kept(s)
  <2>1. ctx'[s] = [c EXCEPT !.opsTouched = @ \ {k}] /\ faults' = faults
    BY <1>5 DEF SaveOperation, Go, Before, SessionInv, SessionTypeOK
  <2> HIDE DEF c
  <2>2. /\ ctx'[s].faulty = c.faulty /\ ctx'[s].toSave = c.toSave
        /\ ctx'[s].work = c.work /\ ctx'[s].chan = c.chan
    BY <1>1, <2>1 DEF Context
  <2> QED
    BY <1>1, <1>2, <2>1, <2>2 DEF Kept, Calm, Carrying, InSession
<1> QED
  BY <1>3, <1>4, <1>5

\* A session that is over has saved its faults, and has no lock.
LEMMA CarryOver ==
  ASSUME Before, Quiet', NEW s \in Session,
         \/ Refuse(s) \/ Unauthorized(s) \/ Release(s) \/ LockExpired(s)
         \/ Terminate(s) \/ Crash(s) \/ Stall(s) \/ ExpireLock(s)
  PROVE  Kept(s)
<1>1. ~ Unauthorized(s) /\ ~ Terminate(s) /\ ~ Crash(s) /\ ~ Stall(s)
  BY DEF Unauthorized, Terminate, Crash, Stall, Before, Quiet
<1>2. ~ ExpireLock(s)
  BY DEF ExpireLock, Go, Before, Calm
<1>3. ~ LockExpired(s)
  BY DEF LockExpired, Local, Go, Before, LockHeld, Quiet, InSession
<1>4. /\ Refuse(s) \/ Release(s)
      /\ pc'[s] = "idle" /\ ctx'[s] = NoContext
  BY <1>1, <1>2, <1>3 DEF Refuse, Release, Local, Go, Before, SessionInv, SessionTypeOK
<1>5. lock' # s /\ faults' = faults
  BY <1>4, SessionAssumption DEF Refuse, Release, LockIsFree, Local, store
<1>6. Calm(s)'
  BY <1>4, <1>5 DEF Calm, NoContext
<1>7. pc[s] \in InSession => pc[s] = "saving" /\ ctx[s].toSave = {}
  BY <1>4 DEF Refuse, Release, Saved, Local, Go, InSession
<1> QED
  BY <1>4, <1>5, <1>6, <1>7 DEF Kept, Owed, Carrying

\* The lock at the start, the CPE's requests, and what is answered to them.
LEMMA CarryCpe ==
  ASSUME Before, NEW s \in Session,
         \/ Lock(s) \/ CpeRequest(s) \/ EmptyRequest(s) \/ StartRpcs(s)
         \/ CpeFault(s) \/ NextFault(s) \/ NextSend(s)
  PROVE  Kept(s)
<1> DEFINE c == ctx[s]
<1>1. CASE Lock(s)
  <2>1. Go(s, "reading", "locked", c) /\ faults' = faults /\ pc[s] = "reading"
    BY <1>1 DEF Lock, Go, store
  <2>2. /\ c.cycles = 0 /\ c.work \subseteq c.chan
        /\ \A t \in Task : Owed(s, t) => Carries(c, t, faults)
    BY <2>1 DEF Before, Calm, Owed, Carrying
  <2> HIDE DEF c
  <2> QED
    BY <2>1, <2>2, CarryGo
<1>2. ASSUME pc[s] \in {"locked", "empty", "next", "wait"}
      PROVE  /\ c \in Context /\ c.cycles = 0 /\ c.work \subseteq c.chan
             /\ \A t \in Task : Owed(s, t) => Carries(c, t, faults)
  BY <1>2, InTheMiddle
<1>3. CASE CpeRequest(s) \/ NextSend(s)
  <2>1. PICK from \in {"locked", "next"}, to \in {"locked", "wait"} : Respond(s, from, to, c)
    BY <1>3 DEF CpeRequest, NextSend
  <2>2. pc[s] \in {"locked", "empty", "next", "wait"}
    BY <2>1 DEF Respond, WriteResponse, Go
  <2> HIDE DEF c
  <2> QED
    BY <1>2, <2>1, <2>2, CarryRespond DEF InSession
<1>4. CASE EmptyRequest(s) \/ StartRpcs(s)
  <2>1. PICK from \in {"locked", "empty"}, to \in {"empty", "next"} :
          Go(s, from, to, c) /\ faults' = faults /\ pc[s] = from
    BY <1>4 DEF EmptyRequest, StartRpcs, Local, Go, store
  <2> HIDE DEF c
  <2> QED
    BY <1>2, <2>1, CarryGo
<1>5. CASE CpeFault(s) \/ NextFault(s)
  <2>1. PICK from \in {"next", "wait"} : Local(s, from, "next", RecordFault(c))
    BY <1>5 DEF CpeFault, NextFault
  <2>2. pc[s] \in {"locked", "empty", "next", "wait"}
    BY <2>1 DEF Local, Go
  <2> HIDE DEF c
  <2> QED
    BY <1>2, <2>1, <2>2, CarryFault
<1> QED
  BY <1>1, <1>3, <1>4, <1>5

\* A response of the CPE, which may begin a download.
LEMMA CarryAnswer ==
  ASSUME Before, NEW s \in Session,
         CpeResponse(s) \/ \E k \in Key : BeginDownload(s, k)
  PROVE  Kept(s)
<1> DEFINE c == ctx[s]
<1>1. pc[s] = "wait" /\ faults' = faults
  BY DEF CpeResponse, BeginDownload, Local, Go, store
<1>2. /\ c \in Context /\ c.cycles = 0 /\ c.work \subseteq c.chan
      /\ \A t \in Task : Owed(s, t) => Carries(c, t, faults)
  BY <1>1, InTheMiddle
<1>3. ASSUME NEW d, Go(s, "wait", "next", d),
             d.tasks = c.tasks, d.faulty = c.faulty, d.touched = c.touched,
             d.work = c.work, d.chan = c.chan, d.cycles = c.cycles
      PROVE  Kept(s)
  BY <1>1, <1>2, <1>3, CarryGo DEF Carries
<1> HIDE DEF c
<1>4. Answered(c) \in Context
  BY <1>2, AnsweredType
<1>5. CASE CpeResponse(s)
  <2>1. Go(s, "wait", "next", Answered(c))
    BY <1>5 DEF CpeResponse, Local, c
  <2>2. /\ Answered(c).tasks = c.tasks /\ Answered(c).faulty = c.faulty
        /\ Answered(c).touched = c.touched /\ Answered(c).work = c.work
        /\ Answered(c).chan = c.chan /\ Answered(c).cycles = c.cycles
    BY <1>2 DEF Answered, Context
  <2> QED
    BY <1>3, <2>1, <2>2
<1>6. ASSUME NEW k \in Key, BeginDownload(s, k)
      PROVE  Kept(s)
  <2> DEFINE a == Answered(c)
             d == AddOperation(a, k)
  <2>1. Go(s, "wait", "next", d)
    BY <1>6 DEF BeginDownload, Local, c
  <2>2. /\ a.tasks = c.tasks /\ a.faulty = c.faulty /\ a.touched = c.touched
        /\ a.work = c.work /\ a.chan = c.chan /\ a.cycles = c.cycles
    BY <1>2, AnsweredFields
  <2>3. a \in Context
    BY <1>4
  <2> HIDE DEF a
  <2>4. /\ d.tasks = a.tasks /\ d.faulty = a.faulty /\ d.touched = a.touched
        /\ d.work = a.work /\ d.chan = a.chan /\ d.cycles = a.cycles
    BY <2>3, AnsweredFields
  <2> HIDE DEF d
  <2> QED
    BY <1>3, <2>1, <2>2, <2>4
<1> QED
  BY <1>5, <1>6

\* A download that ended or failed blames the channels of its batch.
LEMMA CarryOperation ==
  ASSUME Before, NEW s \in Session, NEW op \in ctx[s].ops,
         TransferComplete(s, op) \/ TimeoutOperation(s, op)
  PROVE  Kept(s)
<1> DEFINE c == ctx[s]
           f == ForgetOperation(c, op)
           d == OperationFault(c, op)
<1>1. pc[s] \in {"locked", "empty"} /\ faults' = faults
  BY DEF TransferComplete, TimeoutOperation, WriteResponse, Go, store
<1>2. /\ c \in Context /\ c.cycles = 0 /\ c.work \subseteq c.chan
      /\ \A t \in Task : Owed(s, t) => Carries(c, t, faults)
  BY <1>1, InTheMiddle
<1>3. op \in Operation
  BY <1>2 DEF Context
<1>4. \/ WriteResponse(s, "locked", "locked", f)
      \/ WriteResponse(s, "locked", "locked", d)
      \/ Go(s, "empty", "empty", d)
  BY DEF TransferComplete, TimeoutOperation
<1> HIDE DEF c
<1>5. /\ f.cycles = 0 /\ f.work \subseteq f.chan
      /\ \A t \in Task : Owed(s, t) => Carries(f, t, faults)
  BY <1>2, <1>3, OperationFields DEF Carries
<1>6. /\ d.cycles = 0 /\ d.work \subseteq d.chan
      /\ \A t \in Task : Owed(s, t) => Carries(d, t, faults)
  BY <1>2, <1>3, OperationFields DEF Carries
<1> HIDE DEF d, f
<1> QED
  BY <1>1, <1>4, <1>5, <1>6, CarryWrite, CarryGo DEF InSession

\* Every step of a session.
LEMMA CarrySession ==
  ASSUME Before, Quiet', NEW s \in Session, SessionNext(s)
  PROVE  Kept(s)
BY CarryReading, CarryNextTask, CarryProbe, CarryApply, CarrySaving, CarryOver, CarryCpe,
   CarryAnswer, CarryOperation DEF SessionNext, Handler, Cpe

(***************************************************************************)
(* The other sessions are where they were, and see the faults that the     *)
(* step leaves.                                                            *)
(***************************************************************************)
\* One session moves; only endSession writes faults.
Moves(s) ==
  /\ \A r \in Session \ {s} : pc'[r] = pc[r] /\ ctx'[r] = ctx[r]
  /\ faults' = faults \/ \E ch \in Channel : SaveFault(s, ch)

\* So does every step.
LEMMA OneMoves ==
  ASSUME SessionInv, NEW s \in Session, SessionNext(s)
  PROVE  Moves(s)
<1>1. ASSUME NEW from, NEW to, NEW c, Go(s, from, to, c)
      PROVE  \A r \in Session \ {s} : pc'[r] = pc[r] /\ ctx'[r] = ctx[r]
  BY <1>1 DEF Go, SessionInv, SessionTypeOK
<1>2. ASSUME NEW from, NEW to, NEW c, Go(s, from, to, c), faults' = faults
      PROVE  Moves(s)
  BY <1>1, <1>2 DEF Moves
<1>3. ASSUME NEW from, NEW to, NEW c, Local(s, from, to, c) \/ Respond(s, from, to, c)
      PROVE  Moves(s)
  BY <1>2, <1>3 DEF Local, Respond, WriteResponse, store
<1>4. CASE Probe(s)
  BY <1>3, <1>4 DEF Probe, ProbeFault, ProbeSend
<1>5. CASE ApplyPresets(s)
  <2>1. PICK white, c : \/ PresetLoop(s, c) \/ PresetFault(s, c) \/ PresetSend(s, c)
                        \/ PresetDone(s, white, c)
    BY <1>5 DEF ApplyPresets, ApplyBatch
  <2>2. CASE PresetLoop(s, c)
    BY <1>2, <1>3, <2>2 DEF PresetLoop, Close, store
  <2>3. CASE PresetDone(s, white, c)
    BY <1>2, <2>3 DEF PresetDone, Close, store
  <2> QED
    BY <1>3, <2>1, <2>2, <2>3 DEF PresetFault, PresetSend
<1>6. ASSUME NEW ch \in Channel, SaveFault(s, ch)
      PROVE  Moves(s)
  BY <1>1, <1>6 DEF SaveFault, Moves
<1>7. CASE Handler(s) /\ ~ Probe(s) /\ ~ ApplyPresets(s)
  BY <1>2, <1>3, <1>6, <1>7 DEF Handler, ReadTasks, ReadFaults, ReadOperations, Lock, Refuse,
     TimeoutOperation, StartRpcs, NextFault, NextSend, NextTask, SaveDevice, ClearTasks,
     SaveOperation, Release, LockExpired, store
<1>8. CASE Cpe(s) \/ CpeRequest(s) \/ \E op \in ctx[s].ops : TransferComplete(s, op)
  BY <1>2, <1>3, <1>8 DEF Cpe, CpeRequest, EmptyRequest, CpeResponse, BeginDownload, CpeFault,
     Terminate, TransferComplete, WriteResponse, store
<1>9. CASE Stall(s)
  BY <1>9 DEF Stall, store, Moves
<1>10. CASE Unauthorized(s) \/ Crash(s) \/ ExpireLock(s) \/ \E known \in SUBSET Probing : Inform(s, known)
  BY <1>2, <1>3, <1>10 DEF Unauthorized, Crash, ExpireLock, Inform, store
<1> QED
  BY <1>4, <1>5, <1>7, <1>8, <1>9, <1>10 DEF SessionNext

\* A task that every session carries is still carried by each, its fault stays,
\* and where no session is left at work it has one.
LEMMA AllCarry ==
  ASSUME Before, Quiet', NEW s \in Session, SessionNext(s),
         NEW t \in Task, t \in tasks, ~ Settled(t)',
         \A r \in Session : Carrying(r, t)
  PROVE  /\ t \in tasks'
         /\ \A r \in Session : Carrying(r, t)'
         /\ t \in faults => t \in faults'
         /\ (\E r \in Session : pc[r] \in InSession)
              => t \in faults' \/ \E r \in Session : pc'[r] \in InSession
<1>1. Kept(s) /\ Owed(s, t) /\ Moves(s)
  BY CarrySession, OneMoves DEF Owed, Before
<1>2. t \in tasks'
  BY SessionStep DEF Before, QueueKept, Settled
<1>3. ASSUME t \in faults PROVE t \in faults'
  <2>1. ASSUME NEW ch \in Channel, SaveFault(s, ch)
        PROVE  t \in faults'
    <3>1. t \in ctx[s].faulty
      BY <2>1 DEF SaveFault, Go, Carrying
    <3> QED
      BY <1>3, <2>1, <3>1 DEF SaveFault
  <2> QED
    BY <1>1, <1>3, <2>1 DEF Moves
<1>4. ASSUME NEW r \in Session, r # s
      PROVE  Carrying(r, t)'
  <2>1. pc'[r] = pc[r] /\ ctx'[r] = ctx[r] /\ Carrying(r, t)
    BY <1>1, <1>4 DEF Moves
  <2> QED
    BY <1>3, <2>1 DEF Carrying, Carries
<1>5. ASSUME NEW r \in Session, pc[r] \in InSession
      PROVE  t \in faults' \/ pc'[r] \in InSession
  BY <1>1, <1>5 DEF Kept, Moves
<1> QED
  BY <1>1, <1>2, <1>3, <1>4, <1>5 DEF Kept

\* The sessions stay calm.
LEMMA AllCalm ==
  ASSUME Before, Quiet', NEW s \in Session, SessionNext(s)
  PROVE  \A r \in Session : Calm(r)'
<1>1. Calm(s)' /\ Moves(s)
  BY CarrySession, OneMoves DEF Before, Kept
<1>2. ASSUME NEW r \in Session, r # s
      PROVE  Calm(r)'
  <2>1. lock' = r => lock = r
    BY <1>2, LockMoves, SessionAssumption
  <2> QED
    BY <1>1, <1>2, <2>1 DEF Moves, Calm, Before
<1> QED
  BY <1>1, <1>2


(***************************************************************************)
(* The requests.                                                           *)
(***************************************************************************)
\* Where a POST waits for the session.
Awaits == {"call", "start", "token", "end", "count"}

\* A request waits only once it has inserted its tasks, and reports some as
\* done only at its end.
PostSound(r) ==
  /\ r.at \in Awaits => r.kind \in Posts /\ r.todo = {} /\ r.answer = "none"
  /\ r.okay # {} => /\ r.kind \in Posts /\ r.todo = {} /\ r.okay \subseteq r.targets
                    /\ r.at \in {"clean", "done", "lost"}

PostsSound == \A cl \in Client : PostSound(req[cl])

TargetsDiffer ==
  \A a, b \in Client :
    a # b /\ req[a].kind \in Posts /\ req[b].kind \in Posts
      => req[a].targets \cap req[b].targets = {}

\* A POST that has inserted the task, which is still to be executed, where
\* nothing it may not count on has happened.
Waiting(cl, t) ==
  /\ req[cl].kind \in Posts /\ t \in req[cl].targets
  /\ req[cl].todo = {} /\ req[cl].answer = "none"
  /\ req[cl].at \in {"hold"} \cup Awaits
  /\ ~ req[cl].raced /\ ~ Disturbed(cl, t) /\ ~ Settled(t)

\* Every session carries the task, and once the request has seen that a
\* session is at work, or that one was, the fault is saved or is going to be.
Watched(cl, t) ==
  /\ t \in tasks
  /\ \A s \in Session : Carrying(s, t)
  /\ cl \in newer \/ req[cl].at = "end"
       => t \in faults \/ \E s \in Session : pc[s] \in InSession
  /\ req[cl].at = "count" => t \in faults

\* The request reports the task as done.
Reported(cl, t) == t \in req[cl].okay /\ ~ req[cl].raced /\ ~ Disturbed(cl, t)

WaitInv ==
  /\ \A s \in Session : Calm(s)
  /\ \A cl \in Client, t \in Task : Waiting(cl, t) => Watched(cl, t)
  /\ \A cl \in Client, t \in Task : Reported(cl, t) => Settled(t)

AnswerInv == TodosSound /\ PostsSound /\ TargetsDiffer /\ (Quiet => WaitInv)

\* The invariants proved before.
NbiBefore == NbiInv /\ RequestsExclusive

\* A request stays what it is, and does not go back.
GoesOn(d) ==
  /\ req'[d].kind = req[d].kind /\ req'[d].targets = req[d].targets
  /\ req'[d].at \in {"idle", "lock"} => req[d].at \in {"idle", "lock"}

\* What was disturbed stays so.
LEMMA DisturbedStays ==
  ASSUME NEW cl \in Client, NEW t, Disturbed(cl, t),
         \A d \in Client : GoesOn(d)
  PROVE  Disturbed(cl, t)'
BY DEF Disturbed, GoesOn, KeyedOf

\* What a request does to the others and to what they share.
RequestFrame(cl) ==
  /\ pc' = pc /\ ctx' = ctx /\ ran' = ran /\ expired' = expired
  /\ \A d \in Client : GoesOn(d)
  /\ \A d \in Client : d # cl => req'[d] = req[d]
  /\ lock' \in {lock, cl, Free} /\ newer' \subseteq newer
  /\ \A t \in tasks \ tasks' : Removes(req'[cl], t)
  /\ \A t \in faults \ faults' :
       /\ req[cl].kind \in {"delete", "retry", "forget"} /\ t \in req[cl].targets
       /\ req'[cl].at \notin {"idle", "lock"}

\* Every step of a request stays within this frame.
LEMMA RequestFramed ==
  ASSUME NbiInv, NEW cl \in Client, RequestNext(cl)
  PROVE  RequestFrame(cl)
<1>1. Became(cl) /\ QueueChange(cl) /\ Aside(cl)
  BY RequestSteps DEF RequestStep
<1>2. /\ SameRequest(cl) /\ \A d \in Client : d # cl => req'[d] = req[d]
      /\ RequestSound(req[cl])
  BY RequestAlone, Requests
<1>3. newer' \subseteq newer
  BY DEF RequestNext, Arrive, Acquire, GiveUp, Supersede, Insert, InvalidTasks, DeleteTask,
         DeleteFault, Unlock, Call, AwaitInform, AwaitStart, AwaitEnd, CountFaults, CleanUp,
         CrashRequest, ExpireRequestLock
<1>4. faults' = faults \/ DeleteFault(cl)
  BY DEF RequestNext, Arrive, Acquire, GiveUp, Supersede, Insert, InvalidTasks, DeleteTask,
         Unlock, Call, AwaitInform, AwaitStart, AwaitEnd, CountFaults, CleanUp, CrashRequest,
         ExpireRequestLock, vars, store
<1>5. ASSUME DeleteFault(cl)
      PROVE  /\ req[cl].kind \in {"delete", "retry", "forget"}
             /\ req'[cl].at \notin {"idle", "lock"} /\ faults' = faults \ req[cl].targets
  <2>1. "fault" \in req[cl].todo /\ req[cl].at \in {"hold", "insert"}
    BY <1>5 DEF DeleteFault, Wrote
  <2>2. req'[cl].at = req[cl].at
    BY <1>5, WroteFields DEF DeleteFault, Becomes
  <2> QED
    BY <1>2, <1>5, <2>1, <2>2 DEF DeleteFault, RequestSound, Request, Writes, Kind, Posts
<1>6. \A d \in Client : GoesOn(d)
  BY <1>1, <1>2 DEF GoesOn, Became, SameRequest
<1> QED
  BY <1>1, <1>2, <1>3, <1>4, <1>5, <1>6 DEF RequestFrame, QueueChange, Aside, past

\* A quiet state comes of quiet states only.
LEMMA QuietBefore ==
  ASSUME NbiInv, NbiNext, Quiet'
  PROVE  Quiet
<1>1. crashes \in Nat /\ drops \in Nat /\ stalls \in Nat
  BY SessionAssumption DEF NbiInv, SessionInv, SessionTypeOK
<1>2. ASSUME NEW t \in Task, PassExpiry(t)
      PROVE  UNCHANGED bounds
  BY <1>2 DEF PassExpiry
<1>3. ASSUME NEW s \in Session, SessionNext(s)
      PROVE  Quiet
  BY <1>1, <1>3, SessionFrame DEF Frame, Quiet
<1>4. ASSUME NEW cl \in Client, RequestNext(cl)
      PROVE  Quiet
  <2>1. CASE CrashRequest(cl) \/ ExpireRequestLock(cl)
    BY <1>1, <2>1 DEF CrashRequest, ExpireRequestLock, Quiet
  <2>2. CASE ~ CrashRequest(cl) /\ ~ ExpireRequestLock(cl)
    <3>1. UNCHANGED bounds
      BY <1>4, <2>2 DEF RequestNext, Arrive, Acquire, GiveUp, Supersede, Insert, InvalidTasks,
         DeleteTask, DeleteFault, Unlock, Call, AwaitInform, AwaitStart, AwaitEnd, CountFaults,
         CleanUp, vars, Still, bounds
    <3> QED
      BY <3>1 DEF bounds, Quiet
  <2> QED
    BY <2>1, <2>2
<1> QED
  BY <1>2, <1>3, <1>4 DEF NbiNext, DeviceNext, bounds, Quiet

\* A step of another request takes nothing from one that waits.
LEMMA OtherWaits ==
  ASSUME NbiBefore, AnswerInv, Quiet, NEW cl \in Client, RequestNext(cl),
         NEW d \in Client, d # cl, NEW t \in Task, Waiting(d, t)'
  PROVE  Watched(d, t)'
<1>1. RequestFrame(cl) /\ req'[d] = req[d]
  BY RequestFramed DEF NbiBefore, RequestFrame
<1>2. ~ Disturbed(d, t)
  BY <1>1, DisturbedStays DEF Waiting, RequestFrame
<1>3. Waiting(d, t) /\ Watched(d, t)
  BY <1>1, <1>2 DEF Waiting, Settled, RequestFrame, AnswerInv, WaitInv
<1>4. req'[cl].kind = req[cl].kind /\ req'[cl].targets = req[cl].targets
  BY <1>1 DEF RequestFrame, GoesOn
<1>5. t \in tasks'
  <2>1. SUFFICES ASSUME Removes(req'[cl], t) PROVE FALSE
    BY <1>1, <1>3 DEF RequestFrame, Watched
  <2>2. req[cl].kind = "ui" => t \notin req[cl].targets
    BY <1>3 DEF AnswerInv, TargetsDiffer, Waiting, Posts
  <2>3. ~ Disturbed(d, t)'
    BY DEF Waiting
  <2> QED
    BY <1>4, <2>1, <2>2, <2>3 DEF Removes, Disturbed, KeyedOf
<1>6. t \in faults => t \in faults'
  <2>1. SUFFICES ASSUME req[cl].kind \in {"delete", "retry", "forget"}, t \in req[cl].targets,
                        req'[cl].at \notin {"idle", "lock"}
                 PROVE  FALSE
    BY <1>1 DEF RequestFrame
  <2>2. ~ Disturbed(d, t)'
    BY DEF Waiting
  <2> QED
    BY <1>4, <2>1, <2>2 DEF Disturbed
<1>7. ASSUME NEW s \in Session PROVE Carrying(s, t)'
  <2>1. Carrying(s, t) /\ pc' = pc /\ ctx' = ctx
    BY <1>1, <1>3 DEF Watched, RequestFrame
  <2> QED
    BY <1>1, <1>6, <2>1 DEF Carrying, Carries
<1> QED
  BY <1>1, <1>3, <1>5, <1>6, <1>7 DEF Watched, RequestFrame

\* A request that inserts under the lock finds no session that does not have
\* its tasks: none was at work, and none had read the queue.
LEMMA InsertWaits ==
  ASSUME NbiBefore, AnswerInv, Quiet, NEW cl \in Client, Insert(cl),
         NEW t \in Task, Waiting(cl, t)'
  PROVE  Watched(cl, t)'
<1>1. /\ req'[cl].targets = req[cl].targets /\ req[cl].at = "hold" /\ req'[cl].at = "hold"
      /\ \A s \in Session : pc[s] # "reading"
  BY InsertFields DEF Waiting, NbiBefore, SameRequest, Awaits
<1>2. /\ tasks' = tasks \cup req[cl].targets /\ cl \notin newer' /\ pc' = pc
      /\ t \in req[cl].targets
  BY <1>1 DEF Insert, Still, Waiting
<1>3. lock = cl /\ cl \notin Session
  BY <1>1, ClientAssumption DEF NbiBefore, RequestsExclusive, Quiet
<1>4. ASSUME NEW s \in Session PROVE pc[s] = "idle"
  <2>1. pc[s] \notin InSession /\ pc[s] # "lost" /\ pc[s] \in Label
    BY <1>3 DEF NbiBefore, RequestsExclusive, Quiet, AnswerInv, WaitInv, Calm,
                NbiInv, SessionInv, SessionTypeOK
  <2> QED
    BY <1>1, <2>1 DEF Label, InSession
<1> QED
  BY <1>1, <1>2, <1>4 DEF Watched, Carrying

\* A request that waits after a step of its own was waiting before it, and went
\* on as awaitSessionStart and awaitSessionEnd let it.
LEMMA OwnMoves ==
  ASSUME NbiBefore, AnswerInv, Quiet, Quiet', NEW cl \in Client, RequestNext(cl),
         ~ Insert(cl), NEW t \in Task, Waiting(cl, t)'
  PROVE  /\ Waiting(cl, t) /\ UNCHANGED <<tasks, faults, pc, ctx, newer>>
         /\ req'[cl].at = "end" => cl \in newer \/ lock \in Session
         /\ req'[cl].at = "count" => req[cl].at = "end" /\ lock \notin Session
<1> DEFINE Unmoved == UNCHANGED <<tasks, faults, pc, ctx, newer>>
<1>1. RequestFrame(cl) /\ RequestSound(req[cl]) /\ TodoSound(req[cl]) /\ NbiInv
  BY RequestFramed DEF NbiBefore, NbiInv, RequestsSound, AnswerInv, TodosSound
<1>2. /\ req[cl].kind \in Posts /\ t \in req[cl].targets
      /\ req'[cl].todo = {} /\ req'[cl].answer = "none" /\ req'[cl].at \in {"hold"} \cup Awaits
  BY <1>1 DEF Waiting, RequestFrame, GoesOn
<1>3. Writes(req[cl]) = {"insert"}
  BY <1>2 DEF Writes, Posts
<1>4. ~ DeleteTask(cl) /\ ~ DeleteFault(cl)
  BY <1>1, <1>3 DEF DeleteTask, DeleteFault, Wrote, RequestSound
<1>5. \A u \in Keyed : ~ Supersede(cl, u)
  BY <1>1, <1>2, SupersedeFields DEF Becomes
<1>6. ~ Arrive(cl) /\ ~ InvalidTasks(cl) /\ ~ CountFaults(cl)
  BY <1>1, <1>2, ArriveFields, InvalidFields, CountFields DEF Becomes, Awaits
<1>7. \A u \in Task : ~ CleanUp(cl, u)
  BY <1>1, <1>2, CleanUpFields DEF Becomes, Awaits
<1>8. ~ CrashRequest(cl)
  BY <1>1, <1>2, CrashFields DEF Becomes, Awaits
<1>9. ~ ExpireRequestLock(cl)
  <2>1. req'[cl] = req[cl] /\ (req[cl].at = "lost" \/ stalls' = stalls + 1)
        => req'[cl].at = "lost" \/ stalls' = 1
    BY DEF Quiet
  <2> QED
    BY <1>2, <2>1 DEF ExpireRequestLock, Quiet, Awaits
<1>10. \A from : \A a \in Answer : ~ Reply(cl, from, a)
  BY <1>1, <1>2, ReplyFields DEF Becomes, Awaits
<1>11. \A from : ~ Abandon(cl, from)
  BY <1>1, <1>2, AbandonFields DEF Becomes, Awaits
<1>12. ASSUME NEW from, NEW to \in At, Move(cl, from, to)
       PROVE  /\ req[cl].at = from /\ req'[cl].at = to /\ req[cl].raced = req'[cl].raced
              /\ req[cl].todo = {} /\ req[cl].answer = "none"
  BY <1>1, <1>2, <1>12, MoveFields DEF Becomes
<1>13. ~ Acquire(cl) /\ ~ GiveUp(cl)
  <2>1. ~ Acquire(cl)
    BY <1>1, <1>3, <1>12 DEF Acquire, TodoSound, At
  <2>2. ~ GiveUp(cl)
    BY <1>1, <1>2, <1>10, <1>12 DEF GiveUp, At, Answer, Awaits
  <2> QED
    BY <2>1, <2>2
<1>14. ASSUME NEW from \in {"hold"} \cup Awaits, NEW to \in At, Move(cl, from, to)
       PROVE  Waiting(cl, t)
  <2>1. ~ Disturbed(cl, t)
    BY <1>1, DisturbedStays DEF Waiting, RequestFrame
  <2>2. ~ Settled(t) /\ ~ req'[cl].raced
    BY <1>1 DEF Waiting, Settled, RequestFrame
  <2> QED
    BY <1>2, <1>12, <1>14, <2>1, <2>2 DEF Waiting
<1>15. CASE Unlock(cl)
  <2>1. Move(cl, "hold", "call")
    BY <1>2, <1>10, <1>15 DEF Unlock, Unlocked, Answer
  <2> QED
    BY <1>12, <1>14, <1>15, <2>1 DEF Unlock, Still, store, At
<1>16. CASE Call(cl)
  <2>1. Move(cl, "call", "start")
    BY <1>11, <1>16 DEF Call
  <2> QED
    BY <1>12, <1>14, <1>16, <2>1 DEF Call, vars, store, At, Awaits
<1>17. CASE AwaitInform(cl)
  <2>1. \/ Move(cl, "start", "end") /\ cl \in newer
        \/ Move(cl, "start", "token")
    BY <1>17 DEF AwaitInform
  <2> QED
    BY <1>12, <1>14, <1>17, <2>1 DEF AwaitInform, vars, store, At, Awaits
<1>18. CASE AwaitStart(cl)
  <2>1. \/ Move(cl, "token", "end") /\ lock \in Session
        \/ Move(cl, "token", "start")
    BY <1>11, <1>18 DEF AwaitStart
  <2> QED
    BY <1>12, <1>14, <1>18, <2>1 DEF AwaitStart, vars, store, At, Awaits
<1>19. CASE AwaitEnd(cl)
  <2>1. Move(cl, "end", "count") /\ lock \notin Session
    BY <1>11, <1>19 DEF AwaitEnd
  <2> QED
    BY <1>12, <1>14, <1>19, <2>1 DEF AwaitEnd, vars, store, At, Awaits
<1> QED
  BY <1>4, <1>5, <1>6, <1>7, <1>8, <1>9, <1>13, <1>15, <1>16, <1>17, <1>18, <1>19
     DEF RequestNext

\* A request that waits, and goes on.
LEMMA OwnWaits ==
  ASSUME NbiBefore, AnswerInv, Quiet, Quiet', NEW cl \in Client, RequestNext(cl),
         ~ Insert(cl), NEW t \in Task, Waiting(cl, t)'
  PROVE  Watched(cl, t)'
<1>1. /\ Waiting(cl, t) /\ UNCHANGED <<tasks, faults, pc, ctx, newer>>
      /\ req'[cl].at = "end" => cl \in newer \/ lock \in Session
      /\ req'[cl].at = "count" => req[cl].at = "end" /\ lock \notin Session
  BY OwnMoves
<1>2. Watched(cl, t)
  BY <1>1 DEF AnswerInv, WaitInv
<1>3. \A s \in Session : Carrying(s, t)'
  BY <1>1, <1>2 DEF Watched, Carrying, Carries
<1>4. lock \in Session => \E s \in Session : pc[s] \in InSession
  BY DEF AnswerInv, WaitInv, Calm
<1>5. lock \notin Session => \A s \in Session : pc[s] \notin InSession
  BY DEF NbiBefore, RequestsExclusive, Quiet
<1> QED
  BY <1>1, <1>2, <1>3, <1>4, <1>5 DEF Watched

\* A request comes to report tasks as done when it counts the faults only.
LEMMA OkayStep ==
  ASSUME NbiInv, PostsSound, NEW cl \in Client, RequestNext(cl), ~ CountFaults(cl)
  PROVE  req'[cl].okay \subseteq req[cl].okay /\ (req'[cl].okay # {} => req'[cl].raced = req[cl].raced)
<1> DEFINE Stays == /\ req'[cl].okay \subseteq req[cl].okay
                    /\ req'[cl].okay # {} => req'[cl].raced = req[cl].raced
<1>1. ASSUME NEW from, NEW to \in At, Move(cl, from, to)
      PROVE  Stays
  BY <1>1, MoveFields DEF Becomes
<1>2. ASSUME NEW from, NEW a \in Answer, Reply(cl, from, a)
      PROVE  Stays
  BY <1>2, ReplyFields DEF Becomes
<1>3. ASSUME NEW from, Abandon(cl, from)
      PROVE  Stays
  BY <1>3, AbandonFields DEF Becomes
<1>4. CASE Arrive(cl)
  BY <1>4, ArriveFields DEF Becomes
<1>5. CASE \E t \in Keyed : Supersede(cl, t)
  BY <1>5, SupersedeFields DEF Becomes
<1>6. CASE Insert(cl)
  BY <1>6, InsertFields DEF PostsSound, PostSound
<1>7. CASE InvalidTasks(cl)
  BY <1>7, InvalidFields DEF Becomes
<1>8. CASE DeleteTask(cl) \/ DeleteFault(cl)
  BY <1>8, WroteFields DEF DeleteTask, DeleteFault, Becomes
<1>9. CASE \E t \in Task : CleanUp(cl, t)
  BY <1>9, CleanUpFields DEF Becomes
<1>10. CASE CrashRequest(cl)
  BY <1>10, CrashFields DEF Becomes
<1>11. CASE ExpireRequestLock(cl)
  BY <1>11 DEF ExpireRequestLock
<1>12. CASE Acquire(cl) \/ GiveUp(cl) \/ Unlock(cl)
  BY <1>1, <1>2, <1>12 DEF Acquire, GiveUp, Unlock, Unlocked, At, Answer
<1>13. CASE Call(cl) \/ AwaitInform(cl) \/ AwaitStart(cl) \/ AwaitEnd(cl)
  BY <1>1, <1>3, <1>13 DEF Call, AwaitInform, AwaitStart, AwaitEnd, At
<1> QED
  BY <1>4, <1>5, <1>6, <1>7, <1>8, <1>9, <1>10, <1>11, <1>12, <1>13 DEF RequestNext

\* The answer: a task that is owed has its fault when the faults are counted.
LEMMA AnswerSettled ==
  ASSUME NbiBefore, AnswerInv, Quiet, NEW cl \in Client, RequestNext(cl),
         NEW d \in Client, NEW t \in Task, Reported(d, t)'
  PROVE  Settled(t)'
<1>1. RequestFrame(cl) /\ NbiInv
  BY RequestFramed DEF NbiBefore
<1>2. ~ Disturbed(d, t)
  BY <1>1, DisturbedStays DEF Reported, RequestFrame
<1>3. SUFFICES Settled(t)
  BY <1>1 DEF Settled, RequestFrame
<1>4. CASE d # cl
  BY <1>1, <1>2, <1>4 DEF RequestFrame, Reported, AnswerInv, WaitInv
<1>5. CASE d = cl /\ CountFaults(cl)
  <2>1. /\ req[d].at = "count" /\ req'[d].raced = req[d].raced
        /\ req'[d].okay = req[d].targets \ faults
    BY <1>1, <1>5, CountFields DEF Becomes
  <2>2. req[d].todo = {} /\ req[d].answer = "none" /\ req[d].kind \in Posts
    BY <2>1 DEF AnswerInv, PostsSound, PostSound, Awaits
  <2>3. t \in req[d].targets /\ t \notin faults /\ ~ req[d].raced
    BY <2>1 DEF Reported
  <2>4. ~ Settled(t) => Waiting(d, t)
    BY <1>2, <2>1, <2>2, <2>3 DEF Waiting, Awaits
  <2> QED
    BY <2>1, <2>3, <2>4 DEF AnswerInv, WaitInv, Watched
<1>6. CASE d = cl /\ ~ CountFaults(cl)
  <2>1. t \in req[d].okay /\ req'[d].raced = req[d].raced
    BY <1>1, <1>6, OkayStep DEF Reported, AnswerInv
  <2> QED
    BY <1>2, <2>1 DEF Reported, AnswerInv, WaitInv
<1> QED
  BY <1>4, <1>5, <1>6

\* Every step of a request keeps the posts sound.
LEMMA PostStep ==
  ASSUME NbiInv, PostsSound, NEW cl \in Client, RequestNext(cl)
  PROVE  PostsSound'
<1> DEFINE Ok == PostSound(req'[cl])
<1>1. RequestSound(req[cl]) /\ PostSound(req[cl]) /\ SameRequest(cl)
  BY RequestAlone, Requests DEF PostsSound
<1>2. SUFFICES Ok
  BY RequestAlone DEF PostsSound
<1>3. ASSUME NEW from, NEW a \in Answer, Reply(cl, from, a)
      PROVE  Ok
  <2>1. Becomes(cl, "done", req[cl].todo, req[cl].rest, a, req[cl].okay)
    BY <1>3, ReplyFields
  <2> QED
    BY <1>1, <2>1 DEF PostSound, Becomes, SameRequest, Awaits
<1>4. ASSUME NEW from, NEW to \in At, Move(cl, from, to),
             \/ from \in Awaits
             \/ /\ from = "hold" /\ req[cl].todo = {} /\ req[cl].answer = "none"
                /\ req[cl].kind \in Posts
             \/ to \in {"hold", "insert"} /\ from = "lock"
      PROVE  Ok
  <2>1. req[cl].at = from /\ Becomes(cl, to, req[cl].todo, req[cl].rest, req[cl].answer, req[cl].okay)
    BY <1>4, MoveFields
  <2> QED
    BY <1>1, <1>4, <2>1 DEF PostSound, Becomes, SameRequest, Awaits
<1>5. ASSUME NEW okay \in SUBSET req[cl].targets, req[cl].at \in Awaits, NEW a,
             NEW to \in {"clean", "done"}, NEW rest,
             Becomes(cl, to, req[cl].todo, rest, a, okay)
      PROVE  Ok
  BY <1>1, <1>5 DEF PostSound, Becomes, SameRequest, Awaits
<1>6. ASSUME NEW from \in Awaits, Abandon(cl, from)
      PROVE  Ok
  <2>1. req[cl].okay = {} /\ req[cl].at = from
    BY <1>1, <1>6, AbandonFields DEF PostSound, Awaits
  <2> QED
    BY <1>5, <1>6, <2>1, AbandonFields
<1>7. CASE Arrive(cl)
  BY <1>1, <1>7, ArriveFields DEF PostSound, Becomes, SameRequest, Awaits
<1>8. CASE \E t \in Keyed : Supersede(cl, t)
  BY <1>1, <1>8, SupersedeFields DEF PostSound, Becomes, SameRequest, Awaits
<1>9. CASE Insert(cl)
  BY <1>1, <1>9, InsertFields DEF PostSound, SameRequest, Awaits
<1>10. CASE InvalidTasks(cl)
  BY <1>1, <1>10, InvalidFields DEF PostSound, Becomes, SameRequest, Awaits
<1>11. CASE DeleteTask(cl) \/ DeleteFault(cl)
  <2>1. /\ req[cl].at \in {"hold", "insert"}
        /\ \E what : Becomes(cl, req[cl].at, req[cl].todo \ {what}, req[cl].rest,
                             req[cl].answer, req[cl].okay)
    BY <1>11, WroteFields DEF DeleteTask, DeleteFault, Wrote
  <2> QED
    BY <1>1, <2>1 DEF PostSound, Becomes, SameRequest, Awaits
<1>12. CASE CountFaults(cl)
  <2>1. req[cl].at \in Awaits /\ req[cl].targets \ faults \in SUBSET req[cl].targets
    BY <1>12, CountFields DEF Awaits
  <2> QED
    BY <1>5, <1>12, <2>1, CountFields
<1>13. CASE \E t \in Task : CleanUp(cl, t)
  BY <1>1, <1>13, CleanUpFields DEF PostSound, Becomes, SameRequest, Awaits
<1>14. CASE CrashRequest(cl)
  BY <1>1, <1>14, CrashFields DEF PostSound, Becomes, SameRequest, Awaits
<1>15. CASE ExpireRequestLock(cl)
  BY <1>1, <1>15 DEF ExpireRequestLock
<1>16. CASE Acquire(cl) \/ GiveUp(cl)
  BY <1>3, <1>4, <1>16 DEF Acquire, GiveUp, At, Answer
<1>17. CASE Unlock(cl)
  BY <1>3, <1>4, <1>17 DEF Unlock, Unlocked, At, Answer
<1>18. CASE Call(cl) \/ AwaitInform(cl) \/ AwaitStart(cl) \/ AwaitEnd(cl)
  BY <1>4, <1>6, <1>18 DEF Call, AwaitInform, AwaitStart, AwaitEnd, At, Awaits
<1> QED
  BY <1>7, <1>8, <1>9, <1>10, <1>11, <1>12, <1>13, <1>14, <1>15, <1>16, <1>17, <1>18
     DEF RequestNext

(***************************************************************************)
(* The invariant.                                                          *)
(***************************************************************************)
\* The steps of a request.
LEMMA AnswerRequest ==
  ASSUME NbiBefore, AnswerInv, NbiNext, NEW cl \in Client, RequestNext(cl)
  PROVE  AnswerInv'
<1>1. RequestFrame(cl) /\ NbiInv
  BY RequestFramed DEF NbiBefore
<1>2. TodosSound' /\ PostsSound'
  BY <1>1, TodoStep, PostStep DEF AnswerInv
<1>3. TargetsDiffer'
  BY <1>1 DEF AnswerInv, TargetsDiffer, RequestFrame, GoesOn
<1>4. ASSUME Quiet' PROVE WaitInv'
  <2>1. Quiet /\ WaitInv
    BY <1>1, <1>4, QuietBefore DEF AnswerInv
  <2>2. ASSUME NEW s \in Session PROVE Calm(s)'
    <3>1. lock' = s => lock = s
      BY <1>1, ClientAssumption, SessionAssumption DEF RequestFrame
    <3> QED
      BY <1>1, <2>1, <3>1 DEF WaitInv, Calm, RequestFrame
  <2>3. ASSUME NEW d \in Client, NEW t \in Task, Waiting(d, t)' PROVE Watched(d, t)'
    BY <1>4, <2>1, <2>3, OtherWaits, OwnWaits, InsertWaits
  <2>4. ASSUME NEW d \in Client, NEW t \in Task, Reported(d, t)' PROVE Settled(t)'
    BY <2>1, <2>4, AnswerSettled
  <2> QED
    BY <2>2, <2>3, <2>4 DEF WaitInv
<1> QED
  BY <1>2, <1>3, <1>4 DEF AnswerInv

\* The steps of the device, which leave the requests alone.
LEMMA AnswerDevice ==
  ASSUME NbiBefore, AnswerInv, NbiNext, DeviceNext
  PROVE  AnswerInv'
<1>1. req' = req /\ NbiInv /\ SessionInv
  BY DEF DeviceNext, NbiBefore, NbiInv
<1>2. TodosSound' /\ PostsSound' /\ TargetsDiffer'
  BY <1>1 DEF AnswerInv, TodosSound, PostsSound, TargetsDiffer
<1>3. SUFFICES ASSUME Quiet' PROVE WaitInv'
  BY <1>2 DEF AnswerInv
<1>4. Quiet /\ WaitInv
  BY <1>1, <1>3, QuietBefore DEF AnswerInv
<1>5. Before
  BY <1>1, <1>4 DEF Before, WaitInv, NbiBefore, RequestsExclusive, LockHeld
<1>6. \A d \in Client, t \in Task : Disturbed(d, t)' <=> Disturbed(d, t)
  BY <1>1 DEF Disturbed, KeyedOf
<1>7. ran \subseteq ran' /\ expired \subseteq expired'
  BY <1>1, SessionStep DEF DeviceNext, QueueKept, PassExpiry, past
<1>8. \A t : Settled(t) => Settled(t)'
  BY <1>7 DEF Settled, Gone
<1>9. ASSUME NEW d \in Client, NEW t \in Task, Waiting(d, t)'
      PROVE  Waiting(d, t) /\ Watched(d, t)
  BY <1>1, <1>4, <1>6, <1>8, <1>9 DEF Waiting, WaitInv
<1>10. ASSUME NEW d \in Client, NEW t \in Task, Reported(d, t)' PROVE Settled(t)'
  BY <1>1, <1>4, <1>6, <1>8, <1>10 DEF Reported, WaitInv
<1>11. ASSUME NEW u \in Task, PassExpiry(u) PROVE WaitInv'
  <2>1. /\ tasks' = tasks /\ faults' = faults /\ lock' = lock /\ pc' = pc /\ ctx' = ctx
    BY <1>11 DEF PassExpiry, store
  <2>2. newer' = newer
    BY <2>1, <1>5 DEF DeviceNext, DeviceSaved
  <2>3. ASSUME NEW s \in Session PROVE Calm(s)'
    BY <1>5, <2>1 DEF Before, Calm
  <2>4. ASSUME NEW d \in Client, NEW t \in Task, Waiting(d, t)' PROVE Watched(d, t)'
    BY <1>1, <1>9, <2>1, <2>2, <2>4 DEF Watched, Carrying, Carries
  <2> QED
    BY <1>10, <2>3, <2>4 DEF WaitInv
<1>12. ASSUME NEW s \in Session, SessionNext(s) PROVE WaitInv'
  <2>1. \A r \in Session : Calm(r)'
    BY <1>3, <1>5, <1>12, AllCalm
  <2>2. ASSUME NEW d \in Client, NEW t \in Task, Waiting(d, t)' PROVE Watched(d, t)'
    <3>1. Waiting(d, t) /\ Watched(d, t) /\ ~ Settled(t)'
      BY <1>9, <2>2 DEF Waiting
    <3>2. /\ t \in tasks'
          /\ \A r \in Session : Carrying(r, t)'
          /\ t \in faults => t \in faults'
          /\ (\E r \in Session : pc[r] \in InSession)
               => t \in faults' \/ \E r \in Session : pc'[r] \in InSession
      <4>1. t \in tasks /\ \A r \in Session : Carrying(r, t)
        BY <3>1 DEF Watched
      <4> QED
        BY <1>3, <1>5, <1>12, <3>1, <4>1, AllCarry
    <3>3. d \in newer' \ newer => \E r \in Session : pc'[r] \in InSession
      BY DEF DeviceNext, DeviceSaved, InSession
    <3> QED
      BY <1>1, <3>1, <3>2, <3>3 DEF Watched
  <2> QED
    BY <1>10, <2>1, <2>2 DEF WaitInv
<1> QED
  BY <1>11, <1>12 DEF DeviceNext

\* The invariant holds at first.
LEMMA AnswerInvInit == NbiInit => AnswerInv
<1> SUFFICES ASSUME NbiInit PROVE AnswerInv
  OBVIOUS
<1>1. \A cl \in Client : /\ req[cl].at = "idle" /\ req[cl].okay = {} /\ req[cl].bare = FALSE
  BY DEF NbiInit
<1>2. TodosSound /\ PostsSound
  BY <1>1 DEF TodosSound, TodoSound, PostsSound, PostSound, Awaits
<1>3. TargetsDiffer
  BY DEF NbiInit, TargetsDiffer
<1>4. \A s \in Session : Calm(s)
  BY SessionAssumption DEF NbiInit, Init, Calm, NoContext
<1>5. WaitInv
  BY <1>1, <1>4 DEF WaitInv, Waiting, Reported, Awaits
<1> QED
  BY <1>2, <1>3, <1>5 DEF AnswerInv

\* Every step keeps the invariant.
LEMMA AnswerInvNext == NbiBefore /\ AnswerInv /\ [NbiNext]_nbiVars => AnswerInv'
<1> SUFFICES ASSUME NbiBefore, AnswerInv, [NbiNext]_nbiVars PROVE AnswerInv'
  OBVIOUS
<1>1. CASE UNCHANGED nbiVars
  <2>1. /\ UNCHANGED <<req, newer, tasks, faults, lock, pc, ctx, ran, expired>>
        /\ UNCHANGED <<crashes, drops, stalls>>
    BY <1>1 DEF nbiVars, vars, store, past, bounds
  <2>2. \A d \in Client, t \in Task :
          /\ Waiting(d, t)' <=> Waiting(d, t)
          /\ Watched(d, t)' <=> Watched(d, t)
          /\ Reported(d, t)' <=> Reported(d, t)
          /\ Settled(t)' <=> Settled(t)
    BY <2>1 DEF Waiting, Watched, Reported, Disturbed, KeyedOf, Settled, Carrying, Carries
  <2>3. \A s \in Session : Calm(s)' <=> Calm(s)
    BY <2>1 DEF Calm
  <2>4. (Quiet' <=> Quiet) /\ TodosSound' /\ PostsSound' /\ TargetsDiffer'
    BY <2>1 DEF AnswerInv, TodosSound, PostsSound, TargetsDiffer, Quiet
  <2> QED
    BY <2>2, <2>3, <2>4 DEF AnswerInv, WaitInv
<1>2. CASE NbiNext
  BY <1>2, AnswerDevice, AnswerRequest DEF NbiNext
<1> QED
  BY <1>1, <1>2

\* A task that a POST reports as done was executed or had expired, for any
\* number of sessions, requests and tasks and any lists of tasks, unless a
\* session had read the queue just before it was written, another request
\* touched the task, or a session was cut short.
THEOREM AnswersTrue == NbiSpec => []OkMeansExecuted
<1>1. NbiInv /\ AnswerInv => OkMeansExecuted
  <2> SUFFICES ASSUME NbiInv, AnswerInv, Quiet, NEW cl \in Client, NEW t \in req[cl].okay,
                      ~ req[cl].raced, ~ Disturbed(cl, t)
               PROVE  Settled(t)
    BY DEF OkMeansExecuted, Quiet, Settled, Gone
  <2>1. RequestSound(req[cl]) /\ PostSound(req[cl])
    BY Requests DEF AnswerInv, PostsSound
  <2>2. t \in Task
    BY <2>1 DEF RequestSound, PostSound, Posts
  <2> QED
    BY <2>2 DEF AnswerInv, WaitInv, Reported
<1>2. NbiSpec => [](NbiBefore /\ NbiInv)
  <2>1. NbiSpec => []NbiInv
    BY NbiInvInit, NbiInvNext, PTL DEF NbiSpec
  <2>2. NbiInv /\ RequestsExclusive => NbiBefore
    BY DEF NbiBefore
  <2> QED
    BY <2>1, <2>2, RequestExclusion, PTL
<1> QED
  BY <1>1, <1>2, AnswerInvInit, AnswerInvNext, PTL DEF NbiSpec
=============================================================================
