------------------------ MODULE CwmpSession_proofs ------------------------
(***************************************************************************)
(* Theorems of CwmpSession: type correctness, exclusion of sessions by the *)
(* lock, and that no task is lost, for any number of sessions, tasks and   *)
(* channels and any number of crashes, drops and stalls.  First come the   *)
(* lemmas about SessionContext that all the proofs about sessions use.     *)
(***************************************************************************)
EXTENDS CwmpSession, TLAPS

(***************************************************************************)
(* What the functions of cwmp.ts on a session's context preserve: its type *)
(* and the link between the tasks it reports done and the tasks that were  *)
(* carried through, expired or invalid.                                    *)
(***************************************************************************)
\* Every function returns a well-formed context.
LEMMA NoContextType == NoContext \in Context
BY DEF NoContext, Context

\* clearProvisions returns a context.
LEMMA ClearType ==
  ASSUME NEW c \in Context
  PROVE  ClearProvisions(c) \in Context
BY DEF ClearProvisions, Context

\* addProvisions returns a context.
LEMMA AddType ==
  ASSUME NEW c \in Context, NEW ch \in Channel
  PROVE  AddProvisions(c, ch) \in Context
BY DEF AddProvisions, Context

\* Deleting the faults of some channels returns a context.
LEMMA ForgetType ==
  ASSUME NEW c \in Context, NEW chs
  PROVE  ForgetFaults(c, chs) \in Context
BY DEF ForgetFaults, Context

\* Blaming the channels of a batch returns a context.
LEMMA BlameType ==
  ASSUME NEW c \in Context, NEW b, b.chan \in SUBSET Channel
  PROVE  Blame(c, b) \in Context
<1> DEFINE now == RetryNow(c, b)
<1>1. now \in SUBSET Channel
  BY DEF RetryNow
<1> HIDE DEF now
<1>2. Blame(c, b) =
        [c EXCEPT !.faulty  = @ \cup b.chan,
                  !.due     = (@ \ b.chan) \cup now,
                  !.pre     = (@ \ b.chan) \cup (b.chan \ b.work),
                  !.timed   = (@ \ b.chan) \cup (b.chan \cap c.tasks \cap Expiring),
                  !.retried = @ \cup b.chan,
                  !.touched = @ \cup b.chan]
  BY DEF Blame, now
<1> DEFINE due == (c.due \ b.chan) \cup now
           pre == (c.pre \ b.chan) \cup (b.chan \ b.work)
           timedNow == (c.timed \ b.chan) \cup (b.chan \cap c.tasks \cap Expiring)
<1>3. due \in SUBSET Channel /\ pre \in SUBSET Channel /\ timedNow \in SUBSET Channel
  BY <1>1 DEF Context
<1> HIDE DEF due, pre, timedNow
<1>4. [c EXCEPT !.faulty = @ \cup b.chan, !.due = due, !.pre = pre, !.timed = timedNow,
                !.retried = @ \cup b.chan, !.touched = @ \cup b.chan] \in Context
  BY <1>3 DEF Context
<1> QED
  BY <1>2, <1>4 DEF due, pre, timedNow

\* recordFault returns a context.
LEMMA RecordType ==
  ASSUME NEW c \in Context
  PROVE  RecordFault(c) \in Context
<1> DEFINE d == Blame(c, c)
<1>1. d \in Context
  BY BlameType DEF Context
<1> HIDE DEF d
<1>2. [d EXCEPT !.fetched = @ \ c.active] \in Context
  BY <1>1 DEF Context
<1> QED
  BY <1>2, ClearType DEF RecordFault, d

\* The channels of an operation are channels.
LEMMA OperationChannels ==
  ASSUME NEW op \in Operation
  PROVE  /\ op.key \in Key /\ op.chan \in SUBSET Channel
         /\ op.work \in SUBSET Channel /\ op.retried \in SUBSET Channel
BY DEF Operation

\* Deleting an operation returns a context.
LEMMA ForgetOperationType ==
  ASSUME NEW c \in Context, NEW op \in Operation
  PROVE  ForgetOperation(c, op) \in Context
BY OperationChannels DEF ForgetOperation, Context

\* Giving a batch back the retries of an operation returns a context.
LEMMA RestoreType ==
  ASSUME NEW c \in Context, NEW op \in Operation
  PROVE  [ForgetOperation(c, op) EXCEPT !.retried = @ \cup op.retried] \in Context
<1> DEFINE d == ForgetOperation(c, op)
<1>1. d \in Context
  BY ForgetOperationType
<1> HIDE DEF d
<1>2. [d EXCEPT !.retried = @ \cup op.retried] \in Context
  BY <1>1, OperationChannels DEF Context
<1> QED
  BY <1>2 DEF d

\* The fault of an operation returns a context.
LEMMA OperationFaultType ==
  ASSUME NEW c \in Context, NEW op \in Operation
  PROVE  OperationFault(c, op) \in Context
BY RestoreType, OperationChannels, BlameType, ClearType DEF OperationFault

\* Counting an RPC returns a context.
LEMMA AnsweredType ==
  ASSUME NEW c \in Context
  PROVE  Answered(c) \in Context
BY DEF Answered, Context

\* Adding an operation returns a context.
LEMMA AddOperationType ==
  ASSUME NEW c \in Context, NEW k \in Key
  PROVE  AddOperation(c, k) \in Context
<1> DEFINE op == [key |-> k, chan |-> c.chan, work |-> c.work,
                  retried |-> c.chan \cap c.retried]
<1>1. op \in Operation
  BY DEF Operation, Context
<1> HIDE DEF op
<1>2. [c EXCEPT !.ops = @ \cup {op}, !.opsTouched = @ \cup {k}] \in Context
  BY <1>1 DEF Context
<1> QED
  BY <1>2 DEF AddOperation, op

\* Taking the tasks of a finished batch as done returns a context.
LEMMA CompleteType ==
  ASSUME NEW c \in Context
  PROVE  CompleteBatch(c) \in Context
<1> DEFINE f == ForgetFaults(c, c.work)
           d == [f EXCEPT !.done = @ \cup (c.chan \cap Task), !.tasks = @ \ c.chan]
<1>1. f \in Context
  BY ForgetType
<1> HIDE DEF f
<1>2. d \in Context
  BY <1>1 DEF Context
<1> QED
  BY <1>2, ClearType DEF CompleteBatch, f

\* Taking the expired tasks as done returns a context.
LEMMA DropType ==
  ASSUME NEW c \in Context
  PROVE  DropExpired(c) \in Context
<1> DEFINE gone == c.tasks \cap Expiring \cap c.expired
           f == ForgetFaults(c, gone)
<1>1. f \in Context
  BY ForgetType
<1>2. gone \in SUBSET Task
  BY DEF Context
<1> HIDE DEF f, gone
<1>3. [f EXCEPT !.done = @ \cup gone, !.tasks = @ \ gone] \in Context
  BY <1>1, <1>2 DEF Context
<1> QED
  BY <1>3 DEF DropExpired, f, gone

\* Starting a task, or taking an invalid one as done, returns a context.
LEMMA StartType ==
  ASSUME NEW c \in Context, NEW t \in Task
  PROVE  StartTask(c, t) \in Context
BY AddType DEF StartTask, Context, Channel

\* endSession returns a context.
LEMMA EndType ==
  ASSUME NEW c \in Context
  PROVE  EndSession(c) \in Context
<1> DEFINE d == IF c.provs THEN RecordFault(c) ELSE c
           w == {"device"} \cup (IF d.done = {} THEN {} ELSE {"tasks"})
<1>1. d \in Context
  BY RecordType
<1>2. w \in SUBSET {"device", "tasks"}
  OBVIOUS
<1> HIDE DEF d, w
<1>3. [NoContext EXCEPT !.faulty = d.faulty, !.timed = d.timed, !.done = d.done,
                        !.ops = d.ops, !.opsTouched = d.opsTouched,
                        !.toSave = d.touched, !.toWrite = w,
                        !.cycles = d.cycles] \in Context
  BY <1>1, <1>2, NoContextType DEF Context
<1> QED
  BY <1>3 DEF EndSession, d, w

\* Marking the channels that probe returns a context.
LEMMA MarkType ==
  ASSUME NEW c \in Context, NEW chs \in SUBSET Channel
  PROVE  MarkProbes(c, chs) \in Context
BY DEF MarkProbes, Context

\* Loading the provisions of the presets returns a context.
LEMMA LoadType ==
  ASSUME NEW c \in Context, NEW white, NEW batch \in SUBSET Channel,
         NEW appended \in SUBSET Channel
  PROVE  LoadBatch(c, white, batch, appended) \in Context
<1> DEFINE f == ClearProvisions(c)
           n == IF white # {} THEN f.cycles ELSE f.cycles + 1
           b == batch # {}
<1>1. f \in Context
  BY ClearType
<1>2. n \in Nat /\ b \in BOOLEAN
  BY <1>1 DEF Context
<1> HIDE DEF f, n, b
<1>3. [f EXCEPT !.chan = batch, !.work = batch, !.active = batch, !.provs = b,
                !.touched = @ \cup appended, !.cycles = n] \in Context
  BY <1>1, <1>2 DEF Context
<1> QED
  BY <1>3 DEF LoadBatch, f, n, b

\* What each function does to the done tasks, and to those known to have
\* expired when the session began: a task is done only because its batch was
\* completed, it expired or it is invalid.
LEMMA BlameDone ==
  ASSUME NEW c \in Context, NEW b
  PROVE  Blame(c, b).done = c.done /\ Blame(c, b).expired = c.expired
<1> DEFINE now == RetryNow(c, b)
<1> HIDE DEF now
<1>1. Blame(c, b) =
        [c EXCEPT !.faulty  = @ \cup b.chan,
                  !.due     = (@ \ b.chan) \cup now,
                  !.pre     = (@ \ b.chan) \cup (b.chan \ b.work),
                  !.timed   = (@ \ b.chan) \cup (b.chan \cap c.tasks \cap Expiring),
                  !.retried = @ \cup b.chan,
                  !.touched = @ \cup b.chan]
  BY DEF Blame, now
<1> QED
  BY <1>1 DEF Context

\* recordFault makes no task done.
LEMMA RecordDone ==
  ASSUME NEW c \in Context
  PROVE  RecordFault(c).done = c.done /\ RecordFault(c).expired = c.expired
<1> DEFINE d == Blame(c, c)
<1>1. d \in Context /\ d.done = c.done /\ d.expired = c.expired
  BY BlameType, BlameDone DEF Context
<1> HIDE DEF d
<1> QED
  BY <1>1 DEF RecordFault, ClearProvisions, Context, d

\* The operations of a session make no task done.
LEMMA OperationDone ==
  ASSUME NEW c \in Context, NEW op \in Operation
  PROVE  /\ ForgetOperation(c, op).done = c.done
         /\ ForgetOperation(c, op).expired = c.expired
         /\ OperationFault(c, op).done = c.done
         /\ OperationFault(c, op).expired = c.expired
<1> DEFINE f == ForgetOperation(c, op)
           d == [f EXCEPT !.retried = @ \cup op.retried]
           e == Blame(d, op)
<1>1. f \in Context /\ f.done = c.done /\ f.expired = c.expired
  BY ForgetOperationType DEF ForgetOperation, Context
<1>2. d \in Context
  BY RestoreType
<1>3. d.done = f.done /\ d.expired = f.expired
  <2> HIDE DEF f
  <2> QED
    BY <1>1 DEF Context
<1> HIDE DEF d
<1>4. e \in Context /\ e.done = d.done /\ e.expired = d.expired
  BY <1>2, BlameType, BlameDone, OperationChannels
<1> HIDE DEF e
<1>5. ClearProvisions(e).done = e.done /\ ClearProvisions(e).expired = e.expired
  BY <1>4 DEF ClearProvisions, Context
<1> QED
  BY <1>1, <1>3, <1>4, <1>5 DEF OperationFault, d, e, f

\* Neither does the answer to an RPC, or the download it began.
LEMMA AnsweredDone ==
  ASSUME NEW c \in Context, NEW k \in Key
  PROVE  /\ Answered(c).done = c.done /\ Answered(c).expired = c.expired
         /\ AddOperation(c, k).done = c.done /\ AddOperation(c, k).expired = c.expired
BY DEF Answered, AddOperation, Context

\* A finished batch makes done the tasks that were its channels.
LEMMA CompleteDone ==
  ASSUME NEW c \in Context
  PROVE  /\ CompleteBatch(c).done = c.done \cup (c.chan \cap Task)
         /\ CompleteBatch(c).expired = c.expired
BY DEF CompleteBatch, ForgetFaults, ClearProvisions, Context

\* Only tasks known to have expired become done.
LEMMA DropDone ==
  ASSUME NEW c \in Context
  PROVE  /\ DropExpired(c).done \subseteq c.done \cup c.expired
         /\ DropExpired(c).expired = c.expired
BY DEF DropExpired, ForgetFaults, Context

\* Starting a task makes it done only when it is invalid.
LEMMA StartDone ==
  ASSUME NEW c \in Context, NEW t \in Task
  PROVE  /\ StartTask(c, t).done \subseteq c.done \cup InvalidTask
         /\ StartTask(c, t).expired = c.expired
BY DEF StartTask, AddProvisions, Context

\* endSession leaves the done tasks as they are.
LEMMA EndDone ==
  ASSUME NEW c \in Context
  PROVE  EndSession(c).done = c.done /\ EndSession(c).expired = {}
BY RecordDone DEF EndSession, NoContext

\* clearProvisions makes no task done.
LEMMA ClearDone ==
  ASSUME NEW c \in Context
  PROVE  ClearProvisions(c).done = c.done /\ ClearProvisions(c).expired = c.expired
BY DEF ClearProvisions, Context

\* Deleting faults makes no task done.
LEMMA ForgetDone ==
  ASSUME NEW c \in Context, NEW chs
  PROVE  ForgetFaults(c, chs).done = c.done /\ ForgetFaults(c, chs).expired = c.expired
BY DEF ForgetFaults, Context

\* Marking the channels that probe makes no task done.
LEMMA MarkDone ==
  ASSUME NEW c \in Context, NEW chs
  PROVE  MarkProbes(c, chs).done = c.done /\ MarkProbes(c, chs).expired = c.expired
BY DEF MarkProbes, Context

\* Loading the provisions of the presets makes no task done.
LEMMA LoadDone ==
  ASSUME NEW c \in Context, NEW white, NEW batch, NEW appended
  PROVE  /\ LoadBatch(c, white, batch, appended).done = c.done
         /\ LoadBatch(c, white, batch, appended).expired = c.expired
BY DEF LoadBatch, ClearProvisions, Context

(***************************************************************************)
(* What each function leaves of the tasks, faults and channels.            *)
(***************************************************************************)
\* The channels of a batch are faulty, and the session's own batch stays.
LEMMA BlameFields ==
  ASSUME NEW c \in Context, NEW b
  PROVE  LET d == Blame(c, b)
         IN  /\ d.faulty = c.faulty \cup b.chan /\ d.touched = c.touched \cup b.chan
             /\ d.retried = c.retried \cup b.chan
             /\ d.tasks = c.tasks /\ d.cycles = c.cycles
             /\ d.chan = c.chan /\ d.work = c.work /\ d.active = c.active
             /\ d.ops = c.ops /\ d.opsTouched = c.opsTouched /\ d.toRead = c.toRead
             /\ d.due = (c.due \ b.chan) \cup RetryNow(c, b)
<1> DEFINE now == RetryNow(c, b)
<1> HIDE DEF now
<1>1. Blame(c, b) =
        [c EXCEPT !.faulty  = @ \cup b.chan,
                  !.due     = (@ \ b.chan) \cup now,
                  !.pre     = (@ \ b.chan) \cup (b.chan \ b.work),
                  !.timed   = (@ \ b.chan) \cup (b.chan \cap c.tasks \cap Expiring),
                  !.retried = @ \cup b.chan,
                  !.touched = @ \cup b.chan]
  BY DEF Blame, now
<1> QED
  BY <1>1 DEF Context, now

\* recordFault blames every channel of the batch, and empties it.
LEMMA RecordFields ==
  ASSUME NEW c \in Context
  PROVE  /\ RecordFault(c).faulty = c.faulty \cup c.chan
         /\ RecordFault(c).touched = c.touched \cup c.chan
         /\ RecordFault(c).retried = c.retried \cup c.chan
         /\ RecordFault(c).tasks = c.tasks
         /\ RecordFault(c).cycles = c.cycles
         /\ RecordFault(c).chan = {} /\ RecordFault(c).work = {}
         /\ RecordFault(c).active = {} /\ RecordFault(c).done = c.done
         /\ RecordFault(c).ops = c.ops
<1> DEFINE d == Blame(c, c)
<1>1. d \in Context
  BY BlameType DEF Context
<1>2. d.faulty = c.faulty \cup c.chan /\ d.touched = c.touched \cup c.chan
      /\ d.retried = c.retried \cup c.chan
      /\ d.tasks = c.tasks /\ d.cycles = c.cycles /\ d.done = c.done /\ d.ops = c.ops
  BY BlameFields, BlameDone
<1> HIDE DEF d
<1> QED
  BY <1>1, <1>2 DEF RecordFault, ClearProvisions, Context, d

\* What an operation that ends, with its fault or without, leaves of a context
\* that has no batch.
LEMMA OperationFields ==
  ASSUME NEW c \in Context, NEW op \in Operation
  PROVE  LET f == ForgetOperation(c, op)
             d == OperationFault(c, op)
         IN  /\ f.faulty = c.faulty /\ f.touched = c.touched /\ f.retried = c.retried
             /\ f.tasks = c.tasks /\ f.chan = c.chan /\ f.work = c.work
             /\ f.active = c.active /\ f.done = c.done /\ f.ops = c.ops \ {op}
             /\ f.cycles = c.cycles /\ f.toRead = c.toRead
             /\ d.faulty = c.faulty \cup op.chan /\ d.touched = c.touched \cup op.chan
             /\ d.retried = (c.retried \cup op.retried) \cup op.chan
             /\ d.tasks = c.tasks /\ d.chan = {} /\ d.work = {} /\ d.active = {}
             /\ d.done = c.done /\ d.ops = c.ops \ {op} /\ d.cycles = c.cycles
<1> DEFINE f == ForgetOperation(c, op)
           g == [f EXCEPT !.retried = @ \cup op.retried]
           e == Blame(g, op)
<1>1. /\ f \in Context /\ f.faulty = c.faulty /\ f.touched = c.touched
      /\ f.retried = c.retried /\ f.tasks = c.tasks /\ f.chan = c.chan
      /\ f.work = c.work /\ f.active = c.active /\ f.done = c.done
      /\ f.ops = c.ops \ {op} /\ f.cycles = c.cycles /\ f.toRead = c.toRead
  BY ForgetOperationType DEF ForgetOperation, Context
<1>2. g \in Context
  BY RestoreType
<1>3. /\ g.faulty = f.faulty /\ g.touched = f.touched /\ g.done = f.done
      /\ g.retried = f.retried \cup op.retried /\ g.tasks = f.tasks
      /\ g.ops = f.ops /\ g.cycles = f.cycles
  <2> HIDE DEF f
  <2> QED
    BY <1>1 DEF Context
<1> HIDE DEF g
<1>4. /\ e \in Context /\ e.faulty = g.faulty \cup op.chan
      /\ e.touched = g.touched \cup op.chan /\ e.retried = g.retried \cup op.chan
      /\ e.tasks = g.tasks /\ e.done = g.done /\ e.ops = g.ops /\ e.cycles = g.cycles
  BY <1>2, BlameType, BlameFields, BlameDone, OperationChannels
<1> HIDE DEF e
<1> DEFINE h == ClearProvisions(e)
<1>5. /\ h.faulty = e.faulty /\ h.touched = e.touched /\ h.retried = e.retried
      /\ h.tasks = e.tasks /\ h.chan = {} /\ h.work = {} /\ h.active = {}
      /\ h.done = e.done /\ h.ops = e.ops /\ h.cycles = e.cycles
  BY <1>4 DEF ClearProvisions, Context
<1>6. h = OperationFault(c, op)
  BY DEF OperationFault, h, e, g, f
<1> HIDE DEF f, h
<1>7. /\ h.faulty = c.faulty \cup op.chan /\ h.touched = c.touched \cup op.chan
      /\ h.retried = (c.retried \cup op.retried) \cup op.chan
      /\ h.tasks = c.tasks /\ h.chan = {} /\ h.work = {} /\ h.active = {}
      /\ h.done = c.done /\ h.ops = c.ops \ {op} /\ h.cycles = c.cycles
  BY <1>1, <1>3, <1>4, <1>5
<1> QED
  BY <1>1, <1>6, <1>7 DEF f

\* A response of the CPE, and a download it begins with, leave the batch.
LEMMA AnsweredFields ==
  ASSUME NEW c \in Context, NEW k \in Key
  PROVE  LET a == Answered(c)
             d == AddOperation(c, k)
         IN  /\ a.faulty = c.faulty /\ a.touched = c.touched /\ a.retried = c.retried
             /\ a.tasks = c.tasks /\ a.chan = c.chan /\ a.work = c.work
             /\ a.active = c.active /\ a.done = c.done /\ a.ops = c.ops
             /\ a.cycles = c.cycles
             /\ d.faulty = c.faulty /\ d.touched = c.touched /\ d.retried = c.retried
             /\ d.tasks = c.tasks /\ d.chan = c.chan /\ d.work = c.work
             /\ d.active = c.active /\ d.done = c.done /\ d.cycles = c.cycles
             /\ \A op \in d.ops : op \in c.ops \/ op.chan = c.chan
<1>1. /\ Answered(c).faulty = c.faulty /\ Answered(c).touched = c.touched
      /\ Answered(c).retried = c.retried /\ Answered(c).tasks = c.tasks
      /\ Answered(c).chan = c.chan /\ Answered(c).work = c.work
      /\ Answered(c).active = c.active /\ Answered(c).done = c.done
      /\ Answered(c).ops = c.ops /\ Answered(c).cycles = c.cycles
  BY DEF Answered, Context
<1> DEFINE o == [key |-> k, chan |-> c.chan, work |-> c.work,
                 retried |-> c.chan \cap c.retried]
           d == [c EXCEPT !.ops = @ \cup {o}, !.opsTouched = @ \cup {k}]
<1>2. o.chan = c.chan
  OBVIOUS
<1> HIDE DEF o
<1>3. /\ d.faulty = c.faulty /\ d.touched = c.touched /\ d.retried = c.retried
      /\ d.tasks = c.tasks /\ d.chan = c.chan /\ d.work = c.work
      /\ d.active = c.active /\ d.done = c.done /\ d.cycles = c.cycles
      /\ d.ops = c.ops \cup {o}
  BY DEF Context
<1>4. AddOperation(c, k) = d
  BY DEF AddOperation, d, o
<1> HIDE DEF d
<1>5. \A op \in d.ops : op \in c.ops \/ op.chan = c.chan
  BY <1>2, <1>3
<1> QED
  BY <1>1, <1>3, <1>4, <1>5

\* clearProvisions leaves everything but the batch.
LEMMA ClearFields ==
  ASSUME NEW c \in Context
  PROVE  LET d == ClearProvisions(c)
         IN  /\ d.faulty = c.faulty /\ d.touched = c.touched /\ d.tasks = c.tasks
             /\ d.cycles = c.cycles
             /\ d.chan = {} /\ d.work = {} /\ d.provs = FALSE
BY DEF ClearProvisions, Context

\* Faults that are forgotten are touched.
LEMMA ForgetFields ==
  ASSUME NEW c \in Context, NEW chs
  PROVE  LET d == ForgetFaults(c, chs)
         IN  /\ d.faulty = c.faulty \ chs
             /\ d.touched = c.touched \cup (chs \cap c.faulty)
             /\ d.tasks = c.tasks /\ d.chan = c.chan /\ d.work = c.work
             /\ d.cycles = c.cycles /\ d.provs = c.provs
BY DEF ForgetFaults, Context

\* A batch that is completed takes its tasks off, and its faults.
LEMMA CompleteFields ==
  ASSUME NEW c \in Context
  PROVE  LET d == CompleteBatch(c)
         IN  /\ d.faulty = c.faulty \ c.work
             /\ d.touched = c.touched \cup (c.work \cap c.faulty)
             /\ d.tasks = c.tasks \ c.chan
             /\ d.expired = c.expired
             /\ d.cycles = c.cycles
             /\ d.chan = {} /\ d.work = {}
BY DEF CompleteBatch, ForgetFaults, ClearProvisions, Context

\* Tasks that have expired are taken off, and their faults.
LEMMA DropFields ==
  ASSUME NEW c \in Context
  PROVE  LET d == DropExpired(c)
             gone == c.tasks \cap Expiring \cap c.expired
         IN  /\ d.faulty = c.faulty \ gone
             /\ d.touched = c.touched \cup (gone \cap c.faulty)
             /\ d.tasks = c.tasks \ gone
             /\ d.cycles = c.cycles
             /\ d.chan = c.chan /\ d.work = c.work
BY DEF DropExpired, ForgetFaults, Context

\* The task that is started goes into the batch, unless it is invalid.
LEMMA StartFields ==
  ASSUME NEW c \in Context, NEW t
  PROVE  LET d == StartTask(c, t)
         IN  /\ d.faulty = c.faulty /\ d.touched = c.touched
             /\ d.tasks = c.tasks \ ({t} \cap InvalidTask)
             /\ d.chan = c.chan \cup ({t} \ InvalidTask)
             /\ d.work = c.work \cup ({t} \ (InvalidTask \cup EmptyTask))
             /\ d.cycles = c.cycles
<1>1. CASE t \in InvalidTask
  BY <1>1 DEF StartTask, Context
<1>2. CASE t \notin InvalidTask
  BY <1>2 DEF StartTask, AddProvisions, Context
<1> QED
  BY <1>1, <1>2

\* The channels that probe join what is in the batch.
LEMMA MarkFields ==
  ASSUME NEW c \in Context, NEW chs
  PROVE  LET d == MarkProbes(c, chs)
         IN  /\ d.faulty = c.faulty /\ d.touched = c.touched /\ d.tasks = c.tasks
             /\ d.cycles = c.cycles
             /\ d.chan = c.chan \cup chs /\ d.work = c.work \ chs
BY DEF MarkProbes, Context

\* The batch of applyPresets takes the place of the one before it.
LEMMA LoadFields ==
  ASSUME NEW c \in Context, NEW white, NEW batch, NEW appended
  PROVE  LET d == LoadBatch(c, white, batch, appended)
         IN  /\ d.faulty = c.faulty /\ d.touched = c.touched \cup appended
             /\ d.tasks = c.tasks
             /\ d.chan = batch /\ d.work = batch /\ d.active = batch
             /\ d.cycles = IF white # {} THEN c.cycles ELSE c.cycles + 1
<1> DEFINE some == batch # {}
           n == IF white # {} THEN c.cycles ELSE c.cycles + 1
           f == ClearProvisions(c)
<1>1. /\ f.faulty = c.faulty /\ f.touched = c.touched /\ f.tasks = c.tasks
      /\ f.cycles = c.cycles /\ f \in Context
  BY ClearFields, ClearType
<1>2. LoadBatch(c, white, batch, appended) =
        [f EXCEPT !.chan = batch, !.work = batch, !.active = batch,
                  !.provs = some, !.touched = @ \cup appended, !.cycles = n]
  BY <1>1 DEF LoadBatch
<1> HIDE DEF f, n, some
<1>3. LET d == [f EXCEPT !.chan = batch, !.work = batch, !.active = batch,
                  !.provs = some, !.touched = @ \cup appended, !.cycles = n]
      IN  /\ d.faulty = f.faulty /\ d.touched = f.touched \cup appended
          /\ d.tasks = f.tasks
          /\ d.chan = batch /\ d.work = batch /\ d.active = batch
          /\ d.cycles = n
  BY <1>1 DEF Context
<1> QED
  BY <1>1, <1>2, <1>3 DEF n

\* endSession leaves the touched faults to be saved, and an unfinished batch
\* is a fault.
LEMMA EndFields ==
  ASSUME NEW c \in Context
  PROVE  LET d == IF c.provs THEN RecordFault(c) ELSE c
             e == EndSession(c)
         IN  /\ e.faulty = d.faulty /\ e.toSave = d.touched /\ e.done = d.done
             /\ e.cycles = d.cycles
             /\ e.tasks = {} /\ e.chan = {} /\ e.work = {} /\ e.touched = {}
<1> DEFINE d == IF c.provs THEN RecordFault(c) ELSE c
<1> HIDE DEF d
<1>1. EndSession(c) =
        [NoContext EXCEPT !.faulty = d.faulty, !.timed = d.timed, !.done = d.done,
                          !.ops = d.ops, !.opsTouched = d.opsTouched, !.toSave = d.touched,
                          !.toWrite = {"device"} \cup (IF d.done = {} THEN {} ELSE {"tasks"}),
                          !.cycles = d.cycles]
  BY DEF EndSession, d
<1>2. /\ EndSession(c).faulty = d.faulty /\ EndSession(c).toSave = d.touched
      /\ EndSession(c).done = d.done /\ EndSession(c).cycles = d.cycles
      /\ EndSession(c).tasks = {} /\ EndSession(c).chan = {} /\ EndSession(c).work = {}
      /\ EndSession(c).touched = {}
  BY <1>1 DEF NoContext
<1> QED
  BY <1>2 DEF d

(***************************************************************************)
(* The invariant.  NoTaskLost alone is not inductive: endSession clears    *)
(* the done tasks of a context, so each of them must have been carried     *)
(* through, or have expired, or be invalid, from the moment it is marked;  *)
(* and DropExpired relies on what the Inform noted as expired.             *)
(***************************************************************************)
Gone(r, e) == r \cup e \cup InvalidTask

Sound(c, r, e) ==
  /\ c \in Context
  /\ c.done \subseteq Gone(r, e)
  /\ c.expired \subseteq e

ContextsSound == \A s \in Session : Sound(ctx[s], ran, expired)

SessionInv == SessionTypeOK /\ ContextsSound

QueueInv == SessionInv /\ NoTaskLost

\* What a step of a session may do to the queue, whoever else changes it.
QueueKept ==
  /\ SessionInv'
  /\ tasks \ tasks' \subseteq Gone(ran', expired')
  /\ ran \subseteq ran' /\ expired' = expired /\ created' = created

\* The context of no session is sound.
LEMMA SoundNone ==
  ASSUME NEW r, NEW e
  PROVE  Sound(NoContext, r, e)
BY NoContextType DEF Sound, NoContext

\* recordFault keeps a context sound.
LEMMA SoundRecord ==
  ASSUME NEW c, NEW r, NEW e, Sound(c, r, e)
  PROVE  Sound(RecordFault(c), r, e)
BY RecordType, RecordDone DEF Sound

\* endSession keeps a context sound.
LEMMA SoundEnd ==
  ASSUME NEW c, NEW r, NEW e, Sound(c, r, e)
  PROVE  Sound(EndSession(c), r, e)
BY EndType, EndDone DEF Sound

\* clearProvisions keeps a context sound.
LEMMA SoundClear ==
  ASSUME NEW c, NEW r, NEW e, Sound(c, r, e)
  PROVE  Sound(ClearProvisions(c), r, e)
BY ClearType, ClearDone DEF Sound

\* Deleting faults keeps a context sound.
LEMMA SoundForget ==
  ASSUME NEW c, NEW r, NEW e, NEW chs, Sound(c, r, e)
  PROVE  Sound(ForgetFaults(c, chs), r, e)
BY ForgetType, ForgetDone DEF Sound

\* Marking the channels that probe keeps a context sound.
LEMMA SoundMark ==
  ASSUME NEW c, NEW r, NEW e, NEW chs \in SUBSET Channel, Sound(c, r, e)
  PROVE  Sound(MarkProbes(c, chs), r, e)
BY MarkType, MarkDone DEF Sound

\* Loading the provisions of the presets keeps a context sound.
LEMMA SoundLoad ==
  ASSUME NEW c, NEW r, NEW e, NEW white, NEW batch \in SUBSET Channel,
         NEW appended \in SUBSET Channel, Sound(c, r, e)
  PROVE  Sound(LoadBatch(c, white, batch, appended), r, e)
BY LoadType, LoadDone DEF Sound

\* nextRpc keeps a context sound once the tasks of its batch count as carried
\* through.
LEMMA SoundNext ==
  ASSUME NEW c, NEW r, NEW e, Sound(c, r, e)
  PROVE  Sound(DropExpired(CompleteBatch(c)), r \cup (c.chan \cap Task), e)
<1> DEFINE d == CompleteBatch(c)
<1>1. /\ d \in Context
      /\ d.done = c.done \cup (c.chan \cap Task)
      /\ d.expired = c.expired
  BY CompleteType, CompleteDone DEF Sound
<1> HIDE DEF d
<1>2. DropExpired(d) \in Context
  BY <1>1, DropType
<1>3. /\ DropExpired(d).done \subseteq d.done \cup d.expired
      /\ DropExpired(d).expired = d.expired
  BY <1>1, DropDone
<1>4. Sound(DropExpired(d), r \cup (c.chan \cap Task), e)
  BY <1>1, <1>2, <1>3 DEF Sound, Gone
<1> QED
  BY <1>4 DEF d

\* Starting a task keeps a context sound.
LEMMA SoundStart ==
  ASSUME NEW c, NEW r, NEW e, NEW t \in Task, Sound(c, r, e)
  PROVE  Sound(StartTask(c, t), r, e)
BY StartType, StartDone DEF Sound, Gone

(***************************************************************************)
(* A step that gives one session a new place and a sound context, and      *)
(* removes from the queue only what may go, keeps the invariant.           *)
(***************************************************************************)
Counted == /\ crashes \in 0 .. MaxCrashes
           /\ drops \in 0 .. MaxDrops
           /\ stalls \in 0 .. MaxStalls

\* One session moves to a sound context; what leaves the queue may go.
LEMMA GoStep ==
  ASSUME SessionInv, NEW s \in Session, NEW from, NEW to \in Label, NEW c,
         Go(s, from, to, c), Sound(c, ran', expired'),
         ran \subseteq ran', ran' \subseteq Task,
         tasks' \subseteq tasks, tasks \ tasks' \subseteq Gone(ran', expired),
         faults' \subseteq Channel, timed' \subseteq Channel,
         operations' \subseteq Operation, failed' \subseteq Task,
         UNCHANGED world, Counted'
  PROVE  QueueKept
<1>1. /\ pc' \in [Session -> Label]
      /\ ctx' \in [Session -> Context]
      /\ ContextsSound'
  <2>1. /\ pc \in [Session -> Label] /\ ctx \in [Session -> Context]
        /\ pc' = [pc EXCEPT ![s] = to] /\ ctx' = [ctx EXCEPT ![s] = c]
        /\ c \in Context
    BY DEF SessionInv, SessionTypeOK, Go, Sound
  <2>2. \A r \in Session : Sound(ctx'[r], ran', expired')
    <3>1. TAKE r \in Session
    <3>2. CASE r = s
      BY <2>1, <3>2
    <3>3. CASE r # s
      <4>1. ctx'[r] = ctx[r] /\ Sound(ctx[r], ran, expired)
        BY <2>1, <3>1, <3>3 DEF SessionInv, ContextsSound
      <4> QED
        BY <4>1 DEF Sound, Gone, world
    <3> QED
      BY <3>2, <3>3
  <2> QED
    BY <2>1, <2>2 DEF ContextsSound
<1>2. SessionTypeOK'
  BY <1>1 DEF SessionInv, SessionTypeOK, world, Counted
<1>3. tasks \ tasks' \subseteq Gone(ran', expired') /\ expired' = expired /\ created' = created
  BY DEF world
<1> QED
  BY <1>1, <1>2, <1>3 DEF SessionInv, QueueKept

\* One session moves to a sound context, and nothing else changes.
LEMMA LocalStep ==
  ASSUME SessionInv, NEW s \in Session, NEW from, NEW to \in Label, NEW c,
         Sound(c, ran, expired), Local(s, from, to, c)
  PROVE  QueueKept
<1>1. /\ Go(s, from, to, c)
      /\ tasks' = tasks /\ faults' = faults /\ timed' = timed
      /\ operations' = operations /\ failed' = failed
      /\ ran' = ran /\ UNCHANGED world /\ UNCHANGED bounds
  BY DEF Local, store, past
<1>2. expired' = expired
  BY <1>1 DEF world
<1>3. Counted'
  BY <1>1 DEF SessionInv, SessionTypeOK, Counted, bounds
<1> QED
  BY <1>1, <1>2, <1>3, GoStep DEF SessionInv, SessionTypeOK

\* The same for the steps that change the lock and the counters besides.
LEMMA QuietStep ==
  ASSUME SessionInv, NEW s \in Session, NEW from, NEW to \in Label, NEW c,
         Sound(c, ran, expired), Go(s, from, to, c),
         UNCHANGED <<store, ran, world>>, failed' \subseteq Task, Counted'
  PROVE  QueueKept
<1>1. /\ tasks' = tasks /\ faults' = faults /\ timed' = timed
      /\ operations' = operations
      /\ ran' = ran /\ UNCHANGED world /\ expired' = expired
  BY DEF store, world
<1> QED
  BY <1>1, GoStep DEF SessionInv, SessionTypeOK

\* The counters of crashes, drops and stalls stay within their bounds.
LEMMA SameCounts ==
  ASSUME SessionInv, UNCHANGED bounds
  PROVE  Counted'
BY DEF SessionInv, SessionTypeOK, Counted, bounds

\* What no step of a session but the failure of a download changes.
LEMMA FailedTyped ==
  ASSUME SessionInv, UNCHANGED past
  PROVE  ran' = ran /\ failed' = failed /\ failed' \subseteq Task
BY DEF SessionInv, SessionTypeOK, past

\* Writing an answer to the device, which renews the lock.
LEMMA WriteStep ==
  ASSUME SessionInv, NEW s \in Session, NEW from, NEW to \in Label, NEW c,
         Sound(c, ran, expired), WriteResponse(s, from, to, c),
         UNCHANGED <<store, ran, world, bounds>>, failed' \subseteq Task
  PROVE  QueueKept
<1>1. CASE Go(s, from, to, c)
  BY <1>1, QuietStep, SameCounts
<1>2. CASE Go(s, from, "lost", NoContext)
  BY <1>2, QuietStep, SameCounts, SoundNone DEF Label
<1> QED
  BY <1>1, <1>2 DEF WriteResponse

\* The same when no download failed.
LEMMA RespondStep ==
  ASSUME SessionInv, NEW s \in Session, NEW from, NEW to \in Label, NEW c,
         Sound(c, ran, expired), Respond(s, from, to, c)
  PROVE  QueueKept
BY WriteStep, FailedTyped DEF Respond

\* drops grows by one, up to its bound, or does not change.
LEMMA DropCount ==
  ASSUME SessionInv, UNCHANGED <<crashes, stalls>>,
         drops' = drops \/ (drops < MaxDrops /\ drops' = drops + 1)
  PROVE  Counted'
BY SessionAssumption DEF SessionInv, SessionTypeOK, Counted

\* The end of a session reached while its presets are applied.
LEMMA CloseStep ==
  ASSUME SessionInv, NEW s \in Session, NEW from, NEW c,
         Sound(c, ran', expired), Close(s, from, c),
         UNCHANGED <<store, world, crashes, stalls>>, UNCHANGED failed,
         ran \subseteq ran', ran' \subseteq Task
  PROVE  QueueKept
<1>1. /\ tasks' = tasks /\ faults' = faults /\ timed' = timed
      /\ operations' = operations
      /\ UNCHANGED world /\ expired' = expired
  BY DEF store, world
<1>2. Counted'
  BY DropCount DEF Close
<1>3. PICK d : Go(s, from, "saving", EndSession(d)) /\ Sound(d, ran', expired)
  BY SoundClear DEF Close
<1>4. Sound(EndSession(d), ran', expired')
  BY <1>1, <1>3, SoundEnd
<1> QED
  BY <1>1, <1>2, <1>3, <1>4, GoStep DEF SessionInv, SessionTypeOK, Label

(***************************************************************************)
(* The steps of a session, action by action.                               *)
(***************************************************************************)
LEMMA InformStep ==
  ASSUME SessionInv, NEW s \in Session, NEW known \in SUBSET Probing, Inform(s, known)
  PROVE  QueueKept
<1> DEFINE c == [NoContext EXCEPT !.tasks = tasks, !.expired = expired,
                                  !.fetched = known, !.toRead = {"tasks", "faults", "operations"}]
<1>1. /\ tasks \in SUBSET Task /\ expired \in SUBSET Task
      /\ known \in SUBSET Channel
  BY TaskAssumption DEF SessionInv, SessionTypeOK, Channel
<1>2. c \in Context
  BY <1>1, NoContextType DEF Context
<1>3. c.done = {} /\ c.expired = expired
  BY DEF NoContext
<1>4. Sound(c, ran, expired)
  BY <1>2, <1>3 DEF Sound
<1> QED
  BY <1>4, LocalStep DEF Inform, Label

\* getDueTasks.
LEMMA ReadTasksStep ==
  ASSUME SessionInv, NEW s \in Session, ReadTasks(s)
  PROVE  QueueKept
<1> DEFINE c == ctx[s]
           d == [c EXCEPT !.tasks = @ \cap tasks, !.toRead = @ \ {"tasks"}]
<1>1. Sound(c, ran, expired)
  BY DEF SessionInv, ContextsSound
<1> HIDE DEF c
<1>2. d \in Context /\ d.done = c.done /\ d.expired = c.expired
  BY <1>1 DEF Sound, Context
<1>3. Sound(d, ran, expired)
  BY <1>1, <1>2 DEF Sound
<1> QED
  BY <1>3, LocalStep DEF ReadTasks, Label, c

\* getFaults.
LEMMA ReadFaultsStep ==
  ASSUME SessionInv, NEW s \in Session, NEW due \in SUBSET faults, ReadFaults(s, due)
  PROVE  QueueKept
<1> DEFINE c == ctx[s]
           drop == DiscardedFaults(c)
           keep == faults \ drop
           d == [c EXCEPT !.faulty = keep, !.due = due,
                          !.timed = timed \cap keep, !.retried = keep,
                          !.touched = drop, !.toRead = @ \ {"faults"}]
<1>1. Sound(c, ran, expired)
  BY DEF SessionInv, ContextsSound
<1>2. /\ faults \subseteq Channel /\ timed \subseteq Channel
      /\ drop \subseteq Channel /\ keep \subseteq Channel
      /\ due \subseteq Channel /\ timed \cap keep \subseteq Channel
  BY DEF SessionInv, SessionTypeOK, DiscardedFaults
<1>3. Local(s, "reading", "reading", d)
  BY DEF ReadFaults
<1> HIDE DEF c, drop, keep
<1>4. d \in Context /\ d.done = c.done /\ d.expired = c.expired
  BY <1>1, <1>2 DEF Sound, Context
<1>5. Sound(d, ran, expired)
  BY <1>1, <1>4 DEF Sound
<1> HIDE DEF d
<1> QED
  BY <1>3, <1>5, LocalStep DEF Label

\* getOperations.
LEMMA ReadOperationsStep ==
  ASSUME SessionInv, NEW s \in Session, ReadOperations(s)
  PROVE  QueueKept
<1> DEFINE c == ctx[s]
           d == [c EXCEPT !.ops = operations, !.toRead = @ \ {"operations"}]
<1>1. Sound(c, ran, expired) /\ operations \subseteq Operation
  BY DEF SessionInv, SessionTypeOK, ContextsSound
<1> HIDE DEF c
<1>2. d \in Context /\ d.done = c.done /\ d.expired = c.expired
  BY <1>1 DEF Sound, Context
<1>3. Sound(d, ran, expired)
  BY <1>1, <1>2 DEF Sound
<1> QED
  BY <1>3, LocalStep DEF ReadOperations, Label, c

\* saveOperation and deleteOperation of one command key.
LEMMA SaveOperationStep ==
  ASSUME SessionInv, NEW s \in Session, NEW k \in Key, SaveOperation(s, k)
  PROVE  QueueKept
<1> DEFINE c == ctx[s]
           d == [c EXCEPT !.opsTouched = @ \ {k}]
<1>1. Sound(c, ran, expired)
  BY DEF SessionInv, ContextsSound
<1>2. operations' \subseteq Operation
  BY <1>1 DEF SessionInv, SessionTypeOK, SaveOperation, Sound, Context
<1>3. /\ Go(s, "saving", "saving", d)
      /\ tasks' = tasks /\ faults' = faults /\ timed' = timed
      /\ UNCHANGED past /\ UNCHANGED world /\ expired' = expired /\ UNCHANGED bounds
  BY DEF SaveOperation, world
<1> HIDE DEF c
<1>4. d \in Context /\ d.done = c.done /\ d.expired = c.expired
  BY <1>1 DEF Sound, Context
<1>5. Sound(d, ran', expired')
  BY <1>1, <1>3, <1>4, FailedTyped DEF Sound
<1> HIDE DEF d
<1> QED
  BY <1>2, <1>3, <1>5, SameCounts, FailedTyped, GoStep DEF SessionInv, SessionTypeOK, Label

\* saveFault and deleteFault of one channel.
LEMMA SaveFaultStep ==
  ASSUME SessionInv, NEW s \in Session, NEW ch \in Channel, SaveFault(s, ch)
  PROVE  QueueKept
<1> DEFINE c == ctx[s]
           d == [c EXCEPT !.toSave = @ \ {ch}]
<1>1. Sound(c, ran, expired)
  BY DEF SessionInv, ContextsSound
<1>2. /\ faults' \subseteq Channel /\ timed' \subseteq Channel
  BY DEF SessionInv, SessionTypeOK, SaveFault
<1>3. /\ Go(s, "saving", "saving", d)
      /\ tasks' = tasks /\ operations' = operations /\ UNCHANGED past /\ ran' = ran
      /\ UNCHANGED world /\ expired' = expired /\ UNCHANGED bounds
  BY FailedTyped DEF SaveFault, world
<1> HIDE DEF c
<1>4. d \in Context /\ d.done = c.done /\ d.expired = c.expired
  BY <1>1 DEF Sound, Context
<1>5. Sound(d, ran', expired')
  BY <1>1, <1>3, <1>4 DEF Sound
<1> HIDE DEF d
<1> QED
  BY <1>2, <1>3, <1>5, SameCounts, FailedTyped, GoStep DEF SessionInv, SessionTypeOK, Label

\* clearTasks.
LEMMA ClearTasksStep ==
  ASSUME SessionInv, NEW s \in Session, ClearTasks(s)
  PROVE  QueueKept
<1> DEFINE c == ctx[s]
           d == [c EXCEPT !.toWrite = @ \ {"tasks"}]
<1>1. Sound(c, ran, expired)
  BY DEF SessionInv, ContextsSound
<1>2. /\ Go(s, "saving", "saving", d)
      /\ tasks' = tasks \ c.done /\ UNCHANGED past /\ ran' = ran
      /\ faults' = faults /\ timed' = timed /\ operations' = operations
      /\ UNCHANGED world /\ expired' = expired /\ UNCHANGED bounds
  BY FailedTyped DEF ClearTasks, world
<1> HIDE DEF c
<1>3. tasks \ tasks' \subseteq Gone(ran', expired)
  BY <1>1, <1>2 DEF Sound
<1>4. d \in Context /\ d.done = c.done /\ d.expired = c.expired
  BY <1>1 DEF Sound, Context
<1>5. Sound(d, ran', expired')
  BY <1>1, <1>2, <1>4 DEF Sound
<1> HIDE DEF d
<1> QED
  BY <1>2, <1>3, <1>5, SameCounts, FailedTyped, GoStep DEF SessionInv, SessionTypeOK, Label

\* nextRpc, when no batch is loaded.
LEMMA NextTaskStep ==
  ASSUME SessionInv, NEW s \in Session, NextTask(s)
  PROVE  QueueKept
<1> DEFINE c == DropExpired(CompleteBatch(ctx[s]))
<1>1. /\ ran' = ran \cup (ctx[s].chan \cap Task)
      /\ tasks' = tasks /\ faults' = faults /\ timed' = timed
      /\ operations' = operations /\ failed' = failed
      /\ UNCHANGED world /\ expired' = expired /\ UNCHANGED bounds
  BY DEF NextTask, store, world
<1>2. Sound(c, ran', expired')
  BY <1>1, SoundNext DEF SessionInv, ContextsSound
<1>3. PICK to \in {"presets", "next"}, d \in Context :
           Go(s, "next", to, d) /\ Sound(d, ran', expired')
  <2>1. CASE Go(s, "next", "presets", c)
    BY <1>2, <2>1 DEF Sound
  <2>2. ASSUME NEW t \in Oldest(Runnable(c)), Go(s, "next", "next", StartTask(c, t))
        PROVE  Go(s, "next", "next", StartTask(c, t)) /\ Sound(StartTask(c, t), ran', expired')
    <3>1. t \in Task
      BY <1>2 DEF Oldest, Runnable, Sound, Context
    <3> QED
      BY <1>2, <2>2, <3>1, SoundStart
  <2> QED
    BY <2>1, <2>2 DEF NextTask, Sound
<1> QED
  BY <1>1, <1>3, SameCounts, GoStep DEF SessionInv, SessionTypeOK, Label

\* applyPresets, when its conditions ask for parameters.
LEMMA ProbeStep ==
  ASSUME SessionInv, NEW s \in Session, Probe(s)
  PROVE  QueueKept
<1>1. PICK white \in WhiteLists(ctx[s]) :
        \E match \in SUBSET Eligible(ctx[s], white) :
          \/ ProbeFault(s, MarkProbes(ctx[s], match \cap Probing))
          \/ ProbeSend(s, MarkProbes(ctx[s], match \cap Probing))
  BY DEF Probe
<1>2. PICK match \in SUBSET Eligible(ctx[s], white) :
          \/ ProbeFault(s, MarkProbes(ctx[s], match \cap Probing))
          \/ ProbeSend(s, MarkProbes(ctx[s], match \cap Probing))
  BY <1>1
<1> DEFINE c == MarkProbes(ctx[s], match \cap Probing)
<1>3. Sound(ctx[s], ran, expired) /\ match \cap Probing \in SUBSET Channel
  BY TaskAssumption DEF SessionInv, ContextsSound, Channel
<1>4. Sound(c, ran, expired)
  BY <1>3, SoundMark
<1>5. CASE ProbeFault(s, c)
  BY <1>4, <1>5, SoundRecord, LocalStep DEF ProbeFault, Label
<1>6. CASE ProbeSend(s, c)
  BY <1>4, <1>6, RespondStep DEF ProbeSend, Label
<1> QED
  BY <1>2, <1>5, <1>6

\* applyPresets with its conditions decided, for one choice of presets.
LEMMA ApplyBatchStep ==
  ASSUME SessionInv, NEW s \in Session, NEW white \in SUBSET Channel,
         NEW match \in SUBSET Channel, NEW appended \in SUBSET match,
         ApplyBatch(s, white, match, appended)
  PROVE  QueueKept
<1> DEFINE b == PresetBatch(ctx[s], white, match)
           c == LoadBatch(ctx[s], white, b, appended)
<1>1. Sound(ctx[s], ran, expired) /\ b \in SUBSET Channel
  BY DEF SessionInv, ContextsSound, PresetBatch
<1>2. Sound(c, ran, expired)
  BY <1>1, SoundLoad
<1>3. PresetLoop(s, c) \/ PresetFault(s, c) \/ PresetSend(s, c) \/ PresetDone(s, white, c)
  BY DEF ApplyBatch
<1> HIDE DEF c
<1>4. ran \subseteq Task /\ c.chan \cap Task \subseteq Task
  BY DEF SessionInv, SessionTypeOK
<1>5. CASE PresetLoop(s, c)
  <2>1. CASE Close(s, "presets", RecordFault(c))
             /\ UNCHANGED <<store, lock, past, world, crashes, stalls>>
    BY <1>2, <1>4, <2>1, SoundRecord, CloseStep DEF past
  <2>2. CASE Local(s, "presets", "lost", NoContext)
    BY <2>2, SoundNone, LocalStep DEF Label
  <2> QED
    BY <1>5, <2>1, <2>2 DEF PresetLoop
<1>6. CASE PresetFault(s, c)
  BY <1>2, <1>6, SoundRecord, LocalStep DEF PresetFault, Label
<1>7. CASE PresetSend(s, c)
  BY <1>2, <1>7, RespondStep DEF PresetSend, Label
<1>8. CASE PresetDone(s, white, c)
  <2> DEFINE d == ForgetFaults(c, c.chan)
  <2>1. /\ ran' = ran \cup (c.chan \cap Task)
        /\ UNCHANGED <<store, lock, failed, world, crashes, stalls>>
        /\ expired' = expired
    BY <1>8 DEF PresetDone, world
  <2>2. Sound(d, ran', expired')
    <3>1. Sound(c, ran', expired')
      BY <1>2, <2>1 DEF Sound, Gone
    <3> QED
      BY <3>1, SoundForget
  <2>3. CASE Go(s, "presets", "presets", d) /\ UNCHANGED drops
    <3>1. Counted'
      BY <2>1, <2>3, DropCount
    <3> QED
      BY <1>4, <2>1, <2>2, <2>3, <3>1, GoStep DEF SessionInv, SessionTypeOK, store, Label
  <2>4. CASE Close(s, "presets", d)
    BY <1>4, <2>1, <2>2, <2>4, CloseStep
  <2> QED
    BY <1>8, <2>3, <2>4 DEF PresetDone
<1> QED
  BY <1>3, <1>5, <1>6, <1>7, <1>8

\* applyPresets with its conditions decided.
LEMMA ApplyPresetsStep ==
  ASSUME SessionInv, NEW s \in Session, ApplyPresets(s)
  PROVE  QueueKept
<1>1. PICK white \in WhiteLists(ctx[s]) :
        \E match \in SUBSET Eligible(ctx[s], white) :
          \E appended \in SUBSET match : ApplyBatch(s, white, match, appended)
  BY DEF ApplyPresets
<1>2. PICK match \in SUBSET Eligible(ctx[s], white) :
        \E appended \in SUBSET match : ApplyBatch(s, white, match, appended)
  BY <1>1
<1>3. PICK appended \in SUBSET match : ApplyBatch(s, white, match, appended)
  BY <1>2
<1>4. ctx[s] \in Context
  BY DEF SessionInv, SessionTypeOK
<1>5. white \in SUBSET Channel /\ match \in SUBSET Channel
  BY <1>4 DEF WhiteLists, Eligible, Context, Channel
<1> QED
  BY <1>3, <1>5, ApplyBatchStep

\* An answer of the CPE, which may begin a download.
LEMMA CpeResponseStep ==
  ASSUME SessionInv, NEW s \in Session,
         CpeResponse(s) \/ \E k \in Key : BeginDownload(s, k)
  PROVE  QueueKept
<1> DEFINE c == ctx[s]
<1>1. Sound(c, ran, expired)
  BY DEF SessionInv, ContextsSound
<1>2. Sound(Answered(c), ran, expired)
  BY <1>1, AnsweredType, AnsweredDone DEF Sound, Answered, Context
<1>3. CASE CpeResponse(s)
  BY <1>2, <1>3, LocalStep DEF CpeResponse, Label
<1>4. ASSUME NEW k \in Key, BeginDownload(s, k)
      PROVE  QueueKept
  <2>1. Sound(AddOperation(Answered(c), k), ran, expired)
    BY <1>2, AddOperationType, AnsweredDone DEF Sound
  <2> QED
    BY <1>4, <2>1, LocalStep DEF BeginDownload, Label
<1> QED
  BY <1>3, <1>4

\* The end of a download, by a TransferComplete or its timeout.
LEMMA TransferStep ==
  ASSUME SessionInv, NEW s \in Session, NEW op \in ctx[s].ops,
         TransferComplete(s, op) \/ TimeoutOperation(s, op)
  PROVE  QueueKept
<1>1. Sound(ctx[s], ran, expired) /\ op \in Operation
  BY DEF SessionInv, ContextsSound, Sound, Context
<1>2. /\ Sound(ForgetOperation(ctx[s], op), ran, expired)
      /\ Sound(OperationFault(ctx[s], op), ran, expired)
  BY <1>1, ForgetOperationType, OperationFaultType, OperationDone DEF Sound
<1>3. failed \subseteq Task
  BY DEF SessionInv, SessionTypeOK
<1>4. CASE TransferComplete(s, op)
  <2>1. /\ failed' \subseteq Task
        /\ UNCHANGED <<store, ran, world, bounds>>
        /\ \/ WriteResponse(s, "locked", "locked", ForgetOperation(ctx[s], op))
           \/ WriteResponse(s, "locked", "locked", OperationFault(ctx[s], op))
    BY <1>3, <1>4 DEF TransferComplete
  <2> QED
    BY <1>2, <2>1, WriteStep DEF Label
<1>5. CASE TimeoutOperation(s, op)
  <2>1. /\ failed' \subseteq Task
        /\ UNCHANGED <<store, ran, world, bounds>>
        /\ Go(s, "empty", "empty", OperationFault(ctx[s], op))
    BY <1>3, <1>5 DEF TimeoutOperation
  <2> QED
    BY <1>2, <2>1, QuietStep, SameCounts DEF Label
<1> QED
  BY <1>4, <1>5

\* saveDevice.
LEMMA SaveDeviceStep ==
  ASSUME SessionInv, NEW s \in Session, SaveDevice(s)
  PROVE  QueueKept
<1> DEFINE c == ctx[s]
           d == [c EXCEPT !.toWrite = @ \ {"device"}]
<1>1. Sound(c, ran, expired) /\ Local(s, "saving", "saving", d)
  BY DEF SessionInv, ContextsSound, SaveDevice
<1> HIDE DEF c
<1>2. d \in Context /\ d.done = c.done /\ d.expired = c.expired
  BY <1>1 DEF Sound, Context
<1>3. Sound(d, ran, expired)
  BY <1>1, <1>2 DEF Sound
<1> HIDE DEF d
<1> QED
  BY <1>1, <1>3, LocalStep DEF Label

\* The steps around the lock, and those that end or lose a session.
LEMMA LockStep ==
  ASSUME SessionInv, NEW s \in Session,
         Lock(s) \/ Refuse(s) \/ Release(s) \/ LockExpired(s) \/ ExpireLock(s)
  PROVE  QueueKept
<1>1. Sound(ctx[s], ran, expired)
  BY DEF SessionInv, ContextsSound
<1>2. CASE Lock(s)
  BY <1>1, <1>2, SameCounts, FailedTyped, QuietStep DEF Lock, Label
<1>3. CASE Refuse(s)
  BY <1>3, SoundNone, LocalStep DEF Refuse, Label
<1>4. CASE Release(s)
  BY <1>4, SoundNone, SameCounts, FailedTyped, QuietStep DEF Release, Label
<1>5. CASE LockExpired(s)
  BY <1>5, SoundNone, LocalStep DEF LockExpired, Label
<1>6. CASE ExpireLock(s)
  BY <1>6, SoundNone, SameCounts, FailedTyped, QuietStep DEF ExpireLock, Label
<1> QED
  BY <1>2, <1>3, <1>4, <1>5, <1>6

\* A session that is refused, cut, or lost with its process, or that stalls.
LEMMA LossStep ==
  ASSUME SessionInv, NEW s \in Session,
         Unauthorized(s) \/ Terminate(s) \/ Crash(s) \/ Stall(s)
  PROVE  QueueKept
<1>1. Sound(ctx[s], ran, expired)
  BY DEF SessionInv, ContextsSound
<1>2. CASE Unauthorized(s)
  <2>1. Counted'
    BY <1>2, DropCount DEF Unauthorized
  <2> QED
    BY <1>2, <2>1, SoundNone, FailedTyped, QuietStep DEF Unauthorized, Label
<1>3. CASE Terminate(s)
  <2>1. Counted'
    BY <1>3, DropCount DEF Terminate
  <2>2. PICK from : Go(s, from, "saving", EndSession(ctx[s]))
    BY <1>3 DEF Terminate
  <2>3. Sound(EndSession(ctx[s]), ran, expired)
    BY <1>1, SoundEnd
  <2> QED
    BY <1>3, <2>1, <2>2, <2>3, FailedTyped, QuietStep DEF Terminate, Label
<1>4. CASE Crash(s)
  <2>1. Counted'
    BY <1>4, SessionAssumption DEF Crash, SessionInv, SessionTypeOK, Counted
  <2> QED
    BY <1>4, <2>1, SoundNone, FailedTyped, QuietStep DEF Crash, Label
<1>5. CASE Stall(s)
  <2>1. Counted'
    BY <1>5, SessionAssumption DEF Stall, SessionInv, SessionTypeOK, Counted
  <2> QED
    BY <1>5, <2>1 DEF Stall, store, past, world, SessionInv, SessionTypeOK, Counted,
                      ContextsSound, QueueKept
<1> QED
  BY <1>2, <1>3, <1>4, <1>5

\* Any step of one session.
LEMMA SessionStep ==
  ASSUME SessionInv, NEW s \in Session, SessionNext(s)
  PROVE  QueueKept
<1>1. Sound(ctx[s], ran, expired)
  BY DEF SessionInv, ContextsSound
<1>2. ASSUME NEW known \in SUBSET Probing, Inform(s, known)
      PROVE  QueueKept
  BY <1>2, InformStep
<1>3. CASE Handler(s)
  <2>1. ASSUME NEW due \in SUBSET faults, ReadFaults(s, due)
        PROVE  QueueKept
    BY <2>1, ReadFaultsStep
  <2>2. CASE NextFault(s)
    BY <1>1, <2>2, SoundRecord, LocalStep DEF NextFault, Label
  <2>3. CASE NextSend(s)
    BY <1>1, <2>3, RespondStep DEF NextSend, Label
  <2>4. ASSUME NEW ch \in Channel, SaveFault(s, ch)
        PROVE  QueueKept
    BY <2>4, SaveFaultStep
  <2>5. CASE StartRpcs(s)
    BY <1>1, <2>5, LocalStep DEF StartRpcs, Label
  <2> QED
    BY <1>3, <2>1, <2>2, <2>3, <2>4, <2>5, ReadTasksStep, NextTaskStep, ProbeStep,
       ApplyPresetsStep, SaveDeviceStep, ClearTasksStep, LockStep,
       ReadOperationsStep, SaveOperationStep, TransferStep DEF Handler
<1>4. CASE Cpe(s)
  <2>1. CASE EmptyRequest(s)
    BY <1>1, <2>1, LocalStep DEF EmptyRequest, Label
  <2>2. CASE CpeFault(s)
    BY <1>1, <2>2, SoundRecord, LocalStep DEF CpeFault, Label
  <2> QED
    BY <1>4, <2>1, <2>2, CpeResponseStep, LossStep DEF Cpe
<1>5. CASE CpeRequest(s)
  BY <1>1, <1>5, RespondStep DEF CpeRequest, Label
<1> QED
  BY <1>2, <1>3, <1>4, <1>5, TransferStep, LossStep, LockStep DEF SessionNext

\* A task expires.
LEMMA PassExpiryStep ==
  ASSUME SessionInv, NEW t \in Task, PassExpiry(t)
  PROVE  SessionInv'
<1>1. /\ expired' = expired \cup {t} /\ t \in Expiring
      /\ UNCHANGED <<tasks, faults, timed, operations, pc, ctx, created, ran, failed, bad,
                     crashes, drops, stalls>>
  BY DEF PassExpiry, store, past, bounds
<1> QED
  BY <1>1 DEF SessionInv, SessionTypeOK, ContextsSound, Sound, Gone

\* QueueInv holds at first.
LEMMA QueueInvInit == Init => QueueInv
<1> SUFFICES ASSUME Init PROVE QueueInv
  OBVIOUS
<1>1. SessionTypeOK
  BY NoContextType, SessionAssumption DEF Init, SessionTypeOK, Label
<1>2. ContextsSound
  BY SoundNone DEF Init, ContextsSound
<1> QED
  BY <1>1, <1>2 DEF QueueInv, SessionInv, Init, NoTaskLost

\* Every step keeps QueueInv.
LEMMA QueueInvNext == QueueInv /\ [Next]_vars => QueueInv'
<1> SUFFICES ASSUME QueueInv, [Next]_vars PROVE QueueInv'
  OBVIOUS
<1>1. ASSUME NEW t \in Task, InsertTask(t)
      PROVE  QueueInv'
  BY <1>1 DEF InsertTask, past, bounds, QueueInv, SessionInv, SessionTypeOK, ContextsSound, NoTaskLost
<1>2. ASSUME NEW t \in Task, PassExpiry(t)
      PROVE  QueueInv'
  <2>1. SessionInv' /\ expired \subseteq expired' /\ UNCHANGED <<tasks, created, ran>>
    BY <1>2, PassExpiryStep DEF QueueInv, PassExpiry, store, past
  <2> QED
    BY <2>1 DEF QueueInv, NoTaskLost
<1>3. CASE UNCHANGED vars
  BY <1>3 DEF vars, QueueInv, SessionInv, SessionTypeOK, ContextsSound, NoTaskLost
<1>4. ASSUME NEW s \in Session, SessionNext(s)
      PROVE  QueueInv'
  BY <1>4, SessionStep DEF QueueInv, QueueKept, NoTaskLost, Gone
<1> QED
  BY <1>1, <1>2, <1>3, <1>4 DEF Next

\* Type correctness of the whole state but the lock.
THEOREM SessionTyping == Spec => []SessionTypeOK
BY QueueInvInit, QueueInvNext, PTL DEF Spec, QueueInv, SessionInv

\* No task is lost, whatever overlaps, faults, crashes, drops or stalls.
THEOREM TasksSafe == Spec => []NoTaskLost
BY QueueInvInit, QueueInvNext, PTL DEF Spec, QueueInv

(***************************************************************************)
(* Exclusion.  LockHeld is inductive relative to the typing of pc: a lock  *)
(* is taken only when it is free or one's own, and released only by its    *)
(* owner, so the token of a session at work is never another's.            *)
(***************************************************************************)
LockInv == lock \in Session \cup {Free} /\ LockHeld

\* A step that leaves the lock alone and brings no session into its session.
LEMMA KeepLock ==
  ASSUME pc \in [Session -> Label], LockHeld, NEW s \in Session,
         NEW from, NEW to, NEW c, Go(s, from, to, c),
         to \in InSession => from \in InSession, UNCHANGED <<lock, stalls>>
  PROVE  LockHeld'
BY DEF LockHeld, Go

\* A step that takes the lock, free or the session's own.
LEMMA TakeLock ==
  ASSUME pc \in [Session -> Label], LockHeld, NEW s \in Session,
         NEW from, NEW to, NEW c, Go(s, from, to, c),
         LockIsFree(s), lock' = s, UNCHANGED stalls
  PROVE  LockHeld'
BY SessionAssumption DEF LockHeld, LockIsFree, Go

\* A step within one session leaves the lock alone.
LEMMA LocalLock ==
  ASSUME pc \in [Session -> Label], LockHeld, NEW s \in Session,
         NEW from, NEW to, NEW c, Local(s, from, to, c),
         to \in InSession => from \in InSession
  PROVE  LockHeld'
BY KeepLock DEF Local, bounds

\* Writing an answer keeps the lock or loses the session.
LEMMA WriteLock ==
  ASSUME pc \in [Session -> Label], LockHeld, NEW s \in Session,
         NEW from, NEW to, NEW c, WriteResponse(s, from, to, c), from \in InSession,
         UNCHANGED stalls
  PROVE  LockHeld'
<1>1. CASE Go(s, from, to, c) /\ UNCHANGED lock
  BY <1>1, KeepLock
<1>2. CASE LockIsFree(s) /\ lock' = s /\ Go(s, from, to, c)
  BY <1>2, TakeLock
<1>3. CASE Go(s, from, "lost", NoContext) /\ UNCHANGED lock
  BY <1>3, KeepLock DEF InSession
<1> QED
  BY <1>1, <1>2, <1>3 DEF WriteResponse

\* The same for a request that changes the context only.
LEMMA RespondLock ==
  ASSUME pc \in [Session -> Label], LockHeld, NEW s \in Session,
         NEW from, NEW to, NEW c, Respond(s, from, to, c), from \in InSession
  PROVE  LockHeld'
BY WriteLock DEF Respond, bounds

\* A download that ends leaves the lock with its session.
LEMMA TransferLock ==
  ASSUME pc \in [Session -> Label], LockHeld, NEW s \in Session, NEW op,
         TransferComplete(s, op) \/ TimeoutOperation(s, op)
  PROVE  LockHeld'
<1>1. CASE TransferComplete(s, op)
  BY <1>1, WriteLock DEF TransferComplete, bounds, InSession
<1>2. CASE TimeoutOperation(s, op)
  BY <1>2, KeepLock DEF TimeoutOperation, bounds
<1> QED
  BY <1>1, <1>2

\* Ending a session keeps its lock until its writes are done.
LEMMA CloseLock ==
  ASSUME pc \in [Session -> Label], LockHeld, NEW s \in Session,
         NEW from, NEW c, Close(s, from, c), from \in InSession,
         UNCHANGED <<lock, stalls>>
  PROVE  LockHeld'
BY KeepLock DEF Close

\* What applyPresets does to the lock.
LEMMA PresetLock ==
  ASSUME pc \in [Session -> Label], LockHeld, NEW s \in Session,
         Probe(s) \/ ApplyPresets(s)
  PROVE  LockHeld'
<1>1. ASSUME NEW c, ProbeFault(s, c) \/ ProbeSend(s, c)
      PROVE  LockHeld'
  BY <1>1, LocalLock, RespondLock DEF ProbeFault, ProbeSend, InSession
<1>2. ASSUME NEW white, NEW c,
             PresetLoop(s, c) \/ PresetFault(s, c) \/ PresetSend(s, c)
               \/ PresetDone(s, white, c)
      PROVE  LockHeld'
  <2>1. CASE PresetLoop(s, c)
    BY <2>1, CloseLock, LocalLock DEF PresetLoop, InSession
  <2>2. CASE PresetFault(s, c)
    BY <2>2, LocalLock DEF PresetFault, InSession
  <2>3. CASE PresetSend(s, c)
    BY <2>3, RespondLock DEF PresetSend, InSession
  <2>4. CASE PresetDone(s, white, c)
    BY <2>4, CloseLock, KeepLock DEF PresetDone, InSession
  <2> QED
    BY <1>2, <2>1, <2>2, <2>3, <2>4
<1> QED
  BY <1>1, <1>2 DEF Probe, ApplyPresets, ApplyBatch

\* The steps of the handler.
LEMMA HandlerLock ==
  ASSUME pc \in [Session -> Label], LockHeld, NEW s \in Session, Handler(s)
  PROVE  LockHeld'
<1>1. CASE \/ ReadTasks(s) \/ ReadOperations(s) \/ Refuse(s) \/ LockExpired(s)
           \/ NextFault(s) \/ SaveDevice(s) \/ StartRpcs(s)
  BY <1>1, LocalLock DEF ReadTasks, ReadOperations, StartRpcs, Refuse, LockExpired, NextFault, SaveDevice, InSession
<1>2. ASSUME NEW due \in SUBSET faults, ReadFaults(s, due)
      PROVE  LockHeld'
  BY <1>2, LocalLock DEF ReadFaults, InSession
<1>3. CASE Lock(s)
  BY <1>3, TakeLock DEF Lock, bounds
<1>4. CASE NextSend(s)
  BY <1>4, RespondLock DEF NextSend, InSession
<1>5. CASE NextTask(s)
  BY <1>5, KeepLock DEF NextTask, bounds, InSession
<1>6. CASE ClearTasks(s)
  BY <1>6, KeepLock DEF ClearTasks, bounds
<1>7. ASSUME NEW ch \in Channel, SaveFault(s, ch)
      PROVE  LockHeld'
  BY <1>7, KeepLock DEF SaveFault, bounds
<1>8. CASE Release(s)
  BY <1>8, SessionAssumption DEF Release, Go, bounds, LockHeld, InSession
<1>9. ASSUME NEW k \in Key, SaveOperation(s, k)
      PROVE  LockHeld'
  BY <1>9, KeepLock DEF SaveOperation, bounds
<1> QED
  BY <1>1, <1>2, <1>3, <1>4, <1>5, <1>6, <1>7, <1>8, <1>9, PresetLock, TransferLock
     DEF Handler

\* Any step of one session.
LEMMA SessionLock ==
  ASSUME SessionTypeOK, LockHeld, NEW s \in Session, SessionNext(s)
  PROVE  LockHeld'
<1>1. pc \in [Session -> Label]
  BY DEF SessionTypeOK
<1>2. ASSUME NEW known \in SUBSET Probing, Inform(s, known)
      PROVE  LockHeld'
  BY <1>1, <1>2, LocalLock DEF Inform, InSession
<1>3. CASE Unauthorized(s)
  BY <1>1, <1>3, KeepLock DEF Unauthorized, InSession
<1>4. CASE Cpe(s)
  <2>1. CASE \/ EmptyRequest(s) \/ CpeResponse(s) \/ CpeFault(s)
             \/ \E k \in Key : BeginDownload(s, k)
    BY <1>1, <2>1, LocalLock
       DEF EmptyRequest, CpeResponse, BeginDownload, CpeFault, InSession
  <2>2. CASE Terminate(s)
    BY <1>1, <2>2, KeepLock DEF Terminate, InSession
  <2> QED
    BY <1>4, <2>1, <2>2 DEF Cpe
<1>5. CASE CpeRequest(s)
  BY <1>1, <1>5, RespondLock DEF CpeRequest, InSession
<1>6. CASE Crash(s)
  BY <1>1, <1>6, KeepLock DEF Crash, InSession
<1>7. CASE Stall(s)
  BY <1>7, SessionAssumption DEF Stall, SessionTypeOK, LockHeld
<1>8. CASE ExpireLock(s)
  BY <1>1, <1>8 DEF ExpireLock, Go, bounds, LockHeld, InSession
<1> QED
  BY <1>2, <1>3, <1>4, <1>5, <1>6, <1>7, <1>8, HandlerLock, TransferLock, <1>1
     DEF SessionNext

(***************************************************************************)
(* Only the end of a session, the expiry of a lost session's lock and a    *)
(* stall remove a lock; every other step leaves it or takes it for a       *)
(* session that may have it.                                               *)
(***************************************************************************)
Steady(s) ==
  /\ lock' = lock \/ (LockIsFree(s) /\ lock' = s)
  /\ stalls' = stalls

\* The steps that renew the lock at most.
LEMMA SteadyStep ==
  ASSUME NEW s \in Session, SessionNext(s),
         ~ Release(s), ~ ExpireLock(s), ~ Stall(s)
  PROVE  Steady(s)
<1>1. ASSUME NEW from, NEW to, NEW c, Local(s, from, to, c) \/ Respond(s, from, to, c)
      PROVE  Steady(s)
  BY <1>1 DEF Local, Respond, WriteResponse, Steady, bounds
<1>2. CASE Probe(s)
  BY <1>1, <1>2 DEF Probe, ProbeFault, ProbeSend
<1>3. CASE ApplyPresets(s)
  <2>1. PICK white, c : \/ PresetLoop(s, c) \/ PresetFault(s, c) \/ PresetSend(s, c)
                        \/ PresetDone(s, white, c)
    BY <1>3 DEF ApplyPresets, ApplyBatch
  <2> QED
    BY <1>1, <2>1 DEF PresetLoop, PresetFault, PresetSend, PresetDone, Steady, bounds
<1>4. CASE Handler(s) /\ ~ Probe(s) /\ ~ ApplyPresets(s)
  BY <1>1, <1>4 DEF Handler, ReadTasks, ReadFaults, ReadOperations, Lock, Refuse,
     TimeoutOperation, StartRpcs, NextFault, NextSend, NextTask, SaveDevice, ClearTasks,
     SaveFault, SaveOperation, LockExpired, Steady, bounds
<1>5. CASE Cpe(s) \/ CpeRequest(s) \/ \E op \in ctx[s].ops : TransferComplete(s, op)
  BY <1>1, <1>5 DEF Cpe, CpeRequest, EmptyRequest, CpeResponse, BeginDownload, CpeFault,
     Terminate, TransferComplete, WriteResponse, Steady, bounds
<1>6. CASE Unauthorized(s) \/ Crash(s) \/ \E known \in SUBSET Probing : Inform(s, known)
  BY <1>1, <1>6 DEF Unauthorized, Crash, Inform, Steady, bounds
<1> QED
  BY <1>2, <1>3, <1>4, <1>5, <1>6 DEF SessionNext

\* A session puts nothing into the lock but its own token.
LEMMA LockMoves ==
  ASSUME NEW s \in Session, SessionNext(s)
  PROVE  lock' \in {lock, s, Free}
<1>1. CASE Release(s) \/ ExpireLock(s) \/ Stall(s)
  BY <1>1 DEF Release, ExpireLock, Stall
<1>2. CASE Steady(s)
  BY <1>2 DEF Steady
<1> QED
  BY <1>1, <1>2, SteadyStep

(***************************************************************************)
(* What no step of a session does: it never puts a task on the queue, and  *)
(* it forgets no crash, drop or stall.                                     *)
(***************************************************************************)
Frame ==
  /\ tasks' \subseteq tasks
  /\ crashes' \in {crashes, crashes + 1}
  /\ drops' \in {drops, drops + 1}
  /\ stalls' \in {stalls, stalls + 1}

\* Every step of a session stays within this frame.
LEMMA SessionFrame ==
  ASSUME NEW s \in Session, SessionNext(s)
  PROVE  Frame
<1>1. ASSUME NEW from, NEW to, NEW c, Local(s, from, to, c) \/ Respond(s, from, to, c)
      PROVE  Frame
  BY <1>1 DEF Local, Respond, WriteResponse, Frame, store, bounds
<1>2. CASE Probe(s)
  BY <1>1, <1>2 DEF Probe, ProbeFault, ProbeSend
<1>3. CASE ApplyPresets(s)
  <2>1. PICK white, c : \/ PresetLoop(s, c) \/ PresetFault(s, c) \/ PresetSend(s, c)
                        \/ PresetDone(s, white, c)
    BY <1>3 DEF ApplyPresets, ApplyBatch
  <2>2. CASE PresetLoop(s, c)
    BY <1>1, <2>2 DEF PresetLoop, Close, Frame, store
  <2>3. CASE PresetDone(s, white, c)
    BY <2>3 DEF PresetDone, Close, Frame, store
  <2> QED
    BY <1>1, <2>1, <2>2, <2>3 DEF PresetFault, PresetSend
<1>4. CASE Handler(s) /\ ~ Probe(s) /\ ~ ApplyPresets(s)
  BY <1>1, <1>4 DEF Handler, ReadTasks, ReadFaults, ReadOperations, Lock, Refuse,
     TimeoutOperation, StartRpcs, NextFault, NextSend, NextTask, SaveDevice, ClearTasks,
     SaveFault, SaveOperation, Release, LockExpired, Frame, store, bounds
<1>5. CASE Cpe(s) \/ CpeRequest(s) \/ \E op \in ctx[s].ops : TransferComplete(s, op)
  BY <1>1, <1>5 DEF Cpe, CpeRequest, EmptyRequest, CpeResponse, BeginDownload, CpeFault,
     Terminate, TransferComplete, Frame, store, bounds
<1>6. CASE \/ Unauthorized(s) \/ Crash(s) \/ Stall(s) \/ ExpireLock(s)
           \/ \E known \in SUBSET Probing : Inform(s, known)
  BY <1>1, <1>6 DEF Unauthorized, Crash, Stall, ExpireLock, Inform, Frame, store, bounds
<1> QED
  BY <1>2, <1>3, <1>4, <1>5, <1>6 DEF SessionNext

\* The lock is free at first.
LEMMA LockInvInit == Init => LockInv
BY DEF Init, LockInv, LockHeld, InSession

\* Every step keeps LockInv.
LEMMA LockInvNext == SessionTypeOK /\ LockInv /\ [Next]_vars => LockInv'
<1> SUFFICES ASSUME SessionTypeOK, LockInv, [Next]_vars PROVE LockInv'
  OBVIOUS
<1>1. ASSUME NEW t \in Task, InsertTask(t) \/ PassExpiry(t)
      PROVE  LockInv'
  BY <1>1 DEF InsertTask, PassExpiry, bounds, LockInv, LockHeld
<1>2. CASE UNCHANGED vars
  BY <1>2 DEF vars, LockInv, LockHeld
<1>3. ASSUME NEW s \in Session, SessionNext(s)
      PROVE  LockInv'
  BY <1>3, SessionLock, LockMoves DEF LockInv
<1> QED
  BY <1>1, <1>2, <1>3 DEF Next

\* Type correctness.
THEOREM Typing == Spec => []TypeOK
<1>1. SessionTypeOK /\ LockInv => TypeOK
  BY DEF TypeOK, LockInv
<1> QED
  BY <1>1, SessionTyping, LockInvInit, LockInvNext, PTL DEF Spec

\* A session works on the device only under its own lock, so that two never
\* do at once, unless one is stalled past the expiry of its lock.
THEOREM Exclusion == Spec => []LockHeld
<1>1. LockInv => LockHeld
  BY DEF LockInv
<1> QED
  BY <1>1, SessionTyping, LockInvInit, LockInvNext, PTL DEF Spec

\* A session loses its lock by its own steps or by its expiry.
THEOREM LockStays == Spec => LockKept
<1> DEFINE Kept == \A s \in Session :
                     lock = s /\ lock' # s => pc[s] # pc'[s] \/ stalls' > stalls
<1>1. SessionTypeOK /\ [Next]_vars => [Kept]_vars
  <2> SUFFICES ASSUME SessionTypeOK, Next PROVE Kept
    OBVIOUS
  <2>1. CASE \E t \in Task : InsertTask(t) \/ PassExpiry(t)
    BY <2>1 DEF InsertTask, PassExpiry
  <2>2. ASSUME NEW s \in Session, SessionNext(s)
        PROVE  Kept
    <3>1. CASE Release(s) \/ ExpireLock(s)
      BY <3>1 DEF Release, ExpireLock, Go, SessionTypeOK
    <3>2. CASE Stall(s)
      BY <3>2 DEF Stall, SessionTypeOK
    <3>3. CASE Steady(s)
      BY <3>3, SessionAssumption DEF Steady, LockIsFree
    <3> QED
      BY <2>2, <3>1, <3>2, <3>3, SteadyStep
  <2> QED
    BY <2>1, <2>2 DEF Next
<1> QED
  BY <1>1, SessionTyping, PTL DEF Spec, LockKept
=============================================================================
