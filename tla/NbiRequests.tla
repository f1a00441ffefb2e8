---------------------------- MODULE NbiRequests ----------------------------
(***************************************************************************)
(* The requests of the NBI and of the UI on the tasks and faults of one    *)
(* device (nbi.ts, ui/api.ts, api-functions.ts), next to its CWMP sessions.*)
(*                                                                         *)
(* Each member of Client is one request.  Its kinds are                    *)
(*   queue    POST tasks without connection_request                        *)
(*   execute  POST tasks with connection_request                           *)
(*   ui       POST a list of tasks, as the UI does                         *)
(*   delete   DELETE a task        retry    retry a task                   *)
(*   forget   DELETE a fault                                               *)
(* All but queue take the device's lock to write; execute and ui release   *)
(* it, ask the CPE to connect and wait for a session to begin and to end.  *)
(***************************************************************************)
EXTENDS CwmpSession

CONSTANTS
  Client,  \* requests
  Kinds,   \* the kinds of request that are made
  Keyed    \* tasks posted with one and the same uniqueKey

Posts == {"queue", "execute", "ui"}
Kind == Posts \cup {"delete", "retry", "forget"}

ASSUME ClientAssumption ==
  /\ Kinds \subseteq Kind
  /\ Client \cap (Session \cup {Free}) = {}
  /\ Keyed \subseteq Task
  /\ IsFiniteSet(Keyed)

VARIABLES
  req,   \* the state of each request
  newer  \* requests since whose read of _lastInform a session has saved it

nbiVars == <<vars, req, newer>>

At == {"idle", "lock", "hold", "insert", "call", "start", "token", "end",
       "count", "clean", "done", "lost"}
Answer == {"none", "ok", "queued", "faulted", "busy", "error"}

(***************************************************************************)
(* kind    as above                                                        *)
(* targets the tasks, or the channel of the fault; a list for ui only      *)
(* at      where the request is                                            *)
(* todo    what it has still to write                                      *)
(* rest    its tasks still to be visited, by the loop of insertTasks (only *)
(*         the keyed ones count) or by the clean-up of the UI              *)
(* answer  200, 202, 202 "Task faulted", 503, 500                          *)
(* okay    the tasks reported as done: by 200, or one by one by the UI     *)
(* raced   history: a session was past its reads, and not yet locked, when *)
(*         the tasks were inserted                                         *)
(* bare    history: the tasks were inserted without the lock               *)
(***************************************************************************)
Request ==
  [kind : Kind, targets : SUBSET Channel, at : At,
   todo : SUBSET {"insert", "task", "fault"}, rest : SUBSET Channel,
   answer : Answer, okay : SUBSET Channel, raced : BOOLEAN, bare : BOOLEAN]

NbiTypeOK ==
  /\ SessionTypeOK
  /\ lock \in Session \cup Client \cup {Free}
  /\ req \in [Client -> Request]
  /\ newer \subseteq Client

NbiInit ==
  /\ Init
  /\ req \in [Client -> [kind : Kinds, targets : SUBSET Channel \ {{}}, at : {"idle"},
                         todo : {{}}, rest : {{}}, answer : {"none"}, okay : {{}},
                         raced : {FALSE}, bare : {FALSE}]]
  /\ \A cl \in Client :
       /\ req[cl].kind # "forget" => req[cl].targets \subseteq Task
       /\ req[cl].kind # "ui" => \E ch \in Channel : req[cl].targets = {ch}
  /\ \A a, b \in Client :
       a # b /\ req[a].kind \in Posts /\ req[b].kind \in Posts
         => req[a].targets \cap req[b].targets = {}
  /\ newer = {}

Move(cl, from, to) ==
  /\ req[cl].at = from
  /\ req' = [req EXCEPT ![cl].at = to]

Reply(cl, from, answer) ==
  /\ req[cl].at = from
  /\ req' = [req EXCEPT ![cl].at = "done", ![cl].answer = answer]

\* The sessions and the clock do not move.
Still == UNCHANGED <<pc, ctx, past, expired, bad, bounds>>

(***************************************************************************)
(* The request arrives, and takes the lock.                                *)
(***************************************************************************)
\* Mutants of Writes: a retry removes the task as a delete does.
RetryWrites(r) ==
  CASE r.kind \in Posts -> {"insert"}
    [] r.kind \in {"delete", "retry"} -> {"task", "fault"}
    [] r.kind = "forget" -> {"fault"} \cup (IF r.targets \subseteq Task THEN {"task"} ELSE {})

\* What a request has to write.
Writes(r) ==
  CASE r.kind \in Posts -> {"insert"}
    [] r.kind = "delete" -> {"task", "fault"}
    [] r.kind = "retry"  -> {"fault"}
    [] r.kind = "forget" -> {"fault"} \cup (IF r.targets \subseteq Task THEN {"task"} ELSE {})

\* A task that is deleted or retried is looked up first.
Arrive(cl) ==
  LET r == req[cl] IN
  /\ r.at = "idle"
  /\ r.kind \in {"delete", "retry"} => r.targets \subseteq tasks
  /\ req' = [req EXCEPT ![cl].at = IF r.kind = "queue" THEN "insert" ELSE "lock",
                        ![cl].todo = Writes(r),
                        ![cl].rest = IF r.kind \in Posts THEN r.targets \cap Keyed ELSE {}]
  /\ UNCHANGED <<vars, newer>>

\* Mutants of Acquire: a lock that is held is taken over, or the document
\* carries a constant and not the request's token.
AcquireHeld(cl) ==
  /\ lock' = cl
  /\ Move(cl, "lock", "hold")
  /\ UNCHANGED <<store, created, newer>> /\ Still

AcquireUnnamed(cl) ==
  /\ lock = Free
  /\ lock' = "cwmp_session"
  /\ Move(cl, "lock", "hold")
  /\ UNCHANGED <<store, created, newer>> /\ Still

\* acquireLock with a token of the request's own.
Acquire(cl) ==
  /\ lock = Free
  /\ lock' = cl
  /\ Move(cl, "lock", "hold")
  /\ UNCHANGED <<store, created, newer>> /\ Still

\* The lock is not free: at once, or after 30 s for a POST.  The NBI queues
\* the task anyway.
GiveUp(cl) ==
  /\ lock # Free
  /\ \/ req[cl].kind = "execute" /\ Move(cl, "lock", "insert")
     \/ req[cl].kind # "execute" /\ Reply(cl, "lock", "busy")
  /\ UNCHANGED <<vars, newer>>

(***************************************************************************)
(* The writes, with the lock ("hold") or without it ("insert").            *)
(***************************************************************************)
Wrote(cl, what) ==
  /\ what \in req[cl].todo
  /\ req[cl].at \in {"hold", "insert"}

\* insertTasks removes, for each task with a uniqueKey, one task of that key,
\* and leaves its fault.
Supersede(cl, t) ==
  /\ Wrote(cl, "insert")
  /\ t \in req[cl].rest
  /\ req' = [req EXCEPT ![cl].rest = @ \ {t}]
  /\ \/ Keyed \cap tasks = {} /\ UNCHANGED tasks
     \/ \E u \in Keyed \cap tasks : tasks' = tasks \ {u}
  /\ UNCHANGED <<faults, timed, operations, lock, created, newer>> /\ Still

\* A mutant of Insert: the tasks of the same key are not waited for.
InsertEarly(cl) ==
  LET r == req[cl] IN
  /\ Wrote(cl, "insert")
  /\ tasks' = tasks \cup r.targets
  /\ created' = created \cup r.targets
  /\ newer' = newer \ {cl}
  /\ LET i == [r EXCEPT !.todo = {}, !.rest = {}, !.bare = r.at = "insert",
                        !.raced = \E s \in Session : pc[s] = "reading"]
     IN  req' = [req EXCEPT ![cl] =
                   IF r.at = "hold" THEN i ELSE [i EXCEPT !.at = "done", !.answer = "queued"]]
  /\ UNCHANGED <<faults, timed, operations, lock>> /\ Still

\* Then insertTasks inserts them all.  The device, read just before, gives
\* _lastInform.
Insert(cl) ==
  LET r == req[cl] IN
  /\ Wrote(cl, "insert")
  /\ r.rest = {}
  /\ tasks' = tasks \cup r.targets
  /\ created' = created \cup r.targets
  /\ newer' = newer \ {cl}
  /\ LET i == [r EXCEPT !.todo = {}, !.bare = r.at = "insert",
                        !.raced = \E s \in Session : pc[s] = "reading"]
     IN  req' = [req EXCEPT ![cl] =
                   IF r.at = "hold" THEN i ELSE [i EXCEPT !.at = "done", !.answer = "queued"]]
  /\ UNCHANGED <<faults, timed, operations, lock>> /\ Still

\* sanitizeTask refuses a task of the list; what was removed for those before it
\* stays removed, and the request answers 500 once it has released the lock.
InvalidTasks(cl) ==
  LET r == [req[cl] EXCEPT !.todo = {}, !.rest = {}, !.answer = "error"] IN
  /\ Wrote(cl, "insert")
  /\ req' = [req EXCEPT ![cl] = IF r.at = "hold" THEN r ELSE [r EXCEPT !.at = "done"]]
  /\ UNCHANGED <<vars, newer>>

DeleteTask(cl) ==
  /\ Wrote(cl, "task")
  /\ req' = [req EXCEPT ![cl].todo = @ \ {"task"}]
  /\ tasks' = tasks \ req[cl].targets
  /\ UNCHANGED <<faults, timed, operations, lock, created, newer>> /\ Still

DeleteFault(cl) ==
  /\ Wrote(cl, "fault")
  /\ req' = [req EXCEPT ![cl].todo = @ \ {"fault"}]
  /\ faults' = faults \ req[cl].targets
  /\ timed' = timed \ req[cl].targets
  /\ UNCHANGED <<tasks, operations, lock, created, newer>> /\ Still

\* What follows the release of the lock.
Unlocked(cl) ==
  \/ req[cl].answer = "error" /\ Reply(cl, "hold", "error")
  \/ req[cl].answer = "none" /\ req[cl].kind \in Posts /\ Move(cl, "hold", "call")
  \/ req[cl].answer = "none" /\ req[cl].kind \notin Posts /\ Reply(cl, "hold", "ok")

\* A mutant of Unlock: the lock is released whatever token it carries.
UnlockAny(cl) ==
  /\ req[cl].todo = {}
  /\ lock' = Free
  /\ Unlocked(cl)
  /\ UNCHANGED <<store, created, newer>> /\ Still

\* releaseLock; "Lock expired" if the lock is not the request's any more.
Unlock(cl) ==
  /\ req[cl].todo = {}
  /\ \/ lock = cl /\ lock' = Free /\ Unlocked(cl)
     \/ lock # cl /\ UNCHANGED lock /\ Reply(cl, "hold", "error")
  /\ UNCHANGED <<store, created, newer>> /\ Still

(***************************************************************************)
(* Waiting for the session (execute and ui).                               *)
(***************************************************************************)
\* The UI goes on to delete its tasks.
ToCleanUp(cl, from, okay) ==
  /\ req[cl].kind = "ui"
  /\ req[cl].at = from
  /\ req' = [req EXCEPT ![cl].at = "clean", ![cl].rest = req[cl].targets, ![cl].okay = okay]

\* The request gives up waiting: 202, or the clean-up of the UI.
Abandon(cl, from) ==
  \/ req[cl].kind = "execute" /\ Reply(cl, from, "queued")
  \/ ToCleanUp(cl, from, {})

\* connectionRequest
Call(cl) ==
  /\ Move(cl, "call", "start") \/ Abandon(cl, "call")
  /\ UNCHANGED <<vars, newer>>

\* awaitSessionStart: has _lastInform changed?  If not, is there a session?
AwaitInform(cl) ==
  /\ Move(cl, "start", IF cl \in newer THEN "end" ELSE "token")
  /\ UNCHANGED <<vars, newer>>

AwaitStart(cl) ==
  /\ IF lock \in Session THEN Move(cl, "token", "end")
                         ELSE Move(cl, "token", "start") \/ Abandon(cl, "token")
  /\ UNCHANGED <<vars, newer>>

\* A mutant of AwaitEnd: the session is not waited for.
AwaitNothing(cl) ==
  /\ Move(cl, "end", "count")
  /\ UNCHANGED <<vars, newer>>

\* awaitSessionEnd
AwaitEnd(cl) ==
  /\ IF lock \notin Session THEN Move(cl, "end", "count") ELSE Abandon(cl, "end")
  /\ UNCHANGED <<vars, newer>>

\* A task has faulted, or counts as done.
CountFaults(cl) ==
  LET okay == req[cl].targets \ faults IN
  /\ \/ /\ req[cl].kind = "execute"
        /\ req[cl].at = "count"
        /\ req' = [req EXCEPT ![cl].at = "done", ![cl].okay = okay,
                              ![cl].answer = IF okay = {} THEN "faulted" ELSE "ok"]
     \/ ToCleanUp(cl, "count", okay)
  /\ UNCHANGED <<vars, newer>>

\* The UI deletes its tasks in any case, without the lock.
CleanUp(cl, t) ==
  /\ req[cl].at = "clean"
  /\ t \in req[cl].rest
  /\ req' = [req EXCEPT ![cl].rest = @ \ {t},
                        ![cl].at = IF req[cl].rest = {t} THEN "done" ELSE "clean"]
  /\ tasks' = tasks \ {t}
  /\ UNCHANGED <<faults, timed, operations, lock, created, newer>> /\ Still

(***************************************************************************)
(* Failures, and the lock of a request that is gone or stalled.            *)
(***************************************************************************)
CrashRequest(cl) ==
  /\ req[cl].at \notin {"idle", "done", "lost"}
  /\ crashes < MaxCrashes
  /\ crashes' = crashes + 1
  /\ Move(cl, req[cl].at, "lost")
  /\ UNCHANGED <<store, lock, pc, ctx, past, world, drops, stalls, newer>>

ExpireRequestLock(cl) ==
  /\ lock = cl
  /\ \/ /\ req[cl].at = "lost"
        /\ UNCHANGED stalls
     \/ /\ req[cl].at = "hold"
        /\ stalls < MaxStalls
        /\ stalls' = stalls + 1
  /\ lock' = Free
  /\ UNCHANGED <<store, pc, ctx, past, world, crashes, drops, req, newer>>

(***************************************************************************)
(* Specification.                                                          *)
(***************************************************************************)
\* saveDevice writes _lastInform.
DeviceSaved(s) ==
  /\ "device" \in ctx[s].toWrite
  /\ pc'[s] = "saving"
  /\ "device" \notin ctx'[s].toWrite

Watching == {cl \in Client : req[cl].at \in {"hold", "call", "start", "token"}}

DeviceNext ==
  /\ \/ \E t \in Task : PassExpiry(t)
     \/ \E s \in Session : SessionNext(s)
  /\ newer' = IF \E s \in Session : DeviceSaved(s) THEN newer \cup Watching ELSE newer
  /\ UNCHANGED req

RequestNext(cl) ==
  \/ Arrive(cl) \/ Acquire(cl) \/ GiveUp(cl)
  \/ (\E t \in Keyed : Supersede(cl, t)) \/ Insert(cl) \/ InvalidTasks(cl)
  \/ DeleteTask(cl) \/ DeleteFault(cl) \/ Unlock(cl)
  \/ Call(cl) \/ AwaitInform(cl) \/ AwaitStart(cl) \/ AwaitEnd(cl)
  \/ CountFaults(cl) \/ (\E t \in Task : CleanUp(cl, t))
  \/ CrashRequest(cl) \/ ExpireRequestLock(cl)

NbiNext == DeviceNext \/ \E cl \in Client : RequestNext(cl)

NbiSpec == NbiInit /\ [][NbiNext]_nbiVars

(***************************************************************************)
(* Properties.                                                             *)
(***************************************************************************)
\* A request writes only while the lock has its token, a session works only
\* while the lock has its own: nothing of a request falls into a session,
\* unless one of them is stalled past the expiry of its lock (lock.ts).
RequestsExclusive ==
  stalls = 0 => /\ \A cl \in Client : req[cl].at = "hold" => lock = cl
                /\ \A s \in Session : pc[s] \in InSession => lock = s

\* Requests that take a task off the queue, and have begun to.
RemovedByRequest(t) ==
  \E cl \in Client :
    /\ req[cl].at \notin {"idle", "lock"}
    /\ \/ req[cl].kind \in {"delete", "forget", "ui"} /\ t \in req[cl].targets
       \/ req[cl].kind \in Posts /\ t \in Keyed /\ req[cl].targets \cap Keyed # {}

\* A task leaves the collection only if it was carried through, expired or
\* has no meaning, or because a request removes it (endSession, nbi.ts).
NoPostedTaskLost ==
  \A t \in created \ tasks :
    t \in ran \cup expired \cup InvalidTask \/ RemovedByRequest(t)

\* A lock goes by a step of its holder or by its expiry: no request and no
\* session releases one that is not its own any more (releaseLock).
LocksKept ==
  [][/\ \A cl \in Client :
          lock = cl /\ lock' # cl
            => req[cl].at = "lost" \/ req[cl].at # req'[cl].at \/ stalls' > stalls
     /\ \A s \in Session :
          lock = s /\ lock' # s => pc[s] # pc'[s] \/ stalls' > stalls]_nbiVars

\* The tasks of the key that a request has, or has posted.
KeyedOf(cl) == req[cl].targets \cap Keyed

\* No more tasks of one uniqueKey are queued than a single request has posted of
\* them at once; in particular no two if no list repeats the key.  It takes a
\* post without the lock, or under a lock that expired, to queue more: its
\* removals and its insert then fall between those of another (insertTasks).
UniqueKey ==
  \/ Keyed \cap tasks = {}
  \/ \E cl \in Client :
       /\ req[cl].at \notin {"idle", "lock"}
       /\ Cardinality(Keyed \cap tasks) <= Cardinality(KeyedOf(cl))
  \/ stalls > 0
  \/ \E cl \in Client : KeyedOf(cl) # {} /\ req[cl].bare

\* Requests that remove the task or the fault another one waits for, and have
\* begun to.
Disturbed(cl, t) ==
  \E other \in Client \ {cl} :
    /\ req[other].at \notin {"idle", "lock"}
    /\ \/ req[other].kind \in {"delete", "retry", "forget"} /\ t \in req[other].targets
       \/ t \in Keyed /\ KeyedOf(other) # {}

\* A task that a POST reports as done, by 200 or in the UI's list, was executed
\* (or had expired, or has no meaning), if no session had read the queue just before it was
\* written, no other request had touched it, there are no presets, whose loop
\* may cut a session short, and no session was cut short otherwise
\* (awaitSessionStart, awaitSessionEnd and the count of faults in nbi.ts and
\* ui/api.ts).
OkMeansExecuted ==
  \A cl \in Client : \A t \in req[cl].okay :
    (/\ ~req[cl].raced /\ ~Disturbed(cl, t)
     /\ crashes = 0 /\ drops = 0 /\ stalls = 0 /\ PresetChannel = {})
      => t \in ran \cup expired \cup InvalidTask

\* docs/api-reference.rst: "Delete the given task."  Once the request is
\* answered no session executes the task.
DeletedTaskNotExecuted ==
  [][\A cl \in Client : \A t \in req[cl].targets :
       req[cl].kind = "delete" /\ req[cl].answer = "ok" /\ t \notin ran
         => t \notin ran']_nbiVars
=============================================================================
