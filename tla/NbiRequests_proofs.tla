------------------------- MODULE NbiRequests_proofs -------------------------
(***************************************************************************)
(* Theorems of NbiRequests: type correctness, the exclusion of requests    *)
(* and sessions by the device's lock, that nobody releases another's lock, *)
(* that no posted task is lost, and that the tasks of one uniqueKey        *)
(* replace each other, for any number of requests, sessions and tasks, any *)
(* lists of tasks and any number of crashes, drops and stalls.             *)
(*                                                                         *)
(* A session is not told that there are requests: the lemmas about its     *)
(* steps in CwmpSession_proofs assume nothing of the other writers of the  *)
(* collections and of the lock, and are used here as they are.             *)
(***************************************************************************)
EXTENDS NbiRequests, CwmpSession_proofs, FiniteSetTheorems

(***************************************************************************)
(* What a request is, and what it has still to write: a request of a kind  *)
(* that does not remove tasks never comes to do so, and what it visits are *)
(* tasks of its own list.                                                  *)
(***************************************************************************)
RequestSound(r) ==
  /\ r \in Request
  /\ r.kind # "forget" => r.targets \subseteq Task
  /\ r.todo \subseteq Writes(r)
  /\ r.at = "clean" => r.kind = "ui" /\ r.rest \subseteq r.targets
  /\ r.at \in {"idle", "lock", "hold", "insert"} => r.rest \subseteq r.targets \cap Keyed

\* The request has begun to take t off the queue.
Removes(r, t) ==
  /\ r.at \notin {"idle", "lock"}
  /\ \/ r.kind \in {"delete", "forget", "ui"} /\ t \in r.targets
     \/ r.kind \in Posts /\ t \in Keyed /\ r.targets \cap Keyed # {}

RequestsSound == \A cl \in Client : RequestSound(req[cl])

NbiInv == SessionInv /\ NbiTypeOK /\ RequestsSound /\ NoPostedTaskLost

(***************************************************************************)
(* What a step leaves of the request that takes it.                        *)
(***************************************************************************)
SameRequest(cl) ==
  /\ req' = [req EXCEPT ![cl] = req'[cl]]
  /\ req'[cl] \in Request
  /\ req'[cl].kind = req[cl].kind /\ req'[cl].targets = req[cl].targets

Becomes(cl, at, todo, rest, answer, okay) ==
  /\ SameRequest(cl)
  /\ req'[cl].at = at /\ req'[cl].todo = todo /\ req'[cl].rest = rest
  /\ req'[cl].answer = answer /\ req'[cl].okay = okay
  /\ req'[cl].raced = req[cl].raced /\ req'[cl].bare = req[cl].bare

\* The requests are requests.
LEMMA Requests ==
  ASSUME NbiInv
  PROVE  req \in [Client -> Request] /\ \A cl \in Client : RequestSound(req[cl])
BY DEF NbiInv, NbiTypeOK, RequestsSound

\* A request whose record is replaced by another one.
LEMMA Replaced ==
  ASSUME req \in [Client -> Request], NEW cl \in Client, NEW r \in Request,
         req' = [req EXCEPT ![cl] = r]
  PROVE  req'[cl] = r /\ req' = [req EXCEPT ![cl] = req'[cl]]
OBVIOUS

\* A request that goes to another place.
LEMMA MoveFields ==
  ASSUME NbiInv, NEW cl \in Client, NEW from, NEW to \in At, Move(cl, from, to)
  PROVE  /\ req[cl].at = from
         /\ Becomes(cl, to, req[cl].todo, req[cl].rest, req[cl].answer, req[cl].okay)
<1> DEFINE r == [req[cl] EXCEPT !.at = to]
<1>1. req \in [Client -> Request] /\ req[cl] \in Request
  BY Requests
<1>2. req[cl].at = from /\ req' = [req EXCEPT ![cl] = r] /\ r \in Request
  BY <1>1 DEF Move, Request
<1>3. req'[cl] = r /\ req' = [req EXCEPT ![cl] = req'[cl]]
  <2> HIDE DEF r
  <2> QED
    BY <1>1, <1>2, Replaced
<1> QED
  BY <1>1, <1>2, <1>3 DEF Request, SameRequest, Becomes

\* A request that is answered.
LEMMA ReplyFields ==
  ASSUME NbiInv, NEW cl \in Client, NEW from, NEW a \in Answer, Reply(cl, from, a)
  PROVE  /\ req[cl].at = from
         /\ Becomes(cl, "done", req[cl].todo, req[cl].rest, a, req[cl].okay)
<1> DEFINE r == [[req[cl] EXCEPT !.at = "done"] EXCEPT !.answer = a]
<1>1. req \in [Client -> Request] /\ req[cl] \in Request
  BY Requests
<1>2. req[cl].at = from /\ req' = [req EXCEPT ![cl] = r] /\ r \in Request
  BY <1>1 DEF Reply, Request, At
<1>3. req'[cl] = r /\ req' = [req EXCEPT ![cl] = req'[cl]]
  <2> HIDE DEF r
  <2> QED
    BY <1>1, <1>2, Replaced
<1> QED
  BY <1>1, <1>2, <1>3 DEF Request, SameRequest, Becomes

\* A request that has done one of its writes.
LEMMA WroteFields ==
  ASSUME NbiInv, NEW cl \in Client, NEW what,
         req' = [req EXCEPT ![cl].todo = @ \ {what}]
  PROVE  Becomes(cl, req[cl].at, req[cl].todo \ {what}, req[cl].rest, req[cl].answer,
                 req[cl].okay)
<1> DEFINE r == [req[cl] EXCEPT !.todo = @ \ {what}]
<1>1. req \in [Client -> Request] /\ req[cl] \in Request
  BY Requests
<1>2. req' = [req EXCEPT ![cl] = r] /\ r \in Request
  BY <1>1 DEF Request
<1>3. req'[cl] = r /\ req' = [req EXCEPT ![cl] = req'[cl]]
  <2> HIDE DEF r
  <2> QED
    BY <1>1, <1>2, Replaced
<1> QED
  BY <1>1, <1>2, <1>3 DEF Request, SameRequest, Becomes

\* A request that arrives.
LEMMA ArriveFields ==
  ASSUME NbiInv, NEW cl \in Client, Arrive(cl)
  PROVE  /\ req[cl].at = "idle"
         /\ Becomes(cl, IF req[cl].kind = "queue" THEN "insert" ELSE "lock",
                    Writes(req[cl]),
                    IF req[cl].kind \in Posts THEN KeyedOf(cl) ELSE {},
                    req[cl].answer, req[cl].okay)
<1> DEFINE to == IF req[cl].kind = "queue" THEN "insert" ELSE "lock"
           w == Writes(req[cl])
           n == IF req[cl].kind \in Posts THEN req[cl].targets \cap Keyed ELSE {}
           r == [[[req[cl] EXCEPT !.at = to] EXCEPT !.todo = w] EXCEPT !.rest = n]
<1>1. req \in [Client -> Request] /\ req[cl] \in Request
  BY Requests
<1>2. w \in SUBSET {"insert", "task", "fault"}
  BY <1>1 DEF Request, Writes, Kind, Posts
<1>3. n \in SUBSET Channel /\ to \in At
  BY <1>1 DEF Request, At
<1>4. req[cl].at = "idle" /\ req' = [req EXCEPT ![cl] = r]
  BY <1>1 DEF Arrive
<1> HIDE DEF w, n, to
<1>5. r \in Request
  BY <1>1, <1>2, <1>3 DEF Request
<1>6. req'[cl] = r /\ req' = [req EXCEPT ![cl] = req'[cl]]
  <2> HIDE DEF r
  <2> QED
    BY <1>1, <1>4, <1>5, Replaced
<1>7. Becomes(cl, to, w, n, req[cl].answer, req[cl].okay)
  BY <1>1, <1>5, <1>6 DEF Request, SameRequest, Becomes
<1> QED
  BY <1>4, <1>7 DEF w, n, to, KeyedOf

\* A request that has removed a task of the same key as one of its own.
LEMMA SupersedeFields ==
  ASSUME NbiInv, NEW cl \in Client, NEW t, Supersede(cl, t)
  PROVE  /\ "insert" \in req[cl].todo /\ req[cl].at \in {"hold", "insert"} /\ t \in req[cl].rest
         /\ Becomes(cl, req[cl].at, req[cl].todo, req[cl].rest \ {t}, req[cl].answer,
                    req[cl].okay)
<1> DEFINE r == [req[cl] EXCEPT !.rest = @ \ {t}]
<1>1. req \in [Client -> Request] /\ req[cl] \in Request
  BY Requests
<1>2. req' = [req EXCEPT ![cl] = r] /\ r \in Request
  BY <1>1 DEF Supersede, Request
<1>3. req'[cl] = r /\ req' = [req EXCEPT ![cl] = req'[cl]]
  <2> HIDE DEF r
  <2> QED
    BY <1>1, <1>2, Replaced
<1> QED
  BY <1>1, <1>2, <1>3 DEF Supersede, Wrote, Request, SameRequest, Becomes

\* A request that inserts its tasks.
LEMMA InsertFields ==
  ASSUME NbiInv, NEW cl \in Client, Insert(cl)
  PROVE  /\ "insert" \in req[cl].todo /\ req[cl].at \in {"hold", "insert"} /\ req[cl].rest = {}
         /\ SameRequest(cl) /\ req'[cl].todo = {} /\ req'[cl].rest = {}
         /\ req'[cl].okay = req[cl].okay
         /\ req'[cl].raced <=> \E s \in Session : pc[s] = "reading"
         /\ req'[cl].bare <=> req[cl].at = "insert"
         /\ req[cl].at = "hold" => req'[cl].at = "hold" /\ req'[cl].answer = req[cl].answer
         /\ req[cl].at = "insert" => req'[cl].at = "done" /\ req'[cl].answer = "queued"
<1> DEFINE q == req[cl]
           now == \E s \in Session : pc[s] = "reading"
           b == q.at = "insert"
           i == [[[q EXCEPT !.todo = {}] EXCEPT !.bare = b] EXCEPT !.raced = now]
           d == [[i EXCEPT !.at = "done"] EXCEPT !.answer = "queued"]
           r == IF q.at = "hold" THEN i ELSE d
<1>1. req \in [Client -> Request] /\ q \in Request /\ now \in BOOLEAN /\ b \in BOOLEAN
  BY Requests
<1>2. "insert" \in q.todo /\ q.at \in {"hold", "insert"} /\ q.rest = {}
  BY DEF Insert, Wrote
<1>3. req' = [req EXCEPT ![cl] = r]
  BY <1>1 DEF Insert
<1> HIDE DEF now, b
<1>4. /\ i \in Request /\ i.kind = q.kind /\ i.targets = q.targets /\ i.at = q.at
      /\ i.todo = {} /\ i.rest = q.rest /\ i.answer = q.answer /\ i.okay = q.okay
      /\ i.raced = now /\ i.bare = b
  <2> HIDE DEF q
  <2> QED
    BY <1>1 DEF Request
<1> HIDE DEF i
<1>5. /\ d \in Request /\ d.kind = q.kind /\ d.targets = q.targets /\ d.at = "done"
      /\ d.todo = {} /\ d.rest = q.rest /\ d.answer = "queued" /\ d.okay = q.okay
      /\ d.raced = now /\ d.bare = b
  <2> HIDE DEF q
  <2> QED
    BY <1>4 DEF Request, At, Answer
<1> HIDE DEF d
<1>6. r \in Request
  BY <1>4, <1>5
<1>7. req'[cl] = r /\ req' = [req EXCEPT ![cl] = req'[cl]]
  <2> HIDE DEF r
  <2> QED
    BY <1>1, <1>3, <1>6, Replaced
<1>8. CASE q.at = "hold"
  BY <1>2, <1>4, <1>7, <1>8 DEF SameRequest, now, b
<1>9. CASE q.at = "insert"
  BY <1>2, <1>5, <1>7, <1>9 DEF SameRequest, now, b
<1> QED
  BY <1>2, <1>8, <1>9

\* A request that stops at a task it refuses.
LEMMA InvalidFields ==
  ASSUME NbiInv, NEW cl \in Client, InvalidTasks(cl)
  PROVE  /\ "insert" \in req[cl].todo /\ req[cl].at \in {"hold", "insert"}
         /\ Becomes(cl, IF req[cl].at = "hold" THEN "hold" ELSE "done", {}, {}, "error",
                    req[cl].okay)
<1> DEFINE q == req[cl]
           i == [[[q EXCEPT !.todo = {}] EXCEPT !.rest = {}] EXCEPT !.answer = "error"]
           d == [i EXCEPT !.at = "done"]
           r == IF i.at = "hold" THEN i ELSE d
<1>1. req \in [Client -> Request] /\ q \in Request
  BY Requests
<1>2. "insert" \in q.todo /\ q.at \in {"hold", "insert"}
  BY DEF InvalidTasks, Wrote
<1>3. req' = [req EXCEPT ![cl] = r]
  BY <1>1 DEF InvalidTasks
<1>4. /\ i \in Request /\ i.kind = q.kind /\ i.targets = q.targets /\ i.at = q.at
      /\ i.todo = {} /\ i.rest = {} /\ i.answer = "error" /\ i.okay = q.okay
      /\ i.raced = q.raced /\ i.bare = q.bare
  <2> HIDE DEF q
  <2> QED
    BY <1>1 DEF Request, Answer
<1> HIDE DEF i
<1>5. /\ d \in Request /\ d.kind = q.kind /\ d.targets = q.targets /\ d.at = "done"
      /\ d.todo = {} /\ d.rest = {} /\ d.answer = "error" /\ d.okay = q.okay
      /\ d.raced = q.raced /\ d.bare = q.bare
  <2> HIDE DEF q
  <2> QED
    BY <1>4 DEF Request, At
<1> HIDE DEF d
<1>6. r \in Request
  BY <1>4, <1>5
<1>7. req'[cl] = r /\ req' = [req EXCEPT ![cl] = req'[cl]]
  <2> HIDE DEF r
  <2> QED
    BY <1>1, <1>3, <1>6, Replaced
<1> QED
  BY <1>2, <1>4, <1>5, <1>7 DEF SameRequest, Becomes

\* The UI that goes on to its clean-up.
LEMMA ToCleanUpFields ==
  ASSUME NbiInv, NEW cl \in Client, NEW from, NEW okay \in SUBSET Channel,
         ToCleanUp(cl, from, okay)
  PROVE  /\ req[cl].at = from /\ req[cl].kind = "ui"
         /\ Becomes(cl, "clean", req[cl].todo, req[cl].targets, req[cl].answer, okay)
<1> DEFINE n == req[cl].targets
           r == [[[req[cl] EXCEPT !.at = "clean"] EXCEPT !.rest = n] EXCEPT !.okay = okay]
<1>1. req \in [Client -> Request] /\ req[cl] \in Request /\ n \in SUBSET Channel
  BY Requests DEF Request
<1>2. req[cl].at = from /\ req[cl].kind = "ui" /\ req' = [req EXCEPT ![cl] = r]
  BY <1>1 DEF ToCleanUp
<1> HIDE DEF n
<1>3. r \in Request
  BY <1>1 DEF Request, At
<1>4. req'[cl] = r /\ req' = [req EXCEPT ![cl] = req'[cl]]
  <2> HIDE DEF r
  <2> QED
    BY <1>1, <1>2, <1>3, Replaced
<1>5. Becomes(cl, "clean", req[cl].todo, n, req[cl].answer, okay)
  BY <1>1, <1>3, <1>4 DEF Request, SameRequest, Becomes
<1> QED
  BY <1>2, <1>5 DEF n

\* A request that gives up waiting.
LEMMA AbandonFields ==
  ASSUME NbiInv, NEW cl \in Client, NEW from, Abandon(cl, from)
  PROVE  /\ req[cl].at = from
         /\ \/ Becomes(cl, "done", req[cl].todo, req[cl].rest, "queued", req[cl].okay)
            \/ /\ req[cl].kind = "ui"
               /\ Becomes(cl, "clean", req[cl].todo, req[cl].targets, req[cl].answer, {})
BY ReplyFields, ToCleanUpFields DEF Abandon, Answer

\* A request that counts the faults.
LEMMA CountFields ==
  ASSUME NbiInv, NEW cl \in Client, CountFaults(cl)
  PROVE  /\ req[cl].at = "count"
         /\ \/ \E a \in {"ok", "faulted"} :
                 Becomes(cl, "done", req[cl].todo, req[cl].rest, a, req[cl].targets \ faults)
            \/ /\ req[cl].kind = "ui"
               /\ Becomes(cl, "clean", req[cl].todo, req[cl].targets, req[cl].answer,
                          req[cl].targets \ faults)
<1> DEFINE okay == req[cl].targets \ faults
           a == IF okay = {} THEN "faulted" ELSE "ok"
           r == [[[req[cl] EXCEPT !.at = "done"] EXCEPT !.okay = okay] EXCEPT !.answer = a]
<1>1. req \in [Client -> Request] /\ req[cl] \in Request /\ okay \in SUBSET Channel
  BY Requests DEF Request
<1>2. a \in {"ok", "faulted"}
  OBVIOUS
<1>3. \/ req[cl].at = "count" /\ req' = [req EXCEPT ![cl] = r]
      \/ ToCleanUp(cl, "count", okay)
  BY <1>1 DEF CountFaults
<1>4. CASE ToCleanUp(cl, "count", okay)
  BY <1>1, <1>4, ToCleanUpFields
<1>5. CASE req[cl].at = "count" /\ req' = [req EXCEPT ![cl] = r]
  <2> HIDE DEF a, okay
  <2>1. r \in Request
    BY <1>1, <1>2 DEF Request, At, Answer
  <2>2. req'[cl] = r /\ req' = [req EXCEPT ![cl] = req'[cl]]
    <3> HIDE DEF r
    <3> QED
      BY <1>1, <1>5, <2>1, Replaced
  <2>3. Becomes(cl, "done", req[cl].todo, req[cl].rest, a, okay)
    BY <1>1, <2>1, <2>2 DEF Request, SameRequest, Becomes
  <2> QED
    BY <1>2, <1>5, <2>3 DEF okay
<1> QED
  BY <1>3, <1>4, <1>5

\* The UI that deletes one of its tasks.
LEMMA CleanUpFields ==
  ASSUME NbiInv, NEW cl \in Client, NEW t, CleanUp(cl, t)
  PROVE  /\ req[cl].at = "clean" /\ t \in req[cl].rest
         /\ Becomes(cl, IF req[cl].rest = {t} THEN "done" ELSE "clean", req[cl].todo,
                    req[cl].rest \ {t}, req[cl].answer, req[cl].okay)
<1> DEFINE to == IF req[cl].rest = {t} THEN "done" ELSE "clean"
           n == req[cl].rest \ {t}
           r == [[req[cl] EXCEPT !.rest = n] EXCEPT !.at = to]
<1>1. req \in [Client -> Request] /\ req[cl] \in Request
  BY Requests
<1>2. n \in SUBSET Channel /\ to \in At
  BY <1>1 DEF Request, At
<1>3. req[cl].at = "clean" /\ t \in req[cl].rest /\ req' = [req EXCEPT ![cl] = r]
  BY <1>1 DEF CleanUp
<1> HIDE DEF n, to
<1>4. r \in Request
  BY <1>1, <1>2 DEF Request
<1>5. req'[cl] = r /\ req' = [req EXCEPT ![cl] = req'[cl]]
  <2> HIDE DEF r
  <2> QED
    BY <1>1, <1>3, <1>4, Replaced
<1>6. Becomes(cl, to, req[cl].todo, n, req[cl].answer, req[cl].okay)
  BY <1>1, <1>4, <1>5 DEF Request, SameRequest, Becomes
<1> QED
  BY <1>3, <1>6 DEF n, to

\* A request that its worker loses.
LEMMA CrashFields ==
  ASSUME NbiInv, NEW cl \in Client, CrashRequest(cl)
  PROVE  /\ req[cl].at \notin {"idle", "done", "lost"}
         /\ Becomes(cl, "lost", req[cl].todo, req[cl].rest, req[cl].answer, req[cl].okay)
BY MoveFields DEF CrashRequest, At

(***************************************************************************)
(* A step of a request: it moves on, stays sound, and takes off the queue  *)
(* only what it removes.                                                   *)
(***************************************************************************)
Became(cl) ==
  /\ SameRequest(cl)
  /\ RequestSound(req'[cl])
  /\ req'[cl].at \in {"idle", "lock"} => req[cl].at \in {"idle", "lock"}

QueueChange(cl) ==
  /\ tasks' \subseteq Task /\ created' \subseteq Task
  /\ created \subseteq created' /\ created' \ created \subseteq tasks'
  /\ \A t \in tasks \ tasks' : Removes(req'[cl], t)
  /\ faults' \subseteq Channel /\ timed' \subseteq Channel /\ operations' \subseteq Operation

Aside(cl) ==
  /\ UNCHANGED <<pc, ctx, past, expired, bad>>
  /\ Counted'
  /\ lock' \in {lock, cl, Free}
  /\ newer' \subseteq Client

RequestStep(cl) == Became(cl) /\ QueueChange(cl) /\ Aside(cl)

\* Such a step keeps the invariant.
LEMMA RequestKeeps ==
  ASSUME NbiInv, NEW cl \in Client, RequestStep(cl)
  PROVE  NbiInv'
<1>1. /\ req \in [Client -> Request] /\ req' \in [Client -> Request]
      /\ req' = [req EXCEPT ![cl] = req'[cl]]
  BY Requests DEF RequestStep, Became, SameRequest
<1>2. \A d \in Client : d # cl => req'[d] = req[d]
  BY <1>1
<1>3. RequestsSound'
  BY <1>2, Requests DEF RequestsSound, RequestStep, Became
<1>4. SessionTypeOK'
  BY DEF NbiInv, SessionInv, SessionTypeOK, RequestStep, QueueChange, Aside, Counted, past
<1>5. SessionInv'
  BY <1>4 DEF NbiInv, SessionInv, ContextsSound, RequestStep, Aside, past
<1>6. NbiTypeOK'
  BY <1>1, <1>4 DEF NbiInv, NbiTypeOK, RequestStep, Aside
<1>7. \A t : RemovedByRequest(t) => RemovedByRequest(t)'
  <2> SUFFICES ASSUME NEW t, NEW d \in Client, Removes(req[d], t)
               PROVE  Removes(req'[d], t)
    BY DEF RemovedByRequest, Removes
  <2> QED
    BY <1>2 DEF RequestStep, Became, SameRequest, Removes
<1>8. \A t \in tasks \ tasks' : RemovedByRequest(t)'
  BY DEF RequestStep, QueueChange, Removes, RemovedByRequest
<1>9. NoPostedTaskLost'
  BY <1>7, <1>8 DEF NbiInv, NoPostedTaskLost, RequestStep, QueueChange, Aside, past
<1> QED
  BY <1>3, <1>5, <1>6, <1>9 DEF NbiInv

\* A step that leaves the queue alone does so whoever makes it.
LEMMA QueueSame ==
  ASSUME NbiInv, NEW cl, UNCHANGED <<store, created>>
  PROVE  QueueChange(cl)
BY DEF NbiInv, NbiTypeOK, SessionTypeOK, QueueChange, store

\* A request stays sound if it has no more to write than it had, and keeps to
\* its own tasks.
LEMMA StaysSound ==
  ASSUME NbiInv, NEW cl \in Client, NEW at, NEW todo, NEW rest, NEW answer, NEW okay,
         Becomes(cl, at, todo, rest, answer, okay),
         todo \subseteq Writes(req[cl]),
         at \in {"idle", "lock"} => req[cl].at \in {"idle", "lock"},
         at = "clean" => req[cl].kind = "ui" /\ rest \subseteq req[cl].targets,
         at \in {"idle", "lock", "hold", "insert"} => rest \subseteq KeyedOf(cl)
  PROVE  Became(cl)
<1>1. RequestSound(req[cl])
  BY Requests
<1>2. Writes(req'[cl]) = Writes(req[cl])
  BY DEF Becomes, SameRequest, Writes
<1>3. RequestSound(req'[cl])
  BY <1>1, <1>2 DEF RequestSound, Becomes, SameRequest, KeyedOf
<1> QED
  BY <1>3 DEF Becomes, Became

\* A request that moves on with what it has to write and to visit.
LEMMA MovesOn ==
  ASSUME NbiInv, NEW cl \in Client, NEW at, NEW answer, NEW okay,
         Becomes(cl, at, req[cl].todo, req[cl].rest, answer, okay),
         at \in {"idle", "lock", "clean"} => at = req[cl].at,
         at \in {"hold", "insert"} => req[cl].at \in {"lock", "hold", "insert"}
  PROVE  Became(cl)
<1>1. RequestSound(req[cl])
  BY Requests
<1> QED
  BY <1>1, StaysSound DEF RequestSound, KeyedOf

\* What a request does beside the sessions and the clock.
LEMMA AsideStep ==
  ASSUME NbiInv, NEW cl \in Client, Still, lock' \in {lock, cl, Free},
         newer' \subseteq newer
  PROVE  Aside(cl)
<1>1. Counted'
  BY SameCounts DEF NbiInv, Still
<1> QED
  BY <1>1 DEF Aside, Still, NbiInv, NbiTypeOK

\* A request that changes neither the queue nor the lock.
LEMMA PlainStep ==
  ASSUME NbiInv, NEW cl \in Client, Became(cl), UNCHANGED <<vars, newer>>
  PROVE  RequestStep(cl)
<1>1. UNCHANGED <<store, created>> /\ Still /\ lock' = lock /\ newer' = newer
  BY DEF vars, store, Still, past, bounds
<1> QED
  BY <1>1, QueueSame, AsideStep DEF RequestStep

(***************************************************************************)
(* The steps of a request, action by action.                               *)
(***************************************************************************)
\* The request comes in.
LEMMA ArriveStep ==
  ASSUME NbiInv, NEW cl \in Client, Arrive(cl)
  PROVE  RequestStep(cl)
<1> DEFINE to == IF req[cl].kind = "queue" THEN "insert" ELSE "lock"
           n == IF req[cl].kind \in Posts THEN KeyedOf(cl) ELSE {}
<1>1. req[cl].at = "idle" /\ Becomes(cl, to, Writes(req[cl]), n, req[cl].answer, req[cl].okay)
  BY ArriveFields
<1>2. n \subseteq KeyedOf(cl) /\ to \in {"insert", "lock"}
  OBVIOUS
<1> HIDE DEF n, to
<1>3. Became(cl)
  BY <1>1, <1>2, StaysSound
<1> QED
  BY <1>3, PlainStep DEF Arrive

\* The lock is taken, given up or released.
LEMMA LockingStep ==
  ASSUME NbiInv, NEW cl \in Client, Acquire(cl) \/ GiveUp(cl) \/ Unlock(cl)
  PROVE  RequestStep(cl)
<1>1. ASSUME NEW from \in {"lock", "hold"}, NEW to \in {"hold", "insert", "call"},
             from = "lock" \/ to = "call", Move(cl, from, to)
      PROVE  Became(cl)
  BY <1>1, MoveFields, MovesOn DEF At
<1>2. ASSUME NEW from, NEW a \in Answer, Reply(cl, from, a)
      PROVE  Became(cl)
  BY <1>2, ReplyFields, MovesOn
<1>3. CASE Acquire(cl)
  BY <1>1, <1>3, QueueSame, AsideStep DEF Acquire, RequestStep
<1>4. CASE GiveUp(cl)
  BY <1>1, <1>2, <1>4, PlainStep DEF GiveUp, Answer
<1>5. CASE Unlock(cl)
  <2>1. Became(cl)
    BY <1>1, <1>2, <1>5 DEF Unlock, Unlocked, Answer
  <2> QED
    BY <1>5, <2>1, QueueSame, AsideStep DEF Unlock, RequestStep
<1> QED
  BY <1>3, <1>4, <1>5

\* insertTasks removes a task with the same uniqueKey.
LEMMA SupersedeStep ==
  ASSUME NbiInv, NEW cl \in Client, NEW t \in Keyed, Supersede(cl, t)
  PROVE  RequestStep(cl)
<1>1. RequestSound(req[cl])
  BY Requests
<1>2. /\ "insert" \in req[cl].todo /\ req[cl].at \in {"hold", "insert"} /\ t \in req[cl].rest
      /\ Becomes(cl, req[cl].at, req[cl].todo, req[cl].rest \ {t}, req[cl].answer,
                 req[cl].okay)
  BY SupersedeFields
<1>3. req[cl].kind \in Posts /\ KeyedOf(cl) # {} /\ req[cl].rest \subseteq KeyedOf(cl)
  BY <1>1, <1>2 DEF RequestSound, Request, Writes, Kind, Posts, KeyedOf
<1>4. Became(cl)
  BY <1>1, <1>2, <1>3, StaysSound DEF RequestSound
<1>5. \A u \in Keyed : Removes(req'[cl], u)
  BY <1>2, <1>3 DEF Removes, Becomes, SameRequest, KeyedOf
<1>6. /\ tasks' \subseteq tasks /\ tasks \ tasks' \subseteq Keyed
      /\ UNCHANGED <<faults, timed, operations, created>>
  BY DEF Supersede
<1>7. QueueChange(cl)
  BY <1>5, <1>6 DEF QueueChange, NbiInv, NbiTypeOK, SessionTypeOK
<1> QED
  BY <1>4, <1>7, AsideStep DEF Supersede, RequestStep

\* insertTasks inserts, or refuses a task.
LEMMA InsertStep ==
  ASSUME NbiInv, NEW cl \in Client, Insert(cl) \/ InvalidTasks(cl)
  PROVE  RequestStep(cl)
<1>1. RequestSound(req[cl])
  BY Requests
<1>2. CASE Insert(cl)
  <2>1. /\ "insert" \in req[cl].todo /\ req[cl].at \in {"hold", "insert"}
        /\ SameRequest(cl) /\ req'[cl].todo = {} /\ req'[cl].rest = {}
        /\ req'[cl].at \in {"hold", "done"}
    BY <1>2, InsertFields
  <2>2. req[cl].targets \subseteq Task
    BY <1>1, <2>1 DEF RequestSound, Request, Writes, Kind, Posts
  <2>3. Became(cl)
    BY <1>1, <2>1 DEF Became, RequestSound, SameRequest
  <2>4. /\ tasks' = tasks \cup req[cl].targets /\ created' = created \cup req[cl].targets
        /\ UNCHANGED <<faults, timed, operations>>
    BY <1>2 DEF Insert
  <2>5. QueueChange(cl)
    BY <2>2, <2>4 DEF QueueChange, NbiInv, NbiTypeOK, SessionTypeOK
  <2> QED
    BY <1>2, <2>3, <2>5, AsideStep DEF Insert, RequestStep
<1>3. CASE InvalidTasks(cl)
  <2> DEFINE to == IF req[cl].at = "hold" THEN "hold" ELSE "done"
  <2>1. Becomes(cl, to, {}, {}, "error", req[cl].okay) /\ to \in {"hold", "done"}
    BY <1>3, InvalidFields
  <2> HIDE DEF to
  <2>2. Became(cl)
    BY <2>1, StaysSound
  <2> QED
    BY <1>3, <2>2, PlainStep DEF InvalidTasks
<1> QED
  BY <1>2, <1>3

\* A deletion, and the clean-up of the UI.
LEMMA DeleteStep ==
  ASSUME NbiInv, NEW cl \in Client,
         DeleteTask(cl) \/ DeleteFault(cl) \/ \E t \in Task : CleanUp(cl, t)
  PROVE  RequestStep(cl)
<1>1. RequestSound(req[cl])
  BY Requests
<1>2. ASSUME NEW what, Wrote(cl, what), req' = [req EXCEPT ![cl].todo = @ \ {what}]
      PROVE  /\ Became(cl) /\ what \in req[cl].todo
             /\ req'[cl].at \in {"hold", "insert"} /\ SameRequest(cl)
  <2>1. Becomes(cl, req[cl].at, req[cl].todo \ {what}, req[cl].rest, req[cl].answer,
                req[cl].okay)
    BY <1>2, WroteFields
  <2>2. what \in req[cl].todo /\ req[cl].at \in {"hold", "insert"}
    BY <1>2 DEF Wrote
  <2>3. Became(cl)
    BY <1>1, <2>1, <2>2, StaysSound DEF RequestSound, KeyedOf
  <2> QED
    BY <2>1, <2>2, <2>3 DEF Becomes
<1>3. CASE DeleteTask(cl)
  <2>1. /\ Became(cl) /\ "task" \in req[cl].todo
        /\ req'[cl].at \in {"hold", "insert"} /\ SameRequest(cl)
    BY <1>2, <1>3 DEF DeleteTask
  <2>2. req[cl].kind \in {"delete", "forget"}
    BY <1>1, <2>1 DEF RequestSound, Request, Writes, Kind, Posts
  <2>3. \A t \in req[cl].targets : Removes(req'[cl], t)
    BY <2>1, <2>2 DEF Removes, SameRequest
  <2>4. QueueChange(cl)
    BY <1>3, <2>3 DEF DeleteTask, QueueChange, NbiInv, NbiTypeOK, SessionTypeOK
  <2> QED
    BY <1>3, <2>1, <2>4, AsideStep DEF DeleteTask, RequestStep
<1>4. CASE DeleteFault(cl)
  <2>1. Became(cl)
    BY <1>2, <1>4 DEF DeleteFault
  <2>2. QueueChange(cl)
    BY <1>4 DEF DeleteFault, QueueChange, NbiInv, NbiTypeOK, SessionTypeOK
  <2> QED
    BY <1>4, <2>1, <2>2, AsideStep DEF DeleteFault, RequestStep
<1>5. ASSUME NEW t \in Task, CleanUp(cl, t)
      PROVE  RequestStep(cl)
  <2> DEFINE to == IF req[cl].rest = {t} THEN "done" ELSE "clean"
  <2>1. /\ req[cl].at = "clean" /\ t \in req[cl].rest /\ to \in {"done", "clean"}
        /\ Becomes(cl, to, req[cl].todo, req[cl].rest \ {t}, req[cl].answer, req[cl].okay)
    BY <1>5, CleanUpFields
  <2> HIDE DEF to
  <2>2. req[cl].kind = "ui" /\ req[cl].rest \subseteq req[cl].targets
    BY <1>1, <2>1 DEF RequestSound
  <2>3. Became(cl)
    BY <1>1, <2>1, <2>2, StaysSound DEF RequestSound
  <2>4. Removes(req'[cl], t)
    BY <2>1, <2>2 DEF Removes, Becomes, SameRequest
  <2>5. QueueChange(cl)
    BY <1>5, <2>4 DEF CleanUp, QueueChange, NbiInv, NbiTypeOK, SessionTypeOK
  <2> QED
    BY <1>5, <2>3, <2>5, AsideStep DEF CleanUp, RequestStep
<1> QED
  BY <1>3, <1>4, <1>5

\* What a request does while it waits for the session, and its count.
LEMMA WaitStep ==
  ASSUME NbiInv, NEW cl \in Client,
         \/ Call(cl) \/ AwaitInform(cl) \/ AwaitStart(cl) \/ AwaitEnd(cl)
         \/ CountFaults(cl)
  PROVE  RequestStep(cl)
<1>1. req[cl].todo \subseteq Writes(req[cl])
  BY Requests DEF RequestSound
<1>2. ASSUME NEW okay, req[cl].kind = "ui",
             Becomes(cl, "clean", req[cl].todo, req[cl].targets, req[cl].answer, okay)
      PROVE  Became(cl)
  BY <1>1, <1>2, StaysSound
<1>3. ASSUME NEW from, Abandon(cl, from)
      PROVE  Became(cl)
  BY <1>2, <1>3, AbandonFields, MovesOn
<1>4. ASSUME NEW from, NEW to \in {"start", "end", "token", "count"}, Move(cl, from, to)
      PROVE  Became(cl)
  BY <1>4, MoveFields, MovesOn DEF At
<1>5. ASSUME CountFaults(cl)
      PROVE  Became(cl)
  <2>1. CASE \E a \in {"ok", "faulted"} :
               Becomes(cl, "done", req[cl].todo, req[cl].rest, a, req[cl].targets \ faults)
    BY <2>1, MovesOn
  <2>2. CASE /\ req[cl].kind = "ui"
             /\ Becomes(cl, "clean", req[cl].todo, req[cl].targets, req[cl].answer,
                        req[cl].targets \ faults)
    BY <1>2, <2>2
  <2> QED
    BY <1>5, <2>1, <2>2, CountFields
<1>6. Became(cl)
  BY <1>3, <1>4, <1>5 DEF Call, AwaitInform, AwaitStart, AwaitEnd
<1> QED
  BY <1>6, PlainStep DEF Call, AwaitInform, AwaitStart, AwaitEnd, CountFaults

\* A request that is lost, and a lock that expires.
LEMMA LossOfRequest ==
  ASSUME NbiInv, NEW cl \in Client, CrashRequest(cl) \/ ExpireRequestLock(cl)
  PROVE  RequestStep(cl)
<1>1. CASE CrashRequest(cl)
  <2>1. Became(cl)
    BY <1>1, CrashFields, MovesOn
  <2>2. Counted'
    BY <1>1, SessionAssumption DEF CrashRequest, NbiInv, NbiTypeOK, SessionTypeOK, Counted
  <2>3. Aside(cl)
    BY <1>1, <2>2 DEF CrashRequest, Aside, world, NbiInv, NbiTypeOK
  <2>4. UNCHANGED <<store, created>>
    BY <1>1 DEF CrashRequest, world
  <2> QED
    BY <2>1, <2>3, <2>4, QueueSame DEF RequestStep
<1>2. CASE ExpireRequestLock(cl)
  <2>1. RequestSound(req[cl]) /\ req \in [Client -> Request] /\ req' = req
    BY <1>2, Requests DEF ExpireRequestLock
  <2>2. Became(cl)
    BY <2>1 DEF Became, SameRequest
  <2>3. Counted'
    BY <1>2, SessionAssumption DEF ExpireRequestLock, NbiInv, NbiTypeOK, SessionTypeOK, Counted
  <2>4. Aside(cl)
    BY <1>2, <2>3 DEF ExpireRequestLock, Aside, world, NbiInv, NbiTypeOK
  <2>5. UNCHANGED <<store, created>>
    BY <1>2 DEF ExpireRequestLock, world
  <2> QED
    BY <2>2, <2>4, <2>5, QueueSame DEF RequestStep
<1> QED
  BY <1>1, <1>2

(***************************************************************************)
(* The invariant.                                                          *)
(***************************************************************************)
\* It holds at first.
LEMMA NbiInvInit == NbiInit => NbiInv
<1> SUFFICES ASSUME NbiInit PROVE NbiInv
  OBVIOUS
<1>1. QueueInv /\ lock = Free
  BY QueueInvInit DEF NbiInit, Init
<1>2. req \in [Client -> Request]
  BY ClientAssumption DEF NbiInit, Request, At, Answer
<1>3. ASSUME NEW cl \in Client
      PROVE  RequestSound(req[cl])
  <2>1. req[cl] \in Request
    BY <1>2
  <2>2. req[cl].todo = {} /\ req[cl].rest = {} /\ req[cl].at = "idle"
    BY DEF NbiInit
  <2>3. req[cl].kind # "forget" => req[cl].targets \subseteq Task
    BY DEF NbiInit
  <2> QED
    BY <2>1, <2>2, <2>3 DEF RequestSound
<1>4. NoPostedTaskLost
  BY DEF NbiInit, Init, NoPostedTaskLost
<1> QED
  BY <1>1, <1>2, <1>3, <1>4 DEF NbiInv, NbiTypeOK, QueueInv, SessionInv, RequestsSound, NbiInit

\* A step of the device, which does not look at the requests.
LEMMA DeviceKeeps ==
  ASSUME NbiInv, DeviceNext
  PROVE  NbiInv'
<1> DEFINE Device == /\ SessionInv' /\ created' = created
                     /\ ran \subseteq ran' /\ expired \subseteq expired'
                     /\ tasks \ tasks' \subseteq Gone(ran', expired')
                     /\ lock' \in Session \cup Client \cup {Free}
<1>1. Device
  <2>1. ASSUME NEW t \in Task, PassExpiry(t)
        PROVE  Device
    BY <2>1, PassExpiryStep DEF PassExpiry, store, past, NbiInv, NbiTypeOK
  <2>2. ASSUME NEW s \in Session, SessionNext(s)
        PROVE  Device
    BY <2>2, SessionStep, LockMoves DEF QueueKept, NbiInv, NbiTypeOK
  <2> QED
    BY <2>1, <2>2 DEF DeviceNext
<1>2. req' = req /\ newer' \subseteq Client
  BY DEF DeviceNext, Watching, NbiInv, NbiTypeOK
<1>3. NbiTypeOK' /\ RequestsSound'
  BY <1>1, <1>2 DEF NbiInv, NbiTypeOK, RequestsSound, SessionInv
<1>4. NoPostedTaskLost'
  BY <1>1, <1>2 DEF NbiInv, NoPostedTaskLost, RemovedByRequest, Gone
<1> QED
  BY <1>1, <1>3, <1>4 DEF NbiInv

\* Every step of a request is a RequestStep.
LEMMA RequestSteps ==
  ASSUME NbiInv, NEW cl \in Client, RequestNext(cl)
  PROVE  RequestStep(cl)
BY ArriveStep, LockingStep, SupersedeStep, InsertStep, DeleteStep, WaitStep,
   LossOfRequest DEF RequestNext

\* Every step keeps the invariant.
LEMMA NbiInvNext == NbiInv /\ [NbiNext]_nbiVars => NbiInv'
<1> SUFFICES ASSUME NbiInv, [NbiNext]_nbiVars PROVE NbiInv'
  OBVIOUS
<1>1. CASE UNCHANGED nbiVars
  BY <1>1 DEF nbiVars, vars, NbiInv, NbiTypeOK, SessionInv, SessionTypeOK, ContextsSound,
              RequestsSound, NoPostedTaskLost, RemovedByRequest
<1>2. ASSUME NEW cl \in Client, RequestNext(cl)
      PROVE  NbiInv'
  BY <1>2, RequestSteps, RequestKeeps
<1> QED
  BY <1>1, <1>2, DeviceKeeps DEF NbiNext

\* Type correctness of the requests and of all they share with the sessions.
THEOREM NbiTyping == NbiSpec => []NbiTypeOK
<1>1. NbiInv => NbiTypeOK
  BY DEF NbiInv
<1> QED
  BY <1>1, NbiInvInit, NbiInvNext, PTL DEF NbiSpec

\* A posted task leaves the queue only carried through, expired, without
\* meaning or because a request removes it, whatever happens to the others.
THEOREM PostedTasksSafe == NbiSpec => []NoPostedTaskLost
<1>1. NbiInv => NoPostedTaskLost
  BY DEF NbiInv
<1> QED
  BY <1>1, NbiInvInit, NbiInvNext, PTL DEF NbiSpec

(***************************************************************************)
(* The lock.  A request takes it only when it is free, and gives it back   *)
(* only if it has it; so does a session (LockMoves, SteadyStep).           *)
(***************************************************************************)
LEMMA DeviceExclusive ==
  ASSUME NbiInv, RequestsExclusive, DeviceNext
  PROVE  RequestsExclusive'
<1>1. LockHeld
  BY DEF RequestsExclusive, LockHeld
<1>2. ASSUME NEW t \in Task, PassExpiry(t)
      PROVE  RequestsExclusive'
  BY <1>2 DEF PassExpiry, bounds, DeviceNext, RequestsExclusive
<1>3. ASSUME NEW s \in Session, SessionNext(s)
      PROVE  RequestsExclusive'
  <2>1. LockHeld'
    BY <1>1, <1>3, SessionLock DEF NbiInv, SessionInv
  <2>2. ASSUME stalls' = 0, NEW cl \in Client, req'[cl].at = "hold"
        PROVE  lock' = cl
    <3>1. req' = req /\ stalls \in Nat /\ cl \notin Session \cup {Free}
      BY <2>2, SessionAssumption, ClientAssumption
         DEF DeviceNext, NbiInv, SessionInv, SessionTypeOK
    <3>2. CASE Steady(s)
      BY <2>2, <3>1, <3>2 DEF Steady, LockIsFree, RequestsExclusive
    <3>3. CASE Release(s) \/ ExpireLock(s)
      BY <2>2, <3>1, <3>3 DEF Release, ExpireLock, bounds, RequestsExclusive
    <3>4. CASE Stall(s)
      BY <2>2, <3>1, <3>4 DEF Stall
    <3> QED
      BY <1>3, <3>2, <3>3, <3>4, SteadyStep
  <2> QED
    BY <2>1, <2>2 DEF LockHeld, RequestsExclusive
<1> QED
  BY <1>2, <1>3 DEF DeviceNext

\* The ways in which a request leaves, takes and gives back the lock.
LeavesLock(cl) == /\ lock' = lock /\ stalls' = stalls
                  /\ req'[cl].at = "hold" => req[cl].at = "hold"

TakesLock(cl) == lock = Free /\ lock' = cl /\ stalls' = stalls

FreesLock(cl) == /\ lock = cl /\ lock' = Free /\ stalls' = stalls
                 /\ req'[cl].at # "hold"
                 /\ req[cl].at = "lost" \/ req'[cl].at # req[cl].at

StallsLock(cl) == lock = cl /\ stalls' = stalls + 1

\* It leaves the sessions and the other requests alone.
LEMMA RequestAlone ==
  ASSUME NbiInv, NEW cl \in Client, RequestNext(cl)
  PROVE  /\ SameRequest(cl) /\ pc' = pc
         /\ \A d \in Client : d # cl => req'[d] = req[d]
<1>1. SameRequest(cl) /\ pc' = pc
  BY RequestSteps DEF RequestStep, Became, Aside
<1> QED
  BY <1>1, Requests DEF SameRequest

\* Where the steps that neither take, free nor expire a lock lead.
LEMMA Whereto ==
  ASSUME NbiInv, NEW cl \in Client, RequestNext(cl),
         ~ Acquire(cl), ~ Unlock(cl), ~ ExpireRequestLock(cl)
  PROVE  req'[cl].at = "hold" => req[cl].at = "hold"
<1>1. ASSUME NEW from, NEW to \in At \ {"hold"}, Move(cl, from, to)
      PROVE  req'[cl].at # "hold"
  BY <1>1, MoveFields DEF Becomes
<1>2. ASSUME NEW from, NEW a \in Answer, Reply(cl, from, a)
      PROVE  req'[cl].at # "hold"
  BY <1>2, ReplyFields DEF Becomes
<1>3. ASSUME NEW from, Abandon(cl, from)
      PROVE  req'[cl].at # "hold"
  BY <1>3, AbandonFields DEF Becomes
<1>4. ASSUME NEW what, req' = [req EXCEPT ![cl].todo = @ \ {what}]
      PROVE  req'[cl].at = req[cl].at
  BY <1>4, WroteFields DEF Becomes
<1>5. CASE Arrive(cl)
  BY <1>5, ArriveFields DEF Becomes
<1>6. ASSUME NEW t, Supersede(cl, t)
      PROVE  req'[cl].at = req[cl].at
  BY <1>6, SupersedeFields DEF Becomes
<1>7. CASE Insert(cl) \/ InvalidTasks(cl)
  BY <1>7, InsertFields, InvalidFields DEF Becomes
<1>8. CASE CountFaults(cl)
  BY <1>8, CountFields DEF Becomes
<1>9. ASSUME NEW t, CleanUp(cl, t)
      PROVE  req'[cl].at # "hold"
  BY <1>9, CleanUpFields DEF Becomes
<1>10. CASE CrashRequest(cl)
  BY <1>10, CrashFields DEF Becomes
<1>11. CASE GiveUp(cl)
  BY <1>1, <1>2, <1>11 DEF GiveUp, At, Answer
<1>12. CASE DeleteTask(cl) \/ DeleteFault(cl)
  BY <1>4, <1>12 DEF DeleteTask, DeleteFault
<1>13. CASE Call(cl) \/ AwaitInform(cl) \/ AwaitStart(cl) \/ AwaitEnd(cl)
  BY <1>1, <1>3, <1>13 DEF Call, AwaitInform, AwaitStart, AwaitEnd, At
<1> QED
  BY <1>5, <1>6, <1>7, <1>8, <1>9, <1>10, <1>11, <1>12, <1>13 DEF RequestNext

\* Every step of a request is of one of these kinds.
LEMMA RequestLock ==
  ASSUME NbiInv, NEW cl \in Client, RequestNext(cl)
  PROVE  LeavesLock(cl) \/ TakesLock(cl) \/ FreesLock(cl) \/ StallsLock(cl)
<1>1. CASE Acquire(cl)
  BY <1>1 DEF Acquire, Still, bounds, TakesLock
<1>2. CASE Unlock(cl)
  <2>1. lock' = lock \/ (lock = cl /\ lock' = Free)
    BY <1>2 DEF Unlock
  <2>2. stalls' = stalls
    BY <1>2 DEF Unlock, Still, bounds
  <2>3. Move(cl, "hold", "call") \/ \E a \in Answer : Reply(cl, "hold", a)
    BY <1>2 DEF Unlock, Unlocked, Answer
  <2>4. req[cl].at = "hold" /\ req'[cl].at \in {"call", "done"}
    BY <2>3, MoveFields, ReplyFields DEF Becomes, At
  <2> QED
    BY <2>1, <2>2, <2>4 DEF FreesLock, LeavesLock
<1>3. CASE ExpireRequestLock(cl)
  <2>1. req' = req /\ lock = cl /\ lock' = Free
    BY <1>3 DEF ExpireRequestLock
  <2>2. (req[cl].at = "lost" /\ stalls' = stalls) \/ stalls' = stalls + 1
    BY <1>3 DEF ExpireRequestLock
  <2> QED
    BY <2>1, <2>2 DEF FreesLock, StallsLock
<1>4. CASE ~ Acquire(cl) /\ ~ Unlock(cl) /\ ~ ExpireRequestLock(cl)
  <2>1. lock' = lock /\ stalls' = stalls
    BY <1>4 DEF RequestNext, Arrive, GiveUp, Supersede, Insert, InvalidTasks, DeleteTask,
                DeleteFault, Call, AwaitInform, AwaitStart, AwaitEnd, CountFaults, CleanUp,
                CrashRequest, Still, vars, bounds
  <2> QED
    BY <1>4, <2>1, Whereto DEF LeavesLock
<1> QED
  BY <1>1, <1>2, <1>3, <1>4

\* Hence a request never works beside another one or beside a session.
LEMMA RequestKeepsExclusive ==
  ASSUME NbiInv, RequestsExclusive, NEW cl \in Client, RequestNext(cl)
  PROVE  RequestsExclusive'
<1>1. /\ \A d \in Client : d # cl => req'[d] = req[d]
      /\ pc' = pc
      /\ stalls \in Nat
  BY RequestAlone, SessionAssumption DEF NbiInv, SessionInv, SessionTypeOK
<1>2. cl \notin Session \cup {Free} /\ Free \notin Session \cup Client
  BY ClientAssumption, SessionAssumption
<1>3. CASE LeavesLock(cl)
  BY <1>1, <1>3 DEF LeavesLock, RequestsExclusive
<1>4. CASE TakesLock(cl)
  BY <1>1, <1>2, <1>4 DEF TakesLock, RequestsExclusive
<1>5. CASE FreesLock(cl)
  BY <1>1, <1>2, <1>5 DEF FreesLock, RequestsExclusive
<1>6. CASE StallsLock(cl)
  BY <1>1, <1>6 DEF StallsLock, RequestsExclusive
<1> QED
  BY <1>3, <1>4, <1>5, <1>6, RequestLock

\* The exclusion of requests and sessions, for any number of both.
THEOREM RequestExclusion == NbiSpec => []RequestsExclusive
<1>1. NbiInit => RequestsExclusive
  BY DEF NbiInit, Init, RequestsExclusive, InSession
<1>2. NbiInv /\ RequestsExclusive /\ [NbiNext]_nbiVars => RequestsExclusive'
  <2> SUFFICES ASSUME NbiInv, RequestsExclusive, [NbiNext]_nbiVars
               PROVE  RequestsExclusive'
    OBVIOUS
  <2>1. CASE UNCHANGED nbiVars
    BY <2>1 DEF nbiVars, vars, RequestsExclusive
  <2> QED
    BY <2>1, DeviceExclusive, RequestKeepsExclusive DEF NbiNext
<1> QED
  BY <1>1, <1>2, NbiInvInit, NbiInvNext, PTL DEF NbiSpec

\* Nobody releases a lock that is another's: a lock goes by a step of its
\* holder or by its expiry, also after stalls and crashes.
THEOREM LocksStay == NbiSpec => LocksKept
<1> DEFINE Kept == /\ \A cl \in Client :
                        lock = cl /\ lock' # cl
                          => req[cl].at = "lost" \/ req[cl].at # req'[cl].at \/ stalls' > stalls
                   /\ \A s \in Session :
                        lock = s /\ lock' # s => pc[s] # pc'[s] \/ stalls' > stalls
<1>1. NbiInv /\ [NbiNext]_nbiVars => [Kept]_nbiVars
  <2> SUFFICES ASSUME NbiInv, NbiNext PROVE Kept
    OBVIOUS
  <2>1. /\ Client \cap (Session \cup {Free}) = {} /\ Free \notin Session
        /\ stalls \in Nat /\ pc \in [Session -> Label]
    BY ClientAssumption, SessionAssumption DEF NbiInv, SessionInv, SessionTypeOK
  <2>2. ASSUME NEW t \in Task, PassExpiry(t)
        PROVE  Kept
    BY <2>2 DEF PassExpiry
  <2>3. ASSUME NEW s \in Session, SessionNext(s)
        PROVE  Kept
    <3>1. CASE Release(s) \/ ExpireLock(s)
      BY <2>1, <3>1 DEF Release, ExpireLock, Go
    <3>2. CASE Stall(s)
      BY <2>1, <3>2 DEF Stall
    <3>3. CASE Steady(s)
      BY <2>1, <3>3 DEF Steady, LockIsFree
    <3> QED
      BY <2>3, <3>1, <3>2, <3>3, SteadyStep
  <2>4. ASSUME NEW cl \in Client, RequestNext(cl)
        PROVE  Kept
    <3>1. CASE LeavesLock(cl) \/ TakesLock(cl)
      BY <2>1, <3>1 DEF LeavesLock, TakesLock
    <3>2. CASE FreesLock(cl)
      BY <2>1, <3>2 DEF FreesLock
    <3>3. CASE StallsLock(cl)
      BY <2>1, <3>3 DEF StallsLock
    <3> QED
      BY <2>4, <3>1, <3>2, <3>3, RequestLock
  <2> QED
    BY <2>2, <2>3, <2>4 DEF NbiNext, DeviceNext
<1> QED
  BY <1>1, NbiInvInit, NbiInvNext, PTL DEF NbiSpec, LocksKept

(***************************************************************************)
(* The tasks of a uniqueKey.  insertTasks removes, for each task of its    *)
(* list that has the key, one that is queued, before it inserts its own,   *)
(* all under the device's lock: what is queued of the key beside a request *)
(* that has still to insert is at most what another one had in its list,   *)
(* less what the request has removed of it.  That is lost with a lock that *)
(* expired, or with tasks that were inserted without one.                  *)
(***************************************************************************)
\* A request that has the lock to take comes with all its writes to do and all
\* its tasks to visit; one that inserted without the lock is answered.
TodoSound(r) ==
  /\ r.at = "lock" => /\ r.todo = Writes(r)
                      /\ r.kind \in Posts => r.rest = r.targets \cap Keyed
  /\ r.bare => r.at = "done"

TodosSound == \A cl \in Client : TodoSound(req[cl])

Escaped == stalls > 0 \/ \E cl \in Client : KeyedOf(cl) # {} /\ req[cl].bare

Started(cl) == req[cl].at \notin {"idle", "lock"}

\* The request has the lock, and its tasks still to insert.
Replacing(cl) == req[cl].at = "hold" /\ "insert" \in req[cl].todo

Queued == Cardinality(Keyed \cap tasks)
Posted(cl) == Cardinality(KeyedOf(cl))
Left(cl) == Cardinality(req[cl].rest)

OneOfKey ==
  \/ Keyed \cap tasks = {}
  \/ /\ \E a \in Client : Started(a) /\ Queued <= Posted(a)
     /\ \A b \in Client : Replacing(b) =>
          \E a \in Client : Started(a) /\ Queued + Posted(b) <= Posted(a) + Left(b)

KeyInv == TodosSound /\ (Escaped \/ OneOfKey)

\* These numbers are natural.
LEMMA Numbers ==
  ASSUME NbiInv
  PROVE  /\ IsFiniteSet(Keyed \cap tasks) /\ Queued \in Nat
         /\ \A cl \in Client : IsFiniteSet(KeyedOf(cl)) /\ Posted(cl) \in Nat
         /\ \A cl \in Client : Replacing(cl) => IsFiniteSet(req[cl].rest) /\ Left(cl) \in Nat
<1>1. ASSUME NEW S \in SUBSET Keyed
      PROVE  IsFiniteSet(S) /\ Cardinality(S) \in Nat
  BY <1>1, ClientAssumption, FS_Subset, FS_CardinalityType
<1>2. Keyed \cap tasks \in SUBSET Keyed /\ \A cl \in Client : KeyedOf(cl) \in SUBSET Keyed
  BY DEF KeyedOf
<1>3. \A cl \in Client : Replacing(cl) => req[cl].rest \in SUBSET Keyed
  BY Requests DEF Replacing, RequestSound
<1> QED
  BY <1>1, <1>2, <1>3 DEF Queued, Posted, Left

\* The queue has no more of the key if it has no more tasks.
LEMMA QueuedShrinks ==
  ASSUME NbiInv, tasks' \subseteq tasks
  PROVE  Queued' \in Nat /\ Queued' <= Queued
<1> DEFINE S == Keyed \cap tasks
           T == Keyed \cap tasks'
<1>1. IsFiniteSet(S) /\ T \in SUBSET S
  BY Numbers
<1> HIDE DEF S, T
<1>2. Cardinality(T) \in Nat /\ Cardinality(T) <= Cardinality(S)
  BY <1>1, FS_Subset, FS_CardinalityType
<1> QED
  BY <1>2 DEF S, T, Queued

\* A step that only takes tasks off the queue, and starts no replacement.
LEMMA KeyShrinks ==
  ASSUME NbiInv, OneOfKey, tasks' \subseteq tasks,
         \A cl \in Client : req'[cl].targets = req[cl].targets,
         \A cl \in Client : Started(cl) => Started(cl)',
         \A cl \in Client : Replacing(cl)' => Replacing(cl) /\ req'[cl].rest = req[cl].rest
  PROVE  OneOfKey'
<1>1. CASE Keyed \cap tasks = {}
  BY <1>1 DEF OneOfKey
<1>2. CASE Keyed \cap tasks # {}
  <2>1. Queued \in Nat /\ Queued' \in Nat /\ Queued' <= Queued
    BY Numbers, QueuedShrinks
  <2>2. \A cl \in Client : Posted(cl) \in Nat /\ Posted(cl)' = Posted(cl)
    BY Numbers DEF Posted, KeyedOf
  <2>3. \A cl \in Client : Replacing(cl)' =>
          Replacing(cl) /\ Left(cl) \in Nat /\ Left(cl)' = Left(cl)
    BY Numbers DEF Left
  <2>4. \E a \in Client : Started(a)' /\ Queued' <= Posted(a)'
    <3>1. PICK a \in Client : Started(a) /\ Queued <= Posted(a)
      BY <1>2 DEF OneOfKey
    <3> QED
      BY <2>1, <2>2, <3>1
  <2>5. ASSUME NEW b \in Client, Replacing(b)'
        PROVE  \E a \in Client : Started(a)' /\ Queued' + Posted(b)' <= Posted(a)' + Left(b)'
    <3>1. PICK a \in Client : Started(a) /\ Queued + Posted(b) <= Posted(a) + Left(b)
      BY <1>2, <2>3, <2>5 DEF OneOfKey
    <3>2. Left(b) \in Nat /\ Left(b)' = Left(b) /\ Posted(a) \in Nat /\ Posted(b) \in Nat
      BY <2>2, <2>3, <2>5
    <3>3. Queued' + Posted(b) <= Posted(a) + Left(b)
      BY <2>1, <3>1, <3>2
    <3> QED
      BY <2>2, <3>1, <3>2, <3>3
  <2> QED
    BY <2>4, <2>5 DEF OneOfKey
<1> QED
  BY <1>1, <1>2

\* A request that is answered makes no more steps.
LEMMA DoneStays ==
  ASSUME NbiInv, NEW cl \in Client, RequestNext(cl)
  PROVE  req[cl].at = "done" => req'[cl] = req[cl]
BY DEF RequestNext, Arrive, Acquire, GiveUp, Supersede, Insert, InvalidTasks, DeleteTask,
       DeleteFault, Unlock, Unlocked, Call, AwaitInform, AwaitStart, AwaitEnd, Abandon,
       CountFaults, ToCleanUp, CleanUp, CrashRequest, ExpireRequestLock, Wrote, Move, Reply

\* What was done without the lock stays done.
LEMMA EscapedStays ==
  ASSUME KeyInv, Escaped, stalls \in Nat, stalls' \in Nat, stalls' >= stalls,
         \A cl \in Client : req[cl].at = "done" => req'[cl] = req[cl]
  PROVE  Escaped'
BY DEF KeyInv, TodosSound, TodoSound, Escaped, KeyedOf

\* No step of a request undoes a stall.
LEMMA RequestStalls ==
  ASSUME NbiInv, NEW cl \in Client, RequestNext(cl)
  PROVE  stalls' \in {stalls, stalls + 1}
BY RequestLock DEF LeavesLock, TakesLock, FreesLock, StallsLock

\* A request that has arrived does not become one that has not.
LEMMA RequestStarts ==
  ASSUME NbiInv, NEW cl \in Client, RequestNext(cl)
  PROVE  Started(cl) => Started(cl)'
BY RequestSteps DEF RequestStep, Became, Started

\* The bookkeeping of the lists, whatever a request does.
LEMMA TodoStep ==
  ASSUME NbiInv, TodosSound, NEW cl \in Client, RequestNext(cl)
  PROVE  TodosSound'
<1>1. \A d \in Client : d # cl => req'[d] = req[d]
  BY RequestAlone
<1>2. TodoSound(req[cl])
  BY DEF TodosSound
<1>3. SUFFICES TodoSound(req'[cl])
  BY <1>1 DEF TodosSound
<1>4. ASSUME NEW at, NEW todo, NEW rest, NEW answer, NEW okay,
             Becomes(cl, at, todo, rest, answer, okay), at # "lock",
             req[cl].at # "done" \/ at = "done"
      PROVE  TodoSound(req'[cl])
  BY <1>2, <1>4 DEF TodoSound, Becomes
<1>5. CASE Arrive(cl)
  BY <1>2, <1>5, ArriveFields DEF TodoSound, Becomes, SameRequest, Writes, KeyedOf
<1>6. CASE Insert(cl)
  BY <1>2, <1>6, InsertFields DEF TodoSound
<1>7. CASE ExpireRequestLock(cl)
  BY <1>2, <1>7 DEF ExpireRequestLock
<1>8. ASSUME NEW from \in At \ {"done"}, NEW to \in At \ {"lock"}, Move(cl, from, to)
      PROVE  TodoSound(req'[cl])
  BY <1>4, <1>8, MoveFields
<1>9. ASSUME NEW from, NEW a \in Answer, Reply(cl, from, a)
      PROVE  TodoSound(req'[cl])
  BY <1>4, <1>9, ReplyFields
<1>10. ASSUME NEW from, from # "done", Abandon(cl, from)
       PROVE  TodoSound(req'[cl])
  BY <1>4, <1>10, AbandonFields
<1>11. CASE InvalidTasks(cl) \/ CountFaults(cl)
  BY <1>4, <1>11, InvalidFields, CountFields
<1>12. CASE \E t \in Keyed : Supersede(cl, t)
  BY <1>4, <1>12, SupersedeFields
<1>13. CASE \E t \in Task : CleanUp(cl, t)
  BY <1>4, <1>13, CleanUpFields
<1>14. CASE DeleteTask(cl) \/ DeleteFault(cl)
  <2>1. \E what : /\ Becomes(cl, req[cl].at, req[cl].todo \ {what}, req[cl].rest,
                             req[cl].answer, req[cl].okay)
                  /\ req[cl].at \in {"hold", "insert"}
    BY <1>14, WroteFields DEF DeleteTask, DeleteFault, Wrote
  <2> QED
    BY <1>4, <2>1
<1>15. CASE Acquire(cl) \/ GiveUp(cl) \/ Unlock(cl)
  BY <1>8, <1>9, <1>15 DEF Acquire, GiveUp, Unlock, Unlocked, At, Answer
<1>16. CASE Call(cl) \/ AwaitInform(cl) \/ AwaitStart(cl) \/ AwaitEnd(cl)
  BY <1>8, <1>10, <1>16 DEF Call, AwaitInform, AwaitStart, AwaitEnd, At
<1>17. CASE CrashRequest(cl)
  BY <1>4, <1>17, CrashFields
<1> QED
  BY <1>5, <1>6, <1>7, <1>11, <1>12, <1>13, <1>14, <1>15, <1>16, <1>17 DEF RequestNext

\* A request that removes a task of the key has one task less to visit.
LEMMA SupersedeKeepsKey ==
  ASSUME NbiInv, RequestsExclusive, OneOfKey, stalls = 0,
         NEW cl \in Client, NEW t \in Keyed, Supersede(cl, t)
  PROVE  OneOfKey'
<1>1. /\ RequestNext(cl) /\ "insert" \in req[cl].todo /\ req[cl].at \in {"hold", "insert"}
      /\ t \in req[cl].rest
      /\ Becomes(cl, req[cl].at, req[cl].todo, req[cl].rest \ {t}, req[cl].answer, req[cl].okay)
  BY SupersedeFields DEF RequestNext
<1>2. /\ \A d \in Client : d # cl => req'[d] = req[d]
      /\ \A d \in Client : req'[d].targets = req[d].targets
      /\ \A d \in Client : Started(d) => Started(d)'
  BY <1>1, RequestAlone, RequestStarts DEF Started, SameRequest
<1>3. CASE Keyed \cap tasks = {} /\ UNCHANGED tasks
  BY <1>3 DEF OneOfKey
<1>4. ASSUME NEW u \in Keyed \cap tasks, tasks' = tasks \ {u}
      PROVE  OneOfKey'
  <2>1. Queued \in Nat /\ Queued' = Queued - 1
    <3> DEFINE S == Keyed \cap tasks
    <3>1. Keyed \cap tasks' = S \ {u} /\ u \in S
      BY <1>4
    <3>2. IsFiniteSet(S)
      BY Numbers
    <3> HIDE DEF S
    <3>3. Cardinality(S \ {u}) = Cardinality(S) - 1
      BY <3>1, <3>2, FS_RemoveElement
    <3> QED
      BY <3>1, <3>3, Numbers DEF Queued, S
  <2>2. \A d \in Client : Posted(d) \in Nat /\ Posted(d)' = Posted(d)
    BY <1>2, Numbers DEF Posted, KeyedOf
  <2>3. \E a \in Client : Started(a)' /\ Queued' <= Posted(a)'
    <3>1. PICK a \in Client : Started(a) /\ Queued <= Posted(a)
      BY <1>4 DEF OneOfKey
    <3> QED
      BY <1>2, <2>1, <2>2, <3>1
  <2>4. ASSUME NEW b \in Client, Replacing(b)'
        PROVE  \E a \in Client : Started(a)' /\ Queued' + Posted(b)' <= Posted(a)' + Left(b)'
    <3>1. Replacing(b)
      BY <1>1, <1>2, <2>4 DEF Replacing, Becomes
    <3>2. PICK a \in Client : Started(a) /\ Queued + Posted(b) <= Posted(a) + Left(b)
      BY <1>4, <3>1 DEF OneOfKey
    <3>3. Left(b) \in Nat /\ IsFiniteSet(req[b].rest)
      BY <3>1, Numbers
    <3>4. Left(b)' \in Nat /\ Left(b)' >= Left(b) - 1
      <4>1. CASE b = cl
        <5> DEFINE R == req[cl].rest
        <5>1. req'[cl].rest = R \ {t} /\ t \in R
          BY <1>1 DEF Becomes
        <5>2. IsFiniteSet(R)
          BY <3>3, <4>1
        <5> HIDE DEF R
        <5>3. /\ Cardinality(R \ {t}) = Cardinality(R) - 1
              /\ Cardinality(R \ {t}) \in Nat
          BY <5>1, <5>2, FS_RemoveElement, FS_CardinalityType
        <5> QED
          BY <3>3, <4>1, <5>1, <5>3 DEF Left, R
      <4>2. CASE b # cl
        BY <1>2, <3>3, <4>2 DEF Left
      <4> QED
        BY <4>1, <4>2
    <3>5. Posted(a) \in Nat /\ Posted(b) \in Nat /\ Posted(a)' = Posted(a) /\ Posted(b)' = Posted(b)
      BY <2>2
    <3>6. Queued' + Posted(b)' <= Posted(a)' + Left(b)'
      BY <2>1, <3>2, <3>3, <3>4, <3>5
    <3> QED
      BY <1>2, <3>2, <3>6
  <2> QED
    BY <2>3, <2>4 DEF OneOfKey
<1> QED
  BY <1>3, <1>4 DEF Supersede

\* A request that inserts its tasks has made room for them, if it had the lock.
LEMMA InsertKeepsKey ==
  ASSUME NbiInv, RequestsExclusive, OneOfKey, stalls = 0, NEW cl \in Client, Insert(cl)
  PROVE  Escaped' \/ OneOfKey'
<1>1. /\ RequestNext(cl) /\ "insert" \in req[cl].todo /\ req[cl].at \in {"hold", "insert"}
      /\ req[cl].rest = {} /\ SameRequest(cl) /\ req'[cl].todo = {}
      /\ req'[cl].bare <=> req[cl].at = "insert"
  BY InsertFields DEF RequestNext
<1>2. /\ \A d \in Client : d # cl => req'[d] = req[d]
      /\ \A d \in Client : req'[d].targets = req[d].targets
      /\ \A d \in Client : Started(d) => Started(d)'
  BY <1>1, RequestAlone, RequestStarts DEF Started, SameRequest
<1>3. Started(cl) /\ tasks' = tasks \cup req[cl].targets
  BY <1>1 DEF Started, Insert
<1>4. Keyed \cap tasks' = (Keyed \cap tasks) \cup KeyedOf(cl)
  BY <1>3 DEF KeyedOf
<1>5. \A d \in Client : Posted(d) \in Nat /\ Posted(d)' = Posted(d)
  BY <1>2, Numbers DEF Posted, KeyedOf
<1>6. CASE KeyedOf(cl) = {}
  <2>1. Keyed \cap tasks' = Keyed \cap tasks /\ Queued' = Queued
    BY <1>4, <1>6 DEF Queued
  <2>2. \A d \in Client : Replacing(d)' => Replacing(d) /\ Left(d)' = Left(d)
    BY <1>1, <1>2 DEF Replacing, Left
  <2> QED
    BY <1>2, <1>5, <2>1, <2>2 DEF OneOfKey
<1>7. CASE KeyedOf(cl) # {} /\ req[cl].at = "insert"
  BY <1>1, <1>2, <1>7 DEF Escaped, KeyedOf
<1>8. CASE req[cl].at = "hold"
  <2>1. \A d \in Client : ~ Replacing(d)'
    BY <1>1, <1>2, <1>8 DEF Replacing, RequestsExclusive
  <2>2. Queued' \in Nat /\ Queued' <= Queued + Posted(cl)
    <3> DEFINE S == Keyed \cap tasks
               T == KeyedOf(cl)
    <3>1. IsFiniteSet(S) /\ IsFiniteSet(T)
      BY Numbers
    <3> HIDE DEF S, T
    <3>2. /\ Cardinality(S \cup T) \in Nat
          /\ Cardinality(S \cup T) = Cardinality(S) + Cardinality(T) - Cardinality(S \cap T)
          /\ Cardinality(S \cap T) \in Nat /\ Cardinality(S) \in Nat /\ Cardinality(T) \in Nat
      BY <3>1, FS_Union, FS_Intersection, FS_CardinalityType
    <3>3. Cardinality(S \cup T) <= Cardinality(S) + Cardinality(T)
      BY <3>2
    <3> QED
      BY <1>4, <3>2, <3>3 DEF Queued, Posted, S, T
  <2>3. \E a \in Client : Started(a) /\ Queued' <= Posted(a)
    <3>1. CASE Keyed \cap tasks = {}
      <4>1. Queued' = Posted(cl)
        BY <1>4, <3>1 DEF Queued, Posted
      <4> QED
        BY <1>3, <1>5, <4>1
    <3>2. CASE Keyed \cap tasks # {}
      <4>1. PICK a \in Client : Started(a) /\ Queued + Posted(cl) <= Posted(a) + Left(cl)
        BY <1>1, <1>8, <3>2 DEF OneOfKey, Replacing
      <4>2. Left(cl) = 0
        BY <1>1, FS_EmptySet DEF Left
      <4>3. Queued \in Nat /\ Posted(cl) \in Nat /\ Posted(a) \in Nat
        BY <1>5, Numbers
      <4>4. Queued' <= Posted(a)
        BY <2>2, <4>1, <4>2, <4>3
      <4> QED
        BY <4>1, <4>4
    <3> QED
      BY <3>1, <3>2
  <2> QED
    BY <1>2, <1>5, <2>1, <2>3 DEF OneOfKey
<1> QED
  BY <1>1, <1>6, <1>7, <1>8

\* A request that takes the lock has all its tasks to visit.
LEMMA AcquireKeepsKey ==
  ASSUME NbiInv, TodosSound, RequestsExclusive, OneOfKey, stalls = 0,
         NEW cl \in Client, Acquire(cl)
  PROVE  OneOfKey'
<1>1. /\ RequestNext(cl) /\ req[cl].at = "lock" /\ tasks' = tasks
      /\ Becomes(cl, "hold", req[cl].todo, req[cl].rest, req[cl].answer, req[cl].okay)
  BY MoveFields DEF RequestNext, Acquire, store, At
<1>2. /\ \A d \in Client : d # cl => req'[d] = req[d]
      /\ \A d \in Client : req'[d].targets = req[d].targets
      /\ \A d \in Client : Started(d) => Started(d)'
  BY <1>1, RequestAlone, RequestStarts DEF Started, SameRequest
<1>3. CASE Keyed \cap tasks = {}
  BY <1>1, <1>3 DEF OneOfKey
<1>4. CASE Keyed \cap tasks # {}
  <2>1. Queued \in Nat /\ Queued' = Queued
    BY <1>1, Numbers DEF Queued
  <2>2. \A d \in Client : Posted(d) \in Nat /\ Posted(d)' = Posted(d)
    BY <1>2, Numbers DEF Posted, KeyedOf
  <2>3. PICK a \in Client : Started(a) /\ Queued <= Posted(a)
    BY <1>4 DEF OneOfKey
  <2>4. ASSUME NEW b \in Client, Replacing(b)'
        PROVE  Left(b)' = Posted(b)
    <3>1. b = cl
      BY <1>2, <2>4, ClientAssumption DEF Replacing, RequestsExclusive, Acquire
    <3>2. req[cl].rest = KeyedOf(cl)
      <4>1. /\ req[cl].todo = Writes(req[cl]) /\ "insert" \in req[cl].todo
            /\ req[cl].kind \in Posts => req[cl].rest = KeyedOf(cl)
        BY <1>1, <2>4, <3>1 DEF TodosSound, TodoSound, KeyedOf, Replacing, Becomes
      <4>2. req[cl].kind \in Posts
        BY <4>1, Requests DEF RequestSound, Request, Writes, Kind, Posts
      <4> QED
        BY <4>1, <4>2
    <3> QED
      BY <1>1, <3>1, <3>2 DEF Left, Posted, Becomes
  <2>5. ASSUME NEW b \in Client, Replacing(b)'
        PROVE  Queued' + Posted(b)' <= Posted(a)' + Left(b)'
    BY <2>1, <2>2, <2>3, <2>4, <2>5
  <2> QED
    BY <1>2, <2>1, <2>2, <2>3, <2>5 DEF OneOfKey
<1> QED
  BY <1>3, <1>4

\* A request never leaves more tasks of a key in the queue than one may post.
LEMMA RequestKeepsKey ==
  ASSUME NbiInv, RequestsExclusive, KeyInv, OneOfKey, stalls = 0,
         NEW cl \in Client, RequestNext(cl)
  PROVE  Escaped' \/ OneOfKey'
<1>1. /\ SameRequest(cl) /\ \A d \in Client : d # cl => req'[d] = req[d]
      /\ \A d \in Client : req'[d].targets = req[d].targets
      /\ \A d \in Client : Started(d) => Started(d)'
  BY RequestAlone, RequestStarts DEF Started, SameRequest
<1>2. ASSUME tasks' \subseteq tasks,
             Replacing(cl)' => Replacing(cl) /\ req'[cl].rest = req[cl].rest
      PROVE  OneOfKey'
  BY <1>1, <1>2, KeyShrinks DEF Replacing
<1>3. CASE \E t \in Keyed : Supersede(cl, t)
  BY <1>3, SupersedeKeepsKey
<1>4. CASE Insert(cl)
  BY <1>4, InsertKeepsKey
<1>5. CASE Acquire(cl)
  BY <1>5, AcquireKeepsKey DEF KeyInv
<1>6. CASE InvalidTasks(cl)
  BY <1>2, <1>6, InvalidFields DEF InvalidTasks, vars, Replacing, Becomes
<1>7. CASE DeleteTask(cl) \/ DeleteFault(cl)
  <2>1. tasks' \subseteq tasks
    BY <1>7 DEF DeleteTask, DeleteFault
  <2>2. \E what : Becomes(cl, req[cl].at, req[cl].todo \ {what}, req[cl].rest,
                          req[cl].answer, req[cl].okay)
    BY <1>7, WroteFields DEF DeleteTask, DeleteFault
  <2> QED
    BY <1>2, <2>1, <2>2 DEF Replacing, Becomes
<1>8. CASE ExpireRequestLock(cl)
  BY <1>2, <1>8 DEF ExpireRequestLock, store, Replacing
<1>9. CASE Arrive(cl)
  <2>1. req'[cl].at # "hold"
    BY <1>9, ArriveFields DEF Becomes
  <2> QED
    BY <1>2, <1>9, <2>1 DEF Arrive, vars, Replacing
<1>10. ASSUME tasks' \subseteq tasks, req'[cl].at # "hold"
       PROVE  OneOfKey'
  BY <1>2, <1>10 DEF Replacing
<1>11. ASSUME NEW from, NEW to \in At \ {"hold"}, Move(cl, from, to)
       PROVE  req'[cl].at # "hold"
  BY <1>11, MoveFields DEF Becomes
<1>12. ASSUME NEW from, NEW a \in Answer, Reply(cl, from, a)
       PROVE  req'[cl].at # "hold"
  BY <1>12, ReplyFields DEF Becomes
<1>13. ASSUME NEW from, Abandon(cl, from)
       PROVE  req'[cl].at # "hold"
  BY <1>13, AbandonFields DEF Becomes
<1>14. CASE GiveUp(cl) \/ Unlock(cl)
  BY <1>10, <1>11, <1>12, <1>14 DEF GiveUp, Unlock, Unlocked, vars, store, At, Answer
<1>15. CASE Call(cl) \/ AwaitInform(cl) \/ AwaitStart(cl) \/ AwaitEnd(cl)
  BY <1>10, <1>11, <1>13, <1>15 DEF Call, AwaitInform, AwaitStart, AwaitEnd, vars, At
<1>16. CASE CountFaults(cl)
  BY <1>10, <1>16, CountFields DEF CountFaults, vars, Becomes
<1>17. CASE \E t \in Task : CleanUp(cl, t)
  BY <1>10, <1>17, CleanUpFields DEF CleanUp, Becomes
<1>18. CASE CrashRequest(cl)
  BY <1>10, <1>18, CrashFields DEF CrashRequest, store, Becomes
<1> QED
  BY <1>3, <1>4, <1>5, <1>6, <1>7, <1>8, <1>9, <1>14, <1>15, <1>16, <1>17, <1>18
     DEF RequestNext

\* Every step keeps the key.
LEMMA KeyInvNext ==
  NbiInv /\ RequestsExclusive /\ KeyInv /\ [NbiNext]_nbiVars => KeyInv'
<1> SUFFICES ASSUME NbiInv, RequestsExclusive, KeyInv, [NbiNext]_nbiVars PROVE KeyInv'
  OBVIOUS
<1>1. stalls \in Nat
  BY SessionAssumption DEF NbiInv, SessionInv, SessionTypeOK
<1>2. ASSUME req' = req, tasks' \subseteq tasks, stalls' \in {stalls, stalls + 1}
      PROVE  KeyInv'
  <2>1. TodosSound'
    BY <1>2 DEF KeyInv, TodosSound
  <2>2. CASE Escaped
    BY <1>1, <1>2, <2>1, <2>2 DEF KeyInv, Escaped, KeyedOf
  <2>3. CASE OneOfKey
    BY <1>2, <2>1, <2>3, KeyShrinks DEF KeyInv, Started, Replacing
  <2> QED
    BY <2>2, <2>3 DEF KeyInv
<1>3. CASE UNCHANGED nbiVars
  BY <1>2, <1>3 DEF nbiVars, vars
<1>4. CASE DeviceNext
  <2>1. ASSUME NEW t \in Task, PassExpiry(t)
        PROVE  tasks' \subseteq tasks /\ stalls' = stalls
    BY <2>1 DEF PassExpiry, store, bounds
  <2> QED
    BY <1>2, <1>4, <2>1, SessionFrame DEF DeviceNext, Frame
<1>5. ASSUME NEW cl \in Client, RequestNext(cl)
      PROVE  KeyInv'
  <2>1. TodosSound'
    BY <1>5, TodoStep DEF KeyInv
  <2>2. CASE Escaped
    <3>1. stalls' \in Nat /\ stalls' >= stalls
      BY <1>1, <1>5, RequestStalls
    <3>2. \A d \in Client : req[d].at = "done" => req'[d] = req[d]
      BY <1>5, RequestAlone, DoneStays
    <3> QED
      BY <1>1, <2>1, <2>2, <3>1, <3>2, EscapedStays DEF KeyInv
  <2>3. CASE ~ Escaped
    <3>1. stalls = 0 /\ OneOfKey
      BY <1>1, <2>3 DEF KeyInv, Escaped
    <3> QED
      BY <1>5, <2>1, <3>1, RequestKeepsKey DEF KeyInv
  <2> QED
    BY <2>2, <2>3
<1> QED
  BY <1>3, <1>4, <1>5 DEF NbiNext

\* No more tasks of one uniqueKey are queued than a single request has posted
\* of them, unless some were inserted without the lock or under a lock that
\* expired, for any number of requests and any lists of tasks.
THEOREM KeysUnique == NbiSpec => []UniqueKey
<1>1. NbiInit => KeyInv
  <2>1. NbiInit => TodosSound
    BY DEF NbiInit, TodosSound, TodoSound
  <2>2. NbiInit => OneOfKey
    BY DEF NbiInit, Init, OneOfKey
  <2> QED
    BY <2>1, <2>2 DEF KeyInv
<1>2. KeyInv => UniqueKey
  BY DEF KeyInv, Escaped, OneOfKey, Started, Queued, Posted, UniqueKey
<1>3. NbiSpec => [](NbiInv /\ RequestsExclusive)
  <2>1. NbiSpec => []NbiInv
    BY NbiInvInit, NbiInvNext, PTL DEF NbiSpec
  <2> QED
    BY <2>1, RequestExclusion, PTL
<1> QED
  BY <1>1, <1>2, <1>3, KeyInvNext, PTL DEF NbiSpec
=============================================================================
