# RJChronosConnect: a TLA+ model of its core

The repository manages broadband CPEs over TR-069 (CWMP). The core of the
system is the GenieACS 1.2.13 server that is built from
`services/genieacs/genieacs-v1.2.13`; a FastAPI backend and a React frontend
are clients of its northbound interface (NBI). This directory holds TLA+
modules for the parts of the system where order, concurrency and failure
decide whether it is right, configurations to check them with TLC, and proofs
for TLAPS. Paths below are relative to `services/genieacs/genieacs-v1.2.13`
unless they begin with `services/`.

    tlc -config tasks.cfg MCCwmpSession.tla      one run
    tlapm CwmpSession_proofs.tla                 one module of proofs

`PROJECT.json` lists the runs, the source lines each definition stands for, the
hazards of the code and the properties that cover them, and for every checked
property a mutant: a small plausible bug under which TLC finds the property
violated. The mutants stand in the modules, next to what they change.

## 1. Inventory

| component | state | operations |
|---|---|---|
| CWMP session handler (`lib/cwmp.ts`) | one `SessionContext` per session in memory, `currentSessions`, the session cache while no connection is open | answer an Inform, CPE requests, CPE responses and faults; `nextRpc` (batches, tasks), `applyPresets` (retries, presets), `recordFault`, `writeResponse`, `endSession`, `onConnection` |
| Provisioning engine (`lib/session.ts`) | the batch of provisions, channel masks, declarations, revisions, counters of the session, outstanding downloads | `addProvisions`, `clearProvisions`, `rpcRequest` (commit loop), `rpcResponse`, `rpcFault`, `transferComplete`, `timeoutOperations`, `serialize`, `deserialize` |
| Session store (`lib/cwmp/db.ts`) | collections devices, tasks, faults, operations | read tasks and faults, save the device, clear tasks, save or delete faults and operations |
| Device lock (`lib/lock.ts`) | one document per lock, removed by a TTL index | `acquireLock` (also extends), `releaseLock`, `getToken` |
| NBI (`lib/nbi.ts`, `lib/api-functions.ts`) | none of its own | post, delete and retry tasks, delete faults and devices, edit presets, provisions, files |
| UI API (`lib/ui/api.ts`) | none of its own | post tasks and wait for them, edit resources |
| Configuration cache (`lib/local-cache.ts`, `lib/cache.ts`, `lib/cwmp/local-cache.ts`) | snapshots by revision, current revision, time of the next refresh | refresh, evict, invalidate |
| Versioned device data (`lib/versioned-map.ts`, `lib/device.ts`) | revisions of every parameter in a session | set, delete, collapse, diff |
| Extensions (`lib/extensions.ts`) | child processes and pending jobs | run, time out, kill |
| Cluster (`lib/cluster.ts`, `lib/server.ts`) | workers, recent crashes | fork, respawn, stop |
| Connection requests (`lib/connection-request.ts`, `lib/xmpp-client.ts`) | none | HTTP, UDP and XMPP requests with retries |
| Backend (`services/backend-api/app`) | none; an update under way | read devices, set Wi-Fi parameters one by one, interpret the NBI's answers |
| Frontend (`services/frontend/src`) | query cache, the dialog that is open | show, edit, save and refresh |

How they interact. Workers of several processes share nothing but MongoDB. A
CPE opens a session with an Inform; the handler reads the device, its tasks
and its faults, and then takes the device's lock. From then on the session is
a chain of HTTP requests of the CPE, each answered with the next RPC, until
`endSession` writes what has changed and releases the lock. The NBI and the UI
write tasks and faults under the same lock, release it, ask the CPE to connect
and poll the lock and the device's `_lastInform` to learn when the session
began and ended. Between two requests of a CPE the session stays with its
connection; when that closes, the session is put into a cache, from which the
next connection, maybe of another worker, resumes it, while a timer of the old
connection waits to end it. An operator's Wi-Fi update is one request of the
page to the backend, which posts a task to the NBI for each parameter, one
after the other, and takes 200 and 202 for success.

What makes it hard:

* the session reads before it locks, and writes only at its end;
* the writes of `endSession` run in parallel and are not atomic; a worker can
  die, and a lock expire, between any two steps;
* a batch can hold provisions of several channels, and a fault is blamed on all
  of them; which are retried alone depends on flags kept in memory, and some of
  these are lost when the fault is saved;
* `nextRpc` and `applyPresets` call themselves and each other, with batches left
  over from an earlier pass;
* requests observe a session only through polling;
* what a worker has in memory goes with it: sessions, timers, jobs, snapshots;
* every client gives up earlier than the server it waits for: the page after
  10 s, the backend after 30 s, the NBI after more than 120 s.

What makes each component right:

* sessions: at most one works on a device; no task is lost; no task is removed
  before it was carried through; a fault stays with its channel; every session
  ends; a task that can succeed is served; no fault outlives its task but that
  of a download;
* hand-off: a session is resumed or timed out, not both, ends once and with all
  it has done, and has the lock all along;
* downloads: one outcome for each, and none that is lost;
* the commit loop: scripts that run again read what they have read, nothing set
  is lost in a merge, answers go with their requests, the loop ends;
* provisions: a fault is blamed on the channels that asked for it, and they
  retry all of it;
* requests: they exclude sessions while they write; 200 means executed; a
  deleted task is not executed; a unique key is as unique as the list it is
  posted in;
* cache: a session keeps the revision it started with; an edit reaches every
  worker;
* extensions: every job has exactly one result; no process is forgotten;
* cluster: workers come back one by one, and a crash storm is given up;
* Wi-Fi: what an operator saved last, alone and with complete success, is what
  the device has.

## 2. Plan

The order in which the modules were written, the most important behaviour
first; each builds on, or is independent of, those before it.

1. `SessionContext`, `CwmpSession`: the sessions of a device over the collections
   they share. Abstract specification: `TaskQueue`, one worker at a time on an
   at-least-once queue; `SessionQueue` is the refinement.
2. `NbiRequests`: composes the requests of NBI and UI with `CwmpSession`.
3. `SessionHandoff`: one session over several connections, under a clock; it
   justifies that a session keeps its lock between requests, which
   `CwmpSession` takes as a choice (`Stall`).
4. `Downloads`: what outlasts a session.
5. `VersionedMap` and, on top of it, `CommitLoop`; `Provisions`: what one
   session does within a batch.
6. `LocalCache`, `Extensions`, `Cluster`: the workers around the sessions.
7. `WifiUpdate`: from the page of an operator through the backend to the
   device.

The proofs followed the checks in the same order, from the sessions to the Wi-Fi
page.

What is left, and could be added: the deletion of a device beside a session;
connection requests with their retries; a proof of the agreement of
`VersionedMap` with a map from keys to lists of values; a fairness for
`WifiUpdate` and the claim that every update is settled.

## 3. The modules

### SessionContext

The context of a session and the functions that change nothing else. A channel
is a task or a preset channel. `chan` holds the keys of
`sessionContext.channels` and `work` those with a bit in their mask: a probed
channel is in `chan` only, which is how `recordFault` tells a precondition
fault. `provs` says whether there are provisions, `active` for which channels
the commit loop still works. `faulty`, `due`, `pre`, `timed` and `retried` are
the faults with what matters of them: whether they may be retried now, their
precondition flag, their expiry, their retry count. `done`, `touched` and the
three `to...` fields are what is left to write or to read.

`ops` are the downloads that have begun, each with its command key (`Key`) and
the channels and retries of the batch it began in; `opsTouched` are the keys the
session has to write at its end. `OperationFault` is the fault of a download: the
batch is long over, so its channels are blamed for the operation's provisions,
and what is in the session's own batch is cleared.

`RecordFault`, `CompleteBatch`, `DropExpired`, `StartTask`, `EndSession`,
`LoadBatch` and `ClearProvisions` follow the functions of the same purpose in
`cwmp.ts` and `session.ts`.

### CwmpSession

The sessions of one device over `tasks`, `faults` (with `timed`, those that
have an expiry), `operations` and `lock`. `pc` says between which two awaits a session is:

| `pc` | in the code |
|---|---|
| `idle` | no session |
| `reading` | `listenerAsync` is reading, or waits for credentials or the lock |
| `locked` | state 1: the Inform is answered |
| `empty` | the empty request is there, timed out operations are looked for |
| `next` | in `nextRpc` |
| `presets` | in `applyPresets` |
| `wait` | state 2, an RPC is with the CPE |
| `saving` | in `endSession` |
| `lost` | the worker is gone, the lock document may still be there |

One action per step between awaits; `ReadTasks`, `ReadFaults` and
`ReadOperations` are separate reads, `SaveDevice`, `ClearTasks`, `SaveFault` and
`SaveOperation` separate writes. `Respond` is
`writeResponse` with its extension of the lock, `Close` is its last use in a
session. `ran`, `created` and `expired` record history for the properties.

A download begins when its RPC is answered (`BeginDownload`), and the task that
asked for it is then done. How it ends a later session learns, or the same one:
by the CPE's report (`TransferComplete`), or because its time is over when the
empty request comes (`TimeoutOperation`). Either may fault, and the fault is then
that of a task that is no longer queued; `failed` records these. What becomes
of a single download, with the options and a second session beside it, is in
`Downloads`.

Left open, as free choices: which presets match and which of them change the
device, which faults have waited out their backoff, whether a batch needs
another RPC, whether an RPC faults. `bad` fixes, for a behaviour, the channels
whose provisions may fault, for whatever reason; the CPE answers the others
properly.

### TaskQueue, SessionQueue

`TaskQueue` is what sessions promise: one worker at a time on an at-least-once
queue. `SessionQueue` maps `CwmpSession` to it: the queue is the tasks
collection, executed are the tasks in `ran`, at work is a session from its lock
to its last write.

### NbiRequests

Requests next to the sessions, one per member of `Client`, of the kinds queue
(POST without connection request), execute (with), ui (a list of tasks), delete,
retry and forget (DELETE of a fault). A request takes the lock, writes step by
step, unlocks, and for a post with a connection request polls `_lastInform` and the
lock. `newer` tells for which requests a session has saved `_lastInform` since
they read it. A request can be lost in a crash, and its lock can expire.

`insertTasks` walks over the list: for each task with a uniqueKey it removes one
queued task of that key (`Supersede`), and a task it cannot make sense of ends it
(`InvalidTasks`); then all are inserted at once (`Insert`). Two tasks of one list
may therefore have the same key and both be queued. `bare` records that a
request inserted without the lock, because it takes none or could not get it.
`okay` are the tasks a request reports as done: all of a 200, or those of its
list for which the UI finds no fault; the UI then deletes its tasks one by
one, without the lock (`CleanUp`).

### SessionHandoff

One session and its connections, with ages instead of dates. A connection has
the session in `currentSessions` (`idle`), is receiving or handling a request
(`receiving`, `working`), or handles one that has yet to authenticate
(`resumed`, `challenged`, ...). When it closes, the context is stored
(`storing`) and the connection becomes a timer (`timing`), which reads the
cache and ends the session if what it finds is what it stored (`checking`).
`copy` is the context in the memory of each connection, by the number of the
response after which it was last active, `cached` the document in the cache.
`LockTtl` and `CacheLife` are the expressions that set the times to live.
`Tick` lets time pass; a handler that has something to do does it before the
time a request may take is over.

`late` marks a session that was resumed past its timeout: `cache.get` returns a
document the TTL index has not removed yet, `listenerAsync` does not look at
its age, and the session goes on beside its timer, maybe without the lock.
`dropped` marks a connection that closed between the answer 401 and the
retry: `onConnection` does not find such a session, and it never ends.

### Downloads

The downloads of a device over several sessions: `stored` is the operations
collection, `done` and `failed` what the device and the faults collection keep,
`cpe` what the CPE makes of each download, `overdue` those whose timeout has
passed. A session reads the operations (`ReadOperations`) before it tries the
lock, finds those that timed out, takes the reports of the CPE, and writes at
its end device, operations and faults one by one, in any order.

`blind` marks a session that began with operations another one changed between
its read and its lock: a report is then answered with a fault ("unknown command
key") or a download that was successful times out as well.

### VersionedMap, CommitLoop

`VersionedMap` has, for one key, the list of its values by revision: get, set,
collapse, and what serialization leaves. `CommitLoop` is `rpcRequest`: a stack
of revisions, one for the script of the batch and one more for each level of
virtual parameters; scripts that run again from their start; processing of
declarations, local changes, chains of RPCs; and the limits on RPCs, cycles,
iterations and depth with what each returns. `HandOff` stores the session and
restores it. What a script declares is a free choice.

`applyPresets` may call `rpcRequest` once more on the batch it has finished
(`Restart`): `revisions` is empty then, its last element is `undefined`, and the
comparisons with it are all false, so that scripts do not stop at a commit
(`Stops`). `Undefined` stands for it, and `missing` says that the list is
one shorter than the stack. A hand-off stores it as null, which counts as 0
(`RestoredRevs`).

`short` marks data whose merge `collapse` refused because the map of revision
sizes was cut off by a hand-off.

### Provisions

The list of provisions of a batch with a mask of `Width` bits for each channel,
integers as the language shifts them, and the provisions that `recordFault`
keeps for a channel and `appendProvisions` adds to. `asked` and `owed` record
what should come out; `Done` are the channels whose faults go when a batch
succeeds, those with a bit in their mask. At exactly `Width` provisions, 32 in the code, moving one
copies the sign bit: the channel of the last provision is blamed for others;
`BlameRight` therefore stops one short of it.

### LocalCache

Workers that refresh their snapshot (`refresh`: hash, lock, hash again, reads of
the collections, write of the hash, release, each a step), edits that write a
collection and then delete the hash, the hash that expires, evictions, failures
at every await. `ago` is how long ago a revision was the current one on a
worker. A worker that is not `Catching` restarts when a refresh throws, as an
unhandled rejection ends it; one that catches it (the UI) is `stuck`: `nextRefresh`
stays 0 and nobody refreshes again.

### Extensions

The jobs of one script: `run` starts or reuses the process, `inbox` and `outbox`
are the messages on their way, `armed` the timers. A process can fail to be
spawned, die, be killed, and its channel closes at some time after.

### Cluster

`restartWorker`: crashes by age in three intervals, the pause between forks,
the exit of the primary.

### WifiUpdate

Pages of operators and the updates they send for one device. `shown` is what the
page has loaded, `dialog` what it is editing, and each member of `puts` one run
of `update_device_wifi_config` with the parameters it has yet to set. `TasksOf`
and `Extract` are the conversions of `genieacs_transformers.py` in both
directions: what can be set and what is read back. `Post` is one call of
`set_parameter`: the task is queued, or the call fails for the backend, by an error
or after 30 s. In the second case the NBI still has the task (`held`): it waits
for the lock of the device for 30 s, not counting the time the database takes,
and inserts the task then, after later calls and later updates (`PostLate`), or
never does. `Execute` and `Refuse` stand for the sessions, which carry out tasks
in their order and retry those that fault later; a session that read the
queue before a task was removed from it, or one that follows a crash, carries it
out again, at any time (`ExecuteAgain`, from the history `applied`). `alone` tells
for an update whether any task of an earlier one came out of its turn in
one of these ways since it was sent (`Intruded`). Enabled and power are left out,
they are handled as the SSID is.

What the model makes visible: the dialog's band is not a parameter and the page
always asks for the 2.4 GHz configuration, so saving another band alone is
an error and together with other changes has no effect; WPA3 is read back as
WPA2; the answer closes whichever dialog is open by then.

### MCWorkers, MCParts

`MCWorkers` holds `SessionHandoff` and `LocalCache`, `MCParts` holds `CommitLoop`,
`Provisions`, `Downloads`, `Extensions`, `Cluster` and `WifiUpdate`. These do not
interact in what is checked, so one run explores them side by side: the
variable `part`, chosen in the initial state, says which machine a behaviour is
of, and the others stand still. The modules are extended, not instances, so that
what is checked is the formula that is proved.

### Proofs

`CwmpSession_proofs` (with the lemmas about `SessionContext`),
`CwmpTasks_proofs` (faults, and the refinement of `SessionQueue`),
`NbiRequests_proofs`, `NbiAnswers_proofs`, `Workers_proofs` (`SessionHandoff`,
`LocalCache`), `CommitLoop_proofs`, `Provisions_proofs` and `Parts_proofs`
(`Downloads`, `Extensions`, `Cluster`, `WifiUpdate`); see section 6.

## 4. The runs

| run | instance | shows |
|---|---|---|
| `sessions` | 2 sessions, 2 tasks (one expires, one is invalid), 1 crash, 1 stall | `LockHeld`, `LockKept`, `NoTaskLost`, `ImplementsTaskQueue` |
| `tasks` | 1 session at a time, 2 tasks (one expires, one starts a download), 1 probing preset, 1 command key, 1 drop | `TypeOK`, `NoTaskLost`, `NoOrphanFault`, `DoneHasNoFault`, `TaskIsolation` |
| `live` | 1 session at a time, 2 tasks (one with an empty list), 1 probing preset, fairness | `SessionEnds`, `GoodTaskServed` |
| `requests` | 2 requests of any kind on a task, 1 session, 1 crash, 1 stall | `NbiTypeOK`, `RequestsExclusive`, `NoPostedTaskLost`, `OkMeansExecuted`, `LocksKept` |
| `posts` | 2 posts of 1 or 2 out of 3 tasks with one uniqueKey, 1 session | `UniqueKey` |
| `workers` | hand-off: 3 connections, timeout 2, lock refresh 1, request timeout 1, 2 responses, 1 crash; cache: 2 workers (one that catches), 1 collection, eviction 1, 2 edits, 1 failure; fairness | `OneHolder`, `EndsLatest`, `LockOutlives`, `SessionIsOver`; `SnapshotKept`, `StaleOnlyAfterRace`, `CacheIsFresh` |
| `parts` | loop: 1 key, 1 value, limits 2 (RPCs), 3 (depth), 2 (cycles), 3 (commits); provisions: 2 channels, 4 provisions, width 4, 6 lists, 4 calls; 1 download, 2 sessions, both options, 1 crash; 2 jobs, 2 processes; 2 workers, minute of 3 units, limit 1; Wi-Fi: 1 page, 2 updates, 1 failing call, the channel free or fixed, 2 securities; fairness | `RepeatableReads`, `LatestKept`, `AnswersMatch`, `BatchEnds`; `BlameRight`, `FaultKeepsProvisions`; `OneOutcome`, `NoResultLost`; `OneResult`, `NoneForgotten`, `EveryJobEnds`; `OneByOne`, `StormEnds`; `LastSaveWins` |
| `isolation` | 1 task, 2 probing presets | `FaultIsolation` is violated |
| `preset_loop` | 1 task, 1 probing preset | `FaultHasChannel` is violated |
| `discarded` | 2 tasks, one expires | `OnlyExpiredDiscarded` is violated |
| `deleted` | a post, a deletion, 1 session | `DeletedTaskNotExecuted` is violated |
| `silent_download` | 1 download, 2 sessions, the option on | `SilentSucceeds` is violated |

The bounds. `MaxCycles` stands for `MAX_CYCLES` (4 in the code) and `MaxRpcs`
for the 255 RPCs of a batch; with 1 a session already goes through a whole
cycle, a loop, and an RPC between any two decisions. `MaxCrashes`, `MaxDrops`
and `MaxStalls` bound what can go wrong in a behaviour; one of each suffices
for every step at which it can strike, because sessions are reused and a
behaviour continues after it. `tasks` has no crash: `NoOrphanFault` excepts crashes,
and `NoTaskLost` is checked with one, and with overlapping sessions, in
`sessions`. One command key is enough there, because a key is free again once its
operation has been written. `live` and the runs with requests have no
downloads, which keeps their state graphs small. A task id is used once. Two sessions are the
least that can overlap; two requests the least that can disturb each other.
Sessions and requests are interchangeable, hence the symmetry sets in the runs
that check no liveness.

The clock of `SessionHandoff` counts units: with a timeout of 2 every age is
told apart from the boundary before and after it, and three connections are one
that lost the session, one that resumed it and one that comes too late or lost
it again; it also passes with three responses. Two edits of a collection with
two versions are a change and its reversal; two collections pass, too. In the
commit loop every limit is reached before the others in some behaviour.
With the width of a mask reduced to 4, four provisions reach and five
calls pass its boundary. Two Wi-Fi
updates are the least of which one can come after the other, and the
configurations differ in one setting that takes one or two parameters (the channel)
and in one that takes one (WPA, WEP), so that updates with the same and with
different parameters meet.

Deadlocks are checked in the runs on sessions and requests: the CPE can always
inform again. The runs `workers`, `parts` and `silent_download` do not check them
because their systems stop: the session is over, all jobs are done, the primary
has exited, or the bound on updates or calls is reached.

### What the properties except

Several properties name situations in which the code does not keep them. These
are hazards of the code in their own right, listed in `PROJECT.json` without a
property, or with one that shows the violation.

* `LockHeld`, `RequestsExclusive`: a lock that expires under its holder.
* `ImplementsTaskQueue`: the queue it implements executes a task again when a
  session has read it before it was removed. That a stale task is executed
  is thus allowed, and shown by `DeletedTaskNotExecuted`.
* `NoOrphanFault`: the faults of downloads that failed or timed out after their
  tasks were done; a crash between the two writes; two sessions.
* `TaskIsolation`: an unfinished session, and the fault of a download that
  began in a batch with the task.
* `UniqueKey`: the tasks of one list; a post without the lock, or whose lock
  expired.
* `OkMeansExecuted`: a session that had read the queue before the task was
  inserted and was not yet locked (`raced`); another request on the same task or
  key; crashes, drops, expired locks; and presets altogether, since a preset loop
  ends a session that has not come to the task.
* `OneHolder`, `EndsLatest`, `LockOutlives`: a session resumed past its timeout
  (`late`).
* `CacheIsFresh`: a worker that is `stuck`.
* `LatestKept`: data whose merge was given up after a hand-off (`short`).
* `OneOutcome`, `NoResultLost`: sessions that are `blind`, and crashes.
* `BlameRight`: a batch of `Width` provisions or more.
* `LastSaveWins`: an update whose answer was not a complete success (`count` below
  `total`), and one that does not have the device for itself: one sent before it
  was still under way, or had a task that was refused, queued late or carried
  out again.

### What the violated properties show

* `isolation`. `recordFault` blames every channel of a batch. A channel is
  retried alone at once only if it had no fault yet; if it was retried earlier,
  or what is left of its retry is still in the batch while another channel is
  probed, it keeps the other's fault. The changelog promises that a fault in one
  channel blocks only the presets in that channel.
* `preset_loop`. `applyPresets` counts the cycle after it has built the batch. If
  the limit is passed in a cycle in which nothing matches, `recordFault` finds no
  channel and throws, although it asserts that this cannot be; the error is not
  caught and the worker stops. The tasks the session has done stay queued.
* `discarded`. A new session drops the faults whose expiry is in the future and
  keeps the others, contrary to the comment in the loop.
* `deleted`. A session reads the tasks, a deletion takes and releases the lock
  and is answered 200, the session takes the lock and executes the task.
* `silent_download`. With `cwmp.downloadSuccessOnTimeout` a download that timed
  out is to count as successful; the session that finds it throws instead,
  because the absence of a fault in the report it makes up is taken for a fault.

## 5. Fairness

`live` assumes that the handler goes on, that the CPE answers or its silence
times out (`socket.setTimeout`, `onConnection`), that MongoDB removes expired
locks, that CPEs keep informing (periodic inform), each as weak fairness. One
assumption is strong: a session that begins again and again sometimes finds
that every backoff has run out (`ReadFaultsLate`). The backoff doubles with
every retry of the fault of a channel and is finite, so with informs that never
stop this holds for each fault; that it holds for all of them at once is a
simplification. Crashes and dropped connections are bounded, so that after some
time sessions run undisturbed.

`GoodTaskServed` makes two exceptions, and both are needed: TLC shows that a task
can be carried through in every session and never leave the queue. A worker that
stops in a preset loop never clears the tasks it has done; and the probes of a
faulting preset take the leftover provisions of a retried task with them.

`SessionIsOver`: time passes (`Tick`) and each handler, timer and closing socket
that has a step of its own takes it (`Serve`); nothing is assumed of the CPE.
`CacheIsFresh`: a worker is used, so that it refreshes when it is due and goes
on while it does (`Work`); an edit that was written deletes the hash
(`Invalidate`: the next statement); the hash expires (`ExpireHash`: the TTL
index). `BatchEnds`: the loop goes on (`Pass`) and an RPC is answered (`Answer`);
a CPE that falls silent is timed out, as in `live`. `EveryJobEnds`: timers
fire and what they lead to is carried through (`Served`); nothing is assumed of
the process. `StormEnds`: time passes, and in a storm every worker that runs dies
before it does.

## 6. The proofs

For any values of the constants that satisfy the assumptions on them
(`TaskAssumption`, `BoundAssumption`, `SessionAssumption`, `ClientAssumption`, which
TLC checks in the runs on sessions and requests, and the premises
`TimeAssumption`, `CacheAssumption`, `LimitAssumption`, `ProvisionsAssumption`,
`DownloadsAssumption`, `SpawnAssumption`, `ClusterAssumption` and `WifiAssumption`
of the theorems, which it checks for the constants of the runs). That a session may run at least one cycle of presets (`MaxCycles` is
4 in the code) is part of `BoundAssumption`; the proof of `AnswersTrue` needs it,
for with none every session that comes to its presets would be cut short.

Sessions.

* `SessionTyping`, `Typing`: the type invariants.
* `TasksSafe`: `NoTaskLost`. The invariant alone is not inductive: `endSession`
  removes the tasks in `done`, which the session collected long before. It is
  strengthened by `Sound`, for every context: what is done was carried through,
  had expired when the session began, or is invalid; and what the context takes
  for expired has expired. Expired locks and overlapping sessions do no harm
  because the three histories only grow.
* `Exclusion`: `LockHeld`. A session at work holds the lock, unless one was
  stalled. Two facts carry it: a step that takes the lock requires it to be free
  or the session's own, and the expiry of a lost session's lock leaves others
  alone.
* `LockStays`: `LockKept`, an action property. Only the end of a session, the
  expiry of a lost session's lock and a stall remove a lock; every other step
  leaves it alone or takes it for a session that may have it (`Steady`).
* `DoneIsClean`: `DoneHasNoFault`. The strengthening (`Clean`) is about leftover
  batches: `nextRpc` deletes the faults of the channels in `work` only, so the
  other tasks of a batch must have none, and a done task must not come back into
  a batch, neither from the tasks nor as a retried channel.
* `TasksIsolated`: `TaskIsolation`, an action property. A fault is blamed on the whole
  batch, so a task that has none yet must be alone in its batch whenever a fault
  can be recorded. `IsoInv`: whatever is faulty is noted as retried; the commit
  loop works for a task that was not for that task only; and the batches that
  `applyPresets` builds hold only tasks that have faulted before. The fault of a
  download is the property's exception; its retries are those noted when the
  download began.
* `Refinement`: `ImplementsTaskQueue`. Every step of a session is classified by
  what it does to the queue (`Effect`): it passes, carries tasks through, begins
  or clears. `LockHeld` makes the session at work the only one; `TaskQueue`
  executes only tasks that were queued, hence the further invariant `RefsInv`:
  tasks, faults and batches of a context never refer to a task that was not.
* `NoOrphan`: `NoOrphanFault`. A session that ends writes the faults it has touched
  and removes the tasks it has done, in any order. The invariant (`OrphanInv`) has
  what it knows agree with the collections it writes to: every task in its
  context is queued, or is one whose download failed after it was done (`Known`),
  and a fault document it will not touch is one of a channel it holds to be faulty
  (`Accounts`). The fault of a download comes into the context together with its
  task into `failed`, whatever the batch at hand.

`CwmpSession_proofs` begins with a lemma for each function of `SessionContext`:
that it returns a context, and what it does to the done tasks; the invariants are proved
from these lemmas without opening the functions. A step of the session is a
step `Go` of one session with a sound context (`GoStep`, `LocalStep`,
`RespondStep`, `CloseStep`), and each action is reduced to one of these. None of
the lemmas on a session's step assumes anything of who else writes the queue or
holds the lock (`QueueKept`, `LockHeld`, `Steady`), which is what lets them
serve a second time:

Requests beside sessions (`NbiRequests_proofs`).

* `NbiTyping`: `NbiTypeOK`.
* `PostedTasksSafe`: `NoPostedTaskLost`. A session's step removes only tasks it
  may remove, by the lemmas above; a request's removes what its kind removes.
  The invariant needs that the writes a request has left are among those of
  its kind, and that only a request of the UI cleans up after itself.
* `RequestExclusion`: `RequestsExclusive`. Steps are classified by what they do
  to the lock: they leave it, take it when it is free, free their own, or stall.
* `LocksStay`: `LocksKept`, from the same classification.
* `KeysUnique`: `UniqueKey`. A request under the lock removes one task for each
  keyed one of its own, then inserts its own. `KeyInv` counts (`OneOfKey`): as
  long as a request is between the two (`Replacing`), the tasks of the key that
  are queued, less those it has still to remove, are no more than what some
  single request has posted, less what it has itself to post. So none is left
  when it inserts, unless a list was longer than its own, and then no more of
  both together than of that list; unless a lock expired or a keyed task was
  queued without one (`Escaped`).
* `AnswersTrue`: `OkMeansExecuted` (`NbiAnswers_proofs`). The property speaks of a
  request at its end; `AnswerInv` follows each of its tasks from the insertion on
  (`Waiting`, `Watched`) to the report (`Reported`). The task stays queued until it
  is carried through; a session that knows of it either has no fault for it or is
  to save one, and one that comes to its end has a fault (`Carrying`); and once the
  request has seen a session begin, the fault is saved or a session is at work.
  So the request that finds no fault after the session's end concludes rightly, and
  the UI deletes a task only after its report. That no other request and no lost
  session comes in between are the property's exceptions.

The hand-off (`Workers_proofs`): `HandoffTyping`, and `OnePlace`
(`OneHolder`), `EndsOnce` (`EndsLatest`), `LockLongEnough` (`LockOutlives`) from one
inductive invariant. Its conjuncts: at most one connection owns the session;
while the owner is a timer the stored copy is its own or already too old; of
several timers only that of the latest response can match what is stored; the
lock was extended at most `LockRefresh` before the copy was made; and a session
has ended at most once, after which nobody has it. Nothing is proved of a
session that was resumed `late`.

The configuration (`Workers_proofs`): `CacheTyping`; `SnapshotsStay`
(`SnapshotKept`), because each worker's timers agree with the history of what was
current when: a snapshot that is no longer current has a timer that was set when
it ceased to be, and only that timer evicts it (`KeptBy`); `HashHonest`
(`StaleOnlyAfterRace`), because a worker between its read and its write has the
configuration as it is, unless an edit came in between, which is then noted
(`Honest`).

The commit loop (`CommitLoop_proofs`): `CommitLoopTyping`, whose invariant (`Sound`)
keeps the stacks of revisions, declarations and scripts in step, also where the
last revision is undefined, and adds that where scripts have run the cursor is at
the revision after the last commit. A hand-off leaves the revisions that count
unchanged (`RestoredStack`). What
`set`, `collapse` and a hand-off do to one key is said once, for revision lists of
any length (`PutKeeps`, `CollapseKeeps`, `RestoredKeeps`), and every step is one of
these on every key (`DataStep`).

* `ReadsRepeat`: `RepeatableReads`, an action property: a write is after, and a
  merge not before, the revisions that are on the stack both before and after.
* `LatestStays`: `LatestKept`. A `set` of a revision that is too old is silently
  dropped, so the invariant (`Fit`) must exclude it: no key has a revision beyond
  the one scripts write at. `Return` lowers that one and merges first; where the
  merge gives up on data that reaches beyond it, `short` records it.
* `AnswersAreTold`: `AnswersMatch`. `Counted`: a cycle that is not the last is
  needed to run declarations, so that the cycles never outgrow their digits;
  `Answers`: the ids in use are of earlier cycles, or of RPCs already counted.

Provisions (`Provisions_proofs`): `ProvisionsTyping`; `BlamedRightly` (`BlameRight`) and
`FaultsKeep` (`FaultKeepsProvisions`), for lists of any length and masks of any
width. `Masked`: the batch has no provision twice, and as long as it has fewer
provisions than the mask has bits, the mask of each channel is the set of the
positions of those it asked for, also after a provision was moved to the end. An
operation is a recursion over a list of provisions; that such a recursion has a
result at each step (`Steps`), and that what holds at the first and passes on
holds at the last (`Induction`), is proved once, over sets of numbers, from the
well-foundedness of the naturals (`NatLessThanWellFounded`).

Downloads (`Parts_proofs`): `DownloadsTyping`, `OutcomeOnce` (`OneOutcome`),
`ResultsKept` (`NoResultLost`). The invariant (`Account`) says that a session that
may write has the lock, that the operations it holds agree with the database
but for what it still has to write, and that the outcomes settled so far are
those the database and the sessions have between them.

Extensions (`Parts_proofs`): `ExtensionsTyping`; `ResultOnce` (`OneResult`),
because a job is pending, or told, or resolved, and in one of these only;
`ProcessesKnown` (`NoneForgotten`).

The primary process (`Parts_proofs`): `ClusterTyping`; `ForkedOneByOne`
(`OneByOne`). The waits of the workers that are down are a bijection onto the turns
from 1 to their number (`Turns`), which passing time shifts by one.

Wi-Fi settings (`Parts_proofs`): `WifiTyping`; `SaveWins` (`LastSaveWins`), for any pages
and configurations. The tasks an update asks for (`Asked`) set each parameter once, and
together they set what was changed. While the last update has the device for
itself (`HasDevice`), its tasks come last in the queue, none is faulty while
earlier ones remain, and each is still to be queued, queued, or carried out for
good (`Underway`); what was not changed stays as the dialog showed it, if that
was the device. What is held back by the NBI or carried out again is one of the
tasks of its own update (`UpdatesInv`): if that is the last one, it sets a parameter
to what was wanted anyhow, and if it is an earlier one, the last update has
the device no longer for itself. `WifiAssumption` restricts the configurations to
what the dialog offers: a security of its menu, hidden or not.

Model-checked only:

* All liveness (`SessionEnds`, `GoodTaskServed`, `SessionIsOver`, `CacheIsFresh`,
  `BatchEnds`, `EveryJobEnds`, `StormEnds`), which is beyond the prover. The safety
  properties of the passing runs are all proved.

## 7. Not modelled, and why

* Time in `CwmpSession`. Which lock expires under a live session is a free
  choice (`Stall`, bounded); what the timeouts allow is in `SessionHandoff`.
* The deletion of a device, which in the code takes no part in the exclusion of
  sessions; tags, files and other edits of the NBI, each one write.
* The content of provisions, parameters and messages: the properties only ask
  whether there is something to do and whether it faults. Preset provision lists
  are taken to be non-empty, `cwmp.retryDelay` to be positive, and a retried
  precondition fault to have something to run. The device tree, its paths and
  what a declaration makes of them are therefore left open, too; this is most
  of `session.ts`.
* Connection requests: sequential clients of HTTP, UDP and XMPP. Their only
  effect on what is modelled is whether a session begins, which is a choice.
* SOAP, XML, expressions, the sandbox, authentication, the file server and
  logging: conversions and input/output. Authentication is reduced to its
  outcome.
* The UI of GenieACS and the other pages of the frontend, which show what they
  fetch, and make up most of the lines of the repository's own code; the
  real-time part of the frontend, for which the backend has no endpoint; the
  reading endpoints of the backend, and those that refresh, which queue one task
  each and keep nothing.
* Limits that no small instance reaches in a way of its own: the revisions of a
  key beyond the 31st, which are serialized in the bits of an integer; the
  number of sessions a worker accepts at once.
