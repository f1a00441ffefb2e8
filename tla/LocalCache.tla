----------------------------- MODULE LocalCache -----------------------------
(***************************************************************************)
(* The cache of the configuration that every worker keeps                  *)
(* (local-cache.ts), the hash by which the workers share what they know    *)
(* (cache.ts) and the edits that invalidate it (nbi.ts, api-functions.ts,  *)
(* ui/api.ts).                                                             *)
(*                                                                         *)
(* A revision stands for the content it is the hash of: the version of     *)
(* each collection.  A session keeps the revision it started with.         *)
(***************************************************************************)
EXTENDS Naturals, FiniteSets

CONSTANTS
  Worker,
  Catching,    \* workers that survive a failed refresh (the UI's, in koa)
  Collection,  \* collections a snapshot is made of
  None,        \* no revision, no document
  Evict,       \* EVICT_TIMEOUT
  MaxEdits,    \* bound on the edits
  MaxFails     \* bound on the failures of a refresh and the restarts

CacheAssumption ==
  /\ Catching \subseteq Worker
  /\ None \notin Worker \cup {0, 1}
  /\ Evict \in Nat \ {0}
  /\ MaxEdits \in Nat /\ MaxFails \in Nat

\* Two versions: an edit and the edit that takes it back.
Revision == [Collection -> {0, 1}]

VARIABLES
  config,    \* the collections
  editing,   \* an edit is written and the hash not yet deleted
  hash,      \* the cache document, or None
  cacheLock, \* the lock of the cache document
  refreshPc, \* where each worker's refresh is
  cur,       \* currentRevision
  snaps,     \* keys of snapshots
  timers,    \* evictions to come; valid: the snapshot is the one to evict
  seen,      \* dbHash
  got,       \* what fetch... returned so far
  locked,    \* lockToken is set
  ago,       \* history: time since a revision was the current one, up to Evict
  raced,     \* history: an edit met a refresh that had read the old content
  edits, fails

refresh == <<refreshPc, cur, snaps, timers, seen, got, locked>>
cacheVars == <<config, editing, hash, cacheLock, refresh, ago, raced, edits, fails>>

Partial == [Collection -> {0, 1, None}]
NothingRead == [k \in Collection |-> None]

LongAgo == [r \in Revision |-> Evict]

Eviction == [rev : Revision, left : 1 .. Evict, valid : BOOLEAN]

CacheTypeOK ==
  /\ config \in Revision
  /\ editing \in BOOLEAN
  /\ hash \in Revision \cup {None}
  /\ cacheLock \in Worker \cup {None}
  /\ refreshPc \in [Worker -> {"idle", "locking", "reading", "storing",
                               "releasing", "stuck"}]
  /\ cur \in [Worker -> Revision \cup {None}]
  /\ snaps \in [Worker -> SUBSET Revision]
  /\ timers \in [Worker -> SUBSET Eviction]
  /\ seen \in [Worker -> Revision \cup {None}]
  /\ got \in [Worker -> Partial]
  /\ locked \in [Worker -> BOOLEAN]
  /\ ago \in [Worker -> [Revision -> 0 .. Evict]]
  /\ raced \in BOOLEAN
  /\ edits \in 0 .. MaxEdits
  /\ fails \in 0 .. MaxFails

CacheInit ==
  /\ config = [k \in Collection |-> 0]
  /\ editing = FALSE
  /\ hash = None /\ cacheLock = None
  /\ refreshPc = [w \in Worker |-> "idle"]
  /\ cur = [w \in Worker |-> None]
  /\ snaps = [w \in Worker |-> {}]
  /\ timers = [w \in Worker |-> {}]
  /\ seen = [w \in Worker |-> None]
  /\ got = [w \in Worker |-> NothingRead]
  /\ locked = [w \in Worker |-> FALSE]
  /\ ago = [w \in Worker |-> LongAgo]
  /\ raced = FALSE
  /\ edits = 0 /\ fails = 0

Advance(w, from, to) == refreshPc[w] = from /\ refreshPc' = [refreshPc EXCEPT ![w] = to]

(***************************************************************************)
(* The refresh of one worker; nextRefresh = 0 keeps others out.            *)
(***************************************************************************)
\* getRevision finds nextRefresh in the past, and cache.get answers.
GetHash(w) ==
  /\ Advance(w, "idle", IF hash # None /\ hash = cur[w] THEN "idle" ELSE "locking")
  /\ seen' = [seen EXCEPT ![w] = IF hash = cur[w] THEN None ELSE hash]
  /\ UNCHANGED <<config, editing, hash, cacheLock, cur, snaps, timers, got, locked,
                 ago, raced, edits, fails>>

\* acquireLock with timeout 0: the refresh goes on without it.
TryLock(w) ==
  /\ Advance(w, "locking", "reading")
  /\ locked' = [locked EXCEPT ![w] = (cacheLock = None)]
  /\ cacheLock' = IF cacheLock = None THEN w ELSE cacheLock
  /\ seen' = [seen EXCEPT ![w] = IF cacheLock = None THEN @ ELSE None]
  /\ UNCHANGED <<config, editing, hash, cur, snaps, timers, got, ago, raced,
                 edits, fails>>

\* One of fetchPresets, fetchProvisions...
Fetch(w, k) ==
  /\ refreshPc[w] = "reading" /\ got[w][k] = None
  /\ got' = [got EXCEPT ![w][k] = config[k]]
  /\ UNCHANGED <<config, editing, hash, cacheLock, refreshPc, cur, snaps, timers, seen,
                 locked, ago, raced, edits, fails>>

\* The timer of the snapshot that is replaced.
NewTimer(w) ==
  IF cur[w] = None THEN {} ELSE {[rev |-> cur[w], left |-> Evict, valid |-> TRUE]}

\* Timers of a snapshot that was put in the place of another one.
Disarm(T, r) == {[t EXCEPT !.valid = @ /\ t.rev # r] : t \in T}

\* The new snapshot is put in place, and the old one left for a while.
Install(w) ==
  LET r == got[w]
  IN  /\ None \notin {got[w][k] : k \in Collection}
      /\ Advance(w, "reading", IF locked[w] THEN "storing" ELSE "idle")
      /\ cur' = [cur EXCEPT ![w] = r]
      /\ snaps' = [snaps EXCEPT ![w] = @ \cup {r}]
      /\ timers' = [timers EXCEPT ![w] = Disarm(@ \cup NewTimer(w), r)]
      /\ got' = [got EXCEPT ![w] = NothingRead]
      /\ ago' = [ago EXCEPT ![w][r] = 0]
      /\ UNCHANGED <<config, editing, hash, cacheLock, seen, locked, raced, edits, fails>>

\* cache.set
StoreHash(w) ==
  /\ Advance(w, "storing", "releasing")
  /\ hash' = IF cur[w] # seen[w] THEN cur[w] ELSE hash
  /\ seen' = [seen EXCEPT ![w] = None]
  /\ UNCHANGED <<config, editing, cacheLock, cur, snaps, timers, got, locked,
                 ago, raced, edits, fails>>

\* What a failed refresh leaves: nextRefresh stays 0 in a worker that goes on;
\* another one exits and is started again.
Broken(w) ==
  /\ seen' = [seen EXCEPT ![w] = None]
  /\ got' = [got EXCEPT ![w] = NothingRead]
  /\ locked' = [locked EXCEPT ![w] = FALSE]
  /\ \/ /\ w \in Catching
        /\ refreshPc' = [refreshPc EXCEPT ![w] = "stuck"]
        /\ UNCHANGED <<cur, snaps, timers, ago>>
     \/ /\ w \notin Catching
        /\ refreshPc' = [refreshPc EXCEPT ![w] = "idle"]
        /\ cur' = [cur EXCEPT ![w] = None]
        /\ snaps' = [snaps EXCEPT ![w] = {}]
        /\ timers' = [timers EXCEPT ![w] = {}]
        /\ ago' = [ago EXCEPT ![w] = LongAgo]

\* releaseLock; a lock that has expired is an error.
Release(w) ==
  \/ /\ cacheLock = w /\ cacheLock' = None
     /\ Advance(w, "releasing", "idle")
     /\ locked' = [locked EXCEPT ![w] = FALSE]
     /\ UNCHANGED <<config, editing, hash, cur, snaps, timers, seen, got,
                    ago, raced, edits, fails>>
  \/ /\ refreshPc[w] = "releasing" /\ cacheLock # w
     /\ Broken(w)
     /\ UNCHANGED <<config, editing, hash, cacheLock, raced, edits, fails>>

\* A call of the database fails.
Fail(w) ==
  /\ refreshPc[w] # "stuck"
  /\ fails < MaxFails /\ fails' = fails + 1
  /\ Broken(w)
  /\ UNCHANGED <<config, editing, hash, cacheLock, raced, edits>>

(***************************************************************************)
(* Edits: the collection is written, then the hash deleted.                *)
(***************************************************************************)
\* replaceOne or deleteOne
Edit(k) ==
  /\ ~editing /\ edits < MaxEdits
  /\ edits' = edits + 1
  /\ editing' = TRUE
  /\ config' = [config EXCEPT ![k] = 1 - @]
  /\ UNCHANGED <<hash, cacheLock, refresh, ago, raced, fails>>

\* w may still put into the hash what it has read before the edit.
Outdated(w) ==
  /\ locked[w]
  /\ \/ refreshPc[w] = "reading" /\ \E k \in Collection : got[w][k] \notin {None, config[k]}
     \/ refreshPc[w] = "storing" /\ cur[w] # config

\* A mutant of Invalidated: an edit that forgets the hash.
NotInvalidated == hash

\* What cache.del leaves.
Invalidated == None

Invalidate ==
  /\ editing
  /\ editing' = FALSE
  /\ hash' = Invalidated
  /\ raced' = (raced \/ \E w \in Worker : Outdated(w))
  /\ UNCHANGED <<config, cacheLock, refresh, ago, edits, fails>>

(***************************************************************************)
(* Time.                                                                   *)
(***************************************************************************)
\* A mutant of ExpireHash: the document has no expiry.
ExpireNoHash == hash # None /\ UNCHANGED cacheVars

\* The TTL index.
ExpireHash ==
  /\ hash # None
  /\ hash' = None
  /\ UNCHANGED <<config, editing, cacheLock, refresh, ago, raced, edits, fails>>

\* The refresh is over, or takes longer than the lock lasts.
ExpireCacheLock ==
  /\ cacheLock # None
  /\ cacheLock' = None
  /\ IF locked[cacheLock] THEN fails < MaxFails /\ fails' = fails + 1 ELSE fails' = fails
  /\ UNCHANGED <<config, editing, hash, refresh, ago, raced, edits>>

\* A mutant of Evicted: the revision is evicted, whichever snapshot it has.
EvictedAny(w) == {t.rev : t \in {u \in timers[w] : u.left = 1}}

\* The timer compares the snapshot with the one it was set for.
Evicted(w) == {t.rev : t \in {u \in timers[w] : u.left = 1 /\ u.valid}}

Shorter(T) == {[t EXCEPT !.left = @ - 1] : t \in {u \in T : u.left > 1}}

CacheTick ==
  /\ snaps' = [w \in Worker |-> snaps[w] \ Evicted(w)]
  /\ timers' = [w \in Worker |-> Shorter(timers[w])]
  /\ ago' = [w \in Worker |-> [r \in Revision |->
               IF r = cur[w] \/ ago[w][r] = Evict THEN ago[w][r] ELSE ago[w][r] + 1]]
  /\ UNCHANGED <<config, editing, hash, cacheLock, refreshPc, cur, seen, got, locked,
                 raced, edits, fails>>

(***************************************************************************)
(* The specification.                                                      *)
(***************************************************************************)
Refresh(w) ==
  \/ TryLock(w) \/ Install(w) \/ StoreHash(w) \/ Release(w)
  \/ \E k \in Collection : Fetch(w, k)

CacheNext ==
  \/ \E w \in Worker :
       GetHash(w) \/ Refresh(w) \/ Fail(w)
  \/ \E k \in Collection : Edit(k)
  \/ Invalidate \/ ExpireHash \/ ExpireCacheLock \/ CacheTick

CacheSpec == CacheInit /\ [][CacheNext]_cacheVars

\* Requests keep arriving at every worker, every call of the database returns,
\* an edit is carried through, and documents expire.
Work(w) == GetHash(w) \/ Refresh(w)

FairCacheSpec ==
  /\ CacheSpec
  /\ \A w \in Worker : WF_cacheVars(Work(w))
  /\ WF_cacheVars(Invalidate) /\ WF_cacheVars(ExpireHash)

(***************************************************************************)
(* Properties.                                                             *)
(***************************************************************************)
\* A session finds the snapshot of its revision on every worker for which the
\* revision was the current one within EVICT_TIMEOUT, also when an edit was
\* taken back meanwhile.
SnapshotKept ==
  \A w \in Worker, r \in Revision : ago[w][r] < Evict => r \in snaps[w]

\* When no edit is under way the shared hash, if there is one, is that of the
\* configuration, unless an edit came between the read and the write of a refresh.
StaleOnlyAfterRace ==
  ~editing /\ hash # None => hash = config \/ raced

\* Once the edits are over, every worker that still refreshes comes to have the
\* configuration, also after such a race.
EventuallyFresh == <>[](\A w \in Worker : refreshPc[w] # "stuck" => cur[w] = config)
=============================================================================
