--------------------------- MODULE SessionHandoff ---------------------------
(***************************************************************************)
(* The hand-off of one CWMP session between connections (cwmp.ts,          *)
(* onConnection and listenerAsync; cache.ts; lock.ts).                     *)
(*                                                                         *)
(* A connection holds the session's context in memory between a response   *)
(* and the next request.  When it closes, the context is stored in the     *)
(* cache, from where the next connection takes it, and a timer of the old  *)
(* connection ends the session if nobody has.  The content of a context is *)
(* the number of the response after which it was stored; no two responses  *)
(* of a session have the same lastActivity.                                *)
(*                                                                         *)
(* Time passes in units; the steps between two awaits of a handler, and    *)
(* the database, take none.  The tolerance for clock skew that lock.ts and *)
(* cache.ts add is taken to be used up by skew.                            *)
(***************************************************************************)
EXTENDS Naturals, FiniteSets

CONSTANTS
  Conn,            \* connections of the CPE; each is opened once
  SessionTimeout,  \* sessionContext.timeout
  LockRefresh,     \* LOCK_REFRESH_INTERVAL
  RequestTimeout,  \* REQUEST_TIMEOUT, to receive one request
  MaxResponses,    \* bound on the responses of the session
  MaxCrashes       \* bound on the crashes of a worker

TimeAssumption ==
  /\ SessionTimeout \in Nat \ {0}
  /\ LockRefresh \in Nat \ {0}
  /\ RequestTimeout \in Nat

HandoffBounds == MaxResponses \in Nat /\ MaxCrashes \in Nat

VARIABLES
  pc,         \* where each connection is
  copy,       \* the sessionContext in its memory
  quiet,      \* time since the connection changed its pc
  cached,     \* cache document of the session, or NoCopy
  lock,       \* the device's lock: "mine", "other" or "free"
  lockAge,    \* time since the session extended its lock
  responses,  \* number of the last response
  ends,       \* history: runs of endSession that got to the lock
  late,       \* history: the session was resumed after its timeout
  dropped,    \* history: a connection closed between 401 and the retry
  crashes

vars == <<pc, copy, quiet, cached, lock, lockAge, responses, ends, late,
          dropped, crashes>>

\* A mutant of LockTtl: no allowance for the time since the lock was extended.
BareTtl == SessionTimeout + RequestTimeout

\* The time to live of the lock document.
LockTtl == SessionTimeout + LockRefresh + RequestTimeout

\* Ages are not told apart beyond this one.
MaxAge == SessionTimeout + RequestTimeout + 1

Copy == [step : Nat, age : 0 .. MaxAge]
NoCopy == [step |-> 0, age |-> 0]

\* The session is in the memory of the connection:
\* idle, receiving     in currentSessions, without and with a request arriving
\* working             in the handler of a request, authenticated
\* resumed             in the handler, not yet authenticated on this connection
\* challenged, answering  as idle and receiving, after a 401
\* retrying            in the handler of the request that answers the 401
\* storing             in onConnection, the socket closed, before cache.set
\* ending              in endSession
Holding == {"idle", "receiving", "working", "resumed", "challenged",
            "answering", "retrying", "storing", "ending"}

\* The other connections: not open, waiting before it looks in the cache, with
\* a timer, with the answer of the timer's cache.get, and done.
Label == Holding \cup {"unused", "resuming", "timing", "checking", "closed"}

\* What waits for nobody but this process and the database.
Prompt == {"working", "resumed", "retrying", "resuming", "storing", "checking",
           "ending"}

Holders == {c \in Conn : pc[c] \in Holding}

HandoffTypeOK ==
  /\ pc \in [Conn -> Label]
  /\ copy \in [Conn -> Copy]
  /\ quiet \in [Conn -> Nat]
  /\ cached \in Copy
  /\ lock \in {"mine", "other", "free"}
  /\ lockAge \in Nat
  /\ responses \in Nat
  /\ ends \in Nat
  /\ late \in BOOLEAN
  /\ dropped \in BOOLEAN
  /\ crashes \in Nat

\* The Inform was answered: the session has its lock and one connection.
Init ==
  /\ \E c \in Conn : pc = [d \in Conn |-> IF d = c THEN "idle" ELSE "unused"]
  /\ copy = [c \in Conn |-> [step |-> 1, age |-> 0]]
  /\ quiet = [c \in Conn |-> 0]
  /\ cached = NoCopy
  /\ lock = "mine" /\ lockAge = 0
  /\ responses = 1 /\ ends = 0
  /\ late = FALSE /\ dropped = FALSE /\ crashes = 0

TimedOut(c) == copy[c].age >= SessionTimeout

Goto(c, from, to) ==
  /\ pc[c] = from
  /\ pc' = [pc EXCEPT ![c] = to]
  /\ quiet' = [quiet EXCEPT ![c] = 0]

\* A step that leaves the cache, the lock and the other copies alone.
Step(c, from, to) ==
  /\ Goto(c, from, to)
  /\ UNCHANGED <<copy, cached, lock, lockAge, responses, ends, late, dropped,
                 crashes>>

(***************************************************************************)
(* Requests on a connection that has the session.                          *)
(***************************************************************************)
\* The CPE begins its next request.
Request(c) == Step(c, "idle", "receiving") \/ Step(c, "challenged", "answering")

\* listenerAsync: the request is complete and the session is taken out of
\* currentSessions.
Take(c) ==
  /\ copy[c].age <= SessionTimeout
  /\ Step(c, "receiving", "working") \/ Step(c, "answering", "retrying")

\* "Invalid session": another session id, or the session timed out; or the
\* request cannot be parsed.
TakeInvalid(c) == Step(c, "receiving", "ending") \/ Step(c, "answering", "ending")

\* writeResponse: the session is put back and its lock extended; that it
\* cannot be extended takes the worker down.
Respond(c) ==
  /\ responses < MaxResponses
  /\ responses' = responses + 1
  /\ copy' = [copy EXCEPT ![c] = [step |-> responses + 1, age |-> 0]]
  /\ \/ lockAge < LockRefresh /\ UNCHANGED <<lock, lockAge>>
              /\ Goto(c, "working", "idle")
     \/ lockAge >= LockRefresh /\ lock # "other"
              /\ lock' = "mine" /\ lockAge' = 0
              /\ Goto(c, "working", "idle")
     \/ lockAge >= LockRefresh /\ lock = "other"
              /\ UNCHANGED <<lock, lockAge>>
              /\ Goto(c, "working", "closed")
  /\ UNCHANGED <<cached, ends, late, dropped, crashes>>

\* The last response, a dropped connection, a request out of turn.
Finish(c) == Step(c, "working", "ending")

\* endSession: what the session has done is saved, then the lock released; a
\* lock that is not the session's any more takes the worker down.
EndSession(c) ==
  /\ Goto(c, "ending", "closed")
  /\ ends' = ends + 1
  /\ lock' = IF lock = "mine" THEN "free" ELSE lock
  /\ UNCHANGED <<copy, cached, lockAge, responses, late, dropped, crashes>>

(***************************************************************************)
(* A closed connection.                                                    *)
(***************************************************************************)
\* onConnection, authState 2.  Any request under way is given up.
Close(c) ==
  \E from \in {"idle", "receiving"} :
    Step(c, from, IF TimedOut(c) THEN "ending" ELSE "storing")

\* onConnection, authState 1: "Authentication failure".
CloseChallenged(c) ==
  /\ \E from \in {"challenged", "answering"} : Goto(c, from, "closed")
  /\ dropped' = TRUE
  /\ UNCHANGED <<copy, cached, lock, lockAge, responses, ends, late, crashes>>

\* cache.set, and setTimeoutPromise.
Store(c) ==
  /\ Goto(c, "storing", "timing")
  /\ cached' = copy[c]
  /\ UNCHANGED <<copy, lock, lockAge, responses, ends, late, dropped, crashes>>

\* A mutant of LastActivity: whatever is in the cache is taken for the copy
\* this connection has stored.
AnyActivity(c) == cached # NoCopy

\* _sessionContext.lastActivity === lastActivity
LastActivity(c) == cached.step = copy[c].step

\* The timer fires and cache.get answers.
Timer(c) ==
  /\ TimedOut(c)
  /\ Step(c, "timing", IF LastActivity(c) THEN "checking" ELSE "closed")

\* deserialize; then endSession, with the copy in memory.
TimerEnds(c) == Step(c, "checking", "ending")

\* A mutant of CacheLife: no allowance for the delay of the timer.
BareLife == SessionTimeout

\* The document outlives the timer, by 3 s to its 1 s.
CacheLife == SessionTimeout + 1

\* The TTL index removes the cache document some time after it has expired.
ExpireCached ==
  /\ cached # NoCopy /\ cached.age >= CacheLife
  /\ cached' = NoCopy
  /\ UNCHANGED <<pc, copy, quiet, lock, lockAge, responses, ends, late,
                 dropped, crashes>>

(***************************************************************************)
(* A new connection.                                                       *)
(***************************************************************************)
\* A request with the session's cookie; the handler waits for 100 ms.
Connect(c) == Step(c, "unused", "resuming")

\* A mutant of Popped: cache.get for cache.pop.
Peeked == cached

\* What cache.pop leaves.
Popped == NoCopy

\* cache.pop finds the session, with no check of its timeout.  A request that
\* cannot be parsed ends it.
Pop(c) ==
  /\ cached # NoCopy
  /\ \E to \in {"resumed", "ending"} : Goto(c, "resuming", to)
  /\ copy' = [copy EXCEPT ![c] = cached]
  /\ cached' = Popped
  /\ late' = (late \/ cached.age >= SessionTimeout)
  /\ UNCHANGED <<lock, lockAge, responses, ends, dropped, crashes>>

\* "Invalid session": there is nothing to resume.
PopNothing(c) == cached = NoCopy /\ Step(c, "resuming", "closed")

\* processRequest: re-authentication on a new connection.
Authenticate(c) == Step(c, "resumed", "working") \/ Step(c, "resumed", "challenged")

\* The second attempt; a failure ends the session.
AuthRetry(c) == Step(c, "retrying", "working") \/ Step(c, "retrying", "ending")

(***************************************************************************)
(* Environment.                                                            *)
(***************************************************************************)
\* The TTL index removes the lock document.
ExpireLock ==
  /\ lock = "mine" /\ lockAge >= LockTtl
  /\ lock' = "free"
  /\ UNCHANGED <<pc, copy, quiet, cached, lockAge, responses, ends, late,
                 dropped, crashes>>

\* Another session, or a request of the NBI, takes the lock and releases it.
OtherLock ==
  /\ \/ lock = "free" /\ lock' = "other"
     \/ lock = "other" /\ lock' = "free"
  /\ UNCHANGED <<pc, copy, quiet, cached, lockAge, responses, ends, late,
                 dropped, crashes>>

\* A worker dies, with its connections and their timers.
Crash(C) ==
  /\ crashes < MaxCrashes
  /\ crashes' = crashes + 1
  /\ pc' = [c \in Conn |-> IF c \in C /\ pc[c] # "unused" THEN "closed" ELSE pc[c]]
  /\ UNCHANGED <<copy, quiet, cached, lock, lockAge, responses, ends, late,
                 dropped>>

\* How long a connection stays as it is: a request arrives, or an idle socket
\* is closed, or a timer fires, in time.
MayWait(c) ==
  /\ pc[c] \notin Prompt
  /\ pc[c] \in {"idle", "timing"} => ~TimedOut(c)
  /\ pc[c] \in {"receiving", "answering"} => quiet[c] < RequestTimeout
  /\ pc[c] = "challenged" => quiet[c] < SessionTimeout

Older(p) == [p EXCEPT !.age = IF @ < MaxAge THEN @ + 1 ELSE @]

Tick ==
  /\ \A c \in Conn : MayWait(c)
  /\ copy' = [c \in Conn |-> Older(copy[c])]
  /\ quiet' = [c \in Conn |-> IF quiet[c] < MaxAge THEN quiet[c] + 1 ELSE quiet[c]]
  /\ cached' = IF cached = NoCopy THEN NoCopy ELSE Older(cached)
  /\ lockAge' = IF lockAge < LockTtl THEN lockAge + 1 ELSE lockAge
  /\ UNCHANGED <<pc, lock, responses, ends, late, dropped, crashes>>

ConnStep(c) ==
  \/ Request(c) \/ Take(c) \/ TakeInvalid(c) \/ Respond(c) \/ Finish(c)
  \/ EndSession(c)
  \/ Close(c) \/ CloseChallenged(c) \/ Store(c) \/ Timer(c) \/ TimerEnds(c)
  \/ Connect(c) \/ Pop(c) \/ PopNothing(c) \/ Authenticate(c) \/ AuthRetry(c)

Next ==
  \/ \E c \in Conn : ConnStep(c)
  \/ ExpireCached \/ ExpireLock \/ OtherLock \/ Tick
  \/ \E C \in SUBSET Conn : Crash(C)

Spec == Init /\ [][Next]_vars

\* The server goes on; the CPE need not.  A connection is closed for the CPE
\* once it has been idle, or has been sending one request, for too long.
Serve(c) ==
  \/ Take(c) \/ TakeInvalid(c) \/ Respond(c) \/ Finish(c) \/ EndSession(c)
  \/ Store(c) \/ Timer(c) \/ TimerEnds(c) \/ Pop(c) \/ PopNothing(c)
  \/ Authenticate(c) \/ AuthRetry(c)
  \/ ~MayWait(c) /\ (Close(c) \/ CloseChallenged(c))

FairSpec == Spec /\ WF_vars(Tick) /\ \A c \in Conn : WF_vars(Serve(c))

(***************************************************************************)
(* Properties.                                                             *)
(***************************************************************************)
\* A session that is resumed before its timeout is never in two places: one
\* connection has it, or it waits in the cache, or its timer is ending it.
OneHolder ==
  ~late => /\ \A c, d \in Holders : c = d
           /\ \A c \in Holders : cached # NoCopy => pc[c] = "ending"

\* endSession runs once, with all that the session has done: no connection has
\* gone further than the one that ends it.
EndsLatest ==
  ~late => /\ ends = 0 \/ (ends = 1 /\ Holders = {})
           /\ \A c \in Conn : pc[c] = "ending" => copy[c].step = responses

\* The lock outlives the session: whoever has the session within its timeout,
\* and the time a request may take, still has the device's lock.
LockOutlives ==
  ~late => \A c \in Holders :
    copy[c].age <= SessionTimeout + RequestTimeout => lock = "mine"

\* A session is over at some time, wherever it is left: endSession runs, unless
\* a crash took the session or its timer, or a connection that was asked to
\* authenticate again closed.
SessionOver == <>(ends > 0 \/ dropped \/ crashes > 0)
=============================================================================
