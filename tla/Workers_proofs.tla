--------------------------- MODULE Workers_proofs ---------------------------
(***************************************************************************)
(* Theorems about what the workers share outside of a request.             *)
(*                                                                         *)
(* SessionHandoff: type correctness, that a session is in one place, ends  *)
(* once and with all it has done, and that its lock outlives it, for any   *)
(* number of connections, any timeouts, responses and crashes.             *)
(*                                                                         *)
(* LocalCache: type correctness, that a snapshot stays for as long as a    *)
(* session may need it, and that the shared hash is that of the            *)
(* configuration, for any number of workers, collections, edits, failures. *)
(*                                                                         *)
(* The two modules share nothing.                                          *)
(***************************************************************************)
EXTENDS SessionHandoff, LocalCache, TLAPS

(***************************************************************************)
(* The invariant.  A session that was never resumed late has at most one   *)
(* owner: a connection that holds it, or whose timer has found it in the   *)
(* cache.  The copy in the cache is then of no more use to anyone else,    *)
(* because it has timed out; and before a timer fires, the only timer that *)
(* can find its own copy in the cache is the one that was set with it.     *)
(***************************************************************************)
Owning == Holding \cup {"checking"}

\* The session has changed since every copy that is in the cache, or waits
\* for a timer, was stored.
Fresh == {"idle", "receiving", "storing"}

\* The lock cannot have expired while a copy of this age is of use.
Alive(age) ==
  age <= SessionTimeout + RequestTimeout
    => lock = "mine" /\ lockAge < age + LockRefresh

Owners ==
  /\ \A c, d \in Conn : pc[c] \in Owning /\ pc[d] \in Owning => c = d
  /\ \A c \in Conn : pc[c] \in Owning =>
       /\ copy[c].step = responses /\ ends = 0
       /\ cached # NoCopy => pc[c] \in {"ending", "checking"} /\ cached.age >= SessionTimeout
       /\ Alive(copy[c].age)

Stored ==
  cached # NoCopy =>
    /\ cached.step = responses
    /\ IF ends = 0 THEN Alive(cached.age) ELSE cached.age >= SessionTimeout

Timers ==
  \A c \in Conn : pc[c] = "timing" =>
    /\ copy[c].step \in 1 .. responses
    /\ \A d \in Conn : pc[d] \in Fresh => copy[c].step < responses
    /\ copy[c].step = responses =>
         /\ \A d \in Conn : pc[d] = "timing" /\ copy[d].step = responses => d = c
         /\ cached # NoCopy => /\ cached = copy[c] /\ ends = 0
                               /\ \A d \in Conn : pc[d] \notin Owning

Locked == ends = 0 /\ lock # "mine" => lockAge >= LockTtl
Once == ends <= 1 /\ responses >= 1


Core == Owners /\ Stored /\ Timers /\ Locked /\ Once

HandoffInv == HandoffTypeOK /\ (~late => Core)

(***************************************************************************)
(* Type correctness.                                                       *)
(***************************************************************************)
\* The constants and the bounds as numbers.
LEMMA Numbers ==
  ASSUME TimeAssumption
  PROVE  /\ SessionTimeout \in Nat /\ LockRefresh \in Nat /\ RequestTimeout \in Nat
         /\ SessionTimeout > 0 /\ LockRefresh > 0
         /\ MaxAge \in Nat /\ MaxAge = SessionTimeout + RequestTimeout + 1
         /\ LockTtl \in Nat /\ LockTtl = SessionTimeout + LockRefresh + RequestTimeout
BY DEF TimeAssumption, MaxAge, LockTtl

\* The age of a copy that has grown older.
LEMMA OlderCopy ==
  ASSUME TimeAssumption, NEW p \in Copy
  PROVE  /\ Older(p) \in Copy /\ Older(p).step = p.step
         /\ Older(p).age = IF p.age < MaxAge THEN p.age + 1 ELSE p.age
BY Numbers DEF Older, Copy

\* A step from one place to another.
LEMMA GotoType ==
  ASSUME HandoffTypeOK, NEW c \in Conn, NEW from, NEW to \in Label, Goto(c, from, to)
  PROVE  pc' \in [Conn -> Label] /\ quiet' \in [Conn -> Nat]
BY DEF HandoffTypeOK, Goto

\* The steps that change places only.
LEMMA StepType ==
  ASSUME HandoffTypeOK, NEW c \in Conn, NEW from, NEW to \in Label, Step(c, from, to)
  PROVE  HandoffTypeOK'
BY GotoType DEF Step, HandoffTypeOK

\* The steps of a connection.
LEMMA ConnType ==
  ASSUME TimeAssumption, HandoffTypeOK, NEW c \in Conn, ConnStep(c)
  PROVE  HandoffTypeOK'
<1>1. /\ {"idle", "receiving", "working", "resumed", "challenged", "answering",
          "retrying", "storing", "ending", "unused", "resuming", "timing",
          "checking", "closed"} \subseteq Label
  BY DEF Label, Holding
<1>2. CASE Request(c) \/ Take(c) \/ TakeInvalid(c) \/ Finish(c) \/ Connect(c) \/ PopNothing(c)
           \/ Authenticate(c) \/ AuthRetry(c) \/ TimerEnds(c)
  BY <1>1, <1>2, StepType DEF Request, Take, TakeInvalid, Finish, Connect, PopNothing,
     Authenticate, AuthRetry, TimerEnds
<1>3. CASE Close(c)
  BY <1>1, <1>3, StepType DEF Close
<1>4. CASE Timer(c)
  BY <1>1, <1>4, StepType DEF Timer
<1>5. CASE Respond(c)
  <2>1. [step |-> responses + 1, age |-> 0] \in Copy
    BY Numbers DEF HandoffTypeOK, Copy
  <2>2. pc' \in [Conn -> Label] /\ quiet' \in [Conn -> Nat]
    BY <1>1, <1>5, GotoType DEF Respond
  <2>3. copy' \in [Conn -> Copy] /\ responses' \in Nat
    BY <1>5, <2>1 DEF Respond, HandoffTypeOK
  <2>4. lock' \in {"mine", "other", "free"} /\ lockAge' \in Nat
    BY <1>5 DEF Respond, HandoffTypeOK
  <2> QED
    BY <1>5, <2>2, <2>3, <2>4 DEF Respond, HandoffTypeOK
<1>6. CASE EndSession(c)
  BY <1>1, <1>6, GotoType DEF EndSession, HandoffTypeOK
<1>7. CASE CloseChallenged(c)
  BY <1>1, <1>7, GotoType DEF CloseChallenged, HandoffTypeOK
<1>8. CASE Store(c)
  BY <1>1, <1>8, GotoType DEF Store, HandoffTypeOK
<1>9. CASE Pop(c)
  <2>1. cached' \in Copy
    BY <1>9, Numbers DEF Pop, Popped, NoCopy, Copy
  <2> QED
    BY <1>1, <1>9, <2>1, GotoType DEF Pop, HandoffTypeOK
<1> QED
  BY <1>2, <1>3, <1>4, <1>5, <1>6, <1>7, <1>8, <1>9 DEF ConnStep

\* The steps of the environment.
LEMMA OtherType ==
  ASSUME TimeAssumption, HandoffTypeOK,
         ExpireCached \/ ExpireLock \/ OtherLock \/ \E C \in SUBSET Conn : Crash(C)
  PROVE  HandoffTypeOK'
<1>1. CASE ExpireCached
  BY <1>1, Numbers DEF ExpireCached, NoCopy, Copy, HandoffTypeOK
<1>2. CASE ExpireLock \/ OtherLock
  BY <1>2 DEF ExpireLock, OtherLock, HandoffTypeOK
<1>3. ASSUME NEW C \in SUBSET Conn, Crash(C)
      PROVE  HandoffTypeOK'
  <2>1. pc' \in [Conn -> Label]
    BY <1>3 DEF Crash, HandoffTypeOK, Label
  <2> QED
    BY <1>3, <2>1 DEF Crash, HandoffTypeOK
<1> QED
  BY <1>1, <1>2, <1>3

\* A unit of time passes.
LEMMA TickType ==
  ASSUME TimeAssumption, HandoffTypeOK, Tick
  PROVE  HandoffTypeOK'
<1>1. copy' \in [Conn -> Copy]
  BY OlderCopy DEF Tick, HandoffTypeOK
<1>2. cached' \in Copy
  BY OlderCopy DEF Tick, HandoffTypeOK
<1>3. quiet' \in [Conn -> Nat] /\ lockAge' \in Nat
  BY Numbers DEF Tick, HandoffTypeOK
<1> QED
  BY <1>1, <1>2, <1>3 DEF Tick, HandoffTypeOK

(***************************************************************************)
(* The steps of a connection.                                              *)
(***************************************************************************)
\* The owner goes on to another place, with the copy it has.
LEMMA OwnerMoves ==
  ASSUME HandoffTypeOK, Core, NEW c \in Conn, NEW from \in Owning, NEW to \in Holding,
         to \in Fresh => from \in Fresh,
         from \in {"ending", "checking"} => to = "ending",
         Step(c, from, to)
  PROVE  Core'
<1>1. /\ pc \in [Conn -> Label] /\ pc[c] = from /\ pc' = [pc EXCEPT ![c] = to]
      /\ UNCHANGED <<copy, cached, lock, lockAge, responses, ends>>
  BY DEF Step, Goto, HandoffTypeOK
<1>2. /\ \A d \in Conn : pc'[d] \in Owning => pc[d] \in Owning
      /\ \A d \in Conn : pc'[d] \in Fresh => pc[d] \in Fresh
      /\ \A d \in Conn : pc'[d] = "timing" => pc[d] = "timing"
      /\ \A d \in Conn : pc'[d] \in Owning /\ pc[d] \in {"ending", "checking"}
                           => pc'[d] \in {"ending", "checking"}
  BY <1>1 DEF Owning, Holding, Fresh
<1>3. Owners'
  BY <1>1, <1>2 DEF Core, Owners, Alive
<1>4. Stored' /\ Locked' /\ Once'
  BY <1>1 DEF Core, Stored, Locked, Once, Alive
<1>5. Timers'
  BY <1>1, <1>2 DEF Core, Timers
<1> QED
  BY <1>3, <1>4, <1>5 DEF Core

\* Connections leave: they no longer own the session, and wait for no timer.
LEMMA SomeLeave ==
  ASSUME HandoffTypeOK, Core, pc' \in [Conn -> Label],
         \A d \in Conn : pc'[d] = pc[d] \/ pc'[d] \in {"closed", "resuming"},
         UNCHANGED <<copy, cached, lock, lockAge, responses, ends>>
  PROVE  Core'
<1>1. /\ \A d \in Conn : pc'[d] \in Owning => pc'[d] = pc[d]
      /\ \A d \in Conn : pc'[d] \in Fresh => pc'[d] = pc[d]
      /\ \A d \in Conn : pc'[d] = "timing" => pc[d] = "timing"
  BY DEF Owning, Holding, Fresh
<1>2. Owners'
  BY <1>1 DEF Core, Owners, Alive
<1>3. Stored' /\ Locked' /\ Once'
  BY DEF Core, Stored, Locked, Once, Alive
<1>4. Timers'
  BY <1>1 DEF Core, Timers
<1> QED
  BY <1>2, <1>3, <1>4 DEF Core

\* One connection leaves.
LEMMA OneLeaves ==
  ASSUME HandoffTypeOK, Core, NEW c \in Conn, NEW from, NEW to \in {"closed", "resuming"},
         Goto(c, from, to), UNCHANGED <<copy, cached, lock, lockAge, responses, ends>>
  PROVE  Core'
<1>1. to \in Label
  BY DEF Label
<1>2. pc' \in [Conn -> Label] /\ \A d \in Conn : pc'[d] = pc[d] \/ pc'[d] \in {"closed", "resuming"}
  BY <1>1 DEF Goto, HandoffTypeOK
<1> QED
  BY <1>2, SomeLeave

\* writeResponse.
LEMMA RespondKeeps ==
  ASSUME TimeAssumption, HandoffTypeOK, Core, NEW c \in Conn, Respond(c)
  PROVE  Core'
<1>1. /\ pc[c] = "working" /\ pc \in [Conn -> Label] /\ copy \in [Conn -> Copy]
      /\ responses \in Nat /\ responses' = responses + 1
      /\ copy' = [copy EXCEPT ![c] = [step |-> responses + 1, age |-> 0]]
      /\ UNCHANGED <<cached, ends>>
  BY DEF Respond, Goto, HandoffTypeOK
<1>2. PICK to \in {"idle", "closed"} : pc' = [pc EXCEPT ![c] = to]
  BY DEF Respond, Goto
<1>3. /\ \A d \in Conn : pc'[d] \in Owning => d = c
      /\ pc'[c] \in Owning => pc'[c] = "idle"
      /\ cached = NoCopy /\ ends = 0
  BY <1>1, <1>2 DEF Core, Owners, Owning, Holding
<1>4. to = "idle" => lock' = "mine" /\ lockAge' < LockRefresh
  BY <1>1, <1>2, <1>3, Numbers DEF Respond, Goto, Core, Locked, HandoffTypeOK
<1>5. copy'[c].step = responses' /\ copy'[c].age = 0
  BY <1>1
<1>6. Owners'
  <2>1. pc'[c] \in Owning => Alive(copy[c].age)'
    BY <1>1, <1>2, <1>3, <1>4, <1>5, Numbers DEF Alive
  <2> QED
    BY <1>1, <1>3, <1>5, <2>1 DEF Owners
<1>7. Stored' /\ Once'
  BY <1>1, <1>3 DEF Core, Stored, Once
<1>8. Locked'
  BY <1>1, <1>3, Numbers DEF Respond, Core, Locked, HandoffTypeOK
<1>9. Timers'
  <2>1. ASSUME NEW d \in Conn, pc'[d] = "timing"
        PROVE  d # c /\ pc[d] = "timing" /\ copy'[d] = copy[d] /\ copy[d].step \in 1 .. responses
    BY <1>1, <1>2, <2>1 DEF Core, Timers
  <2>2. \A d \in Conn : pc'[d] = "timing" => copy'[d].step < responses' /\ copy'[d].step \in 1 .. responses'
    BY <1>1, <2>1
  <2> QED
    BY <1>1, <1>3, <2>2 DEF Timers
<1> QED
  BY <1>6, <1>7, <1>8, <1>9 DEF Core

\* endSession.
LEMMA EndKeeps ==
  ASSUME HandoffTypeOK, Core, NEW c \in Conn, EndSession(c)
  PROVE  Core'
<1>1. /\ pc[c] = "ending" /\ pc \in [Conn -> Label] /\ pc' = [pc EXCEPT ![c] = "closed"]
      /\ ends' = ends + 1 /\ UNCHANGED <<copy, cached, responses>>
  BY DEF EndSession, Goto, HandoffTypeOK
<1>2. /\ \A d \in Conn : pc'[d] \notin Owning
      /\ cached # NoCopy => cached.age >= SessionTimeout
      /\ ends = 0 /\ ends' = 1
  BY <1>1 DEF Core, Owners, Owning, Holding
<1>3. Owners' /\ Stored' /\ Locked' /\ Once'
  BY <1>1, <1>2 DEF Core, Owners, Stored, Locked, Once
<1>4. Timers'
  <2>1. \A d \in Conn : pc'[d] = "timing" => pc[d] = "timing" /\ d # c
    BY <1>1
  <2>2. \A d \in Conn : pc'[d] \notin Fresh
    BY <1>2 DEF Fresh, Owning, Holding
  <2>3. pc[c] \in Owning
    BY <1>1 DEF Owning, Holding
  <2> QED
    BY <1>1, <2>1, <2>2, <2>3 DEF Core, Timers
<1> QED
  BY <1>3, <1>4 DEF Core

\* cache.set, and setTimeoutPromise.
LEMMA StoreKeeps ==
  ASSUME HandoffTypeOK, Core, NEW c \in Conn, Store(c)
  PROVE  Core'
<1>1. /\ pc[c] = "storing" /\ pc \in [Conn -> Label] /\ pc' = [pc EXCEPT ![c] = "timing"]
      /\ cached' = copy[c] /\ UNCHANGED <<copy, lock, lockAge, responses, ends>>
  BY DEF Store, Goto, HandoffTypeOK
<1>2. /\ \A d \in Conn : pc'[d] \notin Owning
      /\ copy[c].step = responses /\ ends = 0 /\ Alive(copy[c].age)
  BY <1>1 DEF Core, Owners, Owning, Holding
<1>3. Owners' /\ Stored' /\ Locked' /\ Once'
  BY <1>1, <1>2 DEF Core, Owners, Stored, Alive, Locked, Once
<1>4. Timers'
  <2>1. ASSUME NEW d \in Conn, d # c, pc'[d] = "timing"
        PROVE  copy[d].step \in 1 .. responses /\ copy[d].step < responses
    BY <1>1, <2>1 DEF Core, Timers, Fresh
  <2>2. copy[c].step \in 1 .. responses
    BY <1>2 DEF Core, Once, HandoffTypeOK
  <2>3. \A d \in Conn : pc'[d] \notin Fresh
    BY <1>2 DEF Fresh, Owning, Holding
  <2>4. responses \in Nat
    BY DEF HandoffTypeOK
  <2> QED
    BY <1>1, <1>2, <2>1, <2>2, <2>3, <2>4 DEF Timers
<1> QED
  BY <1>3, <1>4 DEF Core

\* The timer of a connection that has found its own copy in the cache.
LEMMA TimerKeeps ==
  ASSUME TimeAssumption, HandoffTypeOK, Core, NEW c \in Conn, Timer(c)
  PROVE  Core'
<1>1. CASE LastActivity(c)
  <2>1. /\ pc[c] = "timing" /\ pc \in [Conn -> Label] /\ pc' = [pc EXCEPT ![c] = "checking"]
        /\ cached.step = copy[c].step /\ copy[c].age >= SessionTimeout
        /\ UNCHANGED <<copy, cached, lock, lockAge, responses, ends>>
    BY <1>1 DEF Timer, Step, Goto, LastActivity, TimedOut, HandoffTypeOK
  <2>2. cached # NoCopy
    BY <2>1 DEF Core, Timers, NoCopy
  <2>3. /\ copy[c].step = responses /\ cached = copy[c] /\ ends = 0
        /\ \A d \in Conn : pc[d] \notin Owning
        /\ \A d \in Conn : pc[d] = "timing" /\ copy[d].step = responses => d = c
    BY <2>1, <2>2 DEF Core, Stored, Timers
  <2>4. Alive(copy[c].age)
    BY <2>2, <2>3 DEF Core, Stored
  <2>5. \A d \in Conn : pc'[d] \in Owning => d = c
    BY <2>1, <2>3
  <2>6. Owners'
    BY <2>1, <2>3, <2>4, <2>5 DEF Owners, Alive
  <2>7. Stored' /\ Locked' /\ Once'
    BY <2>1 DEF Core, Stored, Alive, Locked, Once
  <2>8. Timers'
    <3>1. \A d \in Conn : pc'[d] = "timing" => pc[d] = "timing" /\ d # c
      BY <2>1
    <3>2. \A d \in Conn : pc'[d] \in Fresh => pc[d] \in Fresh
      BY <2>1 DEF Fresh
    <3> QED
      BY <2>1, <2>3, <3>1, <3>2 DEF Core, Timers
  <2> QED
    BY <2>6, <2>7, <2>8 DEF Core
<1>2. CASE ~LastActivity(c)
  BY <1>2, OneLeaves DEF Timer, Step
<1> QED
  BY <1>1, <1>2

\* cache.pop, in time.
LEMMA PopKeeps ==
  ASSUME HandoffTypeOK, Core, NEW c \in Conn, Pop(c), ~late'
  PROVE  Core'
<1>1. /\ pc[c] = "resuming" /\ pc \in [Conn -> Label] /\ copy \in [Conn -> Copy]
      /\ cached # NoCopy /\ cached' = NoCopy /\ copy' = [copy EXCEPT ![c] = cached]
      /\ ~ (cached.age >= SessionTimeout)
      /\ UNCHANGED <<lock, lockAge, responses, ends>>
  BY DEF Pop, Popped, Goto, HandoffTypeOK
<1>2. PICK to \in {"resumed", "ending"} : pc' = [pc EXCEPT ![c] = to]
  BY DEF Pop, Goto
<1>3. \A d \in Conn : pc[d] \notin Owning
  BY <1>1 DEF Core, Owners
<1>4. cached.step = responses /\ ends = 0 /\ Alive(cached.age)
  BY <1>1 DEF Core, Stored
<1>5. \A d \in Conn : pc'[d] \in Owning => d = c
  BY <1>1, <1>2, <1>3
<1>6. Owners'
  BY <1>1, <1>4, <1>5 DEF Owners, Alive
<1>7. Stored' /\ Locked' /\ Once'
  BY <1>1 DEF Core, Stored, Locked, Once
<1>8. Timers'
  <2>1. \A d \in Conn : pc'[d] = "timing" => pc[d] = "timing" /\ d # c /\ copy'[d] = copy[d]
    BY <1>1, <1>2
  <2>2. \A d \in Conn : pc'[d] \notin Fresh
    BY <1>1, <1>2, <1>3 DEF Fresh, Owning, Holding
  <2> QED
    BY <1>1, <2>1, <2>2 DEF Core, Timers
<1> QED
  BY <1>6, <1>7, <1>8 DEF Core

\* Any step of a connection, of a session that is not resumed late.
LEMMA ConnKeeps ==
  ASSUME TimeAssumption, HandoffTypeOK, Core, NEW c \in Conn, ConnStep(c), ~late'
  PROVE  Core'
<1>1. /\ {"idle", "receiving", "working", "resumed", "challenged", "answering",
          "retrying", "storing", "ending"} \subseteq Holding
      /\ {"idle", "receiving", "working", "resumed", "challenged", "answering",
          "retrying", "storing", "ending", "checking"} \subseteq Owning
      /\ Fresh = {"idle", "receiving", "storing"}
  BY DEF Owning, Holding, Fresh
<1>2. CASE Request(c) \/ Take(c) \/ TakeInvalid(c) \/ Finish(c) \/ Authenticate(c)
           \/ AuthRetry(c) \/ TimerEnds(c)
  BY <1>1, <1>2, OwnerMoves DEF Request, Take, TakeInvalid, Finish, Authenticate,
     AuthRetry, TimerEnds
<1>3. CASE Close(c)
  BY <1>1, <1>3, OwnerMoves DEF Close
<1>4. CASE Connect(c) \/ PopNothing(c)
  BY <1>4, OneLeaves DEF Connect, PopNothing, Step
<1>5. CASE CloseChallenged(c)
  BY <1>5, OneLeaves DEF CloseChallenged
<1> QED
  BY <1>2, <1>3, <1>4, <1>5, RespondKeeps, EndKeeps, StoreKeeps, TimerKeeps, PopKeeps
     DEF ConnStep

(***************************************************************************)
(* The steps of the environment.                                           *)
(***************************************************************************)
\* The TTL index removes the copy of a session.
LEMMA ExpireCachedKeeps ==
  ASSUME Core, ExpireCached
  PROVE  Core'
BY DEF ExpireCached, Core, Owners, Stored, Timers, Locked, Once, Alive

\* The TTL index removes the lock: nothing of the session is of use any more.
LEMMA ExpireLockKeeps ==
  ASSUME TimeAssumption, HandoffTypeOK, Core, ExpireLock
  PROVE  Core'
<1>1. /\ lockAge >= LockTtl /\ lockAge \in Nat
      /\ UNCHANGED <<pc, copy, cached, lockAge, responses, ends>>
  BY DEF ExpireLock, HandoffTypeOK
<1>2. \A n \in Nat : Alive(n) => ~ (n <= SessionTimeout + RequestTimeout)
  BY <1>1, Numbers DEF Alive
<1>3. \A n \in Nat : Alive(n) => Alive(n)'
  BY <1>1, <1>2, Numbers DEF Alive
<1>4. cached.age \in Nat /\ \A c \in Conn : copy[c].age \in Nat
  BY Numbers DEF HandoffTypeOK, Copy
<1>5. Owners' /\ Stored'
  BY <1>1, <1>3, <1>4 DEF Core, Owners, Stored
<1>6. Timers' /\ Locked' /\ Once'
  BY <1>1 DEF Core, Timers, Locked, Once
<1> QED
  BY <1>5, <1>6 DEF Core

\* The lock of somebody else.
LEMMA OtherLockKeeps ==
  ASSUME Core, OtherLock
  PROVE  Core'
<1>1. /\ lock # "mine" /\ UNCHANGED <<pc, copy, cached, lockAge, responses, ends>>
  BY DEF OtherLock
<1>2. \A n : Alive(n) => Alive(n)'
  BY <1>1 DEF Alive
<1>3. Owners' /\ Stored'
  BY <1>1, <1>2 DEF Core, Owners, Stored
<1>4. Timers' /\ Locked' /\ Once'
  BY <1>1 DEF Core, Timers, Locked, Once
<1> QED
  BY <1>3, <1>4 DEF Core

\* A unit of time passes: the copies and the lock grow older together.
LEMMA TickKeeps ==
  ASSUME TimeAssumption, HandoffTypeOK, Core, Tick
  PROVE  Core'
<1> DEFINE Aged(n) == IF n < MaxAge THEN n + 1 ELSE n
           AliveThen(n) == n <= SessionTimeout + RequestTimeout
                             => lock' = "mine" /\ lockAge' < n + LockRefresh
<1>1. /\ UNCHANGED <<pc, lock, responses, ends>>
      /\ lockAge \in Nat /\ lockAge' = IF lockAge < LockTtl THEN lockAge + 1 ELSE lockAge
  BY DEF Tick, HandoffTypeOK
<1>2. \A c \in Conn : /\ copy[c].age \in Nat /\ copy'[c].step = copy[c].step
                      /\ copy'[c] = Older(copy[c]) /\ copy'[c].age = Aged(copy[c].age)
  BY OlderCopy, Numbers DEF Tick, HandoffTypeOK, Copy
<1>3. /\ cached = NoCopy => cached' = NoCopy
      /\ cached # NoCopy => /\ cached.age \in Nat /\ cached'.step = cached.step
                            /\ cached' = Older(cached) /\ cached'.age = Aged(cached.age)
  BY OlderCopy, Numbers DEF Tick, HandoffTypeOK, Copy
<1>4. \A n \in Nat : Alive(n) => AliveThen(Aged(n))
  BY <1>1, Numbers DEF Alive
<1>5. \A n \in Nat : n >= SessionTimeout => Aged(n) >= SessionTimeout
  BY Numbers
<1> HIDE DEF Aged, AliveThen
<1>6. Owners'
  <2>1. \A c \in Conn : Alive(copy[c].age) => AliveThen(copy'[c].age)
    BY <1>2, <1>4
  <2>2. \A c \in Conn : AliveThen(copy'[c].age) => Alive(copy[c].age)'
    BY DEF AliveThen, Alive
  <2> QED
    BY <1>1, <1>2, <1>3, <1>5, <2>1, <2>2 DEF Core, Owners
<1>7. Stored'
  <2>1. cached # NoCopy /\ Alive(cached.age) => AliveThen(cached'.age)
    BY <1>3, <1>4
  <2>2. AliveThen(cached'.age) => Alive(cached.age)'
    BY DEF AliveThen, Alive
  <2> QED
    BY <1>1, <1>3, <1>5, <2>1, <2>2 DEF Core, Stored
<1>8. Timers'
  BY <1>1, <1>2, <1>3 DEF Core, Timers
<1>9. Locked' /\ Once'
  BY <1>1, Numbers DEF Core, Locked, Once
<1> QED
  BY <1>6, <1>7, <1>8, <1>9 DEF Core

\* A worker dies.
LEMMA CrashKeeps ==
  ASSUME TimeAssumption, HandoffTypeOK, Core, NEW C \in SUBSET Conn, Crash(C)
  PROVE  Core'
<1>1. pc' \in [Conn -> Label]
  BY OtherType DEF HandoffTypeOK
<1>2. \A d \in Conn : pc'[d] = pc[d] \/ pc'[d] \in {"closed", "resuming"}
  BY DEF Crash
<1> QED
  BY <1>1, <1>2, SomeLeave DEF Crash

(***************************************************************************)
(* The invariant holds.                                                    *)
(***************************************************************************)
LEMMA HandoffInit ==
  ASSUME TimeAssumption, Init
  PROVE  HandoffInv
<1>1. PICK c \in Conn : pc = [d \in Conn |-> IF d = c THEN "idle" ELSE "unused"]
  BY DEF Init
<1>2. HandoffTypeOK
  <2>1. pc \in [Conn -> Label]
    BY <1>1 DEF Label, Holding
  <2>2. [step |-> 1, age |-> 0] \in Copy /\ NoCopy \in Copy
    BY Numbers DEF Copy, NoCopy
  <2>3. /\ copy \in [Conn -> Copy] /\ cached \in Copy
        /\ quiet \in [Conn -> Nat]
    BY <2>2 DEF Init
  <2>4. /\ lock \in {"mine", "other", "free"} /\ lockAge \in Nat
        /\ responses \in Nat /\ ends \in Nat /\ crashes \in Nat
        /\ late \in BOOLEAN /\ dropped \in BOOLEAN
    BY DEF Init
  <2> QED
    BY <2>1, <2>3, <2>4 DEF HandoffTypeOK
<1>3. /\ \A d \in Conn : pc[d] \in Owning => d = c
      /\ \A d \in Conn : pc[d] # "timing"
  BY <1>1 DEF Owning, Holding
<1>4. Core
  BY <1>3, Numbers DEF Init, Core, Owners, Stored, Timers, Locked, Once, Alive
<1> QED
  BY <1>2, <1>4 DEF HandoffInv

\* Every step keeps it.
LEMMA HandoffNext ==
  ASSUME TimeAssumption, HandoffInv, [Next]_vars
  PROVE  HandoffInv'
<1>1. CASE UNCHANGED vars
  BY <1>1 DEF vars, HandoffInv, HandoffTypeOK, Core, Owners, Stored, Timers, Locked, Once, Alive
<1>2. CASE Next
  <2>1. HandoffTypeOK'
    BY <1>2, ConnType, OtherType, TickType DEF Next, HandoffInv
  <2>2. late => late'
    BY <1>2 DEF Next, ConnStep, Request, Take, TakeInvalid, Respond, Finish, EndSession,
       Close, CloseChallenged, Store, Timer, TimerEnds, Connect, Pop, PopNothing,
       Authenticate, AuthRetry, Step, ExpireCached, ExpireLock, OtherLock, Tick, Crash
  <2>3. ASSUME ~late'
        PROVE  Core'
    BY <1>2, <2>2, <2>3, ConnKeeps, ExpireCachedKeeps, ExpireLockKeeps, OtherLockKeeps,
       TickKeeps, CrashKeeps DEF Next, HandoffInv
  <2> QED
    BY <2>1, <2>3 DEF HandoffInv
<1> QED
  BY <1>1, <1>2

\* The invariant of the hand-off, for every value of the constants.
LEMMA HandoffSafe == TimeAssumption => (Spec => []HandoffInv)
<1> SUFFICES ASSUME TimeAssumption PROVE Spec => []HandoffInv
  OBVIOUS
<1>1. Init => HandoffInv
  BY HandoffInit
<1>2. HandoffInv /\ [Next]_vars => HandoffInv'
  BY HandoffNext
<1> QED
  BY <1>1, <1>2, PTL DEF Spec

\* Type correctness.
THEOREM HandoffTyping == TimeAssumption => (Spec => []HandoffTypeOK)
<1> SUFFICES ASSUME TimeAssumption PROVE Spec => []HandoffTypeOK
  OBVIOUS
<1>1. HandoffInv => HandoffTypeOK
  BY DEF HandoffInv
<1> QED
  BY <1>1, HandoffSafe, PTL

\* A session that is resumed in time is in one place only.
THEOREM OnePlace == TimeAssumption => (Spec => []OneHolder)
<1> SUFFICES ASSUME TimeAssumption PROVE Spec => []OneHolder
  OBVIOUS
<1>1. HandoffInv => OneHolder
  BY DEF HandoffInv, OneHolder, Holders, Core, Owners, Owning, Holding
<1> QED
  BY <1>1, HandoffSafe, PTL

\* endSession runs at most once, for the connection that went furthest.
THEOREM EndsOnce == TimeAssumption => (Spec => []EndsLatest)
<1> SUFFICES ASSUME TimeAssumption PROVE Spec => []EndsLatest
  OBVIOUS
<1>1. HandoffInv => EndsLatest
  BY DEF HandoffInv, HandoffTypeOK, EndsLatest, Holders, Core, Owners, Once, Owning, Holding
<1> QED
  BY <1>1, HandoffSafe, PTL

\* The time to live of the lock is long enough: SessionTimeout, LockRefresh and
\* RequestTimeout together are what a session may take between two extensions.
THEOREM LockLongEnough == TimeAssumption => (Spec => []LockOutlives)
<1> SUFFICES ASSUME TimeAssumption PROVE Spec => []LockOutlives
  OBVIOUS
<1>1. HandoffInv => LockOutlives
  BY DEF HandoffInv, LockOutlives, Holders, Core, Owners, Owning, Alive
<1> QED
  BY <1>1, HandoffSafe, PTL

(***************************************************************************)
(* The configuration cache: types.                                         *)
(***************************************************************************)
\* What has been read of every collection is a revision.
LEMMA ReadAll ==
  ASSUME NEW p \in Partial, None \notin {p[k] : k \in Collection}
  PROVE  p \in Revision
BY DEF Partial, Revision

\* The timer of the snapshot that is replaced.
LEMMA NewTimerType ==
  ASSUME CacheAssumption, CacheTypeOK, NEW w \in Worker
  PROVE  NewTimer(w) \subseteq Eviction
<1>1. CASE cur[w] = None
  BY <1>1 DEF NewTimer
<1>2. CASE cur[w] # None
  <2>1. cur[w] \in Revision /\ Evict \in 1 .. Evict
    BY <1>2 DEF CacheTypeOK, CacheAssumption
  <2>2. [rev |-> cur[w], left |-> Evict, valid |-> TRUE] \in Eviction
    BY <2>1 DEF Eviction
  <2> QED BY <1>2, <2>2 DEF NewTimer
<1> QED BY <1>1, <1>2

\* The timers of the replaced snapshot, and those that are put out of use.
LEMMA TimersType ==
  ASSUME CacheAssumption, CacheTypeOK, NEW w \in Worker, NEW r
  PROVE  Disarm(timers[w] \cup NewTimer(w), r) \subseteq Eviction
<1>1. NewTimer(w) \subseteq Eviction
  BY NewTimerType
<1>2. timers[w] \subseteq Eviction
  BY DEF CacheTypeOK
<1>3. ASSUME NEW t \in Eviction
      PROVE  [t EXCEPT !.valid = @ /\ t.rev # r] \in Eviction
  BY DEF Eviction
<1> QED BY <1>1, <1>2, <1>3 DEF Disarm

\* A refresh that fails keeps the types.
LEMMA BrokenType ==
  ASSUME CacheAssumption, CacheTypeOK, NEW w \in Worker, Broken(w),
         UNCHANGED <<config, editing, hash, raced, edits>>,
         cacheLock' \in Worker \cup {None}, fails' \in 0 .. MaxFails
  PROVE  CacheTypeOK'
<1>1. /\ seen' \in [Worker -> Revision \cup {None}]
      /\ got' \in [Worker -> Partial]
      /\ locked' \in [Worker -> BOOLEAN]
  BY DEF Broken, CacheTypeOK, NothingRead, Partial
<1>2. CASE refreshPc' = [refreshPc EXCEPT ![w] = "stuck"] /\ UNCHANGED <<cur, snaps, timers, ago>>
  BY <1>1, <1>2 DEF CacheTypeOK
<1>3. CASE /\ refreshPc' = [refreshPc EXCEPT ![w] = "idle"]
           /\ cur' = [cur EXCEPT ![w] = None]
           /\ snaps' = [snaps EXCEPT ![w] = {}]
           /\ timers' = [timers EXCEPT ![w] = {}]
           /\ ago' = [ago EXCEPT ![w] = LongAgo]
  <2>1. LongAgo \in [Revision -> 0 .. Evict]
    BY DEF LongAgo, CacheAssumption
  <2>2. ago' \in [Worker -> [Revision -> 0 .. Evict]]
    BY <1>3, <2>1 DEF CacheTypeOK
  <2> QED BY <1>1, <1>3, <2>2 DEF CacheTypeOK
<1> QED BY <1>2, <1>3 DEF Broken

\* A refresh, as it goes on, keeps the types.
LEMMA RefreshType ==
  ASSUME CacheAssumption, CacheTypeOK, NEW w \in Worker, GetHash(w) \/ Refresh(w)
  PROVE  CacheTypeOK'
<1>1. CASE GetHash(w)
  BY <1>1 DEF GetHash, Advance, CacheTypeOK
<1>2. CASE TryLock(w)
  BY <1>2 DEF TryLock, Advance, CacheTypeOK
<1>3. ASSUME NEW k \in Collection, Fetch(w, k) PROVE CacheTypeOK'
  <2>1. config[k] \in {0, 1} /\ got[w] \in Partial
    BY DEF CacheTypeOK, Revision
  <2>2. got' \in [Worker -> Partial]
    <3>1. [got[w] EXCEPT ![k] = config[k]] \in Partial
      BY <2>1 DEF Partial
    <3>2. got' = [got EXCEPT ![w] = [got[w] EXCEPT ![k] = config[k]]]
      BY <1>3 DEF Fetch
    <3> QED BY <3>1, <3>2 DEF CacheTypeOK
  <2> QED BY <1>3, <2>2 DEF Fetch, CacheTypeOK
<1>4. CASE Install(w)
  <2>1. got[w] \in Revision
    BY <1>4, ReadAll DEF Install, CacheTypeOK
  <2>2. timers' \in [Worker -> SUBSET Eviction]
    <3>1. timers' = [timers EXCEPT ![w] = Disarm(timers[w] \cup NewTimer(w), got[w])]
      BY <1>4 DEF Install
    <3> QED BY <3>1, TimersType DEF CacheTypeOK
  <2>3. ago' \in [Worker -> [Revision -> 0 .. Evict]]
    <3>1. ago' = [ago EXCEPT ![w] = [ago[w] EXCEPT ![got[w]] = 0]]
      BY <1>4 DEF Install
    <3>2. ago[w] \in [Revision -> 0 .. Evict] /\ 0 \in 0 .. Evict
      BY DEF CacheTypeOK, CacheAssumption
    <3>3. [ago[w] EXCEPT ![got[w]] = 0] \in [Revision -> 0 .. Evict]
      BY <3>2
    <3> QED BY <3>1, <3>3 DEF CacheTypeOK
  <2>4. got' \in [Worker -> Partial]
    BY <1>4 DEF Install, CacheTypeOK, NothingRead, Partial
  <2>5. cur' \in [Worker -> Revision \cup {None}] /\ snaps' \in [Worker -> SUBSET Revision]
    BY <1>4, <2>1 DEF Install, CacheTypeOK
  <2>6. refreshPc' \in [Worker -> {"idle", "locking", "reading", "storing",
                                   "releasing", "stuck"}]
    BY <1>4 DEF Install, Advance, CacheTypeOK
  <2> QED BY <1>4, <2>2, <2>3, <2>4, <2>5, <2>6 DEF Install, CacheTypeOK
<1>5. CASE StoreHash(w)
  BY <1>5 DEF StoreHash, Advance, CacheTypeOK
<1>6. CASE Release(w)
  <2>1. CASE Broken(w) /\ UNCHANGED <<config, editing, hash, cacheLock, raced, edits, fails>>
    BY <2>1, BrokenType DEF CacheTypeOK
  <2>2. CASE /\ cacheLock' = None
             /\ Advance(w, "releasing", "idle")
             /\ locked' = [locked EXCEPT ![w] = FALSE]
             /\ UNCHANGED <<config, editing, hash, cur, snaps, timers, seen, got,
                            ago, raced, edits, fails>>
    BY <2>2 DEF Advance, CacheTypeOK
  <2> QED BY <1>6, <2>1, <2>2 DEF Release
<1> QED BY <1>1, <1>2, <1>3, <1>4, <1>5, <1>6 DEF Refresh

\* Edits and the expiry of documents keep the types.
LEMMA EditType ==
  ASSUME CacheAssumption, CacheTypeOK,
         (\E k \in Collection : Edit(k)) \/ Invalidate \/ ExpireHash \/ ExpireCacheLock
  PROVE  CacheTypeOK'
<1>1. ASSUME NEW k \in Collection, Edit(k) PROVE CacheTypeOK'
  <2>1. config' \in Revision
    BY <1>1 DEF Edit, CacheTypeOK, Revision
  <2>2. edits' \in 0 .. MaxEdits
    BY <1>1 DEF Edit, CacheTypeOK, CacheAssumption
  <2> QED BY <1>1, <2>1, <2>2 DEF Edit, CacheTypeOK, refresh
<1>2. CASE Invalidate
  BY <1>2 DEF Invalidate, Invalidated, CacheTypeOK, refresh
<1>3. CASE ExpireHash
  BY <1>3 DEF ExpireHash, CacheTypeOK, refresh
<1>4. CASE ExpireCacheLock
  <2>1. fails' \in 0 .. MaxFails
    BY <1>4 DEF ExpireCacheLock, CacheTypeOK, CacheAssumption
  <2> QED BY <1>4, <2>1 DEF ExpireCacheLock, CacheTypeOK, refresh
<1> QED BY <1>1, <1>2, <1>3, <1>4

\* Time keeps the types.
LEMMA CacheTickType ==
  ASSUME CacheAssumption, CacheTypeOK, CacheTick
  PROVE  CacheTypeOK'
<1>1. ASSUME NEW T \in SUBSET Eviction PROVE Shorter(T) \subseteq Eviction
  <2>1. ASSUME NEW t \in Eviction, t.left > 1 PROVE [t EXCEPT !.left = @ - 1] \in Eviction
    BY <2>1 DEF Eviction, CacheAssumption
  <2> QED BY <2>1 DEF Shorter
<1>2. timers' \in [Worker -> SUBSET Eviction]
  BY <1>1 DEF CacheTick, CacheTypeOK
<1>3. ago' \in [Worker -> [Revision -> 0 .. Evict]]
  <2>1. ASSUME NEW w \in Worker, NEW r \in Revision
        PROVE  ago[w][r] \in 0 .. Evict /\ (ago[w][r] # Evict => ago[w][r] + 1 \in 0 .. Evict)
    <3>1. ago[w][r] \in 0 .. Evict /\ Evict \in Nat
      BY DEF CacheTypeOK, CacheAssumption
    <3> QED BY <3>1
  <2> QED BY <2>1 DEF CacheTick
<1>4. snaps' \in [Worker -> SUBSET Revision]
  BY DEF CacheTick, CacheTypeOK
<1> QED BY <1>2, <1>3, <1>4 DEF CacheTick, CacheTypeOK

\* Every step keeps the types.
LEMMA CacheTypeStep ==
  ASSUME CacheAssumption, CacheTypeOK, [CacheNext]_cacheVars
  PROVE  CacheTypeOK'
<1>1. ASSUME NEW w \in Worker, Fail(w) PROVE CacheTypeOK'
  <2>1. fails' \in 0 .. MaxFails
    BY <1>1 DEF Fail, CacheTypeOK, CacheAssumption
  <2> QED BY <1>1, <2>1, BrokenType DEF Fail, CacheTypeOK
<1>2. CASE UNCHANGED cacheVars
  BY <1>2 DEF cacheVars, refresh, CacheTypeOK
<1> QED BY <1>1, <1>2, RefreshType, EditType, CacheTickType DEF CacheNext
\* The type invariant of the cache, for any number of workers, collections,
\* edits and failures.
THEOREM CacheTyping == CacheAssumption => (CacheSpec => []CacheTypeOK)
<1> SUFFICES ASSUME CacheAssumption PROVE CacheSpec => []CacheTypeOK
  OBVIOUS
<1>1. CacheInit => CacheTypeOK
  <2> SUFFICES ASSUME CacheInit PROVE CacheTypeOK
    OBVIOUS
  <2>1. config \in Revision /\ got \in [Worker -> Partial]
    BY DEF CacheInit, Revision, Partial, NothingRead
  <2>2. ago \in [Worker -> [Revision -> 0 .. Evict]]
    BY DEF CacheInit, LongAgo, CacheAssumption
  <2>3. edits \in 0 .. MaxEdits /\ fails \in 0 .. MaxFails
    BY DEF CacheInit, CacheAssumption
  <2> QED BY <2>1, <2>2, <2>3 DEF CacheInit, CacheTypeOK
<1>2. CacheTypeOK /\ [CacheNext]_cacheVars => CacheTypeOK'
  BY CacheTypeStep
<1> QED BY <1>1, <1>2, PTL DEF CacheSpec

(***************************************************************************)
(* Snapshots stay for a while.  A timer that may still evict a snapshot is *)
(* of one that is not the current one, and has as much time left as is     *)
(* left of the while: the clock of the history and the timer agree.        *)
(***************************************************************************)
KeptBy(w) ==
  /\ cur[w] # None => cur[w] \in snaps[w] /\ ago[w][cur[w]] = 0
  /\ \A r \in Revision : ago[w][r] < Evict => r \in snaps[w]
  /\ \A t \in timers[w] :
       t.valid => t.rev # cur[w] /\ t.left + ago[w][t.rev] = Evict

Kept == \A w \in Worker : KeptBy(w)

\* What the snapshots of a worker depend on.
LEMMA KeptSame ==
  ASSUME NEW w \in Worker, KeptBy(w),
         cur'[w] = cur[w], snaps'[w] = snaps[w], timers'[w] = timers[w],
         ago'[w] = ago[w]
  PROVE  KeptBy(w)'
BY DEF KeptBy

\* A new snapshot: the timer of the one it replaces starts with the clock.
LEMMA KeptInstall ==
  ASSUME CacheAssumption, CacheTypeOK, NEW w \in Worker, KeptBy(w), Install(w)
  PROVE  KeptBy(w)'
<1> DEFINE r == got[w]
<1> r \in Revision
  BY ReadAll DEF Install, CacheTypeOK
<1>1. cur'[w] = r /\ snaps'[w] = snaps[w] \cup {r}
  BY DEF Install, CacheTypeOK
<1>2. timers'[w] = Disarm(timers[w] \cup NewTimer(w), r)
  BY DEF Install, CacheTypeOK
<1>3. ago[w] \in [Revision -> 0 .. Evict] /\ ago'[w] = [ago[w] EXCEPT ![r] = 0]
  BY DEF Install, CacheTypeOK
<1>4. ASSUME NEW t \in timers'[w], t.valid
      PROVE  t.rev # r /\ t.left + ago'[w][t.rev] = Evict
  <2>1. PICK u \in timers[w] \cup NewTimer(w) : t = [u EXCEPT !.valid = @ /\ u.rev # r]
    BY <1>2 DEF Disarm
  <2>2. u \in Eviction
    <3>1. timers[w] \subseteq Eviction
      BY DEF CacheTypeOK
    <3>2. NewTimer(w) \subseteq Eviction
      BY NewTimerType
    <3> QED BY <3>1, <3>2
  <2>3. u.valid /\ u.rev # r /\ t.rev = u.rev /\ t.left = u.left
    BY <1>4, <2>1, <2>2 DEF Eviction
  <2>4. ago'[w][u.rev] = ago[w][u.rev]
    BY <1>3, <2>2, <2>3 DEF Eviction
  <2>5. CASE u \in timers[w]
    BY <2>3, <2>4, <2>5 DEF KeptBy
  <2>6. CASE u \in NewTimer(w)
    <3>1. cur[w] # None /\ u = [rev |-> cur[w], left |-> Evict, valid |-> TRUE]
      BY <2>6 DEF NewTimer
    <3>2. u.left = Evict /\ ago[w][u.rev] = 0
      BY <3>1 DEF KeptBy
    <3> QED BY <2>3, <2>4, <3>2 DEF CacheAssumption
  <2> QED BY <2>5, <2>6
<1>5. \A q \in Revision : ago'[w][q] < Evict => q \in snaps'[w]
  BY <1>1, <1>3 DEF KeptBy
<1>6. ago'[w][r] = 0
  BY <1>3
<1> QED BY <1>1, <1>4, <1>5, <1>6 DEF KeptBy

\* A worker that starts again has no snapshots, and owes none.
LEMMA KeptBroken ==
  ASSUME CacheAssumption, CacheTypeOK, NEW w \in Worker, KeptBy(w), Broken(w)
  PROVE  KeptBy(w)'
<1>1. CASE UNCHANGED <<cur, snaps, timers, ago>>
  BY <1>1, KeptSame
<1>2. CASE /\ cur' = [cur EXCEPT ![w] = None]
           /\ snaps' = [snaps EXCEPT ![w] = {}]
           /\ timers' = [timers EXCEPT ![w] = {}]
           /\ ago' = [ago EXCEPT ![w] = LongAgo]
  <2>1. cur'[w] = None /\ timers'[w] = {} /\ ago'[w] = LongAgo
    BY <1>2 DEF CacheTypeOK
  <2>2. \A r \in Revision : ~(ago'[w][r] < Evict)
    BY <2>1 DEF LongAgo, CacheAssumption
  <2> QED BY <2>1, <2>2 DEF KeptBy
<1> QED BY <1>1, <1>2 DEF Broken

\* Time: a timer fires only when the while is over.
LEMMA KeptTick ==
  ASSUME CacheAssumption, CacheTypeOK, NEW w \in Worker, KeptBy(w), CacheTick
  PROVE  KeptBy(w)'
<1> Evict \in Nat \ {0}
  BY DEF CacheAssumption
<1>1. /\ cur'[w] = cur[w]
      /\ snaps'[w] = snaps[w] \ Evicted(w)
      /\ timers'[w] = Shorter(timers[w])
  BY DEF CacheTick
<1>2. \A r \in Revision : ago[w][r] \in 0 .. Evict
  BY DEF CacheTypeOK
<1>3. \A r \in Revision :
        ago'[w][r] = IF r = cur[w] \/ ago[w][r] = Evict THEN ago[w][r] ELSE ago[w][r] + 1
  BY DEF CacheTick
<1>4. timers[w] \subseteq Eviction /\ cur[w] \in Revision \cup {None}
  BY DEF CacheTypeOK
<1>5. \A t \in timers[w] : t.valid /\ t.left = 1 =>
        t.rev \in Revision /\ t.rev # cur[w] /\ ago[w][t.rev] + 1 = Evict
  BY <1>2, <1>4 DEF KeptBy, Eviction
<1>6. cur[w] # None => cur'[w] \in snaps'[w] /\ ago'[w][cur'[w]] = 0
  BY <1>1, <1>3, <1>4, <1>5 DEF KeptBy, Evicted
<1>7. ASSUME NEW r \in Revision, ago'[w][r] < Evict PROVE r \in snaps'[w]
  <2>1. ago[w][r] < Evict /\ (r = cur[w] \/ ago[w][r] + 1 < Evict)
    BY <1>2, <1>3, <1>7
  <2>2. r \notin Evicted(w)
    BY <1>5, <2>1 DEF Evicted
  <2> QED BY <1>1, <2>1, <2>2 DEF KeptBy
<1>8. ASSUME NEW t \in timers'[w], t.valid
      PROVE  t.rev # cur'[w] /\ t.left + ago'[w][t.rev] = Evict
  <2>1. PICK u \in timers[w] : u.left > 1 /\ t = [u EXCEPT !.left = @ - 1]
    BY <1>1 DEF Shorter
  <2>2. u \in Eviction
    BY <1>4
  <2>3. u.valid /\ t.rev = u.rev /\ t.left = u.left - 1
    BY <1>8, <2>1, <2>2 DEF Eviction
  <2>4. u.rev # cur[w] /\ u.left + ago[w][u.rev] = Evict
    BY <2>3 DEF KeptBy
  <2>5. u.rev \in Revision /\ u.left \in Nat
    BY <2>2 DEF Eviction
  <2>6. ago'[w][u.rev] = ago[w][u.rev] + 1
    BY <1>2, <1>3, <2>1, <2>4, <2>5
  <2>7. ago[w][u.rev] \in Nat
    BY <1>2, <2>5
  <2> QED BY <1>1, <2>3, <2>4, <2>5, <2>6, <2>7
<1> QED BY <1>1, <1>6, <1>7, <1>8 DEF KeptBy

\* A step of one worker is not one of another.
LEMMA KeptElsewhere ==
  ASSUME CacheTypeOK, NEW w \in Worker, NEW v \in Worker, v # w, KeptBy(v),
         GetHash(w) \/ Refresh(w) \/ Fail(w)
  PROVE  KeptBy(v)'
<1>1. CASE Install(w)
  BY <1>1, KeptSame DEF Install, CacheTypeOK
<1>2. CASE Broken(w)
  BY <1>2, KeptSame DEF Broken, CacheTypeOK
<1>3. CASE GetHash(w) \/ TryLock(w) \/ StoreHash(w) \/ \E k \in Collection : Fetch(w, k)
  BY <1>3, KeptSame DEF GetHash, TryLock, StoreHash, Fetch
<1>4. CASE Release(w)
  BY <1>2, <1>4, KeptSame DEF Release
<1> QED BY <1>1, <1>2, <1>3, <1>4 DEF Refresh, Fail

\* Every step keeps the snapshots.
LEMMA KeptStep ==
  ASSUME CacheAssumption, CacheTypeOK, Kept, [CacheNext]_cacheVars
  PROVE  Kept'
<1>1. ASSUME NEW w \in Worker, GetHash(w) \/ Refresh(w) \/ Fail(w) PROVE Kept'
  <2>1. KeptBy(w)
    BY DEF Kept
  <2>2. CASE Install(w)
    BY <1>1, <2>1, <2>2, KeptInstall, KeptElsewhere DEF Kept
  <2>3. CASE Broken(w)
    BY <1>1, <2>1, <2>3, KeptBroken, KeptElsewhere DEF Kept
  <2>4. CASE UNCHANGED <<cur, snaps, timers, ago>>
    BY <2>4, KeptSame DEF Kept
  <2> QED BY <1>1, <2>2, <2>3, <2>4
       DEF GetHash, Refresh, TryLock, StoreHash, Release, Fetch, Fail
<1>2. CASE CacheTick
  BY <1>2, KeptTick DEF Kept
<1>3. CASE (\E k \in Collection : Edit(k)) \/ Invalidate \/ ExpireHash \/ ExpireCacheLock
  BY <1>3, KeptSame DEF Kept, Edit, Invalidate, ExpireHash, ExpireCacheLock, refresh
<1>4. CASE UNCHANGED cacheVars
  BY <1>4, KeptSame DEF Kept, cacheVars, refresh
<1> QED BY <1>1, <1>2, <1>3, <1>4 DEF CacheNext

\* A session finds its snapshot on every worker that had it within EVICT_TIMEOUT,
\* for any timeout, any number of workers and any edits.
THEOREM SnapshotsStay == CacheAssumption => (CacheSpec => []SnapshotKept)
<1> SUFFICES ASSUME CacheAssumption PROVE CacheSpec => []SnapshotKept
  OBVIOUS
<1>1. CacheInit => Kept
  BY DEF CacheInit, Kept, KeptBy, LongAgo, CacheAssumption
<1>2. CacheTypeOK /\ Kept /\ [CacheNext]_cacheVars => Kept'
  BY KeptStep
<1>3. Kept => SnapshotKept
  BY DEF Kept, KeptBy, SnapshotKept
<1> QED BY <1>1, <1>2, <1>3, CacheTyping, PTL DEF CacheSpec

(***************************************************************************)
(* The shared hash.  It is written by a worker that had the lock when it   *)
(* began to read: what such a worker has read is what the collections      *)
(* hold, unless an edit is under way or a race is known.                   *)
(***************************************************************************)
Stages ==
  \A w \in Worker :
    /\ refreshPc[w] # "reading" => got[w] = NothingRead
    /\ refreshPc[w] = "storing" => locked[w]

Honest ==
  /\ Stages
  /\ StaleOnlyAfterRace
  /\ raced \/ editing \/ \A w \in Worker : ~Outdated(w)

\* Every step of a refresh keeps the stages apart.
LEMMA StagesStep ==
  ASSUME CacheTypeOK, Stages, [CacheNext]_cacheVars
  PROVE  Stages'
<1>1. ASSUME NEW w \in Worker, Broken(w) PROVE Stages'
  BY <1>1 DEF Broken, Stages, CacheTypeOK
<1>2. ASSUME NEW w \in Worker, GetHash(w) PROVE Stages'
  BY <1>2 DEF GetHash, Advance, Stages, CacheTypeOK
<1>3. ASSUME NEW w \in Worker, TryLock(w) PROVE Stages'
  BY <1>3 DEF TryLock, Advance, Stages, CacheTypeOK
<1>4. ASSUME NEW w \in Worker, NEW k \in Collection, Fetch(w, k) PROVE Stages'
  BY <1>4 DEF Fetch, Stages, CacheTypeOK
<1>5. ASSUME NEW w \in Worker, Install(w) PROVE Stages'
  BY <1>5 DEF Install, Advance, Stages, CacheTypeOK
<1>6. ASSUME NEW w \in Worker, StoreHash(w) PROVE Stages'
  BY <1>6 DEF StoreHash, Advance, Stages, CacheTypeOK
<1>7. ASSUME NEW w \in Worker, Release(w) PROVE Stages'
  <2>1. CASE Advance(w, "releasing", "idle") /\ locked' = [locked EXCEPT ![w] = FALSE] /\ got' = got
    BY <2>1 DEF Advance, Stages, CacheTypeOK
  <2> QED BY <1>1, <1>7, <2>1 DEF Release
<1>8. CASE UNCHANGED <<refreshPc, got, locked>>
  BY <1>8 DEF Stages
<1> QED BY <1>1, <1>2, <1>3, <1>4, <1>5, <1>6, <1>7, <1>8
     DEF CacheNext, Refresh, Fail, Edit, Invalidate, ExpireHash, ExpireCacheLock,
         CacheTick, cacheVars, refresh

\* A worker that failed writes nothing into the hash.
LEMMA HonestBroken ==
  ASSUME CacheTypeOK, Honest, NEW w \in Worker, Broken(w),
         UNCHANGED <<config, editing, hash, raced>>
  PROVE  StaleOnlyAfterRace' /\ (raced' \/ editing' \/ \A v \in Worker : ~Outdated(v)')
<1>1. ASSUME NEW v \in Worker, ~Outdated(v) PROVE ~Outdated(v)'
  <2>1. CASE v = w
    BY <2>1 DEF Broken, Outdated, CacheTypeOK
  <2>2. CASE v # w
    BY <1>1, <2>2 DEF Broken, Outdated, CacheTypeOK
  <2> QED BY <2>1, <2>2
<1> QED BY <1>1 DEF Honest, StaleOnlyAfterRace

\* What a refresh reads is what the collections hold, and what it has read is
\* what it writes.
LEMMA HonestRefresh ==
  ASSUME CacheAssumption, CacheTypeOK, Honest, NEW w \in Worker,
         GetHash(w) \/ Refresh(w) \/ Fail(w)
  PROVE  StaleOnlyAfterRace' /\ (raced' \/ editing' \/ \A v \in Worker : ~Outdated(v)')
<1>1. CASE Broken(w) /\ UNCHANGED <<config, editing, hash, raced>>
  BY <1>1, HonestBroken
<1>2. CASE GetHash(w)
  <2>1. \A v \in Worker : ~Outdated(v) => ~Outdated(v)'
    BY <1>2 DEF GetHash, Advance, Outdated, CacheTypeOK
  <2> QED BY <1>2, <2>1 DEF GetHash, Honest, StaleOnlyAfterRace
<1>3. CASE TryLock(w)
  <2>1. got[w] = NothingRead
    BY <1>3 DEF TryLock, Advance, Honest, Stages
  <2>2. \A v \in Worker : ~Outdated(v) => ~Outdated(v)'
    BY <1>3, <2>1 DEF TryLock, Advance, Outdated, CacheTypeOK, NothingRead
  <2> QED BY <1>3, <2>2 DEF TryLock, Honest, StaleOnlyAfterRace
<1>4. ASSUME NEW k \in Collection, Fetch(w, k)
      PROVE  StaleOnlyAfterRace' /\ (raced' \/ editing' \/ \A v \in Worker : ~Outdated(v)')
  <2>1. \A v \in Worker, j \in Collection :
          got'[v][j] = IF v = w /\ j = k THEN config[k] ELSE got[v][j]
    BY <1>4 DEF Fetch, CacheTypeOK, Partial
  <2>2. \A v \in Worker : ~Outdated(v) => ~Outdated(v)'
    BY <1>4, <2>1 DEF Fetch, Outdated
  <2> QED BY <1>4, <2>2 DEF Fetch, Honest, StaleOnlyAfterRace
<1>5. CASE Install(w)
  <2>1. cur' = [cur EXCEPT ![w] = got[w]] /\ UNCHANGED <<config, editing, hash, raced, locked>>
    BY <1>5 DEF Install
  <2>2. ASSUME ~Outdated(w), locked[w] PROVE cur'[w] = config
    <3>1. \A k \in Collection : got[w][k] = config[k]
      BY <1>5, <2>2 DEF Install, Advance, Outdated
    <3>2. got[w] = config
      BY <3>1 DEF CacheTypeOK, Partial, Revision
    <3> QED BY <2>1, <3>2 DEF CacheTypeOK
  <2>3. ASSUME NEW v \in Worker, ~Outdated(v) PROVE ~Outdated(v)'
    <3>1. CASE v = w
      BY <1>5, <2>1, <2>2, <2>3, <3>1 DEF Install, Advance, Outdated, CacheTypeOK
    <3>2. CASE v # w
      BY <1>5, <2>1, <2>3, <3>2 DEF Install, Advance, Outdated, CacheTypeOK
    <3> QED BY <3>1, <3>2
  <2> QED BY <2>1, <2>3 DEF Honest, StaleOnlyAfterRace
<1>6. CASE StoreHash(w)
  <2>1. refreshPc[w] = "storing" /\ locked[w]
    BY <1>6 DEF StoreHash, Advance, Honest, Stages
  <2>2. ~Outdated(w) => hash' = config \/ hash' = hash
    BY <1>6, <2>1 DEF StoreHash, Outdated
  <2>3. \A v \in Worker : ~Outdated(v) => ~Outdated(v)'
    BY <1>6 DEF StoreHash, Advance, Outdated, CacheTypeOK
  <2> QED BY <1>6, <2>2, <2>3 DEF StoreHash, Honest, StaleOnlyAfterRace
<1>7. CASE /\ Advance(w, "releasing", "idle")
           /\ locked' = [locked EXCEPT ![w] = FALSE]
           /\ UNCHANGED <<config, editing, hash, cur, got, raced>>
  <2>1. \A v \in Worker : ~Outdated(v) => ~Outdated(v)'
    BY <1>7 DEF Advance, Outdated, CacheTypeOK
  <2> QED BY <1>7, <2>1 DEF Honest, StaleOnlyAfterRace
<1> QED BY <1>1, <1>2, <1>3, <1>4, <1>5, <1>6, <1>7 DEF Refresh, Release, Fail

\* Every step keeps the hash honest.
LEMMA HonestStep ==
  ASSUME CacheAssumption, CacheTypeOK, Honest, [CacheNext]_cacheVars
  PROVE  Honest'
<1>1. Stages'
  BY StagesStep DEF Honest
<1>2. ASSUME NEW w \in Worker, GetHash(w) \/ Refresh(w) \/ Fail(w) PROVE Honest'
  BY <1>1, <1>2, HonestRefresh DEF Honest
<1>3. ASSUME NEW k \in Collection, Edit(k) PROVE Honest'
  BY <1>1, <1>3 DEF Edit, Honest, StaleOnlyAfterRace
<1>4. CASE Invalidate
  <2>1. \A w \in Worker : Outdated(w)' => Outdated(w)
    BY <1>4 DEF Invalidate, Outdated, refresh
  <2>2. hash' = None /\ raced' = (raced \/ \E w \in Worker : Outdated(w))
    BY <1>4 DEF Invalidate, Invalidated
  <2> QED BY <1>1, <2>1, <2>2 DEF Honest, StaleOnlyAfterRace
<1>5. CASE /\ UNCHANGED <<config, editing, refreshPc, cur, got, locked, raced>>
           /\ hash' \in {hash, None}
  <2>1. \A w \in Worker : Outdated(w)' => Outdated(w)
    BY <1>5 DEF Outdated
  <2> QED BY <1>1, <1>5, <2>1 DEF Honest, StaleOnlyAfterRace
<1> QED BY <1>2, <1>3, <1>4, <1>5
     DEF CacheNext, ExpireHash, ExpireCacheLock, CacheTick, cacheVars, refresh

\* The hash the workers share is that of the configuration when no edit is under
\* way, unless an edit met a refresh: for any number of workers and collections.
THEOREM HashHonest == CacheAssumption => (CacheSpec => []StaleOnlyAfterRace)
<1> SUFFICES ASSUME CacheAssumption PROVE CacheSpec => []StaleOnlyAfterRace
  OBVIOUS
<1>1. CacheInit => Honest
  BY DEF CacheInit, Honest, Stages, StaleOnlyAfterRace, Outdated
<1>2. CacheTypeOK /\ Honest /\ [CacheNext]_cacheVars => Honest'
  BY HonestStep
<1>3. Honest => StaleOnlyAfterRace
  BY DEF Honest
<1> QED BY <1>1, <1>2, <1>3, CacheTyping, PTL DEF CacheSpec
=============================================================================
