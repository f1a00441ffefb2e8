----------------------------- MODULE Parts_proofs -----------------------------
(***************************************************************************)
(* Theorems about the parts of a server beside the session's own loop: the *)
(* jobs a worker gives to the processes of extensions (Extensions), for    *)
(* any number of both; the workers that the primary process forks again    *)
(* (Cluster), for any number of workers and any limits; the downloads      *)
(* whose outcome sessions wait for (Downloads), for any number of          *)
(* downloads, sessions and crashes; and the updates of the Wi-Fi settings  *)
(* (WifiUpdate), for any pages, configurations, updates and failing calls. *)
(* The four modules share nothing.                                         *)
(***************************************************************************)
EXTENDS Extensions, Cluster, Downloads, WifiUpdate, FiniteSetTheorems, TLAPS

(***************************************************************************)
(* Extensions: types.                                                      *)
(***************************************************************************)
\* Resolving the jobs of a set counts a result for each of them.
LEMMA ResolveType ==
  ASSUME NEW J, Resolve(J), results \in [Job -> Nat]
  PROVE  /\ results' \in [Job -> Nat]
         /\ \A j \in Job : results'[j] = IF j \in J THEN results[j] + 1 ELSE results[j]
BY DEF Resolve

\* A run keeps the types.
LEMMA RunType ==
  ASSUME ExtensionsTypeOK, NEW j \in Job, Run(j), SpawnAssumption
  PROVE  ExtensionsTypeOK'
<1>1. ASSUME NEW p \in Proc, Send(j, p), state' \in [Proc -> State],
             spawner' \in [Proc -> SUBSET Job], current' \in Proc \cup {0}
      PROVE  ExtensionsTypeOK'
  BY <1>1 DEF ExtensionsTypeOK, Send, Armed
<1>2. CASE current # 0 /\ UNCHANGED <<current, state, spawner>> /\ Send(j, current)
  BY <1>1, <1>2 DEF ExtensionsTypeOK
<1>3. ASSUME NEW p \in Proc, NEW s \in {"up", "broken"},
             current' = p, state' = [state EXCEPT ![p] = s],
             spawner' = [spawner EXCEPT ![p] = {j}], Send(j, p)
      PROVE  ExtensionsTypeOK'
  <2>1. state' \in [Proc -> State] /\ spawner' \in [Proc -> SUBSET Job]
    BY <1>3 DEF ExtensionsTypeOK, State
  <2> QED BY <1>1, <1>3, <2>1
<1> QED BY <1>2, <1>3 DEF Run

\* Every step of a process, or event of it, keeps the types.
LEMMA ProcType ==
  ASSUME ExtensionsTypeOK, NEW p \in Proc,
         \/ Uncaught(p) \/ Exit(p) \/ Break(p) \/ Error(p) \/ Disconnect(p)
         \/ \E j \in Job : Answer(p, j) \/ Message(p, j)
  PROVE  ExtensionsTypeOK'
<1>1. CASE Uncaught(p) \/ Exit(p) \/ Break(p)
  BY <1>1 DEF ExtensionsTypeOK, State, Uncaught, Exit, Break
<1>2. CASE Error(p)
  <2>1. state' \in [Proc -> State] /\ UNCHANGED <<spawner, inbox, outbox, armed, told>>
    BY <1>2 DEF Error, ExtensionsTypeOK, State
  <2>2. CASE current = p
    <3>1. Resolve(jobs \cap spawner[p]) /\ current' = 0 /\ jobs' = jobs \ spawner[p]
      BY <1>2, <2>2 DEF Error
    <3>2. results' \in [Job -> Nat]
      BY <3>1, ResolveType DEF ExtensionsTypeOK
    <3> QED BY <2>1, <3>1, <3>2 DEF ExtensionsTypeOK
  <2>3. CASE current # p
    BY <1>2, <2>1, <2>3 DEF Error, ExtensionsTypeOK
  <2> QED BY <2>2, <2>3
<1>3. CASE Disconnect(p)
  BY <1>3 DEF ExtensionsTypeOK, State, Disconnect, Unregister
<1>4. ASSUME NEW j \in Job, Answer(p, j) PROVE ExtensionsTypeOK'
  BY <1>4 DEF ExtensionsTypeOK, Answer
<1>5. ASSUME NEW j \in Job, Message(p, j) PROVE ExtensionsTypeOK'
  BY <1>5 DEF ExtensionsTypeOK, Message
<1> QED BY <1>1, <1>2, <1>3, <1>4, <1>5

\* The type invariant of the jobs and processes.
THEOREM ExtensionsTyping == SpawnAssumption => (JobsSpec => []ExtensionsTypeOK)
<1> SUFFICES ASSUME SpawnAssumption PROVE JobsSpec => []ExtensionsTypeOK
  OBVIOUS
<1>1. JobsInit => ExtensionsTypeOK
  BY DEF JobsInit, ExtensionsTypeOK, State
<1>2. ExtensionsTypeOK /\ [JobsNext]_jobVars => ExtensionsTypeOK'
  <2> SUFFICES ASSUME ExtensionsTypeOK, [JobsNext]_jobVars PROVE ExtensionsTypeOK'
    OBVIOUS
  <2>1. ASSUME NEW j \in Job, Run(j) PROVE ExtensionsTypeOK'
    BY <2>1, RunType
  <2>2. ASSUME NEW j \in Job, Tell(j) PROVE ExtensionsTypeOK'
    <3>1. results' \in [Job -> Nat]
      BY <2>2, ResolveType DEF Tell, ExtensionsTypeOK
    <3> QED BY <2>2, <3>1 DEF Tell, ExtensionsTypeOK, procs
  <2>3. ASSUME NEW j \in Job, Timeout(j) PROVE ExtensionsTypeOK'
    <3>1. results' \in [Job -> Nat]
      BY <2>3, ResolveType DEF Timeout, ExtensionsTypeOK
    <3> QED BY <2>3, <3>1 DEF Timeout, ExtensionsTypeOK, procs
  <2>4. CASE UNCHANGED jobVars
    BY <2>4 DEF jobVars, procs, ExtensionsTypeOK
  <2> QED BY <2>1, <2>2, <2>3, <2>4, ProcType DEF JobsNext
<1> QED BY <1>1, <1>2, PTL DEF JobsSpec

(***************************************************************************)
(* One result.                                                             *)
(***************************************************************************)
\* A job that waits, for its answer or to be told of it, has no result yet, and
\* waits in one way only.
Awaited ==
  /\ jobs \cap told = {}
  /\ \A j \in jobs \cup told : results[j] = 0

\* The steps that resolve nothing move jobs at most from jobs to told.
LEMMA AwaitedMoves ==
  ASSUME Awaited, OneResult, UNCHANGED results,
         jobs' \subseteq jobs, told' \subseteq told \cup (jobs \ jobs')
  PROVE  Awaited' /\ OneResult'
BY DEF Awaited, OneResult

\* A step that resolves jobs that wait, which then wait no more.
LEMMA AwaitedResolves ==
  ASSUME Awaited, OneResult, ExtensionsTypeOK, NEW J \in SUBSET (jobs \cup told),
         Resolve(J), jobs' \subseteq jobs \ J, told' \subseteq told \ J
  PROVE  Awaited' /\ OneResult'
<1>1. \A j \in Job : results'[j] = IF j \in J THEN results[j] + 1 ELSE results[j]
  BY ResolveType DEF ExtensionsTypeOK
<1>2. J \subseteq Job /\ jobs' \cup told' \subseteq Job \ J
  BY DEF ExtensionsTypeOK
<1>3. \A j \in J : results'[j] = 1
  BY <1>1, <1>2 DEF Awaited
<1>4. \A j \in Job \ J : results'[j] = results[j]
  BY <1>1
<1>5. Awaited'
  BY <1>2, <1>4 DEF Awaited
<1>6. OneResult'
  BY <1>3, <1>4 DEF OneResult
<1> QED BY <1>5, <1>6

\* OneResult with what carries it is inductive.
LEMMA AwaitedStep ==
  ASSUME ExtensionsTypeOK, Awaited, OneResult, [JobsNext]_jobVars
  PROVE  Awaited' /\ OneResult'
<1>1. ASSUME NEW j \in Job, Run(j) PROVE Awaited' /\ OneResult'
  <2>1. j \notin jobs \cup told /\ results[j] = 0
    BY <1>1 DEF Run, Started, ExtensionsTypeOK
  <2>2. jobs' = jobs \cup {j} /\ UNCHANGED <<told, results>>
    BY <1>1 DEF Run, Send
  <2> QED BY <2>1, <2>2 DEF Awaited, OneResult
<1>2. ASSUME NEW j \in Job, Tell(j) PROVE Awaited' /\ OneResult'
  <2>1. j \in told /\ told' = told \ {j} /\ jobs' = jobs /\ Resolve({j})
    BY <1>2 DEF Tell
  <2>2. jobs' \subseteq jobs \ {j}
    BY <2>1 DEF Awaited
  <2> QED BY <2>1, <2>2, AwaitedResolves
<1>3. ASSUME NEW j \in Job, Timeout(j) PROVE Awaited' /\ OneResult'
  <2>1. jobs' = jobs \ {j} /\ told' = told
    BY <1>3 DEF Timeout
  <2>2. CASE j \in jobs
    <3>1. Resolve({j}) /\ told' \subseteq told \ {j}
      BY <1>3, <2>1, <2>2 DEF Timeout, Waiting, Awaited
    <3> QED BY <2>1, <2>2, <3>1, AwaitedResolves
  <2>3. CASE j \notin jobs
    <3>1. Resolve({})
      BY <1>3, <2>3 DEF Timeout, Waiting
    <3> QED BY <2>1, <3>1, AwaitedResolves
  <2> QED BY <2>2, <2>3
<1>4. ASSUME NEW p \in Proc, Error(p) PROVE Awaited' /\ OneResult'
  <2>1. CASE current = p
    <3>1. /\ Resolve(jobs \cap spawner[p])
          /\ jobs' = jobs \ spawner[p] /\ told' = told
      BY <1>4, <2>1 DEF Error
    <3>2. told' \subseteq told \ (jobs \cap spawner[p])
      BY <3>1 DEF Awaited
    <3> QED BY <3>1, <3>2, AwaitedResolves
  <2>2. CASE current # p
    BY <1>4, <2>2, AwaitedMoves DEF Error
  <2> QED BY <2>1, <2>2
<1>5. ASSUME NEW p \in Proc, NEW j \in Job, Message(p, j)
      PROVE  Awaited' /\ OneResult'
  BY <1>5, AwaitedMoves DEF Message
<1>6. ASSUME NEW p \in Proc,
             \/ Uncaught(p) \/ Exit(p) \/ Break(p) \/ Disconnect(p)
             \/ \E j \in Job : Answer(p, j)
      PROVE  Awaited' /\ OneResult'
  BY <1>6, AwaitedMoves DEF Uncaught, Exit, Break, Disconnect, Answer
<1>7. CASE UNCHANGED jobVars
  BY <1>7, AwaitedMoves DEF jobVars
<1> QED BY <1>1, <1>2, <1>3, <1>4, <1>5, <1>6, <1>7 DEF JobsNext

\* No job gets two results, for any number of jobs and processes, and however
\* answers, errors, ends of processes and timeouts are ordered.
THEOREM ResultOnce == SpawnAssumption => (JobsSpec => []OneResult)
<1> SUFFICES ASSUME SpawnAssumption PROVE JobsSpec => []OneResult
  OBVIOUS
<1>1. JobsInit => Awaited /\ OneResult
  BY DEF JobsInit, Awaited, OneResult
<1>2. ExtensionsTypeOK /\ Awaited /\ OneResult /\ [JobsNext]_jobVars => Awaited' /\ OneResult'
  BY AwaitedStep
<1>3. JobsSpec => []ExtensionsTypeOK
  BY ExtensionsTyping
<1> QED BY <1>1, <1>2, <1>3, PTL DEF JobsSpec

(***************************************************************************)
(* Running processes are registered.                                       *)
(***************************************************************************)
\* The worker never has a running process it has forgotten, for any number of
\* processes whose ends come late.
THEOREM ProcessesKnown == SpawnAssumption => (JobsSpec => []NoneForgotten)
<1> SUFFICES ASSUME SpawnAssumption PROVE JobsSpec => []NoneForgotten
  OBVIOUS
<1>0. 0 \notin Proc
  BY DEF Proc, SpawnAssumption
<1>1. JobsInit => NoneForgotten
  BY DEF JobsInit, NoneForgotten
<1>2. ExtensionsTypeOK /\ NoneForgotten /\ [JobsNext]_jobVars => NoneForgotten'
  <2> SUFFICES ASSUME ExtensionsTypeOK, NoneForgotten, [JobsNext]_jobVars
               PROVE  NoneForgotten'
    OBVIOUS
  <2>1. ASSUME NEW j \in Job, Run(j) PROVE NoneForgotten'
    <3>1. CASE UNCHANGED <<current, state>>
      BY <3>1 DEF NoneForgotten
    <3>2. ASSUME NEW p \in Proc, NEW s \in {"up", "broken"}, current = 0,
                 current' = p, state' = [state EXCEPT ![p] = s]
          PROVE  NoneForgotten'
      BY <1>0, <3>2 DEF NoneForgotten, ExtensionsTypeOK
    <3> QED BY <2>1, <3>1, <3>2 DEF Run
  <2>2. ASSUME NEW j \in Job, Tell(j) \/ Timeout(j) PROVE NoneForgotten'
    BY <2>2 DEF Tell, Timeout, procs, NoneForgotten
  <2>3. ASSUME NEW p \in Proc, Error(p) PROVE NoneForgotten'
    BY <2>3 DEF Error, NoneForgotten, ExtensionsTypeOK
  <2>4. ASSUME NEW p \in Proc, Disconnect(p) PROVE NoneForgotten'
    BY <2>4 DEF Disconnect, Unregister, NoneForgotten, ExtensionsTypeOK
  <2>5. ASSUME NEW p \in Proc,
               \/ Uncaught(p) \/ Exit(p) \/ Break(p)
               \/ \E j \in Job : Answer(p, j) \/ Message(p, j)
        PROVE  NoneForgotten'
    BY <2>5 DEF Uncaught, Exit, Break, Answer, Message, NoneForgotten,
                ExtensionsTypeOK
  <2>6. CASE UNCHANGED jobVars
    BY <2>6 DEF jobVars, procs, NoneForgotten
  <2> QED BY <2>1, <2>2, <2>3, <2>4, <2>5, <2>6 DEF JobsNext
<1>3. JobsSpec => []ExtensionsTypeOK
  BY ExtensionsTyping
<1> QED BY <1>1, <1>2, <1>3, PTL DEF JobsSpec

(***************************************************************************)
(* The primary process.                                                    *)
(***************************************************************************)
\* A crash is counted, and leaves the types as they are.
LEMMA RestartType ==
  ASSUME ClusterAssumption, ClusterTypeOK, NEW w \in Worker, RestartWorker(w)
  PROVE  ClusterTypeOK'
<1> DEFINE c == [deaths EXCEPT ![0] = IF @ < Many THEN @ + 1 ELSE @]
<1>1. c \in [Age -> 0 .. Many]
  BY DEF ClusterTypeOK, ClusterAssumption, Age, Many
<1>2. deaths' = c /\ exited' \in BOOLEAN /\ storm' = storm
  BY DEF RestartWorker, ClusterTypeOK
<1>3. wait' \in [Worker -> Nat] /\ next' \in Nat
  BY DEF RestartWorker, ClusterTypeOK, Pause
<1> QED BY <1>1, <1>2, <1>3 DEF ClusterTypeOK

\* Time makes every crash one unit older.
LEMMA TickType ==
  ASSUME ClusterAssumption, ClusterTypeOK, Tick
  PROVE  ClusterTypeOK'
<1>1. wait' \in [Worker -> Nat] /\ next' \in Nat
  BY DEF Tick, ClusterTypeOK
<1>2. deaths' \in [Age -> 0 .. Many]
  <2>1. \A a \in Age : a = 0 \/ a - 1 \in Age
    BY DEF Age, ClusterAssumption
  <2>2. 0 \in 0 .. Many
    BY DEF Many, ClusterAssumption
  <2> QED BY <2>1, <2>2 DEF Tick, ClusterTypeOK
<1> QED BY <1>1, <1>2 DEF Tick, ClusterTypeOK

\* The type invariant of the primary process.
THEOREM ClusterTyping == ClusterAssumption => (ClusterSpec => []ClusterTypeOK)
<1> SUFFICES ASSUME ClusterAssumption PROVE ClusterSpec => []ClusterTypeOK
  OBVIOUS
<1>1. ClusterInit => ClusterTypeOK
  <2>1. 0 \in 0 .. Many
    BY DEF Many, ClusterAssumption
  <2>2. ASSUME ClusterInit PROVE deaths \in [Age -> 0 .. Many]
    BY <2>1, <2>2 DEF ClusterInit
  <2>3. ClusterInit => wait \in [Worker -> Nat] /\ next \in Nat
    BY DEF ClusterInit
  <2>4. ClusterInit => exited \in BOOLEAN /\ storm \in BOOLEAN
    BY DEF ClusterInit
  <2> QED BY <2>2, <2>3, <2>4 DEF ClusterTypeOK
<1>2. ClusterTypeOK /\ [ClusterNext]_clusterVars => ClusterTypeOK'
  <2>1. CASE UNCHANGED clusterVars
    BY <2>1 DEF ClusterTypeOK, clusterVars
  <2> QED BY <2>1, RestartType, TickType DEF ClusterNext
<1> QED BY <1>1, <1>2, PTL DEF ClusterSpec

\* The turns that were given out: one for each unit until the next one that
\* is free, and no two workers have the same.
Turns ==
  /\ {wait[w] : w \in Down} = 1 .. next - 1
  /\ \A v, w \in Down : wait[v] = wait[w] => v = w

\* A worker that dies gets the free turn, and the one after is free then.
LEMMA RestartTurns ==
  ASSUME ClusterTypeOK, Turns, NEW w \in Worker, RestartWorker(w)
  PROVE  Turns'
<1>1. CASE UNCHANGED <<wait, next>>
  BY <1>1 DEF Turns, Down
<1>2. CASE wait' = [wait EXCEPT ![w] = next] /\ next' = next + 1
  <2> wait \in [Worker -> Nat] /\ next \in Nat /\ wait[w] = 0 /\ w \notin Down
    BY DEF ClusterTypeOK, RestartWorker, Down
  <2>1. CASE next = 0
    BY <1>2, <2>1 DEF Turns, Down
  <2>2. CASE next > 0
    <3>1. Down' = Down \cup {w}
      BY <1>2, <2>2 DEF Down
    <3>2. wait'[w] = next /\ \A v \in Down : wait'[v] = wait[v] /\ wait[v] \in 1 .. next - 1
      BY <1>2 DEF Turns, Down
    <3>3. {wait'[v] : v \in Down'} = {wait[v] : v \in Down} \cup {next}
      BY <3>1, <3>2
    <3>4. 1 .. next' - 1 = (1 .. next - 1) \cup {next}
      BY <1>2, <2>2
    <3>5. \A u, v \in Down' : wait'[u] = wait'[v] => u = v
      BY <3>1, <3>2 DEF Turns
    <3> QED BY <3>3, <3>4, <3>5 DEF Turns
  <2> QED BY <2>1, <2>2
<1> QED BY <1>1, <1>2 DEF RestartWorker, Pause

\* With time every turn comes nearer.
LEMMA TickTurns ==
  ASSUME ClusterTypeOK, Turns, Tick
  PROVE  Turns'
<1> wait \in [Worker -> Nat] /\ next \in Nat
  BY DEF ClusterTypeOK
<1>1. \A w \in Worker : wait'[w] = IF wait[w] > 0 THEN wait[w] - 1 ELSE 0
  BY DEF Tick
<1>2. Down' = {w \in Down : wait[w] > 1}
  BY <1>1 DEF Down
<1>3. \A w \in Down' : w \in Down /\ wait'[w] = wait[w] - 1 /\ wait[w] \in 1 .. next - 1
  BY <1>1, <1>2 DEF Down, Turns
<1>4. \A v, w \in Down' : wait'[v] = wait'[w] => v = w
  BY <1>3 DEF Turns
<1>5. ASSUME NEW n \in 1 .. next' - 1 PROVE n \in {wait'[w] : w \in Down'}
  <2>1. n + 1 \in 1 .. next - 1
    BY DEF Tick
  <2>2. PICK w \in Down : wait[w] = n + 1
    BY <2>1 DEF Turns
  <2>3. w \in Down'
    BY <1>2, <2>2
  <2> QED BY <1>3, <2>2, <2>3
<1>6. ASSUME NEW w \in Down' PROVE wait'[w] \in 1 .. next' - 1
  BY <1>2, <1>3 DEF Tick
<1> QED BY <1>4, <1>5, <1>6 DEF Turns

\* There are as many turns as workers that are down.
LEMMA TurnsOneByOne ==
  ASSUME ClusterAssumption, ClusterTypeOK, Turns
  PROVE  OneByOne
<1> DEFINE T == 1 .. next - 1
           f == [w \in Down |-> wait[w]]
<1>1. f \in Bijection(Down, T)
  BY DEF Turns, Bijection, Injection, Surjection, IsInjective
<1>2. IsFiniteSet(Down)
  BY FS_Subset DEF Down, ClusterAssumption
<1>3. Cardinality(Down) = Cardinality(T)
  BY <1>1, <1>2, FS_Bijection DEF ExistsBijection
<1>4. next \in Nat
  BY DEF ClusterTypeOK
<1>5. Cardinality(T) = IF next = 0 THEN 0 ELSE next - 1
  BY <1>4, FS_Interval
<1>6. 1 .. Cardinality(Down) = T
  BY <1>3, <1>4, <1>5
<1> QED BY <1>6 DEF Turns, OneByOne

\* The workers that are down are forked one by one, without a gap, for any
\* number of workers and any pace of their crashes.
THEOREM ForkedOneByOne == ClusterAssumption => (ClusterSpec => []OneByOne)
<1> SUFFICES ASSUME ClusterAssumption PROVE ClusterSpec => []OneByOne
  OBVIOUS
<1>1. ClusterInit => Turns
  BY DEF ClusterInit, Turns, Down
<1>2. ClusterTypeOK /\ Turns /\ [ClusterNext]_clusterVars => Turns'
  <2>1. CASE UNCHANGED clusterVars
    BY <2>1 DEF Turns, Down, clusterVars
  <2> QED BY <2>1, RestartTurns, TickTurns DEF ClusterNext
<1>3. ClusterTypeOK /\ Turns => OneByOne
  BY TurnsOneByOne
<1> QED BY <1>1, <1>2, <1>3, ClusterTyping, PTL DEF ClusterSpec

(***************************************************************************)
(* Downloads: types.                                                       *)
(***************************************************************************)
\* A session that changes its label.
LEMMA GotoType ==
  ASSUME DownloadsTypeOK, NEW s \in Session, NEW from, NEW to \in Label,
         Goto(s, from, to)
  PROVE  /\ pc' \in [Session -> Label]
         /\ pc[s] = from /\ pc'[s] = to
         /\ \A t \in Session \ {s} : pc'[t] = pc[t]
BY DEF DownloadsTypeOK, Goto

\* With and Without change one session's set of downloads.
LEMMA SetsType ==
  ASSUME NEW x \in [Session -> SUBSET Download], NEW s \in Session,
         NEW D \in SUBSET Download
  PROVE  /\ With(x, s, D) \in [Session -> SUBSET Download]
         /\ Without(x, s, D) \in [Session -> SUBSET Download]
         /\ With(x, s, D)[s] = x[s] \cup D
         /\ Without(x, s, D)[s] = x[s] \ D
         /\ \A t \in Session \ {s} : With(x, s, D)[t] = x[t] /\ Without(x, s, D)[t] = x[t]
BY DEF With, Without

\* Settle adds one outcome to each download of a set.
LEMMA SettleType ==
  ASSUME DownloadsTypeOK, NEW D \in SUBSET Download, Settle(D)
  PROVE  /\ outcomes' \in [Download -> Nat]
         /\ \A d \in D : outcomes'[d] = outcomes[d] + 1
         /\ \A d \in Download \ D : outcomes'[d] = outcomes[d]
BY DEF DownloadsTypeOK, Settle

\* Forget takes downloads out of the session and marks them.
LEMMA ForgetType ==
  ASSUME DownloadsTypeOK, NEW s \in Session, NEW D \in SUBSET Download, Forget(s, D)
  PROVE  /\ ops' \in [Session -> SUBSET Download]
         /\ touched' \in [Session -> SUBSET Download]
         /\ ops'[s] = ops[s] \ D /\ touched'[s] = touched[s] \cup D
         /\ \A t \in Session \ {s} : ops'[t] = ops[t] /\ touched'[t] = touched[t]
BY SetsType DEF DownloadsTypeOK, Forget

\* A step of a session keeps the types.
LEMMA SessionType ==
  ASSUME DownloadsTypeOK, NEW s \in Session,
         \/ Read(s) \/ Lock(s) \/ Refused(s)
         \/ EmptyPost(s) \/ EmptyPostThrows(s)
         \/ End(s) \/ SaveDevice(s) \/ Release(s) \/ Crash(s) \/ Recover(s),
         DownloadsAssumption
  PROVE  DownloadsTypeOK'
<1> USE DEF disk, context, history
<1>1. CASE Read(s)
  <2>1. pc' \in [Session -> Label]
    BY <1>1 DEF Read, Goto, DownloadsTypeOK, Label
  <2>2. ops' \in [Session -> SUBSET Download] /\ due' \in [Session -> SUBSET Download]
    BY <1>1 DEF Read, DownloadsTypeOK
  <2>3. /\ touched' \in [Session -> SUBSET Download]
        /\ good' \in [Session -> SUBSET Download]
        /\ bad' \in [Session -> SUBSET Download]
    BY <1>1 DEF Read, DownloadsTypeOK
  <2>4. UNCHANGED <<disk, lock, cpe, overdue, history, crashes>>
    BY <1>1 DEF Read
  <2> QED BY <2>1, <2>2, <2>3, <2>4 DEF DownloadsTypeOK
<1>2. CASE Lock(s)
  <2>1. pc' \in [Session -> Label]
    BY <1>2 DEF Lock, Goto, DownloadsTypeOK, Label
  <2> QED BY <1>2, <2>1 DEF Lock, DownloadsTypeOK
<1>3. CASE Refused(s)
  <2>1. pc' \in [Session -> Label]
    BY <1>3 DEF Refused, Goto, DownloadsTypeOK, Label
  <2> QED BY <1>3, <2>1 DEF Refused, DownloadsTypeOK
<1>4. CASE EmptyPost(s)
  <2> DEFINE D == TimedOut(s)
  <2>0. D \in SUBSET Download
    BY DEF TimedOut, DownloadsTypeOK
  <2>1. pc' \in [Session -> Label]
    BY <1>4 DEF EmptyPost, Goto, DownloadsTypeOK, Label
  <2>2. Forget(s, D) /\ Settle(D) /\ bad' = With(bad, s, D) /\ silent' = silent \cup D
    BY <1>4 DEF EmptyPost
  <2>3. /\ ops' \in [Session -> SUBSET Download]
        /\ touched' \in [Session -> SUBSET Download]
    BY <2>0, <2>2, ForgetType
  <2>4. outcomes' \in [Download -> Nat]
    BY <2>0, <2>2, SettleType
  <2>5. bad' \in [Session -> SUBSET Download]
    BY <2>0, <2>2, SetsType DEF DownloadsTypeOK
  <2>6. silent' \subseteq Download
    BY <2>0, <2>2 DEF DownloadsTypeOK
  <2>7. UNCHANGED <<disk, lock, due, good, cpe, overdue, blind, died, crashes>>
    BY <1>4 DEF EmptyPost
  <2> QED BY <2>1, <2>3, <2>4, <2>5, <2>6, <2>7 DEF DownloadsTypeOK
<1>5. CASE EmptyPostThrows(s)
  <2>1. pc' \in [Session -> Label]
    BY <1>5 DEF EmptyPostThrows, Goto, DownloadsTypeOK, Label
  <2> QED BY <1>5, <2>1 DEF EmptyPostThrows, TimedOut, DownloadsTypeOK
<1>6. CASE End(s)
  <2>1. pc' \in [Session -> Label]
    BY <1>6 DEF End, Goto, DownloadsTypeOK, Label
  <2> QED BY <1>6, <2>1 DEF End, DownloadsTypeOK
<1>7. CASE SaveDevice(s)
  BY <1>7 DEF SaveDevice, Write, DownloadsTypeOK
<1>8. CASE Release(s)
  <2>1. pc' \in [Session -> Label]
    BY <1>8 DEF Release, Goto, DownloadsTypeOK, Label
  <2> QED BY <1>8, <2>1 DEF Release, DownloadsTypeOK
<1>9. CASE Crash(s)
  <2>1. pc' \in [Session -> Label]
    BY <1>9 DEF Crash, Goto, DownloadsTypeOK, Label
  <2>2. crashes' \in 0 .. MaxCrashes
    BY <1>9 DEF Crash, DownloadsTypeOK, DownloadsAssumption
  <2> QED BY <1>9, <2>1, <2>2 DEF Crash, DownloadsTypeOK
<1>10. CASE Recover(s)
  <2>1. pc' \in [Session -> Label]
    BY <1>10 DEF Recover, Goto, DownloadsTypeOK, Label
  <2> QED BY <1>10, <2>1 DEF Recover, DownloadsTypeOK
<1> QED BY <1>1, <1>2, <1>3, <1>4, <1>5, <1>6, <1>7, <1>8, <1>9, <1>10

\* A step of a session with one download keeps the types.
LEMMA DownloadType ==
  ASSUME DownloadsTypeOK, NEW s \in Session, NEW d \in Download,
         \/ TransferComplete(s, d) \/ DoneAtOnce(s, d) \/ Begun(s, d)
         \/ BegunUnknown(s, d) \/ SaveOperation(s, d) \/ SaveFault(s, d)
  PROVE  DownloadsTypeOK'
<1> USE DEF disk, context, history
<1>0. {d} \in SUBSET Download
  OBVIOUS
<1>1. CASE TransferComplete(s, d)
  <2> DEFINE D == ops[s] \cap {d}
  <2>0. D \in SUBSET Download
    OBVIOUS
  <2>1. pc' \in [Session -> Label]
    BY <1>1 DEF TransferComplete, Goto, DownloadsTypeOK, Label
  <2>2. Forget(s, D) /\ Settle(D)
    BY <1>1 DEF TransferComplete
  <2>3. /\ ops' \in [Session -> SUBSET Download]
        /\ touched' \in [Session -> SUBSET Download]
    BY <2>0, <2>2, ForgetType
  <2>4. outcomes' \in [Download -> Nat]
    BY <2>0, <2>2, SettleType
  <2>5. good' \in [Session -> SUBSET Download] /\ bad' \in [Session -> SUBSET Download]
    <3>1. \/ good' = With(good, s, D) /\ UNCHANGED bad
          \/ bad' = With(bad, s, D) /\ UNCHANGED good
      BY <1>1 DEF TransferComplete
    <3> QED BY <2>0, <3>1, SetsType DEF DownloadsTypeOK
  <2>6. cpe' \in [Download -> Fate]
    BY <1>1 DEF TransferComplete, DownloadsTypeOK, Fate
  <2>7. UNCHANGED <<disk, lock, due, overdue, silent, blind, died, crashes>>
    BY <1>1 DEF TransferComplete
  <2> QED BY <2>1, <2>3, <2>4, <2>5, <2>6, <2>7 DEF DownloadsTypeOK
<1>2. CASE DoneAtOnce(s, d)
  <2>1. pc' \in [Session -> Label]
    BY <1>2 DEF DoneAtOnce, Goto, DownloadsTypeOK, Label
  <2>2. outcomes' \in [Download -> Nat]
    BY <1>0, <1>2, SettleType DEF DoneAtOnce
  <2>3. good' \in [Session -> SUBSET Download]
    BY <1>0, <1>2, SetsType DEF DoneAtOnce, DownloadsTypeOK
  <2>4. cpe' \in [Download -> Fate]
    BY <1>2 DEF DoneAtOnce, DownloadsTypeOK, Fate
  <2> QED BY <1>2, <2>1, <2>2, <2>3, <2>4 DEF DoneAtOnce, DownloadsTypeOK
<1>3. CASE Begun(s, d)
  <2>1. pc' \in [Session -> Label]
    BY <1>3 DEF Begun, Goto, DownloadsTypeOK, Label
  <2>2. ops' \in [Session -> SUBSET Download] /\ touched' \in [Session -> SUBSET Download]
    BY <1>0, <1>3, SetsType DEF Begun, DownloadsTypeOK
  <2>3. cpe' \in [Download -> Fate]
    BY <1>3 DEF Begun, DownloadsTypeOK, Fate
  <2> QED BY <1>3, <2>1, <2>2, <2>3 DEF Begun, DownloadsTypeOK
<1>4. CASE BegunUnknown(s, d)
  <2>1. pc' \in [Session -> Label]
    BY <1>4 DEF BegunUnknown, Goto, DownloadsTypeOK, Label
  <2>2. outcomes' \in [Download -> Nat]
    BY <1>0, <1>4, SettleType DEF BegunUnknown
  <2>3. bad' \in [Session -> SUBSET Download]
    BY <1>0, <1>4, SetsType DEF BegunUnknown, DownloadsTypeOK
  <2>4. cpe' \in [Download -> Fate]
    BY <1>4 DEF BegunUnknown, DownloadsTypeOK, Fate
  <2> QED BY <1>4, <2>1, <2>2, <2>3, <2>4 DEF BegunUnknown, DownloadsTypeOK
<1>5. CASE SaveOperation(s, d)
  <2>1. touched' \in [Session -> SUBSET Download]
    BY <1>0, <1>5, SetsType DEF SaveOperation, DownloadsTypeOK
  <2> QED BY <1>5, <2>1 DEF SaveOperation, Write, DownloadsTypeOK
<1>6. CASE SaveFault(s, d)
  <2>1. bad' \in [Session -> SUBSET Download]
    BY <1>0, <1>6, SetsType DEF SaveFault, DownloadsTypeOK
  <2> QED BY <1>6, <2>1 DEF SaveFault, Write, DownloadsTypeOK
<1> QED BY <1>1, <1>2, <1>3, <1>4, <1>5, <1>6

\* The type invariant of the downloads of a device.
THEOREM DownloadsTyping == DownloadsAssumption => (Spec => []DownloadsTypeOK)
<1> SUFFICES ASSUME DownloadsAssumption PROVE Spec => []DownloadsTypeOK
  OBVIOUS
<1>1. Init => DownloadsTypeOK
  <2> SUFFICES ASSUME Init PROVE DownloadsTypeOK
    OBVIOUS
  <2>1. Nothing \in [Session -> SUBSET Download]
    BY DEF Nothing
  <2>2. pc \in [Session -> Label]
    BY DEF Init, Label
  <2>3. cpe \in [Download -> Fate]
    BY DEF Init, Fate
  <2>4. outcomes \in [Download -> Nat]
    BY DEF Init
  <2>5. option \in BOOLEAN /\ crashes \in 0 .. MaxCrashes
    BY DEF Init, DownloadsAssumption
  <2>6. \A x \in {ops, due, touched, good, bad} : x \in [Session -> SUBSET Download]
    BY <2>1 DEF Init
  <2>7. /\ stored \subseteq Download /\ done \subseteq Download
        /\ failed \subseteq Download /\ lock \in Session \cup {Free}
        /\ overdue \subseteq Download /\ silent \subseteq Download
        /\ blind \in BOOLEAN /\ died \in BOOLEAN
    BY DEF Init
  <2> QED BY <2>2, <2>3, <2>4, <2>5, <2>6, <2>7 DEF DownloadsTypeOK
<1>2. DownloadsTypeOK /\ [Next]_vars => DownloadsTypeOK'
  <2> SUFFICES ASSUME DownloadsTypeOK, [Next]_vars PROVE DownloadsTypeOK'
    OBVIOUS
  <2>1. ASSUME NEW d \in Download, Finish(d) PROVE DownloadsTypeOK'
    <3>1. cpe' \in [Download -> Fate]
      BY <2>1 DEF Finish, DownloadsTypeOK, Fate
    <3> QED BY <2>1, <3>1 DEF Finish, DownloadsTypeOK, disk, context, history
  <2>2. ASSUME NEW d \in Download, PassTimeout(d) PROVE DownloadsTypeOK'
    BY <2>2 DEF PassTimeout, DownloadsTypeOK, disk, context, history
  <2>3. CASE UNCHANGED vars
    BY <2>3 DEF vars, DownloadsTypeOK, disk, context, history
  <2> QED BY <2>1, <2>2, <2>3, SessionType, DownloadType DEF Next
<1> QED BY <1>1, <1>2, PTL DEF Spec

(***************************************************************************)
(* One session at a time.                                                  *)
(***************************************************************************)
Active == {"informed", "working", "ending"}

Undisturbed == ~died /\ ~blind

\* As long as no worker died: a session at work has the lock, and who has the
\* lock is at work.  One that has only read has nothing to save.
Locked ==
  /\ \A s \in Session : pc[s] # "lost"
  /\ \A s \in Session : pc[s] \in Active <=> lock = s
  /\ \A s \in Session : pc[s] = "reading" =>
       touched[s] = {} /\ good[s] = {} /\ bad[s] = {}

\* Where a download is looked up: in the session at work, or the database.
Held(d) == IF lock = Free THEN d \in stored ELSE d \in ops[lock]

\* Where the result of a download is.
Kept(d) == d \in done \cup failed \/ (lock # Free /\ d \in good[lock] \cup bad[lock])

\* A session at work differs from the database in what it has touched.
Synced ==
  \A s \in Session : lock = s =>
    \A d \in Download \ touched[s] : d \in ops[s] <=> d \in stored

\* A download is held from its begin to its result.
Tally ==
  \A d \in Download :
    IF cpe[d] = "new" THEN outcomes[d] = 0 /\ ~Held(d)
    ELSE \/ outcomes[d] = 0 /\ Held(d) /\ cpe[d] # "told"
         \/ outcomes[d] = 1 /\ ~Held(d) /\ Kept(d)

Account == Undisturbed => Locked /\ Synced /\ Tally

\* A step of the session at work, after which it is still at work.
LEMMA AtWork ==
  ASSUME DownloadsTypeOK, Locked, NEW s \in Session,
         pc[s] \in Active, pc'[s] \in Active, lock' = lock,
         \A t \in Session \ {s} : /\ pc'[t] = pc[t]
                                  /\ touched'[t] = touched[t]
                                  /\ good'[t] = good[t] /\ bad'[t] = bad[t]
  PROVE  lock = s /\ Locked'
BY DEF Locked, Active

\* What the session at work holds and keeps.
LEMMA AtWorkHeld ==
  ASSUME NEW s \in Session, lock = s, lock' = s, DownloadsAssumption
  PROVE  /\ \A d : Held(d) <=> d \in ops[s]
         /\ \A d : Held(d)' <=> d \in ops'[s]
         /\ \A d : Kept(d) <=> d \in done \cup failed \cup good[s] \cup bad[s]
         /\ \A d : Kept(d)' <=> d \in done' \cup failed' \cup good'[s] \cup bad'[s]
         /\ Synced' <=> \A d \in Download \ touched'[s] : d \in ops'[s] <=> d \in stored'
BY DEF Held, Kept, Synced, DownloadsAssumption

\* Downloads of a set get their result, from the session at work.
LEMMA Results ==
  ASSUME DownloadsTypeOK, Synced, Tally, DownloadsAssumption,
         NEW s \in Session, lock = s, lock' = s,
         NEW D \in SUBSET ops[s], Forget(s, D), Settle(D),
         D \subseteq good'[s] \cup bad'[s],
         good[s] \subseteq good'[s], bad[s] \subseteq bad'[s],
         UNCHANGED disk,
         \A d \in Download : \/ cpe'[d] = cpe[d]
                             \/ cpe'[d] = "told" /\ (d \in D \/ d \notin ops[s]) /\ cpe[d] # "new"
  PROVE  Synced' /\ Tally'
<1>0. D \in SUBSET Download
  BY DEF DownloadsTypeOK
<1>1. /\ ops'[s] = ops[s] \ D /\ touched'[s] = touched[s] \cup D
  BY <1>0, ForgetType
<1>2. Synced'
  <2>1. \A d \in Download \ touched[s] : d \in ops[s] <=> d \in stored
    BY DEF Synced
  <2>2. stored' = stored
    BY DEF disk
  <2>3. \A d \in Download \ touched'[s] : d \in ops'[s] <=> d \in stored'
    BY <1>1, <2>1, <2>2
  <2> QED BY <2>3, AtWorkHeld
<1>3. ASSUME NEW d \in Download
      PROVE  IF cpe'[d] = "new" THEN outcomes'[d] = 0 /\ ~Held(d)'
             ELSE \/ outcomes'[d] = 0 /\ Held(d)' /\ cpe'[d] # "told"
                  \/ outcomes'[d] = 1 /\ ~Held(d)' /\ Kept(d)'
  <2>1. /\ Held(d) <=> d \in ops[s]
        /\ Held(d)' <=> d \in ops'[s]
        /\ Kept(d) <=> d \in done \cup failed \cup good[s] \cup bad[s]
        /\ Kept(d)' <=> d \in done' \cup failed' \cup good'[s] \cup bad'[s]
    BY AtWorkHeld
  <2>2. Kept(d) => Kept(d)'
    BY <2>1 DEF disk
  <2>3. IF cpe[d] = "new" THEN outcomes[d] = 0 /\ ~Held(d)
        ELSE \/ outcomes[d] = 0 /\ Held(d) /\ cpe[d] # "told"
             \/ outcomes[d] = 1 /\ ~Held(d) /\ Kept(d)
    BY DEF Tally
  <2>4. CASE d \in D
    <3>1. outcomes'[d] = outcomes[d] + 1
      BY <1>0, <2>4, SettleType
    <3>2. Held(d) /\ ~Held(d)' /\ Kept(d)'
      BY <1>1, <2>1, <2>4
    <3>3. cpe[d] # "new" /\ outcomes[d] = 0 /\ cpe'[d] # "new"
      BY <2>3, <3>2
    <3> QED BY <3>1, <3>2, <3>3
  <2>5. CASE d \notin D
    <3>1. outcomes'[d] = outcomes[d]
      BY <1>0, <2>5, SettleType
    <3>2. Held(d)' <=> Held(d)
      BY <1>1, <2>1, <2>5
    <3>3. cpe'[d] = cpe[d] \/ (cpe'[d] = "told" /\ ~Held(d) /\ cpe[d] # "new")
      BY <2>1, <2>5
    <3> QED BY <2>2, <2>3, <3>1, <3>2, <3>3
  <2> QED BY <2>4, <2>5
<1> QED BY <1>2, <1>3 DEF Tally

\* A step that settles and forgets nothing, of the session at work.
LEMMA NoResults ==
  ASSUME DownloadsTypeOK, Tally, DownloadsAssumption,
         NEW s \in Session, lock = s, lock' = s,
         UNCHANGED <<ops, outcomes>>,
         \A d \in Download : /\ cpe'[d] = "new" <=> cpe[d] = "new"
                             /\ cpe'[d] = "told" <=> cpe[d] = "told",
         done \cup failed \cup good[s] \cup bad[s]
           \subseteq done' \cup failed' \cup good'[s] \cup bad'[s]
  PROVE  Tally'
<1> SUFFICES ASSUME NEW d \in Download
             PROVE  IF cpe'[d] = "new" THEN outcomes'[d] = 0 /\ ~Held(d)'
                    ELSE \/ outcomes'[d] = 0 /\ Held(d)' /\ cpe'[d] # "told"
                         \/ outcomes'[d] = 1 /\ ~Held(d)' /\ Kept(d)'
  BY DEF Tally
<1>1. (Held(d)' <=> Held(d)) /\ (Kept(d) => Kept(d)')
  BY AtWorkHeld
<1>2. IF cpe[d] = "new" THEN outcomes[d] = 0 /\ ~Held(d)
      ELSE \/ outcomes[d] = 0 /\ Held(d) /\ cpe[d] # "told"
           \/ outcomes[d] = 1 /\ ~Held(d) /\ Kept(d)
  BY DEF Tally
<1> QED BY <1>1, <1>2

\* A step with one download that has no result yet.
LEMMA BeginAccount ==
  ASSUME DownloadsTypeOK, Locked, Synced, Tally, DownloadsAssumption,
         NEW s \in Session, NEW d \in Download,
         \/ DoneAtOnce(s, d) \/ Begun(s, d) \/ BegunUnknown(s, d)
  PROVE  Locked' /\ Synced' /\ Tally'
<1>0. cpe[d] = "new" /\ outcomes[d] = 0 /\ ~Held(d)
  BY DEF DoneAtOnce, Begun, BegunUnknown, Tally
<1>1. /\ pc[s] \in Active /\ pc'[s] \in Active /\ lock' = lock
      /\ \A t \in Session \ {s} : pc'[t] = pc[t]
  <2>1. CASE DoneAtOnce(s, d)
    <3>1. Goto(s, "working", "working") /\ lock' = lock
      BY <2>1 DEF DoneAtOnce
    <3> QED BY <3>1, GotoType DEF Active, Label
  <2>2. CASE Begun(s, d)
    <3>1. Goto(s, "working", "working") /\ lock' = lock
      BY <2>2 DEF Begun
    <3> QED BY <3>1, GotoType DEF Active, Label
  <2>3. CASE BegunUnknown(s, d)
    <3>1. Goto(s, "working", "ending") /\ lock' = lock
      BY <2>3 DEF BegunUnknown
    <3> QED BY <3>1, GotoType DEF Active, Label
  <2> QED BY <2>1, <2>2, <2>3
<1>2. {d} \in SUBSET Download
  OBVIOUS
<1>3. /\ touched'[s] = IF Begun(s, d) THEN touched[s] \cup {d} ELSE touched[s]
      /\ good[s] \subseteq good'[s] /\ bad[s] \subseteq bad'[s]
      /\ \A t \in Session \ {s} : /\ touched'[t] = touched[t]
                                  /\ good'[t] = good[t] /\ bad'[t] = bad[t]
  <2>1. CASE DoneAtOnce(s, d) /\ ~Begun(s, d)
    <3>1. good' = With(good, s, {d}) /\ UNCHANGED <<touched, bad>>
      BY <2>1 DEF DoneAtOnce
    <3> QED BY <1>2, <2>1, <3>1, SetsType DEF DownloadsTypeOK
  <2>2. CASE Begun(s, d)
    <3>1. touched' = With(touched, s, {d}) /\ UNCHANGED <<good, bad>>
      BY <2>2 DEF Begun
    <3> QED BY <1>2, <2>2, <3>1, SetsType DEF DownloadsTypeOK
  <2>3. CASE BegunUnknown(s, d) /\ ~Begun(s, d)
    <3>1. bad' = With(bad, s, {d}) /\ UNCHANGED <<touched, good>>
      BY <2>3 DEF BegunUnknown
    <3> QED BY <1>2, <2>3, <3>1, SetsType DEF DownloadsTypeOK
  <2> QED BY <2>1, <2>2, <2>3
<1>4. lock = s /\ Locked'
  BY <1>1, <1>3, AtWork
<1>5. UNCHANGED <<stored, done, failed>> /\ cpe'[d] \in {"running", "told"}
      /\ \A e \in Download \ {d} : cpe'[e] = cpe[e]
  BY DEF DoneAtOnce, Begun, BegunUnknown, disk, DownloadsTypeOK
<1>6. ops'[s] = IF Begun(s, d) THEN ops[s] \cup {d} ELSE ops[s]
  <2>1. CASE Begun(s, d)
    <3>1. ops' = With(ops, s, {d})
      BY <2>1 DEF Begun
    <3> QED BY <1>2, <2>1, <3>1, SetsType DEF DownloadsTypeOK
  <2>2. CASE ~Begun(s, d)
    BY <2>2 DEF DoneAtOnce, BegunUnknown
  <2> QED BY <2>1, <2>2
<1>7. Synced'
  <2>1. \A e \in Download \ touched[s] : e \in ops[s] <=> e \in stored
    BY <1>4 DEF Synced
  <2>2. \A e \in Download \ touched'[s] : e \in ops'[s] <=> e \in stored'
    BY <1>3, <1>5, <1>6, <2>1
  <2> QED BY <1>1, <1>4, <2>2, AtWorkHeld
<1>8. Tally'
  <2> SUFFICES ASSUME NEW e \in Download
               PROVE  IF cpe'[e] = "new" THEN outcomes'[e] = 0 /\ ~Held(e)'
                      ELSE \/ outcomes'[e] = 0 /\ Held(e)' /\ cpe'[e] # "told"
                           \/ outcomes'[e] = 1 /\ ~Held(e)' /\ Kept(e)'
    BY DEF Tally
  <2>1. /\ Held(e) <=> e \in ops[s]
        /\ Held(e)' <=> e \in ops'[s]
        /\ Kept(e) <=> e \in done \cup failed \cup good[s] \cup bad[s]
        /\ Kept(e)' <=> e \in done' \cup failed' \cup good'[s] \cup bad'[s]
    BY <1>1, <1>4, AtWorkHeld
  <2>2. CASE e # d
    <3>1. outcomes'[e] = outcomes[e]
      <4>1. CASE Begun(s, d)
        BY <4>1 DEF Begun, history
      <4>2. CASE ~Begun(s, d)
        <5>1. Settle({d})
          BY <4>2 DEF DoneAtOnce, BegunUnknown
        <5> QED BY <1>2, <2>2, <5>1, SettleType
      <4> QED BY <4>1, <4>2
    <3>2. (Held(e)' <=> Held(e)) /\ (Kept(e) => Kept(e)') /\ cpe'[e] = cpe[e]
      BY <1>3, <1>5, <1>6, <2>1, <2>2
    <3>3. IF cpe[e] = "new" THEN outcomes[e] = 0 /\ ~Held(e)
          ELSE \/ outcomes[e] = 0 /\ Held(e) /\ cpe[e] # "told"
               \/ outcomes[e] = 1 /\ ~Held(e) /\ Kept(e)
      BY DEF Tally
    <3> QED BY <3>1, <3>2, <3>3
  <2>3. CASE e = d /\ Begun(s, d)
    <3>1. outcomes'[e] = 0 /\ cpe'[e] = "running"
      BY <1>0, <2>3 DEF Begun, history, DownloadsTypeOK
    <3> QED BY <1>6, <2>1, <2>3, <3>1
  <2>4. CASE e = d /\ ~Begun(s, d)
    <3>1. Settle({d}) /\ (good' = With(good, s, {d}) \/ bad' = With(bad, s, {d}))
      BY <2>4 DEF DoneAtOnce, BegunUnknown
    <3>2. outcomes'[e] = 1
      BY <1>0, <1>2, <2>4, <3>1, SettleType
    <3>3. d \in good'[s] \cup bad'[s]
      BY <1>2, <3>1, SetsType DEF DownloadsTypeOK
    <3> QED BY <1>0, <1>5, <1>6, <2>1, <2>4, <3>2, <3>3
  <2> QED BY <2>2, <2>3, <2>4
<1> QED BY <1>4, <1>7, <1>8

\* The results the CPE reports, and those that do not come in time.
LEMMA ResultAccount ==
  ASSUME DownloadsTypeOK, Locked, Synced, Tally, DownloadsAssumption,
         NEW s \in Session,
         EmptyPost(s) \/ \E d \in Download : TransferComplete(s, d)
  PROVE  Locked' /\ Synced' /\ Tally'
<1>1. CASE EmptyPost(s)
  <2> DEFINE D == TimedOut(s)
  <2>0. D \in SUBSET ops[s] /\ D \in SUBSET Download
    BY DEF TimedOut, DownloadsTypeOK
  <2>1. /\ Goto(s, "informed", "working") /\ Forget(s, D) /\ Settle(D)
        /\ bad' = With(bad, s, D)
        /\ UNCHANGED <<disk, lock, good, cpe>>
    BY <1>1 DEF EmptyPost
  <2>2. /\ pc[s] \in Active /\ pc'[s] \in Active
        /\ \A t \in Session \ {s} : pc'[t] = pc[t]
    BY <2>1, GotoType DEF Active, Label
  <2>3. /\ bad'[s] = bad[s] \cup D
        /\ \A t \in Session \ {s} : bad'[t] = bad[t] /\ touched'[t] = touched[t]
    BY <2>0, <2>1, SetsType, ForgetType DEF DownloadsTypeOK
  <2>4. lock = s /\ Locked'
    BY <2>1, <2>2, <2>3, AtWork
  <2> HIDE DEF D
  <2>5. Synced' /\ Tally'
    <3>1. D \subseteq good'[s] \cup bad'[s] /\ good[s] \subseteq good'[s] /\ bad[s] \subseteq bad'[s]
      BY <2>1, <2>3
    <3>2. lock' = s /\ UNCHANGED disk /\ \A d \in Download : cpe'[d] = cpe[d]
      BY <2>1, <2>4
    <3> QED BY <2>0, <2>1, <2>4, <3>1, <3>2, Results
  <2> QED BY <2>4, <2>5
<1>2. ASSUME NEW d \in Download, TransferComplete(s, d)
      PROVE  Locked' /\ Synced' /\ Tally'
  <2> DEFINE D == ops[s] \cap {d}
  <2>0. D \in SUBSET ops[s] /\ D \in SUBSET Download
    OBVIOUS
  <2>1. /\ cpe[d] \in {"ok", "fault"}
        /\ Forget(s, D) /\ Settle(D)
        /\ UNCHANGED <<disk, lock>>
    BY <1>2 DEF TransferComplete
  <2>2. \/ good' = With(good, s, D) /\ UNCHANGED bad
        \/ bad' = With(bad, s, D) /\ UNCHANGED good
    BY <1>2 DEF TransferComplete
  <2>3. \/ Goto(s, "informed", "informed") /\ cpe' = [cpe EXCEPT ![d] = "told"]
        \/ Goto(s, "informed", "ending") /\ UNCHANGED cpe
    BY <1>2 DEF TransferComplete
  <2>4. /\ pc[s] \in Active /\ pc'[s] \in Active
        /\ \A t \in Session \ {s} : pc'[t] = pc[t]
    BY <2>3, GotoType DEF Active, Label
  <2>5. /\ D \subseteq good'[s] \cup bad'[s]
        /\ good[s] \subseteq good'[s] /\ bad[s] \subseteq bad'[s]
        /\ \A t \in Session \ {s} : good'[t] = good[t] /\ bad'[t] = bad[t]
    BY <2>0, <2>2, SetsType DEF DownloadsTypeOK
  <2>6. \A t \in Session \ {s} : touched'[t] = touched[t]
    BY <2>0, <2>1, ForgetType
  <2>7. lock = s /\ Locked'
    BY <2>1, <2>4, <2>5, <2>6, AtWork
  <2>8. \A e \in Download : \/ cpe'[e] = cpe[e]
                            \/ cpe'[e] = "told" /\ (e \in D \/ e \notin ops[s]) /\ cpe[e] # "new"
    BY <2>1, <2>3 DEF DownloadsTypeOK
  <2> HIDE DEF D
  <2>9. Synced' /\ Tally'
    <3>1. lock' = s /\ UNCHANGED disk
      BY <2>1, <2>7
    <3> QED BY <2>0, <2>1, <2>5, <2>7, <2>8, <3>1, Results
  <2> QED BY <2>7, <2>9
<1> QED BY <1>1, <1>2

\* A session begins, or is refused.
LEMMA StartAccount ==
  ASSUME DownloadsTypeOK, Locked, Synced, Tally, DownloadsAssumption,
         NEW s \in Session,
         Read(s) \/ Refused(s) \/ (Lock(s) /\ ~blind')
  PROVE  Locked' /\ Synced' /\ Tally'
<1>1. CASE Read(s)
  <2>1. pc[s] = "idle" /\ pc'[s] = "reading" /\ \A t \in Session \ {s} : pc'[t] = pc[t]
    BY <1>1, GotoType DEF Read, Label
  <2>2. /\ touched'[s] = {} /\ good'[s] = {} /\ bad'[s] = {}
        /\ \A t \in Session \ {s} :
             /\ ops'[t] = ops[t] /\ touched'[t] = touched[t]
             /\ good'[t] = good[t] /\ bad'[t] = bad[t]
    BY <1>1 DEF Read, DownloadsTypeOK
  <2>3. UNCHANGED <<stored, done, failed, lock, cpe, outcomes>>
    BY <1>1 DEF Read, disk, history
  <2>4. lock # s
    BY <2>1 DEF Locked, Active
  <2>5. Locked'
    BY <2>1, <2>2, <2>3, <2>4 DEF Locked, Active
  <2>6. Synced'
    BY <2>2, <2>3, <2>4 DEF Synced
  <2>7. \A d : (Held(d)' <=> Held(d)) /\ (Kept(d)' <=> Kept(d))
    <3>1. lock # Free => lock \in Session \ {s}
      BY <2>4 DEF DownloadsTypeOK
    <3> QED BY <2>2, <2>3, <3>1 DEF Held, Kept
  <2>8. Tally'
    BY <2>3, <2>7 DEF Tally
  <2> QED BY <2>5, <2>6, <2>8
<1>2. CASE Refused(s)
  <2>1. pc[s] = "reading" /\ pc'[s] = "idle" /\ \A t \in Session \ {s} : pc'[t] = pc[t]
    BY <1>2, GotoType DEF Refused, Label
  <2>2. UNCHANGED <<stored, done, failed, lock, ops, touched, good, bad, cpe, outcomes>>
    BY <1>2 DEF Refused, disk, context, history
  <2>3. Locked'
    BY <2>1, <2>2 DEF Locked, Active
  <2> QED BY <2>2, <2>3 DEF Synced, Tally, Held, Kept
<1>3. CASE Lock(s) /\ ~blind'
  <2>1. /\ pc[s] = "reading" /\ pc'[s] = "informed"
        /\ \A t \in Session \ {s} : pc'[t] = pc[t]
    BY <1>3, GotoType DEF Lock, Label
  <2>2. /\ UNCHANGED <<stored, done, failed, ops, touched, good, bad, cpe, outcomes>>
        /\ lock = Free /\ lock' = s /\ ops[s] = stored
    BY <1>3 DEF Lock, disk, context
  <2>3. Free \notin Session
    BY DEF DownloadsAssumption
  <2>4. Locked'
    BY <2>1, <2>2, <2>3 DEF Locked, Active
  <2>5. Synced'
    BY <2>2 DEF Synced
  <2>6. \A d : (Held(d)' <=> Held(d)) /\ (Kept(d) => Kept(d)')
    BY <2>2, <2>3 DEF Held, Kept
  <2>7. Tally'
    BY <2>2, <2>6 DEF Tally
  <2> QED BY <2>4, <2>5, <2>7
<1> QED BY <1>1, <1>2, <1>3

\* A session ends and saves what it has done.
LEMMA EndAccount ==
  ASSUME DownloadsTypeOK, Locked, Synced, Tally, DownloadsAssumption,
         NEW s \in Session,
         \/ End(s) \/ SaveDevice(s) \/ Release(s)
         \/ \E d \in Download : SaveOperation(s, d) \/ SaveFault(s, d)
  PROVE  Locked' /\ Synced' /\ Tally'
<1>1. CASE End(s)
  <2>1. /\ pc[s] \in Active /\ pc'[s] \in Active
        /\ \A t \in Session \ {s} : pc'[t] = pc[t]
    BY <1>1, GotoType DEF End, Active, Label
  <2>2. UNCHANGED <<stored, done, failed, lock, ops, touched, good, bad, cpe, outcomes>>
    BY <1>1 DEF End, disk, context, history
  <2>3. Locked'
    BY <2>1, <2>2, AtWork
  <2> QED BY <2>2, <2>3 DEF Synced, Tally, Held, Kept
<1>2. CASE SaveDevice(s)
  <2>1. /\ pc[s] = "ending" /\ UNCHANGED <<pc, lock, stored, failed, ops, touched, bad, cpe, outcomes>>
        /\ done' = done \cup good[s] /\ good' = [good EXCEPT ![s] = {}]
    BY <1>2 DEF SaveDevice, Write, history
  <2>2. good'[s] = {} /\ \A t \in Session \ {s} : good'[t] = good[t]
    BY <2>1 DEF DownloadsTypeOK
  <2>3. lock = s /\ Locked'
    BY <2>1, <2>2, AtWork DEF Active
  <2>4. Synced'
    BY <2>1 DEF Synced
  <2>5. Tally'
    BY <2>1, <2>2, <2>3, NoResults
  <2> QED BY <2>3, <2>4, <2>5
<1>3. CASE Release(s)
  <2>1. /\ pc[s] = "ending" /\ pc'[s] = "idle"
        /\ \A t \in Session \ {s} : pc'[t] = pc[t]
    BY <1>3, GotoType DEF Release, Label
  <2>2. lock = s
    BY <2>1 DEF Locked, Active
  <2>3. /\ UNCHANGED <<stored, done, failed, ops, touched, good, bad, cpe, outcomes>>
        /\ lock' = Free /\ good[s] = {} /\ bad[s] = {} /\ touched[s] = {}
    BY <1>3, <2>2 DEF Release, disk, context, history
  <2>4. Free \notin Session
    BY DEF DownloadsAssumption
  <2>5. Locked'
    BY <2>1, <2>2, <2>3, <2>4 DEF Locked, Active
  <2>6. Synced'
    BY <2>3, <2>4 DEF Synced
  <2>7. \A d \in Download : (Held(d)' <=> Held(d)) /\ (Kept(d) => Kept(d)')
    BY <2>2, <2>3, <2>4 DEF Held, Kept, Synced
  <2>8. Tally'
    BY <2>3, <2>7 DEF Tally
  <2> QED BY <2>5, <2>6, <2>8
<1>4. ASSUME NEW d \in Download, SaveOperation(s, d)
      PROVE  Locked' /\ Synced' /\ Tally'
  <2>1. /\ pc[s] = "ending" /\ UNCHANGED <<pc, lock, done, failed, ops, good, bad, cpe, outcomes>>
        /\ touched' = Without(touched, s, {d})
        /\ stored' = IF d \in ops[s] THEN stored \cup {d} ELSE stored \ {d}
    BY <1>4 DEF SaveOperation, Write, history
  <2>2. touched'[s] = touched[s] \ {d} /\ \A t \in Session \ {s} : touched'[t] = touched[t]
    BY <2>1, SetsType DEF DownloadsTypeOK
  <2>3. lock = s /\ Locked'
    BY <2>1, <2>2, AtWork DEF Active
  <2>4. Synced'
    <3>1. \A e \in Download \ touched[s] : e \in ops[s] <=> e \in stored
      BY <2>3 DEF Synced
    <3>2. \A e \in Download \ touched'[s] : e \in ops'[s] <=> e \in stored'
      BY <2>1, <2>2, <3>1
    <3> QED BY <2>1, <2>3, <3>2, AtWorkHeld
  <2>5. Tally'
    BY <2>1, <2>3, NoResults
  <2> QED BY <2>3, <2>4, <2>5
<1>5. ASSUME NEW d \in Download, SaveFault(s, d)
      PROVE  Locked' /\ Synced' /\ Tally'
  <2>1. /\ pc[s] = "ending" /\ UNCHANGED <<pc, lock, stored, done, ops, touched, good, cpe, outcomes>>
        /\ bad' = Without(bad, s, {d}) /\ failed' = failed \cup {d}
    BY <1>5 DEF SaveFault, Write, history
  <2>2. bad'[s] = bad[s] \ {d} /\ \A t \in Session \ {s} : bad'[t] = bad[t]
    BY <2>1, SetsType DEF DownloadsTypeOK
  <2>3. lock = s /\ Locked'
    BY <2>1, <2>2, AtWork DEF Active
  <2>4. Synced'
    BY <2>1 DEF Synced
  <2>5. done \cup failed \cup good[s] \cup bad[s]
          \subseteq done' \cup failed' \cup good'[s] \cup bad'[s]
    BY <2>1, <2>2
  <2>6. Tally'
    BY <2>1, <2>3, <2>5, NoResults
  <2> QED BY <2>3, <2>4, <2>6
<1> QED BY <1>1, <1>2, <1>3, <1>4, <1>5

\* What the CPE does on its own, and the clock.
LEMMA OutsideAccount ==
  ASSUME DownloadsTypeOK, Locked, Synced, Tally, NEW d \in Download,
         Finish(d) \/ PassTimeout(d)
  PROVE  Locked' /\ Synced' /\ Tally'
<1>1. UNCHANGED <<stored, done, failed, lock, pc, ops, touched, good, bad, outcomes>>
  BY DEF Finish, PassTimeout, disk, context, history
<1>2. \A e \in Download : /\ cpe'[e] = "new" <=> cpe[e] = "new"
                          /\ cpe'[e] = "told" <=> cpe[e] = "told"
  BY DEF Finish, PassTimeout, DownloadsTypeOK
<1>3. \A e : (Held(e)' <=> Held(e)) /\ (Kept(e)' <=> Kept(e))
  BY <1>1 DEF Held, Kept
<1>4. Tally'
  <2> SUFFICES ASSUME NEW e \in Download
               PROVE  IF cpe'[e] = "new" THEN outcomes'[e] = 0 /\ ~Held(e)'
                      ELSE \/ outcomes'[e] = 0 /\ Held(e)' /\ cpe'[e] # "told"
                           \/ outcomes'[e] = 1 /\ ~Held(e)' /\ Kept(e)'
    BY DEF Tally
  <2>1. IF cpe[e] = "new" THEN outcomes[e] = 0 /\ ~Held(e)
        ELSE \/ outcomes[e] = 0 /\ Held(e) /\ cpe[e] # "told"
             \/ outcomes[e] = 1 /\ ~Held(e) /\ Kept(e)
    BY DEF Tally
  <2> QED BY <1>1, <1>2, <1>3, <2>1
<1> QED BY <1>1, <1>4 DEF Locked, Synced

(***************************************************************************)
(* The theorems.                                                           *)
(***************************************************************************)
\* The account of the downloads is inductive.
LEMMA AccountStep ==
  ASSUME DownloadsTypeOK, DownloadsAssumption, Account, [Next]_vars
  PROVE  Account'
<1> SUFFICES ASSUME Undisturbed' PROVE Locked' /\ Synced' /\ Tally'
  BY DEF Account
<1>1. ASSUME Undisturbed, NEW s \in Session,
             \/ Read(s) \/ Lock(s) \/ Refused(s) \/ EmptyPost(s)
             \/ End(s) \/ SaveDevice(s) \/ Release(s)
             \/ \E d \in Download :
                  \/ TransferComplete(s, d) \/ DoneAtOnce(s, d) \/ Begun(s, d)
                  \/ BegunUnknown(s, d) \/ SaveOperation(s, d) \/ SaveFault(s, d)
      PROVE  Locked' /\ Synced' /\ Tally'
  <2>1. Locked /\ Synced /\ Tally /\ ~blind'
    BY <1>1 DEF Account, Undisturbed
  <2> QED BY <1>1, <2>1, StartAccount, ResultAccount, EndAccount, BeginAccount
<1>2. ASSUME Undisturbed, NEW d \in Download, Finish(d) \/ PassTimeout(d)
      PROVE  Locked' /\ Synced' /\ Tally'
  BY <1>2, OutsideAccount DEF Account
<1>3. ASSUME Undisturbed, UNCHANGED vars PROVE Locked' /\ Synced' /\ Tally'
  BY <1>3 DEF Account, vars, disk, context, history, Locked, Synced, Tally, Held, Kept
<1>4. ASSUME NEW s \in Session, EmptyPostThrows(s) \/ Crash(s) PROVE FALSE
  BY <1>4 DEF EmptyPostThrows, Crash, Undisturbed
<1>5. ASSUME NEW s \in Session, Recover(s), Undisturbed PROVE FALSE
  BY <1>5 DEF Recover, Goto, Account, Locked
<1>6. Undisturbed
  <2>1. died => died'
    BY ZenonT(60) DEF Next, vars, Read, Lock, Refused, EmptyPost, EmptyPostThrows, End, SaveDevice,
           Release, Crash, Recover, TransferComplete, DoneAtOnce, Begun, BegunUnknown,
           SaveOperation, SaveFault, Finish, PassTimeout, Write, history
  <2>2. blind => blind'
    BY ZenonT(60) DEF Next, vars, Read, Lock, Refused, EmptyPost, EmptyPostThrows, End, SaveDevice,
           Release, Crash, Recover, TransferComplete, DoneAtOnce, Begun, BegunUnknown,
           SaveOperation, SaveFault, Finish, PassTimeout, Write, history
  <2> QED BY <2>1, <2>2 DEF Undisturbed
<1> QED BY <1>1, <1>2, <1>3, <1>4, <1>5, <1>6 DEF Next

\* The account holds of every reachable state.
LEMMA AccountHolds == DownloadsAssumption => (Spec => []Account)
<1> SUFFICES ASSUME DownloadsAssumption PROVE Spec => []Account
  OBVIOUS
<1>1. Init => Account
  <2> SUFFICES ASSUME Init PROVE Locked /\ Synced /\ Tally
    BY DEF Account
  <2>1. Free \notin Session
    BY DEF DownloadsAssumption
  <2>2. Locked
    BY <2>1 DEF Init, Locked, Active
  <2>3. Synced
    BY <2>1 DEF Init, Synced
  <2>4. Tally
    BY DEF Init, Tally, Held
  <2> QED BY <2>2, <2>3, <2>4
<1>2. DownloadsTypeOK /\ Account /\ [Next]_vars => Account'
  BY AccountStep
<1>3. Spec => []DownloadsTypeOK
  BY DownloadsTyping
<1> QED BY <1>1, <1>2, <1>3, PTL DEF Spec

\* A download gets one result, for any number of downloads and sessions, as
\* long as no worker died and no session began with outdated operations.
THEOREM OutcomeOnce == DownloadsAssumption => (Spec => []OneOutcome)
<1> SUFFICES ASSUME DownloadsAssumption PROVE Spec => []OneOutcome
  OBVIOUS
<1>1. Account => OneOutcome
  <2> SUFFICES ASSUME Tally PROVE \A d \in Download : outcomes[d] <= 1
    BY DEF Account, Undisturbed, OneOutcome
  <2>1. \A d \in Download : outcomes[d] = 0 \/ outcomes[d] = 1
    BY DEF Tally
  <2> QED BY <2>1
<1>2. Spec => []Account
  BY AccountHolds
<1> QED BY <1>1, <1>2, PTL

\* No result the CPE was told is received gets lost, for any number of downloads
\* and sessions, with the same exceptions.
THEOREM ResultsKept == DownloadsAssumption => (Spec => []NoResultLost)
<1> SUFFICES ASSUME DownloadsAssumption PROVE Spec => []NoResultLost
  OBVIOUS
<1>1. Account => NoResultLost
  <2> SUFFICES ASSUME Tally, lock = Free, NEW d \in Download, cpe[d] = "told"
               PROVE  d \notin stored /\ d \in done \cup failed
    BY DEF Account, Undisturbed, NoResultLost
  <2>1. ~Held(d) /\ Kept(d)
    BY DEF Tally
  <2> QED BY <2>1 DEF Held, Kept
<1>2. Spec => []Account
  BY AccountHolds
<1> QED BY <1>1, <1>2, PTL

(***************************************************************************)
(* Updates of the Wi-Fi settings: the tasks of an update.                  *)
(***************************************************************************)
Parameters ==
  {"SSID", "BeaconType", "WPAEncryptionModes", "WPAAuthenticationMode", "WEPKeyIndex",
   "KeyPassphrase", "AutoChannelEnable", "Channel", "SSIDAdvertisementEnabled"}

Values ==
  {c[f] : c \in Config, f \in Settings} \cup BOOLEAN \cup
  {"None", "Basic", "WPA", "11i", "AES", "PSK", "1"}

WifiTask == Parameters \X Values

\* The parameters that a setting stands for.
ParametersOf ==
  [f \in Settings |->
     IF f = "ssid" THEN {"SSID"}
     ELSE IF f = "security" THEN {"BeaconType", "WPAEncryptionModes",
                                  "WPAAuthenticationMode", "WEPKeyIndex"}
     ELSE IF f = "password" THEN {"KeyPassphrase"}
     ELSE IF f = "channel" THEN {"AutoChannelEnable", "Channel"}
     ELSE IF f = "hidden" THEN {"SSIDAdvertisementEnabled"}
     ELSE {}]

\* What an update of the settings F to those of c asks for.
Asked(c, F) ==
  {t \in WifiTask :
     \/ "ssid" \in F /\ t = <<"SSID", c.ssid>>
     \/ "security" \in F /\ t \in Range(SecurityTasks(c.security))
     \/ "channel" \in F /\ t \in Range(ChannelTasks(c.channel))
     \/ "hidden" \in F /\ t = <<"SSIDAdvertisementEnabled", ~c.hidden>>
     \/ /\ "password" \in F /\ ~("security" \in F /\ c.security = "Open")
        /\ t = <<"KeyPassphrase", c.password>>}

\* A task is a parameter with its value.
LEMMA IsTask ==
  ASSUME NEW q \in Parameters, NEW v \in Values
  PROVE  <<q, v>> \in WifiTask
BY DEF WifiTask

\* The truth values are among the values of parameters.
LEMMA TruthIsValue == TRUE \in Values /\ FALSE \in Values
BY DEF Values

\* The members of two lists that are put together.
LEMMA RangeConcat ==
  ASSUME NEW S, NEW s \in Seq(S), NEW t \in Seq(S)
  PROVE  s \o t \in Seq(S) /\ Range(s \o t) = Range(s) \cup Range(t)
<1>1. s \o t \in Seq(S) /\ Len(s \o t) = Len(s) + Len(t)
  OBVIOUS
<1>2. \A i \in 1 .. Len(s) : (s \o t)[i] = s[i]
  OBVIOUS
<1>3. \A i \in 1 .. Len(t) : (s \o t)[Len(s) + i] = t[i]
  OBVIOUS
<1>4. Range(s \o t) \subseteq Range(s) \cup Range(t)
  <2> SUFFICES ASSUME NEW i \in 1 .. Len(s) + Len(t)
               PROVE  (s \o t)[i] \in Range(s) \cup Range(t)
    BY <1>1 DEF Range
  <2>1. CASE i <= Len(s)
    BY <2>1, <1>2 DEF Range
  <2>2. CASE i > Len(s)
    <3>1. i - Len(s) \in 1 .. Len(t) /\ i = Len(s) + (i - Len(s))
      BY <2>2
    <3>2. (s \o t)[i] = t[i - Len(s)]
      BY <3>1, <1>3
    <3> QED BY <3>1, <3>2 DEF Range
  <2> QED BY <2>1, <2>2
<1>5. Range(s) \subseteq Range(s \o t)
  BY <1>1, <1>2 DEF Range
<1>6. Range(t) \subseteq Range(s \o t)
  <2> SUFFICES ASSUME NEW i \in 1 .. Len(t) PROVE t[i] \in Range(s \o t)
    BY DEF Range
  <2>1. Len(s) + i \in 1 .. Len(s \o t) /\ (s \o t)[Len(s) + i] = t[i]
    BY <1>1, <1>3
  <2> QED BY <2>1 DEF Range
<1> QED BY <1>1, <1>4, <1>5, <1>6

\* security_map
LEMMA SecurityRange ==
  ASSUME NEW security
  PROVE  /\ SecurityTasks(security) \in Seq(WifiTask)
         /\ <<"BeaconType", BeaconType(security)>> \in Range(SecurityTasks(security))
         /\ \A t \in Range(SecurityTasks(security)) :
              t \in {<<"BeaconType", BeaconType(security)>>, <<"WPAEncryptionModes", "AES">>,
                     <<"WPAAuthenticationMode", "PSK">>, <<"WEPKeyIndex", "1">>}
<1> DEFINE b == BeaconType(security)
           one == << <<"BeaconType", b>> >>
           wpa == << <<"WPAEncryptionModes", "AES">>, <<"WPAAuthenticationMode", "PSK">> >>
           wep == << <<"WEPKeyIndex", "1">> >>
<1>1. b \in Values
  BY DEF BeaconType, Values
<1> HIDE DEF b
<1>2. /\ one \in Seq(WifiTask) /\ Range(one) = {<<"BeaconType", b>>}
      /\ wpa \in Seq(WifiTask)
      /\ Range(wpa) = {<<"WPAEncryptionModes", "AES">>, <<"WPAAuthenticationMode", "PSK">>}
      /\ wep \in Seq(WifiTask) /\ Range(wep) = {<<"WEPKeyIndex", "1">>}
      /\ <<>> \in Seq(WifiTask) /\ Range(<<>>) = {}
  BY <1>1 DEF WifiTask, Parameters, Values, Range
<1>3. \/ SecurityTasks(security) = one \o wpa
      \/ SecurityTasks(security) = one \o wep
      \/ SecurityTasks(security) = one \o <<>>
  BY DEF SecurityTasks, b
<1> HIDE DEF one, wpa, wep
<1>4. PICK more \in {wpa, wep, <<>>} : SecurityTasks(security) = one \o more
  BY <1>3
<1>5. more \in Seq(WifiTask)
  BY <1>2
<1>6. one \o more \in Seq(WifiTask) /\ Range(one \o more) = Range(one) \cup Range(more)
  BY <1>2, <1>5, RangeConcat
<1>7. \A t \in Range(more) : t \in {<<"WPAEncryptionModes", "AES">>,
                                 <<"WPAAuthenticationMode", "PSK">>, <<"WEPKeyIndex", "1">>}
  BY <1>2
<1> QED BY <1>2, <1>4, <1>6, <1>7 DEF b

\* AutoChannelEnable and Channel.
LEMMA ChannelRange ==
  ASSUME NEW channel \in Values
  PROVE  /\ ChannelTasks(channel) \in Seq(WifiTask)
         /\ Range(ChannelTasks(channel)) =
              IF channel = "Auto" THEN {<<"AutoChannelEnable", TRUE>>}
              ELSE {<<"AutoChannelEnable", FALSE>>, <<"Channel", channel>>}
         /\ \A t \in Range(ChannelTasks(channel)) : t[1] \in {"AutoChannelEnable", "Channel"}
         /\ \A t, u \in Range(ChannelTasks(channel)) : t[1] = u[1] => t = u
<1> DEFINE on == <<"AutoChannelEnable", TRUE>>
           off == <<"AutoChannelEnable", FALSE>>
           to == <<"Channel", channel>>
<1>1. on \in WifiTask /\ off \in WifiTask /\ to \in WifiTask
  BY IsTask, TruthIsValue DEF Parameters
<1>4. ChannelTasks(channel) = IF channel = "Auto" THEN << on >> ELSE << off, to >>
  BY DEF ChannelTasks
<1>6. on[1] = "AutoChannelEnable" /\ off[1] = "AutoChannelEnable" /\ to[1] = "Channel"
  OBVIOUS
<1> HIDE DEF on, off, to
<1>2. << on >> \in Seq(WifiTask) /\ << off, to >> \in Seq(WifiTask)
  BY <1>1
<1>3. Range(<< on >>) = {on} /\ Range(<< off, to >>) = {off, to}
  BY DEF Range
<1>5. /\ ChannelTasks(channel) \in Seq(WifiTask)
      /\ Range(ChannelTasks(channel)) = IF channel = "Auto" THEN {on} ELSE {off, to}
  BY <1>2, <1>3, <1>4
<1> QED BY <1>5, <1>6 DEF on, off, to

\* create_wifi_parameter_updates makes a task for each change, and no other.
LEMMA TasksAre ==
  ASSUME WifiAssumption, NEW c \in Config, NEW F \in SUBSET Settings
  PROVE  LET tasks == TasksOf([f \in F |-> c[f]])
         IN  tasks \in Seq(WifiTask) /\ Range(tasks) = Asked(c, F)
<1> DEFINE u == [f \in F |-> c[f]]
           Of(f, tasks) == IF f \in F THEN tasks ELSE <<>>
           Open == "security" \in F /\ c["security"] = "Open"
           s1 == Of("ssid", << <<"SSID", c["ssid"]>> >>)
           s2 == Of("security", SecurityTasks(c["security"]))
           s3 == Of("channel", ChannelTasks(c["channel"]))
           s4 == Of("hidden", << <<"SSIDAdvertisementEnabled", ~c["hidden"]>> >>)
           s5 == IF Open THEN <<>> ELSE Of("password", << <<"KeyPassphrase", c["password"]>> >>)
<1>1. TasksOf(u) = s1 \o s2 \o s3 \o s4 \o s5
  BY DEF TasksOf
<1>2. \A f \in Settings : c[f] \in Values
  BY DEF Values
<1>3. ASSUME NEW t \in WifiTask
      PROVE  << t >> \in Seq(WifiTask) /\ Range(<< t >>) = {t}
  BY DEF Range
<1>4. <<>> \in Seq(WifiTask) /\ Range(<<>>) = {}
  BY DEF Range
<1>5. s1 \in Seq(WifiTask)
      /\ Range(s1) = {t \in WifiTask : "ssid" \in F /\ t = <<"SSID", c["ssid"]>>}
  <2>1. <<"SSID", c["ssid"]>> \in WifiTask
    BY <1>2 DEF WifiTask, Parameters, Settings
  <2> QED BY <1>3, <1>4, <2>1
<1>6. s2 \in Seq(WifiTask)
      /\ Range(s2) = {t \in WifiTask : /\ "security" \in F
                                       /\ t \in Range(SecurityTasks(c["security"]))}
  <2>1. SecurityTasks(c["security"]) \in Seq(WifiTask)
    BY SecurityRange
  <2>2. Range(SecurityTasks(c["security"])) \subseteq WifiTask
    BY <2>1 DEF Range
  <2> QED BY <1>4, <2>1, <2>2
<1>7. s3 \in Seq(WifiTask)
      /\ Range(s3) = {t \in WifiTask : "channel" \in F /\ t \in Range(ChannelTasks(c["channel"]))}
  <2>1. ChannelTasks(c["channel"]) \in Seq(WifiTask)
    BY <1>2, ChannelRange DEF Settings
  <2>2. Range(ChannelTasks(c["channel"])) \subseteq WifiTask
    BY <2>1 DEF Range
  <2> QED BY <1>4, <2>1, <2>2
<1>8. s4 \in Seq(WifiTask)
      /\ Range(s4) = {t \in WifiTask : "hidden" \in F /\
                                       t = <<"SSIDAdvertisementEnabled", ~c["hidden"]>>}
  <2>1. <<"SSIDAdvertisementEnabled", ~c["hidden"]>> \in WifiTask
    <3>1. (~c["hidden"]) \in Values
      BY TruthIsValue
    <3> QED BY <3>1, IsTask DEF Parameters
  <2> QED BY <1>3, <1>4, <2>1
<1>9. s5 \in Seq(WifiTask)
      /\ Range(s5) = {t \in WifiTask : /\ "password" \in F /\ ~Open
                                       /\ t = <<"KeyPassphrase", c["password"]>>}
  <2>1. <<"KeyPassphrase", c["password"]>> \in WifiTask
    BY <1>2 DEF WifiTask, Parameters, Settings
  <2> QED BY <1>3, <1>4, <2>1
<1> HIDE DEF s1, s2, s3, s4, s5, u, Open, Of
<1>16. /\ s1 \in Seq(WifiTask) /\ s2 \in Seq(WifiTask) /\ s3 \in Seq(WifiTask)
       /\ s4 \in Seq(WifiTask) /\ s5 \in Seq(WifiTask)
  BY <1>5, <1>6, <1>7, <1>8, <1>9
<1> DEFINE a2 == s1 \o s2
           a3 == a2 \o s3
           a4 == a3 \o s4
<1>10. a2 \in Seq(WifiTask) /\ Range(a2) = Range(s1) \cup Range(s2)
  BY <1>16, RangeConcat
<1>17. TasksOf(u) = a4 \o s5
  BY <1>1
<1> HIDE DEF a2
<1>11. a3 \in Seq(WifiTask) /\ Range(a3) = Range(a2) \cup Range(s3)
  BY <1>10, <1>16, RangeConcat
<1> HIDE DEF a3
<1>12. a4 \in Seq(WifiTask) /\ Range(a4) = Range(a3) \cup Range(s4)
  BY <1>11, <1>16, RangeConcat
<1> HIDE DEF a4
<1>13. TasksOf(u) \in Seq(WifiTask) /\ Range(TasksOf(u)) = Range(a4) \cup Range(s5)
  BY <1>12, <1>16, <1>17, RangeConcat
<1>14. Range(TasksOf(u)) = Range(s1) \cup Range(s2) \cup Range(s3) \cup Range(s4) \cup Range(s5)
  BY <1>10, <1>11, <1>12, <1>13
<1>15. Range(TasksOf(u)) = Asked(c, F)
  BY <1>5, <1>6, <1>7, <1>8, <1>9, <1>14 DEF Asked, Open
<1> QED BY <1>13, <1>15 DEF u

\* Each task sets a parameter of a setting that changes, and no two the same.
LEMMA AskedOnce ==
  ASSUME WifiAssumption, NEW c \in Config, NEW F \in SUBSET Settings
  PROVE  /\ \A t \in Asked(c, F) : \E f \in F : t[1] \in ParametersOf[f]
         /\ \A t, u \in Asked(c, F) : t[1] = u[1] => t = u
<1>1. c["channel"] \in Values
  BY DEF Values, Settings
<1>2. ASSUME NEW t \in Range(SecurityTasks(c.security))
      PROVE  t \in {<<"BeaconType", BeaconType(c.security)>>, <<"WPAEncryptionModes", "AES">>,
                    <<"WPAAuthenticationMode", "PSK">>, <<"WEPKeyIndex", "1">>}
  BY SecurityRange
<1>3. /\ \A t \in Range(ChannelTasks(c.channel)) : t[1] \in {"AutoChannelEnable", "Channel"}
      /\ \A t, u \in Range(ChannelTasks(c.channel)) : t[1] = u[1] => t = u
  BY <1>1, ChannelRange
<1>6. /\ ParametersOf["ssid"] = {"SSID"}
      /\ ParametersOf["security"] = {"BeaconType", "WPAEncryptionModes",
                                     "WPAAuthenticationMode", "WEPKeyIndex"}
      /\ ParametersOf["password"] = {"KeyPassphrase"}
      /\ ParametersOf["channel"] = {"AutoChannelEnable", "Channel"}
      /\ ParametersOf["hidden"] = {"SSIDAdvertisementEnabled"}
  BY DEF ParametersOf, Settings
<1> DEFINE hide == <<"SSIDAdvertisementEnabled", ~c.hidden>>
<1>8. hide[1] = "SSIDAdvertisementEnabled"
  OBVIOUS
<1> HIDE DEF hide
<1>7. ASSUME NEW t \in Asked(c, F)
      PROVE  \/ "ssid" \in F /\ t = <<"SSID", c.ssid>>
             \/ "security" \in F /\ t \in Range(SecurityTasks(c.security))
             \/ "channel" \in F /\ t \in Range(ChannelTasks(c.channel))
             \/ "hidden" \in F /\ t = hide
             \/ "password" \in F /\ t = <<"KeyPassphrase", c.password>>
  BY DEF Asked, hide
<1>4. ASSUME NEW t \in Asked(c, F)
      PROVE  \E f \in F : t[1] \in ParametersOf[f]
  BY <1>2, <1>3, <1>6, <1>7, <1>8
<1>5. ASSUME NEW t \in Asked(c, F), NEW u \in Asked(c, F), t[1] = u[1]
      PROVE  t = u
  BY <1>2, <1>3, <1>5, <1>7, <1>8
<1> QED BY <1>4, <1>5

\* When all an update asks for is set, it can be read back.
LEMMA AskedIsSet ==
  ASSUME WifiAssumption, NEW c \in Config, NEW F \in SUBSET Settings, NEW d,
         \A t \in Asked(c, F) : d[t[1]] = t[2]
  PROVE  \A f \in F : HasSetting(d, c, f)
<1>1. \A f \in Settings : c[f] \in Values
  BY DEF Values
<1>2. ASSUME "ssid" \in F
      PROVE  HasSetting(d, c, "ssid")
  <2>1. <<"SSID", c["ssid"]>> \in Asked(c, F)
    BY <1>1, <1>2 DEF Asked, WifiTask, Parameters, Settings
  <2>2. d["SSID"] = c["ssid"]
    BY <2>1
  <2> QED BY <2>2 DEF HasSetting, Extract, ReadBack
<1>3. ASSUME "security" \in F
      PROVE  HasSetting(d, c, "security")
  <2>1. <<"BeaconType", BeaconType(c["security"])>> \in Asked(c, F)
    <3>1. <<"BeaconType", BeaconType(c["security"])>> \in Range(SecurityTasks(c["security"]))
      BY SecurityRange
    <3>2. BeaconType(c["security"]) \in Values
      BY DEF BeaconType, Values
    <3> QED BY <1>3, <3>1, <3>2 DEF Asked, WifiTask, Parameters
  <2>2. d["BeaconType"] = BeaconType(c["security"])
    BY <2>1
  <2>3. c["security"] \in Securities
    BY DEF WifiAssumption
  <2> QED BY <2>2, <2>3 DEF HasSetting, Extract, ReadBack, BeaconType, Securities
<1>4. ASSUME "channel" \in F
      PROVE  HasSetting(d, c, "channel")
  <2>1. ASSUME NEW t \in WifiTask, t \in Range(ChannelTasks(c["channel"]))
        PROVE  d[t[1]] = t[2]
    BY <1>4, <2>1 DEF Asked
  <2>2. c["channel"] \in Values
    BY <1>1 DEF Settings
  <2>3. /\ <<"AutoChannelEnable", TRUE>> \in WifiTask
        /\ <<"AutoChannelEnable", FALSE>> \in WifiTask
        /\ <<"Channel", c["channel"]>> \in WifiTask
    BY <2>2, IsTask, TruthIsValue DEF Parameters
  <2>4. CASE c["channel"] = "Auto"
    <3>1. d["AutoChannelEnable"] = TRUE
      BY <2>1, <2>2, <2>3, <2>4, ChannelRange
    <3> QED BY <2>4, <3>1 DEF HasSetting, Extract, ReadBack
  <2>5. CASE c["channel"] # "Auto"
    <3>1. d["AutoChannelEnable"] = FALSE /\ d["Channel"] = c["channel"]
      BY <2>1, <2>2, <2>3, <2>5, ChannelRange
    <3> QED BY <3>1 DEF HasSetting, Extract, ReadBack
  <2> QED BY <2>4, <2>5
<1>5. ASSUME "hidden" \in F
      PROVE  HasSetting(d, c, "hidden")
  <2>1. <<"SSIDAdvertisementEnabled", ~c["hidden"]>> \in Asked(c, F)
    <3>1. (~c["hidden"]) \in Values
      BY TruthIsValue
    <3> QED BY <1>5, <3>1, IsTask DEF Asked, Parameters
  <2>2. d["SSIDAdvertisementEnabled"] = ~c["hidden"]
    BY <2>1
  <2>3. c["hidden"] \in BOOLEAN
    BY DEF WifiAssumption
  <2> QED BY <2>2, <2>3 DEF HasSetting, Extract, ReadBack
<1>6. ASSUME "password" \in F
      PROVE  HasSetting(d, c, "password")
  <2>1. CASE c["security"] # "Open"
    <3>1. <<"KeyPassphrase", c["password"]>> \in Asked(c, F)
      BY <1>1, <1>6, <2>1 DEF Asked, WifiTask, Parameters, Settings
    <3>2. d["KeyPassphrase"] = c["password"]
      BY <3>1
    <3> QED BY <3>2 DEF HasSetting
  <2> QED BY <2>1 DEF HasSetting
<1>7. HasSetting(d, c, "band")
  BY DEF HasSetting
<1> QED BY <1>2, <1>3, <1>4, <1>5, <1>6, <1>7 DEF Settings

\* A task that sets no parameter of a setting leaves the setting as it is.
LEMMA OthersUntouched ==
  ASSUME NEW d, NEW e, NEW c, NEW q, NEW f \in Settings, f # "password",
         q \notin ParametersOf[f], \A p \in Parameters \ {q} : e[p] = d[p],
         HasSetting(d, c, f)
  PROVE  HasSetting(e, c, f)
<1>1. \A p \in ParametersOf[f] : e[p] = d[p]
  BY DEF ParametersOf, Parameters
<1>2. f \in {"ssid", "security", "channel", "hidden", "band"}
  BY DEF Settings
<1>3. CASE f = "ssid"
  BY <1>1, <1>3 DEF HasSetting, Extract, ParametersOf, Settings
<1>4. CASE f = "security"
  <2>1. e["BeaconType"] = d["BeaconType"]
    BY <1>1, <1>4 DEF ParametersOf, Settings
  <2> QED BY <1>4, <2>1 DEF HasSetting, Extract
<1>5. CASE f = "channel"
  <2>1. e["AutoChannelEnable"] = d["AutoChannelEnable"] /\ e["Channel"] = d["Channel"]
    BY <1>1, <1>5 DEF ParametersOf, Settings
  <2> QED BY <1>5, <2>1 DEF HasSetting, Extract
<1>6. CASE f = "hidden"
  <2>1. e["SSIDAdvertisementEnabled"] = d["SSIDAdvertisementEnabled"]
    BY <1>1, <1>6 DEF ParametersOf, Settings
  <2> QED BY <1>6, <2>1 DEF HasSetting, Extract
<1>7. CASE f = "band"
  BY <1>7 DEF HasSetting
<1> QED BY <1>2, <1>3, <1>4, <1>5, <1>6, <1>7

\* What the page shows is set.
LEMMA ShownIsSet ==
  ASSUME NEW d, NEW c, NEW f \in Settings, f # "password", c[f] = Extract(d)[f]
  PROVE  HasSetting(d, c, f)
<1>1. f = "security" => Extract(d)[f] # "WPA3"
  BY DEF Extract
<1> QED BY <1>1 DEF HasSetting, ReadBack

(***************************************************************************)
(* Updates of the Wi-Fi settings: the invariant.                           *)
(***************************************************************************)
Put ==
  [page : Page, waiting : BOOLEAN, answer : {"none", "failed", "success"},
   todo : Seq(WifiTask), total : Nat, count : Nat, held : SUBSET WifiTask, want : Config,
   fields : SUBSET Settings, alone : BOOLEAN, fresh : BOOLEAN]

Queued == [put : Nat, param : Parameters, value : Values, faulty : BOOLEAN]

Applied == [put : Nat, param : Parameters, value : Values]

WifiTypes ==
  /\ DOMAIN params = Parameters
  /\ queue \in Seq(Queued)
  /\ applied \subseteq Applied
  /\ puts \in Seq(Put)
  /\ DOMAIN dialog = Page
  /\ \A p \in Page : \A g \in dialog[p] :
       /\ DOMAIN g = {"original", "update"}
       /\ g.update = g.original \/ g.update \in Config

\* The last update, and its tasks among those that are queued.
Latest == puts[Len(puts)]
Wanted == Asked(Latest.want, Latest.fields)
Own(i) == queue[i].put = Len(puts)
TaskAt(i) == <<queue[i].param, queue[i].value>>
AllOwn == \A i \in DOMAIN queue : Own(i)

\* A task of the last update is to be queued, or is queued, or carried out for
\* good: no earlier update has a task left.
Underway(t) ==
  \/ t \in Range(Latest.todo)
  \/ \E i \in DOMAIN queue : Own(i) /\ TaskAt(i) = t
  \/ AllOwn /\ params[t[1]] = t[2]

\* While the last update has the device for itself.
HasDevice ==
  /\ \A i \in 1 .. Len(puts) - 1 : puts[i].todo = <<>>
  /\ \A i, j \in DOMAIN queue : i < j /\ Own(i) => Own(j)
  /\ \A i, j \in DOMAIN queue : ~Own(i) => ~queue[j].faulty
  /\ Latest.count + Len(Latest.todo) = Latest.total =>
       \A t \in Wanted : Underway(t)
  /\ Latest.fresh =>
       /\ AllOwn
       /\ \A f \in Settings \ Latest.fields :
            f # "password" => HasSetting(params, Latest.want, f)

LatestInv ==
  /\ Range(Latest.todo) \cup Latest.held \subseteq Wanted
  /\ Latest.count + Len(Latest.todo) <= Latest.total
  /\ \A i \in DOMAIN queue : Own(i) => TaskAt(i) \in Wanted
  /\ \A t \in applied : t.put = Len(puts) => <<t.param, t.value>> \in Wanted
  /\ Latest.alone => HasDevice

UpdatesInv ==
  /\ \A i \in DOMAIN queue : queue[i].put \in 1 .. Len(puts)
  /\ \A t \in applied : t.put \in 1 .. Len(puts)
  /\ puts # <<>> => LatestInv

WifiInv == WifiTypes /\ UpdatesInv

\* What there is in a queue when a task is taken out.
LEMMA RemovedTask ==
  ASSUME NEW E, NEW s \in Seq(E), NEW k \in 1 .. Len(s)
  PROVE  LET t == RemoveAt(s, k)
         IN  /\ t \in Seq(E) /\ Len(t) = Len(s) - 1
             /\ \A i \in 1 .. Len(s) - 1 : t[i] = IF i < k THEN s[i] ELSE s[i + 1]
<1> DEFINE u == SubSeq(s, 1, k - 1)
           v == SubSeq(s, k + 1, Len(s))
<1>1. u \in Seq(E) /\ Len(u) = k - 1 /\ \A i \in 1 .. k - 1 : u[i] = s[i]
  OBVIOUS
<1>2. v \in Seq(E) /\ Len(v) = Len(s) - k /\ \A i \in 1 .. Len(s) - k : v[i] = s[i + k]
  OBVIOUS
<1>3. RemoveAt(s, k) = u \o v
  BY DEF RemoveAt
<1> HIDE DEF u, v
<1>4. u \o v \in Seq(E) /\ Len(u \o v) = Len(s) - 1
  BY <1>1, <1>2
<1>5. ASSUME NEW i \in 1 .. Len(s) - 1
      PROVE  (u \o v)[i] = IF i < k THEN s[i] ELSE s[i + 1]
  BY <1>1, <1>2
<1> QED BY <1>3, <1>4, <1>5

\* Two updates that differ in their answers only.
SameUpdate(r, s) ==
  /\ r.todo = s.todo /\ r.total = s.total /\ r.count = s.count
  /\ r.held = s.held /\ r.want = s.want /\ r.fields = s.fields
  /\ r.alone = s.alone /\ r.fresh = s.fresh

\* A step that concerns the page only.
LEMMA PageStep ==
  ASSUME WifiTypes, UpdatesInv, puts' \in Seq(Put), Len(puts') = Len(puts),
         \A i \in 1 .. Len(puts) : SameUpdate(puts'[i], puts[i]),
         UNCHANGED <<params, queue, applied>>
  PROVE  UpdatesInv'
<1> DEFINE n == Len(puts)
<1>1. n \in Nat /\ Len(puts') = n /\ (puts' = <<>> <=> n = 0) /\ (puts = <<>> <=> n = 0)
  BY DEF WifiTypes
<1>2. /\ \A i \in DOMAIN queue' : queue'[i].put \in 1 .. Len(puts')
      /\ \A t \in applied' : t.put \in 1 .. Len(puts')
  BY DEF UpdatesInv
<1>3. ASSUME puts' # <<>>
      PROVE  LatestInv'
  <2>1. n \in 1 .. n /\ LatestInv
    BY <1>1, <1>3 DEF UpdatesInv
  <2>2. SameUpdate(Latest', Latest)
    BY <2>1, <1>1 DEF Latest
  <2>3. \A i \in DOMAIN queue : (Own(i)' <=> Own(i)) /\ TaskAt(i)' = TaskAt(i)
    BY DEF Own, TaskAt
  <2>4. Wanted' = Wanted
    BY <2>2 DEF Wanted, SameUpdate
  <2>5. AllOwn' <=> AllOwn
    BY <2>3 DEF AllOwn
  <2>6. \A t : Underway(t)' <=> Underway(t)
    BY <2>2, <2>3, <2>5 DEF Underway, SameUpdate
  <2>7. ASSUME Latest.alone
        PROVE  HasDevice'
    <3>1. HasDevice
      BY <2>1, <2>7 DEF LatestInv
    <3>2. \A i \in 1 .. n - 1 : puts'[i].todo = <<>>
      BY <3>1, <1>1 DEF HasDevice, SameUpdate
    <3> QED BY <1>1, <2>2, <2>3, <2>4, <2>5, <2>6, <3>1, <3>2 DEF HasDevice, SameUpdate
  <2> QED BY <2>1, <2>2, <2>3, <2>4, <2>7 DEF LatestInv, SameUpdate
<1> QED BY <1>2, <1>3 DEF UpdatesInv

\* The start.
LEMMA WifiStart ==
  ASSUME WifiInit
  PROVE  WifiTypes /\ UpdatesInv
<1>1. DOMAIN params = Parameters
  BY DEF WifiInit, Parameters
<1>2. queue = <<>> /\ queue \in Seq(Queued) /\ puts = <<>> /\ puts \in Seq(Put) /\ applied = {}
  BY DEF WifiInit
<1>3. DOMAIN dialog = Page /\ \A p \in Page : dialog[p] = {}
  BY DEF WifiInit
<1> QED BY <1>1, <1>2, <1>3 DEF WifiTypes, UpdatesInv

\* A dialog is opened, filled in or closed.
LEMMA DialogStep ==
  ASSUME WifiTypes, NEW p \in Page, Edit(p) \/ Fill(p) \/ Cancel(p) \/ Close(p)
  PROVE  /\ DOMAIN dialog' = Page
         /\ \A q \in Page : \A g \in dialog'[q] :
              /\ DOMAIN g = {"original", "update"}
              /\ g.update = g.original \/ g.update \in Config
<1>1. DOMAIN dialog = Page
  BY DEF WifiTypes
<1>2. \A q \in Page : \A g \in dialog[q] :
        /\ DOMAIN g = {"original", "update"}
        /\ g.update = g.original \/ g.update \in Config
  BY DEF WifiTypes
<1>3. CASE Edit(p)
  BY <1>1, <1>2, <1>3 DEF Edit
<1>4. CASE Fill(p)
  <2>1. PICK g \in dialog[p], c \in Config :
          dialog' = [dialog EXCEPT ![p] = {[g EXCEPT !.update = c]}]
    BY <1>4 DEF Fill
  <2> DEFINE h == [g EXCEPT !.update = c]
  <2>2. DOMAIN h = {"original", "update"} /\ h.update \in Config
    BY <1>2
  <2> HIDE DEF h
  <2> QED BY <1>1, <1>2, <2>1, <2>2 DEF h
<1>5. CASE Cancel(p) \/ Close(p)
  BY <1>1, <1>2, <1>5 DEF Cancel, Close
<1> QED BY <1>3, <1>4, <1>5

\* The steps of a page, and the answers to it.
LEMMA PageSteps ==
  ASSUME WifiTypes, UpdatesInv,
         \/ \E p \in Page : Load(p) \/ Edit(p) \/ Fill(p) \/ Cancel(p)
         \/ \E i \in Sent : Respond(i) \/ GiveUp(i)
         \/ UNCHANGED wifiVars
  PROVE  WifiTypes' /\ UpdatesInv'
<1>1. puts \in Seq(Put) /\ \A i \in 1 .. Len(puts) : puts[i] \in Put
  BY DEF WifiTypes
<1>2. UNCHANGED <<params, queue, applied>>
  BY DEF Load, Edit, Fill, Cancel, Respond, GiveUp, wifiVars
<1>3. /\ puts' \in Seq(Put) /\ Len(puts') = Len(puts)
      /\ \A i \in 1 .. Len(puts) : SameUpdate(puts'[i], puts[i])
  <2>1. CASE UNCHANGED puts
    BY <1>1, <2>1 DEF SameUpdate
  <2>2. ASSUME NEW i \in 1 .. Len(puts), NEW r \in Put, puts' = [puts EXCEPT ![i] = r],
               SameUpdate(r, puts[i])
        PROVE  /\ puts' \in Seq(Put) /\ Len(puts') = Len(puts)
               /\ \A k \in 1 .. Len(puts) : SameUpdate(puts'[k], puts[k])
    <3>1. \A k \in 1 .. Len(puts) : puts'[k] = IF k = i THEN r ELSE puts[k]
      BY <1>1, <2>2
    <3>2. \A k \in 1 .. Len(puts) : SameUpdate(puts[k], puts[k])
      BY DEF SameUpdate
    <3> QED BY <1>1, <2>2, <3>1, <3>2
  <2>3. ASSUME NEW i \in 1 .. Len(puts), NEW r, r \in Put, puts' = [puts EXCEPT ![i] = r],
               \/ \E answer \in {"none", "failed", "success"} :
                    r = [puts[i] EXCEPT !.answer = answer, !.waiting = FALSE]
               \/ r = [puts[i] EXCEPT !.waiting = FALSE]
        PROVE  SameUpdate(r, puts[i])
    BY <1>1, <2>3 DEF SameUpdate, Put
  <2>4. ASSUME NEW i \in Sent, Respond(i)
        PROVE  \E r \in Put : puts' = [puts EXCEPT ![i] = r] /\ SameUpdate(r, puts[i])
    <3>1. i \in 1 .. Len(puts)
      BY <1>1 DEF Sent
    <3>2. PICK answer \in {"none", "failed", "success"} :
            puts' = [puts EXCEPT ![i].answer = answer, ![i].waiting = FALSE]
      BY <2>4 DEF Respond
    <3> DEFINE r == [puts[i] EXCEPT !.answer = answer, !.waiting = FALSE]
    <3>3. r \in Put
      BY <1>1, <3>1 DEF Put
    <3>4. puts' = [puts EXCEPT ![i] = r]
      BY <1>1, <3>1, <3>2
    <3>5. SameUpdate(r, puts[i])
      BY <2>3, <3>1, <3>3, <3>4
    <3> QED BY <3>3, <3>4, <3>5
  <2>5. ASSUME NEW i \in Sent, GiveUp(i)
        PROVE  \E r \in Put : puts' = [puts EXCEPT ![i] = r] /\ SameUpdate(r, puts[i])
    <3>1. i \in 1 .. Len(puts)
      BY <1>1 DEF Sent
    <3>2. puts' = [puts EXCEPT ![i].waiting = FALSE]
      BY <2>5 DEF GiveUp
    <3> DEFINE r == [puts[i] EXCEPT !.waiting = FALSE]
    <3>3. r \in Put
      BY <1>1, <3>1 DEF Put
    <3>4. puts' = [puts EXCEPT ![i] = r]
      BY <3>2
    <3>5. SameUpdate(r, puts[i])
      BY <2>3, <3>1, <3>3, <3>4
    <3> QED BY <3>3, <3>4, <3>5
  <2>6. Sent = 1 .. Len(puts)
    BY <1>1 DEF Sent
  <2>7. CASE \E i \in Sent : Respond(i) \/ GiveUp(i)
    BY <2>2, <2>4, <2>5, <2>6, <2>7
  <2>8. CASE \/ \E p \in Page : Load(p) \/ Edit(p) \/ Fill(p) \/ Cancel(p)
             \/ UNCHANGED wifiVars
    BY <2>1, <2>8 DEF Load, Edit, Fill, Cancel, wifiVars
  <2> QED BY <2>7, <2>8
<1>4. UpdatesInv'
  BY <1>2, <1>3, PageStep
<1>5. /\ DOMAIN dialog' = Page
      /\ \A q \in Page : \A g \in dialog'[q] :
           /\ DOMAIN g = {"original", "update"}
           /\ g.update = g.original \/ g.update \in Config
  <2>1. CASE UNCHANGED dialog
    BY <2>1 DEF WifiTypes
  <2>2. CASE \E p \in Page : Edit(p) \/ Fill(p) \/ Cancel(p) \/ Close(p)
    BY <2>2, DialogStep
  <2>3. ASSUME NEW i \in Sent, Respond(i)
        PROVE  UNCHANGED dialog \/ \E p \in Page : Close(p)
    <3>1. puts[i].page \in Page
      <4>1. puts[i] \in Put
        BY <1>1 DEF Sent
      <4> QED BY <4>1 DEF Put
    <3>2. UNCHANGED dialog \/ Close(puts[i].page)
      BY <2>3 DEF Respond
    <3> QED BY <3>1, <3>2
  <2> QED BY <2>1, <2>2, <2>3 DEF Load, GiveUp, wifiVars
<1> QED BY <1>2, <1>3, <1>4, <1>5 DEF WifiTypes

\* An update is sent.
LEMMA SubmitStep ==
  ASSUME WifiAssumption, WifiTypes, UpdatesInv, NEW p \in Page, Submit(p)
  PROVE  WifiTypes' /\ UpdatesInv'
<1> DEFINE n == Len(puts)
<1>1. /\ puts \in Seq(Put) /\ n \in Nat
      /\ queue \in Seq(Queued)
  BY DEF WifiTypes
<1>2. PICK g \in dialog[p] :
        LET fields == Changed(g.original, g.update)
            tasks == TasksOf([f \in fields |-> g.update[f]])
            alone == ~Overtaken /\ \A i \in Sent : ~Running(i)
        IN  /\ tasks # <<>>
            /\ puts' = Append(puts,
                 [page |-> p, waiting |-> TRUE, answer |-> "none",
                  todo |-> tasks, total |-> Len(tasks), count |-> 0, held |-> {},
                  want |-> g.update, fields |-> fields, alone |-> alone,
                  fresh |-> /\ alone /\ queue = <<>>
                            /\ g.original = Extract(params)])
            /\ UNCHANGED <<params, queue, applied, shown, dialog, fails>>
  BY DEF Submit
<1> DEFINE c == g.update
           F == Changed(g.original, c)
           tasks == TasksOf([f \in F |-> c[f]])
           alone == ~Overtaken /\ \A i \in Sent : ~Running(i)
           fresh == alone /\ queue = <<>> /\ g.original = Extract(params)
           r == [page |-> p, waiting |-> TRUE, answer |-> "none",
                 todo |-> tasks, total |-> Len(tasks), count |-> 0, held |-> {},
                 want |-> c, fields |-> F, alone |-> alone, fresh |-> fresh]
<1>3. tasks # <<>> /\ puts' = Append(puts, r) /\ UNCHANGED <<params, queue, applied, shown, dialog, fails>>
  BY <1>2
<1>4. c \in Config
  <2> SUFFICES ASSUME g.original = c PROVE FALSE
    BY DEF WifiTypes
  <2>1. F = {}
    BY DEF Changed
  <2>2. \A u : DOMAIN u = {} => TasksOf(u) = <<>>
    BY DEF TasksOf
  <2>3. DOMAIN [f \in F |-> c[f]] = {}
    BY <2>1
  <2> QED BY <1>3, <2>2, <2>3
<1>5. F \in SUBSET Settings
  BY <1>4 DEF Changed, WifiAssumption
<1>6. tasks \in Seq(WifiTask) /\ Range(tasks) = Asked(c, F)
  BY <1>4, <1>5, TasksAre
<1>7. alone \in BOOLEAN /\ fresh \in BOOLEAN /\ Len(tasks) \in Nat
  BY <1>6
<1>8. ASSUME alone
      PROVE  /\ \A i \in DOMAIN queue : ~queue[i].faulty
             /\ \A i \in 1 .. n : puts[i].todo = <<>>
  BY <1>1, <1>8 DEF Overtaken, Sent, Running
<1>9. ASSUME fresh
      PROVE  /\ queue = <<>>
             /\ \A f \in Settings \ F : f # "password" => HasSetting(params, c, f)
  <2>1. ASSUME NEW f \in Settings \ F, f # "password"
        PROVE  HasSetting(params, c, f)
    <3>1. c[f] = g.original[f]
      BY <1>4 DEF Changed, WifiAssumption
    <3>2. c[f] = Extract(params)[f]
      BY <1>9, <3>1
    <3> QED BY <2>1, <3>2, ShownIsSet
  <2> QED BY <1>9, <2>1
<1> HIDE DEF c, F, tasks, alone, fresh
<1>10. r \in Put
  BY <1>4, <1>5, <1>6, <1>7 DEF Put
<1>11. /\ r.todo = tasks /\ r.total = Len(tasks) /\ r.count = 0 /\ r.want = c /\ r.fields = F
       /\ r.held = {}
       /\ r.alone = alone /\ r.fresh = fresh
  OBVIOUS
<1> HIDE DEF r
<1>12. /\ puts' \in Seq(Put) /\ Len(puts') = n + 1 /\ puts'[n + 1] = r /\ puts' # <<>>
       /\ \A i \in 1 .. n : puts'[i] = puts[i]
  BY <1>1, <1>3, <1>10
<1>13. WifiTypes'
  BY <1>3, <1>12 DEF WifiTypes
<1>14. Latest' = r /\ Wanted' = Asked(c, F)
  BY <1>11, <1>12 DEF Latest, Wanted
<1>15. /\ \A i \in DOMAIN queue' : queue'[i].put \in 1 .. n + 1
       /\ \A i \in DOMAIN queue' : ~Own(i)'
       /\ \A u \in applied' : u.put \in 1 .. n + 1 /\ u.put # Len(puts')
  BY <1>1, <1>3, <1>12 DEF UpdatesInv, Own
<1>16. ASSUME alone
       PROVE  HasDevice'
  <2>1. \A i \in 1 .. Len(puts') - 1 : puts'[i].todo = <<>>
    BY <1>1, <1>8, <1>12, <1>16
  <2>2. \A t \in Wanted' : Underway(t)'
    BY <1>6, <1>11, <1>14 DEF Underway
  <2>3. \A i, j \in DOMAIN queue' : ~Own(i)' => ~queue'[j].faulty
    BY <1>3, <1>8, <1>16
  <2>4. fresh => AllOwn'
    BY <1>1, <1>3, <1>9 DEF AllOwn
  <2> QED BY <1>3, <1>9, <1>11, <1>14, <1>15, <2>1, <2>2, <2>3, <2>4 DEF HasDevice
<1>17. LatestInv'
  BY <1>6, <1>7, <1>11, <1>14, <1>15, <1>16 DEF LatestInv
<1> QED BY <1>12, <1>13, <1>15, <1>17 DEF UpdatesInv

\* A task is queued.
LEMMA Enqueued ==
  ASSUME WifiTypes, NEW i \in 1 .. Len(puts), NEW t \in WifiTask, Enqueue(i, t),
         Len(puts') = Len(puts)
  PROVE  /\ queue' \in Seq(Queued) /\ DOMAIN queue \subseteq DOMAIN queue'
         /\ \E k \in DOMAIN queue' : k \notin DOMAIN queue
         /\ \A k \in DOMAIN queue :
              queue'[k] = queue[k] /\ (Own(k)' <=> Own(k)) /\ TaskAt(k)' = TaskAt(k)
         /\ \A k \in DOMAIN queue' \ DOMAIN queue :
              /\ queue'[k].put = i /\ ~ queue'[k].faulty
              /\ (Own(k)' <=> i = Len(puts)) /\ TaskAt(k)' = t
              /\ \A j \in DOMAIN queue' : j > k => FALSE
<1> DEFINE q == [put |-> i, param |-> t[1], value |-> t[2], faulty |-> FALSE]
<1>12. PICK N \in Nat : N = Len(queue)
  BY DEF WifiTypes
<1>1. queue \in Seq(Queued) /\ N \in Nat /\ DOMAIN queue = 1 .. N
  BY <1>12 DEF WifiTypes
<1>2. q \in Queued /\ q.put = i /\ <<q.param, q.value>> = t /\ q.faulty = FALSE
  BY DEF Queued, WifiTask, WifiTypes
<1>3. queue' = Append(queue, q)
  BY DEF Enqueue
<1> HIDE DEF q
<1>4. /\ queue' \in Seq(Queued) /\ DOMAIN queue' = 1 .. N + 1
      /\ \A k \in 1 .. N : queue'[k] = queue[k]
      /\ queue'[N + 1] = q
  BY <1>1, <1>2, <1>3, <1>12
<1>5. \A k \in DOMAIN queue' \ DOMAIN queue : k = N + 1
  BY <1>1, <1>4
<1>6. DOMAIN queue \subseteq DOMAIN queue' /\ N + 1 \in DOMAIN queue' /\ N + 1 \notin DOMAIN queue
  BY <1>1, <1>4
<1>7. \A j \in DOMAIN queue' : ~ (j > N + 1)
  BY <1>1, <1>4
<1>8. \A k \in DOMAIN queue :
        queue'[k] = queue[k] /\ (Own(k)' <=> Own(k)) /\ TaskAt(k)' = TaskAt(k)
  BY <1>1, <1>4 DEF Own, TaskAt
<1>9. /\ queue'[N + 1].put = i /\ ~ queue'[N + 1].faulty
      /\ (Own(N + 1)' <=> i = Len(puts)) /\ TaskAt(N + 1)' = t
  <2>1. queue'[N + 1].put = i /\ ~ queue'[N + 1].faulty
    BY <1>2, <1>4
  <2>2. Own(N + 1)' <=> i = Len(puts)
    BY <2>1 DEF Own
  <2>3. TaskAt(N + 1)' = t
    BY <1>2, <1>4 DEF TaskAt
  <2> QED BY <2>1, <2>2, <2>3
<1>10. ASSUME NEW k \in DOMAIN queue' \ DOMAIN queue
       PROVE  /\ queue'[k].put = i /\ ~ queue'[k].faulty
              /\ (Own(k)' <=> i = Len(puts)) /\ TaskAt(k)' = t
              /\ \A j \in DOMAIN queue' : j > k => FALSE
  <2>1. k = N + 1
    BY <1>5
  <2> QED BY <1>7, <1>9, <2>1
<1>11. \E k \in DOMAIN queue' : k \notin DOMAIN queue
  BY <1>6
<1> QED BY <1>4, <1>6, <1>8, <1>10, <1>11

\* The calls of an update go on: a task is queued, or its call fails and the
\* answer is no complete success any more.
LEMMA CallStep ==
  ASSUME WifiTypes, UpdatesInv, NEW i \in 1 .. Len(puts), NEW t \in WifiTask,
         puts' \in Seq(Put), Len(puts') = Len(puts), UNCHANGED <<params, applied>>,
         \A j \in 1 .. Len(puts) :
           /\ puts'[j].want = puts[j].want /\ puts'[j].fields = puts[j].fields
           /\ puts'[j].total = puts[j].total /\ puts'[j].fresh = puts[j].fresh
           /\ puts'[j].alone => puts[j].alone
           /\ j # i => /\ puts'[j].todo = puts[j].todo /\ puts'[j].held = puts[j].held
                       /\ puts'[j].count = puts[j].count,
         t \in Range(puts[i].todo) \cup puts[i].held,
         Range(puts'[i].todo) \subseteq Range(puts[i].todo),
         Range(puts[i].todo) \subseteq Range(puts'[i].todo) \cup {t},
         puts'[i].held \subseteq puts[i].held \cup {t},
         puts'[i].count + Len(puts'[i].todo) <= puts[i].count + Len(puts[i].todo),
         \/ Enqueue(i, t)
         \/ /\ queue' = queue
            /\ puts'[i].count + Len(puts'[i].todo) < puts[i].count + Len(puts[i].todo),
         puts'[Len(puts)].alone => i = Len(puts)
  PROVE  queue' \in Seq(Queued) /\ UpdatesInv'
<1> DEFINE n == Len(puts)
<1>1. /\ puts \in Seq(Put) /\ n \in Nat /\ n \in 1 .. n /\ puts # <<>> /\ puts' # <<>>
      /\ queue \in Seq(Queued)
  BY DEF WifiTypes
<1>2. /\ queue' \in Seq(Queued) /\ DOMAIN queue \subseteq DOMAIN queue'
      /\ \A k \in DOMAIN queue :
           queue'[k] = queue[k] /\ (Own(k)' <=> Own(k)) /\ TaskAt(k)' = TaskAt(k)
      /\ \A k \in DOMAIN queue' \ DOMAIN queue :
           /\ queue'[k].put = i /\ ~ queue'[k].faulty
           /\ (Own(k)' <=> i = n) /\ TaskAt(k)' = t
           /\ \A j \in DOMAIN queue' : j > k => FALSE
  <2>1. CASE Enqueue(i, t)
    BY <2>1, Enqueued
  <2>2. CASE queue' = queue
    BY <1>1, <2>2 DEF Own, TaskAt
  <2> QED BY <2>1, <2>2
<1>3. LatestInv
  BY <1>1 DEF UpdatesInv
<1>4. /\ \A k \in DOMAIN queue' : queue'[k].put \in 1 .. Len(puts')
      /\ \A u \in applied' : u.put \in 1 .. Len(puts')
  BY <1>2 DEF UpdatesInv
<1>5. /\ Latest' = puts'[n] /\ Latest = puts[n] /\ Wanted' = Wanted
  BY <1>1 DEF Latest, Wanted
<1>6. i = n => t \in Wanted
  BY <1>3, <1>5 DEF LatestInv
<1>7. Range(Latest'.todo) \cup Latest'.held \subseteq Wanted
  BY <1>1, <1>3, <1>5, <1>6 DEF LatestInv
<1>8. /\ Latest.count \in Nat /\ Len(Latest.todo) \in Nat /\ Latest.total \in Nat
      /\ Latest'.count \in Nat /\ Len(Latest'.todo) \in Nat /\ Latest'.total = Latest.total
      /\ Latest'.count + Len(Latest'.todo) <= Latest.count + Len(Latest.todo)
  <2>1. puts[n] \in Put /\ puts'[n] \in Put
    BY <1>1
  <2>2. /\ puts[n].count \in Nat /\ Len(puts[n].todo) \in Nat /\ puts[n].total \in Nat
        /\ puts'[n].count \in Nat /\ Len(puts'[n].todo) \in Nat
    BY <2>1 DEF Put
  <2>3. puts'[n].count + Len(puts'[n].todo) <= puts[n].count + Len(puts[n].todo)
    <3>1. CASE i = n
      BY <3>1
    <3>2. CASE i # n
      BY <1>1, <2>2, <3>2
    <3> QED BY <3>1, <3>2
  <2> QED BY <1>1, <1>5, <2>2, <2>3
<1>9. Latest'.count + Len(Latest'.todo) <= Latest'.total
  BY <1>3, <1>8 DEF LatestInv
<1>10. \A k \in DOMAIN queue' : Own(k)' => TaskAt(k)' \in Wanted
  BY <1>2, <1>3, <1>6 DEF LatestInv
<1>11. \A u \in applied' : u.put = Len(puts') => <<u.param, u.value>> \in Wanted
  BY <1>3 DEF LatestInv
<1>12. ASSUME Latest'.alone
       PROVE  HasDevice'
  <2>1. i = n /\ HasDevice
    BY <1>1, <1>3, <1>5, <1>12 DEF LatestInv
  <2>2. \A k \in 1 .. Len(puts') - 1 : puts'[k].todo = <<>>
    BY <1>1, <2>1 DEF HasDevice
  <2>3. \A j, k \in DOMAIN queue' : j < k /\ Own(j)' => Own(k)'
    <3> SUFFICES ASSUME NEW j \in DOMAIN queue', NEW k \in DOMAIN queue', j < k, Own(j)'
                 PROVE  Own(k)'
      OBVIOUS
    <3>1. CASE k \notin DOMAIN queue
      BY <1>2, <2>1, <3>1
    <3>2. CASE k \in DOMAIN queue
      <4>1. DOMAIN queue' \subseteq Int
        BY <1>2
      <4>2. j \in DOMAIN queue
        BY <1>2, <4>1
      <4> QED BY <1>2, <2>1, <3>2, <4>2 DEF HasDevice
    <3> QED BY <3>1, <3>2
  <2>4. \A j, k \in DOMAIN queue' : ~Own(j)' => ~queue'[k].faulty
    BY <1>2, <2>1 DEF HasDevice
  <2>5. AllOwn => AllOwn'
    BY <1>2, <2>1 DEF AllOwn
  <2>6. ASSUME Latest'.count + Len(Latest'.todo) = Latest'.total, NEW u \in Wanted
        PROVE  Underway(u)'
    <3>1. Latest.count + Len(Latest.todo) = Latest.total /\ Enqueue(i, t)
      <4>1. Latest.count + Len(Latest.todo) = Latest.total
        <5>1. Latest.count + Len(Latest.todo) <= Latest.total
          BY <1>3 DEF LatestInv
        <5> DEFINE before == Latest.count + Len(Latest.todo)
                   after == puts'[n].count + Len(puts'[n].todo)
        <5>2. /\ before \in Nat /\ after \in Nat /\ after <= before
              /\ after = Latest.total /\ before <= Latest.total
          BY <1>5, <1>8, <2>6, <5>1
        <5> HIDE DEF before, after
        <5>3. before = Latest.total
          BY <5>2
        <5> QED BY <5>3 DEF before
      <4>2. ~ (puts'[i].count + Len(puts'[i].todo) < puts[i].count + Len(puts[i].todo))
        BY <1>5, <1>8, <2>1, <2>6, <4>1
      <4> QED BY <4>1, <4>2
    <3>2. Underway(u)
      BY <2>1, <3>1 DEF HasDevice
    <3>3. CASE u = t
      <4>1. \E k \in DOMAIN queue' : k \notin DOMAIN queue
        BY <3>1, Enqueued
      <4> QED BY <1>2, <2>1, <3>3, <4>1 DEF Underway
    <3>4. CASE u \in Range(Latest.todo) /\ u # t
      BY <1>5, <2>1, <3>4 DEF Underway
    <3>5. CASE \E k \in DOMAIN queue : Own(k) /\ TaskAt(k) = u
      BY <1>2, <3>5 DEF Underway
    <3>6. CASE AllOwn /\ params[u[1]] = u[2]
      BY <2>5, <3>6 DEF Underway
    <3> QED BY <3>2, <3>3, <3>4, <3>5, <3>6 DEF Underway
  <2> QED BY <1>1, <1>5, <2>1, <2>2, <2>3, <2>4, <2>5, <2>6 DEF HasDevice
<1> QED BY <1>2, <1>4, <1>5, <1>7, <1>9, <1>10, <1>11, <1>12 DEF LatestInv, UpdatesInv

\* The first task of a list, and the others.
LEMMA HeadAndTail ==
  ASSUME NEW S, NEW s \in Seq(S), s # <<>>
  PROVE  /\ Head(s) \in S /\ Tail(s) \in Seq(S) /\ Len(Tail(s)) = Len(s) - 1
         /\ Range(s) = {Head(s)} \cup Range(Tail(s))
<1>1. ASSUME NEW k \in 1 .. Len(s)
      PROVE  s[k] \in {Head(s)} \cup Range(Tail(s))
  <2>1. CASE k = 1
    BY <2>1
  <2>2. CASE k # 1
    <3>1. k - 1 \in 1 .. Len(Tail(s)) /\ Tail(s)[k - 1] = s[k]
      BY <2>2
    <3>2. Tail(s)[k - 1] \in Range(Tail(s))
      <4>1. Tail(s) \in Seq(S) /\ DOMAIN Tail(s) = 1 .. Len(Tail(s))
        OBVIOUS
      <4> QED BY <3>1, <4>1 DEF Range
    <3> QED BY <3>1, <3>2
  <2> QED BY <2>1, <2>2
<1>2. Head(s) \in Range(s)
  BY DEF Range
<1>3. ASSUME NEW k \in 1 .. Len(Tail(s))
      PROVE  Tail(s)[k] \in Range(s)
  <2>1. k + 1 \in 1 .. Len(s) /\ Tail(s)[k] = s[k + 1]
    OBVIOUS
  <2> QED BY <2>1 DEF Range
<1>4. Range(s) \subseteq {Head(s)} \cup Range(Tail(s))
  BY <1>1 DEF Range
<1>5. Range(Tail(s)) \subseteq Range(s)
  BY <1>3 DEF Range
<1> QED BY <1>2, <1>4, <1>5

\* A task is posted.
LEMMA PostStep ==
  ASSUME WifiTypes, UpdatesInv, NEW i \in Sent, Post(i)
  PROVE  WifiTypes' /\ UpdatesInv'
<1> DEFINE n == Len(puts)
           t == Head(puts[i].todo)
           rest == Tail(puts[i].todo)
<1>1. /\ puts \in Seq(Put) /\ n \in Nat /\ i \in 1 .. n /\ n \in 1 .. n
      /\ queue \in Seq(Queued) /\ puts[i] \in Put
  BY DEF WifiTypes, Sent
<1>2. puts[i].todo \in Seq(WifiTask) /\ puts[i].todo # <<>>
  BY <1>1 DEF Post, Running, Put
<1>3. /\ t \in WifiTask /\ rest \in Seq(WifiTask) /\ Len(puts[i].todo) \in Nat
      /\ Len(rest) = Len(puts[i].todo) - 1
      /\ Range(puts[i].todo) = {t} \cup Range(rest)
  BY <1>2, HeadAndTail
<1>4. UNCHANGED <<params, applied, shown, dialog>>
  BY DEF Post
<1>5. \/ /\ Enqueue(i, t)
         /\ puts' = [puts EXCEPT ![i].todo = rest, ![i].count = @ + 1]
      \/ /\ queue' = queue
         /\ puts' = [puts EXCEPT ![i].todo = rest, ![i].held = @ \cup {t}]
  BY <1>1 DEF Post
<1> HIDE DEF t, rest, n
<1>6. /\ puts[i].count \in Nat /\ puts[i].held \subseteq WifiTask
      /\ puts[n].alone => i = n
  <2>1. puts[i].count \in Nat /\ puts[i].held \subseteq WifiTask
    BY <1>1 DEF Put
  <2>2. ASSUME puts[n].alone, i # n PROVE FALSE
    <3>1. HasDevice
      BY <1>1, <2>2 DEF UpdatesInv, LatestInv, Latest, n
    <3>2. i \in 1 .. n - 1
      BY <1>1, <2>2
    <3> QED BY <1>2, <3>1, <3>2 DEF HasDevice, n
  <2> QED BY <2>1, <2>2
<1>7. ASSUME NEW r \in Put, puts' = [puts EXCEPT ![i] = r],
             r.want = puts[i].want, r.fields = puts[i].fields, r.total = puts[i].total,
             r.fresh = puts[i].fresh, r.alone = puts[i].alone, r.todo = rest,
             \/ /\ Enqueue(i, t)
                /\ r.count = puts[i].count + 1 /\ r.held = puts[i].held
             \/ /\ queue' = queue
                /\ r.count = puts[i].count /\ r.held = puts[i].held \cup {t}
      PROVE  WifiTypes' /\ UpdatesInv'
  <2>1. /\ puts' \in Seq(Put) /\ Len(puts') = n
        /\ puts'[i] = r /\ \A j \in 1 .. n : j # i => puts'[j] = puts[j]
    BY <1>1, <1>7 DEF n
  <2>2. /\ r.count + Len(r.todo) <= puts[i].count + Len(puts[i].todo)
        /\ \/ Enqueue(i, t)
           \/ queue' = queue /\ r.count + Len(r.todo) < puts[i].count + Len(puts[i].todo)
    BY <1>3, <1>6, <1>7
  <2>3. \A j \in 1 .. n :
           /\ puts'[j].want = puts[j].want /\ puts'[j].fields = puts[j].fields
           /\ puts'[j].total = puts[j].total /\ puts'[j].fresh = puts[j].fresh
           /\ puts'[j].alone = puts[j].alone
           /\ j # i => /\ puts'[j].todo = puts[j].todo /\ puts'[j].held = puts[j].held
                       /\ puts'[j].count = puts[j].count
    BY <1>7, <2>1
  <2>4. queue' \in Seq(Queued) /\ UpdatesInv'
    <3>1. /\ t \in Range(puts[i].todo) \cup puts[i].held
          /\ Range(puts'[i].todo) \subseteq Range(puts[i].todo)
          /\ Range(puts[i].todo) \subseteq Range(puts'[i].todo) \cup {t}
          /\ puts'[i].held \subseteq puts[i].held \cup {t}
      BY <1>3, <1>7, <2>1
    <3>2. puts'[i].count + Len(puts'[i].todo) <= puts[i].count + Len(puts[i].todo)
      BY <2>1, <2>2
    <3>3. \/ Enqueue(i, t)
          \/ /\ queue' = queue
             /\ puts'[i].count + Len(puts'[i].todo) < puts[i].count + Len(puts[i].todo)
      BY <2>1, <2>2
    <3>4. puts'[n].alone => i = n
      BY <1>1, <1>6, <2>3
    <3>5. \A j \in 1 .. n : puts'[j].alone => puts[j].alone
      BY <2>3
    <3>6. UNCHANGED <<params, applied>>
      BY <1>4
    <3> QED BY <1>1, <1>3, <2>1, <2>3, <3>1, <3>2, <3>3, <3>4, <3>5, <3>6, CallStep DEF n
  <2> QED BY <1>4, <2>1, <2>4 DEF WifiTypes
<1>8. CASE /\ Enqueue(i, t)
           /\ puts' = [puts EXCEPT ![i].todo = rest, ![i].count = @ + 1]
  <2> DEFINE m == puts[i].count + 1
             r == [puts[i] EXCEPT !.todo = rest, !.count = m]
  <2>4. m \in Nat
    BY <1>6
  <2> HIDE DEF m
  <2>3. r \in Put
    BY <1>1, <1>3, <2>4 DEF Put
  <2>1. /\ r \in Put /\ r.want = puts[i].want /\ r.fields = puts[i].fields
        /\ r.total = puts[i].total /\ r.fresh = puts[i].fresh /\ r.alone = puts[i].alone
        /\ r.todo = rest /\ r.count = puts[i].count + 1 /\ r.held = puts[i].held
    BY <1>1, <2>3 DEF Put, m
  <2>2. puts' = [puts EXCEPT ![i] = r]
    BY <1>1, <1>8 DEF m
  <2> HIDE DEF r
  <2> QED BY <1>7, <1>8, <2>1, <2>2
<1>9. CASE /\ queue' = queue
           /\ puts' = [puts EXCEPT ![i].todo = rest, ![i].held = @ \cup {t}]
  <2> DEFINE r == [puts[i] EXCEPT !.todo = rest, !.held = @ \cup {t}]
  <2>1. /\ r \in Put /\ r.want = puts[i].want /\ r.fields = puts[i].fields
        /\ r.total = puts[i].total /\ r.fresh = puts[i].fresh /\ r.alone = puts[i].alone
        /\ r.todo = rest /\ r.count = puts[i].count /\ r.held = puts[i].held \cup {t}
    BY <1>1, <1>3, <1>6 DEF Put
  <2>2. puts' = [puts EXCEPT ![i] = r]
    BY <1>1, <1>9
  <2> HIDE DEF r
  <2> QED BY <1>7, <1>9, <2>1, <2>2
<1> QED BY <1>5, <1>8, <1>9

\* The updates that were sent later do not have the device for themselves any more.
LEMMA IntrudedUpdates ==
  ASSUME WifiTypes, NEW k \in Nat
  PROVE  /\ Intruded(k) \in Seq(Put) /\ Len(Intruded(k)) = Len(puts)
         /\ \A j \in 1 .. Len(puts) :
              LET r == Intruded(k)[j]
              IN  /\ r \in Put /\ r.alone = (puts[j].alone /\ j <= k)
                  /\ r.todo = puts[j].todo /\ r.total = puts[j].total
                  /\ r.count = puts[j].count /\ r.held = puts[j].held
                  /\ r.want = puts[j].want /\ r.fields = puts[j].fields
                  /\ r.fresh = puts[j].fresh
<1> DEFINE r(j) == [puts[j] EXCEPT !.alone = @ /\ j <= k]
<1>1. puts \in Seq(Put) /\ Sent = 1 .. Len(puts) /\ Len(puts) \in Nat
  BY DEF WifiTypes, Sent
<1>2. Intruded(k) = [j \in 1 .. Len(puts) |-> r(j)]
  BY <1>1 DEF Intruded
<1>3. ASSUME NEW j \in 1 .. Len(puts)
      PROVE  /\ r(j) \in Put /\ r(j).alone = (puts[j].alone /\ j <= k)
             /\ r(j).todo = puts[j].todo /\ r(j).total = puts[j].total
             /\ r(j).count = puts[j].count /\ r(j).held = puts[j].held
             /\ r(j).want = puts[j].want /\ r(j).fields = puts[j].fields
             /\ r(j).fresh = puts[j].fresh
  <2>1. puts[j] \in Put
    BY <1>1
  <2> QED BY <2>1 DEF Put
<1> HIDE DEF r
<1> QED BY <1>1, <1>2, <1>3

\* A task that the client has given up is queued.
LEMMA PostLateStep ==
  ASSUME WifiTypes, UpdatesInv, NEW i \in Sent, NEW t \in puts[i].held, PostLate(i, t)
  PROVE  WifiTypes' /\ UpdatesInv'
<1> DEFINE n == Len(puts)
           s == Intruded(i)
           r == [s[i] EXCEPT !.held = @ \ {t}]
<1>1. puts \in Seq(Put) /\ n \in Nat /\ i \in 1 .. n /\ n \in 1 .. n /\ i \in Nat
  BY DEF WifiTypes, Sent
<1>2. /\ Enqueue(i, t) /\ puts' = [s EXCEPT ![i].held = @ \ {t}]
      /\ UNCHANGED <<params, applied, shown, dialog>>
  BY DEF PostLate
<1>3. /\ s \in Seq(Put) /\ Len(s) = n
      /\ \A j \in 1 .. n :
           /\ s[j] \in Put /\ s[j].alone = (puts[j].alone /\ j <= i)
           /\ s[j].todo = puts[j].todo /\ s[j].total = puts[j].total
           /\ s[j].count = puts[j].count /\ s[j].held = puts[j].held
           /\ s[j].want = puts[j].want /\ s[j].fields = puts[j].fields
           /\ s[j].fresh = puts[j].fresh
  BY <1>1, IntrudedUpdates
<1> HIDE DEF s
<1>4. puts' = [s EXCEPT ![i] = r] /\ s[i] \in Put
  BY <1>1, <1>2, <1>3
<1>5. /\ r \in Put /\ r.todo = s[i].todo /\ r.total = s[i].total /\ r.count = s[i].count
      /\ r.held = s[i].held \ {t} /\ r.want = s[i].want /\ r.fields = s[i].fields
      /\ r.fresh = s[i].fresh /\ r.alone = s[i].alone
  BY <1>4 DEF Put
<1> HIDE DEF r, n
<1>6. /\ puts' \in Seq(Put) /\ Len(puts') = n
      /\ puts'[i] = r /\ \A j \in 1 .. n : j # i => puts'[j] = s[j]
  BY <1>1, <1>3, <1>4, <1>5
<1>7. /\ t \in WifiTask /\ puts[i].count \in Nat /\ Len(puts[i].todo) \in Nat
  <2>1. puts[i] \in Put
    BY <1>1 DEF n
  <2> QED BY <2>1 DEF Put
<1>8. \A j \in 1 .. n :
        /\ puts'[j].want = puts[j].want /\ puts'[j].fields = puts[j].fields
        /\ puts'[j].total = puts[j].total /\ puts'[j].fresh = puts[j].fresh
        /\ puts'[j].alone = (puts[j].alone /\ j <= i)
        /\ puts'[j].todo = puts[j].todo /\ puts'[j].count = puts[j].count
        /\ j # i => puts'[j].held = puts[j].held
  <2> TAKE j \in 1 .. n
  <2>1. CASE j = i
    <3>1. /\ puts'[j].want = s[j].want /\ puts'[j].fields = s[j].fields
          /\ puts'[j].total = s[j].total /\ puts'[j].fresh = s[j].fresh
          /\ puts'[j].alone = s[j].alone
          /\ puts'[j].todo = s[j].todo /\ puts'[j].count = s[j].count
      BY <1>5, <1>6, <2>1
    <3> QED BY <1>3, <2>1, <3>1
  <2>2. CASE j # i
    <3>1. puts'[j] = s[j]
      BY <1>6, <2>2
    <3> QED BY <1>3, <2>2, <3>1
  <2> QED BY <2>1, <2>2
<1>9. /\ puts'[i].held \subseteq puts[i].held /\ puts'[i].todo = puts[i].todo
      /\ puts'[i].count = puts[i].count
  BY <1>1, <1>3, <1>5, <1>6
<1>10. puts'[n].alone => i = n
  <2> SUFFICES ASSUME puts'[n].alone PROVE i = n
    OBVIOUS
  <2>1. n <= i
    BY <1>1, <1>8
  <2> QED BY <1>1, <2>1
<1>11. puts'[i].count + Len(puts'[i].todo) <= puts[i].count + Len(puts[i].todo)
  BY <1>7, <1>9
<1>12. queue' \in Seq(Queued) /\ UpdatesInv'
  BY <1>1, <1>2, <1>6, <1>7, <1>8, <1>9, <1>10, <1>11, CallStep DEF n
<1> QED BY <1>2, <1>6, <1>12 DEF WifiTypes

\* The task that a session may take up is of the last update only when no task
\* of an earlier one is left.
LEMMA OthersFirst ==
  ASSUME WifiTypes, HasDevice, NEW i \in DOMAIN queue, Own(i),
         queue[i].faulty \/ \A j \in 1 .. i - 1 : queue[j].faulty
  PROVE  AllOwn
<1> SUFFICES ASSUME NEW k \in DOMAIN queue, ~Own(k) PROVE FALSE
  BY DEF AllOwn
<1>1. DOMAIN queue = 1 .. Len(queue) /\ Len(queue) \in Nat
  BY DEF WifiTypes
<1>2. ~queue[i].faulty /\ ~queue[k].faulty
  BY DEF HasDevice
<1>3. k \in 1 .. i - 1
  <2>1. ~(i < k)
    BY DEF HasDevice
  <2>2. k # i
    OBVIOUS
  <2> QED BY <1>1, <2>1, <2>2
<1> QED BY <1>2, <1>3

\* A task of the last update is carried out: what else it asks for stays set, and
\* so does what it does not touch.
LEMMA OwnTaskSets ==
  ASSUME WifiAssumption, WifiTypes, puts # <<>>, NEW w \in Wanted, NEW e,
         e[w[1]] = w[2], \A p \in Parameters \ {w[1]} : e[p] = params[p]
  PROVE  /\ \A u \in Wanted : params[u[1]] = u[2] => e[u[1]] = u[2]
         /\ \A f \in Settings \ Latest.fields :
              f # "password" /\ HasSetting(params, Latest.want, f) =>
                HasSetting(e, Latest.want, f)
<1>1. Latest.want \in Config /\ Latest.fields \in SUBSET Settings
  <2>1. Latest \in Put
    BY DEF WifiTypes, Latest
  <2> QED BY <2>1 DEF Put
<1>2. /\ \A u \in Wanted : \E f \in Latest.fields : u[1] \in ParametersOf[f]
      /\ \A u, v \in Wanted : u[1] = v[1] => u = v
  BY <1>1, AskedOnce DEF Wanted
<1>3. ASSUME NEW u \in Wanted, params[u[1]] = u[2]
      PROVE  e[u[1]] = u[2]
  <2>1. CASE u[1] = w[1]
    BY <1>2, <2>1
  <2>2. CASE u[1] # w[1]
    <3>1. u[1] \in Parameters
      BY DEF Wanted, Asked, WifiTask
    <3> QED BY <1>3, <2>2, <3>1
  <2> QED BY <2>1, <2>2
<1>4. ASSUME NEW f \in Settings \ Latest.fields, f # "password",
             HasSetting(params, Latest.want, f)
      PROVE  HasSetting(e, Latest.want, f)
  <2>1. PICK g \in Latest.fields : w[1] \in ParametersOf[g]
    BY <1>2
  <2>2. w[1] \notin ParametersOf[f]
    BY <1>1, <2>1 DEF ParametersOf, Settings
  <2> QED BY <1>4, <2>2, OthersUntouched
<1> QED BY <1>3, <1>4

\* A session carries out a task.
LEMMA ExecuteStep ==
  ASSUME WifiAssumption, WifiTypes, UpdatesInv, NEW i \in DOMAIN queue, Execute(i)
  PROVE  WifiTypes' /\ UpdatesInv'
<1> DEFINE N == Len(queue)
           n == Len(puts)
           q == queue[i]
           at(k) == IF k < i THEN k ELSE k + 1
           new(k) == IF k < i THEN k ELSE k - 1
<1>1. /\ queue \in Seq(Queued) /\ N \in Nat /\ i \in 1 .. N /\ DOMAIN queue = 1 .. N
      /\ puts \in Seq(Put) /\ n \in Nat
      /\ DOMAIN params = Parameters
  BY DEF WifiTypes
<1>2. q \in Queued
  BY <1>1
<1>3. /\ params' = [params EXCEPT ![q.param] = q.value]
      /\ queue' = RemoveAt(queue, i)
      /\ applied' = applied \cup {[put |-> q.put, param |-> q.param, value |-> q.value]}
      /\ UNCHANGED <<shown, dialog, puts, fails>>
      /\ queue[i].faulty \/ \A j \in 1 .. i - 1 : queue[j].faulty
  BY DEF Execute
<1>4. /\ queue' \in Seq(Queued) /\ Len(queue') = N - 1
      /\ \A k \in 1 .. N - 1 : queue'[k] = IF k < i THEN queue[k] ELSE queue[k + 1]
  BY <1>1, <1>3, RemovedTask
<1>5. /\ q.param \in Parameters /\ DOMAIN params' = Parameters
      /\ params'[q.param] = q.value
      /\ \A p \in Parameters \ {q.param} : params'[p] = params[p]
  BY <1>1, <1>2, <1>3 DEF Queued
<1>11. applied' \subseteq Applied
  BY <1>2, <1>3 DEF WifiTypes, Queued, Applied
<1>12. \A u \in applied' :
         u \in applied \/ (u.put = q.put /\ <<u.param, u.value>> = TaskAt(i))
  BY <1>3 DEF TaskAt
<1> HIDE DEF q
<1>6. DOMAIN queue' = 1 .. N - 1
  BY <1>4
<1>7. /\ \A k \in DOMAIN queue' : at(k) \in DOMAIN queue /\ at(k) # i /\ queue'[k] = queue[at(k)]
      /\ \A j, k \in DOMAIN queue' : j < k => at(j) < at(k)
      /\ \A k \in DOMAIN queue \ {i} : new(k) \in DOMAIN queue' /\ at(new(k)) = k
  <2> HIDE DEF N
  <2>1. \A k \in 1 .. N - 1 : at(k) \in 1 .. N /\ at(k) # i
    BY <1>1
  <2>2. \A j, k \in 1 .. N - 1 : j < k => at(j) < at(k)
    BY <1>1
  <2>3. \A k \in (1 .. N) \ {i} : new(k) \in 1 .. N - 1 /\ at(new(k)) = k
    BY <1>1
  <2>4. \A k \in 1 .. N - 1 : queue'[k] = queue[at(k)]
    BY <1>4
  <2> HIDE DEF at, new
  <2> QED BY <1>1, <1>6, <2>1, <2>2, <2>3, <2>4
<1> HIDE DEF at, new, N, n
<1>8. WifiTypes'
  BY <1>3, <1>4, <1>5, <1>11 DEF WifiTypes
<1>9. /\ \A k \in DOMAIN queue' : queue'[k].put \in 1 .. Len(puts')
      /\ \A u \in applied' : u.put \in 1 .. Len(puts')
  BY <1>3, <1>7, <1>12 DEF UpdatesInv, q
<1>10. ASSUME puts # <<>>
       PROVE  LatestInv'
  <2>1. LatestInv
    BY <1>10 DEF UpdatesInv
  <2>2. Latest' = Latest /\ Wanted' = Wanted
    BY <1>3 DEF Latest, Wanted
  <2>3. \A k \in DOMAIN queue' : (Own(k)' <=> Own(at(k))) /\ TaskAt(k)' = TaskAt(at(k))
    BY <1>3, <1>7 DEF Own, TaskAt
  <2>4. \A k \in DOMAIN queue' : Own(k)' => TaskAt(k)' \in Wanted
    BY <1>7, <2>1, <2>3 DEF LatestInv
  <2>5. ASSUME Latest.alone
        PROVE  HasDevice'
    <3>1. HasDevice
      BY <2>1, <2>5 DEF LatestInv
    <3>2. \A k \in 1 .. Len(puts') - 1 : puts'[k].todo = <<>>
      BY <1>3, <3>1 DEF HasDevice
    <3>3. \A j, k \in DOMAIN queue' : j < k /\ Own(j)' => Own(k)'
      BY <1>7, <2>3, <3>1 DEF HasDevice
    <3>4. \A j, k \in DOMAIN queue' : ~Own(j)' => ~queue'[k].faulty
      BY <1>7, <2>3, <3>1 DEF HasDevice
    <3>5. AllOwn => AllOwn'
      BY <1>7, <2>3 DEF AllOwn
    <3>6. Own(i) => AllOwn
      BY <1>3, <3>1, OthersFirst
    <3>9. ASSUME Own(i)
          PROVE  /\ \A u \in Wanted : params[u[1]] = u[2] => params'[u[1]] = u[2]
                 /\ \A f \in Settings \ Latest.fields :
                      f # "password" /\ HasSetting(params, Latest.want, f) =>
                        HasSetting(params', Latest.want, f)
      <4>1. TaskAt(i) \in Wanted
        BY <2>1, <3>9 DEF LatestInv
      <4>2. TaskAt(i)[1] = q.param /\ TaskAt(i)[2] = q.value
        BY DEF TaskAt, q
      <4> HIDE DEF TaskAt
      <4> QED BY <1>5, <1>10, <4>1, <4>2, OwnTaskSets
    <3>7. ASSUME NEW t \in Wanted, Underway(t)
          PROVE  Underway(t)'
      <4>1. CASE t \in Range(Latest.todo)
        BY <2>2, <4>1 DEF Underway
      <4>2. CASE \E k \in DOMAIN queue \ {i} : Own(k) /\ TaskAt(k) = t
        <5>1. PICK k \in DOMAIN queue \ {i} : Own(k) /\ TaskAt(k) = t
          BY <4>2
        <5>2. new(k) \in DOMAIN queue' /\ Own(new(k))' /\ TaskAt(new(k))' = t
          BY <1>7, <2>3, <5>1
        <5> QED BY <5>2 DEF Underway
      <4>3. CASE Own(i) /\ TaskAt(i) = t
        <5>1. t[1] = q.param /\ t[2] = q.value
          BY <4>3 DEF TaskAt, q
        <5> QED BY <1>5, <3>5, <3>6, <4>3, <5>1 DEF Underway
      <4>4. CASE AllOwn /\ params[t[1]] = t[2]
        <5>1. params'[t[1]] = t[2]
          BY <3>9, <4>4 DEF AllOwn
        <5> QED BY <3>5, <4>4, <5>1 DEF Underway
      <4> QED BY <3>7, <4>1, <4>2, <4>3, <4>4 DEF Underway
    <3>8. ASSUME Latest.fresh, NEW f \in Settings \ Latest.fields, f # "password"
          PROVE  HasSetting(params, Latest.want, f)'
      <4>1. AllOwn /\ HasSetting(params, Latest.want, f)
        BY <3>1, <3>8 DEF HasDevice
      <4>2. HasSetting(params', Latest.want, f)
        BY <3>8, <3>9, <4>1 DEF AllOwn
      <4> QED BY <2>2, <4>2
    <3> QED BY <2>2, <3>1, <3>2, <3>3, <3>4, <3>5, <3>7, <3>8 DEF HasDevice
  <2>6. \A u \in applied' : u.put = Len(puts') => <<u.param, u.value>> \in Wanted
    BY <1>3, <1>12, <2>1 DEF LatestInv, Own, q
  <2> QED BY <1>3, <2>1, <2>2, <2>4, <2>5, <2>6 DEF LatestInv
<1> QED BY <1>3, <1>8, <1>9, <1>10 DEF UpdatesInv

\* A session carries out a task once more.
LEMMA ExecuteAgainStep ==
  ASSUME WifiAssumption, WifiTypes, UpdatesInv, NEW t \in applied, ExecuteAgain(t)
  PROVE  WifiTypes' /\ UpdatesInv'
<1> DEFINE n == Len(puts)
           s == Intruded(t.put)
           w == <<t.param, t.value>>
<1>1. /\ puts \in Seq(Put) /\ n \in Nat /\ t \in Applied /\ t.put \in Nat
      /\ t.param \in Parameters /\ DOMAIN params = Parameters
  BY DEF WifiTypes, Applied
<1>2. /\ params' = [params EXCEPT ![t.param] = t.value] /\ puts' = s
      /\ UNCHANGED <<queue, applied, shown, dialog, fails>>
  BY DEF ExecuteAgain
<1>3. /\ puts' \in Seq(Put) /\ Len(puts') = n
      /\ \A j \in 1 .. n :
           /\ puts'[j].alone = (puts[j].alone /\ j <= t.put)
           /\ puts'[j].todo = puts[j].todo /\ puts'[j].total = puts[j].total
           /\ puts'[j].count = puts[j].count /\ puts'[j].held = puts[j].held
           /\ puts'[j].want = puts[j].want /\ puts'[j].fields = puts[j].fields
           /\ puts'[j].fresh = puts[j].fresh
  BY <1>1, <1>2, IntrudedUpdates
<1> HIDE DEF s, n
<1>4. /\ DOMAIN params' = Parameters /\ params'[w[1]] = w[2]
      /\ \A p \in Parameters \ {w[1]} : params'[p] = params[p]
  BY <1>1, <1>2
<1>5. WifiTypes'
  BY <1>2, <1>3, <1>4 DEF WifiTypes
<1>6. /\ \A k \in DOMAIN queue' : queue'[k].put \in 1 .. Len(puts')
      /\ \A u \in applied' : u.put \in 1 .. Len(puts')
  BY <1>2, <1>3 DEF UpdatesInv, n
<1> HIDE DEF w
<1>7. ASSUME puts' # <<>>
      PROVE  LatestInv'
  <2>1. n \in 1 .. n /\ LatestInv /\ puts # <<>>
    BY <1>1, <1>3, <1>7 DEF UpdatesInv, n
  <2>2. /\ Latest'.todo = Latest.todo /\ Latest'.total = Latest.total
        /\ Latest'.held = Latest.held
        /\ Latest'.count = Latest.count /\ Latest'.want = Latest.want
        /\ Latest'.fields = Latest.fields /\ Latest'.fresh = Latest.fresh
        /\ Latest'.alone = (Latest.alone /\ n <= t.put)
    BY <1>3, <2>1 DEF Latest, n
  <2>3. Wanted' = Wanted
    BY <2>2 DEF Wanted
  <2>4. \A k \in DOMAIN queue : (Own(k)' <=> Own(k)) /\ TaskAt(k)' = TaskAt(k)
    BY <1>2, <1>3 DEF Own, TaskAt, n
  <2>5. AllOwn' <=> AllOwn
    BY <1>2, <2>4 DEF AllOwn
  <2>6. ASSUME Latest'.alone
        PROVE  HasDevice'
    <3>1. HasDevice
      BY <2>1, <2>2, <2>6 DEF LatestInv
    <3>2. w \in Wanted
      <4>1. n <= t.put
        BY <2>2, <2>6
      <4>2. t.put \in 1 .. n
        BY DEF UpdatesInv, n
      <4>3. t.put = Len(puts)
        BY <1>1, <4>1, <4>2 DEF n
      <4> QED BY <2>1, <4>3 DEF LatestInv, w
    <3>3. /\ \A u \in Wanted : params[u[1]] = u[2] => params'[u[1]] = u[2]
          /\ \A f \in Settings \ Latest.fields :
               f # "password" /\ HasSetting(params, Latest.want, f) =>
                 HasSetting(params', Latest.want, f)
      BY <1>4, <2>1, <3>2, OwnTaskSets
    <3>4. \A k \in 1 .. Len(puts') - 1 : puts'[k].todo = <<>>
      BY <1>1, <1>3, <3>1 DEF HasDevice, n
    <3>5. \A u \in Wanted : Underway(u) => Underway(u)'
      BY <1>2, <2>2, <2>4, <2>5, <3>3 DEF Underway
    <3>6. /\ \A j, k \in DOMAIN queue' : j < k /\ Own(j)' => Own(k)'
          /\ \A j, k \in DOMAIN queue' : ~Own(j)' => ~queue'[k].faulty
      BY <1>2, <2>4, <3>1 DEF HasDevice
    <3> QED BY <2>2, <2>3, <2>5, <3>1, <3>3, <3>4, <3>5, <3>6 DEF HasDevice
  <2>7. \A u \in applied' : u.put = Len(puts') => <<u.param, u.value>> \in Wanted
    BY <1>2, <1>3, <2>1 DEF LatestInv, n
  <2> QED BY <1>2, <2>1, <2>2, <2>3, <2>4, <2>6, <2>7 DEF LatestInv
<1> QED BY <1>5, <1>6, <1>7 DEF UpdatesInv

\* The CPE refuses a task.
LEMMA RefuseStep ==
  ASSUME WifiTypes, UpdatesInv, NEW i \in DOMAIN queue, Refuse(i)
  PROVE  WifiTypes' /\ UpdatesInv'
<1> DEFINE N == Len(queue)
           n == Len(puts)
<1>1. /\ queue \in Seq(Queued) /\ N \in Nat /\ i \in 1 .. N /\ DOMAIN queue = 1 .. N
      /\ puts \in Seq(Put) /\ n \in Nat /\ Sent = 1 .. n
  BY DEF WifiTypes, Sent
<1>2. /\ queue' = [queue EXCEPT ![i].faulty = TRUE]
      /\ puts' = Intruded(queue[i].put)
      /\ UNCHANGED <<params, applied, shown, dialog, fails>>
      /\ ~queue[i].faulty /\ \A j \in 1 .. i - 1 : queue[j].faulty
  BY <1>1 DEF Refuse
<1>3. queue[i].put \in Nat
  <2>1. queue[i] \in Queued
    BY <1>1
  <2> QED BY <2>1 DEF Queued
<1>4. /\ puts' \in Seq(Put) /\ Len(puts') = n
      /\ \A j \in 1 .. n :
           /\ puts'[j].alone = (puts[j].alone /\ j <= queue[i].put)
           /\ puts'[j].todo = puts[j].todo /\ puts'[j].total = puts[j].total
           /\ puts'[j].count = puts[j].count /\ puts'[j].held = puts[j].held
           /\ puts'[j].want = puts[j].want /\ puts'[j].fields = puts[j].fields
           /\ puts'[j].fresh = puts[j].fresh
  BY <1>1, <1>2, <1>3, IntrudedUpdates
<1>5. [queue[i] EXCEPT !.faulty = TRUE] \in Queued
  <2>1. queue[i] \in Queued
    BY <1>1
  <2> QED BY <2>1 DEF Queued
<1>6. /\ queue' \in Seq(Queued) /\ DOMAIN queue' = DOMAIN queue
      /\ \A k \in DOMAIN queue \ {i} : queue'[k] = queue[k]
  BY <1>1, <1>2, <1>5
<1>7. \A k \in DOMAIN queue : /\ queue'[k].put = queue[k].put
                              /\ queue'[k].param = queue[k].param
                              /\ queue'[k].value = queue[k].value
  <2>1. queue[i] \in Queued
    BY <1>1
  <2>2. queue'[i] = [queue[i] EXCEPT !.faulty = TRUE]
    BY <1>1, <1>2
  <2> QED BY <1>6, <2>1, <2>2 DEF Queued
<1>8. WifiTypes'
  BY <1>2, <1>4, <1>6 DEF WifiTypes
<1>9. /\ \A k \in DOMAIN queue' : queue'[k].put \in 1 .. Len(puts')
      /\ \A u \in applied' : u.put \in 1 .. Len(puts')
  BY <1>2, <1>4, <1>6, <1>7 DEF UpdatesInv
<1> HIDE DEF N, n
<1>10. ASSUME puts' # <<>>
       PROVE  LatestInv'
  <2>1. n \in 1 .. n /\ LatestInv
    BY <1>1, <1>4, <1>10 DEF UpdatesInv, n
  <2>2. /\ Latest'.todo = Latest.todo /\ Latest'.total = Latest.total
        /\ Latest'.held = Latest.held
        /\ Latest'.count = Latest.count /\ Latest'.want = Latest.want
        /\ Latest'.fields = Latest.fields /\ Latest'.fresh = Latest.fresh
        /\ Latest'.alone = (Latest.alone /\ n <= queue[i].put)
    BY <1>4, <2>1 DEF Latest, n
  <2>3. Wanted' = Wanted
    BY <2>2 DEF Wanted
  <2>4. \A k \in DOMAIN queue : (Own(k)' <=> Own(k)) /\ TaskAt(k)' = TaskAt(k)
    BY <1>4, <1>7 DEF Own, TaskAt, n
  <2>5. AllOwn' <=> AllOwn
    BY <1>6, <2>4 DEF AllOwn
  <2>6. \A t : Underway(t)' <=> Underway(t)
    BY <1>2, <1>6, <2>2, <2>4, <2>5 DEF Underway
  <2>7. ASSUME Latest'.alone
        PROVE  HasDevice'
    <3>1. HasDevice
      BY <2>1, <2>2, <2>7 DEF LatestInv
    <3>2. Own(i)
      <4>1. n <= queue[i].put
        BY <2>2, <2>7
      <4>2. queue[i].put \in 1 .. n
        BY DEF UpdatesInv, n
      <4> QED BY <1>1, <4>1, <4>2 DEF Own, n
    <3>3. AllOwn
      BY <1>2, <3>1, <3>2, OthersFirst
    <3>4. \A k \in 1 .. Len(puts') - 1 : puts'[k].todo = <<>>
      <4>1. 1 .. n - 1 \subseteq 1 .. n
        BY <1>1
      <4> QED BY <1>4, <3>1, <4>1 DEF HasDevice, n
    <3>5. \A k \in DOMAIN queue' : Own(k)'
      BY <2>5, <3>3 DEF AllOwn
    <3> QED BY <1>2, <2>2, <2>3, <2>5, <2>6, <3>1, <3>4, <3>5 DEF HasDevice
  <2>8. \A u \in applied' : u.put = Len(puts') => <<u.param, u.value>> \in Wanted
    BY <1>2, <1>4, <2>1 DEF LatestInv, n
  <2> QED BY <1>6, <2>1, <2>2, <2>3, <2>4, <2>7, <2>8 DEF LatestInv
<1> QED BY <1>8, <1>9, <1>10 DEF UpdatesInv

\* Every step keeps the invariant.
LEMMA WifiStep ==
  ASSUME WifiAssumption, WifiInv, [WifiNext]_wifiVars
  PROVE  WifiInv'
<1>1. CASE \/ \E p \in Page : Load(p) \/ Edit(p) \/ Fill(p) \/ Cancel(p)
           \/ \E i \in Sent : Respond(i) \/ GiveUp(i)
           \/ UNCHANGED wifiVars
  BY <1>1, PageSteps DEF WifiInv
<1>2. CASE \E p \in Page : Submit(p)
  BY <1>2, SubmitStep DEF WifiInv
<1>3. CASE \E i \in Sent : Post(i)
  BY <1>3, PostStep DEF WifiInv
<1>4. CASE \E i \in DOMAIN queue : Execute(i) \/ Refuse(i)
  BY <1>4, ExecuteStep, RefuseStep DEF WifiInv
<1>5. CASE \E i \in Sent : \E t \in puts[i].held : PostLate(i, t)
  BY <1>5, PostLateStep DEF WifiInv
<1>6. CASE \E t \in applied : ExecuteAgain(t)
  BY <1>6, ExecuteAgainStep DEF WifiInv
<1> QED BY <1>1, <1>2, <1>3, <1>4, <1>5, <1>6 DEF WifiNext

\* The invariant gives the property: when nothing is queued or to be queued, all
\* that was asked for is carried out.
LEMMA AllIsSet ==
  ASSUME WifiAssumption, WifiInv
  PROVE  LastSaveWins
<1> SUFFICES ASSUME puts # <<>>, queue = <<>>,
                    Latest.count = Latest.total, Latest.alone,
                    NEW f \in DOMAIN Latest.want,
                    f \in Latest.fields \/ (Latest.fresh /\ f # "password")
             PROVE  HasSetting(params, Latest.want, f)
  BY DEF LastSaveWins, Last, Latest
<1>1. /\ Latest \in Put /\ Latest.want \in Config /\ Latest.fields \in SUBSET Settings
      /\ Latest.todo \in Seq(WifiTask) /\ Latest.count \in Nat
      /\ DOMAIN queue = {}
  <2>1. Latest \in Put
    BY DEF WifiInv, WifiTypes, Latest
  <2> QED BY <2>1 DEF Put
<1>2. DOMAIN Latest.want = Settings
  BY <1>1 DEF WifiAssumption
<1>3. LatestInv /\ HasDevice
  BY DEF WifiInv, UpdatesInv, LatestInv
<1>4. Len(Latest.todo) = 0
  <2>1. Latest.count + Len(Latest.todo) <= Latest.count
    BY <1>3 DEF LatestInv
  <2> QED BY <1>1, <2>1
<1>5. Range(Latest.todo) = {}
  BY <1>1, <1>4 DEF Range
<1>6. \A t \in Wanted : Underway(t)
  <2>1. Latest.count + Len(Latest.todo) = Latest.total
    BY <1>1, <1>4
  <2> QED BY <1>3, <2>1 DEF HasDevice
<1>7. \A t \in Asked(Latest.want, Latest.fields) : params[t[1]] = t[2]
  BY <1>1, <1>5, <1>6 DEF Underway, Wanted
<1>8. CASE f \in Latest.fields
  BY <1>1, <1>7, <1>8, AskedIsSet
<1>9. CASE f \notin Latest.fields
  BY <1>2, <1>3, <1>9 DEF HasDevice
<1> QED BY <1>8, <1>9

\* The parameters, tasks, updates and dialogs are well typed, for any pages and
\* configurations.
THEOREM WifiTyping == WifiAssumption => (WifiSpec => []WifiTypes)
<1> SUFFICES ASSUME WifiAssumption PROVE WifiSpec => []WifiTypes
  OBVIOUS
<1>1. WifiInit => WifiInv
  BY WifiStart DEF WifiInv
<1>2. WifiInv /\ [WifiNext]_wifiVars => WifiInv'
  BY WifiStep
<1>3. WifiInv => WifiTypes
  BY DEF WifiInv
<1> QED BY <1>1, <1>2, <1>3, PTL DEF WifiSpec

\* The device ends as the last operator saved it, for any pages, configurations
\* and numbers of updates and failing calls, whatever tasks are refused and
\* retried.
THEOREM SaveWins == WifiAssumption => (WifiSpec => []LastSaveWins)
<1> SUFFICES ASSUME WifiAssumption PROVE WifiSpec => []LastSaveWins
  OBVIOUS
<1>1. WifiInit => WifiInv
  BY WifiStart DEF WifiInv
<1>2. WifiInv /\ [WifiNext]_wifiVars => WifiInv'
  BY WifiStep
<1>3. WifiInv => LastSaveWins
  BY AllIsSet
<1> QED BY <1>1, <1>2, <1>3, PTL DEF WifiSpec
=============================================================================
