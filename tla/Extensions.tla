----------------------------- MODULE Extensions -----------------------------
(***************************************************************************)
(* The jobs a worker gives to the process of one extension script          *)
(* (extensions.ts), and that process (bin/genieacs-ext.ts).                *)
(*                                                                         *)
(* A process is the number of the spawn that made it.  Which of answer,    *)
(* exit, error and timeout comes first is left open.                       *)
(***************************************************************************)
EXTENDS Naturals, FiniteSets

CONSTANTS
  Job,       \* ids of jobs, each run once
  MaxSpawns  \* bound on the processes started

SpawnAssumption == MaxSpawns \in Nat

VARIABLES
  current,  \* processes[scriptName], or 0
  state,    \* of each process
  spawner,  \* the job whose run() started the process
  inbox,    \* jobs the process has received and not answered
  outbox,   \* jobs it has answered, the messages not yet read
  jobs,     \* keys of jobs
  armed,    \* jobs whose timer is running
  told,     \* jobs whose result is on its way to the caller
  results   \* how often the promise of a job was resolved

procs == <<current, state, spawner, inbox, outbox>>
jobVars == <<procs, jobs, armed, told, results>>

Proc == 1 .. MaxSpawns

\* up       running, and connected
\* broken   could not be spawned, or written to: an error event is to come
\* dying    kill() has been called
\* down     the channel is closed: a disconnect event is to come
State == {"none", "up", "broken", "dying", "down", "gone"}

ExtensionsTypeOK ==
  /\ current \in Proc \cup {0}
  /\ state \in [Proc -> State]
  /\ spawner \in [Proc -> SUBSET Job]
  /\ inbox \in [Proc -> SUBSET Job]
  /\ outbox \in [Proc -> SUBSET Job]
  /\ jobs \subseteq Job /\ armed \subseteq Job /\ told \subseteq Job
  /\ results \in [Job -> Nat]

JobsInit ==
  /\ current = 0
  /\ state = [p \in Proc |-> "none"]
  /\ spawner = [p \in Proc |-> {}]
  /\ inbox = [p \in Proc |-> {}]
  /\ outbox = [p \in Proc |-> {}]
  /\ jobs = {} /\ armed = {} /\ told = {}
  /\ results = [j \in Job |-> 0]

Started(j) == j \in jobs \cup told \/ results[j] > 0

\* The first process not yet used; spawn can fail at once.
NextProc(p) == state[p] = "none" /\ \A q \in 1 .. p - 1 : state[q] # "none"

\* A mutant of Armed: no timer for a job that cannot be sent.
ArmedIfSent(j, p) == IF state'[p] = "up" THEN {j} ELSE {}

\* The timer is set whether the job can be sent or not.
Armed(j, p) == {j}

\* run: the job goes to the process of the script, if it is connected.
Send(j, p) ==
  /\ jobs' = jobs \cup {j}
  /\ inbox' = IF state'[p] = "up" THEN [inbox EXCEPT ![p] = @ \cup {j}] ELSE inbox
  /\ armed' = armed \cup Armed(j, p)
  /\ UNCHANGED <<outbox, told, results>>

Run(j) ==
  /\ ~Started(j)
  /\ \/ /\ current # 0
        /\ UNCHANGED <<current, state, spawner>>
        /\ Send(j, current)
     \/ \E p \in Proc, s \in {"up", "broken"} :
          /\ current = 0 /\ NextProc(p)
          /\ current' = p
          /\ state' = [state EXCEPT ![p] = s]
          /\ spawner' = [spawner EXCEPT ![p] = {j}]
          /\ Send(j, p)

(***************************************************************************)
(* The process.                                                            *)
(***************************************************************************)
Alive(p) == state[p] \in {"up", "broken", "dying"}

\* A function calls back.  One that does not exist is answered as well, and
\* the process keeps the job: it may answer again when it fails.
Answer(p, j) ==
  /\ Alive(p) /\ j \in inbox[p]
  /\ outbox' = [outbox EXCEPT ![p] = @ \cup {j}]
  /\ inbox' \in {inbox, [inbox EXCEPT ![p] = @ \ {j}]}
  /\ UNCHANGED <<current, state, spawner, jobs, armed, told, results>>

\* uncaughtException: every job is answered with the fault.
Uncaught(p) ==
  /\ Alive(p)
  /\ outbox' = [outbox EXCEPT ![p] = @ \cup inbox[p]]
  /\ inbox' = [inbox EXCEPT ![p] = {}]
  /\ state' = [state EXCEPT ![p] = "down"]
  /\ UNCHANGED <<current, spawner, jobs, armed, told, results>>

\* The process is killed, or exits.
Exit(p) ==
  /\ Alive(p)
  /\ inbox' = [inbox EXCEPT ![p] = {}]
  /\ state' = [state EXCEPT ![p] = "down"]
  /\ UNCHANGED <<current, spawner, outbox, jobs, armed, told, results>>

\* A message cannot be sent to the process.
Break(p) ==
  /\ state[p] = "up"
  /\ state' = [state EXCEPT ![p] = "broken"]
  /\ UNCHANGED <<current, spawner, inbox, outbox, jobs, armed, told, results>>

(***************************************************************************)
(* The events of the worker.                                               *)
(***************************************************************************)
Resolve(J) == results' = [j \in Job |-> IF j \in J THEN results[j] + 1 ELSE results[j]]

\* p.on("error"): the job that started the process fails, if it still waits.
Error(p) ==
  /\ state[p] = "broken"
  /\ state' = [state EXCEPT ![p] = "dying"]
  /\ IF current = p
       THEN /\ current' = 0
            /\ jobs' = jobs \ spawner[p]
            /\ Resolve(jobs \cap spawner[p])
       ELSE UNCHANGED <<current, jobs, results>>
  /\ UNCHANGED <<spawner, inbox, outbox, armed, told>>

\* A mutant of Unregister: the entry of the script goes, whosoever it is.
UnregisterAny(p) == 0

\* What p.on("disconnect") leaves in processes.
Unregister(p) == IF current = p THEN 0 ELSE current

Disconnect(p) ==
  /\ state[p] = "down" /\ outbox[p] = {}
  /\ state' = [state EXCEPT ![p] = "gone"]
  /\ current' = Unregister(p)
  /\ UNCHANGED <<spawner, inbox, outbox, jobs, armed, told, results>>

\* p.on("message"): an answer nobody waits for any more is dropped.
Message(p, j) ==
  /\ j \in outbox[p]
  /\ outbox' = [outbox EXCEPT ![p] = @ \ {j}]
  /\ jobs' = jobs \ {j}
  /\ told' = told \cup (jobs \cap {j})
  /\ UNCHANGED <<current, state, spawner, inbox, armed, results>>

\* setTimeout(() => func(...))
Tell(j) ==
  /\ j \in told
  /\ told' = told \ {j}
  /\ Resolve({j})
  /\ UNCHANGED <<procs, jobs, armed>>

\* A mutant of Waiting: a job whose answer has come times out all the same.
WaitingForResult(j) == results[j] = 0

\* jobs.delete(id)
Waiting(j) == j \in jobs

Timeout(j) ==
  /\ j \in armed
  /\ armed' = armed \ {j}
  /\ jobs' = jobs \ {j}
  /\ Resolve(IF Waiting(j) THEN {j} ELSE {})
  /\ UNCHANGED <<procs, told>>

JobsNext ==
  \/ \E j \in Job : Run(j) \/ Tell(j) \/ Timeout(j)
  \/ \E p \in Proc :
       \/ Uncaught(p) \/ Exit(p) \/ Break(p) \/ Error(p) \/ Disconnect(p)
       \/ \E j \in Job : Answer(p, j) \/ Message(p, j)

JobsSpec == JobsInit /\ [][JobsNext]_jobVars

\* Timers fire; the script need never answer, nor the process end.
Served(j) == Tell(j) \/ Timeout(j)

FairSpec == JobsSpec /\ \A j \in Job : WF_jobVars(Served(j))

(***************************************************************************)
(* Properties.                                                             *)
(***************************************************************************)
\* A job gets one result, whichever of its answer, the error of the process
\* and its timeout comes first, and however often the process answers.
OneResult == \A j \in Job : results[j] <= 1

\* A process that is running is the one in processes: the late end of an older
\* process does not make the worker forget it, and start another beside it.
NoneForgotten == \A p \in Proc : state[p] = "up" => current = p

\* Every job has a result in the end, also one for a process that is gone.
EveryJobEnds == \A j \in Job : j \in jobs ~> results[j] > 0
=============================================================================
