----------------------------- MODULE TaskQueue -----------------------------
(***************************************************************************)
(* What CWMP sessions promise about the tasks of one device: the sessions  *)
(* work on it one at a time, a task is executed only after it was queued,  *)
(* and a session takes a task off the queue only when the task has been    *)
(* executed or has lost its meaning.  A task may be executed several times.*)
(***************************************************************************)
CONSTANTS Task, Session

VARIABLES
  queued,    \* tasks ever queued
  queue,     \* tasks waiting
  executed,  \* tasks executed, by any session
  void,      \* tasks that need not be executed any more
  working    \* the session at work, as a set of at most one

vars == <<queued, queue, executed, void, working>>

Init ==
  /\ queued = {} /\ queue = {} /\ executed = {} /\ working = {}
  /\ void \in SUBSET Task

Queue(t) ==
  /\ t \notin queued
  /\ queued' = queued \cup {t}
  /\ queue' = queue \cup {t}
  /\ UNCHANGED <<executed, void, working>>

\* The task expires.
Void(t) ==
  /\ void' = void \cup {t}
  /\ UNCHANGED <<queued, queue, executed, working>>

Begin(s) ==
  /\ working = {}
  /\ working' = {s}
  /\ UNCHANGED <<queued, queue, executed, void>>

\* A session executes some tasks.
Execute(s, ts) ==
  /\ working = {s}
  /\ ts \subseteq queued
  /\ executed' = executed \cup ts
  /\ UNCHANGED <<queued, queue, void, working>>

Remove(s, ts) ==
  /\ working = {s}
  /\ ts \subseteq executed \cup void
  /\ queue' = queue \ ts
  /\ UNCHANGED <<queued, executed, void, working>>

\* The session ends, or is lost.
End(s) ==
  /\ working = {s}
  /\ working' = {}
  /\ UNCHANGED <<queued, queue, executed, void>>

Next ==
  \/ \E t \in Task : Queue(t) \/ Void(t)
  \/ \E s \in Session :
       \/ Begin(s) \/ End(s)
       \/ \E ts \in SUBSET Task : Execute(s, ts) \/ Remove(s, ts)

Spec == Init /\ [][Next]_vars
=============================================================================
