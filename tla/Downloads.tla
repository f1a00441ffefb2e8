----------------------------- MODULE Downloads -----------------------------
(***************************************************************************)
(* The downloads of one device that last longer than a session             *)
(* (session.ts and cwmp.ts, transferComplete and timeoutOperations;        *)
(* cwmp/db.ts, the operations collection).                                 *)
(*                                                                         *)
(* A download is its command key.  A session reads the operations before   *)
(* it has the device's lock, and writes what it changed side by side when  *)
(* it ends.  A download has a channel of its own.                          *)
(***************************************************************************)
EXTENDS Naturals, FiniteSets

CONSTANTS
  Download,
  Session,
  Free,              \* no document in the locks collection
  Option,            \* what cwmp.downloadSuccessOnTimeout may be
  MaxCrashes         \* bound on the sessions that die with their worker

DownloadsAssumption ==
  Free \notin Session /\ Option \subseteq BOOLEAN /\ MaxCrashes \in Nat

VARIABLES
  option,    \* cwmp.downloadSuccessOnTimeout
  stored,    \* operations collection
  done,      \* downloads the device's document has as successful
  failed,    \* downloads whose fault was saved
  lock,
  pc,        \* where each session is
  ops,       \* its operations
  due,       \* those that have timed out as of its timestamp
  touched,   \* operationsTouched
  good,      \* successes in its deviceData
  bad,       \* its faultsTouched
  cpe,       \* what the CPE makes of each download
  overdue,   \* downloads whose timeout has passed
  outcomes,  \* history: results the sessions settled on for each download
  silent,    \* history: downloads a session found to have timed out
  blind,     \* history: a session began with operations that had changed
  died,      \* history: a session was lost with its worker
  crashes

disk == <<option, stored, done, failed>>
context == <<ops, due, touched, good, bad>>
history == <<outcomes, silent, blind, died>>
vars == <<disk, lock, pc, context, cpe, overdue, history, crashes>>

\* new: not started; running; ok, fault: over, and not reported; told: reported;
\* mute: never to be reported
Fate == {"new", "running", "ok", "fault", "told", "mute"}

\* reading   the database was read, the lock is to be tried
\* informed  state 1; working: state 2
\* ending    endSession;  lost: the worker has died
Label == {"idle", "reading", "informed", "working", "ending", "lost"}

DownloadsTypeOK ==
  /\ option \in BOOLEAN
  /\ stored \subseteq Download /\ done \subseteq Download
  /\ failed \subseteq Download
  /\ lock \in Session \cup {Free}
  /\ pc \in [Session -> Label]
  /\ \A x \in {ops, due, touched, good, bad} : x \in [Session -> SUBSET Download]
  /\ cpe \in [Download -> Fate]
  /\ overdue \subseteq Download
  /\ outcomes \in [Download -> Nat]
  /\ silent \subseteq Download
  /\ blind \in BOOLEAN /\ died \in BOOLEAN
  /\ crashes \in 0 .. MaxCrashes

Nothing == [s \in Session |-> {}]

Init ==
  /\ option \in Option
  /\ stored = {} /\ done = {} /\ failed = {}
  /\ lock = Free
  /\ pc = [s \in Session |-> "idle"]
  /\ ops = Nothing /\ due = Nothing /\ touched = Nothing
  /\ good = Nothing /\ bad = Nothing
  /\ cpe = [d \in Download |-> "new"]
  /\ overdue = {}
  /\ outcomes = [d \in Download |-> 0]
  /\ silent = {} /\ blind = FALSE /\ died = FALSE /\ crashes = 0

Goto(s, from, to) == pc[s] = from /\ pc' = [pc EXCEPT ![s] = to]

\* Sets of downloads of session s.
With(x, s, D) == [x EXCEPT ![s] = @ \cup D]
Without(x, s, D) == [x EXCEPT ![s] = @ \ D]

\* Session s settles on a result for the downloads of D.
Settle(D) ==
  outcomes' = [d \in Download |-> outcomes[d] + (IF d \in D THEN 1 ELSE 0)]

(***************************************************************************)
(* A session begins.                                                       *)
(***************************************************************************)
\* listenerAsync: session.init and getOperations.
Read(s) ==
  /\ Goto(s, "idle", "reading")
  /\ ops' = [ops EXCEPT ![s] = stored]
  /\ due' = [due EXCEPT ![s] = stored \cap overdue]
  /\ touched' = [touched EXCEPT ![s] = {}]
  /\ good' = [good EXCEPT ![s] = {}]
  /\ bad' = [bad EXCEPT ![s] = {}]
  /\ UNCHANGED <<disk, lock, cpe, overdue, history, crashes>>

\* processRequest: acquireLock, then inform.
Lock(s) ==
  /\ lock = Free /\ lock' = s
  /\ Goto(s, "reading", "informed")
  /\ blind' = (blind \/ ops[s] # stored)
  /\ UNCHANGED <<disk, context, cpe, overdue, outcomes, silent, died, crashes>>

Refused(s) ==
  /\ lock # Free
  /\ Goto(s, "reading", "idle")
  /\ UNCHANGED <<disk, lock, context, cpe, overdue, history, crashes>>

(***************************************************************************)
(* The CPE reports a download.                                             *)
(***************************************************************************)
\* A mutant of Forget: the operation stays in the database.
ForgetInMemory(s, D) == ops' = Without(ops, s, D) /\ UNCHANGED touched

\* Another: the operation stays in the session, and is saved once more.
ForgetOnDisk(s, D) == touched' = With(touched, s, D) /\ UNCHANGED ops

\* delete sessionContext.operations[commandKey], and operationsTouched.
Forget(s, D) == ops' = Without(ops, s, D) /\ touched' = With(touched, s, D)

\* transferComplete; nothing but the response for a command key that is not
\* known.  The response may not get to the CPE, which will report again.
TransferComplete(s, d) ==
  LET D == ops[s] \cap {d}
  IN  /\ cpe[d] \in {"ok", "fault"}
      /\ Forget(s, D)
      /\ Settle(D)
      /\ IF cpe[d] = "ok" THEN good' = With(good, s, D) /\ UNCHANGED bad
                          ELSE bad' = With(bad, s, D) /\ UNCHANGED good
      /\ \/ Goto(s, "informed", "informed") /\ cpe' = [cpe EXCEPT ![d] = "told"]
         \/ Goto(s, "informed", "ending") /\ UNCHANGED cpe
      /\ UNCHANGED <<disk, lock, due, overdue, silent, blind, died, crashes>>

(***************************************************************************)
(* The CPE has nothing to report.                                          *)
(***************************************************************************)
\* timestamp + DOWNLOAD_TIMEOUT, for the operations that are still there.
TimedOut(s) == ops[s] \cap due[s]

\* The first empty POST: timeoutOperations and recordFault.
EmptyPost(s) ==
  LET D == TimedOut(s)
  IN  /\ D = {} \/ ~option
      /\ Goto(s, "informed", "working")
      /\ Forget(s, D)
      /\ Settle(D)
      /\ bad' = With(bad, s, D)
      /\ silent' = silent \cup D
      /\ UNCHANGED <<disk, lock, due, good, cpe, overdue, blind, died, crashes>>

\* A download is to count as successful: transferComplete takes the request it
\* is given, which has no faultStruct, for one with a fault, and throws when it
\* reads the code.  The worker exits.
EmptyPostThrows(s) ==
  LET D == TimedOut(s)
  IN  /\ D # {} /\ option
      /\ Goto(s, "informed", "lost")
      /\ silent' = silent \cup D
      /\ died' = TRUE
      /\ UNCHANGED <<disk, lock, context, cpe, overdue, outcomes, blind, crashes>>

(***************************************************************************)
(* Downloads begin.                                                        *)
(***************************************************************************)
\* DownloadResponse with status 0: the CPE is done at once.
DoneAtOnce(s, d) ==
  /\ cpe[d] = "new"
  /\ Goto(s, "working", "working")
  /\ cpe' = [cpe EXCEPT ![d] = "told"]
  /\ good' = With(good, s, {d})
  /\ Settle({d})
  /\ UNCHANGED <<disk, lock, ops, due, touched, bad, overdue, silent, blind, died, crashes>>

\* DownloadResponse with status 1: the operation is added.
Begun(s, d) ==
  /\ cpe[d] = "new"
  /\ Goto(s, "working", "working")
  /\ cpe' = [cpe EXCEPT ![d] = "running"]
  /\ ops' = With(ops, s, {d})
  /\ touched' = With(touched, s, {d})
  /\ UNCHANGED <<disk, lock, due, good, bad, overdue, history, crashes>>

\* The connection is lost before the response: nobody will know the key, and
\* the batch has its fault.
BegunUnknown(s, d) ==
  /\ cpe[d] = "new"
  /\ Goto(s, "working", "ending")
  /\ cpe' = [cpe EXCEPT ![d] = "running"]
  /\ bad' = With(bad, s, {d})
  /\ Settle({d})
  /\ UNCHANGED <<disk, lock, ops, due, touched, good, overdue, silent, blind, died, crashes>>

(***************************************************************************)
(* endSession.                                                             *)
(***************************************************************************)
\* The last response, a connection or a session that is dropped.
End(s) ==
  /\ \E from \in {"informed", "working"} : Goto(s, from, "ending")
  /\ UNCHANGED <<disk, lock, context, cpe, overdue, history, crashes>>

Write(s) ==
  /\ pc[s] = "ending"
  /\ UNCHANGED <<lock, pc, due, cpe, overdue, history, crashes>>

SaveDevice(s) ==
  /\ Write(s)
  /\ good[s] # {}
  /\ done' = done \cup good[s]
  /\ good' = [good EXCEPT ![s] = {}]
  /\ UNCHANGED <<option, stored, failed, ops, touched, bad>>

\* saveOperation or deleteOperation
SaveOperation(s, d) ==
  /\ Write(s)
  /\ d \in touched[s]
  /\ stored' = IF d \in ops[s] THEN stored \cup {d} ELSE stored \ {d}
  /\ touched' = Without(touched, s, {d})
  /\ UNCHANGED <<option, done, failed, ops, good, bad>>

SaveFault(s, d) ==
  /\ Write(s)
  /\ d \in bad[s]
  /\ failed' = failed \cup {d}
  /\ bad' = Without(bad, s, {d})
  /\ UNCHANGED <<option, stored, done, ops, touched, good>>

\* releaseLock
Release(s) ==
  /\ good[s] = {} /\ touched[s] = {} /\ bad[s] = {}
  /\ Goto(s, "ending", "idle")
  /\ lock' = IF lock = s THEN Free ELSE lock
  /\ UNCHANGED <<disk, context, cpe, overdue, history, crashes>>

(***************************************************************************)
(* Environment.                                                            *)
(***************************************************************************)
Finish(d) ==
  /\ cpe[d] = "running"
  /\ \E f \in {"ok", "fault", "mute"} : cpe' = [cpe EXCEPT ![d] = f]
  /\ UNCHANGED <<disk, lock, pc, context, overdue, history, crashes>>

PassTimeout(d) ==
  /\ cpe[d] # "new" /\ d \notin overdue
  /\ overdue' = overdue \cup {d}
  /\ UNCHANGED <<disk, lock, pc, context, cpe, history, crashes>>

Crash(s) ==
  /\ crashes < MaxCrashes /\ crashes' = crashes + 1
  /\ \E from \in {"informed", "working", "ending"} : Goto(s, from, "lost")
  /\ died' = TRUE
  /\ UNCHANGED <<disk, lock, context, cpe, overdue, outcomes, silent, blind>>

\* The lock of a session that died expires.
Recover(s) ==
  /\ Goto(s, "lost", "idle")
  /\ lock' = IF lock = s THEN Free ELSE lock
  /\ UNCHANGED <<disk, context, cpe, overdue, history, crashes>>

Next ==
  \/ \E s \in Session :
       \/ Read(s) \/ Lock(s) \/ Refused(s)
       \/ EmptyPost(s) \/ EmptyPostThrows(s)
       \/ End(s) \/ SaveDevice(s) \/ Release(s) \/ Crash(s) \/ Recover(s)
       \/ \E d \in Download :
            \/ TransferComplete(s, d) \/ DoneAtOnce(s, d) \/ Begun(s, d)
            \/ BegunUnknown(s, d) \/ SaveOperation(s, d) \/ SaveFault(s, d)
  \/ \E d \in Download : Finish(d) \/ PassTimeout(d)

Spec == Init /\ [][Next]_vars

(***************************************************************************)
(* Properties.                                                             *)
(***************************************************************************)
\* A download is settled once: it does not time out after its result has come,
\* nor is a result that is reported again taken for another, unless a worker
\* died or a session began with operations another one was still saving.
OneOutcome ==
  ~died /\ ~blind => \A d \in Download : outcomes[d] <= 1

\* What the CPE was told is received is not lost: once no session works on the
\* device, the operation of a download that was reported is gone, and the
\* database has its success or a fault, with the same exceptions.
NoResultLost ==
  ~died /\ ~blind /\ lock = Free =>
    \A d \in Download :
      cpe[d] = "told" => d \notin stored /\ d \in done \cup failed

\* With downloadSuccessOnTimeout, a download the CPE does not report counts as
\* successful for the session that finds it timed out.
SilentSucceeds ==
  option =>
    \A d \in silent : d \in done \/ \E s \in Session : d \in good[s]
=============================================================================
