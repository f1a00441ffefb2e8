---------------------------- MODULE SessionQueue ----------------------------
(***************************************************************************)
(* CwmpSession implements TaskQueue until a session is stalled past the    *)
(* expiry of its lock.                                                     *)
(***************************************************************************)
EXTENDS CwmpSession

\* The sessions that hold the device.
AtWork == {s \in Session : pc[s] \in InSession}

Abstract == INSTANCE TaskQueue WITH
  queued <- created, queue <- tasks, executed <- ran,
  void <- expired \cup InvalidTask, working <- AtWork

\* The sessions of a device, however they read, fault, crash and reconnect,
\* behave as one worker at a time on an at-least-once queue, until one of them
\* is stalled past the expiry of its lock (processRequest, nextRpc, endSession,
\* lock.ts).
ImplementsTaskQueue ==
  Abstract!Init /\ [][stalls' > 0 \/ Abstract!Next]_<<Abstract!vars, stalls>>
=============================================================================
