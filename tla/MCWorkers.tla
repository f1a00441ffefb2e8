------------------------------ MODULE MCWorkers ------------------------------
(***************************************************************************)
(* What worker processes share outside of a request, for one run of TLC:   *)
(* a behaviour is one of the hand-off of a session between connections, or *)
(* of the configuration cache.  The two do not interact: part says which   *)
(* one a behaviour is of.                                                  *)
(***************************************************************************)
EXTENDS SessionHandoff, LocalCache

CONSTANTS c1, c2, c3, w1, w2, k1

ThreeConnections == {c1, c2, c3}
TwoWorkers == {w1, w2}
OneWorker == {w2}
OneCollection == {k1}

VARIABLE part

workerVars == <<part, vars, cacheVars>>

ASSUME TimeAssumption /\ HandoffBounds
ASSUME CacheAssumption

WorkersInit ==
  /\ part \in {"handoff", "cache"}
  /\ Init /\ CacheInit
  /\ part # "handoff" => pc[c1] = "idle"

WorkersNext ==
  \/ part = "handoff" /\ Next /\ UNCHANGED <<part, cacheVars>>
  \/ part = "cache" /\ CacheNext /\ UNCHANGED <<part, vars>>

\* The fairness of each module, in its own behaviours.
Turn1 ==
  \/ part = "handoff" /\ Tick /\ UNCHANGED <<part, cacheVars>>
  \/ part = "cache" /\ Work(w1) /\ UNCHANGED <<part, vars>>

Turn2 ==
  \/ part = "handoff" /\ Serve(c1) /\ UNCHANGED <<part, cacheVars>>
  \/ part = "cache" /\ Work(w2) /\ UNCHANGED <<part, vars>>

Turn3 ==
  \/ part = "handoff" /\ Serve(c2) /\ UNCHANGED <<part, cacheVars>>
  \/ part = "cache" /\ Invalidate /\ UNCHANGED <<part, vars>>

Turn4 ==
  \/ part = "handoff" /\ Serve(c3) /\ UNCHANGED <<part, cacheVars>>
  \/ part = "cache" /\ ExpireHash /\ UNCHANGED <<part, vars>>

WorkersSpec ==
  /\ WorkersInit /\ [][WorkersNext]_workerVars
  /\ WF_workerVars(Turn1) /\ WF_workerVars(Turn2)
  /\ WF_workerVars(Turn3) /\ WF_workerVars(Turn4)

\* The properties; those that need no part are where they belong.
SessionIsOver == part = "handoff" => SessionOver
CacheIsFresh == part = "cache" => EventuallyFresh
=============================================================================
