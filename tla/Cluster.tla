------------------------------ MODULE Cluster ------------------------------
(***************************************************************************)
(* The primary process that restarts its workers (cluster.ts).             *)
(*                                                                         *)
(* The unit of time is the pause between two respawns, 2000 ms.  Of the    *)
(* crashes only how many there were, and how long ago, is kept.            *)
(***************************************************************************)
EXTENDS Naturals, FiniteSets, FiniteSetsExt

CONSTANTS
  Worker,  \* the slots of the workers
  Minute,  \* units of a minute
  Limit    \* crashes a minute may have before they are too many

ClusterAssumption ==
  IsFiniteSet(Worker) /\ Minute \in Nat \ {0} /\ Limit \in Nat

VARIABLES
  wait,     \* units until each worker is forked; 0 while it runs
  next,     \* units until the next fork may be; 0 when it may be now
  deaths,  \* how many workers died, by age
  exited,   \* "Too many crashes, exiting"
  storm     \* every worker dies as soon as it runs

clusterVars == <<wait, next, deaths, exited, storm>>

Age == 0 .. 3 * Minute - 1

\* More crashes of one unit than this make no difference.
Many == Limit + 1

ClusterTypeOK ==
  /\ wait \in [Worker -> Nat]
  /\ next \in Nat
  /\ deaths \in [Age -> 0 .. Many]
  /\ exited \in BOOLEAN
  /\ storm \in BOOLEAN

ClusterInit ==
  /\ wait = [w \in Worker |-> 0]
  /\ next = 0
  /\ deaths = [a \in Age |-> 0]
  /\ exited = FALSE
  /\ storm \in BOOLEAN

Down == {w \in Worker : wait[w] > 0}

\* min1, min2 and min3: the crashes of the m-th minute from now.
CrashesOf(c, m) ==
  MapThenSumSet(LAMBDA a : c[a], {a \in Age : a >= (m - 1) * Minute /\ a < m * Minute})

TooMany(c) == \A m \in 1 .. 3 : CrashesOf(c, m) > Limit

\* A mutant of Pause: a worker is forked once a minute.
LongPause == Minute

\* respawnTimestamp + 2000
Pause == 1

\* restartWorker: the worker is forked at once, or in its turn, or never.
RestartWorker(w) ==
  LET c == [deaths EXCEPT ![0] = IF @ < Many THEN @ + 1 ELSE @]
  IN  /\ wait[w] = 0 /\ ~exited
      /\ deaths' = c
      /\ IF TooMany(c)
           THEN exited' = TRUE /\ UNCHANGED <<wait, next>>
           ELSE /\ wait' = [wait EXCEPT ![w] = next]
                /\ next' = next + Pause
                /\ UNCHANGED exited
      /\ UNCHANGED storm

\* A unit passes; the workers whose turn it is are forked.
Tick ==
  /\ ~exited
  /\ storm => Down = Worker
  /\ wait' = [w \in Worker |-> IF wait[w] > 0 THEN wait[w] - 1 ELSE 0]
  /\ next' = IF next > 0 THEN next - 1 ELSE 0
  /\ deaths' = [a \in Age |-> IF a = 0 THEN 0 ELSE deaths[a - 1]]
  /\ UNCHANGED <<exited, storm>>

ClusterNext == Tick \/ \E w \in Worker : RestartWorker(w)

ClusterSpec == ClusterInit /\ [][ClusterNext]_clusterVars

\* Time passes, and in a storm workers die.
Die == storm /\ \E w \in Worker : RestartWorker(w)

FairClusterSpec == ClusterSpec /\ WF_clusterVars(Tick) /\ WF_clusterVars(Die)

(***************************************************************************)
(* Properties.                                                             *)
(***************************************************************************)
\* The workers that are down are forked one by one, without a gap: none waits
\* longer than there are workers down.
OneByOne == {wait[w] : w \in Down} = 1 .. Cardinality(Down)

\* When every worker dies as soon as it is forked the primary process gives up:
\* the pause between forks does not keep the crashes under its limit.
StormEnds == storm ~> exited
=============================================================================
