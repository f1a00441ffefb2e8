------------------------------- MODULE MCParts -------------------------------
(***************************************************************************)
(* The smaller state machines, for one run of TLC: a behaviour is one of   *)
(* the commit loop of a session, or of its provisions and channels, or of  *)
(* a device's downloads, or of the extensions of a worker, or of the       *)
(* process that restarts workers, or of the Wi-Fi updates of an operator.  *)
(* They do not interact in what is checked here: part says which one a     *)
(* behaviour is of.                                                        *)
(***************************************************************************)
EXTENDS CommitLoop, Provisions, Downloads, Extensions, Cluster,
        WifiUpdate

CONSTANTS k1, v1, c1, c2, p1, p2, p3, p4, d1, s1, s2, j1, j2, w1, w2, pg1

\* What an operator may want: a channel the device chooses or a fixed one, and
\* another security.
Wifi(security, channel) ==
  [ssid |-> "a", security |-> security, password |-> None, band |-> "2.4GHz",
   channel |-> channel, hidden |-> FALSE]

AutoConfig == Wifi("WPA", "Auto")
SomeConfigs == {AutoConfig, Wifi("WPA", "6"), Wifi("WEP", "Auto")}
OnePage == {pg1}

\* Lists that overlap, repeat a provision, and are empty.
SomeLists == {<<>>, <<p1>>, <<p2>>, <<p2, p3>>, <<p3, p4>>, <<p1, p2, p2>>}

TwoChannels == {c1, c2}
FourProvisions == {p1, p2, p3, p4}
OneDownload == {d1}
TwoSessions == {s1, s2}
TwoJobs == {j1, j2}
OneKey == {k1}
OneValue == {v1}
TwoWorkers == {w1, w2}

VARIABLE part

partVars == <<part, loopVars, provisionVars, vars, jobVars, clusterVars, wifiVars>>

ASSUME LimitAssumption
ASSUME ProvisionsAssumption
ASSUME DownloadsAssumption
ASSUME SpawnAssumption
ASSUME ClusterAssumption
ASSUME WifiAssumption

PartsInit ==
  /\ part \in {"loop", "provisions", "downloads", "extensions", "cluster",
             "wifi"}
  /\ LoopInit /\ ProvisionsInit /\ Init
  /\ JobsInit /\ ClusterInit /\ WifiInit
  /\ part # "loop" => data[k1] = <<>> /\ lastSet[k1] = Absent
  /\ option => part = "downloads"
  /\ storm => part = "cluster"

PartsNext ==
  \/ /\ part = "loop" /\ LoopNext
     /\ UNCHANGED <<part, provisionVars, vars, jobVars, clusterVars, wifiVars>>
  \/ /\ part = "provisions" /\ ProvisionsNext
     /\ UNCHANGED <<part, loopVars, vars, jobVars, clusterVars, wifiVars>>
  \/ /\ part = "downloads" /\ Next
     /\ UNCHANGED <<part, loopVars, provisionVars, jobVars, clusterVars, wifiVars>>
  \/ /\ part = "extensions" /\ JobsNext
     /\ UNCHANGED <<part, loopVars, provisionVars, vars, clusterVars, wifiVars>>
  \/ /\ part = "cluster" /\ ClusterNext
     /\ UNCHANGED <<part, loopVars, provisionVars, vars, jobVars, wifiVars>>
  \/ /\ part = "wifi" /\ WifiNext
     /\ UNCHANGED <<part, loopVars, provisionVars, vars, jobVars,
                    clusterVars>>

\* The fairness of the modules, each in its own behaviours.
Turn1 ==
  \/ /\ part = "loop" /\ Pass
     /\ UNCHANGED <<part, provisionVars, vars, jobVars, clusterVars, wifiVars>>
  \/ /\ part = "extensions" /\ Served(j1)
     /\ UNCHANGED <<part, loopVars, provisionVars, vars, clusterVars, wifiVars>>
  \/ /\ part = "cluster" /\ Tick
     /\ UNCHANGED <<part, loopVars, provisionVars, vars, jobVars, wifiVars>>

Turn2 ==
  \/ /\ part = "loop" /\ Answered
     /\ UNCHANGED <<part, provisionVars, vars, jobVars, clusterVars, wifiVars>>
  \/ /\ part = "extensions" /\ Served(j2)
     /\ UNCHANGED <<part, loopVars, provisionVars, vars, clusterVars, wifiVars>>
  \/ /\ part = "cluster" /\ Die
     /\ UNCHANGED <<part, loopVars, provisionVars, vars, jobVars, wifiVars>>

PartsSpec ==
  PartsInit /\ [][PartsNext]_partVars /\ WF_partVars(Turn1) /\ WF_partVars(Turn2)
=============================================================================
