----------------------------- MODULE WifiUpdate -----------------------------
(***************************************************************************)
(* Wi-Fi settings from the page of an operator to the device               *)
(* (frontend: WiFiConfig.tsx, useWiFi.ts, api.ts; backend-api: main.py,    *)
(* genieacs_client.py, genieacs_transformers.py).                          *)
(*                                                                         *)
(* There is one device.  Of its settings, enabled and power are left out:  *)
(* they are handled like ssid.  The document of the device agrees with the *)
(* device: what a session sets it also saves.  A password that is filled   *)
(* in is not empty, and a channel is a number or Auto.                     *)
(***************************************************************************)
EXTENDS Naturals, Sequences, SequencesExt, FiniteSets

CONSTANTS
  Page,     \* pages of operators
  Config,   \* settings an operator may fill in
  First,    \* the settings at the start
  None,     \* a password that was not filled in
  MaxPuts,  \* bound on the updates sent
  MaxFails  \* bound on the calls of the NBI that fail

Settings == {"ssid", "security", "password", "band", "channel", "hidden"}

\* The menu of the dialog, and what it may show.
Securities == {"Open", "WEP", "WPA", "WPA2", "WPA3"}

WifiAssumption ==
  /\ First \in Config
  /\ \A c \in Config :
       DOMAIN c = Settings /\ c.security \in Securities /\ c.hidden \in BOOLEAN
  /\ MaxPuts \in Nat /\ MaxFails \in Nat

VARIABLES
  params,   \* of the device
  queue,    \* its tasks, oldest first
  applied,  \* history: the tasks that were carried out
  shown,    \* the settings each page has loaded
  dialog,   \* the dialog of each page: at most one [original, update]
  puts,     \* the updates sent, in order
  fails     \* calls of the NBI that failed

wifiVars == <<params, queue, applied, shown, dialog, puts, fails>>

(***************************************************************************)
(* Settings and parameters.                                                *)
(***************************************************************************)
\* create_wifi_parameter_updates: security_map
BeaconType(security) ==
  CASE security = "Open" -> "None"
    [] security = "WEP" -> "Basic"
    [] security = "WPA" -> "WPA"
    [] OTHER -> "11i"

SecurityTasks(security) ==
  << <<"BeaconType", BeaconType(security)>> >> \o
  CASE security \in {"WPA2", "WPA3"} ->
         << <<"WPAEncryptionModes", "AES">>, <<"WPAAuthenticationMode", "PSK">> >>
    [] security = "Open" -> << <<"WEPKeyIndex", "1">> >>
    [] OTHER -> <<>>

\* A mutant of ChannelTasks: the device goes on choosing the channel.
KeepAuto(channel) ==
  IF channel = "Auto" THEN << <<"AutoChannelEnable", TRUE>> >>
                      ELSE << <<"Channel", channel>> >>

ChannelTasks(channel) ==
  IF channel = "Auto"
    THEN << <<"AutoChannelEnable", TRUE>> >>
    ELSE << <<"AutoChannelEnable", FALSE>>, <<"Channel", channel>> >>

\* create_wifi_parameter_updates: the band is that of the query, and the page
\* always asks for 2.4GHz; the password comes last.
TasksOf(update) ==
  LET Of(f, tasks) == IF f \in DOMAIN update THEN tasks ELSE <<>>
      Open == "security" \in DOMAIN update /\ update.security = "Open"
  IN  Of("ssid", << <<"SSID", update.ssid>> >>) \o
      Of("security", SecurityTasks(update.security)) \o
      Of("channel", ChannelTasks(update.channel)) \o
      Of("hidden", << <<"SSIDAdvertisementEnabled", ~update.hidden>> >>) \o
      IF Open THEN <<>> ELSE Of("password", << <<"KeyPassphrase", update.password>> >>)

\* extract_wifi_config_from_device, without the password: the dialog has none.
Extract(d) ==
  [ssid |-> d["SSID"],
   security |-> CASE d["BeaconType"] = "None" -> "Open"
                  [] d["BeaconType"] = "Basic" -> "WEP"
                  [] d["BeaconType"] = "WPA" -> "WPA"
                  [] OTHER -> "WPA2",
   password |-> None,
   band |-> "2.4GHz",
   channel |-> IF d["AutoChannelEnable"] THEN "Auto" ELSE d["Channel"],
   hidden |-> ~d["SSIDAdvertisementEnabled"]]

\* handleUpdateDevice: the settings that were changed in the dialog.
Changed(original, update) ==
  {f \in DOMAIN update : update[f] # original[f]}

(***************************************************************************)
(* Actions.                                                                *)
(***************************************************************************)
Sent == DOMAIN puts

\* The loop over tasks has not ended.
Running(i) == puts[i].todo # <<>>

\* updateDeviceConfig.isPending: the button is disabled.
Pending(p) == \E i \in Sent : puts[i].page = p /\ puts[i].waiting

\* A task waits to be retried: updates sent later overtake it.
Overtaken == \E i \in DOMAIN queue : queue[i].faulty

WifiInit ==
  /\ params = [SSID |-> First.ssid, BeaconType |-> BeaconType(First.security),
               WPAEncryptionModes |-> "AES", WPAAuthenticationMode |-> "PSK",
               WEPKeyIndex |-> "1", KeyPassphrase |-> None,
               AutoChannelEnable |-> First.channel = "Auto",
               Channel |-> IF First.channel = "Auto" THEN "1" ELSE First.channel,
               SSIDAdvertisementEnabled |-> ~First.hidden]
  /\ queue = <<>>
  /\ applied = {}
  /\ shown = [p \in Page |-> Extract(params)]
  /\ dialog = [p \in Page |-> {}]
  /\ puts = <<>>
  /\ fails = 0

\* useWiFiConfigs: the page loads, or its data is stale or was invalidated.
Load(p) ==
  /\ shown' = [shown EXCEPT ![p] = Extract(params)]
  /\ UNCHANGED <<params, queue, applied, dialog, puts, fails>>

\* handleEditDevice
Edit(p) ==
  /\ dialog[p] = {}
  /\ dialog' =
       [dialog EXCEPT ![p] = {[original |-> shown[p], update |-> shown[p]]}]
  /\ UNCHANGED <<params, queue, applied, shown, puts, fails>>

\* The operator fills in the dialog, or cancels it; an update that was sent
\* goes on.
Fill(p) ==
  \E g \in dialog[p], c \in Config :
    /\ dialog' = [dialog EXCEPT ![p] = {[g EXCEPT !.update = c]}]
    /\ UNCHANGED <<params, queue, applied, shown, puts, fails>>

Cancel(p) ==
  /\ dialog[p] # {}
  /\ dialog' = [dialog EXCEPT ![p] = {}]
  /\ UNCHANGED <<params, queue, applied, shown, puts, fails>>

\* handleUpdateDevice, update_device_wifi_config.  Without a task for what was
\* changed, or without the device, the answer is an error and nothing changes.
\* fresh: the dialog shows the device as it is; alone: no update is under way,
\* and no task of an earlier one waits to be retried.
Submit(p) ==
  \E g \in dialog[p] :
    LET fields == Changed(g.original, g.update)
        tasks == TasksOf([f \in fields |-> g.update[f]])
        alone == ~Overtaken /\ \A i \in Sent : ~Running(i)
    IN  /\ Len(puts) < MaxPuts
        /\ ~Pending(p)
        /\ tasks # <<>>
        /\ puts' = Append(puts,
             [page |-> p, waiting |-> TRUE, answer |-> "none",
              todo |-> tasks, total |-> Len(tasks), count |-> 0, held |-> {},
              want |-> g.update, fields |-> fields, alone |-> alone,
              fresh |-> /\ alone /\ queue = <<>>
                        /\ g.original = Extract(params)])
        /\ UNCHANGED <<params, queue, applied, shown, dialog, fails>>

\* insertTasks
Enqueue(i, t) ==
  queue' = Append(queue, [put |-> i, param |-> t[1], value |-> t[2], faulty |-> FALSE])

\* The updates, when a task of update i is carried out, or is queued, out of its
\* turn: none that was sent later has the device for itself.
Intruded(i) == [j \in Sent |-> [puts[j] EXCEPT !.alone = @ /\ j <= i]]

\* set_parameter, for the next parameter: the NBI queues the task, or the call
\* fails for the client, by an error or after its 30 s.
Post(i) ==
  /\ Running(i)
  /\ LET t == Head(puts[i].todo)
     IN  \/ /\ Enqueue(i, t)
            /\ puts' = [puts EXCEPT ![i].todo = Tail(@), ![i].count = @ + 1]
            /\ UNCHANGED fails
         \/ /\ fails < MaxFails
            /\ fails' = fails + 1
            /\ puts' = [puts EXCEPT ![i].todo = Tail(@), ![i].held = @ \cup {t}]
            /\ UNCHANGED queue
  /\ UNCHANGED <<params, applied, shown, dialog>>

\* The NBI, which waits for the lock of the device for about 30 s itself, queues
\* a task that the client has given up; or it never does.
PostLate(i, t) ==
  /\ t \in puts[i].held
  /\ Enqueue(i, t)
  /\ puts' = [Intruded(i) EXCEPT ![i].held = @ \ {t}]
  /\ UNCHANGED <<params, applied, shown, dialog, fails>>

\* handleUpdateDevice: a success closes the dialog, whichever is open by now.
Close(p) == dialog' = [dialog EXCEPT ![p] = {}]

\* The answer of update_device_wifi_config; the page may have given up.
Respond(i) ==
  LET answer == IF puts[i].count = 0 THEN "failed" ELSE "success"
  IN  /\ ~Running(i) /\ puts[i].answer = "none"
      /\ puts' = [puts EXCEPT ![i].answer = answer, ![i].waiting = FALSE]
      /\ IF puts[i].waiting /\ answer = "success"
           THEN Close(puts[i].page)
           ELSE UNCHANGED dialog
      /\ UNCHANGED <<params, queue, applied, shown, fails>>

\* The page has waited for 10 s: the dialog stays open, and the backend goes on.
GiveUp(i) ==
  /\ puts[i].waiting
  /\ puts' = [puts EXCEPT ![i].waiting = FALSE]
  /\ UNCHANGED <<params, queue, applied, shown, dialog, fails>>

\* A session carries out the oldest task without a fault, or retries one with.
Execute(i) ==
  /\ queue[i].faulty \/ \A j \in 1 .. i - 1 : queue[j].faulty
  /\ params' = [params EXCEPT ![queue[i].param] = queue[i].value]
  /\ queue' = RemoveAt(queue, i)
  /\ applied' = applied \cup {[put |-> queue[i].put, param |-> queue[i].param,
                       value |-> queue[i].value]}
  /\ UNCHANGED <<shown, dialog, puts, fails>>

\* A session that had read the queue before the task was removed, or that comes
\* after a crash, carries it out once more.
ExecuteAgain(t) ==
  /\ params' = [params EXCEPT ![t.param] = t.value]
  /\ puts' = Intruded(t.put)
  /\ UNCHANGED <<queue, applied, shown, dialog, fails>>

\* The CPE refuses it: updates sent later overtake the task.
Refuse(i) ==
  /\ ~queue[i].faulty /\ \A j \in 1 .. i - 1 : queue[j].faulty
  /\ queue' = [queue EXCEPT ![i].faulty = TRUE]
  /\ puts' = Intruded(queue[i].put)
  /\ UNCHANGED <<params, applied, shown, dialog, fails>>

WifiNext ==
  \/ \E p \in Page : Load(p) \/ Edit(p) \/ Fill(p) \/ Cancel(p) \/ Submit(p)
  \/ \E i \in Sent : Post(i) \/ Respond(i) \/ GiveUp(i)
  \/ \E i \in Sent : \E t \in puts[i].held : PostLate(i, t)
  \/ \E i \in DOMAIN queue : Execute(i) \/ Refuse(i)
  \/ \E t \in applied : ExecuteAgain(t)

WifiSpec == WifiInit /\ [][WifiNext]_wifiVars

(***************************************************************************)
(* Properties.                                                             *)
(***************************************************************************)
\* What can be read back of a setting: WPA3 is set as WPA2.
ReadBack(f, value) == IF f = "security" /\ value = "WPA3" THEN "WPA2" ELSE value

HasSetting(d, want, f) ==
  CASE f = "band" -> TRUE
    [] f = "password" -> want.security # "Open" => d["KeyPassphrase"] = want[f]
    [] OTHER -> Extract(d)[f] = ReadBack(f, want[f])

\* The device ends as the last operator saved it: when the answer was a complete
\* success, the update had the device for itself, and its tasks are done, what
\* was changed in the dialog is set; and if the dialog showed the device as it
\* was, so is the rest, whatever tasks of it were refused, retried or carried out
\* again meanwhile.  An update does not have the device for itself when one sent
\* before it is under way, or has a task refused, queued after it was given up,
\* or carried out again.
LastSaveWins ==
  (puts # <<>> /\ queue = <<>>) =>
    LET r == Last(puts)
    IN  r.answer = "success" /\ r.count = r.total /\ r.alone =>
          \A f \in DOMAIN r.want :
            f \in r.fields \/ (r.fresh /\ f # "password") =>
              HasSetting(params, r.want, f)
=============================================================================
