------------------------------- MODULE Gateway -------------------------------
(***************************************************************************)
(* The firmware as a whole: the connectivity part (Connectivity) and the   *)
(* polling task (PollTask) run concurrently and share the chip they both   *)
(* restart (alive) and the flag ETHERNET_CONNECTED. Each step of a part is *)
(* a step here, tied to the other part where the code ties them:           *)
(*   - app_main creates the task when its other calls are done;            *)
(*   - the server is reached only over an Ethernet interface that is up;   *)
(*   - a payload is delivered only when the MQTT client is connected;      *)
(*   - a panic of either part restarts both.                               *)
(***************************************************************************)
EXTENDS Naturals, Sequences

CONSTANTS Contracts, MayFail, MAX_RETRY, QueueSize, MaxDrops,  \* Connectivity
          N, HeapSize, Values, NONE                           \* PollTask

VARIABLES
  alive, ETHERNET_CONNECTED,                               \* shared
  onceOnly, net, made, evq, dropped, cable, link, wifi,              \* Connectivity
  WIFI_CONNECTED, retry_cnt, mqtt,
  pc, i, session, heap, pub, late, retained                \* PollTask

Conn == INSTANCE Connectivity WITH pc <- net
Poll == INSTANCE PollTask

connOnly == <<onceOnly, net, made, evq, dropped, cable, link, wifi, WIFI_CONNECTED,
              retry_cnt, mqtt>>
pollOnly == <<pc, i, session, heap, pub, retained>>
vars == <<alive, ETHERNET_CONNECTED, connOnly, pollOnly, late>>

Init == Conn!Init /\ Poll!Init

-----------------------------------------------------------------------------
(* A step of the connectivity part; late restarts with every link that     *)
(* comes up, as in PollTask!SetFlag.                                       *)
Beside(A) ==
  /\ Conn!Running(A)
  /\ late' = IF ETHERNET_CONNECTED' = 0 /\ ETHERNET_CONNECTED = 0 THEN late ELSE 0
  /\ UNCHANGED pollOnly

MainStep ==
  Beside(\/ \E started \in BOOLEAN : Conn!WifiInit(started)
         \/ Conn!MqttAppStart
         \/ Conn!CallStep("main"))
EvtStep_deletesTask ==
  /\ Conn!Running(Conn!EvtStep)
  /\ pc' = IF ETHERNET_CONNECTED' = 0 THEN "absent" ELSE pc
  /\ UNCHANGED <<i, session, heap, pub, retained, late>>

EvtStep == Beside(Conn!EvtStep)
MqttStep == Beside(Conn!MqttStep)
WorldStep == Beside(Conn!DriverStep \/ Conn!CableChanges)

(* The last call of app_main.                                              *)
CreateTask_first ==
  /\ alive
  /\ Poll!Start
  /\ UNCHANGED <<alive, ETHERNET_CONNECTED, connOnly>>

CreateTask ==
  /\ Conn!Running(Conn!CreateTask)
  /\ Poll!Start

(* The interface has the address 192.168.1.100/24 and the server           *)
(* 192.168.1.15, so only a link the event loop has seen come up leads to   *)
(* it; without one UA_Client_connect fails and the task function returns.  *)
LinkIsUp == ETHERNET_CONNECTED = 1 /\ cable

Run ==
  \/ LinkIsUp /\ Poll!Connect
  \/ Poll!Gate
  \/ Poll!NewName
  \/ Poll!NameBad
  \/ Poll!NameNotText
  \/ Poll!NameText
  \/ Poll!CopyName
  \/ Poll!ValueBad
  \/ \E t \in Poll!Supported, v \in Values, delivered \in BOOLEAN :
       (delivered => mqtt = "connected") /\ Poll!Publish(t, v, delivered)
  \/ Poll!ValueOther
  \/ Poll!Delay

TaskStep ==
  /\ alive
  /\ \/ Run /\ UNCHANGED <<alive, ETHERNET_CONNECTED>>
     \/ Poll!ConnectFails
     \/ Poll!OutOfMemory
  /\ UNCHANGED connOnly

Reboot == Conn!Reboot /\ Poll!Restart

Next ==
  \/ MainStep
  \/ EvtStep
  \/ MqttStep
  \/ WorldStep
  \/ CreateTask
  \/ TaskStep
  \/ Reboot

(* As in the parts: every task runs when it is ready, and a call that      *)
(* waits for the server may wait for ever.                                 *)
Fairness ==
  /\ WF_vars(MainStep)
  /\ WF_vars(CreateTask)
  /\ WF_vars(EvtStep)
  /\ WF_vars(mqtt = "connecting" /\ MqttStep)
  /\ WF_vars(~Poll!Waits /\ TaskStep)
  /\ WF_vars(Reboot)

Spec == Init /\ [][Next]_vars /\ Fairness

-----------------------------------------------------------------------------
(* The composition does only what the parts' own specifications allow:     *)
(* what is checked or proved of a part alone holds in the firmware.        *)
ImplementsConnectivity == Conn!Init /\ [][Conn!Next]_(Conn!vars)
ImplementsPollTask == Poll!Init /\ [][Poll!Next]_(Poll!vars)

(* No boot polls for ever: every boot that got an OPC UA session ends in a *)
(* restart. Either the link goes down, and its handler aborts; or it stays *)
(* up, and the requests leaked by every pass use up the heap. Losing the   *)
(* session does not stop the passes, so it too ends in a restart. The one  *)
(* exception is a read that is never answered, whose deadline the clock    *)
(* never reaches, while no handler is told that the link went down: it     *)
(* holds the task for ever.                                                *)
Held == alive /\ ETHERNET_CONNECTED = 1 /\ session = "open" /\ Poll!Waits

EveryBootEnds == (session # "none" ~> ~alive) \/ <>[]Held
=============================================================================
