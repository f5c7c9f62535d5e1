---------------------------- MODULE Connectivity ----------------------------
(***************************************************************************)
(* Start-up and network events of the gateway: app_main, wifi_init,        *)
(* mqtt_app_start and start_connect_ethernet run by the main task; the     *)
(* Wi-Fi and Ethernet handlers run by the event-loop task, one event at a  *)
(* time from its queue; mqtt_event_handler run by the MQTT client's task.  *)
(*                                                                         *)
(* ESP-IDF (event loop, drivers, MQTT client) is external: a call either   *)
(* succeeds or fails, and the calls in onceOnly fail when what they create *)
(* exists already. Which these are is left open where the result depends   *)
(* on the version. A failure under ESP_ERROR_CHECK aborts: the chip        *)
(* restarts with all of RAM lost.                                          *)
(***************************************************************************)
EXTENDS Naturals, Sequences

CONSTANTS
  Contracts,   \* ESP-IDF's possible contracts: the calls that fail when
               \* made twice in a boot
  MayFail,     \* the calls whose first use may fail (absent hardware)
  MAX_RETRY,   \* #define MAX_RETRY 10
  QueueSize,   \* events the event loop's queue holds
  MaxDrops     \* bound of the model: Wi-Fi disconnections in one boot

(* The steps of start_connect_ethernet that can fail or that others see,   *)
(* in program order. "handlers" is :66-81, "driver" is :123-133, "start"   *)
(* is :135-140.                                                            *)
Calls == {"netif_init", "event_loop", "handlers", "spi_bus", "driver", "start"}

ASSUME ContractAssumption ==
  /\ \A once \in Contracts :
       /\ once \subseteq Calls
       /\ "spi_bus" \in once      \* nothing ever frees the SPI host
  /\ MayFail \subseteq Calls \ {"start"}
ASSUME BoundsAssumption ==
  /\ MAX_RETRY \in Nat
  /\ QueueSize \in Nat \ {0}
  /\ MaxDrops \in Nat

VARIABLES
  onceOnly,            \* external: the contract of the ESP-IDF it is built with
  alive,               \* FALSE from a panic or abort() until the chip restarts
  pc,                  \* where the main task and the event-loop task are
  made,                \* calls that have succeeded in this boot
  evq,                 \* events posted to the default event loop
  dropped,             \* history: a link event found the queue full
  cable,               \* external: the Ethernet cable is plugged in
  link,                \* the link state the Ethernet driver last posted
  ETHERNET_CONNECTED,  \* the flag eth_event_handler keeps for opcua_task
  wifi,                \* the Wi-Fi driver: off, idle, connecting, associated
  WIFI_CONNECTED,      \* the flag wifi_event_handler keeps
  retry_cnt,           \* its count of disconnections
  mqtt                 \* the MQTT client: off, connecting, connected

ethVars == <<cable, link, ETHERNET_CONNECTED>>
wifiVars == <<wifi, WIFI_CONNECTED, retry_cnt>>
vars == <<onceOnly, alive, pc, made, evq, dropped, ethVars, wifiVars, mqtt>>

Tasks == {"main", "evt"}
Where == Calls \cup {"wifi_init", "mqtt_app_start", "xTaskCreate", "done",
                    "idle", "delay"}
Events == {"STA_START", "STA_CONNECTED", "STA_DISCONNECTED",
           "ETH_CONNECTED", "ETH_DISCONNECTED"}

TypeOK ==
  /\ onceOnly \in Contracts
  /\ alive \in BOOLEAN
  /\ pc \in [Tasks -> Where]
  /\ pc["evt"] \in Calls \cup {"idle", "delay"}
  /\ made \subseteq Calls
  /\ evq \in Seq(Events) /\ Len(evq) <= QueueSize
  /\ dropped \in BOOLEAN
  /\ cable \in BOOLEAN
  /\ link \in BOOLEAN
  /\ ETHERNET_CONNECTED \in {0, 1}
  /\ wifi \in {"off", "idle", "connecting", "associated"}
  /\ WIFI_CONNECTED \in {0, 1}
  /\ retry_cnt \in Nat
  /\ mqtt \in {"off", "connecting", "connected"}

Init ==
  /\ onceOnly \in Contracts
  /\ alive = TRUE
  /\ pc = [main |-> "wifi_init", evt |-> "idle"]
  /\ made = {}
  /\ evq = <<>>
  /\ dropped = FALSE
  /\ cable \in BOOLEAN
  /\ link = FALSE
  /\ ETHERNET_CONNECTED = 0
  /\ wifi = "off"
  /\ WIFI_CONNECTED = 0
  /\ retry_cnt = 0
  /\ mqtt = "off"

-----------------------------------------------------------------------------
Goto(t, label) == pc' = [pc EXCEPT ![t] = label]

(* A post with no room in the queue is given up.                           *)
Post(e) == evq' = IF Len(evq) < QueueSize THEN Append(evq, e) ELSE evq

(* esp_wifi_connect(): its result is ignored everywhere, and it starts a   *)
(* connection only when the started driver has none.                       *)
WifiConnect == wifi' = IF wifi = "idle" THEN "connecting" ELSE wifi

(* ESP_ERROR_CHECK of a failure.                                           *)
Abort ==
  /\ alive' = FALSE
  /\ UNCHANGED <<pc, made, evq, dropped, ethVars, wifiVars, mqtt>>

-----------------------------------------------------------------------------
(* app_main.                                                               *)

(* wifi_init creates the event loop and the TCP/IP interface, neither      *)
(* result checked, registers its handler and starts the driver. Whether    *)
(* nvs_flash_init succeeded is not looked at: without it Wi-Fi stays off.  *)
WifiInit_noLoop(started) ==
  /\ pc["main"] = "wifi_init"
  /\ made' = made \cup {"netif_init"}
  /\ IF started THEN wifi' = "idle" /\ Post("STA_START")
                ELSE UNCHANGED <<wifi, evq>>
  /\ Goto("main", "mqtt_app_start")
  /\ UNCHANGED <<alive, dropped, ethVars, WIFI_CONNECTED, retry_cnt, mqtt>>

WifiInit(started) ==
  /\ pc["main"] = "wifi_init"
  /\ made' = made \cup {"event_loop", "netif_init"}
  /\ IF started THEN wifi' = "idle" /\ Post("STA_START")
                ELSE UNCHANGED <<wifi, evq>>
  /\ Goto("main", "mqtt_app_start")
  /\ UNCHANGED <<alive, dropped, ethVars, WIFI_CONNECTED, retry_cnt, mqtt>>

MqttAppStart ==
  /\ pc["main"] = "mqtt_app_start"
  /\ mqtt' = "connecting"
  /\ Goto("main", "netif_init")
  /\ UNCHANGED <<alive, made, evq, dropped, ethVars, wifiVars>>

(* xTaskCreate(&opcua_task, ...); app_main returns and its task ends.      *)
CreateTask ==
  /\ pc["main"] = "xTaskCreate"
  /\ Goto("main", "done")
  /\ UNCHANGED <<alive, made, evq, dropped, ethVars, wifiVars, mqtt>>

-----------------------------------------------------------------------------
(* start_connect_ethernet, run by the main task at start-up and by the     *)
(* event-loop task after the link went down.                               *)

After_startFirst(t) ==
  [ netif_init |-> "event_loop",
    event_loop |-> "start",
    start      |-> "handlers",
    handlers   |-> "spi_bus",
    spi_bus    |-> "driver",
    driver     |-> IF t = "main" THEN "xTaskCreate" ELSE "idle" ]

After(t) ==
  [ netif_init |-> "event_loop",
    event_loop |-> "handlers",
    handlers   |-> "spi_bus",
    spi_bus    |-> "driver",
    driver     |-> "start",
    start      |-> IF t = "main" THEN "xTaskCreate" ELSE "idle" ]

Succeeds(c) == c \notin onceOnly \cap made
Fails(c) == c \in onceOnly \cap made \/ c \in MayFail \ made

CallOK(t) ==
  /\ pc[t] \in Calls
  /\ Succeeds(pc[t])
  /\ made' = made \cup {pc[t]}
  /\ Goto(t, After(t)[pc[t]])
  /\ link' = IF pc[t] = "start" THEN FALSE ELSE link
  /\ UNCHANGED <<alive, evq, dropped, cable, ETHERNET_CONNECTED, wifiVars, mqtt>>

CallFails_unchecked(t) ==
  /\ pc[t] \in Calls
  /\ Fails(pc[t])
  /\ Goto(t, After(t)[pc[t]])
  /\ UNCHANGED <<alive, made, evq, dropped, ethVars, wifiVars, mqtt>>

CallFails(t) ==
  /\ pc[t] \in Calls
  /\ Fails(pc[t])
  /\ Abort

-----------------------------------------------------------------------------
(* The event-loop task: it takes an event and runs its handler to the end. *)
Take(e) ==
  /\ pc["evt"] = "idle"
  /\ evq # <<>> /\ Head(evq) = e
  /\ evq' = Tail(evq)

(* wifi_event_handler.                                                     *)
StaStart ==
  /\ Take("STA_START")
  /\ WifiConnect
  /\ UNCHANGED <<alive, pc, made, dropped, ethVars, WIFI_CONNECTED, retry_cnt, mqtt>>

StaConnected ==
  /\ Take("STA_CONNECTED")
  /\ WIFI_CONNECTED' = 1
  /\ UNCHANGED <<alive, pc, made, dropped, ethVars, wifi, retry_cnt, mqtt>>

(* retry_cnt++ < MAX_RETRY; a connection that succeeds does not reset it.  *)
StaDisconnected ==
  /\ Take("STA_DISCONNECTED")
  /\ WIFI_CONNECTED' = 0
  /\ IF retry_cnt < MAX_RETRY THEN WifiConnect ELSE UNCHANGED wifi
  /\ retry_cnt' = retry_cnt + 1
  /\ UNCHANGED <<alive, pc, made, dropped, ethVars, mqtt>>

(* eth_event_handler.                                                      *)
EthConnected ==
  /\ Take("ETH_CONNECTED")
  /\ ETHERNET_CONNECTED' = 1
  /\ UNCHANGED <<alive, pc, made, dropped, cable, link, wifiVars, mqtt>>

EthDisconnected_keepsFlag ==
  /\ Take("ETH_DISCONNECTED")
  /\ Goto("evt", "delay")
  /\ UNCHANGED <<alive, made, dropped, ethVars, wifiVars, mqtt>>

(* The handler sleeps 1.5 s and then runs start_connect_ethernet again,    *)
(* all of it in the event-loop task: no other event is handled meanwhile.  *)
EthDisconnected ==
  /\ Take("ETH_DISCONNECTED")
  /\ ETHERNET_CONNECTED' = 0
  /\ Goto("evt", "delay")
  /\ UNCHANGED <<alive, made, dropped, cable, link, wifiVars, mqtt>>

DelayOver ==
  /\ pc["evt"] = "delay"
  /\ Goto("evt", "netif_init")
  /\ UNCHANGED <<alive, made, evq, dropped, ethVars, wifiVars, mqtt>>

-----------------------------------------------------------------------------
(* mqtt_event_handler, in the MQTT client's own task. Its case labelled    *)
(* WIFI_EVENT_STA_START has the value of MQTT_EVENT_DISCONNECTED, so it is *)
(* run for every lost connection and every failed attempt.                 *)
MqttDisconnected_noWifi ==
  /\ mqtt \in {"connecting", "connected"}
  /\ mqtt' = "connecting"
  /\ UNCHANGED <<alive, pc, made, evq, dropped, ethVars, wifiVars>>

MqttDisconnected ==
  /\ mqtt \in {"connecting", "connected"}
  /\ mqtt' = "connecting"
  /\ WifiConnect
  /\ UNCHANGED <<alive, pc, made, evq, dropped, ethVars, WIFI_CONNECTED, retry_cnt>>

(* The broker is reached over either interface.                            *)
MqttConnected ==
  /\ mqtt = "connecting"
  /\ wifi = "associated" \/ link
  /\ mqtt' = "connected"
  /\ UNCHANGED <<alive, pc, made, evq, dropped, ethVars, wifiVars>>

-----------------------------------------------------------------------------
(* The drivers and the world.                                              *)
CableChanges ==
  /\ cable' = ~cable
  /\ UNCHANGED <<alive, pc, made, evq, dropped, link, ETHERNET_CONNECTED, wifiVars, mqtt>>

(* The started driver polls the PHY and posts a change.                    *)
LinkChanges ==
  /\ "start" \in made
  /\ link # cable
  /\ link' = cable
  /\ Post(IF cable THEN "ETH_CONNECTED" ELSE "ETH_DISCONNECTED")
  /\ dropped' = (dropped \/ Len(evq) = QueueSize)
  /\ UNCHANGED <<alive, pc, made, cable, ETHERNET_CONNECTED, wifiVars, mqtt>>

Associate ==
  /\ wifi = "connecting"
  /\ wifi' = "associated"
  /\ Post("STA_CONNECTED")
  /\ UNCHANGED <<alive, pc, made, dropped, ethVars, WIFI_CONNECTED, retry_cnt, mqtt>>

Disconnects == retry_cnt + Len(SelectSeq(evq, LAMBDA e : e = "STA_DISCONNECTED"))

(* No access point, or it is lost.                                         *)
Disassociate ==
  /\ wifi \in {"connecting", "associated"}
  /\ Disconnects < MaxDrops
  /\ wifi' = "idle"
  /\ Post("STA_DISCONNECTED")
  /\ UNCHANGED <<alive, pc, made, dropped, ethVars, WIFI_CONNECTED, retry_cnt, mqtt>>

(* opcua_task, created by then, takes the chip down (PollTask).            *)
TaskPanics ==
  /\ pc["main"] = "done"
  /\ Abort

(* The panic handler restarts the chip.                                    *)
Reboot ==
  /\ ~alive
  /\ alive' = TRUE
  /\ pc' = [main |-> "wifi_init", evt |-> "idle"]
  /\ made' = {}
  /\ evq' = <<>>
  /\ dropped' = FALSE
  /\ link' = FALSE
  /\ ETHERNET_CONNECTED' = 0
  /\ wifi' = "off"
  /\ WIFI_CONNECTED' = 0
  /\ retry_cnt' = 0
  /\ mqtt' = "off"
  /\ UNCHANGED <<onceOnly, cable>>

-----------------------------------------------------------------------------
CallStep(t) == CallOK(t) \/ CallFails(t)

MainStep ==
  \/ \E started \in BOOLEAN : WifiInit(started)
  \/ MqttAppStart
  \/ CallStep("main")
  \/ CreateTask

Dispatch ==
  \/ StaStart
  \/ StaConnected
  \/ StaDisconnected
  \/ EthConnected
  \/ EthDisconnected

EvtStep == Dispatch \/ DelayOver \/ CallStep("evt")

MqttStep == MqttConnected \/ MqttDisconnected

DriverStep == LinkChanges \/ Associate \/ Disassociate

Running(A) == alive /\ A /\ UNCHANGED onceOnly

Next ==
  \/ Running(MainStep)
  \/ Running(EvtStep)
  \/ Running(MqttStep)
  \/ Running(DriverStep)
  \/ Running(CableChanges)
  \/ Running(TaskPanics)
  \/ Reboot

(* Every task of the firmware runs when it is ready: the only one that     *)
(* spins is opcua_task, whose priority is below the event loop's and equal *)
(* to the MQTT client's. An attempt of the MQTT client ends, one way or    *)
(* the other. Nothing is assumed of the world.                             *)
Fairness ==
  /\ WF_vars(Running(MainStep))
  /\ WF_vars(Running(EvtStep))
  /\ WF_vars(mqtt = "connecting" /\ Running(MqttStep))
  /\ WF_vars(Reboot)

Spec == Init /\ [][Next]_vars /\ Fairness

-----------------------------------------------------------------------------
(* start_connect_ethernet is not re-entrant (it creates global resources), *)
(* and two tasks run it: never at the same time, because the driver that   *)
(* reports the link is started by its last step.                           *)
OneEthStarter ==
  ~ (pc["main"] \in Calls /\ pc["evt"] \in Calls \cup {"delay"})

(* opcua_task trusts the flag: the link events still in the queue bring it *)
(* to the state of the link, unless the queue was full when one came.      *)
LinkEvents == {k \in 1..Len(evq) : evq[k] \in {"ETH_CONNECTED", "ETH_DISCONNECTED"}}
FlagFollowsLink ==
  ~dropped =>
    \/ LinkEvents = {} /\ link = (ETHERNET_CONNECTED = 1)
    \/ \E k \in LinkEvents : /\ \A j \in LinkEvents : j <= k
                           /\ link = (evq[k] = "ETH_CONNECTED")

(* The handler of a lost link means to bring the interface up again; what  *)
(* it does is restart the chip, because the SPI host cannot be initialised *)
(* twice and the failure is checked.                                       *)
LinkLossReboots == pc["evt"] = "delay" ~> ~alive

(* Wi-Fi is never left idle for ever, although wifi_event_handler counts   *)
(* every disconnection of a boot against MAX_RETRY: the failing attempts   *)
(* of the MQTT client keep calling esp_wifi_connect.                       *)
WifiNotAbandoned ==
  wifi = "idle" ~> (wifi # "idle" \/ mqtt = "connected" \/ ~alive)

(* When the event loop exists, creating it again fails, and that is under  *)
(* ESP_ERROR_CHECK: with the documented contract of                        *)
(* esp_event_loop_create_default no boot ever gets to start the Ethernet   *)
(* driver or opcua_task.                                                   *)
EthernetNeverStarts ==
  "event_loop" \in onceOnly => "start" \notin made /\ pc["main"] # "xTaskCreate"
=============================================================================
