------------------------- MODULE Connectivity_proofs -------------------------
(***************************************************************************)
(* Proofs about start-up and network events, for every contract of the     *)
(* external calls, every queue and every MAX_RETRY: types, that only one   *)
(* task at a time is inside start_connect_ethernet, and that the flag      *)
(* follows the link.                                                       *)
(*                                                                         *)
(* OneEthStarter is not inductive: that the event loop stays out while the *)
(* main task is in the function needs that no link event can be waiting,   *)
(* and that in turn that the driver has not been started (Quiet).          *)
(***************************************************************************)
EXTENDS Connectivity, TLAPS

(* The main task has not finished start_connect_ethernet.                  *)
Starting == pc["main"] \in Calls \cup {"wifi_init", "mqtt_app_start"}

Quiet ==
  /\ "start" \notin made
  /\ pc["evt"] = "idle"
  /\ \A k \in 1 .. Len(evq) : evq[k] # "ETH_DISCONNECTED"

IInv == TypeOK /\ (Starting => Quiet)

-----------------------------------------------------------------------------
(* A post adds at most the event posted, and respects the queue's size.    *)
LEMMA PostFacts ==
  ASSUME NEW e \in Events, evq \in Seq(Events), Len(evq) <= QueueSize, Post(e)
  PROVE  /\ evq' \in Seq(Events)
         /\ Len(evq') <= QueueSize
         /\ \A k \in 1 .. Len(evq') :
              evq'[k] = e \/ (k \in 1 .. Len(evq) /\ evq'[k] = evq[k])
<1> USE BoundsAssumption
<1>1. CASE Len(evq) < QueueSize
  BY <1>1 DEF Post
<1>2. CASE ~ (Len(evq) < QueueSize)
  BY <1>2 DEF Post
<1> QED
  BY <1>1, <1>2

(* An event taken was in the queue, and leaves the others there.           *)
LEMMA TakeFacts ==
  ASSUME NEW e, evq \in Seq(Events), Len(evq) <= QueueSize, Take(e)
  PROVE  /\ pc["evt"] = "idle"
         /\ evq' \in Seq(Events)
         /\ Len(evq') <= QueueSize
         /\ 1 \in 1 .. Len(evq) /\ evq[1] = e
         /\ \A k \in 1 .. Len(evq') : k + 1 \in 1 .. Len(evq) /\ evq'[k] = evq[k + 1]
  BY BoundsAssumption DEF Take

(* Where both tasks are after a reset, as a record and as a function.      *)
LEMMA StartPC ==
  [main |-> "wifi_init", evt |-> "idle"] \in [Tasks -> Where]
  BY DEF Tasks, Where

LEMMA InitIInv == Init => IInv
<1> SUFFICES ASSUME Init PROVE IInv
  OBVIOUS
<1>1. evq = <<>> /\ evq \in Seq(Events) /\ Len(evq) = 0
  BY DEF Init
<1>2. TypeOK
  <2>1. pc \in [Tasks -> Where]
    BY StartPC, Zenon DEF Init
  <2>2. Len(evq) <= QueueSize
    BY <1>1, BoundsAssumption
  <2> QED
    BY <1>1, <2>1, <2>2 DEF Init, TypeOK, Where
<1>3. Quiet
  BY <1>1 DEF Init, Quiet
<1> QED
  BY <1>2, <1>3 DEF IInv

-----------------------------------------------------------------------------
LEMMA MainIInv ==
  ASSUME IInv, alive, MainStep, UNCHANGED onceOnly
  PROVE  IInv'
<1> USE BoundsAssumption
<1>1. ASSUME NEW started \in BOOLEAN, WifiInit(started) PROVE IInv'
  <2>1. CASE started
    <3>1. Post("STA_START") /\ "STA_START" \in Events
      BY <1>1, <2>1 DEF WifiInit, Events
    <3>2. /\ evq' \in Seq(Events) /\ Len(evq') <= QueueSize
          /\ \A k \in 1 .. Len(evq') :
               evq'[k] = "STA_START" \/ (k \in 1 .. Len(evq) /\ evq'[k] = evq[k])
      BY <3>1, PostFacts DEF IInv, TypeOK
    <3>3. TypeOK'
      BY <1>1, <2>1, <3>2 DEF WifiInit, IInv, TypeOK, ethVars, Goto, Where, Calls, Tasks
    <3>4. Starting' => Quiet'
      BY <1>1, <3>2 DEF WifiInit, IInv, TypeOK, Starting, Quiet, Goto, Where, Calls, Tasks
    <3> QED
      BY <3>3, <3>4 DEF IInv
  <2>2. CASE ~started
    BY <1>1, <2>2 DEF WifiInit, IInv, TypeOK, ethVars, Goto, Where, Calls, Tasks,
                      Starting, Quiet
  <2> QED
    BY <2>1, <2>2
<1>2. CASE MqttAppStart
  BY <1>2 DEF MqttAppStart, IInv, TypeOK, ethVars, wifiVars, Goto, Where, Calls, Tasks,
              Starting, Quiet
<1>3. CASE CallOK("main")
  <2>1. TypeOK'
    <3>1. After("main")[pc["main"]] \in Where
      BY <1>3 DEF CallOK, After, Where, Calls
    <3>2. pc' \in [Tasks -> Where]
      BY <3>1, <1>3 DEF CallOK, Goto, IInv, TypeOK, Where
    <3>3. made' \subseteq Calls
      BY <1>3 DEF CallOK, IInv, TypeOK
    <3>4. pc'["evt"] = pc["evt"]
      BY <1>3 DEF CallOK, Goto, IInv, TypeOK, Tasks
    <3> QED
      BY <3>2, <3>3, <3>4, <1>3 DEF CallOK, IInv, TypeOK, wifiVars, Where
  <2>2. Starting' => Quiet'
    BY <1>3 DEF CallOK, After, IInv, TypeOK, Starting, Quiet, Goto, Where, Calls, Tasks
  <2> QED
    BY <2>1, <2>2 DEF IInv
<1>4. CASE CallFails("main")
  BY <1>4 DEF CallFails, Abort, IInv, TypeOK, ethVars, wifiVars, Starting, Quiet
<1>5. CASE CreateTask
  BY <1>5 DEF CreateTask, IInv, TypeOK, ethVars, wifiVars, Goto, Where, Calls, Tasks,
              Starting, Quiet
<1> QED
  BY <1>1, <1>2, <1>3, <1>4, <1>5 DEF MainStep, CallStep

LEMMA DispatchIInv ==
  ASSUME IInv, Dispatch, UNCHANGED onceOnly
  PROVE  IInv'
<1> USE BoundsAssumption
<1>1. evq \in Seq(Events) /\ Len(evq) <= QueueSize
  BY DEF IInv, TypeOK
<1>2. ASSUME NEW e, Take(e), pc' = pc, made' = made PROVE Starting' => Quiet'
  <2>1. \A k \in 1 .. Len(evq') : k + 1 \in 1 .. Len(evq) /\ evq'[k] = evq[k + 1]
    BY <1>1, <1>2, TakeFacts
  <2> QED
    BY <2>1, <1>2 DEF IInv, Starting, Quiet
<1>3. CASE StaStart
  <2>1. evq' \in Seq(Events) /\ Len(evq') <= QueueSize
    BY <1>1, <1>3, TakeFacts DEF StaStart
  <2> QED
    BY <2>1, <1>2, <1>3 DEF StaStart, WifiConnect, IInv, TypeOK, ethVars
<1>4. CASE StaConnected
  <2>1. evq' \in Seq(Events) /\ Len(evq') <= QueueSize
    BY <1>1, <1>4, TakeFacts DEF StaConnected
  <2> QED
    BY <2>1, <1>2, <1>4 DEF StaConnected, IInv, TypeOK, ethVars
<1>5. CASE StaDisconnected
  <2>1. evq' \in Seq(Events) /\ Len(evq') <= QueueSize
    BY <1>1, <1>5, TakeFacts DEF StaDisconnected
  <2> QED
    BY <2>1, <1>2, <1>5 DEF StaDisconnected, WifiConnect, IInv, TypeOK, ethVars
<1>6. CASE EthConnected
  <2>1. evq' \in Seq(Events) /\ Len(evq') <= QueueSize
    BY <1>1, <1>6, TakeFacts DEF EthConnected
  <2> QED
    BY <2>1, <1>2, <1>6 DEF EthConnected, IInv, TypeOK, wifiVars
<1>7. CASE EthDisconnected
  <2>1. /\ evq' \in Seq(Events) /\ Len(evq') <= QueueSize
        /\ 1 \in 1 .. Len(evq) /\ evq[1] = "ETH_DISCONNECTED"
    BY <1>1, <1>7, TakeFacts DEF EthDisconnected
  <2>2. ~Starting
    BY <2>1 DEF IInv, Quiet
  <2>3. ~Starting'
    BY <2>2, <1>7 DEF EthDisconnected, Goto, Starting, IInv, TypeOK, Tasks
  <2>4. TypeOK'
    BY <2>1, <1>7 DEF EthDisconnected, Goto, IInv, TypeOK, wifiVars, Where, Tasks, Calls
  <2> QED
    BY <2>3, <2>4 DEF IInv
<1> QED
  BY <1>3, <1>4, <1>5, <1>6, <1>7 DEF Dispatch

(* The event loop inside start_connect_ethernet: the main task has left it.*)
LEMMA EvtCallIInv ==
  ASSUME IInv, DelayOver \/ CallStep("evt"), UNCHANGED onceOnly
  PROVE  IInv'
<1>1. pc["evt"] # "idle" /\ ~Starting
  BY DEF DelayOver, CallStep, CallOK, CallFails, Calls, IInv, Quiet
<1>2. CASE DelayOver
  BY <1>1, <1>2 DEF DelayOver, Goto, IInv, TypeOK, ethVars, wifiVars, Starting,
                    Tasks, Calls, Where
<1>3. CASE CallOK("evt")
  <2>1. TypeOK'
    <3>1. After("evt")[pc["evt"]] \in Where
      BY <1>3 DEF CallOK, After, Where, Calls
    <3>2. pc' \in [Tasks -> Where]
      BY <3>1, <1>3 DEF CallOK, Goto, IInv, TypeOK, Where
    <3>3. made' \subseteq Calls
      BY <1>3 DEF CallOK, IInv, TypeOK
    <3>4. pc'["evt"] \in Calls \cup {"idle"}
      BY <1>3 DEF CallOK, Goto, After, Calls, IInv, TypeOK, Tasks
    <3> QED
      BY <3>2, <3>3, <3>4, <1>3 DEF CallOK, IInv, TypeOK, wifiVars, Where
  <2>2. ~Starting'
    BY <1>1, <1>3 DEF CallOK, After, Goto, IInv, TypeOK, Starting, Tasks
  <2> QED
    BY <2>1, <2>2 DEF IInv
<1>4. CASE CallFails("evt")
  BY <1>4 DEF CallFails, Abort, IInv, TypeOK, ethVars, wifiVars, Starting, Quiet
<1> QED
  BY <1>2, <1>3, <1>4 DEF CallStep

LEMMA DriverIInv ==
  ASSUME IInv, DriverStep, UNCHANGED onceOnly
  PROVE  IInv'
<1> USE BoundsAssumption
<1>1. evq \in Seq(Events) /\ Len(evq) <= QueueSize
  BY DEF IInv, TypeOK
<1>2. CASE LinkChanges
  <2>1. ~Starting
    BY <1>2 DEF LinkChanges, IInv, Quiet
  <2>2. PICK e \in {"ETH_CONNECTED", "ETH_DISCONNECTED"} : Post(e)
    BY <1>2 DEF LinkChanges
  <2>3. evq' \in Seq(Events) /\ Len(evq') <= QueueSize
    BY <1>1, <2>2, PostFacts DEF Events
  <2> QED
    BY <2>1, <2>3, <1>2 DEF LinkChanges, IInv, TypeOK, wifiVars, Starting
<1>3. ASSUME NEW e \in {"STA_CONNECTED", "STA_DISCONNECTED"}, Post(e),
             UNCHANGED <<pc, made>>
      PROVE  evq' \in Seq(Events) /\ Len(evq') <= QueueSize /\ (Starting' => Quiet')
  <2>1. /\ evq' \in Seq(Events) /\ Len(evq') <= QueueSize
        /\ \A k \in 1 .. Len(evq') :
             evq'[k] = e \/ (k \in 1 .. Len(evq) /\ evq'[k] = evq[k])
    BY <1>1, <1>3, PostFacts DEF Events
  <2> QED
    BY <2>1, <1>3 DEF IInv, Starting, Quiet
<1>4. CASE Associate
  BY <1>3, <1>4 DEF Associate, IInv, TypeOK, ethVars
<1>5. CASE Disassociate
  BY <1>3, <1>5 DEF Disassociate, IInv, TypeOK, ethVars
<1> QED
  BY <1>2, <1>4, <1>5 DEF DriverStep

LEMMA OthersIInv ==
  ASSUME IInv, MqttStep \/ CableChanges \/ TaskPanics \/ Reboot, UNCHANGED onceOnly
  PROVE  IInv'
<1> USE BoundsAssumption
<1>1. CASE MqttConnected
  BY <1>1 DEF MqttConnected, IInv, TypeOK, ethVars, wifiVars, Starting, Quiet
<1>2. CASE MqttDisconnected
  BY <1>2 DEF MqttDisconnected, WifiConnect, IInv, TypeOK, ethVars, Starting, Quiet
<1>3. CASE CableChanges
  BY <1>3 DEF CableChanges, IInv, TypeOK, wifiVars, Starting, Quiet
<1>4. CASE TaskPanics
  BY <1>4 DEF TaskPanics, Abort, IInv, TypeOK, ethVars, wifiVars, Starting, Quiet
<1>5. CASE Reboot
  <2>1. evq' = <<>> /\ evq' \in Seq(Events) /\ Len(evq') = 0
    BY <1>5 DEF Reboot
  <2>2. TypeOK'
    <3>1. pc' \in [Tasks -> Where]
      BY <1>5, StartPC, Zenon DEF Reboot
    <3>2. Len(evq') <= QueueSize
      BY <2>1
    <3> QED
      BY <2>1, <3>1, <3>2, <1>5 DEF Reboot, IInv, TypeOK, Where
  <2>3. Quiet'
    BY <2>1, <1>5 DEF Reboot, Quiet
  <2> QED
    BY <2>2, <2>3 DEF IInv
<1> QED
  BY <1>1, <1>2, <1>3, <1>4, <1>5 DEF MqttStep

LEMMA NextIInv == IInv /\ [Next]_vars => IInv'
<1> SUFFICES ASSUME IInv, [Next]_vars PROVE IInv'
  OBVIOUS
<1>1. CASE Next
  BY <1>1, MainIInv, DispatchIInv, EvtCallIInv, DriverIInv, OthersIInv
     DEF Next, Running, EvtStep, Reboot
<1>2. CASE UNCHANGED vars
  BY <1>2 DEF vars, ethVars, wifiVars, IInv, TypeOK, Starting, Quiet
<1> QED
  BY <1>1, <1>2

THEOREM Invariance == Spec => []IInv
  BY InitIInv, NextIInv, PTL DEF Spec

-----------------------------------------------------------------------------
(* Every variable keeps its type, and the event queue never holds more     *)
(* than it has room for.                                                   *)
THEOREM TypeCorrect == Spec => []TypeOK
<1>1. IInv => TypeOK
  BY DEF IInv
<1> QED
  BY <1>1, Invariance, PTL

(* start_connect_ethernet is never run by two tasks at once, whatever its  *)
(* calls return and whenever the cable is plugged in or pulled out.        *)
THEOREM OneStarter == Spec => []OneEthStarter
<1>1. IInv => OneEthStarter
  BY DEF IInv, Starting, Quiet, OneEthStarter, Calls
<1> QED
  BY <1>1, Invariance, PTL

-----------------------------------------------------------------------------
(* With a contract under which the event loop cannot be created twice, the *)
(* main task gets no further than its second creation. Nothing else could  *)
(* start the driver: only the handler of a link event would, and while the *)
(* main task is starting there is none (Quiet).                            *)
Stuck ==
  "event_loop" \in onceOnly =>
    \/ pc["main"] = "wifi_init"
    \/ pc["main"] \in {"mqtt_app_start", "netif_init", "event_loop"} /\ "event_loop" \in made

LEMMA NextStuck == IInv /\ Stuck /\ [Next]_vars => Stuck'
<1> SUFFICES ASSUME IInv, Stuck, [Next]_vars, "event_loop" \in onceOnly'
             PROVE  Stuck'
  BY DEF Stuck
<1>1. "event_loop" \in onceOnly
  BY DEF Next, Running, Reboot, vars
<1>2. /\ Starting /\ Quiet /\ pc \in [Tasks -> Where]
      /\ \A k \in 1 .. Len(evq) : evq[k] # "ETH_DISCONNECTED"
      /\ evq \in Seq(Events)
  BY <1>1 DEF Stuck, Starting, IInv, TypeOK, Calls, Quiet
<1>3. CASE MainStep
  <2>1. ASSUME NEW started \in BOOLEAN, WifiInit(started) PROVE Stuck'
    BY <1>2, <2>1 DEF WifiInit, Goto, Stuck, Tasks
  <2>2. CASE MqttAppStart
    BY <1>1, <1>2, <2>2 DEF MqttAppStart, Goto, Stuck, Tasks
  <2>3. CASE CallOK("main")
    <3>1. pc["main"] = "netif_init" /\ "event_loop" \in made
      BY <1>1, <2>3 DEF CallOK, Succeeds, Stuck, Calls
    <3>2. pc'["main"] = "event_loop" /\ made \subseteq made'
      BY <1>2, <2>3, <3>1 DEF CallOK, After, Goto, Tasks
    <3> QED
      BY <3>1, <3>2 DEF Stuck
  <2>4. CASE CallFails("main")
    BY <1>1, <2>4 DEF CallFails, Abort, Stuck
  <2>5. ~CreateTask
    BY <1>1 DEF CreateTask, Stuck
  <2> QED
    BY <1>3, <2>1, <2>2, <2>3, <2>4, <2>5 DEF MainStep, CallStep
<1>4. CASE EvtStep
  <2>1. ~EthDisconnected
    BY <1>2 DEF EthDisconnected, Take
  <2>2. ~DelayOver /\ ~CallStep("evt")
    BY <1>2 DEF DelayOver, CallStep, CallOK, CallFails, Quiet, Calls
  <2>3. UNCHANGED <<pc, made>>
    BY <1>4, <2>1, <2>2 DEF EvtStep, Dispatch, StaStart, StaConnected, StaDisconnected,
                            EthConnected
  <2> QED
    BY <1>1, <2>3 DEF Stuck
<1>5. CASE MqttStep \/ DriverStep \/ CableChanges \/ TaskPanics \/ UNCHANGED vars
  <2>1. UNCHANGED <<pc, made>>
    BY <1>5 DEF MqttStep, MqttConnected, MqttDisconnected, DriverStep, LinkChanges,
       Associate, Disassociate, CableChanges, TaskPanics, Abort, vars
  <2> QED
    BY <1>1, <2>1 DEF Stuck
<1>6. CASE Reboot
  BY <1>6 DEF Reboot, Stuck
<1> QED
  BY <1>3, <1>4, <1>5, <1>6 DEF Next, Running

(* No boot gets to start the Ethernet driver or opcua_task when ESP-IDF    *)
(* refuses to create the default event loop twice, as it documents.        *)
THEOREM NeverStarts == Spec => []EthernetNeverStarts
<1>1. Init => Stuck
  BY DEF Init, Stuck
<1>2. IInv /\ Stuck => EthernetNeverStarts
  BY DEF IInv, Stuck, EthernetNeverStarts, Starting, Quiet, Calls
<1> QED
  BY <1>1, <1>2, NextStuck, Invariance, PTL DEF Spec

-----------------------------------------------------------------------------
(* That the flag follows the link needs that the driver is started once in *)
(* a boot, with the link down: the event loop cannot get beyond            *)
(* spi_bus_initialize, which the main task has called before.              *)
StartsOnce ==
  /\ pc["main"] \in {"driver", "start"} \/ ~Starting => "spi_bus" \in made
  /\ pc["evt"] \notin {"driver", "start"}
  /\ "start" \notin made => ~link

FlagIInv == IInv /\ StartsOnce /\ FlagFollowsLink

(* The last link event of a queue, and what it says.                       *)
IsLink(e) == e \in {"ETH_CONNECTED", "ETH_DISCONNECTED"}
Says(up) ==
  \/ /\ \A k \in 1..Len(evq) : ~IsLink(evq[k])
     /\ up = (ETHERNET_CONNECTED = 1)
  \/ \E k \in 1..Len(evq) : /\ IsLink(evq[k])
                           /\ \A j \in 1..Len(evq) : IsLink(evq[j]) => j <= k
                           /\ up = (evq[k] = "ETH_CONNECTED")

LEMMA FollowsSays ==
  ASSUME NEW up, up = link, FlagFollowsLink, ~dropped
  PROVE  Says(up)
  BY DEF FlagFollowsLink, Says, LinkEvents, IsLink

LEMMA SaysFollows ==
  ASSUME NEW up, ~dropped' => up = link' /\ Says(up)'
  PROVE  FlagFollowsLink'
  BY DEF FlagFollowsLink, Says, LinkEvents, IsLink

(* A Wi-Fi event that comes or goes changes nothing of it.                 *)
LEMMA WifiPost ==
  ASSUME NEW e \in Events, ~IsLink(e), evq \in Seq(Events), Len(evq) <= QueueSize, Post(e),
         UNCHANGED ETHERNET_CONNECTED, NEW up, Says(up)
  PROVE  Says(up)'
<1> USE BoundsAssumption
<1>1. CASE Len(evq) < QueueSize
  <2>1. /\ Len(evq') = Len(evq) + 1 /\ evq'[Len(evq) + 1] = e /\ Len(evq) \in Nat
        /\ \A k \in 1..Len(evq) : evq'[k] = evq[k]
    BY <1>1 DEF Post
  <2>2. \A k \in 1..Len(evq') : k \in 1..Len(evq) \/ ~IsLink(evq'[k])
    BY <2>1
  <2>3. CASE \A k \in 1..Len(evq) : ~IsLink(evq[k])
    BY <2>1, <2>2, <2>3 DEF Says
  <2>4. CASE \E k \in 1..Len(evq) : IsLink(evq[k])
    <3>1. PICK k \in 1..Len(evq) : /\ IsLink(evq[k])
                                   /\ \A j \in 1..Len(evq) : IsLink(evq[j]) => j <= k
                                   /\ up = (evq[k] = "ETH_CONNECTED")
      BY <2>4 DEF Says
    <3>2. k \in 1..Len(evq') /\ evq'[k] = evq[k]
      BY <2>1
    <3>3. \A j \in 1..Len(evq') : IsLink(evq'[j]) => j <= k
      BY <2>1, <2>2, <3>1
    <3> QED
      BY <3>1, <3>2, <3>3 DEF Says
  <2> QED
    BY <2>3, <2>4
<1>2. CASE ~ (Len(evq) < QueueSize)
  BY <1>2 DEF Post, Says
<1> QED
  BY <1>1, <1>2

LEMMA WifiTake ==
  ASSUME NEW e, ~IsLink(e), evq \in Seq(Events), Len(evq) <= QueueSize, Take(e),
         UNCHANGED ETHERNET_CONNECTED, NEW up, Says(up)
  PROVE  Says(up)'
<1>1. /\ 1 \in 1..Len(evq) /\ evq[1] = e /\ Len(evq) \in Nat /\ Len(evq') = Len(evq) - 1
      /\ \A k \in 1..Len(evq') : k + 1 \in 1..Len(evq) /\ evq'[k] = evq[k + 1]
  BY DEF Take
<1>2. CASE \A k \in 1..Len(evq) : ~IsLink(evq[k])
  BY <1>1, <1>2 DEF Says
<1>3. CASE \E k \in 1..Len(evq) : IsLink(evq[k])
  <2>1. PICK k \in 1..Len(evq) : /\ IsLink(evq[k])
                                 /\ \A j \in 1..Len(evq) : IsLink(evq[j]) => j <= k
                                 /\ up = (evq[k] = "ETH_CONNECTED")
    BY <1>3 DEF Says
  <2>2. k # 1
    BY <1>1, <2>1
  <2>3. k - 1 \in 1..Len(evq') /\ evq'[k - 1] = evq[k]
    <3>1. k - 1 \in 1..Len(evq') /\ (k - 1) + 1 = k
      BY <1>1, <2>2
    <3> QED
      BY <1>1, <3>1
  <2>4. ASSUME NEW j \in 1..Len(evq'), IsLink(evq'[j])
        PROVE  j <= k - 1
    <3>1. j + 1 <= k
      BY <1>1, <2>1, <2>4
    <3> QED
      BY <3>1
  <2> QED
    BY <2>1, <2>3, <2>4 DEF Says
<1> QED
  BY <1>2, <1>3

(* A link event that is posted is the last one; the first, when its        *)
(* handler has run, is what the flag says.                                 *)
LEMMA LinkPost ==
  ASSUME NEW up \in BOOLEAN, evq \in Seq(Events), Len(evq) < QueueSize,
         Post(IF up THEN "ETH_CONNECTED" ELSE "ETH_DISCONNECTED")
  PROVE  Says(up)'
<1> DEFINE e == IF up THEN "ETH_CONNECTED" ELSE "ETH_DISCONNECTED"
<1>1. e \in Events /\ IsLink(e) /\ up = (e = "ETH_CONNECTED")
  BY DEF Events, IsLink
<1> HIDE DEF e
<1>2. /\ Len(evq') = Len(evq) + 1 /\ evq'[Len(evq) + 1] = e /\ Len(evq) \in Nat
  BY <1>1 DEF Post, e
<1>3. Len(evq') \in 1..Len(evq') /\ evq'[Len(evq')] = e
  BY <1>2
<1>4. \A j \in 1..Len(evq') : j <= Len(evq')
  BY <1>2
<1> QED
  BY <1>1, <1>3, <1>4 DEF Says

LEMMA LinkTake ==
  ASSUME NEW e \in {"ETH_CONNECTED", "ETH_DISCONNECTED"}, evq \in Seq(Events),
         Len(evq) <= QueueSize, Take(e),
         ETHERNET_CONNECTED' = IF e = "ETH_CONNECTED" THEN 1 ELSE 0, NEW up, Says(up)
  PROVE  Says(up)'
<1>1. /\ 1 \in 1..Len(evq) /\ evq[1] = e /\ Len(evq) \in Nat /\ Len(evq') = Len(evq) - 1
      /\ \A k \in 1..Len(evq') : k + 1 \in 1..Len(evq) /\ evq'[k] = evq[k + 1]
  BY DEF Take
<1>2. PICK k \in 1..Len(evq) : /\ IsLink(evq[k])
                               /\ \A j \in 1..Len(evq) : IsLink(evq[j]) => j <= k
                               /\ up = (evq[k] = "ETH_CONNECTED")
  BY <1>1 DEF Says, IsLink
<1>3. ASSUME NEW j \in 1..Len(evq'), IsLink(evq'[j])
      PROVE  j + 1 <= k
  BY <1>1, <1>2, <1>3
<1>4. CASE k = 1
  <2>1. \A j \in 1..Len(evq') : ~IsLink(evq'[j])
    BY <1>3, <1>4
  <2>2. (ETHERNET_CONNECTED' = 1) = (e = "ETH_CONNECTED")
    OBVIOUS
  <2>3. up = (ETHERNET_CONNECTED' = 1)
    BY <1>1, <1>2, <1>4, <2>2
  <2> QED
    BY <2>1, <2>3 DEF Says
<1>5. CASE k # 1
  <2>1. k - 1 \in 1..Len(evq') /\ (k - 1) + 1 = k
    BY <1>1, <1>5
  <2>2. evq'[k - 1] = evq[k]
    BY <1>1, <2>1
  <2>3. \A j \in 1..Len(evq') : IsLink(evq'[j]) => j <= k - 1
    BY <1>1, <1>3
  <2> QED
    BY <1>2, <2>1, <2>2, <2>3 DEF Says
<1> QED
  BY <1>4, <1>5

LEMMA FlagQueue ==
  ASSUME FlagIInv, link' = link, dropped' = dropped,
         \/ UNCHANGED <<evq, ETHERNET_CONNECTED>>
         \/ \E e \in Events : ~IsLink(e) /\ (Post(e) \/ Take(e)) /\ UNCHANGED ETHERNET_CONNECTED
         \/ \E e \in {"ETH_CONNECTED", "ETH_DISCONNECTED"} :
               Take(e) /\ ETHERNET_CONNECTED' = IF e = "ETH_CONNECTED" THEN 1 ELSE 0
  PROVE  FlagFollowsLink'
<1>1. PICK up : up = link
  OBVIOUS
<1>2. evq \in Seq(Events) /\ Len(evq) <= QueueSize
  BY DEF FlagIInv, IInv, TypeOK
<1>3. ASSUME ~dropped
      PROVE  Says(up)'
  <2>1. Says(up)
    BY <1>1, <1>3, FollowsSays DEF FlagIInv
  <2>2. CASE UNCHANGED <<evq, ETHERNET_CONNECTED>>
    BY <2>1, <2>2 DEF Says
  <2>3. ASSUME NEW e \in Events, ~IsLink(e), Post(e), UNCHANGED ETHERNET_CONNECTED
        PROVE  Says(up)'
    BY <1>2, <2>1, <2>3, WifiPost
  <2>4. ASSUME NEW e \in Events, ~IsLink(e), Take(e), UNCHANGED ETHERNET_CONNECTED
        PROVE  Says(up)'
    BY <1>2, <2>1, <2>4, WifiTake
  <2>5. ASSUME NEW e \in {"ETH_CONNECTED", "ETH_DISCONNECTED"}, Take(e),
               ETHERNET_CONNECTED' = IF e = "ETH_CONNECTED" THEN 1 ELSE 0
        PROVE  Says(up)'
    BY <1>2, <2>1, <2>5, LinkTake
  <2> QED
    BY <2>2, <2>3, <2>4, <2>5
<1> QED
  BY <1>1, <1>3, SaysFollows

LEMMA NextFlag == FlagIInv /\ [Next]_vars => FlagIInv'
<1> SUFFICES ASSUME FlagIInv, [Next]_vars
             PROVE  FlagIInv'
  OBVIOUS
<1> USE DEF FlagIInv
<1>1. IInv' /\ IInv
  BY NextIInv
<1>2. /\ pc \in [Tasks -> Where] /\ made \subseteq Calls /\ "spi_bus" \in onceOnly /\ link \in BOOLEAN
      /\ Starting => pc["evt"] = "idle" /\ "start" \notin made
  BY <1>1, ContractAssumption DEF IInv, TypeOK, Quiet
<1>3. CASE Running(MainStep)
  <2>1. ASSUME NEW started \in BOOLEAN, WifiInit(started)
        PROVE  StartsOnce' /\ FlagFollowsLink'
    <3>1. StartsOnce'
      BY <1>2, <2>1 DEF WifiInit, StartsOnce, Starting, Goto, Tasks, Calls, ethVars
    <3>2. Post("STA_START") \/ UNCHANGED evq
      BY <2>1 DEF WifiInit
    <3>3. link' = link /\ dropped' = dropped /\ UNCHANGED ETHERNET_CONNECTED
      BY <2>1 DEF WifiInit, ethVars
    <3>4. "STA_START" \in Events /\ ~IsLink("STA_START")
      BY DEF Events, IsLink
    <3> QED
      BY <3>1, <3>2, <3>3, <3>4, FlagQueue
  <2>2. ASSUME MqttAppStart \/ CreateTask \/ CallFails("main")
        PROVE  StartsOnce' /\ FlagFollowsLink'
    <3>1. StartsOnce'
      BY <1>2, <2>2 DEF MqttAppStart, CreateTask, CallFails, Abort, StartsOnce, Starting, Goto, Tasks,
                        Calls, ethVars
    <3>2. UNCHANGED <<link, dropped, evq, ETHERNET_CONNECTED>>
      BY <2>2 DEF MqttAppStart, CreateTask, CallFails, Abort, ethVars
    <3> QED
      BY <3>1, <3>2, FlagQueue
  <2>3. ASSUME CallOK("main")
        PROVE  StartsOnce' /\ FlagFollowsLink'
    <3>1. /\ pc["main"] \in Calls /\ made' = made \cup {pc["main"]}
          /\ pc' = [pc EXCEPT !["main"] = After("main")[pc["main"]]]
          /\ Starting /\ UNCHANGED <<dropped, evq, ETHERNET_CONNECTED>>
          /\ link' = IF pc["main"] = "start" THEN FALSE ELSE link
      BY <2>3 DEF CallOK, Goto, Starting
    <3>2. link' = link
      BY <1>2, <3>1 DEF StartsOnce
    <3>3. FlagFollowsLink'
      BY <3>1, <3>2, FlagQueue
    <3>4. pc'["main"] = After("main")[pc["main"]] /\ pc'["evt"] = pc["evt"]
      BY <1>2, <3>1 DEF Tasks
    <3>5. StartsOnce'
      BY <1>2, <3>1, <3>2, <3>4 DEF StartsOnce, Starting, After, Calls
    <3> QED
      BY <3>3, <3>5
  <2> QED
    BY <1>1, <1>3, <2>1, <2>2, <2>3 DEF Running, MainStep, CallStep
<1>4. CASE Running(EvtStep)
  <2>1. CASE Dispatch
    <3>1. /\ UNCHANGED <<link, dropped, made>> /\ pc'["main"] = pc["main"]
          /\ pc'["evt"] \in {pc["evt"], "delay"}
      BY <1>2, <2>1 DEF Dispatch, StaStart, StaConnected, StaDisconnected, EthConnected, EthDisconnected,
                        Goto, Tasks, ethVars
    <3>2. StartsOnce'
      BY <3>1 DEF StartsOnce, Starting
    <3>3. CASE StaStart \/ StaConnected \/ StaDisconnected
      <4>1. PICK e \in {"STA_START", "STA_CONNECTED", "STA_DISCONNECTED"} : Take(e)
        BY <3>3 DEF StaStart, StaConnected, StaDisconnected
      <4>2. e \in Events /\ ~IsLink(e) /\ UNCHANGED ETHERNET_CONNECTED
        BY <3>3 DEF StaStart, StaConnected, StaDisconnected, Events, IsLink, ethVars
      <4> QED
        BY <1>1, <3>1, <3>2, <4>1, <4>2, FlagQueue
    <3>4. CASE EthConnected
      <4>1. Take("ETH_CONNECTED") /\ ETHERNET_CONNECTED' = 1
        BY <3>4 DEF EthConnected
      <4> QED
        BY <1>1, <3>1, <3>2, <4>1, FlagQueue
    <3>5. CASE EthDisconnected
      <4>1. Take("ETH_DISCONNECTED") /\ ETHERNET_CONNECTED' = 0
        BY <3>5 DEF EthDisconnected
      <4> QED
        BY <1>1, <3>1, <3>2, <4>1, FlagQueue
    <3> QED
      BY <2>1, <3>3, <3>4, <3>5 DEF Dispatch
  <2>2. CASE DelayOver \/ CallStep("evt")
    <3>1. /\ ~Starting /\ "spi_bus" \in made /\ "spi_bus" \in onceOnly
          /\ pc["evt"] \notin {"driver", "start"}
      BY <1>2, <2>2 DEF DelayOver, CallStep, CallOK, CallFails, Calls, StartsOnce
    <3>2. /\ UNCHANGED <<link, dropped, evq, ETHERNET_CONNECTED>>
          /\ pc'["main"] = pc["main"] /\ pc'["evt"] \notin {"driver", "start"}
          /\ made \subseteq made' /\ ("start" \in made' => "start" \in made)
      <4>1. CASE DelayOver \/ CallFails("evt")
        BY <1>2, <3>1, <4>1 DEF DelayOver, CallFails, Abort, Goto, Tasks, ethVars
      <4>2. CASE CallOK("evt")
        <5>1. /\ pc["evt"] \in {"netif_init", "event_loop", "handlers"} /\ made' = made \cup {pc["evt"]}
              /\ pc' = [pc EXCEPT !["evt"] = After("evt")[pc["evt"]]]
              /\ UNCHANGED <<link, dropped, evq, ETHERNET_CONNECTED>>
          BY <3>1, <4>2 DEF CallOK, Succeeds, Goto, Calls
        <5>2. After("evt")[pc["evt"]] \notin {"driver", "start"}
          BY <5>1 DEF After
        <5> QED
          BY <1>2, <5>1, <5>2 DEF Tasks
      <4> QED
        BY <2>2, <4>1, <4>2 DEF CallStep
    <3>3. StartsOnce'
      BY <3>1, <3>2 DEF StartsOnce
    <3> QED
      BY <1>1, <3>2, <3>3, FlagQueue
  <2> QED
    BY <1>4, <2>1, <2>2 DEF Running, EvtStep
<1>5. CASE Running(DriverStep)
  <2>1. CASE LinkChanges
    <3>1. /\ "start" \in made /\ UNCHANGED <<pc, made>> /\ link' \in BOOLEAN
          /\ Post(IF link' THEN "ETH_CONNECTED" ELSE "ETH_DISCONNECTED")
          /\ dropped' = (dropped \/ Len(evq) = QueueSize)
      BY <1>1, <2>1 DEF LinkChanges, IInv, TypeOK
    <3>2. StartsOnce'
      BY <3>1 DEF StartsOnce, Starting
    <3>3. PICK up \in BOOLEAN : up = link'
      BY <3>1
    <3>4. ASSUME ~dropped'
          PROVE  Says(up)'
      <4>1. evq \in Seq(Events) /\ Len(evq) < QueueSize
        <5>1. Len(evq) # QueueSize
          BY <3>1, <3>4, Zenon
        <5> QED
          BY <1>1, <5>1, BoundsAssumption DEF IInv, TypeOK
      <4>2. Post(IF up THEN "ETH_CONNECTED" ELSE "ETH_DISCONNECTED")
        BY <3>1, <3>3
      <4> QED
        BY <4>1, <4>2, LinkPost
    <3> QED
      BY <1>1, <3>2, <3>3, <3>4, SaysFollows
  <2>2. CASE Associate \/ Disassociate
    <3>1. PICK e \in {"STA_CONNECTED", "STA_DISCONNECTED"} : Post(e)
      BY <2>2 DEF Associate, Disassociate
    <3>2. e \in Events /\ ~IsLink(e)
      BY DEF Events, IsLink
    <3>3. UNCHANGED <<pc, made, link, dropped, ETHERNET_CONNECTED>>
      BY <2>2 DEF Associate, Disassociate, ethVars
    <3> QED
      BY <1>1, <3>1, <3>2, <3>3, FlagQueue DEF StartsOnce, Starting
  <2> QED
    BY <1>5, <2>1, <2>2 DEF Running, DriverStep
<1>6. CASE Running(MqttStep) \/ Running(CableChanges) \/ Running(TaskPanics) \/ UNCHANGED vars
  <2>1. UNCHANGED <<pc, made, link, dropped, evq, ETHERNET_CONNECTED>>
    BY <1>6 DEF Running, MqttStep, MqttConnected, MqttDisconnected, CableChanges, TaskPanics, Abort, vars,
                ethVars
  <2> QED
    BY <1>1, <2>1, FlagQueue DEF StartsOnce, Starting
<1>7. CASE Reboot
  <2>1. /\ pc' = [main |-> "wifi_init", evt |-> "idle"] /\ evq' = <<>> /\ link' = FALSE
        /\ ETHERNET_CONNECTED' = 0
    BY <1>7 DEF Reboot
  <2>2. FlagFollowsLink'
    <3>1. LinkEvents' = {}
      BY <2>1 DEF LinkEvents
    <3>2. link' = FALSE /\ (ETHERNET_CONNECTED' = 1) = FALSE
      BY <2>1
    <3> QED
      BY <3>1, <3>2 DEF FlagFollowsLink
  <2> QED
    BY <1>1, <2>1, <2>2 DEF StartsOnce, Starting
<1> QED
  BY <1>3, <1>4, <1>5, <1>6, <1>7 DEF Next

(* The events in the queue bring the flag opcua_task trusts to the state   *)
(* of the link, for every size of the queue, unless one was dropped.       *)
THEOREM FlagIsTrusty == Spec => []FlagFollowsLink
<1>1. Init => FlagIInv
  <2> SUFFICES ASSUME Init
               PROVE  FlagIInv
    OBVIOUS
  <2>1. IInv
    BY InitIInv
  <2>2. evq = <<>> /\ Len(evq) = 0
    BY DEF Init
  <2>3. FlagFollowsLink
    <3>1. LinkEvents = {}
      BY <2>2 DEF LinkEvents
    <3>2. link = FALSE /\ (ETHERNET_CONNECTED = 1) = FALSE
      BY DEF Init
    <3> QED
      BY <3>1, <3>2 DEF FlagFollowsLink
  <2>4. StartsOnce
    BY DEF Init, StartsOnce, Starting
  <2> QED
    BY <2>1, <2>3, <2>4 DEF FlagIInv
<1>2. FlagIInv => FlagFollowsLink
  BY DEF FlagIInv
<1> QED
  BY <1>1, <1>2, NextFlag, PTL DEF Spec
=============================================================================
