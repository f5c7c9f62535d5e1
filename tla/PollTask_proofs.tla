--------------------------- MODULE PollTask_proofs ---------------------------
(***************************************************************************)
(* Proofs about opcua_task, for every number of nodes, every heap and all  *)
(* values: types, the publish budget the leak leaves of a boot, and the    *)
(* bound on what is published on a stale link flag.                        *)
(*                                                                         *)
(* Neither property is inductive. Between two publishes the task holds     *)
(* blocks that only count as leaked at the next one (Held), and how many   *)
(* payloads a pass may still publish depends on how far it is (LateSoFar). *)
(*                                                                         *)
(* The last part is about the firmware (Gateway): each of its steps is a   *)
(* step of opcua_task and one of the connectivity part, or leaves that     *)
(* part alone. This needs that the flag is 0 or 1 and late is 0 while it   *)
(* is 1 (IInv), and that the task exists only when app_main is done        *)
(* (CreatedLast).                                                          *)
(***************************************************************************)
EXTENDS PollTask, TLAPS

(* The points inside a pass over the nodes.                                *)
InPass == {"newName", "awaitName", "copyName", "awaitValue"}

(* Blocks taken since the iteration began: the first request, the name's   *)
(* response, the copy of the name and the second request.                  *)
Held(p) == IF p = "awaitName" THEN 1
           ELSE IF p = "copyName" THEN 2
           ELSE IF p = "awaitValue" THEN 4 ELSE 0

Budget == 3 * pub + heap + Held(pc) <= HeapSize

LateSoFar ==
  /\ ETHERNET_CONNECTED = 1 => late = 0
  /\ pc \in InPass => late <= i
  /\ late <= N

IInv == TypeOK /\ Budget /\ LateSoFar

-----------------------------------------------------------------------------
(* The end of an iteration: the index stays one of a node, and the next    *)
(* iteration, if there is one, may have one payload more behind it.        *)
LEMMA AdvanceFacts ==
  ASSUME i \in Index, Advance
  PROVE  /\ i' \in Index
         /\ pc' \in {"newName", "delay"}
         /\ pc' = "newName" => i' = i + 1
         /\ pc' = "delay" => i + 1 = N
         /\ i <= i' /\ i + 1 <= N
         /\ Held(pc') = 0
  BY NAssumption, SMT DEF Advance, Index, Held

(* What is printed of a value is again one of the modelled values.         *)
LEMMA ShownIsValue ==
  ASSUME NEW t, NEW v \in Values
  PROVE  Shown(t, v) \in Values
  BY ValuesAssumption DEF Shown, LowWord

LEMMA InitIInv == Init => IInv
<1> SUFFICES ASSUME Init PROVE IInv
  OBVIOUS
<1>1. TypeOK
  BY NAssumption, HeapAssumption DEF Init, TypeOK, PCs, Index
<1>2. Budget
  BY HeapAssumption DEF Init, Budget, Held
<1>3. LateSoFar
  BY NAssumption DEF Init, LateSoFar, InPass
<1> QED
  BY <1>1, <1>2, <1>3 DEF IInv

-----------------------------------------------------------------------------
(* A panic changes nothing but alive.                                      *)
LEMMA PanicIInv ==
  ASSUME IInv, Panic
  PROVE  IInv'
<1>1. TypeOK'
  BY DEF IInv, TypeOK, Panic, task, local
<1>2. Budget'
  BY DEF IInv, Budget, Panic, task, local
<1>3. LateSoFar'
  BY DEF IInv, LateSoFar, Panic, task, local
<1> QED
  BY <1>1, <1>2, <1>3 DEF IInv

(* The steps of the task that do not end an iteration.                     *)
LEMMA StraightIInv ==
  ASSUME IInv,
         Connect \/ Gate \/ NewName \/ NameText \/ CopyName \/ Delay,
         UNCHANGED <<alive, ETHERNET_CONNECTED>>
  PROVE  IInv'
<1> USE NAssumption, HeapAssumption
<1>1. CASE Connect
  BY <1>1 DEF Connect, IInv, TypeOK, PCs, Budget, Held, LateSoFar, InPass
<1>2. CASE Gate
  BY <1>2 DEF Gate, IInv, TypeOK, PCs, Index, Budget, Held, LateSoFar, InPass
<1>3. CASE NewName
  BY <1>3 DEF NewName, IInv, TypeOK, PCs, Budget, Held, LateSoFar, InPass
<1>4. CASE NameText
  BY <1>4 DEF NameText, IInv, TypeOK, PCs, Budget, Held, LateSoFar, InPass
<1>5. CASE CopyName
  BY <1>5 DEF CopyName, IInv, TypeOK, PCs, Budget, Held, LateSoFar, InPass
<1>6. CASE Delay
  BY <1>6 DEF Delay, IInv, TypeOK, PCs, Budget, Held, LateSoFar, InPass
<1> QED
  BY <1>1, <1>2, <1>3, <1>4, <1>5, <1>6

(* The ways an iteration ends without a publish.                           *)
LEMMA SkipIInv ==
  ASSUME IInv,
         NameBad \/ NameNotText \/ ValueBad \/ ValueOther,
         UNCHANGED <<alive, ETHERNET_CONNECTED>>
  PROVE  IInv'
<1> USE NAssumption, HeapAssumption
<1>1. pc \in InPass /\ i \in Index /\ Advance /\ UNCHANGED <<pub, late, retained>>
  BY DEF NameBad, NameNotText, ValueBad, ValueOther, IInv, TypeOK, InPass
<1>2. /\ i' \in Index /\ i <= i' /\ Held(pc') = 0
      /\ pc' \in {"newName", "delay"}
  BY <1>1, AdvanceFacts
<1>3. session' \in {"none", "open", "lost"}
  BY DEF NameBad, NameNotText, ValueBad, ValueOther, Fail, IInv, TypeOK
<1>4. heap' = heap \/ (heap' = heap + 1 /\ Held(pc) = 4)
  BY DEF NameBad, NameNotText, ValueBad, ValueOther, Held
<1>5. TypeOK'
  <2>1. heap' \in 0 .. HeapSize
    BY <1>4 DEF IInv, TypeOK, Budget
  <2> QED
    BY <2>1, <1>1, <1>2, <1>3 DEF IInv, TypeOK, PCs
<1>6. Budget'
  <2>1. Held(pc) \in Nat
    BY DEF Held
  <2>2. CASE heap' = heap
    BY <2>1, <2>2, <1>1, <1>2 DEF IInv, TypeOK, Budget
  <2>3. CASE heap' = heap + 1 /\ Held(pc) = 4
    BY <2>3, <1>1, <1>2 DEF IInv, TypeOK, Budget
  <2> QED
    BY <2>2, <2>3, <1>4
<1>7. LateSoFar'
  BY <1>1, <1>2 DEF IInv, TypeOK, LateSoFar, InPass, Index
<1> QED
  BY <1>5, <1>6, <1>7 DEF IInv

LEMMA PublishIInv ==
  ASSUME IInv,
         NEW t \in Supported, NEW v \in Values, NEW delivered \in BOOLEAN,
         Publish(t, v, delivered),
         UNCHANGED <<alive, ETHERNET_CONNECTED>>
  PROVE  IInv'
<1> USE NAssumption, HeapAssumption
<1>1. pc \in InPass /\ i \in Index /\ Advance
  BY DEF Publish, IInv, TypeOK, InPass
<1>2. /\ i' \in Index /\ i + 1 <= N /\ Held(pc') = 0
      /\ pc' \in {"newName", "delay"}
      /\ pc' = "newName" => i' = i + 1
  BY <1>1, AdvanceFacts
<1>3. retained' \in [Index -> Payload \cup {NONE}]
  <2>1. [type |-> t, read |-> v, shown |-> Shown(t, v)] \in Payload
    BY ShownIsValue DEF Payload
  <2> QED
    BY <2>1 DEF Publish, IInv, TypeOK
<1>4. heap' = heap + 1 /\ pub' = pub + 1 /\ Held(pc) = 4
  BY DEF Publish, Held
<1>5. late' \in Nat /\ late' <= i + 1
  BY <1>1 DEF Publish, IInv, TypeOK, LateSoFar, Index
<1>6. TypeOK'
  <2>1. heap' \in 0 .. HeapSize /\ pub' \in Nat
    BY <1>4 DEF IInv, TypeOK, Budget
  <2> QED
    BY <2>1, <1>2, <1>3, <1>5 DEF Publish, IInv, TypeOK, PCs
<1>7. Budget'
  BY <1>2, <1>4 DEF IInv, TypeOK, Budget
<1>8. LateSoFar'
  <2>1. ETHERNET_CONNECTED' = 1 => late' = 0
    BY DEF Publish, IInv, TypeOK
  <2> QED
    BY <2>1, <1>1, <1>2, <1>5 DEF LateSoFar, InPass, Index
<1> QED
  BY <1>6, <1>7, <1>8 DEF IInv

LEMMA OthersIInv ==
  ASSUME IInv, Create \/ (\E f \in {0, 1} : SetFlag(f)) \/ Reboot
  PROVE  IInv'
<1> USE NAssumption, HeapAssumption
<1>1. CASE Create
  BY <1>1 DEF Create, Start, IInv, TypeOK, PCs, Budget, Held, LateSoFar, InPass
<1>2. CASE \E f \in {0, 1} : SetFlag(f)
  BY <1>2 DEF SetFlag, local, IInv, TypeOK, Budget, Held, LateSoFar, Index
<1>3. CASE Reboot
  BY <1>3 DEF Reboot, Restart, IInv, TypeOK, PCs, Index, Budget, Held,
              LateSoFar, InPass
<1> QED
  BY <1>1, <1>2, <1>3

LEMMA NextIInv == IInv /\ [Next]_vars => IInv'
<1> SUFFICES ASSUME IInv, [Next]_vars PROVE IInv'
  OBVIOUS
<1>1. CASE Create \/ (\E f \in {0, 1} : SetFlag(f)) \/ Reboot
  BY <1>1, OthersIInv
<1>2. CASE TaskStep
  <2>1. CASE ConnectFails \/ OutOfMemory
    BY <2>1, PanicIInv DEF ConnectFails, OutOfMemory
  <2>2. CASE Run /\ UNCHANGED <<alive, ETHERNET_CONNECTED>>
    BY <2>2, StraightIInv, SkipIInv, PublishIInv DEF Run
  <2> QED
    BY <1>2, <2>1, <2>2 DEF TaskStep
<1>3. CASE OtherPanics
  BY <1>3, PanicIInv DEF OtherPanics
<1>4. CASE UNCHANGED vars
  BY <1>4 DEF vars, task, local, IInv, TypeOK, Budget, LateSoFar
<1> QED
  BY <1>1, <1>2, <1>3, <1>4 DEF Next

(* The inductive invariant holds in every behaviour of the task.           *)
THEOREM Invariance == Spec => []IInv
  BY InitIInv, NextIInv, PTL DEF Spec

-----------------------------------------------------------------------------
(* Every variable keeps its type: the index stays inside nodeIds, the heap *)
(* gives out no block twice and takes none back that it did not give out.  *)
THEOREM TypeCorrect == Spec => []TypeOK
<1>1. IInv => TypeOK
  BY DEF IInv
<1> QED
  BY <1>1, Invariance, PTL

(* No boot publishes more than a third of the heap's blocks, whatever the  *)
(* server answers and however often the link goes up and down.             *)
THEOREM BootIsBounded == Spec => []PublishBudget
<1>1. IInv => PublishBudget
  BY HeapAssumption DEF IInv, TypeOK, Budget, Held, PublishBudget
<1> QED
  BY <1>1, Invariance, PTL

(* At most N payloads are published on a link flag that is down.           *)
THEOREM StaleIsBounded == Spec => []StaleFlagBound
<1>1. IInv => StaleFlagBound
  BY DEF IInv, LateSoFar, StaleFlagBound
<1> QED
  BY <1>1, Invariance, PTL
-----------------------------------------------------------------------------
(* The task in the firmware, beside the connectivity part.                 *)
CONSTANTS Contracts, MayFail, MAX_RETRY, QueueSize, MaxDrops
VARIABLES onceOnly, net, made, evq, dropped, cable, link, wifi, WIFI_CONNECTED,
          retry_cnt, mqtt

Firmware == INSTANCE Gateway

(* What the connectivity part does with what it shares: the flag is 0 or 1 *)
(* and it stays as it is when the chip goes down.                          *)
Shared ==
  /\ alive
  /\ ETHERNET_CONNECTED' \in {ETHERNET_CONNECTED, 0, 1}
  /\ alive' = alive \/ (alive' = FALSE /\ ETHERNET_CONNECTED' = ETHERNET_CONNECTED)

ConnStep ==
  Firmware!Conn!Running(\/ Firmware!Conn!MainStep
                        \/ Firmware!Conn!EvtStep
                        \/ Firmware!Conn!MqttStep
                        \/ Firmware!Conn!DriverStep
                        \/ Firmware!Conn!CableChanges)

LEMMA CallShares ==
  ASSUME alive, NEW t, Firmware!Conn!CallStep(t)
  PROVE  Shared
BY DEF Firmware!Conn!CallStep, Firmware!Conn!CallOK, Firmware!Conn!CallFails,
   Firmware!Conn!Abort, Firmware!Conn!ethVars, Shared

LEMMA ConnShares ==
  ASSUME ConnStep
  PROVE  Shared
<1>0. alive
  BY DEF ConnStep, Firmware!Conn!Running
<1>1. CASE Firmware!Conn!MainStep
  <2>1. ASSUME NEW started \in BOOLEAN, Firmware!Conn!WifiInit(started) PROVE Shared
    BY <1>0, <2>1 DEF Firmware!Conn!WifiInit, Firmware!Conn!ethVars, Shared
  <2>2. CASE Firmware!Conn!MqttAppStart \/ Firmware!Conn!CreateTask
    BY <1>0, <2>2 DEF Firmware!Conn!MqttAppStart, Firmware!Conn!CreateTask,
       Firmware!Conn!ethVars, Shared
  <2>3. CASE Firmware!Conn!CallStep("main")
    BY <1>0, <2>3, CallShares
  <2> QED  BY <1>1, <2>1, <2>2, <2>3 DEF Firmware!Conn!MainStep
<1>2. CASE Firmware!Conn!EvtStep
  <2>1. CASE Firmware!Conn!Dispatch \/ Firmware!Conn!DelayOver
    BY <1>0, <2>1 DEF Firmware!Conn!Dispatch, Firmware!Conn!StaStart,
       Firmware!Conn!StaConnected, Firmware!Conn!StaDisconnected,
       Firmware!Conn!EthConnected, Firmware!Conn!EthDisconnected,
       Firmware!Conn!DelayOver, Firmware!Conn!ethVars, Shared
  <2>2. CASE Firmware!Conn!CallStep("evt")
    BY <1>0, <2>2, CallShares
  <2> QED  BY <1>2, <2>1, <2>2 DEF Firmware!Conn!EvtStep
<1>3. CASE Firmware!Conn!MqttStep
  BY <1>0, <1>3 DEF Firmware!Conn!MqttStep, Firmware!Conn!MqttConnected,
     Firmware!Conn!MqttDisconnected, Firmware!Conn!ethVars, Shared
<1>4. CASE Firmware!Conn!DriverStep \/ Firmware!Conn!CableChanges
  BY <1>0, <1>4 DEF Firmware!Conn!DriverStep, Firmware!Conn!LinkChanges,
     Firmware!Conn!Associate, Firmware!Conn!Disassociate,
     Firmware!Conn!CableChanges, Firmware!Conn!ethVars, Shared
<1> QED  BY <1>1, <1>2, <1>3, <1>4 DEF ConnStep, Firmware!Conn!Running

(* A step of the connectivity part is one the task's own specification     *)
(* lets others take: a panic, or a write of the flag.                      *)
LEMMA BesideOK ==
  ASSUME IInv, Shared, UNCHANGED <<pc, i, session, heap, pub, retained>>,
         late' = IF ETHERNET_CONNECTED' = 0 /\ ETHERNET_CONNECTED = 0 THEN late ELSE 0
  PROVE  Next
<1>1. ETHERNET_CONNECTED \in {0, 1} /\ (ETHERNET_CONNECTED = 1 => late = 0)
  BY DEF IInv, TypeOK, LateSoFar
<1>2. CASE alive' = alive
  <2>1. PICK f \in {0, 1} : f = ETHERNET_CONNECTED'
    BY <1>1 DEF Shared
  <2>2. SetFlag(f)
    BY <1>2, <2>1 DEF SetFlag, Shared, local
  <2> QED  BY <2>2 DEF Next
<1>3. CASE alive' = FALSE /\ ETHERNET_CONNECTED' = ETHERNET_CONNECTED
  <2>1. late' = late
    BY <1>1, <1>3
  <2>2. OtherPanics
    BY <1>3, <2>1 DEF OtherPanics, Panic, Shared, task, local
  <2> QED  BY <2>2 DEF Next
<1> QED  BY <1>2, <1>3 DEF Shared

(* The task exists only when app_main is done: only then may it panic.     *)
CreatedLast ==
  /\ net \in [Firmware!Conn!Tasks -> Firmware!Conn!Where]
  /\ pc # "absent" => net["main"] = "done"

FirmwareInv == IInv /\ CreatedLast

LEMMA FirmwareInit == Firmware!Init => Init /\ Firmware!Conn!Init /\ FirmwareInv
<1> SUFFICES ASSUME Firmware!Init PROVE Init /\ Firmware!Conn!Init /\ FirmwareInv
  OBVIOUS
<1>1. Init /\ Firmware!Conn!Init
  BY DEF Firmware!Init, Firmware!Poll!Init, Init, Index, Firmware!Poll!Index
<1>2. CreatedLast
  BY <1>1 DEF Init, Firmware!Conn!Init, CreatedLast, Firmware!Conn!Tasks,
     Firmware!Conn!Where, Firmware!Conn!Calls
<1> QED  BY <1>1, <1>2, InitIInv DEF FirmwareInv
LEMMA CallKeepsDone ==
  ASSUME NEW t \in {"main", "evt"}, Firmware!Conn!CallStep(t),
         net \in [Firmware!Conn!Tasks -> Firmware!Conn!Where]
  PROVE  /\ net' \in [Firmware!Conn!Tasks -> Firmware!Conn!Where]
         /\ net["main"] = "done" => net'["main"] = "done"
<1>1. CASE Firmware!Conn!CallFails(t)
  BY <1>1 DEF Firmware!Conn!CallFails, Firmware!Conn!Abort
<1>2. CASE Firmware!Conn!CallOK(t)
  <2>1. net[t] \in Firmware!Conn!Calls /\ net' = [net EXCEPT ![t] = Firmware!Conn!After(t)[net[t]]]
    BY <1>2 DEF Firmware!Conn!CallOK, Firmware!Conn!Goto
  <2>2. Firmware!Conn!After(t)[net[t]] \in Firmware!Conn!Where
    BY <2>1 DEF Firmware!Conn!After, Firmware!Conn!Where, Firmware!Conn!Calls
  <2>3. net' \in [Firmware!Conn!Tasks -> Firmware!Conn!Where]
    BY <2>1, <2>2 DEF Firmware!Conn!Tasks
  <2>4. net["main"] = "done" => t # "main"
    BY <2>1 DEF Firmware!Conn!Calls
  <2> QED  BY <2>1, <2>3, <2>4 DEF Firmware!Conn!Tasks
<1> QED  BY <1>1, <1>2 DEF Firmware!Conn!CallStep

LEMMA ConnKeepsDone ==
  ASSUME ConnStep, net \in [Firmware!Conn!Tasks -> Firmware!Conn!Where]
  PROVE  /\ net' \in [Firmware!Conn!Tasks -> Firmware!Conn!Where]
         /\ net["main"] = "done" => net'["main"] = "done"
<1> DEFINE Keeps == /\ net' \in [Firmware!Conn!Tasks -> Firmware!Conn!Where]
                    /\ net["main"] = "done" => net'["main"] = "done"
<1> SUFFICES Keeps
  OBVIOUS
<1>1. ASSUME NEW t \in {"main", "evt"}, Firmware!Conn!CallStep(t) PROVE Keeps
  BY <1>1, CallKeepsDone
<1>2. CASE \/ \E started \in BOOLEAN : Firmware!Conn!WifiInit(started)
           \/ Firmware!Conn!MqttAppStart
           \/ Firmware!Conn!CreateTask
  <2>1. net["main"] # "done"
    BY <1>2 DEF Firmware!Conn!WifiInit, Firmware!Conn!MqttAppStart, Firmware!Conn!CreateTask
  <2>2. PICK l \in {"mqtt_app_start", "netif_init", "done"} : net' = [net EXCEPT !["main"] = l]
    BY <1>2 DEF Firmware!Conn!WifiInit, Firmware!Conn!MqttAppStart, Firmware!Conn!CreateTask,
       Firmware!Conn!Goto
  <2>3. l \in Firmware!Conn!Where
    BY DEF Firmware!Conn!Where, Firmware!Conn!Calls
  <2> QED  BY <2>1, <2>2, <2>3 DEF Firmware!Conn!Tasks
<1>3. CASE Firmware!Conn!Dispatch \/ Firmware!Conn!DelayOver
  <2>1. net' = net \/ \E l \in {"delay", "netif_init"} : net' = [net EXCEPT !["evt"] = l]
    BY <1>3 DEF Firmware!Conn!Dispatch, Firmware!Conn!StaStart,
       Firmware!Conn!StaConnected, Firmware!Conn!StaDisconnected,
       Firmware!Conn!EthConnected, Firmware!Conn!EthDisconnected,
       Firmware!Conn!DelayOver, Firmware!Conn!Goto
  <2>2. {"delay", "netif_init"} \subseteq Firmware!Conn!Where
    BY DEF Firmware!Conn!Where, Firmware!Conn!Calls
  <2> QED  BY <2>1, <2>2 DEF Firmware!Conn!Tasks
<1>4. CASE Firmware!Conn!MqttStep \/ Firmware!Conn!DriverStep \/ Firmware!Conn!CableChanges
  BY <1>4 DEF Firmware!Conn!MqttStep, Firmware!Conn!MqttConnected,
     Firmware!Conn!MqttDisconnected, Firmware!Conn!DriverStep, Firmware!Conn!LinkChanges,
     Firmware!Conn!Associate, Firmware!Conn!Disassociate, Firmware!Conn!CableChanges
<1> HIDE DEF Keeps
<1>5. \/ Firmware!Conn!MainStep
      \/ Firmware!Conn!EvtStep
      \/ Firmware!Conn!MqttStep \/ Firmware!Conn!DriverStep \/ Firmware!Conn!CableChanges
  BY DEF ConnStep, Firmware!Conn!Running
<1>6. CASE Firmware!Conn!MainStep
  <2>1. CASE Firmware!Conn!CallStep("main")
    BY <1>1, <2>1
  <2> QED  BY <1>2, <1>6, <2>1 DEF Firmware!Conn!MainStep
<1>7. CASE Firmware!Conn!EvtStep
  <2>1. CASE Firmware!Conn!CallStep("evt")
    BY <1>1, <2>1
  <2> QED  BY <1>3, <1>7, <2>1 DEF Firmware!Conn!EvtStep
<1> QED  BY <1>4, <1>5, <1>6, <1>7

(* The steps of the task in the firmware are steps of opcua_task; that it  *)
(* needs the link and the broker only takes some away.                     *)
LEMMA RunIsRun == Firmware!Run => Run /\ pc # "absent"
<1> SUFFICES ASSUME Firmware!Run PROVE Run /\ pc # "absent"
  OBVIOUS
<1>1. CASE Firmware!Poll!Connect \/ Firmware!Poll!Gate \/ Firmware!Poll!NewName
           \/ Firmware!Poll!NameText \/ Firmware!Poll!CopyName \/ Firmware!Poll!Delay
  BY <1>1 DEF Firmware!Poll!Connect, Firmware!Poll!Gate, Firmware!Poll!NewName,
     Firmware!Poll!NameText, Firmware!Poll!CopyName, Firmware!Poll!Delay,
     Connect, Gate, NewName, NameText, CopyName, Delay, Run
<1>2. CASE Firmware!Poll!NameBad \/ Firmware!Poll!NameNotText \/ Firmware!Poll!ValueBad
           \/ Firmware!Poll!ValueOther
  BY <1>2 DEF Firmware!Poll!NameBad, Firmware!Poll!NameNotText, Firmware!Poll!ValueBad,
     Firmware!Poll!ValueOther, Firmware!Poll!Fail, Firmware!Poll!Advance,
     NameBad, NameNotText, ValueBad, ValueOther, Fail, Advance, Run
<1>3. ASSUME NEW t \in Firmware!Poll!Supported, NEW v \in Values, NEW delivered \in BOOLEAN,
             Firmware!Poll!Publish(t, v, delivered)
      PROVE  Run /\ pc # "absent"
  <2>1. Publish(t, v, delivered) /\ t \in Supported
    BY <1>3 DEF Firmware!Poll!Publish, Publish, Firmware!Poll!Advance, Advance,
       Firmware!Poll!Shown, Shown, Firmware!Poll!LowWord, LowWord,
       Firmware!Poll!Supported, Supported
  <2> QED  BY <2>1 DEF Run, Publish
<1> QED  BY <1>1, <1>2, <1>3 DEF Firmware!Run

(* What a step of the firmware is to each of the two parts.                *)
LEMMA PartsStep ==
  ASSUME FirmwareInv, Firmware!Next
  PROVE  /\ Next
         /\ Firmware!Conn!Next \/ UNCHANGED Firmware!Conn!vars
         /\ CreatedLast'
<1>1. IInv /\ net \in [Firmware!Conn!Tasks -> Firmware!Conn!Where]
      /\ (pc # "absent" => net["main"] = "done")
  BY DEF FirmwareInv, CreatedLast
<1>2. ASSUME ConnStep, UNCHANGED <<pc, i, session, heap, pub, retained>>,
             late' = IF ETHERNET_CONNECTED' = 0 /\ ETHERNET_CONNECTED = 0 THEN late ELSE 0
      PROVE  /\ Next
             /\ Firmware!Conn!Next \/ UNCHANGED Firmware!Conn!vars
             /\ CreatedLast'
  <2>1. Next
    BY <1>1, <1>2, ConnShares, BesideOK
  <2>2. Firmware!Conn!Next
    BY <1>2 DEF ConnStep, Firmware!Conn!Next, Firmware!Conn!Running
  <2>3. CreatedLast'
    BY <1>1, <1>2, ConnKeepsDone DEF CreatedLast, Firmware!Conn!Tasks, Firmware!Conn!Where,
       Firmware!Conn!Calls
  <2> QED  BY <2>1, <2>2, <2>3
<1>3. CASE Firmware!MainStep \/ Firmware!EvtStep \/ Firmware!MqttStep \/ Firmware!WorldStep
  <2>1. ConnStep
    BY <1>3 DEF Firmware!MainStep, Firmware!EvtStep, Firmware!MqttStep, Firmware!WorldStep,
       Firmware!Beside, ConnStep, Firmware!Conn!Running, Firmware!Conn!MainStep
  <2>2. /\ UNCHANGED <<pc, i, session, heap, pub, retained>>
        /\ late' = IF ETHERNET_CONNECTED' = 0 /\ ETHERNET_CONNECTED = 0 THEN late ELSE 0
    BY <1>3 DEF Firmware!MainStep, Firmware!EvtStep, Firmware!MqttStep, Firmware!WorldStep,
       Firmware!Beside, Firmware!pollOnly
  <2> QED  BY <1>2, <2>1, <2>2
<1>4. CASE Firmware!CreateTask
  <2>1. Firmware!Conn!Running(Firmware!Conn!CreateTask) /\ Start
    BY <1>4 DEF Firmware!CreateTask, Firmware!Poll!Start, Start
  <2>2. Next
    BY <2>1 DEF Next, Create, Firmware!Conn!Running, Firmware!Conn!CreateTask,
       Firmware!Conn!ethVars
  <2>3. ConnStep
    BY <2>1 DEF ConnStep, Firmware!Conn!Running, Firmware!Conn!MainStep
  <2>4. Firmware!Conn!Next
    BY <2>3 DEF ConnStep, Firmware!Conn!Next, Firmware!Conn!Running
  <2>5. net' = [net EXCEPT !["main"] = "done"]
    BY <2>1 DEF Firmware!Conn!Running, Firmware!Conn!CreateTask, Firmware!Conn!Goto
  <2>6. net' \in [Firmware!Conn!Tasks -> Firmware!Conn!Where] /\ net'["main"] = "done"
    BY <1>1, <2>3, <2>5, ConnKeepsDone DEF Firmware!Conn!Tasks
  <2>7. CreatedLast'
    BY <2>6 DEF CreatedLast, Firmware!Conn!Tasks, Firmware!Conn!Where, Firmware!Conn!Calls
  <2> QED  BY <2>2, <2>4, <2>7
<1>5. CASE Firmware!TaskStep
  <2>1. alive /\ UNCHANGED Firmware!connOnly
    BY <1>5 DEF Firmware!TaskStep
  <2>2. net' = net /\ UNCHANGED <<onceOnly, made, evq, dropped, cable, link, wifi,
                                  WIFI_CONNECTED, retry_cnt, mqtt>>
    BY <2>1 DEF Firmware!connOnly
  <2>3. CASE Firmware!Run /\ UNCHANGED <<alive, ETHERNET_CONNECTED>>
    <3>1. Run /\ pc # "absent"
      BY <2>3, RunIsRun
    <3>2. Next
      BY <2>1, <2>3, <3>1 DEF Next, TaskStep
    <3>3. UNCHANGED Firmware!Conn!vars
      BY <2>2, <2>3 DEF Firmware!Conn!vars, Firmware!Conn!ethVars, Firmware!Conn!wifiVars
    <3>4. CreatedLast'
      BY <1>1, <2>2, <3>1 DEF CreatedLast, Firmware!Conn!Tasks, Firmware!Conn!Where,
         Firmware!Conn!Calls
    <3> QED  BY <3>2, <3>3, <3>4
  <2>4. CASE Firmware!Poll!ConnectFails \/ Firmware!Poll!OutOfMemory
    <3>1. (ConnectFails \/ OutOfMemory) /\ Panic /\ pc # "absent"
      BY <2>4 DEF Firmware!Poll!ConnectFails, Firmware!Poll!OutOfMemory, Firmware!Poll!Panic,
         Firmware!Poll!task, Firmware!Poll!local, ConnectFails, OutOfMemory, Panic, task, local
    <3>2. Next
      BY <2>1, <3>1 DEF Next, TaskStep
    <3>3. Firmware!Conn!Running(Firmware!Conn!TaskPanics)
      BY <1>1, <2>1, <2>2, <3>1 DEF Panic, Firmware!Conn!Running, Firmware!Conn!TaskPanics,
         Firmware!Conn!Abort, Firmware!Conn!ethVars, Firmware!Conn!wifiVars
    <3>4. CreatedLast'
      BY <1>1, <2>2, <3>1 DEF CreatedLast, Panic, task, local, Firmware!Conn!Tasks,
         Firmware!Conn!Where, Firmware!Conn!Calls
    <3> QED  BY <3>2, <3>3, <3>4 DEF Firmware!Conn!Next
  <2> QED  BY <1>5, <2>3, <2>4 DEF Firmware!TaskStep
<1>6. CASE Firmware!Reboot
  <2>1. Firmware!Conn!Reboot /\ Restart
    BY <1>6 DEF Firmware!Reboot, Firmware!Poll!Restart, Restart, Index, Firmware!Poll!Index
  <2>2. Next
    BY <2>1 DEF Next, Reboot, Firmware!Conn!Reboot
  <2>3. CreatedLast'
    BY <2>1 DEF CreatedLast, Firmware!Conn!Reboot, Restart, Firmware!Conn!Tasks,
       Firmware!Conn!Where, Firmware!Conn!Calls
  <2> QED  BY <2>1, <2>2, <2>3 DEF Firmware!Conn!Next
<1> QED  BY <1>3, <1>4, <1>5, <1>6 DEF Firmware!Next

LEMMA FirmwareNext ==
  FirmwareInv /\ [Firmware!Next]_(Firmware!vars)
    => FirmwareInv' /\ [Next]_vars /\ [Firmware!Conn!Next]_(Firmware!Conn!vars)
<1> SUFFICES ASSUME FirmwareInv, [Firmware!Next]_(Firmware!vars)
             PROVE  FirmwareInv' /\ [Next]_vars /\ [Firmware!Conn!Next]_(Firmware!Conn!vars)
  OBVIOUS
<1>1. CASE Firmware!Next
  <2>1. Next /\ (Firmware!Conn!Next \/ UNCHANGED Firmware!Conn!vars) /\ CreatedLast'
    BY <1>1, PartsStep
  <2>2. IInv'
    BY <2>1, NextIInv DEF FirmwareInv
  <2> QED  BY <2>1, <2>2 DEF FirmwareInv
<1>2. CASE UNCHANGED Firmware!vars
  <2>1. UNCHANGED vars /\ UNCHANGED Firmware!Conn!vars /\ UNCHANGED <<net, pc>>
    BY <1>2 DEF Firmware!vars, Firmware!connOnly, Firmware!pollOnly, vars, task, local,
       Firmware!Conn!vars, Firmware!Conn!ethVars, Firmware!Conn!wifiVars
  <2>2. IInv'
    BY <2>1, NextIInv DEF FirmwareInv
  <2>3. CreatedLast'
    BY <2>1 DEF FirmwareInv, CreatedLast, Firmware!Conn!Tasks, Firmware!Conn!Where,
       Firmware!Conn!Calls
  <2> QED  BY <2>1, <2>2, <2>3 DEF FirmwareInv
<1> QED  BY <1>1, <1>2

(* Both invariants hold in every behaviour of the firmware.                *)
THEOREM FirmwareInvariance == Firmware!Spec => []FirmwareInv
  BY FirmwareInit, FirmwareNext, PTL DEF Firmware!Spec

(* In the firmware the task does only what its own specification allows:   *)
(* whatever start-up, the handlers and the panics do is a write of the     *)
(* flag or a restart.                                                      *)
THEOREM FirmwareRunsTask == Firmware!Spec => Firmware!ImplementsPollTask
<1>1. Firmware!Poll!Init <=> Init
  BY DEF Firmware!Poll!Init, Init, Firmware!Poll!Index, Index
<1>2. [Next]_vars => [Firmware!Poll!Next]_(Firmware!Poll!vars)
  BY DEF Create, Start, TaskStep, Run, Connect, ConnectFails, Gate, NewName,
     OutOfMemory, NameBad, NameNotText, NameText, CopyName, ValueBad,
     Publish, ValueOther, Delay, SetFlag, OtherPanics, Panic, Reboot,
     Restart, Advance, Fail, Shown, LowWord, Supported, Index, local, task,
     vars, Next, Firmware!Poll!Create, Firmware!Poll!Start,
     Firmware!Poll!TaskStep, Firmware!Poll!Run, Firmware!Poll!Connect,
     Firmware!Poll!ConnectFails, Firmware!Poll!Gate, Firmware!Poll!NewName,
     Firmware!Poll!OutOfMemory, Firmware!Poll!NameBad,
     Firmware!Poll!NameNotText, Firmware!Poll!NameText,
     Firmware!Poll!CopyName, Firmware!Poll!ValueBad, Firmware!Poll!Publish,
     Firmware!Poll!ValueOther, Firmware!Poll!Delay, Firmware!Poll!SetFlag,
     Firmware!Poll!OtherPanics, Firmware!Poll!Panic, Firmware!Poll!Reboot,
     Firmware!Poll!Restart, Firmware!Poll!Advance, Firmware!Poll!Fail,
     Firmware!Poll!Shown, Firmware!Poll!LowWord, Firmware!Poll!Supported,
     Firmware!Poll!Index, Firmware!Poll!local, Firmware!Poll!task,
     Firmware!Poll!vars, Firmware!Poll!Next
<1> QED  BY <1>1, <1>2, FirmwareInit, FirmwareNext, FirmwareInvariance, PTL
         DEF Firmware!Spec, Firmware!ImplementsPollTask

(* And the connectivity part does only what its own allows: the task never *)
(* takes the chip down before app_main is done.                            *)
THEOREM FirmwareRunsConnectivity == Firmware!Spec => Firmware!ImplementsConnectivity
  BY FirmwareInit, FirmwareNext, FirmwareInvariance, PTL
     DEF Firmware!Spec, Firmware!ImplementsConnectivity

(* So the bounds on what is published hold in the firmware as well.        *)
THEOREM FirmwareIsBounded == Firmware!Spec => [](PublishBudget /\ StaleFlagBound)
<1>1. FirmwareInv => PublishBudget /\ StaleFlagBound
  BY HeapAssumption DEF FirmwareInv, IInv, TypeOK, Budget, Held, PublishBudget,
     LateSoFar, StaleFlagBound
<1> QED  BY <1>1, FirmwareInvariance, PTL
=============================================================================
