------------------------------ MODULE PollTask ------------------------------
(***************************************************************************)
(* The FreeRTOS task opcua_task (main/app_main.c): it connects one OPC UA  *)
(* client, and then, while the Ethernet link is reported up, reads the     *)
(* display name and the value of every node of a fixed list and publishes  *)
(* them, one MQTT topic per node.                                          *)
(*                                                                         *)
(* What the module keeps of the task is its control (the gate on the link  *)
(* flag, the loop over the nodes, every early exit) and its use of the     *)
(* heap, because the task never frees what it allocates for a request.     *)
(* The client below it is abstract: a session that is open or lost, and    *)
(* service calls that return good or bad.                                  *)
(***************************************************************************)
EXTENDS Naturals

CONSTANTS
  N,          \* number of polled nodes: nodeIds[10]
  HeapSize,   \* blocks the heap can give this task after a boot
  Values,     \* values a node can have on the server
  NONE        \* a topic nothing was ever delivered to

ASSUME NAssumption == N \in Nat \ {0}
ASSUME HeapAssumption == HeapSize \in Nat
ASSUME ValuesAssumption == 0 \in Values

VARIABLES
  alive,               \* FALSE from a panic or abort() until the chip restarts
  ETHERNET_CONNECTED,  \* the flag eth_event_handler writes, 0 or 1
  pc,                  \* where the task is
  i,                   \* the node of the current iteration
  session,             \* what is left of the OPC UA session: none, open, lost
  heap,                \* free blocks
  pub,                 \* history: esp_mqtt_client_publish calls of this boot
  late,                \* history: those of them since the flag went down
  retained             \* external: the broker's retained payload of each topic

local == <<pc, i, session, heap>>
task == <<local, pub, late, retained>>
vars == <<alive, ETHERNET_CONNECTED, task>>

-----------------------------------------------------------------------------
Index == 0 .. N - 1

(* The variant types the task publishes. *)
Supported == {"FLOAT", "DOUBLE", "UINT16"}

PCs == {"absent", "connect", "gate", "newName", "awaitName", "copyName",
        "awaitValue", "delay"}

(* A payload remembers the value the server sent and the number printed.   *)
Payload == [type : Supported, read : Values, shown : Values]

(* *(float * )value->data of a double is its low word, which is 0 for the  *)
(* doubles that have at most 20 bits of mantissa, the ones modelled here.  *)
LowWord(v) == 0

Shown(t, v) == IF t = "DOUBLE" THEN LowWord(v) ELSE v

TypeOK ==
  /\ alive \in BOOLEAN
  /\ ETHERNET_CONNECTED \in {0, 1}
  /\ pc \in PCs
  /\ i \in Index
  /\ session \in {"none", "open", "lost"}
  /\ heap \in 0 .. HeapSize
  /\ pub \in Nat
  /\ late \in Nat
  /\ retained \in [Index -> Payload \cup {NONE}]

-----------------------------------------------------------------------------
Init ==
  /\ alive = TRUE
  /\ ETHERNET_CONNECTED = 0
  /\ pc = "absent"
  /\ i = 0
  /\ session = "none"
  /\ heap = HeapSize
  /\ pub = 0
  /\ late = 0
  /\ retained = [n \in Index |-> NONE]

(* The chip restarts: RAM is as the startup code leaves it, the broker     *)
(* keeps what it was sent.                                                 *)
Restart ==
  /\ pc' = "absent"
  /\ i' = 0
  /\ session' = "none"
  /\ heap' = HeapSize
  /\ pub' = 0
  /\ late' = 0
  /\ UNCHANGED retained

(* A panic: NULL is dereferenced, or the task function returned.           *)
Panic ==
  /\ alive' = FALSE
  /\ UNCHANGED <<ETHERNET_CONNECTED, task>>

(* xTaskCreate(&opcua_task, ...) in app_main.                              *)
Start ==
  /\ pc = "absent"
  /\ pc' = "connect"
  /\ UNCHANGED <<i, session, heap, pub, late, retained>>

(* UA_Client_connect succeeds, which it can only over a link that is up.   *)
Connect ==
  /\ pc = "connect"
  /\ session' = "open"
  /\ pc' = "gate"
  /\ UNCHANGED <<i, heap, pub, late, retained>>

(* It fails: the if has no else, the task function returns, and FreeRTOS   *)
(* aborts when a task function returns.                                    *)
ConnectFails ==
  /\ pc = "connect"
  /\ Panic

(* while (1) if (ETHERNET_CONNECTED == 1): with the flag down the task     *)
(* spins here without a delay, a step that changes nothing.                *)
Gate ==
  /\ pc = "gate"
  /\ ETHERNET_CONNECTED = 1
  /\ i' = 0
  /\ pc' = "newName"
  /\ UNCHANGED <<session, heap, pub, late, retained>>

(* readNameRequest.nodesToRead = UA_ReadValueId_new(), never freed.        *)
NewName_freed ==
  /\ pc = "newName"
  /\ heap > 0
  /\ pc' = "awaitName"
  /\ UNCHANGED <<i, session, heap, pub, late, retained>>

NewName ==
  /\ pc = "newName"
  /\ heap > 0
  /\ heap' = heap - 1
  /\ pc' = "awaitName"
  /\ UNCHANGED <<i, session, pub, late, retained>>

(* A failed allocation is dereferenced at once: the request of the name,   *)
(* the copy of the name, or the request of the value.                      *)
OutOfMemory ==
  /\ \/ pc = "newName" /\ heap = 0
     \/ pc = "copyName" /\ heap < 2
  /\ Panic

(* The end of the body of the for loop, and after the last node the delay. *)
Advance_noDelay ==
  IF i + 1 < N
    THEN i' = i + 1 /\ pc' = "newName"
    ELSE i' = 0 /\ pc' = "newName"

Advance ==
  IF i + 1 < N
    THEN i' = i + 1 /\ pc' = "newName"
    ELSE i' = i /\ pc' = "delay"

(* What a failed service call leaves of the session: the server refused    *)
(* the one request, or the client closed the connection. Nothing in the    *)
(* task opens it again.                                                    *)
Fail == session' \in IF session = "open" THEN {"open", "lost"} ELSE {session}

(* The first read: serviceResult is bad.                                   *)
NameBad ==
  /\ pc = "awaitName"
  /\ Fail
  /\ Advance
  /\ UNCHANGED <<heap, pub, late, retained>>

(* The name is not a LocalizedText (a bad status of the one result, say):  *)
(* the response is freed again.                                            *)
NameNotText ==
  /\ pc = "awaitName" /\ session = "open" /\ heap > 0
  /\ Advance
  /\ UNCHANGED <<session, heap, pub, late, retained>>

(* The name arrived; its response is held until the value is dealt with.   *)
NameText ==
  /\ pc = "awaitName" /\ session = "open" /\ heap > 0
  /\ heap' = heap - 1
  /\ pc' = "copyName"
  /\ UNCHANGED <<i, session, pub, late, retained>>

(* nodeName = UA_malloc(...) and readRequest.nodesToRead =                 *)
(* UA_ReadValueId_new(), neither of them ever freed.                       *)
CopyName_freed ==
  /\ pc = "copyName"
  /\ heap >= 2
  /\ heap' = heap - 1
  /\ pc' = "awaitValue"
  /\ UNCHANGED <<i, session, pub, late, retained>>

CopyName ==
  /\ pc = "copyName"
  /\ heap >= 2
  /\ heap' = heap - 2
  /\ pc' = "awaitValue"
  /\ UNCHANGED <<i, session, pub, late, retained>>

(* The second read: bad. Only the name's response is freed.                *)
ValueBad ==
  /\ pc = "awaitValue"
  /\ Fail
  /\ heap' = heap + 1
  /\ Advance
  /\ UNCHANGED <<pub, late, retained>>

(* A good value of a known type is printed and published, with QoS 0 and   *)
(* the retain flag: delivered, or dropped when the broker is not connected.*)
Publish(t, v, delivered) ==
  /\ pc = "awaitValue" /\ session = "open" /\ heap > 0
  /\ pub' = pub + 1
  /\ late' = IF ETHERNET_CONNECTED = 0 THEN late + 1 ELSE 0
  /\ retained' = IF delivered
                   THEN [retained EXCEPT ![i] =
                           [type |-> t, read |-> v, shown |-> Shown(t, v)]]
                   ELSE retained
  /\ heap' = heap + 1
  /\ Advance
  /\ UNCHANGED session

(* "Unsupported data type for Node": nothing is published.                 *)
ValueOther ==
  /\ pc = "awaitValue" /\ session = "open" /\ heap > 0
  /\ heap' = heap + 1
  /\ Advance
  /\ UNCHANGED <<session, pub, late, retained>>

(* vTaskDelay(500 ms), and back to while (1).                              *)
Delay ==
  /\ pc = "delay"
  /\ pc' = "gate"
  /\ UNCHANGED <<i, session, heap, pub, late, retained>>

-----------------------------------------------------------------------------
(* The steps that leave the chip running.                                  *)
Run ==
  \/ Connect
  \/ Gate
  \/ NewName
  \/ NameBad
  \/ NameNotText
  \/ NameText
  \/ CopyName
  \/ ValueBad
  \/ \E t \in Supported, v \in Values, delivered \in BOOLEAN :
       Publish(t, v, delivered)
  \/ ValueOther
  \/ Delay

TaskStep ==
  /\ alive
  /\ \/ Run /\ UNCHANGED <<alive, ETHERNET_CONNECTED>>
     \/ ConnectFails
     \/ OutOfMemory

Create == alive /\ Start /\ UNCHANGED <<alive, ETHERNET_CONNECTED>>

(* The event-loop task writes the flag whenever it likes (Connectivity).   *)
SetFlag(f) ==
  /\ alive
  /\ ETHERNET_CONNECTED' = f
  /\ late' = IF f = 0 /\ ETHERNET_CONNECTED = 0 THEN late ELSE 0
  /\ UNCHANGED <<alive, local, pub, retained>>

(* Another task aborts: the Ethernet handler or start-up (Connectivity).   *)
OtherPanics == alive /\ Panic

(* The panic handler prints and restarts the chip: all of RAM is lost.     *)
Reboot ==
  /\ ~alive
  /\ alive' = TRUE
  /\ ETHERNET_CONNECTED' = 0
  /\ Restart

Next ==
  \/ Create
  \/ TaskStep
  \/ \E f \in {0, 1} : SetFlag(f)
  \/ OtherPanics
  \/ Reboot

(* The client waits for the server. config.timeout ends the wait, but its  *)
(* deadline may lie past the last value of the clock it is compared with   *)
(* (ClientClock), and then only an answer or a broken connection does. The *)
(* calls of a lost session fail without waiting.                           *)
Waits == pc \in {"connect", "awaitName", "awaitValue"} /\ session # "lost"

(* The task runs whenever it is ready: nothing of higher priority spins,   *)
(* and every delay ends. Nothing is assumed of the server's answers.       *)
Fairness == WF_vars(Create) /\ WF_vars(~Waits /\ TaskStep) /\ WF_vars(Reboot)

Spec == Init /\ [][Next]_vars /\ Fairness

-----------------------------------------------------------------------------
(* The leak bounds the boot: every publish has cost three blocks that do   *)
(* not come back (two requests and the copy of the name), so no boot       *)
(* publishes more than a third of the heap, whatever the server answers.   *)
PublishBudget == 3 * pub + heap <= HeapSize

(* The link flag is read once per pass and never inside it: a pass that    *)
(* began before the link went down goes on, but it is the last one. At     *)
(* most N payloads are published on a flag that is down.                   *)
StaleFlagBound == ETHERNET_CONNECTED = 0 => late <= N

(* The task never reconnects. What ends a boot whose session is lost is    *)
(* the leak: every failing pass still takes its requests from the heap,    *)
(* until an allocation fails and the panic restarts the chip, unless the   *)
(* link flag goes down first and parks the task.                           *)
LostSessionEndsInReboot ==
  session = "lost" ~> (~alive \/ ETHERNET_CONNECTED = 0)
=============================================================================
