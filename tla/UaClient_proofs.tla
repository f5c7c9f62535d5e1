--------------------------- MODULE UaClient_proofs ---------------------------
(***************************************************************************)
(* Proofs about the client, with and without asynchronous calls, for any   *)
(* number of requests: types, that a callback runs at most once and is     *)
(* never lost, that the state a call leaves tells the truth about the      *)
(* connection, and that the renewals of an application that calls          *)
(* synchronously cost no answer.                                           *)
(*                                                                         *)
(* Neither invariant of the runs is inductive. CallbackOnce needs that an  *)
(* id is new when it is used (IdsUsed). SyncRenewalKeepsAnswers needs to   *)
(* know which token an OPN carries when it is read (OpnTokens), that the   *)
(* client's token is the server's or the one issued last (ChannelToken),   *)
(* and that without asynchronous calls nothing is under way but the answer *)
(* of the call in progress (OneAnswer).                                    *)
(***************************************************************************)
EXTENDS UaClient, TLAPS

(* What each wait is for, and what it has found.                           *)
Phases ==
  /\ conn = "ESTABLISHED" => state # "DISCONNECTED"
  /\ pc \in {"opn", "renew", "call"} => conn = "ESTABLISHED" /\ waiting = requestId
  /\ pc = "idle" <=> step = "none"
  /\ pc \in {"ack", "opn"} <=> step = "connect"
  /\ pc = "listen" => step = "run"
  /\ pc = "call" => step \in Services

(* The ids of the model suffice for the call in progress.                  *)
Renewal == IF renewDue THEN 1 ELSE 0
Budget ==
  /\ pc = "ack" => MayUse(4)
  /\ pc = "opn" => MayUse(3)
  /\ pc = "send" => MayUse(Need(step) + Renewal)
  /\ pc = "renew" => MayUse(Need(step))
  /\ pc = "call" /\ step = "getEndpoints" => MayUse(2 + Renewal)
  /\ pc = "call" /\ step = "createSession" => MayUse(1 + Renewal)

(* Every id in use has been used up: the next one is new.                  *)
IdsUsed ==
  /\ \A r \in issued \cup open : r <= requestId
  /\ \A i \in 1 .. Len(inbox) : inbox[i].id <= requestId

(* The OPN that is waited for carries the token the server has issued.     *)
OpnTokens ==
  \A i \in 1 .. Len(inbox) : inbox[i].type = "OPN" /\ inbox[i].id = waiting =>
     /\ pc = "opn" => inbox[i].tok = srvToken
     /\ pc = "renew" => srvNext # 0 /\ inbox[i].tok = srvNext

(* The server takes what the client sends over an open channel.            *)
ChannelToken ==
  net /\ conn = "ESTABLISHED" /\ pc # "opn"
    => token = srvToken \/ (srvNext # 0 /\ token = srvNext)

(* Without asynchronous calls: only a synchronous call has a request or an *)
(* answer under way, one of the two, under the token the client knows.     *)
IsAnswer(i) == inbox[i].type = "MSG"
OneAnswer ==
  issued = {} =>
    /\ \A r \in open : pc = "call" /\ r = waiting /\ token = srvToken
    /\ \A i \in 1 .. Len(inbox) : IsAnswer(i) =>
          pc = "call" /\ open = {} /\ inbox[i].tok = token
    /\ \A i, j \in 1 .. Len(inbox) : IsAnswer(i) /\ IsAnswer(j) => i = j

IInv ==
  TypeOK /\ Phases /\ Budget /\ IdsUsed /\ CallbackOnce /\ OpnTokens /\ ChannelToken
    /\ OneAnswer

-----------------------------------------------------------------------------
(* What arrives, what is read and what is left.                            *)
LEMMA AppendFacts ==
  ASSUME NEW q \in Seq(Messages), NEW m \in Messages
  PROVE  /\ Append(q, m) \in Seq(Messages)
         /\ Len(Append(q, m)) = Len(q) + 1
         /\ \A i \in 1 .. Len(q) : Append(q, m)[i] = q[i]
         /\ Append(q, m)[Len(q) + 1] = m
  OBVIOUS

LEMMA TailFacts ==
  ASSUME NEW q \in Seq(Messages), q # <<>>
  PROVE  /\ Head(q) \in Messages /\ Head(q) = q[1] /\ Len(q) \in Nat /\ 1 \in 1 .. Len(q)
         /\ Tail(q) \in Seq(Messages)
         /\ Len(Tail(q)) = Len(q) - 1
         /\ \A i \in 1 .. Len(Tail(q)) : i + 1 \in 1 .. Len(q) /\ Tail(q)[i] = q[i + 1]
  OBVIOUS

LEMMA OneFacts ==
  ASSUME NEW m \in Messages
  PROVE  <<m>> \in Seq(Messages) /\ Len(<<m>>) = 1 /\ <<m>>[1] = m
  OBVIOUS

LEMMA EmptyFacts == <<>> \in Seq(Messages) /\ Len(<<>>) = 0
  OBVIOUS

LEMMA IdFacts ==
  /\ 0 \in Ids
  /\ \A r \in Ids : r \in Nat /\ r <= MaxRequests
  /\ \A r \in Ids, n \in Nat : r + n <= MaxRequests => r + n \in Ids
  BY ClientAssumption DEF Ids

LEMMA MessageFacts ==
  \A m \in Messages : m.id \in Ids /\ m.tok \in Ids /\ m.id \in Nat
  BY IdFacts DEF Messages

(* Nothing is left of a connection that is closed.                         *)
LEMMA ClosedKeeps ==
  ASSUME IInv, Closing, CallbackOnce', called' \subseteq Ids, calls' \subseteq Ids, issued' = issued
  PROVE  IInv'
  <1> USE DEF IInv
  <1>1. /\ state' = "DISCONNECTED" /\ conn' = "CLOSED" /\ ~net' /\ inbox' = <<>> /\ open' = {}
        /\ pc' = "idle" /\ step' = "none" /\ waiting' = 0 /\ token' \in {0, token}
        /\ UNCHANGED <<renewDue, requestId, srvToken, srvNext>>
        /\ net' = FALSE /\ timely' = TRUE
    BY DEF Closing, CloseSocket, Return
  <1>2. TypeOK'
    BY <1>1, IdFacts, EmptyFacts DEF TypeOK, States, Steps
  <1>3. Phases' /\ Budget' /\ OpnTokens' /\ ChannelToken' /\ OneAnswer'
    BY <1>1, EmptyFacts DEF Phases, Budget, OpnTokens, ChannelToken, OneAnswer
  <1>4. IdsUsed'
    BY <1>1, EmptyFacts DEF IdsUsed
  <1> QED
    BY <1>2, <1>3, <1>4

LEMMA CloseKeeps ==
  ASSUME IInv, Close \/ CloseLost
  PROVE  IInv'
  <1> USE DEF IInv, history
  <1>1. /\ state' = "DISCONNECTED" /\ conn' = "CLOSED" /\ ~net' /\ inbox' = <<>> /\ open' = {}
        /\ pc' = "idle" /\ step' = "none" /\ waiting' = 0 /\ token' \in {0, token}
        /\ UNCHANGED <<renewDue, requestId, calls, srvToken, srvNext, called, issued>>
        /\ net' = FALSE /\ timely' = TRUE
    BY DEF Close, Closing, CloseLost, CloseSocket, Return
  <1>2. TypeOK'
    BY <1>1, IdFacts, EmptyFacts DEF TypeOK, States, Steps
  <1>3. Phases' /\ Budget' /\ OpnTokens' /\ ChannelToken' /\ OneAnswer'
    BY <1>1, EmptyFacts DEF Phases, Budget, OpnTokens, ChannelToken, OneAnswer
  <1>4. IdsUsed' /\ CallbackOnce'
    BY <1>1, EmptyFacts DEF IdsUsed, CallbackOnce
  <1> QED
    BY <1>2, <1>3, <1>4

(* The request ids are left: a step that needs n of them has n.            *)
LEMMA NextId ==
  ASSUME TypeOK, NEW n \in Nat \ {0}, MayUse(n)
  PROVE  /\ requestId + 1 \in Ids /\ requestId \in Nat /\ MaxRequests \in Nat
         /\ requestId + 1 + (n - 1) <= MaxRequests
  BY ClientAssumption DEF TypeOK, MayUse, Ids

LEMMA NeedFacts ==
  /\ \A s : Need(s) \in 1 .. 4
  /\ Need("getEndpoints") = 3 /\ Need("createSession") = 2 /\ Need("connect") = 4
  BY DEF Need

LEMMA ConnectKeeps ==
  ASSUME IInv, Connect \/ ConnectRefused
  PROVE  IInv'
  <1> USE DEF IInv, channel, thread, server, history
  <1>1. CASE Connect
    <2> DEFINE ack == Msg("ACK", 0, 0, TRUE)
    <2>a. ack \in Messages /\ ack.type = "ACK" /\ ack.id = 0
      BY IdFacts DEF Msg, Messages
    <2> HIDE DEF ack
    <2>1. <<ack>> \in Seq(Messages) /\ Len(<<ack>>) = 1 /\ <<ack>>[1] = ack
      BY <2>a, OneFacts
    <2>2. /\ pc = "idle" /\ state = "DISCONNECTED" /\ requestId + 4 <= MaxRequests
          /\ token' = 0 /\ conn' = "OPENING" /\ net' = TRUE /\ inbox' = <<ack>>
          /\ open' = {} /\ srvToken' = 0 /\ srvNext' = 0 /\ pc' = "ack" /\ step' = "connect"
          /\ UNCHANGED <<state, renewDue, requestId, waiting, timely, calls, called, issued>>
      BY <1>1 DEF Connect, MayUse, Need, ack
    <2>3. TypeOK'
      BY <2>1, <2>2, IdFacts DEF TypeOK, Steps
    <2>4. Phases' /\ Budget' /\ CallbackOnce'
      BY <2>2 DEF Phases, Budget, CallbackOnce, MayUse
    <2>5. IdsUsed' /\ OpnTokens' /\ OneAnswer'
      BY <2>a, <2>1, <2>2, IdFacts DEF IdsUsed, OpnTokens, OneAnswer, IsAnswer, TypeOK
    <2> QED
      BY <2>2, <2>3, <2>4, <2>5 DEF ChannelToken
  <1>2. CASE ConnectRefused
    <2>1. TypeOK' /\ Phases' /\ ChannelToken'
      BY <1>2, IdFacts DEF ConnectRefused, TypeOK, Phases, ChannelToken
    <2>2. Budget' /\ IdsUsed' /\ CallbackOnce' /\ OpnTokens'
      BY <1>2 DEF ConnectRefused, Budget, IdsUsed, CallbackOnce, OpnTokens, MayUse, Renewal
    <2>3. OneAnswer'
      BY <1>2 DEF ConnectRefused, OneAnswer, IsAnswer, Phases
    <2> QED
      BY <2>1, <2>2, <2>3
  <1> QED
    BY <1>1, <1>2

(* What the client decides without sending or reading anything.            *)
LEMMA LocalKeeps ==
  ASSUME IInv, Service \/ AsyncService \/ RunAsync \/ Disconnect \/ Listen \/ ListenOver
  PROVE  IInv'
  <1> USE DEF IInv, channel, thread, server, history
  <1>1. /\ UNCHANGED <<conn, token, renewDue, requestId, calls, net, inbox, open, srvToken,
                       srvNext, called, issued>>
        /\ waiting' \in {0, waiting} /\ timely' \in BOOLEAN \cup {timely}
        /\ \/ pc = "idle" /\ pc' = "send"
           \/ pc = "send" /\ pc' = "listen"
           \/ pc = "listen" /\ pc' = "idle"
    BY DEF Service, AsyncService, RunAsync, Call, Disconnect, Listen, ListenOver, Return,
           Block
  <1>2. /\ pc' = "send" => /\ step' \in {"service", "async", "run", "closeSession"}
                           /\ requestId + Need(step') + Renewal <= MaxRequests
        /\ pc' = "listen" => step' = "run" /\ step = "run"
        /\ pc' = "idle" => step' = "none"
        /\ state' = state \/ state' = "SECURECHANNEL"
    BY ClientAssumption DEF Service, AsyncService, RunAsync, Call, Disconnect, Listen, ListenOver, Return,
           Block, MayUse, Need, Renewal, TypeOK, Ids
  <1>3. TypeOK'
    BY <1>1, <1>2, IdFacts DEF TypeOK, States, Steps, Services
  <1>4. Phases'
    BY <1>1, <1>2 DEF Phases
  <1>5. Budget'
    <2>1. Renewal' = Renewal /\ requestId \in Nat /\ Renewal \in Nat
      BY <1>1, IdFacts DEF Renewal, TypeOK
    <2>2. Need(step)' \in 1 .. 4 /\ Need(step)' = Need(step')
      BY NeedFacts
    <2> QED
      BY <1>1, <1>2, <2>1, <2>2 DEF Budget, MayUse
  <1>6. IdsUsed' /\ CallbackOnce' /\ OpnTokens' /\ ChannelToken'
    BY <1>1 DEF IdsUsed, CallbackOnce, OpnTokens, ChannelToken
  <1>7. OneAnswer'
    BY <1>1 DEF OneAnswer, IsAnswer
  <1> QED
    BY <1>3, <1>4, <1>5, <1>6, <1>7

LEMMA RenewalDueKeeps ==
  ASSUME IInv, RenewalDue
  PROVE  IInv'
  <1> USE DEF IInv, channel, thread, server, history
  <1>1. /\ UNCHANGED <<state, conn, token, pc, step, requestId, waiting, timely, calls, net, inbox, open,
                       srvToken, srvNext, called, issued>>
        /\ pc # "send" /\ MayUse(Need(step) + 1) /\ renewDue' = TRUE
    BY DEF RenewalDue
  <1>2. TypeOK'
    BY <1>1 DEF TypeOK
  <1>3. Budget'
    <2>1. Renewal' = 1 /\ requestId \in Nat /\ MaxRequests \in Nat
      BY <1>1, IdFacts, ClientAssumption DEF Renewal, TypeOK
    <2> QED
      BY <1>1, <2>1, NeedFacts DEF Budget, MayUse
  <1>4. Phases' /\ IdsUsed' /\ CallbackOnce' /\ OpnTokens' /\ ChannelToken'
    BY <1>1 DEF Phases, IdsUsed, CallbackOnce, OpnTokens, ChannelToken
  <1>5. OneAnswer'
    BY <1>1 DEF OneAnswer, IsAnswer
  <1> QED
    BY <1>2, <1>3, <1>4, <1>5

-----------------------------------------------------------------------------
(* q holds only messages that have arrived; an answer has arrived.         *)
Unread(q) == \A i \in 1 .. Len(q) : \E j \in 1 .. Len(inbox) : q[i] = inbox[j]
AnswerUnread == \E j \in 1 .. Len(inbox) : IsAnswer(j)

LEMMA UnreadFacts ==
  ASSUME TypeOK, IdsUsed, NEW q, Unread(q), NEW i \in 1 .. Len(q)
  PROVE  /\ q[i] \in Messages /\ q[i].id \in Nat /\ q[i].id <= requestId
         /\ q[i].type = "MSG" => AnswerUnread
  <1>1. PICK j \in 1 .. Len(inbox) : q[i] = inbox[j]
    BY DEF Unread
  <1>2. inbox[j] \in Messages /\ inbox[j].id <= requestId
    BY DEF IdsUsed, TypeOK
  <1>3. inbox[j].type = "MSG" => AnswerUnread
    BY DEF AnswerUnread, IsAnswer
  <1> QED
    BY <1>1, <1>2, <1>3, MessageFacts

LEMMA OldIds ==
  ASSUME TypeOK, IdsUsed, NEW r \in issued \cup open \cup calls \cup called, CallbackOnce
  PROVE  r \in Nat /\ r <= requestId /\ r <= requestId + 1 /\ r # requestId + 1
  <1>1. r \in Ids /\ requestId \in Ids /\ r <= requestId
    BY DEF TypeOK, IdsUsed, CallbackOnce
  <1> QED
    BY <1>1, IdFacts

(* An OPN gets a new id, so no other one can be taken for its answer.      *)
LEMMA SendOPNFacts ==
  ASSUME TypeOK, IdsUsed, requestId + 1 \in Ids, NEW renew \in BOOLEAN,
         NEW q \in Seq(Messages), Unread(q),
         SendOPN(requestId + 1, renew, q)
  PROVE  /\ requestId' = requestId + 1 /\ waiting' = requestId + 1
         /\ inbox' \in Seq(Messages) /\ srvToken' \in Ids /\ srvNext' \in Ids
         /\ renew => srvToken' = srvToken /\ (srvNext # 0 => srvNext' = srvNext)
         /\ \A i \in 1 .. Len(inbox') :
               /\ inbox'[i].id <= requestId'
               /\ inbox'[i].type = "MSG" => AnswerUnread
               /\ inbox'[i].type = "OPN" /\ inbox'[i].id = waiting' =>
                     IF renew THEN srvNext' # 0 /\ inbox'[i].tok = srvNext'
                              ELSE inbox'[i].tok = srvToken'
  <1> DEFINE tok == IF renew /\ srvNext # 0 THEN srvNext ELSE requestId + 1
             m == Msg("OPN", requestId + 1, tok, TRUE)
  <1>1. requestId \in Nat /\ srvToken \in Ids /\ srvNext \in Ids /\ requestId + 1 # 0
    BY IdFacts DEF TypeOK
  <1>2. tok \in Ids /\ tok # 0
    BY <1>1
  <1>3. m \in Messages /\ m.type = "OPN" /\ m.id = requestId + 1 /\ m.tok = tok
    BY <1>2 DEF Msg, Messages
  <1>4. /\ requestId' = requestId + 1 /\ waiting' = requestId + 1
        /\ ~net => inbox' = q /\ srvToken' = srvToken /\ srvNext' = srvNext
        /\ net => /\ inbox' = Append(q, m)
                  /\ renew => srvNext' = tok /\ srvToken' = srvToken
                  /\ ~renew => srvToken' = tok /\ srvNext' = 0
    <2> HIDE DEF m
    <2>1. m = Msg("OPN", requestId + 1, tok, TRUE)
      BY DEF m
    <2> HIDE DEF tok
    <2>2. tok = IF renew /\ srvNext # 0 THEN srvNext ELSE requestId + 1
      BY DEF tok
    <2> QED
      BY <2>1, <2>2 DEF SendOPN, TypeOK
  <1>5. ASSUME NEW i \in 1 .. Len(q)
        PROVE  /\ q[i].id <= requestId + 1 /\ q[i].id # requestId + 1
               /\ q[i].type = "MSG" => AnswerUnread
    BY <1>1, UnreadFacts
  <1>7. renew /\ srvNext # 0 => tok = srvNext
    OBVIOUS
  <1>8. /\ inbox' \in Seq(Messages)
        /\ \A i \in 1 .. Len(inbox') :
              \/ i \in 1 .. Len(q) /\ inbox'[i] = q[i]
              \/ net /\ inbox'[i] = m
    <2> HIDE DEF m
    <2>1. CASE net
      <3>1. inbox' = Append(q, m) /\ Len(q) \in Nat
        BY <1>4, <2>1
      <3>2. /\ inbox' \in Seq(Messages) /\ Len(inbox') = Len(q) + 1
            /\ \A i \in 1 .. Len(q) : inbox'[i] = q[i]
            /\ inbox'[Len(q) + 1] = m
        BY <1>3, <3>1, AppendFacts
      <3> QED
        BY <2>1, <3>1, <3>2
    <2>2. CASE ~net
      BY <1>4, <2>2
    <2> QED
      BY <2>1, <2>2
  <1> HIDE DEF m, tok
  <1>9. srvToken' \in Ids /\ srvNext' \in Ids
    BY <1>1, <1>2, <1>4, IdFacts
  <1>10. renew => srvToken' = srvToken /\ (srvNext # 0 => srvNext' = srvNext)
    BY <1>4, <1>7
  <1>11. ASSUME NEW i \in 1 .. Len(inbox')
         PROVE  /\ inbox'[i].id <= requestId'
                /\ inbox'[i].type = "MSG" => AnswerUnread
                /\ inbox'[i].type = "OPN" /\ inbox'[i].id = waiting' =>
                     IF renew THEN srvNext' # 0 /\ inbox'[i].tok = srvNext'
                              ELSE inbox'[i].tok = srvToken'
    <2>1. CASE i \in 1 .. Len(q) /\ inbox'[i] = q[i]
      <3>1. /\ q[i].id <= requestId + 1 /\ q[i].id # requestId + 1
            /\ q[i].type = "MSG" => AnswerUnread
        BY <1>5, <2>1
      <3> QED
        BY <1>4, <2>1, <3>1
    <2>2. CASE net /\ inbox'[i] = m
      <3>1. inbox'[i].id = requestId' /\ requestId' \in Nat /\ inbox'[i].type # "MSG" /\ inbox'[i].tok = tok
        BY <1>1, <1>3, <1>4, <2>2
      <3>2. renew => srvNext' # 0 /\ tok = srvNext'
        BY <1>2, <1>4, <2>2
      <3>3. ~renew => tok = srvToken'
        BY <1>4, <2>2
      <3> QED
        BY <3>1, <3>2, <3>3
    <2> QED
      BY <1>8, <2>1, <2>2
  <1> QED
    BY <1>4, <1>8, <1>9, <1>10, <1>11

LEMMA AcknowledgedKeeps ==
  ASSUME IInv, Acknowledged
  PROVE  IInv'
  <1> USE DEF IInv, history
  <1>1. /\ pc = "ack" /\ inbox # <<>> /\ conn' = "ESTABLISHED" /\ state' = "CONNECTED" /\ pc' = "opn"
        /\ timely' \in BOOLEAN \cup {timely}
        /\ SendOPN(requestId + 1, FALSE, Tail(inbox))
        /\ UNCHANGED <<token, renewDue, step, calls, net, open, called, issued>>
    BY DEF Acknowledged, Block
  <1>2. /\ requestId + 1 \in Ids /\ requestId \in Nat /\ MaxRequests \in Nat
        /\ requestId + 4 <= MaxRequests /\ inbox \in Seq(Messages)
    BY <1>1, NextId DEF Budget, MayUse, TypeOK
  <1>3. Tail(inbox) \in Seq(Messages) /\ Unread(Tail(inbox))
    BY <1>1, <1>2, TailFacts DEF Unread
  <1>4. /\ requestId' = requestId + 1 /\ waiting' = requestId + 1
        /\ inbox' \in Seq(Messages) /\ srvToken' \in Ids /\ srvNext' \in Ids
        /\ \A i \in 1 .. Len(inbox') :
              /\ inbox'[i].id <= requestId'
              /\ inbox'[i].type = "MSG" => AnswerUnread
              /\ inbox'[i].type = "OPN" /\ inbox'[i].id = waiting' => inbox'[i].tok = srvToken'
    BY <1>1, <1>2, <1>3, SendOPNFacts
  <1>5. TypeOK' /\ Phases'
    BY <1>1, <1>2, <1>4 DEF TypeOK, Phases, States
  <1>6. Budget' /\ OpnTokens' /\ ChannelToken' /\ CallbackOnce'
    BY <1>1, <1>2, <1>4 DEF Budget, OpnTokens, ChannelToken, CallbackOnce, MayUse
  <1>7. IdsUsed'
    BY <1>1, <1>4, OldIds DEF IdsUsed
  <1>8. OneAnswer'
    BY <1>1, <1>4 DEF OneAnswer, IsAnswer, AnswerUnread
  <1> QED
    BY <1>5, <1>6, <1>7, <1>8

LEMMA RenewKeeps ==
  ASSUME IInv, Renew
  PROVE  IInv'
  <1> USE DEF IInv, history, channel
  <1>1. /\ pc = "send" /\ renewDue /\ conn = "ESTABLISHED" /\ pc' = "renew"
        /\ timely' \in BOOLEAN \cup {timely}
        /\ SendOPN(requestId + 1, TRUE, inbox)
        /\ UNCHANGED <<state, conn, token, renewDue, step, calls, net, open, called, issued>>
    BY DEF Renew, Block
  <1>2. Need(step) \in Nat /\ MayUse(Need(step) + 1)
    BY <1>1, NeedFacts DEF Budget, Renewal
  <1>3. /\ requestId + 1 \in Ids /\ requestId \in Nat /\ MaxRequests \in Nat
        /\ requestId + 1 + Need(step) <= MaxRequests /\ inbox \in Seq(Messages)
    BY <1>2, NextId DEF TypeOK
  <1>a. Unread(inbox)
    BY DEF Unread
  <1>4. /\ requestId' = requestId + 1 /\ waiting' = requestId + 1
        /\ inbox' \in Seq(Messages) /\ srvToken' \in Ids /\ srvNext' \in Ids
        /\ srvToken' = srvToken /\ (srvNext # 0 => srvNext' = srvNext)
        /\ \A i \in 1 .. Len(inbox') :
              /\ inbox'[i].id <= requestId'
              /\ inbox'[i].type = "MSG" => AnswerUnread
              /\ inbox'[i].type = "OPN" /\ inbox'[i].id = waiting' =>
                    srvNext' # 0 /\ inbox'[i].tok = srvNext'
    BY <1>1, <1>3, <1>a, SendOPNFacts
  <1>5. TypeOK' /\ Phases'
    BY <1>1, <1>3, <1>4 DEF TypeOK, Phases
  <1>6. Budget' /\ CallbackOnce'
    BY <1>1, <1>3, <1>4 DEF Budget, CallbackOnce, MayUse
  <1>7. OpnTokens' /\ ChannelToken'
    BY <1>1, <1>4 DEF OpnTokens, ChannelToken
  <1>8. IdsUsed'
    BY <1>1, <1>4, OldIds DEF IdsUsed
  <1>9. OneAnswer'
    BY <1>1, <1>4 DEF OneAnswer, IsAnswer, AnswerUnread
  <1> QED
    BY <1>5, <1>6, <1>7, <1>8, <1>9

(* A request gets a new id; without asynchronous calls it is the only one. *)
LEMMA RequestKeeps ==
  ASSUME IInv, Request
  PROVE  IInv'
  <1> USE DEF IInv, history, channel
  <1> DEFINE id == requestId + 1
  <1>1. /\ pc = "send" /\ ~renewDue /\ conn = "ESTABLISHED" /\ step \in Services \cup {"async"}
        /\ requestId' = id /\ inbox' = inbox /\ timely' \in BOOLEAN \cup {timely}
        /\ open' = IF net THEN open \cup {id} ELSE open
        /\ \/ net /\ srvNext # 0 /\ token = srvNext /\ srvToken' = srvNext /\ srvNext' = 0
           \/ ~(net /\ srvNext # 0 /\ token = srvNext) /\ UNCHANGED <<srvToken, srvNext>>
        /\ \/ /\ step = "async" /\ pc' = "idle" /\ step' = "none" /\ waiting' = 0
              /\ calls' = calls \cup {id} /\ issued' = issued \cup {id}
           \/ step # "async" /\ pc' = "call" /\ waiting' = id /\ UNCHANGED <<step, calls, issued>>
        /\ UNCHANGED <<state, conn, token, renewDue, net, called>>
    BY DEF Request, SendRequest, Return, Block
  <1>2. Need(step) \in 1 .. 4 /\ MayUse(Need(step)) /\ Renewal = 0
    BY <1>1, NeedFacts DEF Budget, Renewal
  <1>3. /\ id \in Ids /\ requestId \in Nat /\ MaxRequests \in Nat /\ id # 0
        /\ id + (Need(step) - 1) <= MaxRequests /\ inbox \in Seq(Messages)
    BY <1>2, NextId DEF TypeOK
  <1> HIDE DEF id
  <1>4. \A r \in issued \cup open \cup calls \cup called : r \in Nat /\ r <= id /\ r # id
    BY OldIds DEF id
  <1>5. \A i \in 1 .. Len(inbox) : inbox[i].id <= id /\ inbox[i].id # id
    <2>1. Unread(inbox) /\ requestId \in Nat
      BY <1>3 DEF Unread
    <2>2. ASSUME NEW i \in 1 .. Len(inbox)
          PROVE  inbox[i].id \in Nat /\ inbox[i].id <= requestId
      BY <2>1, UnreadFacts
    <2> QED
      BY <2>1, <2>2 DEF id
  <1>6. TypeOK' /\ Phases'
    BY <1>1, <1>3, IdFacts DEF TypeOK, Phases, Steps
  <1>7. Budget'
    <2>1. Renewal' = 0 /\ id \in Nat
      BY <1>1, <1>2, <1>3, IdFacts DEF Renewal
    <2>2. /\ step = "getEndpoints" => id + 2 <= MaxRequests
          /\ step = "createSession" => id + 1 <= MaxRequests
      BY <1>3, <2>1, NeedFacts
    <2> QED
      BY <1>1, <2>1, <2>2 DEF Budget, MayUse
  <1>8. IdsUsed' /\ CallbackOnce'
    BY <1>1, <1>3, <1>4, <1>5, IdFacts DEF IdsUsed, CallbackOnce
  <1>9. OpnTokens' /\ ChannelToken'
    BY <1>1 DEF OpnTokens, ChannelToken
  <1>10. OneAnswer'
    <2> SUFFICES ASSUME issued' = {}
                 PROVE  OneAnswer'
      BY DEF OneAnswer
    <2>1. issued = {} /\ pc' = "call" /\ waiting' = id
      BY <1>1
    <2>2. open = {} /\ ~AnswerUnread
      BY <1>1, <2>1 DEF OneAnswer, AnswerUnread
    <2>3. net => token = srvToken'
      BY <1>1 DEF ChannelToken
    <2> QED
      BY <1>1, <2>1, <2>2, <2>3 DEF OneAnswer, AnswerUnread, IsAnswer
  <1> QED
    BY <1>6, <1>7, <1>8, <1>9, <1>10

-----------------------------------------------------------------------------
(* What the world does with what is under way.                             *)
LEMMA WorldKeeps ==
  ASSUME IInv, ServerAnswers \/ ServerErrs \/ Break
  PROVE  IInv'
  <1> USE DEF IInv, history, channel, thread, server
  <1>1. /\ UNCHANGED <<state, conn, token, renewDue, pc, step, requestId, waiting, timely, calls, srvToken,
                       srvNext, called, issued>>
        /\ open' \subseteq open /\ (net' = net \/ net' = FALSE)
    BY DEF ServerAnswers, ServerErrs, Break
  <1>a. (net' => net) /\ net' \in BOOLEAN
    <2>1. net \in BOOLEAN
      BY DEF TypeOK
    <2>2. CASE net' = net
      BY <2>1, <2>2
    <2>3. CASE net' = FALSE
      BY <2>3
    <2> QED
      BY <1>1, <2>2, <2>3
  <1>2. Phases' /\ CallbackOnce' /\ ChannelToken'
    BY <1>1, <1>a DEF Phases, CallbackOnce, ChannelToken
  <1>3. Budget'
    BY <1>1 DEF Budget, MayUse, Renewal
  <1>4. ASSUME inbox' \in Seq(Messages)
        PROVE  TypeOK'
    BY <1>1, <1>a, <1>4 DEF TypeOK
  <1>5. ASSUME ServerAnswers
        PROVE  IInv'
    <2>1. PICK id \in open : \E ok \in BOOLEAN :
            open' = open \ {id} /\ inbox' = Append(inbox, Msg("MSG", id, srvToken, ok))
      BY <1>5 DEF ServerAnswers
    <2>2. PICK ok \in BOOLEAN :
            open' = open \ {id} /\ inbox' = Append(inbox, Msg("MSG", id, srvToken, ok))
      BY <2>1
    <2> DEFINE m == Msg("MSG", id, srvToken, ok)
    <2>3. m \in Messages /\ m.type = "MSG" /\ m.id = id /\ m.tok = srvToken
      BY DEF TypeOK, Msg, Messages
    <2>4. inbox' = Append(inbox, m) /\ open' = open \ {id}
      BY <2>2
    <2> HIDE DEF m
    <2>5. /\ inbox' \in Seq(Messages) /\ Len(inbox') = Len(inbox) + 1 /\ Len(inbox) \in Nat
          /\ \A i \in 1 .. Len(inbox) : inbox'[i] = inbox[i]
          /\ inbox'[Len(inbox) + 1] = m
      BY <2>3, <2>4, AppendFacts DEF TypeOK
    <2>6. \A i \in 1 .. Len(inbox') :
            \/ i \in 1 .. Len(inbox) /\ inbox'[i] = inbox[i]
            \/ i = Len(inbox) + 1 /\ inbox'[i] = m
      BY <2>5
    <2>7. IdsUsed' /\ OpnTokens'
      BY <1>1, <2>3, <2>6 DEF IdsUsed, OpnTokens
    <2>8. OneAnswer'
      <3> SUFFICES ASSUME issued' = {}
                   PROVE  OneAnswer'
        BY DEF OneAnswer
      <3>1. issued = {} /\ pc' = "call" /\ id = waiting /\ srvToken = token /\ open = {id}
        BY <1>1 DEF OneAnswer
      <3>2. ~AnswerUnread
        BY <3>1 DEF OneAnswer, AnswerUnread
      <3>3. open' = {} /\ token' = token
        BY <1>1, <2>4, <3>1
      <3>4. \A i \in 1 .. Len(inbox') : IsAnswer(i)' => i = Len(inbox) + 1 /\ inbox'[i] = m
        BY <2>6, <3>2 DEF AnswerUnread, IsAnswer
      <3> QED
        BY <2>3, <3>1, <3>3, <3>4 DEF OneAnswer
    <2> QED
      BY <1>2, <1>3, <1>4, <2>5, <2>7, <2>8
  <1>6. ASSUME ServerErrs
        PROVE  IInv'
    <2> DEFINE m == Msg("ERR", 0, 0, FALSE)
    <2>1. m \in Messages /\ m.type = "ERR" /\ m.id = 0 /\ inbox' = <<m>> /\ open' = open /\ inbox = <<>>
      BY <1>6, IdFacts DEF ServerErrs, Msg, Messages
    <2> HIDE DEF m
    <2>2. inbox' \in Seq(Messages) /\ Len(inbox') = 1 /\ inbox'[1] = m
      BY <2>1, OneFacts
    <2>3. \A i \in 1 .. Len(inbox') : inbox'[i] = m
      BY <2>2
    <2>4. IdsUsed' /\ OpnTokens'
      BY <1>1, <2>1, <2>3, IdFacts DEF IdsUsed, OpnTokens, TypeOK
    <2>5. OneAnswer'
      BY <1>1, <2>1, <2>3 DEF OneAnswer, IsAnswer
    <2> QED
      BY <1>2, <1>3, <1>4, <2>2, <2>4, <2>5
  <1>7. ASSUME Break
        PROVE  IInv'
    <2>1. open' = {} /\ (inbox' = inbox \/ inbox' = <<>>)
      BY <1>7 DEF Break
    <2>2. inbox' \in Seq(Messages)
      BY <2>1, EmptyFacts DEF TypeOK
    <2>3. IdsUsed' /\ OpnTokens'
      BY <1>1, <2>1, EmptyFacts DEF IdsUsed, OpnTokens
    <2>4. OneAnswer'
      BY <1>1, <2>1, EmptyFacts DEF OneAnswer, IsAnswer
    <2> QED
      BY <1>2, <1>3, <1>4, <2>2, <2>3, <2>4
  <1> QED
    BY <1>5, <1>6, <1>7

-----------------------------------------------------------------------------
(* Reading. What is left keeps what was said of every message.             *)
LEMMA ReadFacts ==
  ASSUME TypeOK, IdsUsed, inbox # <<>>, inbox' = Tail(inbox), requestId' = requestId
  PROVE  /\ Head(inbox) \in Messages /\ Head(inbox) = inbox[1] /\ 1 \in 1 .. Len(inbox)
         /\ inbox' \in Seq(Messages)
         /\ \A i \in 1 .. Len(inbox') :
               /\ i + 1 \in 1 .. Len(inbox) /\ inbox'[i] = inbox[i + 1] /\ i + 1 # 1
               /\ inbox'[i].id <= requestId'
  <1>1. inbox \in Seq(Messages)
    BY DEF TypeOK
  <1>2. /\ inbox' \in Seq(Messages) /\ Head(inbox) \in Messages /\ Head(inbox) = inbox[1]
        /\ 1 \in 1 .. Len(inbox)
        /\ \A i \in 1 .. Len(inbox') : i + 1 \in 1 .. Len(inbox) /\ inbox'[i] = inbox[i + 1]
    BY <1>1, TailFacts
  <1>3. ASSUME NEW i \in 1 .. Len(inbox')
        PROVE  i + 1 # 1
    OBVIOUS
  <1> QED
    BY <1>2, <1>3 DEF IdsUsed

(* The channel is opened, or renewed: the token is the one issued.         *)
LEMMA OpenedKeeps ==
  ASSUME IInv, inbox # <<>>, Opened(Head(inbox)) \/ Renewed(Head(inbox))
  PROVE  IInv'
  <1> USE DEF IInv, server, history
  <1> DEFINE m == Head(inbox)
  <1>1. /\ m.type = "OPN" /\ m.id = waiting /\ token' = m.tok /\ renewDue' = FALSE
        /\ inbox' = Tail(inbox) /\ pc' = "send" /\ waiting' = 0 /\ timely' \in BOOLEAN \cup {timely}
        /\ \/ /\ pc = "opn" /\ state' = "SECURECHANNEL" /\ calls' = {}
              /\ called' = called \cup calls /\ step' = "getEndpoints"
           \/ /\ pc = "renew" /\ UNCHANGED <<state, step, calls, called>>
        /\ UNCHANGED <<conn, requestId, net, open, srvToken, srvNext, issued>>
    BY DEF Opened, Renewed, GoOn
  <1>2. /\ m \in Messages /\ m = inbox[1] /\ 1 \in 1 .. Len(inbox) /\ inbox' \in Seq(Messages)
        /\ \A i \in 1 .. Len(inbox') :
              /\ i + 1 \in 1 .. Len(inbox) /\ inbox'[i] = inbox[i + 1]
              /\ inbox'[i].id <= requestId'
    BY <1>1, ReadFacts
  <1> HIDE DEF m
  <1>3. m.tok \in Ids
    BY <1>2, MessageFacts
  <1>4. TypeOK'
    BY <1>1, <1>2, <1>3, IdFacts DEF TypeOK, States, Steps, Services, Handshake
  <1>5. Phases'
    BY <1>1 DEF Phases
  <1>6. Budget'
    <2>1. Renewal' = 0 /\ Need(step') \in 1 .. 4
      BY <1>1, NeedFacts DEF Renewal
    <2>2. CASE pc = "opn"
      BY <1>1, <2>1, <2>2, NeedFacts DEF Budget, MayUse
    <2>3. CASE pc = "renew"
      BY <1>1, <2>1, <2>3 DEF Budget, MayUse
    <2> QED
      BY <1>1, <2>2, <2>3
  <1>7. IdsUsed' /\ CallbackOnce'
    BY <1>1, <1>2 DEF IdsUsed, CallbackOnce
  <1>8. OpnTokens' /\ ChannelToken'
    BY <1>1, <1>2 DEF OpnTokens, ChannelToken
  <1>9. OneAnswer'
    BY <1>1, <1>2 DEF OneAnswer, IsAnswer
  <1> QED
    BY <1>4, <1>5, <1>6, <1>7, <1>8, <1>9

(* The answer of a synchronous call: nothing else was under way, unless    *)
(* there are asynchronous calls.                                           *)
LEMMA AnsweredKeeps ==
  ASSUME IInv, inbox # <<>>, Answered(Head(inbox))
  PROVE  IInv'
  <1> USE DEF IInv, server, history, channel
  <1> DEFINE m == Head(inbox)
  <1>1. CASE Close
    BY <1>1, CloseKeeps
  <1>2. CASE ~Close
    <2>1. /\ m.type = "MSG" /\ pc = "call" /\ inbox' = Tail(inbox)
          /\ waiting' = 0 /\ timely' \in BOOLEAN \cup {timely}
          /\ \/ /\ step = "getEndpoints" /\ step' = "createSession" /\ pc' = "send" /\ state' = state
             \/ /\ step = "createSession" /\ step' = "activateSession" /\ pc' = "send" /\ state' = state
             \/ /\ step' = "none" /\ pc' = "idle" /\ state' \in {state, "SESSION"}
          /\ UNCHANGED <<conn, token, renewDue, requestId, calls, net, open, srvToken, srvNext,
                         called, issued>>
      BY <1>2 DEF Answered, After, Return, Handshake
    <2>2. /\ m = inbox[1] /\ 1 \in 1 .. Len(inbox) /\ inbox' \in Seq(Messages)
          /\ \A i \in 1 .. Len(inbox') :
                /\ i + 1 \in 1 .. Len(inbox) /\ inbox'[i] = inbox[i + 1] /\ i + 1 # 1
                /\ inbox'[i].id <= requestId'
      BY <2>1, ReadFacts
    <2> HIDE DEF m
    <2>3. TypeOK'
      BY <2>1, <2>2, IdFacts DEF TypeOK, States, Steps, Services, Handshake
    <2>4. Phases'
      BY <2>1 DEF Phases
    <2>5. Budget'
      <3>1. Renewal' = Renewal
        BY <2>1 DEF Renewal
      <3>2. /\ pc' = "send" /\ step' = "createSession" => MayUse(2 + Renewal)
            /\ pc' = "send" /\ step' = "activateSession" => MayUse(1 + Renewal)
        BY <2>1 DEF Budget
      <3>3. Need("createSession") = 2 /\ Need("activateSession") = 1
        BY DEF Need
      <3> QED
        BY <2>1, <3>1, <3>2, <3>3 DEF Budget, MayUse
    <2>6. IdsUsed' /\ CallbackOnce' /\ OpnTokens' /\ ChannelToken'
      BY <2>1, <2>2 DEF IdsUsed, CallbackOnce, OpnTokens, ChannelToken
    <2>7. OneAnswer'
      <3> SUFFICES ASSUME issued' = {}
                   PROVE  OneAnswer'
        BY DEF OneAnswer
      <3>1. IsAnswer(1) /\ issued = {}
        BY <2>1, <2>2 DEF IsAnswer
      <3>2. open = {} /\ \A i \in 1 .. Len(inbox) : IsAnswer(i) => i = 1
        BY <2>2, <3>1 DEF OneAnswer
      <3>3. \A i \in 1 .. Len(inbox') : ~IsAnswer(i)'
        BY <2>2, <3>2 DEF IsAnswer
      <3> QED
        BY <2>1, <3>2, <3>3 DEF OneAnswer
    <2> QED
      BY <2>3, <2>4, <2>5, <2>6, <2>7
  <1> QED
    BY <1>1, <1>2

LEMMA AsyncAnsweredKeeps ==
  ASSUME IInv, inbox # <<>>, AsyncAnswered(Head(inbox))
  PROVE  IInv'
  <1> USE DEF IInv, server, history, channel, thread
  <1> DEFINE m == Head(inbox)
  <1>0. CASE Closing
    <2>1. m.id \in calls /\ calls' = calls \ {m.id} /\ called' = called \cup {m.id} /\ issued' = issued
      BY DEF AsyncAnswered
    <2>2. CallbackOnce' /\ called' \subseteq Ids /\ calls' \subseteq Ids
      BY <2>1 DEF CallbackOnce, TypeOK
    <2> QED
      BY <1>0, <2>1, <2>2, ClosedKeeps
  <1> SUFFICES ASSUME ~Closing PROVE IInv'
    BY <1>0
  <1>1. /\ m.id \in calls /\ calls' = calls \ {m.id} /\ called' = called \cup {m.id}
        /\ inbox' = Tail(inbox)
        /\ UNCHANGED <<state, conn, token, renewDue, pc, step, requestId, waiting, timely, net, open,
                       srvToken, srvNext, issued>>
    BY DEF AsyncAnswered
  <1>2. /\ inbox' \in Seq(Messages)
        /\ \A i \in 1 .. Len(inbox') :
              /\ i + 1 \in 1 .. Len(inbox) /\ inbox'[i] = inbox[i + 1]
              /\ inbox'[i].id <= requestId'
    BY <1>1, ReadFacts
  <1> HIDE DEF m
  <1>3. TypeOK' /\ Phases' /\ CallbackOnce' /\ ChannelToken'
    BY <1>1, <1>2 DEF TypeOK, Phases, CallbackOnce, ChannelToken
  <1>4. Budget'
    BY <1>1 DEF Budget, MayUse, Renewal
  <1>5. IdsUsed' /\ OpnTokens'
    BY <1>1, <1>2 DEF IdsUsed, OpnTokens
  <1>6. issued' # {}
    BY <1>1 DEF CallbackOnce
  <1> QED
    BY <1>3, <1>4, <1>5, <1>6 DEF OneAnswer

-----------------------------------------------------------------------------
LEMMA InitHolds == Init => IInv
  <1> SUFFICES ASSUME Init PROVE IInv
    OBVIOUS
  <1>1. TypeOK /\ Phases
    BY IdFacts, EmptyFacts DEF Init, TypeOK, Phases, States, Steps
  <1>2. Budget /\ IdsUsed /\ CallbackOnce /\ OpnTokens /\ ChannelToken /\ OneAnswer
    BY EmptyFacts DEF Init, Budget, IdsUsed, CallbackOnce, OpnTokens, ChannelToken, OneAnswer
  <1> QED
    BY <1>1, <1>2 DEF IInv

LEMMA ReceiveKeeps ==
  ASSUME IInv, Receive
  PROVE  IInv'
  <1> DEFINE m == Head(inbox)
  <1>1. inbox # <<>> /\ (Opened(m) \/ Renewed(m) \/ Answered(m) \/ AsyncAnswered(m) \/ Rejected(m))
    BY DEF Receive
  <1>2. CASE Opened(m) \/ Renewed(m)
    BY <1>1, <1>2, OpenedKeeps
  <1>3. CASE Answered(m)
    BY <1>1, <1>3, AnsweredKeeps
  <1>4. CASE AsyncAnswered(m)
    BY <1>1, <1>4, AsyncAnsweredKeeps
  <1>5. CASE Rejected(m)
    BY <1>5, CloseKeeps DEF Rejected
  <1> QED
    BY <1>1, <1>2, <1>3, <1>4, <1>5

(* A message that cannot be sent closes the client; an asynchronous one    *)
(* only closes the socket.                                                 *)
LEMMA SendFailsKeeps ==
  ASSUME IInv, SendFails
  PROVE  IInv'
  <1> USE DEF IInv
  <1>1. CASE Close
    BY <1>1, CloseKeeps
  <1>2. CASE ~Close
    <2>1. /\ conn' = "CLOSED" /\ net' = FALSE /\ inbox' = <<>> /\ open' = {}
          /\ pc' = "idle" /\ step' = "none" /\ waiting' = 0 /\ timely' = TRUE
          /\ UNCHANGED <<state, token, renewDue, requestId, calls, srvToken, srvNext, called, issued>>
      BY <1>2 DEF SendFails, CloseSocket, Return
    <2>2. TypeOK'
      BY <2>1, IdFacts, EmptyFacts DEF TypeOK, Steps
    <2>3. Phases' /\ Budget' /\ OpnTokens' /\ ChannelToken' /\ OneAnswer'
      BY <2>1, EmptyFacts DEF Phases, Budget, OpnTokens, ChannelToken, OneAnswer
    <2>4. IdsUsed' /\ CallbackOnce'
      BY <2>1, EmptyFacts DEF IdsUsed, CallbackOnce
    <2> QED
      BY <2>2, <2>3, <2>4
  <1> QED
    BY <1>1, <1>2

(* Every step keeps the invariant.                                         *)
LEMMA StepKeeps == IInv /\ [Next]_vars => IInv'
  <1> SUFFICES ASSUME IInv, [Next]_vars PROVE IInv'
    OBVIOUS
  <1>1. CASE Application
    BY <1>1, ConnectKeeps, LocalKeeps DEF Application
  <1>2. CASE Library
    <2>1. CASE Acknowledged \/ Renew \/ Request \/ Listen \/ ListenOver
      BY <2>1, AcknowledgedKeeps, RenewKeeps, RequestKeeps, LocalKeeps
    <2>2. CASE RenewFails \/ RenewUnconnected \/ Timeout \/ Lost
      BY <2>2, CloseKeeps DEF RenewFails, RenewUnconnected, Timeout, Lost
    <2>3. CASE SendFails \/ Receive
      BY <2>3, SendFailsKeeps, ReceiveKeeps
    <2> QED
      BY <1>2, <2>1, <2>2, <2>3 DEF Library
  <1>3. CASE World
    BY <1>3, RenewalDueKeeps, WorldKeeps DEF World
  <1>4. CASE UNCHANGED vars
    <2>1. TypeOK' /\ Phases' /\ IdsUsed' /\ CallbackOnce'
      BY <1>4 DEF IInv, vars, channel, thread, server, history, TypeOK, Phases, IdsUsed, CallbackOnce
    <2>2. Budget' /\ OpnTokens' /\ ChannelToken' /\ OneAnswer'
      BY <1>4 DEF IInv, vars, channel, thread, server, history, Budget, MayUse, Renewal, OpnTokens,
                  ChannelToken, OneAnswer, IsAnswer
    <2> QED
      BY <2>1, <2>2 DEF IInv
  <1> QED
    BY <1>1, <1>2, <1>3, <1>4 DEF Next

THEOREM Invariance == Spec => []IInv
  BY InitHolds, StepKeeps, PTL DEF Spec

-----------------------------------------------------------------------------
(* The variables keep their types; in particular the ids of a run suffice. *)
THEOREM TypeCorrect == Spec => []TypeOK
  <1>1. IInv => TypeOK
    BY DEF IInv
  <1> QED
    BY <1>1, Invariance, PTL

(* An asynchronous call is in the list or has been called back, and not    *)
(* both, across answers, closing and connecting again: processAsyncResponse*)
(* and UA_Client_AsyncService_removeAll.                                   *)
THEOREM CalledBackOnce == Spec => []CallbackOnce
  <1>1. IInv => CallbackOnce
    BY DEF IInv
  <1> QED
    BY <1>1, Invariance, PTL

(* What an application that calls synchronously comes to read is secured   *)
(* with the token its client knows, however often the channel is renewed.  *)
THEOREM NoAnswerRefused == Spec => []SyncRenewalKeepsAnswers
  <1>1. IInv => SyncRenewalKeepsAnswers
    <2> SUFFICES ASSUME IInv, issued = {}, inbox # <<>>
                 PROVE  KnownToken(Head(inbox))
      BY DEF SyncRenewalKeepsAnswers
    <2>1. Head(inbox) = inbox[1] /\ 1 \in 1 .. Len(inbox)
      BY TailFacts DEF IInv, TypeOK
    <2> QED
      BY <2>1 DEF IInv, OneAnswer, IsAnswer, KnownToken
  <1> QED
    BY <1>1, Invariance, PTL

(* A synchronous call ends DISCONNECTED exactly when it leaves no socket:  *)
(* UA_Client_close closes both, and nothing but an asynchronous request    *)
(* that cannot be sent closes the socket alone.                            *)
THEOREM TruthTold == Spec => StateIsTruth
  <1>1. IInv /\ [Next]_vars =>
          [pc # "idle" /\ pc' = "idle" /\ step \notin {"async", "run"}
             => (state' = "DISCONNECTED" <=> conn' = "CLOSED")]_vars
    <2> SUFFICES ASSUME IInv, Next, pc # "idle", pc' = "idle", step \notin {"async", "run"}
                 PROVE  state' = "DISCONNECTED" <=> conn' = "CLOSED"
      OBVIOUS
    <2>1. CASE Closing \/ CloseLost
      BY <2>1 DEF Closing, CloseLost, CloseSocket
    <2>2. CASE ~Closing /\ ~CloseLost
      <3>0. ~Close
        BY <2>2 DEF Close
      <3>1. ~Application
        BY DEF Application, Connect, ConnectRefused, Service, AsyncService, RunAsync, Call, Disconnect
      <3>2. ~World
        BY DEF World, RenewalDue, ServerAnswers, ServerErrs, Break, thread
      <3>3. pc = "listen" => step = "run"
        BY DEF IInv, Phases
      <3>4. Receive
        BY <2>2, <3>0, <3>1, <3>2, <3>3 DEF Next, Library, Acknowledged, Renew, RenewFails, RenewUnconnected,
             Request, Listen, SendFails, Timeout, ListenOver, Lost, Block, GoOn
      <3> DEFINE m == Head(inbox)
      <3>5. Opened(m) \/ Renewed(m) \/ Answered(m) \/ AsyncAnswered(m) \/ Rejected(m)
        BY <3>4 DEF Receive
      <3>6. ~Opened(m) /\ ~Renewed(m) /\ ~AsyncAnswered(m) /\ ~Rejected(m)
        BY <2>2, <3>0 DEF Opened, Renewed, GoOn, AsyncAnswered, Rejected, thread
      <3>7. Answered(m)
        BY <3>5, <3>6
      <3>8. conn = "ESTABLISHED" /\ state # "DISCONNECTED"
        BY <3>7 DEF Answered, IInv, Phases
      <3>9. conn' = conn /\ state' \in {state, "SESSION"}
        BY <2>2, <3>0, <3>7 DEF Answered, channel
      <3> QED
        BY <3>8, <3>9
    <2> QED
      BY <2>1, <2>2
  <1> QED
    BY <1>1, Invariance, PTL DEF Spec, StateIsTruth
=============================================================================
