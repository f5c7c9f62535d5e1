------------------------------ MODULE UaClient ------------------------------
(***************************************************************************)
(* The OPC UA client of open62541 as the gateway's task drives it, and the *)
(* asynchronous calls of the same client: connecting (TCP, HEL/ACK, OPN,   *)
(* session), service calls, renewal of the SecureChannel, disconnecting,   *)
(* and what is closed when a step fails.                                   *)
(*                                                                         *)
(* The client is single threaded: pc is what its thread is blocked on.     *)
(* The connection is a FIFO that can break; the server answers requests in *)
(* any order, late or never. It is taken from the server half of the same  *)
(* file for what concerns the client: it goes on using a token until the   *)
(* client uses the next one (checkSymHeader, revolveTokens), and answers   *)
(* an OPN with a token or closes (processOPN). A message arrives whole and *)
(* in a packet of its own.                                                 *)
(***************************************************************************)
EXTENDS Naturals, Sequences

CONSTANTS
  Async,        \* the application uses asynchronous calls
  MaxRequests   \* bound of the model: the request ids a run can use

ASSUME ClientAssumption == Async \in BOOLEAN /\ MaxRequests \in Nat

VARIABLES
  state,       \* client->state
  conn,        \* client->connection.state
  token,       \* client->channel.securityToken.tokenId, 0 when reset
  renewDue,    \* nextChannelRenewal has passed
  pc,          \* idle, or what the client is blocked on
  step,        \* the request in progress
  requestId,   \* client->requestId
  waiting,     \* rd.requestId: the response waited for, 0 for none
  timely,      \* the clock reaches the time at which the wait is over
  calls,       \* ids of client->asyncServiceCalls
  net,         \* external: the socket's connection is up
  inbox,       \* external: what the server sent and the client has not read
  open,        \* external: requests the server has not answered
  srvToken,    \* external: the token the server uses
  srvNext,     \* external: the token it has issued and not yet seen used
  called,      \* history: ids whose callback has run
  issued       \* history: ids of all asynchronous calls

channel == <<state, conn, token, renewDue>>
thread == <<pc, step, requestId, waiting, timely>>
server == <<open, srvToken, srvNext>>
history == <<called, issued>>
vars == <<channel, thread, calls, net, inbox, server, history>>

-----------------------------------------------------------------------------
States == {"DISCONNECTED", "CONNECTED", "SECURECHANNEL", "SESSION"}
ChannelStates == {"SECURECHANNEL", "SESSION"}  \* state >= SECURECHANNEL

Ids == 0 .. MaxRequests

(* The services of a connect, then those the application asks for.         *)
Handshake == {"getEndpoints", "createSession", "activateSession"}
Services == Handshake \cup {"service", "closeSession"}
Steps == Services \cup {"none", "connect", "async", "run"}

(* OPN and MSG carry the request they answer and, for a MSG, the token it  *)
(* is secured with, for an OPN the token it issues. ERR stands for every   *)
(* message the client cannot use: an ERR, a wrong type, an undecodable one.*)
Messages == [type : {"ACK", "OPN", "MSG", "ERR"}, id : Ids, tok : Ids, ok : BOOLEAN]
Msg(t, r, k, good) == [type |-> t, id |-> r, tok |-> k, ok |-> good]

TypeOK ==
  /\ state \in States
  /\ conn \in {"CLOSED", "OPENING", "ESTABLISHED"}
  /\ token \in Ids
  /\ renewDue \in BOOLEAN
  /\ pc \in {"idle", "ack", "opn", "send", "renew", "call", "listen"}
  /\ step \in Steps
  /\ requestId \in Ids
  /\ waiting \in Ids
  /\ timely \in BOOLEAN
  /\ calls \subseteq Ids
  /\ net \in BOOLEAN
  /\ inbox \in Seq(Messages)
  /\ open \subseteq Ids
  /\ srvToken \in Ids
  /\ srvNext \in Ids
  /\ called \subseteq Ids
  /\ issued \subseteq Ids

(* UA_Client_new. nextChannelRenewal is 0, a time that has passed.         *)
Init ==
  /\ state = "DISCONNECTED" /\ conn = "CLOSED"
  /\ token = 0 /\ renewDue = TRUE
  /\ pc = "idle" /\ step = "none"
  /\ requestId = 0 /\ waiting = 0 /\ timely = TRUE
  /\ calls = {}
  /\ net = FALSE /\ inbox = <<>>
  /\ open = {} /\ srvToken = 0 /\ srvNext = 0
  /\ called = {} /\ issued = {}

-----------------------------------------------------------------------------
(* Closing.                                                                *)

(* connection.close: the socket is shut down and closed.                   *)
CloseSocket ==
  /\ conn' = "CLOSED"
  /\ net' = FALSE
  /\ inbox' = <<>>
  /\ open' = {}

(* The thread blocks until a message comes or a time of the clock, which   *)
(* is cut to 16 bits: some times lie behind its last value (ClientClock).  *)
(* Only the wait for the ACK ends with its first recv(), by real time.     *)
Block(where) == pc' = where /\ timely' \in BOOLEAN

(* It has what it waited for, and goes on; or the call in progress returns *)
(* to the application.                                                     *)
GoOn == pc' = "send" /\ waiting' = 0 /\ timely' = TRUE
Return == pc' = "idle" /\ step' = "none" /\ waiting' = 0 /\ timely' = TRUE

(* UA_Client_close. The channel's token is reset only when a channel was   *)
(* open; asynchronous calls stay in the list until the next connect.       *)
Closing_keepsSocket ==
  /\ state' = "DISCONNECTED"
  /\ token' = IF state \in ChannelStates THEN 0 ELSE token
  /\ Return
  /\ UNCHANGED <<conn, net, inbox, open, renewDue, requestId, srvToken, srvNext>>

Closing ==
  /\ state' = "DISCONNECTED"
  /\ token' = IF state \in ChannelStates THEN 0 ELSE token
  /\ CloseSocket
  /\ Return
  /\ UNCHANGED <<renewDue, requestId, srvToken, srvNext>>

Close == Closing /\ UNCHANGED <<calls, history>>

(* receiveServiceResponse after BADCONNECTIONCLOSED: the state is set to   *)
(* DISCONNECTED before UA_Client_close, which then leaves the token.       *)
CloseLost ==
  /\ state' = "DISCONNECTED"
  /\ CloseSocket
  /\ Return
  /\ UNCHANGED <<token, renewDue, requestId, calls, srvToken, srvNext, called, issued>>

-----------------------------------------------------------------------------
(* Sending.                                                                *)

(* A message written to the socket reaches the server, or is lost in a     *)
(* connection that broke meanwhile. The server answers an OPN at once with *)
(* a new token; a request waits for its answer, and the first one under    *)
(* the issued token makes that the server's.                               *)
SendRequest(id) ==
  /\ requestId' = id
  /\ open' = IF net THEN open \cup {id} ELSE open
  /\ IF net /\ srvNext # 0 /\ token = srvNext
       THEN srvToken' = srvNext /\ srvNext' = 0
       ELSE UNCHANGED <<srvToken, srvNext>>
  /\ UNCHANGED inbox

(* Token ids only have to be new: the id of the request serves. A renewal  *)
(* asked for again before the token was used issues the same one.          *)
SendOPN(id, renew, unread) ==
  LET tok == IF renew /\ srvNext # 0 THEN srvNext ELSE id
  IN  /\ requestId' = id
      /\ waiting' = id
      /\ IF ~net THEN inbox' = unread /\ UNCHANGED <<srvToken, srvNext>>
         ELSE /\ inbox' = Append(unread, Msg("OPN", id, tok, TRUE))
              /\ IF renew THEN srvNext' = tok /\ UNCHANGED srvToken
                          ELSE srvToken' = tok /\ srvNext' = 0

(* The ids a call may still need; the model's bound leaves it that many.   *)
Need(s) == CASE s = "connect"         -> 4
             [] s = "getEndpoints"    -> 3
             [] s = "createSession"   -> 2
             [] OTHER                 -> 1
MayUse(n) == requestId + n <= MaxRequests

-----------------------------------------------------------------------------
(* UA_Client_connectInternal. With a client that is CONNECTED or more it   *)
(* returns GOOD at once and changes nothing.                               *)
Connect ==
  /\ pc = "idle" /\ state = "DISCONNECTED" /\ MayUse(Need("connect"))
  /\ token' = 0
  /\ conn' = "OPENING"
  /\ net' = TRUE
  /\ inbox' = <<Msg("ACK", 0, 0, TRUE)>>
  /\ open' = {} /\ srvToken' = 0 /\ srvNext' = 0
  /\ pc' = "ack" /\ step' = "connect"
  /\ UNCHANGED <<state, renewDue, requestId, waiting, timely, calls, history>>

(* No TCP connection: UA_Client_close, which has nothing to close.         *)
ConnectRefused ==
  /\ pc = "idle" /\ state = "DISCONNECTED"
  /\ token' = 0
  /\ conn' = "CLOSED"
  /\ UNCHANGED <<state, renewDue, thread, calls, net, inbox, server, history>>

(* processACKResponse, then openSecureChannel(client, false).              *)
Acknowledged ==
  /\ pc = "ack"
  /\ inbox # <<>> /\ Head(inbox).type = "ACK"
  /\ conn' = "ESTABLISHED"
  /\ state' = "CONNECTED"
  /\ SendOPN(requestId + 1, FALSE, Tail(inbox))
  /\ Block("opn")
  /\ UNCHANGED <<token, renewDue, step, calls, net, open, history>>

(* The channel is open: UA_Client_AsyncService_removeAll calls back what a *)
(* former connection left, with BADSHUTDOWN, and the handshake goes on.    *)
Opened_noRemoveAll(m) ==
  /\ pc = "opn" /\ m.type = "OPN" /\ m.id = waiting
  /\ token' = m.tok
  /\ renewDue' = FALSE
  /\ state' = "SECURECHANNEL"
  /\ calls' = {} /\ UNCHANGED called
  /\ inbox' = Tail(inbox)
  /\ GoOn /\ step' = "getEndpoints"
  /\ UNCHANGED <<conn, requestId, net, server, issued>>

Opened_keepsToken(m) ==
  /\ pc = "opn" /\ m.type = "OPN" /\ m.id = waiting
  /\ renewDue' = FALSE
  /\ state' = "SECURECHANNEL"
  /\ calls' = {} /\ called' = called \cup calls
  /\ inbox' = Tail(inbox)
  /\ GoOn /\ step' = "getEndpoints"
  /\ UNCHANGED <<conn, token, requestId, net, server, issued>>

Opened(m) ==
  /\ pc = "opn" /\ m.type = "OPN" /\ m.id = waiting
  /\ token' = m.tok
  /\ renewDue' = FALSE
  /\ state' = "SECURECHANNEL"
  /\ calls' = {} /\ called' = called \cup calls
  /\ inbox' = Tail(inbox)
  /\ GoOn /\ step' = "getEndpoints"
  /\ UNCHANGED <<conn, requestId, net, server, issued>>

-----------------------------------------------------------------------------
(* The application's calls. Each first renews the channel if that is due.  *)
Call(s) ==
  /\ pc = "idle" /\ MayUse(Need(s) + IF renewDue THEN 1 ELSE 0)
  /\ pc' = "send" /\ step' = s
  /\ UNCHANGED <<channel, requestId, waiting, timely, calls, net, inbox, server, history>>

Service == Call("service")
AsyncService == Async /\ Call("async")
RunAsync == Async /\ Call("run")

(* UA_Client_disconnect, of a session: CloseSession first; without one     *)
(* the CLO message and the socket are all there is to close.               *)
Disconnect ==
  /\ pc = "idle" /\ state = "SESSION" /\ MayUse(IF renewDue THEN 2 ELSE 1)
  /\ state' = "SECURECHANNEL"
  /\ pc' = "send" /\ step' = "closeSession"
  /\ UNCHANGED <<conn, token, renewDue, requestId, waiting, timely, calls, net,
                 inbox, server, history>>

(* nextChannelRenewal, 75% into the token's life.                          *)
RenewalDue ==
  /\ ~renewDue /\ pc # "send" /\ MayUse(Need(step) + 1)
  /\ renewDue' = TRUE
  /\ UNCHANGED <<state, conn, token, thread, calls, net, inbox, server, history>>

(* sendSymmetricServiceRequest: openSecureChannel(client, true) ...        *)
Renew ==
  /\ pc = "send" /\ renewDue /\ conn = "ESTABLISHED"
  /\ Block("renew")
  /\ SendOPN(requestId + 1, TRUE, inbox)
  /\ UNCHANGED <<channel, step, calls, net, open, history>>

RenewUnconnected ==
  /\ pc = "send" /\ renewDue /\ conn # "ESTABLISHED"
  /\ Close

(* ... and the request itself. runAsync sends nothing, it listens.         *)
Request ==
  /\ pc = "send" /\ ~renewDue /\ conn = "ESTABLISHED"
  /\ step \in Services \cup {"async"}
  /\ SendRequest(requestId + 1)
  /\ IF step = "async"
       THEN /\ Return
            /\ calls' = calls \cup {requestId + 1}
            /\ issued' = issued \cup {requestId + 1}
       ELSE /\ Block("call") /\ waiting' = requestId + 1
            /\ UNCHANGED <<step, calls, issued>>
  /\ UNCHANGED <<channel, net, called>>

Listen ==
  /\ pc = "send" /\ ~renewDue /\ step = "run"
  /\ Block("listen")
  /\ UNCHANGED <<channel, step, requestId, waiting, calls, net, inbox, server, history>>

(* The socket refuses the message and is closed. A synchronous call and a  *)
(* renewal close the client; an asynchronous call only returns the error.  *)
(* The id used up by a message that was not sent is not counted.           *)
SendFails ==
  /\ pc = "send" /\ step # "run" /\ ~renewDue /\ (conn = "CLOSED" \/ ~net)
  /\ IF step = "async"
       THEN /\ CloseSocket /\ Return
            /\ UNCHANGED <<state, token, renewDue, requestId, calls, srvToken,
                           srvNext, called, issued>>
       ELSE Close

RenewFails ==
  /\ pc = "send" /\ renewDue /\ conn = "ESTABLISHED" /\ ~net
  /\ Close

-----------------------------------------------------------------------------
(* Receiving: UA_SecureChannel_processChunk and processServiceResponse.    *)
Receiving == pc \in {"ack", "opn", "renew", "call", "listen"}

KnownToken(m) == m.type = "MSG" => m.tok = token

(* The channel was renewed: the interrupted request is sent now.           *)
Renewed(m) ==
  /\ pc = "renew" /\ m.type = "OPN" /\ m.id = waiting
  /\ token' = m.tok
  /\ renewDue' = FALSE
  /\ inbox' = Tail(inbox)
  /\ GoOn
  /\ UNCHANGED <<state, conn, step, requestId, calls, net, server, history>>

After(s) == CASE s = "getEndpoints"    -> "createSession"
              [] s = "createSession"   -> "activateSession"
              [] OTHER                 -> "none"

(* The answer of a synchronous call. A fault fails a step of the connect;  *)
(* for the application's own service it is a result like any other, and    *)
(* the result of CloseSession is not looked at.                            *)
Answered(m) ==
  /\ pc = "call" /\ m.type = "MSG" /\ KnownToken(m) /\ m.id = waiting
  /\ \/ /\ step \in Handshake /\ m.ok
        /\ pc' = IF step = "activateSession" THEN "idle" ELSE "send"
        /\ state' = IF step = "activateSession" THEN "SESSION" ELSE state
        /\ step' = After(step)
        /\ waiting' = 0 /\ timely' = TRUE
        /\ inbox' = Tail(inbox)
        /\ UNCHANGED <<conn, token, renewDue, requestId, calls, net, server, history>>
     \/ /\ step = "service"
        /\ Return
        /\ inbox' = Tail(inbox)
        /\ UNCHANGED <<channel, requestId, calls, net, server, history>>
     \/ /\ (step \in Handshake /\ ~m.ok) \/ step = "closeSession"
        /\ Close

(* processAsyncResponse: the callback runs and is removed, whatever the    *)
(* client was waiting for. It also runs for an answer of a wrong type or   *)
(* one that does not decode, with an error, and the client is closed then. *)
AsyncAnswered(m) ==
  /\ m.type = "MSG" /\ KnownToken(m) /\ m.id # waiting /\ m.id \in calls
  /\ calls' = calls \ {m.id}
  /\ called' = called \cup {m.id}
  /\ UNCHANGED issued
  /\ \/ inbox' = Tail(inbox) /\ UNCHANGED <<channel, thread, net, server>>
     \/ Closing

(* Every error in a message closes the client: a token it does not know,   *)
(* an id nothing waits for, a message it cannot use.                       *)
Rejected(m) ==
  \/ m.type = "ERR" /\ Close
  \/ ~KnownToken(m) /\ Close
  \/ m.type = "MSG" /\ KnownToken(m) /\ m.id # waiting /\ m.id \notin calls
     /\ Close

Receive ==
  /\ Receiving /\ inbox # <<>>
  /\ LET m == Head(inbox)
     IN  Opened(m) \/ Renewed(m) \/ Answered(m) \/ AsyncAnswered(m) \/ Rejected(m)

(* config.timeout: a call that has no answer by then closes the client, so *)
(* that a late answer finds nothing to be taken for.                       *)
Timeout_notCall ==
  /\ timely /\ pc \in {"ack", "opn", "renew"}
  /\ Close

Timeout ==
  /\ timely /\ pc \in {"ack", "opn", "renew", "call"}
  /\ Close

(* runAsync returns when its time is over.                                 *)
ListenOver ==
  /\ timely /\ pc = "listen"
  /\ Return
  /\ UNCHANGED <<channel, requestId, calls, net, inbox, server, history>>

(* recv() finds the connection gone, after what had arrived was read.      *)
Lost ==
  /\ Receiving /\ inbox = <<>> /\ ~net
  /\ CloseLost

-----------------------------------------------------------------------------
(* The server answers any request it has, in any order, with a result or a *)
(* fault; it may send a message of another kind; the connection may break, *)
(* with or without what is under way.                                      *)
ServerAnswers ==
  \E id \in open, ok \in BOOLEAN :
    /\ open' = open \ {id}
    /\ inbox' = Append(inbox, Msg("MSG", id, srvToken, ok))
    /\ UNCHANGED <<channel, thread, calls, net, srvToken, srvNext, history>>

ServerErrs ==
  /\ net /\ inbox = <<>>
  /\ inbox' = <<Msg("ERR", 0, 0, FALSE)>>
  /\ UNCHANGED <<channel, thread, calls, net, server, history>>

Break ==
  /\ net
  /\ net' = FALSE
  /\ open' = {}
  /\ inbox' \in {inbox, <<>>}
  /\ UNCHANGED <<channel, thread, calls, srvToken, srvNext, history>>

-----------------------------------------------------------------------------
Application ==
  Connect \/ ConnectRefused \/ Service \/ AsyncService \/ RunAsync \/ Disconnect

Library ==
  \/ Acknowledged \/ Renew \/ RenewFails \/ RenewUnconnected
  \/ Request \/ Listen \/ SendFails
  \/ Receive \/ Timeout \/ ListenOver \/ Lost

World == RenewalDue \/ ServerAnswers \/ ServerErrs \/ Break

Next == Application \/ Library \/ World

(* The thread inside a call goes on, when there is something to do for it  *)
(* or the clock has reached the end of its wait. Nothing is assumed of     *)
(* application or world.                                                   *)
Fairness == WF_vars(Library)

Spec == Init /\ [][Next]_vars /\ Fairness

-----------------------------------------------------------------------------
(* No asynchronous call is forgotten and none is answered twice, across    *)
(* closing and connecting again.                                           *)
CallbackOnce == issued = calls \cup called /\ calls \cap called = {}

(* When a synchronous call returns the state tells the truth about the    *)
(* connection: what is not DISCONNECTED has its socket ("A TCP connection  *)
(* to the server is open", open62541.h:23990), what is has none. Only an   *)
(* asynchronous request that cannot be sent leaves the state of a socket   *)
(* it has closed; the next synchronous call puts that right.               *)
StateIsTruth ==
  [][pc # "idle" /\ pc' = "idle" /\ step \notin {"async", "run"}
       => (state' = "DISCONNECTED" <=> conn' = "CLOSED")]_vars


(* A renewal makes the client forget the token the server still uses. As   *)
(* long as the application makes synchronous calls only, which renew when  *)
(* no answer is under way, it knows the token of every message it comes to *)
(* read; an asynchronous answer that a renewal has overtaken is refused.   *)
SyncRenewalKeepsAnswers ==
  issued = {} /\ Receiving /\ inbox # <<>> => KnownToken(Head(inbox))

(* Every call returns to the application, whatever the connection and the  *)
(* server do. One thing alone can keep it: the end of its wait lies behind *)
(* the clock's last value, the connection stays up, and nothing comes.     *)
Stuck == pc # "idle" /\ ~timely /\ net /\ inbox = <<>>
EveryCallReturns == []<>(pc = "idle") \/ <>[]Stuck
=============================================================================
