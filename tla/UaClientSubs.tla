----------------------------- MODULE UaClientSubs -----------------------------
(***************************************************************************)
(* The subscriptions of the OPC UA client: the list the application's      *)
(* calls and the end of a connection change, the publish requests that     *)
(* runAsync and every answer top up, and the notifications, their sequence *)
(* numbers and acknowledgements.                                           *)
(*                                                                         *)
(* The client is single threaded: pc is the call its thread is blocked in. *)
(* While it waits, whatever the call, publish responses are processed, and *)
(* each may close the connection under the call. Of the server, which is   *)
(* external here and modelled in UaSubscription, it matters that it        *)
(* answers in order, that a keep-alive carries the next sequence number    *)
(* without using it up, and that a message it fails to send is lost. A     *)
(* message comes in a packet of its own; identifiers are not used again    *)
(* after a reconnect. A subscription has one monitored item at most, which *)
(* the application asks for once, with a delete callback.                  *)
(***************************************************************************)
EXTENDS Naturals, Sequences, FiniteSets

CONSTANTS
  MaxSubs,       \* bound: subscriptions created
  Monitored,     \* bound: the subscriptions that may have a monitored item
  MaxNotes,      \* bound: notification messages of a subscription
  MaxFails,      \* bound: allocations that fail, on both sides
  OutStanding,   \* config.outStandingPublishRequests as it is given
  Limits         \* external: the server's maxPublishReqPerSession, 0: no limit

ASSUME SubsAssumption ==
  /\ MaxSubs \in Nat /\ MaxNotes \in Nat /\ MaxFails \in Nat
  /\ Monitored \subseteq 1..MaxSubs
  /\ OutStanding \in Nat \ {0}
  /\ Limits \subseteq Nat

Subs == 1..MaxSubs
Nums == 1..MaxNotes

VARIABLES
  state,      \* client->state
  pc,         \* idle, or the call in progress
  target,     \* the subscriptions it is about
  listed,     \* client->subscriptions
  items,      \* the subscriptions with an entry in monitoredItems
  seen,       \* sequenceNumber of each subscription
  acks,       \* pendingNotificationsAcks
  out,        \* currentlyOutStandingPublishRequests
  limit,      \* config.outStandingPublishRequests
  net,        \* external: the connection: up, broken, or closed by the client
  inbox,      \* external: what was sent to the client and not read
  session,    \* external: the server has the session
  srv,        \* external: the server's subscriptions
  srvItems,   \* external: those of them with a monitored item
  number,     \* external: the last sequence number of each
  retr,       \* external: what of it is kept for retransmission
  reqs,       \* external: the queued publish requests
  srvLimit,   \* external: their limit
  lastId,     \* history: how many subscriptions there have been
  delivered,  \* history: the notifications handed to the application
  announced,  \* history: the numbers seen in keep-alives only
  gone,       \* history: how often the delete callback has run
  asked,      \* history: the monitored items the application asked for
  ended,      \* history: how often their delete callbacks have run
  lost,       \* history: publish requests counted in out that get no answer
  forgot,     \* history: acknowledgements were lost with a failure
  fails,      \* how many allocations have failed
  freedUsed   \* a subscription was used after it was freed

thread == <<state, pc, target>>
client == <<listed, items, seen, acks, out, limit>>
server == <<session, srv, srvItems, number, retr, reqs>>
history == <<delivered, announced, gone, asked, ended>>
vars == <<thread, client, net, inbox, server, srvLimit, lastId, history, lost,
          forgot, fails, freedUsed>>

Calls == {"create", "modify", "delete", "addItem", "removeItem", "closeSession"}

(* Answers to a publish request; other is the answer to a request the      *)
(* client does not know, sync the answer to the call in progress.          *)
Answers == [type : {"data", "keep"}, s : Subs, n : Nums]
           \cup [type : {"tooMany", "noSub", "badSession", "other"}]
Replies == [type : {"sync"}, ok : BOOLEAN, refused : SUBSET Subs]
Answer(t) == [type |-> t]
Reply(good, no) == [type |-> "sync", ok |-> good, refused |-> no]

TypeOK ==
  /\ state \in {"DISCONNECTED", "SECURECHANNEL", "SESSION"}
  /\ pc \in {"idle", "listen"} \cup Calls
  /\ target \subseteq Subs
  /\ listed \subseteq Subs
  /\ items \subseteq Monitored
  /\ seen \in [Subs -> 0..MaxNotes]
  /\ acks \subseteq Subs \X Nums
  /\ out \in 0..OutStanding
  /\ limit \in 1..OutStanding
  /\ net \in {"up", "broken", "closed"}
  /\ inbox \in Seq(Answers \cup Replies)
  /\ session \in BOOLEAN
  /\ srv \subseteq Subs
  /\ srvItems \subseteq srv \cap Monitored
  /\ number \in [Subs -> 0..MaxNotes]
  /\ retr \in [Subs -> SUBSET Nums]
  /\ reqs \in 0..OutStanding
  /\ srvLimit \in Limits
  /\ lastId \in 0..MaxSubs
  /\ delivered \in [Subs -> SUBSET Nums]
  /\ announced \in [Subs -> SUBSET Nums]
  /\ gone \in [Subs -> Nat]
  /\ asked \subseteq Monitored
  /\ ended \in [Monitored -> Nat]
  /\ lost \in 0..OutStanding
  /\ forgot \in BOOLEAN
  /\ fails \in 0..MaxFails
  /\ freedUsed \in BOOLEAN

Init ==
  /\ state = "DISCONNECTED" /\ pc = "idle" /\ target = {}
  /\ listed = {} /\ items = {} /\ seen = [s \in Subs |-> 0] /\ acks = {}
  /\ out = 0 /\ limit = OutStanding
  /\ net = "closed" /\ inbox = <<>>
  /\ session = FALSE /\ srv = {} /\ srvItems = {}
  /\ number = [s \in Subs |-> 0] /\ retr = [s \in Subs |-> {}] /\ reqs = 0 /\ srvLimit \in Limits
  /\ lastId = 0
  /\ delivered = [s \in Subs |-> {}] /\ announced = [s \in Subs |-> {}]
  /\ gone = [s \in Subs |-> 0]
  /\ asked = {} /\ ended = [s \in Monitored |-> 0]
  /\ lost = 0 /\ forgot = FALSE /\ fails = 0 /\ freedUsed = FALSE

-----------------------------------------------------------------------------
(* Parts of steps.                                                         *)

(* An allocation fails.                                                    *)
Fails == fails < MaxFails /\ fails' = fails + 1

Return == pc' = "idle" /\ target' = {}

(* The delete callbacks of the items in S.                                 *)
ItemCallbacks(S) ==
  ended' = [s \in Monitored |-> IF s \in S THEN ended[s] + 1 ELSE ended[s]]

(* UA_Client_Subscription_deleteInternal of the subscriptions in S, where  *)
(* the item in cut is being asked for: it has no entry yet.                *)
DeleteInternal(S, cut) ==
  /\ items' = items \ S
  /\ ItemCallbacks((items \cap S) \cup cut)
  /\ UNCHANGED asked
  /\ gone' = [s \in Subs |-> IF s \in S THEN gone[s] + 1 ELSE gone[s]]
  /\ seen' = [s \in Subs |-> IF s \in S THEN 0 ELSE seen[s]]
  /\ delivered' = [s \in Subs |-> IF s \in S THEN {} ELSE delivered[s]]
  /\ announced' = [s \in Subs |-> IF s \in S THEN {} ELSE announced[s]]

(* The server ends the subscriptions in S.                                 *)
Ends(S) ==
  /\ srv' = srv \ S /\ srvItems' = srvItems \ S
  /\ number' = [s \in Subs |-> IF s \in S THEN 0 ELSE number[s]]
  /\ retr' = [s \in Subs |-> IF s \in S THEN {} ELSE retr[s]]

(* The socket is closed; the server forgets a session it cannot reach.     *)
Hangup ==
  /\ net' = "closed"
  /\ inbox' = <<>>
  /\ session' = FALSE /\ Ends(srv) /\ reqs' = 0

(* The monitored item that is being asked for.                             *)
CutOff == IF pc = "addItem" THEN target ELSE {}

(* UA_Client_close with UA_Client_Subscriptions_clean, and the return of   *)
(* the call in progress, which fails with it. What UA_Client_Subscriptions_*)
(* delete had taken out of the list comes back into it; what               *)
(* UA_Client_Subscriptions_modify and MonitoredItems_create had found is   *)
(* freed when they use it, the one to write and the other for the delete   *)
(* callbacks.                                                              *)
Close_dropsHeld ==
  /\ state' = "DISCONNECTED"
  /\ Return
  /\ DeleteInternal(listed, CutOff)
  /\ listed' = {}
  /\ acks' = {}
  /\ freedUsed' = (pc \in {"modify", "addItem"})
  /\ Hangup
  /\ UNCHANGED <<out, limit, lost, forgot, lastId>>

Close ==
  /\ state' = "DISCONNECTED"
  /\ Return
  /\ DeleteInternal(listed, CutOff)
  /\ listed' = IF pc = "delete" THEN target ELSE {}
  /\ acks' = {}
  /\ freedUsed' = (pc \in {"modify", "addItem"})
  /\ Hangup
  /\ UNCHANGED <<out, limit, lost, forgot, lastId>>

(* Service_Publish for n requests, the first of which carries the          *)
(* acknowledgements a; box is the inbox before.                            *)
Times(n, m) == [i \in 1..n |-> m]
Arrive(n, a, box) ==
  LET room == IF srvLimit = 0 \/ reqs + n <= srvLimit THEN reqs + n ELSE srvLimit
  IN \/ /\ net # "up"
        /\ inbox' = box
        /\ UNCHANGED <<reqs, retr>>
     \/ /\ net = "up" /\ ~session
        /\ inbox' = box \o Times(n, Answer("badSession"))
        /\ UNCHANGED <<reqs, retr>>
     \/ /\ net = "up" /\ session /\ srv = {}
        /\ inbox' = box \o Times(n, Answer("noSub"))
        /\ UNCHANGED <<reqs, retr>>
     \/ /\ net = "up" /\ session /\ srv # {}
        /\ inbox' = box \o Times(reqs + n - room, Answer("tooMany"))
        /\ reqs' = room
        /\ retr' = IF n = 0 THEN retr
                   ELSE [s \in Subs |-> {k \in retr[s] : <<s, k>> \notin a}]

(* UA_Client_Subscriptions_backgroundPublish, where o requests are         *)
(* outstanding of at most l, a is to be acknowledged and box is the inbox. *)
(* A send that fails stays counted, and the acknowledgements it carried    *)
(* are gone; a request that cannot be built leaves both as they were.      *)
Full(o, l) == state # "SESSION" \/ listed = {} \/ o >= l

SendsAll(o, l, a, box) ==
  /\ net # "closed"
  /\ out' = l /\ acks' = {}
  /\ Arrive(l - o, a, box)
  /\ UNCHANGED <<net, session, srv, srvItems, number, lost>>

BuildFails_afterAcks(o, l, a, box) ==
  \E j \in 0..(l - o - 1) :
    /\ Fails
    /\ out' = o + j
    /\ acks' = {}
    /\ Arrive(j, a, box)
    /\ UNCHANGED <<net, session, srv, srvItems, number, lost, forgot>>

BuildFails(o, l, a, box) ==
  \E j \in 0..(l - o - 1) :
    /\ Fails
    /\ out' = o + j
    /\ acks' = IF j = 0 THEN a ELSE {}
    /\ Arrive(j, a, box)
    /\ UNCHANGED <<net, session, srv, srvItems, number, lost, forgot>>

SendFails(o, l, a, box) ==
  \E j \in 0..(l - o - 1) :
    /\ Fails
    /\ out' = o + j + 1
    /\ acks' = {}
    /\ Arrive(j, a, box)
    /\ lost' = lost + 1
    /\ forgot' = (forgot \/ (j = 0 /\ a # {}))
    /\ UNCHANGED <<net, session, srv, srvItems, number>>

(* The connection is broken: the socket is closed, the state stays. It may *)
(* break after some of the requests were sent.                             *)
WriteFails(o, l, a, box) ==
  /\ \E j \in 0..(l - o - 1) :
       /\ net = "up" \/ j = 0
       /\ out' = o + j + 1
  /\ acks' = {}
  /\ lost' = lost + 1
  /\ Hangup
  /\ UNCHANGED <<forgot, fails>>

Proceeds(o, l, a, box) ==
  IF Full(o, l)
  THEN /\ out' = o /\ acks' = a /\ inbox' = box
       /\ UNCHANGED <<net, server, lost>>
  ELSE SendsAll(o, l, a, box)

BackgroundPublish(o, l, a, box) ==
  \/ Proceeds(o, l, a, box) /\ UNCHANGED <<forgot, fails>>
  \/ /\ ~Full(o, l)
     /\ \/ BuildFails(o, l, a, box)
        \/ SendFails(o, l, a, box)
        \/ WriteFails(o, l, a, box)

-----------------------------------------------------------------------------
(* UA_Client_Subscriptions_processPublishResponse and the callback around  *)
(* it, while the answer m is taken off the inbox.                          *)
Answered_keepsCount(l, a) == BackgroundPublish(out, l, a, Tail(inbox))
Answered(l, a) == BackgroundPublish(out - 1, l, a, Tail(inbox))

(* Nothing of the subscriptions changes.                                   *)
Ignored(l) ==
  /\ Answered(l, acks)
  /\ limit' = l
  /\ UNCHANGED <<thread, listed, items, seen, history, freedUsed>>

(* At the server's limit the client asks for one request less. With only   *)
(* one left it deletes the subscription the answer names, which is none,   *)
(* in a call of its own that may also end in a close.                      *)
TooMany ==
  \/ limit > 1 /\ Ignored(limit - 1)
  \/ limit = 1 /\ Ignored(limit)
  \/ limit = 1 /\ Close /\ UNCHANGED fails

(* Without a subscription nobody is left to tell that the session is gone. *)
BadSession ==
  \/ listed = {} /\ Ignored(limit)
  \/ listed # {} /\ Close /\ UNCHANGED fails

(* nextSequenceNumber: the same number again, or the next one.             *)
Follows_any(s, n) == n >= seen[s]
Follows(s, n) == n \in {seen[s], seen[s] + 1}

(* A notification goes to the application, if its item has an entry, and   *)
(* is to be acknowledged, if there is memory for that; a keep-alive only   *)
(* sets the number.                                                        *)
Data(m) ==
  /\ delivered' = IF m.s \in items THEN [delivered EXCEPT ![m.s] = @ \cup {m.n}]
                  ELSE delivered
  /\ \/ Answered(limit, acks \cup {<<m.s, m.n>>})
     \/ Fails /\ forgot' = TRUE /\ Proceeds(out - 1, limit, acks, Tail(inbox))
  /\ announced' = [announced EXCEPT ![m.s] = @ \ {m.n}]

KeepAlive(m) ==
  /\ announced' = [announced EXCEPT ![m.s] = @ \cup {m.n}]
  /\ Answered(limit, acks)
  /\ UNCHANGED delivered

Processed(m) ==
  /\ seen' = [seen EXCEPT ![m.s] = m.n]
  /\ IF m.type = "data" THEN Data(m) ELSE KeepAlive(m)
  /\ UNCHANGED <<thread, listed, items, limit, gone, asked, ended, freedUsed>>

Notification(m) ==
  \/ m.s \notin listed /\ Ignored(limit)
  \/ m.s \in listed /\ Follows(m.s, m.n) /\ Processed(m)
  \/ m.s \in listed /\ ~Follows(m.s, m.n) /\ Close /\ UNCHANGED fails

-----------------------------------------------------------------------------
(* The calls of the application. One that finds the connection broken when *)
(* it sends closes the client like one that loses it while it waits.       *)
Calling == ~freedUsed /\ pc = "idle" /\ state = "SESSION"

(* The server has carried out or refused the call when it answers.         *)
Replied(good, no, box) == inbox' = Append(box, Reply(good, no))

Waits(c, S) == pc' = c /\ target' = S

Unchanged == UNCHANGED <<state, items, seen, acks, out, limit, net, srvLimit, lastId,
                         delivered, announced, gone, ended, lost, forgot,
                         freedUsed>>

(* A session the server has lost is reported as a fault.                   *)
Refused == net = "up" /\ Replied(FALSE, {}, inbox) /\ UNCHANGED server
Vanishes == net # "up" /\ UNCHANGED <<inbox, server>>

(* UA_Client_Subscriptions_create                                          *)
Create ==
  /\ Calling /\ lastId < MaxSubs
  /\ Waits("create", {lastId + 1})
  /\ \/ /\ net = "up" /\ session
        /\ srv' = srv \cup {lastId + 1}
        /\ Replied(TRUE, {}, inbox)
        /\ UNCHANGED <<session, srvItems, number, retr, reqs>>
     \/ Refused
     \/ Vanishes
  /\ UNCHANGED <<listed, asked, fails>>
  /\ Unchanged

(* UA_Client_Subscriptions_modify, to which a refusal is like an answer.   *)
Modify(s) ==
  /\ Calling /\ s \in listed
  /\ Waits("modify", {s})
  /\ Refused \/ Vanishes
  /\ UNCHANGED <<listed, asked, fails>>
  /\ Unchanged

(* UA_Client_Subscriptions_delete: the subscriptions leave the list for    *)
(* the time of the call. The server refuses to delete some of them for     *)
(* want of memory. After its last one it answers what is queued.           *)
Delete(S) ==
  /\ Calling /\ S # {} /\ S \subseteq listed
  /\ Waits("delete", S)
  /\ listed' = listed \ S
  /\ \/ /\ net = "up" /\ session
        /\ \E no \in SUBSET (S \cap srv) :
             /\ fails' = fails + Cardinality(no) /\ fails' <= MaxFails
             /\ Ends((S \cap srv) \ no)
             /\ LET rest == IF srv' = {} THEN reqs ELSE 0
                IN /\ reqs' = reqs - rest
                   /\ Replied(TRUE, no, inbox \o Times(rest, Answer("noSub")))
        /\ UNCHANGED session
     \/ Refused /\ UNCHANGED fails
     \/ Vanishes /\ UNCHANGED fails
  /\ UNCHANGED asked
  /\ Unchanged

(* __UA_Client_MonitoredItems_create. Without memory or a subscription it  *)
(* ends at once, with the delete callback of what was asked for. An item   *)
(* that is refused ends like a request that is.                            *)
MonitoredItemsCreate(s) ==
  /\ Calling /\ s \in listed \ asked
  /\ asked' = asked \cup {s}
  /\ Waits("addItem", {s})
  /\ \/ /\ net = "up" /\ s \in srv
        /\ srvItems' = srvItems \cup {s}
        /\ Replied(TRUE, {}, inbox)
        /\ UNCHANGED <<session, srv, number, retr, reqs>>
     \/ Refused
     \/ Vanishes
  /\ UNCHANGED <<listed, fails>>
  /\ Unchanged

MonitoredItemsCreateFails(s) ==
  /\ Calling /\ s \in (1..lastId) \ asked
  /\ IF s \in listed THEN Fails ELSE UNCHANGED fails
  /\ asked' = asked \cup {s}
  /\ ItemCallbacks({s})
  /\ UNCHANGED <<thread, client, net, inbox, server, srvLimit, lastId, delivered,
                 announced, gone, lost, forgot, freedUsed>>

(* UA_Client_MonitoredItems_delete: what the server no longer has goes too.*)
MonitoredItemsDelete(s) ==
  /\ Calling /\ s \in listed \cap items
  /\ Waits("removeItem", {s})
  /\ \/ /\ net = "up" /\ s \in srv
        /\ srvItems' = srvItems \ {s}
        /\ Replied(TRUE, {}, inbox)
        /\ UNCHANGED <<session, srv, number, retr, reqs>>
     \/ Refused
     \/ Vanishes
  /\ UNCHANGED <<listed, asked, fails>>
  /\ Unchanged

(* UA_Client_disconnect. While it waits the state keeps requests back.     *)
Disconnect ==
  /\ Calling
  /\ state' = "SECURECHANNEL"
  /\ Waits("closeSession", {})
  /\ \/ /\ net = "up"
        /\ Replied(TRUE, {}, inbox)
        /\ session' = FALSE /\ Ends(srv) /\ reqs' = 0
     \/ Vanishes
  /\ UNCHANGED <<client, net, srvLimit, lastId, history, lost,
                 forgot, fails, freedUsed>>

(* The answer to the call.                                                 *)
Created(m) ==
  /\ listed' = IF m.ok THEN listed \cup target ELSE listed
  /\ lastId' = IF m.ok THEN lastId + 1 ELSE lastId
  /\ UNCHANGED <<items, seen, history>>

Deleted(m) ==
  LET back == IF m.ok THEN m.refused ELSE target
  IN /\ listed' = listed \cup back
     /\ DeleteInternal(target \ back, {})
     /\ UNCHANGED lastId

ItemsCreated(m) ==
  /\ IF m.ok
     THEN items' = items \cup target /\ UNCHANGED ended
     ELSE ItemCallbacks(target) /\ UNCHANGED items
  /\ UNCHANGED <<listed, seen, delivered, announced, gone, asked, lastId>>

ItemsDeleted(m) ==
  /\ IF m.ok
     THEN items' = items \ target /\ ItemCallbacks(target)
     ELSE UNCHANGED <<items, ended>>
  /\ UNCHANGED <<listed, seen, delivered, announced, gone, asked, lastId>>

CallEnds(m) ==
  /\ \/ pc = "create" /\ Created(m)
     \/ pc = "modify" /\ UNCHANGED <<listed, items, seen, history, lastId>>
     \/ pc = "delete" /\ Deleted(m)
     \/ pc = "addItem" /\ ItemsCreated(m)
     \/ pc = "removeItem" /\ ItemsDeleted(m)
  /\ Return
  /\ inbox' = Tail(inbox)
  /\ UNCHANGED <<state, acks, out, limit, net, server, lost, forgot, fails,
                 freedUsed>>

Synchronous(m) ==
  \/ pc = "closeSession" /\ Close /\ UNCHANGED fails
  \/ CallEnds(m)

-----------------------------------------------------------------------------
(* UA_Client_runAsync: it listens only when all requests could be sent.    *)
RunAsync ==
  /\ Calling
  /\ BackgroundPublish(out, limit, acks, inbox)
  /\ pc' = IF fails' = fails /\ lost' = lost THEN "listen" ELSE "idle"
  /\ UNCHANGED <<state, target, listed, items, seen, limit, srvLimit, lastId, history, freedUsed>>

ListenOver ==
  /\ pc = "listen"
  /\ Return
  /\ UNCHANGED <<state, client, net, inbox, server, srvLimit, lastId, history, lost,
                 forgot, fails, freedUsed>>

(* A message is read: processServiceResponse.                              *)
PublishResponse(m) ==
  /\ \/ m.type = "tooMany" /\ TooMany
     \/ m.type = "noSub" /\ Ignored(limit)
     \/ m.type = "badSession" /\ BadSession
     \/ m.type \in {"data", "keep"} /\ Notification(m)

Receive ==
  /\ pc # "idle" /\ inbox # <<>>
  /\ LET m == Head(inbox)
     IN \/ PublishResponse(m) /\ lastId' = lastId
        \/ m.type = "other" /\ Close /\ UNCHANGED fails
        \/ m.type = "sync" /\ Synchronous(m)
  /\ UNCHANGED srvLimit

(* The connection is found broken, or a call is not answered in time.      *)
Lost ==
  /\ \/ pc # "idle" /\ net # "up"
     \/ pc \in Calls
  /\ Close
  /\ UNCHANGED <<srvLimit, fails>>

(* UA_Client_connect: what is left of the old connection is given up.      *)
Connect ==
  /\ ~freedUsed /\ pc = "idle" /\ state = "DISCONNECTED"
  /\ state' = "SESSION"
  /\ DeleteInternal(listed, {})
  /\ listed' = {} /\ acks' = {}
  /\ out' = 0 /\ lost' = 0 /\ forgot' = FALSE
  /\ net' = "up" /\ session' = TRUE
  /\ UNCHANGED <<pc, target, limit, inbox, srv, srvItems, number, retr, reqs, srvLimit, lastId,
                 fails, freedUsed>>

ConnectFails ==
  /\ ~freedUsed /\ pc = "idle" /\ state = "DISCONNECTED"
  /\ Close
  /\ UNCHANGED <<srvLimit, fails>>

-----------------------------------------------------------------------------
(* The server.                                                             *)
Serving == net = "up" /\ session
Elsewhere == UNCHANGED <<thread, client, net, session, srvLimit, lastId, history,
                         forgot, freedUsed>>

(* An answer goes out, or cannot be sent: nobody notices.                  *)
Sends(m) ==
  \/ inbox' = Append(inbox, m) /\ UNCHANGED <<lost, fails>>
  \/ Fails /\ lost' = lost + 1 /\ UNCHANGED inbox

Notifies(s) ==
  /\ Serving /\ reqs > 0
  /\ s \in srvItems /\ number[s] < MaxNotes
  /\ number' = [number EXCEPT ![s] = @ + 1]
  /\ retr' = [retr EXCEPT ![s] = @ \cup {number'[s]}]
  /\ reqs' = reqs - 1
  /\ Sends([type |-> "data", s |-> s, n |-> number'[s]])
  /\ UNCHANGED <<srv, srvItems>>
  /\ Elsewhere

KeepsAlive(s) ==
  /\ Serving /\ reqs > 0
  /\ s \in srv /\ number[s] < MaxNotes
  /\ reqs' = reqs - 1
  /\ Sends([type |-> "keep", s |-> s, n |-> number[s] + 1])
  /\ UNCHANGED <<srv, srvItems, number, retr>>
  /\ Elsewhere

(* subscriptionSendError with the request handle in place of the id.       *)
Refuses ==
  /\ Serving /\ reqs > 0
  /\ Fails
  /\ reqs' = reqs - 1
  /\ inbox' = Append(inbox, Answer("other"))
  /\ UNCHANGED <<srv, srvItems, number, retr, lost>>
  /\ Elsewhere

(* A subscription's lifetime is over, which a queued request prevents; or  *)
(* the session's; or the connection breaks: what the client reads before   *)
(* it notices, it reads before.                                            *)
SubscriptionEnds(s) ==
  /\ Serving /\ s \in srv
  /\ reqs = 0
  /\ Ends({s})
  /\ UNCHANGED <<inbox, reqs, lost, fails>>
  /\ Elsewhere

SessionEnds ==
  /\ Serving
  /\ session' = FALSE /\ Ends(srv) /\ reqs' = 0
  /\ UNCHANGED <<thread, client, net, inbox, srvLimit, lastId, history, lost,
                 forgot, fails, freedUsed>>

Break ==
  /\ net = "up"
  /\ net' = "broken" /\ inbox' = <<>>
  /\ session' = FALSE /\ Ends(srv) /\ reqs' = 0
  /\ UNCHANGED <<thread, client, srvLimit, lastId, history, lost,
                 forgot, fails, freedUsed>>

-----------------------------------------------------------------------------
Application ==
  \/ Create
  \/ \E s \in Subs : Modify(s)
  \/ \E s \in Monitored : MonitoredItemsCreate(s) \/ MonitoredItemsCreateFails(s)
                         \/ MonitoredItemsDelete(s)
  \/ \E S \in SUBSET Subs : Delete(S)
  \/ Disconnect
  \/ Connect
  \/ ConnectFails

Server ==
  \/ \E s \in Subs : Notifies(s) \/ KeepsAlive(s) \/ SubscriptionEnds(s)
  \/ Refuses
  \/ SessionEnds

Next == Application \/ RunAsync \/ ListenOver \/ Receive \/ Lost \/ Server \/ Break

(* The application goes on calling runAsync, as open62541.h asks of it;    *)
(* runAsync reads at least once before its time is over, which it may      *)
(* never be (ClientClock); and the server publishes what it has when it    *)
(* has requests: NotStarved of UaSubscription.                             *)
Fairness ==
  /\ SF_vars(RunAsync)
  /\ SF_vars(Receive)
  /\ \A s \in Monitored : SF_vars(Notifies(s))

Spec == Init /\ [][Next]_vars /\ Fairness

-----------------------------------------------------------------------------
(* The check for a missing message lets no number pass unseen: of a listed *)
(* subscription every number up to the last was a notification that the    *)
(* application got, or was shown by a keep-alive. No notification comes    *)
(* before its item has an entry, so only those on the way when the item is *)
(* deleted are not passed on. Behind a keep-alive a notification can be    *)
(* lost without being missed.                                              *)
NoSilentGap ==
  \A s \in listed :
    (s \in asked => ended[s] = 0) => 1..seen[s] \subseteq delivered[s] \cup announced[s]

(* Every subscription that was created and every monitored item that was   *)
(* asked for ends with one delete callback, in whatever order calls,       *)
(* answers and the end of connections come: it is in its list, or held by  *)
(* the call in progress, or its callback has run. Freed memory is used     *)
(* only by a call that was overtaken by the close.                         *)
EndsOnce ==
  /\ \A s \in 1..lastId :
       gone[s] = IF s \in listed \/ (pc = "delete" /\ s \in target) THEN 0 ELSE 1
  /\ \A s \in asked : ended[s] = IF s \in items \cup CutOff THEN 0 ELSE 1
  /\ freedUsed => state = "DISCONNECTED"

(* What was delivered is acknowledged sooner or later: unless one was lost *)
(* with a failure, each notification the server still keeps has its        *)
(* acknowledgement waiting for the next publish request.                   *)
AcksKept ==
  state = "SESSION" /\ net = "up" /\ ~forgot =>
    \A s \in listed \cap srv : \A n \in delivered[s] \cap retr[s] : <<s, n>> \in acks

(* As long as fewer requests were lost than the client may have out, the   *)
(* server is not left without one: it gets to send every notification of a *)
(* subscription both sides have, unless the connection or session ends, or *)
(* runAsync listens for ever on a connection with nothing to read.         *)
Both(s) == state = "SESSION" /\ Serving /\ s \in listed \cap srvItems
Served ==
  \/ \A s \in Monitored :
       Both(s) ~> (number[s] = MaxNotes \/ ~Both(s) \/ lost >= limit)
  \/ <>[](pc = "listen" /\ inbox = <<>>)
=============================================================================
