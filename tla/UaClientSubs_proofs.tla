------------------------- MODULE UaClientSubs_proofs -------------------------
(***************************************************************************)
(* Proofs about the client's subscriptions, for any number of them, of     *)
(* notifications, outstanding requests and failing allocations, and for    *)
(* every limit of the server: that delete callbacks run exactly once, that *)
(* no acknowledgement is forgotten but by a failure, and that no sequence  *)
(* number passes unseen.                                                   *)
(*                                                                         *)
(* None of the three is inductive. A subscription that is being deleted is *)
(* in no list and may come back, so the invariants speak of those held     *)
(* (Held); what an answer in the inbox may do depends on what it can be    *)
(* about (DataKnown, CreateAnswered), on there being one reply to the call *)
(* in progress (OneReply), and for a monitored item that is being asked    *)
(* for on the reply being read before its first notification (ReplyFirst). *)
(* A notification's acknowledgement is due only if the server cannot use   *)
(* the number again for another one (DeliveredKnown).                      *)
(*                                                                         *)
(* That the count of outstanding requests stays within its limits needs    *)
(* what it counts: the requests the server has, the answers under way and  *)
(* what is lost (Counts).                                                  *)
(***************************************************************************)
EXTENDS UaClientSubs, Integers, FiniteSetTheorems, TLAPS

Packets == Answers \cup Replies

(* The types, but for the bounds of the request counters, which follow     *)
(* from counting the answers under way (Counts).                           *)
ClientTypes ==
  /\ state \in {"DISCONNECTED", "SECURECHANNEL", "SESSION"}
  /\ pc \in {"idle", "listen"} \cup Calls
  /\ target \subseteq Subs
  /\ listed \subseteq Subs
  /\ items \subseteq Monitored
  /\ seen \in [Subs -> 0..MaxNotes]
  /\ acks \subseteq Subs \X Nums
  /\ out \in Int
  /\ limit \in 1..OutStanding
  /\ delivered \in [Subs -> SUBSET Nums]
  /\ announced \in [Subs -> SUBSET Nums]
  /\ gone \in [Subs -> Nat]
  /\ asked \subseteq Monitored
  /\ ended \in [Monitored -> Nat]

ServerTypes ==
  /\ net \in {"up", "broken", "closed"}
  /\ inbox \in Seq(Packets)
  /\ session \in BOOLEAN
  /\ srv \subseteq Subs
  /\ srvItems \subseteq srv \cap Monitored
  /\ number \in [Subs -> 0..MaxNotes]
  /\ retr \in [Subs -> SUBSET Nums]
  /\ reqs \in Nat
  /\ srvLimit \in Limits
  /\ lastId \in 0..MaxSubs

(* A server without the session has nothing of it.                         *)
Sessions == (~session => srv = {}) /\ (net # "up" => ~session)

(* What the call in progress is about.                                     *)
Targets ==
  /\ pc = "create" => target = {lastId + 1}
  /\ pc = "delete" => target \subseteq 1..lastId /\ target \cap listed = {}
  /\ pc = "addItem" => target \subseteq asked \ items
  /\ pc = "removeItem" => target \subseteq items
  /\ listed \subseteq 1..lastId /\ items \subseteq asked /\ srvItems \subseteq asked

(* Nothing has happened yet to what there has not been.                    *)
Fresh ==
  /\ \A s \in Subs : s > lastId => gone[s] = 0 /\ seen[s] = 0 /\ delivered[s] = {}
  /\ \A s \in Monitored \ asked : ended[s] = 0

(* What can be in the inbox.                                               *)
IsReply(i) == inbox[i].type = "sync"
IsData(i, s) == inbox[i].type = "data" /\ inbox[i].s = s

OneReply ==
  /\ \A i \in 1..Len(inbox) : IsReply(i) =>
        pc \in Calls /\ (pc = "delete" => inbox[i].refused \subseteq target)
  /\ \A i, j \in 1..Len(inbox) : IsReply(i) /\ IsReply(j) => i = j

Known(s) == s <= lastId \/ (pc = "create" /\ s = lastId + 1)
DataKnown ==
  /\ \A s \in srv : Known(s)
  /\ \A s \in Subs : \A i \in 1..Len(inbox) : IsData(i, s) =>
        Known(s) /\ s \in asked /\ (s \in srv => inbox[i].n <= number[s])

(* The server sends of a new subscription only if it has created it.       *)
CreateAnswered ==
  pc = "create" /\ (lastId + 1 \in srv \/ \E i \in 1..Len(inbox) : IsData(i, lastId + 1))
    => \A j \in 1..Len(inbox) : IsReply(j) => inbox[j].ok

(* The reply to the request of an item comes before its notifications.     *)
ReplyFirst ==
  pc = "addItem" => \A s \in target :
    /\ s \in srvItems => \E j \in 1..Len(inbox) : IsReply(j)
    /\ \A i \in 1..Len(inbox) : IsData(i, s) => \E j \in 1..(i - 1) : IsReply(j)

(* A subscription that is being deleted may come back.                     *)
Held == listed \cup (IF pc = "delete" THEN target ELSE {})

DeliveredKnown == \A s \in Held \cap srv : \A n \in delivered[s] : n <= number[s]

AcksHeld ==
  state = "SESSION" /\ net = "up" /\ ~forgot =>
    \A s \in Held \cap srv : \A n \in delivered[s] \cap retr[s] : <<s, n>> \in acks

GapHeld ==
  \A s \in Held :
    (s \in asked => ended[s] = 0) => \A n \in 1..seen[s] : n \in delivered[s] \cup announced[s]

Inbox == OneReply /\ DataKnown /\ CreateAnswered /\ ReplyFirst
Books == Fresh /\ DeliveredKnown /\ AcksHeld /\ GapHeld

IInv == ClientTypes /\ ServerTypes /\ Sessions /\ Targets /\ EndsOnce /\ Inbox /\ Books

-----------------------------------------------------------------------------
(* Packets, and what a sequence of them is after a send.                   *)
Other == {"tooMany", "noSub", "badSession", "other"}
Mute == Other \cup {"keep"}

LEMMA PacketFacts ==
  ASSUME NEW m \in Packets
  PROVE  /\ m.type \in {"data", "keep", "sync"} \cup Other
         /\ m.type \in {"data", "keep"} => m.s \in Subs /\ m.n \in Nums
         /\ m.type = "sync" => m.ok \in BOOLEAN /\ m.refused \subseteq Subs
  BY DEF Packets, Answers, Replies, Other

LEMMA AnswerFacts ==
  ASSUME NEW t \in Other
  PROVE  Answer(t) \in Packets /\ Answer(t).type = t /\ t \notin {"data", "sync"}
  BY DEF Packets, Answers, Answer, Other

LEMMA ReplyFacts ==
  ASSUME NEW good \in BOOLEAN, NEW no \in SUBSET Subs
  PROVE  /\ Reply(good, no) \in Packets /\ Reply(good, no).type = "sync"
         /\ Reply(good, no).ok = good /\ Reply(good, no).refused = no
  BY DEF Packets, Replies, Reply

LEMMA ConstFacts ==
  /\ MaxSubs \in Nat /\ MaxNotes \in Nat /\ OutStanding \in Nat \ {0} /\ Monitored \subseteq Subs
  /\ Limits \subseteq Nat
  /\ \A s \in Subs : s \in Nat /\ s >= 1 /\ s <= MaxSubs
  /\ \A n \in Nums : n \in Nat /\ n >= 1 /\ n <= MaxNotes
  BY SubsAssumption DEF Subs, Nums

(* q is box, with answers behind it that carry no notification.            *)
Grown(q, box) ==
  /\ q \in Seq(Packets) /\ Len(box) <= Len(q)
  /\ \A i \in 1..Len(box) : q[i] = box[i]
  /\ \A i \in (Len(box) + 1)..Len(q) : q[i].type \in Mute

LEMMA GrownBy ==
  ASSUME NEW box \in Seq(Packets), NEW n \in Nat, NEW t \in Other
  PROVE  Grown(box \o Times(n, Answer(t)), box)
  <1> DEFINE m == Answer(t)
             x == Times(n, m)
  <1>1. m \in Packets /\ m.type \in Other
    BY AnswerFacts
  <1> HIDE DEF m
  <1>2. x \in Seq(Packets) /\ Len(x) = n /\ \A i \in 1..n : x[i] = m
    BY <1>1 DEF Times
  <1> HIDE DEF x
  <1>3. /\ box \o x \in Seq(Packets) /\ Len(box \o x) = Len(box) + n /\ Len(box) \in Nat
        /\ \A i \in 1..Len(box) : (box \o x)[i] = box[i]
        /\ \A i \in (Len(box) + 1)..(Len(box) + n) : (box \o x)[i] = x[i - Len(box)]
    BY <1>2
  <1>4. ASSUME NEW i \in (Len(box) + 1)..(Len(box) + n)
        PROVE  (box \o x)[i].type \in Other
    <2>1. i - Len(box) \in 1..n
      BY <1>3
    <2> QED
      BY <1>1, <1>2, <1>3, <2>1
  <1>5. Grown(box \o x, box)
    BY <1>3, <1>4 DEF Grown, Mute
  <1> QED
    BY <1>5 DEF x, m

LEMMA GrownSelf ==
  ASSUME NEW box \in Seq(Packets)
  PROVE  Grown(box, box)
  BY DEF Grown

-----------------------------------------------------------------------------
(* Publish requests. What arrives at the server takes the acknowledgements *)
(* with it, if there is a request to carry them.                           *)
LEMMA ArriveFacts ==
  ASSUME ServerTypes, Sessions, NEW n \in Nat, NEW a, NEW box \in Seq(Packets), Arrive(n, a, box)
  PROVE  /\ Grown(inbox', box) /\ reqs' \in Nat /\ retr' \in [Subs -> SUBSET Nums]
         /\ \A s \in Subs : retr'[s] \subseteq retr[s]
         /\ net = "up" /\ srv # {} /\ n > 0 =>
               \A s \in Subs : \A k \in retr'[s] : <<s, k>> \notin a
  <1> DEFINE room == IF srvLimit = 0 \/ reqs + n <= srvLimit THEN reqs + n ELSE srvLimit
             over == reqs + n - room
  <1>1. reqs \in Nat /\ srvLimit \in Nat /\ retr \in [Subs -> SUBSET Nums]
    BY ConstFacts DEF ServerTypes
  <1>2. room \in Nat /\ over \in Nat
    BY <1>1
  <1> HIDE DEF over, room
  <1>3. \/ /\ net # "up" /\ inbox' = box /\ reqs' = reqs /\ retr' = retr
        \/ /\ net = "up" /\ ~session /\ inbox' = box \o Times(n, Answer("badSession"))
           /\ reqs' = reqs /\ retr' = retr
        \/ /\ net = "up" /\ srv = {} /\ inbox' = box \o Times(n, Answer("noSub"))
           /\ reqs' = reqs /\ retr' = retr
        \/ /\ net = "up" /\ srv # {} /\ inbox' = box \o Times(over, Answer("tooMany"))
           /\ reqs' = room
           /\ retr' = IF n = 0 THEN retr ELSE [s \in Subs |-> {k \in retr[s] : <<s, k>> \notin a}]
    BY DEF Arrive, room, over
  <1>4. Grown(inbox', box)
    BY <1>2, <1>3, GrownBy, GrownSelf DEF Other
  <1>5. reqs' \in Nat
    BY <1>1, <1>2, <1>3
  <1>6. CASE retr' = retr /\ ~(net = "up" /\ srv # {} /\ n > 0)
    BY <1>1, <1>4, <1>5, <1>6
  <1>7. CASE retr' = [s \in Subs |-> {k \in retr[s] : <<s, k>> \notin a}]
    BY <1>1, <1>4, <1>5, <1>7
  <1>8. CASE ~session
    BY <1>3, <1>6, <1>8 DEF Sessions
  <1> QED
    BY <1>3, <1>6, <1>7, <1>8

(* What a background publish does, with a to be acknowledged and box to be *)
(* read still, and the server of its own. The acknowledgements are in the  *)
(* list, or the server keeps no such notification, or a failure is noted.  *)
Published(a, box) ==
  /\ acks' \subseteq Subs \X Nums /\ out' \in Int /\ net' \in {net, "broken", "closed"}
  /\ inbox' \in Seq(Packets) /\ session' \in {session, FALSE} /\ reqs' \in Nat
  /\ srv' \subseteq srv /\ srvItems' \subseteq srvItems \cap srv'
  /\ number' \in [Subs -> 0..MaxNotes] /\ retr' \in [Subs -> SUBSET Nums]
  /\ \A s \in srv' : number'[s] = number[s] /\ retr'[s] \subseteq retr[s]
  /\ (~session' => srv' = {}) /\ (net' # "up" => ~session')
  /\ Grown(inbox', box) \/ (inbox' = <<>> /\ srv' = {})
  /\ forgot => forgot'
  /\ net' = "up" /\ ~forgot' =>
        \A s \in srv' : \A k \in retr'[s] : <<s, k>> \in a => <<s, k>> \in acks'

LEMMA HangupFacts ==
  ASSUME ServerTypes, Hangup
  PROVE  /\ net' = "closed" /\ inbox' = <<>> /\ inbox' \in Seq(Packets) /\ Len(inbox') = 0
         /\ session' = FALSE /\ srv' = {} /\ srvItems' = {}
         /\ number' \in [Subs -> 0..MaxNotes] /\ retr' \in [Subs -> SUBSET Nums]
         /\ reqs' = 0 /\ reqs' \in Nat
  <1>1. /\ net' = "closed" /\ inbox' = <<>> /\ session' = FALSE /\ srv' = {} /\ reqs' = 0
        /\ srvItems' = {}
        /\ number' = [s \in Subs |-> IF s \in srv THEN 0 ELSE number[s]]
        /\ retr' = [s \in Subs |-> IF s \in srv THEN {} ELSE retr[s]]
    BY DEF Hangup, Ends, ServerTypes
  <1>2. number' \in [Subs -> 0..MaxNotes] /\ retr' \in [Subs -> SUBSET Nums]
    BY <1>1, ConstFacts DEF ServerTypes
  <1> QED
    BY <1>1, <1>2

LEMMA PublishFacts ==
  ASSUME ServerTypes, Sessions, NEW o \in Int, NEW l \in 1..OutStanding,
         NEW a \in SUBSET (Subs \X Nums), NEW box \in Seq(Packets),
         \/ BackgroundPublish(o, l, a, box)
         \/ Proceeds(o, l, a, box) /\ (forgot => forgot')
  PROVE  Published(a, box)
  <1>1. /\ session \in BOOLEAN /\ number \in [Subs -> 0..MaxNotes] /\ retr \in [Subs -> SUBSET Nums]
        /\ srvItems \subseteq srv /\ reqs \in Nat /\ srv \subseteq Subs /\ l \in Nat
    BY ConstFacts DEF ServerTypes
  (* A send of n requests with everything else as it was.                  *)
  <1>2. ASSUME NEW n \in Nat, Arrive(n, a, box), UNCHANGED <<net, session, srv, srvItems, number>>,
               forgot => forgot', out' \in Int,
               acks' = a \/ (acks' = {} /\ (n > 0 \/ forgot' \/ a = {}))
        PROVE  Published(a, box)
    <2>1. /\ Grown(inbox', box) /\ reqs' \in Nat /\ retr' \in [Subs -> SUBSET Nums]
          /\ \A s \in Subs : retr'[s] \subseteq retr[s]
          /\ net = "up" /\ srv # {} /\ n > 0 => \A s \in Subs : \A k \in retr'[s] : <<s, k>> \notin a
      BY <1>2, ArriveFacts
    <2>2. inbox' \in Seq(Packets)
      BY <2>1 DEF Grown
    <2>3. net' = "up" /\ ~forgot' =>
            \A s \in srv' : \A k \in retr'[s] : <<s, k>> \in a => <<s, k>> \in acks'
      BY <1>1, <1>2, <2>1
    <2> QED
      BY <1>1, <1>2, <2>1, <2>2, <2>3 DEF Published, Sessions
  <1>3. ASSUME Proceeds(o, l, a, box), forgot => forgot'
        PROVE  Published(a, box)
    <2>1. CASE Full(o, l)
      <3>1. /\ out' = o /\ acks' = a /\ inbox' = box
            /\ UNCHANGED <<net, session, srv, srvItems, number, retr, reqs>>
        BY <1>3, <2>1 DEF Proceeds, server
      <3> QED
        BY <1>1, <1>3, <3>1, GrownSelf DEF Published, Sessions
    <2>2. CASE ~Full(o, l)
      <3>1. /\ out' = l /\ acks' = {} /\ Arrive(l - o, a, box)
            /\ UNCHANGED <<net, session, srv, srvItems, number>>
        BY <1>3, <2>2 DEF Proceeds, SendsAll
      <3>2. l - o \in Nat /\ l - o > 0 /\ out' \in Int
        BY <1>1, <2>2, <3>1 DEF Full
      <3> QED
        BY <1>2, <1>3, <3>1, <3>2
    <2> QED
      BY <2>1, <2>2
  <1>4. ASSUME BuildFails(o, l, a, box)
        PROVE  Published(a, box)
    <2>1. PICK j \in 0..(l - o - 1) :
            /\ out' = o + j /\ acks' = (IF j = 0 THEN a ELSE {}) /\ Arrive(j, a, box)
            /\ UNCHANGED <<net, session, srv, srvItems, number, forgot>>
      BY <1>4 DEF BuildFails
    <2>2. j \in Nat /\ out' \in Int
      BY <2>1
    <2>3. acks' = a \/ (acks' = {} /\ j > 0)
      BY <2>1, <2>2
    <2> QED
      BY <1>2, <2>1, <2>2, <2>3
  <1>5. ASSUME SendFails(o, l, a, box)
        PROVE  Published(a, box)
    <2>1. PICK j \in 0..(l - o - 1) :
            /\ out' = o + j + 1 /\ acks' = {} /\ Arrive(j, a, box)
            /\ forgot' = (forgot \/ (j = 0 /\ a # {}))
            /\ UNCHANGED <<net, session, srv, srvItems, number>>
      BY <1>5 DEF SendFails
    <2>2. j \in Nat /\ out' \in Int
      BY <2>1
    <2>3. j = 0 /\ a # {} => forgot'
      BY <2>1
    <2>4. j > 0 \/ forgot' \/ a = {}
      BY <2>2, <2>3
    <2>5. forgot => forgot'
      BY <2>1
    <2> QED
      BY <1>2, <2>1, <2>2, <2>4, <2>5
  <1>6. ASSUME WriteFails(o, l, a, box)
        PROVE  Published(a, box)
    <2>1. /\ \E j \in 0..(l - o - 1) : out' = o + j + 1
          /\ acks' = {} /\ Hangup /\ forgot' = forgot
      BY <1>6 DEF WriteFails
    <2>2. out' \in Int
      BY <2>1
    <2> QED
      BY <2>1, <2>2, HangupFacts DEF Published
  <1> QED
    BY <1>3, <1>4, <1>5, <1>6 DEF BackgroundPublish

-----------------------------------------------------------------------------
(* Ending a connection: the list is deleted, what a call holds comes back. *)
LEMMA DeleteFacts ==
  ASSUME ClientTypes, NEW S \in SUBSET Subs, NEW cut \in SUBSET Monitored, DeleteInternal(S, cut)
  PROVE  /\ items' = items \ S /\ asked' = asked
         /\ ended' \in [Monitored -> Nat] /\ gone' \in [Subs -> Nat]
         /\ seen' \in [Subs -> 0..MaxNotes]
         /\ delivered' \in [Subs -> SUBSET Nums] /\ announced' \in [Subs -> SUBSET Nums]
         /\ \A s \in Monitored :
               ended'[s] = IF s \in (items \cap S) \cup cut THEN ended[s] + 1 ELSE ended[s]
         /\ \A s \in S : gone'[s] = gone[s] + 1 /\ seen'[s] = 0 /\ delivered'[s] = {}
         /\ \A s \in Subs \ S : /\ gone'[s] = gone[s] /\ seen'[s] = seen[s]
                               /\ delivered'[s] = delivered[s] /\ announced'[s] = announced[s]
  <1>1. /\ items' = items \ S /\ asked' = asked
        /\ ended' = [s \in Monitored |-> IF s \in (items \cap S) \cup cut THEN ended[s] + 1 ELSE ended[s]]
        /\ gone' = [s \in Subs |-> IF s \in S THEN gone[s] + 1 ELSE gone[s]]
        /\ seen' = [s \in Subs |-> IF s \in S THEN 0 ELSE seen[s]]
        /\ delivered' = [s \in Subs |-> IF s \in S THEN {} ELSE delivered[s]]
        /\ announced' = [s \in Subs |-> IF s \in S THEN {} ELSE announced[s]]
    BY DEF DeleteInternal, ItemCallbacks
  <1>2. /\ ended \in [Monitored -> Nat] /\ gone \in [Subs -> Nat] /\ seen \in [Subs -> 0..MaxNotes]
        /\ delivered \in [Subs -> SUBSET Nums] /\ announced \in [Subs -> SUBSET Nums]
    BY DEF ClientTypes
  <1>3. ended' \in [Monitored -> Nat] /\ gone' \in [Subs -> Nat]
    BY <1>1, <1>2
  <1>4. seen' \in [Subs -> 0..MaxNotes]
    BY <1>1, <1>2, ConstFacts
  <1>5. delivered' \in [Subs -> SUBSET Nums] /\ announced' \in [Subs -> SUBSET Nums]
    BY <1>1, <1>2
  <1>6. \A s \in Monitored :
               ended'[s] = IF s \in (items \cap S) \cup cut THEN ended[s] + 1 ELSE ended[s]
    BY <1>1
  <1>7. \A s \in S : gone'[s] = gone[s] + 1 /\ seen'[s] = 0 /\ delivered'[s] = {}
    BY <1>1
  <1>8. \A s \in Subs \ S : /\ gone'[s] = gone[s] /\ seen'[s] = seen[s]
                          /\ delivered'[s] = delivered[s] /\ announced'[s] = announced[s]
    BY <1>1
  <1> QED
    BY <1>1, <1>3, <1>4, <1>5, <1>6, <1>7, <1>8

LEMMA CutFacts ==
  ASSUME ClientTypes, Targets
  PROVE  /\ CutOff \subseteq Monitored /\ CutOff \cap items = {} /\ CutOff \subseteq asked
         /\ pc # "addItem" => CutOff = {}
  BY DEF CutOff, ClientTypes, Targets

(* An empty inbox and a server that has nothing leave little to say.       *)
LEMMA NothingLeft ==
  ASSUME inbox' = <<>>, Len(inbox') = 0, srv' = {}, srvItems' = {}
  PROVE  Inbox' /\ DeliveredKnown'
  BY DEF Inbox, OneReply, DataKnown, CreateAnswered, ReplyFirst, DeliveredKnown

LEMMA CloseKeeps ==
  ASSUME IInv, Close, lastId' = lastId, srvLimit' = srvLimit
  PROVE  IInv'
  <1> USE DEF IInv, Books
  <1>1. /\ state' = "DISCONNECTED" /\ pc' = "idle" /\ target' = {}
        /\ DeleteInternal(listed, CutOff) /\ acks' = {} /\ Hangup
        /\ listed' = IF pc = "delete" THEN target ELSE {}
        /\ UNCHANGED <<out, limit, forgot>>
    BY DEF Close, Return
  <1>2. /\ CutOff \subseteq Monitored /\ CutOff \cap items = {} /\ CutOff \subseteq asked
        /\ pc # "addItem" => CutOff = {}
    BY CutFacts
  <1>3. /\ items' = items \ listed /\ asked' = asked
        /\ ended' \in [Monitored -> Nat] /\ gone' \in [Subs -> Nat] /\ seen' \in [Subs -> 0..MaxNotes]
        /\ delivered' \in [Subs -> SUBSET Nums] /\ announced' \in [Subs -> SUBSET Nums]
        /\ \A s \in Monitored :
              ended'[s] = IF s \in (items \cap listed) \cup CutOff THEN ended[s] + 1 ELSE ended[s]
        /\ \A s \in listed : gone'[s] = gone[s] + 1 /\ seen'[s] = 0 /\ delivered'[s] = {}
        /\ \A s \in Subs \ listed : /\ gone'[s] = gone[s] /\ seen'[s] = seen[s]
                                   /\ delivered'[s] = delivered[s] /\ announced'[s] = announced[s]
    <2>1. listed \in SUBSET Subs /\ CutOff \in SUBSET Monitored
      BY <1>2 DEF ClientTypes
    <2> QED
      BY <1>1, <2>1, DeleteFacts
  <1>4. /\ net' = "closed" /\ inbox' = <<>> /\ inbox' \in Seq(Packets) /\ Len(inbox') = 0
        /\ session' = FALSE /\ srv' = {} /\ srvItems' = {} /\ reqs' \in Nat
        /\ number' \in [Subs -> 0..MaxNotes] /\ retr' \in [Subs -> SUBSET Nums]
    BY <1>1, HangupFacts
  <1>5. ClientTypes'
    BY <1>1, <1>3 DEF ClientTypes
  <1>6. ServerTypes' /\ Sessions'
    BY <1>4 DEF ServerTypes, Sessions
  <1>7. listed' \cap listed = {} /\ listed' \subseteq 1..lastId /\ listed' \subseteq Subs
    BY <1>1 DEF Targets, ClientTypes
  <1>8. Targets'
    BY <1>1, <1>3, <1>4, <1>7 DEF Targets
  <1>9. Inbox' /\ DeliveredKnown'
    BY <1>4, NothingLeft
  <1>10. EndsOnce'
    <2>1. ASSUME NEW s \in 1..lastId
          PROVE  gone'[s] = IF s \in listed' THEN 0 ELSE 1
      <3>1. gone[s] = IF s \in listed \/ s \in listed' THEN 0 ELSE 1
        BY <1>1 DEF EndsOnce
      <3>2. s \in Subs
        BY ConstFacts DEF ServerTypes, Subs
      <3> QED
        BY <1>3, <1>7, <3>1, <3>2
    <2>2. ASSUME NEW s \in asked
          PROVE  ended'[s] = IF s \in items' THEN 0 ELSE 1
      <3>1. s \in Monitored /\ ended[s] = IF s \in items \cup CutOff THEN 0 ELSE 1
        BY DEF EndsOnce, ClientTypes
      <3>2. CASE s \in CutOff
        BY <1>2, <1>3, <3>1, <3>2
      <3>3. CASE s \notin CutOff
        BY <1>3, <3>1, <3>3
      <3> QED
        BY <3>2, <3>3
    <2>3. CutOff' = {}
      BY <1>1 DEF CutOff
    <2> QED
      BY <1>1, <1>3, <2>1, <2>2, <2>3 DEF EndsOnce
  <1>11. Fresh'
    <2>1. ASSUME NEW s \in Subs, s > lastId
          PROVE  gone'[s] = 0 /\ seen'[s] = 0 /\ delivered'[s] = {}
      <3>1. s \notin listed
        BY <2>1, ConstFacts DEF Targets, ServerTypes
      <3> QED
        BY <1>3, <2>1, <3>1 DEF Fresh
    <2>2. ASSUME NEW s \in Monitored \ asked
          PROVE  ended'[s] = 0
      BY <1>2, <1>3 DEF Fresh, Targets
    <2> QED
      BY <1>3, <2>1, <2>2 DEF Fresh
  <1>12. AcksHeld'
    BY <1>1 DEF AcksHeld
  <1>13. GapHeld'
    <2> SUFFICES ASSUME NEW s \in listed', s \in asked => ended'[s] = 0, NEW n \in 1..seen'[s]
                 PROVE  n \in delivered'[s] \cup announced'[s]
      BY <1>1, <1>3 DEF GapHeld, Held
    <2>1. s \in Held /\ s \in Subs \ listed
      BY <1>1, <1>7 DEF Held
    <2>2. s \in asked => ended[s] = 0
      BY <1>3, <2>1 DEF ClientTypes
    <2> QED
      BY <1>3, <2>1, <2>2 DEF GapHeld
  <1> QED
    BY <1>5, <1>6, <1>8, <1>9, <1>10, <1>11, <1>12, <1>13

-----------------------------------------------------------------------------
(* Answers to publish requests. box is the inbox without its first k, none *)
(* of them a reply.                                                        *)
Without(k, box) ==
  /\ box \in Seq(Packets) /\ Len(box) + k = Len(inbox)
  /\ \A i \in 1..Len(box) : i + k \in 1..Len(inbox) /\ box[i] = inbox[i + k]
  /\ \A i \in 1..k : ~IsReply(i)

LEMMA WithoutHead ==
  ASSUME ServerTypes, inbox # <<>>, Head(inbox).type # "sync"
  PROVE  Without(1, Tail(inbox))
  <1>1. inbox \in Seq(Packets)
    BY DEF ServerTypes
  <1>2. /\ Tail(inbox) \in Seq(Packets) /\ Len(Tail(inbox)) + 1 = Len(inbox) /\ Head(inbox) = inbox[1]
        /\ \A i \in 1..Len(Tail(inbox)) : i + 1 \in 1..Len(inbox) /\ Tail(inbox)[i] = inbox[i + 1]
    BY <1>1
  <1> QED
    BY <1>2 DEF Without, IsReply

(* The thread is in the same call as before, or in none.                   *)
SameCall ==
  \/ UNCHANGED <<pc, target>>
  \/ pc \in {"idle", "listen"} /\ pc' \in {"idle", "listen"}

(* What a publish does to the inbox and to the server disturbs nothing.    *)
LEMMA PublishedKeeps ==
  ASSUME IInv, NEW a, NEW k \in {0, 1}, NEW box, Without(k, box), Published(a, box), SameCall,
         UNCHANGED <<listed, items, asked, lastId, srvLimit>>
  PROVE  ServerTypes' /\ Sessions' /\ Targets' /\ Inbox'
  <1> USE DEF IInv
  <1>1. ServerTypes' /\ Sessions'
    BY DEF ServerTypes, Sessions, Published
  <1>2. Targets'
    BY DEF Targets, Published, SameCall
  <1>3. CASE inbox' = <<>> /\ srv' = {}
    <2>1. Len(inbox') = 0 /\ srvItems' = {}
      BY <1>3 DEF Published
    <2> QED
      BY <1>1, <1>2, <1>3, <2>1, NothingLeft
  <1>4. CASE Grown(inbox', box)
    <2>1. /\ Len(box) \in Nat /\ Len(inbox') \in Nat /\ Len(inbox) \in Nat /\ Len(box) <= Len(inbox')
          /\ Len(box) + k = Len(inbox)
      BY <1>4 DEF Without, Grown, ServerTypes
    <2>2. ASSUME NEW i \in 1..Len(inbox')
          PROVE  \/ i + k \in 1..Len(inbox) /\ inbox'[i] = inbox[i + k]
                 \/ inbox'[i].type \in Mute
      <3>1. CASE i \in 1..Len(box)
        BY <1>4, <3>1 DEF Without, Grown
      <3>2. CASE i \in (Len(box) + 1)..Len(inbox')
        BY <1>4, <3>2 DEF Grown
      <3> QED
        BY <2>1, <3>1, <3>2
    <2>3. ASSUME NEW j \in 1..Len(inbox), IsReply(j)
          PROVE  j - k \in 1..Len(inbox') /\ IsReply(j - k)'
      <3>1. j - k \in 1..Len(box)
        BY <2>1, <2>3 DEF Without
      <3>2. j - k + k = j
        BY <2>1
      <3>3. box[j - k] = inbox[j]
        BY <3>1, <3>2 DEF Without
      <3> QED
        BY <1>4, <2>1, <2>3, <3>1, <3>3 DEF Grown, IsReply
    <2>4. ASSUME NEW i \in 1..Len(inbox'), IsReply(i)'
          PROVE  i + k \in 1..Len(inbox) /\ IsReply(i + k) /\ inbox'[i] = inbox[i + k]
      BY <2>2, <2>4 DEF IsReply, Mute, Other
    <2>5. ASSUME NEW i \in 1..Len(inbox'), NEW s \in Subs, IsData(i, s)'
          PROVE  i + k \in 1..Len(inbox) /\ IsData(i + k, s) /\ inbox'[i] = inbox[i + k]
      BY <2>2, <2>5 DEF IsData, Mute, Other
    <2>6. OneReply'
      <3>1. ASSUME NEW i \in 1..Len(inbox'), IsReply(i)'
            PROVE  pc' \in Calls /\ (pc' = "delete" => inbox'[i].refused \subseteq target')
        BY <2>4, <3>1 DEF Inbox, OneReply, SameCall, Calls
      <3>2. ASSUME NEW i \in 1..Len(inbox'), NEW j \in 1..Len(inbox'), IsReply(i)', IsReply(j)'
            PROVE  i = j
        <4>1. i + k = j + k
          BY <2>4, <3>2 DEF Inbox, OneReply
        <4> QED
          BY <4>1
      <3> QED
        BY <3>1, <3>2 DEF OneReply
    <2>7. DataKnown'
      <3>1. \A s \in srv' : s \in srv /\ Known(s)' = Known(s) /\ number'[s] = number[s]
        BY DEF Published, Known, SameCall
      <3>2. ASSUME NEW s \in Subs, NEW i \in 1..Len(inbox'), IsData(i, s)'
            PROVE  Known(s)' /\ s \in asked' /\ (s \in srv' => inbox'[i].n <= number'[s])
        <4>1. Known(s) /\ s \in asked /\ (s \in srv => inbox[i + k].n <= number[s])
          BY <2>5, <3>2 DEF Inbox, DataKnown
        <4>2. Known(s)'
          BY <4>1 DEF Known, SameCall
        <4> QED
          BY <2>5, <3>1, <3>2, <4>1, <4>2
      <3> QED
        BY <3>1, <3>2 DEF Inbox, DataKnown
    <2>8. CreateAnswered'
      <3> SUFFICES ASSUME pc' = "create",
                          lastId + 1 \in srv' \/ \E i \in 1..Len(inbox') : IsData(i, lastId + 1)',
                          NEW j \in 1..Len(inbox'), IsReply(j)'
                   PROVE  inbox'[j].ok
        BY DEF CreateAnswered
      <3>1. pc = "create" /\ lastId + 1 \in Subs
        BY DEF SameCall, Targets, ClientTypes
      <3>2. lastId + 1 \in srv \/ \E i \in 1..Len(inbox) : IsData(i, lastId + 1)
        BY <2>5, <3>1 DEF Published
      <3> QED
        BY <2>4, <3>1, <3>2 DEF Inbox, CreateAnswered
    <2>9. ReplyFirst'
      <3> SUFFICES ASSUME pc' = "addItem", NEW s \in target'
                   PROVE  /\ s \in srvItems' => \E j \in 1..Len(inbox') : IsReply(j)'
                          /\ \A i \in 1..Len(inbox') : IsData(i, s)' => \E j \in 1..(i - 1) : IsReply(j)'
        BY DEF ReplyFirst
      <3>1. pc = "addItem" /\ s \in target /\ s \in Subs
        BY ConstFacts DEF SameCall, Targets, ClientTypes
      <3>2. s \in srvItems' => \E j \in 1..Len(inbox') : IsReply(j)'
        BY <2>3, <3>1 DEF Inbox, ReplyFirst, Published
      <3>3. ASSUME NEW i \in 1..Len(inbox'), IsData(i, s)'
            PROVE  \E j \in 1..(i - 1) : IsReply(j)'
        <4>1. i + k \in 1..Len(inbox) /\ IsData(i + k, s)
          BY <2>5, <3>1, <3>3
        <4>2. PICK j \in 1..(i + k - 1) : IsReply(j)
          BY <3>1, <4>1 DEF Inbox, ReplyFirst
        <4>3. j \in 1..Len(inbox)
          BY <2>1, <4>1
        <4>4. j - k \in 1..Len(inbox') /\ IsReply(j - k)'
          BY <2>3, <4>2, <4>3
        <4>5. j - k \in 1..(i - 1)
          BY <2>1, <4>2, <4>4
        <4> QED
          BY <4>4, <4>5
      <3> QED
        BY <3>2, <3>3
    <2> QED
      BY <1>1, <1>2, <2>6, <2>7, <2>8, <2>9 DEF Inbox
  <1> QED
    BY <1>3, <1>4 DEF Published

(* The same subscriptions are held, or fewer the server knows.             *)
LEMMA SameHeld ==
  ASSUME SameCall, listed' = listed, NEW a, NEW box, Published(a, box)
  PROVE  Held' = Held /\ CutOff' = CutOff /\ srv' \subseteq srv
  BY DEF SameCall, Held, CutOff, Published

LEMMA SameEnds ==
  ASSUME EndsOnce, SameCall, UNCHANGED <<state, listed, items, lastId, gone, asked, ended, freedUsed>>
  PROVE  EndsOnce'
  BY DEF EndsOnce, SameCall, CutOff

(* If no number is seen, what is delivered and known to be acknowledged    *)
(* stays so.                                                               *)
LEMMA SameBooks ==
  ASSUME IInv, NEW a, acks \subseteq a, NEW box, Published(a, box), SameCall,
         UNCHANGED <<state, listed, items, seen, lastId, delivered, announced, gone, asked, ended,
                     freedUsed>>
  PROVE  EndsOnce' /\ Books'
  <1> USE DEF IInv, Books
  <1>1. EndsOnce'
    BY SameEnds
  <1>2. Held' = Held /\ srv' \subseteq srv
    BY SameHeld
  <1>3. \A s \in srv' : number'[s] = number[s] /\ retr'[s] \subseteq retr[s]
    BY DEF Published
  <1>4. Fresh' /\ DeliveredKnown' /\ GapHeld'
    BY <1>2, <1>3 DEF Fresh, DeliveredKnown, GapHeld
  <1>5. AcksHeld'
    <2> SUFFICES ASSUME state' = "SESSION", net' = "up", ~forgot', NEW s \in Held' \cap srv',
                        NEW n \in delivered'[s] \cap retr'[s]
                 PROVE  <<s, n>> \in acks'
      BY DEF AcksHeld
    <2>1. state = "SESSION" /\ net = "up" /\ ~forgot
      BY DEF Published
    <2>2. s \in Held \cap srv /\ n \in delivered[s] \cap retr[s]
      BY <1>2, <1>3
    <2>3. <<s, n>> \in a
      BY <2>1, <2>2 DEF AcksHeld
    <2> QED
      BY <2>3 DEF Published
  <1> QED
    BY <1>1, <1>4, <1>5

LEMMA AnsweredFacts ==
  ASSUME ClientTypes, ServerTypes, Sessions, inbox # <<>>, Head(inbox).type # "sync",
         NEW l \in 1..OutStanding, NEW a \in SUBSET (Subs \X Nums),
         \/ Answered(l, a)
         \/ Proceeds(out - 1, l, a, Tail(inbox)) /\ (forgot => forgot')
  PROVE  Published(a, Tail(inbox)) /\ Without(1, Tail(inbox))
  <1>1. Without(1, Tail(inbox))
    BY WithoutHead
  <1>2. Tail(inbox) \in Seq(Packets) /\ out - 1 \in Int
    BY <1>1 DEF Without, ClientTypes
  <1> QED
    BY <1>1, <1>2, PublishFacts DEF Answered

LEMMA IgnoredKeeps ==
  ASSUME IInv, inbox # <<>>, Head(inbox).type # "sync", NEW l \in 1..OutStanding, Ignored(l),
         UNCHANGED <<lastId, srvLimit>>
  PROVE  IInv'
  <1> USE DEF IInv
  <1>1. /\ Answered(l, acks) /\ limit' = l
        /\ UNCHANGED <<state, pc, target, listed, items, seen, delivered, announced, gone, asked, ended,
                       freedUsed>>
    BY DEF Ignored, thread, history
  <1>2. acks \in SUBSET (Subs \X Nums)
    BY DEF ClientTypes
  <1>3. Published(acks, Tail(inbox)) /\ Without(1, Tail(inbox)) /\ SameCall
    BY <1>1, <1>2, AnsweredFacts DEF SameCall
  <1>4. ServerTypes' /\ Sessions' /\ Targets' /\ Inbox'
    BY <1>1, <1>3, PublishedKeeps
  <1>5. EndsOnce' /\ Books'
    BY <1>1, <1>3, SameBooks
  <1>6. ClientTypes'
    BY <1>1, <1>3 DEF ClientTypes, Published
  <1> QED
    BY <1>4, <1>5, <1>6

(* What a notification or a keep-alive says of a listed subscription. The  *)
(* item of a notification has its entry: the reply to its request has been *)
(* read before.                                                            *)
LEMMA HeadKnown ==
  ASSUME IInv, inbox # <<>>, Head(inbox).type = "data", Head(inbox).s \in listed
  PROVE  LET m == Head(inbox)
         IN  /\ m.s \in asked /\ (m.s \in srv => m.n <= number[m.s])
             /\ m.s \notin CutOff /\ (ended[m.s] = 0 => m.s \in items)
  <1> USE DEF IInv
  <1> DEFINE m == Head(inbox)
  <1>1. m = inbox[1] /\ 1 \in 1..Len(inbox) /\ m \in Packets
    BY DEF ServerTypes
  <1> HIDE DEF m
  <1>2. m.s \in Subs /\ IsData(1, m.s)
    BY <1>1, PacketFacts DEF m, IsData
  <1>3. m.s \in asked /\ (m.s \in srv => m.n <= number[m.s])
    BY <1>1, <1>2 DEF Inbox, DataKnown
  <1>4. m.s \notin CutOff
    <2> SUFFICES ASSUME pc = "addItem", m.s \in target
                 PROVE  FALSE
      BY DEF CutOff
    <2>1. \E j \in 1..(1 - 1) : IsReply(j)
      BY <1>1, <1>2 DEF Inbox, ReplyFirst
    <2> QED
      BY <2>1
  <1>5. ended[m.s] = 0 => m.s \in items
    BY <1>3, <1>4 DEF EndsOnce
  <1> QED
    BY <1>3, <1>4, <1>5 DEF m

LEMMA ProcessedKeeps ==
  ASSUME IInv, inbox # <<>>, Head(inbox).type \in {"data", "keep"}, Head(inbox).s \in listed,
         Follows(Head(inbox).s, Head(inbox).n), Processed(Head(inbox)), UNCHANGED <<lastId, srvLimit>>
  PROVE  IInv'
  <1> USE DEF IInv, Books
  <1> DEFINE m == Head(inbox)
             b == IF m.type = "data" THEN acks \cup {<<m.s, m.n>>} ELSE acks
  <1>1. m \in Packets /\ m.type \in {"data", "keep"} /\ m.s \in listed /\ m.s \in Subs /\ m.n \in Nums
        /\ m.n \in {seen[m.s], seen[m.s] + 1}
    BY PacketFacts DEF ServerTypes, Follows
  <1>2. /\ seen' = [seen EXCEPT ![m.s] = m.n]
        /\ UNCHANGED <<state, pc, target, listed, items, limit, gone, asked, ended, freedUsed>>
    BY DEF Processed, thread
  <1>3. /\ b \in SUBSET (Subs \X Nums) /\ acks \in SUBSET (Subs \X Nums) /\ limit \in 1..OutStanding
        /\ acks \subseteq b /\ (m.type = "data" => <<m.s, m.n>> \in b) /\ m.type # "sync"
    BY <1>1 DEF ClientTypes
  <1>4. /\ m.type = "data" =>
              /\ delivered' = IF m.s \in items THEN [delivered EXCEPT ![m.s] = @ \cup {m.n}] ELSE delivered
              /\ announced' = [announced EXCEPT ![m.s] = @ \ {m.n}]
              /\ \/ Answered(limit, b)
                 \/ forgot' = TRUE /\ Proceeds(out - 1, limit, acks, Tail(inbox))
        /\ m.type = "keep" =>
              /\ delivered' = delivered
              /\ announced' = [announced EXCEPT ![m.s] = @ \cup {m.n}]
              /\ Answered(limit, b)
    BY DEF Processed, Data, KeepAlive
  <1> HIDE DEF b
  <1>5. PICK a \in {acks, b} : /\ Published(a, Tail(inbox)) /\ Without(1, Tail(inbox))
                              /\ (a = b \/ forgot')
    <2>1. CASE Answered(limit, b)
      BY <1>3, <2>1, AnsweredFacts
    <2>2. CASE forgot' = TRUE /\ Proceeds(out - 1, limit, acks, Tail(inbox))
      BY <1>3, <2>2, AnsweredFacts
    <2> QED
      BY <1>1, <1>4, <2>1, <2>2
  <1> HIDE DEF m
  <1>6. SameCall /\ Held' = Held /\ srv' \subseteq srv
    BY <1>2, <1>5, SameHeld DEF SameCall
  <1>7. ServerTypes' /\ Sessions' /\ Targets' /\ Inbox'
    BY <1>2, <1>5, <1>6, PublishedKeeps
  <1>8. EndsOnce'
    BY <1>2, <1>6, SameEnds
  <1>9. /\ seen \in [Subs -> 0..MaxNotes] /\ m.n \in 0..MaxNotes
        /\ delivered \in [Subs -> SUBSET Nums] /\ announced \in [Subs -> SUBSET Nums]
    BY <1>1, ConstFacts DEF ClientTypes
  (* The books of this subscription are the only ones that change.         *)
  <1>10. /\ seen' \in [Subs -> 0..MaxNotes] /\ seen'[m.s] = m.n
         /\ \A s \in Subs \ {m.s} : seen'[s] = seen[s]
    BY <1>1, <1>2, <1>9
  <1>11. /\ delivered' \in [Subs -> SUBSET Nums] /\ announced' \in [Subs -> SUBSET Nums]
         /\ \A s \in Subs \ {m.s} : delivered'[s] = delivered[s] /\ announced'[s] = announced[s]
         /\ delivered'[m.s] \subseteq delivered[m.s] \cup {m.n}
         /\ m.type = "keep" => delivered'[m.s] = delivered[m.s]
         /\ m.type = "keep" \/ m.s \in items =>
               delivered[m.s] \cup announced[m.s] \cup {m.n} \subseteq delivered'[m.s] \cup announced'[m.s]
    <2>1. CASE m.type = "data" /\ m.s \in items
      BY <1>1, <1>4, <1>9, <2>1
    <2>2. CASE m.type = "data" /\ m.s \notin items
      BY <1>1, <1>4, <1>9, <2>2
    <2>3. CASE m.type = "keep"
      BY <1>1, <1>4, <1>9, <2>3
    <2> QED
      BY <1>1, <2>1, <2>2, <2>3
  <1>12. ClientTypes'
    BY <1>2, <1>5, <1>10, <1>11 DEF ClientTypes, Published
  <1>13. m.type = "data" => /\ m.s \in asked /\ (m.s \in srv => m.n <= number[m.s])
                            /\ (ended[m.s] = 0 => m.s \in items)
    BY <1>1, HeadKnown DEF m
  <1>14. Fresh'
    <2>1. ASSUME NEW s \in Subs, s > lastId
          PROVE  s # m.s
      BY <1>1, <2>1, ConstFacts DEF Targets, ServerTypes
    <2> QED
      BY <1>2, <1>10, <1>11, <2>1 DEF Fresh
  <1>15. DeliveredKnown'
    <2> SUFFICES ASSUME NEW s \in Held' \cap srv', NEW n \in delivered'[s]
                 PROVE  n <= number'[s]
      BY DEF DeliveredKnown
    <2>1. s \in Held \cap srv /\ number'[s] = number[s] /\ s \in Subs
      BY <1>5, <1>6 DEF Published, ServerTypes
    <2>2. CASE n \in delivered[s]
      BY <2>1, <2>2 DEF DeliveredKnown
    <2>3. CASE n \notin delivered[s]
      BY <1>1, <1>11, <1>13, <2>1, <2>3
    <2> QED
      BY <2>2, <2>3
  <1>16. AcksHeld'
    <2> SUFFICES ASSUME state' = "SESSION", net' = "up", ~forgot', NEW s \in Held' \cap srv',
                        NEW n \in delivered'[s] \cap retr'[s]
                 PROVE  <<s, n>> \in acks'
      BY DEF AcksHeld
    <2>1. state = "SESSION" /\ net = "up" /\ ~forgot /\ a = b
      BY <1>2, <1>5 DEF Published
    <2>2. s \in Held \cap srv /\ s \in Subs /\ n \in retr[s]
      BY <1>5, <1>6 DEF Published, ServerTypes
    <2>3. n \in delivered[s] => <<s, n>> \in b
      BY <1>3, <2>1, <2>2 DEF AcksHeld
    <2>4. n \notin delivered[s] => s = m.s /\ n = m.n /\ m.type = "data"
      BY <1>1, <1>11, <2>2
    <2>5. <<s, n>> \in b
      BY <1>3, <2>3, <2>4
    <2> QED
      BY <1>5, <2>1, <2>5 DEF Published
  <1>17. GapHeld'
    <2> SUFFICES ASSUME NEW s \in Held', s \in asked => ended[s] = 0, NEW n \in 1..seen'[s]
                 PROVE  n \in delivered'[s] \cup announced'[s]
      BY <1>2 DEF GapHeld
    <2>1. s \in Held /\ s \in Subs
      BY <1>6 DEF Held, ClientTypes
    <2>2. CASE s # m.s
      BY <1>10, <1>11, <2>1, <2>2 DEF GapHeld
    <2>3. CASE s = m.s
      <3>1. m.type = "keep" \/ m.s \in items
        BY <1>1, <1>13, <2>3
      <3>2. n \in 1..seen[m.s] \/ n = m.n
        BY <1>1, <1>9, <1>10, <2>3
      <3>3. n \in delivered[m.s] \cup announced[m.s] \cup {m.n}
        BY <2>1, <2>3, <3>2 DEF GapHeld
      <3> QED
        BY <1>11, <2>3, <3>1, <3>3
    <2> QED
      BY <2>2, <2>3
  <1> QED
    BY <1>7, <1>8, <1>12, <1>14, <1>15, <1>16, <1>17

-----------------------------------------------------------------------------
(* Steps that neither read nor see anything: runAsync and its end, and     *)
(* what the server and the world do without a notification.                *)
LEMMA WithoutNone == ServerTypes => Without(0, inbox)
  BY DEF ServerTypes, Without

LEMMA QuietKeeps ==
  ASSUME IInv, Published(acks, inbox), SameCall,
         UNCHANGED <<state, listed, items, seen, limit, srvLimit, lastId, delivered, announced, gone,
                     asked, ended, freedUsed>>,
         pc' \in {pc, "idle", "listen"}, target' \subseteq Subs
  PROVE  IInv'
  <1> USE DEF IInv
  <1>1. Without(0, inbox)
    BY WithoutNone
  <1>2. ServerTypes' /\ Sessions' /\ Targets' /\ Inbox'
    BY <1>1, PublishedKeeps
  <1>3. EndsOnce' /\ Books'
    BY SameBooks
  <1>4. ClientTypes'
    BY DEF ClientTypes, Published
  <1> QED
    BY <1>2, <1>3, <1>4

LEMMA RunAsyncKeeps ==
  ASSUME IInv, RunAsync \/ ListenOver \/ UNCHANGED vars
  PROVE  IInv'
  <1> USE DEF IInv
  <1>1. CASE RunAsync
    <2>1. /\ pc = "idle" /\ pc' \in {"idle", "listen"} /\ BackgroundPublish(out, limit, acks, inbox)
          /\ UNCHANGED <<state, target, listed, items, seen, limit, srvLimit, lastId, delivered, announced,
                         gone, asked, ended, freedUsed>>
      BY <1>1 DEF RunAsync, Calling, history
    <2>2. /\ out \in Int /\ limit \in 1..OutStanding /\ acks \in SUBSET (Subs \X Nums)
          /\ inbox \in Seq(Packets) /\ target \subseteq Subs
      BY DEF ClientTypes, ServerTypes
    <2>3. Published(acks, inbox)
      BY <2>1, <2>2, PublishFacts
    <2> QED
      BY <2>1, <2>2, <2>3, QuietKeeps DEF SameCall
  <1>2. CASE ListenOver \/ UNCHANGED vars
    <2>1. /\ UNCHANGED <<state, listed, items, seen, acks, out, limit, net, inbox, session, srv, srvItems,
                         number, retr, reqs, srvLimit, lastId, delivered, announced, gone, asked, ended,
                         forgot, freedUsed>>
          /\ (pc = "listen" /\ pc' = "idle" /\ target' = {}) \/ UNCHANGED <<pc, target>>
      BY <1>2 DEF ListenOver, Return, vars, thread, client, server, history
    <2>2. inbox \in Seq(Packets)
      BY DEF ServerTypes
    <2>3. Published(acks, inbox)
      BY <2>1, <2>2, GrownSelf DEF Published, ClientTypes, ServerTypes, Sessions
    <2> QED
      BY <2>1, <2>3, QuietKeeps DEF SameCall, ClientTypes
  <1> QED
    BY <1>1, <1>2

LEMMA AppendFacts ==
  ASSUME NEW q \in Seq(Packets), NEW m \in Packets
  PROVE  /\ Append(q, m) \in Seq(Packets) /\ Len(q) \in Nat /\ Len(Append(q, m)) = Len(q) + 1
         /\ \A i \in 1..Len(q) : Append(q, m)[i] = q[i]
         /\ Append(q, m)[Len(q) + 1] = m
         /\ m.type \in Mute => Grown(Append(q, m), q)
  <1>1. /\ Append(q, m) \in Seq(Packets) /\ Len(q) \in Nat /\ Len(Append(q, m)) = Len(q) + 1
        /\ \A i \in 1..Len(q) : Append(q, m)[i] = q[i]
        /\ Append(q, m)[Len(q) + 1] = m
    OBVIOUS
  <1>2. ASSUME m.type \in Mute, NEW i \in (Len(q) + 1)..Len(Append(q, m))
        PROVE  Append(q, m)[i].type \in Mute
    <2>1. i = Len(q) + 1
      BY <1>1
    <2> QED
      BY <1>1, <1>2, <2>1
  <1> QED
    BY <1>1, <1>2 DEF Grown

LEMMA EndsFacts ==
  ASSUME ServerTypes, NEW S \in SUBSET Subs, Ends(S)
  PROVE  /\ srv' = srv \ S /\ srvItems' = srvItems \ S
         /\ number' \in [Subs -> 0..MaxNotes] /\ retr' \in [Subs -> SUBSET Nums]
         /\ \A s \in Subs \ S : number'[s] = number[s] /\ retr'[s] = retr[s]
  <1>1. /\ srv' = srv \ S /\ srvItems' = srvItems \ S
        /\ number' = [s \in Subs |-> IF s \in S THEN 0 ELSE number[s]]
        /\ retr' = [s \in Subs |-> IF s \in S THEN {} ELSE retr[s]]
    BY DEF Ends
  <1>2. number \in [Subs -> 0..MaxNotes] /\ retr \in [Subs -> SUBSET Nums] /\ 0 \in 0..MaxNotes
    BY ConstFacts DEF ServerTypes
  <1>3. number' \in [Subs -> 0..MaxNotes]
    BY <1>1, <1>2
  <1>4. retr' \in [Subs -> SUBSET Nums]
    BY <1>1, <1>2
  <1>5. \A s \in Subs \ S : number'[s] = number[s] /\ retr'[s] = retr[s]
    BY <1>1
  <1> QED
    BY <1>1, <1>3, <1>4, <1>5

LEMMA ServerQuietKeeps ==
  ASSUME IInv, \/ \E s \in Subs : KeepsAlive(s) \/ SubscriptionEnds(s)
               \/ Refuses \/ SessionEnds \/ Break
  PROVE  IInv'
  <1> USE DEF IInv
  <1>1. /\ inbox \in Seq(Packets) /\ reqs \in Nat /\ srv \in SUBSET Subs
        /\ acks \subseteq Subs \X Nums /\ out \in Int /\ target \subseteq Subs
        /\ number \in [Subs -> 0..MaxNotes] /\ retr \in [Subs -> SUBSET Nums] /\ srvItems \subseteq srv
        /\ session \in BOOLEAN
    BY DEF ClientTypes, ServerTypes
  <1>2. ASSUME NEW s \in Subs, KeepsAlive(s)
        PROVE  Published(acks, inbox)
    <2> DEFINE m == [type |-> "keep", s |-> s, n |-> number[s] + 1]
    <2>1. number[s] + 1 \in Nums
      BY <1>1, <1>2, ConstFacts DEF KeepsAlive, Nums
    <2>2. m \in Packets /\ m.type \in Mute
      BY <2>1 DEF Packets, Answers, Mute
    <2>3. (inbox' = Append(inbox, m) \/ inbox' = inbox) /\ reqs' = reqs - 1 /\ reqs > 0
          /\ UNCHANGED <<srv, srvItems, number, retr, acks, out, net, session, forgot>>
      BY <1>2 DEF KeepsAlive, Sends, Elsewhere, client
    <2> HIDE DEF m
    <2>4. Grown(inbox', inbox) /\ inbox' \in Seq(Packets) /\ reqs' \in Nat
      <3>1. Grown(Append(inbox, m), inbox) /\ Append(inbox, m) \in Seq(Packets)
        BY <1>1, <2>2, AppendFacts
      <3>2. Grown(inbox, inbox)
        BY <1>1, GrownSelf
      <3>3. reqs' \in Nat
        BY <1>1, <2>3
      <3> QED
        BY <1>1, <2>3, <3>1, <3>2, <3>3
    <2> QED
      BY <1>1, <2>3, <2>4 DEF Published, Sessions
  <1>3. ASSUME NEW s \in Subs, SubscriptionEnds(s)
        PROVE  Published(acks, inbox)
    <2>1. Ends({s}) /\ UNCHANGED <<inbox, reqs, acks, out, net, session, forgot>> /\ {s} \in SUBSET Subs
      BY <1>3 DEF SubscriptionEnds, Elsewhere, client
    <2>2. /\ srv' = srv \ {s} /\ srvItems' = srvItems \ {s}
          /\ number' \in [Subs -> 0..MaxNotes] /\ retr' \in [Subs -> SUBSET Nums]
          /\ \A r \in Subs \ {s} : number'[r] = number[r] /\ retr'[r] = retr[r]
      BY <2>1, EndsFacts
    <2>3. \A r \in srv' : number'[r] = number[r] /\ retr'[r] \subseteq retr[r]
      BY <1>1, <2>2
    <2> QED
      BY <1>1, <2>1, <2>2, <2>3, GrownSelf DEF Published, Sessions
  <1>4. ASSUME Refuses
        PROVE  Published(acks, inbox)
    <2>1. /\ inbox' = Append(inbox, Answer("other")) /\ reqs' = reqs - 1 /\ reqs > 0
          /\ UNCHANGED <<srv, srvItems, number, retr, acks, out, net, session, forgot>>
      BY <1>4 DEF Refuses, Elsewhere, client
    <2>2. Grown(inbox', inbox) /\ inbox' \in Seq(Packets) /\ reqs' \in Nat
      BY <1>1, <2>1, AppendFacts, AnswerFacts DEF Mute, Other
    <2> QED
      BY <1>1, <2>1, <2>2 DEF Published, Sessions
  <1>5. ASSUME SessionEnds \/ Break
        PROVE  Published(acks, inbox)
    <2>1. /\ Ends(srv) /\ session' = FALSE /\ reqs' = 0 /\ net' \in {net, "broken"}
          /\ inbox' \in {inbox, <<>>} /\ UNCHANGED <<acks, out, forgot>>
      BY <1>5 DEF SessionEnds, Break, client
    <2>2. /\ srv' = {} /\ srvItems' = {}
          /\ number' \in [Subs -> 0..MaxNotes] /\ retr' \in [Subs -> SUBSET Nums]
      BY <1>1, <2>1, EndsFacts
    <2> QED
      <3>1. inbox' \in Seq(Packets) /\ (Grown(inbox', inbox) \/ inbox' = <<>>)
        <4>1. Grown(inbox, inbox)
          BY <1>1, GrownSelf
        <4>2. CASE inbox' = inbox
          BY <1>1, <4>1, <4>2
        <4>3. CASE inbox' = <<>>
          BY <4>3
        <4> QED
          BY <2>1, <4>2, <4>3
      <3>2. \A r \in srv' : number'[r] = number[r] /\ retr'[r] \subseteq retr[r]
        BY <2>2
      <3> QED
        BY <1>1, <2>1, <2>2, <3>1, <3>2 DEF Published
  <1>6. UNCHANGED <<state, pc, target, listed, items, seen, limit, srvLimit, lastId, delivered, announced,
                    gone, asked, ended, freedUsed>>
    BY DEF KeepsAlive, SubscriptionEnds, Refuses, SessionEnds, Break, Elsewhere, thread, client, history
  <1> QED
    BY <1>1, <1>2, <1>3, <1>4, <1>5, <1>6, QuietKeeps DEF SameCall

(* A notification has a number nothing was delivered under.                *)
LEMMA NotifiesKeeps ==
  ASSUME IInv, NEW s \in Subs, Notifies(s)
  PROVE  IInv'
  <1> USE DEF IInv, Books
  <1> DEFINE m == [type |-> "data", s |-> s, n |-> number[s] + 1]
  <1>1. /\ inbox \in Seq(Packets) /\ reqs \in Nat /\ Len(inbox) \in Nat
        /\ number \in [Subs -> 0..MaxNotes] /\ retr \in [Subs -> SUBSET Nums] /\ s \in srvItems
        /\ number[s] < MaxNotes /\ number[s] \in Nat /\ number[s] + 1 \in Nums
        /\ number[s] + 1 \in 0..MaxNotes
    BY ConstFacts DEF ServerTypes, Notifies, Nums
  <1>2. m \in Packets /\ m.type = "data" /\ m.s = s /\ m.n = number[s] + 1
    BY <1>1 DEF Packets, Answers
  <1>3. /\ number' = [number EXCEPT ![s] = @ + 1]
        /\ retr' = [retr EXCEPT ![s] = @ \cup {number'[s]}]
        /\ reqs > 0 /\ reqs' = reqs - 1
        /\ UNCHANGED <<state, pc, target, listed, items, seen, acks, out, limit, net, session, srv, srvItems,
                       srvLimit, lastId, delivered, announced, gone, asked, ended, forgot, freedUsed>>
    BY DEF Notifies, Elsewhere, thread, client, history
  <1>4. number'[s] = number[s] + 1
    BY <1>1, <1>3
  <1>5. inbox' = Append(inbox, m) \/ inbox' = inbox
    BY <1>4 DEF Notifies, Sends
  <1> HIDE DEF m
  <1>6. /\ number' \in [Subs -> 0..MaxNotes] /\ retr' \in [Subs -> SUBSET Nums] /\ reqs' \in Nat
        /\ \A r \in Subs \ {s} : number'[r] = number[r] /\ retr'[r] = retr[r]
        /\ retr'[s] = retr[s] \cup {number[s] + 1}
    <2>1. reqs' \in Nat
      BY <1>1, <1>3
    <2>2. number' \in [Subs -> 0..MaxNotes] /\ \A r \in Subs \ {s} : number'[r] = number[r]
      BY <1>1, <1>3
    <2>3. retr' = [retr EXCEPT ![s] = @ \cup {number[s] + 1}]
      BY <1>3, <1>4
    <2> QED
      BY <1>1, <2>1, <2>2, <2>3
  <1>7. /\ inbox' \in Seq(Packets) /\ Len(inbox) <= Len(inbox')
        /\ \A i \in 1..Len(inbox) : inbox'[i] = inbox[i]
        /\ \A i \in 1..Len(inbox') : i \in 1..Len(inbox) \/ (i = Len(inbox) + 1 /\ inbox'[i] = m)
    <2>1. CASE inbox' = inbox
      BY <1>1, <2>1
    <2>2. CASE inbox' = Append(inbox, m)
      <3>1. /\ inbox' \in Seq(Packets) /\ Len(inbox') = Len(inbox) + 1
            /\ \A i \in 1..Len(inbox) : inbox'[i] = inbox[i]
            /\ inbox'[Len(inbox) + 1] = m
        BY <1>1, <1>2, <2>2, AppendFacts
      <3> QED
        BY <1>1, <3>1
    <2> QED
      BY <1>5, <2>1, <2>2
  <1>8. ClientTypes' /\ Sessions' /\ Targets' /\ EndsOnce'
    BY <1>3 DEF ClientTypes, Sessions, Targets, EndsOnce, CutOff
  <1>9. ServerTypes'
    BY <1>3, <1>6, <1>7 DEF ServerTypes
  <1>10. \A r \in Subs : number[r] \in Nat /\ number'[r] \in Nat /\ number[r] <= number'[r]
    BY <1>1, <1>4, <1>6, ConstFacts
  <1>11. s \in asked /\ Known(s) /\ s \in srv
    BY <1>1 DEF Targets, ServerTypes, Inbox, DataKnown
  <1>12. /\ \A i \in 1..Len(inbox') : IsReply(i)' => i \in 1..Len(inbox) /\ IsReply(i) /\ inbox'[i] = inbox[i]
         /\ \A j \in 1..Len(inbox) : IsReply(j) => j \in 1..Len(inbox') /\ IsReply(j)'
    BY <1>1, <1>2, <1>7 DEF IsReply
  <1>13. \A i \in 1..Len(inbox') : \A r \in Subs : IsData(i, r)' =>
           \/ i \in 1..Len(inbox) /\ IsData(i, r) /\ inbox'[i] = inbox[i]
           \/ r = s /\ i = Len(inbox) + 1 /\ inbox'[i] = m
    BY <1>2, <1>7 DEF IsData
  <1>14. OneReply'
    BY <1>3, <1>12 DEF Inbox, OneReply
  <1>15. DataKnown'
    <2>1. \A r \in srv' : Known(r)'
      BY <1>3 DEF Inbox, DataKnown, Known
    <2>2. ASSUME NEW r \in Subs, NEW i \in 1..Len(inbox'), IsData(i, r)'
          PROVE  Known(r)' /\ r \in asked' /\ (r \in srv' => inbox'[i].n <= number'[r])
      <3>1. CASE i \in 1..Len(inbox) /\ IsData(i, r) /\ inbox'[i] = inbox[i]
        <4>1. Known(r) /\ r \in asked /\ (r \in srv => inbox[i].n <= number[r])
          BY <3>1 DEF Inbox, DataKnown
        <4>2. inbox[i].n \in Nat
          BY <1>1, <3>1, PacketFacts, ConstFacts DEF IsData
        <4> QED
          BY <1>3, <1>10, <3>1, <4>1, <4>2 DEF Known
      <3>2. CASE r = s /\ inbox'[i] = m
        BY <1>2, <1>3, <1>4, <1>10, <1>11, <3>2 DEF Known
      <3> QED
        BY <1>13, <2>2, <3>1, <3>2
    <2> QED
      BY <2>1, <2>2 DEF DataKnown
  <1>16. CreateAnswered'
    <2> SUFFICES ASSUME pc = "create",
                        lastId + 1 \in srv \/ \E i \in 1..Len(inbox') : IsData(i, lastId + 1)',
                        NEW j \in 1..Len(inbox'), IsReply(j)'
                 PROVE  inbox'[j].ok
      BY <1>3 DEF CreateAnswered
    <2>1. lastId + 1 \in Subs
      BY DEF Targets, ClientTypes
    <2>2. lastId + 1 \in srv \/ \E i \in 1..Len(inbox) : IsData(i, lastId + 1)
      <3>1. lastId' = lastId
        BY <1>3
      <3> QED
        BY <1>11, <1>13, <2>1, <3>1
    <2> QED
      BY <1>12, <2>2 DEF Inbox, CreateAnswered
  <1>17. ReplyFirst'
    <2> SUFFICES ASSUME pc = "addItem", NEW r \in target
                 PROVE  /\ r \in srvItems => \E j \in 1..Len(inbox') : IsReply(j)'
                        /\ \A i \in 1..Len(inbox') : IsData(i, r)' => \E j \in 1..(i - 1) : IsReply(j)'
      BY <1>3 DEF ReplyFirst
    <2>1. r \in Subs
      BY DEF ClientTypes
    <2>2. r \in srvItems => \E j \in 1..Len(inbox') : IsReply(j)'
      BY <1>12 DEF Inbox, ReplyFirst
    <2>3. ASSUME NEW i \in 1..Len(inbox'), IsData(i, r)'
          PROVE  \E j \in 1..(i - 1) : IsReply(j)'
      <3>1. CASE i \in 1..Len(inbox) /\ IsData(i, r)
        <4>1. PICK j \in 1..(i - 1) : IsReply(j)
          BY <3>1 DEF Inbox, ReplyFirst
        <4>2. j \in 1..Len(inbox)
          BY <1>1, <3>1
        <4> QED
          BY <1>12, <4>1, <4>2
      <3>2. CASE r = s /\ i = Len(inbox) + 1
        <4>1. PICK j \in 1..Len(inbox) : IsReply(j)
          BY <1>1, <3>2 DEF Inbox, ReplyFirst
        <4>2. j \in 1..(i - 1)
          BY <1>1, <3>2
        <4> QED
          BY <1>12, <4>1, <4>2
      <3> QED
        BY <1>13, <2>1, <2>3, <3>1, <3>2
    <2> QED
      BY <2>2, <2>3
  <1>18. Held' = Held
    BY <1>3 DEF Held
  <1>19. Fresh' /\ GapHeld'
    BY <1>3, <1>18 DEF Fresh, GapHeld
  <1>20. DeliveredKnown'
    <2> SUFFICES ASSUME NEW r \in Held \cap srv, NEW n \in delivered[r]
                 PROVE  n <= number'[r]
      BY <1>3, <1>18 DEF DeliveredKnown
    <2>1. n <= number[r] /\ n \in Nat /\ r \in Subs
      BY ConstFacts DEF DeliveredKnown, ClientTypes, ServerTypes
    <2> QED
      BY <1>10, <2>1
  <1>21. AcksHeld'
    <2> SUFFICES ASSUME state = "SESSION", net = "up", ~forgot, NEW r \in Held \cap srv,
                        NEW n \in delivered[r] \cap retr'[r]
                 PROVE  <<r, n>> \in acks
      BY <1>3, <1>18 DEF AcksHeld
    <2>1. n <= number[r] /\ n \in Nat /\ r \in Subs
      BY ConstFacts DEF DeliveredKnown, ClientTypes, ServerTypes
    <2>2. n \in retr[r]
      BY <1>6, <1>10, <2>1
    <2> QED
      BY <2>2 DEF AcksHeld
  <1>22. Inbox'
    BY <1>14, <1>15, <1>16, <1>17 DEF Inbox
  <1> QED
    BY <1>8, <1>9, <1>19, <1>20, <1>21, <1>22

-----------------------------------------------------------------------------
(* Connecting gives up what is left of the old connection.                 *)
LEMMA ConnectKeeps ==
  ASSUME IInv, Connect
  PROVE  IInv'
  <1> USE DEF IInv, Books
  <1>1. /\ pc = "idle" /\ ~freedUsed /\ state' = "SESSION" /\ DeleteInternal(listed, {})
        /\ listed' = {} /\ acks' = {} /\ out' = 0 /\ net' = "up" /\ session' = TRUE
        /\ UNCHANGED <<pc, target, limit, inbox, srv, srvItems, number, retr, reqs, srvLimit, lastId,
                       freedUsed>>
    BY DEF Connect
  <1>2. /\ items' = items \ listed /\ asked' = asked
        /\ ended' \in [Monitored -> Nat] /\ gone' \in [Subs -> Nat] /\ seen' \in [Subs -> 0..MaxNotes]
        /\ delivered' \in [Subs -> SUBSET Nums] /\ announced' \in [Subs -> SUBSET Nums]
        /\ \A s \in Monitored : ended'[s] = IF s \in (items \cap listed) \cup {} THEN ended[s] + 1 ELSE ended[s]
        /\ \A s \in listed : gone'[s] = gone[s] + 1 /\ seen'[s] = 0 /\ delivered'[s] = {}
        /\ \A s \in Subs \ listed : /\ gone'[s] = gone[s] /\ seen'[s] = seen[s]
                                   /\ delivered'[s] = delivered[s] /\ announced'[s] = announced[s]
    <2>1. listed \in SUBSET Subs /\ {} \in SUBSET Monitored
      BY DEF ClientTypes
    <2> QED
      BY <1>1, <2>1, DeleteFacts
  <1>3. ClientTypes' /\ ServerTypes' /\ Sessions' /\ Targets'
    BY <1>1, <1>2 DEF ClientTypes, ServerTypes, Sessions, Targets
  <1>4. Inbox'
    BY <1>1, <1>2 DEF Inbox, OneReply, DataKnown, CreateAnswered, ReplyFirst, IsReply, IsData, Known
  <1>5. Held' = {} /\ CutOff = {} /\ CutOff' = {}
    BY <1>1 DEF Held, CutOff
  <1>6. EndsOnce'
    <2>1. ASSUME NEW s \in 1..lastId
          PROVE  gone'[s] = 1
      <3>1. s \in Subs /\ gone[s] = IF s \in listed THEN 0 ELSE 1
        BY <1>1, ConstFacts DEF EndsOnce, ServerTypes, Subs
      <3> QED
        BY <1>2, <3>1
    <2>2. ASSUME NEW s \in asked
          PROVE  ended'[s] = IF s \in items' THEN 0 ELSE 1
      <3>1. s \in Monitored /\ ended[s] = IF s \in items THEN 0 ELSE 1
        BY <1>5 DEF EndsOnce, ClientTypes
      <3> QED
        BY <1>2, <3>1
    <2> QED
      BY <1>1, <1>2, <1>5, <2>1, <2>2 DEF EndsOnce
  <1>7. Fresh'
    <2>1. ASSUME NEW s \in Subs, s > lastId
          PROVE  s \notin listed
      BY <2>1, ConstFacts DEF Targets, ServerTypes
    <2> QED
      BY <1>1, <1>2, <2>1 DEF Fresh, Targets
  <1>8. DeliveredKnown' /\ AcksHeld' /\ GapHeld'
    BY <1>5 DEF DeliveredKnown, AcksHeld, GapHeld
  <1> QED
    BY <1>3, <1>4, <1>6, <1>7, <1>8

-----------------------------------------------------------------------------
(* Calls. Nothing under way is about what a call asks for; its reply, if   *)
(* there is one, is the only one, and comes after what the call has made   *)
(* the server send.                                                        *)
Asked(q, good, no) ==
  /\ Grown(q, inbox) /\ inbox' = Append(q, Reply(good, no))
  /\ good \in BOOLEAN /\ no \in SUBSET Subs
  /\ pc' = "delete" => no \subseteq target'
  /\ pc' = "create" /\ lastId + 1 \in srv' => good

LEMMA AskKeeps ==
  ASSUME IInv, pc = "idle", pc' \in Calls, lastId' = lastId, asked \subseteq asked',
         srv' \subseteq srv \cup (IF pc' = "create" THEN {lastId + 1} ELSE {}),
         \A s \in srv \cap srv' : number'[s] = number[s],
         pc' = "addItem" => target' \cap asked = {},
         pc' = "create" => lastId + 1 \in Subs,
         target' \subseteq Subs, srv \subseteq Subs,
         \/ UNCHANGED <<inbox, srv, srvItems>>
         \/ \E q, good, no : Asked(q, good, no)
  PROVE  inbox' \in Seq(Packets) /\ Inbox'
  <1> USE DEF IInv
  <1>1. /\ inbox \in Seq(Packets) /\ Len(inbox) \in Nat /\ lastId \in Nat
        /\ \A i \in 1..Len(inbox) : ~IsReply(i)
        /\ \A i \in 1..Len(inbox) : \A s \in Subs : IsData(i, s) =>
              s <= lastId /\ s \in asked /\ (s \in srv => inbox[i].n <= number[s])
        /\ \A s \in srv : s <= lastId
    BY ConstFacts DEF ServerTypes, Inbox, OneReply, DataKnown, Known, Calls
  (* The last packet is the reply, or there is none.                       *)
  <1>2. /\ inbox' \in Seq(Packets)
        /\ \A i \in 1..Len(inbox') : \A s \in Subs : IsData(i, s)' =>
              i \in 1..Len(inbox) /\ IsData(i, s) /\ inbox'[i] = inbox[i]
        /\ \A i, j \in 1..Len(inbox') : IsReply(i)' /\ IsReply(j)' => i = j
        /\ \A i \in 1..Len(inbox') : IsReply(i)' =>
              /\ pc' = "delete" => inbox'[i].refused \subseteq target'
              /\ pc' = "create" /\ lastId + 1 \in srv' => inbox'[i].ok
        /\ srvItems' # srvItems => \E i \in 1..Len(inbox') : IsReply(i)'
    <2>1. CASE UNCHANGED <<inbox, srv, srvItems>>
      BY <1>1, <2>1 DEF IsReply, IsData
    <2>2. CASE \E q, good, no : Asked(q, good, no)
      <3>1. PICK q, good, no : Asked(q, good, no)
        BY <2>2
      <3> DEFINE m == Reply(good, no)
      <3>2. m \in Packets /\ m.type = "sync" /\ m.ok = good /\ m.refused = no
        BY <3>1, ReplyFacts DEF Asked
      <3>3. /\ q \in Seq(Packets) /\ Len(q) \in Nat /\ Len(inbox) <= Len(q)
            /\ \A i \in 1..Len(inbox) : q[i] = inbox[i]
            /\ \A i \in (Len(inbox) + 1)..Len(q) : q[i].type \in Mute
            /\ inbox' = Append(q, m)
        BY <3>1 DEF Asked, Grown
      <3> HIDE DEF m
      <3>4. /\ inbox' \in Seq(Packets) /\ Len(inbox') = Len(q) + 1
            /\ \A i \in 1..Len(q) : inbox'[i] = q[i]
            /\ inbox'[Len(q) + 1] = m
        BY <3>2, <3>3, AppendFacts
      <3>5. ASSUME NEW i \in 1..Len(inbox')
            PROVE  \/ i \in 1..Len(inbox) /\ inbox'[i] = inbox[i]
                   \/ inbox'[i].type \in Mute
                   \/ i = Len(q) + 1 /\ inbox'[i] = m
        <4>1. i \in 1..Len(inbox) \/ i \in (Len(inbox) + 1)..Len(q) \/ i = Len(q) + 1
          BY <1>1, <3>3, <3>4
        <4>2. i \in 1..Len(inbox) => i \in 1..Len(q)
          BY <1>1, <3>3
        <4>3. i \in (Len(inbox) + 1)..Len(q) => i \in 1..Len(q)
          BY <1>1, <3>3
        <4> QED
          BY <3>3, <3>4, <4>1, <4>2, <4>3
      <3>6. ASSUME NEW i \in 1..Len(inbox'), IsReply(i)'
            PROVE  i = Len(q) + 1 /\ inbox'[i] = m
        BY <1>1, <3>5, <3>6 DEF IsReply, Mute, Other
      <3>7. ASSUME NEW i \in 1..Len(inbox'), NEW s \in Subs, IsData(i, s)'
            PROVE  i \in 1..Len(inbox) /\ IsData(i, s) /\ inbox'[i] = inbox[i]
        BY <3>2, <3>5, <3>7 DEF IsData, Mute, Other
      <3>8. Len(q) + 1 \in 1..Len(inbox') /\ IsReply(Len(q) + 1)'
        <4>1. Len(q) + 1 \in 1..Len(inbox')
          BY <3>3, <3>4
        <4>2. inbox'[Len(q) + 1].type = "sync"
          BY <3>2, <3>4
        <4> QED
          BY <4>1, <4>2 DEF IsReply
      <3>9. ASSUME NEW i \in 1..Len(inbox'), IsReply(i)'
            PROVE  /\ pc' = "delete" => inbox'[i].refused \subseteq target'
                   /\ pc' = "create" /\ lastId + 1 \in srv' => inbox'[i].ok
        BY <3>1, <3>2, <3>6, <3>9 DEF Asked
      <3> QED
        BY <3>4, <3>6, <3>7, <3>8, <3>9
    <2> QED
      BY <2>1, <2>2
  <1>3. OneReply'
    BY <1>2 DEF OneReply
  <1>4. DataKnown'
    <2>1. \A s \in srv' : Known(s)'
      BY <1>1 DEF Known
    <2>2. ASSUME NEW s \in Subs, NEW i \in 1..Len(inbox'), IsData(i, s)'
          PROVE  Known(s)' /\ s \in asked' /\ (s \in srv' => inbox'[i].n <= number'[s])
      <3>1. /\ i \in 1..Len(inbox) /\ IsData(i, s) /\ inbox'[i] = inbox[i] /\ s <= lastId /\ s \in asked
            /\ s \in srv => inbox[i].n <= number[s]
        BY <1>1, <1>2, <2>2
      <3>2. s \in srv' => s \in srv
        BY <1>1, <3>1, ConstFacts
      <3> QED
        BY <3>1, <3>2 DEF Known
    <2> QED
      BY <2>1, <2>2 DEF DataKnown
  <1>5. CreateAnswered'
    <2> SUFFICES ASSUME pc' = "create", lastId + 1 \in srv' \/ \E i \in 1..Len(inbox') : IsData(i, lastId + 1)',
                        NEW j \in 1..Len(inbox'), IsReply(j)'
                 PROVE  inbox'[j].ok
      BY DEF CreateAnswered
    <2>1. ~(lastId + 1 <= lastId)
      BY <1>1
    <2>2. lastId + 1 \in srv'
      BY <1>1, <1>2, <2>1
    <2> QED
      BY <1>2, <2>2
  <1>6. ReplyFirst'
    <2> SUFFICES ASSUME pc' = "addItem", NEW s \in target'
                 PROVE  /\ s \in srvItems' => \E j \in 1..Len(inbox') : IsReply(j)'
                        /\ \A i \in 1..Len(inbox') : ~IsData(i, s)'
      BY DEF ReplyFirst
    <2>1. s \in Subs /\ s \notin asked
      OBVIOUS
    <2>2. s \notin srvItems
      BY <2>1 DEF Targets
    <2> QED
      BY <1>1, <1>2, <2>1, <2>2
  <1> QED
    BY <1>2, <1>3, <1>4, <1>5, <1>6 DEF Inbox

(* A call sees nothing, and what it takes out of the list it holds.        *)
LEMMA AskBooks ==
  ASSUME IInv, Held' = Held, asked \subseteq asked', net' = net,
         state' \in {state, "SECURECHANNEL"},
         UNCHANGED <<lastId, seen, acks, delivered, announced, gone, ended, forgot>>,
         \A s \in srv' \cap listed : s \in srv /\ number'[s] = number[s] /\ retr'[s] = retr[s],
         pc = "idle"
  PROVE  Books'
  <1> USE DEF IInv, Books
  <1>1. Held = listed
    BY DEF Held
  <1>2. Fresh'
    BY DEF Fresh
  <1>3. DeliveredKnown' /\ AcksHeld'
    BY <1>1 DEF DeliveredKnown, AcksHeld
  <1>4. GapHeld'
    BY <1>1 DEF GapHeld
  <1> QED
    BY <1>2, <1>3, <1>4

LEMMA AskEnds ==
  ASSUME IInv, pc = "idle", ~freedUsed', Held' = Held, UNCHANGED <<lastId, gone, items, ended>>,
         CutOff' \subseteq Monitored, CutOff' \cap asked = {}, asked' = asked \cup CutOff'
  PROVE  EndsOnce'
  <1> USE DEF IInv
  <1>1. ASSUME NEW s \in 1..lastId
        PROVE  gone[s] = IF s \in listed' \/ (pc' = "delete" /\ s \in target') THEN 0 ELSE 1
    <2>1. gone[s] = IF s \in Held THEN 0 ELSE 1
      BY DEF EndsOnce, Held
    <2>2. s \in Held' <=> s \in listed' \/ (pc' = "delete" /\ s \in target')
      BY DEF Held
    <2> QED
      BY <2>1, <2>2
  <1>2. ASSUME NEW s \in asked'
        PROVE  ended[s] = IF s \in items \cup CutOff' THEN 0 ELSE 1
    <2>1. CASE s \in asked
      BY <2>1 DEF EndsOnce, CutOff
    <2>2. CASE s \in CutOff'
      BY <2>2 DEF Books, Fresh
    <2> QED
      BY <2>1, <2>2
  <1> QED
    BY <1>1, <1>2 DEF EndsOnce

(* A request that is refused or that vanishes has done nothing.            *)
LEMMA NoReply ==
  ASSUME IInv, Refused \/ Vanishes, pc' # "create" \/ lastId + 1 \notin srv
  PROVE  /\ UNCHANGED <<session, srv, srvItems, number, retr, reqs>>
         /\ UNCHANGED inbox \/ \E q, good, no : Asked(q, good, no)
  <1> USE DEF IInv
  <1>1. UNCHANGED <<session, srv, srvItems, number, retr, reqs>>
    BY DEF Refused, Vanishes, server
  <1>2. CASE Refused
    <2>1. inbox' = Append(inbox, Reply(FALSE, {})) /\ {} \in SUBSET Subs /\ FALSE \in BOOLEAN
      BY <1>2 DEF Refused, Replied
    <2>2. Grown(inbox, inbox)
      BY GrownSelf DEF ServerTypes
    <2>3. Asked(inbox, FALSE, {})
      BY <1>1, <2>1, <2>2 DEF Asked
    <2> QED
      BY <1>1, <2>3
  <1>3. CASE Vanishes
    BY <1>1, <1>3 DEF Vanishes
  <1> QED
    BY <1>2, <1>3

LEMMA GrantedReply ==
  ASSUME IInv, Replied(TRUE, {}, inbox)
  PROVE  \E q, good, no : Asked(q, good, no)
  <1>1. inbox' = Append(inbox, Reply(TRUE, {})) /\ {} \in SUBSET Subs /\ TRUE \in BOOLEAN
    BY DEF Replied
  <1>2. Grown(inbox, inbox)
    BY GrownSelf DEF IInv, ServerTypes
  <1>3. Asked(inbox, TRUE, {})
    BY <1>1, <1>2 DEF Asked
  <1> QED
    BY <1>3

LEMMA IdleFacts ==
  ASSUME IInv, pc = "idle"
  PROVE  /\ Held = listed /\ CutOff = {} /\ lastId \in Nat /\ srv \subseteq 1..lastId
         /\ lastId + 1 \notin srv /\ lastId + 1 \notin listed
  <1>1. lastId \in Nat /\ \A s \in srv : s \in Nat /\ s >= 1 /\ s <= lastId
    BY ConstFacts DEF IInv, ServerTypes, Inbox, DataKnown, Known
  <1>2. listed \subseteq 1..lastId
    BY DEF IInv, Targets
  <1> QED
    BY <1>1, <1>2 DEF Held, CutOff

LEMMA CreateKeeps ==
  ASSUME IInv, Create
  PROVE  IInv'
  <1> USE DEF IInv
  <1>1. /\ pc = "idle" /\ ~freedUsed /\ lastId < MaxSubs /\ pc' = "create" /\ target' = {lastId + 1}
        /\ UNCHANGED <<state, items, seen, acks, out, limit, net, srvLimit, lastId, delivered, announced,
                       gone, ended, forgot, freedUsed, listed, asked>>
    BY DEF Create, Calling, Waits, Unchanged
  <1>2. /\ Held = listed /\ lastId \in Nat /\ srv \subseteq 1..lastId
        /\ lastId + 1 \notin srv /\ lastId + 1 \notin listed
    BY <1>1, IdleFacts
  <1>3. lastId + 1 \in Subs /\ srv \subseteq Subs
    BY <1>1, <1>2, ConstFacts DEF Subs, ServerTypes
  <1>4. /\ srv' = srv \/ (srv' = srv \cup {lastId + 1} /\ net = "up" /\ session)
        /\ UNCHANGED <<session, srvItems, number, retr, reqs>>
        /\ UNCHANGED <<inbox, srv>> \/ \E q, good, no : Asked(q, good, no)
    <2>1. CASE Refused \/ Vanishes
      BY <1>2, <2>1, NoReply
    <2>2. CASE ~(Refused \/ Vanishes)
      BY <2>2, GrantedReply DEF Create
    <2> QED
      BY <2>1, <2>2
  <1>5. inbox' \in Seq(Packets) /\ Inbox'
    <2>1. /\ pc' \in Calls /\ srv' \subseteq srv \cup (IF pc' = "create" THEN {lastId + 1} ELSE {})
          /\ \A s \in srv \cap srv' : number'[s] = number[s]
          /\ target' \subseteq Subs
          /\ UNCHANGED <<inbox, srv, srvItems>> \/ \E q, good, no : Asked(q, good, no)
      BY <1>1, <1>3, <1>4 DEF Calls
    <2> QED
      BY <1>1, <1>3, <2>1, AskKeeps
  <1>6. ClientTypes'
    BY <1>1, <1>3 DEF ClientTypes, Calls
  <1>7. ServerTypes' /\ Sessions'
    BY <1>1, <1>3, <1>4, <1>5 DEF ServerTypes, Sessions
  <1>8. Targets'
    BY <1>1, <1>4 DEF Targets
  <1>9. Held' = Held /\ CutOff' = {}
    BY <1>1, <1>2 DEF Held, CutOff
  <1>10. EndsOnce'
    BY <1>1, <1>9, AskEnds
  <1>11. Books'
    <2>1. \A s \in srv' \cap listed : s \in srv /\ number'[s] = number[s] /\ retr'[s] = retr[s]
      BY <1>2, <1>4
    <2> QED
      BY <1>1, <1>9, <2>1, AskBooks
  <1> QED
    BY <1>5, <1>6, <1>7, <1>8, <1>10, <1>11

(* Calls about one listed subscription and its item.                       *)
ItemCall(s) ==
  \/ Modify(s)
  \/ s \in Monitored /\ (MonitoredItemsCreate(s) \/ MonitoredItemsDelete(s))

LEMMA ItemCallKeeps ==
  ASSUME IInv, NEW s \in Subs, ItemCall(s)
  PROVE  IInv'
  <1> USE DEF IInv
  <1>1. /\ pc = "idle" /\ ~freedUsed /\ pc' \in {"modify", "addItem", "removeItem"} /\ target' = {s}
        /\ UNCHANGED <<state, items, seen, acks, out, limit, net, srvLimit, lastId, delivered, announced,
                       gone, ended, forgot, freedUsed, listed>>
        /\ asked' = IF pc' = "addItem" THEN asked \cup {s} ELSE asked
        /\ pc' = "addItem" => s \in Monitored /\ s \notin asked
        /\ pc' = "removeItem" => s \in items
    BY DEF ItemCall, Modify, MonitoredItemsCreate, MonitoredItemsDelete, Calling, Waits, Unchanged
  <1>2. Held = listed
    BY <1>1, IdleFacts
  <1>3. /\ UNCHANGED <<session, srv, number, retr, reqs>>
        /\ \/ srvItems' = srvItems
           \/ pc' = "addItem" /\ s \in srv /\ srvItems' = srvItems \cup {s}
           \/ pc' = "removeItem" /\ srvItems' = srvItems \ {s}
        /\ UNCHANGED <<inbox, srvItems>> \/ \E q, good, no : Asked(q, good, no)
    <2>1. CASE Refused \/ Vanishes
      BY <1>1, <2>1, NoReply
    <2>2. CASE ~(Refused \/ Vanishes)
      BY <1>1, <2>2, GrantedReply DEF ItemCall, Modify, MonitoredItemsCreate, MonitoredItemsDelete, Waits
    <2> QED
      BY <2>1, <2>2
  <1>4. inbox' \in Seq(Packets) /\ Inbox'
    <2>1. /\ pc' \in Calls /\ srv' \subseteq srv \cup (IF pc' = "create" THEN {lastId + 1} ELSE {})
          /\ asked \subseteq asked' /\ target' \subseteq Subs /\ srv \subseteq Subs
          /\ pc' = "addItem" => target' \cap asked = {}
          /\ UNCHANGED <<inbox, srv, srvItems>> \/ \E q, good, no : Asked(q, good, no)
      BY <1>1, <1>3 DEF Calls, ServerTypes
    <2> QED
      BY <1>1, <1>3, <2>1, AskKeeps
  <1>5. ClientTypes'
    BY <1>1 DEF ClientTypes, Calls
  <1>6. ServerTypes' /\ Sessions'
    BY <1>1, <1>3, <1>4 DEF ServerTypes, Sessions
  <1>7. Targets'
    BY <1>1, <1>3 DEF Targets
  <1>8. Held' = Held /\ CutOff' = (IF pc' = "addItem" THEN {s} ELSE {})
    BY <1>1, <1>2 DEF Held, CutOff
  <1>9. EndsOnce'
    BY <1>1, <1>8, AskEnds
  <1>10. Books'
    <2>1. \A r \in srv' \cap listed : r \in srv /\ number'[r] = number[r] /\ retr'[r] = retr[r]
      BY <1>3
    <2> QED
      BY <1>1, <1>8, <2>1, AskBooks
  <1> QED
    BY <1>4, <1>5, <1>6, <1>7, <1>9, <1>10

LEMMA DeleteKeeps ==
  ASSUME IInv, NEW S \in SUBSET Subs, Delete(S)
  PROVE  IInv'
  <1> USE DEF IInv
  <1>1. /\ pc = "idle" /\ ~freedUsed /\ pc' = "delete" /\ target' = S /\ S \subseteq listed
        /\ listed' = listed \ S
        /\ UNCHANGED <<state, items, seen, acks, out, limit, net, srvLimit, lastId, delivered, announced,
                       gone, ended, forgot, freedUsed, asked>>
    BY DEF Delete, Calling, Waits, Unchanged
  <1>2. Held = listed /\ reqs \in Nat /\ inbox \in Seq(Packets) /\ srv \subseteq Subs /\ srvItems \subseteq srv
    BY <1>1, IdleFacts DEF ServerTypes
  <1>3. /\ session' = session /\ srv' \subseteq srv /\ srvItems' \subseteq srvItems \cap srv' /\ reqs' \in Nat
        /\ number' \in [Subs -> 0..MaxNotes] /\ retr' \in [Subs -> SUBSET Nums]
        /\ \A s \in srv' : number'[s] = number[s] /\ retr'[s] = retr[s]
        /\ UNCHANGED <<inbox, srv, srvItems>> \/ \E q, good, no : Asked(q, good, no)
    <2>1. CASE Refused \/ Vanishes
      BY <1>1, <1>2, <2>1, NoReply DEF ServerTypes
    <2>2. CASE ~(Refused \/ Vanishes)
      <3>1. PICK no \in SUBSET (S \cap srv) :
              /\ Ends((S \cap srv) \ no)
              /\ LET rest == IF srv' = {} THEN reqs ELSE 0
                 IN /\ reqs' = reqs - rest
                    /\ Replied(TRUE, no, inbox \o Times(rest, Answer("noSub")))
        BY <2>2 DEF Delete
      <3> DEFINE rest == IF srv' = {} THEN reqs ELSE 0
                 q == inbox \o Times(rest, Answer("noSub"))
      <3>2. rest \in Nat /\ reqs' = reqs - rest /\ reqs' \in Nat /\ inbox' = Append(q, Reply(TRUE, no))
        BY <1>2, <3>1 DEF Replied
      <3>3. Grown(q, inbox)
        BY <1>2, <3>2, GrownBy DEF Other
      <3> HIDE DEF q, rest
      <3>4. Asked(q, TRUE, no)
        BY <1>1, <1>2, <3>1, <3>2, <3>3 DEF Asked
      <3> DEFINE E == (S \cap srv) \ no
      <3>5. /\ srv' = srv \ E /\ srvItems' = srvItems \ E
            /\ number' \in [Subs -> 0..MaxNotes] /\ retr' \in [Subs -> SUBSET Nums]
            /\ \A s \in Subs \ E : number'[s] = number[s] /\ retr'[s] = retr[s]
        <4>1. E \in SUBSET Subs /\ Ends(E)
          BY <3>1
        <4> HIDE DEF E
        <4> QED
          BY <4>1, EndsFacts
      <3>6. session' = session
        BY <2>2 DEF Delete
      <3> HIDE DEF E
      <3> QED
        BY <1>2, <3>2, <3>4, <3>5, <3>6
    <2> QED
      BY <2>1, <2>2
  <1>4. inbox' \in Seq(Packets) /\ Inbox'
    <2>1. /\ pc' \in Calls /\ srv' \subseteq srv \cup (IF pc' = "create" THEN {lastId + 1} ELSE {})
          /\ target' \subseteq Subs /\ \A s \in srv \cap srv' : number'[s] = number[s]
      BY <1>1, <1>3 DEF Calls
    <2> QED
      BY <1>1, <1>2, <1>3, <2>1, AskKeeps
  <1>5. ClientTypes'
    BY <1>1 DEF ClientTypes, Calls
  <1>6. ServerTypes' /\ Sessions'
    BY <1>1, <1>3, <1>4 DEF ServerTypes, Sessions
  <1>7. Targets'
    BY <1>1, <1>3 DEF Targets
  <1>8. Held' = Held /\ CutOff' = {}
    BY <1>1, <1>2 DEF Held, CutOff
  <1>9. EndsOnce'
    BY <1>1, <1>8, AskEnds
  <1>10. Books'
    <2>1. \A r \in srv' \cap listed : r \in srv /\ number'[r] = number[r] /\ retr'[r] = retr[r]
      BY <1>3
    <2> QED
      BY <1>1, <1>8, <2>1, AskBooks
  <1> QED
    BY <1>4, <1>5, <1>6, <1>7, <1>9, <1>10

LEMMA DisconnectKeeps ==
  ASSUME IInv, Disconnect
  PROVE  IInv'
  <1> USE DEF IInv
  <1>1. /\ pc = "idle" /\ ~freedUsed /\ pc' = "closeSession" /\ target' = {} /\ state' = "SECURECHANNEL"
        /\ UNCHANGED <<listed, items, seen, acks, out, limit, net, srvLimit, lastId, delivered, announced,
                       gone, asked, ended, forgot, freedUsed>>
    BY DEF Disconnect, Calling, Waits, client, history
  <1>2. Held = listed /\ srv \in SUBSET Subs /\ srvItems \subseteq srv
    BY <1>1, IdleFacts DEF ServerTypes
  <1>3. /\ session' \in {session, FALSE} /\ (~session' => srv' = {}) /\ (net # "up" => ~session')
        /\ srv' \subseteq srv /\ srvItems' \subseteq srvItems \cap srv' /\ reqs' \in Nat
        /\ number' \in [Subs -> 0..MaxNotes] /\ retr' \in [Subs -> SUBSET Nums]
        /\ \A s \in srv' : number'[s] = number[s] /\ retr'[s] = retr[s]
        /\ UNCHANGED <<inbox, srv, srvItems>> \/ \E q, good, no : Asked(q, good, no)
    <2>1. CASE Vanishes
      <3>1. UNCHANGED <<session, srv, srvItems, number, retr, reqs, inbox>>
        BY <2>1 DEF Vanishes, server
      <3> QED
        BY <1>1, <1>2, <3>1 DEF ServerTypes, Sessions
    <2>2. CASE ~Vanishes
      <3>1. session' = FALSE /\ Ends(srv) /\ reqs' = 0 /\ Replied(TRUE, {}, inbox)
        BY <2>2 DEF Disconnect
      <3>2. /\ srv' = {} /\ srvItems' = {}
            /\ number' \in [Subs -> 0..MaxNotes] /\ retr' \in [Subs -> SUBSET Nums]
        BY <1>2, <3>1, EndsFacts
      <3>3. \E q, good, no : Asked(q, good, no)
        BY <3>1, GrantedReply
      <3> QED
        BY <3>1, <3>2, <3>3
    <2> QED
      BY <2>1, <2>2
  <1>4. inbox' \in Seq(Packets) /\ Inbox'
    <2>1. /\ pc' \in Calls /\ srv' \subseteq srv \cup (IF pc' = "create" THEN {lastId + 1} ELSE {})
          /\ target' \subseteq Subs /\ \A s \in srv \cap srv' : number'[s] = number[s]
      BY <1>1, <1>3 DEF Calls
    <2> QED
      BY <1>1, <1>2, <1>3, <2>1, AskKeeps
  <1>5. ClientTypes'
    BY <1>1 DEF ClientTypes, Calls
  <1>6. ServerTypes' /\ Sessions'
    BY <1>1, <1>3, <1>4 DEF ServerTypes, Sessions
  <1>7. Targets'
    BY <1>1, <1>3 DEF Targets
  <1>8. Held' = Held /\ CutOff' = {}
    BY <1>1, <1>2 DEF Held, CutOff
  <1>9. EndsOnce'
    BY <1>1, <1>8, AskEnds
  <1>10. Books'
    <2>1. \A r \in srv' \cap listed : r \in srv /\ number'[r] = number[r] /\ retr'[r] = retr[r]
      BY <1>3
    <2> QED
      BY <1>1, <1>8, <2>1, AskBooks
  <1> QED
    BY <1>4, <1>5, <1>6, <1>7, <1>9, <1>10

(* A request for an item that cannot be sent ends at once.                 *)
LEMMA ItemFailsKeeps ==
  ASSUME IInv, NEW s \in Monitored, MonitoredItemsCreateFails(s)
  PROVE  IInv'
  <1> USE DEF IInv, Books
  <1>1. /\ pc = "idle" /\ s \in 1..lastId /\ s \notin asked /\ asked' = asked \cup {s}
        /\ ended' = [r \in Monitored |-> IF r \in {s} THEN ended[r] + 1 ELSE ended[r]]
        /\ UNCHANGED <<state, pc, target, listed, items, seen, acks, out, limit, net, inbox, session, srv,
                       srvItems, number, retr, reqs, srvLimit, lastId, delivered, announced, gone, forgot,
                       freedUsed>>
    BY DEF MonitoredItemsCreateFails, ItemCallbacks, Calling, thread, client, server
  <1>2. /\ ended \in [Monitored -> Nat] /\ ended[s] = 0 /\ s \notin items
        /\ items \subseteq asked /\ asked \subseteq Monitored
    BY <1>1 DEF ClientTypes, Fresh, Targets
  <1>3. /\ ended' \in [Monitored -> Nat] /\ ended'[s] = 1
        /\ \A r \in Monitored \ {s} : ended'[r] = ended[r]
    BY <1>1, <1>2
  <1>4. ClientTypes' /\ ServerTypes' /\ Sessions' /\ Targets'
    BY <1>1, <1>2, <1>3 DEF ClientTypes, ServerTypes, Sessions, Targets
  <1>5. CutOff = {} /\ CutOff' = {} /\ Held' = Held
    BY <1>1 DEF CutOff, Held
  <1>6. EndsOnce'
    <2>1. ASSUME NEW r \in asked'
          PROVE  ended'[r] = IF r \in items THEN 0 ELSE 1
      <3>1. CASE r = s
        BY <1>2, <1>3, <3>1
      <3>2. CASE r # s
        BY <1>1, <1>2, <1>3, <1>5, <2>1, <3>2 DEF EndsOnce
      <3> QED
        BY <3>1, <3>2
    <2> QED
      BY <1>1, <1>5, <2>1 DEF EndsOnce
  <1>7. Inbox'
    BY <1>1 DEF Inbox, OneReply, DataKnown, CreateAnswered, ReplyFirst, IsReply, IsData, Known
  <1>8. Fresh' /\ DeliveredKnown' /\ AcksHeld'
    BY <1>1, <1>3, <1>5 DEF Fresh, DeliveredKnown, AcksHeld
  <1>9. GapHeld'
    <2> SUFFICES ASSUME NEW r \in Held, r \in asked' => ended'[r] = 0, NEW n \in 1..seen[r]
                 PROVE  n \in delivered[r] \cup announced[r]
      BY <1>1, <1>5 DEF GapHeld
    <2>1. r # s
      BY <1>1, <1>3
    <2>2. ASSUME r \in asked
          PROVE  ended[r] = 0
      <3>1. r \in Monitored \ {s} /\ ended'[r] = 0
        BY <1>1, <1>2, <2>1, <2>2
      <3> QED
        BY <1>3, <3>1
    <2> QED
      BY <2>2 DEF GapHeld
  <1> QED
    BY <1>4, <1>6, <1>7, <1>8, <1>9

-----------------------------------------------------------------------------
(* The reply to a call is the only one, so none is left behind it.         *)
LEMMA ReplyRead ==
  ASSUME IInv, inbox # <<>>, Head(inbox).type = "sync", inbox' = Tail(inbox), pc' = "idle",
         UNCHANGED <<srv, srvItems, number, asked>>,
         lastId' = IF pc = "create" /\ Head(inbox).ok THEN lastId + 1 ELSE lastId
  PROVE  inbox' \in Seq(Packets) /\ Inbox'
  <1> USE DEF IInv
  <1>1. /\ inbox \in Seq(Packets) /\ Len(inbox) \in Nat /\ 1 \in 1..Len(inbox)
        /\ Head(inbox) = inbox[1]
        /\ inbox' \in Seq(Packets) /\ Len(inbox') = Len(inbox) - 1
        /\ \A i \in 1..Len(inbox') : i + 1 \in 1..Len(inbox) /\ inbox'[i] = inbox[i + 1]
    BY DEF ServerTypes
  <1>2. IsReply(1)
    BY <1>1 DEF IsReply
  <1>3. ASSUME NEW i \in 1..Len(inbox')
        PROVE  ~IsReply(i)'
    <2> SUFFICES ASSUME IsReply(i)'
                 PROVE  FALSE
      OBVIOUS
    <2>1. i + 1 \in 1..Len(inbox) /\ IsReply(i + 1)
      BY <1>1 DEF IsReply
    <2>2. i + 1 = 1
      BY <1>1, <1>2, <2>1 DEF Inbox, OneReply
    <2> QED
      BY <2>2
  <1>4. lastId \in Nat
    BY ConstFacts DEF ServerTypes
  <1>5. ASSUME NEW s \in Subs, Known(s),
               s = lastId + 1 => lastId + 1 \in srv \/ \E i \in 1..Len(inbox) : IsData(i, lastId + 1)
        PROVE  Known(s)'
    <2>1. CASE s <= lastId
      BY <1>4, <2>1, ConstFacts DEF Known
    <2>2. CASE pc = "create" /\ s = lastId + 1
      <3>1. inbox[1].ok
        BY <1>1, <1>2, <1>5, <2>2 DEF Inbox, CreateAnswered
      <3>2. lastId' = lastId + 1
        BY <1>1, <2>2, <3>1
      <3> QED
        BY <1>4, <2>2, <3>2 DEF Known
    <2> QED
      BY <1>5, <2>1, <2>2 DEF Known
  <1>6. DataKnown'
    <2>1. ASSUME NEW s \in srv
          PROVE  Known(s)'
      BY <1>5 DEF Inbox, DataKnown, ServerTypes
    <2>2. ASSUME NEW s \in Subs, NEW i \in 1..Len(inbox'), IsData(i, s)'
          PROVE  Known(s)' /\ s \in asked /\ (s \in srv => inbox'[i].n <= number[s])
      <3>1. i + 1 \in 1..Len(inbox) /\ inbox'[i] = inbox[i + 1] /\ IsData(i + 1, s)
        BY <1>1, <2>2 DEF IsData
      <3>2. Known(s) /\ s \in asked /\ (s \in srv => inbox[i + 1].n <= number[s])
        BY <3>1 DEF Inbox, DataKnown
      <3> QED
        BY <1>5, <3>1, <3>2
    <2> QED
      BY <2>1, <2>2 DEF DataKnown
  <1>7. OneReply' /\ CreateAnswered' /\ ReplyFirst'
    BY <1>3 DEF OneReply, CreateAnswered, ReplyFirst
  <1> QED
    BY <1>1, <1>6, <1>7 DEF Inbox

(* When a call ends, what is held was held before with the same books, or  *)
(* is new.                                                                 *)
LEMMA EndBooks ==
  ASSUME DeliveredKnown, AcksHeld, GapHeld, UNCHANGED <<state, acks, net, srv, number, retr, forgot, asked>>,
         seen' \in [Subs -> 0..MaxNotes], Held' \subseteq Subs,
         \A s \in Held' :
            \/ /\ s \in Held /\ seen'[s] = seen[s]
               /\ delivered'[s] = delivered[s] /\ announced'[s] = announced[s]
            \/ seen'[s] = 0 /\ delivered'[s] = {},
         \A s \in asked : ended'[s] = 0 => ended[s] = 0
  PROVE  DeliveredKnown' /\ AcksHeld' /\ GapHeld'
  <1>1. DeliveredKnown' /\ AcksHeld'
    BY DEF DeliveredKnown, AcksHeld
  <1>2. GapHeld'
    <2> SUFFICES ASSUME NEW s \in Held', s \in asked => ended'[s] = 0, NEW n \in 1..seen'[s]
                 PROVE  n \in delivered'[s] \cup announced'[s]
      BY DEF GapHeld
    <2>1. seen'[s] # 0
      OBVIOUS
    <2> QED
      BY <2>1 DEF GapHeld
  <1> QED
    BY <1>1, <1>2

LEMMA CallEndsKeeps ==
  ASSUME IInv, inbox # <<>>, Head(inbox).type = "sync", CallEnds(Head(inbox)), srvLimit' = srvLimit
  PROVE  IInv'
  <1> USE DEF IInv, Books
  <1> DEFINE m == Head(inbox)
  <1>1. m \in Packets /\ m.ok \in BOOLEAN /\ m = inbox[1] /\ 1 \in 1..Len(inbox) /\ IsReply(1)
    BY PacketFacts DEF ServerTypes, IsReply
  <1> HIDE DEF m
  <1>2. /\ pc' = "idle" /\ target' = {} /\ inbox' = Tail(inbox)
        /\ UNCHANGED <<state, acks, out, limit, net, session, srv, srvItems, number, retr, reqs, forgot,
                       freedUsed>>
        /\ \/ pc = "create" /\ Created(m)
           \/ pc = "modify" /\ UNCHANGED <<listed, items, seen, delivered, announced, gone, asked, ended,
                                          lastId>>
           \/ pc = "delete" /\ Deleted(m)
           \/ pc = "addItem" /\ ItemsCreated(m)
           \/ pc = "removeItem" /\ ItemsDeleted(m)
    BY DEF CallEnds, Return, server, history, m
  <1>3. /\ asked' = asked /\ lastId' = IF pc = "create" /\ m.ok THEN lastId + 1 ELSE lastId
        /\ pc # "delete" => UNCHANGED <<seen, delivered, announced, gone>>
        /\ pc \in {"create", "modify"} => UNCHANGED <<items, ended>>
        /\ pc \notin {"create", "delete"} => listed' = listed
        /\ pc = "create" => listed' = IF m.ok THEN listed \cup target ELSE listed
    BY <1>2 DEF Created, Deleted, DeleteInternal, ItemsCreated, ItemsDeleted, history
  <1>4. inbox' \in Seq(Packets) /\ Inbox'
    BY <1>2, <1>3, ReplyRead DEF m
  <1>5. /\ Held' = listed' /\ CutOff' = {} /\ lastId \in Nat /\ listed \subseteq Subs
        /\ target \subseteq Subs /\ items \subseteq asked /\ asked \subseteq Monitored
        /\ listed \subseteq 1..lastId /\ listed \subseteq Held
        /\ ended \in [Monitored -> Nat] /\ seen \in [Subs -> 0..MaxNotes]
    BY <1>2, ConstFacts DEF Held, CutOff, ClientTypes, ServerTypes, Targets
  <1>6. lastId' \in 0..MaxSubs /\ lastId <= lastId'
    <2>1. CASE pc = "create" /\ m.ok
      <3>1. lastId + 1 \in Subs
        BY <1>5, <2>1 DEF Targets
      <3> QED
        BY <1>3, <1>5, <2>1, <3>1, ConstFacts
    <2>2. CASE ~(pc = "create" /\ m.ok)
      BY <1>3, <1>5, <2>2 DEF ServerTypes
    <2> QED
      BY <2>1, <2>2
  <1>7. ServerTypes' /\ Sessions'
    BY <1>2, <1>4, <1>6 DEF ServerTypes, Sessions
  (* The entries of monitored items.                                       *)
  <1>8. SUFFICES
          /\ items' \subseteq asked /\ ended' \in [Monitored -> Nat] /\ listed' \subseteq 1..lastId'
          /\ seen' \in [Subs -> 0..MaxNotes] /\ gone' \in [Subs -> Nat] /\ listed' \subseteq Subs
          /\ delivered' \in [Subs -> SUBSET Nums] /\ announced' \in [Subs -> SUBSET Nums]
          /\ \A s \in asked : ended'[s] = IF s \in items' THEN 0 ELSE 1
          /\ \A s \in Monitored \ asked : ended'[s] = 0
          /\ \A s \in asked : ended'[s] = 0 => ended[s] = 0
          /\ \A s \in 1..lastId' : gone'[s] = IF s \in listed' THEN 0 ELSE 1
          /\ \A s \in Subs : s > lastId' => gone'[s] = 0 /\ seen'[s] = 0 /\ delivered'[s] = {}
          /\ \A s \in listed' :
                \/ /\ s \in Held /\ seen'[s] = seen[s]
                   /\ delivered'[s] = delivered[s] /\ announced'[s] = announced[s]
                \/ seen'[s] = 0 /\ delivered'[s] = {}
    <2>1. ClientTypes'
      BY <1>2, <1>3, <1>5, <1>8 DEF ClientTypes
    <2>2. Targets'
      BY <1>2, <1>3, <1>8 DEF Targets
    <2>3. EndsOnce'
      BY <1>2, <1>3, <1>5, <1>8 DEF EndsOnce
    <2>4. Fresh'
      BY <1>3, <1>8 DEF Fresh
    <2>5. DeliveredKnown' /\ AcksHeld' /\ GapHeld'
      BY <1>2, <1>3, <1>5, <1>8, EndBooks
    <2> QED
      BY <1>4, <1>7, <2>1, <2>2, <2>3, <2>4, <2>5
  <1>9. CASE pc \in {"create", "modify"}
    <2>1. /\ UNCHANGED <<items, ended, seen, delivered, announced, gone>> /\ CutOff = {} /\ Held = listed
      BY <1>3, <1>9 DEF CutOff, Held
    <2>2. CASE pc = "create" /\ m.ok
      <3>1. /\ listed' = listed \cup {lastId + 1} /\ lastId' = lastId + 1 /\ lastId + 1 \in Subs
            /\ lastId + 1 \notin listed
        BY <1>3, <1>5, <2>2 DEF Targets
      <3>2. gone[lastId + 1] = 0 /\ seen[lastId + 1] = 0 /\ delivered[lastId + 1] = {}
        BY <1>5, <3>1 DEF Fresh
      <3>3. ASSUME NEW s \in 1..lastId'
            PROVE  gone[s] = IF s \in listed' THEN 0 ELSE 1
        <4>1. s \in 1..lastId \/ s = lastId + 1
          BY <1>5, <3>1
        <4> QED
          BY <1>9, <3>1, <3>2, <4>1 DEF EndsOnce
      <3>4. ASSUME NEW s \in Subs, s > lastId'
            PROVE  gone[s] = 0 /\ seen[s] = 0 /\ delivered[s] = {}
        <4>1. s > lastId
          BY <1>5, <3>1, <3>4, ConstFacts
        <4> QED
          BY <4>1 DEF Fresh
      <3>5. listed' \subseteq 1..lastId' /\ listed' \subseteq Subs
        BY <1>5, <3>1
      <3> QED
        BY <1>5, <2>1, <3>1, <3>2, <3>3, <3>4, <3>5 DEF ClientTypes, EndsOnce, Fresh
    <2>3. CASE ~(pc = "create" /\ m.ok)
      <3>1. listed' = listed /\ lastId' = lastId
        BY <1>3, <1>9, <2>3
      <3> QED
        BY <1>5, <1>9, <2>1, <3>1 DEF ClientTypes, EndsOnce, Fresh
    <2> QED
      BY <2>2, <2>3
  <1>10. CASE pc \in {"addItem", "removeItem"}
    <2>1. /\ UNCHANGED <<listed, lastId, seen, delivered, announced, gone>> /\ Held = listed
          /\ CutOff = IF pc = "addItem" THEN target ELSE {}
      BY <1>3, <1>10 DEF CutOff, Held
    <2>2. /\ items' \subseteq asked /\ ended' \in [Monitored -> Nat]
          /\ \A s \in asked : ended'[s] = IF s \in items' THEN 0 ELSE 1
          /\ \A s \in Monitored \ asked : ended'[s] = 0
          /\ \A s \in asked : ended'[s] = 0 => ended[s] = 0
      <3>1. /\ \A s \in asked : ended[s] = IF s \in items \cup CutOff THEN 0 ELSE 1
            /\ \A s \in Monitored \ asked : ended[s] = 0
            /\ pc = "addItem" => target \subseteq asked /\ target \cap items = {}
            /\ pc = "removeItem" => target \subseteq items
        BY DEF EndsOnce, Fresh, Targets
      <3>2. CASE pc = "addItem" /\ m.ok
        <4>1. items' = items \cup target /\ ended' = ended
          BY <1>2, <3>2 DEF ItemsCreated
        <4> QED
          BY <1>5, <2>1, <3>1, <3>2, <4>1
      <3>3. CASE \/ pc = "addItem" /\ ~m.ok
                 \/ pc = "removeItem" /\ m.ok
        <4>1. items' = items \ target /\ ItemCallbacks(target)
          BY <1>2, <3>1, <3>3 DEF ItemsCreated, ItemsDeleted
        <4>2. /\ ended' \in [Monitored -> Nat]
              /\ \A s \in Monitored : ended'[s] = IF s \in target THEN ended[s] + 1 ELSE ended[s]
          BY <1>5, <4>1 DEF ItemCallbacks
        <4>3. target \subseteq asked /\ items' \subseteq asked
          BY <1>5, <3>1, <3>3, <4>1
        <4>4. ASSUME NEW s \in asked
              PROVE  /\ ended'[s] = IF s \in items' THEN 0 ELSE 1
                     /\ ended'[s] = 0 => ended[s] = 0
          <5>1. s \in Monitored /\ ended[s] = IF s \in items \cup CutOff THEN 0 ELSE 1
            BY <1>5, <3>1
          <5>2. CASE s \in target
            <6>1. s \in items \cup CutOff
              BY <2>1, <3>1, <3>3, <5>2
            <6> QED
              BY <4>1, <4>2, <5>1, <5>2, <6>1
          <5>3. CASE s \notin target
            <6>1. s \notin CutOff
              BY <2>1, <5>3
            <6> QED
              BY <4>1, <4>2, <5>1, <5>3, <6>1
          <5> QED
            BY <5>2, <5>3
        <4>5. ASSUME NEW s \in Monitored \ asked
              PROVE  ended'[s] = 0
          BY <3>1, <4>2, <4>3
        <4> QED
          BY <4>2, <4>3, <4>4, <4>5
      <3>4. CASE pc = "removeItem" /\ ~m.ok
        <4>1. items' = items /\ ended' = ended
          BY <1>2, <3>4 DEF ItemsDeleted
        <4> QED
          BY <1>5, <2>1, <3>1, <3>4, <4>1
      <3> QED
        BY <1>1, <1>10, <3>2, <3>3, <3>4
    <2> QED
      BY <1>5, <1>10, <2>1, <2>2 DEF ClientTypes, EndsOnce, Fresh
  <1>11. CASE pc = "delete"
    <2> DEFINE back == IF m.ok THEN m.refused ELSE target
               over == target \ back
    <2>1. /\ listed' = listed \cup back /\ DeleteInternal(over, {}) /\ lastId' = lastId
      BY <1>2, <1>11 DEF Deleted
    <2>2. back \subseteq target /\ target \subseteq 1..lastId /\ target \cap listed = {}
      BY <1>1, <1>11 DEF Inbox, OneReply, Targets
    <2> HIDE DEF back
    <2>3. /\ over \in SUBSET Subs /\ {} \in SUBSET Monitored
          /\ over \cap listed' = {} /\ listed \cup target = listed' \cup over
      BY <1>5, <2>1, <2>2
    <2> HIDE DEF over
    <2>4. /\ items' = items \ over
          /\ ended' \in [Monitored -> Nat] /\ gone' \in [Subs -> Nat] /\ seen' \in [Subs -> 0..MaxNotes]
          /\ delivered' \in [Subs -> SUBSET Nums] /\ announced' \in [Subs -> SUBSET Nums]
          /\ \A s \in Monitored : ended'[s] = IF s \in (items \cap over) \cup {} THEN ended[s] + 1 ELSE ended[s]
          /\ \A s \in over : gone'[s] = gone[s] + 1 /\ seen'[s] = 0 /\ delivered'[s] = {}
          /\ \A s \in Subs \ over : /\ gone'[s] = gone[s] /\ seen'[s] = seen[s]
                                 /\ delivered'[s] = delivered[s] /\ announced'[s] = announced[s]
      <3>1. over \in SUBSET Subs /\ {} \in SUBSET Monitored /\ DeleteInternal(over, {})
        BY <2>1, <2>3
      <3> QED
        BY <3>1, DeleteFacts
    <2>5. listed' \subseteq 1..lastId /\ listed' \subseteq Subs /\ listed' \subseteq Held
      BY <1>5, <1>11, <2>1, <2>2 DEF Held
    <2>6. ASSUME NEW s \in 1..lastId
          PROVE  gone'[s] = IF s \in listed' THEN 0 ELSE 1
      <3>1. gone[s] = IF s \in listed \cup target THEN 0 ELSE 1
        BY <1>11 DEF EndsOnce
      <3>2. s \in Subs
        BY <1>5, ConstFacts DEF ServerTypes, Subs
      <3> QED
        BY <2>3, <2>4, <3>1, <3>2
    <2>7. ASSUME NEW s \in Subs, s > lastId
          PROVE  gone'[s] = 0 /\ seen'[s] = 0 /\ delivered'[s] = {}
      <3>1. s \notin listed \cup target
        BY <1>5, <2>2, <2>7, ConstFacts
      <3>2. s \notin over
        BY <2>3, <3>1
      <3> QED
        BY <2>4, <2>7, <3>2 DEF Fresh
    <2>8. /\ \A s \in asked : ended'[s] = IF s \in items' THEN 0 ELSE 1
          /\ \A s \in Monitored \ asked : ended'[s] = 0
          /\ \A s \in asked : ended'[s] = 0 => ended[s] = 0
      <3>1. /\ \A s \in asked : ended[s] = IF s \in items THEN 0 ELSE 1
            /\ \A s \in Monitored \ asked : ended[s] = 0
        BY <1>11 DEF EndsOnce, CutOff, Fresh
      <3> QED
        BY <1>5, <2>4, <3>1
    <2>9. \A s \in listed' : /\ s \in Held /\ seen'[s] = seen[s]
                             /\ delivered'[s] = delivered[s] /\ announced'[s] = announced[s]
      BY <2>3, <2>4, <2>5
    <2> QED
      BY <1>5, <2>1, <2>4, <2>5, <2>6, <2>7, <2>8, <2>9
  <1> QED
    BY <1>2, <1>8, <1>9, <1>10, <1>11

LEMMA ReceiveKeeps ==
  ASSUME IInv, Receive
  PROVE  IInv'
  <1> USE DEF IInv
  <1> DEFINE m == Head(inbox)
  <1>1. inbox # <<>> /\ srvLimit' = srvLimit
    BY DEF Receive
  <1>2. CASE Close
    BY <1>1, <1>2, CloseKeeps DEF Close
  <1>3. limit \in 1..OutStanding /\ limit \in Nat /\ OutStanding \in Nat
    BY ConstFacts DEF ClientTypes
  <1>4. ASSUME NEW l \in {limit, limit - 1}, l > 0, Ignored(l), lastId' = lastId, m.type # "sync"
        PROVE  IInv'
    <2>1. l \in 1..OutStanding
      BY <1>3, <1>4
    <2> QED
      BY <1>1, <1>4, <2>1, IgnoredKeeps
  <1>5. ASSUME PublishResponse(m), lastId' = lastId
        PROVE  IInv'
    <2>1. CASE m.type = "tooMany" /\ TooMany
      BY <1>2, <1>3, <1>4, <1>5, <2>1 DEF TooMany
    <2>2. CASE m.type = "noSub" /\ Ignored(limit)
      BY <1>3, <1>4, <1>5, <2>2
    <2>3. CASE m.type = "badSession" /\ BadSession
      BY <1>2, <1>3, <1>4, <1>5, <2>3 DEF BadSession
    <2>4. CASE m.type \in {"data", "keep"} /\ Notification(m)
      <3>1. CASE m.s \notin listed /\ Ignored(limit)
        BY <1>3, <1>4, <1>5, <2>4, <3>1
      <3>2. CASE m.s \in listed /\ Follows(m.s, m.n) /\ Processed(m)
        BY <1>1, <1>5, <2>4, <3>2, ProcessedKeeps
      <3> QED
        BY <1>2, <2>4, <3>1, <3>2 DEF Notification
    <2> QED
      BY <1>5, <2>1, <2>2, <2>3, <2>4 DEF PublishResponse
  <1>6. CASE m.type = "sync" /\ Synchronous(m)
    <2>1. CASE CallEnds(m)
      BY <1>1, <1>6, <2>1, CallEndsKeeps
    <2> QED
      BY <1>2, <1>6, <2>1 DEF Synchronous
  <1> QED
    BY <1>2, <1>5, <1>6 DEF Receive

-----------------------------------------------------------------------------
(* The invariant.                                                          *)
LEMMA InitHolds == Init => IInv
  <1> SUFFICES ASSUME Init
               PROVE  IInv
    OBVIOUS
  <1>1. ClientTypes
    BY ConstFacts DEF Init, ClientTypes
  <1>2. ServerTypes
    <2>1. /\ number = [s \in Subs |-> 0] /\ retr = [s \in Subs |-> {}] /\ inbox = <<>>
          /\ reqs = 0 /\ srvLimit \in Limits /\ lastId = 0 /\ net = "closed" /\ session = FALSE
          /\ srv = {} /\ srvItems = {}
      BY DEF Init
    <2>2. number \in [Subs -> 0..MaxNotes] /\ retr \in [Subs -> SUBSET Nums]
      BY <2>1, ConstFacts
    <2>3. inbox \in Seq(Packets) /\ lastId \in 0..MaxSubs
      BY <2>1, ConstFacts
    <2> QED
      BY <2>1, <2>2, <2>3 DEF ServerTypes
  <1>7. Sessions /\ Targets
    BY DEF Init, Sessions, Targets
  <1>3. EndsOnce
    BY DEF Init, EndsOnce
  <1>4. Inbox
    BY DEF Init, Inbox, OneReply, DataKnown, CreateAnswered, ReplyFirst
  <1>5. Held = {}
    BY DEF Init, Held
  <1>6. Books
    BY <1>5 DEF Init, Books, Fresh, DeliveredKnown, AcksHeld, GapHeld
  <1> QED
    BY <1>1, <1>2, <1>3, <1>4, <1>6, <1>7 DEF IInv

LEMMA StepKeeps == IInv /\ [Next]_vars => IInv'
  <1> SUFFICES ASSUME IInv, [Next]_vars
               PROVE  IInv'
    OBVIOUS
  <1>1. CASE Application
    <2>1. CASE Create \/ Disconnect \/ Connect
      BY <2>1, CreateKeeps, DisconnectKeeps, ConnectKeeps
    <2>2. CASE ConnectFails
      BY <2>2, CloseKeeps DEF ConnectFails, Close
    <2>3. ASSUME NEW r \in Subs, Modify(r)
          PROVE  IInv'
      <3>1. ItemCall(r)
        BY <2>3 DEF ItemCall
      <3> QED
        BY <3>1, ItemCallKeeps
    <2>4. ASSUME NEW s \in Monitored,
                 MonitoredItemsCreate(s) \/ MonitoredItemsCreateFails(s) \/ MonitoredItemsDelete(s)
          PROVE  IInv'
      <3>1. s \in Subs
        BY ConstFacts
      <3>2. CASE MonitoredItemsCreateFails(s)
        BY <3>2, ItemFailsKeeps
      <3>3. CASE ~MonitoredItemsCreateFails(s)
        <4>1. ItemCall(s)
          BY <2>4, <3>3 DEF ItemCall
        <4> QED
          BY <3>1, <4>1, ItemCallKeeps
      <3> QED
        BY <3>2, <3>3
    <2>5. ASSUME NEW S \in SUBSET Subs, Delete(S)
          PROVE  IInv'
      BY <2>5, DeleteKeeps
    <2> QED
      BY <1>1, <2>1, <2>2, <2>3, <2>4, <2>5 DEF Application
  <1>2. CASE RunAsync \/ ListenOver \/ UNCHANGED vars
    BY <1>2, RunAsyncKeeps
  <1>3. CASE Receive
    BY <1>3, ReceiveKeeps
  <1>4. CASE Lost
    BY <1>4, CloseKeeps DEF Lost, Close
  <1>5. CASE Server \/ Break
    BY <1>5, NotifiesKeeps, ServerQuietKeeps DEF Server
  <1> QED
    BY <1>1, <1>2, <1>3, <1>4, <1>5 DEF Next

-----------------------------------------------------------------------------
(* The publish requests, which bound each other: what the client counts as *)
(* outstanding is with the server, answered and not read yet, or lost.     *)
HasReply(q) == \E i \in 1..Len(q) : q[i].type = "sync"
Pending(q) == Len(q) - (IF HasReply(q) THEN 1 ELSE 0)

Counts ==
  /\ out \in 0..limit /\ lost \in Nat
  /\ net # "up" => inbox = <<>>
  /\ ~session => reqs = 0
  /\ state = "DISCONNECTED" => net = "closed"
  /\ reqs + lost + Pending(inbox) <= out

Flags == fails \in 0..MaxFails /\ forgot \in BOOLEAN /\ freedUsed \in BOOLEAN

LEMMA PendingIsNat ==
  ASSUME NEW q \in Seq(Packets)
  PROVE  Pending(q) \in Nat /\ Len(q) \in Nat /\ (q = <<>> => Pending(q) = 0)
  <1>1. Len(q) \in Nat
    OBVIOUS
  <1>2. HasReply(q) => Len(q) > 0
    BY <1>1 DEF HasReply
  <1>3. q = <<>> => Len(q) = 0 /\ ~HasReply(q)
    BY DEF HasReply
  <1> QED
    BY <1>1, <1>2, <1>3 DEF Pending

LEMMA PendingGrows ==
  ASSUME NEW box \in Seq(Packets), NEW n \in Nat, NEW t \in Other
  PROVE  /\ box \o Times(n, Answer(t)) \in Seq(Packets)
         /\ HasReply(box \o Times(n, Answer(t))) <=> HasReply(box)
         /\ Pending(box \o Times(n, Answer(t))) = Pending(box) + n
  <1> DEFINE x == Times(n, Answer(t))
             q == box \o x
  <1>1. Len(x) = n
    BY DEF Times
  <1>2. Answer(t) \in Packets
    BY AnswerFacts
  <1>3. x \in Seq(Packets)
    BY <1>2 DEF Times
  <1>4. Grown(q, box)
    BY GrownBy
  <1> HIDE DEF x
  <1>5. q \in Seq(Packets) /\ Len(q) = Len(box) + n /\ Len(box) \in Nat
    BY <1>1, <1>3
  <1> HIDE DEF q
  <1>6. HasReply(q) <=> HasReply(box)
    <2>1. ASSUME NEW i \in 1..Len(box), box[i].type = "sync"
          PROVE  HasReply(q)
      <3>1. i \in 1..Len(q)
        BY <1>5
      <3>2. q[i] = box[i]
        BY <1>4 DEF Grown
      <3> QED
        BY <2>1, <3>1, <3>2 DEF HasReply
    <2>2. ASSUME NEW i \in 1..Len(q), q[i].type = "sync"
          PROVE  HasReply(box)
      <3>1. CASE i \in 1..Len(box)
        <4>1. q[i] = box[i]
          BY <1>4, <3>1 DEF Grown
        <4> QED
          BY <2>2, <3>1, <4>1 DEF HasReply
      <3>2. CASE i \notin 1..Len(box)
        <4>1. i \in (Len(box) + 1)..Len(q)
          BY <1>5, <3>2
        <4>2. q[i].type \in Mute
          BY <1>4, <4>1 DEF Grown
        <4> QED
          BY <2>2, <4>2 DEF Mute, Other
      <3> QED
        BY <3>1, <3>2
    <2> QED
      BY <2>1, <2>2 DEF HasReply
  <1>7. Pending(q) = Pending(box) + n
    BY <1>5, <1>6 DEF Pending
  <1> QED
    BY <1>5, <1>6, <1>7 DEF q, x

(* A message at the end: an answer counts, a reply does not.               *)
LEMMA PendingAppend ==
  ASSUME NEW q \in Seq(Packets), NEW m \in Packets
  PROVE  /\ m.type # "sync" => Pending(Append(q, m)) = Pending(q) + 1
         /\ m.type = "sync" /\ ~HasReply(q) => Pending(Append(q, m)) = Pending(q)
  <1> DEFINE p == Append(q, m)
  <1>1. /\ p \in Seq(Packets) /\ Len(q) \in Nat /\ Len(p) = Len(q) + 1
        /\ \A i \in 1..Len(q) : p[i] = q[i]
        /\ p[Len(q) + 1] = m
    BY AppendFacts
  <1> HIDE DEF p
  <1>2. ASSUME m.type # "sync"
        PROVE  HasReply(p) <=> HasReply(q)
    <2>1. ASSUME NEW i \in 1..Len(p), p[i].type = "sync"
          PROVE  HasReply(q)
      <3>1. i # Len(q) + 1
        BY <1>1, <1>2, <2>1
      <3>2. i \in 1..Len(q)
        BY <1>1, <3>1
      <3> QED
        BY <1>1, <2>1, <3>2 DEF HasReply
    <2>2. ASSUME NEW i \in 1..Len(q), q[i].type = "sync"
          PROVE  HasReply(p)
      <3>1. i \in 1..Len(p)
        BY <1>1
      <3> QED
        BY <1>1, <2>2, <3>1 DEF HasReply
    <2> QED
      BY <2>1, <2>2 DEF HasReply
  <1>3. ASSUME m.type = "sync"
        PROVE  HasReply(p)
    <2>1. Len(q) + 1 \in 1..Len(p)
      BY <1>1
    <2> QED
      BY <1>1, <1>3, <2>1 DEF HasReply
  <1>4. m.type # "sync" => Pending(p) = Pending(q) + 1
    BY <1>1, <1>2 DEF Pending
  <1>5. m.type = "sync" /\ ~HasReply(q) => Pending(p) = Pending(q)
    BY <1>1, <1>3 DEF Pending
  <1> QED
    BY <1>4, <1>5 DEF p

(* The head read: an answer, or the only reply.                            *)
LEMMA PendingTail ==
  ASSUME NEW q \in Seq(Packets), q # <<>>
  PROVE  /\ Tail(q) \in Seq(Packets)
         /\ Head(q).type # "sync" => Pending(Tail(q)) = Pending(q) - 1
         /\ Head(q).type = "sync" /\ ~HasReply(Tail(q)) => Pending(Tail(q)) = Pending(q)
  <1> DEFINE p == Tail(q)
  <1>1. /\ p \in Seq(Packets) /\ Len(q) \in Nat /\ Len(q) > 0 /\ Len(p) = Len(q) - 1
        /\ \A i \in 1..Len(p) : p[i] = q[i + 1]
        /\ Head(q) = q[1]
    OBVIOUS
  <1> HIDE DEF p
  <1>2. ASSUME Head(q).type # "sync"
        PROVE  HasReply(p) <=> HasReply(q)
    <2>1. ASSUME NEW i \in 1..Len(q), q[i].type = "sync"
          PROVE  HasReply(p)
      <3>1. i # 1
        BY <1>1, <1>2, <2>1
      <3>2. i - 1 \in 1..Len(p) /\ (i - 1) + 1 = i
        BY <1>1, <3>1
      <3>3. p[i - 1] = q[i]
        BY <1>1, <3>2
      <3> QED
        BY <2>1, <3>2, <3>3 DEF HasReply
    <2>2. ASSUME NEW i \in 1..Len(p), p[i].type = "sync"
          PROVE  HasReply(q)
      <3>1. i + 1 \in 1..Len(q)
        BY <1>1
      <3>2. p[i] = q[i + 1]
        BY <1>1
      <3> QED
        BY <2>2, <3>1, <3>2 DEF HasReply
    <2> QED
      BY <2>1, <2>2 DEF HasReply
  <1>3. ASSUME Head(q).type = "sync"
        PROVE  HasReply(q)
    <2>1. 1 \in 1..Len(q)
      BY <1>1
    <2> QED
      BY <1>1, <1>3, <2>1 DEF HasReply
  <1>4. Head(q).type # "sync" => Pending(p) = Pending(q) - 1
    BY <1>1, <1>2 DEF Pending
  <1>5. Head(q).type = "sync" /\ ~HasReply(p) => Pending(p) = Pending(q)
    BY <1>1, <1>3 DEF Pending
  <1> QED
    BY <1>1, <1>4, <1>5 DEF p

(* What arrives becomes a queued request or an answer; nothing arrives over*)
(* a broken connection.                                                    *)
LEMMA ArriveCounts ==
  ASSUME ServerTypes, NEW n \in Nat, NEW a, NEW box \in Seq(Packets), Arrive(n, a, box)
  PROVE  /\ inbox' \in Seq(Packets) /\ reqs' \in Nat
         /\ reqs' + Pending(inbox') <= reqs + Pending(box) + n
         /\ net # "up" => inbox' = box
         /\ ~session => reqs' = reqs
  <1> DEFINE room == IF srvLimit = 0 \/ reqs + n <= srvLimit THEN reqs + n ELSE srvLimit
             over == reqs + n - room
  <1>1. reqs \in Nat /\ srvLimit \in Nat
    BY ConstFacts DEF ServerTypes
  <1>2. room \in Nat /\ over \in Nat /\ room + over = reqs + n
    BY <1>1
  <1> HIDE DEF over, room
  <1>3. \/ /\ net # "up" /\ inbox' = box /\ reqs' = reqs
        \/ /\ net = "up" /\ ~session /\ inbox' = box \o Times(n, Answer("badSession")) /\ reqs' = reqs
        \/ /\ net = "up" /\ session /\ inbox' = box \o Times(n, Answer("noSub")) /\ reqs' = reqs
        \/ /\ net = "up" /\ session /\ inbox' = box \o Times(over, Answer("tooMany")) /\ reqs' = room
    BY DEF Arrive, room, over
  <1>4. Pending(box) \in Nat
    BY PendingIsNat
  <1>5. CASE net # "up" /\ inbox' = box /\ reqs' = reqs
    BY <1>1, <1>4, <1>5
  <1>6. ASSUME NEW t \in Other, NEW k \in Nat, inbox' = box \o Times(k, Answer(t))
        PROVE  inbox' \in Seq(Packets) /\ Pending(inbox') = Pending(box) + k
    BY <1>6, PendingGrows
  <1>7. CASE net = "up" /\ ~session /\ inbox' = box \o Times(n, Answer("badSession")) /\ reqs' = reqs
    <2>1. inbox' \in Seq(Packets) /\ Pending(inbox') = Pending(box) + n
      BY <1>6, <1>7 DEF Other
    <2> QED
      BY <1>1, <1>4, <1>7, <2>1
  <1>8. CASE net = "up" /\ session /\ inbox' = box \o Times(n, Answer("noSub")) /\ reqs' = reqs
    <2>1. inbox' \in Seq(Packets) /\ Pending(inbox') = Pending(box) + n
      BY <1>6, <1>8 DEF Other
    <2> QED
      BY <1>1, <1>4, <1>8, <2>1
  <1>9. CASE net = "up" /\ session /\ inbox' = box \o Times(over, Answer("tooMany")) /\ reqs' = room
    <2>1. inbox' \in Seq(Packets) /\ Pending(inbox') = Pending(box) + over
      BY <1>2, <1>6, <1>9 DEF Other
    <2> QED
      BY <1>1, <1>2, <1>4, <1>9, <2>1
  <1> QED
    BY <1>3, <1>5, <1>7, <1>8, <1>9

(* How the sums of requests move.                                          *)
LEMMA SumStays ==
  ASSUME NEW r \in Nat, NEW k \in Nat, NEW n \in Nat, NEW p \in Nat, NEW c \in Nat, NEW o \in Int,
         r + n <= k, k + c + p <= o
  PROVE  r + c + (p + n) <= o
  OBVIOUS

LEMMA SumGrows ==
  ASSUME NEW r \in Nat, NEW p \in Nat, NEW c \in Nat, NEW o \in Nat, NEW n \in Nat, NEW x \in Nat,
         NEW r2 \in Nat, NEW p2 \in Nat, r2 + p2 <= r + p + n, r + c + p <= o
  PROVE  r2 + (c + x) + p2 <= o + n + x
  OBVIOUS

(* What a background publish leaves, where o requests are outstanding      *)
(* before it of at most l.                                                 *)
Counted(l) ==
  /\ out' \in 0..l /\ lost' \in Nat /\ net' \in {net, "closed"}
  /\ net' # "up" => inbox' = <<>>
  /\ ~session' => reqs' = 0
  /\ reqs' + lost' + Pending(inbox') <= out'

LEMMA PublishCounts ==
  ASSUME ServerTypes, NEW l \in Nat, NEW o \in 0..l, NEW a, NEW box \in Seq(Packets),
         lost \in Nat, net # "up" => box = <<>>, ~session => reqs = 0,
         reqs + lost + Pending(box) <= o,
         BackgroundPublish(o, l, a, box) \/ Proceeds(o, l, a, box)
  PROVE  Counted(l)
  <1>1. reqs \in Nat /\ Pending(box) \in Nat /\ net \in {"up", "broken", "closed"}
    BY PendingIsNat DEF ServerTypes
  (* A send of n requests, of which one more than those may be lost.       *)
  <1>2. ASSUME NEW n \in Nat, NEW x \in {0, 1}, Arrive(n, a, box), UNCHANGED <<net, session>>,
               out' = o + n + x, out' <= l, lost' = lost + x
        PROVE  Counted(l)
    <2>1. /\ inbox' \in Seq(Packets) /\ reqs' \in Nat
          /\ reqs' + Pending(inbox') <= reqs + Pending(box) + n
          /\ net # "up" => inbox' = box
          /\ ~session => reqs' = reqs
      BY <1>2, ArriveCounts
    <2>2. Pending(inbox') \in Nat
      BY <2>1, PendingIsNat
    <2>3. out' \in 0..l /\ lost' \in Nat
      BY <1>2
    <2>4. reqs' + lost' + Pending(inbox') <= out'
      <3>1. n \in Nat /\ x \in Nat /\ o \in Nat /\ out' = o + n + x /\ lost' = lost + x
        BY <1>2
      <3>2. reqs' + Pending(inbox') <= reqs + Pending(box) + n /\ reqs' \in Nat
        BY <2>1
      <3>3. reqs + lost + Pending(box) <= o /\ lost \in Nat
        OBVIOUS
      <3> QED
        BY <1>1, <2>2, <3>1, <3>2, <3>3, SumGrows, Zenon
    <2> QED
      BY <1>2, <2>1, <2>3, <2>4 DEF Counted
  <1>3. CASE Proceeds(o, l, a, box)
    <2>1. CASE Full(o, l)
      <3>1. out' = o /\ inbox' = box /\ UNCHANGED <<net, session, reqs, lost>>
        BY <1>3, <2>1 DEF Proceeds, server
      <3> QED
        BY <3>1 DEF Counted
    <2>2. CASE ~Full(o, l)
      <3>1. out' = l /\ Arrive(l - o, a, box) /\ UNCHANGED <<net, session, lost>>
        BY <1>3, <2>2 DEF Proceeds, SendsAll
      <3>2. l - o \in Nat /\ l = o + (l - o) + 0 /\ lost = lost + 0
        OBVIOUS
      <3> QED
        BY <1>2, <3>1, <3>2
    <2> QED
      BY <2>1, <2>2
  <1>4. CASE BuildFails(o, l, a, box)
    <2>1. PICK j \in 0..(l - o - 1) :
            out' = o + j /\ Arrive(j, a, box) /\ UNCHANGED <<net, session, lost>>
      BY <1>4 DEF BuildFails
    <2>2. j \in Nat /\ out' = o + j + 0 /\ out' <= l /\ lost' = lost + 0
      BY <2>1
    <2> QED
      BY <1>2, <2>1, <2>2
  <1>5. CASE SendFails(o, l, a, box)
    <2>1. PICK j \in 0..(l - o - 1) :
            out' = o + j + 1 /\ Arrive(j, a, box) /\ lost' = lost + 1 /\ UNCHANGED <<net, session>>
      BY <1>5 DEF SendFails
    <2>2. j \in Nat /\ out' <= l
      BY <2>1
    <2> QED
      BY <1>2, <2>1, <2>2
  <1>6. CASE WriteFails(o, l, a, box) /\ ~Full(o, l)
    <2>1. (\E j \in 0..(l - o - 1) : out' = o + j + 1) /\ lost' = lost + 1 /\ Hangup
      BY <1>6 DEF WriteFails
    <2>2. net' = "closed" /\ inbox' = <<>> /\ inbox' \in Seq(Packets) /\ session' = FALSE /\ reqs' = 0
      BY <2>1, HangupFacts
    <2>3. Pending(inbox') = 0
      BY <2>2, PendingIsNat
    <2>4. o + 1 <= out' /\ out' <= l /\ out' \in Nat
      BY <2>1
    <2>5. out' \in 0..l /\ lost' \in Nat /\ reqs' + lost' + Pending(inbox') <= out'
      BY <1>1, <2>1, <2>2, <2>3, <2>4
    <2> QED
      BY <2>2, <2>5 DEF Counted
  <1> QED
    BY <1>3, <1>4, <1>5, <1>6 DEF BackgroundPublish

LEMMA CountedGives ==
  ASSUME Counts, Counted(limit'), state' = state
  PROVE  Counts'
  BY DEF Counts, Counted

(* Closing the connection gives up all that was under way.                 *)
LEMMA CloseCounts ==
  ASSUME ServerTypes, Counts, Flags, Close, fails' = fails
  PROVE  Counts' /\ Flags'
  <1>1. /\ state' = "DISCONNECTED" /\ Hangup /\ UNCHANGED <<out, limit, lost, forgot>>
        /\ freedUsed' \in BOOLEAN
    BY DEF Close
  <1>2. /\ net' = "closed" /\ inbox' = <<>> /\ inbox' \in Seq(Packets) /\ session' = FALSE
        /\ reqs' = 0
    BY <1>1, HangupFacts
  <1>3. Pending(inbox') = 0
    BY <1>2, PendingIsNat
  <1>4. reqs \in Nat /\ Pending(inbox) \in Nat
    BY PendingIsNat DEF ServerTypes
  <1>5. reqs' + lost' + Pending(inbox') <= out'
    BY <1>1, <1>2, <1>3, <1>4 DEF Counts
  <1>6. Counts'
    BY <1>1, <1>2, <1>5 DEF Counts
  <1> QED
    BY <1>1, <1>6 DEF Flags

LEMMA FlagsKept ==
  ASSUME Flags, UNCHANGED fails \/ Fails, forgot' \in BOOLEAN, freedUsed' \in BOOLEAN
  PROVE  Flags'
  BY SubsAssumption DEF Flags, Fails

LEMMA PublishFlags ==
  ASSUME Flags, NEW o, NEW l, NEW a, NEW box, BackgroundPublish(o, l, a, box), freedUsed' = freedUsed
  PROVE  Flags'
  <1>1. UNCHANGED fails \/ Fails
    BY DEF BackgroundPublish, BuildFails, SendFails, WriteFails
  <1>2. forgot' \in BOOLEAN
    <2>1. CASE UNCHANGED forgot
      BY <2>1 DEF Flags
    <2>2. CASE SendFails(o, l, a, box)
      <3>1. PICK j \in 0..(l - o - 1) : forgot' = (forgot \/ (j = 0 /\ a # {}))
        BY <2>2 DEF SendFails
      <3> QED
        BY <3>1
    <2> QED
      BY <2>1, <2>2 DEF BackgroundPublish, BuildFails, WriteFails
  <1> QED
    BY <1>1, <1>2, FlagsKept DEF Flags

(* An answer that is read was counted: there is one outstanding to take    *)
(* off, and all of them are within the limit even after it was lowered.    *)
LEMMA AnsweredCounts ==
  ASSUME IInv, Counts, inbox # <<>>, Head(inbox).type # "sync", NEW l \in {limit, limit - 1}, l > 0,
         NEW a, Answered(l, a) \/ Proceeds(out - 1, l, a, Tail(inbox))
  PROVE  Counted(l)
  <1>1. inbox \in Seq(Packets) /\ reqs \in Nat /\ limit \in Nat
    BY ConstFacts DEF IInv, ServerTypes, ClientTypes
  <1>2. Tail(inbox) \in Seq(Packets) /\ Pending(Tail(inbox)) = Pending(inbox) - 1
    BY <1>1, PendingTail
  <1>3. Pending(Tail(inbox)) \in Nat /\ Pending(inbox) \in Nat
    BY <1>1, <1>2, PendingIsNat
  <1>4. out - 1 \in 0..l /\ l \in Nat /\ lost \in Nat
    BY <1>1, <1>2, <1>3 DEF Counts
  <1>5. reqs + lost + Pending(Tail(inbox)) <= out - 1
    BY <1>1, <1>2, <1>3, <1>4 DEF Counts
  <1>6. net = "up" /\ (~session => reqs = 0)
    BY DEF Counts
  <1> QED
    BY <1>2, <1>4, <1>5, <1>6, PublishCounts DEF Answered, IInv

LEMMA IgnoredCounts ==
  ASSUME IInv, Counts, Flags, inbox # <<>>, Head(inbox).type # "sync",
         NEW l \in {limit, limit - 1}, l > 0, Ignored(l)
  PROVE  Counts' /\ Flags'
  <1>1. Answered(l, acks) /\ limit' = l /\ state' = state /\ freedUsed' = freedUsed
    BY DEF Ignored, thread
  <1>2. Counted(l)
    BY <1>1, AnsweredCounts
  <1>3. Counts'
    BY <1>1, <1>2, CountedGives
  <1>4. Flags'
    BY <1>1, PublishFlags DEF Answered
  <1> QED
    BY <1>3, <1>4

LEMMA ProcessedCounts ==
  ASSUME IInv, Counts, Flags, inbox # <<>>, Head(inbox).type \in {"data", "keep"},
         Processed(Head(inbox))
  PROVE  Counts' /\ Flags'
  <1> DEFINE m == Head(inbox)
  <1>1. /\ limit' = limit /\ state' = state /\ freedUsed' = freedUsed
        /\ \E a : \/ Answered(limit, a)
                  \/ Fails /\ forgot' = TRUE /\ Proceeds(out - 1, limit, a, Tail(inbox))
    BY DEF Processed, thread, Data, KeepAlive
  <1>2. PICK a : \/ Answered(limit, a)
                 \/ Fails /\ forgot' = TRUE /\ Proceeds(out - 1, limit, a, Tail(inbox))
    BY <1>1
  <1>3. limit > 0 /\ Head(inbox).type # "sync"
    BY ConstFacts DEF IInv, ClientTypes
  <1>4. Counts'
    BY <1>1, <1>2, <1>3, AnsweredCounts, CountedGives
  <1>5. Flags'
    <2>1. CASE Answered(limit, a)
      BY <1>1, <2>1, PublishFlags DEF Answered
    <2>2. CASE Fails /\ forgot' = TRUE
      BY <1>1, <2>2, FlagsKept DEF Flags
    <2> QED
      BY <1>2, <2>1, <2>2
  <1> QED
    BY <1>4, <1>5

(* The reply is read: there is no other, so the answers behind it stay.    *)
LEMMA CallEndsCounts ==
  ASSUME IInv, Counts, Flags, inbox # <<>>, Head(inbox).type = "sync", CallEnds(Head(inbox))
  PROVE  Counts' /\ Flags'
  <1>1. /\ inbox' = Tail(inbox)
        /\ UNCHANGED <<state, out, limit, net, session, reqs, lost, forgot, fails, freedUsed>>
    BY DEF CallEnds, server
  <1>2. /\ inbox \in Seq(Packets) /\ Len(inbox) \in Nat /\ 1 \in 1..Len(inbox)
        /\ Head(inbox) = inbox[1] /\ Len(Tail(inbox)) = Len(inbox) - 1
        /\ \A i \in 1..Len(Tail(inbox)) : i + 1 \in 1..Len(inbox) /\ Tail(inbox)[i] = inbox[i + 1]
    BY DEF IInv, ServerTypes
  <1>3. ~HasReply(Tail(inbox))
    <2> SUFFICES ASSUME NEW i \in 1..Len(Tail(inbox)), Tail(inbox)[i].type = "sync"
                 PROVE  FALSE
      BY DEF HasReply
    <2>1. IsReply(i + 1) /\ IsReply(1) /\ i + 1 \in 1..Len(inbox)
      BY <1>2 DEF IsReply
    <2>2. i + 1 = 1
      BY <1>2, <2>1 DEF IInv, Inbox, OneReply
    <2> QED
      BY <2>2
  <1>4. Pending(Tail(inbox)) = Pending(inbox)
    BY <1>2, <1>3, PendingTail
  <1>5. net = "up"
    BY DEF Counts
  <1>6. Counts'
    BY <1>1, <1>4, <1>5 DEF Counts
  <1>7. Flags'
    BY <1>1 DEF Flags
  <1> QED
    BY <1>6, <1>7

LEMMA ReceiveCounts ==
  ASSUME IInv, Counts, Flags, Receive
  PROVE  Counts' /\ Flags'
  <1> DEFINE m == Head(inbox)
  <1>1. inbox # <<>>
    BY DEF Receive
  <1>2. CASE Close /\ fails' = fails
    BY <1>2, CloseCounts DEF IInv
  <1>3. limit \in Nat /\ limit > 0
    BY ConstFacts DEF IInv, ClientTypes
  <1>4. ASSUME NEW l \in {limit, limit - 1}, l > 0, Ignored(l), m.type # "sync"
        PROVE  Counts' /\ Flags'
    BY <1>1, <1>4, IgnoredCounts
  <1>5. CASE PublishResponse(m)
    <2>1. CASE m.type = "tooMany" /\ TooMany
      BY <1>2, <1>3, <1>4, <2>1 DEF TooMany
    <2>2. CASE m.type = "noSub" /\ Ignored(limit)
      BY <1>3, <1>4, <2>2
    <2>3. CASE m.type = "badSession" /\ BadSession
      BY <1>2, <1>3, <1>4, <2>3 DEF BadSession
    <2>4. CASE m.type \in {"data", "keep"} /\ Notification(m)
      <3>1. CASE Ignored(limit)
        BY <1>3, <1>4, <2>4, <3>1
      <3>2. CASE Processed(m)
        BY <1>1, <2>4, <3>2, ProcessedCounts
      <3> QED
        BY <1>2, <2>4, <3>1, <3>2 DEF Notification
    <2> QED
      BY <1>5, <2>1, <2>2, <2>3, <2>4 DEF PublishResponse
  <1>6. CASE m.type = "sync" /\ Synchronous(m)
    <2>1. CASE CallEnds(m)
      BY <1>1, <1>6, <2>1, CallEndsCounts
    <2> QED
      BY <1>2, <1>6, <2>1 DEF Synchronous
  <1> QED
    BY <1>2, <1>5, <1>6 DEF Receive

(* What leaves the counters alone.                                         *)
LEMMA QuietCounts ==
  ASSUME Counts, Flags, UNCHANGED <<out, limit, net, lost, forgot, freedUsed, inbox, session, reqs>>,
         UNCHANGED fails \/ Fails, state' # "DISCONNECTED" \/ state' = state
  PROVE  Counts' /\ Flags'
  <1>1. Counts'
    BY DEF Counts
  <1> QED
    BY <1>1, FlagsKept DEF Flags

(* A call's request is answered: n of the queued publish requests with it. *)
LEMMA ReplyCounts ==
  ASSUME IInv, Counts, Flags, pc = "idle", UNCHANGED <<out, limit, net, lost, forgot, freedUsed>>,
         fails' \in 0..MaxFails, state' # "DISCONNECTED", net = "up", ~session' => reqs' = 0,
         reqs' \in Nat, NEW n \in Nat, NEW good \in BOOLEAN, NEW no \in SUBSET Subs,
         reqs' + n <= reqs, Replied(good, no, inbox \o Times(n, Answer("noSub")))
  PROVE  Counts' /\ Flags'
  <1> DEFINE q == inbox \o Times(n, Answer("noSub"))
  <1>1. inbox \in Seq(Packets) /\ reqs \in Nat
    BY DEF IInv, ServerTypes
  <1>2. ~HasReply(inbox)
    BY DEF HasReply, IInv, Inbox, OneReply, IsReply, Calls
  <1>3. q \in Seq(Packets) /\ ~HasReply(q) /\ Pending(q) = Pending(inbox) + n
    BY <1>1, <1>2, PendingGrows DEF Other
  <1>4. inbox' = Append(q, Reply(good, no))
    BY DEF Replied
  <1> HIDE DEF q
  <1>5. Reply(good, no) \in Packets /\ Reply(good, no).type = "sync"
    BY ReplyFacts
  <1>6. Pending(inbox') = Pending(inbox) + n
    BY <1>3, <1>4, <1>5, PendingAppend
  <1>7. Pending(inbox) \in Nat
    BY <1>1, PendingIsNat
  <1>8. reqs' + lost' + Pending(inbox') <= out'
    <2>1. reqs + lost + Pending(inbox) <= out /\ lost \in Nat /\ out \in Int
      BY DEF Counts
    <2>2. reqs' + lost + (Pending(inbox) + n) <= out
      BY <1>1, <1>7, <2>1, SumStays, Zenon
    <2> QED
      BY <1>6, <2>2, Zenon
  <1>9. Counts'
    BY <1>8 DEF Counts
  <1> QED
    BY <1>9 DEF Flags

LEMMA NoneSent ==
  ASSUME IInv, NEW good, NEW no, Replied(good, no, inbox)
  PROVE  Replied(good, no, inbox \o Times(0, Answer("noSub")))
  <1>1. inbox \in Seq(Packets)
    BY DEF IInv, ServerTypes
  <1>2. Times(0, Answer("noSub")) = <<>>
    BY DEF Times
  <1> QED
    BY <1>1, <1>2 DEF Replied

LEMMA OneReplySent ==
  ASSUME IInv, Counts, Flags, pc = "idle", UNCHANGED <<out, limit, net, lost, forgot, freedUsed>>,
         fails' = fails, state' # "DISCONNECTED",
         \/ net = "up" /\ (\E good \in BOOLEAN : Replied(good, {}, inbox))
              /\ ((session' = session /\ reqs' = reqs) \/ reqs' = 0)
         \/ UNCHANGED <<inbox, session, reqs>>
  PROVE  Counts' /\ Flags'
  <1>1. reqs \in Nat /\ fails' \in 0..MaxFails /\ {} \in SUBSET Subs
    BY DEF IInv, ServerTypes, Flags
  <1>2. CASE UNCHANGED <<inbox, session, reqs>>
    BY <1>2, QuietCounts
  <1>3. ASSUME net = "up", NEW good \in BOOLEAN, Replied(good, {}, inbox),
               (session' = session /\ reqs' = reqs) \/ reqs' = 0
        PROVE  Counts' /\ Flags'
    <2>1. Replied(good, {}, inbox \o Times(0, Answer("noSub")))
      BY <1>3, NoneSent
    <2>2. (~session' => reqs' = 0) /\ reqs' \in Nat /\ reqs' + 0 <= reqs /\ 0 \in Nat
      BY <1>1, <1>3 DEF Counts
    <2> QED
      BY <1>1, <1>3, <2>1, <2>2, ReplyCounts
  <1> QED
    BY <1>2, <1>3

LEMMA DeleteCounts ==
  ASSUME IInv, Counts, Flags, NEW S \in SUBSET Subs, Delete(S)
  PROVE  Counts' /\ Flags'
  <1>1. /\ pc = "idle" /\ state' = "SESSION"
        /\ UNCHANGED <<out, limit, net, lost, forgot, freedUsed>>
    BY DEF Delete, Calling, Unchanged
  <1>2. CASE (Refused \/ Vanishes) /\ fails' = fails
    <2>1. \/ net = "up" /\ Replied(FALSE, {}, inbox) /\ session' = session /\ reqs' = reqs
          \/ UNCHANGED <<inbox, session, reqs>>
      BY <1>2 DEF Refused, Vanishes, server
    <2> QED
      BY <1>1, <1>2, <2>1, OneReplySent
  <1>3. ASSUME net = "up", session' = session, session, NEW no \in SUBSET (S \cap srv),
               fails' = fails + Cardinality(no), fails' <= MaxFails,
               LET rest == IF srv' = {} THEN reqs ELSE 0
               IN /\ reqs' = reqs - rest
                  /\ Replied(TRUE, no, inbox \o Times(rest, Answer("noSub")))
        PROVE  Counts' /\ Flags'
    <2>1. no \in SUBSET Subs
      OBVIOUS
    <2>2. Cardinality(no) \in Nat
      <3>1. 1 \in Int /\ MaxSubs \in Int
        BY ConstFacts
      <3>2. IsFiniteSet(Subs)
        BY <3>1, FS_Interval DEF Subs
      <3>3. IsFiniteSet(no)
        BY <2>1, <3>2, FS_Subset
      <3> QED
        BY <3>3, FS_CardinalityType
    <2>3. fails' \in 0..MaxFails
      BY <1>3, <2>2, SubsAssumption DEF Flags
    <2>4. reqs \in Nat
      BY DEF IInv, ServerTypes
    <2> DEFINE n == IF srv' = {} THEN reqs ELSE 0
    <2>5. /\ n \in Nat /\ reqs' = reqs - n /\ reqs' \in Nat /\ reqs' + n <= reqs
          /\ Replied(TRUE, no, inbox \o Times(n, Answer("noSub")))
      <3>1. n \in Nat /\ reqs - n \in Nat
        BY <2>4
      <3>2. reqs' = reqs - n /\ Replied(TRUE, no, inbox \o Times(n, Answer("noSub")))
        BY <1>3
      <3> HIDE DEF n
      <3>3. reqs' \in Nat
        BY <3>1, <3>2, Zenon
      <3>4. reqs' + n <= reqs
        BY <2>4, <3>1, <3>2
      <3> QED
        BY <3>1, <3>2, <3>3, <3>4, Zenon
    <2> HIDE DEF n
    <2> QED
      BY <1>1, <1>3, <2>1, <2>3, <2>5, ReplyCounts
  <1> QED
    BY <1>2, <1>3 DEF Delete

LEMMA ApplicationCounts ==
  ASSUME IInv, Counts, Flags, Application
  PROVE  Counts' /\ Flags'
  <1>1. ASSUME pc = "idle", state' # "DISCONNECTED", fails' = fails,
               UNCHANGED <<out, limit, net, lost, forgot, freedUsed>>,
               \/ Refused \/ Vanishes
               \/ net = "up" /\ Replied(TRUE, {}, inbox) /\ session' = session /\ reqs' = reqs
        PROVE  Counts' /\ Flags'
    <2>1. \/ net = "up" /\ (\E good \in BOOLEAN : Replied(good, {}, inbox)) /\ session' = session
                /\ reqs' = reqs
          \/ UNCHANGED <<inbox, session, reqs>>
      BY <1>1 DEF Refused, Vanishes, server
    <2> QED
      BY <1>1, <2>1, OneReplySent
  <1>2. CASE Create
    BY <1>1, <1>2 DEF Create, Calling, Unchanged
  <1>3. ASSUME NEW s \in Subs, Modify(s)
        PROVE  Counts' /\ Flags'
    BY <1>1, <1>3 DEF Modify, Calling, Unchanged
  <1>4. ASSUME NEW s \in Monitored, MonitoredItemsCreate(s)
        PROVE  Counts' /\ Flags'
    BY <1>1, <1>4 DEF MonitoredItemsCreate, Calling, Unchanged
  <1>5. ASSUME NEW s \in Monitored, MonitoredItemsDelete(s)
        PROVE  Counts' /\ Flags'
    BY <1>1, <1>5 DEF MonitoredItemsDelete, Calling, Unchanged
  <1>6. ASSUME NEW s \in Monitored, MonitoredItemsCreateFails(s)
        PROVE  Counts' /\ Flags'
    <2>1. /\ UNCHANGED <<state, out, limit, net, inbox, session, reqs, lost, forgot, freedUsed>>
          /\ UNCHANGED fails \/ Fails
      BY <1>6 DEF MonitoredItemsCreateFails, thread, client, server
    <2> QED
      BY <2>1, FlagsKept DEF Counts, Flags
  <1>7. ASSUME NEW S \in SUBSET Subs, Delete(S)
        PROVE  Counts' /\ Flags'
    BY <1>7, DeleteCounts
  <1>8. CASE Disconnect
    <2>1. /\ pc = "idle" /\ state' = "SECURECHANNEL" /\ fails' = fails
          /\ UNCHANGED <<out, limit, net, lost, forgot, freedUsed>>
          /\ \/ net = "up" /\ Replied(TRUE, {}, inbox) /\ reqs' = 0
             \/ UNCHANGED <<inbox, session, reqs>>
      BY <1>8 DEF Disconnect, Calling, client, Vanishes, server
    <2> QED
      BY <2>1, OneReplySent
  <1>9. CASE Connect
    <2>1. /\ state = "DISCONNECTED" /\ state' = "SESSION" /\ out' = 0 /\ lost' = 0 /\ forgot' = FALSE
          /\ net' = "up" /\ session' = TRUE /\ UNCHANGED <<limit, inbox, reqs, fails, freedUsed>>
      BY <1>9 DEF Connect
    <2>2. net # "up" /\ ~session
      BY <2>1 DEF Counts, IInv, Sessions
    <2>3. inbox = <<>> /\ reqs = 0 /\ limit \in Nat /\ inbox \in Seq(Packets)
      BY <2>2, ConstFacts DEF Counts, IInv, ClientTypes, ServerTypes
    <2>4. Pending(inbox) = 0
      BY <2>3, PendingIsNat
    <2>5. Counts'
      BY <2>1, <2>3, <2>4 DEF Counts
    <2> QED
      BY <2>1, <2>5 DEF Flags
  <1>10. CASE ConnectFails
    BY <1>10, CloseCounts DEF ConnectFails, IInv
  <1> QED
    BY <1>2, <1>3, <1>4, <1>5, <1>6, <1>7, <1>8, <1>9, <1>10 DEF Application

(* Of the server's steps only those that send touch the counters, and the  *)
(* end of the session and the break of the connection.                     *)
LEMMA SendCounts ==
  ASSUME IInv, Counts, Flags, Serving, NEW m \in Packets, m.type # "sync", reqs > 0, reqs' = reqs - 1,
         \/ Sends(m)
         \/ Fails /\ inbox' = Append(inbox, m) /\ lost' = lost,
         UNCHANGED <<state, out, limit, net, session, forgot, freedUsed>>
  PROVE  Counts' /\ Flags'
  <1>1. inbox \in Seq(Packets) /\ reqs \in Nat
    BY DEF IInv, ServerTypes
  <1>2. Pending(inbox) \in Nat
    BY <1>1, PendingIsNat
  <1>3. \/ Pending(inbox') = Pending(inbox) + 1 /\ lost' = lost
        \/ Pending(inbox') = Pending(inbox) /\ lost' = lost + 1
    BY <1>1, PendingAppend DEF Sends
  <1>4. reqs' \in Nat /\ net' = "up" /\ session'
    BY <1>1 DEF Serving
  <1>5. reqs + lost + Pending(inbox) <= out /\ lost \in Nat /\ out \in 0..limit
    BY DEF Counts
  <1>6. lost' \in Nat /\ (lost' + Pending(inbox') = lost + Pending(inbox) + 1)
    BY <1>2, <1>3, <1>5
  <1>7. reqs' + lost' + Pending(inbox') <= out
    BY <1>1, <1>2, <1>3, <1>5
  <1>8. Counts'
    BY <1>4, <1>5, <1>6, <1>7 DEF Counts
  <1>9. UNCHANGED fails \/ Fails
    BY DEF Sends
  <1> QED
    BY <1>8, <1>9, FlagsKept DEF Flags

LEMMA ServerCounts ==
  ASSUME IInv, Counts, Flags, Server \/ Break
  PROVE  Counts' /\ Flags'
  <1>1. Elsewhere => UNCHANGED <<state, out, limit, net, session, forgot, freedUsed>>
    BY DEF Elsewhere, thread, client
  <1>2. ASSUME NEW s \in Subs, number[s] < MaxNotes
        PROVE  number[s] \in 0..MaxNotes /\ number[s] + 1 \in Nums
    BY <1>2, ConstFacts DEF IInv, ServerTypes, Nums
  <1>3. ASSUME NEW s \in Subs, Notifies(s)
        PROVE  Counts' /\ Flags'
    <2>1. number'[s] = number[s] + 1
      BY <1>3 DEF Notifies, IInv, ServerTypes
    <2> DEFINE m == [type |-> "data", s |-> s, n |-> number'[s]]
    <2>2. m \in Packets /\ m.type # "sync"
      BY <1>2, <1>3, <2>1 DEF Packets, Answers, Notifies
    <2> QED
      BY <1>1, <1>3, <2>2, SendCounts DEF Notifies
  <1>4. ASSUME NEW s \in Subs, KeepsAlive(s)
        PROVE  Counts' /\ Flags'
    <2> DEFINE m == [type |-> "keep", s |-> s, n |-> number[s] + 1]
    <2>1. m \in Packets /\ m.type # "sync"
      BY <1>2, <1>4 DEF Packets, Answers, KeepsAlive
    <2> QED
      BY <1>1, <1>4, <2>1, SendCounts DEF KeepsAlive
  <1>5. CASE Refuses
    <2>1. Answer("other") \in Packets /\ Answer("other").type # "sync"
      BY AnswerFacts DEF Other
    <2> QED
      BY <1>1, <1>5, <2>1, SendCounts DEF Refuses
  <1>6. ASSUME NEW s \in Subs, SubscriptionEnds(s)
        PROVE  Counts' /\ Flags'
    <2>1. UNCHANGED <<state, out, limit, net, session, forgot, freedUsed, inbox, reqs, lost, fails>>
      BY <1>1, <1>6 DEF SubscriptionEnds
    <2> QED
      BY <2>1 DEF Counts, Flags
  <1>7. CASE SessionEnds \/ Break
    <2>1. /\ UNCHANGED <<state, out, limit, lost, forgot, freedUsed, fails>> /\ reqs' = 0
          /\ \/ net' = net /\ inbox' = inbox
             \/ net = "up" /\ net' = "broken" /\ inbox' = <<>>
      BY <1>7 DEF SessionEnds, Break, thread, client
    <2>2. inbox \in Seq(Packets) /\ <<>> \in Seq(Packets) /\ reqs \in Nat
      BY DEF IInv, ServerTypes
    <2>3. Pending(inbox) \in Nat /\ Pending(<<>>) = 0
      BY <2>2, PendingIsNat
    <2>4. Pending(inbox') <= Pending(inbox) /\ Pending(inbox') \in Nat
      BY <2>1, <2>3
    <2>5. reqs + lost + Pending(inbox) <= out /\ lost \in Nat /\ out \in 0..limit
      BY DEF Counts
    <2>6. limit \in Nat
      BY ConstFacts DEF IInv, ClientTypes
    <2>7. reqs' + lost' + Pending(inbox') <= out'
      BY <2>1, <2>2, <2>3, <2>4, <2>5, <2>6
    <2>8. state = "DISCONNECTED" => net # "up"
      BY DEF Counts
    <2>9. Counts'
      BY <2>1, <2>5, <2>7, <2>8 DEF Counts
    <2> QED
      BY <2>1, <2>9 DEF Flags
  <1> QED
    BY <1>3, <1>4, <1>5, <1>6, <1>7 DEF Server

LEMMA StepCounts == IInv /\ Counts /\ Flags /\ [Next]_vars => Counts' /\ Flags'
  <1> SUFFICES ASSUME IInv, Counts, Flags, [Next]_vars
               PROVE  Counts' /\ Flags'
    OBVIOUS
  <1>1. CASE Application
    BY <1>1, ApplicationCounts
  <1>2. CASE RunAsync
    <2>1. /\ BackgroundPublish(out, limit, acks, inbox) /\ UNCHANGED <<state, limit, freedUsed>>
      BY <1>2 DEF RunAsync
    <2>2. /\ limit \in Nat /\ out \in 0..limit /\ inbox \in Seq(Packets) /\ lost \in Nat
          /\ net # "up" => inbox = <<>>
          /\ ~session => reqs = 0
          /\ reqs + lost + Pending(inbox) <= out
      BY ConstFacts DEF IInv, ClientTypes, ServerTypes, Counts
    <2>3. ServerTypes
      BY DEF IInv
    <2>4. Counted(limit)
      BY <2>1, <2>2, <2>3, PublishCounts
    <2> QED
      BY <2>1, <2>4, CountedGives, PublishFlags
  <1>3. CASE ListenOver \/ UNCHANGED vars
    <2>1. UNCHANGED <<state, out, limit, net, inbox, session, reqs, lost, forgot, fails, freedUsed>>
      BY <1>3 DEF ListenOver, vars, thread, client, server
    <2> QED
      BY <2>1 DEF Counts, Flags
  <1>4. CASE Receive
    BY <1>4, ReceiveCounts
  <1>5. CASE Lost
    BY <1>5, CloseCounts DEF Lost, IInv
  <1>6. CASE Server \/ Break
    BY <1>6, ServerCounts
  <1> QED
    BY <1>1, <1>2, <1>3, <1>4, <1>5, <1>6 DEF Next

LEMMA InitCounts == Init => Counts /\ Flags
  <1> SUFFICES ASSUME Init
               PROVE  Counts /\ Flags
    OBVIOUS
  <1>1. /\ out = 0 /\ lost = 0 /\ reqs = 0 /\ inbox = <<>> /\ limit = OutStanding
        /\ net = "closed" /\ fails = 0 /\ forgot = FALSE /\ freedUsed = FALSE
    BY DEF Init
  <1>2. inbox \in Seq(Packets)
    BY <1>1
  <1>3. Pending(inbox) = 0
    BY <1>1, <1>2, PendingIsNat
  <1>4. Flags
    <2>1. fails \in 0..MaxFails
      BY <1>1, SubsAssumption
    <2> QED
      BY <1>1, <2>1, Zenon DEF Flags
  <1>5. reqs + lost + Pending(inbox) <= out /\ out \in 0..limit /\ lost \in Nat
    BY <1>1, <1>3, ConstFacts
  <1> QED
    BY <1>1, <1>4, <1>5 DEF Counts

(* An answer that is read, with a request counted for it.                  *)
Covered == inbox # <<>> /\ Head(inbox).type # "sync" => out > 0

-----------------------------------------------------------------------------
(* What the theorems rest on.                                              *)
THEOREM Invariance == Spec => []IInv
  BY InitHolds, StepKeeps, PTL DEF Spec

(* All variables have their types: currentlyOutStandingPublishRequests,    *)
(* which every answer to a publish request decrements and which the code   *)
(* keeps unsigned, stays between 0 and outStandingPublishRequests, lowered *)
(* or not, and the server never queues more.                               *)
THEOREM TypeCorrect == Spec => []TypeOK
  <1>1. IInv /\ Counts /\ Flags => TypeOK
    <2> SUFFICES ASSUME IInv, Counts, Flags
                 PROVE  TypeOK
      OBVIOUS
    <2>1. ClientTypes /\ ServerTypes /\ limit \in Nat /\ reqs \in Nat /\ OutStanding \in Nat
          /\ limit <= OutStanding
      BY ConstFacts DEF IInv, ClientTypes, ServerTypes
    <2>2. Pending(inbox) \in Nat
      BY <2>1, PendingIsNat DEF ServerTypes
    <2>3. out \in 0..OutStanding /\ lost \in 0..OutStanding /\ reqs \in 0..OutStanding
      BY <2>1, <2>2 DEF Counts
    <2> QED
      BY <2>1, <2>3 DEF TypeOK, ClientTypes, ServerTypes, Flags, Packets
  <1> QED
    BY <1>1, InitHolds, StepKeeps, InitCounts, StepCounts, PTL DEF Spec

(* The decrement in UA_Client_Subscriptions_processPublishResponse never   *)
(* finds 0: no answer comes that was not counted when its request was sent,*)
(* whatever was lost since.                                                *)
THEOREM AnswersAreCounted == Spec => []Covered
  <1>1. IInv /\ Counts => Covered
    <2> SUFFICES ASSUME IInv, Counts, inbox # <<>>, Head(inbox).type # "sync"
                 PROVE  out > 0
      BY DEF Covered
    <2>1. inbox \in Seq(Packets) /\ reqs \in Nat
      BY DEF IInv, ServerTypes
    <2>2. Tail(inbox) \in Seq(Packets) /\ Pending(Tail(inbox)) = Pending(inbox) - 1
      BY <2>1, PendingTail
    <2>3. Pending(Tail(inbox)) \in Nat /\ Pending(inbox) \in Nat
      BY <2>1, <2>2, PendingIsNat
    <2> QED
      BY <2>1, <2>2, <2>3 DEF Counts
  <1> QED
    BY <1>1, InitHolds, StepKeeps, InitCounts, StepCounts, PTL DEF Spec

(* Every subscription and every monitored item ends with exactly one       *)
(* delete callback, whatever order calls, answers and closes come in: the  *)
(* overlap of UA_Client_Subscriptions_delete with the clean of a close     *)
(* neither repeats nor drops one.                                          *)
THEOREM EndsExactlyOnce == Spec => []EndsOnce
  <1>1. IInv => EndsOnce
    BY DEF IInv
  <1> QED
    BY <1>1, Invariance, PTL

(* No acknowledgement is dropped but with a failure that is known: what    *)
(* was delivered and is kept by the server for retransmission waits in     *)
(* pendingNotificationsAcks, through every call and every publish request. *)
THEOREM AcksStay == Spec => []AcksKept
  <1>1. IInv => AcksKept
    BY DEF IInv, Books, AcksHeld, AcksKept, Held
  <1> QED
    BY <1>1, Invariance, PTL

(* The sequence check of processNotificationMessage lets no number pass    *)
(* that was neither delivered nor shown by a keep-alive.                   *)
THEOREM NoGapPasses == Spec => []NoSilentGap
  <1>1. IInv => NoSilentGap
    BY DEF IInv, Books, GapHeld, NoSilentGap, Held
  <1> QED
    BY <1>1, Invariance, PTL

=============================================================================
