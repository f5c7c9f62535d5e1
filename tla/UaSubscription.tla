---------------------------- MODULE UaSubscription ----------------------------
(***************************************************************************)
(* The subscriptions of one session of the OPC UA server: the publishing   *)
(* cycles the timer runs (UA_Subscription_publish), the queue of publish   *)
(* requests all subscriptions of the session share, the retransmission     *)
(* queues, and the subscription services.                                  *)
(*                                                                         *)
(* The server is one thread, so a callback or a service is one step. Only  *)
(* UA_Subscription_publish calls itself, while there are more              *)
(* notifications: the calls are steps, and again holds everything else     *)
(* back until the last of them. New subscriptions go to the head of the    *)
(* list and ids grow, so the list is in the order of falling ids. Every    *)
(* subscription has one monitored item, whose queue is a number of         *)
(* notifications; whether it is sampled is left open.                      *)
(***************************************************************************)
EXTENDS Naturals, Sequences, FiniteSets

CONSTANTS
  MaxSubs,        \* bound: ids of subscriptions
  Monitored,      \* bound: the subscriptions that have a monitored item
  MaxPublish,     \* bound: publish requests of the client
  MaxNotes,       \* bound: notifications of a subscription
  MaxFails,       \* bound: allocations that fail
  PerPublish,     \* notificationsPerPublish
  MaxKeepAlive,   \* maxKeepAliveCount
  LifeTime,       \* lifeTimeCount
  QueueSize,      \* maxQueueSize of the monitored item
  MaxRequests,    \* config.maxPublishReqPerSession, 0: no limit
  MaxRetransmit   \* config.maxRetransmissionQueueSize, 0: no limit

(* setSubscriptionSettings raises lifeTimeCount to three keep-alives.      *)
ASSUME BoundsAssumption ==
  /\ MaxSubs \in Nat /\ MaxPublish \in Nat /\ MaxNotes \in Nat /\ MaxFails \in Nat
  /\ PerPublish \in Nat \ {0} /\ QueueSize \in Nat \ {0}
  /\ MaxKeepAlive \in Nat \ {0}
  /\ LifeTime \in Nat /\ LifeTime >= 3 * MaxKeepAlive
  /\ Monitored \subseteq 1..MaxSubs
  /\ MaxRequests \in Nat /\ MaxRetransmit \in Nat

Subs == 1..MaxSubs

VARIABLES
  session,    \* "attached" to its channel, "detached", "ended"
  lastId,     \* lastSubscriptionId
  listed,     \* serverSubscriptions
  sub,        \* the subscriptions
  timer,      \* those with a callback in the timer
  requests,   \* responseQueue: the publish requests, oldest first
  published,  \* how many publish requests have come
  lastSeen,   \* lastSeenSubscriptionId
  again,      \* the subscription whose publish calls itself, or 0
  got,        \* the sequence numbers the client received, by subscription
  passed,     \* how often a request went past a late subscription (history)
  fails,      \* how many allocations have failed
  stuck,      \* those that a callback or a removal ever failed for
  freedUsed   \* a callback ran on a subscription that was freed

vars == <<session, lastId, listed, sub, timer, requests, published, lastSeen,
          again, got, passed, fails, stuck, freedUsed>>

Lesser(x, y) == IF x < y THEN x ELSE y
Greatest(S) == CHOOSE x \in S : \A y \in S : y <= x
Least(S) == CHOOSE x \in S : \A y \in S : x <= y

(* retr: the numbers in the retransmission queue, which is in the order of *)
(* falling numbers, since they grow and new ones go to its head; keep: a   *)
(* count beyond MaxKeepAlive means the same as MaxKeepAlive.               *)
SubState ==
  [late: BOOLEAN, enabled: BOOLEAN, keep: 0..MaxKeepAlive, life: 0..LifeTime,
   queue: 0..QueueSize, ready: 0..QueueSize, seq: 0..MaxNotes,
   retr: SUBSET (1..MaxNotes)]

NewSub(e) == [late |-> FALSE, enabled |-> e, keep |-> MaxKeepAlive, life |-> 0,
              queue |-> 0, ready |-> 0, seq |-> 0, retr |-> {}]

Init ==
  /\ session = "attached"
  /\ lastId = 0
  /\ listed = {}
  /\ sub = [s \in Subs |-> NewSub(TRUE)]
  /\ timer = {}
  /\ requests = <<>>
  /\ published = 0
  /\ lastSeen = 0
  /\ again = 0
  /\ got = [s \in Subs |-> {}]
  /\ passed = [s \in Subs |-> 0]
  /\ fails = 0
  /\ stuck = {}
  /\ freedUsed = FALSE

-----------------------------------------------------------------------------
(* Parts of steps.                                                         *)

(* An allocation fails, or not.                                            *)
Allocates == UNCHANGED fails
AllocationFails == fails < MaxFails /\ fails' = fails + 1

(* UA_Session_deleteSubscription: the callback is removed, the items and   *)
(* the retransmission queue go, then the memory is freed later. A callback *)
(* that cannot be removed runs on; a subscription that cannot be freed     *)
(* stays in the list without a callback.                                   *)
Deleted_keepsCallback(s) ==
  /\ Allocates
  /\ listed' = listed \ {s}
  /\ sub' = [sub EXCEPT ![s] = NewSub(TRUE)]
  /\ UNCHANGED <<timer, stuck>>

Deleted(s) ==
  \/ /\ Allocates
     /\ timer' = timer \ {s}
     /\ listed' = listed \ {s}
     /\ sub' = [sub EXCEPT ![s] = NewSub(TRUE)]
     /\ UNCHANGED stuck
  \/ /\ AllocationFails
     /\ s \in timer
     /\ listed' = listed \ {s}
     /\ sub' = [sub EXCEPT ![s] = NewSub(TRUE)]
     /\ stuck' = stuck \cup {s}
     /\ UNCHANGED timer
  \/ /\ AllocationFails
     /\ timer' = timer \ {s}
     /\ sub' = [sub EXCEPT ![s].queue = 0, ![s].retr = {}]
     /\ stuck' = stuck \cup {s}
     /\ UNCHANGED listed

(* UA_Subscription_addRetransmissionMessage: at the limit the oldest goes. *)
AtLimit(q) == MaxRetransmit > 0 /\ Cardinality(q) >= MaxRetransmit
Retransmit_newestGoes(q, n) == IF AtLimit(q) THEN q ELSE q \cup {n}

Retransmit(q, n) == (IF AtLimit(q) THEN q \ {Least(q)} ELSE q) \cup {n}

Reenqueue_tail(pre, rest) == rest \o <<pre>>
Reenqueue(pre, rest) == <<pre>> \o rest

-----------------------------------------------------------------------------
(* UA_Subscription_publish(s), where all is the state of the subscriptions *)
(* and req the queue of publish requests at the call.                      *)

(* The first request is taken, which resets the lifetime counter.          *)
Counted_byChannel(u, req) ==
  LET ready == Lesser(u.ready, u.queue)
      quiet == ready = 0 \/ ~u.enabled
  IN [u EXCEPT !.life = IF req # <<>> /\ session = "attached" THEN 0 ELSE u.life + 1,
               !.ready = ready,
               !.keep = IF quiet THEN Lesser(u.keep + 1, MaxKeepAlive) ELSE u.keep]

Counted_ifQuiet(u, req) ==
  LET ready == Lesser(u.ready, u.queue)
      quiet == ready = 0 \/ ~u.enabled
  IN [u EXCEPT !.life = IF req # <<>> \/ ~quiet THEN 0 ELSE u.life + 1,
               !.ready = ready,
               !.keep = IF quiet THEN Lesser(u.keep + 1, MaxKeepAlive) ELSE u.keep]

Counted(u, req) ==
  LET ready == Lesser(u.ready, u.queue)
      quiet == ready = 0 \/ ~u.enabled
  IN [u EXCEPT !.life = IF req # <<>> THEN 0 ELSE u.life + 1,
               !.ready = ready,
               !.keep = IF quiet THEN Lesser(u.keep + 1, MaxKeepAlive) ELSE u.keep]

Count(v) == IF v.enabled THEN v.ready ELSE 0

PutBack(req) == IF req = <<>> THEN req ELSE Reenqueue(Head(req), Tail(req))

(* Nothing to say yet.                                                     *)
Waits(v, req) == Count(v) = 0 /\ v.keep < MaxKeepAlive

(* No channel or no request.                                               *)
Blocked(v, req) == ~Waits(v, req) /\ (session # "attached" \/ req = <<>>)

Clear(v, req) == ~Waits(v, req) /\ ~Blocked(v, req)

(* The call leaves without a response; a request it took goes back.        *)
Leaves(s, all, v, req) ==
  /\ \/ Waits(v, req) /\ Allocates /\ sub' = [all EXCEPT ![s] = v]
     \/ Blocked(v, req) /\ Allocates /\ sub' = [all EXCEPT ![s] = [v EXCEPT !.late = TRUE]]
     \/ /\ Clear(v, req) /\ Count(v) > 0
        /\ AllocationFails
        /\ sub' = [all EXCEPT ![s] = [v EXCEPT !.late = TRUE]]
  /\ requests' = PutBack(req)
  /\ again' = 0
  /\ UNCHANGED got

(* The response goes out, whether it arrives or not; a keep-alive carries  *)
(* the next number without using it up.                                    *)
Amount(v) == Lesser(Count(v), PerPublish)

Sent(v) ==
  [v EXCEPT !.late = FALSE, !.keep = 0,
            !.queue = @ - Amount(v), !.ready = @ - Amount(v),
            !.seq = IF Amount(v) > 0 THEN @ + 1 ELSE @,
            !.retr = IF Amount(v) > 0 THEN Retransmit(@, v.seq + 1) ELSE @]

Sends(s, all, v, req) ==
  /\ Clear(v, req)
  /\ sub' = [all EXCEPT ![s] = Sent(v)]
  /\ requests' = Tail(req)
  /\ \E arrived \in SUBSET (IF Amount(v) > 0 THEN {v.seq + 1} ELSE {}) :
       got' = [got EXCEPT ![s] = @ \cup arrived]
  /\ again' = IF Count(v) > Amount(v) THEN s ELSE 0
  /\ Allocates

Publish(s, all, req) ==
  LET v == Counted(all[s], req)
  IN \/ /\ v.life > LifeTime
        /\ Deleted(s)
        /\ requests' = req
        /\ again' = 0
        /\ UNCHANGED got
     \/ /\ v.life <= LifeTime
        /\ Leaves(s, all, v, req) \/ Sends(s, all, v, req)
        /\ UNCHANGED <<listed, timer, stuck>>

-----------------------------------------------------------------------------
(* The history after s was published or deleted: its own count ends with   *)
(* its being late. Without the last that was preferred the next search     *)
(* begins at the head of the list again, and so do the counts.             *)
Passed(s) ==
  [t \in Subs |-> IF \/ t = s /\ ~sub'[s].late
                     \/ lastSeen \in listed \ listed'
                  THEN 0 ELSE passed[t]]

Runs == again = 0 /\ session # "ended" /\ ~freedUsed

(* publishCallback                                                         *)
PublishCallback(s) ==
  /\ Runs
  /\ s \in timer /\ s \in listed
  /\ Publish(s, [sub EXCEPT ![s].ready = sub[s].queue], requests)
  /\ passed' = Passed(s)
  /\ UNCHANGED <<session, lastId, published, lastSeen, freedUsed>>

(* The call at the end of UA_Subscription_publish.                         *)
PublishAgain ==
  /\ again # 0
  /\ Publish(again, sub, requests)
  /\ passed' = Passed(again)
  /\ UNCHANGED <<session, lastId, published, lastSeen, freedUsed>>

(* The callback of a subscription that was deleted but not unregistered.   *)
CallbackOnFreed(s) ==
  /\ ~freedUsed /\ again = 0
  /\ s \in timer \ listed
  /\ freedUsed' = TRUE
  /\ UNCHANGED <<session, lastId, listed, sub, timer, requests, published, lastSeen,
                 again, got, passed, fails, stuck>>

(* A monitored item is sampled: beyond QueueSize a notification is dropped.*)
Sample(s) ==
  /\ Runs
  /\ s \in listed \cap Monitored
  /\ sub[s].seq + sub[s].queue < MaxNotes
  /\ sub' = [sub EXCEPT ![s].queue = Lesser(@ + 1, QueueSize)]
  /\ UNCHANGED <<session, lastId, listed, timer, requests, published, lastSeen,
                 again, got, passed, fails, stuck, freedUsed>>

-----------------------------------------------------------------------------
(* The services, which reach the session through its channel.              *)
Called == Runs /\ session = "attached"

CreateSubscription(e) ==
  LET s == lastId + 1
  IN /\ Called
     /\ s \in Subs
     /\ e \/ s \in Monitored
     /\ lastId' = s
     /\ listed' = listed \cup {s}
     /\ sub' = [sub EXCEPT ![s] = NewSub(e)]
     /\ \/ Allocates /\ timer' = timer \cup {s} /\ UNCHANGED stuck
        \/ AllocationFails /\ stuck' = stuck \cup {s} /\ UNCHANGED timer
     /\ UNCHANGED <<session, requests, published, lastSeen, again, got, passed, freedUsed>>

(* Unregisters and registers the callback: when the first fails the        *)
(* callback stays as it is, when the second fails there is none.           *)
ModifySubscription(s) ==
  /\ Called
  /\ s \in listed
  /\ sub' = [sub EXCEPT ![s].life = 0]
  /\ \/ Allocates /\ timer' = timer \cup {s} /\ UNCHANGED stuck
     \/ AllocationFails /\ s \in timer /\ UNCHANGED <<timer, stuck>>
     \/ AllocationFails /\ timer' = timer \ {s} /\ stuck' = stuck \cup {s}
  /\ UNCHANGED <<session, lastId, listed, requests, published, lastSeen,
                 again, got, passed, freedUsed>>

(* Without an item it would make no difference whether s is enabled.       *)
SetPublishingMode(s) ==
  /\ Called
  /\ s \in listed
  /\ sub' = [sub EXCEPT ![s].life = 0, ![s].enabled = s \in Monitored => ~@]
  /\ UNCHANGED <<session, lastId, listed, timer, requests, published, lastSeen,
                 again, got, passed, fails, stuck, freedUsed>>

(* SetMonitoringMode or DeleteMonitoredItems: the item's notifications go. *)
StopMonitoring(s) ==
  /\ Called
  /\ s \in listed
  /\ sub' = [sub EXCEPT ![s].life = 0, ![s].queue = 0]
  /\ UNCHANGED <<session, lastId, listed, timer, requests, published, lastSeen,
                 again, got, passed, fails, stuck, freedUsed>>

(* After the last one every queued request is answered BADNOSUBSCRIPTION.  *)
DeleteSubscription(s) ==
  /\ Called
  /\ s \in listed
  /\ Deleted(s)
  /\ requests' = IF listed' = {} THEN <<>> ELSE requests
  /\ passed' = Passed(s)
  /\ UNCHANGED <<session, lastId, published, lastSeen, again, got, freedUsed>>

Republish(s, n) ==
  /\ Called
  /\ s \in listed
  /\ n \in sub[s].retr
  /\ sub' = [sub EXCEPT ![s].life = 0]
  /\ got' = [got EXCEPT ![s] = @ \cup {n}]
  /\ UNCHANGED <<session, lastId, listed, timer, requests, published, lastSeen,
                 again, passed, fails, stuck, freedUsed>>

(* Service_Publish. At the limit the oldest request is answered first; the *)
(* acknowledged messages leave the retransmission queues.                  *)
Room(req) == IF MaxRequests > 0 /\ Len(req) >= MaxRequests THEN Tail(req) ELSE req

Acknowledged(acks) ==
  [s \in Subs |-> [sub[s] EXCEPT !.retr = {n \in @ : <<s, n>> \notin acks}]]

(* The late subscription that is answered: the next one in the list after  *)
(* the last that was preferred, or else the first.                         *)
LateSubs == {s \in listed : sub[s].late}
NextLate_first == Greatest(LateSubs)

NextLate ==
  LET after == {s \in LateSubs : lastSeen \in listed /\ s < lastSeen}
  IN Greatest(IF after # {} THEN after ELSE LateSubs)

Acks == {a \in Subs \X (1..MaxNotes) : a[1] \in listed /\ a[2] \in got[a[1]]}

(* No late subscription: the request waits for a cycle.                    *)
Queued(acks) ==
  /\ LateSubs = {}
  /\ lastSeen' = 0
  /\ sub' = Acknowledged(acks)
  /\ requests' = Append(Room(requests), published + 1)
  /\ UNCHANGED <<listed, timer, again, got, passed, fails, stuck>>

AnswersLate(acks) ==
  /\ LateSubs # {}
  /\ lastSeen' = NextLate
  /\ Publish(NextLate, Acknowledged(acks), Append(Room(requests), published + 1))
  /\ passed' = [s \in Subs |-> IF s \in LateSubs \ {NextLate}
                               THEN Lesser(passed[s] + 1, MaxSubs) ELSE 0]

(* The entry for the request cannot be allocated.                          *)
Refused ==
  /\ AllocationFails
  /\ requests' = Room(requests)
  /\ UNCHANGED <<listed, sub, timer, lastSeen, again, got, passed, stuck>>

PublishRequest ==
  /\ Called
  /\ published < MaxPublish
  /\ listed # {}
  /\ published' = published + 1
  /\ \/ \E acks \in {{}} \cup {{a} : a \in Acks} : Queued(acks) \/ AnswersLate(acks)
     \/ Refused
  /\ UNCHANGED <<session, lastId, freedUsed>>

-----------------------------------------------------------------------------
(* The channel is closed, or removeSession has begun.                      *)
Detach ==
  /\ again = 0 /\ ~freedUsed
  /\ session = "attached"
  /\ session' = "detached"
  /\ UNCHANGED <<lastId, listed, sub, timer, requests, published, lastSeen,
                 again, got, passed, fails, stuck, freedUsed>>

(* The session is closed or has timed out: UA_Session_deleteMembersCleanup *)
SessionEnds ==
  /\ Runs
  /\ session' = "ended"
  /\ listed' = {}
  /\ requests' = <<>>
  /\ sub' = [s \in Subs |-> NewSub(TRUE)]
  /\ \/ Allocates /\ timer' = timer \ listed /\ UNCHANGED stuck
     \/ /\ AllocationFails
        /\ \E s \in timer \cap listed :
             /\ timer' = (timer \ listed) \cup {s}
             /\ stuck' = stuck \cup {s}
  /\ UNCHANGED <<lastId, published, lastSeen, again, got, passed, freedUsed>>

Services ==
  \/ \E e \in BOOLEAN : CreateSubscription(e)
  \/ \E s \in Subs : \/ ModifySubscription(s)
                     \/ SetPublishingMode(s)
                     \/ StopMonitoring(s)
                     \/ DeleteSubscription(s)
                     \/ \E n \in 1..MaxNotes : Republish(s, n)
  \/ PublishRequest

Next ==
  \/ \E s \in Subs : PublishCallback(s)
  \/ PublishAgain
  \/ \E s \in Subs : CallbackOnFreed(s)
  \/ \E s \in Subs : Sample(s)
  \/ Services
  \/ Detach
  \/ SessionEnds

Spec == Init /\ [][Next]_vars

-----------------------------------------------------------------------------
TypeOK ==
  /\ session \in {"attached", "detached", "ended"}
  /\ lastId \in 0..MaxSubs
  /\ listed \subseteq 1..lastId
  /\ sub \in [Subs -> SubState]
  /\ timer \subseteq 1..lastId
  /\ requests \in Seq(1..MaxPublish)
  /\ MaxRequests > 0 => Len(requests) <= MaxRequests
  /\ published \in 0..MaxPublish
  /\ lastSeen \in 0..MaxSubs
  /\ again \in listed \cup {0}
  /\ got \in [Subs -> SUBSET (1..MaxNotes)]
  /\ passed \in [Subs -> 0..MaxSubs]
  /\ fails \in 0..MaxFails
  /\ stuck \subseteq 1..lastId
  /\ freedUsed \in BOOLEAN

(* Unless one of its allocations failed, a subscription has a callback in  *)
(* the timer exactly as long as it is in the session's list: no callback   *)
(* reaches a subscription that was freed, and no subscription is left      *)
(* without the cycles that publish it and end it.                          *)
TimerFollowsList == \A s \in Subs \ stuck : s \in timer <=> s \in listed

(* UA_Subscription_publish ignores whether its message went out. What the  *)
(* client has not received can still be asked for with Republish, except   *)
(* what the limit of the retransmission queue has pushed out: the newest   *)
(* MaxRetransmit messages are received or kept.                            *)
Recoverable ==
  \A s \in listed \ stuck : \A n \in 1..sub[s].seq :
    \/ n \in got[s]
    \/ n \in sub[s].retr
    \/ MaxRetransmit > 0 /\ n + MaxRetransmit <= sub[s].seq

(* The comment in Service_Publish: a subscription with many notifications  *)
(* must not starve other late ones. While the last that was preferred is   *)
(* not deleted, every other one is preferred at most once between two      *)
(* turns of a late subscription. A deletion begins the round anew.         *)
NotStarved == \A s \in listed : passed[s] < MaxSubs

(* A request that a cycle takes and does not use goes back to its place:   *)
(* requests are answered from the oldest on, none is answered twice, and   *)
(* new ones go behind those that wait.                                     *)
OldestFirst ==
  [][\E k \in 0..Len(requests) :
       LET kept == SubSeq(requests, k + 1, Len(requests))
       IN requests' = kept \/ requests' = Append(kept, published')]_vars

(* A cycle that finds a request resets the lifetime although the session   *)
(* has no channel to answer on: a client that is gone but left a request   *)
(* keeps its subscriptions until its session ends.                         *)
HeldByRequests ==
  [][session = "detached" /\ session' = "detached" /\ requests # <<>>
       => listed' = listed]_vars

(* A client that is gone and left no request: every cycle of one of its    *)
(* subscriptions brings it closer to the end of its lifetime, whatever it  *)
(* would have to say, and nothing sets it back.                            *)
Abandoned(s) == session = "detached" /\ requests = <<>> /\ s \in listed \ stuck
Left(s) == IF s \in listed THEN LifeTime + 1 - sub[s].life ELSE 0
LifetimeRuns ==
  [][\A s \in Subs : Abandoned(s) =>
       IF PublishCallback(s) THEN Left(s)' < Left(s) \/ s \in stuck'
                             ELSE Left(s)' <= Left(s)]_vars
=============================================================================
