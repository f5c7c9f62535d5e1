------------------------- MODULE UaSubscription_proofs -------------------------
(***************************************************************************)
(* Theorems of UaSubscription, for any number of subscriptions, requests,  *)
(* notifications and failed allocations, and any limits of the server.     *)
(***************************************************************************)
EXTENDS UaSubscription, SequenceTheorems, FiniteSetTheorems, WellFoundedInduction, TLAPS

-----------------------------------------------------------------------------
(* What CHOOSE finds.                                                      *)

(* A set of naturals that is not empty has a least element.                *)
LEMMA LeastOf ==
  ASSUME NEW S, S \subseteq Nat, S # {}
  PROVE  Least(S) \in S /\ \A y \in S : Least(S) <= y
<1>1. PICK t \in S : \A u \in S : <<u, t>> \notin OpToRel(<, Nat)
  BY WFMin, NatLessThanWellFounded, Zenon
<1>2. \A u \in S : ~ (u < t)
  BY <1>1, Zenon DEF OpToRel
<1>3. \A u \in S : t <= u
  BY <1>2
<1> QED  BY <1>3 DEF Least

(* A bounded one has a greatest.                                           *)
LEMMA GreatestOf ==
  ASSUME NEW n \in Nat, NEW S, S \subseteq 1..n, S # {}
  PROVE  Greatest(S) \in S /\ \A y \in S : y <= Greatest(S)
<1> DEFINE T == {k \in Nat : n - k \in S}
<1>1. T \subseteq Nat /\ T # {}
  <2>1. PICK x \in S : TRUE
    OBVIOUS
  <2>2. n - x \in Nat /\ n - (n - x) = x
    BY <2>1
  <2> QED  BY <2>1, <2>2
<1>2. Least(T) \in T /\ \A u \in T : Least(T) <= u
  BY <1>1, LeastOf, Zenon
<1> DEFINE t == Least(T)
<1>3. t \in Nat /\ n - t \in S
  BY <1>2
<1>4. ASSUME NEW y \in S PROVE y <= n - t
  <2>1. y \in 1..n /\ n - y \in Nat /\ n - (n - y) = y
    BY <1>4
  <2>2. n - y \in T
    BY <2>1, <1>4
  <2>3. t <= n - y
    BY <2>2, <1>2
  <2> QED  BY <2>1, <2>3, <1>3
<1>5. \E x \in S : \A y \in S : y <= x
  BY <1>3, <1>4
<1> QED  BY <1>5 DEF Greatest

LEMMA LesserOf ==
  ASSUME NEW x \in Nat, NEW y \in Nat
  PROVE  /\ Lesser(x, y) \in Nat /\ Lesser(x, y) <= x /\ Lesser(x, y) <= y
         /\ Lesser(x, y) \in {x, y}
BY DEF Lesser

-----------------------------------------------------------------------------
(* One subscription and its retransmission queue.                          *)

SubOK(u) ==
  /\ u \in SubState
  /\ u.seq + u.queue <= MaxNotes
  /\ u.retr \subseteq 1..u.seq

(* What Recoverable says of one subscription.                              *)
Kept(u, received) ==
  \A n \in 1..u.seq :
    \/ n \in received
    \/ n \in u.retr
    \/ MaxRetransmit > 0 /\ n + MaxRetransmit <= u.seq

(* What the limit pushes out is old enough, because the queue holds        *)
(* different numbers that are not smaller.                                 *)
LEMMA PushedOut ==
  ASSUME NEW k \in Nat, NEW q, q \subseteq 1..k, AtLimit(q)
  PROVE  Least(q) \in q /\ Least(q) + MaxRetransmit <= k + 1
<1>1. IsFiniteSet(q) /\ Cardinality(q) \in Nat
  <2>1. IsFiniteSet(1..k)
    BY FS_Interval
  <2> QED  BY <2>1, FS_Subset, FS_CardinalityType
<1>2. q # {}
  BY FS_EmptySet, BoundsAssumption DEF AtLimit
<1>3. Least(q) \in q /\ \A y \in q : Least(q) <= y
  <2>1. q \subseteq Nat
    OBVIOUS
  <2> QED  BY <1>2, <2>1, LeastOf
<1> DEFINE m == Least(q)
<1>4. m \in 1..k /\ q \subseteq m..k
  <2>1. m \in 1..k
    BY <1>3
  <2>2. \A y \in q : y \in 1..k /\ m <= y
    BY <1>3
  <2> HIDE DEF m
  <2> QED  BY <2>1, <2>2
<1>5. IsFiniteSet(m..k) /\ Cardinality(m..k) = k - m + 1
  BY <1>4, FS_Interval
<1>6. Cardinality(q) <= Cardinality(m..k)
  BY <1>4, <1>5, FS_Subset
<1> QED  BY <1>1, <1>3, <1>4, <1>5, <1>6, BoundsAssumption DEF AtLimit

LEMMA RetransmitKeeps ==
  ASSUME NEW k \in Nat, NEW q, q \subseteq 1..k, NEW received,
         \A n \in 1..k : n \in received \/ n \in q \/ (MaxRetransmit > 0 /\ n + MaxRetransmit <= k)
  PROVE  \A n \in 1..(k + 1) :
           \/ n \in received
           \/ n \in Retransmit(q, k + 1)
           \/ MaxRetransmit > 0 /\ n + MaxRetransmit <= k + 1
<1> SUFFICES ASSUME NEW n \in 1..(k + 1), n \notin received, n \notin Retransmit(q, k + 1)
             PROVE  MaxRetransmit > 0 /\ n + MaxRetransmit <= k + 1
  OBVIOUS
<1>1. n \in 1..k
  BY DEF Retransmit
<1>2. CASE n \in q
  <2>1. AtLimit(q) /\ n = Least(q)
    BY <1>2 DEF Retransmit
  <2> QED  BY <2>1, PushedOut DEF AtLimit
<1>3. CASE n \notin q
  BY <1>1, <1>3, BoundsAssumption
<1> QED  BY <1>2, <1>3

LEMMA RetransmitType ==
  ASSUME NEW k \in Nat, NEW q, q \subseteq 1..k
  PROVE  Retransmit(q, k + 1) \subseteq 1..(k + 1)
<1>1. Retransmit(q, k + 1) \subseteq q \cup {k + 1}
  BY DEF Retransmit
<1>2. q \subseteq 1..(k + 1) /\ k + 1 \in 1..(k + 1)
  OBVIOUS
<1> QED  BY <1>1, <1>2

(* The counting at the start of a cycle.                                   *)
LEMMA CountedOK ==
  ASSUME NEW u, SubOK(u), NEW req
  PROVE  LET v == Counted(u, req)
         IN /\ v.late = u.late /\ v.queue = u.queue /\ v.seq = u.seq /\ v.retr = u.retr
            /\ v.ready <= v.queue
            /\ v.life = IF req # <<>> THEN 0 ELSE u.life + 1
            /\ v.life <= LifeTime => SubOK(v)
<1> DEFINE v == Counted(u, req)
           ready == Lesser(u.ready, u.queue)
           quiet == ready = 0 \/ ~u.enabled
<1>1. u \in SubState
  BY DEF SubOK
<1>2. /\ u.late \in BOOLEAN /\ u.enabled \in BOOLEAN /\ u.keep \in 0..MaxKeepAlive
      /\ u.life \in 0..LifeTime /\ u.queue \in 0..QueueSize /\ u.ready \in 0..QueueSize
      /\ u.seq \in 0..MaxNotes /\ u.retr \subseteq 1..MaxNotes
  BY <1>1 DEF SubState
<1>3. ready \in 0..QueueSize /\ ready <= u.queue
  BY <1>2, BoundsAssumption DEF Lesser
<1>4. (IF quiet THEN Lesser(u.keep + 1, MaxKeepAlive) ELSE u.keep) \in 0..MaxKeepAlive
  BY <1>2, BoundsAssumption DEF Lesser
<1>5. v = [u EXCEPT !.life = IF req # <<>> THEN 0 ELSE u.life + 1,
                    !.ready = ready,
                    !.keep = IF quiet THEN Lesser(u.keep + 1, MaxKeepAlive) ELSE u.keep]
  BY DEF Counted
<1>6. /\ v.late = u.late /\ v.enabled = u.enabled /\ v.queue = u.queue
      /\ v.seq = u.seq /\ v.retr = u.retr /\ v.ready = ready
      /\ v.life = IF req # <<>> THEN 0 ELSE u.life + 1
      /\ v.keep = IF quiet THEN Lesser(u.keep + 1, MaxKeepAlive) ELSE u.keep
  BY <1>1, <1>5 DEF SubState
<1>7. ASSUME v.life <= LifeTime PROVE v \in SubState
  <2>1. v.life \in 0..LifeTime
    BY <1>2, <1>6, <1>7, BoundsAssumption
  <2> QED  BY <1>1, <1>2, <1>3, <1>4, <1>5, <1>6, <2>1 DEF SubState
<1>8. v.life <= LifeTime => SubOK(v)
  BY <1>6, <1>7 DEF SubOK
<1> HIDE DEF v
<1> QED  BY <1>3, <1>6, <1>8 DEF v

(* The response: what it carries leaves the queue for the retransmission   *)
(* queue.                                                                  *)
LEMMA SentOK ==
  ASSUME NEW v, SubOK(v), v.ready <= v.queue, NEW received, NEW arrived
  PROVE  /\ SubOK(Sent(v)) /\ ~Sent(v).late
         /\ Amount(v) > 0 => v.seq + 1 \in 1..MaxNotes
         /\ Kept(v, received) => Kept(Sent(v), received \cup arrived)
<1> DEFINE n == Amount(v)
           w == Sent(v)
<1>1. v \in SubState
  BY DEF SubOK
<1>2. /\ v.queue \in 0..QueueSize /\ v.ready \in 0..QueueSize
      /\ v.seq \in 0..MaxNotes /\ v.retr \subseteq 1..v.seq
      /\ v.seq + v.queue <= MaxNotes /\ v.enabled \in BOOLEAN
      /\ v.life \in 0..LifeTime
  BY <1>1 DEF SubOK, SubState
<1>3. n \in Nat /\ n <= v.ready
  BY <1>2, BoundsAssumption DEF Amount, Count, Lesser
<1>4. /\ w.late = FALSE /\ w.enabled = v.enabled /\ w.keep = 0 /\ w.life = v.life
      /\ w.queue = v.queue - n /\ w.ready = v.ready - n
      /\ w.seq = (IF n > 0 THEN v.seq + 1 ELSE v.seq)
      /\ w.retr = (IF n > 0 THEN Retransmit(v.retr, v.seq + 1) ELSE v.retr)
  BY <1>1 DEF Sent, SubState
<1>5. n > 0 => v.seq + 1 \in 1..MaxNotes
  BY <1>2, <1>3, BoundsAssumption
<1>6. w.retr \subseteq 1..w.seq
  BY <1>2, <1>4, RetransmitType
<1>7. w.queue \in 0..QueueSize /\ w.ready \in 0..QueueSize
  BY <1>2, <1>3, <1>4, BoundsAssumption
<1>8. w.seq \in 0..MaxNotes /\ w.seq + w.queue <= MaxNotes
  BY <1>2, <1>3, <1>4, <1>5, BoundsAssumption
<1>9. w.retr \subseteq 1..MaxNotes
  BY <1>6, <1>8, BoundsAssumption
<1>10. w \in SubState
  <2>1. w = [v EXCEPT !.late = FALSE, !.keep = 0,
                      !.queue = v.queue - n, !.ready = v.ready - n,
                      !.seq = IF n > 0 THEN v.seq + 1 ELSE v.seq,
                      !.retr = IF n > 0 THEN Retransmit(v.retr, v.seq + 1) ELSE v.retr]
    BY <1>1 DEF Sent, SubState
  <2>2. 0 \in 0..MaxKeepAlive
    BY BoundsAssumption
  <2> HIDE DEF w, n
  <2> QED  BY <1>1, <1>2, <1>4, <1>7, <1>8, <1>9, <2>1, <2>2 DEF SubState
<1>11. SubOK(w)
  BY <1>6, <1>8, <1>10 DEF SubOK
<1>12. ASSUME Kept(v, received) PROVE Kept(w, received \cup arrived)
  <2>1. CASE n > 0
    <3>1. \A k \in 1..(v.seq + 1) :
            \/ k \in received
            \/ k \in Retransmit(v.retr, v.seq + 1)
            \/ MaxRetransmit > 0 /\ k + MaxRetransmit <= v.seq + 1
      BY <1>2, <1>12, RetransmitKeeps DEF Kept
    <3> HIDE DEF w
    <3> QED  BY <1>4, <2>1, <3>1 DEF Kept
  <2>2. CASE ~(n > 0)
    <3> HIDE DEF w
    <3> QED  BY <1>4, <1>12, <2>2 DEF Kept
  <2> QED  BY <2>1, <2>2
<1> HIDE DEF w, n
<1> QED  BY <1>4, <1>5, <1>11, <1>12 DEF w, n

LEMMA NewOK ==
  ASSUME NEW e \in BOOLEAN
  PROVE  SubOK(NewSub(e)) /\ ~NewSub(e).late /\ NewSub(e).seq = 0
BY BoundsAssumption DEF SubOK, NewSub, SubState

LEMMA KeptGrows ==
  ASSUME NEW u, NEW received, NEW more, received \subseteq more, Kept(u, received)
  PROVE  Kept(u, more)
BY DEF Kept

-----------------------------------------------------------------------------
(* Steps that are parts of others.                                         *)

LEMMA FailsOK ==
  ASSUME TypeOK, Allocates \/ AllocationFails
  PROVE  fails' \in 0..MaxFails
<1>1. fails \in 0..MaxFails
  BY DEF TypeOK
<1> QED  BY <1>1, BoundsAssumption DEF Allocates, AllocationFails

LEMMA DeletedOK ==
  ASSUME TypeOK, NEW s \in listed, Deleted(s), \A t \in Subs : SubOK(sub[t])
  PROVE  /\ sub' \in [Subs -> SubState] /\ \A t \in Subs : SubOK(sub'[t])
         /\ \A t \in Subs \ {s} : sub'[t] = sub[t]
         /\ listed' \subseteq listed /\ listed \ listed' \subseteq {s}
         /\ timer' \subseteq timer /\ timer \ timer' \subseteq {s}
         /\ stuck \subseteq stuck' /\ stuck' \ stuck \subseteq {s}
         /\ fails' \in 0..MaxFails
         /\ s \in stuck' \/ (s \notin listed' /\ s \notin timer')
<1>1. s \in Subs /\ sub \in [Subs -> SubState] /\ sub[s] \in SubState
  BY BoundsAssumption DEF TypeOK, Subs
<1>2. fails' \in 0..MaxFails
  BY FailsOK DEF Deleted
<1>3. CASE sub' = [sub EXCEPT ![s] = NewSub(TRUE)]
  <2>1. SubOK(NewSub(TRUE)) /\ NewSub(TRUE) \in SubState
    BY NewOK DEF SubOK
  <2> QED  BY <1>1, <1>2, <1>3, <2>1 DEF Deleted
<1>4. CASE sub' = [sub EXCEPT ![s].queue = 0, ![s].retr = {}]
  <2> DEFINE u == [sub[s] EXCEPT !.queue = 0, !.retr = {}]
  <2>1. sub' = [sub EXCEPT ![s] = u]
    BY <1>1, <1>4
  <2>2. u \in SubState
    <3>1. 0 \in 0..QueueSize
      BY BoundsAssumption
    <3> QED  BY <1>1, <3>1 DEF SubState
  <2>3. u.queue = 0 /\ u.retr = {} /\ u.seq = sub[s].seq /\ u.seq \in 0..MaxNotes
    BY <1>1 DEF SubState
  <2>4. SubOK(u)
    BY <2>2, <2>3, BoundsAssumption DEF SubOK
  <2> HIDE DEF u
  <2> QED  BY <1>1, <1>2, <2>1, <2>2, <2>4 DEF Deleted
<1> QED  BY <1>3, <1>4 DEF Deleted

LEMMA PublishOK ==
  ASSUME TypeOK, NEW s \in listed,
         NEW all \in [Subs -> SubState], NEW req \in Seq(1..MaxPublish),
         \A t \in Subs : SubOK(all[t]) /\ SubOK(sub[t]) /\ all[t].late = sub[t].late,
         Publish(s, all, req)
  PROVE  /\ sub' \in [Subs -> SubState] /\ \A t \in Subs : SubOK(sub'[t])
         /\ \A t \in Subs \ {s} : sub'[t] = all[t] \/ sub'[t] = sub[t]
         /\ listed' \subseteq listed /\ listed \ listed' \subseteq {s}
         /\ timer' \subseteq timer /\ timer \ timer' \subseteq {s}
         /\ stuck \subseteq stuck' /\ stuck' \ stuck \subseteq {s}
         /\ s \in stuck' \/ (s \in listed' <=> s \in timer') \/ (timer' = timer /\ listed' = listed)
         /\ again' \in listed' \cup {0}
         /\ requests' = req \/ (req # <<>> /\ requests' = Tail(req))
         /\ got' \in [Subs -> SUBSET (1..MaxNotes)]
         /\ \A t \in Subs : got[t] \subseteq got'[t]
         /\ fails' \in 0..MaxFails
         /\ req # <<>> => listed' = listed
         /\ s \in listed' \ stuck' /\ Kept(all[s], got[s]) => Kept(sub'[s], got'[s])
<1> DEFINE v == Counted(all[s], req)
<1>1. /\ s \in Subs /\ SubOK(all[s])
      /\ got \in [Subs -> SUBSET (1..MaxNotes)] /\ fails \in 0..MaxFails
  BY BoundsAssumption DEF TypeOK, Subs
<1>2. /\ v.late = all[s].late /\ v.queue = all[s].queue
      /\ v.seq = all[s].seq /\ v.retr = all[s].retr
      /\ v.ready <= v.queue
      /\ v.life = IF req # <<>> THEN 0 ELSE all[s].life + 1
      /\ v.life <= LifeTime => SubOK(v)
  BY <1>1, CountedOK
<1>3. CASE v.life > LifeTime /\ Deleted(s) /\ requests' = req /\ again' = 0 /\ UNCHANGED got
  <2>1. req = <<>>
    BY <1>2, <1>3, BoundsAssumption
  <2> QED  BY <1>1, <1>3, <2>1, DeletedOK
<1>4. ASSUME v.life <= LifeTime, Leaves(s, all, v, req), UNCHANGED <<listed, timer, stuck>>
      PROVE  /\ sub' \in [Subs -> SubState] /\ \A t \in Subs : SubOK(sub'[t])
             /\ \A t \in Subs \ {s} : sub'[t] = all[t]
             /\ again' = 0 /\ requests' = req /\ got' = got /\ fails' \in 0..MaxFails
             /\ Kept(all[s], got[s]) => Kept(sub'[s], got'[s])
  <2> HIDE DEF v
  <2> DEFINE l == [v EXCEPT !.late = TRUE]
  <2>1. SubOK(v) /\ v \in SubState
    BY <1>2, <1>4 DEF SubOK
  <2>2. l \in SubState /\ l.queue = v.queue /\ l.seq = v.seq /\ l.retr = v.retr
    BY <2>1 DEF SubState
  <2>3. SubOK(l)
    BY <2>1, <2>2 DEF SubOK
  <2>4. sub' = [all EXCEPT ![s] = v] \/ sub' = [all EXCEPT ![s] = l]
    BY <1>4 DEF Leaves
  <2>5. requests' = req
    BY <1>4, HeadTailProperties, EmptySeq DEF Leaves, PutBack, Reenqueue
  <2>6. fails' \in 0..MaxFails
    BY <1>1, <1>4, BoundsAssumption DEF Leaves, Allocates, AllocationFails
  <2>7. Kept(all[s], got[s]) => Kept(v, got[s]) /\ Kept(l, got[s])
    BY <1>2, <2>2 DEF Kept
  <2> HIDE DEF l
  <2> QED  BY <1>1, <1>4, <2>1, <2>2, <2>3, <2>4, <2>5, <2>6, <2>7 DEF Leaves
<1>5. ASSUME v.life <= LifeTime, Sends(s, all, v, req), UNCHANGED <<listed, timer, stuck>>
      PROVE  /\ sub' \in [Subs -> SubState] /\ \A t \in Subs : SubOK(sub'[t])
             /\ \A t \in Subs \ {s} : sub'[t] = all[t]
             /\ again' \in {s, 0} /\ req # <<>> /\ requests' = Tail(req) /\ fails' = fails
             /\ got' \in [Subs -> SUBSET (1..MaxNotes)] /\ \A t \in Subs : got[t] \subseteq got'[t]
             /\ Kept(all[s], got[s]) => Kept(sub'[s], got'[s])
  <2> HIDE DEF v
  <2>1. SubOK(v)
    BY <1>2, <1>5
  <2>2. PICK arrived \in SUBSET (IF Amount(v) > 0 THEN {v.seq + 1} ELSE {}) :
          got' = [got EXCEPT ![s] = @ \cup arrived]
    BY <1>5 DEF Sends
  <2>3. /\ SubOK(Sent(v)) /\ Sent(v) \in SubState
        /\ Amount(v) > 0 => v.seq + 1 \in 1..MaxNotes
        /\ Kept(v, got[s]) => Kept(Sent(v), got[s] \cup arrived)
    BY <1>2, <2>1, SentOK DEF SubOK
  <2>4. Kept(all[s], got[s]) => Kept(v, got[s])
    BY <1>2 DEF Kept
  <2>5. got'[s] = got[s] \cup arrived
    BY <1>1, <2>2
  <2>6. got' \in [Subs -> SUBSET (1..MaxNotes)] /\ \A t \in Subs : got[t] \subseteq got'[t]
    BY <1>1, <2>2, <2>3
  <2>7. req # <<>>
    BY <1>5 DEF Sends, Clear, Blocked
  <2>8. sub' = [all EXCEPT ![s] = Sent(v)]
    BY <1>5 DEF Sends
  <2>9. again' \in {s, 0} /\ requests' = Tail(req) /\ fails' = fails
    BY <1>5 DEF Sends, Allocates
  <2> QED  BY <1>1, <2>3, <2>4, <2>5, <2>6, <2>7, <2>8, <2>9
<1>6. \/ v.life > LifeTime /\ Deleted(s) /\ requests' = req /\ again' = 0 /\ UNCHANGED got
      \/ /\ v.life <= LifeTime
         /\ Leaves(s, all, v, req) \/ Sends(s, all, v, req)
         /\ UNCHANGED <<listed, timer, stuck>>
  BY DEF Publish
<1> HIDE DEF v
<1>7. CASE v.life <= LifeTime /\ Leaves(s, all, v, req) /\ UNCHANGED <<listed, timer, stuck>>
  BY <1>1, <1>4, <1>7
<1>8. CASE v.life <= LifeTime /\ Sends(s, all, v, req) /\ UNCHANGED <<listed, timer, stuck>>
  BY <1>1, <1>5, <1>8
<1> QED  BY <1>3, <1>6, <1>7, <1>8

-----------------------------------------------------------------------------
(* The inductive invariant. A late subscription t that has been passed was *)
(* passed by those the search meets between t and the last it preferred,   *)
(* so that the distance it has gone bounds the count; and a queue holds    *)
(* what a sequence number allows.                                          *)

SubsSound == \A t \in Subs : SubOK(sub[t])

Known == \A t \in listed \ stuck : Kept(sub[t], got[t])

Fresh == \A t \in Subs : t > lastId => passed[t] = 0

Gone(t) == IF lastSeen > t THEN MaxSubs + t - lastSeen ELSE t - lastSeen

Turn(t) ==
  passed[t] > 0 => /\ sub[t].late
                   /\ lastSeen \in listed /\ lastSeen # t
                   /\ passed[t] <= Gone(t)

Turns == \A t \in listed : Turn(t)

IInv == TypeOK /\ SubsSound /\ TimerFollowsList /\ Known /\ Fresh /\ Turns

LEMMA InitOK == Init => IInv
<1> SUFFICES ASSUME Init PROVE IInv
  OBVIOUS
<1>1. SubOK(NewSub(TRUE)) /\ NewSub(TRUE) \in SubState
  BY NewOK DEF SubOK
<1>2. TypeOK
  <2>1. 0 \in 0..MaxSubs /\ 0 \in 0..MaxPublish /\ 0 \in 0..MaxFails
    BY BoundsAssumption
  <2>2. requests \in Seq(1..MaxPublish) /\ Len(requests) = 0
    BY EmptySeq DEF Init
  <2>3. sub \in [Subs -> SubState] /\ got \in [Subs -> SUBSET (1..MaxNotes)]
        /\ passed \in [Subs -> 0..MaxSubs]
    BY <1>1, <2>1 DEF Init
  <2>4. MaxRequests > 0 => Len(requests) <= MaxRequests
    BY <2>2, BoundsAssumption
  <2> QED  BY <2>1, <2>2, <2>3, <2>4 DEF Init, TypeOK
<1> QED  BY <1>1, <1>2 DEF Init, IInv, SubsSound, TimerFollowsList, Known, Fresh, Turns, Turn

(* What the requests' type needs of a cycle.                               *)
LEMMA TailOK ==
  ASSUME NEW req \in Seq(1..MaxPublish), MaxRequests > 0 => Len(req) <= MaxRequests,
         requests' = req \/ (req # <<>> /\ requests' = Tail(req))
  PROVE  requests' \in Seq(1..MaxPublish) /\ (MaxRequests > 0 => Len(requests') <= MaxRequests)
<1>1. CASE requests' = req
  BY <1>1
<1>2. CASE req # <<>> /\ requests' = Tail(req)
  <2>1. Tail(req) \in Seq(1..MaxPublish) /\ Len(Tail(req)) = Len(req) - 1
    BY <1>2, HeadTailProperties
  <2>2. Len(req) \in Nat
    BY LenProperties
  <2>3. Len(Tail(req)) <= Len(req)
    BY <2>1, <2>2
  <2>4. MaxRequests > 0 => Len(Tail(req)) <= MaxRequests
    BY <2>1, <2>2, <2>3, BoundsAssumption
  <2> QED  BY <1>2, <2>1, <2>4
<1> QED  BY <1>1, <1>2

(* The type invariant after a step that contains a cycle.                  *)
LEMMA PublishTypes ==
  ASSUME TypeOK, SubsSound, NEW s \in listed,
         NEW all \in [Subs -> SubState], NEW req \in Seq(1..MaxPublish),
         MaxRequests > 0 => Len(req) <= MaxRequests,
         \A t \in Subs : SubOK(all[t]) /\ all[t].late = sub[t].late,
         Publish(s, all, req),
         UNCHANGED <<session, lastId, freedUsed>>,
         published' \in 0..MaxPublish, lastSeen' \in 0..MaxSubs,
         passed' \in [Subs -> 0..MaxSubs]
  PROVE  TypeOK' /\ SubsSound'
<1>1. /\ sub' \in [Subs -> SubState] /\ \A t \in Subs : SubOK(sub'[t])
      /\ listed' \subseteq listed /\ timer' \subseteq timer
      /\ stuck' \ stuck \subseteq {s}
      /\ again' \in listed' \cup {0}
      /\ requests' = req \/ (req # <<>> /\ requests' = Tail(req))
      /\ got' \in [Subs -> SUBSET (1..MaxNotes)] /\ fails' \in 0..MaxFails
  BY PublishOK DEF SubsSound
<1>2. requests' \in Seq(1..MaxPublish) /\ (MaxRequests > 0 => Len(requests') <= MaxRequests)
  BY <1>1, TailOK
<1>3. /\ session' \in {"attached", "detached", "ended"} /\ lastId' \in 0..MaxSubs
      /\ listed' \subseteq 1..lastId' /\ timer' \subseteq 1..lastId'
      /\ freedUsed' \in BOOLEAN
  BY <1>1 DEF TypeOK
<1>4. stuck' \subseteq 1..lastId'
  BY <1>1 DEF TypeOK
<1> QED  BY <1>1, <1>2, <1>3, <1>4 DEF TypeOK, SubsSound

(* What is known, and the timer, after a step that contains a cycle.       *)
LEMMA PublishKnown ==
  ASSUME TypeOK, SubsSound, Known, TimerFollowsList, NEW s \in listed,
         NEW all \in [Subs -> SubState], NEW req \in Seq(1..MaxPublish),
         \A t \in Subs : SubOK(all[t]) /\ all[t].late = sub[t].late,
         \A t \in Subs : Kept(sub[t], got[t]) => Kept(all[t], got[t]),
         Publish(s, all, req)
  PROVE  Known' /\ TimerFollowsList'
<1>1. /\ \A t \in Subs \ {s} : sub'[t] = all[t] \/ sub'[t] = sub[t]
      /\ listed' \subseteq listed /\ listed \ listed' \subseteq {s}
      /\ timer' \subseteq timer /\ timer \ timer' \subseteq {s}
      /\ stuck \subseteq stuck'
      /\ s \in stuck' \/ (s \in listed' <=> s \in timer') \/ (timer' = timer /\ listed' = listed)
      /\ \A t \in Subs : got[t] \subseteq got'[t]
      /\ s \in listed' \ stuck' /\ Kept(all[s], got[s]) => Kept(sub'[s], got'[s])
  BY PublishOK DEF SubsSound
<1>2. listed \subseteq Subs
  BY BoundsAssumption DEF TypeOK, Subs
<1>3. ASSUME NEW t \in listed' \ stuck' PROVE Kept(sub'[t], got'[t])
  <2>1. t \in Subs /\ t \in listed \ stuck /\ Kept(sub[t], got[t]) /\ Kept(all[t], got[t])
    BY <1>1, <1>2, <1>3 DEF Known
  <2>2. CASE t = s
    BY <1>1, <1>3, <2>1, <2>2
  <2>3. CASE t # s
    BY <1>1, <2>1, <2>3, KeptGrows
  <2> QED  BY <2>2, <2>3
<1>4. ASSUME NEW t \in Subs \ stuck' PROVE t \in timer' <=> t \in listed'
  <2>1. t \in timer <=> t \in listed
    BY <1>1, <1>4 DEF TimerFollowsList
  <2> QED  BY <1>1, <1>4, <2>1
<1> QED  BY <1>3, <1>4 DEF Known, TimerFollowsList

(* A cycle takes the oldest request or leaves the queue as it is.          *)
Taken(req) == requests' = req \/ (req # <<>> /\ requests' = Tail(req))

(* A cycle that no request asked for.                                      *)
LEMMA CycleOK ==
  ASSUME IInv, NEW s \in listed, NEW all \in [Subs -> SubState],
         \A t \in Subs : SubOK(all[t]) /\ all[t].late = sub[t].late,
         \A t \in Subs : Kept(sub[t], got[t]) => Kept(all[t], got[t]),
         Publish(s, all, requests), passed' = Passed(s),
         UNCHANGED <<session, lastId, published, lastSeen, freedUsed>>
  PROVE  IInv' /\ (requests # <<>> => listed' = listed) /\ Taken(requests)
<1>0. TypeOK /\ SubsSound /\ Known /\ TimerFollowsList
  BY DEF IInv
<1>1. /\ passed \in [Subs -> 0..MaxSubs] /\ published \in 0..MaxPublish /\ lastSeen \in 0..MaxSubs
      /\ requests \in Seq(1..MaxPublish) /\ (MaxRequests > 0 => Len(requests) <= MaxRequests)
      /\ listed \subseteq Subs
  BY BoundsAssumption DEF IInv, TypeOK, Subs
<1>r. PICK req : req = requests
  OBVIOUS
<1>p. /\ Publish(s, all, req)
      /\ req \in Seq(1..MaxPublish) /\ (MaxRequests > 0 => Len(req) <= MaxRequests)
  BY <1>1, <1>r
<1>2. passed' \in [Subs -> 0..MaxSubs]
      /\ \A t \in Subs : passed'[t] \in {0, passed[t]}
  BY <1>1, BoundsAssumption DEF Passed
<1>3. TypeOK' /\ SubsSound'
  BY <1>0, <1>1, <1>p, <1>2, PublishTypes
<1>4. Known' /\ TimerFollowsList'
  BY <1>0, <1>1, <1>p, PublishKnown
<1>5. Fresh'
  BY <1>2 DEF IInv, Fresh
<1>6. ASSUME NEW t \in listed', passed'[t] > 0
      PROVE  sub'[t].late /\ lastSeen' \in listed' /\ lastSeen' # t /\ passed'[t] <= Gone(t)'
  <2>1. /\ \A u \in Subs \ {s} : sub'[u] = all[u] \/ sub'[u] = sub[u]
        /\ listed' \subseteq listed
    BY <1>0, <1>1, <1>p, PublishOK DEF SubsSound
  <2>2. t \in Subs /\ t \in listed
    BY <1>1, <2>1
  <2>3. /\ ~(t = s /\ ~sub'[s].late) /\ lastSeen \notin listed \ listed'
        /\ passed'[t] = passed[t]
    BY <1>6, <2>2 DEF Passed
  <2>4. sub[t].late /\ lastSeen \in listed /\ lastSeen # t /\ passed[t] <= Gone(t)
    BY <1>6, <2>2, <2>3 DEF IInv, Turns, Turn
  <2>5. sub'[t].late
    BY <2>1, <2>2, <2>3, <2>4
  <2>6. Gone(t)' = Gone(t)
    BY DEF Gone
  <2> QED  BY <2>3, <2>4, <2>5, <2>6
<1>7. Turns'
  BY <1>6 DEF Turns, Turn
<1>8. (requests # <<>> => listed' = listed) /\ Taken(requests)
  BY <1>0, <1>1, <1>r, <1>p, PublishOK DEF SubsSound, Taken
<1> QED  BY <1>3, <1>4, <1>5, <1>7, <1>8 DEF IInv

-----------------------------------------------------------------------------
(* One lemma for each action.                                              *)

LEMMA PublishCallbackOK ==
  ASSUME IInv, NEW s \in Subs, PublishCallback(s)
  PROVE  IInv' /\ (requests # <<>> => listed' = listed) /\ Taken(requests)
<1> DEFINE ready == [sub EXCEPT ![s].ready = sub[s].queue]
<1>1. sub \in [Subs -> SubState] /\ \A t \in Subs : SubOK(sub[t])
  BY DEF IInv, TypeOK, SubsSound
<1>2. ready \in [Subs -> SubState]
  BY <1>1 DEF SubState
<1>3. \A t \in Subs : /\ ready[t].queue = sub[t].queue /\ ready[t].seq = sub[t].seq
                      /\ ready[t].retr = sub[t].retr /\ ready[t].late = sub[t].late
  BY <1>1 DEF SubState
<1>4. PICK all : all = ready
  OBVIOUS
<1>5. all \in [Subs -> SubState]
  BY <1>2, <1>4
<1>6. \A t \in Subs : SubOK(all[t]) /\ all[t].late = sub[t].late
  BY <1>1, <1>3, <1>4, <1>5 DEF SubOK
<1>7. \A t \in Subs : Kept(sub[t], got[t]) => Kept(all[t], got[t])
  BY <1>3, <1>4 DEF Kept
<1>8. /\ Publish(s, all, requests) /\ passed' = Passed(s) /\ s \in listed
      /\ UNCHANGED <<session, lastId, published, lastSeen, freedUsed>>
  BY <1>4 DEF PublishCallback
<1> QED  BY <1>5, <1>6, <1>7, <1>8, CycleOK

LEMMA PublishAgainOK ==
  ASSUME IInv, PublishAgain
  PROVE  IInv' /\ (requests # <<>> => listed' = listed) /\ Taken(requests)
<1>1. sub \in [Subs -> SubState] /\ \A t \in Subs : SubOK(sub[t])
  BY DEF IInv, TypeOK, SubsSound
<1>2. PICK all : all = sub
  OBVIOUS
<1>3. PICK s : s = again
  OBVIOUS
<1>4. s \in listed
  BY <1>3 DEF IInv, TypeOK, PublishAgain
<1>5. /\ Publish(s, all, requests) /\ passed' = Passed(s)
      /\ UNCHANGED <<session, lastId, published, lastSeen, freedUsed>>
  BY <1>2, <1>3 DEF PublishAgain
<1>6. all \in [Subs -> SubState] /\ \A t \in Subs : SubOK(all[t]) /\ all[t].late = sub[t].late
  BY <1>1, <1>2
<1>7. \A t \in Subs : Kept(sub[t], got[t]) => Kept(all[t], got[t])
  BY <1>2
<1> QED  BY <1>4, <1>5, <1>6, <1>7, CycleOK

(* A service that changes one subscription but not whether it is late, nor *)
(* what it has sent and kept.                                              *)
LEMMA TouchOK ==
  ASSUME IInv, NEW s \in listed, NEW u, SubOK(u),
         u.late = sub[s].late, u.seq = sub[s].seq, u.retr = sub[s].retr,
         sub' = [sub EXCEPT ![s] = u],
         UNCHANGED <<session, lastId, listed, requests, published, lastSeen, again,
                     passed, freedUsed>>,
         got' \in [Subs -> SUBSET (1..MaxNotes)], \A t \in Subs : got[t] \subseteq got'[t],
         fails' \in 0..MaxFails,
         timer \ timer' \subseteq {s}, timer' \ timer \subseteq {s},
         stuck \subseteq stuck', stuck' \ stuck \subseteq {s},
         s \in stuck' \/ s \in timer' \/ timer' = timer
  PROVE  IInv'
<1>1. /\ s \in Subs /\ s \in 1..lastId /\ u \in SubState /\ sub \in [Subs -> SubState]
      /\ listed \subseteq Subs
  BY BoundsAssumption DEF IInv, TypeOK, Subs, SubOK
<1>2. sub' \in [Subs -> SubState] /\ sub'[s] = u /\ \A t \in Subs \ {s} : sub'[t] = sub[t]
  BY <1>1
<1>3. timer' \subseteq 1..lastId' /\ stuck' \subseteq 1..lastId'
  BY <1>1 DEF IInv, TypeOK
<1>4. TypeOK'
  BY <1>2, <1>3 DEF IInv, TypeOK
<1>5. SubsSound'
  BY <1>2 DEF IInv, SubsSound
<1>6. Known'
  <2> SUFFICES ASSUME NEW t \in listed' \ stuck' PROVE Kept(sub'[t], got'[t])
    BY DEF Known
  <2>1. t \in Subs /\ Kept(sub[t], got[t]) /\ got[t] \subseteq got'[t]
    BY <1>1 DEF IInv, Known
  <2>2. sub'[t].seq = sub[t].seq /\ sub'[t].retr = sub[t].retr
    BY <1>2, <2>1
  <2> QED  BY <2>1, <2>2 DEF Kept
<1>7. TimerFollowsList'
  BY <1>1 DEF IInv, TimerFollowsList
<1>8. Fresh'
  BY DEF IInv, Fresh
<1>9. Turns'
  <2> SUFFICES ASSUME NEW t \in listed PROVE Turn(t)'
    BY DEF Turns
  <2>1. Turn(t) /\ t \in Subs
    BY <1>1 DEF IInv, Turns
  <2>2. sub'[t].late = sub[t].late
    BY <1>2, <2>1
  <2> QED  BY <2>1, <2>2 DEF Turn, Gone
<1> QED  BY <1>4, <1>5, <1>6, <1>7, <1>8, <1>9 DEF IInv

LEMMA SampleOK ==
  ASSUME IInv, NEW s \in Subs, Sample(s)
  PROVE  IInv'
<1>1. s \in listed /\ sub \in [Subs -> SubState] /\ sub[s] \in SubState /\ SubOK(sub[s])
  BY DEF IInv, TypeOK, SubsSound, Sample
<1>2. PICK u : u = [sub[s] EXCEPT !.queue = Lesser(sub[s].queue + 1, QueueSize)]
  OBVIOUS
<1>3. sub[s].queue \in 0..QueueSize /\ sub[s].seq \in 0..MaxNotes
  BY <1>1 DEF SubState
<1>4. /\ u.queue \in 0..QueueSize /\ u.queue <= sub[s].queue + 1
      /\ u.late = sub[s].late /\ u.seq = sub[s].seq /\ u.retr = sub[s].retr
  BY <1>1, <1>2, <1>3, BoundsAssumption DEF SubState, Lesser
<1>5. u \in SubState
  BY <1>1, <1>2, <1>4 DEF SubState
<1>6. u.seq + u.queue <= MaxNotes
  BY <1>3, <1>4, BoundsAssumption DEF Sample
<1>7. SubOK(u)
  BY <1>1, <1>4, <1>5, <1>6 DEF SubOK
<1>8. sub' = [sub EXCEPT ![s] = u]
  BY <1>1, <1>2 DEF Sample
<1>9. got' \in [Subs -> SUBSET (1..MaxNotes)] /\ fails' \in 0..MaxFails
  BY DEF IInv, TypeOK, Sample
<1> QED  BY <1>1, <1>4, <1>7, <1>8, <1>9, TouchOK DEF Sample

(* Each of these services resets the lifetime.                             *)
LEMMA ResetOK ==
  ASSUME NEW v, SubOK(v), NEW e \in BOOLEAN, NEW n \in {0, v.queue}
  PROVE  LET u == [v EXCEPT !.life = 0, !.enabled = e, !.queue = n]
         IN SubOK(u) /\ u.late = v.late /\ u.seq = v.seq /\ u.retr = v.retr
<1> DEFINE u == [v EXCEPT !.life = 0, !.enabled = e, !.queue = n]
<1>1. /\ v \in SubState /\ v.seq + v.queue <= MaxNotes /\ v.retr \subseteq 1..v.seq
      /\ v.queue \in 0..QueueSize /\ v.seq \in 0..MaxNotes
  BY DEF SubOK, SubState
<1>2. 0 \in 0..LifeTime /\ n \in 0..QueueSize /\ v.seq + n <= MaxNotes
  BY <1>1, BoundsAssumption
<1>3. u \in SubState /\ u.late = v.late /\ u.seq = v.seq /\ u.retr = v.retr /\ u.queue = n
  BY <1>1, <1>2 DEF SubState
<1> HIDE DEF u
<1>4. SubOK(u)
  BY <1>1, <1>2, <1>3 DEF SubOK
<1> QED  BY <1>3, <1>4 DEF u

LEMMA ServiceOK ==
  ASSUME IInv, NEW s \in Subs,
         \/ ModifySubscription(s) \/ SetPublishingMode(s) \/ StopMonitoring(s)
         \/ \E n \in 1..MaxNotes : Republish(s, n)
  PROVE  IInv'
<1>1. s \in listed /\ sub \in [Subs -> SubState] /\ sub[s] \in SubState /\ SubOK(sub[s])
  BY DEF IInv, TypeOK, SubsSound, ModifySubscription, SetPublishingMode, StopMonitoring, Republish
<1>2. sub[s].enabled \in BOOLEAN /\ got \in [Subs -> SUBSET (1..MaxNotes)] /\ fails \in 0..MaxFails
  BY <1>1 DEF SubState, IInv, TypeOK
<1>3. PICK e \in BOOLEAN, n \in {0, sub[s].queue} :
        sub' = [sub EXCEPT ![s] = [sub[s] EXCEPT !.life = 0, !.enabled = e, !.queue = n]]
  <2>1. CASE SetPublishingMode(s)
    <3>1. sub' = [sub EXCEPT ![s] = [sub[s] EXCEPT !.life = 0,
                    !.enabled = (s \in Monitored => ~sub[s].enabled), !.queue = sub[s].queue]]
      BY <1>1, <2>1 DEF SetPublishingMode, SubState
    <3> QED  BY <1>2, <3>1
  <2>2. CASE StopMonitoring(s)
    <3>1. sub' = [sub EXCEPT ![s] = [sub[s] EXCEPT !.life = 0,
                    !.enabled = sub[s].enabled, !.queue = 0]]
      BY <1>1, <2>2 DEF StopMonitoring, SubState
    <3> QED  BY <1>2, <3>1
  <2>3. CASE ModifySubscription(s) \/ \E n \in 1..MaxNotes : Republish(s, n)
    <3>1. sub' = [sub EXCEPT ![s] = [sub[s] EXCEPT !.life = 0,
                    !.enabled = sub[s].enabled, !.queue = sub[s].queue]]
      BY <1>1, <2>3 DEF ModifySubscription, Republish, SubState
    <3> QED  BY <1>2, <3>1
  <2> QED  BY <2>1, <2>2, <2>3
<1>4. PICK u : u = [sub[s] EXCEPT !.life = 0, !.enabled = e, !.queue = n]
  OBVIOUS
<1>5. SubOK(u) /\ u.late = sub[s].late /\ u.seq = sub[s].seq /\ u.retr = sub[s].retr
  <2>1. PICK v : v = sub[s]
    OBVIOUS
  <2> QED  BY <1>1, <1>3, <1>4, <2>1, ResetOK
<1>6. sub' = [sub EXCEPT ![s] = u]
  BY <1>3, <1>4
<1>7. CASE ModifySubscription(s)
  <2>1. fails' \in 0..MaxFails
    BY <1>7, FailsOK DEF IInv, ModifySubscription
  <2> QED  BY <1>1, <1>2, <1>5, <1>6, <1>7, <2>1, TouchOK DEF ModifySubscription
<1>8. CASE SetPublishingMode(s) \/ StopMonitoring(s)
  BY <1>1, <1>2, <1>5, <1>6, <1>8, TouchOK DEF SetPublishingMode, StopMonitoring
<1>9. CASE \E k \in 1..MaxNotes : Republish(s, k)
  <2>1. PICK k \in 1..MaxNotes : Republish(s, k)
    BY <1>9
  <2>2. got' \in [Subs -> SUBSET (1..MaxNotes)] /\ \A t \in Subs : got[t] \subseteq got'[t]
    BY <1>2, <2>1 DEF Republish
  <2> QED  BY <1>1, <1>2, <1>5, <1>6, <2>1, <2>2, TouchOK DEF Republish
<1> QED  BY <1>7, <1>8, <1>9

(* Actions that leave all this alone, and steps of no action.              *)
LEMMA QuietOK ==
  ASSUME IInv, session' \in {"attached", "detached", "ended"}, freedUsed' \in BOOLEAN,
         UNCHANGED <<lastId, listed, sub, timer, requests, published, lastSeen,
                     again, got, passed, fails, stuck>>
  PROVE  IInv'
BY DEF IInv, TypeOK, SubsSound, TimerFollowsList, Known, Fresh, Turns, Turn, Gone

LEMMA CreateOK ==
  ASSUME IInv, NEW e \in BOOLEAN, CreateSubscription(e)
  PROVE  IInv'
<1>1. PICK s : s = lastId + 1
  OBVIOUS
<1>2. /\ s \in Subs /\ lastId' = s /\ listed' = listed \cup {s}
      /\ sub' = [sub EXCEPT ![s] = NewSub(e)]
      /\ \/ Allocates /\ timer' = timer \cup {s} /\ UNCHANGED stuck
         \/ AllocationFails /\ stuck' = stuck \cup {s} /\ UNCHANGED timer
      /\ UNCHANGED <<session, requests, published, lastSeen, again, got, passed, freedUsed>>
  BY <1>1 DEF CreateSubscription
<1>3. /\ lastId \in Nat /\ listed \subseteq 1..lastId /\ timer \subseteq 1..lastId
      /\ stuck \subseteq 1..lastId /\ sub \in [Subs -> SubState]
      /\ lastId \in 0..MaxSubs
  BY BoundsAssumption DEF IInv, TypeOK
<1>4. SubOK(NewSub(e)) /\ NewSub(e) \in SubState /\ NewSub(e).seq = 0
  BY NewOK DEF SubOK
<1>5. sub' \in [Subs -> SubState] /\ sub'[s] = NewSub(e) /\ \A t \in Subs \ {s} : sub'[t] = sub[t]
  BY <1>2, <1>3, <1>4
<1>6. lastId' \in 0..MaxSubs /\ 1..lastId \subseteq 1..lastId' /\ s \in 1..lastId'
  BY <1>1, <1>2, <1>3, BoundsAssumption DEF Subs
<1>7. fails' \in 0..MaxFails
  BY <1>2, FailsOK DEF IInv
<1>8. s \notin listed /\ s \notin timer /\ s \notin stuck /\ listed \subseteq Subs
  BY <1>1, <1>3, BoundsAssumption DEF Subs
<1>9. TypeOK'
  <2>1. listed' \subseteq 1..lastId' /\ timer' \subseteq 1..lastId' /\ stuck' \subseteq 1..lastId'
    BY <1>2, <1>3, <1>6
  <2> QED  BY <1>2, <1>5, <1>6, <1>7, <2>1 DEF IInv, TypeOK
<1>10. SubsSound'
  BY <1>4, <1>5 DEF IInv, SubsSound
<1>11. Known'
  <2> SUFFICES ASSUME NEW t \in listed' \ stuck' PROVE Kept(sub'[t], got'[t])
    BY DEF Known
  <2>1. CASE t = s
    <3>1. sub'[t].seq = 0
      BY <1>4, <1>5, <2>1
    <3> QED  BY <3>1 DEF Kept
  <2>2. CASE t # s
    BY <1>2, <1>5, <1>8, <2>2 DEF IInv, Known
  <2> QED  BY <2>1, <2>2
<1>12. TimerFollowsList'
  BY <1>2, <1>8 DEF IInv, TimerFollowsList
<1>13. Fresh'
  BY <1>1, <1>2, <1>3 DEF IInv, Fresh, Subs
<1>14. Turns'
  <2> SUFFICES ASSUME NEW t \in listed' PROVE Turn(t)'
    BY DEF Turns
  <2>1. CASE t = s
    <3>1. passed[s] = 0
      BY <1>1, <1>2, <1>3 DEF IInv, Fresh, Subs
    <3> QED  BY <1>2, <2>1, <3>1 DEF Turn
  <2>2. CASE t # s
    <3>1. Turn(t) /\ sub'[t] = sub[t]
      BY <1>2, <1>5, <1>8, <2>2 DEF IInv, Turns
    <3> QED  BY <1>2, <3>1 DEF Turn, Gone
  <2> QED  BY <2>1, <2>2
<1> QED  BY <1>9, <1>10, <1>11, <1>12, <1>13, <1>14 DEF IInv

LEMMA DeleteOK ==
  ASSUME IInv, NEW s \in Subs, DeleteSubscription(s)
  PROVE  IInv'
<1>1. s \in listed /\ Deleted(s)
  BY DEF DeleteSubscription
<1>2. /\ sub' \in [Subs -> SubState] /\ \A t \in Subs : SubOK(sub'[t])
      /\ \A t \in Subs \ {s} : sub'[t] = sub[t]
      /\ listed' \subseteq listed /\ listed \ listed' \subseteq {s}
      /\ timer' \subseteq timer /\ timer \ timer' \subseteq {s}
      /\ stuck \subseteq stuck' /\ stuck' \ stuck \subseteq {s}
      /\ fails' \in 0..MaxFails
      /\ s \in stuck' \/ (s \notin listed' /\ s \notin timer')
  BY <1>1, DeletedOK DEF IInv, SubsSound
<1>3. /\ passed \in [Subs -> 0..MaxSubs] /\ listed \subseteq Subs
      /\ requests \in Seq(1..MaxPublish) /\ (MaxRequests > 0 => Len(requests) <= MaxRequests)
  BY BoundsAssumption DEF IInv, TypeOK, Subs
<1>4. passed' \in [Subs -> 0..MaxSubs] /\ \A t \in Subs : passed'[t] \in {0, passed[t]}
  BY <1>3, BoundsAssumption DEF DeleteSubscription, Passed
<1>5. TypeOK'
  <2>1. listed' \subseteq 1..lastId' /\ timer' \subseteq 1..lastId' /\ stuck' \subseteq 1..lastId'
    BY <1>1, <1>2 DEF IInv, TypeOK, DeleteSubscription
  <2>2. requests' \in Seq(1..MaxPublish) /\ (MaxRequests > 0 => Len(requests') <= MaxRequests)
    <3>1. CASE requests' = <<>>
      BY <3>1, EmptySeq, BoundsAssumption
    <3>2. CASE requests' = requests
      BY <1>3, <3>2
    <3> QED  BY <3>1, <3>2 DEF DeleteSubscription
  <2>3. again' = 0
    BY DEF DeleteSubscription, Called, Runs
  <2> QED  BY <1>2, <1>4, <2>1, <2>2, <2>3 DEF IInv, TypeOK, DeleteSubscription
<1>6. SubsSound'
  BY <1>2 DEF SubsSound
<1>7. Known' /\ TimerFollowsList'
  BY <1>2, <1>3 DEF IInv, Known, TimerFollowsList, DeleteSubscription
<1>8. Fresh'
  BY <1>4 DEF IInv, Fresh, DeleteSubscription
<1>9. Turns'
  <2> SUFFICES ASSUME NEW t \in listed', passed'[t] > 0
               PROVE  sub'[t].late /\ lastSeen' \in listed' /\ lastSeen' # t /\ passed'[t] <= Gone(t)'
    BY DEF Turns, Turn
  <2>1. t \in listed /\ t \in Subs
    BY <1>2, <1>3
  <2>2. /\ ~(t = s /\ ~sub'[s].late) /\ lastSeen \notin listed \ listed'
        /\ passed'[t] = passed[t]
    BY <2>1 DEF DeleteSubscription, Passed
  <2>3. sub[t].late /\ lastSeen \in listed /\ lastSeen # t /\ passed[t] <= Gone(t)
    BY <2>1, <2>2 DEF IInv, Turns, Turn
  <2>4. Gone(t)' = Gone(t) /\ lastSeen' = lastSeen
    BY DEF Gone, DeleteSubscription
  <2> QED  BY <1>2, <2>1, <2>2, <2>3, <2>4
<1> QED  BY <1>5, <1>6, <1>7, <1>8, <1>9 DEF IInv

LEMMA SessionEndsOK ==
  ASSUME IInv, SessionEnds
  PROVE  IInv'
<1>1. /\ session' = "ended" /\ listed' = {} /\ requests' = <<>>
      /\ sub' = [s \in Subs |-> NewSub(TRUE)]
      /\ UNCHANGED <<lastId, published, lastSeen, again, got, passed, freedUsed>>
      /\ again = 0 /\ stuck \subseteq stuck'
      /\ timer' \subseteq timer /\ stuck' \subseteq stuck \cup timer
      /\ \A t \in timer' : t \in stuck' \/ t \notin listed
  BY DEF SessionEnds, Runs
<1>2. SubOK(NewSub(TRUE)) /\ NewSub(TRUE) \in SubState
  BY NewOK DEF SubOK
<1>3. fails' \in 0..MaxFails
  BY FailsOK DEF IInv, SessionEnds
<1>4. requests' \in Seq(1..MaxPublish) /\ (MaxRequests > 0 => Len(requests') <= MaxRequests)
  BY <1>1, EmptySeq, BoundsAssumption
<1>5. TypeOK'
  <2>1. stuck' \subseteq 1..lastId' /\ timer' \subseteq 1..lastId'
    BY <1>1 DEF IInv, TypeOK
  <2> QED  BY <1>1, <1>2, <1>3, <1>4, <2>1 DEF IInv, TypeOK
<1>6. SubsSound' /\ Known' /\ Fresh' /\ Turns'
  BY <1>1, <1>2 DEF IInv, SubsSound, Known, Fresh, Turns
<1>7. TimerFollowsList'
  BY <1>1 DEF IInv, TimerFollowsList
<1> QED  BY <1>5, <1>6, <1>7 DEF IInv

-----------------------------------------------------------------------------
(* Service_Publish.                                                        *)

LEMMA RoomOK ==
  ASSUME NEW req \in Seq(1..MaxPublish), MaxRequests > 0 => Len(req) <= MaxRequests
  PROVE  /\ Room(req) \in Seq(1..MaxPublish) /\ Len(Room(req)) \in Nat
         /\ MaxRequests > 0 => Len(Room(req)) < MaxRequests
<1>1. Len(req) \in Nat
  BY LenProperties
<1>2. CASE MaxRequests > 0 /\ Len(req) >= MaxRequests
  <2>1. req # <<>>
    BY <1>2, EmptySeq, BoundsAssumption
  <2>2. Tail(req) \in Seq(1..MaxPublish) /\ Len(Tail(req)) = Len(req) - 1
    BY <2>1, HeadTailProperties
  <2>3. Room(req) = Tail(req)
    BY <1>2 DEF Room
  <2>4. Len(Tail(req)) \in Nat /\ Len(Tail(req)) < MaxRequests
    BY <1>1, <1>2, <2>2, BoundsAssumption
  <2> QED  BY <2>2, <2>3, <2>4
<1>3. CASE ~(MaxRequests > 0 /\ Len(req) >= MaxRequests)
  <2>1. Room(req) = req
    BY <1>3 DEF Room
  <2> QED  BY <1>1, <1>3, <2>1, BoundsAssumption
<1> QED  BY <1>2, <1>3

LEMMA AppendOK ==
  ASSUME NEW req \in Seq(1..MaxPublish), NEW n \in 1..MaxPublish,
         MaxRequests > 0 => Len(req) < MaxRequests
  PROVE  /\ Append(req, n) \in Seq(1..MaxPublish) /\ Append(req, n) # <<>>
         /\ MaxRequests > 0 => Len(Append(req, n)) <= MaxRequests
<1>1. Len(req) \in Nat /\ Len(Append(req, n)) = Len(req) + 1
  BY LenProperties, AppendProperties
<1>2. Append(req, n) \in Seq(1..MaxPublish) /\ Append(req, n) # <<>>
  BY AppendProperties
<1> QED  BY <1>1, <1>2, BoundsAssumption

(* Only what the client received is acknowledged.                          *)
LEMMA AcknowledgedOK ==
  ASSUME IInv, NEW acks \in {{}} \cup {{a} : a \in Acks}
  PROVE  /\ Acknowledged(acks) \in [Subs -> SubState]
         /\ \A t \in Subs : /\ SubOK(Acknowledged(acks)[t])
                            /\ Acknowledged(acks)[t].late = sub[t].late
                            /\ Kept(sub[t], got[t]) => Kept(Acknowledged(acks)[t], got[t])
<1> SUFFICES ASSUME NEW t \in Subs
             PROVE  /\ Acknowledged(acks)[t] \in SubState /\ SubOK(Acknowledged(acks)[t])
                    /\ Acknowledged(acks)[t].late = sub[t].late
                    /\ Kept(sub[t], got[t]) => Kept(Acknowledged(acks)[t], got[t])
  BY DEF Acknowledged
<1> DEFINE u == Acknowledged(acks)[t]
           kept == {n \in sub[t].retr : <<t, n>> \notin acks}
<1>1. SubOK(sub[t]) /\ sub[t] \in SubState
  BY DEF IInv, SubsSound, SubOK
<1>2. u = [sub[t] EXCEPT !.retr = kept]
  BY <1>1 DEF Acknowledged, SubState
<1>3. /\ u.late = sub[t].late /\ u.seq = sub[t].seq /\ u.queue = sub[t].queue
      /\ u.retr = kept
  BY <1>1, <1>2 DEF SubState
<1>4. kept \subseteq sub[t].retr /\ sub[t].retr \subseteq 1..MaxNotes
  BY <1>1 DEF SubState
<1>5. u \in SubState
  BY <1>1, <1>2, <1>4 DEF SubState
<1>6. SubOK(u)
  BY <1>1, <1>3, <1>4, <1>5 DEF SubOK
<1>7. \A n \in sub[t].retr \ kept : n \in got[t]
  BY DEF Acks
<1>8. Kept(sub[t], got[t]) => Kept(u, got[t])
  BY <1>3, <1>7 DEF Kept
<1> QED  BY <1>3, <1>5, <1>6, <1>8

LEMMA QueuedOK ==
  ASSUME IInv, NEW acks \in {{}} \cup {{a} : a \in Acks}, Queued(acks),
         published < MaxPublish, published' = published + 1,
         UNCHANGED <<session, lastId, freedUsed>>
  PROVE  IInv'
<1>1. /\ requests \in Seq(1..MaxPublish) /\ (MaxRequests > 0 => Len(requests) <= MaxRequests)
      /\ published' \in 0..MaxPublish /\ published + 1 \in 1..MaxPublish
      /\ 0 \in 0..MaxSubs /\ listed \subseteq Subs
  BY BoundsAssumption DEF IInv, TypeOK, Subs
<1>2. /\ sub' = Acknowledged(acks) /\ requests' = Append(Room(requests), published + 1)
      /\ lastSeen' = 0 /\ LateSubs = {}
      /\ UNCHANGED <<listed, timer, again, got, passed, fails, stuck>>
  BY DEF Queued
<1>3. requests' \in Seq(1..MaxPublish) /\ (MaxRequests > 0 => Len(requests') <= MaxRequests)
  BY <1>1, <1>2, RoomOK, AppendOK
<1>4. /\ sub' \in [Subs -> SubState]
      /\ \A t \in Subs : /\ SubOK(sub'[t]) /\ sub'[t].late = sub[t].late
                         /\ Kept(sub[t], got[t]) => Kept(sub'[t], got[t])
  BY <1>2, AcknowledgedOK
<1>5. TypeOK' /\ SubsSound'
  BY <1>1, <1>2, <1>3, <1>4 DEF IInv, TypeOK, SubsSound
<1>6. Known' /\ TimerFollowsList' /\ Fresh'
  BY <1>1, <1>2, <1>4 DEF IInv, Known, TimerFollowsList, Fresh
<1>7. Turns'
  BY <1>2 DEF IInv, Turns, Turn, LateSubs
<1> QED  BY <1>5, <1>6, <1>7 DEF IInv

LEMMA RefusedOK ==
  ASSUME IInv, Refused, published < MaxPublish, published' = published + 1,
         UNCHANGED <<session, lastId, freedUsed>>
  PROVE  IInv'
<1>1. /\ requests \in Seq(1..MaxPublish) /\ (MaxRequests > 0 => Len(requests) <= MaxRequests)
      /\ published' \in 0..MaxPublish
  BY BoundsAssumption DEF IInv, TypeOK
<1>2. requests' \in Seq(1..MaxPublish) /\ (MaxRequests > 0 => Len(requests') <= MaxRequests)
  BY <1>1, RoomOK, BoundsAssumption DEF Refused
<1>3. fails' \in 0..MaxFails
  BY FailsOK DEF IInv, Refused
<1>4. TypeOK'
  BY <1>1, <1>2, <1>3 DEF IInv, TypeOK, Refused
<1> QED  BY <1>4 DEF IInv, SubsSound, TimerFollowsList, Known, Fresh, Turns, Turn, Gone, Refused

LEMMA NextLateOK ==
  ASSUME IInv, LateSubs # {}
  PROVE  /\ NextLate \in LateSubs /\ NextLate \in 1..MaxSubs
         /\ \A t \in LateSubs :
              \/ NextLate >= t /\ (lastSeen \in listed /\ t < lastSeen => NextLate < lastSeen)
              \/ NextLate < lastSeen /\ lastSeen <= t
<1> DEFINE after == {s \in LateSubs : lastSeen \in listed /\ s < lastSeen}
<1>1. LateSubs \subseteq 1..MaxSubs /\ after \subseteq 1..MaxSubs /\ MaxSubs \in Nat
      /\ lastSeen \in Nat
  <2>1. listed \subseteq 1..lastId /\ lastId \in 0..MaxSubs /\ lastSeen \in 0..MaxSubs
    BY DEF IInv, TypeOK
  <2>2. listed \subseteq 1..MaxSubs
    BY <2>1, BoundsAssumption
  <2>3. LateSubs \subseteq 1..MaxSubs
    BY <2>2 DEF LateSubs
  <2>4. after \subseteq LateSubs
    OBVIOUS
  <2>5. MaxSubs \in Nat /\ lastSeen \in Nat
    BY <2>1, BoundsAssumption
  <2> HIDE DEF after
  <2> QED  BY <2>3, <2>4, <2>5
<1>2. PICK S : S = LateSubs
  OBVIOUS
<1>3. PICK A : A = after
  OBVIOUS
<1>4. CASE after # {}
  <2>1. Greatest(A) \in A /\ \A y \in A : y <= Greatest(A)
    BY <1>1, <1>3, <1>4, GreatestOf
  <2>2. NextLate = Greatest(A)
    BY <1>3, <1>4 DEF NextLate
  <2>3. NextLate \in LateSubs /\ NextLate \in 1..MaxSubs /\ lastSeen \in listed
        /\ NextLate < lastSeen
    BY <1>1, <1>3, <2>1, <2>2
  <2>4. ASSUME NEW t \in LateSubs, ~(NextLate >= t) PROVE lastSeen <= t
    <3>1. t \notin A /\ t \in 1..MaxSubs /\ NextLate \in 1..MaxSubs
      BY <1>1, <2>1, <2>2, <2>3, <2>4
    <3>2. ~(t < lastSeen)
      BY <1>3, <2>3, <3>1
    <3> QED  BY <1>1, <3>1, <3>2
  <2> QED  BY <2>3, <2>4
<1>5. CASE after = {}
  <2>1. Greatest(S) \in S /\ \A y \in S : y <= Greatest(S)
    BY <1>1, <1>2, GreatestOf
  <2>2. NextLate = Greatest(S)
    BY <1>2, <1>5 DEF NextLate
  <2>3. NextLate \in LateSubs /\ NextLate \in 1..MaxSubs
        /\ \A t \in LateSubs : NextLate >= t
    BY <1>1, <1>2, <2>1, <2>2
  <2>4. \A t \in LateSubs : ~(lastSeen \in listed /\ t < lastSeen)
    BY <1>5
  <2> QED  BY <2>3, <2>4
<1> QED  BY <1>4, <1>5

LEMMA AnswersLateOK ==
  ASSUME IInv, NEW acks \in {{}} \cup {{a} : a \in Acks}, AnswersLate(acks),
         published < MaxPublish, published' = published + 1,
         UNCHANGED <<session, lastId, freedUsed>>
  PROVE  IInv' /\ Taken(Append(Room(requests), published + 1))
<1>1. /\ requests \in Seq(1..MaxPublish) /\ (MaxRequests > 0 => Len(requests) <= MaxRequests)
      /\ published' \in 0..MaxPublish /\ published + 1 \in 1..MaxPublish
      /\ passed \in [Subs -> 0..MaxSubs] /\ lastSeen \in 0..MaxSubs
      /\ listed \subseteq 1..MaxSubs /\ Subs = 1..MaxSubs
  BY BoundsAssumption DEF IInv, TypeOK, Subs
<1>2. PICK s : s = NextLate
  OBVIOUS
<1>3. PICK all : all = Acknowledged(acks)
  OBVIOUS
<1>4. PICK req : req = Append(Room(requests), published + 1)
  OBVIOUS
<1>5. /\ LateSubs # {} /\ lastSeen' = s /\ Publish(s, all, req)
      /\ passed' = [t \in Subs |-> IF t \in LateSubs \ {s} THEN Lesser(passed[t] + 1, MaxSubs) ELSE 0]
  BY <1>2, <1>3, <1>4 DEF AnswersLate
<1>6. /\ s \in LateSubs /\ s \in 1..MaxSubs /\ s \in listed
      /\ \A t \in LateSubs :
           \/ s >= t /\ (lastSeen \in listed /\ t < lastSeen => s < lastSeen)
           \/ s < lastSeen /\ lastSeen <= t
  BY <1>2, <1>5, NextLateOK DEF LateSubs
<1>7. /\ req \in Seq(1..MaxPublish) /\ req # <<>>
      /\ (MaxRequests > 0 => Len(req) <= MaxRequests)
  BY <1>1, <1>4, RoomOK, AppendOK
<1>8. /\ all \in [Subs -> SubState]
      /\ \A t \in Subs : SubOK(all[t]) /\ all[t].late = sub[t].late
      /\ \A t \in Subs : Kept(sub[t], got[t]) => Kept(all[t], got[t])
  BY <1>3, AcknowledgedOK
<1>9. passed' \in [Subs -> 0..MaxSubs]
      /\ \A t \in Subs : passed'[t] <= (IF t \in LateSubs \ {s} THEN passed[t] + 1 ELSE 0)
  <2>1. \A t \in Subs : Lesser(passed[t] + 1, MaxSubs) \in 0..MaxSubs
                        /\ Lesser(passed[t] + 1, MaxSubs) <= passed[t] + 1
    BY <1>1, BoundsAssumption DEF Lesser
  <2> QED  BY <1>5, <2>1, BoundsAssumption
<1>10. lastSeen' \in 0..MaxSubs
  BY <1>5, <1>6
<1>11. TypeOK' /\ SubsSound'
  BY <1>1, <1>5, <1>6, <1>7, <1>8, <1>9, <1>10, PublishTypes DEF IInv
<1>12. Known' /\ TimerFollowsList'
  BY <1>5, <1>6, <1>7, <1>8, PublishKnown DEF IInv
<1>13. listed' = listed /\ \A t \in Subs \ {s} : sub'[t] = all[t] \/ sub'[t] = sub[t]
  BY <1>5, <1>6, <1>7, <1>8, PublishOK DEF IInv, SubsSound
<1>14. Fresh'
  <2>1. \A t \in Subs : t > lastId => t \notin LateSubs
    <3>1. listed \subseteq 1..lastId /\ lastId \in 0..MaxSubs
      BY DEF IInv, TypeOK
    <3>2. \A t \in listed : ~(t > lastId)
      BY <3>1, BoundsAssumption
    <3> QED  BY <3>2 DEF LateSubs
  <2> QED  BY <1>5, <2>1 DEF Fresh
<1>15. ASSUME NEW t \in listed, passed'[t] > 0
       PROVE  sub'[t].late /\ s # t /\ passed'[t] <= Gone(t)'
  <2>1. t \in Subs /\ t \in LateSubs /\ t # s /\ passed'[t] <= passed[t] + 1
    BY <1>1, <1>5, <1>9, <1>15
  <2>2. sub'[t].late
    BY <1>8, <1>13, <2>1 DEF LateSubs
  <2> SUFFICES passed'[t] <= Gone(t)'
    BY <2>1, <2>2
  <2>3. /\ t \in 1..MaxSubs /\ s \in 1..MaxSubs /\ MaxSubs \in Nat /\ lastSeen \in 0..MaxSubs
        /\ passed[t] \in 0..MaxSubs /\ passed'[t] \in 0..MaxSubs
    BY <1>1, <1>6, <1>9, <2>1, BoundsAssumption
  <2>4. Gone(t)' = IF s > t THEN MaxSubs + t - s ELSE t - s
    BY <1>5 DEF Gone
  <2>5. CASE passed[t] = 0
    BY <2>1, <2>3, <2>4, <2>5
  <2>6. CASE passed[t] > 0
    <3>1. lastSeen \in listed /\ lastSeen # t
          /\ passed[t] <= IF lastSeen > t THEN MaxSubs + t - lastSeen ELSE t - lastSeen
      BY <2>6 DEF IInv, Turns, Turn, Gone
    <3>2. lastSeen >= 1
      BY <1>1, <3>1
    <3>3. CASE lastSeen > t
      <4>1. s > t /\ s < lastSeen
        BY <1>6, <2>1, <2>3, <3>1, <3>3
      <4> QED  BY <2>1, <2>3, <2>4, <3>1, <3>3, <4>1
    <3>4. CASE lastSeen < t
      <4>1. s > t \/ s < lastSeen
        BY <1>6, <2>1, <2>3
      <4> QED  BY <2>1, <2>3, <2>4, <3>1, <3>2, <3>4, <4>1
    <3> QED  BY <2>3, <3>1, <3>3, <3>4
  <2> QED  BY <2>3, <2>5, <2>6
<1>16. Turns'
  BY <1>5, <1>6, <1>13, <1>15 DEF Turns, Turn
<1>17. Taken(Append(Room(requests), published + 1))
  <2>1. TypeOK /\ \A t \in Subs : SubOK(all[t]) /\ SubOK(sub[t]) /\ all[t].late = sub[t].late
    BY <1>8 DEF IInv, SubsSound
  <2>2. requests' = req \/ (req # <<>> /\ requests' = Tail(req))
    BY <1>5, <1>6, <1>7, <1>8, <2>1, PublishOK
  <2> QED  BY <1>4, <2>2 DEF Taken
<1> QED  BY <1>11, <1>12, <1>14, <1>16, <1>17 DEF IInv

LEMMA PublishRequestOK ==
  ASSUME IInv, PublishRequest
  PROVE  IInv'
<1>1. published < MaxPublish /\ published' = published + 1 /\ UNCHANGED <<session, lastId, freedUsed>>
  BY DEF PublishRequest
<1>2. CASE Refused
  BY <1>1, <1>2, RefusedOK
<1>3. ASSUME NEW acks \in {{}} \cup {{a} : a \in Acks}, Queued(acks)
      PROVE  IInv'
  BY <1>1, <1>3, QueuedOK
<1>4. ASSUME NEW acks \in {{}} \cup {{a} : a \in Acks}, AnswersLate(acks)
      PROVE  IInv'
  BY <1>1, <1>4, AnswersLateOK
<1> QED  BY <1>2, <1>3, <1>4 DEF PublishRequest

-----------------------------------------------------------------------------
(* The theorems.                                                           *)

LEMMA NextOK == IInv /\ [Next]_vars => IInv'
<1> SUFFICES ASSUME IInv, [Next]_vars PROVE IInv'
  OBVIOUS
<1>1. ASSUME NEW s \in Subs, PublishCallback(s) PROVE IInv'
  BY <1>1, PublishCallbackOK
<1>2. CASE PublishAgain
  BY <1>2, PublishAgainOK
<1>3. ASSUME NEW s \in Subs, CallbackOnFreed(s) PROVE IInv'
  <2>1. session' \in {"attached", "detached", "ended"}
    BY <1>3 DEF CallbackOnFreed, IInv, TypeOK
  <2> QED  BY <1>3, <2>1, QuietOK DEF CallbackOnFreed
<1>4. ASSUME NEW s \in Subs, Sample(s) PROVE IInv'
  BY <1>4, SampleOK
<1>5. CASE Services
  <2>1. ASSUME NEW e \in BOOLEAN, CreateSubscription(e) PROVE IInv'
    BY <2>1, CreateOK
  <2>2. ASSUME NEW s \in Subs,
               \/ ModifySubscription(s) \/ SetPublishingMode(s) \/ StopMonitoring(s)
               \/ \E n \in 1..MaxNotes : Republish(s, n)
        PROVE  IInv'
    BY <2>2, ServiceOK
  <2>3. ASSUME NEW s \in Subs, DeleteSubscription(s) PROVE IInv'
    BY <2>3, DeleteOK
  <2>4. CASE PublishRequest
    BY <2>4, PublishRequestOK
  <2> QED  BY <1>5, <2>1, <2>2, <2>3, <2>4 DEF Services
<1>6. CASE Detach
  <2>1. freedUsed' \in BOOLEAN
    BY <1>6 DEF Detach, IInv, TypeOK
  <2> QED  BY <1>6, <2>1, QuietOK DEF Detach
<1>7. CASE SessionEnds
  BY <1>7, SessionEndsOK
<1>8. CASE UNCHANGED vars
  <2>1. session' \in {"attached", "detached", "ended"} /\ freedUsed' \in BOOLEAN
    BY <1>8 DEF vars, IInv, TypeOK
  <2> QED  BY <1>8, <2>1, QuietOK DEF vars
<1> QED  BY <1>1, <1>2, <1>3, <1>4, <1>5, <1>6, <1>7, <1>8 DEF Next

(* The invariant holds in every reachable state, in particular: a late     *)
(* subscription has been passed by no more than lie between it and the     *)
(* last one that was preferred.                                            *)
THEOREM Invariance == Spec => []IInv
<1> QED  BY InitOK, NextOK, PTL DEF Spec

(* The counters, queues and lists of the subscriptions of a session stay   *)
(* within their limits; the queue of publish requests never exceeds        *)
(* maxPublishReqPerSession.                                                *)
THEOREM TypeCorrect == Spec => []TypeOK
<1>1. IInv => TypeOK
  BY DEF IInv
<1> QED  BY <1>1, Invariance, PTL

(* No callback of the timer reaches a subscription that was freed and no   *)
(* listed one is left without cycles, unless an allocation failed for it.  *)
THEOREM TimerRight == Spec => []TimerFollowsList
<1>1. IInv => TimerFollowsList
  BY DEF IInv
<1> QED  BY <1>1, Invariance, PTL

(* Whatever is lost on the way, the newest maxRetransmissionQueueSize      *)
(* messages of a subscription were received or can be republished.         *)
THEOREM MessagesKept == Spec => []Recoverable
<1>1. IInv => Recoverable
  BY DEF IInv, Known, Kept, Recoverable
<1> QED  BY <1>1, Invariance, PTL

(* With any number of late subscriptions none is passed by all the others  *)
(* twice: Service_Publish is fair to them.                                 *)
THEOREM NobodyStarves == Spec => []NotStarved
<1>1. IInv => NotStarved
  <2> SUFFICES ASSUME IInv, NEW t \in listed PROVE passed[t] < MaxSubs
    BY DEF NotStarved
  <2>1. /\ listed \subseteq 1..lastId /\ lastId \in 0..MaxSubs /\ lastSeen \in 0..MaxSubs
        /\ passed \in [Subs -> 0..MaxSubs] /\ MaxSubs \in Nat
    BY BoundsAssumption DEF IInv, TypeOK
  <2>2. t \in 1..MaxSubs /\ passed[t] \in 0..MaxSubs
    BY <2>1 DEF Subs
  <2>3. Turn(t)
    BY DEF IInv, Turns
  <2>4. CASE passed[t] > 0
    <3>1. lastSeen \in listed /\ lastSeen # t /\ passed[t] <= Gone(t)
      BY <2>3, <2>4 DEF Turn
    <3>2. lastSeen \in 1..MaxSubs
      BY <2>1, <3>1
    <3> QED  BY <2>1, <2>2, <3>1, <3>2 DEF Gone
  <2>5. CASE ~(passed[t] > 0)
    BY <2>1, <2>2, <2>5
  <2> QED  BY <2>4, <2>5
<1> QED  BY <1>1, Invariance, PTL

(* As long as a request waits, a session without a channel keeps all its   *)
(* subscriptions: every cycle finds it and resets the lifetime.            *)
THEOREM RequestsHold == Spec => HeldByRequests
<1> DEFINE Held == session = "detached" /\ session' = "detached" /\ requests # <<>>
                     => listed' = listed
<1>1. IInv /\ Next => Held
  <2> SUFFICES ASSUME IInv, Next, session = "detached", session' = "detached", requests # <<>>
               PROVE  listed' = listed
    OBVIOUS
  <2>1. CASE PublishAgain
    BY <2>1, PublishAgainOK
  <2>2. ASSUME NEW s \in Subs, PublishCallback(s) PROVE listed' = listed
    BY <2>2, PublishCallbackOK
  <2>3. ~Services /\ ~Detach /\ ~SessionEnds
    BY DEF Services, CreateSubscription, ModifySubscription, SetPublishingMode,
       StopMonitoring, DeleteSubscription, Republish, PublishRequest, Called,
       Detach, SessionEnds
  <2> QED  BY <2>1, <2>2, <2>3 DEF Next, CallbackOnFreed, Sample
<1>2. UNCHANGED vars => Held
  BY DEF vars
<1> QED  BY <1>1, <1>2, Invariance, PTL DEF Spec, HeldByRequests
-----------------------------------------------------------------------------
(* The queue of publish requests.                                          *)

(* The queue without its first k requests.                                 *)
Dropped(q, k) == SubSeq(q, k + 1, Len(q))

LEMMA DroppedOK ==
  ASSUME NEW q \in Seq(1..MaxPublish)
  PROVE  /\ Dropped(q, 0) = q
         /\ q # <<>> => Dropped(q, 1) = Tail(q)
         /\ Dropped(q, Len(q)) = <<>>
         /\ Len(q) >= 2 => Dropped(q, 2) = Tail(Tail(q))
<1>1. Len(q) \in Nat
  BY LenProperties
<1>2. Dropped(q, 0) = q
  BY SubSeqFull DEF Dropped
<1>3. q # <<>> => Dropped(q, 1) = Tail(q)
  BY TailIsSubSeq DEF Dropped
<1>4. Dropped(q, Len(q)) = <<>>
  <2>1. Len(q) + 1 \in Int /\ Len(q) \in Int /\ Len(q) < Len(q) + 1
    BY <1>1
  <2> QED  BY <2>1, SubSeqEmpty DEF Dropped
<1>5. ASSUME Len(q) >= 2 PROVE Dropped(q, 2) = Tail(Tail(q))
  <2>1. q # <<>>
    BY <1>5, EmptySeq
  <2>2. 2 \in 1..Len(q) /\ Len(q) \in 2..Len(q) /\ 2 + 1 = 3
    BY <1>1, <1>5
  <2>3. Tail(SubSeq(q, 2, Len(q))) = SubSeq(q, 3, Len(q))
    BY <2>2, HeadTailOfSubSeq
  <2>4. Tail(q) = SubSeq(q, 2, Len(q))
    BY <2>1, TailIsSubSeq
  <2> QED  BY <2>2, <2>3, <2>4 DEF Dropped
<1> QED  BY <1>2, <1>3, <1>4, <1>5

LEMMA TailOfAppend ==
  ASSUME NEW q \in Seq(1..MaxPublish), NEW x \in 1..MaxPublish
  PROVE  /\ Append(q, x) # <<>>
         /\ q = <<>> => Tail(Append(q, x)) = <<>>
         /\ q # <<>> => Tail(Append(q, x)) = Append(Tail(q), x)
<1> DEFINE a == Append(q, x)
<1>1. /\ a \in Seq(1..MaxPublish) /\ Len(a) = Len(q) + 1 /\ Len(q) \in Nat
      /\ \A i \in 1..Len(q) : a[i] = q[i]
      /\ a[Len(q) + 1] = x
  BY AppendProperties, LenProperties
<1> HIDE DEF a
<1>2. a # <<>>
  BY <1>1, EmptySeq
<1>3. /\ Tail(a) \in Seq(1..MaxPublish) /\ Len(Tail(a)) = Len(q)
      /\ \A i \in 1..Len(q) : Tail(a)[i] = a[i + 1]
  <2>1. /\ Tail(a) \in Seq(1..MaxPublish) /\ Len(Tail(a)) = Len(a) - 1
        /\ \A i \in 1..Len(Tail(a)) : Tail(a)[i] = a[i + 1]
    BY <1>1, <1>2, HeadTailProperties
  <2> QED  BY <1>1, <2>1
<1>4. ASSUME q = <<>> PROVE Tail(a) = <<>>
  <2>1. Len(Tail(a)) = 0
    BY <1>3, <1>4, EmptySeq
  <2> QED  BY <1>3, <2>1, EmptySeq
<1>5. ASSUME q # <<>> PROVE Tail(a) = Append(Tail(q), x)
  <2>1. /\ Tail(q) \in Seq(1..MaxPublish) /\ Len(Tail(q)) = Len(q) - 1
        /\ \A i \in 1..Len(Tail(q)) : Tail(q)[i] = q[i + 1]
    BY <1>5, HeadTailProperties
  <2>2. Len(q) > 0
    BY <1>1, <1>5, EmptySeq
  <2>3. PICK t : t = Tail(q)
    OBVIOUS
  <2>4. /\ Append(t, x) \in Seq(1..MaxPublish) /\ Len(Append(t, x)) = Len(q)
        /\ \A i \in 1..(Len(q) - 1) : Append(t, x)[i] = q[i + 1]
        /\ Append(t, x)[Len(q)] = x
    <3>1. /\ Append(t, x) \in Seq(1..MaxPublish) /\ Len(Append(t, x)) = Len(t) + 1
          /\ \A i \in 1..Len(t) : Append(t, x)[i] = t[i]
          /\ Append(t, x)[Len(t) + 1] = x
      BY <2>1, <2>3, AppendProperties
    <3> QED  BY <1>1, <2>1, <2>2, <2>3, <3>1
  <2>5. ASSUME NEW i \in 1..Len(q) PROVE Tail(a)[i] = Append(t, x)[i]
    <3>1. CASE i = Len(q)
      BY <1>1, <1>3, <2>4, <3>1
    <3>2. CASE i # Len(q)
      <4>1. i \in 1..(Len(q) - 1) /\ i + 1 \in 1..Len(q)
        BY <1>1, <3>2
      <4> QED  BY <1>1, <1>3, <2>4, <4>1
    <3> QED  BY <3>1, <3>2
  <2> QED  BY <1>3, <2>3, <2>4, <2>5, SeqEqual
<1> QED  BY <1>2, <1>4, <1>5 DEF a

(* One request or none is answered, then a new one may come.               *)
LEMMA Slides ==
  ASSUME IInv, published + 1 \in 1..MaxPublish \/ ~PublishRequest,
         NEW r, r = Room(requests), NEW x, x = published + 1,
         \/ Taken(requests)
         \/ requests' = <<>>
         \/ PublishRequest /\ published' = x /\ (requests' = r \/ Taken(Append(r, x)))
  PROVE  \E k \in 0..Len(requests) :
           LET kept == SubSeq(requests, k + 1, Len(requests))
           IN requests' = kept \/ requests' = Append(kept, published')
<1>1. requests \in Seq(1..MaxPublish) /\ Len(requests) \in Nat
  BY LenProperties DEF IInv, TypeOK
<1>2. SUFFICES \E k \in 0..Len(requests) :
                 \/ requests' = Dropped(requests, k)
                 \/ requests' = Append(Dropped(requests, k), published')
  BY DEF Dropped
<1>3. /\ 0 \in 0..Len(requests) /\ Len(requests) \in 0..Len(requests)
      /\ requests # <<>> => 1 \in 0..Len(requests)
      /\ Len(requests) >= 2 => 2 \in 0..Len(requests)
  BY <1>1, EmptySeq
<1>4. CASE requests' = requests
  BY <1>1, <1>3, <1>4, DroppedOK
<1>5. CASE requests # <<>> /\ requests' = Tail(requests)
  BY <1>1, <1>3, <1>5, DroppedOK
<1>6. CASE requests' = <<>>
  BY <1>1, <1>3, <1>6, DroppedOK
<1>7. CASE PublishRequest /\ published' = x /\ (requests' = r \/ Taken(Append(r, x)))
  <2>1. x \in 1..MaxPublish
    BY <1>7
  <2>2. r = requests \/ (requests # <<>> /\ r = Tail(requests))
    BY <1>1, EmptySeq, BoundsAssumption DEF Room
  <2>3. r \in Seq(1..MaxPublish)
    BY <1>1, <2>2, HeadTailProperties
  <2>4. r = Dropped(requests, 0) \/ (requests # <<>> /\ r = Dropped(requests, 1))
    BY <1>1, <2>2, DroppedOK
  <2>5. CASE requests' = r \/ requests' = Append(r, x)
    BY <1>3, <1>7, <2>4, <2>5
  <2>6. CASE requests' = Tail(Append(r, x)) /\ r = <<>>
    BY <1>6, <2>1, <2>3, <2>6, TailOfAppend
  <2>7. CASE requests' = Tail(Append(r, x)) /\ r # <<>>
    <3>1. requests' = Append(Tail(r), x)
      BY <2>1, <2>3, <2>7, TailOfAppend
    <3>2. CASE r = requests
      <4>1. Tail(r) = Dropped(requests, 1)
        BY <1>1, <2>7, <3>2, DroppedOK
      <4> QED  BY <1>3, <1>7, <2>7, <3>1, <3>2, <4>1
    <3>3. CASE requests # <<>> /\ r = Tail(requests)
      <4>1. Len(requests) >= 2
        <5>1. Len(r) = Len(requests) - 1 /\ Len(r) \in Nat /\ Len(r) # 0
          BY <1>1, <2>3, <2>7, <3>3, HeadTailProperties, LenProperties, EmptySeq
        <5> QED  BY <1>1, <5>1
      <4>2. Tail(r) = Dropped(requests, 2)
        BY <1>1, <3>3, <4>1, DroppedOK
      <4> QED  BY <1>3, <1>7, <3>1, <4>1, <4>2
    <3> QED  BY <2>2, <3>2, <3>3
  <2> QED  BY <1>7, <2>5, <2>6, <2>7 DEF Taken
<1> QED  BY <1>4, <1>5, <1>6, <1>7 DEF Taken

(* Publish requests are answered from the oldest on and none twice, also   *)
(* when a cycle takes one and does not use it, when the limit pushes out   *)
(* the oldest, and when a request is taken by the late subscription it     *)
(* wakes.                                                                  *)
THEOREM InOrder == Spec => OldestFirst
<1> DEFINE Step == \E k \in 0..Len(requests) :
                     LET kept == SubSeq(requests, k + 1, Len(requests))
                     IN requests' = kept \/ requests' = Append(kept, published')
<1>1. IInv /\ [Next]_vars => [Step]_vars
  <2> SUFFICES ASSUME IInv, Next PROVE Step
    OBVIOUS
  <2>1. PICK r : r = Room(requests)
    OBVIOUS
  <2>2. PICK x : x = published + 1
    OBVIOUS
  <2>3. published + 1 \in 1..MaxPublish \/ ~PublishRequest
    BY BoundsAssumption DEF IInv, TypeOK, PublishRequest
  <2>4. \/ Taken(requests)
        \/ requests' = <<>>
        \/ PublishRequest /\ published' = x /\ (requests' = r \/ Taken(Append(r, x)))
    <3>1. ASSUME NEW s \in Subs, PublishCallback(s) PROVE Taken(requests)
      BY <3>1, PublishCallbackOK
    <3>2. CASE PublishAgain
      BY <3>2, PublishAgainOK
    <3>3. ASSUME NEW s \in Subs, DeleteSubscription(s) PROVE Taken(requests) \/ requests' = <<>>
      BY <3>3 DEF DeleteSubscription, Taken
    <3>4. CASE PublishRequest
      <4>1. published' = x /\ published < MaxPublish /\ published' = published + 1
            /\ UNCHANGED <<session, lastId, freedUsed>>
        BY <2>2, <3>4 DEF PublishRequest
      <4>2. CASE Refused
        BY <2>1, <3>4, <4>1, <4>2 DEF Refused
      <4>3. ASSUME NEW acks \in {{}} \cup {{a} : a \in Acks}, Queued(acks)
            PROVE  Taken(Append(r, x))
        BY <2>1, <2>2, <4>3 DEF Queued, Taken
      <4>4. ASSUME NEW acks \in {{}} \cup {{a} : a \in Acks}, AnswersLate(acks)
            PROVE  Taken(Append(r, x))
        BY <2>1, <2>2, <4>1, <4>4, AnswersLateOK
      <4> QED  BY <3>4, <4>1, <4>2, <4>3, <4>4 DEF PublishRequest
    <3>5. ASSUME NEW s \in Subs,
                 \/ CallbackOnFreed(s) \/ Sample(s) \/ ModifySubscription(s)
                 \/ SetPublishingMode(s) \/ StopMonitoring(s)
                 \/ \E n \in 1..MaxNotes : Republish(s, n)
          PROVE  Taken(requests)
      BY <3>5 DEF CallbackOnFreed, Sample, ModifySubscription,
         SetPublishingMode, StopMonitoring, Republish, Taken
    <3>6. CASE (\E e \in BOOLEAN : CreateSubscription(e)) \/ Detach
      BY <3>6 DEF CreateSubscription, Detach, Taken
    <3>7. CASE SessionEnds
      BY <3>7 DEF SessionEnds
    <3> QED  BY <3>1, <3>2, <3>3, <3>4, <3>5, <3>6, <3>7 DEF Next, Services
  <2> QED  BY <2>1, <2>2, <2>3, <2>4, Slides
<1> QED  BY <1>1, Invariance, PTL DEF Spec, OldestFirst
-----------------------------------------------------------------------------
(* The lifetime of a subscription whose client is gone.                    *)

LEMMA LeftOK ==
  ASSUME IInv, NEW s \in Subs
  PROVE  /\ sub[s] \in SubState /\ sub[s].life \in 0..LifeTime
         /\ Left(s) \in Nat /\ (s \in listed => Left(s) > 0)
<1>1. sub[s] \in SubState
  BY DEF IInv, TypeOK
<1>2. sub[s].life \in 0..LifeTime
  BY <1>1 DEF SubState
<1> QED  BY <1>1, <1>2, BoundsAssumption DEF Left

LEMMA CycleOfAbandoned ==
  ASSUME IInv, NEW s \in Subs, Abandoned(s), NEW t \in listed,
         NEW all \in [Subs -> SubState],
         \A u \in Subs : SubOK(all[u]) /\ all[u].late = sub[u].late /\ all[u].life = sub[u].life,
         Publish(t, all, requests)
  PROVE  /\ Left(s)' <= Left(s)
         /\ t = s => Left(s)' < Left(s) \/ s \in stuck'
<1>1. /\ session = "detached" /\ requests = <<>> /\ s \in listed /\ s \notin stuck
      /\ t \in Subs /\ SubOK(all[t]) /\ TypeOK /\ \A u \in Subs : SubOK(sub[u])
  BY BoundsAssumption DEF Abandoned, IInv, TypeOK, Subs, SubsSound
<1>2. /\ sub[s] \in SubState /\ sub[s].life \in 0..LifeTime
      /\ Left(s) = LifeTime + 1 - sub[s].life /\ Left(s) \in Nat /\ Left(s) > 0
  BY <1>1, LeftOK DEF Left
<1>3. PICK v : v = Counted(all[t], requests)
  OBVIOUS
<1>4. /\ v.life = sub[t].life + 1
      /\ v.life <= LifeTime => SubOK(v)
  BY <1>1, <1>3, CountedOK
<1>5. \/ v.life > LifeTime /\ Deleted(t)
      \/ /\ v.life <= LifeTime
         /\ Leaves(t, all, v, requests) \/ Sends(t, all, v, requests)
         /\ UNCHANGED <<listed, timer, stuck>>
  BY <1>3 DEF Publish
<1>6. CASE Deleted(t)
  <2>1. /\ \A u \in Subs \ {t} : sub'[u] = sub[u]
        /\ listed' \subseteq listed
        /\ t \in stuck' \/ t \notin listed'
    BY <1>1, <1>6, DeletedOK
  <2>2. CASE t = s
    <3>1. CASE s \notin listed'
      BY <1>2, <3>1 DEF Left
    <3>2. CASE s \in listed'
      <4>1. sub' = [sub EXCEPT ![s].queue = 0, ![s].retr = {}]
        BY <1>1, <1>6, <2>2, <3>2 DEF Deleted
      <4>2. sub'[s].life = sub[s].life
        BY <1>2, <4>1 DEF IInv, TypeOK, SubState
      <4> QED  BY <1>2, <2>1, <2>2, <3>2, <4>2 DEF Left
    <3> QED  BY <3>1, <3>2
  <2>3. CASE t # s
    <3>1. sub'[s] = sub[s]
      BY <2>1, <2>3
    <3> QED  BY <1>2, <2>3, <3>1 DEF Left
  <2> QED  BY <2>2, <2>3
<1>7. CASE /\ v.life <= LifeTime
           /\ Leaves(t, all, v, requests) \/ Sends(t, all, v, requests)
           /\ UNCHANGED <<listed, timer, stuck>>
  <2>1. v \in SubState
    BY <1>4, <1>7 DEF SubOK
  <2>2. ~Sends(t, all, v, requests)
    BY <1>1 DEF Sends, Clear, Blocked
  <2>3. sub' = [all EXCEPT ![t] = v] \/ sub' = [all EXCEPT ![t] = [v EXCEPT !.late = TRUE]]
    BY <1>7, <2>2 DEF Leaves
  <2>4. sub'[t].life = v.life /\ (s # t => sub'[s].life = sub[s].life)
    BY <1>1, <2>1, <2>3 DEF SubState
  <2>5. Left(s)' = LifeTime + 1 - sub'[s].life
    BY <1>1, <1>7 DEF Left
  <2> QED  BY <1>2, <1>4, <2>4, <2>5, BoundsAssumption
<1> QED  BY <1>5, <1>6, <1>7

(* A client that is gone and left no request: each cycle of one of its     *)
(* subscriptions uses up its lifetime, with and without notifications, and *)
(* no other step gives any of it back. So the subscription ends after      *)
(* LifeTime + 1 cycles at most.                                            *)
THEOREM AbandonedEnds == Spec => LifetimeRuns
<1> DEFINE Step == \A s \in Subs : Abandoned(s) =>
                     IF PublishCallback(s) THEN Left(s)' < Left(s) \/ s \in stuck'
                                           ELSE Left(s)' <= Left(s)
<1>1. IInv /\ [Next]_vars => [Step]_vars
  <2> SUFFICES ASSUME IInv, Next, NEW s \in Subs, Abandoned(s)
               PROVE  IF PublishCallback(s) THEN Left(s)' < Left(s) \/ s \in stuck'
                                            ELSE Left(s)' <= Left(s)
    OBVIOUS
  <2>1. /\ session = "detached" /\ s \in listed /\ sub[s] \in SubState
        /\ sub[s].life \in 0..LifeTime /\ Left(s) \in Nat /\ Left(s) > 0
        /\ sub \in [Subs -> SubState] /\ \A u \in Subs : SubOK(sub[u])
    BY LeftOK DEF Abandoned, IInv, TypeOK, SubsSound
  <2>2. ASSUME NEW t \in Subs, PublishCallback(t)
        PROVE  Left(s)' <= Left(s) /\ (t = s => Left(s)' < Left(s) \/ s \in stuck')
    <3>1. PICK all : all = [sub EXCEPT ![t].ready = sub[t].queue]
      OBVIOUS
    <3>2. all \in [Subs -> SubState]
      BY <2>1, <3>1 DEF SubState
    <3>3. \A u \in Subs : /\ all[u].queue = sub[u].queue /\ all[u].seq = sub[u].seq
                          /\ all[u].retr = sub[u].retr /\ all[u].late = sub[u].late
                          /\ all[u].life = sub[u].life
      BY <2>1, <3>1 DEF SubState
    <3>4. \A u \in Subs : SubOK(all[u]) /\ all[u].late = sub[u].late /\ all[u].life = sub[u].life
      BY <2>1, <3>2, <3>3 DEF SubOK
    <3>5. t \in listed /\ Publish(t, all, requests)
      BY <2>2, <3>1 DEF PublishCallback
    <3> QED  BY <3>2, <3>4, <3>5, CycleOfAbandoned
  <2>3. ASSUME PublishAgain PROVE Left(s)' <= Left(s)
    <3>1. PICK all : all = sub
      OBVIOUS
    <3>2. PICK t : t = again
      OBVIOUS
    <3>3. t \in listed /\ Publish(t, all, requests)
      BY <2>3, <3>1, <3>2 DEF PublishAgain, IInv, TypeOK
    <3>4. all \in [Subs -> SubState] /\ \A u \in Subs : SubOK(all[u]) /\ all[u].late = sub[u].late
                                                      /\ all[u].life = sub[u].life
      BY <2>1, <3>1
    <3> QED  BY <3>3, <3>4, CycleOfAbandoned
  <2>4. ASSUME NEW t \in Subs, CallbackOnFreed(t) PROVE Left(s)' <= Left(s)
    BY <2>1, <2>4 DEF CallbackOnFreed, Left
  <2>5. ASSUME NEW t \in Subs, Sample(t) PROVE Left(s)' <= Left(s)
    <3>1. sub'[s].life = sub[s].life /\ listed' = listed
      BY <2>1, <2>5 DEF Sample, SubState
    <3> QED  BY <2>1, <3>1 DEF Left
  <2>6. ~Services /\ ~Detach
    BY <2>1 DEF Services, CreateSubscription, ModifySubscription, SetPublishingMode,
       StopMonitoring, DeleteSubscription, Republish, PublishRequest, Called, Detach
  <2>7. CASE SessionEnds
    BY <2>1, <2>7 DEF SessionEnds, Left
  <2>8. Left(s)' <= Left(s)
    BY <2>2, <2>3, <2>4, <2>5, <2>6, <2>7 DEF Next
  <2> QED  BY <2>2, <2>8
<1> QED  BY <1>1, Invariance, PTL DEF Spec, LifetimeRuns
=============================================================================
