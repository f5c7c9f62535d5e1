----------------------------- MODULE Stack_proofs -----------------------------
(***************************************************************************)
(* Proofs about the three parts of the stack below client and server, for  *)
(* all values of their constants. They share no variable; each theorem is  *)
(* about the specification of one of them.                                 *)
(*                                                                         *)
(* ClientClock: nothing is given up before its timeout, and a renewal that *)
(* lies behind the end of the clock never comes. The first needs what is   *)
(* left of a wait: the clock is behind maxDate by at least the ticks the   *)
(* wait still has to last, and going back to 0 only puts it further behind *)
(* (Behind).                                                               *)
(*                                                                         *)
(* UaTimer: the list stays sorted wherever entries are put. What runs was  *)
(* due when the process began (DueNow), what is still to come was agreed   *)
(* for no earlier unless the clock has gone back since (InTime), and an    *)
(* entry is drawn forward by less than a second (Grouped). A callback has  *)
(* one entry (OnePlace), and one whose removal is to be carried out loses  *)
(* it in the pass under way (GoneAhead).                                   *)
(*                                                                         *)
(* ChunkAssembly: what the receiver should have made of the chunks sent is *)
(* written down as they are sent (log). The receiver is always at a place  *)
(* of the log, with what the log says delivered and held, and the units on *)
(* their way follow it (Unbroken); or it has lost some, and as long as the *)
(* numbers cannot have come round it accepts none that follow (Gap).       *)
(***************************************************************************)
EXTENDS ClientClock, UaTimer, ChunkAssembly, SequenceTheorems, WellFoundedInduction, TLAPS

-----------------------------------------------------------------------------
(* The client's clock.                                                     *)

Behind == pc \in Waiting => waited = T \/ now + (T - waited) <= maxDate

(* Once a channel has been opened its renewal is never nearer than this.   *)
Opening == pc \in {"idle", "call"} => renewal >= RenewAfter(lifetime)

IInv == TypeOK /\ Behind /\ Opening

-----------------------------------------------------------------------------
LEMMA DivIsNat == ASSUME NEW n \in Nat, NEW d \in Nat \ {0} PROVE n \div d \in Nat
  OBVIOUS

LEMMA TicksIsNat == ASSUME NEW ms \in Nat PROVE Ticks(ms) \in Nat
<1>1. K \in Nat \ {0} /\ ms + K - 1 \in Nat
  BY ClockAssumption
<1> QED
  BY <1>1, DivIsNat DEF Ticks

LEMMA RenewAfterIsNat == ASSUME NEW ms \in Nat PROVE RenewAfter(ms) \in Nat
<1>1. 3 * ms \in Nat
  OBVIOUS
<1> QED
  BY <1>1, DivIsNat DEF RenewAfter

LEMMA InitIInv == Init => IInv
  BY ClockAssumption DEF Init, IInv, TypeOK, Behind, Opening, Waiting, Connecting, Receiving

(* A new wait has all of its time before it.                               *)
LEMMA WaitIInv ==
  ASSUME TypeOK, NEW where \in Waiting, Wait(where),
         where = "call" => renewal >= RenewAfter(lifetime)
  PROVE  IInv'
<1>1. Ticks(T) \in Nat
  BY ClockAssumption, TicksIsNat
<1> QED
  BY <1>1, ClockAssumption
     DEF Wait, IInv, TypeOK, Behind, Opening, Waiting, Connecting, Receiving

(* Blocking again changes neither the clock nor the end of the wait.       *)
LEMMA GoOnIInv ==
  ASSUME IInv, pc \in Waiting, NEW where \in Waiting, GoOn(where),
         where = "call" => pc = "call"
  PROVE  IInv'
<1>1. maxDate - now \in Nat
  BY DEF GoOn, IInv, TypeOK
<1>2. Ticks(maxDate - now) \in Nat
  BY <1>1, TicksIsNat
<1> QED
  BY <1>2 DEF GoOn, IInv, TypeOK, Behind, Opening, Waiting, Connecting, Receiving

LEMMA NextIInv == IInv /\ [Next]_vars => IInv'
<1> SUFFICES ASSUME IInv, [Next]_vars PROVE IInv'
  OBVIOUS
<1> USE DEF Waiting, Connecting, Receiving
<1>1. CASE Connect
  BY <1>1, WaitIInv DEF Connect, IInv
<1>2. CASE Call
  BY <1>2, WaitIInv DEF Call, IInv, Opening
<1>3. CASE Renew
  BY <1>3, WaitIInv DEF Renew, IInv
<1>4. CASE TryAgain
  BY <1>4, GoOnIInv DEF TryAgain
<1>5. CASE Again
  BY <1>5, GoOnIInv DEF Again
<1>6. CASE GivesUp
  BY <1>6 DEF GivesUp, Return, IInv, TypeOK, Behind, Opening
<1>7. CASE Refused
  BY <1>7, ClockAssumption DEF Refused, IInv, TypeOK, Behind, Opening
<1>8. CASE ConnectError
  BY <1>8 DEF ConnectError, Return, IInv, TypeOK, Behind, Opening
<1>9. CASE Connected
  BY <1>9, WaitIInv DEF Connected, IInv
<1>10. CASE Opened
  <2>1. lifetime' \in Lifetimes /\ lifetime' \in Nat
    BY <1>10, ClockAssumption DEF Opened
  <2>2. RenewAfter(lifetime') \in Nat
    BY <2>1, RenewAfterIsNat
  <2>3. renewal' \in Nat /\ renewal' >= RenewAfter(lifetime')
    BY <1>10, <2>2, ClockAssumption DEF Opened, IInv, TypeOK
  <2> QED
    BY <1>10, <2>1, <2>3, ClockAssumption DEF Opened, IInv, TypeOK, Behind, Opening
<1>11. CASE Answered
  BY <1>11, ClockAssumption DEF Answered, Return, IInv, TypeOK, Behind, Opening
<1>12. CASE Lost
  BY <1>12 DEF Lost, Return, IInv, TypeOK, Behind, Opening
<1>13. CASE Tick
  <2>1. /\ now' \in 0 .. W - 1 /\ now' <= now + 1
        /\ left' \in Nat /\ waited' \in 0 .. T
        /\ waited' = T \/ waited' = waited + 1
    BY <1>13, ClockAssumption DEF Tick, Capped, IInv, TypeOK
  <2> QED
    BY <1>13, <2>1, ClockAssumption DEF Tick, IInv, TypeOK, Behind, Opening
<1>14. CASE UNCHANGED vars
  BY <1>14 DEF vars, IInv, TypeOK, Behind, Opening
<1> QED
  BY <1>1, <1>2, <1>3, <1>4, <1>5, <1>6, <1>7, <1>8, <1>9, <1>10, <1>11, <1>12,
     <1>13, <1>14 DEF Next, Library, World

(* What the theorems below rest on: the types, and how far behind maxDate  *)
(* the clock is while a call waits.                                        *)
THEOREM Invariance == Spec => []IInv
  BY InitIInv, NextIInv, PTL DEF Spec

-----------------------------------------------------------------------------
(* Every variable keeps its type: the clock stays inside its width, and no *)
(* wait is set beyond the end of the clock by more than the timeout.       *)
THEOREM TypeCorrect == Spec => []TypeOK
<1>1. IInv => TypeOK
  BY DEF IInv
<1> QED
  BY <1>1, Invariance, PTL

(* No call, renewal or connect is given up before its timeout has passed,  *)
(* whatever the width of the clock and wherever in its period the wait     *)
(* began.                                                                  *)
THEOREM NotEarly == Spec => NeverEarly
<1>1. IInv /\ [Next]_vars => [GivesUp => waited = T]_vars
  <2> SUFFICES ASSUME IInv, GivesUp PROVE waited = T
    OBVIOUS
  <2> QED
    BY ClockAssumption DEF GivesUp, IInv, TypeOK, Behind
<1> QED
  BY <1>1, Invariance, PTL DEF Spec, NeverEarly

(* A token that lives for four thirds of the clock's period, or longer, is *)
(* never renewed: at 2^16 this is every lifetime from 87.4 s on.           *)
THEOREM NoRenewal == Spec => NeverRenews
<1>1. IInv /\ [Next]_vars => [RenewAfter(lifetime) >= W => ~Renew]_vars
  <2> SUFFICES ASSUME IInv, RenewAfter(lifetime) >= W, Renew PROVE FALSE
    OBVIOUS
  <2>1. renewal >= RenewAfter(lifetime) /\ now < W /\ renewal <= now
    BY ClockAssumption DEF Renew, MustRenew, IInv, TypeOK, Opening
  <2>2. RenewAfter(lifetime) \in Nat
    BY RenewAfterIsNat, ClockAssumption DEF IInv, TypeOK
  <2> QED
    BY <2>1, <2>2, ClockAssumption DEF IInv, TypeOK
<1> QED
  BY <1>1, Invariance, PTL DEF Spec, NeverRenews

-----------------------------------------------------------------------------
(* The server's timer.                                                     *)

LEMMA LeastOf ==
  ASSUME NEW S, S \subseteq Nat, S # {}
  PROVE  Min(S) \in S /\ \A y \in S : Min(S) <= y
<1>1. PICK t \in S : \A u \in S : <<u, t>> \notin OpToRel(<, Nat)
  BY WFMin, NatLessThanWellFounded, Zenon
<1>2. \A u \in S : ~ (u < t)
  BY <1>1, Zenon DEF OpToRel
<1>3. \A u \in S : t <= u
  BY <1>2
<1> QED  BY <1>3 DEF Min

LEMMA JoinIs ==
  ASSUME NEW S, NEW x \in Seq(S), NEW y \in Seq(S)
  PROVE  /\ x \o y \in Seq(S) /\ Len(x \o y) = Len(x) + Len(y)
         /\ \A k \in 1 .. Len(x) + Len(y) : (x \o y)[k] = IF k <= Len(x) THEN x[k] ELSE y[k - Len(x)]
BY ConcatProperties

(* m is l with e in the place p; m is l without its place p.               *)
Inserted(m, l, p, e) ==
  /\ Len(m) = Len(l) + 1
  /\ \A k \in 1 .. Len(l) + 1 : m[k] = IF k < p THEN l[k] ELSE IF k = p THEN e ELSE l[k - 1]
Removed(m, l, p) ==
  /\ Len(m) = Len(l) - 1
  /\ \A k \in 1 .. Len(l) - 1 : m[k] = IF k < p THEN l[k] ELSE l[k + 1]

LEMMA InsertAtIs ==
  ASSUME NEW S, NEW l \in Seq(S), NEW p \in 1 .. Len(l) + 1, NEW e \in S
  PROVE  InsertAt(l, p, e) \in Seq(S) /\ Inserted(InsertAt(l, p, e), l, p, e)
<1>1. /\ SubSeq(l, 1, p - 1) \in Seq(S) /\ Len(SubSeq(l, 1, p - 1)) = p - 1
      /\ \A k \in 1 .. p - 1 : SubSeq(l, 1, p - 1)[k] = l[k]
  BY SubSeqProperties
<1>2. /\ SubSeq(l, p, Len(l)) \in Seq(S) /\ Len(SubSeq(l, p, Len(l))) = Len(l) - p + 1
      /\ \A k \in 1 .. Len(l) - p + 1 : SubSeq(l, p, Len(l))[k] = l[p + k - 1]
  BY SubSeqProperties
<1> DEFINE a == SubSeq(l, 1, p - 1)
           b == SubSeq(l, p, Len(l))
<1>3. /\ a \o <<e>> \in Seq(S) /\ Len(a \o <<e>>) = p
      /\ \A k \in 1 .. p : (a \o <<e>>)[k] = IF k < p THEN l[k] ELSE e
  <2>1. p \in Nat /\ Len(<<e>>) = 1 /\ <<e>>[1] = e /\ <<e>> \in Seq(S)
    OBVIOUS
  <2> HIDE DEF a
  <2>2. a \in Seq(S) /\ Len(a) = p - 1 /\ \A k \in 1 .. p - 1 : a[k] = l[k]
    BY <1>1 DEF a
  <2>3. a \o <<e>> \in Seq(S) /\ Len(a \o <<e>>) = Len(a) + 1
    BY <2>1, <2>2
  <2>4. ASSUME NEW k \in 1 .. p
        PROVE  (a \o <<e>>)[k] = IF k < p THEN l[k] ELSE e
    BY <2>1, <2>2
  <2> QED
    BY <2>1, <2>2, <2>3, <2>4
<1> HIDE DEF a, b
<1>4. /\ (a \o <<e>>) \o b \in Seq(S) /\ Len((a \o <<e>>) \o b) = p + Len(b)
      /\ \A k \in 1 .. p + Len(b) :
           ((a \o <<e>>) \o b)[k] = IF k <= p THEN (a \o <<e>>)[k] ELSE b[k - p]
  <2> DEFINE d == a \o <<e>>
  <2>1. d \in Seq(S) /\ Len(d) = p
    BY <1>3
  <2>2. b \in Seq(S)
    BY <1>2 DEF b
  <2> HIDE DEF d
  <2>3. /\ d \o b \in Seq(S) /\ Len(d \o b) = p + Len(b)
        /\ \A k \in 1 .. p + Len(b) : (d \o b)[k] = IF k <= p THEN d[k] ELSE b[k - p]
    BY <2>1, <2>2, JoinIs
  <2> QED
    BY <2>3 DEF d
<1>5. InsertAt(l, p, e) = (a \o <<e>>) \o b
  BY DEF InsertAt, a, b
<1>6. \A k \in p + 1 .. Len(l) + 1 : b[k - p] = l[k - 1]
  <2> SUFFICES ASSUME NEW k \in p + 1 .. Len(l) + 1 PROVE b[k - p] = l[k - 1]
    OBVIOUS
  <2>1. k - p \in 1 .. Len(l) - p + 1 /\ p + (k - p) - 1 = k - 1
    OBVIOUS
  <2> QED  BY <2>1, <1>2 DEF b
<1>7. Len(b) = Len(l) - p + 1
  BY <1>2 DEF b
<1>8. ASSUME NEW k \in 1 .. Len(l) + 1
      PROVE  InsertAt(l, p, e)[k] = IF k < p THEN l[k] ELSE IF k = p THEN e ELSE l[k - 1]
  <2>1. CASE k <= p
    <3>1. k \in 1 .. p
      BY <2>1
    <3>2. k \in 1 .. p + Len(b)
      BY <3>1, <1>7
    <3>3. ((a \o <<e>>) \o b)[k] = (a \o <<e>>)[k]
      BY <2>1, <3>2, <1>4
    <3>4. (a \o <<e>>)[k] = IF k < p THEN l[k] ELSE e
      BY <3>1, <1>3
    <3>5. InsertAt(l, p, e)[k] = IF k < p THEN l[k] ELSE e
      BY <3>3, <3>4, <1>5, Zenon
    <3>6. ~(k < p) => k = p
      BY <2>1
    <3> QED  BY <3>5, <3>6, Zenon
  <2>2. CASE k > p
    <3>1. k \in p + 1 .. Len(l) + 1 /\ k \in 1 .. p + Len(b)
      BY <2>2, <1>7
    <3>2. ~(k <= p) /\ ~(k < p) /\ k # p
      BY <2>2
    <3>3. ((a \o <<e>>) \o b)[k] = b[k - p]
      BY <3>1, <3>2, <1>4, Zenon
    <3>4. b[k - p] = l[k - 1]
      BY <3>1, <1>6, Zenon
    <3> QED  BY <3>2, <3>3, <3>4, <1>5, Zenon
  <2> QED  BY <2>1, <2>2
<1>9. InsertAt(l, p, e) \in Seq(S) /\ Len(InsertAt(l, p, e)) = Len(l) + 1
  BY <1>4, <1>5, <1>7
<1> QED
  BY <1>8, <1>9 DEF Inserted

LEMMA RemoveAtIs ==
  ASSUME NEW S, NEW l \in Seq(S), NEW p \in 1 .. Len(l)
  PROVE  RemoveAt(l, p) \in Seq(S) /\ Removed(RemoveAt(l, p), l, p)
<1> DEFINE a == SubSeq(l, 1, p - 1)
           b == SubSeq(l, p + 1, Len(l))
<1>1. /\ a \in Seq(S) /\ Len(a) = p - 1
      /\ \A k \in 1 .. p - 1 : a[k] = l[k]
  BY SubSeqProperties
<1>2. /\ b \in Seq(S) /\ Len(b) = Len(l) - p
      /\ \A k \in 1 .. Len(l) - p : b[k] = l[p + 1 + k - 1]
  BY SubSeqProperties
<1>3. RemoveAt(l, p) = a \o b
  BY DEF RemoveAt, a, b
<1> HIDE DEF a, b
<1>4. /\ a \o b \in Seq(S) /\ Len(a \o b) = Len(l) - 1
      /\ \A k \in 1 .. Len(l) - 1 : (a \o b)[k] = IF k <= p - 1 THEN a[k] ELSE b[k - (p - 1)]
  <2>1. /\ a \o b \in Seq(S) /\ Len(a \o b) = Len(a) + Len(b)
        /\ \A k \in 1 .. Len(a) + Len(b) : (a \o b)[k] = IF k <= Len(a) THEN a[k] ELSE b[k - Len(a)]
    BY <1>1, <1>2, JoinIs
  <2>2. Len(a) + Len(b) = Len(l) - 1
    BY <1>1, <1>2
  <2> QED
    BY <2>1, <2>2, <1>1
<1>5. \A k \in p .. Len(l) - 1 : b[k - (p - 1)] = l[k + 1]
  <2> SUFFICES ASSUME NEW k \in p .. Len(l) - 1 PROVE b[k - (p - 1)] = l[k + 1]
    OBVIOUS
  <2>1. k - (p - 1) \in 1 .. Len(l) - p /\ p + 1 + (k - (p - 1)) - 1 = k + 1
    OBVIOUS
  <2> QED  BY <2>1, <1>2
<1> QED
  BY <1>1, <1>3, <1>4, <1>5 DEF Removed

LEMMA EntryIs ==
  ASSUME NEW l \in Seq(Entry)
  PROVE  /\ DOMAIN l = 1 .. Len(l) /\ Len(l) \in Nat
         /\ \A k \in 1 .. Len(l) : l[k] \in Entry /\ l[k].due \in Nat
<1>1. \A k \in 1 .. Len(l) : l[k] \in Entry
  OBVIOUS
<1> QED  BY <1>1 DEF Entry

(* A search that begins where all is due earlier ends in front of the      *)
(* first entry due at t or later.                                          *)
LEMMA SearchIs ==
  ASSUME NEW l \in Seq(Entry), NEW t \in Int, NEW from \in 0 .. Len(l)
  PROVE  /\ Search(l, t, from) \in from + 1 .. Len(l) + 1
         /\ \A k \in from + 1 .. Search(l, t, from) - 1 : l[k].due < t
         /\ Search(l, t, from) <= Len(l) => l[Search(l, t, from)].due >= t
<1>0. DOMAIN l = 1 .. Len(l) /\ \A k \in 1 .. Len(l) : l[k].due \in Nat
  BY EntryIs
<1>1. CASE Later(l, t, from) = {}
  <2>1. Search(l, t, from) = Len(l) + 1
    BY <1>1 DEF Search
  <2>2. \A k \in from + 1 .. Len(l) : ~ (l[k].due >= t)
    BY <1>1 DEF Later
  <2> QED  BY <2>1, <2>2, <1>0
<1>2. CASE Later(l, t, from) # {}
  <2>1. Later(l, t, from) \subseteq Nat
    BY DEF Later
  <2>2. /\ Search(l, t, from) \in Later(l, t, from)
        /\ \A k \in Later(l, t, from) : Search(l, t, from) <= k
    BY <1>2, <2>1, LeastOf DEF Search
  <2>3. Search(l, t, from) \in from + 1 .. Len(l) /\ l[Search(l, t, from)].due >= t
    BY <2>2 DEF Later
  <2>4. ASSUME NEW k \in from + 1 .. Search(l, t, from) - 1 PROVE l[k].due < t
    <3>1. k \in DOMAIN l /\ k > from /\ k \notin Later(l, t, from)
      BY <2>2, <2>3
    <3> QED  BY <3>1, <1>0 DEF Later
  <2> QED  BY <2>3, <2>4
<1> QED  BY <1>1, <1>2

-----------------------------------------------------------------------------
Ordered(l) == \A j, k \in DOMAIN l : j <= k => l[j].due <= l[k].due
Distinct(l) == \A j, k \in DOMAIN l : l[j].id = l[k].id => j = k

(* Inserting at a place that fits keeps the order.                         *)
LEMMA InsertAtFits ==
  ASSUME NEW l \in Seq(Entry), Ordered(l), NEW p \in 1 .. Len(l) + 1, NEW e \in Entry,
         \A k \in 1 .. p - 1 : l[k].due <= e.due,
         p <= Len(l) => e.due <= l[p].due
  PROVE  Ordered(InsertAt(l, p, e))
<1> DEFINE m == InsertAt(l, p, e)
<1>a. m \in Seq(Entry) /\ Inserted(m, l, p, e)
  BY InsertAtIs
<1> HIDE DEF m
<1>1. /\ m \in Seq(Entry) /\ Len(m) = Len(l) + 1
      /\ \A k \in 1 .. Len(l) + 1 : m[k] = IF k < p THEN l[k] ELSE IF k = p THEN e ELSE l[k - 1]
  BY <1>a DEF Inserted
<1>0. e.due \in Nat /\ \A k \in 1 .. Len(l) : l[k].due \in Nat
  BY EntryIs DEF Entry
<1>2. \A k \in p .. Len(l) : e.due <= l[k].due
  <2> SUFFICES ASSUME NEW k \in p .. Len(l) PROVE e.due <= l[k].due
    OBVIOUS
  <2>1. p \in 1 .. Len(l) /\ k \in 1 .. Len(l) /\ p <= k
    OBVIOUS
  <2>2. l[p].due <= l[k].due
    BY <2>1 DEF Ordered
  <2> QED  BY <1>0, <2>1, <2>2
<1>3. ASSUME NEW j \in 1 .. Len(l) + 1, NEW k \in 1 .. Len(l) + 1, j <= k
      PROVE  m[j].due <= m[k].due
  <2>1. CASE k < p
    BY <2>1, <1>1, <1>3 DEF Ordered
  <2>2. CASE j < p /\ k = p
    BY <2>2, <1>1
  <2>3. CASE j < p /\ k > p
    <3>1. j \in 1 .. Len(l) /\ k - 1 \in 1 .. Len(l) /\ j <= k - 1
      BY <2>3
    <3>2. l[j].due <= l[k - 1].due
      BY <3>1 DEF Ordered
    <3> QED  BY <2>3, <3>2, <1>1
  <2>4. CASE j = p /\ k = p
    BY <2>4, <1>1, <1>0
  <2>5. CASE j = p /\ k > p
    <3>1. k - 1 \in p .. Len(l)
      BY <2>5
    <3>2. e.due <= l[k - 1].due
      BY <3>1, <1>2
    <3>3. m[j] = e /\ m[k] = l[k - 1]
      BY <2>5, <1>1
    <3> QED  BY <3>2, <3>3
  <2>6. CASE j > p
    <3>1. j - 1 \in 1 .. Len(l) /\ k - 1 \in 1 .. Len(l) /\ j - 1 <= k - 1
      BY <2>6, <1>3
    <3>2. l[j - 1].due <= l[k - 1].due
      BY <3>1 DEF Ordered
    <3> QED  BY <2>6, <1>3, <3>2, <1>1
  <2> QED  BY <1>3, <2>1, <2>2, <2>3, <2>4, <2>5, <2>6
<1> QED  BY <1>1, <1>3 DEF Ordered, m

(* A new entry takes a place that fits and is due at most a second early.  *)
LEMMA InsertIs ==
  ASSUME NEW l \in Seq(Entry), Ordered(l), NEW e \in Entry
  PROVE  \E p \in 1 .. Len(l) + 1, d \in Nat :
           /\ d <= e.due /\ e.due - d < Second
           /\ [e EXCEPT !.due = d] \in Entry
           /\ Insert(l, e) = InsertAt(l, p, [e EXCEPT !.due = d])
           /\ Ordered(Insert(l, e))
<1> DEFINE s == Search(l, e.due, 0)
<1>0. e.due \in Nat /\ \A k \in 1 .. Len(l) : l[k] \in Entry /\ l[k].due \in Nat
  BY EntryIs DEF Entry
<1>1. /\ s \in 1 .. Len(l) + 1
      /\ \A k \in 1 .. s - 1 : l[k].due < e.due
      /\ s <= Len(l) => l[s].due >= e.due
  <2>1. e.due \in Int /\ 0 \in 0 .. Len(l)
    BY <1>0
  <2> QED  BY <2>1, SearchIs
<1>2. \A d \in Nat : [e EXCEPT !.due = d] \in Entry
  BY DEF Entry
<1>3. CASE Block(l, e) = {}
  <2>1. e = [e EXCEPT !.due = e.due]
    BY DEF Entry
  <2>2. Insert(l, e) = InsertAt(l, s, e)
    BY <1>3 DEF Insert
  <2>3. Ordered(InsertAt(l, s, e))
    <3>1. \A k \in 1 .. s - 1 : l[k].due <= e.due
      BY <1>0, <1>1
    <3>2. s <= Len(l) => e.due <= l[s].due
      BY <1>0, <1>1
    <3> HIDE DEF s
    <3> QED  BY <1>1, <3>1, <3>2, InsertAtFits
  <2>4. e.due <= e.due /\ e.due - e.due < Second
    BY <1>0, TimerAssumption
  <2> QED  BY <1>0, <1>1, <1>2, <2>1, <2>2, <2>3, <2>4
<1>4. CASE Block(l, e) # {}
  <2> DEFINE q == Min(Block(l, e))
             d == l[q].due
             f == [e EXCEPT !.due = d]
  <2>1. Block(l, e) \subseteq 1 .. s - 1
    BY DEF Block, Earlier
  <2>2. q \in Block(l, e)
    BY <1>1, <1>4, <2>1, LeastOf
  <2>3. q \in 1 .. s - 1 /\ q \in 1 .. Len(l) /\ q + 1 \in 1 .. Len(l) + 1
    BY <1>1, <2>1, <2>2
  <2>4. d \in Nat /\ d > e.due - Second /\ d < e.due
    BY <1>0, <1>1, <2>2, <2>3 DEF Block
  <2>5. f \in Entry /\ f.due = d
    BY <2>4, <1>2 DEF Entry
  <2>6. Insert(l, e) = InsertAt(l, q + 1, f)
    BY <1>4 DEF Insert
  <2> HIDE DEF f
  <2>7. \A k \in 1 .. (q + 1) - 1 : l[k].due <= f.due
    BY <2>3, <2>5 DEF Ordered
  <2>8. q + 1 <= Len(l) => f.due <= l[q + 1].due
    BY <2>3, <2>5 DEF Ordered
  <2>9. Ordered(InsertAt(l, q + 1, f))
    BY <2>3, <2>5, <2>7, <2>8, InsertAtFits
  <2>10. d <= e.due /\ e.due - d < Second
    BY <1>0, <2>4, TimerAssumption
  <2> QED  BY <2>3, <2>4, <2>5, <2>6, <2>9, <2>10 DEF f
<1> QED  BY <1>3, <1>4

LEMMA InsertAtKeeps ==
  ASSUME NEW l \in Seq(Entry), NEW p \in 1 .. Len(l) + 1, NEW e \in Entry,
         Distinct(l), \A x \in Elements(l) : x.id # e.id
  PROVE  /\ Distinct(InsertAt(l, p, e))
         /\ Elements(InsertAt(l, p, e)) \subseteq Elements(l) \cup {e}
<1> DEFINE m == InsertAt(l, p, e)
<1>a. m \in Seq(Entry) /\ Inserted(m, l, p, e)
  BY InsertAtIs
<1> HIDE DEF m
<1>1. /\ DOMAIN m = 1 .. Len(l) + 1
      /\ \A k \in 1 .. Len(l) + 1 : m[k] = IF k < p THEN l[k] ELSE IF k = p THEN e ELSE l[k - 1]
  BY <1>a, EntryIs DEF Inserted
<1>0. DOMAIN l = 1 .. Len(l) /\ Len(l) \in Nat
  BY EntryIs
<1>2. \A k \in 1 .. Len(l) : l[k] \in Elements(l) /\ l[k].id # e.id
  BY <1>0 DEF Elements
<1>3. ASSUME NEW k \in 1 .. Len(l) + 1
      PROVE  m[k] \in Elements(l) \cup {e}
  <2>1. CASE k < p
    <3>1. k \in 1 .. Len(l) /\ m[k] = l[k]
      BY <2>1, <1>1
    <3> QED  BY <3>1, <1>2
  <2>2. CASE k = p
    BY <2>2, <1>1
  <2>3. CASE k > p
    <3>1. k - 1 \in 1 .. Len(l) /\ m[k] = l[k - 1]
      BY <2>3, <1>1
    <3> QED  BY <3>1, <1>2
  <2> QED  BY <2>1, <2>2, <2>3
<1>4. ASSUME NEW j \in 1 .. Len(l) + 1, NEW k \in 1 .. Len(l) + 1, m[j].id = m[k].id, j < k
      PROVE  FALSE
  <2>1. CASE k < p
    <3>1. j \in 1 .. Len(l) /\ k \in 1 .. Len(l) /\ m[j] = l[j] /\ m[k] = l[k]
      BY <2>1, <1>1, <1>4
    <3> QED  BY <3>1, <1>0, <1>4 DEF Distinct
  <2>2. CASE k = p
    <3>1. j \in 1 .. Len(l) /\ m[j] = l[j] /\ m[k] = e
      BY <2>2, <1>1, <1>4
    <3> QED  BY <3>1, <1>2, <1>4
  <2>3. CASE k > p /\ j < p
    <3>1. j \in 1 .. Len(l) /\ k - 1 \in 1 .. Len(l) /\ m[j] = l[j] /\ m[k] = l[k - 1]
      BY <2>3, <1>1
    <3>2. j = k - 1
      BY <3>1, <1>0, <1>4 DEF Distinct
    <3> QED  BY <3>2, <2>3
  <2>4. CASE k > p /\ j = p
    <3>1. k - 1 \in 1 .. Len(l) /\ m[j] = e /\ m[k] = l[k - 1]
      BY <2>4, <1>1
    <3> QED  BY <3>1, <1>2, <1>4
  <2>5. CASE k > p /\ j > p
    <3>1. j - 1 \in 1 .. Len(l) /\ k - 1 \in 1 .. Len(l) /\ m[j] = l[j - 1] /\ m[k] = l[k - 1]
      BY <2>5, <1>1
    <3>2. j - 1 = k - 1
      BY <3>1, <1>0, <1>4 DEF Distinct
    <3> QED  BY <3>2, <1>4
  <2> QED  BY <2>1, <2>2, <2>3, <2>4, <2>5, <1>4
<1>5. Distinct(m)
  <2> SUFFICES ASSUME NEW j \in 1 .. Len(l) + 1, NEW k \in 1 .. Len(l) + 1, m[j].id = m[k].id
               PROVE  j = k
    BY <1>1 DEF Distinct
  <2>1. ~ (j < k) /\ ~ (k < j)
    BY <1>4
  <2> QED  BY <2>1
<1>6. Elements(m) \subseteq Elements(l) \cup {e}
  BY <1>1, <1>3 DEF Elements
<1> QED  BY <1>5, <1>6 DEF m

(* Taking a callback out leaves the others as they were.                   *)
LEMMA WithoutIs ==
  ASSUME NEW l \in Seq(Entry), Ordered(l), Distinct(l), NEW i
  PROVE  /\ Without(l, i) \in Seq(Entry)
         /\ Ordered(Without(l, i)) /\ Distinct(Without(l, i))
         /\ \A x \in Elements(Without(l, i)) : x \in Elements(l) /\ x.id # i
<1>0. /\ DOMAIN l = 1 .. Len(l) /\ Len(l) \in Nat
      /\ \A k \in 1 .. Len(l) : l[k] \in Entry /\ l[k].due \in Nat /\ l[k] \in Elements(l)
  BY EntryIs DEF Elements
<1>1. CASE Places(l, i) = {}
  <2>1. Without(l, i) = l
    BY <1>1 DEF Without
  <2>2. \A x \in Elements(l) : x.id # i
    BY <1>1 DEF Places, Elements
  <2> QED  BY <2>1, <2>2
<1>2. CASE Places(l, i) # {}
  <2> DEFINE p == Min(Places(l, i))
             m == RemoveAt(l, p)
  <2>1. p \in Places(l, i)
    <3>1. Places(l, i) \subseteq Nat
      BY <1>0 DEF Places
    <3> QED  BY <3>1, <1>2, LeastOf
  <2>2. p \in 1 .. Len(l) /\ l[p].id = i
    BY <2>1, <1>0 DEF Places
  <2> HIDE DEF p
  <2>3. Without(l, i) = m
    BY <1>2 DEF Without, p
  <2>4. m \in Seq(Entry) /\ Removed(m, l, p)
    BY <2>2, RemoveAtIs
  <2> HIDE DEF m
  <2>5. /\ DOMAIN m = 1 .. Len(l) - 1
        /\ \A k \in 1 .. Len(l) - 1 : m[k] = IF k < p THEN l[k] ELSE l[k + 1]
    BY <2>4, EntryIs DEF Removed
  <2> DEFINE at(k) == IF k < p THEN k ELSE k + 1
  <2>6. \A k \in 1 .. Len(l) - 1 : at(k) \in 1 .. Len(l) /\ at(k) # p /\ m[k] = l[at(k)]
    BY <2>2, <2>5, <1>0
  <2>7. \A j, k \in 1 .. Len(l) - 1 :
          (j <= k => at(j) <= at(k)) /\ (at(j) = at(k) => j = k)
    BY <2>2, <1>0
  <2> HIDE DEF at
  <2>8. Ordered(m)
    BY <2>5, <2>6, <2>7, <1>0 DEF Ordered
  <2>9. Distinct(m)
    BY <2>5, <2>6, <2>7, <1>0 DEF Distinct
  <2>10. ASSUME NEW k \in 1 .. Len(l) - 1 PROVE m[k] \in Elements(l) /\ m[k].id # i
    <3>1. at(k) \in 1 .. Len(l) /\ at(k) # p /\ m[k] = l[at(k)]
      BY <2>6
    <3>2. l[at(k)].id # l[p].id
      BY <3>1, <2>2, <1>0 DEF Distinct
    <3> QED  BY <3>1, <3>2, <2>2, <1>0
  <2>11. \A x \in Elements(m) : x \in Elements(l) /\ x.id # i
    BY <2>5, <2>10 DEF Elements
  <2> QED  BY <2>3, <2>4, <2>8, <2>9, <2>11
<1> QED  BY <1>1, <1>2

(* What a change makes of the list.                                        *)
Comes(x, c) ==
  /\ c.kind # "remove"
  /\ x.id = c.id /\ x.wanted = c.due
  /\ x.due <= c.due /\ c.due - x.due < Second

LEMMA ArrivesAs ==
  ASSUME NEW l \in Seq(Entry), Ordered(l), Distinct(l), NEW c \in Change, c.kind # "remove",
         \A x \in Elements(l) : x.id # c.id
  PROVE  LET m == Insert(l, NewEntry(c)) IN
         /\ m \in Seq(Entry) /\ Ordered(m) /\ Distinct(m)
         /\ \A x \in Elements(m) : x \in Elements(l) \/ Comes(x, c)
<1> DEFINE e == NewEntry(c)
<1>1. e \in Entry /\ e.id = c.id /\ e.due = c.due /\ e.wanted = c.due
  BY DEF NewEntry, Entry, Change
<1>2. e = [id |-> c.id, due |-> c.due, wanted |-> c.due, interval |-> c.interval]
  BY DEF NewEntry
<1> HIDE DEF e
<1>3. PICK p \in 1 .. Len(l) + 1, d \in Nat :
           /\ d <= e.due /\ e.due - d < Second
           /\ [e EXCEPT !.due = d] \in Entry
           /\ Insert(l, e) = InsertAt(l, p, [e EXCEPT !.due = d])
           /\ Ordered(Insert(l, e))
  BY <1>1, InsertIs
<1> DEFINE f == [e EXCEPT !.due = d]
<1>4. f \in Entry /\ f.id = c.id /\ f.wanted = c.due /\ f.due = d
  BY <1>1, <1>2, <1>3
<1>5. Comes(f, c)
  BY <1>1, <1>3, <1>4 DEF Comes
<1>6. Insert(l, e) = InsertAt(l, p, f)
  BY <1>3
<1> HIDE DEF f
<1>7. InsertAt(l, p, f) \in Seq(Entry)
  BY <1>4, InsertAtIs
<1>8. /\ Distinct(InsertAt(l, p, f))
      /\ Elements(InsertAt(l, p, f)) \subseteq Elements(l) \cup {f}
  BY <1>4, InsertAtKeeps
<1> QED  BY <1>3, <1>5, <1>6, <1>7, <1>8 DEF e

LEMMA CarryIs ==
  ASSUME NEW l \in Seq(Entry), Ordered(l), Distinct(l), NEW c \in Change,
         c.kind = "add" => \A x \in Elements(l) : x.id # c.id
  PROVE  LET m == Carry(l, c) IN
         /\ m \in Seq(Entry) /\ Ordered(m) /\ Distinct(m)
         /\ \A x \in Elements(m) : x \in Elements(l) \/ Comes(x, c)
         /\ c.kind # "add" => \A x \in Elements(m) : \E y \in Elements(l) : y.id = x.id
         /\ c.kind = "remove" => \A x \in Elements(m) : x.id # c.id
<1>0. c.kind \in {"add", "change", "remove"}
  BY DEF Change
<1>1. CASE c.kind = "add"
  <2>1. Carry(l, c) = Insert(l, NewEntry(c))
    BY <1>1 DEF Carry
  <2> QED  BY <1>1, <2>1, ArrivesAs
<1>2. CASE c.kind = "remove"
  <2>1. Carry(l, c) = Without(l, c.id)
    BY <1>2 DEF Carry
  <2> QED  BY <1>2, <2>1, WithoutIs
<1>3. CASE c.kind = "change"
  <2>1. CASE Places(l, c.id) = {}
    <3>1. Carry(l, c) = l
      BY <1>3, <2>1 DEF Carry
    <3> QED  BY <1>3, <3>1
  <2>2. CASE Places(l, c.id) # {}
    <3> DEFINE w == Without(l, c.id)
    <3>1. Carry(l, c) = Insert(w, NewEntry(c))
      BY <1>3, <2>2 DEF Carry
    <3>2. /\ w \in Seq(Entry) /\ Ordered(w) /\ Distinct(w)
          /\ \A x \in Elements(w) : x \in Elements(l) /\ x.id # c.id
      BY WithoutIs
    <3> HIDE DEF w
    <3> DEFINE m == Insert(w, NewEntry(c))
    <3>3. /\ m \in Seq(Entry) /\ Ordered(m) /\ Distinct(m)
          /\ \A x \in Elements(m) : x \in Elements(w) \/ Comes(x, c)
      BY <1>3, <3>2, ArrivesAs
    <3> HIDE DEF m
    <3>4. PICK k \in DOMAIN l : l[k].id = c.id
      BY <2>2 DEF Places
    <3>5. l[k] \in Elements(l)
      BY DEF Elements
    <3>6. \A x \in Elements(m) : \E y \in Elements(l) : y.id = x.id
      BY <3>2, <3>3, <3>4, <3>5 DEF Comes
    <3> QED  BY <1>3, <3>1, <3>2, <3>3, <3>6 DEF m
  <2> QED  BY <2>1, <2>2
<1> QED  BY <1>0, <1>1, <1>2, <1>3

-----------------------------------------------------------------------------
(* The inductive invariant. Grouping moves an entry by less than a second; *)
(* what is due is taken up to the time of the process; whatever is asked   *)
(* for while callbacks run, or later, is due after that, unless the clock  *)
(* has gone back.                                                          *)
Grouped ==
  \A x \in Elements(list) \cup Elements(running) :
    x.due <= x.wanted /\ x.wanted - x.due < Second
DueNow == \A x \in Elements(running) : x.due <= proc
AgreedAhead(t, i) == t >= proc \/ i \in late
InTime == phase # "before" =>
  /\ \A x \in Elements(list) : AgreedAhead(x.wanted, x.id)
  /\ \A k \in DOMAIN changes :
       changes[k].kind # "remove" => AgreedAhead(changes[k].due, changes[k].id)
Phases == phase # "run" => running = <<>> /\ last = 0

(* A callback is in one place, and is added before anything else is asked  *)
(* of it.                                                                  *)
Known ==
  /\ \A x \in Elements(list) \cup Elements(running) : x.id <= idCounter
  /\ \A k \in DOMAIN changes : changes[k].id <= idCounter
OnePlace ==
  /\ Distinct(list) /\ Distinct(running)
  /\ \A x \in Elements(list), y \in Elements(running) : x.id # y.id
AddedOnce == \A k \in DOMAIN changes : changes[k].kind = "add" =>
  /\ \A j \in DOMAIN changes : j < k => changes[j].id # changes[k].id
  /\ \A x \in Elements(list) \cup Elements(running) : x.id # changes[k].id

(* A callback that is still there although its removal is to be carried    *)
(* out has that ahead of it, in the pass that is under way.                *)
StillAsked(i) == i \in gone => phase \in {"before", "after"} /\ i \in Asked
GoneAhead ==
  /\ \A x \in Elements(list) \cup Elements(running) : StillAsked(x.id)
  /\ \A k \in DOMAIN changes : changes[k].kind = "add" => StillAsked(changes[k].id)

TimerInv ==
  /\ TimerTypeOK /\ Ordered(list) /\ Grouped /\ DueNow /\ InTime /\ Phases
  /\ Known /\ OnePlace /\ AddedOnce /\ GoneAhead

LEMMA TimerInitInv == TimerInit => TimerInv
<1> SUFFICES ASSUME TimerInit PROVE TimerInv
  OBVIOUS
<1> USE DEF TimerInit
<1>1. Elements(list) = {} /\ Elements(running) = {} /\ DOMAIN changes = {} /\ DOMAIN list = {}
      /\ DOMAIN running = {}
  BY DEF Elements
<1>2. TimerTypeOK
  BY TimerAssumption DEF TimerTypeOK
<1> QED
  BY <1>1, <1>2 DEF TimerInv, Ordered, Distinct, Grouped, DueNow, InTime, Phases, Known,
                    OnePlace, AddedOnce, GoneAhead

(* What is asked for goes to the end of the queue.                         *)
LEMMA EnqueueInv ==
  ASSUME TimerInv, NEW c \in Change, Enqueue(c),
         idCounter' \in 0 .. MaxId, idCounter <= idCounter', c.id <= idCounter',
         c.kind # "remove" => c.due >= time,
         c.kind = "add" => c.id > idCounter
  PROVE  TimerInv'
<1> USE DEF TimerInv
<1>1. /\ changes' = Append(changes, c) /\ calls' = calls + 1 /\ calls < MaxCalls
      /\ UNCHANGED <<time, list, running, last, phase, proc, gone>>
      /\ phase \notin {"before", "after"}
      /\ late' = IF c.kind # "remove" /\ time < proc THEN late \cup {c.id} ELSE late
  BY DEF Enqueue
<1>2. /\ changes' \in Seq(Change) /\ Len(changes') = Len(changes) + 1
      /\ DOMAIN changes = 1 .. Len(changes) /\ DOMAIN changes' = 1 .. Len(changes) + 1
      /\ \A k \in 1 .. Len(changes) : changes'[k] = changes[k]
      /\ changes'[Len(changes) + 1] = c
      /\ Len(changes) \in Nat
  BY <1>1, AppendProperties DEF TimerTypeOK
<1>3. \A k \in DOMAIN changes' : k = Len(changes) + 1 \/ (k \in DOMAIN changes /\ changes'[k] = changes[k])
  BY <1>2
<1>4. TimerTypeOK'
  <2>1. late' \subseteq 1 .. idCounter'
    <3>1. late \subseteq 1 .. idCounter /\ idCounter \in Nat /\ idCounter' \in Nat
      BY TimerAssumption DEF TimerTypeOK
    <3>2. c.id \in 1 .. idCounter'
      BY <3>1 DEF Change, CallbackIds
    <3>3. late \subseteq 1 .. idCounter'
      BY <3>1
    <3> QED  BY <1>1, <3>2, <3>3, Zenon
  <2> QED  BY <1>1, <1>2, <2>1, TimerAssumption DEF TimerTypeOK
<1>5. Ordered(list)' /\ Grouped' /\ DueNow' /\ Phases' /\ OnePlace'
  BY <1>1 DEF Ordered, Distinct, Grouped, DueNow, Phases, OnePlace, Elements
<1>6. InTime'
  <2>1. c.kind # "remove" => c.due >= proc \/ c.id \in late'
    <3>1. time \in Nat /\ proc \in Nat /\ (c.kind # "remove" => c.due \in Nat)
      BY TimerAssumption DEF TimerTypeOK, Change
    <3> QED  BY <1>1, <3>1
  <2>2. late \subseteq late'
    BY <1>1
  <2> QED
    BY <1>1, <1>2, <1>3, <2>1, <2>2 DEF InTime, AgreedAhead, Elements
<1>7. /\ \A x \in Elements(list) \cup Elements(running) : x.id \in Nat /\ x.id <= idCounter
      /\ \A k \in DOMAIN changes : changes[k].id \in Nat /\ changes[k].id <= idCounter
      /\ idCounter \in Nat /\ idCounter' \in Nat
  <2>1. \A x \in Elements(list) \cup Elements(running) : x \in Entry
    BY DEF TimerTypeOK, Elements
  <2>2. \A k \in DOMAIN changes : changes[k] \in Change
    BY DEF TimerTypeOK
  <2>3. /\ \A x \in Elements(list) \cup Elements(running) : x.id \in CallbackIds
        /\ \A k \in DOMAIN changes : changes[k].id \in CallbackIds
    BY <2>1, <2>2 DEF Entry, Change
  <2>4. CallbackIds \subseteq Nat /\ idCounter \in Nat /\ idCounter' \in Nat
    BY TimerAssumption DEF CallbackIds, TimerTypeOK
  <2> QED  BY <2>3, <2>4 DEF Known
<1>8. Known'
  <2>1. \A x \in (Elements(list) \cup Elements(running))' : x.id <= idCounter'
    BY <1>1, <1>7 DEF Elements
  <2>2. \A k \in DOMAIN changes' : changes'[k].id <= idCounter'
    BY <1>2, <1>3, <1>7
  <2> QED  BY <2>1, <2>2 DEF Known
<1>9. c.id \in Nat
  BY DEF Change, CallbackIds
<1>10. AddedOnce'
  <2> SUFFICES ASSUME NEW k \in DOMAIN changes', changes'[k].kind = "add"
               PROVE  /\ \A j \in DOMAIN changes' : j < k => changes'[j].id # changes'[k].id
                      /\ \A x \in Elements(list) \cup Elements(running) : x.id # changes'[k].id
    BY <1>1 DEF AddedOnce, Elements
  <2>1. CASE k = Len(changes) + 1
    <3>1. c.kind = "add" /\ changes'[k] = c
      BY <2>1, <1>2
    <3>2. \A j \in DOMAIN changes' : j < k => j \in DOMAIN changes /\ changes'[j] = changes[j]
      BY <2>1, <1>2
    <3> QED  BY <3>1, <3>2, <1>7, <1>9
  <2>2. CASE k \in DOMAIN changes
    <3>1. \A j \in DOMAIN changes' : j < k => j \in DOMAIN changes /\ changes'[j] = changes[j]
      BY <2>2, <1>2
    <3>2. changes'[k] = changes[k]
      BY <2>2, <1>2
    <3> QED  BY <2>2, <3>1, <3>2 DEF AddedOnce
  <2> QED  BY <2>1, <2>2, <1>3
<1>11. GoneAhead'
  <2>1. \A x \in Elements(list) \cup Elements(running) : x.id \notin gone
    BY <1>1 DEF GoneAhead, StillAsked
  <2>2. \A k \in DOMAIN changes : changes[k].kind = "add" => changes[k].id \notin gone
    BY <1>1 DEF GoneAhead, StillAsked
  <2>3. c.kind = "add" => c.id \notin gone
    BY <1>7, <1>9 DEF TimerTypeOK
  <2>4. \A k \in DOMAIN changes' : changes'[k].kind = "add" => changes'[k].id \notin gone
    BY <1>2, <1>3, <2>2, <2>3
  <2> QED  BY <1>1, <2>1, <2>4 DEF GoneAhead, StillAsked, Elements
<1> QED  BY <1>4, <1>5, <1>6, <1>8, <1>10, <1>11

LEMMA AskInv ==
  ASSUME TimerInv
  PROVE  /\ \A interval \in Intervals : AddRepeatedCallback(interval) => TimerInv'
         /\ \A i \in CallbackIds, interval \in Intervals :
              ChangeRepeatedCallbackInterval(i, interval) => TimerInv'
         /\ \A i \in CallbackIds : RemoveRepeatedCallback(i) => TimerInv'
<1>0. /\ time \in Nat /\ proc \in Nat /\ idCounter \in 0 .. MaxId
      /\ MaxId \in Nat /\ \A n \in Intervals : n \in Nat
  BY TimerAssumption DEF TimerInv, TimerTypeOK
<1>1. ASSUME NEW interval \in Intervals, AddRepeatedCallback(interval) PROVE TimerInv'
  <2> DEFINE c == [kind |-> "add", id |-> idCounter + 1, due |-> time + interval,
                   interval |-> interval]
  <2>1. /\ Enqueue(c) /\ idCounter' = idCounter + 1 /\ idCounter < MaxId
    BY <1>1 DEF AddRepeatedCallback
  <2>2. /\ c \in Change /\ c.id = idCounter + 1 /\ c.kind = "add" /\ c.due >= time
    BY <2>1, <1>0 DEF Change, CallbackIds
  <2>3. idCounter' \in 0 .. MaxId /\ idCounter <= idCounter' /\ c.id <= idCounter' /\ c.id > idCounter
    BY <2>1, <2>2, <1>0
  <2> HIDE DEF c
  <2> QED  BY <2>1, <2>2, <2>3, EnqueueInv
<1>2. ASSUME NEW i \in CallbackIds, NEW interval \in Intervals,
             ChangeRepeatedCallbackInterval(i, interval)
      PROVE  TimerInv'
  <2> DEFINE c == [kind |-> "change", id |-> i, due |-> time + interval, interval |-> interval]
  <2>1. Enqueue(c) /\ idCounter' = idCounter /\ i \in 1 .. idCounter
    BY <1>2 DEF ChangeRepeatedCallbackInterval
  <2>2. /\ c \in Change /\ c.id = i /\ c.kind = "change" /\ c.due >= time
    BY <2>1, <1>0 DEF Change, CallbackIds
  <2>3. idCounter' \in 0 .. MaxId /\ idCounter <= idCounter' /\ c.id <= idCounter'
    BY <2>1, <2>2, <1>0
  <2> HIDE DEF c
  <2> QED  BY <2>1, <2>2, <2>3, EnqueueInv
<1>3. ASSUME NEW i \in CallbackIds, RemoveRepeatedCallback(i) PROVE TimerInv'
  <2> DEFINE c == [kind |-> "remove", id |-> i]
  <2>1. Enqueue(c) /\ idCounter' = idCounter /\ i \in 1 .. idCounter
    BY <1>3 DEF RemoveRepeatedCallback
  <2>2. c \in Change /\ c.id = i /\ c.kind = "remove"
    BY DEF Change
  <2>3. idCounter' \in 0 .. MaxId /\ idCounter <= idCounter' /\ c.id <= idCounter'
    BY <2>1, <2>2, <1>0
  <2> HIDE DEF c
  <2> QED  BY <2>1, <2>2, <2>3, EnqueueInv
<1> QED  BY <1>1, <1>2, <1>3

(* A pass over the changes begins.                                         *)
LEMMA PassInv ==
  ASSUME TimerInv, Process \/ AllRun
  PROVE  TimerInv'
<1> USE DEF TimerInv
<1>1. /\ UNCHANGED <<time, idCounter, calls, changes, list, running>>
      /\ phase \in {"idle", "run"} /\ phase' \in {"before", "after"}
      /\ gone' = gone \cup Asked /\ running = <<>> /\ last' = 0
      /\ proc' = IF phase' = "before" THEN time ELSE proc
      /\ phase' = "after" => phase # "before"
      /\ late' = IF phase' = "before" THEN {} ELSE late
  BY DEF Process, AllRun, Phases
<1>2. Asked \subseteq 1 .. idCounter
  <2>1. \A k \in DOMAIN changes : changes[k] \in Change /\ changes[k].id <= idCounter
    BY DEF TimerTypeOK, Known
  <2>2. \A k \in DOMAIN changes : changes[k].id \in 1 .. idCounter
    BY <2>1, TimerAssumption DEF Change, CallbackIds, TimerTypeOK
  <2> QED  BY <2>2 DEF Asked
<1>3. TimerTypeOK'
  <2>1. late' \subseteq 1 .. idCounter' /\ gone' \subseteq 1 .. idCounter'
    BY <1>1, <1>2, Zenon DEF TimerTypeOK
  <2>2. proc' \in 0 .. ClockValues - 1
    BY <1>1, Zenon DEF TimerTypeOK
  <2> QED  BY <1>1, <2>1, <2>2 DEF TimerTypeOK
<1>4. Ordered(list)' /\ Grouped' /\ Phases' /\ Known' /\ OnePlace' /\ AddedOnce'
  BY <1>1 DEF Ordered, Distinct, Grouped, Phases, Known, OnePlace, AddedOnce, Elements
<1>5. DueNow'
  BY <1>1 DEF DueNow, Elements
<1>6. InTime'
  BY <1>1 DEF InTime, AgreedAhead, Elements
<1>7. Asked' = Asked
  BY <1>1 DEF Asked
<1>8. /\ \A x \in Elements(list) \cup Elements(running) : x.id \notin gone
      /\ \A k \in DOMAIN changes : changes[k].kind = "add" => changes[k].id \notin gone
  BY <1>1 DEF GoneAhead, StillAsked
<1>9. \A i : i \in gone' /\ i \notin gone => i \in Asked'
  BY <1>1, <1>7
<1>10. GoneAhead'
  BY <1>1, <1>8, <1>9 DEF GoneAhead, StillAsked, Elements
<1> QED  BY <1>3, <1>4, <1>5, <1>6, <1>10

(* A change is carried out.                                                *)
LEMMA ProcessChangeInv ==
  ASSUME TimerInv, ProcessChange
  PROVE  TimerInv'
<1> USE DEF TimerInv
<1> DEFINE c == Head(changes)
<1>1. /\ UNCHANGED <<time, idCounter, calls, running, last, phase, proc, gone, late>>
      /\ phase \in {"before", "after"} /\ changes # <<>>
      /\ list' = Carry(list, c) /\ changes' = Tail(changes)
      /\ running = <<>> /\ last = 0
  BY DEF ProcessChange, Phases
<1>2. /\ c \in Change /\ c = changes[1] /\ changes' \in Seq(Change)
      /\ Len(changes') = Len(changes) - 1 /\ Len(changes) \in Nat \ {0}
      /\ DOMAIN changes = 1 .. Len(changes) /\ DOMAIN changes' = 1 .. Len(changes) - 1
      /\ \A k \in 1 .. Len(changes) - 1 : changes'[k] = changes[k + 1]
  BY <1>1, HeadTailProperties DEF TimerTypeOK
<1> HIDE DEF c
<1>3. \A k \in DOMAIN changes' :
        k + 1 \in DOMAIN changes /\ changes'[k] = changes[k + 1]
  BY <1>2
<1>4. 1 \in DOMAIN changes
  BY <1>2
<1>5. list \in Seq(Entry)
  BY DEF TimerTypeOK
<1>6. c.kind = "add" => \A x \in Elements(list) : x.id # c.id
  BY <1>2, <1>4 DEF AddedOnce
<1>7. /\ list' \in Seq(Entry) /\ Ordered(list') /\ Distinct(list')
      /\ \A x \in Elements(list') : x \in Elements(list) \/ Comes(x, c)
      /\ c.kind # "add" => \A x \in Elements(list') : \E y \in Elements(list) : y.id = x.id
      /\ c.kind = "remove" => \A x \in Elements(list') : x.id # c.id
  BY <1>1, <1>2, <1>5, <1>6, CarryIs DEF OnePlace
<1>8. Elements(running) = {} /\ Elements(running') = {}
  BY <1>1 DEF Elements
<1>9. TimerTypeOK'
  BY <1>1, <1>2, <1>7 DEF TimerTypeOK
<1>10. Grouped'
  <2>1. ASSUME NEW x \in Elements(list') PROVE x.due <= x.wanted /\ x.wanted - x.due < Second
    BY <1>7 DEF Grouped, Comes
  <2> QED  BY <1>8, <2>1 DEF Grouped
<1>11. DueNow' /\ Phases'
  BY <1>1, <1>8 DEF DueNow, Phases
<1>12. InTime'
  <2> SUFFICES ASSUME phase' # "before"
               PROVE  /\ \A x \in Elements(list') : AgreedAhead(x.wanted, x.id)
                      /\ \A k \in DOMAIN changes' : changes'[k].kind # "remove" =>
                           AgreedAhead(changes'[k].due, changes'[k].id)
    BY <1>1 DEF InTime, AgreedAhead
  <2>1. /\ \A x \in Elements(list) : AgreedAhead(x.wanted, x.id)
        /\ \A k \in DOMAIN changes : changes[k].kind # "remove" =>
             AgreedAhead(changes[k].due, changes[k].id)
    BY <1>1 DEF InTime
  <2> QED  BY <2>1, <1>2, <1>3, <1>4, <1>7 DEF Comes
<1>13. Known'
  <2>1. \A x \in Elements(list') : x.id <= idCounter
    BY <1>2, <1>4, <1>7 DEF Known, Comes
  <2>2. \A k \in DOMAIN changes' : changes'[k].id <= idCounter
    BY <1>3 DEF Known
  <2> QED  BY <1>1, <1>8, <2>1, <2>2 DEF Known
<1>14. OnePlace'
  BY <1>1, <1>7, <1>8 DEF OnePlace
<1>15. AddedOnce'
  <2> SUFFICES ASSUME NEW k \in DOMAIN changes', changes'[k].kind = "add"
               PROVE  /\ \A j \in DOMAIN changes' : j < k => changes'[j].id # changes'[k].id
                      /\ \A x \in Elements(list') : x.id # changes'[k].id
    BY <1>1, <1>8 DEF AddedOnce
  <2>1. k + 1 \in DOMAIN changes /\ changes'[k] = changes[k + 1] /\ 1 < k + 1
    BY <1>2
  <2>2. \A j \in DOMAIN changes' : j < k => /\ j + 1 \in DOMAIN changes /\ j + 1 < k + 1
                                            /\ changes'[j] = changes[j + 1]
    BY <1>2
  <2>3. \A x \in Elements(list) : x.id # changes'[k].id
    BY <2>1 DEF AddedOnce
  <2>4. c.id # changes'[k].id
    BY <2>1, <1>2, <1>4 DEF AddedOnce
  <2>5. \A x \in Elements(list') : x.id # changes'[k].id
    BY <2>3, <2>4, <1>7 DEF Comes
  <2>6. \A j \in DOMAIN changes' : j < k => changes'[j].id # changes'[k].id
    BY <2>1, <2>2 DEF AddedOnce
  <2> QED  BY <2>5, <2>6
<1>16. GoneAhead'
  <2>1. \A i \in Asked : i \in Asked' \/ (c.kind = "remove" /\ i = c.id)
    <3> SUFFICES ASSUME NEW k \in DOMAIN changes, changes[k].kind = "remove"
                 PROVE  changes[k].id \in Asked' \/ (c.kind = "remove" /\ changes[k].id = c.id)
      BY DEF Asked
    <3>1. CASE k = 1
      BY <3>1, <1>2
    <3>2. CASE k # 1
      <4>1. k - 1 \in DOMAIN changes' /\ changes'[k - 1] = changes[k]
        BY <3>2, <1>2
      <4> QED  BY <4>1 DEF Asked
    <3> QED  BY <3>1, <3>2
  <2>2. ASSUME NEW x \in Elements(list'), x.id \in gone PROVE x.id \in Asked'
    <3>1. x.id \in Asked
      <4>1. CASE c.kind = "add" /\ Comes(x, c)
        BY <4>1, <1>2, <1>4, <2>2 DEF GoneAhead, StillAsked, Comes
      <4>2. CASE x \in Elements(list)
        BY <4>2, <2>2 DEF GoneAhead, StillAsked
      <4>3. CASE c.kind # "add"
        BY <4>3, <1>7, <2>2 DEF GoneAhead, StillAsked
      <4> QED  BY <4>1, <4>2, <4>3, <1>7
    <3>2. c.kind = "remove" => x.id # c.id
      BY <1>7
    <3> QED  BY <3>1, <3>2, <2>1
  <2>3. ASSUME NEW k \in DOMAIN changes', changes'[k].kind = "add", changes'[k].id \in gone
        PROVE  changes'[k].id \in Asked'
    <3>1. k + 1 \in DOMAIN changes /\ changes'[k] = changes[k + 1] /\ 1 < k + 1
      BY <1>2
    <3>2. changes'[k].id \in Asked
      BY <3>1, <2>3 DEF GoneAhead, StillAsked
    <3>3. c.id # changes'[k].id
      BY <3>1, <2>3, <1>2, <1>4 DEF AddedOnce
    <3> QED  BY <3>2, <3>3, <2>1
  <2> QED  BY <1>1, <1>8, <2>2, <2>3 DEF GoneAhead, StillAsked
<1> QED  BY <1>7, <1>9, <1>10, <1>11, <1>12, <1>13, <1>14, <1>15, <1>16

(* What is due is the head of the list.                                    *)
LEMMA TakeDueInv ==
  ASSUME TimerInv, TakeDue
  PROVE  TimerInv'
<1> USE DEF TimerInv
<1> DEFINE f == Search(list, proc + 1, 0)
<1>1. /\ UNCHANGED <<time, idCounter, calls, changes, last, proc, gone, late>>
      /\ phase = "before" /\ changes = <<>> /\ running = <<>> /\ last = 0
      /\ running' = SubSeq(list, 1, f - 1) /\ list' = SubSeq(list, f, Len(list))
      /\ phase' = IF f = 1 THEN "idle" ELSE "run"
  BY DEF TakeDue, Phases
<1>2. /\ proc \in Nat /\ list \in Seq(Entry)
      /\ DOMAIN list = 1 .. Len(list) /\ Len(list) \in Nat
      /\ \A k \in 1 .. Len(list) : list[k] \in Entry /\ list[k].due \in Nat
  BY EntryIs, TimerAssumption DEF TimerTypeOK
<1>3. /\ f \in 1 .. Len(list) + 1
      /\ \A k \in 1 .. f - 1 : list[k].due < proc + 1
      /\ f <= Len(list) => list[f].due >= proc + 1
  BY <1>2, SearchIs
<1> HIDE DEF f
<1>4. \A k \in f .. Len(list) : list[k].due >= proc + 1
  <2> SUFFICES ASSUME NEW k \in f .. Len(list) PROVE list[k].due >= proc + 1
    OBVIOUS
  <2>1. f \in DOMAIN list /\ k \in DOMAIN list /\ f <= k
    BY <1>2, <1>3
  <2>2. list[f].due <= list[k].due
    BY <2>1 DEF Ordered
  <2> QED  BY <1>2, <1>3, <2>1, <2>2
<1>5. /\ running' \in Seq(Entry) /\ Len(running') = f - 1
      /\ DOMAIN running' = 1 .. f - 1
      /\ \A k \in 1 .. f - 1 : running'[k] = list[k] /\ k \in DOMAIN list
  BY <1>1, <1>2, <1>3, SubSeqProperties
<1>6. /\ list' \in Seq(Entry) /\ Len(list') = Len(list) - f + 1
      /\ \A k \in 1 .. Len(list) - f + 1 : list'[k] = list[f + k - 1]
  BY <1>1, <1>2, <1>3, SubSeqProperties
<1>7. /\ DOMAIN list' = 1 .. Len(list) - f + 1
      /\ \A k \in DOMAIN list' : /\ list'[k] = list[f + k - 1]
                                 /\ f + k - 1 \in f .. Len(list)
                                 /\ f + k - 1 \in DOMAIN list
  BY <1>2, <1>3, <1>6
<1>8. \A x \in Elements(running') : x \in Elements(list) /\ x.due <= proc /\ x \in Entry
  <2> SUFFICES ASSUME NEW k \in DOMAIN running'
               PROVE  running'[k] \in Elements(list) /\ running'[k].due <= proc /\ running'[k] \in Entry
    BY DEF Elements
  <2>1. running'[k] = list[k] /\ k \in DOMAIN list /\ list[k].due < proc + 1
    BY <1>3, <1>5
  <2> QED  BY <2>1, <1>2 DEF Elements
<1>9. \A x \in Elements(list') : x \in Elements(list) /\ x.due >= proc /\ x \in Entry
  <2> SUFFICES ASSUME NEW k \in DOMAIN list'
               PROVE  list'[k] \in Elements(list) /\ list'[k].due >= proc /\ list'[k] \in Entry
    BY DEF Elements
  <2>1. list'[k] = list[f + k - 1] /\ f + k - 1 \in DOMAIN list /\ list[f + k - 1].due >= proc + 1
    BY <1>4, <1>7
  <2> QED  BY <2>1, <1>2 DEF Elements
<1>10. TimerTypeOK'
  <2>1. phase' \in {"idle", "before", "run", "after"}
    BY <1>1
  <2>2. Len(list') \in Nat /\ last' \in 0 .. Len(list')
    BY <1>1, <1>2, <1>3, <1>6
  <2> QED  BY <1>1, <1>5, <1>6, <2>1, <2>2 DEF TimerTypeOK
<1>11. Ordered(list')
  <2> SUFFICES ASSUME NEW j \in DOMAIN list', NEW k \in DOMAIN list', j <= k
               PROVE  list'[j].due <= list'[k].due
    BY DEF Ordered
  <2>1. /\ list'[j] = list[f + j - 1] /\ f + j - 1 \in DOMAIN list
        /\ list'[k] = list[f + k - 1] /\ f + k - 1 \in DOMAIN list
    BY <1>7
  <2>2. f + j - 1 <= f + k - 1
    BY <1>3, <1>7
  <2> QED  BY <2>1, <2>2 DEF Ordered
<1>12. Distinct(list')
  <2> SUFFICES ASSUME NEW j \in DOMAIN list', NEW k \in DOMAIN list', list'[j].id = list'[k].id
               PROVE  j = k
    BY DEF Distinct
  <2>1. /\ list'[j] = list[f + j - 1] /\ f + j - 1 \in DOMAIN list
        /\ list'[k] = list[f + k - 1] /\ f + k - 1 \in DOMAIN list
    BY <1>7
  <2>2. f + j - 1 = f + k - 1
    BY <2>1 DEF OnePlace, Distinct
  <2> QED  BY <2>2, <1>3, <1>7
<1>13. Distinct(running')
  BY <1>5 DEF OnePlace, Distinct
<1>14. ASSUME NEW x \in Elements(list'), NEW y \in Elements(running') PROVE x.id # y.id
  <2>1. PICK k \in DOMAIN list' : x = list'[k]
    BY DEF Elements
  <2>2. PICK j \in DOMAIN running' : y = running'[j]
    BY DEF Elements
  <2>3. x = list[f + k - 1] /\ f + k - 1 \in f .. Len(list) /\ f + k - 1 \in DOMAIN list
    BY <1>7, <2>1
  <2>4. y = list[j] /\ j \in DOMAIN list /\ j \in 1 .. f - 1
    BY <1>5, <2>2
  <2>5. f + k - 1 # j
    BY <1>3, <2>3, <2>4
  <2> QED  BY <2>3, <2>4, <2>5 DEF OnePlace, Distinct
<1>15. Grouped' /\ DueNow'
  BY <1>1, <1>8, <1>9 DEF Grouped, DueNow
<1>16. InTime'
  <2>1. ASSUME NEW x \in Elements(list') PROVE x.wanted >= proc
    <3>1. x.due <= x.wanted /\ x.due >= proc /\ x.due \in Nat /\ x.wanted \in Nat
      BY <1>9 DEF Grouped, Entry
    <3> QED  BY <3>1, <1>2
  <2> QED  BY <1>1, <2>1 DEF InTime, AgreedAhead
<1>17. Phases'
  <2>1. CASE f = 1
    <3>1. running' = <<>>
      BY <2>1, <1>5
    <3> QED  BY <1>1, <3>1 DEF Phases
  <2>2. CASE f # 1
    BY <1>1, <2>2 DEF Phases
  <2> QED  BY <2>1, <2>2
<1>18. Known' /\ OnePlace' /\ AddedOnce'
  BY <1>1, <1>8, <1>9, <1>12, <1>13, <1>14 DEF Known, OnePlace, AddedOnce
<1>19. GoneAhead'
  <2>1. Asked = {}
    BY <1>1 DEF Asked
  <2>2. \A x \in Elements(list) : x.id \notin gone
    BY <2>1 DEF GoneAhead, StillAsked
  <2> QED  BY <1>1, <1>8, <1>9, <2>2 DEF GoneAhead, StillAsked
<1> QED  BY <1>10, <1>11, <1>15, <1>16, <1>17, <1>18, <1>19

(* Wherever its search begins, an entry goes where it fits.                *)
LEMMA PlaceFits ==
  ASSUME list \in Seq(Entry), Ordered(list), last \in 0 .. Len(list), NEW t \in Nat
  PROVE  /\ Place(t) \in 1 .. Len(list) + 1
         /\ \A k \in 1 .. Place(t) - 1 : list[k].due <= t
         /\ Place(t) <= Len(list) => t <= list[Place(t)].due
<1>0. /\ DOMAIN list = 1 .. Len(list) /\ Len(list) \in Nat
      /\ \A k \in 1 .. Len(list) : list[k].due \in Nat
  BY EntryIs
<1>1. CASE last > 0 /\ list[last].due = t
  <2>1. Place(t) = last + 1 /\ last \in 1 .. Len(list)
    BY <1>1 DEF Place
  <2>2. \A k \in 1 .. last : list[k].due <= t
    BY <1>0, <1>1, <2>1 DEF Ordered
  <2>3. last + 1 <= Len(list) => t <= list[last + 1].due
    BY <1>0, <1>1, <2>1 DEF Ordered
  <2>4. last + 1 - 1 = last /\ last + 1 \in 1 .. Len(list) + 1
    BY <2>1, <1>0
  <2> QED  BY <2>1, <2>2, <2>3, <2>4
<1>2. CASE ~ (last > 0 /\ list[last].due = t)
  <2> DEFINE from == IF last > 0 /\ list[last].due < t THEN last ELSE 0
             s == Search(list, t, from)
  <2>1. from \in 0 .. Len(list) /\ t \in Int
    BY <1>0
  <2>2. \A k \in 1 .. from : list[k].due <= t
    <3> SUFFICES ASSUME NEW k \in 1 .. from PROVE list[k].due <= t
      OBVIOUS
    <3>1. from = last /\ last \in 1 .. Len(list) /\ list[last].due < t /\ k \in 1 .. Len(list) /\ k <= last
      BY <1>0
    <3>2. list[k].due <= list[last].due
      BY <3>1, <1>0 DEF Ordered
    <3> QED  BY <3>1, <3>2, <1>0
  <2>3. Place(t) = s
    BY <1>2 DEF Place
  <2> HIDE DEF from
  <2>4. /\ s \in from + 1 .. Len(list) + 1
        /\ \A k \in from + 1 .. s - 1 : list[k].due < t
        /\ s <= Len(list) => list[s].due >= t
    BY <2>1, SearchIs
  <2> HIDE DEF s
  <2>5. s \in 1 .. Len(list) + 1
    BY <2>1, <2>4, <1>0
  <2>6. ASSUME NEW k \in 1 .. s - 1 PROVE list[k].due <= t
    <3>1. CASE k <= from
      BY <3>1, <2>1, <2>2
    <3>2. CASE k > from
      <4>1. k \in from + 1 .. s - 1 /\ k \in 1 .. Len(list)
        BY <3>2, <2>1, <2>5, <1>0
      <4> QED  BY <4>1, <2>4, <1>0
    <3> QED  BY <3>1, <3>2, <2>1
  <2>7. s <= Len(list) => t <= list[s].due
    BY <2>4, <2>5, <1>0
  <2> QED  BY <2>3, <2>5, <2>6, <2>7
<1> QED  BY <1>1, <1>2

LEMMA DispatchInv ==
  ASSUME TimerInv, Dispatch
  PROVE  TimerInv'
<1> USE DEF TimerInv
<1> DEFINE e == Head(running)
           t == NextTime(e)
           p == Place(t)
           g == [e EXCEPT !.due = t, !.wanted = t]
<1>1. /\ UNCHANGED <<time, idCounter, calls, changes, phase, proc, gone, late>>
      /\ phase = "run" /\ running # <<>>
      /\ running' = Tail(running) /\ list' = InsertAt(list, p, g)
      /\ last' = IF last > 0 /\ list[last].due = t THEN last ELSE p
  BY DEF Dispatch
<1>2. /\ list \in Seq(Entry) /\ running \in Seq(Entry) /\ proc \in Nat
      /\ last \in 0 .. Len(list) /\ Len(list) \in Nat
  BY TimerAssumption DEF TimerTypeOK
<1>3. /\ e \in Entry /\ e = running[1] /\ running' \in Seq(Entry)
      /\ Len(running') = Len(running) - 1
      /\ DOMAIN running = 1 .. Len(running) /\ DOMAIN running' = 1 .. Len(running) - 1
      /\ Len(running) \in Nat \ {0}
      /\ \A k \in 1 .. Len(running) - 1 : running'[k] = running[k + 1]
  BY <1>1, <1>2, HeadTailProperties
<1>4. t \in Nat /\ t >= proc
  <2>1. e.due \in Nat /\ e.interval \in Nat
    <3> HIDE DEF e
    <3> QED  BY <1>3, TimerAssumption DEF Entry
  <2> HIDE DEF e
  <2> QED  BY <1>2, <2>1 DEF NextTime
<1>5. g \in Entry /\ g.id = e.id /\ g.due = t /\ g.wanted = t
  BY <1>3, <1>4 DEF Entry
<1> HIDE DEF e, t, g
<1>6. /\ p \in 1 .. Len(list) + 1
      /\ \A k \in 1 .. p - 1 : list[k].due <= t
      /\ p <= Len(list) => t <= list[p].due
  BY <1>2, <1>4, PlaceFits
<1> HIDE DEF p
<1>7. e \in Elements(running) /\ \A x \in Elements(list) : x.id # g.id
  <2>1. e \in Elements(running)
    BY <1>3 DEF Elements
  <2> QED  BY <2>1, <1>5 DEF OnePlace
<1>8. Ordered(list')
  <2>1. \A k \in 1 .. p - 1 : list[k].due <= g.due
    BY <1>5, <1>6
  <2>2. p <= Len(list) => g.due <= list[p].due
    BY <1>5, <1>6
  <2> QED  BY <1>1, <1>2, <1>5, <1>6, <2>1, <2>2, InsertAtFits
<1>9. list' \in Seq(Entry) /\ Len(list') = Len(list) + 1
  BY <1>1, <1>2, <1>5, <1>6, InsertAtIs DEF Inserted
<1>10. Distinct(list') /\ Elements(list') \subseteq Elements(list) \cup {g}
  BY <1>1, <1>2, <1>5, <1>6, <1>7, InsertAtKeeps DEF OnePlace
<1>11. \A k \in DOMAIN running' : k + 1 \in DOMAIN running /\ running'[k] = running[k + 1] /\ k + 1 # 1
  BY <1>3
<1>12. Elements(running') \subseteq Elements(running)
  BY <1>11 DEF Elements
<1>13. Distinct(running')
  <2> SUFFICES ASSUME NEW j \in DOMAIN running', NEW k \in DOMAIN running',
                      running'[j].id = running'[k].id
               PROVE  j = k
    BY DEF Distinct
  <2>1. j + 1 = k + 1
    BY <1>11 DEF OnePlace, Distinct
  <2> QED  BY <2>1, <1>3
<1>14. \A y \in Elements(running') : y.id # g.id
  <2> SUFFICES ASSUME NEW k \in DOMAIN running' PROVE running'[k].id # e.id
    BY <1>5 DEF Elements
  <2>1. k + 1 \in DOMAIN running /\ 1 \in DOMAIN running /\ k + 1 # 1
    BY <1>3, <1>11
  <2> QED  BY <2>1, <1>3, <1>11 DEF OnePlace, Distinct
<1>15. TimerTypeOK'
  <2>1. last' \in 0 .. Len(list')
    BY <1>1, <1>2, <1>6, <1>9
  <2> QED  BY <1>1, <1>3, <1>9, <2>1 DEF TimerTypeOK
<1>16. Grouped' /\ DueNow'
  <2>1. g.due <= g.wanted /\ g.wanted - g.due < Second
    BY <1>4, <1>5, TimerAssumption
  <2> QED  BY <1>1, <1>10, <1>12, <2>1 DEF Grouped, DueNow
<1>17. InTime'
  BY <1>1, <1>4, <1>5, <1>10 DEF InTime, AgreedAhead
<1>18. Phases'
  BY <1>1 DEF Phases
<1>19. \A x \in Elements(list') \cup Elements(running') :
         \E y \in Elements(list) \cup Elements(running) : x.id = y.id
  BY <1>5, <1>7, <1>10, <1>12
<1>20. Known'
  BY <1>1, <1>19 DEF Known
<1>21. OnePlace'
  BY <1>10, <1>12, <1>13, <1>14 DEF OnePlace
<1>22. AddedOnce'
  <2> SUFFICES ASSUME NEW k \in DOMAIN changes, changes[k].kind = "add"
               PROVE  /\ \A j \in DOMAIN changes : j < k => changes[j].id # changes[k].id
                      /\ \A x \in Elements(list') \cup Elements(running') : x.id # changes[k].id
    BY <1>1 DEF AddedOnce
  <2> QED  BY <1>19 DEF AddedOnce
<1>23. GoneAhead'
  BY <1>1, <1>19 DEF GoneAhead, StillAsked
<1> QED  BY <1>8, <1>15, <1>16, <1>17, <1>18, <1>20, <1>21, <1>22, <1>23

LEMMA TimerNextInv == TimerInv /\ [TimerNext]_timerVars => TimerInv'
<1> SUFFICES ASSUME TimerInv, [TimerNext]_timerVars PROVE TimerInv'
  OBVIOUS
<1>1. CASE \/ \E interval \in Intervals : AddRepeatedCallback(interval)
           \/ \E i \in CallbackIds, interval \in Intervals :
                ChangeRepeatedCallbackInterval(i, interval)
           \/ \E i \in CallbackIds : RemoveRepeatedCallback(i)
  BY <1>1, AskInv
<1>2. CASE Process \/ AllRun
  BY <1>2, PassInv
<1>3. CASE ProcessChange
  BY <1>3, ProcessChangeInv
<1>4. CASE TakeDue
  BY <1>4, TakeDueInv
<1>5. CASE Dispatch
  BY <1>5, DispatchInv
<1> USE DEF TimerInv
<1>6. CASE ProcessReturns
  <2>1. /\ UNCHANGED <<time, idCounter, calls, changes, list, running, last, proc, gone, late>>
        /\ phase = "after" /\ changes = <<>> /\ phase' = "idle"
    BY <1>6 DEF ProcessReturns
  <2>2. TimerTypeOK'
    BY <2>1 DEF TimerTypeOK
  <2>3. InTime' /\ Phases'
    BY <2>1 DEF InTime, AgreedAhead, Phases, Elements
  <2>4. GoneAhead'
    BY <2>1 DEF GoneAhead, StillAsked, Asked, Elements
  <2>5. Ordered(list)' /\ Grouped' /\ DueNow' /\ Known' /\ OnePlace' /\ AddedOnce'
    BY <2>1 DEF Ordered, Distinct, Grouped, DueNow, Known, OnePlace, AddedOnce, Elements
  <2> QED  BY <2>2, <2>3, <2>4, <2>5
<1>7. CASE TimePasses \/ UNCHANGED timerVars
  <2>1. /\ UNCHANGED <<idCounter, calls, changes, list, running, last, phase, proc, gone, late>>
        /\ time' \in 0 .. ClockValues - 1
    <3>1. time \in 0 .. ClockValues - 1
      BY DEF TimerTypeOK
    <3>2. (time + 1) % ClockValues \in 0 .. ClockValues - 1
      BY <3>1, TimerAssumption
    <3> QED  BY <1>7, <3>1, <3>2 DEF TimePasses, timerVars
  <2>2. TimerTypeOK'
    BY <2>1 DEF TimerTypeOK
  <2>3. InTime' /\ Phases'
    BY <2>1 DEF InTime, AgreedAhead, Phases, Elements
  <2>4. GoneAhead'
    BY <2>1 DEF GoneAhead, StillAsked, Asked, Elements
  <2>5. Ordered(list)' /\ Grouped' /\ DueNow' /\ Known' /\ OnePlace' /\ AddedOnce'
    BY <2>1 DEF Ordered, Distinct, Grouped, DueNow, Known, OnePlace, AddedOnce, Elements
  <2> QED  BY <2>2, <2>3, <2>4, <2>5
<1> QED
  BY <1>1, <1>2, <1>3, <1>4, <1>5, <1>6, <1>7 DEF TimerNext

(* The invariant that the timer's theorems rest on.                        *)
THEOREM TimerInvariance == TimerSpec => []TimerInv
  BY TimerInitInv, TimerNextInv, PTL DEF TimerSpec

-----------------------------------------------------------------------------
(* The list, the queue of changes and the callbacks that run keep their    *)
(* types.                                                                  *)
THEOREM TimerTypeCorrect == TimerSpec => []TimerTypeOK
<1>1. TimerInv => TimerTypeOK
  BY DEF TimerInv
<1> QED
  BY <1>1, TimerInvariance, PTL

(* When a process is over, every callback that is left was agreed for a    *)
(* time not before it, whatever callbacks asked for while they ran, or was *)
(* asked for after the clock had gone back behind that time.               *)
THEOREM NothingLate == TimerSpec => []Punctual
<1>1. TimerInv => Punctual
  BY DEF TimerInv, InTime, AgreedAhead, Punctual
<1> QED
  BY <1>1, TimerInvariance, PTL

(* No callback runs a second or more before the time agreed for it.        *)
THEOREM NothingEarly == TimerSpec => []NotTooEarly
<1>1. TimerInv => NotTooEarly
  <2> SUFFICES ASSUME TimerInv, NEW x \in Elements(running) PROVE x.wanted < proc + Second
    BY DEF NotTooEarly
  <2>1. x \in Entry
    BY DEF TimerInv, TimerTypeOK, Elements
  <2>2. x.due \in Nat /\ x.wanted \in Nat /\ proc \in Nat /\ Second \in Nat
    BY <2>1, TimerAssumption DEF Entry, TimerInv, TimerTypeOK
  <2>3. x.due <= proc /\ x.wanted - x.due < Second
    BY DEF TimerInv, DueNow, Grouped
  <2> QED  BY <2>2, <2>3
<1> QED
  BY <1>1, TimerInvariance, PTL

(* The head of the list is due first: the server does not oversleep.       *)
THEOREM HeadIsFirst == TimerSpec => []WakesInTime
<1>1. TimerInv => WakesInTime
  <2> SUFFICES ASSUME TimerInv, NEW k \in DOMAIN list PROVE Head(list).due <= list[k].due
    BY DEF WakesInTime, Elements
  <2>1. DOMAIN list = 1 .. Len(list) /\ Len(list) \in Nat
    BY EntryIs DEF TimerInv, TimerTypeOK
  <2>2. 1 \in DOMAIN list /\ 1 <= k /\ Head(list) = list[1]
    BY <2>1 DEF TimerInv, TimerTypeOK
  <2> QED  BY <2>2 DEF TimerInv, Ordered
<1> QED
  BY <1>1, TimerInvariance, PTL

(* A callback removed before a process begins does not run in it or later. *)
THEOREM RemovedNeverRuns == TimerSpec => []RemovedIsGone
<1>1. TimerInv => RemovedIsGone
  BY DEF TimerInv, GoneAhead, StillAsked, RemovedIsGone
<1> QED
  BY <1>1, TimerInvariance, PTL

-----------------------------------------------------------------------------
(* Chunks.                                                                 *)

(* The units the receiver has not yet made anything of, in their order.    *)
Ahead == IF stage = "recv" THEN incomplete \o stream ELSE message \o stream

(* Where a unit stands among all of its connection.                        *)
Position(u) == 3 * u.chunk.nth + u.at

(* q is p without its first d places.                                      *)
Cut(q, p, d) == Len(q) = Len(p) - d /\ \A k \in 1 .. Len(q) : q[k] = p[k + d]

BetweenReads ==
  /\ stage = "recv" => message = <<>> /\ called = FALSE
  /\ stage = "chunks" => incomplete = <<>> /\ up # "closed"
  /\ up = "closed" => stream = <<>>
  /\ blind => lost

(* Request ids are new.                                                    *)
IdsAreNew == \A id \in Ids : id > requestId => chunks[id] = <<>> /\ writing[id] = 0

(* The number s of the mth chunk, when the nth has the number r: it counts *)
(* on from r, or has rolled over.                                          *)
Counts(r, n, s, m) ==
  r < RollFrom => s = r + (m - n) \/ s + RollFrom + 2 <= r + (m - n) + RollTo

(* What the receiver should hold of the messages under way: w parts each.  *)
Owed(held, w, r) ==
  \A id \in Ids : /\ id > r => held[id] = <<>>
                  /\ w[id] > 0 => held[id] = Whole(id, w[id]).body

Beginning(s, t) == Len(s) <= Len(t) /\ s = SubSeq(t, 1, Len(s))

LogInv ==
  /\ Len(log) >= 1 /\ Len(log) <= bounds.sends + 1
  /\ log[Len(log)].seq = sendSeq /\ log[Len(log)].sent = sent
  /\ Owed(log[Len(log)].held, writing, requestId)
  /\ \A n \in 1 .. Len(log) : Beginning(log[n].sent, sent)
  /\ \A n, m \in 1 .. Len(log) : n < m => Counts(log[n].seq, n, log[m].seq, m)

(* A unit is of a chunk in the log l, with a request id up to r.           *)
Logged(u, l, r) ==
  /\ u.chunk.nth \in 2 .. Len(l)
  /\ l[u.chunk.nth] = After(l[u.chunk.nth - 1], u.chunk)
  /\ u.chunk.body.id <= r

(* Units are one after the other, and three of them a chunk.               *)
InOrder(p) ==
  \A j, k \in 1 .. Len(p) :
    /\ Position(p[k]) - Position(p[j]) = k - j
    /\ p[j].chunk.nth = p[k].chunk.nth => p[j].chunk = p[k].chunk

StreamInv ==
  /\ \A k \in 1 .. Len(Ahead) : Logged(Ahead[k], log, requestId)
  /\ InOrder(Ahead)
  /\ up = "open" /\ Ahead # <<>> => Position(Ahead[Len(Ahead)]) = 3 * Len(log) + 3

(* The receiver has taken the chunks up to the rnth, with nothing missing; *)
(* or has lost what came then, at a number from which it will notice.      *)
Unbroken(rn) ==
  /\ ~lost
  /\ Ahead # <<>> => Position(Ahead[1]) = 3 * rn + 4
  /\ Ahead = <<>> /\ up = "open" => rn = Len(log)
  /\ delivered = log[rn].sent
  /\ chunks = log[rn].held
Gap(rn) ==
  /\ lost
  /\ recvSeq < RollFrom
  /\ rn < Len(log)
  /\ \A k \in 1 .. Len(Ahead) : Ahead[k].at = 1 => Ahead[k].chunk.nth > rn + 1
Follows(rn) == recvSeq = log[rn].seq /\ (Unbroken(rn) \/ Gap(rn))

Linked == LogInv /\ StreamInv /\ (~blind => \E rn \in 1 .. Len(log) : Follows(rn))

ChunkInv ==
  /\ ChunkTypeOK
  /\ BetweenReads
  /\ IdsAreNew
  /\ up # "closed" => Linked

-----------------------------------------------------------------------------
(* Sequences.                                                              *)

LEMMA DropIs ==
  ASSUME NEW S, NEW l \in Seq(S), NEW d \in 0 .. Len(l)
  PROVE  SubSeq(l, d + 1, Len(l)) \in Seq(S) /\ Cut(SubSeq(l, d + 1, Len(l)), l, d)
<1>1. \A i \in d + 1 .. Len(l) : l[i] \in S
  BY ElementOfSeq
<1>2. /\ SubSeq(l, d + 1, Len(l)) \in Seq(S)
      /\ Len(SubSeq(l, d + 1, Len(l))) = Len(l) - d
      /\ \A i \in 1 .. Len(l) - d : SubSeq(l, d + 1, Len(l))[i] = l[d + 1 + i - 1]
  BY <1>1, SubSeqProperties
<1> QED
  BY <1>2 DEF Cut

LEMMA TakeIs ==
  ASSUME NEW S, NEW l \in Seq(S), NEW n \in 0 .. Len(l)
  PROVE  /\ SubSeq(l, 1, n) \in Seq(S) /\ Len(SubSeq(l, 1, n)) = n
         /\ \A k \in 1 .. n : SubSeq(l, 1, n)[k] = l[k]
<1>1. \A i \in 1 .. n : l[i] \in S
  BY ElementOfSeq
<1> QED
  BY <1>1, SubSeqProperties

(* Without what is in front, or d places more, is without a prefix.        *)
LEMMA BehindIs ==
  ASSUME NEW S, NEW l \in Seq(S), NEW m \in Seq(S), NEW d \in 0 .. Len(m)
  PROVE  Cut(SubSeq(m, d + 1, Len(m)), l \o m, Len(l) + d)
<1> DEFINE q == SubSeq(m, d + 1, Len(m))
<1>1. q \in Seq(S) /\ Len(q) = Len(m) - d /\ \A k \in 1 .. Len(q) : q[k] = m[k + d]
  BY DropIs DEF Cut
<1>2. /\ Len(l \o m) = Len(l) + Len(m)
      /\ \A k \in 1 .. Len(l) + Len(m) : (l \o m)[k] = IF k <= Len(l) THEN l[k] ELSE m[k - Len(l)]
  BY ConcatProperties
<1> HIDE DEF q
<1>3. ASSUME NEW k \in 1 .. Len(q) PROVE q[k] = (l \o m)[k + (Len(l) + d)]
  <2>1. k + (Len(l) + d) \in 1 .. Len(l) + Len(m) /\ ~ (k + (Len(l) + d) <= Len(l))
        /\ k + (Len(l) + d) - Len(l) = k + d
    BY <1>1
  <2> QED
    BY <2>1, <1>1, <1>2
<1> QED
  BY <1>1, <1>2, <1>3 DEF Cut, q

LEMMA WholeIs ==
  ASSUME NEW id \in Ids, NEW n \in Nat, n <= maxChunkCount
  PROVE  /\ Whole(id, n) \in Messages
         /\ Len(Whole(id, n).body) = n
         /\ Append(Whole(id, n).body, [id |-> id, part |-> n + 1]) = Whole(id, n + 1).body
<1> DEFINE b(m) == [k \in 1 .. m |-> [id |-> id, part |-> k]]
<1>1. ASSUME NEW m \in Nat PROVE b(m) \in Seq([id : Ids, part : Nat]) /\ Len(b(m)) = m
  BY <1>1
<1>2. \A k \in 1 .. n : b(n)[k] \in Parts
  BY BoundsAssumption DEF Parts
<1>3. b(n) \in Seq(Parts)
  BY <1>2
<1>4. Append(b(n), [id |-> id, part |-> n + 1]) = b(n + 1)
  <2> DEFINE a == Append(b(n), [id |-> id, part |-> n + 1])
  <2>1. /\ a \in Seq([id : Ids, part : Nat]) /\ Len(a) = n + 1
        /\ \A k \in 1 .. n : a[k] = b(n)[k]
        /\ a[n + 1] = [id |-> id, part |-> n + 1]
    BY <1>1, AppendProperties
  <2>2. \A k \in 1 .. n + 1 : b(n + 1)[k] = [id |-> id, part |-> k]
    OBVIOUS
  <2>3. \A k \in 1 .. n : b(n)[k] = [id |-> id, part |-> k]
    OBVIOUS
  <2>4. b(n + 1) \in Seq([id : Ids, part : Nat]) /\ Len(b(n + 1)) = n + 1
    BY <1>1
  <2> HIDE DEF a, b
  <2>5. ASSUME NEW k \in 1 .. n + 1 PROVE a[k] = b(n + 1)[k]
    <3>1. CASE k \in 1 .. n
      BY <3>1, <2>1, <2>2, <2>3
    <3>2. CASE k = n + 1
      BY <3>2, <2>1, <2>2
    <3> QED
      BY <3>1, <3>2
  <2> QED
    BY <2>1, <2>4, <2>5, SeqEqual DEF a
<1>5. Whole(id, n) = [id |-> id, body |-> b(n)] /\ Whole(id, n + 1) = [id |-> id, body |-> b(n + 1)]
  BY DEF Whole
<1>6. Len(b(n)) = n
  BY <1>1
<1> HIDE DEF b
<1>7. [id |-> id, body |-> b(n)] \in Messages
  BY <1>3 DEF Messages
<1>8. Whole(id, n).body = b(n) /\ Whole(id, n + 1).body = b(n + 1)
  BY <1>5
<1> QED
  BY <1>4, <1>5, <1>6, <1>7, <1>8

LEMMA WholeType ==
  ASSUME NEW id \in Ids, NEW n \in 1 .. maxChunkCount
  PROVE  Whole(id, n) \in Messages
<1>1. n \in Nat /\ n <= maxChunkCount
  BY BoundsAssumption
<1> QED
  BY <1>1, WholeIs

-----------------------------------------------------------------------------
(* Types.                                                                  *)

LEMMA AfterIs ==
  ASSUME NEW mark \in Marks, NEW c \in Chunks
  PROVE  After(mark, c) \in Marks
<1>1. c.body.id \in Ids /\ c.body \in Parts /\ c.seq \in 0 .. Modulus - 1
  BY DEF Chunks, Parts
<1>2. mark.held \in [Ids -> Seq(Parts)] /\ mark.sent \in Seq(Messages)
  BY DEF Marks
<1>3. Append(mark.held[c.body.id], c.body) \in Seq(Parts) /\ <<>> \in Seq(Parts)
  BY <1>1, <1>2
<1>4. [id |-> c.body.id, body |-> Append(mark.held[c.body.id], c.body)] \in Messages
  BY <1>1, <1>3 DEF Messages
<1>5. After(mark, c).sent \in Seq(Messages)
  BY <1>2, <1>4 DEF After
<1>6. After(mark, c).held \in [Ids -> Seq(Parts)]
  BY <1>2, <1>3 DEF After
<1>7. After(mark, c).seq \in 0 .. Modulus - 1
  BY <1>1 DEF After
<1>8. After(mark, c) = [seq |-> After(mark, c).seq, sent |-> After(mark, c).sent,
                        held |-> After(mark, c).held]
  BY DEF After
<1> QED
  BY <1>5, <1>6, <1>7, <1>8 DEF Marks

LEMMA NextSeqIs ==
  ASSUME ChunkTypeOK, NEW seq \in NextSeq
  PROVE  seq \in 0 .. Modulus - 1
<1>1. (sendSeq + 1) % Modulus \in 0 .. Modulus - 1
  BY NumbersAssumption DEF ChunkTypeOK
<1> QED
  BY <1>1, NumbersAssumption DEF NextSeq, ChunkTypeOK

(* The chunk that Send puts on the stream, and its units.                  *)
Sending(id, part, kind, seq) ==
  [body |-> [id |-> id, part |-> part], kind |-> kind, seq |-> seq, nth |-> Len(log) + 1]

LEMMA SendingIs ==
  ASSUME ChunkTypeOK, NEW id \in Ids, NEW part \in 1 .. maxChunkCount,
         NEW kind \in {"C", "F", "A"}, NEW seq \in NextSeq
  PROVE  /\ Sending(id, part, kind, seq) \in Chunks
         /\ [i \in 1 .. 3 |-> [chunk |-> Sending(id, part, kind, seq), at |-> i]] \in Seq(Units)
<1>1. Sending(id, part, kind, seq) \in Chunks
  <2>1. seq \in 0 .. Modulus - 1 /\ Len(log) + 1 \in Nat
    BY NextSeqIs DEF ChunkTypeOK
  <2> QED
    BY <2>1 DEF Sending, Chunks, Parts
<1>2. \A i \in 1 .. 3 : [chunk |-> Sending(id, part, kind, seq), at |-> i] \in Units
  BY <1>1 DEF Units
<1> QED
  BY <1>1, <1>2

LEMMA SendType ==
  ASSUME ChunkTypeOK, NEW id \in Ids, NEW part \in 1 .. maxChunkCount,
         NEW kind \in {"C", "F", "A"}, NEW seq, Send(id, part, kind, seq), Len(log) >= 1,
         writing' \in [Ids -> 0 .. maxChunkCount], requestId' \in 0 .. MaxIds,
         sent' \in Seq(Messages)
  PROVE  ChunkTypeOK'
<1> DEFINE c == Sending(id, part, kind, seq)
           three == [i \in 1 .. 3 |-> [chunk |-> c, at |-> i]]
<1>1. seq \in NextSeq /\ seq \in 0 .. Modulus - 1
  BY NextSeqIs DEF Send
<1>2. c \in Chunks /\ three \in Seq(Units)
  BY <1>1, SendingIs
<1>3. log[Len(log)] \in Marks /\ log \in Seq(Marks)
  BY ElementOfSeq DEF ChunkTypeOK
<1>4. After(log[Len(log)], c) \in Marks
  BY <1>2, <1>3, AfterIs
<1>5. stream' = stream \o three /\ log' = Append(log, After(log[Len(log)], c))
  BY DEF Send, Sending
<1> HIDE DEF c, three
<1>6. stream' \in Seq(Units) /\ log' \in Seq(Marks)
  BY <1>2, <1>3, <1>4, <1>5 DEF ChunkTypeOK
<1>7. bounds' \in [sends : 0 .. MaxSends, fails : 0 .. MaxFails, connects : 0 .. MaxConnects]
  <2>1. bounds.sends + 1 \in 0 .. MaxSends
    <3>1. bounds.sends \in 0 .. MaxSends
      BY DEF ChunkTypeOK
    <3>2. bounds.sends < MaxSends
      BY DEF Send
    <3> QED
      BY <3>1, <3>2, BoundsAssumption
  <2>2. bounds' = [bounds EXCEPT !.sends = bounds.sends + 1]
    BY DEF Send
  <2>3. bounds \in [sends : 0 .. MaxSends, fails : 0 .. MaxFails, connects : 0 .. MaxConnects]
    BY DEF ChunkTypeOK
  <2> QED
    BY <2>1, <2>2, <2>3
<1> QED
  BY <1>1, <1>6, <1>7 DEF Send, ChunkTypeOK, buffers, history

LEMMA FailsType ==
  ASSUME ChunkTypeOK, Fails
  PROVE  bounds' \in [sends : 0 .. MaxSends, fails : 0 .. MaxFails, connects : 0 .. MaxConnects]
<1>1. bounds \in [sends : 0 .. MaxSends, fails : 0 .. MaxFails, connects : 0 .. MaxConnects]
  BY DEF ChunkTypeOK
<1>2. bounds.fails + 1 \in 0 .. MaxFails
  BY <1>1, BoundsAssumption DEF Fails, MayFail
<1>3. bounds' = [bounds EXCEPT !.fails = bounds.fails + 1]
  BY DEF Fails
<1> QED
  BY <1>1, <1>2, <1>3

(* What processChunk has in hand.                                          *)
LEMMA CompleteIs ==
  ASSUME ChunkTypeOK, Complete
  PROVE  /\ stage = "chunks" /\ Len(message) >= 3 /\ message[1].at = 1
         /\ message[1] \in Units /\ EndUnit \in Units
         /\ message[1].chunk \in Chunks /\ EndUnit.chunk \in Chunks
         /\ EndUnit.chunk.body \in Parts /\ EndUnit.chunk.body.id \in Ids
         /\ EndUnit.chunk.seq \in 0 .. Modulus - 1
         /\ Rest \in Seq(Units) /\ Cut(Rest, message, 3)
<1>1. message \in Seq(Units) /\ Len(message) \in Nat
  BY DEF ChunkTypeOK
<1>2. stage = "chunks" /\ Len(message) >= 3 /\ message[1].at = 1
  BY <1>1 DEF Complete, NeedsMore, AtHeader
<1>3. message[1] \in Units /\ EndUnit \in Units
  BY <1>1, <1>2, ElementOfSeq DEF EndUnit
<1>4. message[1].chunk \in Chunks /\ EndUnit.chunk \in Chunks
  BY <1>3 DEF Units
<1>5. EndUnit.chunk.body \in Parts /\ EndUnit.chunk.seq \in 0 .. Modulus - 1
  BY <1>4 DEF Chunks
<1>6. EndUnit.chunk.body.id \in Ids
  BY <1>5 DEF Parts
<1>7. Rest \in Seq(Units) /\ Cut(Rest, message, 3)
  <2>1. 3 \in 0 .. Len(message) /\ Rest = SubSeq(message, 3 + 1, Len(message))
    BY <1>1, <1>2 DEF Rest
  <2> QED
    BY <2>1, <1>1, DropIs
<1> QED
  BY <1>2, <1>3, <1>4, <1>5, <1>6, <1>7

LEMMA CloseType ==
  ASSUME ChunkTypeOK, Close,
         bounds' \in [sends : 0 .. MaxSends, fails : 0 .. MaxFails, connects : 0 .. MaxConnects]
  PROVE  ChunkTypeOK'
<1>1. <<>> \in Seq(Units) /\ None \in [Ids -> Seq(Parts)]
  BY DEF None
<1> QED
  BY <1>1 DEF Close, ChunkTypeOK, sender, history

LEMMA ReadsIs ==
  ASSUME ChunkTypeOK, NEW n \in 1 .. Len(stream), Reads(n)
  PROVE  /\ stream' \in Seq(Units) /\ stream' = SubSeq(stream, n + 1, Len(stream))
         /\ SubSeq(stream, 1, n) \in Seq(Units)
         /\ incomplete \o SubSeq(stream, 1, n) \in Seq(Units)
<1>1. stream \in Seq(Units) /\ n \in 0 .. Len(stream)
  BY DEF ChunkTypeOK
<1>2. SubSeq(stream, 1, n) \in Seq(Units) /\ SubSeq(stream, n + 1, Len(stream)) \in Seq(Units)
  BY <1>1, TakeIs, DropIs
<1> QED
  BY <1>2, ConcatProperties DEF Reads, ChunkTypeOK

LEMMA TypeNext ==
  ASSUME ChunkTypeOK, up = "open" => Len(log) >= 1, [ChunkNext]_chunkVars
  PROVE  ChunkTypeOK'
<1> DEFINE Bounds == [sends : 0 .. MaxSends, fails : 0 .. MaxFails, connects : 0 .. MaxConnects]
<1>0. <<>> \in Seq(Units) /\ Len(<<>>) < 3
  OBVIOUS
<1>1. ASSUME NEW s \in First, ConnectAnew(s) PROVE ChunkTypeOK'
  <2>1. s \in 0 .. Modulus - 1 /\ <<>> \in Seq(Messages) /\ <<>> \in Seq(Units)
    BY NumbersAssumption
  <2>2. [seq |-> s, sent |-> <<>>, held |-> chunks] \in Marks
    BY <2>1 DEF ChunkTypeOK, Marks
  <2>3. log' \in Seq(Marks)
    BY <1>1, <2>2 DEF ConnectAnew
  <2>4. bounds' \in Bounds
    <3>1. bounds \in Bounds
      BY DEF ChunkTypeOK
    <3>2. bounds.connects + 1 \in 0 .. MaxConnects
      BY <3>1, <1>1, BoundsAssumption DEF ConnectAnew
    <3>3. bounds' = [bounds EXCEPT !.connects = bounds.connects + 1]
      BY <1>1 DEF ConnectAnew
    <3> QED
      BY <3>1, <3>2, <3>3
  <2>5. [id \in Ids |-> 0] \in [Ids -> 0 .. maxChunkCount]
    BY BoundsAssumption
  <2> QED
    BY <1>0, <1>1, <2>1, <2>3, <2>4, <2>5 DEF ConnectAnew, ChunkTypeOK
<1>2. ASSUME NEW id \in Ids, NEW seq \in 0 .. Modulus - 1, NEW kind \in {"C", "F"},
             SendChunk(id, kind, seq)
      PROVE  ChunkTypeOK'
  <2> DEFINE part == writing[id] + 1
  <2>1. part \in 1 .. maxChunkCount /\ Send(id, part, kind, seq) /\ up = "open"
    <3>1. writing[id] \in 0 .. maxChunkCount
      BY DEF ChunkTypeOK
    <3>2. part <= maxChunkCount /\ Send(id, part, kind, seq)
      BY <1>2 DEF SendChunk
    <3>3. up = "open"
      BY <3>2 DEF Send
    <3> QED
      BY <3>1, <3>2, <3>3, BoundsAssumption
  <2>2. writing' \in [Ids -> 0 .. maxChunkCount]
    <3>1. (IF kind = "C" THEN part ELSE 0) \in 0 .. maxChunkCount
      BY <2>1, BoundsAssumption
    <3>2. writing' = [writing EXCEPT ![id] = IF kind = "C" THEN part ELSE 0]
      BY <1>2 DEF SendChunk
    <3> QED
      BY <3>1, <3>2 DEF ChunkTypeOK
  <2>3. requestId' \in 0 .. MaxIds
    BY <1>2, BoundsAssumption DEF SendChunk, ChunkTypeOK, Ids
  <2>4. sent' \in Seq(Messages)
    <3>1. \A m \in 1 .. maxChunkCount : Whole(id, m) \in Messages
      BY WholeType
    <3>2. Whole(id, part) \in Messages
      BY <3>1, <2>1
    <3>3. sent' = sent \/ sent' = Append(sent, Whole(id, part))
      BY <1>2 DEF SendChunk
    <3>4. sent \in Seq(Messages)
      BY DEF ChunkTypeOK
    <3> QED
      BY <3>2, <3>3, <3>4, AppendProperties
  <2> HIDE DEF part
  <2> QED
    BY <2>1, <2>2, <2>3, <2>4, SendType
<1>3. ASSUME NEW id \in Ids, NEW seq \in 0 .. Modulus - 1, SendAbort(id, seq)
      PROVE  ChunkTypeOK'
  <2>1. 1 \in 1 .. maxChunkCount /\ Send(id, 1, "A", seq) /\ up = "open"
    BY <1>3, BoundsAssumption DEF SendAbort, Send
  <2>2. writing' \in [Ids -> 0 .. maxChunkCount]
    BY <1>3, BoundsAssumption DEF SendAbort, ChunkTypeOK
  <2>3. requestId' \in 0 .. MaxIds /\ sent' \in Seq(Messages)
    BY <1>3 DEF SendAbort, ChunkTypeOK
  <2> QED
    BY <2>1, <2>2, <2>3, SendType
<1>4. ASSUME NEW id \in Ids, GiveUp(id) PROVE ChunkTypeOK'
  <2>1. writing' \in [Ids -> 0 .. maxChunkCount]
    BY <1>4, BoundsAssumption DEF GiveUp, ChunkTypeOK
  <2> QED
    BY <1>4, <2>1 DEF GiveUp, ChunkTypeOK, buffers, history
<1>5. ASSUME NEW n \in 0 .. Len(stream), Break(n) PROVE ChunkTypeOK'
  <2>1. stream' \in Seq(Units)
    BY <1>5, TakeIs DEF Break, ChunkTypeOK
  <2> QED
    BY <1>5, <2>1 DEF Break, ChunkTypeOK, buffers, sender, history
<1>6. ASSUME NEW n \in 1 .. Len(stream), Receive(n) PROVE ChunkTypeOK'
  <2>1. Reads(n)
    BY <1>6 DEF Receive
  <2> QED
    BY <1>6, <2>1, <1>0, ReadsIs DEF Receive, ChunkTypeOK, sender, history
<1>7. ASSUME NEW n \in 1 .. Len(stream), PrependFails(n) PROVE ChunkTypeOK'
  <2>1. Reads(n) /\ Lose /\ Fails
    BY <1>7 DEF PrependFails
  <2> QED
    BY <1>7, <2>1, <1>0, ReadsIs, FailsType DEF PrependFails, Lose, ChunkTypeOK, sender
<1>8. CASE RecvFails
  BY <1>8, FailsType, CloseType DEF RecvFails
<1>9. CASE Buffer
  <2>0. NeedsMore
    BY <1>9 DEF Buffer
  <2>1. Len(message) < 3
    <3>1. Len(message) < 3 \/ Len(message) = 1
      BY <2>0, Zenon DEF NeedsMore
    <3>2. Len(message) \in Nat
      BY DEF ChunkTypeOK
    <3> QED
      BY <3>1, <3>2
  <2> QED
    BY <1>9, <2>1, <1>0 DEF Buffer, ChunkTypeOK, sender, history
<1>10. CASE BufferFails
  BY <1>10, <1>0, FailsType DEF BufferFails, Lose, ChunkTypeOK, sender
<1>11. CASE BadHeader
  <2>1. CASE called
    <3>1. bounds' \in Bounds
      BY <1>11 DEF BadHeader, ChunkTypeOK
    <3> QED
      BY <1>11, <2>1, <3>1, CloseType DEF BadHeader
  <2>2. CASE ~called
    BY <1>11, <2>2, <1>0 DEF BadHeader, ChunkTypeOK, sender, history
  <2> QED
    BY <2>1, <2>2
<1>12. ASSUME Complete, Done, chunks' \in [Ids -> Seq(Parts)], delivered' \in Seq(Messages)
       PROVE  ChunkTypeOK'
  BY <1>12, CompleteIs DEF Done, ChunkTypeOK, sender
<1> DEFINE id == EndUnit.chunk.body.id
           body == Append(chunks[id], EndUnit.chunk.body)
<1>13. ASSUME Complete
       PROVE  /\ body \in Seq(Parts) /\ [id |-> id, body |-> body] \in Messages
              /\ chunks \in [Ids -> Seq(Parts)] /\ <<>> \in Seq(Parts)
  <2>1. id \in Ids /\ EndUnit.chunk.body \in Parts /\ chunks[id] \in Seq(Parts)
    BY <1>13, CompleteIs DEF ChunkTypeOK
  <2> QED
    BY <2>1 DEF ChunkTypeOK, Messages
<1>14. CASE Intermediate
  <2>1. Complete /\ Done
    BY <1>14 DEF Intermediate, Accepted
  <2> QED
    BY <1>14, <2>1, <1>12, <1>13 DEF Intermediate, ChunkTypeOK
<1>15. CASE Final
  <2>1. Complete /\ Done /\ delivered' = Append(delivered, [id |-> id, body |-> body])
        /\ chunks' = [chunks EXCEPT ![id] = <<>>]
    BY <1>15 DEF Final, Accepted
  <2>2. delivered' \in Seq(Messages)
    BY <2>1, <1>13 DEF ChunkTypeOK
  <2> QED
    BY <2>1, <2>2, <1>12, <1>13
<1>16. CASE Aborted
  <2>1. Complete /\ Done
    BY <1>16 DEF Aborted, Accepted
  <2> QED
    BY <1>16, <2>1, <1>12, <1>13 DEF Aborted, ChunkTypeOK
<1>17. CASE OutOfOrder
  <2>1. bounds' \in Bounds
    BY <1>17 DEF OutOfOrder, ChunkTypeOK
  <2> QED
    BY <1>17, <2>1, CloseType DEF OutOfOrder
<1>18. CASE AppendFails
  BY <1>18, FailsType, CloseType DEF AppendFails
<1>19. CASE CloseLost
  BY <1>19 DEF CloseLost, ChunkTypeOK, buffers, sender, history
<1>20. CASE TimesOut
  <2>1. bounds' \in Bounds
    BY <1>20 DEF TimesOut, ChunkTypeOK
  <2> QED
    BY <1>20, <2>1, CloseType DEF TimesOut
<1>21. CASE UNCHANGED chunkVars
  BY <1>21 DEF chunkVars, ChunkTypeOK, buffers, sender, history
<1> QED
  BY <1>1, <1>2, <1>3, <1>4, <1>5, <1>6, <1>7, <1>8, <1>9, <1>10, <1>11, <1>14, <1>15,
     <1>16, <1>17, <1>18, <1>19, <1>20, <1>21
     DEF ChunkNext, Sender, Receiver, ProcessChunk

-----------------------------------------------------------------------------
(* The stream.                                                             *)

LEMMA UnitIs ==
  ASSUME NEW u \in Units
  PROVE  /\ u.chunk \in Chunks /\ u.at \in 1 .. 3 /\ u.chunk.nth \in Nat
         /\ Position(u) \in Nat
<1>1. u.chunk \in Chunks /\ u.at \in 1 .. 3
  BY DEF Units
<1>2. u.chunk.nth \in Nat
  BY <1>1 DEF Chunks
<1> QED
  BY <1>1, <1>2 DEF Position

LEMMA UnitsAre ==
  ASSUME NEW p \in Seq(Units)
  PROVE  /\ Len(p) \in Nat /\ (p # <<>> <=> Len(p) >= 1)
         /\ \A k \in 1 .. Len(p) :
              /\ p[k] \in Units /\ p[k].chunk \in Chunks /\ p[k].at \in 1 .. 3
              /\ p[k].chunk.nth \in Nat /\ Position(p[k]) \in Nat
<1>1. Len(p) \in Nat /\ (p # <<>> <=> Len(p) >= 1)
  BY EmptySeq
<1>2. \A k \in 1 .. Len(p) : p[k] \in Units
  BY ElementOfSeq
<1> QED
  BY <1>1, <1>2, UnitIs

LEMMA UnitsJoin ==
  ASSUME NEW p \in Seq(Units), NEW q \in Seq(Units)
  PROVE  /\ p \o q \in Seq(Units) /\ Len(p \o q) = Len(p) + Len(q)
         /\ \A k \in 1 .. Len(p) + Len(q) : (p \o q)[k] = IF k <= Len(p) THEN p[k] ELSE q[k - Len(p)]
BY ConcatProperties

LEMMA UnitsJoined ==
  ASSUME NEW p \in Seq(Units), NEW q \in Seq(Units), NEW t \in Seq(Units)
  PROVE  (p \o q) \o t = p \o (q \o t)
BY ConcatAssociative

LEMMA AheadIs == ChunkTypeOK => Ahead \in Seq(Units)
  BY ConcatProperties DEF Ahead, ChunkTypeOK

LEMMA AheadIsNext == ChunkTypeOK' => Ahead' \in Seq(Units)
  BY ConcatProperties DEF Ahead, ChunkTypeOK

LEMMA CutOrder ==
  ASSUME NEW p \in Seq(Units), NEW q \in Seq(Units), InOrder(p), NEW d \in 0 .. Len(p), Cut(q, p, d)
  PROVE  InOrder(q)
<1> SUFFICES ASSUME NEW j \in 1 .. Len(q), NEW k \in 1 .. Len(q)
             PROVE  /\ Position(q[k]) - Position(q[j]) = k - j
                    /\ q[j].chunk.nth = q[k].chunk.nth => q[j].chunk = q[k].chunk
  BY DEF InOrder
<1>1. /\ j + d \in 1 .. Len(p) /\ k + d \in 1 .. Len(p)
      /\ q[j] = p[j + d] /\ q[k] = p[k + d]
  BY DEF Cut
<1>2. /\ Position(p[k + d]) - Position(p[j + d]) = (k + d) - (j + d)
      /\ p[j + d].chunk.nth = p[k + d].chunk.nth => p[j + d].chunk = p[k + d].chunk
  BY <1>1 DEF InOrder
<1> QED
  BY <1>1, <1>2

(* Nothing but the beginning of what is ahead is gone.                     *)
LEMMA CutStream ==
  ASSUME ChunkTypeOK, ChunkTypeOK', StreamInv, NEW d \in 0 .. Len(Ahead), Cut(Ahead', Ahead, d),
         UNCHANGED <<up, log, requestId>>
  PROVE  StreamInv'
<1>1. /\ Ahead \in Seq(Units) /\ Ahead' \in Seq(Units)
      /\ Len(Ahead) \in Nat /\ Len(Ahead') \in Nat /\ (Ahead' # <<>> <=> Len(Ahead') >= 1)
  BY AheadIs, AheadIsNext, UnitsAre
<1>2. InOrder(Ahead')
  BY <1>1, CutOrder DEF StreamInv
<1>3. ASSUME NEW k \in 1 .. Len(Ahead') PROVE Logged(Ahead'[k], log', requestId')
  <2>1. k + d \in 1 .. Len(Ahead) /\ Ahead'[k] = Ahead[k + d]
    BY <1>1 DEF Cut
  <2> QED
    BY <2>1 DEF StreamInv
<1>4. up' = "open" /\ Ahead' # <<>> => Position(Ahead'[Len(Ahead')]) = 3 * Len(log') + 3
  <2> SUFFICES ASSUME up = "open", Len(Ahead') >= 1
               PROVE  Position(Ahead'[Len(Ahead')]) = 3 * Len(log') + 3
    BY <1>1
  <2>1. Len(Ahead') + d = Len(Ahead) /\ Ahead'[Len(Ahead')] = Ahead[Len(Ahead') + d]
    BY <1>1 DEF Cut
  <2>2. Ahead # <<>>
    BY <1>1, <2>1, UnitsAre
  <2>3. Position(Ahead[Len(Ahead)]) = 3 * Len(log) + 3
    BY <2>2 DEF StreamInv
  <2> QED
    BY <2>1, <2>3
<1> QED
  BY <1>2, <1>3, <1>4 DEF StreamInv

LEMMA SameLog ==
  ASSUME LogInv, UNCHANGED <<log, sendSeq, sent, requestId, writing>>, bounds'.sends = bounds.sends
  PROVE  LogInv'
BY DEF LogInv, Owed, Beginning

(* The unit after the first is further on.                                 *)
LEMMA FirstIs ==
  ASSUME ChunkTypeOK, StreamInv, NEW rn \in 1 .. Len(log), Ahead # <<>>,
         Position(Ahead[1]) = 3 * rn + 4
  PROVE  /\ Ahead[1].chunk.nth = rn + 1 /\ rn < Len(log) /\ Ahead[1].at = 1
         /\ \A k \in 2 .. Len(Ahead) : Ahead[k].at = 1 => Ahead[k].chunk.nth > rn + 1
<1>1. /\ Ahead \in Seq(Units) /\ Len(Ahead) \in Nat /\ 1 \in 1 .. Len(Ahead)
      /\ \A k \in 1 .. Len(Ahead) : Ahead[k].at \in 1 .. 3 /\ Ahead[k].chunk.nth \in Nat
  BY AheadIs, UnitsAre
<1>2. Ahead[1].chunk.nth = rn + 1 /\ Ahead[1].at = 1
  <2>1. rn \in Nat
    BY DEF ChunkTypeOK
  <2> QED
    BY <1>1, <2>1 DEF Position
<1>3. rn + 1 \in 2 .. Len(log)
  BY <1>1, <1>2 DEF StreamInv, Logged
<1>4. ASSUME NEW k \in 2 .. Len(Ahead), Ahead[k].at = 1 PROVE Ahead[k].chunk.nth > rn + 1
  <2>1. k \in 1 .. Len(Ahead) /\ Position(Ahead[k]) - Position(Ahead[1]) = k - 1
    BY <1>1 DEF StreamInv, InOrder
  <2> QED
    BY <1>1, <1>2, <1>4, <2>1 DEF Position
<1> QED
  BY <1>2, <1>3, <1>4

(* Bytes are read, kept, or thrown away.                                   *)
LEMMA CutLink ==
  ASSUME ChunkInv, ChunkTypeOK', up # "closed", NEW d \in 0 .. Len(Ahead), Cut(Ahead', Ahead, d),
         UNCHANGED <<up, log, sendSeq, sent, requestId, writing, recvSeq, chunks, delivered>>,
         bounds'.sends = bounds.sends,
         \/ UNCHANGED <<lost, blind>> /\ (d = 0 \/ lost)
         \/ d >= 1 /\ lost' = TRUE /\ blind' = (blind \/ recvSeq >= RollFrom)
  PROVE  Linked'
<1>1. ChunkTypeOK /\ LogInv /\ StreamInv /\ (~blind => \E rn \in 1 .. Len(log) : Follows(rn))
  BY DEF ChunkInv, Linked
<1>2. LogInv' /\ StreamInv'
  BY <1>1, SameLog, CutStream
<1>3. /\ Len(Ahead) \in Nat /\ Len(Ahead') \in Nat /\ (Ahead' # <<>> <=> Len(Ahead') >= 1)
      /\ (Ahead # <<>> <=> Len(Ahead) >= 1)
  BY <1>1, AheadIs, AheadIsNext, UnitsAre
<1>4. Len(Ahead') = Len(Ahead) - d /\ \A k \in 1 .. Len(Ahead') : Ahead'[k] = Ahead[k + d]
  BY DEF Cut
<1>5. ASSUME ~blind' PROVE \E rn \in 1 .. Len(log') : Follows(rn)'
  <2>1. ~blind /\ lost \in BOOLEAN /\ lost' \in BOOLEAN /\ recvSeq \in Nat /\ RollFrom \in Nat
    BY <1>5, <1>1, NumbersAssumption DEF ChunkTypeOK
  <2>2. PICK rn \in 1 .. Len(log) : Follows(rn)
    BY <1>1, <2>1
  <2>3. CASE Gap(rn)
    <3>1. ASSUME NEW k \in 1 .. Len(Ahead'), Ahead'[k].at = 1 PROVE Ahead'[k].chunk.nth > rn + 1
      <4>1. k + d \in 1 .. Len(Ahead) /\ Ahead'[k] = Ahead[k + d]
        BY <1>3, <1>4
      <4> QED
        BY <4>1, <3>1, <2>3 DEF Gap
    <3>2. lost' /\ recvSeq' < RollFrom /\ rn < Len(log')
      BY <2>3 DEF Gap
    <3>3. Gap(rn)'
      BY <3>1, <3>2 DEF Gap
    <3> QED
      BY <3>3, <2>2 DEF Follows
  <2>4. CASE Unbroken(rn) /\ d = 0
    <3>1. Ahead' = Ahead
      BY <1>1, <1>3, <1>4, <2>4, AheadIs, AheadIsNext, SeqEqual
    <3>2. CASE UNCHANGED <<lost, blind>>
      <4>1. Unbroken(rn)'
        BY <2>4, <3>1, <3>2 DEF Unbroken
      <4> QED
        BY <4>1, <2>2 DEF Follows
    <3> QED
      BY <3>2, <2>4
  <2>5. CASE Unbroken(rn) /\ d >= 1
    <3>1. lost' = TRUE /\ recvSeq < RollFrom
      BY <1>5, <2>1, <2>5 DEF Unbroken
    <3>2. Ahead # <<>> /\ Position(Ahead[1]) = 3 * rn + 4
      BY <1>3, <2>5 DEF Unbroken
    <3>3. rn < Len(log) /\ \A k \in 2 .. Len(Ahead) : Ahead[k].at = 1 => Ahead[k].chunk.nth > rn + 1
      BY <1>1, <3>2, FirstIs
    <3>4. ASSUME NEW k \in 1 .. Len(Ahead'), Ahead'[k].at = 1 PROVE Ahead'[k].chunk.nth > rn + 1
      <4>1. k + d \in 2 .. Len(Ahead) /\ Ahead'[k] = Ahead[k + d]
        BY <1>3, <1>4, <2>5
      <4> QED
        BY <4>1, <3>3, <3>4
    <3>5. Gap(rn)'
      BY <3>1, <3>3, <3>4 DEF Gap
    <3> QED
      BY <3>5, <2>2 DEF Follows
  <2> QED
    BY <2>2, <2>3, <2>4, <2>5 DEF Follows
<1> QED
  BY <1>2, <1>5 DEF Linked

-----------------------------------------------------------------------------
(* Sending.                                                                *)

(* Numbers go on counting, or rolled over, whatever the next one is.       *)
LEMMA CountsOn ==
  ASSUME ChunkTypeOK, NEW r \in Nat, NEW n \in Nat, NEW m \in Nat, n <= m,
         Counts(r, n, sendSeq, m) \/ (n = m /\ r = sendSeq), NEW seq \in NextSeq
  PROVE  Counts(r, n, seq, m + 1)
<1>1. /\ sendSeq \in 0 .. Modulus - 1 /\ Modulus \in Nat /\ RollFrom \in Nat /\ RollTo \in Nat \ {0}
      /\ RollTo <= RollFrom /\ RollFrom < Modulus
  BY NumbersAssumption DEF ChunkTypeOK
<1> SUFFICES ASSUME r < RollFrom
             PROVE  seq = r + (m + 1 - n) \/ seq + RollFrom + 2 <= r + (m + 1 - n) + RollTo
  BY DEF Counts
<1>2. sendSeq = r + (m - n) \/ sendSeq + RollFrom + 2 <= r + (m - n) + RollTo
  BY DEF Counts
<1>3. CASE seq = sendSeq + 1
  BY <1>1, <1>2, <1>3
<1>4. CASE sendSeq >= RollFrom /\ seq \in Nat /\ seq < RollTo
  BY <1>1, <1>2, <1>4
<1>5. seq = sendSeq + 1 \/ (sendSeq >= RollFrom /\ seq \in Nat /\ seq < RollTo)
  <2>1. CASE seq = (sendSeq + 1) % Modulus
    <3>1. CASE sendSeq + 1 < Modulus
      BY <2>1, <3>1, <1>1
    <3>2. CASE sendSeq + 1 = Modulus
      BY <2>1, <3>2, <1>1
    <3> QED
      BY <3>1, <3>2, <1>1
  <2>2. CASE seq # (sendSeq + 1) % Modulus
    BY <2>2, <1>1 DEF NextSeq
  <2> QED
    BY <2>1, <2>2
<1> QED
  BY <1>3, <1>4, <1>5

LEMMA BeginningGrows ==
  ASSUME NEW s \in Seq(Messages), NEW t \in Seq(Messages), NEW m \in Messages, Beginning(s, t)
  PROVE  Beginning(s, Append(t, m))
<1>1. /\ Append(t, m) \in Seq(Messages) /\ Len(Append(t, m)) = Len(t) + 1
      /\ \A i \in 1 .. Len(t) : Append(t, m)[i] = t[i]
  BY AppendProperties
<1> DEFINE u == Append(t, m)
<1> HIDE DEF u
<1>2. Len(s) \in Nat /\ Len(s) <= Len(t) /\ Len(t) \in Nat /\ s = SubSeq(t, 1, Len(s))
  BY DEF Beginning
<1>3. /\ u \in Seq(Messages) /\ Len(u) = Len(t) + 1 /\ \A i \in 1 .. Len(t) : u[i] = t[i]
  BY <1>1 DEF u
<1>4. Len(s) \in 0 .. Len(t) /\ Len(s) \in 0 .. Len(u)
  BY <1>2, <1>3
<1>5. \A i \in 1 .. Len(s) : SubSeq(t, 1, Len(s))[i] = t[i]
  BY <1>4, TakeIs
<1>6. SubSeq(u, 1, Len(s)) \in Seq(Messages) /\ Len(SubSeq(u, 1, Len(s))) = Len(s)
      /\ \A i \in 1 .. Len(s) : SubSeq(u, 1, Len(s))[i] = u[i]
  BY <1>3, <1>4, TakeIs
<1>7. \A i \in 1 .. Len(s) : s[i] = SubSeq(u, 1, Len(s))[i]
  BY <1>2, <1>3, <1>5, <1>6
<1>8. s = SubSeq(u, 1, Len(s))
  BY <1>6, <1>7, SeqEqual
<1> QED
  BY <1>2, <1>3, <1>8 DEF Beginning, u

LEMMA BeginningAll ==
  ASSUME NEW t \in Seq(Messages)
  PROVE  Beginning(t, t)
BY SubSeqFull DEF Beginning

(* k is l and then x; q is p and then the units of c.                      *)
Grown(k, l, x) ==
  Len(k) = Len(l) + 1 /\ (\A n \in 1 .. Len(l) : k[n] = l[n]) /\ k[Len(l) + 1] = x
Coming(q, p, c) ==
  /\ Len(q) = Len(p) + 3 /\ \A k \in 1 .. Len(p) : q[k] = p[k]
  /\ \A i \in 1 .. 3 : q[Len(p) + i] = [chunk |-> c, at |-> i]

(* The log and the stream after a chunk was sent.                          *)
LEMMA SendIs ==
  ASSUME ChunkTypeOK, Len(log) >= 1, NEW id \in Ids, NEW part \in 1 .. maxChunkCount,
         NEW kind \in {"C", "F", "A"}, NEW seq, Send(id, part, kind, seq)
  PROVE  /\ seq \in NextSeq /\ seq = sendSeq' /\ up = "open" /\ up' = "open"
         /\ Grown(log', log, After(log[Len(log)], Sending(id, part, kind, seq)))
         /\ Sending(id, part, kind, seq) \in Chunks
         /\ bounds'.sends = bounds.sends + 1
         /\ Coming(Ahead', Ahead, Sending(id, part, kind, seq))
<1> DEFINE c == Sending(id, part, kind, seq)
           three == [i \in 1 .. 3 |-> [chunk |-> c, at |-> i]]
<1>1. /\ seq \in NextSeq /\ seq = sendSeq' /\ up = "open" /\ up' = "open"
      /\ stream' = stream \o three
      /\ log' = Append(log, After(log[Len(log)], c))
      /\ UNCHANGED <<incomplete, message, stage>>
  BY DEF Send, Sending, buffers
<1>2. c \in Chunks /\ three \in Seq(Units)
  BY <1>1, SendingIs
<1>3. Len(three) = 3 /\ \A i \in 1 .. 3 : three[i] = [chunk |-> c, at |-> i]
  OBVIOUS
<1> HIDE DEF c, three
<1>4. log \in Seq(Marks) /\ After(log[Len(log)], c) \in Marks
  BY <1>2, AfterIs, ElementOfSeq DEF ChunkTypeOK
<1>5. Grown(log', log, After(log[Len(log)], c))
  BY <1>1, <1>4, AppendProperties DEF Grown
<1>6. bounds'.sends = bounds.sends + 1
  BY DEF Send, ChunkTypeOK
<1>7. Ahead' = Ahead \o three
  <2>1. incomplete \in Seq(Units) /\ message \in Seq(Units) /\ stream \in Seq(Units)
    BY DEF ChunkTypeOK
  <2>2. (incomplete \o stream) \o three = incomplete \o (stream \o three)
        /\ (message \o stream) \o three = message \o (stream \o three)
    BY <2>1, <1>2, UnitsJoined
  <2> QED
    BY <2>2, <1>1 DEF Ahead
<1>8. /\ Len(Ahead') = Len(Ahead) + 3
      /\ \A k \in 1 .. Len(Ahead) + 3 : Ahead'[k] = IF k <= Len(Ahead) THEN Ahead[k] ELSE three[k - Len(Ahead)]
      /\ Len(Ahead) \in Nat
  <2>1. Ahead \in Seq(Units)
    BY AheadIs
  <2> QED
    <3>1. /\ Len(Ahead \o three) = Len(Ahead) + Len(three) /\ Len(Ahead) \in Nat
          /\ \A k \in 1 .. Len(Ahead) + Len(three) :
               (Ahead \o three)[k] = IF k <= Len(Ahead) THEN Ahead[k] ELSE three[k - Len(Ahead)]
      BY <1>2, <2>1, UnitsJoin
    <3> QED
      BY <3>1, <1>3, <1>7
<1>9. \A i \in 1 .. 3 : Ahead'[Len(Ahead) + i] = [chunk |-> c, at |-> i]
  <2> SUFFICES ASSUME NEW i \in 1 .. 3 PROVE Ahead'[Len(Ahead) + i] = [chunk |-> c, at |-> i]
    OBVIOUS
  <2>1. Len(Ahead) + i \in 1 .. Len(Ahead) + 3 /\ ~ (Len(Ahead) + i <= Len(Ahead))
        /\ Len(Ahead) + i - Len(Ahead) = i
    BY <1>8
  <2> QED
    BY <2>1, <1>3, <1>8
<1>10. \A k \in 1 .. Len(Ahead) : Ahead'[k] = Ahead[k]
  BY <1>8
<1>11. Coming(Ahead', Ahead, c)
  BY <1>8, <1>9, <1>10 DEF Coming
<1> QED
  BY <1>1, <1>2, <1>5, <1>6, <1>11 DEF c

LEMMA SendLog ==
  ASSUME ChunkTypeOK, ChunkTypeOK', LogInv, NEW id \in Ids, NEW part \in 1 .. maxChunkCount,
         NEW kind \in {"C", "F", "A"}, NEW seq, Send(id, part, kind, seq),
         After(log[Len(log)], Sending(id, part, kind, seq)).sent = sent',
         sent' = sent \/ \E m \in Messages : sent' = Append(sent, m),
         Owed(After(log[Len(log)], Sending(id, part, kind, seq)).held, writing', requestId')
  PROVE  LogInv'
<1> DEFINE L == Len(log)
           new == After(log[Len(log)], Sending(id, part, kind, seq))
<1>0. L >= 1 /\ L \in Nat /\ L <= bounds.sends + 1 /\ bounds.sends \in Nat
  BY DEF LogInv, ChunkTypeOK
<1>1. /\ Len(log') = L + 1 /\ \A n \in 1 .. L : log'[n] = log[n]
      /\ log'[L + 1] = new /\ bounds'.sends = bounds.sends + 1
      /\ seq \in NextSeq /\ sendSeq' = seq
  <2>1. Len(log) >= 1
    BY <1>0
  <2>2. /\ Grown(log', log, new) /\ bounds'.sends = bounds.sends + 1
        /\ seq \in NextSeq /\ sendSeq' = seq
    BY <2>1, SendIs
  <2> QED
    BY <2>2 DEF Grown
<1>2. new.seq = seq /\ new.sent = sent' /\ Owed(new.held, writing', requestId')
  BY DEF After, Sending
<1> HIDE DEF L, new
<1>3. ASSUME NEW n \in 1 .. Len(log') PROVE Beginning(log'[n].sent, sent')
  <2>1. sent \in Seq(Messages) /\ sent' \in Seq(Messages)
    BY DEF ChunkTypeOK
  <2>2. CASE n = L + 1
    BY <2>1, <2>2, <1>1, <1>2, BeginningAll
  <2>3. CASE n \in 1 .. L
    <3>1. log'[n] = log[n] /\ Beginning(log[n].sent, sent) /\ log[n] \in Marks
      BY <2>3, <1>1, ElementOfSeq DEF LogInv, L, ChunkTypeOK
    <3>2. log[n].sent \in Seq(Messages)
      BY <3>1 DEF Marks
    <3> QED
      BY <2>1, <3>1, <3>2, BeginningGrows
  <2> QED
    BY <2>2, <2>3, <1>0, <1>1
<1>4. ASSUME NEW n \in 1 .. Len(log'), NEW m \in 1 .. Len(log'), n < m
      PROVE  Counts(log'[n].seq, n, log'[m].seq, m)
  <2>1. n \in 1 .. L /\ log'[n] = log[n] /\ log[n] \in Marks
    <3>1. n \in 1 .. L
      BY <1>0, <1>1, <1>4
    <3>2. log[n] \in Marks
      BY <3>1, ElementOfSeq DEF L, ChunkTypeOK
    <3> QED
      BY <3>1, <3>2, <1>1
  <2>2. CASE m \in 1 .. L
    BY <2>1, <2>2, <1>1, <1>4 DEF LogInv, L
  <2>3. CASE m = L + 1
    <3>1. log[n].seq \in Nat
      BY <2>1, NumbersAssumption DEF Marks
    <3>2. Counts(log[n].seq, n, sendSeq, L) \/ (n = L /\ log[n].seq = sendSeq)
      BY <1>0, <2>1 DEF LogInv, L
    <3>3. Counts(log[n].seq, n, seq, L + 1)
      BY <1>0, <1>1, <2>1, <3>1, <3>2, CountsOn
    <3> QED
      BY <1>1, <1>2, <2>1, <2>3, <3>3
  <2> QED
    BY <2>2, <2>3, <1>0, <1>1
<1>5. Len(log') >= 1 /\ Len(log') <= bounds'.sends + 1
  BY <1>0, <1>1
<1> QED
  BY <1>1, <1>2, <1>3, <1>4, <1>5 DEF LogInv

LEMMA LoggedOn ==
  ASSUME NEW u, NEW l, NEW m, NEW r \in Nat, NEW t \in Nat, Len(l) \in Nat,
         Len(m) = Len(l) + 1, \A n \in 1 .. Len(l) : m[n] = l[n],
         Logged(u, l, r), u.chunk.body.id \in Nat, r <= t
  PROVE  Logged(u, m, t)
<1>1. u.chunk.nth \in 2 .. Len(l) /\ u.chunk.nth - 1 \in 1 .. Len(l) /\ u.chunk.nth \in 1 .. Len(l)
  BY DEF Logged
<1>2. m[u.chunk.nth] = l[u.chunk.nth] /\ m[u.chunk.nth - 1] = l[u.chunk.nth - 1]
  BY <1>1
<1>3. u.chunk.nth \in 2 .. Len(m) /\ u.chunk.body.id <= t
  BY <1>1 DEF Logged
<1> QED
  BY <1>2, <1>3 DEF Logged

LEMMA SendStream ==
  ASSUME ChunkTypeOK, ChunkTypeOK', StreamInv, Len(log) >= 1,
         NEW id \in Ids, NEW part \in 1 .. maxChunkCount,
         NEW kind \in {"C", "F", "A"}, NEW seq, Send(id, part, kind, seq),
         id <= requestId', requestId <= requestId'
  PROVE  StreamInv'
<1> DEFINE c == Sending(id, part, kind, seq)
           L == Len(log)
           N == Len(Ahead)
<1>1. up = "open" /\ Grown(log', log, After(log[L], c)) /\ Coming(Ahead', Ahead, c) /\ c \in Chunks
  BY SendIs
<1>2. c.nth = L + 1 /\ c.body.id = id
  BY DEF Sending
<1>3. L \in Nat /\ N \in Nat /\ requestId \in Nat /\ requestId' \in Nat /\ id \in Nat /\ L >= 1
  <2>1. Ahead \in Seq(Units)
    BY AheadIs
  <2>2. N \in Nat
    BY <2>1, UnitsAre
  <2>3. L \in Nat /\ requestId \in Nat /\ requestId' \in Nat
    BY BoundsAssumption DEF ChunkTypeOK
  <2> QED
    BY <2>2, <2>3, BoundsAssumption DEF Ids
<1>4. \A k \in 1 .. N : /\ Ahead[k].chunk.nth \in Nat /\ Position(Ahead[k]) \in Nat
                        /\ Ahead[k].chunk.body.id \in Nat
  <2>1. \A k \in 1 .. N : /\ Ahead[k].chunk \in Chunks
                          /\ Ahead[k].chunk.nth \in Nat /\ Position(Ahead[k]) \in Nat
    BY AheadIs, UnitsAre
  <2> QED
    BY <2>1 DEF Chunks, Parts, Ids
<1> HIDE DEF c, L, N
<1>5. /\ Len(log') = L + 1 /\ (\A n \in 1 .. L : log'[n] = log[n]) /\ log'[L + 1] = After(log[L], c)
  BY <1>1 DEF Grown, L
<1>6. /\ Len(Ahead') = N + 3 /\ (\A k \in 1 .. N : Ahead'[k] = Ahead[k])
      /\ \A i \in 1 .. 3 : Ahead'[N + i].chunk = c /\ Ahead'[N + i].at = i
  BY <1>1 DEF Coming, N
<1>7. ASSUME NEW i \in 1 .. 3 PROVE Position(Ahead'[N + i]) = 3 * L + 3 + i
  <2>1. Ahead'[N + i].chunk = c /\ Ahead'[N + i].at = i
    BY <1>6
  <2> QED
    BY <2>1, <1>2, <1>3 DEF Position
<1>8. ASSUME NEW k \in 1 .. N
      PROVE  /\ Ahead'[k] = Ahead[k] /\ Logged(Ahead[k], log, requestId)
             /\ Ahead[k].chunk.nth <= L /\ Ahead[k].chunk.nth >= 2
             /\ Position(Ahead[k]) = 3 * L + 3 + k - N
  <2>1. Ahead'[k] = Ahead[k] /\ Logged(Ahead[k], log, requestId)
    BY <1>6 DEF StreamInv, N
  <2>2. Ahead[k].chunk.nth <= L /\ Ahead[k].chunk.nth >= 2
    BY <2>1 DEF Logged, L
  <2>3. N \in 1 .. N /\ Ahead # <<>>
    BY <1>3, AheadIs, UnitsAre DEF N
  <2>4. Position(Ahead[N]) = 3 * L + 3
    BY <1>1, <2>3 DEF StreamInv, L, N
  <2>5. Position(Ahead[k]) - Position(Ahead[N]) = k - N
    BY <2>3 DEF StreamInv, InOrder, N
  <2>6. Position(Ahead[k]) \in Nat
    BY <1>4
  <2> QED
    BY <1>3, <2>1, <2>2, <2>4, <2>5, <2>6
<1>9. ASSUME NEW k \in 1 .. Len(Ahead')
      PROVE  \/ k \in 1 .. N
             \/ k - N \in 1 .. 3 /\ Ahead'[k].chunk = c /\ Ahead'[k].at = k - N
                /\ Position(Ahead'[k]) = 3 * L + 3 + k - N
  <2>1. CASE k > N
    <3>1. k - N \in 1 .. 3 /\ N + (k - N) = k
      BY <1>3, <1>6, <2>1
    <3> QED
      BY <3>1, <1>3, <1>6, <1>7
  <2> QED
    BY <2>1, <1>3
<1>10. ASSUME NEW k \in 1 .. Len(Ahead') PROVE Logged(Ahead'[k], log', requestId')
  <2>1. CASE k \in 1 .. N
    <3>1. Ahead'[k] = Ahead[k] /\ Logged(Ahead[k], log, requestId)
      BY <2>1, <1>8
    <3>2. Ahead[k].chunk.body.id \in Nat
      BY <2>1, <1>4
    <3>3. Logged(Ahead[k], log', requestId')
      BY <1>3, <1>5, <3>1, <3>2, LoggedOn DEF L
    <3> QED
      BY <3>1, <3>3
  <2>2. CASE Ahead'[k].chunk = c
    BY <2>2, <1>2, <1>3, <1>5 DEF Logged
  <2> QED
    BY <2>1, <2>2, <1>9
<1>11. ASSUME NEW k \in 1 .. Len(Ahead')
       PROVE  /\ Position(Ahead'[k]) = 3 * L + 3 + k - N
              /\ Ahead'[k].chunk = c \/ (k \in 1 .. N /\ Ahead'[k].chunk.nth < c.nth)
  <2>1. CASE k \in 1 .. N
    <3>1. Ahead[k].chunk.nth \in Nat
      BY <2>1, <1>4
    <3>2. /\ Ahead'[k] = Ahead[k] /\ Ahead[k].chunk.nth <= L
          /\ Position(Ahead[k]) = 3 * L + 3 + k - N
      BY <2>1, <1>8
    <3>3. c.nth = L + 1 /\ L \in Nat
      BY <1>2, <1>3
    <3>4. Ahead[k].chunk.nth <= L
      BY <3>2
    <3>5. Ahead[k].chunk.nth < L + 1
      <4>1. \A a, b \in Nat : a <= b => a < b + 1
        OBVIOUS
      <4> QED
        BY <3>1, <3>3, <3>4, <4>1, Zenon
    <3>6. Ahead'[k].chunk.nth < c.nth
      BY <3>2, <3>3, <3>5
    <3> QED
      BY <2>1, <3>2, <3>6
  <2> QED
    BY <2>1, <1>9
<1>12. InOrder(Ahead')
  <2> SUFFICES ASSUME NEW j \in 1 .. Len(Ahead'), NEW k \in 1 .. Len(Ahead')
               PROVE  /\ Position(Ahead'[k]) - Position(Ahead'[j]) = k - j
                      /\ Ahead'[j].chunk.nth = Ahead'[k].chunk.nth => Ahead'[j].chunk = Ahead'[k].chunk
    BY DEF InOrder
  <2>1. Position(Ahead'[k]) - Position(Ahead'[j]) = k - j
    BY <1>3, <1>6, <1>11
  <2>2. CASE j \in 1 .. N /\ k \in 1 .. N
    BY <2>2, <1>8 DEF StreamInv, InOrder, N
  <2>3. CASE Ahead'[j].chunk = c \/ Ahead'[k].chunk = c
    <3>1. Ahead'[j].chunk = c \/ Ahead'[j].chunk.nth < c.nth
      BY <1>11
    <3>2. Ahead'[k].chunk = c \/ Ahead'[k].chunk.nth < c.nth
      BY <1>11
    <3> QED
      BY <2>1, <2>3, <3>1, <3>2, <1>2, <1>3
  <2> QED
    BY <2>1, <2>2, <2>3, <1>11
<1>13. up' = "open" /\ Ahead' # <<>> => Position(Ahead'[Len(Ahead')]) = 3 * Len(log') + 3
  BY <1>3, <1>5, <1>6, <1>11
<1> QED
  BY <1>10, <1>12, <1>13 DEF StreamInv

(* The receiver still follows, with one more chunk to come.                *)
LEMMA SendFollows ==
  ASSUME ChunkTypeOK, ChunkTypeOK', StreamInv, StreamInv', Len(log) >= 1,
         NEW id \in Ids, NEW part \in 1 .. maxChunkCount,
         NEW kind \in {"C", "F", "A"}, NEW seq, Send(id, part, kind, seq),
         NEW rn \in 1 .. Len(log), Follows(rn)
  PROVE  rn \in 1 .. Len(log') /\ Follows(rn)'
<1> DEFINE c == Sending(id, part, kind, seq)
           L == Len(log)
           N == Len(Ahead)
<1>1. /\ up = "open" /\ Grown(log', log, After(log[L], c)) /\ Coming(Ahead', Ahead, c)
      /\ UNCHANGED <<recvSeq, lost, delivered, chunks>>
  BY SendIs DEF Send, history
<1>2. c.nth = L + 1
  BY DEF Sending
<1>3. L \in Nat /\ N \in Nat /\ (Ahead # <<>> <=> N >= 1) /\ rn \in 1 .. L
  <2>1. Ahead \in Seq(Units) /\ L \in Nat
    <3>1. log \in Seq(Marks)
      BY DEF ChunkTypeOK
    <3> QED
      BY <3>1, AheadIs
  <2> QED
    BY <2>1, UnitsAre
<1> HIDE DEF c, L, N
<1>4. /\ Len(log') = L + 1 /\ log'[rn] = log[rn]
  BY <1>1, <1>3 DEF Grown, L
<1>5. /\ Len(Ahead') = N + 3 /\ (\A k \in 1 .. N : Ahead'[k] = Ahead[k])
      /\ \A i \in 1 .. 3 : Ahead'[N + i].chunk = c /\ Ahead'[N + i].at = i
  BY <1>1 DEF Coming, N
<1>6. rn \in 1 .. Len(log') /\ recvSeq' = log'[rn].seq
  BY <1>1, <1>3, <1>4 DEF Follows
<1>7. Ahead' # <<>>
  BY <1>3, <1>5, AheadIsNext, UnitsAre
<1>8. CASE Unbroken(rn)
  <2>1. Position(Ahead'[1]) = 3 * rn + 4
    <3>1. CASE N = 0
      <4>1. rn = L
        BY <1>1, <1>3, <1>8, <3>1 DEF Unbroken, L
      <4>2. Ahead'[1].chunk = c /\ Ahead'[1].at = 1
        BY <1>5, <3>1
      <4> QED
        BY <1>2, <1>3, <4>1, <4>2 DEF Position
    <3>2. CASE N >= 1
      BY <1>3, <1>5, <1>8, <3>2 DEF Unbroken
    <3> QED
      BY <3>1, <3>2, <1>3
  <2>2. Unbroken(rn)'
    BY <1>1, <1>4, <1>7, <1>8, <2>1 DEF Unbroken
  <2> QED
    BY <2>2, <1>6 DEF Follows
<1>9. CASE Gap(rn)
  <2>1. ASSUME NEW k \in 1 .. Len(Ahead'), Ahead'[k].at = 1 PROVE Ahead'[k].chunk.nth > rn + 1
    <3>1. CASE k \in 1 .. N
      BY <2>1, <3>1, <1>5, <1>9 DEF Gap, N
    <3>2. CASE k > N
      <4>1. k - N \in 1 .. 3 /\ N + (k - N) = k
        BY <1>3, <1>5, <3>2
      <4>2. Ahead'[k].chunk = c
        BY <4>1, <1>5
      <4>3. rn < L
        BY <1>9 DEF Gap, L
      <4> QED
        BY <4>2, <4>3, <1>2, <1>3
    <3> QED
      BY <3>1, <3>2, <1>3
  <2>2. rn < Len(log') /\ lost' /\ recvSeq' < RollFrom
    BY <1>1, <1>3, <1>4, <1>9 DEF Gap
  <2>3. Gap(rn)'
    BY <2>1, <2>2 DEF Gap
  <2> QED
    BY <2>3, <1>6 DEF Follows
<1> QED
  BY <1>8, <1>9 DEF Follows

LEMMA LastMark ==
  ASSUME ChunkTypeOK, LogInv
  PROVE  /\ log \in Seq(Marks) /\ Len(log) \in Nat /\ Len(log) \in 1 .. Len(log)
         /\ log[Len(log)] \in Marks
<1>1. log \in Seq(Marks)
  BY DEF ChunkTypeOK
<1>2. Len(log) \in Nat /\ Len(log) >= 1
  BY <1>1 DEF LogInv
<1>3. Len(log) \in 1 .. Len(log)
  BY <1>2
<1> QED
  BY <1>1, <1>2, <1>3, ElementOfSeq

(* Of a message under way or to be begun the receiver is owed the parts    *)
(* sent.                                                                   *)
LEMMA OwedIs ==
  ASSUME ChunkTypeOK, IdsAreNew, LogInv, NEW id \in Ids, Fresh(id) \/ Begun(id),
         writing[id] + 1 <= maxChunkCount
  PROVE  Append(log[Len(log)].held[id], [id |-> id, part |-> writing[id] + 1])
           = Whole(id, writing[id] + 1).body
<1>1. writing[id] \in Nat /\ writing[id] <= maxChunkCount /\ requestId \in Nat /\ id \in Nat
  BY BoundsAssumption DEF ChunkTypeOK, Ids
<1>2. Owed(log[Len(log)].held, writing, requestId)
  BY DEF LogInv
<1>3. log[Len(log)].held[id] = Whole(id, writing[id]).body
  <2>1. CASE Begun(id)
    BY <2>1, <1>2 DEF Owed, Begun
  <2>2. CASE Fresh(id)
    <3>1. id > requestId
      BY <2>2, <1>1 DEF Fresh
    <3>2. log[Len(log)].held[id] = <<>> /\ writing[id] = 0
      BY <3>1, <1>2 DEF Owed, IdsAreNew
    <3>3. Whole(id, 0).body = <<>>
      BY DEF Whole
    <3> QED
      BY <3>2, <3>3
  <2> QED
    BY <2>1, <2>2
<1>4. Append(Whole(id, writing[id]).body, [id |-> id, part |-> writing[id] + 1])
        = Whole(id, writing[id] + 1).body
  BY <1>1, WholeIs
<1> QED
  BY <1>3, <1>4

LEMMA SendLink ==
  ASSUME ChunkInv, ChunkTypeOK', up # "closed", NEW id \in Ids, NEW part \in 1 .. maxChunkCount,
         NEW kind \in {"C", "F", "A"}, NEW seq, Send(id, part, kind, seq),
         id <= requestId', requestId <= requestId',
         After(log[Len(log)], Sending(id, part, kind, seq)).sent = sent',
         sent' = sent \/ \E m \in Messages : sent' = Append(sent, m),
         Owed(After(log[Len(log)], Sending(id, part, kind, seq)).held, writing', requestId')
  PROVE  Linked'
<1>1. ChunkTypeOK /\ LogInv /\ StreamInv /\ (~blind => \E rn \in 1 .. Len(log) : Follows(rn))
  BY DEF ChunkInv, Linked
<1>2. LogInv'
  BY <1>1, SendLog
<1>3. Len(log) >= 1
  BY <1>1 DEF LogInv
<1>4. StreamInv'
  BY <1>1, <1>3, SendStream
<1>5. ASSUME ~blind' PROVE \E rn \in 1 .. Len(log') : Follows(rn)'
  <2>1. ~blind
    BY <1>5 DEF Send, history
  <2>2. PICK rn \in 1 .. Len(log) : Follows(rn)
    BY <1>1, <2>1
  <2>3. rn \in 1 .. Len(log') /\ Follows(rn)'
    BY <1>1, <1>3, <1>4, <2>2, SendFollows
  <2> QED
    BY <2>3
<1> QED
  BY <1>2, <1>4, <1>5 DEF Linked

LEMMA SendChunkInv ==
  ASSUME ChunkInv, ChunkTypeOK', NEW id \in Ids, NEW kind \in {"C", "F"}, NEW seq,
         SendChunk(id, kind, seq)
  PROVE  ChunkInv'
<1> DEFINE part == writing[id] + 1
           mark == log[Len(log)]
           new == After(mark, Sending(id, part, kind, seq))
<1>1. up = "open" /\ Send(id, part, kind, seq) /\ ChunkTypeOK /\ LogInv /\ IdsAreNew
  BY DEF SendChunk, Send, ChunkInv, Linked
<1>2. part \in 1 .. maxChunkCount
  <2>1. writing[id] \in 0 .. maxChunkCount
    BY <1>1 DEF ChunkTypeOK
  <2>2. part <= maxChunkCount
    BY DEF SendChunk
  <2> QED
    BY <2>1, <2>2, BoundsAssumption
<1>3. /\ requestId' = IF Fresh(id) THEN id ELSE requestId
      /\ writing' = [writing EXCEPT ![id] = IF kind = "C" THEN part ELSE 0]
      /\ sent' = IF kind = "F" THEN Append(sent, Whole(id, part)) ELSE sent
      /\ Fresh(id) \/ Begun(id)
  BY DEF SendChunk
<1>4. id <= requestId' /\ requestId <= requestId' /\ requestId \in Nat /\ requestId' \in Nat /\ id \in Nat
  <2>1. requestId \in Nat /\ requestId' \in Nat /\ id \in Nat /\ writing[id] \in Nat
    BY <1>1, BoundsAssumption DEF ChunkTypeOK, Ids
  <2>2. CASE Fresh(id)
    BY <2>1, <2>2, <1>3 DEF Fresh
  <2>3. CASE ~Fresh(id)
    <3>1. ~ (id > requestId)
      BY <2>1, <2>3, <1>1, <1>3 DEF Begun, IdsAreNew
    <3> QED
      BY <2>1, <2>3, <3>1, <1>3
  <2> QED
    BY <2>2, <2>3
<1>5. mark \in Marks /\ mark.sent = sent /\ Owed(mark.held, writing, requestId)
      /\ mark.held \in [Ids -> Seq(Parts)]
  <2>1. mark \in Marks
    BY <1>1, LastMark
  <2> QED
    BY <2>1, <1>1 DEF LogInv, Marks
<1>6. Append(mark.held[id], [id |-> id, part |-> part]) = Whole(id, part).body
  <2>1. writing[id] + 1 <= maxChunkCount /\ (Fresh(id) \/ Begun(id))
    BY <1>2, <1>3
  <2>2. Append(log[Len(log)].held[id], [id |-> id, part |-> writing[id] + 1])
          = Whole(id, writing[id] + 1).body
    BY <1>1, <2>1, OwedIs
  <2> QED
    BY <2>2
<1>7. new.sent = sent'
  <2>1. Whole(id, part) = [id |-> id, body |-> Whole(id, part).body]
    BY DEF Whole
  <2> QED
    BY <1>3, <1>5, <1>6, <2>1 DEF After, Sending
<1>8. new.held = [mark.held EXCEPT ![id] = IF kind = "C" THEN Whole(id, part).body ELSE <<>>]
  BY <1>6 DEF After, Sending
<1>9. writing \in [Ids -> 0 .. maxChunkCount] /\ (sent' = sent \/ \E m \in Messages : sent' = Append(sent, m))
  <2>1. Whole(id, part) \in Messages
    BY <1>2, WholeType
  <2> QED
    BY <1>1, <1>3, <2>1 DEF ChunkTypeOK
<1> HIDE DEF part, mark, new
<1>10. Owed(new.held, writing', requestId')
  <2> SUFFICES ASSUME NEW j \in Ids
               PROVE  /\ j > requestId' => new.held[j] = <<>>
                      /\ writing'[j] > 0 => new.held[j] = Whole(j, writing'[j]).body
    BY DEF Owed
  <2>0. j \in Nat
    BY DEF Ids
  <2>1. CASE j = id
    <3>1. new.held[j] = (IF kind = "C" THEN Whole(id, part).body ELSE <<>>)
          /\ writing'[j] = (IF kind = "C" THEN part ELSE 0)
      BY <2>1, <1>3, <1>5, <1>8, <1>9
    <3> QED
      BY <3>1, <2>1, <1>4
  <2>2. CASE j # id
    <3>1. new.held[j] = mark.held[j] /\ writing'[j] = writing[j]
      BY <2>2, <1>3, <1>5, <1>8, <1>9
    <3> QED
      BY <3>1, <2>0, <1>4, <1>5 DEF Owed
  <2> QED
    BY <2>1, <2>2
<1>11. Linked'
  BY <1>1, <1>2, <1>4, <1>7, <1>9, <1>10, SendLink DEF new, mark
<1>12. IdsAreNew'
  <2> SUFFICES ASSUME NEW j \in Ids, j > requestId' PROVE chunks'[j] = <<>> /\ writing'[j] = 0
    BY DEF IdsAreNew
  <2>1. j > requestId /\ j # id
    BY <1>4 DEF Ids
  <2>2. chunks[j] = <<>> /\ writing[j] = 0 /\ chunks' = chunks
    BY <2>1, <1>1 DEF IdsAreNew, Send
  <2> QED
    BY <2>1, <2>2, <1>3, <1>9
<1> QED
  BY <1>1, <1>11, <1>12 DEF ChunkInv, BetweenReads, Send, buffers, history

LEMMA SendAbortInv ==
  ASSUME ChunkInv, ChunkTypeOK', NEW id \in Ids, NEW seq, SendAbort(id, seq)
  PROVE  ChunkInv'
<1> DEFINE mark == log[Len(log)]
           new == After(mark, Sending(id, 1, "A", seq))
<1>1. up = "open" /\ Send(id, 1, "A", seq) /\ ChunkTypeOK /\ LogInv /\ IdsAreNew
  BY DEF SendAbort, Send, ChunkInv, Linked
<1>2. 1 \in 1 .. maxChunkCount
  BY BoundsAssumption
<1>3. /\ writing' = [writing EXCEPT ![id] = 0] /\ writing \in [Ids -> 0 .. maxChunkCount]
      /\ requestId' = requestId /\ sent' = sent /\ Begun(id)
  BY <1>1 DEF SendAbort, ChunkTypeOK
<1>4. id <= requestId
  <2>1. requestId \in Nat /\ id \in Nat /\ writing[id] \in Nat
    BY <1>1, BoundsAssumption DEF ChunkTypeOK, Ids
  <2> QED
    BY <2>1, <1>1, <1>3 DEF Begun, IdsAreNew
<1>5. mark.sent = sent /\ Owed(mark.held, writing, requestId) /\ mark.held \in [Ids -> Seq(Parts)]
  <2>1. mark \in Marks
    BY <1>1, LastMark
  <2> QED
    BY <2>1, <1>1 DEF LogInv, Marks
<1>6. new.sent = sent' /\ new.held = [mark.held EXCEPT ![id] = <<>>]
  BY <1>3, <1>5 DEF After, Sending
<1> HIDE DEF mark, new
<1>7. Owed(new.held, writing', requestId')
  <2> SUFFICES ASSUME NEW j \in Ids
               PROVE  /\ j > requestId' => new.held[j] = <<>>
                      /\ writing'[j] > 0 => new.held[j] = Whole(j, writing'[j]).body
    BY DEF Owed
  <2>1. CASE j = id
    BY <2>1, <1>3, <1>5, <1>6
  <2>2. CASE j # id
    <3>1. new.held[j] = mark.held[j] /\ writing'[j] = writing[j]
      BY <2>2, <1>3, <1>5, <1>6
    <3> QED
      BY <3>1, <1>3, <1>5 DEF Owed
  <2> QED
    BY <2>1, <2>2
<1>8. requestId <= requestId' /\ id <= requestId'
  BY <1>1, <1>3, <1>4 DEF ChunkTypeOK
<1>9. Linked'
  BY <1>1, <1>2, <1>3, <1>6, <1>7, <1>8, SendLink DEF new, mark
<1>10. IdsAreNew'
  <2> SUFFICES ASSUME NEW j \in Ids, j > requestId PROVE chunks'[j] = <<>> /\ writing'[j] = 0
    BY <1>3 DEF IdsAreNew
  <2>1. chunks[j] = <<>> /\ writing[j] = 0 /\ chunks' = chunks
    BY <1>1 DEF IdsAreNew, Send
  <2> QED
    BY <2>1, <1>3
<1> QED
  BY <1>1, <1>9, <1>10 DEF ChunkInv, BetweenReads, Send, buffers, history

-----------------------------------------------------------------------------
(* Giving up, breaking, connecting, closing.                               *)

LEMMA GiveUpInv ==
  ASSUME ChunkInv, ChunkTypeOK', NEW id \in Ids, GiveUp(id)
  PROVE  ChunkInv'
<1>1. /\ up = "open" /\ up' = "open" /\ ChunkTypeOK /\ LogInv /\ StreamInv /\ IdsAreNew
      /\ (~blind => \E rn \in 1 .. Len(log) : Follows(rn))
  BY DEF GiveUp, ChunkInv, Linked
<1>2. /\ writing' = [writing EXCEPT ![id] = 0] /\ writing \in [Ids -> 0 .. maxChunkCount]
      /\ UNCHANGED <<stage, called, incomplete, message, stream, chunks, recvSeq, sendSeq, requestId,
                     log, sent, delivered, lost, blind, bounds>>
  BY <1>1 DEF GiveUp, ChunkTypeOK, buffers, history
<1>3. \A j \in Ids : writing'[j] = 0 \/ writing'[j] = writing[j]
  BY <1>2
<1>4. Owed(log[Len(log)].held, writing', requestId')
  BY <1>1, <1>2, <1>3 DEF Owed, LogInv
<1>5. LogInv'
  BY <1>1, <1>2, <1>4 DEF LogInv
<1>6. Ahead' = Ahead
  BY <1>2 DEF Ahead
<1>7. StreamInv'
  BY <1>1, <1>2, <1>6 DEF StreamInv
<1>8. ASSUME NEW rn \in 1 .. Len(log), Follows(rn) PROVE Follows(rn)'
  BY <1>1, <1>2, <1>6, <1>8 DEF Follows, Unbroken, Gap
<1>9. Linked'
  BY <1>1, <1>2, <1>5, <1>7, <1>8 DEF Linked
<1>10. IdsAreNew'
  BY <1>1, <1>2, <1>3 DEF IdsAreNew
<1> QED
  BY <1>1, <1>2, <1>9, <1>10 DEF ChunkInv, BetweenReads

LEMMA BreakInv ==
  ASSUME ChunkInv, ChunkTypeOK', NEW n \in 0 .. Len(stream), Break(n)
  PROVE  ChunkInv'
<1>1. /\ up = "open" /\ up' = "broken" /\ ChunkTypeOK /\ LogInv /\ StreamInv /\ IdsAreNew
      /\ (~blind => \E rn \in 1 .. Len(log) : Follows(rn))
      /\ stream' = SubSeq(stream, 1, n) /\ stream \in Seq(Units)
  BY DEF Break, ChunkInv, Linked, ChunkTypeOK
<1>2. UNCHANGED <<stage, called, incomplete, message, chunks, recvSeq, sendSeq, writing, requestId,
                  log, sent, delivered, lost, blind, bounds>>
  BY DEF Break, buffers, sender, history
<1>3. /\ stream' \in Seq(Units) /\ Len(stream') = n /\ n <= Len(stream)
      /\ \A k \in 1 .. n : stream'[k] = stream[k]
  BY <1>1, TakeIs
<1>4. Len(Ahead') \in Nat /\ Len(Ahead) \in Nat /\ (Ahead # <<>> <=> Len(Ahead) >= 1)
      /\ (Ahead' # <<>> <=> Len(Ahead') >= 1)
  BY <1>1, AheadIs, AheadIsNext, UnitsAre
<1>5. ASSUME NEW p \in Seq(Units), Ahead = p \o stream, Ahead' = p \o stream'
      PROVE  Len(Ahead') <= Len(Ahead) /\ \A k \in 1 .. Len(Ahead') : Ahead'[k] = Ahead[k]
  <2>1. /\ Len(Ahead) = Len(p) + Len(stream)
        /\ \A k \in 1 .. Len(p) + Len(stream) : Ahead[k] = IF k <= Len(p) THEN p[k] ELSE stream[k - Len(p)]
    BY <1>1, <1>5, UnitsJoin
  <2>2. /\ Len(Ahead') = Len(p) + Len(stream')
        /\ \A k \in 1 .. Len(p) + Len(stream') : Ahead'[k] = IF k <= Len(p) THEN p[k] ELSE stream'[k - Len(p)]
    BY <1>3, <1>5, UnitsJoin
  <2>3. Len(p) \in Nat /\ Len(stream) \in Nat /\ n \in Nat
    BY <1>1, <1>5
  <2>4. ASSUME NEW k \in 1 .. Len(Ahead') PROVE Ahead'[k] = Ahead[k]
    <3>1. k \in 1 .. Len(p) + Len(stream') /\ k \in 1 .. Len(p) + Len(stream)
      BY <1>3, <2>2, <2>3
    <3>2. CASE k <= Len(p)
      BY <3>1, <3>2, <2>1, <2>2
    <3>3. CASE ~ (k <= Len(p))
      <4>1. k - Len(p) \in 1 .. n
        BY <3>1, <3>3, <1>3, <2>3
      <4> QED
        BY <4>1, <3>1, <3>3, <1>3, <2>1, <2>2
    <3> QED
      BY <3>2, <3>3
  <2> QED
    BY <1>3, <2>1, <2>2, <2>3, <2>4
<1>6. Len(Ahead') <= Len(Ahead) /\ \A k \in 1 .. Len(Ahead') : Ahead'[k] = Ahead[k]
  <2>1. CASE stage = "recv"
    <3>1. incomplete \in Seq(Units) /\ Ahead = incomplete \o stream /\ Ahead' = incomplete \o stream'
      BY <2>1, <1>1, <1>2 DEF Ahead, ChunkTypeOK
    <3> QED
      BY <3>1, <1>5
  <2>2. CASE stage # "recv"
    <3>1. message \in Seq(Units) /\ Ahead = message \o stream /\ Ahead' = message \o stream'
      BY <2>2, <1>1, <1>2 DEF Ahead, ChunkTypeOK
    <3> QED
      BY <3>1, <1>5
  <2> QED
    BY <2>1, <2>2
<1>7. \A k \in 1 .. Len(Ahead') : k \in 1 .. Len(Ahead)
  BY <1>4, <1>6
<1>8. StreamInv'
  <2>1. \A k \in 1 .. Len(Ahead') : Logged(Ahead'[k], log', requestId')
    BY <1>1, <1>2, <1>6, <1>7 DEF StreamInv
  <2>2. InOrder(Ahead')
    <3> SUFFICES ASSUME NEW j \in 1 .. Len(Ahead'), NEW k \in 1 .. Len(Ahead')
                 PROVE  /\ Position(Ahead'[k]) - Position(Ahead'[j]) = k - j
                        /\ Ahead'[j].chunk.nth = Ahead'[k].chunk.nth => Ahead'[j].chunk = Ahead'[k].chunk
      BY DEF InOrder
    <3>1. /\ j \in 1 .. Len(Ahead) /\ k \in 1 .. Len(Ahead)
          /\ Ahead'[j] = Ahead[j] /\ Ahead'[k] = Ahead[k]
      BY <1>6, <1>7
    <3> QED
      BY <3>1, <1>1 DEF StreamInv, InOrder
  <2> QED
    BY <1>1, <2>1, <2>2 DEF StreamInv
<1>9. LogInv'
  BY <1>1, <1>2 DEF LogInv
<1>10. ASSUME NEW rn \in 1 .. Len(log), Follows(rn) PROVE Follows(rn)'
  <2>1. recvSeq' = log'[rn].seq
    BY <1>2, <1>10 DEF Follows
  <2>2. CASE Unbroken(rn)
    <3>1. Ahead' # <<>> => Ahead # <<>> /\ Ahead'[1] = Ahead[1]
      BY <1>4, <1>6
    <3>2. Unbroken(rn)'
      BY <1>1, <1>2, <2>2, <3>1 DEF Unbroken
    <3> QED
      BY <2>1, <3>2 DEF Follows
  <2>3. CASE Gap(rn)
    <3>1. Gap(rn)'
      BY <1>2, <1>6, <1>7, <2>3 DEF Gap
    <3> QED
      BY <2>1, <3>1 DEF Follows
  <2> QED
    BY <1>10, <2>2, <2>3 DEF Follows
<1>11. Linked'
  BY <1>1, <1>2, <1>8, <1>9, <1>10 DEF Linked
<1>12. IdsAreNew'
  BY <1>1, <1>2 DEF IdsAreNew
<1> QED
  BY <1>1, <1>2, <1>11, <1>12 DEF ChunkInv, BetweenReads

LEMMA ConnectInv ==
  ASSUME ChunkInv, ChunkTypeOK', NEW s \in First, ConnectAnew(s)
  PROVE  ChunkInv'
<1>1. /\ up = "closed" /\ up' = "open" /\ ChunkTypeOK /\ IdsAreNew /\ BetweenReads
      /\ stage = "recv" /\ stage' = "recv"
  BY DEF ConnectAnew, ChunkInv, BetweenReads, ChunkTypeOK
<1>2. /\ stream' = <<>> /\ incomplete' = <<>> /\ recvSeq' = s /\ sendSeq' = s
      /\ writing' = [id \in Ids |-> 0]
      /\ log' = <<[seq |-> s, sent |-> <<>>, held |-> chunks]>>
      /\ sent' = <<>> /\ delivered' = <<>> /\ lost' = FALSE /\ blind' = FALSE
      /\ UNCHANGED <<message, stage, called, chunks, requestId>>
  BY DEF ConnectAnew
<1>3. Ahead' = <<>> /\ Len(Ahead') = 0
  <2>1. Ahead' = <<>> \o <<>>
    BY <1>1, <1>2 DEF Ahead
  <2> QED
    BY <2>1
<1>4. Len(log') = 1 /\ log'[1] = [seq |-> s, sent |-> <<>>, held |-> chunks]
  BY <1>2
<1>5. bounds'.sends \in Nat
  BY BoundsAssumption DEF ChunkTypeOK
<1>6. Owed(chunks, writing', requestId')
  BY <1>1, <1>2 DEF Owed, IdsAreNew
<1>7. Beginning(<<>>, <<>>)
  <2>1. <<>> \in Seq(Messages)
    OBVIOUS
  <2> QED
    BY <2>1, BeginningAll
<1>8. LogInv'
  BY <1>2, <1>4, <1>5, <1>6, <1>7 DEF LogInv
<1>9. StreamInv'
  BY <1>3 DEF StreamInv, InOrder
<1>10. Follows(1)' /\ 1 \in 1 .. Len(log')
  BY <1>2, <1>3, <1>4 DEF Follows, Unbroken
<1>11. Linked'
  BY <1>8, <1>9, <1>10 DEF Linked
<1>12. IdsAreNew'
  BY <1>1, <1>2 DEF IdsAreNew
<1> QED
  BY <1>1, <1>2, <1>11, <1>12 DEF ChunkInv, BetweenReads

LEMMA CloseInv ==
  ASSUME ChunkInv, ChunkTypeOK', Close
  PROVE  ChunkInv'
<1>1. /\ up' = "closed" /\ stream' = <<>> /\ message' = <<>> /\ stage' = "recv" /\ called' = FALSE
      /\ chunks' = None /\ UNCHANGED <<requestId, writing, lost, blind>>
  BY DEF Close, sender, history
<1>2. IdsAreNew'
  BY <1>1 DEF ChunkInv, IdsAreNew, None
<1> QED
  BY <1>1, <1>2 DEF ChunkInv, BetweenReads

LEMMA CloseLostInv ==
  ASSUME ChunkInv, ChunkTypeOK', CloseLost
  PROVE  ChunkInv'
<1>1. /\ up' = "closed" /\ stream = <<>> /\ stage = "recv"
      /\ UNCHANGED <<stream, message, stage, called, incomplete, chunks, requestId, writing, lost, blind>>
  BY DEF CloseLost, buffers, sender, history
<1>2. IdsAreNew'
  BY <1>1 DEF ChunkInv, IdsAreNew
<1> QED
  BY <1>1, <1>2 DEF ChunkInv, BetweenReads

-----------------------------------------------------------------------------
(* Receiving.                                                              *)

LEMMA ReceiveInv ==
  ASSUME ChunkInv, ChunkTypeOK', NEW n \in 1 .. Len(stream), Receive(n)
  PROVE  ChunkInv'
<1>1. /\ ChunkTypeOK /\ IdsAreNew /\ BetweenReads
      /\ stream \in Seq(Units) /\ incomplete \in Seq(Units) /\ n \in 0 .. Len(stream)
  <2>1. stream \in Seq(Units) /\ incomplete \in Seq(Units)
    BY DEF ChunkInv, ChunkTypeOK
  <2> QED
    BY <2>1 DEF ChunkInv
<1>2. /\ up # "closed" /\ stage = "recv" /\ Reads(n)
      /\ message' = incomplete \o SubSeq(stream, 1, n) /\ incomplete' = <<>> /\ stage' = "chunks"
      /\ stream' = SubSeq(stream, n + 1, Len(stream))
      /\ UNCHANGED <<up, called, chunks, recvSeq, sendSeq, writing, requestId, log, sent,
                     delivered, lost, blind, bounds>>
  BY DEF Receive, Reads, sender, history
<1>3. Ahead' = Ahead
  <2>1. SubSeq(stream, 1, n) \in Seq(Units) /\ SubSeq(stream, n + 1, Len(stream)) \in Seq(Units)
    BY <1>1, TakeIs, DropIs
  <2>2. SubSeq(stream, 1, n) \o SubSeq(stream, n + 1, Len(stream)) = stream
    <3> DEFINE a == SubSeq(stream, 1, n)
               b == SubSeq(stream, n + 1, Len(stream))
    <3>1. /\ Len(a) = n /\ (\A k \in 1 .. n : a[k] = stream[k])
          /\ Len(b) = Len(stream) - n /\ \A k \in 1 .. Len(b) : b[k] = stream[k + n]
      BY <1>1, TakeIs, DropIs DEF Cut
    <3>2. a \in Seq(Units) /\ b \in Seq(Units)
      BY <2>1
    <3> HIDE DEF a, b
    <3>3. /\ a \o b \in Seq(Units) /\ Len(a \o b) = n + Len(b)
          /\ \A k \in 1 .. n + Len(b) : (a \o b)[k] = IF k <= n THEN a[k] ELSE b[k - n]
      BY <3>1, <3>2, UnitsJoin
    <3>4. ASSUME NEW k \in 1 .. Len(a \o b) PROVE (a \o b)[k] = stream[k]
      <4>1. CASE k <= n
        BY <4>1, <3>1, <3>3
      <4>2. CASE ~ (k <= n)
        <5>1. k - n \in 1 .. Len(b) /\ (k - n) + n = k
          BY <4>2, <1>1, <3>1, <3>3
        <5> QED
          BY <5>1, <4>2, <3>1, <3>3
      <4> QED
        BY <4>1, <4>2
    <3>5. Len(a \o b) = Len(stream)
      BY <1>1, <3>1, <3>3
    <3>6. a \o b = stream
      BY <1>1, <3>3, <3>4, <3>5, SeqEqual
    <3> QED
      BY <3>6 DEF a, b
  <2>3. (incomplete \o SubSeq(stream, 1, n)) \o SubSeq(stream, n + 1, Len(stream))
          = incomplete \o (SubSeq(stream, 1, n) \o SubSeq(stream, n + 1, Len(stream)))
    BY <1>1, <2>1, UnitsJoined
  <2> QED
    BY <1>2, <2>2, <2>3 DEF Ahead
<1>4. Cut(Ahead', Ahead, 0) /\ 0 \in 0 .. Len(Ahead)
  BY <1>1, <1>3, AheadIs, UnitsAre DEF Cut
<1>5. Linked'
  BY <1>2, <1>4, CutLink
<1> QED
  BY <1>1, <1>2, <1>5 DEF ChunkInv, BetweenReads, IdsAreNew

LEMMA PrependFailsInv ==
  ASSUME ChunkInv, ChunkTypeOK', NEW n \in 1 .. Len(stream), PrependFails(n)
  PROVE  ChunkInv'
<1>1. /\ ChunkTypeOK /\ IdsAreNew /\ BetweenReads /\ n \in 0 .. Len(stream)
      /\ stream \in Seq(Units) /\ incomplete \in Seq(Units)
  <2>1. stream \in Seq(Units) /\ incomplete \in Seq(Units)
    BY DEF ChunkInv, ChunkTypeOK
  <2> QED
    BY <2>1 DEF ChunkInv
<1>2. /\ up # "closed" /\ stage = "recv" /\ stage' = "recv" /\ incomplete' = <<>>
      /\ stream' = SubSeq(stream, n + 1, Len(stream))
      /\ UNCHANGED <<up, message, stage, called, chunks, recvSeq, sendSeq, writing, requestId, log, sent,
                     delivered>>
      /\ lost' = TRUE /\ blind' = (blind \/ recvSeq >= RollFrom) /\ Fails
  BY DEF PrependFails, Reads, Lose, sender
<1>3. bounds'.sends = bounds.sends
  BY <1>1, <1>2 DEF Fails, ChunkTypeOK
<1>4. Ahead = incomplete \o stream /\ Ahead' = SubSeq(stream, n + 1, Len(stream))
  <2>1. SubSeq(stream, n + 1, Len(stream)) \in Seq(Units)
    BY <1>1, DropIs
  <2> QED
    BY <1>2, <2>1, ConcatEmptySeq DEF Ahead
<1> DEFINE d == Len(incomplete) + n
<1>5. Cut(Ahead', Ahead, d)
  BY <1>1, <1>4, BehindIs
<1>6. d \in 0 .. Len(Ahead) /\ d >= 1
  <2>1. Len(incomplete) \in Nat /\ Len(stream) \in Nat /\ Len(Ahead) = Len(incomplete) + Len(stream)
    BY <1>1, <1>4, UnitsJoin
  <2> QED
    BY <2>1
<1> HIDE DEF d
<1>7. Linked'
  BY <1>2, <1>3, <1>5, <1>6, CutLink
<1> QED
  BY <1>1, <1>2, <1>7 DEF ChunkInv, BetweenReads, IdsAreNew

(* What is in hand is kept.                                                *)
LEMMA BufferInv ==
  ASSUME ChunkInv, ChunkTypeOK', Buffer
  PROVE  ChunkInv'
<1>1. ChunkTypeOK /\ IdsAreNew /\ BetweenReads
  BY DEF ChunkInv
<1>2. /\ stage = "chunks" /\ stage' = "recv" /\ incomplete' = message /\ message' = <<>> /\ called' = FALSE
      /\ UNCHANGED <<up, stream, chunks, recvSeq, sendSeq, writing, requestId, log, sent,
                     delivered, lost, blind, bounds>>
  BY DEF Buffer, sender, history
<1>3. Ahead' = Ahead
  BY <1>2 DEF Ahead
<1>4. Cut(Ahead', Ahead, 0) /\ 0 \in 0 .. Len(Ahead) /\ up # "closed"
  BY <1>1, <1>2, <1>3, AheadIs, UnitsAre DEF Cut, BetweenReads
<1>5. Linked'
  BY <1>2, <1>4, CutLink
<1> QED
  BY <1>1, <1>2, <1>5 DEF ChunkInv, BetweenReads, IdsAreNew

(* What is in hand is thrown away.                                         *)
LEMMA DropMessage ==
  ASSUME ChunkTypeOK, BetweenReads, stage = "chunks", stage' = "recv",
         incomplete' = incomplete, stream' = stream
  PROVE  Cut(Ahead', Ahead, Len(message)) /\ Len(message) \in 0 .. Len(Ahead)
<1>1. /\ message \in Seq(Units) /\ stream \in Seq(Units) /\ incomplete = <<>>
      /\ Ahead = message \o stream /\ Ahead' = <<>> \o stream
  BY DEF Ahead, BetweenReads, ChunkTypeOK
<1>2. Ahead' = stream
  BY <1>1, ConcatEmptySeq
<1>3. /\ Len(Ahead) = Len(message) + Len(stream) /\ Len(message) \in Nat /\ Len(stream) \in Nat
      /\ \A k \in 1 .. Len(message) + Len(stream) :
           Ahead[k] = IF k <= Len(message) THEN message[k] ELSE stream[k - Len(message)]
  BY <1>1, UnitsJoin
<1>4. ASSUME NEW k \in 1 .. Len(stream) PROVE stream[k] = Ahead[k + Len(message)]
  <2>1. /\ k + Len(message) \in 1 .. Len(message) + Len(stream) /\ ~ (k + Len(message) <= Len(message))
        /\ (k + Len(message)) - Len(message) = k
    BY <1>3
  <2> QED
    BY <2>1, <1>3
<1>5. Len(stream) = Len(Ahead) - Len(message) /\ Len(message) \in 0 .. Len(Ahead)
  BY <1>3
<1> QED
  BY <1>2, <1>4, <1>5 DEF Cut

LEMMA BufferFailsInv ==
  ASSUME ChunkInv, ChunkTypeOK', BufferFails
  PROVE  ChunkInv'
<1>1. ChunkTypeOK /\ IdsAreNew /\ BetweenReads /\ message \in Seq(Units)
  BY DEF ChunkInv, ChunkTypeOK
<1>2. /\ stage = "chunks" /\ stage' = "recv" /\ message # <<>> /\ message' = <<>> /\ called' = FALSE
      /\ UNCHANGED <<up, stream, incomplete, chunks, recvSeq, sendSeq, writing, requestId, log, sent,
                     delivered>>
      /\ lost' = TRUE /\ blind' = (blind \/ recvSeq >= RollFrom) /\ Fails
  BY DEF BufferFails, Lose, sender
<1>3. bounds'.sends = bounds.sends
  BY <1>1, <1>2 DEF Fails, ChunkTypeOK
<1>4. Cut(Ahead', Ahead, Len(message)) /\ Len(message) \in 0 .. Len(Ahead)
  BY <1>1, <1>2, DropMessage
<1>5. Len(message) >= 1 /\ up # "closed"
  BY <1>1, <1>2, UnitsAre DEF BetweenReads
<1>6. Linked'
  BY <1>2, <1>3, <1>4, <1>5, CutLink
<1> QED
  BY <1>1, <1>2, <1>6 DEF ChunkInv, BetweenReads, IdsAreNew

(* Only after a loss does anything but a chunk follow.                     *)
LEMMA NoHeaderIsLost ==
  ASSUME ChunkInv, stage = "chunks", ~NeedsMore, ~AtHeader
  PROVE  lost
<1>1. /\ ChunkTypeOK /\ BetweenReads /\ up # "closed" /\ lost \in BOOLEAN
      /\ StreamInv /\ (~blind => \E rn \in 1 .. Len(log) : Follows(rn))
      /\ message \in Seq(Units) /\ stream \in Seq(Units)
  BY DEF ChunkInv, BetweenReads, Linked, ChunkTypeOK
<1>2. Len(message) >= 1 /\ Len(message) \in Nat /\ message # <<>>
  BY <1>1, UnitsAre DEF NeedsMore
<1>3. Ahead = message \o stream /\ Ahead # <<>> /\ Ahead[1] = message[1]
  <2>1. Ahead = message \o stream
    BY <1>1 DEF Ahead
  <2>2. /\ Len(message \o stream) = Len(message) + Len(stream) /\ Len(stream) \in Nat
        /\ \A k \in 1 .. Len(message) + Len(stream) :
             (message \o stream)[k] = IF k <= Len(message) THEN message[k] ELSE stream[k - Len(message)]
    BY <1>1, UnitsJoin
  <2>3. (message \o stream)[1] = message[1] /\ Len(message \o stream) >= 1
    BY <1>2, <2>2
  <2> QED
    BY <1>1, <2>1, <2>3, AheadIs, UnitsAre
<1> SUFFICES ASSUME ~lost PROVE FALSE
  BY <1>1
<1>5. PICK rn \in 1 .. Len(log) : Follows(rn)
  BY <1>1 DEF BetweenReads
<1>6. Position(Ahead[1]) = 3 * rn + 4
  BY <1>3, <1>5 DEF Follows, Unbroken, Gap
<1>7. Ahead[1].at = 1
  BY <1>1, <1>3, <1>6, FirstIs
<1> QED
  BY <1>2, <1>3, <1>7 DEF AtHeader

LEMMA BadHeaderInv ==
  ASSUME ChunkInv, ChunkTypeOK', BadHeader
  PROVE  ChunkInv'
<1>1. CASE called
  BY <1>1, CloseInv DEF BadHeader
<1>2. CASE ~called
  <2>1. ChunkTypeOK /\ IdsAreNew /\ BetweenReads
    BY DEF ChunkInv
  <2>2. /\ stage = "chunks" /\ stage' = "recv" /\ message' = <<>> /\ ~NeedsMore /\ ~AtHeader
        /\ UNCHANGED <<up, stream, incomplete, called, chunks, recvSeq, sendSeq, writing, requestId, log,
                       sent, delivered, lost, blind, bounds>>
    BY <1>2 DEF BadHeader, sender, history
  <2>3. Cut(Ahead', Ahead, Len(message)) /\ Len(message) \in 0 .. Len(Ahead)
    BY <2>1, <2>2, DropMessage
  <2>4. lost /\ up # "closed"
    BY <2>1, <2>2, NoHeaderIsLost DEF BetweenReads
  <2>5. Linked'
    BY <2>2, <2>3, <2>4, CutLink
  <2>6. called' = FALSE
    BY <1>2, <2>1, <2>2 DEF ChunkTypeOK
  <2> QED
    BY <2>1, <2>2, <2>5, <2>6 DEF ChunkInv, BetweenReads, IdsAreNew
<1> QED
  BY <1>1, <1>2

LEMMA SmallMod == ASSUME NEW m \in Nat, NEW n \in Nat, n < m PROVE n % m = n
OBVIOUS

LEMMA AfterAre ==
  ASSUME NEW mark, NEW c
  PROVE  /\ After(mark, c).seq = c.seq
         /\ After(mark, c).sent =
              IF c.kind = "F"
              THEN Append(mark.sent, [id |-> c.body.id, body |-> Append(mark.held[c.body.id], c.body)])
              ELSE mark.sent
         /\ After(mark, c).held =
              [mark.held EXCEPT ![c.body.id] = IF c.kind = "C" THEN Append(mark.held[c.body.id], c.body)
                                               ELSE <<>>]
BY DEF After

LEMMA SameChunk ==
  ASSUME NEW u \in Units, NEW v \in Units, u.at = 1, v.at = 3, Position(v) - Position(u) = 2
  PROVE  v.chunk.nth = u.chunk.nth
<1>1. u.chunk.nth \in Nat /\ v.chunk.nth \in Nat
  BY DEF Units, Chunks
<1>2. Position(u) = 3 * u.chunk.nth + 1 /\ Position(v) = 3 * v.chunk.nth + 3
  BY DEF Position
<1> DEFINE a == u.chunk.nth
           b == v.chunk.nth
<1>3. a \in Nat /\ b \in Nat /\ (3 * b + 3) - (3 * a + 1) = 2
  BY <1>1, <1>2
<1> HIDE DEF a, b
<1>4. a = b
  BY <1>3
<1> QED
  BY <1>4 DEF a, b

(* A complete chunk is the first of the units ahead.                       *)
LEMMA CompleteAhead ==
  ASSUME ChunkTypeOK, Complete
  PROVE  /\ Ahead # <<>> /\ 1 \in 1 .. Len(Ahead) /\ 3 \in 1 .. Len(Ahead)
         /\ Ahead[1] = message[1] /\ Ahead[3] = EndUnit
<1>1. stage = "chunks" /\ Len(message) >= 3
  BY CompleteIs
<1>2. message \in Seq(Units) /\ stream \in Seq(Units)
  BY DEF ChunkTypeOK
<1>3. Ahead = message \o stream
  BY <1>1 DEF Ahead
<1>4. /\ Len(Ahead) = Len(message) + Len(stream) /\ Len(stream) \in Nat /\ Len(message) \in Nat
      /\ \A k \in 1 .. Len(message) + Len(stream) :
           Ahead[k] = IF k <= Len(message) THEN message[k] ELSE stream[k - Len(message)]
  BY <1>2, <1>3, UnitsJoin
<1>5. Len(Ahead) >= 3 /\ Ahead[1] = message[1] /\ Ahead[3] = message[3]
  BY <1>1, <1>4
<1>6. Ahead # <<>>
  BY <1>4, <1>5, AheadIs, UnitsAre
<1> QED
  BY <1>4, <1>5, <1>6 DEF EndUnit

(* With nothing missing the next complete chunk is the one that follows,   *)
(* and after a gap none is accepted; after it the receiver is where the    *)
(* log says.                                                               *)
LEMMA AcceptedIs ==
  ASSUME ChunkInv, Accepted, ~blind
  PROVE  /\ ~lost
         /\ \E rn \in 1 .. Len(log) :
              /\ rn < Len(log) /\ Follows(rn) /\ EndUnit.chunk.nth = rn + 1
              /\ message[1].chunk = EndUnit.chunk
              /\ log[rn + 1] = After(log[rn], EndUnit.chunk)
<1>1. /\ ChunkTypeOK /\ Complete /\ EndUnit.at = 3 /\ Accepts(EndUnit.chunk.seq)
      /\ stage = "chunks" /\ Len(message) >= 3 /\ message[1].at = 1
      /\ message[1] \in Units /\ EndUnit \in Units
      /\ EndUnit.chunk.seq \in 0 .. Modulus - 1
  BY CompleteIs DEF Accepted, ChunkInv
<1>2. /\ up # "closed" /\ LogInv /\ StreamInv /\ lost \in BOOLEAN
      /\ message \in Seq(Units) /\ stream \in Seq(Units)
  BY <1>1 DEF ChunkInv, BetweenReads, Linked, ChunkTypeOK
<1>3. PICK rn \in 1 .. Len(log) : Follows(rn)
  BY <1>2 DEF ChunkInv, Linked
<1> DEFINE c == EndUnit.chunk
<1>4. /\ message[1].chunk.nth \in Nat /\ c.nth \in Nat /\ c.seq \in Nat
      /\ Len(log) \in Nat /\ rn \in Nat /\ recvSeq \in 0 .. Modulus - 1
  <2>1. message[1].chunk.nth \in Nat /\ c.nth \in Nat
    BY <1>1, UnitIs
  <2>2. c.seq \in Nat
    BY <1>1, NumbersAssumption
  <2>3. Len(log) \in Nat /\ recvSeq \in 0 .. Modulus - 1
    BY <1>1 DEF ChunkTypeOK
  <2> QED
    BY <2>1, <2>2, <2>3, <1>3
<1>. EndUnit.chunk = c
  OBVIOUS
<1> HIDE DEF c
<1>5. /\ Ahead # <<>> /\ 1 \in 1 .. Len(Ahead) /\ 3 \in 1 .. Len(Ahead)
      /\ Ahead[1] = message[1] /\ Ahead[3] = EndUnit
  BY <1>1, CompleteAhead
<1>6. c.nth = message[1].chunk.nth /\ message[1].chunk = c
  <2>1. Position(EndUnit) - Position(message[1]) = 2
    BY <1>2, <1>5 DEF StreamInv, InOrder
  <2>2. c.nth = message[1].chunk.nth
    <3>1. EndUnit.chunk.nth = message[1].chunk.nth
      BY <1>1, <2>1, SameChunk
    <3> QED
      BY <3>1
  <2>3. Ahead[1].chunk.nth = Ahead[3].chunk.nth => Ahead[1].chunk = Ahead[3].chunk
    BY <1>2, <1>5 DEF StreamInv, InOrder
  <2> QED
    BY <2>2, <2>3, <1>5
<1>7. c.nth \in 2 .. Len(log) /\ log[c.nth] = After(log[c.nth - 1], c)
  BY <1>2, <1>5 DEF StreamInv, Logged
<1>8. log[c.nth].seq = c.seq
  <2> DEFINE before == log[c.nth - 1]
  <2> HIDE DEF before
  <2>1. After(before, c).seq = c.seq
    BY DEF After
  <2> QED
    BY <1>7, <2>1 DEF before
<1>9. ~lost
  <2> SUFFICES ASSUME lost PROVE FALSE
    BY <1>2
  <2>0. recvSeq \in Nat
    BY <1>4, NumbersAssumption
  <2>1. recvSeq < RollFrom /\ c.nth > rn + 1 /\ recvSeq = log[rn].seq
    BY <1>1, <1>3, <1>5, <1>6 DEF Follows, Gap, Unbroken
  <2>2. c.nth \in 1 .. Len(log) /\ rn < c.nth
    BY <1>4, <1>7, <2>1
  <2>3. Counts(recvSeq, rn, c.seq, c.nth)
    BY <1>2, <1>3, <1>8, <2>1, <2>2 DEF LogInv
  <2>4. c.seq = recvSeq + (c.nth - rn) \/ c.seq + RollFrom + 2 <= recvSeq + (c.nth - rn) + RollTo
    BY <2>1, <2>3 DEF Counts
  <2>5. /\ RollFrom \in Nat /\ RollTo \in Nat /\ Modulus \in Nat /\ RollFrom < Modulus
        /\ MaxSends \in Nat /\ MaxSends <= RollFrom - RollTo + 2
    BY NumbersAssumption, BoundsAssumption, OnceAssumption
  <2>6. (recvSeq + 1) % Modulus = recvSeq + 1
    <3>1. recvSeq + 1 \in Nat /\ recvSeq + 1 < Modulus
      BY <2>0, <2>1, <2>5
    <3> QED
      BY <3>1, <2>5, SmallMod
  <2>7. c.seq = recvSeq + 1
    <3>1. c.seq = recvSeq + 1 \/ recvSeq + 1 > RollFrom
      BY <1>1, <2>6 DEF Accepts
    <3> QED
      BY <3>1, <2>0, <2>1, <2>5
  <2>8. c.nth - rn <= MaxSends
    <3>1. Len(log) <= MaxSends + 1
      <4>1. bounds.sends \in 0 .. MaxSends
        BY <1>1 DEF ChunkTypeOK
      <4>2. Len(log) <= bounds.sends + 1
        BY <1>2 DEF LogInv
      <4> QED
        BY <4>1, <4>2, <1>4, <2>5
    <3> QED
      BY <3>1, <1>3, <1>4, <1>7, <2>5
  <2>9. rn \in Nat /\ c.nth \in Nat /\ c.nth - rn > 1 /\ c.nth - rn <= MaxSends
    BY <1>4, <2>1, <2>8
  <2> QED
    BY <2>0, <2>4, <2>5, <2>7, <2>9
<1>10. c.nth = rn + 1 /\ rn < Len(log)
  <2>1. Position(Ahead[1]) = 3 * rn + 4
    BY <1>3, <1>5, <1>9 DEF Follows, Unbroken, Gap
  <2> QED
    BY <1>1, <1>2, <1>3, <1>5, <1>6, <2>1, FirstIs
<1>11. log[rn + 1] = After(log[rn], c)
  BY <1>4, <1>7, <1>10
<1> QED
  BY <1>3, <1>6, <1>9, <1>10, <1>11

(* What each kind of chunk does to chunks and delivered, in one.           *)
Takes(c) ==
  /\ chunks' = [chunks EXCEPT ![c.body.id] = IF c.kind = "C" THEN Append(@, c.body) ELSE <<>>]
  /\ delivered' = IF c.kind = "F"
                  THEN Append(delivered, [id |-> c.body.id, body |-> Append(chunks[c.body.id], c.body)])
                  ELSE delivered

LEMMA AcceptLink ==
  ASSUME ChunkInv, ChunkTypeOK', Accepted, Done, ~blind => Takes(EndUnit.chunk)
  PROVE  Linked'
<1>1. /\ ChunkTypeOK /\ Complete /\ stage = "chunks" /\ Len(message) >= 3
      /\ Rest \in Seq(Units) /\ Cut(Rest, message, 3)
  BY CompleteIs DEF Accepted, ChunkInv
<1>2. /\ up # "closed" /\ LogInv /\ StreamInv
      /\ message \in Seq(Units) /\ stream \in Seq(Units)
  BY <1>1 DEF ChunkInv, BetweenReads, Linked, ChunkTypeOK
<1>3. /\ message' = Rest /\ recvSeq' = EndUnit.chunk.seq
      /\ UNCHANGED <<up, stream, incomplete, stage, sendSeq, writing, requestId, log, sent,
                     lost, blind, bounds>>
  BY DEF Done, sender
<1>4. /\ Len(message) \in Nat /\ Len(stream) \in Nat /\ Len(Rest) = Len(message) - 3
      /\ \A k \in 1 .. Len(Rest) : Rest[k] = message[k + 3]
  BY <1>1, <1>2 DEF Cut
<1>5. Ahead = message \o stream /\ Ahead' = Rest \o stream
  BY <1>1, <1>3 DEF Ahead
<1>6. /\ Len(Ahead) = Len(message) + Len(stream)
      /\ \A k \in 1 .. Len(message) + Len(stream) :
           Ahead[k] = IF k <= Len(message) THEN message[k] ELSE stream[k - Len(message)]
  BY <1>2, <1>5, UnitsJoin
<1>7. /\ Len(Ahead') = Len(Rest) + Len(stream)
      /\ \A k \in 1 .. Len(Rest) + Len(stream) :
           Ahead'[k] = IF k <= Len(Rest) THEN Rest[k] ELSE stream[k - Len(Rest)]
  BY <1>1, <1>2, <1>5, UnitsJoin
<1>8. Cut(Ahead', Ahead, 3) /\ 3 \in 0 .. Len(Ahead)
  <2>1. ASSUME NEW k \in 1 .. Len(Ahead') PROVE Ahead'[k] = Ahead[k + 3]
    <3>1. k \in 1 .. Len(Rest) + Len(stream) /\ k + 3 \in 1 .. Len(message) + Len(stream)
      BY <1>4, <1>7
    <3>2. CASE k <= Len(Rest)
      <4>1. k \in 1 .. Len(Rest) /\ k + 3 <= Len(message)
        BY <3>1, <3>2, <1>4
      <4> QED
        BY <4>1, <3>1, <3>2, <1>4, <1>6, <1>7
    <3>3. CASE ~ (k <= Len(Rest))
      <4>1. ~ (k + 3 <= Len(message)) /\ (k + 3) - Len(message) = k - Len(Rest)
        BY <3>1, <3>3, <1>4
      <4> QED
        BY <4>1, <3>1, <3>3, <1>6, <1>7
    <3> QED
      BY <3>2, <3>3
  <2> QED
    BY <2>1, <1>1, <1>4, <1>6, <1>7 DEF Cut
<1>9. LogInv' /\ StreamInv'
  BY <1>1, <1>2, <1>3, <1>8, SameLog, CutStream
<1>10. ASSUME ~blind' PROVE \E rn \in 1 .. Len(log') : Follows(rn)'
  <2> DEFINE c == EndUnit.chunk
  <2>1. ~blind /\ Takes(c)
    BY <1>3, <1>10
  <2>2. ~lost
    BY <2>1, AcceptedIs
  <2>3. PICK rn \in 1 .. Len(log) : /\ rn < Len(log) /\ Follows(rn) /\ c.nth = rn + 1
                                    /\ log[rn + 1] = After(log[rn], c)
    BY <2>1, AcceptedIs
  <2>4. /\ Ahead # <<>> => Position(Ahead[1]) = 3 * rn + 4
        /\ delivered = log[rn].sent /\ chunks = log[rn].held
    BY <2>2, <2>3 DEF Follows, Unbroken, Gap
  <2>5. rn \in Nat /\ rn + 1 \in 1 .. Len(log) /\ Len(log) \in Nat
    <3>1. Len(log) \in Nat
      BY <1>1 DEF ChunkTypeOK
    <3> QED
      BY <3>1, <2>3
  <2>6. Ahead # <<>> /\ Len(Ahead) \in Nat /\ Len(Ahead) >= 3 /\ (Ahead' # <<>> <=> Len(Ahead') >= 1)
        /\ Len(Ahead') = Len(Ahead) - 3
    <3>1. Ahead \in Seq(Units) /\ Ahead' \in Seq(Units)
      BY <1>1, AheadIs, AheadIsNext
    <3>2. Len(Ahead') = Len(Ahead) - 3 /\ Len(Ahead) \in Nat /\ Len(Ahead) >= 3
      BY <1>1, <1>4, <1>6, <1>8 DEF Cut
    <3> QED
      BY <3>1, <3>2, UnitsAre
  <2>7. recvSeq' = log'[rn + 1].seq /\ delivered' = log'[rn + 1].sent /\ chunks' = log'[rn + 1].held
    <3>1. log' = log /\ recvSeq' = c.seq
      BY <1>3
    <3> HIDE DEF c
    <3> DEFINE next == After(log[rn], c)
    <3>2. /\ next.seq = c.seq
          /\ next.sent = IF c.kind = "F"
                         THEN Append(log[rn].sent, [id |-> c.body.id, body |-> Append(log[rn].held[c.body.id], c.body)])
                         ELSE log[rn].sent
          /\ next.held = [log[rn].held EXCEPT ![c.body.id] = IF c.kind = "C" THEN Append(log[rn].held[c.body.id], c.body)
                                                               ELSE <<>>]
      BY AfterAre
    <3>3. /\ delivered' = IF c.kind = "F"
                          THEN Append(delivered, [id |-> c.body.id, body |-> Append(chunks[c.body.id], c.body)])
                          ELSE delivered
          /\ chunks' = [chunks EXCEPT ![c.body.id] = IF c.kind = "C" THEN Append(chunks[c.body.id], c.body) ELSE <<>>]
      BY <2>1 DEF Takes
    <3>4. log'[rn + 1] = next
      BY <3>1, <2>3
    <3> HIDE DEF next
    <3>5. recvSeq' = next.seq
      BY <3>1, <3>2
    <3>6. delivered' = next.sent
      BY <3>2, <3>3, <2>4
    <3>7. chunks' = next.held
      BY <3>2, <3>3, <2>4
    <3> QED
      BY <3>4, <3>5, <3>6, <3>7
  <2>8. Ahead' # <<>> => Position(Ahead'[1]) = 3 * (rn + 1) + 4
    <3> SUFFICES ASSUME Ahead' # <<>> PROVE Position(Ahead'[1]) = 3 * (rn + 1) + 4
      OBVIOUS
    <3>1. Ahead'[1] = Ahead[4] /\ 4 \in 1 .. Len(Ahead) /\ 1 \in 1 .. Len(Ahead)
      BY <1>8, <2>6 DEF Cut
    <3>2. Position(Ahead[4]) - Position(Ahead[1]) = 4 - 1
      BY <3>1, <1>2 DEF StreamInv, InOrder
    <3>3. Position(Ahead[4]) \in Nat
      BY <3>1, <1>1, AheadIs, UnitsAre
    <3> QED
      BY <2>4, <2>5, <2>6, <3>1, <3>2, <3>3
  <2>9. Ahead' = <<>> /\ up' = "open" => rn + 1 = Len(log')
    <3> SUFFICES ASSUME Ahead' = <<>>, up = "open" PROVE rn + 1 = Len(log)
      BY <1>3
    <3>1. Len(Ahead) = 3 /\ 3 \in 1 .. Len(Ahead) /\ 1 \in 1 .. Len(Ahead)
      BY <2>6
    <3>2. Position(Ahead[3]) - Position(Ahead[1]) = 3 - 1
      BY <3>1, <1>2 DEF StreamInv, InOrder
    <3>3. Position(Ahead[3]) = 3 * Len(log) + 3
      BY <3>1, <2>6, <1>2 DEF StreamInv
    <3> QED
      BY <2>4, <2>5, <2>6, <3>2, <3>3
  <2>10. Unbroken(rn + 1)'
    BY <1>3, <2>2, <2>7, <2>8, <2>9 DEF Unbroken
  <2>11. Follows(rn + 1)'
    BY <2>7, <2>10 DEF Follows
  <2> QED
    BY <1>3, <2>5, <2>11
<1> QED
  BY <1>9, <1>10 DEF Linked

(* Whatever an accepted chunk makes of channel->chunks is under an id used.*)
LEMMA AcceptInv ==
  ASSUME ChunkInv, ChunkTypeOK', Accepted, Done, NEW x,
         chunks' = [chunks EXCEPT ![EndUnit.chunk.body.id] = x],
         ~blind => Takes(EndUnit.chunk)
  PROVE  ChunkInv'
<1>1. /\ ChunkTypeOK /\ Complete /\ stage = "chunks" /\ EndUnit.chunk.body.id \in Ids
      /\ BetweenReads /\ IdsAreNew
  BY CompleteIs DEF Accepted, ChunkInv, Complete
<1>2. up # "closed" /\ incomplete = <<>> /\ StreamInv
  BY <1>1 DEF ChunkInv, BetweenReads, Linked
<1>3. UNCHANGED <<up, stream, incomplete, stage, requestId, writing, lost, blind>>
  BY DEF Done, sender
<1>4. Linked'
  BY AcceptLink
<1>5. EndUnit.chunk.body.id <= requestId
  BY <1>1, <1>2, CompleteAhead DEF StreamInv, Logged
<1>6. IdsAreNew'
  <2> SUFFICES ASSUME NEW id \in Ids, id > requestId
               PROVE  chunks'[id] = <<>> /\ writing[id] = 0
    BY <1>3 DEF IdsAreNew
  <2>1. chunks[id] = <<>> /\ writing[id] = 0
    BY <1>1 DEF IdsAreNew
  <2>2. id # EndUnit.chunk.body.id
    <3>1. id \in Nat /\ requestId \in Nat /\ EndUnit.chunk.body.id \in Nat
      <4>1. requestId \in 0 .. MaxIds
        BY <1>1 DEF ChunkTypeOK
      <4> QED
        BY <4>1, <1>1, BoundsAssumption DEF Ids
    <3> QED
      BY <3>1, <1>5
  <2>3. chunks \in [Ids -> Seq(Parts)]
    BY <1>1 DEF ChunkTypeOK
  <2>4. chunks'[id] = chunks[id]
    BY <2>2, <2>3
  <2> QED
    BY <2>1, <2>4
<1>7. BetweenReads'
  BY <1>1, <1>2, <1>3 DEF BetweenReads
<1> QED
  BY <1>4, <1>6, <1>7 DEF ChunkInv

(* An accepted chunk is of the kind its first unit says.                   *)
LEMMA KindIs ==
  ASSUME ChunkInv, Accepted, ~blind
  PROVE  EndUnit.chunk.kind = Kind
BY AcceptedIs DEF Kind

LEMMA IntermediateInv ==
  ASSUME ChunkInv, ChunkTypeOK', Intermediate
  PROVE  ChunkInv'
<1>1. /\ Accepted /\ Done /\ Kind = "C" /\ delivered' = delivered
      /\ chunks' = [chunks EXCEPT ![EndUnit.chunk.body.id] = Append(@, EndUnit.chunk.body)]
  BY DEF Intermediate
<1>2. ASSUME ~blind PROVE Takes(EndUnit.chunk)
  <2>1. EndUnit.chunk.kind = "C"
    BY <1>1, <1>2, KindIs
  <2> QED
    BY <1>1, <2>1 DEF Takes
<1> QED
  BY <1>1, <1>2, AcceptInv

LEMMA FinalInv ==
  ASSUME ChunkInv, ChunkTypeOK', Final
  PROVE  ChunkInv'
<1>1. /\ Accepted /\ Done /\ Kind = "F"
      /\ delivered' = Append(delivered, [id |-> EndUnit.chunk.body.id,
                                         body |-> Append(chunks[EndUnit.chunk.body.id], EndUnit.chunk.body)])
      /\ chunks' = [chunks EXCEPT ![EndUnit.chunk.body.id] = <<>>]
  BY DEF Final
<1>2. ASSUME ~blind PROVE Takes(EndUnit.chunk)
  <2>1. EndUnit.chunk.kind = "F"
    BY <1>1, <1>2, KindIs
  <2> QED
    BY <1>1, <2>1 DEF Takes
<1> QED
  BY <1>1, <1>2, AcceptInv

LEMMA AbortedInv ==
  ASSUME ChunkInv, ChunkTypeOK', Aborted
  PROVE  ChunkInv'
<1>1. /\ Accepted /\ Done /\ Kind = "A" /\ delivered' = delivered
      /\ chunks' = [chunks EXCEPT ![EndUnit.chunk.body.id] = <<>>]
  BY DEF Aborted
<1>2. ASSUME ~blind PROVE Takes(EndUnit.chunk)
  <2>1. EndUnit.chunk.kind = "A"
    BY <1>1, <1>2, KindIs
  <2> QED
    BY <1>1, <2>1 DEF Takes
<1> QED
  BY <1>1, <1>2, AcceptInv

-----------------------------------------------------------------------------
(* The invariant.                                                          *)

LEMMA ChunkInitInv == ChunkInit => ChunkInv
<1> SUFFICES ASSUME ChunkInit PROVE ChunkInv
  OBVIOUS
<1>1. /\ <<>> \in Seq(Units) /\ Len(<<>>) = 0 /\ <<>> \in Seq(Marks) /\ <<>> \in Seq(Messages)
      /\ None \in [Ids -> Seq(Parts)] /\ [id \in Ids |-> 0] \in [Ids -> 0 .. maxChunkCount]
      /\ 0 \in 0 .. Modulus - 1 /\ 0 \in 0 .. MaxIds
  BY NumbersAssumption, BoundsAssumption DEF None
<1>2. [sends |-> 0, fails |-> 0, connects |-> 0]
        \in [sends : 0 .. MaxSends, fails : 0 .. MaxFails, connects : 0 .. MaxConnects]
  BY BoundsAssumption
<1>3. ChunkTypeOK
  <2>1. /\ up \in {"open", "broken", "closed"} /\ stage \in {"recv", "chunks"}
        /\ called \in BOOLEAN /\ lost \in BOOLEAN /\ blind \in BOOLEAN
    BY DEF ChunkInit
  <2>2. /\ stream \in Seq(Units) /\ incomplete \in Seq(Units) /\ message \in Seq(Units)
        /\ Len(incomplete) < 3 /\ log \in Seq(Marks)
        /\ sent \in Seq(Messages) /\ delivered \in Seq(Messages)
    BY <1>1 DEF ChunkInit
  <2>3. /\ chunks \in [Ids -> Seq(Parts)] /\ recvSeq \in 0 .. Modulus - 1 /\ sendSeq \in 0 .. Modulus - 1
        /\ writing \in [Ids -> 0 .. maxChunkCount] /\ requestId \in 0 .. MaxIds
    BY <1>1 DEF ChunkInit
  <2>4. bounds \in [sends : 0 .. MaxSends, fails : 0 .. MaxFails, connects : 0 .. MaxConnects]
    BY <1>2 DEF ChunkInit
  <2> QED
    BY <2>1, <2>2, <2>3, <2>4 DEF ChunkTypeOK
<1>4. BetweenReads /\ IdsAreNew /\ up = "closed"
  BY DEF ChunkInit, BetweenReads, IdsAreNew, None
<1> QED
  BY <1>3, <1>4 DEF ChunkInv

LEMMA ChunkNextInv == ChunkInv /\ [ChunkNext]_chunkVars => ChunkInv'
<1> SUFFICES ASSUME ChunkInv, [ChunkNext]_chunkVars PROVE ChunkInv'
  OBVIOUS
<1>1. ChunkTypeOK'
  BY TypeNext DEF ChunkInv, Linked, LogInv
<1>2. ASSUME NEW s \in First, ConnectAnew(s) PROVE ChunkInv'
  BY <1>1, <1>2, ConnectInv
<1>3. ASSUME NEW id \in Ids, NEW seq \in 0 .. Modulus - 1, NEW kind \in {"C", "F"},
             SendChunk(id, kind, seq)
      PROVE  ChunkInv'
  BY <1>1, <1>3, SendChunkInv
<1>4. ASSUME NEW id \in Ids, NEW seq \in 0 .. Modulus - 1, SendAbort(id, seq) PROVE ChunkInv'
  BY <1>1, <1>4, SendAbortInv
<1>5. ASSUME NEW id \in Ids, GiveUp(id) PROVE ChunkInv'
  BY <1>1, <1>5, GiveUpInv
<1>6. ASSUME NEW n \in 0 .. Len(stream), Break(n) PROVE ChunkInv'
  BY <1>1, <1>6, BreakInv
<1>7. ASSUME NEW n \in 1 .. Len(stream), Receive(n) PROVE ChunkInv'
  BY <1>1, <1>7, ReceiveInv
<1>8. ASSUME NEW n \in 1 .. Len(stream), PrependFails(n) PROVE ChunkInv'
  BY <1>1, <1>8, PrependFailsInv
<1>9. CASE Buffer
  BY <1>1, <1>9, BufferInv
<1>10. CASE BufferFails
  BY <1>1, <1>10, BufferFailsInv
<1>11. CASE BadHeader
  BY <1>1, <1>11, BadHeaderInv
<1>12. CASE Intermediate
  BY <1>1, <1>12, IntermediateInv
<1>13. CASE Final
  BY <1>1, <1>13, FinalInv
<1>14. CASE Aborted
  BY <1>1, <1>14, AbortedInv
<1>15. CASE OutOfOrder \/ AppendFails \/ RecvFails \/ TimesOut
  BY <1>1, <1>15, CloseInv DEF OutOfOrder, AppendFails, RecvFails, TimesOut
<1>16. CASE CloseLost
  BY <1>1, <1>16, CloseLostInv
<1>17. CASE UNCHANGED chunkVars
  <2>1. /\ up' = up /\ stream' = stream /\ incomplete' = incomplete /\ message' = message
        /\ stage' = stage /\ called' = called /\ chunks' = chunks /\ recvSeq' = recvSeq
        /\ sendSeq' = sendSeq /\ writing' = writing /\ requestId' = requestId /\ log' = log
        /\ sent' = sent /\ delivered' = delivered /\ lost' = lost /\ blind' = blind
        /\ bounds' = bounds
    BY <1>17 DEF chunkVars, buffers, sender, history
  <2>2. IdsAreNew' = IdsAreNew /\ BetweenReads' = BetweenReads
    BY <2>1 DEF IdsAreNew, BetweenReads
  <2>3. Ahead' = Ahead
    BY <2>1 DEF Ahead
  <2>4. LogInv => LogInv'
    BY <2>1, SameLog
  <2>5. StreamInv' = StreamInv
    BY <2>1, <2>3 DEF StreamInv
  <2>6. ASSUME NEW rn PROVE Follows(rn) => Follows(rn)'
    BY <2>1, <2>3 DEF Follows, Unbroken, Gap
  <2>7. Linked => Linked'
    BY <2>1, <2>4, <2>5, <2>6 DEF Linked
  <2> QED
    BY <1>1, <2>1, <2>2, <2>7 DEF ChunkInv
<1> QED
  BY <1>2, <1>3, <1>4, <1>5, <1>6, <1>7, <1>8, <1>9, <1>10, <1>11, <1>12, <1>13, <1>14, <1>15,
     <1>16, <1>17 DEF ChunkNext, Sender, Receiver, ProcessChunk

(* The invariant the delivery in order rests on.                           *)
THEOREM ChunkInvariance == ChunkSpec => []ChunkInv
BY ChunkInitInv, ChunkNextInv, PTL DEF ChunkSpec

(* The connection and the channel hold units, parts and messages of chunks *)
(* and nothing else, and an incomplete chunk is shorter than one.          *)
THEOREM ChunkTypeCorrect == ChunkSpec => []ChunkTypeOK
<1>1. ChunkInv => ChunkTypeOK
  BY DEF ChunkInv
<1> QED
  BY <1>1, ChunkInvariance, PTL

-----------------------------------------------------------------------------
(* Delivery.                                                               *)

(* What comes after the beginning d of t, in a longer beginning.           *)
LEMMA NextOf ==
  ASSUME NEW t \in Seq(Messages), NEW d \in Seq(Messages), NEW m \in Messages,
         Beginning(Append(d, m), t)
  PROVE  Len(d) < Len(t) /\ m = t[Len(d) + 1]
<1> DEFINE e == Append(d, m)
<1>1. e \in Seq(Messages) /\ Len(e) = Len(d) + 1 /\ e[Len(d) + 1] = m /\ Len(d) \in Nat /\ Len(t) \in Nat
  BY AppendProperties
<1>2. Len(e) <= Len(t) /\ e = SubSeq(t, 1, Len(e))
  BY DEF Beginning
<1> HIDE DEF e
<1>3. Len(e) \in 0 .. Len(t) /\ Len(d) + 1 \in 1 .. Len(e)
  BY <1>1, <1>2
<1>4. \A k \in 1 .. Len(e) : SubSeq(t, 1, Len(e))[k] = t[k]
  BY <1>3, TakeIs
<1>5. SubSeq(t, 1, Len(e))[Len(d) + 1] = t[Len(d) + 1]
  BY <1>3, <1>4
<1> QED
  BY <1>1, <1>2, <1>3, <1>5

(* The message delivered is the next of those sent.                        *)
LEMMA DeliveredIs ==
  ASSUME ChunkInv, Final, ~blind
  PROVE  Fifo!Deliver
<1>1. /\ ChunkTypeOK /\ Accepted /\ Done /\ Kind = "F"
      /\ delivered' = Append(delivered, [id |-> EndUnit.chunk.body.id,
                                         body |-> Append(chunks[EndUnit.chunk.body.id], EndUnit.chunk.body)])
  BY DEF Final, ChunkInv
<1> DEFINE c == EndUnit.chunk
           m == [id |-> c.body.id, body |-> Append(chunks[c.body.id], c.body)]
<1>2. c \in Chunks /\ c.body \in Parts /\ c.body.id \in Ids /\ c.kind = "F"
  <2>1. Complete
    BY <1>1 DEF Accepted
  <2> QED
    BY <1>1, <2>1, CompleteIs, KindIs
<1>3. PICK rn \in 1 .. Len(log) : rn < Len(log) /\ Follows(rn) /\ log[rn + 1] = After(log[rn], c)
  BY <1>1, AcceptedIs
<1>4. ~lost
  BY <1>1, AcceptedIs
<1>5. delivered = log[rn].sent /\ chunks = log[rn].held
  BY <1>3, <1>4 DEF Follows, Unbroken, Gap
<1>6. /\ delivered \in Seq(Messages) /\ sent \in Seq(Messages) /\ chunks \in [Ids -> Seq(Parts)]
      /\ Len(log) \in Nat
  BY <1>1 DEF ChunkTypeOK
<1>7. m \in Messages
  <2>1. Append(chunks[c.body.id], c.body) \in Seq(Parts)
    BY <1>2, <1>6
  <2> QED
    BY <1>2, <2>1 DEF Messages
<1>8. \A n \in 1 .. Len(log) : Beginning(log[n].sent, sent)
  <2>1. stage = "chunks"
    BY <1>1 DEF Accepted, Complete
  <2> QED
    BY <2>1 DEF ChunkInv, BetweenReads, Linked, LogInv
<1> HIDE DEF c
<1>9. log[rn + 1].sent = Append(delivered, m)
  <2> DEFINE next == After(log[rn], c)
  <2>1. next.sent = IF c.kind = "F"
                    THEN Append(log[rn].sent, [id |-> c.body.id, body |-> Append(log[rn].held[c.body.id], c.body)])
                    ELSE log[rn].sent
    BY AfterAre
  <2> HIDE DEF next
  <2>2. next.sent = Append(log[rn].sent, [id |-> c.body.id, body |-> Append(log[rn].held[c.body.id], c.body)])
    BY <1>2, <2>1
  <2> QED
    BY <1>3, <1>5, <2>2 DEF next
<1>10. rn + 1 \in 1 .. Len(log)
  BY <1>3, <1>6
<1>11. delivered' = Append(delivered, m)
  BY <1>1 DEF c
<1> HIDE DEF m
<1>12. Beginning(Append(delivered, m), sent)
  BY <1>8, <1>9, <1>10
<1>13. Len(delivered) < Len(sent) /\ m = sent[Len(delivered) + 1]
  BY <1>6, <1>7, <1>12, NextOf
<1>14. UNCHANGED <<sent, blind>>
  BY <1>1 DEF Done, sender
<1> QED
  BY <1>11, <1>13, <1>14 DEF Fifo!Deliver

(* A message is sent with its final chunk.                                 *)
LEMMA SentIs ==
  ASSUME ChunkTypeOK, NEW id \in Ids, NEW kind \in {"C", "F"}, NEW seq, SendChunk(id, kind, seq)
  PROVE  Fifo!Send \/ UNCHANGED Fifo!vars
<1> DEFINE part == writing[id] + 1
<1>1. /\ sent' = IF kind = "F" THEN Append(sent, Whole(id, part)) ELSE sent
      /\ part <= maxChunkCount /\ Send(id, part, kind, seq)
  BY DEF SendChunk
<1>2. UNCHANGED <<delivered, blind>>
  BY <1>1 DEF Send, history
<1>3. part \in 1 .. maxChunkCount
  <2>1. writing[id] \in 0 .. maxChunkCount
    BY DEF ChunkTypeOK
  <2> QED
    BY <1>1, <2>1, BoundsAssumption
<1>4. Whole(id, part) \in Messages /\ sent \in Seq(Messages)
  BY <1>3, WholeType DEF ChunkTypeOK
<1> HIDE DEF part
<1>5. CASE kind = "F"
  <2> DEFINE m == Whole(id, part)
  <2>1. sent' = Append(sent, m) /\ m \in Messages
    BY <1>1, <1>4, <1>5
  <2> HIDE DEF m
  <2>2. /\ sent' \in Seq(Messages) /\ Len(sent') = Len(sent) + 1
        /\ \A k \in 1 .. Len(sent) : sent'[k] = sent[k]
    BY <2>1, <1>4, AppendProperties
  <2>3. Len(sent) \in Nat /\ Len(sent) \in 0 .. Len(sent')
    BY <2>2, <1>4
  <2>4. /\ SubSeq(sent', 1, Len(sent)) \in Seq(Messages) /\ Len(SubSeq(sent', 1, Len(sent))) = Len(sent)
        /\ \A k \in 1 .. Len(sent) : SubSeq(sent', 1, Len(sent))[k] = sent'[k]
    BY <2>2, <2>3, TakeIs
  <2>5. SubSeq(sent', 1, Len(sent)) = sent
    BY <1>4, <2>2, <2>4, SeqEqual
  <2> QED
    BY <1>2, <2>2, <2>5 DEF Fifo!Send
<1>6. CASE kind # "F"
  BY <1>1, <1>2, <1>6 DEF Fifo!vars
<1> QED
  BY <1>5, <1>6

LEMMA LoseIs ==
  ASSUME ChunkTypeOK, UNCHANGED <<sent, delivered>>, blind' = (blind \/ recvSeq >= RollFrom)
  PROVE  Fifo!Lose \/ UNCHANGED Fifo!vars
<1>1. blind \in BOOLEAN
  BY DEF ChunkTypeOK
<1>2. CASE blind \/ recvSeq >= RollFrom
  BY <1>2 DEF Fifo!Lose
<1>3. CASE ~ (blind \/ recvSeq >= RollFrom)
  BY <1>1, <1>3 DEF Fifo!vars
<1> QED
  BY <1>2, <1>3

LEMMA FifoStep ==
  ASSUME ChunkInv, [ChunkNext]_chunkVars
  PROVE  [Fifo!Next]_(Fifo!vars)
<1>0. ChunkTypeOK
  BY DEF ChunkInv
<1>1. ASSUME NEW s \in First, ConnectAnew(s) PROVE [Fifo!Next]_(Fifo!vars)
  BY <1>1 DEF ConnectAnew, Fifo!NewConnection, Fifo!Next
<1>2. ASSUME NEW id \in Ids, NEW seq \in 0 .. Modulus - 1, NEW kind \in {"C", "F"},
             SendChunk(id, kind, seq)
      PROVE  [Fifo!Next]_(Fifo!vars)
  BY <1>0, <1>2, SentIs DEF Fifo!Next
<1>3. ASSUME NEW id, NEW seq, SendAbort(id, seq) \/ GiveUp(id)
      PROVE  [Fifo!Next]_(Fifo!vars)
  BY <1>3 DEF SendAbort, GiveUp, Send, history, Fifo!vars
<1>4. ASSUME NEW n, Break(n) \/ Receive(n) PROVE [Fifo!Next]_(Fifo!vars)
  BY <1>4 DEF Break, Receive, sender, history, Fifo!vars
<1>5. ASSUME NEW n, PrependFails(n) PROVE [Fifo!Next]_(Fifo!vars)
  <2>1. UNCHANGED <<sent, delivered>> /\ blind' = (blind \/ recvSeq >= RollFrom)
    BY <1>5 DEF PrependFails, Lose, sender
  <2> QED
    BY <1>0, <2>1, LoseIs DEF Fifo!Next
<1>6. CASE BufferFails
  <2>1. UNCHANGED <<sent, delivered>> /\ blind' = (blind \/ recvSeq >= RollFrom)
    BY <1>6 DEF BufferFails, Lose, sender
  <2> QED
    BY <1>0, <2>1, LoseIs DEF Fifo!Next
<1>7. CASE Buffer \/ Intermediate \/ Aborted
  BY <1>7 DEF Buffer, Intermediate, Aborted, Done, sender, history, Fifo!vars
<1>8. ASSUME Close PROVE [Fifo!Next]_(Fifo!vars)
  BY <1>8 DEF Close, sender, history, Fifo!vars
<1>9. CASE BadHeader
  BY <1>8, <1>9 DEF BadHeader, sender, history, Fifo!vars
<1>10. CASE OutOfOrder \/ AppendFails \/ RecvFails \/ TimesOut
  BY <1>8, <1>10 DEF OutOfOrder, AppendFails, RecvFails, TimesOut
<1>11. CASE CloseLost
  BY <1>11 DEF CloseLost, sender, history, Fifo!vars
<1>12. CASE Final
  <2>1. CASE ~blind
    BY <1>12, <2>1, DeliveredIs DEF Fifo!Next
  <2>2. CASE blind
    <3>1. UNCHANGED <<sent, blind>>
      BY <1>12 DEF Final, Done, sender
    <3> QED
      BY <2>2, <3>1 DEF Fifo!DeliverBlind, Fifo!Next
  <2> QED
    BY <2>1, <2>2
<1>13. CASE UNCHANGED chunkVars
  BY <1>13 DEF chunkVars, sender, history, Fifo!vars
<1>14. CASE Sender
  BY <1>2, <1>3, <1>14 DEF Sender
<1>15. CASE ProcessChunk
  BY <1>6, <1>7, <1>9, <1>10, <1>12, <1>15 DEF ProcessChunk
<1>16. CASE Receiver
  BY <1>4, <1>5, <1>10, <1>15, <1>16 DEF Receiver
<1> QED
  BY <1>1, <1>4, <1>10, <1>11, <1>13, <1>14, <1>16 DEF ChunkNext

(* What is delivered on a connection is what was sent, in order, each      *)
(* message whole and once, until bytes are lost where the numbers roll     *)
(* over: the SecureChannel implements MessageFifo, for every Modulus and   *)
(* roll-over range, every cut of the stream and every number of chunks.    *)
THEOREM DeliversInOrder == ChunkSpec => ImplementsFifo
<1>1. ChunkInit => Fifo!Init
  BY DEF ChunkInit, Fifo!Init
<1>2. ChunkInv /\ [ChunkNext]_chunkVars => [Fifo!Next]_(Fifo!vars)
  BY FifoStep
<1> QED
  BY <1>1, <1>2, ChunkInvariance, PTL DEF ChunkSpec, ImplementsFifo, Fifo!Spec
=============================================================================
