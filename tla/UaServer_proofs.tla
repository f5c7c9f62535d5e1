--------------------------- MODULE UaServer_proofs ---------------------------
(***************************************************************************)
(* Proofs about the server's connections, channels and sessions, for every *)
(* number of them, all limits, all lifetimes, every number of values of    *)
(* the clock and any number of failures: types, that nothing points to     *)
(* freed memory and nothing is freed twice, that capacity is given back    *)
(* exactly once and the limits hold, who may close a channel that carries  *)
(* a session, that a session without a channel never gets one again, and   *)
(* that what has timed out goes as long as the clean-up runs.              *)
(*                                                                         *)
(* NoDangling is not inductive. A message could create a channel whose     *)
(* entry is still in memory, were a connection without a channel not sure  *)
(* to have none (Unattached); and a session that is on its way to be freed *)
(* could be closed a second time, were it not detached from its channel    *)
(* when it leaves the list (SessionsPoint says more than NoDangling).      *)
(* Neither is StaleGo: TimeInv measures what is left against the next run  *)
(* of the clean-up instead of the clock.                                   *)
(***************************************************************************)
EXTENDS UaServer, FiniteSetTheorems, TLAPS

(* A session with a channel is in the manager's list, and the channel's    *)
(* entry in memory.                                                        *)
SessionsPoint ==
  \A s \in Sessions : sess[s].chan # NONE => s \in sessions /\ chan[sess[s].chan] # "none"

(* A connection and its channel both exist.                                *)
ConnsPoint == \A c \in attached : chan[c] # "none" /\ conn[c] # "none"

(* An open connection without a channel has none left in memory.           *)
Unattached == \A c \in Conns : conn[c] # "none" /\ c \notin attached => chan[c] = "none"

(* The channels in memory are those in the list and those to be freed.     *)
Entries == \A c \in Conns : chan[c] # "none" <=> c \in channels \cup delayed

Disjoint == channels \cap delayed = {} /\ sessions \cap delayed = {}

Pointers == SessionsPoint /\ ConnsPoint /\ Unattached /\ Entries /\ Disjoint

IInv == TypeOK /\ Pointers /\ Capacity

-----------------------------------------------------------------------------
(* Sets of entries are finite, and what leaves a list is no longer counted.*)
LEMMA CardOfPart ==
  ASSUME NEW S, IsFiniteSet(S), NEW T, T \subseteq S
  PROVE  /\ IsFiniteSet(T) /\ Cardinality(T) \in Nat /\ Cardinality(S) \in Nat
         /\ Cardinality(T) <= Cardinality(S)
         /\ Cardinality(S \ T) = Cardinality(S) - Cardinality(T)
<1>1. IsFiniteSet(T) /\ Cardinality(T) <= Cardinality(S)
  BY FS_Subset
<1>2. Cardinality(T) \in Nat /\ Cardinality(S) \in Nat
  BY <1>1, FS_CardinalityType
<1>3. S \cap T = T
  OBVIOUS
<1>4. Cardinality(S \ T) = Cardinality(S) - Cardinality(T)
  BY <1>3, FS_Difference
<1> QED
  BY <1>1, <1>2, <1>4

(* A new entry is counted once.                                            *)
LEMMA CardOfNew ==
  ASSUME NEW S, IsFiniteSet(S), NEW x, x \notin S
  PROVE  /\ IsFiniteSet(S \cup {x})
         /\ Cardinality(S \cup {x}) = Cardinality(S) + 1
  BY FS_AddElement

LEMMA Finite ==
  ASSUME TypeOK
  PROVE  IsFiniteSet(channels) /\ IsFiniteSet(sessions)
  BY NamesAssumption, FS_Subset DEF TypeOK

(* What is issued now ends at a time of the type, also past the clock.     *)
LEMMA TimesType ==
  ASSUME now \in 0 .. W - 1
  PROVE  /\ now + Timeout \in Expiries /\ 0 \in Expiries /\ now + Lifetime \in Ends
         /\ NoSession \in [chan : Conns \cup {NONE}, activated : BOOLEAN, validTill : Expiries]
<1>1. now + Timeout \in Expiries /\ 0 \in Expiries /\ now + Lifetime \in Ends
  BY LimitsAssumption DEF Expiries, Ends
<1> QED
  BY <1>1 DEF NoSession

LEMMA SelectType ==
  ASSUME now \in 0 .. W - 1, Select
  PROVE  now' \in 0 .. W - 1
  BY LimitsAssumption DEF Select

LEMMA InitIInv == Init => IInv
<1> SUFFICES ASSUME Init PROVE IInv
  OBVIOUS
<1>1. TypeOK
  <2>1. /\ NoSession \in [chan : Conns \cup {NONE}, activated : BOOLEAN, validTill : Expiries]
        /\ now \in 0 .. W - 1 /\ cleanUp \in Nat
    BY TimesType, LimitsAssumption DEF Init
  <2>2. 0 \in 0 .. MaxFails /\ 0 \in 0 .. 0
    BY LimitsAssumption
  <2> QED
    BY <2>1, <2>2 DEF Init, TypeOK
<1>2. Pointers
  BY DEF Init, Pointers, SessionsPoint, ConnsPoint, Unattached, Entries, Disjoint, NoSession
<1>3. Capacity
  BY LimitsAssumption, FS_EmptySet DEF Init, Capacity
<1> QED
  BY <1>1, <1>2, <1>3 DEF IInv

-----------------------------------------------------------------------------
(* Steps that touch neither a list nor a session: Capacity is about what   *)
(* they leave alone.                                                       *)
LEMMA SameLists ==
  ASSUME Capacity, UNCHANGED <<channels, channelCount, sessions, sessionCount, purgeFails>>
  PROVE  Capacity'
  BY DEF Capacity

LEMMA NetworkIInv ==
  ASSUME IInv, NEW c \in Conns, Network(c)
  PROVE  IInv'
<1> USE DEF clockVars, channelVars, sessionVars, failVars
<1>1. TypeOK'
  BY DEF IInv, TypeOK, Network, Accept, Hello, BadMessage, RemoveConnection, Close
<1>2. CASE Accept(c)
  <2>1. Pointers'
    BY <1>2 DEF IInv, TypeOK, Pointers, SessionsPoint, ConnsPoint, Unattached, Entries,
                Disjoint, Accept, FreeConns
  <2> QED
    BY <1>1, <1>2, <2>1, SameLists DEF IInv, Accept
<1>3. CASE Hello(c)
  <2>1. Pointers'
    BY <1>3 DEF IInv, TypeOK, Pointers, SessionsPoint, ConnsPoint, Unattached, Entries,
                Disjoint, Hello
  <2> QED
    BY <1>1, <1>3, <2>1, SameLists DEF IInv, Hello
<1>4. CASE BadMessage(c)
  <2>1. Pointers'
    BY <1>4 DEF IInv, TypeOK, Pointers, SessionsPoint, ConnsPoint, Unattached, Entries,
                Disjoint, BadMessage, Close
  <2> QED
    BY <1>1, <1>4, <2>1, SameLists DEF IInv, BadMessage
<1>5. CASE RemoveConnection(c)
  <2>1. Pointers'
    BY <1>5 DEF IInv, TypeOK, Pointers, SessionsPoint, ConnsPoint, Unattached, Entries,
                Disjoint, RemoveConnection
  <2> QED
    BY <1>1, <1>5, <2>1, SameLists DEF IInv, RemoveConnection
<1> QED
  BY <1>2, <1>3, <1>4, <1>5 DEF Network

-----------------------------------------------------------------------------
(* What removes channels. gone is what leaves the list, made the channel   *)
(* that a first OPN adds, if any.                                          *)
LEMMA ListChange ==
  ASSUME IInv, NEW made \in SUBSET Conns, NEW gone \in SUBSET (channels \cup made),
         IsFiniteSet(made), made \cap (channels \cup delayed) = {},
         channels' = (channels \cup made) \ gone,
         channelCount' = channelCount + Cardinality(made) - Cardinality(gone),
         delayed' = delayed \cup gone,
         UNCHANGED <<sessions, sessionCount>>
  PROVE  /\ channels' \subseteq Conns /\ delayed' \subseteq Conns \cup Sessions
         /\ channelCount' = Cardinality(channels') /\ channelCount' \in Nat
         /\ sessionCount' = Cardinality(sessions')
         /\ channels' \cup delayed' = channels \cup delayed \cup made
         /\ Disjoint'
<1>1. IsFiniteSet(channels) /\ channels \subseteq Conns /\ sessions \subseteq Sessions
      /\ delayed \subseteq Conns \cup Sessions /\ channelCount = Cardinality(channels)
      /\ sessionCount = Cardinality(sessions)
  BY Finite DEF IInv, TypeOK, Capacity
<1>2. channels \cap delayed = {} /\ sessions \cap delayed = {}
  BY DEF IInv, Pointers, Disjoint
<1>3. /\ IsFiniteSet(channels \cup made)
      /\ Cardinality(channels \cup made) = channelCount + Cardinality(made)
  <2>1. channels \cap made = {}
    OBVIOUS
  <2>2. Cardinality(made) \in Nat /\ Cardinality(channels) \in Nat
    BY <1>1, FS_CardinalityType
  <2> QED
    <3>1. Cardinality(channels \cup made) =
            Cardinality(channels) + Cardinality(made) - Cardinality(channels \cap made)
      BY <1>1, FS_Union
    <3>2. IsFiniteSet(channels \cup made)
      BY <1>1, FS_Union
    <3>3. Cardinality(channels \cap made) = 0
      BY <2>1, FS_EmptySet
    <3> QED
      BY <1>1, <2>2, <3>1, <3>2, <3>3
<1>4. /\ Cardinality(gone) \in Nat /\ Cardinality(channels \cup made) \in Nat
      /\ Cardinality(gone) <= Cardinality(channels \cup made)
      /\ Cardinality((channels \cup made) \ gone) = Cardinality(channels \cup made) - Cardinality(gone)
  BY <1>3, CardOfPart
<1>5. sessions \cap (channels \cup made) = {}
  BY <1>1, NamesAssumption
<1>6. channels' \subseteq Conns /\ delayed' \subseteq Conns \cup Sessions
  BY <1>1
<1>7. channelCount' = Cardinality(channels') /\ channelCount' \in Nat
  <2>1. channelCount' = Cardinality(channels \cup made) - Cardinality(gone)
    <3>1. Cardinality(made) \in Nat /\ channelCount \in Nat
      BY <1>1, FS_CardinalityType
    <3> QED
      BY <1>3, <1>4, <3>1
  <2>2. Cardinality(channels') = Cardinality((channels \cup made) \ gone)
    OBVIOUS
  <2> QED
    BY <1>4, <2>1, <2>2
<1>8. channels' \cup delayed' = channels \cup delayed \cup made
  OBVIOUS
<1>9. Disjoint'
  BY <1>2, <1>5 DEF Disjoint
<1> QED
  BY <1>1, <1>6, <1>7, <1>8, <1>9

(* The purge removes one channel without a session, or fails to; fails and *)
(* purgeFails count.                                                       *)
LEMMA PurgeFacts ==
  ASSUME IInv, NEW purge \in Purges, NEW kept \in Kept(purge)
  PROVE  /\ purge \subseteq Idle /\ kept \subseteq purge
         /\ IsFiniteSet(kept) /\ Cardinality(kept) \in 0 .. 1
         /\ purge = {} => channelCount < maxSecureChannels
         /\ purge # {} => Cardinality(Remove(purge, kept)) + Cardinality(kept) = 1
         /\ Remove(purge, kept) \subseteq channels
<1>1. purge \subseteq Idle /\ kept \subseteq purge
  BY DEF Purges, Kept
<1>2. IsFiniteSet(purge) /\ Cardinality(purge) \in 0 .. 1 /\ (purge # {} => Cardinality(purge) = 1)
  <2>1. CASE purge = {}
    BY <2>1, FS_EmptySet
  <2>2. CASE purge # {}
    <3>1. PICK p \in Idle : purge = {p}
      BY <2>2 DEF Purges
    <3>2. IsFiniteSet({p}) /\ Cardinality({p}) = 1
      BY FS_Singleton
    <3> QED
      BY <3>1, <3>2
  <2> QED
    BY <2>1, <2>2
<1>3. /\ IsFiniteSet(kept) /\ Cardinality(kept) \in Nat /\ Cardinality(kept) <= Cardinality(purge)
      /\ Cardinality(purge \ kept) = Cardinality(purge) - Cardinality(kept)
  BY <1>1, <1>2, CardOfPart
<1>4. purge = {} => channelCount < maxSecureChannels
  BY DEF Purges
<1>5. Remove(purge, kept) = purge \ kept
  BY DEF Remove
<1>6. Remove(purge, kept) \subseteq channels
  BY <1>1, <1>5 DEF Idle
<1>7. purge # {} => Cardinality(Remove(purge, kept)) + Cardinality(kept) = 1
  BY <1>2, <1>3, <1>5
<1> QED
  BY <1>1, <1>2, <1>3, <1>4, <1>6, <1>7

(* The new channel is counted, and a purge that the failing allocation     *)
(* made useless is: one more channel than the limit for each.              *)
LEMMA NewChannelIInv ==
  ASSUME IInv, NEW c \in Conns, NEW r \in Outcomes, NewChannel(c, r)
  PROVE  IInv'
<1> USE DEF clockVars, sessionVars
<1>0. PICK purge \in Purges : \E kept \in Kept(purge), stays \in SUBSET Closes(r, c) :
        LET left == Remove(purge, kept) \cup Remove(Closes(r, c), stays)
        IN  /\ fails' = fails + Cardinality(kept) + Cardinality(stays)
            /\ fails' <= MaxFails
            /\ purgeFails' = purgeFails + Cardinality(kept)
            /\ channels' = (channels \cup {c}) \ left
            /\ channelCount' = channelCount + 1 - Cardinality(left)
            /\ delayed' = delayed \cup left
  BY DEF NewChannel
<1>1. PICK kept \in Kept(purge), stays \in SUBSET Closes(r, c) :
        LET left == Remove(purge, kept) \cup Remove(Closes(r, c), stays)
        IN  /\ fails' = fails + Cardinality(kept) + Cardinality(stays)
            /\ fails' <= MaxFails
            /\ purgeFails' = purgeFails + Cardinality(kept)
            /\ channels' = (channels \cup {c}) \ left
            /\ channelCount' = channelCount + 1 - Cardinality(left)
            /\ delayed' = delayed \cup left
  BY <1>0
<1> DEFINE gone == Remove(purge, kept) \cup Remove(Closes(r, c), stays)
<1>2. /\ purge \subseteq Idle /\ kept \subseteq purge /\ IsFiniteSet(kept)
      /\ Cardinality(kept) \in 0 .. 1
      /\ purge = {} => channelCount < maxSecureChannels
      /\ purge # {} => Cardinality(Remove(purge, kept)) + Cardinality(kept) = 1
      /\ Remove(purge, kept) \subseteq channels
  BY PurgeFacts
<1>3. Remove(Closes(r, c), stays) \subseteq {c} /\ stays \subseteq {c}
  BY DEF Closes, Remove
<1>4. Cardinality(stays) \in Nat /\ Cardinality({c}) = 1 /\ IsFiniteSet({c})
  <2>1. IsFiniteSet({c}) /\ Cardinality({c}) = 1
    BY FS_Singleton
  <2> QED
    BY <1>3, <2>1, CardOfPart
<1>5. conn[c] = "ESTABLISHED" /\ c \notin attached /\ chan[c] = "none"
  BY DEF NewChannel, IInv, Pointers, Unattached
<1>6. c \notin channels \cup delayed
  BY <1>5 DEF IInv, Pointers, Entries
<1>7. gone \subseteq channels \cup {c}
  BY <1>2, <1>3
<1>8. /\ channels' \subseteq Conns /\ delayed' \subseteq Conns \cup Sessions
      /\ channelCount' = Cardinality(channels') /\ channelCount' \in Nat
      /\ sessionCount' = Cardinality(sessions')
      /\ channels' \cup delayed' = channels \cup delayed \cup {c}
      /\ Disjoint'
  <2>1. {c} \cap (channels \cup delayed) = {}
    BY <1>6
  <2>2. channelCount' = channelCount + Cardinality({c}) - Cardinality(gone)
    BY <1>1, <1>4
  <2> HIDE DEF gone
  <2>3. channels' = (channels \cup {c}) \ gone /\ delayed' = delayed \cup gone
    BY <1>1 DEF gone
  <2>4. UNCHANGED <<sessions, sessionCount>>
    BY DEF NewChannel
  <2> QED
    BY <1>4, <1>7, <2>1, <2>2, <2>3, <2>4, ListChange
<1>9. purgeFails \in Nat /\ fails \in Nat /\ purgeFails <= fails /\ MaxFails \in Nat
  BY LimitsAssumption DEF IInv, TypeOK
<1>10. TypeOK'
  <2>1. fails' \in 0 .. MaxFails /\ purgeFails' \in 0 .. fails'
    BY <1>1, <1>2, <1>4, <1>9
  <2>2. conn' \in [Conns -> {"none", "OPENING", "ESTABLISHED", "CLOSED"}]
    BY DEF NewChannel, Close, IInv, TypeOK
  <2>3. UNCHANGED <<pc, clockVars, next, sessions, sessionCount, sess>>
    BY DEF NewChannel
  <2>4. /\ attached' \subseteq Conns
        /\ chan' \in [Conns -> {"none", "FRESH", "OPEN"}]
        /\ life' \in [Conns -> Ends \cup {Wall}]
    BY DEF NewChannel, IInv, TypeOK
  <2> QED
    BY <1>8, <2>1, <2>2, <2>3, <2>4 DEF IInv, TypeOK
<1>11. Pointers'
  <2>1. /\ chan'[c] # "none" /\ conn'[c] # "none"
        /\ \A d \in Conns \ {c} : chan'[d] = chan[d] /\ conn'[d] = conn[d]
        /\ attached' = attached \cup {c}
        /\ sess' = sess /\ sessions' = sessions
    BY <1>5 DEF NewChannel, Close, IInv, TypeOK
  <2>2. SessionsPoint'
    BY <2>1 DEF SessionsPoint, IInv, Pointers, TypeOK
  <2>3. ConnsPoint'
    BY <2>1 DEF ConnsPoint, IInv, Pointers, TypeOK
  <2>4. Unattached'
    BY <2>1 DEF Unattached, IInv, Pointers
  <2>5. Entries'
    BY <1>8, <2>1 DEF Entries, IInv, Pointers
  <2> QED
    BY <1>8, <2>2, <2>3, <2>4, <2>5 DEF Pointers
<1>12. Capacity'
  <2>1. Cardinality(gone) \in Nat /\ Cardinality(Remove(purge, kept)) <= Cardinality(gone)
        /\ Cardinality(Remove(purge, kept)) \in Nat
    <3>1. IsFiniteSet(channels \cup {c})
      BY Finite, FS_AddElement DEF IInv
    <3>2. IsFiniteSet(gone) /\ Cardinality(gone) \in Nat
      BY <1>7, <3>1, CardOfPart
    <3> QED
      BY <3>2, CardOfPart
  <2>2. channelCount' <= maxSecureChannels + purgeFails'
    <3>1. channelCount \in Nat /\ channelCount <= maxSecureChannels + purgeFails
          /\ maxSecureChannels \in Nat
      BY LimitsAssumption DEF IInv, TypeOK, Capacity
    <3>2. CASE purge = {}
      BY <1>1, <1>2, <1>9, <2>1, <3>1, <3>2
    <3>3. CASE purge # {}
      BY <1>1, <1>2, <1>9, <2>1, <3>1, <3>3
    <3> QED
      BY <3>2, <3>3
  <2>3. sessionCount' <= maxSessions
    BY DEF IInv, Capacity, NewChannel
  <2> QED
    BY <1>8, <2>2, <2>3 DEF Capacity
<1> QED
  BY <1>10, <1>11, <1>12 DEF IInv

(* Steps that make no channel: the entries in memory and their pointers    *)
(* stay, whatever leaves the list.                                         *)
LEMMA ListOnlyPointers ==
  ASSUME IInv, UNCHANGED <<attached, chan, sess, sessions>>,
         \A c \in Conns : conn'[c] = "none" <=> conn[c] = "none",
         channels' \cup delayed' = channels \cup delayed, Disjoint'
  PROVE  Pointers'
<1>1. SessionsPoint'
  BY DEF SessionsPoint, IInv, Pointers
<1>2. ConnsPoint'
  BY DEF ConnsPoint, IInv, Pointers, TypeOK
<1>3. Unattached'
  BY DEF Unattached, IInv, Pointers
<1>4. Entries'
  BY DEF Entries, IInv, Pointers
<1> QED
  BY <1>1, <1>2, <1>3, <1>4 DEF Pointers

(* A connection is closed, but not freed.                                  *)
LEMMA CloseFacts ==
  ASSUME TypeOK, NEW c \in Conns, Close(c), conn[c] # "none"
  PROVE  /\ conn' \in [Conns -> {"none", "OPENING", "ESTABLISHED", "CLOSED"}]
         /\ \A d \in Conns : conn'[d] = "none" <=> conn[d] = "none"
  BY DEF TypeOK, Close

(* What leaves the list of channels, when nothing is put into it.          *)
LEMMA LeaveFacts ==
  ASSUME IInv, NEW gone \in SUBSET channels,
         channels' = channels \ gone,
         channelCount' = channelCount - Cardinality(gone),
         delayed' = delayed \cup gone,
         UNCHANGED <<sessions, sessionCount>>
  PROVE  /\ channels' \subseteq Conns /\ delayed' \subseteq Conns \cup Sessions
         /\ channelCount' = Cardinality(channels') /\ channelCount' \in Nat
         /\ sessionCount' = Cardinality(sessions')
         /\ channels' \cup delayed' = channels \cup delayed
         /\ Disjoint'
         /\ channelCount' <= channelCount
<1>1. IsFiniteSet({}) /\ Cardinality({}) = 0
  BY FS_EmptySet
<1>2. IsFiniteSet(gone) /\ Cardinality(gone) \in Nat /\ channelCount \in Nat
  BY Finite, CardOfPart DEF IInv, TypeOK
<1>3. /\ channels' = (channels \cup {}) \ gone /\ gone \in SUBSET (channels \cup {})
      /\ {} \in SUBSET Conns /\ {} \cap (channels \cup delayed) = {}
  OBVIOUS
<1>4. channelCount' = channelCount + Cardinality({}) - Cardinality(gone)
  BY <1>1, <1>2
<1>5. /\ channels' \subseteq Conns /\ delayed' \subseteq Conns \cup Sessions
      /\ channelCount' = Cardinality(channels') /\ channelCount' \in Nat
      /\ sessionCount' = Cardinality(sessions')
      /\ channels' \cup delayed' = channels \cup delayed \cup {}
      /\ Disjoint'
  BY <1>1, <1>3, <1>4, ListChange
<1> QED
  BY <1>2, <1>5

LEMMA NoChannelIInv ==
  ASSUME IInv, NEW c \in Conns, NoChannel(c)
  PROVE  IInv'
<1> USE DEF clockVars, sessionVars, failVars
<1>1. conn[c] # "none" /\ Close(c)
      /\ UNCHANGED <<pc, clockVars, attached, chan, life, next, sess, sessions, sessionCount>>
  BY DEF NoChannel
<1>2. /\ conn' \in [Conns -> {"none", "OPENING", "ESTABLISHED", "CLOSED"}]
      /\ \A d \in Conns : conn'[d] = "none" <=> conn[d] = "none"
  BY <1>1, CloseFacts DEF IInv
<1>3. CASE UNCHANGED <<channels, channelCount, delayed, failVars>>
  <2>1. TypeOK'
    BY <1>1, <1>2, <1>3 DEF IInv, TypeOK
  <2>2. Pointers'
    <3>1. Disjoint'
      BY <1>1, <1>3 DEF IInv, Pointers, Disjoint
    <3> QED
      BY <1>1, <1>2, <1>3, <3>1, ListOnlyPointers
  <2> QED
    BY <1>1, <1>3, <2>1, <2>2, SameLists DEF IInv
<1>4. CASE \E purge \in Purges : \E kept \in Kept(purge) :
             /\ fails' = fails + Cardinality(kept) + 1
             /\ fails' <= MaxFails
             /\ purgeFails' = purgeFails + Cardinality(kept)
             /\ channels' = channels \ Remove(purge, kept)
             /\ channelCount' = channelCount - Cardinality(Remove(purge, kept))
             /\ delayed' = delayed \cup Remove(purge, kept)
  <2>0. PICK purge \in Purges : \E kept \in Kept(purge) :
             /\ fails' = fails + Cardinality(kept) + 1
             /\ fails' <= MaxFails
             /\ purgeFails' = purgeFails + Cardinality(kept)
             /\ channels' = channels \ Remove(purge, kept)
             /\ channelCount' = channelCount - Cardinality(Remove(purge, kept))
             /\ delayed' = delayed \cup Remove(purge, kept)
    BY <1>4
  <2>1. PICK kept \in Kept(purge) :
             /\ fails' = fails + Cardinality(kept) + 1
             /\ fails' <= MaxFails
             /\ purgeFails' = purgeFails + Cardinality(kept)
             /\ channels' = channels \ Remove(purge, kept)
             /\ channelCount' = channelCount - Cardinality(Remove(purge, kept))
             /\ delayed' = delayed \cup Remove(purge, kept)
    BY <2>0
  <2>2. Cardinality(kept) \in 0 .. 1 /\ Remove(purge, kept) \subseteq channels
    BY PurgeFacts
  <2>3. /\ channels' \subseteq Conns /\ delayed' \subseteq Conns \cup Sessions
        /\ channelCount' = Cardinality(channels') /\ channelCount' \in Nat
        /\ sessionCount' = Cardinality(sessions')
        /\ channels' \cup delayed' = channels \cup delayed
        /\ Disjoint'
        /\ channelCount' <= channelCount
    BY <1>1, <2>1, <2>2, LeaveFacts
  <2>4. /\ purgeFails \in Nat /\ fails \in Nat /\ purgeFails <= fails /\ MaxFails \in Nat
        /\ channelCount \in Nat /\ maxSecureChannels \in Nat
        /\ channelCount <= maxSecureChannels + purgeFails /\ sessionCount <= maxSessions
    BY LimitsAssumption DEF IInv, TypeOK, Capacity
  <2>5. fails' \in 0 .. MaxFails /\ purgeFails' \in 0 .. fails' /\ purgeFails <= purgeFails'
    BY <2>1, <2>2, <2>4
  <2>6. TypeOK'
    BY <1>1, <1>2, <2>3, <2>5 DEF IInv, TypeOK
  <2>7. Pointers'
    BY <1>1, <1>2, <2>3, ListOnlyPointers
  <2>8. Capacity'
    <3>1. channelCount' <= maxSecureChannels + purgeFails'
      BY <2>3, <2>4, <2>5
    <3> QED
      BY <1>1, <2>3, <2>4, <3>1 DEF Capacity
  <2> QED
    BY <2>6, <2>7, <2>8 DEF IInv
<1> QED
  BY <1>3, <1>4 DEF NoChannel

(* UA_SecureChannelManager_close removes at most one entry, once.          *)
LEMMA CloseChannelIInv ==
  ASSUME IInv, NEW c \in Conns, CloseChannel(c),
         conn' \in [Conns -> {"none", "OPENING", "ESTABLISHED", "CLOSED"}],
         \A d \in Conns : conn'[d] = "none" <=> conn[d] = "none",
         UNCHANGED <<pc, clockVars, attached, chan, life, next, sessionVars>>
  PROVE  IInv'
<1> USE DEF clockVars, sessionVars, failVars
<1>1. CASE UNCHANGED <<channels, channelCount, delayed, failVars>>
  <2>1. TypeOK'
    BY <1>1 DEF IInv, TypeOK
  <2>2. Disjoint'
    BY <1>1 DEF IInv, Pointers, Disjoint
  <2>3. Pointers'
    BY <1>1, <2>2, ListOnlyPointers
  <2> QED
    BY <1>1, <2>1, <2>3, SameLists DEF IInv
<1>2. CASE \E q \in channels : \E kept \in SUBSET {q} :
             /\ MayFail(kept)
             /\ fails' = fails + Cardinality(kept)
             /\ channels' = channels \ Remove({q}, kept)
             /\ channelCount' = channelCount - Cardinality(Remove({q}, kept))
             /\ delayed' = delayed \cup Remove({q}, kept)
             /\ UNCHANGED purgeFails
  <2>0. PICK q \in channels : \E kept \in SUBSET {q} :
             /\ MayFail(kept)
             /\ fails' = fails + Cardinality(kept)
             /\ channels' = channels \ Remove({q}, kept)
             /\ channelCount' = channelCount - Cardinality(Remove({q}, kept))
             /\ delayed' = delayed \cup Remove({q}, kept)
             /\ UNCHANGED purgeFails
    BY <1>2
  <2>1. PICK kept \in SUBSET {q} :
             /\ MayFail(kept)
             /\ fails' = fails + Cardinality(kept)
             /\ channels' = channels \ Remove({q}, kept)
             /\ channelCount' = channelCount - Cardinality(Remove({q}, kept))
             /\ delayed' = delayed \cup Remove({q}, kept)
             /\ UNCHANGED purgeFails
    BY <2>0
  <2>2. Cardinality(kept) \in Nat /\ Remove({q}, kept) \subseteq channels
    <3>1. IsFiniteSet({q})
      BY FS_Singleton
    <3> QED
      BY <3>1, CardOfPart DEF Remove
  <2>3. /\ channels' \subseteq Conns /\ delayed' \subseteq Conns \cup Sessions
        /\ channelCount' = Cardinality(channels') /\ channelCount' \in Nat
        /\ sessionCount' = Cardinality(sessions')
        /\ channels' \cup delayed' = channels \cup delayed
        /\ Disjoint'
        /\ channelCount' <= channelCount
    BY <2>1, <2>2, LeaveFacts
  <2>4. /\ purgeFails \in Nat /\ fails \in Nat /\ purgeFails <= fails /\ MaxFails \in Nat
        /\ channelCount \in Nat /\ maxSecureChannels \in Nat
        /\ channelCount <= maxSecureChannels + purgeFails /\ sessionCount <= maxSessions
    BY LimitsAssumption DEF IInv, TypeOK, Capacity
  <2>5. fails' \in 0 .. MaxFails /\ purgeFails' \in 0 .. fails' /\ purgeFails' = purgeFails
    BY <2>1, <2>2, <2>4 DEF MayFail
  <2>6. TypeOK'
    BY <2>3, <2>5 DEF IInv, TypeOK
  <2>7. Pointers'
    BY <2>3, ListOnlyPointers
  <2>8. Capacity'
    <3>1. channelCount' <= maxSecureChannels + purgeFails'
      BY <2>3, <2>4, <2>5
    <3> QED
      BY <2>3, <2>4, <3>1 DEF Capacity
  <2> QED
    BY <2>6, <2>7, <2>8 DEF IInv
<1> QED
  BY <1>1, <1>2 DEF CloseChannel

LEMMA ClosingIInv ==
  ASSUME IInv, NEW c \in Conns, OpnFails(c) \/ CloseSecureChannel(c)
  PROVE  IInv'
<1>1. CASE OpnFails(c)
  <2>1. conn[c] # "none" /\ CloseChannel(c) /\ Close(c)
        /\ UNCHANGED <<pc, clockVars, attached, chan, life, next, sessionVars>>
    BY <1>1 DEF OpnFails, IInv, Pointers, ConnsPoint
  <2> QED
    BY <2>1, CloseFacts, CloseChannelIInv DEF IInv
<1>2. CASE CloseSecureChannel(c)
  <2>1. CloseChannel(c) /\ UNCHANGED <<pc, clockVars, conn, attached, chan, life, next, sessionVars>>
    BY <1>2 DEF CloseSecureChannel
  <2>2. conn' \in [Conns -> {"none", "OPENING", "ESTABLISHED", "CLOSED"}]
    BY <2>1 DEF IInv, TypeOK
  <2> QED
    BY <2>1, <2>2, CloseChannelIInv
<1> QED
  BY <1>1, <1>2

(* Tokens: what a step does to them, no pointer and no count depends on.   *)
LEMMA TokenIInv ==
  ASSUME IInv, NEW c \in Conns, PurgeAborts(c) \/ OpenLate(c) \/ Renew(c) \/ NewToken(c)
  PROVE  IInv'
<1> USE DEF clockVars, channelVars, sessionVars, failVars
<1>1. CASE PurgeAborts(c)
  <2>1. TypeOK'
    BY <1>1, LimitsAssumption DEF IInv, TypeOK, PurgeAborts
  <2>2. Disjoint'
    BY <1>1 DEF PurgeAborts, IInv, Pointers, Disjoint
  <2>3. Pointers'
    BY <1>1, <2>2, ListOnlyPointers DEF PurgeAborts
  <2> QED
    BY <1>1, <2>1, <2>3, SameLists DEF IInv, PurgeAborts
<1>2. CASE OpenLate(c)
  <2>1. TypeOK'
    BY <1>2 DEF IInv, TypeOK, OpenLate
  <2>2. \A d \in Conns : chan'[d] = "none" <=> chan[d] = "none"
    BY <1>2 DEF IInv, TypeOK, OpenLate
  <2>3. Pointers'
    BY <1>2, <2>2 DEF IInv, TypeOK, Pointers, SessionsPoint, ConnsPoint, Unattached, Entries,
                      Disjoint, OpenLate
  <2> QED
    BY <1>2, <2>1, <2>3, SameLists DEF IInv, OpenLate
<1>3. CASE Renew(c)
  <2>1. TypeOK'
    BY <1>3, TimesType DEF IInv, TypeOK, Renew
  <2>2. Disjoint'
    BY <1>3 DEF Renew, IInv, Pointers, Disjoint
  <2>3. Pointers'
    BY <1>3, <2>2, ListOnlyPointers DEF Renew
  <2> QED
    BY <1>3, <2>1, <2>3, SameLists DEF IInv, Renew
<1>4. CASE NewToken(c)
  <2>1. TypeOK'
    BY <1>4 DEF IInv, TypeOK, NewToken, Revolve
  <2>2. Disjoint'
    BY <1>4 DEF NewToken, IInv, Pointers, Disjoint
  <2>3. Pointers'
    BY <1>4, <2>2, ListOnlyPointers DEF NewToken
  <2> QED
    BY <1>4, <2>1, <2>3, SameLists DEF IInv, NewToken
<1> QED
  BY <1>1, <1>2, <1>3, <1>4

-----------------------------------------------------------------------------
(* What leaves both lists.                                                 *)
LEMMA LeaveBoth ==
  ASSUME IInv, NEW goneC \in SUBSET channels, NEW goneS \in SUBSET sessions,
         channels' = channels \ goneC, sessions' = sessions \ goneS,
         channelCount' = channelCount - Cardinality(goneC),
         sessionCount' = sessionCount - Cardinality(goneS),
         delayed' = delayed \cup goneS \cup goneC
  PROVE  /\ channels' \subseteq Conns /\ sessions' \subseteq Sessions
         /\ delayed' \subseteq Conns \cup Sessions
         /\ channelCount' = Cardinality(channels') /\ channelCount' \in 0 .. channelCount
         /\ sessionCount' = Cardinality(sessions') /\ sessionCount' \in 0 .. sessionCount
         /\ Disjoint'
         /\ \A c \in Conns : c \in channels' \cup delayed' <=> c \in channels \cup delayed
<1>1. /\ channels \subseteq Conns /\ sessions \subseteq Sessions
      /\ delayed \subseteq Conns \cup Sessions
      /\ channelCount = Cardinality(channels) /\ sessionCount = Cardinality(sessions)
      /\ IsFiniteSet(channels) /\ IsFiniteSet(sessions)
  BY Finite DEF IInv, TypeOK, Capacity
<1>2. /\ Cardinality(goneC) \in Nat /\ Cardinality(channels) \in Nat
      /\ Cardinality(goneC) <= Cardinality(channels)
      /\ Cardinality(channels \ goneC) = Cardinality(channels) - Cardinality(goneC)
  BY <1>1, CardOfPart
<1>3. /\ Cardinality(goneS) \in Nat /\ Cardinality(sessions) \in Nat
      /\ Cardinality(goneS) <= Cardinality(sessions)
      /\ Cardinality(sessions \ goneS) = Cardinality(sessions) - Cardinality(goneS)
  BY <1>1, CardOfPart
<1>4. channelCount' = Cardinality(channels') /\ channelCount' \in 0 .. channelCount
  BY <1>1, <1>2
<1>5. sessionCount' = Cardinality(sessions') /\ sessionCount' \in 0 .. sessionCount
  BY <1>1, <1>3
<1>6. Disjoint'
  BY <1>1, NamesAssumption DEF IInv, Pointers, Disjoint
<1>7. \A c \in Conns : c \in channels' \cup delayed' <=> c \in channels \cup delayed
  BY <1>1, NamesAssumption
<1> QED
  BY <1>1, <1>4, <1>5, <1>6, <1>7

(* A session's entry is in memory if it is in the list or to be freed.     *)
SessionRecord == [chan : Conns \cup {NONE}, activated : BOOLEAN, validTill : Expiries]

(* Steps that change what one session says: it may point to a channel in   *)
(* memory if it is in the list.                                            *)
LEMMA OneSessionPointers ==
  ASSUME IInv, NEW s \in Sessions, NEW new \in SessionRecord,
         sess' = [sess EXCEPT ![s] = new], sessions \subseteq sessions',
         new.chan # NONE => s \in sessions' /\ chan[new.chan] # "none",
         UNCHANGED <<conn, attached, channels, chan>>,
         \A c \in Conns : c \in delayed' <=> c \in delayed,
         Disjoint'
  PROVE  Pointers' /\ sess' \in [Sessions -> SessionRecord]
<1>1. sess \in [Sessions -> SessionRecord]
  BY DEF IInv, TypeOK, SessionRecord
<1>2. /\ sess' \in [Sessions -> SessionRecord]
      /\ sess'[s] = new /\ \A t \in Sessions \ {s} : sess'[t] = sess[t]
  BY <1>1
<1>3. SessionsPoint'
  BY <1>2 DEF IInv, Pointers, SessionsPoint
<1>4. ConnsPoint' /\ Unattached' /\ Entries'
  BY DEF IInv, Pointers, ConnsPoint, Unattached, Entries
<1> QED
  BY <1>2, <1>3, <1>4 DEF Pointers

(* A session that is used is in the list, also when it was found through   *)
(* its channel.                                                            *)
LEMMA FoundIsListed ==
  ASSUME IInv, NEW c \in Conns, NEW s \in Sessions, Found(c, s)
  PROVE  s \in sessions /\ c \in attached /\ chan[c] # "none"
<1>1. c \in attached /\ chan[c] # "none"
  BY DEF Found, IInv, Pointers, ConnsPoint
<1>2. CASE s \in InMemory /\ sess[s].chan = c
  BY <1>1, <1>2, NamesAssumption DEF IInv, Pointers, SessionsPoint
<1> QED
  BY <1>1, <1>2 DEF Found

LEMMA RemoveSessionIInv ==
  ASSUME IInv, NEW s \in sessions, NEW kept \in SUBSET {s}, RemoveSessions({s}, kept),
         UNCHANGED <<pc, clockVars, conn, channelVars, purgeFails>>
  PROVE  IInv'
<1> USE DEF clockVars, channelVars
<1>1. IsFiniteSet({s}) /\ IsFiniteSet(kept) /\ Cardinality(kept) \in Nat
  <2>1. IsFiniteSet({s})
    BY FS_Singleton
  <2> QED
    BY <2>1, CardOfPart
<1>2. Cardinality({}) = 0 /\ {s} \ kept \subseteq sessions /\ channelCount \in Nat /\ s \in Sessions
  BY FS_EmptySet DEF IInv, TypeOK
<1>3. /\ channels' = channels \ {} /\ channelCount' = channelCount - Cardinality({})
      /\ sessions' = sessions \ ({s} \ kept)
      /\ sessionCount' = sessionCount - Cardinality({s} \ kept)
      /\ delayed' = delayed \cup ({s} \ kept) \cup {}
  BY <1>2 DEF RemoveSessions, Remove
<1>4. /\ channels' \subseteq Conns /\ sessions' \subseteq Sessions
      /\ delayed' \subseteq Conns \cup Sessions
      /\ channelCount' = Cardinality(channels') /\ channelCount' \in 0 .. channelCount
      /\ sessionCount' = Cardinality(sessions') /\ sessionCount' \in 0 .. sessionCount
      /\ Disjoint'
      /\ \A c \in Conns : c \in channels' \cup delayed' <=> c \in channels \cup delayed
  BY <1>2, <1>3, LeaveBoth
<1>5. sess \in [Sessions -> SessionRecord]
  BY DEF IInv, TypeOK, SessionRecord
<1>6. Detached(s, kept) \in SessionRecord /\ Detached(s, kept).chan = NONE
  <2>1. sess[s].validTill \in Expiries /\ 0 \in Expiries
    BY <1>2, <1>5, TimesType DEF SessionRecord, IInv, TypeOK
  <2> QED
    BY <2>1 DEF Detached, NoSession, SessionRecord
<1>7. /\ sess' \in [Sessions -> SessionRecord]
      /\ sess'[s].chan = NONE /\ \A t \in Sessions \ {s} : sess'[t] = sess[t]
  BY <1>2, <1>5, <1>6 DEF RemoveSessions
<1>8. fails' \in 0 .. MaxFails /\ purgeFails' \in 0 .. fails'
  BY <1>1, LimitsAssumption DEF RemoveSessions, MayFail, IInv, TypeOK
<1>9. TypeOK'
  BY <1>4, <1>7, <1>8 DEF IInv, TypeOK, SessionRecord
<1>10. Pointers'
  <2>1. SessionsPoint'
    BY <1>3, <1>7 DEF IInv, Pointers, SessionsPoint
  <2>2. ConnsPoint' /\ Unattached' /\ Entries'
    BY <1>4 DEF IInv, Pointers, ConnsPoint, Unattached, Entries
  <2> QED
    BY <1>4, <2>1, <2>2 DEF Pointers
<1>11. Capacity'
  BY <1>4, LimitsAssumption DEF IInv, TypeOK, Capacity
<1> QED
  BY <1>9, <1>10, <1>11 DEF IInv

(* A new session takes an entry that is not in memory, below the limit.    *)
LEMMA CreateSessionIInv ==
  ASSUME IInv, NEW c \in Conns, NEW s \in Sessions, CreateSession(c, s)
  PROVE  IInv'
<1> USE DEF clockVars, channelVars, failVars
<1>1. s \notin sessions /\ s \notin delayed /\ chan[c] # "none" /\ sessionCount < maxSessions
  BY DEF CreateSession, InMemory, Identified
<1>2. IsFiniteSet(sessions) /\ sessionCount = Cardinality(sessions) /\ sessionCount \in Nat
  BY Finite DEF IInv, Capacity, TypeOK
<1>3. sessionCount' = Cardinality(sessions')
  BY <1>1, <1>2, CardOfNew DEF CreateSession
<1>4. [chan |-> c, activated |-> FALSE, validTill |-> now + Timeout] \in SessionRecord
  BY TimesType DEF SessionRecord, IInv, TypeOK
<1>5. Disjoint'
  BY <1>1 DEF CreateSession, IInv, Pointers, Disjoint
<1>6. Pointers' /\ sess' \in [Sessions -> SessionRecord]
  <2> DEFINE new == [chan |-> c, activated |-> FALSE, validTill |-> now + Timeout]
  <2>1. /\ sess' = [sess EXCEPT ![s] = new] /\ sessions' = sessions \cup {s}
        /\ new \in SessionRecord /\ new.chan = c
        /\ UNCHANGED <<conn, attached, channels, chan, delayed>>
    BY <1>4 DEF CreateSession
  <2> HIDE DEF new
  <2> QED
    BY <1>1, <1>5, <2>1, OneSessionPointers
<1>7. TypeOK'
  BY <1>2, <1>6 DEF CreateSession, IInv, TypeOK, SessionRecord
<1>8. Capacity'
  BY <1>1, <1>2, <1>3, LimitsAssumption DEF CreateSession, IInv, Capacity
<1> QED
  BY <1>6, <1>7, <1>8 DEF IInv

(* One that has no nonce goes again, or stays without a channel.           *)
LEMMA CreateSessionFailsIInv ==
  ASSUME IInv, NEW c \in Conns, NEW s \in Sessions, CreateSessionFails(c, s)
  PROVE  IInv'
<1> USE DEF clockVars, channelVars
<1>1. s \notin sessions /\ s \notin delayed /\ s \notin Conns /\ sessionCount < maxSessions
  BY NamesAssumption DEF CreateSessionFails, InMemory
<1>2. IsFiniteSet(sessions) /\ sessionCount = Cardinality(sessions) /\ sessionCount \in Nat
  BY Finite DEF IInv, Capacity, TypeOK
<1>3. PICK stays \in BOOLEAN :
        /\ fails' = fails + (IF stays THEN 2 ELSE 1)
        /\ fails' <= MaxFails
        /\ IF stays
           THEN /\ sessions' = sessions \cup {s}
                /\ sessionCount' = sessionCount + 1
                /\ UNCHANGED delayed
           ELSE /\ delayed' = delayed \cup {s}
                /\ UNCHANGED <<sessions, sessionCount>>
        /\ sess' = [sess EXCEPT ![s] =
                      [NoSession EXCEPT !.validTill = IF stays THEN now + Timeout ELSE 0]]
  BY DEF CreateSessionFails
<1> DEFINE new == [NoSession EXCEPT !.validTill = IF stays THEN now + Timeout ELSE 0]
<1>4. new \in SessionRecord /\ new.chan = NONE
  <2>1. (IF stays THEN now + Timeout ELSE 0) \in Expiries
    BY TimesType DEF IInv, TypeOK
  <2> QED
    BY <2>1 DEF SessionRecord, NoSession
<1>5. /\ sess' = [sess EXCEPT ![s] = new]
      /\ UNCHANGED <<pc, clockVars, conn, attached, channels, channelCount, chan, life, next, purgeFails>>
  BY <1>3 DEF CreateSessionFails
<1> HIDE DEF new
<1>6. /\ sessions \subseteq sessions' /\ sessions' \subseteq Sessions
      /\ delayed' \subseteq Conns \cup Sessions
      /\ sessionCount' = Cardinality(sessions')
      /\ sessionCount' \in Nat /\ sessionCount' <= maxSessions
      /\ \A d \in Conns : d \in delayed' <=> d \in delayed
  <2>1. CASE stays
    BY <1>1, <1>2, <1>3, <2>1, CardOfNew, LimitsAssumption DEF IInv, TypeOK
  <2>2. CASE ~stays
    BY <1>1, <1>2, <1>3, <2>2, LimitsAssumption DEF IInv, TypeOK
  <2> QED
    BY <2>1, <2>2
<1>7. Disjoint'
  <2>1. channels \subseteq Conns
    BY DEF IInv, TypeOK
  <2>2. CASE stays
    BY <1>1, <1>3, <1>5, <2>2 DEF IInv, Pointers, Disjoint
  <2>3. CASE ~stays
    BY <1>1, <1>3, <1>5, <2>1, <2>3 DEF IInv, Pointers, Disjoint
  <2> QED
    BY <2>2, <2>3
<1>8. Pointers' /\ sess' \in [Sessions -> SessionRecord]
  BY <1>4, <1>5, <1>6, <1>7, OneSessionPointers
<1>9. fails' \in 0 .. MaxFails /\ purgeFails' \in 0 .. fails'
  BY <1>3, <1>5, LimitsAssumption DEF IInv, TypeOK
<1>10. TypeOK'
  BY <1>5, <1>6, <1>8, <1>9 DEF IInv, TypeOK, SessionRecord
<1>11. Capacity'
  BY <1>5, <1>6 DEF IInv, Capacity
<1> QED
  BY <1>8, <1>10, <1>11 DEF IInv

(* A session that is used or activated keeps its place.                    *)
LEMMA UseSessionIInv ==
  ASSUME IInv, NEW c \in Conns, NEW s \in Sessions,
         Service(c, s) \/ \E ok \in BOOLEAN : ActivateSession(c, s, ok)
  PROVE  IInv'
<1> USE DEF clockVars, channelVars, failVars
<1>1. sess[s] \in SessionRecord /\ sess \in [Sessions -> SessionRecord]
  BY DEF IInv, TypeOK, SessionRecord
<1>2. CASE Service(c, s)
  <2> DEFINE new == [sess[s] EXCEPT !.validTill = now + Timeout]
  <2>1. /\ sess' = [sess EXCEPT ![s] = new]
        /\ UNCHANGED <<pc, clockVars, conn, attached, channels, channelCount, chan, life, next,
                       sessions, sessionCount, delayed, fails, purgeFails>>
    BY <1>2 DEF Service
  <2>2. new \in SessionRecord /\ new.chan = sess[s].chan
    BY <1>1, TimesType DEF SessionRecord, IInv, TypeOK
  <2> HIDE DEF new
  <2>3. Disjoint'
    BY <2>1 DEF IInv, Pointers, Disjoint
  <2>4. new.chan # NONE => s \in sessions' /\ chan[new.chan] # "none"
    BY <2>1, <2>2 DEF IInv, Pointers, SessionsPoint
  <2>5. Pointers' /\ sess' \in [Sessions -> SessionRecord]
    BY <2>1, <2>2, <2>3, <2>4, OneSessionPointers
  <2>6. TypeOK'
    BY <2>1, <2>5 DEF IInv, TypeOK, SessionRecord
  <2> QED
    BY <2>1, <2>5, <2>6, SameLists DEF IInv
<1>3. ASSUME NEW ok \in BOOLEAN, ActivateSession(c, s, ok)
      PROVE  IInv'
  <2> DEFINE new == Activated(c, s, ok)
  <2>1. /\ sess' = [sess EXCEPT ![s] = new]
        /\ UNCHANGED <<pc, clockVars, conn, attached, channels, channelCount, chan, life, next,
                       sessions, sessionCount, delayed, purgeFails>>
        /\ fails' = fails + (IF ok THEN 0 ELSE 1) /\ fails' <= MaxFails
    BY <1>3 DEF ActivateSession
  <2>2. new \in SessionRecord /\ new.chan \in {c, NONE}
    BY TimesType DEF Activated, Moved, SessionRecord, IInv, TypeOK
  <2>3. s \in sessions /\ chan[c] # "none"
    BY <1>3, FoundIsListed DEF ActivateSession
  <2> HIDE DEF new
  <2>4. Disjoint'
    BY <2>1 DEF IInv, Pointers, Disjoint
  <2>5. Pointers' /\ sess' \in [Sessions -> SessionRecord]
    BY <2>1, <2>2, <2>3, <2>4, OneSessionPointers
  <2>6. fails' \in 0 .. MaxFails /\ purgeFails' \in 0 .. fails'
    BY <2>1, LimitsAssumption DEF IInv, TypeOK
  <2>7. TypeOK'
    BY <2>1, <2>5, <2>6 DEF IInv, TypeOK, SessionRecord
  <2> QED
    BY <2>1, <2>5, <2>7, SameLists DEF IInv
<1> QED
  BY <1>2, <1>3

LEMMA SessionStepIInv ==
  ASSUME IInv, NEW c \in Conns, NEW s \in Sessions, SessionStep(c, s)
  PROVE  IInv'
<1>1. CASE Inactive(c, s)
  <2>1. PICK kept \in SUBSET {s} : RemoveSessions({s}, kept)
    BY <1>1 DEF Inactive
  <2>2. s \in sessions /\ UNCHANGED <<pc, clockVars, conn, channelVars, purgeFails>>
    BY <1>1 DEF Inactive
  <2> QED
    BY <2>1, <2>2, RemoveSessionIInv
<1>2. CASE CloseSession(c, s)
  <2>1. PICK kept \in SUBSET {s} : RemoveSessions({s}, kept)
    BY <1>2 DEF CloseSession
  <2>2. s \in sessions /\ UNCHANGED <<pc, clockVars, conn, channelVars, purgeFails>>
    BY <1>2, FoundIsListed DEF CloseSession, Usable
  <2> QED
    BY <2>1, <2>2, RemoveSessionIInv
<1> QED
  BY <1>1, <1>2, CreateSessionIInv, CreateSessionFailsIInv, UseSessionIInv DEF SessionStep

-----------------------------------------------------------------------------
(* The clean-up takes out what has timed out, each entry once, and the     *)
(* channels that are renewed have a token to take.                         *)
LEMMA CleanUpIInv == IInv /\ CleanUp => IInv'
<1> SUFFICES ASSUME IInv, CleanUp PROVE IInv'
  OBVIOUS
<1>1. PICK keptS \in SUBSET Expired, keptC \in SUBSET TimedOut :
        LET goneS == Remove(Expired, keptS)
            goneC == Remove(TimedOut, keptC)
        IN  /\ MayFail(keptS \cup keptC)
            /\ fails' = fails + Cardinality(keptS \cup keptC)
            /\ sess' = [s \in Sessions |->
                          IF s \in Expired THEN Detached(s, keptS) ELSE sess[s]]
            /\ sessions' = sessions \ goneS
            /\ sessionCount' = sessionCount - Cardinality(goneS)
            /\ channels' = channels \ goneC
            /\ channelCount' = channelCount - Cardinality(goneC)
            /\ delayed' = delayed \cup goneS \cup goneC
  BY DEF CleanUp
<1> DEFINE outS == Remove(Expired, keptS)
           outC == Remove(TimedOut, keptC)
<1>2. outS \subseteq sessions /\ outC \subseteq channels /\ Expired \subseteq Sessions
  BY DEF Remove, Expired, TimedOut, IInv, TypeOK
<1>3. /\ channels' \subseteq Conns /\ sessions' \subseteq Sessions
      /\ delayed' \subseteq Conns \cup Sessions
      /\ channelCount' = Cardinality(channels') /\ channelCount' \in 0 .. channelCount
      /\ sessionCount' = Cardinality(sessions') /\ sessionCount' \in 0 .. sessionCount
      /\ Disjoint'
      /\ \A c \in Conns : c \in channels' \cup delayed' <=> c \in channels \cup delayed
  BY <1>1, <1>2, LeaveBoth
<1>4. Cardinality(keptS \cup keptC) \in Nat
  <2>1. IsFiniteSet(Expired) /\ IsFiniteSet(TimedOut)
    BY Finite, FS_Subset DEF Expired, TimedOut, IInv
  <2>2. IsFiniteSet(keptS) /\ IsFiniteSet(keptC)
    BY <2>1, FS_Subset
  <2> QED
    BY <2>2, FS_Union, FS_CardinalityType
<1>5. fails' \in 0 .. MaxFails /\ purgeFails' \in 0 .. fails'
  BY <1>1, <1>4, LimitsAssumption DEF CleanUp, MayFail, IInv, TypeOK
<1>6. sess \in [Sessions -> SessionRecord]
  BY DEF IInv, TypeOK, SessionRecord
<1>7. ASSUME NEW s \in Sessions
      PROVE  Detached(s, keptS) \in SessionRecord /\ Detached(s, keptS).chan = NONE
  <2>1. sess[s].validTill \in Expiries /\ 0 \in Expiries
    BY <1>6, TimesType DEF SessionRecord, IInv, TypeOK
  <2> QED
    BY <2>1 DEF Detached, NoSession, SessionRecord
<1>8. sess' \in [Sessions -> SessionRecord]
  BY <1>1, <1>6, <1>7
<1>9. /\ life' \in [Conns -> Ends \cup {Wall}] /\ next' \in [Conns -> Ends \cup {NONE}]
      /\ pc' = "listen" /\ UNCHANGED <<conn, attached, chan, purgeFails>>
      /\ now' \in 0 .. W - 1 /\ cleanUp' \in Nat
  <2>1. /\ life' \in [Conns -> Ends \cup {Wall}] /\ next' \in [Conns -> Ends \cup {NONE}]
        /\ pc' = "listen" /\ UNCHANGED <<conn, attached, chan, purgeFails>>
    BY DEF CleanUp, Revolve, IInv, TypeOK
  <2>2. now' \in 0 .. W - 1
    BY SelectType DEF CleanUp, IInv, TypeOK
  <2>3. cleanUp' \in Nat
    BY LimitsAssumption DEF CleanUp, NextTime, IInv, TypeOK
  <2> QED
    BY <2>1, <2>2, <2>3
<1>10. TypeOK'
  <2>1. channelCount' \in Nat /\ sessionCount' \in Nat
    BY <1>3 DEF IInv, TypeOK
  <2> QED
    BY <1>3, <1>5, <1>8, <1>9, <2>1 DEF IInv, TypeOK, SessionRecord
<1>11. SessionsPoint'
  <2> SUFFICES ASSUME NEW s \in Sessions, sess'[s].chan # NONE
               PROVE  s \in sessions' /\ chan'[sess'[s].chan] # "none"
    BY DEF SessionsPoint
  <2>1. s \notin Expired /\ sess'[s] = sess[s]
    BY <1>1, <1>7
  <2>2. s \in sessions /\ chan[sess[s].chan] # "none"
    BY <2>1 DEF IInv, Pointers, SessionsPoint
  <2> QED
    BY <1>1, <1>9, <2>1, <2>2 DEF Remove
<1>12. ConnsPoint' /\ Unattached' /\ Entries'
  BY <1>3, <1>9 DEF IInv, Pointers, ConnsPoint, Unattached, Entries
<1>13. Capacity'
  BY <1>3, <1>9, LimitsAssumption DEF IInv, TypeOK, Capacity
<1> QED
  BY <1>3, <1>10, <1>11, <1>12, <1>13 DEF IInv, Pointers

(* Freeing a channel leaves nothing that points to it.                     *)
LEMMA RunDelayedIInv == IInv /\ RunDelayed => IInv'
<1> SUFFICES ASSUME IInv, RunDelayed PROVE IInv'
  OBVIOUS
<1> USE DEF clockVars, failVars
<1>1. /\ sess \in [Sessions -> SessionRecord] /\ NoSession \in SessionRecord
      /\ NoSession.chan = NONE
  BY TimesType DEF IInv, TypeOK, SessionRecord, NoSession
<1>2. ASSUME NEW s \in Sessions
      PROVE  /\ Released(s) \in SessionRecord
             /\ Released(s).chan # NONE =>
                   Released(s) = sess[s] /\ s \notin delayed /\ sess[s].chan \notin delayed
  BY <1>1 DEF Released, SessionRecord
<1>3. sess' \in [Sessions -> SessionRecord] /\ \A s \in Sessions : sess'[s] = Released(s)
  BY <1>2 DEF RunDelayed
<1>4. TypeOK'
  BY <1>3 DEF RunDelayed, IInv, TypeOK, SessionRecord
<1>5. SessionsPoint'
  <2> SUFFICES ASSUME NEW s \in Sessions, sess'[s].chan # NONE
               PROVE  s \in sessions' /\ chan'[sess'[s].chan] # "none"
    BY DEF SessionsPoint
  <2>1. sess'[s] = sess[s] /\ sess[s].chan \notin delayed /\ sess[s].chan \in Conns
    BY <1>1, <1>2, <1>3 DEF SessionRecord
  <2>2. s \in sessions /\ chan[sess[s].chan] # "none"
    BY <2>1 DEF IInv, Pointers, SessionsPoint
  <2> QED
    BY <2>1, <2>2 DEF RunDelayed
<1>6. ConnsPoint'
  BY DEF RunDelayed, IInv, TypeOK, Pointers, ConnsPoint
<1>7. Unattached'
  BY DEF RunDelayed, IInv, TypeOK, Pointers, Unattached
<1>8. Entries'
  BY DEF RunDelayed, IInv, TypeOK, Pointers, Entries, Disjoint
<1>9. Disjoint'
  BY DEF RunDelayed, Disjoint
<1>10. Capacity'
  BY SameLists DEF RunDelayed, IInv
<1> QED
  BY <1>4, <1>5, <1>6, <1>7, <1>8, <1>9, <1>10 DEF IInv, Pointers

LEMMA NotDueIInv == IInv /\ NotDue => IInv'
<1> SUFFICES ASSUME IInv, NotDue PROVE IInv'
  OBVIOUS
<1> USE DEF clockVars, channelVars, sessionVars, failVars
<1>1. TypeOK'
  <2>1. now' \in 0 .. W - 1
    BY SelectType DEF NotDue, IInv, TypeOK
  <2> QED
    BY <2>1 DEF NotDue, IInv, TypeOK
<1>2. Disjoint'
  BY DEF NotDue, IInv, Pointers, Disjoint
<1>3. Pointers'
  BY <1>2, ListOnlyPointers DEF NotDue
<1> QED
  BY <1>1, <1>3, SameLists DEF NotDue, IInv

-----------------------------------------------------------------------------
LEMMA NextIInv == IInv /\ [Next]_vars => IInv'
<1> SUFFICES ASSUME IInv, [Next]_vars PROVE IInv'
  OBVIOUS
<1>1. ASSUME NEW c \in Conns, ChannelStep(c) PROVE IInv'
  BY <1>1, NewChannelIInv, NoChannelIInv, ClosingIInv, TokenIInv DEF ChannelStep
<1>2. CASE UNCHANGED vars
  BY <1>2 DEF vars, clockVars, channelVars, sessionVars, failVars, IInv, TypeOK, Pointers, Capacity,
              SessionsPoint, ConnsPoint, Unattached, Entries, Disjoint
<1> QED
  BY <1>1, <1>2, NetworkIInv, SessionStepIInv, CleanUpIInv, RunDelayedIInv, NotDueIInv
  DEF Next, Iterate

(* Types, pointers and capacity hold together.                             *)
THEOREM Invariance == Spec => []IInv
  BY InitIInv, NextIInv, PTL DEF Spec

(* Every variable keeps its type: no more allocations of a purge fail than *)
(* fail at all, and no token or session outlives its lifetime.             *)
THEOREM TypeCorrect == Spec => []TypeOK
<1>1. IInv => TypeOK
  BY DEF IInv
<1> QED
  BY <1>1, Invariance, PTL

(* Nothing points to freed memory and nothing is freed twice, for every    *)
(* number of connections and sessions and whatever allocations fail        *)
(* (removeSecureChannel, removeSession and the delayed callbacks).         *)
THEOREM NothingDangles == Spec => []NoDangling
<1>1. IInv => NoDangling
  <2> SUFFICES ASSUME IInv PROVE NoDangling
    OBVIOUS
  <2>1. \A s \in Sessions : sess[s].chan # NONE => s \in InMemory /\ chan[sess[s].chan] # "none"
    BY DEF IInv, Pointers, SessionsPoint, InMemory
  <2>2. {c \in Conns : chan[c] # "none"} = channels \cup (delayed \cap Conns)
    BY DEF IInv, TypeOK, Pointers, Entries
  <2> QED
    BY <2>1, <2>2 DEF IInv, Pointers, ConnsPoint, Disjoint, NoDangling
<1> QED
  BY <1>1, Invariance, PTL

(* The counters are the lists' lengths and the limits hold, but for a      *)
(* channel more for every purge whose removal failed.                      *)
THEOREM CapacityKept == Spec => []Capacity
<1>1. IInv => Capacity
  BY DEF IInv
<1> QED
  BY <1>1, Invariance, PTL

-----------------------------------------------------------------------------
(* A step that takes a channel out of the list is the clean-up or handles  *)
(* a message of a connection.                                              *)
LEMMA NewChannelKeeps ==
  ASSUME IInv, NEW d \in Conns, NoChannel(d) \/ \E r \in Outcomes : NewChannel(d, r),
         NEW c \in channels \ channels'
  PROVE  \A s \in Sessions : sess[s].chan # c
<1>1. ASSUME NEW r \in Outcomes, NewChannel(d, r)
      PROVE  c \in Idle
  <2>1. PICK purge \in Purges : \E kept \in Kept(purge), stays \in SUBSET Closes(r, d) :
          channels' = (channels \cup {d})
                        \ (Remove(purge, kept) \cup Remove(Closes(r, d), stays))
    BY <1>1 DEF NewChannel
  <2>2. d \notin channels
    BY <1>1 DEF NewChannel, IInv, Pointers, Unattached, Entries
  <2>3. c \in purge
    BY <2>1, <2>2 DEF Remove, Closes
  <2> QED
    BY <2>3 DEF Purges
<1>2. CASE NoChannel(d)
  <2>1. PICK purge \in Purges : \E kept \in Kept(purge) : channels' = channels \ Remove(purge, kept)
    BY <1>2 DEF NoChannel
  <2>2. c \in purge
    BY <2>1 DEF Remove
  <2> QED
    BY <2>2 DEF Purges, Idle
<1> QED
  BY <1>1, <1>2 DEF Outcomes, Idle

LEMMA CloseKeeps ==
  ASSUME IInv, NEW d \in Conns, CloseSecureChannel(d) \/ OpnFails(d),
         NEW c \in channels \ channels'
  PROVE  OwnClose(c) \/ CloseById0(c)
<1>1. CloseChannel(d)
  BY DEF CloseSecureChannel, OpnFails
<1>2. c \in (IF d \in Identified THEN {d} ELSE channels \ Identified)
  BY <1>1 DEF CloseChannel, Remove
<1>3. CASE d \in Identified
  BY <1>2, <1>3 DEF OwnClose
<1>4. CASE d \notin Identified
  BY <1>2, <1>4 DEF CloseById0
<1> QED
  BY <1>3, <1>4

(* The steps that leave the list of channels alone, or put one into it.    *)
LEMMA OthersKeep ==
  ASSUME [Next]_vars, channels \ channels' # {}
  PROVE  \/ CleanUp
         \/ \E d \in Conns : \/ \E r \in Outcomes : NewChannel(d, r)
                             \/ NoChannel(d) \/ CloseSecureChannel(d) \/ OpnFails(d)
<1> USE DEF vars, clockVars, channelVars, sessionVars, failVars
<1>1. ASSUME NEW d \in Conns, Network(d)
      PROVE  channels' = channels
  BY <1>1 DEF Network, Accept, Hello, BadMessage, RemoveConnection
<1>2. ASSUME NEW d \in Conns, PurgeAborts(d) \/ OpenLate(d) \/ Renew(d) \/ NewToken(d)
      PROVE  channels' = channels
  BY <1>2 DEF PurgeAborts, OpenLate, Renew, NewToken
<1>3. ASSUME NEW d \in Conns, NEW s \in Sessions, SessionStep(d, s)
      PROVE  channels' = channels
  BY <1>3 DEF SessionStep, CreateSession, CreateSessionFails, ActivateSession, Inactive, Service,
              CloseSession
<1>4. NotDue \/ RunDelayed \/ UNCHANGED vars => channels' = channels
  BY DEF NotDue, RunDelayed
<1> QED
  BY <1>1, <1>2, <1>3, <1>4 DEF Next, Iterate, ChannelStep

(* Nobody but its own client and the clean-up takes away an open channel   *)
(* that carries a session.                                                 *)
THEOREM ChannelsOfSessionsStay == Spec => SessionsKeepChannel
<1>1. IInv /\ [Next]_vars =>
        [\A c \in channels \ channels' :
           (\E s \in Sessions : sess[s].chan = c) => OwnClose(c) \/ CloseById0(c)]_vars
  <2> SUFFICES ASSUME IInv, [Next]_vars, NEW c \in channels \ channels',
                      NEW s \in Sessions, sess[s].chan = c
               PROVE  OwnClose(c) \/ CloseById0(c)
    OBVIOUS
  <2>1. \/ CleanUp
        \/ \E d \in Conns : \/ \E r \in Outcomes : NewChannel(d, r)
                            \/ NoChannel(d) \/ CloseSecureChannel(d) \/ OpnFails(d)
    BY OthersKeep
  <2>2. CASE CleanUp
    BY <2>2 DEF OwnClose
  <2>3. ASSUME NEW d \in Conns, NoChannel(d) \/ \E r \in Outcomes : NewChannel(d, r)
        PROVE  FALSE
    BY <2>3, NewChannelKeeps
  <2>4. ASSUME NEW d \in Conns, CloseSecureChannel(d) \/ OpnFails(d)
        PROVE  OwnClose(c) \/ CloseById0(c)
    BY <2>4, CloseKeeps
  <2> QED
    BY <2>1, <2>2, <2>3, <2>4
<1> QED
  BY <1>1, Invariance, PTL DEF Spec, SessionsKeepChannel

(* A session without a channel stays without, as long as it is there.      *)
THEOREM OrphansStayLost == Spec => OrphanIsLost
<1>1. IInv /\ [Next]_vars =>
        [\A s \in sessions \cap sessions' : sess[s].chan = NONE => sess'[s].chan = NONE]_vars
  <2> SUFFICES ASSUME IInv, [Next]_vars,
                      NEW s \in sessions \cap sessions', sess[s].chan = NONE
               PROVE  sess'[s].chan = NONE
    OBVIOUS
  <2> USE DEF vars, clockVars, channelVars, sessionVars, failVars
  <2>1. s \in Sessions /\ sess \in [Sessions -> SessionRecord]
    BY DEF IInv, TypeOK, SessionRecord
  <2>2. ASSUME NEW t \in Sessions, NEW kept
        PROVE  Detached(t, kept).chan = NONE
    BY DEF Detached, NoSession
  <2>3. ASSUME NEW c \in Conns, Network(c) \/ ChannelStep(c)
        PROVE  sess' = sess
    <3>1. Network(c) => sess' = sess
      BY DEF Network, Accept, Hello, BadMessage, RemoveConnection
    <3>2. ChannelStep(c) => sess' = sess
      BY DEF ChannelStep, NewChannel, PurgeAborts, NoChannel, OpnFails, OpenLate, Renew, NewToken,
             CloseSecureChannel
    <3> QED
      BY <2>3, <3>1, <3>2
  <2>4. ASSUME NEW c \in Conns, NEW t \in Sessions, SessionStep(c, t)
        PROVE  sess'[s].chan = NONE
    <3>1. CASE CreateSession(c, t) \/ CreateSessionFails(c, t)
      <4>1. t # s
        BY <3>1 DEF CreateSession, CreateSessionFails, InMemory
      <4> QED
        BY <2>1, <3>1, <4>1 DEF CreateSession, CreateSessionFails
    <3>2. CASE \E ok \in BOOLEAN : ActivateSession(c, t, ok)
      BY <2>1, <3>2 DEF ActivateSession, Activated, Moved
    <3>3. CASE Inactive(c, t) \/ CloseSession(c, t)
      BY <2>1, <2>2, <3>3 DEF Inactive, CloseSession, RemoveSessions
    <3>4. CASE Service(c, t)
      BY <2>1, <3>4 DEF Service, SessionRecord
    <3> QED
      BY <2>4, <3>1, <3>2, <3>3, <3>4 DEF SessionStep
  <2>5. CASE CleanUp
    BY <2>1, <2>2, <2>5 DEF CleanUp
  <2>6. CASE RunDelayed
    BY <2>1, <2>6 DEF RunDelayed, Released, NoSession, SessionRecord
  <2>7. CASE NotDue \/ UNCHANGED vars
    BY <2>7 DEF NotDue
  <2> QED
    BY <2>3, <2>4, <2>5, <2>6, <2>7 DEF Next, Iterate
<1> QED
  BY <1>1, Invariance, PTL DEF Spec, OrphanIsLost

-----------------------------------------------------------------------------
(* What has timed out goes. The clean-up is never late, and comes again    *)
(* within its interval: what it finds in time lasts until then, and what   *)
(* it finds overdue stays only by a removal that fails, which is counted.  *)
(* A next token is at most as old as the clean-up, which makes it the      *)
(* channel's own.                                                          *)
Lasts(end, intervals) == end + intervals * Interval >= cleanUp

TimeInv ==
  cleanUp < W =>
    /\ now <= cleanUp /\ cleanUp <= now + Interval
    /\ \A s \in sessions : Lasts(sess[s].validTill, 1 + fails)
    /\ \A c \in channels : Lasts(life[c], 2 + fails)
    /\ \A c \in channels : next[c] # NONE => Lasts(next[c], 1 + fails)

(* A channel that is not there has no next token.                          *)
Unissued == \A c \in Conns : chan[c] = "none" => next[c] = NONE

LEMMA Multiples ==
  ASSUME NEW m \in Nat, NEW n \in Nat, m <= n
  PROVE  /\ m * Interval \in Nat /\ n * Interval \in Nat /\ m * Interval <= n * Interval
         /\ (1 + m) * Interval = m * Interval + Interval
<1>1. Interval \in Nat
  BY LimitsAssumption
<1>2. PICK d \in Nat : n = m + d
  <2>1. n - m \in Nat /\ n = m + (n - m)
    OBVIOUS
  <2> QED
    BY <2>1
<1>3. m * Interval \in Nat /\ d * Interval \in Nat
  BY <1>1
<1>4. n * Interval = m * Interval + d * Interval
  BY <1>1, <1>2
<1>5. (1 + m) * Interval = m * Interval + Interval
  BY <1>1
<1> QED
  BY <1>3, <1>4, <1>5

LEMMA Intervals ==
  ASSUME NEW f \in Nat, NEW g \in Nat, f <= g
  PROVE  /\ (1 + f) * Interval \in Nat /\ (2 + f) * Interval \in Nat
         /\ (1 + g) * Interval \in Nat /\ (2 + g) * Interval \in Nat
         /\ (1 + f) * Interval <= (1 + g) * Interval
         /\ (2 + f) * Interval <= (2 + g) * Interval
         /\ (2 + f) * Interval = (1 + f) * Interval + Interval
         /\ (2 + g) * Interval = (1 + g) * Interval + Interval
         /\ Interval <= (1 + f) * Interval
         /\ 1 + f <= g => (2 + f) * Interval <= (1 + g) * Interval
<1>1. /\ 1 + f \in Nat /\ 1 + g \in Nat /\ 2 + f \in Nat /\ 2 + g \in Nat
      /\ 1 + f <= 1 + g /\ 2 + f <= 2 + g
      /\ 1 + (1 + f) = 2 + f /\ 1 + (1 + g) = 2 + g
      /\ 1 + f <= g => 2 + f <= 1 + g
  OBVIOUS
<1>2. /\ (1 + f) * Interval \in Nat /\ (1 + g) * Interval \in Nat
      /\ (1 + f) * Interval <= (1 + g) * Interval
      /\ (1 + (1 + f)) * Interval = (1 + f) * Interval + Interval
  BY <1>1, Multiples
<1>3. /\ (2 + f) * Interval \in Nat /\ (2 + g) * Interval \in Nat
      /\ (2 + f) * Interval <= (2 + g) * Interval
  BY <1>1, Multiples
<1>4. (1 + (1 + g)) * Interval = (1 + g) * Interval + Interval
  BY <1>1, Multiples
<1>5. f * Interval \in Nat /\ (1 + f) * Interval = f * Interval + Interval
  BY Multiples
<1>6. 1 + f <= g => (2 + f) * Interval <= (1 + g) * Interval
  BY <1>1, Multiples
<1>7. Interval <= (1 + f) * Interval
  BY <1>5, LimitsAssumption
<1> QED
  BY <1>1, <1>2, <1>3, <1>4, <1>6, <1>7

(* The steps between two runs of the clean-up: what they change ends no    *)
(* earlier than now.                                                       *)
SessionTimes ==
  \A s \in sessions' :
    \/ s \in sessions /\ sess'[s].validTill = sess[s].validTill
    \/ sess'[s].validTill = now + Timeout
LifeTimes ==
  \A c \in channels' :
    \/ life'[c] = Wall
    \/ c \in channels /\ life'[c] = life[c]
    \/ c \in channels /\ next[c] # NONE /\ life'[c] = next[c]
NextTimes ==
  \A c \in channels' :
    \/ next'[c] = NONE \/ next'[c] = now + Lifetime
    \/ c \in channels /\ next'[c] = next[c]
Between ==
  UNCHANGED clockVars /\ fails <= fails' /\ SessionTimes /\ LifeTimes /\ NextTimes

LEMMA BetweenTimeInv ==
  ASSUME TypeOK, fails' \in Nat, TimeInv, Between
  PROVE  TimeInv'
<1> DEFINE a == (1 + fails) * Interval
           b == (2 + fails) * Interval
           A == (1 + fails') * Interval
           B == (2 + fails') * Interval
<1>1. fails \in Nat /\ fails <= fails' /\ now' = now /\ cleanUp' = cleanUp
  BY LimitsAssumption DEF TypeOK, Between, clockVars
<1>2. a \in Nat /\ A \in Nat /\ a <= A
  BY <1>1, Intervals
<1>3. b \in Nat /\ B \in Nat /\ b <= B
  BY <1>1, Intervals
<1>4. b = a + Interval /\ Interval \in Nat /\ Interval <= a
  BY <1>1, Intervals, LimitsAssumption
<1> HIDE DEF a, b, A, B
<1>5. /\ now \in Nat /\ cleanUp \in Nat /\ W \in Nat /\ Lifetime \in Nat /\ Timeout \in Nat
      /\ \A s \in sessions : sess[s].validTill \in Nat
      /\ \A c \in channels : life[c] \in Nat /\ (next[c] # NONE => next[c] \in Nat)
  BY LimitsAssumption DEF TypeOK, Ends, Expiries, Wall
<1> SUFFICES ASSUME cleanUp < W
             PROVE  /\ now <= cleanUp /\ cleanUp <= now + Interval
                    /\ \A s \in sessions' : sess'[s].validTill + A >= cleanUp
                    /\ \A c \in channels' : life'[c] + B >= cleanUp
                    /\ \A c \in channels' : next'[c] # NONE => next'[c] + A >= cleanUp
  BY <1>1 DEF TimeInv, Lasts, A, B
<1>6. /\ now <= cleanUp /\ cleanUp <= now + Interval
      /\ \A s \in sessions : sess[s].validTill + a >= cleanUp
      /\ \A c \in channels : life[c] + b >= cleanUp
      /\ \A c \in channels : next[c] # NONE => next[c] + a >= cleanUp
  BY DEF TimeInv, Lasts, a, b
<1>7. ASSUME NEW s \in sessions'
      PROVE  sess'[s].validTill + A >= cleanUp
  <2>1. \/ s \in sessions /\ sess'[s].validTill = sess[s].validTill
        \/ sess'[s].validTill = now + Timeout
    BY DEF Between, SessionTimes
  <2> QED
    BY <2>1, <1>2, <1>4, <1>5, <1>6
<1>8. ASSUME NEW c \in channels'
      PROVE  life'[c] + B >= cleanUp
  <2>1. \/ life'[c] = Wall
        \/ c \in channels /\ life'[c] = life[c]
        \/ c \in channels /\ next[c] # NONE /\ life'[c] = next[c]
    BY DEF Between, LifeTimes
  <2>2. CASE life'[c] = Wall
    BY <2>2, <1>3, <1>5 DEF Wall
  <2>3. CASE c \in channels /\ life'[c] = life[c]
    BY <2>3, <1>3, <1>5, <1>6
  <2>4. CASE c \in channels /\ next[c] # NONE /\ life'[c] = next[c]
    <3>1. next[c] \in Nat /\ next[c] + a >= cleanUp
      BY <2>4, <1>5, <1>6
    <3> QED
      BY <2>4, <3>1, <1>2, <1>3, <1>4, <1>5
  <2> QED
    BY <2>1, <2>2, <2>3, <2>4
<1>9. ASSUME NEW c \in channels', next'[c] # NONE
      PROVE  next'[c] + A >= cleanUp
  <2>1. next'[c] = now + Lifetime \/ (c \in channels /\ next'[c] = next[c])
    BY <1>9 DEF Between, NextTimes
  <2>2. CASE next'[c] = now + Lifetime
    BY <2>2, <1>2, <1>4, <1>5, <1>6
  <2>3. CASE c \in channels /\ next'[c] = next[c]
    <3>1. next[c] \in Nat /\ next[c] + a >= cleanUp
      BY <2>3, <1>5, <1>6, <1>9
    <3> QED
      BY <2>3, <3>1, <1>2, <1>5
  <2> QED
    BY <2>1, <2>2, <2>3
<1> QED
  BY <1>6, <1>7, <1>8, <1>9

LEMMA NotDueTimeInv ==
  ASSUME TypeOK, TimeInv, NotDue
  PROVE  TimeInv'
<1>1. /\ now \in 0 .. W - 1 /\ cleanUp \in Nat /\ cleanUp > now /\ cleanUp' = cleanUp
      /\ UNCHANGED <<channelVars, sessionVars, failVars>>
  BY DEF NotDue, TypeOK
<1> SUFFICES ASSUME cleanUp < W
             PROVE  now' <= cleanUp /\ now <= now'
  BY <1>1, LimitsAssumption, SelectType
  DEF TimeInv, Lasts, NotDue, channelVars, sessionVars, failVars, TypeOK
<1>2. PICK passes \in {0, 1} : now' = (now + passes) % W
  BY DEF NotDue, Select
<1>3. now + passes \in 0 .. W - 1
  BY <1>1, LimitsAssumption
<1>4. (now + passes) % W = now + passes
  BY <1>3, LimitsAssumption
<1> QED
  BY <1>1, <1>2, <1>3, <1>4

(* The clean-up: what stays in the lists is in time, or did not go.        *)
LEMMA CleanUpTimeInv ==
  ASSUME IInv, IInv', TimeInv, CleanUp
  PROVE  TimeInv'
<1> DEFINE a == (1 + fails) * Interval
           b == (2 + fails) * Interval
           A == (1 + fails') * Interval
           B == (2 + fails') * Interval
<1>1. PICK keptS \in SUBSET Expired, keptC \in SUBSET TimedOut :
        /\ fails' = fails + Cardinality(keptS \cup keptC)
        /\ sess' = [s \in Sessions |->
                      IF s \in Expired THEN Detached(s, keptS) ELSE sess[s]]
        /\ sessions' = sessions \ Remove(Expired, keptS)
        /\ channels' = channels \ Remove(TimedOut, keptC)
  BY DEF CleanUp
<1>2. /\ Revolve({c \in channels \ TimedOut : next[c] # NONE})
      /\ cleanUp <= now /\ cleanUp' = NextTime /\ Select /\ UNCHANGED attached
  BY DEF CleanUp
<1>3. /\ now \in 0 .. W - 1 /\ cleanUp \in Nat /\ fails \in Nat /\ fails' \in Nat
      /\ W \in Nat /\ Interval \in Nat \ {0}
      /\ sessions \subseteq Sessions /\ channels \subseteq Conns
      /\ sess \in [Sessions -> SessionRecord]
      /\ \A s \in sessions : sess[s].validTill \in Nat
      /\ \A c \in channels : life[c] \in Nat /\ (next[c] # NONE => next[c] \in Nat)
  BY LimitsAssumption DEF IInv, TypeOK, Ends, Expiries, Wall, SessionRecord
<1>4. /\ IsFiniteSet(keptS \cup keptC) /\ Cardinality(keptS \cup keptC) \in Nat
      /\ keptS \cup keptC # {} => Cardinality(keptS \cup keptC) >= 1
  <2>1. IsFiniteSet(keptS \cup keptC)
    <3>1. IsFiniteSet(keptS) /\ IsFiniteSet(keptC)
      BY <1>1, Finite, FS_Subset DEF IInv, Expired, TimedOut
    <3> QED
      BY <3>1, FS_Union
  <2>2. Cardinality(keptS \cup keptC) \in Nat
    BY <2>1, FS_CardinalityType
  <2>3. Cardinality(keptS \cup keptC) = 0 <=> keptS \cup keptC = {}
    BY <2>1, FS_EmptySet
  <2> QED
    BY <2>1, <2>2, <2>3
<1>5. /\ a \in Nat /\ b \in Nat /\ A \in Nat /\ B \in Nat /\ a <= A /\ b <= B
      /\ b = a + Interval /\ B = A + Interval /\ Interval <= a
      /\ keptS \cup keptC # {} => b <= A
  <2>1. fails \in Nat /\ fails' \in Nat
    BY <1>3
  <2>2. fails <= fails' /\ (keptS \cup keptC # {} => 1 + fails <= fails')
    BY <1>1, <1>4, <2>1
  <2> QED
    BY <2>1, <2>2, Intervals
<1> HIDE DEF a, b, A, B
<1> SUFFICES ASSUME cleanUp' < W
             PROVE  /\ now' <= cleanUp' /\ cleanUp' <= now' + Interval
                    /\ \A s \in sessions' : sess'[s].validTill + A >= cleanUp'
                    /\ \A c \in channels' : life'[c] + B >= cleanUp'
                    /\ \A c \in channels' : next'[c] # NONE => next'[c] + A >= cleanUp'
  BY DEF TimeInv, Lasts, A, B
<1>6. /\ cleanUp = now /\ cleanUp' = now + Interval
      /\ \A s \in sessions : sess[s].validTill + a >= now
      /\ \A c \in channels : life[c] + b >= now
      /\ \A c \in channels : next[c] # NONE => next[c] + a >= now
  <2>1. cleanUp < W
    BY <1>2, <1>3
  <2>2. /\ now <= cleanUp
        /\ \A s \in sessions : sess[s].validTill + a >= cleanUp
        /\ \A c \in channels : life[c] + b >= cleanUp
        /\ \A c \in channels : next[c] # NONE => next[c] + a >= cleanUp
    BY <2>1 DEF TimeInv, Lasts, a, b
  <2>3. cleanUp = now /\ cleanUp' = now + Interval
    BY <1>2, <1>3, <2>2 DEF NextTime
  <2> QED
    BY <2>2, <2>3
<1>7. now' = now \/ now' = now + 1
  <2>1. PICK passes \in {0, 1} : now' = (now + passes) % W
    BY <1>2 DEF Select
  <2>2. now + passes \in 0 .. W - 1
    BY <1>3, <1>6
  <2>3. (now + passes) % W = now + passes
    BY <1>3, <2>2
  <2>4. passes = 0 \/ passes = 1
    OBVIOUS
  <2>5. now \in Nat
    BY <1>3
  <2> QED
    BY <2>1, <2>3, <2>4, <2>5
<1>8. now' <= cleanUp' /\ cleanUp' <= now' + Interval
  BY <1>3, <1>6, <1>7
<1>9. ASSUME NEW s \in sessions'
      PROVE  sess'[s].validTill + A >= cleanUp'
  <2>1. s \in sessions /\ s \in Sessions
    BY <1>1, <1>3
  <2>2. CASE s \in Expired
    <3>1. s \in keptS
      BY <1>1, <2>2 DEF Remove
    <3>2. sess'[s].validTill = sess[s].validTill
      BY <1>1, <2>1, <2>2, <3>1 DEF Detached, NoSession
    <3> QED
      BY <1>3, <1>5, <1>6, <2>1, <3>1, <3>2
  <2>3. CASE s \notin Expired
    <3>1. sess'[s] = sess[s] /\ ~(sess[s].validTill < now)
      BY <1>1, <2>1, <2>3 DEF Expired
    <3> QED
      BY <1>3, <1>5, <1>6, <2>1, <3>1
  <2> QED
    BY <2>2, <2>3
<1>10. ASSUME NEW c \in channels'
       PROVE  /\ life'[c] + B >= cleanUp'
              /\ next'[c] # NONE => next'[c] + A >= cleanUp'
  <2>1. c \in channels /\ c \in Conns
    BY <1>1, <1>3
  <2>2. CASE c \in TimedOut
    <3>1. c \in keptC
      BY <1>1, <2>2 DEF Remove
    <3>2. life'[c] = life[c] /\ next'[c] = next[c]
      BY <1>2, <2>1, <2>2 DEF Revolve
    <3>3. life'[c] + B >= cleanUp'
      BY <1>3, <1>5, <1>6, <2>1, <3>1, <3>2
    <3>4. next[c] # NONE => next[c] + A >= cleanUp'
      <4> SUFFICES ASSUME next[c] # NONE PROVE next[c] + A >= cleanUp'
        OBVIOUS
      <4>1. next[c] \in Nat /\ next[c] + a >= now
        BY <1>3, <1>6, <2>1
      <4> QED
        BY <1>3, <1>5, <1>6, <3>1, <4>1
    <3> QED
      BY <3>2, <3>3, <3>4
  <2>3. CASE c \notin TimedOut /\ next[c] # NONE
    <3>1. life'[c] = next[c] /\ next'[c] = NONE
      BY <1>2, <2>1, <2>3 DEF Revolve
    <3>2. next[c] \in Nat /\ next[c] + a >= now
      BY <1>3, <1>6, <2>1, <2>3
    <3> QED
      BY <1>3, <1>5, <1>6, <3>1, <3>2
  <2>4. CASE c \notin TimedOut /\ next[c] = NONE
    <3>1. life'[c] = life[c] /\ next'[c] = NONE
      BY <1>2, <2>1, <2>4 DEF Revolve
    <3>2. ~(life[c] < now)
      BY <2>1, <2>4 DEF TimedOut
    <3> QED
      BY <1>3, <1>5, <1>6, <2>1, <3>1, <3>2
  <2> QED
    BY <2>2, <2>3, <2>4
<1> QED
  BY <1>8, <1>9, <1>10

LEMMA ConnBetween ==
  ASSUME IInv, Unissued, NEW c \in Conns, Network(c) \/ ChannelStep(c)
  PROVE  Between /\ Unissued'
<1> USE DEF clockVars, channelVars, sessionVars, failVars
<1>1. /\ channels \subseteq Conns /\ life \in [Conns -> Ends \cup {Wall}]
      /\ next \in [Conns -> Ends \cup {NONE}]
      /\ chan \in [Conns -> {"none", "FRESH", "OPEN"}] /\ fails \in Nat
      /\ \A X \in SUBSET channels : Cardinality(X) \in Nat
  <2>1. ASSUME NEW X \in SUBSET channels PROVE Cardinality(X) \in Nat
    BY Finite, FS_Subset, FS_CardinalityType DEF IInv
  <2> QED
    BY <2>1 DEF IInv, TypeOK
<1>2. CASE Network(c)
  <2>1. UNCHANGED <<clockVars, channels, chan, life, next, sessionVars, failVars>>
    BY <1>2 DEF Network, Accept, Hello, BadMessage, RemoveConnection
  <2> QED
    BY <1>1, <2>1 DEF Between, SessionTimes, LifeTimes, NextTimes, Unissued
<1>3. ASSUME UNCHANGED <<clockVars, life, next, sessionVars>>, fails <= fails',
             channels' \subseteq channels, UNCHANGED chan
      PROVE  Between /\ Unissued'
  BY <1>1, <1>3 DEF Between, SessionTimes, LifeTimes, NextTimes, Unissued
<1>4. CASE \E r \in Outcomes : NewChannel(c, r)
  <2>1. PICK r \in Outcomes : NewChannel(c, r)
    BY <1>4
  <2>2. PICK purge \in Purges : \E kept \in Kept(purge), stays \in SUBSET Closes(r, c) :
          /\ fails' = fails + Cardinality(kept) + Cardinality(stays)
          /\ channels' = (channels \cup {c}) \ (Remove(purge, kept) \cup Remove(Closes(r, c), stays))
    BY <2>1 DEF NewChannel
  <2>3. PICK kept \in Kept(purge), stays \in SUBSET Closes(r, c) :
          /\ fails' = fails + Cardinality(kept) + Cardinality(stays)
          /\ channels' = (channels \cup {c}) \ (Remove(purge, kept) \cup Remove(Closes(r, c), stays))
    BY <2>2
  <2>4. Cardinality(kept) \in Nat
    BY <1>1, <2>2, <2>3, FS_EmptySet DEF Kept, Purges, Idle
  <2>5. Cardinality(stays) \in Nat
    <3>1. IsFiniteSet(Closes(r, c))
      BY FS_EmptySet, FS_Singleton DEF Closes
    <3>2. IsFiniteSet(stays)
      BY <3>1, FS_Subset
    <3> QED
      BY <3>2, FS_CardinalityType
  <2>6. fails <= fails'
    BY <1>1, <2>3, <2>4, <2>5
  <2>7. /\ chan' = [chan EXCEPT ![c] = IF r \in {"open", "unsent"} THEN "OPEN" ELSE "FRESH"]
        /\ life' = [life EXCEPT ![c] = Wall]
        /\ UNCHANGED <<clockVars, next, sessionVars>>
        /\ conn[c] = "ESTABLISHED" /\ c \notin attached
    BY <2>1 DEF NewChannel
  <2>8. next[c] = NONE
    BY <2>7 DEF IInv, Pointers, Unattached, Unissued
  <2>9. channels' \subseteq channels \cup {c}
    BY <2>3
  <2>10. Unissued'
    BY <1>1, <2>7, <2>8 DEF Unissued
  <2>11. SessionTimes
    BY <2>7 DEF SessionTimes
  <2>12. LifeTimes /\ NextTimes
    BY <1>1, <2>7, <2>8, <2>9 DEF LifeTimes, NextTimes
  <2> QED
    BY <2>6, <2>7, <2>10, <2>11, <2>12 DEF Between
<1>5. CASE PurgeAborts(c)
  BY <1>1, <1>3, <1>5 DEF PurgeAborts
<1>6. CASE NoChannel(c)
  <2>1. UNCHANGED <<clockVars, life, next, sessionVars, chan>>
    BY <1>6 DEF NoChannel
  <2>2. CASE UNCHANGED <<channels, channelCount, delayed, failVars>>
    BY <1>1, <1>3, <2>1, <2>2
  <2>3. CASE \E purge \in Purges : \E kept \in Kept(purge) :
               /\ fails' = fails + Cardinality(kept) + 1
               /\ channels' = channels \ Remove(purge, kept)
    <3>1. PICK purge \in Purges : \E kept \in Kept(purge) :
               /\ fails' = fails + Cardinality(kept) + 1
               /\ channels' = channels \ Remove(purge, kept)
      BY <2>3
    <3>2. PICK kept \in Kept(purge) :
               /\ fails' = fails + Cardinality(kept) + 1
               /\ channels' = channels \ Remove(purge, kept)
      BY <3>1
    <3>3. Cardinality(kept) \in Nat
      BY <1>1, <3>1, <3>2, FS_EmptySet DEF Kept, Purges, Idle
    <3>4. fails <= fails' /\ channels' \subseteq channels
      BY <1>1, <3>2, <3>3
    <3> QED
      BY <1>3, <2>1, <3>4
  <2> QED
    BY <1>6, <2>2, <2>3 DEF NoChannel
<1>7. CASE OpnFails(c) \/ CloseSecureChannel(c)
  <2>1. CloseChannel(c) /\ UNCHANGED <<clockVars, life, next, sessionVars, chan>>
    BY <1>7 DEF OpnFails, CloseSecureChannel
  <2>2. CASE UNCHANGED <<channels, channelCount, delayed, failVars>>
    BY <1>1, <1>3, <2>1, <2>2
  <2>3. CASE \E q \in channels : \E kept \in SUBSET {q} :
               /\ fails' = fails + Cardinality(kept)
               /\ channels' = channels \ Remove({q}, kept)
    <3>1. PICK q \in channels : \E kept \in SUBSET {q} :
               /\ fails' = fails + Cardinality(kept)
               /\ channels' = channels \ Remove({q}, kept)
      BY <2>3
    <3>2. PICK kept \in SUBSET {q} :
               /\ fails' = fails + Cardinality(kept)
               /\ channels' = channels \ Remove({q}, kept)
      BY <3>1
    <3>3. Cardinality(kept) \in Nat
      BY <1>1, <3>1, <3>2
    <3>4. fails <= fails' /\ channels' \subseteq channels
      BY <1>1, <3>2, <3>3
    <3> QED
      BY <1>3, <2>1, <3>4
  <2> QED
    BY <2>1, <2>2, <2>3 DEF CloseChannel
<1>8. CASE OpenLate(c)
  <2>1. /\ chan' = [chan EXCEPT ![c] = "OPEN"] /\ life' = [life EXCEPT ![c] = Wall]
        /\ UNCHANGED <<clockVars, channels, next, sessionVars, failVars>>
    BY <1>8 DEF OpenLate
  <2>2. Unissued'
    BY <1>1, <2>1 DEF Unissued
  <2>3. LifeTimes /\ NextTimes
    BY <1>1, <2>1 DEF LifeTimes, NextTimes
  <2> QED
    BY <1>1, <2>1, <2>2, <2>3 DEF Between, SessionTimes
<1>9. CASE Renew(c)
  <2>1. /\ chan[c] = "OPEN" /\ next' = [next EXCEPT ![c] = now + Lifetime]
        /\ UNCHANGED <<clockVars, channels, chan, life, sessionVars, failVars>>
    BY <1>9 DEF Renew
  <2>2. Unissued'
    BY <1>1, <2>1 DEF Unissued
  <2>3. LifeTimes /\ NextTimes
    BY <1>1, <2>1 DEF LifeTimes, NextTimes
  <2> QED
    BY <1>1, <2>1, <2>2, <2>3 DEF Between, SessionTimes
<1>10. CASE NewToken(c)
  <2>1. /\ next[c] # NONE
        /\ life' = [d \in Conns |-> IF d \in {c} THEN next[d] ELSE life[d]]
        /\ next' = [d \in Conns |-> IF d \in {c} THEN NONE ELSE next[d]]
        /\ UNCHANGED <<clockVars, channels, chan, sessionVars, failVars>>
    BY <1>10 DEF NewToken, Revolve
  <2>2. Unissued'
    BY <1>1, <2>1 DEF Unissued
  <2>3. LifeTimes
    BY <1>1, <2>1 DEF LifeTimes
  <2>4. NextTimes
    BY <1>1, <2>1 DEF NextTimes
  <2> QED
    BY <1>1, <2>1, <2>2, <2>3, <2>4 DEF Between, SessionTimes
<1> QED
  BY <1>2, <1>4, <1>5, <1>6, <1>7, <1>8, <1>9, <1>10 DEF ChannelStep

LEMMA SessionBetween ==
  ASSUME IInv, Unissued, NEW c \in Conns, NEW s \in Sessions, SessionStep(c, s)
  PROVE  Between /\ Unissued'
<1> USE DEF clockVars, channelVars, failVars
<1>1. /\ sess \in [Sessions -> SessionRecord] /\ fails \in Nat /\ sessions \subseteq Sessions
      /\ channels \subseteq Conns
  BY DEF IInv, TypeOK, SessionRecord
<1>2. UNCHANGED <<clockVars, channels, chan, life, next>>
  BY DEF SessionStep, CreateSession, CreateSessionFails, ActivateSession, Inactive, Service,
         CloseSession
<1>3. Unissued' /\ LifeTimes /\ NextTimes
  BY <1>2 DEF Unissued, LifeTimes, NextTimes
<1>4. CASE CreateSession(c, s)
  BY <1>1, <1>2, <1>3, <1>4 DEF CreateSession, Between, SessionTimes
<1>5. CASE CreateSessionFails(c, s)
  <2>1. PICK stays \in BOOLEAN :
          /\ fails' = fails + (IF stays THEN 2 ELSE 1)
          /\ IF stays THEN sessions' = sessions \cup {s} ELSE UNCHANGED sessions
          /\ sess' = [sess EXCEPT ![s] =
                        [NoSession EXCEPT !.validTill = IF stays THEN now + Timeout ELSE 0]]
    BY <1>5 DEF CreateSessionFails
  <2>2. fails <= fails' /\ s \notin sessions
    BY <1>1, <1>5, <2>1 DEF CreateSessionFails, InMemory
  <2>3. SessionTimes
    BY <1>1, <2>1, <2>2 DEF SessionTimes, NoSession
  <2> QED
    BY <1>2, <1>3, <2>2, <2>3 DEF Between
<1>6. CASE \E ok \in BOOLEAN : ActivateSession(c, s, ok)
  <2>1. PICK ok \in BOOLEAN : ActivateSession(c, s, ok)
    BY <1>6
  <2>2. Activated(c, s, ok).validTill = now + Timeout
    BY DEF Activated
  <2>3. /\ fails' = fails + (IF ok THEN 0 ELSE 1)
        /\ sess' = [sess EXCEPT ![s] = Activated(c, s, ok)] /\ sessions' = sessions
    BY <2>1 DEF ActivateSession
  <2>4. SessionTimes
    BY <1>1, <2>2, <2>3 DEF SessionTimes
  <2>5. fails <= fails'
    BY <1>1, <2>3
  <2> QED
    BY <1>2, <1>3, <2>4, <2>5 DEF Between
<1>7. CASE Inactive(c, s) \/ CloseSession(c, s)
  <2>1. PICK kept \in SUBSET {s} : RemoveSessions({s}, kept)
    BY <1>7 DEF Inactive, CloseSession
  <2>2. Cardinality(kept) \in Nat
    <3>1. IsFiniteSet(kept)
      BY FS_Singleton, FS_Subset
    <3> QED
      BY <3>1, FS_CardinalityType
  <2>3. fails <= fails'
    BY <1>1, <2>1, <2>2 DEF RemoveSessions
  <2>4. SessionTimes
    <3> SUFFICES ASSUME NEW t \in sessions'
                 PROVE  t \in sessions /\ sess'[t].validTill = sess[t].validTill
      BY DEF SessionTimes
    <3>1. /\ t \in sessions /\ t \in Sessions /\ (t = s => s \in kept)
          /\ sess'[t] = IF t \in {s} THEN Detached(t, kept) ELSE sess[t]
      BY <1>1, <2>1 DEF RemoveSessions, Remove
    <3>2. CASE t = s
      <4>1. Detached(t, kept).validTill = sess[t].validTill
        BY <3>1, <3>2 DEF Detached, NoSession
      <4> QED
        BY <3>1, <3>2, <4>1
    <3> QED
      BY <3>1, <3>2
  <2> QED
    BY <1>2, <1>3, <2>3, <2>4 DEF Between
<1>8. CASE Service(c, s)
  BY <1>1, <1>2, <1>3, <1>8 DEF Service, Between, SessionTimes, SessionRecord
<1> QED
  BY <1>4, <1>5, <1>6, <1>7, <1>8 DEF SessionStep

LEMMA DelayedBetween ==
  ASSUME IInv, Unissued, RunDelayed
  PROVE  Between /\ Unissued'
<1> USE DEF clockVars, failVars
<1>1. /\ sess \in [Sessions -> SessionRecord] /\ fails \in Nat /\ sessions \subseteq Sessions
      /\ channels \subseteq Conns /\ chan \in [Conns -> {"none", "FRESH", "OPEN"}]
      /\ Disjoint
  BY DEF IInv, TypeOK, SessionRecord, Pointers
<1>2. SessionTimes
  BY <1>1 DEF RunDelayed, Released, Disjoint, SessionTimes, SessionRecord
<1>3. LifeTimes /\ NextTimes
  BY <1>1 DEF RunDelayed, Disjoint, LifeTimes, NextTimes
<1>4. Unissued'
  BY <1>1 DEF RunDelayed, Unissued
<1> QED
  BY <1>1, <1>2, <1>3, <1>4 DEF RunDelayed, Between

(* No session outlives its time by more than the clean-up's interval, and  *)
(* one more for each removal that failed, and no channel its token by more *)
(* than one more again: for every timeout and lifetime, as long as the     *)
(* clean-up has a time that the clock reaches.                             *)
THEOREM NothingStays == Spec => []StaleGo
<1> DEFINE Inv == IInv /\ TimeInv /\ Unissued
<1>1. Init => Inv
  <2> SUFFICES ASSUME Init PROVE TimeInv /\ Unissued
    BY InitIInv
  <2>1. now <= cleanUp /\ cleanUp <= now + Interval
    BY LimitsAssumption DEF Init
  <2>2. sessions = {} /\ channels = {} /\ next = [c \in Conns |-> NONE]
    BY DEF Init
  <2> QED
    BY <2>1, <2>2 DEF TimeInv, Unissued
<1>2. Inv /\ [Next]_vars => Inv'
  <2> SUFFICES ASSUME Inv, [Next]_vars PROVE Inv'
    OBVIOUS
  <2> HIDE DEF Inv
  <2>0. IInv /\ TimeInv /\ Unissued
    BY DEF Inv
  <2>1. IInv'
    BY <2>0, NextIInv
  <2> SUFFICES TimeInv' /\ Unissued'
    BY <2>1 DEF Inv
  <2>2. TypeOK /\ fails' \in Nat
    BY <2>0, <2>1 DEF IInv, TypeOK
  <2>3. Between /\ Unissued' => TimeInv' /\ Unissued'
    BY <2>0, <2>2, BetweenTimeInv
  <2>4. ASSUME NEW c \in Conns, Network(c) \/ ChannelStep(c)
        PROVE  TimeInv' /\ Unissued'
    BY <2>0, <2>3, <2>4, ConnBetween
  <2>5. ASSUME NEW c \in Conns, NEW s \in Sessions, SessionStep(c, s)
        PROVE  TimeInv' /\ Unissued'
    BY <2>0, <2>3, <2>5, SessionBetween
  <2>6. CASE RunDelayed
    BY <2>0, <2>3, <2>6, DelayedBetween
  <2>7. CASE NotDue
    <3>1. Unissued'
      BY <2>0, <2>7 DEF NotDue, channelVars, Unissued
    <3> QED
      BY <2>0, <2>2, <2>7, <3>1, NotDueTimeInv
  <2>8. CASE CleanUp
    <3>1. Unissued'
      BY <2>0, <2>2, <2>8 DEF CleanUp, Revolve, Unissued, TypeOK
    <3> QED
      BY <2>0, <2>1, <2>8, <3>1, CleanUpTimeInv
  <2>9. CASE UNCHANGED vars
    BY <2>0, <2>9 DEF vars, clockVars, channelVars, sessionVars, failVars, TimeInv, Lasts, Unissued
  <2> QED
    BY <2>4, <2>5, <2>6, <2>7, <2>8, <2>9 DEF Next, Iterate
<1>3. Inv => StaleGo
  <2> SUFFICES ASSUME Inv, cleanUp < W
               PROVE  /\ \A s \in sessions : ~Overdue(sess[s].validTill, 1 + fails)
                      /\ \A c \in channels : ~Overdue(life[c], 2 + fails)
    BY DEF StaleGo
  <2>1. /\ fails \in Nat /\ now \in Nat /\ cleanUp \in Nat
        /\ \A s \in sessions : sess[s].validTill \in Nat
        /\ \A c \in channels : life[c] \in Nat
    BY LimitsAssumption DEF IInv, TypeOK, Ends, Expiries, Wall
  <2>2. (1 + fails) * Interval \in Nat /\ (2 + fails) * Interval \in Nat
    BY <2>1, Intervals
  <2>3. /\ now <= cleanUp
        /\ \A s \in sessions : sess[s].validTill + (1 + fails) * Interval >= cleanUp
        /\ \A c \in channels : life[c] + (2 + fails) * Interval >= cleanUp
    BY DEF TimeInv, Lasts
  <2> DEFINE a == (1 + fails) * Interval
             b == (2 + fails) * Interval
  <2>4. a \in Nat /\ b \in Nat
    BY <2>2
  <2>5. /\ \A s \in sessions : sess[s].validTill + a >= cleanUp
        /\ \A c \in channels : life[c] + b >= cleanUp
    BY <2>3
  <2> SUFFICES /\ \A s \in sessions : ~(sess[s].validTill + a < now)
               /\ \A c \in channels : ~(life[c] + b < now)
    BY DEF Overdue
  <2> HIDE DEF a, b
  <2> QED
    BY <2>1, <2>3, <2>4, <2>5
<1> QED
  BY <1>1, <1>2, <1>3, PTL DEF Spec

=============================================================================
