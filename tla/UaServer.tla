------------------------------ MODULE UaServer ------------------------------
(***************************************************************************)
(* The server's SecureChannels and sessions: the TCP connections they come *)
(* over, both managers with their limits and the clean-up that runs as a   *)
(* timer callback, and the session services.                               *)
(*                                                                         *)
(* The server is single threaded. An iteration of its main loop runs the   *)
(* timer, handles what the connections have received, and then the delayed *)
(* callbacks, which free what the handlers removed: until then a removed   *)
(* channel still has its connection and handles the rest of its packets.   *)
(*                                                                         *)
(* Clients are external: any message may come on any connection. A channel *)
(* has the name of its connection, of which there is at most one. Where    *)
(* the code takes the first of a list, any fitting entry is taken.         *)
(*                                                                         *)
(* The clock is a tick count of 16 bits, which returns to 0; the times at  *)
(* which something ends are sums of it and intervals, and may lie behind   *)
(* all its values. The token of a first open is stamped with the wall      *)
(* clock, which the clean-up compares with this one: it never ends. A tick *)
(* of the model is long enough for an iteration of the main loop, which    *)
(* blocks for 50 ms at most, but short against the clean-up's interval of  *)
(* ten seconds.                                                            *)
(***************************************************************************)
EXTENDS Integers, FiniteSets

CONSTANTS
  Conns,              \* connections
  Sessions,           \* session entries
  maxSecureChannels,  \* config.maxSecureChannels
  maxSessions,        \* config.maxSessions
  W,                  \* values of the clock
  Interval,           \* of the clean-up
  Lifetime,           \* revised lifetime of a token
  Timeout,            \* revised timeout of a session
  MaxFails,           \* bound of the model: allocations that fail
  NONE

ASSUME NamesAssumption ==
  /\ IsFiniteSet(Conns) /\ IsFiniteSet(Sessions)
  /\ Conns \cap Sessions = {} /\ NONE \notin Conns
ASSUME LimitsAssumption ==
  /\ maxSecureChannels \in Nat \ {0} /\ maxSessions \in Nat
  /\ W \in Nat \ {0} /\ Interval \in Nat \ {0}
  /\ Lifetime \in Nat /\ Timeout \in Nat /\ MaxFails \in Nat

VARIABLES
  pc,            \* what the main loop is at: timer, listen or aborted
  now,           \* UA_DateTime_nowMonotonic
  cleanUp,       \* nextTime of the clean-up
  conn,          \* connection->state, "none" before accept and after free
  attached,      \* connections and channels that point to each other
  channels,      \* cm->channels
  channelCount,  \* cm->currentChannelCount
  chan,          \* channel->state, "none" when there is no entry
  life,          \* securityToken: createdAt + revisedLifetime, or Wall
  next,          \* the same of nextSecurityToken, NONE when not issued
  sessions,      \* sm->sessions
  sessionCount,  \* sm->currentSessionCount
  sess,          \* each session's channel, activated and validTill
  delayed,       \* server->delayedCallbacks: the entries they free
  fails,         \* allocations that have failed
  purgeFails     \* history: those of a purge

clockVars == <<now, cleanUp>>
channelVars == <<attached, channels, channelCount, chan, life, next>>
sessionVars == <<sessions, sessionCount, sess>>
failVars == <<fails, purgeFails>>
vars == <<pc, clockVars, conn, channelVars, sessionVars, delayed, failVars>>

-----------------------------------------------------------------------------
Wall == W + Lifetime
Ends == 0 .. W - 1 + Lifetime
Expiries == 0 .. W - 1 + Timeout
NoSession == [chan |-> NONE, activated |-> FALSE, validTill |-> 0]

TypeOK ==
  /\ pc \in {"timer", "listen", "aborted"}
  /\ now \in 0 .. W - 1 /\ cleanUp \in Nat
  /\ conn \in [Conns -> {"none", "OPENING", "ESTABLISHED", "CLOSED"}]
  /\ attached \subseteq Conns
  /\ channels \subseteq Conns
  /\ channelCount \in Nat
  /\ chan \in [Conns -> {"none", "FRESH", "OPEN"}]
  /\ life \in [Conns -> Ends \cup {Wall}]
  /\ next \in [Conns -> Ends \cup {NONE}]
  /\ sessions \subseteq Sessions
  /\ sessionCount \in Nat
  /\ sess \in [Sessions ->
       [chan : Conns \cup {NONE}, activated : BOOLEAN, validTill : Expiries]]
  /\ delayed \subseteq Conns \cup Sessions
  /\ fails \in 0 .. MaxFails
  /\ purgeFails \in 0 .. fails

Init ==
  /\ pc = "timer" /\ now \in 0 .. W - 1 /\ cleanUp = now + Interval
  /\ conn = [c \in Conns |-> "none"]
  /\ attached = {} /\ channels = {} /\ channelCount = 0
  /\ chan = [c \in Conns |-> "none"]
  /\ life = [c \in Conns |-> Wall] /\ next = [c \in Conns |-> NONE]
  /\ sessions = {} /\ sessionCount = 0
  /\ sess = [s \in Sessions |-> NoSession]
  /\ delayed = {} /\ fails = 0 /\ purgeFails = 0

-----------------------------------------------------------------------------
(* Connections.                                                            *)
Handles(c) == pc = "listen" /\ conn[c] # "CLOSED"
Close(c) == conn' = [conn EXCEPT ![c] = "CLOSED"]

(* Entries are alike: a new one has the name of any that is not in memory. *)
FreeConns == {c \in Conns : conn[c] = "none" /\ chan[c] = "none"}

Accept(c) ==
  /\ pc = "listen" /\ c \in FreeConns
  /\ conn' = [conn EXCEPT ![c] = "OPENING"]
  /\ UNCHANGED <<pc, clockVars, channelVars, sessionVars, delayed, failVars>>

Hello(c) ==
  /\ Handles(c) /\ conn[c] = "OPENING"
  /\ conn' = [conn EXCEPT ![c] = "ESTABLISHED"]
  /\ UNCHANGED <<pc, clockVars, channelVars, sessionVars, delayed, failVars>>

(* A message that does not decode, has an unknown token or does not belong *)
(* here: the server answers with an ERR and shuts the socket down.         *)
BadMessage(c) ==
  /\ Handles(c) /\ conn[c] # "none"
  /\ Close(c)
  /\ UNCHANGED <<pc, clockVars, channelVars, sessionVars, delayed, failVars>>

(* A socket that was shut down, closed by its peer, or had no HEL in time. *)
RemoveConnection(c) ==
  /\ pc = "listen" /\ conn[c] # "none"
  /\ conn' = [conn EXCEPT ![c] = "none"]
  /\ attached' = attached \ {c}
  /\ UNCHANGED <<pc, clockVars, channels, channelCount, chan, life, next,
                 sessionVars, delayed, failVars>>

-----------------------------------------------------------------------------
(* Channels.                                                               *)

(* removeSecureChannel for each of X; the delayed callback cannot be       *)
(* allocated for those in kept, which stay for the next time.              *)
Remove(X, kept) == X \ kept
MayFail(kept) == fails + Cardinality(kept) <= MaxFails

(* purgeFirstChannelWithoutSession, when there is no capacity left.        *)
Idle == {p \in channels : \A s \in Sessions : sess[s].chan # p}
Purges_any == IF channelCount < maxSecureChannels THEN {{}} ELSE {{p} : p \in channels}
Purges_late == IF channelCount <= maxSecureChannels THEN {{}} ELSE {{p} : p \in Idle}
Purges == IF channelCount < maxSecureChannels THEN {{}} ELSE {{p} : p \in Idle}

(* The failure to remove it is overlooked, unless it is the list's first   *)
(* entry and the assertion fails: those before it have sessions.           *)
Kept(purge) == IF channels \subseteq Idle THEN {{}} ELSE SUBSET purge

PurgeAborts(c) ==
  /\ Handles(c) /\ conn[c] = "ESTABLISHED" /\ c \notin attached
  /\ channelCount >= maxSecureChannels /\ Idle # {}
  /\ fails' = fails + 1 /\ fails' <= MaxFails
  /\ pc' = "aborted"
  /\ UNCHANGED <<clockVars, conn, channelVars, sessionVars, delayed, purgeFails>>

(* A channel gets its id when it is opened: until then that is 0, like the *)
(* id of any other fresh channel. A first OPN that fails in or after its   *)
(* decoding closes the channel it made: that is the first of the list, so  *)
(* that no other of the same id is found before it.                        *)
Identified == {c \in Conns : chan[c] = "OPEN"}
Closes(r, c) == IF r \in {"refused", "wrongType", "unsent"} THEN {c} ELSE {}

(* The first OPN of a connection creates the channel and opens it. r: open,*)
(* chunkError before processOPN, refused by the service, wrongType when it *)
(* decodes as another request, unsent when the answer cannot be made or    *)
(* sent: by then the channel has its id.                                   *)
NewChannel(c, r) ==
  /\ Handles(c) /\ conn[c] = "ESTABLISHED" /\ c \notin attached
  /\ \E purge \in Purges : \E kept \in Kept(purge), stays \in SUBSET Closes(r, c) :
       LET gone == Remove(purge, kept) \cup Remove(Closes(r, c), stays)
       IN  /\ fails' = fails + Cardinality(kept) + Cardinality(stays)
           /\ fails' <= MaxFails
           /\ purgeFails' = purgeFails + Cardinality(kept)
           /\ channels' = (channels \cup {c}) \ gone
           /\ channelCount' = channelCount + 1 - Cardinality(gone)
           /\ delayed' = delayed \cup gone
  /\ attached' = attached \cup {c}
  /\ chan' = [chan EXCEPT ![c] = IF r \in {"open", "unsent"} THEN "OPEN" ELSE "FRESH"]
  /\ life' = [life EXCEPT ![c] = Wall]
  /\ IF r \in {"open", "wrongType"} THEN UNCHANGED conn ELSE Close(c)
  /\ UNCHANGED <<pc, clockVars, next, sessionVars>>

(* UA_SecureChannelManager_create fails: every channel has a session, or   *)
(* there is no memory for the entry, after a purge for nothing.            *)
NoChannel(c) ==
  /\ Handles(c) /\ conn[c] = "ESTABLISHED" /\ c \notin attached
  /\ \/ channelCount >= maxSecureChannels /\ Idle = {}
        /\ UNCHANGED <<channels, channelCount, delayed, failVars>>
     \/ \E purge \in Purges : \E kept \in Kept(purge) :
          /\ fails' = fails + Cardinality(kept) + 1
          /\ fails' <= MaxFails
          /\ purgeFails' = purgeFails + Cardinality(kept)
          /\ channels' = channels \ Remove(purge, kept)
          /\ channelCount' = channelCount - Cardinality(Remove(purge, kept))
          /\ delayed' = delayed \cup Remove(purge, kept)
  /\ Close(c)
  /\ UNCHANGED <<pc, clockVars, attached, chan, life, next, sessionVars>>

(* UA_SecureChannelManager_close by c, which finds no entry when that was  *)
(* removed before.                                                         *)
CloseChannel(c) ==
  LET same == IF c \in Identified THEN {c} ELSE channels \ Identified
      found == same \cap channels
  IN  \/ /\ found = {}
         /\ UNCHANGED <<channels, channelCount, delayed, failVars>>
      \/ \E q \in found : \E kept \in SUBSET {q} :
           /\ MayFail(kept)
           /\ fails' = fails + Cardinality(kept)
           /\ channels' = channels \ Remove({q}, kept)
           /\ channelCount' = channelCount - Cardinality(Remove({q}, kept))
           /\ delayed' = delayed \cup Remove({q}, kept)
           /\ UNCHANGED purgeFails

(* A second OPN is refused: opened twice, renewed before it was open, or   *)
(* no answer could be made or sent.                                        *)
OpnFails(c) ==
  /\ Handles(c) /\ c \in attached
  /\ CloseChannel(c)
  /\ Close(c)
  /\ UNCHANGED <<pc, clockVars, attached, chan, life, next, sessionVars>>

(* An issue on a channel that an OPN of the wrong type left fresh.         *)
OpenLate(c) ==
  /\ Handles(c) /\ c \in attached /\ chan[c] = "FRESH"
  /\ chan' = [chan EXCEPT ![c] = "OPEN"]
  /\ life' = [life EXCEPT ![c] = Wall]
  /\ UNCHANGED <<pc, clockVars, conn, attached, channels, channelCount, next,
                 sessionVars, delayed, failVars>>

(* UA_SecureChannelManager_renew: a next token is issued once, stamped     *)
(* with the monotonic clock every time.                                    *)
Renew(c) ==
  /\ Handles(c) /\ c \in attached /\ chan[c] = "OPEN"
  /\ next' = [next EXCEPT ![c] = now + Lifetime]
  /\ UNCHANGED <<pc, clockVars, conn, attached, channels, channelCount, chan,
                 life, sessionVars, delayed, failVars>>

(* UA_SecureChannel_revolveTokens for the channels in X.                   *)
Revolve(X) ==
  /\ life' = [c \in Conns |-> IF c \in X THEN next[c] ELSE life[c]]
  /\ next' = [c \in Conns |-> IF c \in X THEN NONE ELSE next[c]]

(* A message is secured with the next token (checkSymHeader); one that is  *)
(* secured with neither is a BadMessage.                                   *)
NewToken(c) ==
  /\ Handles(c) /\ c \in attached /\ next[c] # NONE
  /\ Revolve({c})
  /\ UNCHANGED <<pc, clockVars, conn, attached, channels, channelCount, chan,
                 sessionVars, delayed, failVars>>

(* CLO. The connection stays until the delayed callback has closed it.     *)
CloseSecureChannel(c) ==
  /\ Handles(c) /\ c \in attached
  /\ CloseChannel(c)
  /\ UNCHANGED <<pc, clockVars, conn, attached, chan, life, next,
                 sessionVars>>

-----------------------------------------------------------------------------
(* Sessions.                                                               *)
InMemory == sessions \cup (delayed \cap Sessions)

(* UA_SecureChannel_getSession looks through the channel's sessions, valid *)
(* or not; getSessionByToken through all that have not timed out.          *)
Found(c, s) ==
  /\ Handles(c) /\ c \in attached
  /\ \/ s \in InMemory /\ sess[s].chan = c
     \/ s \in sessions /\ sess[s].validTill >= now

(* removeSession for each of X. An entry that stays is detached and        *)
(* deactivated all the same.                                               *)
Detached(s, kept) ==
  [NoSession EXCEPT !.validTill = IF s \in kept THEN sess[s].validTill ELSE 0]
RemoveSessions(X, kept) ==
  /\ MayFail(kept)
  /\ sess' = [s \in Sessions |-> IF s \in X THEN Detached(s, kept) ELSE sess[s]]
  /\ sessions' = sessions \ Remove(X, kept)
  /\ sessionCount' = sessionCount - Cardinality(Remove(X, kept))
  /\ delayed' = delayed \cup Remove(X, kept)
  /\ fails' = fails + Cardinality(kept)

(* Service_CreateSession. Only the entry's allocation is left out, which   *)
(* changes nothing when it fails.                                          *)
CreateSession(c, s) ==
  /\ Handles(c) /\ c \in attached /\ c \in Identified
  /\ s \notin InMemory /\ sessionCount < maxSessions
  /\ sess' = [sess EXCEPT ![s] =
                [chan |-> c, activated |-> FALSE, validTill |-> now + Timeout]]
  /\ sessions' = sessions \cup {s}
  /\ sessionCount' = sessionCount + 1
  /\ UNCHANGED <<pc, clockVars, conn, channelVars, delayed, failVars>>

(* No nonce for the new session: it is removed again.                      *)
CreateSessionFails(c, s) ==
  /\ Handles(c) /\ c \in attached /\ c \in Identified
  /\ s \notin InMemory /\ sessionCount < maxSessions
  /\ \E stays \in BOOLEAN :
       /\ fails' = fails + (IF stays THEN 2 ELSE 1)
       /\ fails' <= MaxFails
       /\ IF stays
          THEN /\ sessions' = sessions \cup {s}
               /\ sessionCount' = sessionCount + 1
               /\ UNCHANGED delayed
          ELSE /\ delayed' = delayed \cup {s}
               /\ UNCHANGED <<sessions, sessionCount>>
       /\ sess' = [sess EXCEPT ![s] =
                     [NoSession EXCEPT !.validTill = IF stays THEN now + Timeout ELSE 0]]
  /\ UNCHANGED <<pc, clockVars, conn, channelVars, purgeFails>>

(* Service_ActivateSession of a user that access control accepts. A        *)
(* session without a channel is given none, so that its nonce fails.       *)
Moved(c, s) == IF sess[s].chan = NONE THEN NONE ELSE c
Activated_any(c, s, ok) == [chan |-> c, activated |-> TRUE, validTill |-> now + Timeout]
Activated(c, s, ok) ==
  IF ok /\ Moved(c, s) # NONE
  THEN [chan |-> Moved(c, s), activated |-> TRUE, validTill |-> now + Timeout]
  ELSE [chan |-> NONE, activated |-> FALSE, validTill |-> now + Timeout]

ActivateSession(c, s, ok) ==
  /\ Found(c, s) /\ sess[s].validTill >= now
  /\ fails' = fails + (IF ok THEN 0 ELSE 1)
  /\ fails' <= MaxFails
  /\ sess' = [sess EXCEPT ![s] = Activated(c, s, ok)]
  /\ UNCHANGED <<pc, clockVars, conn, channelVars, sessions, sessionCount, delayed, purgeFails>>

(* processMSG for every other service: a session that is not activated is  *)
(* removed, one that is bound to another channel refused.                  *)
Inactive(c, s) ==
  /\ Found(c, s) /\ ~sess[s].activated /\ s \in sessions
  /\ \E kept \in SUBSET {s} : RemoveSessions({s}, kept)
  /\ UNCHANGED <<pc, clockVars, conn, channelVars, purgeFails>>

Usable(c, s) == Found(c, s) /\ sess[s].activated /\ sess[s].chan = c

Service(c, s) ==
  /\ Usable(c, s)
  /\ sess' = [sess EXCEPT ![s].validTill = now + Timeout]
  /\ UNCHANGED <<pc, clockVars, conn, channelVars, sessions, sessionCount, delayed, failVars>>

CloseSession(c, s) ==
  /\ Usable(c, s)
  /\ \E kept \in SUBSET {s} : RemoveSessions({s}, kept)
  /\ UNCHANGED <<pc, clockVars, conn, channelVars, purgeFails>>

-----------------------------------------------------------------------------
(* The main loop.                                                          *)

(* The callback's next time (UA_Timer_process), and the time that passes   *)
(* in select(), before anything that was received is handled.              *)
NextTime == IF cleanUp + Interval < now THEN now + 1 ELSE cleanUp + Interval
Select == \E passes \in {0, 1} : now' = (now + passes) % W

(* UA_Server_cleanup: sessions, then channels.                             *)
Expired_detached == {s \in sessions : sess[s].validTill < now /\ sess[s].chan = NONE}
Expired == {s \in sessions : sess[s].validTill < now}
TimedOut == {c \in channels : life[c] < now \/ c \notin attached}

CleanUp ==
  /\ pc = "timer" /\ cleanUp <= now
  /\ \E keptS \in SUBSET Expired, keptC \in SUBSET TimedOut :
       LET goneS == Remove(Expired, keptS)
           goneC == Remove(TimedOut, keptC)
       IN  /\ MayFail(keptS \cup keptC)
           /\ fails' = fails + Cardinality(keptS \cup keptC)
           /\ sess' = [s \in Sessions |->
                         IF s \in Expired THEN Detached(s, keptS) ELSE sess[s]]
           /\ sessions' = sessions \ goneS
           /\ sessionCount' = sessionCount - Cardinality(goneS)
           /\ channels' = channels \ goneC
           /\ channelCount' = channelCount - Cardinality(goneC)
           /\ delayed' = delayed \cup goneS \cup goneC
  /\ Revolve({c \in channels \ TimedOut : next[c] # NONE})
  /\ cleanUp' = NextTime /\ Select
  /\ pc' = "listen"
  /\ UNCHANGED <<conn, attached, chan, purgeFails>>

NotDue ==
  /\ pc = "timer" /\ cleanUp > now
  /\ pc' = "listen" /\ Select
  /\ UNCHANGED <<cleanUp, conn, channelVars, sessionVars, delayed, failVars>>

(* UA_Server_cleanupDelayedCallbacks: the end of an iteration. Freeing a   *)
(* channel closes its connection and lets go of its sessions.              *)
Released_kept(s) == IF s \in delayed THEN NoSession ELSE sess[s]
Released(s) ==
  IF s \in delayed THEN NoSession
  ELSE IF sess[s].chan \in delayed THEN [sess[s] EXCEPT !.chan = NONE] ELSE sess[s]

RunDelayed ==
  /\ pc = "listen"
  /\ conn' = [c \in Conns |-> IF c \in delayed \cap attached THEN "CLOSED" ELSE conn[c]]
  /\ attached' = attached \ delayed
  /\ chan' = [c \in Conns |-> IF c \in delayed THEN "none" ELSE chan[c]]
  /\ life' = [c \in Conns |-> IF c \in delayed THEN Wall ELSE life[c]]
  /\ next' = [c \in Conns |-> IF c \in delayed THEN NONE ELSE next[c]]
  /\ sess' = [s \in Sessions |-> Released(s)]
  /\ delayed' = {}
  /\ pc' = "timer"
  /\ UNCHANGED <<clockVars, channels, channelCount, sessions, sessionCount, failVars>>

Outcomes == {"open", "chunkError", "refused", "wrongType", "unsent"}
Network(c) == Accept(c) \/ Hello(c) \/ BadMessage(c) \/ RemoveConnection(c)
ChannelStep(c) ==
  \/ \E r \in Outcomes : NewChannel(c, r)
  \/ PurgeAborts(c) \/ NoChannel(c) \/ OpnFails(c) \/ OpenLate(c) \/ Renew(c) \/ NewToken(c)
  \/ CloseSecureChannel(c)
SessionStep(c, s) ==
  \/ CreateSession(c, s) \/ CreateSessionFails(c, s)
  \/ \E ok \in BOOLEAN : ActivateSession(c, s, ok)
  \/ Inactive(c, s) \/ Service(c, s) \/ CloseSession(c, s)

Iterate == CleanUp \/ NotDue \/ RunDelayed

Next ==
  \/ \E c \in Conns : Network(c) \/ ChannelStep(c)
  \/ \E c \in Conns, s \in Sessions : SessionStep(c, s)
  \/ Iterate

Spec == Init /\ [][Next]_vars

-----------------------------------------------------------------------------
(* Nothing points to memory that is freed, and nothing is freed twice:     *)
(* what a list holds is not on its way to be freed, what is on its way is  *)
(* in no list, and freeing a channel leaves no session and no connection   *)
(* pointing to it.                                                         *)
NoDangling ==
  /\ \A s \in Sessions : sess[s].chan # NONE =>
        s \in InMemory /\ chan[sess[s].chan] # "none"
  /\ \A c \in attached : chan[c] # "none" /\ conn[c] # "none"
  /\ {c \in Conns : chan[c] # "none"} = channels \cup (delayed \cap Conns)
  /\ channels \cap delayed = {} /\ sessions \cap delayed = {}

(* Every entry that leaves a list gives its capacity back, once, and the   *)
(* limits hold. A purge whose removal fails is taken for one that made     *)
(* room: each such failure can put the channels over their limit by one.   *)
Capacity ==
  /\ channelCount = Cardinality(channels) /\ sessionCount = Cardinality(sessions)
  /\ channelCount <= maxSecureChannels + purgeFails
  /\ sessionCount <= maxSessions

(* A channel that carries a session is taken out of the list only by its   *)
(* own client or by the clean-up: no purge and no failing OPN of another   *)
(* client closes it. The exception is a channel that was never opened: a   *)
(* session can be activated over it if its removal has failed, and another *)
(* client whose channel was never opened either closes it by their id, 0.  *)
OwnClose(c) == CloseSecureChannel(c) \/ OpnFails(c) \/ CleanUp
CloseById0(c) ==
  /\ c \notin Identified
  /\ \E d \in Conns \ Identified : CloseSecureChannel(d) \/ OpnFails(d)
SessionsKeepChannel ==
  [][\A c \in channels \ channels' :
       (\E s \in Sessions : sess[s].chan = c) => OwnClose(c) \/ CloseById0(c)]_vars

(* A session that has lost its channel is never used again. Activating it  *)
(* over another channel fails, whatever the client does, and each attempt  *)
(* prolongs its life.                                                      *)
OrphanIsLost ==
  [][\A s \in sessions \cap sessions' : sess[s].chan = NONE => sess'[s].chan = NONE]_vars

(* What has timed out goes, also when its removal could not be scheduled   *)
(* at first: no session outlives its time by more than the clean-up's      *)
(* interval, and one more for each removal that failed. A channel outlives *)
(* its token by one more again, when the clean-up has made the next token  *)
(* its own after that had ended. All of it holds while the clean-up has a  *)
(* next time: in the clock's first period it gets one that lies behind the *)
(* clock's last value, and does not run again.                             *)
Overdue(end, intervals) == end + intervals * Interval < now
StaleGo ==
  cleanUp < W => /\ \A s \in sessions : ~Overdue(sess[s].validTill, 1 + fails)
                 /\ \A c \in channels : ~Overdue(life[c], 2 + fails)
=============================================================================
