----------------------------- MODULE ClientClock -----------------------------
(***************************************************************************)
(* What the client does with time: it connects, opens and renews its       *)
(* SecureChannel and waits for answers by UA_DateTime_nowMonotonic, which  *)
(* on this platform is the tick count cut to 16 bits and taken for         *)
(* milliseconds. With 100 ticks a second that clock is ten times too slow, *)
(* and goes back to 0 every eleven minutes.                                *)
(*                                                                         *)
(* A tick of the model is a tick of the scheduler. What the client         *)
(* computes takes no time; it blocks in select() and recv(), whose         *)
(* timeouts are real milliseconds, and in the application's pauses. A      *)
(* message is an answer to the call that waits, or anything else: a part   *)
(* of an answer, or the answer to an asynchronous call. UaClient has what  *)
(* the messages do; here the outcome is external.                          *)
(***************************************************************************)
EXTENDS Integers

CONSTANTS
  W,         \* values of the clock: 2^16
  K,         \* milliseconds in a tick
  T,         \* config.timeout, in milliseconds
  Lifetimes, \* external: what the server makes revisedLifetime, in milliseconds
  Retry,     \* ticks in the 100 ms before a refused connection is retried
  Pause      \* ticks between two calls of the application

ASSUME ClockAssumption ==
  /\ W \in Nat \ {0} /\ K \in Nat \ {0} /\ T \in Nat \ {0}
  /\ Lifetimes \subseteq Nat /\ Retry \in Nat /\ Pause \in Nat

VARIABLES
  now,      \* UA_DateTime_nowMonotonic()
  pc,       \* what the client's thread is in
  maxDate,  \* when the wait is over: maxDate, or connStart + dtTimeout
  left,     \* ticks until the blocking call returns by itself
  renewal,  \* nextChannelRenewal
  lifetime, \* securityToken.revisedLifetime
  waited    \* history: ticks since the wait began, at most T

vars == <<now, pc, maxDate, left, renewal, lifetime, waited>>

-----------------------------------------------------------------------------
Connecting == {"select", "refused"}       \* ClientConnectionTCP
Receiving == {"opn", "call"}              \* receiveServiceResponse
Waiting == Connecting \cup Receiving

TypeOK ==
  /\ now \in 0 .. W - 1
  /\ pc \in {"disconnected", "idle"} \cup Waiting
  /\ maxDate \in 0 .. W - 1 + T
  /\ left \in Nat
  /\ renewal \in Nat
  /\ lifetime \in Lifetimes \cup {0}
  /\ waited \in 0 .. T

Init ==
  /\ now = 0 /\ pc = "disconnected"
  /\ maxDate = 0 /\ left = 0 /\ renewal = 0
  /\ lifetime = 0 /\ waited = 0

(* A blocking call of ms milliseconds takes whole ticks.                   *)
Ticks(ms) == (ms + K - 1) \div K
RenewAfter(ms) == (3 * ms) \div 4

-----------------------------------------------------------------------------
Wait_wraps(where) ==
  /\ pc' = where
  /\ maxDate' = (now + T) % W
  /\ left' = Ticks(T)
  /\ waited' = 0
  /\ UNCHANGED <<now, renewal, lifetime>>

Wait(where) ==
  /\ pc' = where
  /\ maxDate' = now + T
  /\ left' = Ticks(T)
  /\ waited' = 0
  /\ UNCHANGED <<now, renewal, lifetime>>

(* The head of both loops: not yet over, so wait for what remains.         *)
GoOn(where) ==
  /\ now < maxDate
  /\ pc' = where
  /\ left' = Ticks(maxDate - now)
  /\ UNCHANGED <<now, maxDate, renewal, lifetime, waited>>

Return(where, pause) ==
  /\ pc' = where
  /\ left' = pause
  /\ UNCHANGED <<now, maxDate, renewal, lifetime, waited>>

-----------------------------------------------------------------------------
(* UA_ClientConnectionTCP.                                                 *)
Connect == pc = "disconnected" /\ Wait("select")

Refused ==
  /\ pc = "select"
  /\ pc' = "refused" /\ left' = Retry
  /\ UNCHANGED <<now, maxDate, renewal, lifetime, waited>>

ConnectError == pc = "select" /\ Return("disconnected", 0)

TryAgain == pc \in Connecting /\ left = 0 /\ GoOn("select")

(* The connection is up: openSecureChannel, after HEL and ACK.             *)
Connected == pc = "select" /\ Wait("opn")

-----------------------------------------------------------------------------
(* A call of the application. The channel is renewed first if that is due. *)
MustRenew == now >= renewal

Call ==
  /\ pc = "idle" /\ left = 0 /\ ~MustRenew
  /\ Wait("call")

Renew ==
  /\ pc = "idle" /\ left = 0 /\ MustRenew
  /\ Wait("opn")

(* processDecodedOPNResponse; the call itself follows.                     *)
Opened_wraps ==
  /\ pc = "opn"
  /\ lifetime' \in Lifetimes
  /\ renewal' = (now + RenewAfter(lifetime')) % W
  /\ pc' = "idle" /\ left' = 0
  /\ UNCHANGED <<now, maxDate, waited>>

Opened ==
  /\ pc = "opn"
  /\ lifetime' \in Lifetimes
  /\ renewal' = now + RenewAfter(lifetime')
  /\ pc' = "idle" /\ left' = 0
  /\ UNCHANGED <<now, maxDate, waited>>

Answered == pc = "call" /\ Return("idle", Pause)

(* Another message, or a part of one, ends the blocking call; so does its  *)
(* timeout, which by this clock is a tenth of the way.                     *)
Again == pc \in Receiving /\ GoOn(pc)

(* maxDate has been reached: the call or the connect gives up.             *)
GivesUp ==
  /\ pc \in Waiting /\ left = 0
  /\ now >= maxDate
  /\ Return("disconnected", 0)

(* The server closes the connection, at the latest when the token has run  *)
(* out, or it is lost.                                                     *)
Lost == pc \in Receiving \cup {"idle"} /\ Return("disconnected", 0)

-----------------------------------------------------------------------------
Capped(n, max) == IF n < max THEN n + 1 ELSE max

(* The thread runs before the next tick when it has something to do.       *)
Tick ==
  /\ left > 0
  /\ now' = IF now = W - 1 THEN 0 ELSE now + 1
  /\ left' = left - 1
  /\ waited' = Capped(waited, T)
  /\ UNCHANGED <<pc, maxDate, renewal, lifetime>>

Library == Renew \/ TryAgain \/ Again \/ GivesUp
World == Refused \/ ConnectError \/ Connected \/ Opened \/ Answered \/ Lost

Next == Connect \/ Call \/ Library \/ World \/ Tick

(* Time passes, and the client's thread runs.                              *)
Fairness == WF_vars(Tick) /\ WF_vars(left = 0 /\ Library)
Spec == Init /\ [][Next]_vars /\ Fairness

-----------------------------------------------------------------------------
(* Nothing is given up before its timeout, wherever in the clock's period  *)
(* it began: going back to 0 can prolong a wait and never cut it short.    *)
NeverEarly == [][GivesUp => waited = T]_vars

(* A lifetime of 87.4 s or more (the default is ten minutes) puts the      *)
(* renewal where the clock never gets: the channel is never renewed.       *)
NeverRenews == [][RenewAfter(lifetime) >= W => ~Renew]_vars

(* "Sync response timeout in ms" (open62541.h:24019): every wait ends.     *)
WaitEnds == pc \in Receiving ~> pc \notin Receiving
=============================================================================
