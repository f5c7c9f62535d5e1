----------------------------- MODULE MessageFifo -----------------------------
(***************************************************************************)
(* What a SecureChannel promises of a connection: the messages delivered   *)
(* are those that were sent in full, in order, each whole and once. A new  *)
(* connection starts afresh; what was not delivered by then never is.      *)
(* The promise is void once bytes were lost where the sequence numbers     *)
(* cannot tell, that is while they roll over.                              *)
(***************************************************************************)
EXTENDS Naturals, Sequences

VARIABLES
  sent,       \* the messages sent in full on this connection
  delivered,  \* those delivered
  blind       \* bytes were lost while the sequence numbers rolled over

vars == <<sent, delivered, blind>>

Init == sent = <<>> /\ delivered = <<>> /\ blind = FALSE

Send ==
  /\ Len(sent') = Len(sent) + 1
  /\ SubSeq(sent', 1, Len(sent)) = sent
  /\ UNCHANGED <<delivered, blind>>

Deliver ==
  /\ Len(delivered) < Len(sent)
  /\ delivered' = Append(delivered, sent[Len(delivered) + 1])
  /\ UNCHANGED <<sent, blind>>

Lose == blind' = TRUE /\ UNCHANGED <<sent, delivered>>

DeliverBlind == blind /\ UNCHANGED <<sent, blind>>

NewConnection == sent' = <<>> /\ delivered' = <<>> /\ blind' = FALSE

Next == Send \/ Deliver \/ Lose \/ DeliverBlind \/ NewConnection

Spec == Init /\ [][Next]_vars
=============================================================================
