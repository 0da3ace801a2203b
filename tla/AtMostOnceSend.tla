--------------------------- MODULE AtMostOnceSend ---------------------------
(***************************************************************************)
(* What a mail provider adapter promises for ONE message key, whatever the *)
(* protocol behind it: the recipient gets at most one message, and a       *)
(* caller is told that a message was accepted only when it really was      *)
(* delivered.  The Microsoft 365 adapter (MailReceipt) is shown to         *)
(* implement it.                                                           *)
(***************************************************************************)
CONSTANT Draft          \* identities a delivered message can have

VARIABLES delivered,    \* the messages the recipient has received
          acknowledged  \* the message ids reported to callers as accepted

avars == <<delivered, acknowledged>>

AInit == /\ delivered = {}
         /\ acknowledged = {}

(* The one delivery. *)
Deliver(d) == /\ delivered = {}
              /\ delivered' = {d}
              /\ UNCHANGED acknowledged

(* Reporting a delivery; it may be reported to any number of retries. *)
Acknowledge(d) == /\ d \in delivered
                  /\ acknowledged' = acknowledged \cup {d}
                  /\ UNCHANGED delivered

ANext == \E d \in Draft : Deliver(d) \/ Acknowledge(d)

ASpec == AInit /\ [][ANext]_avars
=============================================================================
