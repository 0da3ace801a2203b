-------------------------------- MODULE Gates --------------------------------
(***************************************************************************)
(* What has to be in order before a campaign is activated                  *)
(* (lib/campaigns.ts), before a discovery run of it is taken up            *)
(* (lib/worker.ts) and before a message of it is sent (lib/policy.ts):     *)
(* three lists, kept in three places.  wrong is what is out of order, and  *)
(* mailbox what the Microsoft connection and its cursor say of the sender. *)
(* As in Rules a behaviour asks one question.                              *)
(***************************************************************************)
EXTENDS Naturals, Sequences, FiniteSetsExt

CONSTANTS MaxWrong,   \* how many things are out of order at once
          None

VARIABLE question

Init == question = None

(* "sender" is a sender found unhealthy and "check" one whose check is a day old;
   "stale" is the contact's verification, "hours" the window of the campaign. *)
Flaw == {"icp", "sequence", "automation", "gatewayKey", "webhookSecret", "postal", "outbound",
         "sender", "check", "suspended", "pausedMode", "inactive", "unapproved", "stale",
         "hours"}

Mailbox == [enabled : BOOLEAN, listed : BOOLEAN, error : BOOLEAN,
            success : {"never", "recent", "old"}]
-----------------------------------------------------------------------------
(* worker.ts, mailboxBlocked *)
MailboxBlocked(m) ==
    m # None /\ (~ m.enabled \/ ~ m.listed \/ m.error \/ m.success # "recent")

SenderHealthy(wrong) == wrong \cap {"sender", "check"} = {}

(* Mutant: the mailbox is not looked at. *)
Missing_Unwatched(wrong, m) ==
    wrong \cap {"icp", "sequence", "automation", "gatewayKey", "webhookSecret", "postal",
                "outbound"}

(* campaignReady, what it finds missing *)
Missing(wrong, m) ==
    (wrong \cap {"icp", "sequence", "automation", "gatewayKey", "webhookSecret", "postal",
                 "outbound"})
    \cup (IF m # None /\ ~ (m.enabled /\ m.listed /\ ~ m.error /\ m.success = "recent")
          THEN {"mailbox"} ELSE {})

CampaignReady(wrong, m, allowUnhealthySender) ==
    Missing(wrong, m) = {} /\ (SenderHealthy(wrong) \/ allowUnhealthySender)

(* Creating a campaign that starts at once, and PATCH of its status. *)
Activation(wrong, m) ==
    IF ~ CampaignReady(wrong, m, TRUE) THEN "refused"
    ELSE IF SenderHealthy(wrong) THEN "started" ELSE "started_sender_health_not_ready"

(* Only an activation of an inactive campaign wakes the scheduler. *)
Wakes(wrong, m) == Activation(wrong, m) # "refused" /\ "inactive" \in wrong

(* POST /api/automation-runs *)
RunAccepted(wrong, m) ==
    CampaignReady(wrong, m, FALSE) /\ wrong \cap {"inactive", "pausedMode"} = {}

(* executeRun's gate: the run is canceled when it does not hold. *)
RunTaken(wrong) ==
    wrong \cap {"outbound", "inactive", "pausedMode", "automation", "suspended", "gatewayKey",
                "icp"} = {}

(* outreachWaitReason: the first check that fails, in their order. *)
Checks == <<"stale", "unapproved", "hours", "mailbox", "inactive", "pausedMode", "automation",
            "suspended", "gatewayKey", "postal", "sender">>

Fails(check, wrong, m) ==
    CASE check = "mailbox" -> MailboxBlocked(m)
      [] check = "sender"  -> ~ SenderHealthy(wrong)
      [] OTHER             -> check \in wrong

WaitReason(wrong, m) ==
    LET failing == {k \in DOMAIN Checks : Fails(Checks[k], wrong, m)}
    IN  IF failing = {} THEN None ELSE Checks[Min(failing)]

(* recheckOutreachBeforeSend adds the operator's switch. *)
Sendable(wrong, m) == "outbound" \notin wrong /\ WaitReason(wrong, m) = None
-----------------------------------------------------------------------------
AskCampaign ==
    /\ question = None
    /\ \E n \in 0..MaxWrong : \E wrong \in kSubset(n, Flaw), m \in Mailbox \cup {None} :
         question' = [wrong |-> wrong, mailbox |-> m, activation |-> Activation(wrong, m),
                      wakes |-> Wakes(wrong, m), accepted |-> RunAccepted(wrong, m),
                      reason |-> WaitReason(wrong, m), sendable |-> Sendable(wrong, m)]

Next == AskCampaign

Spec == Init /\ [][Next]_question

Asked == question # None
-----------------------------------------------------------------------------
(* Whoever was told that a campaign was started can have its messages sent: nothing holds
   them that the activation could have seen, but what it warned of, what belongs to the
   message itself, a suspended tenant and a paused mode (campaigns.ts:9). *)
StartedCanSend ==
    Asked /\ question.activation # "refused"
        /\ question.wrong \cap {"unapproved", "stale", "hours", "suspended", "pausedMode"} = {}
        => /\ question.sendable = ("inactive" \notin question.wrong
                                   /\ question.activation = "started")
           /\ question.reason \in {None, "inactive", "sender"}

(* A discovery run that is accepted is not canceled when it is taken up, a suspended tenant
   apart, and its prospects can be written to (automation-runs/route.ts:16). *)
AcceptedRunRuns ==
    Asked /\ question.accepted /\ "suspended" \notin question.wrong =>
        /\ RunTaken(question.wrong)
        /\ question.wrong \cap {"unapproved", "stale", "hours"} = {} => question.sendable
=============================================================================
