-------------------------------- MODULE Links --------------------------------
(***************************************************************************)
(* The signed links in a message and what comes back of them: the link to  *)
(* unsubscribe (lib/unsubscribe.ts), the token a booking brings back       *)
(* (lib/calendly.ts), and the signed, dated deliveries that bring it       *)
(* (app/api/webhooks).  A signature is the record of what was signed and   *)
(* the key it was signed with; an operator replaces keys while messages    *)
(* lie in their mailboxes.  Several tenants may share one organization of  *)
(* Calendly, which then delivers every booking to each of them.            *)
(***************************************************************************)
EXTENDS Naturals, FiniteSets

CONSTANTS Tenant, Campaign, Contact,
          MaxKey,   \* bound: keys of each kind that are ever used
          MaxMail,  \* bound: messages
          None

VARIABLES
    sessionKey,   \* the SESSION_SECRET in force
    dataKey,      \* the DATA_ENCRYPTION_KEY
    signingKey,   \* the signing key of each tenant's webhook
    mails,        \* messages sent: the links in them
    posted,       \* deliveries on their way to a tenant
    suppressed,   \* pairs of a tenant and a contact
    credited,     \* bookings attributed: [tenant, campaign, contact, mail]
    refused       \* history: messages whose link to unsubscribe was refused

vars == <<sessionKey, dataKey, signingKey, mails, posted, suppressed, credited, refused>>

KeyOf == 1..MaxKey

TypeOK ==
    /\ sessionKey \in KeyOf /\ dataKey \in KeyOf /\ signingKey \in [Tenant -> KeyOf]
    /\ \A m \in mails : m.tenant \in Tenant /\ m.campaign \in Campaign /\ m.contact \in Contact
    /\ \A d \in posted : d.tenant \in Tenant /\ d.mail \in mails /\ d.late \in BOOLEAN
    /\ suppressed \subseteq Tenant \X Contact
    /\ refused \subseteq mails

Init ==
    /\ sessionKey = 1 /\ dataKey = 1 /\ signingKey = [t \in Tenant |-> 1]
    /\ mails = {} /\ posted = {} /\ suppressed = {} /\ credited = {} /\ refused = {}
-----------------------------------------------------------------------------
(* unsubscribeToken and parseUnsubscribe, which trusts what is signed. *)
UnsubscribeToken(t, p) == [tenant |-> t, contact |-> p, by |-> sessionKey]

ParseUnsubscribe(token) == IF token.by = sessionKey THEN token ELSE None

(* attributionToken and parseAttributionToken: the tenant is signed and not written. *)
Mac(t, c, p) == <<dataKey, t, c, p>>

AttributionToken(t, c, p) == [campaign |-> c, contact |-> p, mac |-> Mac(t, c, p)]

ParseAttribution(t, token) ==
    IF token # None /\ token.mac = Mac(t, token.campaign, token.contact)
    THEN [campaign |-> token.campaign, contact |-> token.contact] ELSE None

(* verifyCalendlySignature and verifyWebhook: the tenant's key, and minutes old. *)
Genuine(d) == d.by = signingKey[d.tenant] /\ ~ d.late
-----------------------------------------------------------------------------
(* A message with its two links. *)
Send(t, c, p) ==
    /\ Cardinality(mails) < MaxMail /\ <<t, p>> \notin suppressed
    /\ mails' = mails \union {[tenant |-> t, campaign |-> c, contact |-> p,
                               leave |-> UnsubscribeToken(t, p),
                               book |-> AttributionToken(t, c, p)]}
    /\ UNCHANGED <<sessionKey, dataKey, signingKey, posted, suppressed, credited, refused>>

(* POST /unsubscribe *)
Unsubscribe(m) ==
    /\ LET token == ParseUnsubscribe(m.leave) IN
       IF token = None
         THEN refused' = refused \union {m} /\ UNCHANGED suppressed
         ELSE /\ suppressed' = suppressed \union {<<token.tenant, token.contact>>}
              /\ UNCHANGED refused
    /\ UNCHANGED <<sessionKey, dataKey, signingKey, mails, posted, credited>>

(* The buyer books by the link of a message, whose token may get lost on the way, and
   Calendly tells a tenant of its organization: at once, late, or again.  One delivery at
   a time is enough, they do not meet. *)
Post(t, m, kept, late) ==
    /\ posted = {}
    /\ posted' = {[tenant |-> t, mail |-> m, by |-> signingKey[t], late |-> late,
                                 token |-> IF kept THEN m.book ELSE None]}
    /\ UNCHANGED <<sessionKey, dataKey, signingKey, mails, suppressed, credited, refused>>

(* POST /api/webhooks/calendly and normalizeCalendlyEvent: a booking without a token of
   this tenant is ignored. *)
Deliver(d) ==
    /\ posted' = posted \ {d}
    /\ LET who == ParseAttribution(d.tenant, d.token) IN
       credited' = IF ~ Genuine(d) \/ who = None THEN credited
                   ELSE credited \union {[tenant |-> d.tenant, campaign |-> who.campaign,
                                          contact |-> who.contact, mail |-> d.mail]}
    /\ UNCHANGED <<sessionKey, dataKey, signingKey, mails, suppressed, refused>>

Rotate ==
    /\ \/ sessionKey < MaxKey /\ sessionKey' = sessionKey + 1 /\ UNCHANGED <<dataKey, signingKey>>
       \/ dataKey < MaxKey /\ dataKey' = dataKey + 1 /\ UNCHANGED <<sessionKey, signingKey>>
       \/ \E t \in Tenant : /\ signingKey[t] < MaxKey
                            /\ signingKey' = [signingKey EXCEPT ![t] = @ + 1]
                            /\ UNCHANGED <<sessionKey, dataKey>>
    /\ UNCHANGED <<mails, posted, suppressed, credited, refused>>

Next ==
    \/ \E t \in Tenant, c \in Campaign, p \in Contact : Send(t, c, p)
    \/ \E m \in mails : Unsubscribe(m) \/ \E t \in Tenant, kept, late \in BOOLEAN : Post(t, m, kept, late)
    \/ \E d \in posted : Deliver(d)
    \/ Rotate

Spec == Init /\ [][Next]_vars
-----------------------------------------------------------------------------
(* A booking is credited to the tenant, the campaign and the contact of the message it was
   made from, whoever else was told of it, whatever keys were replaced since
   (calendly.ts:94). *)
CreditedToItsMail ==
    \A b \in credited : /\ b.tenant = b.mail.tenant /\ b.campaign = b.mail.campaign
                        /\ b.contact = b.mail.contact

(* A link leaves exactly the list it was sent for, and is refused only once the key that
   signed it is gone (SECURITY.md:9, unsubscribe.ts:16). *)
LeavesItsList ==
    /\ \A s \in suppressed : \E m \in mails : m.tenant = s[1] /\ m.contact = s[2]
    /\ \A m \in refused : m.leave.by # sessionKey

(* Refuted: an unsubscribe link of a message works as long as the message lies in its
   mailbox; nothing verifies by the key before (SECURITY.md:9). *)
LinkLasts == refused = {}
=============================================================================
