-------------------------- MODULE Workspace_proofs --------------------------
(***************************************************************************)
(* Proofs about what a workspace keeps: its data and links, its campaign,  *)
(* its people and their accounts, for every number of each.                *)
(***************************************************************************)
EXTENDS Services, Limits_proofs, Messages_proofs, Retries_proofs, FiniteSetTheorems, TLAPS

(* A message m whose link to unsubscribe was signed with the key j. *)
Signed(m, t, c, p, j) ==
    \E k : m = [tenant |-> t, campaign |-> c, contact |-> p,
                leave |-> [tenant |-> t, contact |-> p, by |-> j],
                book  |-> [campaign |-> c, contact |-> p, mac |-> <<k, t, c, p>>]]

LinksTyped ==
    /\ sessionKey \in Nat
    /\ \A m \in mails : \E t \in Tenant, c \in MailCampaign, p \in Recipient, j \in Nat :
          Signed(m, t, c, p, j) /\ j <= sessionKey
    /\ \A d \in posted : d.mail \in mails /\ (d.token = None \/ d.token = d.mail.book)

(* Who is off a list was written to from it, and a link once refused was signed with a
   key that never returns. *)
LinksInv ==
    /\ LinksTyped
    /\ H!CreditedToItsMail
    /\ \A s \in suppressed : \E m \in mails : m.tenant = s[1] /\ m.contact = s[2]
    /\ \A m \in refused : m.leave.by \in Nat /\ m.leave.by < sessionKey

LEMMA LinksStep == LinksInv /\ [H!Next]_H!vars => LinksInv'
<1> SUFFICES ASSUME LinksInv, [H!Next]_H!vars PROVE LinksInv'
  OBVIOUS
<1> USE DEF LinksInv, LinksTyped, H!CreditedToItsMail
<1>1. ASSUME NEW t \in Tenant, NEW c \in MailCampaign, NEW p \in Recipient, H!Send(t, c, p)
      PROVE  LinksInv'
  <2>1. PICK m : /\ mails' = mails \union {m}
                 /\ Signed(m, t, c, p, sessionKey)
    BY <1>1 DEF H!Send, H!UnsubscribeToken, H!AttributionToken, H!Mac, Signed
  <2>2. UNCHANGED <<sessionKey, dataKey, signingKey, posted, suppressed, credited, refused>>
    BY <1>1 DEF H!Send
  <2>3. QED
    BY <2>1, <2>2
<1>2. ASSUME NEW m \in mails, H!Unsubscribe(m) PROVE LinksInv'
  <2>1. PICK t \in Tenant, c \in MailCampaign, p \in Recipient, j \in Nat :
           Signed(m, t, c, p, j) /\ j <= sessionKey
    OBVIOUS
  <2>2. /\ m.leave \in [tenant : Tenant, contact : Recipient, by : Nat] /\ m.leave.by = j
        /\ m.leave.tenant = m.tenant /\ m.leave.contact = m.contact
    BY <2>1 DEF Signed
  <2>3. m.leave # None
    BY <2>2, LinksAssumption
  <2>4. UNCHANGED <<sessionKey, dataKey, signingKey, mails, posted, credited>>
    BY <1>2 DEF H!Unsubscribe
  <2>5. CASE j = sessionKey
    <3>1. refused' = refused /\ suppressed' = suppressed \union {<<m.tenant, m.contact>>}
      BY <1>2, <2>2, <2>3, <2>5 DEF H!Unsubscribe, H!ParseUnsubscribe
    <3>2. QED
      BY <2>4, <3>1
  <2>6. CASE j # sessionKey
    <3>1. suppressed' = suppressed /\ refused' = refused \union {m}
      BY <1>2, <2>2, <2>6 DEF H!Unsubscribe, H!ParseUnsubscribe
    <3>2. QED
      BY <2>1, <2>2, <2>4, <2>6, <3>1
  <2>7. QED
    BY <2>5, <2>6
<1>3. ASSUME NEW m \in mails, NEW t \in Tenant, NEW kept \in BOOLEAN, NEW l \in BOOLEAN,
             H!Post(t, m, kept, l)
      PROVE  LinksInv'
  BY <1>3 DEF H!Post
<1>4. ASSUME NEW d \in posted, H!Deliver(d) PROVE LinksInv'
  <2>1. PICK t \in Tenant, c \in MailCampaign, p \in Recipient, j \in Nat :
           Signed(d.mail, t, c, p, j)
    OBVIOUS
  <2>2. \/ credited' = credited
        \/ /\ d.token # None /\ d.token.mac = H!Mac(d.tenant, d.token.campaign, d.token.contact)
           /\ credited' = credited \union
                 {[tenant |-> d.tenant, campaign |-> d.token.campaign,
                   contact |-> d.token.contact, mail |-> d.mail]}
    BY <1>4 DEF H!Deliver, H!ParseAttribution
  <2>3. /\ posted' = posted \ {d}
        /\ UNCHANGED <<sessionKey, dataKey, signingKey, mails, suppressed, refused>>
    BY <1>4 DEF H!Deliver
  <2>4. CASE d.token # None /\ d.token.mac = H!Mac(d.tenant, d.token.campaign, d.token.contact)
    <3>1. PICK k : d.mail = [tenant |-> t, campaign |-> c, contact |-> p,
                             leave |-> [tenant |-> t, contact |-> p, by |-> j],
                             book  |-> [campaign |-> c, contact |-> p, mac |-> <<k, t, c, p>>]]
      BY <2>1 DEF Signed
    <3>2. d.token = [campaign |-> c, contact |-> p, mac |-> <<k, t, c, p>>]
      BY <2>4, <3>1
    <3>3. d.tenant = d.mail.tenant /\ d.token.campaign = d.mail.campaign
          /\ d.token.contact = d.mail.contact
      BY <2>4, <3>1, <3>2 DEF H!Mac
    <3>4. QED
      BY <2>2, <2>3, <3>3
  <2>5. QED
    BY <2>2, <2>3, <2>4
<1>5. CASE H!Rotate
  BY <1>5 DEF H!Rotate
<1>6. CASE UNCHANGED H!vars
  BY <1>6 DEF H!vars
<1>7. QED
  BY <1>1, <1>2, <1>3, <1>4, <1>5, <1>6 DEF H!Next

LEMMA LinksHold == H!Spec => [](H!CreditedToItsMail /\ H!LeavesItsList)
<1>1. H!Init => LinksInv
  BY DEF H!Init, LinksInv, LinksTyped, H!CreditedToItsMail
<1>2. LinksInv => H!CreditedToItsMail /\ H!LeavesItsList
  BY DEF LinksInv, LinksTyped, H!LeavesItsList
<1>3. QED
  BY <1>1, <1>2, LinksStep, PTL DEF H!Spec
-----------------------------------------------------------------------------
(* What is left of an erased person, and a row that may be tried again. *)
Gone(h)    == ~h.contact /\ h.suppressed = "erasure"
HasText(h) == h.row \in {"retry", "sending"} => h.text

LEMMA AfterForgetting ==
    ASSUME NEW h \in P!Held
    PROVE  P!Forgotten(h) \in P!Held /\ Gone(P!Forgotten(h)) /\ HasText(P!Forgotten(h))
<1>1. PICK con \in BOOLEAN, lead \in BOOLEAN, rep \in {"none", "text", "redacted"},
           rw \in {"none", "done"} \union P!Waiting, txt \in BOOLEAN,
           sup \in {"no", "other", "erasure"} :
              h = [contact |-> con, lead |-> lead, reply |-> rep, row |-> rw, text |-> txt,
                   suppressed |-> sup]
  BY ZenonT(40) DEF P!Held
<1>2. PICK g : g = [h EXCEPT !.suppressed = P!Reason(@)]
  OBVIOUS
<1>3. g = [contact |-> con, lead |-> lead, reply |-> rep, row |-> rw, text |-> txt,
           suppressed |-> "erasure"]
  BY <1>1, <1>2 DEF P!Reason
<1>4. PICK s : s = P!Suppressed(g, "erasure")
  OBVIOUS
<1>5. PICK last : s = [contact |-> con, lead |-> lead, reply |-> rep, row |-> last, text |-> txt,
                       suppressed |-> "erasure"]
  BY <1>3, <1>4 DEF P!Suppressed
<1>6. PICK f : f = [s EXCEPT !.contact = FALSE, !.lead = FALSE, !.reply = "none",
                             !.row = "none", !.text = FALSE]
  OBVIOUS
<1>7. f = [contact |-> FALSE, lead |-> FALSE, reply |-> "none", row |-> "none",
           text |-> FALSE, suppressed |-> "erasure"]
  BY <1>5, <1>6
<1>8. P!Forgotten(h) = f
  BY <1>2, <1>4, <1>6, Zenon DEF P!Forgotten
<1>9. QED
  BY <1>7, <1>8 DEF P!Held, P!Waiting, Gone, HasText

(* The history of erasures agrees with the ledger, the ledger with what the database or,
   during a restore, the rest of the ledger will forget. *)
PrivacyInv ==
    /\ live \in [Subject -> P!Held]
    /\ dump = None \/ (dump \in [Subject -> P!Held] /\ \A p \in Subject : HasText(dump[p]))
    /\ whole => dump # None
    /\ \A p \in Subject : HasText(live[p])
    /\ erased \subseteq Subject /\ ledger \subseteq Subject /\ listed \subseteq ledger
    /\ mode \in {"live", "restored"}
    /\ mode = "live" => \A p \in erased : Gone(live[p])
    /\ mode = "restored" => erased = listed /\ \A p \in ledger \ restoring : Gone(live[p])

(* A row of one person changes to one that keeps what an erasure and a retry rest on. *)
LEMMA RowChanges ==
    ASSUME PrivacyInv, NEW p \in Subject, NEW h \in P!Held, P!Change(p, h), HasText(h),
           Gone(live[p]) => Gone(h)
    PROVE  PrivacyInv'
<1>1. /\ mode = "live" /\ live' = [live EXCEPT ![p] = h]
      /\ UNCHANGED <<dump, ledger, whole, restoring, mode, erased, listed, backups>>
  BY DEF P!Change, P!kept
<1>2. \A q \in Subject : live'[q] = IF q = p THEN h ELSE live[q]
  BY <1>1 DEF PrivacyInv
<1>3. live' \in [Subject -> P!Held] /\ \A q \in Subject : HasText(live'[q])
  BY <1>1, <1>2 DEF PrivacyInv
<1>4. \A q \in erased : Gone(live'[q])
  BY <1>1, <1>2 DEF PrivacyInv
<1>5. QED
  BY <1>1, <1>3, <1>4 DEF PrivacyInv

LEMMA PersonSteps ==
    ASSUME PrivacyInv, NEW p \in Subject
    PROVE  /\ P!Discover(p) \/ P!Import(p) \/ P!Prepare(p) \/ P!Reply(p) \/ P!Unsubscribe(p)
                 => PrivacyInv'
           /\ \A outcome \in {"done", "retry"} : P!Deliver(p, outcome) => PrivacyInv'
<1>1. PICK h \in P!Held : h = live[p] /\ HasText(h)
  BY DEF PrivacyInv
<1>2. PICK con \in BOOLEAN, lead \in BOOLEAN, rep \in {"none", "text", "redacted"},
           rw \in {"none", "done"} \union P!Waiting, txt \in BOOLEAN,
           sup \in {"no", "other", "erasure"} :
              h = [contact |-> con, lead |-> lead, reply |-> rep, row |-> rw, text |-> txt,
                   suppressed |-> sup]
  BY <1>1, ZenonT(40) DEF P!Held
<1>3. ASSUME P!Discover(p) PROVE PrivacyInv'
  <2>1. PICK g : g = [h EXCEPT !.contact = TRUE, !.lead = TRUE, !.row = "queued"]
    OBVIOUS
  <2>2. g = [contact |-> TRUE, lead |-> TRUE, reply |-> rep, row |-> "queued", text |-> txt,
             suppressed |-> sup]
    BY <1>2, <2>1
  <2>3. g \in P!Held /\ HasText(g)
    BY <2>2 DEF P!Held, P!Waiting, HasText
  <2>4. P!Change(p, g) /\ ~Gone(h)
    BY <1>1, <1>3, <2>1 DEF P!Discover, Gone
  <2>5. QED
    BY <1>1, <2>3, <2>4, RowChanges
<1>4. ASSUME P!Import(p) PROVE PrivacyInv'
  <2>1. PICK g : g = [h EXCEPT !.lead = TRUE]
    OBVIOUS
  <2>2. g = [contact |-> con, lead |-> TRUE, reply |-> rep, row |-> rw, text |-> txt,
             suppressed |-> sup]
    BY <1>2, <2>1
  <2>3. g \in P!Held /\ HasText(g) /\ (Gone(h) => Gone(g))
    BY <1>1, <1>2, <2>2 DEF P!Held, HasText, Gone
  <2>4. P!Change(p, g)
    BY <1>1, <1>4, <2>1 DEF P!Import
  <2>5. QED
    BY <1>1, <2>3, <2>4, RowChanges
<1>5. ASSUME P!Prepare(p) PROVE PrivacyInv'
  <2>1. PICK g : g = [h EXCEPT !.row = "sending", !.text = TRUE]
    OBVIOUS
  <2>2. g = [contact |-> con, lead |-> lead, reply |-> rep, row |-> "sending", text |-> TRUE,
             suppressed |-> sup]
    BY <1>2, <2>1
  <2>3. g \in P!Held /\ HasText(g)
    BY <2>2 DEF P!Held, P!Waiting, HasText
  <2>4. P!Change(p, g) /\ ~Gone(h)
    BY <1>1, <1>5, <2>1 DEF P!Prepare, Gone
  <2>5. QED
    BY <1>1, <2>3, <2>4, RowChanges
<1>6. ASSUME P!Reply(p) PROVE PrivacyInv'
  <2>1. PICK g : g = [h EXCEPT !.reply = "text",
                               !.row = IF @ \in P!Waiting THEN "done" ELSE @]
    OBVIOUS
  <2>2. g = [contact |-> con, lead |-> lead, reply |-> "text",
             row |-> IF rw \in P!Waiting THEN "done" ELSE rw, text |-> txt,
             suppressed |-> sup]
    BY <1>2, <2>1
  <2>3. g \in P!Held /\ HasText(g)
    BY <1>2, <2>2 DEF P!Held, P!Waiting, HasText
  <2>4. P!Change(p, g) /\ ~Gone(h)
    BY <1>1, <1>6, <2>1 DEF P!Reply, Gone
  <2>5. QED
    BY <1>1, <2>3, <2>4, RowChanges
<1>7. ASSUME P!Unsubscribe(p) PROVE PrivacyInv'
  <2>1. PICK g : g = P!Suppressed(h, "other")
    OBVIOUS
  <2>2. g = [contact |-> con, lead |-> lead, reply |-> rep,
             row |-> IF rw \in P!Waiting /\ con THEN "done" ELSE rw, text |-> txt,
             suppressed |-> IF sup = "no" THEN "other" ELSE sup]
    BY <1>2, <2>1 DEF P!Suppressed
  <2>3. g \in P!Held /\ HasText(g)
    BY <1>1, <1>2, <2>2 DEF P!Held, P!Waiting, HasText
  <2>4. P!Change(p, g) /\ ~Gone(h)
    BY <1>1, <1>7, <2>1 DEF P!Unsubscribe, Gone
  <2>5. QED
    BY <1>1, <2>3, <2>4, RowChanges
<1>8. ASSUME NEW outcome \in {"done", "retry"}, P!Deliver(p, outcome) PROVE PrivacyInv'
  <2>1. PICK g : g = [h EXCEPT !.row = outcome]
    OBVIOUS
  <2>2. g = [contact |-> con, lead |-> lead, reply |-> rep, row |-> outcome, text |-> txt,
             suppressed |-> sup]
    BY <1>2, <2>1
  <2>3. h.row = "sending" /\ P!Change(p, g)
    BY <1>1, <1>8, <2>1 DEF P!Deliver
  <2>4. g \in P!Held /\ HasText(g) /\ (Gone(h) => Gone(g))
    BY <1>1, <1>2, <2>2, <2>3 DEF P!Held, P!Waiting, HasText, Gone
  <2>5. QED
    BY <1>1, <2>3, <2>4, RowChanges
<1>9. QED
  BY <1>3, <1>4, <1>5, <1>6, <1>7, <1>8

LEMMA RetentionKeeps ==
    ASSUME PrivacyInv, NEW over \in SUBSET Subject, NEW replied \in SUBSET Subject,
           P!Retention(over, replied)
    PROVE  PrivacyInv'
<1>1. /\ mode = "live"
      /\ UNCHANGED <<dump, ledger, whole, restoring, mode, erased, listed, backups>>
  BY DEF P!Retention, P!kept
<1>2. ASSUME NEW p \in Subject
      PROVE  live'[p] \in P!Held /\ HasText(live'[p]) /\ (Gone(live[p]) => Gone(live'[p]))
  <2>1. PICK h \in P!Held : h = live[p] /\ HasText(h)
    BY DEF PrivacyInv
  <2>2. PICK con \in BOOLEAN, lead \in BOOLEAN, rep \in {"none", "text", "redacted"},
             rw \in {"none", "done"} \union P!Waiting, txt \in BOOLEAN,
             sup \in {"no", "other", "erasure"} :
                h = [contact |-> con, lead |-> lead, reply |-> rep, row |-> rw, text |-> txt,
                     suppressed |-> sup]
    BY <2>1, ZenonT(40) DEF P!Held
  <2>3. live'[p] = [h EXCEPT !.text  = @ /\ ~ (p \in over /\ P!Redactable(h)),
                             !.reply = IF p \in replied /\ @ = "text" THEN "redacted" ELSE @]
    BY <2>1 DEF P!Retention
  <2>4. PICK left \in BOOLEAN : left = (h.text /\ ~ (p \in over /\ P!Redactable(h)))
    BY Zenon
  <2>5. live'[p] = [contact |-> con, lead |-> lead,
                    reply |-> IF p \in replied /\ rep = "text" THEN "redacted" ELSE rep,
                    row |-> rw, text |-> left, suppressed |-> sup]
    BY <2>2, <2>3, <2>4
  <2>6. rw \in {"retry", "sending"} => left
    BY <2>1, <2>2, <2>4 DEF HasText, P!Redactable, P!Waiting
  <2>7. QED
    BY <2>1, <2>2, <2>5, <2>6 DEF P!Held, HasText, Gone
<1>3. live' \in [Subject -> P!Held]
  <2>1. DOMAIN live' = Subject /\ live' = [p \in Subject |-> live'[p]]
    BY DEF P!Retention
  <2>2. QED
    BY <1>2, <2>1
<1>4. QED
  BY <1>1, <1>2, <1>3 DEF PrivacyInv

LEMMA ErasureKeeps ==
    ASSUME PrivacyInv, NEW p \in Subject, P!Erase(p) \/ P!Reapply(p) PROVE PrivacyInv'
<1>1. PICK f \in P!Held : f = P!Forgotten(live[p]) /\ Gone(f) /\ HasText(f)
  BY AfterForgetting DEF PrivacyInv
<1>2. live' = [live EXCEPT ![p] = f]
  BY <1>1 DEF P!Erase, P!Reapply
<1>3. /\ live' \in [Subject -> P!Held]
      /\ \A q \in Subject : live'[q] = IF q = p THEN f ELSE live[q]
  BY <1>2 DEF PrivacyInv
<1>4. CASE P!Erase(p)
  BY <1>1, <1>3, <1>4 DEF PrivacyInv, P!Erase
<1>5. CASE P!Reapply(p)
  BY <1>1, <1>3, <1>5 DEF PrivacyInv, P!Reapply
<1>6. QED
  BY <1>4, <1>5

LEMMA PrivacyStep == PrivacyInv /\ [P!Next]_P!vars => PrivacyInv'
<1> SUFFICES ASSUME PrivacyInv, [P!Next]_P!vars PROVE PrivacyInv'
  OBVIOUS
<1>1. CASE P!Dump
  BY <1>1 DEF PrivacyInv, P!Dump
<1>2. CASE P!ExportLedger
  <2>1. \A p \in erased : live[p].suppressed = "erasure" /\ p \in Subject
    BY <1>2 DEF PrivacyInv, P!ExportLedger, Gone
  <2>2. QED
    BY <1>2, <2>1 DEF PrivacyInv, P!ExportLedger
<1>3. CASE P!Restore
  BY <1>3 DEF PrivacyInv, P!Restore
<1>4. CASE P!Rerun
  BY <1>4 DEF PrivacyInv, P!Rerun
<1>5. CASE P!Promote
  BY <1>5 DEF PrivacyInv, P!Promote
<1>6. CASE UNCHANGED P!vars
  BY <1>6 DEF PrivacyInv, P!vars
<1>7. QED
  BY <1>1, <1>2, <1>3, <1>4, <1>5, <1>6, PersonSteps, RetentionKeeps, ErasureKeeps DEF P!Next

LEMMA PrivacyHolds == P!Spec => [](P!ErasedStaysErased /\ P!RetryKeepsText)
<1>1. P!Init => PrivacyInv
  BY DEF P!Init, PrivacyInv, P!Unknown, P!Held, P!Waiting, HasText
<1>2. PrivacyInv => P!ErasedStaysErased /\ P!RetryKeepsText
  BY DEF PrivacyInv, P!ErasedStaysErased, P!SubjectData, P!RetryKeepsText, Gone, HasText
<1>3. QED
  BY <1>1, <1>2, PrivacyStep, PTL DEF P!Spec

-----------------------------------------------------------------------------
(* Whatever is restored, interrupted or delivered late: the erased stay erased, a message
   that may be tried again has its text, a booking is its mail's, a link to unsubscribe
   leaves its own list, and a file is imported as it was written, every row of it
   reported. *)
THEOREM Keeping == Spec => []DataKept
<1>1. P!ErasedStaysErased /\ P!RetryKeepsText /\ H!CreditedToItsMail /\ H!LeavesItsList
        /\ D!ReadAsWritten /\ D!EveryRowReported => DataKept
  BY DEF DataKept
<1>2. QED
  BY <1>1, PrivacyHolds, LinksHold, LeadsHold, FileHolds, PTL DEF Spec
-----------------------------------------------------------------------------
(* A version is stored once its number is reached, the current one as the campaign is; a
   call that is about to record the winner found the winner applied. *)
VersionsKept ==
    /\ content \in C!Content /\ content \in had /\ had \subseteq C!Content
    /\ version \in 1..MaxVersion
    /\ DOMAIN versions = 1..MaxVersion
    /\ \A v \in 1..MaxVersion : versions[v] = None \/ (v <= version /\ versions[v] \in C!Content)
    /\ versions[version] \in {None, content}
    /\ C!NothingSaidIsLost /\ C!AcceptedWasApplied

EditorsInv ==
    /\ editAt \in [Editor -> {"idle", "set", "accept", "apply", "undo", "record", "reject"}]
    /\ DOMAIN editRead = Editor
    /\ \A c \in Editor :
          /\ editAt[c] \in {"accept", "reject", "apply"} => editRead[c] \in Texts
          /\ editAt[c] = "record" => \E x \in had : Head(x.steps) = Winner

CampaignInv == VersionsKept /\ EditorsInv

LEMMA FirstOf == ASSUME NEW s \in Texts PROVE Head([s EXCEPT ![1] = Winner]) = Winner
<1>1. PICK S : s \in Seq(S) /\ s # <<>> /\ [s EXCEPT ![1] = Winner] \in Texts
  BY CampaignsAssumption
<1>2. 1 \in DOMAIN s
  BY <1>1
<1>3. PICK w : w = [s EXCEPT ![1] = Winner]
  OBVIOUS
<1>4. w[1] = Winner
  BY <1>2, <1>3
<1>5. \E Q : w \in Seq(Q) /\ w # <<>>
  BY <1>1, <1>3, CampaignsAssumption
<1>6. QED
  BY <1>3, <1>4, <1>5

LEMMA UpdateKeeps ==
    ASSUME VersionsKept, NEW new \in C!Content, C!Update(new), UNCHANGED rec
    PROVE  VersionsKept'
<1>1. /\ version < MaxVersion /\ content' = new /\ version' = version + 1
      /\ had' = had \cup {new}
      /\ versions' = [versions EXCEPT ![version]     = IF @ = None THEN content ELSE @,
                                     ![version + 1] = new]
  BY DEF C!Update, C!Saved
<1>2. /\ version \in 1..MaxVersion /\ version + 1 \in 1..MaxVersion
      /\ DOMAIN versions' = 1..MaxVersion
  BY <1>1, CampaignsAssumption DEF VersionsKept
<1>3. \A v \in 1..MaxVersion : versions'[v] = IF v = version + 1 THEN new
                                             ELSE IF v = version /\ versions[v] = None THEN content
                                             ELSE versions[v]
  BY <1>1, <1>2 DEF VersionsKept
<1>4. versions[version + 1] = None /\ versions[version] \in {None, content}
  BY <1>2 DEF VersionsKept
<1>5. versions'[version] = content /\ versions'[version + 1] = new
  BY <1>2, <1>3, <1>4
<1>6. C!NothingSaidIsLost'
  <2>1. ASSUME NEW x \in had PROVE \E v \in 1..MaxVersion : versions'[v] = x \/ x = new
    <3>1. CASE x = content
      BY <1>2, <1>5, <3>1
    <3>2. CASE x # content
      <4>1. PICK v \in 1..MaxVersion : versions[v] = x
        BY <3>2 DEF VersionsKept, C!NothingSaidIsLost
      <4>2. CASE v = version \/ v = version + 1
        <5>1. v = version => x = None
          BY <1>4, <3>2, <4>1
        <5>2. x = None
          BY <1>4, <4>1, <4>2, <5>1
        <5>3. None \notin C!Content /\ x \in C!Content
          BY CampaignsAssumption DEF VersionsKept, C!Content
        <5>4. QED
          BY <5>2, <5>3
      <4>3. QED
        BY <1>3, <4>1, <4>2
    <3>3. QED
      BY <3>1, <3>2
  <2>2. QED
    BY <1>1, <1>2, <1>5, <2>1 DEF C!NothingSaidIsLost
<1>7. \A v \in 1..MaxVersion : versions'[v] = None \/ (v <= version' /\ versions'[v] \in C!Content)
  BY <1>1, <1>2, <1>3 DEF VersionsKept
<1>8. C!AcceptedWasApplied'
  BY <1>1 DEF VersionsKept, C!AcceptedWasApplied
<1>9. QED
  BY <1>1, <1>2, <1>5, <1>6, <1>7, <1>8 DEF VersionsKept

(* Whoever goes on in a step keeps to what the others were to do. *)
LEMMA EditorsKeep ==
    ASSUME CampaignInv, NEW c \in Editor, NEW p, NEW x, C!Goes(c, p, x), UNCHANGED C!campaign,
           p \in {"idle", "set", "accept", "apply", "undo", "record", "reject"},
           p \in {"accept", "reject", "apply"} => x \in Texts,
           p = "record" => \E y \in had : Head(y.steps) = Winner,
           rec' = "ACCEPTED" => \E y \in had : Head(y.steps) = Winner
    PROVE  CampaignInv'
BY DEF CampaignInv, VersionsKept, EditorsInv, C!Goes, C!campaign, C!NothingSaidIsLost, C!AcceptedWasApplied

LEMMA WinnerApplied ==
    ASSUME CampaignInv, NEW c \in Editor, C!Apply(c) PROVE CampaignInv'
<1>1. PICK s \in Texts : s = editRead[c]
  BY DEF CampaignInv, EditorsInv, C!Apply
<1>2. PICK won \in Texts : won = [s EXCEPT ![1] = Winner] /\ Head(won) = Winner
  BY <1>1, FirstOf, CampaignsAssumption
<1>3. PICK old \in Texts, from \in Sender : content = [steps |-> old, sender |-> from]
  BY DEF CampaignInv, VersionsKept, C!Content
<1>4. PICK new : new = [steps |-> won, sender |-> from]
  OBVIOUS
<1>5. C!WithWinner(c) = new /\ new \in C!Content /\ Head(new.steps) = Winner
  BY <1>1, <1>2, <1>3, <1>4 DEF C!WithWinner, C!Content
<1>6. /\ IF new = content THEN UNCHANGED C!campaign ELSE C!Update(new)
      /\ C!Goes(c, "record", None) /\ UNCHANGED C!trial
  BY <1>5 DEF C!Apply
<1>7. CASE new = content
  <2>1. /\ UNCHANGED C!campaign /\ UNCHANGED rec
        /\ rec = "ACCEPTED" => \E y \in had : Head(y.steps) = Winner
        /\ \E y \in had : Head(y.steps) = Winner
    BY <1>5, <1>6, <1>7 DEF CampaignInv, VersionsKept, C!trial,
       C!AcceptedWasApplied
  <2>2. QED
    BY <1>6, <2>1, EditorsKeep
<1>8. CASE new # content
  <2>1. C!Update(new) /\ UNCHANGED rec /\ new \in had'
    BY <1>6, <1>8 DEF C!trial, C!Update
  <2>2. \E y \in had' : Head(y.steps) = Winner
    BY <1>5, <2>1
  <2>3. VersionsKept'
    BY <1>5, <2>1, UpdateKeeps DEF CampaignInv
  <2>4. EditorsInv'
    BY <1>6, <2>1, <2>2 DEF CampaignInv, EditorsInv, C!Goes, C!Update
  <2>5. QED
    BY <2>3, <2>4 DEF CampaignInv
<1>9. QED
  BY <1>7, <1>8

LEMMA CampaignStep == CampaignInv /\ [C!Next]_C!vars => CampaignInv'
<1> SUFFICES ASSUME CampaignInv, [C!Next]_C!vars PROVE CampaignInv'
  OBVIOUS
<1>1. ASSUME NEW new \in C!Content, C!Update(new), UNCHANGED <<C!trial, editAt, editRead>>
      PROVE  CampaignInv'
  <2>1. VersionsKept'
    BY <1>1, UpdateKeeps DEF CampaignInv, C!trial
  <2>2. EditorsInv'
    BY <1>1 DEF CampaignInv, EditorsInv, C!Update
  <2>3. QED
    BY <2>1, <2>2 DEF CampaignInv
<1>2. ASSUME NEW new \in C!Content, C!Edit(new) PROVE CampaignInv'
  BY <1>1, <1>2 DEF C!Edit
<1>3. ASSUME NEW v \in 1..MaxVersion, C!Rollback(v) PROVE CampaignInv'
  <2>1. versions[v] \in C!Content
    BY <1>3 DEF C!Rollback, CampaignInv, VersionsKept
  <2>2. QED
    BY <1>1, <1>3, <2>1 DEF C!Rollback
<1>4. ASSUME UNCHANGED <<content, version, versions, had, rec, editAt, editRead>>
      PROVE  CampaignInv'
  BY <1>4 DEF CampaignInv, VersionsKept, EditorsInv, C!NothingSaidIsLost, C!AcceptedWasApplied
<1>5. ASSUME NEW s, C!SetStatus(s) PROVE CampaignInv'
  BY <1>4, <1>5 DEF C!SetStatus, C!trial
<1>6. CASE C!Queue \/ C!Approve
  BY <1>4, <1>6 DEF C!Queue, C!Approve, C!trial
<1>7. ASSUME NEW n \in Enrollment, NEW a, C!Assign(n, a) PROVE CampaignInv'
  BY <1>4, <1>7 DEF C!Assign, C!campaign
<1>8. CASE C!Evaluate
  BY <1>8 DEF C!Evaluate, C!campaign, CampaignInv, VersionsKept, EditorsInv, C!NothingSaidIsLost,
              C!AcceptedWasApplied
<1>9. ASSUME NEW c \in Editor PROVE
        /\ \A s \in {"RUNNING", "STOPPED"} : C!SetRead(c, s) => CampaignInv'
        /\ \A p \in {"accept", "reject"} : C!Decide(c, p) => CampaignInv'
        /\ C!SetWrite(c) \/ C!Reject(c) \/ C!Conclude(c) \/ C!ApplyFails(c) \/ C!Undo(c)
              \/ C!Record(c) \/ C!Crash(c) => CampaignInv'
  <2>1. rec = "ACCEPTED" => \E y \in had : Head(y.steps) = Winner
    BY DEF CampaignInv, VersionsKept, C!AcceptedWasApplied
  <2>2. ASSUME NEW s, C!SetRead(c, s) PROVE CampaignInv'
    BY <2>1, <2>2, EditorsKeep DEF C!SetRead, C!trial
  <2>3. ASSUME NEW p \in {"accept", "reject"}, C!Decide(c, p) PROVE CampaignInv'
    <3>1. content.steps \in Texts
      BY DEF CampaignInv, VersionsKept, C!Content
    <3>2. QED
      BY <2>1, <2>3, <3>1, EditorsKeep DEF C!Decide, C!trial
  <2>4. CASE C!SetWrite(c) \/ C!Reject(c) \/ C!ApplyFails(c) \/ C!Undo(c) \/ C!Crash(c)
    BY <2>1, <2>4, EditorsKeep DEF C!SetWrite, C!Reject, C!ApplyFails, C!Undo, C!Crash, C!trial
  <2>5. CASE C!Conclude(c)
    <3>1. editRead[c] \in Texts
      BY <2>5 DEF CampaignInv, EditorsInv, C!Conclude
    <3>2. QED
      BY <2>1, <2>5, <3>1, EditorsKeep DEF C!Conclude
  <2>6. CASE C!Record(c)
    <3>1. \E y \in had : Head(y.steps) = Winner
      BY <2>6 DEF CampaignInv, EditorsInv, C!Record
    <3>2. QED
      BY <2>6, <3>1, EditorsKeep DEF C!Record
  <2>7. QED
    BY <2>2, <2>3, <2>4, <2>5, <2>6
<1>10. CASE UNCHANGED C!vars
  BY <1>4, <1>10 DEF C!vars, C!campaign, C!trial
<1>11. QED
  BY <1>2, <1>3, <1>5, <1>6, <1>7, <1>8, <1>9, <1>10, WinnerApplied DEF C!Next

LEMMA CampaignHolds == C!Spec => [](C!NothingSaidIsLost /\ C!AcceptedWasApplied)
<1>1. C!Init => CampaignInv
  <2> SUFFICES ASSUME C!Init PROVE CampaignInv
    OBVIOUS
  <2>1. VersionsKept
    BY CampaignsAssumption DEF C!Init, VersionsKept, C!Content, C!NothingSaidIsLost,
       C!AcceptedWasApplied
  <2>2. EditorsInv
    BY DEF C!Init, EditorsInv
  <2>3. QED
    BY <2>1, <2>2 DEF CampaignInv
<1>2. CampaignInv => C!NothingSaidIsLost /\ C!AcceptedWasApplied
  BY DEF CampaignInv, VersionsKept
<1>3. QED
  BY <1>1, <1>2, CampaignStep, PTL DEF C!Spec

(* Whatever a campaign has said can be restored, and an accepted recommendation was
   applied, however many decide at once. *)
THEOREM Restoring == Spec => []CampaignKept
<1>1. C!NothingSaidIsLost /\ C!AcceptedWasApplied => CampaignKept
  BY DEF CampaignKept
<1>2. QED
  BY <1>1, CampaignHolds, PTL DEF Spec

(* No edit, no restored version and no accepted winner changes the copy under test. *)
THEOREM Testing == Spec => TestedCopyKept
<1>1. ASSUME [C!Next]_C!vars, test = "RUNNING", test' = "RUNNING"
      PROVE  Head(content'.steps) = Head(content.steps)
  <2>1. ASSUME NEW new, ~C!Blocked(new), C!Update(new)
        PROVE  Head(content'.steps) = Head(content.steps)
    BY <1>1, <2>1 DEF C!Blocked, C!Update
  <2>2. ASSUME NEW new \in C!Content, C!Edit(new)
        PROVE  Head(content'.steps) = Head(content.steps)
    BY <2>1, <2>2 DEF C!Edit
  <2>3. ASSUME NEW v \in 1..MaxVersion, C!Rollback(v)
        PROVE  Head(content'.steps) = Head(content.steps)
    BY <2>1, <2>3 DEF C!Rollback
  <2>4. ASSUME NEW c \in Editor, C!Apply(c)
        PROVE  Head(content'.steps) = Head(content.steps)
    BY <2>1, <2>4, SMTT(30) DEF C!Apply, C!campaign
  <2>5. ASSUME NEW c, NEW p, NEW a,
               \/ C!SetRead(c, p) \/ C!Decide(c, p) \/ C!SetWrite(c) \/ C!Reject(c)
               \/ C!Conclude(c) \/ C!ApplyFails(c) \/ C!Undo(c) \/ C!Record(c) \/ C!Crash(c)
               \/ C!SetStatus(p) \/ C!Assign(p, a)
        PROVE  content' = content
    BY <2>5 DEF C!SetRead, C!Decide, C!SetWrite, C!Reject, C!Conclude, C!ApplyFails, C!Undo,
       C!Record, C!Crash, C!SetStatus, C!Assign, C!campaign
  <2>6. ASSUME C!Queue \/ C!Approve \/ C!Evaluate \/ UNCHANGED C!vars PROVE content' = content
    BY <2>6 DEF C!Queue, C!Approve, C!Evaluate, C!vars, C!campaign
  <2>7. CASE UNCHANGED C!vars
    BY <2>6, <2>7
  <2>8. CASE C!Next
    BY <2>2, <2>3, <2>4, <2>5, <2>6, <2>8 DEF C!Next
  <2>9. QED
    BY <1>1, <2>7, <2>8
<1>2. C!Spec => C!TestedCopyKept
  BY <1>1, PTL DEF C!Spec, C!TestedCopyKept
<1>3. QED
  BY <1>2, PTL DEF Spec, TestedCopyKept
-----------------------------------------------------------------------------
(* An account in the workspace of a request was made by its approval; what a call
   carries is of the kind its point says, and who is to be switched has an account. *)
TeamTyped ==
    /\ DOMAIN account = Email
    /\ \A e \in Email : account[e] = None \/ account[e] \in T!Account
    /\ DOMAIN request = AccessRequest
    /\ \A r \in AccessRequest : request[r] = None \/
          request[r] \in [email : Email, status : {"PENDING", "APPROVED"}]
    /\ DOMAIN invite = Invitation
    /\ \A i \in Invitation : invite[i] = None \/
          invite[i] \in [email : Email, admin : BOOLEAN, state : {"open", "expired", "accepted"}]

CarriedInv ==
    /\ DOMAIN teamAt = Handler /\ DOMAIN teamRead = Handler
    /\ \A c \in Handler :
          /\ teamAt[c] = "submit" => teamRead[c] \in Email
          /\ teamAt[c] = "approve" => teamRead[c] \in AccessRequest /\ request[teamRead[c]] # None
          /\ teamAt[c] = "invite" =>
                teamRead[c] \in [email : Email, admin : BOOLEAN,
                                 state : {"open", "expired", "accepted"}]
          /\ teamAt[c] = "accept" => teamRead[c] \in Invitation
          /\ teamAt[c] = "switch" => /\ teamRead[c][1] \in T!Ours /\ teamRead[c][2] \in BOOLEAN

MembersInv ==
    /\ T!ApprovedHasAccount /\ T!AdminRemains
    /\ \A e \in Email : account[e] # None /\ account[e].home \in AccessRequest
                           => request[account[e].home] # None

TeamInv == TeamTyped /\ CarriedInv /\ MembersInv

(* A call that only goes on, with what its point asks for. *)
LEMMA CallsGoOn ==
    ASSUME TeamInv, NEW c \in Handler, NEW p, NEW x, T!Goes(c, p, x),
           UNCHANGED <<account, request, invite>>,
           p = "submit" => x \in Email,
           p = "approve" => x \in AccessRequest /\ request[x] # None,
           p = "invite" => x \in [email : Email, admin : BOOLEAN,
                                  state : {"open", "expired", "accepted"}],
           p = "accept" => x \in Invitation,
           p = "switch" => x[1] \in T!Ours /\ x[2] \in BOOLEAN
    PROVE  TeamInv'
<1>1. TeamTyped'
  BY DEF TeamInv, TeamTyped
<1>2. T!Ours' = T!Ours /\ T!Admins' = T!Admins
  BY DEF T!Ours, T!Admins, T!Active
<1>3. CarriedInv'
  BY <1>2 DEF TeamInv, CarriedInv, T!Goes
<1>4. MembersInv'
  BY <1>2 DEF TeamInv, MembersInv, T!ApprovedHasAccount, T!AdminRemains
<1>5. QED
  BY <1>1, <1>3, <1>4 DEF TeamInv

(* What the others carry stays good when accounts keep their home, and requests and
   invitations are not taken back. *)
LEMMA CarriedKept ==
    ASSUME TeamInv, NEW c \in Handler, NEW p, NEW x, T!Goes(c, p, x), p \in {"idle", "deliver"},
           T!Ours \subseteq T!Ours',
           \A r \in AccessRequest : request[r] # None => request'[r] # None
    PROVE  CarriedInv'
BY DEF TeamInv, CarriedInv, T!Goes

LEMMA SubmitKeeps ==
    ASSUME TeamInv, NEW c \in Handler, NEW r \in AccessRequest, T!SubmitWrite(c, r)
    PROVE  TeamInv'
<1>1. PICK e \in Email : e = teamRead[c]
  BY DEF TeamInv, CarriedInv, T!SubmitWrite
<1>2. PICK new : new = [email |-> e, status |-> "PENDING"]
  OBVIOUS
<1>3. /\ new \in [email : Email, status : {"PENDING", "APPROVED"}] /\ new # None
      /\ new.email = e /\ new.status = "PENDING"
  BY <1>2, TeamAssumption
<1>4. /\ request[r] = None /\ request' = [request EXCEPT ![r] = new]
      /\ T!Goes(c, "deliver", r) /\ UNCHANGED <<account, mail, invite>>
  BY <1>1, <1>2 DEF T!SubmitWrite
<1>5. TeamTyped'
  BY <1>3, <1>4 DEF TeamInv, TeamTyped
<1>6. T!Ours' = T!Ours /\ T!Admins' = T!Admins
  BY <1>4 DEF T!Ours, T!Admins, T!Active
<1>7. \A q \in AccessRequest : request'[q] = IF q = r THEN new ELSE request[q]
  BY <1>4 DEF TeamInv, TeamTyped
<1>8. CarriedInv'
  BY <1>3, <1>4, <1>6, <1>7, CarriedKept
<1>9. T!ApprovedHasAccount'
  <2>1. account[e] # None => account[e].home # r
    BY <1>4 DEF TeamInv, MembersInv
  <2>2. QED
    BY <1>3, <1>4, <1>7, <2>1 DEF TeamInv, MembersInv, T!ApprovedHasAccount
<1>10. MembersInv'
  BY <1>3, <1>4, <1>6, <1>7, <1>9 DEF TeamInv, MembersInv, T!AdminRemains
<1>11. QED
  BY <1>5, <1>8, <1>10 DEF TeamInv

LEMMA NewAccount ==
    ASSUME NEW h \in {"ours"} \cup AccessRequest, NEW a \in BOOLEAN
    PROVE  \E n : /\ n = [home |-> h, admin |-> a, disabled |-> FALSE]
                  /\ n \in T!Account /\ n # None /\ n.home = h
<1>1. PICK no \in BOOLEAN : no = FALSE
  BY Zenon
<1>2. PICK n : n = [home |-> h, admin |-> a, disabled |-> no]
  OBVIOUS
<1>3. n \in T!Account /\ n # None /\ n.home = h
  BY <1>2, TeamAssumption DEF T!Account
<1>4. n = [home |-> h, admin |-> a, disabled |-> FALSE]
  BY <1>1, <1>2, ZenonT(40)
<1>5. QED
  BY <1>3, <1>4, Zenon

LEMMA ApprovalKeeps ==
    ASSUME TeamInv, NEW c \in Handler, T!ApproveWrite(c) PROVE TeamInv'
<1>1. PICK r \in AccessRequest : r = teamRead[c] /\ request[r] # None
  BY DEF TeamInv, CarriedInv, T!ApproveWrite
<1>2. PICK e \in Email, s \in {"PENDING", "APPROVED"} : request[r] = [email |-> e, status |-> s]
  BY <1>1 DEF TeamInv, TeamTyped
<1>3. CASE ~(s = "PENDING" /\ account[e] = None)
  <2>1. UNCHANGED <<account, request, invite>>
    BY <1>1, <1>2, <1>3 DEF T!ApproveWrite, T!Approval
  <2>2. T!Goes(c, "idle", None)
    BY <2>1 DEF T!ApproveWrite, T!Ends
  <2>3. QED
    BY <2>1, <2>2, CallsGoOn
<1>4. CASE s = "PENDING" /\ account[e] = None
  <2>1. PICK yes \in BOOLEAN : yes = TRUE
    BY Zenon
  <2>2. PICK n : /\ n = [home |-> r, admin |-> yes, disabled |-> FALSE]
                 /\ n \in T!Account /\ n # None /\ n.home = r
    BY NewAccount, Zenon
  <2>3. PICK new : new = [request[r] EXCEPT !.status = "APPROVED"]
    OBVIOUS
  <2>4. new = [email |-> e, status |-> "APPROVED"]
    BY <1>2, <2>3
  <2>5. /\ new \in [email : Email, status : {"PENDING", "APPROVED"}] /\ new # None
        /\ new.email = e /\ new.status = "APPROVED"
    BY <2>4, TeamAssumption
  <2>6. /\ request' = [request EXCEPT ![r] = new] /\ account' = [account EXCEPT ![e] = n]
        /\ UNCHANGED <<mail, invite>>
    <3>1. n = [home |-> r, admin |-> TRUE, disabled |-> FALSE]
      BY <2>1, <2>2, ZenonT(40)
    <3>2. QED
      BY <1>1, <1>2, <1>4, <2>3, <3>1 DEF T!ApproveWrite, T!Approval
  <2>7. /\ \A q \in AccessRequest : request'[q] = IF q = r THEN new ELSE request[q]
        /\ \A f \in Email : account'[f] = IF f = e THEN n ELSE account[f]
    BY <2>6 DEF TeamInv, TeamTyped
  <2>8. TeamTyped'
    BY <2>2, <2>5, <2>6, <2>7 DEF TeamInv, TeamTyped
  <2>9. T!Ours' = T!Ours /\ T!Admins' = T!Admins
    BY <1>4, <2>2, <2>7, TeamAssumption DEF T!Ours, T!Admins, T!Active
  <2>10. \E p \in {"idle", "deliver"} : \E x : T!Goes(c, p, x)
    BY DEF T!ApproveWrite, T!Ends
  <2>11. CarriedInv'
    BY <2>5, <2>7, <2>9, <2>10, CarriedKept
  <2>12. T!ApprovedHasAccount'
    <3>1. ASSUME NEW q \in AccessRequest, request'[q] # None
          PROVE  request'[q].status = "APPROVED" <=>
                   account'[request'[q].email] # None /\ account'[request'[q].email].home = q
      <4>1. CASE q = r
        BY <2>2, <2>5, <2>7, <4>1
      <4>2. CASE q # r
        <5>1. request'[q] = request[q] /\ request[q].email \in Email
          BY <2>7, <3>1, <4>2 DEF TeamInv, TeamTyped
        <5>2. CASE request[q].email = e
          BY <1>4, <2>2, <2>7, <3>1, <4>2, <5>1, <5>2 DEF TeamInv, MembersInv, T!ApprovedHasAccount
        <5>3. CASE request[q].email # e
          BY <2>7, <3>1, <5>1, <5>3 DEF TeamInv, MembersInv, T!ApprovedHasAccount
        <5>4. QED
          BY <5>2, <5>3
      <4>3. QED
        BY <4>1, <4>2
    <3>2. QED
      BY <3>1 DEF T!ApprovedHasAccount
  <2>13. MembersInv'
    BY <2>2, <2>5, <2>7, <2>9, <2>12 DEF TeamInv, MembersInv, T!AdminRemains
  <2>14. QED
    BY <2>8, <2>11, <2>13 DEF TeamInv
<1>5. QED
  BY <1>3, <1>4

LEMMA AcceptKeeps ==
    ASSUME TeamInv, NEW c \in Handler, T!AcceptWrite(c) PROVE TeamInv'
<1>1. PICK i \in Invitation : i = teamRead[c]
  BY DEF TeamInv, CarriedInv, T!AcceptWrite
<1>2. T!Goes(c, "idle", None) /\ UNCHANGED <<request, mail>>
  BY DEF T!AcceptWrite, T!Ends
<1>3. CASE ~(T!IsOpen(i) /\ account[invite[i].email] = None)
  <2>1. UNCHANGED <<account, request, invite>>
    BY <1>1, <1>2, <1>3 DEF T!AcceptWrite
  <2>2. QED
    BY <1>2, <2>1, CallsGoOn
<1>4. CASE T!IsOpen(i) /\ account[invite[i].email] = None
  <2>1. PICK e \in Email, a \in BOOLEAN :
           invite[i] = [email |-> e, admin |-> a, state |-> "open"]
    BY <1>4 DEF TeamInv, TeamTyped, T!IsOpen
  <2>2. PICK n : /\ n = [home |-> "ours", admin |-> a, disabled |-> FALSE]
                 /\ n \in T!Account /\ n # None /\ n.home = "ours"
    BY NewAccount, Zenon
  <2>3. n \in T!Account /\ n # None /\ n.home = "ours"
    BY <2>2
  <2>4. PICK new : new = [invite[i] EXCEPT !.state = "accepted"]
    OBVIOUS
  <2>5. new = [email |-> e, admin |-> a, state |-> "accepted"]
    BY <2>1, <2>4
  <2>6. /\ invite' = [invite EXCEPT ![i] = new] /\ account' = [account EXCEPT ![e] = n]
        /\ account[e] = None
    BY <1>1, <1>4, <2>1, <2>2, <2>4 DEF T!AcceptWrite
  <2>7. \A f \in Email : account'[f] = IF f = e THEN n ELSE account[f]
    BY <2>6 DEF TeamInv, TeamTyped
  <2>8. TeamTyped'
    BY <1>2, <2>3, <2>5, <2>6, <2>7 DEF TeamInv, TeamTyped
  <2>9. T!Ours \subseteq T!Ours' /\ T!Admins \subseteq T!Admins'
    BY <2>6, <2>7 DEF T!Ours, T!Admins, T!Active
  <2>10. CarriedInv'
    BY <1>2, <2>9, CarriedKept
  <2>11. T!ApprovedHasAccount'
    BY <1>2, <2>3, <2>6, <2>7, TeamAssumption
       DEF TeamInv, TeamTyped, MembersInv, T!ApprovedHasAccount
  <2>12. MembersInv'
    BY <1>2, <2>3, <2>7, <2>9, <2>11, TeamAssumption DEF TeamInv, MembersInv, T!AdminRemains
  <2>13. QED
    BY <2>8, <2>10, <2>12 DEF TeamInv
<1>5. QED
  BY <1>3, <1>4

LEMMA SamePeople == \A S : T!Cardinality(S) = Cardinality(S)
BY Zenon DEF T!Cardinality, Cardinality

(* The last administrator is never the one switched off. *)
LEMMA SwitchKeeps ==
    ASSUME TeamInv, NEW c \in Handler, T!SwitchWrite(c) PROVE TeamInv'
<1>1. PICK e, off : e = teamRead[c][1] /\ off = teamRead[c][2]
  OBVIOUS
<1>2. e \in T!Ours /\ off \in BOOLEAN
  BY <1>1 DEF TeamInv, CarriedInv, T!SwitchWrite
<1>3. T!Goes(c, "idle", None) /\ UNCHANGED <<request, mail, invite>>
  BY DEF T!SwitchWrite, T!Ends
<1>4. CASE off /\ T!LastAdmin(e)
  <2>1. UNCHANGED <<account, request, invite>>
    BY <1>1, <1>3, <1>4 DEF T!SwitchWrite
  <2>2. QED
    BY <1>3, <2>1, CallsGoOn
<1>5. CASE ~(off /\ T!LastAdmin(e))
  <2>1. PICK h \in {"ours"} \cup AccessRequest, a \in BOOLEAN, d \in BOOLEAN :
           account[e] = [home |-> h, admin |-> a, disabled |-> d]
    BY <1>2 DEF TeamInv, TeamTyped, T!Ours, T!Account
  <2>2. PICK n : n = [account[e] EXCEPT !.disabled = off]
    OBVIOUS
  <2>3. n = [home |-> h, admin |-> a, disabled |-> off]
    BY <2>1, <2>2
  <2>4. n \in T!Account /\ n # None
    BY <1>2, <2>3, TeamAssumption DEF T!Account
  <2>5. n.home = account[e].home /\ n.admin = account[e].admin
    BY <2>1, <2>3
  <2>6. n.disabled = off
    BY <2>3, Zenon
  <2>7. account' = [account EXCEPT ![e] = n] /\ e \in Email /\ account[e] # None
    BY <1>1, <1>2, <1>5, <2>2 DEF T!SwitchWrite, T!Ours
  <2>8. \A f \in Email : account'[f] = IF f = e THEN n ELSE account[f]
    BY <2>7 DEF TeamInv, TeamTyped
  <2>9. TeamTyped'
    BY <1>3, <2>4, <2>7, <2>8 DEF TeamInv, TeamTyped
  <2>10. T!Ours' = T!Ours
    BY <2>4, <2>5, <2>7, <2>8 DEF T!Ours
  <2>11. CarriedInv'
    BY <1>3, <2>10, CarriedKept
  <2>12. T!ApprovedHasAccount'
    BY <1>3, <2>4, <2>5, <2>7, <2>8 DEF TeamInv, TeamTyped, MembersInv, T!ApprovedHasAccount
  <2>13. T!Admins' # {}
    <3>1. T!Admins \ {e} \subseteq T!Admins'
      BY <2>8, <2>10 DEF T!Admins, T!Active, T!Ours
    <3>2. CASE ~off
      <4>1. ~n.disabled
        BY <2>6, <3>2
      <4>2. e \in T!Admins => e \in T!Admins'
        BY <2>4, <2>5, <2>7, <2>8, <2>10, <4>1 DEF T!Admins, T!Active
      <4>3. QED
        BY <3>1, <4>2 DEF TeamInv, MembersInv, T!AdminRemains
    <3>3. CASE ~account[e].admin
      <4>1. e \notin T!Admins
        BY <3>3 DEF T!Admins
      <4>2. QED
        BY <3>1, <4>1 DEF TeamInv, MembersInv, T!AdminRemains
    <3>4. CASE ~(Cardinality(T!Admins) <= 1)
      <4>1. Cardinality({e}) = 1
        BY FS_Singleton
      <4>2. T!Admins # {e}
        BY <3>4, <4>1
      <4>3. QED
        BY <3>1, <4>2 DEF TeamInv, MembersInv, T!AdminRemains
    <3>5. QED
      BY <1>5, <3>2, <3>3, <3>4, SamePeople DEF T!LastAdmin
  <2>14. MembersInv'
    BY <1>3, <2>4, <2>5, <2>7, <2>8, <2>12, <2>13 DEF TeamInv, MembersInv, T!AdminRemains
  <2>15. QED
    BY <2>9, <2>11, <2>14 DEF TeamInv
<1>6. QED
  BY <1>4, <1>5

(* Invitations change neither accounts nor requests. *)
LEMMA InvitationsKeep ==
    ASSUME TeamInv,
           \/ \E c \in Handler, i \in Invitation : T!InviteWrite(c, i)
           \/ \E i \in Invitation : T!InviteEnds(i)
    PROVE  TeamInv'
<1> DEFINE Invited == [email : Email, admin : BOOLEAN, state : {"open", "expired", "accepted"}]
<1>1. ASSUME NEW v \in Invited, NEW w, w = [v EXCEPT !.state = "expired"] PROVE w \in Invited
  <2>1. PICK e \in Email, a \in BOOLEAN, s \in {"open", "expired", "accepted"} :
           v = [email |-> e, admin |-> a, state |-> s]
    OBVIOUS
  <2>2. w = [email |-> e, admin |-> a, state |-> "expired"]
    BY <1>1, <2>1
  <2>3. QED
    BY <2>2
<1>2. \A i \in Invitation : invite[i] = None \/ invite[i] \in Invited
  BY DEF TeamInv, TeamTyped
<1>3. ASSUME NEW c \in Handler, NEW i \in Invitation, T!InviteWrite(c, i)
      PROVE  /\ DOMAIN invite' = Invitation
             /\ \A j \in Invitation : invite'[j] = None \/ invite'[j] \in Invited
  <2>1. teamRead[c] \in Invited
    BY <1>3 DEF TeamInv, CarriedInv, T!InviteWrite
  <2>2. invite' = [j \in Invitation |->
           IF j = i THEN teamRead[c]
           ELSE IF T!IsOpen(j) /\ invite[j].email = teamRead[c].email
             THEN [invite[j] EXCEPT !.state = "expired"] ELSE invite[j]]
    BY <1>3 DEF T!InviteWrite
  <2>3. ASSUME NEW j \in Invitation PROVE invite'[j] = None \/ invite'[j] \in Invited
    <3>1. CASE j = i
      BY <2>1, <2>2, <3>1
    <3>2. CASE j # i /\ T!IsOpen(j) /\ invite[j].email = teamRead[c].email
      <4>1. invite'[j] = [invite[j] EXCEPT !.state = "expired"] /\ invite[j] # None
        BY <2>2, <3>2 DEF T!IsOpen
      <4>2. QED
        BY <1>1, <1>2, <4>1
    <3>3. CASE j # i /\ ~(T!IsOpen(j) /\ invite[j].email = teamRead[c].email)
      BY <1>2, <2>2, <3>3
    <3>4. QED
      BY <3>1, <3>2, <3>3
  <2>4. QED
    BY <2>2, <2>3, SMTT(30)
<1>4. ASSUME NEW i \in Invitation, T!InviteEnds(i)
      PROVE  /\ DOMAIN invite' = Invitation
             /\ \A j \in Invitation : invite'[j] = None \/ invite'[j] \in Invited
  <2>1. PICK w : w = [invite[i] EXCEPT !.state = "expired"]
    OBVIOUS
  <2>2. w \in Invited
    BY <1>1, <1>2, <1>4, <2>1 DEF T!InviteEnds, T!IsOpen
  <2>3. invite' = [invite EXCEPT ![i] = w] /\ DOMAIN invite = Invitation
    BY <1>4, <2>1 DEF T!InviteEnds, TeamInv, TeamTyped
  <2>4. QED
    BY <1>2, <2>2, <2>3
<1>5. TeamTyped'
  <2>1. UNCHANGED <<account, request>>
    BY DEF T!InviteWrite, T!InviteEnds
  <2>2. QED
    BY <1>3, <1>4, <2>1 DEF TeamInv, TeamTyped
<1>6. CarriedInv' /\ MembersInv'
  <2>1. UNCHANGED <<account, request>>
    BY DEF T!InviteWrite, T!InviteEnds
  <2>2. T!Ours' = T!Ours /\ T!Admins' = T!Admins
    BY <2>1 DEF T!Ours, T!Admins, T!Active
  <2>3. ASSUME NEW c \in Handler, NEW i \in Invitation, T!InviteWrite(c, i) PROVE CarriedInv'
    BY <2>1, <2>2, <2>3, CarriedKept DEF T!InviteWrite, T!Ends
  <2>4. ASSUME NEW i \in Invitation, T!InviteEnds(i) PROVE CarriedInv'
    BY <2>1, <2>2, <2>4 DEF T!InviteEnds, TeamInv, CarriedInv
  <2>5. MembersInv'
    BY <2>1, <2>2, SMTT(30) DEF TeamInv, MembersInv, T!ApprovedHasAccount, T!AdminRemains
  <2>6. QED
    BY <2>3, <2>4, <2>5
<1>7. QED
  BY <1>5, <1>6 DEF TeamInv

LEMMA TeamStep == TeamInv /\ [T!Next]_T!vars => TeamInv'
<1> SUFFICES ASSUME TeamInv, [T!Next]_T!vars PROVE TeamInv'
  OBVIOUS
<1>1. ASSUME NEW c \in Handler
      PROVE  /\ \A e \in Email : T!Submit(c, e) => TeamInv'
             /\ \A e \in Email, admin \in BOOLEAN : T!InviteRead(c, e, admin) => TeamInv'
             /\ \A r \in AccessRequest : T!Approve(c, r) \/ T!Resend(c, r) => TeamInv'
             /\ \A said \in {"sent", "failed"} : T!Deliver(c, said) => TeamInv'
             /\ \A i \in Invitation : T!Accept(c, i) => TeamInv'
             /\ \A actor, e \in Email : T!Switch(c, actor, e) => TeamInv'
             /\ T!Crash(c) => TeamInv'
  <2>1. ASSUME NEW e \in Email, T!Submit(c, e) PROVE TeamInv'
    BY <2>1, CallsGoOn DEF T!Submit, T!Starts, T!Goes
  <2>2. ASSUME NEW e \in Email, NEW admin \in BOOLEAN, T!InviteRead(c, e, admin) PROVE TeamInv'
    <3>1. PICK x : x = [email |-> e, admin |-> admin, state |-> "open"]
      OBVIOUS
    <3>2. x \in [email : Email, admin : BOOLEAN, state : {"open", "expired", "accepted"}]
      BY <3>1
    <3>3. T!Goes(c, "invite", x) /\ UNCHANGED <<account, request, invite>>
      BY <2>2, <3>1 DEF T!InviteRead, T!Starts, T!Goes
    <3>4. QED
      BY <3>2, <3>3, CallsGoOn
  <2>3. ASSUME NEW r \in AccessRequest, T!Approve(c, r) \/ T!Resend(c, r) PROVE TeamInv'
    <3>1. CASE T!Approve(c, r)
      BY <3>1, CallsGoOn DEF T!Approve, T!Starts, T!Goes
    <3>2. CASE T!Resend(c, r)
      BY <3>2, CallsGoOn DEF T!Resend, T!Starts, T!Goes
    <3>3. QED
      BY <2>3, <3>1, <3>2
  <2>4. ASSUME NEW said, T!Deliver(c, said) PROVE TeamInv'
    BY <2>4, CallsGoOn DEF T!Deliver, T!Ends
  <2>5. ASSUME NEW i \in Invitation, T!Accept(c, i) PROVE TeamInv'
    BY <2>5, CallsGoOn DEF T!Accept, T!Starts, T!Goes
  <2>6. ASSUME NEW actor, NEW e \in Email, T!Switch(c, actor, e) PROVE TeamInv'
    <3>1. PICK x : x = <<e, ~account[e].disabled>>
      OBVIOUS
    <3>2. x[1] \in T!Ours
      BY <2>6, <3>1 DEF T!Switch
    <3>3. x[2] \in BOOLEAN
      BY <3>1, ZenonT(40)
    <3>4. T!Goes(c, "switch", x) /\ UNCHANGED <<account, request, invite>>
      BY <2>6, <3>1, Zenon DEF T!Switch, T!Starts, T!Goes
    <3>5. QED
      BY <3>2, <3>3, <3>4, CallsGoOn
  <2>7. CASE T!Crash(c)
    BY <2>7, CallsGoOn DEF T!Crash, T!Ends
  <2>8. QED
    BY <2>1, <2>2, <2>3, <2>4, <2>5, <2>6, <2>7
<1>2. CASE UNCHANGED T!vars
  <2>1. T!Ours' = T!Ours /\ T!Admins' = T!Admins
    BY <1>2 DEF T!vars, T!Ours, T!Admins, T!Active
  <2>2. QED
    BY <1>2, <2>1 DEF T!vars, TeamInv, TeamTyped, CarriedInv, MembersInv, T!ApprovedHasAccount,
       T!AdminRemains
<1>3. QED
  BY <1>1, <1>2, SubmitKeeps, ApprovalKeeps, AcceptKeeps, SwitchKeeps, InvitationsKeep DEF T!Next

LEMMA TeamHolds == T!Spec => [](T!ApprovedHasAccount /\ T!AdminRemains) /\ []TeamTyped
<1>1. T!Init => TeamInv
  <2> SUFFICES ASSUME T!Init PROVE TeamInv
    OBVIOUS
  <2>1. PICK yes \in BOOLEAN : yes = TRUE
    BY Zenon
  <2>2. PICK n : /\ n = [home |-> "ours", admin |-> yes, disabled |-> FALSE]
                 /\ n \in T!Account /\ n # None /\ n.home = "ours"
    BY NewAccount, Zenon
  <2>3. n = [home |-> "ours", admin |-> TRUE, disabled |-> FALSE]
    BY <2>1, <2>2, ZenonT(40)
  <2>4. n.admin /\ ~n.disabled
    BY <2>3, Zenon
  <2>5. account = [e \in Email |-> IF e \in Founder THEN n ELSE None]
    BY <2>3 DEF T!Init
  <2>6. TeamTyped /\ CarriedInv
    BY <2>2, <2>5 DEF T!Init, TeamTyped, CarriedInv
  <2>7. T!Admins # {}
    BY <2>2, <2>4, <2>5, TeamAssumption DEF T!Admins, T!Ours, T!Active
  <2>8. MembersInv
    BY <2>2, <2>5, <2>7, TeamAssumption
       DEF T!Init, MembersInv, T!ApprovedHasAccount, T!AdminRemains
  <2>9. QED
    BY <2>6, <2>8 DEF TeamInv
<1>2. TeamInv => T!ApprovedHasAccount /\ T!AdminRemains /\ TeamTyped
  BY DEF TeamInv, MembersInv
<1>3. QED
  BY <1>1, <1>2, TeamStep, PTL DEF T!Spec
-----------------------------------------------------------------------------
(* A link that was accepted is used; a recovery code that was is gone, and the next one
   is new; a step that was is not after the last, unless it was written over. *)
CodesTyped ==
    /\ lastStep \in Nat /\ made \in Nat /\ secret \in Nat
    /\ DOMAIN links = ResetLink
    /\ DOMAIN loginAt = Handler /\ DOMAIN loginRead = Handler
    /\ \A c \in Handler : loginRead[c].links \subseteq ResetLink /\ loginRead[c].secret \in Nat
    /\ \A r \in recovery : r \in Nat /\ r <= made

SpentOf(x) ==
    \/ x \in ResetLink /\ links[x] = "used"
    \/ \E s \in Nat, step \in Nat :
          /\ x = <<s, step>>
          /\ step = 0 => s \notin recovery /\ s <= made
          /\ step > 0 => s \in rearmed \/ step <= lastStep

AccountsInv == CodesTyped /\ (\A x \in spent : SpentOf(x)) /\ A!OneTimeSecrets

LEMMA CodesAreNoLinks == \A s \in Nat, step \in Nat : <<s, step>> \notin ResetLink
BY AccountsAssumption

(* Spending what was not spent, or what was written over. *)
LEMMA SpendsOnce ==
    ASSUME AccountsInv, NEW x, A!Spends(x), rearmed \subseteq rearmed',
           \A y \in spent : SpentOf(y)', SpentOf(x)', CodesTyped',
           x \in spent => x \notin ResetLink /\ x[2] > 0 /\ x[1] \in rearmed'
    PROVE  AccountsInv'
<1>1. \A y \in spent' : SpentOf(y)'
  BY DEF A!Spends
<1>2. A!OneTimeSecrets'
  BY DEF A!Spends, AccountsInv, A!OneTimeSecrets
<1>3. QED
  BY <1>1, <1>2 DEF AccountsInv

LEMMA NothingSpent ==
    ASSUME AccountsInv, UNCHANGED <<spent, replayed>>, rearmed \subseteq rearmed',
           \A y \in spent : SpentOf(y)', CodesTyped'
    PROVE  AccountsInv'
BY DEF AccountsInv, A!OneTimeSecrets

(* What a call reads of the account is of its kind. *)
Reads(c, v) ==
    /\ loginRead' = [loginRead EXCEPT ![c] = v] /\ DOMAIN loginAt' = DOMAIN loginAt
    /\ UNCHANGED <<links, lastStep, secret, recovery, made, spent, replayed, rearmed>>

LEMMA ReadsKeep ==
    ASSUME AccountsInv, NEW c \in Handler, NEW v, v.links \subseteq ResetLink, v.secret \in Nat,
           Reads(c, v)
    PROVE  AccountsInv'
<1>1. CodesTyped'
  BY DEF AccountsInv, CodesTyped, Reads
<1>2. \A y \in spent : SpentOf(y)'
  BY DEF AccountsInv, SpentOf, Reads
<1>3. QED
  BY <1>1, <1>2, NothingSpent DEF Reads

LEMMA ReadingCalls ==
    ASSUME AccountsInv, NEW c \in Handler
    PROVE  /\ A!Supersede(c) \/ A!ChangeRead(c) \/ A!ChangeWrite(c) \/ A!LoginRead(c)
                 \/ A!WrongCode(c) \/ A!OpenSession(c) => AccountsInv'
           /\ \A l \in ResetLink : A!ResetRead(c, l) => AccountsInv'
           /\ \A p \in {"setup", "enable"} : A!MfaRead(c, p) => AccountsInv'
<1> USE DEF A!Starts, A!Ends, A!totp, A!past
<1>1. DOMAIN loginAt = Handler
  BY DEF AccountsInv, CodesTyped
<1>2. A!Idle.links = {} /\ A!Idle.secret = 0
  BY DEF A!Idle
<1>3. secret \in Nat
  BY DEF AccountsInv, CodesTyped
<1>4. CASE A!Supersede(c)
  <2>1. PICK t : t = {l \in ResetLink : A!Unused(l)}
    OBVIOUS
  <2>2. PICK v : v = [A!Idle EXCEPT !.links = t]
    OBVIOUS
  <2>3. v.links \subseteq ResetLink /\ v.secret = 0
    BY <2>1, <2>2 DEF A!Idle
  <2>4. Reads(c, v)
    BY <1>1, <1>4, <2>1, <2>2 DEF A!Supersede, Reads
  <2>5. QED
    BY <2>3, <2>4, ReadsKeep
<1>5. ASSUME NEW l \in ResetLink, A!ResetRead(c, l) PROVE AccountsInv'
  <2>1. PICK v : v = [A!Idle EXCEPT !.links = {l}]
    OBVIOUS
  <2>2. v.links \subseteq ResetLink /\ v.secret = 0
    BY <2>1 DEF A!Idle
  <2>3. Reads(c, v)
    BY <1>1, <1>5, <2>1 DEF A!ResetRead, Reads
  <2>4. QED
    BY <2>2, <2>3, ReadsKeep
<1>6. CASE A!ChangeRead(c)
  <2>1. PICK v : v = [A!Idle EXCEPT !.password = password]
    OBVIOUS
  <2>2. v.links = {} /\ v.secret = 0
    BY <2>1 DEF A!Idle
  <2>3. Reads(c, v)
    BY <1>1, <1>6, <2>1 DEF A!ChangeRead, Reads
  <2>4. QED
    BY <2>2, <2>3, ReadsKeep
<1>7. CASE A!ChangeWrite(c) \/ A!WrongCode(c) \/ A!OpenSession(c)
  <2>1. Reads(c, A!Idle)
    BY <1>1, <1>7 DEF A!ChangeWrite, A!WrongCode, A!OpenSession, Reads
  <2>2. QED
    BY <1>2, <2>1, ReadsKeep
<1>8. CASE A!LoginRead(c)
  <2>1. CASE mfa
    <3>1. PICK v : v = [A!Idle EXCEPT !.secret = secret, !.step = lastStep]
      OBVIOUS
    <3>2. v.links = {} /\ v.secret = secret
      BY <3>1 DEF A!Idle
    <3>3. Reads(c, v)
      BY <1>1, <1>8, <2>1, <3>1 DEF A!LoginRead, Reads
    <3>4. QED
      BY <1>3, <3>2, <3>3, ReadsKeep
  <2>2. CASE ~mfa
    <3>1. Reads(c, A!Idle)
      BY <1>1, <1>8, <2>2 DEF A!LoginRead, Reads
    <3>2. QED
      BY <1>2, <3>1, ReadsKeep
  <2>3. QED
    BY <2>1, <2>2
<1>9. ASSUME NEW p, A!MfaRead(c, p) PROVE AccountsInv'
  <2>1. PICK v : v = [A!Idle EXCEPT !.secret = secret]
    OBVIOUS
  <2>2. v.links = {} /\ v.secret = secret
    BY <2>1 DEF A!Idle
  <2>3. Reads(c, v)
    BY <1>1, <1>9, <2>1 DEF A!MfaRead, Reads
  <2>4. QED
    BY <1>3, <2>2, <2>3, ReadsKeep
<1>10. QED
  BY <1>4, <1>5, <1>6, <1>7, <1>8, <1>9

(* A call that ends leaves the account's codes typed, with any new step, secret and codes. *)
LEMMA EndsTyped ==
    ASSUME CodesTyped, NEW c \in Handler, A!Ends(c) \/ A!Moves(c, "open"),
           lastStep' \in Nat, made' \in Nat, secret' \in Nat, DOMAIN links' = ResetLink,
           \A r \in recovery' : r \in Nat /\ r <= made'
    PROVE  CodesTyped'
<1>1. A!Idle.links = {} /\ A!Idle.secret = 0
  BY DEF A!Idle
<1>2. QED
  BY <1>1 DEF CodesTyped, A!Ends, A!Moves

LEMMA LinksStay ==
    ASSUME AccountsInv, UNCHANGED <<recovery, made, lastStep, rearmed>>,
           \A l \in ResetLink : links[l] = "used" => links'[l] = "used"
    PROVE  \A y \in spent : SpentOf(y)'
BY DEF AccountsInv, SpentOf

LEMMA LinkSteps ==
    ASSUME AccountsInv
    PROVE  /\ \A c \in Handler, l \in ResetLink : A!Create(c, l) => AccountsInv'
           /\ \A l \in ResetLink : A!LinkExpires(l) => AccountsInv'
           /\ \A c \in Handler : A!ResetWrite(c) => AccountsInv'
<1>1. ASSUME NEW c \in Handler, NEW l \in ResetLink, A!Create(c, l) PROVE AccountsInv'
  <2>1. links' = [k \in ResetLink |-> IF k = l THEN "live"
                                     ELSE IF k \in loginRead[c].links THEN "used" ELSE links[k]]
    BY <1>1 DEF A!Create
  <2>2. links[l] = "none"
    BY <1>1 DEF A!Create
  <2>3. ASSUME NEW k \in ResetLink, links[k] = "used" PROVE links'[k] = "used"
    BY <2>1, <2>2, <2>3
  <2>4. /\ UNCHANGED <<lastStep, secret, recovery, made, spent, replayed, rearmed>>
        /\ A!Ends(c) /\ DOMAIN links' = ResetLink
    BY <1>1, <2>1 DEF A!Create, A!totp, A!past
  <2>5. CodesTyped'
    BY <2>4, EndsTyped DEF AccountsInv, CodesTyped
  <2>6. QED
    BY <2>3, <2>4, <2>5, LinksStay, NothingSpent
<1>2. ASSUME NEW l \in ResetLink, A!LinkExpires(l) PROVE AccountsInv'
  <2>1. /\ links[l] = "live" /\ links' = [links EXCEPT ![l] = "expired"]
        /\ UNCHANGED <<lastStep, secret, recovery, made, loginAt, loginRead, spent, replayed, rearmed>>
    BY <1>2 DEF A!LinkExpires, A!totp, A!past
  <2>2. CodesTyped'
    BY <2>1 DEF AccountsInv, CodesTyped
  <2>3. \A k \in ResetLink : links[k] = "used" => links'[k] = "used"
    BY <2>1 DEF AccountsInv, CodesTyped
  <2>4. QED
    BY <2>1, <2>2, <2>3, LinksStay, NothingSpent
<1>3. ASSUME NEW c \in Handler, A!ResetWrite(c) PROVE AccountsInv'
  <2>1. PICK l \in loginRead[c].links :
           IF A!Claims(l) THEN links' = [links EXCEPT ![l] = "used"] /\ A!Spends(l)
                          ELSE UNCHANGED <<links, spent, replayed>>
    BY <1>3 DEF A!ResetWrite
  <2>2. UNCHANGED <<lastStep, secret, recovery, made, rearmed>> /\ A!Ends(c)
    BY <1>3 DEF A!ResetWrite, A!totp
  <2>3. l \in ResetLink
    BY <2>1 DEF AccountsInv, CodesTyped
  <2>4. DOMAIN links' = ResetLink /\ \A k \in ResetLink : links[k] = "used" => links'[k] = "used"
    BY <2>1, <2>3, SMTT(30) DEF AccountsInv, CodesTyped
  <2>5. CodesTyped'
    BY <2>2, <2>4, EndsTyped DEF AccountsInv, CodesTyped
  <2>6. \A y \in spent : SpentOf(y)'
    BY <2>2, <2>4, LinksStay
  <2>7. CASE A!Claims(l)
    <3>1. links[l] # "used" /\ links'[l] = "used"
      BY <2>1, <2>3, <2>7 DEF A!Claims, A!Unused, AccountsInv, CodesTyped
    <3>2. l \notin spent
      BY <2>3, <3>1, CodesAreNoLinks DEF AccountsInv, SpentOf
    <3>3. SpentOf(l)'
      BY <2>3, <3>1 DEF SpentOf
    <3>4. QED
      BY <2>1, <2>2, <2>5, <2>6, <2>7, <3>2, <3>3, SpendsOnce
  <2>8. CASE ~A!Claims(l)
    BY <2>1, <2>2, <2>5, <2>6, <2>8, NothingSpent
  <2>9. QED
    BY <2>7, <2>8
<1>4. QED
  BY <1>1, <1>2, <1>3

(* What is written over is armed again, whatever step comes after. *)
LEMMA StepsWritten ==
    ASSUME AccountsInv, NEW step \in Nat, A!StepTo(step), UNCHANGED links, made <= made',
           made' \in Nat,
           \A s \in Nat : s <= made /\ s \notin recovery => s \notin recovery'
    PROVE  /\ \A y \in spent : SpentOf(y)'
           /\ rearmed \subseteq rearmed'
           /\ \A s \in Nat : <<s, step>> \in spent /\ step > 0 => s \in rearmed'
<1>1. rearmed' = rearmed \cup {x[1] : x \in A!Reopened(step)} /\ lastStep' = step
  BY DEF A!StepTo
<1>2. ASSUME NEW s \in Nat, NEW k \in Nat, <<s, k>> \in spent, k > 0, k >= step
      PROVE  s \in rearmed'
  <2>1. PICK x : x = <<s, k>>
    OBVIOUS
  <2>2. x \in A!Reopened(step) /\ x[1] = s
    BY <1>2, <2>1, CodesAreNoLinks DEF A!Reopened
  <2>3. QED
    BY <1>1, <2>2
<1>3. ASSUME NEW y \in spent PROVE SpentOf(y)'
  <2>1. CASE y \in ResetLink /\ links[y] = "used"
    BY <2>1 DEF SpentOf
  <2>2. CASE ~(y \in ResetLink /\ links[y] = "used")
    <3>1. PICK s \in Nat, k \in Nat :
             /\ y = <<s, k>>
             /\ k = 0 => s \notin recovery /\ s <= made
             /\ k > 0 => s \in rearmed \/ k <= lastStep
      BY <2>2 DEF AccountsInv, SpentOf
    <3>2. k = 0 => s \notin recovery' /\ s <= made'
      BY <3>1 DEF AccountsInv, CodesTyped
    <3>3. k > 0 => s \in rearmed' \/ k <= lastStep'
      BY <1>1, <1>2, <3>1
    <3>4. QED
      BY <3>1, <3>2, <3>3 DEF SpentOf
  <2>3. QED
    BY <2>1, <2>2
<1>4. QED
  BY <1>1, <1>2, <1>3

LEMMA CodeSteps ==
    ASSUME AccountsInv, NEW c \in Handler
    PROVE  /\ \A step \in 1..MaxStep : A!TotpCode(c, step) \/ A!Enable(c, step) => AccountsInv'
           /\ A!RecoveryCode(c) \/ A!Setup(c) \/ A!Disable(c) => AccountsInv'
<1> USE DEF A!user, A!past
<1>1. PICK s \in Nat : s = loginRead[c].secret
  BY DEF AccountsInv, CodesTyped
<1>2. ASSUME NEW step \in 1..MaxStep, A!TotpCode(c, step) PROVE AccountsInv'
  <2>1. step \in Nat /\ step > 0 /\ lastStep \in Nat
    BY AccountsAssumption DEF AccountsInv, CodesTyped
  <2>2. UNCHANGED <<links, secret, recovery, made, rearmed>>
    BY <1>2 DEF A!TotpCode
  <2>3. CASE A!Later(step)
    <3>1. lastStep' = step /\ A!Moves(c, "open") /\ A!Spends(<<s, step>>)
      BY <1>1, <1>2, <2>3 DEF A!TotpCode
    <3>2. lastStep < step
      BY <2>1, <2>3, SMTT(30) DEF A!Later
    <3>3. CodesTyped'
      BY <2>1, <2>2, <3>1, EndsTyped DEF AccountsInv, CodesTyped
    <3>4. ASSUME NEW y \in spent PROVE SpentOf(y)'
      BY <2>1, <2>2, <3>1, <3>2, <3>4 DEF AccountsInv, SpentOf
    <3>5. SpentOf(<<s, step>>)'
      BY <2>1, <3>1 DEF SpentOf
    <3>6. <<s, step>> \in spent => s \in rearmed
      BY <2>1, <3>2, CodesAreNoLinks DEF AccountsInv, SpentOf
    <3>7. QED
      BY <2>1, <2>2, <3>1, <3>3, <3>4, <3>5, <3>6, CodesAreNoLinks, SpendsOnce
  <2>4. CASE ~A!Later(step)
    <3>1. A!Ends(c) /\ UNCHANGED <<lastStep, spent, replayed>>
      BY <1>2, <2>4, SMTT(30) DEF A!TotpCode
    <3>2. CodesTyped'
      BY <2>2, <3>1, EndsTyped DEF AccountsInv, CodesTyped
    <3>3. QED
      BY <2>2, <3>1, <3>2, LinksStay, NothingSpent
  <2>5. QED
    BY <2>3, <2>4
<1>3. CASE A!RecoveryCode(c)
  <2>1. PICK r \in recovery : recovery' = recovery \ {r} /\ A!Spends(<<r, 0>>)
    BY <1>3 DEF A!RecoveryCode
  <2>2. UNCHANGED <<links, secret, lastStep, made, rearmed>> /\ A!Moves(c, "open")
    BY <1>3 DEF A!RecoveryCode
  <2>3. r \in Nat /\ r <= made
    BY DEF AccountsInv, CodesTyped
  <2>4. CodesTyped'
    BY <2>1, <2>2, EndsTyped DEF AccountsInv, CodesTyped
  <2>5. ASSUME NEW y \in spent PROVE SpentOf(y)'
    BY <2>1, <2>2, <2>5 DEF AccountsInv, SpentOf
  <2>6. SpentOf(<<r, 0>>)'
    BY <2>1, <2>2, <2>3 DEF SpentOf
  <2>7. <<r, 0>> \notin spent
    BY <2>3, CodesAreNoLinks DEF AccountsInv, SpentOf
  <2>8. QED
    BY <2>1, <2>2, <2>4, <2>5, <2>6, <2>7, SpendsOnce
<1>4. CASE A!Setup(c)
  <2>1. /\ made' = made + 1 /\ secret' = made + 1 /\ A!StepTo(0) /\ A!Ends(c)
        /\ UNCHANGED <<links, recovery, spent, replayed>>
    BY <1>4 DEF A!Setup
  <2>2. CodesTyped'
    BY <2>1, EndsTyped DEF AccountsInv, CodesTyped, A!StepTo
  <2>3. made <= made' /\ made' \in Nat
    BY <2>1 DEF AccountsInv, CodesTyped
  <2>4. QED
    BY <2>1, <2>2, <2>3, StepsWritten, NothingSpent
<1>5. CASE A!Disable(c)
  <2>1. /\ secret' = 0 /\ A!StepTo(0) /\ recovery' = {} /\ A!Ends(c)
        /\ UNCHANGED <<links, made, spent, replayed>>
    BY <1>5 DEF A!Disable
  <2>2. CodesTyped'
    BY <2>1, EndsTyped DEF AccountsInv, CodesTyped, A!StepTo
  <2>3. made <= made' /\ made' \in Nat
    BY <2>1 DEF AccountsInv, CodesTyped
  <2>4. QED
    BY <2>1, <2>2, <2>3, StepsWritten, NothingSpent
<1>6. ASSUME NEW step \in 1..MaxStep, A!Enable(c, step) PROVE AccountsInv'
  <2>1. /\ made' = made + 1 /\ recovery' = {made + 1} /\ A!StepTo(step) /\ A!Ends(c)
        /\ A!Spends(<<s, step>>) /\ UNCHANGED <<links, secret>>
    BY <1>1, <1>6 DEF A!Enable
  <2>2. step \in Nat /\ step > 0 /\ made \in Nat
    BY AccountsAssumption, SMTT(30) DEF AccountsInv, CodesTyped
  <2>3. CodesTyped'
    BY <2>1, <2>2, EndsTyped DEF AccountsInv, CodesTyped, A!StepTo
  <2>4. \A r \in Nat : r <= made /\ r \notin recovery => r \notin recovery'
    BY <2>1, <2>2
  <2>5. /\ \A y \in spent : SpentOf(y)'
        /\ rearmed \subseteq rearmed'
        /\ <<s, step>> \in spent => s \in rearmed'
    BY <2>1, <2>2, <2>4, StepsWritten
  <2>6. SpentOf(<<s, step>>)'
    BY <2>1, <2>2 DEF SpentOf, A!StepTo
  <2>7. QED
    BY <2>1, <2>2, <2>3, <2>5, <2>6, CodesAreNoLinks, SpendsOnce
<1>7. QED
  BY <1>2, <1>3, <1>4, <1>5, <1>6

LEMMA AccountsStep == AccountsInv /\ [A!Next]_A!vars => AccountsInv'
<1> SUFFICES ASSUME AccountsInv, [A!Next]_A!vars PROVE AccountsInv'
  OBVIOUS
<1>1. CASE A!SignOut \/ A!SetDisabled \/ A!Tick \/ UNCHANGED A!vars
  <2>1. UNCHANGED <<links, lastStep, secret, recovery, made, spent, replayed, rearmed,
                    loginAt, loginRead>>
    BY <1>1 DEF A!SignOut, A!SetDisabled, A!Tick, A!vars, A!totp, A!past
  <2>2. CodesTyped' /\ \A y \in spent : SpentOf(y)'
    BY <2>1 DEF AccountsInv, CodesTyped, SpentOf
  <2>3. QED
    BY <2>1, <2>2, NothingSpent
<1>2. QED
  BY <1>1, ReadingCalls, LinkSteps, CodeSteps DEF A!Next

LEMMA AccountsHold == A!Spec => []A!OneTimeSecrets
<1>1. A!Init => AccountsInv
  <2>1. A!Idle.links = {} /\ A!Idle.secret = 0
    BY DEF A!Idle
  <2>2. QED
    BY <2>1 DEF A!Init, AccountsInv, CodesTyped, A!OneTimeSecrets
<1>2. AccountsInv => A!OneTimeSecrets
  BY DEF AccountsInv
<1>3. QED
  BY <1>1, <1>2, AccountsStep, PTL DEF A!Spec

(* However many calls overlap: a reset link and a recovery code are accepted once, a code
   of the second factor until its step is written over; a request is approved with its
   account or not at all; an administrator remains; and a secret is read back. *)
THEOREM Admitting == Spec => []AccountsKept
<1>1. A!OneTimeSecrets /\ T!ApprovedHasAccount /\ T!AdminRemains /\ J!SecretReadBack
        => AccountsKept
  BY DEF AccountsKept
<1>2. QED
  BY <1>1, AccountsHold, TeamHolds, SecretsRead, PTL DEF Spec
-----------------------------------------------------------------------------
(* The secrets that calls have read, or that are spent, were made. *)
AccountsTyped ==
    /\ password \in 0..MaxPassword /\ now \in 1..MaxStep
    /\ links \in [ResetLink -> {"none", "live", "expired", "used"}]
    /\ secret \in 0..MaxSecret /\ made \in 0..MaxSecret /\ lastStep \in 0..MaxStep
    /\ recovery \subseteq 0..MaxSecret /\ rearmed \subseteq 0..MaxSecret
    /\ loginAt \in [Handler -> {"idle", "issue", "reset", "change", "code", "open", "setup", "enable"}]
    /\ DOMAIN loginRead = Handler
    /\ \A c \in Handler : loginRead[c].secret \in 0..MaxSecret /\ loginRead[c].links \subseteq ResetLink
    /\ \A x \in spent : x \in ResetLink \/ x[1] \in 0..MaxSecret

LEMMA LinkCallsTyped ==
    ASSUME AccountsTyped, NEW c \in Handler
    PROVE  /\ A!Supersede(c) \/ A!ResetWrite(c) \/ A!ChangeRead(c) \/ A!ChangeWrite(c)
                 => AccountsTyped'
           /\ \A l \in ResetLink : A!Create(c, l) \/ A!ResetRead(c, l) => AccountsTyped'
<1>1. A!Idle = [links |-> {}, password |-> 0, secret |-> 0, step |-> 0]
  BY DEF A!Idle
<1>2. A!Idle.secret = 0 /\ A!Idle.links = {}
  BY <1>1
<1>3. 0 \in 0..MaxSecret
  BY AccountsAssumption, SMTT(30)
<1>6. ASSUME A!Supersede(c) PROVE AccountsTyped'
  <2>1. PICK r : r = [A!Idle EXCEPT !.links = {l \in ResetLink : A!Unused(l)}]
    OBVIOUS
  <2>2. r.secret = 0 /\ r.links \subseteq ResetLink
    BY <1>1, <2>1
  <2>3. QED
    <3>1. /\ loginAt' = [loginAt EXCEPT ![c] = "issue"] /\ loginRead' = [loginRead EXCEPT ![c] = r]
          /\ UNCHANGED <<password, now, links, secret, made, lastStep, recovery, rearmed, spent>>
      BY <1>6, <2>1 DEF A!Supersede, A!Starts, A!user, A!totp, A!past
    <3>2. QED
      BY <1>3, <2>2, <3>1 DEF AccountsTyped
<1>7. ASSUME NEW l \in ResetLink, A!ResetRead(c, l) PROVE AccountsTyped'
  <2>1. PICK r : r = [A!Idle EXCEPT !.links = {l}]
    OBVIOUS
  <2>2. r.secret = 0 /\ r.links \subseteq ResetLink
    BY <1>1, <2>1, SMTT(30)
  <2>3. QED
    <3>1. /\ loginAt' = [loginAt EXCEPT ![c] = "reset"] /\ loginRead' = [loginRead EXCEPT ![c] = r]
          /\ UNCHANGED <<password, now, links, secret, made, lastStep, recovery, rearmed, spent>>
      BY <1>7, <2>1 DEF A!ResetRead, A!Starts, A!user, A!totp, A!past
    <3>2. QED
      BY <1>3, <2>2, <3>1 DEF AccountsTyped
<1>8. ASSUME A!ChangeRead(c) PROVE AccountsTyped'
  <2>1. PICK r : r = [A!Idle EXCEPT !.password = password]
    OBVIOUS
  <2>2. r.secret = 0 /\ r.links = {}
    BY <1>1, <2>1
  <2>3. QED
    <3>1. /\ loginAt' = [loginAt EXCEPT ![c] = "change"] /\ loginRead' = [loginRead EXCEPT ![c] = r]
          /\ UNCHANGED <<password, now, links, secret, made, lastStep, recovery, rearmed, spent>>
      BY <1>8, <2>1 DEF A!ChangeRead, A!Starts, A!user, A!totp, A!past
    <3>2. QED
      BY <1>3, <2>2, <3>1 DEF AccountsTyped
<1> USE AccountsAssumption DEF AccountsTyped, A!Ends, A!totp, A!past, A!user
<1>9. ASSUME A!ResetWrite(c) PROVE AccountsTyped'
  BY <1>2, <1>9 DEF A!ResetWrite, A!Spends
<1>10. ASSUME A!ChangeWrite(c) PROVE AccountsTyped'
  BY <1>2, <1>10, SMTT(30) DEF A!ChangeWrite
<1>11. ASSUME NEW l \in ResetLink, A!Create(c, l) PROVE AccountsTyped'
  BY <1>2, <1>11 DEF A!Create
<1> HIDE DEF AccountsTyped
<1>12. QED
  BY <1>6, <1>7, <1>8, <1>9, <1>10, <1>11

LEMMA CodeCallsTyped ==
    ASSUME AccountsTyped, NEW c \in Handler
    PROVE  /\ A!LoginRead(c) \/ A!RecoveryCode(c) \/ A!WrongCode(c) \/ A!OpenSession(c)
                 \/ A!Setup(c) \/ A!Disable(c) => AccountsTyped'
           /\ \A step \in 1..MaxStep : A!TotpCode(c, step) \/ A!Enable(c, step) => AccountsTyped'
           /\ \A p \in {"setup", "enable"} : A!MfaRead(c, p) => AccountsTyped'
<1>1. A!Idle = [links |-> {}, password |-> 0, secret |-> 0, step |-> 0]
  BY DEF A!Idle
<1>2. A!Idle.secret = 0 /\ A!Idle.links = {}
  BY <1>1
<1>3. 0 \in 0..MaxSecret /\ secret \in 0..MaxSecret
  BY AccountsAssumption DEF AccountsTyped
<1>5. ASSUME A!LoginRead(c) PROVE AccountsTyped'
  <2>1. PICK r : r = [A!Idle EXCEPT !.secret = secret, !.step = lastStep]
    OBVIOUS
  <2>2. r.secret = secret /\ r.links = {}
    BY <1>1, <2>1, SMTT(30)
  <2>3. CASE mfa
    <3>1. /\ loginAt' = [loginAt EXCEPT ![c] = "code"] /\ loginRead' = [loginRead EXCEPT ![c] = r]
          /\ UNCHANGED <<password, now, links, secret, made, lastStep, recovery, rearmed, spent>>
      BY <1>5, <2>1, <2>3 DEF A!LoginRead, A!Starts, A!user, A!totp, A!past
    <3>2. QED
      BY <1>3, <2>2, <3>1 DEF AccountsTyped
  <2>4. CASE ~mfa
    <3>1. /\ loginAt' = [loginAt EXCEPT ![c] = "open"] /\ loginRead' = [loginRead EXCEPT ![c] = A!Idle]
          /\ UNCHANGED <<password, now, links, secret, made, lastStep, recovery, rearmed, spent>>
      BY <1>5, <2>4, SMTT(30) DEF A!LoginRead, A!Starts, A!user, A!totp, A!past
    <3>2. QED
      BY <1>2, <1>3, <3>1 DEF AccountsTyped
  <2>5. QED
    BY <2>3, <2>4
<1>6. ASSUME NEW p \in {"setup", "enable"}, A!MfaRead(c, p) PROVE AccountsTyped'
  <2>1. PICK r : r = [A!Idle EXCEPT !.secret = secret]
    OBVIOUS
  <2>2. r.secret = secret /\ r.links = {}
    BY <1>1, <2>1
  <2>3. QED
    <3>1. /\ loginAt' = [loginAt EXCEPT ![c] = p] /\ loginRead' = [loginRead EXCEPT ![c] = r]
          /\ UNCHANGED <<password, now, links, secret, made, lastStep, recovery, rearmed, spent>>
      BY <1>6, <2>1 DEF A!MfaRead, A!Starts, A!user, A!totp, A!past
    <3>2. QED
      BY <1>3, <2>2, <3>1 DEF AccountsTyped
<1>7. ASSUME A!WrongCode(c) PROVE AccountsTyped'
  BY <1>2, <1>3, <1>7 DEF A!WrongCode, A!Ends, A!user, A!totp, A!past, AccountsTyped
<1> USE AccountsAssumption DEF AccountsTyped, A!Ends, A!Moves, A!totp, A!past, A!user, A!Spends
<1>8. ASSUME NEW step, step \in 0..MaxStep, A!StepTo(step)
      PROVE  lastStep' \in 0..MaxStep /\ rearmed' \subseteq 0..MaxSecret
  BY <1>8, ZenonT(40) DEF A!StepTo, A!Reopened
<1>9. ASSUME A!RecoveryCode(c) PROVE AccountsTyped'
  BY <1>9 DEF A!RecoveryCode
<1>10. ASSUME A!OpenSession(c) PROVE AccountsTyped'
  BY <1>2, <1>10 DEF A!OpenSession
<1>11. ASSUME A!Setup(c) PROVE AccountsTyped'
  BY <1>2, <1>8, <1>11 DEF A!Setup
<1>12. ASSUME A!Disable(c) PROVE AccountsTyped'
  BY <1>2, <1>8, <1>12 DEF A!Disable
<1>13. ASSUME NEW step \in 1..MaxStep, A!TotpCode(c, step) PROVE AccountsTyped'
  BY <1>2, <1>13 DEF A!TotpCode
<1>14. ASSUME NEW step \in 1..MaxStep, A!Enable(c, step) PROVE AccountsTyped'
  BY <1>2, <1>8, <1>14 DEF A!Enable
<1> HIDE DEF AccountsTyped
<1>15. QED
  BY <1>5, <1>6, <1>7, <1>9, <1>10, <1>11, <1>12, <1>13, <1>14

LEMMA SwitchesStay ==
    ASSUME disabled \in BOOLEAN, signedIn \in BOOLEAN, mfa \in BOOLEAN, [A!Next]_A!vars
    PROVE  disabled' \in BOOLEAN /\ signedIn' \in BOOLEAN /\ mfa' \in BOOLEAN
<1> USE DEF A!user, A!totp, A!past
<1>1. ASSUME NEW c, A!Supersede(c) \/ A!ResetWrite(c) \/ A!ChangeRead(c) \/ A!ChangeWrite(c)
      PROVE  disabled' \in BOOLEAN /\ signedIn' \in BOOLEAN /\ mfa' \in BOOLEAN
  BY <1>1, ZenonT(40) DEF A!Supersede, A!ResetWrite, A!ChangeRead, A!ChangeWrite
<1>2. ASSUME NEW c, NEW l, A!Create(c, l) \/ A!ResetRead(c, l) \/ A!LinkExpires(l)
      PROVE  disabled' \in BOOLEAN /\ signedIn' \in BOOLEAN /\ mfa' \in BOOLEAN
  BY <1>2, Zenon DEF A!Create, A!ResetRead, A!LinkExpires
<1>3. ASSUME NEW c, A!LoginRead(c) \/ A!RecoveryCode(c) \/ A!WrongCode(c) \/ A!OpenSession(c)
      PROVE  disabled' \in BOOLEAN /\ signedIn' \in BOOLEAN /\ mfa' \in BOOLEAN
  BY <1>3, Zenon DEF A!LoginRead, A!RecoveryCode, A!WrongCode, A!OpenSession
<1>4. ASSUME NEW c, NEW x, A!TotpCode(c, x) \/ A!Enable(c, x) \/ A!MfaRead(c, x)
      PROVE  disabled' \in BOOLEAN /\ signedIn' \in BOOLEAN /\ mfa' \in BOOLEAN
  BY <1>4, Zenon DEF A!TotpCode, A!Enable, A!MfaRead
<1>5. ASSUME NEW c, A!Setup(c) \/ A!Disable(c)
      PROVE  disabled' \in BOOLEAN /\ signedIn' \in BOOLEAN /\ mfa' \in BOOLEAN
  BY <1>5, ZenonT(40) DEF A!Setup, A!Disable
<1>6. CASE A!SignOut \/ A!SetDisabled \/ A!Tick \/ UNCHANGED A!vars
  BY <1>6, Zenon DEF A!SignOut, A!SetDisabled, A!Tick, A!vars
<1>7. QED
  BY <1>1, <1>2, <1>3, <1>4, <1>5, <1>6 DEF A!Next

LEMMA AccountsAreTyped == A!Spec => []A!TypeOK
<1> DEFINE Switches == disabled \in BOOLEAN /\ signedIn \in BOOLEAN /\ mfa \in BOOLEAN
<1>0. (A!Init => Switches) /\ (Switches /\ [A!Next]_A!vars => Switches')
  BY SwitchesStay, Zenon DEF A!Init
<1>1. A!Init => AccountsTyped
  <2>1. A!Idle.secret = 0 /\ A!Idle.links = {}
    BY SMTT(30) DEF A!Idle
  <2> HIDE DEF A!Idle
  <2>2. QED
    BY <2>1, AccountsAssumption DEF A!Init, AccountsTyped
<1>2. AccountsTyped /\ [A!Next]_A!vars => AccountsTyped'
  <2> SUFFICES ASSUME AccountsTyped, [A!Next]_A!vars PROVE AccountsTyped'
    OBVIOUS
  <2> USE AccountsAssumption DEF AccountsTyped, A!user, A!totp, A!past
  <2>1. ASSUME NEW l \in ResetLink, A!LinkExpires(l) PROVE AccountsTyped'
    BY <2>1 DEF A!LinkExpires
  <2>2. CASE A!SignOut
    BY <2>2 DEF A!SignOut
  <2>3. CASE A!SetDisabled
    BY <2>3 DEF A!SetDisabled
  <2>4. CASE A!Tick
    BY <2>4 DEF A!Tick
  <2>5. CASE UNCHANGED A!vars
    BY <2>5 DEF A!vars
  <2> HIDE DEF AccountsTyped
  <2>6. QED
    BY <2>1, <2>2, <2>3, <2>4, <2>5, LinkCallsTyped, CodeCallsTyped DEF A!Next
<1>3. AccountsTyped /\ Switches => A!TypeOK
  BY DEF AccountsTyped, A!TypeOK
<1>4. QED
  BY <1>0, <1>1, <1>2, <1>3, PTL DEF A!Spec
-----------------------------------------------------------------------------
LEMMA CampaignsAreTyped == C!Spec => []C!TypeOK
<1> DEFINE Rest == /\ status \in {"DRAFT", "ACTIVE", "PAUSED", "COMPLETE"}
                   /\ queued \in {"none", "queued", "approved", "canceled"}
                   /\ test \in {"DRAFT", "RUNNING", "STOPPED", "CONCLUDED"}
                   /\ rec \in {"none", "OPEN", "ACCEPTED", "REJECTED"}
                   /\ arm \in [Enrollment -> {"control", "variant", None}]
                   /\ \A c \in Editor : editAt[c] = "set" => editRead[c] \in {"RUNNING", "STOPPED"}
<1>1. C!Init => CampaignInv /\ Rest
  <2> SUFFICES ASSUME C!Init PROVE CampaignInv /\ Rest
    OBVIOUS
  <2>1. VersionsKept
    BY CampaignsAssumption DEF C!Init, VersionsKept, C!Content, C!NothingSaidIsLost,
       C!AcceptedWasApplied
  <2>2. EditorsInv /\ Rest
    BY DEF C!Init, EditorsInv
  <2>3. QED
    BY <2>1, <2>2 DEF CampaignInv
<1>2. CampaignInv /\ Rest /\ [C!Next]_C!vars => Rest'
  <2> SUFFICES ASSUME EditorsInv, Rest, [C!Next]_C!vars PROVE Rest'
    BY DEF CampaignInv
  <2> USE DEF EditorsInv, C!Goes, C!campaign, C!trial
  <2>1. ASSUME NEW new, C!Edit(new) PROVE Rest'
    BY <2>1 DEF C!Edit, C!Update
  <2>2. ASSUME NEW v, C!Rollback(v) PROVE Rest'
    BY <2>2 DEF C!Rollback, C!Update
  <2>3. ASSUME NEW s \in {"ACTIVE", "PAUSED", "COMPLETE"}, C!SetStatus(s) PROVE Rest'
    BY <2>3 DEF C!SetStatus
  <2>4. CASE C!Queue \/ C!Approve \/ C!Evaluate
    BY <2>4 DEF C!Queue, C!Approve, C!Evaluate
  <2>5. ASSUME NEW n \in Enrollment, NEW a \in {"control", "variant"}, C!Assign(n, a) PROVE Rest'
    BY <2>5 DEF C!Assign
  <2>6. ASSUME NEW c \in Editor, NEW s \in {"RUNNING", "STOPPED"}, C!SetRead(c, s) PROVE Rest'
    BY <2>6 DEF C!SetRead
  <2>7. ASSUME NEW c \in Editor, NEW p \in {"accept", "reject"}, C!Decide(c, p) PROVE Rest'
    BY <2>7 DEF C!Decide
  <2>8. ASSUME NEW c \in Editor, C!Apply(c) PROVE Rest'
    BY <2>8 DEF C!Apply, C!Update
  <2>9. ASSUME NEW c \in Editor, C!SetWrite(c) \/ C!Reject(c) \/ C!Conclude(c) PROVE Rest'
    BY <2>9, SMTT(30) DEF C!SetWrite, C!Reject, C!Conclude
  <2>10. ASSUME NEW c \in Editor, C!ApplyFails(c) \/ C!Undo(c) \/ C!Record(c) \/ C!Crash(c) PROVE Rest'
    BY <2>10 DEF C!ApplyFails, C!Undo, C!Record, C!Crash
  <2>11. CASE UNCHANGED C!vars
    BY <2>11 DEF C!vars
  <2> HIDE DEF Rest
  <2>12. QED
    BY <2>1, <2>2, <2>3, <2>4, <2>5, <2>6, <2>7, <2>8, <2>9, <2>10, <2>11 DEF C!Next
<1>3. CampaignInv /\ Rest => C!TypeOK
  BY DEF CampaignInv, VersionsKept, EditorsInv, C!TypeOK
<1>4. QED
  BY <1>1, <1>2, <1>3, CampaignStep, PTL DEF C!Spec
-----------------------------------------------------------------------------
LEMMA TeamIsTyped == T!Spec => []T!TypeOK
<1> DEFINE Rest == /\ mail \in [AccessRequest -> {"none", "sent", "failed"}]
                   /\ teamAt \in [Handler -> {"idle", "submit", "approve", "deliver", "invite",
                                              "accept", "switch"}]
<1>1. T!Init => Rest
  BY DEF T!Init
<1>2. Rest /\ [T!Next]_T!vars => Rest'
  <2> SUFFICES ASSUME Rest, [T!Next]_T!vars PROVE Rest'
    OBVIOUS
  <2> USE DEF T!Starts, T!Goes, T!Ends
  <2>1. ASSUME NEW c \in Handler, NEW e, NEW x, NEW y,
               T!Submit(c, e) \/ T!InviteRead(c, e, x) \/ T!Switch(c, x, e) \/ T!InviteWrite(c, y)
                  \/ T!Accept(c, y)
        PROVE  Rest'
    BY <2>1 DEF T!Submit, T!InviteRead, T!Switch, T!InviteWrite, T!Accept
  <2>2. ASSUME NEW c \in Handler, NEW r \in AccessRequest,
               T!SubmitWrite(c, r) \/ T!Approve(c, r) \/ T!Resend(c, r)
        PROVE  Rest'
    BY <2>2, SMTT(30) DEF T!SubmitWrite, T!Approve, T!Resend
  <2>3. ASSUME NEW c \in Handler,
               T!ApproveWrite(c) \/ T!AcceptWrite(c) \/ T!SwitchWrite(c) \/ T!Crash(c)
        PROVE  Rest'
    BY <2>3 DEF T!ApproveWrite, T!AcceptWrite, T!SwitchWrite, T!Crash
  <2>4. ASSUME NEW c \in Handler, NEW said \in {"sent", "failed"}, T!Deliver(c, said) PROVE Rest'
    BY <2>4 DEF T!Deliver
  <2>5. ASSUME NEW i, T!InviteEnds(i) PROVE Rest'
    BY <2>5 DEF T!InviteEnds
  <2>6. CASE UNCHANGED T!vars
    BY <2>6 DEF T!vars
  <2> HIDE DEF Rest
  <2>7. QED
    BY <2>1, <2>2, <2>3, <2>4, <2>5, <2>6 DEF T!Next
<1>3. TeamTyped /\ Rest => T!TypeOK
  BY DEF TeamTyped, T!TypeOK
<1>4. QED
  BY <1>1, <1>2, <1>3, TeamHolds, PTL DEF T!Spec
-----------------------------------------------------------------------------
LEMMA PrivacyIsTyped == P!Spec => []P!TypeOK
<1> DEFINE Rest == /\ restoring \subseteq ledger /\ listed \subseteq erased
                   /\ backups \in 0..MaxBackup
                   /\ mode = "live" => restoring = {}
       Complete == whole \in BOOLEAN
<1>1. P!Init => PrivacyInv /\ Rest
  <2>1. P!Init => PrivacyInv
    BY DEF P!Init, PrivacyInv, P!Unknown, P!Held, P!Waiting, HasText
  <2>2. P!Init => Rest
    BY PrivacyAssumption DEF P!Init
  <2>3. QED
    BY <2>1, <2>2
<1>2. PrivacyInv /\ Rest /\ [P!Next]_P!vars => Rest'
  <2> SUFFICES ASSUME PrivacyInv, Rest, [P!Next]_P!vars PROVE Rest'
    OBVIOUS
  <2> USE PrivacyAssumption DEF P!kept, P!Change
  <2>1. ASSUME NEW p \in Subject, P!Erase(p) \/ P!Discover(p) \/ P!Import(p) \/ P!Prepare(p) PROVE Rest'
    BY <2>1 DEF P!Erase, P!Discover, P!Import, P!Prepare
  <2>2. ASSUME NEW p \in Subject, NEW o, P!Deliver(p, o) \/ P!Reply(p) \/ P!Unsubscribe(p) PROVE Rest'
    BY <2>2 DEF P!Deliver, P!Reply, P!Unsubscribe
  <2>3. ASSUME NEW p \in Subject, P!Reapply(p) PROVE Rest'
    BY <2>3 DEF P!Reapply
  <2>4. CASE P!Dump \/ P!ExportLedger \/ P!Restore \/ P!Rerun \/ P!Promote
    BY <2>4 DEF P!Dump, P!ExportLedger, P!Restore, P!Rerun, P!Promote, PrivacyInv
  <2>5. CASE UNCHANGED P!vars
    BY <2>5 DEF P!vars
  <2>6. ASSUME NEW r, NEW s, P!Retention(r, s) PROVE Rest'
    BY <2>6 DEF P!Retention
  <2> HIDE DEF Rest
  <2>7. QED
    BY <2>1, <2>2, <2>3, <2>4, <2>5, <2>6 DEF P!Next
<1>3. (P!Init => Complete) /\ (Complete /\ [P!Next]_P!vars => Complete')
  BY Zenon DEF P!Init, P!Next, P!vars, P!Erase, P!Discover, P!Import, P!Prepare, P!Deliver, P!Reply,
     P!Unsubscribe, P!Reapply, P!Retention, P!Dump, P!ExportLedger, P!Restore, P!Rerun, P!Promote,
     P!Change, P!kept
<1>4. PrivacyInv /\ Rest /\ Complete => P!TypeOK
  BY DEF PrivacyInv, P!TypeOK
<1>5. QED
  BY <1>1, <1>2, <1>3, <1>4, PrivacyStep, PTL DEF P!Spec
-----------------------------------------------------------------------------
LEMMA LinksAreTyped == H!Spec => []H!TypeOK
<1> DEFINE Rest == /\ sessionKey \in H!KeyOf /\ dataKey \in H!KeyOf
                   /\ signingKey \in [Tenant -> H!KeyOf]
                   /\ \A m \in mails : /\ m.tenant \in Tenant /\ m.campaign \in MailCampaign
                                       /\ m.contact \in Recipient
                                       /\ m.leave.tenant = m.tenant /\ m.leave.contact = m.contact
                   /\ \A d \in posted : d.tenant \in Tenant /\ d.mail \in mails /\ d.late \in BOOLEAN
                   /\ suppressed \subseteq Tenant \X Recipient
                   /\ refused \subseteq mails
<1>1. H!Init => Rest
  BY LinksAssumption DEF H!Init, H!KeyOf
<1>2. Rest /\ [H!Next]_H!vars => Rest'
  <2> SUFFICES ASSUME Rest, [H!Next]_H!vars PROVE Rest'
    OBVIOUS
  <2> USE LinksAssumption DEF H!KeyOf
  <2>1. ASSUME NEW t \in Tenant, NEW c \in MailCampaign, NEW p \in Recipient, H!Send(t, c, p) PROVE Rest'
    BY <2>1 DEF H!Send, H!UnsubscribeToken, H!AttributionToken
  <2>2. ASSUME NEW m \in mails, H!Unsubscribe(m) PROVE Rest'
    BY <2>2 DEF H!Unsubscribe, H!ParseUnsubscribe
  <2>3. ASSUME NEW m \in mails, NEW t \in Tenant, NEW kept \in BOOLEAN, NEW over \in BOOLEAN,
               H!Post(t, m, kept, over)
        PROVE  Rest'
    BY <2>3 DEF H!Post
  <2>4. ASSUME NEW d \in posted, H!Deliver(d) PROVE Rest'
    BY <2>4 DEF H!Deliver
  <2>5. CASE H!Rotate
    BY <2>5 DEF H!Rotate
  <2>6. CASE UNCHANGED H!vars
    BY <2>6 DEF H!vars
  <2> HIDE DEF Rest
  <2>7. QED
    BY <2>1, <2>2, <2>3, <2>4, <2>5, <2>6 DEF H!Next
<1>3. Rest => H!TypeOK
  BY DEF H!TypeOK
<1>4. QED
  BY <1>1, <1>2, <1>3, PTL DEF H!Spec
-----------------------------------------------------------------------------
(* What a worker has found: all of it before it measures. *)
Finding == [spf : X!Auth, cached : BOOLEAN, bounced : BOOLEAN]

HealthInv ==
    /\ X!TypeOK
    /\ DOMAIN healthGot = HealthWorker
    /\ \A w \in HealthWorker : healthAt[w] # "idle" => healthGot[w] \in Finding

LEMMA HealthIsTyped == X!Spec => []X!TypeOK
<1> USE DEF X!Auth
<1>1. X!Init => HealthInv
  <2> SUFFICES ASSUME X!Init PROVE HealthInv
    OBVIOUS
  <2>1. profile \in [source : {"none", "internal", "external"},
                    status : {"none", "HEALTHY", "WATCHLIST", "BLOCKED"},
                    age : {"new", "hour", "stale"}, spf : X!Auth, looked : BOOLEAN]
    BY DEF X!Init
  <2>2. bounced \in BOOLEAN /\ spf \in {"pass", "fail"}
    BY ZenonT(40) DEF X!Init
  <2>3. /\ DOMAIN healthGot = HealthWorker
        /\ \A w \in HealthWorker : healthAt[w] = "idle" /\ healthGot[w] = None
        /\ healthAt \in [HealthWorker -> {"idle", "measure", "write"}]
    BY SMTT(30) DEF X!Init
  <2>4. QED
    BY <2>1, <2>2, <2>3 DEF HealthInv, X!TypeOK
<1>2. HealthInv /\ [X!Next]_X!vars => HealthInv'
  <2> SUFFICES ASSUME HealthInv, [X!Next]_X!vars PROVE HealthInv'
    OBVIOUS
  <2> USE DEF HealthInv, X!TypeOK
  <2>1. ASSUME NEW w \in HealthWorker, X!Look(w) PROVE HealthInv'
    BY <2>1 DEF X!Look, Finding
  <2>2. ASSUME NEW w \in HealthWorker, X!Measure(w) PROVE HealthInv'
    BY <2>2 DEF X!Measure, Finding
  <2>3. ASSUME NEW w \in HealthWorker, X!Write(w) PROVE HealthInv'
    BY <2>3 DEF X!Write, X!Decide, Finding
  <2>4. ASSUME NEW w \in HealthWorker, X!Stops(w) PROVE HealthInv'
    BY <2>4 DEF X!Stops
  <2>5. ASSUME NEW s \in {"HEALTHY", "WATCHLIST", "BLOCKED"}, X!External(s) PROVE HealthInv'
    BY <2>5, ZenonT(40) DEF X!External
  <2>6. CASE X!Complaint
    BY <2>6 DEF X!Complaint
  <2>7. CASE X!Bounce \/ X!Record
    BY <2>7 DEF X!Bounce, X!Record
  <2>8. CASE X!Ages \/ X!LookAges
    BY <2>8, ZenonT(40) DEF X!Ages, X!LookAges
  <2>9. CASE UNCHANGED X!vars
    BY <2>9 DEF X!vars
  <2>10. QED
    BY <2>1, <2>2, <2>3, <2>4, <2>5, <2>6, <2>7, <2>8, <2>9 DEF X!Next, X!Works
<1>3. HealthInv => X!TypeOK
  BY DEF HealthInv
<1>4. QED
  BY <1>1, <1>2, <1>3, PTL DEF X!Spec
-----------------------------------------------------------------------------
KeyPoint == {"idle", "load", "push", "call", "again", "answered", "refused"}

LEMMA CredentialsAreTyped == K!Spec => []K!TypeOK
<1> USE DEF K!TypeOK, K!Process, K!Keys, K!NoKeys, KeyPoint
<1>1. K!Init => K!TypeOK
  BY CredentialsAssumption, SMTT(30) DEF K!Init
<1>2. K!TypeOK /\ [K!Next]_K!vars => K!TypeOK'
  <2> SUFFICES ASSUME K!TypeOK, [K!Next]_K!vars PROVE K!TypeOK'
    OBVIOUS
  <2> USE CredentialsAssumption DEF K!Goes
  <2>1. ASSUME NEW a \in KeyAdmin, K!Save(a) PROVE K!TypeOK'
    <3>1. keySaved' \in K!Keys
      BY <2>1 DEF K!Save
    <3>2. keyStale' \in [KeyCaller -> BOOLEAN]
      BY <2>1 DEF K!Save
    <3>3. keyToken' \in {"known", "unknown", None}
      BY <2>1 DEF K!Save
    <3>4. keySaves' \in 0..MaxSave /\ keyAt' \in [K!Process -> KeyPoint]
      BY <2>1 DEF K!Save
    <3>5. QED
      BY <2>1, <3>1, <3>2, <3>3, <3>4 DEF K!Save
  <2>2. ASSUME NEW c \in KeyCaller, K!Begin(c) PROVE K!TypeOK'
    BY <2>2 DEF K!Begin
  <2>3. ASSUME NEW c \in KeyCaller, K!Call(c) PROVE K!TypeOK'
    <3>1. keyUsed' \in [KeyCaller -> VendorKey \cup {None}]
      BY <2>3, SMTT(30) DEF K!Call
    <3>2. keyFaults' \in 0..MaxKeyFault
      BY <2>3 DEF K!Call
    <3>3. K!Recovery(c) \in KeyPoint
      BY DEF K!Recovery
    <3>4. \E point \in KeyPoint : keyAt' = [keyAt EXCEPT ![c] = point]
      BY <2>3, <3>3 DEF K!Call
    <3>5. keyAt' \in [K!Process -> KeyPoint]
      BY <3>4
    <3>6. QED
      BY <2>3, <3>1, <3>2, <3>5 DEF K!Call
  <2>4. ASSUME NEW p \in K!Process, K!Load(p) PROVE K!TypeOK'
    BY <2>4 DEF K!Load
  <2>5. ASSUME NEW p \in K!Process, K!Push(p) PROVE K!TypeOK'
    BY <2>5 DEF K!Push
  <2>6. CASE K!Restart
    BY <2>6 DEF K!Restart
  <2>7. CASE UNCHANGED K!vars
    BY <2>7 DEF K!vars
  <2>8. QED
    BY <2>1, <2>2, <2>3, <2>4, <2>5, <2>6, <2>7 DEF K!Next
<1>3. QED
  BY <1>1, <1>2, PTL DEF K!Spec
-----------------------------------------------------------------------------
(* What fails is tried again a bounded number of times, and once it went well no more:
   a verification, an alert, and the requests to a model. *)
THEOREM Retrying == Spec => []RetriesBounded
  BY VerificationBounded, AlertsQuiet, ChatsBounded, PTL DEF Spec, RetriesBounded
-----------------------------------------------------------------------------
(* Every row, file and call of the components keeps its type, for every number of users,
   workers, rows and messages. *)
THEOREM Typing == Spec => []Typed
<1>1. Spec => [](A!TypeOK /\ T!TypeOK /\ C!TypeOK /\ P!TypeOK /\ H!TypeOK)
  BY AccountsAreTyped, TeamIsTyped, CampaignsAreTyped, PrivacyIsTyped, LinksAreTyped, PTL
     DEF Spec
<1>2. Spec => [](B!TypeOK /\ M!TypeOK /\ Y!M!TypeOK /\ Y!O!TypeOK)
  BY BookingsAreTyped, MailboxIsTyped, DeliveriesAreTyped, PTL DEF Spec
<1>3. Spec => [](G!TypeOK /\ R!TypeOK /\ L!TypeOK)
  BY GatewayHolds, VerificationIsTyped, AlertsAreTyped, PTL DEF Spec
<1>4. Spec => [](I!TypeOK /\ N!TypeOK /\ W!TypeOK)
  BY ChatsAreTyped, PlansAreTyped, BudgetsHold, PTL DEF Spec
<1>5. Spec => [](X!TypeOK /\ K!TypeOK /\ D!TypeOK)
  BY HealthIsTyped, CredentialsAreTyped, LeadsHold, PTL DEF Spec
<1>6. QED
  BY <1>1, <1>2, <1>3, <1>4, <1>5, PTL DEF Typed
=============================================================================
