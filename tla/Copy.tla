-------------------------------- MODULE Copy ---------------------------------
(***************************************************************************)
(* The text of a message, from the template of a campaign                  *)
(* (lib/validation.ts, lib/template.ts) through its rendering with a       *)
(* contact's values and its footer (lib/outreachContent.ts) to what the    *)
(* mail adapter takes (lib/m365/graph.ts).  A text is a sequence of        *)
(* pieces.  As in Rules a behaviour asks one question.                     *)
(***************************************************************************)
EXTENDS Naturals, Sequences, FiniteSets, SequencesExt

CONSTANTS MaxPieces,   \* bound on the template of a body
          None

VARIABLE question

Init == question = None

(* "open" is an opening brace with the name of a variable and "shut" the closing one,
   "coupon" a whole placeholder of a name that is none; "line" and "anchor" are an
   author's own unsubscribe line and link, "footer" is the one that is added. *)
Piece == {"words", "space", "tag", "close", "line", "anchor", "open", "shut", "coupon"}

Value == {<<>>, <<"words">>, <<"tag", "words">>}
-----------------------------------------------------------------------------
Paired(t, k) == k < Len(t) /\ t[k] = "open" /\ t[k + 1] = "shut"

InPlaceholder(t, k) == Paired(t, k) \/ (k > 1 /\ Paired(t, k - 1))

(* templateIssue *)
TemplateIssue(t) ==
    \E k \in DOMAIN t : t[k] = "coupon" \/ (t[k] \in {"open", "shut"} /\ ~ InPlaceholder(t, k))

(* campaignInput, of one step: the two templates are looked at as one text. *)
Accepted(subject, body) ==
    /\ \E k \in DOMAIN subject : subject[k] # "space"
    /\ body # <<>> /\ ~ TemplateIssue(subject \o body)

(* renderTemplate, of a template without an issue *)
Filled(t, value) ==
    FlattenSeq([k \in DOMAIN t |-> IF Paired(t, k) THEN value
                                   ELSE IF InPlaceholder(t, k) THEN <<>> ELSE <<t[k]>>])

(* escapeHtml *)
Escaped(value) == [k \in DOMAIN value |-> IF value[k] = "tag" THEN "escaped" ELSE value[k]]

HasAny(t, pieces) == \E k \in DOMAIN t : t[k] \in pieces

(* emailBodyContentType *)
IsHtml(t) == HasAny(t, {"tag", "anchor"})

(* hasVisibleText *)
Visible(t) == HasAny(t, {"words", "escaped", "line", "anchor", "footer", "open", "shut",
                           "coupon"})

(* addFooter *)
WithFooter(t, html) ==
    IF HasAny(t, {"line", "anchor", "footer"}) THEN t
    ELSE IF html /\ HasAny(t, {"close"})
    THEN LET k == SelectInSeq(t, LAMBDA piece : piece = "close") IN InsertAt(t, k, "footer")
    ELSE Append(t, "footer")

(* renderOutreachContent: stored is a text written before, or None. *)
Render(stored, template, value, address) ==
    LET html    == IsHtml(IF stored # None THEN stored.body ELSE template.body)
        filled  == IF html THEN Escaped(value) ELSE value
        subject == IF stored # None THEN stored.subject ELSE Filled(template.subject, value)
        content == IF stored # None THEN stored.body ELSE Filled(template.body, filled)
    IN  IF stored = None /\ (TemplateIssue(template.subject) \/ TemplateIssue(template.body))
        THEN [failed |-> "unknown_template_variable"]
        ELSE IF ~ HasAny(subject, Piece \ {"space"}) THEN [failed |-> "mail_subject_blank"]
        ELSE IF ~ Visible(content) THEN [failed |-> "mail_body_effectively_empty"]
        ELSE IF ~ address THEN [failed |-> "postal_address_missing"]
        ELSE [failed |-> None, subject |-> subject, body |-> WithFooter(content, html),
              html |-> html]

(* mailInput, lengths left out *)
MailInput(mail) == Visible(mail.body) /\ HasAny(mail.subject, Piece \ {"space"})

(* reviewContent, which the approval repeats: a message without a contact's address or a
   workspace without a postal one is refused, the rest is rendered as for the mail. *)
Review(reachable, stored, template, value, address) ==
    IF ~ reachable THEN [failed |-> "review_message_unavailable"]
    ELSE IF ~ address THEN [failed |-> "postal_address_missing"]
    ELSE Render(stored, template, value, address)
-----------------------------------------------------------------------------
AskMail ==
    /\ question = None
    /\ \E subject \in {<<"space">>, <<"words">>, <<"open">>, <<"open", "shut">>},
          body \in BoundedSeq(Piece, MaxPieces), value \in Value,
          address, reachable \in BOOLEAN :
         /\ Accepted(subject, body)
         /\ LET template == [subject |-> subject, body |-> body] IN
            question' = [template |-> template, value |-> value,
                         mail |-> Render(None, template, value, address),
                         review |-> Review(reachable, None, template, value, address)]

Next == AskMail

Spec == Init /\ [][Next]_question

Mail == question.mail
Written == question # None /\ Mail.failed = None
-----------------------------------------------------------------------------
(* The text an administrator approved is the text of the mail, and stays it: rendered
   again at every attempt it has no second footer and no value filled in twice
   (outreachContent.ts:19). *)
RenderedOnce ==
    Written =>
        LET again == Render([subject |-> Mail.subject, body |-> Mail.body],
                            question.template, question.value, TRUE)
        IN  /\ again.failed = None
            /\ again.subject = Mail.subject /\ again.body = Mail.body
            /\ question.review.failed = None => question.review = Mail

Tags(t) == Cardinality({k \in DOMAIN t : t[k] = "tag"})

(* Every text that is rendered is one the adapter takes, with no placeholder left and no
   markup but the author's own when it is HTML (outreachContent.ts:30). *)
FitToSend ==
    Written =>
        /\ MailInput(Mail)
        /\ ~ HasAny(Mail.body \o Mail.subject, {"open", "shut", "coupon"})
        /\ Mail.html => Tags(Mail.body) = Tags(question.template.body)

(* Refuted: a placeholder that begins in the subject and ends in the body is accepted as a
   whole (validation.ts:46) and fails in every rendering. *)
AcceptedRenders == question # None => Mail.failed # "unknown_template_variable"

(* Refuted: a plain text with markup in a contact's value is HTML from its second rendering
   on (outreachContent.ts:29). *)
TypeKept ==
    Written => Render([subject |-> Mail.subject, body |-> Mail.body],
                      question.template, question.value, TRUE).html = Mail.html

(* Refuted: an author's own unsubscribe line takes the place of the link, which is then in
   the header of the mail alone (outreachContent.ts:19). *)
LinkInEveryMail == Written => HasAny(Mail.body, {"footer"})
=============================================================================
