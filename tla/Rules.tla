-------------------------------- MODULE Rules --------------------------------
(***************************************************************************)
(* The rules the system decides by, each a function of its input alone:    *)
(* when a follow-up is due (lib/policy.ts), what a reply means             *)
(* (lib/replies.ts), whether a sender may send (lib/senderHealth.ts) and   *)
(* how a stored configuration is read (lib/workspaceConfig.ts).  A         *)
(* behaviour asks one question.                                            *)
(***************************************************************************)
EXTENDS Integers, Sequences, FiniteSets

CONSTANTS Hours,      \* the hours of a local clock that are tried
          Offsets,    \* offsets of a time zone before its clock changes
          Days,       \* the days around holidays
          Sent, Bounces, Complaints, Ages   \* what a sender may have sent and got back
                                            \* in 30 days, and how many days old it is

VARIABLE question

Silence == [about |-> "nothing"]

Init == question = Silence

Ask(q) == question' = q
-----------------------------------------------------------------------------
(* Dates.  Day 0 is a Monday. *)
BusinessDay(d, holidays) == d % 7 \notin {5, 6} /\ d \notin holidays

(* Mutant: a holiday is a day like any other. *)
Counts_Holidays(d, holidays) == d % 7 \notin {5, 6}

(* A day that shortens the wait. *)
Counts(d, holidays) == BusinessDay(d, holidays)

(* addBusinessDays: from is the day of the event in the campaign's zone. *)
AddBusinessDays(from, days, holidays) ==
    LET walk[at \in Nat \X Nat] ==
          LET morrow == at[1] + 1 IN
          IF at[2] = 0 THEN at[1]
          ELSE walk[<<morrow, IF Counts(morrow, holidays) THEN at[2] - 1 ELSE at[2]>>]
    IN  walk[<<from, days>>]

(* followUpDueAt: the test override counts minutes and takes no day. *)
DueDay(q) == IF q.qa THEN q.from ELSE AddBusinessDays(q.from, q.days, q.holidays)

AskDue ==
    \E from \in Days, days \in 0..4, holidays \in SUBSET Days, qa \in BOOLEAN :
        Ask([about |-> "due", from |-> from, days |-> days, holidays |-> holidays, qa |-> qa])

(* A wait of n business days ends on a business day with n of them behind it: weekends
   and holidays, in any arrangement, neither count nor receive a message (policy.ts:100). *)
DueAfterTheWait ==
    question.about = "due" /\ ~ question.qa /\ question.days > 0 =>
        LET due == DueDay(question) IN
        /\ BusinessDay(due, question.holidays)
        /\ Cardinality({d \in question.from + 1..due : BusinessDay(d, question.holidays)})
             = question.days
-----------------------------------------------------------------------------
(* Clocks.  A zone is before hours ahead of UTC until the hour change, then after. *)
Local(t, zone) == t + (IF t < zone.change THEN zone.before ELSE zone.after)

(* fromLocalDateTime: four corrections by what the zone shows; there is nothing to correct
   once it shows the desired hour. *)
FromLocal(desired, zone) ==
    LET corrected(t) == t + (desired - Local(t, zone))
    IN  corrected(corrected(corrected(corrected(desired))))

AskClock ==
    \E desired, change \in Hours, before \in Offsets, shift \in {-1, 1} :
        Ask([about |-> "clock", desired |-> desired,
             zone |-> [change |-> change, before |-> before, after |-> before + shift]])

(* A follow-up keeps the local hour of the message before it across a change of the
   clock; an hour the clock leaves out becomes one beside it (policy.ts:39). *)
SameLocalHour ==
    question.about = "clock" =>
        LET q == question
            got == Local(FromLocal(q.desired, q.zone), q.zone) IN
        IF \E t \in q.desired - 24..q.desired + 24 : Local(t, q.zone) = q.desired
        THEN got = q.desired
        ELSE got \in {q.desired - 1, q.desired + 1}
-----------------------------------------------------------------------------
(* Replies.  The patterns in the order they are tried, and what each one decides. *)
Patterns == << <<"negative", "NEGATIVE">>, <<"delivery", "UNSURE">>,
               <<"office", "OUT_OF_OFFICE">>, <<"injection", "UNSURE">>,
               <<"referral", "UNSURE">>, <<"existing", "UNSURE">>,
               <<"topic", "OBJECTION">>, <<"hedge", "UNSURE">>, <<"mark", "OBJECTION">>,
               <<"positive", "POSITIVE">> >>

Signs == {Patterns[k][1] : k \in DOMAIN Patterns} \union {"long"}

(* classifyReplyDetailed, for the patterns a text contains. *)
Classify(signs) ==
    LET hits == {k \in DOMAIN Patterns : Patterns[k][1] \in signs}
        first == CHOOSE k \in hits : \A j \in hits : k <= j
    IN  IF hits = {} \/ (Patterns[first][1] = "positive" /\ "long" \in signs) THEN "UNSURE"
        ELSE Patterns[first][2]

(* analyseReply: the rules stop a draft, and so does the model. *)
Drafted(signs, model) == Classify(signs) # "NEGATIVE" /\ model # "NEGATIVE"

AskReply == \E signs \in SUBSET Signs, model \in {"POSITIVE", "NEGATIVE"} :
                Ask([about |-> "reply", signs |-> signs, model |-> model])

(* An invitation follows only a short, unhedged, unambiguous yes, and no answer is
   drafted to anybody who asked to stop, whatever the model says (replies.ts:7). *)
YesMeansYes ==
    question.about = "reply" =>
        /\ Classify(question.signs) = "POSITIVE" <=> question.signs = {"positive"}
        /\ "negative" \in question.signs => ~ Drafted(question.signs, question.model)
-----------------------------------------------------------------------------
(* Senders. *)
Ramp == << <<0, 10>>, <<3, 20>>, <<7, 30>>, <<14, 50>>, <<28, 100>>, <<42, 150>>, <<60, 250>> >>

RampCap(age) ==
    LET reached == {k \in DOMAIN Ramp : age >= Ramp[k][1]}
    IN  Ramp[CHOOSE k \in reached : \A j \in reached : j <= k][2]

Halved(cap) == IF cap \div 2 > 5 THEN cap \div 2 ELSE 5

(* decideHealth: the cap, zero for a sender that may not send. *)
HealthCap(h) ==
    IF \/ h.complaints >= 1 /\ (h.sent < 1000 \/ h.complaints * 1000 >= h.sent)
       \/ h.sent >= 20 /\ h.bounces * 20 >= h.sent
       \/ h.sent < 20 /\ h.bounces >= 3
       \/ ~ h.dns
    THEN 0
    ELSE IF h.sent >= 20 /\ h.bounces * 50 >= h.sent THEN Halved(RampCap(h.age))
    ELSE RampCap(h.age)

AskHealth ==
    \E sent \in Sent, bounces \in Bounces, complaints \in Complaints, dns \in BOOLEAN,
       age \in Ages :
        Ask([about |-> "health", sent |-> sent, bounces |-> bounces,
             complaints |-> complaints, dns |-> dns, age |-> age])

(* One bounce or complaint more, or a younger sender, never gets a higher cap
   (senderHealth.ts:49). *)
WorseIsNotBetter ==
    question.about = "health" =>
        LET q == question
            cap == HealthCap(q) IN
        /\ HealthCap([q EXCEPT !.bounces = @ + 1]) <= cap
        /\ HealthCap([q EXCEPT !.complaints = @ + 1]) <= cap
        /\ \A age \in 0..q.age : HealthCap([q EXCEPT !.age = age]) <= cap

(* Refuted at 20 messages with one bounce: with 19 the small sample is forgiven. *)
GoodSendsDoNotBlock ==
    question.about = "health" =>
        (HealthCap(question) > 0 => HealthCap([question EXCEPT !.sent = @ + 1]) > 0)
-----------------------------------------------------------------------------
(* Configurations: rules with an id, the names left out. *)
SystemRules == <<[id |-> "sys_a", system |-> TRUE, enabled |-> TRUE],
                 [id |-> "sys_b", system |-> TRUE, enabled |-> TRUE]>>

Rule == [id : {"sys_a", "sys_b", "sys_c", "own"}, system : BOOLEAN, enabled : BOOLEAN]

(* The rules of one's own, in their order. *)
Custom(incoming) ==
    LET upTo[k \in 0..Len(incoming)] ==
          IF k = 0 THEN <<>>
          ELSE IF ~ incoming[k].system /\ incoming[k].id = "own"
               THEN Append(upTo[k - 1], incoming[k])
               ELSE upTo[k - 1]
    IN  upTo[Len(incoming)]

(* mergeConfig: system rules keep everything but their switch, whoever claims their id. *)
Merge(incoming) ==
    LET found(id) == {k \in DOMAIN incoming : incoming[k].id = id}
        first(id) == CHOOSE k \in found(id) : \A j \in found(id) : k <= j
    IN  [k \in DOMAIN SystemRules |->
            IF found(SystemRules[k].id) = {} THEN SystemRules[k]
            ELSE [SystemRules[k] EXCEPT !.enabled = incoming[first(SystemRules[k].id)].enabled]]
        \o Custom(incoming)

AskConfig == \E n \in 0..3 : \E incoming \in [1..n -> Rule] :
                 Ask([about |-> "config", rules |-> incoming])

(* What is saved is what is read: merging again changes nothing, system rules are there
   once, and nobody's rule takes their id (workspaceConfig.ts:66). *)
ConfigSettles ==
    question.about = "config" =>
        LET m == Merge(question.rules) IN
        /\ Merge(m) = m
        /\ \A k \in DOMAIN SystemRules :
             Cardinality({j \in DOMAIN m : m[j].id = SystemRules[k].id}) = 1
        /\ \A j \in DOMAIN m : m[j].id = "own" \/ \E k \in DOMAIN SystemRules :
                                                      m[j].id = SystemRules[k].id

Next ==
    /\ question = Silence
    /\ AskDue \/ AskClock \/ AskReply \/ AskHealth \/ AskConfig

Spec == Init /\ [][Next]_question
=============================================================================
