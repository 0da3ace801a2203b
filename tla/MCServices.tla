----------------------------- MODULE MCServices ------------------------------
(***************************************************************************)
(* The components around the queue, each on a small instance.  They keep   *)
(* their state in different rows and files, so that a run looks at one of  *)
(* them at a time: focus says which one moves, the others stay in their    *)
(* initial states.  Of Plans and of Links one half moves at a time; their  *)
(* halves share the plan and the messages alone.                           *)
(***************************************************************************)
EXTENDS Services, TLC

CONSTANTS w1, w2,        \* workers
          u1, u2,        \* calls and people in progress
          a1, a2,        \* addresses of people
          k1, k2,        \* keys
          c1, c2, c3, c4 \* campaigns

MCTexts     == {<<1>>, <<1, 2>>, <<3, 2>>, <<3>>}
MCOriginal  == <<1, 2>>
MCKind      == <<"reply", "notice">>
MCSenderOf  == c1 :> 1 @@ c2 :> 2 @@ c3 :> 3 @@ c4 :> 1

Free     == [campaigns |-> 1, senders |-> 1, emails |-> 1, prospects |-> 2, experiments |-> 0]
Starter  == [campaigns |-> 2, senders |-> 1, emails |-> 99, prospects |-> 99, experiments |-> 1]
MCLimits == [FREE |-> Free, STARTER |-> Starter]

VARIABLE focus           \* rigid

Marks     == {"comma", "quote", "newline", "letter"}
MCCompany == {<<>>, <<"letter">>} \cup {<<x, y>> : x \in Marks, y \in Marks}
MCEmail   == {<<>>, <<"letter">>, <<"newline", "quote">>}

(* Questions. *)
MCSent    == {0, 1, 19, 20, 21, 59, 60, 61, 100, 101, 999, 1000, 1001, 1999, 2000}
MCHours   == 0..12
MCOffsets == {0 - 8, 0, 9}

MCWord     == {"CTO", "cto", "chief technology officer", "tech lead", "ceo"}
MCKey      == [x \in MCWord |-> IF x = "CTO" THEN "cto" ELSE x]
Keys       == MCWord \ {"CTO"}
MCGroup    == [k \in Keys |-> CASE k = "tech lead" -> None
                                 [] k = "ceo"       -> "chief executive"
                                 [] OTHER           -> "chief technology"]
MCTaxonomy == [k \in Keys |-> IF k = "tech lead" THEN "cto" ELSE None]
MCMeans    == [x \in MCWord |-> IF x = "ceo" THEN "business" ELSE "technology"]
MCBand     == ("1-10" :> [min |-> 1, max |-> 10]) @@ ("10-20" :> [min |-> 10, max |-> 20])
              @@ ("10" :> None)
MCWaits    == {0 - 2, 0, 2016, 2017}

MCInit ==
    /\ focus \in {"accounts", "team", "campaigns", "bookings", "mailbox", "gateway",
                  "verification", "alerts", "health", "credentials", "privacy", "chats",
                  "leads", "plans", "usage", "budgets", "urls", "leaving", "deliveries", "rules",
                  "persons", "probes", "texts", "gates", "secrets"}
    /\ A!Init /\ T!Init /\ C!Init /\ B!Init /\ M!Init
    /\ G!Init /\ R!Init /\ L!Init /\ X!Init /\ K!Init
    /\ P!Init /\ I!Init /\ D!Init /\ N!Init /\ W!Init /\ H!Init /\ Y!Init
    /\ U!Init /\ V!Init /\ Z!Init /\ E!Init /\ F!Init /\ J!Init
    /\ usable \/ focus = "chats"   \* an initial state for each of the other components

MCNext ==
    /\ UNCHANGED focus
    /\ IF focus = "accounts"     THEN A!Next ELSE UNCHANGED accounts
    /\ IF focus = "team"         THEN T!Next ELSE UNCHANGED team
    /\ IF focus = "campaigns"    THEN C!Next ELSE UNCHANGED campaigns
    /\ IF focus = "bookings"     THEN B!Next ELSE UNCHANGED bookings
    /\ IF focus = "mailbox"      THEN M!Next ELSE UNCHANGED mailbox
    /\ IF focus = "gateway"      THEN G!Next ELSE UNCHANGED gateway
    /\ IF focus = "verification" THEN R!Next ELSE UNCHANGED verification
    /\ IF focus = "alerts"       THEN L!Next ELSE UNCHANGED alerts
    /\ IF focus = "health"       THEN X!Next ELSE UNCHANGED health
    /\ IF focus = "credentials"  THEN K!Next ELSE UNCHANGED credentials
    /\ IF focus = "privacy"      THEN P!Next ELSE UNCHANGED privacy
    /\ IF focus = "chats"        THEN I!Next ELSE UNCHANGED chats
    /\ IF focus = "leads"        THEN D!Next ELSE UNCHANGED leads
    /\ IF focus \in {"plans", "usage"}  THEN N!Next ELSE UNCHANGED plans
    /\ IF focus = "budgets"      THEN W!Next ELSE UNCHANGED budgets
    /\ IF focus \in {"urls", "leaving"} THEN H!Next ELSE UNCHANGED urls
    /\ IF focus = "deliveries"   THEN Y!Next ELSE UNCHANGED deliveries
    /\ IF focus = "rules"        THEN U!Next ELSE UNCHANGED ruleAsked
    /\ IF focus = "persons"      THEN V!Next ELSE UNCHANGED personAsked
    /\ IF focus = "probes"       THEN Z!Next ELSE UNCHANGED probeAsked
    /\ IF focus = "texts"        THEN E!Next ELSE UNCHANGED mailAsked
    /\ IF focus = "gates"        THEN F!Next ELSE UNCHANGED gateAsked
    /\ IF focus = "secrets"      THEN J!Next ELSE UNCHANGED secretAsked
    /\ focus = "plans"   => UNCHANGED <<emails, sending, reserved>>
    /\ focus = "usage"   => UNCHANGED <<active, experiment, granted>>
    /\ focus = "urls"    => UNCHANGED <<sessionKey, suppressed, refused>>
    /\ focus = "leaving" => UNCHANGED <<dataKey, signingKey, posted, credited>>

MCvars == <<focus, accounts, team, campaigns, bookings, mailbox, gateway, verification, alerts,
          health, credentials, privacy, chats, leads, plans, budgets, urls, deliveries,
          rules, texts>>

MCSpec == MCInit /\ [][MCNext]_MCvars
=============================================================================
