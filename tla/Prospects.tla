------------------------------ MODULE Prospects ------------------------------
(***************************************************************************)
(* From a vendor's person to a prospect that qualifies: the gateway        *)
(* translates the vendor's values into the words of the ideal customer     *)
(* profile (gateway/normalize, discover, hunter), or makes up dummies of   *)
(* it (dummyDiscover), and the worker compares word by word                *)
(* (qualifyProspect).  A word is a spelling; key gives it without case and *)
(* blanks, and what it means is given apart from the tables that translate *)
(* it.  As in Rules a behaviour asks one question.                         *)
(***************************************************************************)
EXTENDS Integers, Sequences, TLC

CONSTANTS
    Word,     \* spellings of titles, industries and countries
    Key,      \* a spelling without case and blanks
    Group,    \* TITLE_GROUPS and COUNTRY_GROUPS: a key's group, or None
    Taxonomy, \* the operator's file: a key's translation, or None
    Means,    \* what a spelling stands for
    Band,     \* sizes a profile may name: spelling -> [min, max], or None
    Heads, Waits, MinScores,   \* what is asked of: head counts, times between discovery and
                               \* worker in units of five minutes, scores a profile asks for
    None

(* What is asked of the operator's tables: what they equate means the same. *)
TablesAgree ==
    \A x, y \in Word :
        \/ Key[x] = Key[y]
        \/ Group[Key[x]] = Group[Key[y]] /\ Group[Key[x]] # None
        \/ Taxonomy[Key[x]] = Key[y]
        => Means[x] = Means[y]

VARIABLE question

Init == question = None

-----------------------------------------------------------------------------
(* The first member of a list that satisfies a condition, or otherwise. *)
First(list, good, otherwise) ==
    LET i == {n \in 1..Len(list) : list[n] \in good}
    IN  IF i = {} THEN otherwise ELSE list[CHOOSE n \in i : \A m \in i : n <= m]

Spelled(word) == {x \in Word : Key[x] = Key[word]}

Grouped(word) == {x \in Word : Group[Key[word]] # None /\ Group[Key[x]] = Group[Key[word]]}

Mapped(word) == {x \in Word : Taxonomy[Key[word]] = Key[x]}

(* geographyFor, titleFor and industryFor: the profile's own word, or the vendor's. *)
GeographyFor(word, list) == First(list, Spelled(word), First(list, Grouped(word), word))

TitleFor(word, list) ==
    First(list, Spelled(word), First(list, Mapped(word), First(list, Grouped(word), word)))

IndustryFor(word, list) == First(list, Spelled(word), First(list, Mapped(word), word))

(* titleFor's matched. *)
TitleMatched(word, list) ==
    \E i \in 1..Len(list) : list[i] \in Spelled(word) \cup Mapped(word) \cup Grouped(word)

(* sizeBandFor. *)
Within(n) == {b \in DOMAIN Band : Band[b] # None /\ n >= Band[b].min /\ n <= Band[b].max}

SizeBandFor(n, list) == First(list, Within(n), ToString(n))

-----------------------------------------------------------------------------
(* mapHunterStatus. *)
HunterVerdict(m) ==
    CASE m.status = "valid" ->
             (CASE m.result = "risky"         -> "RISKY"
                [] m.result = "undeliverable" -> "INVALID"
                [] OTHER                      -> "VALID")
      [] m.status \in {"invalid", "disposable"} -> "INVALID"
      [] m.status \in {"accept_all", "webmail"} -> "RISKY"
      [] OTHER -> "UNKNOWN"

(* verify's answer, and apolloMailbox while no Hunter key is saved. *)
Verdict(m) ==
    IF ~m.hunter THEN IF m.apollo = "verified" THEN "VALID" ELSE "RISKY"
    ELSE CASE m.http \in {"202", "222"} -> "UNKNOWN"
           [] m.http \in {"400", "451"} -> "INVALID"
           [] OTHER -> HunterVerdict(m)

(* What discover returns of a person found by a search for the profile's signal, or None. *)
Found(p, icp) ==
    IF ~TitleMatched(p.title, icp.titles) \/ Verdict(p.mailbox) # "VALID" THEN None
    ELSE [title |-> TitleFor(p.title, icp.titles),
          industry |-> IndustryFor(p.industry, icp.industries),
          size |-> SizeBandFor(p.employees, icp.sizes),
          geography |-> GeographyFor(p.country, icp.geographies),
          technologies |-> p.technologies \cap icp.technologies,
          signals |-> {icp.signal}, names |-> p.names, age |-> 0]

(* discoverDummy, one of the configured addresses. *)
Dummy(p, icp) ==
    IF p.names \cap icp.exclusions \cap {"domain"} # {} THEN None
    ELSE [title |-> icp.titles[1], industry |-> icp.industries[1], size |-> icp.sizes[1],
          geography |-> icp.geographies[1], technologies |-> icp.technologies,
          signals |-> {icp.signal}, names |-> p.names, age |-> 0]

-----------------------------------------------------------------------------
KeyOf(x) == IF x \in Word THEN Key[x] ELSE x

Has(list, x) == \E i \in 1..Len(list) : KeyOf(list[i]) = KeyOf(x)

(* verifiedAt is at most a week old, and at most a skew ahead of the worker's clock. *)
FreshAge(age) == -1 <= age /\ age <= 7 * 288   \* in units of five minutes

Score(p, icp) == IF p.technologies \cap icp.technologies # {} THEN 100 ELSE 90

Fits(p, icp) ==
    /\ Has(icp.titles, p.title) /\ icp.signal \in p.signals
    /\ Has(icp.industries, p.industry) /\ Has(icp.sizes, p.size)
    /\ Has(icp.geographies, p.geography)

(* qualifyProspect, of a prospect the gateway verified. *)
Qualifies(p, icp, wait) ==
    /\ p.names \cap icp.exclusions = {} /\ Fits(p, icp)
    /\ FreshAge(p.age + wait) /\ Score(p, icp) >= icp.minScore

-----------------------------------------------------------------------------
Lists(words) == {<<x>> : x \in words} \cup {<<x, y>> : x \in words, y \in words}

Mailboxes ==
    [hunter : {TRUE}, http : {"200"}, apollo : {"verified"}, result : {"deliverable", "risky",
        "undeliverable", "none"}, status : {"valid", "invalid", "accept_all", "unknown"}]
    \cup [hunter : {TRUE}, http : {"202", "451"}, apollo : {"verified"},
          result : {"deliverable"}, status : {"valid"}]
    \cup [hunter : {FALSE}, http : {"200"}, apollo : {"verified", "guessed"},
          result : {"deliverable"}, status : {"valid"}]

(* A person and a profile that fit. *)
Person(w) ==
    [title |-> w, industry |-> w, employees |-> 10, country |-> w,
     mailbox |-> [hunter |-> TRUE, http |-> "200", apollo |-> "guessed",
                  result |-> "deliverable", status |-> "valid"],
     technologies |-> {}, names |-> {"domain", "company"}]

Profile(w) ==
    [titles |-> <<w>>, industries |-> <<w>>, geographies |-> <<w>>, sizes |-> <<"10-20">>,
     technologies |-> {}, signal |-> "hiring", exclusions |-> {}, minScore |-> 90]

Ask(person, icp) ==
    \E wait \in Waits, dummy \in BOOLEAN :
        question' = [person |-> person, icp |-> icp, wait |-> wait, dummy |-> dummy]

(* The two differ in one place at a time from a pair that fits. *)
AskProspect ==
    /\ question = None
    /\ \E w \in Word :
         \/ \E x \in Word, l \in Lists(Word) :
              \/ Ask([Person(w) EXCEPT !.title = x], [Profile(w) EXCEPT !.titles = l])
              \/ Ask([Person(w) EXCEPT !.industry = x], [Profile(w) EXCEPT !.industries = l])
              \/ Ask([Person(w) EXCEPT !.country = x], [Profile(w) EXCEPT !.geographies = l])
         \/ \E n \in Heads, l \in Lists(DOMAIN Band) :
              Ask([Person(w) EXCEPT !.employees = n], [Profile(w) EXCEPT !.sizes = l])
         \/ \E m \in Mailboxes : Ask([Person(w) EXCEPT !.mailbox = m], Profile(w))
         \/ \E t, s \in SUBSET {"selenium"}, n \in MinScores, e \in SUBSET {"domain", "company"} :
              Ask([Person(w) EXCEPT !.technologies = t],
                  [Profile(w) EXCEPT !.technologies = s, !.minScore = n, !.exclusions = e])

vars == <<question>>
Next == AskProspect
Spec == Init /\ [][Next]_vars

-----------------------------------------------------------------------------
MeansOne(word, list) == \E i \in 1..Len(list) : Means[list[i]] = Means[word]

(* What the profile asks for, by meaning and not by word. *)
Wanted(p, icp) ==
    /\ MeansOne(p.title, icp.titles) /\ MeansOne(p.industry, icp.industries)
    /\ MeansOne(p.country, icp.geographies)
    /\ \E i \in 1..Len(icp.sizes) : icp.sizes[i] \in Within(p.employees) \cup {ToString(p.employees)}
    /\ p.names \cap icp.exclusions = {}
    /\ \/ p.mailbox.hunter /\ p.mailbox.http = "200" /\ p.mailbox.status = "valid"
          /\ p.mailbox.result \notin {"risky", "undeliverable"}
       \/ ~p.mailbox.hunter /\ p.mailbox.apollo = "verified"

(* The gateway translates and the worker compares, and together they accept nobody but
   people whose title, industry, country and head count the profile means, who are not
   excluded and whose mailbox was found valid (normalize.ts:1). *)
NeverRelabelled ==
    question # None /\ ~question.dummy =>
        LET found == Found(question.person, question.icp) IN
        found # None /\ Qualifies(found, question.icp, question.wait)
            => Wanted(question.person, question.icp)

(* What a comment says, and the code does not: an answer that names no result is valid too
   (hunter.ts:14). *)
OnlyDeliverable ==
    question # None /\ question.person.mailbox.hunter
        /\ Verdict(question.person.mailbox) = "VALID"
        => question.person.mailbox.result = "deliverable"

(* A dummy qualifies wherever a bought prospect could, so that a rehearsal says something
   about a campaign: it is refused for an exclusion, for its age, or for a score that no
   technology of the profile lifts, and for nothing else (dummyDiscover.ts:15). *)
DummiesQualify ==
    question # None /\ question.dummy =>
        LET dummy == Dummy(question.person, question.icp)
            icp   == question.icp
        IN  \/ dummy = None \/ dummy.names \cap icp.exclusions # {}
            \/ ~FreshAge(question.wait)
            \/ icp.minScore > 90 /\ icp.technologies = {}
            \/ Qualifies(dummy, icp, question.wait)
=============================================================================
