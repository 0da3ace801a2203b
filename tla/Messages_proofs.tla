--------------------------- MODULE Messages_proofs ---------------------------
(***************************************************************************)
(* Proofs about what is sent and what comes back: the text of a mail, its  *)
(* delivery, bookings and the inbox, for every number of bookings,         *)
(* messages and workers; and about secrets, given out as texts and read    *)
(* back from them.                                                         *)
(***************************************************************************)
EXTENDS Services, SetLemmas, FiniteSetTheorems, SequenceTheorems, TLAPS

Appointment == [status : {"BOOKED", "CANCELED"}, updatedAt : 1..3, qualified : BOOLEAN,
                outcome : BOOLEAN]

(* An appointment shows the newest event of its booking that was processed, and there
   is none before the first event. *)
Shown(b) ==
    IF B!Known(b) = {} THEN appt[b] = None
    ELSE /\ appt[b] \in Appointment
         /\ \A e \in B!Known(b) : B!OccurredAt(e[1], e[3]) <= appt[b].updatedAt
         /\ \E e \in B!Known(b) : B!OccurredAt(e[1], e[3]) = appt[b].updatedAt
         /\ appt[b].status = "CANCELED" <=> appt[b].updatedAt = 3

BookingsInv ==
    /\ log \subseteq {"webhook", "reconcile"} \X Booking \X B!Change
    /\ booking # None => booking[2] \in B!Change
    /\ appt \in [Booking -> Appointment \cup {None}]
    /\ \A b \in Booking : Shown(b)
    /\ \A b \in qualifying : b \in Booking /\ appt[b] # None

LEMMA Ranks ==
    ASSUME NEW way \in {"webhook", "reconcile"}, NEW change \in B!Change
    PROVE  /\ B!OccurredAt(way, change) \in 1..3
           /\ B!OccurredAt(way, change) = 3 <=> change = "canceled"
BY DEF B!OccurredAt, B!Change

LEMMA KnownRanks ==
    ASSUME BookingsInv, NEW b \in Booking, NEW e \in B!Known(b)
    PROVE  /\ B!OccurredAt(e[1], e[3]) \in 1..3
           /\ B!OccurredAt(e[1], e[3]) = 3 <=> e[3] = "canceled"
<1>1. e[1] \in {"webhook", "reconcile"} /\ e[3] \in B!Change
  BY DEF BookingsInv, B!Known
<1>2. QED
  BY <1>1, Ranks

LEMMA HandleKeeps ==
    ASSUME BookingsInv, NEW way \in {"webhook", "reconcile"}, NEW b \in Booking,
           NEW change \in B!Change, B!Handle(way, b, change), UNCHANGED qualifying,
           booking' = booking \/ booking' = None
    PROVE  BookingsInv'
<1> DEFINE id == <<way, b, change>>
           at == B!OccurredAt(way, change)
<1>1. at \in 1..3 /\ (at = 3 <=> change = "canceled")
  BY Ranks
<1>2. log' = log \cup {id}
  BY DEF B!Handle, B!EventId
<1>3. CASE id \in log
  <2>1. log' = log /\ appt' = appt
    BY <1>2, <1>3 DEF B!Handle, B!EventId
  <2>2. \A c \in Booking : Shown(c)'
    BY <2>1 DEF BookingsInv, Shown, B!Known
  <2>3. QED
    BY <2>1, <2>2 DEF BookingsInv
<1>4. CASE id \notin log /\ B!Newer(b, at)
  <2>1. appt' = [appt EXCEPT ![b] = B!Applied(b, change, at)]
    BY <1>4 DEF B!Handle, B!EventId
  <2>2. appt'[b] = B!Applied(b, change, at) /\ B!Applied(b, change, at) \in Appointment
    BY <2>1, <1>1, ActorsAssumption, BookingsAssumption DEF BookingsInv, B!Applied, Appointment
  <2>3. \A e \in B!Known(b) : B!OccurredAt(e[1], e[3]) < at
    <3>1. CASE appt[b] = None
      BY <3>1, ActorsAssumption, BookingsAssumption DEF BookingsInv, Shown, Appointment
    <3>2. CASE appt[b] # None
      <4>1. appt[b] \in Appointment /\ appt[b].updatedAt < at
        BY <3>2, <1>4 DEF BookingsInv, B!Newer
      <4>2. \A e \in B!Known(b) : B!OccurredAt(e[1], e[3]) <= appt[b].updatedAt
        BY DEF BookingsInv, Shown
      <4>3. QED
        BY <4>1, <4>2, <1>1, KnownRanks DEF Appointment
    <3>3. QED
      BY <3>1, <3>2
  <2>4. B!Known(b)' = B!Known(b) \cup {id}
    BY <1>2 DEF B!Known
  <2>5. Shown(b)'
    <3>1. appt'[b].updatedAt = at /\ (appt'[b].status = "CANCELED" <=> at = 3)
      BY <1>1, <2>2 DEF B!Applied
    <3>2. \A e \in B!Known(b)' : B!OccurredAt(e[1], e[3]) <= at
      BY <1>1, <2>3, <2>4, KnownRanks
    <3>3. id \in B!Known(b)' /\ B!OccurredAt(id[1], id[3]) = at
      BY <2>4
    <3>4. B!Known(b)' # {} /\ \E e \in B!Known(b)' : B!OccurredAt(e[1], e[3]) = at
      BY <3>3
    <3>5. QED
      BY <3>1, <3>2, <3>4, <2>2 DEF Shown
  <2>6. ASSUME NEW c \in Booking, c # b PROVE Shown(c)'
    <3>1. B!Known(c)' = B!Known(c) /\ appt'[c] = appt[c]
      BY <1>2, <2>1, <2>6 DEF B!Known, BookingsInv
    <3>2. QED
      BY <3>1, <2>6 DEF BookingsInv, Shown
  <2>7. QED
    BY <1>2, <2>1, <2>2, <2>5, <2>6, ActorsAssumption, BookingsAssumption DEF BookingsInv, Appointment
<1>5. CASE id \notin log /\ ~B!Newer(b, at)
  <2>1. appt' = appt
    BY <1>5 DEF B!Handle, B!EventId
  <2>2. B!Known(b)' = B!Known(b) \cup {id}
    BY <1>2 DEF B!Known
  <2>3. appt[b] # None /\ at <= appt[b].updatedAt
    BY <1>1, <1>5 DEF B!Newer, BookingsInv, Appointment
  <2>4. Shown(b)'
    BY <2>1, <2>2, <2>3 DEF Shown, BookingsInv
  <2>5. ASSUME NEW c \in Booking, c # b PROVE Shown(c)'
    <3>1. B!Known(c)' = B!Known(c)
      BY <1>2, <2>5 DEF B!Known
    <3>2. QED
      BY <3>1, <2>1, <2>5 DEF BookingsInv, Shown
  <2>6. QED
    BY <1>2, <2>1, <2>4, <2>5 DEF BookingsInv
<1>6. QED
  BY <1>3, <1>4, <1>5

LEMMA BookingsStep == BookingsInv /\ [B!Next]_B!vars => BookingsInv'
<1> SUFFICES ASSUME BookingsInv, [B!Next]_B!vars PROVE BookingsInv'
  OBVIOUS
<1>1. ASSUME UNCHANGED <<log, appt, qualifying>>, booking' = booking \/ booking' = None
               \/ booking'[2] \in B!Change
      PROVE  BookingsInv'
  BY <1>1 DEF BookingsInv, Shown, B!Known
<1>2. ASSUME NEW i \in B!Invitee, B!Book(i) \/ B!Passes(i) \/ B!Cancel(i) PROVE BookingsInv'
  BY <1>1, <1>2 DEF B!Book, B!Passes, B!Cancel
<1>3. CASE B!StartPass \/ B!EndPass \/ B!Refused \/ B!Interrupt
  BY <1>1, <1>3 DEF B!StartPass, B!EndPass, B!Refused, B!Interrupt, B!Abandon
<1>4. CASE B!ReadInvitee
  BY <1>1, <1>4 DEF B!ReadInvitee, B!Change
<1>5. ASSUME NEW b \in Booking, B!Reconcile(b) PROVE BookingsInv'
  BY <1>5, HandleKeeps DEF B!Reconcile, BookingsInv
<1>6. ASSUME NEW b \in Booking, NEW change \in B!Change, B!Webhook(b, change) PROVE BookingsInv'
  BY <1>6, HandleKeeps DEF B!Webhook
<1>7. ASSUME NEW b \in Booking, B!QualifyRead(b) PROVE BookingsInv'
  BY <1>7 DEF B!QualifyRead, BookingsInv, Shown, B!Known
<1>8. ASSUME NEW b \in Booking, B!QualifyWrite(b) \/ B!Outcome(b) PROVE BookingsInv'
  <2>1. /\ appt[b] \in Appointment /\ UNCHANGED <<log, booking>> /\ qualifying' \subseteq qualifying
        /\ \/ appt' = [appt EXCEPT ![b].qualified = TRUE]
           \/ appt' = [appt EXCEPT ![b].outcome = TRUE]
    BY <1>8 DEF B!QualifyWrite, B!Outcome, BookingsInv
  <2>2. /\ appt'[b] \in Appointment
        /\ appt'[b].status = appt[b].status /\ appt'[b].updatedAt = appt[b].updatedAt
        /\ \A c \in Booking \ {b} : appt'[c] = appt[c]
    <3>1. /\ [appt[b] EXCEPT !.qualified = TRUE] \in Appointment
          /\ [appt[b] EXCEPT !.qualified = TRUE].status = appt[b].status
          /\ [appt[b] EXCEPT !.qualified = TRUE].updatedAt = appt[b].updatedAt
          /\ [appt[b] EXCEPT !.outcome = TRUE] \in Appointment
          /\ [appt[b] EXCEPT !.outcome = TRUE].status = appt[b].status
          /\ [appt[b] EXCEPT !.outcome = TRUE].updatedAt = appt[b].updatedAt
      BY <2>1 DEF Appointment
    <3>2. \/ appt' = [appt EXCEPT ![b] = [appt[b] EXCEPT !.qualified = TRUE]]
          \/ appt' = [appt EXCEPT ![b] = [appt[b] EXCEPT !.outcome = TRUE]]
      BY <2>1
    <3>3. QED
      BY <1>8, <3>1, <3>2 DEF BookingsInv
  <2>3. \A c \in Booking : B!Known(c)' = B!Known(c)
    BY <2>1 DEF B!Known
  <2>4. \A c \in Booking : Shown(c)'
    BY <2>1, <2>2, <2>3, ActorsAssumption, BookingsAssumption DEF BookingsInv, Shown, Appointment
  <2>5. appt' \in [Booking -> Appointment \cup {None}]
    BY <2>1, <2>2 DEF BookingsInv
  <2>6. QED
    BY <2>1, <2>2, <2>4, <2>5, ActorsAssumption, BookingsAssumption DEF BookingsInv, Appointment
<1>9. CASE UNCHANGED B!vars
  BY <1>1, <1>9 DEF B!vars
<1>10. QED
  BY <1>2, <1>3, <1>4, <1>5, <1>6, <1>7, <1>8, <1>9 DEF B!Next, B!Invitee

(* webhooks.ts:84: whatever the order of webhooks, of their retries and of the passes,
   the appointment shows the newest event processed. *)
LEMMA NewestShown == B!Spec => []B!LastWord
<1>1. B!Init => BookingsInv
  BY DEF B!Init, BookingsInv, Shown, B!Known
<1>2. BookingsInv => B!LastWord
  <2> SUFFICES ASSUME BookingsInv, NEW b \in Booking, B!Known(b) # {}
               PROVE  /\ appt[b] # None
                      /\ \A e \in B!Known(b) : appt[b].updatedAt >= B!OccurredAt(e[1], e[3])
                      /\ appt[b].status = "CANCELED" <=> \E e \in B!Known(b) : e[3] = "canceled"
    BY DEF B!LastWord
  <2>1. /\ appt[b] \in Appointment
        /\ \A e \in B!Known(b) : B!OccurredAt(e[1], e[3]) <= appt[b].updatedAt
        /\ \E e \in B!Known(b) : B!OccurredAt(e[1], e[3]) = appt[b].updatedAt
        /\ appt[b].status = "CANCELED" <=> appt[b].updatedAt = 3
    BY DEF BookingsInv, Shown
  <2>2. QED
    BY <2>1, KnownRanks, ActorsAssumption, BookingsAssumption DEF Appointment
<1>3. QED
  BY <1>1, <1>2, BookingsStep, PTL DEF B!Spec
-----------------------------------------------------------------------------
(* A message a poll may pass over: nothing is to be done about it, or it was done. *)
Handled(m) == MessageKind[m] # "stranger" => m \in logged

(* What every poll has passed over or has still before it, with what it does now. *)
PollInv(w) ==
    /\ link[w] \in Nat /\ next[w] \in Nat
    /\ \A m \in 1..link[w] : Handled(m)
    /\ pollAt[w] \in {"items", "handle", "alert"} =>
          \A m \in 1..next[w] : m \in todo[w] \/ Handled(m)
    /\ pollAt[w] = "alert" => M!First(todo[w]) \in logged

MailInv ==
    /\ arrived \in Nat /\ mailCursor \in Nat /\ pollFaults \in Nat
    /\ pollAt \in [Daemon -> {"idle", "found", "confirm", "page", "items", "handle", "alert"}]
    /\ link \in [Daemon -> Nat] /\ next \in [Daemon -> Nat]
    /\ todo = [w \in Daemon |-> todo[w]] /\ replies \in [M!Msg -> Nat]
    /\ M!NothingSkipped
    /\ \A w \in Daemon : PollInv(w)
    /\ \A m \in M!Msg : replies[m] <= 1 /\ (m \notin logged => replies[m] = 0)
    /\ M!NoticeAlerted

(* What a step of a poll leaves alone is as before. *)
LEMMA OthersPoll ==
    ASSUME MailInv, NEW w \in Daemon, NEW v \in Daemon, v # w,
           NEW p, M!To(w, p), logged \subseteq logged',
           link' = link \/ link' = [link EXCEPT ![w] = mailCursor],
           next' = next \/ \E n : next' = [next EXCEPT ![w] = n],
           todo' = todo \/ \E S : todo' = [todo EXCEPT ![w] = S]
    PROVE  PollInv(v)'
<1>1. pollAt'[v] = pollAt[v] /\ link'[v] = link[v] /\ next'[v] = next[v] /\ todo'[v] = todo[v]
  BY DEF MailInv, M!To
<1>2. PollInv(v)
  BY DEF MailInv
<1>3. QED
  BY <1>1, <1>2 DEF PollInv, Handled

(* A step of a poll that handles no message. *)
LEMMA PollKeeps ==
    ASSUME MailInv, NEW w \in Daemon,
           NEW p \in {"idle", "found", "confirm", "page", "items", "handle", "alert"}, M!To(w, p),
           UNCHANGED <<arrived, logged, noticed, replies>>,
           link' = link \/ link' = [link EXCEPT ![w] = mailCursor],
           next' = next \/ \E n \in Nat : next' = [next EXCEPT ![w] = n],
           todo' = todo \/ \E S : todo' = [todo EXCEPT ![w] = S],
           pollFaults' \in Nat, pollFaults' = 0 => pollAt[w] # "alert" /\ pollFaults = 0,
           mailCursor' \in Nat, \A m \in 1..mailCursor' : Handled(m), PollInv(w)'
    PROVE  MailInv'
<1>1. /\ arrived' \in Nat /\ link' \in [Daemon -> Nat] /\ next' \in [Daemon -> Nat]
      /\ pollAt' \in [Daemon -> {"idle", "found", "confirm", "page", "items", "handle", "alert"}]
      /\ todo' = [v \in Daemon |-> todo'[v]] /\ replies' \in [M!Msg -> Nat]
  BY DEF MailInv, M!To
<1>2. M!NothingSkipped'
  BY DEF M!NothingSkipped, Handled
<1>3. \A v \in Daemon : PollInv(v)'
  BY OthersPoll
<1>4. \A m \in M!Msg : (replies[m] <= 1 /\ (m \notin logged => replies[m] = 0))'
  BY DEF MailInv
<1>5. M!NoticeAlerted'
  BY DEF M!NoticeAlerted, MailInv, M!To
<1>6. QED
  BY <1>1, <1>2, <1>3, <1>4, <1>5 DEF MailInv

(* A step that no poll makes. *)
LEMMA OutsideKeeps ==
    ASSUME MailInv, arrived' \in Nat, pollFaults' = pollFaults \/ pollFaults' = pollFaults + 1,
           UNCHANGED <<mailCursor, pollAt, link, todo, next, logged, noticed, replies>>
    PROVE  MailInv'
<1>1. pollFaults' \in Nat /\ (pollFaults' = 0 => pollFaults = 0)
  BY DEF MailInv
<1>2. M!NoticeAlerted'
  BY <1>1 DEF MailInv, M!NoticeAlerted
<1>3. QED
  BY <1>1, <1>2 DEF MailInv, M!NothingSkipped, PollInv, Handled

(* The end of a poll, with the link it leaves. *)
LEMMA ReleaseKeeps ==
    ASSUME MailInv, NEW w \in Daemon, NEW c \in Nat, NEW again, M!Releases(w, c, again),
           \A m \in 1..c : Handled(m), UNCHANGED <<arrived, logged, noticed, replies>>,
           pollFaults' \in Nat, pollFaults' = 0 => pollAt[w] # "alert" /\ pollFaults = 0
    PROVE  MailInv'
<1>1. M!To(w, "idle") /\ todo' = [todo EXCEPT ![w] = {}] /\ UNCHANGED <<link, next>>
  BY DEF M!Releases
<1>2. mailCursor' \in Nat /\ \A m \in 1..mailCursor' : Handled(m)
  BY DEF M!Releases, MailInv, M!NothingSkipped, Handled
<1>3. PollInv(w)'
  BY <1>1 DEF MailInv, PollInv, Handled, M!To
<1>4. QED
  BY <1>1, <1>2, <1>3, PollKeeps

(* The induction: one step of a poll or of what is outside it. *)
LEMMA MailStep == MailInv /\ [M!Next]_M!vars => MailInv'
<1> SUFFICES ASSUME MailInv, [M!Next]_M!vars PROVE MailInv'
  OBVIOUS
<1>0. \A m \in 1..mailCursor : Handled(m)
  BY DEF MailInv, M!NothingSkipped, Handled
<1>1. ASSUME NEW w \in Daemon, M!Find(w) PROVE MailInv'
  <2>1. CASE enabled
    BY <1>0, <1>1, <2>1, PollKeeps, SMTT(30) DEF M!Find, M!To, MailInv, PollInv, Handled, M!graph
  <2>2. CASE ~enabled
    BY <1>1, <2>2, OutsideKeeps, SMTT(30) DEF M!Find, MailInv, M!graph
  <2>3. QED
    BY <2>1, <2>2
<1>2. ASSUME NEW w \in Daemon, M!Claim(w) PROVE MailInv'
  BY <1>0, <1>2, PollKeeps, SMTT(30) DEF M!Claim, M!To, MailInv, PollInv, Handled, M!graph
<1>3. ASSUME NEW w \in Daemon, M!Confirm(w) PROVE MailInv'
  BY <1>0, <1>3, PollKeeps DEF M!Confirm, M!To, MailInv, PollInv, Handled, M!graph
<1>4. ASSUME NEW w \in Daemon, M!CopyPending(w) \/ M!LinkExpired(w) PROVE MailInv'
  <2>1. /\ pollAt[w] # "alert" /\ UNCHANGED <<arrived, logged, noticed, replies, pollFaults>>
        /\ M!Releases(w, mailCursor, FALSE) \/ M!Releases(w, 0, FALSE)
    BY <1>4 DEF M!CopyPending, M!LinkExpired, M!graph
  <2>2. mailCursor \in Nat /\ pollFaults' \in Nat /\ \A m \in 1..0 : Handled(m)
    BY <2>1 DEF MailInv
  <2>3. QED
    BY <1>0, <2>1, <2>2, ReleaseKeeps
<1>5. ASSUME NEW w \in Daemon, M!Page(w) PROVE MailInv'
  <2>1. M!Upto(link[w]) \in Nat
    BY ActorsAssumption, MailboxAssumption DEF M!Upto, MailInv
  <2>2. /\ next' = [next EXCEPT ![w] = M!Upto(link[w])] /\ M!To(w, "items")
        /\ todo' = [todo EXCEPT ![w] = (link[w] + 1)..M!Upto(link[w])]
        /\ UNCHANGED <<arrived, logged, noticed, replies, link, mailCursor, pollFaults>>
        /\ pollAt[w] = "page"
    BY <1>5 DEF M!Page, M!row
  <2>3. PollInv(w)'
    <3>1. /\ next'[w] = M!Upto(link[w]) /\ todo'[w] = (link[w] + 1)..M!Upto(link[w])
          /\ pollAt'[w] = "items"
      BY <2>2 DEF MailInv, M!To
    <3>2. link[w] \in Nat /\ \A m \in 1..link[w] : Handled(m)
      BY DEF MailInv, PollInv
    <3>3. ASSUME NEW m \in 1..next'[w] PROVE m \in todo'[w] \/ Handled(m)
      BY <2>1, <3>1, <3>2, SMTT(30)
    <3>4. QED
      BY <2>1, <2>2, <3>1, <3>2, <3>3 DEF PollInv, Handled
  <2>4. QED
    BY <1>0, <2>1, <2>2, <2>3, PollKeeps DEF MailInv
<1>6. ASSUME NEW w \in Daemon, M!NextItem(w) PROVE MailInv'
  BY <1>0, <1>6, PollKeeps DEF M!NextItem, M!To, MailInv, PollInv, Handled, M!graph
<1>7. ASSUME NEW w \in Daemon, M!HandleItem(w) PROVE MailInv'
  <2> DEFINE m == M!First(todo[w])
  <2>1. /\ pollAt[w] = "handle" /\ UNCHANGED <<arrived, link, next, mailCursor, noticed, pollFaults>>
        /\ logged' = IF MessageKind[m] # "stranger" THEN logged \cup {m} ELSE logged
        /\ replies' = IF M!Attributed(m) /\ m \notin logged
                        THEN [replies EXCEPT ![m] = @ + 1] ELSE replies
        /\ \/ MessageKind[m] = "notice" /\ M!To(w, "alert") /\ todo' = todo
           \/ /\ MessageKind[m] # "notice" /\ M!To(w, "items")
              /\ todo' = [todo EXCEPT ![w] = @ \ {m}]
    BY <1>7 DEF M!HandleItem, M!row, M!graph, M!Logs, M!Repeats
  <2> HIDE DEF m
  <2>2. /\ logged \subseteq logged' /\ (MessageKind[m] # "stranger" => m \in logged')
        /\ \A n : Handled(n) => Handled(n)'
    BY <2>1 DEF Handled
  <2>3. PollInv(w)'
    BY <2>1, <2>2 DEF PollInv, MailInv, M!To, m, Handled
  <2>4. \A v \in Daemon : PollInv(v)'
    BY <2>1, <2>2, <2>3, OthersPoll
  <2>5. M!NothingSkipped'
    BY <1>0, <2>1, <2>2 DEF M!NothingSkipped, Handled
  <2>6. /\ replies' \in [M!Msg -> Nat]
        /\ \A n \in M!Msg : (replies[n] <= 1 /\ (n \notin logged => replies[n] = 0))'
    <3>1. CASE replies' = replies
      BY <2>2, <3>1 DEF MailInv
    <3>2. CASE /\ replies' = [replies EXCEPT ![m] = @ + 1]
               /\ MessageKind[m] = "reply" /\ m \notin logged
      <4>1. replies \in [M!Msg -> Nat] /\ (m \in M!Msg => replies[m] = 0) /\ m \in logged'
        BY <2>2, <3>2 DEF MailInv
      <4>2. /\ replies' \in [M!Msg -> Nat]
            /\ \A n \in M!Msg : replies'[n] = IF n = m THEN 1 ELSE replies[n]
        <5>1. CASE m \in M!Msg
          BY <3>2, <4>1, <5>1
        <5>2. CASE m \notin M!Msg
          <6>1. replies' = replies
            BY <3>2, <4>1, <5>2
          <6>2. QED
            BY <6>1, <4>1, <5>2
        <5>3. QED
          BY <5>1, <5>2
      <4>3. ASSUME NEW n \in M!Msg
            PROVE  replies'[n] <= 1 /\ (n \notin logged' => replies'[n] = 0)
        BY <2>2, <4>1, <4>2 DEF MailInv
      <4>4. QED
        BY <4>2, <4>3
    <3>3. QED
      BY <2>1, <3>1, <3>2 DEF M!Attributed
  <2>7. M!NoticeAlerted'
    <3> SUFFICES ASSUME NEW n \in logged', MessageKind[n] = "notice", pollFaults = 0, n \notin noticed
                 PROVE  \E v \in Daemon : pollAt'[v] = "alert" /\ n = M!First(todo'[v])
      BY <2>1 DEF M!NoticeAlerted
    <3>1. CASE n \in logged
      <4>1. PICK v \in Daemon : pollAt[v] = "alert" /\ n = M!First(todo[v])
        BY <3>1 DEF MailInv, M!NoticeAlerted
      <4>2. v # w
        BY <2>1, <4>1
      <4>3. pollAt'[v] = pollAt[v] /\ todo'[v] = todo[v]
        BY <2>1, <4>2 DEF MailInv, M!To
      <4>4. QED
        BY <4>1, <4>3
    <3>2. CASE n \notin logged
      <4>1. n = m /\ pollAt'[w] = "alert" /\ todo' = todo
        BY <2>1, <3>2 DEF MailInv, M!To
      <4>2. QED
        BY <4>1 DEF m
    <3>3. QED
      BY <3>1, <3>2
  <2>8. QED
    BY <2>1, <2>4, <2>5, <2>6, <2>7 DEF MailInv, M!To
<1>8. ASSUME NEW w \in Daemon, M!RaiseAlert(w) PROVE MailInv'
  <2> DEFINE m == M!First(todo[w])
  <2>1. /\ pollAt[w] = "alert" /\ M!To(w, "items")
        /\ UNCHANGED <<arrived, link, next, mailCursor, logged, replies, pollFaults>>
        /\ noticed' = noticed \cup {m} /\ todo' = [todo EXCEPT ![w] = @ \ {m}]
    BY <1>8 DEF M!RaiseAlert, M!row, M!graph
  <2>2. m \in logged
    BY <2>1 DEF MailInv, PollInv
  <2> HIDE DEF m
  <2>3. PollInv(w)'
    BY <2>1, <2>2 DEF PollInv, MailInv, M!To, Handled
  <2>4. \A v \in Daemon : PollInv(v)'
    BY <2>1, <2>3, OthersPoll
  <2>5. M!NoticeAlerted'
    <3> SUFFICES ASSUME NEW n \in logged, MessageKind[n] = "notice", pollFaults = 0, n \notin noticed'
                 PROVE  \E v \in Daemon : pollAt'[v] = "alert" /\ n = M!First(todo'[v])
      BY <2>1 DEF M!NoticeAlerted
    <3>1. PICK v \in Daemon : pollAt[v] = "alert" /\ n = M!First(todo[v])
      BY <2>1 DEF MailInv, M!NoticeAlerted
    <3>2. v # w
      BY <2>1, <3>1 DEF m
    <3>3. pollAt'[v] = pollAt[v] /\ todo'[v] = todo[v]
      BY <2>1, <3>2 DEF MailInv, M!To
    <3>4. QED
      BY <3>1, <3>3
  <2>6. QED
    BY <1>0, <2>1, <2>4, <2>5 DEF MailInv, M!To, M!NothingSkipped, Handled
<1>9. ASSUME NEW w \in Daemon, M!Advance(w) PROVE MailInv'
  <2>1. next[w] \in Nat /\ \A m \in 1..next[w] : Handled(m)
    BY <1>9 DEF M!Advance, MailInv, PollInv
  <2>2. QED
    BY <1>9, <2>1, ReleaseKeeps DEF M!Advance, MailInv, M!graph
<1>10. ASSUME NEW w \in Daemon, M!PollFails(w) \/ M!Crash(w), M!Fault PROVE MailInv'
  <2>1. pollFaults' \in Nat /\ pollFaults' # 0 /\ UNCHANGED <<arrived, logged, noticed, replies>>
    BY <1>10 DEF M!Fault, MailInv
  <2>2. CASE M!PollFails(w)
    BY <1>0, <2>1, <2>2, ReleaseKeeps, ZenonT(40) DEF M!PollFails, MailInv
  <2>3. CASE M!Crash(w)
    BY <1>0, <2>1, <2>3, PollKeeps, ZenonT(40) DEF M!Crash, M!To, MailInv, PollInv, Handled, M!row
  <2>4. QED
    BY <1>10, <2>2, <2>3
<1>11. CASE M!Fault /\ (M!Stall \/ M!Expire \/ M!Toggle)
  BY <1>11, OutsideKeeps, SMTT(30) DEF M!Fault, M!Stall, M!Expire, M!Toggle, MailInv, M!row, M!poll
<1>12. CASE M!Send \/ M!CopyAppears \/ M!Arrive \/ M!LeaseEnds \/ M!ComesDue
  BY <1>12, OutsideKeeps, SMTT(30)
     DEF M!Send, M!CopyAppears, M!Arrive, M!LeaseEnds, M!ComesDue, MailInv, M!row, M!poll, M!graph
<1>13. CASE UNCHANGED M!vars
  BY <1>13, OutsideKeeps DEF M!vars, MailInv, M!row, M!poll, M!graph
<1>14. QED
  BY <1>1, <1>2, <1>3, <1>4, <1>5, <1>6, <1>7, <1>8, <1>9, <1>10, <1>11, <1>12, <1>13
     DEF M!Next, M!PollStep, M!Fault

(* sync.ts:83: whatever the cursor passes over was handled; sync.ts:47 names the one
   exception, the notice whose poll failed between its record and its alert. *)
LEMMA InboxKept == M!Spec => [](M!NothingSkipped /\ M!ReplyRecordedOnce /\ M!NoticeAlerted)
<1>1. M!Init => MailInv
  BY DEF M!Init, MailInv, PollInv, M!NothingSkipped, M!NoticeAlerted, M!Msg
<1>2. MailInv => M!NothingSkipped /\ M!ReplyRecordedOnce /\ M!NoticeAlerted
  BY DEF MailInv, M!ReplyRecordedOnce
<1>3. QED
  BY <1>1, <1>2, MailStep, PTL DEF M!Spec

(* What comes from outside ends as it was said, for every number of bookings, messages,
   passes and workers, and however many of them fail. *)
THEOREM Inbound == Spec => []InboundFaithful
<1>1. B!LastWord /\ (M!NothingSkipped /\ M!ReplyRecordedOnce /\ M!NoticeAlerted)
        => InboundFaithful
  BY DEF InboundFaithful
<1>2. QED
  BY <1>1, NewestShown, InboxKept, PTL DEF Spec

-----------------------------------------------------------------------------
(* The message of the queue, the calls under way, and the attempts used up: all that were
   counted, but for the one its worker may still give back. *)
TheRow  == Y!Message
Calling == {w \in Daemon : queueAt[w] = "cleared"}

MayReturn ==
    /\ rowStatus[TheRow] = "SENDING" /\ rowToken[TheRow] \in Daemon
    /\ queueAt[rowToken[TheRow]] = "leased"

UsedUp == IF MayReturn THEN attempts[TheRow] - 1 ELSE attempts[TheRow]

QueueTyped ==
    /\ queueAt \in [Daemon -> Y!O!Point]
    /\ rowCur \in [Daemon -> Y!O!Row \cup {NoOne}]
    /\ rowStatus \in [Y!O!Row -> Y!O!RowStatus]
    /\ rowToken \in [Y!O!Row -> Daemon \cup {NoOne}]
    /\ attempts \in [Y!O!Row -> Nat]
    /\ rowCalls \in [Y!O!Row -> Nat]

(* Workers are busy with that message only, and every call, ended or not, has used up an
   attempt. *)
QueueInv ==
    /\ QueueTyped
    /\ \A r \in Y!O!Row : r # TheRow => rowStatus[r] = "none"
    /\ \A w \in Daemon : queueAt[w] \notin {"idle", "pass"} => rowCur[w] = TheRow
    /\ rowCalls[TheRow] + Cardinality(Calling) <= UsedUp

(* The queue of Delivery has this one message. *)
LEMMA OneRow == TheRow \in Y!O!Row /\ TheRow[2] = 1
<1>1. PICK c : Addressee = {c}
  BY DeliveriesAssumption
<1>2. <<c, 1>> \in Y!O!Row /\ <<c, 1>>[2] = 1
  BY <1>1 DEF Y!O!Row
<1>3. QED
  BY <1>2 DEF TheRow, Y!Message

(* The calls under way can be counted. *)
LEMMA CallingFinite == IsFiniteSet(Calling) /\ Cardinality(Calling) \in Nat
  BY ActorsAssumption, FS_Subset, FS_CardinalityType, SMTT(30) DEF Calling

(* No step of the queue takes a used-up attempt or a call back. *)
Onward == UsedUp <= UsedUp' /\ rowCalls[TheRow] <= rowCalls'[TheRow]

(* A call begins with an attempt used up, and ends without giving it back (worker.ts:303). *)
LEMMA QueueStep ==
    ASSUME QueueInv, [Y!O!Next]_(Y!O!vars)
    PROVE  QueueInv' /\ Onward
<1> DEFINE r == TheRow
<1> USE OneRow, CallingFinite DEF QueueInv, QueueTyped, UsedUp, MayReturn, Onward,
        Y!O!Point, Y!O!RowStatus,
        Y!O!queue, Y!O!approval, Y!O!person, Y!O!worker, Y!O!provider, Y!O!GoTo,
        Y!O!NextCandidate, Y!O!Release, Y!O!Pending
<1>0. TheRow' = TheRow
  BY DEF TheRow, Y!Message, Y!O!Row
<1>1. ASSUME NEW w \in Daemon, Y!O!StartPass(w) \/ Y!O!EndPass(w) PROVE QueueInv' /\ Onward
  <2>1. Calling' = Calling
    BY <1>1, SMTT(30) DEF Y!O!StartPass, Y!O!EndPass, Calling
  <2>2. QED
    BY <1>0, <1>1, <2>1, SMTT(30) DEF Y!O!StartPass, Y!O!EndPass
<1>2. ASSUME NEW w \in Daemon, NEW x \in Y!O!Row, Y!O!Prepare(w, x) PROVE QueueInv' /\ Onward
  <2> USE DEF Y!O!Takes, Y!O!Claimable
  <2>1. Calling' = Calling
    BY <1>2 DEF Y!O!Prepare, Y!O!SkipRow, Y!O!CloseRow, Y!O!DeferRow, Y!O!DropRow, Y!O!ClaimRow, Calling
  <2>2. CASE Y!O!SkipRow(w, x) \/ Y!O!DeferRow(w, x)
    BY <1>0, <2>1, <2>2 DEF Y!O!SkipRow, Y!O!DeferRow
  <2>3. CASE Y!O!CloseRow(w, x) \/ Y!O!DropRow(w, x)
    BY <1>0, <2>1, <2>3 DEF Y!O!CloseRow, Y!O!DropRow
  <2>4. CASE Y!O!ClaimRow(w, x)
    BY <1>0, <2>1, <2>4, SMTT(30) DEF Y!O!ClaimRow
  <2>5. QED
    BY <1>2, <2>2, <2>3, <2>4, SMTT(30) DEF Y!O!Prepare
<1>3. ASSUME NEW w \in Daemon, Y!O!Recheck(w) PROVE QueueInv' /\ Onward
  <2> USE DEF Y!O!Holds
  <2>1. CASE Y!O!RecheckLost(w) \/ Y!O!RecheckFails(w)
    <3>1. Calling' = Calling
      BY <2>1 DEF Y!O!RecheckLost, Y!O!RecheckFails, Calling
    <3>2. QED
      BY <1>0, <2>1, <3>1 DEF Y!O!RecheckLost, Y!O!RecheckFails
  <2>2. CASE Y!O!RecheckClosed(w)
    <3>1. Calling' = Calling
      BY <2>2 DEF Y!O!RecheckClosed, Calling
    <3>2. QED
      BY <1>0, <2>2, <3>1 DEF Y!O!RecheckClosed
  <2>3. CASE Y!O!RecheckWaits(w)
    <3>1. Calling' = Calling
      BY <2>3 DEF Y!O!RecheckWaits, Calling
    <3>2. QED
      BY <1>0, <2>3, <3>1 DEF Y!O!RecheckWaits, Y!O!GivenBack
  <2>4. CASE Y!O!RecheckClear(w)
    <3>1. Calling' = Calling \cup {w} /\ w \notin Calling
      BY <2>4 DEF Y!O!RecheckClear, Calling
    <3>2. Cardinality(Calling') = Cardinality(Calling) + 1
      BY <3>1, FS_AddElement
    <3>3. QED
      BY <1>0, <2>4, <3>2 DEF Y!O!RecheckClear
  <2>5. QED
    BY <1>3, <2>1, <2>2, <2>3, <2>4 DEF Y!O!Recheck
<1>4. ASSUME NEW w \in Daemon, Y!O!ProviderCall(w) PROVE QueueInv' /\ Onward
  <2>1. Calling' = Calling \ {w} /\ w \in Calling
    BY <1>4 DEF Y!O!ProviderCall, Calling
  <2>2. Cardinality(Calling') = Cardinality(Calling) - 1
    BY <2>1, FS_RemoveElement
  <2>3. QED
    BY <1>0, <1>4, <2>2 DEF Y!O!ProviderCall
<1>5. ASSUME NEW w \in Daemon, Y!O!Record(w) PROVE QueueInv' /\ Onward
  <2>1. Calling' = Calling
    BY <1>5 DEF Y!O!Record, Y!O!RecordSent, Y!O!RecordLost, Y!O!RecordFails, Calling
  <2>2. CASE Y!O!RecordSent(w)
    <3>1. ~Y!O!NeedsSuccessor(rowCur[w])
      BY <2>2 DEF Y!O!RecordSent, Y!O!NeedsSuccessor
    <3>2. QED
      BY <1>0, <2>1, <2>2, <3>1 DEF Y!O!RecordSent
  <2>3. CASE Y!O!RecordLost(w) \/ Y!O!RecordFails(w)
    BY <1>0, <2>1, <2>3 DEF Y!O!RecordLost, Y!O!RecordFails
  <2>4. QED
    BY <1>5, <2>2, <2>3 DEF Y!O!Record
<1>6. ASSUME NEW w \in Daemon, Y!O!FailRow(w) PROVE QueueInv' /\ Onward
  <2>1. Calling' = Calling
    BY <1>6 DEF Y!O!FailRow, Calling
  <2>2. CASE Y!O!Holds(w)
    BY <1>0, <1>6, <2>1, <2>2 DEF Y!O!FailRow, Y!O!Holds
  <2>3. CASE ~Y!O!Holds(w)
    BY <1>0, <1>6, <2>1, <2>3 DEF Y!O!FailRow
  <2>4. QED
    BY <2>2, <2>3
<1>7. ASSUME NEW w \in Daemon, Y!O!Crash(w) PROVE QueueInv' /\ Onward
  <2>1. Calling' = Calling \ {w}
    BY <1>7 DEF Y!O!Crash, Calling
  <2>2. Cardinality(Calling') <= Cardinality(Calling) /\ Cardinality(Calling') \in Nat
    BY ONLY <2>1, CallingFinite, FS_Subset, FS_CardinalityType
  <2>3. QED
    BY <1>0, <1>7, <2>2 DEF Y!O!Crash
<1>8. ASSUME Y!O!Sweep PROVE QueueInv' /\ Onward
  <2>1. Calling' = Calling
    BY <1>8 DEF Y!O!Sweep, Calling
  <2>2. QED
    BY <1>0, <1>8, <2>1 DEF Y!O!Sweep, Y!O!Exhausted
<1>9. ASSUME Y!O!Clock PROVE QueueInv' /\ Onward
  <2>1. Calling' = Calling
    BY <1>9 DEF Y!O!Clock, Y!O!LeaseExpires, Y!O!BecomesDue, Y!O!DayPasses, Calling
  <2>2. QED
    BY <1>0, <1>9, <2>1 DEF Y!O!Clock, Y!O!LeaseExpires, Y!O!BecomesDue, Y!O!DayPasses
<1>10. ASSUME Y!O!Outside PROVE QueueInv' /\ Onward
  <2>1. PICK c \in Addressee : Y!O!Suppress(c)
    BY <1>10 DEF Y!O!Outside
  <2>2. Calling' = Calling
    BY <2>1 DEF Y!O!Suppress, Calling
  <2>3. QED
    BY <1>0, <2>1, <2>2 DEF Y!O!Suppress, Y!O!CancelRows
<1>11. CASE UNCHANGED Y!O!vars
  BY <1>0, <1>11, SMTT(30) DEF Y!O!vars, Calling
<1>12. QED
  BY <1>1, <1>2, <1>3, <1>4, <1>5, <1>6, <1>7, <1>8, <1>9, <1>10, <1>11
     DEF Y!O!Next, Y!O!WorkerStep

-----------------------------------------------------------------------------
(* The receipt: a status that needs a draft has one, and a draft is not forgotten. *)
ReceiptTyped ==
    /\ delivery \in Y!M!ReceiptStatus
    /\ sendAt \in [Daemon -> Y!M!Point]
    /\ draftId \in Nat \cup {None} /\ draft \in [Daemon -> Nat \cup {None}]
    /\ created \in Nat /\ inflight \cup sent \subseteq Nat
    /\ delivery \in {"DRAFT", "SUBMITTING", "ACCEPTED"} => draftId # None
    /\ \A w \in Daemon :
          /\ draft[w] # None => draftId # None
          /\ sendAt[w] \in {"submit", "submitting", "reconcile", "confirmed"} => draft[w] # None

(* One creator of one draft, which nobody is about to reset. *)
Single == /\ Y!M!OneCreator /\ Y!M!OneDraft
          /\ \A w \in Daemon : sendAt[w] = "recover" => draftId = None

(* A call that resets the receipt runs alone. *)
ResetsAlone ==
    \A w, o \in Daemon : sendAt[w] = "recover" /\ sendAt[o] # "idle" => o = w

(* Only resets that overlap with another call make a second draft (m365/send.ts:65). *)
LEMMA ReceiptStep ==
    ASSUME ReceiptTyped, [Y!M!Next]_(Y!M!vars)
    PROVE  ReceiptTyped' /\ (Single /\ ResetsAlone => Single')
<1> USE ActorsAssumption DEF ReceiptTyped, Single, ResetsAlone, Y!M!OneCreator, Y!M!OneDraft,
        Y!M!ReceiptStatus, Y!M!Point, Y!M!row, Y!M!call, Y!M!graph, Y!M!GoTo, Y!M!Finish
<1> DEFINE Kept == ReceiptTyped' /\ (Single /\ ResetsAlone => Single')
<1>1. ASSUME NEW w \in Daemon, NEW i \in Letter, Y!M!Begin(w, i) PROVE Kept
  BY <1>1 DEF Y!M!Begin, Y!M!Branch
<1>2. ASSUME NEW w \in Daemon, NEW i \in Letter, Y!M!BeginAccepted(w, i) PROVE Kept
  BY <1>2 DEF Y!M!BeginAccepted
<1>3. ASSUME NEW w \in Daemon, Y!M!Recover(w) PROVE Kept
  BY <1>3 DEF Y!M!Recover
<1>4. ASSUME NEW w \in Daemon, Y!M!ClaimCreate(w) \/ Y!M!ClaimCreateLost(w) PROVE Kept
  BY <1>4 DEF Y!M!ClaimCreate, Y!M!ClaimCreateLost
<1>5. ASSUME NEW w \in Daemon, Y!M!DraftCreated(w) PROVE Kept
  <2>1. /\ sendAt[w] = "creating" /\ delivery' = "DRAFT" /\ UNCHANGED <<inflight, sent>>
        /\ created' = created + 1 /\ draftId' = created + 1
        /\ draft' = [draft EXCEPT ![w] = created + 1]
        /\ sendAt' = [sendAt EXCEPT ![w] = "submit"]
    BY <1>5 DEF Y!M!DraftCreated
  <2>2. ReceiptTyped'
    BY <2>1
  <2>3. ASSUME Single, ResetsAlone PROVE Single'
    <3>1. delivery = "CREATING" /\ draftId = None
      BY <2>1, <2>3
    <3>2. inflight \cup sent = {}
      BY <2>3, <2>2, <3>1
    <3>3. \A o \in Daemon : /\ sendAt[o] # "submitting" /\ draft[o] = None
                            /\ o # w => sendAt[o] \notin {"creating", "recover"}
      BY <2>1, <2>3, <3>1
    <3>4. QED
      BY <2>1, <3>2, <3>3
  <2>4. QED
    BY <2>2, <2>3
<1>6. ASSUME NEW w \in Daemon, Y!M!DraftRejected(w) \/ Y!M!DraftUncertain(w) PROVE Kept
  <2>1. /\ sendAt[w] = "creating" /\ UNCHANGED <<draftId, created, inflight, sent>>
        /\ delivery' \in {"NEW", "AMBIGUOUS"} /\ sendAt' = [sendAt EXCEPT ![w] = "idle"]
        /\ draft' = [draft EXCEPT ![w] = None]
    BY <1>6 DEF Y!M!DraftRejected, Y!M!DraftUncertain
  <2>2. ReceiptTyped'
    BY <2>1
  <2>3. ASSUME Single, ResetsAlone PROVE Single'
    <3>1. delivery = "CREATING" /\ draftId = None
      BY <2>1, <2>3
    <3>2. \A o \in Daemon : sendAt[o] # "submitting"
      BY <2>3, <3>1
    <3>3. QED
      BY <2>1, <2>3, <3>1, <3>2
  <2>4. QED
    BY <2>2, <2>3
<1>7. ASSUME NEW w \in Daemon, Y!M!ClaimSubmit(w) \/ Y!M!ClaimSubmitLost(w) PROVE Kept
  BY <1>7 DEF Y!M!ClaimSubmit, Y!M!ClaimSubmitLost
<1>8. ASSUME NEW w \in Daemon, Y!M!SubmitAccepted(w) \/ Y!M!SubmitUncertain(w) PROVE Kept
  BY <1>8 DEF Y!M!SubmitAccepted, Y!M!SubmitUncertain
<1>9. ASSUME NEW w \in Daemon, Y!M!ReconcileSent(w) \/ Y!M!ReconcileUncertain(w) PROVE Kept
  BY <1>9 DEF Y!M!ReconcileSent, Y!M!ReconcileUncertain
<1>10. ASSUME NEW w \in Daemon, Y!M!ReconcileWrite(w) \/ Y!M!Crash(w) PROVE Kept
  BY <1>10 DEF Y!M!ReconcileWrite, Y!M!Crash
<1>11. ASSUME Y!M!GraphStep PROVE Kept
  BY <1>11 DEF Y!M!GraphStep, Y!M!GraphSends, Y!M!GraphLoses
<1>12. CASE UNCHANGED Y!M!vars
  BY <1>12 DEF Y!M!vars
<1>13. QED
  BY <1>1, <1>2, <1>3, <1>4, <1>5, <1>6, <1>7, <1>8, <1>9, <1>10, <1>11, <1>12
     DEF Y!M!Next, Y!M!CallStep
-----------------------------------------------------------------------------
(* Each step of the composition is one of the queue, of the receipt, or of both. *)
LEMMA QueueMoves == [Y!Next]_(Y!vars) => [Y!O!Next]_(Y!O!vars)
<1> USE DEF Y!outreach, Y!O!vars, Y!O!queue, Y!O!approval, Y!O!person, Y!O!worker, Y!O!provider
<1>1. ASSUME NEW w \in Daemon, Y!Continues(w) PROVE UNCHANGED Y!O!vars
  BY <1>1 DEF Y!Continues
<1>2. ASSUME NEW w \in Daemon, Y!Returns(w) \/ Y!Throws(w) PROVE Y!O!ProviderCall(w)
  BY <1>2, Zenon DEF Y!Returns, Y!Throws
<1>3. ASSUME NEW w \in Daemon, Y!Queue(w) PROVE Y!O!WorkerStep(w)
  BY <1>3, Zenon DEF Y!Queue, Y!O!WorkerStep
<1>4. ASSUME NEW w \in Daemon, Y!Crash(w) PROVE Y!O!Crash(w)
  BY <1>4, Zenon DEF Y!Crash
<1>5. ASSUME Y!Graph PROVE UNCHANGED Y!O!vars
  BY <1>5 DEF Y!Graph
<1>6. ASSUME Y!Around PROVE Y!O!Sweep \/ Y!O!Clock \/ Y!O!Outside
  BY <1>6, Zenon DEF Y!Around
<1>7. ASSUME UNCHANGED Y!vars PROVE UNCHANGED Y!O!vars
  BY <1>7 DEF Y!vars
<1>8. QED
  BY <1>1, <1>2, <1>3, <1>4, <1>5, <1>6, <1>7, Zenon DEF Y!Next, Y!O!Next, Y!O!WorkerStep

(* The receipt moves only by the calls of sendMicrosoft and by Graph. *)
LEMMA ReceiptMoves == [Y!Next]_(Y!vars) => [Y!M!Next]_(Y!M!vars)
<1> USE DEF Y!receipt, Y!M!vars, Y!M!row, Y!M!call, Y!M!graph
<1>1. ASSUME NEW w \in Daemon, Y!Continues(w) PROVE Y!M!CallStep(w)
  BY <1>1, Zenon DEF Y!Continues, Y!M!CallStep
<1>2. ASSUME NEW w \in Daemon, Y!Returns(w) PROVE Y!M!CallStep(w)
  BY <1>2, Zenon DEF Y!Returns, Y!M!CallStep
<1>3. ASSUME NEW w \in Daemon, Y!Throws(w) PROVE Y!M!CallStep(w) \/ UNCHANGED Y!M!vars
  BY <1>3, Zenon DEF Y!Throws, Y!Refused, Y!M!CallStep
<1>4. ASSUME NEW w \in Daemon, Y!Queue(w) PROVE UNCHANGED Y!M!vars
  BY <1>4 DEF Y!Queue
<1>5. ASSUME NEW w \in Daemon, Y!Crash(w) PROVE Y!M!CallStep(w) \/ UNCHANGED Y!M!vars
  BY <1>5, Zenon DEF Y!Crash, Y!M!CallStep
<1>6. ASSUME Y!Graph PROVE Y!M!GraphStep
  BY <1>6, Zenon DEF Y!Graph
<1>7. ASSUME Y!Around PROVE UNCHANGED Y!M!vars
  BY <1>7 DEF Y!Around
<1>8. ASSUME UNCHANGED Y!vars PROVE UNCHANGED Y!M!vars
  BY <1>8 DEF Y!vars
<1>9. QED
  BY <1>1, <1>2, <1>3, <1>4, <1>5, <1>6, <1>7, <1>8, Zenon DEF Y!Next, Y!M!Next

(* Delivery composes the two modules and changes neither: whatever holds of the queue or of
   the receipt alone holds where worker.ts:319 calls sendMicrosoft. *)
THEOREM Composed == Y!Spec => Y!O!Spec /\ Y!M!Spec
<1>1. Y!Init => Y!O!Init /\ Y!M!Init
  BY DEF Y!Init
<1>2. QED
  BY <1>1, QueueMoves, ReceiptMoves, PTL DEF Y!Spec, Y!O!Spec, Y!M!Spec
-----------------------------------------------------------------------------
Uncertain == delivery = "AMBIGUOUS" \/ \E w \in Daemon : sendAt[w] = "recover"

(* A worker calls sendMicrosoft while it is cleared to; a receipt is uncertain only once
   a call has ended; while two attempts at most are used up there is one draft; and what
   counts as sent was sent. *)
DeliveryInv ==
    /\ QueueInv /\ ReceiptTyped
    /\ \A w \in Daemon : sendAt[w] # "idle" => queueAt[w] = "cleared"
    /\ Uncertain => rowCalls[TheRow] >= 1
    /\ UsedUp <= 2 => Single
    /\ delivery = "ACCEPTED" => sent # {}
    /\ \A w \in Daemon : sendAt[w] = "confirmed" \/ queueAt[w] = "answered" => sent # {}
    /\ Y!RecordedWasSent

(* A pair has two members. *)
LEMMA TwoOf == ASSUME NEW x, NEW y, x # y PROVE Cardinality({x, y}) = 2
<1>1. {x, y} = {x} \cup {y} /\ y \notin {x}
  OBVIOUS
<1>2. IsFiniteSet({x}) /\ Cardinality({x}) = 1
  BY FS_Singleton
<1>3. Cardinality({x} \cup {y}) = 1 + 1
  BY <1>1, <1>2, FS_AddElement
<1>4. QED
  BY <1>1, <1>3

(* A call has ended before any resets the receipt: with two attempts used up, that one is
   alone. *)
LEMMA OneCallLeft == ASSUME DeliveryInv, UsedUp <= 2 PROVE ResetsAlone
<1> SUFFICES ASSUME NEW w \in Daemon, NEW o \in Daemon, sendAt[w] = "recover",
                    sendAt[o] # "idle", o # w
             PROVE  FALSE
  BY DEF ResetsAlone
<1>1. {w, o} \in SUBSET Calling
  BY DEF DeliveryInv, Calling
<1>2. Cardinality({w, o}) = 2
  BY TwoOf
<1>3. Cardinality(Calling) >= 2
  BY <1>1, <1>2, CallingFinite, FS_Subset
<1>4. rowCalls[TheRow] >= 1 /\ rowCalls[TheRow] \in Nat
  BY OneRow DEF DeliveryInv, Uncertain, QueueInv, QueueTyped
<1>5. UsedUp \in Int
  BY OneRow DEF DeliveryInv, QueueInv, QueueTyped, UsedUp
<1>6. QED
  BY <1>3, <1>4, <1>5, CallingFinite DEF DeliveryInv, QueueInv

(* The induction: one step of a worker, of Graph or of what is around them. *)
LEMMA DeliveryStep == DeliveryInv /\ [Y!Next]_(Y!vars) => DeliveryInv'
<1> SUFFICES ASSUME DeliveryInv, [Y!Next]_(Y!vars) PROVE DeliveryInv'
  OBVIOUS
<1>0. TheRow' = TheRow
  BY DEF TheRow, Y!Message, Y!O!Row
<1>1. QueueInv' /\ Onward
  BY QueueMoves, QueueStep DEF DeliveryInv
<1>2. ReceiptTyped' /\ (Single /\ ResetsAlone => Single')
  BY ReceiptMoves, ReceiptStep DEF DeliveryInv
<1>3. UsedUp' <= 2 => Single'
  <2>1. UsedUp \in Int /\ UsedUp' \in Int
    BY <1>0, <1>1, OneRow DEF DeliveryInv, QueueInv, QueueTyped, UsedUp
  <2>2. UsedUp' <= 2 => UsedUp <= 2
    BY <1>1, <2>1, SMTT(30) DEF Onward
  <2>3. QED
    BY <1>2, <2>2, OneCallLeft DEF DeliveryInv
<1> DEFINE Rest ==
      /\ \A w \in Daemon : sendAt'[w] # "idle" => queueAt'[w] = "cleared"
      /\ Uncertain' => rowCalls'[TheRow] >= 1
      /\ delivery' = "ACCEPTED" => sent' # {}
      /\ \A w \in Daemon : sendAt'[w] = "confirmed" \/ queueAt'[w] = "answered" => sent' # {}
      /\ rowStatus'[TheRow] = "SENT" => sent' # {}
<1>4. Rest
  <2>0. rowStatus[TheRow] = "SENT" => sent # {}
    BY SMTT(30) DEF DeliveryInv, Y!RecordedWasSent, TheRow
  <2> USE OneRow, <1>0, <2>0 DEF DeliveryInv, ReceiptTyped, QueueInv, QueueTyped, Uncertain,
          Y!M!ReceiptStatus, Y!M!Point, Y!M!GoTo, Y!M!Finish, Y!M!row, Y!M!call, Y!M!graph
  <2>1. ASSUME NEW w \in Daemon, Y!Continues(w) PROVE Rest
    <3>1. queueAt[w] = "cleared" /\ UNCHANGED <<queueAt, rowCalls, rowStatus>>
      BY <2>1 DEF Y!Continues, Y!outreach
    <3>2. CASE \E i \in Letter : Y!M!Begin(w, i)
      BY <3>1, <3>2 DEF Y!M!Begin, Y!M!Branch
    <3>3. CASE Y!M!Recover(w) \/ Y!M!ClaimCreate(w) \/ Y!M!DraftCreated(w)
      BY <3>1, <3>3 DEF Y!M!Recover, Y!M!ClaimCreate, Y!M!DraftCreated
    <3>4. CASE Y!M!ClaimSubmit(w) \/ Y!M!ReconcileSent(w)
      BY <3>1, <3>4 DEF Y!M!ClaimSubmit, Y!M!ReconcileSent
    <3>5. QED
      BY <2>1, <3>2, <3>3, <3>4 DEF Y!Continues
  <2>2. ASSUME NEW w \in Daemon, Y!O!ProviderCall(w)
        PROVE  /\ queueAt[w] = "cleared" /\ rowStatus' = rowStatus /\ rowCalls'[TheRow] >= 1
               /\ queueAt' \in {[queueAt EXCEPT ![w] = p] : p \in {"answered", "failed"}}
    BY <2>2 DEF Y!O!ProviderCall, Y!O!queue, Y!O!GoTo, Y!O!Point
  <2>3. ASSUME NEW w \in Daemon, Y!Returns(w) PROVE Rest
    <3>1. /\ queueAt[w] = "cleared" /\ rowStatus' = rowStatus /\ rowCalls'[TheRow] >= 1
          /\ queueAt' \in {[queueAt EXCEPT ![w] = p] : p \in {"answered", "failed"}}
      BY <2>2, <2>3 DEF Y!Returns
    <3>2. CASE \E i \in Letter : Y!M!BeginAccepted(w, i)
      BY <3>1, <3>2 DEF Y!M!BeginAccepted
    <3>3. CASE Y!M!SubmitAccepted(w) \/ Y!M!ReconcileWrite(w)
      BY <3>1, <3>3 DEF Y!M!SubmitAccepted, Y!M!ReconcileWrite
    <3>4. QED
      BY <2>3, <3>2, <3>3 DEF Y!Returns
  <2>4. ASSUME NEW w \in Daemon, Y!Throws(w) PROVE Rest
    <3>1. /\ queueAt[w] = "cleared" /\ rowStatus' = rowStatus /\ rowCalls'[TheRow] >= 1
          /\ queueAt' \in {[queueAt EXCEPT ![w] = p] : p \in {"answered", "failed"}}
          /\ queueAt'[w] = "failed"
      BY <2>2, <2>4 DEF Y!Throws
    <3>2. CASE Y!Refused(w)
      BY <3>1, <3>2 DEF Y!Refused, Y!receipt
    <3>3. CASE Y!M!ClaimCreateLost(w) \/ Y!M!DraftRejected(w) \/ Y!M!DraftUncertain(w)
      BY <3>1, <3>3 DEF Y!M!ClaimCreateLost, Y!M!DraftRejected, Y!M!DraftUncertain
    <3>4. CASE Y!M!ClaimSubmitLost(w) \/ Y!M!SubmitUncertain(w) \/ Y!M!ReconcileUncertain(w)
      BY <3>1, <3>4 DEF Y!M!ClaimSubmitLost, Y!M!SubmitUncertain, Y!M!ReconcileUncertain
    <3>5. QED
      BY <2>4, <3>2, <3>3, <3>4 DEF Y!Throws
  <2>5. ASSUME NEW w \in Daemon, Y!Queue(w) PROVE Rest
    <3> USE DEF Y!O!GoTo, Y!O!NextCandidate, Y!O!Release, Y!O!queue, Y!O!provider, Y!O!Point,
            Y!O!RowStatus
    <3> DEFINE Moved ==
          /\ queueAt[w] # "cleared" /\ queueAt'[w] # "answered"
          /\ \A o \in Daemon : o # w => queueAt'[o] = queueAt[o]
          /\ rowCalls' = rowCalls
          /\ rowStatus'[TheRow] = "SENT" => rowStatus[TheRow] = "SENT" \/ queueAt[w] = "answered"
    <3>1. Moved
      <4>1. CASE Y!O!StartPass(w) \/ Y!O!EndPass(w)
        BY <4>1, SMTT(30) DEF Y!O!StartPass, Y!O!EndPass
      <4>2. ASSUME NEW x \in Y!O!Row, Y!O!Prepare(w, x) PROVE Moved
        BY <4>2, SMTT(30) DEF Y!O!Prepare, Y!O!Takes, Y!O!SkipRow, Y!O!CloseRow, Y!O!DeferRow, Y!O!DropRow, Y!O!ClaimRow
      <4>3. CASE Y!O!Recheck(w)
        BY <4>3 DEF Y!O!Recheck, Y!O!RecheckLost, Y!O!RecheckClosed, Y!O!RecheckWaits,
             Y!O!RecheckClear, Y!O!RecheckFails
      <4>4. CASE Y!O!Record(w)
        BY <4>4 DEF Y!O!Record, Y!O!RecordSent, Y!O!RecordLost, Y!O!RecordFails
      <4>5. CASE Y!O!FailRow(w)
        BY <4>5 DEF Y!O!FailRow
      <4>6. QED
        BY <2>5, <4>1, <4>2, <4>3, <4>4, <4>5, ZenonT(40) DEF Y!Queue
    <3>2. UNCHANGED <<delivery, sendAt, sent>>
      BY <2>5 DEF Y!Queue, Y!receipt
    <3>3. QED
      BY <3>1, <3>2
  <2>6. ASSUME NEW w \in Daemon, Y!Crash(w) PROVE Rest
    <3>1. /\ queueAt' = [queueAt EXCEPT ![w] = "idle"] /\ UNCHANGED <<rowStatus, rowCalls>>
      BY <2>6 DEF Y!Crash, Y!O!Crash, Y!O!queue, Y!O!provider
    <3>2. /\ sendAt' \in {sendAt, [sendAt EXCEPT ![w] = "idle"]} /\ sendAt'[w] = "idle"
          /\ UNCHANGED <<delivery, sent>>
      BY <2>6 DEF Y!Crash, Y!receipt, Y!M!Crash
    <3>3. QED
      BY <3>1, <3>2
  <2>7. ASSUME Y!Around PROVE Rest
    <3>1. UNCHANGED <<delivery, sendAt, sent>>
      BY <2>7 DEF Y!Around, Y!receipt
    <3>2. /\ UNCHANGED <<queueAt, rowCalls>>
          /\ rowStatus'[TheRow] = "SENT" => rowStatus[TheRow] = "SENT"
      <4> USE DEF Y!O!worker, Y!O!provider
      <4>1. CASE Y!O!Sweep
        BY <4>1 DEF Y!O!Sweep
      <4>2. CASE Y!O!Clock
        BY <4>2 DEF Y!O!Clock, Y!O!LeaseExpires, Y!O!BecomesDue, Y!O!DayPasses
      <4>3. CASE Y!O!Outside
        BY <4>3 DEF Y!O!Outside, Y!O!Suppress, Y!O!CancelRows
      <4>4. QED
        BY <2>7, <4>1, <4>2, <4>3 DEF Y!Around
    <3>3. QED
      BY <3>1, <3>2
  <2>8. ASSUME Y!Graph PROVE Rest
    <3>1. UNCHANGED <<queueAt, rowCalls, rowStatus, delivery, sendAt>> /\ sent \subseteq sent'
      BY <2>8, SMTT(30) DEF Y!Graph, Y!outreach, Y!M!GraphStep, Y!M!GraphSends, Y!M!GraphLoses
    <3>2. QED
      BY <3>1
  <2>9. CASE UNCHANGED Y!vars
    BY <2>9 DEF Y!vars, Y!receipt, Y!outreach
  <2>10. QED
    BY <2>1, <2>3, <2>4, <2>5, <2>6, <2>7, <2>8, <2>9 DEF Y!Next
<1>5. QED
  BY <1>0, <1>1, <1>2, <1>3, <1>4 DEF DeliveryInv, Y!RecordedWasSent, TheRow

-----------------------------------------------------------------------------
(* The count of drafts is the one the theorems on finite sets are about. *)
LEMMA SameDrafts == \A S : Y!Cardinality(S) = Cardinality(S)
  BY Zenon DEF Y!Cardinality, Cardinality

(* worker.ts:325: a row is SENT only when its message was; m365/send.ts:65: a second
   message needs two resets that overlap, and they a third attempt. *)
LEMMA DeliveryHolds == Y!Spec => [](Y!RecordedWasSent /\ Y!DuplicateTakesThree)
<1>1. Y!Init => DeliveryInv
  <2> SUFFICES ASSUME Y!Init PROVE DeliveryInv
    OBVIOUS
  <2> USE OneRow DEF Y!Init, Y!O!Init, Y!M!Init
  <2>1. QueueInv
    <3>1. Calling = {}
      BY DEF Calling
    <3>2. Cardinality(Calling) = 0
      BY <3>1, FS_EmptySet
    <3>3. \A r \in Y!O!Row : r # TheRow => r[2] # 1
      <4>1. PICK c : Addressee = {c}
        BY DeliveriesAssumption
      <4>2. \A r \in Y!O!Row : r = <<c, r[2]>>
        BY <4>1 DEF Y!O!Row
      <4>3. QED
        BY <4>2
    <3>4. QED
      BY <3>2, <3>3 DEF QueueInv, QueueTyped, UsedUp, MayReturn, Y!O!Point, Y!O!RowStatus
  <2>2. ReceiptTyped /\ Single
    BY DEF ReceiptTyped, Single, Y!M!OneCreator, Y!M!OneDraft, Y!M!ReceiptStatus, Y!M!Point
  <2>3. QED
    BY <2>1, <2>2 DEF DeliveryInv, Uncertain, Y!RecordedWasSent, TheRow
<1>2. DeliveryInv => Y!RecordedWasSent /\ Y!DuplicateTakesThree
  <2> SUFFICES ASSUME DeliveryInv, Cardinality(sent) > 1 PROVE attempts[TheRow] >= 3
    BY SameDrafts DEF DeliveryInv, Y!DuplicateTakesThree, TheRow
  <2>1. ~Single
    <3> SUFFICES ASSUME Single PROVE FALSE
      OBVIOUS
    <3>1. sent \in SUBSET {draftId}
      BY DEF Single, Y!M!OneDraft
    <3>2. IsFiniteSet({draftId}) /\ Cardinality({draftId}) = 1
      BY FS_Singleton
    <3>3. IsFiniteSet(sent) /\ Cardinality(sent) <= Cardinality({draftId})
      BY <3>1, <3>2, FS_Subset
    <3>4. Cardinality(sent) \in Nat
      BY <3>3, FS_CardinalityType
    <3>5. QED
      BY <3>2, <3>3, <3>4
  <2>2. UsedUp \in Int /\ UsedUp <= attempts[TheRow] /\ attempts[TheRow] \in Nat
    BY OneRow DEF DeliveryInv, QueueInv, QueueTyped, UsedUp
  <2>3. QED
    BY <2>1, <2>2 DEF DeliveryInv
<1>3. QED
  BY <1>1, <1>2, DeliveryStep, PTL DEF Y!Spec

-----------------------------------------------------------------------------
(* Of the two ways to name it, joining is the same. *)
LEMMA SameJoined == ASSUME NEW l PROVE E!FlattenSeq(l) = Ext!FlattenSeq(l)
  BY Zenon DEF E!FlattenSeq, Ext!FlattenSeq
-----------------------------------------------------------------------------
(* Texts of messages. *)
Clean == (E!Piece \ {"open", "shut", "coupon"}) \cup {"escaped", "footer"}

Footers == {"line", "anchor", "footer"}

(* The footer goes in among the pieces of the text or at its end, and has no tags. *)
LEMMA SameTagged == \A s : E!Cardinality(s) = Cardinality(s)
  BY Zenon DEF E!Cardinality, Cardinality

Tagged(t) == {k \in DOMAIN t : t[k] = "tag"}

LEMMA TaggedIsFinite ==
    ASSUME NEW Of, NEW t \in Seq(Of)
    PROVE  IsFiniteSet(Tagged(t)) /\ E!Tags(t) = Cardinality(Tagged(t))
<1>1. PICK n \in Nat : DOMAIN t = 1..n
  OBVIOUS
<1>2. Tagged(t) \subseteq 1..n /\ IsFiniteSet(1..n)
  BY <1>1, FS_Interval DEF Tagged
<1>3. E!Tags(t) = E!Cardinality(Tagged(t))
  BY Zenon DEF E!Tags, Tagged
<1>4. QED
  BY <1>2, <1>3, FS_Subset, SameTagged

LEMMA Ended ==
    ASSUME NEW Of, NEW u \in Seq(Of), NEW b \in Seq(Of), NEW w, w = u \o b,
           NEW k \in Nat, NEW m \in Nat, k = Len(u), m = Len(b)
    PROVE  /\ w \in Seq(Of) /\ Len(w) = k + m
           /\ \A j \in 1..k : w[j] = u[j]
           /\ \A j \in k + 1..k + m : w[j] = b[j - k]
  OBVIOUS

LEMMA TagsInserted ==
    ASSUME NEW Of, NEW t \in Seq(Of), NEW w \in Seq(Of), NEW k \in 1..Len(t) + 1,
           Len(w) = Len(t) + 1, w[k] # "tag",
           \A j \in 1..Len(t) : j < k => w[j] = t[j],
           \A j \in 1..Len(t) : j >= k => w[j + 1] = t[j]
    PROVE  E!Tags(w) = E!Tags(t)
<1> DEFINE g == [j \in Tagged(t) |-> IF j < k THEN j ELSE j + 1]
<1>1. /\ Tagged(t) = {j \in 1..Len(t) : t[j] = "tag"}
      /\ Tagged(w) = {j \in 1..Len(t) + 1 : w[j] = "tag"}
      /\ Len(t) \in Nat
  BY DEF Tagged
<1>2. g \in [Tagged(t) -> Tagged(w)]
  <2>1. ASSUME NEW j \in Tagged(t) PROVE g[j] \in Tagged(w)
    BY <1>1
  <2>2. QED
    BY <2>1
<1>3. \A x, y \in Tagged(t) : g[x] = g[y] => x = y
  BY <1>1
<1>4. ASSUME NEW j \in Tagged(w) PROVE \E x \in Tagged(t) : g[x] = j
  <2>1. CASE j < k
    <3>1. j \in Tagged(t) /\ g[j] = j
      BY <1>1, <2>1
    <3>2. QED
      BY <3>1
  <2>2. CASE j > k
    <3>1. j - 1 \in Tagged(t) /\ g[j - 1] = j
      <4>1. j - 1 \in 1..Len(t) /\ j - 1 >= k /\ (j - 1) + 1 = j
        BY <1>1, <2>2
      <4>2. t[j - 1] = "tag"
        BY <1>1, <4>1
      <4>3. QED
        BY <1>1, <4>1, <4>2
    <3>2. QED
      BY <3>1
  <2>3. j # k /\ j \in Nat
    BY <1>1
  <2>4. QED
    BY <2>1, <2>2, <2>3
<1> HIDE DEF g
<1>5. g \in Bijection(Tagged(t), Tagged(w))
  BY <1>2, <1>3, <1>4 DEF Bijection, Injection, Surjection, IsInjective
<1>6. ExistsBijection(Tagged(t), Tagged(w))
  BY <1>5 DEF ExistsBijection
<1>7. IsFiniteSet(Tagged(t)) /\ E!Tags(t) = Cardinality(Tagged(t))
      /\ E!Tags(w) = Cardinality(Tagged(w))
  BY TaggedIsFinite
<1>8. QED
  BY <1>6, <1>7, FS_Bijection

LEMMA FooterGoesIn ==
    ASSUME NEW Of, "footer" \in Of, NEW t \in Seq(Of), NEW html \in BOOLEAN
    PROVE  LET w == E!WithFooter(t, html) IN
           /\ w \in Seq(Of) /\ E!HasAny(w, Footers)
           /\ E!Tags(w) = E!Tags(t)
<1> DEFINE w == E!WithFooter(t, html)
<1> DEFINE closing == {i \in 1..Len(t) : t[i] = "close"}
<1> DEFINE k == IF closing # {} THEN CHOOSE x \in closing : \A y \in closing : x =< y ELSE 0
<1>1. CASE E!HasAny(t, Footers)
  <2>1. w = t
    BY <1>1 DEF E!WithFooter, Footers
  <2>2. QED
    BY <1>1, <2>1
<1>2. CASE ~ E!HasAny(t, Footers) /\ html /\ E!HasAny(t, {"close"})
  <2>1. w = E!InsertAt(t, k, "footer")
    BY Zenon, <1>2 DEF E!WithFooter, Footers, E!SelectInSeq, E!Min
  <2>2. k \in 1..Len(t)
    <3>1. closing # {} /\ closing \in SUBSET Nat
      BY <1>2 DEF E!HasAny
    <3>2. \E x \in closing : \A y \in closing : x =< y
      BY <3>1, Least
    <3> HIDE DEF closing
    <3>3. k \in closing
      BY Zenon, <3>1, <3>2
    <3>4. QED
      BY <3>3 DEF closing
  <2> HIDE DEF k
  <2>3. w = SubSeq(t, 1, k - 1) \o <<"footer">> \o SubSeq(t, k, Len(t))
    BY <2>1 DEF E!InsertAt
  <2>4. PICK n \in Nat : n = Len(t)
    OBVIOUS
  <2>5. PICK a, b : a = SubSeq(t, 1, k - 1) /\ b = SubSeq(t, k, n)
    OBVIOUS
  <2>6. /\ a \in Seq(Of) /\ Len(a) = k - 1 /\ \A j \in 1..k - 1 : a[j] = t[j]
        /\ b \in Seq(Of) /\ Len(b) = n - k + 1 /\ \A j \in 1..n - k + 1 : b[j] = t[k + j - 1]
    BY <2>2, <2>4, <2>5
  <2>7. PICK u : u = a \o <<"footer">>
    OBVIOUS
  <2>8. u \in Seq(Of) /\ Len(u) = k /\ u[k] = "footer" /\ \A j \in 1..k - 1 : u[j] = t[j]
    BY <2>2, <2>6, <2>7
  <2>9. w = u \o b
    BY <2>3, <2>4, <2>5, <2>7
  <2> HIDE DEF w
  <2>10. /\ w \in Seq(Of) /\ Len(w) = n + 1
         /\ \A j \in 1..k : w[j] = u[j]
         /\ \A j \in k + 1..n + 1 : w[j] = b[j - k]
    <3>1. k \in Nat /\ n - k + 1 \in Nat /\ k + (n - k + 1) = n + 1
      BY <2>2, <2>4
    <3>2. PICK m \in Nat : m = n - k + 1
      BY <3>1
    <3>3. /\ w \in Seq(Of) /\ Len(w) = k + m
          /\ \A j \in 1..k : w[j] = u[j]
          /\ \A j \in k + 1..k + m : w[j] = b[j - k]
      <4>1. k = Len(u) /\ m = Len(b) /\ u \in Seq(Of) /\ b \in Seq(Of)
        BY <2>6, <2>8, <3>2
      <4>2. QED
        BY ONLY <2>9, <3>1, <3>2, <4>1, Ended
    <3>4. QED
      BY <3>1, <3>2, <3>3
  <2>11. w[k] = "footer" /\ k \in 1..n + 1 /\ k \in DOMAIN w
    BY <2>2, <2>4, <2>8, <2>10
  <2>12. \A j \in 1..n : j < k => w[j] = t[j]
    BY <2>2, <2>4, <2>8, <2>10
  <2>13. ASSUME NEW j \in 1..n, j >= k PROVE w[j + 1] = t[j]
    <3>1. j + 1 \in k + 1..n + 1 /\ (j + 1) - k \in 1..n - k + 1
          /\ k + ((j + 1) - k) - 1 = j
      BY <2>2, <2>4, <2>13
    <3>2. QED
      BY <2>6, <2>10, <3>1
  <2>14. E!Tags(w) = E!Tags(t)
    BY <2>4, <2>10, <2>11, <2>12, <2>13, TagsInserted
  <2>15. E!HasAny(w, Footers)
    BY <2>11 DEF E!HasAny, Footers
  <2>16. QED
    BY <2>10, <2>14, <2>15 DEF w
<1>3. CASE ~ E!HasAny(t, Footers) /\ ~ (html /\ E!HasAny(t, {"close"}))
  <2>1. w = Append(t, "footer")
    BY Zenon, <1>3 DEF E!WithFooter, Footers
  <2>2. PICK n \in Nat : n = Len(t)
    OBVIOUS
  <2> HIDE DEF w
  <2>3. w \in Seq(Of) /\ Len(w) = n + 1 /\ w[n + 1] = "footer" /\ \A j \in 1..n : w[j] = t[j]
    BY <2>1, <2>2
  <2>4. n + 1 \in 1..n + 1 /\ n + 1 \in DOMAIN w /\ \A j \in 1..n : ~ (j >= n + 1)
    BY <2>2, <2>3
  <2>5. E!Tags(w) = E!Tags(t)
    BY <2>2, <2>3, <2>4, TagsInserted
  <2>6. E!HasAny(w, Footers)
    BY <2>3, <2>4 DEF E!HasAny, Footers
  <2>7. QED
    BY <2>3, <2>5, <2>6 DEF w
<1>4. QED
  BY <1>1, <1>2, <1>3
-----------------------------------------------------------------------------
Parts(t, value) == [k \in DOMAIN t |-> IF E!Paired(t, k) THEN value
                                       ELSE IF E!InPlaceholder(t, k) THEN <<>> ELSE <<t[k]>>]

LEMMA PartsAre ==
    ASSUME NEW t \in Seq(E!Piece), ~ E!TemplateIssue(t), NEW value \in Seq(Clean)
    PROVE  Parts(t, value) \in Seq(Seq(Clean))
<1>1. PICK n \in Nat : n = Len(t) /\ DOMAIN t = 1..n
  OBVIOUS
<1>2. ASSUME NEW k \in 1..n, ~ E!InPlaceholder(t, k) PROVE t[k] \in Clean
  BY <1>1, <1>2 DEF E!TemplateIssue, Clean
<1>3. ASSUME NEW k \in 1..n PROVE Parts(t, value)[k] \in Seq(Clean)
  <2>1. <<>> \in Seq(Clean) /\ \A x \in Clean : <<x>> \in Seq(Clean)
    OBVIOUS
  <2>2. E!Paired(t, k) => E!InPlaceholder(t, k)
    BY DEF E!InPlaceholder
  <2>3. Parts(t, value)[k] = IF E!Paired(t, k) THEN value
                            ELSE IF E!InPlaceholder(t, k) THEN <<>> ELSE <<t[k]>>
    BY <1>1 DEF Parts
  <2>4. QED
    BY <1>2, <2>1, <2>3
<1>4. Parts(t, value) = [k \in 1..n |-> Parts(t, value)[k]]
  BY <1>1 DEF Parts
<1>5. QED
  <2>1. PICK l : l = Parts(t, value)
    OBVIOUS
  <2>2. PICK seqs : seqs = Seq(Clean)
    OBVIOUS
  <2>3. l = [k \in 1..n |-> l[k]] /\ \A k \in 1..n : l[k] \in seqs
    BY <1>3, <1>4, <2>1, <2>2
  <2>4. l \in Seq(seqs)
    BY <2>3, SMTT(30)
  <2>5. QED
    BY <2>1, <2>2, <2>4

LEMMA FilledIs ==
    ASSUME NEW t \in Seq(E!Piece), ~ E!TemplateIssue(t), NEW value \in Seq(Clean)
    PROVE  E!Filled(t, value) \in Seq(Clean)
<1>1. E!Filled(t, value) = E!FlattenSeq(Parts(t, value))
  BY Zenon DEF E!Filled, Parts
<1>2. QED
  BY <1>1, PartsAre, SameJoined, FlattenedIs

(* A text that goes on with at most one piece. *)
LEMMA TagsAppended ==
    ASSUME NEW a \in Seq(Clean), NEW b \in Seq(Clean),
           \/ \A j \in DOMAIN b : b[j] # "tag"
           \/ b = <<"tag">>
    PROVE  E!Tags(a \o b) = E!Tags(a) + (IF b = <<"tag">> THEN 1 ELSE 0)
<1>0. PICK m \in Nat, n \in Nat : m = Len(a) /\ n = Len(b)
  OBVIOUS
<1>1. PICK w : m = Len(a) /\ n = Len(b) /\ w = a \o b
  BY <1>0
<1>2. /\ w \in Seq(Clean) /\ Len(w) = m + n
      /\ \A j \in 1..m : w[j] = a[j]
      /\ \A j \in m + 1..m + n : w[j] = b[j - m]
  BY ONLY <1>1, a \in Seq(Clean), b \in Seq(Clean), m \in Nat, n \in Nat, Ended
<1>3. /\ Tagged(a) = {j \in 1..m : a[j] = "tag"}
      /\ Tagged(w) = {j \in 1..m + n : w[j] = "tag"}
      /\ DOMAIN b = 1..n
  BY <1>1, <1>2 DEF Tagged
<1>4. /\ IsFiniteSet(Tagged(a)) /\ E!Tags(a) = Cardinality(Tagged(a))
      /\ E!Tags(w) = Cardinality(Tagged(w)) /\ Cardinality(Tagged(a)) \in Nat
  BY <1>2, TaggedIsFinite, FS_CardinalityType
<1>5. CASE b = <<"tag">>
  <2>1. n = 1 /\ w[m + 1] = "tag"
    BY <1>1, <1>2, <1>5
  <2>2. Tagged(w) = Tagged(a) \cup {m + 1} /\ m + 1 \notin Tagged(a)
    BY <1>2, <1>3, <2>1
  <2>3. Cardinality(Tagged(w)) = Cardinality(Tagged(a)) + 1
    BY <1>4, <2>2, FS_AddElement
  <2>4. QED
    BY <1>1, <1>4, <1>5, <2>3
<1>6. CASE b # <<"tag">>
  <2>1. \A j \in m + 1..m + n : w[j] # "tag"
    <3>1. ASSUME NEW j \in m + 1..m + n PROVE w[j] # "tag"
      <4>1. j - m \in 1..n
        OBVIOUS
      <4>2. b[j - m] # "tag"
        BY <1>3, <1>6, <4>1
      <4>3. QED
        BY <1>2, <4>2
    <3>2. QED
      BY <3>1
  <2>2. Tagged(w) = Tagged(a)
    BY <1>2, <1>3, <2>1
  <2>3. QED
    BY <1>1, <1>4, <1>6, <2>2
<1>7. QED
  BY <1>5, <1>6

Before(t, k) == {j \in 1..k : t[j] = "tag"}

LEMMA BeforeStep ==
    ASSUME NEW t, NEW k \in Nat, k > 1
    PROVE  Cardinality(Before(t, k))
             = Cardinality(Before(t, k - 1)) + (IF t[k] = "tag" THEN 1 ELSE 0)
<1>1. IsFiniteSet(Before(t, k - 1)) /\ Cardinality(Before(t, k - 1)) \in Nat
  <2>1. Before(t, k - 1) \subseteq 1..k - 1 /\ IsFiniteSet(1..k - 1)
    BY FS_Interval DEF Before
  <2>2. QED
    BY <2>1, FS_Subset, FS_CardinalityType
<1>2. CASE t[k] = "tag"
  <2>1. Before(t, k) = Before(t, k - 1) \cup {k} /\ k \notin Before(t, k - 1)
    BY <1>2 DEF Before
  <2>2. QED
    BY <1>1, <1>2, <2>1, FS_AddElement
<1>3. CASE t[k] # "tag"
  <2>1. Before(t, k) = Before(t, k - 1)
    BY <1>3 DEF Before
  <2>2. QED
    BY <1>1, <1>3, <2>1
<1>4. QED
  BY <1>2, <1>3

(* What is filled in has no markup, and nothing of the template's is lost. *)
LEMMA TagsFilled ==
    ASSUME NEW t \in Seq(E!Piece), ~ E!TemplateIssue(t), NEW value \in Seq(Clean),
           \A j \in DOMAIN value : value[j] # "tag"
    PROVE  E!Tags(E!Filled(t, value)) = E!Tags(t)
<1>1. PICK n \in Nat : n = Len(t) /\ DOMAIN t = 1..n
  OBVIOUS
<1>2. PICK l : l = Parts(t, value)
  OBVIOUS
<1>3. l \in Seq(Seq(Clean)) /\ Len(l) = n
  <2>1. DOMAIN l = 1..n
    BY <1>1, <1>2 DEF Parts
  <2>2. l \in Seq(Seq(Clean))
    BY <1>2, PartsAre
  <2>3. QED
    BY <2>1, <2>2
<1>4. E!Filled(t, value) = E!FlattenSeq(l)
  BY Zenon, <1>2 DEF E!Filled, Parts
<1>5. ASSUME NEW k \in 1..n
      PROVE  /\ l[k] \in Seq(Clean)
             /\ (\A j \in DOMAIN l[k] : l[k][j] # "tag") \/ l[k] = <<"tag">>
             /\ l[k] = <<"tag">> <=> t[k] = "tag"
  <2>1. l[k] = IF E!Paired(t, k) THEN value
               ELSE IF E!InPlaceholder(t, k) THEN <<>> ELSE <<t[k]>>
    BY <1>1, <1>2 DEF Parts
  <2>2. l[k] \in Seq(Clean)
    BY <1>3
  <2>3. CASE E!Paired(t, k)
    <3>1. l[k] = value /\ t[k] = "open"
      BY <2>1, <2>3 DEF E!Paired
    <3>2. value # <<"tag">>
      OBVIOUS
    <3>3. QED
      BY <2>2, <3>1, <3>2
  <2>4. CASE ~ E!Paired(t, k) /\ E!InPlaceholder(t, k)
    <3>1. l[k] = <<>>
      BY <2>1, <2>4
    <3>2. t[k] = "shut"
      BY <1>1, <2>4 DEF E!InPlaceholder, E!Paired
    <3>3. QED
      BY <2>2, <3>1, <3>2
  <2>5. CASE ~ E!Paired(t, k) /\ ~ E!InPlaceholder(t, k)
    <3>1. l[k] = <<t[k]>>
      BY <2>1, <2>5
    <3>2. QED
      BY <2>2, <3>1
  <2>6. QED
    BY <2>3, <2>4, <2>5
<1>6. CASE n = 0
  <2>1. Len(l) = 0 /\ l = <<>> /\ t = <<>>
    BY <1>1, <1>3, <1>6
  <2>2. E!FlattenSeq(l) = l
    BY Zenon, <2>1 DEF E!FlattenSeq
  <2>3. QED
    BY <1>4, <2>1, <2>2
<1>7. CASE n > 0
  <2>1. PICK f : Joins(f, l, n) /\ E!FlattenSeq(l) = f[n]
    BY <1>3, <1>7, SameJoined, FlattenJoins
  <2>0. /\ n > 0 => f[1] = l[1]
        /\ \A k \in 1..n : k > 1 => k - 1 \in 1..n /\ f[k] = f[k - 1] \o l[k]
    BY <2>1, JoinsStep, ZenonT(40)
  <2>2. \A k \in 1..n : f[k] \in Seq(Clean)
    BY <1>3, <2>1, JoinedAre
  <2> DEFINE Bad == {k \in 1..n : E!Tags(f[k]) # Cardinality(Before(t, k))}
  <2>3. ASSUME Bad # {} PROVE FALSE
    <3>1. Bad \in SUBSET Nat
      OBVIOUS
    <3>2. PICK k \in Bad : \A q \in Bad : k <= q
      BY <2>3, <3>1, Least
    <3>3. k \in 1..n /\ E!Tags(f[k]) # Cardinality(Before(t, k))
      BY <3>2
    <3>4. CASE k = 1
      <4>1. f[1] = l[1] /\ 1 \in 1..n
        BY <1>7, <2>0
      <4>2. E!Tags(f[1]) = Cardinality(Tagged(f[1]))
        BY <2>2, <4>1, TaggedIsFinite
      <4>3. CASE t[1] = "tag"
        <5>1. f[1] = <<"tag">>
          BY <1>5, <4>1, <4>3
        <5>2. Tagged(f[1]) = {1} /\ Before(t, 1) = {1}
          BY <4>3, <5>1 DEF Tagged, Before
        <5>3. QED
          BY <3>3, <3>4, <4>2, <5>2
      <4>4. CASE t[1] # "tag"
        <5>1. \A j \in DOMAIN f[1] : f[1][j] # "tag"
          BY <1>5, <4>1, <4>4
        <5>2. Tagged(f[1]) = {} /\ Before(t, 1) = {}
          BY <4>4, <5>1 DEF Tagged, Before
        <5>3. QED
          BY <3>3, <3>4, <4>2, <5>2
      <4>5. QED
        BY <4>3, <4>4
    <3>5. CASE k > 1
      <4>1. k - 1 \in 1..n /\ f[k] = f[k - 1] \o l[k]
        BY <2>0, <3>3, <3>5
      <4>2. E!Tags(f[k - 1]) = Cardinality(Before(t, k - 1))
        BY <3>2, <4>1
      <4>3. E!Tags(f[k]) = E!Tags(f[k - 1]) + (IF l[k] = <<"tag">> THEN 1 ELSE 0)
        <5>1. PICK a, b : a = f[k - 1] /\ b = l[k]
          OBVIOUS
        <5>2. /\ a \in Seq(Clean) /\ b \in Seq(Clean)
              /\ (\A j \in DOMAIN b : b[j] # "tag") \/ b = <<"tag">>
          BY <1>5, <2>2, <3>3, <4>1, <5>1
        <5>3. E!Tags(a \o b) = E!Tags(a) + (IF b = <<"tag">> THEN 1 ELSE 0)
          BY <5>2, TagsAppended
        <5>4. QED
          BY Zenon, <4>1, <5>1, <5>3
      <4>4. Cardinality(Before(t, k))
              = Cardinality(Before(t, k - 1)) + (IF t[k] = "tag" THEN 1 ELSE 0)
        BY <3>3, <3>5, BeforeStep
      <4>5. l[k] = <<"tag">> <=> t[k] = "tag"
        BY <1>5, <3>3
      <4>6. QED
        BY <3>3, <4>2, <4>3, <4>4, <4>5
    <3>6. QED
      BY <3>3, <3>4, <3>5
  <2>4. E!Tags(f[n]) = Cardinality(Before(t, n))
    <3>1. n \in 1..n
      BY <1>7
    <3>2. QED
      BY <2>3, <3>1
  <2>5. Before(t, n) = Tagged(t)
    BY <1>1 DEF Before, Tagged
  <2>6. E!Tags(t) = Cardinality(Tagged(t))
    BY TaggedIsFinite
  <2>7. QED
    BY <1>4, <2>1, <2>4, <2>5, <2>6
<1>8. QED
  BY <1>6, <1>7
-----------------------------------------------------------------------------
(* What a rendering that does not fail gives. *)
LEMMA RenderIs ==
    ASSUME NEW s, NEW b, NEW value, NEW address,
           E!Render(None, [subject |-> s, body |-> b], value, address).failed = None
    PROVE  LET html    == E!IsHtml(b)
               filled == E!Filled(b, IF html THEN E!Escaped(value) ELSE value)
           IN  /\ ~ E!TemplateIssue(s) /\ ~ E!TemplateIssue(b)
               /\ E!HasAny(E!Filled(s, value), E!Piece \ {"space"})
               /\ E!Render(None, [subject |-> s, body |-> b], value, address)
                    = [failed |-> None, subject |-> E!Filled(s, value),
                       body |-> E!WithFooter(filled, html), html |-> html]
<1> DEFINE t == [subject |-> s, body |-> b]
<1> DEFINE html == E!IsHtml(b)
<1> DEFINE filled == E!Filled(b, IF html THEN E!Escaped(value) ELSE value)
<1> DEFINE subject == E!Filled(s, value)
<1>1. t.subject = s /\ t.body = b
  OBVIOUS
<1> HIDE DEF t
<1>2. E!Render(None, t, value, address) =
        IF E!TemplateIssue(s) \/ E!TemplateIssue(b)
        THEN [failed |-> "unknown_template_variable"]
        ELSE IF ~ E!HasAny(subject, E!Piece \ {"space"}) THEN [failed |-> "mail_subject_blank"]
        ELSE IF ~ E!Visible(filled) THEN [failed |-> "mail_body_effectively_empty"]
        ELSE IF ~ address THEN [failed |-> "postal_address_missing"]
        ELSE [failed |-> None, subject |-> subject, body |-> E!WithFooter(filled, html),
              html |-> html]
  BY Zenon, <1>1 DEF E!Render
<1>3. PICK r : r = E!Render(None, t, value, address)
  OBVIOUS
<1>4. r.failed = None
  BY <1>3 DEF t
<1>5. PICK good : good = [failed |-> None, subject |-> subject,
                          body |-> E!WithFooter(filled, html), html |-> html]
  OBVIOUS
<1> HIDE DEF html, filled, subject
<1>6. /\ ~ (E!TemplateIssue(s) \/ E!TemplateIssue(b))
      /\ E!HasAny(subject, E!Piece \ {"space"})
      /\ r = good
  <2>1. \/ r = [failed |-> "unknown_template_variable"]
        \/ r = [failed |-> "mail_subject_blank"]
        \/ r = [failed |-> "mail_body_effectively_empty"]
        \/ r = [failed |-> "postal_address_missing"]
        \/ /\ ~ (E!TemplateIssue(s) \/ E!TemplateIssue(b))
           /\ E!HasAny(subject, E!Piece \ {"space"})
           /\ r = good
    BY Zenon, <1>2, <1>3, <1>5
  <2>2. ASSUME NEW why, r = [failed |-> why] PROVE r.failed = why
    BY <2>2
  <2>3. QED
    BY <1>4, <2>1, <2>2, TextsAssumption
<1>7. QED
  BY Zenon, <1>3, <1>5, <1>6 DEF t, html, filled, subject

(* What was rendered is taken as it is. *)
LEMMA RenderAgain ==
    ASSUME NEW s, NEW b, NEW template, NEW value, None # [subject |-> s, body |-> b],
           E!HasAny(s, E!Piece \ {"space"}), E!HasAny(b, Footers)
    PROVE  E!Render([subject |-> s, body |-> b], template, value, TRUE)
             = [failed |-> None, subject |-> s, body |-> b, html |-> E!IsHtml(b)]
<1> DEFINE t == [subject |-> s, body |-> b]
<1>1. t.subject = s /\ t.body = b /\ t # None
  OBVIOUS
<1>2. E!Visible(b)
  BY DEF E!Visible, E!HasAny, Footers
<1>3. E!WithFooter(b, E!IsHtml(b)) = b
  BY DEF E!WithFooter, Footers
<1> HIDE DEF t
<1>4. E!Render(t, template, value, TRUE)
        = [failed |-> None, subject |-> s, body |-> E!WithFooter(b, E!IsHtml(b)),
           html |-> E!IsHtml(b)]
  BY Zenon, <1>1, <1>2 DEF E!Render
<1>5. QED
  BY Zenon, <1>3, <1>4 DEF t

MailOf(s, b, value, address, reachable) ==
    LET t == [subject |-> s, body |-> b] IN
    [template |-> t, value |-> value,
     mail |-> E!Render(None, t, value, address),
     review |-> E!Review(reachable, None, t, value, address)]

CopyInv ==
    mailAsked # None =>
        \E s \in Seq(E!Piece), b \in Seq(E!Piece), value \in E!Value,
           address \in BOOLEAN, reachable \in BOOLEAN :
              mailAsked = MailOf(s, b, value, address, reachable)

LEMMA CopyStep == ASSUME CopyInv, [E!Next]_mailAsked PROVE CopyInv'
<1>1. CASE E!AskMail
  <2>1. PICK s \in {<<"space">>, <<"words">>, <<"open">>, <<"open", "shut">>},
             b \in E!BoundedSeq(E!Piece, MaxPieces), value \in E!Value,
             address \in BOOLEAN, reachable \in BOOLEAN :
               mailAsked' = MailOf(s, b, value, address, reachable)
    <3>1. PICK s \in {<<"space">>, <<"words">>, <<"open">>, <<"open", "shut">>},
               b \in E!BoundedSeq(E!Piece, MaxPieces), value \in E!Value,
               address \in BOOLEAN, reachable \in BOOLEAN :
                 /\ E!Accepted(s, b)
                 /\ LET t == [subject |-> s, body |-> b] IN
                    mailAsked' = [template |-> t, value |-> value,
                                  mail |-> E!Render(None, t, value, address),
                                  review |-> E!Review(reachable, None, t, value, address)]
      BY Zenon, <1>1 DEF E!AskMail
    <3>2. QED
      BY Zenon, <3>1 DEF MailOf
  <2>2. b \in Seq(E!Piece)
    BY TextsAssumption DEF E!BoundedSeq, E!SeqOf
  <2>3. s \in Seq(E!Piece)
    <3>1. \A x, y : x \in E!Piece /\ y \in E!Piece
                     => <<x>> \in Seq(E!Piece) /\ <<x, y>> \in Seq(E!Piece)
      OBVIOUS
    <3>2. "space" \in E!Piece /\ "words" \in E!Piece /\ "open" \in E!Piece /\ "shut" \in E!Piece
      BY DEF E!Piece
    <3>3. QED
      BY <3>1, <3>2
  <2>4. QED
    BY Zenon, <2>1, <2>2, <2>3 DEF CopyInv
<1>2. CASE UNCHANGED mailAsked
  BY Zenon, <1>2 DEF CopyInv
<1>3. QED
  BY Zenon, <1>1, <1>2 DEF E!Next

LEMMA ValuesAreClean ==
    ASSUME NEW value \in E!Value
    PROVE  /\ value \in Seq(Clean) /\ E!Escaped(value) \in Seq(Clean)
           /\ \A j \in DOMAIN E!Escaped(value) : E!Escaped(value)[j] # "tag"
<1>1. /\ \A x, y : x \in Clean /\ y \in Clean
                     => <<x>> \in Seq(Clean) /\ <<x, y>> \in Seq(Clean)
      /\ <<>> \in Seq(Clean)
  OBVIOUS
<1>2. "words" \in Clean /\ "tag" \in Clean /\ "escaped" \in Clean
  BY DEF Clean, E!Piece
<1>3. value \in Seq(Clean)
  BY <1>1, <1>2 DEF E!Value
<1>4. PICK n \in Nat : n = Len(value) /\ DOMAIN value = 1..n
  BY <1>3
<1>5. \A k \in 1..n : value[k] \in Clean
  BY <1>3, <1>4
<1>6. E!Escaped(value) = [k \in 1..n |-> IF value[k] = "tag" THEN "escaped" ELSE value[k]]
  BY <1>4 DEF E!Escaped
<1>7. QED
  BY <1>2, <1>3, <1>5, <1>6

LEMMA TextsHold == E!Spec => [](E!RenderedOnce /\ E!FitToSend)
<1>1. E!Init => CopyInv
  BY DEF E!Init, CopyInv
<1>2. CopyInv => E!RenderedOnce /\ E!FitToSend
  <2> SUFFICES ASSUME CopyInv, E!Written PROVE E!RenderedOnce /\ E!FitToSend
    BY DEF E!RenderedOnce, E!FitToSend
  <2>1. PICK s \in Seq(E!Piece), b \in Seq(E!Piece), value \in E!Value,
             address \in BOOLEAN, reachable \in BOOLEAN :
               mailAsked = MailOf(s, b, value, address, reachable)
    BY DEF CopyInv, E!Written
  <2> DEFINE html == E!IsHtml(b)
  <2> DEFINE put == IF html THEN E!Escaped(value) ELSE value
  <2> DEFINE filled == E!Filled(b, put)
  <2> DEFINE subject == E!Filled(s, value)
  <2> DEFINE body == E!WithFooter(filled, html)
  <2>2. /\ E!Mail = E!Render(None, [subject |-> s, body |-> b], value, address)
        /\ mailAsked.template = [subject |-> s, body |-> b] /\ mailAsked.value = value
        /\ mailAsked.review
             = E!Review(reachable, None, [subject |-> s, body |-> b], value, address)
    BY <2>1 DEF E!Mail, MailOf
  <2>3. E!Mail.failed = None
    BY DEF E!Written
  <2>4. /\ ~ E!TemplateIssue(s) /\ ~ E!TemplateIssue(b)
        /\ E!HasAny(subject, E!Piece \ {"space"})
        /\ E!Mail = [failed |-> None, subject |-> subject, body |-> body, html |-> html]
    BY <2>2, <2>3, RenderIs, ZenonT(40)
  <2>5. /\ put \in Seq(Clean)
        /\ html => \A j \in DOMAIN put : put[j] # "tag"
    BY ValuesAreClean
  <2>6. subject \in Seq(Clean) /\ filled \in Seq(Clean)
    BY <2>4, <2>5, ValuesAreClean, FilledIs
  <2>7. html \in BOOLEAN
    BY DEF E!IsHtml, E!HasAny
  <2>8. /\ body \in Seq(Clean) /\ E!HasAny(body, Footers)
        /\ E!Tags(body) = E!Tags(filled)
    <3>1. "footer" \in Clean
      BY DEF Clean
    <3> HIDE DEF filled, html
    <3>2. QED
      BY <2>6, <2>7, <3>1, FooterGoesIn
  <2>9. E!RenderedOnce
    <3>1. None # [subject |-> subject, body |-> body]
      <4>1. PICK text : text = Seq(Clean) /\ None \notin [subject : text, body : text]
        <5>1. Clean \subseteq E!Piece \cup {"escaped", "footer"}
          BY DEF Clean
        <5>2. \A x \in Seq(Clean) : x \in Seq(E!Piece \cup {"escaped", "footer"})
          BY <5>1
        <5>3. QED
          BY <5>2, TextsAssumption
      <4> HIDE DEF subject, body
      <4>2. subject \in text /\ body \in text
        BY <2>6, <2>8, <4>1
      <4>3. QED
        BY <4>1, <4>2
    <3> HIDE DEF subject, body, filled, put, html
    <3>2. E!Render([subject |-> subject, body |-> body],
                   mailAsked.template, mailAsked.value, TRUE)
             = [failed |-> None, subject |-> subject, body |-> body, html |-> E!IsHtml(body)]
      BY <2>4, <2>8, <3>1, RenderAgain
    <3>3. E!Mail.subject = subject /\ E!Mail.body = body
      BY <2>4
    <3>4. mailAsked.review.failed = None => mailAsked.review = E!Mail
      <4>1. ~ reachable => mailAsked.review = [failed |-> "review_message_unavailable"]
        BY <2>2 DEF E!Review
      <4>2. reachable /\ ~ address => mailAsked.review = [failed |-> "postal_address_missing"]
        BY <2>2 DEF E!Review
      <4>3. reachable /\ address => mailAsked.review = E!Mail
        BY <2>2 DEF E!Review
      <4>4. QED
        BY <4>1, <4>2, <4>3, TextsAssumption
    <3>5. PICK again : again = E!Render([subject |-> E!Mail.subject, body |-> E!Mail.body],
                                        mailAsked.template, mailAsked.value, TRUE)
      OBVIOUS
    <3>6. again = [failed |-> None, subject |-> subject, body |-> body, html |-> E!IsHtml(body)]
      BY Zenon, <3>2, <3>3, <3>5
    <3>7. again.failed = None /\ again.subject = E!Mail.subject /\ again.body = E!Mail.body
      BY <3>3, <3>6
    <3>8. QED
      BY Zenon, <3>4, <3>5, <3>7 DEF E!RenderedOnce
  <2>10. E!FitToSend
    <3>1. E!Mail.subject = subject /\ E!Mail.body = body /\ E!Mail.html = html
      BY <2>4
    <3>2. E!MailInput(E!Mail)
      <4>1. E!Visible(body)
        BY <2>8 DEF E!Visible, E!HasAny, Footers
      <4>2. QED
        BY <2>4, <3>1, <4>1 DEF E!MailInput
    <3>3. ~ E!HasAny(E!Mail.body \o E!Mail.subject, {"open", "shut", "coupon"})
      <4>1. PICK w : w = body \o subject
        OBVIOUS
      <4> HIDE DEF subject, body
      <4>2. w \in Seq(Clean)
        BY <2>6, <2>8, <4>1
      <4>3. \A k \in DOMAIN w : w[k] \in Clean
        BY <4>2
      <4>4. ~ E!HasAny(w, {"open", "shut", "coupon"})
        BY <4>3 DEF E!HasAny, Clean
      <4>5. QED
        BY <3>1, <4>1, <4>4
    <3>4. html => E!Tags(body) = E!Tags(b)
      <4>1. html => E!Tags(filled) = E!Tags(b)
        <5>1. PICK v : v = put
          OBVIOUS
        <5>2. filled = E!Filled(b, v)
          BY Zenon, <5>1
        <5> HIDE DEF filled, put, html
        <5>3. v \in Seq(Clean) /\ (html => \A j \in DOMAIN v : v[j] # "tag")
          BY Zenon, <2>5, <5>1
        <5>4. QED
          BY <2>4, <5>2, <5>3, TagsFilled
      <4>2. QED
        BY <2>8, <4>1
    <3>5. mailAsked.template.body = b
      BY <2>2
    <3> HIDE DEF subject, body, filled, put, html
    <3>6. QED
      BY Zenon, <3>1, <3>2, <3>3, <3>4, <3>5 DEF E!FitToSend
  <2>11. QED
    BY <2>9, <2>10
<1>3. QED
  BY <1>1, <1>2, CopyStep, PTL DEF E!Spec
-----------------------------------------------------------------------------
(* A message recorded SENT was sent, and a contact gets it twice from the third attempt on
   only, for every number of workers, texts and drafts (worker.ts:325, m365/send.ts:65). *)
THEOREM Delivering == Spec => []DeliveredAsRecorded
<1>1. Y!RecordedWasSent /\ Y!DuplicateTakesThree /\ E!RenderedOnce /\ E!FitToSend
        => DeliveredAsRecorded
  BY DEF DeliveredAsRecorded
<1>2. QED
  BY <1>1, DeliveryHolds, TextsHold, PTL DEF Spec
-----------------------------------------------------------------------------
LEMMA BookingsAreTyped == B!Spec => []B!TypeOK
<1> DEFINE Rest == /\ calendar \in [B!Invitee -> {"none", "created", "canceled", "past"}]
                   /\ stopped \subseteq Booking
<1>1. B!Init => BookingsInv /\ Rest
  BY DEF B!Init, BookingsInv, Shown, B!Known
<1>2. BookingsInv /\ Rest /\ [B!Next]_B!vars => Rest'
  <2> SUFFICES ASSUME Rest, [B!Next]_B!vars PROVE Rest'
    OBVIOUS
  <2>1. ASSUME NEW i \in B!Invitee, B!Book(i) \/ B!Passes(i) \/ B!Cancel(i) PROVE Rest'
    BY <2>1 DEF B!Book, B!Passes, B!Cancel
  <2>2. ASSUME NEW b \in Booking, B!Reconcile(b) PROVE Rest'
    BY <2>2 DEF B!Reconcile, B!Handle
  <2>3. ASSUME NEW b \in Booking, NEW change \in B!Change, B!Webhook(b, change) PROVE Rest'
    BY <2>3 DEF B!Webhook, B!Handle
  <2>4. ASSUME NEW b, B!QualifyRead(b) \/ B!QualifyWrite(b) \/ B!Outcome(b) PROVE Rest'
    BY <2>4 DEF B!QualifyRead, B!QualifyWrite, B!Outcome
  <2>5. CASE B!StartPass \/ B!ReadInvitee \/ B!EndPass \/ B!Interrupt \/ B!Refused
    BY <2>5 DEF B!StartPass, B!ReadInvitee, B!EndPass, B!Interrupt, B!Refused, B!Abandon
  <2>6. CASE UNCHANGED B!vars
    BY <2>6 DEF B!vars
  <2> HIDE DEF Rest
  <2>7. QED
    BY <2>1, <2>2, <2>3, <2>4, <2>5, <2>6 DEF B!Next, B!Invitee
<1>3. BookingsInv /\ Rest => B!TypeOK
  BY DEF BookingsInv, B!TypeOK, Appointment
<1>4. QED
  BY <1>1, <1>2, <1>3, BookingsStep, PTL DEF B!Spec
-----------------------------------------------------------------------------
(* A poll works off messages that have arrived, one at a time. *)
PollTyped ==
    /\ arrived \in 0..LastMsg /\ mailCursor \in 0..LastMsg
    /\ receipt \in {"none", "accepted", "copied", "confirmed"}
    /\ leaseToken \in Daemon \cup {NoOne}
    /\ pollAt \in [Daemon -> {"idle", "found", "confirm", "page", "items", "handle", "alert"}]
    /\ link \in [Daemon -> 0..LastMsg] /\ next \in [Daemon -> 0..LastMsg]
    /\ todo \in [Daemon -> SUBSET M!Msg]
    /\ logged \subseteq M!Msg /\ noticed \subseteq M!Msg
    /\ \A w \in Daemon : pollAt[w] \in {"handle", "alert"} => todo[w] # {}

LEMMA FirstLeft == ASSUME NEW S \in SUBSET M!Msg, S # {} PROVE M!First(S) \in S
<1>1. \E m \in S : \A k \in S : m <= k
  BY Least, MailboxAssumption DEF M!Msg
<1>2. QED
  BY <1>1 DEF M!First

LEMMA PollsTyped ==
    ASSUME PollTyped, NEW w \in Daemon, M!PollStep(w) PROVE PollTyped'
<1> USE MailboxAssumption DEF PollTyped, M!To, M!graph, M!row
<1>1. CASE M!Find(w)
  BY <1>1 DEF M!Find
<1>2. CASE M!Claim(w)
  BY <1>2 DEF M!Claim
<1>3. CASE M!Confirm(w)
  BY <1>3 DEF M!Confirm
<1>4. CASE M!CopyPending(w)
  BY <1>4 DEF M!CopyPending, M!Releases
<1>5. CASE M!Page(w)
  <2>1. M!Upto(link[w]) \in 0..LastMsg
    BY DEF M!Upto
  <2>2. (link[w] + 1)..M!Upto(link[w]) \subseteq M!Msg
    BY <2>1 DEF M!Msg
  <2>3. QED
    BY <1>5, <2>1, <2>2 DEF M!Page
<1>6. CASE M!LinkExpired(w)
  BY <1>6 DEF M!LinkExpired, M!Releases
<1>7. CASE M!NextItem(w)
  BY <1>7 DEF M!NextItem
<1>8. CASE M!HandleItem(w)
  BY <1>8, FirstLeft DEF M!HandleItem
<1>9. CASE M!RaiseAlert(w)
  BY <1>9, FirstLeft DEF M!RaiseAlert
<1>10. CASE M!Advance(w)
  BY <1>10 DEF M!Advance, M!Releases
<1> HIDE DEF PollTyped
<1>11. QED
  BY <1>1, <1>2, <1>3, <1>4, <1>5, <1>6, <1>7, <1>8, <1>9, <1>10 DEF M!PollStep

LEMMA MailboxIsTyped == M!Spec => []M!TypeOK
<1>1. M!Init => MailInv /\ PollTyped
  <2>1. M!Init => MailInv
    BY DEF M!Init, MailInv, PollInv, M!NothingSkipped, M!NoticeAlerted, M!Msg
  <2>2. M!Init => PollTyped
    BY MailboxAssumption DEF M!Init, PollTyped
  <2>3. QED
    BY <2>1, <2>2
<1>2. PollTyped /\ [M!Next]_M!vars => PollTyped'
  <2> SUFFICES ASSUME PollTyped, [M!Next]_M!vars PROVE PollTyped'
    OBVIOUS
  <2> USE MailboxAssumption DEF PollTyped, M!graph, M!row, M!poll
  <2>1. ASSUME NEW w \in Daemon, M!PollFails(w), M!Fault PROVE PollTyped'
    BY <2>1 DEF M!Fault, M!PollFails, M!Releases, M!To
  <2>2. ASSUME NEW w \in Daemon, M!Crash(w), M!Fault PROVE PollTyped'
    BY <2>2 DEF M!Fault, M!Crash, M!To
  <2>3. CASE M!Fault /\ (M!Stall \/ M!Expire \/ M!Toggle)
    BY <2>3 DEF M!Fault, M!Stall, M!Expire, M!Toggle
  <2>4. CASE M!Send \/ M!CopyAppears \/ M!Arrive \/ M!LeaseEnds \/ M!ComesDue
    BY <2>4 DEF M!Send, M!CopyAppears, M!Arrive, M!LeaseEnds, M!ComesDue
  <2>5. CASE UNCHANGED M!vars
    BY <2>5 DEF M!vars
  <2> HIDE DEF PollTyped
  <2>6. QED
    BY <2>1, <2>2, <2>3, <2>4, <2>5, PollsTyped DEF M!Next, M!Fault
<1>3. MailInv /\ PollTyped => M!TypeOK
  <2> SUFFICES ASSUME MailInv, PollTyped PROVE M!TypeOK
    OBVIOUS
  <2>1. replies \in [M!Msg -> 0..LastMsg]
    BY MailboxAssumption DEF MailInv, M!Msg
  <2>2. QED
    BY <2>1 DEF PollTyped, M!TypeOK
<1>4. QED
  BY <1>1, <1>2, <1>3, MailStep, PTL DEF M!Spec
-----------------------------------------------------------------------------
ReceiptInv == Y!M!TypeOK /\ Y!M!Named

LEMMA ReceiptIsTyped == Y!M!Spec => []ReceiptInv
<1>1. ASSUME Y!M!Init PROVE ReceiptInv
  <2>1. Y!M!TypeOK
    <3>1. /\ delivery \in Y!M!ReceiptStatus /\ draftId \in Y!M!Draft \cup {None}
          /\ requestHash \in Letter \cup {None} /\ recovered \in BOOLEAN
      BY <1>1 DEF Y!M!Init, Y!M!ReceiptStatus
    <3>2. /\ sendAt \in [Daemon -> Y!M!Point] /\ input \in [Daemon -> Letter \cup {None}]
          /\ draft \in [Daemon -> Y!M!Draft \cup {None}]
      BY <1>1 DEF Y!M!Init, Y!M!Point
    <3>3. /\ created \in 0..MaxDraft /\ words \in [Y!M!Draft -> Letter \cup {None}]
          /\ inflight \subseteq Y!M!Draft /\ sent \subseteq Y!M!Draft /\ returned \subseteq Y!M!Draft
      BY <1>1, ActorsAssumption, DeliveriesAssumption DEF Y!M!Init
    <3>4. QED
      BY <3>1, <3>2, <3>3 DEF Y!M!TypeOK
  <2>2. Y!M!Named
    BY <1>1, SMTT(30) DEF Y!M!Init, Y!M!Named
  <2>3. QED
    BY <2>1, <2>2 DEF ReceiptInv
<1>2. ReceiptInv /\ [Y!M!Next]_(Y!M!vars) => ReceiptInv'
  <2> SUFFICES ASSUME ReceiptInv, [Y!M!Next]_(Y!M!vars) PROVE ReceiptInv'
    OBVIOUS
  <2> USE ActorsAssumption, DeliveriesAssumption DEF ReceiptInv, Y!M!TypeOK, Y!M!Named, Y!M!ReceiptStatus, Y!M!Point, Y!M!Draft,
          Y!M!row, Y!M!call, Y!M!graph, Y!M!GoTo, Y!M!Finish
  <2>1. ASSUME NEW c \in Daemon, NEW i \in Letter, Y!M!Begin(c, i) PROVE ReceiptInv'
    BY <2>1 DEF Y!M!Begin, Y!M!Branch
  <2>2. ASSUME NEW c \in Daemon, NEW i \in Letter, Y!M!BeginAccepted(c, i) PROVE ReceiptInv'
    BY <2>2 DEF Y!M!BeginAccepted
  <2>3. ASSUME NEW c \in Daemon, Y!M!Recover(c) PROVE ReceiptInv'
    BY <2>3 DEF Y!M!Recover
  <2>4. ASSUME NEW c \in Daemon, Y!M!ClaimCreate(c) \/ Y!M!ClaimCreateLost(c) PROVE ReceiptInv'
    BY <2>4, ZenonT(40) DEF Y!M!ClaimCreate, Y!M!ClaimCreateLost
  <2>5. ASSUME NEW c \in Daemon, Y!M!DraftCreated(c) PROVE ReceiptInv'
    BY <2>5 DEF Y!M!DraftCreated
  <2>6. ASSUME NEW c \in Daemon, Y!M!DraftRejected(c) \/ Y!M!DraftUncertain(c) PROVE ReceiptInv'
    BY <2>6, ZenonT(40) DEF Y!M!DraftRejected, Y!M!DraftUncertain
  <2>7. ASSUME NEW c \in Daemon, Y!M!ClaimSubmit(c) \/ Y!M!ClaimSubmitLost(c) PROVE ReceiptInv'
    BY <2>7, ZenonT(40) DEF Y!M!ClaimSubmit, Y!M!ClaimSubmitLost
  <2>8. ASSUME NEW c \in Daemon, Y!M!SubmitAccepted(c) \/ Y!M!SubmitUncertain(c) PROVE ReceiptInv'
    BY <2>8, ZenonT(40) DEF Y!M!SubmitAccepted, Y!M!SubmitUncertain
  <2>9. ASSUME NEW c \in Daemon, Y!M!ReconcileSent(c) \/ Y!M!ReconcileUncertain(c) \/ Y!M!ReconcileWrite(c)
        PROVE  ReceiptInv'
    BY <2>9, ZenonT(40) DEF Y!M!ReconcileSent, Y!M!ReconcileUncertain, Y!M!ReconcileWrite
  <2>10. ASSUME NEW c \in Daemon, Y!M!Crash(c) PROVE ReceiptInv'
    BY <2>10 DEF Y!M!Crash
  <2>11. ASSUME Y!M!GraphStep PROVE ReceiptInv'
    BY <2>11 DEF Y!M!GraphStep, Y!M!GraphSends, Y!M!GraphLoses
  <2>12. CASE UNCHANGED Y!M!vars
    BY <2>12 DEF Y!M!vars
  <2>13. QED
    BY <2>1, <2>2, <2>3, <2>4, <2>5, <2>6, <2>7, <2>8, <2>9, <2>10, <2>11, <2>12
       DEF Y!M!Next, Y!M!CallStep
<1>3. QED
  BY <1>1, <1>2, PTL DEF Y!M!Spec

-----------------------------------------------------------------------------
(* A worker past its claim has a row. *)
AtWork == \A w \in Daemon : queueAt[w] \in {"leased", "cleared", "answered", "failed"} => rowCur[w] \in Y!O!Row

RowsInv == Y!O!TypeOK /\ AtWork

LEMMA SuccessorIsRow ==
  ASSUME NEW r \in Y!O!Row, r[2] < 1
  PROVE  Y!O!Successor(r) \in Y!O!Row
BY DeliveriesAssumption DEF Y!O!Row, Y!O!Successor

LEMMA RowsAreTyped == Y!O!Spec => []RowsInv
<1>1. ASSUME Y!O!Init PROVE RowsInv
  BY <1>1, DeliveriesAssumption, SMTT(30)
     DEF Y!O!Init, RowsInv, Y!O!TypeOK, AtWork, Y!O!RowStatus, Y!O!Point, Y!O!Row
<1>2. RowsInv /\ [Y!O!Next]_(Y!O!vars) => RowsInv'
  <2> SUFFICES ASSUME RowsInv, [Y!O!Next]_(Y!O!vars) PROVE RowsInv'
    OBVIOUS
  <2> USE DeliveriesAssumption DEF RowsInv, Y!O!TypeOK, AtWork, Y!O!RowStatus, Y!O!Point,
          Y!O!queue, Y!O!approval, Y!O!person, Y!O!worker, Y!O!provider
  <2>1. ASSUME NEW w \in Daemon, Y!O!StartPass(w) \/ Y!O!EndPass(w) PROVE RowsInv'
    BY <2>1, SMTT(30) DEF Y!O!StartPass, Y!O!EndPass, Y!O!GoTo, Y!O!Candidates
  <2>2. ASSUME NEW w \in Daemon, NEW r \in Y!O!Row, Y!O!Prepare(w, r) PROVE RowsInv'
    BY <2>2, SMTT(30) DEF Y!O!Prepare, Y!O!SkipRow, Y!O!CloseRow, Y!O!DeferRow, Y!O!DropRow, Y!O!ClaimRow, Y!O!Takes, Y!O!Release,
                Y!O!Claimable, Y!O!GoTo
  <2>3. ASSUME NEW w \in Daemon, Y!O!Recheck(w) PROVE RowsInv'
    BY <2>3, SMTT(30) DEF Y!O!Recheck, Y!O!RecheckLost, Y!O!RecheckClosed, Y!O!RecheckWaits, Y!O!RecheckClear, Y!O!RecheckFails,
                Y!O!NextCandidate, Y!O!Release, Y!O!GivenBack, Y!O!GoTo
  <2>4. ASSUME NEW w \in Daemon, Y!O!ProviderCall(w) PROVE RowsInv'
    BY <2>4 DEF Y!O!ProviderCall, Y!O!GoTo
  <2>5. ASSUME NEW w \in Daemon, Y!O!Record(w) PROVE RowsInv'
    <3>1. CASE Y!O!RecordSent(w)
      BY <3>1, SuccessorIsRow
         DEF Y!O!RecordSent, Y!O!QueueSuccessor, Y!O!NeedsSuccessor, Y!O!NextCandidate, Y!O!GoTo, Y!O!Row
    <3>2. CASE Y!O!RecordLost(w) \/ Y!O!RecordFails(w)
      BY <3>2 DEF Y!O!RecordLost, Y!O!RecordFails, Y!O!NextCandidate, Y!O!GoTo
    <3>3. QED
      BY <2>5, <3>1, <3>2 DEF Y!O!Record
  <2>6. ASSUME NEW w \in Daemon, Y!O!FailRow(w) \/ Y!O!Crash(w) PROVE RowsInv'
    BY <2>6 DEF Y!O!FailRow, Y!O!Crash, Y!O!NextCandidate, Y!O!Release, Y!O!GoTo
  <2>7. ASSUME Y!O!Sweep PROVE RowsInv'
    BY <2>7 DEF Y!O!Sweep, Y!O!Exhausted
  <2>8. ASSUME Y!O!Clock PROVE RowsInv'
    BY <2>8 DEF Y!O!Clock, Y!O!LeaseExpires, Y!O!BecomesDue, Y!O!DayPasses
  <2>9. ASSUME Y!O!Outside PROVE RowsInv'
    <3>1. PICK c \in Addressee : Y!O!Suppress(c)
      BY <2>9 DEF Y!O!Outside
    <3>2. QED
      BY <3>1 DEF Y!O!Suppress, Y!O!CancelRows
  <2>10. CASE UNCHANGED Y!O!vars
    BY <2>10 DEF Y!O!vars
  <2>11. QED
    BY <2>1, <2>2, <2>3, <2>4, <2>5, <2>6, <2>7, <2>8, <2>9, <2>10 DEF Y!O!Next, Y!O!WorkerStep
<1>3. QED
  BY <1>1, <1>2, PTL DEF Y!O!Spec


LEMMA DeliveriesAreTyped == Y!Spec => [](Y!M!TypeOK /\ Y!O!TypeOK)
<1>1. ReceiptInv => Y!M!TypeOK
  BY DEF ReceiptInv
<1>2. RowsInv => Y!O!TypeOK
  BY DEF RowsInv
<1>3. QED
  BY <1>1, <1>2, Composed, ReceiptIsTyped, RowsAreTyped, PTL
-----------------------------------------------------------------------------
(* Twelve bits of the accumulator are bits of its value. *)
LEMMA Wide == \E q \in Nat \ {0} : 2^Width = 4096 * q
<1>1. PICK w \in Nat \ {0} : w = 2^Width /\ w % 4096 = 0
  BY SecretsAssumption
<1>2. w = 4096 * (w \div 4096) /\ w \div 4096 \in Nat \ {0}
  BY <1>1
<1>3. QED
  BY <1>1, <1>2

(* What is shifted out was above them. *)
LEMMA LowBits ==
    ASSUME NEW a \in Nat
    PROVE  a % 2^Width \in Nat /\ (a % 2^Width) % 4096 = a % 4096
<1>1. PICK q \in Nat \ {0} : 2^Width = 4096 * q
  BY Wide
<1>2. PICK wide \in Nat : wide = 4096 * q /\ wide > 0
  OBVIOUS
<1>3. PICK t \in Nat, r \in Nat : a = wide * t + r /\ a % wide = r
  BY <1>2
<1>4. PICK s \in Nat : s = q * t
  OBVIOUS
<1>5. wide * t = 4096 * s
  BY <1>2, <1>4
<1>6. a = 4096 * s + r
  BY <1>3, <1>5
<1>7. r % 4096 = a % 4096
  BY <1>6
<1>8. QED
  BY <1>1, <1>2, <1>3, <1>7

(* PowersOfTwo of two, of which the provers know nothing but the values here. *)
Power(e) == 2^e

LEMMA PowersOfTwo ==
    /\ Power(0) = 1 /\ Power(1) = 2 /\ Power(2) = 4 /\ Power(3) = 8 /\ Power(4) = 16
    /\ Power(5) = 32 /\ Power(6) = 64 /\ Power(7) = 128 /\ Power(8) = 256
  BY DEF Power

Out(v, bits, m) == [i \in 1..(bits \div m) |-> (v \div Power(bits - m * i)) % Power(m)]

Holding(value, bits, out) == [value |-> value, bits |-> bits, out |-> out]

(* v is u with p times its size and x added, in the bits that matter. *)
Follows(v, u, p, x) == v \in Nat /\ v % 4096 = (u * p + x) % 4096

(* v is left when x is taken, and some groups are given. *)
Gives(v, u, bits, out, x, n, m) ==
    J!Taken(Holding(u, bits, out), x, n, m)
      = Holding(v, (bits + n) % m, out \o Out(v, bits + n, m))

(* The accumulator takes n bits. *)
LEMMA Takes ==
    ASSUME NEW u \in Nat, NEW bits, NEW out, NEW x \in Nat, NEW n, NEW m, NEW p \in Nat,
           Power(n) = p
    PROVE  \E v : Follows(v, u, p, x) /\ Gives(v, u, bits, out, x, n, m)
<1>1. PICK a \in Nat : a = u * p + x
  OBVIOUS
<1>2. PICK v : v = a % 2^Width
  OBVIOUS
<1>3. v \in Nat /\ v % 4096 = a % 4096
  BY <1>2, LowBits
<1>4. J!Taken(Holding(u, bits, out), x, n, m)
        = Holding(v, (bits + n) % m, out \o Out(v, bits + n, m))
  <2>1. PICK s : s = Holding(u, bits, out)
    OBVIOUS
  <2>2. s.value = u /\ s.bits = bits /\ s.out = out
    BY <2>1 DEF Holding
  <2>3. J!Taken(s, x, n, m)
         = Holding((s.value * Power(n) + x) % 2^Width, (s.bits + n) % m,
                 s.out \o Out((s.value * Power(n) + x) % 2^Width, s.bits + n, m))
    BY Zenon DEF J!Taken, Holding, Out, Power
  <2>4. QED
    BY <1>1, <1>2, <2>1, <2>2, <2>3, Zenon
<1>5. Follows(v, u, p, x)
  BY <1>1, <1>3 DEF Follows
<1>6. QED
  BY <1>4, <1>5 DEF Gives

(* m bits of v, without the lowest. *)
Bits(v, k, m) == (v \div k) % m

LEMMA BitsBelow ==
    ASSUME NEW v \in Nat, NEW k \in {1, 2, 4, 8, 16, 32, 64, 128}
    PROVE  Bits(v, k, 32) \in 0..31 /\ Bits(v, k, 256) \in 0..255
<1>1. v \div k \in Nat
  <2>1. \A n \in {1, 2, 4, 8, 16, 32, 64, 128} : v \div n \in Nat
    OBVIOUS
  <2>2. QED
    BY <2>1
<1>2. PICK q \in Nat : q = v \div k
  BY <1>1
<1>3. q % 32 \in 0..31 /\ q % 256 \in 0..255
  OBVIOUS
<1>4. QED
  BY <1>2, <1>3 DEF Bits

(* The groups that can be complete, n = 8 and m = 5 or the other way round. *)
LEMMA OutIs ==
    ASSUME NEW v \in Nat
    PROVE  /\ Out(v, 8, 5) = <<Bits(v, 8, 32)>>
           /\ Out(v, 9, 5) = <<Bits(v, 16, 32)>>
           /\ Out(v, 10, 5) = <<Bits(v, 32, 32), Bits(v, 1, 32)>>
           /\ Out(v, 11, 5) = <<Bits(v, 64, 32), Bits(v, 2, 32)>>
           /\ Out(v, 12, 5) = <<Bits(v, 128, 32), Bits(v, 4, 32)>>
           /\ Out(v, 5, 8) = <<>> /\ Out(v, 6, 8) = <<>> /\ Out(v, 7, 8) = <<>>
           /\ Out(v, 8, 8) = <<Bits(v, 1, 256)>>
           /\ Out(v, 9, 8) = <<Bits(v, 2, 256)>> /\ Out(v, 10, 8) = <<Bits(v, 4, 256)>>
           /\ Out(v, 11, 8) = <<Bits(v, 8, 256)>> /\ Out(v, 12, 8) = <<Bits(v, 16, 256)>>
<1>1. ASSUME NEW bits \in Nat, NEW m \in Nat, bits \div m = 1, NEW d, bits - m = d
      PROVE  Out(v, bits, m) = <<Bits(v, Power(d), Power(m))>>
  BY <1>1 DEF Out, Bits
<1>2. ASSUME NEW bits \in Nat, NEW m \in Nat, bits \div m = 2, NEW d, bits - m = d,
             NEW e, bits - 2 * m = e
      PROVE  Out(v, bits, m) = <<Bits(v, Power(d), Power(m)), Bits(v, Power(e), Power(m))>>
  BY <1>2 DEF Out, Bits
<1>3. ASSUME NEW bits \in Nat, NEW m \in Nat, bits \div m = 0
      PROVE  Out(v, bits, m) = <<>>
  BY <1>3 DEF Out, Bits
<1>4. Out(v, 8, 5) = <<Bits(v, 8, 32)>>
  BY <1>1, PowersOfTwo
<1>5. Out(v, 9, 5) = <<Bits(v, 16, 32)>>
  BY <1>1, PowersOfTwo
<1>6. Out(v, 10, 5) = <<Bits(v, 32, 32), Bits(v, 1, 32)>>
  BY <1>2, PowersOfTwo
<1>7. Out(v, 11, 5) = <<Bits(v, 64, 32), Bits(v, 2, 32)>>
  <2>1. Out(v, 11, 5) = <<Bits(v, Power(6), Power(5)), Bits(v, Power(1), Power(5))>>
    BY <1>2
  <2>2. QED
    BY <2>1, PowersOfTwo
<1>8. Out(v, 12, 5) = <<Bits(v, 128, 32), Bits(v, 4, 32)>>
  <2>1. Out(v, 12, 5) = <<Bits(v, Power(7), Power(5)), Bits(v, Power(2), Power(5))>>
    BY <1>2
  <2>2. QED
    BY <2>1, PowersOfTwo
<1>9. Out(v, 5, 8) = <<>> /\ Out(v, 6, 8) = <<>> /\ Out(v, 7, 8) = <<>>
  BY <1>3
<1>10. Out(v, 9, 8) = <<Bits(v, 2, 256)>>
  <2>1. Out(v, 9, 8) = <<Bits(v, Power(1), Power(8))>>
    BY <1>1
  <2>2. QED
    BY <2>1, PowersOfTwo
<1>11. Out(v, 10, 8) = <<Bits(v, 4, 256)>>
  <2>1. Out(v, 10, 8) = <<Bits(v, Power(2), Power(8))>>
    BY <1>1
  <2>2. QED
    BY <2>1, PowersOfTwo
<1>12. Out(v, 11, 8) = <<Bits(v, 8, 256)>>
  <2>1. Out(v, 11, 8) = <<Bits(v, Power(3), Power(8))>>
    BY <1>1
  <2>2. QED
    BY <2>1, PowersOfTwo
<1>13. Out(v, 12, 8) = <<Bits(v, 16, 256)>>
  <2>1. Out(v, 12, 8) = <<Bits(v, Power(4), Power(8))>>
    BY <1>1
  <2>2. QED
    BY <2>1, PowersOfTwo
<1>14. Out(v, 8, 8) = <<Bits(v, 1, 256)>>
  <2>1. Out(v, 8, 8) = <<Bits(v, Power(0), Power(8))>>
    BY <1>1
  <2>2. QED
    BY <2>1, PowersOfTwo
<1>15. QED
  BY <1>14, <1>4, <1>5, <1>6, <1>7, <1>8, <1>9, <1>10, <1>11, <1>12, <1>13
(* The bits of u below c and those of w below a make x. *)
Makes(w, a, u, c, x) == (w % a) * c + (u % c) = x

(* A byte is taken while the encoder holds 0, 3, 1, 4 or 2 bits: what the decoder then holds
   and the encoder keeps of it make it up, and the byte before is complete. *)
LEMMA From0 ==
    ASSUME NEW u \in Nat, NEW x \in 0..255, NEW v, Follows(v, u, 256, x),
           NEW w \in Nat, NEW y, Follows(y, w, 32, Bits(v, 8, 32))
    PROVE  Makes(y, 32, v, 8, x)
<1> USE DEF Follows, Bits, Makes
<1>0. PICK g : g = (v \div 8) % 32
  OBVIOUS
<1>1. v % 256 = x
  BY <1>0
<1>2. g = x \div 8 /\ v % 8 = x % 8
  BY <1>0, <1>1
<1>3. y % 32 = g
  BY <1>0, <1>2
<1>4. QED
  BY <1>0, <1>2, <1>3

LEMMA From3 ==
    ASSUME NEW u \in Nat, NEW x \in 0..255, NEW v, Follows(v, u, 256, x),
           NEW w \in Nat, NEW y, Follows(y, w, 32, Bits(v, 64, 32)),
           NEW z, Follows(z, y, 32, Bits(v, 2, 32))
    PROVE  Makes(w, 32, u, 8, Bits(y, 4, 256)) /\ Makes(z, 128, v, 2, x)
<1> USE DEF Follows, Bits, Makes
<1>0. PICK g, h : g = (v \div 64) % 32 /\ h = (v \div 2) % 32
  OBVIOUS
<1>1. v % 2048 = (u % 8) * 256 + x
  BY <1>0
<1>2. g = (u % 8) * 4 + (x \div 64) /\ h = (x \div 2) % 32 /\ v % 2 = x % 2
  <2>1. v % 256 = x /\ (v \div 256) % 8 = u % 8
    BY <1>0, <1>1
  <2>2. g = (u % 8) * 4 + (x \div 64)
    <3>1. PICK a \in 0..7 : a = u % 8
      BY <1>0
    <3>2. g = (v % 2048) \div 64
      BY <1>0
    <3>3. (a * 256 + x) \div 64 = a * 4 + (x \div 64)
      BY <1>0
    <3>4. QED
      BY <1>0, <1>1, <3>1, <3>2, <3>3
  <2>3. h = (x \div 2) % 32 /\ v % 2 = x % 2
    BY <1>0, <2>1
  <2>4. QED
    BY <2>2, <2>3
<1>3. y % 1024 = (w % 32) * 32 + g /\ y % 4 = x \div 64
  BY <1>0, <1>2
<1>4. (y \div 4) % 256 = (w % 32) * 8 + (u % 8)
  BY <1>0, <1>2, <1>3
<1>5. z % 128 = (y % 4) * 32 + h
  BY <1>0, <1>2
<1>6. QED
  BY <1>0, <1>2, <1>3, <1>4, <1>5

LEMMA From1 ==
    ASSUME NEW u \in Nat, NEW x \in 0..255, NEW v, Follows(v, u, 256, x),
           NEW w \in Nat, NEW y, Follows(y, w, 32, Bits(v, 16, 32))
    PROVE  Makes(w, 128, u, 2, Bits(y, 16, 256)) /\ Makes(y, 16, v, 16, x)
<1> USE DEF Follows, Bits, Makes
<1>0. PICK g : g = (v \div 16) % 32
  OBVIOUS
<1>1. v % 512 = (u % 2) * 256 + x
  BY <1>0
<1>2. g = (u % 2) * 16 + (x \div 16) /\ v % 16 = x % 16
  BY <1>0, <1>1
<1>3. y % 4096 = (w % 128) * 32 + g /\ y % 16 = x \div 16
  BY <1>0, <1>2
<1>4. QED
  BY <1>0, <1>2, <1>3

LEMMA From4 ==
    ASSUME NEW u \in Nat, NEW x \in 0..255, NEW v, Follows(v, u, 256, x),
           NEW w \in Nat, NEW y, Follows(y, w, 32, Bits(v, 128, 32)),
           NEW z, Follows(z, y, 32, Bits(v, 4, 32))
    PROVE  Makes(w, 16, u, 16, Bits(y, 2, 256)) /\ Makes(z, 64, v, 4, x)
<1> USE DEF Follows, Bits, Makes
<1>0. PICK g, h : g = (v \div 128) % 32 /\ h = (v \div 4) % 32
  OBVIOUS
<1>1. v % 4096 = (u % 16) * 256 + x
  BY <1>0
<1>2. g = (u % 16) * 2 + (x \div 128) /\ h = (x \div 4) % 32 /\ v % 4 = x % 4
  <2>1. v % 256 = x
    BY <1>0, <1>1
  <2>2. g = (u % 16) * 2 + (x \div 128)
    <3>1. PICK a \in 0..15 : a = u % 16
      BY <1>0
    <3>2. g = (v % 4096) \div 128
      BY <1>0
    <3>3. (a * 256 + x) \div 128 = a * 2 + (x \div 128)
      BY <1>0
    <3>4. QED
      BY <1>0, <1>1, <3>1, <3>2, <3>3
  <2>3. h = (x \div 4) % 32 /\ v % 4 = x % 4
    BY <1>0, <2>1
  <2>4. QED
    BY <2>2, <2>3
<1>3. y % 512 = (w % 16) * 32 + g /\ y % 2 = x \div 128
  BY <1>0, <1>2
<1>4. (y \div 2) % 256 = (w % 16) * 16 + (u % 16)
  BY <1>0, <1>2, <1>3
<1>5. z % 64 = (y % 2) * 32 + h
  BY <1>0, <1>2
<1>6. QED
  BY <1>0, <1>2, <1>3, <1>4, <1>5

LEMMA From2 ==
    ASSUME NEW u \in Nat, NEW x \in 0..255, NEW v, Follows(v, u, 256, x),
           NEW w \in Nat, NEW y, Follows(y, w, 32, Bits(v, 32, 32)),
           NEW z, Follows(z, y, 32, Bits(v, 1, 32))
    PROVE  Makes(w, 64, u, 4, Bits(y, 8, 256)) /\ Makes(z, 256, v, 1, x)
<1> USE DEF Follows, Bits, Makes
<1>0. PICK g, h : g = (v \div 32) % 32 /\ h = (v \div 1) % 32
  OBVIOUS
<1>1. v % 1024 = (u % 4) * 256 + x
  BY <1>0
<1>2. g = (u % 4) * 8 + (x \div 32) /\ h = x % 32
  BY <1>0, <1>1
<1>3. y % 2048 = (w % 64) * 32 + g /\ y % 8 = x \div 32
  BY <1>0, <1>2
<1>4. (y \div 8) % 256 = (w % 64) * 4 + (u % 4)
  BY <1>0, <1>2, <1>3
<1>5. z % 256 = (y % 8) * 32 + h
  BY <1>0, <1>2
<1>6. QED
  BY <1>0, <1>2, <1>3, <1>4, <1>5

(* The first n + 1 states of the accumulator. *)
Runs(f, items, n, a, b) ==
    f = [k \in 0..n |-> IF k = 0 THEN J!Empty ELSE J!Taken(f[k - 1], items[k], a, b)]

LEMMA RunsStep ==
    ASSUME NEW f, NEW items, NEW n \in Nat, NEW a, NEW b, Runs(f, items, n, a, b)
    PROVE  /\ f[0] = J!Empty
           /\ \A k \in 1..n : k - 1 \in 0..n /\ f[k] = J!Taken(f[k - 1], items[k], a, b)
<1>1. \A k \in 0..n : f[k] = IF k = 0 THEN J!Empty ELSE J!Taken(f[k - 1], items[k], a, b)
  BY DEF Runs
<1>2. 0 \in 0..n /\ \A k \in 1..n : k # 0 /\ k \in 0..n /\ k - 1 \in 0..n
  OBVIOUS
<1>3. QED
  BY <1>1, <1>2

LEMMA RunsExist ==
    ASSUME NEW items, NEW a, NEW b
    PROVE  \A n \in Nat : \E f : Runs(f, items, n, a, b)
<1> DEFINE Some(n) == \E f : Runs(f, items, n, a, b)
<1>1. Some(0)
  <2>1. PICK f : f = [k \in 0..0 |-> J!Empty]
    OBVIOUS
  <2>2. f = [k \in 0..0 |-> IF k = 0 THEN J!Empty ELSE J!Taken(f[k - 1], items[k], a, b)]
    BY <2>1
  <2>3. QED
    BY <2>2 DEF Runs
<1>2. ASSUME NEW n \in Nat, Some(n) PROVE Some(n + 1)
  <2>1. PICK g : Runs(g, items, n, a, b)
    BY <1>2
  <2>2. PICK turn : turn = J!Taken(g[n], items[n + 1], a, b)
    OBVIOUS
  <2>3. PICK f : f = [k \in 0..n + 1 |-> IF k = n + 1 THEN turn ELSE g[k]]
    OBVIOUS
  <2>4. \A k \in 0..n : f[k] = g[k] /\ k # n + 1
    BY <2>3
  <2>5. f[n + 1] = turn /\ f = [k \in 0..n + 1 |-> f[k]]
    BY <2>3
  <2>6. ASSUME NEW k \in 0..n + 1
        PROVE  f[k] = IF k = 0 THEN J!Empty ELSE J!Taken(f[k - 1], items[k], a, b)
    <3>1. CASE k = n + 1
      <4>1. k - 1 = n /\ n \in 0..n /\ k # 0
        BY <3>1
      <4>2. QED
        BY <2>2, <2>4, <2>5, <3>1, <4>1, Zenon
    <3>2. CASE k = 0
      <4>1. k \in 0..n
        BY <3>2
      <4>2. QED
        BY <2>1, <2>4, <3>2, <4>1, RunsStep
    <3>3. CASE k \in 1..n
      <4>1. k - 1 \in 0..n /\ k \in 0..n /\ k # 0
        BY <3>3
      <4>2. g[k] = J!Taken(g[k - 1], items[k], a, b)
        BY <2>1, <3>3, RunsStep
      <4>3. QED
        BY <2>4, <4>1, <4>2, Zenon
    <3>4. QED
      BY <3>1, <3>2, <3>3
  <2>7. f = [k \in 0..n + 1 |-> IF k = 0 THEN J!Empty ELSE J!Taken(f[k - 1], items[k], a, b)]
    BY <2>5, <2>6
  <2>8. QED
    BY <2>7 DEF Runs
<1> HIDE DEF Some
<1>3. \A n \in Nat : Some(n)
  <2>1. SUFFICES ASSUME {n \in Nat : ~Some(n)} # {} PROVE FALSE
    OBVIOUS
  <2>2. PICK n \in {q \in Nat : ~Some(q)} : \A q \in {k \in Nat : ~Some(k)} : n <= q
    BY <2>1, Least
  <2>3. n # 0 /\ n - 1 \in Nat
    BY <1>1, <2>2
  <2>4. Some(n - 1)
    BY <2>2, <2>3
  <2>5. Some((n - 1) + 1)
    BY <1>2, <2>3, <2>4
  <2>6. QED
    BY <2>2, <2>3, <2>5
<1>4. QED
  BY <1>3 DEF Some

(* What is regrouped is what the last of these states holds. *)
LEMMA RegroupedIs ==
    ASSUME NEW items, Len(items) \in Nat, NEW a, NEW b
    PROVE  \E f : Runs(f, items, Len(items), a, b) /\ J!Regrouped(items, a, b) = f[Len(items)]
<1>1. PICK n \in Nat : n = Len(items)
  OBVIOUS
<1>2. \E f : Runs(f, items, n, a, b)
  BY RunsExist
<1> DEFINE f == CHOOSE f : Runs(f, items, n, a, b)
<1>3. Runs(f, items, n, a, b)
  BY <1>2
<1>4. J!Regrouped(items, a, b) = f[n]
  BY <1>1, Zenon DEF J!Regrouped, Runs
<1>5. QED
  BY <1>1, <1>3, <1>4

(* The states before do not depend on what comes. *)
LEMMA RunsAgree ==
    ASSUME NEW items, NEW more, NEW n \in Nat, NEW m \in Nat, n <= m,
           \A k \in 1..n : items[k] = more[k],
           NEW a, NEW b, NEW f, NEW g, Runs(f, items, n, a, b), Runs(g, more, m, a, b)
    PROVE  f[n] = g[n]
<1> DEFINE Bad == {k \in 0..n : f[k] # g[k]}
<1>1. SUFFICES ASSUME Bad # {} PROVE FALSE
  BY n \in 0..n
<1>2. Bad \in SUBSET Nat
  OBVIOUS
<1>3. PICK k \in Bad : \A q \in Bad : k <= q
  BY <1>1, <1>2, Least
<1>4. k \in 0..n /\ f[k] # g[k]
  BY <1>3
<1>5. f[0] = J!Empty /\ g[0] = J!Empty
  BY RunsStep
<1>6. k \in 1..n /\ k \in 1..m /\ k - 1 \in 0..n
  BY <1>4, <1>5
<1>7. f[k] = J!Taken(f[k - 1], items[k], a, b) /\ g[k] = J!Taken(g[k - 1], more[k], a, b)
  BY <1>6, RunsStep
<1>8. f[k - 1] # g[k - 1]
  BY <1>4, <1>6, <1>7
<1>9. k - 1 \in Bad /\ ~ (k <= k - 1)
  BY <1>6, <1>8
<1>10. QED
  BY <1>3, <1>9

(* One item more is one turn more. *)
LEMMA RegroupedMore ==
    ASSUME NEW S, NEW items \in Seq(S), NEW x \in S, NEW a, NEW b
    PROVE  J!Regrouped(Append(items, x), a, b) = J!Taken(J!Regrouped(items, a, b), x, a, b)
<1>1. PICK more : more = Append(items, x)
  OBVIOUS
<1>2. PICK n \in Nat : n = Len(items)
  OBVIOUS
<1>3. Len(more) = n + 1 /\ more[n + 1] = x /\ \A k \in 1..n : items[k] = more[k]
  BY <1>1, <1>2
<1>4. PICK f : Runs(f, items, n, a, b) /\ J!Regrouped(items, a, b) = f[n]
  BY <1>2, RegroupedIs
<1>5. PICK g : Runs(g, more, n + 1, a, b) /\ J!Regrouped(more, a, b) = g[n + 1]
  BY <1>3, RegroupedIs
<1>6. f[n] = g[n]
  BY <1>3, <1>4, <1>5, RunsAgree
<1>7. g[n + 1] = J!Taken(g[n], more[n + 1], a, b)
  <2>1. n + 1 \in 1..n + 1 /\ (n + 1) - 1 = n
    OBVIOUS
  <2>2. QED
    BY <1>5, <2>1, RunsStep
<1>8. QED
  BY <1>1, <1>3, <1>4, <1>5, <1>6, <1>7

(* A byte is taken by the encoder, a letter by the decoder. *)
LEMMA Encodes ==
    ASSUME NEW u \in Nat, NEW bits, NEW out, NEW x \in 0..255
    PROVE  \E v : Follows(v, u, 256, x) /\ Gives(v, u, bits, out, x, 8, 5)
<1>1. PICK n, p \in Nat : n = 8 /\ p = 256
  OBVIOUS
<1>2. x \in Nat /\ Power(n) = p
  BY <1>1, PowersOfTwo
<1>3. \E v : Follows(v, u, p, x) /\ Gives(v, u, bits, out, x, n, 5)
  BY <1>2, Takes
<1>4. QED
  BY <1>1, <1>3

LEMMA Decodes ==
    ASSUME NEW u \in Nat, NEW bits, NEW out, NEW g \in 0..31
    PROVE  \E v : Follows(v, u, 32, g) /\ Gives(v, u, bits, out, g, 5, 8)
<1>1. g \in Nat /\ 32 \in Nat /\ Power(5) = 32
  BY PowersOfTwo
<1>2. QED
  BY <1>1, Takes

Letters == Seq(0..31)
Bytes == Seq(0..255)

(* The letters t are read back as out, and bits of u are kept. *)
ReadAs(t, u, bits, out) ==
    t \in Letters /\ u \in Nat /\ out \in Bytes /\ J!Regrouped(t, 5, 8) = Holding(u, bits, out)

LEMMA ReadsOn ==
    ASSUME NEW t, NEW u, NEW bits \in 0..7, NEW out, ReadAs(t, u, bits, out), NEW g \in 0..31
    PROVE  \E v : /\ Follows(v, u, 32, g)
                  /\ ReadAs(Append(t, g), v, (bits + 5) % 8, out \o Out(v, bits + 5, 8))
<1>1. PICK v : Follows(v, u, 32, g) /\ Gives(v, u, bits, out, g, 5, 8)
  BY Decodes DEF ReadAs
<1>2. Append(t, g) \in Letters /\ v \in Nat
  BY <1>1 DEF ReadAs, Letters, Follows
<1>3. J!Regrouped(Append(t, g), 5, 8) = J!Taken(Holding(u, bits, out), g, 5, 8)
  <2>1. t \in Seq(0..31) /\ J!Regrouped(t, 5, 8) = Holding(u, bits, out)
    BY Zenon DEF ReadAs, Letters
  <2>2. J!Regrouped(Append(t, g), 5, 8) = J!Taken(J!Regrouped(t, 5, 8), g, 5, 8)
    BY <2>1, RegroupedMore, ZenonT(40)
  <2>3. QED
    BY <2>1, <2>2
<1>4. Out(v, bits + 5, 8) \in Bytes
  <2>1. PICK b \in 5..12 : b = bits + 5
    OBVIOUS
  <2>2. ASSUME NEW k \in {1, 2, 4, 8, 16} PROVE <<Bits(v, k, 256)>> \in Bytes
    <3>1. Bits(v, k, 256) \in 0..255
      BY <1>2, BitsBelow, SMTT(30)
    <3>2. \A y \in 0..255 : <<y>> \in Bytes
      BY DEF Bytes
    <3>3. QED
      BY <3>1, <3>2
  <2>3. /\ Out(v, 8, 8) \in Bytes
        /\ Out(v, 9, 8) \in Bytes /\ Out(v, 10, 8) \in Bytes
        /\ Out(v, 11, 8) \in Bytes /\ Out(v, 12, 8) \in Bytes
    <3>1. /\ Out(v, 8, 8) = <<Bits(v, 1, 256)>>
          /\ Out(v, 9, 8) = <<Bits(v, 2, 256)>> /\ Out(v, 10, 8) = <<Bits(v, 4, 256)>>
      BY <1>2, OutIs
    <3>2. Out(v, 11, 8) = <<Bits(v, 8, 256)>> /\ Out(v, 12, 8) = <<Bits(v, 16, 256)>>
      BY <1>2, OutIs, SMTT(30)
    <3>3. QED
      BY <2>2, <3>1, <3>2
  <2>4. Out(v, b, 8) \in Bytes
    <3>1. <<>> \in Bytes
      BY DEF Bytes
    <3>2. Out(v, 5, 8) = <<>> /\ Out(v, 6, 8) = <<>> /\ Out(v, 7, 8) = <<>>
      BY <1>2, OutIs, SMTT(30)
    <3>3. QED
      BY <2>1, <2>3, <3>1, <3>2
  <2>5. QED
    BY <2>1, <2>4
<1>5. out \o Out(v, bits + 5, 8) \in Bytes
  BY <1>4 DEF Bytes, ReadAs
<1>6. QED
  BY <1>1, <1>2, <1>3, <1>5 DEF ReadAs, Gives

LEMMA MakesOne ==
    ASSUME NEW w, NEW a, NEW u, NEW c, NEW x, NEW y, Makes(w, a, u, c, x), Makes(w, a, u, c, y)
    PROVE  x = y
  BY DEF Makes

LEMMA OneMore ==
    ASSUME NEW t \in Letters, NEW g \in 0..31
    PROVE  t \o <<g>> = Append(t, g)
  BY DEF Letters

LEMMA TwoMore ==
    ASSUME NEW t \in Letters, NEW g \in 0..31, NEW h \in 0..31
    PROVE  t \o <<g, h>> = Append(Append(t, g), h)
<1>1. PICK n \in Nat : n = Len(t)
  BY DEF Letters
<1>2. PICK a, b : a = Append(Append(t, g), h) /\ b = t \o <<g, h>>
  OBVIOUS
<1>3. a \in Letters /\ b \in Letters /\ Len(a) = n + 2 /\ Len(b) = n + 2
  BY <1>1, <1>2 DEF Letters
<1>4. \A k \in 1..n + 2 : a[k] = IF k <= n THEN t[k] ELSE IF k = n + 1 THEN g ELSE h
  BY <1>1, <1>2 DEF Letters
<1>5. \A k \in 1..n + 2 : b[k] = IF k <= n THEN t[k] ELSE IF k = n + 1 THEN g ELSE h
  BY <1>1, <1>2 DEF Letters
<1>6. a = b
  BY <1>3, <1>4, <1>5 DEF Letters
<1>7. QED
  BY <1>2, <1>3, <1>6

(* A letter that gives no byte, and one that gives one. *)
LEMMA ReadsNoByte ==
    ASSUME NEW bits \in 0..2, NEW t, NEW w, NEW out, ReadAs(t, w, bits, out), NEW g \in 0..31
    PROVE  \E y : Follows(y, w, 32, g) /\ ReadAs(Append(t, g), y, bits + 5, out)
<1>0. bits \in 0..7
  OBVIOUS
<1>1. PICK y : Follows(y, w, 32, g)
               /\ ReadAs(Append(t, g), y, (bits + 5) % 8, out \o Out(y, bits + 5, 8))
  BY <1>0, ReadsOn, Zenon
<1>2. PICK b \in {5, 6, 7} : b = bits + 5 /\ (bits + 5) % 8 = b
  OBVIOUS
<1>3. y \in Nat
  BY <1>1 DEF Follows
<1>4. Out(y, b, 8) = <<>>
  <2>1. Out(y, 5, 8) = <<>> /\ Out(y, 6, 8) = <<>> /\ Out(y, 7, 8) = <<>>
    BY <1>3, OutIs, SMTT(30)
  <2>2. QED
    BY <1>2, <2>1
<1>5. out \o <<>> = out
  BY DEF ReadAs, Bytes
<1>6. QED
  BY <1>1, <1>2, <1>4, <1>5

(* The bits held before a letter that completes a byte, the place of that byte, and the bits
   held after it. *)
Completing == {<<3, 1, 0>>, <<4, 2, 1>>, <<5, 4, 2>>, <<6, 8, 3>>, <<7, 16, 4>>}

Completed(t, w, k, left, out, g) ==
    \E y : /\ Follows(y, w, 32, g) /\ Bits(y, k, 256) \in 0..255
           /\ ReadAs(Append(t, g), y, left, Append(out, Bits(y, k, 256)))

LEMMA ReadsByte ==
    ASSUME NEW bits, NEW k, NEW left, <<bits, k, left>> \in Completing,
           NEW t, NEW w, NEW out, ReadAs(t, w, bits, out), NEW g \in 0..31
    PROVE  Completed(t, w, k, left, out, g)
<1>0. bits \in 3..7 /\ k \in {1, 2, 4, 8, 16} /\ left = bits - 3
  BY DEF Completing
<1>1. PICK y : Follows(y, w, 32, g)
               /\ ReadAs(Append(t, g), y, (bits + 5) % 8, out \o Out(y, bits + 5, 8))
  <2>1. bits \in 0..7
    BY <1>0
  <2>2. QED
    BY <2>1, ReadsOn, Zenon
<1>2. PICK b \in 8..12, c \in 0..4 : b = bits + 5 /\ (bits + 5) % 8 = c /\ c = left
  BY <1>0
<1>3. y \in Nat
  BY <1>1 DEF Follows
<1>4. PICK x \in 0..255 : x = Bits(y, k, 256)
  <2>1. k \in {1, 2, 4, 8, 16, 32, 64, 128}
    BY <1>0
  <2>2. QED
    BY <1>3, <2>1, BitsBelow, SMTT(30)
<1>5. Out(y, b, 8) = <<x>>
  <2>1. /\ Out(y, 8, 8) = <<Bits(y, 1, 256)>>
        /\ Out(y, 9, 8) = <<Bits(y, 2, 256)>> /\ Out(y, 10, 8) = <<Bits(y, 4, 256)>>
        /\ Out(y, 11, 8) = <<Bits(y, 8, 256)>> /\ Out(y, 12, 8) = <<Bits(y, 16, 256)>>
    BY <1>3, OutIs, SMTT(30)
  <2>2. <<b, k>> \in {<<8, 1>>, <<9, 2>>, <<10, 4>>, <<11, 8>>, <<12, 16>>}
    BY <1>2 DEF Completing
  <2>3. QED
    BY <1>4, <2>1, <2>2
<1>6. out \o <<x>> = Append(out, x)
  BY DEF ReadAs, Bytes
<1>7. ReadAs(Append(t, g), y, left, Append(out, x))
  BY <1>1, <1>2, <1>5, <1>6, Zenon
<1>8. QED
  BY <1>1, <1>4, <1>7 DEF Completed

(* Of what was given of the bytes all but the last is read back: the decoder has some bits
   of it, and the encoder has kept the others. *)
Carries(bytes, u, t, d, a, c) ==
    \E got \in Bytes, x \in 0..255, w \in Nat :
       bytes = Append(got, x) /\ ReadAs(t, w, d, got) /\ Makes(w, a, u, c, x)

Meets(bytes, u, bits, t) ==
    \/ bits = 0 /\ \E w : ReadAs(t, w, 0, bytes)
    \/ bits = 1 /\ Carries(bytes, u, t, 7, 128, 2)
    \/ bits = 2 /\ Carries(bytes, u, t, 6, 64, 4)
    \/ bits = 3 /\ Carries(bytes, u, t, 5, 32, 8)
    \/ bits = 4 /\ Carries(bytes, u, t, 4, 16, 16)

(* One byte more: the letters it completes are read, the byte before is complete, and what
   is left of it is carried. *)
LEMMA From0To3 ==
    ASSUME NEW bytes \in Bytes, NEW u \in Nat, NEW t, \E w : ReadAs(t, w, 0, bytes),
           NEW x \in 0..255, NEW v, Follows(v, u, 256, x)
    PROVE  Carries(Append(bytes, x), v, t \o Out(v, 8, 5), 5, 32, 8)
<1>1. PICK w : w \in Nat /\ ReadAs(t, w, 0, bytes)
  BY DEF ReadAs
<1>2. v \in Nat
  BY DEF Follows
<1>3. PICK g \in 0..31 : g = Bits(v, 8, 32)
  BY <1>2, BitsBelow
<1>4. PICK y : Follows(y, w, 32, g) /\ ReadAs(Append(t, g), y, 5, bytes)
  <2>1. PICK n \in 0..2 : n = 0 /\ n + 5 = 5
    OBVIOUS
  <2>2. ReadAs(t, w, n, bytes)
    BY <1>1, <2>1, Zenon
  <2>3. PICK y : Follows(y, w, 32, g) /\ ReadAs(Append(t, g), y, n + 5, bytes)
    BY <1>3, <2>2, ReadsNoByte
  <2>4. QED
    BY <2>1, <2>3, Zenon
<1>5. t \o Out(v, 8, 5) = Append(t, g)
  <2>1. Out(v, 8, 5) = <<g>>
    BY <1>2, <1>3, OutIs
  <2>2. t \in Letters
    BY <1>1 DEF ReadAs
  <2>3. t \o <<g>> = Append(t, g)
    BY <1>3, <2>2, OneMore, Zenon
  <2>4. QED
    BY <2>1, <2>3, Zenon
<1>6. Makes(y, 32, v, 8, x)
  BY <1>1, <1>3, <1>4, From0
<1>7. y \in Nat /\ ReadAs(Append(t, g), y, 5, bytes)
  BY <1>1, <1>4, <1>6 DEF Follows
<1>8. QED
  BY <1>5, <1>6, <1>7, ZenonT(40) DEF Carries

LEMMA From1To4 ==
    ASSUME NEW bytes \in Bytes, NEW u \in Nat, NEW t, Carries(bytes, u, t, 7, 128, 2),
           NEW x \in 0..255, NEW v, Follows(v, u, 256, x)
    PROVE  Carries(Append(bytes, x), v, t \o Out(v, 9, 5), 4, 16, 16)
<1>1. PICK got \in Bytes, last \in 0..255, w \in Nat :
         bytes = Append(got, last) /\ ReadAs(t, w, 7, got) /\ Makes(w, 128, u, 2, last)
  BY Zenon DEF Carries
<1>2. v \in Nat
  BY DEF Follows
<1>3. PICK g \in 0..31 : g = Bits(v, 16, 32)
  BY <1>2, BitsBelow
<1>4. PICK y : /\ Follows(y, w, 32, g) /\ Bits(y, 16, 256) \in 0..255
               /\ ReadAs(Append(t, g), y, 4, Append(got, Bits(y, 16, 256)))
  <2>1. <<7, 16, 4>> \in Completing
    BY DEF Completing
  <2>2. Completed(t, w, 16, 4, got, g)
    BY ONLY <1>1, <1>3, <2>1, ReadsByte
  <2>3. QED
    BY <2>2 DEF Completed
<1>5. t \o Out(v, 9, 5) = Append(t, g)
  <2>1. Out(v, 9, 5) = <<g>>
    BY <1>2, <1>3, OutIs
  <2>2. t \in Letters
    BY <1>1 DEF ReadAs
  <2>3. t \o <<g>> = Append(t, g)
    BY <1>3, <2>2, OneMore, Zenon
  <2>4. QED
    BY <2>1, <2>3, Zenon
<1>6. Bits(y, 16, 256) = last /\ Makes(y, 16, v, 16, x)
  <2>1. Makes(w, 128, u, 2, Bits(y, 16, 256)) /\ Makes(y, 16, v, 16, x)
    <3>1. Follows(y, w, 32, Bits(v, 16, 32))
      BY <1>3, <1>4, Zenon
    <3>2. QED
      BY <1>1, <3>1, From1
  <2>2. QED
    BY <1>1, <2>1, MakesOne
<1>7. y \in Nat /\ ReadAs(Append(t, g), y, 4, bytes)
  BY <1>1, <1>4, <1>6 DEF Follows
<1>8. QED
  BY <1>5, <1>6, <1>7, ZenonT(40) DEF Carries

LEMMA From2To0 ==
    ASSUME NEW bytes \in Bytes, NEW u \in Nat, NEW t, Carries(bytes, u, t, 6, 64, 4),
           NEW x \in 0..255, NEW v, Follows(v, u, 256, x)
    PROVE  \E w : ReadAs(t \o Out(v, 10, 5), w, 0, Append(bytes, x))
<1>1. PICK got \in Bytes, last \in 0..255, w \in Nat :
         bytes = Append(got, last) /\ ReadAs(t, w, 6, got) /\ Makes(w, 64, u, 4, last)
  BY Zenon DEF Carries
<1>2. v \in Nat
  BY DEF Follows
<1>3. PICK g \in 0..31 : g = Bits(v, 32, 32)
  BY <1>2, BitsBelow
<1>4. PICK h \in 0..31 : h = Bits(v, 1, 32)
  BY <1>2, BitsBelow
<1>5. PICK y : /\ Follows(y, w, 32, g) /\ Bits(y, 8, 256) \in 0..255
               /\ ReadAs(Append(t, g), y, 3, Append(got, Bits(y, 8, 256)))
  <2>1. <<6, 8, 3>> \in Completing
    BY DEF Completing
  <2>2. Completed(t, w, 8, 3, got, g)
    BY ONLY <1>1, <1>3, <2>1, ReadsByte
  <2>3. QED
    BY <2>2 DEF Completed
<1>6. PICK z : /\ Follows(z, y, 32, h) /\ Bits(z, 1, 256) \in 0..255
               /\ ReadAs(Append(Append(t, g), h), z, 0,
                         Append(Append(got, Bits(y, 8, 256)), Bits(z, 1, 256)))
  <2>1. <<3, 1, 0>> \in Completing
    BY DEF Completing
  <2>2. Completed(Append(t, g), y, 1, 0, Append(got, Bits(y, 8, 256)), h)
    BY ONLY <1>4, <1>5, <2>1, ReadsByte
  <2>3. QED
    BY <2>2 DEF Completed
<1>7. t \o Out(v, 10, 5) = Append(Append(t, g), h)
  <2>1. Out(v, 10, 5) = <<g, h>>
    BY <1>2, <1>3, <1>4, OutIs
  <2>2. t \in Letters
    BY <1>1 DEF ReadAs
  <2>3. t \o <<g, h>> = Append(Append(t, g), h)
    BY ONLY <1>3, <1>4, <2>2, TwoMore, ZenonT(40)
  <2>4. QED
    BY <2>1, <2>3, Zenon
<1>8. Bits(y, 8, 256) = last /\ Bits(z, 1, 256) = x
  <2>1. Makes(w, 64, u, 4, Bits(y, 8, 256)) /\ Makes(z, 256, v, 1, x)
    <3>1. Follows(y, w, 32, Bits(v, 32, 32)) /\ Follows(z, y, 32, Bits(v, 1, 32))
      BY <1>3, <1>4, <1>5, <1>6, Zenon
    <3>2. QED
      BY <1>1, <3>1, From2, ZenonT(40)
  <2>2. Bits(z, 1, 256) = x
    <3>1. z \in Nat
      BY <1>6 DEF Follows
    <3>2. QED
      BY <1>2, <2>1, <3>1 DEF Makes, Bits
  <2>3. QED
    BY <1>1, <2>1, <2>2, MakesOne
<1>9. ReadAs(Append(Append(t, g), h), z, 0, Append(bytes, x))
  BY <1>1, <1>6, <1>8
<1>10. QED
  BY <1>7, <1>9

LEMMA From3To1 ==
    ASSUME NEW bytes \in Bytes, NEW u \in Nat, NEW t, Carries(bytes, u, t, 5, 32, 8),
           NEW x \in 0..255, NEW v, Follows(v, u, 256, x)
    PROVE  Carries(Append(bytes, x), v, t \o Out(v, 11, 5), 7, 128, 2)
<1>1. PICK got \in Bytes, last \in 0..255, w \in Nat :
         bytes = Append(got, last) /\ ReadAs(t, w, 5, got) /\ Makes(w, 32, u, 8, last)
  BY Zenon DEF Carries
<1>2. v \in Nat
  BY DEF Follows
<1>3. PICK g \in 0..31 : g = Bits(v, 64, 32)
  BY <1>2, BitsBelow
<1>4. PICK h \in 0..31 : h = Bits(v, 2, 32)
  BY <1>2, BitsBelow
<1>5. PICK y : /\ Follows(y, w, 32, g) /\ Bits(y, 4, 256) \in 0..255
               /\ ReadAs(Append(t, g), y, 2, Append(got, Bits(y, 4, 256)))
  <2>1. <<5, 4, 2>> \in Completing
    BY DEF Completing
  <2>2. Completed(t, w, 4, 2, got, g)
    BY ONLY <1>1, <1>3, <2>1, ReadsByte
  <2>3. QED
    BY <2>2 DEF Completed
<1>6. PICK z : /\ Follows(z, y, 32, h)
               /\ ReadAs(Append(Append(t, g), h), z, 7, Append(got, Bits(y, 4, 256)))
  <2>1. PICK n \in 0..2 : n = 2 /\ n + 5 = 7
    OBVIOUS
  <2>2. ReadAs(Append(t, g), y, n, Append(got, Bits(y, 4, 256)))
    BY <1>5, <2>1, Zenon
  <2>3. PICK z : /\ Follows(z, y, 32, h)
                 /\ ReadAs(Append(Append(t, g), h), z, n + 5, Append(got, Bits(y, 4, 256)))
    BY <1>4, <2>2, ReadsNoByte
  <2>4. QED
    BY <2>1, <2>3, Zenon
<1>7. t \o Out(v, 11, 5) = Append(Append(t, g), h)
  <2>1. Out(v, 11, 5) = <<g, h>>
    BY <1>2, <1>3, <1>4, OutIs
  <2>2. t \in Letters
    BY <1>1 DEF ReadAs
  <2>3. t \o <<g, h>> = Append(Append(t, g), h)
    BY ONLY <1>3, <1>4, <2>2, TwoMore, ZenonT(40)
  <2>4. QED
    BY <2>1, <2>3, Zenon
<1>8. Bits(y, 4, 256) = last /\ Makes(z, 128, v, 2, x)
  <2>1. Makes(w, 32, u, 8, Bits(y, 4, 256)) /\ Makes(z, 128, v, 2, x)
    <3>1. Follows(y, w, 32, Bits(v, 64, 32)) /\ Follows(z, y, 32, Bits(v, 2, 32))
      BY <1>3, <1>4, <1>5, <1>6, Zenon
    <3>2. QED
      BY <1>1, <3>1, From3, ZenonT(40)
  <2>2. QED
    BY <1>1, <2>1, MakesOne
<1>9. z \in Nat /\ ReadAs(Append(Append(t, g), h), z, 7, bytes)
  BY <1>1, <1>6, <1>8 DEF Follows
<1>10. QED
  BY <1>7, <1>8, <1>9, ZenonT(40) DEF Carries

LEMMA From4To2 ==
    ASSUME NEW bytes \in Bytes, NEW u \in Nat, NEW t, Carries(bytes, u, t, 4, 16, 16),
           NEW x \in 0..255, NEW v, Follows(v, u, 256, x)
    PROVE  Carries(Append(bytes, x), v, t \o Out(v, 12, 5), 6, 64, 4)
<1>1. PICK got \in Bytes, last \in 0..255, w \in Nat :
         bytes = Append(got, last) /\ ReadAs(t, w, 4, got) /\ Makes(w, 16, u, 16, last)
  BY Zenon DEF Carries
<1>2. v \in Nat
  BY DEF Follows
<1>3. PICK g \in 0..31 : g = Bits(v, 128, 32)
  BY <1>2, BitsBelow
<1>4. PICK h \in 0..31 : h = Bits(v, 4, 32)
  BY <1>2, BitsBelow
<1>5. PICK y : /\ Follows(y, w, 32, g) /\ Bits(y, 2, 256) \in 0..255
               /\ ReadAs(Append(t, g), y, 1, Append(got, Bits(y, 2, 256)))
  <2>1. <<4, 2, 1>> \in Completing
    BY DEF Completing
  <2>2. Completed(t, w, 2, 1, got, g)
    BY ONLY <1>1, <1>3, <2>1, ReadsByte
  <2>3. QED
    BY <2>2 DEF Completed
<1>6. PICK z : /\ Follows(z, y, 32, h)
               /\ ReadAs(Append(Append(t, g), h), z, 6, Append(got, Bits(y, 2, 256)))
  <2>1. PICK n \in 0..2 : n = 1 /\ n + 5 = 6
    OBVIOUS
  <2>2. ReadAs(Append(t, g), y, n, Append(got, Bits(y, 2, 256)))
    BY <1>5, <2>1, Zenon
  <2>3. PICK z : /\ Follows(z, y, 32, h)
                 /\ ReadAs(Append(Append(t, g), h), z, n + 5, Append(got, Bits(y, 2, 256)))
    BY <1>4, <2>2, ReadsNoByte
  <2>4. QED
    BY <2>1, <2>3, Zenon
<1>7. t \o Out(v, 12, 5) = Append(Append(t, g), h)
  <2>1. Out(v, 12, 5) = <<g, h>>
    BY <1>2, <1>3, <1>4, OutIs
  <2>2. t \in Letters
    BY <1>1 DEF ReadAs
  <2>3. t \o <<g, h>> = Append(Append(t, g), h)
    BY ONLY <1>3, <1>4, <2>2, TwoMore, ZenonT(40)
  <2>4. QED
    BY <2>1, <2>3, Zenon
<1>8. Bits(y, 2, 256) = last /\ Makes(z, 64, v, 4, x)
  <2>1. Makes(w, 16, u, 16, Bits(y, 2, 256)) /\ Makes(z, 64, v, 4, x)
    <3>1. Follows(y, w, 32, Bits(v, 128, 32)) /\ Follows(z, y, 32, Bits(v, 4, 32))
      BY <1>3, <1>4, <1>5, <1>6, Zenon
    <3>2. QED
      BY <1>1, <3>1, From4, ZenonT(40)
  <2>2. QED
    BY <1>1, <2>1, MakesOne, SMTT(30)
<1>9. z \in Nat /\ ReadAs(Append(Append(t, g), h), z, 6, bytes)
  BY <1>1, <1>6, <1>8 DEF Follows
<1>10. QED
  BY <1>7, <1>8, <1>9, ZenonT(40) DEF Carries

(* One more byte, whatever bits were left of those before. *)
Grows(bytes, u, bits, t, x) ==
    \E v, after, s :
       /\ v \in Nat /\ after \in 0..4
       /\ J!Taken(Holding(u, bits, t), x, 8, 5) = Holding(v, after, s)
       /\ Meets(Append(bytes, x), v, after, s)

LEMMA MeetsMore ==
    ASSUME NEW bytes \in Bytes, NEW u \in Nat, NEW bits, NEW t, Meets(bytes, u, bits, t),
           NEW x \in 0..255
    PROVE  Grows(bytes, u, bits, t, x)
<1>1. PICK v : Follows(v, u, 256, x) /\ Gives(v, u, bits, t, x, 8, 5)
  BY Encodes, Zenon
<1>2. v \in Nat
  BY <1>1 DEF Follows
<1> DEFINE Then(after, s) ==
       /\ J!Taken(Holding(u, bits, t), x, 8, 5) = Holding(v, after, s)
       /\ Meets(Append(bytes, x), v, after, s)
<1>3. \E after, s : after \in 0..4 /\ Then(after, s)
  <2>1. CASE bits = 0 /\ \E w : ReadAs(t, w, 0, bytes)
    <3>1. PICK s : s = t \o Out(v, 8, 5)
      OBVIOUS
    <3>2. Carries(Append(bytes, x), v, s, 5, 32, 8)
      BY <1>1, <2>1, <3>1, From0To3, Zenon
    <3>3. J!Taken(Holding(u, bits, t), x, 8, 5) = Holding(v, 3, s)
      <4>1. PICK sum, rest : sum = 8 /\ rest = 3 /\ bits + 8 = sum /\ sum % 5 = rest
        BY <2>1
      <4>2. J!Taken(Holding(u, bits, t), x, 8, 5) = Holding(v, rest, t \o Out(v, sum, 5))
        BY <1>1, <4>1, Zenon DEF Gives
      <4>3. QED
        BY <3>1, <4>1, <4>2, Zenon
    <3>4. Meets(Append(bytes, x), v, 3, s)
      BY <3>2, Zenon DEF Meets
    <3>5. 3 \in 0..4
      OBVIOUS
    <3>6. QED
      BY <3>3, <3>4, <3>5, Zenon
  <2>2. CASE bits = 1 /\ Carries(bytes, u, t, 7, 128, 2)
    <3>1. PICK s : s = t \o Out(v, 9, 5)
      OBVIOUS
    <3>2. Carries(Append(bytes, x), v, s, 4, 16, 16)
      BY <1>1, <2>2, <3>1, From1To4, Zenon
    <3>3. J!Taken(Holding(u, bits, t), x, 8, 5) = Holding(v, 4, s)
      <4>1. PICK sum, rest : sum = 9 /\ rest = 4 /\ bits + 8 = sum /\ sum % 5 = rest
        BY <2>2
      <4>2. J!Taken(Holding(u, bits, t), x, 8, 5) = Holding(v, rest, t \o Out(v, sum, 5))
        BY <1>1, <4>1, Zenon DEF Gives
      <4>3. QED
        BY <3>1, <4>1, <4>2, Zenon
    <3>4. Meets(Append(bytes, x), v, 4, s)
      BY <3>2, Zenon DEF Meets
    <3>5. 4 \in 0..4
      OBVIOUS
    <3>6. QED
      BY <3>3, <3>4, <3>5, Zenon
  <2>3. CASE bits = 2 /\ Carries(bytes, u, t, 6, 64, 4)
    <3>1. PICK s : s = t \o Out(v, 10, 5)
      OBVIOUS
    <3>2. \E w : ReadAs(s, w, 0, Append(bytes, x))
      BY <1>1, <2>3, <3>1, From2To0, Zenon
    <3>3. J!Taken(Holding(u, bits, t), x, 8, 5) = Holding(v, 0, s)
      <4>1. PICK sum, rest : sum = 10 /\ rest = 0 /\ bits + 8 = sum /\ sum % 5 = rest
        BY <2>3
      <4>2. J!Taken(Holding(u, bits, t), x, 8, 5) = Holding(v, rest, t \o Out(v, sum, 5))
        BY <1>1, <4>1, Zenon DEF Gives
      <4>3. QED
        BY <3>1, <4>1, <4>2, Zenon
    <3>4. Meets(Append(bytes, x), v, 0, s)
      BY <3>2, Zenon DEF Meets
    <3>5. 0 \in 0..4
      OBVIOUS
    <3>6. QED
      BY <3>3, <3>4, <3>5, Zenon
  <2>4. CASE bits = 3 /\ Carries(bytes, u, t, 5, 32, 8)
    <3>1. PICK s : s = t \o Out(v, 11, 5)
      OBVIOUS
    <3>2. Carries(Append(bytes, x), v, s, 7, 128, 2)
      BY <1>1, <2>4, <3>1, From3To1, Zenon
    <3>3. J!Taken(Holding(u, bits, t), x, 8, 5) = Holding(v, 1, s)
      <4>1. PICK sum, rest : sum = 11 /\ rest = 1 /\ bits + 8 = sum /\ sum % 5 = rest
        BY <2>4
      <4>2. J!Taken(Holding(u, bits, t), x, 8, 5) = Holding(v, rest, t \o Out(v, sum, 5))
        BY <1>1, <4>1, Zenon DEF Gives
      <4>3. QED
        BY <3>1, <4>1, <4>2, Zenon
    <3>4. Meets(Append(bytes, x), v, 1, s)
      BY <3>2, Zenon DEF Meets
    <3>5. 1 \in 0..4
      OBVIOUS
    <3>6. QED
      BY <3>3, <3>4, <3>5, Zenon
  <2>5. CASE bits = 4 /\ Carries(bytes, u, t, 4, 16, 16)
    <3>1. PICK s : s = t \o Out(v, 12, 5)
      OBVIOUS
    <3>2. Carries(Append(bytes, x), v, s, 6, 64, 4)
      BY <1>1, <2>5, <3>1, From4To2, Zenon
    <3>3. J!Taken(Holding(u, bits, t), x, 8, 5) = Holding(v, 2, s)
      <4>1. PICK sum, rest : sum = 12 /\ rest = 2 /\ bits + 8 = sum /\ sum % 5 = rest
        BY <2>5
      <4>2. J!Taken(Holding(u, bits, t), x, 8, 5) = Holding(v, rest, t \o Out(v, sum, 5))
        BY <1>1, <4>1, Zenon DEF Gives
      <4>3. QED
        BY <3>1, <4>1, <4>2, Zenon
    <3>4. Meets(Append(bytes, x), v, 2, s)
      BY <3>2, Zenon DEF Meets
    <3>5. 2 \in 0..4
      OBVIOUS
    <3>6. QED
      BY <3>3, <3>4, <3>5, Zenon
  <2>6. QED
    BY <2>1, <2>2, <2>3, <2>4, <2>5, Zenon DEF Meets
<1>4. QED
  BY <1>2, <1>3, Zenon DEF Grows

(* Whatever the bytes, the letters so far give all of them, or all but the last. *)
Met(bytes) ==
    \E u, bits, t :
       /\ u \in Nat /\ bits \in 0..4 /\ Meets(bytes, u, bits, t)
       /\ J!Regrouped(bytes, 8, 5) = Holding(u, bits, t)

LEMMA AllMet ==
    \A bytes \in Bytes : Met(bytes)
<1> DEFINE Bad == {n \in Nat : \E bytes \in Bytes : Len(bytes) = n /\ ~ Met(bytes)}
<1>1. SUFFICES ASSUME Bad # {} PROVE FALSE
  <2>1. \A bytes \in Bytes : Len(bytes) \in Nat
    BY DEF Bytes
  <2>2. QED
    BY <2>1
<1>2. PICK n \in Bad : \A q \in Bad : n <= q
  BY <1>1, Least
<1>3. PICK bytes \in Bytes : Len(bytes) = n /\ ~ Met(bytes)
  OBVIOUS
<1>4. CASE n = 0
  <2>1. bytes = <<>>
    BY <1>3, <1>4 DEF Bytes
  <2>2. /\ J!Regrouped(<<>>, 8, 5) = Holding(0, 0, <<>>)
        /\ J!Regrouped(<<>>, 5, 8) = Holding(0, 0, <<>>)
    <3>1. ASSUME NEW a, NEW b PROVE J!Regrouped(<<>>, a, b) = J!Empty
      <4>1. PICK items : items = <<>>
        OBVIOUS
      <4>2. Len(items) = 0
        BY <4>1
      <4>3. PICK f : Runs(f, items, 0, a, b) /\ J!Regrouped(items, a, b) = f[0]
        BY <4>2, RegroupedIs
      <4>4. f[0] = J!Empty
        BY <4>3, RunsStep
      <4>5. QED
        BY <4>1, <4>3, <4>4
    <3>2. J!Empty = Holding(0, 0, <<>>)
      BY DEF J!Empty, Holding
    <3>3. QED
      BY <3>1, <3>2
  <2>3. ReadAs(<<>>, 0, 0, <<>>)
    BY <2>2 DEF ReadAs, Letters, Bytes
  <2>4. Meets(<<>>, 0, 0, <<>>)
    BY <2>3, Zenon DEF Meets
  <2>5. 0 \in Nat /\ 0 \in 0..4
    OBVIOUS
  <2>6. QED
    BY <1>3, <2>1, <2>2, <2>4, <2>5, Zenon DEF Met
<1>5. CASE n # 0
  <2>1. n - 1 \in Nat /\ ~ (n <= n - 1)
    BY <1>5
  <2>2. PICK front \in Bytes, x \in 0..255 : bytes = Append(front, x) /\ Len(front) = n - 1
    <3>1. PICK S : S = 0..255
      OBVIOUS
    <3>2. bytes \in Seq(S) /\ bytes # <<>>
      BY <1>3, <1>5, <3>1 DEF Bytes
    <3>3. PICK front \in Seq(S), x \in S : bytes = Append(front, x)
      BY <3>2, SequenceEmptyOrAppend
    <3>4. Len(bytes) = Len(front) + 1 /\ Len(front) \in Nat
      BY <3>3
    <3>5. Len(front) = n - 1
      BY <1>3, <3>4
    <3>6. front \in Bytes /\ x \in 0..255
      BY <3>1 DEF Bytes
    <3>7. QED
      BY <3>3, <3>5, <3>6, Zenon
  <2>3. Met(front)
    BY <1>2, <2>1, <2>2, SMTT(30)
  <2>4. PICK u, bits, t :
           /\ u \in Nat /\ bits \in 0..4 /\ Meets(front, u, bits, t)
           /\ J!Regrouped(front, 8, 5) = Holding(u, bits, t)
    BY <2>3, Zenon DEF Met
  <2>5. J!Regrouped(bytes, 8, 5) = J!Taken(Holding(u, bits, t), x, 8, 5)
    <3>1. front \in Seq(0..255)
      BY DEF Bytes
    <3>2. J!Regrouped(Append(front, x), 8, 5) = J!Taken(J!Regrouped(front, 8, 5), x, 8, 5)
      BY <3>1, RegroupedMore, ZenonT(40)
    <3>3. QED
      BY <2>2, <2>4, <3>2, Zenon
  <2>6. PICK v, after, s :
           /\ v \in Nat /\ after \in 0..4
           /\ J!Taken(Holding(u, bits, t), x, 8, 5) = Holding(v, after, s)
           /\ Meets(Append(front, x), v, after, s)
    <3>1. u \in Nat /\ Meets(front, u, bits, t)
      BY <2>4, Zenon
    <3>2. Grows(front, u, bits, t, x)
      BY <3>1, MeetsMore
    <3>3. QED
      BY <3>2, Zenon DEF Grows
  <2>7. QED
    BY <1>3, <2>2, <2>5, <2>6, Zenon DEF Met
<1>6. QED
  BY <1>4, <1>5

(* The letter that is filled with zeros gives the last byte. *)
Fills(g, u, p) == g = (u * p) % 32

LEMMA Fills1 ==
    ASSUME NEW u \in Nat, NEW w \in Nat, NEW x, Makes(w, 128, u, 2, x),
           NEW g, Fills(g, u, 16), NEW y, Follows(y, w, 32, g)
    PROVE  Bits(y, 16, 256) = x
<1> USE DEF Follows, Bits, Makes, Fills
<1>1. g = (u % 2) * 16
  OBVIOUS
<1>2. y % 4096 = (w % 128) * 32 + g
  BY <1>1
<1>3. QED
  BY <1>1, <1>2

LEMMA Fills2 ==
    ASSUME NEW u \in Nat, NEW w \in Nat, NEW x, Makes(w, 64, u, 4, x),
           NEW g, Fills(g, u, 8), NEW y, Follows(y, w, 32, g)
    PROVE  Bits(y, 8, 256) = x
<1> USE DEF Follows, Bits, Makes, Fills
<1>1. g = (u % 4) * 8
  OBVIOUS
<1>2. y % 2048 = (w % 64) * 32 + g
  BY <1>1
<1>3. QED
  BY <1>1, <1>2

LEMMA Fills3 ==
    ASSUME NEW u \in Nat, NEW w \in Nat, NEW x, Makes(w, 32, u, 8, x),
           NEW g, Fills(g, u, 4), NEW y, Follows(y, w, 32, g)
    PROVE  Bits(y, 4, 256) = x
<1> USE DEF Follows, Bits, Makes, Fills
<1>1. g = (u % 8) * 4
  OBVIOUS
<1>2. y % 1024 = (w % 32) * 32 + g
  BY <1>1
<1>3. QED
  BY <1>1, <1>2

LEMMA Fills4 ==
    ASSUME NEW u \in Nat, NEW w \in Nat, NEW x, Makes(w, 16, u, 16, x),
           NEW g, Fills(g, u, 2), NEW y, Follows(y, w, 32, g)
    PROVE  Bits(y, 2, 256) = x
<1> USE DEF Follows, Bits, Makes, Fills
<1>1. g = (u % 16) * 2
  OBVIOUS
<1>2. y % 512 = (w % 16) * 32 + g
  BY <1>1
<1>3. QED
  BY <1>1, <1>2

LEMMA Filled ==
    ASSUME NEW bytes \in Bytes, NEW u \in Nat, NEW bits \in 0..4, NEW t, Meets(bytes, u, bits, t),
           bits # 0, NEW g \in 0..31, Fills(g, u, Power(5 - bits))
    PROVE  Append(t, g) \in Letters /\ J!Regrouped(Append(t, g), 5, 8).out = bytes
<1>1. ASSUME NEW y, NEW d, ReadAs(Append(t, g), y, d, bytes)
      PROVE  Append(t, g) \in Letters /\ J!Regrouped(Append(t, g), 5, 8).out = bytes
  BY <1>1 DEF ReadAs, Holding
<1>2. \E y, d : ReadAs(Append(t, g), y, d, bytes)
  <2>1. CASE bits = 1 /\ Carries(bytes, u, t, 7, 128, 2)
    <3>1. Fills(g, u, 16)
      <4>1. Power(5 - bits) = 16
        BY <2>1, PowersOfTwo
      <4>2. QED
        BY <4>1
    <3>2. PICK got \in Bytes, x \in 0..255, w \in Nat :
             bytes = Append(got, x) /\ ReadAs(t, w, 7, got) /\ Makes(w, 128, u, 2, x)
      BY <2>1, Zenon DEF Carries
    <3>3. <<7, 16, 4>> \in Completing
      BY DEF Completing
    <3>4. Completed(t, w, 16, 4, got, g)
      BY ONLY <3>2, <3>3, g \in 0..31, ReadsByte
    <3>5. PICK y : /\ Follows(y, w, 32, g) /\ Bits(y, 16, 256) \in 0..255
                   /\ ReadAs(Append(t, g), y, 4, Append(got, Bits(y, 16, 256)))
      BY <3>4 DEF Completed
    <3>6. Bits(y, 16, 256) = x
      BY <3>1, <3>2, <3>5, Fills1
    <3>7. QED
      BY <3>2, <3>5, <3>6, Zenon
  <2>2. CASE bits = 2 /\ Carries(bytes, u, t, 6, 64, 4)
    <3>1. Fills(g, u, 8)
      <4>1. Power(5 - bits) = 8
        BY <2>2, PowersOfTwo
      <4>2. QED
        BY <4>1
    <3>2. PICK got \in Bytes, x \in 0..255, w \in Nat :
             bytes = Append(got, x) /\ ReadAs(t, w, 6, got) /\ Makes(w, 64, u, 4, x)
      BY <2>2, Zenon DEF Carries
    <3>3. <<6, 8, 3>> \in Completing
      BY DEF Completing
    <3>4. Completed(t, w, 8, 3, got, g)
      BY ONLY <3>2, <3>3, g \in 0..31, ReadsByte
    <3>5. PICK y : /\ Follows(y, w, 32, g) /\ Bits(y, 8, 256) \in 0..255
                   /\ ReadAs(Append(t, g), y, 3, Append(got, Bits(y, 8, 256)))
      BY <3>4 DEF Completed
    <3>6. Bits(y, 8, 256) = x
      BY <3>1, <3>2, <3>5, Fills2
    <3>7. QED
      BY <3>2, <3>5, <3>6, Zenon
  <2>3. CASE bits = 3 /\ Carries(bytes, u, t, 5, 32, 8)
    <3>1. Fills(g, u, 4)
      <4>1. Power(5 - bits) = 4
        BY <2>3, PowersOfTwo
      <4>2. QED
        BY <4>1
    <3>2. PICK got \in Bytes, x \in 0..255, w \in Nat :
             bytes = Append(got, x) /\ ReadAs(t, w, 5, got) /\ Makes(w, 32, u, 8, x)
      BY <2>3, Zenon DEF Carries
    <3>3. <<5, 4, 2>> \in Completing
      BY DEF Completing
    <3>4. Completed(t, w, 4, 2, got, g)
      BY ONLY <3>2, <3>3, g \in 0..31, ReadsByte
    <3>5. PICK y : /\ Follows(y, w, 32, g) /\ Bits(y, 4, 256) \in 0..255
                   /\ ReadAs(Append(t, g), y, 2, Append(got, Bits(y, 4, 256)))
      BY <3>4 DEF Completed
    <3>6. Bits(y, 4, 256) = x
      BY <3>1, <3>2, <3>5, Fills3
    <3>7. QED
      BY <3>2, <3>5, <3>6, Zenon
  <2>4. CASE bits = 4 /\ Carries(bytes, u, t, 4, 16, 16)
    <3>1. Fills(g, u, 2)
      <4>1. Power(5 - bits) = 2
        BY <2>4, PowersOfTwo
      <4>2. QED
        BY <4>1
    <3>2. PICK got \in Bytes, x \in 0..255, w \in Nat :
             bytes = Append(got, x) /\ ReadAs(t, w, 4, got) /\ Makes(w, 16, u, 16, x)
      BY <2>4, Zenon DEF Carries
    <3>3. <<4, 2, 1>> \in Completing
      BY DEF Completing
    <3>4. Completed(t, w, 2, 1, got, g)
      BY ONLY <3>2, <3>3, g \in 0..31, ReadsByte
    <3>5. PICK y : /\ Follows(y, w, 32, g) /\ Bits(y, 2, 256) \in 0..255
                   /\ ReadAs(Append(t, g), y, 1, Append(got, Bits(y, 2, 256)))
      BY <3>4 DEF Completed
    <3>6. Bits(y, 2, 256) = x
      BY <3>1, <3>2, <3>5, Fills4
    <3>7. QED
      BY <3>2, <3>5, <3>6, Zenon
  <2>5. QED
    BY <2>1, <2>2, <2>3, <2>4, Zenon DEF Meets
<1>3. QED
  BY <1>1, <1>2, Zenon

(* So every secret is read back from its text. *)
LEMMA ReadBackAll ==
    ASSUME NEW bytes \in Bytes
    PROVE  J!base32Encode(bytes) \in Letters /\ J!base32Decode(J!base32Encode(bytes)) = bytes
<1>1. PICK u, bits, t :
         /\ u \in Nat /\ bits \in 0..4 /\ Meets(bytes, u, bits, t)
         /\ J!Regrouped(bytes, 8, 5) = Holding(u, bits, t)
  BY AllMet, Zenon DEF Met
<1>2. PICK s : s = J!Regrouped(bytes, 8, 5)
  OBVIOUS
<1>7. u \in Nat /\ bits \in 0..4 /\ Meets(bytes, u, bits, t)
  BY <1>1, Zenon
<1>3. s.value = u /\ s.bits = bits /\ s.out = t
  BY <1>1, <1>2 DEF Holding
<1>4. CASE bits = 0
  <2>1. J!base32Encode(bytes) = t
    <3>1. J!base32Encode(bytes) = s.out
      BY <1>2, <1>3, <1>4 DEF J!base32Encode
    <3>2. QED
      BY <1>3, <3>1
  <2>2. PICK w : ReadAs(t, w, 0, bytes)
    BY <1>1, <1>4 DEF Meets
  <2>3. t \in Letters /\ J!Regrouped(t, 5, 8).out = bytes
    BY <2>2 DEF ReadAs, Holding
  <2>4. QED
    BY <2>1, <2>3, Zenon DEF J!base32Decode
<1>5. CASE bits # 0
  <2>1. PICK g : g = (u * Power(5 - bits)) % 32
    OBVIOUS
  <2>2. g \in 0..31
    <3>1. Power(5 - bits) \in Nat
      BY <1>7, <1>5, PowersOfTwo
    <3>2. PICK p \in Nat : p = Power(5 - bits)
      BY <3>1
    <3>3. QED
      BY <1>7, <2>1, <3>2, SMTT(30)
  <2>3. J!base32Encode(bytes) = Append(t, g)
    <3>1. s.bits > 0
      BY <1>7, <1>3, <1>5
    <3>2. J!base32Encode(bytes) = Append(s.out, (s.value * Power(5 - s.bits)) % Power(5))
      BY <1>2, <3>1, Zenon DEF J!base32Encode, Power
    <3>3. QED
      BY <1>3, <2>1, <3>2, PowersOfTwo
  <2>4. Append(t, g) \in Letters /\ J!Regrouped(Append(t, g), 5, 8).out = bytes
    <3>1. Fills(g, u, Power(5 - bits))
      BY <2>1, Zenon DEF Fills
    <3>2. QED
      BY <1>7, <1>5, <2>2, <3>1, Filled, SMTT(30)
  <2>5. QED
    BY <2>3, <2>4, Zenon DEF J!base32Decode
<1>6. QED
  BY <1>4, <1>5

(* The secrets that are tried are made of bytes. *)
LEMMA TriedBytes == J!SeqOf(Byte, MaxBytes) \subseteq Bytes
<1>1. PICK S : S = 0..255 /\ Byte \subseteq S
  BY SecretsAssumption
<1>2. ASSUME NEW m \in Nat, NEW b \in [1..m -> Byte] PROVE b \in Seq(S)
  <2>1. \A k \in 1..m : b[k] \in S
    BY <1>1
  <2>2. b = [k \in 1..m |-> b[k]]
    OBVIOUS
  <2>3. QED
    BY <2>1, <2>2, IsASeq
<1>3. \A m \in 0..MaxBytes : m \in Nat
  BY SecretsAssumption
<1>4. QED
  BY <1>1, <1>2, <1>3, ZenonT(40) DEF J!SeqOf, Bytes

(* What base32Encode writes of a secret base32Decode reads back (totp.ts:24, :39). *)
LEMMA SecretsRead == J!Spec => []J!SecretReadBack
<1> DEFINE Inv == secretAsked = None \/ \E bytes \in Bytes : secretAsked = [secret |-> bytes]
<1>1. J!Init => Inv
  BY DEF J!Init
<1>2. Inv /\ [J!Next]_secretAsked => Inv'
  <2>1. SUFFICES ASSUME Inv, [J!Next]_secretAsked PROVE Inv'
    OBVIOUS
  <2>2. CASE J!Next
    <3>1. PICK bytes \in J!SeqOf(Byte, MaxBytes) : secretAsked' = [secret |-> bytes]
      BY <2>2 DEF J!Next
    <3>2. bytes \in Bytes
      BY <3>1, SecretsAssumption, TriedBytes DEF J!SeqOf
    <3>3. QED
      BY <3>1, <3>2
  <2>3. CASE UNCHANGED secretAsked
    BY <2>1, <2>3
  <2>4. QED
    BY <2>1, <2>2, <2>3
<1>3. Inv => J!SecretReadBack
  <2>1. SUFFICES ASSUME Inv, secretAsked # None
                 PROVE  LET text == J!base32Encode(secretAsked.secret)
                        IN  /\ J!base32Decode(text) = secretAsked.secret
                            /\ \A i \in DOMAIN text : text[i] < 32
    BY DEF J!SecretReadBack
  <2>2. PICK bytes \in Bytes : bytes = secretAsked.secret
    BY <2>1
  <2>3. PICK text \in Letters : text = J!base32Encode(bytes) /\ J!base32Decode(text) = bytes
    BY <2>2, ReadBackAll
  <2>4. \A i \in DOMAIN text : text[i] < 32
    <3>1. PICK S : S = 0..31
      OBVIOUS
    <3>2. text \in Seq(S)
      BY <3>1 DEF Letters
    <3>3. \A i \in DOMAIN text : text[i] \in S
      <4>1. DOMAIN text = 1..Len(text)
        BY <3>2
      <4>2. QED
        BY <3>2, <4>1, ElementOfSeq
    <3>4. \A g \in S : g < 32
      BY <3>1
    <3>5. QED
      BY <3>3, <3>4
  <2>5. QED
    BY <2>2, <2>3, <2>4, Zenon
<1>4. QED
  BY <1>1, <1>2, <1>3, PTL DEF J!Spec
=============================================================================
