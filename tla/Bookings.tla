------------------------------ MODULE Bookings ------------------------------
(***************************************************************************)
(* Calendly bookings and the appointments that mirror them.  A booking     *)
(* reaches handleProviderEvent (lib/webhooks.ts) by two ways that know     *)
(* nothing of each other: webhooks, which Calendly may deliver late,       *)
(* twice, out of order or never, and the reconciliation pass of            *)
(* lib/calendlyReconcile.ts, which reads the calendar booking by booking   *)
(* and may be interrupted anywhere.  handleProviderEvent runs under the    *)
(* tenant lock and is one step.                                            *)
(*                                                                         *)
(* The times of a booking are ranks: it is made at 1, the webhook that     *)
(* says so is written at 2, and it is canceled at 3.                       *)
(***************************************************************************)
EXTENDS Naturals, Sequences, SequencesExt

CONSTANTS Booking,     \* invitees whose contact is enrolled on the campaign
          Stray,       \* invitees whose event is refused (404, 409): the contact
                       \* is not enrolled, or the booking is someone else's
          MaxBroken,   \* bound: passes Calendly or a crash interrupts
          AutoQualify, \* what handleProviderEvent computes for `qualified`
          None

VARIABLES
    calendar,  \* what Calendly says of each invitee
    log,       \* WebhookEvent: the ids of the events processed
    appt,      \* Appointment of each booking, or None
    stopped,   \* enrollments stopped by a booking event
    pass,      \* the reconciliation pass: invitees still to read, or None
    held,      \* the invitee read last and not applied yet, or None
    qualifying,\* appointments PATCH has read as BOOKED and not written yet
    broken     \* history: passes interrupted so far

vars == <<calendar, log, appt, stopped, pass, held, qualifying, broken>>

Invitee == Booking \cup Stray
Change  == {"created", "canceled"}

TypeOK ==
    /\ calendar \in [Invitee -> {"none", "created", "canceled", "past"}]
    /\ log \subseteq {"webhook", "reconcile"} \X Booking \X Change
    /\ \A b \in Booking : appt[b] = None \/
          appt[b] \in [status : {"BOOKED", "CANCELED"}, updatedAt : 1..3,
                       qualified : BOOLEAN, outcome : BOOLEAN]
    /\ stopped \subseteq Booking /\ qualifying \subseteq Booking

Init ==
    /\ calendar = [i \in Invitee |-> "none"]
    /\ log = {} /\ stopped = {} /\ qualifying = {}
    /\ appt = [b \in Booking |-> None]
    /\ pass = None /\ held = None
    /\ broken = 0

-----------------------------------------------------------------------------
(* normalizeCalendlyEvent: a webhook says "created" with the time of its
   envelope, the reconciliation with the time of the booking; both say
   "canceled" with the time of the cancellation. *)
OccurredAt(way, change) == IF change = "canceled" THEN 3
                           ELSE IF way = "webhook" THEN 2 ELSE 1

(* Mutant: the last event to arrive wins. *)
Newer_Arrival(b, at) == TRUE

(* An event is applied only over an older one. *)
Newer(b, at) == appt[b] = None \/ appt[b].updatedAt < at

Applied(b, change, at) ==
    [status    |-> IF change = "canceled" THEN "CANCELED" ELSE "BOOKED",
     updatedAt |-> at,
     qualified |-> AutoQualify,
     outcome   |-> appt[b] # None /\ appt[b].outcome]

(* Mutant: the reconciliation reports an invitee under one id for good. *)
EventId_OfInvitee(way, b, change) ==
    <<way, b, IF way = "reconcile" THEN "created" ELSE change>>

EventId(way, b, change) == <<way, b, change>>

(* handleProviderEvent for a booking: a known id changes nothing; any other
   stops the enrollment, is logged, and is applied if it is newer. *)
Handle(way, b, change) ==
    LET id    == EventId(way, b, change)
        at    == OccurredAt(way, change)
        fresh == id \notin log
        wins  == fresh /\ Newer(b, at) IN
    /\ log' = log \cup {id}
    /\ stopped' = IF fresh THEN stopped \cup {b} ELSE stopped
    /\ appt' = IF wins THEN [appt EXCEPT ![b] = Applied(b, change, at)] ELSE appt

-----------------------------------------------------------------------------
(* The buyer books, and cancels; a meeting a day past leaves the window of the
   reconciliation (only strays do here: they start first). *)
Book(i) == /\ calendar[i] = "none"
           /\ calendar' = [calendar EXCEPT ![i] = "created"]
           /\ UNCHANGED <<log, appt, stopped, pass, held, qualifying, broken>>

Cancel(b) == /\ calendar[b] = "created"
             /\ calendar' = [calendar EXCEPT ![b] = "canceled"]
             /\ UNCHANGED <<log, appt, stopped, pass, held, qualifying, broken>>

Passes(i) == /\ calendar[i] = "created"
             /\ calendar' = [calendar EXCEPT ![i] = "past"]
             /\ UNCHANGED <<log, appt, stopped, pass, held, qualifying, broken>>

(* POST /api/webhooks/calendly: any change that happened, at any later time and
   any number of times. *)
Webhook(b, change) ==
    /\ calendar[b] = "canceled" \/ calendar[b] = change
    /\ Handle("webhook", b, change)
    /\ UNCHANGED <<calendar, pass, held, qualifying, broken>>

-----------------------------------------------------------------------------
(* reconcileCalendly: the events from yesterday on, by start time. *)
Listed == {i \in Invitee : calendar[i] \in Change}

StartPass ==
    /\ pass = None
    /\ pass' = SetToSeq(Listed \cap Stray) \o SetToSeq(Listed \cap Booking)
    /\ UNCHANGED <<calendar, log, appt, stopped, held, qualifying, broken>>

(* The invitees of the next event are read; they are applied one step later. *)
ReadInvitee ==
    /\ pass \notin {None, <<>>} /\ held = None
    /\ held' = <<Head(pass), IF calendar[Head(pass)] = "canceled" THEN "canceled" ELSE "created">>
    /\ pass' = Tail(pass)
    /\ UNCHANGED <<calendar, log, appt, stopped, qualifying, broken>>

Reconcile(b) ==
    /\ held # None /\ held[1] = b
    /\ Handle("reconcile", b, held[2])
    /\ held' = None
    /\ UNCHANGED <<calendar, pass, qualifying, broken>>

(* The pass is over: at its end, when Calendly does not answer, when the worker
   dies, and when an event is refused, which nothing catches before
   reconcileAllCalendly.  The next pass starts from the beginning. *)
Abandon == /\ pass' = None /\ held' = None
           /\ UNCHANGED <<calendar, log, appt, stopped, qualifying>>

EndPass   == pass = <<>> /\ held = None /\ Abandon /\ UNCHANGED broken
Refused   == held # None /\ held[1] \in Stray /\ Abandon /\ UNCHANGED broken
Interrupt == pass # None /\ broken < MaxBroken /\ Abandon /\ broken' = broken + 1

-----------------------------------------------------------------------------
(* PATCH /api/appointments: `qualified` is read and then written by id alone,
   an outcome is written where the appointment is BOOKED. *)
QualifyRead(b) ==
    /\ appt[b] # None /\ appt[b].status = "BOOKED"
    /\ qualifying' = qualifying \cup {b}
    /\ UNCHANGED <<calendar, log, appt, stopped, pass, held, broken>>

QualifyWrite(b) ==
    /\ b \in qualifying
    /\ qualifying' = qualifying \ {b}
    /\ appt' = [appt EXCEPT ![b].qualified = TRUE]
    /\ UNCHANGED <<calendar, log, stopped, pass, held, broken>>

Outcome(b) ==
    /\ appt[b] # None /\ appt[b].status = "BOOKED"
    /\ appt' = [appt EXCEPT ![b].outcome = TRUE]
    /\ UNCHANGED <<calendar, log, stopped, pass, held, qualifying, broken>>

-----------------------------------------------------------------------------
Next ==
    \/ \E i \in Invitee : Book(i)
    \/ \E i \in Stray : Passes(i)
    \/ \E b \in Booking :
          \/ Cancel(b) \/ Reconcile(b)
          \/ \E change \in Change : Webhook(b, change)
          \/ QualifyRead(b) \/ QualifyWrite(b) \/ Outcome(b)
    \/ StartPass \/ ReadInvitee \/ EndPass \/ Interrupt \/ Refused

Spec == Init /\ [][Next]_vars

(* A pass is started every 15 minutes and keeps going when nothing interrupts it,
   and time passes.  Nothing is assumed of webhooks. *)
Fairness ==
    /\ WF_vars(StartPass \/ EndPass \/ Refused)
    /\ WF_vars(ReadInvitee \/ \E b \in Booking : Reconcile(b))
    /\ WF_vars(\E i \in Stray : Passes(i))

-----------------------------------------------------------------------------
(* Events that happened to booking b and were processed, by either way. *)
Known(b) == {e \in log : e[2] = b}

(* The appointment shows the newest event processed, whatever the order in which
   webhooks, their retries and the reconciliation were processed: a meeting known
   to be canceled is never shown as booked again (webhooks.ts:84). *)
LastWord ==
    \A b \in Booking : Known(b) # {} =>
        /\ appt[b] # None
        /\ \A e \in Known(b) : appt[b].updatedAt >= OccurredAt(e[1], e[3])
        /\ appt[b].status = "CANCELED" <=> \E e \in Known(b) : e[3] = "canceled"

Mirrored(b) == appt[b] # None /\ (calendar[b] = "canceled" => appt[b].status = "CANCELED")

(* The calendar reaches the appointment although every webhook may be lost and
   passes are interrupted: "Recovers bookings whose webhooks were missed"
   (calendlyReconcile.ts:9), also behind a booking that is refused. *)
CalendarMirrored ==
    \A b \in Booking : calendar[b] \in Change ~> Mirrored(b)
=============================================================================
