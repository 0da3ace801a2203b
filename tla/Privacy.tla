------------------------------- MODULE Privacy -------------------------------
(***************************************************************************)
(* Erasure, retention, backups and restores (lib/privacy.ts, the scripts   *)
(* backup_postgres.sh and restore_postgres.sh).  An erasure keeps one      *)
(* record of a person, the suppression; the suppressions of erasures are   *)
(* the ledger that is re-applied when a backup from before is restored.    *)
(* What is sent is OutreachSend's: here a message is a row with a text.    *)
(***************************************************************************)
EXTENDS Naturals, FiniteSets

CONSTANTS Person,  \* the people of one tenant
          None

CONSTANT MaxBackup   \* bound on the dumps of a run

VARIABLES
    live,          \* what the database in use holds of each person
    dump,          \* the database of the last dump, or None
    ledger,        \* the ledger exported last
    whole,         \* that dump was followed by a ledger: the backup counts
    todo,          \* during a restore: entries of the ledger still to re-apply
    mode,          \* "live" | "restored": paused, and not in use yet
    erased,        \* history: people whose erasure was confirmed
    listed,        \* history: erased, as of the last export of the ledger
    backups        \* bound: dumps made

vars == <<live, dump, ledger, whole, todo, mode, erased, listed, backups>>

Waiting == {"queued", "retry", "sending"}   \* the statuses QUEUED and SENDING

Held == [contact : BOOLEAN, lead : BOOLEAN,
         reply   : {"none", "text", "redacted"},
         row     : {"none", "done"} \union Waiting,   \* retry: QUEUED after an attempt
         text    : BOOLEAN,                           \* subject and body of the row
         suppressed : {"no", "other", "erasure"}]

Unknown == [contact |-> FALSE, lead |-> FALSE, reply |-> "none", row |-> "none",
            text |-> FALSE, suppressed |-> "no"]

Init ==
    /\ live = [p \in Person |-> Unknown]
    /\ dump = None /\ ledger = {} /\ whole = FALSE
    /\ todo = {} /\ mode = "live"
    /\ erased = {} /\ listed = {} /\ backups = 0

TypeOK ==
    /\ live \in [Person -> Held]
    /\ dump \in [Person -> Held] \union {None}
    /\ ledger \subseteq Person /\ todo \subseteq ledger
    /\ whole \in BOOLEAN /\ mode \in {"live", "restored"}
    /\ erased \subseteq Person /\ listed \subseteq Person /\ backups \in 0..MaxBackup

kept == <<dump, ledger, whole, todo, mode, erased, listed, backups>>
-----------------------------------------------------------------------------
(* suppress: the first reason stays; what waits is canceled. *)
Suppressed(h, reason) ==
    [h EXCEPT !.suppressed = IF @ = "no" THEN reason ELSE @,
              !.row = IF @ \in Waiting /\ h.contact THEN "done" ELSE @]

(* Mutant: the upsert keeps the reason of an earlier suppression. *)
Reason_Kept(old) == IF old = "no" THEN "erasure" ELSE old

(* The reason an erasure writes over whatever reason there was. *)
Reason(old) == "erasure"

(* eraseSubject: the rows stay, without text and without the person. *)
Forgotten(h) ==
    LET s == Suppressed([h EXCEPT !.suppressed = Reason(@)], "erasure")
    IN  [s EXCEPT !.contact = FALSE, !.lead = FALSE, !.reply = "none",
                  !.row = "none", !.text = FALSE]

(* What exportSubjectData shows of a person: replies, messages by the contact. *)
SubjectData(p) ==
    LET h == live[p] IN
    {k \in {"contact", "suppression", "replies", "messages"} :
        \/ k = "contact" /\ h.contact
        \/ k = "suppression" /\ h.suppressed # "no"
        \/ k = "replies" /\ h.contact /\ h.reply # "none"
        \/ k = "messages" /\ h.contact /\ h.row # "none"}

(* An operator erases a person (with requireMatch: somebody the tenant knows). *)
Erase(p) ==
    /\ mode = "live"
    /\ live[p].contact \/ live[p].lead
    /\ live' = [live EXCEPT ![p] = Forgotten(@)]
    /\ erased' = erased \union {p}
    /\ UNCHANGED <<dump, ledger, whole, todo, mode, listed, backups>>

(* Whether retention may redact an old row. *)
Redactable(h) == h.row \notin Waiting

(* applyRetention: of what has a text, the rows and the replies older than the cutoff. *)
Retention(rows, replies) ==
    /\ mode = "live"
    /\ \A p \in rows : live[p].text
    /\ \A p \in replies : live[p].reply = "text"
    /\ live' = [p \in Person |->
                  [live[p] EXCEPT
                     !.text  = @ /\ ~ (p \in rows /\ Redactable(live[p])),
                     !.reply = IF p \in replies THEN "redacted" ELSE @]]
    /\ UNCHANGED kept
-----------------------------------------------------------------------------
(* The rest of the system, as far as it touches these rows. *)
Change(p, h) == mode = "live" /\ live' = [live EXCEPT ![p] = h] /\ UNCHANGED kept

(* Discovery enrolls somebody who is not suppressed, and queues a message. *)
Discover(p) ==
    /\ live[p].suppressed = "no" /\ live[p].row = "none"
    /\ Change(p, [live[p] EXCEPT !.contact = TRUE, !.lead = TRUE, !.row = "queued"])

(* An operator adds or imports a lead: nothing is looked up. *)
Import(p) == ~ live[p].lead /\ Change(p, [live[p] EXCEPT !.lead = TRUE])

(* The message is prepared for sending; its text is stored, or was by an earlier try. *)
Prepare(p) ==
    /\ live[p].row \in {"queued", "retry"} /\ live[p].suppressed = "no"
    /\ Change(p, [live[p] EXCEPT !.row = "sending", !.text = TRUE])

Deliver(p, outcome) ==
    live[p].row = "sending" /\ Change(p, [live[p] EXCEPT !.row = outcome])

(* A reply stops what waits, a refusal or an unsubscription suppresses too. *)
Reply(p) ==
    /\ live[p].contact /\ live[p].reply = "none"
    /\ Change(p, [live[p] EXCEPT !.reply = "text", !.row = IF @ \in Waiting THEN "done" ELSE @])

Unsubscribe(p) == live[p].contact /\ Change(p, Suppressed(live[p], "other"))
-----------------------------------------------------------------------------
(* backup_postgres.sh: the dump first, the ledger after it. *)
Dump ==
    /\ mode = "live" /\ backups < MaxBackup
    /\ dump' = live /\ whole' = FALSE /\ backups' = backups + 1
    /\ UNCHANGED <<live, ledger, todo, mode, erased, listed>>

(* exportErasureLedger, by the backup or by hand. *)
ExportLedger ==
    /\ mode = "live" /\ dump # None
    /\ ledger' = {p \in Person : live[p].suppressed = "erasure"}
    /\ listed' = erased /\ whole' = TRUE
    /\ UNCHANGED <<live, dump, todo, mode, erased, backups>>

(* restore_postgres.sh: the dump with every campaign paused and nothing switched on.
   Erasures after the last ledger are lost with the database. *)
Restore ==
    /\ mode = "live" /\ whole
    /\ live' = dump /\ todo' = ledger /\ mode' = "restored" /\ erased' = listed
    /\ UNCHANGED <<dump, ledger, whole, listed, backups>>

(* reapplyErasures: each entry is a transaction of its own. *)
Reapply(p) ==
    /\ mode = "restored" /\ p \in todo
    /\ live' = [live EXCEPT ![p] = Forgotten(@)]
    /\ todo' = todo \ {p}
    /\ UNCHANGED <<dump, ledger, whole, mode, erased, listed, backups>>

(* The script fails in the middle and is run again. *)
Rerun ==
    /\ mode = "restored" /\ todo # ledger
    /\ todo' = ledger
    /\ UNCHANGED <<live, dump, ledger, whole, mode, erased, listed, backups>>

(* The restored database is taken into use. *)
Promote ==
    /\ mode = "restored" /\ todo = {}
    /\ mode' = "live"
    /\ UNCHANGED <<live, dump, ledger, whole, todo, erased, listed, backups>>

Next ==
    \/ \E p \in Person :
         \/ Erase(p) \/ Discover(p) \/ Import(p) \/ Prepare(p)
         \/ \E outcome \in {"done", "retry"} : Deliver(p, outcome)
         \/ Reply(p) \/ Unsubscribe(p) \/ Reapply(p)
    \/ \E rows, replies \in SUBSET Person : Retention(rows, replies)
    \/ Dump \/ ExportLedger \/ Restore \/ Rerun \/ Promote

Spec == Init /\ [][Next]_vars
-----------------------------------------------------------------------------
(* Whoever was erased before the last ledger stays erased, whatever backup is restored
   and however often the script is interrupted: an export of that person shows the
   suppression and nothing else (privacy.ts:35, :64). *)
ErasedStaysErased == mode = "live" => \A p \in erased : SubjectData(p) = {"suppression"}

(* Retention spares the text of a message that may still be sent: a retry sends what
   its receipt was bound to (privacy.ts:85). *)
RetryKeepsText == \A p \in Person : live[p].row \in {"retry", "sending"} => live[p].text

(* Refuted: an unsubscription after the dump is not in the ledger, and a restore forgets
   it. *)
UnsubscriptionSurvives ==
    [][\A p \in Person : live[p].suppressed # "no" /\ mode' = "live"
                           => live'[p].suppressed # "no"]_vars
=============================================================================
