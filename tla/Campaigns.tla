----------------------------- MODULE Campaigns ------------------------------
(***************************************************************************)
(* One campaign, its versions and an experiment on its first step          *)
(* (lib/campaignVersions.ts, lib/experiments).  updateCampaign runs under  *)
(* the tenant lock and is one step; accepting a recommendation is several  *)
(* transactions, and starting or stopping a test reads and then writes.    *)
(* Of the contents only what a change of it does is kept: the text of each *)
(* step and the sender (both material).                                    *)
(***************************************************************************)
EXTENDS Naturals, Sequences

CONSTANTS Call,       \* people deciding, starting or stopping at once
          Enrollment, \* enrollments that reach the first step
          Texts,      \* steps of a campaign: sequences of one or two texts
          Original,   \* the steps it is created with
          Winner,     \* the text of the variant under test
          Sender,     \* addresses
          Owner,      \* the one it is created with
          MaxVersion, \* bound
          None

VARIABLES
    content,  \* steps and sender of the campaign
    version,  \* Campaign.version
    versions, \* CampaignVersion: contents by number, or None
    status,   \* Campaign.status
    queued,   \* the outreach row queued for the last step: "none", "queued",
              \* "approved" or "canceled"
    test,     \* Experiment.status
    rec,      \* ExperimentRecommendation.status, or "none"
    arm,      \* ExperimentAssignment of each enrollment, or None
    at, read, \* each call: point, and what it has read
    had       \* history: contents the campaign has had

campaign == <<content, version, versions, status, queued, had>>
trial    == <<test, rec, arm>>
vars     == <<campaign, trial, at, read>>

Content == [steps : Texts, sender : Sender]

TypeOK ==
    /\ content \in Content /\ had \subseteq Content
    /\ version \in 1..MaxVersion
    /\ \A v \in 1..MaxVersion : versions[v] = None \/ versions[v] \in Content
    /\ status \in {"DRAFT", "ACTIVE", "PAUSED", "COMPLETE"}
    /\ queued \in {"none", "queued", "approved", "canceled"}
    /\ test \in {"DRAFT", "RUNNING", "STOPPED", "CONCLUDED"}
    /\ rec \in {"none", "OPEN", "ACCEPTED", "REJECTED"}
    /\ arm \in [Enrollment -> {"control", "variant", None}]
    /\ at \in [Call -> {"idle", "set", "accept", "apply", "undo", "record", "reject"}]

Init ==
    /\ content = [steps |-> Original, sender |-> Owner]
    /\ had = {content}
    /\ version = 1 /\ versions = [v \in 1..MaxVersion |-> None]
    /\ status = "DRAFT" /\ queued = "none"
    /\ test = "DRAFT" /\ rec = "none" /\ arm = [n \in Enrollment |-> None]
    /\ at = [c \in Call |-> "idle"] /\ read = [c \in Call |-> None]

Goes(c, p, x) == at' = [at EXCEPT ![c] = p] /\ read' = [read EXCEPT ![c] = x]

-----------------------------------------------------------------------------
(* Mutant: the tested step may be edited. *)
Blocked_Never(new) == FALSE

(* experiment_running_on_step: the copy under test may not change. *)
Blocked(new) == test = "RUNNING" /\ Head(new.steps) # Head(content.steps)

(* The state being replaced is preserved, unless its version is, and the new one
   saved. *)
Saved(new) == [versions EXCEPT ![version]     = IF @ = None THEN content ELSE @,
                               ![version + 1] = new]

(* updateCampaign for a change that is not refused: approvals are withdrawn, what
   is queued for a removed step canceled, a new sender pauses. *)
Update(new) ==
    /\ version < MaxVersion
    /\ content' = new /\ version' = version + 1 /\ had' = had \cup {new}
    /\ versions' = Saved(new)
    /\ status' = IF new.sender # content.sender /\ status = "ACTIVE" THEN "PAUSED" ELSE status
    /\ queued' = IF queued \notin {"queued", "approved"} THEN queued
                 ELSE IF Len(new.steps) < Len(content.steps) THEN "canceled" ELSE "queued"

(* PUT /api/campaigns/[id]. *)
Edit(new) ==
    /\ new # content /\ ~Blocked(new)
    /\ Update(new)
    /\ UNCHANGED <<trial, at, read>>

(* rollbackCampaign: an earlier snapshot becomes a new version. *)
Rollback(v) ==
    /\ versions[v] # None /\ versions[v] # content /\ ~Blocked(versions[v])
    /\ Update(versions[v])
    /\ UNCHANGED <<trial, at, read>>

(* PATCH /api/campaigns: activated when it is ready, paused or complete. *)
SetStatus(s) == /\ status' = s
                /\ UNCHANGED <<content, version, versions, queued, had, trial, at, read>>

(* The worker queues the last step and an operator approves it. *)
Queue == /\ queued = "none" /\ Len(content.steps) > 1 /\ queued' = "queued"
         /\ UNCHANGED <<content, version, versions, status, had, trial, at, read>>

Approve == /\ queued = "queued" /\ queued' = "approved"
           /\ UNCHANGED <<content, version, versions, status, had, trial, at, read>>

-----------------------------------------------------------------------------
(* pickVariant: a new enrollment gets the arm its id selects; one that has an arm
   keeps it. *)
Assign(n, a) ==
    /\ test = "RUNNING" /\ arm[n] = None
    /\ arm' = [arm EXCEPT ![n] = a]
    /\ UNCHANGED <<campaign, test, rec, at, read>>

(* evaluateExperiments: proposed once, when every arm has its sample. *)
Evaluate ==
    /\ test = "RUNNING" /\ rec = "none"
    /\ {"control", "variant"} \subseteq {arm[n] : n \in Enrollment}
    /\ rec' = "OPEN"
    /\ UNCHANGED <<campaign, test, arm, at, read>>

(* setExperimentStatus reads whether the change is allowed and writes by id. *)
SetRead(c, s) ==
    /\ at[c] = "idle"
    /\ IF s = "RUNNING" THEN test \in {"DRAFT", "STOPPED"} ELSE test = "RUNNING"
    /\ Goes(c, "set", s)
    /\ UNCHANGED <<campaign, trial>>

SetWrite(c) == /\ at[c] = "set" /\ test' = read[c] /\ Goes(c, "idle", None)
               /\ UNCHANGED <<campaign, rec, arm>>

(* decideRecommendation reads an open recommendation and the steps. *)
Decide(c, p) ==
    /\ at[c] = "idle" /\ rec = "OPEN"
    /\ Goes(c, p, content.steps)
    /\ UNCHANGED <<campaign, trial>>

Reject(c) == /\ at[c] = "reject" /\ rec' = "REJECTED" /\ Goes(c, "idle", None)
             /\ UNCHANGED <<campaign, test, arm>>

Conclude(c) == /\ at[c] = "accept" /\ test' = "CONCLUDED" /\ Goes(c, "apply", read[c])
               /\ UNCHANGED <<campaign, rec, arm>>

(* The steps that were read, the winner's text in the one that was tested. *)
WithWinner(c) == [content EXCEPT !.steps = [read[c] EXCEPT ![1] = Winner]]

(* Mutant: a failed write of the copy is taken for done. *)
ApplyFails_Recorded(c) ==
    at[c] = "apply" /\ Goes(c, "record", None) /\ UNCHANGED <<campaign, trial>>

(* updateCampaign refuses, or fails. *)
ApplyFails(c) ==
    at[c] = "apply" /\ Goes(c, "undo", None) /\ UNCHANGED <<campaign, trial>>

Apply(c) ==
    /\ at[c] = "apply" /\ ~Blocked(WithWinner(c))
    /\ IF WithWinner(c) = content THEN UNCHANGED campaign ELSE Update(WithWinner(c))
    /\ Goes(c, "record", None)
    /\ UNCHANGED trial

Undo(c) == /\ at[c] = "undo" /\ test' = "RUNNING" /\ Goes(c, "idle", None)
           /\ UNCHANGED <<campaign, rec, arm>>

Record(c) == /\ at[c] = "record" /\ rec' = "ACCEPTED" /\ Goes(c, "idle", None)
             /\ UNCHANGED <<campaign, test, arm>>

Crash(c) == at[c] # "idle" /\ Goes(c, "idle", None) /\ UNCHANGED <<campaign, trial>>

Next ==
    \/ \E new \in Content : Edit(new)
    \/ \E v \in 1..MaxVersion : Rollback(v)
    \/ \E s \in {"ACTIVE", "PAUSED", "COMPLETE"} : SetStatus(s)
    \/ Queue \/ Approve \/ Evaluate
    \/ \E n \in Enrollment, a \in {"control", "variant"} : Assign(n, a)
    \/ \E c \in Call :
          \/ \E s \in {"RUNNING", "STOPPED"} : SetRead(c, s)
          \/ \E p \in {"accept", "reject"} : Decide(c, p)
          \/ SetWrite(c) \/ Reject(c) \/ Conclude(c) \/ Apply(c) \/ ApplyFails(c)
          \/ Undo(c) \/ Record(c) \/ Crash(c)

Spec == Init /\ [][Next]_vars

-----------------------------------------------------------------------------
(* Whatever the campaign has said can be restored, also what an accepted winner
   has overwritten with the steps it had read before someone else's edit
   (campaignVersions.ts:48, :75). *)
NothingSaidIsLost ==
    \A x \in had : x = content \/ \E v \in 1..MaxVersion : versions[v] = x

(* An accepted recommendation was applied: some version has the winner's text,
   although concluding, writing and recording are separate and two people may
   decide at once (experiments/index.ts:143). *)
AcceptedWasApplied ==
    rec = "ACCEPTED" => \E x \in had : Head(x.steps) = Winner

(* The copy under test does not change while the test goes on
   (campaignVersions.ts:40), whoever edits, restores or accepts meanwhile. *)
TestedCopyKept ==
    [][test = "RUNNING" /\ test' = "RUNNING" => Head(content'.steps) = Head(content.steps)]_vars
=============================================================================
