-------------------------------- MODULE Watch --------------------------------
(***************************************************************************)
(* The worker's loop (worker/index, tick), the readiness that watches its  *)
(* heartbeat (api/ready), and the monitor that polls the readiness from    *)
(* another host and pages (deploy/monitor/external-monitor.sh).  A tick is *)
(* a sequence of steps: a step that throws ends the tick, and the loop     *)
(* starts the next one.  A notice may be refused, or delivered although    *)
(* its answer is lost.                                                     *)
(***************************************************************************)
EXTENDS Naturals

CONSTANTS
    LastStep,       \* steps of a tick
    Beats,          \* the steps that write the heartbeat as they begin, 1 among them
    FailuresToPage, \* checks that fail before a page
    MaxLost         \* answers to notices that may be lost

VARIABLES
    step,     \* the worker's: 1..LastStep, 0 between two ticks, Down
    stopping, \* SIGTERM was received
    faulty,   \* the step whose fault makes it throw now, or 0
    fresh,    \* the heartbeat is younger than 120 s
    up,       \* server and database answer
    failures, \* the monitor's count file
    paged,    \* its paged file exists
    run,      \* its run: "idle", or the notice it sends, "down" or "recovered"
    pager,    \* what the receiver was told last
    lost      \* history: notices delivered whose answer was lost

vars == <<step, stopping, faulty, fresh, up, failures, paged, run, pager, lost>>
loop == <<step, stopping, faulty, fresh, up>>
monitor == <<failures, paged, run, pager, lost>>

Down == LastStep + 1

TypeOK ==
    /\ step \in 0..Down /\ stopping \in BOOLEAN /\ faulty \in 0..LastStep
    /\ fresh \in BOOLEAN /\ up \in BOOLEAN
    /\ failures \in 0..FailuresToPage /\ paged \in BOOLEAN
    /\ run \in {"idle", "down", "recovered"} /\ pager \in {"down", "recovered"}
    /\ lost \in 0..MaxLost

Init ==
    /\ step = 0 /\ stopping = FALSE /\ faulty = 0 /\ fresh = FALSE /\ up = TRUE
    /\ failures = 0 /\ paged = FALSE /\ run = "idle" /\ pager = "recovered" /\ lost = 0

-----------------------------------------------------------------------------
(* The worker. *)

(* A step begins: it is where the loop goes next, and some write the heartbeat. *)
Begin(s) ==
    /\ up /\ step' = s
    /\ fresh' = (fresh \/ s \in Beats)
    /\ UNCHANGED <<stopping, faulty, up>>

Sleep == IF stopping THEN Down ELSE 0

Tick   == step = 0 /\ Begin(1)
NextStep == step \in 1..(LastStep - 1) /\ faulty # step /\ Begin(step + 1)
EndTick == /\ step = LastStep /\ faulty # step /\ up /\ step' = Sleep
           /\ UNCHANGED <<stopping, faulty, fresh, up>>

(* main's catch. *)
Throws ==
    /\ step \in 1..LastStep /\ (faulty = step \/ ~up)
    /\ step' = Sleep /\ UNCHANGED <<stopping, faulty, fresh, up>>

(* The container starts it again, on the host's terms. *)
Kill    == step # Down /\ step' = Down /\ UNCHANGED <<stopping, faulty, fresh, up>>
Start   == step = Down /\ step' = 0 /\ stopping' = FALSE /\ UNCHANGED <<faulty, fresh, up>>
SigTerm == step # Down /\ stopping' = TRUE /\ UNCHANGED <<step, faulty, fresh, up>>

(* 120 s pass with no beat: the process is gone, a step takes that long, or a tick ends
   without one. *)
GrowsOld == fresh' = FALSE /\ UNCHANGED <<step, stopping, faulty, up>>
Breaks   == \E s \in 0..LastStep : faulty' = s /\ UNCHANGED <<step, stopping, fresh, up>>
Outage   == up' = ~up /\ UNCHANGED <<step, stopping, faulty, fresh>>

Ready == up /\ fresh

-----------------------------------------------------------------------------
(* The monitor, one run after another. *)
CheckGood ==
    /\ run = "idle" /\ Ready /\ failures' = 0
    /\ run' = IF paged THEN "recovered" ELSE "idle"
    /\ UNCHANGED <<loop, paged, pager, lost>>

CheckBad ==
    /\ run = "idle" /\ ~Ready
    /\ failures' = IF failures < FailuresToPage THEN failures + 1 ELSE failures
    /\ run' = IF failures' >= FailuresToPage /\ ~paged THEN "down" ELSE "idle"
    /\ UNCHANGED <<loop, paged, pager, lost>>

Marks(delivered) == IF delivered THEN run = "down" ELSE paged

Notified ==
    /\ run # "idle" /\ run' = "idle" /\ pager' = run
    /\ paged' = Marks(TRUE) /\ UNCHANGED <<loop, failures, lost>>

Refused ==
    /\ run # "idle" /\ run' = "idle"
    /\ paged' = Marks(FALSE) /\ UNCHANGED <<loop, failures, pager, lost>>

AnswerLost ==
    /\ run # "idle" /\ run' = "idle" /\ pager' = run
    /\ lost < MaxLost /\ lost' = lost + 1
    /\ paged' = Marks(FALSE) /\ UNCHANGED <<loop, failures>>

Worker == Tick \/ NextStep \/ EndTick \/ Throws
Host   == Kill \/ Start \/ SigTerm \/ GrowsOld \/ Breaks \/ Outage

Next ==
    \/ (Worker \/ Host) /\ UNCHANGED monitor
    \/ CheckGood \/ CheckBad \/ Notified \/ Refused \/ AnswerLost

(* The loop runs while its process does, restart: unless-stopped brings it back, the timer
   runs the monitor, and a receiver asked again and again answers in the end. *)
Fairness ==
    /\ WF_vars(Worker /\ UNCHANGED monitor) /\ WF_vars(Start /\ UNCHANGED monitor)
    /\ WF_vars(CheckGood) /\ WF_vars(CheckBad) /\ WF_vars(Refused) /\ SF_vars(Notified)

Spec == Init /\ [][Next]_vars /\ Fairness

-----------------------------------------------------------------------------
(* An outage that lasts is paged, and one that is over for good is taken back, however often
   the receiver refuses, unless the answer to a notice was lost: the file then tells the
   monitor that the receiver was told the opposite, and a second outage is never paged
   (external-monitor.sh:29). *)
OutagePaged ==
    /\ <>[]~Ready => <>[](pager = "down" \/ lost > 0)
    /\ <>[]Ready => <>[](pager = "recovered" \/ lost > 0)

(* A step that throws costs one tick and not the loop: while the database answers and
   nobody stops or kills the process, the heartbeat is written again and again
   (worker/index.ts:8). *)
LoopSurvives == <>[](up /\ step # Down /\ ~stopping) => []<>(step \in Beats)

(* What a worker that beats would promise, and does not: a step that throws on every tick
   silences the steps behind it, the alerts among them, while the readiness stays good
   (worker.ts:427). *)
ReadyMeansServing == <>[](up /\ step # Down /\ ~stopping) => []<>(step = LastStep)
=============================================================================
