--------------------------- MODULE Retries_proofs ---------------------------
(***************************************************************************)
(* Proofs about what is tried again: verifications, alerts, requests to a  *)
(* model and calls of the gateway, for every number of workers; and about  *)
(* the import of a file of leads, whatever its rows.                       *)
(***************************************************************************)
EXTENDS Services, SetLemmas, FiniteSetTheorems, WellFoundedInduction, TLAPS

AlertRow == [exists : BOOLEAN, attempts : Nat, token : Daemon \cup {None},
             lease : {"free", "held", "over"}, due : BOOLEAN, delivered : BOOLEAN,
             acknowledged : BOOLEAN]

LEMMA AlertClaimed ==
    ASSUME NEW a \in AlertRow, NEW w \in Daemon, NEW b,
           b = [a EXCEPT !.attempts = a.attempts + 1, !.token = w, !.lease = "held"]
    PROVE  /\ b \in AlertRow /\ b.attempts = a.attempts + 1 /\ b.token = w
           /\ b.lease = "held" /\ b.delivered = a.delivered
<1>1. b = [exists |-> a.exists, attempts |-> a.attempts + 1, token |-> w, lease |-> "held",
           due |-> a.due, delivered |-> a.delivered, acknowledged |-> a.acknowledged]
  BY DEF AlertRow
<1>2. /\ a.exists \in BOOLEAN /\ a.due \in BOOLEAN /\ a.delivered \in BOOLEAN
      /\ a.acknowledged \in BOOLEAN /\ a.attempts + 1 \in Nat
  BY SMTT(30) DEF AlertRow
<1>3. QED
  BY <1>1, <1>2 DEF AlertRow

(* Whoever delivers the alert holds its lease, and then nobody who looked before has the
   attempts that he would claim. *)
AlertsInv ==
    /\ alert \in AlertRow
    /\ alertAt \in [Daemon -> {"idle", "claim", "post", "ok", "failed"}]
    /\ alertGot \in [Daemon -> Nat]
    /\ \A w \in Daemon : alertAt[w] \in {"post", "ok", "failed"} =>
          alert.token = w /\ alert.lease = "held" /\ ~alert.delivered
    /\ \A w \in Daemon : alertAt[w] = "claim" =>
          /\ alertGot[w] <= alert.attempts
          /\ alert.lease = "held" \/ alert.delivered => alertGot[w] < alert.attempts

LEMMA AlertsStep == AlertsInv /\ [L!Next]_L!vars => AlertsInv'
<1> SUFFICES ASSUME AlertsInv, [L!Next]_L!vars PROVE AlertsInv'
  OBVIOUS
<1> USE DEF AlertsInv, AlertRow, L!Goes
<1>1. CASE L!Breaks \/ L!Raise \/ L!Activate \/ L!Acknowledge
  BY <1>1 DEF L!Breaks, L!Raise, L!Activate, L!Acknowledge
<1>2. CASE L!LeaseEnds \/ L!BackoffEnds
  <2>1. CASE L!LeaseEnds
    <3>1. \A w \in Daemon : alertAt[w] \notin {"post", "ok", "failed"}
      BY <2>1 DEF L!LeaseEnds
    <3>2. QED
      BY <2>1, <3>1 DEF L!LeaseEnds
  <2>2. CASE L!BackoffEnds
    BY <2>2 DEF L!BackoffEnds
  <2>3. QED
    BY <1>2, <2>1, <2>2
<1>3. ASSUME NEW w \in Daemon, L!Find(w) PROVE AlertsInv'
  BY <1>3 DEF L!Find, L!Free
<1>4. ASSUME NEW w \in Daemon, L!Claim(w) PROVE AlertsInv'
  <2>1. CASE L!Unclaimed(w)
    <3>1. /\ alert.attempts = alertGot[w] /\ alert.lease # "held" /\ alertAt[w] = "claim"
          /\ alert' = [alert EXCEPT !.attempts = alert.attempts + 1, !.token = w, !.lease = "held"]
          /\ alertAt' = [alertAt EXCEPT ![w] = "post"] /\ alertGot' = [alertGot EXCEPT ![w] = 0]
      BY <1>4, <2>1 DEF L!Claim, L!Unclaimed, L!Free
    <3>2. /\ alert' \in AlertRow /\ alert'.attempts = alert.attempts + 1 /\ alert'.token = w
          /\ alert'.lease = "held" /\ alert'.delivered = alert.delivered
      BY <3>1, AlertClaimed
    <3>3. \A v \in Daemon : alertAt[v] \notin {"post", "ok", "failed"}
      BY <3>1
    <3>4. \A v \in Daemon : alertAt'[v] \in {"post", "ok", "failed"} => v = w
      BY <3>1, <3>3
    <3>5. \A v \in Daemon : alertAt'[v] = "claim" => /\ alertAt[v] = "claim" /\ v # w
                                                    /\ alertGot'[v] = alertGot[v]
      BY <3>1
    <3>6. alertAt' \in [Daemon -> {"idle", "claim", "post", "ok", "failed"}]
          /\ alertGot' \in [Daemon -> Nat]
      BY <3>1
    <3>7. ~alert.delivered
      BY <3>1
    <3>8. QED
      <4> HIDE DEF AlertRow
      <4>1. QED
        BY <3>1, <3>2, <3>4, <3>5, <3>6, <3>7
  <2>2. CASE ~L!Unclaimed(w)
    BY <1>4, <2>2 DEF L!Claim
  <2>3. QED
    BY <2>1, <2>2
<1>5. ASSUME NEW w \in Daemon, L!Post(w) PROVE AlertsInv'
  BY <1>5 DEF L!Post
<1>6. ASSUME NEW w \in Daemon, L!Record(w) PROVE AlertsInv'
  BY <1>6 DEF L!Record
<1>7. ASSUME NEW w \in Daemon, L!Crash(w) PROVE AlertsInv'
  BY <1>7 DEF L!Crash
<1>8. CASE UNCHANGED L!vars
  BY <1>8 DEF L!vars
<1>9. QED
  BY <1>1, <1>2, <1>3, <1>4, <1>5, <1>6, <1>7, <1>8 DEF L!Next

LEMMA AlertsQuiet == L!Spec => []L!QuietOnceDelivered
<1>1. L!Init => AlertsInv
  BY DEF L!Init, AlertsInv, AlertRow
<1>2. AlertsInv => L!QuietOnceDelivered
  BY DEF AlertsInv, AlertRow, L!QuietOnceDelivered
<1>3. QED
  BY <1>1, <1>2, AlertsStep, PTL DEF L!Spec
-----------------------------------------------------------------------------
(* What the proof needs of the type of a contact. *)
Shaped(a) ==
    /\ a = [request |-> a.request, pending |-> a.pending, attempts |-> a.attempts,
            lease |-> a.lease, due |-> a.due, fresh |-> a.fresh]
    /\ a.request \in Nat /\ a.attempts \in 0..3 /\ a.pending \in BOOLEAN

(* Every attempt made for the pending request is counted with its contact, and none was
   made for a request that does not exist yet. *)
VerificationInv ==
    /\ Shaped(contact)
    /\ calls \in [R!Request -> Nat]
    /\ verifyAt = [w \in Daemon |-> verifyAt[w]] /\ verifyGot = [w \in Daemon |-> verifyGot[w]]
    /\ contact.pending => contact.request \in R!Request
                          /\ calls[contact.request] <= contact.attempts
    /\ \A r \in R!Request : r > contact.request => calls[r] = 0
    /\ \A w \in Daemon : verifyAt[w] = "claim" =>
          /\ verifyGot[w].request \in R!Request /\ verifyGot[w].request <= contact.request
          /\ verifyGot[w].attempts \in 0..R!MaxAttempts - 1

LEMMA Asked ==
    ASSUME NEW a, Shaped(a), NEW b,
           b = [a EXCEPT !.request = @ + 1, !.pending = TRUE, !.attempts = 0, !.due = TRUE]
    PROVE  Shaped(b) /\ b.request = a.request + 1 /\ b.attempts = 0
<1>1. b = [request |-> a.request + 1, pending |-> TRUE, attempts |-> 0, lease |-> a.lease,
           due |-> TRUE, fresh |-> a.fresh]
  BY DEF Shaped
<1>2. a.request + 1 \in Nat
  BY DEF Shaped
<1>3. /\ b.request = a.request + 1 /\ b.attempts = 0 /\ b.pending = TRUE /\ b.lease = a.lease
      /\ b.due = TRUE /\ b.fresh = a.fresh
  BY <1>1
<1>4. b = [request |-> b.request, pending |-> b.pending, attempts |-> b.attempts,
           lease |-> b.lease, due |-> b.due, fresh |-> b.fresh]
  BY <1>1
<1>5. b.pending \in BOOLEAN
  BY <1>3, Zenon
<1>6. QED
  BY <1>2, <1>3, <1>4, <1>5 DEF Shaped

LEMMA Attempted ==
    ASSUME NEW a, Shaped(a), a.attempts < 3, NEW b,
           b = [a EXCEPT !.attempts = @ + 1, !.lease = "held"]
    PROVE  /\ Shaped(b) /\ b.request = a.request /\ b.pending = a.pending
           /\ b.attempts = a.attempts + 1
<1>1. b = [request |-> a.request, pending |-> a.pending, attempts |-> a.attempts + 1,
           lease |-> "held", due |-> a.due, fresh |-> a.fresh]
  BY DEF Shaped
<1>2. a.request \in Nat /\ a.attempts + 1 \in 0..3 /\ a.pending \in BOOLEAN
  BY DEF Shaped
<1>3. QED
  BY <1>1, <1>2 DEF Shaped

(* What else a step sets of the contact leaves the request and its attempts alone. *)
LEMMA Timed ==
    ASSUME NEW a, Shaped(a), NEW b,
           \/ b = [a EXCEPT !.lease = "over"] \/ b = [a EXCEPT !.due = TRUE]
           \/ b = [a EXCEPT !.fresh = FALSE] \/ b = [a EXCEPT !.lease = "free", !.due = FALSE]
    PROVE  /\ Shaped(b) /\ b.request = a.request /\ b.pending = a.pending
           /\ b.attempts = a.attempts
<1>1. PICK l, d, f : b = [request |-> a.request, pending |-> a.pending,
                          attempts |-> a.attempts, lease |-> l, due |-> d, fresh |-> f]
  <2>2. CASE b = [a EXCEPT !.lease = "over"]
    BY <2>2 DEF Shaped
  <2>3. CASE b = [a EXCEPT !.due = TRUE]
    BY <2>3 DEF Shaped
  <2>4. CASE b = [a EXCEPT !.fresh = FALSE]
    BY <2>4 DEF Shaped
  <2>5. CASE b = [a EXCEPT !.lease = "free", !.due = FALSE]
    BY <2>5 DEF Shaped
  <2>6. QED
    BY <2>2, <2>3, <2>4, <2>5
<1>2. a.request \in Nat /\ a.attempts \in 0..3 /\ a.pending \in BOOLEAN
  BY DEF Shaped
<1>3. QED
  BY <1>1, <1>2 DEF Shaped

LEMMA Settled ==
    ASSUME NEW a, Shaped(a), NEW f, NEW b,
           b = [a EXCEPT !.pending = FALSE, !.attempts = 0, !.lease = "free", !.fresh = f]
    PROVE  Shaped(b) /\ b.request = a.request /\ ~b.pending
<1>1. b = [request |-> a.request, pending |-> FALSE, attempts |-> 0, lease |-> "free",
           due |-> a.due, fresh |-> f]
  BY DEF Shaped
<1>2. a.request \in Nat
  BY DEF Shaped
<1>3. b.request = a.request /\ b.attempts = 0 /\ b.pending = FALSE
  BY <1>1
<1>4. b = [request |-> b.request, pending |-> b.pending, attempts |-> b.attempts,
           lease |-> b.lease, due |-> b.due, fresh |-> b.fresh]
  BY <1>1
<1>5. b.pending \in BOOLEAN
  BY <1>3, Zenon
<1>6. QED
  BY <1>2, <1>3, <1>4, <1>5 DEF Shaped

LEMMA VerificationStep == VerificationInv /\ [R!Next]_R!vars => VerificationInv'
<1> SUFFICES ASSUME VerificationInv, [R!Next]_R!vars PROVE VerificationInv'
  OBVIOUS
<1> USE VerificationAssumption DEF VerificationInv, R!Request, R!MaxAttempts
<1>1. CASE UNCHANGED <<contact, calls, verifyAt, verifyGot>>
  BY <1>1
<1>2. CASE R!Park
  <2>1. CASE contact.pending
    BY <1>1, <1>2, <2>1, Zenon DEF R!Park
  <2>2. CASE ~contact.pending
    <3>1. /\ contact.request < MaxRequest /\ UNCHANGED <<calls, verifyAt, verifyGot>>
          /\ contact' = [contact EXCEPT !.request = @ + 1, !.pending = TRUE, !.attempts = 0,
                                        !.due = TRUE]
      BY <1>2, <2>2, SMTT(30) DEF R!Park
    <3>2. Shaped(contact') /\ contact'.request = contact.request + 1 /\ contact'.attempts = 0
      BY <3>1, Asked
    <3>3. contact.request \in Nat /\ contact'.request \in 1..MaxRequest
      BY <3>1, <3>2 DEF Shaped
    <3>4. calls'[contact'.request] = 0 /\ \A r \in R!Request : r > contact'.request => calls'[r] = 0
      BY <3>1, <3>2, <3>3
    <3>5. \A w \in Daemon : verifyAt'[w] = "claim" =>
             verifyGot'[w].request \in R!Request /\ verifyGot'[w].request <= contact'.request
      BY <3>1, <3>2, <3>3
    <3>6. QED
      BY <3>1, <3>2, <3>3, <3>4, <3>5
  <2>3. QED
    BY <2>1, <2>2
<1>3. CASE R!LeaseEnds \/ R!BackoffEnds \/ R!DaysPass
  <2>1. /\ Shaped(contact') /\ contact'.request = contact.request
        /\ contact'.pending = contact.pending /\ contact'.attempts = contact.attempts
    BY <1>3, Timed DEF R!LeaseEnds, R!BackoffEnds, R!DaysPass
  <2>2. UNCHANGED <<calls, verifyAt, verifyGot>>
    BY <1>3 DEF R!LeaseEnds, R!BackoffEnds, R!DaysPass
  <2>3. QED
    BY <2>1, <2>2, SMTT(30)
<1>4. ASSUME NEW w \in Daemon, R!Find(w) PROVE VerificationInv'
  <2> DEFINE read == [request |-> contact.request, attempts |-> contact.attempts,
                      known |-> answer[contact.request] # None]
  <2>1. /\ verifyGot' = [verifyGot EXCEPT ![w] = read]
        /\ verifyAt' = [verifyAt EXCEPT ![w] = "claim"] /\ UNCHANGED <<contact, calls>>
        /\ contact.pending /\ contact.attempts < 3
    BY <1>4 DEF R!Find
  <2>2. /\ read.request = contact.request /\ contact.request \in R!Request
        /\ read.attempts = contact.attempts /\ contact.attempts \in 0..2
    BY <2>1 DEF Shaped
  <2> HIDE DEF read
  <2>3. \A v \in Daemon : verifyAt'[v] = "claim" =>
           verifyGot'[v] = read \/ (verifyAt[v] = "claim" /\ verifyGot'[v] = verifyGot[v])
    BY <2>1
  <2>4. /\ verifyAt' = [v \in Daemon |-> verifyAt'[v]]
        /\ verifyGot' = [v \in Daemon |-> verifyGot'[v]]
    BY <2>1
  <2>5. QED
    BY <2>1, <2>2, <2>3, <2>4
<1>5. ASSUME NEW w \in Daemon, R!Claim(w) PROVE VerificationInv'
  <2>1. CASE R!Unclaimed(w)
    <3> DEFINE r == verifyGot[w].request
    <3>0. contact.attempts < 3
      <4>1. verifyAt[w] = "claim" /\ contact.attempts = verifyGot[w].attempts
        BY <1>5, <2>1 DEF R!Claim, R!Unclaimed
      <4>2. verifyGot[w].attempts \in 0..2
        BY <4>1
      <4>3. QED
        BY <4>1, <4>2
    <3>1. /\ contact.attempts \in 0..2 /\ r \in 1..MaxRequest /\ r <= contact.request
      BY <1>5, <2>1 DEF R!Claim, R!Unclaimed
    <3>2. /\ contact' = [contact EXCEPT !.attempts = @ + 1, !.lease = "held"]
          /\ calls' = [calls EXCEPT ![r] = @ + 1]
          /\ verifyAt' = [verifyAt EXCEPT ![w] = "call"] /\ UNCHANGED verifyGot
      BY <1>5, <2>1 DEF R!Claim
    <3> HIDE DEF r
    <3>3. /\ Shaped(contact') /\ contact'.request = contact.request
          /\ contact'.attempts = contact.attempts + 1 /\ contact'.pending = contact.pending
      BY <3>1, <3>2, <3>0, Attempted
    <3>4. \A v \in Daemon : verifyAt'[v] = "claim" => verifyAt[v] = "claim"
      BY <3>2
    <3>5. /\ verifyAt' = [v \in Daemon |-> verifyAt'[v]]
          /\ verifyGot' = [v \in Daemon |-> verifyGot'[v]]
      BY <3>2
    <3>6. calls' \in [1..MaxRequest -> Nat]
          /\ \A q \in 1..MaxRequest : calls'[q] = IF q = r THEN calls[q] + 1 ELSE calls[q]
      BY <3>1, <3>2
    <3>7. contact.request \in Nat /\ contact.attempts \in 0..3 /\ contact'.attempts \in 0..3
      BY <3>3 DEF Shaped
    <3>8. contact'.pending => /\ contact'.request \in R!Request
                              /\ calls'[contact'.request] <= contact'.attempts
      <4> SUFFICES ASSUME contact'.pending
                   PROVE  contact'.request \in R!Request
                          /\ calls'[contact'.request] <= contact'.attempts
        OBVIOUS
      <4>1. PICK q \in 1..MaxRequest : q = contact.request /\ calls[q] <= contact.attempts
        BY <3>3
      <4>2. calls[q] \in Nat /\ calls'[q] \in Nat /\ calls'[q] <= calls[q] + 1
        BY <3>6
      <4>3. calls'[q] <= contact.attempts + 1
        BY <3>7, <4>1, <4>2
      <4>4. contact'.request = q
        BY <3>3, <4>1
      <4>5. QED
        BY <3>3, <4>3, <4>4
    <3>9. \A q \in R!Request : q > contact'.request => calls'[q] = 0
      BY <3>1, <3>3, <3>6, <3>7
    <3>10. QED
      BY <3>2, <3>3, <3>4, <3>5, <3>6, <3>8, <3>9
  <2>2. CASE ~R!Unclaimed(w)
    BY <1>5, <2>2 DEF R!Claim, R!Ends
  <2>3. QED
    BY <2>1, <2>2
<1>6. ASSUME NEW w \in Daemon, R!Lost(w) \/ R!Answered(w) PROVE VerificationInv'
  <2>1. /\ UNCHANGED <<contact, calls, verifyGot>>
        /\ \E p \in {"fail", "settle"} : verifyAt' = [verifyAt EXCEPT ![w] = p]
    BY <1>6, Zenon DEF R!Lost, R!Answered
  <2>2. QED
    BY <2>1
<1>7. ASSUME NEW w \in Daemon, R!Settle(w) \/ R!Fail(w) \/ R!Crash(w) PROVE VerificationInv'
  <2>1. /\ Shaped(contact') /\ contact'.request = contact.request
        /\ contact'.pending => (contact.pending /\ contact'.attempts = contact.attempts)
    <3>1. CASE R!Settle(w)
      <4>1. contact' = [contact EXCEPT !.pending = FALSE, !.attempts = 0, !.lease = "free",
                                       !.fresh = answer[verifyGot[w].request].valid]
        BY <3>1 DEF R!Settle
      <4>2. Shaped(contact') /\ contact'.request = contact.request /\ ~contact'.pending
        BY <4>1, Settled
      <4>3. QED
        BY <4>2
    <3>2. CASE R!Fail(w)
      <4>1. contact' = [contact EXCEPT !.lease = "free", !.due = FALSE]
        BY <3>2 DEF R!Fail
      <4>2. QED
        BY <4>1, Timed
    <3>3. CASE R!Crash(w)
      BY <3>3 DEF R!Crash
    <3>4. QED
      BY <1>7, <3>1, <3>2, <3>3
  <2>2. /\ verifyAt' = [verifyAt EXCEPT ![w] = "idle"] /\ UNCHANGED calls
        /\ verifyGot' = [verifyGot EXCEPT ![w] = None]
    BY <1>7 DEF R!Settle, R!Fail, R!Crash, R!Ends
  <2>3. QED
    BY <2>1, <2>2
<1>8. R!Send \/ R!Unpark \/ R!Collect \/ (\E r \in R!Request : R!HourPasses(r)) \/ UNCHANGED R!vars
         => UNCHANGED <<contact, calls, verifyAt, verifyGot>>
  BY Zenon DEF R!Send, R!Unpark, R!Collect, R!HourPasses, R!vars
<1>9. QED
  BY <1>1, <1>2, <1>3, <1>4, <1>5, <1>6, <1>7, <1>8, ZenonT(40) DEF R!Next, R!Works

LEMMA VerificationBounded == R!Spec => []R!ThreeAttempts
<1>1. R!Init => VerificationInv
  BY ActorsAssumption, VerificationAssumption DEF R!Init, VerificationInv, Shaped, R!Request, R!MaxAttempts
<1>2. VerificationInv => R!ThreeAttempts
  BY DEF VerificationInv, Shaped, R!ThreeAttempts, R!Request, R!MaxAttempts
<1>3. QED
  BY <1>1, <1>2, VerificationStep, PTL DEF R!Spec

-----------------------------------------------------------------------------
(* What the receiver accepted was delivered under an attempt of its own. *)
ReceivedInv ==
    /\ alert.attempts <= AlertAttempts
    /\ alertGot \in [Daemon -> 0..AlertAttempts]
    /\ \A w \in Daemon : alertAt[w] = "claim" => alertGot[w] < AlertAttempts
    /\ received \in Nat /\ received <= alert.attempts
    /\ \A w \in Daemon : alertAt[w] = "post" => received < alert.attempts
    /\ campaign \in {"ACTIVE", "PAUSED"}

LEMMA ReceivedStep == AlertsInv /\ ReceivedInv /\ [L!Next]_L!vars => ReceivedInv'
<1> SUFFICES ASSUME AlertsInv, ReceivedInv, [L!Next]_L!vars PROVE ReceivedInv'
  OBVIOUS
<1>0. /\ alert.attempts \in Nat /\ AlertAttempts \in Nat
      /\ alertAt \in [Daemon -> {"idle", "claim", "post", "ok", "failed"}]
      /\ \A v, w \in Daemon : alertAt[v] = "post" /\ alertAt[w] = "post" => v = w
  BY AlertsAssumption DEF AlertsInv, AlertRow
<1> USE DEF ReceivedInv, L!Goes
<1>1. ASSUME UNCHANGED <<alertAt, alertGot, received>>, alert'.attempts = alert.attempts,
             campaign' \in {"ACTIVE", "PAUSED"}
      PROVE  ReceivedInv'
  BY <1>1
<1>2. CASE L!Breaks \/ L!Raise \/ L!Activate \/ L!Acknowledge \/ L!LeaseEnds \/ L!BackoffEnds
           \/ UNCHANGED L!vars
  <2>1. alert'.attempts = alert.attempts
    BY <1>2 DEF AlertsInv, AlertRow, L!Breaks, L!Raise, L!Activate, L!Acknowledge,
                L!LeaseEnds, L!BackoffEnds, L!vars
  <2>2. UNCHANGED <<alertAt, alertGot, received>> /\ campaign' \in {"ACTIVE", "PAUSED"}
    BY <1>2 DEF L!Breaks, L!Raise, L!RuleApplies, L!Activate, L!Acknowledge, L!LeaseEnds,
                L!BackoffEnds, L!vars
  <2>3. QED
    BY <1>1, <2>1, <2>2
<1>3. ASSUME NEW w \in Daemon, L!Find(w) PROVE ReceivedInv'
  BY <1>0, <1>3 DEF L!Find
<1>4. ASSUME NEW w \in Daemon, L!Claim(w) PROVE ReceivedInv'
  <2>1. CASE L!Unclaimed(w)
    <3>1. /\ alert.attempts = alertGot[w] /\ alertAt[w] = "claim"
          /\ alert' = [alert EXCEPT !.attempts = alert.attempts + 1, !.token = w, !.lease = "held"]
          /\ alertAt' = [alertAt EXCEPT ![w] = "post"] /\ alertGot' = [alertGot EXCEPT ![w] = 0]
          /\ UNCHANGED <<received, campaign>>
      BY <1>4, <2>1 DEF L!Claim, L!Unclaimed
    <3>2. alert'.attempts = alert.attempts + 1
      BY <3>1 DEF AlertsInv, AlertRow
    <3>3. QED
      BY <1>0, <3>1, <3>2
  <2>2. CASE ~L!Unclaimed(w)
    BY <1>0, <1>4, <2>2 DEF L!Claim
  <2>3. QED
    BY <2>1, <2>2
<1>5. ASSUME NEW w \in Daemon, L!Post(w) PROVE ReceivedInv'
  BY <1>0, <1>5 DEF L!Post
<1>6. ASSUME NEW w \in Daemon, L!Record(w) PROVE ReceivedInv'
  <2>1. alert'.attempts = alert.attempts
    BY <1>6 DEF AlertsInv, AlertRow, L!Record
  <2>2. QED
    BY <1>0, <1>6, <2>1 DEF L!Record
<1>7. ASSUME NEW w \in Daemon, L!Crash(w) PROVE ReceivedInv'
  BY <1>0, <1>7 DEF L!Crash
<1>8. QED
  BY <1>2, <1>3, <1>4, <1>5, <1>6, <1>7 DEF L!Next

LEMMA AlertsAreTyped == L!Spec => []L!TypeOK
<1> DEFINE Lasts == problem \in BOOLEAN
<1>1. L!Init => AlertsInv /\ ReceivedInv /\ Lasts
  <2> SUFFICES ASSUME L!Init PROVE AlertsInv /\ ReceivedInv /\ Lasts
    OBVIOUS
  <2>1. AlertsInv
    BY DEF L!Init, AlertsInv, AlertRow
  <2>2. ReceivedInv
    BY AlertsAssumption DEF L!Init, ReceivedInv
  <2>3. Lasts
    BY Zenon DEF L!Init
  <2>4. QED
    BY <2>1, <2>2, <2>3
<1>2. Lasts /\ [L!Next]_L!vars => Lasts'
  <2> SUFFICES ASSUME Lasts, [L!Next]_L!vars PROVE Lasts'
    OBVIOUS
  <2>1. problem' = problem \/ problem' = ~problem
    BY Zenon DEF L!Next, L!vars, L!Breaks, L!Raise, L!Activate, L!Acknowledge, L!Find, L!Claim,
                 L!Post, L!Record, L!Crash, L!LeaseEnds, L!BackoffEnds
  <2>2. QED
    BY <2>1, Zenon
<1>3. AlertsInv /\ ReceivedInv /\ Lasts => L!TypeOK
  <2> SUFFICES ASSUME AlertsInv, ReceivedInv, Lasts PROVE L!TypeOK
    OBVIOUS
  <2>1. /\ alert \in AlertRow /\ alert.attempts \in 0..AlertAttempts
        /\ received \in 0..AlertAttempts
    BY AlertsAssumption DEF AlertsInv, ReceivedInv, AlertRow
  <2>2. alert \in [exists : BOOLEAN, attempts : 0..AlertAttempts, token : Daemon \cup {None},
                   lease : {"free", "held", "over"}, due : BOOLEAN, delivered : BOOLEAN,
                   acknowledged : BOOLEAN]
    BY <2>1 DEF AlertRow
  <2>3. QED
    BY <2>1, <2>2, Zenon DEF AlertsInv, ReceivedInv, L!TypeOK
<1>4. QED
  BY <1>1, <1>2, <1>3, AlertsStep, ReceivedStep, PTL DEF L!Spec
-----------------------------------------------------------------------------
ContactRow == [request : 0..MaxRequest, pending : BOOLEAN, attempts : 0..3,
               lease : {"free", "held", "over"}, due : BOOLEAN, fresh : BOOLEAN]
Evidence == [valid : BOOLEAN, old : BOOLEAN]
Look == [request : R!Request, attempts : 0..3, known : BOOLEAN]

(* Whoever settles a request has its evidence. *)
WorkersTyped ==
    /\ verifyAt \in [Daemon -> {"idle", "claim", "call", "settle", "fail"}]
    /\ \A w \in Daemon :
          /\ verifyAt[w] = "idle" => verifyGot[w] = None
          /\ verifyAt[w] # "idle" => verifyGot[w] \in Look
          /\ verifyAt[w] = "settle" => answer[verifyGot[w].request] \in Evidence

VerifyTyped ==
    /\ contact \in ContactRow /\ row \in {"due", "parked", "sent", "canceled"}
    /\ answer \in [R!Request -> Evidence \cup {None}]
    /\ alerted \subseteq R!Request /\ heard \subseteq R!Request /\ crashes \in 0..MaxCrash
    /\ WorkersTyped

(* A worker goes on, with what it read. *)
WorkerAt(w, point, look) ==
    /\ verifyAt' = [verifyAt EXCEPT ![w] = point]
    /\ verifyGot' = [verifyGot EXCEPT ![w] = look]
    /\ \/ point = "idle" /\ look = None
       \/ point \in {"claim", "call", "fail"} /\ look \in Look
       \/ point = "settle" /\ look \in Look /\ answer'[look.request] \in Evidence
    /\ \A r \in R!Request : answer[r] \in Evidence => answer'[r] \in Evidence

LEMMA WorkerGoes ==
    ASSUME VerificationInv, VerifyTyped, NEW w \in Daemon, NEW point, NEW look,
           WorkerAt(w, point, look)
    PROVE  WorkersTyped'
<1>1. \A v \in Daemon : IF v = w THEN verifyAt'[v] = point /\ verifyGot'[v] = look
                         ELSE verifyAt'[v] = verifyAt[v] /\ verifyGot'[v] = verifyGot[v]
  BY DEF VerificationInv, VerifyTyped, WorkersTyped, WorkerAt
<1>2. \A v \in Daemon : verifyAt[v] = "settle" => verifyGot[v].request \in R!Request
  BY DEF VerifyTyped, WorkersTyped, Look
<1>3. \A v \in Daemon :
          /\ verifyAt'[v] = "idle" => verifyGot'[v] = None
          /\ verifyAt'[v] # "idle" => verifyGot'[v] \in Look
          /\ verifyAt'[v] = "settle" => answer'[verifyGot'[v].request] \in Evidence
  BY <1>1, <1>2 DEF VerifyTyped, WorkersTyped, WorkerAt
<1>4. verifyAt' \in [Daemon -> {"idle", "claim", "call", "settle", "fail"}]
  BY DEF VerifyTyped, WorkersTyped, WorkerAt
<1>5. QED
  BY <1>3, <1>4 DEF WorkersTyped

(* What the steps set of a contact. *)
LEMMA ContactSet ==
    ASSUME NEW a \in ContactRow, NEW b, NEW f \in BOOLEAN,
           \/ b = a
           \/ a.request < MaxRequest
              /\ b = [a EXCEPT !.request = @ + 1, !.pending = TRUE, !.attempts = 0, !.due = TRUE]
           \/ a.attempts < 3 /\ b = [a EXCEPT !.attempts = @ + 1, !.lease = "held"]
           \/ b = [a EXCEPT !.pending = FALSE, !.attempts = 0, !.lease = "free", !.fresh = f]
           \/ b = [a EXCEPT !.lease = "over"] \/ b = [a EXCEPT !.due = TRUE]
           \/ b = [a EXCEPT !.fresh = FALSE] \/ b = [a EXCEPT !.lease = "free", !.due = FALSE]
    PROVE  b \in ContactRow
<1> USE VerificationAssumption
<1>1. /\ a.request \in 0..MaxRequest /\ a.attempts \in 0..3 /\ a.lease \in {"free", "held", "over"}
      /\ a.pending \in BOOLEAN /\ a.due \in BOOLEAN /\ a.fresh \in BOOLEAN
      /\ a = [request |-> a.request, pending |-> a.pending, attempts |-> a.attempts,
               lease |-> a.lease, due |-> a.due, fresh |-> a.fresh]
  BY DEF ContactRow
<1>2. PICK r, p, n, l, d, e :
        /\ b = [request |-> r, pending |-> p, attempts |-> n, lease |-> l, due |-> d, fresh |-> e]
        /\ r = a.request \/ (a.request < MaxRequest /\ r = a.request + 1)
        /\ n \in {0, a.attempts} \/ (a.attempts < 3 /\ n = a.attempts + 1)
        /\ l \in {a.lease, "held", "free", "over"}
        /\ p = a.pending \/ p = TRUE \/ p = FALSE
        /\ d = a.due \/ d = TRUE \/ d = FALSE
        /\ e = a.fresh \/ e = f \/ e = FALSE
  <2>1. CASE b = a
    <3>1. b = [request |-> a.request, pending |-> a.pending, attempts |-> a.attempts,
               lease |-> a.lease, due |-> a.due, fresh |-> a.fresh]
      BY <1>1, <2>1
    <3>2. QED
      BY <3>1, Zenon
  <2>2. CASE a.request < MaxRequest
             /\ b = [a EXCEPT !.request = @ + 1, !.pending = TRUE, !.attempts = 0, !.due = TRUE]
    <3>1. b = [request |-> a.request + 1, pending |-> TRUE, attempts |-> 0,
               lease |-> a.lease, due |-> TRUE, fresh |-> a.fresh]
      BY <1>1, <2>2
    <3>2. QED
      BY <2>2, <3>1, ZenonT(40)
  <2>3. CASE a.attempts < 3 /\ b = [a EXCEPT !.attempts = @ + 1, !.lease = "held"]
    <3>1. b = [request |-> a.request, pending |-> a.pending, attempts |-> a.attempts + 1,
               lease |-> "held", due |-> a.due, fresh |-> a.fresh]
      BY <1>1, <2>3
    <3>2. QED
      BY <2>3, <3>1, Zenon
  <2>4. CASE b = [a EXCEPT !.pending = FALSE, !.attempts = 0, !.lease = "free", !.fresh = f]
    <3>1. b = [request |-> a.request, pending |-> FALSE, attempts |-> 0,
               lease |-> "free", due |-> a.due, fresh |-> f]
      BY <1>1, <2>4
    <3>2. QED
      BY <3>1, ZenonT(40)
  <2>5. CASE b = [a EXCEPT !.lease = "over"]
    <3>1. b = [request |-> a.request, pending |-> a.pending, attempts |-> a.attempts,
               lease |-> "over", due |-> a.due, fresh |-> a.fresh]
      BY <1>1, <2>5
    <3>2. QED
      BY <3>1, Zenon
  <2>6. CASE b = [a EXCEPT !.due = TRUE]
    <3>1. b = [request |-> a.request, pending |-> a.pending, attempts |-> a.attempts,
               lease |-> a.lease, due |-> TRUE, fresh |-> a.fresh]
      BY <1>1, <2>6
    <3>2. QED
      BY <3>1, Zenon
  <2>7. CASE b = [a EXCEPT !.fresh = FALSE]
    <3>1. b = [request |-> a.request, pending |-> a.pending, attempts |-> a.attempts,
               lease |-> a.lease, due |-> a.due, fresh |-> FALSE]
      BY <1>1, <2>7
    <3>2. QED
      BY <3>1, ZenonT(40)
  <2>8. CASE b = [a EXCEPT !.lease = "free", !.due = FALSE]
    <3>1. b = [request |-> a.request, pending |-> a.pending, attempts |-> a.attempts,
               lease |-> "free", due |-> FALSE, fresh |-> a.fresh]
      BY <1>1, <2>8
    <3>2. QED
      BY <3>1, Zenon
  <2>9. QED
    BY <2>1, <2>2, <2>3, <2>4, <2>5, <2>6, <2>7, <2>8
<1>3. r \in 0..MaxRequest /\ n \in 0..3 /\ l \in {"free", "held", "over"}
  BY <1>1, <1>2
<1>4. p \in BOOLEAN /\ d \in BOOLEAN /\ e \in BOOLEAN
  BY <1>1, <1>2, Zenon
<1>5. QED
  BY <1>2, <1>3, <1>4 DEF ContactRow

LEMMA VerifyTypedStep == VerificationInv /\ VerifyTyped /\ [R!Next]_R!vars => VerifyTyped'
<1> SUFFICES ASSUME VerificationInv, VerifyTyped, [R!Next]_R!vars PROVE VerifyTyped'
  OBVIOUS
<1> USE VerificationAssumption
<1>1. CASE R!Park
  <2>1. contact' \in ContactRow
    <3>1. \/ UNCHANGED contact
          \/ contact.request < MaxRequest /\ contact' = [contact EXCEPT !.request = @ + 1, !.pending = TRUE, !.attempts = 0, !.due = TRUE]
      BY <1>1, Zenon DEF R!Park
    <3>2. QED
      BY <3>1, ContactSet, ZenonT(40) DEF VerifyTyped
  <2>2. QED
    BY <1>1, <2>1, SMTT(30) DEF R!Park, VerifyTyped, WorkersTyped
<1>2. CASE R!LeaseEnds \/ R!BackoffEnds \/ R!DaysPass
  <2>1. contact' \in ContactRow
    BY <1>2, ContactSet, ZenonT(40) DEF R!LeaseEnds, R!BackoffEnds, R!DaysPass, VerifyTyped
  <2>2. QED
    BY <1>2, <2>1, SMTT(30) DEF R!LeaseEnds, R!BackoffEnds, R!DaysPass, VerifyTyped, WorkersTyped
<1>3. CASE R!Send \/ R!Unpark \/ UNCHANGED R!vars
  BY <1>3 DEF R!Send, R!Unpark, R!vars, VerifyTyped, WorkersTyped
<1>4. CASE R!Collect
  BY <1>4 DEF R!Collect, VerifyTyped, WorkersTyped, VerificationInv
<1>5. ASSUME NEW r \in R!Request, R!HourPasses(r) PROVE VerifyTyped'
  <2>1. /\ answer[r] \in Evidence /\ answer' = [answer EXCEPT ![r].old = TRUE]
        /\ UNCHANGED <<contact, row, alerted, verifyAt, verifyGot, calls, heard, crashes>>
    BY <1>5 DEF R!HourPasses, VerifyTyped
  <2>2. PICK e : e = [answer[r] EXCEPT !.old = TRUE]
    OBVIOUS
  <2>3. e \in Evidence /\ answer' = [answer EXCEPT ![r] = e]
    BY <2>1, <2>2 DEF Evidence, VerifyTyped
  <2>4. /\ answer' \in [R!Request -> Evidence \cup {None}]
        /\ \A q \in R!Request : answer[q] \in Evidence => answer'[q] \in Evidence
    BY <2>3 DEF VerifyTyped
  <2>5. \A w \in Daemon : verifyAt[w] = "settle" => verifyGot[w].request \in R!Request
    BY DEF VerifyTyped, WorkersTyped, Look
  <2>6. QED
    BY <2>1, <2>4, <2>5 DEF VerifyTyped, WorkersTyped
<1>6. ASSUME NEW w \in Daemon, R!Find(w) PROVE VerifyTyped'
  <2>1. PICK k : k = (answer[contact.request] # None)
    OBVIOUS
  <2>2. k \in BOOLEAN
    BY <2>1, Zenon
  <2>3. PICK look : look = [request |-> contact.request, attempts |-> contact.attempts, known |-> k]
    OBVIOUS
  <2>4. /\ verifyGot' = [verifyGot EXCEPT ![w] = look] /\ contact.pending
        /\ verifyAt' = [verifyAt EXCEPT ![w] = "claim"]
        /\ UNCHANGED <<contact, row, answer, alerted, calls, heard, crashes>>
    BY <1>6, <2>1, <2>3 DEF R!Find
  <2>5. look \in Look
    <3>1. contact.request \in R!Request /\ contact.attempts \in 0..3
      BY <2>4 DEF VerificationInv, Shaped
    <3>2. QED
      BY <2>2, <2>3, <3>1 DEF Look
  <2>6. WorkerAt(w, "claim", look)
    BY <2>4, <2>5 DEF WorkerAt
  <2>7. QED
    BY <2>4, <2>6, WorkerGoes DEF VerifyTyped
<1>7. ASSUME NEW w \in Daemon, R!Claim(w) PROVE VerifyTyped'
  <2>1. CASE R!Unclaimed(w)
    <3>1. /\ contact' = [contact EXCEPT !.attempts = @ + 1, !.lease = "held"]
          /\ verifyAt' = [verifyAt EXCEPT ![w] = "call"] /\ UNCHANGED verifyGot
          /\ UNCHANGED <<row, answer, alerted, heard, crashes>>
          /\ verifyAt[w] = "claim" /\ contact.attempts = verifyGot[w].attempts
      BY <1>7, <2>1 DEF R!Claim, R!Unclaimed
    <3>2. contact.attempts \in 0..2
      BY <3>1, SMTT(30) DEF VerificationInv, R!MaxAttempts
    <3>3. contact' \in ContactRow
      <4>1. contact \in ContactRow /\ contact.attempts < 3 /\ FALSE \in BOOLEAN
        BY <3>2 DEF VerifyTyped
      <4>2. QED
        BY ONLY <3>1, <4>1, ContactSet, ZenonT(40)
    <3>4. verifyGot' = [verifyGot EXCEPT ![w] = verifyGot[w]] /\ verifyGot[w] \in Look
      BY <3>1 DEF VerificationInv, VerifyTyped, WorkersTyped
    <3>5. WorkerAt(w, "call", verifyGot[w])
      BY <3>1, <3>4 DEF WorkerAt
    <3>6. WorkersTyped'
      BY <3>5, WorkerGoes
    <3>7. QED
      BY <3>1, <3>3, <3>6 DEF VerifyTyped
  <2>2. CASE ~R!Unclaimed(w)
    <3>1. /\ verifyAt' = [verifyAt EXCEPT ![w] = "idle"] /\ verifyGot' = [verifyGot EXCEPT ![w] = None]
          /\ UNCHANGED <<contact, row, answer, alerted, heard, crashes>>
      BY <1>7, <2>2 DEF R!Claim, R!Ends
    <3>2. WorkerAt(w, "idle", None)
      BY <3>1 DEF WorkerAt
    <3>3. QED
      BY <3>1, <3>2, WorkerGoes DEF VerifyTyped
  <2>3. QED
    BY <2>1, <2>2
<1>8. ASSUME NEW w \in Daemon, R!Lost(w) \/ R!Answered(w) PROVE VerifyTyped'
  <2>1. PICK r : r = verifyGot[w].request
    OBVIOUS
  <2>2. verifyAt[w] = "call" /\ verifyGot[w] \in Look /\ r \in R!Request
    BY <1>8, <2>1 DEF R!Lost, R!Answered, VerifyTyped, WorkersTyped, Look
  <2>3. PICK point \in {"fail", "settle"} : verifyAt' = [verifyAt EXCEPT ![w] = point]
    BY <1>8, Zenon DEF R!Lost, R!Answered
  <2>4. /\ UNCHANGED <<contact, row, alerted, verifyGot, crashes>>
        /\ heard' \in {heard, heard \cup {r}}
    BY <1>8, <2>1 DEF R!Lost, R!Answered
  <2>5. \/ UNCHANGED answer
        \/ \E v \in BOOLEAN : answer' = [answer EXCEPT ![r] = [valid |-> v, old |-> FALSE]]
    BY <1>8, <2>1, Zenon DEF R!Lost, R!Answered
  <2>6. /\ answer' \in [R!Request -> Evidence \cup {None}]
        /\ \A q \in R!Request : answer[q] \in Evidence => answer'[q] \in Evidence
    <3>1. ASSUME NEW v \in BOOLEAN, answer' = [answer EXCEPT ![r] = [valid |-> v, old |-> FALSE]]
          PROVE  /\ answer' \in [R!Request -> Evidence \cup {None}]
                 /\ \A q \in R!Request : answer[q] \in Evidence => answer'[q] \in Evidence
      <4>1. PICK e : e = [valid |-> v, old |-> FALSE]
        OBVIOUS
      <4>2. e \in Evidence
        BY <4>1 DEF Evidence
      <4>3. answer' = [answer EXCEPT ![r] = e]
        BY <3>1, <4>1
      <4>4. QED
        BY <2>2, <4>2, <4>3 DEF VerifyTyped
    <3>2. QED
      BY <2>5, <3>1 DEF VerifyTyped
  <2>7. point = "settle" => answer'[r] \in Evidence
    <3>1. CASE R!Lost(w)
      <4>1. verifyAt' = [verifyAt EXCEPT ![w] = "fail"]
        BY <3>1 DEF R!Lost
      <4>2. point = "fail"
        BY <2>3, <4>1 DEF VerifyTyped, WorkersTyped
      <4>3. QED
        BY <4>2
    <3>2. CASE R!Answered(w)
      <4>1. \/ answer[r] # None /\ UNCHANGED answer
            \/ \E v \in BOOLEAN : answer' = [answer EXCEPT ![r] = [valid |-> v, old |-> FALSE]]
        BY <2>1, <3>2, Zenon DEF R!Answered
      <4>2. CASE answer[r] # None /\ UNCHANGED answer
        BY <2>2, <4>2 DEF VerifyTyped
      <4>3. ASSUME NEW v \in BOOLEAN, answer' = [answer EXCEPT ![r] = [valid |-> v, old |-> FALSE]]
            PROVE  answer'[r] \in Evidence
        BY <2>2, <4>3 DEF VerifyTyped, Evidence
      <4>4. QED
        BY <4>1, <4>2, <4>3
    <3>3. QED
      BY <1>8, <3>1, <3>2
  <2>8. verifyGot' = [verifyGot EXCEPT ![w] = verifyGot[w]]
    BY <2>4 DEF VerificationInv
  <2>9. WorkerAt(w, point, verifyGot[w])
    BY <2>1, <2>2, <2>3, <2>6, <2>7, <2>8 DEF WorkerAt
  <2>10. WorkersTyped'
    BY <2>9, WorkerGoes
  <2>11. QED
    BY <2>2, <2>4, <2>6, <2>10 DEF VerifyTyped
<1>9. ASSUME NEW w \in Daemon, R!Settle(w) \/ R!Fail(w) \/ R!Crash(w) PROVE VerifyTyped'
  <2>1. /\ verifyAt' = [verifyAt EXCEPT ![w] = "idle"] /\ verifyGot' = [verifyGot EXCEPT ![w] = None]
        /\ UNCHANGED <<answer, alerted, heard>> /\ row' \in {row, "canceled", "due"}
        /\ crashes' \in 0..MaxCrash
    BY <1>9 DEF R!Settle, R!Fail, R!Crash, R!Ends, VerifyTyped
  <2>2. contact' \in ContactRow
    <3>1. CASE R!Settle(w)
      <4>1. PICK f : f = answer[verifyGot[w].request].valid
        OBVIOUS
      <4>2. f \in BOOLEAN
        <5>1. answer[verifyGot[w].request] \in Evidence
          BY <3>1 DEF R!Settle, VerifyTyped, WorkersTyped
        <5>2. QED
          BY <4>1, <5>1 DEF Evidence
      <4>3. contact' = [contact EXCEPT !.pending = FALSE, !.attempts = 0, !.lease = "free", !.fresh = f]
        BY <3>1, <4>1, SMTT(30) DEF R!Settle
      <4>4. QED
        BY <4>2, <4>3, ContactSet, ZenonT(40) DEF VerifyTyped
    <3>2. CASE R!Fail(w)
      BY <3>2, ContactSet, ZenonT(40) DEF R!Fail, VerifyTyped
    <3>3. CASE R!Crash(w)
      BY <3>3 DEF R!Crash, VerifyTyped
    <3>4. QED
      BY <1>9, <3>1, <3>2, <3>3, SMTT(30)
  <2>3. WorkerAt(w, "idle", None)
    BY <2>1 DEF WorkerAt
  <2>4. QED
    BY <2>1, <2>2, <2>3, WorkerGoes DEF VerifyTyped
<1>10. QED
  BY <1>1, <1>2, <1>3, <1>4, <1>5, <1>6, <1>7, <1>8, <1>9, ZenonT(40) DEF R!Next, R!Works

LEMMA VerificationIsTyped == R!Spec => []R!TypeOK
<1>1. R!Init => VerificationInv /\ VerifyTyped
  <2>1. R!Init => VerificationInv
    BY VerificationAssumption DEF R!Init, VerificationInv, Shaped, R!Request, R!MaxAttempts
  <2>2. R!Init => VerifyTyped
    BY VerificationAssumption DEF R!Init, VerifyTyped, WorkersTyped, ContactRow
  <2>3. QED
    BY <2>1, <2>2
<1>2. VerificationInv /\ VerifyTyped => R!TypeOK
  <2> SUFFICES ASSUME VerificationInv, VerifyTyped PROVE R!TypeOK
    OBVIOUS
  <2>1. calls \in [R!Request -> Nat]
    BY DEF VerificationInv
  <2>2. \A r \in R!Request : answer[r] = None \/ answer[r] \in Evidence
    BY DEF VerifyTyped
  <2>3. \A w \in Daemon : verifyGot[w] = None \/ verifyGot[w] \in Look
    BY DEF VerifyTyped, WorkersTyped
  <2>4. QED
    BY <2>1, <2>2, <2>3, Zenon DEF VerifyTyped, WorkersTyped, R!TypeOK, R!MaxAttempts, ContactRow, Evidence, Look
<1>3. QED
  BY <1>1, <1>2, VerificationStep, VerifyTypedStep, PTL DEF R!Spec
-----------------------------------------------------------------------------
AllKeys == DiscoverKey \cup VerifyKey

(* j has the fields of a job, and asks or asked for somebody. *)
JobShape(j) ==
    /\ j = [hash |-> j.hash, at |-> j.at, page |-> j.page, size |-> j.size, pages |-> j.pages,
            todo |-> j.todo, who |-> j.who, enriched |-> j.enriched, found |-> j.found]
    /\ j.hash \in Hash /\ j.todo \subseteq G!Person /\ j.found \subseteq G!Person
    /\ j.at \in {"search", "enrich", "verify", "check"}
    /\ j.page \in Nat /\ j.size \in Nat /\ j.pages \in 0..MaxPages
    /\ j.enriched \in 0..Budget /\ j.who \in G!Person \cup {None}
    /\ j.at \in {"enrich", "verify"} => j.who \in G!Person

(* It asks within its budget. *)
Affords(j) == j.at = "enrich" => j.enriched < Budget

(* A key in flight has no result, and whoever was told was told the result. *)
AnswersInv ==
    /\ result = [k \in AllKeys |-> result[k]] /\ job = [k \in AllKeys |-> job[k]]
    /\ told = [k \in AllKeys |-> told[k]]
    /\ \A k \in AllKeys :
          /\ job[k] # None => JobShape(job[k]) /\ Affords(job[k]) /\ result[k] = None
          /\ result[k] # None => result[k].hash \in Hash /\ result[k].value \subseteq G!Person
          /\ result[k] = None => told[k] = {}
          /\ result[k] # None => told[k] \subseteq {result[k].value}

LEMMA PageSizes == ASSUME NEW n \in 0..Budget PROVE G!PageSize(n) \in Nat
<1>1. PICK x, y : x = MinPage /\ y = (Budget - n) * 2
  OBVIOUS
<1>2. x \in Nat /\ y \in Nat
  BY <1>1, GatewayAssumption
<1>3. \E z \in {x, y} : \A v \in {x, y} : z >= v
  BY <1>2, x <= y \/ y <= x
<1>4. G!Max({x, y}) \in {x, y}
  BY <1>3, Zenon DEF G!Max
<1>5. QED
  BY <1>1, <1>2, <1>4 DEF G!PageSize

LEMMA JobSearches ==
    ASSUME NEW j, JobShape(j), j.pages < MaxPages, NEW page \in Nat
    PROVE  /\ JobShape(G!Search(j, page)) /\ G!Search(j, page).at = "search"
<1>1. PICK n, z, v : n = j.pages + 1 /\ z = G!PageSize(j.enriched) /\ v = G!Search(j, page)
  OBVIOUS
<1>2. v = [j EXCEPT !.at = "search", !.page = page, !.size = z, !.pages = n, !.who = None,
                    !.todo = {}]
  BY <1>1 DEF G!Search
<1>3. v = [hash |-> j.hash, at |-> "search", page |-> page, size |-> z, pages |-> n,
           todo |-> {}, who |-> None, enriched |-> j.enriched, found |-> j.found]
  BY <1>2 DEF JobShape
<1>4. /\ j.hash \in Hash /\ j.found \subseteq G!Person /\ j.enriched \in 0..Budget
      /\ n \in 0..MaxPages /\ z \in Nat
  BY <1>1, PageSizes, GatewayAssumption DEF JobShape
<1>5. JobShape(v) /\ v.at = "search"
  BY <1>3, <1>4 DEF JobShape
<1>6. QED
  BY <1>1, <1>5

(* The job asks for p, with the others of its page before it. *)
Asking(j, p, others) == [j EXCEPT !.at = "enrich", !.who = p, !.todo = others]

LEMMA JobEnriches ==
    ASSUME NEW j, JobShape(j), j.enriched < Budget, NEW p \in G!Person,
           NEW others \in SUBSET G!Person
    PROVE  LET v == Asking(j, p, others)
           IN JobShape(v) /\ Affords(v) /\ v.at = "enrich" /\ v.who = p
<1>1. PICK v : v = Asking(j, p, others)
  OBVIOUS
<1>2. v = [hash |-> j.hash, at |-> "enrich", page |-> j.page, size |-> j.size,
           pages |-> j.pages, todo |-> others, who |-> p, enriched |-> j.enriched,
           found |-> j.found]
  BY <1>1 DEF JobShape, Asking
<1>3. /\ j.hash \in Hash /\ j.found \subseteq G!Person /\ j.page \in Nat /\ j.size \in Nat
      /\ j.pages \in 0..MaxPages /\ j.enriched \in 0..Budget
  BY DEF JobShape
<1>4. JobShape(v) /\ Affords(v) /\ v.at = "enrich" /\ v.who = p
  BY <1>2, <1>3 DEF JobShape, Affords
<1>5. QED
  BY <1>1, <1>4

(* What a step does to the job before it goes on. *)
LEMMA JobPrepared ==
    ASSUME NEW j, JobShape(j)
    PROVE  /\ \A t \in SUBSET G!Person : JobShape([j EXCEPT !.todo = t])
           /\ \A t : [j EXCEPT !.todo = t].found = j.found /\ [j EXCEPT !.todo = t].hash = j.hash
           /\ Affords(j) /\ j.at = "enrich" =>
              LET e == [j EXCEPT !.enriched = @ + 1]
              IN /\ JobShape(e) /\ e.who = j.who /\ e.found = j.found /\ e.at = j.at
                 /\ JobShape([e EXCEPT !.at = "verify"])
                 /\ [e EXCEPT !.at = "verify"].at = "verify"
           /\ j.at = "verify" => JobShape([j EXCEPT !.found = @ \cup {j.who}])
<1>1. ASSUME NEW t \in SUBSET G!Person PROVE JobShape([j EXCEPT !.todo = t])
  <2>1. PICK v : v = [j EXCEPT !.todo = t]
    OBVIOUS
  <2>2. v = [hash |-> j.hash, at |-> j.at, page |-> j.page, size |-> j.size,
             pages |-> j.pages, todo |-> t, who |-> j.who, enriched |-> j.enriched,
             found |-> j.found]
    BY <2>1 DEF JobShape
  <2>3. QED
    BY <2>1, <2>2 DEF JobShape
<1>2. ASSUME NEW t
      PROVE  [j EXCEPT !.todo = t].found = j.found /\ [j EXCEPT !.todo = t].hash = j.hash
  BY DEF JobShape
<1>3. ASSUME Affords(j), j.at = "enrich", NEW e, e = [j EXCEPT !.enriched = @ + 1]
      PROVE  /\ JobShape(e) /\ e.who = j.who /\ e.found = j.found /\ e.at = j.at
             /\ JobShape([e EXCEPT !.at = "verify"])
             /\ [e EXCEPT !.at = "verify"].at = "verify"
  <2>1. PICK n : n = j.enriched + 1
    OBVIOUS
  <2>2. e = [hash |-> j.hash, at |-> j.at, page |-> j.page, size |-> j.size,
             pages |-> j.pages, todo |-> j.todo, who |-> j.who, enriched |-> n,
             found |-> j.found]
    BY <1>3, <2>1 DEF JobShape
  <2>3. n \in 0..Budget
    BY <1>3, <2>1, GatewayAssumption DEF Affords, JobShape
  <2>8. JobShape(e) /\ e.who = j.who /\ e.found = j.found /\ e.at = j.at
    BY <2>2, <2>3 DEF JobShape
  <2>4. PICK v : v = [e EXCEPT !.at = "verify"]
    OBVIOUS
  <2>5. v = [hash |-> j.hash, at |-> "verify", page |-> j.page, size |-> j.size,
             pages |-> j.pages, todo |-> j.todo, who |-> j.who, enriched |-> n,
             found |-> j.found]
    BY <2>2, <2>4
  <2>6. v.at = "verify" /\ JobShape(v)
    BY <1>3, <2>3, <2>5 DEF JobShape
  <2>7. QED
    BY <2>4, <2>6, <2>8
<1>4. ASSUME j.at = "verify" PROVE JobShape([j EXCEPT !.found = @ \cup {j.who}])
  <2>1. PICK f : f = j.found \cup {j.who}
    OBVIOUS
  <2>2. PICK v : v = [j EXCEPT !.found = @ \cup {j.who}]
    OBVIOUS
  <2>3. v = [hash |-> j.hash, at |-> j.at, page |-> j.page, size |-> j.size,
             pages |-> j.pages, todo |-> j.todo, who |-> j.who, enriched |-> j.enriched,
             found |-> f]
    BY <2>1, <2>2 DEF JobShape
  <2>4. f \subseteq G!Person
    BY <1>4, <2>1 DEF JobShape
  <2>5. QED
    BY <2>2, <2>3, <2>4, <1>4 DEF JobShape
<1>5. QED
  BY <1>1, <1>2, <1>3, <1>4

(* k's job is asking for p. *)
Enriching(k, p) == job[k] # None /\ job[k].at = "enrich" /\ job[k].who = p

(* Nobody asks for a person who was bought, and one job at a time asks. *)
Clear(p) ==
    /\ bought[p] \in {0, 1} /\ (bought[p] = 1 => p \in seen)
    /\ \A k \in AllKeys : Enriching(k, p) =>
          /\ k \in DiscoverKey /\ p \notin seen
          /\ \A i \in AllKeys : Enriching(i, p) => i = k

BillInv == \A p \in G!Person : p \in excused \/ Clear(p)

(* A step of k's job ends it with an answer, or moves it and answers nobody. *)
AnswerMove(k) ==
    \/ JobShape(job[k]) /\ \E value \in SUBSET G!Person : G!Finish(k, value)
    \/ /\ UNCHANGED <<result, told>>
       /\ \E v : (v = None \/ (JobShape(v) /\ Affords(v))) /\ job' = [job EXCEPT ![k] = v]

(* It asks for nobody who is marked, and who is asked for by another is excused. *)
JobMove(k) ==
    \E v : /\ job' = [job EXCEPT ![k] = v]
           /\ v # None /\ v.at = "enrich" =>
                 /\ k \in DiscoverKey /\ v.who \notin seen'
                 /\ \A i \in DiscoverKey \ {k} : Enriching(i, v.who) => v.who \in excused'

(* It marks and buys the person asked for, if anyone. *)
BillMove(k) ==
    /\ excused \subseteq excused' /\ seen \subseteq seen'
    /\ \A p \in seen' : p \in seen \/ Enriching(k, p)
    /\ \A p \in G!Person : \/ p \in excused' \/ bought'[p] = bought[p]
                           \/ Enriching(k, p) /\ bought'[p] = bought[p] + 1 /\ p \in seen'

LEMMA AnswersKeep ==
    ASSUME AnswersInv, NEW k \in AllKeys, result[k] = None, AnswerMove(k)
    PROVE  AnswersInv'
<1>1. CASE JobShape(job[k]) /\ \E value \in SUBSET G!Person : G!Finish(k, value)
  <2>1. PICK value \in SUBSET G!Person : G!Finish(k, value)
    BY <1>1
  <2>2. PICK r : r = [hash |-> job[k].hash, value |-> value]
    OBVIOUS
  <2>3. r # None /\ r.value = value /\ r.hash \in Hash /\ r.value \subseteq G!Person
    <3>1. r \in [hash : Hash, value : SUBSET Nat] /\ r.hash \in Hash
      BY <1>1, <2>1, <2>2 DEF JobShape, G!Person
    <3>2. QED
      BY <2>2, <3>1, GatewayAssumption
  <2>4. /\ job' = [job EXCEPT ![k] = None] /\ result' = [result EXCEPT ![k] = r]
        /\ told' = [told EXCEPT ![k] = told[k] \cup {value}] /\ told[k] = {}
    BY <2>1, <2>2 DEF G!Finish, G!Tell, AnswersInv
  <2>5. \A i \in AllKeys : IF i = k THEN job'[i] = None /\ result'[i] = r /\ told'[i] = {value}
                            ELSE job'[i] = job[i] /\ result'[i] = result[i] /\ told'[i] = told[i]
    BY <2>4 DEF AnswersInv
  <2>6. /\ result' = [i \in AllKeys |-> result'[i]] /\ job' = [i \in AllKeys |-> job'[i]]
        /\ told' = [i \in AllKeys |-> told'[i]]
    BY <2>4 DEF AnswersInv
  <2>7. QED
    BY <2>3, <2>5, <2>6 DEF AnswersInv
<1>2. ASSUME NEW v, v = None \/ (JobShape(v) /\ Affords(v)), job' = [job EXCEPT ![k] = v],
             UNCHANGED <<result, told>>
      PROVE  AnswersInv'
  <2>1. \A i \in AllKeys : job'[i] = IF i = k THEN v ELSE job[i]
    BY <1>2 DEF AnswersInv
  <2>2. job' = [i \in AllKeys |-> job'[i]]
    BY <1>2 DEF AnswersInv
  <2>3. QED
    BY <1>2, <2>1, <2>2 DEF AnswersInv
<1>3. QED
  BY <1>1, <1>2 DEF AnswerMove

LEMMA BillKeeps ==
    ASSUME AnswersInv, BillInv, NEW k \in AllKeys, JobMove(k), BillMove(k)
    PROVE  BillInv'
<1> SUFFICES ASSUME NEW p \in G!Person, p \notin excused' PROVE Clear(p)'
  BY DEF BillInv, G!Person
<1>1. p \notin excused /\ Clear(p)
  BY DEF BillMove, BillInv
<1>2. PICK v : /\ job' = [job EXCEPT ![k] = v]
               /\ v # None /\ v.at = "enrich" =>
                     /\ k \in DiscoverKey /\ v.who \notin seen'
                     /\ \A i \in DiscoverKey \ {k} : Enriching(i, v.who) => v.who \in excused'
  BY DEF JobMove
<1>3. \A i \in AllKeys : i # k => (Enriching(i, p)' <=> Enriching(i, p))
  BY <1>2 DEF Enriching, AnswersInv
<1>4. Enriching(k, p)' => v # None /\ v.at = "enrich" /\ v.who = p
  BY <1>2 DEF Enriching, AnswersInv
<1>5. bought'[p] \in {0, 1} /\ (bought'[p] = 1 => p \in seen')
  BY <1>1 DEF BillMove, Clear
<1>6. ASSUME NEW i \in AllKeys, Enriching(i, p)'
      PROVE  /\ i \in DiscoverKey /\ p \notin seen'
             /\ \A j \in AllKeys : Enriching(j, p)' => j = i
  <2>1. CASE i = k
    <3>1. \A j \in AllKeys \ {k} : ~Enriching(j, p)
      BY <1>1, <1>2, <1>4, <1>6, <2>1 DEF Clear
    <3>2. QED
      BY <1>2, <1>3, <1>4, <1>6, <2>1, <3>1
  <2>2. CASE i # k
    <3>1. Enriching(i, p) /\ i \in DiscoverKey /\ p \notin seen
      BY <1>1, <1>3, <1>6, <2>2 DEF Clear
    <3>2. ~Enriching(k, p)
      BY <1>1, <2>2, <3>1 DEF Clear
    <3>3. p \notin seen'
      BY <3>1, <3>2 DEF BillMove
    <3>4. ~Enriching(k, p)'
      BY <1>2, <1>4, <2>2, <3>1
    <3>5. QED
      BY <1>1, <1>3, <3>1, <3>3, <3>4 DEF Clear
  <2>3. QED
    BY <2>1, <2>2
<1>7. QED
  BY <1>5, <1>6 DEF Clear

(* The job goes on. *)
LEMMA OnwardMoves ==
    ASSUME NEW k \in DiscoverKey, JobShape(job[k]), NEW j, JobShape(j), NEW bill,
           G!Onward(k, j, bill)
    PROVE  AnswerMove(k) /\ JobMove(k) /\ bought' = bill /\ excused \subseteq excused'
<1>1. j.found \in SUBSET G!Person /\ j.page \in Nat
  BY DEF JobShape
<1>2. CASE G!Finish(k, j.found) /\ bought' = bill /\ UNCHANGED excused
  <2>1. AnswerMove(k)
    BY <1>1, <1>2 DEF AnswerMove
  <2>2. job' = [job EXCEPT ![k] = None]
    BY <1>2 DEF G!Finish
  <2>3. QED
    BY <1>2, <2>1, <2>2 DEF JobMove
<1>3. CASE /\ job' = [job EXCEPT ![k] = G!Search(j, j.page + 1)] /\ UNCHANGED <<result, told>>
           /\ bought' = bill /\ UNCHANGED excused /\ j.pages < MaxPages
  <2>1. PICK v : v = G!Search(j, j.page + 1)
    OBVIOUS
  <2>2. JobShape(v) /\ Affords(v) /\ v.at = "search"
    BY <1>1, <1>3, <2>1, JobSearches DEF Affords
  <2>3. job' = [job EXCEPT ![k] = v]
    BY <1>3, <2>1, SMTT(30)
  <2>4. QED
    BY <1>3, <2>2, <2>3 DEF AnswerMove, JobMove
<1>4. CASE /\ j.todo \ seen' # {}
           /\ LET p == G!Min(j.todo \ seen')
              IN /\ job' = [job EXCEPT ![k] = [j EXCEPT !.at = "enrich", !.who = p,
                                                       !.todo = {q \in @ : q > p}]]
                 /\ excused' = IF \E i \in DiscoverKey \ {k} :
                                      job[i] # None /\ job[i].at = "enrich" /\ job[i].who = p
                                 THEN excused \cup {p} ELSE excused
           /\ bought' = bill /\ UNCHANGED <<result, told>> /\ j.enriched < Budget
  <2>1. PICK p : p = G!Min(j.todo \ seen')
    OBVIOUS
  <2>2. p \in j.todo \ seen'
    <3>1. j.todo \ seen' \in SUBSET Nat
      BY GatewayAssumption DEF JobShape, G!Person
    <3>2. PICK q \in j.todo \ seen' : \A y \in j.todo \ seen' : q <= y
      BY <1>4, <3>1, Least, SMTT(30)
    <3>3. QED
      BY <2>1, <3>2, Zenon DEF G!Min
  <2>3. p \in G!Person /\ p \notin seen'
    BY <2>2 DEF JobShape
  <2>4. PICK t, v : t = {q \in j.todo : q > p} /\ v = Asking(j, p, t)
    OBVIOUS
  <2>5. JobShape(v) /\ Affords(v) /\ v.at = "enrich" /\ v.who = p
    <3>1. t \in SUBSET G!Person
      BY <2>4 DEF JobShape
    <3>2. QED
      BY <1>4, <2>3, <2>4, <3>1, JobEnriches
  <2>6. /\ job' = [job EXCEPT ![k] = v]
        /\ excused' = IF \E i \in DiscoverKey \ {k} : Enriching(i, p)
                        THEN excused \cup {p} ELSE excused
    BY <1>4, <2>1, <2>4 DEF Enriching, Asking
  <2>7. QED
    BY <1>4, <2>3, <2>5, <2>6 DEF AnswerMove, JobMove
<1>5. ~G!Full(j) => j.enriched < Budget
  BY GatewayAssumption DEF JobShape, G!Full
<1>6. QED
  BY <1>2, <1>3, <1>4, <1>5 DEF G!Onward

(* What the vendor bills, and for whom. *)
LEMMA Bills ==
    ASSUME NEW paid, NEW p \in G!Person
    PROVE  /\ p \notin G!Billed(paid) => G!Bill(paid)[p] = bought[p] \/ bought[p] \notin {0, 1}
           /\ \A k : paid = {k} /\ job[k].who = p /\ bought[p] \in {0, 1}
                       => G!Bill(paid)[p] = bought[p] + 1
<1>1. PICK S : S = {k \in paid : job[k].who = p}
  OBVIOUS
<1>2. G!Bill(paid)[p] = bought[p] + Cardinality(S)
  <2>1. \A Q : G!Cardinality(Q) = Cardinality(Q)
    BY Zenon DEF G!Cardinality, Cardinality
  <2>2. QED
    BY <1>1, <2>1 DEF G!Bill
<1>3. ASSUME p \notin G!Billed(paid) PROVE S = {}
  BY <1>1, <1>3 DEF G!Billed
<1>4. ASSUME NEW k, paid = {k}, job[k].who = p PROVE S = {k}
  BY <1>1, <1>4
<1>5. Cardinality({}) = 0 /\ \A k : Cardinality({k}) = 1
  BY FS_EmptySet, FS_Singleton
<1>6. ASSUME p \notin G!Billed(paid)
      PROVE  G!Bill(paid)[p] = bought[p] \/ bought[p] \notin {0, 1}
  <2>1. G!Bill(paid)[p] = bought[p] + 0
    BY <1>2, <1>3, <1>5, <1>6
  <2>2. QED
    BY <2>1
<1>7. ASSUME NEW k, paid = {k}, job[k].who = p PROVE G!Bill(paid)[p] = bought[p] + 1
  BY <1>2, <1>4, <1>5, <1>7
<1>8. QED
  BY <1>6, <1>7

LEMMA CallStep ==
    ASSUME AnswersInv, BillInv, pageCursor \in Nat, NEW k \in AllKeys, NEW h \in Hash, G!Call(k, h)
    PROVE  AnswersInv' /\ BillInv'
<1>1. UNCHANGED <<result, seen, bought, excused>> /\ job[k] = None
  BY DEF G!Call, G!kept
<1>2. BillMove(k)
  BY <1>1 DEF BillMove
<1>3. CASE result[k] = None
  <2>1. PICK v : v = G!NewJob(k, h)
    OBVIOUS
  <2>2. job' = [job EXCEPT ![k] = v] /\ UNCHANGED told
    BY <1>3, <2>1 DEF G!Call
  <2>3. JobShape(v) /\ Affords(v) /\ v.at # "enrich"
    <3>1. PICK j : j = [hash |-> h, at |-> "check", page |-> 0, size |-> 0, pages |-> 0,
                        todo |-> {}, who |-> None, enriched |-> 0, found |-> {}]
      OBVIOUS
    <3>2. JobShape(j) /\ j.at = "check" /\ j.pages < MaxPages
      BY <3>1, GatewayAssumption DEF JobShape
    <3>3. v = IF k \in VerifyKey THEN j ELSE G!Search(j, pageCursor + 1)
      BY <2>1, <3>1 DEF G!NewJob
    <3>4. PICK s : s = G!Search(j, pageCursor + 1)
      OBVIOUS
    <3>5. JobShape(s) /\ s.at = "search"
      BY <3>2, <3>4, JobSearches
    <3>6. QED
      BY <3>2, <3>3, <3>4, <3>5 DEF Affords
  <2>4. AnswerMove(k) /\ JobMove(k)
    BY <1>1, <2>2, <2>3 DEF AnswerMove, JobMove
  <2>5. QED
    BY <1>2, <1>3, <2>4, AnswersKeep, BillKeeps
<1>4. CASE result[k] # None
  <2>1. /\ told' = [told EXCEPT ![k] = told[k] \cup {result[k].value}] /\ UNCHANGED job
    BY <1>4 DEF G!Call, G!Tell
  <2>2. \A i \in AllKeys :
          told'[i] = IF i = k THEN told[k] \cup {result[k].value} ELSE told[i]
    BY <2>1 DEF AnswersInv
  <2>3. told' = [i \in AllKeys |-> told'[i]]
    BY <2>1 DEF AnswersInv
  <2>4. AnswersInv'
    BY <1>1, <1>4, <2>1, <2>2, <2>3 DEF AnswersInv
  <2>5. BillInv'
    BY <1>1, <2>1 DEF BillInv, Clear, Enriching, G!Person
  <2>6. QED
    BY <2>4, <2>5
<1>5. QED
  BY <1>3, <1>4

(* A job in flight that asked the vendor. *)
LEMMA JobAt ==
    ASSUME AnswersInv, NEW k \in AllKeys, job[k] # None
    PROVE  JobShape(job[k]) /\ Affords(job[k]) /\ result[k] = None
BY DEF AnswersInv

LEMMA SearchStep ==
    ASSUME AnswersInv, BillInv, NEW k \in DiscoverKey, G!Searched(k)
    PROVE  AnswersInv' /\ BillInv'
<1>1. k \in AllKeys /\ job[k] # None /\ job[k].at = "search" /\ UNCHANGED seen
  BY DEF G!Searched, G!At, AllKeys
<1>2. JobShape(job[k]) /\ Affords(job[k]) /\ result[k] = None
  BY <1>1, JobAt
<1>3. AnswerMove(k) /\ JobMove(k) /\ bought' = bought /\ excused \subseteq excused'
  <2>1. CASE G!Finish(k, job[k].found) /\ UNCHANGED <<bought, excused>>
    <3>1. job[k].found \in SUBSET G!Person
      BY <1>2 DEF JobShape
    <3>2. AnswerMove(k)
      BY <1>2, <2>1, <3>1 DEF AnswerMove
    <3>3. job' = [job EXCEPT ![k] = None]
      BY <2>1 DEF G!Finish
    <3>4. QED
      BY <2>1, <3>2, <3>3 DEF JobMove
  <2>2. CASE G!Onward(k, [job[k] EXCEPT !.todo = G!Page(job[k])], bought)
    <3>1. PICK t : t = G!Page(job[k])
      OBVIOUS
    <3>2. t \in SUBSET G!Person
      BY <3>1 DEF G!Page
    <3>3. PICK j : j = [job[k] EXCEPT !.todo = t]
      OBVIOUS
    <3>4. JobShape(j)
      BY <1>2, <3>2, <3>3, JobPrepared
    <3>5. G!Onward(k, j, bought)
      BY <2>2, <3>1, <3>3
    <3>6. QED
      BY <1>2, <3>4, <3>5, OnwardMoves
  <2>3. QED
    BY <2>1, <2>2 DEF G!Searched
<1>4. BillMove(k)
  BY <1>1, <1>3 DEF BillMove
<1>5. QED
  BY <1>1, <1>2, <1>3, <1>4, AnswersKeep, BillKeeps

(* The vendor answered: who was asked for is marked, bought or not. *)
LEMMA EnrichStep ==
    ASSUME AnswersInv, BillInv, NEW k \in DiscoverKey, NEW paid \in {{}, {k}},
           G!Enriched(k, paid)
    PROVE  AnswersInv' /\ BillInv'
<1>1. PICK j : j = [job[k] EXCEPT !.enriched = @ + 1]
  OBVIOUS
<1>2. k \in AllKeys /\ job[k] # None /\ job[k].at = "enrich"
  BY DEF G!Enriched, G!At, AllKeys
<1>3. JobShape(job[k]) /\ Affords(job[k]) /\ result[k] = None
  BY <1>2, JobAt
<1>4. /\ JobShape(j) /\ j.who = job[k].who /\ JobShape([j EXCEPT !.at = "verify"])
      /\ [j EXCEPT !.at = "verify"].at = "verify"
  BY <1>1, <1>2, <1>3, JobPrepared
<1>5. seen' = seen \cup {job[k].who} /\ Enriching(k, job[k].who)
  BY <1>1, <1>2, <1>4 DEF G!Enriched, G!Marked, Enriching
<1>6. /\ AnswerMove(k) /\ JobMove(k) /\ excused \subseteq excused'
      /\ bought' = bought \/ (paid = {k} /\ bought' = G!Bill(paid))
  <2>1. CASE G!Onward(k, j, bought)
    BY <1>3, <1>4, <2>1, OnwardMoves
  <2>2. CASE paid = {k} /\ G!Onward(k, j, G!Bill(paid))
    <3>1. PICK bill : bill = G!Bill(paid)
      OBVIOUS
    <3>2. G!Onward(k, j, bill)
      BY <2>2, <3>1
    <3>3. QED
      BY <1>3, <1>4, <2>2, <3>1, <3>2, OnwardMoves
  <2>3. CASE /\ paid = {k} /\ job' = [job EXCEPT ![k] = [j EXCEPT !.at = "verify"]]
             /\ bought' = G!Bill(paid) /\ UNCHANGED <<result, told, excused>>
    <3>1. PICK v : v = [j EXCEPT !.at = "verify"]
      OBVIOUS
    <3>2. job' = [job EXCEPT ![k] = v] /\ JobShape(v) /\ v.at = "verify"
      BY <1>4, <2>3, <3>1
    <3>3. QED
      BY <2>3, <3>2 DEF AnswerMove, JobMove, Affords
  <2>4. QED
    <3>1. paid = {} \/ paid = {k}
      OBVIOUS
    <3>2. \/ G!Onward(k, j, bought)
          \/ /\ paid # {}
             /\ \/ G!Onward(k, j, G!Bill(paid))
                \/ /\ job' = [job EXCEPT ![k] = [j EXCEPT !.at = "verify"]]
                   /\ bought' = G!Bill(paid) /\ UNCHANGED <<result, told, excused>>
      BY <1>1 DEF G!Enriched
    <3>3. QED
      BY <2>1, <2>2, <2>3, <3>1, <3>2
<1>7. BillMove(k)
  <2>1. ASSUME NEW p \in G!Person, p \notin excused', bought'[p] # bought[p]
        PROVE  Enriching(k, p) /\ bought'[p] = bought[p] + 1 /\ p \in seen'
    <3>1. paid = {k} /\ bought' = G!Bill(paid)
      BY <1>6, <2>1
    <3>2. bought[p] \in {0, 1}
      BY <1>6, <2>1 DEF BillInv, Clear
    <3>3. p \in G!Billed(paid)
      BY <2>1, <3>1, <3>2, Bills
    <3>4. p = job[k].who
      BY <3>1, <3>3 DEF G!Billed
    <3>5. QED
      BY <1>5, <3>1, <3>2, <3>4, Bills
  <2>2. QED
    BY <1>5, <1>6, <2>1 DEF BillMove
<1>8. QED
  BY <1>2, <1>3, <1>6, <1>7, AnswersKeep, BillKeeps

LEMMA VerifyStep ==
    ASSUME AnswersInv, BillInv, NEW k \in DiscoverKey, NEW valid \in BOOLEAN,
           G!Verified(k, valid)
    PROVE  AnswersInv' /\ BillInv'
<1>1. k \in AllKeys /\ job[k] # None /\ job[k].at = "verify" /\ seen' = seen
  BY DEF G!Verified, G!At, G!Marked, AllKeys
<1>2. JobShape(job[k]) /\ Affords(job[k]) /\ result[k] = None
  BY <1>1, JobAt
<1>3. PICK j : j = IF valid THEN [job[k] EXCEPT !.found = @ \cup {job[k].who}] ELSE job[k]
  OBVIOUS
<1>4. JobShape(j)
  BY <1>1, <1>2, <1>3, JobPrepared
<1>5. G!Onward(k, j, bought)
  BY <1>3 DEF G!Verified
<1>6. AnswerMove(k) /\ JobMove(k) /\ bought' = bought /\ excused \subseteq excused'
  BY <1>2, <1>4, <1>5, OnwardMoves
<1>7. BillMove(k)
  BY <1>1, <1>6 DEF BillMove
<1>8. QED
  BY <1>1, <1>2, <1>6, <1>7, AnswersKeep, BillKeeps

(* A job that ends without an answer. *)
LEMMA JobDropped ==
    ASSUME NEW k, job' = [job EXCEPT ![k] = None], UNCHANGED <<result, told>>
    PROVE  AnswerMove(k)
<1>1. PICK v : v = None
  OBVIOUS
<1>2. job' = [job EXCEPT ![k] = v]
  BY <1>1
<1>3. \E u : (u = None \/ (JobShape(u) /\ Affords(u))) /\ job' = [job EXCEPT ![k] = u]
  BY <1>1, <1>2, Zenon
<1>4. UNCHANGED <<result, told>>
  OBVIOUS
<1>5. QED
  BY <1>3, <1>4, Zenon DEF AnswerMove

LEMMA CheckStep ==
    ASSUME AnswersInv, BillInv, NEW k \in VerifyKey, G!Checked(k)
    PROVE  AnswersInv' /\ BillInv'
<1>1. k \in AllKeys /\ job[k] # None /\ UNCHANGED <<seen, bought, excused>>
  BY DEF G!Checked, G!At, AllKeys
<1>2. JobShape(job[k]) /\ Affords(job[k]) /\ result[k] = None
  BY <1>1, JobAt
<1>3. AnswerMove(k)
  <2>1. ASSUME NEW valid \in SUBSET {1}, G!Finish(k, valid) PROVE AnswerMove(k)
    <3>1. valid \in SUBSET G!Person
      BY GatewayAssumption DEF G!Person
    <3>2. QED
      BY <1>2, <2>1, <3>1 DEF AnswerMove
  <2>2. CASE job' = [job EXCEPT ![k] = None] /\ UNCHANGED <<result, told>>
    BY <2>2, JobDropped
  <2>3. \/ \E valid \in SUBSET {1} : G!Finish(k, valid)
        \/ job' = [job EXCEPT ![k] = None] /\ UNCHANGED <<result, told>>
    BY Zenon DEF G!Checked
  <2>4. QED
    BY ONLY <2>1, <2>2, <2>3
<1>4. job' = [job EXCEPT ![k] = None]
  BY DEF G!Checked, G!Finish
<1>5. JobMove(k) /\ BillMove(k)
  BY <1>1, <1>4 DEF JobMove, BillMove
<1>6. QED
  BY <1>1, <1>2, <1>3, <1>5, AnswersKeep, BillKeeps

LEMMA FailStep ==
    ASSUME AnswersInv, BillInv, NEW k \in AllKeys, NEW paid \in {{}, {k}},
           G!VendorFails(k, paid)
    PROVE  AnswersInv' /\ BillInv'
<1>1. /\ job[k] # None /\ UNCHANGED seen /\ bought' = G!Bill(paid)
      /\ excused' = excused \cup G!Billed(paid)
  BY DEF G!VendorFails
<1>2. JobShape(job[k]) /\ Affords(job[k]) /\ result[k] = None
  BY <1>1, JobAt
<1>3. AnswerMove(k) /\ job' = [job EXCEPT ![k] = None]
  <2>1. job[k].found \in SUBSET G!Person
    BY <1>2 DEF JobShape
  <2>2. CASE G!Finish(k, job[k].found)
    <3>1. AnswerMove(k)
      BY <1>2, <2>1, <2>2 DEF AnswerMove
    <3>2. QED
      BY <2>2, <3>1 DEF G!Finish
  <2>3. CASE job' = [job EXCEPT ![k] = None] /\ UNCHANGED <<result, told>>
    BY <2>3, JobDropped
  <2>4. \/ G!Finish(k, job[k].found)
        \/ job' = [job EXCEPT ![k] = None] /\ UNCHANGED <<result, told>>
    BY Zenon DEF G!VendorFails
  <2>5. QED
    BY <2>2, <2>3, <2>4
<1>4. BillMove(k)
  <2>1. ASSUME NEW p \in G!Person, p \notin excused' PROVE bought'[p] = bought[p]
    BY <1>1, <2>1, Bills DEF BillInv, Clear
  <2>2. QED
    BY <1>1, <2>1 DEF BillMove
<1>5. JobMove(k)
  BY <1>3 DEF JobMove
<1>6. QED
  BY <1>2, <1>3, <1>4, <1>5, AnswersKeep, BillKeeps

LEMMA CrashStep == ASSUME AnswersInv, BillInv, G!Crash PROVE AnswersInv' /\ BillInv'
<1>1. /\ job' = [k \in DOMAIN job |-> None] /\ UNCHANGED <<result, told, seen>>
  BY DEF G!Crash, G!Kept
<1>2. PICK paid : bought' = G!Bill(paid) /\ excused' = excused \cup G!Billed(paid)
  BY DEF G!Crash
<1>3. job' = [k \in AllKeys |-> None]
  BY <1>1 DEF AnswersInv
<1>4. AnswersInv'
  BY <1>1, <1>3 DEF AnswersInv
<1>5. ASSUME NEW p \in G!Person, p \notin excused' PROVE Clear(p)'
  <2>1. Clear(p) /\ bought'[p] = bought[p]
    BY <1>2, <1>5, Bills DEF BillInv, Clear
  <2>2. \A k \in AllKeys : ~Enriching(k, p)'
    BY <1>3 DEF Enriching
  <2>3. QED
    BY <1>1, <2>1, <2>2 DEF Clear
<1>6. QED
  BY <1>4, <1>5 DEF BillInv, G!Person

(* The bill, and the page reached, are numbers. *)
BoundsInv ==
    /\ pageCursor \in Nat /\ seen \subseteq G!Person /\ excused \subseteq G!Person
    /\ bought \in [G!Person -> 0..MaxBuys]

(* What the vendor bills stays within the bound. *)
LEMMA BillTyped ==
    ASSUME BoundsInv, NEW paid, IsFiniteSet(paid), G!Bounded(paid)
    PROVE  /\ G!Bill(paid) \in [G!Person -> 0..MaxBuys]
           /\ G!Billed(paid) \subseteq G!Person
<1>1. \A Q : G!Cardinality(Q) = Cardinality(Q)
  BY Zenon DEF G!Cardinality, Cardinality
<1>2. ASSUME NEW p \in G!Person PROVE G!Bill(paid)[p] \in 0..MaxBuys
  <2>1. PICK S : S = {k \in paid : job[k].who = p}
    OBVIOUS
  <2>2. G!Bill(paid)[p] = bought[p] + Cardinality(S)
    BY <1>1, <2>1 DEF G!Bill
  <2>3. Cardinality(S) \in Nat
    BY <2>1, FS_Subset, FS_CardinalityType
  <2>4. CASE p \in G!Billed(paid)
    BY <2>2, <2>3, <2>4, GatewayAssumption DEF G!Bounded, BoundsInv
  <2>5. CASE p \notin G!Billed(paid)
    <3>1. S = {}
      BY <2>1, <2>5 DEF G!Billed
    <3>2. Cardinality(S) = 0
      BY <3>1, FS_EmptySet
    <3>3. QED
      BY <2>2, <3>2, GatewayAssumption DEF BoundsInv
  <2>6. QED
    BY <2>4, <2>5
<1>3. G!Bill(paid) = [p \in G!Person |-> G!Bill(paid)[p]]
  BY DEF G!Bill
<1>4. QED
  BY <1>2, <1>3 DEF G!Billed

LEMMA OnwardTyped ==
    ASSUME BoundsInv, NEW k \in DiscoverKey, NEW j, JobShape(j), NEW bill,
           bill \in [G!Person -> 0..MaxBuys], seen' \subseteq G!Person, G!Onward(k, j, bill)
    PROVE  BoundsInv'
<1>1. pageCursor' \in Nat /\ bought' \in [G!Person -> 0..MaxBuys]
  BY DEF G!Onward, JobShape, BoundsInv
<1>2. excused' \subseteq G!Person
  <2>1. CASE UNCHANGED excused
    BY <2>1 DEF BoundsInv
  <2>2. ASSUME NEW p, p = G!Min(j.todo \ seen'), j.todo \ seen' # {},
               excused' = excused \/ excused' = excused \cup {p}
        PROVE  excused' \subseteq G!Person
    <3>1. j.todo \ seen' \in SUBSET Nat /\ j.todo \subseteq G!Person
      BY GatewayAssumption DEF JobShape, G!Person
    <3>2. PICK q \in j.todo \ seen' : \A y \in j.todo \ seen' : q <= y
      BY <2>2, <3>1, Least
    <3>3. p \in j.todo \ seen'
      BY <2>2, <3>2, Zenon DEF G!Min
    <3>4. QED
      BY <2>2, <3>1, <3>3 DEF BoundsInv
  <2>3. QED
    BY <2>1, <2>2 DEF G!Onward
<1>3. QED
  BY <1>1, <1>2 DEF BoundsInv, G!Person

LEMMA BoundsStep == AnswersInv /\ BoundsInv /\ [G!Next]_G!vars => BoundsInv'
<1> SUFFICES ASSUME AnswersInv, BoundsInv, [G!Next]_G!vars PROVE BoundsInv'
  OBVIOUS
<1>0. /\ DiscoverKey \subseteq AllKeys /\ AllKeys = DiscoverKey \cup VerifyKey
      /\ G!Person' = G!Person
  BY DEF AllKeys, G!Person
<1>1. ASSUME UNCHANGED <<seen, bought, excused>>, pageCursor' \in {0, pageCursor}
      PROVE  BoundsInv'
  BY <1>0, <1>1 DEF BoundsInv
<1>2. CASE UNCHANGED G!vars
  BY <1>1, <1>2 DEF G!vars, G!kept
<1>3. ASSUME NEW k \in AllKeys, NEW h \in Hash, G!Call(k, h) PROVE BoundsInv'
  BY <1>1, <1>3 DEF G!Call, G!kept
<1>4. ASSUME NEW k \in DiscoverKey, G!Searched(k) PROVE BoundsInv'
  <2>1. job[k] # None /\ UNCHANGED seen
    BY <1>4 DEF G!Searched, G!At
  <2>2. JobShape(job[k])
    BY <1>0, <2>1, JobAt
  <2>3. CASE G!Onward(k, [job[k] EXCEPT !.todo = G!Page(job[k])], bought)
    <3>1. PICK t, j : t = G!Page(job[k]) /\ j = [job[k] EXCEPT !.todo = t]
      OBVIOUS
    <3>2. JobShape(j)
      BY <2>2, <3>1, JobPrepared DEF G!Page
    <3>3. bought \in [G!Person -> 0..MaxBuys] /\ seen' \subseteq G!Person
      BY <2>1 DEF BoundsInv
    <3>4. G!Onward(k, j, bought)
      BY <2>3, <3>1
    <3>5. QED
      BY <3>2, <3>3, <3>4, OnwardTyped
  <2>4. CASE pageCursor' = 0 /\ UNCHANGED <<bought, excused>>
    BY <1>1, <2>1, <2>4
  <2>5. QED
    BY <1>4, <2>3, <2>4 DEF G!Searched
<1>5. ASSUME NEW k \in DiscoverKey, NEW paid \in {{}, {k}}, G!Enriched(k, paid) PROVE BoundsInv'
  <2>1. PICK j : j = [job[k] EXCEPT !.enriched = @ + 1]
    OBVIOUS
  <2>2. job[k] # None /\ job[k].at = "enrich" /\ G!Bounded(paid)
    BY <1>5 DEF G!Enriched, G!At
  <2>3. JobShape(job[k]) /\ Affords(job[k])
    BY <1>0, <2>2, JobAt, SMTT(30)
  <2>4. JobShape(j) /\ j.who = job[k].who /\ job[k].who \in G!Person
    <3>1. job[k].who \in G!Person
      BY <2>2, <2>3 DEF JobShape
    <3>2. QED
      BY <2>1, <2>2, <2>3, <3>1, JobPrepared
  <2>5. IsFiniteSet(paid)
    BY FS_EmptySet, FS_Singleton
  <2>6. PICK bill : bill = G!Bill(paid)
    OBVIOUS
  <2>7. bill \in [G!Person -> 0..MaxBuys] /\ bought \in [G!Person -> 0..MaxBuys]
    BY <2>2, <2>5, <2>6, BillTyped DEF BoundsInv
  <2>8. seen' \subseteq G!Person
    BY <1>5, <2>1, <2>4 DEF G!Enriched, G!Marked, BoundsInv
  <2>9. \/ G!Onward(k, j, bought)
        \/ G!Onward(k, j, bill)
        \/ bought' = bill /\ UNCHANGED <<pageCursor, excused>>
    BY <1>5, <2>1, <2>6 DEF G!Enriched
  <2>10. CASE G!Onward(k, j, bought)
    BY <2>4, <2>7, <2>8, <2>10, OnwardTyped
  <2>11. CASE G!Onward(k, j, bill)
    BY <2>4, <2>7, <2>8, <2>11, OnwardTyped
  <2>12. CASE bought' = bill /\ UNCHANGED <<pageCursor, excused>>
    BY <1>0, <2>7, <2>8, <2>12 DEF BoundsInv
  <2>13. QED
    BY <2>9, <2>10, <2>11, <2>12
<1>6. ASSUME NEW k \in DiscoverKey, NEW valid \in BOOLEAN, G!Verified(k, valid) PROVE BoundsInv'
  <2>1. job[k] # None /\ job[k].at = "verify" /\ seen' = seen
    BY <1>6 DEF G!Verified, G!At, G!Marked
  <2>2. PICK j : j = IF valid THEN [job[k] EXCEPT !.found = @ \cup {job[k].who}] ELSE job[k]
    OBVIOUS
  <2>3. JobShape(job[k])
    BY <1>0, <2>1, JobAt
  <2>4. JobShape(j)
    BY <2>1, <2>2, <2>3, JobPrepared
  <2>5. G!Onward(k, j, bought)
    BY <1>6, <2>2 DEF G!Verified
  <2>6. bought \in [G!Person -> 0..MaxBuys] /\ seen' \subseteq G!Person
    BY <2>1 DEF BoundsInv
  <2>7. QED
    BY <2>4, <2>5, <2>6, OnwardTyped
<1>7. ASSUME NEW paid, IsFiniteSet(paid), G!Bounded(paid), bought' = G!Bill(paid),
             excused' = excused \cup G!Billed(paid), UNCHANGED <<seen, pageCursor>>
      PROVE  BoundsInv'
  <2>1. G!Bill(paid) \in [G!Person -> 0..MaxBuys] /\ G!Billed(paid) \subseteq G!Person
    BY <1>7, BillTyped
  <2>2. QED
    BY <1>0, <1>7, <2>1 DEF BoundsInv
<1>8. ASSUME NEW k \in AllKeys, NEW paid \in {{}, {k}}, G!VendorFails(k, paid) PROVE BoundsInv'
  <2>1. IsFiniteSet(paid)
    BY FS_EmptySet, FS_Singleton
  <2>2. QED
    BY <1>7, <1>8, <2>1 DEF G!VendorFails
<1>9. ASSUME NEW k \in VerifyKey, G!Checked(k) PROVE BoundsInv'
  BY <1>1, <1>9 DEF G!Checked
<1>10. CASE G!Crash
  <2>1. PICK paid \in SUBSET DiscoverKey :
               G!Bounded(paid) /\ bought' = G!Bill(paid) /\ excused' = excused \cup G!Billed(paid)
    BY <1>10 DEF G!Crash
  <2>2. IsFiniteSet(paid)
    BY GatewayAssumption, FS_Subset
  <2>3. QED
    BY <1>7, <1>10, <2>1, <2>2 DEF G!Crash
<1>11. QED
  BY <1>0, <1>2, <1>3, <1>4, <1>5, <1>6, <1>8, <1>9, <1>10 DEF G!Next

LEMMA GatewayHolds == G!Spec => [](G!SameKeySameAnswer /\ G!BoughtOnce) /\ []G!TypeOK
<1> DEFINE Inv == AnswersInv /\ BillInv /\ BoundsInv
<1>1. ASSUME G!Init PROVE Inv
  <2>1. /\ result = [k \in AllKeys |-> None] /\ job = [k \in AllKeys |-> None]
        /\ told = [k \in AllKeys |-> {}] /\ bought = [p \in G!Person |-> 0]
        /\ seen = {} /\ excused = {} /\ pageCursor = 0
    BY <1>1 DEF G!Init, AllKeys
  <2>2. AnswersInv
    BY <2>1 DEF AnswersInv
  <2>3. BillInv
    BY <2>1 DEF BillInv, Clear, Enriching
  <2>4. BoundsInv
    BY <2>1, GatewayAssumption DEF BoundsInv
  <2>5. QED
    BY <2>2, <2>3, <2>4
<1>2. Inv /\ [G!Next]_G!vars => Inv'
  <2> SUFFICES ASSUME AnswersInv, BillInv, BoundsInv, [G!Next]_G!vars
               PROVE  AnswersInv' /\ BillInv' /\ BoundsInv'
    OBVIOUS
  <2>1. ASSUME UNCHANGED G!vars PROVE AnswersInv' /\ BillInv'
    BY <2>1 DEF G!vars, G!kept, AnswersInv, BillInv, Clear, Enriching, G!Person
  <2>2. DiscoverKey \subseteq AllKeys /\ AllKeys = DiscoverKey \cup VerifyKey
    BY DEF AllKeys
  <2>3. pageCursor \in Nat
    BY DEF BoundsInv
  <2>4. ASSUME G!Next PROVE AnswersInv' /\ BillInv'
    <3>1. ASSUME NEW k \in AllKeys, NEW h \in Hash, G!Call(k, h) PROVE AnswersInv' /\ BillInv'
      BY <2>3, <3>1, CallStep
    <3>2. QED
      BY <2>2, <2>4, <3>1, SearchStep, EnrichStep, VerifyStep, FailStep, CheckStep, CrashStep
         DEF G!Next
  <2>5. QED
    BY <2>1, <2>4, BoundsStep
<1>3. Inv => G!SameKeySameAnswer /\ G!BoughtOnce
  <2> SUFFICES ASSUME AnswersInv, BillInv PROVE G!SameKeySameAnswer /\ G!BoughtOnce
    OBVIOUS
  <2>1. ASSUME NEW k \in AllKeys PROVE G!Cardinality(told[k]) <= 1
    <3>1. PICK r : told[k] \subseteq {r}
      BY DEF AnswersInv
    <3>2. IsFiniteSet({r}) /\ Cardinality({r}) = 1
      BY FS_Singleton
    <3>3. Cardinality(told[k]) <= 1
      BY <3>1, <3>2, FS_Subset
    <3>4. \A Q : G!Cardinality(Q) = Cardinality(Q)
      BY Zenon DEF G!Cardinality, Cardinality
    <3>5. QED
      BY <3>3, <3>4
  <2>2. QED
    BY <2>1 DEF AllKeys, BillInv, Clear, G!SameKeySameAnswer, G!BoughtOnce
<1>4. Inv => G!TypeOK
  <2> SUFFICES ASSUME AnswersInv, BoundsInv PROVE G!TypeOK
    OBVIOUS
  <2>1. ASSUME NEW k \in AllKeys, job[k] # None PROVE job[k] \in G!Job
    <3>1. JobShape(job[k])
      BY <2>1, JobAt
    <3>2. QED
      BY <3>1 DEF JobShape, G!Job
  <2>2. ASSUME NEW k \in AllKeys
        PROVE  /\ result[k] # None => result[k].hash \in Hash /\ result[k].value \in G!Answer
               /\ told[k] \subseteq G!Answer
    BY <2>2 DEF AnswersInv, G!Answer
  <2>3. QED
    BY <2>1, <2>2 DEF AllKeys, BoundsInv, G!TypeOK
<1> HIDE DEF Inv
<1>5. QED
  BY <1>1, <1>2, <1>3, <1>4, PTL DEF G!Spec

(* A key of the gateway has one answer, and a person is bought once, whatever fails, is
   retried or restarts (gateway/src/store.ts, discover.ts). *)
THEOREM Gatekeeping == Spec => []GatewayOnce
  BY GatewayHolds, PTL DEF Spec, GatewayOnce
-----------------------------------------------------------------------------
(* The import of leads. *)
LEMMA SameRows == ASSUME NEW l PROVE D!FlattenSeq(l) = Ext!FlattenSeq(l)
  BY Zenon DEF D!FlattenSeq, Ext!FlattenSeq

Text == Seq(D!Char)

LEMMA Most ==
    ASSUME NEW n \in Nat, NEW Some \in SUBSET (1..n), Some # {}
    PROVE  \E x \in Some : \A y \in Some : y <= x
<1> DEFINE Left == {n - x : x \in Some}
<1>1. Left \in SUBSET Nat /\ Left # {}
  <2>1. ASSUME NEW x \in Some PROVE n - x \in Nat
    OBVIOUS
  <2>2. PICK x : x \in Some
    OBVIOUS
  <2>3. n - x \in Left
    BY <2>2
  <2>4. Left \in SUBSET Nat
    BY <2>1
  <2>5. QED
    BY <2>3, <2>4
<1>2. PICK m \in Left : \A q \in Left : m <= q
  BY <1>1, Least
<1>3. PICK x \in Some : m = n - x
  BY <1>2
<1>4. ASSUME NEW y \in Some PROVE y <= x
  <2>1. n - y \in Left
    OBVIOUS
  <2>2. m <= n - y
    BY <1>2, <2>1
  <2>3. x \in 1..n /\ y \in 1..n
    OBVIOUS
  <2>4. QED
    BY <1>3, <2>2, <2>3
<1>5. QED
  BY <1>4

LEMMA TrimIsText == ASSUME NEW c \in Text PROVE D!Trim(c) \in Text
<1> DEFINE black == {k \in DOMAIN c : c[k] \notin D!Blank}
<1> DEFINE low == CHOOSE k \in black : \A j \in black : k <= j
<1> DEFINE high == CHOOSE k \in black : \A j \in black : j <= k
<1>1. D!Trim(c) = IF black = {} THEN <<>> ELSE SubSeq(c, low, high)
  BY Zenon DEF D!Trim
<1>2. PICK n \in Nat : n = Len(c) /\ DOMAIN c = 1..n
  BY DEF Text
<1>3. black \in SUBSET (1..n) /\ black \in SUBSET Nat
  BY <1>2
<1>4. black # {} => low \in black /\ high \in black
  <2> HIDE DEF black
  <2>1. black # {} => \E x \in black : \A y \in black : x <= y
    BY <1>3, Least
  <2>2. black # {} => \E x \in black : \A y \in black : y <= x
    BY <1>3, Most
  <2>3. QED
    BY Zenon, <2>1, <2>2
<1> HIDE DEF low, high, black
<1>5. black # {} => low \in 1..Len(c) /\ high \in 1..Len(c)
  BY <1>2, <1>3, <1>4
<1>6. QED
  BY <1>1, <1>5 DEF Text

LEMMA WrittenIsText ==
    ASSUME NEW c \in Text, NEW always \in BOOLEAN
    PROVE  D!Written(c, always) \in Text
<1> DEFINE l == [k \in DOMAIN c |-> IF c[k] = "quote" THEN <<"quote", "quote">> ELSE <<c[k]>>]
<1>1. l \in Seq(Text)
  <2>1. \A k \in DOMAIN c : c[k] \in D!Char
    BY DEF Text
  <2>2. <<"quote", "quote">> \in Text /\ \A x \in D!Char : <<x>> \in Text
    BY DEF Text, D!Char
  <2>3. \A k \in DOMAIN c : l[k] \in Text
    BY <2>1, <2>2
  <2>4. PICK n \in Nat : DOMAIN c = 1..n
    BY DEF Text
  <2>5. QED
    BY <2>3, <2>4
<1>2. D!FlattenSeq(l) \in Text
  <2> HIDE DEF l
  <2>1. QED
    BY <1>1, SameRows, FlattenedIs DEF Text
<1>3. <<"quote">> \in Text
  BY DEF Text, D!Char
<1>4. D!Written(c, always) = IF ~ always /\ ~ D!Special(c) THEN c
                            ELSE <<"quote">> \o D!FlattenSeq(l) \o <<"quote">>
  BY Zenon DEF D!Written
<1>5. QED
  <2> HIDE DEF l
  <2>1. QED
    BY <1>2, <1>3, <1>4 DEF Text

LEMMA FileIsText ==
    ASSUME NEW company \in LeadCompany, NEW email \in LeadEmail, NEW copies \in 1..2,
           NEW always \in BOOLEAN, NEW ending \in D!Ending,
           D!Upload(company, email, copies, always, ending)
    PROVE  leadText' \in Text
<1> DEFINE lines == <<D!Header>> \o [k \in 1..copies |-> <<company, email>>]
<1> DEFINE l == [k \in DOMAIN lines |-> D!Line(lines[k], always) \o ending]
<1>1. leadText' = D!FlattenSeq(l)
  BY Zenon DEF D!Upload
<1>2. company \in Text /\ email \in Text /\ <<"letter">> \in Text /\ <<"comma">> \in Text
  BY LeadsAssumption DEF Text, D!Char
<1>3. /\ DOMAIN lines = 1..copies + 1
      /\ \A k \in 1..copies + 1 : lines[k][1] \in Text /\ lines[k][2] \in Text
  BY <1>2 DEF D!Header
<1>4. ending \in Text
  <2>1. \A x, y : x \in D!Char /\ y \in D!Char => <<x>> \in Text /\ <<x, y>> \in Text
    BY DEF Text
  <2>2. QED
    BY <2>1 DEF D!Ending, D!Char
<1>5. ASSUME NEW k \in 1..copies + 1 PROVE l[k] \in Text
  <2>1. D!Written(lines[k][1], always) \in Text /\ D!Written(lines[k][2], always) \in Text
    BY <1>3, WrittenIsText, SMTT(30)
  <2>2. l[k] = (D!Written(lines[k][1], always) \o <<"comma">>
                 \o D!Written(lines[k][2], always)) \o ending
    BY <1>3 DEF D!Line
  <2> HIDE DEF lines, l
  <2>3. QED
    BY <1>2, <1>4, <2>1, <2>2 DEF Text
<1>6. l \in Seq(Text)
  <2> HIDE DEF lines
  <2>1. DOMAIN l = 1..copies + 1 /\ l = [k \in 1..copies + 1 |-> l[k]]
    BY <1>3
  <2> HIDE DEF l
  <2>2. QED
    BY <1>5, <2>1
<1>7. QED
  <2> HIDE DEF l
  <2>1. QED
    BY <1>1, <1>6, SameRows, FlattenedIs DEF Text

LEMMA LeadRowsAre ==
    ASSUME NEW t \in Seq(Seq(Text))
    PROVE  D!LeadRows(t) \in Seq(Seq(Text))
<1> DEFINE l == [k \in DOMAIN t |-> IF k > 1 /\ t[k][1] # <<>> THEN <<t[k]>> ELSE <<>>]
<1>1. D!LeadRows(t) = D!FlattenSeq(l)
  BY Zenon DEF D!LeadRows
<1>2. l \in Seq(Seq(Seq(Text)))
  <2>1. PICK n \in Nat : DOMAIN t = 1..n
    OBVIOUS
  <2>2. \A k \in 1..n : t[k] \in Seq(Text)
    BY <2>1
  <2>3. \A x \in Seq(Text) : <<x>> \in Seq(Seq(Text))
    OBVIOUS
  <2>4. <<>> \in Seq(Seq(Text))
    OBVIOUS
  <2>5. \A k \in 1..n : l[k] \in Seq(Seq(Text))
    BY <2>1, <2>2, <2>3, <2>4
  <2>6. l = [k \in 1..n |-> l[k]]
    BY <2>1
  <2>7. PICK tables : tables = Seq(Seq(Text))
    OBVIOUS
  <2> HIDE DEF l
  <2>8. l \in Seq(tables)
    BY <2>5, <2>6, <2>7
  <2>9. QED
    BY <2>7, <2>8
<1> HIDE DEF l
<1>3. QED
  BY <1>1, <1>2, SameRows, FlattenedIs
-----------------------------------------------------------------------------
Reporting == [created : Nat, skipped : Nat, errors : Nat]

Reported == report.created + report.skipped + report.errors

(* The rows that have to be reported. *)
RowsToReport(t) == IF Len(t) < 2 THEN 0 ELSE Len(D!LeadRows(t))

ReaderTyped ==
    /\ leadText \in Text /\ place \in Nat /\ 1 <= place /\ place <= Len(leadText) + 1
    /\ cell \in Text
    /\ line \in Seq(Text) /\ quoted \in BOOLEAN /\ table \in Seq(Seq(Text))

(* While rows are written, those that are left and those reported are all of them. *)
LeadInv ==
    /\ ReaderTyped
    /\ phase \in {"none", "reading", "writing", "done"}
    /\ manual \in Nat /\ report \in Reporting /\ unwritten \in Seq(Seq(Text))
    /\ phase = "none" => place = 1
    /\ phase \in {"none", "reading"} => report = D!Nothing
    /\ phase = "writing" => Reported + Len(unwritten) = RowsToReport(table)
    /\ phase = "done" /\ unwritten = <<>> => Reported = RowsToReport(table)

LEMMA CharsOf == ASSUME NEW t \in Text, NEW k \in 1..Len(t) PROVE t[k] \in D!Char
  BY DEF Text

LEMMA AppendsText ==
    /\ \A t \in Text, ch \in D!Char : Append(t, ch) \in Text
    /\ \A r \in Seq(Text), t \in Text : Append(r, t) \in Seq(Text)
    /\ \A l \in Seq(Seq(Text)), r \in Seq(Text) : Append(l, r) \in Seq(Seq(Text))
    /\ <<>> \in Text /\ <<>> \in Seq(Text) /\ <<>> \in Seq(Seq(Text))
  BY DEF Text

LEMMA RowEnds ==
    ASSUME ReaderTyped, NEW n \in Nat, place + n <= Len(leadText) + 1, D!EndsRow(n),
           UNCHANGED leadText
    PROVE  ReaderTyped'
<1>1. D!Trim(cell) \in Text
  BY TrimIsText DEF ReaderTyped
<1>2. Append(line, D!Trim(cell)) \in Seq(Text)
  BY <1>1, AppendsText DEF ReaderTyped
<1>3. table' \in Seq(Seq(Text)) /\ line' \in Seq(Text) /\ cell' \in Text
  BY <1>2, AppendsText DEF D!EndsRow, ReaderTyped
<1>4. place' = place + n /\ quoted' = quoted
  BY DEF D!EndsRow
<1>5. QED
  BY <1>3, <1>4 DEF ReaderTyped

LEMMA CharKept ==
    ASSUME ReaderTyped, NEW ch \in D!Char, NEW n \in Nat, place + n <= Len(leadText) + 1,
           D!Keep(ch, n), UNCHANGED leadText
    PROVE  ReaderTyped'
<1>1. cell' \in Text
  BY AppendsText DEF D!Keep, ReaderTyped
<1>2. QED
  BY <1>1 DEF D!Keep, ReaderTyped

LEMMA FileReads == ASSUME ReaderTyped, D!Read PROVE ReaderTyped'
<1>1. UNCHANGED leadText /\ place \in 1..Len(leadText) /\ Len(leadText) \in Nat
      /\ leadText[place] \in D!Char
  BY CharsOf DEF D!Read, ReaderTyped, Text
<1>2. \A k : D!Has(k, "quote") \/ D!Has(k, "newline") => k <= Len(leadText)
  BY DEF D!Has
<1>3. CASE D!InQuotes
  <2>1. CASE D!Doubled(place) /\ D!Keep("quote", 2)
    <3>1. place + 2 <= Len(leadText) + 1 /\ "quote" \in D!Char
      BY <1>1, <1>2, <2>1 DEF D!Doubled, D!Char
    <3>2. QED
      BY <1>1, <2>1, <3>1, CharKept
  <2>2. CASE quoted' = FALSE /\ place' = place + 1 /\ UNCHANGED <<cell, line, table>>
    <3>1. quoted' \in BOOLEAN
      BY Zenon, <2>2
    <3>2. place' = place + 1 /\ UNCHANGED <<cell, line, table>>
      BY Zenon, <2>2
    <3>3. QED
      BY <1>1, <3>1, <3>2 DEF ReaderTyped
  <2>3. CASE D!Keep(leadText[place], 1)
    BY <1>1, <2>3, CharKept
  <2>4. QED
    BY <1>3, <2>1, <2>2, <2>3 DEF D!InQuotes
<1>4. CASE D!OutsideQuotes
  <2>1. CASE quoted' = TRUE /\ place' = place + 1 /\ UNCHANGED <<cell, line, table>>
    <3>1. quoted' \in BOOLEAN
      BY Zenon, <2>1
    <3>2. place' = place + 1 /\ UNCHANGED <<cell, line, table>>
      BY Zenon, <2>1
    <3>3. QED
      BY <1>1, <3>1, <3>2 DEF ReaderTyped
  <2>2. CASE /\ line' = Append(line, D!Trim(cell)) /\ cell' = <<>> /\ place' = place + 1
             /\ UNCHANGED <<table, quoted>>
    <3>1. line' \in Seq(Text) /\ cell' \in Text
      BY <2>2, TrimIsText, AppendsText DEF ReaderTyped
    <3>2. QED
      BY <1>1, <2>2, <3>1 DEF ReaderTyped
  <2>3. CASE D!EndsRow(1)
    BY <1>1, <2>3, RowEnds
  <2>4. CASE D!Has(place + 1, "newline") /\ D!EndsRow(2)
    <3>1. place + 2 <= Len(leadText) + 1
      BY <1>1, <1>2, <2>4
    <3>2. QED
      BY <1>1, <2>4, <3>1, RowEnds
  <2>5. CASE D!Keep("letter", 1)
    BY <1>1, <2>5, CharKept DEF D!Char
  <2>6. QED
    BY <1>4, <2>1, <2>2, <2>3, <2>4, <2>5 DEF D!OutsideQuotes
<1>5. QED
  BY <1>3, <1>4 DEF D!Read

LEMMA CountsOne ==
    ASSUME report \in Reporting,
           D!Counted("created") \/ D!Counted("skipped") \/ D!Counted("errors")
    PROVE  report' \in Reporting /\ Reported' = Reported + 1
<1>1. PICK c, s, e : /\ c \in Nat /\ s \in Nat /\ e \in Nat
                    /\ report = [created |-> c, skipped |-> s, errors |-> e]
  BY DEF Reporting
<1>2. CASE D!Counted("created")
  <2>1. report' = [created |-> c + 1, skipped |-> s, errors |-> e]
    BY <1>1, <1>2 DEF D!Counted
  <2>2. QED
    BY <1>1, <2>1 DEF Reporting, Reported
<1>3. CASE D!Counted("skipped")
  <2>1. report' = [created |-> c, skipped |-> s + 1, errors |-> e]
    BY <1>1, <1>3, ZenonT(40) DEF D!Counted
  <2>2. QED
    BY <1>1, <2>1 DEF Reporting, Reported
<1>4. CASE D!Counted("errors")
  <2>1. report' = [created |-> c, skipped |-> s, errors |-> e + 1]
    BY <1>1, <1>4 DEF D!Counted
  <2>2. QED
    BY <1>1, <2>1 DEF Reporting, Reported
<1>5. QED
  BY <1>2, <1>3, <1>4

LEMMA NothingReported == ASSUME report = D!Nothing PROVE report \in Reporting /\ Reported = 0
  BY DEF D!Nothing, Reporting, Reported

LEMMA LeadsStep == ASSUME LeadInv, [D!Next]_D!vars PROVE LeadInv'
<1>1. ASSUME NEW company \in LeadCompany, NEW email \in LeadEmail, NEW copies \in 1..2,
             NEW always \in BOOLEAN, NEW ending \in D!Ending,
             D!Upload(company, email, copies, always, ending)
      PROVE  LeadInv'
  <2>1. leadText' \in Text
    BY <1>1, FileIsText DEF LeadInv
  <2>2. phase' = "reading" /\ phase = "none"
        /\ UNCHANGED <<place, cell, line, table, quoted, unwritten, manual, report>>
    BY <1>1 DEF D!Upload, D!reader
  <2>3. Len(leadText') \in Nat /\ place = 1
    BY <2>1, <2>2 DEF Text, LeadInv
  <2>4. ReaderTyped'
    BY <2>1, <2>2, <2>3 DEF LeadInv, ReaderTyped
  <2>5. QED
    BY <2>2, <2>4 DEF LeadInv
<1>2. CASE D!Read
  <2>1. ReaderTyped'
    BY <1>2, FileReads DEF LeadInv
  <2>2. QED
    BY <1>2, <2>1 DEF LeadInv, D!Read
<1>3. CASE D!EndOfFile
  <2>1. ReaderTyped'
    BY <1>3, RowEnds DEF LeadInv, ReaderTyped, D!EndOfFile, Text
  <2>2. table' \in Seq(Seq(Text)) /\ report' = report /\ manual' = manual /\ Reported = 0
    BY <1>3, <2>1, NothingReported DEF LeadInv, ReaderTyped, D!EndOfFile
  <2>3. unwritten' = IF Len(table') < 2 THEN <<>> ELSE D!LeadRows(table')
    BY <1>3 DEF D!EndOfFile
  <2>4. unwritten' \in Seq(Seq(Text)) /\ Len(unwritten') = RowsToReport(table')
    BY <2>2, <2>3, LeadRowsAre, AppendsText DEF RowsToReport
  <2>5. /\ phase' = IF Len(unwritten') > MaxLeads THEN "done" ELSE "writing"
        /\ MaxLeads \in Nat
    BY <1>3, LeadsAssumption DEF D!EndOfFile
  <2>6. Len(unwritten') > MaxLeads => unwritten' # <<>>
    BY <2>4, <2>5
  <2>7. Reported' = 0 /\ report' \in Reporting
    BY <2>2 DEF LeadInv, Reported
  <2>8. QED
    BY <2>1, <2>2, <2>4, <2>5, <2>6, <2>7 DEF LeadInv
<1>4. CASE D!WriteRow
  <2>1. D!Counted("created") \/ D!Counted("skipped") \/ D!Counted("errors")
    BY <1>4 DEF D!WriteRow
  <2>2. report' \in Reporting /\ Reported' = Reported + 1 /\ Reported \in Nat
    BY <2>1, CountsOne DEF LeadInv, Reported, Reporting
  <2>3. /\ phase = "writing" /\ phase' = "writing"
        /\ unwritten # <<>> /\ unwritten' = Tail(unwritten) /\ manual' \in Nat
        /\ UNCHANGED <<leadText, place, cell, line, table, quoted>>
    BY <1>4 DEF D!WriteRow, D!reader, LeadInv
  <2>4. unwritten' \in Seq(Seq(Text)) /\ Len(unwritten') = Len(unwritten) - 1
    BY <2>3 DEF LeadInv
  <2>5. Reported' + Len(unwritten') = RowsToReport(table')
    BY <2>2, <2>3, <2>4 DEF LeadInv
  <2>6. ReaderTyped'
    BY <2>3 DEF LeadInv, ReaderTyped
  <2>7. QED
    BY <2>2, <2>3, <2>4, <2>5, <2>6 DEF LeadInv
<1>5. CASE D!Answer
  BY <1>5 DEF D!Answer, D!reader, LeadInv, ReaderTyped, Reported, Reporting
<1>6. CASE D!Repeat
  <2>1. ReaderTyped' /\ phase' = "reading" /\ report' = D!Nothing /\ manual' = manual
        /\ unwritten' = <<>>
    <3>1. quoted' \in BOOLEAN
      BY Zenon, <1>6 DEF D!Repeat
    <3>2. /\ place' = 1 /\ cell' = <<>> /\ line' = <<>> /\ table' = <<>>
          /\ leadText' = leadText /\ Len(leadText) \in Nat
      BY <1>6 DEF D!Repeat, LeadInv, ReaderTyped, Text
    <3>3. ReaderTyped'
      BY <3>1, <3>2, AppendsText DEF LeadInv, ReaderTyped
    <3>4. QED
      BY <1>6, <3>3 DEF D!Repeat
  <2>2. report' \in Reporting
    BY <2>1, NothingReported DEF D!Nothing, Reporting
  <2>3. QED
    BY <2>1, <2>2, AppendsText DEF LeadInv
<1>7. CASE UNCHANGED D!vars
  BY <1>7 DEF D!vars, LeadInv, ReaderTyped, Reported
<1>8. QED
  BY <1>1, <1>2, <1>3, <1>4, <1>5, <1>6, <1>7 DEF D!Next

LEMMA LeadsHold == D!Spec => [](D!TypeOK /\ D!EveryRowReported)
<1>1. D!Init => LeadInv
  <2> SUFFICES ASSUME D!Init PROVE LeadInv
    OBVIOUS
  <2>1. quoted \in BOOLEAN
    BY Zenon DEF D!Init
  <2>2. /\ leadText = <<>> /\ place = 1 /\ cell = <<>> /\ line = <<>> /\ table = <<>>
        /\ phase = "none" /\ unwritten = <<>> /\ manual = 0 /\ report = D!Nothing
    BY DEF D!Init
  <2>3. report \in Reporting /\ Len(leadText) = 0
    BY <2>2, NothingReported
  <2>4. QED
    BY <2>1, <2>2, <2>3, AppendsText DEF LeadInv, ReaderTyped
<1>2. LeadInv => D!TypeOK
  BY DEF LeadInv, ReaderTyped, D!TypeOK, Text, Reporting
<1>3. LeadInv => D!EveryRowReported
  BY DEF LeadInv, D!EveryRowReported, Reported, RowsToReport
<1>4. QED
  BY <1>1, <1>2, <1>3, LeadsStep, PTL DEF D!Spec
-----------------------------------------------------------------------------
(* What a text added to another holds. *)
LEMMA Concats ==
    ASSUME NEW Of, NEW u \in Seq(Of), NEW w \in Seq(Of), NEW v, v = u \o w
    PROVE  /\ Len(u) \in Nat /\ Len(w) \in Nat /\ Len(v) = Len(u) + Len(w)
           /\ \A q \in 1..Len(u) : v[q] = u[q]
           /\ \A q \in 1..Len(w) : v[Len(u) + q] = w[q]
  OBVIOUS

(* The text t has s from a on. *)
Has(t, a, s) ==
    /\ a \in Nat \ {0} /\ a + Len(s) <= Len(t) + 1
    /\ \A q \in 1..Len(s) : t[a + q - 1] = s[q]

(* Where the pieces of a joined text stand: the next one at o[k] when there were k. *)
Lie(o, l, n, t) ==
    /\ o[0] = 1 /\ o[n] = Len(t) + 1
    /\ \A k \in 1..n : /\ k - 1 \in 0..n /\ o[k] = o[k - 1] + Len(l[k])
                       /\ Has(t, o[k - 1], l[k])

(* So every piece has its place. *)
LEMMA PiecesLie ==
    ASSUME NEW Of, NEW l \in Seq(Seq(Of)), NEW n \in Nat, n = Len(l), NEW t, t = D!FlattenSeq(l)
    PROVE  \E o : Lie(o, l, n, t)
<1>1. PICK f : /\ Prefixes(f, l, n) /\ D!FlattenSeq(l) = f[n]
               /\ \A k \in 0..n : f[k] \in Seq(Of)
  BY FlattenPrefixes, SameRows, Zenon
<1>2. f[0] = <<>> /\ \A k \in 1..n : k - 1 \in 0..n /\ f[k] = f[k - 1] \o l[k]
  BY <1>1 DEF Prefixes
<1>3. PICK o : o = [k \in 0..n |-> Len(f[k]) + 1]
  OBVIOUS
<1>0. \A k \in 1..n : l[k] \in Seq(Of)
  <2>1. PICK seqs : seqs = Seq(Of)
    OBVIOUS
  <2>2. l \in Seq(seqs)
    BY <2>1
  <2>3. QED
    BY <2>1, <2>2
<1>4. \A k \in 0..n : o[k] = Len(f[k]) + 1 /\ Len(f[k]) \in Nat
  BY <1>1, <1>3
<1>5. \A k \in 1..n : Len(l[k]) \in Nat /\ Len(f[k]) = Len(f[k - 1]) + Len(l[k])
  <2> SUFFICES ASSUME NEW k \in 1..n
               PROVE  Len(l[k]) \in Nat /\ Len(f[k]) = Len(f[k - 1]) + Len(l[k])
    OBVIOUS
  <2>1. PICK u \in Seq(Of), w \in Seq(Of) : u = f[k - 1] /\ w = l[k] /\ f[k] = u \o w
    BY <1>1, <1>2, <1>0, Zenon
  <2>2. QED
    BY <2>1
<1>6. \A k \in 1..n : \A q \in 1..Len(l[k]) : f[k][Len(f[k - 1]) + q] = l[k][q]
  <2> SUFFICES ASSUME NEW k \in 1..n, NEW q \in 1..Len(l[k])
               PROVE  f[k][Len(f[k - 1]) + q] = l[k][q]
    OBVIOUS
  <2>1. PICK u \in Seq(Of), w \in Seq(Of) : u = f[k - 1] /\ w = l[k] /\ f[k] = u \o w
    BY <1>1, <1>2, <1>0, Zenon
  <2>2. PICK v : v = u \o w
    OBVIOUS
  <2>3. \A i \in 1..Len(w) : v[Len(u) + i] = w[i]
    BY <2>2, Concats
  <2>4. QED
    BY <2>1, <2>2, <2>3, Zenon
(* What is joined stays where it is. *)
<1> DEFINE Stays(k) == \A m \in 0..k : /\ Len(f[m]) <= Len(f[k])
                                       /\ \A q \in 1..Len(f[m]) : f[k][q] = f[m][q]
<1> DEFINE Bad == {k \in 0..n : ~ Stays(k)}
<1>7. ASSUME Bad # {} PROVE FALSE
  <2>1. Bad \in SUBSET Nat
    OBVIOUS
  <2>2. PICK k \in Bad : \A q \in Bad : k <= q
    BY <1>7, <2>1, Least
  <2>3. k \in 0..n /\ ~ Stays(k)
    OBVIOUS
  <2>4. k # 0
    <3>1. SUFFICES ASSUME k = 0 PROVE FALSE
      OBVIOUS
    <3>2. \A m \in 0..k : m = k
      BY <3>1
    <3>3. Len(f[k]) <= Len(f[k])
      BY <1>4, <2>3
    <3>4. QED
      BY <2>3, <3>2, <3>3
  <2>5. k \in 1..n /\ k - 1 \in 0..n /\ ~ (k <= k - 1)
    BY <2>3, <2>4
  <2>6. Stays(k - 1)
    BY <2>2, <2>5
  <2>7. PICK u \in Seq(Of), w \in Seq(Of) : u = f[k - 1] /\ w = l[k] /\ f[k] = u \o w
    BY <1>1, <1>2, <1>0, <2>5, Zenon
  <2>8. Len(u) <= Len(f[k]) /\ \A q \in 1..Len(u) : f[k][q] = u[q]
    <3>1. PICK v : v = u \o w
      OBVIOUS
    <3>2. Len(u) <= Len(v) /\ \A q \in 1..Len(u) : v[q] = u[q]
      BY <3>1, Concats
    <3>3. QED
      BY <2>7, <3>1, <3>2, Zenon
  <2>9. ASSUME NEW m \in 0..k
        PROVE  Len(f[m]) <= Len(f[k]) /\ \A q \in 1..Len(f[m]) : f[k][q] = f[m][q]
    <3>1. CASE m = k
      BY <1>4, <2>3, <3>1
    <3>2. CASE m \in 0..k - 1
      <4>1. Len(f[m]) <= Len(u) /\ \A q \in 1..Len(f[m]) : u[q] = f[m][q]
        BY <2>6, <2>7, <3>2
      <4>2. Len(f[m]) \in Nat /\ Len(u) \in Nat /\ Len(f[k]) \in Nat
        <5>1. m \in 0..n
          BY <2>3, <3>2
        <5>2. Len(f[m]) \in Nat /\ Len(f[k]) \in Nat
          BY <1>4, <2>3, <5>1
        <5>3. QED
          BY <5>2
      <4> HIDE DEF Stays, Bad
      <4>3. Len(f[m]) <= Len(f[k])
        BY <2>8, <4>1, <4>2
      <4>4. \A q \in 1..Len(f[m]) : q \in 1..Len(u)
        BY <4>1, <4>2
      <4>5. QED
        BY <2>8, <4>1, <4>3, <4>4
    <3>3. QED
      BY <3>1, <3>2
  <2>10. QED
    BY <2>3, <2>9
<1> HIDE DEF Bad
<1>8. Stays(n)
  BY <1>7 DEF Bad
<1>9. ASSUME NEW k \in 1..n
      PROVE  /\ k - 1 \in 0..n /\ o[k] = o[k - 1] + Len(l[k])
             /\ Has(t, o[k - 1], l[k])
  <2>1. k \in 0..n /\ k - 1 \in 0..n
    OBVIOUS
  <2>2. PICK a, b, c \in Nat : a = Len(f[k - 1]) /\ b = Len(l[k]) /\ c = Len(t)
    <3>1. Len(t) \in Nat
      BY <1>1, <1>4
    <3>2. QED
      BY <1>4, <1>5, <2>1, <3>1
  <2>3. o[k] = a + b + 1 /\ o[k - 1] = a + 1 /\ Len(f[k]) = a + b
    BY <1>4, <1>5, <2>1, <2>2
  <2>4. a + b <= c /\ \A q \in 1..a + b : t[q] = f[k][q]
    BY <1>1, <1>8, <2>1, <2>2, <2>3
  <2>5. \A q \in 1..b : t[(a + 1) + q - 1] = l[k][q]
    <3>1. \A q \in 1..b : a + q \in 1..a + b /\ (a + 1) + q - 1 = a + q
      OBVIOUS
    <3>2. \A q \in 1..b : f[k][a + q] = l[k][q]
      BY ONLY <1>6, <2>2, Zenon
    <3>3. \A q \in 1..b : t[a + q] = f[k][a + q]
      BY ONLY <2>4, <3>1, Zenon
    <3>4. QED
      BY ONLY <3>1, <3>2, <3>3, Zenon
  <2>6. Has(t, a + 1, l[k])
    <3>1. a + 1 \in Nat \ {0} /\ (a + 1) + b <= c + 1
      BY <2>4
    <3>2. QED
      BY <2>2, <2>5, <3>1, Zenon DEF Has
  <2>7. QED
    <3>1. o[k] = o[k - 1] + b
      BY <2>3
    <3>2. QED
      BY <2>1, <2>2, <2>3, <2>6, <3>1, Zenon
<1>10. o[0] = 1 /\ o[n] = Len(t) + 1
  BY <1>1, <1>2, <1>4
<1>11. QED
  BY <1>9, <1>10, Zenon DEF Lie

-----------------------------------------------------------------------------
(* How a cell lies in the text: as it is, or with quotes around it, where e[q] is the place
   after its first q characters. *)
Plain(t, c, a, b) == ~ D!Special(c) /\ Has(t, a, c) /\ b = a + Len(c)

Quoted(t, c, a, b, e) ==
    /\ a \in Nat \ {0} /\ t[a] = "quote"
    /\ e[0] = a + 1 /\ b = e[Len(c)] + 1 /\ t[e[Len(c)]] = "quote"
    /\ \A q \in 0..Len(c) : e[q] \in Nat /\ e[q] <= Len(t)
    /\ \A q \in 1..Len(c) :
          /\ q - 1 \in 0..Len(c) /\ t[e[q - 1]] = c[q]
          /\ c[q] # "quote" => e[q] = e[q - 1] + 1
          /\ c[q] = "quote" => e[q] = e[q - 1] + 2 /\ t[e[q - 1] + 1] = "quote"

Laid(t, c, a, b) == Plain(t, c, a, b) \/ \E e : Quoted(t, c, a, b, e)

(* A cell lies where it was written. *)
LEMMA WrittenLies ==
    ASSUME NEW t \in Text, NEW c \in Text, NEW always \in BOOLEAN,
           NEW a, Has(t, a, D!Written(c, always))
    PROVE  Laid(t, c, a, a + Len(D!Written(c, always)))
<1> DEFINE l == [k \in DOMAIN c |-> IF c[k] = "quote" THEN <<"quote", "quote">> ELSE <<c[k]>>]
<1>1. PICK n \in Nat : n = Len(c) /\ DOMAIN c = 1..n
  BY DEF Text
<1>2. D!Written(c, always) = IF ~ always /\ ~ D!Special(c) THEN c
                            ELSE <<"quote">> \o D!FlattenSeq(l) \o <<"quote">>
  BY Zenon DEF D!Written
<1>3. CASE ~ always /\ ~ D!Special(c)
  <2>1. D!Written(c, always) = c
    BY <1>2, <1>3, Zenon
  <2>2. Plain(t, c, a, a + Len(c))
    BY <1>3, <2>1, Zenon DEF Plain
  <2>3. QED
    BY <2>1, <2>2, Zenon DEF Laid
<1>4. CASE ~ (~ always /\ ~ D!Special(c))
  <2>1. PICK w, f : w = D!Written(c, always) /\ f = D!FlattenSeq(l)
    OBVIOUS
  <2>2. w = <<"quote">> \o f \o <<"quote">>
    BY <1>2, <1>4, <2>1, Zenon
  <2>3. l \in Seq(Text) /\ Len(l) = n
    <3>1. \A k \in 1..n : c[k] \in D!Char
      BY <1>1 DEF Text
    <3>2. <<"quote", "quote">> \in Text /\ \A x \in D!Char : <<x>> \in Text
      BY DEF Text, D!Char
    <3>3. \A k \in 1..n : l[k] \in Text
      BY <1>1, <3>1, <3>2
    <3>4. l = [k \in 1..n |-> l[k]]
      BY <1>1
    <3> HIDE DEF l
    <3>5. QED
      BY <3>3, <3>4
  <2>4. \A k \in 1..n : l[k] = IF c[k] = "quote" THEN <<"quote", "quote">> ELSE <<c[k]>>
    BY <1>1
  <2> HIDE DEF l
  <2>5. f \in Text
    BY <2>1, <2>3, SameRows, FlattenedIs DEF Text
  <2>6. PICK o : /\ o[0] = 1 /\ o[n] = Len(f) + 1
                 /\ \A k \in 1..n : /\ k - 1 \in 0..n /\ o[k] = o[k - 1] + Len(l[k])
                                    /\ Has(f, o[k - 1], l[k])
    <3>1. l \in Seq(Seq(D!Char)) /\ n = Len(l)
      BY <2>3 DEF Text
    <3>2. \E o : Lie(o, l, n, f)
      BY <2>1, <3>1, PiecesLie
    <3>3. QED
      BY <3>2, Zenon DEF Lie
  <2>7. PICK m \in Nat : m = Len(f)
    BY <2>5 DEF Text
  <2>8. /\ Len(w) = m + 2 /\ w[1] = "quote" /\ w[m + 2] = "quote"
        /\ \A q \in 1..m : w[q + 1] = f[q]
    <3>1. PICK u \in Text : u = <<"quote">> /\ Len(u) = 1 /\ u[1] = "quote"
      <4>1. \A x \in D!Char : <<x>> \in Text /\ Len(<<x>>) = 1 /\ <<x>>[1] = x
        BY DEF Text
      <4>2. "quote" \in D!Char
        BY DEF D!Char
      <4>3. QED
        BY <4>1, <4>2, Zenon
    <3>2. PICK v \in Text : v = u \o f
      <4>1. u \o f \in Text
        BY <2>5 DEF Text
      <4>2. QED
        BY <4>1
    <3>3. Len(v) = m + 1 /\ v[1] = "quote" /\ \A q \in 1..m : v[q + 1] = f[q]
      BY <2>5, <2>7, <3>1, <3>2 DEF Text
    <3>4. w = v \o u
      BY <2>2, <3>1, <3>2, Zenon
    <3>5. QED
      BY <2>7, <3>1, <3>3, <3>4 DEF Text
  <2>9. /\ a \in Nat \ {0} /\ a + m + 2 <= Len(t) + 1
        /\ \A q \in 1..m + 2 : t[a + q - 1] = w[q]
    BY <2>1, <2>8 DEF Has
  <2>10. \A k \in 1..n : /\ o[k - 1] \in Nat \ {0} /\ o[k - 1] + Len(l[k]) <= m + 1
                         /\ \A q \in 1..Len(l[k]) : f[o[k - 1] + q - 1] = l[k][q]
    BY <2>6, <2>7 DEF Has
  <2>11. \A k \in 0..n : o[k] \in Nat \ {0} /\ o[k] <= m + 1
    <3> SUFFICES ASSUME NEW k \in 0..n PROVE o[k] \in Nat \ {0} /\ o[k] <= m + 1
      OBVIOUS
    <3>1. CASE k = n
      BY <2>6, <2>7, <3>1
    <3>2. CASE k + 1 \in 1..n
      <4>1. PICK j \in 1..n : j = k + 1 /\ j - 1 = k
        BY <3>2
      <4>2. Len(l[j]) \in Nat
        BY <2>3 DEF Text
      <4>3. o[k] \in Nat \ {0} /\ o[k] + Len(l[j]) <= m + 1
        BY <2>10, <4>1
      <4>4. QED
        BY <4>2, <4>3
    <3>3. QED
      BY <3>1, <3>2
  <2>12. PICK e : e = [q \in 0..n |-> a + o[q]]
    OBVIOUS
  <2>13. \A q \in 0..n : e[q] = a + o[q]
    BY <2>12
  <2>14. ASSUME NEW q \in 1..n
         PROVE  /\ q - 1 \in 0..n /\ t[e[q - 1]] = c[q]
                /\ c[q] # "quote" => e[q] = e[q - 1] + 1
                /\ c[q] = "quote" => e[q] = e[q - 1] + 2 /\ t[e[q - 1] + 1] = "quote"
    <3>1. q \in 0..n /\ q - 1 \in 0..n
      OBVIOUS
    <3>2. PICK i \in Nat \ {0} : i = o[q - 1] /\ e[q - 1] = a + i
      BY <2>11, <2>13, <3>1
    <3>3. e[q] = a + o[q] /\ o[q] = i + Len(l[q])
      BY <2>6, <2>13, <3>1, <3>2
    <3>4. i + Len(l[q]) <= m + 1 /\ \A r \in 1..Len(l[q]) : f[i + r - 1] = l[q][r]
      BY <2>10, <3>2
    <3>5. \A r \in 1..m : t[a + r] = f[r]
      <4>1. \A r \in 1..m : r + 1 \in 1..m + 2 /\ a + (r + 1) - 1 = a + r
        BY <2>9
      <4>2. QED
        BY <2>8, <2>9, <4>1
    <3>6. CASE c[q] = "quote"
      <4>1. l[q] = <<"quote", "quote">>
        BY <2>4, <3>6
      <4>2. i + 2 <= m + 1 /\ f[i] = "quote" /\ f[i + 1] = "quote"
        BY <3>4, <4>1
      <4>3. t[a + i] = "quote" /\ t[a + (i + 1)] = "quote"
        BY <3>5, <4>2
      <4>4. e[q] = e[q - 1] + 2 /\ e[q - 1] + 1 = a + (i + 1)
        BY <2>9, <3>2, <3>3, <4>1, SMTT(30)
      <4>5. QED
        BY <3>1, <3>2, <3>6, <4>3, <4>4
    <3>7. CASE c[q] # "quote"
      <4>1. l[q] = <<c[q]>>
        BY <2>4, <3>7
      <4>2. i + 1 <= m + 1 /\ f[i] = c[q]
        BY <3>4, <4>1
      <4>3. t[a + i] = c[q]
        BY <3>5, <4>2
      <4>4. e[q] = e[q - 1] + 1
        BY <2>9, <3>2, <3>3, <4>1
      <4>5. QED
        BY <3>1, <3>2, <3>7, <4>3, <4>4
    <3>8. QED
      BY <3>6, <3>7
  <2>15. \A q \in 0..n : e[q] \in Nat /\ e[q] <= Len(t)
    <3>1. Len(t) \in Nat
      BY DEF Text
    <3>2. a \in Nat \ {0} /\ a + m + 2 <= Len(t) + 1
      BY <2>9
    <3>3. ASSUME NEW q \in 0..n PROVE e[q] \in Nat /\ e[q] <= Len(t)
      <4>1. PICK x \in Nat \ {0} : x = o[q] /\ x <= m + 1
        BY ONLY <2>11, <3>3, Zenon
      <4>2. e[q] = a + x
        BY ONLY <2>13, <3>3, <4>1, Zenon
      <4>3. QED
        BY ONLY n \in Nat, m \in Nat, <3>1, <3>2, <4>1, <4>2, SMTT(30)
    <3>4. QED
      BY ONLY <3>3, Zenon
  <2>16. /\ t[a] = "quote" /\ e[0] = a + 1 /\ a + Len(w) = e[n] + 1 /\ t[e[n]] = "quote"
    <3>1. 0 \in 0..n /\ n \in 0..n /\ 1 \in 1..m + 2 /\ m + 2 \in 1..m + 2
      OBVIOUS
    <3>2. e[0] = a + 1 /\ e[n] = a + (m + 1)
      BY <2>6, <2>7, <2>13, <3>1
    <3>3. t[a + 1 - 1] = "quote" /\ t[a + (m + 2) - 1] = "quote"
      BY <2>8, <2>9, <3>1
    <3>4. a + 1 - 1 = a /\ a + (m + 2) - 1 = a + (m + 1)
      BY <2>9
    <3>5. QED
      BY <2>8, <2>9, <3>2, <3>3, <3>4
  <2>17. Quoted(t, c, a, a + Len(w), e)
    BY <1>1, <2>9, <2>14, <2>15, <2>16, Zenon DEF Quoted
  <2>18. QED
    BY <2>1, <2>17, Zenon DEF Laid
<1>5. QED
  BY <1>3, <1>4, Zenon

-----------------------------------------------------------------------------
(* What the reader does with a character. *)
LEMMA KeepsLetter ==
    ASSUME D!Read, ~ quoted, leadText[place] = "letter"
    PROVE  /\ cell' = Append(cell, "letter") /\ place' = place + 1
           /\ UNCHANGED <<line, table, quoted>>
<1>1. ~ D!InQuotes
  BY Zenon DEF D!InQuotes
<1>2. D!OutsideQuotes
  BY <1>1, Zenon DEF D!Read
<1>3. D!Keep("letter", 1)
  BY <1>2 DEF D!OutsideQuotes
<1>4. QED
  BY <1>3, Zenon DEF D!Keep

LEMMA OpensQuotes ==
    ASSUME D!Read, ~ quoted, leadText[place] = "quote"
    PROVE  quoted' /\ place' = place + 1 /\ UNCHANGED <<cell, line, table>>
<1>1. ~ D!InQuotes
  BY Zenon DEF D!InQuotes
<1>2. D!OutsideQuotes
  BY <1>1, Zenon DEF D!Read
<1>3. quoted' = TRUE /\ place' = place + 1 /\ UNCHANGED <<cell, line, table>>
  BY <1>2 DEF D!OutsideQuotes
<1>4. QED
  BY <1>3, Zenon

LEMMA EndsCell ==
    ASSUME D!Read, ~ quoted, leadText[place] = "comma"
    PROVE  /\ line' = Append(line, D!Trim(cell)) /\ cell' = <<>> /\ place' = place + 1
           /\ UNCHANGED <<table, quoted>>
<1>1. ~ D!InQuotes
  BY Zenon DEF D!InQuotes
<1>2. D!OutsideQuotes
  BY <1>1, Zenon DEF D!Read
<1>3. QED
  BY <1>2 DEF D!OutsideQuotes

LEMMA EndsLine ==
    ASSUME D!Read, ~ quoted, leadText[place] \in {"newline", "return"}
    PROVE  \/ leadText[place] = "newline" /\ D!EndsRow(1)
           \/ /\ leadText[place] = "return"
              /\ D!EndsRow(IF D!Has(place + 1, "newline") THEN 2 ELSE 1)
<1>1. ~ D!InQuotes
  BY Zenon DEF D!InQuotes
<1>2. D!OutsideQuotes
  BY <1>1, Zenon DEF D!Read
<1>3. QED
  BY <1>2 DEF D!OutsideQuotes

LEMMA KeepsInQuotes ==
    ASSUME D!Read, quoted, leadText[place] # "quote"
    PROVE  /\ cell' = Append(cell, leadText[place]) /\ place' = place + 1
           /\ UNCHANGED <<line, table, quoted>>
<1>1. ~ D!OutsideQuotes
  BY Zenon DEF D!OutsideQuotes
<1>2. D!InQuotes
  BY <1>1, Zenon DEF D!Read
<1>3. D!Keep(leadText[place], 1)
  BY <1>2 DEF D!InQuotes, D!Has
<1>4. QED
  BY <1>3, Zenon DEF D!Keep

LEMMA KeepsQuote ==
    ASSUME D!Read, quoted, leadText[place] = "quote", D!Has(place + 1, "quote")
    PROVE  /\ cell' = Append(cell, "quote") /\ place' = place + 2
           /\ UNCHANGED <<line, table, quoted>>
<1>1. ~ D!OutsideQuotes
  BY Zenon DEF D!OutsideQuotes
<1>2. D!InQuotes
  BY <1>1, Zenon DEF D!Read
<1>3. D!Keep("quote", 2)
  BY <1>2 DEF D!InQuotes, D!Doubled
<1>4. QED
  BY <1>3, Zenon DEF D!Keep

LEMMA ClosesQuotes ==
    ASSUME D!Read, quoted, leadText[place] = "quote", ~ D!Has(place + 1, "quote")
    PROVE  ~ quoted' /\ place' = place + 1 /\ UNCHANGED <<cell, line, table>>
<1>1. ~ D!OutsideQuotes
  BY Zenon DEF D!OutsideQuotes
<1>2. D!InQuotes
  BY <1>1, Zenon DEF D!Read
<1>3. quoted' = FALSE /\ place' = place + 1 /\ UNCHANGED <<cell, line, table>>
  BY <1>2 DEF D!InQuotes, D!Doubled
<1>4. QED
  BY <1>3, Zenon

(* The first p characters. *)
Start(c, p) == SubSeq(c, 1, p)

LEMMA Starts ==
    ASSUME NEW c \in Text, NEW n \in Nat, n = Len(c)
    PROVE  /\ Start(c, 0) = <<>> /\ Start(c, n) = c
           /\ \A p \in 0..n - 1 : Append(Start(c, p), c[p + 1]) = Start(c, p + 1)
<1>1. Start(c, 0) = <<>> /\ Start(c, n) = c
  BY DEF Start, Text
<1>2. ASSUME NEW p \in 0..n - 1
      PROVE  Append(Start(c, p), c[p + 1]) = Start(c, p + 1)
  <2>1. PICK u, v : u = Append(Start(c, p), c[p + 1]) /\ v = Start(c, p + 1)
    OBVIOUS
  <2>2. /\ u \in Text /\ v \in Text /\ Len(u) = p + 1 /\ Len(v) = p + 1
        /\ \A k \in 1..p + 1 : u[k] = c[k] /\ v[k] = c[k]
    BY <2>1 DEF Start, Text
  <2>3. u = v
    BY <2>2 DEF Text
  <2>4. QED
    BY <2>1, <2>3
<1>3. QED
  BY <1>1, <1>2

(* The reader, quoted or not, at i, with s of the cell, is behind it, or somewhere in it. *)
CellRead(c, b, q, i, s) == ~ q /\ i = b /\ s = c

Within(t, c, a, b, q, i, s) ==
    \/ CellRead(c, b, q, i, s)
    \/ /\ ~ q /\ Plain(t, c, a, b)
       /\ \E p \in 0..Len(c) - 1 : i = a + p /\ s = Start(c, p)
    \/ ~ q /\ i = a /\ s = <<>> /\ \E e : Quoted(t, c, a, b, e)
    \/ q /\ \E e : Quoted(t, c, a, b, e) /\ \E p \in 0..Len(c) : i = e[p] /\ s = Start(c, p)

(* Where a cell begins, nothing of it is read. *)
LEMMA CellBegins ==
    ASSUME NEW t \in Text, NEW c \in Text, NEW a, NEW b, Laid(t, c, a, b), NEW q, ~ q
    PROVE  Within(t, c, a, b, q, a, <<>>)
<1>1. PICK n \in Nat : n = Len(c)
  BY DEF Text
<1>2. CASE Plain(t, c, a, b)
  <2>1. a \in Nat /\ b = a + n
    BY <1>1, <1>2 DEF Plain, Has
  <2>2. CASE n = 0
    <3>1. b = a /\ c = <<>>
      <4>1. c = <<>>
        BY <1>1, <2>2, Starts, ZenonT(40)
      <4>2. QED
        BY <2>1, <2>2, <4>1
    <3>2. QED
      BY <3>1, Zenon DEF Within, CellRead
  <2>3. CASE n # 0
    <3>1. 0 \in 0..n - 1 /\ a = a + 0
      BY <2>1, <2>3
    <3>2. Start(c, 0) = <<>>
      BY <1>1, Starts
    <3>3. QED
      BY <1>1, <1>2, <3>1, <3>2, Zenon DEF Within
  <2>4. QED
    BY <2>2, <2>3
<1>3. CASE \E e : Quoted(t, c, a, b, e)
  BY <1>3, Zenon DEF Within
<1>4. QED
  BY <1>2, <1>3, Zenon DEF Laid

(* A turn of the loop in a cell stays in the cell. *)
LEMMA CellMoves ==
    ASSUME leadText \in Text, NEW c \in Text, NEW a, NEW b,
           Within(leadText, c, a, b, quoted, place, cell), ~ CellRead(c, b, quoted, place, cell),
           leadText[b] # "quote", D!Read
    PROVE  UNCHANGED <<line, table>> /\ Within(leadText, c, a, b, quoted', place', cell')
<1>1. PICK n \in Nat : n = Len(c) /\ DOMAIN c = 1..n
  BY DEF Text
<1>2. /\ Start(c, 0) = <<>> /\ Start(c, n) = c
      /\ \A p \in 0..n - 1 : Append(Start(c, p), c[p + 1]) = Start(c, p + 1)
  BY <1>1, Starts
<1>3. ASSUME ~ quoted, Plain(leadText, c, a, b),
             NEW p \in 0..n - 1, place = a + p, cell = Start(c, p)
      PROVE  UNCHANGED <<line, table>> /\ Within(leadText, c, a, b, quoted', place', cell')
  <2>1. p + 1 \in 1..n /\ p + 1 \in 0..n
    OBVIOUS
  <2>2. c[p + 1] = "letter"
    <3>1. c[p + 1] \notin {"comma", "quote", "newline", "return"}
      BY <1>1, <1>3, <2>1, Zenon DEF Plain, D!Special
    <3>2. c[p + 1] \in D!Char
      BY <1>1, <2>1, CharsOf
    <3>3. QED
      BY <3>1, <3>2 DEF D!Char
  <2>3. a \in Nat /\ leadText[place] = c[p + 1] /\ b = a + n
    <3>1. /\ a \in Nat \ {0} /\ b = a + n
          /\ \A q \in 1..n : leadText[a + q - 1] = c[q]
      BY <1>1, <1>3, Zenon DEF Plain, Has
    <3>2. a + (p + 1) - 1 = place
      BY <1>3, <3>1
    <3>3. QED
      BY <2>1, <3>1, <3>2
  <2>4. /\ cell' = Append(cell, "letter") /\ place' = place + 1
        /\ UNCHANGED <<line, table, quoted>>
    BY <1>3, <2>2, <2>3, KeepsLetter, Zenon
  <2>5. cell' = Start(c, p + 1) /\ place' = a + (p + 1)
    BY <1>2, <1>3, <2>2, <2>3, <2>4
  <2>6. CASE p + 1 = n
    <3>1. cell' = c /\ place' = b /\ ~ quoted'
      BY <1>2, <1>3, <2>3, <2>4, <2>5, <2>6, Zenon
    <3>2. QED
      BY <2>4, <3>1, Zenon DEF Within, CellRead
  <2>7. CASE p + 1 # n
    <3>1. p + 1 \in 0..n - 1
      BY <2>7
    <3>2. QED
      BY <1>1, <1>3, <2>4, <2>5, <3>1, Zenon DEF Within
  <2>8. QED
    BY <2>6, <2>7
<1>4. ASSUME NEW e, Quoted(leadText, c, a, b, e)
      PROVE  /\ a \in Nat \ {0} /\ leadText[a] = "quote"
             /\ e[0] = a + 1 /\ b = e[n] + 1 /\ leadText[e[n]] = "quote"
             /\ \A q \in 0..n : e[q] \in Nat /\ e[q] <= Len(leadText)
             /\ \A q \in 1..n :
                   /\ q - 1 \in 0..n /\ leadText[e[q - 1]] = c[q]
                   /\ c[q] # "quote" => e[q] = e[q - 1] + 1
                   /\ c[q] = "quote" => e[q] = e[q - 1] + 2 /\ leadText[e[q - 1] + 1] = "quote"
  BY <1>1, <1>4, Zenon DEF Quoted
<1>5. ASSUME ~ quoted, place = a, cell = <<>>, NEW e, Quoted(leadText, c, a, b, e)
      PROVE  UNCHANGED <<line, table>> /\ Within(leadText, c, a, b, quoted', place', cell')
  <2>1. leadText[place] = "quote" /\ e[0] = a + 1
    BY <1>4, <1>5
  <2>2. quoted' /\ place' = place + 1 /\ UNCHANGED <<cell, line, table>>
    BY <1>5, <2>1, OpensQuotes, Zenon
  <2>3. place' = e[0] /\ cell' = Start(c, 0)
    BY <1>2, <1>5, <2>1, <2>2, Zenon
  <2>4. 0 \in 0..Len(c)
    BY <1>1
  <2>5. QED
    BY <1>5, <2>2, <2>3, <2>4, Zenon DEF Within
<1>6. ASSUME quoted, NEW e, Quoted(leadText, c, a, b, e),
             NEW p \in 0..n, place = e[p], cell = Start(c, p)
      PROVE  UNCHANGED <<line, table>> /\ Within(leadText, c, a, b, quoted', place', cell')
  <2>1. CASE p = n
    <3>1. leadText[place] = "quote" /\ b = place + 1
      BY <1>4, <1>6, <2>1
    <3>2. ~ D!Has(place + 1, "quote")
      BY <3>1, Zenon DEF D!Has
    <3>3. ~ quoted' /\ place' = place + 1 /\ UNCHANGED <<cell, line, table>>
      BY <1>6, <3>1, <3>2, ClosesQuotes, Zenon
    <3>4. cell' = c /\ place' = b
      BY <1>2, <1>6, <2>1, <3>1, <3>3, Zenon
    <3>5. QED
      BY <3>3, <3>4, Zenon DEF Within, CellRead
  <2>2. CASE p \in 0..n - 1
    <3>1. PICK q \in 1..n : q = p + 1 /\ q - 1 = p /\ q \in 0..n
      BY <2>2
    <3>2. /\ leadText[place] = c[q] /\ place \in Nat
          /\ c[q] # "quote" => e[q] = place + 1
          /\ c[q] = "quote" => e[q] = place + 2 /\ leadText[place + 1] = "quote"
      BY <1>4, <1>6, <3>1
    <3>3. Append(cell, c[q]) = Start(c, q)
      BY <1>2, <1>6, <2>2, <3>1
    <3>4. CASE c[q] # "quote"
      <4>1. /\ cell' = Append(cell, c[q]) /\ place' = place + 1
            /\ UNCHANGED <<line, table, quoted>>
        BY <1>6, <3>2, <3>4, KeepsInQuotes, Zenon
      <4>2. cell' = Start(c, q) /\ place' = e[q]
        BY <3>2, <3>3, <3>4, <4>1, Zenon
      <4>3. QED
        BY <1>1, <1>6, <3>1, <4>1, <4>2, Zenon DEF Within
    <3>5. CASE c[q] = "quote"
      <4>1. D!Has(place + 1, "quote")
        <5>1. e[q] <= Len(leadText) /\ Len(leadText) \in Nat
          BY <1>4, <1>6, <3>1 DEF Text
        <5>2. place + 1 <= Len(leadText) /\ leadText[place + 1] = "quote"
          BY <3>2, <3>5, <5>1
        <5>3. QED
          BY <5>2, Zenon DEF D!Has
      <4>2. leadText[place] = "quote"
        BY <3>2, <3>5
      <4>3. /\ cell' = Append(cell, "quote") /\ place' = place + 2
            /\ UNCHANGED <<line, table, quoted>>
        BY <1>6, <4>1, <4>2, KeepsQuote, Zenon
      <4>4. cell' = Start(c, q) /\ place' = e[q]
        BY <3>2, <3>3, <3>5, <4>3, Zenon
      <4>5. QED
        BY <1>1, <1>6, <3>1, <4>3, <4>4, Zenon DEF Within
    <3>6. QED
      BY <3>4, <3>5
  <2>3. QED
    BY <2>1, <2>2
<1>7. QED
  BY <1>1, <1>3, <1>5, <1>6, Zenon DEF Within

-----------------------------------------------------------------------------
(* How the rows lie in the text: the first cell of row k from a[k] to b[k], a comma, the
   second up to d[k], and what ends the line. *)
RowLaid(t, r, ending, a, b, d) ==
    /\ r[1] \in Text /\ r[2] \in Text /\ r = <<r[1], r[2]>>
    /\ Laid(t, r[1], a, b) /\ b \in Nat /\ b <= Len(t) /\ t[b] = "comma"
    /\ Laid(t, r[2], b + 1, d) /\ Has(t, d, ending)

FileLaid(t, said, n, ending, a, b, d) ==
    /\ a[1] = 1 /\ a[n + 1] = Len(t) + 1
    /\ \A k \in 1..n : /\ RowLaid(t, said[k], ending, a[k], b[k], d[k])
                       /\ a[k + 1] = d[k] + Len(ending)

(* A text that holds two in a row holds each of them. *)
LEMMA HasParts ==
    ASSUME NEW t, NEW u \in Text, NEW v \in Text, NEW a, Has(t, a, u \o v)
    PROVE  Has(t, a, u) /\ Has(t, a + Len(u), v) /\ Len(u \o v) = Len(u) + Len(v)
<1>1. PICK w : w = u \o v
  OBVIOUS
<1>2. PICK m \in Nat, n \in Nat : m = Len(u) /\ n = Len(v)
  BY DEF Text
<1>3. /\ Len(w) = m + n
      /\ \A q \in 1..m : w[q] = u[q]
      /\ \A q \in 1..n : w[m + q] = v[q]
  BY <1>1, <1>2, Concats DEF Text
<1>4. /\ a \in Nat \ {0} /\ a + (m + n) <= Len(t) + 1
      /\ \A q \in 1..m + n : t[a + q - 1] = w[q]
  BY <1>1, <1>3, Zenon DEF Has
<1>5. Has(t, a, u)
  <2>1. a + m <= Len(t) + 1 /\ \A q \in 1..m : t[a + q - 1] = u[q]
    <3>1. \A q \in 1..m : q \in 1..m + n
      OBVIOUS
    <3>2. a + m <= Len(t) + 1
      <4>1. a + m <= a + (m + n)
        BY <1>4
      <4>2. a + (m + n) \in Nat /\ a + m \in Nat
        BY <1>4
      <4>3. QED
        BY <1>4, <4>1, <4>2
    <3>3. QED
      BY <1>3, <1>4, <3>1, <3>2, Zenon
  <2>2. QED
    BY <1>2, <1>4, <2>1, Zenon DEF Has
<1>6. Has(t, a + m, v)
  <2>1. /\ a + m \in Nat \ {0} /\ (a + m) + n <= Len(t) + 1
        /\ \A q \in 1..n : t[(a + m) + q - 1] = v[q]
    <3>1. \A q \in 1..n : m + q \in 1..m + n /\ (a + m) + q - 1 = a + (m + q) - 1
      BY <1>4
    <3>2. a + m \in Nat \ {0} /\ (a + m) + n = a + (m + n)
      BY <1>4
    <3>3. \A q \in 1..n : t[(a + m) + q - 1] = v[q]
      <4>1. ASSUME NEW q \in 1..n PROVE t[(a + m) + q - 1] = v[q]
        <5>1. t[a + (m + q) - 1] = w[m + q] /\ w[m + q] = v[q]
          BY <1>3, <1>4, <3>1, Zenon
        <5>2. QED
          BY <3>1, <5>1, Zenon
      <4>2. QED
        BY <4>1, Zenon
    <3>4. QED
      BY <1>4, <3>2, <3>3
  <2>2. QED
    BY <1>2, <2>1, Zenon DEF Has
<1>7. QED
  BY <1>1, <1>2, <1>3, <1>5, <1>6

(* The ends of a line. *)
LEMMA EndingsAre ==
    ASSUME NEW ending \in D!Ending, NEW t \in Text, NEW d, Has(t, d, ending)
    PROVE  /\ ending \in Text /\ Len(ending) \in 1..2
           /\ d \in Nat \ {0} /\ d <= Len(t) /\ d + Len(ending) <= Len(t) + 1
           /\ \/ t[d] = "newline" /\ Len(ending) = 1
              \/ /\ t[d] = "return" /\ Len(ending) = 2
                 /\ d + 1 <= Len(t) /\ t[d + 1] = "newline"
              \/ t[d] = "return" /\ Len(ending) = 1
<1>1. /\ d \in Nat \ {0} /\ d + Len(ending) <= Len(t) + 1
      /\ \A q \in 1..Len(ending) : t[d + q - 1] = ending[q]
  BY DEF Has
<1>2. Len(t) \in Nat
  BY DEF Text
<1>3. ending \in Text
  <2>1. \A x, y : x \in D!Char /\ y \in D!Char => <<x>> \in Text /\ <<x, y>> \in Text
    BY DEF Text
  <2>2. QED
    BY <2>1 DEF D!Ending, D!Char
<1>4. CASE ending = <<"newline">>
  <2>1. Len(ending) = 1 /\ t[d + 1 - 1] = "newline" /\ d + 1 - 1 = d
    BY <1>1, <1>4
  <2>2. QED
    BY <1>1, <1>2, <1>3, <2>1
<1>5. CASE ending = <<"return">>
  <2>1. Len(ending) = 1 /\ t[d + 1 - 1] = "return" /\ d + 1 - 1 = d
    BY <1>1, <1>5
  <2>2. QED
    BY <1>1, <1>2, <1>3, <2>1
<1>6. CASE ending = <<"return", "newline">>
  <2>1. /\ Len(ending) = 2 /\ t[d + 1 - 1] = "return" /\ t[d + 2 - 1] = "newline"
        /\ d + 1 - 1 = d /\ d + 2 - 1 = d + 1
    BY <1>1, <1>6
  <2>2. QED
    BY <1>1, <1>2, <1>3, <2>1
<1>7. QED
  BY <1>4, <1>5, <1>6 DEF D!Ending

(* A row lies where its line was written. *)
LEMMA RowLies ==
    ASSUME NEW t \in Text, NEW r, r[1] \in Text, r[2] \in Text, r = <<r[1], r[2]>>,
           NEW always \in BOOLEAN, NEW ending \in D!Ending, ending \in Text,
           NEW a, Has(t, a, D!Line(r, always) \o ending)
    PROVE  \E b, d : /\ RowLaid(t, r, ending, a, b, d)
                     /\ a + Len(D!Line(r, always) \o ending) = d + Len(ending)
<1>1. PICK u \in Text, w \in Text : u = D!Written(r[1], always) /\ w = D!Written(r[2], always)
  BY WrittenIsText
<1>2. PICK comma \in Text : comma = <<"comma">> /\ Len(comma) = 1 /\ comma[1] = "comma"
  <2>1. \A x \in D!Char : <<x>> \in Text /\ Len(<<x>>) = 1 /\ <<x>>[1] = x
    BY DEF Text
  <2>2. "comma" \in D!Char
    BY DEF D!Char
  <2>3. QED
    BY <2>1, <2>2, Zenon
<1>3. PICK x \in Text : x = u \o comma
  <2>1. u \o comma \in Text
    BY DEF Text
  <2>2. QED
    BY <2>1
<1>4. PICK y \in Text : y = x \o w
  <2>1. x \o w \in Text
    BY DEF Text
  <2>2. QED
    BY <2>1
<1>5. D!Line(r, always) = y
  BY <1>1, <1>2, <1>3, <1>4, Zenon DEF D!Line
<1>6. Has(t, a, y) /\ Has(t, a + Len(y), ending) /\ Len(y \o ending) = Len(y) + Len(ending)
  BY <1>5, HasParts
<1>7. Has(t, a, x) /\ Has(t, a + Len(x), w) /\ Len(y) = Len(x) + Len(w)
  BY <1>4, <1>6, HasParts
<1>8. Has(t, a, u) /\ Has(t, a + Len(u), comma) /\ Len(x) = Len(u) + Len(comma)
  BY <1>3, <1>7, HasParts
<1>9. PICK m \in Nat, n \in Nat, p \in Nat : m = Len(u) /\ n = Len(w) /\ p = Len(ending)
  <2>1. Len(u) \in Nat /\ Len(w) \in Nat /\ Len(ending) \in Nat
    BY DEF Text
  <2>2. QED
    BY <2>1
<1>10. PICK b, d : b = a + m /\ d = (b + 1) + n
  OBVIOUS
<1>11. /\ a \in Nat /\ Len(x) = m + 1 /\ Len(y) = (m + 1) + n
       /\ a + Len(x) = b + 1 /\ a + Len(y) = d
       /\ a + Len(y \o ending) = d + Len(ending)
  <2>1. a \in Nat
    BY <1>8, Zenon DEF Has
  <2>2. Len(x) = m + 1 /\ Len(y) = (m + 1) + n /\ Len(y \o ending) = ((m + 1) + n) + p
    BY <1>2, <1>6, <1>7, <1>8, <1>9, Zenon
  <2>3. a + (m + 1) = b + 1 /\ a + ((m + 1) + n) = d /\ a + (((m + 1) + n) + p) = d + p
    BY <1>10, <2>1
  <2>4. QED
    BY <1>9, <2>1, <2>2, <2>3, Zenon
<1>12. Laid(t, r[1], a, b)
  BY <1>1, <1>8, <1>9, <1>10, WrittenLies
<1>13. Laid(t, r[2], b + 1, d)
  BY <1>1, <1>7, <1>9, <1>10, <1>11, WrittenLies, SMTT(30)
<1>14. b \in Nat /\ b <= Len(t) /\ t[b] = "comma"
  <2>1. /\ b \in Nat /\ b + 1 <= Len(t) + 1
        /\ \A q \in 1..1 : t[b + q - 1] = comma[q]
    BY <1>2, <1>8, <1>9, <1>10 DEF Has
  <2>2. t[b + 1 - 1] = "comma" /\ b + 1 - 1 = b /\ Len(t) \in Nat
    BY <1>2, <2>1, SMTT(30) DEF Text
  <2>3. QED
    BY <2>1, <2>2
<1>15. Has(t, d, ending)
  BY <1>6, <1>11
<1>16. RowLaid(t, r, ending, a, b, d)
  BY <1>12, <1>13, <1>14, <1>15, Zenon DEF RowLaid
<1>17. QED
  BY <1>5, <1>11, <1>16, Zenon

(* A file that is uploaded has such a layout. *)
LEMMA FileLies ==
    ASSUME NEW company \in LeadCompany, NEW email \in LeadEmail, NEW copies \in 1..2,
           NEW always \in BOOLEAN, NEW ending \in D!Ending,
           D!Upload(company, email, copies, always, ending)
    PROVE  \E n, a, b, d :
              /\ n \in Nat \ {0} /\ DOMAIN leadFile' = 1..n /\ Len(leadFile') = n
              /\ FileLaid(leadText', leadFile', n, ending, a, b, d)
<1> DEFINE lines == <<D!Header>> \o [k \in 1..copies |-> <<company, email>>]
<1> DEFINE l == [k \in DOMAIN lines |-> D!Line(lines[k], always) \o ending]
<1>1. leadText' = D!FlattenSeq(l) /\ leadFile' = lines
  BY Zenon DEF D!Upload
<1>2. company \in Text /\ email \in Text /\ <<"letter">> \in Text
  BY LeadsAssumption DEF Text, D!Char
<1>3. PICK n \in Nat : n = copies + 1 /\ n # 0
  OBVIOUS
<1>4. /\ DOMAIN lines = 1..n /\ Len(lines) = n
      /\ \A k \in 1..n : /\ lines[k][1] \in Text /\ lines[k][2] \in Text
                         /\ lines[k] = <<lines[k][1], lines[k][2]>>
  BY <1>2, <1>3 DEF D!Header
<1>5. PICK said : said = lines
  OBVIOUS
<1>6. PICK t \in Text : t = leadText'
  BY FileIsText
<1>7. ending \in Text
  <2>1. \A x, y : x \in D!Char /\ y \in D!Char => <<x>> \in Text /\ <<x, y>> \in Text
    BY DEF Text
  <2>2. QED
    BY <2>1, ZenonT(40) DEF D!Ending, D!Char
<1>8. \A k \in 1..n : l[k] = D!Line(said[k], always) \o ending
  BY <1>4, <1>5
<1>9. l \in Seq(Text) /\ Len(l) = n
  <2>1. ASSUME NEW k \in 1..n PROVE l[k] \in Text
    <3>1. PICK u \in Text, w \in Text :
             u = D!Written(said[k][1], always) /\ w = D!Written(said[k][2], always)
      BY <1>4, <1>5, WrittenIsText
    <3>2. <<"comma">> \in Text
      BY DEF Text, D!Char
    <3>3. l[k] = (u \o <<"comma">> \o w) \o ending
      BY <1>8, <3>1, Zenon DEF D!Line
    <3> HIDE DEF lines, l
    <3>4. QED
      BY <1>7, <3>2, <3>3 DEF Text
  <2>2. l = [k \in 1..n |-> l[k]]
    BY <1>4
  <2> HIDE DEF lines, l
  <2>3. QED
    BY <2>1, <2>2
<1> HIDE DEF l
<1>10. PICK o : Lie(o, l, n, t)
  <2>1. l \in Seq(Seq(D!Char)) /\ n = Len(l) /\ t = D!FlattenSeq(l)
    BY <1>1, <1>6, <1>9 DEF Text
  <2>2. QED
    BY <2>1, PiecesLie
<1>11. /\ o[0] = 1 /\ o[n] = Len(t) + 1
       /\ \A k \in 1..n : /\ k - 1 \in 0..n /\ o[k] = o[k - 1] + Len(l[k])
                          /\ Has(t, o[k - 1], l[k])
  BY <1>10, Zenon DEF Lie
<1> DEFINE Fits(k, x, y) == /\ RowLaid(t, said[k], ending, o[k - 1], x, y)
                            /\ o[k] = y + Len(ending)
<1>12. ASSUME NEW k \in 1..n PROVE \E x, y : Fits(k, x, y)
  <2>1. PICK r, p : r = said[k] /\ p = o[k - 1]
    OBVIOUS
  <2>2. Has(t, p, D!Line(r, always) \o ending) /\ o[k] = p + Len(D!Line(r, always) \o ending)
    BY <1>8, <1>11, <2>1, Zenon
  <2>3. r[1] \in Text /\ r[2] \in Text /\ r = <<r[1], r[2]>>
    BY <1>4, <1>5, <2>1, Zenon
  <2>4. PICK x, y : /\ RowLaid(t, r, ending, p, x, y)
                    /\ p + Len(D!Line(r, always) \o ending) = y + Len(ending)
    BY <1>7, <2>2, <2>3, RowLies
  <2>5. QED
    BY <2>1, <2>2, <2>4, Zenon
<1>13. PICK a, b, d : /\ a = [k \in 1..n + 1 |-> o[k - 1]]
                      /\ b = [k \in 1..n |-> CHOOSE x : \E y : Fits(k, x, y)]
                      /\ d = [k \in 1..n |-> CHOOSE y : Fits(k, b[k], y)]
  <2> HIDE DEF Fits
  <2>1. QED
    OBVIOUS
<1>14. \A k \in 1..n : Fits(k, b[k], d[k])
  <2> HIDE DEF Fits
  <2>1. SUFFICES ASSUME NEW k \in 1..n PROVE Fits(k, b[k], d[k])
    OBVIOUS
  <2>2. b[k] = CHOOSE x : \E y : Fits(k, x, y)
    BY <1>13
  <2>3. d[k] = CHOOSE y : Fits(k, b[k], y)
    BY <1>13
  <2>4. \E y : Fits(k, b[k], y)
    BY <1>12, <2>2, Zenon
  <2>5. QED
    BY <2>3, <2>4, Zenon
<1>15. /\ a[1] = 1 /\ a[n + 1] = Len(t) + 1
       /\ \A k \in 1..n : a[k] = o[k - 1] /\ a[k + 1] = o[k]
  <2>1. /\ 1 \in 1..n + 1 /\ n + 1 \in 1..n + 1 /\ 1 - 1 = 0 /\ (n + 1) - 1 = n
        /\ \A k \in 1..n : k \in 1..n + 1 /\ k + 1 \in 1..n + 1 /\ (k + 1) - 1 = k
    BY <1>3
  <2>2. \A k \in 1..n + 1 : a[k] = o[k - 1]
    BY <1>13
  <2>3. QED
    BY <1>11, <2>1, <2>2, Zenon
<1>16. FileLaid(t, said, n, ending, a, b, d)
  BY <1>14, <1>15, Zenon DEF FileLaid
<1>17. QED
  <2>1. said = leadFile' /\ DOMAIN said = 1..n /\ Len(said) = n /\ n \in Nat \ {0}
    BY <1>1, <1>3, <1>4, <1>5
  <2>2. QED
    BY <1>6, <1>16, <2>1, Zenon

-----------------------------------------------------------------------------
(* g[k] is what there is in the first k rows. *)
Tabled(g, said, n) ==
    /\ g[0] = <<>> /\ g[n] = D!Contents(said)
    /\ \A k \in 1..n :
          /\ k - 1 \in 0..n
          /\ g[k] = IF D!Full(D!Trimmed(said[k])) THEN Append(g[k - 1], D!Trimmed(said[k]))
                                                  ELSE g[k - 1]

(* A row of two texts is a row of two texts when it is trimmed. *)
LEMMA TrimmedRow ==
    ASSUME NEW r, r[1] \in Text, r[2] \in Text, r = <<r[1], r[2]>>
    PROVE  D!Trimmed(r) = <<D!Trim(r[1]), D!Trim(r[2])>> /\ D!Trimmed(r) \in Seq(Text)
<1>1. PICK x \in Text, y \in Text : x = D!Trim(r[1]) /\ y = D!Trim(r[2])
  BY TrimIsText
<1>2. DOMAIN r = 1..2
  OBVIOUS
<1>3. D!Trimmed(r) = [k \in 1..2 |-> D!Trim(r[k])]
  BY <1>2, Zenon DEF D!Trimmed
<1>4. PICK f : f = [k \in 1..2 |-> D!Trim(r[k])]
  OBVIOUS
<1>5. f[1] = x /\ f[2] = y /\ f = [k \in 1..2 |-> f[k]]
  BY <1>1, <1>4
<1>6. f = <<x, y>>
  BY <1>5
<1>7. <<x, y>> \in Seq(Text)
  OBVIOUS
<1>8. QED
  BY <1>1, <1>3, <1>4, <1>6, <1>7, Zenon

(* There is such a table. *)
LEMMA ContentsAre ==
    ASSUME NEW n \in Nat, NEW said, DOMAIN said = 1..n,
           \A k \in 1..n : D!Trimmed(said[k]) \in Seq(Text)
    PROVE  \E g : Tabled(g, said, n)
<1> DEFINE l == [k \in DOMAIN said |-> IF D!Full(D!Trimmed(said[k])) THEN <<D!Trimmed(said[k])>>
                                                                  ELSE <<>>]
<1>1. PICK rowsOf : rowsOf = Seq(Text)
  OBVIOUS
<1>2. \A k \in 1..n : l[k] = IF D!Full(D!Trimmed(said[k])) THEN <<D!Trimmed(said[k])>> ELSE <<>>
  OBVIOUS
<1>3. l \in Seq(Seq(rowsOf)) /\ n = Len(l)
  <2>1. \A k \in 1..n : l[k] \in Seq(rowsOf)
    <3>1. <<>> \in Seq(rowsOf) /\ \A x \in rowsOf : <<x>> \in Seq(rowsOf)
      OBVIOUS
    <3> HIDE DEF l
    <3>2. QED
      BY <1>1, <1>2, <3>1, Zenon
  <2>2. l = [k \in 1..n |-> l[k]]
    OBVIOUS
  <2>3. PICK tables : tables = Seq(rowsOf)
    OBVIOUS
  <2> HIDE DEF l
  <2>4. l \in Seq(tables) /\ n = Len(l)
    BY <2>1, <2>2, <2>3
  <2>5. QED
    BY <2>3, <2>4
<1>4. D!Contents(said) = D!FlattenSeq(l)
  BY Zenon DEF D!Contents
<1> HIDE DEF l
<1>5. PICK f : /\ Prefixes(f, l, n) /\ D!FlattenSeq(l) = f[n]
               /\ \A k \in 0..n : f[k] \in Seq(rowsOf)
  BY <1>3, FlattenPrefixes, SameRows, Zenon
<1>6. f[0] = <<>> /\ \A k \in 1..n : k - 1 \in 0..n /\ f[k] = f[k - 1] \o l[k]
  BY <1>5, Zenon DEF Prefixes
<1>7. ASSUME NEW k \in 1..n
      PROVE  f[k] = IF D!Full(D!Trimmed(said[k])) THEN Append(f[k - 1], D!Trimmed(said[k]))
                                                  ELSE f[k - 1]
  <2>1. PICK x \in rowsOf : x = D!Trimmed(said[k])
    BY <1>1
  <2>2. PICK u \in Seq(rowsOf) : u = f[k - 1] /\ f[k] = u \o l[k]
    BY <1>5, <1>6, Zenon
  <2>3. u \o <<x>> = Append(u, x) /\ u \o <<>> = u
    OBVIOUS
  <2>4. CASE D!Full(x)
    <3>1. l[k] = <<x>>
      BY <1>2, <2>1, <2>4, Zenon
    <3>2. f[k] = Append(u, x)
      BY <2>2, <2>3, <3>1, Zenon
    <3>3. QED
      BY <2>1, <2>2, <2>4, <3>2, Zenon
  <2>5. CASE ~ D!Full(x)
    <3>1. l[k] = <<>>
      BY <1>2, <2>1, <2>5, Zenon
    <3>2. f[k] = u
      BY <2>2, <2>3, <3>1, Zenon
    <3>3. QED
      BY <2>1, <2>2, <2>5, <3>2, Zenon
  <2>6. QED
    BY <2>4, <2>5
<1>8. Tabled(f, said, n)
  BY <1>4, <1>5, <1>6, <1>7, Zenon DEF Tabled
<1>9. QED
  BY <1>8

(* The reader is in the first or the second cell of a row, or behind the last. *)
InFirst(t, said, k, a, b, d, g, q, i, s, r, tb) ==
    tb = g[k - 1] /\ r = <<>> /\ Within(t, said[k][1], a[k], b[k], q, i, s)

InSecond(t, said, k, a, b, d, g, q, i, s, r, tb) ==
    /\ tb = g[k - 1] /\ r = <<D!Trim(said[k][1])>>
    /\ Within(t, said[k][2], b[k] + 1, d[k], q, i, s)

AtEnd(t, n, g, q, i, s, r, tb) ==
    tb = g[n] /\ r = <<>> /\ ~ q /\ s = <<>> /\ i = Len(t) + 1

Reading(t, said, n, a, b, d, g, q, i, s, r, tb) ==
    \/ \E k \in 1..n : InFirst(t, said, k, a, b, d, g, q, i, s, r, tb)
    \/ \E k \in 1..n : InSecond(t, said, k, a, b, d, g, q, i, s, r, tb)
    \/ AtEnd(t, n, g, q, i, s, r, tb)

(* A line does not begin with a line end. *)
LEMMA LineBegins ==
    ASSUME NEW t \in Text, NEW c \in Text, NEW a, NEW b, Laid(t, c, a, b), t[b] = "comma"
    PROVE  t[a] # "newline"
<1>1. PICK n \in Nat : n = Len(c) /\ DOMAIN c = 1..n
  BY DEF Text
<1>2. CASE Plain(t, c, a, b)
  <2>1. /\ a \in Nat /\ b = a + n
        /\ \A q \in 1..n : t[a + q - 1] = c[q]
    BY <1>1, <1>2 DEF Plain, Has
  <2>2. CASE n = 0
    BY <2>1, <2>2
  <2>3. CASE n # 0
    <3>1. 1 \in 1..n /\ a + 1 - 1 = a
      BY <2>1, <2>3
    <3>2. t[a] = c[1]
      BY <2>1, <3>1
    <3>3. c[1] # "newline"
      BY <1>1, <1>2, <3>1 DEF Plain, D!Special
    <3>4. QED
      BY <3>2, <3>3
  <2>4. QED
    BY <2>2, <2>3
<1>3. CASE \E e : Quoted(t, c, a, b, e)
  BY <1>3 DEF Quoted
<1>4. QED
  BY <1>2, <1>3, Zenon DEF Laid

(* In a cell there is something left to read. *)
LEMMA CellEnds ==
    ASSUME NEW t \in Text, NEW c \in Text, NEW a, NEW b, b \in Nat, b <= Len(t),
           NEW q, NEW i, NEW s, Within(t, c, a, b, q, i, s)
    PROVE  i <= Len(t)
<1>1. PICK m \in Nat : m = Len(t)
  BY DEF Text
<1>2. PICK n \in Nat : n = Len(c)
  BY DEF Text
<1>3. CASE CellRead(c, b, q, i, s)
  BY <1>1, <1>3 DEF CellRead
<1>4. ASSUME Plain(t, c, a, b), NEW p \in 0..n - 1, i = a + p PROVE i <= Len(t)
  <2>1. a \in Nat /\ b = a + n
    BY <1>2, <1>4 DEF Plain, Has
  <2>2. QED
    BY <1>1, <1>4, <2>1
<1>5. ASSUME NEW e, Quoted(t, c, a, b, e), i = a PROVE i <= Len(t)
  <2>1. a \in Nat /\ e[0] = a + 1 /\ \A p \in 0..n : e[p] <= m
    BY <1>1, <1>2, <1>5, Zenon DEF Quoted
  <2>2. 0 \in 0..n
    OBVIOUS
  <2>3. a + 1 <= m
    BY <2>1, <2>2
  <2>4. QED
    BY <1>1, <1>5, <2>1, <2>3
<1>6. ASSUME NEW e, Quoted(t, c, a, b, e), NEW p \in 0..n, i = e[p] PROVE i <= Len(t)
  BY <1>2, <1>6, Zenon DEF Quoted
<1>7. QED
  BY <1>2, <1>3, <1>4, <1>5, <1>6, Zenon DEF Within

-----------------------------------------------------------------------------
(* What there is to know of a row. *)
LEMMA RowAt ==
    ASSUME NEW t, NEW said, NEW n \in Nat, NEW ending, NEW a, NEW b, NEW d,
           FileLaid(t, said, n, ending, a, b, d), NEW k \in 1..n
    PROVE  /\ said[k][1] \in Text /\ said[k][2] \in Text /\ said[k] = <<said[k][1], said[k][2]>>
           /\ Laid(t, said[k][1], a[k], b[k])
           /\ b[k] \in Nat /\ b[k] <= Len(t) /\ t[b[k]] = "comma"
           /\ Laid(t, said[k][2], b[k] + 1, d[k])
           /\ Has(t, d[k], ending) /\ a[k + 1] = d[k] + Len(ending)
  BY Zenon DEF FileLaid, RowLaid

LEMMA TwoCells == ASSUME NEW S, NEW u \in S, NEW v \in S PROVE Append(<<u>>, v) = <<u, v>>
<1>1. <<u>> \in Seq(S) /\ Len(<<u>>) = 1 /\ <<u>>[1] = u
  <2>1. <<u>> \in Seq(S)
    OBVIOUS
  <2>2. Len(<<u>>) = 1
    OBVIOUS
  <2>3. <<u>>[1] = u
    OBVIOUS
  <2>4. QED
    BY <2>1, <2>2, <2>3
<1>2. PICK s : s = <<u>>
  OBVIOUS
<1>3. s \in Seq(S) /\ Len(s) = 1 /\ s[1] = u
  BY <1>1, <1>2, Zenon
<1>4. PICK t : t = Append(s, v)
  OBVIOUS
<1>5. t \in Seq(S) /\ Len(t) = 2 /\ t[1] = u /\ t[2] = v
  <2>1. \A q \in Seq(S) : /\ Append(q, v) \in Seq(S) /\ Len(Append(q, v)) = Len(q) + 1
                          /\ Append(q, v)[Len(q) + 1] = v
                          /\ \A k \in 1..Len(q) : Append(q, v)[k] = q[k]
    OBVIOUS
  <2>2. 1 \in 1..1 /\ 1 + 1 = 2
    OBVIOUS
  <2>3. QED
    BY <1>3, <1>4, <2>1, <2>2, Zenon
<1>6. t = <<t[1], t[2]>>
  BY <1>5
<1>7. QED
  BY <1>2, <1>4, <1>5, <1>6, Zenon

(* In its first cell the reader stays in the row. *)
LEMMA FirstCellMoves ==
    ASSUME leadText \in Text, NEW said, NEW n \in Nat, NEW ending, NEW a, NEW b, NEW d, NEW g,
           FileLaid(leadText, said, n, ending, a, b, d), NEW k \in 1..n,
           InFirst(leadText, said, k, a, b, d, g, quoted, place, cell, line, table), D!Read
    PROVE  \/ InFirst(leadText, said, k, a, b, d, g, quoted', place', cell', line', table')
           \/ InSecond(leadText, said, k, a, b, d, g, quoted', place', cell', line', table')
<1>0. /\ said[k][1] \in Text /\ said[k][2] \in Text /\ said[k] = <<said[k][1], said[k][2]>>
      /\ Laid(leadText, said[k][1], a[k], b[k])
      /\ b[k] \in Nat /\ b[k] <= Len(leadText) /\ leadText[b[k]] = "comma"
      /\ Laid(leadText, said[k][2], b[k] + 1, d[k])
      /\ Has(leadText, d[k], ending) /\ a[k + 1] = d[k] + Len(ending)
  BY RowAt
<1>1. PICK c, x, y : c = said[k][1] /\ x = a[k] /\ y = b[k]
  OBVIOUS
<1>2. /\ table = g[k - 1] /\ line = <<>> /\ Within(leadText, c, x, y, quoted, place, cell)
      /\ c \in Text /\ y \in Nat /\ y <= Len(leadText) /\ leadText[y] = "comma"
      /\ Laid(leadText, c, x, y)
  BY <1>0, <1>1, Zenon DEF InFirst
<1>3. CASE ~ CellRead(c, y, quoted, place, cell)
  <2>1. leadText[y] # "quote"
    BY <1>2
  <2>2. UNCHANGED <<line, table>> /\ Within(leadText, c, x, y, quoted', place', cell')
    BY <1>2, <1>3, <2>1, CellMoves, Zenon
  <2>3. InFirst(leadText, said, k, a, b, d, g, quoted', place', cell', line', table')
    BY <1>1, <1>2, <2>2, Zenon DEF InFirst
  <2>4. QED
    BY <2>3
<1>4. CASE CellRead(c, y, quoted, place, cell)
  <2>1. ~ quoted /\ place = y /\ cell = c
    BY <1>4, Zenon DEF CellRead
  <2>2. leadText[place] = "comma"
    BY <1>2, <2>1, Zenon
  <2>3. /\ line' = Append(line, D!Trim(cell)) /\ cell' = <<>> /\ place' = place + 1
        /\ UNCHANGED <<table, quoted>>
    BY <2>1, <2>2, EndsCell, Zenon
  <2>4. line' = <<D!Trim(c)>>
    <3>1. PICK z : z = D!Trim(c)
      OBVIOUS
    <3>2. Append(<<>>, z) = <<z>>
      OBVIOUS
    <3>3. QED
      BY <1>2, <2>1, <2>3, <3>1, <3>2, Zenon
  <2>5. PICK w, v, z : w = said[k][2] /\ v = b[k] + 1 /\ z = d[k]
    OBVIOUS
  <2>11. w \in Text /\ Laid(leadText, w, v, z)
    BY <1>0, <2>5, Zenon
  <2>6. ~ quoted'
    BY <2>1, <2>3, Zenon
  <2>7. Within(leadText, w, v, z, quoted', v, <<>>)
    <3>1. PICK q : q = quoted'
      OBVIOUS
    <3>4. ~ q
      BY <2>6, <3>1, Zenon
    <3>2. Within(leadText, w, v, z, q, v, <<>>)
      BY <2>11, <3>4, CellBegins, Zenon
    <3>3. QED
      BY <3>1, <3>2, Zenon
  <2>8. place' = v
    BY <1>1, <2>1, <2>3, <2>5, Zenon
  <2>9. InSecond(leadText, said, k, a, b, d, g, quoted', place', cell', line', table')
    BY <1>1, <1>2, <2>3, <2>4, <2>5, <2>7, <2>8, Zenon DEF InSecond
  <2>10. QED
    BY <2>9
<1>5. QED
  BY <1>3, <1>4

(* Behind its second cell the row is complete, and the next one begins. *)
LEMMA SecondCellMoves ==
    ASSUME leadText \in Text, NEW said, NEW n \in Nat, NEW ending \in D!Ending,
           NEW a, NEW b, NEW d, NEW g, Tabled(g, said, n),
           FileLaid(leadText, said, n, ending, a, b, d), NEW k \in 1..n,
           InSecond(leadText, said, k, a, b, d, g, quoted, place, cell, line, table), D!Read
    PROVE  Reading(leadText, said, n, a, b, d, g, quoted', place', cell', line', table')
<1>0. /\ said[k][1] \in Text /\ said[k][2] \in Text /\ said[k] = <<said[k][1], said[k][2]>>
      /\ Laid(leadText, said[k][1], a[k], b[k])
      /\ b[k] \in Nat /\ b[k] <= Len(leadText) /\ leadText[b[k]] = "comma"
      /\ Laid(leadText, said[k][2], b[k] + 1, d[k])
      /\ Has(leadText, d[k], ending) /\ a[k + 1] = d[k] + Len(ending)
  BY Zenon DEF FileLaid, RowLaid
<1>1. PICK c, x, y : c = said[k][2] /\ x = b[k] + 1 /\ y = d[k]
  OBVIOUS
<1>2. /\ table = g[k - 1] /\ line = <<D!Trim(said[k][1])>>
      /\ c \in Text /\ Laid(leadText, c, x, y)
      /\ Within(leadText, c, x, y, quoted, place, cell)
  BY <1>0, <1>1, Zenon DEF InSecond
<1>3. Has(leadText, y, ending) /\ a[k + 1] = y + Len(ending)
  BY <1>0, <1>1, Zenon
<1>4. /\ Len(ending) \in 1..2 /\ y \in Nat \ {0} /\ y <= Len(leadText)
      /\ \/ leadText[y] = "newline" /\ Len(ending) = 1
         \/ /\ leadText[y] = "return" /\ Len(ending) = 2
            /\ y + 1 <= Len(leadText) /\ leadText[y + 1] = "newline"
         \/ leadText[y] = "return" /\ Len(ending) = 1
  BY <1>3, EndingsAre, ZenonT(40)
<1>5. CASE ~ CellRead(c, y, quoted, place, cell)
  <2>1. leadText[y] # "quote"
    BY <1>4
  <2>2. UNCHANGED <<line, table>> /\ Within(leadText, c, x, y, quoted', place', cell')
    BY <1>2, <1>5, <2>1, CellMoves, Zenon
  <2>3. InSecond(leadText, said, k, a, b, d, g, quoted', place', cell', line', table')
    BY <1>1, <1>2, <2>2, Zenon DEF InSecond
  <2>4. QED
    BY <2>3, Zenon DEF Reading
<1>6. CASE CellRead(c, y, quoted, place, cell)
  <2>1. ~ quoted /\ place = y /\ cell = c
    BY <1>6, Zenon DEF CellRead
  <2>2. leadText[place] \in {"newline", "return"}
    BY <1>4, <2>1
  <2>3. PICK m : /\ D!EndsRow(m) /\ y + m = a[k + 1]
    <3>1. \/ leadText[place] = "newline" /\ D!EndsRow(1)
          \/ /\ leadText[place] = "return"
             /\ D!EndsRow(IF D!Has(place + 1, "newline") THEN 2 ELSE 1)
      BY <2>1, <2>2, EndsLine, Zenon
    <3>2. CASE leadText[y] = "newline" /\ Len(ending) = 1
      <4>1. D!EndsRow(1)
        BY <2>1, <3>1, <3>2
      <4>2. QED
        BY <1>3, <3>2, <4>1, Zenon
    <3>3. CASE /\ leadText[y] = "return" /\ Len(ending) = 2
               /\ y + 1 <= Len(leadText) /\ leadText[y + 1] = "newline"
      <4>1. D!Has(place + 1, "newline")
        BY <2>1, <3>3, Zenon DEF D!Has
      <4>2. D!EndsRow(IF D!Has(place + 1, "newline") THEN 2 ELSE 1)
        BY <2>1, <3>1, <3>3
      <4>3. D!EndsRow(2)
        BY <4>1, <4>2, Zenon
      <4>4. QED
        BY <1>3, <3>3, <4>3, Zenon
    <3>4. CASE leadText[y] = "return" /\ Len(ending) = 1
      <4>1. ~ D!Has(place + 1, "newline")
        <5>1. place + 1 = a[k + 1]
          BY <1>3, <2>1, <3>4, Zenon
        <5>2. CASE k = n
          <6>1. a[k + 1] = Len(leadText) + 1 /\ Len(leadText) \in Nat
            BY <5>2 DEF FileLaid, Text
          <6>2. ~ (Len(leadText) + 1 <= Len(leadText))
            BY <6>1
          <6>3. QED
            BY <5>1, <6>1, <6>2, Zenon DEF D!Has
        <5>3. CASE k + 1 \in 1..n
          <6>1. PICK j \in 1..n : j = k + 1
            BY <5>3
          <6>5. /\ said[j][1] \in Text /\ Laid(leadText, said[j][1], a[j], b[j])
                /\ leadText[b[j]] = "comma"
            BY RowAt
          <6>2. PICK w, u, v : w = said[j][1] /\ u = a[j] /\ v = b[j]
            OBVIOUS
          <6>6. w \in Text /\ Laid(leadText, w, u, v) /\ leadText[v] = "comma" /\ u = a[k + 1]
            BY <6>1, <6>2, <6>5, Zenon
          <6>3. leadText[u] # "newline"
            BY <6>6, LineBegins
          <6>4. QED
            BY <5>1, <6>6, <6>3, Zenon DEF D!Has
        <5>4. QED
          BY <5>2, <5>3
      <4>2. D!EndsRow(IF D!Has(place + 1, "newline") THEN 2 ELSE 1)
        BY <2>1, <3>1, <3>4
      <4>3. D!EndsRow(1)
        BY <4>1, <4>2, Zenon
      <4>4. QED
        BY <1>3, <3>4, <4>3, Zenon
    <3>5. QED
      BY <1>4, <3>2, <3>3, <3>4, Zenon
  <2>4. PICK r : /\ r = Append(line, D!Trim(cell))
                 /\ table' = IF D!Full(r) THEN Append(table, r) ELSE table
                 /\ line' = <<>> /\ cell' = <<>> /\ place' = place + m /\ quoted' = quoted
    BY <2>3, Zenon DEF D!EndsRow
  <2>5. r = D!Trimmed(said[k])
    <3>1. PICK u \in Text, v \in Text : u = D!Trim(said[k][1]) /\ v = D!Trim(said[k][2])
      BY <1>0, TrimIsText
    <3>2. Append(<<u>>, v) = <<u, v>>
      BY TwoCells, Zenon
    <3>3. D!Trimmed(said[k]) = <<u, v>>
      <4>1. PICK s : s = said[k]
        OBVIOUS
      <4>2. s[1] \in Text /\ s[2] \in Text /\ s = <<s[1], s[2]>>
        BY <1>0, <4>1, Zenon
      <4>3. D!Trimmed(s) = <<D!Trim(s[1]), D!Trim(s[2])>>
        BY <4>2, TrimmedRow
      <4>4. QED
        BY <3>1, <4>1, <4>3, Zenon
    <3>4. QED
      BY <1>1, <1>2, <2>1, <2>4, <3>1, <3>2, <3>3, ZenonT(40)
  <2>6. table' = g[k]
    <3>1. g[k] = IF D!Full(D!Trimmed(said[k])) THEN Append(g[k - 1], D!Trimmed(said[k]))
                                               ELSE g[k - 1]
      BY Zenon DEF Tabled
    <3>2. QED
      BY <1>2, <2>4, <2>5, <3>1, Zenon
  <2>7. ~ quoted' /\ place' = a[k + 1]
    BY <2>1, <2>3, <2>4, Zenon
  <2>8. CASE k = n
    <3>1. a[k + 1] = Len(leadText) + 1
      BY <2>8 DEF FileLaid
    <3>2. AtEnd(leadText, n, g, quoted', place', cell', line', table')
      BY <2>4, <2>6, <2>7, <2>8, <3>1, Zenon DEF AtEnd
    <3>3. QED
      BY <3>2, Zenon DEF Reading
  <2>9. CASE k + 1 \in 1..n
    <3>1. PICK j \in 1..n : j = k + 1 /\ j - 1 = k
      BY <2>9
    <3>6. said[j][1] \in Text /\ Laid(leadText, said[j][1], a[j], b[j])
      BY RowAt
    <3>2. PICK w, u, v : w = said[j][1] /\ u = a[j] /\ v = b[j]
      OBVIOUS
    <3>7. w \in Text /\ Laid(leadText, w, u, v)
      BY <3>2, <3>6, Zenon
    <3>3. Within(leadText, w, u, v, quoted', u, <<>>)
      <4>1. PICK q : q = quoted'
        OBVIOUS
      <4>4. ~ q
        BY <2>7, <4>1, Zenon
      <4>2. Within(leadText, w, u, v, q, u, <<>>)
        BY <3>7, <4>4, CellBegins, Zenon
      <4>3. QED
        BY <4>1, <4>2, Zenon
    <3>4. InFirst(leadText, said, j, a, b, d, g, quoted', place', cell', line', table')
      <4>1. place' = u /\ table' = g[j - 1]
        BY <2>6, <2>7, <3>1, <3>2, Zenon
      <4>2. QED
        BY <2>4, <3>2, <3>3, <4>1, Zenon DEF InFirst
    <3>5. QED
      BY <3>4, Zenon DEF Reading
  <2>10. QED
    BY <2>8, <2>9
<1>7. QED
  BY <1>5, <1>6

(* While the file is read the reader is where its variables say; then the table is what
   the file says. *)
FileIs(n, ending, a, b, d, g) ==
    /\ n \in Nat \ {0} /\ ending \in D!Ending
    /\ FileLaid(leadText, leadFile, n, ending, a, b, d) /\ Tabled(g, leadFile, n)

ReaderAt(n, a, b, d, g) ==
    \/ /\ phase = "reading"
       /\ Reading(leadText, leadFile, n, a, b, d, g, quoted, place, cell, line, table)
    \/ phase \in {"writing", "done"} /\ table = g[n]

FileInv ==
    \/ phase = "none" /\ ~ quoted /\ place = 1 /\ cell = <<>> /\ line = <<>> /\ table = <<>>
    \/ \E n, ending, a, b, d, g : FileIs(n, ending, a, b, d, g) /\ ReaderAt(n, a, b, d, g)

(* The reader starts in the first row. *)
LEMMA FileStarts ==
    ASSUME NEW t \in Text, NEW said, NEW n \in Nat \ {0}, NEW ending, NEW a, NEW b, NEW d, NEW g,
           FileLaid(t, said, n, ending, a, b, d), Tabled(g, said, n), NEW q, ~ q
    PROVE  Reading(t, said, n, a, b, d, g, q, 1, <<>>, <<>>, <<>>)
<1>1. n \in Nat /\ 1 \in 1..n /\ 1 - 1 = 0
  OBVIOUS
<1>2. PICK c, y : c = said[1][1] /\ y = b[1]
  OBVIOUS
<1>7. said[1][1] \in Text /\ Laid(t, said[1][1], a[1], b[1])
  BY <1>1, RowAt
<1>8. c \in Text /\ Laid(t, c, a[1], y)
  BY <1>2, <1>7, Zenon
<1>3. a[1] = 1 /\ g[0] = <<>>
  BY Zenon DEF FileLaid, Tabled
<1>4. Within(t, c, 1, y, q, 1, <<>>)
  <2>1. Laid(t, c, 1, y)
    BY <1>3, <1>8, Zenon
  <2>2. QED
    BY <1>8, <2>1, CellBegins
<1>5. InFirst(t, said, 1, a, b, d, g, q, 1, <<>>, <<>>, <<>>)
  BY <1>1, <1>2, <1>3, <1>4, Zenon DEF InFirst
<1>6. QED
  BY <1>1, <1>5, Zenon DEF Reading


(* One lemma for each step of the import. *)
LEMMA FileUploaded ==
    ASSUME FileInv, leadText' \in Text,
           NEW company \in LeadCompany, NEW email \in LeadEmail, NEW copies \in 1..2,
           NEW always \in BOOLEAN, NEW ending \in D!Ending,
           D!Upload(company, email, copies, always, ending)
    PROVE  FileInv'
<1>1. PICK n, a, b, d : /\ n \in Nat \ {0} /\ DOMAIN leadFile' = 1..n
                        /\ FileLaid(leadText', leadFile', n, ending, a, b, d)
  BY FileLies
<1>2. PICK said : said = leadFile' /\ n \in Nat
  BY <1>1
<1>3. \A k \in 1..n : D!Trimmed(said[k]) \in Seq(Text)
  <2>1. SUFFICES ASSUME NEW k \in 1..n PROVE D!Trimmed(said[k]) \in Seq(Text)
    OBVIOUS
  <2>2. RowLaid(leadText', said[k], ending, a[k], b[k], d[k])
    BY <1>1, <1>2, Zenon DEF FileLaid
  <2>3. PICK r : r = said[k]
    OBVIOUS
  <2>4. r[1] \in Text /\ r[2] \in Text /\ r = <<r[1], r[2]>>
    BY <2>2, <2>3, Zenon DEF RowLaid
  <2>5. D!Trimmed(r) \in Seq(Text)
    BY <2>4, TrimmedRow
  <2>6. QED
    BY <2>3, <2>5, Zenon
<1>4. PICK g : Tabled(g, said, n)
  BY <1>1, <1>2, <1>3, ContentsAre, Zenon
<1>5. FileIs(n, ending, a, b, d, g)'
  BY <1>1, <1>2, <1>4, Zenon DEF FileIs
<1>6. /\ phase' = "reading" /\ phase = "none"
      /\ place' = place /\ cell' = cell /\ line' = line /\ table' = table /\ quoted' = quoted
  BY Zenon DEF D!Upload, D!reader
<1>7. ~ quoted' /\ place' = 1 /\ cell' = <<>> /\ line' = <<>> /\ table' = <<>>
  <2>1. phase \notin {"reading", "writing", "done"}
    BY <1>6
  <2>2. QED
    BY <1>6, <2>1, Zenon DEF FileInv, ReaderAt
<1>8. PICK t, q : t = leadText' /\ q = quoted'
  OBVIOUS
<1>9. Reading(t, said, n, a, b, d, g, q, 1, <<>>, <<>>, <<>>)
  <2>1. ~ q
    BY <1>7, <1>8, Zenon
  <2>2. FileLaid(t, said, n, ending, a, b, d)
    BY <1>1, <1>2, <1>8, Zenon
  <2>3. t \in Text
    BY <1>8, Zenon
  <2>4. QED
    BY <1>1, <1>4, <2>1, <2>2, <2>3, FileStarts
<1>10. Reading(leadText', leadFile', n, a, b, d, g, quoted', place', cell', line', table')
  BY <1>2, <1>7, <1>8, <1>9, Zenon
<1>11. ReaderAt(n, a, b, d, g)'
  BY <1>6, <1>10, Zenon DEF ReaderAt
<1>12. QED
  BY <1>5, <1>11, Zenon DEF FileInv

LEMMA FileRead ==
    ASSUME leadText \in Text, NEW n, NEW ending, NEW a, NEW b, NEW d, NEW g,
           FileIs(n, ending, a, b, d, g), ReaderAt(n, a, b, d, g), D!Read
    PROVE  ReaderAt(n, a, b, d, g)'
<1>1. /\ phase = "reading" /\ phase' = phase /\ leadFile' = leadFile /\ leadText' = leadText
      /\ place <= Len(leadText)
  BY Zenon DEF D!Read
<1>2. Reading(leadText, leadFile, n, a, b, d, g, quoted, place, cell, line, table)
  <2>1. phase \notin {"writing", "done"}
    BY <1>1
  <2>2. QED
    BY <2>1, Zenon DEF ReaderAt
<1>3. /\ n \in Nat /\ ending \in D!Ending
      /\ FileLaid(leadText, leadFile, n, ending, a, b, d) /\ Tabled(g, leadFile, n)
  <2>1. n \in Nat \ {0}
    BY Zenon DEF FileIs
  <2>2. n \in Nat
    BY <2>1
  <2>3. QED
    BY <2>2, Zenon DEF FileIs
<1>4. PICK said : said = leadFile /\ FileLaid(leadText, said, n, ending, a, b, d)
                  /\ Tabled(g, said, n)
  BY <1>3, Zenon
<1> DEFINE At == Reading(leadText, said, n, a, b, d, g, quoted', place', cell', line', table')
<1>5. ASSUME NEW k \in 1..n,
             InFirst(leadText, said, k, a, b, d, g, quoted, place, cell, line, table)
      PROVE  At
  <2>1. \/ InFirst(leadText, said, k, a, b, d, g, quoted', place', cell', line', table')
        \/ InSecond(leadText, said, k, a, b, d, g, quoted', place', cell', line', table')
    BY <1>3, <1>4, <1>5, FirstCellMoves
  <2>2. QED
    BY <2>1, Zenon DEF Reading
<1>6. ASSUME NEW k \in 1..n,
             InSecond(leadText, said, k, a, b, d, g, quoted, place, cell, line, table)
      PROVE  At
  BY <1>3, <1>4, <1>6, SecondCellMoves
<1>7. ~ AtEnd(leadText, n, g, quoted, place, cell, line, table)
  <2>1. Len(leadText) \in Nat
    BY DEF Text
  <2>2. place # Len(leadText) + 1
    BY <1>1, <2>1
  <2>3. QED
    BY <2>2, Zenon DEF AtEnd
<1>8. At
  <2> HIDE DEF At
  <2>1. QED
    BY <1>2, <1>4, <1>5, <1>6, <1>7, Zenon DEF Reading
<1>9. QED
  BY <1>1, <1>4, <1>8, Zenon DEF ReaderAt

(* Only behind the last row the file has ended, and the row it closes then is empty. *)
LEMMA FileEnds ==
    ASSUME leadText \in Text, place \in Nat, NEW n, NEW ending, NEW a, NEW b, NEW d, NEW g,
           FileIs(n, ending, a, b, d, g), ReaderAt(n, a, b, d, g), D!EndOfFile
    PROVE  ReaderAt(n, a, b, d, g)'
<1>1. /\ phase = "reading" /\ place > Len(leadText)
      /\ phase' = IF Len(unwritten') > MaxLeads THEN "done" ELSE "writing"
      /\ D!EndsRow(0)
  BY Zenon DEF D!EndOfFile
<1>2. Reading(leadText, leadFile, n, a, b, d, g, quoted, place, cell, line, table)
  <2>1. phase \notin {"writing", "done"}
    BY <1>1
  <2>2. QED
    BY <2>1, Zenon DEF ReaderAt
<1>3. /\ n \in Nat /\ FileLaid(leadText, leadFile, n, ending, a, b, d)
      /\ ending \in D!Ending
  <2>1. n \in Nat \ {0}
    BY Zenon DEF FileIs
  <2>2. n \in Nat
    BY <2>1
  <2>3. QED
    BY <2>2, Zenon DEF FileIs
<1>4. PICK said : said = leadFile /\ FileLaid(leadText, said, n, ending, a, b, d)
  BY <1>3, Zenon
<1>5. ASSUME NEW k \in 1..n
      PROVE  /\ ~ InFirst(leadText, said, k, a, b, d, g, quoted, place, cell, line, table)
             /\ ~ InSecond(leadText, said, k, a, b, d, g, quoted, place, cell, line, table)
  <2>1. /\ said[k][1] \in Text /\ said[k][2] \in Text
        /\ b[k] \in Nat /\ b[k] <= Len(leadText) /\ Has(leadText, d[k], ending)
    BY <1>4, Zenon DEF FileLaid, RowLaid
  <2>2. d[k] \in Nat /\ d[k] <= Len(leadText)
    BY <1>3, <2>1, EndingsAre
  <2>3. PICK c, w, x, y, z : /\ c = said[k][1] /\ w = said[k][2]
                             /\ x = a[k] /\ y = b[k] /\ z = d[k]
    OBVIOUS
  <2>4. ~ (place <= Len(leadText))
    <3>1. Len(leadText) \in Nat
      BY DEF Text
    <3>2. QED
      BY <1>1, <3>1
  <2>5. c \in Text /\ y \in Nat /\ y <= Len(leadText)
    BY <2>1, <2>3, Zenon
  <2>6. w \in Text /\ z \in Nat /\ z <= Len(leadText)
    BY <2>1, <2>2, <2>3, Zenon
  <2>7. ~ Within(leadText, c, x, y, quoted, place, cell)
    BY <2>4, <2>5, CellEnds, Zenon
  <2>8. PICK v : v = y + 1
    OBVIOUS
  <2>9. ~ Within(leadText, w, v, z, quoted, place, cell)
    BY <2>4, <2>6, CellEnds, Zenon
  <2>10. QED
    BY <2>3, <2>7, <2>8, <2>9, Zenon DEF InFirst, InSecond
<1>6. AtEnd(leadText, n, g, quoted, place, cell, line, table)
  BY <1>2, <1>4, <1>5, Zenon DEF Reading
<1>7. table = g[n] /\ line = <<>> /\ cell = <<>>
  BY <1>6, Zenon DEF AtEnd
<1>8. PICK r : /\ r = Append(line, D!Trim(cell))
               /\ table' = IF D!Full(r) THEN Append(table, r) ELSE table
  BY <1>1, Zenon DEF D!EndsRow
<1>9. r = << <<>> >>
  <2>1. D!Trim(<<>>) = <<>>
    BY DEF D!Trim
  <2>2. Append(<<>>, <<>>) = << <<>> >>
    OBVIOUS
  <2>3. QED
    BY <1>7, <1>8, <2>1, <2>2, Zenon
<1>10. ~ D!Full(r)
  <2>1. DOMAIN r = {1} /\ r[1] = <<>>
    BY <1>9
  <2>2. QED
    BY <2>1 DEF D!Full
<1>11. table' = g[n]
  BY <1>7, <1>8, <1>10, Zenon
<1>12. phase' \in {"writing", "done"}
  BY <1>1
<1>13. QED
  BY <1>11, <1>12, Zenon DEF ReaderAt

LEMMA FileRepeats ==
    ASSUME leadText \in Text, NEW n, NEW ending, NEW a, NEW b, NEW d, NEW g,
           FileIs(n, ending, a, b, d, g), D!Repeat
    PROVE  ReaderAt(n, a, b, d, g)'
<1>1. /\ phase' = "reading" /\ leadText' = leadText /\ leadFile' = leadFile
      /\ ~ quoted' /\ place' = 1 /\ cell' = <<>> /\ line' = <<>> /\ table' = <<>>
  BY Zenon DEF D!Repeat
<1>2. n \in Nat \ {0} /\ FileLaid(leadText, leadFile, n, ending, a, b, d) /\ Tabled(g, leadFile, n)
  BY Zenon DEF FileIs
<1>3. PICK said, q : said = leadFile /\ q = quoted'
  OBVIOUS
<1>4. ~ q /\ FileLaid(leadText, said, n, ending, a, b, d) /\ Tabled(g, said, n)
  BY <1>1, <1>2, <1>3, Zenon
<1>5. Reading(leadText, said, n, a, b, d, g, q, 1, <<>>, <<>>, <<>>)
  BY <1>2, <1>4, FileStarts
<1>6. QED
  BY <1>1, <1>3, <1>5, Zenon DEF ReaderAt

LEMMA FileStep ==
    ASSUME FileInv, leadText \in Text, place \in Nat, leadText' \in Text, [D!Next]_D!vars
    PROVE  FileInv'
<1>1. ASSUME NEW company \in LeadCompany, NEW email \in LeadEmail, NEW copies \in 1..2,
             NEW always \in BOOLEAN, NEW ending \in D!Ending,
             D!Upload(company, email, copies, always, ending)
      PROVE  FileInv'
  BY <1>1, FileUploaded
<1>2. CASE \/ D!Read \/ D!EndOfFile \/ D!WriteRow \/ D!Answer \/ D!Repeat
           \/ UNCHANGED D!vars /\ phase # "none"
  <2>1. phase # "none" /\ leadFile' = leadFile /\ leadText' = leadText
    <3>1. /\ D!Read \/ D!EndOfFile => phase = "reading"
          /\ D!WriteRow \/ D!Answer => phase = "writing"
          /\ D!Repeat => phase \in {"reading", "writing"}
      BY Zenon DEF D!Read, D!EndOfFile, D!WriteRow, D!Answer, D!Repeat
    <3>2. phase # "none"
      BY <1>2, <3>1
    <3>3. leadFile' = leadFile /\ leadText' = leadText
      BY <1>2, Zenon DEF D!Read, D!EndOfFile, D!WriteRow, D!Answer, D!Repeat, D!vars
    <3>4. QED
      BY <3>2, <3>3
  <2>2. PICK n, ending, a, b, d, g : FileIs(n, ending, a, b, d, g) /\ ReaderAt(n, a, b, d, g)
    BY <2>1, Zenon DEF FileInv
  <2>3. FileIs(n, ending, a, b, d, g)'
    BY <2>1, <2>2, Zenon DEF FileIs
  <2>4. CASE D!Read
    <3>1. ReaderAt(n, a, b, d, g)'
      BY <2>2, <2>4, FileRead
    <3>2. QED
      BY <2>3, <3>1, Zenon DEF FileInv
  <2>5. CASE D!EndOfFile
    <3>1. ReaderAt(n, a, b, d, g)'
      BY <2>2, <2>5, FileEnds
    <3>2. QED
      BY <2>3, <3>1, Zenon DEF FileInv
  <2>6. CASE D!Repeat
    <3>1. ReaderAt(n, a, b, d, g)'
      BY <2>2, <2>6, FileRepeats
    <3>2. QED
      BY <2>3, <3>1, Zenon DEF FileInv
  <2>7. CASE D!WriteRow \/ D!Answer
    <3>1. phase = "writing" /\ table' = table
      BY <2>7, Zenon DEF D!WriteRow, D!Answer, D!reader
    <3>2. phase' \in {"writing", "done"}
      BY <2>7, <3>1 DEF D!WriteRow, D!Answer
    <3>3. phase # "reading"
      BY <3>1
    <3>4. ReaderAt(n, a, b, d, g)'
      BY <2>2, <3>1, <3>2, <3>3, Zenon DEF ReaderAt
    <3>5. QED
      BY <2>3, <3>4, Zenon DEF FileInv
  <2>8. CASE UNCHANGED D!vars
    <3>1. ReaderAt(n, a, b, d, g)'
      BY <2>1, <2>2, <2>8, Zenon DEF ReaderAt, D!vars
    <3>2. QED
      BY <2>3, <3>1, Zenon DEF FileInv
  <2>9. QED
    BY <1>2, <2>4, <2>5, <2>6, <2>7, <2>8, Zenon
<1>3. CASE UNCHANGED D!vars /\ phase = "none"
  <2>1. /\ phase' = "none" /\ quoted' = quoted /\ place' = place /\ cell' = cell
        /\ line' = line /\ table' = table
    BY <1>3, Zenon DEF D!vars
  <2>2. phase \notin {"reading", "writing", "done"}
    BY <1>3
  <2>3. ~ quoted /\ place = 1 /\ cell = <<>> /\ line = <<>> /\ table = <<>>
    BY <2>2, Zenon DEF FileInv, ReaderAt
  <2>4. QED
    BY <2>1, <2>3, Zenon DEF FileInv
<1>4. QED
  BY <1>1, <1>2, <1>3, Zenon DEF D!Next

(* A file is imported as it was written (csv.ts:9). *)
LEMMA FileHolds == D!Spec => []D!ReadAsWritten
<1>1. D!Init => FileInv
  BY Zenon DEF D!Init, FileInv
<1>2. D!TypeOK /\ D!TypeOK' /\ FileInv /\ [D!Next]_D!vars => FileInv'
  <2>1. SUFFICES ASSUME D!TypeOK, D!TypeOK', FileInv, [D!Next]_D!vars PROVE FileInv'
    BY Zenon
  <2>2. leadText \in Text /\ place \in 1..Len(leadText) + 1 /\ leadText' \in Text
    BY <2>1, Zenon DEF D!TypeOK, Text
  <2>3. Len(leadText) \in Nat
    BY <2>2 DEF Text
  <2>4. place \in Nat
    BY <2>2, <2>3
  <2>5. QED
    BY <2>1, <2>2, <2>4, FileStep
<1>4. FileInv => D!ReadAsWritten
  <2>1. SUFFICES ASSUME FileInv, phase \in {"writing", "done"}
                 PROVE  table = D!Contents(leadFile)
    BY Zenon DEF D!ReadAsWritten
  <2>2. phase # "none" /\ phase # "reading"
    BY <2>1
  <2>3. PICK n, ending, a, b, d, g : FileIs(n, ending, a, b, d, g) /\ ReaderAt(n, a, b, d, g)
    BY <2>1, <2>2, Zenon DEF FileInv
  <2>4. QED
    BY <2>2, <2>3, Zenon DEF FileIs, ReaderAt, Tabled
<1>5. QED
  BY <1>1, <1>2, <1>4, LeadsHold, PTL DEF D!Spec
=============================================================================
