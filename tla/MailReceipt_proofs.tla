------------------------- MODULE MailReceipt_proofs -------------------------
(***************************************************************************)
(* Proofs about MailReceipt, for every set of callers and inputs.          *)
(***************************************************************************)
EXTENDS MailReceipt, TLAPS

(* Every reachable state is well typed, and a known draft id is kept. *)
LEMMA Typed == Spec => []TypeInv
<1>1. ASSUME Init PROVE TypeInv
  <2>1. TypeOK
    <3>1. /\ status \in ReceiptStatus /\ draftId \in Draft \cup {None}
          /\ requestHash \in Input \cup {None} /\ recovered \in BOOLEAN
      BY <1>1 DEF Init, ReceiptStatus
    <3>2. /\ pc \in [Caller -> Point] /\ input \in [Caller -> Input \cup {None}]
          /\ held \in [Caller -> Draft \cup {None}]
      BY <1>1 DEF Init, Point
    <3>3. /\ created \in 0..MaxDraft /\ content \in [Draft -> Input \cup {None}]
          /\ inflight \subseteq Draft /\ sent \subseteq Draft /\ returned \subseteq Draft
      BY <1>1, MailReceiptAssumption DEF Init
    <3>4. QED
      BY <3>1, <3>2, <3>3 DEF TypeOK
  <2>2. Named
    BY <1>1 DEF Init, Named
  <2>3. QED
    BY <2>1, <2>2 DEF TypeInv
<1>2. TypeInv /\ [Next]_vars => TypeInv'
  <2> SUFFICES ASSUME TypeInv, [Next]_vars PROVE TypeInv'
    OBVIOUS
  <2> USE MailReceiptAssumption DEF TypeInv, TypeOK, Named, ReceiptStatus, Point, Draft,
          row, call, graph, GoTo, Finish
  <2>1. ASSUME NEW c \in Caller, NEW i \in Input, Begin(c, i) PROVE TypeInv'
    BY <2>1 DEF Begin, Branch
  <2>2. ASSUME NEW c \in Caller, NEW i \in Input, BeginAccepted(c, i) PROVE TypeInv'
    BY <2>2 DEF BeginAccepted
  <2>3. ASSUME NEW c \in Caller, Recover(c) PROVE TypeInv'
    BY <2>3 DEF Recover
  <2>4. ASSUME NEW c \in Caller, ClaimCreate(c) \/ ClaimCreateLost(c) PROVE TypeInv'
    BY <2>4, ZenonT(40) DEF ClaimCreate, ClaimCreateLost
  <2>5. ASSUME NEW c \in Caller, DraftCreated(c) PROVE TypeInv'
    BY <2>5 DEF DraftCreated
  <2>6. ASSUME NEW c \in Caller, DraftRejected(c) \/ DraftUncertain(c) PROVE TypeInv'
    BY <2>6, ZenonT(40) DEF DraftRejected, DraftUncertain
  <2>7. ASSUME NEW c \in Caller, ClaimSubmit(c) \/ ClaimSubmitLost(c) PROVE TypeInv'
    BY <2>7, ZenonT(40) DEF ClaimSubmit, ClaimSubmitLost
  <2>8. ASSUME NEW c \in Caller, SubmitAccepted(c) \/ SubmitUncertain(c) PROVE TypeInv'
    BY <2>8, ZenonT(40) DEF SubmitAccepted, SubmitUncertain
  <2>9. ASSUME NEW c \in Caller, ReconcileSent(c) \/ ReconcileUncertain(c) \/ ReconcileWrite(c)
        PROVE  TypeInv'
    BY <2>9, ZenonT(40) DEF ReconcileSent, ReconcileUncertain, ReconcileWrite
  <2>10. ASSUME NEW c \in Caller, Crash(c) PROVE TypeInv'
    BY <2>10 DEF Crash
  <2>11. ASSUME GraphStep PROVE TypeInv'
    BY <2>11 DEF GraphStep, GraphSends, GraphLoses
  <2>12. CASE UNCHANGED vars
    BY <2>12 DEF vars
  <2>13. QED
    BY <2>1, <2>2, <2>3, <2>4, <2>5, <2>6, <2>7, <2>8, <2>9, <2>10, <2>11, <2>12
       DEF Next, CallStep
<1>3. QED
  BY <1>1, <1>2, PTL DEF Spec

(* The receipt row, every call and the sender's mailbox stay well typed, for any
   number of callers and texts, overlapping or not. *)
THEOREM Typing == Spec => []TypeOK
<1>1. TypeInv => TypeOK
  BY DEF TypeInv
<1>2. QED
  BY <1>1, Typed, PTL

(* Whatever calls overlap, crash or retry, the recipient is only ever sent the
   text the receipt was bound to. *)
THEOREM BoundContent == Spec => []DeliveredAsBound
<1>1. Init => Bound
  BY DEF Init, Bound
<1>2. TypeInv /\ Bound /\ [Next]_vars => Bound'
  <2> SUFFICES ASSUME TypeInv, Bound, [Next]_vars PROVE Bound'
    OBVIOUS
  <2> USE MailReceiptAssumption DEF TypeInv, TypeOK, Named, Bound, ReceiptStatus, Point,
          Draft, row, call, graph, GoTo, Finish
  <2>1. ASSUME NEW c \in Caller, NEW i \in Input, Begin(c, i) PROVE Bound'
    BY <2>1 DEF Begin, Branch
  <2>2. ASSUME NEW c \in Caller, NEW i \in Input, BeginAccepted(c, i) PROVE Bound'
    BY <2>2 DEF BeginAccepted
  <2>3. ASSUME NEW c \in Caller, Recover(c) PROVE Bound'
    BY <2>3 DEF Recover
  <2>4. ASSUME NEW c \in Caller, ClaimCreate(c) \/ ClaimCreateLost(c) PROVE Bound'
    BY <2>4, ZenonT(40) DEF ClaimCreate, ClaimCreateLost
  <2>5. ASSUME NEW c \in Caller, DraftCreated(c) PROVE Bound'
    BY <2>5 DEF DraftCreated
  <2>6. ASSUME NEW c \in Caller, DraftRejected(c) \/ DraftUncertain(c) PROVE Bound'
    BY <2>6, ZenonT(40) DEF DraftRejected, DraftUncertain
  <2>7. ASSUME NEW c \in Caller, ClaimSubmit(c) \/ ClaimSubmitLost(c) PROVE Bound'
    BY <2>7, ZenonT(40) DEF ClaimSubmit, ClaimSubmitLost
  <2>8. ASSUME NEW c \in Caller, SubmitAccepted(c) \/ SubmitUncertain(c) PROVE Bound'
    BY <2>8, ZenonT(40) DEF SubmitAccepted, SubmitUncertain
  <2>9. ASSUME NEW c \in Caller, ReconcileSent(c) \/ ReconcileUncertain(c) \/ ReconcileWrite(c)
        PROVE  Bound'
    BY <2>9, ZenonT(40) DEF ReconcileSent, ReconcileUncertain, ReconcileWrite
  <2>10. ASSUME NEW c \in Caller, Crash(c) PROVE Bound'
    BY <2>10 DEF Crash
  <2>11. ASSUME GraphStep PROVE Bound'
    BY <2>11 DEF GraphStep, GraphSends, GraphLoses
  <2>12. CASE UNCHANGED vars
    BY <2>12 DEF vars
  <2>13. QED
    BY <2>1, <2>2, <2>3, <2>4, <2>5, <2>6, <2>7, <2>8, <2>9, <2>10, <2>11, <2>12
       DEF Next, CallStep
<1>3. Bound => DeliveredAsBound
  BY DEF Bound, DeliveredAsBound
<1>4. QED
  BY <1>1, <1>2, <1>3, Typed, PTL DEF Spec

-----------------------------------------------------------------------------
(* No step makes calls safe again: the history of a reset is never undone. *)
LEMMA SafeIsStable == ASSUME [Next]_vars, Safe', TypeInv PROVE Safe
<1>1. recovered' = recovered \/ recovered'
  BY DEF Next, CallStep, GraphStep, Begin, BeginAccepted, Recover, ClaimCreate,
         ClaimCreateLost, DraftCreated, DraftRejected, DraftUncertain, ClaimSubmit,
         ClaimSubmitLost, SubmitAccepted, SubmitUncertain, ReconcileSent,
         ReconcileUncertain, ReconcileWrite, Crash, GraphSends, GraphLoses, vars
<1>2. QED
  BY <1>1 DEF Safe, TypeInv, TypeOK

(* While calls are safe, SafeInv's four parts are kept by every step. *)
LEMMA OneCallStep ==
  ASSUME TypeInv, OneCreator, OneDraft, AcceptedIsSent, OneCall, Safe', [Next]_vars
  PROVE  OneCall'
<1> USE MailReceiptAssumption DEF TypeInv, TypeOK, Named, OneCall, Safe, ReceiptStatus,
        Point, Draft, row, call, graph, GoTo, Finish
<1>1. ASSUME NEW c \in Caller, NEW i \in Input, Begin(c, i)
      PROVE  OneCall'
  BY <1>1 DEF Begin, Branch
<1>2. ASSUME NEW c \in Caller, NEW i \in Input, BeginAccepted(c, i)
      PROVE  OneCall'
  BY <1>2 DEF BeginAccepted
<1>3. ASSUME NEW c \in Caller, Recover(c)
      PROVE  OneCall'
  BY <1>3 DEF Recover
<1>4. ASSUME NEW c \in Caller, ClaimCreate(c) \/ ClaimCreateLost(c)
      PROVE  OneCall'
  BY <1>4 DEF ClaimCreate, ClaimCreateLost
<1>5. ASSUME NEW c \in Caller, DraftCreated(c)
      PROVE  OneCall'
  BY <1>5 DEF DraftCreated
<1>6. ASSUME NEW c \in Caller, DraftRejected(c) \/ DraftUncertain(c)
      PROVE  OneCall'
  BY <1>6 DEF DraftRejected, DraftUncertain
<1>7. ASSUME NEW c \in Caller, ClaimSubmit(c) \/ ClaimSubmitLost(c)
      PROVE  OneCall'
  BY <1>7 DEF ClaimSubmit, ClaimSubmitLost
<1>8. ASSUME NEW c \in Caller, SubmitAccepted(c) \/ SubmitUncertain(c)
      PROVE  OneCall'
  BY <1>8 DEF SubmitAccepted, SubmitUncertain
<1>9. ASSUME NEW c \in Caller, ReconcileSent(c) \/ ReconcileUncertain(c) \/ ReconcileWrite(c)
      PROVE  OneCall'
  BY <1>9 DEF ReconcileSent, ReconcileUncertain, ReconcileWrite
<1>10. ASSUME NEW c \in Caller, Crash(c)
      PROVE  OneCall'
  BY <1>10 DEF Crash
<1>11. ASSUME GraphStep
      PROVE  OneCall'
  BY <1>11 DEF GraphStep, GraphSends, GraphLoses
<1>12. CASE UNCHANGED vars
  BY <1>12 DEF vars
<1>13. QED
  BY <1>1, <1>2, <1>3, <1>4, <1>5, <1>6, <1>7, <1>8, <1>9, <1>10, <1>11, <1>12
     DEF Next, CallStep

LEMMA OneCreatorStep ==
  ASSUME TypeInv, OneCreator, OneDraft, AcceptedIsSent, OneCall, Safe', [Next]_vars
  PROVE  OneCreator'
<1> USE MailReceiptAssumption DEF TypeInv, TypeOK, Named, OneCreator, OneDraft, OneCall, Safe, ReceiptStatus,
        Point, Draft, row, call, graph, GoTo, Finish
<1>1. ASSUME NEW c \in Caller, NEW i \in Input, Begin(c, i)
      PROVE  OneCreator'
  BY <1>1 DEF Begin, Branch
<1>2. ASSUME NEW c \in Caller, NEW i \in Input, BeginAccepted(c, i)
      PROVE  OneCreator'
  BY <1>2 DEF BeginAccepted
<1>3. ASSUME NEW c \in Caller, Recover(c)
      PROVE  OneCreator'
  BY <1>3 DEF Recover
<1>4. ASSUME NEW c \in Caller, ClaimCreate(c) \/ ClaimCreateLost(c)
      PROVE  OneCreator'
  BY <1>4 DEF ClaimCreate, ClaimCreateLost
<1>5. ASSUME NEW c \in Caller, DraftCreated(c)
      PROVE  OneCreator'
  BY <1>5 DEF DraftCreated
<1>6. ASSUME NEW c \in Caller, DraftRejected(c) \/ DraftUncertain(c)
      PROVE  OneCreator'
  BY <1>6 DEF DraftRejected, DraftUncertain
<1>7. ASSUME NEW c \in Caller, ClaimSubmit(c) \/ ClaimSubmitLost(c)
      PROVE  OneCreator'
  BY <1>7 DEF ClaimSubmit, ClaimSubmitLost
<1>8. ASSUME NEW c \in Caller, SubmitAccepted(c) \/ SubmitUncertain(c)
      PROVE  OneCreator'
  BY <1>8 DEF SubmitAccepted, SubmitUncertain
<1>9. ASSUME NEW c \in Caller, ReconcileSent(c) \/ ReconcileUncertain(c) \/ ReconcileWrite(c)
      PROVE  OneCreator'
  BY <1>9 DEF ReconcileSent, ReconcileUncertain, ReconcileWrite
<1>10. ASSUME NEW c \in Caller, Crash(c)
      PROVE  OneCreator'
  BY <1>10 DEF Crash
<1>11. ASSUME GraphStep
      PROVE  OneCreator'
  BY <1>11 DEF GraphStep, GraphSends, GraphLoses
<1>12. CASE UNCHANGED vars
  BY <1>12 DEF vars
<1>13. QED
  BY <1>1, <1>2, <1>3, <1>4, <1>5, <1>6, <1>7, <1>8, <1>9, <1>10, <1>11, <1>12
     DEF Next, CallStep

LEMMA OneDraftStep ==
  ASSUME TypeInv, OneCreator, OneDraft, AcceptedIsSent, OneCall, Safe', [Next]_vars
  PROVE  OneDraft'
<1> USE MailReceiptAssumption DEF TypeInv, TypeOK, Named, OneCreator, OneDraft, OneCall, Safe, ReceiptStatus,
        Point, Draft, row, call, graph, GoTo, Finish
<1>1. ASSUME NEW c \in Caller, NEW i \in Input, Begin(c, i)
      PROVE  OneDraft'
  BY <1>1 DEF Begin, Branch
<1>2. ASSUME NEW c \in Caller, NEW i \in Input, BeginAccepted(c, i)
      PROVE  OneDraft'
  BY <1>2 DEF BeginAccepted
<1>3. ASSUME NEW c \in Caller, Recover(c)
      PROVE  OneDraft'
  BY <1>3 DEF Recover
<1>4. ASSUME NEW c \in Caller, ClaimCreate(c) \/ ClaimCreateLost(c)
      PROVE  OneDraft'
  BY <1>4, ZenonT(40) DEF ClaimCreate, ClaimCreateLost
<1>5. ASSUME NEW c \in Caller, DraftCreated(c)
      PROVE  OneDraft'
  BY <1>5 DEF DraftCreated
<1>6. ASSUME NEW c \in Caller, DraftRejected(c) \/ DraftUncertain(c)
      PROVE  OneDraft'
  <2>1. status = "CREATING" /\ draftId = None
    BY <1>6 DEF DraftRejected, DraftUncertain
  <2>2. \A o \in Caller : pc[o] # "submitting"
    BY <2>1
  <2>3. /\ UNCHANGED <<draftId, inflight, sent>> /\ status' \in {"NEW", "AMBIGUOUS"}
        /\ pc' = [pc EXCEPT ![c] = "idle"] /\ held' = [held EXCEPT ![c] = None]
    BY <1>6 DEF DraftRejected, DraftUncertain
  <2>4. QED
    BY <2>1, <2>2, <2>3
<1>7. ASSUME NEW c \in Caller, ClaimSubmit(c) \/ ClaimSubmitLost(c)
      PROVE  OneDraft'
  BY <1>7 DEF ClaimSubmit, ClaimSubmitLost
<1>8. ASSUME NEW c \in Caller, SubmitAccepted(c) \/ SubmitUncertain(c)
      PROVE  OneDraft'
  BY <1>8 DEF SubmitAccepted, SubmitUncertain
<1>9. ASSUME NEW c \in Caller, ReconcileSent(c) \/ ReconcileUncertain(c) \/ ReconcileWrite(c)
      PROVE  OneDraft'
  BY <1>9, ZenonT(40) DEF ReconcileSent, ReconcileUncertain, ReconcileWrite
<1>10. ASSUME NEW c \in Caller, Crash(c)
      PROVE  OneDraft'
  BY <1>10 DEF Crash
<1>11. ASSUME GraphStep
      PROVE  OneDraft'
  BY <1>11 DEF GraphStep, GraphSends, GraphLoses
<1>12. CASE UNCHANGED vars
  BY <1>12 DEF vars
<1>13. QED
  BY <1>1, <1>2, <1>3, <1>4, <1>5, <1>6, <1>7, <1>8, <1>9, <1>10, <1>11, <1>12
     DEF Next, CallStep

LEMMA AcceptedIsSentStep ==
  ASSUME TypeInv, OneCreator, OneDraft, AcceptedIsSent, OneCall, Safe', [Next]_vars
  PROVE  AcceptedIsSent'
<1> USE MailReceiptAssumption DEF TypeInv, TypeOK, Named, OneDraft, AcceptedIsSent, Safe, ReceiptStatus,
        Point, Draft, row, call, graph, GoTo, Finish
<1>1. ASSUME NEW c \in Caller, NEW i \in Input, Begin(c, i)
      PROVE  AcceptedIsSent'
  BY <1>1 DEF Begin, Branch
<1>2. ASSUME NEW c \in Caller, NEW i \in Input, BeginAccepted(c, i)
      PROVE  AcceptedIsSent'
  BY <1>2 DEF BeginAccepted
<1>3. ASSUME NEW c \in Caller, Recover(c)
      PROVE  AcceptedIsSent'
  BY <1>3 DEF Recover
<1>4. ASSUME NEW c \in Caller, ClaimCreate(c) \/ ClaimCreateLost(c)
      PROVE  AcceptedIsSent'
  BY <1>4, ZenonT(40) DEF ClaimCreate, ClaimCreateLost
<1>5. ASSUME NEW c \in Caller, DraftCreated(c)
      PROVE  AcceptedIsSent'
  BY <1>5 DEF DraftCreated
<1>6. ASSUME NEW c \in Caller, DraftRejected(c) \/ DraftUncertain(c)
      PROVE  AcceptedIsSent'
  BY <1>6, ZenonT(40) DEF DraftRejected, DraftUncertain
<1>7. ASSUME NEW c \in Caller, ClaimSubmit(c) \/ ClaimSubmitLost(c)
      PROVE  AcceptedIsSent'
  BY <1>7, ZenonT(40) DEF ClaimSubmit, ClaimSubmitLost
<1>8. ASSUME NEW c \in Caller, SubmitAccepted(c) \/ SubmitUncertain(c)
      PROVE  AcceptedIsSent'
  BY <1>8, ZenonT(40) DEF SubmitAccepted, SubmitUncertain
<1>9. ASSUME NEW c \in Caller, ReconcileSent(c) \/ ReconcileUncertain(c) \/ ReconcileWrite(c)
      PROVE  AcceptedIsSent'
  <2>1. CASE ReconcileSent(c)
    BY <2>1 DEF ReconcileSent
  <2>2. CASE ReconcileUncertain(c)
    BY <2>2 DEF ReconcileUncertain
  <2>3. CASE ReconcileWrite(c)
    <3>1. held[c] = draftId /\ draftId \in sent
      BY <2>3 DEF ReconcileWrite
    <3>2. QED
      BY <2>3, <3>1 DEF ReconcileWrite
  <2>4. QED
    BY <1>9, <2>1, <2>2, <2>3
<1>10. ASSUME NEW c \in Caller, Crash(c)
      PROVE  AcceptedIsSent'
  BY <1>10 DEF Crash
<1>11. ASSUME GraphStep
      PROVE  AcceptedIsSent'
  BY <1>11 DEF GraphStep, GraphSends, GraphLoses
<1>12. CASE UNCHANGED vars
  BY <1>12 DEF vars
<1>13. QED
  BY <1>1, <1>2, <1>3, <1>4, <1>5, <1>6, <1>7, <1>8, <1>9, <1>10, <1>11, <1>12
     DEF Next, CallStep

LEMMA Safety == Spec => [](TypeInv /\ SafeInv)
<1>1. Init => SafeInv
  BY DEF Init, SafeInv, OneCreator, OneDraft, AcceptedIsSent, OneCall
<1>2. TypeInv /\ SafeInv /\ [Next]_vars => SafeInv'
  BY SafeIsStable, OneCallStep, OneCreatorStep, OneDraftStep, AcceptedIsSentStep
     DEF SafeInv
<1>3. QED
  BY <1>1, <1>2, Typed, PTL DEF Spec

(* However many workers overlap on a key, and whatever they lose or crash in,
   a recipient gets a second message only if a receipt was reset to NEW. *)
THEOREM OverlapAtMostOnce == Spec => []SecondDeliveryNeedsReset
<1>1. TypeInv /\ SafeInv => SecondDeliveryNeedsReset
  BY DEF TypeInv, TypeOK, SafeInv, Safe, OneDraft, SecondDeliveryNeedsReset, AtMostOneDelivery
<1>2. QED
  BY <1>1, Safety, PTL

(* Calls that do not overlap deliver at most one message, through every crash,
   lost answer, retry and late arrival. *)
THEOREM SerialAtMostOnce == ASSUME Serial PROVE Spec => []AtMostOneDelivery
<1>1. TypeInv /\ SafeInv => AtMostOneDelivery
  BY DEF SafeInv, Safe, OneDraft, AtMostOneDelivery
<1>2. QED
  BY <1>1, Safety, PTL

(* Such calls never report as accepted a message Graph did not send. *)
THEOREM SerialReported == ASSUME Serial PROVE Spec => []ReportedWasSent
<1>1. TypeInv /\ SafeInv => ReportedWasSent
  BY DEF SafeInv, Safe, AcceptedIsSent, ReportedWasSent
<1>2. QED
  BY <1>1, Safety, PTL

(* Without a reset, a receipt whose submission has begun stays submitted. *)
THEOREM OverlapNeverResubmitted == Spec => NeverResubmittedWithoutReset
<1>1. TypeInv /\ SafeInv /\ SafeInv' /\ [Next]_vars =>
        (SubmissionBegun(status, draftId) /\ ~recovered' => SubmissionBegun(status', draftId'))
  <2> SUFFICES ASSUME TypeInv, SafeInv, [Next]_vars,
                      SubmissionBegun(status, draftId), ~recovered'
               PROVE  SubmissionBegun(status', draftId')
    OBVIOUS
  <2>1. Safe /\ OneCreator /\ OneDraft
    BY SafeIsStable DEF Safe, SafeInv
  <2> USE <2>1 DEF SubmissionBegun, OneCreator, OneDraft, TypeInv, TypeOK, Named, ReceiptStatus,
          Point, row, call, graph, GoTo, Finish
  <2>2. CASE UNCHANGED vars
    BY <2>2 DEF vars
  <2>3. ASSUME NEW c \in Caller, CallStep(c)
        PROVE  SubmissionBegun(status', draftId')
    <3>1. CASE \E i \in Input : Begin(c, i) \/ BeginAccepted(c, i)
      BY <3>1 DEF Begin, BeginAccepted
    <3>2. CASE Recover(c)
      BY <3>2 DEF Recover
    <3>3. CASE ClaimCreate(c) \/ ClaimCreateLost(c)
      BY <3>3 DEF ClaimCreate, ClaimCreateLost
    <3>4. CASE DraftCreated(c) \/ DraftRejected(c) \/ DraftUncertain(c)
      BY <3>4 DEF DraftCreated, DraftRejected, DraftUncertain
    <3>5. CASE ClaimSubmit(c) \/ ClaimSubmitLost(c)
      BY <3>5 DEF ClaimSubmit, ClaimSubmitLost
    <3>6. CASE SubmitAccepted(c) \/ SubmitUncertain(c)
      BY <3>6 DEF SubmitAccepted, SubmitUncertain
    <3>7. CASE ReconcileSent(c) \/ ReconcileUncertain(c) \/ ReconcileWrite(c) \/ Crash(c)
      BY <3>7 DEF ReconcileSent, ReconcileUncertain, ReconcileWrite, Crash
    <3>8. QED
      BY <2>3, <3>1, <3>2, <3>3, <3>4, <3>5, <3>6, <3>7 DEF CallStep
  <2>4. CASE GraphStep
    BY <2>4 DEF GraphStep, GraphSends, GraphLoses
  <2>5. QED
    BY <2>2, <2>3, <2>4 DEF Next
<1>2. QED
  BY <1>1, Safety, PTL DEF NeverResubmittedWithoutReset, Spec

-----------------------------------------------------------------------------
(* Calls that do not overlap implement at-most-once sending: each step is a
   delivery, an acknowledgement or nothing to an observer of the mailbox. *)
THEOREM SerialImplements == ASSUME Serial PROVE Spec => ImplementsAtMostOnce
<1>1. Init => AMO!AInit
  BY DEF Init, AMO!AInit
<1>2. TypeInv /\ SafeInv /\ [Next]_vars => [AMO!ANext]_(AMO!avars)
  <2> SUFFICES ASSUME TypeInv, SafeInv, [Next]_vars PROVE [AMO!ANext]_(AMO!avars)
    OBVIOUS
  <2>1. OneDraft /\ AcceptedIsSent
    BY DEF SafeInv, Safe
  <2> USE <2>1 DEF AMO!avars, TypeInv, TypeOK, row, call, graph
  <2>2. ASSUME NEW d \in Draft, GraphSends(d) PROVE [AMO!ANext]_(AMO!avars)
    <3>1. sent \subseteq {d} /\ sent' = sent \cup {d} /\ returned' = returned
      BY <2>2 DEF GraphSends, OneDraft
    <3>2. CASE sent = {}
      <4>1. AMO!Deliver(d)
        BY <3>1, <3>2 DEF AMO!Deliver
      <4>2. QED
        BY <4>1 DEF AMO!ANext
    <3>3. CASE sent = {d}
      BY <3>1, <3>3
    <3>4. QED
      BY <3>1, <3>2, <3>3
  <2>3. ASSUME NEW d \in sent, returned' = returned \cup {d}, sent' = sent
        PROVE  [AMO!ANext]_(AMO!avars)
    <3>1. AMO!Acknowledge(d)
      BY <2>3 DEF AMO!Acknowledge
    <3>2. QED
      BY <3>1 DEF AMO!ANext
  <2>4. ASSUME NEW c \in Caller, NEW i \in Input, BeginAccepted(c, i)
        PROVE  [AMO!ANext]_(AMO!avars)
    BY <2>3, <2>4 DEF BeginAccepted, AcceptedIsSent
  <2>5. ASSUME NEW c \in Caller, SubmitAccepted(c) \/ ReconcileWrite(c)
        PROVE  [AMO!ANext]_(AMO!avars)
    BY <2>3, <2>5 DEF SubmitAccepted, ReconcileWrite, AcceptedIsSent
  <2>6. ASSUME UNCHANGED <<sent, returned>> PROVE [AMO!ANext]_(AMO!avars)
    BY <2>6
  <2>7. ASSUME NEW d \in Draft, GraphLoses(d) PROVE UNCHANGED <<sent, returned>>
    BY <2>7 DEF GraphLoses
  <2>8. ASSUME NEW c \in Caller, CallStep(c),
               ~SubmitAccepted(c), ~ReconcileWrite(c),
               ~\E i \in Input : BeginAccepted(c, i)
        PROVE  UNCHANGED <<sent, returned>>
    BY <2>8 DEF CallStep, Begin, Recover, ClaimCreate, ClaimCreateLost, DraftCreated,
         DraftRejected, DraftUncertain, ClaimSubmit, ClaimSubmitLost, SubmitUncertain,
         ReconcileSent, ReconcileUncertain, Crash
  <2>9. CASE UNCHANGED vars
    BY <2>6, <2>9 DEF vars
  <2>10. QED
    BY <2>2, <2>4, <2>5, <2>6, <2>7, <2>8, <2>9 DEF Next, GraphStep
<1>3. QED
  BY <1>1, <1>2, Safety, PTL DEF Spec, ImplementsAtMostOnce, AMO!ASpec

=============================================================================
