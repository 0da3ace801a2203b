---------------------------- MODULE MCMailCalls -----------------------------
(***************************************************************************)
(* Two scenarios of MailReceipt in one run, chosen initially: calls that   *)
(* do not overlap, through every failure and reset; and calls that do, up  *)
(* to the first reset of a receipt, after which the overlap can deliver    *)
(* twice (the run MailReceiptTwice).                                       *)
(***************************************************************************)
EXTENDS MCMailReceipt

VARIABLE overlap        \* rigid: the scenario

Overlapping == INSTANCE MailReceipt WITH Serial <- FALSE

MCInit == Init /\ overlap \in BOOLEAN

MCNext == /\ UNCHANGED overlap
          /\ \/ ~overlap /\ Next
             \/ overlap /\ Overlapping!Next /\ ~recovered'

MCSpec == MCInit /\ [][MCNext]_<<vars, overlap>>
=============================================================================
