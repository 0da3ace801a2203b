--------------------------- MODULE MCMailReceipt ----------------------------
(***************************************************************************)
(* Instances of MailReceipt for TLC: callers and inputs are model values.  *)
(***************************************************************************)
EXTENDS MailReceipt, TLC

CONSTANTS c1, c2, c3, i1, i2

TwoCallers   == {c1, c2}
ThreeCallers == {c1, c2, c3}
TwoInputs    == {i1, i2}
=============================================================================
