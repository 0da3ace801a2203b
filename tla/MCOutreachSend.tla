--------------------------- MODULE MCOutreachSend ---------------------------
(***************************************************************************)
(* Instances of OutreachSend for TLC.                                      *)
(***************************************************************************)
EXTENDS OutreachSend, TLC

CONSTANTS w1, w2, a

OneWorker   == {w1}
TwoWorkers  == {w1, w2}
OneContact  == {a}

AllReadable  == {}
LastBroken   == {<<a, 3>>}

Reviewing == {"approve", "edit", "gate", "suppress", "elsewhere"}
People    == {"reply", "booking", "approve", "suppress", "day", "erase", "elsewhere"}

WorkerSymmetry == Permutations(TwoWorkers)
=============================================================================
