--------------------------- MODULE MCDiscoveryRun ---------------------------
(***************************************************************************)
(* Instances of DiscoveryRun for TLC.                                      *)
(***************************************************************************)
EXTENDS DiscoveryRun, TLC

CONSTANTS w1, w2, c1, c2, r1, r2, p1, p2

OneWorker    == {w1}
TwoWorkers   == {w1, w2}
OneCampaign  == {c1}
TwoCampaigns == {c1, c2}
NoRun        == {}
FirstRun     == {r1}
SecondRun    == {r2}
BothRuns     == {r1, r2}
SameCampaign == [r \in {r1, r2} |-> c1]
FirstOnly    == [r \in {r1} |-> c1]
OneEach      == [r \in {r1, r2} |-> IF r = r1 THEN c1 ELSE c2]
OneProspect  == {p1}
TwoProspects == {p1, p2}
NoDummy      == {}

Posts     == {"post"}
Lists   == {"week", "suppress", "stop", "toggle"}
Toggles   == {"toggle"}

WorkerSymmetry   == Permutations(TwoWorkers)
ProspectSymmetry == Permutations(TwoWorkers) \cup Permutations(TwoProspects)
=============================================================================
