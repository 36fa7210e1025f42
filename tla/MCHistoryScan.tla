--------------------------- MODULE MCHistoryScan ---------------------------
\* Instances of HistoryScan for TLC.
EXTENDS HistoryScan, TLC

ThreeRides == 1..3
FewOldRides == <<0, 3>>
ThisMonth == {2}
OldMonth == {1}
Alike == Permutations(Runs) \cup Permutations(Workers)
=============================================================================
