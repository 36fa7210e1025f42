--------------------------- MODULE MCQueryBroker ---------------------------
\* Instances of QueryBroker for TLC.
EXTENDS QueryBroker, TLC
CONSTANTS v1

\* All requests are for one vehicle, so the reads are alike.
MCOneVehicle == [r \in Requests |-> v1]
Alike == Permutations(Callers) \cup Permutations(Jobs) \cup Permutations(Reads)
=============================================================================
