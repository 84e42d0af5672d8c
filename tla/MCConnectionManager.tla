------------------------ MODULE MCConnectionManager ------------------------
(***************************************************************************)
(* Symmetry and a slice of the state space for model checking              *)
(* ConnectionManager.  Upgraders that listen and verification tests that   *)
(* overlap each multiply the states; Slice explores one of them at a time, *)
(* with everything else the manager does.                                  *)
(***************************************************************************)
EXTENDS ConnectionManager, TLC

ConnSymmetry == Permutations(Conn)

Listening   == \E i \in DOMAIN listeners : listeners[i] \in Upgrader
Overlapping == overlap \/ \E v \in Verifier : v > MaxAttempts + 1 /\ tpc[v] # "idle"

\* Verification tests differ in nothing but their number: one that runs alone is the first.
Slice == Overlapping => ~Listening /\ (overlap \/ tpc[MaxAttempts + 1] # "idle")
=============================================================================
