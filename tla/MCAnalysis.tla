------------------------------ MODULE MCAnalysis ------------------------------
(* Two sessions suggest the same host.  Tokens are random, so the session that *)
(* comes first is called t1.  Its client may also send junk, which is looked   *)
(* at while it is the only session and nothing fails: the safety properties    *)
(* are proved for any mixture.                                                 *)
EXTENDS Analysis

CONSTANTS t1, t2

MCHostOf == [s \in Session |-> "host"]

Slice ==
    /\ Known(t2) => Known(t1)
    /\ "junk" \in Seen(t1) => ~Known(t2) /\ faults = 0
=============================================================================
