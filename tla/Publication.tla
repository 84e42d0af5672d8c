----------------------------- MODULE Publication -----------------------------
(***************************************************************************)
(* What central promises about the list of blocked hosts it publishes: a   *)
(* host enters it only for a session whose evidence is complete - a token, *)
(* a client's measurement and central's own - and neither evidence nor     *)
(* hosts are withdrawn.  Nothing is said about when, or in which order.    *)
(***************************************************************************)
CONSTANTS Session,          \* sessions of suggestions
          HostOf            \* Session -> the host it suggests

VARIABLES evidence,         \* sessions whose evidence is complete
          published         \* hosts on the list

Init == evidence = {} /\ published = {}

\* The last piece of a session's evidence arrives.
Complete(s) ==
    /\ s \notin evidence
    /\ evidence' = evidence \cup {s}
    /\ UNCHANGED published

Publish(s) ==
    /\ s \in evidence
    /\ published' = published \cup {HostOf[s]}
    /\ UNCHANGED evidence

Next == \E s \in Session : Complete(s) \/ Publish(s)

Spec == Init /\ [][Next]_<<evidence, published>>
=============================================================================
