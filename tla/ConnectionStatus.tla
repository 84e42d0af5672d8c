--------------------------- MODULE ConnectionStatus ---------------------------
(***************************************************************************)
(* What the listeners of the connection manager may rely on while its      *)
(* verification tests do not overlap: connections are tried one after the  *)
(* other, each comes up at most once, each ends once, and the next one is  *)
(* tried only when the last one has ended.  Whether a connection comes up, *)
(* and when it ends, is left open.                                         *)
(***************************************************************************)
EXTENDS Naturals

CONSTANT Attempt        \* the attempts a behaviour may make, numbered from 1

VARIABLES latest,       \* the attempt that was made last
          status,       \* what has been reported of each attempt
          lost          \* two tests have overlapped: nothing is promised any more

Init == latest = 1 /\ status = [a \in Attempt |-> "none"]

\* The next connection is tried.
Connect ==
    /\ status[latest] = "ended"
    /\ latest + 1 \in Attempt
    /\ latest' = latest + 1
    /\ UNCHANGED status

ComesUp ==
    /\ status[latest] = "none"
    /\ status' = [status EXCEPT ![latest] = "up"]
    /\ UNCHANGED latest

\* It fails, or a test finds that it does not work any more.
Ends ==
    /\ status[latest] # "ended"
    /\ status' = [status EXCEPT ![latest] = "ended"]
    /\ UNCHANGED latest

Next == Connect \/ ComesUp \/ Ends

Spec == Init /\ [][lost' \/ Next]_<<latest, status>>
=============================================================================
