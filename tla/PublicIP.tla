------------------------------- MODULE PublicIP ------------------------------
(***************************************************************************)
(* GetPublicIPAddr (shared/publicip.go): the first caller starts a         *)
(* goroutine that asks one service after the other; all callers wait for   *)
(* its first result.                                                       *)
(***************************************************************************)
EXTENDS Naturals

CONSTANTS
    Caller,       \* goroutines that want the address
    NumServices,  \* length of wanipservices
    Address,      \* addresses the services may answer: net.ParseIP takes both families
    V4            \* those that ip.To4() can write in four bytes

VARIABLES
    updater,     \* "off", "choose", "ask", "pause" (an error), "idle" (until refreshTicker)
    serviceIdx,  \* index into the shuffled services, from 0
    hasIP,       \* the counter of the wait group is zero: callers go on
    ip,          \* publicIP.ip: a set of at most one address
    failed,      \* history: services that failed before the first answer
    foreign,     \* history: some service answered an address outside V4
    caller       \* Caller -> "new", "waiting", "nil", "address"

ivars == <<updater, serviceIdx, hasIP, ip, failed, foreign, caller>>

IInit ==
    /\ updater = "off" /\ serviceIdx = 0 /\ hasIP = FALSE /\ ip = {} /\ failed = {}
    /\ foreign = FALSE
    /\ caller = [c \in Caller |-> "new"]

\* init.Do: the goroutine is started once, others wait for Do.
GetPublicIPAddr(c) ==
    /\ caller[c] = "new" /\ caller' = [caller EXCEPT ![c] = "waiting"]
    /\ updater' = IF updater = "off" THEN "choose" ELSE updater
    /\ UNCHANGED <<serviceIdx, hasIP, ip, failed, foreign>>

\* ip.To4() is nil for an IPv6 address, and so is what the caller gets.
Return(c) ==
    /\ caller[c] = "waiting" /\ hasIP
    /\ caller' = [caller EXCEPT ![c] = IF ip \cap V4 = {} THEN "nil" ELSE "address"]
    /\ UNCHANGED <<updater, serviceIdx, hasIP, ip, failed, foreign>>

\* Fault variant of Choose: callers go on only when there is an address.
ChooseOn ==
    /\ updater = "choose" /\ updater' = "ask"
    /\ serviceIdx' = (serviceIdx + 1) % NumServices
    /\ UNCHANGED <<hasIP, ip, failed, foreign, caller>>

\* The head of the loop; back at the first service, the callers get what there is.
Choose ==
    /\ updater = "choose" /\ updater' = "ask"
    /\ serviceIdx' = (serviceIdx + 1) % NumServices
    /\ hasIP' = (hasIP \/ serviceIdx' = 0)
    /\ UNCHANGED <<ip, failed, foreign, caller>>

Answered(a) ==
    /\ updater = "ask" /\ updater' = "idle" /\ ip' = {a} /\ hasIP' = TRUE
    /\ foreign' = (foreign \/ a \notin V4)
    /\ UNCHANGED <<serviceIdx, failed, caller>>

\* No connection, no body or no address in it: two seconds of pause.
NotAnswered ==
    /\ updater = "ask" /\ updater' = "pause"
    /\ failed' = IF ip = {} THEN failed \cup {serviceIdx} ELSE failed
    /\ UNCHANGED <<serviceIdx, hasIP, ip, foreign, caller>>

\* The end of the pause, or the ten minutes of refreshTicker.
Again ==
    /\ updater \in {"pause", "idle"} /\ updater' = "choose"
    /\ UNCHANGED <<serviceIdx, hasIP, ip, failed, foreign, caller>>

INext ==
    \/ \E c \in Caller : GetPublicIPAddr(c) \/ Return(c)
    \/ Choose \/ (\E a \in Address : Answered(a)) \/ NotAnswered \/ Again

\* Timers fire, requests end (they have a timeout), and callers run.
IFairness ==
    /\ WF_ivars(Choose) /\ WF_ivars((\E a \in Address : Answered(a)) \/ NotAnswered)
    /\ WF_ivars(Again) /\ \A c \in Caller : WF_ivars(Return(c))

-----------------------------------------------------------------------------
\* Every caller gets an answer, also when no service ever answers; and it is nil only
\* when all services but the first of the shuffled list had failed before the first
\* answer, or when a service has answered an IPv6 address, which To4 drops without a word.
FirstAddress ==
    \A c \in Caller :
        (caller[c] = "waiting")
            ~> \/ caller[c] = "address"
               \/ caller[c] = "nil" /\ (1..(NumServices - 1) \subseteq failed \/ foreign)

=============================================================================
