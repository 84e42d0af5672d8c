---------------------------- MODULE MCProcesses ------------------------------
(***************************************************************************)
(* The programs that run beside the client: the handshake with a transport *)
(* process, its traffic report, the obfs4 process, the SOCKS end and the   *)
(* server of shadowsocks.  They share no state, so one run explores them   *)
(* one at a time: unit says which one this behaviour is about, and their   *)
(* state spaces add up.                                                    *)
(***************************************************************************)
EXTENDS Naturals, Sequences, FiniteSets

CONSTANTS TConn, Addr, MaxPosts, PConn, Method, NumServers, SReq, MaxFailCnt, MaxChanges,
          Port, Password, NoFile, MaxReloads

ASSUME ProcessesAssumption == NumServers \in Nat

VARIABLES unit,
    env, child, helper, printed, unread, parent, response, stdin,
    tconn, addrs, posts, shown, monitoring,
    stage, role, proxy, watch, tried, ptListeners, handler, numHandlers, parentDead, reason,
    program, decodes, failCnt, up, changes, sreq,
    srv, portPassword, oldPorts, todo, upd, table, starting, bound, reloads, handlers, calm

H == INSTANCE Handshake
T == INSTANCE Traffic
P == INSTANCE ProxyProcess
S == INSTANCE SocksLocal
L == INSTANCE PortListeners

hvars == <<env, child, helper, printed, unread, parent, response, stdin>>
tvars == <<tconn, addrs, posts, shown, monitoring>>
pvars == <<stage, role, proxy, watch, tried, ptListeners, handler, numHandlers, parentDead, reason>>
svars == <<program, decodes, failCnt, up, changes, sreq>>
lvars == <<srv, portPassword, oldPorts, todo, upd, table, starting, bound, reloads, handlers, calm>>

vars == <<unit, hvars, tvars, pvars, svars, lvars>>

Init ==
    /\ unit \in {"handshake", "traffic", "proxy", "socks", "ports"}
    /\ H!Init /\ T!TInit /\ P!PInit /\ S!SInit /\ L!LInit

Next ==
    \/ unit = "handshake" /\ H!Next /\ UNCHANGED <<unit, tvars, pvars, svars, lvars>>
    \/ unit = "traffic" /\ T!TNext /\ UNCHANGED <<unit, hvars, pvars, svars, lvars>>
    \/ unit = "proxy" /\ P!PNext /\ UNCHANGED <<unit, hvars, tvars, svars, lvars>>
    \/ unit = "socks" /\ S!SNext /\ UNCHANGED <<unit, hvars, tvars, pvars, lvars>>
    \/ unit = "ports" /\ L!LNext /\ UNCHANGED <<unit, hvars, tvars, pvars, svars>>

\* No fair step of a unit is enabled in its initial state, so that fairness asks nothing of
\* the units a behaviour is not about.
Spec == Init /\ [][Next]_vars /\ H!Fairness /\ T!TFairness /\ P!PFairness

\* The client's view of a transport agrees with what the process did: see Handshake.
HandshakeSound == H!HandshakeSound

\* Closing stdin ends a transport and its helper, and the end of the parent the obfs4
\* process, where it is noticed: see Handshake and ProxyProcess.
ProcessesEnd == H!ChildEnds /\ P!ProxyEnds

\* The client ends up showing what is really open: see Traffic.
TrafficSettles == T!TrafficSettles

\* A draining process cuts no connection that it has counted: see ProxyProcess.
DrainsFirst == P!DrainsFirst

\* A request fails only after every server was tried: see SocksLocal.
ReachableServes == S!ReachableServes

\* A reload leaves the ports of the configuration: see PortListeners.
PortsSettle == L!PortsSettle

=============================================================================
