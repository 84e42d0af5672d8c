------------------------------- MODULE Traffic -------------------------------
(***************************************************************************)
(* The traffic report of a transport process: the connections it tracks    *)
(* and the monitor that posts them every second (service/server/server.go),*)
(* the connections of the shadowsocks transport that use it                *)
(* (transport/shadowsocks/service.go), and the client's end of the report  *)
(* (client/api.go).  Every post has a goroutine of its own, so posts       *)
(* overtake each other.  Byte counts have no effect on control and are     *)
(* left out.                                                               *)
(***************************************************************************)
EXTENDS Naturals, FiniteSets

CONSTANTS
    TConn,    \* connections of the transport
    Addr,     \* the addresses they ask for
    MaxPosts  \* bound: posts under way at once (one a second)

VARIABLES
    tconn,     \* TConn -> [at : stage, addr : Addr]
    addrs,     \* MethodHandler.addrs: Addr -> uint64 (modulo Wrap)
    posts,     \* posts on their way: <<age, opened>>
    shown,     \* transportTraffic.Opened of the client
    monitoring \* the monitor goroutine has been started

tvars == <<tconn, addrs, posts, shown, monitoring>>

\* The width of the counters: a small modulus, greater than any real count.
Wrap == 2 * (Cardinality(TConn) + 1)

Ages == 1..MaxPosts

TInit ==
    /\ tconn \in [TConn -> {[at |-> "new", addr |-> CHOOSE a \in Addr : TRUE]}]
    /\ addrs = [a \in Addr |-> 0]
    /\ posts = {} /\ shown = {} /\ monitoring = FALSE

StartMonitor == ~monitoring /\ monitoring' = TRUE /\ UNCHANGED <<tconn, addrs, posts, shown>>

-----------------------------------------------------------------------------
(* The connections.  TrackOpenConn and TrackCloseConn hold the lock. *)

\* handShake and getRequest have read the address; a failure ends the goroutine.
TAccept(c, a) ==
    /\ monitoring /\ tconn[c].at = "new"
    /\ tconn' = [tconn EXCEPT ![c] = [at |-> "asked", addr |-> a]]
    /\ UNCHANGED <<addrs, posts, shown, monitoring>>

TrackOpenConn(c) ==
    /\ tconn[c].at = "asked" /\ tconn' = [tconn EXCEPT ![c].at = "open"]
    /\ addrs' = [addrs EXCEPT ![tconn[c].addr] = (@ + 1) % Wrap]
    /\ UNCHANGED <<posts, shown, monitoring>>

\* Fault variant of TFails: the close is tracked on the failing path as well.
TFailsTracked(c) ==
    /\ tconn[c].at = "asked" /\ tconn' = [tconn EXCEPT ![c].at = "closed"]
    /\ addrs' = [addrs EXCEPT ![tconn[c].addr] = (@ + Wrap - 1) % Wrap]
    /\ UNCHANGED <<posts, shown, monitoring>>

\* createServerConn fails: neither end is tracked.
TFails(c) ==
    /\ tconn[c].at = "asked" /\ tconn' = [tconn EXCEPT ![c].at = "closed"]
    /\ UNCHANGED <<addrs, posts, shown, monitoring>>

TrackCloseConn(c) ==
    /\ tconn[c].at = "open" /\ tconn' = [tconn EXCEPT ![c].at = "closed"]
    /\ addrs' = [addrs EXCEPT ![tconn[c].addr] = (@ + Wrap - 1) % Wrap]
    /\ UNCHANGED <<posts, shown, monitoring>>

-----------------------------------------------------------------------------
(* The report *)

Opened == {a \in Addr : addrs[a] > 0}

\* One round of monitor: the oldest post is the one with the greatest age.
Monitor ==
    /\ monitoring /\ Cardinality(posts) < MaxPosts
    /\ posts' = {<<p[1] + 1, p[2]>> : p \in posts} \cup {<<1, Opened>>}
    /\ UNCHANGED <<tconn, addrs, shown, monitoring>>

\* Posts that are left move up, so that ages stay within the bound.
Without(p) == {<<IF q[1] > p[1] THEN q[1] - 1 ELSE q[1], q[2]>> : q \in posts \ {p}}

\* PostTransportTraffic: whichever post comes last is what the client shows.
PostTransportTraffic(age) ==
    \E p \in posts : /\ p[1] = age /\ posts' = Without(p) /\ shown' = p[2]
                     /\ UNCHANGED <<tconn, addrs, monitoring>>

\* postActivity gives up (no sauth or saddr, the request fails).
PostFails(age) ==
    \E p \in posts : /\ p[1] = age /\ posts' = Without(p)
                     /\ UNCHANGED <<tconn, addrs, shown, monitoring>>

TNext ==
    \/ StartMonitor
    \/ \E c \in TConn : \/ \E a \in Addr : TAccept(c, a)
                        \/ TrackOpenConn(c) \/ TFails(c) \/ TrackCloseConn(c)
    \/ Monitor
    \/ \E age \in Ages : PostTransportTraffic(age) \/ PostFails(age)

\* The monitor ticks, a goroutine of a post runs, and the client on the same host answers
\* some of the posts for ever.
TFairness ==
    /\ WF_tvars(Monitor)
    /\ \A age \in Ages : SF_tvars(PostTransportTraffic(age))

-----------------------------------------------------------------------------
\* When the connections stop changing, the client ends up showing the addresses that
\* are open, whatever posts were lost or came late: no counter of TrackOpenConn and
\* TrackCloseConn is left above (or wrapped below) zero.
Still == \A c \in TConn : tconn[c].at = "closed"

TrafficSettles == Still ~> [](shown = {})

=============================================================================
