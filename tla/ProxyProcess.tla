---------------------------- MODULE ProxyProcess -----------------------------
(***************************************************************************)
(* The obfs4 process (pkg/obfs4proxy), the helper of the obfs4 transport   *)
(* and the server side of it: the set-up of Run, the accept loops and      *)
(* handlers, and the termination monitor that decides when it exits.       *)
(*                                                                         *)
(* Both channels of the monitor are unbuffered.  A handler blocks until    *)
(* wait receives its count; a signal that finds nobody in wait is dropped  *)
(* by the runtime.                                                         *)
(***************************************************************************)
EXTENDS Naturals, FiniteSets

CONSTANTS PConn, Method   \* connections; names of transports asked for

VARIABLES
    stage,       \* of Run: "off", "setup", "running", "closing", "draining", "gone"
    role,        \* "client" or "server"
    proxy,       \* TOR_PT_PROXY: "none", "bad", "http", "socks4a", "socks5"
    watch,       \* how the end of the parent is noticed: "stdin", "ppid", "prctl", "none"
    tried,       \* methods the set-up is done with
    ptListeners, \* methods with an open listener
    handler,     \* PConn -> stage of its handler
    numHandlers, \* of the monitor
    parentDead,  \* "no", "yes" (not yet told), "told", "missed" (nobody will tell)
    reason       \* history: why the process is gone

pvars == <<stage, role, proxy, watch, tried, ptListeners, handler, numHandlers, parentDead, reason>>

PInit ==
    /\ stage = "off" /\ role = "client" /\ proxy = "none" /\ watch = "stdin"
    /\ tried = {} /\ ptListeners = {} /\ handler = [c \in PConn |-> "none"]
    /\ numHandlers = 0 /\ parentDead = "no" /\ reason = "none"

Environment == <<role, proxy, watch>>
Connections == <<handler, numHandlers>>

-----------------------------------------------------------------------------
(* Set-up *)

\* newTermMonitor: stdin if the parent asks for it, else prctl (Linux), else polling the
\* parent id, but not on Windows.  Only stdin tells of a parent that is dead already.
newTermMonitor ==
    /\ watch' \in {"stdin", "prctl", "ppid", "none"}
    /\ parentDead' = IF parentDead = "yes" /\ watch' # "stdin" THEN "missed" ELSE parentDead

\* The first half of Run: ptIsClient, the state directory, the logs, transports.Init.
Run ==
    /\ stage = "off" /\ newTermMonitor
    /\ role' \in {"client", "server"} /\ proxy' \in {"none", "bad", "http", "socks4a", "socks5"}
    /\ \/ stage' = "setup" /\ UNCHANGED reason
       \/ stage' = "gone" /\ reason' = "fatal"
    /\ UNCHANGED <<tried, ptListeners>> /\ UNCHANGED Connections

\* ptGetProxy of clientSetup: a proxy that does not validate ends the process.
ptGetProxy ==
    /\ stage = "setup" /\ role = "client" /\ proxy = "bad" /\ tried = {}
    /\ stage' = "gone" /\ reason' = "fatal"
    /\ UNCHANGED <<tried, ptListeners, parentDead>> /\ UNCHANGED Environment
    /\ UNCHANGED Connections

\* One round of the loop over the methods: a listener, or an error line.
SetupMethod(m) ==
    /\ stage = "setup" /\ m \notin tried
    /\ tried' = tried \cup {m}
    /\ ptListeners' \in {ptListeners, ptListeners \cup {m}}
    /\ UNCHANGED <<stage, parentDead, reason>> /\ UNCHANGED Environment /\ UNCHANGED Connections

\* clientSetup gets to its loop when ptGetProxy has returned.
clientSetup(m) == role = "client" /\ proxy # "bad" /\ SetupMethod(m)

serverSetup(m) == role = "server" /\ SetupMethod(m)

\* The end of the set-up; with nothing launched the process exits.
Launched ==
    /\ stage = "setup" /\ tried = Method
    /\ IF ptListeners # {} THEN stage' = "running" /\ UNCHANGED reason
                           ELSE stage' = "gone" /\ reason' = "fatal"
    /\ UNCHANGED <<tried, ptListeners, parentDead>> /\ UNCHANGED Environment /\ UNCHANGED Connections

-----------------------------------------------------------------------------
(* wait *)

Waiting == stage \in {"running", "draining"}

\* Fault variant of Count: any finished handler ends the drain.
CountAny(n) ==
    /\ Waiting /\ numHandlers' = n
    /\ IF stage = "draining" /\ n < numHandlers THEN stage' = "gone" /\ reason' = "drained"
                                                ELSE UNCHANGED <<stage, reason>>
    /\ UNCHANGED <<tried, ptListeners, parentDead>> /\ UNCHANGED Environment

\* One count received by wait: with termOnNoHandlers it returns at zero.
Count(n) ==
    /\ Waiting /\ numHandlers' = n
    /\ IF stage = "draining" /\ n = 0 THEN stage' = "gone" /\ reason' = "drained"
                                      ELSE UNCHANGED <<stage, reason>>
    /\ UNCHANGED <<tried, ptListeners, parentDead>> /\ UNCHANGED Environment

\* A signal received by wait.
Told(sig) ==
    /\ Waiting
    /\ IF stage = "running" /\ sig = "SIGINT" THEN stage' = "closing" /\ UNCHANGED reason
                                              ELSE stage' = "gone" /\ reason' = "told"

\* SIGINT or SIGTERM from outside; outside of wait it is lost, which is a stuttering step.
Signal(sig) ==
    /\ Told(sig) /\ UNCHANGED <<tried, ptListeners, parentDead>>
    /\ UNCHANGED Environment /\ UNCHANGED Connections

\* Run closes the listeners and waits again.
CloseListeners ==
    /\ stage = "closing" /\ stage' = "draining" /\ ptListeners' = {}
    /\ UNCHANGED <<tried, parentDead, reason>> /\ UNCHANGED Environment /\ UNCHANGED Connections

\* The parent dies or closes stdin.  The SIGTERM that prctl asks for is sent once and
\* dropped when nobody is in wait, or wait is busy with a count.
ParentDies ==
    /\ parentDead = "no" /\ stage # "gone"
    /\ \/ /\ stage = "off" \/ watch \in {"stdin", "ppid"}
          /\ parentDead' = "yes" /\ UNCHANGED <<stage, reason>>
       \/ /\ watch = "prctl" /\ Told("SIGTERM")
          /\ parentDead' = "told"
       \/ /\ stage # "off" /\ watch \in {"prctl", "none"}
          /\ parentDead' = "missed" /\ UNCHANGED <<stage, reason>>
    /\ UNCHANGED <<tried, ptListeners>> /\ UNCHANGED Environment /\ UNCHANGED Connections

\* termOnStdinClose and termOnPPIDChange block on the channel until wait takes it.
TermOnParent ==
    /\ parentDead = "yes" /\ Told("SIGTERM") /\ parentDead' = "told"
    /\ UNCHANGED <<tried, ptListeners>> /\ UNCHANGED Environment /\ UNCHANGED Connections

-----------------------------------------------------------------------------
(* Handlers.  Their goroutines die with the process. *)

Move(c, from, to) == handler[c] = from /\ handler' = [handler EXCEPT ![c] = to]

Alive == stage \notin {"off", "gone"}

HandlerOnly ==
    /\ Alive /\ UNCHANGED <<stage, tried, ptListeners, numHandlers, parentDead, reason>>
    /\ UNCHANGED Environment

\* clientAcceptLoop, serverAcceptLoop.
Accept(c) == ptListeners # {} /\ Move(c, "none", "accepted") /\ HandlerOnly

onHandlerStart(c) == Alive /\ Move(c, "accepted", "handshake") /\ Count(numHandlers + 1)

\* clientHandler and serverHandler up to copyLoop: the handshake, the arguments, the dial
\* (through the proxy, if there is one), the reply.  Any of them may fail and end it.
Connect(c) == Move(c, "handshake", "connected") /\ HandlerOnly
Fail(c)    == Move(c, "handshake", "finished") /\ HandlerOnly

\* copyLoop: the first direction to end closes both connections, which ends the other.
CopyEnds(c)  == Move(c, "connected", "closing") /\ HandlerOnly
CopyClose(c) == Move(c, "closing", "finished") /\ HandlerOnly

onHandlerFinish(c) == Alive /\ Move(c, "finished", "none") /\ Count(numHandlers - 1)

PNext ==
    \/ Run \/ ptGetProxy \/ Launched
    \/ \E m \in Method : clientSetup(m) \/ serverSetup(m)
    \/ \E sig \in {"SIGINT", "SIGTERM"} : Signal(sig)
    \/ CloseListeners \/ ParentDies \/ TermOnParent
    \/ \E c \in PConn : \/ Accept(c) \/ onHandlerStart(c) \/ Connect(c) \/ Fail(c)
                        \/ CopyEnds(c) \/ CopyClose(c) \/ onHandlerFinish(c)

\* Run and its goroutines go on; select picks a ready channel, so a blocked sender is
\* served in the end even though handlers keep coming.
PFairness ==
    /\ WF_pvars(ptGetProxy) /\ WF_pvars(Launched)
    /\ WF_pvars(\E m \in Method : clientSetup(m) \/ serverSetup(m))
    /\ WF_pvars(CloseListeners) /\ SF_pvars(TermOnParent)

-----------------------------------------------------------------------------
\* A process that drains leaves by itself only when every handler that wait knows of has
\* finished; a connection may be cut when it was accepted but not counted yet.
DrainsFirst ==
    reason = "drained" => \A c \in PConn : handler[c] \in {"none", "accepted"}

\* A process that watches its stdin ends with its parent, whatever it is doing and however
\* many connections it has, and one that polls the parent id if the parent was alive when
\* the monitor began.  With prctl the end of the parent is missed when the signal finds
\* nobody in wait, without a watch always.
ProxyEnds ==
    /\ (parentDead # "no" /\ stage # "off") ~> (stage = "gone" \/ parentDead = "missed")
    /\ [](parentDead = "missed" => watch # "stdin")
    /\ [][parentDead' = "missed" /\ parentDead = "no" => watch \in {"prctl", "none"}]_pvars

\* termmon.go:119: "Linux - Platform specific code that should always work."  It does not
\* when the parent dies during the set-up or between the two waits of Run.
PrctlWorks == (parentDead # "no" /\ watch = "prctl") ~> (stage = "gone")

=============================================================================
