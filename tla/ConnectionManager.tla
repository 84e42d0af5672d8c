-------------------------- MODULE ConnectionManager --------------------------
(***************************************************************************)
(* The connection manager of the alkasir client                            *)
(* (pkg/service/connectionmanager.go): one goroutine owns the connection   *)
(* state and serves a select loop; every connection attempt is a connect   *)
(* goroutine, every probe of a transport a testConn goroutine.  They meet  *)
(* on unbuffered channels and on the RWMutex defaultTransportM.  The PAC   *)
(* generator (pkg/pac/pac.go) and the two upgraders (pkg/client) listen to *)
(* the events the manager forwards.                                        *)
(*                                                                         *)
(* An attempt is numbered in the order it is started and owns at most one  *)
(* transport service, so a service is named by its attempt; Nil is the     *)
(* absence of one.  Stopping a service is one step here: the goroutines    *)
(* behind Remove are the subject of TransportService.  A listener is given *)
(* the event itself: the history it comes in, and its trimming at 20       *)
(* entries, are left out.  So are user interface notifications (no-ops in  *)
(* pkg/client/ui) and log lines.                                           *)
(***************************************************************************)
EXTENDS Naturals, Sequences, FiniteSets

CONSTANTS Conn,         \* the IDs of the connections in the settings
          NoTransport,  \* those of Conn whose transport has no command registered
          Pac,          \* the listener goroutine of package pac
          Upgrader,     \* the listeners that fetch through the default transport
          MaxAttempts,  \* bound: connect goroutines in a behaviour
          MaxVerify     \* bound: verification tests that exist at the same time

ASSUME ConstantsAssumption ==
    /\ Conn # {}
    /\ NoTransport \subseteq Conn
    /\ Pac \notin Upgrader
    /\ MaxAttempts \in Nat \ {0}
    /\ MaxVerify \in Nat

Attempt  == 1..MaxAttempts
Verifier == (MaxAttempts + 1)..(MaxAttempts + MaxVerify)
Tester   == Attempt \cup Verifier   \* attempt a is probed first by tester a
Listener == {Pac} \cup Upgrader
Nil      == 0

ConnectionState == {"Init", "ServiceInit", "ServiceStart", "Test", "Up",
                    "WrongProtocol", "Failed", "NotConfigured", "TestFailed", "Ended"}

NoEvent == [att |-> Nil, state |-> "none"]
Event   == [att : Attempt, state : ConnectionState]

(***************************************************************************)
(* Control points.  A goroutine that is about to send event S sits at the  *)
(* point named S; EventAt and AfterEvent say what a connect goroutine      *)
(* sends there and where it goes once the manager has received it.         *)
(***************************************************************************)
EventAt == [p \in {"Init", "ServiceInit", "ServiceStart", "Failed", "Ended",
                   "WrongProtocol", "WrongFailed", "Test"} |->
               IF p = "WrongFailed" THEN "Failed" ELSE p]

AfterEvent == [Init |-> "ServiceInit", ServiceInit |-> "new", ServiceStart |-> "start",
               Failed |-> "Ended", Ended |-> "done",
               WrongProtocol |-> "WrongFailed", WrongFailed |-> "Test", Test |-> "spawn"]

ConnectPc == {"idle", "remove", "new", "start", "spawn", "lock", "locking", "done"}
               \cup DOMAIN EventAt

HoldingPc == {"testing", "okFalse", "TestFailed", "Reason", "Ended", "unlockFailed",
              "okTrue", "Up", "okTrueAgain", "unlockPassed"}

TestPc == {"idle", "rlock", "tellFalse", "tellTrueLate", "tellTrue", "finished"} \cup HoldingPc

VARIABLES
    currentConnections,     \* the enabled connections, shuffled
    currentConnIdx,         \* zero-based index of the connection in use
    currentConnectionID,    \* its ID
    currents,               \* the last event of each connection, none after Ended
    listeners,              \* registered listener channels, in order
    todo,                   \* listeners the event in emit still has to reach
    emit,                   \* the event being forwarded
    connectionTestRunning,  \* a verification test is thought to run
    armed,                  \* AfterFunc reconnect timers that have not fired
    timerRef,               \* reconnectTimer refers to one of them
    firing,                 \* fired timers blocked in reconnectCh <- true
    started,                \* number of connect goroutines started
    conn,                   \* the connection of each attempt
    cpc,                    \* control point of each connect goroutine
    tpc,                    \* control point of each testConn goroutine
    subject,                \* the attempt whose event a tester was given
    defaultTransport,       \* the service in use by the client
    service,                \* Service.running and membership in ManagedServices
    socks5,                 \* services that announced the socks5 protocol
    transportOk,            \* the flag shown to the user
    pac,                    \* service named by pac.blockedMethod, Nil for DIRECT
    pacEvent,               \* the event PAC has received and not handled yet
    upc,                    \* control point of each upgrader
    stopped,                \* the manager loop has ended
    panicked,               \* a goroutine has panicked: the process is gone
    \* history variables: read by properties only
    reported,               \* "up" after an attempt's Up was received, "ended" after its Ended
    verifyFailed,           \* some verification test has failed
    overlap                 \* two verification tests have run at the same time

loopVars    == <<currents, todo, emit, reported>>
timerVars   == <<armed, timerRef, firing>>
attemptVars == <<started, conn, currentConnIdx, currentConnectionID>>
testVars    == <<tpc, subject, connectionTestRunning, verifyFailed, overlap>>
svcVars     == <<defaultTransport, service, socks5>>
listenVars  == <<listeners, pac, pacEvent, upc>>
otherVars   == <<currentConnections, transportOk, stopped, panicked>>

vars == <<loopVars, timerVars, attemptVars, cpc, testVars, svcVars, listenVars, otherVars>>

-----------------------------------------------------------------------------
(* Helpers *)

\* The manager goroutine is at its select statement.
Selecting == todo = <<>>

\* A writer has announced itself on defaultTransportM: new readers wait (Go's
\* RWMutex), and so do other writers.
WriterWaiting == \E a \in Attempt : cpc[a] = "locking"

\* A tester keeps its read lock until testConn returns.
Readers == {t \in Tester : tpc[t] \in HoldingPc}

\* Sequences that list every member of a subset of Conn once: what
\* UpdateConnections can leave in currentConnections.
Shuffles == UNION {{s \in [1..n -> Conn] : \A i, j \in 1..n : s[i] = s[j] => i = j}
                      : n \in 0..Cardinality(Conn)}

Verifying == {v \in Verifier : tpc[v] \in {"rlock"} \cup HoldingPc}

\* The type invariant, one part per group of variables.
LoopOK ==
    /\ currents \in [Conn -> Event \cup {NoEvent}]
    /\ todo \in Seq(Listener)
    /\ emit \in Event \cup {NoEvent}
    /\ reported \in [Attempt -> {"none", "up", "ended"}]

TimerOK ==
    /\ armed \in Nat /\ firing \in Nat /\ timerRef \in BOOLEAN
    /\ timerRef => armed > 0

AttemptOK ==
    /\ started \in Attempt
    /\ conn \in [Attempt -> Conn]
    /\ currentConnIdx \in Nat
    /\ currentConnectionID \in Conn

ConnectOK == cpc \in [Attempt -> ConnectPc]

TestOK ==
    /\ tpc \in [Tester -> TestPc]
    /\ subject \in [Tester -> Attempt]
    /\ connectionTestRunning \in BOOLEAN
    /\ verifyFailed \in BOOLEAN /\ overlap \in BOOLEAN

ServiceOK ==
    /\ defaultTransport \in Attempt \cup {Nil}
    /\ service \in [Attempt -> {"none", "listed", "running", "removed"}]
    /\ socks5 \in SUBSET Attempt

ListenOK ==
    /\ listeners \in Seq(Listener)
    /\ pac \in Attempt \cup {Nil}
    /\ pacEvent \in Event \cup {NoEvent}
    /\ upc \in [Upgrader -> {"inactive", "listen", "rlock", "fetch"}]

OtherOK ==
    /\ currentConnections \in Shuffles
    /\ transportOk \in BOOLEAN /\ stopped \in BOOLEAN /\ panicked \in BOOLEAN

\* Every variable of the manager, its goroutines and its listeners keeps its
\* type, and reconnectTimer refers to an armed timer only if there is one.
TypeOK == /\ LoopOK /\ TimerOK /\ AttemptOK /\ ConnectOK
          /\ TestOK /\ ServiceOK /\ ListenOK /\ OtherOK

-----------------------------------------------------------------------------
(* StartConnectionManager before its loop: at least one connection is      *)
(* enabled (the code indexes currentConnections[0]).                       *)

Init ==
    /\ currentConnections \in Shuffles \ {<<>>}
    /\ currentConnIdx = 0
    /\ currentConnectionID = currentConnections[1]
    /\ currents = [c \in Conn |-> NoEvent]
    /\ listeners = <<>> /\ todo = <<>> /\ emit = NoEvent
    /\ connectionTestRunning = FALSE
    /\ armed = 0 /\ timerRef = FALSE /\ firing = 0
    /\ started = 1
    /\ conn = [a \in Attempt |-> currentConnections[1]]
    /\ cpc = [a \in Attempt |-> IF a = 1 THEN "remove" ELSE "idle"]
    /\ tpc = [t \in Tester |-> "idle"]
    /\ subject = [t \in Tester |-> IF t \in Attempt THEN t ELSE 1]
    /\ defaultTransport = Nil
    /\ service = [a \in Attempt |-> "none"]
    /\ socks5 = {}
    /\ transportOk = FALSE
    /\ pac = Nil /\ pacEvent = NoEvent
    /\ upc = [u \in Upgrader |-> "inactive"]
    /\ stopped = FALSE /\ panicked = FALSE
    /\ reported = [a \in Attempt |-> "none"]
    /\ verifyFailed = FALSE /\ overlap = FALSE

-----------------------------------------------------------------------------
(* The manager goroutine: one action per case of its select statement.     *)

\* Fault variant of RearmReconnect: the old timer is kept, even one that has fired.
KeepTimer == timerRef' = TRUE /\ UNCHANGED <<armed, firing>>

\* reconnectTimer.Stop() stops the timer it refers to unless it has fired;
\* AfterFunc arms a new one.
RearmReconnect ==
    /\ armed' = (IF timerRef THEN armed - 1 ELSE armed) + 1
    /\ timerRef' = TRUE
    /\ UNCHANGED firing

\* Fault variant of RearmOnEnded: no reconnect is scheduled after NotConfigured.
ArmOnlyAfterUp(a) ==
    IF reported[a] = "up" THEN RearmReconnect ELSE UNCHANGED timerVars

RearmOnEnded(a) == RearmReconnect

RecordEvent(a, s) ==
    currents' = [currents EXCEPT ![conn[a]] =
                     IF s = "Ended" THEN NoEvent ELSE [att |-> a, state |-> s]]

\* case event := <-connectionEvents, up to the loop over the listeners.
Receive(a, s) ==
    /\ Selecting
    /\ RecordEvent(a, s)
    /\ IF s = "Ended" THEN RearmOnEnded(a) ELSE UNCHANGED timerVars
    /\ todo' = listeners
    /\ emit' = IF listeners = <<>> THEN NoEvent ELSE [att |-> a, state |-> s]
    /\ reported' = [reported EXCEPT ![a] = CASE s = "Up" -> "up"
                                             [] s = "Ended" -> "ended"
                                             [] OTHER -> @]

\* l <- emitEvent succeeded: the next listener's turn, or back to the select.
Delivered ==
    /\ todo' = Tail(todo)
    /\ emit' = IF Len(todo) = 1 THEN NoEvent ELSE emit
    /\ UNCHANGED <<currents, reported>>

NextConnection == (currentConnIdx + 1) % Len(currentConnections)

StartAttempt(c) ==
    /\ started < MaxAttempts
    /\ started' = started + 1
    /\ conn' = [conn EXCEPT ![started + 1] = c]
    /\ cpc' = [cpc EXCEPT ![started + 1] = "remove"]
    /\ currentConnectionID' = c

\* case <-reconnectCh with an enabled connection: the next one is tried.
Reconnect ==
    /\ Selecting
    /\ firing > 0
    /\ firing' = firing - 1
    /\ currentConnections # <<>>
    /\ currentConnIdx' = NextConnection
    /\ StartAttempt(currentConnections[NextConnection + 1])
    /\ UNCHANGED <<armed, timerRef, loopVars, testVars, svcVars, listenVars, otherVars>>

\* case <-reconnectCh without one: try again after the delay.
ReconnectNone ==
    /\ Selecting
    /\ firing > 0
    /\ currentConnections = <<>>
    /\ armed' = armed + 1
    /\ timerRef' = TRUE
    /\ firing' = firing - 1
    /\ UNCHANGED <<loopVars, attemptVars, cpc, testVars, svcVars, listenVars, otherVars>>

\* case listener := <-addNetworkStateListener.
AddListener(l) ==
    /\ Selecting
    /\ \A i \in DOMAIN listeners : listeners[i] # l
    /\ listeners' = Append(listeners, l)
    /\ UNCHANGED <<loopVars, timerVars, attemptVars, cpc, testVars, svcVars, pac,
                   pacEvent, upc, otherVars>>

\* Fault variant of MayVerify: the flag is not consulted.
VerifyAlways == currents[currentConnectionID].state = "Up"

MayVerify ==
    /\ ~connectionTestRunning
    /\ currents[currentConnectionID].state = "Up"

\* case <-reverifyTicker.C: test the transport again while the connection is Up.
Reverify(v) ==
    /\ Selecting
    /\ tpc[v] = "idle" /\ \A w \in Verifier : tpc[w] = "idle" => v <= w
    /\ MayVerify
    /\ connectionTestRunning' = TRUE
    /\ tpc' = [tpc EXCEPT ![v] = "rlock"]
    /\ subject' = [subject EXCEPT ![v] = currents[currentConnectionID].att]
    /\ overlap' = (overlap \/ Verifying # {})
    /\ UNCHANGED <<verifyFailed, loopVars, timerVars, attemptVars, cpc, svcVars, listenVars,
                   otherVars>>

\* Fault variant of ReportTested: the flag survives a test that passed.
ClearOnFailure(failed) == connectionTestRunning' = (connectionTestRunning /\ ~failed)

ReportTested(failed) == connectionTestRunning' = FALSE

\* case <-connectionTestedCh: the sender is a verification test that failed and
\* sends false, sends true once more, or passed and sends true.
Tested(v) ==
    /\ Selecting
    /\ \/ /\ tpc[v] = "tellFalse"
          /\ tpc' = [tpc EXCEPT ![v] = "tellTrueLate"]
          /\ ReportTested(TRUE)
       \/ /\ tpc[v] \in {"tellTrueLate", "tellTrue"}
          /\ tpc' = [tpc EXCEPT ![v] = "idle"]
          /\ ReportTested(FALSE)
    /\ UNCHANGED <<subject, verifyFailed, overlap, loopVars, timerVars, attemptVars, cpc,
                   svcVars, listenVars, otherVars>>

\* case <-stopCh: exit() ends the loop and then the client.
StopConnectionManager ==
    /\ Selecting
    /\ stopped' = TRUE
    /\ UNCHANGED <<currentConnections, transportOk, panicked, loopVars, timerVars, attemptVars,
                   cpc, testVars, svcVars, listenVars>>

\* The AfterFunc timers: the one reconnectTimer refers to, or an earlier one.
TimerFires ==
    /\ timerRef
    /\ armed' = armed - 1 /\ timerRef' = FALSE /\ firing' = firing + 1
    /\ UNCHANGED <<loopVars, attemptVars, cpc, testVars, svcVars, listenVars, otherVars>>

StrayTimerFires ==
    /\ armed > IF timerRef THEN 1 ELSE 0
    /\ armed' = armed - 1 /\ firing' = firing + 1
    /\ UNCHANGED <<timerRef, loopVars, attemptVars, cpc, testVars, svcVars, listenVars,
                   otherVars>>

-----------------------------------------------------------------------------
(* The listeners *)

\* pac: on Up the service of the event becomes the proxy of blocked hosts (an
\* unsupported protocol panics), unless it is not managed any more; on Ended
\* blocked hosts go DIRECT.
SetBlockedMethod(e) ==
    CASE e.state = "Up" /\ service[e.att] \in {"listed", "running"} ->
             /\ pac' = IF e.att \in socks5 THEN e.att ELSE pac
             /\ panicked' = (e.att \notin socks5)
      [] e.state = "Up" /\ service[e.att] \notin {"listed", "running"} ->
             pac' = Nil /\ UNCHANGED panicked
      [] e.state = "Ended" -> pac' = Nil /\ UNCHANGED panicked
      [] OTHER -> UNCHANGED <<pac, panicked>>

\* Fault variant of PacHandles: Ended does not reset the proxy.
PacIgnoresEnded(e) ==
    IF e.state = "Ended" THEN UNCHANGED <<pac, panicked>> ELSE SetBlockedMethod(e)

PacHandles(e) == SetBlockedMethod(e)

\* PAC receives while it is at its own select ...
ForwardToPac ==
    /\ todo # <<>> /\ Head(todo) = Pac
    /\ pacEvent = NoEvent
    /\ pacEvent' = emit
    /\ Delivered
    /\ UNCHANGED <<listeners, pac, upc, otherVars, timerVars, attemptVars, cpc, testVars, svcVars>>

\* ... and then handles the event, while the manager goes on.
PacStep ==
    /\ pacEvent # NoEvent
    /\ PacHandles(pacEvent)
    /\ pacEvent' = NoEvent
    /\ UNCHANGED <<listeners, upc, currentConnections, transportOk, stopped, loopVars, timerVars,
                   attemptVars, cpc, testVars, svcVars>>

\* An upgrader receives only while it is at its own select; Up activates it.
ForwardToUpgrader(u) ==
    /\ todo # <<>> /\ Head(todo) = u
    /\ upc[u] \in {"inactive", "listen"}
    /\ upc' = [upc EXCEPT ![u] = IF emit.state = "Up" THEN "listen" ELSE @]
    /\ Delivered
    /\ UNCHANGED <<listeners, pac, pacEvent, otherVars, timerVars, attemptVars, cpc, testVars,
                   svcVars>>

\* It starts an update on request of its UpdateChecker, ...
UpgraderRequest(u) ==
    /\ upc[u] = "listen"
    /\ upc' = [upc EXCEPT ![u] = "rlock"]
    /\ UNCHANGED <<listeners, pac, pacEvent, otherVars, loopVars, timerVars, attemptVars, cpc,
                   testVars, svcVars>>

\* ... takes the default transport under a read lock (NewTransportHTTPClient), ...
UpgraderHTTPClient(u) ==
    /\ upc[u] = "rlock"
    /\ ~WriterWaiting
    /\ upc' = [upc EXCEPT ![u] = IF defaultTransport = Nil THEN "listen" ELSE "fetch"]
    /\ UNCHANGED <<listeners, pac, pacEvent, otherVars, loopVars, timerVars, attemptVars, cpc,
                   testVars, svcVars>>

\* ... and returns to its select when the request is over (http timeout).
UpgraderDone(u) ==
    /\ upc[u] = "fetch"
    /\ upc' = [upc EXCEPT ![u] = "listen"]
    /\ UNCHANGED <<listeners, pac, pacEvent, otherVars, loopVars, timerVars, attemptVars, cpc,
                   testVars, svcVars>>

-----------------------------------------------------------------------------
(* connect, one goroutine per attempt *)

ConnectGoto(a, p) == cpc' = [cpc EXCEPT ![a] = p]

\* Lines 342-349: under a read lock, remove the service in use, if any.
ConnectRemove(a) ==
    /\ cpc[a] = "remove"
    /\ ~WriterWaiting
    /\ service' = [s \in Attempt |-> IF s = defaultTransport THEN "removed" ELSE service[s]]
    /\ ConnectGoto(a, "Init")
    /\ UNCHANGED <<defaultTransport, socks5, loopVars, timerVars, attemptVars, testVars,
                   listenVars, otherVars>>

\* event.newState(...): a rendezvous with the manager.
ConnectSend(a) ==
    /\ cpc[a] \in DOMAIN EventAt
    /\ Receive(a, EventAt[cpc[a]])
    /\ ConnectGoto(a, AfterEvent[cpc[a]])
    /\ UNCHANGED <<attemptVars, testVars, svcVars, listenVars, otherVars>>

\* NewTransportService.  Without a registered command it returns nil and an
\* error; connect dereferences the nil before it looks at the error.
ConnectNew(a) ==
    /\ cpc[a] = "new"
    /\ IF conn[a] \in NoTransport
         THEN panicked' = TRUE /\ UNCHANGED <<cpc, service>>
         ELSE /\ service' = [service EXCEPT ![a] = "listed"]
              /\ ConnectGoto(a, "ServiceStart")
              /\ UNCHANGED panicked
    /\ UNCHANGED <<defaultTransport, socks5, currentConnections, transportOk, stopped,
                   loopVars, timerVars, attemptVars, testVars, listenVars>>

\* Start failed: the transport reported ERROR or an unknown line, or no process.
ConnectStartFails(a) ==
    /\ cpc[a] = "start"
    /\ ConnectGoto(a, "Failed")
    /\ UNCHANGED <<loopVars, timerVars, attemptVars, testVars, svcVars, listenVars, otherVars>>

\* Start succeeded: the service runs and has announced socks5 or something else.
ConnectStarted(a) ==
    /\ cpc[a] = "start"
    /\ service' = [service EXCEPT ![a] = "running"]
    /\ \/ socks5' = socks5 \cup {a} /\ ConnectGoto(a, "Test")
       \/ UNCHANGED socks5 /\ ConnectGoto(a, "WrongProtocol")
    /\ UNCHANGED <<defaultTransport, loopVars, timerVars, attemptVars, testVars, listenVars,
                   otherVars>>

\* go testConn(&event), then Lock: the two goroutines race for defaultTransportM.
ConnectSpawnTest(a) ==
    /\ cpc[a] = "spawn"
    /\ tpc' = [tpc EXCEPT ![a] = "rlock"]
    /\ ConnectGoto(a, "lock")
    /\ UNCHANGED <<subject, connectionTestRunning, verifyFailed, overlap, loopVars, timerVars,
                   attemptVars, svcVars, listenVars, otherVars>>

ConnectLock(a) ==
    /\ cpc[a] = "lock"
    /\ ~WriterWaiting
    /\ ConnectGoto(a, "locking")
    /\ UNCHANGED <<loopVars, timerVars, attemptVars, testVars, svcVars, listenVars, otherVars>>

\* The write lock is granted when the readers are gone; assign and unlock.
ConnectAssign(a) ==
    /\ cpc[a] = "locking"
    /\ Readers = {}
    /\ defaultTransport' = a
    /\ ConnectGoto(a, "done")
    /\ UNCHANGED <<service, socks5, loopVars, timerVars, attemptVars, testVars,
                   listenVars, otherVars>>

-----------------------------------------------------------------------------
(* testConn, one goroutine per probe *)

TestGoto(t, p) == tpc' = [tpc EXCEPT ![t] = p]

TestRLock(t) ==
    /\ tpc[t] = "rlock"
    /\ ~WriterWaiting
    /\ TestGoto(t, IF defaultTransport = Nil THEN "okFalse" ELSE "testing")
    /\ UNCHANGED <<subject, connectionTestRunning, verifyFailed, overlap, loopVars, timerVars,
                   attemptVars, cpc, svcVars, listenVars, otherVars>>

\* testSocks5Internet.  The process of any service that was started may have
\* ended, or, after Remove, not have noticed yet that its stdin is closed: a
\* request through a socks5 transport passes or fails, any other fails.
TestResult(t) ==
    /\ tpc[t] = "testing"
    /\ \/ TestGoto(t, "okFalse")
       \/ defaultTransport \in socks5 /\ TestGoto(t, "okTrue")
    /\ UNCHANGED <<subject, connectionTestRunning, verifyFailed, overlap, loopVars, timerVars,
                   attemptVars, cpc, svcVars, listenVars, otherVars>>

\* transportOkC <- ok: updateTransportOkLoop is always ready to receive.  After
\* the first true only a test that was not given an Up event reports Up.
TestTransportOk(t) ==
    /\ \/ tpc[t] = "okFalse" /\ transportOk' = FALSE /\ TestGoto(t, "TestFailed")
       \/ /\ tpc[t] = "okTrue" /\ transportOk' = TRUE
          /\ TestGoto(t, IF t \in Verifier THEN "okTrueAgain" ELSE "Up")
       \/ tpc[t] = "okTrueAgain" /\ transportOk' = TRUE /\ TestGoto(t, "unlockPassed")
    /\ UNCHANGED <<subject, connectionTestRunning, verifyFailed, overlap, currentConnections,
                   stopped, panicked, loopVars, timerVars, attemptVars, cpc, svcVars, listenVars>>

\* The second event of a failed test says why; the lock keeps defaultTransport as it was.
Reason == IF defaultTransport = Nil THEN "NotConfigured" ELSE "Failed"

TestSend(t) ==
    /\ \/ tpc[t] = "TestFailed" /\ Receive(subject[t], "TestFailed") /\ TestGoto(t, "Reason")
       \/ tpc[t] = "Reason" /\ Receive(subject[t], Reason) /\ TestGoto(t, "Ended")
       \/ tpc[t] = "Ended" /\ Receive(subject[t], "Ended") /\ TestGoto(t, "unlockFailed")
       \/ tpc[t] = "Up" /\ Receive(subject[t], "Up") /\ TestGoto(t, "okTrueAgain")
    /\ UNCHANGED <<subject, connectionTestRunning, verifyFailed, overlap, attemptVars, cpc,
                   svcVars, listenVars, otherVars>>

\* Fault variant of TestUnlock: the return after a failed test skips RUnlock.
UnlockPassedOnly(t) ==
    /\ tpc[t] = "unlockPassed"
    /\ TestGoto(t, IF t \in Verifier THEN "tellTrue" ELSE "finished")
    /\ UNCHANGED <<subject, connectionTestRunning, verifyFailed, overlap, loopVars, timerVars,
                   attemptVars, cpc, svcVars, listenVars, otherVars>>

\* testConn returns: the deferred RUnlock.
TestUnlock(t) ==
    /\ \/ /\ tpc[t] = "unlockFailed"
          /\ TestGoto(t, IF t \in Verifier THEN "tellFalse" ELSE "finished")
          /\ verifyFailed' = (verifyFailed \/ t \in Verifier)
       \/ /\ tpc[t] = "unlockPassed"
          /\ TestGoto(t, IF t \in Verifier THEN "tellTrue" ELSE "finished")
          /\ UNCHANGED verifyFailed
    /\ UNCHANGED <<subject, connectionTestRunning, overlap, loopVars, timerVars, attemptVars,
                   cpc, svcVars, listenVars, otherVars>>

-----------------------------------------------------------------------------
(* The settings API replaces the list of connections at any time. *)

UpdateConnections ==
    /\ currentConnections' \in Shuffles
    /\ UNCHANGED <<transportOk, stopped, panicked, loopVars, timerVars, attemptVars, cpc,
                   testVars, svcVars, listenVars>>

\* After stopCh the client exits and after a panic it is gone.
Running == ~panicked /\ ~stopped

ConnectStep(a) ==
    \/ ConnectRemove(a) \/ ConnectSend(a) \/ ConnectNew(a)
    \/ ConnectStartFails(a) \/ ConnectStarted(a)
    \/ ConnectSpawnTest(a) \/ ConnectLock(a) \/ ConnectAssign(a)

TestStep(t) ==
    \/ TestRLock(t) \/ TestResult(t) \/ TestTransportOk(t) \/ TestSend(t) \/ TestUnlock(t)

UpgraderStep(u) ==
    \/ ForwardToUpgrader(u) \/ UpgraderRequest(u) \/ UpgraderHTTPClient(u) \/ UpgraderDone(u)

Next ==
    /\ Running
    /\ \/ Reconnect \/ ReconnectNone \/ TimerFires \/ StrayTimerFires
       \/ StopConnectionManager \/ UpdateConnections \/ ForwardToPac \/ PacStep
       \/ \E l \in Listener : AddListener(l)
       \/ \E v \in Verifier : Reverify(v) \/ Tested(v)
       \/ \E u \in Upgrader : UpgraderStep(u)
       \/ \E a \in Attempt : ConnectStep(a)
       \/ \E t \in Tester : TestStep(t)

Spec == Init /\ [][Next]_vars

-----------------------------------------------------------------------------
(* Fairness: the manager loop, the timers and every goroutine that can go   *)
(* on does go on; testSocks5Internet ends within its timeout.  Weak         *)
(* fairness is enough.  Nothing bounds Service.Start, and ticks, settings   *)
(* and exit come from outside: ConnectStartFails, ConnectStarted, Reverify, *)
(* UpdateConnections and StopConnectionManager are not assumed to happen.   *)

Fairness ==
    /\ WF_vars(Running /\ (ForwardToPac \/ Reconnect \/ ReconnectNone))
    /\ WF_vars(Running /\ PacStep)
    /\ WF_vars(Running /\ (TimerFires \/ StrayTimerFires))
    /\ \A v \in Verifier : WF_vars(Running /\ (TestStep(v) \/ Tested(v)))
    /\ \A a \in Attempt : WF_vars(Running /\ TestStep(a))
    /\ \A a \in Attempt : WF_vars(Running /\ (\/ ConnectRemove(a) \/ ConnectSend(a)
                                             \/ ConnectSpawnTest(a) \/ ConnectLock(a)
                                             \/ ConnectAssign(a)))

FairSpec == Spec /\ Fairness

-----------------------------------------------------------------------------
(* Properties *)

OpeningPc == {"remove", "new", "start", "spawn"} \cup DOMAIN EventAt
ProbingPc == {"rlock", "testing", "okFalse", "TestFailed", "Reason", "Ended", "okTrue", "Up"}

\* Attempt a still decides the fate of the connection: it is being set up, is
\* being probed for the first time, or is up.
Live(a) == cpc[a] \in OpeningPc \/ tpc[a] \in ProbingPc \/ reported[a] = "up"

\* The manager never loses its connection and never runs two: as long as
\* verification tests do not overlap, either exactly one reconnect is scheduled
\* (timer armed or fired) and no attempt is live, or none is scheduled and the
\* latest attempt is the only live one.
OneChain ==
    ~overlap => /\ armed + firing <= 1
                /\ armed + firing = 1 <=> \A a \in Attempt : ~Live(a)
                /\ \A a \in Attempt : Live(a) => a = started

\* Once the manager is back at its select statement and PAC at its own, the PAC
\* file sends blocked hosts only through the service of a connection that is up,
\* whatever order the events came in; and unless verification tests overlapped,
\* that service has not been stopped by the connect goroutine of a later attempt.
PacNeverStale ==
    Selecting /\ pacEvent = NoEvent /\ pac # Nil =>
        /\ reported[pac] = "up"
        /\ ~overlap => service[pac] = "running"

\* connectionTestRunning does its job until the first failure: as long as no
\* verification test has failed, it is set exactly while one exists, and two
\* never run together.
FlagGuards ==
    ~verifyFailed => /\ ~overlap
                     /\ connectionTestRunning <=> \E v \in Verifier : tpc[v] # "idle"

\* "Ended // Nothing more can happen": no goroutine is about to report on an
\* attempt that has ended.
NothingAfterEnded ==
    /\ \A t \in Tester :
          tpc[t] \in {"TestFailed", "Reason", "Ended", "Up"} => reported[subject[t]] # "ended"
    /\ \A a \in Attempt : cpc[a] \in DOMAIN EventAt => reported[a] # "ended"

\* "Up // Connected and tested": the transport that was tested is the attempt's own.
UpMeansTested == \A a \in Attempt : tpc[a] = "Up" => defaultTransport = a

\* "Fix transport/connection deadlocks": the manager never waits for an upgrader
\* that waits for a connect goroutine that waits for a test that waits for the manager.
NoWaitCycle ==
    ~ \E u \in Upgrader, t \in Tester :
         /\ todo # <<>> /\ Head(todo) = u
         /\ upc[u] = "rlock" /\ WriterWaiting
         /\ tpc[t] \in {"TestFailed", "Reason", "Ended", "Up"}

\* "Failed // One of the previous steps failed": an attempt whose transport has
\* no command gets as far as reporting Failed.
NewErrorReported ==
    \A a \in Attempt : cpc[a] = "new" /\ conn[a] \in NoTransport => ~panicked

\* After Ended the client tries again, unless it is stopped or no connection is enabled.
Reconnects ==
    \A a \in Attempt : a < MaxAttempts =>
        (reported[a] = "ended" ~> started > a \/ stopped \/ panicked \/ currentConnections = <<>>)

\* Every transport that was started gets a verdict, and is installed.
VerdictAndInstall ==
    \A a \in Attempt :
        cpc[a] = "spawn" ~> \/ reported[a] # "none" /\ cpc[a] = "done"
                            \/ stopped \/ panicked

\* A connection that is up goes on being verified: the flag that keeps further
\* verification tests away does not stay set.
VerifiesAgain == connectionTestRunning ~> ~connectionTestRunning \/ stopped \/ panicked
=============================================================================
