---------------------- MODULE ConnectionManagerProofs ----------------------
(***************************************************************************)
(* Proofs about ConnectionManager.  TypeOK is inductive by itself.         *)
(* OneChain and PacNeverStale are not: IInv adds how far an attempt can be *)
(* (Stages), what the manager remembers (CurrentsMatch), whom a            *)
(* verification test reports on (VerifierAbout, OneVerifier), which        *)
(* services run (ServiceRuns) and what PAC holds while an event is on its  *)
(* way to it (PacFollows).                                                 *)
(***************************************************************************)
EXTENDS ConnectionManager, TLAPS

\* Facts about one attempt that hold whatever the verification tests do.
Stages ==
    \A a \in Attempt :
        /\ subject[a] = a
        /\ a > started <=> cpc[a] = "idle"
        /\ cpc[a] \in OpeningPc \cup {"idle"} => tpc[a] = "idle" /\ reported[a] = "none"
        /\ tpc[a] \in ProbingPc => reported[a] = "none"
        /\ defaultTransport = a => cpc[a] = "done"

\* What the manager remembers of a connection belongs to it.
CurrentsMatch ==
    \A c \in Conn : currents[c] # NoEvent =>
        /\ conn[currents[c].att] = c
        /\ currents[c].att <= started
        /\ currents[c].state = "Up" => reported[currents[c].att] = "up"
        /\ currents[c].state # "Ended"

\* A verification test is about an attempt that has been up.
VerifierAbout ==
    \A v \in Verifier :
        /\ tpc[v] \notin {"Up", "finished"}
        /\ tpc[v] \in {"rlock"} \cup HoldingPc => reported[subject[v]] \in {"up", "ended"}

\* Without overlap there is one such test at most, and its subject is up until
\* the test itself reports Ended.
OneVerifier ==
    ~overlap =>
        /\ \A v, w \in Verifying : v = w
        /\ \A v \in Verifying : tpc[v] # "unlockFailed" => reported[subject[v]] = "up"

\* Without overlap the service of a live attempt runs once it has been started.
ServiceRuns ==
    ~overlap => \A a \in Attempt :
        \/ cpc[a] \in {"WrongProtocol", "WrongFailed", "Test", "spawn"}
        \/ tpc[a] \in ProbingPc
        \/ reported[a] = "up"
        => service[a] = "running"

\* PAC has registered; the event in emit still has to reach it; that event is
\* the end of attempt a.
Registered     == \E i \in 1..Len(listeners) : listeners[i] = Pac
OnItsWay       == \E i \in 1..Len(todo) : todo[i] = Pac
EndedOnItsWay(a) == OnItsWay /\ emit = [att |-> a, state |-> "Ended"]

\* What PAC holds while events are being forwarded and handled.
PacFollows ==
    /\ OnItsWay \/ pacEvent # NoEvent \/ pac # Nil => Registered
    /\ todo = <<>> <=> emit = NoEvent
    /\ emit.state = "Up" => reported[emit.att] = "up"
    /\ pacEvent.state = "Up" => \/ reported[pacEvent.att] = "up"
                                \/ EndedOnItsWay(pacEvent.att)
    /\ pac # Nil => \/ reported[pac] = "up"
                    \/ EndedOnItsWay(pac)
                    \/ pacEvent = [att |-> pac, state |-> "Ended"]

\* The inductive invariant.
IInv == /\ TypeOK /\ Stages /\ CurrentsMatch /\ VerifierAbout /\ OneVerifier
        /\ OneChain /\ ServiceRuns /\ PacFollows

-----------------------------------------------------------------------------

\* The sets that name goroutines and services.
LEMMA Sorts ==
    /\ Attempt \subseteq Nat \ {0}
    /\ Nil \notin Attempt
    /\ Attempt \cap Verifier = {}
    /\ Tester = Attempt \cup Verifier
    /\ Tester \subseteq Nat
    /\ 1 \in Attempt
    /\ \A n \in Attempt : n < MaxAttempts => n + 1 \in Attempt
  BY ConstantsAssumption DEF Attempt, Verifier, Tester, Nil

\* A list left by UpdateConnections is a sequence of connections, and the
\* round-robin index taken modulo its length falls inside it.
LEMMA ShuffleIndex ==
    ASSUME NEW s \in Shuffles, s # <<>>, NEW i \in Nat
    PROVE  /\ s[1] \in Conn
           /\ (i + 1) % Len(s) \in Nat
           /\ s[((i + 1) % Len(s)) + 1] \in Conn
  <1>1. PICK n \in 0..Cardinality(Conn) : s \in [1..n -> Conn]
    BY DEF Shuffles
  <1>2. n \in Nat
    BY <1>1
  <1>3. s \in Seq(Conn) /\ Len(s) = n
    BY <1>1, <1>2
  <1>4. n # 0
    BY <1>1, <1>3
  <1>5. (i + 1) % n \in 0..(n - 1)
    BY <1>2, <1>4
  <1>6. QED
    BY <1>1, <1>2, <1>3, <1>4, <1>5

\* Where a connect goroutine goes after an event, and what it can have sent.
LEMMA PcSorts ==
    /\ \A p \in DOMAIN EventAt : /\ EventAt[p] \in ConnectionState
                                 /\ AfterEvent[p] \in ConnectPc
                                 /\ p # "Ended" => AfterEvent[p] \in OpeningPc
                                 /\ EventAt[p] = "Ended" <=> p = "Ended"
                                 /\ EventAt[p] # "Up"
    /\ AfterEvent["Ended"] = "done"
    /\ DOMAIN EventAt \subseteq OpeningPc
  BY DEF EventAt, AfterEvent, ConnectionState, ConnectPc, OpeningPc

\* Control points the actions name.
LEMMA PcMembers ==
    {"remove", "Init", "ServiceStart", "Failed", "WrongProtocol", "Test", "spawn", "lock",
     "locking", "done"} \subseteq ConnectPc
  BY DEF ConnectPc, EventAt

\* The manager starts in a state of the right type.
LEMMA TypeInit == Init => TypeOK
  <1> SUFFICES ASSUME Init PROVE TypeOK
    OBVIOUS
  <1>1. currentConnections[1] \in Conn
    BY ShuffleIndex DEF Init
  <1>2. currentConnections \in Shuffles /\ currentConnectionID \in Conn
    BY <1>1 DEF Init
  <1>3. /\ conn \in [Attempt -> Conn]
        /\ cpc \in [Attempt -> ConnectPc]
        /\ tpc \in [Tester -> TestPc]
        /\ subject \in [Tester -> Attempt]
        /\ service \in [Attempt -> {"none", "listed", "running", "removed"}]
        /\ reported \in [Attempt -> {"none", "up", "ended"}]
        /\ upc \in [Upgrader -> {"inactive", "listen", "rlock", "fetch"}]
    BY <1>1, Sorts DEF Init, ConnectPc, TestPc
  <1>4. /\ currents \in [Conn -> Event \cup {NoEvent}]
        /\ listeners \in Seq(Listener) /\ todo \in Seq(Listener)
        /\ emit \in Event \cup {NoEvent} /\ pacEvent \in Event \cup {NoEvent}
    BY DEF Init
  <1>5. /\ currentConnIdx \in Nat /\ armed \in Nat /\ firing \in Nat
        /\ timerRef \in BOOLEAN /\ (timerRef => armed > 0) /\ started \in Attempt
        /\ defaultTransport \in Attempt \cup {Nil} /\ pac \in Attempt \cup {Nil}
        /\ socks5 \in SUBSET Attempt
        /\ connectionTestRunning \in BOOLEAN /\ transportOk \in BOOLEAN
        /\ stopped \in BOOLEAN /\ panicked \in BOOLEAN
        /\ verifyFailed \in BOOLEAN /\ overlap \in BOOLEAN
    BY Sorts DEF Init
  <1>6. QED
    BY <1>2, <1>3, <1>4, <1>5 DEF TypeOK, LoopOK, TimerOK, AttemptOK, ConnectOK, TestOK, ServiceOK,
                                ListenOK, OtherOK

\* Receiving an event keeps the types of the manager's own variables and its timers.
LEMMA ReceiveType ==
    ASSUME TypeOK, NEW a \in Attempt, NEW s \in ConnectionState, Receive(a, s)
    PROVE  LoopOK' /\ TimerOK'
  <1>1. [att |-> a, state |-> s] \in Event
    BY DEF Event
  <1>2. currents' \in [Conn -> Event \cup {NoEvent}]
    BY <1>1 DEF TypeOK, LoopOK, AttemptOK, Receive, RecordEvent
  <1>3. /\ todo' \in Seq(Listener)
        /\ emit' \in Event \cup {NoEvent}
    BY <1>1 DEF TypeOK, ListenOK, Receive
  <1>4. /\ armed' \in Nat /\ firing' \in Nat /\ timerRef' \in BOOLEAN
        /\ timerRef' => armed' > 0
    <2>1. /\ armed \in Nat /\ firing \in Nat /\ timerRef \in BOOLEAN
          /\ timerRef => armed > 0
      BY DEF TypeOK, TimerOK
    <2>2. CASE s # "Ended"
      <3>1. armed' = armed /\ timerRef' = timerRef /\ firing' = firing
        BY <2>2 DEF Receive, timerVars
      <3>2. QED
        BY <2>1, <3>1
    <2>3. CASE s = "Ended"
      <3>1. /\ timerRef' = TRUE /\ firing' = firing
            /\ armed' = (IF timerRef THEN armed - 1 ELSE armed) + 1
        BY <2>3 DEF Receive, RearmOnEnded, RearmReconnect
      <3>2. armed' \in Nat /\ armed' > 0
        BY <2>1, <3>1
      <3>3. QED
        BY <2>1, <3>1, <3>2
    <2>4. QED
      BY <2>2, <2>3
  <1>5. reported' \in [Attempt -> {"none", "up", "ended"}]
    BY DEF TypeOK, LoopOK, Receive
  <1>6. QED
    BY <1>2, <1>3, <1>4, <1>5 DEF LoopOK, TimerOK

\* The parts of the type invariant whose variables a step leaves alone.
LEMMA Frame ==
    /\ LoopOK /\ UNCHANGED loopVars => LoopOK'
    /\ TimerOK /\ UNCHANGED timerVars => TimerOK'
    /\ AttemptOK /\ UNCHANGED attemptVars => AttemptOK'
    /\ ConnectOK /\ UNCHANGED cpc => ConnectOK'
    /\ TestOK /\ UNCHANGED testVars => TestOK'
    /\ ServiceOK /\ UNCHANGED svcVars => ServiceOK'
    /\ ListenOK /\ UNCHANGED listenVars => ListenOK'
    /\ OtherOK /\ UNCHANGED otherVars => OtherOK'
  <1>1. LoopOK /\ UNCHANGED loopVars => LoopOK'
    BY DEF LoopOK, loopVars
  <1>2. TimerOK /\ UNCHANGED timerVars => TimerOK'
    BY DEF TimerOK, timerVars
  <1>3. AttemptOK /\ UNCHANGED attemptVars => AttemptOK'
    BY DEF AttemptOK, attemptVars
  <1>4. ConnectOK /\ UNCHANGED cpc => ConnectOK'
    BY DEF ConnectOK
  <1>5. TestOK /\ UNCHANGED testVars => TestOK'
    BY DEF TestOK, testVars
  <1>6. ServiceOK /\ UNCHANGED svcVars => ServiceOK'
    BY DEF ServiceOK, svcVars
  <1>7. ListenOK /\ UNCHANGED listenVars => ListenOK'
    BY DEF ListenOK, listenVars
  <1>8. OtherOK /\ UNCHANGED otherVars => OtherOK'
    BY DEF OtherOK, otherVars
  <1>9. QED
    BY <1>1, <1>2, <1>3, <1>4, <1>5, <1>6, <1>7, <1>8

\* Every step keeps the type invariant: one step of the proof per action.
LEMMA TypeNext == TypeOK /\ [Next]_vars => TypeOK'
  <1> SUFFICES ASSUME TypeOK, [Next]_vars PROVE TypeOK'
    OBVIOUS
  <1>1. CASE Reconnect
    <2>1. UNCHANGED <<loopVars, testVars, svcVars, listenVars, otherVars>>
      BY <1>1 DEF Reconnect, loopVars, timerVars, attemptVars, testVars, svcVars,
        listenVars, otherVars, StartAttempt
    <2>2. TimerOK'
      BY <1>1, Sorts, ShuffleIndex DEF TypeOK, TimerOK, Reconnect, NextConnection,
        StartAttempt, loopVars, timerVars, attemptVars, testVars, svcVars, listenVars,
        otherVars
    <2>3. AttemptOK'
      BY <1>1, Sorts, ShuffleIndex DEF TypeOK, AttemptOK, OtherOK, Reconnect,
        NextConnection, StartAttempt, loopVars, timerVars, attemptVars, testVars,
        svcVars, listenVars, otherVars
    <2>4. ConnectOK'
      BY <1>1, Sorts, PcMembers, ShuffleIndex DEF TypeOK, ConnectOK, AttemptOK,
        Reconnect, NextConnection, StartAttempt, loopVars, timerVars, attemptVars,
        testVars, svcVars, listenVars, otherVars
    <2>5. QED
      BY <2>1, <2>2, <2>3, <2>4, Frame DEF TypeOK
  <1>2. CASE ReconnectNone
    <2>1. UNCHANGED <<loopVars, attemptVars, cpc, testVars, svcVars, listenVars, otherVars>>
      BY <1>2 DEF ReconnectNone, loopVars, timerVars, attemptVars, testVars, svcVars,
        listenVars, otherVars
    <2>2. TimerOK'
      BY <1>2, Sorts DEF TypeOK, TimerOK, ReconnectNone, loopVars, timerVars,
        attemptVars, testVars, svcVars, listenVars, otherVars
    <2>3. QED
      BY <2>1, <2>2, Frame DEF TypeOK
  <1>3. CASE TimerFires
    <2>1. UNCHANGED <<loopVars, attemptVars, cpc, testVars, svcVars, listenVars, otherVars>>
      BY <1>3 DEF TimerFires, loopVars, timerVars, attemptVars, testVars, svcVars,
        listenVars, otherVars
    <2>2. TimerOK'
      <3>1. armed \in Nat /\ firing \in Nat /\ armed > 0
        BY <1>3 DEF TypeOK, TimerOK, TimerFires
      <3>2. armed' = armed - 1 /\ firing' = firing + 1 /\ timerRef' = FALSE
        BY <1>3 DEF TimerFires
      <3>3. armed' \in Nat /\ firing' \in Nat
        BY <3>1, <3>2
      <3>4. QED
        BY <3>2, <3>3 DEF TimerOK
    <2>3. QED
      BY <2>1, <2>2, Frame DEF TypeOK
  <1>4. CASE StrayTimerFires
    <2>1. UNCHANGED <<loopVars, attemptVars, cpc, testVars, svcVars, listenVars, otherVars>>
      BY <1>4 DEF StrayTimerFires, loopVars, timerVars, attemptVars, testVars, svcVars,
        listenVars, otherVars
    <2>2. TimerOK'
      BY <1>4, Sorts DEF TypeOK, TimerOK, StrayTimerFires, loopVars, timerVars,
        attemptVars, testVars, svcVars, listenVars, otherVars
    <2>3. QED
      BY <2>1, <2>2, Frame DEF TypeOK
  <1>5. CASE StopConnectionManager
    <2>1. UNCHANGED <<loopVars, timerVars, attemptVars, cpc, testVars, svcVars, listenVars>>
      BY <1>5 DEF StopConnectionManager, loopVars, timerVars, attemptVars, testVars,
        svcVars, listenVars, otherVars
    <2>2. OtherOK'
      BY <1>5, Sorts DEF TypeOK, OtherOK, StopConnectionManager, loopVars, timerVars,
        attemptVars, testVars, svcVars, listenVars, otherVars
    <2>3. QED
      BY <2>1, <2>2, Frame DEF TypeOK
  <1>6. CASE UpdateConnections
    <2>1. UNCHANGED <<loopVars, timerVars, attemptVars, cpc, testVars, svcVars, listenVars>>
      BY <1>6 DEF UpdateConnections, loopVars, timerVars, attemptVars, testVars,
        svcVars, listenVars, otherVars
    <2>2. OtherOK'
      BY <1>6, Sorts DEF TypeOK, OtherOK, UpdateConnections, loopVars, timerVars,
        attemptVars, testVars, svcVars, listenVars, otherVars
    <2>3. QED
      BY <2>1, <2>2, Frame DEF TypeOK
  <1>7. CASE ForwardToPac
    <2>1. UNCHANGED <<timerVars, attemptVars, cpc, testVars, svcVars, otherVars>>
      BY <1>7 DEF ForwardToPac
    <2>2. LoopOK'
      BY <1>7 DEF TypeOK, LoopOK, ForwardToPac, Delivered
    <2>3. ListenOK'
      BY <1>7 DEF TypeOK, LoopOK, ListenOK, ForwardToPac
    <2>4. QED
      BY <2>1, <2>2, <2>3, Frame DEF TypeOK
  <1>7a. CASE PacStep
    <2>1. UNCHANGED <<loopVars, timerVars, attemptVars, cpc, testVars, svcVars>>
      BY <1>7a DEF PacStep
    <2>2. ListenOK'
      <3>1. pacEvent.state = "Up" => pacEvent.att \in Attempt
        BY DEF TypeOK, ListenOK, Event, NoEvent
      <3>2. pac \in Attempt \cup {Nil}
        BY DEF TypeOK, ListenOK
      <3>3. pac' \in Attempt \cup {Nil}
        BY <1>7a, <3>1, <3>2 DEF PacStep, PacHandles, SetBlockedMethod
      <3>4. UNCHANGED <<listeners, upc>> /\ pacEvent' = NoEvent
        BY <1>7a DEF PacStep
      <3>5. QED
        BY <3>3, <3>4 DEF TypeOK, ListenOK
    <2>3. OtherOK'
      BY <1>7a DEF TypeOK, OtherOK, PacStep, PacHandles, SetBlockedMethod
    <2>4. QED
      BY <2>1, <2>2, <2>3, Frame DEF TypeOK
  <1>8. ASSUME NEW l \in Listener, AddListener(l) PROVE TypeOK'
    <2>1. UNCHANGED <<loopVars, timerVars, attemptVars, cpc, testVars, svcVars, otherVars>>
      BY <1>8 DEF AddListener, loopVars, timerVars, attemptVars, testVars, svcVars,
        listenVars, otherVars
    <2>2. ListenOK'
      BY <1>8, Sorts DEF TypeOK, ListenOK, LoopOK, AddListener, loopVars, timerVars,
        attemptVars, testVars, svcVars, listenVars, otherVars
    <2>3. QED
      BY <2>1, <2>2, Frame DEF TypeOK
  <1>9. ASSUME NEW v \in Verifier, Reverify(v) PROVE TypeOK'
    <2>1. UNCHANGED <<loopVars, timerVars, attemptVars, cpc, svcVars, listenVars, otherVars>>
      BY <1>9 DEF Reverify, loopVars, timerVars, attemptVars, testVars, svcVars,
        listenVars, otherVars
    <2>2. TestOK'
      <3>1. currents[currentConnectionID].att \in Attempt
        BY <1>9 DEF TypeOK, LoopOK, AttemptOK, Reverify, MayVerify, Event, NoEvent
      <3>2. tpc' \in [Tester -> TestPc] /\ subject' \in [Tester -> Attempt]
        BY <1>9, <3>1, Sorts DEF TypeOK, TestOK, Reverify, TestPc
      <3>3. /\ connectionTestRunning' \in BOOLEAN
            /\ verifyFailed' \in BOOLEAN /\ overlap' \in BOOLEAN
        BY <1>9 DEF TypeOK, TestOK, Reverify
      <3>4. QED
        BY <3>2, <3>3 DEF TestOK
    <2>3. QED
      BY <2>1, <2>2, Frame DEF TypeOK
  <1>10. ASSUME NEW v \in Verifier, Tested(v) PROVE TypeOK'
    <2>1. UNCHANGED <<loopVars, timerVars, attemptVars, cpc, svcVars, listenVars, otherVars>>
      BY <1>10 DEF Tested, loopVars, timerVars, attemptVars, testVars, svcVars,
        listenVars, otherVars
    <2>2. TestOK'
      <3>1. tpc' \in [Tester -> TestPc]
        BY <1>10, Sorts DEF TypeOK, TestOK, Tested, TestPc
      <3>2. connectionTestRunning' = FALSE
        BY <1>10 DEF Tested, ReportTested
      <3>3. UNCHANGED <<subject, verifyFailed, overlap>>
        BY <1>10 DEF Tested
      <3>4. QED
        BY <3>1, <3>2, <3>3 DEF TypeOK, TestOK
    <2>3. QED
      BY <2>1, <2>2, Frame DEF TypeOK
  <1>11. ASSUME NEW u \in Upgrader, ForwardToUpgrader(u) PROVE TypeOK'
    <2>1. UNCHANGED <<timerVars, attemptVars, cpc, testVars, svcVars, otherVars>>
      BY <1>11 DEF ForwardToUpgrader, loopVars, timerVars, attemptVars, testVars,
        svcVars, listenVars, otherVars
    <2>2. LoopOK'
      BY <1>11, Sorts DEF TypeOK, LoopOK, ForwardToUpgrader, Delivered, loopVars,
        timerVars, attemptVars, testVars, svcVars, listenVars, otherVars
    <2>3. ListenOK'
      BY <1>11, Sorts DEF TypeOK, ListenOK, LoopOK, ForwardToUpgrader, Delivered,
        loopVars, timerVars, attemptVars, testVars, svcVars, listenVars, otherVars
    <2>4. QED
      BY <2>1, <2>2, <2>3, Frame DEF TypeOK
  <1>12. ASSUME NEW u \in Upgrader, UpgraderRequest(u) PROVE TypeOK'
    <2>1. UNCHANGED <<loopVars, timerVars, attemptVars, cpc, testVars, svcVars, otherVars>>
      BY <1>12 DEF UpgraderRequest, loopVars, timerVars, attemptVars, testVars, svcVars,
        listenVars, otherVars
    <2>2. ListenOK'
      BY <1>12, Sorts DEF TypeOK, ListenOK, LoopOK, UpgraderRequest, loopVars,
        timerVars, attemptVars, testVars, svcVars, listenVars, otherVars
    <2>3. QED
      BY <2>1, <2>2, Frame DEF TypeOK
  <1>13. ASSUME NEW u \in Upgrader, UpgraderHTTPClient(u) PROVE TypeOK'
    <2>1. UNCHANGED <<loopVars, timerVars, attemptVars, cpc, testVars, svcVars, otherVars>>
      BY <1>13 DEF UpgraderHTTPClient, loopVars, timerVars, attemptVars, testVars,
        svcVars, listenVars, otherVars
    <2>2. ListenOK'
      BY <1>13, Sorts DEF TypeOK, ListenOK, LoopOK, UpgraderHTTPClient, loopVars,
        timerVars, attemptVars, testVars, svcVars, listenVars, otherVars
    <2>3. QED
      BY <2>1, <2>2, Frame DEF TypeOK
  <1>14. ASSUME NEW u \in Upgrader, UpgraderDone(u) PROVE TypeOK'
    <2>1. UNCHANGED <<loopVars, timerVars, attemptVars, cpc, testVars, svcVars, otherVars>>
      BY <1>14 DEF UpgraderDone, loopVars, timerVars, attemptVars, testVars, svcVars,
        listenVars, otherVars
    <2>2. ListenOK'
      BY <1>14, Sorts DEF TypeOK, ListenOK, LoopOK, UpgraderDone, loopVars, timerVars,
        attemptVars, testVars, svcVars, listenVars, otherVars
    <2>3. QED
      BY <2>1, <2>2, Frame DEF TypeOK
  <1>15. ASSUME NEW a \in Attempt, ConnectRemove(a) PROVE TypeOK'
    <2>1. UNCHANGED <<loopVars, timerVars, attemptVars, testVars, listenVars, otherVars>>
      BY <1>15 DEF ConnectRemove, loopVars, timerVars, attemptVars, testVars, svcVars,
        listenVars, otherVars
    <2>2. ServiceOK'
      BY <1>15, Sorts DEF TypeOK, ServiceOK, ConnectRemove, ConnectGoto, loopVars,
        timerVars, attemptVars, testVars, svcVars, listenVars, otherVars
    <2>3. ConnectOK'
      BY <1>15, Sorts, PcMembers DEF TypeOK, ConnectOK, AttemptOK, ConnectRemove,
        ConnectGoto, loopVars, timerVars, attemptVars, testVars, svcVars, listenVars,
        otherVars
    <2>4. QED
      BY <2>1, <2>2, <2>3, Frame DEF TypeOK
  <1>16. ASSUME NEW a \in Attempt, ConnectSend(a) PROVE TypeOK'
    <2>1. UNCHANGED <<attemptVars, testVars, svcVars, listenVars, otherVars>>
      BY <1>16 DEF ConnectSend, loopVars, timerVars, attemptVars, testVars, svcVars,
        listenVars, otherVars
    <2>2. LoopOK'
      BY <1>16, Sorts, PcSorts, ReceiveType DEF TypeOK, LoopOK, ConnectSend,
        ConnectGoto, loopVars, timerVars, attemptVars, testVars, svcVars, listenVars,
        otherVars
    <2>3. TimerOK'
      BY <1>16, Sorts, PcSorts, ReceiveType DEF TypeOK, TimerOK, ConnectSend,
        ConnectGoto, loopVars, timerVars, attemptVars, testVars, svcVars, listenVars,
        otherVars
    <2>4. ConnectOK'
      BY <1>16, Sorts, PcMembers, PcSorts, ReceiveType DEF TypeOK, ConnectOK, AttemptOK,
        ConnectSend, ConnectGoto, loopVars, timerVars, attemptVars, testVars, svcVars,
        listenVars, otherVars
    <2>5. QED
      BY <2>1, <2>2, <2>3, <2>4, Frame DEF TypeOK
  <1>17. ASSUME NEW a \in Attempt, ConnectNew(a) PROVE TypeOK'
    <2>1. UNCHANGED <<loopVars, timerVars, attemptVars, testVars, listenVars>>
      BY <1>17 DEF ConnectNew, loopVars, timerVars, attemptVars, testVars, svcVars,
        listenVars, otherVars
    <2>2. ServiceOK'
      BY <1>17, Sorts DEF TypeOK, ServiceOK, ConnectNew, ConnectGoto, loopVars,
        timerVars, attemptVars, testVars, svcVars, listenVars, otherVars
    <2>3. ConnectOK'
      BY <1>17, Sorts, PcMembers DEF TypeOK, ConnectOK, AttemptOK, ConnectNew,
        ConnectGoto, loopVars, timerVars, attemptVars, testVars, svcVars, listenVars,
        otherVars
    <2>4. OtherOK'
      BY <1>17, Sorts DEF TypeOK, OtherOK, ConnectNew, ConnectGoto, loopVars, timerVars,
        attemptVars, testVars, svcVars, listenVars, otherVars
    <2>5. QED
      BY <2>1, <2>2, <2>3, <2>4, Frame DEF TypeOK
  <1>18. ASSUME NEW a \in Attempt, ConnectStartFails(a) PROVE TypeOK'
    <2>1. UNCHANGED <<loopVars, timerVars, attemptVars, testVars, svcVars, listenVars, otherVars>>
      BY <1>18 DEF ConnectStartFails, loopVars, timerVars, attemptVars, testVars,
        svcVars, listenVars, otherVars
    <2>2. ConnectOK'
      BY <1>18, Sorts, PcMembers DEF TypeOK, ConnectOK, AttemptOK, ConnectStartFails,
        ConnectGoto, loopVars, timerVars, attemptVars, testVars, svcVars, listenVars,
        otherVars
    <2>3. QED
      BY <2>1, <2>2, Frame DEF TypeOK
  <1>19. ASSUME NEW a \in Attempt, ConnectStarted(a) PROVE TypeOK'
    <2>1. UNCHANGED <<loopVars, timerVars, attemptVars, testVars, listenVars, otherVars>>
      BY <1>19 DEF ConnectStarted, loopVars, timerVars, attemptVars, testVars, svcVars,
        listenVars, otherVars
    <2>2. ServiceOK'
      BY <1>19, Sorts DEF TypeOK, ServiceOK, ConnectStarted, ConnectGoto, loopVars,
        timerVars, attemptVars, testVars, svcVars, listenVars, otherVars
    <2>3. ConnectOK'
      BY <1>19, Sorts, PcMembers DEF TypeOK, ConnectOK, AttemptOK, ConnectStarted,
        ConnectGoto, loopVars, timerVars, attemptVars, testVars, svcVars, listenVars,
        otherVars
    <2>4. QED
      BY <2>1, <2>2, <2>3, Frame DEF TypeOK
  <1>20. ASSUME NEW a \in Attempt, ConnectSpawnTest(a) PROVE TypeOK'
    <2>1. UNCHANGED <<loopVars, timerVars, attemptVars, svcVars, listenVars, otherVars>>
      BY <1>20 DEF ConnectSpawnTest, loopVars, timerVars, attemptVars, testVars,
        svcVars, listenVars, otherVars
    <2>2. TestOK'
      BY <1>20, Sorts DEF TypeOK, TestOK, LoopOK, AttemptOK, ConnectSpawnTest,
        ConnectGoto, TestPc, loopVars, timerVars, attemptVars, testVars, svcVars,
        listenVars, otherVars
    <2>3. ConnectOK'
      BY <1>20, Sorts, PcMembers DEF TypeOK, ConnectOK, AttemptOK, ConnectSpawnTest,
        ConnectGoto, TestPc, loopVars, timerVars, attemptVars, testVars, svcVars,
        listenVars, otherVars
    <2>4. QED
      BY <2>1, <2>2, <2>3, Frame DEF TypeOK
  <1>21. ASSUME NEW a \in Attempt, ConnectLock(a) PROVE TypeOK'
    <2>1. UNCHANGED <<loopVars, timerVars, attemptVars, testVars, svcVars, listenVars, otherVars>>
      BY <1>21 DEF ConnectLock, loopVars, timerVars, attemptVars, testVars, svcVars,
        listenVars, otherVars
    <2>2. ConnectOK'
      BY <1>21, Sorts, PcMembers DEF TypeOK, ConnectOK, AttemptOK, ConnectLock,
        ConnectGoto, loopVars, timerVars, attemptVars, testVars, svcVars, listenVars,
        otherVars
    <2>3. QED
      BY <2>1, <2>2, Frame DEF TypeOK
  <1>22. ASSUME NEW a \in Attempt, ConnectAssign(a) PROVE TypeOK'
    <2>1. UNCHANGED <<loopVars, timerVars, attemptVars, testVars, listenVars, otherVars>>
      BY <1>22 DEF ConnectAssign, loopVars, timerVars, attemptVars, testVars, svcVars,
        listenVars, otherVars
    <2>2. ServiceOK'
      BY <1>22, Sorts DEF TypeOK, ServiceOK, ConnectAssign, ConnectGoto, loopVars,
        timerVars, attemptVars, testVars, svcVars, listenVars, otherVars
    <2>3. ConnectOK'
      BY <1>22, Sorts, PcMembers DEF TypeOK, ConnectOK, AttemptOK, ConnectAssign,
        ConnectGoto, loopVars, timerVars, attemptVars, testVars, svcVars, listenVars,
        otherVars
    <2>4. QED
      BY <2>1, <2>2, <2>3, Frame DEF TypeOK
  <1>23. ASSUME NEW t \in Tester, TestRLock(t) PROVE TypeOK'
    <2>1. UNCHANGED <<loopVars, timerVars, attemptVars, cpc, svcVars, listenVars, otherVars>>
      BY <1>23 DEF TestRLock, loopVars, timerVars, attemptVars, testVars, svcVars,
        listenVars, otherVars
    <2>2. TestOK'
      BY <1>23, Sorts DEF TypeOK, TestOK, LoopOK, AttemptOK, TestRLock, TestGoto,
        TestPc, HoldingPc, loopVars, timerVars, attemptVars, testVars, svcVars,
        listenVars, otherVars
    <2>3. QED
      BY <2>1, <2>2, Frame DEF TypeOK
  <1>24. ASSUME NEW t \in Tester, TestResult(t) PROVE TypeOK'
    <2>1. UNCHANGED <<loopVars, timerVars, attemptVars, cpc, svcVars, listenVars, otherVars>>
      BY <1>24 DEF TestResult, loopVars, timerVars, attemptVars, testVars, svcVars,
        listenVars, otherVars
    <2>2. TestOK'
      BY <1>24, Sorts DEF TypeOK, TestOK, LoopOK, AttemptOK, TestResult, TestGoto,
        TestPc, HoldingPc, loopVars, timerVars, attemptVars, testVars, svcVars,
        listenVars, otherVars
    <2>3. QED
      BY <2>1, <2>2, Frame DEF TypeOK
  <1>25. ASSUME NEW t \in Tester, TestTransportOk(t) PROVE TypeOK'
    <2>1. UNCHANGED <<loopVars, timerVars, attemptVars, cpc, svcVars, listenVars>>
      BY <1>25 DEF TestTransportOk, loopVars, timerVars, attemptVars, testVars, svcVars,
        listenVars, otherVars
    <2>2. TestOK'
      BY <1>25, Sorts DEF TypeOK, TestOK, LoopOK, AttemptOK, TestTransportOk, TestGoto,
        TestPc, HoldingPc, loopVars, timerVars, attemptVars, testVars, svcVars,
        listenVars, otherVars
    <2>3. OtherOK'
      BY <1>25, Sorts DEF TypeOK, OtherOK, TestTransportOk, TestGoto, TestPc, HoldingPc,
        loopVars, timerVars, attemptVars, testVars, svcVars, listenVars, otherVars
    <2>4. QED
      BY <2>1, <2>2, <2>3, Frame DEF TypeOK
  <1>26. ASSUME NEW t \in Tester, TestSend(t) PROVE TypeOK'
    <2>1. UNCHANGED <<attemptVars, cpc, svcVars, listenVars, otherVars>>
      BY <1>26 DEF TestSend, loopVars, timerVars, attemptVars, testVars, svcVars,
        listenVars, otherVars
    <2>2. PICK s \in ConnectionState : Receive(subject[t], s)
      BY <1>26 DEF TestSend, Reason, ConnectionState
    <2>3. LoopOK' /\ TimerOK'
      <3>1. subject[t] \in Attempt
        BY DEF TypeOK, TestOK
      <3>2. QED
        BY <2>2, <3>1, ReceiveType
    <2>4. TestOK'
      BY <1>26, Sorts, ReceiveType DEF TypeOK, TestOK, LoopOK, AttemptOK, TestSend,
        TestGoto, TestPc, HoldingPc, Reason, ConnectionState, loopVars, timerVars,
        attemptVars, testVars, svcVars, listenVars, otherVars
    <2>5. QED
      BY <2>1, <2>2, <2>3, <2>4, Frame DEF TypeOK
  <1>27. ASSUME NEW t \in Tester, TestUnlock(t) PROVE TypeOK'
    <2>1. UNCHANGED <<loopVars, timerVars, attemptVars, cpc, svcVars, listenVars, otherVars>>
      BY <1>27 DEF TestUnlock, loopVars, timerVars, attemptVars, testVars, svcVars,
        listenVars, otherVars
    <2>2. TestOK'
      BY <1>27, Sorts DEF TypeOK, TestOK, LoopOK, AttemptOK, TestUnlock, TestGoto,
        TestPc, HoldingPc, loopVars, timerVars, attemptVars, testVars, svcVars,
        listenVars, otherVars
    <2>3. QED
      BY <2>1, <2>2, Frame DEF TypeOK
  <1>28. CASE UNCHANGED vars
    BY <1>28, Frame DEF TypeOK, vars
  <1>29. QED
      BY <1>1, <1>2, <1>3, <1>4, <1>5, <1>6, <1>7, <1>7a, <1>8, <1>9, <1>10, <1>11, <1>12,
        <1>13, <1>14, <1>15, <1>16, <1>17, <1>18, <1>19, <1>20, <1>21, <1>22, <1>23,
        <1>24, <1>25, <1>26, <1>27, <1>28 DEF Next, ConnectStep, TestStep, UpgraderStep

\* The parts of the invariant whose variables a step leaves alone.
LEMMA InvFrame ==
    /\ Stages /\ UNCHANGED <<cpc, tpc, subject, started, reported, defaultTransport>> => Stages'
    /\ CurrentsMatch /\ UNCHANGED <<currents, conn, started, reported>> => CurrentsMatch'
    /\ VerifierAbout /\ UNCHANGED <<tpc, subject, reported>> => VerifierAbout'
    /\ OneVerifier /\ UNCHANGED <<overlap, tpc, subject, reported>> => OneVerifier'
    /\ OneChain /\ UNCHANGED <<overlap, armed, firing, cpc, tpc, reported, started>> => OneChain'
    /\ ServiceRuns /\ UNCHANGED <<overlap, cpc, tpc, reported, service>> => ServiceRuns'
    /\ PacFollows /\ UNCHANGED <<pac, pacEvent, listeners, reported, emit, todo>> => PacFollows'
  <1>1. Stages /\ UNCHANGED <<cpc, tpc, subject, started, reported, defaultTransport>> => Stages'
    BY DEF Stages
  <1>2. CurrentsMatch /\ UNCHANGED <<currents, conn, started, reported>> => CurrentsMatch'
    BY DEF CurrentsMatch
  <1>3. VerifierAbout /\ UNCHANGED <<tpc, subject, reported>> => VerifierAbout'
    BY DEF VerifierAbout
  <1>4. OneVerifier /\ UNCHANGED <<overlap, tpc, subject, reported>> => OneVerifier'
    BY DEF OneVerifier, Verifying
  <1>5. OneChain /\ UNCHANGED <<overlap, armed, firing, cpc, tpc, reported, started>> => OneChain'
    BY DEF OneChain, Live
  <1>6. ServiceRuns /\ UNCHANGED <<overlap, cpc, tpc, reported, service>> => ServiceRuns'
    BY DEF ServiceRuns
  <1>7. PacFollows /\ UNCHANGED <<pac, pacEvent, listeners, reported, emit, todo>> => PacFollows'
    BY DEF PacFollows, Registered, OnItsWay, EndedOnItsWay
  <1>8. QED
    BY <1>1, <1>2, <1>3, <1>4, <1>5, <1>6, <1>7

\* Receiving an event records Up and Ended in the history of its attempt only.
LEMMA ReceiveReported ==
    ASSUME TypeOK, NEW a \in Attempt, NEW s \in ConnectionState, Receive(a, s)
    PROVE  /\ s = "Up" => reported' = [reported EXCEPT ![a] = "up"]
           /\ s = "Ended" => reported' = [reported EXCEPT ![a] = "ended"]
           /\ s \notin {"Up", "Ended"} => reported' = reported
  BY DEF TypeOK, LoopOK, Receive

\* Ended schedules exactly one reconnect when none was scheduled.
LEMMA ReceiveTimers ==
    ASSUME TypeOK, NEW a \in Attempt, NEW s \in ConnectionState, Receive(a, s)
    PROVE  /\ s # "Ended" => armed' = armed /\ firing' = firing
           /\ s = "Ended" /\ armed + firing = 0 => armed' + firing' = 1
  <1>1. armed \in Nat /\ firing \in Nat /\ (timerRef => armed > 0)
    BY DEF TypeOK, TimerOK
  <1>2. s # "Ended" => armed' = armed /\ firing' = firing
    BY DEF Receive, timerVars
  <1>3. ASSUME s = "Ended", armed + firing = 0 PROVE armed' + firing' = 1
    <2>1. armed = 0 /\ firing = 0 /\ ~timerRef
      BY <1>1, <1>3
    <2>2. armed' = armed + 1 /\ firing' = firing
      BY <1>3, <2>1 DEF Receive, RearmOnEnded, RearmReconnect
    <2>3. QED
      BY <2>1, <2>2
  <1>4. QED
    BY <1>2, <1>3

\* Receiving an event keeps what the manager remembers of each connection.
LEMMA ReceiveCurrents ==
    ASSUME TypeOK, CurrentsMatch, NEW a \in Attempt, NEW s \in ConnectionState, Receive(a, s),
           a <= started, UNCHANGED <<conn, started>>
    PROVE  CurrentsMatch'
  <1> SUFFICES ASSUME NEW c \in Conn, currents'[c] # NoEvent
               PROVE  /\ conn[currents'[c].att] = c
                      /\ currents'[c].att <= started
                      /\ currents'[c].state = "Up" => reported'[currents'[c].att] = "up"
                      /\ currents'[c].state # "Ended"
    BY DEF CurrentsMatch
  <1>1. conn[a] \in Conn /\ currents \in [Conn -> Event \cup {NoEvent}]
    BY DEF TypeOK, AttemptOK, LoopOK
  <1>2. CASE c = conn[a]
    <2>1. s # "Ended" /\ currents'[c] = [att |-> a, state |-> s]
      BY <1>1, <1>2 DEF Receive, RecordEvent
    <2>2. s = "Up" => reported'[a] = "up"
      BY ReceiveReported DEF TypeOK, LoopOK
    <2>3. QED
      BY <1>2, <2>1, <2>2
  <1>3. CASE c # conn[a]
    <2>1. currents'[c] = currents[c]
      BY <1>1, <1>3 DEF Receive, RecordEvent
    <2>2. /\ conn[currents[c].att] = c
          /\ currents[c].att <= started
          /\ currents[c].state = "Up" => reported[currents[c].att] = "up"
          /\ currents[c].state # "Ended"
      BY <2>1 DEF CurrentsMatch
    <2>3. currents[c].att \in Attempt
      BY <1>1, <2>1 DEF Event
    <2>4. currents[c].att # a
      BY <1>3, <2>2
    <2>5. reported'[currents[c].att] = reported[currents[c].att]
      BY <2>3, <2>4 DEF Receive, TypeOK, LoopOK
    <2>6. QED
      BY <2>1, <2>2, <2>5
  <1>4. QED
    BY <1>2, <1>3

\* Receiving an event starts forwarding it: an attempt that was up is up, or its
\* end is on its way to PAC.
LEMMA ReceivePac ==
    ASSUME TypeOK, PacFollows, NEW a \in Attempt, NEW s \in ConnectionState, Receive(a, s),
           UNCHANGED <<pac, pacEvent, listeners>>
    PROVE  PacFollows'
  <1>1. \A b : ~EndedOnItsWay(b)
    BY DEF Receive, Selecting, EndedOnItsWay, OnItsWay
  <1>2. todo' = listeners
    BY DEF Receive
  <1>3. emit' = IF listeners = <<>> THEN NoEvent ELSE [att |-> a, state |-> s]
    BY DEF Receive
  <1>4. Registered => listeners # <<>> /\ Registered' /\ OnItsWay'
    BY <1>2 DEF Registered, OnItsWay
  <1>5. OnItsWay' => Registered'
    BY <1>2 DEF Registered, OnItsWay
  <1>6. s = "Up" => reported'[a] = "up"
    BY ReceiveReported DEF TypeOK, LoopOK
  <1>7. ASSUME NEW b \in Attempt, reported[b] = "up", Registered
        PROVE  reported'[b] = "up" \/ EndedOnItsWay(b)'
    <2>1. b # a \/ s # "Ended" => reported'[b] = "up"
      BY <1>7, ReceiveReported DEF TypeOK, LoopOK
    <2>2. b = a /\ s = "Ended" => EndedOnItsWay(b)'
      BY <1>3, <1>4, <1>7 DEF EndedOnItsWay
    <2>3. QED
      BY <2>1, <2>2
  <1>8. todo' = <<>> <=> emit' = NoEvent
    BY <1>2, <1>3, Sorts DEF NoEvent
  <1>9. emit'.state = "Up" => reported'[emit'.att] = "up"
    BY <1>3, <1>6 DEF NoEvent
  <1>10. pacEvent.state = "Up" => \/ reported'[pacEvent.att] = "up"
                                 \/ EndedOnItsWay(pacEvent.att)'
    <2>1. pacEvent.state = "Up" => pacEvent.att \in Attempt /\ pacEvent # NoEvent
      BY DEF TypeOK, ListenOK, Event, NoEvent
    <2>2. QED
      BY <1>1, <1>7, <2>1 DEF PacFollows
  <1>11. pac # Nil => \/ reported'[pac] = "up"
                      \/ EndedOnItsWay(pac)'
                      \/ pacEvent = [att |-> pac, state |-> "Ended"]
    BY <1>1, <1>7 DEF PacFollows, TypeOK, ListenOK
  <1>12. QED
    BY <1>4, <1>5, <1>8, <1>9, <1>10, <1>11 DEF PacFollows

\* The last listener is served when one was left.
LEMMA TailEmpty ==
    ASSUME NEW S, NEW q \in Seq(S), q # <<>>
    PROVE  Tail(q) = <<>> <=> Len(q) = 1
  <1>1. Len(q) \in Nat \ {0} /\ Len(Tail(q)) = Len(q) - 1 /\ Tail(q) \in Seq(S)
    OBVIOUS
  <1>2. \A r \in Seq(S) : r = <<>> <=> Len(r) = 0
    OBVIOUS
  <1>3. Tail(q) = <<>> <=> Len(Tail(q)) = 0
    BY <1>1, <1>2, Zenon
  <1>4. Len(Tail(q)) = 0 <=> Len(q) = 1
    BY <1>1
  <1>5. QED
    BY <1>3, <1>4, Zenon

\* Delivery to a listener other than Pac leaves the event on its way to Pac.
LEMMA DeliverOther ==
    ASSUME TypeOK, PacFollows, todo # <<>>, Head(todo) # Pac, Delivered,
           UNCHANGED <<pac, pacEvent, listeners, reported>>
    PROVE  PacFollows'
  <1>1. todo \in Seq(Listener) /\ todo' = Tail(todo)
    BY DEF TypeOK, LoopOK, Delivered
  <1>2. Len(todo) = 1 => todo' = <<>>
    BY <1>1, TailEmpty
  <1>3. Len(todo) # 1 => todo' # <<>> /\ emit' = emit
    BY <1>1, TailEmpty DEF Delivered
  <1>4. Len(todo) = 1 => emit' = NoEvent
    BY DEF Delivered
  <1>5. emit # NoEvent
    BY DEF PacFollows
  <1>6. OnItsWay => OnItsWay' /\ emit' = emit
    <2>1. SUFFICES ASSUME NEW i \in 1..Len(todo), todo[i] = Pac
                   PROVE  OnItsWay' /\ emit' = emit
      BY DEF OnItsWay
    <2>2. i # 1
      BY <1>1, <2>1
    <2>3. i - 1 \in 1..Len(todo') /\ todo'[i - 1] = Pac
      BY <1>1, <2>1, <2>2
    <2>4. Len(todo) # 1
      BY <1>1, <2>1, <2>2
    <2>5. QED
      BY <1>3, <2>3, <2>4 DEF OnItsWay
  <1>7. emit'.state = "Up" => reported'[emit'.att] = "up"
    BY <1>3, <1>4 DEF PacFollows, NoEvent
  <1>8. \A b : EndedOnItsWay(b) => EndedOnItsWay(b)'
    BY <1>6 DEF EndedOnItsWay
  <1>9. OnItsWay' => OnItsWay
    BY <1>1 DEF OnItsWay
  <1>10. Registered' <=> Registered
    BY DEF Registered
  <1>11. QED
    BY <1>2, <1>3, <1>4, <1>5, <1>7, <1>8, <1>9, <1>10 DEF PacFollows

\* A goroutine that sends an event belongs to an attempt that was started; a
\* verification test only reports on an attempt that has been up.
LEMMA Senders ==
    ASSUME TypeOK, Stages, VerifierAbout, NEW t \in Tester,
           tpc[t] \in {"TestFailed", "Reason", "Ended", "Up"}
    PROVE  /\ subject[t] \in Attempt
           /\ subject[t] <= started
           /\ cpc[subject[t]] \notin OpeningPc \cup {"idle"}
           /\ t \in Attempt => subject[t] = t /\ reported[t] = "none"
           /\ t \in Verifier => reported[subject[t]] # "none" /\ tpc[subject[t]] \notin ProbingPc
  <1>1. subject[t] \in Attempt
    BY DEF TypeOK, TestOK
  <1>2. CASE t \in Attempt
    BY <1>1, <1>2, Sorts DEF Stages, ProbingPc, TypeOK, AttemptOK
  <1>3. CASE t \in Verifier
    <2>1. reported[subject[t]] # "none"
      BY <1>3 DEF VerifierAbout, HoldingPc
    <2>2. t \notin Attempt
      BY <1>3, Sorts
    <2>3. cpc[subject[t]] \notin OpeningPc \cup {"idle"} /\ tpc[subject[t]] \notin ProbingPc
      BY <1>1, <2>1 DEF Stages
    <2>4. subject[t] <= started
      BY <1>1, <2>3, Sorts DEF Stages, TypeOK, AttemptOK
    <2>5. QED
      BY <1>1, <2>1, <2>2, <2>3, <2>4
  <1>4. QED
    BY <1>2, <1>3, Sorts

\* Every step keeps the inductive invariant: one step of the proof per action.
LEMMA InvNext == IInv /\ [Next]_vars => IInv'
  <1> SUFFICES ASSUME IInv, [Next]_vars PROVE IInv'
    OBVIOUS
  <1> USE Sorts
  <1>0. TypeOK /\ TypeOK'
    BY TypeNext DEF IInv
  <1>1. CASE Reconnect
    <2>1. UNCHANGED <<tpc, subject, currents, reported, overlap, armed, service,
                      defaultTransport, pac, pacEvent, listeners, todo, emit>>
      BY <1>1 DEF Reconnect, StartAttempt, loopVars, timerVars, attemptVars, testVars,
        svcVars, listenVars, otherVars
    <2>2. Stages'
      BY <1>0, <1>1, <2>1 DEF IInv, Stages, Reconnect, StartAttempt, OpeningPc, ProbingPc,
        EventAt, TypeOK, ConnectOK, TestOK, AttemptOK
    <2>3. CurrentsMatch'
      <3>1. /\ started' = started + 1 /\ started \in Nat
            /\ \A b \in Attempt : b <= started => conn'[b] = conn[b]
        BY <1>0, <1>1 DEF Reconnect, StartAttempt, TypeOK, AttemptOK
      <3>2. \A c \in Conn : currents[c] # NoEvent => currents[c].att \in Attempt
        BY <1>0 DEF TypeOK, LoopOK, Event
      <3>3. QED
        BY <2>1, <3>1, <3>2 DEF IInv, CurrentsMatch
    <2>4. OneChain'
      <3>1. /\ armed \in Nat /\ firing \in Nat /\ firing > 0 /\ firing' = firing - 1
            /\ armed' = armed
        BY <1>0, <1>1 DEF Reconnect, TypeOK, TimerOK
      <3>2. /\ started' = started + 1 /\ started + 1 \in Attempt
            /\ cpc' = [cpc EXCEPT ![started + 1] = "remove"]
        BY <1>0, <1>1 DEF Reconnect, StartAttempt, TypeOK, AttemptOK
      <3>3. SUFFICES ASSUME ~overlap
                     PROVE  /\ armed' + firing' = 0
                            /\ \A a \in Attempt : Live(a)' <=> a = started'
        BY <2>1, <3>2 DEF OneChain
      <3>4. armed + firing <= 1 /\ (armed + firing = 1 => \A a \in Attempt : ~Live(a))
        BY <3>3 DEF IInv, OneChain
      <3>5. armed + firing = 1 /\ armed' + firing' = 0
        BY <3>1, <3>4
      <3>6. ASSUME NEW a \in Attempt PROVE Live(a)' <=> a = started'
        <4>1. CASE a = started + 1
          BY <1>0, <3>2, <4>1 DEF Live, OpeningPc, TypeOK, ConnectOK
        <4>2. CASE a # started + 1
          BY <1>0, <2>1, <3>2, <3>4, <3>5, <4>2 DEF Live, TypeOK, ConnectOK
        <4>3. QED
          BY <4>1, <4>2
      <3>7. QED
        BY <3>5, <3>6
    <2>5. ServiceRuns'
      BY <1>0, <1>1, <2>1 DEF IInv, ServiceRuns, Reconnect, StartAttempt, ProbingPc, TypeOK,
        ConnectOK, TestOK, AttemptOK
    <2>6. QED
      BY <1>0, <2>1, <2>2, <2>3, <2>4, <2>5, InvFrame DEF IInv
  <1>2. CASE ReconnectNone
    <2>1. UNCHANGED <<cpc, tpc, subject, started, conn, currents, reported, overlap,
                      service, defaultTransport, pac, pacEvent, listeners, todo, emit>>
      BY <1>2 DEF ReconnectNone, loopVars, timerVars, attemptVars, testVars, svcVars,
        listenVars, otherVars
    <2>2. OneChain'
      <3>1. armed \in Nat /\ firing \in Nat
        BY <1>0 DEF TypeOK, TimerOK
      <3>2. armed' + firing' = armed + firing
        BY <1>2, <3>1 DEF ReconnectNone
      <3>3. QED
        BY <2>1, <3>2 DEF IInv, OneChain, Live
    <2>3. QED
      BY <1>0, <2>1, <2>2, InvFrame DEF IInv
  <1>3. CASE TimerFires
    <2>1. UNCHANGED <<cpc, tpc, subject, started, conn, currents, reported, overlap,
                      service, defaultTransport, pac, pacEvent, listeners, todo, emit>>
      BY <1>3 DEF TimerFires, loopVars, timerVars, attemptVars, testVars, svcVars,
        listenVars, otherVars
    <2>2. OneChain'
      <3>1. armed \in Nat /\ firing \in Nat
        BY <1>0 DEF TypeOK, TimerOK
      <3>2. armed' + firing' = armed + firing
        BY <1>3, <3>1 DEF TimerFires
      <3>3. QED
        BY <2>1, <3>2 DEF IInv, OneChain, Live
    <2>3. QED
      BY <1>0, <2>1, <2>2, InvFrame DEF IInv
  <1>4. CASE StrayTimerFires
    <2>1. UNCHANGED <<cpc, tpc, subject, started, conn, currents, reported, overlap,
                      service, defaultTransport, pac, pacEvent, listeners, todo, emit>>
      BY <1>4 DEF StrayTimerFires, loopVars, timerVars, attemptVars, testVars, svcVars,
        listenVars, otherVars
    <2>2. OneChain'
      <3>1. armed \in Nat /\ firing \in Nat
        BY <1>0 DEF TypeOK, TimerOK
      <3>2. armed' + firing' = armed + firing
        BY <1>4, <3>1 DEF StrayTimerFires
      <3>3. QED
        BY <2>1, <3>2 DEF IInv, OneChain, Live
    <2>3. QED
      BY <1>0, <2>1, <2>2, InvFrame DEF IInv
  <1>5. CASE StopConnectionManager
    <2>1. UNCHANGED <<cpc, tpc, subject, started, conn, currents, reported, overlap, armed,
                      firing, service, defaultTransport, pac, pacEvent, listeners, todo, emit>>
      BY <1>5 DEF StopConnectionManager, loopVars, timerVars, attemptVars, testVars,
        svcVars, listenVars, otherVars
    <2>2. QED
      BY <1>0, <2>1, InvFrame DEF IInv
  <1>6. CASE UpdateConnections
    <2>1. UNCHANGED <<cpc, tpc, subject, started, conn, currents, reported, overlap, armed,
                      firing, service, defaultTransport, pac, pacEvent, listeners, todo, emit>>
      BY <1>6 DEF UpdateConnections, loopVars, timerVars, attemptVars, testVars, svcVars,
        listenVars, otherVars
    <2>2. QED
      BY <1>0, <2>1, InvFrame DEF IInv
  <1>7. CASE ForwardToPac
    <2>1. UNCHANGED <<cpc, tpc, subject, started, conn, currents, reported, overlap, armed,
                      firing, service, defaultTransport, pac, listeners>>
      BY <1>7 DEF ForwardToPac, Delivered, loopVars, timerVars, attemptVars, testVars,
        svcVars, listenVars, otherVars
    <2>2. PacFollows'
      <3>1. /\ todo \in Seq(Listener) /\ todo # <<>> /\ Head(todo) = Pac
            /\ todo' = Tail(todo) /\ pacEvent = NoEvent /\ pacEvent' = emit
        BY <1>0, <1>7 DEF ForwardToPac, Delivered, TypeOK, LoopOK
      <3>2. emit' = IF Len(todo) = 1 THEN NoEvent ELSE emit
        BY <1>7 DEF ForwardToPac, Delivered
      <3>3. todo' = <<>> <=> Len(todo) = 1
        BY <3>1, TailEmpty
      <3>4. emit # NoEvent /\ (emit.state = "Up" => reported[emit.att] = "up")
        BY <3>1 DEF IInv, PacFollows
      <3>5. todo' = <<>> <=> emit' = NoEvent
        BY <3>2, <3>3, <3>4
      <3>6. emit'.state = "Up" => reported'[emit'.att] = "up"
        BY <2>1, <3>2, <3>4 DEF NoEvent
      <3>7. Registered'
        <4>1. OnItsWay
          BY <3>1 DEF OnItsWay
        <4>2. QED
          BY <2>1, <4>1 DEF IInv, PacFollows, Registered
      <3>8. pac # Nil => reported[pac] = "up" \/ pacEvent' = [att |-> pac, state |-> "Ended"]
        BY <3>1 DEF IInv, PacFollows, EndedOnItsWay, NoEvent
      <3>9. QED
        BY <2>1, <3>1, <3>4, <3>5, <3>6, <3>7, <3>8 DEF PacFollows
    <2>3. QED
      BY <1>0, <2>1, <2>2, InvFrame DEF IInv
  <1>7a. CASE PacStep
    <2>1. UNCHANGED <<cpc, tpc, subject, started, conn, currents, reported, overlap, armed,
                      firing, service, defaultTransport, listeners, todo, emit>>
      BY <1>7a DEF PacStep, loopVars, timerVars, attemptVars, testVars, svcVars
    <2>2. PacFollows'
      <3>1. pacEvent # NoEvent /\ pacEvent' = NoEvent
        BY <1>7a DEF PacStep
      <3>2. Registered'
        BY <2>1, <3>1 DEF IInv, PacFollows, Registered
      <3>3. \A b : EndedOnItsWay(b)' <=> EndedOnItsWay(b)
        BY <2>1 DEF EndedOnItsWay, OnItsWay
      <3>4. pac' # Nil => reported[pac'] = "up" \/ EndedOnItsWay(pac')
        <4>1. CASE pacEvent.state = "Up"
          <5>1. pac' \in {pac, pacEvent.att, Nil}
            BY <1>7a, <4>1 DEF PacStep, PacHandles, SetBlockedMethod
          <5>2. reported[pacEvent.att] = "up" \/ EndedOnItsWay(pacEvent.att)
            BY <4>1 DEF IInv, PacFollows
          <5>3. pacEvent # [att |-> pac, state |-> "Ended"]
            BY <4>1
          <5>4. QED
            BY <5>1, <5>2, <5>3 DEF IInv, PacFollows
        <4>2. CASE pacEvent.state = "Ended"
          BY <1>7a, <4>2 DEF PacStep, PacHandles, SetBlockedMethod
        <4>3. CASE pacEvent.state \notin {"Up", "Ended"}
          <5>1. pac' = pac
            BY <1>7a, <4>3 DEF PacStep, PacHandles, SetBlockedMethod
          <5>2. pacEvent # [att |-> pac, state |-> "Ended"]
            BY <4>3
          <5>3. QED
            BY <5>1, <5>2 DEF IInv, PacFollows
        <4>4. QED
          BY <4>1, <4>2, <4>3
      <3>5. /\ todo = <<>> <=> emit = NoEvent
            /\ emit.state = "Up" => reported[emit.att] = "up"
        BY DEF IInv, PacFollows
      <3>6. QED
        BY <2>1, <3>1, <3>2, <3>3, <3>4, <3>5 DEF PacFollows, NoEvent
    <2>3. QED
      BY <1>0, <2>1, <2>2, InvFrame DEF IInv
  <1>8. ASSUME NEW l \in Listener, AddListener(l) PROVE IInv'
    <2>1. UNCHANGED <<cpc, tpc, subject, started, conn, currents, reported, overlap, armed,
                      firing, service, defaultTransport, pac, pacEvent, todo, emit>>
      BY <1>8 DEF AddListener, loopVars, timerVars, attemptVars, testVars, svcVars,
        listenVars, otherVars
    <2>2. PacFollows'
      <3>1. listeners \in Seq(Listener) /\ listeners' = Append(listeners, l)
        BY <1>0, <1>8 DEF AddListener, TypeOK, ListenOK
      <3>2. Registered => Registered'
        BY <3>1 DEF Registered
      <3>3. (OnItsWay' <=> OnItsWay) /\ \A b : EndedOnItsWay(b)' <=> EndedOnItsWay(b)
        BY <2>1 DEF EndedOnItsWay, OnItsWay
      <3>4. QED
        BY <2>1, <3>2, <3>3 DEF IInv, PacFollows
    <2>3. QED
      BY <1>0, <2>1, <2>2, InvFrame DEF IInv
  <1>9. ASSUME NEW v \in Verifier, Reverify(v) PROVE IInv'
    <2>1. UNCHANGED <<cpc, started, conn, currents, reported, armed, firing, service,
                      defaultTransport, pac, pacEvent, listeners, todo, emit>>
      BY <1>9 DEF Reverify, loopVars, timerVars, attemptVars, testVars, svcVars, listenVars,
        otherVars
    <2>2. /\ tpc' = [tpc EXCEPT ![v] = "rlock"]
          /\ subject' = [subject EXCEPT ![v] = currents[currentConnectionID].att]
          /\ tpc[v] = "idle"
      BY <1>9 DEF Reverify
    <2>3. /\ currents[currentConnectionID].att \in Attempt
          /\ reported[currents[currentConnectionID].att] = "up"
      BY <1>0, <1>9 DEF Reverify, MayVerify, IInv, CurrentsMatch, TypeOK, LoopOK, AttemptOK,
                        Event, NoEvent
    <2>4. \A a \in Attempt : tpc'[a] = tpc[a] /\ subject'[a] = subject[a]
      BY <1>0, <2>2 DEF TypeOK, TestOK
    <2>5. ~overlap' => ~overlap /\ Verifying = {}
      BY <1>9 DEF Reverify
    <2>6. Stages'
      BY <1>0, <1>9, <2>1, <2>2, <2>3, <2>4, <2>5 DEF IInv, Stages, OpeningPc, ProbingPc,
        EventAt, TypeOK, ConnectOK, TestOK, AttemptOK
    <2>7. VerifierAbout'
      BY <1>0, <1>9, <2>1, <2>2, <2>3, <2>4, <2>5 DEF IInv, VerifierAbout, HoldingPc,
        TypeOK, ConnectOK, TestOK, AttemptOK
    <2>8. OneVerifier'
      <3>1. ~overlap' => Verifying' = {v}
        BY <1>0, <2>2, <2>5 DEF Verifying, TypeOK, TestOK
      <3>2. subject'[v] = currents[currentConnectionID].att
        BY <1>0, <2>2 DEF TypeOK, TestOK
      <3>3. QED
        BY <2>1, <2>3, <3>1, <3>2 DEF OneVerifier
    <2>9. OneChain'
      BY <1>0, <1>9, <2>1, <2>2, <2>3, <2>4, <2>5 DEF IInv, OneChain, Live, OpeningPc,
        ProbingPc, EventAt, TypeOK, ConnectOK, TestOK, AttemptOK
    <2>10. ServiceRuns'
      BY <1>0, <1>9, <2>1, <2>2, <2>3, <2>4, <2>5 DEF IInv, ServiceRuns, ProbingPc, TypeOK,
        ConnectOK, TestOK, AttemptOK
    <2>11. QED
      BY <1>0, <2>1, <2>2, <2>3, <2>4, <2>5, <2>6, <2>7, <2>8, <2>9, <2>10, InvFrame DEF
        IInv
  <1>10. ASSUME NEW v \in Verifier, Tested(v) PROVE IInv'
    <2>1. UNCHANGED <<cpc, subject, started, conn, currents, reported, overlap, armed,
                      firing, service, defaultTransport, pac, pacEvent, listeners, todo, emit>>
      BY <1>10 DEF Tested, loopVars, timerVars, attemptVars, testVars, svcVars, listenVars,
        otherVars
    <2>2. tpc' = [tpc EXCEPT ![v] = tpc'[v]] /\ tpc'[v] \in {"tellTrueLate", "idle"}
      BY <1>0, <1>10 DEF Tested, TypeOK, TestOK
    <2>3. \A a \in Attempt : tpc'[a] = tpc[a]
      BY <1>0, <2>2 DEF TypeOK, TestOK
    <2>4. Stages'
      BY <1>0, <1>10, <2>1, <2>2, <2>3 DEF IInv, Stages, OpeningPc, ProbingPc, EventAt,
        TypeOK, ConnectOK, TestOK, AttemptOK
    <2>5. VerifierAbout'
      BY <1>0, <1>10, <2>1, <2>2, <2>3 DEF IInv, VerifierAbout, HoldingPc, TypeOK,
        ConnectOK, TestOK, AttemptOK
    <2>6. OneVerifier'
      <3>1. \A w \in Verifying' : w \in Verifying /\ tpc'[w] = tpc[w]
        BY <1>0, <2>2 DEF Verifying, HoldingPc, TypeOK, TestOK
      <3>2. QED
        BY <2>1, <3>1 DEF IInv, OneVerifier
    <2>7. OneChain'
      BY <1>0, <1>10, <2>1, <2>2, <2>3 DEF IInv, OneChain, Live, OpeningPc, ProbingPc,
        EventAt, TypeOK, ConnectOK, TestOK, AttemptOK
    <2>8. ServiceRuns'
      BY <1>0, <1>10, <2>1, <2>2, <2>3 DEF IInv, ServiceRuns, ProbingPc, TypeOK, ConnectOK,
        TestOK, AttemptOK
    <2>9. QED
      BY <1>0, <2>1, <2>2, <2>3, <2>4, <2>5, <2>6, <2>7, <2>8, InvFrame DEF IInv
  <1>11. ASSUME NEW u \in Upgrader, ForwardToUpgrader(u) PROVE IInv'
    <2>1. UNCHANGED <<cpc, tpc, subject, started, conn, currents, reported, overlap, armed,
                      firing, service, defaultTransport, pac, pacEvent, listeners>>
      BY <1>11 DEF ForwardToUpgrader, Delivered, loopVars, timerVars, attemptVars, testVars,
        svcVars, listenVars, otherVars
    <2>2. PacFollows'
      <3>1. todo # <<>> /\ Head(todo) # Pac /\ Delivered
        BY <1>11, ConstantsAssumption DEF ForwardToUpgrader
      <3>2. QED
        BY <1>0, <2>1, <3>1, DeliverOther DEF IInv
    <2>3. QED
      BY <1>0, <2>1, <2>2, InvFrame DEF IInv
  <1>12. ASSUME NEW u \in Upgrader, UpgraderRequest(u) PROVE IInv'
    <2>1. UNCHANGED <<cpc, tpc, subject, started, conn, currents, reported, overlap, armed,
                      firing, service, defaultTransport, pac, pacEvent, listeners, todo, emit>>
      BY <1>12 DEF UpgraderRequest, loopVars, timerVars, attemptVars, testVars, svcVars,
        listenVars, otherVars
    <2>2. QED
      BY <1>0, <2>1, InvFrame DEF IInv
  <1>13. ASSUME NEW u \in Upgrader, UpgraderHTTPClient(u) PROVE IInv'
    <2>1. UNCHANGED <<cpc, tpc, subject, started, conn, currents, reported, overlap, armed,
                      firing, service, defaultTransport, pac, pacEvent, listeners, todo, emit>>
      BY <1>13 DEF UpgraderHTTPClient, loopVars, timerVars, attemptVars, testVars, svcVars,
        listenVars, otherVars
    <2>2. QED
      BY <1>0, <2>1, InvFrame DEF IInv
  <1>14. ASSUME NEW u \in Upgrader, UpgraderDone(u) PROVE IInv'
    <2>1. UNCHANGED <<cpc, tpc, subject, started, conn, currents, reported, overlap, armed,
                      firing, service, defaultTransport, pac, pacEvent, listeners, todo, emit>>
      BY <1>14 DEF UpgraderDone, loopVars, timerVars, attemptVars, testVars, svcVars,
        listenVars, otherVars
    <2>2. QED
      BY <1>0, <2>1, InvFrame DEF IInv
  <1>15. ASSUME NEW a \in Attempt, ConnectRemove(a) PROVE IInv'
    <2>1. UNCHANGED <<tpc, subject, started, conn, currents, reported, overlap, armed,
                      firing, defaultTransport, pac, pacEvent, listeners, todo, emit>>
      BY <1>15 DEF ConnectRemove, loopVars, timerVars, attemptVars, testVars, svcVars,
        listenVars, otherVars
    <2>2. Stages'
      BY <1>0, <1>15, <2>1 DEF IInv, Stages, ConnectRemove, ConnectGoto, OpeningPc,
        ProbingPc, EventAt, TypeOK, ConnectOK, TestOK, AttemptOK
    <2>3. OneChain'
      BY <1>0, <1>15, <2>1 DEF IInv, OneChain, Live, ConnectRemove, ConnectGoto, OpeningPc,
        ProbingPc, EventAt, TypeOK, ConnectOK, TestOK, AttemptOK
    <2>4. ServiceRuns'
      <3>1. cpc[a] = "remove" /\ cpc' = [cpc EXCEPT ![a] = "Init"]
        BY <1>15 DEF ConnectRemove, ConnectGoto
      <3>2. tpc[a] = "idle" /\ reported[a] = "none"
        BY <3>1 DEF IInv, Stages, OpeningPc
      <3>3. ~overlap => \A b \in Attempt : Live(b) => b = a
        BY <3>1 DEF IInv, OneChain, Live, OpeningPc
      <3>4. ASSUME ~overlap, NEW b \in Attempt
            PROVE  /\ cpc'[b] \notin {"WrongProtocol", "WrongFailed", "Test", "spawn"}
                   /\ tpc[b] \notin ProbingPc
                   /\ reported[b] # "up"
        <4>1. CASE b = a
          BY <1>0, <3>1, <3>2, <4>1 DEF ProbingPc, TypeOK, ConnectOK
        <4>2. CASE b # a
          BY <1>0, <3>1, <3>3, <3>4, <4>2 DEF Live, OpeningPc, EventAt, TypeOK, ConnectOK
        <4>3. QED
          BY <4>1, <4>2
      <3>5. QED
        BY <2>1, <3>4 DEF ServiceRuns
    <2>5. QED
      BY <1>0, <2>1, <2>2, <2>3, <2>4, InvFrame DEF IInv
  <1>16. ASSUME NEW a \in Attempt, ConnectSend(a) PROVE IInv'
    <2>1. UNCHANGED <<tpc, subject, started, conn, overlap, service, defaultTransport, pac,
                      pacEvent, listeners>>
      BY <1>16 DEF ConnectSend, Receive, RecordEvent, loopVars, timerVars, attemptVars,
        testVars, svcVars, listenVars, otherVars
    <2>2. /\ cpc[a] \in DOMAIN EventAt
          /\ Receive(a, EventAt[cpc[a]])
          /\ cpc' = [cpc EXCEPT ![a] = AfterEvent[cpc[a]]]
      BY <1>16 DEF ConnectSend, ConnectGoto
    <2>3. /\ EventAt[cpc[a]] \in ConnectionState
          /\ EventAt[cpc[a]] # "Up"
          /\ EventAt[cpc[a]] = "Ended" <=> cpc[a] = "Ended"
          /\ cpc[a] \in OpeningPc
          /\ cpc'[a] = IF cpc[a] = "Ended" THEN "done" ELSE AfterEvent[cpc[a]]
          /\ cpc[a] # "Ended" => cpc'[a] \in OpeningPc
      BY <1>0, <2>2, PcSorts DEF TypeOK, ConnectOK
    <2>4. a <= started /\ tpc[a] = "idle" /\ reported[a] = "none"
      BY <1>0, <2>3 DEF IInv, Stages, TypeOK, AttemptOK, OpeningPc, EventAt
    <2>5. reported' = IF cpc[a] = "Ended" THEN [reported EXCEPT ![a] = "ended"] ELSE reported
      BY <1>0, <2>2, <2>3, ReceiveReported
    <2>6. /\ \A b \in Attempt : b # a => cpc'[b] = cpc[b] /\ reported'[b] = reported[b]
          /\ reported'[a] = IF cpc[a] = "Ended" THEN "ended" ELSE "none"
      BY <1>0, <2>2, <2>4, <2>5 DEF TypeOK, ConnectOK, LoopOK
    <2>7. Stages'
      <3>1. cpc'[a] # "idle" /\ cpc[a] # "idle" /\ cpc[a] # "done"
        BY <2>2, <2>3 DEF OpeningPc, EventAt
      <3>2. cpc[a] = "Ended" => cpc'[a] \notin OpeningPc \cup {"idle"}
        BY <2>3 DEF OpeningPc, EventAt
      <3>3. QED
        BY <1>0, <2>1, <2>3, <2>4, <2>6, <3>1, <3>2 DEF IInv, Stages, ProbingPc, TypeOK, AttemptOK
    <2>8. CurrentsMatch'
      BY <1>0, <2>1, <2>2, <2>3, <2>4, ReceiveCurrents DEF IInv
    <2>9. VerifierAbout'
      <3>1. \A v \in Verifier : subject[v] \in Attempt
        BY <1>0 DEF TypeOK, TestOK
      <3>2. QED
        BY <2>1, <2>4, <2>6, <3>1 DEF IInv, VerifierAbout
    <2>10. OneVerifier'
      <3>1. \A v \in Verifier : subject[v] \in Attempt
        BY <1>0 DEF TypeOK, TestOK
      <3>2. QED
        BY <2>1, <2>4, <2>6, <3>1 DEF IInv, OneVerifier, Verifying
    <2>11. OneChain'
      <3>1. /\ \A b \in Attempt : b # a => (Live(b)' <=> Live(b))
            /\ Live(a)
            /\ Live(a)' <=> cpc[a] # "Ended"
        BY <2>1, <2>3, <2>4, <2>6 DEF Live, ProbingPc, OpeningPc, EventAt
      <3>2. SUFFICES ASSUME ~overlap
                     PROVE  /\ armed' + firing' <= 1
                            /\ armed' + firing' = 1 <=> \A b \in Attempt : ~Live(b)'
                            /\ \A b \in Attempt : Live(b)' => b = started
        BY <2>1 DEF OneChain
      <3>3. /\ armed + firing <= 1 /\ armed + firing # 1
            /\ \A b \in Attempt : Live(b) => b = started
        BY <3>1, <3>2 DEF IInv, OneChain
      <3>4. armed + firing = 0
        BY <1>0, <3>3 DEF TypeOK, TimerOK
      <3>5. CASE cpc[a] = "Ended"
        <4>1. armed' + firing' = 1
          BY <1>0, <2>2, <2>3, <3>4, <3>5, ReceiveTimers
        <4>2. \A b \in Attempt : ~Live(b)'
          BY <3>1, <3>3, <3>5
        <4>3. QED
          BY <4>1, <4>2
      <3>6. CASE cpc[a] # "Ended"
        <4>1. armed' + firing' = 0
          BY <1>0, <2>2, <2>3, <3>4, <3>6, ReceiveTimers
        <4>2. QED
          BY <3>1, <3>3, <3>6, <4>1
      <3>7. QED
        BY <3>5, <3>6
    <2>12. ServiceRuns'
      <3>1. /\ cpc'[a] \in {"WrongProtocol", "WrongFailed", "Test", "spawn"} =>
                  cpc[a] \in {"WrongProtocol", "WrongFailed", "Test", "spawn"}
        BY <2>2, <2>3 DEF EventAt, AfterEvent
      <3>2. tpc[a] \notin ProbingPc /\ reported'[a] # "up"
        BY <2>4, <2>6 DEF ProbingPc
      <3>3. QED
        BY <2>1, <2>6, <3>1, <3>2 DEF IInv, ServiceRuns
    <2>13. PacFollows'
      BY <1>0, <2>1, <2>2, <2>3, ReceivePac DEF IInv
    <2>14. QED
      BY <1>0, <2>1, <2>2, <2>3, <2>4, <2>5, <2>6, <2>7, <2>8, <2>9, <2>10, <2>11, <2>12,
        <2>13, InvFrame DEF IInv
  <1>17. ASSUME NEW a \in Attempt, ConnectNew(a) PROVE IInv'
    <2>1. UNCHANGED <<tpc, subject, started, conn, currents, reported, overlap, armed,
                      firing, defaultTransport, pac, pacEvent, listeners, todo, emit>>
      BY <1>17 DEF ConnectNew, loopVars, timerVars, attemptVars, testVars, svcVars,
        listenVars, otherVars
    <2>2. Stages'
      BY <1>0, <1>17, <2>1 DEF IInv, Stages, ConnectNew, ConnectGoto, OpeningPc, ProbingPc,
        EventAt, TypeOK, ConnectOK, TestOK, AttemptOK
    <2>3. OneChain'
      BY <1>0, <1>17, <2>1 DEF IInv, OneChain, Live, ConnectNew, ConnectGoto, OpeningPc,
        ProbingPc, EventAt, TypeOK, ConnectOK, TestOK, AttemptOK
    <2>4. ServiceRuns'
      <3>1. cpc[a] = "new"
        BY <1>17 DEF ConnectNew
      <3>2. tpc[a] = "idle" /\ reported[a] = "none"
        BY <3>1 DEF IInv, Stages, OpeningPc
      <3>3. /\ \A b \in Attempt : b # a => cpc'[b] = cpc[b] /\ service'[b] = service[b]
            /\ cpc'[a] \in {"new", "ServiceStart"}
        BY <1>0, <1>17, <3>1 DEF ConnectNew, ConnectGoto, TypeOK, ConnectOK, ServiceOK
      <3>4. QED
        BY <2>1, <3>2, <3>3 DEF IInv, ServiceRuns, ProbingPc
    <2>5. QED
      BY <1>0, <2>1, <2>2, <2>3, <2>4, InvFrame DEF IInv
  <1>18. ASSUME NEW a \in Attempt, ConnectStartFails(a) PROVE IInv'
    <2>1. UNCHANGED <<tpc, subject, started, conn, currents, reported, overlap, armed,
                      firing, service, defaultTransport, pac, pacEvent, listeners, todo, emit>>
      BY <1>18 DEF ConnectStartFails, loopVars, timerVars, attemptVars, testVars, svcVars,
        listenVars, otherVars
    <2>2. Stages'
      BY <1>0, <1>18, <2>1 DEF IInv, Stages, ConnectStartFails, ConnectGoto, OpeningPc,
        ProbingPc, EventAt, TypeOK, ConnectOK, TestOK, AttemptOK
    <2>3. OneChain'
      BY <1>0, <1>18, <2>1 DEF IInv, OneChain, Live, ConnectStartFails, ConnectGoto,
        OpeningPc, ProbingPc, EventAt, TypeOK, ConnectOK, TestOK, AttemptOK
    <2>4. ServiceRuns'
      BY <1>0, <1>18, <2>1 DEF IInv, ServiceRuns, ConnectStartFails, ConnectGoto, ProbingPc,
        TypeOK, ConnectOK, TestOK, AttemptOK
    <2>5. QED
      BY <1>0, <2>1, <2>2, <2>3, <2>4, InvFrame DEF IInv
  <1>19. ASSUME NEW a \in Attempt, ConnectStarted(a) PROVE IInv'
    <2>1. UNCHANGED <<tpc, subject, started, conn, currents, reported, overlap, armed,
                      firing, defaultTransport, pac, pacEvent, listeners, todo, emit>>
      BY <1>19 DEF ConnectStarted, loopVars, timerVars, attemptVars, testVars, svcVars,
        listenVars, otherVars
    <2>2. Stages'
      BY <1>0, <1>19, <2>1 DEF IInv, Stages, ConnectStarted, ConnectGoto, OpeningPc,
        ProbingPc, EventAt, TypeOK, ConnectOK, TestOK, AttemptOK
    <2>3. OneChain'
      BY <1>0, <1>19, <2>1 DEF IInv, OneChain, Live, ConnectStarted, ConnectGoto, OpeningPc,
        ProbingPc, EventAt, TypeOK, ConnectOK, TestOK, AttemptOK
    <2>4. ServiceRuns'
      <3>1. /\ \A b \in Attempt : b # a => cpc'[b] = cpc[b] /\ service'[b] = service[b]
            /\ service'[a] = "running"
        BY <1>0, <1>19 DEF ConnectStarted, ConnectGoto, TypeOK, ConnectOK, ServiceOK
      <3>2. QED
        BY <2>1, <3>1 DEF IInv, ServiceRuns
    <2>5. QED
      BY <1>0, <2>1, <2>2, <2>3, <2>4, InvFrame DEF IInv
  <1>20. ASSUME NEW a \in Attempt, ConnectSpawnTest(a) PROVE IInv'
    <2>1. UNCHANGED <<subject, started, conn, currents, reported, overlap, armed, firing,
                      service, defaultTransport, pac, pacEvent, listeners, todo, emit>>
      BY <1>20 DEF ConnectSpawnTest, loopVars, timerVars, attemptVars, testVars, svcVars,
        listenVars, otherVars
    <2>2. Stages'
      BY <1>0, <1>20, <2>1 DEF IInv, Stages, ConnectSpawnTest, ConnectGoto, OpeningPc,
        ProbingPc, EventAt, TypeOK, ConnectOK, TestOK, AttemptOK
    <2>3. VerifierAbout'
      BY <1>0, <1>20, <2>1 DEF IInv, VerifierAbout, ConnectSpawnTest, ConnectGoto,
        HoldingPc, TypeOK, ConnectOK, TestOK, AttemptOK
    <2>4. OneVerifier'
      BY <1>0, <1>20, <2>1 DEF IInv, OneVerifier, Verifying, ConnectSpawnTest, ConnectGoto,
        HoldingPc, TypeOK, ConnectOK, TestOK, AttemptOK
    <2>5. OneChain'
      BY <1>0, <1>20, <2>1 DEF IInv, OneChain, Live, ConnectSpawnTest, ConnectGoto,
        OpeningPc, ProbingPc, EventAt, TypeOK, ConnectOK, TestOK, AttemptOK
    <2>6. ServiceRuns'
      BY <1>0, <1>20, <2>1 DEF IInv, ServiceRuns, ConnectSpawnTest, ConnectGoto, ProbingPc,
        TypeOK, ConnectOK, TestOK, AttemptOK
    <2>7. QED
      BY <1>0, <2>1, <2>2, <2>3, <2>4, <2>5, <2>6, InvFrame DEF IInv
  <1>21. ASSUME NEW a \in Attempt, ConnectLock(a) PROVE IInv'
    <2>1. UNCHANGED <<tpc, subject, started, conn, currents, reported, overlap, armed,
                      firing, service, defaultTransport, pac, pacEvent, listeners, todo, emit>>
      BY <1>21 DEF ConnectLock, loopVars, timerVars, attemptVars, testVars, svcVars,
        listenVars, otherVars
    <2>2. Stages'
      BY <1>0, <1>21, <2>1 DEF IInv, Stages, ConnectLock, ConnectGoto, OpeningPc, ProbingPc,
        EventAt, TypeOK, ConnectOK, TestOK, AttemptOK
    <2>3. OneChain'
      BY <1>0, <1>21, <2>1 DEF IInv, OneChain, Live, ConnectLock, ConnectGoto, OpeningPc,
        ProbingPc, EventAt, TypeOK, ConnectOK, TestOK, AttemptOK
    <2>4. ServiceRuns'
      BY <1>0, <1>21, <2>1 DEF IInv, ServiceRuns, ConnectLock, ConnectGoto, ProbingPc,
        TypeOK, ConnectOK, TestOK, AttemptOK
    <2>5. QED
      BY <1>0, <2>1, <2>2, <2>3, <2>4, InvFrame DEF IInv
  <1>22. ASSUME NEW a \in Attempt, ConnectAssign(a) PROVE IInv'
    <2>1. UNCHANGED <<tpc, subject, started, conn, currents, reported, overlap, armed,
                      firing, service, pac, pacEvent, listeners, todo, emit>>
      BY <1>22 DEF ConnectAssign, loopVars, timerVars, attemptVars, testVars, svcVars,
        listenVars, otherVars
    <2>2. Stages'
      BY <1>0, <1>22, <2>1 DEF IInv, Stages, ConnectAssign, ConnectGoto, OpeningPc,
        ProbingPc, EventAt, TypeOK, ConnectOK, TestOK, AttemptOK
    <2>3. OneChain'
      BY <1>0, <1>22, <2>1 DEF IInv, OneChain, Live, ConnectAssign, ConnectGoto, OpeningPc,
        ProbingPc, EventAt, TypeOK, ConnectOK, TestOK, AttemptOK
    <2>4. ServiceRuns'
      BY <1>0, <1>22, <2>1 DEF IInv, ServiceRuns, ConnectAssign, ConnectGoto, ProbingPc,
        TypeOK, ConnectOK, TestOK, AttemptOK
    <2>5. QED
      BY <1>0, <2>1, <2>2, <2>3, <2>4, InvFrame DEF IInv
  <1>23. ASSUME NEW t \in Tester, TestRLock(t) PROVE IInv'
    <2>1. UNCHANGED <<cpc, subject, started, conn, currents, reported, overlap, armed,
                      firing, service, defaultTransport, pac, pacEvent, listeners, todo, emit>>
      BY <1>23 DEF TestRLock, loopVars, timerVars, attemptVars, testVars, svcVars,
        listenVars, otherVars
    <2>2. Stages'
      BY <1>0, <1>23, <2>1 DEF IInv, Stages, TestRLock, TestGoto, OpeningPc, ProbingPc,
        EventAt, TypeOK, ConnectOK, TestOK, AttemptOK
    <2>3. VerifierAbout'
      BY <1>0, <1>23, <2>1 DEF IInv, VerifierAbout, TestRLock, TestGoto, HoldingPc, TypeOK,
        ConnectOK, TestOK, AttemptOK
    <2>4. OneVerifier'
      BY <1>0, <1>23, <2>1 DEF IInv, OneVerifier, Verifying, TestRLock, TestGoto, HoldingPc,
        TypeOK, ConnectOK, TestOK, AttemptOK
    <2>5. OneChain'
      BY <1>0, <1>23, <2>1 DEF IInv, OneChain, Live, TestRLock, TestGoto, OpeningPc,
        ProbingPc, EventAt, TypeOK, ConnectOK, TestOK, AttemptOK
    <2>6. ServiceRuns'
      BY <1>0, <1>23, <2>1 DEF IInv, ServiceRuns, TestRLock, TestGoto, ProbingPc, TypeOK,
        ConnectOK, TestOK, AttemptOK
    <2>7. QED
      BY <1>0, <2>1, <2>2, <2>3, <2>4, <2>5, <2>6, InvFrame DEF IInv
  <1>24. ASSUME NEW t \in Tester, TestResult(t) PROVE IInv'
    <2>1. UNCHANGED <<cpc, subject, started, conn, currents, reported, overlap, armed,
                      firing, service, defaultTransport, pac, pacEvent, listeners, todo, emit>>
      BY <1>24 DEF TestResult, loopVars, timerVars, attemptVars, testVars, svcVars,
        listenVars, otherVars
    <2>2. Stages'
      BY <1>0, <1>24, <2>1 DEF IInv, Stages, TestResult, TestGoto, OpeningPc, ProbingPc,
        EventAt, TypeOK, ConnectOK, TestOK, AttemptOK
    <2>3. VerifierAbout'
      BY <1>0, <1>24, <2>1 DEF IInv, VerifierAbout, TestResult, TestGoto, HoldingPc, TypeOK,
        ConnectOK, TestOK, AttemptOK
    <2>4. OneVerifier'
      BY <1>0, <1>24, <2>1 DEF IInv, OneVerifier, Verifying, TestResult, TestGoto,
        HoldingPc, TypeOK, ConnectOK, TestOK, AttemptOK
    <2>5. OneChain'
      BY <1>0, <1>24, <2>1 DEF IInv, OneChain, Live, TestResult, TestGoto, OpeningPc,
        ProbingPc, EventAt, TypeOK, ConnectOK, TestOK, AttemptOK
    <2>6. ServiceRuns'
      BY <1>0, <1>24, <2>1 DEF IInv, ServiceRuns, TestResult, TestGoto, ProbingPc, TypeOK,
        ConnectOK, TestOK, AttemptOK
    <2>7. QED
      BY <1>0, <2>1, <2>2, <2>3, <2>4, <2>5, <2>6, InvFrame DEF IInv
  <1>25. ASSUME NEW t \in Tester, TestTransportOk(t) PROVE IInv'
    <2>1. UNCHANGED <<cpc, subject, started, conn, currents, reported, overlap, armed,
                      firing, service, defaultTransport, pac, pacEvent, listeners, todo, emit>>
      BY <1>25 DEF TestTransportOk, loopVars, timerVars, attemptVars, testVars, svcVars,
        listenVars, otherVars
    <2>2. Stages'
      BY <1>0, <1>25, <2>1 DEF IInv, Stages, TestTransportOk, TestGoto, OpeningPc,
        ProbingPc, EventAt, TypeOK, ConnectOK, TestOK, AttemptOK
    <2>3. VerifierAbout'
      BY <1>0, <1>25, <2>1 DEF IInv, VerifierAbout, TestTransportOk, TestGoto, HoldingPc,
        TypeOK, ConnectOK, TestOK, AttemptOK
    <2>4. OneVerifier'
      BY <1>0, <1>25, <2>1 DEF IInv, OneVerifier, Verifying, TestTransportOk, TestGoto,
        HoldingPc, TypeOK, ConnectOK, TestOK, AttemptOK
    <2>5. OneChain'
      BY <1>0, <1>25, <2>1 DEF IInv, OneChain, Live, TestTransportOk, TestGoto, OpeningPc,
        ProbingPc, EventAt, TypeOK, ConnectOK, TestOK, AttemptOK
    <2>6. ServiceRuns'
      BY <1>0, <1>25, <2>1 DEF IInv, ServiceRuns, TestTransportOk, TestGoto, ProbingPc,
        TypeOK, ConnectOK, TestOK, AttemptOK
    <2>7. QED
      BY <1>0, <2>1, <2>2, <2>3, <2>4, <2>5, <2>6, InvFrame DEF IInv
  <1>26. ASSUME NEW t \in Tester, TestSend(t) PROVE IInv'
    <2>1. UNCHANGED <<cpc, subject, started, conn, overlap, service, defaultTransport, pac,
                      pacEvent, listeners>>
      BY <1>26 DEF TestSend, Receive, RecordEvent, loopVars, timerVars, attemptVars,
        testVars, svcVars, listenVars, otherVars
    <2>2. tpc[t] \in {"TestFailed", "Reason", "Ended", "Up"}
      BY <1>26 DEF TestSend
    <2>3. PICK s \in ConnectionState : /\ Receive(subject[t], s)
                                       /\ s = "Up" <=> tpc[t] = "Up"
                                       /\ s = "Ended" <=> tpc[t] = "Ended"
      BY <1>26 DEF TestSend, Reason, ConnectionState
    <2>4. /\ tpc[t] = "TestFailed" => tpc' = [tpc EXCEPT ![t] = "Reason"]
          /\ tpc[t] = "Reason" => tpc' = [tpc EXCEPT ![t] = "Ended"]
          /\ tpc[t] = "Ended" => tpc' = [tpc EXCEPT ![t] = "unlockFailed"]
          /\ tpc[t] = "Up" => tpc' = [tpc EXCEPT ![t] = "okTrueAgain"]
      BY <1>26 DEF TestSend, TestGoto
    <2>5. /\ subject[t] \in Attempt
          /\ subject[t] <= started
          /\ cpc[subject[t]] \notin OpeningPc \cup {"idle"}
          /\ t \in Attempt => subject[t] = t /\ reported[t] = "none"
          /\ t \in Verifier => reported[subject[t]] # "none" /\ tpc[subject[t]] \notin ProbingPc
          /\ t \in Verifier => tpc[t] # "Up"
      BY <1>0, <2>2, Senders DEF IInv, VerifierAbout
    <2>6. /\ tpc[t] \in {"TestFailed", "Reason"} => reported' = reported
          /\ tpc[t] = "Ended" => reported' = [reported EXCEPT ![subject[t]] = "ended"]
          /\ tpc[t] = "Up" => reported' = [reported EXCEPT ![subject[t]] = "up"]
      BY <1>0, <2>3, <2>5, ReceiveReported
    <2>7. /\ \A b \in Attempt : b # subject[t] => reported'[b] = reported[b]
          /\ \A r \in Tester : r # t => tpc'[r] = tpc[r]
          /\ tpc[t] = "TestFailed" => tpc'[t] = "Reason"
          /\ tpc[t] = "Reason" => tpc'[t] = "Ended"
          /\ tpc[t] = "Ended" => tpc'[t] = "unlockFailed" /\ reported'[subject[t]] = "ended"
          /\ tpc[t] = "Up" => tpc'[t] = "okTrueAgain" /\ reported'[subject[t]] = "up"
          /\ tpc[t] \in {"TestFailed", "Reason"} => reported'[subject[t]] = reported[subject[t]]
      <3>1. reported \in [Attempt -> {"none", "up", "ended"}] /\ tpc \in [Tester -> TestPc]
        BY <1>0 DEF TypeOK, LoopOK, TestOK
      <3>2. \A b \in Attempt : b # subject[t] => reported'[b] = reported[b]
        BY <2>2, <2>5, <2>6, <3>1
      <3>3. \A r \in Tester : r # t => tpc'[r] = tpc[r]
        BY <2>2, <2>4, <3>1
      <3>4. /\ tpc[t] = "Ended" => reported'[subject[t]] = "ended"
            /\ tpc[t] = "Up" => reported'[subject[t]] = "up"
            /\ tpc[t] \in {"TestFailed", "Reason"} => reported'[subject[t]] = reported[subject[t]]
        BY <2>5, <2>6, <3>1
      <3>5. QED
        BY <2>4, <3>1, <3>2, <3>3, <3>4
    <2>8. Stages'
      <3>1. ASSUME NEW a \in Attempt
            PROVE  /\ cpc[a] \in OpeningPc \cup {"idle"} => tpc'[a] = "idle" /\ reported'[a] = "none"
                   /\ tpc'[a] \in ProbingPc => reported'[a] = "none"
        <4>1. /\ cpc[a] \in OpeningPc \cup {"idle"} => tpc[a] = "idle" /\ reported[a] = "none"
              /\ tpc[a] \in ProbingPc => reported[a] = "none"
          BY DEF IInv, Stages
        <4>2. CASE a # subject[t]
          <5>1. a # t
            BY <2>5, <4>2
          <5>2. QED
            BY <2>7, <4>1, <4>2, <5>1
        <4>3. CASE a = subject[t] /\ t = a
          BY <2>2, <2>5, <2>7, <4>3 DEF ProbingPc
        <4>4. CASE a = subject[t] /\ t # a
          <5>1. t \in Verifier
            BY <2>5, <4>4
          <5>2. QED
            BY <2>5, <2>7, <4>4, <5>1
        <4>5. QED
          BY <4>2, <4>3, <4>4
      <3>2. QED
        BY <2>1, <3>1 DEF IInv, Stages
    <2>9. CurrentsMatch'
      BY <1>0, <2>1, <2>3, <2>5, ReceiveCurrents DEF IInv
    <2>10. VerifierAbout'
      <3>1. ASSUME NEW v \in Verifier
            PROVE  /\ tpc'[v] \notin {"Up", "finished"}
                   /\ tpc'[v] \in {"rlock"} \cup HoldingPc => reported'[subject[v]] \in {"up", "ended"}
        <4>1. /\ tpc[v] \notin {"Up", "finished"}
              /\ tpc[v] \in {"rlock"} \cup HoldingPc => reported[subject[v]] \in {"up", "ended"}
              /\ subject[v] \in Attempt
          BY <1>0 DEF IInv, VerifierAbout, TypeOK, TestOK
        <4>2. reported[subject[v]] \in {"up", "ended"} => reported'[subject[v]] \in {"up", "ended"}
          BY <2>2, <2>7, <4>1
        <4>3. CASE v = t
          BY <2>2, <2>5, <2>7, <4>1, <4>2, <4>3 DEF HoldingPc
        <4>4. CASE v # t
          BY <2>7, <4>1, <4>2, <4>4
        <4>5. QED
          BY <4>3, <4>4
      <3>2. QED
        BY <2>1, <3>1 DEF VerifierAbout
    <2>11. OneVerifier'
      <3>1. Verifying' = Verifying
        BY <2>2, <2>7 DEF Verifying, HoldingPc
      <3>2. SUFFICES ASSUME ~overlap, NEW v \in Verifying, tpc'[v] # "unlockFailed"
                     PROVE  reported'[subject[v]] = "up"
        BY <2>1, <3>1 DEF IInv, OneVerifier
      <3>3. v \in Verifier /\ subject[v] \in Attempt
        BY <1>0 DEF Verifying, TypeOK, TestOK
      <3>4. \A w \in Verifying : v = w
        BY <3>2 DEF IInv, OneVerifier
      <3>5. CASE t = v
        <4>1. tpc[v] \in {"TestFailed", "Reason"}
          BY <2>2, <2>5, <2>7, <3>2, <3>3, <3>5
        <4>2. reported[subject[v]] = "up"
          BY <3>2, <4>1 DEF IInv, OneVerifier
        <4>3. QED
          BY <2>7, <3>5, <4>1, <4>2
      <3>6. CASE t # v
        <4>1. t \in Attempt
          BY <2>2, <3>4, <3>6 DEF Verifying, HoldingPc
        <4>2. tpc[v] = tpc'[v]
          BY <2>7, <3>3, <3>6
        <4>3. reported[subject[v]] = "up"
          BY <3>2, <4>2 DEF IInv, OneVerifier
        <4>4. QED
          BY <2>5, <2>7, <3>3, <4>1, <4>3
      <3>7. QED
        BY <3>5, <3>6
    <2>12. OneChain'
      <3> DEFINE LiveNext(b) == cpc'[b] \in OpeningPc \/ tpc'[b] \in ProbingPc \/ reported'[b] = "up"
      <3>1. SUFFICES ASSUME ~overlap
                     PROVE  /\ armed' + firing' <= 1
                            /\ armed' + firing' = 1 <=> \A b \in Attempt : ~LiveNext(b)
                            /\ \A b \in Attempt : LiveNext(b) => b = started
        BY <2>1 DEF OneChain, Live, LiveNext
      <3> HIDE DEF LiveNext
      <3>2. \A b \in Attempt : b # subject[t] => (LiveNext(b) <=> Live(b))
        BY <2>1, <2>5, <2>7 DEF Live, LiveNext
      <3>3. Live(subject[t])
        <4>1. CASE t \in Attempt
          BY <2>2, <2>5, <4>1 DEF Live, ProbingPc
        <4>2. CASE t \in Verifier
          <5>1. t \in Verifying /\ tpc[t] # "unlockFailed"
            BY <2>2, <4>2 DEF Verifying, HoldingPc
          <5>2. QED
            BY <3>1, <5>1 DEF IInv, OneVerifier, Live
        <4>3. QED
          BY <4>1, <4>2
      <3>4. /\ armed + firing <= 1 /\ armed + firing # 1
            /\ \A b \in Attempt : Live(b) => b = started
        BY <2>5, <3>1, <3>3 DEF IInv, OneChain
      <3>5. armed + firing = 0
        BY <1>0, <3>4 DEF TypeOK, TimerOK
      <3>6. CASE tpc[t] = "Ended"
        <4>1. armed' + firing' = 1
          BY <1>0, <2>3, <2>5, <3>5, <3>6, ReceiveTimers
        <4>2. ~LiveNext(subject[t])
          BY <1>0, <2>1, <2>5, <2>7, <3>6 DEF LiveNext, ProbingPc, OpeningPc, TypeOK, ConnectOK
        <4>3. \A b \in Attempt : ~LiveNext(b)
          BY <2>5, <3>2, <3>3, <3>4, <4>2
        <4>4. QED
          BY <4>1, <4>3
      <3>7. CASE tpc[t] # "Ended"
        <4>1. armed' + firing' = 0
          BY <1>0, <2>3, <2>5, <3>5, <3>7, ReceiveTimers
        <4>2. LiveNext(subject[t])
          <5>1. CASE t \in Attempt
            BY <2>2, <2>5, <2>7, <3>7, <5>1 DEF LiveNext, ProbingPc
          <5>2. CASE t \in Verifier
            <6>1. tpc[t] \in {"TestFailed", "Reason"} /\ reported[subject[t]] = "up"
              BY <2>2, <2>5, <3>3, <3>7, <5>2 DEF Live
            <6>2. QED
              BY <2>7, <6>1 DEF LiveNext
          <5>3. QED
            BY <5>1, <5>2
        <4>3. QED
          BY <2>5, <3>2, <3>3, <3>4, <4>1, <4>2
      <3>8. QED
        BY <3>6, <3>7
    <2>13. ServiceRuns'
      <3>1. ASSUME NEW a \in Attempt, tpc'[a] \in ProbingPc PROVE tpc[a] \in ProbingPc
        BY <2>2, <2>7, <3>1 DEF ProbingPc
      <3>2. ASSUME NEW a \in Attempt, reported'[a] = "up"
            PROVE  reported[a] = "up" \/ tpc[a] \in ProbingPc
        BY <2>2, <2>5, <2>7, <3>2 DEF ProbingPc
      <3>3. QED
        BY <2>1, <3>1, <3>2 DEF IInv, ServiceRuns
    <2>14. PacFollows'
      BY <1>0, <2>1, <2>3, <2>5, ReceivePac DEF IInv
    <2>15. QED
      BY <1>0, <2>1, <2>2, <2>3, <2>4, <2>5, <2>6, <2>7, <2>8, <2>9, <2>10, <2>11, <2>12,
        <2>13, <2>14, InvFrame DEF IInv
  <1>27. ASSUME NEW t \in Tester, TestUnlock(t) PROVE IInv'
    <2>1. UNCHANGED <<cpc, subject, started, conn, currents, reported, overlap, armed,
                      firing, service, defaultTransport, pac, pacEvent, listeners, todo, emit>>
      BY <1>27 DEF TestUnlock, loopVars, timerVars, attemptVars, testVars, svcVars,
        listenVars, otherVars
    <2>2. Stages'
      BY <1>0, <1>27, <2>1 DEF IInv, Stages, TestUnlock, TestGoto, OpeningPc, ProbingPc,
        EventAt, TypeOK, ConnectOK, TestOK, AttemptOK
    <2>3. VerifierAbout'
      BY <1>0, <1>27, <2>1 DEF IInv, VerifierAbout, TestUnlock, TestGoto, HoldingPc, TypeOK,
        ConnectOK, TestOK, AttemptOK
    <2>4. OneVerifier'
      BY <1>0, <1>27, <2>1 DEF IInv, OneVerifier, Verifying, TestUnlock, TestGoto,
        HoldingPc, TypeOK, ConnectOK, TestOK, AttemptOK
    <2>5. OneChain'
      BY <1>0, <1>27, <2>1 DEF IInv, OneChain, Live, TestUnlock, TestGoto, OpeningPc,
        ProbingPc, EventAt, TypeOK, ConnectOK, TestOK, AttemptOK
    <2>6. ServiceRuns'
      BY <1>0, <1>27, <2>1 DEF IInv, ServiceRuns, TestUnlock, TestGoto, ProbingPc, TypeOK,
        ConnectOK, TestOK, AttemptOK
    <2>7. QED
      BY <1>0, <2>1, <2>2, <2>3, <2>4, <2>5, <2>6, InvFrame DEF IInv
  <1>28. CASE UNCHANGED vars
    BY <1>0, <1>28, InvFrame DEF IInv, vars, loopVars, timerVars, attemptVars, testVars,
      svcVars, listenVars, otherVars
  <1>29. QED
    BY <1>1, <1>2, <1>3, <1>4, <1>5, <1>6, <1>7, <1>7a, <1>8, <1>9, <1>10, <1>11, <1>12, <1>13,
      <1>14, <1>15, <1>16, <1>17, <1>18, <1>19, <1>20, <1>21, <1>22, <1>23, <1>24, <1>25,
      <1>26, <1>27, <1>28 DEF Next, ConnectStep, TestStep, UpgraderStep

\* The inductive invariant holds when the manager starts.
LEMMA InvInit == Init => IInv
  <1> SUFFICES ASSUME Init PROVE IInv
    OBVIOUS
  <1>1. TypeOK
    BY TypeInit
  <1>2. Stages
    BY Sorts DEF Init, Stages, OpeningPc, ProbingPc, EventAt, Nil, Tester
  <1>3. CurrentsMatch /\ VerifierAbout
    BY Sorts DEF Init, CurrentsMatch, VerifierAbout, HoldingPc
  <1>4. OneVerifier
    BY Sorts DEF Init, OneVerifier, Verifying, HoldingPc
  <1>5. OneChain
    <2>1. armed + firing = 0 /\ Live(1)
      BY Sorts DEF Init, Live, OpeningPc
    <2>2. \A a \in Attempt : Live(a) => a = started
      BY Sorts DEF Init, Live, OpeningPc, ProbingPc, EventAt
    <2>3. QED
      BY <2>1, <2>2, Sorts DEF OneChain
  <1>6. ServiceRuns
    BY Sorts DEF Init, ServiceRuns, ProbingPc
  <1>7. PacFollows
    BY DEF Init, PacFollows, OnItsWay, NoEvent
  <1>8. QED
    BY <1>1, <1>2, <1>3, <1>4, <1>5, <1>6, <1>7 DEF IInv

-----------------------------------------------------------------------------

\* Until a verification test fails, at most one exists, it is on its way to
\* report success, and the flag says so.
FlagInv ==
    ~verifyFailed =>
        /\ ~overlap
        /\ connectionTestRunning <=> \E v \in Verifier : tpc[v] # "idle"
        /\ \A v, w \in Verifier : tpc[v] # "idle" /\ tpc[w] # "idle" => v = w
        /\ \A v \in Verifier : tpc[v] \notin {"tellFalse", "tellTrueLate"}

\* A step that moves no verification test leaves the flag's invariant alone.
LEMMA FlagFrame ==
    ASSUME FlagInv, UNCHANGED <<connectionTestRunning, verifyFailed, overlap>>,
           \A v \in Verifier : tpc'[v] = tpc[v]
    PROVE  FlagInv'
  BY DEF FlagInv

\* A step of a testConn goroutine that neither starts nor ends a verification
\* test leaves the flag's invariant alone.
LEMMA FlagTest ==
    ASSUME FlagInv, UNCHANGED <<connectionTestRunning, verifyFailed, overlap>>,
           \A v \in Verifier : /\ tpc'[v] = "idle" <=> tpc[v] = "idle"
                               /\ tpc'[v] \in {"tellFalse", "tellTrueLate"}
                                     => tpc[v] \in {"tellFalse", "tellTrueLate"}
    PROVE  FlagInv'
  <1>1. (\E v \in Verifier : tpc'[v] # "idle") <=> \E v \in Verifier : tpc[v] # "idle"
    OBVIOUS
  <1>2. (\A v, w \in Verifier : tpc[v] # "idle" /\ tpc[w] # "idle" => v = w)
          => \A v, w \in Verifier : tpc'[v] # "idle" /\ tpc'[w] # "idle" => v = w
    OBVIOUS
  <1>3. QED
    BY <1>1, <1>2 DEF FlagInv

\* Every step keeps the flag's invariant.
LEMMA FlagNext == TypeOK /\ FlagInv /\ [Next]_vars => FlagInv'
  <1> SUFFICES ASSUME TypeOK, FlagInv, [Next]_vars PROVE FlagInv'
    OBVIOUS
  <1> USE Sorts
  <1>0. tpc \in [Tester -> TestPc]
    BY DEF TypeOK, TestOK
  <1>1. CASE Reconnect \/ ReconnectNone \/ TimerFires \/ StrayTimerFires
    BY <1>1, FlagFrame DEF Reconnect, ReconnectNone, TimerFires, StrayTimerFires, testVars
  <1>2. CASE StopConnectionManager \/ UpdateConnections \/ ForwardToPac \/ PacStep
    BY <1>2, FlagFrame DEF StopConnectionManager, UpdateConnections, ForwardToPac, PacStep, testVars
  <1>3. ASSUME NEW l \in Listener, AddListener(l) PROVE FlagInv'
    BY <1>3, FlagFrame DEF AddListener, testVars
  <1>4. ASSUME NEW u \in Upgrader, UpgraderStep(u) PROVE FlagInv'
    BY <1>4, FlagFrame DEF UpgraderStep, ForwardToUpgrader, UpgraderRequest, UpgraderHTTPClient,
                           UpgraderDone, testVars
  <1>5. ASSUME NEW v \in Verifier, Reverify(v) PROVE FlagInv'
    <2>1. /\ ~connectionTestRunning /\ connectionTestRunning' = TRUE
          /\ tpc' = [tpc EXCEPT ![v] = "rlock"]
          /\ overlap' = (overlap \/ Verifying # {})
          /\ verifyFailed' = verifyFailed
      BY <1>5 DEF Reverify, MayVerify
    <2>2. SUFFICES ASSUME ~verifyFailed
                   PROVE  /\ ~overlap'
                          /\ connectionTestRunning' <=> \E w \in Verifier : tpc'[w] # "idle"
                          /\ \A w, x \in Verifier : tpc'[w] # "idle" /\ tpc'[x] # "idle" => w = x
                          /\ \A w \in Verifier : tpc'[w] \notin {"tellFalse", "tellTrueLate"}
      BY <2>1 DEF FlagInv
    <2>3. ~overlap /\ \A w \in Verifier : tpc[w] = "idle"
      BY <2>1, <2>2 DEF FlagInv
    <2>4. ~overlap'
      BY <2>1, <2>3 DEF Verifying, HoldingPc
    <2>5. tpc'[v] = "rlock" /\ \A w \in Verifier : w # v => tpc'[w] = "idle"
      BY <1>0, <2>1, <2>3
    <2>6. QED
      BY <2>1, <2>4, <2>5
  <1>6. ASSUME NEW v \in Verifier, Tested(v) PROVE FlagInv'
    <2>1. UNCHANGED <<verifyFailed, overlap>> /\ connectionTestRunning' = FALSE
      BY <1>6 DEF Tested, ReportTested
    <2>2. SUFFICES ASSUME ~verifyFailed PROVE FlagInv'
      BY <2>1 DEF FlagInv
    <2>3. tpc[v] # "idle" /\ tpc' = [tpc EXCEPT ![v] = "idle"]
      BY <1>6, <2>2 DEF Tested, FlagInv
    <2>4. \A w \in Verifier : tpc'[w] = "idle"
      BY <1>0, <2>2, <2>3 DEF FlagInv
    <2>5. QED
      BY <2>1, <2>2, <2>4 DEF FlagInv
  <1>7. ASSUME NEW a \in Attempt, ConnectStep(a) PROVE FlagInv'
    <2>1. CASE ConnectSpawnTest(a)
      <3>1. \A v \in Verifier : v # a
        OBVIOUS
      <3>2. \A v \in Verifier : tpc'[v] = tpc[v]
        BY <1>0, <2>1, <3>1 DEF ConnectSpawnTest
      <3>3. QED
        BY <2>1, <3>2, FlagFrame DEF ConnectSpawnTest
    <2>2. CASE ~ConnectSpawnTest(a)
      BY <1>7, <2>2, FlagFrame DEF ConnectStep, ConnectRemove, ConnectSend, ConnectNew,
        ConnectStartFails, ConnectStarted, ConnectLock, ConnectAssign, testVars
    <2>3. QED
      BY <2>1, <2>2
  <1>8. ASSUME NEW t \in Tester, TestStep(t) PROVE FlagInv'
    <2>1. CASE TestUnlock(t)
      <3>1. UNCHANGED <<connectionTestRunning, overlap>>
        BY <2>1 DEF TestUnlock
      <3>2. CASE tpc[t] = "unlockFailed" /\ t \in Verifier
        BY <2>1, <3>2 DEF TestUnlock, FlagInv
      <3>3. CASE tpc[t] = "unlockFailed" /\ t \notin Verifier
        <4>1. verifyFailed' = verifyFailed /\ tpc' = [tpc EXCEPT ![t] = "finished"]
          BY <2>1, <3>3 DEF TestUnlock, TestGoto, TypeOK, TestOK
        <4>2. \A v \in Verifier : tpc'[v] = tpc[v]
          BY <1>0, <3>3, <4>1
        <4>3. QED
          BY <3>1, <4>1, <4>2, FlagFrame
      <3>4. CASE tpc[t] = "unlockPassed"
        <4>1. /\ verifyFailed' = verifyFailed
              /\ tpc' = [tpc EXCEPT ![t] = IF t \in Verifier THEN "tellTrue" ELSE "finished"]
          BY <2>1, <3>4 DEF TestUnlock, TestGoto
        <4>2. \A v \in Verifier : /\ tpc'[v] = "idle" <=> tpc[v] = "idle"
                                  /\ tpc'[v] \in {"tellFalse", "tellTrueLate"}
                                        => tpc[v] \in {"tellFalse", "tellTrueLate"}
          BY <1>0, <3>4, <4>1
        <4>3. QED
          BY <3>1, <4>1, <4>2, FlagTest
      <3>5. QED
        BY <2>1, <3>2, <3>3, <3>4 DEF TestUnlock
    <2>2. CASE ~TestUnlock(t)
      <3>1. UNCHANGED <<connectionTestRunning, verifyFailed, overlap>>
        BY <1>8, <2>2 DEF TestStep, TestRLock, TestResult, TestTransportOk, TestSend
      <3>2. /\ tpc[t] \in {"rlock"} \cup HoldingPc
            /\ \E p \in HoldingPc : tpc' = [tpc EXCEPT ![t] = p]
        BY <1>8, <2>2 DEF TestStep, TestRLock, TestResult, TestTransportOk, TestSend, TestGoto,
                          HoldingPc
      <3>3. \A v \in Verifier : /\ tpc'[v] = "idle" <=> tpc[v] = "idle"
                                /\ tpc'[v] \in {"tellFalse", "tellTrueLate"}
                                      => tpc[v] \in {"tellFalse", "tellTrueLate"}
        BY <1>0, <3>2 DEF HoldingPc
      <3>4. QED
        BY <3>1, <3>3, FlagTest
    <2>3. QED
      BY <2>1, <2>2
  <1>9. CASE UNCHANGED vars
    BY <1>9, FlagFrame DEF vars, testVars
  <1>10. QED
    BY <1>1, <1>2, <1>3, <1>4, <1>5, <1>6, <1>7, <1>8, <1>9 DEF Next

\* Type correctness of the manager, its goroutines and its listeners, for any
\* number of connections, attempts, verification tests and upgraders.
THEOREM TypeCorrect == Spec => []TypeOK
  <1>1. Init => TypeOK
    BY TypeInit
  <1>2. TypeOK /\ [Next]_vars => TypeOK'
    BY TypeNext
  <1>3. QED
    BY <1>1, <1>2, PTL DEF Spec

\* The inductive invariant holds in every reachable state.
THEOREM Invariance == Spec => []IInv
  BY InvInit, InvNext, PTL DEF Spec

\* The reconnect logic (connectionmanager.go:160-227) keeps one chain of
\* attempts: unless verification tests overlap, there is one live attempt, the
\* latest, or one scheduled reconnect, never both and never neither.
THEOREM OneChainHolds == Spec => []OneChain
  <1>1. IInv => OneChain
    BY DEF IInv
  <1>2. QED
    BY <1>1, Invariance, PTL

\* pac.blockedMethod (pac.go:52-72) follows the connection: with no event on its
\* way to PAC or being handled there, it
\* names only a service whose connection is up, and, unless verification tests
\* overlapped, one that runs.
THEOREM PacNeverStaleHolds == Spec => []PacNeverStale
  <1>1. IInv => PacNeverStale
    <2>1. SUFFICES ASSUME IInv, Selecting, pacEvent = NoEvent, pac # Nil
                   PROVE  reported[pac] = "up" /\ (~overlap => service[pac] = "running")
      BY DEF PacNeverStale
    <2>2. pac \in Attempt
      BY <2>1 DEF IInv, TypeOK, ListenOK
    <2>3. reported[pac] = "up"
      BY <2>1 DEF IInv, PacFollows, Selecting, EndedOnItsWay, OnItsWay, NoEvent
    <2>4. QED
      BY <2>1, <2>2, <2>3 DEF IInv, ServiceRuns
  <1>2. QED
    BY <1>1, Invariance, PTL

\* Until the first failed verification test, connectionTestRunning
\* (connectionmanager.go:229-246) is set exactly while a test exists and keeps a
\* second one away.
THEOREM FlagGuardsHolds == Spec => []FlagGuards
  <1>1. Init => FlagInv
    BY Sorts DEF Init, FlagInv
  <1>2. FlagInv => FlagGuards
    BY DEF FlagInv, FlagGuards
  <1>3. QED
    BY <1>1, <1>2, FlagNext, TypeCorrect, PTL DEF Spec
-----------------------------------------------------------------------------
(* What the listeners may rely on: ConnectionStatus *)

Status == INSTANCE ConnectionStatus WITH latest <- started, status <- reported, lost <- overlap

\* An attempt that was made decides the fate of the connection, or has ended.
Decided == \A a \in Attempt : a <= started => Live(a) \/ reported[a] = "ended"

\* A step that reports nothing and starts nothing keeps live attempts live, ...
Silent == UNCHANGED <<started, reported>> /\ \A a \in Attempt : Live(a) => Live(a)'

\* ... one starts the next attempt, ...
Begins ==
    /\ armed + firing > 0 /\ started + 1 \in Attempt /\ started' = started + 1
    /\ UNCHANGED <<reported, overlap>> /\ Live(started)'
    /\ \A a \in Attempt : a <= started /\ Live(a) => Live(a)'

\* ... and one reports that attempt a is up or has ended.
Reports(a, s) ==
    /\ reported' = [reported EXCEPT ![a] = s] /\ UNCHANGED <<started, overlap>>
    /\ s = "up" => reported[a] = "none"
    /\ ~overlap => Live(a)
    /\ \A b \in Attempt : b # a /\ Live(b) => Live(b)'

LEMMA ConnectSteps ==
    ASSUME IInv, NEW a \in Attempt, ConnectStep(a)
    PROVE  Silent \/ Reports(a, "ended")
<1> USE Sorts
<1>0. /\ TypeOK /\ cpc \in [Attempt -> ConnectPc] /\ tpc \in [Tester -> TestPc] /\ a \in Tester
      /\ reported \in [Attempt -> {"none", "up", "ended"}]
    BY DEF IInv, TypeOK, ConnectOK, TestOK, LoopOK
<1>1. ASSUME UNCHANGED <<started, reported, tpc>>, NEW p \in ConnectPc, cpc' = [cpc EXCEPT ![a] = p],
             p \in OpeningPc \/ cpc[a] \notin OpeningPc
      PROVE  Silent
    BY <1>0, <1>1 DEF Silent, Live
<1>2. CASE ConnectSend(a)
  <2>1. PICK p \in DOMAIN EventAt : cpc[a] = p
    BY <1>2 DEF ConnectSend
  <2>2. /\ Receive(a, EventAt[p]) /\ cpc' = [cpc EXCEPT ![a] = AfterEvent[p]]
        /\ UNCHANGED <<started, tpc, overlap>>
    BY <1>2, <2>1 DEF ConnectSend, ConnectGoto, attemptVars, testVars
  <2>3. CASE p = "Ended"
    <3>1. reported' = [reported EXCEPT ![a] = "ended"]
      BY <1>0, <2>2, <2>3, PcSorts, ReceiveReported
    <3>2. Live(a)
      BY <2>1, PcSorts DEF Live
    <3>3. \A b \in Attempt : b # a /\ Live(b) => Live(b)'
      BY <1>0, <2>2, <3>1 DEF Live
    <3>. QED
      BY <2>2, <3>1, <3>2, <3>3 DEF Reports
  <2>4. CASE p # "Ended"
    <3>1. UNCHANGED reported
      BY <1>0, <2>2, <2>4, PcSorts, ReceiveReported
    <3>2. AfterEvent[p] \in ConnectPc /\ AfterEvent[p] \in OpeningPc
      BY <2>4, PcSorts
    <3>. QED
      BY <1>1, <2>2, <3>1, <3>2
  <2>. QED
    BY <2>3, <2>4
<1>3. CASE ConnectSpawnTest(a)
  <2>1. /\ tpc' = [tpc EXCEPT ![a] = "rlock"] /\ cpc' = [cpc EXCEPT ![a] = "lock"]
        /\ UNCHANGED <<started, reported>>
    BY <1>3 DEF ConnectSpawnTest, ConnectGoto, attemptVars, loopVars
  <2>. QED
    BY <1>0, <2>1 DEF Silent, Live, ProbingPc
<1>4. CASE ConnectNew(a)
  <2>1. \/ UNCHANGED <<started, reported, tpc, cpc>>
        \/ UNCHANGED <<started, reported, tpc>> /\ cpc' = [cpc EXCEPT ![a] = "ServiceStart"]
    BY <1>4 DEF ConnectNew, ConnectGoto, attemptVars, loopVars, testVars
  <2>2. "ServiceStart" \in ConnectPc /\ "ServiceStart" \in OpeningPc
    BY PcMembers DEF OpeningPc, EventAt
  <2>. QED
    BY <1>1, <2>1, <2>2 DEF Silent, Live
<1>5. CASE ConnectRemove(a) \/ ConnectStartFails(a) \/ ConnectStarted(a)
  <2>1. /\ UNCHANGED <<started, reported, tpc>>
        /\ \E p \in {"Init", "Failed", "Test", "WrongProtocol"} : cpc' = [cpc EXCEPT ![a] = p]
    BY <1>5 DEF ConnectRemove, ConnectStartFails, ConnectStarted, ConnectGoto, attemptVars,
                loopVars, testVars
  <2>2. \A p \in {"Init", "Failed", "Test", "WrongProtocol"} : p \in ConnectPc /\ p \in OpeningPc
    BY PcMembers DEF OpeningPc, EventAt
  <2>. QED
    BY <1>1, <2>1, <2>2
<1>6. CASE ConnectLock(a) \/ ConnectAssign(a)
  <2>1. /\ UNCHANGED <<started, reported, tpc>> /\ cpc[a] \in {"lock", "locking"}
        /\ \E p \in {"locking", "done"} : cpc' = [cpc EXCEPT ![a] = p]
    BY <1>6 DEF ConnectLock, ConnectAssign, ConnectGoto, attemptVars, loopVars, testVars
  <2>2. {"lock", "locking"} \cap OpeningPc = {}
    BY DEF OpeningPc, EventAt
  <2>. QED
    BY <1>1, <2>1, <2>2, PcMembers
<1>. QED
    BY <1>2, <1>3, <1>4, <1>5, <1>6 DEF ConnectStep

LEMMA TestSteps ==
    ASSUME IInv, NEW t \in Tester, TestStep(t)
    PROVE  Silent \/ \E a \in Attempt, s \in {"up", "ended"} : Reports(a, s)
<1> USE Sorts
<1>0. /\ TypeOK /\ cpc \in [Attempt -> ConnectPc] /\ tpc \in [Tester -> TestPc]
      /\ reported \in [Attempt -> {"none", "up", "ended"}]
    BY DEF IInv, TypeOK, ConnectOK, TestOK, LoopOK
\* A goroutine that goes on with its probe, or had none of interest.
<1>1. ASSUME UNCHANGED <<started, reported, cpc>>, NEW p, tpc' = [tpc EXCEPT ![t] = p],
             p \in ProbingPc \/ tpc[t] \notin ProbingPc \/ t \notin Attempt
      PROVE  Silent
    BY <1>0, <1>1 DEF Silent, Live
<1>2. CASE TestRLock(t) \/ TestResult(t)
  <2>1. /\ UNCHANGED <<started, reported, cpc>>
        /\ \E p \in {"okFalse", "testing", "okTrue"} : tpc' = [tpc EXCEPT ![t] = p]
    BY <1>2 DEF TestRLock, TestResult, TestGoto, attemptVars, loopVars
  <2>. QED
    BY <1>1, <2>1 DEF ProbingPc
<1>3. CASE TestTransportOk(t)
  <2>1. /\ UNCHANGED <<started, reported, cpc>>
        /\ \/ tpc' = [tpc EXCEPT ![t] = "TestFailed"]
           \/ tpc' = [tpc EXCEPT ![t] = "Up"]
           \/ t \in Verifier /\ tpc' = [tpc EXCEPT ![t] = "okTrueAgain"]
           \/ tpc[t] = "okTrueAgain" /\ tpc' = [tpc EXCEPT ![t] = "unlockPassed"]
    BY <1>3 DEF TestTransportOk, TestGoto, attemptVars, loopVars
  <2>. QED
    BY <1>1, <2>1 DEF ProbingPc
<1>4. CASE TestUnlock(t)
  <2>1. /\ UNCHANGED <<started, reported, cpc>> /\ tpc[t] \in {"unlockFailed", "unlockPassed"}
        /\ \E p : tpc' = [tpc EXCEPT ![t] = p]
    BY <1>4 DEF TestUnlock, TestGoto, attemptVars, loopVars
  <2>. QED
    BY <1>1, <2>1 DEF ProbingPc
<1>5. CASE TestSend(t)
  <2>0. PICK a \in Attempt : a = subject[t]
    BY DEF IInv, TypeOK, TestOK
  <2>1. /\ tpc[t] \in {"TestFailed", "Reason", "Ended", "Up"} /\ UNCHANGED <<started, overlap, cpc>>
        /\ \E p \in TestPc : tpc' = [tpc EXCEPT ![t] = p]
    BY <1>5 DEF TestSend, TestGoto, attemptVars, testVars, TestPc, HoldingPc
  <2>2. /\ t \in Attempt => a = t /\ reported[t] = "none" /\ Live(a)
        /\ t \in Verifier /\ ~overlap => Live(a)
    <3>1. t \in Attempt => a = t /\ reported[t] = "none" /\ Live(a)
      BY <2>0, <2>1, Senders DEF IInv, Live, ProbingPc
    <3>2. ASSUME t \in Verifier, ~overlap PROVE reported[a] = "up"
      BY <2>0, <2>1, <3>2 DEF IInv, OneVerifier, Verifying, HoldingPc
    <3>. QED
      BY <3>1, <3>2 DEF Live
  <2>3. \A b \in Attempt : b # a /\ reported'[b] = reported[b] /\ Live(b) => Live(b)'
    <3> SUFFICES ASSUME NEW b \in Attempt, b # a, reported'[b] = reported[b], Live(b)
                 PROVE  Live(b)'
      OBVIOUS
    <3>1. tpc'[b] = tpc[b]
      BY <1>0, <2>1, <2>2
    <3>. QED
      BY <2>1, <3>1 DEF Live
  <2>4. CASE tpc[t] \in {"TestFailed", "Reason"}
    <3>1. /\ \E s \in {"TestFailed", "NotConfigured", "Failed"} : Receive(a, s)
          /\ \E p \in {"Reason", "Ended"} : tpc' = [tpc EXCEPT ![t] = p]
      BY <1>5, <2>0, <2>4 DEF TestSend, TestGoto, Reason
    <3>2. UNCHANGED reported
      BY <1>0, <3>1, ReceiveReported DEF ConnectionState
    <3>. QED
      BY <1>1, <2>1, <3>1, <3>2 DEF ProbingPc
  <2>5. CASE tpc[t] = "Ended"
    <3>1. Receive(a, "Ended")
      BY <1>5, <2>0, <2>5 DEF TestSend
    <3>2. reported' = [reported EXCEPT ![a] = "ended"]
      BY <1>0, <3>1, ReceiveReported DEF ConnectionState
    <3>3. Reports(a, "ended")
      BY <1>0, <2>1, <2>2, <2>3, <3>2 DEF Reports
    <3>. QED
      BY <3>3
  <2>6. CASE tpc[t] = "Up"
    <3>1. Receive(a, "Up")
      BY <1>5, <2>0, <2>6 DEF TestSend
    <3>2. reported' = [reported EXCEPT ![a] = "up"]
      BY <1>0, <3>1, ReceiveReported DEF ConnectionState
    <3>3. t \in Attempt
      BY <2>6 DEF IInv, VerifierAbout
    <3>4. Reports(a, "up")
      BY <1>0, <2>1, <2>2, <2>3, <3>2, <3>3 DEF Reports
    <3>. QED
      BY <3>4
  <2>. QED
    BY <2>1, <2>4, <2>5, <2>6
<1>. QED
    BY <1>2, <1>3, <1>4, <1>5 DEF TestStep

LEMMA ReconnectStep == IInv /\ Reconnect => Begins
<1> SUFFICES ASSUME IInv, Reconnect PROVE Begins
    OBVIOUS
<1> USE Sorts
<1>1. /\ cpc \in [Attempt -> ConnectPc] /\ started \in Attempt /\ armed \in Nat /\ firing \in Nat
    BY DEF IInv, TypeOK, ConnectOK, AttemptOK, TimerOK
<1>2. /\ armed + firing > 0 /\ started + 1 \in Attempt /\ started' = started + 1
      /\ cpc' = [cpc EXCEPT ![started + 1] = "remove"] /\ UNCHANGED <<tpc, reported, overlap>>
    BY <1>1 DEF Reconnect, StartAttempt, loopVars, testVars
<1>3. cpc'[started'] = "remove" /\ \A a \in Attempt : a <= started => cpc'[a] = cpc[a]
    BY <1>1, <1>2
<1>. QED
    BY <1>2, <1>3 DEF Begins, Live, OpeningPc

LEMMA StatusSteps ==
    ASSUME IInv, [Next]_vars
    PROVE  Silent \/ Begins \/ \E a \in Attempt, s \in {"up", "ended"} : Reports(a, s)
<1>1. CASE Reconnect
    BY <1>1, ReconnectStep
<1>2. CASE \E a \in Attempt : ConnectStep(a)
    BY <1>2, ConnectSteps
<1>3. CASE \E t \in Tester : TestStep(t)
    BY <1>3, TestSteps
<1>4. CASE UNCHANGED <<started, reported, cpc, tpc>>
    BY <1>4 DEF Silent, Live
<1>5. ASSUME NEW v \in Verifier, Reverify(v) \/ Tested(v) PROVE Silent
  <2>1. UNCHANGED <<started, reported, cpc>> /\ \E p : tpc' = [tpc EXCEPT ![v] = p]
    BY <1>5 DEF Reverify, Tested, attemptVars, loopVars
  <2>2. tpc \in [Tester -> TestPc] /\ \A a \in Attempt : a # v
    BY Sorts DEF IInv, TypeOK, TestOK
  <2>. QED
    BY <2>1, <2>2 DEF Silent, Live
<1>6. ASSUME \/ ReconnectNone \/ TimerFires \/ StrayTimerFires \/ StopConnectionManager
             \/ UpdateConnections \/ ForwardToPac \/ PacStep
             \/ \E l \in Listener : AddListener(l)
             \/ \E u \in Upgrader : UpgraderStep(u)
      PROVE  UNCHANGED <<started, reported, cpc, tpc>>
    BY <1>6 DEF ReconnectNone, TimerFires, StrayTimerFires, StopConnectionManager,
                UpdateConnections, ForwardToPac, PacStep, AddListener, UpgraderStep,
                ForwardToUpgrader, UpgraderRequest, UpgraderHTTPClient, UpgraderDone, Delivered,
                loopVars, attemptVars, testVars
<1>7. UNCHANGED vars => UNCHANGED <<started, reported, cpc, tpc>>
    BY DEF vars, loopVars, attemptVars, testVars
<1>. QED
    BY <1>1, <1>2, <1>3, <1>4, <1>5, <1>6, <1>7 DEF Next

LEMMA DecidedStep == IInv /\ Decided /\ [Next]_vars => Decided'
<1> SUFFICES ASSUME IInv, Decided, [Next]_vars PROVE Decided'
    OBVIOUS
<1>0. reported \in [Attempt -> {"none", "up", "ended"}] /\ started \in Attempt
    BY DEF IInv, TypeOK, LoopOK, AttemptOK
<1>1. CASE Silent
    BY <1>1 DEF Silent, Decided
<1>2. CASE Begins
  <2>1. \A a \in Attempt : a <= started' => a <= started \/ a = started'
    BY <1>0, <1>2, Sorts DEF Begins
  <2>. QED
    BY <1>2, <2>1 DEF Begins, Decided
<1>3. ASSUME NEW a \in Attempt, NEW s \in {"up", "ended"}, Reports(a, s) PROVE Decided'
  <2>1. s = "up" => Live(a)'
    BY <1>0, <1>3 DEF Reports, Live
  <2>. QED
    BY <1>0, <1>3, <2>1 DEF Reports, Decided
<1>. QED
    BY <1>1, <1>2, <1>3, StatusSteps

LEMMA StatusNext == IInv /\ Decided /\ [Next]_vars => [overlap' \/ Status!Next]_<<started, reported>>
<1> SUFFICES ASSUME IInv, Decided, [Next]_vars, ~overlap'
             PROVE  Status!Next \/ UNCHANGED <<started, reported>>
    OBVIOUS
<1>0. reported \in [Attempt -> {"none", "up", "ended"}] /\ started \in Attempt
      /\ armed \in Nat /\ firing \in Nat
    BY DEF IInv, TypeOK, LoopOK, AttemptOK, TimerOK
<1>1. CASE Begins
  <2>1. armed + firing = 1
    BY <1>0, <1>1 DEF Begins, IInv, OneChain
  <2>2. ~Live(started) /\ started <= started
    BY <1>0, <1>1, <2>1, Sorts DEF Begins, IInv, OneChain
  <2>3. reported[started] = "ended"
    BY <1>0, <2>2 DEF Decided
  <2>. QED
    BY <1>1, <2>3 DEF Begins, Status!Next, Status!Connect
<1>2. ASSUME NEW a \in Attempt, NEW s \in {"up", "ended"}, Reports(a, s) PROVE Status!Next
  <2>1. ~overlap /\ Live(a)
    BY <1>2 DEF Reports
  <2>2. a = started
    BY <2>1 DEF IInv, OneChain
  <2>3. reported[a] # "ended"
    BY <2>1 DEF IInv, Stages, Live
  <2>. QED
    BY <1>2, <2>2, <2>3 DEF Reports, Status!Next, Status!ComesUp, Status!Ends
<1>. QED
    BY <1>1, <1>2, StatusSteps DEF Silent

\* The manager (connectionmanager.go:160-250, 330-470) implements ConnectionStatus: unless
\* verification tests overlap, an attempt is made only after the last one has ended, comes
\* up at most once and ends once.
THEOREM StatusHolds == Spec => Status!Spec
<1>1. Init => Status!Init /\ Decided
    BY Sorts DEF Init, Status!Init, Decided, Live, OpeningPc
<1>2. Spec => []Decided
    BY <1>1, DecidedStep, Invariance, PTL DEF Spec
<1>. QED
    BY <1>1, <1>2, StatusNext, Invariance, PTL DEF Spec, Status!Spec

\* "Ended // Nothing more can happen" (connectionmanager.go:63) is true of every attempt as
\* long as verification tests do not overlap.
THEOREM EndIsEnd == Spec => [](~overlap => NothingAfterEnded)
<1>1. IInv /\ ~overlap => NothingAfterEnded
  <2> SUFFICES ASSUME IInv, ~overlap PROVE NothingAfterEnded
    OBVIOUS
  <2>1. \A a \in Attempt : cpc[a] \in DOMAIN EventAt => reported[a] # "ended"
    BY DEF IInv, Stages, OpeningPc
  <2>2. ASSUME NEW t \in Tester, tpc[t] \in {"TestFailed", "Reason", "Ended", "Up"}
        PROVE  reported[subject[t]] # "ended"
    <3>1. CASE t \in Attempt
      BY <2>2, <3>1 DEF IInv, Stages, ProbingPc
    <3>2. CASE t \in Verifier
      BY <2>2, <3>2 DEF IInv, OneVerifier, Verifying, HoldingPc
    <3>. QED
      BY <3>1, <3>2, Sorts
  <2>. QED
    BY <2>1, <2>2 DEF NothingAfterEnded
<1>. QED
    BY <1>1, Invariance, PTL
=============================================================================
