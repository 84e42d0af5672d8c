--------------------------- MODULE ProcessesProofs ---------------------------
(***************************************************************************)
(* Proofs about the programs beside the client that MCProcesses puts into  *)
(* one run: the handshake with a transport, the drain of the obfs4         *)
(* process, the choice of a server by shadowsocks and the reload of its    *)
(* ports, for any number of connections, servers and ports.                *)
(***************************************************************************)
EXTENDS MCProcesses, FiniteSetTheorems, TLAPS

-----------------------------------------------------------------------------
(* The drain of the obfs4 process *)

\* Connections whose handler wait has counted and not yet counted off.
Counted == {c \in PConn : handler[c] \notin {"none", "accepted"}}

\* The counter of the monitor is the number of these handlers, which is finite for any
\* set of connections.
DrainInv ==
    /\ handler \in [PConn -> {"none", "accepted", "handshake", "connected", "closing", "finished"}]
    /\ IsFiniteSet(Counted) /\ numHandlers = Cardinality(Counted)
    /\ reason = "drained" => stage = "gone"
    /\ DrainsFirst

LEMMA DrainInit == Init => DrainInv
<1> SUFFICES ASSUME Init PROVE DrainInv
    OBVIOUS
<1>1. handler = [c \in PConn |-> "none"] /\ numHandlers = 0 /\ reason = "none"
    BY DEF Init, P!PInit
<1>2. Counted = {}
    BY <1>1 DEF Counted
<1>. QED
    BY <1>1, <1>2, FS_EmptySet DEF DrainInv, DrainsFirst, P!DrainsFirst

LEMMA DrainStep == DrainInv /\ [Next]_vars => DrainInv'
<1> SUFFICES ASSUME DrainInv, [Next]_vars PROVE DrainInv'
    OBVIOUS
<1> USE DEF DrainInv, DrainsFirst, P!DrainsFirst
<1>1. ASSUME UNCHANGED <<handler, numHandlers>>, reason' = "drained" => reason = "drained" /\ stage' = "gone"
      PROVE  DrainInv'
    BY <1>1 DEF Counted
<1>2. CASE UNCHANGED pvars
    BY <1>1, <1>2 DEF pvars
<1>3. CASE P!Run \/ P!ptGetProxy \/ P!Launched \/ P!CloseListeners
    BY <1>1, <1>3 DEF P!Run, P!ptGetProxy, P!Launched, P!CloseListeners, P!Connections
<1>4. ASSUME NEW m \in Method, P!clientSetup(m) \/ P!serverSetup(m) PROVE DrainInv'
    BY <1>1, <1>4 DEF P!clientSetup, P!serverSetup, P!SetupMethod, P!Connections
<1>5. ASSUME NEW sig, P!Signal(sig) PROVE DrainInv'
    BY <1>1, <1>5 DEF P!Signal, P!Told, P!Waiting, P!Connections
<1>6. CASE P!ParentDies \/ P!TermOnParent
    BY <1>1, <1>6 DEF P!ParentDies, P!TermOnParent, P!Told, P!Waiting, P!Connections
<1>7. ASSUME NEW c \in PConn, P!Accept(c) PROVE DrainInv'
  <2>1. Counted' = Counted
    BY <1>7 DEF P!Accept, P!Move, Counted
  <2>. QED
    BY <1>7, <2>1 DEF P!Accept, P!Move, P!HandlerOnly, P!Alive
<1>8. ASSUME NEW c \in PConn, P!Connect(c) \/ P!Fail(c) \/ P!CopyEnds(c) \/ P!CopyClose(c)
      PROVE  DrainInv'
  <2>1. Counted' = Counted
    BY <1>8 DEF P!Connect, P!Fail, P!CopyEnds, P!CopyClose, P!Move, Counted
  <2>. QED
    BY <1>8, <2>1 DEF P!Connect, P!Fail, P!CopyEnds, P!CopyClose, P!Move, P!HandlerOnly, P!Alive
<1>9. ASSUME NEW c \in PConn, P!onHandlerStart(c) PROVE DrainInv'
  <2>1. /\ handler[c] = "accepted" /\ handler' = [handler EXCEPT ![c] = "handshake"]
        /\ numHandlers' = numHandlers + 1 /\ P!Waiting
    BY <1>9 DEF P!onHandlerStart, P!Move, P!Count
  <2>2. Counted' = Counted \cup {c} /\ c \notin Counted
    BY <2>1 DEF Counted
  <2>3. IsFiniteSet(Counted') /\ numHandlers' = Cardinality(Counted') /\ numHandlers \in Nat
    BY <2>1, <2>2, FS_AddElement, FS_CardinalityType
  <2>4. reason' = reason /\ stage # "gone"
    BY <1>9, <2>1, <2>3 DEF P!onHandlerStart, P!Count, P!Waiting
  <2>. QED
    BY <2>1, <2>3, <2>4
<1>10. ASSUME NEW c \in PConn, P!onHandlerFinish(c) PROVE DrainInv'
  <2>1. /\ handler[c] = "finished" /\ handler' = [handler EXCEPT ![c] = "none"]
        /\ numHandlers' = numHandlers - 1 /\ P!Waiting
    BY <1>10 DEF P!onHandlerFinish, P!Move, P!Count
  <2>2. Counted' = Counted \ {c} /\ c \in Counted
    BY <2>1 DEF Counted
  <2>3. IsFiniteSet(Counted') /\ numHandlers' = Cardinality(Counted')
    BY <2>1, <2>2, FS_RemoveElement
  <2>4. CASE reason' = reason
    BY <2>1, <2>3, <2>4 DEF P!Waiting
  <2>5. CASE reason' # reason
    <3>1. numHandlers' = 0 /\ stage' = "gone"
      BY <1>10, <2>1, <2>5 DEF P!onHandlerFinish, P!Count
    <3>2. Counted' = {}
      BY <2>3, <3>1, FS_EmptySet
    <3>. QED
      BY <2>1, <2>3, <3>1, <3>2 DEF Counted
  <2>. QED
    BY <2>4, <2>5
<1>. QED
    BY <1>2, <1>3, <1>4, <1>5, <1>6, <1>7, <1>8, <1>9, <1>10 DEF Next, P!PNext, vars, pvars

\* When the obfs4 process leaves at the end of a drain, no handler that was counted is
\* still at work, with any number of connections.
THEOREM DrainsFirstHolds == Spec => []DrainsFirst
BY DrainInit, DrainStep, PTL DEF Spec, DrainInv

-----------------------------------------------------------------------------
(* The choice of a server *)

Elements(s) == {s[i] : i \in DOMAIN s}

LEMMA ElementsTail ==
    ASSUME NEW D, NEW s \in Seq(D), s # <<>>
    PROVE  /\ Head(s) \in D /\ Tail(s) \in Seq(D)
           /\ Elements(s) = {Head(s)} \cup Elements(Tail(s))
<1>1. /\ Head(s) \in D /\ Head(s) = s[1] /\ Tail(s) \in Seq(D) /\ Len(s) \in Nat \ {0}
      /\ Len(Tail(s)) = Len(s) - 1 /\ DOMAIN s = 1..Len(s) /\ DOMAIN Tail(s) = 1..Len(Tail(s))
      /\ \A i \in 1..Len(Tail(s)) : Tail(s)[i] = s[i + 1]
    OBVIOUS
<1>2. \A i \in DOMAIN s : i = 1 \/ (i - 1 \in DOMAIN Tail(s) /\ s[i] = Tail(s)[i - 1])
    BY <1>1
<1>3. 1 \in DOMAIN s /\ \A i \in DOMAIN Tail(s) : i + 1 \in DOMAIN s /\ s[i + 1] = Tail(s)[i]
    BY <1>1
<1>4. ASSUME NEW i \in DOMAIN s PROVE s[i] \in {Head(s)} \cup Elements(Tail(s))
    BY <1>1, <1>2 DEF Elements
<1>5. Head(s) \in Elements(s) /\ Elements(Tail(s)) \subseteq Elements(s)
    BY <1>1, <1>3 DEF Elements
<1>6. Elements(s) \subseteq {Head(s)} \cup Elements(Tail(s))
    BY <1>4 DEF Elements
<1>. QED
    BY <1>1, <1>5, <1>6

LEMMA ElementsAppend ==
    ASSUME NEW D, NEW s \in Seq(D), NEW e \in D
    PROVE  Append(s, e) \in Seq(D) /\ Elements(Append(s, e)) = Elements(s) \cup {e}
<1>1. /\ Append(s, e) \in Seq(D) /\ Len(s) \in Nat /\ DOMAIN s = 1..Len(s)
      /\ DOMAIN Append(s, e) = 1..(Len(s) + 1) /\ Append(s, e)[Len(s) + 1] = e
      /\ \A i \in 1..Len(s) : Append(s, e)[i] = s[i]
    OBVIOUS
<1>2. \A i \in 1..(Len(s) + 1) : i \in 1..Len(s) \/ i = Len(s) + 1
    BY <1>1
<1>3. Len(s) + 1 \in 1..(Len(s) + 1) /\ 1..Len(s) \subseteq 1..(Len(s) + 1)
    BY <1>1
<1>. QED
    BY <1>1, <1>2, <1>3 DEF Elements

Stages == {"new", "greeting", "rest", "request", "choose", "count", "piping", "closed", "failed"}

Request == [at : Stages, says : S!Sayings, todo : Seq(S!Servers), skipped : Seq(S!Servers),
            loop : {1, 2}, tried : SUBSET S!Servers, count : Nat \X Nat]

\* No server is lost: it was tried, or skipped in the first loop, or its turn is to come.
NoneLost(q) ==
    /\ q.loop = 1 => S!Servers = q.tried \cup Elements(q.skipped) \cup Elements(q.todo)
    /\ q.loop = 2 => S!Servers = q.tried \cup Elements(q.todo)
    /\ q.at = "failed" => q.tried = S!Servers

ServersInv ==
    /\ failCnt \in [S!Servers -> Nat]
    /\ sreq \in [SReq -> Request]
    /\ \A r \in SReq : NoneLost(sreq[r])

LEMMA ServersInit == Init => ServersInv
<1> SUFFICES ASSUME Init PROVE ServersInv
    OBVIOUS
<1> DEFINE all == [i \in 1..NumServers |-> i]
<1>0. NumServers \in Nat
    BY ProcessesAssumption
<1>1. all \in Seq(S!Servers) /\ Elements(all) = S!Servers
    BY <1>0 DEF S!Servers, Elements
<1>2. <<>> \in Seq(S!Servers) /\ <<1, 0>> \in Nat \X Nat /\ S!Polite \in S!Sayings
    BY DEF S!Sayings
<1> HIDE DEF all
<1>3. S!Idle = [at |-> "new", says |-> S!Polite, todo |-> all, skipped |-> <<>>,
                loop |-> 1, tried |-> {}, count |-> <<1, 0>>]
    BY DEF S!Idle, all
<1>4. S!Idle \in Request
    BY <1>1, <1>2, <1>3 DEF Request, Stages
<1>5. NoneLost(S!Idle)
    BY <1>1, <1>3 DEF NoneLost, Elements
<1>. QED
    BY <1>4, <1>5 DEF Init, S!SInit, ServersInv

\* The state of one connection changes.
LEMMA RequestStep ==
    ASSUME ServersInv, NEW r \in SReq, NEW q \in Request, NoneLost(q),
           sreq' = [sreq EXCEPT ![r] = q], failCnt' \in [S!Servers -> Nat]
    PROVE  ServersInv'
BY DEF ServersInv

LEMMA GoStep ==
    ASSUME ServersInv, NEW r \in SReq, NEW a \in Stages, S!Go(r, a), UNCHANGED failCnt,
           a = "failed" => sreq[r].loop = 2 /\ sreq[r].todo = <<>>
    PROVE  ServersInv'
<1> DEFINE q == [sreq[r] EXCEPT !.at = a]
<1>1. sreq[r] \in Request /\ NoneLost(sreq[r])
    BY DEF ServersInv
<1>2. q \in Request
    BY <1>1 DEF Request, Stages
<1>3. NoneLost(q)
  <2>1. /\ q.todo = sreq[r].todo /\ q.skipped = sreq[r].skipped /\ q.loop = sreq[r].loop
        /\ q.tried = sreq[r].tried /\ q.at = a
    BY <1>1 DEF Request, Stages
  <2>2. sreq[r].todo = <<>> => Elements(sreq[r].todo) = {}
    BY DEF Elements
  <2>. QED
    BY <1>1, <2>1, <2>2 DEF NoneLost
<1>4. sreq' = [sreq EXCEPT ![r] = q]
    BY DEF S!Go, ServersInv
<1>. QED
    BY <1>2, <1>3, <1>4, RequestStep DEF ServersInv

LEMMA ServersStep == ServersInv /\ [Next]_vars => ServersInv'
<1> SUFFICES ASSUME ServersInv, [Next]_vars PROVE ServersInv'
    OBVIOUS
<1>1. CASE UNCHANGED <<failCnt, sreq>>
    BY <1>1 DEF ServersInv
<1>2. CASE S!Main \/ S!StartTransport \/ \E i \in S!Servers : S!ServerChanges(i)
    BY <1>1, <1>2 DEF S!Main, S!StartTransport, S!ServerChanges
<1>3. ASSUME NEW r \in SReq, S!Accept(r) PROVE ServersInv'
  <2>1. PICK s \in S!Sayings : sreq' = [sreq EXCEPT ![r].at = "greeting", ![r].says = s]
    BY <1>3 DEF S!Accept
  <2> DEFINE q == [sreq[r] EXCEPT !.at = "greeting", !.says = s]
  <2>2. sreq[r] \in Request /\ NoneLost(sreq[r])
    BY DEF ServersInv
  <2>3. q \in Request
    BY <2>2 DEF Request, Stages
  <2>4. NoneLost(q)
    BY <2>2 DEF NoneLost, Request
  <2>5. sreq' = [sreq EXCEPT ![r] = q]
    BY <2>1 DEF ServersInv
  <2>. QED
    BY <1>3, <2>3, <2>4, <2>5, RequestStep DEF ServersInv, S!Accept, S!ConnOnly
<1>4. ASSUME NEW r \in SReq, S!handShake(r) \/ S!readRest(r) \/ S!getRequest(r) \/ S!Piped(r)
      PROVE  ServersInv'
  <2>1. UNCHANGED failCnt
    BY <1>4 DEF S!handShake, S!readRest, S!getRequest, S!Piped, S!ConnOnly
  <2>2. UNCHANGED sreq \/ \E a \in {"closed", "rest", "request", "choose"} : S!Go(r, a)
    BY <1>4 DEF S!handShake, S!readRest, S!getRequest, S!Piped, S!ConnOnly
  <2>. QED
    BY <1>1, <2>1, <2>2, GoStep DEF Stages
<1>5. ASSUME NEW r \in SReq, S!Skip(r) PROVE ServersInv'
  <2> DEFINE i == Head(sreq[r].todo)
             q == [sreq[r] EXCEPT !.todo = Tail(@), !.skipped = Append(@, i)]
  <2>1. sreq[r] \in Request /\ NoneLost(sreq[r])
    BY DEF ServersInv
  <2>2. sreq[r].todo # <<>> /\ sreq[r].loop = 1 /\ sreq[r].at = "choose"
    BY <1>5 DEF S!Skip, S!Trying, S!At
  <2>3. sreq[r].todo \in Seq(S!Servers) /\ sreq[r].skipped \in Seq(S!Servers)
    BY <2>1 DEF Request, Stages
  <2>4. /\ i \in S!Servers /\ Tail(sreq[r].todo) \in Seq(S!Servers)
        /\ Elements(sreq[r].todo) = {i} \cup Elements(Tail(sreq[r].todo))
    BY <2>2, <2>3, ElementsTail
  <2>5. /\ Append(sreq[r].skipped, i) \in Seq(S!Servers)
        /\ Elements(Append(sreq[r].skipped, i)) = Elements(sreq[r].skipped) \cup {i}
    BY <2>3, <2>4, ElementsAppend
  <2>6. sreq' = [sreq EXCEPT ![r] = q]
    BY <1>5 DEF S!Skip, ServersInv
  <2> HIDE DEF i
  <2>7. q \in Request
    BY <2>1, <2>4, <2>5 DEF Request, Stages
  <2>8. NoneLost(q)
    <3>1. /\ q.todo = Tail(sreq[r].todo) /\ q.skipped = Append(sreq[r].skipped, i)
          /\ q.loop = 1 /\ q.tried = sreq[r].tried /\ q.at = "choose"
      BY <2>1, <2>2 DEF Request, Stages
    <3>2. S!Servers = sreq[r].tried \cup Elements(sreq[r].skipped) \cup Elements(sreq[r].todo)
      BY <2>1, <2>2 DEF NoneLost
    <3>. QED
      BY <2>4, <2>5, <3>1, <3>2 DEF NoneLost
  <2>. QED
    BY <1>5, <2>6, <2>7, <2>8, RequestStep DEF ServersInv, S!Skip, S!ConnOnly
<1>6. ASSUME NEW r \in SReq, S!connectToServer(r) PROVE ServersInv'
  <2> DEFINE i == Head(sreq[r].todo)
  <2>1. sreq[r] \in Request /\ NoneLost(sreq[r])
    BY DEF ServersInv
  <2>2. sreq[r].todo # <<>> /\ sreq[r].at = "choose" /\ sreq[r].todo \in Seq(S!Servers)
    BY <1>6, <2>1 DEF S!connectToServer, S!Trying, S!At, Request
  <2>3. /\ i \in S!Servers /\ Tail(sreq[r].todo) \in Seq(S!Servers)
        /\ Elements(sreq[r].todo) = {i} \cup Elements(Tail(sreq[r].todo))
    BY <2>2, ElementsTail
  <2>4. CASE i \in up
    <3> DEFINE q == [sreq[r] EXCEPT !.at = "piping"]
    <3>1. sreq' = [sreq EXCEPT ![r] = q] /\ failCnt' = [failCnt EXCEPT ![i] = 0]
      BY <1>6, <2>4 DEF S!connectToServer, S!Go, ServersInv
    <3>2. q \in Request
      BY <2>1 DEF Request, Stages
    <3>3. NoneLost(q)
      BY <2>1 DEF NoneLost, Request
    <3>4. failCnt' \in [S!Servers -> Nat]
      BY <3>1 DEF ServersInv
    <3>. QED
      BY <3>1, <3>2, <3>3, <3>4, RequestStep
  <2>5. CASE i \notin up
    <3> DEFINE a == IF failCnt[i] < MaxFailCnt THEN "count" ELSE sreq[r].at
               q == [sreq[r] EXCEPT !.todo = Tail(@), !.tried = @ \cup {i},
                                    !.count = <<i, failCnt[i]>>, !.at = a]
    <3>1. sreq' = [sreq EXCEPT ![r] = q] /\ failCnt' = failCnt
      BY <1>6, <2>5 DEF S!connectToServer, ServersInv
    <3>2. a \in {"count", "choose"} /\ i \in Nat /\ failCnt[i] \in Nat
      BY <2>2, <2>3 DEF ServersInv, S!Servers
    <3> HIDE DEF a, i
    <3>3. q \in Request
      BY <2>1, <2>3, <3>2 DEF Request, Stages
    <3>4. NoneLost(q)
      <4>1. /\ q.todo = Tail(sreq[r].todo) /\ q.skipped = sreq[r].skipped
            /\ q.loop = sreq[r].loop /\ q.tried = sreq[r].tried \cup {i} /\ q.at = a
        BY <2>1 DEF Request, Stages
      <4>. QED
        BY <2>1, <2>3, <3>2, <4>1 DEF NoneLost
    <3>. QED
      BY <3>1, <3>3, <3>4, RequestStep DEF ServersInv
  <2>. QED
    BY <2>4, <2>5
<1>7. ASSUME NEW r \in SReq, S!Increment(r) PROVE ServersInv'
  <2> DEFINE q == [sreq[r] EXCEPT !.at = "choose"]
  <2>1. sreq[r] \in Request /\ NoneLost(sreq[r]) /\ sreq[r].count \in Nat \X Nat
    BY DEF ServersInv, Request
  <2>2. /\ sreq' = [sreq EXCEPT ![r] = q]
        /\ failCnt' = [failCnt EXCEPT ![sreq[r].count[1]] = sreq[r].count[2] + 1]
    BY <1>7 DEF S!Increment, S!Go, ServersInv
  <2>3. q \in Request
    BY <2>1 DEF Request, Stages
  <2>4. NoneLost(q)
    BY <2>1 DEF NoneLost, Request
  <2>5. failCnt' \in [S!Servers -> Nat]
    <3>1. sreq[r].count[2] + 1 \in Nat
      BY <2>1
    <3>. QED
      BY <2>2, <3>1 DEF ServersInv
  <2>. QED
    BY <2>2, <2>3, <2>4, <2>5, RequestStep
<1>8. ASSUME NEW r \in SReq, S!lastResort(r) PROVE ServersInv'
  <2>1. sreq[r] \in Request /\ NoneLost(sreq[r])
    BY DEF ServersInv
  <2>2. CASE sreq[r].loop = 1
    <3> DEFINE q == [sreq[r] EXCEPT !.loop = 2, !.todo = sreq[r].skipped]
    <3>1. sreq' = [sreq EXCEPT ![r] = q] /\ sreq[r].todo = <<>> /\ sreq[r].at = "choose"
      BY <1>8, <2>2 DEF S!lastResort, S!At, ServersInv
    <3>2. q \in Request
      BY <2>1 DEF Request, Stages
    <3>3. NoneLost(q)
      BY <2>1, <2>2, <3>1 DEF NoneLost, Request, Elements
    <3>. QED
      BY <1>8, <3>1, <3>2, <3>3, RequestStep DEF ServersInv, S!lastResort, S!ConnOnly
  <2>3. CASE sreq[r].loop = 2
    BY <1>8, <2>3, GoStep DEF S!lastResort, S!ConnOnly, Stages
  <2>. QED
    BY <2>1, <2>2, <2>3 DEF Request, Stages
<1>. QED
    BY <1>1, <1>2, <1>3, <1>4, <1>5, <1>6, <1>7, <1>8 DEF Next, S!SNext, vars, svars

\* A request that shadowsocks gives up was refused by every server of the configuration,
\* also by those it skipped at first, with any number of servers and requests and any
\* interleaving of their unlocked counters.
THEOREM ReachableServesHolds == Spec => []ReachableServes
<1>1. ServersInv => ReachableServes
    BY DEF ServersInv, NoneLost, ReachableServes, S!ReachableServes
<1>. QED
    BY <1>1, ServersInit, ServersStep, PTL DEF Spec

-----------------------------------------------------------------------------
(* The handshake *)

\* What a transport prints before it serves; each line printed at once is read alone.
Started == <<"VERSION", "EXPOSE", "DONE">>

Pipe(p, u) == printed = p /\ unread = u

\* What the client believes, by the lines that are printed and those of them it has not
\* read yet.
Believes ==
    \/ /\ parent = "reading" /\ response = FALSE
       /\ \/ Pipe(<<>>, <<>>) \/ Pipe(<<"VERSION">>, <<"VERSION">>) \/ Pipe(<<"VERSION">>, <<>>)
          \/ Pipe(<<"ERROR">>, <<"ERROR">>) \/ Pipe(<<"VERSION", "ERROR">>, <<"VERSION", "ERROR">>)
          \/ Pipe(<<"VERSION", "ERROR">>, <<"ERROR">>)
          \/ Pipe(<<"VERSION", "EXPOSE">>, <<"VERSION", "EXPOSE">>)
          \/ Pipe(<<"VERSION", "EXPOSE">>, <<"EXPOSE">>)
          \/ Pipe(Started, Started) \/ Pipe(Started, <<"EXPOSE", "DONE">>)
    \/ /\ parent = "reading" /\ response = TRUE
       /\ Pipe(<<"VERSION", "EXPOSE">>, <<>>) \/ Pipe(Started, <<"DONE">>)
    \/ /\ parent = "failed" /\ response = FALSE /\ child = "gone"
       /\ Pipe(<<"ERROR">>, <<>>) \/ Pipe(<<"VERSION", "ERROR">>, <<>>)
    \/ /\ parent = "up" /\ response = FALSE /\ child = "gone"
       /\ Pipe(<<>>, <<>>) \/ Pipe(<<"VERSION">>, <<>>)
    \/ parent = "up" /\ response = TRUE /\ child = "gone" /\ Pipe(<<"VERSION", "EXPOSE">>, <<>>)
    \/ parent = "up" /\ response = TRUE /\ Pipe(Started, <<>>)

\* What the process has printed, by its stage; an ended one may have stopped anywhere.
Prints ==
    /\ child \in {"none", "check", "parse"} => printed = <<>>
    /\ child = "start" => printed = <<"VERSION">>
    /\ child = "exposed" => printed = <<"VERSION", "EXPOSE">>
    /\ child = "serving" => printed = Started

HandshakeInv ==
    /\ child \in {"none", "check", "parse", "start", "exposed", "serving", "gone"}
    /\ Believes /\ Prints

LEMMA HandshakeInit == Init => HandshakeInv
BY DEF Init, H!Init, HandshakeInv, Believes, Prints, Pipe

LEMMA TailOf ==
    ASSUME NEW a, NEW b, NEW c
    PROVE  /\ Head(<<a>>) = a /\ Tail(<<a>>) = <<>>
           /\ Head(<<a, b>>) = a /\ Tail(<<a, b>>) = <<b>>
           /\ Head(<<a, b, c>>) = a /\ Tail(<<a, b, c>>) = <<b, c>>
OBVIOUS

LEMMA Joined ==
    ASSUME NEW a, NEW b, NEW c
    PROVE  /\ <<>> \o <<a>> = <<a>>
           /\ <<>> \o <<a, b>> = <<a, b>>
           /\ <<a>> \o <<b>> = <<a, b>>
           /\ <<a, b>> \o <<c>> = <<a, b, c>>
<1> DEFINE D == {a, b, c}
<1>1. /\ <<a>> \in Seq(D) /\ <<b>> \in Seq(D) /\ <<c>> \in Seq(D)
      /\ <<a, b>> \in Seq(D) /\ <<a, b, c>> \in Seq(D)
    OBVIOUS
<1>2. ASSUME NEW s \in Seq(D), NEW t \in Seq(D), Len(s) = Len(t), \A i \in 1..Len(s) : s[i] = t[i]
      PROVE  s = t
    BY <1>2
<1>3. <<a>> \o <<b>> = <<a, b>>
  <2> DEFINE s == <<a>> \o <<b>>
             t == <<a, b>>
  <2>1. s \in Seq(D) /\ Len(s) = 2 /\ t \in Seq(D) /\ Len(t) = 2
    BY <1>1
  <2>2. s[1] = a /\ s[2] = b /\ t[1] = a /\ t[2] = b
    BY <1>1
  <2>3. \A i \in 1..Len(s) : s[i] = t[i]
    BY <2>1, <2>2
  <2>. QED
    BY <1>2, <2>1, <2>3
<1>4. <<a, b>> \o <<c>> = <<a, b, c>>
  <2> DEFINE s == <<a, b>> \o <<c>>
             t == <<a, b, c>>
  <2>1. s \in Seq(D) /\ Len(s) = 3 /\ t \in Seq(D) /\ Len(t) = 3
    BY <1>1
  <2>2. s[1] = a /\ s[2] = b /\ s[3] = c /\ t[1] = a /\ t[2] = b /\ t[3] = c
    BY <1>1
  <2>3. \A i \in 1..Len(s) : s[i] = t[i]
    BY <2>1, <2>2
  <2>. QED
    BY <1>2, <2>1, <2>3
<1>5. <<>> \o <<a>> = <<a>> /\ <<>> \o <<a, b>> = <<a, b>>
    BY <1>1
<1>. QED
    BY <1>3, <1>4, <1>5

\* The lines put together as they are printed.
LEMMA LinesJoined ==
    /\ <<>> \o <<"VERSION">> = <<"VERSION">> /\ <<>> \o <<"ERROR">> = <<"ERROR">>
    /\ <<>> \o <<"EXPOSE">> = <<"EXPOSE">> /\ <<>> \o <<"DONE">> = <<"DONE">>
    /\ <<>> \o <<"VERSION", "ERROR">> = <<"VERSION", "ERROR">>
    /\ <<"VERSION">> \o <<"EXPOSE">> = <<"VERSION", "EXPOSE">>
    /\ <<"VERSION">> \o <<"ERROR">> = <<"VERSION", "ERROR">>
    /\ <<"VERSION", "EXPOSE">> \o <<"DONE">> = Started
    /\ <<"EXPOSE">> \o <<"DONE">> = <<"EXPOSE", "DONE">>
BY Joined DEF Started

\* The lines as they are read.
LEMMA LinesRead ==
    /\ Head(<<"VERSION">>) = "VERSION" /\ Tail(<<"VERSION">>) = <<>>
    /\ Head(<<"ERROR">>) = "ERROR" /\ Tail(<<"ERROR">>) = <<>>
    /\ Head(<<"EXPOSE">>) = "EXPOSE" /\ Tail(<<"EXPOSE">>) = <<>>
    /\ Head(<<"DONE">>) = "DONE" /\ Tail(<<"DONE">>) = <<>>
    /\ Head(<<"VERSION", "ERROR">>) = "VERSION" /\ Tail(<<"VERSION", "ERROR">>) = <<"ERROR">>
    /\ Head(<<"VERSION", "EXPOSE">>) = "VERSION" /\ Tail(<<"VERSION", "EXPOSE">>) = <<"EXPOSE">>
    /\ Head(<<"EXPOSE", "DONE">>) = "EXPOSE" /\ Tail(<<"EXPOSE", "DONE">>) = <<"DONE">>
    /\ Head(Started) = "VERSION" /\ Tail(Started) = <<"EXPOSE", "DONE">>
BY TailOf DEF Started

\* What has been printed tells what the process has come to.
LEMMA Apart ==
    /\ <<"VERSION">> # <<>> /\ <<"VERSION", "EXPOSE">> # <<>> /\ Started # <<>> /\ <<"ERROR">> # <<>>
    /\ <<"VERSION", "ERROR">> # <<>> /\ <<"VERSION">> # <<"ERROR">>
    /\ <<"VERSION">> # <<"VERSION", "ERROR">> /\ <<"VERSION">> # <<"VERSION", "EXPOSE">>
    /\ <<"VERSION">> # Started /\ <<"VERSION", "EXPOSE">> # Started
    /\ <<"VERSION", "EXPOSE">> # <<"VERSION", "ERROR">> /\ <<"VERSION", "EXPOSE">> # <<"ERROR">>
    /\ <<"ERROR">> # Started /\ <<"VERSION", "ERROR">> # Started
BY DEF Started

LEMMA HandshakeStep == HandshakeInv /\ [Next]_vars => HandshakeInv'
<1> SUFFICES ASSUME HandshakeInv, [Next]_vars PROVE HandshakeInv'
    OBVIOUS
<1> USE DEF HandshakeInv, Prints
<1>1. CASE UNCHANGED <<child, printed, unread, parent, response>>
    BY <1>1 DEF Believes, Pipe
<1>2. CASE H!Launch \/ H!findParser \/ H!StartHelper \/ H!HelperUp \/ H!HelperEnds \/ H!CloseStdin
    BY <1>1, <1>2 DEF H!Launch, H!findParser, H!StartHelper, H!HelperUp, H!HelperEnds, H!CloseStdin,
           H!ChildOnly, H!ParentOnly, H!Silent, Believes, Pipe
<1>3. CASE H!Wait \/ H!Dies
    BY <1>3 DEF H!Wait, H!Dies, H!ChildOnly, H!Silent, Believes, Pipe
<1>4. CASE H!Parse
  <2>1. printed = <<>> /\ unread = <<>> /\ parent = "reading" /\ response = FALSE
    BY <1>4, Apart DEF H!Parse, Believes, Pipe
  <2>2. \/ H!ParseLines = <<"VERSION">> /\ child' = "start"
        \/ H!ParseLines \in {<<"ERROR">>, <<"VERSION", "ERROR">>} /\ child' = "gone"
    BY <1>4 DEF H!Parse, H!ParseLines
  <2>3. printed' = H!ParseLines /\ unread' = H!ParseLines /\ UNCHANGED <<parent, response>>
    BY <1>4, <2>1, <2>2, LinesJoined DEF H!Parse, H!PrintLines, H!ChildOnly
  <2>. QED
    BY <2>1, <2>2, <2>3 DEF Believes, Pipe
<1>5. ASSUME child = "start"
      PROVE  printed = <<"VERSION">> /\ unread \in {<<>>, <<"VERSION">>} /\ parent = "reading" /\ response = FALSE
    BY <1>5, Apart DEF Believes, Pipe
<1>6. CASE H!HelperFails \/ H!ListenFails
  <2>1. child = "start" /\ child' = "gone" /\ UNCHANGED <<parent, response>>
    BY <1>6 DEF H!HelperFails, H!ListenFails, H!Ready, H!ChildOnly
  <2>2. UNCHANGED <<printed, unread>> \/ H!PrintLines(<<"ERROR">>)
    BY <1>6 DEF H!HelperFails, H!ListenFails, H!Silent
  <2>3. \/ UNCHANGED <<printed, unread>>
        \/ printed' = <<"VERSION", "ERROR">> /\ unread' \in {<<"ERROR">>, <<"VERSION", "ERROR">>}
    BY <1>5, <2>1, <2>2, LinesJoined DEF H!PrintLines
  <2>. QED
    BY <1>5, <2>1, <2>3 DEF Believes, Pipe
<1>7. CASE H!Listen
  <2>1. /\ child = "start" /\ child' = "exposed" /\ UNCHANGED <<parent, response>>
        /\ H!PrintLines(<<"EXPOSE">>)
    BY <1>7 DEF H!Listen, H!Ready, H!ChildOnly
  <2>2. printed' = <<"VERSION", "EXPOSE">> /\ unread' \in {<<"EXPOSE">>, <<"VERSION", "EXPOSE">>}
    BY <1>5, <2>1, LinesJoined DEF H!PrintLines
  <2>. QED
    BY <1>5, <2>1, <2>2 DEF Believes, Pipe
<1>8. CASE H!PrintDone
  <2>1. /\ printed = <<"VERSION", "EXPOSE">> /\ child' = "serving" /\ parent = "reading"
        /\ UNCHANGED <<parent, response>> /\ H!PrintLines(<<"DONE">>)
        /\ \/ unread \in {<<"VERSION", "EXPOSE">>, <<"EXPOSE">>} /\ response = FALSE
           \/ unread = <<>> /\ response = TRUE
    BY <1>8, Apart DEF H!PrintDone, H!ChildOnly, Believes, Pipe
  <2>2. /\ printed' = Started
        /\ \/ unread' \in {Started, <<"EXPOSE", "DONE">>} /\ response = FALSE
           \/ unread' = <<"DONE">> /\ response = TRUE
    BY <2>1, LinesJoined DEF H!PrintLines
  <2>. QED
    BY <2>1, <2>2 DEF Believes, Pipe
<1>9. CASE H!ReadLine
  <2>1. /\ parent = "reading" /\ unread # <<>> /\ unread' = Tail(unread) /\ UNCHANGED <<child, printed>>
        /\ Head(unread) = "ERROR" => parent' = "failed"
        /\ Head(unread) = "DONE" => parent' = "up"
        /\ Head(unread) \notin {"ERROR", "DONE"} => parent' = "reading"
        /\ Head(unread) = "EXPOSE" => response' = TRUE
        /\ Head(unread) # "EXPOSE" => response' = response
    BY <1>9 DEF H!ReadLine, H!ParentOnly, Believes
  <2>2. printed \in {<<"ERROR">>, <<"VERSION", "ERROR">>} => child = "gone"
    BY Apart
  <2>. QED
    BY <2>1, <2>2, LinesRead DEF Believes, Pipe
<1>10. CASE H!ReadEnd
    BY <1>10, Apart DEF H!ReadEnd, H!ParentOnly, Believes, Pipe
<1>11. CASE H!ParsePanics
  <2>1. printed = <<>> /\ unread = <<>> /\ parent = "reading" /\ response = FALSE
    BY <1>11, Apart DEF H!ParsePanics, Believes, Pipe
  <2>2. child' = "gone" /\ UNCHANGED <<parent, response>>
    BY <1>11 DEF H!ParsePanics, H!ChildOnly
  <2>3. \/ UNCHANGED <<printed, unread>>
        \/ printed' = <<"VERSION">> /\ unread' = <<"VERSION">>
    BY <1>11, <2>1, LinesJoined DEF H!ParsePanics, H!Silent, H!PrintLines
  <2>. QED
    BY <2>1, <2>2, <2>3 DEF Believes, Pipe
<1>. QED
    BY <1>1, <1>2, <1>3, <1>4, <1>6, <1>7, <1>8, <1>9, <1>10, <1>11
    DEF Next, H!Next, H!Child, H!Reader, vars, hvars

\* A transport that serves is one the client has been told no error of, and one it calls
\* started has told its address, unless it ended without a word.
THEOREM HandshakeSoundHolds == Spec => []HandshakeSound
<1>1. HandshakeInv => HandshakeSound
  <2> SUFFICES ASSUME HandshakeInv PROVE HandshakeSound
    OBVIOUS
  <2>1. printed \in {<<>>, <<"VERSION">>} => H!Range(printed) \subseteq {"VERSION"}
    BY DEF H!Range
  <2>. QED
    BY <2>1 DEF HandshakeInv, Believes, Pipe, HandshakeSound, H!HandshakeSound
<1>. QED
    BY <1>1, HandshakeInit, HandshakeStep, PTL DEF Spec

-----------------------------------------------------------------------------
(* The reload of the ports *)

\* A port of the configuration that updatePasswd has nothing to do for any more.
Done(p) == p \in DOMAIN portPassword /\ p \notin todo

\* What the table says is there, and what is there or on its way, once and with its
\* password.  A port that is to go is still among the old ones.
Ports ==
    /\ \A p \in DOMAIN bound : /\ p \in DOMAIN table /\ table[p] = bound[p]
                               /\ p \in DOMAIN portPassword \/ p \in oldPorts
    /\ \A s \in starting : Done(s[1]) /\ s[2] = portPassword[s[1]] /\ s[1] \notin DOMAIN bound
    /\ \A p \in DOMAIN table : p \in DOMAIN bound \/ <<p, portPassword[p]>> \in starting
    /\ \A p \in Port : Done(p) => \/ p \in DOMAIN bound /\ bound[p] = portPassword[p]
                                  \/ <<p, portPassword[p]>> \in starting
    /\ \A p \in oldPorts : p \in DOMAIN portPassword => p \in todo

PortsInv ==
    /\ {portPassword, bound} \subseteq L!Configs
    /\ starting \subseteq Port \X Password
    /\ srv = "off" => /\ DOMAIN bound = {} /\ DOMAIN table = {} /\ oldPorts = {} /\ todo = {}
                      /\ upd = "none" /\ calm
    /\ todo \subseteq DOMAIN portPassword
    /\ upd = "none" => todo = {} /\ oldPorts = {}
    /\ srv = "up" /\ calm => Ports

LEMMA ConfigsAre ==
    \A f : f \in L!Configs <=> f \in [DOMAIN f -> Password] /\ DOMAIN f \subseteq Port
BY DEF L!Configs

LEMMA WithWithout ==
    ASSUME NEW f \in L!Configs, NEW p \in Port
    PROVE  /\ L!Without(f, p) \in L!Configs /\ DOMAIN L!Without(f, p) = DOMAIN f \ {p}
           /\ \A v \in Password : /\ L!With(f, p, v) \in L!Configs
                                  /\ DOMAIN L!With(f, p, v) = DOMAIN f \cup {p}
<1>1. f \in [DOMAIN f -> Password] /\ DOMAIN f \subseteq Port
    BY ConfigsAre
<1>2. L!Without(f, p) \in [DOMAIN f \ {p} -> Password]
    BY <1>1 DEF L!Without
<1>3. ASSUME NEW v \in Password PROVE L!With(f, p, v) \in [DOMAIN f \cup {p} -> Password]
    BY <1>1 DEF L!With
<1>. QED
    BY <1>1, <1>2, <1>3, ConfigsAre

LEMMA PortsInit == Init => PortsInv
<1>1. DOMAIN L!Empty = {} /\ L!Empty \in L!Configs
    BY ConfigsAre DEF L!Empty
<1>. QED
    BY <1>1 DEF Init, L!LInit, PortsInv

LEMMA PortsStep == PortsInv /\ [Next]_vars => PortsInv'
<1> SUFFICES ASSUME PortsInv, [Next]_vars PROVE PortsInv'
    OBVIOUS
<1>0. DOMAIN portPassword \subseteq Port /\ DOMAIN bound \subseteq Port
    BY ConfigsAre DEF PortsInv
<1>1. CASE UNCHANGED <<portPassword, oldPorts, todo, upd, table, starting, bound, calm>> /\ srv' \in {srv, "exited"}
    BY <1>1 DEF PortsInv, Ports, Done
<1>2. ASSUME NEW p \in Port, L!handleConnection(p) \/ L!Handled(p) PROVE PortsInv'
    BY <1>1, <1>2 DEF L!handleConnection, L!Handled
<1>3. ASSUME NEW c \in L!Configs, NEW single, L!Start(c, single) PROVE PortsInv'
  <2> DEFINE conf == L!unifyPortPassword(c, single)
  <2>1. srv = "off" /\ UNCHANGED <<oldPorts, todo, upd, table, bound, calm>>
    BY <1>3 DEF L!Start
  <2>2. CASE conf = L!Empty
    BY <1>1, <1>3, <2>1, <2>2 DEF L!Start
  <2>3. CASE conf # L!Empty
    <3>1. srv' = "up" /\ portPassword' = conf /\ starting' = {<<p, conf[p]>> : p \in DOMAIN conf}
      BY <1>3, <2>3 DEF L!Start
    <3>2. conf \in L!Configs
      <4>1. CASE DOMAIN c # {}
        BY <4>1 DEF L!unifyPortPassword
      <4>2. CASE DOMAIN c = {}
        <5>1. single \in Port \X Password /\ conf = [p \in {single[1]} |-> single[2]]
          BY <2>3, <4>2 DEF L!unifyPortPassword
        <5>. QED
          BY <5>1, ConfigsAre
      <4>. QED
        BY <4>1, <4>2
    <3>3. \A p \in DOMAIN conf : p \in Port /\ conf[p] \in Password
      BY <3>2, ConfigsAre
    <3> HIDE DEF conf
    <3>4. starting' \subseteq Port \X Password
      BY <3>1, <3>3
    <3>5. Ports'
      BY <2>1, <3>1 DEF Ports, Done, PortsInv
    <3>. QED
      BY <2>1, <3>1, <3>2, <3>4, <3>5 DEF PortsInv
  <2>. QED
    BY <2>2, <2>3
<1>4. ASSUME NEW s \in Port \X Password, L!Listen(s) PROVE PortsInv'
  <2>1. srv = "up" /\ s \in starting /\ UNCHANGED <<portPassword, oldPorts, todo, upd, calm>>
    BY <1>4 DEF L!Listen
  <2>2. CASE s[1] \in DOMAIN bound
    BY <1>1, <1>4, <2>1, <2>2 DEF L!Listen
  <2>3. CASE s[1] \notin DOMAIN bound
    <3> DEFINE p == s[1]
    <3>0. p \in Port /\ s[2] \in Password /\ s = <<p, s[2]>>
      OBVIOUS
    <3>1. /\ starting' = starting \ {s} /\ bound' = L!With(bound, p, s[2])
          /\ table' = L!With(table, p, s[2]) /\ srv' = srv
      BY <1>4, <2>3 DEF L!Listen
    <3>2. bound' \in L!Configs /\ DOMAIN bound' = DOMAIN bound \cup {p} /\ bound'[p] = s[2]
      <4>1. bound' \in L!Configs /\ DOMAIN bound' = DOMAIN bound \cup {p}
        BY <3>0, <3>1, WithWithout DEF PortsInv
      <4>2. bound'[p] = s[2]
        BY <3>1 DEF L!With
      <4>. QED
        BY <4>1, <4>2
    <3>3. DOMAIN table' = DOMAIN table \cup {p} /\ table'[p] = s[2]
      BY <3>1 DEF L!With
    <3>4. /\ \A q \in DOMAIN bound : q # p => bound'[q] = bound[q]
          /\ \A q \in DOMAIN table : q # p => table'[q] = table[q]
      BY <3>1 DEF L!With
    <3>5. ASSUME calm PROVE Ports'
      <4>1. Ports /\ Done(p) /\ s[2] = portPassword[p]
        BY <2>1, <3>5 DEF PortsInv, Ports
      <4>2. \A q : Done(q)' <=> Done(q)
        BY <2>1 DEF Done
      <4>3. \A t \in starting' : t[1] # p
        BY <3>0, <3>1, <4>1 DEF Ports, PortsInv
      <4>4. \A q \in Port : q # p => (<<q, portPassword[q]>> \in starting' <=> <<q, portPassword[q]>> \in starting)
        BY <3>0, <3>1
      <4>5. \A q \in DOMAIN bound' : /\ q \in DOMAIN table' /\ table'[q] = bound'[q]
                                     /\ q \in DOMAIN portPassword \/ q \in oldPorts
        BY <3>2, <3>3, <3>4, <4>1 DEF Ports, Done
      <4>6. \A t \in starting' : Done(t[1]) /\ t[2] = portPassword[t[1]] /\ t[1] \notin DOMAIN bound'
        BY <3>1, <3>2, <4>1, <4>3 DEF Ports
      <4>7. \A q \in DOMAIN table' : q \in DOMAIN bound' \/ <<q, portPassword[q]>> \in starting'
        BY <3>0, <3>1, <3>2, <3>3, <4>1 DEF Ports
      <4>8. \A q \in Port : Done(q) => \/ q \in DOMAIN bound' /\ bound'[q] = portPassword[q]
                                       \/ <<q, portPassword[q]>> \in starting'
        BY <3>2, <3>4, <4>1, <4>4 DEF Ports
      <4>. QED
        BY <2>1, <4>1, <4>2, <4>5, <4>6, <4>7, <4>8 DEF Ports
    <3>. QED
      BY <2>1, <3>1, <3>2, <3>5 DEF PortsInv
  <2>. QED
    BY <2>2, <2>3
<1>5. ASSUME NEW c \in L!Configs \cup {NoFile}, L!ReadConfig(c) PROVE PortsInv'
  <2>1. /\ srv = "up" /\ upd = "none" /\ UNCHANGED <<srv, table, starting, bound>>
        /\ calm' = (calm /\ starting = {} /\ c # L!Empty)
    BY <1>5 DEF L!ReadConfig
  <2>2. CASE UNCHANGED <<portPassword, oldPorts, todo, upd>>
    BY <2>1, <2>2 DEF PortsInv, Ports, Done
  <2>3. CASE c # NoFile /\ portPassword' = c
    <3>1. c = L!Empty \/ (oldPorts' = DOMAIN portPassword /\ todo' = DOMAIN c /\ upd' = "update")
      BY <1>5, <2>3 DEF L!ReadConfig
    <3>2. ASSUME calm' PROVE Ports'
      <4>1. /\ calm /\ starting = {} /\ Ports /\ todo = {} /\ oldPorts = {}
            /\ oldPorts' = DOMAIN portPassword /\ todo' = DOMAIN c
        BY <2>1, <3>1, <3>2 DEF PortsInv
      <4>2. /\ \A p \in DOMAIN bound : p \in DOMAIN table /\ table[p] = bound[p] /\ p \in DOMAIN portPassword
            /\ \A p \in DOMAIN table : p \in DOMAIN bound
        BY <4>1 DEF Ports
      <4>. QED
        BY <2>1, <2>3, <4>1, <4>2 DEF Ports, Done
    <3>3. todo' \subseteq DOMAIN portPassword' /\ (upd' = "none" => todo' = {} /\ oldPorts' = {})
      <4>1. CASE c = L!Empty
        <5>1. UNCHANGED <<oldPorts, todo, upd>>
          BY <1>5, <2>3, <4>1 DEF L!ReadConfig
        <5>. QED
          BY <2>1, <5>1 DEF PortsInv
      <4>2. CASE c # L!Empty
        BY <2>3, <3>1, <4>2
      <4>. QED
        BY <4>1, <4>2
    <3>. QED
      BY <2>1, <2>3, <3>2, <3>3 DEF PortsInv
  <2>. QED
    BY <1>5, <2>2, <2>3 DEF L!ReadConfig
<1>6. ASSUME NEW p \in Port, L!updatePortPasswd(p) PROVE PortsInv'
  <2> DEFINE pw == portPassword[p]
  <2>1. /\ srv = "up" /\ upd = "update" /\ p \in todo /\ todo' = todo \ {p} /\ oldPorts' = oldPorts \ {p}
        /\ UNCHANGED <<srv, portPassword, upd, table, calm>>
    BY <1>6 DEF L!updatePortPasswd
  <2>2. CASE p \in DOMAIN table /\ table[p] = pw
    <3>1. UNCHANGED <<bound, starting>>
      BY <1>6, <2>2 DEF L!updatePortPasswd
    <3>2. ASSUME calm PROVE Ports'
      <4>1. Ports /\ p \in DOMAIN portPassword
        BY <2>1, <3>2 DEF PortsInv, Ports
      <4>2. \A q : Done(q)' <=> Done(q) \/ q = p
        BY <2>1, <4>1 DEF Done
      <4>3. p \in DOMAIN bound => bound[p] = pw
        BY <2>2, <4>1 DEF Ports
      <4>4. p \in DOMAIN bound \/ <<p, pw>> \in starting
        BY <2>2, <4>1 DEF Ports
      <4>. QED
        BY <2>1, <3>1, <4>1, <4>2, <4>3, <4>4 DEF Ports
    <3>. QED
      BY <2>1, <3>1, <3>2 DEF PortsInv
  <2>3. CASE ~(p \in DOMAIN table /\ table[p] = pw)
    <3>1. /\ starting' = starting \cup {<<p, pw>>}
          /\ bound' = IF p \in DOMAIN table THEN L!Without(bound, p) ELSE bound
      BY <1>6, <2>3 DEF L!updatePortPasswd
    <3>2. bound' \in L!Configs
      BY <3>1, WithWithout DEF PortsInv
    <3>3. ASSUME calm PROVE Ports'
      <4>1. Ports /\ p \in DOMAIN portPassword
        BY <2>1, <3>3 DEF PortsInv, Ports
      <4>2. \A q : Done(q)' <=> Done(q) \/ q = p
        BY <2>1, <4>1 DEF Done
      <4>3. p \notin DOMAIN table => p \notin DOMAIN bound
        BY <4>1 DEF Ports
      <4>4. DOMAIN bound' = DOMAIN bound \ {p} /\ \A q \in DOMAIN bound' : bound'[q] = bound[q]
        BY <3>1, <4>3 DEF L!Without
      <4>5. \A t \in starting' : Done(t[1])' /\ t[2] = portPassword[t[1]] /\ t[1] \notin DOMAIN bound'
        BY <3>1, <4>1, <4>2, <4>4 DEF Ports
      <4>6. \A q \in DOMAIN table : q \in DOMAIN bound' \/ <<q, portPassword[q]>> \in starting'
        BY <3>1, <4>1, <4>4 DEF Ports
      <4>7. \A q \in Port : Done(q)' => \/ q \in DOMAIN bound' /\ bound'[q] = portPassword[q]
                                        \/ <<q, portPassword[q]>> \in starting'
        BY <3>1, <4>1, <4>2, <4>4 DEF Ports
      <4>. QED
        BY <2>1, <4>1, <4>4, <4>5, <4>6, <4>7 DEF Ports
    <3>4. pw \in Password
      BY <2>1, ConfigsAre DEF PortsInv
    <3>5. starting' \subseteq Port \X Password
      BY <3>1, <3>4 DEF PortsInv
    <3>. QED
      BY <2>1, <3>2, <3>3, <3>5 DEF PortsInv
  <2>. QED
    BY <2>2, <2>3
<1>7. ASSUME NEW p \in Port, L!delPort(p) PROVE PortsInv'
  <2>1. /\ srv = "up" /\ upd = "update" /\ todo = {} /\ p \in oldPorts /\ oldPorts' = oldPorts \ {p}
        /\ UNCHANGED <<srv, portPassword, todo, upd, starting, calm>>
        /\ IF p \in DOMAIN table THEN table' = L!Without(table, p) /\ bound' = L!Without(bound, p)
                                 ELSE UNCHANGED <<table, bound>>
    BY <1>7 DEF L!delPort
  <2>2. bound' \in L!Configs
    <3>1. L!Without(bound, p) \in L!Configs /\ bound \in L!Configs
      BY WithWithout DEF PortsInv
    <3>. QED
      BY <2>1, <3>1
  <2>3. ASSUME calm PROVE Ports'
    <3>1. Ports /\ p \notin DOMAIN portPassword
      BY <2>1, <2>3 DEF PortsInv, Ports
    <3>2. p \notin DOMAIN table => p \notin DOMAIN bound
      BY <3>1 DEF Ports
    <3>3. DOMAIN bound' = DOMAIN bound \ {p} /\ \A q \in DOMAIN bound' : bound'[q] = bound[q]
      BY <2>1, <3>2 DEF L!Without
    <3>4. DOMAIN table' = DOMAIN table \ {p} /\ \A q \in DOMAIN table' : table'[q] = table[q]
      BY <2>1 DEF L!Without
    <3>5. \A q : Done(q)' <=> Done(q)
      BY <2>1 DEF Done
    <3>. QED
      BY <2>1, <3>1, <3>3, <3>4, <3>5 DEF Ports, Done
  <2>. QED
    BY <2>1, <2>2, <2>3 DEF PortsInv
<1>8. CASE L!Updated
  <2>1. ASSUME calm PROVE Ports'
    BY <1>8, <2>1 DEF L!Updated, Ports, Done, PortsInv
  <2>. QED
    BY <1>8, <2>1 DEF L!Updated, PortsInv
<1>. QED
  <2>1. CASE UNCHANGED lvars
    BY <1>1, <2>1 DEF lvars
  <2>2. CASE L!LNext
    BY <1>2, <1>3, <1>4, <1>5, <1>6, <1>7, <1>8, <2>2 DEF L!LNext
  <2>. QED
    BY <2>1, <2>2 DEF Next, vars, lvars

\* After a reload, with all listeners started, exactly the ports of the configuration are
\* bound, each with its password, for any ports, passwords and number of reloads that meet
\* no listener still starting.
THEOREM PortsSettleHolds == Spec => []PortsSettle
<1>1. PortsInv => PortsSettle
  <2> SUFFICES ASSUME PortsInv, srv = "up", calm, upd = "none", starting = {}
               PROVE  bound = portPassword
    BY DEF PortsSettle, L!PortsSettle
  <2>1. /\ bound \in [DOMAIN bound -> Password] /\ DOMAIN bound \subseteq Port
        /\ portPassword \in [DOMAIN portPassword -> Password] /\ DOMAIN portPassword \subseteq Port
    BY ConfigsAre DEF PortsInv
  <2>2. Ports /\ todo = {} /\ oldPorts = {}
    BY DEF PortsInv, Ports
  <2>3. \A p \in DOMAIN portPassword : p \in DOMAIN bound /\ bound[p] = portPassword[p]
    BY <2>1, <2>2 DEF Ports, Done
  <2>4. DOMAIN bound = DOMAIN portPassword
    BY <2>2, <2>3 DEF Ports
  <2>. QED
    BY <2>1, <2>3, <2>4
<1>. QED
    BY <1>1, PortsInit, PortsStep, PTL DEF Spec

=============================================================================
