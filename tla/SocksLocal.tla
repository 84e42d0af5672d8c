----------------------------- MODULE SocksLocal ------------------------------
(***************************************************************************)
(* The SOCKS end of shadowsocks: the shadowsocks-client transport          *)
(* (transport/shadowsocks) and the command it was taken from               *)
(* (cmd/shadowsocks-local), which have the same handShake, getRequest,     *)
(* parseServerConfig and createServerConn.                                 *)
(*                                                                         *)
(* What a browser sends is a record of what the code tests in it; where    *)
(* the first read cuts a message is a free choice.  The counters of failed *)
(* servers have no lock: an increment is a read and a later write.         *)
(***************************************************************************)
EXTENDS Naturals, Sequences, FiniteSets

CONSTANTS
    NumServers,  \* servers in the configuration
    SReq,        \* connections of browsers
    MaxFailCnt,  \* maxFailCnt
    MaxChanges   \* bound: times a server goes up or down

VARIABLES
    program,  \* "off", "transport", "local", "exited" or "panicked"
    decodes,  \* getRequest decodes the host: always in the transport, in debug mode in local
    failCnt,  \* servers.failCnt
    up,       \* servers that answer
    changes,  \* bound: changes of up so far
    sreq      \* SReq -> state of the goroutine of a connection

svars == <<program, decodes, failCnt, up, changes, sreq>>

Servers == 1..NumServers

\* What a browser sends: a version, a command, an address (3: a name of some length, 9: no
\* known type) and whether more bytes follow at once.
Polite  == [version |-> 5, command |-> 1, type |-> 3, length |-> 250, extra |-> FALSE]
Sayings == {Polite, [Polite EXCEPT !.version = 4], [Polite EXCEPT !.extra = TRUE],
            [Polite EXCEPT !.command = 2], [Polite EXCEPT !.type = 9], [Polite EXCEPT !.length = 251]}

Idle == [at |-> "new", says |-> Polite, todo |-> [i \in 1..NumServers |-> i], skipped |-> <<>>,
         loop |-> 1, tried |-> {}, count |-> <<1, 0>>]

SInit ==
    /\ program = "off" /\ decodes = FALSE /\ failCnt = [i \in Servers |-> 0]
    /\ up = Servers /\ changes = 0 /\ sreq = [r \in SReq |-> Idle]

-----------------------------------------------------------------------------
(* Start *)

\* Server lines of server_password: without a port, or with a field too few, it is fatal;
\* so is a cipher that cannot be made.
parseServerConfig(fine) == program' = IF fine THEN "local" ELSE "exited"

\* main of shadowsocks-local.  A file that cannot be read (other than one that is missing)
\* and options that are not enough end the program.
Main ==
    /\ program = "off"
    /\ \E file \in {"missing", "broken", "read"}, enough, fine, debug \in BOOLEAN :
          /\ decodes' = debug
          /\ IF file = "broken" \/ ~enough THEN program' = "exited" ELSE parseServerConfig(fine)
    /\ UNCHANGED <<failCnt, up, changes, sreq>>

\* Start of the transport: its one configuration comes from Parse.
StartTransport ==
    /\ program = "off" /\ program' = "transport" /\ decodes' = TRUE
    /\ UNCHANGED <<failCnt, up, changes, sreq>>

Running == program \in {"transport", "local"}

-----------------------------------------------------------------------------
(* One connection *)

At(r, a) == Running /\ sreq[r].at = a
Go(r, a) == sreq' = [sreq EXCEPT ![r].at = a]
ConnOnly == UNCHANGED <<program, decodes, failCnt, up, changes>>

\* The accept loop.
Accept(r) ==
    /\ At(r, "new")
    /\ \E s \in Sayings : sreq' = [sreq EXCEPT ![r].at = "greeting", ![r].says = s]
    /\ ConnOnly

\* handShake, first read: n bytes of the msgLen the greeting has.  A version other than 5
\* is refused, and so are bytes after the greeting, if the read has them.
handShake(r) ==
    LET s == sreq[r].says IN
    /\ At(r, "greeting")
    /\ IF s.version # 5 THEN Go(r, "closed")
       ELSE Go(r, "rest") \/ Go(r, "request") \/ (s.extra /\ Go(r, "closed"))
    /\ ConnOnly

\* ReadFull of the rest of the greeting; the peer may be gone.
readRest(r) ==
    /\ At(r, "rest") /\ (Go(r, "request") \/ Go(r, "closed")) /\ ConnOnly

\* idDm0 + buf[idDmLen] is computed in a byte.
HostEnd(length) == (5 + length) % 256

Panics(s) == decodes /\ s.type = 3 /\ HostEnd(s.length) < 5

\* getRequest, and the confirmation that is sent before any server is asked.  It fails for
\* more bytes than the request has, and when the peer is gone.
getRequest(r) ==
    LET s == sreq[r].says IN
    /\ At(r, "request")
    /\ IF s.command # 1 \/ s.type \notin {1, 3, 4} THEN Go(r, "closed") /\ ConnOnly
       ELSE IF Panics(s) THEN /\ program' = "panicked"
                              /\ UNCHANGED <<decodes, failCnt, up, changes, sreq>>
       ELSE (Go(r, "choose") \/ Go(r, "closed")) /\ ConnOnly

-----------------------------------------------------------------------------
(* createServerConn *)

Trying(r) == At(r, "choose") /\ sreq[r].todo # <<>>

\* The first loop: a server that has failed before is skipped but for luck.
Skip(r) ==
    LET i == Head(sreq[r].todo) IN
    /\ Trying(r) /\ sreq[r].loop = 1 /\ failCnt[i] > 0
    /\ sreq' = [sreq EXCEPT ![r].todo = Tail(@), ![r].skipped = Append(@, i)]
    /\ ConnOnly

\* connectToServer.  A server that answers has its counter reset; for one that does not the
\* counter is tested against maxFailCnt and read.
connectToServer(r) ==
    LET i == Head(sreq[r].todo) IN
    /\ Trying(r)
    /\ IF i \in up
          THEN /\ failCnt' = [failCnt EXCEPT ![i] = 0]
               /\ Go(r, "piping")
          ELSE /\ sreq' = [sreq EXCEPT ![r].todo = Tail(@), ![r].tried = @ \cup {i},
                                       ![r].count = <<i, failCnt[i]>>,
                                       ![r].at = IF failCnt[i] < MaxFailCnt THEN "count" ELSE @]
               /\ UNCHANGED failCnt
    /\ UNCHANGED <<program, decodes, up, changes>>

\* failCnt[serverId]++: the write.
Increment(r) ==
    /\ At(r, "count") /\ Go(r, "choose")
    /\ failCnt' = [failCnt EXCEPT ![sreq[r].count[1]] = sreq[r].count[2] + 1]
    /\ UNCHANGED <<program, decodes, up, changes>>

\* Fault variant of lastResort: the servers that were skipped are not tried again.
giveUp(r) ==
    /\ At(r, "choose") /\ sreq[r].todo = <<>> /\ Go(r, "failed") /\ ConnOnly

\* The end of a loop: after the first one the skipped servers, after the second an error.
lastResort(r) ==
    LET q == sreq[r] IN
    /\ At(r, "choose") /\ q.todo = <<>>
    /\ IF q.loop = 1 THEN sreq' = [sreq EXCEPT ![r].loop = 2, ![r].todo = q.skipped]
                     ELSE Go(r, "failed")
    /\ ConnOnly

\* PipeThenClose ends: both ends are closed.
Piped(r) == At(r, "piping") /\ Go(r, "closed") /\ ConnOnly

ServerChanges(i) ==
    /\ Running /\ changes < MaxChanges /\ changes' = changes + 1
    /\ up' = IF i \in up THEN up \ {i} ELSE up \cup {i}
    /\ UNCHANGED <<program, decodes, failCnt, sreq>>

SNext ==
    \/ Main \/ StartTransport
    \/ \E r \in SReq : \/ Accept(r) \/ handShake(r) \/ readRest(r) \/ getRequest(r) \/ Skip(r)
                       \/ connectToServer(r) \/ Increment(r) \/ lastResort(r) \/ Piped(r)
    \/ \E i \in Servers : ServerChanges(i)

-----------------------------------------------------------------------------
\* A request that was confirmed to the browser fails only if every server refused it once,
\* also when it was skipped at first, whatever the other requests do to the counters.
ReachableServes == \A r \in SReq : sreq[r].at = "failed" => sreq[r].tried = Servers

=============================================================================
