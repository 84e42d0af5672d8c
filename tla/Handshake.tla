------------------------------ MODULE Handshake ------------------------------
(***************************************************************************)
(* A transport process and the client that starts it: RunService           *)
(* (service/server/entrypoint.go), Check, Parse and Start of the three     *)
(* bundled transports (pkg/transport), the lines they print                *)
(* (service/server/server.go), and initService and the goroutine of the    *)
(* service reading them (service/service.go).  The obfs4 transport runs    *)
(* another copy of the program as its helper (pkg/obfs4proxy).             *)
(*                                                                         *)
(* Lines are their keywords; an option is what the checks tell apart.      *)
(***************************************************************************)
EXTENDS Sequences

VARIABLES
    env,      \* options of the process: transport, remoteaddr, secret, bindaddr
    child,    \* stage of the process
    helper,   \* the helper of obfs4: "none", "starting", "up"
    printed,  \* history: the lines printed so far
    unread,   \* lines in the stdout pipe
    parent,   \* of Start: "reading" (for good if the client dies), "up", "failed"
    response, \* Response["protocol"] is set
    stdin     \* "open" or "closed"

vars == <<env, child, helper, printed, unread, parent, response, stdin>>

Range(s) == {s[i] : i \in DOMAIN s}

Init ==
    /\ env = [transport |-> "unset", remoteaddr |-> "unset", secret |-> "unset", bindaddr |-> "unset"]
    /\ child = "none" /\ helper = "none" /\ printed = <<>> /\ unread = <<>>
    /\ parent = "reading" /\ response = FALSE /\ stdin = "open"

\* NewTransportService, SetBindaddr and initEnv, then cmd.Start.
Launch ==
    /\ child = "none" /\ child' = "check"
    /\ env' \in [transport : {"shadowsocks-client", "obfs4", "socks5", "unknown"},
                 remoteaddr : {"unset", "malformed", "ok"}, secret : {"unset", "text", "json"},
                 bindaddr : {"unset", "malformed", "ok"}]
    /\ UNCHANGED <<helper, printed, unread, parent, response, stdin>>

-----------------------------------------------------------------------------
(* The process *)

\* line, as a suffix of what the process prints.
PrintLines(s) == printed' = printed \o s /\ unread' = unread \o s

Silent == UNCHANGED <<printed, unread>>

ChildOnly == UNCHANGED <<env, parent, response, stdin>>

\* findParser.  With no transport that checks, RunService exits without a line.
findParser ==
    /\ child = "check"
    /\ child' = IF env.transport = "unknown" THEN "gone" ELSE "parse"
    /\ Silent /\ UNCHANGED helper /\ ChildOnly

\* What Parse objects to.
Rejected ==
    CASE env.transport = "shadowsocks-client" ->
            env.bindaddr = "malformed" \/ env.remoteaddr # "ok" \/ env.secret = "unset"
      [] env.transport = "obfs4" -> env.remoteaddr = "unset" \/ env.secret # "json"
      [] OTHER -> FALSE

\* shadowsocks and socks5 print their version first, obfs4 when all is well.
ParseLines ==
    CASE ~Rejected -> <<"VERSION">>
      [] Rejected /\ env.transport = "obfs4" -> <<"ERROR">>
      [] OTHER -> <<"VERSION", "ERROR">>

\* Fault variant of Parse: the error is printed and the process goes on.
ParseOn ==
    /\ child = "parse" /\ PrintLines(ParseLines)
    /\ child' = "start"
    /\ UNCHANGED helper /\ ChildOnly

Parse ==
    /\ child = "parse" /\ PrintLines(ParseLines)
    /\ child' = IF Rejected THEN "gone" ELSE "start"
    /\ UNCHANGED helper /\ ChildOnly

\* The text of the error is not ASCII: formatline panics before it prints the line.
ParsePanics ==
    /\ child = "parse" /\ Rejected /\ child' = "gone"
    /\ IF env.transport = "obfs4" THEN Silent ELSE PrintLines(<<"VERSION">>)
    /\ UNCHANGED helper /\ ChildOnly

\* Start of obfs4 starts its helper and waits for its methods, without a timeout.
StartHelper ==
    /\ child = "start" /\ env.transport = "obfs4" /\ helper = "none"
    /\ helper' = "starting" /\ Silent /\ UNCHANGED child /\ ChildOnly

HelperUp ==
    /\ child = "start" /\ helper = "starting"
    /\ helper' = "up" /\ Silent /\ UNCHANGED child /\ ChildOnly

HelperFails ==
    /\ child = "start" /\ helper = "starting"
    /\ helper' = "none" /\ child' = "gone" /\ PrintLines(<<"ERROR">>) /\ ChildOnly

Ready == child = "start" /\ (env.transport = "obfs4" => helper = "up")

\* net.Listen, for shadowsocks with a second try on any port, and PrintExpose.
Listen ==
    /\ Ready /\ PrintLines(<<"EXPOSE">>) /\ child' = "exposed"
    /\ UNCHANGED helper /\ ChildOnly

\* No port: obfs4 ends with a log line only.
ListenFails ==
    /\ Ready /\ child' = "gone" /\ UNCHANGED helper /\ ChildOnly
    /\ IF env.transport = "obfs4" THEN Silent ELSE PrintLines(<<"ERROR">>)

PrintDone ==
    /\ child = "exposed" /\ child' = "serving"
    /\ PrintLines(<<"DONE">>) /\ UNCHANGED helper /\ ChildOnly

\* Fault variant of Wait: the process goes on when its stdin is closed.
WaitOn == child = "serving" /\ stdin = "closed" /\ UNCHANGED vars

\* Wait returns at the end of stdin; obfs4 then kills its helper.
Wait ==
    /\ child = "serving" /\ stdin = "closed" /\ child' = "gone"
    /\ helper' = "none" /\ Silent /\ ChildOnly

\* log.Fatal in a connection (a failing Dial of obfs4, a failing Accept), a panic, or
\* SIGPIPE at a line when the client is gone.
Dies ==
    /\ child \in {"start", "exposed", "serving"} \/ (child = "parse" /\ stdin = "closed")
    /\ child' = "gone"
    /\ Silent /\ UNCHANGED helper /\ ChildOnly

\* termOnStdinClose of the helper: its stdin is closed with the process.
HelperEnds ==
    /\ child = "gone" /\ helper # "none" /\ helper' = "none"
    /\ Silent /\ UNCHANGED child /\ ChildOnly

-----------------------------------------------------------------------------
(* The client *)

ParentOnly == UNCHANGED <<env, child, helper, printed>>

\* One line of initService.
ReadLine ==
    /\ parent = "reading" /\ stdin = "open" /\ unread # <<>> /\ unread' = Tail(unread)
    /\ parent' = CASE Head(unread) = "ERROR" -> "failed" [] Head(unread) = "DONE" -> "up"
                   [] OTHER -> "reading"
    /\ response' = (response \/ Head(unread) = "EXPOSE")
    /\ UNCHANGED stdin /\ ParentOnly

\* Scan ends with the pipe, and initService returns without an error.
ReadEnd ==
    /\ parent = "reading" /\ stdin = "open" /\ child = "gone" /\ unread = <<>>
    /\ parent' = "up" /\ UNCHANGED <<unread, response, stdin>> /\ ParentOnly

\* Stop: the goroutine of the service closes the pipes; or the client dies, also while it
\* is reading.
CloseStdin ==
    /\ child # "none" /\ stdin = "open" /\ stdin' = "closed"
    /\ UNCHANGED <<unread, parent, response>> /\ ParentOnly

Child  == findParser \/ Parse \/ StartHelper \/ Listen \/ PrintDone \/ Wait \/ HelperEnds
Reader == ReadLine \/ ReadEnd

Next ==
    \/ Launch \/ Child \/ ParsePanics \/ HelperUp \/ HelperFails \/ ListenFails \/ Dies
    \/ Reader \/ CloseStdin

\* The processes go on, but nobody says when a helper answers.
Fairness == WF_vars(Child) /\ WF_vars(Reader)

-----------------------------------------------------------------------------
\* A service that serves is one the client believes in: it has been told no error, and
\* what it calls started has an address.  The exception is a process that ended without
\* a word, which initService takes for started.
HandshakeSound ==
    /\ child = "serving" => parent # "failed" /\ (parent = "up" => response)
    /\ parent = "up" /\ ~response => child = "gone" /\ Range(printed) \subseteq {"VERSION"}
    /\ parent = "failed" => child = "gone"

\* Closing its stdin ends a transport and the helper it may have, also when the client
\* dies in the middle of the handshake.  The exception is a transport that waits for its
\* helper: nothing limits that time, and nobody looks at stdin before its end.
ChildEnds ==
    (stdin = "closed" /\ helper # "starting")
        ~> ((child = "gone" /\ helper = "none") \/ helper = "starting")

=============================================================================
