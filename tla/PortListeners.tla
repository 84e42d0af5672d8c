---------------------------- MODULE PortListeners ----------------------------
(***************************************************************************)
(* The shadowsocks server of the transport (cmd/shadowsocks-server): a     *)
(* listener for every port of its configuration, and the reload of the     *)
(* configuration at SIGHUP.  updatePasswd runs in the goroutine of the     *)
(* signals, one at a time; run starts a goroutine per listener, which      *)
(* takes the port and registers itself later.                              *)
(***************************************************************************)
EXTENDS Naturals, FiniteSets

CONSTANTS
    Port, Password,
    NoFile,      \* a configuration file that does not parse
    MaxReloads   \* bound: SIGHUPs

VARIABLES
    srv,       \* "off", "up", "exited"
    portPassword,  \* config.PortPassword: a function from some ports to passwords
    oldPorts,  \* ports of the old configuration not yet deleted by updatePasswd
    todo,      \* ports updatePasswd has still to visit
    upd,       \* stage of updatePasswd: "none", "update", "close"
    table,     \* passwdManager.portListener: a function from ports to [pw, open]
    starting,  \* goroutines of run before Listen: set of <<port, password>>
    bound,     \* listeners that hold a port: port -> password
    reloads,   \* bound
    handlers,  \* connections being handled, by the port they came in at
    calm       \* history: no reload met a listener still starting, or a file without ports

lvars == <<srv, portPassword, oldPorts, todo, upd, table, starting, bound, reloads, handlers, calm>>

Configs == UNION {[S -> Password] : S \in SUBSET Port}

Without(f, p) == [q \in DOMAIN f \ {p} |-> f[q]]
With(f, p, v) == [q \in DOMAIN f \cup {p} |-> IF q = p THEN v ELSE f[q]]
Empty == [p \in {} |-> 0]

LInit ==
    /\ srv = "off" /\ portPassword = Empty /\ oldPorts = {} /\ todo = {} /\ upd = "none"
    /\ table = Empty /\ starting = {} /\ bound = Empty /\ reloads = 0 /\ handlers = {}
    /\ calm = TRUE

-----------------------------------------------------------------------------
\* unifyPortPassword: an empty table is filled from server_port and password, or refused.
unifyPortPassword(c, single) ==
    IF DOMAIN c # {} THEN c
    ELSE IF single \in Port \X Password THEN [p \in {single[1]} |-> single[2]] ELSE Empty

\* main: a configuration without a port or a file that cannot be read ends the program.
Start(c, single) ==
    LET conf == unifyPortPassword(c, single) IN
    /\ srv = "off"
    /\ IF conf = Empty THEN srv' = "exited" /\ UNCHANGED <<portPassword, starting>>
       ELSE /\ srv' = "up" /\ portPassword' = conf
            /\ starting' = {<<p, conf[p]>> : p \in DOMAIN conf}
    /\ UNCHANGED <<oldPorts, todo, upd, table, bound, reloads, handlers, calm>>

\* run: Listen, and add.  A port that is taken ends the program, other ports with it.
Listen(s) ==
    /\ srv = "up" /\ s \in starting
    /\ IF s[1] \in DOMAIN bound
          THEN srv' = "exited" /\ UNCHANGED <<table, bound, starting>>
          ELSE /\ starting' = starting \ {s} /\ bound' = With(bound, s[1], s[2])
               /\ table' = With(table, s[1], s[2]) /\ UNCHANGED srv
    /\ UNCHANGED <<portPassword, oldPorts, todo, upd, reloads, handlers, calm>>

-----------------------------------------------------------------------------
(* updatePasswd *)

\* It starts with the file: one that does not parse changes nothing, one without a port
\* replaces the configuration and is then given up.
ReadConfig(c) ==
    /\ srv = "up" /\ upd = "none" /\ reloads < MaxReloads /\ reloads' = reloads + 1
    /\ IF c = NoFile THEN UNCHANGED <<portPassword, oldPorts, todo, upd>>
       ELSE /\ portPassword' = c
            /\ IF c = Empty THEN UNCHANGED <<oldPorts, todo, upd>>
               ELSE oldPorts' = DOMAIN portPassword /\ todo' = DOMAIN c /\ upd' = "update"
    /\ UNCHANGED <<srv, table, starting, bound, handlers>>
    /\ calm' = (calm /\ starting = {} /\ c # Empty)

\* Fault variant of updatePortPasswd: the listener of the old password is not closed.
updateInPlace(p) ==
    LET pw == portPassword[p] IN
    /\ srv = "up" /\ upd = "update" /\ p \in todo
    /\ todo' = todo \ {p} /\ oldPorts' = oldPorts \ {p}
    /\ IF p \in DOMAIN table THEN table' = With(table, p, pw) /\ UNCHANGED starting
                             ELSE starting' = starting \cup {<<p, pw>>} /\ UNCHANGED table
    /\ UNCHANGED <<srv, portPassword, upd, bound, reloads, handlers, calm>>

\* updatePortPasswd: the table, not the listeners, tells what is there.  The entry of a
\* closed listener stays until run replaces it.
updatePortPasswd(p) ==
    LET pw == portPassword[p] IN
    /\ srv = "up" /\ upd = "update" /\ p \in todo
    /\ todo' = todo \ {p} /\ oldPorts' = oldPorts \ {p}
    /\ IF p \in DOMAIN table /\ table[p] = pw THEN UNCHANGED <<bound, starting>>
       ELSE /\ starting' = starting \cup {<<p, pw>>}
            /\ bound' = IF p \in DOMAIN table THEN Without(bound, p) ELSE bound
    /\ UNCHANGED <<srv, portPassword, upd, table, reloads, handlers, calm>>

\* The second loop: del of every port the new configuration does not have.
delPort(p) ==
    /\ srv = "up" /\ upd = "update" /\ todo = {} /\ p \in oldPorts
    /\ oldPorts' = oldPorts \ {p}
    /\ IF p \in DOMAIN table THEN table' = Without(table, p) /\ bound' = Without(bound, p)
                             ELSE UNCHANGED <<table, bound>>
    /\ UNCHANGED <<srv, portPassword, todo, upd, starting, reloads, handlers, calm>>

Updated ==
    /\ srv = "up" /\ upd = "update" /\ todo = {} /\ oldPorts = {} /\ upd' = "none"
    /\ UNCHANGED <<srv, portPassword, oldPorts, todo, table, starting, bound, reloads, handlers, calm>>

-----------------------------------------------------------------------------
(* Connections go on when their listener is closed. *)

\* getRequest: a type that is not known or a peer that is gone ends the connection; the end
\* of a name is computed in a byte, and a slice that ends before it starts is a panic.
getRequest(type, length) ==
    IF type \notin {1, 3, 4} THEN "error" ELSE IF type = 3 /\ (2 + length) % 256 < 2 THEN "panic" ELSE "host"

\* A connection of a listener: its request, the dial of the host, the pipes.
handleConnection(p) ==
    /\ srv = "up" /\ p \in DOMAIN bound /\ p \notin handlers
    /\ \E type \in {1, 3, 9}, length \in {0, 250, 255} :
          CASE getRequest(type, length) = "error" -> UNCHANGED <<srv, handlers>>
            [] getRequest(type, length) = "panic" -> srv' = "exited" /\ UNCHANGED handlers
            [] OTHER -> handlers' = handlers \cup {p} /\ UNCHANGED srv
    /\ UNCHANGED <<portPassword, oldPorts, todo, upd, table, starting, bound, reloads, calm>>

\* The dial failed, or both pipes are closed.
Handled(p) ==
    /\ srv = "up" /\ p \in handlers /\ handlers' = handlers \ {p}
    /\ UNCHANGED <<srv, portPassword, oldPorts, todo, upd, table, starting, bound, reloads, calm>>

LNext ==
    \/ \E c \in Configs, single \in Port \X Password \cup {<<>>} : Start(c, single)
    \/ \E s \in Port \X Password : Listen(s)
    \/ \E c \in Configs \cup {NoFile} : ReadConfig(c)
    \/ \E p \in Port : updatePortPasswd(p) \/ delPort(p) \/ handleConnection(p) \/ Handled(p)
    \/ Updated

-----------------------------------------------------------------------------
\* A reload that is over, with all its listeners started, has left exactly the ports of
\* the configuration, each with its password: also when ports are added, removed and given
\* another password at once, and by several reloads after each other.  (A reload while a
\* listener is still starting, and a file without ports, can leave others: the table is
\* what a reload goes by.)
PortsSettle ==
    srv = "up" /\ calm /\ upd = "none" /\ starting = {} => bound = portPassword

=============================================================================
