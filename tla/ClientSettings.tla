---------------------------- MODULE ClientSettings ----------------------------
(***************************************************************************)
(* The client's configuration: currentConfig in memory, settings.json on   *)
(* disk, and the copies the connection manager and the PAC generator hold  *)
(* (pkg/client/internal/config, pkg/client/client.go, the settings calls   *)
(* of pkg/client/api.go, upgradeBlockList, pkg/pac).  The client starts,   *)
(* serves calls, exits or crashes at any time, and starts again from what  *)
(* the file holds.                                                         *)
(*                                                                         *)
(* A connection is its ID, the hash of its content; a connection string    *)
(* may also carry disabled and protected, though Encode writes neither.    *)
(* Language and the automatic update switches behave like CountryCode.     *)
(***************************************************************************)
EXTENDS Naturals, FiniteSets

CONSTANTS Shipped1,    \* connections the migration from version 1 adds
          Withdrawn,   \* the one of them the migration from version 5 removes
          Shipped5,    \* connections the migration from version 5 adds
          Retired,     \* connections the migration from version 2 removes
          UserConn,    \* connections a user may type in
          Week,        \* ISO weeks the clock may show
          Host,        \* hosts a list may name
          Api,         \* REST calls that may run at the same time
          MaxCalls,    \* bound: REST calls
          MaxStarts    \* bound: starts of the client

Conn == Shipped1 \cup Shipped5 \cup Retired \cup UserConn

ASSUME ConnAssumption ==
    /\ Withdrawn \subseteq Shipped1 /\ Shipped1 \ Withdrawn # {} /\ Shipped5 # {}
    /\ Shipped1 \cap Shipped5 = {} /\ Retired \cap (Shipped1 \cup Shipped5) = {}
ASSUME SettingsBounds == /\ MaxCalls \in Nat /\ MaxStarts \in Nat /\ Week \subseteq Nat
                         /\ Api \cap {"upgrader", "main", "exit"} = {}

\* Callers of Write: the REST calls, the block list upgrader, the start, the exit.
Caller == Api \cup {"upgrader", "main", "exit"}

VARIABLES
    pc,        \* the goroutine of Run
    exiting,   \* exit is running, in the goroutine of the quit signals
    mem,       \* currentConfig.Settings
    lists,     \* BlockedHostsCentral and BlockedHosts
    file,      \* settings.json: absent, torn (truncated) or whole
    snap,      \* conf, the copy Run takes with Get before it starts the services
    manager,   \* enabled connections of the connection manager
    pac,       \* hosts of the PAC script's blocked list
    call,      \* Caller -> "idle", "write" (about to call Write), "torn" (in WriteFile)
    bytes,     \* what a caller inside WriteFile has marshalled
    ask,       \* the upgrader's request: what it read and was answered
    calls, starts,
    \* history variables: read by properties only
    early,     \* "conns", "hosts": changed between Get and the use of the copy
    unsaved,   \* the last Write failed
    torn,      \* the file was torn when the client went down
    ackSetup,  \* a call that set the country has returned after a good Write
    bare       \* nothing is enabled: the start found it so, or a disabled connection
               \* replaced the last enabled one

run     == <<pc, exiting>>
bounds  == <<calls, starts>>
history == <<early, unsaved, torn, ackSetup, bare>>
vars == <<run, mem, lists, file, snap, manager, pac, call, bytes, ask, bounds, history>>

Flags  == [disabled : BOOLEAN, protected : BOOLEAN]
Locked == [disabled |-> FALSE, protected |-> TRUE]

\* type Settings; connections by ID, the order of the list is never read.  Version 7 is
\* any that a later client writes.
Settings == [version : 0 .. 7, lastID : 0 .. 3, setup : BOOLEAN,
             addr : {"none", "beta", "default"}, key : BOOLEAN,
             conns : UNION {[S -> Flags] : S \in SUBSET Conn}]

Enabled(conns) == {c \in DOMAIN conns : ~conns[c].disabled}

\* settingsTemplate: what Read falls back on.
Template == [version |-> 0, lastID |-> 0, setup |-> FALSE, addr |-> "none", key |-> FALSE,
             conns |-> <<>>]

Whole(s) == [st |-> "whole", data |-> s]
Absent   == [st |-> "absent", data |-> Template]
Torn     == [st |-> "torn", data |-> Template]
NoAsk    == [st |-> "none", id |-> 0, savedID |-> 0, hosts |-> {}]

-----------------------------------------------------------------------------
(* Migrations *)

\* Fault variant of ModifyConnections: a replacement is added only to an empty list.
ModifyRarely(conns, remove, add, protect) ==
    [c \in IF conns = <<>> THEN add ELSE DOMAIN conns \ remove |->
        IF c \in DOMAIN conns THEN conns[c] ELSE Locked]

\* modifyConnections.Update: remove, add what is not there, protect.
ModifyConnections(conns, remove, add, protect) ==
    LET kept == DOMAIN conns \ remove
    IN  [c \in kept \cup add |->
            IF c \notin kept THEN Locked
            ELSE IF c \in protect THEN [conns[c] EXCEPT !.protected = TRUE]
            ELSE conns[c]]

\* One case of the switch in UpgradeConfig; every case falls through.  Version 6 stays, and
\* a version from the future is only logged.
Case(s) ==
    CASE s.version = 0 -> [s EXCEPT !.version = 1, !.addr = "default"]
      [] s.version = 1 -> [s EXCEPT !.version = 2,
                              !.conns = ModifyConnections(@, {}, Shipped1, {})]
      [] s.version = 2 -> [s EXCEPT !.version = 3,
                              !.conns = ModifyConnections(@, Retired, {}, Shipped1)]
      [] s.version = 3 -> [s EXCEPT !.version = 4, !.key = TRUE]
      [] s.version = 4 -> [s EXCEPT !.version = 5,
                              !.addr = IF @ = "beta" THEN "default" ELSE @]
      [] s.version = 5 -> [s EXCEPT !.version = 6,
                              !.conns = ModifyConnections(@, Withdrawn, Shipped5, {})]
      [] OTHER -> s

\* The switch from the version of the file to the end.
UpgradeConfig(s) ==
    LET v[n \in 0 .. 6] == IF n = 0 THEN s ELSE Case(v[n - 1]) IN v[6]

\* What other clients may have left: the connections their version had shipped, or also
\* the one that was shipped later, typed in; or an emptied list.  Any of them may be
\* disabled; version 1 shipped none of today's.
OldFiles ==
    LET ids(v) == CASE v = 1 -> {Retired}
                    [] v = 2 -> {Retired \cup Shipped1}
                    [] v = 5 -> {Shipped1, Shipped1 \cup Shipped5}
                    [] OTHER -> {(Shipped1 \ Withdrawn) \cup Shipped5, {}}
        left(v, on, off) == [Template EXCEPT !.version = v, !.setup = TRUE, !.key = v > 3,
                               !.addr = IF v < 5 THEN "beta" ELSE "default",
                               !.conns = [c \in on \cup off |->
                                             [disabled |-> c \in off, protected |-> v > 2]]]
    IN  UNION {UNION {{left(v, l \ off, off) : off \in SUBSET l} : l \in ids(v)}
                  : v \in {1, 2, 5, 6, 7}}

-----------------------------------------------------------------------------
Idle == [c \in Caller |-> "idle"]
NoSnap == [conns |-> <<>>, shared |-> FALSE, hosts |-> {}]
NoHosts == [central |-> {}, local |-> {}]

\* Every variable keeps its type; a caller inside WriteFile implies a running client.
TypeOK ==
    /\ pc \in {"down", "read", "upgraded", "served", "listed", "up"}
    /\ mem \in Settings /\ file \in [st : {"absent", "torn", "whole"}, data : Settings]
    /\ lists \in [central : SUBSET Host, local : SUBSET Host] /\ pac \subseteq Host
    /\ manager \subseteq Conn
    /\ call \in [Caller -> {"idle", "write", "torn"}]
    /\ exiting \in BOOLEAN /\ (pc = "down" => call = Idle /\ ~exiting)

Init ==
    /\ pc = "down" /\ exiting = FALSE /\ mem = Template /\ lists = NoHosts
    /\ file \in {Absent} \cup {Whole(s) : s \in OldFiles}
    /\ snap = NoSnap
    /\ manager = {} /\ pac = {} /\ call = Idle /\ ask = NoAsk
    /\ bytes = [c \in Caller |-> Template]
    /\ calls = 0 /\ starts = 0
    /\ early = {} /\ unsaved = FALSE /\ torn = FALSE /\ bare = FALSE
    /\ ackSetup = (file # Absent)

-----------------------------------------------------------------------------
(* Writing the file.  Write holds the read lock, Update the write lock: a    *)
(* change has to wait until nobody is inside WriteFile, two Writes overlap.  *)

\* Fault variant of CanUpdate: no lock.
NoLock == TRUE

CanUpdate == \A c \in Caller : call[c] # "torn"

\* json.MarshalIndent, then ioutil.WriteFile opens and truncates the file.
Truncate(c) ==
    /\ call[c] = "write"
    /\ bytes' = [bytes EXCEPT ![c] = mem]
    /\ file' = Torn /\ call' = [call EXCEPT ![c] = "torn"]
    /\ UNCHANGED <<mem, lists, snap, manager, pac, ask, history, bounds, run>>

\* ... and writes what was marshalled.
Save(c) ==
    /\ call[c] = "torn"
    /\ file' = Whole(bytes[c]) /\ bytes' = [bytes EXCEPT ![c] = Template]
    /\ unsaved' = FALSE /\ ackSetup' = (bytes[c].setup \/ ackSetup)
    /\ call' = [call EXCEPT ![c] = "idle"]
    /\ ask' = IF c = "upgrader" THEN [ask EXCEPT !.st = "saved"] ELSE ask
    /\ UNCHANGED <<mem, lists, snap, manager, pac, early, torn, bare, bounds, run>>

\* The file cannot be opened, or it cannot be written after it was truncated: it stays
\* torn, unless another Write has filled it since (with the same settings).  The error is
\* logged, upgradeBlockList returns it, and the client goes on.
WriteFails(c) ==
    /\ call[c] \in {"write", "torn"}
    /\ call' = [call EXCEPT ![c] = "idle"] /\ bytes' = [bytes EXCEPT ![c] = Template]
    /\ unsaved' = TRUE
    /\ ask' = IF c = "upgrader" THEN NoAsk ELSE ask
    /\ UNCHANGED <<mem, lists, file, snap, manager, pac, early, torn, ackSetup, bare,
                   bounds, run>>

-----------------------------------------------------------------------------
(* Start *)

\* Fault variant of readSettings: a file of an older version is not migrated but reset.
ResetOld == IF file.data.version < 6 THEN Template ELSE file.data

readSettings == IF file.st = "whole" THEN file.data ELSE Template

\* Read: the file if it can be read and parses.  One that does not parse is removed, if
\* that succeeds; one that cannot be read is left, until the next Write replaces it.  The
\* host files are not written by this version, so both lists start empty.
Read ==
    /\ pc = "down" /\ starts < MaxStarts
    /\ \E readable \in BOOLEAN :
           /\ mem' = IF readable THEN readSettings ELSE Template
           /\ ackSetup' = (ackSetup /\ ~torn /\ readable)
    /\ file' \in IF file = Torn THEN {Absent, Torn} ELSE {file}
    /\ torn' = FALSE
    /\ starts' = starts + 1 /\ pc' = "read"
    /\ UNCHANGED <<exiting, lists, pac, manager, early, unsaved, bare, snap, call, ask,
                   bytes, calls>>

\* Files in which UpgradeConfig enables nothing.
NothingToAdd(s) == s.version < 6 => Shipped5 \subseteq DOMAIN s.conns

\* UpgradeConfig, the flags that override an address or the key (and count as such), and
\* Write if either changed anything.
Upgrade ==
    /\ pc = "read"
    /\ \E flag \in BOOLEAN :
           /\ mem' = UpgradeConfig(mem)
           /\ call' = [call EXCEPT !["main"] =
                          IF flag \/ mem.version < 6 THEN "write" ELSE "idle"]
    /\ bare' = (NothingToAdd(mem) /\ Enabled(mem'.conns) = {})
    /\ pc' = "upgraded"
    /\ UNCHANGED <<exiting, lists, file, snap, manager, pac, ask, bytes, early, unsaved,
                   torn, ackSetup, bounds>>

\* conf := clientconfig.Get(): the struct is copied, the connections' array is shared.
\* From here on quit signals and, as soon as the HTTP server listens, calls are served.
Serve ==
    /\ pc = "upgraded" /\ call["main"] = "idle"
    /\ snap' = [conns |-> mem.conns, shared |-> TRUE, hosts |-> lists.central \cup lists.local]
    /\ pc' = "served"
    /\ UNCHANGED <<exiting, mem, lists, file, manager, pac, call, ask, bytes, history,
                   bounds>>

\* service.UpdateConnections with the copy.
StartManager ==
    /\ pc = "served"
    /\ manager' = Enabled(snap.conns)
    /\ pc' = "listed"
    /\ UNCHANGED <<exiting, mem, lists, file, snap, pac, call, ask, bytes, history,
                   bounds>>

\* pac.UpdateBlockedList with the copy; then the upgraders are started.
StartPac ==
    /\ pc = "listed"
    /\ pac' = snap.hosts /\ pc' = "up" /\ snap' = NoSnap
    /\ UNCHANGED <<exiting, mem, lists, file, manager, call, ask, bytes, history, bounds>>

-----------------------------------------------------------------------------
(* REST calls: Update, then Write, each under its own lock *)

Serving == pc \in {"served", "listed", "up"}

Called(a) ==
    /\ Serving /\ call[a] = "idle" /\ calls < MaxCalls /\ CanUpdate
    /\ calls' = calls + 1

\* An update of the list in place: the copy sees it while it shares the array.
InPlace(conns, maybeBare) ==
    /\ mem' = [mem EXCEPT !.conns = conns]
    /\ bare' = (maybeBare /\ Enabled(conns) = {})
    /\ snap' = IF snap.shared THEN [snap EXCEPT !.conns = conns] ELSE snap
    /\ early' = IF pc # "served" THEN early \ {"conns"}
                ELSE IF snap.shared THEN early ELSE early \cup {"conns"}
    /\ manager' = Enabled(conns)

\* A new list: a copy that has not been used yet is stale.  Appending may or may
\* not move the array.
NewList(conns, moved) ==
    /\ mem' = [mem EXCEPT !.conns = conns]
    /\ bare' = (bare /\ Enabled(conns) = {})
    /\ snap' = IF moved THEN [snap EXCEPT !.shared = FALSE] ELSE snap
    /\ early' = IF pc = "served" THEN early \cup {"conns"} ELSE early \ {"conns"}
    /\ manager' = Enabled(conns)

\* One connection must stay enabled.
MayDisable(id) == mem.conns[id].disabled \/ Cardinality(Enabled(mem.conns)) >= 2

ToggleConnection(id) ==
    /\ id \in DOMAIN mem.conns /\ MayDisable(id)
    /\ InPlace([mem.conns EXCEPT ![id].disabled = ~@], bare)

MayDelete(id) == ~mem.conns[id].protected /\ Enabled(mem.conns) \ {id} # {}

\* Fault variant of DeleteConnection: the connection manager is not told.
DeleteQuietly(id) ==
    /\ id \in DOMAIN mem.conns /\ MayDelete(id)
    /\ mem' = [mem EXCEPT !.conns = [c \in DOMAIN mem.conns \ {id} |-> mem.conns[c]]]
    /\ snap' = [snap EXCEPT !.shared = FALSE]
    /\ UNCHANGED <<early, manager, bare>>

DeleteConnection(id) ==
    /\ id \in DOMAIN mem.conns /\ MayDelete(id)
    /\ NewList([c \in DOMAIN mem.conns \ {id} |-> mem.conns[c]], TRUE)

\* PostConnection without an ID: a new connection is appended, with the flags of its string.
AddConnection(c, flags) ==
    /\ c \notin DOMAIN mem.conns
    /\ \E moved \in BOOLEAN :
           NewList([d \in DOMAIN mem.conns \cup {c} |->
                       IF d = c THEN flags ELSE mem.conns[d]], moved)

\* PostConnection with the ID of a connection: it is replaced where it stands, protected
\* or not, and by a disabled one too.
ReplaceConnection(id, c, flags) ==
    /\ id \in DOMAIN mem.conns /\ c \notin DOMAIN mem.conns
    /\ InPlace([d \in (DOMAIN mem.conns \ {id}) \cup {c} |->
                   IF d = c THEN flags ELSE mem.conns[d]], bare \/ flags.disabled)

\* A refused call changes nothing; the file is written all the same.
Refused == UNCHANGED <<mem, snap, early, manager, bare>>

ConnectionCall(a) ==
    /\ Called(a)
    /\ call' = [call EXCEPT ![a] = "write"]
    /\ \/ \E id \in Conn : ToggleConnection(id) \/ DeleteConnection(id)
       \/ \E c \in UserConn, flags \in Flags :
              AddConnection(c, flags) \/ \E id \in Conn : ReplaceConnection(id, c, flags)
       \/ Refused
    /\ UNCHANGED <<lists, file, pac, ask, bytes, starts, unsaved, torn, ackSetup, run>>

\* PostUserSettings: any country is taken, "__" too, which stands for none; Write if
\* something changed.
PostUserSettings(a) ==
    /\ Called(a)
    /\ \E set \in BOOLEAN :
           mem' = [mem EXCEPT !.setup = set] /\ ackSetup' = (ackSetup /\ set)
    /\ call' = [call EXCEPT ![a] = "write"]
    /\ UNCHANGED <<lists, file, snap, manager, pac, ask, bytes, starts, early, unsaved, torn,
                   bare, run>>

\* The end of SubmitSuggestion: the host joins the local list and the PAC script.
AddBlockedHost(a, h) ==
    /\ Called(a)
    /\ lists' = [lists EXCEPT !.local = @ \cup {h}]
    /\ pac' = lists'.central \cup lists'.local
    /\ early' = IF pc # "up" THEN early \cup {"hosts"} ELSE early \ {"hosts"}
    /\ UNCHANGED <<mem, file, snap, manager, call, ask, bytes, starts, unsaved, torn,
                   ackSetup, bare, run>>

-----------------------------------------------------------------------------
(* upgradeBlockList *)

NowID(week) == (week % 3) + 1

\* The request: the configuration is copied, a new ID is sent if the week's differs.
AskCentral ==
    /\ pc = "up" /\ ask = NoAsk /\ mem.setup
    /\ \E week \in Week :
           ask' = [st |-> "asked", id |-> NowID(week), savedID |-> mem.lastID, hosts |-> {}]
    /\ UNCHANGED <<mem, lists, file, snap, manager, pac, call, bytes, history, bounds,
                   run>>

\* The answer; an error ends the update with nothing changed.
Answer(hosts) ==
    /\ Serving /\ ask.st = "asked"
    /\ ask' = [ask EXCEPT !.hosts = hosts, !.st = IF ask.id = ask.savedID THEN "saved" ELSE "got"]
    /\ UNCHANGED <<mem, lists, file, snap, manager, pac, call, bytes, history, bounds,
                   run>>
AnswerError ==
    /\ Serving /\ ask.st = "asked"
    /\ ask' = NoAsk
    /\ UNCHANGED <<mem, lists, file, snap, manager, pac, call, bytes, history, bounds,
                   run>>

\* LastID is updated, then written.
SaveID ==
    /\ Serving /\ ask.st = "got"
    /\ call["upgrader"] = "idle" /\ CanUpdate
    /\ mem' = [mem EXCEPT !.lastID = ask.id]
    /\ call' = [call EXCEPT !["upgrader"] = "write"]
    /\ UNCHANGED <<lists, file, snap, manager, pac, ask, bytes, history, bounds, run>>

\* Fault variant of BlockedList: the hosts the user suggested are left out.
CentralOnly == lists'.central

\* pac.UpdateBlockedList of both lists ("alkasir.com" is always in front).
BlockedList == lists'.central \cup lists'.local

\* The new list replaces the old one, and the PAC script follows.
UpdateHosts ==
    /\ Serving /\ ask.st = "saved"
    /\ CanUpdate
    /\ lists' = [lists EXCEPT !.central = ask.hosts]
    /\ pac' = IF ask.hosts = lists.central THEN pac ELSE BlockedList
    /\ ask' = NoAsk
    /\ UNCHANGED <<mem, file, snap, manager, call, bytes, history, bounds, run>>

-----------------------------------------------------------------------------
(* Exit and crash *)

\* exit: atexitMu is taken and kept; the settings are written once more.
Exit ==
    /\ Serving /\ ~exiting
    /\ exiting' = TRUE /\ call' = [call EXCEPT !["exit"] = "write"]
    /\ UNCHANGED <<pc, mem, lists, file, snap, manager, pac, bytes, ask, history, bounds>>

Down ==
    /\ pc' = "down" /\ exiting' = FALSE /\ mem' = Template /\ call' = Idle /\ ask' = NoAsk
    /\ torn' = (file = Torn)
    /\ bytes' = [c \in Caller |-> Template] /\ lists' = NoHosts /\ snap' = NoSnap
    /\ manager' = {} /\ pac' = {} /\ early' = {} /\ unsaved' = FALSE /\ bare' = FALSE
    /\ UNCHANGED <<file, ackSetup, bounds>>

\* The services are stopped, each under a timeout; os.Exit(0) ends what still runs.
ExitDone == exiting /\ call["exit"] = "idle" /\ Down

\* Among others: a connection manager that starts with an empty list panics.
Crash == pc # "down" /\ starts < MaxStarts /\ Down

Start  == Read \/ Upgrade \/ Serve \/ StartManager \/ StartPac
Writer == \E c \in Caller : Truncate(c) \/ Save(c) \/ WriteFails(c)
Calls  == \E a \in Api : \/ ConnectionCall(a) \/ PostUserSettings(a)
                         \/ \E h \in Host : pc # "served" /\ AddBlockedHost(a, h)
Update == AskCentral \/ (\E h \in SUBSET Host : Answer(h)) \/ AnswerError \/ SaveID \/ UpdateHosts

Next == Start \/ Writer \/ Calls \/ Update \/ Exit \/ ExitDone \/ Crash

Spec == Init /\ [][Next]_vars

-----------------------------------------------------------------------------
(* Properties *)

\* From UpgradeConfig on, whatever file was found and whatever calls followed, the
\* settings are current, with a server address and an authentication key, or those of a
\* future version as they were found; and a connection is enabled, which neither
\* migrations nor switching nor deleting may change, but in the cases of bare: the start
\* found a list with nothing enabled to which no migration adds anything, or the last
\* enabled connection was replaced by a disabled one.
SettingsReady ==
    Serving => /\ (mem.version = 6 /\ mem.key /\ mem.addr = "default") \/ mem.version = 7
               /\ Enabled(mem.conns) # {} \/ bare

\* "one connection must be enabled" (pkg/client/api.go:230): the code does not see to it.
\* A connection manager that starts without one panics.
OneEnabled == Serving => Enabled(mem.conns) # {}

\* The connection manager works with exactly the enabled connections, except after a
\* call that was served before Run used its copy of the list (it waits 200 ms).
ManagerInSync ==
    pc \in {"listed", "up"} /\ "conns" \notin early => manager = Enabled(mem.conns)

\* The PAC script names the hosts of both lists, however suggestions and block list
\* updates interleave; the same exception for the copy.
PacInSync == pc = "up" /\ "hosts" \notin early => pac = lists.central \cup lists.local

\* Update and Write are two critical sections, and Writes overlap; still, when no call
\* is between them and the last Write went well, the file holds the settings.
FileCurrent ==
    Serving /\ ~unsaved /\ (\A c \in Caller : call[c] = "idle") => file = Whole(mem)

\* A country that was set, saved and acknowledged, and not unset since, is there after
\* every later start.  There are two exceptions: the last Write left the file truncated,
\* having failed or died with the client, and a file that a start cannot read.
SetupSurvives == Serving /\ ackSetup => mem.setup

=============================================================================
