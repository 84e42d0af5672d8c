----------------------------- MODULE MCServices ------------------------------
(***************************************************************************)
(* Parts of the client and of central that stand by themselves: access to  *)
(* the client's HTTP server, the public address, the export API, the       *)
(* making of patches and their way to the clients.  As in MCProcesses one  *)
(* run explores them one at a time.                                        *)
(***************************************************************************)
EXTENDS Naturals, Sequences, FiniteSets

CONSTANTS Key, Browser, Ttl, MaxTime, Caller, NumServices, Address, V4,
          PageLength, MaxID, Timeout, MaxRefresh, MaxNow,
          Artifact, NumVersions, MaxHistory, JobCap, PWorker, Release, Garbage, MaxRounds

ASSUME ServicesAssumption ==
    /\ {Ttl, PageLength, Timeout, MaxRefresh, MaxID} \subseteq Nat
    /\ Release \in Nat \ {0} /\ Garbage \notin 1..Release
    /\ NumServices \in Nat \ {0}
    /\ NumVersions \in Nat \ {0} /\ MaxHistory \in Nat /\ PWorker # {}

VARIABLES unit,
    http, entries, menu, clock, made, first, uses, cookie,
    updater, serviceIdx, hasIP, ip, failed, foreign, caller,
    rows, damaged, enabled, now, token, oldest, atStart, export, idMax, pages, broken,
    creator, jobC, jobsOpen, pworker, closer, patches, empty, factory, files,
    released, diffs, upgrades, inserting, running, disk, check, found, rounds

A == INSTANCE ClientAccess
I == INSTANCE PublicIP
E == INSTANCE ExportApi
F == INSTANCE PatchFactory
U == INSTANCE BinaryUpgrade

avars == <<http, entries, menu, clock, made, first, uses, cookie>>
ivars == <<updater, serviceIdx, hasIP, ip, failed, foreign, caller>>
evars == <<rows, damaged, enabled, now, token, oldest, atStart, export, idMax, pages, broken>>
fvars == <<creator, jobC, jobsOpen, pworker, closer, patches, empty, factory, files>>
uvars == <<released, diffs, upgrades, inserting, running, disk, check, found, rounds>>

vars == <<unit, avars, ivars, evars, fvars, uvars>>

Init ==
    /\ unit \in {"access", "address", "export", "patches", "upgrade"}
    /\ A!AInit /\ I!IInit /\ E!EInit /\ F!FInit /\ U!UInit

Next ==
    \/ unit = "access" /\ A!ANext /\ UNCHANGED <<unit, ivars, evars, fvars, uvars>>
    \/ unit = "address" /\ I!INext /\ UNCHANGED <<unit, avars, evars, fvars, uvars>>
    \/ unit = "export" /\ E!ENext /\ UNCHANGED <<unit, avars, ivars, fvars, uvars>>
    \/ unit = "patches" /\ F!FNext /\ UNCHANGED <<unit, avars, ivars, evars, uvars>>
    \/ unit = "upgrade" /\ U!UNext /\ UNCHANGED <<unit, avars, ivars, evars, fvars>>

\* No fair step of a unit is enabled in its initial state, so that fairness asks nothing of
\* the units a behaviour is not about.
Spec == Init /\ [][Next]_vars /\ I!IFairness /\ F!FFairness

\* A single-use key opens the door once: see ClientAccess.
OneUse == A!OneUse

\* Every caller gets the address, or nil when no service gives an IPv4 one: see PublicIP.
FirstAddress == I!FirstAddress

\* An export has all rows once: see ExportApi.
PagesComplete == E!PagesComplete

\* A login is worth MaxRefresh + Timeout at most: see ExportApi.
LoginFades == E!LoginFades

\* The patches of all old versions are made: see PatchFactory.
AllPatched == F!AllPatched

\* The client's binary is a release and never gets older: see BinaryUpgrade.
NeverBackwards == U!NeverBackwards

=============================================================================
