---------------------------- MODULE BinaryUpgrade ----------------------------
(***************************************************************************)
(* The way of a release to the clients: the patches and the rows of        *)
(* upgrades an administrator makes of it (cmd/alkasir-admin,               *)
(* central/db/postgres.go), the answer of central (central/api.go), the    *)
(* check of the client (central/client, client/upgradebin.go) and the      *)
(* patch it applies to its own binary on disk (upgradebin).                *)
(*                                                                         *)
(* A binary is its version, or Garbage: the checksum of a release tells    *)
(* them apart, and the signature covers the checksum only.                 *)
(***************************************************************************)
EXTENDS Naturals, FiniteSets

CONSTANTS
    Release,   \* versions 1..Release
    Garbage,   \* what a patch makes of a binary it is not for
    MaxRounds  \* bound: checks of the client

VARIABLES
    released,   \* versions built so far
    diffs,      \* patch files: <<old, new>>
    upgrades,   \* rows of upgrades: [version, published]
    inserting,  \* versions insertUpgrades has still to insert
    running,    \* VERSION of the running client; 0 when it is not running
    disk,       \* the binary on disk
    check,      \* of upgradeBinaryCheck: "idle", "asked", "found"
    found,      \* the version of the answer
    rounds

uvars == <<released, diffs, upgrades, inserting, running, disk, check, found, rounds>>

UInit ==
    /\ released = {1} /\ diffs = {} /\ upgrades = {} /\ inserting = {} /\ running = 0
    /\ disk = 1 /\ check = "idle" /\ found = 1 /\ rounds = 0

Central == <<released, diffs, upgrades, inserting>>
Client  == <<running, disk, check, found, rounds>>

-----------------------------------------------------------------------------
(* Administration *)

Build(v) ==
    /\ v \in 2..Release /\ v = Cardinality(released) + 1 /\ released' = released \cup {v}
    /\ UNCHANGED <<diffs, upgrades, inserting>> /\ UNCHANGED Client

Latest == CHOOSE v \in released : \A w \in released : w <= v

\* createUpgradeAuto: patches from (some of) the old versions to the latest one.
createUpgradeAuto ==
    /\ Latest > 1
    /\ \E old \in SUBSET (released \ {Latest}) \ {{}} : diffs' = diffs \cup (old \X {Latest})
    /\ UNCHANGED <<released, upgrades, inserting>> /\ UNCHANGED Client

Known == {u.version : u \in upgrades}

\* insertUpgrades: one row for each new version with a patch that is not imported yet.
insertUpgrades ==
    /\ inserting = {} /\ inserting' = {d[2] : d \in diffs} \ Known /\ inserting' # {}
    /\ UNCHANGED <<released, diffs, upgrades>> /\ UNCHANGED Client

\* InsertUpgrades inserts outside of its transaction, so that a failure keeps the rows
\* before it; the next insertUpgrades goes on from there.
InsertUpgrade(v) ==
    /\ v \in inserting
    /\ \/ upgrades' = upgrades \cup {[version |-> v, published |-> FALSE]} /\ inserting' = inserting \ {v}
       \/ inserting' = {} /\ UNCHANGED upgrades
    /\ UNCHANGED <<released, diffs>> /\ UNCHANGED Client

\* An operator publishes a row or takes it back.
Publish(u) ==
    /\ u \in upgrades
    /\ upgrades' = (upgrades \ {u}) \cup {[u EXCEPT !.published = ~@]}
    /\ UNCHANGED <<released, diffs, inserting>> /\ UNCHANGED Client

-----------------------------------------------------------------------------
(* The client *)

\* The client starts from the binary on disk.
StartClient ==
    /\ running = 0 /\ running' = disk
    /\ UNCHANGED Central /\ UNCHANGED <<disk, check, found, rounds>>

StopClient ==
    /\ running # 0 /\ running' = 0 /\ check' = "idle"
    /\ UNCHANGED Central /\ UNCHANGED <<disk, found, rounds>>

Ask ==
    /\ running # 0 /\ check = "idle" /\ rounds < MaxRounds /\ rounds' = rounds + 1
    /\ check' = "asked" /\ UNCHANGED Central /\ UNCHANGED <<running, disk, found>>

\* GetUpgrade of central takes any published row, and refuses it if it is not newer;
\* CheckBinaryUpgrade refuses an older one again.
GetUpgrade(u) ==
    /\ check = "asked" /\ u \in upgrades /\ u.published
    /\ IF u.version > running THEN check' = "found" /\ found' = u.version
                              ELSE check' = "idle" /\ UNCHANGED found
    /\ UNCHANGED Central /\ UNCHANGED <<running, disk, rounds>>

\* Nothing published, an error of the database or of the network.
NoUpgrade ==
    /\ check = "asked" /\ check' = "idle"
    /\ UNCHANGED Central /\ UNCHANGED <<running, disk, found, rounds>>

\* What a patch from the running version makes of the binary on disk; without a patch for
\* it the answer is an error page, which is no patch.
Patched(ok) == IF <<running, found>> \in diffs /\ ok /\ disk = running THEN found ELSE Garbage

\* Fault variant of Apply: the result is not compared with the checksum.
ApplyAny(ok) ==
    /\ check = "found" /\ check' = "idle"
    /\ disk' = Patched(ok)
    /\ UNCHANGED Central /\ UNCHANGED <<running, found, rounds>>

\* Apply: the checksum and its signature are compared before the binary is replaced.  The
\* client goes on running, and its VERSION stays.
Apply(ok) ==
    /\ check = "found" /\ check' = "idle"
    /\ disk' = IF Patched(ok) = found THEN found ELSE disk
    /\ UNCHANGED Central /\ UNCHANGED <<running, found, rounds>>

UNext ==
    \/ \E v \in 2..Release : Build(v) \/ InsertUpgrade(v)
    \/ createUpgradeAuto \/ insertUpgrades \/ (\E u \in upgrades : Publish(u) \/ GetUpgrade(u))
    \/ StartClient \/ StopClient \/ Ask \/ NoUpgrade
    \/ \E ok \in BOOLEAN : Apply(ok)

-----------------------------------------------------------------------------
\* The binary on disk is always a release and never goes back to an older one: also when
\* the client upgrades twice without a restart (a patch is made for the running version,
\* not for the one on disk), when central takes a release back or answers with any of its
\* rows, and when a patch is damaged or missing.
NeverBackwards == [][disk' \in released /\ disk' >= disk]_disk

=============================================================================
