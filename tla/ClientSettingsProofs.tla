------------------------- MODULE ClientSettingsProofs -------------------------
(***************************************************************************)
(* Proofs about the client's configuration (ClientSettings): the           *)
(* migrations, the file, and the copies other parts hold, for any          *)
(* connections, hosts, weeks, callers, starts and crashes.                 *)
(***************************************************************************)
EXTENDS ClientSettings, FiniteSetTheorems, TLAPS

Lists == UNION {[S -> Flags] : S \in SUBSET Conn}

-----------------------------------------------------------------------------
(* Lists of connections *)

LEMMA ListsAre == \A f : f \in Lists <=> f \in [DOMAIN f -> Flags] /\ DOMAIN f \subseteq Conn
BY DEF Lists

LEMMA SettingsAre ==
    Settings = [version : 0 .. 7, lastID : 0 .. 3, setup : BOOLEAN,
                addr : {"none", "beta", "default"}, key : BOOLEAN, conns : Lists]
BY DEF Settings, Lists, Flags

LEMMA FlagsAre == Locked \in Flags /\ ~Locked.disabled
BY DEF Locked, Flags

LEMMA EmptyList == <<>> \in Lists /\ DOMAIN <<>> = {} /\ Template \in Settings
<1>1. DOMAIN <<>> = {} /\ <<>> \in [{} -> Flags]
    OBVIOUS
<1>2. <<>> \in Lists
    BY <1>1, ListsAre
<1>. QED
    BY <1>1, <1>2, SettingsAre DEF Template

\* What is added by a migration and was not there before is enabled.
LEMMA Modified ==
    ASSUME NEW f \in Lists, NEW remove, NEW add \in SUBSET Conn, NEW protect
    PROVE  LET g == ModifyConnections(f, remove, add, protect) IN
           /\ g \in Lists /\ DOMAIN g = (DOMAIN f \ remove) \cup add
           /\ \A c \in add \ DOMAIN f : c \in Enabled(g)
<1> DEFINE g == ModifyConnections(f, remove, add, protect)
<1>1. f \in [DOMAIN f -> Flags] /\ DOMAIN f \subseteq Conn
    BY ListsAre
<1>2. DOMAIN g = (DOMAIN f \ remove) \cup add
    BY DEF ModifyConnections
<1>3. \A x \in Flags : [x EXCEPT !.protected = TRUE] \in Flags
    BY DEF Flags
<1>4. g \in [DOMAIN g -> Flags]
    BY <1>1, <1>3, FlagsAre DEF ModifyConnections
<1>5. \A c \in add \ DOMAIN f : g[c] = Locked
    BY DEF ModifyConnections
<1>6. g \in Lists
    BY <1>1, <1>2, <1>4, ListsAre
<1> HIDE DEF g
<1>7. \A c \in add \ DOMAIN f : c \in Enabled(g)
    BY <1>2, <1>5, FlagsAre DEF Enabled
<1>. QED
    BY <1>2, <1>6, <1>7 DEF g

-----------------------------------------------------------------------------
(* The migrations *)

\* Settings as the client needs them: current, or of a version from the future.
Ready(s) == /\ s \in Settings
            /\ (s.version = 6 /\ s.key /\ s.addr = "default") \/ s.version = 7

\* Settings of any version as the client may find them.
Loadable(s) ==
    /\ s \in Settings
    /\ s.version \in 4 .. 6 => s.key
    /\ s.version \in 1 .. 6 => s.addr # "none"
    /\ s.version \in 5 .. 6 => s.addr = "default"

\* The last migration still has something to add, or a connection is enabled.
Fresh(s) == /\ s.version < 6 => ~(Shipped5 \subseteq DOMAIN s.conns)
            /\ s.version >= 6 => Enabled(s.conns) # {}

\* What the cases of the switch write besides the version.
Addressed(s, v, a) == [s EXCEPT !.version = v, !.addr = a]
Keyed(s, v)        == [s EXCEPT !.version = v, !.key = TRUE]
Listed(s, v, f)    == [s EXCEPT !.version = v, !.conns = f]

LEMMA Changed ==
    ASSUME NEW s \in Settings, NEW v \in 0 .. 7
    PROVE  /\ \A a \in {"none", "beta", "default"} : LET t == Addressed(s, v, a) IN
                  /\ t \in Settings /\ t.version = v /\ t.addr = a /\ t.key = s.key
                  /\ t.conns = s.conns /\ t.setup = s.setup
           /\ LET t == Keyed(s, v) IN
                  /\ t \in Settings /\ t.version = v /\ t.addr = s.addr /\ t.key
                  /\ t.conns = s.conns /\ t.setup = s.setup
           /\ \A f \in Lists : LET t == Listed(s, v, f) IN
                  /\ t \in Settings /\ t.version = v /\ t.addr = s.addr /\ t.key = s.key
                  /\ t.conns = f /\ t.setup = s.setup
BY SettingsAre DEF Addressed, Keyed, Listed

\* A migration of the list keeps settings loadable, and fresh: until the last one nothing
\* that it adds is put on the list, and the last one adds what is missing, enabled.
LEMMA ListLoads ==
    ASSUME NEW s, Loadable(s), NEW w \in {2, 3, 6}, w = s.version + 1,
           NEW remove, NEW add \in SUBSET Conn, NEW protect,
           \/ w # 6 /\ add \cap Shipped5 = {}
           \/ w = 6 /\ add = Shipped5
    PROVE  LET t == Listed(s, w, ModifyConnections(s.conns, remove, add, protect)) IN
           /\ Loadable(t) /\ t.setup = s.setup /\ t.version = w
           /\ Fresh(s) => Fresh(t)
<1> DEFINE g == ModifyConnections(s.conns, remove, add, protect)
           t == Listed(s, w, g)
<1>1. s \in Settings /\ s.conns \in Lists /\ w \in 0 .. 7 /\ s.version \in 0 .. 7
    BY SettingsAre DEF Loadable
<1>2. /\ g \in Lists /\ DOMAIN g = (DOMAIN s.conns \ remove) \cup add
      /\ \A c \in add \ DOMAIN s.conns : c \in Enabled(g)
    BY <1>1, Modified
<1> HIDE DEF g
<1>3. /\ t \in Settings /\ t.version = w /\ t.addr = s.addr /\ t.key = s.key
      /\ t.conns = g /\ t.setup = s.setup
    BY <1>1, <1>2, Changed
<1>4. ASSUME Fresh(s) PROVE (w = 6 => Enabled(g) # {}) /\ (w < 6 => ~(Shipped5 \subseteq DOMAIN g))
  <2>1. s.version < 6
    BY <1>1
  <2>2. PICK c \in Shipped5 : c \notin DOMAIN s.conns
    BY <1>4, <2>1 DEF Fresh
  <2>. QED
    BY <1>2, <2>2
<1>5. /\ w \in 4 .. 6 => s.key
      /\ w \in 1 .. 6 => s.addr # "none"
      /\ w \in 5 .. 6 => s.addr = "default"
    BY <1>1 DEF Loadable
<1> HIDE DEF t
<1>6. Loadable(t)
    BY <1>3, <1>5 DEF Loadable
<1>7. Fresh(s) => Fresh(t)
    BY <1>3, <1>4 DEF Fresh
<1>. QED
    BY <1>3, <1>6, <1>7 DEF t, g

\* One case of the switch keeps settings loadable and fresh and the setup as it is, and
\* ends one version higher, or at 6 and later where it began.
LEMMA CaseLoads ==
    ASSUME NEW s, Loadable(s)
    PROVE  /\ Loadable(Case(s)) /\ Case(s).setup = s.setup
           /\ Case(s).version = IF s.version >= 6 THEN s.version ELSE s.version + 1
           /\ s.version >= 6 => Case(s) = s
           /\ Fresh(s) => Fresh(Case(s))
<1>1. /\ s \in Settings /\ s.version \in {0, 1, 2, 3, 4, 5, 6, 7} /\ s.conns \in Lists
      /\ s.addr \in {"none", "beta", "default"}
    BY SettingsAre DEF Loadable
<1>2. CASE s.version = 0
  <2>1. Case(s) = Addressed(s, 1, "default")
    BY <1>2 DEF Case, Addressed
  <2>. QED
    BY <1>1, <1>2, <2>1, Changed DEF Loadable, Fresh
<1>3. CASE s.version = 1
  <2>1. Case(s) = Listed(s, 2, ModifyConnections(s.conns, {}, Shipped1, {}))
    BY <1>3 DEF Case, Listed
  <2>2. /\ 2 \in {2, 3, 6} /\ 2 = s.version + 1 /\ Shipped1 \in SUBSET Conn /\ 2 # 6
        /\ Shipped1 \cap Shipped5 = {}
    BY <1>3, ConnAssumption DEF Conn
  <2>3. LET t == Listed(s, 2, ModifyConnections(s.conns, {}, Shipped1, {})) IN
        /\ Loadable(t) /\ t.setup = s.setup /\ t.version = 2
        /\ Fresh(s) => Fresh(t)
    BY <2>2, ListLoads
  <2>. QED
    BY <1>3, <2>1, <2>3
<1>4. CASE s.version = 2
  <2>1. Case(s) = Listed(s, 3, ModifyConnections(s.conns, Retired, {}, Shipped1))
    BY <1>4 DEF Case, Listed
  <2>2. /\ 3 \in {2, 3, 6} /\ 3 = s.version + 1 /\ {} \in SUBSET Conn /\ 3 # 6
        /\ {} \cap Shipped5 = {}
    BY <1>4
  <2>. QED
    BY <1>1, <1>4, <2>1, <2>2, ListLoads
<1>5. CASE s.version = 3
  <2>1. Case(s) = Keyed(s, 4)
    BY <1>5 DEF Case, Keyed
  <2>. QED
    BY <1>1, <1>5, <2>1, Changed DEF Loadable, Fresh
<1>6. CASE s.version = 4
  <2>1. s.addr = "beta" \/ s.addr = "default"
    BY <1>1, <1>6 DEF Loadable
  <2>2. Case(s) = Addressed(s, 5, IF s.addr = "beta" THEN "default" ELSE s.addr)
    BY <1>6 DEF Case, Addressed
  <2>3. Case(s) = Addressed(s, 5, "default")
    BY <2>1, <2>2
  <2>. QED
    BY <1>1, <1>6, <2>3, Changed DEF Loadable, Fresh
<1>7. CASE s.version = 5
  <2>1. Case(s) = Listed(s, 6, ModifyConnections(s.conns, Withdrawn, Shipped5, {}))
    BY <1>7 DEF Case, Listed
  <2>. QED
    BY <1>7, <2>1, ListLoads DEF Conn
<1>8. CASE s.version = 6 \/ s.version = 7
    BY <1>8 DEF Case
<1>. QED
    BY <1>1, <1>2, <1>3, <1>4, <1>5, <1>6, <1>7, <1>8

\* The switch applied from any version on ends with settings the client can use.
LEMMA Upgraded ==
    ASSUME NEW s, Loadable(s)
    PROVE  /\ Ready(UpgradeConfig(s)) /\ UpgradeConfig(s).setup = s.setup
           /\ s.version >= 6 => UpgradeConfig(s) = s
           /\ ~NothingToAdd(s) => Enabled(UpgradeConfig(s).conns) # {}
<1> DEFINE Of(f) == [n \in 0 .. 6 |-> IF n = 0 THEN s ELSE Case(f[n - 1])]
           v == CHOOSE f : f = Of(f)
           c1 == Case(s)
           c2 == Case(c1)
           c3 == Case(c2)
           c4 == Case(c3)
           c5 == Case(c4)
           c6 == Case(c5)
           g == [n \in 0 .. 6 |-> IF n = 0 THEN s ELSE IF n = 1 THEN c1 ELSE IF n = 2 THEN c2 ELSE
                                  IF n = 3 THEN c3 ELSE IF n = 4 THEN c4 ELSE IF n = 5 THEN c5 ELSE c6]
<1>1. g = Of(g)
    OBVIOUS
<1>2. v = Of(v)
    BY <1>1
<1>3. UpgradeConfig(s) = v[6]
    BY DEF UpgradeConfig
<1> HIDE DEF v
<1>4. v[0] = s /\ v[1] = c1 /\ v[2] = c2 /\ v[3] = c3 /\ v[4] = c4 /\ v[5] = c5 /\ v[6] = c6
  <2> HIDE DEF c1, c2, c3, c4, c5, c6
  <2>1. \A n \in 0 .. 6 : v[n] = IF n = 0 THEN s ELSE Case(v[n - 1])
    BY <1>2
  <2>2. v[0] = s /\ v[1] = Case(v[0]) /\ v[2] = Case(v[1]) /\ v[3] = Case(v[2])
        /\ v[4] = Case(v[3]) /\ v[5] = Case(v[4]) /\ v[6] = Case(v[5])
    BY <2>1
  <2>. QED
    BY <2>2 DEF c1, c2, c3, c4, c5, c6
<1> DEFINE Step(t, u) == /\ Loadable(u) /\ u.setup = t.setup
                         /\ u.version = IF t.version >= 6 THEN t.version ELSE t.version + 1
                         /\ t.version >= 6 => u = t
                         /\ Fresh(t) => Fresh(u)
<1>5. \A t : Loadable(t) => Step(t, Case(t))
    BY CaseLoads
<1> HIDE DEF c1, c2, c3, c4, c5, c6
<1>6. Step(s, c1) /\ Step(c1, c2) /\ Step(c2, c3) /\ Step(c3, c4) /\ Step(c4, c5) /\ Step(c5, c6)
    BY <1>5 DEF c1, c2, c3, c4, c5, c6
<1>7. s.version \in 0 .. 7
    BY SettingsAre DEF Loadable
<1>8. /\ Loadable(c6) /\ c6.setup = s.setup /\ (s.version >= 6 => c6 = s)
      /\ c6.version = IF s.version = 7 THEN 7 ELSE 6
    BY <1>6, <1>7
<1>9. Ready(c6)
    BY <1>8 DEF Ready, Loadable
<1>10. Fresh(s) => Fresh(c6)
    BY <1>6
<1>11. ~NothingToAdd(s) => Fresh(s)
    BY <1>7 DEF NothingToAdd, Fresh
<1>12. Fresh(c6) => Enabled(c6.conns) # {}
    BY <1>8 DEF Fresh
<1>. QED
    BY <1>3, <1>4, <1>8, <1>9, <1>10, <1>11, <1>12

-----------------------------------------------------------------------------
(* The settings in memory and on disk *)

\* What the file may hold: nothing, the start of a Write, or settings some version wrote.
Readable(f) == f = Absent \/ f = Torn \/ \E s \in Settings : Loadable(s) /\ f = Whole(s)

Starting == pc \in {"down", "read"}

Snaps == [conns : Lists, shared : BOOLEAN, hosts : SUBSET Host]
Asks  == [st : {"none", "asked", "got", "saved"}, id : 0 .. 3, savedID : 0 .. 3,
          hosts : SUBSET Host]
Hosts == [central : SUBSET Host, local : SUBSET Host]

Types == /\ pc \in {"down", "read", "upgraded", "served", "listed", "up"}
         /\ call \in [Caller -> {"idle", "write", "torn"}]
         /\ bytes \in [Caller -> Settings]
         /\ snap \in Snaps /\ ask \in Asks /\ lists \in Hosts

\* Nobody writes or asks before the client serves; a request is open only while it is up.
Quiet == /\ Starting => \A c \in Caller : call[c] = "idle"
         /\ ask.st # "none" => pc = "up"
         /\ call["upgrader"] # "idle" => ask.st = "got"

\* A start reads what it can migrate, or falls back on the template; then the settings are
\* ready, with a connection enabled or a reason for having none, and whoever is inside
\* WriteFile has marshalled exactly them.
Sound == /\ Loadable(mem) /\ Readable(file)
         /\ pc = "read" => mem = Template \/ file = Whole(mem)
         /\ ~Starting => Ready(mem) /\ (Enabled(mem.conns) # {} \/ bare)
         /\ \A c \in Caller : call[c] = "torn" => bytes[c] = mem

SettingsInv == Types /\ Quiet /\ Sound

Saved == ~Starting /\ ~unsaved /\ (\A c \in Caller : call[c] = "idle") => file = Whole(mem)

ManagerInv == /\ pc = "served" /\ "conns" \notin early => snap.conns = mem.conns
              /\ ManagerInSync

PacInv == /\ pc \in {"served", "listed"} /\ "hosts" \notin early =>
                 snap.hosts = lists.central \cup lists.local
          /\ PacInSync

SetupInv == /\ ackSetup => file = Torn \/ (file.st = "whole" /\ file.data.setup)
            /\ pc = "down" /\ file = Torn => torn
            /\ pc # "down" /\ ackSetup => mem.setup

-----------------------------------------------------------------------------
(* The calls on the list of connections *)

\* Switching a connection keeps one enabled: the one switched on, or another.
LEMMA Toggled ==
    ASSUME NEW f \in Lists, NEW id \in DOMAIN f,
           f[id].disabled \/ Cardinality(Enabled(f)) >= 2
    PROVE  LET g == [f EXCEPT ![id].disabled = ~@] IN g \in Lists /\ Enabled(g) # {}
<1> DEFINE x == [f[id] EXCEPT !.disabled = ~f[id].disabled]
           g == [f EXCEPT ![id] = x]
<1>1. f \in [DOMAIN f -> Flags] /\ DOMAIN f \subseteq Conn
    BY ListsAre
<1>2. f[id] \in [disabled : BOOLEAN, protected : BOOLEAN]
    BY <1>1 DEF Flags
<1>3. x.disabled = ~f[id].disabled
    BY <1>2
<1>4. x \in Flags
    BY <1>2 DEF Flags
<1> HIDE DEF x
<1>5. /\ g \in [DOMAIN f -> Flags] /\ DOMAIN g = DOMAIN f /\ g[id] = x
      /\ \A c \in DOMAIN f \ {id} : g[c] = f[c]
    BY <1>1, <1>4
<1>6. g \in Lists
    BY <1>1, <1>5, ListsAre
<1> HIDE DEF g
<1>7. CASE f[id].disabled
  <2>1. id \in Enabled(g)
    BY <1>3, <1>5, <1>7 DEF Enabled
  <2>. QED
    BY <1>6, <2>1 DEF g, x
<1>8. CASE ~f[id].disabled
  <2>1. PICK c \in Enabled(f) : c # id
    <3>1. SUFFICES ASSUME \A c \in Enabled(f) : c = id
                   PROVE  FALSE
      OBVIOUS
    <3>2. id \in Enabled(f)
      BY <1>8 DEF Enabled
    <3>3. Enabled(f) = {id}
      BY <3>1, <3>2
    <3>4. Cardinality({id}) = 1
      BY FS_Singleton
    <3>. QED
      BY <1>8, <3>3, <3>4
  <2>2. c \in Enabled(g)
    BY <1>5, <2>1 DEF Enabled
  <2>. QED
    BY <1>6, <2>2 DEF g, x
<1>. QED
    BY <1>7, <1>8

\* A list without some of its connections.
LEMMA Deleted ==
    ASSUME NEW f \in Lists, NEW id, Enabled(f) \ {id} # {}
    PROVE  LET g == [c \in DOMAIN f \ {id} |-> f[c]] IN g \in Lists /\ Enabled(g) # {}
<1> DEFINE g == [c \in DOMAIN f \ {id} |-> f[c]]
<1>1. f \in [DOMAIN f -> Flags] /\ DOMAIN f \subseteq Conn
    BY ListsAre
<1>2. DOMAIN g = DOMAIN f \ {id} /\ \A c \in DOMAIN f \ {id} : g[c] = f[c]
    OBVIOUS
<1>3. g \in [DOMAIN g -> Flags]
    BY <1>1
<1> HIDE DEF g
<1>4. g \in Lists
    BY <1>1, <1>2, <1>3, ListsAre
<1>5. Enabled(g) # {}
    BY <1>2 DEF Enabled
<1>. QED
    BY <1>4, <1>5 DEF g

\* A list with some of its connections and a new one: enabled are the same, and the new one
\* unless it is disabled.
With(f, S, c, flags) == [d \in S \cup {c} |-> IF d = c THEN flags ELSE f[d]]

LEMMA Added ==
    ASSUME NEW f \in Lists, NEW S \in SUBSET DOMAIN f, NEW c \in Conn \ DOMAIN f,
           NEW flags \in Flags
    PROVE  LET g == With(f, S, c, flags) IN
           /\ g \in Lists
           /\ ~flags.disabled => Enabled(g) # {}
           /\ \A d \in S : d \in Enabled(f) => d \in Enabled(g)
<1> DEFINE g == With(f, S, c, flags)
<1>1. f \in [DOMAIN f -> Flags] /\ DOMAIN f \subseteq Conn
    BY ListsAre
<1>2. DOMAIN g = S \cup {c} /\ g[c] = flags /\ \A d \in S : g[d] = f[d]
    BY DEF With
<1>3. g \in [DOMAIN g -> Flags]
    BY <1>1 DEF With
<1> HIDE DEF g
<1>4. g \in Lists
    BY <1>1, <1>2, <1>3, ListsAre
<1>5. ~flags.disabled => Enabled(g) # {}
    BY <1>2 DEF Enabled
<1>6. \A d \in S : d \in Enabled(f) => d \in Enabled(g)
    BY <1>2 DEF Enabled
<1>. QED
    BY <1>4, <1>5, <1>6 DEF g

\* Every call on the list is refused, or ends in a list with an enabled connection, or is
\* one after which there may be none.
Edits(f) == \/ \E maybe : InPlace(f, maybe) /\ (maybe \/ Enabled(f) # {})
            \/ \E moved : NewList(f, moved) /\ (bare \/ Enabled(f) # {})

LEMMA CallEdits ==
    ASSUME NEW a, ConnectionCall(a), mem.conns \in Lists, Enabled(mem.conns) # {} \/ bare
    PROVE  Refused \/ \E f \in Lists : Edits(f)
<1>1. CASE Refused
    BY <1>1
<1>2. ASSUME NEW id \in Conn, ToggleConnection(id) PROVE \E f \in Lists : Edits(f)
  <2> DEFINE g == [mem.conns EXCEPT ![id].disabled = ~@]
  <2>1. g \in Lists /\ Enabled(g) # {}
    BY <1>2, Toggled DEF ToggleConnection, MayDisable
  <2>2. InPlace(g, bare)
    BY <1>2 DEF ToggleConnection
  <2>. QED
    BY <2>1, <2>2 DEF Edits
<1>3. ASSUME NEW id \in Conn, DeleteConnection(id) PROVE \E f \in Lists : Edits(f)
  <2> DEFINE g == [c \in DOMAIN mem.conns \ {id} |-> mem.conns[c]]
  <2>1. g \in Lists /\ Enabled(g) # {}
    BY <1>3, Deleted DEF DeleteConnection, MayDelete
  <2>2. NewList(g, TRUE)
    BY <1>3 DEF DeleteConnection
  <2>. QED
    BY <2>1, <2>2 DEF Edits
<1>4. ASSUME NEW c \in UserConn, NEW flags \in Flags, AddConnection(c, flags)
      PROVE  \E f \in Lists : Edits(f)
  <2> DEFINE g == With(mem.conns, DOMAIN mem.conns, c, flags)
  <2>1. c \in Conn \ DOMAIN mem.conns
    BY <1>4 DEF AddConnection, Conn
  <2>2. g \in Lists /\ \A d \in DOMAIN mem.conns : d \in Enabled(mem.conns) => d \in Enabled(g)
    <3>1. DOMAIN mem.conns \in SUBSET DOMAIN mem.conns
      OBVIOUS
    <3>. QED
      BY <2>1, <3>1, Added
  <2>3. PICK moved \in BOOLEAN : NewList(g, moved)
    BY <1>4 DEF AddConnection, With
  <2> HIDE DEF g
  <2>4. bare \/ Enabled(g) # {}
    BY <2>2 DEF Enabled
  <2>. QED
    BY <2>2, <2>3, <2>4 DEF Edits
<1>5. ASSUME NEW id \in Conn, NEW c \in UserConn, NEW flags \in Flags,
             ReplaceConnection(id, c, flags)
      PROVE  \E f \in Lists : Edits(f)
  <2> DEFINE S == DOMAIN mem.conns \ {id}
             g == With(mem.conns, S, c, flags)
  <2>1. c \in Conn \ DOMAIN mem.conns
    BY <1>5 DEF ReplaceConnection, Conn
  <2>2. g \in Lists /\ (~flags.disabled => Enabled(g) # {})
    <3>1. S \in SUBSET DOMAIN mem.conns
      OBVIOUS
    <3>. QED
      BY <2>1, <3>1, Added
  <2>3. InPlace(g, bare \/ flags.disabled)
    BY <1>5 DEF ReplaceConnection, With
  <2> HIDE DEF g
  <2>4. (bare \/ flags.disabled) \/ Enabled(g) # {}
    BY <2>2
  <2>. QED
    BY <2>2, <2>3, <2>4 DEF Edits
<1>. QED
    BY <1>1, <1>2, <1>3, <1>4, <1>5 DEF ConnectionCall

\* What an edit does to the settings and to the copy of them.
LEMMA Edited ==
    ASSUME NEW f \in Lists, Edits(f), mem \in Settings, snap \in Snaps
    PROVE  /\ mem' \in Settings /\ mem'.conns = f /\ mem'.setup = mem.setup
           /\ Ready(mem) => Ready(mem')
           /\ Enabled(f) # {} \/ bare'
           /\ snap' \in Snaps /\ snap'.hosts = snap.hosts
           /\ manager' = Enabled(f)
           /\ "hosts" \in early' <=> "hosts" \in early
           /\ pc = "served" /\ "conns" \notin early' => snap'.conns = f
<1>1. /\ mem' = [mem EXCEPT !.conns = f] /\ manager' = Enabled(f)
      /\ "hosts" \in early' <=> "hosts" \in early
      /\ \/ snap' = snap
         \/ snap' = [snap EXCEPT !.conns = f]
         \/ snap' = [snap EXCEPT !.shared = FALSE]
      /\ pc = "served" /\ "conns" \notin early' => snap' = [snap EXCEPT !.conns = f]
    BY DEF Edits, InPlace, NewList
<1>2. /\ mem' \in Settings /\ mem'.conns = f /\ mem'.setup = mem.setup
      /\ mem'.version = mem.version /\ mem'.key = mem.key /\ mem'.addr = mem.addr
    BY <1>1, SettingsAre
<1>3. Ready(mem) => Ready(mem')
    BY <1>2 DEF Ready
<1>4. snap' \in Snaps /\ snap'.hosts = snap.hosts
    BY <1>1 DEF Snaps
<1>5. pc = "served" /\ "conns" \notin early' => snap'.conns = f
    BY <1>1 DEF Snaps
<1>6. Enabled(f) # {} \/ bare'
    BY DEF Edits, InPlace, NewList
<1>. QED
    BY <1>1, <1>2, <1>3, <1>4, <1>5, <1>6

\* A country that is set or unset, an ID that is saved: the rest of the settings stays.
LEMMA Ready1 ==
    ASSUME mem \in Settings, Ready(mem)
    PROVE  /\ \A set \in BOOLEAN : LET t == [mem EXCEPT !.setup = set] IN
                  Ready(t) /\ t.conns = mem.conns /\ t.setup = set
           /\ \A id \in 0 .. 3 : LET t == [mem EXCEPT !.lastID = id] IN
                  Ready(t) /\ t.conns = mem.conns /\ t.setup = mem.setup
<1>1. \A set \in BOOLEAN : LET t == [mem EXCEPT !.setup = set] IN
      /\ t \in Settings /\ t.conns = mem.conns /\ t.setup = set
      /\ t.version = mem.version /\ t.key = mem.key /\ t.addr = mem.addr
    BY SettingsAre
<1>2. \A id \in 0 .. 3 : LET t == [mem EXCEPT !.lastID = id] IN
      /\ t \in Settings /\ t.conns = mem.conns /\ t.setup = mem.setup
      /\ t.version = mem.version /\ t.key = mem.key /\ t.addr = mem.addr
    BY SettingsAre
<1>. QED
    BY <1>1, <1>2 DEF Ready

LEMMA ReadyLoads == \A s : Ready(s) => Loadable(s)
BY DEF Ready, Loadable

LEMMA TemplateLoads == Loadable(Template)
BY EmptyList DEF Loadable, Template

\* What a client before version 4 has left, and a later one.
Early(t, v, f) ==
    [t EXCEPT !.version = v, !.setup = TRUE, !.key = FALSE, !.addr = "beta", !.conns = f]
Late(t, v, f) ==
    [t EXCEPT !.version = v, !.setup = TRUE, !.key = TRUE, !.addr = "default", !.conns = f]

LEMMA LeftLoads ==
    ASSUME NEW v \in {1, 2, 5, 6, 7}, NEW f \in Lists
    PROVE  /\ v < 5 => Loadable(Early(Template, v, f)) /\ Early(Template, v, f).setup
           /\ v >= 5 => Loadable(Late(Template, v, f)) /\ Late(Template, v, f).setup
<1>0. v \in 0 .. 7
    OBVIOUS
<1>1. \A t \in Settings : LET s == Early(t, v, f) IN
      /\ s \in Settings /\ s.version = v /\ s.setup /\ s.addr = "beta"
    BY <1>0, SettingsAre DEF Early
<1>2. \A t \in Settings : LET s == Late(t, v, f) IN
      /\ s \in Settings /\ s.version = v /\ s.setup /\ s.addr = "default" /\ s.key
    BY <1>0, SettingsAre DEF Late
<1>3. Template \in Settings
    BY EmptyList
<1>4. v < 5 => Loadable(Early(Template, v, f)) /\ Early(Template, v, f).setup
    BY <1>1, <1>3 DEF Loadable
<1>5. v >= 5 => Loadable(Late(Template, v, f)) /\ Late(Template, v, f).setup
    BY <1>2, <1>3 DEF Loadable
<1>. QED
    BY <1>4, <1>5

\* Other clients have left settings that can be migrated, with the country set.
LEMMA OldLoads == \A s \in OldFiles : Loadable(s) /\ s.setup
<1>. SUFFICES ASSUME NEW s \in OldFiles PROVE Loadable(s) /\ s.setup
    OBVIOUS
<1> DEFINE ids(v) == CASE v = 1 -> {Retired}
                       [] v = 2 -> {Retired \cup Shipped1}
                       [] v = 5 -> {Shipped1, Shipped1 \cup Shipped5}
                       [] OTHER -> {(Shipped1 \ Withdrawn) \cup Shipped5, {}}
           list(v, on, off) == [c \in on \cup off |-> [disabled |-> c \in off, protected |-> v > 2]]
           left(v, on, off) == [Template EXCEPT !.version = v, !.setup = TRUE, !.key = v > 3,
                                  !.addr = IF v < 5 THEN "beta" ELSE "default",
                                  !.conns = list(v, on, off)]
<1>1. s \in UNION {UNION {{left(v, l \ off, off) : off \in SUBSET l} : l \in ids(v)}
                   : v \in {1, 2, 5, 6, 7}}
    BY Zenon DEF OldFiles
<1>2. PICK v \in {1, 2, 5, 6, 7} :
          \E l \in ids(v) : \E off \in SUBSET l : s = left(v, l \ off, off)
  <2> DEFINE of(v, l) == {left(v, l \ off, off) : off \in SUBSET l}
             at(v) == UNION {of(v, l) : l \in ids(v)}
  <2>1. PICK v \in {1, 2, 5, 6, 7} : s \in at(v)
    BY <1>1, Zenon
  <2>2. PICK l \in ids(v) : s \in of(v, l)
    BY <2>1, Zenon
  <2>. QED
    BY <2>2, Zenon
<1>3. PICK l \in ids(v) : \E off \in SUBSET l : s = left(v, l \ off, off)
    BY <1>2, Zenon
<1>4. PICK off \in SUBSET l : s = left(v, l \ off, off)
    BY <1>3, Zenon
<1>5. l \subseteq Conn
    BY DEF Conn
<1> HIDE DEF ids
<1> DEFINE on == l \ off
           f == list(v, on, off)
<1>6. f \in Lists
  <2>1. (v > 2) \in BOOLEAN /\ \A c : (c \in off) \in BOOLEAN
    OBVIOUS
  <2>2. \A d, p \in BOOLEAN : [disabled |-> d, protected |-> p] \in Flags
    BY DEF Flags
  <2>3. \A c \in on \cup off : [disabled |-> c \in off, protected |-> v > 2] \in Flags
    BY <2>1, <2>2, Zenon
  <2>4. f \in [on \cup off -> Flags]
    BY <2>3, Zenon
  <2>5. (on \cup off) \in SUBSET Conn
    BY <1>5
  <2>. QED
    BY <2>4, <2>5, Zenon DEF Lists
<1>7. s = left(v, on, off)
    BY <1>4, Zenon
<1> HIDE DEF list, on
<1>8. CASE v < 5
  <2>1. (v > 3) = FALSE /\ (IF v < 5 THEN "beta" ELSE "default") = "beta"
    BY <1>8
  <2>2. s = Early(Template, v, f)
    BY <1>7, <2>1, Zenon DEF Early
  <2> HIDE DEF f
  <2>. QED
    BY <1>6, <1>8, <2>2, LeftLoads
<1>9. CASE v >= 5
  <2>1. (v > 3) = TRUE /\ (IF v < 5 THEN "beta" ELSE "default") = "default"
    BY <1>9
  <2>2. s = Late(Template, v, f)
    BY <1>7, <2>1, Zenon DEF Late
  <2> HIDE DEF f
  <2>. QED
    BY <1>6, <1>9, <2>2, LeftLoads
<1>. QED
    BY <1>8, <1>9

-----------------------------------------------------------------------------
(* The inductive invariant of the settings *)

LEMMA Constants == /\ {"upgrader", "main", "exit"} \subseteq Caller /\ Api \subseteq Caller
                   /\ "upgrader" \notin Api
                   /\ NoAsk \in Asks /\ NoSnap \in Snaps /\ NoHosts \in Hosts
                   /\ Template \in Settings /\ Absent # Torn /\ NoAsk.st = "none"
<1>1. NoSnap \in Snaps
    BY EmptyList DEF NoSnap, Snaps
<1>2. Template \in Settings
    BY EmptyList
<1>3. NoAsk \in Asks /\ NoHosts \in Hosts /\ Absent # Torn /\ NoAsk.st = "none"
    BY DEF NoAsk, Asks, NoHosts, Hosts, Absent, Torn
<1>. QED
    BY <1>1, <1>2, <1>3, SettingsBounds DEF Caller

LEMMA SettingsInit == Init => SettingsInv
<1>. SUFFICES ASSUME Init PROVE SettingsInv
    OBVIOUS
<1>1. Types
    BY Constants DEF Init, Types, Idle
<1>2. Quiet
    BY Constants DEF Init, Quiet, Idle
<1>3. Readable(file)
  <2>1. ASSUME NEW s \in OldFiles, file = Whole(s) PROVE Readable(file)
    BY <2>1, OldLoads DEF Readable, Loadable
  <2>. QED
    BY <2>1 DEF Init, Readable
<1>4. Sound
    BY <1>3, TemplateLoads DEF Init, Sound, Starting, Idle
<1>. QED
    BY <1>1, <1>2, <1>4 DEF SettingsInv

\* Whoever is about to write or writing finds settings that are ready.
LEMMA WriterReady ==
    ASSUME SettingsInv, NEW c \in Caller, call[c] # "idle"
    PROVE  ~Starting /\ Ready(mem) /\ mem \in Settings /\ (c = "upgrader" => ask.st = "got")
BY DEF SettingsInv, Quiet, Sound, Ready

\* A start takes the settings of the file, or the template.
LEMMA ReadTakes ==
    ASSUME SettingsInv, Read
    PROVE  /\ mem' = Template \/ (file' = Whole(mem') /\ file' = file)
           /\ Loadable(mem') /\ mem' \in Settings /\ Readable(file')
<1>1. CASE file.st = "whole"
  <2>1. file # Absent /\ file # Torn
    BY <1>1 DEF Absent, Torn
  <2>2. PICK s \in Settings : Loadable(s) /\ file = Whole(s)
    BY <2>1 DEF SettingsInv, Sound, Readable
  <2>3. readSettings = s /\ file' = file
    BY <1>1, <2>1, <2>2 DEF readSettings, Whole, Read
  <2>4. mem' = s \/ mem' = Template
    BY <2>3 DEF Read
  <2>. QED
    BY <2>2, <2>3, <2>4, TemplateLoads, Constants DEF Readable
<1>2. CASE file.st # "whole"
  <2>1. mem' = Template
    BY <1>2 DEF Read, readSettings
  <2>2. Readable(file')
    BY DEF Read, SettingsInv, Sound, Readable
  <2>. QED
    BY <2>1, <2>2, TemplateLoads, Constants
<1>. QED
    BY <1>1, <1>2

LEMMA ReadKeeps == ASSUME SettingsInv, Read PROVE SettingsInv'
<1>1. /\ mem' = Template \/ file' = Whole(mem')
      /\ Loadable(mem') /\ Readable(file')
    BY ReadTakes
<1>2. Types'
    BY DEF SettingsInv, Types, Read
<1>3. Quiet'
    BY DEF SettingsInv, Quiet, Read, Starting
<1>4. Sound'
    BY <1>1 DEF SettingsInv, Quiet, Sound, Read, Starting
<1>. QED
    BY <1>2, <1>3, <1>4 DEF SettingsInv

LEMMA UpgradeKeeps == ASSUME SettingsInv, Upgrade PROVE SettingsInv'
<1>1. Ready(mem') /\ Loadable(mem') /\ (Enabled(mem'.conns) # {} \/ bare')
  <2>1. Loadable(mem) /\ mem' = UpgradeConfig(mem)
    BY DEF SettingsInv, Sound, Upgrade
  <2>2. Ready(mem') /\ (NothingToAdd(mem) \/ Enabled(mem'.conns) # {})
    BY <2>1, Upgraded
  <2>3. bare' = (NothingToAdd(mem) /\ Enabled(mem'.conns) = {})
    BY DEF Upgrade
  <2>. QED
    BY <2>2, <2>3, ReadyLoads
<1>2. Types'
    BY Constants DEF SettingsInv, Types, Upgrade, run
<1>3. Quiet'
    BY Constants DEF SettingsInv, Types, Quiet, Upgrade, Starting
<1>4. \A c \in Caller : call'[c] # "torn"
    BY Constants DEF SettingsInv, Types, Quiet, Upgrade, Starting
<1>5. Sound'
    BY <1>1, <1>4 DEF SettingsInv, Sound, Upgrade, Starting
<1>. QED
    BY <1>2, <1>3, <1>5 DEF SettingsInv

LEMMA StartKeeps == ASSUME SettingsInv, Serve \/ StartManager \/ StartPac PROVE SettingsInv'
<1>1. CASE Serve
  <2>1. mem.conns \in Lists
    BY SettingsAre DEF SettingsInv, Sound, Loadable
  <2>2. snap' \in Snaps
    <3>1. lists.central \cup lists.local \in SUBSET Host
      BY DEF SettingsInv, Types, Hosts
    <3>. QED
      BY <1>1, <2>1, <3>1 DEF Serve, Snaps
  <2>3. Types'
    BY <1>1, <2>2 DEF SettingsInv, Types, Serve
  <2>4. Quiet' /\ Sound'
    BY <1>1 DEF SettingsInv, Quiet, Sound, Serve, Starting, history
  <2>. QED
    BY <2>3, <2>4 DEF SettingsInv
<1>2. CASE StartManager
    BY <1>2 DEF SettingsInv, Types, Quiet, Sound, StartManager, Starting, history
<1>3. CASE StartPac
    BY <1>3, Constants DEF SettingsInv, Types, Quiet, Sound, StartPac, Starting, history
<1>. QED
    BY <1>1, <1>2, <1>3

LEMMA WriterKeeps ==
    ASSUME SettingsInv, NEW c \in Caller, Truncate(c) \/ Save(c) \/ WriteFails(c)
    PROVE  SettingsInv'
<1>1. /\ ~Starting /\ Ready(mem) /\ mem \in Settings /\ Loadable(mem)
      /\ c = "upgrader" => ask.st = "got"
    BY WriterReady, ReadyLoads DEF Truncate, Save, WriteFails
<1>2. CASE Truncate(c)
  <2>1. Types'
    BY <1>1, <1>2 DEF SettingsInv, Types, Truncate, run
  <2>2. Quiet'
    BY <1>1, <1>2 DEF SettingsInv, Types, Quiet, Truncate, run, Starting
  <2>3. Sound'
    BY <1>1, <1>2 DEF SettingsInv, Types, Sound, Truncate, run, Starting, history, Readable
  <2>. QED
    BY <2>1, <2>2, <2>3 DEF SettingsInv
<1>3. CASE Save(c)
  <2>1. bytes[c] = mem
    BY <1>3 DEF SettingsInv, Sound, Save
  <2>2. ask' \in Asks /\ (c = "upgrader" => ask'.st = "saved") /\ (c # "upgrader" => ask' = ask)
    BY <1>3 DEF SettingsInv, Types, Asks, Save
  <2>3. Types'
    BY <1>3, <2>2, Constants DEF SettingsInv, Types, Save, run
  <2>4. Quiet'
    BY <1>1, <1>3, <2>2, Constants DEF SettingsInv, Types, Quiet, Save, run, Starting
  <2>5. Readable(file')
    BY <1>1, <1>3, <2>1 DEF Save, Readable
  <2>6. Sound'
    BY <1>1, <1>3, <2>5 DEF SettingsInv, Types, Sound, Save, run, Starting
  <2>. QED
    BY <2>3, <2>4, <2>6 DEF SettingsInv
<1>4. CASE WriteFails(c)
  <2>1. Types'
    BY <1>4, Constants DEF SettingsInv, Types, WriteFails, run
  <2>2. Quiet'
    BY <1>1, <1>4, Constants DEF SettingsInv, Types, Quiet, WriteFails, run, Starting
  <2>3. Sound'
    BY <1>1, <1>4 DEF SettingsInv, Types, Sound, WriteFails, run, Starting
  <2>. QED
    BY <2>1, <2>2, <2>3 DEF SettingsInv
<1>. QED
    BY <1>2, <1>3, <1>4

\* A call finds settings that are ready and nobody inside WriteFile.
LEMMA CalledIn ==
    ASSUME SettingsInv, NEW a \in Api, Called(a)
    PROVE  /\ ~Starting /\ Ready(mem) /\ mem \in Settings /\ mem.conns \in Lists
           /\ Enabled(mem.conns) # {} \/ bare
           /\ \A c \in Caller : call[c] # "torn"
           /\ a \in Caller /\ a # "upgrader"
BY SettingsAre, Constants DEF SettingsInv, Sound, Ready, Called, Serving, Starting, CanUpdate

LEMMA ConnectionCallKeeps ==
    ASSUME SettingsInv, NEW a \in Api, ConnectionCall(a) PROVE SettingsInv'
<1>1. /\ ~Starting /\ Ready(mem) /\ mem \in Settings /\ mem.conns \in Lists
      /\ Enabled(mem.conns) # {} \/ bare
      /\ \A c \in Caller : call[c] # "torn"
      /\ a \in Caller /\ a # "upgrader" /\ snap \in Snaps
    BY CalledIn DEF ConnectionCall, SettingsInv, Types
<1>2. /\ mem' \in Settings /\ Ready(mem') /\ snap' \in Snaps
      /\ Enabled(mem'.conns) # {} \/ bare'
  <2>1. CASE Refused
    BY <1>1, <2>1 DEF Refused
  <2>2. ASSUME NEW f \in Lists, Edits(f)
        PROVE  /\ mem' \in Settings /\ Ready(mem') /\ snap' \in Snaps
               /\ Enabled(mem'.conns) # {} \/ bare'
    BY <1>1, <2>2, Edited
  <2>. QED
    BY <1>1, <2>1, <2>2, CallEdits
<1>3. \A c \in Caller : call'[c] # "torn"
    BY <1>1 DEF SettingsInv, Types, ConnectionCall
<1>4. Types'
    BY <1>1, <1>2 DEF SettingsInv, Types, ConnectionCall, run
<1>5. Quiet'
    BY <1>1 DEF SettingsInv, Types, Quiet, ConnectionCall, run, Starting
<1>6. Sound'
    BY <1>1, <1>2, <1>3, ReadyLoads DEF SettingsInv, Sound, ConnectionCall, run, Starting
<1>. QED
    BY <1>4, <1>5, <1>6 DEF SettingsInv

LEMMA OtherCallsKeep ==
    ASSUME SettingsInv, NEW a \in Api,
           PostUserSettings(a) \/ \E h \in Host : AddBlockedHost(a, h)
    PROVE  SettingsInv'
<1>1. /\ ~Starting /\ Ready(mem) /\ mem \in Settings
      /\ \A c \in Caller : call[c] # "torn"
      /\ a \in Caller /\ a # "upgrader"
    BY CalledIn DEF PostUserSettings, AddBlockedHost
<1>2. CASE PostUserSettings(a)
  <2>1. PICK set \in BOOLEAN : mem' = [mem EXCEPT !.setup = set]
    BY <1>2 DEF PostUserSettings
  <2>2. /\ Ready(mem') /\ mem'.conns = mem.conns
        /\ \A c \in Caller : call'[c] # "torn"
    BY <1>1, <1>2, <2>1, Ready1 DEF SettingsInv, Types, PostUserSettings
  <2>3. Types'
    BY <1>1, <1>2 DEF SettingsInv, Types, PostUserSettings, run
  <2>4. Quiet'
    BY <1>1, <1>2 DEF SettingsInv, Types, Quiet, PostUserSettings, run, Starting
  <2>5. Sound'
    BY <1>1, <1>2, <2>2, ReadyLoads DEF SettingsInv, Sound, PostUserSettings, run, Starting
  <2>. QED
    BY <2>3, <2>4, <2>5 DEF SettingsInv
<1>3. ASSUME NEW h \in Host, AddBlockedHost(a, h) PROVE SettingsInv'
  <2>1. lists' \in Hosts
    BY <1>3 DEF SettingsInv, Types, Hosts, AddBlockedHost
  <2>2. Types'
    BY <1>3, <2>1 DEF SettingsInv, Types, AddBlockedHost, run
  <2>3. Quiet' /\ Sound'
    BY <1>1, <1>3 DEF SettingsInv, Quiet, Sound, AddBlockedHost, run, Starting
  <2>. QED
    BY <2>2, <2>3 DEF SettingsInv
<1>. QED
    BY <1>2, <1>3

LEMMA UpdateKeeps == ASSUME SettingsInv, Update PROVE SettingsInv'
<1>1. CASE AskCentral
  <2>1. PICK week \in Week :
            ask' = [st |-> "asked", id |-> NowID(week), savedID |-> mem.lastID, hosts |-> {}]
    BY <1>1 DEF AskCentral
  <2>2. mem.lastID \in 0 .. 3
    BY SettingsAre DEF SettingsInv, Sound, Loadable
  <2>3. NowID(week) \in 0 .. 3
    <3>1. week \in Nat
      BY SettingsBounds
    <3>. QED
      BY <3>1 DEF NowID
  <2>4. ask' \in Asks /\ ask'.st = "asked"
    BY <2>1, <2>2, <2>3 DEF Asks
  <2>5. call["upgrader"] = "idle"
    BY <1>1, Constants DEF AskCentral, SettingsInv, Quiet
  <2>6. Types'
    BY <1>1, <2>4 DEF SettingsInv, Types, AskCentral, run
  <2>7. Quiet' /\ Sound'
    BY <1>1, <2>4, <2>5 DEF SettingsInv, Quiet, Sound, AskCentral, run, Starting, history
  <2>. QED
    BY <2>6, <2>7 DEF SettingsInv
<1>2. ASSUME NEW h \in SUBSET Host, Answer(h) PROVE SettingsInv'
  <2>1. ask' \in Asks
    BY <1>2 DEF SettingsInv, Types, Asks, Answer
  <2>2. call["upgrader"] = "idle" /\ pc = "up"
    BY <1>2 DEF Answer, SettingsInv, Quiet
  <2>3. Types'
    BY <1>2, <2>1 DEF SettingsInv, Types, Answer, run
  <2>4. Quiet' /\ Sound'
    BY <1>2, <2>2 DEF SettingsInv, Quiet, Sound, Answer, run, Starting, history
  <2>. QED
    BY <2>3, <2>4 DEF SettingsInv
<1>3. CASE AnswerError
  <2>1. call["upgrader"] = "idle" /\ pc = "up"
    BY <1>3 DEF AnswerError, SettingsInv, Quiet
  <2>2. Types'
    BY <1>3, Constants DEF SettingsInv, Types, AnswerError, run
  <2>3. Quiet' /\ Sound'
    BY <1>3, <2>1, Constants DEF SettingsInv, Quiet, Sound, AnswerError, run, Starting, history
  <2>. QED
    BY <2>2, <2>3 DEF SettingsInv
<1>4. CASE SaveID
  <2>1. ~Starting /\ Ready(mem) /\ mem \in Settings /\ ask.id \in 0 .. 3
    BY <1>4 DEF SaveID, Serving, Starting, SettingsInv, Types, Asks, Sound, Ready
  <2>2. /\ Ready(mem') /\ mem'.conns = mem.conns
        /\ \A c \in Caller : call'[c] # "torn"
    BY <1>4, <2>1, Ready1 DEF SettingsInv, Types, SaveID, CanUpdate
  <2>3. Types'
    BY <1>4, Constants DEF SettingsInv, Types, SaveID, run
  <2>4. Quiet'
    BY <1>4, <2>1, Constants DEF SettingsInv, Types, Quiet, SaveID, run, Starting
  <2>5. Sound'
    BY <1>4, <2>1, <2>2, ReadyLoads DEF SettingsInv, Sound, SaveID, run, Starting, history
  <2>. QED
    BY <2>3, <2>4, <2>5 DEF SettingsInv
<1>5. CASE UpdateHosts
  <2>1. lists' \in Hosts
    BY <1>5 DEF SettingsInv, Types, Hosts, Asks, UpdateHosts
  <2>2. call["upgrader"] = "idle" /\ pc = "up"
    BY <1>5 DEF UpdateHosts, SettingsInv, Quiet
  <2>3. Types'
    BY <1>5, <2>1, Constants DEF SettingsInv, Types, UpdateHosts, run
  <2>4. Quiet' /\ Sound'
    BY <1>5, <2>2, Constants DEF SettingsInv, Quiet, Sound, UpdateHosts, run, Starting, history
  <2>. QED
    BY <2>3, <2>4 DEF SettingsInv
<1>. QED
    BY <1>1, <1>2, <1>3, <1>4, <1>5 DEF Update

LEMMA ExitKeeps == ASSUME SettingsInv, Exit PROVE SettingsInv'
<1>1. ~Starting /\ "exit" \in Caller
    BY Constants DEF Exit, Serving, Starting
<1>2. Types'
    BY <1>1 DEF SettingsInv, Types, Exit
<1>3. Quiet'
    BY <1>1 DEF SettingsInv, Types, Quiet, Exit, Starting
<1>4. Sound'
    BY <1>1 DEF SettingsInv, Types, Sound, Exit, Starting, history
<1>. QED
    BY <1>2, <1>3, <1>4 DEF SettingsInv

LEMMA DownKeeps == ASSUME SettingsInv, Down PROVE SettingsInv'
<1>1. Types'
    BY Constants DEF SettingsInv, Types, Down, Idle
<1>2. Quiet'
    BY Constants DEF SettingsInv, Quiet, Down, Idle
<1>3. Sound'
    BY TemplateLoads DEF SettingsInv, Sound, Down, Idle, Starting
<1>. QED
    BY <1>1, <1>2, <1>3 DEF SettingsInv

LEMMA SettingsStutter == ASSUME SettingsInv, UNCHANGED vars PROVE SettingsInv'
BY DEF SettingsInv, Types, Quiet, Sound, Starting, vars, run, history

LEMMA SettingsStep == SettingsInv /\ [Next]_vars => SettingsInv'
<1>. SUFFICES ASSUME SettingsInv, [Next]_vars PROVE SettingsInv'
    OBVIOUS
<1>1. CASE Start
    BY <1>1, ReadKeeps, UpgradeKeeps, StartKeeps DEF Start
<1>2. CASE Writer
    BY <1>2, WriterKeeps DEF Writer
<1>3. CASE Calls
    BY <1>3, ConnectionCallKeeps, OtherCallsKeep DEF Calls
<1>4. CASE Update
    BY <1>4, UpdateKeeps
<1>5. CASE Exit
    BY <1>5, ExitKeeps
<1>6. CASE ExitDone \/ Crash
    BY <1>6, DownKeeps DEF ExitDone, Crash
<1>7. CASE UNCHANGED vars
    BY <1>7, SettingsStutter
<1>. QED
    BY <1>1, <1>2, <1>3, <1>4, <1>5, <1>6, <1>7 DEF Next

THEOREM SettingsInvariant == Spec => []SettingsInv
BY SettingsInit, SettingsStep, PTL DEF Spec

\* Whatever settings a start finds, it serves current ones, or those of a future version as
\* they were, through every edit of the list; and one connection is enabled unless the start
\* found none and no migration adds one, or a disabled connection replaced the last enabled
\* one (UpgradeConfig, the connection calls of api.go).
THEOREM SettingsReadyHolds == Spec => []SettingsReady
<1>1. SettingsInv => SettingsReady
    BY DEF SettingsInv, Sound, SettingsReady, Serving, Starting, Ready
<1>. QED
    BY <1>1, SettingsInvariant, PTL

-----------------------------------------------------------------------------
(* The file *)

\* Migrated settings that are not written are the ones of the file.
LEMMA NotMigrated ==
    ASSUME SettingsInv, Upgrade, \A c \in Caller : call'[c] = "idle"
    PROVE  file = Whole(mem) /\ mem' = mem
<1>1. mem.version >= 6
  <2>1. mem.version \in 0 .. 7
    BY SettingsAre DEF SettingsInv, Sound, Loadable
  <2>. QED
    BY <2>1, Constants DEF Upgrade, SettingsInv, Types
<1>2. mem' = mem
    BY <1>1, Upgraded DEF SettingsInv, Sound, Upgrade
<1>3. mem # Template
    BY <1>1 DEF Template
<1>. QED
    BY <1>2, <1>3 DEF SettingsInv, Sound, Upgrade

LEMMA SavedStep == SettingsInv /\ Saved /\ [Next]_vars => Saved'
<1>. SUFFICES ASSUME SettingsInv, Saved, [Next]_vars PROVE Saved'
    OBVIOUS
<1> USE DEF Saved, Starting
<1>1. CASE Read
    BY <1>1 DEF Read
<1>2. CASE Upgrade
    BY <1>2, NotMigrated DEF Upgrade
<1>3. CASE Serve \/ StartManager \/ StartPac
    BY <1>3 DEF Serve, StartManager, StartPac, history
<1>4. ASSUME NEW c \in Caller, Truncate(c) PROVE Saved'
    BY <1>4 DEF Truncate, SettingsInv, Types
<1>5. ASSUME NEW c \in Caller, Save(c) PROVE Saved'
    BY <1>5 DEF Save, SettingsInv, Sound
<1>6. ASSUME NEW c \in Caller, WriteFails(c) PROVE Saved'
    BY <1>6 DEF WriteFails
<1>7. ASSUME NEW a \in Api, ConnectionCall(a) \/ PostUserSettings(a) PROVE Saved'
    BY <1>7, Constants DEF ConnectionCall, PostUserSettings, SettingsInv, Types
<1>8. ASSUME NEW a \in Api, NEW h \in Host, AddBlockedHost(a, h) PROVE Saved'
    BY <1>8 DEF AddBlockedHost, run
<1>9. CASE AskCentral \/ (\E h \in SUBSET Host : Answer(h)) \/ AnswerError \/ UpdateHosts
    BY <1>9 DEF AskCentral, Answer, AnswerError, UpdateHosts, history, run
<1>10. CASE SaveID
    BY <1>10, Constants DEF SaveID, SettingsInv, Types
<1>11. CASE Exit
    BY <1>11, Constants DEF Exit, SettingsInv, Types
<1>12. CASE ExitDone \/ Crash
    BY <1>12 DEF ExitDone, Crash, Down
<1>13. CASE UNCHANGED vars
    BY <1>13 DEF vars, run, history
<1>. QED
    BY <1>1, <1>2, <1>3, <1>4, <1>5, <1>6, <1>7, <1>8, <1>9, <1>10, <1>11, <1>12, <1>13
    DEF Next, Start, Writer, Calls, Update

\* Update and Write are two critical sections and Writes overlap; still the file holds the
\* settings once nobody is between the two (clientconfig.Update and Write).
THEOREM FileCurrentHolds == Spec => []FileCurrent
<1>1. Init => Saved
    BY DEF Init, Saved, Starting
<1>2. Saved => FileCurrent
    BY DEF Saved, FileCurrent, Serving, Starting
<1>. QED
    BY <1>1, <1>2, SavedStep, SettingsInvariant, PTL DEF Spec

-----------------------------------------------------------------------------
(* The copies of the connection manager and of the PAC generator *)

LEMMA ManagerStep == SettingsInv /\ ManagerInv /\ [Next]_vars => ManagerInv'
<1>. SUFFICES ASSUME SettingsInv, ManagerInv, [Next]_vars PROVE ManagerInv'
    OBVIOUS
<1> USE DEF ManagerInv, ManagerInSync
<1>1. CASE Read \/ Upgrade
    BY <1>1 DEF Read, Upgrade
<1>2. CASE Serve
    BY <1>2 DEF Serve
<1>3. CASE StartManager
    BY <1>3 DEF StartManager, history
<1>4. CASE StartPac
    BY <1>4 DEF StartPac, history
<1>5. ASSUME NEW c \in Caller, Truncate(c) \/ Save(c) \/ WriteFails(c) PROVE ManagerInv'
    BY <1>5 DEF Truncate, Save, WriteFails, run, history
<1>6. ASSUME NEW a \in Api, ConnectionCall(a) PROVE ManagerInv'
  <2>1. /\ ~Starting /\ mem \in Settings /\ mem.conns \in Lists /\ snap \in Snaps
        /\ pc' = pc /\ (Enabled(mem.conns) # {} \/ bare)
    BY <1>6, CalledIn DEF ConnectionCall, SettingsInv, Types, run
  <2>2. CASE Refused
    BY <2>1, <2>2 DEF Refused
  <2>3. ASSUME NEW f \in Lists, Edits(f) PROVE ManagerInv'
    <3>1. /\ mem'.conns = f /\ manager' = Enabled(f)
          /\ pc = "served" /\ "conns" \notin early' => snap'.conns = f
      BY <2>1, <2>3, Edited
    <3>. QED
      BY <2>1, <3>1
  <2>. QED
    BY <1>6, <2>1, <2>2, <2>3, CallEdits
<1>7. ASSUME NEW a \in Api, PostUserSettings(a) PROVE ManagerInv'
  <2>1. ~Starting /\ mem \in Settings /\ Ready(mem)
    BY <1>7, CalledIn DEF PostUserSettings
  <2>2. PICK set \in BOOLEAN : mem' = [mem EXCEPT !.setup = set]
    BY <1>7 DEF PostUserSettings
  <2>3. mem'.conns = mem.conns
    BY <2>1, <2>2, Ready1
  <2>. QED
    BY <1>7, <2>3 DEF PostUserSettings, run, history
<1>8. ASSUME NEW a \in Api, NEW h \in Host, AddBlockedHost(a, h) PROVE ManagerInv'
    BY <1>8 DEF AddBlockedHost, run
<1>9. CASE AskCentral \/ (\E h \in SUBSET Host : Answer(h)) \/ AnswerError \/ UpdateHosts
    BY <1>9 DEF AskCentral, Answer, AnswerError, UpdateHosts, history, run
<1>10. CASE SaveID
  <2>1. ~Starting /\ Ready(mem) /\ mem \in Settings /\ ask.id \in 0 .. 3
    BY <1>10 DEF SaveID, Serving, Starting, SettingsInv, Types, Asks, Sound, Ready
  <2>2. mem'.conns = mem.conns
    BY <1>10, <2>1, Ready1 DEF SaveID
  <2>. QED
    BY <1>10, <2>2 DEF SaveID, run, history
<1>11. CASE Exit
    BY <1>11 DEF Exit, history
<1>12. CASE ExitDone \/ Crash
    BY <1>12 DEF ExitDone, Crash, Down
<1>13. CASE UNCHANGED vars
    BY <1>13 DEF vars, run, history
<1>. QED
    BY <1>1, <1>2, <1>3, <1>4, <1>5, <1>6, <1>7, <1>8, <1>9, <1>10, <1>11, <1>12, <1>13
    DEF Next, Start, Writer, Calls, Update

\* The connection manager works with exactly the enabled connections, unless a call was
\* served before Run used its copy (clientconfig.Get, service.UpdateConnections).
THEOREM ManagerInSyncHolds == Spec => []ManagerInSync
<1>1. Init => ManagerInv
    BY DEF Init, ManagerInv, ManagerInSync
<1>2. ManagerInv => ManagerInSync
    BY DEF ManagerInv
<1>. QED
    BY <1>1, <1>2, ManagerStep, SettingsInvariant, PTL DEF Spec

LEMMA PacStep == SettingsInv /\ PacInv /\ [Next]_vars => PacInv'
<1>. SUFFICES ASSUME SettingsInv, PacInv, [Next]_vars PROVE PacInv'
    OBVIOUS
<1> USE DEF PacInv, PacInSync
<1>1. CASE Read \/ Upgrade
    BY <1>1 DEF Read, Upgrade
<1>2. CASE Serve
    BY <1>2 DEF Serve
<1>3. CASE StartManager
    BY <1>3 DEF StartManager, history
<1>4. CASE StartPac
    BY <1>4 DEF StartPac, history
<1>5. ASSUME NEW c \in Caller, Truncate(c) \/ Save(c) \/ WriteFails(c) PROVE PacInv'
    BY <1>5 DEF Truncate, Save, WriteFails, run, history
<1>6. ASSUME NEW a \in Api, ConnectionCall(a) PROVE PacInv'
  <2>1. /\ ~Starting /\ mem \in Settings /\ mem.conns \in Lists /\ snap \in Snaps
        /\ pc' = pc /\ lists' = lists /\ pac' = pac /\ (Enabled(mem.conns) # {} \/ bare)
    BY <1>6, CalledIn DEF ConnectionCall, SettingsInv, Types, run
  <2>2. snap'.hosts = snap.hosts /\ ("hosts" \in early' <=> "hosts" \in early)
    <3>1. CASE Refused
      BY <3>1 DEF Refused
    <3>2. ASSUME NEW f \in Lists, Edits(f)
          PROVE  snap'.hosts = snap.hosts /\ ("hosts" \in early' <=> "hosts" \in early)
      BY <2>1, <3>2, Edited
    <3>. QED
      BY <1>6, <2>1, <3>1, <3>2, CallEdits
  <2>. QED
    BY <2>1, <2>2
<1>7. ASSUME NEW a \in Api, PostUserSettings(a) PROVE PacInv'
    BY <1>7 DEF PostUserSettings, run, history
<1>8. ASSUME NEW a \in Api, NEW h \in Host, pc # "served", AddBlockedHost(a, h) PROVE PacInv'
    BY <1>8 DEF AddBlockedHost, run
<1>9. CASE AskCentral \/ (\E h \in SUBSET Host : Answer(h)) \/ AnswerError \/ SaveID
    BY <1>9 DEF AskCentral, Answer, AnswerError, SaveID, history, run
<1>10. CASE UpdateHosts
  <2>1. pc = "up" /\ pc' = pc /\ early' = early
    BY <1>10 DEF UpdateHosts, SettingsInv, Quiet, run, history
  <2>2. lists'.central = ask.hosts /\ lists'.local = lists.local
    BY <1>10 DEF UpdateHosts, SettingsInv, Types, Hosts
  <2>. QED
    BY <1>10, <2>1, <2>2 DEF UpdateHosts, BlockedList
<1>11. CASE Exit
    BY <1>11 DEF Exit, history
<1>12. CASE ExitDone \/ Crash
    BY <1>12 DEF ExitDone, Crash, Down
<1>13. CASE UNCHANGED vars
    BY <1>13 DEF vars, run, history
<1>. QED
    BY <1>1, <1>2, <1>3, <1>4, <1>5, <1>6, <1>7, <1>8, <1>9, <1>10, <1>11, <1>12, <1>13
    DEF Next, Start, Writer, Calls, Update

\* The PAC script names the hosts of both lists, however suggestions and block list updates
\* interleave (pac.UpdateBlockedList), with the same exception.
THEOREM PacInSyncHolds == Spec => []PacInSync
<1>1. Init => PacInv
    BY DEF Init, PacInv, PacInSync
<1>2. PacInv => PacInSync
    BY DEF PacInv
<1>. QED
    BY <1>1, <1>2, PacStep, SettingsInvariant, PTL DEF Spec

-----------------------------------------------------------------------------
(* The country *)

LEMMA SetupStep == SettingsInv /\ SetupInv /\ [Next]_vars => SetupInv'
<1>. SUFFICES ASSUME SettingsInv, SetupInv, [Next]_vars PROVE SetupInv'
    OBVIOUS
<1> USE DEF SetupInv
<1>1. CASE Read
  <2>1. pc' # "down"
    BY <1>1 DEF Read
  <2>2. SUFFICES ASSUME ackSetup'
                 PROVE  file'.st = "whole" /\ file'.data.setup /\ mem'.setup
    BY <2>1
  <2>3. PICK readable \in BOOLEAN : /\ mem' = IF readable THEN readSettings ELSE Template
                                    /\ ackSetup' = (ackSetup /\ ~torn /\ readable)
    BY <1>1 DEF Read
  <2>4. ackSetup /\ ~torn /\ readable
    BY <2>2, <2>3
  <2>5. file.st = "whole" /\ file.data.setup /\ file # Torn
    BY <1>1, <2>4 DEF Read, Torn
  <2>. QED
    BY <1>1, <2>3, <2>4, <2>5 DEF Read, readSettings
<1>2. CASE Upgrade
  <2>1. mem'.setup = mem.setup /\ pc = "read"
    BY <1>2, Upgraded DEF Upgrade, SettingsInv, Sound
  <2>. QED
    BY <1>2, <2>1 DEF Upgrade, history
<1>3. CASE Serve \/ StartManager \/ StartPac
    BY <1>3 DEF Serve, StartManager, StartPac, history
<1>4. ASSUME NEW c \in Caller, Truncate(c) PROVE SetupInv'
  <2>1. ~Starting
    BY <1>4, WriterReady DEF Truncate
  <2>. QED
    BY <1>4, <2>1 DEF Truncate, run, history, Starting
<1>5. ASSUME NEW c \in Caller, Save(c) PROVE SetupInv'
  <2>1. ~Starting /\ bytes[c] = mem
    BY <1>5, WriterReady DEF Save, SettingsInv, Sound
  <2>2. file'.st = "whole" /\ file'.data = mem
    BY <1>5, <2>1 DEF Save, Whole
  <2>. QED
    BY <1>5, <2>1, <2>2 DEF Save, run, Starting
<1>6. ASSUME NEW c \in Caller, WriteFails(c) PROVE SetupInv'
    BY <1>6 DEF WriteFails, run
<1>7. ASSUME NEW a \in Api, ConnectionCall(a) PROVE SetupInv'
  <2>1. /\ ~Starting /\ mem \in Settings /\ mem.conns \in Lists /\ snap \in Snaps
        /\ Enabled(mem.conns) # {} \/ bare
    BY <1>7, CalledIn DEF ConnectionCall, SettingsInv, Types
  <2>2. mem'.setup = mem.setup
    <3>1. CASE Refused
      BY <3>1 DEF Refused
    <3>2. ASSUME NEW f \in Lists, Edits(f) PROVE mem'.setup = mem.setup
      BY <2>1, <3>2, Edited
    <3>. QED
      BY <1>7, <2>1, <3>1, <3>2, CallEdits
  <2>. QED
    BY <1>7, <2>1, <2>2 DEF ConnectionCall, run, Starting
<1>8. ASSUME NEW a \in Api, PostUserSettings(a) PROVE SetupInv'
  <2>1. ~Starting /\ mem \in Settings /\ Ready(mem)
    BY <1>8, CalledIn DEF PostUserSettings
  <2>2. PICK set \in BOOLEAN : /\ mem' = [mem EXCEPT !.setup = set]
                               /\ ackSetup' = (ackSetup /\ set)
    BY <1>8 DEF PostUserSettings
  <2>3. mem'.setup = set
    BY <2>1, <2>2, Ready1
  <2>4. UNCHANGED <<pc, file, torn>>
    BY <1>8 DEF PostUserSettings, run
  <2>. QED
    BY <2>1, <2>2, <2>3, <2>4 DEF Starting
<1>9. ASSUME NEW a \in Api, NEW h \in Host, AddBlockedHost(a, h) PROVE SetupInv'
    BY <1>9 DEF AddBlockedHost, run
<1>10. CASE AskCentral \/ (\E h \in SUBSET Host : Answer(h)) \/ AnswerError \/ UpdateHosts
  <2>1. UNCHANGED <<pc, mem, file, torn, ackSetup>>
    BY <1>10 DEF AskCentral, Answer, AnswerError, UpdateHosts, history, run
  <2>. QED
    BY <2>1
<1>11. CASE SaveID
  <2>1. ~Starting /\ Ready(mem) /\ mem \in Settings /\ ask.id \in 0 .. 3
    BY <1>11 DEF SaveID, Serving, Starting, SettingsInv, Types, Asks, Sound, Ready
  <2>2. mem'.setup = mem.setup
    BY <1>11, <2>1, Ready1 DEF SaveID
  <2>. QED
    BY <1>11, <2>1, <2>2 DEF SaveID, run, history, Starting
<1>12. CASE Exit
    BY <1>12 DEF Exit, history
<1>13. CASE ExitDone \/ Crash
  <2>1. /\ pc' = "down" /\ file' = file /\ ackSetup' = ackSetup
        /\ torn' = (file = Torn)
    BY <1>13 DEF ExitDone, Crash, Down
  <2>2. file = Torn => torn'
    BY <2>1, Zenon
  <2>. QED
    BY <2>1, <2>2
<1>14. CASE UNCHANGED vars
    BY <1>14 DEF vars, run, history
<1>. QED
    BY <1>1, <1>2, <1>3, <1>4, <1>5, <1>6, <1>7, <1>8, <1>9, <1>10, <1>11, <1>12, <1>13, <1>14
    DEF Next, Start, Writer, Calls, Update

\* A country that was set, saved and acknowledged, and not unset since, is there after every
\* later start, unless the last Write left the file truncated, having failed or died with
\* the client, or a start could not read the file (PostUserSettings, Write, Read).
THEOREM SetupSurvivesHolds == Spec => []SetupSurvives
<1>1. Init => SetupInv
  <2>. SUFFICES ASSUME Init PROVE SetupInv
    OBVIOUS
  <2>1. CASE file = Absent
    BY <2>1, Constants DEF Init, SetupInv
  <2>2. ASSUME NEW s \in OldFiles, file = Whole(s) PROVE SetupInv
    <3>1. s.setup /\ file.st = "whole" /\ file.data = s /\ file # Torn
      BY <2>2, OldLoads DEF Whole, Torn
    <3>. QED
      BY <3>1 DEF Init, SetupInv
  <2>. QED
    BY <2>1, <2>2 DEF Init
<1>2. SetupInv => SetupSurvives
    BY DEF SetupInv, SetupSurvives, Serving
<1>. QED
    BY <1>1, <1>2, SetupStep, SettingsInvariant, PTL DEF Spec

=============================================================================
