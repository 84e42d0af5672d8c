---------------------------- MODULE ServicesProofs ----------------------------
(***************************************************************************)
(* Proofs about the components that MCServices puts into one run: the      *)
(* single-use keys, the export API, the upgrade of a client's binary, the  *)
(* public address and the making of patches, for any number of keys, rows, *)
(* releases, callers and jobs and any times.                               *)
(***************************************************************************)
EXTENDS MCServices, FiniteSetTheorems, SequenceTheorems, WellFoundedInduction, TLAPS

\* The cardinality of a set is that of the standard module in each of the components.
LEMMA SameCardinality == \A S : U!Cardinality(S) = Cardinality(S) /\ E!Cardinality(S) = Cardinality(S)
BY DEF U!Cardinality, E!Cardinality, Cardinality

-----------------------------------------------------------------------------
(* Single-use keys *)

\* A key in the store was made at the time that is noted there and has not been shown;
\* one that is not there any more, and was never shown, is past its time.
KeyInv ==
    /\ clock \in Nat \ {0} /\ {made, first, uses} \subseteq [Key -> Nat]
    /\ DOMAIN entries \subseteq Key
    /\ \A k \in Key :
          /\ made[k] = 0 => k \notin DOMAIN entries /\ first[k] = 0
          /\ first[k] = 0 => uses[k] = 0
          /\ k \in DOMAIN entries => entries[k] = made[k] /\ first[k] = 0
          /\ made[k] # 0 /\ first[k] = 0 /\ k \notin DOMAIN entries => clock > made[k] + Ttl
    /\ OneUse

LEMMA KeyInit == Init => KeyInv
BY DEF Init, A!AInit, KeyInv, OneUse, A!OneUse

LEMMA KeyStep == KeyInv /\ [Next]_vars => KeyInv'
<1> SUFFICES ASSUME KeyInv, [Next]_vars PROVE KeyInv'
    OBVIOUS
<1>0. Ttl \in Nat
    BY ServicesAssumption
<1> USE <1>0 DEF KeyInv, OneUse, A!OneUse
<1>1. CASE UNCHANGED avars
    BY <1>1 DEF avars
<1>2. CASE A!startInternalHTTPServer \/ A!Serve \/ A!CopyBrowserCode \/ \E b \in Browser : A!ShowAuthKey(b)
    BY <1>2 DEF A!startInternalHTTPServer, A!Serve, A!CopyBrowserCode, A!ShowAuthKey
<1>3. CASE A!Tick
    BY <1>3 DEF A!Tick
<1>4. CASE A!Cleanup
    BY <1>4 DEF A!Cleanup
<1>5. ASSUME NEW k \in Key, A!New(k) PROVE KeyInv'
    BY <1>5 DEF A!New
<1>6. ASSUME NEW k \in Key, NEW b \in Browser, A!ShowKey(b, k) PROVE KeyInv'
    BY <1>6 DEF A!ShowKey, A!Authenticate
<1>. QED
    BY <1>1, <1>2, <1>3, <1>4, <1>5, <1>6 DEF Next, A!ANext, vars, avars

\* A single-use key opens the door once if it is shown in time, and never otherwise,
\* however cleaning up, expiry and concurrent requests interleave.
THEOREM OneUseHolds == Spec => []OneUse
BY KeyInit, KeyStep, PTL DEF Spec, KeyInv

-----------------------------------------------------------------------------
(* The login of the export API *)

\* A token expires MaxRefresh + Timeout after its login at the latest, and remembers when
\* that was.
LoginInv ==
    /\ now \in Nat /\ oldest \in Nat /\ token \in [exp : Nat, orig_iat : Nat, born : Nat]
    /\ token.born = token.orig_iat /\ token.born <= now
    /\ token.exp <= token.orig_iat + MaxRefresh + Timeout
    /\ LoginFades

LEMMA LoginInit == Init => LoginInv
BY ServicesAssumption DEF Init, E!EInit, E!NoToken, LoginInv, LoginFades, E!LoginFades

LEMMA LoginStep == LoginInv /\ [Next]_vars => LoginInv'
<1> SUFFICES ASSUME LoginInv, [Next]_vars PROVE LoginInv'
    OBVIOUS
<1>0. Timeout \in Nat /\ MaxRefresh \in Nat
    BY ServicesAssumption
<1> USE <1>0 DEF LoginInv, LoginFades, E!LoginFades, E!UserOnly
<1>1. CASE UNCHANGED <<now, oldest, token>>
    BY <1>1
<1>2. CASE E!Tick
    BY <1>2 DEF E!Tick
<1>3. ASSUME NEW pw, E!LoginHandler(pw) PROVE LoginInv'
    BY <1>3 DEF E!LoginHandler
<1>4. E!parseToken => E!Older \in Nat /\ E!Older <= MaxRefresh + Timeout
    BY DEF E!parseToken, E!Older, E!Age
<1>5. CASE E!RefreshHandler
    BY <1>4, <1>5 DEF E!RefreshHandler
<1>6. CASE E!GetExport \/ \E k \in 0..PageLength : E!GetExportFails(k)
    BY <1>4, <1>6 DEF E!GetExport, E!GetExportFails
<1>7. CASE E!Disable \/ E!StartExport \/ \E i \in 1..MaxID : E!InsertRow(i)
    BY <1>1, <1>7 DEF E!Disable, E!StartExport, E!InsertRow, E!TableOnly
<1>. QED
    BY <1>1, <1>2, <1>3, <1>5, <1>6, <1>7 DEF Next, E!ENext, vars, evars

\* No request is served later than MaxRefresh + Timeout after the login it goes back to.
THEOREM LoginFadesHolds == Spec => []LoginFades
BY LoginInit, LoginStep, PTL DEF Spec, LoginInv

-----------------------------------------------------------------------------
(* The upgrade of a client's binary *)

\* Whatever central has a row of, and the client found, is a release; what the client found
\* is newer than what it runs.
UpgradeInv ==
    /\ \E n \in 1..Release : released = 1..n
    /\ disk \in released /\ running \in released \cup {0}
    /\ \A d \in diffs : d[2] \in released
    /\ upgrades \subseteq [version : released, published : BOOLEAN]
    /\ inserting \subseteq released
    /\ running = 0 => check = "idle"
    /\ check = "found" => found \in released /\ found > running /\ running # 0

LEMMA UpgradeInit == Init => UpgradeInv
<1>1. Release \in Nat \ {0} /\ 1 \in 1..Release /\ 1..1 = {1}
    BY ServicesAssumption
<1>. QED
    BY <1>1 DEF Init, U!UInit, UpgradeInv

LEMMA LatestReleased == UpgradeInv => U!Latest \in released
<1> SUFFICES ASSUME UpgradeInv PROVE U!Latest \in released
    OBVIOUS
<1>1. PICK n \in 1..Release : released = 1..n
    BY DEF UpgradeInv
<1>2. n \in released /\ \A w \in released : w <= n
    BY <1>1, ServicesAssumption
<1>. QED
    BY <1>2 DEF U!Latest

LEMMA UpgradeStep == UpgradeInv /\ [Next]_vars => UpgradeInv'
<1> SUFFICES ASSUME UpgradeInv, [Next]_vars PROVE UpgradeInv'
    OBVIOUS
<1>0. Release \in Nat \ {0}
    BY ServicesAssumption
<1> USE DEF UpgradeInv, U!Central, U!Client
<1>1. CASE UNCHANGED uvars
    BY <1>1 DEF uvars
<1>2. ASSUME NEW v \in 2..Release, U!Build(v) PROVE UpgradeInv'
  <2>1. PICK n \in 1..Release : released = 1..n
    OBVIOUS
  <2>2. n \in Nat /\ Cardinality(1..n) = n
    BY <2>1, <1>0, FS_Interval
  <2>3. v = n + 1 /\ v \in 1..Release /\ released' = 1..v
    BY <1>0, <1>2, <2>1, <2>2, SameCardinality DEF U!Build
  <2>4. released \subseteq released'
    BY <1>2 DEF U!Build
  <2>. QED
    BY <1>2, <2>3, <2>4 DEF U!Build
<1>3. CASE U!createUpgradeAuto
  <2>1. PICK old \in SUBSET (released \ {U!Latest}) : diffs' = diffs \cup (old \X {U!Latest})
    BY <1>3 DEF U!createUpgradeAuto
  <2>2. \A d \in diffs' : d[2] \in released
    BY <2>1, LatestReleased
  <2>. QED
    BY <1>3, <2>2 DEF U!createUpgradeAuto
<1>4. CASE U!insertUpgrades
    BY <1>4 DEF U!insertUpgrades
<1>5. ASSUME NEW v \in 2..Release, U!InsertUpgrade(v) PROVE UpgradeInv'
  <2>1. upgrades' \subseteq upgrades \cup {[version |-> v, published |-> FALSE]} /\ v \in released
    BY <1>5 DEF U!InsertUpgrade
  <2>2. [version |-> v, published |-> FALSE] \in [version : released, published : BOOLEAN]
    BY <2>1, Zenon
  <2>3. inserting' \subseteq released
    BY <1>5 DEF U!InsertUpgrade
  <2>. QED
    BY <1>5, <2>1, <2>2, <2>3 DEF U!InsertUpgrade
<1>6. ASSUME NEW u \in upgrades, U!Publish(u) PROVE UpgradeInv'
    BY <1>6 DEF U!Publish
<1>7. ASSUME NEW u \in upgrades, U!GetUpgrade(u) PROVE UpgradeInv'
    BY <1>7 DEF U!GetUpgrade
<1>8. CASE U!StartClient \/ U!StopClient \/ U!Ask \/ U!NoUpgrade
    BY <1>8 DEF U!StartClient, U!StopClient, U!Ask, U!NoUpgrade
<1>9. ASSUME NEW ok \in BOOLEAN, U!Apply(ok) PROVE UpgradeInv'
    BY <1>9 DEF U!Apply
<1>. QED
    BY <1>1, <1>2, <1>3, <1>4, <1>5, <1>6, <1>7, <1>8, <1>9 DEF Next, U!UNext, vars, uvars

LEMMA UpgradeForward == UpgradeInv /\ [Next]_vars => [disk' \in released /\ disk' >= disk]_disk
<1> SUFFICES ASSUME UpgradeInv, [Next]_vars, disk' # disk
             PROVE  disk' \in released /\ disk' >= disk
    OBVIOUS
<1>0. released \subseteq 1..Release /\ Release \in Nat
    BY ServicesAssumption DEF UpgradeInv
<1>1. PICK ok \in BOOLEAN : U!Apply(ok)
    BY DEF Next, U!UNext, vars, uvars, U!Central, U!Client, U!Build, U!createUpgradeAuto,
           U!insertUpgrades, U!InsertUpgrade, U!Publish, U!GetUpgrade, U!StartClient,
           U!StopClient, U!Ask, U!NoUpgrade
<1>2. U!Patched(ok) = found /\ disk' = found /\ check = "found"
    BY <1>1 DEF U!Apply
<1>3. found \in released /\ found # Garbage
    BY <1>0, <1>2, ServicesAssumption DEF UpgradeInv
<1>4. disk = running
    BY <1>2, <1>3 DEF U!Patched
<1>. QED
    BY <1>0, <1>2, <1>3, <1>4 DEF UpgradeInv

\* The client's binary is always a release and is never replaced by an older one, with any
\* answers of central, damaged or missing patches and upgrades without a restart.
THEOREM NeverBackwardsHolds == Spec => NeverBackwards
<1>1. UpgradeInv /\ [Next]_vars => [disk' \in released /\ disk' >= disk]_disk
    BY UpgradeForward
<1>. QED
    BY <1>1, UpgradeInit, UpgradeStep, PTL DEF Spec, NeverBackwards, U!NeverBackwards

-----------------------------------------------------------------------------
(* Ranks in a finite set of numbers *)

Above(S, i) == Cardinality({j \in S : j > i})

LEMMA Least ==
    ASSUME NEW T, T \subseteq Nat, T # {}
    PROVE  \E x \in T : \A y \in T : x <= y
<1> DEFINE R == {p \in Nat \X Nat : p[1] < p[2]}
<1>1. IsWellFoundedOn(R, Nat)
    BY NatLessThanWellFounded DEF OpToRel
<1>2. \A x, y \in Nat : y < x => <<y, x>> \in R
    OBVIOUS
<1> HIDE DEF R
<1>3. PICK x \in T : \A y \in T : ~(<<y, x>> \in R)
    BY <1>1, WFMin
<1>4. ASSUME NEW y \in T PROVE x <= y
  <2>1. x \in Nat /\ y \in Nat
    BY <1>3
  <2>2. ~(y < x)
    BY <1>2, <1>3, <2>1
  <2>. QED
    BY <2>1, <2>2
<1>. QED
    BY <1>3, <1>4

\* The rank of an element is below the size of its set, and lower the greater it is.
LEMMA AboveFalls ==
    ASSUME NEW S, S \subseteq Nat, IsFiniteSet(S)
    PROVE  /\ Cardinality(S) \in Nat
           /\ \A i \in S : Above(S, i) \in Nat /\ Above(S, i) < Cardinality(S)
           /\ \A i, k \in S : i < k => Above(S, k) < Above(S, i)
<1>1. Cardinality(S) \in Nat
    BY FS_CardinalityType
<1>2. ASSUME NEW i \in S PROVE /\ IsFiniteSet({j \in S : j > i})
                               /\ Above(S, i) \in Nat /\ Above(S, i) < Cardinality(S)
  <2>1. {j \in S : j > i} \in SUBSET S /\ i \notin {j \in S : j > i}
    BY i \in Nat
  <2>2. IsFiniteSet({j \in S : j > i}) /\ Above(S, i) <= Cardinality(S) /\ Above(S, i) # Cardinality(S)
    BY <2>1, FS_Subset DEF Above
  <2>3. Above(S, i) \in Nat
    BY <2>2, FS_CardinalityType DEF Above
  <2>. QED
    BY <1>1, <2>2, <2>3
<1>3. ASSUME NEW i \in S, NEW k \in S, i < k PROVE Above(S, k) < Above(S, i)
  <2>1. \A j \in S : j > k => j > i
    BY <1>3
  <2>2. {j \in S : j > k} \in SUBSET {j \in S : j > i}
    BY <2>1
  <2>3. k \in {j \in S : j > i} /\ k \notin {j \in S : j > k}
    BY <1>3, k \in Nat
  <2>4. Above(S, k) <= Above(S, i) /\ Above(S, k) # Above(S, i)
    BY <1>2, <2>2, <2>3, FS_Subset DEF Above
  <2>5. Above(S, i) \in Nat /\ Above(S, k) \in Nat
    BY <1>2
  <2>. QED
    BY <2>4, <2>5
<1>. QED
    BY <1>1, <1>2, <1>3

\* The elements of a set S between the i-th and its next neighbour.
LEMMA AboveNext ==
    ASSUME NEW S, S \subseteq Nat, IsFiniteSet(S), NEW i \in S, Above(S, i) > 0
    PROVE  \E m \in S : Above(S, m) = Above(S, i) - 1
<1> DEFINE T == {j \in S : j > i}
<1>1. IsFiniteSet(T) /\ T # {} /\ T \subseteq Nat
  <2>1. T \in SUBSET S
    OBVIOUS
  <2>2. IsFiniteSet(T)
    BY <2>1, FS_Subset
  <2>3. Cardinality(T) # 0
    BY AboveFalls DEF Above
  <2>. QED
    BY <2>1, <2>2, <2>3, FS_EmptySet
<1>2. PICK m \in T : \A y \in T : m <= y
    BY <1>1, Least
<1>3. {j \in S : j > m} = T \ {m}
  <2>1. i \in Nat /\ m \in Nat /\ m > i
    BY <1>2
  <2>2. \A j \in S : j > m <=> j > i /\ j # m
    BY <1>2, <2>1
  <2>. QED
    BY <2>2
<1>4. Cardinality(T \ {m}) = Cardinality(T) - 1
    BY <1>1, <1>2, FS_RemoveElement
<1>. QED
    BY <1>2, <1>3, <1>4 DEF Above

\* Every rank below the size of a set is the rank of an element.
LEMMA AboveOnto ==
    ASSUME NEW S, S \subseteq Nat, IsFiniteSet(S), NEW n \in Nat, n < Cardinality(S)
    PROVE  \E k \in S : Above(S, k) = n
<1> DEFINE T == {Above(S, i) : i \in {k \in S : Above(S, k) >= n}}
<1>1. S # {}
    BY FS_EmptySet
<1>2. PICK s \in S : \A y \in S : s <= y
    BY <1>1, Least
<1>3. {j \in S : j > s} = S \ {s}
  <2>1. \A j \in S : j > s <=> j # s
    BY <1>2
  <2>. QED
    BY <2>1
<1>4. Above(S, s) = Cardinality(S) - 1
    BY <1>3, FS_RemoveElement DEF Above
<1>5. T # {} /\ T \subseteq Nat
  <2>0. Cardinality(S) \in Nat
    BY AboveFalls
  <2>1. Above(S, s) >= n
    BY <1>4, <2>0
  <2>2. \A i \in S : Above(S, i) \in Nat
    BY AboveFalls
  <2>. QED
    BY <2>1, <2>2
<1>6. PICK a \in T : \A y \in T : a <= y
    BY <1>5, Least
<1>7. PICK k \in S : a = Above(S, k) /\ a >= n
    OBVIOUS
<1>8. a = n
  <2>1. SUFFICES ASSUME a > n PROVE FALSE
    BY <1>5, <1>7
  <2>2. PICK m \in S : Above(S, m) = a - 1
    <3>1. Above(S, k) > 0
      BY <1>5, <1>7, <2>1
    <3>. QED
      BY <1>7, <3>1, AboveNext
  <2>3. a - 1 \in T
    BY <1>5, <2>1, <2>2
  <2>. QED
    BY <1>5, <1>6, <2>3
<1>. QED
    BY <1>7, <1>8

-----------------------------------------------------------------------------
(* The pages of an export *)

Descends(s) == \A m, n \in DOMAIN s : m < n => s[n] < s[m]

\* The first k rows of a query, and those that come after them.
LEMMA FoundRows ==
    ASSUME rows \subseteq 1..MaxID, idMax \in Nat, NEW k \in Nat
    PROVE  /\ E!Candidates \subseteq Nat /\ IsFiniteSet(E!Candidates)
           /\ E!Found(k) = {i \in E!Candidates : Above(E!Candidates, i) < k}
           /\ E!Nth(k + 1) = {} => E!Found(k) = E!Candidates
<1> DEFINE C == E!Candidates
<1>0. MaxID \in Nat
    BY ServicesAssumption
<1>1. C \in SUBSET (1..MaxID) /\ C \subseteq Nat
  <2>1. C \in SUBSET (1..MaxID)
    BY DEF E!Candidates
  <2>. QED
    BY <1>0, <2>1
<1>2. IsFiniteSet(C)
  <2>1. IsFiniteSet(1..MaxID)
    BY <1>0, FS_Interval
  <2>. QED
    BY <1>1, <2>1, FS_Subset
<1>3. \A i \in C : Above(C, i) \in Nat /\ Above(C, i) < Cardinality(C)
    BY <1>1, <1>2, AboveFalls
<1>4. Cardinality(C) \in Nat
    BY <1>1, <1>2, AboveFalls
<1> HIDE DEF C
<1>5. \A n : E!Nth(n) = {i \in C : Above(C, i) = n - 1}
    BY SameCardinality DEF E!Nth, Above, C
<1>6. E!Found(k) = {i \in C : Above(C, i) < k}
  <2>1. ASSUME NEW i \in C, Above(C, i) < k PROVE i \in E!Found(k)
    <3>1. Above(C, i) + 1 \in 1..k /\ Above(C, i) = (Above(C, i) + 1) - 1
      BY <1>0, <1>3, <2>1
    <3>. QED
      BY <1>5, <3>1 DEF E!Found
  <2>2. ASSUME NEW i \in E!Found(k) PROVE i \in C /\ Above(C, i) < k
    <3>1. PICK n \in 1..k : i \in C /\ Above(C, i) = n - 1
      BY <1>5 DEF E!Found
    <3>. QED
      BY <1>0, <3>1
  <2>. QED
    BY <2>1, <2>2
<1>7. ASSUME E!Nth(k + 1) = {} PROVE E!Found(k) = C
  <2>1. \A i \in C : Above(C, i) # k
    BY <1>0, <1>5, <1>7
  <2>2. ~(k < Cardinality(C))
    BY <1>0, <1>1, <1>2, <2>1, AboveOnto
  <2>. QED
    BY <1>0, <1>3, <1>4, <1>6, <2>2
<1>. QED
    BY <1>1, <1>2, <1>6, <1>7 DEF C

\* A page has the rows found that scan, newest first.
LEMMA PageRows ==
    ASSUME rows \subseteq 1..MaxID, idMax \in Nat, NEW k \in Nat
    PROVE  /\ E!Read(k) \in Seq(Nat) /\ Descends(E!Read(k))
           /\ E!Range(E!Read(k)) = E!Found(k) \ damaged
<1> DEFINE G == E!Found(k) \ damaged
           P == E!Read(k)
           N == Cardinality(G)
<1>1. G \subseteq Nat /\ IsFiniteSet(G)
    BY FoundRows, FS_Subset
<1>2. N \in Nat /\ \A i \in G : Above(G, i) \in Nat /\ Above(G, i) < N
    BY <1>1, AboveFalls
<1>3. \A i, j \in G : i < j => Above(G, j) < Above(G, i)
    BY <1>1, AboveFalls
<1>4. P = [n \in 1..N |-> CHOOSE i \in G : Above(G, i) = n - 1]
    BY DEF E!Read, Above, E!Cardinality, Cardinality
<1> HIDE DEF G, P, N
<1>5. ASSUME NEW n \in 1..N PROVE P[n] \in G /\ Above(G, P[n]) = n - 1
  <2>1. n - 1 \in Nat /\ n - 1 < N
    BY <1>2
  <2>2. \E i \in G : Above(G, i) = n - 1
    BY <1>1, <2>1, AboveOnto DEF N
  <2>. QED
    BY <1>4, <2>2
<1>6. P \in Seq(Nat) /\ DOMAIN P = 1..N
  <2>1. P \in [1..N -> Nat]
    BY <1>1, <1>4, <1>5
  <2>. QED
    BY <1>2, <2>1
<1>7. Descends(P)
  <2>1. SUFFICES ASSUME NEW m \in 1..N, NEW n \in 1..N, m < n PROVE P[n] < P[m]
    BY <1>6 DEF Descends
  <2>2. P[n] \in Nat /\ P[m] \in Nat
    BY <1>1, <1>5
  <2>3. Above(G, P[n]) = n - 1 /\ Above(G, P[m]) = m - 1 /\ P[n] \in G /\ P[m] \in G
    BY <1>5
  <2>4. CASE P[m] < P[n]
    BY <1>2, <1>3, <2>1, <2>3, <2>4
  <2>5. CASE P[m] = P[n]
    BY <1>2, <2>1, <2>3, <2>5
  <2>. QED
    BY <2>2, <2>4, <2>5
<1>8. ASSUME NEW i \in G PROVE i \in E!Range(P)
  <2>1. Above(G, i) + 1 \in 1..N
    BY <1>2
  <2>2. P[Above(G, i) + 1] \in G /\ Above(G, P[Above(G, i) + 1]) = Above(G, i)
    BY <1>2, <1>5, <2>1
  <2>3. P[Above(G, i) + 1] = i
    <3> DEFINE j == P[Above(G, i) + 1]
    <3>1. j \in Nat /\ i \in Nat /\ Above(G, i) \in Nat
      BY <1>1, <1>2, <2>2
    <3>2. ~(j < i) /\ ~(i < j)
      BY <1>3, <2>2, <3>1
    <3>. QED
      BY <3>1, <3>2
  <2>. QED
    BY <1>6, <2>1, <2>3 DEF E!Range
<1>9. E!Range(P) \subseteq G
    BY <1>5, <1>6 DEF E!Range
<1>. QED
    BY <1>6, <1>7, <1>8, <1>9 DEF G, P

\* An export has all rows that scan down to the link it follows next.
PagesInv ==
    /\ rows \subseteq 1..MaxID /\ damaged \subseteq rows /\ atStart \subseteq rows
    /\ idMax \in Nat /\ pages \in Seq(Nat) /\ Descends(pages)
    /\ export \in {"off", "reading"} /\ idMax = 0 => pages = <<>>
    /\ export = "off" => idMax = 0
    /\ export = "reading" /\ idMax # 0 =>
          /\ \A n \in DOMAIN pages : pages[n] >= idMax
          /\ \A i \in atStart \ damaged : i >= idMax => i \in E!Range(pages)
    /\ \A n \in DOMAIN pages : {i \in atStart \ damaged : i >= pages[n]} \subseteq E!Range(pages)
    /\ export = "done" /\ ~broken => atStart \ damaged \subseteq E!Range(pages)

LEMMA PagesInit == Init => PagesInv
BY DEF Init, E!EInit, PagesInv, Descends

\* A page put after what has been exported.
LEMMA PagesGrow ==
    ASSUME PagesInv, export = "reading", NEW k \in Nat
    PROVE  LET q == pages \o E!Read(k) IN
           /\ q \in Seq(Nat) /\ Descends(q) /\ E!Range(q) = E!Range(pages) \cup (E!Found(k) \ damaged)
           /\ E!Read(k) # <<>> => \A n \in DOMAIN q : q[n] >= E!Read(k)[Len(E!Read(k))]
           /\ \A n \in DOMAIN q : {i \in atStart \ damaged : i >= q[n]} \subseteq E!Range(q)
<1> DEFINE P == E!Read(k)
           q == pages \o P
<1>1. pages \in Seq(Nat) /\ P \in Seq(Nat) /\ Descends(pages) /\ Descends(P)
    BY PageRows DEF PagesInv
<1>2. E!Range(P) = E!Found(k) \ damaged
    BY PageRows DEF PagesInv
<1>3. \A n \in DOMAIN P : P[n] \in E!Candidates
  <2>1. E!Found(k) \subseteq E!Candidates
    BY FoundRows DEF PagesInv
  <2>. QED
    BY <1>2, <2>1 DEF E!Range
<1>4. \A n \in DOMAIN P : idMax = 0 \/ P[n] < idMax
    BY <1>3 DEF E!Candidates
<1>5. \A m \in DOMAIN pages : idMax # 0 /\ pages[m] >= idMax
    BY DEF PagesInv
<1>6. idMax \in Nat
    BY DEF PagesInv
<1> HIDE DEF P
<1>7. /\ q \in Seq(Nat) /\ Len(q) = Len(pages) + Len(P) /\ DOMAIN q = 1..Len(q)
      /\ DOMAIN pages = 1..Len(pages) /\ DOMAIN P = 1..Len(P)
      /\ Len(pages) \in Nat /\ Len(P) \in Nat
      /\ \A n \in 1..Len(pages) : q[n] = pages[n] /\ pages[n] \in Nat
      /\ \A n \in 1..Len(P) : q[Len(pages) + n] = P[n] /\ P[n] \in Nat
    BY <1>1
<1>8. \A n \in DOMAIN q : n \in 1..Len(pages) \/ (n - Len(pages) \in 1..Len(P) /\ n = Len(pages) + (n - Len(pages)))
    BY <1>7
<1> HIDE DEF q
<1>9. \A m \in DOMAIN pages, n \in DOMAIN P : P[n] < pages[m]
    BY <1>4, <1>5, <1>6, <1>7
<1>10. Descends(q)
  <2>1. SUFFICES ASSUME NEW m \in DOMAIN q, NEW n \in DOMAIN q, m < n PROVE q[n] < q[m]
    BY DEF Descends
  <2>2. CASE n \in 1..Len(pages)
    <3>1. m \in 1..Len(pages)
      BY <1>7, <2>1, <2>2
    <3>. QED
      BY <1>1, <1>7, <2>1, <2>2, <3>1 DEF Descends
  <2>3. ASSUME NEW j \in 1..Len(P), n = Len(pages) + j, m \in 1..Len(pages) PROVE q[n] < q[m]
    BY <1>7, <1>9, <2>3
  <2>4. ASSUME NEW j \in 1..Len(P), n = Len(pages) + j,
               NEW l \in 1..Len(P), m = Len(pages) + l PROVE q[n] < q[m]
    <3>1. l < j
      BY <1>7, <2>1, <2>4
    <3>. QED
      BY <1>1, <1>7, <2>4, <3>1 DEF Descends
  <2>. QED
    BY <1>8, <2>2, <2>3, <2>4
<1>11. E!Range(q) = E!Range(pages) \cup E!Range(P)
  <2>1. \A n \in DOMAIN q : q[n] \in E!Range(pages) \cup E!Range(P)
    BY <1>7, <1>8 DEF E!Range
  <2>2. \A n \in DOMAIN pages : n \in DOMAIN q /\ q[n] = pages[n]
    BY <1>7
  <2>3. \A n \in DOMAIN P : Len(pages) + n \in DOMAIN q /\ q[Len(pages) + n] = P[n]
    BY <1>7
  <2>. QED
    BY <2>1, <2>2, <2>3 DEF E!Range
<1>12. ASSUME P # <<>>, NEW n \in DOMAIN q PROVE q[n] >= P[Len(P)]
  <2>1. Len(P) \in DOMAIN P
    BY <1>1, <1>12
  <2>2. CASE n \in 1..Len(pages)
    BY <1>7, <1>9, <2>1, <2>2
  <2>3. ASSUME NEW j \in 1..Len(P), n = Len(pages) + j PROVE q[n] >= P[Len(P)]
    <3>1. j < Len(P) => P[Len(P)] < P[j]
      BY <1>1, <1>7, <2>1 DEF Descends
    <3>2. q[n] = P[j] /\ P[j] \in Nat /\ P[Len(P)] \in Nat
      BY <1>7, <2>1, <2>3
    <3>3. j < Len(P) \/ j = Len(P)
      BY Len(P) \in Nat, <1>1
    <3>. QED
      BY <3>1, <3>2, <3>3
  <2>. QED
    BY <1>8, <2>2, <2>3
<1>13. \A n \in DOMAIN P : P[n] \in E!Found(k)
    BY <1>2 DEF E!Range
<1>14. /\ E!Candidates \subseteq Nat
       /\ E!Found(k) = {i \in E!Candidates : Above(E!Candidates, i) < k}
       /\ \A i \in E!Candidates : Above(E!Candidates, i) \in Nat
       /\ \A i, j \in E!Candidates : i < j => Above(E!Candidates, j) < Above(E!Candidates, i)
  <2>1. E!Candidates \subseteq Nat /\ IsFiniteSet(E!Candidates)
        /\ E!Found(k) = {i \in E!Candidates : Above(E!Candidates, i) < k}
    BY FoundRows DEF PagesInv
  <2>. QED
    BY <2>1, AboveFalls
<1>15. ASSUME NEW n \in DOMAIN q, NEW i \in atStart \ damaged, i >= q[n] PROVE i \in E!Range(q)
  <2>1. i \in rows /\ i \in Nat
    BY ServicesAssumption DEF PagesInv
  <2>2. CASE n \in 1..Len(pages)
    BY <1>7, <1>11, <1>15, <2>2 DEF PagesInv
  <2>3. CASE idMax # 0 /\ i >= idMax
    BY <1>11, <2>3 DEF PagesInv
  <2>4. ASSUME NEW j \in 1..Len(P), n = Len(pages) + j, idMax = 0 \/ ~(i >= idMax) PROVE i \in E!Range(q)
    <3>1. i \in E!Candidates
      BY <1>6, <2>1, <2>4 DEF E!Candidates
    <3>2. P[j] \in E!Found(k) /\ q[n] = P[j] /\ P[j] \in Nat
      BY <1>7, <1>13, <2>4
    <3>3. i = P[j] \/ P[j] < i
      BY <1>15, <2>1, <3>2
    <3>4. P[j] \in E!Candidates /\ Above(E!Candidates, P[j]) < k
      BY <1>14, <3>2
    <3>5. /\ Above(E!Candidates, i) \in Nat /\ Above(E!Candidates, P[j]) \in Nat
          /\ P[j] < i => Above(E!Candidates, i) < Above(E!Candidates, P[j])
      BY <1>14, <3>1, <3>4
    <3>6. Above(E!Candidates, i) < k
      BY <3>3, <3>4, <3>5
    <3>7. i \in E!Found(k)
      BY <1>14, <3>1, <3>6
    <3>. QED
      BY <1>2, <1>11, <3>7
  <2>. QED
    BY <1>8, <2>2, <2>3, <2>4
<1>. QED
    BY <1>2, <1>7, <1>10, <1>11, <1>12, <1>15 DEF P, q

LEMMA GetExportStep == PagesInv /\ E!GetExport => PagesInv'
<1> SUFFICES ASSUME PagesInv, E!GetExport PROVE PagesInv'
    OBVIOUS
<1> DEFINE P == E!Page
           q == pages \o P
           link == E!NextLink
<1>0. /\ export = "reading" /\ UNCHANGED <<rows, damaged, atStart>>
      /\ broken' = (broken \/ E!LookAhead \cap damaged # {})
      /\ \/ link = {0} /\ export' = "panicked" /\ UNCHANGED <<idMax, pages>>
         \/ link = {} /\ export' = "done" /\ pages' = q /\ UNCHANGED idMax
         \/ link # {0} /\ link # {} /\ idMax' = (CHOOSE i \in link : TRUE) /\ pages' = q /\ UNCHANGED export
    BY DEF E!GetExport
<1>1. /\ q \in Seq(Nat) /\ Descends(q) /\ E!Range(q) = E!Range(pages) \cup (E!Found(PageLength) \ damaged)
      /\ P # <<>> => \A n \in DOMAIN q : q[n] >= P[Len(P)]
      /\ \A n \in DOMAIN q : {i \in atStart \ damaged : i >= q[n]} \subseteq E!Range(q)
    BY <1>0, ServicesAssumption, PagesGrow DEF E!Page
<1>2. /\ E!Candidates \subseteq Nat /\ IsFiniteSet(E!Candidates)
      /\ E!Found(PageLength) = {i \in E!Candidates : Above(E!Candidates, i) < PageLength}
      /\ E!LookAhead = {} => E!Found(PageLength) = E!Candidates
    BY ServicesAssumption, FoundRows DEF PagesInv, E!LookAhead
<1>3. P \in Seq(Nat) /\ E!Range(P) = E!Found(PageLength) \ damaged
    BY ServicesAssumption, PageRows DEF PagesInv, E!Page
<1>4. idMax \in Nat /\ PageLength \in Nat /\ rows \subseteq Nat
    BY ServicesAssumption DEF PagesInv
<1> HIDE DEF P, q, link
<1>5. CASE link = {0} /\ export' = "panicked" /\ UNCHANGED <<idMax, pages>>
    BY <1>0, <1>5 DEF PagesInv
<1>6. CASE link = {} /\ export' = "done" /\ pages' = q /\ UNCHANGED idMax
  <2>1. ASSUME ~broken' PROVE atStart \ damaged \subseteq E!Range(q)
    <3>1. E!LookAhead \subseteq damaged
      BY <1>6 DEF link, E!NextLink
    <3>2. E!LookAhead = {}
      BY <1>0, <2>1, <3>1
    <3>3. \A i \in atStart \ damaged : i \in E!Candidates \/ (idMax # 0 /\ i >= idMax)
      BY <1>4 DEF PagesInv, E!Candidates
    <3>. QED
      BY <1>0, <1>1, <1>2, <3>2, <3>3 DEF PagesInv
  <2>. QED
    BY <1>0, <1>1, <1>6, <2>1 DEF PagesInv, E!Range
<1>7. CASE link # {0} /\ link # {} /\ idMax' = (CHOOSE i \in link : TRUE) /\ pages' = q /\ UNCHANGED export
  <2>1. P # <<>> /\ link = {P[Len(P)]} /\ idMax' = P[Len(P)] /\ idMax' # 0
    BY <1>7 DEF link, E!NextLink, P
  <2>2. Len(P) \in DOMAIN P /\ idMax' \in Nat
    BY <1>3, <2>1
  <2>3. idMax' \in E!Found(PageLength)
    BY <1>3, <2>1, <2>2 DEF E!Range
  <2>4. ASSUME NEW i \in atStart \ damaged, i >= idMax' PROVE i \in E!Range(q)
    <3>1. CASE idMax # 0 /\ i >= idMax
      BY <1>0, <1>1, <3>1 DEF PagesInv
    <3>2. CASE i \in E!Candidates
      <4>1. Above(E!Candidates, i) <= Above(E!Candidates, idMax')
        <5>1. i = idMax' \/ idMax' < i
          BY <1>2, <2>2, <2>4, <3>2
        <5>2. /\ Above(E!Candidates, i) \in Nat /\ Above(E!Candidates, idMax') \in Nat
              /\ idMax' < i => Above(E!Candidates, i) < Above(E!Candidates, idMax')
          BY <1>2, <2>3, <3>2, AboveFalls
        <5>. QED
          BY <5>1, <5>2
      <4>2. Above(E!Candidates, i) \in Nat /\ Above(E!Candidates, idMax') \in Nat
        BY <1>2, <2>3, <3>2, AboveFalls
      <4>3. Above(E!Candidates, idMax') < PageLength
        BY <1>2, <2>3
      <4>4. i \in E!Found(PageLength)
        BY <1>2, <1>4, <3>2, <4>1, <4>2, <4>3
      <4>. QED
        BY <1>1, <4>4
    <3>. QED
      BY <1>4, <3>1, <3>2 DEF PagesInv, E!Candidates
  <2>. QED
    BY <1>0, <1>1, <1>7, <2>1, <2>2, <2>4 DEF PagesInv, E!Range
<1>. QED
    BY <1>0, <1>5, <1>6, <1>7

LEMMA GetExportFailsStep ==
    ASSUME PagesInv, NEW k \in 0..PageLength, E!GetExportFails(k)
    PROVE  PagesInv'
<1> DEFINE q == pages \o E!Read(k)
<1>0. /\ export = "reading" /\ export' = "done" /\ pages' = q
      /\ broken' = (broken \/ E!Nth(k + 1) # {}) /\ UNCHANGED <<rows, damaged, atStart, idMax>>
    BY DEF E!GetExportFails
<1>1. k \in Nat
    BY ServicesAssumption
<1>2. /\ q \in Seq(Nat) /\ Descends(q) /\ E!Range(q) = E!Range(pages) \cup (E!Found(k) \ damaged)
      /\ \A n \in DOMAIN q : {i \in atStart \ damaged : i >= q[n]} \subseteq E!Range(q)
    BY <1>0, <1>1, PagesGrow
<1> HIDE DEF q
<1>3. ASSUME ~broken' PROVE atStart \ damaged \subseteq E!Range(q)
  <2>1. E!Nth(k + 1) = {}
    BY <1>0, <1>3
  <2>2. E!Found(k) = E!Candidates
    BY <1>1, <2>1, FoundRows DEF PagesInv
  <2>3. rows \subseteq Nat /\ idMax \in Nat
    BY ServicesAssumption DEF PagesInv
  <2>4. \A i \in atStart \ damaged : i \in E!Candidates \/ (idMax # 0 /\ i >= idMax)
    BY <2>3 DEF PagesInv, E!Candidates
  <2>. QED
    BY <1>0, <1>2, <2>2, <2>4 DEF PagesInv
<1>. QED
    BY <1>0, <1>2, <1>3 DEF PagesInv, E!Range

LEMMA PagesStep == PagesInv /\ [Next]_vars => PagesInv'
<1> SUFFICES ASSUME PagesInv, [Next]_vars PROVE PagesInv'
    OBVIOUS
<1> USE DEF PagesInv, E!Range
<1>1. CASE UNCHANGED <<rows, damaged, atStart, export, idMax, pages, broken>>
    BY <1>1
<1>2. CASE E!Tick \/ E!Disable \/ (\E pw \in {"right", "wrong"} : E!LoginHandler(pw)) \/ E!RefreshHandler
    BY <1>1, <1>2 DEF E!Tick, E!Disable, E!LoginHandler, E!RefreshHandler, E!UserOnly
<1>3. ASSUME NEW i \in 1..MaxID, E!InsertRow(i) PROVE PagesInv'
    BY <1>3 DEF E!InsertRow, E!TableOnly
<1>4. CASE E!StartExport
    BY <1>4 DEF E!StartExport
<1>5. CASE E!GetExport
    BY <1>5, GetExportStep
<1>6. ASSUME NEW k \in 0..PageLength, E!GetExportFails(k) PROVE PagesInv'
    BY <1>6, GetExportFailsStep
<1>. QED
    BY <1>1, <1>2, <1>3, <1>4, <1>5, <1>6 DEF Next, E!ENext, vars, evars

\* What an export has is without gaps down to its last row, whatever fails and whatever is
\* inserted between its pages; and it has every row that was there when it started and
\* scans, unless a page came without a link although there were rows past it.
THEOREM PagesCompleteHolds == Spec => []PagesComplete
<1>1. PagesInv => PagesComplete
    BY DEF PagesInv, PagesComplete, E!PagesComplete, Descends
<1>. QED
    BY <1>1, PagesInit, PagesStep, PTL DEF Spec

-----------------------------------------------------------------------------
(* The public address *)

\* Callers without an address were let go after all services but the first had failed, or
\* a service has answered an IPv6 address.
NilAfterAll ==
    \A c \in Caller :
        caller[c] = "nil" => 1..(NumServices - 1) \subseteq failed \/ foreign

\* Until there is an address or the first round is over, every service before the one that
\* is asked has failed, and in a pause this one too.
AddressInv ==
    /\ caller \in [Caller -> {"new", "waiting", "nil", "address"}]
    /\ updater \in {"off", "choose", "ask", "pause", "idle"}
    /\ serviceIdx \in 0..(NumServices - 1)
    /\ updater = "off" => serviceIdx = 0
    /\ updater = "idle" => ip # {}
    /\ ip = {} /\ ~hasIP =>
          /\ 1..(serviceIdx - 1) \subseteq failed
          /\ updater # "ask" /\ serviceIdx # 0 => serviceIdx \in failed
    /\ ip = {} /\ hasIP => 1..(NumServices - 1) \subseteq failed
    /\ ip # {} /\ ip \cap V4 = {} => foreign
    /\ NilAfterAll

LEMMA AddressInit == Init => AddressInv
BY ServicesAssumption DEF Init, I!IInit, AddressInv, NilAfterAll

LEMMA AddressStep == AddressInv /\ [Next]_vars => AddressInv'
<1> SUFFICES ASSUME AddressInv, [Next]_vars PROVE AddressInv'
    OBVIOUS
<1>0. NumServices \in Nat \ {0}
    BY ServicesAssumption
<1> USE <1>0 DEF AddressInv, NilAfterAll
<1>1. CASE UNCHANGED ivars
    BY <1>1 DEF ivars
<1>2. ASSUME NEW c \in Caller, I!GetPublicIPAddr(c) PROVE AddressInv'
    BY <1>2 DEF I!GetPublicIPAddr
<1>3. ASSUME NEW c \in Caller, I!Return(c) PROVE AddressInv'
    BY <1>3 DEF I!Return
<1>4. CASE I!Choose
  <2>1. serviceIdx' = IF serviceIdx = NumServices - 1 THEN 0 ELSE serviceIdx + 1
    BY <1>4 DEF I!Choose
  <2>2. CASE ip = {} /\ ~hasIP
    <3>1. 1..serviceIdx \subseteq failed
      BY <1>4, <2>2 DEF I!Choose
    <3>2. UNCHANGED <<ip, failed, foreign, caller>> /\ updater' = "ask"
      BY <1>4 DEF I!Choose
    <3>3. CASE serviceIdx = NumServices - 1
      <4>1. serviceIdx' = 0 /\ hasIP'
        BY <1>4, <2>1, <3>3 DEF I!Choose
      <4>. QED
        BY <2>2, <3>1, <3>2, <3>3, <4>1
    <3>4. CASE serviceIdx # NumServices - 1
      <4>1. serviceIdx' = serviceIdx + 1 /\ ~hasIP'
        <5>1. serviceIdx' = serviceIdx + 1 /\ serviceIdx' # 0
          BY <2>1, <3>4
        <5>2. ~hasIP'
          BY <1>4, <2>2, <5>1, Zenon DEF I!Choose
        <5>. QED
          BY <5>1, <5>2
      <4>2. serviceIdx' - 1 = serviceIdx /\ serviceIdx' \in 0..(NumServices - 1)
        BY <3>4, <4>1
      <4>. QED
        <5>1. NilAfterAll'
          BY <3>2
        <5>2. /\ (ip = {} /\ ~hasIP)' => 1..(serviceIdx' - 1) \subseteq failed'
              /\ ~(ip = {} /\ hasIP)' /\ ~(ip # {} /\ ip \cap V4 = {})'
          BY <2>2, <3>1, <3>2, <4>1, <4>2
        <5>3. /\ caller' \in [Caller -> {"new", "waiting", "nil", "address"}]
              /\ updater' = "ask" /\ serviceIdx' \in 0..(NumServices - 1)
          BY <3>2, <4>2
        <5> HIDE DEF NilAfterAll
        <5>. QED
          BY <5>1, <5>2, <5>3
    <3>. QED
      BY <3>3, <3>4
  <2>3. CASE ip # {} \/ hasIP
    BY <1>4, <2>1, <2>3 DEF I!Choose
  <2>. QED
    BY <2>2, <2>3
<1>5. ASSUME NEW a \in Address, I!Answered(a) PROVE AddressInv'
    BY <1>5 DEF I!Answered
<1>6. CASE I!NotAnswered
    BY <1>6 DEF I!NotAnswered
<1>7. CASE I!Again
    BY <1>7 DEF I!Again
<1>. QED
    BY <1>1, <1>2, <1>3, <1>4, <1>5, <1>6, <1>7 DEF Next, I!INext, vars, ivars

\* The safety half of FirstAddress: a caller of GetPublicIPAddr gets nil only after every
\* service but the first of the shuffled list had failed before the first answer, or after
\* some service has answered an IPv6 address, which To4 turns into nil.
THEOREM NilAfterAllHolds == Spec => []NilAfterAll
<1>1. AddressInv => NilAfterAll
    BY DEF AddressInv
<1>. QED
    BY <1>1, AddressInit, AddressStep, PTL DEF Spec

-----------------------------------------------------------------------------
(* The making of patches *)

Jobs == Artifact \X F!OldVersions

\* A patch of every old version of every artifact was written, but for unreadable binaries.
DoneIsComplete == factory = "done" => files \cup empty = Jobs

\* The creator of an artifact has not come to an old version of it yet.
Ahead(a, v) ==
    \/ creator[a].at = "new"
    \/ creator[a].at \in {"binary", "send"} /\ v <= creator[a].next

\* A job is in the queue, or a worker has it.
UnderWay(j) ==
    \/ \E i \in 1..Len(jobC) : jobC[i] = j
    \/ \E w \in PWorker : pworker[w].at = "patch" /\ pworker[w].job = j

PatchTypes ==
    /\ creator \in [Artifact -> [at : {"new", "binary", "send", "done"}, next : Nat]]
    /\ pworker \in [PWorker -> [at : {"idle", "patch", "send", "done"}, job : Jobs \cup {F!NoJob}]]
    /\ jobC \in Seq(Jobs) /\ files \subseteq Jobs /\ empty \subseteq Jobs
    /\ jobsOpen \in BOOLEAN /\ closer \in {"creators", "workers", "closed"}

\* No job gets lost between its creator and its patch; the jobs are closed after the
\* creators are done, a worker ends on an empty closed queue, and the last one of them
\* ends the run.
PatchInv ==
    /\ PatchTypes
    /\ \A a \in Artifact : creator[a].next < NumVersions
    /\ \A a \in Artifact : creator[a].at = "send" => creator[a].next \in F!OldVersions
    /\ \A w \in PWorker : pworker[w].at = "patch" => pworker[w].job \in Jobs
    /\ \A a \in Artifact, v \in F!OldVersions :
          Ahead(a, v) \/ UnderWay(<<a, v>>) \/ <<a, v>> \in files \cup empty
    /\ closer # "creators" => \A a \in Artifact : creator[a].at = "done"
    /\ ~jobsOpen => closer # "creators"
    /\ \A w \in PWorker : pworker[w].at = "done" => jobC = <<>> /\ ~jobsOpen
    /\ closer = "closed" => \A w \in PWorker : pworker[w].at = "done"
    /\ factory = "done" => closer = "closed"

LEMMA OldAre == /\ F!OldVersions \subseteq 1..(NumVersions - 1)
                /\ \A v \in F!OldVersions, n \in Nat :
                       v <= n /\ n < NumVersions => n \in F!OldVersions
BY ServicesAssumption DEF F!OldVersions

\* The head of the queue is taken, the others move up.
LEMMA Shift ==
    ASSUME NEW S, NEW s \in Seq(S), s # <<>>
    PROVE  /\ Head(s) = s[1] /\ Head(s) \in S /\ Tail(s) \in Seq(S)
           /\ \A i \in 1..Len(s) : i # 1 => i - 1 \in 1..Len(Tail(s)) /\ Tail(s)[i - 1] = s[i]
OBVIOUS

LEMMA PatchInit == Init => PatchInv
<1> SUFFICES ASSUME Init PROVE PatchInv
    OBVIOUS
<1>1. PatchTypes
    BY DEF Init, F!FInit, PatchTypes, Jobs, F!NoJob
<1>2. \A a \in Artifact, v \in F!OldVersions : Ahead(a, v)
    BY DEF Init, F!FInit, Ahead
<1>. QED
    BY <1>1, <1>2, ServicesAssumption DEF Init, F!FInit, PatchInv

LEMMA PatchStep == PatchInv /\ [Next]_vars => PatchInv'
<1> SUFFICES ASSUME PatchInv, [Next]_vars PROVE PatchInv'
    OBVIOUS
<1> USE DEF PatchInv
<1>1. CASE UNCHANGED fvars
    BY <1>1 DEF fvars, PatchTypes, Ahead, UnderWay
<1>2. CASE F!RunPatchesCreate \/ F!Fatal
  <2>1. /\ UNCHANGED <<creator, jobC, jobsOpen, pworker, closer, patches, empty, files>>
        /\ factory' # "done"
    BY <1>2 DEF F!RunPatchesCreate, F!Fatal
  <2>. QED
    BY <2>1 DEF PatchTypes, Ahead, UnderWay
<1>3. ASSUME NEW a \in Artifact, F!GetVersions(a), ~F!Fatal PROVE PatchInv'
  <2>1. /\ creator[a].at = "new"
        /\ creator' = [creator EXCEPT ![a] = [at |-> "binary", next |-> NumVersions - 1]]
        /\ UNCHANGED <<jobC, jobsOpen, pworker, closer, patches, empty, factory, files>>
    BY <1>3 DEF F!GetVersions
  <2>2. NumVersions - 1 \in Nat
    BY ServicesAssumption
  <2>3. PatchTypes'
    BY <2>1, <2>2 DEF PatchTypes
  <2>4. \A x \in Artifact, v \in F!OldVersions : Ahead(x, v) => Ahead(x, v)'
    BY <2>1, <2>2, OldAre DEF Ahead, PatchTypes
  <2>5. \A j : UnderWay(j) => UnderWay(j)'
    BY <2>1 DEF UnderWay
  <2>6. \A x \in Artifact, v \in F!OldVersions :
            Ahead(x, v)' \/ UnderWay(<<x, v>>)' \/ <<x, v>> \in files' \cup empty'
    BY <2>1, <2>4, <2>5
  <2>7. /\ creator'[a].at = "binary" /\ creator'[a].next = NumVersions - 1
        /\ \A x \in Artifact : x # a => creator'[x] = creator[x]
    BY <2>1 DEF PatchTypes
  <2>8. NumVersions - 1 < NumVersions
    BY ServicesAssumption
  <2>9. /\ \A x \in Artifact : creator'[x].next < NumVersions
        /\ \A x \in Artifact : creator'[x].at = "send" => creator'[x].next \in F!OldVersions
    BY <2>7, <2>8
  <2>10. closer = "creators"
    BY <2>1
  <2>. QED
    BY <2>1, <2>3, <2>6, <2>9, <2>10
<1>4. ASSUME NEW a \in Artifact, F!GetBinary(a), ~F!Fatal PROVE PatchInv'
  <2>1. /\ creator[a].at = "binary"
        /\ \/ creator[a].next \in F!OldVersions /\ creator' = [creator EXCEPT ![a].at = "send"]
           \/ creator[a].next \notin F!OldVersions /\ creator' = [creator EXCEPT ![a].at = "done"]
        /\ UNCHANGED <<jobC, jobsOpen, pworker, closer, patches, empty, factory, files>>
    BY <1>4 DEF F!GetBinary, F!Retire
  <2>2. PatchTypes'
    BY <2>1 DEF PatchTypes
  <2>3. /\ creator'[a].next = creator[a].next
        /\ creator'[a].at = IF creator[a].next \in F!OldVersions THEN "send" ELSE "done"
        /\ \A x \in Artifact : x # a => creator'[x] = creator[x]
    BY <2>1 DEF PatchTypes
  <2>4. \A x \in Artifact, v \in F!OldVersions : Ahead(x, v) => Ahead(x, v)'
    <3> SUFFICES ASSUME NEW x \in Artifact, NEW v \in F!OldVersions, Ahead(x, v)
                 PROVE  Ahead(x, v)'
      OBVIOUS
    <3>1. CASE x # a
      BY <2>3, <3>1 DEF Ahead
    <3>2. CASE x = a
      <4>1. v <= creator[a].next
        BY <2>1, <3>2 DEF Ahead
      <4>2. creator[a].next \in Nat /\ creator[a].next < NumVersions
        BY DEF PatchTypes
      <4>3. creator[a].next \in F!OldVersions
        BY <4>1, <4>2, OldAre
      <4>. QED
        BY <2>3, <3>2, <4>1, <4>3 DEF Ahead
    <3>. QED
      BY <3>1, <3>2
  <2>5. \A j : UnderWay(j) => UnderWay(j)'
    BY <2>1 DEF UnderWay
  <2>6. \A x \in Artifact, v \in F!OldVersions :
            Ahead(x, v)' \/ UnderWay(<<x, v>>)' \/ <<x, v>> \in files' \cup empty'
    BY <2>1, <2>4, <2>5
  <2>7. /\ \A x \in Artifact : creator'[x].next < NumVersions
        /\ \A x \in Artifact : creator'[x].at = "send" => creator'[x].next \in F!OldVersions
    BY <2>3
  <2>8. closer = "creators"
    BY <2>1
  <2>. QED
    BY <2>1, <2>2, <2>6, <2>7, <2>8
<1>5. ASSUME NEW a \in Artifact, F!SendJob(a) PROVE PatchInv'
  <2>0. PICK n : n = creator[a].next
    OBVIOUS
  <2> DEFINE j == <<a, n>>
  <2>1. /\ creator[a].at = "send" /\ creator[a].next = n /\ jobC' = Append(jobC, j)
        /\ creator' = [creator EXCEPT ![a] = [at |-> "binary", next |-> n - 1]]
        /\ UNCHANGED <<jobsOpen, pworker, closer, patches, empty, factory, files>>
    BY <1>5, <2>0 DEF F!SendJob, PatchTypes
  <2>2. n \in F!OldVersions /\ n \in Nat \ {0} /\ n < NumVersions /\ n - 1 \in Nat
    BY <2>1, OldAre DEF PatchTypes
  <2>3. j \in Jobs /\ jobC \in Seq(Jobs)
    BY <2>2 DEF Jobs, PatchTypes
  <2>4. /\ jobC' \in Seq(Jobs) /\ Len(jobC') = Len(jobC) + 1 /\ jobC'[Len(jobC) + 1] = j
        /\ \A i \in 1..Len(jobC) : jobC'[i] = jobC[i]
    BY <2>1, <2>3
  <2>5. closer = "creators" /\ jobsOpen
    BY <2>1 DEF PatchTypes
  <2>6. PatchTypes'
    BY <2>1, <2>2, <2>4 DEF PatchTypes
  <2>7. \A k : UnderWay(k) => UnderWay(k)'
    BY <2>1, <2>3, <2>4 DEF UnderWay
  <2>8. UnderWay(j)'
    <3>1. Len(jobC) + 1 \in 1..Len(jobC') /\ jobC'[Len(jobC) + 1] = j
      BY <2>3, <2>4
    <3>2. \E i \in 1..Len(jobC') : jobC'[i] = j
      BY <3>1
    <3>. QED
      BY <3>2 DEF UnderWay
  <2>9. \A x \in Artifact, v \in F!OldVersions :
            Ahead(x, v) => Ahead(x, v)' \/ (x = a /\ v = n)
    <3> SUFFICES ASSUME NEW x \in Artifact, NEW v \in F!OldVersions, Ahead(x, v), ~(x = a /\ v = n)
                 PROVE  Ahead(x, v)'
      OBVIOUS
    <3>1. CASE x # a
      BY <2>1, <3>1 DEF Ahead, PatchTypes
    <3>2. CASE x = a
      <4>1. v <= n /\ v # n /\ v \in Nat
        BY <2>1, <3>2, OldAre DEF Ahead
      <4>2. v <= n - 1
        BY <2>2, <4>1
      <4>3. creator'[a] = [at |-> "binary", next |-> n - 1]
        BY <2>1 DEF PatchTypes
      <4>. QED
        BY <3>2, <4>2, <4>3 DEF Ahead
    <3>. QED
      BY <3>1, <3>2
  <2>10. \A x \in Artifact, v \in F!OldVersions :
            Ahead(x, v)' \/ UnderWay(<<x, v>>)' \/ <<x, v>> \in files' \cup empty'
    <3> SUFFICES ASSUME NEW x \in Artifact, NEW v \in F!OldVersions
                 PROVE  Ahead(x, v)' \/ UnderWay(<<x, v>>)' \/ <<x, v>> \in files' \cup empty'
      OBVIOUS
    <3>1. CASE x = a /\ v = n
      BY <2>8, <3>1
    <3>2. CASE ~(x = a /\ v = n)
      <4>1. Ahead(x, v) \/ UnderWay(<<x, v>>) \/ <<x, v>> \in files \cup empty
        OBVIOUS
      <4>. HIDE DEF PatchInv
      <4>. QED
        BY <2>1, <2>7, <2>9, <3>2, <4>1
    <3>. QED
      BY <3>1, <3>2
  <2>11. /\ \A x \in Artifact : creator'[x].next < NumVersions
         /\ \A x \in Artifact : creator'[x].at = "send" => creator'[x].next \in F!OldVersions
    <3>1. /\ creator'[a].at = "binary" /\ creator'[a].next = n - 1 /\ n - 1 < NumVersions
          /\ \A x \in Artifact : x # a => creator'[x] = creator[x]
      BY <2>1, <2>2, ServicesAssumption DEF PatchTypes
    <3>. QED
      BY <3>1
  <2>12. \A w \in PWorker : pworker[w].at # "done"
    BY <2>5
  <2>. QED
    BY <2>1, <2>5, <2>6, <2>10, <2>11, <2>12
<1>6. ASSUME NEW w \in PWorker, F!TakeJob(w) PROVE PatchInv'
  <2>1. /\ pworker[w].at = "idle"
        /\ UNCHANGED <<creator, jobsOpen, closer, patches, empty, factory, files>>
    BY <1>6 DEF F!TakeJob
  <2>2. closer # "closed" /\ factory # "done"
    BY <2>1
  <2>3. CASE jobC # <<>>
    <3> DEFINE j == Head(jobC)
    <3>1. /\ pworker' = [pworker EXCEPT ![w] = [at |-> "patch", job |-> j]] /\ jobC' = Tail(jobC)
      BY <1>6, <2>3 DEF F!TakeJob
    <3>2. /\ j = jobC[1] /\ j \in Jobs /\ jobC' \in Seq(Jobs)
          /\ \A i \in 1..Len(jobC) : i # 1 => i - 1 \in 1..Len(jobC') /\ jobC'[i - 1] = jobC[i]
      BY <2>3, <3>1, Shift DEF PatchTypes
    <3> HIDE DEF j
    <3>3. /\ pworker'[w].at = "patch" /\ pworker'[w].job = j
          /\ \A u \in PWorker : u # w => pworker'[u] = pworker[u]
      BY <3>1 DEF PatchTypes
    <3>4. PatchTypes'
      BY <2>1, <3>1, <3>2 DEF PatchTypes
    <3>5. \A k : UnderWay(k) => UnderWay(k)'
      <4> SUFFICES ASSUME NEW k, UnderWay(k) PROVE UnderWay(k)'
        OBVIOUS
      <4>1. ASSUME NEW i \in 1..Len(jobC), jobC[i] = k PROVE UnderWay(k)'
        BY <3>2, <3>3, <4>1 DEF UnderWay
      <4>2. ASSUME NEW u \in PWorker, pworker[u].at = "patch", pworker[u].job = k
            PROVE  UnderWay(k)'
        BY <2>1, <3>3, <4>2 DEF UnderWay
      <4>. QED
        BY <4>1, <4>2 DEF UnderWay
    <3>6. \A x \in Artifact, v \in F!OldVersions : Ahead(x, v)' <=> Ahead(x, v)
      BY <2>1 DEF Ahead
    <3>7. \A x \in Artifact, v \in F!OldVersions :
              Ahead(x, v)' \/ UnderWay(<<x, v>>)' \/ <<x, v>> \in files' \cup empty'
      BY <2>1, <3>5, <3>6
    <3>8. \A u \in PWorker : /\ pworker'[u].at = "patch" => pworker'[u].job \in Jobs
                             /\ pworker'[u].at # "done"
      BY <2>3, <3>2, <3>3
    <3>. QED
      BY <2>1, <2>2, <3>4, <3>7, <3>8
  <2>4. CASE jobC = <<>>
    <3>1. ~jobsOpen /\ pworker' = [pworker EXCEPT ![w].at = "done"] /\ jobC' = jobC
      BY <1>6, <2>4 DEF F!TakeJob
    <3>2. PatchTypes'
      BY <2>1, <3>1 DEF PatchTypes
    <3>3. /\ pworker'[w].at = "done" /\ pworker'[w].job = pworker[w].job
          /\ \A u \in PWorker : u # w => pworker'[u] = pworker[u]
      BY <3>1 DEF PatchTypes
    <3>4. \A k : UnderWay(k) => UnderWay(k)'
      BY <2>1, <3>1, <3>3 DEF UnderWay
    <3>5. \A x \in Artifact, v \in F!OldVersions : Ahead(x, v)' <=> Ahead(x, v)
      BY <2>1 DEF Ahead
    <3>6. \A x \in Artifact, v \in F!OldVersions :
              Ahead(x, v)' \/ UnderWay(<<x, v>>)' \/ <<x, v>> \in files' \cup empty'
      BY <2>1, <3>4, <3>5
    <3>. QED
      BY <2>1, <2>2, <2>4, <3>1, <3>2, <3>3, <3>6
  <2>. QED
    BY <2>3, <2>4
<1>7. ASSUME NEW w \in PWorker, F!CreatePatch(w), ~F!Fatal PROVE PatchInv'
  <2> DEFINE j == pworker[w].job
  <2>1. /\ pworker[w].at = "patch" /\ pworker' = [pworker EXCEPT ![w].at = "send"]
        /\ \/ files' = files \cup {j} /\ empty' = empty
           \/ empty' = empty \cup {j} /\ files' = files
        /\ UNCHANGED <<creator, jobC, jobsOpen, closer, factory>>
    BY <1>7 DEF F!CreatePatch
  <2>2. j \in Jobs
    BY <2>1
  <2> HIDE DEF j
  <2>3. /\ pworker'[w].at = "send"
        /\ \A u \in PWorker : u # w => pworker'[u] = pworker[u]
    BY <2>1 DEF PatchTypes
  <2>4. PatchTypes'
    BY <2>1, <2>2 DEF PatchTypes
  <2>5. \A k : UnderWay(k) => UnderWay(k)' \/ k = j
    BY <2>1, <2>3 DEF UnderWay, j
  <2>6. \A x \in Artifact, v \in F!OldVersions : Ahead(x, v)' <=> Ahead(x, v)
    BY <2>1 DEF Ahead
  <2>7. \A x \in Artifact, v \in F!OldVersions :
            Ahead(x, v)' \/ UnderWay(<<x, v>>)' \/ <<x, v>> \in files' \cup empty'
    BY <2>1, <2>5, <2>6
  <2>. QED
    BY <2>1, <2>3, <2>4, <2>7
<1>8. ASSUME NEW w \in PWorker, F!SendResult(w) PROVE PatchInv'
  <2>1. /\ pworker[w].at = "send"
        /\ pworker' = [pworker EXCEPT ![w] = [at |-> "idle", job |-> F!NoJob]]
        /\ UNCHANGED <<creator, jobC, jobsOpen, closer, empty, factory, files>>
    BY <1>8 DEF F!SendResult
  <2>2. PatchTypes'
    BY <2>1 DEF PatchTypes
  <2>3. /\ pworker'[w].at = "idle"
        /\ \A u \in PWorker : u # w => pworker'[u] = pworker[u]
    BY <2>1 DEF PatchTypes
  <2>4. \A k : UnderWay(k) => UnderWay(k)'
    BY <2>1, <2>3 DEF UnderWay
  <2>5. \A x \in Artifact, v \in F!OldVersions : Ahead(x, v)' <=> Ahead(x, v)
    BY <2>1 DEF Ahead
  <2>6. \A x \in Artifact, v \in F!OldVersions :
            Ahead(x, v)' \/ UnderWay(<<x, v>>)' \/ <<x, v>> \in files' \cup empty'
    BY <2>1, <2>4, <2>5
  <2>. QED
    BY <2>1, <2>2, <2>3, <2>6
<1>9. CASE F!CloseJobs
    BY <1>9 DEF F!CloseJobs, F!Live, PatchTypes, Ahead, UnderWay
<1>10. CASE F!CloseResults
    BY <1>10 DEF F!CloseResults, F!Live, PatchTypes, Ahead, UnderWay
<1>. QED
    BY <1>1, <1>2, <1>3, <1>4, <1>5, <1>6, <1>7, <1>8, <1>9, <1>10
    DEF Next, F!FNext, F!FStep, F!GetVersions, F!GetBinary, F!CreatePatch, vars, fvars

\* The safety half of AllPatched: a run of createUpgradeAuto that ends well has a patch of
\* every old version of every artifact on disk, but for binaries that cannot be read.
THEOREM DoneIsCompleteHolds == Spec => []DoneIsComplete
<1>1. PatchInv => DoneIsComplete
  <2> SUFFICES ASSUME PatchInv, factory = "done" PROVE files \cup empty = Jobs
    BY DEF DoneIsComplete
  <2>1. PICK w \in PWorker : TRUE
    BY ServicesAssumption
  <2>2. /\ jobC = <<>> /\ \A u \in PWorker : pworker[u].at = "done"
        /\ \A a \in Artifact : creator[a].at = "done"
    BY <2>1 DEF PatchInv
  <2>3. ASSUME NEW a \in Artifact, NEW v \in F!OldVersions PROVE <<a, v>> \in files \cup empty
    <3>1. ~Ahead(a, v) /\ ~UnderWay(<<a, v>>)
      BY <2>2 DEF Ahead, UnderWay
    <3>. QED
      BY <3>1 DEF PatchInv
  <2>. QED
    BY <2>3 DEF PatchInv, PatchTypes, Jobs
<1>. QED
    BY <1>1, PatchInit, PatchStep, PTL DEF Spec

=============================================================================
