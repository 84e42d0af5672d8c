---------------------------- MODULE AnalysisProofs ----------------------------
(***************************************************************************)
(* Proofs about Analysis and Score, for any number of sessions, workers    *)
(* and goroutines, any number of crashes and of incomplete results, and    *)
(* any schedule.                                                           *)
(***************************************************************************)
EXTENDS Analysis, FiniteSetTheorems, SequenceTheorems, TLAPS

LOCAL INSTANCE Score

-----------------------------------------------------------------------------
(* The score *)

Header == [status : Nat, error : STRING, redirects : Nat]

\* samplesAnalyzer compares the score with 0.5, but no score is below 0.5: every session
\* that can be analysed is published, even when both measurements agree.
THEOREM AlwaysPublishes ==
    \A client, central \in Header : Publishes(client, central)
<1> SUFFICES ASSUME NEW client \in Header, NEW central \in Header
             PROVE  Publishes(client, central)
    OBVIOUS
<1>1. scoreStatusCode(client.status, central.status) \in {5, 7, 10}
    BY DEF scoreStatusCode
<1>2. scoreError(client.error, central.error) \in {5, 10}
    BY DEF scoreError
<1>3. scoreRedirects(client.redirects, central.redirects) \in {5, 6}
    BY DEF scoreRedirects
<1>. QED BY <1>1, <1>2, <1>3 DEF Publishes, Score80

-----------------------------------------------------------------------------
(* The inductive invariant *)

Row == [session : Session, kind : RowKind, seen : BOOLEAN]
Job == [at : {"idle", "fetch", "fetched", "publish", "check", "insert"},
        session : Session \cup {Nobody}, kinds : SUBSET RowKind]

Types ==
    /\ rows \in Seq(Row)
    /\ waiting \subseteq Session /\ queue \in Seq(Session)
    /\ worker \in [Worker -> [session : Session \cup {Nobody}, id : Nat]]
    /\ \A w \in Worker : worker[w].id <= Len(rows)
    /\ lastID \in Nat /\ persisted \in Nat /\ batch \subseteq Id /\ scanning \in BOOLEAN /\ faults \in Nat
    /\ fetcher \in [Fetcher -> Job] /\ analyzer \in [Analyzer -> Job]
    /\ publisher \in [Publisher -> Job] /\ hosts \in [Host -> Nat]

\* What the scan went past is handed on, was not visible yet, was left out by the database,
\* or is still in its batch, and the stored watermark is one the scan had with its batch
\* done.  It may be ahead of the scan, after a start at 0.
Watermark ==
    /\ persisted <= Len(rows) /\ lastID <= Len(rows)
    /\ ~scanning => batch = {}
    /\ \A i \in Id : i <= lastID /\ rows[i].kind = "central" => i \in handed \cup late \cup lost \cup batch
    /\ \A i \in Id : i <= persisted /\ rows[i].kind = "central" => i \in handed \cup late \cup lost
    /\ faults = 0 => lost = {}

\* A session that travels through the stages is one, and what they know about it is in
\* the table.
Table    == [s \in Session |-> Seen(s)]
Evidence == {s \in Session : Kind \subseteq Seen(s)}

Grounded ==
    /\ \A f \in Fetcher : fetcher[f] # Idle =>
          fetcher[f].session \in Session /\ fetcher[f].kinds \subseteq Table[fetcher[f].session]
    /\ \A a \in Analyzer : analyzer[a] # Idle => analyzer[a].session \in Evidence
    /\ \A p \in Publisher : publisher[p] # Idle => publisher[p].session \in Evidence

\* The publishers that have found no row for a host are those that may still add one.
Inserting(h) == {p \in Publisher : publisher[p].at = "insert" /\ HostOf[publisher[p].session] = h}

Bounded == \A h \in Host : hosts[h] + Cardinality(Inserting(h)) <= Cardinality(Publisher)

IInv == Types /\ Watermark /\ Grounded /\ Bounded

-----------------------------------------------------------------------------
(* Lemmas *)

\* The table grows, and only in rows of session x.
Grows(x) ==
    /\ Len(rows) <= Len(rows')
    /\ \A i \in Id : /\ rows'[i].session = rows[i].session /\ rows'[i].kind = rows[i].kind
                     /\ rows[i].seen => rows'[i].seen
    /\ \A i \in 1 .. Len(rows') : rows'[i].session # x => i \in Id /\ rows'[i] = rows[i]

\* Then nothing known about a session is lost, and nothing is learnt about another one.
LEMMA SeenGrows ==
    ASSUME rows \in Seq(Row), rows' \in Seq(Row), NEW x, Grows(x)
    PROVE  \A s : Seen(s) \subseteq Seen(s)' /\ (s # x => Seen(s)' = Seen(s))
<1> SUFFICES ASSUME NEW s PROVE Seen(s) \subseteq Seen(s)' /\ (s # x => Seen(s)' = Seen(s))
    OBVIOUS
<1>0. Len(rows) \in Nat /\ Len(rows') \in Nat
    OBVIOUS
<1>1. ASSUME NEW k \in Seen(s) PROVE k \in Seen(s)'
    <2>1. PICK i \in Id : rows[i].session = s /\ rows[i].seen /\ k = rows[i].kind
        BY <1>1 DEF Seen
    <2>2. i \in 1 .. Len(rows')
        BY <1>0 DEF Grows, Id
    <2>3. rows'[i].session = s /\ rows'[i].seen /\ k = rows'[i].kind
        BY <2>1 DEF Grows
    <2>. QED BY <2>2, <2>3 DEF Seen, Id
<1>2. ASSUME s # x, NEW k \in Seen(s)' PROVE k \in Seen(s)
    <2>1. PICK i \in 1 .. Len(rows') : rows'[i].session = s /\ rows'[i].seen /\ k = rows'[i].kind
        BY <1>2 DEF Seen, Id
    <2>2. i \in Id /\ rows'[i] = rows[i]
        BY <1>2, <2>1 DEF Grows
    <2>. QED BY <2>1, <2>2 DEF Seen
<1>. QED BY <1>1, <1>2

\* An insert adds one row at the end.
LEMMA Inserted ==
    ASSUME rows \in Seq(Row), NEW s \in Session, NEW k \in RowKind, NEW b \in BOOLEAN, Insert(s, k, b)
    PROVE  /\ rows' \in Seq(Row) /\ Len(rows') = Len(rows) + 1 /\ Grows(s)
           /\ \A i \in Id : rows'[i] = rows[i]
<1> DEFINE r == [session |-> s, kind |-> k, seen |-> b]
<1>1. r \in Row /\ rows' = Append(rows, r)
    BY DEF Insert, Row
<1>2. r.session = s
    OBVIOUS
<1> HIDE DEF r
<1>3. /\ rows' \in Seq(Row) /\ Len(rows') = Len(rows) + 1
      /\ \A i \in Id : rows'[i] = rows[i]
      /\ rows'[Len(rows) + 1] = r
    BY <1>1 DEF Id
<1>4. ASSUME NEW i \in 1 .. Len(rows'), rows'[i].session # s PROVE i \in Id
    BY <1>2, <1>3, <1>4 DEF Id
<1>. QED BY <1>3, <1>4 DEF Grows

\* A commit makes one row visible and changes nothing else of the table.
LEMMA Committed ==
    ASSUME Types, NEW w \in Worker, Commit(w)
    PROVE  /\ rows' \in Seq(Row) /\ Len(rows') = Len(rows) /\ Grows(rows[worker[w].id].session)
           /\ \A i \in Id : rows'[i].kind = rows[i].kind
           /\ worker[w].id \in Id
<1> DEFINE n == worker[w].id
<1>1. n \in Id
    BY DEF Types, Commit, Id
<1>2. rows \in Seq(Row) /\ rows[n] \in Row
    BY <1>1 DEF Types, Id
<1> DEFINE r == [rows[n] EXCEPT !.seen = TRUE]
<1>3. rows' = [rows EXCEPT ![n] = r]
    BY DEF Commit
<1>4. r \in Row /\ r.session = rows[n].session /\ r.kind = rows[n].kind /\ r.seen
    BY <1>2 DEF Row
<1> HIDE DEF n, r
<1>5. rows' \in Seq(Row) /\ Len(rows') = Len(rows)
    BY <1>1, <1>2, <1>3, <1>4, ExceptSeq DEF Id
<1>6. \A i \in Id : rows'[i] = IF i = n THEN r ELSE rows[i]
    BY <1>1, <1>2, <1>3, <1>4, ExceptSeq DEF Id
<1>7. \A i \in Id : /\ rows'[i].session = rows[i].session /\ rows'[i].kind = rows[i].kind
                    /\ rows[i].seen => rows'[i].seen
    BY <1>4, <1>6
<1>8. Len(rows) \in Nat
    BY <1>2
<1>9. \A i \in 1 .. Len(rows') : rows'[i].session # rows[n].session => i \in Id /\ rows'[i] = rows[i]
    BY <1>4, <1>5, <1>6 DEF Id
<1>. QED BY <1>1, <1>5, <1>7, <1>8, <1>9 DEF Grows, n

-----------------------------------------------------------------------------
(* Types *)

\* The jobs of the stages are records of their type.
LEMMA JobsTyped ==
    /\ Idle \in Job
    /\ \A s \in Session : [Idle EXCEPT !.at = "fetch", !.session = s] \in Job
    /\ \A s \in Session \cup {Nobody} : [Idle EXCEPT !.at = "publish", !.session = s] \in Job
BY DEF Idle, Job, Nobody

\* What samplesAnalyzer keeps of a session is among what it got.
LEMMA OrganisedIsSeen == \A seen : \A kinds \in Organised(seen) : kinds \subseteq seen
BY DEF Organised

\* A fetcher that has its samples has a job.
LEMMA JobFetched ==
    ASSUME fetcher \in [Fetcher -> Job], NEW f \in Fetcher, NEW kinds \in SUBSET RowKind
    PROVE  [fetcher EXCEPT ![f].at = "fetched", ![f].kinds = kinds] \in [Fetcher -> Job]
<1>1. [fetcher[f] EXCEPT !.at = "fetched", !.kinds = kinds] \in Job
    BY DEF Job
<1>. QED BY <1>1

\* Counting one more row of a host keeps the counters natural.
LEMMA Increment ==
    ASSUME NEW S, NEW f \in [S -> Nat], NEW x PROVE [f EXCEPT ![x] = f[x] + 1] \in [S -> Nat]
<1> DEFINE g == [f EXCEPT ![x] = f[x] + 1]
<1>1. ASSUME NEW y \in S PROVE g[y] \in Nat
    <2>1. CASE x = y
        BY <2>1
    <2>2. CASE x # y
        BY <2>2
    <2>. QED BY <2>1, <2>2
<1>2. g = [y \in S |-> g[y]]
    OBVIOUS
<1> HIDE DEF g
<1>3. [y \in S |-> g[y]] \in [S -> Nat]
    BY <1>1
<1>4. g \in [S -> Nat]
    BY <1>2, <1>3
<1>. QED BY <1>4 DEF g

\* What is seen of a session are kinds of samples.
LEMMA SeenIsKinds ==
    ASSUME rows \in Seq(Row) PROVE \A s : Seen(s) \subseteq RowKind
<1>1. \A i \in Id : rows[i] \in Row
    BY DEF Id
<1>2. \A i \in Id : rows[i].kind \in RowKind
    BY <1>1 DEF Row
<1>. QED BY <1>2 DEF Seen

\* The types hold initially, ...
LEMMA TypesInit == Init => Types
<1> SUFFICES ASSUME Init PROVE Types
    OBVIOUS
<1>1. rows \in Seq(Row) /\ queue \in Seq(Session) /\ Len(rows) = 0
    BY DEF Init
<1>2. worker \in [Worker -> [session : Session \cup {Nobody}, id : Nat]]
      /\ \A w \in Worker : worker[w].id = 0
    BY DEF Init, NoRequest
<1>3. /\ fetcher \in [Fetcher -> Job] /\ analyzer \in [Analyzer -> Job]
      /\ publisher \in [Publisher -> Job]
    BY JobsTyped DEF Init
<1>4. hosts \in [Host -> Nat] /\ waiting \subseteq Session /\ batch \subseteq Id
      /\ lastID \in Nat /\ persisted \in Nat
    BY DEF Init
<1>5. scanning \in BOOLEAN /\ faults \in Nat
    BY DEF Init
<1>6. \A w \in Worker : worker[w].id <= Len(rows)
    BY <1>1, <1>2
<1>. QED BY <1>1, <1>2, <1>3, <1>4, <1>5, <1>6, Zenon DEF Types

\* ... and every action of central keeps them.
LEMMA TypesNext == Types /\ [Next]_vars => Types'
<1> SUFFICES ASSUME Types, [Next]_vars PROVE Types'
    OBVIOUS
<1> USE DEF Types
<1>0. Len(rows) \in Nat
    OBVIOUS
<1>1. ASSUME NEW s \in Session, SuggestionToken(s) PROVE Types'
    <2>1. rows' \in Seq(Row) /\ Len(rows') = Len(rows) + 1
        BY <1>1, Inserted DEF SuggestionToken, RowKind, Kind
    <2>. QED BY <1>0, <1>1, <2>1 DEF SuggestionToken, scanVars, stageVars, Id
<1>2. ASSUME NEW s \in Session, Queued(s) PROVE Types'
    BY <1>2 DEF Queued, queueMeasurements, scanVars, stageVars, Id
<1>3. ASSUME NEW s \in Session, StoreSample(s) PROVE Types'
    <2>1. rows' \in Seq(Row) /\ Len(rows') = Len(rows) + 1
        BY <1>3, Inserted DEF StoreSample, RowKind, Kind
    <2>. QED BY <1>0, <1>3, <2>1 DEF StoreSample, scanVars, stageVars, Id
<1>4. ASSUME NEW w \in Worker, Take(w) PROVE Types'
    <2>1. Head(queue) \in Session /\ Tail(queue) \in Seq(Session)
        BY <1>4 DEF Take
    <2>2. worker' \in [Worker -> [session : Session \cup {Nobody}, id : Nat]]
          /\ \A v \in Worker : worker'[v].id <= Len(rows)
        BY <1>4, <2>1 DEF Take
    <2>. QED BY <1>4, <2>1, <2>2 DEF Take, scanVars, stageVars, Id
<1>5. ASSUME NEW w \in Worker, Measured(w) PROVE Types'
    <2>1. rows' \in Seq(Row) /\ Len(rows') = Len(rows) + 1
        <3>1. worker[w].session \in Session
            BY <1>5 DEF Measured
        <3>. QED BY <1>5, <3>1, Inserted DEF Measured, RowKind, Kind
    <2>2. worker' \in [Worker -> [session : Session \cup {Nobody}, id : Nat]]
          /\ \A v \in Worker : worker'[v].id <= Len(rows) + 1
        <3>1. worker' = [worker EXCEPT ![w].id = Len(rows) + 1]
            BY <1>5 DEF Measured
        <3>2. /\ worker \in [Worker -> [session : Session \cup {Nobody}, id : Nat]]
              /\ \A v \in Worker : worker[v].id <= Len(rows)
            OBVIOUS
        <3>3. Len(rows) + 1 \in Nat
            BY <1>0
        <3> HIDE DEF Types
        <3> DEFINE n == Len(rows) + 1
        <3>4. worker' = [worker EXCEPT ![w].id = n] /\ n \in Nat /\ \A v \in Worker : worker[v].id <= n
            BY <1>0, <3>1, <3>2, <3>3
        <3> HIDE DEF n
        <3>5. worker' \in [Worker -> [session : Session \cup {Nobody}, id : Nat]]
            BY <3>2, <3>4
        <3>6. \A v \in Worker : worker'[v].id <= n
            BY <3>2, <3>4
        <3>. QED BY <3>5, <3>6 DEF n
    <2>. QED BY <1>0, <1>5, <2>1, <2>2 DEF Measured, scanVars, stageVars, Id
<1>6. ASSUME NEW w \in Worker, Commit(w) PROVE Types'
    <2>1. rows' \in Seq(Row) /\ Len(rows') = Len(rows)
        BY <1>6, Committed
    <2>2. worker' \in [Worker -> [session : Session \cup {Nobody}, id : Nat]]
          /\ \A v \in Worker : worker'[v].id <= Len(rows)
        BY <1>0, <1>6 DEF Commit, NoRequest
    <2>. QED BY <1>6, <2>1, <2>2 DEF Commit, scanVars, stageVars, Id
<1>7. ASSUME NEW w \in Worker, InsertSampleFails(w) PROVE Types'
    <2>1. worker' \in [Worker -> [session : Session \cup {Nobody}, id : Nat]]
          /\ \A v \in Worker : worker'[v].id <= Len(rows)
        BY <1>0, <1>7 DEF InsertSampleFails, NoRequest
    <2>. QED BY <1>7, <2>1 DEF InsertSampleFails, Fault, scanVars, stageVars, Id
<1>8. CASE GetSamples \/ GetSamplesPartial
    <2>1. PICK got \in SUBSET New : ScanOf(got)
        BY <1>8 DEF GetSamples, GetSamplesPartial
    <2>2. faults' \in Nat
        BY <1>8 DEF GetSamples, GetSamplesPartial, Fault
    <2>3. lastID' \in Nat /\ batch' \subseteq Id
        BY <1>0, <2>1 DEF ScanOf, New, Id
    <2>. QED BY <2>1, <2>2, <2>3 DEF ScanOf, tableVars, stageVars, Id
<1>9. ASSUME NEW i \in batch, Handle(i) PROVE Types'
    <2>0. rows[i] \in Row
        BY <1>9 DEF Id
    <2>1. rows[i].session \in Session
        BY <2>0 DEF Row
    <2>2. fetcher' \in [Fetcher -> Job]
        BY <1>9, <2>1, JobsTyped DEF Handle, HandOver
    <2>. QED BY <1>9, <2>2 DEF Handle, HandOver, tableVars, Id
<1>10. CASE EndScan
    BY <1>10 DEF EndScan, ToPersist, tableVars, stageVars, Id
<1>11. CASE EndScanFails
    <2>1. persisted' \in Nat
        BY <1>11 DEF EndScanFails, ToPersist
    <2>2. faults' \in Nat
        BY <1>11 DEF EndScanFails, Fault
    <2>3. scanning' = FALSE
        BY <1>11 DEF EndScanFails
    <2>. QED BY <1>11, <2>1, <2>2, <2>3 DEF EndScanFails, tableVars, stageVars, Id
<1>12. ASSUME NEW f \in Fetcher, Fetch(f) PROVE Types'
    <2>0. PICK kinds \in Organised(Seen(fetcher[f].session)) :
              fetcher' = [fetcher EXCEPT ![f].at = "fetched", ![f].kinds = kinds]
        BY <1>12 DEF Fetch
    <2>1. fetcher' \in [Fetcher -> Job]
        <3>1. kinds \subseteq RowKind
            BY OrganisedIsSeen, SeenIsKinds
        <3>. QED BY <2>0, <3>1, JobFetched
    <2>. QED BY <1>12, <2>1 DEF Fetch, tableVars, scanVars, Id
<1>13. ASSUME NEW f \in Fetcher, FetchFails(f) PROVE Types'
    <2>1. ASSUME fetcher' = [fetcher EXCEPT ![f] = Idle] PROVE fetcher' \in [Fetcher -> Job]
        BY <2>1, JobsTyped
    <2>2. ASSUME NEW k \in RowKind, NEW kinds \in Organised(Seen(fetcher[f].session) \ {k}),
                 fetcher' = [fetcher EXCEPT ![f].at = "fetched", ![f].kinds = kinds]
          PROVE  fetcher' \in [Fetcher -> Job]
        <3>1. kinds \subseteq RowKind
            BY OrganisedIsSeen, SeenIsKinds
        <3>. QED BY <2>2, <3>1, JobFetched
    <2>3. fetcher' \in [Fetcher -> Job]
        BY <1>13, <2>1, <2>2 DEF FetchFails
    <2>. QED BY <1>13, <2>3 DEF FetchFails, Fault, tableVars, scanVars, Id
<1>14. ASSUME NEW f \in Fetcher, NEW a \in Analyzer, ToAnalyzer(f, a) PROVE Types'
    <2>1. fetcher' \in [Fetcher -> Job]
        BY <1>14, JobsTyped DEF ToAnalyzer
    <2>2. fetcher[f].session \in Session \cup {Nobody}
        BY DEF Job
    <2>3. analyzer' \in [Analyzer -> Job]
        BY <1>14, <2>2, JobsTyped DEF ToAnalyzer
    <2>. QED BY <1>14, <2>1, <2>3 DEF ToAnalyzer, tableVars, scanVars, Id
<1>15. ASSUME NEW a \in Analyzer, NEW p \in Publisher, ToPublisher(a, p) PROVE Types'
    <2>1. analyzer' \in [Analyzer -> Job]
        BY <1>15, JobsTyped DEF ToPublisher
    <2>2. [analyzer[a] EXCEPT !.at = "check"] \in Job
        BY DEF Job
    <2>3. publisher' \in [Publisher -> Job]
        BY <1>15, <2>2 DEF ToPublisher
    <2>. QED BY <1>15, <2>1, <2>3 DEF ToPublisher, tableVars, scanVars, Id
<1>16. ASSUME NEW p \in Publisher, CheckHost(p) PROVE Types'
    <2>1. [publisher[p] EXCEPT !.at = "insert"] \in Job
        BY DEF Job
    <2>2. publisher' \in [Publisher -> Job]
        BY <1>16, <2>1, JobsTyped DEF CheckHost
    <2>. QED BY <1>16, <2>2 DEF CheckHost, tableVars, scanVars, Id
<1>17. ASSUME NEW p \in Publisher, InsertHost(p) PROVE Types'
    <2>1. publisher' \in [Publisher -> Job]
        BY <1>17, JobsTyped DEF InsertHost
    <2> DEFINE h == HostOf[publisher[p].session]
    <2>0. hosts' = [hosts EXCEPT ![h] = hosts[h] + 1]
        BY <1>17 DEF InsertHost
    <2> HIDE DEF h
    <2>2. hosts' \in [Host -> Nat]
        BY <2>0, Increment
    <2>. QED BY <1>17, <2>1, <2>2 DEF InsertHost, tableVars, scanVars, Id
<1>18. ASSUME NEW p \in Publisher, PublishFails(p) PROVE Types'
    <2>1. publisher' \in [Publisher -> Job]
        BY <1>18, JobsTyped DEF PublishFails
    <2>. QED BY <1>18, <2>1 DEF PublishFails, Fault, tableVars, scanVars, Id
<1>19. CASE Crash
    <2>1. worker' \in [Worker -> [session : Session \cup {Nobody}, id : Nat]]
          /\ \A v \in Worker : worker'[v].id <= Len(rows)
        BY <1>0, <1>19 DEF Crash, NoRequest
    <2>2. /\ fetcher' \in [Fetcher -> Job] /\ analyzer' \in [Analyzer -> Job]
          /\ publisher' \in [Publisher -> Job]
        BY <1>19, JobsTyped DEF Crash
    <2>3. queue' \in Seq(Session)
        BY <1>19 DEF Crash
    <2>4. lastID' \in Nat /\ faults' \in Nat
        BY <1>19 DEF Crash, Fault
    <2>. QED BY <1>19, <2>1, <2>2, <2>3, <2>4 DEF Crash, Id
<1>20. CASE UNCHANGED vars
    BY <1>20 DEF vars, tableVars, scanVars, stageVars, Id
<1>. QED
    BY <1>1, <1>2, <1>3, <1>4, <1>5, <1>6, <1>7, <1>8, <1>9, <1>10, <1>11, <1>12, <1>13, <1>14,
       <1>15, <1>16, <1>17, <1>18, <1>19, <1>20
    DEF Next, Measurer, Scan, Stage1, Stage2, Stage3

-----------------------------------------------------------------------------
(* A step is one of six kinds. *)

StageStep ==
    \/ Stage1 \/ Stage2 \/ Stage3
    \/ (\E f \in Fetcher : FetchFails(f)) \/ (\E p \in Publisher : PublishFails(p))

\* Every step does one of: add or commit a row; touch only the queue; scan; hand a session
\* over; move a session through the stages; start central again.
LEMMA Steps ==
    ASSUME Types, [Next]_vars
    PROVE  \/ \E x \in Session : Grows(x) /\ UNCHANGED <<scanVars, stageVars>>
           \/ UNCHANGED <<rows, scanVars, stageVars>>
           \/ (GetSamples \/ GetSamplesPartial \/ EndScan \/ EndScanFails) /\ UNCHANGED <<rows, stageVars>>
           \/ (\E i \in batch : Handle(i)) /\ UNCHANGED <<rows, lastID, persisted, scanning, late, lost,
                                                         analyzer, publisher, hosts>>
           \/ StageStep /\ UNCHANGED <<rows, scanVars>>
           \/ Crash /\ UNCHANGED <<rows, persisted, late, lost, handed, hosts>>
<1> DEFINE Growing == \E x \in Session : Grows(x) /\ UNCHANGED <<scanVars, stageVars>>
           Apart   == UNCHANGED <<rows, scanVars, stageVars>>
<1>0. rows \in Seq(Row)
    BY DEF Types
<1>1. ASSUME NEW s \in Session, SuggestionToken(s) PROVE Growing
    BY <1>0, <1>1, Inserted DEF SuggestionToken, RowKind, Kind
<1>2. ASSUME NEW s \in Session, Queued(s) PROVE Apart
    BY <1>2 DEF Queued
<1>3. ASSUME NEW s \in Session, StoreSample(s) PROVE Growing
    BY <1>0, <1>3, Inserted DEF StoreSample, RowKind, Kind
<1>4. ASSUME NEW w \in Worker, Take(w) PROVE Apart
    BY <1>4 DEF Take
<1>5. ASSUME NEW w \in Worker, Measured(w) PROVE Growing
    <2>1. worker[w].session \in Session
        BY <1>5 DEF Measured, Types
    <2>. QED BY <1>0, <1>5, <2>1, Inserted DEF Measured, RowKind, Kind
<1>6. ASSUME NEW w \in Worker, Commit(w) PROVE Growing
    <2> DEFINE x == rows[worker[w].id].session
    <2>1. Grows(x) /\ rows[worker[w].id] \in Row
        BY <1>0, <1>6, Committed DEF Id
    <2>2. x \in Session
        BY <2>1 DEF Row
    <2>. QED BY <1>6, <2>1, <2>2 DEF Commit
<1>7. ASSUME NEW w \in Worker, InsertSampleFails(w) PROVE Apart
    BY <1>7 DEF InsertSampleFails
<1>8. CASE GetSamples \/ GetSamplesPartial \/ EndScan \/ EndScanFails
    BY <1>8 DEF GetSamples, GetSamplesPartial, ScanOf, EndScan, EndScanFails, tableVars
<1>9. ASSUME NEW i \in batch, Handle(i)
      PROVE  UNCHANGED <<rows, lastID, persisted, scanning, late, lost, analyzer, publisher, hosts>>
    BY <1>9 DEF Handle, tableVars
<1>10. CASE StageStep
    BY <1>10 DEF StageStep, Stage1, Stage2, Stage3, Fetch, ToAnalyzer, ToPublisher, CheckHost,
                 InsertHost, FetchFails, PublishFails, tableVars
<1>11. CASE Crash
    BY <1>11 DEF Crash
<1>12. CASE UNCHANGED vars
    BY <1>12 DEF vars, tableVars
<1>. QED
    BY <1>1, <1>2, <1>3, <1>4, <1>5, <1>6, <1>7, <1>8, <1>9, <1>10, <1>11, <1>12
    DEF Next, Measurer, Scan, StageStep

-----------------------------------------------------------------------------
(* The watermark *)

\* No fault is forgotten.
LEMMA FaultsGrow == ASSUME Types, [Next]_vars PROVE faults \in Nat /\ faults' \in Nat /\ faults <= faults'
<1>1. faults \in Nat
    BY DEF Types
<1>2. Next => UNCHANGED faults \/ Fault
    <2>1. ASSUME NEW s \in Session, SuggestionToken(s) \/ Queued(s) \/ StoreSample(s) PROVE UNCHANGED faults
        BY <2>1 DEF SuggestionToken, Queued, StoreSample
    <2>2. Measurer => UNCHANGED faults
        BY DEF Measurer, Take, Measured, Commit
    <2>3. Scan => UNCHANGED faults
        BY DEF Scan, GetSamples, Handle, EndScan
    <2>4. Stage1 \/ Stage2 \/ Stage3 => UNCHANGED faults
        BY DEF Stage1, Stage2, Stage3, Fetch, ToAnalyzer, ToPublisher, CheckHost, InsertHost
    <2>5. ASSUME NEW w \in Worker, InsertSampleFails(w) PROVE Fault
        BY <2>5 DEF InsertSampleFails
    <2>6. ASSUME NEW f \in Fetcher, FetchFails(f) PROVE Fault
        BY <2>6 DEF FetchFails
    <2>7. ASSUME NEW p \in Publisher, PublishFails(p) PROVE Fault
        BY <2>7 DEF PublishFails
    <2>8. GetSamplesPartial \/ EndScanFails \/ Crash => Fault
        BY DEF GetSamplesPartial, EndScanFails, Crash
    <2>. QED BY <2>1, <2>2, <2>3, <2>4, <2>5, <2>6, <2>7, <2>8 DEF Next
<1>3. UNCHANGED vars => UNCHANGED faults
    BY DEF vars
<1>. QED BY <1>1, <1>2, <1>3 DEF Fault

\* No step leaves a row of central behind the watermark unaccounted for.
LEMMA WatermarkNext ==
    ASSUME Types, Watermark, [Next]_vars PROVE Watermark'
<1>0. /\ Len(rows) \in Nat /\ lastID \in Nat /\ persisted \in Nat
      /\ faults \in Nat /\ faults' \in Nat /\ faults <= faults'
    BY FaultsGrow DEF Types
<1>1. ASSUME NEW x \in Session, Grows(x), UNCHANGED scanVars PROVE Watermark'
    <2>1. Len(rows') \in Nat /\ Len(rows) <= Len(rows')
        BY <1>1, TypesNext DEF Grows, Types
    <2>2. persisted' <= Len(rows') /\ lastID' <= Len(rows') /\ (~scanning' => batch' = {})
        BY <1>0, <1>1, <2>1 DEF Watermark, scanVars
    <2>3. ASSUME NEW i \in Id', i <= lastID \/ i <= persisted, rows'[i].kind = "central"
          PROVE  i \in Id /\ rows[i].kind = "central"
        <3>1. i \in Id
            BY <1>0, <2>1, <2>3 DEF Watermark, Id
        <3>. QED BY <1>1, <2>3, <3>1 DEF Grows
    <2>4. \A i \in Id' : i <= lastID' /\ rows'[i].kind = "central" => i \in (handed \cup late \cup lost \cup batch)'
        BY <1>1, <2>3 DEF Watermark, scanVars
    <2>5. \A i \in Id' : i <= persisted' /\ rows'[i].kind = "central" => i \in (handed \cup late \cup lost)'
        BY <1>1, <2>3 DEF Watermark, scanVars
    <2>6. faults' = 0 => lost' = {}
        BY <1>0, <1>1 DEF Watermark, scanVars
    <2>. QED BY <2>2, <2>4, <2>5, <2>6 DEF Watermark
<1>2. CASE UNCHANGED <<rows, scanVars>>
    <2>1. faults' = 0 => faults = 0
        BY <1>0
    <2>. QED BY <1>2, <2>1 DEF Watermark, scanVars, Id
<1>3. CASE (GetSamples \/ GetSamplesPartial) /\ UNCHANGED rows
    <2>0. PICK got \in SUBSET New : ScanOf(got) /\ (faults' = 0 => faults = 0 /\ got = New)
        <3>1. CASE GetSamples
            BY <3>1 DEF GetSamples
        <3>2. CASE GetSamplesPartial
            <4>1. PICK missing \in SUBSET {i \in New : rows[i].kind = "central"} : ScanOf(New \ missing)
                BY <3>2 DEF GetSamplesPartial
            <4>2. faults' # 0
                BY <1>0, <3>2 DEF GetSamplesPartial, Fault
            <4>. QED BY <4>1, <4>2
        <3>. QED BY <1>3, <3>1, <3>2
    <2> DEFINE missing == {i \in New \ got : rows[i].kind = "central" /\ i < lastID'}
    <2>1. /\ lastID' \in got \cup {lastID} /\ \A i \in got : i <= lastID'
          /\ batch' = {i \in got : rows[i].kind = "central"}
          /\ late' = late \cup {i \in Id : ~rows[i].seen /\ i < lastID'}
          /\ lost' = lost \cup missing
          /\ scanning' = TRUE /\ batch = {} /\ UNCHANGED <<persisted, handed>>
        BY <2>0 DEF ScanOf, Watermark
    <2>2. lastID' \in Nat /\ lastID <= lastID' /\ lastID' <= Len(rows)
        BY <1>0, <2>1 DEF Watermark, New, Id
    <2>3. ASSUME NEW i \in Id, i <= lastID', rows[i].kind = "central"
          PROVE  i \in handed' \cup late' \cup lost' \cup batch'
        <3>0. i \in Nat
            BY <1>0 DEF Id
        <3>1. CASE i <= lastID
            BY <2>1, <2>3, <3>1 DEF Watermark
        <3>2. CASE i \in got
            BY <2>1, <2>3, <3>2
        <3>3. CASE ~(i <= lastID) /\ i \notin got
            <4>1. i # lastID'
                BY <1>0, <2>1, <3>3
            <4>2. i < lastID'
                BY <2>2, <2>3, <3>0, <4>1
            <4>3. CASE rows[i].seen
                <5>1. i \in New
                    BY <1>0, <3>0, <3>3, <4>3 DEF New
                <5>2. i \in missing
                    BY <2>3, <3>3, <4>2, <5>1
                <5>. QED BY <2>1, <5>2
            <4>4. CASE ~rows[i].seen
                BY <2>1, <4>2, <4>4
            <4>. QED BY <4>3, <4>4
        <3>. QED BY <3>1, <3>2, <3>3
    <2>4. \A i \in Id : i <= persisted /\ rows[i].kind = "central" => i \in handed' \cup late' \cup lost'
        BY <2>1 DEF Watermark
    <2>5. faults' = 0 => lost' = {}
        BY <2>0, <2>1 DEF Watermark
    <2>6. Id' = Id /\ Len(rows') = Len(rows) /\ rows' = rows
        BY <1>3 DEF Id
    <2>7. persisted' <= Len(rows')
        BY <2>1, <2>6 DEF Watermark
    <2> HIDE DEF missing
    <2>. QED BY <2>1, <2>2, <2>3, <2>4, <2>5, <2>6, <2>7 DEF Watermark
<1>4. CASE (EndScan \/ EndScanFails) /\ UNCHANGED rows
    <2>1. /\ batch = {} /\ batch' = {} /\ scanning' = FALSE /\ UNCHANGED <<lastID, late, lost, handed>>
          /\ persisted' \in {persisted, lastID}
        BY <1>4 DEF EndScan, EndScanFails, ToPersist
    <2>2. persisted' <= Len(rows)
        BY <1>0, <2>1 DEF Watermark
    <2>3. \A i \in Id : i <= persisted' /\ rows[i].kind = "central" => i \in handed \cup late \cup lost
        BY <2>1 DEF Watermark
    <2>4. faults' = 0 => lost = {}
        BY <1>0 DEF Watermark
    <2>. QED BY <1>4, <2>1, <2>2, <2>3, <2>4 DEF Watermark, Id
<1>5. ASSUME NEW i \in batch, Handle(i), UNCHANGED <<rows, lastID, persisted, scanning, late, lost>>
      PROVE  Watermark'
    <2>1. batch' = batch \ {i} /\ handed' = handed \cup {i} /\ scanning'
        BY <1>5 DEF Handle, HandOver, Watermark
    <2>2. faults' = 0 => lost = {}
        BY <1>0 DEF Watermark
    <2>. QED BY <1>5, <2>1, <2>2 DEF Watermark, Id
<1>6. CASE Crash /\ UNCHANGED <<rows, persisted, late, lost, handed>>
    <2>1. lastID' \in {persisted, 0} /\ batch' = {} /\ persisted <= Len(rows)
        BY <1>6 DEF Crash, Watermark
    <2>2. \A i \in Id : ~(i <= 0)
        BY <1>0 DEF Id
    <2>3. \A i \in Id : i <= lastID' /\ rows[i].kind = "central" => i \in handed \cup late \cup lost
        BY <2>1, <2>2 DEF Watermark
    <2>4. faults' = 0 => lost = {}
        BY <1>0 DEF Watermark
    <2>5. lastID' <= Len(rows)
        BY <1>0, <2>1
    <2>. QED BY <1>6, <2>1, <2>3, <2>4, <2>5 DEF Watermark, Id
<1>. QED
    BY <1>1, <1>2, <1>3, <1>4, <1>5, <1>6, Steps

-----------------------------------------------------------------------------
(* What the stages know *)

\* What is seen depends on the table only.
LEMMA SeenSame ==
    ASSUME UNCHANGED rows PROVE \A s : Seen(s)' = Seen(s)
BY DEF Seen, Id

\* No step of central loses evidence.
LEMMA SeenKept ==
    ASSUME Types, [Next]_vars
    PROVE  (\A s \in Session : Table[s] \subseteq Table'[s]) /\ Evidence \subseteq Evidence'
<1>1. ASSUME NEW x \in Session, Grows(x) PROVE \A s : Seen(s) \subseteq Seen(s)'
    BY <1>1, TypesNext, SeenGrows DEF Types
<1>2. \A s : Seen(s) \subseteq Seen(s)'
    BY <1>1, Steps, SeenSame
<1>. QED BY <1>2 DEF Table, Evidence

\* No step makes a stage know what the table does not hold.
LEMMA GroundedNext ==
    ASSUME Types, Grounded, [Next]_vars PROVE Grounded'
<1>0. (\A s \in Session : Table[s] \subseteq Table'[s]) /\ Evidence \subseteq Evidence'
    BY SeenKept
<1>1. ASSUME UNCHANGED fetcher
      PROVE  \A f \in Fetcher : fetcher'[f] # Idle =>
                 fetcher'[f].session \in Session /\ fetcher'[f].kinds \subseteq Table'[fetcher'[f].session]
    BY <1>0, <1>1 DEF Grounded
<1>2. ASSUME UNCHANGED analyzer
      PROVE  \A a \in Analyzer : analyzer'[a] # Idle => analyzer'[a].session \in Evidence'
    BY <1>0, <1>2 DEF Grounded
<1>3. ASSUME UNCHANGED publisher
      PROVE  \A p \in Publisher : publisher'[p] # Idle => publisher'[p].session \in Evidence'
    BY <1>0, <1>3 DEF Grounded
<1>4. CASE UNCHANGED stageVars
    BY <1>1, <1>2, <1>3, <1>4 DEF Grounded, stageVars
<1>5. ASSUME NEW i \in batch, Handle(i), UNCHANGED <<analyzer, publisher>> PROVE Grounded'
    <2>1. rows[i] \in Row
        BY DEF Types, Id
    <2>2. rows[i].session \in Session
        BY <2>1 DEF Row
    <2>3. PICK f \in Fetcher : fetcher' =
              [fetcher EXCEPT ![f] = [Idle EXCEPT !.at = "fetch", !.session = rows[i].session]]
        BY <1>5 DEF Handle, HandOver
    <2>4. /\ [Idle EXCEPT !.at = "fetch", !.session = rows[i].session].session \in Session
          /\ [Idle EXCEPT !.at = "fetch", !.session = rows[i].session].kinds = {}
        BY <2>2 DEF Idle
    <2>5. \A g \in Fetcher : fetcher'[g] # Idle =>
              fetcher'[g].session \in Session /\ fetcher'[g].kinds \subseteq Table'[fetcher'[g].session]
        BY <1>0, <2>3, <2>4 DEF Grounded, Types
    <2>. QED BY <1>2, <1>3, <1>5, <2>5 DEF Grounded
<1>6. ASSUME NEW f \in Fetcher, NEW kinds \in SUBSET Seen(fetcher[f].session), UNCHANGED rows,
             fetcher[f].at = "fetch", UNCHANGED <<analyzer, publisher>>,
             fetcher' = [fetcher EXCEPT ![f].at = "fetched", ![f].kinds = kinds]
      PROVE  Grounded'
    <2>1. fetcher[f] # Idle
        BY <1>6 DEF Idle
    <2> DEFINE new == [fetcher[f] EXCEPT !.at = "fetched", !.kinds = kinds]
    <2>2. new.session = fetcher[f].session /\ new.kinds = kinds
        BY DEF Types, Job
    <2>3. fetcher[f].session \in Session /\ new.kinds \subseteq Table'[fetcher[f].session]
        BY <1>6, <2>1, <2>2, SeenSame DEF Grounded, Table
    <2>4. fetcher' = [fetcher EXCEPT ![f] = new]
        BY <1>6
    <2> HIDE DEF new
    <2>5. \A g \in Fetcher : fetcher'[g] # Idle =>
              fetcher'[g].session \in Session /\ fetcher'[g].kinds \subseteq Table'[fetcher'[g].session]
        BY <1>0, <2>1, <2>2, <2>4, <2>3 DEF Grounded, Types
    <2>. QED BY <1>2, <1>3, <1>6, <2>5 DEF Grounded
<1>12. ASSUME NEW f \in Fetcher, Fetch(f), UNCHANGED rows PROVE Grounded'
    <2>1. PICK kinds \in Organised(Seen(fetcher[f].session)) :
              fetcher' = [fetcher EXCEPT ![f].at = "fetched", ![f].kinds = kinds]
        BY <1>12 DEF Fetch
    <2>2. kinds \in SUBSET Seen(fetcher[f].session)
        BY OrganisedIsSeen
    <2>. QED BY <1>6, <1>12, <2>1, <2>2 DEF Fetch
<1>7. ASSUME NEW f \in Fetcher, FetchFails(f), fetcher' = [fetcher EXCEPT ![f] = Idle] PROVE Grounded'
    <2>1. \A g \in Fetcher : fetcher'[g] # Idle => fetcher'[g] = fetcher[g]
        BY <1>7 DEF FetchFails, Types
    <2>2. \A g \in Fetcher : fetcher'[g] # Idle =>
              fetcher'[g].session \in Session /\ fetcher'[g].kinds \subseteq Table'[fetcher'[g].session]
        BY <1>0, <2>1 DEF Grounded
    <2>. QED BY <1>2, <1>3, <1>7, <2>2 DEF Grounded, FetchFails
<1>13. ASSUME NEW f \in Fetcher, FetchFails(f), UNCHANGED rows PROVE Grounded'
    <2>1. ASSUME NEW k \in RowKind, NEW kinds \in Organised(Seen(fetcher[f].session) \ {k}),
                 fetcher' = [fetcher EXCEPT ![f].at = "fetched", ![f].kinds = kinds]
          PROVE  Grounded'
        <3>1. kinds \in SUBSET Seen(fetcher[f].session)
            BY OrganisedIsSeen
        <3>. QED BY <1>6, <1>13, <2>1, <3>1 DEF FetchFails
    <2>. QED BY <1>7, <1>13, <2>1 DEF FetchFails
<1>8. ASSUME NEW f \in Fetcher, NEW a \in Analyzer, ToAnalyzer(f, a) PROVE Grounded'
    <2>1. \A g \in Fetcher : fetcher'[g] # Idle => fetcher'[g] = fetcher[g]
        BY <1>8 DEF ToAnalyzer, Types
    <2>2. \A g \in Fetcher : fetcher'[g] # Idle =>
              fetcher'[g].session \in Session /\ fetcher'[g].kinds \subseteq Table'[fetcher'[g].session]
        BY <1>0, <2>1 DEF Grounded
    <2> DEFINE new == IF Analyzable(fetcher[f].kinds)
                      THEN [Idle EXCEPT !.at = "publish", !.session = fetcher[f].session] ELSE Idle
    <2>3. fetcher[f] # Idle
        BY <1>8 DEF ToAnalyzer, Idle
    <2>4. new # Idle => new.session \in Evidence'
        BY <1>0, <2>3 DEF Grounded, Analyzable, Idle, Table, Evidence
    <2>5. analyzer' = [analyzer EXCEPT ![a] = new]
        BY <1>8 DEF ToAnalyzer
    <2> HIDE DEF new
    <2>6. \A b \in Analyzer : analyzer'[b] # Idle => analyzer'[b].session \in Evidence'
        BY <1>0, <2>4, <2>5 DEF Grounded, Types
    <2>. QED BY <1>3, <1>8, <2>2, <2>6 DEF Grounded, ToAnalyzer
<1>9. ASSUME NEW a \in Analyzer, NEW p \in Publisher, ToPublisher(a, p) PROVE Grounded'
    <2>1. \A b \in Analyzer : analyzer'[b] # Idle => analyzer'[b] = analyzer[b]
        BY <1>9 DEF ToPublisher, Types
    <2>2. \A b \in Analyzer : analyzer'[b] # Idle => analyzer'[b].session \in Evidence'
        BY <1>0, <2>1 DEF Grounded
    <2> DEFINE new == [analyzer[a] EXCEPT !.at = "check"]
    <2>3. analyzer[a] # Idle
        BY <1>9 DEF ToPublisher, Idle
    <2>4. new.session = analyzer[a].session
        BY DEF Types, Job
    <2>5. publisher' = [publisher EXCEPT ![p] = new]
        BY <1>9 DEF ToPublisher
    <2> HIDE DEF new
    <2>6. \A q \in Publisher : publisher'[q] # Idle => publisher'[q].session \in Evidence'
        BY <1>0, <2>3, <2>4, <2>5 DEF Grounded, Types
    <2>. QED BY <1>1, <1>9, <2>2, <2>6 DEF Grounded, ToPublisher
<1>10. ASSUME NEW p \in Publisher, CheckHost(p) \/ InsertHost(p) \/ PublishFails(p) PROVE Grounded'
    <2> DEFINE new == [publisher[p] EXCEPT !.at = "insert"]
    <2>1. new.session = publisher[p].session
        BY DEF Types, Job
    <2>2. publisher' \in {[publisher EXCEPT ![p] = Idle], [publisher EXCEPT ![p] = new]}
          /\ publisher[p] # Idle
        BY <1>10 DEF CheckHost, InsertHost, PublishFails, Idle
    <2> HIDE DEF new
    <2>3. \A q \in Publisher : publisher'[q] # Idle => publisher'[q].session \in Evidence'
        BY <1>0, <2>1, <2>2 DEF Grounded, Types
    <2>. QED BY <1>1, <1>2, <1>10, <2>3 DEF Grounded, CheckHost, InsertHost, PublishFails
<1>11. CASE Crash
    BY <1>11 DEF Crash, Grounded
<1>. QED
    BY <1>4, <1>5, <1>8, <1>9, <1>10, <1>11, <1>12, <1>13, Steps DEF StageStep, Stage1, Stage2, Stage3

-----------------------------------------------------------------------------
(* Rows of a host *)

\* At most all publishers are about to insert a row for a host.
LEMMA InsertingFinite ==
    \A h : /\ IsFiniteSet(Inserting(h)) /\ Cardinality(Inserting(h)) \in Nat
           /\ Cardinality(Inserting(h)) <= Cardinality(Publisher)
<1>1. IsFiniteSet(Publisher)
    BY AnalysisAssumption
<1>2. \A h : Inserting(h) \in SUBSET Publisher
    BY DEF Inserting
<1>. QED BY <1>1, <1>2, FS_Subset, FS_CardinalityType

\* A publisher joins the inserting ones only while the host has no row, so rows and
\* inserting publishers together never exceed the publishers.
LEMMA BoundedNext ==
    ASSUME Types, Types', Grounded, Bounded, [Next]_vars PROVE Bounded'
<1>0. \A h : /\ IsFiniteSet(Inserting(h)) /\ Cardinality(Inserting(h)) \in Nat
             /\ Cardinality(Inserting(h)) <= Cardinality(Publisher)
    BY InsertingFinite
<1>1. \A h : /\ IsFiniteSet(Inserting(h)') /\ Cardinality(Inserting(h)') \in Nat
             /\ Cardinality(Inserting(h)') <= Cardinality(Publisher)
    <2>1. IsFiniteSet(Publisher)
        BY AnalysisAssumption
    <2>2. \A h : Inserting(h)' \in SUBSET Publisher
        BY DEF Inserting
    <2>. QED BY <2>1, <2>2, FS_Subset, FS_CardinalityType
<1>2. Cardinality(Publisher) \in Nat
    BY AnalysisAssumption, FS_CardinalityType
<1>3. \A h \in Host : hosts[h] \in Nat /\ hosts'[h] \in Nat
    BY DEF Types
<1>4. ASSUME UNCHANGED hosts, \A h \in Host : Inserting(h)' \subseteq Inserting(h) PROVE Bounded'
    <2>1. \A h \in Host : Cardinality(Inserting(h)') <= Cardinality(Inserting(h))
        BY <1>0, <1>4, FS_Subset
    <2>. QED BY <1>0, <1>1, <1>2, <1>3, <1>4, <2>1 DEF Bounded
<1>5. CASE UNCHANGED <<publisher, hosts>>
    BY <1>4, <1>5 DEF Inserting
<1>6. ASSUME NEW a \in Analyzer, NEW p \in Publisher, ToPublisher(a, p) PROVE Bounded'
    <2>1. publisher'[p].at = "check" /\ \A q \in Publisher \ {p} : publisher'[q] = publisher[q]
        BY <1>6 DEF ToPublisher, Types, Job
    <2>2. \A h \in Host : Inserting(h)' \subseteq Inserting(h)
        BY <2>1 DEF Inserting
    <2>. QED BY <1>4, <1>6, <2>2 DEF ToPublisher
<1>7. ASSUME NEW p \in Publisher, CheckHost(p) PROVE Bounded'
    <2> DEFINE s == publisher[p].session
    <2>1. s \in Session /\ HostOf[s] \in Host
        BY <1>7 DEF CheckHost, Grounded, Evidence, Idle, Host
    <2>2. \A q \in Publisher \ {p} : publisher'[q] = publisher[q]
        BY <1>7 DEF CheckHost, Types
    <2>3. CASE Exists(s)
        <3>1. publisher'[p] = Idle
            BY <1>7, <2>3 DEF CheckHost, Types
        <3>2. \A h \in Host : Inserting(h)' \subseteq Inserting(h)
            BY <2>2, <3>1 DEF Inserting, Idle
        <3>. QED BY <1>4, <1>7, <3>2 DEF CheckHost
    <2>4. CASE ~Exists(s)
        <3>1. hosts[HostOf[s]] = 0
            BY <1>3, <2>1, <2>4 DEF Exists
        <3>2. publisher'[p].session = s
            BY <1>7, <2>4 DEF CheckHost, Types, Job
        <3>3. ASSUME NEW h \in Host, h # HostOf[s] PROVE Inserting(h)' \subseteq Inserting(h)
            BY <2>2, <3>2, <3>3 DEF Inserting
        <3>4. \A h \in Host : h # HostOf[s] => Cardinality(Inserting(h)') <= Cardinality(Inserting(h))
            BY <1>0, <3>3, FS_Subset
        <3>5. UNCHANGED hosts
            BY <1>7 DEF CheckHost
        <3>. QED BY <1>0, <1>1, <1>2, <1>3, <3>1, <3>4, <3>5 DEF Bounded
    <2>. QED BY <2>3, <2>4
<1>8. ASSUME NEW p \in Publisher, InsertHost(p) PROVE Bounded'
    <2> DEFINE x == HostOf[publisher[p].session]
    <2>1. x \in Host /\ p \in Inserting(x)
        BY <1>8 DEF InsertHost, Grounded, Evidence, Idle, Host, Inserting
    <2>2. publisher'[p] = Idle /\ \A q \in Publisher \ {p} : publisher'[q] = publisher[q]
        BY <1>8 DEF InsertHost, Types
    <2>3. \A h \in Host : Inserting(h)' = Inserting(h) \ {p}
        BY <2>2 DEF Inserting, Idle
    <2>4. \A h \in Host : p \in Inserting(h) => h = x
        BY DEF Inserting
    <2>5. hosts' = [hosts EXCEPT ![x] = hosts[x] + 1]
        BY <1>8 DEF InsertHost
    <2> HIDE DEF x
    <2>6. \A h \in Host : Cardinality(Inserting(h)') =
              IF h = x THEN Cardinality(Inserting(h)) - 1 ELSE Cardinality(Inserting(h))
        BY <1>0, <2>1, <2>3, <2>4, FS_RemoveElement
    <2>7. \A h \in Host : hosts'[h] = IF h = x THEN hosts[h] + 1 ELSE hosts[h]
        BY <2>5 DEF Types
    <2>. QED BY <1>0, <1>1, <1>2, <1>3, <2>6, <2>7 DEF Bounded
<1>9. ASSUME NEW p \in Publisher, PublishFails(p) PROVE Bounded'
    <2>1. publisher'[p] = Idle /\ \A q \in Publisher \ {p} : publisher'[q] = publisher[q]
        BY <1>9 DEF PublishFails, Types
    <2>2. \A h \in Host : Inserting(h)' \subseteq Inserting(h)
        BY <2>1 DEF Inserting, Idle
    <2>. QED BY <1>4, <1>9, <2>2 DEF PublishFails
<1>10. CASE Crash
    <2>1. \A h \in Host : Inserting(h)' \subseteq Inserting(h)
        BY <1>10 DEF Crash, Inserting, Idle
    <2>. QED BY <1>4, <1>10, <2>1 DEF Crash
<1>11. CASE (\E f \in Fetcher : Fetch(f) \/ FetchFails(f) \/ \E a \in Analyzer : ToAnalyzer(f, a))
    BY <1>5, <1>11 DEF Fetch, FetchFails, ToAnalyzer
<1>. QED
    BY <1>5, <1>6, <1>7, <1>8, <1>9, <1>10, <1>11, Steps
    DEF StageStep, Stage1, Stage2, Stage3, stageVars

-----------------------------------------------------------------------------
(* Theorems *)

\* The invariant holds initially, ...
LEMMA InvInit == Init => IInv
<1> SUFFICES ASSUME Init PROVE IInv
    OBVIOUS
<1>1. Types
    BY TypesInit
<1>2. Watermark
    BY DEF Init, Watermark, Id
<1>3. Grounded
    BY DEF Init, Grounded
<1>4. \A h : Inserting(h) = {}
    BY DEF Init, Inserting, Idle
<1>5. Bounded
    <2>1. Cardinality(Publisher) \in Nat /\ Cardinality({}) = 0
        BY AnalysisAssumption, FS_CardinalityType, FS_EmptySet
    <2>2. \A h \in Host : hosts[h] = 0
        BY DEF Init
    <2>. QED BY <1>4, <2>1, <2>2 DEF Bounded
<1>. QED BY <1>1, <1>2, <1>3, <1>5 DEF IInv

\* ... and every step keeps it.
LEMMA InvNext == IInv /\ [Next]_vars => IInv'
BY TypesNext, WatermarkNext, GroundedNext, BoundedNext DEF IInv

\* The inductive invariant: types, what the watermark says about the rows below it, what
\* the stages know about the sessions they work on, and how many rows a host may get.
THEOREM Invariance == Spec => []IInv
<1>1. Init => IInv BY InvInit
<1>2. IInv /\ [Next]_vars => IInv' BY InvNext
<1>. QED BY <1>1, <1>2, PTL DEF Spec

\* A row of central's measurement that lies below the stored watermark was handed to the
\* stages, was invisible when a scan went past it, or was left out of an answer of the
\* database, however often central dies and wherever it starts again; and while nothing
\* fails no row is left out.
THEOREM NothingSkippedHolds == Spec => []NothingSkipped
<1>1. IInv => NothingSkipped BY DEF IInv, Watermark, NothingSkipped
<1>. QED BY <1>1, Invariance, PTL

\* However many goroutines publish, and however often central starts again, a host gets
\* at most one row for each of them.
THEOREM FewDuplicatesHolds == Spec => []FewDuplicates
<1>1. IInv => FewDuplicates
    <2> SUFFICES ASSUME IInv, NEW h \in Host PROVE hosts[h] <= Cardinality(Publisher)
        BY DEF FewDuplicates
    <2>1. hosts[h] \in Nat /\ hosts[h] + Cardinality(Inserting(h)) <= Cardinality(Publisher)
        BY DEF IInv, Types, Bounded
    <2>2. Cardinality(Inserting(h)) \in Nat /\ Cardinality(Publisher) \in Nat
        BY InsertingFinite, AnalysisAssumption, FS_CardinalityType
    <2>. QED BY <2>1, <2>2
<1>. QED BY <1>1, Invariance, PTL

\* A step of central is a step of Publication: a session's evidence becomes complete, a
\* host is published on complete evidence, or nothing changes there.
LEMMA StepKeepsPromise ==
    ASSUME IInv, [Next]_vars
    PROVE  [Promise!Next]_<<{s \in Session : Kind \subseteq Seen(s)}, {h \in Host : hosts[h] > 0}>>
<1> DEFINE Published == {h \in Host : hosts[h] > 0}
<1>0. Types /\ Types'
    BY TypesNext DEF IInv
<1>1. ASSUME UNCHANGED <<rows, hosts>> PROVE UNCHANGED <<Evidence, Published>>
    BY <1>1, SeenSame DEF Evidence
<1>2. ASSUME NEW x \in Session, Grows(x), UNCHANGED hosts
      PROVE  UNCHANGED <<Evidence, Published>> \/ Promise!Complete(x)
    <2>1. \A s : Seen(s) \subseteq Seen(s)' /\ (s # x => Seen(s)' = Seen(s))
        BY <1>0, <1>2, SeenGrows DEF Types
    <2>2. Evidence' = Evidence \/ (x \notin Evidence /\ Evidence' = Evidence \cup {x})
        BY <1>2, <2>1 DEF Evidence
    <2>3. UNCHANGED Published
        BY <1>2
    <2>. QED BY <2>2, <2>3 DEF Promise!Complete, Evidence
<1>3. ASSUME NEW p \in Publisher, InsertHost(p), UNCHANGED rows
      PROVE  \E s \in Session : Promise!Publish(s)
    <2>0. publisher[p].session \in Evidence
        BY <1>3 DEF InsertHost, IInv, Grounded, Idle
    <2>1. PICK s \in Session : s \in Evidence /\ s = publisher[p].session
        BY <2>0 DEF Evidence
    <2>2. HostOf[s] \in Host
        BY DEF Host
    <2>3. hosts' = [hosts EXCEPT ![HostOf[s]] = hosts[HostOf[s]] + 1]
        BY <1>3, <2>1 DEF InsertHost
    <2>4. UNCHANGED Evidence
        BY <1>3, SeenSame DEF Evidence
    <2>5. Published' = Published \cup {HostOf[s]}
        BY <1>0, <2>2, <2>3 DEF Types
    <2>. QED BY <2>1, <2>2, <2>4, <2>5 DEF Promise!Publish, Evidence
<1>4. CASE StageStep /\ UNCHANGED rows /\ ~\E p \in Publisher : InsertHost(p)
    <2>1. UNCHANGED hosts
        BY <1>4 DEF StageStep, Stage1, Stage2, Stage3, Fetch, FetchFails, ToAnalyzer, ToPublisher,
                    CheckHost, PublishFails
    <2>. QED BY <1>1, <1>4, <2>1 DEF Evidence
<1>5. CASE \E x \in Session : Grows(x) /\ UNCHANGED <<scanVars, stageVars>>
    BY <1>2, <1>5 DEF Promise!Next, Evidence, stageVars
<1>6. CASE \E p \in Publisher : InsertHost(p) /\ UNCHANGED rows
    BY <1>3, <1>6 DEF Promise!Next
<1>7. CASE UNCHANGED <<rows, hosts>>
    BY <1>1, <1>7 DEF Evidence
<1>8. (\E x \in Session : Grows(x) /\ UNCHANGED <<scanVars, stageVars>>)
      \/ UNCHANGED <<rows, hosts>> \/ (StageStep /\ UNCHANGED rows)
    BY <1>0, Steps DEF stageVars
<1>. QED BY <1>4, <1>5, <1>6, <1>7, <1>8

\* Central implements Publication: it publishes a host only on complete evidence, and
\* withdraws nothing.
THEOREM KeepsPromiseHolds == Spec => KeepsPromise
<1>1. Init => Promise!Init
    <2> SUFFICES ASSUME Init PROVE Promise!Init
        OBVIOUS
    <2>1. \A s : Seen(s) = {}
        BY DEF Init, Seen, Id
    <2>2. Kind # {}
        BY DEF Kind
    <2>. QED BY <2>1, <2>2 DEF Init, Promise!Init
<1>2. IInv /\ [Next]_vars =>
          [Promise!Next]_<<{s \in Session : Kind \subseteq Seen(s)}, {h \in Host : hosts[h] > 0}>>
    BY StepKeepsPromise
<1>. QED BY <1>1, <1>2, Invariance, PTL DEF Spec, KeepsPromise, Promise!Spec
=============================================================================
