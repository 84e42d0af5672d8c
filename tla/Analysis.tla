------------------------------- MODULE Analysis -------------------------------
(***************************************************************************)
(* Central from a new session to a published host: the queue of            *)
(* measurement requests and its workers (pkg/central/measurements.go), the *)
(* samples table with its serial IDs, the scan with its watermark and the  *)
(* three stages behind it (pkg/central/analysis/analysis.go), PublishHost  *)
(* (pkg/central/db/postgres.go), and a process that may die at any time.   *)
(*                                                                         *)
(* Only the rows the analysis looks at are modelled: NewClientToken and    *)
(* HTTPHeader, a client's one being "junk" when it is JSON, but not of an  *)
(* HTTPHeaderResult.  An ID is taken from the sequence when a row is       *)
(* inserted and the row is seen when it is committed, so rows may appear   *)
(* out of order.  Implements Publication.                                  *)
(***************************************************************************)
EXTENDS Naturals, FiniteSets, Sequences

CONSTANTS Session,       \* sessions (their tokens)
          HostOf,        \* Session -> host, country and ASN it is published under
          Worker,        \* measurement workers
          Fetcher, Analyzer, Publisher, \* goroutines of the stages
          QueueLength,   \* capacity of requestMeasurements
          MaxClient,     \* bound: HTTPHeader samples of either kind a client sends for a session
          Careless,      \* bound: sessions whose client may send junk
          MaxFaults      \* bound: crashes of central, errors and broken results of its database

ASSUME AnalysisAssumption ==
    /\ QueueLength \in Nat \ {0} /\ MaxClient \in Nat /\ MaxFaults \in Nat
    /\ IsFiniteSet(Publisher)

VARIABLES
    rows,       \* samples: sequence of [session, kind, seen]; the index is the ID
    waiting,    \* sessions whose SuggestionToken call is blocked on the queue
    queue,      \* requestMeasurements
    worker,     \* Worker -> session measured (or Nobody) and ID of the row being inserted
    lastID,     \* of StartAnalysis
    lastPersistedID, \* of StartAnalysis: what it believes to be stored
    persisted,  \* central_state last_processed_sample_id
    batch,      \* IDs the running scan has to hand to a fetcher
    scanning,   \* a scan is running
    fetcher,    \* Fetcher -> stage and session
    analyzer,   \* Analyzer -> session and the kinds of its samples
    publisher,  \* Publisher -> stage and session
    hosts,      \* hosts_publish: host -> number of rows
    faults,
    \* history variables: read by properties only
    late,       \* IDs that were inserted but not seen by a scan that went past them
    lost,       \* IDs of Central HTTPHeader rows the database left out of a result with higher ones in it
    handed      \* IDs of Central HTTPHeader rows handed to a fetcher

Nobody == "nobody"
Kind   == {"token", "client", "central"}   \* the evidence of a session
RowKind == Kind \cup {"junk"}
Id     == 1 .. Len(rows)
NoRequest == [session |-> Nobody, id |-> 0]
Idle   == [at |-> "idle", session |-> Nobody, kinds |-> {}]
Host   == {HostOf[s] : s \in Session}

tableVars == <<rows, waiting, queue, worker>>
scanVars  == <<lastID, lastPersistedID, persisted, batch, scanning, late, lost, handed>>
stageVars == <<fetcher, analyzer, publisher, hosts>>
vars      == <<tableVars, scanVars, stageVars, faults>>

Seen(s) == {rows[i].kind : i \in {j \in Id : rows[j].session = s /\ rows[j].seen}}

\* Every variable keeps its type, and no watermark is ahead of the table.
TypeOK ==
    /\ rows \in Seq([session : Session, kind : RowKind, seen : BOOLEAN])
    /\ waiting \subseteq Session /\ Len(queue) <= QueueLength
    /\ worker \in [Worker -> [session : Session \cup {Nobody}, id : Id \cup {0}]]
    /\ {lastID, lastPersistedID, persisted} \subseteq 0 .. Len(rows)
    /\ batch \subseteq Id /\ late \subseteq Id /\ lost \subseteq Id /\ handed \subseteq Id
    /\ \A h \in Host : hosts[h] \in Nat

Init ==
    /\ rows = <<>> /\ waiting = {} /\ queue = <<>> /\ worker = [w \in Worker |-> NoRequest]
    /\ lastID = 0 /\ lastPersistedID = 0 /\ persisted = 0 /\ batch = {} /\ scanning = FALSE
    /\ fetcher = [f \in Fetcher |-> Idle] /\ analyzer = [a \in Analyzer |-> Idle]
    /\ publisher = [p \in Publisher |-> Idle] /\ hosts = [h \in Host |-> 0]
    /\ faults = 0 /\ late = {} /\ lost = {} /\ handed = {}

-----------------------------------------------------------------------------
(* Rows *)

Fault == faults < MaxFaults /\ faults' = faults + 1

Insert(s, kind, seen) == rows' = Append(rows, [session |-> s, kind |-> kind, seen |-> seen])

Known(s) == \E i \in Id : rows[i].session = s /\ rows[i].kind = "token"

\* SuggestionToken up to queueMeasurements.  Its row is committed before the request
\* is queued and before the client hears of the token.
SuggestionToken(s) ==
    /\ ~Known(s)
    /\ Insert(s, "token", TRUE)
    /\ waiting' = waiting \cup {s}
    /\ UNCHANGED <<queue, worker, scanVars, stageVars, faults>>

\* The send blocks while the queue is full, and with it the answer.
queueMeasurements(s) == Len(queue) < QueueLength /\ queue' = Append(queue, s)

Queued(s) ==
    /\ s \in waiting /\ queueMeasurements(s)
    /\ waiting' = waiting \ {s}
    /\ UNCHANGED <<rows, worker, scanVars, stageVars, faults>>

\* StoreSample of a client's HTTPHeader, after the token was answered; any JSON is stored.
\* Only central's rows are told apart by their ID, so one of these that is seen late is
\* stored late.
StoreSample(s) ==
    /\ Known(s) /\ s \notin waiting
    /\ \E kind \in {"client"} \cup (IF s \in Careless THEN {"junk"} ELSE {}) :
          /\ Cardinality({i \in Id : rows[i].session = s /\ rows[i].kind = kind}) < MaxClient
          /\ Insert(s, kind, TRUE)
    /\ UNCHANGED <<waiting, queue, worker, scanVars, stageVars, faults>>

\* Fault variant of Take: a worker waits for more than one request.
TakeSecond(w) ==
    /\ worker[w] = NoRequest /\ Len(queue) > 1
    /\ worker' = [worker EXCEPT ![w].session = Head(queue)] /\ queue' = Tail(queue)
    /\ UNCHANGED <<rows, waiting, scanVars, stageVars, faults>>

\* A worker of startMeasurer takes a request, ...
Take(w) ==
    /\ worker[w] = NoRequest /\ queue # <<>>
    /\ worker' = [worker EXCEPT ![w].session = Head(queue)] /\ queue' = Tail(queue)
    /\ UNCHANGED <<rows, waiting, scanVars, stageVars, faults>>

\* ... measures, begins to insert central's HTTPHeader, ...
Measured(w) ==
    /\ worker[w].session # Nobody /\ worker[w].id = 0
    /\ Insert(worker[w].session, "central", FALSE)
    /\ worker' = [worker EXCEPT ![w].id = Len(rows) + 1]
    /\ UNCHANGED <<waiting, queue, scanVars, stageVars, faults>>

\* ... and the row is committed.
Commit(w) ==
    /\ worker[w].id # 0
    /\ rows' = [rows EXCEPT ![worker[w].id].seen = TRUE]
    /\ worker' = [worker EXCEPT ![w] = NoRequest]
    /\ UNCHANGED <<waiting, queue, scanVars, stageVars, faults>>

\* An insert that fails is logged and leaves an unused ID.
InsertSampleFails(w) ==
    /\ worker[w].id # 0 /\ Fault
    /\ worker' = [worker EXCEPT ![w] = NoRequest]
    /\ UNCHANGED <<rows, waiting, queue, scanVars, stageVars>>

-----------------------------------------------------------------------------
(* The scan of StartAnalysis *)

\* What the query of GetSamples(lastID) selects.
New == {i \in Id : i > lastID /\ rows[i].seen}

\* The scan goes through a result.  lastID is local to it, so it may move to the newest row
\* read at once; of the rows only Central HTTPHeaders have an effect.
ScanOf(got) ==
    /\ ~scanning /\ scanning' = TRUE
    /\ lastID' \in got \cup {lastID} /\ \A i \in got : i <= lastID'
    /\ batch' = {i \in got : rows[i].kind = "central"}
    /\ late' = late \cup {i \in Id : ~rows[i].seen /\ i < lastID'}
    /\ lost' = lost \cup {i \in New \ got : rows[i].kind = "central" /\ i < lastID'}
    /\ UNCHANGED <<tableVars, lastPersistedID, persisted, handed, stageVars>>

\* Every 5 s.
GetSamples ==
    /\ New # {} \/ lastID # lastPersistedID
    /\ ScanOf(New) /\ UNCHANGED faults

\* A row that does not scan is passed over, and a result that breaks off just ends: its
\* rows come in no order and rows.Err is not asked.  (Rows the scan does nothing for may be
\* missing at any time, and newest rows alone do no harm: the next tick reads them.)
GetSamplesPartial ==
    /\ Fault
    /\ \E missing \in SUBSET {i \in New : rows[i].kind = "central"} : ScanOf(New \ missing)
    /\ lost' # lost

\* Fault variant of HandOver: the session is dropped when no fetcher is free.
HandOrDrop(i) ==
    /\ fetcher' = [f \in Fetcher |-> IF fetcher[f] # Idle THEN fetcher[f] ELSE
                     [Idle EXCEPT !.at = "fetch", !.session = rows[i].session]]
    /\ handed' = handed \cup {i}

\* The scan waits until a fetcher is free.
HandOver(i) ==
    \E f \in Fetcher :
       /\ fetcher[f] = Idle
       /\ fetcher' = [fetcher EXCEPT ![f] = [Idle EXCEPT !.at = "fetch", !.session = rows[i].session]]
       /\ handed' = handed \cup {i}

Handle(i) ==
    /\ i \in batch /\ batch' = batch \ {i}
    /\ HandOver(i)
    /\ UNCHANGED <<tableVars, lastID, lastPersistedID, persisted, scanning, late, lost, analyzer,
                   publisher, hosts, faults>>

\* Fault variant of ToPersist: the newest ID of the table.
NewestID == Len(rows)

ToPersist == lastID

\* SetLastProcessedSampleID, when everything was handed on and lastID has moved.
EndScan ==
    /\ scanning /\ batch = {} /\ scanning' = FALSE
    /\ persisted' = IF lastID # lastPersistedID THEN ToPersist ELSE persisted
    /\ lastPersistedID' = lastID
    /\ UNCHANGED <<tableVars, lastID, batch, late, lost, handed, stageVars, faults>>

\* RowsAffected fails, with the row written or not: the next tick tries again.  (A
\* statement that fails ends the process: Crash.)
EndScanFails ==
    /\ scanning /\ batch = {} /\ scanning' = FALSE /\ lastID # lastPersistedID /\ Fault
    /\ persisted' \in {persisted, ToPersist}
    /\ UNCHANGED <<tableVars, lastID, lastPersistedID, batch, late, lost, handed, stageVars>>

-----------------------------------------------------------------------------
(* The stages.  Their channels are unbuffered: each waits for the next. *)

\* What samplesAnalyzer makes of a session's rows: of several HTTPHeaders of the client it
\* keeps the one that came last, and they come in no order.
Organised(seen) ==
    IF {"client", "junk"} \subseteq seen THEN {seen \ {"client"}, seen \ {"junk"}} ELSE {seen}

\* sessionFetcher: GetSessionSamples.
Fetch(f) ==
    /\ fetcher[f].at = "fetch"
    /\ \E kinds \in Organised(Seen(fetcher[f].session)) :
          fetcher' = [fetcher EXCEPT ![f].at = "fetched", ![f].kinds = kinds]
    /\ UNCHANGED <<tableVars, scanVars, analyzer, publisher, hosts, faults>>

\* The query fails, or its result lacks rows, as that of GetSamples may; of more than one
\* kind no more is said than of one.
FetchFails(f) ==
    /\ fetcher[f].at = "fetch" /\ Fault
    /\ \/ fetcher' = [fetcher EXCEPT ![f] = Idle]
       \/ \E k \in RowKind : \E kinds \in Organised(Seen(fetcher[f].session) \ {k}) :
             fetcher' = [fetcher EXCEPT ![f].at = "fetched", ![f].kinds = kinds]
    /\ UNCHANGED <<tableVars, scanVars, analyzer, publisher, hosts>>

\* Fault variant of Analyzable: central's word is enough.
AnalyzableCentral(kinds) == {"token", "central"} \subseteq kinds

\* What samplesAnalyzer wants: a token and both HTTPHeaders, the client's one not junk.
\* Such a session is always published, its score being at least 0.5 (module Score).
Analyzable(kinds) == Kind \subseteq kinds

\* samplesAnalyzer takes the samples, and drops them when it cannot analyse them.
ToAnalyzer(f, a) ==
    /\ fetcher[f].at = "fetched" /\ analyzer[a] = Idle
    /\ analyzer' = [analyzer EXCEPT ![a] = IF Analyzable(fetcher[f].kinds)
                                          THEN [Idle EXCEPT !.at = "publish", !.session = fetcher[f].session]
                                          ELSE Idle]
    /\ fetcher' = [fetcher EXCEPT ![f] = Idle]
    /\ UNCHANGED <<tableVars, scanVars, publisher, hosts, faults>>

\* hostPublisher takes the session.
ToPublisher(a, p) ==
    /\ analyzer[a].at = "publish" /\ publisher[p] = Idle
    /\ publisher' = [publisher EXCEPT ![p] = [analyzer[a] EXCEPT !.at = "check"]]
    /\ analyzer' = [analyzer EXCEPT ![a] = Idle]
    /\ UNCHANGED <<tableVars, scanVars, fetcher, hosts, faults>>

\* PublishHost asks whether the host is there, ...
Exists(s) == hosts[HostOf[s]] > 0

CheckHost(p) ==
    /\ publisher[p].at = "check"
    /\ publisher' = [publisher EXCEPT ![p] = IF Exists(@.session) THEN Idle
                                             ELSE [@ EXCEPT !.at = "insert"]]
    /\ UNCHANGED <<tableVars, scanVars, fetcher, analyzer, hosts, faults>>

\* Fault variant of InsertHost: an insert that is not answered is sent again.
InsertRetried(p) ==
    /\ publisher[p].at = "insert"
    /\ hosts' = [hosts EXCEPT ![HostOf[publisher[p].session]] = @ + 1]
    /\ publisher' \in {publisher, [publisher EXCEPT ![p] = Idle]}
    /\ UNCHANGED <<tableVars, scanVars, fetcher, analyzer, faults>>

\* ... and inserts it in another statement.
InsertHost(p) ==
    /\ publisher[p].at = "insert"
    /\ hosts' = [hosts EXCEPT ![HostOf[publisher[p].session]] = @ + 1]
    /\ publisher' = [publisher EXCEPT ![p] = Idle]
    /\ UNCHANGED <<tableVars, scanVars, fetcher, analyzer, faults>>

\* Either statement fails: logged, and the session is not tried again.
PublishFails(p) ==
    /\ publisher[p] # Idle /\ Fault
    /\ publisher' = [publisher EXCEPT ![p] = Idle]
    /\ UNCHANGED <<tableVars, scanVars, fetcher, analyzer, hosts>>

-----------------------------------------------------------------------------
\* Central dies and starts again from the watermark, or from 0 when it cannot be read:
\* StartAnalysis only warns.  Requests, goroutines and uncommitted rows are gone; the IDs
\* stay used.
Crash ==
    /\ Fault
    /\ waiting' = {} /\ queue' = <<>> /\ worker' = [w \in Worker |-> NoRequest]
    /\ lastID' \in {persisted, 0} /\ lastPersistedID' = lastID' /\ batch' = {} /\ scanning' = FALSE
    /\ fetcher' = [f \in Fetcher |-> Idle] /\ analyzer' = [a \in Analyzer |-> Idle]
    /\ publisher' = [p \in Publisher |-> Idle]
    /\ UNCHANGED <<rows, persisted, late, lost, handed, hosts>>

Measurer == \E w \in Worker : Take(w) \/ Measured(w) \/ Commit(w)
Scan     == GetSamples \/ (\E i \in batch : Handle(i)) \/ EndScan
Stage1   == \E f \in Fetcher : Fetch(f) \/ \E a \in Analyzer : ToAnalyzer(f, a)
Stage2   == \E a \in Analyzer, p \in Publisher : ToPublisher(a, p)
Stage3   == \E p \in Publisher : CheckHost(p) \/ InsertHost(p)

Next ==
    \/ \E s \in Session : SuggestionToken(s) \/ Queued(s) \/ StoreSample(s)
    \/ Measurer \/ Scan \/ Stage1 \/ Stage2 \/ Stage3
    \/ (\E w \in Worker : InsertSampleFails(w)) \/ GetSamplesPartial \/ EndScanFails
    \/ (\E f \in Fetcher : FetchFails(f)) \/ (\E p \in Publisher : PublishFails(p)) \/ Crash

Spec == Init /\ [][Next]_vars

\* While a goroutine of central can go on, one of them does.
FairSpec ==
    Spec /\ WF_vars((\E s \in Session : Queued(s)) \/ Measurer \/ Scan \/ Stage1 \/ Stage2 \/ Stage3)

-----------------------------------------------------------------------------
(* Properties *)

Promise == INSTANCE Publication
    WITH evidence <- {s \in Session : Kind \subseteq Seen(s)},
         published <- {h \in Host : hosts[h] > 0}

\* Central keeps the promise of Publication: whatever fails, and in whatever order
\* rows become visible, a host is published only on complete evidence.
KeepsPromise == Promise!Spec

\* Check and insert are two statements and hosts_publish has no unique key: a host may
\* get several rows, but never more than there are publishers.
FewDuplicates == \A h \in Host : hosts[h] <= Cardinality(Publisher)

\* A measurement of central below the stored watermark was handed to the stages, however
\* often central dies and wherever it starts again.  There are two exceptions: a row that
\* was not yet visible when a scan went past it, and one the database left out of a result
\* that held a later one, of which GetSamples does not tell.  While nothing fails there is
\* the first one only.
NothingSkipped ==
    \A i \in Id : i <= persisted /\ rows[i].kind = "central" =>
        /\ i \in handed \cup late \cup lost
        /\ faults = 0 => i \in handed \cup late

\* A session whose evidence is complete before the scan reaches central's measurement
\* has its host published, unless central dies or its database fails on the way, or the
\* client also stored an HTTPHeader that cannot be read, for which the session is dropped
\* when that one comes last.
Ripe(s) ==
    /\ Kind \subseteq Seen(s)
    /\ \E i \in Id : /\ rows[i].session = s /\ rows[i].kind = "central" /\ rows[i].seen
                     /\ i \in batch \/ (~scanning /\ i > lastID)
RipeIsPublished ==
    \A s \in Session :
        (faults = 0 /\ Ripe(s)) ~> (hosts[HostOf[s]] > 0 \/ faults > 0 \/ "junk" \in Seen(s))

\* Requests for a token are answered although the queue may be full: the workers drain it.
TokenAnswered == (waiting # {}) ~> (waiting = {})

=============================================================================
