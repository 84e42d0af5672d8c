----------------------------- MODULE PatchFactory ----------------------------
(***************************************************************************)
(* The making of binary patches (upgradebin/makepatch): a creator per      *)
(* artifact queues a job for each old version it can download (pkg/nexus), *)
(* workers turn jobs into patches, a closer ends the channels, and         *)
(* createUpgradeAuto (cmd/alkasir-admin) collects the results.             *)
(***************************************************************************)
EXTENDS Naturals, Sequences, FiniteSets

CONSTANTS
    Artifact,      \* artifacts of jobQs
    NumVersions,   \* released versions of each: NumVersions is the latest
    MaxHistory,    \* PatchHistoryAmountMax
    JobCap,        \* capacity of jobC
    PWorker        \* nWorkers

VARIABLES
    creator,   \* Artifact -> [at : stage, next : the next old version, 0 for none]
    jobC,      \* queue of <<artifact, old version>>
    jobsOpen,  \* jobC is open
    pworker,   \* PWorker -> [at : stage, job]
    closer,    \* "creators", "workers", "closed"
    patches,   \* results received: <<artifact, old version>>
    empty,     \* history: jobs whose binary could not be read, and gave an empty result
    factory,   \* "off", "running", "done", "fatal"
    files      \* diffs written

fvars == <<creator, jobC, jobsOpen, pworker, closer, patches, empty, factory, files>>

NoJob == <<>>

FInit ==
    /\ creator = [a \in Artifact |-> [at |-> "new", next |-> 0]]
    /\ jobC = <<>> /\ jobsOpen = TRUE /\ pworker = [w \in PWorker |-> [at |-> "idle", job |-> NoJob]]
    /\ closer = "creators" /\ patches = {} /\ empty = {} /\ factory = "off" /\ files = {}

\* createUpgradeAuto: without its keys it ends; RunPatchesCreate starts the goroutines.
RunPatchesCreate ==
    /\ factory = "off" /\ factory' \in {"running", "fatal"}
    /\ UNCHANGED <<creator, jobC, jobsOpen, pworker, closer, patches, empty, files>>

Live == factory = "running"

\* lg.Fatal anywhere ends the process.
Fatal == factory' = "fatal" /\ UNCHANGED <<creator, jobC, jobsOpen, pworker, closer, patches, empty, files>>

-----------------------------------------------------------------------------
(* createJobs *)

\* The versions, newest first, without the latest and without the oldest ones.
OldVersions == {v \in 1..(NumVersions - 1) : v >= NumVersions - MaxHistory}

\* GetVersions and the latest binary.
GetVersions(a) ==
    /\ Live /\ creator[a].at = "new"
    /\ \/ Fatal
       \/ /\ creator' = [creator EXCEPT ![a] = [at |-> "binary", next |-> NumVersions - 1]]
          /\ UNCHANGED <<jobC, jobsOpen, pworker, closer, patches, empty, factory, files>>

Retire(a) == [creator EXCEPT ![a].at = "done"]

\* GetBinary of one old version: it is there, or downloaded and extracted, where a failing
\* extraction is tried once more after another download; what still fails is fatal.
GetBinary(a) ==
    /\ Live /\ creator[a].at = "binary"
    /\ IF creator[a].next \in OldVersions
          THEN \/ Fatal
               \/ /\ creator' = [creator EXCEPT ![a].at = "send"]
                  /\ UNCHANGED <<jobC, jobsOpen, pworker, closer, patches, empty, factory, files>>
          ELSE /\ creator' = Retire(a)
               /\ UNCHANGED <<jobC, jobsOpen, pworker, closer, patches, empty, factory, files>>

\* jobC <- j
SendJob(a) ==
    /\ Live /\ creator[a].at = "send" /\ Len(jobC) < JobCap
    /\ jobC' = Append(jobC, <<a, creator[a].next>>)
    /\ creator' = [creator EXCEPT ![a].at = "binary", ![a].next = @ - 1]
    /\ UNCHANGED <<jobsOpen, pworker, closer, patches, empty, factory, files>>

-----------------------------------------------------------------------------
(* Workers *)

\* for job := range jobC
TakeJob(w) ==
    /\ Live /\ pworker[w].at = "idle"
    /\ IF jobC # <<>>
          THEN /\ pworker' = [pworker EXCEPT ![w] = [at |-> "patch", job |-> Head(jobC)]]
               /\ jobC' = Tail(jobC)
          ELSE ~jobsOpen /\ pworker' = [pworker EXCEPT ![w].at = "done"] /\ UNCHANGED jobC
    /\ UNCHANGED <<creator, jobsOpen, closer, patches, empty, factory, files>>

\* CreatePatch: an error of the key or of writing is fatal, one of reading gives an empty
\* result without an error.
CreatePatch(w) ==
    LET j == pworker[w].job IN
    /\ Live /\ pworker[w].at = "patch"
    /\ \/ Fatal
       \/ /\ files' = files \cup {j} /\ pworker' = [pworker EXCEPT ![w].at = "send"]
          /\ UNCHANGED <<creator, jobC, jobsOpen, closer, patches, empty, factory>>
       \/ /\ empty' = empty \cup {j} /\ pworker' = [pworker EXCEPT ![w].at = "send"]
          /\ UNCHANGED <<creator, jobC, jobsOpen, closer, patches, factory, files>>

\* resC <- res, received by RunPatchesCreate.
SendResult(w) ==
    /\ Live /\ pworker[w].at = "send"
    /\ patches' = patches \cup {pworker[w].job}
    /\ pworker' = [pworker EXCEPT ![w] = [at |-> "idle", job |-> NoJob]]
    /\ UNCHANGED <<creator, jobC, jobsOpen, closer, empty, factory, files>>

-----------------------------------------------------------------------------
\* Fault variant of CloseJobs: the jobs are closed when the first creator is done.
CloseJobsEarly ==
    /\ Live /\ closer = "creators" /\ (\E a \in Artifact : creator[a].at = "done")
    /\ jobsOpen' = FALSE /\ closer' = "workers"
    /\ UNCHANGED <<creator, jobC, pworker, patches, empty, factory, files>>

\* creators.Wait and close(jobC)
CloseJobs ==
    /\ Live /\ closer = "creators" /\ (\A a \in Artifact : creator[a].at = "done")
    /\ jobsOpen' = FALSE /\ closer' = "workers"
    /\ UNCHANGED <<creator, jobC, pworker, patches, empty, factory, files>>

\* differs.Wait and close(resC): RunPatchesCreate returns.  With no result at all
\* createUpgradeAuto gives up, else it packs the files.
CloseResults ==
    /\ Live /\ closer = "workers" /\ (\A w \in PWorker : pworker[w].at = "done")
    /\ closer' = "closed" /\ factory' = IF patches = {} THEN "fatal" ELSE "done"
    /\ UNCHANGED <<creator, jobC, jobsOpen, pworker, patches, empty, files>>

FStep ==
    \/ \E a \in Artifact : GetVersions(a) \/ GetBinary(a) \/ SendJob(a)
    \/ \E w \in PWorker : TakeJob(w) \/ CreatePatch(w) \/ SendResult(w)
    \/ CloseJobs \/ CloseResults

FNext == RunPatchesCreate \/ FStep

\* The goroutines run; downloads and patches end, one way or the other.
FFairness == WF_fvars(FStep)

-----------------------------------------------------------------------------
\* The factory ends, however few workers and slots there are for its creators, and a run
\* that ends well has a patch on disk for every old version of every artifact, but for
\* the ones whose binary could not be read.
AllPatched ==
    (factory = "running")
        ~> (factory = "fatal" \/ (factory = "done" /\ files \cup empty = Artifact \X OldVersions))

=============================================================================
