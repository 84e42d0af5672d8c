-------------------------- MODULE TransportService --------------------------
(***************************************************************************)
(* The life of transport services (pkg/service/service.go, misc.go): a     *)
(* connect goroutine creates and starts a service, a goroutine per service *)
(* waits for its quit request and closes the pipes of the child process,   *)
(* Remove is called by later connect goroutines on the service in use, and *)
(* StopAll by exit().  The list ManagedServices has a RWMutex: only        *)
(* stopAll keeps its read lock over several steps, every writer locks,     *)
(* changes the list and unlocks in one step.                               *)
(*                                                                         *)
(* running, quit and removeOnStop are read and written without a lock.  A  *)
(* stale read of running or quit is what an earlier interleaving gives; a  *)
(* stale read of removeOnStop is a choice in ClosePipes.  The child process *)
(* is external: it may die at any time and ends once its stdin is closed.  *)
(***************************************************************************)
EXTENDS Naturals, FiniteSets

CONSTANTS Service,  \* the services that are ever created
          Remover   \* the connect goroutines that remove the service in use

VARIABLES
    listed,         \* Services.items
    spc,            \* connect: "none", "created", "starting", "started", "failed"
    child,          \* the child process: "none", "alive", "exited"
    gpc,            \* the service goroutine
    running,        \* Service.running
    quit,           \* Service.quit: "nil", "open", "closed"
    removeOnStop,   \* Service.removeOnStop
    stopper,        \* whose quit request the service goroutine received
    stdinClosed,    \* Service.stdin has been closed
    rpc, target,    \* each Remove call and its service
    apc, todo,      \* stopAll and the services its loop still has to visit
    stopping,       \* the services stopAll is sending a quit request to: one or none
    panicked        \* a goroutine has panicked: the client is gone

svcVars  == <<listed, spc, child>>
goVars   == <<gpc, running, quit, removeOnStop, stopper, stdinClosed>>
callVars == <<rpc, target>>
allVars  == <<apc, todo, stopping>>
vars     == <<svcVars, goVars, callVars, allVars, panicked>>

\* Every variable keeps its type, and stopAll is at one send at most.
TypeOK ==
    /\ listed \in [Service -> BOOLEAN]
    /\ spc \in [Service -> {"none", "created", "starting", "started", "failed"}]
    /\ child \in [Service -> {"none", "alive", "exited"}]
    /\ gpc \in [Service -> {"none", "spawned", "select", "closing", "remove", "release",
                            "closeQuit", "clear", "gone"}]
    /\ running \in [Service -> BOOLEAN]
    /\ quit \in [Service -> {"nil", "open", "closed"}]
    /\ removeOnStop \in [Service -> BOOLEAN]
    /\ stopper \in [Service -> {"nobody", "Remove", "stopAll"}]
    /\ stdinClosed \in [Service -> BOOLEAN]
    /\ rpc \in [Remover -> {"idle", "stop", "send", "stuck", "delist", "done"}]
    /\ target \in [Remover -> Service]
    /\ apc \in {"idle", "stop", "send", "stuck", "wait", "done"}
    /\ todo \in SUBSET Service /\ stopping \in SUBSET Service
    /\ apc = "send" <=> stopping # {}
    /\ panicked \in BOOLEAN

Init ==
    /\ listed = [s \in Service |-> FALSE]
    /\ spc = [s \in Service |-> "none"]
    /\ child = [s \in Service |-> "none"]
    /\ gpc = [s \in Service |-> "none"]
    /\ running = [s \in Service |-> FALSE]
    /\ quit = [s \in Service |-> "nil"]
    /\ removeOnStop = [s \in Service |-> FALSE]
    /\ stopper = [s \in Service |-> "nobody"]
    /\ stdinClosed = [s \in Service |-> FALSE]
    /\ rpc = [r \in Remover |-> "idle"]
    /\ target \in [Remover -> Service]
    /\ apc = "idle" /\ todo = {} /\ stopping = {}
    /\ panicked = FALSE

\* stopAll holds its read lock: no one can change the list.
Reading == apc \in {"stop", "send", "stuck", "wait"}

-----------------------------------------------------------------------------
(* connect: NewTransportService and Start *)

\* NewService: add the service to ManagedServices.
NewService(s) ==
    /\ spc[s] = "none" /\ ~Reading
    /\ listed' = [listed EXCEPT ![s] = TRUE]
    /\ spc' = [spc EXCEPT ![s] = "created"]
    /\ UNCHANGED <<child, goVars, callVars, allVars, panicked>>

\* Start: a pipe or the process cannot be made, ...
StartFails(s) ==
    /\ spc[s] = "created"
    /\ spc' = [spc EXCEPT ![s] = "failed"]
    /\ UNCHANGED <<listed, child, goVars, callVars, allVars, panicked>>

\* ... or the process runs and its first lines are awaited.
StartProcess(s) ==
    /\ spc[s] = "created"
    /\ spc' = [spc EXCEPT ![s] = "starting"]
    /\ child' = [child EXCEPT ![s] = "alive"]
    /\ UNCHANGED <<listed, goVars, callVars, allVars, panicked>>

\* An ERROR line or an unknown one ends Start; nothing is done about the process.
InitFails(s) ==
    /\ spc[s] = "starting"
    /\ spc' = [spc EXCEPT ![s] = "failed"]
    /\ UNCHANGED <<listed, child, goVars, callVars, allVars, panicked>>

\* DONE, or the end of the output of a process that died: initDone.
InitDone(s) ==
    /\ spc[s] = "starting"
    /\ spc' = [spc EXCEPT ![s] = "started"]
    /\ running' = [running EXCEPT ![s] = TRUE]
    /\ gpc' = [gpc EXCEPT ![s] = "spawned"]
    /\ UNCHANGED <<listed, child, quit, removeOnStop, stopper, stdinClosed, callVars, allVars,
                   panicked>>

\* The child dies, or ends because its stdin was closed.
ChildExits(s) ==
    /\ child[s] = "alive"
    /\ child' = [child EXCEPT ![s] = "exited"]
    /\ UNCHANGED <<listed, spc, goVars, callVars, allVars, panicked>>

-----------------------------------------------------------------------------
(* The goroutine of a service *)

MakeQuit(s) ==
    /\ gpc[s] = "spawned"
    /\ quit' = [quit EXCEPT ![s] = "open"]
    /\ gpc' = [gpc EXCEPT ![s] = "select"]
    /\ UNCHANGED <<running, removeOnStop, stopper, stdinClosed, svcVars, callVars, allVars,
                   panicked>>

\* case <-s.quit: a rendezvous with a Remove call ...
QuitByRemove(s, r) ==
    /\ gpc[s] = "select" /\ rpc[r] = "send" /\ target[r] = s
    /\ gpc' = [gpc EXCEPT ![s] = "closing"]
    /\ stopper' = [stopper EXCEPT ![s] = "Remove"]
    /\ rpc' = [rpc EXCEPT ![r] = "done"]
    /\ UNCHANGED <<running, quit, removeOnStop, stdinClosed, svcVars, target, allVars, panicked>>

\* ... or with stopAll.
QuitByStopAll(s) ==
    /\ gpc[s] = "select" /\ apc = "send" /\ s \in stopping
    /\ gpc' = [gpc EXCEPT ![s] = "closing"]
    /\ stopper' = [stopper EXCEPT ![s] = "stopAll"]
    /\ apc' = "stop" /\ stopping' = {}
    /\ UNCHANGED <<running, quit, removeOnStop, stdinClosed, svcVars, callVars, todo, panicked>>

\* Fault variant of ClosePipes: removeOnStop is not looked at.
ClosePipesOnly(s) ==
    /\ gpc[s] = "closing"
    /\ stdinClosed' = [stdinClosed EXCEPT ![s] = TRUE]
    /\ gpc' = [gpc EXCEPT ![s] = "release"]
    /\ UNCHANGED <<running, quit, removeOnStop, stopper, svcVars, callVars, allVars, panicked>>

\* Fault variant of ClosePipes: the goroutine also ends when the child has died.
ClosePipesOnExit(s) ==
    /\ gpc[s] = "closing" \/ (gpc[s] = "select" /\ child[s] = "exited")
    /\ stdinClosed' = [stdinClosed EXCEPT ![s] = TRUE]
    /\ gpc' = [gpc EXCEPT ![s] = IF removeOnStop[s] THEN "remove" ELSE "release"]
    /\ UNCHANGED <<running, quit, removeOnStop, stopper, svcVars, callVars, allVars, panicked>>

\* Close the pipes and look at removeOnStop.  A Remove call that lost the race
\* for the quit request may have set it unseen.
ClosePipes(s) ==
    /\ gpc[s] = "closing"
    /\ stdinClosed' = [stdinClosed EXCEPT ![s] = TRUE]
    /\ \/ removeOnStop[s] /\ gpc' = [gpc EXCEPT ![s] = "remove"]
       \/ /\ ~removeOnStop[s] \/ stopper[s] = "stopAll"
          /\ gpc' = [gpc EXCEPT ![s] = "release"]
    /\ UNCHANGED <<running, quit, removeOnStop, stopper, svcVars, callVars, allVars, panicked>>

\* ManagedServices.remove(s)
RemoveFromList(s) ==
    /\ gpc[s] = "remove" /\ ~Reading
    /\ listed' = [listed EXCEPT ![s] = FALSE]
    /\ gpc' = [gpc EXCEPT ![s] = "release"]
    /\ UNCHANGED <<spc, child, running, quit, removeOnStop, stopper, stdinClosed, callVars,
                   allVars, panicked>>

\* waiter.Done
Release(s) ==
    /\ gpc[s] = "release"
    /\ gpc' = [gpc EXCEPT ![s] = "closeQuit"]
    /\ UNCHANGED <<running, quit, removeOnStop, stopper, stdinClosed, svcVars, callVars, allVars,
                   panicked>>

\* Those who are blocked in s.quit <- true.
Senders(s) == {r \in Remover : rpc[r] = "send" /\ target[r] = s} \cup (stopping \cap {s})

\* The deferred calls run last in, first out: close(s.quit), which panics in
\* every goroutine that is blocked sending, and then running = false.
CloseQuit(s) ==
    /\ gpc[s] = "closeQuit"
    /\ quit' = [quit EXCEPT ![s] = "closed"]
    /\ gpc' = [gpc EXCEPT ![s] = "clear"]
    /\ panicked' = (Senders(s) # {})
    /\ UNCHANGED <<running, removeOnStop, stopper, stdinClosed, svcVars, callVars, allVars>>

ClearRunning(s) ==
    /\ gpc[s] = "clear"
    /\ running' = [running EXCEPT ![s] = FALSE]
    /\ gpc' = [gpc EXCEPT ![s] = "gone"]
    /\ UNCHANGED <<quit, removeOnStop, stopper, stdinClosed, svcVars, callVars, allVars, panicked>>

-----------------------------------------------------------------------------
(* Remove, called on the service in use, which has been started *)

\* Fault variant of RemoveBranch: a running service is taken off the list directly.
DelistRunning(s) == "delist"

\* Stop a running service, or just take it off the list.
RemoveBranch(s) == IF running[s] THEN "stop" ELSE "delist"

Remove(r) ==
    LET s == target[r] IN
    /\ rpc[r] = "idle" /\ spc[s] = "started"
    /\ rpc' = [rpc EXCEPT ![r] = RemoveBranch(s)]
    /\ removeOnStop' = [removeOnStop EXCEPT ![s] = @ \/ running[s]]
    /\ UNCHANGED <<gpc, running, quit, stopper, stdinClosed, svcVars, target, allVars, panicked>>

\* What s.quit <- true does to its caller at p: a nil channel blocks for ever.
AfterStop(s, p) ==
    CASE ~running[s] -> p
      [] running[s] /\ quit[s] = "nil" -> "stuck"
      [] running[s] /\ quit[s] # "nil" -> "send"

\* Stop looks at running again; sending on a closed channel panics.
RemoveStop(r) ==
    LET s == target[r] IN
    /\ rpc[r] = "stop"
    /\ rpc' = [rpc EXCEPT ![r] = AfterStop(s, "done")]
    /\ panicked' = (running[s] /\ quit[s] = "closed")
    /\ UNCHANGED <<goVars, svcVars, target, allVars>>

RemoveDelist(r) ==
    /\ rpc[r] = "delist" /\ ~Reading
    /\ rpc' = [rpc EXCEPT ![r] = "done"]
    /\ listed' = [listed EXCEPT ![target[r]] = FALSE]
    /\ UNCHANGED <<spc, child, goVars, target, allVars, panicked>>

-----------------------------------------------------------------------------
(* stopAll *)

Listed == {s \in Service : listed[s]}

StopAll ==
    /\ apc = "idle"
    /\ apc' = "stop" /\ todo' = Listed
    /\ UNCHANGED <<stopping, svcVars, goVars, callVars, panicked>>

\* Fault variant of StopOne: the loop does not wait for Stop to return.
StopOneAsync(s) ==
    /\ apc = "stop" /\ s \in todo
    /\ todo' = todo \ {s}
    /\ stopping' = IF AfterStop(s, "stop") = "send" THEN stopping \cup {s} ELSE stopping
    /\ panicked' = (running[s] /\ quit[s] = "closed")
    /\ UNCHANGED <<apc, svcVars, goVars, callVars>>

\* The first loop: Stop every service.
StopOne(s) ==
    /\ apc = "stop" /\ s \in todo
    /\ todo' = todo \ {s}
    /\ apc' = AfterStop(s, "stop")
    /\ stopping' = IF apc' = "send" THEN {s} ELSE {}
    /\ panicked' = (running[s] /\ quit[s] = "closed")
    /\ UNCHANGED <<svcVars, goVars, callVars>>

StopLoopDone ==
    /\ apc = "stop" /\ todo = {}
    /\ apc' = "wait" /\ todo' = Listed
    /\ UNCHANGED <<stopping, svcVars, goVars, callVars, panicked>>

\* The second loop, wait: the process is gone and waiter.Done was called, where
\* there is a process or a goroutine to wait for.
WaitOne(s) ==
    /\ apc = "wait" /\ s \in todo
    /\ child[s] # "alive"
    /\ gpc[s] \in {"none", "closeQuit", "clear", "gone"}
    /\ todo' = todo \ {s}
    /\ UNCHANGED <<apc, stopping, svcVars, goVars, callVars, panicked>>

StopAllReturns ==
    /\ apc = "wait" /\ todo = {}
    /\ apc' = "done"
    /\ UNCHANGED <<todo, stopping, svcVars, goVars, callVars, panicked>>

-----------------------------------------------------------------------------

GoroutineStep(s) ==
    \/ MakeQuit(s) \/ ClosePipes(s) \/ RemoveFromList(s)
    \/ Release(s) \/ CloseQuit(s) \/ ClearRunning(s)

ConnectStep(s) ==
    \/ NewService(s) \/ StartFails(s) \/ StartProcess(s) \/ InitFails(s) \/ InitDone(s)

StopAllStep ==
    \/ StopLoopDone \/ StopAllReturns
    \/ \E s \in Service : StopOne(s) \/ WaitOne(s) \/ QuitByStopAll(s)

RemoveStep(r) ==
    \/ RemoveStop(r) \/ RemoveDelist(r)
    \/ \E s \in Service : QuitByRemove(s, r)

Next ==
    /\ ~panicked
    /\ \/ StopAll \/ StopAllStep
       \/ \E s \in Service : GoroutineStep(s) \/ ConnectStep(s) \/ ChildExits(s)
       \/ \E r \in Remover : Remove(r) \/ RemoveStep(r)

Spec == Init /\ [][Next]_vars

\* Every goroutine that can go on does, and a child process ends after its stdin
\* was closed (server.go, Wait).  Nothing is assumed of the handshake, of a
\* child nobody told to end, or of whether Remove and StopAll are called.
Fairness ==
    /\ \A s \in Service : /\ WF_vars(~panicked /\ GoroutineStep(s))
                          /\ WF_vars(~panicked /\ stdinClosed[s] /\ ChildExits(s))
    /\ \A r \in Remover : WF_vars(~panicked /\ RemoveStep(r))
    /\ WF_vars(~panicked /\ StopAllStep)

FairSpec == Spec /\ Fairness

-----------------------------------------------------------------------------
(* Properties *)

\* A service leaves the list only after its process was told to end, so that
\* StopAll overlooks no process that was started successfully.
DelistedWasStopped ==
    \A s \in Service : spc[s] = "started" /\ ~listed[s] => stdinClosed[s]

\* Someone else stops the service that r removes.
Rival(r) ==
    \/ apc # "idle"
    \/ \E q \in Remover \ {r} : target[q] = target[r] /\ rpc[q] # "idle"

\* The unsynchronised Stop is safe as long as a service has one stopper: the
\* client panics on a closed quit channel only where two of them met.
PanicNeedsRivals == panicked => \E r \in Remover : rpc[r] # "idle" /\ Rival(r)

\* A Remove call without rivals that found the quit channel made ends, the
\* service is taken off the list and its process ends.
RemoveTakesEffect ==
    \A r \in Remover :
        rpc[r] = "send" ~> \/ /\ rpc[r] = "done" /\ ~listed[target[r]]
                              /\ child[target[r]] = "exited"
                           \/ Rival(r)

\* "StopAll stops all services, blocks until everything is shut down": it does
\* not go on blocking when every process has ended and none is being started.
StopAllEnds ==
    Reading /\ (\A s \in Service : child[s] # "alive" /\ spc[s] # "created")
        ~> apc = "done" \/ panicked \/ \E s \in Service : child[s] = "alive"
=============================================================================
