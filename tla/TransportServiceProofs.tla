----------------------- MODULE TransportServiceProofs -----------------------
(***************************************************************************)
(* Proofs about TransportService, for any set of services and of Remove    *)
(* calls.  Neither property is inductive: IInv adds what the goroutine of  *)
(* a service has done at each control point (Stage), that Remove takes a   *)
(* service off the list by itself only after its goroutine has ended       *)
(* (Calls), and whose quit request that goroutine received (Stoppers).     *)
(***************************************************************************)
EXTENDS TransportService, TLAPS

\* Control points after the quit request was received and the pipes were closed.
ClosedPc == {"remove", "release", "closeQuit", "clear", "gone"}

\* What the goroutine of a service has done so far.
Stage ==
    \A s \in Service :
        /\ gpc[s] = "none" <=> spc[s] # "started"
        /\ spc[s] \in {"created", "starting"} => listed[s]
        /\ gpc[s] \in ClosedPc => stdinClosed[s]
        /\ gpc[s] \notin {"none", "gone"} => running[s]
        /\ quit[s] = "closed" => gpc[s] \in ClosedPc

\* Remove takes a service off the list itself only when its goroutine has ended.
Calls == \A r \in Remover : rpc[r] = "delist" => gpc[target[r]] = "gone"

\* Whoever stopped a service is recorded, and stopAll stops a service once.
Stoppers ==
    \A s \in Service :
        /\ gpc[s] \in ClosedPc \cup {"closing"} => stopper[s] # "nobody"
        /\ stopper[s] = "Remove" => \E r \in Remover : rpc[r] = "done" /\ target[r] = s
        /\ stopper[s] = "stopAll" =>
              /\ apc # "idle"
              /\ apc \in {"stop", "send", "stuck"} => s \notin todo /\ s \notin stopping
        /\ s \in stopping => s \notin todo

\* The inductive invariant.
IInv == TypeOK /\ Stage /\ Calls /\ Stoppers /\ DelistedWasStopped /\ PanicNeedsRivals

\* The invariant holds before anything was started.
LEMMA InvInit == Init => IInv
  <1> SUFFICES ASSUME Init PROVE IInv
    OBVIOUS
  <1>1. TypeOK
    BY DEF Init, TypeOK
  <1>2. Stage /\ Calls /\ Stoppers /\ DelistedWasStopped
    BY DEF Init, Stage, Calls, Stoppers, DelistedWasStopped, ClosedPc
  <1>3. PanicNeedsRivals
    BY DEF Init, PanicNeedsRivals
  <1>4. QED
    BY <1>1, <1>2, <1>3 DEF IInv

\* Every step keeps the types.
LEMMA TypeNext == TypeOK /\ [Next]_vars => TypeOK'
  <1> SUFFICES ASSUME TypeOK, [Next]_vars PROVE TypeOK'
    OBVIOUS
  <1> USE DEF TypeOK, svcVars, goVars, callVars, allVars
  <1>1. ASSUME NEW s \in Service, GoroutineStep(s) PROVE TypeOK'
    <2>1. CASE MakeQuit(s)
      BY <2>1 DEF MakeQuit
    <2>2. CASE ClosePipes(s)
      BY <2>2 DEF ClosePipes
    <2>3. CASE RemoveFromList(s)
      BY <2>3 DEF RemoveFromList
    <2>4. CASE Release(s)
      BY <2>4 DEF Release
    <2>5. CASE CloseQuit(s)
      BY <2>5 DEF CloseQuit
    <2>6. CASE ClearRunning(s)
      BY <2>6 DEF ClearRunning
    <2>7. QED
      BY <1>1, <2>1, <2>2, <2>3, <2>4, <2>5, <2>6 DEF GoroutineStep
  <1>2. ASSUME NEW s \in Service, ConnectStep(s) PROVE TypeOK'
    <2>1. CASE NewService(s)
      BY <2>1 DEF NewService
    <2>2. CASE StartFails(s)
      BY <2>2 DEF StartFails
    <2>3. CASE StartProcess(s)
      BY <2>3 DEF StartProcess
    <2>4. CASE InitFails(s)
      BY <2>4 DEF InitFails
    <2>5. CASE InitDone(s)
      BY <2>5 DEF InitDone
    <2>6. QED
      BY <1>2, <2>1, <2>2, <2>3, <2>4, <2>5 DEF ConnectStep
  <1>3. ASSUME NEW s \in Service, ChildExits(s) PROVE TypeOK'
    BY <1>3 DEF ChildExits
  <1>4. ASSUME NEW r \in Remover, Remove(r) PROVE TypeOK'
    <2>1. target[r] \in Service /\ RemoveBranch(target[r]) \in {"stop", "delist"}
      BY DEF RemoveBranch
    <2>2. (removeOnStop[target[r]] \/ running[target[r]]) \in BOOLEAN
      OBVIOUS
    <2>3. rpc' \in [Remover -> {"idle", "stop", "send", "stuck", "delist", "done"}]
      BY <1>4, <2>1 DEF Remove
    <2>4. removeOnStop' \in [Service -> BOOLEAN]
      BY <1>4, <2>1, <2>2 DEF Remove
    <2>5. QED
      BY <1>4, <2>3, <2>4 DEF Remove
  <1>5. ASSUME NEW r \in Remover, RemoveStep(r) PROVE TypeOK'
    <2>1. CASE RemoveStop(r)
      <3>1. AfterStop(target[r], "done") \in {"done", "stuck", "send"}
        BY DEF AfterStop
      <3>2. QED
        BY <2>1, <3>1 DEF RemoveStop
    <2>2. CASE RemoveDelist(r)
      BY <2>2 DEF RemoveDelist
    <2>3. ASSUME NEW s \in Service, QuitByRemove(s, r) PROVE TypeOK'
      BY <2>3 DEF QuitByRemove
    <2>4. QED
      BY <1>5, <2>1, <2>2, <2>3 DEF RemoveStep
  <1>6. CASE StopAll
    BY <1>6 DEF StopAll, Listed
  <1>7. CASE StopAllStep
    <2>1. CASE StopLoopDone \/ StopAllReturns
      BY <2>1 DEF StopLoopDone, StopAllReturns, Listed
    <2>2. ASSUME NEW s \in Service, StopOne(s) PROVE TypeOK'
      BY <2>2 DEF StopOne, AfterStop
    <2>3. ASSUME NEW s \in Service, WaitOne(s) \/ QuitByStopAll(s) PROVE TypeOK'
      BY <2>3 DEF WaitOne, QuitByStopAll
    <2>4. QED
      BY <1>7, <2>1, <2>2, <2>3 DEF StopAllStep
  <1>8. CASE UNCHANGED vars
    BY <1>8 DEF vars
  <1>9. QED
    BY <1>1, <1>2, <1>3, <1>4, <1>5, <1>6, <1>7, <1>8 DEF Next

\* The parts of the invariant whose variables a step leaves alone.
LEMMA InvFrame ==
    /\ Stage /\ UNCHANGED <<gpc, spc, listed, stdinClosed, running, quit>> => Stage'
    /\ Calls /\ UNCHANGED <<rpc, gpc, target>> => Calls'
    /\ Stoppers /\ UNCHANGED <<gpc, stopper, rpc, target, apc, todo, stopping>> => Stoppers'
    /\ DelistedWasStopped /\ UNCHANGED <<spc, listed, stdinClosed>> => DelistedWasStopped'
  <1>1. Stage /\ UNCHANGED <<gpc, spc, listed, stdinClosed, running, quit>> => Stage'
    BY DEF Stage
  <1>2. Calls /\ UNCHANGED <<rpc, gpc, target>> => Calls'
    BY DEF Calls
  <1>3. Stoppers /\ UNCHANGED <<gpc, stopper, rpc, target, apc, todo, stopping>> => Stoppers'
    BY DEF Stoppers
  <1>4. DelistedWasStopped /\ UNCHANGED <<spc, listed, stdinClosed>> => DelistedWasStopped'
    BY DEF DelistedWasStopped
  <1>5. QED
    BY <1>1, <1>2, <1>3, <1>4

\* Every step keeps the invariant: one step of the proof per action.
LEMMA InvNext == IInv /\ [Next]_vars => IInv'
  <1> SUFFICES ASSUME IInv, [Next]_vars PROVE IInv'
    OBVIOUS
  <1>1. TypeOK /\ TypeOK'
    BY TypeNext DEF IInv
  <1>2. CASE UNCHANGED vars
    <2>1. UNCHANGED <<panicked, rpc, target, apc>> => PanicNeedsRivals'
      BY DEF IInv, PanicNeedsRivals, Rival
    <2>2. QED
      BY <1>1, <1>2, <2>1, InvFrame DEF IInv, vars, svcVars, goVars, callVars, allVars
  <1>3. SUFFICES ASSUME ~panicked PROVE IInv'
    BY <1>2 DEF Next
  <1>4. UNCHANGED panicked => PanicNeedsRivals'
    BY <1>3 DEF PanicNeedsRivals
  <1>5. ASSUME NEW s \in Service, MakeQuit(s) PROVE IInv'
    <2>1. UNCHANGED <<listed, spc, child, running, removeOnStop, stopper, stdinClosed, rpc,
      target, apc, todo, stopping, panicked>>
      BY <1>5 DEF MakeQuit, svcVars, goVars, callVars, allVars
    <2>2. Stage'
      BY <1>1, <1>5, <2>1 DEF IInv, Stage, ClosedPc, MakeQuit, TypeOK
    <2>3. Calls'
      BY <1>1, <1>5, <2>1 DEF IInv, Calls, MakeQuit, TypeOK
    <2>4. Stoppers'
      BY <1>1, <1>5, <2>1 DEF IInv, Stoppers, ClosedPc, MakeQuit, TypeOK
    <2>5. QED
      BY <1>1, <1>4, <2>1, <2>2, <2>3, <2>4, InvFrame DEF IInv
  <1>6. ASSUME NEW s \in Service, ClosePipes(s) PROVE IInv'
    <2>1. UNCHANGED <<listed, spc, child, running, quit, removeOnStop, stopper, rpc, target,
      apc, todo, stopping, panicked>>
      BY <1>6 DEF ClosePipes, svcVars, goVars, callVars, allVars
    <2>2. Stage'
      BY <1>1, <1>6, <2>1 DEF IInv, Stage, ClosedPc, ClosePipes, TypeOK
    <2>3. Calls'
      BY <1>1, <1>6, <2>1 DEF IInv, Calls, ClosePipes, TypeOK
    <2>4. Stoppers'
      BY <1>1, <1>6, <2>1 DEF IInv, Stoppers, ClosedPc, ClosePipes, TypeOK
    <2>5. DelistedWasStopped'
      BY <1>1, <1>6, <2>1 DEF IInv, DelistedWasStopped, ClosePipes, TypeOK
    <2>6. QED
      BY <1>1, <1>4, <2>1, <2>2, <2>3, <2>4, <2>5, InvFrame DEF IInv
  <1>7. ASSUME NEW s \in Service, RemoveFromList(s) PROVE IInv'
    <2>1. UNCHANGED <<spc, child, running, quit, removeOnStop, stopper, stdinClosed, rpc,
      target, apc, todo, stopping, panicked>>
      BY <1>7 DEF RemoveFromList, svcVars, goVars, callVars, allVars
    <2>2. Stage'
      BY <1>1, <1>7, <2>1 DEF IInv, Stage, ClosedPc, RemoveFromList, TypeOK
    <2>3. Calls'
      BY <1>1, <1>7, <2>1 DEF IInv, Calls, RemoveFromList, TypeOK
    <2>4. Stoppers'
      BY <1>1, <1>7, <2>1 DEF IInv, Stoppers, ClosedPc, RemoveFromList, TypeOK
    <2>5. DelistedWasStopped'
      BY <1>1, <1>7, <2>1 DEF IInv, DelistedWasStopped, RemoveFromList, Stage, ClosedPc,
        TypeOK
    <2>6. QED
      BY <1>1, <1>4, <2>1, <2>2, <2>3, <2>4, <2>5, InvFrame DEF IInv
  <1>8. ASSUME NEW s \in Service, Release(s) PROVE IInv'
    <2>1. UNCHANGED <<listed, spc, child, running, quit, removeOnStop, stopper, stdinClosed,
      rpc, target, apc, todo, stopping, panicked>>
      BY <1>8 DEF Release, svcVars, goVars, callVars, allVars
    <2>2. Stage'
      BY <1>1, <1>8, <2>1 DEF IInv, Stage, ClosedPc, Release, TypeOK
    <2>3. Calls'
      BY <1>1, <1>8, <2>1 DEF IInv, Calls, Release, TypeOK
    <2>4. Stoppers'
      BY <1>1, <1>8, <2>1 DEF IInv, Stoppers, ClosedPc, Release, TypeOK
    <2>5. QED
      BY <1>1, <1>4, <2>1, <2>2, <2>3, <2>4, InvFrame DEF IInv
  <1>9. ASSUME NEW s \in Service, CloseQuit(s) PROVE IInv'
    <2>1. UNCHANGED <<listed, spc, child, running, removeOnStop, stopper, stdinClosed, rpc,
      target, apc, todo, stopping>>
      BY <1>9 DEF CloseQuit, svcVars, goVars, callVars, allVars
    <2>2. Stage'
      BY <1>1, <1>9, <2>1 DEF IInv, Stage, ClosedPc, CloseQuit, TypeOK
    <2>3. Calls'
      BY <1>1, <1>9, <2>1 DEF IInv, Calls, CloseQuit, TypeOK
    <2>4. Stoppers'
      BY <1>1, <1>9, <2>1 DEF IInv, Stoppers, ClosedPc, CloseQuit, TypeOK
    <2>5. PanicNeedsRivals'
      <3>1. SUFFICES ASSUME Senders(s) # {}
                     PROVE  \E r \in Remover : rpc[r] # "idle" /\ Rival(r)
        BY <1>9, <2>1 DEF CloseQuit, PanicNeedsRivals, Rival
      <3>2. stopper[s] \in {"Remove", "stopAll"}
        BY <1>1, <1>9 DEF IInv, Stoppers, CloseQuit, ClosedPc, TypeOK
      <3>3. ASSUME NEW r \in Remover, rpc[r] = "send", target[r] = s PROVE Rival(r)
        BY <3>2, <3>3 DEF IInv, Stoppers, Rival
      <3>4. ASSUME s \in stopping PROVE \E r \in Remover : rpc[r] # "idle" /\ Rival(r)
        <4>1. apc = "send" /\ stopper[s] = "Remove"
          BY <1>1, <3>2, <3>4 DEF IInv, Stoppers, TypeOK
        <4>2. QED
          BY <4>1 DEF IInv, Stoppers, Rival
      <3>5. QED
        BY <3>1, <3>3, <3>4 DEF Senders
    <2>6. QED
      BY <1>1, <1>4, <2>1, <2>2, <2>3, <2>4, <2>5, InvFrame DEF IInv
  <1>10. ASSUME NEW s \in Service, ClearRunning(s) PROVE IInv'
    <2>1. UNCHANGED <<listed, spc, child, quit, removeOnStop, stopper, stdinClosed, rpc,
      target, apc, todo, stopping, panicked>>
      BY <1>10 DEF ClearRunning, svcVars, goVars, callVars, allVars
    <2>2. Stage'
      BY <1>1, <1>10, <2>1 DEF IInv, Stage, ClosedPc, ClearRunning, TypeOK
    <2>3. Calls'
      BY <1>1, <1>10, <2>1 DEF IInv, Calls, ClearRunning, TypeOK
    <2>4. Stoppers'
      BY <1>1, <1>10, <2>1 DEF IInv, Stoppers, ClosedPc, ClearRunning, TypeOK
    <2>5. QED
      BY <1>1, <1>4, <2>1, <2>2, <2>3, <2>4, InvFrame DEF IInv
  <1>11. ASSUME NEW s \in Service, NewService(s) PROVE IInv'
    <2>1. UNCHANGED <<child, gpc, running, quit, removeOnStop, stopper, stdinClosed, rpc,
      target, apc, todo, stopping, panicked>>
      BY <1>11 DEF NewService, svcVars, goVars, callVars, allVars
    <2>2. Stage'
      BY <1>1, <1>11, <2>1 DEF IInv, Stage, ClosedPc, NewService, TypeOK
    <2>3. DelistedWasStopped'
      BY <1>1, <1>11, <2>1 DEF IInv, DelistedWasStopped, NewService, TypeOK
    <2>4. QED
      BY <1>1, <1>4, <2>1, <2>2, <2>3, InvFrame DEF IInv
  <1>12. ASSUME NEW s \in Service, StartFails(s) PROVE IInv'
    <2>1. UNCHANGED <<listed, child, gpc, running, quit, removeOnStop, stopper, stdinClosed,
      rpc, target, apc, todo, stopping, panicked>>
      BY <1>12 DEF StartFails, svcVars, goVars, callVars, allVars
    <2>2. Stage'
      BY <1>1, <1>12, <2>1 DEF IInv, Stage, ClosedPc, StartFails, TypeOK
    <2>3. DelistedWasStopped'
      BY <1>1, <1>12, <2>1 DEF IInv, DelistedWasStopped, StartFails, TypeOK
    <2>4. QED
      BY <1>1, <1>4, <2>1, <2>2, <2>3, InvFrame DEF IInv
  <1>13. ASSUME NEW s \in Service, StartProcess(s) PROVE IInv'
    <2>1. UNCHANGED <<listed, gpc, running, quit, removeOnStop, stopper, stdinClosed, rpc,
      target, apc, todo, stopping, panicked>>
      BY <1>13 DEF StartProcess, svcVars, goVars, callVars, allVars
    <2>2. Stage'
      BY <1>1, <1>13, <2>1 DEF IInv, Stage, ClosedPc, StartProcess, TypeOK
    <2>3. DelistedWasStopped'
      BY <1>1, <1>13, <2>1 DEF IInv, DelistedWasStopped, StartProcess, TypeOK
    <2>4. QED
      BY <1>1, <1>4, <2>1, <2>2, <2>3, InvFrame DEF IInv
  <1>14. ASSUME NEW s \in Service, InitFails(s) PROVE IInv'
    <2>1. UNCHANGED <<listed, child, gpc, running, quit, removeOnStop, stopper, stdinClosed,
      rpc, target, apc, todo, stopping, panicked>>
      BY <1>14 DEF InitFails, svcVars, goVars, callVars, allVars
    <2>2. Stage'
      BY <1>1, <1>14, <2>1 DEF IInv, Stage, ClosedPc, InitFails, TypeOK
    <2>3. DelistedWasStopped'
      BY <1>1, <1>14, <2>1 DEF IInv, DelistedWasStopped, InitFails, TypeOK
    <2>4. QED
      BY <1>1, <1>4, <2>1, <2>2, <2>3, InvFrame DEF IInv
  <1>15. ASSUME NEW s \in Service, InitDone(s) PROVE IInv'
    <2>1. UNCHANGED <<listed, child, quit, removeOnStop, stopper, stdinClosed, rpc, target,
      apc, todo, stopping, panicked>>
      BY <1>15 DEF InitDone, svcVars, goVars, callVars, allVars
    <2>2. Stage'
      BY <1>1, <1>15, <2>1 DEF IInv, Stage, ClosedPc, InitDone, TypeOK
    <2>3. Calls'
      BY <1>1, <1>15, <2>1 DEF IInv, Calls, InitDone, Stage, TypeOK
    <2>4. Stoppers'
      BY <1>1, <1>15, <2>1 DEF IInv, Stoppers, ClosedPc, InitDone, TypeOK
    <2>5. DelistedWasStopped'
      BY <1>1, <1>15, <2>1 DEF IInv, DelistedWasStopped, InitDone, Stage, TypeOK
    <2>6. QED
      BY <1>1, <1>4, <2>1, <2>2, <2>3, <2>4, <2>5, InvFrame DEF IInv
  <1>16. ASSUME NEW s \in Service, ChildExits(s) PROVE IInv'
    <2>1. UNCHANGED <<listed, spc, gpc, running, quit, removeOnStop, stopper, stdinClosed,
      rpc, target, apc, todo, stopping, panicked>>
      BY <1>16 DEF ChildExits, svcVars, goVars, callVars, allVars
    <2>2. QED
      BY <1>1, <1>4, <2>1, InvFrame DEF IInv
  <1>17. ASSUME NEW r \in Remover, Remove(r) PROVE IInv'
    <2>1. UNCHANGED <<listed, spc, child, gpc, running, quit, stopper, stdinClosed, target,
      apc, todo, stopping, panicked>>
      BY <1>17 DEF Remove, svcVars, goVars, callVars, allVars
    <2>2. Calls'
      BY <1>1, <1>17, <2>1 DEF IInv, Calls, Remove, RemoveBranch, Stage, TypeOK
    <2>3. Stoppers'
      BY <1>1, <1>17, <2>1 DEF IInv, Stoppers, ClosedPc, Remove, RemoveBranch, TypeOK
    <2>4. QED
      BY <1>1, <1>4, <2>1, <2>2, <2>3, InvFrame DEF IInv
  <1>18. ASSUME NEW r \in Remover, RemoveStop(r) PROVE IInv'
    <2>1. UNCHANGED <<listed, spc, child, gpc, running, quit, removeOnStop, stopper,
      stdinClosed, target, apc, todo, stopping>>
      BY <1>18 DEF RemoveStop, svcVars, goVars, callVars, allVars
    <2>2. Calls'
      BY <1>1, <1>18, <2>1 DEF IInv, Calls, RemoveStop, AfterStop, TypeOK
    <2>3. Stoppers'
      BY <1>1, <1>18, <2>1 DEF IInv, Stoppers, ClosedPc, RemoveStop, AfterStop, TypeOK
    <2>4. PanicNeedsRivals'
      <3>1. target[r] \in Service /\ rpc[r] = "stop" /\ rpc'[r] # "idle"
        BY <1>1, <1>18 DEF RemoveStop, AfterStop, TypeOK
      <3>2. CASE quit[target[r]] = "closed"
        <4>1. stopper[target[r]] \in {"Remove", "stopAll"}
          BY <1>1, <3>1, <3>2 DEF IInv, Stage, Stoppers, TypeOK
        <4>2. apc # "idle" \/ \E q \in Remover : rpc[q] = "done" /\ target[q] = target[r]
          BY <3>1, <4>1 DEF IInv, Stoppers
        <4>3. \A q \in Remover : rpc[q] = "done" => q # r /\ rpc'[q] = "done"
          BY <1>1, <1>18, <3>1 DEF RemoveStop, TypeOK
        <4>4. Rival(r)'
          BY <2>1, <4>2, <4>3 DEF Rival
        <4>5. QED
          BY <3>1, <4>4 DEF PanicNeedsRivals
      <3>3. CASE quit[target[r]] # "closed"
        BY <1>18, <3>3 DEF RemoveStop, PanicNeedsRivals
      <3>4. QED
        BY <3>2, <3>3
    <2>5. QED
      BY <1>1, <1>4, <2>1, <2>2, <2>3, <2>4, InvFrame DEF IInv
  <1>19. ASSUME NEW r \in Remover, RemoveDelist(r) PROVE IInv'
    <2>1. UNCHANGED <<spc, child, gpc, running, quit, removeOnStop, stopper, stdinClosed,
      target, apc, todo, stopping, panicked>>
      BY <1>19 DEF RemoveDelist, svcVars, goVars, callVars, allVars
    <2>2. Stage'
      BY <1>1, <1>19, <2>1 DEF IInv, Stage, ClosedPc, RemoveDelist, Calls, TypeOK
    <2>3. Calls'
      BY <1>1, <1>19, <2>1 DEF IInv, Calls, RemoveDelist, TypeOK
    <2>4. Stoppers'
      BY <1>1, <1>19, <2>1 DEF IInv, Stoppers, ClosedPc, RemoveDelist, TypeOK
    <2>5. DelistedWasStopped'
      BY <1>1, <1>19, <2>1 DEF IInv, DelistedWasStopped, RemoveDelist, Calls, Stage, ClosedPc,
        TypeOK
    <2>6. QED
      BY <1>1, <1>4, <2>1, <2>2, <2>3, <2>4, <2>5, InvFrame DEF IInv
  <1>20. ASSUME NEW s \in Service, NEW r \in Remover, QuitByRemove(s, r) PROVE IInv'
    <2>1. UNCHANGED <<listed, spc, child, running, quit, removeOnStop, stdinClosed, target,
      apc, todo, stopping, panicked>>
      BY <1>20 DEF QuitByRemove, svcVars, goVars, callVars, allVars
    <2>2. Stage'
      BY <1>1, <1>20, <2>1 DEF IInv, Stage, ClosedPc, QuitByRemove, TypeOK
    <2>3. Calls'
      BY <1>1, <1>20, <2>1 DEF IInv, Calls, QuitByRemove, TypeOK
    <2>4. Stoppers'
      BY <1>1, <1>20, <2>1 DEF IInv, Stoppers, ClosedPc, QuitByRemove, TypeOK
    <2>5. QED
      BY <1>1, <1>4, <2>1, <2>2, <2>3, <2>4, InvFrame DEF IInv
  <1>21. ASSUME NEW s \in Service, QuitByStopAll(s) PROVE IInv'
    <2>1. UNCHANGED <<listed, spc, child, running, quit, removeOnStop, stdinClosed, rpc,
      target, todo, panicked>>
      BY <1>21 DEF QuitByStopAll, svcVars, goVars, callVars, allVars
    <2>2. Stage'
      BY <1>1, <1>21, <2>1 DEF IInv, Stage, ClosedPc, QuitByStopAll, TypeOK
    <2>3. Calls'
      BY <1>1, <1>21, <2>1 DEF IInv, Calls, QuitByStopAll, TypeOK
    <2>4. Stoppers'
      BY <1>1, <1>21, <2>1 DEF IInv, Stoppers, ClosedPc, QuitByStopAll, TypeOK
    <2>5. QED
      BY <1>1, <1>4, <2>1, <2>2, <2>3, <2>4, InvFrame DEF IInv
  <1>22. CASE StopAll
    <2>1. UNCHANGED <<listed, spc, child, gpc, running, quit, removeOnStop, stopper,
      stdinClosed, rpc, target, stopping, panicked>>
      BY <1>22 DEF StopAll, svcVars, goVars, callVars, allVars
    <2>2. Stoppers'
      BY <1>1, <1>22, <2>1 DEF IInv, Stoppers, ClosedPc, StopAll, TypeOK
    <2>3. QED
      BY <1>1, <1>4, <2>1, <2>2, InvFrame DEF IInv
  <1>23. ASSUME NEW s \in Service, StopOne(s) PROVE IInv'
    <2>1. UNCHANGED <<listed, spc, child, gpc, running, quit, removeOnStop, stopper,
      stdinClosed, rpc, target>>
      BY <1>23 DEF StopOne, svcVars, goVars, callVars, allVars
    <2>2. Stoppers'
      BY <1>1, <1>23, <2>1 DEF IInv, Stoppers, ClosedPc, StopOne, AfterStop, TypeOK
    <2>3. PanicNeedsRivals'
      <3>1. CASE quit[s] = "closed"
        <4>1. stopper[s] = "Remove"
          BY <1>1, <1>23, <3>1 DEF IInv, Stage, Stoppers, StopOne, TypeOK
        <4>2. \E r \in Remover : rpc[r] = "done"
          BY <4>1 DEF IInv, Stoppers
        <4>3. apc' # "idle"
          BY <1>23 DEF StopOne, AfterStop
        <4>4. QED
          BY <2>1, <4>2, <4>3 DEF PanicNeedsRivals, Rival
      <3>2. CASE quit[s] # "closed"
        BY <1>23, <3>2 DEF StopOne, PanicNeedsRivals
      <3>3. QED
        BY <3>1, <3>2
    <2>4. QED
      BY <1>1, <1>4, <2>1, <2>2, <2>3, InvFrame DEF IInv
  <1>24. CASE StopLoopDone
    <2>1. UNCHANGED <<listed, spc, child, gpc, running, quit, removeOnStop, stopper,
      stdinClosed, rpc, target, stopping, panicked>>
      BY <1>24 DEF StopLoopDone, svcVars, goVars, callVars, allVars
    <2>2. Stoppers'
      BY <1>1, <1>24, <2>1 DEF IInv, Stoppers, ClosedPc, StopLoopDone, TypeOK
    <2>3. QED
      BY <1>1, <1>4, <2>1, <2>2, InvFrame DEF IInv
  <1>25. ASSUME NEW s \in Service, WaitOne(s) PROVE IInv'
    <2>1. UNCHANGED <<listed, spc, child, gpc, running, quit, removeOnStop, stopper,
      stdinClosed, rpc, target, apc, stopping, panicked>>
      BY <1>25 DEF WaitOne, svcVars, goVars, callVars, allVars
    <2>2. Stoppers'
      BY <1>1, <1>25, <2>1 DEF IInv, Stoppers, ClosedPc, WaitOne, TypeOK
    <2>3. QED
      BY <1>1, <1>4, <2>1, <2>2, InvFrame DEF IInv
  <1>26. CASE StopAllReturns
    <2>1. UNCHANGED <<listed, spc, child, gpc, running, quit, removeOnStop, stopper,
      stdinClosed, rpc, target, todo, stopping, panicked>>
      BY <1>26 DEF StopAllReturns, svcVars, goVars, callVars, allVars
    <2>2. Stoppers'
      BY <1>1, <1>26, <2>1 DEF IInv, Stoppers, ClosedPc, StopAllReturns, TypeOK
    <2>3. QED
      BY <1>1, <1>4, <2>1, <2>2, InvFrame DEF IInv
  <1>27. QED
    BY <1>2, <1>5, <1>6, <1>7, <1>8, <1>9, <1>10, <1>11, <1>12, <1>13, <1>14, <1>15, <1>16,
      <1>17, <1>18, <1>19, <1>20, <1>21, <1>22, <1>23, <1>24, <1>25, <1>26 DEF Next,
      GoroutineStep, ConnectStep, RemoveStep, StopAllStep

\* The invariant holds in every reachable state.
THEOREM Invariance == Spec => []IInv
  BY InvInit, InvNext, PTL DEF Spec

\* Type correctness of the services, the Remove calls and stopAll.
THEOREM TypeCorrect == Spec => []TypeOK
  <1>1. IInv => TypeOK
    BY DEF IInv
  <1>2. QED
    BY <1>1, Invariance, PTL

\* A service that was started leaves ManagedServices (service.go:124-132, 317-319)
\* only after its process was told to end.
THEOREM DelistedWasStoppedHolds == Spec => []DelistedWasStopped
  <1>1. IInv => DelistedWasStopped
    BY DEF IInv
  <1>2. QED
    BY <1>1, Invariance, PTL

\* A send on the closed quit channel (service.go:98-103, 293-294) takes two
\* callers that stop the same service.
THEOREM PanicNeedsRivalsHolds == Spec => []PanicNeedsRivals
  <1>1. IInv => PanicNeedsRivals
    BY DEF IInv
  <1>2. QED
    BY <1>1, Invariance, PTL
=============================================================================
