------------------------- MODULE UpdateCheckerProofs -------------------------
(***************************************************************************)
(* Proofs about UpdateChecker.  RetryPending is inductive by itself.  The  *)
(* type invariant needs Budget (a failure is counted before its retry), and *)
(* CountryServed follows from Noted, which does not mention the setting:   *)
(* the upgrader's copy of the country is the one it last updated for, or   *)
(* an update is on its way.                                                *)
(***************************************************************************)
EXTENDS UpdateChecker, TLAPS

\* One failure pays for one retry: the retries that wait, the one the checker
\* sleeps before and the failure about to be reported never exceed the failures.
Budget ==
    forced + (IF kpc = "sleep" THEN 1 ELSE 0) + (IF cpc = "error" THEN 1 ELSE 0) <= errors

\* The country the upgrader has noted is the one it updated for, or is served.
Noted ==
    /\ cpc \in {"upgrading", "success", "error"} => currentCountry = updatedFor
    /\ active => \/ currentCountry = updatedFor
                 \/ cpc = "forcing" \/ kpc = "request" \/ fate = "owed"

\* The inductive invariant.
IInv == TypeOK /\ Budget /\ RetryPending /\ Noted

\* The invariant holds when the upgrader and its checker start.
LEMMA InvInit == Init => IInv
  <1> SUFFICES ASSUME Init PROVE IInv
    OBVIOUS
  <1>1. TypeOK
    <2>1. active \in BOOLEAN /\ seen \in BOOLEAN /\ tick \in BOOLEAN /\ failed \in BOOLEAN
      BY Zenon DEF Init
    <2>2. country \in Country /\ currentCountry \in Country /\ updatedFor \in Country
      BY CountryAssumption, Zenon DEF Init
    <2>3. forced \in Nat /\ changes \in Nat /\ errors \in Nat /\ forced <= errors
      BY DEF Init
    <2>4. QED
      BY <2>1, <2>2, <2>3, Zenon DEF Init, TypeOK
  <1>2. Budget
    BY DEF Init, Budget
  <1>3. RetryPending /\ Noted
    BY DEF Init, RetryPending, Noted
  <1>4. QED
    BY <1>1, <1>2, <1>3 DEF IInv

\* Every step keeps the invariant: one step of the proof per action.
LEMMA InvNext == IInv /\ [Next]_vars => IInv'
  <1> SUFFICES ASSUME IInv, [Next]_vars PROVE IInv'
    OBVIOUS
  <1> USE DEF IInv, TypeOK, Budget, RetryPending, Noted, checkerVars, clientVars, userVars
  <1>1. CASE ConnectionUp
    BY <1>1 DEF ConnectionUp
  <1>2. CASE CheckCountry
    BY <1>2 DEF CheckCountry, UpdateNow
  <1>3. CASE TakeRequest
    BY <1>3 DEF TakeRequest
  <1>4. CASE Upgraded
    BY <1>4 DEF Upgraded
  <1>5. CASE Tick
    BY <1>5 DEF Tick
  <1>6. CASE TakeTick
    BY <1>6 DEF TakeTick
  <1>7. CASE TakeForce
    BY <1>7 DEF TakeForce
  <1>8. CASE TakeRetry
    BY <1>8 DEF TakeRetry
  <1>9. CASE TakeResponse
    <2>1. CASE cpc = "error"
      BY <1>9, <2>1 DEF TakeResponse, AfterResponse
    <2>2. CASE cpc # "error"
      BY <1>9, <2>2 DEF TakeResponse, AfterResponse
    <2>3. QED
      BY <2>1, <2>2
  <1>10. CASE Wake
    BY <1>10 DEF Wake
  <1>11. CASE ChangeCountry
    BY <1>11 DEF ChangeCountry
  <1>12. CASE UNCHANGED vars
    BY <1>12 DEF vars
  <1>13. QED
    BY <1>1, <1>2, <1>3, <1>4, <1>5, <1>6, <1>7, <1>8, <1>9, <1>10, <1>11, <1>12 DEF Next

\* The invariant holds in every reachable state.
THEOREM Invariance == Spec => []IInv
  BY InvInit, InvNext, PTL DEF Spec

\* Type correctness of the upgrader and its checker for any set of countries and
\* any number of changes and failures; no retry is invented.
THEOREM TypeCorrect == Spec => []TypeOK
  <1>1. IInv => TypeOK
    BY DEF IInv
  <1>2. QED
    BY <1>1, Invariance, PTL

\* A failed update always has a retry due, on its way or being served, unless the
\* request was skipped (updatechecker.go:80-86, upgradeblocklist.go:50-53).
THEOREM RetryPendingHolds == Spec => []RetryPending
  <1>1. IInv => RetryPending
    BY DEF IInv
  <1>2. QED
    BY <1>1, Invariance, PTL

\* A country the upgrader has noticed gets its update, unless a request was
\* skipped in between (upgradeblocklist.go:39-63).
THEOREM CountryServedHolds == Spec => []CountryServed
  <1>1. IInv => CountryServed
    BY DEF IInv, Noted, CountryServed
  <1>2. QED
    BY <1>1, Invariance, PTL
=============================================================================
