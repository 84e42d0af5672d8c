---------------------------- MODULE UpdateChecker ----------------------------
(***************************************************************************)
(* An update checker (pkg/client/updatechecker.go) and its client, the     *)
(* blocklist upgrader (pkg/client/upgradeblocklist.go).  The checker's     *)
(* goroutine turns ticks, forced requests and retries into requests; the   *)
(* upgrader's goroutine serves connection events, changes of the country   *)
(* setting and the requests.  They meet on three unbuffered channels       *)
(* (forceRequestC, RequestC, ResponseC) and each of them sends to the      *)
(* other.  The binary upgrader (upgradebin.go) is the special case in      *)
(* which the country never changes.                                        *)
(*                                                                         *)
(* What an update does is the subject of other modules: here it succeeds   *)
(* or fails.  Deactivate has no caller.                                    *)
(***************************************************************************)
EXTENDS Naturals

CONSTANTS Country,      \* country codes the user can set
          Unset,        \* the code "__"
          MaxChanges,   \* bound: changes of the country setting
          MaxErrors     \* bound: updates that fail

ASSUME CountryAssumption == Unset \in Country

ASSUME BoundsAssumption == MaxChanges \in Nat /\ MaxErrors \in Nat

VARIABLES
    active,          \* UpdateChecker.active as the upgrader wrote it
    seen,            \* the checker is bound to see that write
    kpc,             \* the checker: "select", "request" (RequestC <-), "sleep"
    tick,            \* ticker.C holds a tick
    forced,          \* retry goroutines blocked in forceRequestC <- true
    cpc,             \* the upgrader: "select", "forcing" (UpdateNow),
                     \* "upgrading", "success" or "error" (ResponseC <-)
    country,         \* Settings.Local.CountryCode
    currentCountry,  \* the upgrader's copy of it
    failed,          \* LastFailedCheck is set
    changes, errors, \* counters for the bounds
    \* history variables: read by properties only
    updatedFor,      \* country of the last update that was started, Unset before the first
    fate             \* of the last request: "none", "owed" or "answered"

checkerVars == <<kpc, tick, forced, failed, seen>>
clientVars  == <<cpc, active, currentCountry, updatedFor>>
userVars    == <<country, changes>>
vars        == <<checkerVars, clientVars, userVars, errors, fate>>

\* Every variable keeps its type, and every retry stems from a failed update.
TypeOK ==
    /\ active \in BOOLEAN /\ seen \in BOOLEAN /\ tick \in BOOLEAN /\ failed \in BOOLEAN
    /\ kpc \in {"select", "request", "sleep"}
    /\ cpc \in {"select", "forcing", "upgrading", "success", "error"}
    /\ country \in Country /\ currentCountry \in Country
    /\ updatedFor \in Country
    /\ fate \in {"none", "owed", "answered"}
    /\ forced \in Nat /\ changes \in Nat /\ errors \in Nat
    /\ forced <= errors

Init ==
    /\ active = FALSE /\ seen = FALSE
    /\ kpc = "select" /\ tick = FALSE /\ forced = 0 /\ failed = FALSE
    /\ cpc = "select"
    /\ country \in Country /\ currentCountry = country
    /\ changes = 0 /\ errors = 0
    /\ updatedFor = Unset /\ fate = "none"

-----------------------------------------------------------------------------
(* The upgrader *)

\* case event := <-connectionEventListener, event.IsUp(): Activate and UpdateNow.
\* Other events change nothing.
ConnectionUp ==
    /\ cpc = "select"
    /\ active' = TRUE
    /\ cpc' = "forcing"
    /\ UNCHANGED <<checkerVars, currentCountry, updatedFor, userVars, errors, fate>>

\* Fault variant of UpdateNow: a change of country is noted, no update is forced.
NoUpdate == UNCHANGED cpc

UpdateNow == cpc' = IF active THEN "forcing" ELSE "select"

\* case <-checkCountrySettingC.C with a new country.
CheckCountry ==
    /\ cpc = "select"
    /\ currentCountry # country
    /\ currentCountry' = country
    /\ UpdateNow
    /\ UNCHANGED <<checkerVars, active, updatedFor, userVars, errors, fate>>

\* case request := <-uChecker.RequestC: skipped while the country is not set.
TakeRequest ==
    /\ cpc = "select" /\ kpc = "request"
    /\ kpc' = "select"
    /\ fate' = "owed"
    /\ \/ country = Unset /\ UNCHANGED <<cpc, currentCountry, updatedFor>>
       \/ /\ country # Unset
          /\ currentCountry' = country
          /\ updatedFor' = country
          /\ cpc' = "upgrading"
    /\ UNCHANGED <<tick, forced, failed, seen, active, userVars, errors>>

\* upgradeBlockList returned.
Upgraded ==
    /\ cpc = "upgrading"
    /\ \/ cpc' = "success" /\ UNCHANGED errors
       \/ errors < MaxErrors /\ cpc' = "error" /\ errors' = errors + 1
    /\ UNCHANGED <<checkerVars, active, currentCountry, updatedFor, userVars, fate>>

-----------------------------------------------------------------------------
(* The checker *)

\* The ticker drops a tick that finds its channel full.
Tick ==
    /\ ~tick /\ tick' = TRUE
    /\ UNCHANGED <<kpc, forced, failed, seen, clientVars, userVars, errors, fate>>

\* case <-ticker.C: ignored while not active.  The flag is read without
\* synchronisation: until the checker has received something from the upgrader
\* it may still see the old value.
TakeTick ==
    /\ kpc = "select" /\ tick
    /\ tick' = FALSE
    /\ \/ active /\ kpc' = "request"
       \/ ~seen /\ kpc' = "select"
    /\ UNCHANGED <<forced, failed, seen, clientVars, userVars, errors, fate>>

\* case <-c.forceRequestC, sent by UpdateNow ...
TakeForce ==
    /\ kpc = "select" /\ cpc = "forcing"
    /\ kpc' = "request" /\ cpc' = "select"
    /\ seen' = TRUE
    /\ UNCHANGED <<tick, forced, failed, active, currentCountry, updatedFor, userVars, errors,
                   fate>>

\* ... or by the goroutine that retries a failed update.
TakeRetry ==
    /\ kpc = "select" /\ forced > 0
    /\ kpc' = "request" /\ forced' = forced - 1
    /\ UNCHANGED <<tick, failed, seen, clientVars, userVars, errors, fate>>

\* Fault variant of AfterResponse: a success is followed by a retry as well.
AlwaysRetry == "sleep"

\* Where the checker goes after a response: a failed update is retried.
AfterResponse == IF cpc = "error" THEN "sleep" ELSE "select"

\* case response := <-c.response.
TakeResponse ==
    /\ kpc = "select" /\ cpc \in {"success", "error"}
    /\ cpc' = "select"
    /\ failed' = (cpc = "error")
    /\ kpc' = AfterResponse
    /\ fate' = "answered"
    /\ UNCHANGED <<tick, forced, seen, active, currentCountry, updatedFor, userVars, errors>>

\* Fault variant of Wake: the retry after a failed update is forgotten.
WakeWithoutRetry ==
    /\ kpc = "sleep" /\ kpc' = "select"
    /\ UNCHANGED <<tick, forced, failed, seen, clientVars, userVars, errors, fate>>

\* Fault variant of Wake: the checker's own goroutine sends the retry and waits
\* for ever, since it is the one that receives from forceRequestC.
WakeSendsItself == kpc = "sleep" /\ UNCHANGED vars

\* The delay after a failed update is over: go forceRequestC <- true.
Wake ==
    /\ kpc = "sleep" /\ kpc' = "select"
    /\ forced' = forced + 1
    /\ UNCHANGED <<tick, failed, seen, clientVars, userVars, errors, fate>>

\* The user changes the country setting.
ChangeCountry ==
    /\ changes < MaxChanges
    /\ changes' = changes + 1
    /\ country' \in Country \ {country}
    /\ UNCHANGED <<checkerVars, clientVars, errors, fate>>

Next ==
    \/ ConnectionUp \/ CheckCountry \/ TakeRequest \/ Upgraded
    \/ Tick \/ TakeTick \/ TakeForce \/ TakeRetry \/ TakeResponse \/ Wake
    \/ ChangeCountry

Spec == Init /\ [][Next]_vars

\* Both goroutines go on when they can, an update ends within the timeout of its
\* http client and the sleep ends.  A select chooses at random among what is
\* ready: ticks that are ignored do not keep a forced request waiting for ever.
\* Nothing is assumed of ticks, of connection events or of the user.
Fairness ==
    /\ WF_vars(TakeTick \/ TakeForce \/ TakeRetry \/ TakeResponse)
    /\ SF_vars(TakeForce)
    /\ WF_vars(TakeRequest) /\ WF_vars(Upgraded) /\ WF_vars(Wake)

FairSpec == Spec /\ Fairness

-----------------------------------------------------------------------------
(* Properties *)

\* Each of the two goroutines is sending to the other one.
Crossed == kpc = "request" /\ cpc \in {"forcing", "success", "error"}

\* An update that failed is not forgotten: a retry is due, on its way, or being
\* served, unless the request was skipped because the country is not set.
RetryPending ==
    failed => \/ kpc \in {"sleep", "request"} \/ forced > 0
              \/ cpc \in {"upgrading", "success", "error"}
              \/ fate = "owed"

\* A new country that the upgrader has noticed is served: an update for it was
\* started or is requested, unless a request was skipped in between.
CountryServed ==
    active /\ country # Unset /\ currentCountry = country /\ updatedFor # country
        => cpc = "forcing" \/ kpc = "request" \/ fate = "owed"

\* Whatever the upgrader sends to its checker is received, so that it is back at
\* its select and takes connection events, unless the two sends cross.
Returns == cpc # "select" ~> cpc = "select" \/ Crossed

\* "Update when the transport connection comes up"
UpdatesOnUp == cpc = "forcing" ~> cpc = "upgrading" \/ country = Unset
=============================================================================
