---------------------------- MODULE ClientAccess -----------------------------
(***************************************************************************)
(* Who may talk to the client's HTTP server (client/http.go): its start,   *)
(* the single-use keys it opens the browser with, and the four ways a      *)
(* request shows that it may come in.  Time is a counter of ticks.         *)
(***************************************************************************)
EXTENDS Naturals, FiniteSets

CONSTANTS
    Key,      \* single-use keys (random, so none comes twice)
    Browser,  \* browsers
    Ttl,      \* life time of a key, in ticks
    MaxTime   \* bound

VARIABLES
    http,     \* "off", "listening", "serving", "failed"
    entries,  \* singleUseKeys.entries: a function from keys to the time they were made
    menu,     \* of the goroutine of the menu: "waits", "opened" (a browser), before Cleanup
    clock,
    made,     \* history: when a key was made; 0 when it was not
    first,    \* history: when a key was first shown; 0 when it was not
    uses,     \* history: requests a key let in
    cookie    \* browsers that have the authKey cookie

avars == <<http, entries, menu, clock, made, first, uses, cookie>>

AInit ==
    /\ http = "off" /\ entries = [k \in {} |-> 0] /\ menu = "waits" /\ clock = 1
    /\ made = [k \in Key |-> 0] /\ first = [k \in Key |-> 0] /\ uses = [k \in Key |-> 0]
    /\ cookie = {}

\* startInternalHTTPServer: the address of the settings, else any port, else an error.
startInternalHTTPServer ==
    /\ http = "off" /\ http' \in {"listening", "failed"}
    /\ UNCHANGED <<entries, menu, clock, made, first, uses, cookie>>

\* Serve that ends within 200 ms makes the start fail; later nobody notices.
Serve ==
    /\ http = "listening" /\ http' \in {"serving", "failed"}
    /\ UNCHANGED <<entries, menu, clock, made, first, uses, cookie>>

Tick ==
    /\ http = "serving" /\ clock < MaxTime /\ clock' = clock + 1
    /\ UNCHANGED <<http, entries, menu, made, first, uses, cookie>>

\* New, from the menu of the tray icon; the browser is opened with the key.
New(k) ==
    /\ http \in {"listening", "serving"} /\ menu = "waits" /\ menu' = "opened"
    /\ made[k] = 0 /\ made' = [made EXCEPT ![k] = clock]
    /\ entries' = [j \in DOMAIN entries \cup {k} |-> IF j = k THEN clock ELSE entries[j]]
    /\ UNCHANGED <<http, clock, first, uses, cookie>>

\* The browser code has the client's own key and makes none.
CopyBrowserCode ==
    /\ http \in {"listening", "serving"} /\ menu = "waits" /\ menu' = "opened"
    /\ UNCHANGED <<http, entries, clock, made, first, uses, cookie>>

\* Cleanup ends every round of the menu.
Cleanup ==
    LET old == {k \in DOMAIN entries : clock > entries[k] + Ttl} IN
    /\ http \in {"listening", "serving"} /\ menu = "opened" /\ menu' = "waits"
    /\ entries' = [k \in DOMAIN entries \ old |-> entries[k]]
    /\ UNCHANGED <<http, clock, made, first, uses, cookie>>

\* Fault variant of Authenticate: the key is deleted by Cleanup only.
AuthenticateKept(k) == /\ k \in DOMAIN entries /\ clock < entries[k] + Ttl
                       /\ UNCHANGED entries

\* Authenticate deletes the key, whether it is in time or not.
Authenticate(k) == /\ k \in DOMAIN entries /\ clock < entries[k] + Ttl
                   /\ entries' = [j \in DOMAIN entries \ {k} |-> entries[j]]

\* A request with a single-use key.
ShowKey(b, k) ==
    /\ http = "serving" /\ made[k] # 0
    /\ first' = [first EXCEPT ![k] = IF @ = 0 THEN clock ELSE @]
    /\ \/ /\ Authenticate(k) /\ uses' = [uses EXCEPT ![k] = @ + 1] /\ cookie' = cookie \cup {b}
       \/ /\ ~(k \in DOMAIN entries /\ clock < entries[k] + Ttl)
          /\ entries' = [j \in DOMAIN entries \ {k} |-> entries[j]]
          /\ UNCHANGED <<uses, cookie>>
    /\ UNCHANGED <<http, menu, clock, made>>

\* A request with the key of the client, as a parameter; with the browser code it has.
ShowAuthKey(b) ==
    /\ http = "serving" /\ b \notin cookie /\ cookie' = cookie \cup {b}
    /\ UNCHANGED <<http, entries, menu, clock, made, first, uses>>

ANext ==
    \/ startInternalHTTPServer \/ Serve \/ Tick \/ CopyBrowserCode \/ Cleanup
    \/ \E k \in Key : New(k) \/ (\E b \in Browser : ShowKey(b, k))
    \/ \E b \in Browser : ShowAuthKey(b)

-----------------------------------------------------------------------------
\* A single-use key lets in exactly one request if it is shown in time, however often and
\* by whomever it is shown, and none if it is first shown too late: cleaning up, expiry and
\* use in any order neither lose a key nor keep one.
OneUse ==
    \A k \in Key : first[k] # 0 => uses[k] = IF first[k] < made[k] + Ttl THEN 1 ELSE 0

=============================================================================
