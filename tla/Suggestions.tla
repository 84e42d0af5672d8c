----------------------------- MODULE Suggestions -----------------------------
(***************************************************************************)
(* A suggestion from the browser to central's sample table.  The client:   *)
(* the goroutine that owns the suggestions (pkg/central/client/client.go), *)
(* CreateSuggestion and SubmitSuggestion with its background sender        *)
(* (pkg/client/api.go).  Central: SuggestionToken and StoreSample          *)
(* (pkg/central/api.go), the session tokens (db/sessionstoken.go), their   *)
(* expiry, and a restart that reloads them from the samples table.         *)
(* Between them a network that loses requests and answers.                 *)
(*                                                                         *)
(* A suggestion stands for its URL.  Requests central refuses for their    *)
(* form (no country, no address, unknown sample type) are not sent by this *)
(* client, except where its public address is not known yet.               *)
(***************************************************************************)
EXTENDS Naturals, FiniteSets

CONSTANTS Sugg,          \* suggestions, one URL each
          MaxSubmits,    \* bound: SubmitSuggestion calls of one suggestion
          MaxFaults,     \* bound: lost messages, failed inserts and refusals
          MaxRestarts    \* bound: restarts of central

ASSUME FlowAssumption == MaxSubmits \in Nat /\ MaxFaults \in Nat /\ MaxRestarts \in Nat

Type    == {"HTTPHeader", "DNSQuery"}             \* supportedTypes, clientSampleTypes
Call    == Sugg \X (1 .. MaxSubmits) \X {"call"}  \* goroutines of SubmitSuggestion
Bg      == Sugg \X (1 .. MaxSubmits) \X {"bg"}    \* and the senders they leave behind
Token   == 1 .. Cardinality(Sugg) * MaxSubmits
NoToken == 0

VARIABLES
    todo,       \* Sugg -> measurements CreateSuggestion has still to take
    created,    \* suggestions in the store
    store,      \* Sugg -> token, samples, prepared
    proc,       \* Call and Bg -> pc, token and batch (copies), failed
    sessions,   \* SessionTokens: token -> url
    tokenRows,  \* NewClientToken rows: token -> suggestion
    clientRows, \* rows of origin Client: <<token, type>>
    issued,     \* tokens given out so far
    expired,    \* tokens expireSessions has collected and not deleted yet
    faults, restarts,
    measured    \* history variable: Sugg -> measurements that succeeded

clientVars  == <<todo, created, measured>>
centralVars == <<sessions, tokenRows, clientRows, issued, expired>>
bounds      == <<faults, restarts>>
vars        == <<clientVars, store, proc, centralVars, bounds>>

SuggOf(p) == p[1]
BgOf(p)   == <<p[1], p[2], "bg">>

\* Every variable keeps its type; a background sender has a token to work with.
TypeOK ==
    /\ created \subseteq Sugg /\ todo \in [Sugg -> SUBSET Type]
    /\ store \in [Sugg -> [token : Token \cup {NoToken}, samples : SUBSET Type,
                           prepared : BOOLEAN]]
    /\ proc \in [Call \cup Bg ->
                   [pc : {"idle", "token", "copy", "send", "wait", "returned",
                          "done", "gaveup"},
                    token : Token \cup {NoToken}, batch : SUBSET Type, failed : BOOLEAN]]
    /\ DOMAIN sessions \subseteq Token /\ DOMAIN tokenRows \subseteq Token
    /\ clientRows \subseteq Token \X Type
    /\ \A b \in Bg : proc[b].pc # "idle" => store[SuggOf(b)].token # NoToken

At(pc) == [pc |-> pc, token |-> NoToken, batch |-> {}, failed |-> FALSE]

Init ==
    /\ todo = [s \in Sugg |-> Type] /\ created = {} /\ measured = [s \in Sugg |-> {}]
    /\ store = [s \in Sugg |-> [token |-> NoToken, samples |-> {}, prepared |-> FALSE]]
    /\ proc = [p \in Call \cup Bg |-> At("idle")]
    /\ sessions = <<>> /\ tokenRows = <<>> /\ clientRows = {} /\ issued = 0 /\ expired = {}
    /\ faults = 0 /\ restarts = 0

-----------------------------------------------------------------------------
(* CreateSuggestion: the call goes on measuring while others submit *)

NewSuggestion(s) ==
    /\ s \notin created /\ created' = created \cup {s}
    /\ UNCHANGED <<todo, measured, store, proc, centralVars, bounds>>

\* A measurement is added as a sample, or fails and is skipped.
Measure(s, t) ==
    /\ s \in created /\ t \in todo[s]
    /\ todo' = [todo EXCEPT ![s] = @ \ {t}]
    /\ \/ /\ store' = [store EXCEPT ![s].samples = @ \cup {t}]
          /\ measured' = [measured EXCEPT ![s] = @ \cup {t}]
       \/ UNCHANGED <<store, measured>>
    /\ UNCHANGED <<created, proc, centralVars, bounds>>

\* The deferred call, whatever became of the measurements.
DoneAddingSamples(s) ==
    /\ s \in created /\ todo[s] = {} /\ ~store[s].prepared
    /\ store' = [store EXCEPT ![s].prepared = TRUE]
    /\ UNCHANGED <<clientVars, proc, centralVars, bounds>>

-----------------------------------------------------------------------------
(* SubmitSuggestion *)

Goto(p, pc) == proc' = [proc EXCEPT ![p] = At(pc)]

Fault == faults < MaxFaults /\ faults' = faults + 1

SubmitSuggestion(p) ==
    /\ p \in Call /\ proc[p].pc = "idle" /\ SuggOf(p) \in created
    /\ \A k \in 1 .. p[2] - 1 : proc[<<p[1], k, "call">>].pc # "idle"
    /\ Goto(p, "token")
    /\ UNCHANGED <<clientVars, store, centralVars, bounds>>

\* No transport, or the request is lost: the error is returned to the browser.
TokenLost(p) ==
    /\ proc[p].pc = "token" /\ Fault
    /\ Goto(p, "returned")
    /\ UNCHANGED <<clientVars, store, centralVars, restarts>>

\* Central does not support the host: Ok is false, no token is set, and the call goes on.
TokenRefused(p) ==
    /\ proc[p].pc = "token" /\ Fault
    /\ Goto(p, "copy")
    /\ UNCHANGED <<clientVars, store, centralVars, restarts>>

\* Fault variant of Respond: the error of InsertSample is logged only.
RespondAlways(p, inserted, delivered) ==
    IF delivered
    THEN /\ store' = [store EXCEPT ![SuggOf(p)].token = issued']
         /\ Goto(p, "copy")
    ELSE UNCHANGED store /\ Goto(p, "returned")

\* The answer reaches the client only after the row has been inserted.
Respond(p, inserted, delivered) ==
    IF inserted /\ delivered
    THEN /\ store' = [store EXCEPT ![SuggOf(p)].token = issued']
         /\ Goto(p, "copy")
    ELSE UNCHANGED store /\ Goto(p, "returned")

\* SuggestionToken: the session is kept in memory, then its row is inserted.
SuggestionToken(p, inserted, delivered) ==
    /\ proc[p].pc = "token"
    /\ issued' = issued + 1
    /\ sessions' = [n \in DOMAIN sessions \cup {issued'} |->
                       IF n = issued' THEN [url |-> SuggOf(p), quoted |-> FALSE]
                       ELSE sessions[n]]
    /\ tokenRows' = IF inserted
                    THEN [n \in DOMAIN tokenRows \cup {issued'} |->
                             IF n = issued' THEN SuggOf(p) ELSE tokenRows[n]]
                    ELSE tokenRows
    /\ Respond(p, inserted, delivered)
    /\ IF inserted /\ delivered THEN UNCHANGED faults ELSE Fault
    /\ UNCHANGED <<clientVars, clientRows, expired, restarts>>

\* SendSamples works on a copy of the samples; without a token it fails.
CopySamples(p) ==
    /\ proc[p].pc = "copy"
    /\ LET s == store[SuggOf(p)] IN
       proc' = [proc EXCEPT ![p] = [pc |-> "send", token |-> s.token, failed |-> s.token = NoToken,
                                    batch |-> IF s.token = NoToken THEN {} ELSE s.samples]]
    /\ UNCHANGED <<clientVars, store, centralVars, bounds>>

\* StoreSample: the token's session must be there, for the same URL.
Accepts(n, s) == n \in DOMAIN sessions /\ sessions[n].url = s /\ ~sessions[n].quoted

Sent(p, t, failed) ==
    proc' = [proc EXCEPT ![p].batch = @ \ {t}, ![p].failed = @ \/ failed]

\* Fault variant of Removed: the sample is dropped whatever the answer.
RemovedAlways(s, t, ok) == store' = [store EXCEPT ![s].samples = @ \ {t}]

\* removeSample, after central has said Ok.
Removed(s, t, ok) == store' = IF ok THEN [store EXCEPT ![s].samples = @ \ {t}] ELSE store

\* The request or, with the row inserted, its answer is lost.
SampleLost(p, t) ==
    /\ proc[p].pc = "send" /\ t \in proc[p].batch /\ Fault
    /\ \/ UNCHANGED clientRows
       \/ /\ Accepts(proc[p].token, SuggOf(p))
          /\ clientRows' = clientRows \cup {<<proc[p].token, t>>}
    /\ Sent(p, t, TRUE) /\ Removed(SuggOf(p), t, FALSE)
    /\ UNCHANGED <<clientVars, sessions, tokenRows, issued, expired, restarts>>

SampleServed(p, t) ==
    /\ proc[p].pc = "send" /\ t \in proc[p].batch
    /\ LET s == SuggOf(p)
           ok == Accepts(proc[p].token, s)
       IN  /\ clientRows' = IF ok THEN clientRows \cup {<<proc[p].token, t>>} ELSE clientRows
           /\ Sent(p, t, ~ok) /\ Removed(s, t, ok)
    /\ UNCHANGED <<clientVars, sessions, tokenRows, issued, expired, bounds>>

\* Prepared: an error without a token; otherwise, are all samples there?
NeedsSender(s) == store[s].token # NoToken /\ ~store[s].prepared

\* SubmitSuggestion after SendSamples: a background sender is left behind unless all
\* samples were there already; nothing is retried in that case.
Check(p) ==
    /\ p \in Call /\ proc[p].pc = "send" /\ proc[p].batch = {}
    /\ proc' = IF NeedsSender(SuggOf(p))
               THEN [proc EXCEPT ![p] = At("returned"), ![BgOf(p)] = At("wait")]
               ELSE [proc EXCEPT ![p] = At("returned")]
    /\ UNCHANGED <<clientVars, store, centralVars, bounds>>

Due(s) == store[s].prepared

\* A tick of the sender, every 30 s.
Tick(b) ==
    /\ b \in Bg /\ proc[b].pc = "wait" /\ Due(SuggOf(b))
    /\ Goto(b, "copy")
    /\ UNCHANGED <<clientVars, store, centralVars, bounds>>

\* 15 minutes are over.
GiveUp(b) ==
    /\ b \in Bg /\ proc[b].pc = "wait"
    /\ Goto(b, "gaveup")
    /\ UNCHANGED <<clientVars, store, centralVars, bounds>>

\* Fault variant of AfterSend: the sender ends at the first failure.
EndsAnyway(b) == IF proc[b].failed THEN "returned" ELSE "done"

AfterSend(b) == IF proc[b].failed THEN "wait" ELSE "done"

BgSent(b) ==
    /\ b \in Bg /\ proc[b].pc = "send" /\ proc[b].batch = {}
    /\ Goto(b, AfterSend(b))
    /\ UNCHANGED <<clientVars, store, centralVars, bounds>>

-----------------------------------------------------------------------------
(* Central: time passes, sessions expire, the process restarts *)

\* expireSessions collects what is older than 30 minutes under the read lock, ...
Collect ==
    /\ expired = {}
    /\ \E old \in (SUBSET DOMAIN sessions) \ {{}} : expired' = old
    /\ UNCHANGED <<clientVars, store, proc, sessions, tokenRows, clientRows, issued, bounds>>

\* ... and deletes under the write lock.
Delete ==
    /\ expired # {} /\ expired' = {}
    /\ sessions' = [n \in DOMAIN sessions \ expired |-> sessions[n]]
    /\ UNCHANGED <<clientVars, store, proc, tokenRows, clientRows, issued, bounds>>

\* RecentSuggestionSessions: data::json->'URL' is the URL as a JSON text, in quotes.
RecentSuggestionSessions == [n \in DOMAIN tokenRows |-> [url |-> tokenRows[n], quoted |-> TRUE]]

\* Run and Reset: the sessions of the table, without those older than 30 minutes.
Restart ==
    /\ restarts < MaxRestarts /\ restarts' = restarts + 1
    /\ \E kept \in SUBSET DOMAIN tokenRows :
           sessions' = [n \in kept |-> RecentSuggestionSessions[n]]
    /\ expired' = {}
    /\ UNCHANGED <<clientVars, store, proc, tokenRows, clientRows, issued, faults>>

-----------------------------------------------------------------------------
Create   == \E s \in Sugg : \/ NewSuggestion(s) \/ DoneAddingSamples(s)
                            \/ \E t \in Type : Measure(s, t)
GetToken == \E p \in Call : \/ SubmitSuggestion(p) \/ TokenLost(p) \/ TokenRefused(p)
                            \/ \E i, d \in BOOLEAN : SuggestionToken(p, i, d)
Send(p)  == CopySamples(p) \/ Check(p) \/ BgSent(p) \/ Tick(p)
            \/ \E t \in Type : SampleServed(p, t)
Central  == Collect \/ Delete \/ Restart

Next ==
    \/ Create \/ GetToken \/ Central
    \/ \E p \in Call \cup Bg : Send(p) \/ GiveUp(p) \/ \E t \in Type : SampleLost(p, t)

Spec == Init /\ [][Next]_vars

\* Goroutines go on: measurements end, the ticker ticks, requests are answered.
FairSpec ==
    /\ Spec /\ WF_vars(Create)
    /\ \A b \in Bg : WF_vars(Send(b))

-----------------------------------------------------------------------------
(* Properties *)

\* Whatever is lost on the way, and however submissions of the same suggestion overlap,
\* a sample that was measured is in the client's store or in central's table.
NoSampleLost ==
    \A s \in Sugg : \A t \in measured[s] :
        t \in store[s].samples \/ \E n \in DOMAIN tokenRows : tokenRows[n] = s /\ <<n, t>> \in clientRows

\* Every sample of a client belongs to a session with a NewClientToken row: the analysis
\* drops a session without one.
SessionRooted == \A r \in clientRows : r[1] \in DOMAIN tokenRows

\* A background sender delivers all samples, unless its time is over, or the session has
\* expired or was lost in a restart.
SenderDelivers ==
    \A b \in Bg : (proc[b].pc = "wait") ~>
        \/ proc[b].pc = "done" /\ store[SuggOf(b)].samples = {}
        \/ proc[b].pc = "gaveup"
        \/ ~Accepts(store[SuggOf(b)].token, SuggOf(b))

\* Central loads the recent sessions when it starts, to go on accepting their samples
\* ("The url related to the token, used for quick validation").
SessionsSurvive ==
    \A n \in DOMAIN sessions : n \in DOMAIN tokenRows => Accepts(n, tokenRows[n])

=============================================================================
