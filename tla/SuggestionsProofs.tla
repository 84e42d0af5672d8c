-------------------------- MODULE SuggestionsProofs --------------------------
(***************************************************************************)
(* Proofs about the way of a suggestion from the browser to the tables of  *)
(* central (Suggestions), for any suggestions, submissions, lost messages  *)
(* and restarts.                                                           *)
(***************************************************************************)
EXTENDS Suggestions, TLAPS

Stages == {"idle", "token", "copy", "send", "wait", "returned", "done", "gaveup"}

Process == [pc : Stages, token : Nat, batch : SUBSET Type, failed : BOOLEAN]

Types ==
    /\ issued \in Nat /\ measured \in [Sugg -> SUBSET Type]
    /\ store \in [Sugg -> [token : Nat, samples : SUBSET Type, prepared : BOOLEAN]]
    /\ proc \in [Call \cup Bg -> Process]

\* The NewClientToken row of token n is there, and it is for suggestion s.
Rooted(n, s) == n \in DOMAIN tokenRows /\ tokenRows[n] = s

\* A token the client knows, in the store or in a copy a sender works on, has its row; so
\* a sample central says Ok to is under a session of the suggestion it was measured for.
FlowInv ==
    /\ Types
    /\ \A n \in DOMAIN tokenRows : n \in 1..issued
    /\ \A s \in Sugg : store[s].token # NoToken => Rooted(store[s].token, s)
    /\ \A p \in Call \cup Bg : proc[p].batch # {} => Rooted(proc[p].token, SuggOf(p))
    /\ NoSampleLost /\ SessionRooted

LEMMA Senders ==
    /\ \A p \in Call \cup Bg : SuggOf(p) \in Sugg
    /\ \A p \in Call : BgOf(p) \in Bg
BY DEF Call, Bg, SuggOf, BgOf

LEMMA FlowInit == Init => FlowInv
<1> SUFFICES ASSUME Init PROVE FlowInv
    OBVIOUS
<1>1. At("idle") \in Process /\ At("idle").batch = {}
    BY DEF At, Process, Stages, NoToken
<1>2. Types
    BY <1>1 DEF Init, Types, NoToken
<1>3. \A p \in Call \cup Bg : proc[p].batch = {}
    BY <1>1 DEF Init
<1>. QED
    BY <1>2, <1>3 DEF Init, FlowInv, NoSampleLost, SessionRooted

\* A process goes on with nothing to send, or with samples of a session that has its row.
LEMMA ProcStep ==
    ASSUME FlowInv, NEW p \in Call \cup Bg, NEW q \in Process, proc' = [proc EXCEPT ![p] = q],
           UNCHANGED <<measured, store, tokenRows, clientRows, issued>>,
           q.batch # {} => Rooted(q.token, SuggOf(p))
    PROVE  FlowInv'
<1>1. Types'
    BY DEF FlowInv, Types
<1>2. \A r \in Call \cup Bg : proc'[r].batch # {} => Rooted(proc'[r].token, SuggOf(r))
    BY DEF FlowInv, Types
<1>. QED
    BY <1>1, <1>2 DEF FlowInv, Types, Rooted, NoSampleLost, SessionRooted

LEMMA GotoStep ==
    ASSUME FlowInv, NEW p \in Call \cup Bg, NEW pc \in Stages, Goto(p, pc),
           UNCHANGED <<measured, store, tokenRows, clientRows, issued>>
    PROVE  FlowInv'
<1>1. At(pc) \in Process /\ At(pc).batch = {}
    BY DEF At, Process, NoToken
<1>. QED
    BY <1>1, ProcStep DEF Goto

\* A sample on its way: central may have stored it, and only then the client drops it.
LEMMA SampleStep ==
    ASSUME FlowInv, NEW p \in Call \cup Bg, NEW t \in Type, NEW f \in BOOLEAN, NEW ok \in BOOLEAN,
           t \in proc[p].batch, Sent(p, t, f), Removed(SuggOf(p), t, ok),
           UNCHANGED <<measured, tokenRows, issued>>,
           clientRows' \in {clientRows, clientRows \cup {<<proc[p].token, t>>}},
           ok => clientRows' = clientRows \cup {<<proc[p].token, t>>}
    PROVE  FlowInv'
<1> DEFINE s == SuggOf(p)
           n == proc[p].token
           g == proc[p].failed \/ f
           q == [proc[p] EXCEPT !.batch = @ \ {t}, !.failed = g]
<1>1. proc[p] \in Process /\ s \in Sugg
    BY Senders DEF FlowInv, Types
<1>2. Rooted(n, s)
    BY DEF FlowInv
<1>3. proc' = [proc EXCEPT ![p] = q]
    BY DEF Sent, FlowInv, Types
<1>4. g \in BOOLEAN
    OBVIOUS
<1> HIDE DEF g
<1>5. q \in Process /\ q.token = n /\ q.batch \subseteq proc[p].batch
    BY <1>1, <1>4 DEF Process
<1>6. store' \in [Sugg -> [token : Nat, samples : SUBSET Type, prepared : BOOLEAN]]
    BY <1>1 DEF Removed, FlowInv, Types
<1>7. Types'
    BY <1>3, <1>5, <1>6 DEF FlowInv, Types
<1>8. \A r \in Call \cup Bg : proc'[r].batch # {} => Rooted(proc'[r].token, SuggOf(r))
    BY <1>2, <1>3, <1>5 DEF FlowInv, Types
<1>9. \A r \in Sugg : /\ store'[r].token = store[r].token
                      /\ \A u \in store[r].samples : u \in store'[r].samples \/ (ok /\ r = s /\ u = t)
    BY <1>1 DEF Removed, FlowInv, Types
<1>10. NoSampleLost'
    BY <1>2, <1>9 DEF FlowInv, NoSampleLost, Rooted
<1>11. SessionRooted'
    BY <1>2 DEF FlowInv, SessionRooted, Rooted
<1>. QED
    BY <1>7, <1>8, <1>9, <1>10, <1>11 DEF FlowInv, Rooted

LEMMA TokenStep ==
    ASSUME FlowInv, NEW p \in Call, NEW inserted \in BOOLEAN, NEW delivered \in BOOLEAN,
           SuggestionToken(p, inserted, delivered)
    PROVE  FlowInv'
<1> DEFINE s == SuggOf(p)
           n == issued + 1
           rows == [m \in DOMAIN tokenRows \cup {n} |-> IF m = n THEN s ELSE tokenRows[m]]
<1>0. s \in Sugg /\ n \in Nat /\ n \notin DOMAIN tokenRows
    BY Senders DEF FlowInv, Types
<1>1. issued' = n /\ UNCHANGED <<measured, clientRows>>
    BY DEF SuggestionToken, clientVars
<1>2. /\ tokenRows' \in {tokenRows, rows}
      /\ \/ store' = store
         \/ store' = [store EXCEPT ![s].token = n] /\ tokenRows' = rows
      /\ \E after \in {"copy", "returned"} : proc' = [proc EXCEPT ![p] = At(after)]
  <2>1. CASE inserted /\ delivered
    BY <1>1, <2>1 DEF SuggestionToken, Respond, Goto
  <2>2. CASE ~(inserted /\ delivered)
    <3>1. tokenRows' \in {tokenRows, rows}
      BY <1>1 DEF SuggestionToken
    <3>. QED
      BY <2>2, <3>1 DEF SuggestionToken, Respond, Goto
  <2>. QED
    BY <2>1, <2>2
<1>3. PICK after \in {"copy", "returned"} : proc' = [proc EXCEPT ![p] = At(after)]
    BY <1>2
<1>4. At(after) \in Process /\ At(after).batch = {}
    BY DEF At, Process, NoToken, Stages
<1>5. Types'
    BY <1>0, <1>1, <1>2, <1>3, <1>4 DEF FlowInv, Types
<1>6. /\ DOMAIN tokenRows \subseteq DOMAIN tokenRows' /\ DOMAIN tokenRows' \subseteq DOMAIN tokenRows \cup {n}
      /\ \A m \in DOMAIN tokenRows : tokenRows'[m] = tokenRows[m]
      /\ tokenRows' = rows => n \in DOMAIN tokenRows' /\ tokenRows'[n] = s
    BY <1>0, <1>2
<1> HIDE DEF rows
<1>7. \A m \in DOMAIN tokenRows' : m \in 1..issued'
    BY <1>0, <1>1, <1>6 DEF FlowInv, Types
<1>8. \A r \in Sugg : /\ store'[r].samples = store[r].samples
                      /\ \/ store'[r].token = store[r].token
                         \/ r = s /\ store'[r].token = n /\ tokenRows' = rows
    BY <1>0, <1>2 DEF FlowInv, Types
<1>9. \A r \in Sugg : (store[r].token # NoToken => Rooted(store[r].token, r))'
    BY <1>6, <1>8 DEF FlowInv, Rooted
<1>10. \A r \in Call \cup Bg : (proc[r].batch # {} => Rooted(proc[r].token, SuggOf(r)))'
  <2>1. \A r \in Call \cup Bg : proc'[r] = proc[r] \/ proc'[r] = At(after)
    BY <1>3 DEF FlowInv, Types
  <2>. QED
    BY <1>4, <1>6, <2>1 DEF FlowInv, Rooted
<1>11. NoSampleLost' /\ SessionRooted'
    BY <1>1, <1>6, <1>8 DEF FlowInv, NoSampleLost, SessionRooted
<1>. QED
    BY <1>5, <1>7, <1>9, <1>10, <1>11 DEF FlowInv

LEMMA FlowStep == FlowInv /\ [Next]_vars => FlowInv'
<1> SUFFICES ASSUME FlowInv, [Next]_vars PROVE FlowInv'
    OBVIOUS
<1> USE DEF clientVars, centralVars, bounds
<1>1. CASE UNCHANGED <<measured, store, proc, tokenRows, clientRows, issued>>
    BY <1>1 DEF FlowInv, Types, Rooted, NoSampleLost, SessionRooted
<1>2. ASSUME NEW s \in Sugg, NewSuggestion(s) PROVE FlowInv'
    BY <1>1, <1>2 DEF NewSuggestion
<1>3. ASSUME NEW s \in Sugg, NEW t \in Type, Measure(s, t) PROVE FlowInv'
  <2>1. UNCHANGED <<proc, tokenRows, clientRows, issued>>
    BY <1>3 DEF Measure
  <2>2. CASE UNCHANGED <<store, measured>>
    BY <1>1, <2>1, <2>2
  <2>3. CASE /\ store' = [store EXCEPT ![s].samples = @ \cup {t}]
             /\ measured' = [measured EXCEPT ![s] = @ \cup {t}]
    <3>1. Types'
      BY <2>1, <2>3 DEF FlowInv, Types
    <3>2. \A r \in Sugg : /\ store'[r].token = store[r].token /\ store[r].samples \subseteq store'[r].samples
                          /\ \A u \in measured'[r] : u \in measured[r] \/ u \in store'[r].samples
      BY <2>3 DEF FlowInv, Types
    <3>. QED
      BY <2>1, <3>1, <3>2 DEF FlowInv, Rooted, NoSampleLost, SessionRooted
  <2>. QED
    BY <1>3, <2>2, <2>3 DEF Measure
<1>4. ASSUME NEW s \in Sugg, DoneAddingSamples(s) PROVE FlowInv'
  <2>1. /\ store' = [store EXCEPT ![s].prepared = TRUE]
        /\ UNCHANGED <<measured, proc, tokenRows, clientRows, issued>>
    BY <1>4 DEF DoneAddingSamples
  <2>2. Types' /\ \A r \in Sugg : store'[r].token = store[r].token /\ store'[r].samples = store[r].samples
    BY <2>1 DEF FlowInv, Types
  <2>. QED
    BY <2>1, <2>2 DEF FlowInv, Rooted, NoSampleLost, SessionRooted
<1>5. ASSUME NEW p \in Call, SubmitSuggestion(p) \/ TokenLost(p) \/ TokenRefused(p) PROVE FlowInv'
    BY <1>5, GotoStep DEF SubmitSuggestion, TokenLost, TokenRefused, Stages
<1>6. ASSUME NEW p \in Call, NEW i \in BOOLEAN, NEW d \in BOOLEAN, SuggestionToken(p, i, d) PROVE FlowInv'
    BY <1>6, TokenStep
<1>7. ASSUME NEW p \in Call \cup Bg, CopySamples(p) PROVE FlowInv'
  <2> DEFINE s == store[SuggOf(p)]
             none == s.token = NoToken
             q == [pc |-> "send", token |-> s.token, failed |-> none, batch |-> IF none THEN {} ELSE s.samples]
  <2>1. proc' = [proc EXCEPT ![p] = q] /\ UNCHANGED <<measured, store, tokenRows, clientRows, issued>>
    BY <1>7 DEF CopySamples
  <2>2. SuggOf(p) \in Sugg /\ s \in [token : Nat, samples : SUBSET Type, prepared : BOOLEAN]
    BY Senders DEF FlowInv, Types
  <2>3. none \in BOOLEAN
    OBVIOUS
  <2>4. ~none => Rooted(s.token, SuggOf(p))
    BY <2>2 DEF FlowInv
  <2>5. q.batch # {} => Rooted(q.token, SuggOf(p))
    BY <2>4
  <2> HIDE DEF none
  <2>6. q \in Process
    BY <2>2, <2>3 DEF Process, Stages
  <2>. QED
    BY <2>1, <2>5, <2>6, ProcStep
<1>8. ASSUME NEW p \in Call \cup Bg, NEW t \in Type, SampleLost(p, t) PROVE FlowInv'
  <2>1. /\ t \in proc[p].batch /\ Sent(p, t, TRUE) /\ Removed(SuggOf(p), t, FALSE)
        /\ UNCHANGED <<measured, tokenRows, issued>>
        /\ clientRows' \in {clientRows, clientRows \cup {<<proc[p].token, t>>}}
    BY <1>8 DEF SampleLost
  <2>. QED
    BY <2>1, SampleStep
<1>9. ASSUME NEW p \in Call \cup Bg, NEW t \in Type, SampleServed(p, t) PROVE FlowInv'
  <2> DEFINE ok == Accepts(proc[p].token, SuggOf(p))
  <2>1. /\ t \in proc[p].batch /\ Sent(p, t, ~ok) /\ Removed(SuggOf(p), t, ok)
        /\ UNCHANGED <<measured, tokenRows, issued>>
        /\ clientRows' = IF ok THEN clientRows \cup {<<proc[p].token, t>>} ELSE clientRows
    BY <1>9 DEF SampleServed
  <2>2. CASE ok
    BY <2>1, <2>2, SampleStep DEF Sent, Removed
  <2>3. CASE ~ok
    BY <2>1, <2>3, SampleStep DEF Sent, Removed
  <2>. QED
    BY <2>2, <2>3
<1>10. ASSUME NEW p \in Call, Check(p) PROVE FlowInv'
  <2>1. UNCHANGED <<measured, store, tokenRows, clientRows, issued>>
    BY <1>10 DEF Check
  <2>2. CASE proc' = [proc EXCEPT ![p] = At("returned")]
    BY <2>1, <2>2, GotoStep DEF Goto, Stages
  <2>3. CASE proc' = [proc EXCEPT ![p] = At("returned"), ![BgOf(p)] = At("wait")]
    <3>1. At("returned") \in Process /\ At("wait") \in Process /\ At("returned").batch = {} /\ At("wait").batch = {}
      BY DEF At, Process, Stages, NoToken
    <3>2. \A r \in Call \cup Bg : proc'[r] \in {proc[r], At("returned"), At("wait")}
      BY <2>3, Senders DEF FlowInv, Types
    <3>3. Types'
      BY <2>1, <2>3, <3>1, Senders DEF FlowInv, Types
    <3>. QED
      BY <2>1, <3>1, <3>2, <3>3 DEF FlowInv, Rooted, NoSampleLost, SessionRooted
  <2>. QED
    BY <1>10, <2>2, <2>3 DEF Check
<1>11. ASSUME NEW b \in Bg, Tick(b) \/ GiveUp(b) \/ BgSent(b) PROVE FlowInv'
    BY <1>11, GotoStep DEF Tick, GiveUp, BgSent, AfterSend, Stages
<1>12. CASE Collect \/ Delete \/ Restart
    BY <1>1, <1>12 DEF Collect, Delete, Restart
<1>13. ASSUME NEW p \in Call \cup Bg, Send(p) \/ GiveUp(p) PROVE FlowInv'
    BY <1>7, <1>9, <1>10, <1>11, <1>13 DEF Send, Check, Tick, BgSent, GiveUp
<1>. QED
    BY <1>1, <1>2, <1>3, <1>4, <1>5, <1>6, <1>8, <1>12, <1>13
    DEF Next, Create, GetToken, Central, vars

\* Whatever is lost and however submissions overlap, a measured sample is in the client's
\* store or in central's table, under a session of its suggestion.
THEOREM NoSampleLostHolds == Spec => []NoSampleLost
BY FlowInit, FlowStep, PTL DEF Spec, FlowInv

\* Every sample of a client belongs to a session with a NewClientToken row, also when the
\* row could not be inserted, its answer was lost or central has restarted.
THEOREM SessionRootedHolds == Spec => []SessionRooted
BY FlowInit, FlowStep, PTL DEF Spec, FlowInv

=============================================================================
