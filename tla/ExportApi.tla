------------------------------ MODULE ExportApi ------------------------------
(***************************************************************************)
(* The export API of central (central/export-api.go): the login of its     *)
(* users (central/db/apicredentials.go), the tokens of the middleware      *)
(* (shared/jwtmw) and the pages of a table, read from the newest row down  *)
(* (central/db/postgres.go) while rows are added.  One user exports one    *)
(* table; the three tables have the same query.                            *)
(***************************************************************************)
EXTENDS Naturals, Sequences, FiniteSets

CONSTANTS
    PageLength,
    MaxID,       \* bound: ids of rows are 1..MaxID
    Timeout, MaxRefresh,  \* of the tokens, in ticks
    MaxNow       \* bound

NoToken == [exp |-> 0, orig_iat |-> 0, born |-> 0]

VARIABLES
    rows,     \* ids of committed rows
    damaged,  \* rows that do not scan
    enabled,  \* the user is enabled in export_api_auth
    now,
    token,    \* the user's token: exp and orig_iat, and (history) the time of its login
    oldest,   \* history: greatest age of a login at which a request was served
    atStart,  \* history: rows when the export started
    export,   \* "off", "reading", "done", "panicked"
    idMax,    \* id_max of the next page: 0 for the first one
    pages,    \* what has been exported: a sequence of ids
    broken    \* history: a page came without a link although there were rows past it

evars == <<rows, damaged, enabled, now, token, oldest, atStart, export, idMax, pages, broken>>

EInit ==
    /\ rows = {} /\ damaged = {} /\ enabled = TRUE /\ now = 1 /\ token = NoToken /\ oldest = 0
    /\ atStart = {} /\ export = "off" /\ idMax = 0 /\ pages = <<>> /\ broken = FALSE

Range(s) == {s[i] : i \in DOMAIN s}

TableOnly == UNCHANGED <<enabled, now, token, oldest, atStart, export, idMax, pages, broken>>
UserOnly  == UNCHANGED <<rows, damaged, atStart, export, idMax, pages, broken>>

-----------------------------------------------------------------------------
(* The table.  Ids are given in order, but transactions commit in any. *)

InsertRow(i) ==
    /\ export # "done" /\ i \notin rows /\ rows' = rows \cup {i}
    /\ \/ UNCHANGED damaged
       \/ damaged' = damaged \cup {i}
    /\ TableOnly

-----------------------------------------------------------------------------
(* Tokens *)

Tick == now < MaxNow /\ now' = now + 1 /\ UNCHANGED <<enabled, token, oldest>> /\ UserOnly

\* insertExportAPIAuth and an operator: users are added and disabled.
Disable == enabled /\ enabled' = FALSE /\ UNCHANGED <<now, token, oldest>> /\ UserOnly

\* IsValid: the password is checked only for an enabled user.
IsValid(password) == enabled /\ password = "right"

\* LoginHandler.
LoginHandler(password) ==
    /\ IsValid(password)
    /\ token' = [exp |-> now + Timeout, orig_iat |-> now, born |-> now]
    /\ UNCHANGED <<enabled, now, oldest>> /\ UserOnly

\* parseToken: a token is good up to and including the second it expires in.
parseToken == token # NoToken /\ now <= token.exp

Age == now - token.born
Older == IF Age > oldest THEN Age ELSE oldest

\* Fault variant of RefreshHandler: the new token counts as a login.
RefreshAnew ==
    /\ parseToken /\ token.orig_iat + MaxRefresh >= now
    /\ token' = [token EXCEPT !.exp = now + Timeout, !.orig_iat = now]
    /\ oldest' = Older /\ UNCHANGED <<enabled, now>> /\ UserOnly

\* RefreshHandler of the middleware (the export API has no route to it).
RefreshHandler ==
    /\ parseToken /\ token.orig_iat + MaxRefresh >= now
    /\ token' = [token EXCEPT !.exp = now + Timeout]
    /\ oldest' = Older /\ UNCHANGED <<enabled, now>> /\ UserOnly

-----------------------------------------------------------------------------
(* Pages *)

StartExport ==
    /\ export = "off" /\ export' = "reading" /\ atStart' = rows
    /\ UNCHANGED <<rows, damaged, enabled, now, token, oldest, idMax, pages, broken>>

\* The rows of the query in descending order, one more than a page has.
Candidates == {i \in rows : idMax = 0 \/ i < idMax}
Nth(n)     == {i \in Candidates : Cardinality({j \in Candidates : j > i}) = n - 1}
Found(k)   == UNION {Nth(n) : n \in 1..k}
LookAhead  == Nth(PageLength + 1)

\* The page of the first k rows: rows that do not scan are left out.
Read(k) == LET good == Found(k) \ damaged IN
           [n \in 1..Cardinality(good) |->
               CHOOSE i \in good : Cardinality({j \in good : j > i}) = n - 1]
Page    == Read(PageLength)

\* Fault variant of NextLink: the link names the row past the page.
NextLinkPast == LookAhead \ damaged

\* lh.Next: the last row of the page, if there is a row past it that scans.
NextLink == IF LookAhead \ damaged = {} THEN {}
            ELSE IF Page = <<>> THEN {0} ELSE {Page[Len(Page)]}

\* GetBlockedHostsExport and its two siblings behind middlewareImpl.  A page without a
\* row before a link is an index out of range.
GetExport ==
    /\ export = "reading" /\ parseToken /\ oldest' = Older
    /\ broken' = (broken \/ LookAhead \cap damaged # {})
    /\ CASE NextLink = {0} -> export' = "panicked" /\ UNCHANGED <<idMax, pages>>
         [] NextLink = {} -> export' = "done" /\ pages' = pages \o Page /\ UNCHANGED idMax
         [] OTHER -> /\ idMax' = CHOOSE i \in NextLink : TRUE
                     /\ pages' = pages \o Page /\ UNCHANGED export
    /\ UNCHANGED <<rows, damaged, enabled, now, token, atStart>>

\* A query that fails (k = 0; its error is overwritten), or whose rows break off after k of
\* them (nothing looks at rows.Err): what has been read is the page, and the last one.
GetExportFails(k) ==
    /\ export = "reading" /\ parseToken /\ oldest' = Older /\ export' = "done"
    /\ pages' = pages \o Read(k) /\ broken' = (broken \/ Nth(k + 1) # {})
    /\ UNCHANGED <<rows, damaged, enabled, now, token, atStart, idMax>>

ENext ==
    \/ \E i \in 1..MaxID : InsertRow(i)
    \/ Tick \/ Disable \/ (\E pw \in {"right", "wrong"} : LoginHandler(pw)) \/ RefreshHandler
    \/ StartExport \/ GetExport \/ \E k \in 0..PageLength : GetExportFails(k)

-----------------------------------------------------------------------------
\* What an export has is without gaps: no row twice, newest first, and every row above the
\* last one it has that was there when it started and scans, whatever is inserted meanwhile,
\* whatever fails and however often the user has to log in again.  Only its end can be
\* missing, and nobody is told: an export that has followed the links to the end has every
\* such row unless a page came without a link although there were rows past it, because its
\* query failed (export-api.go:79 overwrites the error), its rows broke off, or the row
\* past the page did not scan.
PagesComplete ==
    /\ \A n \in 2..Len(pages) : pages[n] < pages[n - 1]
    /\ \A n \in DOMAIN pages : {i \in atStart \ damaged : i >= pages[n]} \subseteq Range(pages)
    /\ export = "done" /\ ~broken => atStart \ damaged \subseteq Range(pages)

\* No request is served longer than MaxRefresh + Timeout after the login it goes back to,
\* however often the token was refreshed.
LoginFades == oldest <= MaxRefresh + Timeout

=============================================================================
