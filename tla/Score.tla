-------------------------------- MODULE Score --------------------------------
(***************************************************************************)
(* The score of a session (pkg/central/analysis/score.go), in tenths where *)
(* the source has decimals.  A header measurement is a record: status (0   *)
(* when the request failed), error (empty or not) and redirects (a count). *)
(***************************************************************************)
EXTENDS Naturals

scoreStatusCode(client, central) ==
    IF central < 400 /\ client > 400 THEN 10
    ELSE IF client # central THEN 7
    ELSE 5

scoreError(client, central) == IF central = "" /\ client # "" THEN 10 ELSE 5

scoreRedirects(client, central) == IF client = central THEN 5 ELSE 6

\* HTTPHeaderScore.Score times 80: halving three times from 1.0 weighs the status code
\* once, the error twice and the redirects four times.
Score80(client, central) ==
    10 + scoreStatusCode(client.status, central.status)
       + 2 * scoreError(client.error, central.error)
       + 4 * scoreRedirects(client.redirects, central.redirects)

\* score.Score() >= 0.5
Publishes(client, central) == Score80(client, central) >= 40
=============================================================================
