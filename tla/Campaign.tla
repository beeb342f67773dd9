------------------------------- MODULE Campaign -------------------------------
(***************************************************************************)
(* What fuzz() of fuzzer/fuzzer.go promises, whatever Rec does inside an    *)
(* attempt: every corner case is tried once, then attempts follow, at most  *)
(* Limit of them; an attempt may report findings; a custom property fails   *)
(* only in an attempt of the main loop, and nothing is tried after it.      *)
(***************************************************************************)
EXTENDS Integers

CONSTANTS Cases,     \* the corner cases
          Limit,     \* the flag --limit
          Findings,  \* what can be reported
          Fatal      \* the failures of custom properties among them

VARIABLES phase,     \* "corner", "main" or "over"
          open,      \* an attempt is under way
          cases,     \* the corner cases still to try
          attempts,  \* the attempts of the main loop begun
          reports    \* the findings reported
campaignVars == <<phase, open, cases, attempts, reports>>

Failed == reports \cap Fatal # {}

CampaignInit == /\ phase = "corner" /\ open = FALSE
                /\ cases = Cases /\ attempts = 0 /\ reports = {}

TryCorner == /\ phase = "corner" /\ ~open
             /\ \E c \in cases : cases' = cases \ {c}
             /\ open' = TRUE
             /\ UNCHANGED <<phase, attempts, reports>>

BeginMain == /\ phase = "corner" /\ ~open /\ cases = {}
             /\ phase' = "main"
             /\ UNCHANGED <<open, cases, attempts, reports>>

Try == /\ phase = "main" /\ ~open /\ ~Failed /\ attempts < Limit
       /\ attempts' = attempts + 1
       /\ open' = TRUE
       /\ UNCHANGED <<phase, cases, reports>>

\* The attempt under way reports and goes on, or comes to its end.
Report == /\ open /\ ~Failed
          /\ \E R \in SUBSET (Findings \ Fatal) : reports' = reports \cup R
          /\ open' \in BOOLEAN
          /\ UNCHANGED <<phase, cases, attempts>>

\* The failure of a custom property ends the attempt.
Fail == /\ phase = "main" /\ open /\ ~Failed
        /\ \E R \in SUBSET Findings : R \cap Fatal # {} /\ reports' = reports \cup R
        /\ open' = FALSE
        /\ UNCHANGED <<phase, cases, attempts>>

Finish == /\ phase = "main" /\ ~open
          /\ phase' = "over"
          /\ UNCHANGED <<open, cases, attempts, reports>>

CampaignNext == TryCorner \/ BeginMain \/ Try \/ Report \/ Fail \/ Finish

CampaignSpec == CampaignInit /\ [][CampaignNext]_campaignVars
===============================================================================
