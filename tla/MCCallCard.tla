---------------------------- MODULE MCCallCard ----------------------------
(* Two calls in a row, two consoles, two disclosure commands in all.  Which *)
(* session comes first makes no difference.                                 *)
EXTENDS CallCard

CONSTANTS s1, s2    \* the sessions

MCNext == Next /\ (card[s1].state = "none" => card'[s2].state = "none")

MCSpec == Init /\ [][MCNext]_vars /\ Fairness
============================================================================
