------------------------------ MODULE EmailTurns ------------------------------
(***************************************************************************)
(* The turns of the Brain, and the email skills that they run (module      *)
(* Mail), one at a time or together.  Turns says who may run a skill and   *)
(* when it is confirmed, Mail what the skills do to a mailbox: the two     *)
(* share no state.                                                         *)
(***************************************************************************)
EXTENDS Turns

CONSTANTS
    Mails, Workers, Limit, MaxFailures,   \* of Mail
    Contacts,                             \* Mail's Rosters
    MailTurns                             \* Mail's MaxTurns

VARIABLES
    box, triage, pending, worker, made, failures, flagged, heard, said,
    contacts,          \* Mail's roster
    mailDisturbed      \* Mail's disturbed

M == INSTANCE Mail WITH MaxTurns <- MailTurns, disturbed <- mailDisturbed,
                        roster <- contacts, Rosters <- Contacts

mailVars == <<box, triage, pending, contacts, worker, made, failures, flagged, heard, said,
              mailDisturbed>>

\* Archiving loses nothing wherever it stops, "archive it" is about the message that was
\* read out last, and an email goes to the address that was said (module Mail).
MailIsAsHeard == M!NothingVanishes /\ M!ItIsWhatWasRead /\ M!SentWhereSaid
===============================================================================
