----------------------------- MODULE MCLifecycle -----------------------------
(* Two commands of any kind and one crash, with up to four processes alive   *)
(* or still named by a file: enough for a daemon that is stopped while the   *)
(* unit's and another one start, the race for an unlinked lock included.     *)
(* No call comes meanwhile: one call, nobody in the roster, no DND.          *)
EXTENDS DaemonProcess

MCContacts == {}
MCRule == [c \in MCContacts |-> "ignore"]

MCInit == Init /\ ~dnd /\ L!Init
MCNext == L!Next /\ UNCHANGED vars
MCSpec == MCInit /\ [][MCNext]_<<vars, lifecycle>> /\ L!Fairness
=============================================================================
