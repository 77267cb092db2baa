---------------------------- MODULE MCEventOutbox ----------------------------
(* Instance of EventOutbox for TLC.                                          *)
EXTENDS EventOutbox, TLC

\* Rows 1 and 2 in one thread and the rest in another.
TwoThreads(r) == IF r <= 2 THEN 1 ELSE 2
TwoCrews == {{"second", "lost", "level"}, {"lost", "refused", "slow"}}
=============================================================================
