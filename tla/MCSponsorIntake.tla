--------------------------- MODULE MCSponsorIntake ---------------------------
(* Instance of SponsorIntake for TLC.                                        *)
EXTENDS SponsorIntake, TLC

\* The pairs that meet in the thread's proposal, in the registry or in the
\* creation key, and the ones that only meet in the batch once each.
SomePairs == {<<"chat", "chat">>, <<"project", "project">>, <<"chat", "project">>,
              <<"slashProject", "slashProject">>, <<"command", "slash">>, <<"other", "chat">>,
              <<"mention", "command">>}
=============================================================================
