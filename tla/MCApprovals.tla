------------------------------- MODULE MCApprovals -------------------------------
(* Approvals for TLC: a command whose pattern (its first word) matches it and an   *)
(* installation of the same program, a call without a pattern, as of the restart  *)
(* tool, and a note in the memory files.                                          *)
EXTENDS Approvals

CONSTANTS Pip, Install, Restarting, Noting

MCMatches == {<<Pip, Pip>>, <<Pip, Install>>}

\* Every pair of a command with a pattern and one without, and the two exceptions
\* before, after and instead of a call that is asked about.
MCBatch ==
    {<<Pip>>, <<Restarting>>, <<Pip, Pip>>, <<Pip, Restarting>>, <<Restarting, Pip>>,
     <<Restarting, Install>>, <<Install, Pip>>, <<Noting, Restarting>>}
================================================================================
