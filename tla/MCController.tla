---------------------------- MODULE MCController -----------------------------
(* Values for TLC.  Two workers, and as many clicks as let each be superseded *)
(* and stopped at every place; the liveness runs take one worker with         *)
(* everything around it, and two workers with nobody else at the helper lock  *)
(* and no end of the program.                                                 *)
EXTENDS Controller, TLC

CONSTANTS t1, t2
OneTask == {t1}
TwoTasks == {t1, t2}

TaskSymmetry == Permutations(Task)

\* The workers alone, with the user who starts and stops them.
WorkersOnly == Init /\ [][Next /\ UNCHANGED otherVars]_vars /\ Fairness

=============================================================================
