---------------------------- MODULE MCAuthSessions ----------------------------
EXTENDS AuthSessions, TLC

(* Threads only differ by name.                                             *)
Symmetry == Permutations(Threads)

(* The view of the run that does not ask about earlier runs of the server:  *)
(* no action and none of its properties reads forgotten and revived, which  *)
(* only record the past.                                                    *)
ThisRun == <<clock, row, serverVars, out, late, overdue, open, match>>
=============================================================================
