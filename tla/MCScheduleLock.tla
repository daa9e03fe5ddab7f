--------------------------- MODULE MCScheduleLock ---------------------------
EXTENDS ScheduleLock, TLC

(* The processes are interchangeable: the files hold a pid, and no code    *)
(* compares two of them but for equality.  Used for safety runs only.      *)
ProcSymmetry == Permutations(Proc)
=============================================================================
