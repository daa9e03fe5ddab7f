------------------------------ MODULE MCRunLife ------------------------------
(* Two commands beside one runner.  The pairs whose steps touch: ls takes  *)
(* the pid file away, kill ends the runner and writes the control file.    *)
EXTENDS RunLife, TLC

MCKinds == 1 :> {"ls", "kill"} @@ 2 :> {"show", "watch", "pause"}
=============================================================================
