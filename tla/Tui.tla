-------------------------------- MODULE Tui --------------------------------
(* The TUI (src/tui/index.tsx) has one view on the screen at a time: that  *)
(* of a run, or the home view, of which this is the Org tab (HomeView has  *)
(* the others).  From either one gets to the other by keys; the view that  *)
(* is left is unmounted, which is mode "away" of the one and the tab       *)
(* "other" of the other, so that what a view does can be followed without  *)
(* what happens between its visits.                                        *)
EXTENDS RunScreen, OrgScreen

VARIABLE route

tuiVars == <<route, runVars, orgVars>>

TuiInit ==
    /\ route \in {"run", "home"}
    /\ RunInit /\ OrgInit

OfRun(A) == route = "run" /\ A /\ UNCHANGED <<route, orgVars>>
OfOrg(A) == route = "home" /\ A /\ UNCHANGED <<route, runVars>>

TuiNext == OfRun(RunScreenNext) \/ OfOrg(OrgScreenNext)

(* Timers fire, and calls that have begun return: while one of these steps *)
(* is possible, one of them is taken.  Nothing is asked of the runner, of  *)
(* the agents or of the user.                                              *)
TuiWorks == OfRun(Flush \/ CheckRunner \/ GracePasses) \/ OfOrg((ScreenReads \/ OtherWrites) /\ Sees)

TuiSpec == TuiInit /\ [][TuiNext]_tuiVars /\ WF_tuiVars(TuiWorks)
-----------------------------------------------------------------------------
(* What every state of a screen satisfies: what a run screen adds up is    *)
(* what the run is, what is selected is on the screen and in the tree, and *)
(* the last of the keys that pause and resume is obeyed.                   *)
TuiInv ==
    /\ RunTypeOK /\ TokensAddUp /\ PhasesAddUp /\ SelectionOnScreen /\ LastToggleWins
    /\ OrgTypeOK /\ TreeSound

(* Both screens come to show what is there: useJournalState() and the      *)
(* check of the runner in src/tui/RunView.tsx, refreshOrgSnapshot() in     *)
(* src/tui/orgFiles.ts.                                                    *)
ScreensSettle == RunScreenSettles /\ OrgScreenSettles
=============================================================================
