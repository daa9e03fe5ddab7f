----------------------------- MODULE MCHomeView -----------------------------
EXTENDS HomeView

(* Bound: at first the schedules' lines are in one order.                  *)
InOrder ==
    LET first == CHOOSE n \in Names : TRUE
    IN  \A i, j \in DOMAIN crontab.lines :
            crontab.lines[i] = first /\ crontab.lines[j] \in Names => i <= j

BoundedInit == Init /\ InOrder
BoundedSpec == BoundedInit /\ [][Next]_vars /\ Fairness
=============================================================================
