---------------------------- MODULE MCOrgReplay ----------------------------
(* A ledger of four rows: one row twice under its key with another name,    *)
(* and two rows of a day whose items have one name.                         *)
EXTENDS OrgReplay

CONSTANTS a, b

Row(id, to, date, name) == [id |-> id, to |-> to, date |-> date, name |-> <<"item", name>>]

MCLedger == <<Row(1, a, 1, "x"), Row(1, a, 1, "z"), Row(2, a, 1, "x"), Row(3, b, 2, "y")>>

Fault(drop, late, dup) == [drop |-> drop, late |-> late, dup |-> dup, days |-> 1]
NoFaults == Fault({}, {}, {})
MCCommands ==
    {[faults |-> NoFaults, window |-> Whole, pristine |-> TRUE],
     [faults |-> NoFaults, window |-> [from |-> 2, to |-> 2], pristine |-> FALSE],
     [faults |-> Fault({2}, {1}, {3}), window |-> Whole, pristine |-> FALSE]}

Mode(commit, repair) == [commit |-> commit, repair |-> repair]
MCTickModes == {Mode(TRUE, FALSE), Mode(TRUE, TRUE)}

MCReports == {[grade |-> 1, seats |-> <<b>>]}
=============================================================================
