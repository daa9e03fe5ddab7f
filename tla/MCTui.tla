------------------------------- MODULE MCTui -------------------------------
(* A run of two agents, the first in no phase and the second in a phase    *)
(* that is not declared, each tier of one agent; an organisation of a root,*)
(* a group and an entity in it.                                            *)
EXTENDS Tui

DeclaredPhases == <<"p">>
AgentPhases    == <<{NoPhase}, {"q"}>>

Organisation == <<"root", "group", "entity">>
ParentOf     == [group |-> "root", entity |-> "group"]
Calm    == [severity |-> 0, inbox |-> 0, tickets |-> 0, overdue |-> 0]
AtFirst == Calm
Amounts == {Calm, [Calm EXCEPT !.overdue = 1], [Calm EXCEPT !.severity = 2, !.inbox = 1]}
=============================================================================
