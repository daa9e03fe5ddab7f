----------------------------- MODULE AgentCalls -----------------------------
(***************************************************************************)
(* What a workflow script, the journal and the budget are promised about   *)
(* agent() calls, whatever happens inside the runner: the abstract         *)
(* specification AgentRuntime implements.                                  *)
(*                                                                         *)
(* A call gets the next ordinal.  It may throw, and then it leaves no      *)
(* trace in the journal; or it is journaled with one start and one end,    *)
(* and the script receives the agent's value exactly when that end says    *)
(* ok, and null otherwise.  Tokens are charged to a call only while it is  *)
(* pending.  It ends with the usage its executor answered with, be it less *)
(* than what was told before, or else with the last that was told, and     *)
(* this is not changed any more.  Nothing is journaled once the run is     *)
(* over.                                                                   *)
(***************************************************************************)
EXTENDS Integers

CONSTANTS
    Ordinals,  \* the ordinals calls get: an initial segment of 1, 2, ...
    Tokens,    \* the amounts of output tokens a call may be charged
    Untold     \* an answer without a usage, or no answer

VARIABLES
    promise,  \* promise[n]: what the script sees of call n
    log,      \* log[n]: the last of call n's events in the journal
    charge,   \* charge[n]: output tokens charged to call n
    answer,   \* answer[n]: the usage in the executor's answer
    over      \* run_end is journaled

contractVars == <<promise, log, charge, answer, over>>

ContractInit ==
    /\ promise = [n \in Ordinals |-> "uncalled"]
    /\ log = [n \in Ordinals |-> "none"]
    /\ charge = [n \in Ordinals |-> 0]
    /\ answer = [n \in Ordinals |-> Untold]
    /\ over = FALSE

NextOrdinal(n) == \A m \in Ordinals : promise[m] = "uncalled" <=> m >= n

Invoke(n) ==
    /\ NextOrdinal(n)
    /\ promise' = [promise EXCEPT ![n] = "pending"]
    /\ UNCHANGED <<log, charge, answer>>

Throw(n) ==
    /\ \/ NextOrdinal(n)
       \/ promise[n] = "pending" /\ log[n] = "none"
    /\ promise' = [promise EXCEPT ![n] = "throw"]
    /\ UNCHANGED <<log, charge, answer>>

Start(n) ==
    /\ promise[n] = "pending" /\ log[n] = "none"
    /\ log' = [log EXCEPT ![n] = "started"]
    /\ UNCHANGED <<promise, charge, answer>>

Open(n) == promise[n] = "pending" /\ log[n] = "started"

(* The executor tells its usage while it runs. *)
Charge(n) ==
    /\ Open(n) /\ answer[n] = Untold
    /\ \E u \in Tokens : charge' = [charge EXCEPT ![n] = u]
    /\ UNCHANGED <<promise, log, answer>>

(* Its answer tells a usage; the end may have to wait. *)
Tell(n) ==
    /\ answer[n] = Untold
    /\ \E u \in Tokens : answer' = [answer EXCEPT ![n] = u]

Answer(n) == Open(n) /\ Tell(n) /\ UNCHANGED <<promise, log, charge>>

(* The end settles what the call is charged: once it was started, by the   *)
(* answer, which may come with it.                                         *)
Settled(n) ==
    IF log[n] = "started"
    THEN /\ answer' = answer \/ Tell(n)
         /\ charge' = IF answer'[n] = Untold THEN charge
                      ELSE [charge EXCEPT ![n] = answer'[n]]
    ELSE UNCHANGED <<charge, answer>>

Finish(n) ==
    /\ promise[n] = "pending"
    /\ \/ /\ log[n] = "started"
          /\ log' = [log EXCEPT ![n] = "ok"]
          /\ promise' = [promise EXCEPT ![n] = "value"]
       \/ /\ log[n] \in {"none", "started"}
          /\ \E s \in {"failed", "skipped"} : log' = [log EXCEPT ![n] = s]
          /\ promise' = [promise EXCEPT ![n] = "null"]
    /\ Settled(n)

RunOver == over' = TRUE /\ UNCHANGED <<promise, log, charge, answer>>

ContractNext ==
    /\ ~over
    /\ \/ /\ \E n \in Ordinals :
                \/ Invoke(n) \/ Throw(n) \/ Start(n)
                \/ Charge(n) \/ Answer(n) \/ Finish(n)
          /\ over' = over
       \/ RunOver

Contract == ContractInit /\ [][ContractNext]_contractVars
=============================================================================
