--------------------------- MODULE ExecutorContract ---------------------------
(***************************************************************************)
(* What docs/executor-contract.md promises of one call of run(), as the    *)
(* caller observes it (sections 2.1 to 2.4): it settles once and never     *)
(* rejects, unless it is a call that mayReject excuses; it has one result  *)
(* shape; usage ticks are cumulative and monotonic; the session id is      *)
(* announced at most once; no callback comes after settlement; and a       *)
(* settled call has at least signalled the process it started.             *)
(***************************************************************************)
EXTENDS Naturals

CONSTANTS Pending, NoUsage

VARIABLES
    schema, aborted, ticked, threads, result, process,
    mayReject  \* a call that is excused from the promise not to reject

contractVars == <<schema, aborted, ticked, threads, result, process>>

(* run() is called with a signal that has not fired. *)
ContractInit ==
    /\ schema \in BOOLEAN
    /\ aborted = FALSE
    /\ ticked = 0
    /\ threads = 0
    /\ result = Pending
    /\ process = "unborn"

(* ctx.onUsage and ctx.onThread: cumulative ticks, and once. *)
Callbacks ==
    /\ ticked' >= ticked
    /\ threads' = threads \/ (threads = 0 /\ threads' = 1)

(* ok:true comes with exactly one of text and object, the one the request  *)
(* asked for.                                                              *)
Settle ==
    \/ result'.ok = FALSE /\ result'.value = "none"
    \/ /\ result'.ok = TRUE
       /\ result'.value = (IF schema THEN "object" ELSE "text")
    \/ mayReject /\ result'.ok = FALSE /\ result'.value = "rejection"

(* A step of an open call: callbacks, the signal, the process, and it may  *)
(* settle the call.                                                        *)
Proceed ==
    /\ result = Pending
    /\ UNCHANGED schema
    /\ aborted => aborted'
    /\ Callbacks
    /\ \/ result' = Pending
       \/ Settle /\ process' # "running"

(* After settlement only the process that was told to end does. *)
Afterwards ==
    /\ result # Pending
    /\ process' = "gone"
    /\ UNCHANGED <<schema, aborted, ticked, threads, result>>

ContractSpec == ContractInit /\ [][Proceed \/ Afterwards]_contractVars
=============================================================================
