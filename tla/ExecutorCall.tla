----------------------------- MODULE ExecutorCall -----------------------------
(***************************************************************************)
(* One call of Executor.run(req, ctx) as every backend adapter holds it    *)
(* (src/executor/contract.ts): what the caller sees of it - the signal,    *)
(* the usage ticks, the session id, the settled result -, the child        *)
(* process behind it, and the loop all three adapters share: a first turn, *)
(* a second one without the wire schema when the backend rejects it, then  *)
(* repair turns until the reply validates or the attempts are used up.     *)
(*                                                                         *)
(* A usage record is one number, the tokens it counts.                     *)
(***************************************************************************)
EXTENDS Naturals, Sequences

CONSTANTS
    SchemaRetries,  \* bound on cfg.schemaRetries
    MaxTokens,      \* bound: tokens a backend spends in one call
    Pending,        \* run() has not settled
    NoUsage         \* a result without a usage

ASSUME ExecutorAssumption ==
    /\ SchemaRetries \in Nat
    /\ MaxTokens \in Nat
    /\ NoUsage \notin Nat
    /\ Pending \notin [ok : BOOLEAN, value : {"text", "object", "none", "rejection"},
                       usage : Nat \cup {NoUsage}]

VARIABLES
    backend,   \* the adapter that runs the call
    schema,    \* req.schema is present
    compiles,  \* ajv compiles the authored schema
    aborted,   \* ctx.signal.aborted
    spent,     \* tokens the backend really spent on the call
    ticked,    \* the usage of the last ctx.onUsage
    threads,   \* how often ctx.onThread was called
    result,    \* what run() resolved to, or Pending
    process,   \* the child process
    step,      \* the await the adapter stands at
    total,     \* total: the usage of the turns that are over
    retries,   \* cfg.schemaRetries
    attempt,   \* repair turns begun
    wire,      \* the next turn carries the wire schema
    outcome    \* the result decided, while the process is being closed

callVars == <<backend, schema, compiles, aborted, spent, ticked, threads, result,
              process, step, total, retries, attempt, wire,
              outcome>>

Backends == {"codex", "claude", "opencode"}
Processes == {"unborn", "running", "terminated", "killed", "gone"}

Results == [ok : BOOLEAN, value : {"text", "object", "none", "rejection"},
            usage : Nat \cup {NoUsage}]

(* { ok: false, error, usage } *)
Failed(usage) == [ok |-> FALSE, value |-> "none", usage |-> usage]

(* run() does not resolve: an exception leaves it. *)
Rejected == [ok |-> FALSE, value |-> "rejection", usage |-> NoUsage]

(* { ok: true, text | object, usage } *)
Succeeded(usage) ==
    [ok |-> TRUE, value |-> IF schema THEN "object" ELSE "text", usage |-> usage]

(* A signal sent to the process; one that is gone stays gone, and SIGTERM  *)
(* does not take a SIGKILL back.                                           *)
Signal(sig) ==
    IF process \in {"unborn", "gone"} \/ (sig = "SIGTERM" /\ process = "killed")
    THEN process
    ELSE IF sig = "SIGTERM" THEN "terminated" ELSE "killed"

(* The wire form of an authored schema is null when strictifyForWire       *)
(* cannot express it, so a call with a schema may have none.  A script may *)
(* pass any object as a schema, so it may not compile.                     *)
CallInit ==
    /\ schema \in BOOLEAN
    /\ compiles \in {c \in BOOLEAN : ~schema => c}
    /\ wire \in {w \in BOOLEAN : w => schema}
    /\ retries \in 0..SchemaRetries
    /\ ~schema => retries = 0
    /\ aborted = FALSE
    /\ spent = 0
    /\ ticked = 0
    /\ threads = 0
    /\ result = Pending
    /\ process = "unborn"
    /\ step = "start"
    /\ total = 0
    /\ attempt = 0
    /\ outcome = Pending

(* createValidator() throws on a schema that does not compile: before      *)
(* anything else of the call has happened, it has settled.                 *)
Uncompiled(r) ==
    /\ step = "start" /\ ~compiles
    /\ step' = "done"
    /\ result' = r
    /\ UNCHANGED <<aborted, spent, ticked, threads, process, total, attempt, wire,
                   outcome>>

(* Mutant: one repair attempt too many. *)
ReplyIsFinalOffByOne(valid) == ~schema \/ valid \/ attempt = retries + 1

(* What a completed reply leads to: the result, a repair turn, or the      *)
(* failure that carries the validation errors.  Whether the reply          *)
(* validates against the authored schema is up to the model behind the     *)
(* backend.                                                                *)
ReplyIsFinal(valid) == ~schema \/ valid \/ attempt = retries
ReplyResult(valid, usage) ==
    IF ~schema \/ valid THEN Succeeded(usage) ELSE Failed(usage)

CallTypeOK ==
    /\ backend \in Backends
    /\ schema \in BOOLEAN /\ compiles \in BOOLEAN
    /\ wire \in BOOLEAN /\ aborted \in BOOLEAN
    /\ spent \in 0..MaxTokens
    /\ ticked \in Nat /\ total \in Nat
    /\ threads \in Nat
    /\ result \in Results \cup {Pending}
    /\ outcome \in Results \cup {Pending}
    /\ process \in Processes
    /\ retries \in 0..SchemaRetries /\ attempt \in 0..retries
=============================================================================
