----------------------------- MODULE Semaphore -----------------------------
(***************************************************************************)
(* The FIFO counting semaphore that admits agent calls (class Semaphore of *)
(* src/runtime.ts): a pause gate, a permanent close, and waiters that an   *)
(* AbortSignal can withdraw.                                               *)
(*                                                                         *)
(* A call's promise is represented by acq: "waiting" while its resolver    *)
(* sits in the queue, "granted" once it was resolved true (the call owns a *)
(* slot until it releases it), "denied" once it was resolved false.        *)
(* Every action is one synchronous method call: JavaScript runs it to the  *)
(* end before anything else can touch the semaphore.                       *)
(***************************************************************************)
EXTENDS Integers, Sequences, FiniteSets

CONSTANTS
    Calls,  \* the calls that may ask for a slot
    Slots   \* the configured concurrency, options.concurrency

ASSUME CallsAssumption == IsFiniteSet(Calls)
ASSUME SlotsAssumption == Slots \in Int

VARIABLES
    available,  \* number of free slots
    paused,     \* the soft-pause gate
    closed,     \* set once by close(), never reset
    queue,      \* the calls whose promises are unresolved, oldest first
    acq         \* acq[c]: what c's acquire() promise stands at

semVars == <<available, paused, closed, queue, acq>>

(* The constructor never starts with fewer than one slot. *)
Capacity == IF Slots >= 1 THEN Slots ELSE 1

SemInit ==
    /\ available = Capacity
    /\ paused = FALSE
    /\ closed = FALSE
    /\ queue = <<>>
    /\ acq = [c \in Calls |-> "none"]

Lesser(a, b) == IF a <= b THEN a ELSE b

(* Mutants of flush(): the slot count is not looked at; the newest waiter  *)
(* is served first.                                                        *)
FlushUncounted(free, open, standing) ==
    LET k     == IF open THEN Len(queue) ELSE 0
        woken == {queue[i] : i \in 1..k}
    IN  /\ available' = free - k
        /\ queue' = SubSeq(queue, k + 1, Len(queue))
        /\ acq' = [c \in Calls |-> IF c \in woken THEN "granted"
                                                  ELSE standing[c]]

FlushNewest(free, open, standing) ==
    LET k     == IF open THEN Lesser(free, Len(queue)) ELSE 0
        stay  == Len(queue) - k
        woken == {queue[i] : i \in stay + 1..Len(queue)}
    IN  /\ available' = free - k
        /\ queue' = SubSeq(queue, 1, stay)
        /\ acq' = [c \in Calls |-> IF c \in woken THEN "granted"
                                                  ELSE standing[c]]

(* flush(): the loop hands slots to the oldest waiters while the gate is   *)
(* open and both last.  The caller passes the values it has just assigned. *)
Flush(free, open, standing) ==
    LET k     == IF open THEN Lesser(free, Len(queue)) ELSE 0
        woken == {queue[i] : i \in 1..k}
    IN  /\ available' = free - k
        /\ queue' = SubSeq(queue, k + 1, Len(queue))
        /\ acq' = [c \in Calls |-> IF c \in woken THEN "granted"
                                                  ELSE standing[c]]

(* acquire(): answered at once when closed or when a slot is free and the  *)
(* gate is open; otherwise the call joins the end of the queue.  (Its only *)
(* caller passes a signal it has just created, never an aborted one.)      *)
Acquire(c) ==
    /\ acq[c] = "none"
    /\ \/ /\ closed
          /\ acq' = [acq EXCEPT ![c] = "denied"]
          /\ UNCHANGED <<available, queue>>
       \/ /\ ~closed
          /\ ~paused
          /\ available > 0
          /\ available' = available - 1
          /\ acq' = [acq EXCEPT ![c] = "granted"]
          /\ UNCHANGED queue
       \/ /\ ~closed
          /\ paused \/ available = 0
          /\ queue' = Append(queue, c)
          /\ acq' = [acq EXCEPT ![c] = "waiting"]
          /\ UNCHANGED available
    /\ UNCHANGED <<paused, closed>>

(* The abort listener of a queued entry: withdraw it and resolve false.    *)
Withdraw(c) ==
    /\ acq[c] = "waiting"
    /\ \E i \in DOMAIN queue :
          /\ queue[i] = c
          /\ queue' = SubSeq(queue, 1, i - 1) \o SubSeq(queue, i + 1, Len(queue))
    /\ acq' = [acq EXCEPT ![c] = "denied"]
    /\ UNCHANGED <<available, paused, closed>>

(* release(), by a call that owns a slot. *)
Release(c) ==
    /\ acq[c] = "granted"
    /\ Flush(available + 1, ~paused /\ ~closed, [acq EXCEPT ![c] = "none"])
    /\ UNCHANGED <<paused, closed>>

(* A call that was denied has nothing to give back. *)
Leave(c) ==
    /\ acq[c] = "denied"
    /\ acq' = [acq EXCEPT ![c] = "none"]
    /\ UNCHANGED <<available, paused, closed, queue>>

Pause ==
    /\ paused' = TRUE
    /\ UNCHANGED <<available, closed, queue, acq>>

Resume ==
    /\ paused' = FALSE
    /\ Flush(available, ~closed, acq)
    /\ UNCHANGED closed

(* close(): every waiter is resolved false and none will ever be granted.  *)
Close ==
    /\ closed' = TRUE
    /\ queue' = <<>>
    /\ acq' = [c \in Calls |-> IF acq[c] = "waiting" THEN "denied"
                                                      ELSE acq[c]]
    /\ UNCHANGED <<available, paused>>

SemNext ==
    \/ \E c \in Calls : Acquire(c) \/ Withdraw(c) \/ Release(c) \/ Leave(c)
    \/ Pause
    \/ Resume
    \/ Close

SemSpec == SemInit /\ [][SemNext]_semVars

-----------------------------------------------------------------------------
SemTypeOK ==
    /\ available \in Nat
    /\ paused \in BOOLEAN
    /\ closed \in BOOLEAN
    /\ queue \in Seq(Calls)
    /\ acq \in [Calls -> {"none", "waiting", "granted", "denied"}]

Owners == {c \in Calls : acq[c] = "granted"}

(* The queue holds exactly the calls whose promise is pending, each once:  *)
(* no promise is forgotten (it would hang its agent for ever) and none is  *)
(* resolved while it still stands in line.  A closed line is empty.        *)
QueueHoldsPending ==
    /\ closed => queue = <<>>
    /\ \A i, j \in DOMAIN queue : queue[i] = queue[j] => i = j
    /\ \A c \in Calls :
          acq[c] = "waiting" <=> \E i \in DOMAIN queue : queue[i] = c

(* Every slot is either free or owned by exactly one call, through grants, *)
(* aborts, close and release in any order: release() never over-grants and *)
(* no path forgets its slot.                                               *)
SlotsConserved == available + Cardinality(Owners) = Capacity

(* A free slot never lies idle beside a waiting call unless the gate is    *)
(* shut: every operation that frees a slot or opens the gate flushes.      *)
NoLostWakeup == queue # <<>> => paused \/ available = 0

SemInv ==
    /\ SemTypeOK
    /\ QueueHoldsPending
    /\ SlotsConserved
    /\ NoLostWakeup

(* First come, first served: a step that grants a call, a waiter or a late *)
(* arrival, leaves nobody waiting who was in line before it.               *)
NoOvertaking ==
    [][\A i \in DOMAIN queue :
          (\E c \in Owners' \ Owners : \A j \in 1..i : queue[j] # c)
             => acq'[queue[i]] # "waiting"]_semVars

(* While the gate stays shut, and after close, nothing is granted.         *)
GateHolds ==
    [][(paused /\ paused') \/ closed => Owners' \subseteq Owners]_semVars
=============================================================================
