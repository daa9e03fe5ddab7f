------------------------ MODULE AgentRuntime_proofs ------------------------
(***************************************************************************)
(* The semaphore's invariant, that the runtime uses the semaphore only     *)
(* through its operations, and the invariants of a run, for any number of  *)
(* agent calls, slots, tokens and control commands.                        *)
(***************************************************************************)
EXTENDS AgentRuntime, FiniteSetTheorems, SequenceTheorems, TLAPS

(* The semaphore, whoever its callers are.                                 *)
Standing == {"none", "waiting", "granted", "denied"}

(* There is always at least one slot. *)
LEMMA CapacityPositive == Capacity \in Nat \ {0}
  BY SlotsAssumption DEF Capacity

(* The lesser of two numbers is one of them and bounded by both. *)
LEMMA LesserFacts ==
  ASSUME NEW a \in Nat, NEW b \in Nat
  PROVE  /\ Lesser(a, b) \in 0..b
         /\ Lesser(a, b) <= a
         /\ Lesser(a, b) # b => Lesser(a, b) = a
  BY DEF Lesser

(* The length of a suffix, as SubSeqProperties gives it. *)
LEMMA SuffixLength ==
  ASSUME NEW l \in Nat, NEW k \in 0..l
  PROVE  (IF k + 1 <= l THEN l - (k + 1) + 1 ELSE 0) = l - k
  OBVIOUS

(* Sets of owners are finite. *)
LEMMA OwnersFinite ==
  ASSUME NEW f
  PROVE  /\ IsFiniteSet({c \in Calls : f[c] = "granted"})
         /\ Cardinality({c \in Calls : f[c] = "granted"}) \in Nat
  BY CallsAssumption, FS_Subset, FS_CardinalityType

(* The first k entries of a queue without duplicates are k calls.          *)
LEMMA PrefixCardinality ==
  ASSUME SemTypeOK, QueueHoldsPending, NEW k \in 0..Len(queue)
  PROVE  /\ IsFiniteSet({queue[i] : i \in 1..k})
         /\ Cardinality({queue[i] : i \in 1..k}) = k
  <1> DEFINE W == {queue[i] : i \in 1..k}
             f == [i \in 1..k |-> queue[i]]
  <1>1. Len(queue) \in Nat /\ DOMAIN queue = 1..Len(queue)
    BY LenProperties DEF SemTypeOK
  <1>2. k \in Nat
    BY <1>1
  <1>3. f \in Bijection(1..k, W)
    <2>1. \A i, j \in 1..k : f[i] = f[j] => i = j
      BY <1>1 DEF QueueHoldsPending
    <2>2. f \in [1..k -> W]
      OBVIOUS
    <2>3. \A w \in W : \E i \in 1..k : f[i] = w
      OBVIOUS
    <2>4. QED
      BY <2>1, <2>2, <2>3 DEF Bijection, Injection, Surjection, IsInjective
  <1>4. ExistsBijection(1..k, W)
    BY <1>3 DEF ExistsBijection
  <1>5. IsFiniteSet(W)
    BY <1>2, <1>4, FS_NatBijection
  <1>6. QED
    BY <1>2, <1>4, <1>5, FS_CountingElements

(* flush() keeps the queue in step with the pending promises, conserves    *)
(* the slots it is handed, and with an open gate leaves no slot idle       *)
(* beside a waiter.                                                        *)
LEMMA FlushKeeps ==
  ASSUME SemTypeOK, QueueHoldsPending,
         NEW free \in Nat, NEW open \in BOOLEAN,
         NEW standing \in [Calls -> Standing],
         \A c \in Calls : standing[c] = "waiting" <=> acq[c] = "waiting",
         closed' = closed,
         Flush(free, open, standing)
  PROVE  /\ available' \in Nat
         /\ queue' \in Seq(Calls)
         /\ acq' \in [Calls -> Standing]
         /\ QueueHoldsPending'
         /\ available' + Cardinality(Owners')
              = free + Cardinality({c \in Calls : standing[c] = "granted"})
         /\ open /\ queue' # <<>> => available' = 0
  <1> DEFINE k == IF open THEN Lesser(free, Len(queue)) ELSE 0
             W == {queue[i] : i \in 1..k}
             G == {c \in Calls : standing[c] = "granted"}
  <1>1. /\ Len(queue) \in Nat
        /\ DOMAIN queue = 1..Len(queue)
        /\ \A i \in 1..Len(queue) : queue[i] \in Calls
    BY LenProperties, ElementOfSeq DEF SemTypeOK
  <1>2. k \in 0..Len(queue) /\ k <= free /\ k \in Nat
    BY <1>1 DEF Lesser
  <1>3. /\ available' = free - k
        /\ queue' = SubSeq(queue, k + 1, Len(queue))
        /\ acq' = [c \in Calls |-> IF c \in W THEN "granted" ELSE standing[c]]
    BY Zenon DEF Flush
  <1>4. available' \in Nat
    BY <1>2, <1>3
  <1>5. /\ queue' \in Seq(Calls)
        /\ Len(queue') = Len(queue) - k
        /\ \A i \in 1..Len(queue) - k : queue'[i] = queue[k + i]
    <2>1. \A i \in k + 1..Len(queue) : queue[i] \in Calls
      BY <1>1, <1>2
    <2> DEFINE q == SubSeq(queue, k + 1, Len(queue))
    <2>2. /\ q \in Seq(Calls)
          /\ Len(q) = IF k + 1 <= Len(queue) THEN Len(queue) - (k + 1) + 1 ELSE 0
          /\ \A i \in 1..Len(queue) - (k + 1) + 1 : q[i] = queue[k + 1 + i - 1]
      BY <1>1, <1>2, <2>1, SubSeqProperties
    <2>3. queue' = q
      BY <1>3
    <2> HIDE DEF q, k, W, G
    <2>4. Len(q) = Len(queue) - k
      <3>1. (IF k + 1 <= Len(queue) THEN Len(queue) - (k + 1) + 1 ELSE 0)
              = Len(queue) - k
        BY <1>1, <1>2, SuffixLength
      <3>2. QED
        BY <2>2, <3>1
    <2>5. ASSUME NEW i \in 1..Len(queue) - k
          PROVE  q[i] = queue[k + i]
      <3>1. i \in 1..Len(queue) - (k + 1) + 1
        BY <1>1, <1>2
      <3>2. q[i] = queue[k + 1 + i - 1]
        BY <2>2, <3>1
      <3>3. k + 1 + i - 1 = k + i
        BY <1>2, <3>1
      <3>4. QED
        BY <3>2, <3>3
    <2>6. QED
      BY <2>2, <2>3, <2>4, <2>5
  <1>6. acq' \in [Calls -> Standing]
    BY <1>3 DEF Standing
  <1>7. DOMAIN queue' = 1..Len(queue) - k
    BY <1>5, LenProperties
  <1>8. QueueHoldsPending'
    <2>1. closed' => queue' = <<>>
      <3> SUFFICES ASSUME closed' PROVE queue' = <<>>
        OBVIOUS
      <3>1. Len(queue) = 0
        BY EmptySeq DEF QueueHoldsPending
      <3>2. QED
        BY <1>5, <1>2, <3>1, EmptySeq
    <2>2. \A i, j \in DOMAIN queue' : queue'[i] = queue'[j] => i = j
      <3> SUFFICES ASSUME NEW i \in 1..Len(queue) - k,
                          NEW j \in 1..Len(queue) - k,
                          queue'[i] = queue'[j]
                   PROVE  i = j
        BY <1>7
      <3>1. queue[k + i] = queue[k + j]
        BY <1>5
      <3>2. k + i = k + j
        BY <1>1, <1>2, <3>1 DEF QueueHoldsPending
      <3>3. QED
        BY <1>1, <1>2, <3>2
    <2>3. ASSUME NEW c \in Calls
          PROVE  acq'[c] = "waiting" <=> \E i \in DOMAIN queue' : queue'[i] = c
      <3>1. acq'[c] = "waiting" <=> acq[c] = "waiting" /\ c \notin W
        BY <1>3
      <3>2. acq[c] = "waiting" <=> \E i \in 1..Len(queue) : queue[i] = c
        BY <1>1 DEF QueueHoldsPending
      <3>3. ASSUME acq[c] = "waiting", c \notin W
            PROVE  \E i \in DOMAIN queue' : queue'[i] = c
        <4>1. PICK i \in 1..Len(queue) : queue[i] = c
          BY <3>2, <3>3
        <4>2. i \notin 1..k
          BY <3>3, <4>1
        <4>3. i - k \in 1..Len(queue) - k /\ k + (i - k) = i
          BY <1>1, <1>2, <4>2
        <4>4. queue'[i - k] = c
          BY <1>5, <4>1, <4>3
        <4>5. QED
          BY <1>7, <4>3, <4>4
      <3>4. ASSUME NEW i \in DOMAIN queue', queue'[i] = c
            PROVE  acq[c] = "waiting" /\ c \notin W
        <4>1. i \in 1..Len(queue) - k
          BY <1>7
        <4>2. k + i \in 1..Len(queue) /\ k + i > k /\ queue[k + i] = c
          BY <1>1, <1>2, <1>5, <3>4, <4>1
        <4>3. c \notin W
          BY <1>1, <1>2, <4>2 DEF QueueHoldsPending
        <4>4. QED
          BY <3>2, <4>2, <4>3
      <3>5. QED
        BY <3>1, <3>3, <3>4
    <2>4. QED
      BY <2>1, <2>2, <2>3 DEF QueueHoldsPending
  <1>9. available' + Cardinality(Owners') = free + Cardinality(G)
    <2>1. Owners' = G \cup W
      <3>1. W \subseteq Calls
        BY <1>1, <1>2
      <3>2. QED
        BY <1>3, <3>1 DEF Owners
    <2>2. G \cap W = {}
      <3>1. \A c \in W : acq[c] = "waiting"
        BY <1>1, <1>2 DEF QueueHoldsPending
      <3>2. QED
        BY <3>1
    <2>3. IsFiniteSet(W) /\ Cardinality(W) = k
      BY <1>2, PrefixCardinality
    <2>4. IsFiniteSet(G) /\ Cardinality(G) \in Nat
      BY OwnersFinite
    <2>5. Cardinality(G \cup W)
            = Cardinality(G) + Cardinality(W) - Cardinality(G \cap W)
      BY <2>3, <2>4, FS_Union
    <2>6. Cardinality(G \cap W) = 0
      BY <2>2, FS_EmptySet
    <2>7. QED
      BY <1>2, <1>3, <2>1, <2>3, <2>4, <2>5, <2>6
  <1>10. ASSUME open, queue' # <<>> PROVE available' = 0
    <2>1. Len(queue') > 0
      BY <1>5, <1>10, EmptySeq
    <2>2. k = Lesser(free, Len(queue))
      BY <1>10
    <2> HIDE DEF k, W, G
    <2>3. k # Len(queue)
      <3>1. Len(queue') = Len(queue) - k
        BY <1>5
      <3>2. k = Len(queue) => Len(queue') = 0
        BY <1>1, <3>1
      <3>3. QED
        BY <2>1, <3>2
    <2>4. k = free
      BY <1>1, <2>2, <2>3, LesserFacts
    <2>5. QED
      BY <1>3, <2>4
  <1>11. QED
    BY <1>4, <1>5, <1>6, <1>8, <1>9, <1>10

(* One promise changes its standing: the owners, and their number, follow. *)
LEMMA OwnersUpdate ==
  ASSUME SemTypeOK, NEW c \in Calls, NEW x \in Standing,
         acq' = [acq EXCEPT ![c] = x]
  PROVE  /\ acq' \in [Calls -> Standing]
         /\ x = "granted" /\ acq[c] # "granted"
               => Cardinality(Owners') = Cardinality(Owners) + 1
         /\ x # "granted" /\ acq[c] # "granted" => Owners' = Owners
  <1>1. acq' \in [Calls -> Standing]
    BY DEF SemTypeOK, Standing
  <1>2. IsFiniteSet(Owners) /\ Cardinality(Owners) \in Nat
    BY OwnersFinite DEF Owners
  <1>3. ASSUME x = "granted", acq[c] # "granted"
        PROVE  Cardinality(Owners') = Cardinality(Owners) + 1
    <2>1. Owners' = Owners \cup {c} /\ c \notin Owners
      BY <1>3 DEF Owners, SemTypeOK
    <2>2. QED
      BY <1>2, <2>1, FS_AddElement
  <1>4. ASSUME x # "granted", acq[c] # "granted" PROVE Owners' = Owners
    BY <1>4 DEF Owners, SemTypeOK
  <1>5. QED
    BY <1>1, <1>3, <1>4

(* acquire(): one slot per grant, one queue entry per pending promise.     *)
LEMMA AcquireKeeps ==
  ASSUME SemInv, NEW c \in Calls, Acquire(c)
  PROVE  SemInv'
  <1> USE DEF SemInv
  <1>1. acq[c] = "none" /\ paused' = paused /\ closed' = closed
    BY DEF Acquire
  <1>2. Cardinality(Owners) \in Nat
    BY OwnersFinite DEF Owners
  <1>3. CASE /\ closed
             /\ acq' = [acq EXCEPT ![c] = "denied"]
             /\ UNCHANGED <<available, queue>>
    <2>1. acq' \in [Calls -> Standing] /\ Owners' = Owners
      BY <1>1, <1>3, OwnersUpdate DEF Standing
    <2>2. SemTypeOK' /\ SlotsConserved' /\ NoLostWakeup'
      BY <1>1, <1>3, <2>1
      DEF SemTypeOK, Standing, SlotsConserved, NoLostWakeup
    <2>3. QueueHoldsPending'
      BY <1>1, <1>3 DEF QueueHoldsPending, SemTypeOK
    <2>4. QED
      BY <2>2, <2>3
  <1>4. CASE /\ ~closed /\ ~paused /\ available > 0
             /\ available' = available - 1
             /\ acq' = [acq EXCEPT ![c] = "granted"]
             /\ UNCHANGED queue
    <2>1. /\ acq' \in [Calls -> Standing]
          /\ Cardinality(Owners') = Cardinality(Owners) + 1
      BY <1>1, <1>4, OwnersUpdate DEF Standing
    <2>2. SemTypeOK'
      BY <1>1, <1>4, <2>1 DEF SemTypeOK, Standing
    <2>3. SlotsConserved'
      BY <1>2, <1>4, <2>1, CapacityPositive DEF SemTypeOK, SlotsConserved
    <2>4. NoLostWakeup'
      BY <1>4 DEF NoLostWakeup, SemTypeOK
    <2>5. QueueHoldsPending'
      BY <1>1, <1>4 DEF QueueHoldsPending, SemTypeOK
    <2>6. QED
      BY <2>2, <2>3, <2>4, <2>5
  <1>5. CASE /\ ~closed
             /\ paused \/ available = 0
             /\ queue' = Append(queue, c)
             /\ acq' = [acq EXCEPT ![c] = "waiting"]
             /\ UNCHANGED available
    <2>1. acq' \in [Calls -> Standing] /\ Owners' = Owners
      BY <1>1, <1>5, OwnersUpdate DEF Standing
    <2>2. /\ queue' \in Seq(Calls)
          /\ Len(queue) \in Nat
          /\ DOMAIN queue = 1..Len(queue)
          /\ DOMAIN queue' = 1..Len(queue) + 1
          /\ \A i \in 1..Len(queue) : queue'[i] = queue[i]
          /\ queue'[Len(queue) + 1] = c
      BY <1>5, AppendProperties, LenProperties DEF SemTypeOK
    <2>3. SemTypeOK' /\ SlotsConserved' /\ NoLostWakeup'
      BY <1>1, <1>5, <2>1, <2>2
      DEF SemTypeOK, Standing, SlotsConserved, NoLostWakeup
    <2>4. \A i \in DOMAIN queue : queue[i] # c
      BY <1>1 DEF QueueHoldsPending
    <2>5. \A i, j \in DOMAIN queue' : queue'[i] = queue'[j] => i = j
      <3> SUFFICES ASSUME NEW i \in DOMAIN queue', NEW j \in DOMAIN queue',
                          queue'[i] = queue'[j]
                   PROVE  i = j
        OBVIOUS
      <3>1. CASE i \in DOMAIN queue /\ j \in DOMAIN queue
        BY <2>2, <3>1 DEF QueueHoldsPending
      <3>2. CASE i = Len(queue) + 1 \/ j = Len(queue) + 1
        BY <2>2, <2>4, <3>2
      <3>3. QED
        BY <2>2, <3>1, <3>2
    <2>6. ASSUME NEW d \in Calls
          PROVE  acq'[d] = "waiting" <=> \E i \in DOMAIN queue' : queue'[i] = d
      <3>1. CASE d = c
        BY <1>5, <2>2, <3>1 DEF SemTypeOK
      <3>2. CASE d # c
        <4>1. acq'[d] = acq[d]
          BY <1>5, <3>2 DEF SemTypeOK
        <4>2. (\E i \in DOMAIN queue' : queue'[i] = d)
                <=> \E i \in DOMAIN queue : queue[i] = d
          BY <2>2, <3>2
        <4>3. QED
          BY <4>1, <4>2 DEF QueueHoldsPending
      <3>3. QED
        BY <3>1, <3>2
    <2>7. QueueHoldsPending'
      BY <1>1, <1>5, <2>5, <2>6 DEF QueueHoldsPending
    <2>8. QED
      BY <2>3, <2>7
  <1>6. QED
    BY <1>3, <1>4, <1>5 DEF Acquire

(* Splicing the i-th entry out of a queue.                                 *)
LEMMA Splice ==
  ASSUME NEW q \in Seq(Calls), NEW i \in 1..Len(q), NEW r,
         r = SubSeq(q, 1, i - 1) \o SubSeq(q, i + 1, Len(q))
  PROVE  /\ r \in Seq(Calls)
         /\ Len(r) = Len(q) - 1
         /\ \A j \in 1..Len(q) - 1 : r[j] = IF j < i THEN q[j] ELSE q[j + 1]
  <1> DEFINE a == SubSeq(q, 1, i - 1)
             b == SubSeq(q, i + 1, Len(q))
             n == Len(q)
  <1>1. n \in Nat /\ \A j \in 1..n : q[j] \in Calls
    BY LenProperties, ElementOfSeq
  <1>2. i \in Int /\ 1 <= i /\ i <= n
    BY <1>1
  <1>3. /\ a \in Seq(Calls)
        /\ Len(a) = IF 1 <= i - 1 THEN i - 1 - 1 + 1 ELSE 0
        /\ \A j \in 1..i - 1 - 1 + 1 : a[j] = q[1 + j - 1]
    <2>1. \A j \in 1..i - 1 : q[j] \in Calls
      BY <1>1, <1>2
    <2>2. QED
      BY <1>2, <2>1, SubSeqProperties
  <1>4. /\ b \in Seq(Calls)
        /\ Len(b) = IF i + 1 <= n THEN n - (i + 1) + 1 ELSE 0
        /\ \A j \in 1..n - (i + 1) + 1 : b[j] = q[i + 1 + j - 1]
    <2>1. \A j \in i + 1..n : q[j] \in Calls
      BY <1>1, <1>2
    <2>2. QED
      BY <1>1, <1>2, <2>1, SubSeqProperties
  <1>5. r = a \o b
    OBVIOUS
  <1> HIDE DEF a, b, n
  <1>6. Len(a) = i - 1 /\ Len(b) = n - i
    BY <1>1, <1>2, <1>3, <1>4
  <1>7. /\ r \in Seq(Calls)
        /\ Len(r) = (i - 1) + (n - i)
        /\ \A j \in 1..(i - 1) + (n - i) :
              r[j] = IF j <= i - 1 THEN a[j] ELSE b[j - (i - 1)]
    <2>1. /\ a \o b \in Seq(Calls)
          /\ Len(a \o b) = Len(a) + Len(b)
          /\ \A j \in 1..Len(a) + Len(b) :
                (a \o b)[j] = IF j <= Len(a) THEN a[j] ELSE b[j - Len(a)]
      BY <1>3, <1>4, ConcatProperties
    <2> DEFINE ab == a \o b
    <2>2. r = ab
      BY <1>5
    <2>3. /\ ab \in Seq(Calls)
          /\ Len(ab) = Len(a) + Len(b)
          /\ \A j \in 1..Len(a) + Len(b) :
                ab[j] = IF j <= Len(a) THEN a[j] ELSE b[j - Len(a)]
      BY <2>1
    <2> HIDE DEF ab
    <2>4. QED
      BY <1>6, <2>2, <2>3
  <1>8. (i - 1) + (n - i) = n - 1
    BY <1>1, <1>2
  <1>9. ASSUME NEW j \in 1..n - 1
        PROVE  r[j] = IF j < i THEN q[j] ELSE q[j + 1]
    <2>1. r[j] = IF j <= i - 1 THEN a[j] ELSE b[j - (i - 1)]
      BY <1>7, <1>8
    <2>2. CASE j < i
      <3>1. j \in 1..i - 1 - 1 + 1 /\ j <= i - 1 /\ 1 + j - 1 = j
        BY <1>1, <1>2, <2>2
      <3>2. QED
        BY <1>3, <2>1, <2>2, <3>1
    <2>3. CASE ~(j < i)
      <3>1. /\ j - (i - 1) \in 1..n - (i + 1) + 1
            /\ ~(j <= i - 1)
            /\ i + 1 + (j - (i - 1)) - 1 = j + 1
        BY <1>1, <1>2, <2>3
      <3>2. QED
        BY <1>4, <2>1, <2>3, <3>1
    <2>4. QED
      BY <2>2, <2>3
  <1>10. QED
    BY <1>7, <1>8, <1>9 DEF n

(* An abort takes its own entry out of the queue and disturbs nothing else. *)
LEMMA WithdrawKeeps ==
  ASSUME SemInv, NEW c \in Calls, Withdraw(c)
  PROVE  SemInv'
  <1> USE DEF SemInv
  <1>1. /\ Len(queue) \in Nat
        /\ DOMAIN queue = 1..Len(queue)
    BY LenProperties DEF SemTypeOK
  <1>2. PICK i \in 1..Len(queue) :
           /\ queue[i] = c
           /\ queue' = SubSeq(queue, 1, i - 1)
                          \o SubSeq(queue, i + 1, Len(queue))
    BY <1>1 DEF Withdraw
  <1>3. /\ queue' \in Seq(Calls)
        /\ Len(queue') = Len(queue) - 1
        /\ \A j \in 1..Len(queue) - 1 :
              queue'[j] = IF j < i THEN queue[j] ELSE queue[j + 1]
    BY <1>2, Splice DEF SemTypeOK
  <1>4. DOMAIN queue' = 1..Len(queue) - 1
    BY <1>3, LenProperties
  <1>5. /\ acq[c] = "waiting"
        /\ acq' = [acq EXCEPT ![c] = "denied"]
        /\ available' = available /\ paused' = paused /\ closed' = closed
    BY DEF Withdraw
  <1>6. acq' \in [Calls -> Standing] /\ Owners' = Owners
    BY <1>5, OwnersUpdate DEF Standing
  <1>7. SemTypeOK' /\ SlotsConserved'
    BY <1>3, <1>5, <1>6 DEF SemTypeOK, Standing, SlotsConserved
  <1>8. queue # <<>>
    BY <1>1, <1>2, EmptySeq
  <1>9. NoLostWakeup'
    BY <1>5, <1>8 DEF NoLostWakeup
  <1>10. closed' => queue' = <<>>
    BY <1>5, <1>8 DEF QueueHoldsPending
  <1>11. \A j, k \in DOMAIN queue' : queue'[j] = queue'[k] => j = k
    <2> SUFFICES ASSUME NEW j \in 1..Len(queue) - 1,
                        NEW k \in 1..Len(queue) - 1,
                        queue'[j] = queue'[k]
                 PROVE  j = k
      BY <1>4
    <2> DEFINE at(m) == IF m < i THEN m ELSE m + 1
    <2>1. at(j) \in 1..Len(queue) /\ at(k) \in 1..Len(queue)
      BY <1>1
    <2>2. queue'[j] = queue[at(j)] /\ queue'[k] = queue[at(k)]
      BY <1>3
    <2>3. at(j) = at(k)
      <3>1. queue[at(j)] = queue[at(k)]
        BY <2>2
      <3> HIDE DEF at
      <3>2. QED
        BY <1>1, <2>1, <3>1 DEF QueueHoldsPending
    <2>4. QED
      BY <1>1, <2>3
  <1>12. ASSUME NEW d \in Calls
         PROVE  acq'[d] = "waiting" <=> \E j \in DOMAIN queue' : queue'[j] = d
    <2>1. CASE d = c
      <3>1. ASSUME NEW j \in 1..Len(queue) - 1 PROVE queue'[j] # c
        <4>1. CASE j < i
          <5>1. j \in 1..Len(queue) /\ j # i
            BY <1>1, <4>1
          <5>2. queue[j] # c
            BY <1>1, <1>2, <5>1 DEF QueueHoldsPending
          <5>3. QED
            BY <1>3, <4>1, <5>2
        <4>2. CASE ~(j < i)
          <5>1. j + 1 \in 1..Len(queue) /\ j + 1 # i
            BY <1>1, <4>2
          <5>2. queue[j + 1] # c
            BY <1>1, <1>2, <5>1 DEF QueueHoldsPending
          <5>3. QED
            BY <1>3, <4>2, <5>2
        <4>3. QED
          BY <4>1, <4>2
      <3>2. acq'[d] = "denied"
        BY <1>5, <2>1 DEF SemTypeOK
      <3>3. QED
        BY <1>4, <2>1, <3>1, <3>2
    <2>2. CASE d # c
      <3>1. acq'[d] = acq[d]
        BY <1>5, <2>2 DEF SemTypeOK
      <3>2. ASSUME NEW j \in 1..Len(queue), queue[j] = d
            PROVE  \E k \in 1..Len(queue) - 1 : queue'[k] = d
        <4>1. CASE j < i
          BY <1>1, <1>3, <3>2, <4>1
        <4>2. CASE j > i
          <5>1. j - 1 \in 1..Len(queue) - 1 /\ ~(j - 1 < i) /\ j - 1 + 1 = j
            BY <1>1, <4>2
          <5>2. QED
            BY <1>3, <3>2, <5>1
        <4>3. j # i
          BY <1>2, <2>2, <3>2
        <4>4. QED
          BY <1>1, <4>1, <4>2, <4>3
      <3>3. ASSUME NEW k \in 1..Len(queue) - 1, queue'[k] = d
            PROVE  \E j \in 1..Len(queue) : queue[j] = d
        BY <1>1, <1>3, <3>3
      <3>4. QED
        BY <1>1, <1>4, <3>1, <3>2, <3>3 DEF QueueHoldsPending
    <2>3. QED
      BY <2>1, <2>2
  <1>13. QED
    BY <1>7, <1>9, <1>10, <1>11, <1>12 DEF QueueHoldsPending

(* release(): the freed slot goes to the next waiter or back to the pool.  *)
LEMMA ReleaseKeeps ==
  ASSUME SemInv, NEW c \in Calls, Release(c)
  PROVE  SemInv'
  <1> USE DEF SemInv
  <1> DEFINE standing == [acq EXCEPT ![c] = "none"]
             G        == {d \in Calls : standing[d] = "granted"}
  <1>1. /\ acq[c] = "granted"
        /\ Flush(available + 1, ~paused /\ ~closed, standing)
        /\ paused' = paused /\ closed' = closed
    BY DEF Release
  <1>2. /\ standing \in [Calls -> Standing]
        /\ available + 1 \in Nat
        /\ (~paused /\ ~closed) \in BOOLEAN
    BY DEF SemTypeOK, Standing
  <1>3. \A d \in Calls : standing[d] = "waiting" <=> acq[d] = "waiting"
    BY <1>1 DEF SemTypeOK
  <1>4. /\ available' \in Nat
        /\ queue' \in Seq(Calls)
        /\ acq' \in [Calls -> Standing]
        /\ QueueHoldsPending'
        /\ available' + Cardinality(Owners') = available + 1 + Cardinality(G)
        /\ (~paused /\ ~closed) /\ queue' # <<>> => available' = 0
    BY <1>1, <1>2, <1>3, FlushKeeps
  <1>5. Cardinality(G) = Cardinality(Owners) - 1 /\ Cardinality(Owners) \in Nat
    <2>1. G = Owners \ {c} /\ c \in Owners
      BY <1>1 DEF Owners, SemTypeOK
    <2>2. IsFiniteSet(Owners) /\ Cardinality(Owners) \in Nat
      BY OwnersFinite DEF Owners
    <2>3. QED
      BY <2>1, <2>2, FS_RemoveElement
  <1> HIDE DEF standing, G
  <1>6. SlotsConserved'
    <2>1. available + 1 + Cardinality(G) = available + Cardinality(Owners)
      BY <1>5 DEF SemTypeOK
    <2>2. QED
      BY <1>4, <2>1 DEF SlotsConserved
  <1>7. SemTypeOK'
    BY <1>1, <1>4 DEF SemTypeOK, Standing
  <1>8. NoLostWakeup'
    BY <1>1, <1>4 DEF NoLostWakeup, QueueHoldsPending
  <1>9. QED
    BY <1>4, <1>6, <1>7, <1>8

(* resume(): the waiters that the shut gate held back are served.          *)
LEMMA ResumeKeeps ==
  ASSUME SemInv, Resume
  PROVE  SemInv'
  <1> USE DEF SemInv
  <1>1. /\ Flush(available, ~closed, acq)
        /\ paused' = FALSE /\ closed' = closed
    BY DEF Resume
  <1>2. available \in Nat /\ (~closed) \in BOOLEAN /\ acq \in [Calls -> Standing]
    BY DEF SemTypeOK, Standing
  <1>3. /\ available' \in Nat
        /\ queue' \in Seq(Calls)
        /\ acq' \in [Calls -> Standing]
        /\ QueueHoldsPending'
        /\ available' + Cardinality(Owners')
              = available + Cardinality({d \in Calls : acq[d] = "granted"})
        /\ (~closed) /\ queue' # <<>> => available' = 0
    BY <1>1, <1>2, FlushKeeps
  <1>4. SlotsConserved'
    BY <1>3 DEF SlotsConserved, Owners
  <1>5. SemTypeOK'
    BY <1>1, <1>3 DEF SemTypeOK, Standing
  <1>6. NoLostWakeup'
    BY <1>1, <1>3 DEF NoLostWakeup, QueueHoldsPending
  <1>7. QED
    BY <1>3, <1>4, <1>5, <1>6

(* close(): every pending promise is answered and the queue emptied.       *)
LEMMA CloseKeeps ==
  ASSUME SemInv, Close
  PROVE  SemInv'
  <1> USE DEF SemInv
  <1>1. /\ closed' = TRUE /\ queue' = <<>>
        /\ acq' = [d \in Calls |-> IF acq[d] = "waiting" THEN "denied" ELSE acq[d]]
        /\ available' = available /\ paused' = paused
    BY DEF Close
  <1>2. Owners' = Owners
    BY <1>1 DEF Owners
  <1>3. SemTypeOK' /\ SlotsConserved' /\ NoLostWakeup'
    BY <1>1, <1>2, EmptySeq DEF SemTypeOK, SlotsConserved, NoLostWakeup
  <1>4. QueueHoldsPending'
    BY <1>1 DEF QueueHoldsPending, SemTypeOK
  <1>5. QED
    BY <1>3, <1>4

(* A denied call leaves; the gate shuts. *)
LEMMA LeaveKeeps ==
  ASSUME SemInv, NEW c \in Calls, Leave(c)
  PROVE  SemInv'
  <1> USE DEF SemInv
  <1>1. acq[c] = "denied" /\ acq' = [acq EXCEPT ![c] = "none"]
    BY DEF Leave
  <1>2. /\ available' = available /\ paused' = paused
        /\ closed' = closed /\ queue' = queue
    BY DEF Leave
  <1>3. acq' \in [Calls -> Standing] /\ Owners' = Owners
    BY <1>1, OwnersUpdate DEF Standing
  <1>4. SemTypeOK' /\ SlotsConserved' /\ NoLostWakeup'
    BY <1>2, <1>3 DEF SemTypeOK, Standing, SlotsConserved, NoLostWakeup
  <1>5. QueueHoldsPending'
    BY <1>1, <1>2 DEF QueueHoldsPending, SemTypeOK
  <1>6. QED
    BY <1>4, <1>5

LEMMA PauseKeeps ==
  ASSUME SemInv, Pause
  PROVE  SemInv'
  BY DEF SemInv, Pause, SemTypeOK, QueueHoldsPending, SlotsConserved, Owners,
         NoLostWakeup

(* Every operation of the semaphore keeps its invariant. *)
LEMMA SemStepKeeps ==
  ASSUME SemInv, [SemNext]_semVars
  PROVE  SemInv'
  <1>1. CASE UNCHANGED semVars
    BY <1>1 DEF semVars, SemInv, SemTypeOK, QueueHoldsPending, SlotsConserved,
                Owners, NoLostWakeup
  <1>2. ASSUME NEW c \in Calls, Acquire(c) \/ Withdraw(c) \/ Release(c) \/ Leave(c)
        PROVE  SemInv'
    BY <1>2, AcquireKeeps, WithdrawKeeps, ReleaseKeeps, LeaveKeeps
  <1>3. CASE Pause
    BY <1>3, PauseKeeps
  <1>4. CASE Resume
    BY <1>4, ResumeKeeps
  <1>5. CASE Close
    BY <1>5, CloseKeeps
  <1>6. QED
    BY <1>1, <1>2, <1>3, <1>4, <1>5 DEF SemNext

(* A new semaphore: all slots free, nobody waiting. *)
LEMMA SemStarts == SemInit => SemInv
  <1> SUFFICES ASSUME SemInit PROVE SemInv
    OBVIOUS
  <1>1. SemTypeOK
    BY CapacityPositive, EmptySeq DEF SemInit, SemTypeOK
  <1>2. QueueHoldsPending
    BY DEF SemInit, QueueHoldsPending
  <1>3. Owners = {}
    BY DEF SemInit, Owners
  <1>4. SlotsConserved
    BY <1>3, CapacityPositive, FS_EmptySet DEF SemInit, SlotsConserved
  <1>5. NoLostWakeup
    BY DEF SemInit, NoLostWakeup
  <1>6. QED
    BY <1>1, <1>2, <1>4, <1>5 DEF SemInv

(* The invariant holds in every reachable state, for any finite set of     *)
(* calls and any configured concurrency.                                   *)
THEOREM SemSafety == SemSpec => []SemInv
  <1>1. SemInit => SemInv
    BY SemStarts
  <1>2. SemInv /\ [SemNext]_semVars => SemInv'
    BY SemStepKeeps
  <1>3. QED
    BY <1>1, <1>2, PTL DEF SemSpec

(* No interleaving of acquire, abort, release, pause, resume and close     *)
(* leaks a slot or grants one twice.                                       *)
THEOREM SlotsAreConserved == SemSpec => []SlotsConserved
  <1>1. SemInv => SlotsConserved
    BY DEF SemInv
  <1>2. QED
    BY <1>1, SemSafety, PTL

(* No waiter is left behind while a slot is free and the gate open.        *)
THEOREM WaitersAreWoken == SemSpec => []NoLostWakeup
  <1>1. SemInv => NoLostWakeup
    BY DEF SemInv
  <1>2. QED
    BY <1>1, SemSafety, PTL

(* The queue is exactly the set of pending promises, each once.            *)
THEOREM NoPromiseForgotten == SemSpec => []QueueHoldsPending
  <1>1. SemInv => QueueHoldsPending
    BY DEF SemInv
  <1>2. QED
    BY <1>1, SemSafety, PTL

(* A flush serves the queue from its head. *)
LEMMA FlushInOrder ==
  ASSUME SemTypeOK, NEW free \in Nat, NEW open \in BOOLEAN,
         NEW standing \in [Calls -> Standing],
         \A d \in Calls : standing[d] = "granted" => acq[d] = "granted",
         Flush(free, open, standing),
         NEW c \in Owners' \ Owners,
         NEW i \in DOMAIN queue, \A j \in 1..i : queue[j] # c
  PROVE  open /\ acq'[queue[i]] = "granted"
  <1> DEFINE k == IF open THEN Lesser(free, Len(queue)) ELSE 0
             W == {queue[j] : j \in 1..k}
  <1>1. /\ Len(queue) \in Nat
        /\ DOMAIN queue = 1..Len(queue)
        /\ \A j \in 1..Len(queue) : queue[j] \in Calls
    BY LenProperties, ElementOfSeq DEF SemTypeOK
  <1>2. k \in 0..Len(queue)
    BY <1>1, LesserFacts
  <1>3. acq' = [d \in Calls |-> IF d \in W THEN "granted" ELSE standing[d]]
    BY Zenon DEF Flush
  <1>4. c \in W
    BY <1>3 DEF Owners
  <1>5. PICK j \in 1..k : queue[j] = c
    BY <1>4
  <1>6. open
    BY <1>2, <1>5
  <1> HIDE DEF k
  <1>7. i \in 1..k
    BY <1>1, <1>2, <1>5
  <1>8. QED
    BY <1>1, <1>3, <1>6, <1>7

(* What one operation may grant: nothing while the gate stays shut or the  *)
(* semaphore is closed, and nobody ahead of an earlier waiter.             *)
LEMMA SemStepGrants ==
  ASSUME SemInv, [SemNext]_semVars
  PROVE  /\ (paused /\ paused') \/ closed => Owners' \subseteq Owners
         /\ \A i \in DOMAIN queue :
              (\E c \in Owners' \ Owners : \A j \in 1..i : queue[j] # c)
                 => acq'[queue[i]] # "waiting"
  <1> USE DEF SemInv
  <1> DEFINE Gate  == (paused /\ paused') \/ closed => Owners' \subseteq Owners
             Order == \A i \in DOMAIN queue :
                        (\E c \in Owners' \ Owners : \A j \in 1..i : queue[j] # c)
                           => acq'[queue[i]] # "waiting"
  <1>1. ASSUME Owners' \subseteq Owners PROVE Gate /\ Order
    BY <1>1
  <1>2. ASSUME NEW free \in Nat, NEW open \in BOOLEAN,
               NEW standing \in [Calls -> Standing],
               \A d \in Calls : standing[d] = "granted" => acq[d] = "granted",
               Flush(free, open, standing),
               (paused /\ paused') \/ closed => ~open \/ queue = <<>>
        PROVE  Gate /\ Order
    <2>1. Order
      <3> SUFFICES ASSUME NEW i \in DOMAIN queue,
                          NEW c \in Owners' \ Owners,
                          \A j \in 1..i : queue[j] # c
                   PROVE  acq'[queue[i]] # "waiting"
        OBVIOUS
      <3>1. acq'[queue[i]] = "granted"
        BY <1>2, FlushInOrder
      <3>2. QED
        BY <3>1
    <2>2. Gate
      <3> SUFFICES ASSUME ~open \/ queue = <<>> PROVE Owners' \subseteq Owners
        BY <1>2
      <3> DEFINE k == IF open THEN Lesser(free, Len(queue)) ELSE 0
                 W == {queue[j] : j \in 1..k}
      <3>1. k = 0
        BY <1>2, EmptySeq DEF Lesser
      <3>2. W = {}
        BY <3>1
      <3>3. acq' = [d \in Calls |-> IF d \in W THEN "granted" ELSE standing[d]]
        BY <1>2, Zenon DEF Flush
      <3>4. QED
        BY <1>2, <3>2, <3>3 DEF Owners
    <2>3. QED
      BY <2>1, <2>2
  <1>3. CASE UNCHANGED semVars
    BY <1>1, <1>3 DEF semVars, Owners
  <1>4. ASSUME NEW c \in Calls, Acquire(c) PROVE Gate /\ Order
    <2>1. CASE closed /\ acq' = [acq EXCEPT ![c] = "denied"]
      BY <1>1, <2>1 DEF Owners, SemTypeOK
    <2>2. CASE acq' = [acq EXCEPT ![c] = "waiting"]
      BY <1>1, <2>2 DEF Owners, SemTypeOK
    <2>3. CASE ~closed /\ ~paused /\ available > 0
      <3>1. queue = <<>>
        BY <2>3 DEF NoLostWakeup, SemTypeOK
      <3>2. DOMAIN queue = {}
        BY <3>1, EmptySeq
      <3>3. QED
        BY <2>3, <3>2
    <2>4. QED
      BY <1>4, <2>1, <2>2, <2>3 DEF Acquire
  <1>5. ASSUME NEW c \in Calls, Withdraw(c) \/ Leave(c) PROVE Gate /\ Order
    BY <1>1, <1>5 DEF Owners, SemTypeOK, Withdraw, Leave
  <1>6. ASSUME NEW c \in Calls, Release(c) PROVE Gate /\ Order
    <2> DEFINE standing == [acq EXCEPT ![c] = "none"]
    <2>1. Flush(available + 1, ~paused /\ ~closed, standing)
      BY <1>6 DEF Release
    <2>2. /\ standing \in [Calls -> Standing]
          /\ available + 1 \in Nat
          /\ (~paused /\ ~closed) \in BOOLEAN
      BY DEF SemTypeOK, Standing
    <2>3. \A d \in Calls : standing[d] = "granted" => acq[d] = "granted"
      BY DEF SemTypeOK
    <2> HIDE DEF standing, Gate, Order
    <2>4. (paused /\ paused') \/ closed => ~(~paused /\ ~closed) \/ queue = <<>>
      OBVIOUS
    <2>5. QED
      BY <1>2, <2>1, <2>2, <2>3, <2>4
  <1>7. CASE Pause
    BY <1>1, <1>7 DEF Owners, Pause
  <1>8. CASE Resume
    <2>1. Flush(available, ~closed, acq)
      BY <1>8 DEF Resume
    <2>2. acq \in [Calls -> Standing] /\ available \in Nat /\ (~closed) \in BOOLEAN
      BY DEF SemTypeOK, Standing
    <2>3. (paused /\ paused') \/ closed => ~(~closed) \/ queue = <<>>
      BY <1>8 DEF Resume
    <2>4. \A d \in Calls : acq[d] = "granted" => acq[d] = "granted"
      OBVIOUS
    <2>5. ASSUME NEW open \in BOOLEAN, Flush(available, open, acq),
                 (paused /\ paused') \/ closed => ~open \/ queue = <<>>
          PROVE  Gate /\ Order
      <3> HIDE DEF Gate, Order
      <3>1. QED
        BY <1>2, <2>2, <2>4, <2>5
    <2>6. QED
      BY <2>5, <2>1, <2>2, <2>3
  <1>9. CASE Close
    BY <1>1, <1>9 DEF Owners, Close
  <1>10. QED
    BY <1>3, <1>4, <1>5, <1>6, <1>7, <1>8, <1>9 DEF SemNext

(* First come, first served, for any number of calls. *)
THEOREM FirstComeFirstServed == SemSpec => NoOvertaking
  <1> DEFINE A == \A i \in DOMAIN queue :
                    (\E c \in Owners' \ Owners : \A j \in 1..i : queue[j] # c)
                       => acq'[queue[i]] # "waiting"
  <1>1. SemInv /\ [SemNext]_semVars => A
    BY SemStepGrants
  <1> HIDE DEF A
  <1>2. SemSpec => [][A]_semVars
    BY <1>1, SemSafety, PTL DEF SemSpec
  <1>3. QED
    BY <1>2 DEF NoOvertaking, A

(* No grant passes a shut gate or comes after close(). *)
THEOREM GateIsRespected == SemSpec => GateHolds
  <1> DEFINE A == (paused /\ paused') \/ closed => Owners' \subseteq Owners
  <1>1. SemInv /\ [SemNext]_semVars => A
    BY SemStepGrants
  <1> HIDE DEF A
  <1>2. SemSpec => [][A]_semVars
    BY <1>1, SemSafety, PTL DEF SemSpec
  <1>3. QED
    BY <1>2 DEF GateHolds, A
-----------------------------------------------------------------------------
(* A run, which uses the semaphore only through its operations.            *)
(* Settling a call gives its slot back, or had none to give. *)
LEMMA FinallyIsSemStep ==
  ASSUME NEW n \in Calls, Finally(n)
  PROVE  SemNext
  BY DEF Finally, SemNext

LEMMA EndIsSemStep ==
  ASSUME NEW n \in Calls, NEW s, NEW u, End(n, s, u)
  PROVE  SemNext
  BY FinallyIsSemStep DEF End

LEMMA ConcludeIsSemStep ==
  ASSUME NEW n \in Calls, NEW h, NEW u, Conclude(n, h, u)
  PROVE  SemNext \/ UNCHANGED semVars
  BY EndIsSemStep DEF Conclude

LEMMA StopIsSemStep ==
  ASSUME StopController
  PROVE  SemNext \/ UNCHANGED semVars
  BY DEF StopController, SemNext

(* Every step of a run is one operation of its semaphore or none. *)
LEMMA RunStepIsSemStep ==
  ASSUME [Next]_vars
  PROVE  [SemNext]_semVars
  <1>1. CASE UNCHANGED vars
    BY <1>1 DEF vars
  <1>2. CASE Script
    <2>1. CASE Call
      BY <2>1 DEF Call, SemNext
    <2>2. CASE CallStopped \/ Await \/ BodySettles
      BY <2>2 DEF CallStopped, Await, BodySettles
    <2>3. QED
      BY <1>2, <2>1, <2>2 DEF Script
  <1>3. CASE YieldReturns
    BY <1>3 DEF YieldReturns
  <1>4. ASSUME NEW n \in Calls, Continuation(n)
        PROVE  [SemNext]_semVars
    <2>1. CASE RefuseOverBudget(n)
      BY <2>1, FinallyIsSemStep DEF RefuseOverBudget
    <2>2. CASE EndSkippedInQueue(n) \/ EndUnrunnable(n)
      BY <2>2, EndIsSemStep DEF EndSkippedInQueue, EndUnrunnable
    <2>3. CASE CreateWorktree(n) \/ RunExecutor(n)
      BY <2>3 DEF CreateWorktree, RunExecutor
    <2>4. QED
      BY <1>4, <2>1, <2>2, <2>3 DEF Continuation
  <1>5. ASSUME NEW n \in Calls, GitStep(n)
        PROVE  [SemNext]_semVars
    BY <1>5, EndIsSemStep DEF GitStep, WorktreeCreated, WorktreeFailed, WorktreeCleaned
  <1>6. ASSUME NEW n \in Calls, ReportUsage(n) \/ ExecutorSettles(n) \/ TeardownDeadline(n)
        PROVE  [SemNext]_semVars
    BY <1>6, ConcludeIsSemStep DEF ReportUsage, ExecutorSettles, TeardownDeadline
  <1>7. CASE Command
    <2>1. CASE PauseRun
      BY <2>1 DEF PauseRun, SemNext
    <2>2. CASE ResumeRun
      BY <2>2 DEF ResumeRun, SemNext
    <2>3. CASE RequestStop
      BY <2>3, StopIsSemStep DEF RequestStop
    <2>4. ASSUME NEW n \in Calls, SkipCall(n) PROVE [SemNext]_semVars
      BY <2>4 DEF SkipCall, SemNext
    <2>5. QED
      BY <1>7, <2>1, <2>2, <2>3, <2>4 DEF Command
  <1>8. CASE Uncaught \/ Teardown
    BY <1>8, StopIsSemStep DEF Uncaught, Teardown
  <1>9. CASE Drained \/ DrainDeadline
    BY <1>9 DEF Drained, DrainDeadline, SealJournal
  <1>10. QED
    BY <1>1, <1>2, <1>3, <1>4, <1>5, <1>6, <1>7, <1>8, <1>9 DEF Next

(* The runtime never touches the semaphore but by acquiring once per call, *)
(* aborting, releasing what was granted, pausing, resuming and closing.    *)
THEOREM RuntimeUsesSemaphore == Spec => SemSpec
  <1>1. Init => SemInit
    BY DEF Init
  <1>2. [Next]_vars => [SemNext]_semVars
    BY RunStepIsSemStep
  <1>3. QED
    BY <1>1, <1>2, PTL DEF Spec, SemSpec

(* So a run never leaks a slot, strands a waiter or forgets a promise.     *)
THEOREM RuntimeKeepsSemaphore == Spec => []SemInv
  BY RuntimeUsesSemaphore, SemSafety, PTL

(***************************************************************************)
(* The invariants of a run.  RunInv says where each call stands and what   *)
(* it then holds; it is inductive together with the types and the          *)
(* semaphore's invariant.                                                  *)
(***************************************************************************)
Inv == TypeOK /\ SemInv /\ RunInv

(* What a step about call n leaves alone. *)
OnlyCall(n) ==
  /\ \A m \in Calls \ {n} :
        /\ pc'[m] = pc[m]
        /\ outcome'[m] = outcome[m]
        /\ exec'[m] = exec[m]
        /\ worktree'[m] = worktree[m]
        /\ journal'[m] = journal[m]
        /\ result'[m] = result[m]
        /\ acq'[m] = acq[m] \/ (acq[m] = "waiting" /\ acq'[m] = "granted")
  /\ aborted' = aborted
  /\ closed' = closed
  /\ phase' = phase

(* A flush only ever grants, and only to a call that was waiting. *)
LEMMA FlushServesWaiters ==
  ASSUME SemInv, NEW free \in Nat, NEW open \in BOOLEAN,
         NEW standing, Flush(free, open, standing), NEW m \in Calls
  PROVE  acq'[m] = standing[m] \/ (acq[m] = "waiting" /\ acq'[m] = "granted")
  <1> DEFINE k == IF open THEN Lesser(free, Len(queue)) ELSE 0
             W == {queue[j] : j \in 1..k}
  <1>1. /\ Len(queue) \in Nat
        /\ DOMAIN queue = 1..Len(queue)
    BY LenProperties DEF SemInv, SemTypeOK
  <1>2. k \in 0..Len(queue)
    BY <1>1, LesserFacts
  <1>3. acq' = [d \in Calls |-> IF d \in W THEN "granted" ELSE standing[d]]
    BY Zenon DEF Flush
  <1>4. m \in W => acq[m] = "waiting"
    <2> HIDE DEF k
    <2>1. QED
      BY <1>1, <1>2 DEF SemInv, QueueHoldsPending
  <1>5. QED
    BY <1>3, <1>4

(* Settling call n: its slot is gone, and others may have been granted.    *)
LEMMA FinallyEffect ==
  ASSUME SemInv, NEW n \in Calls, Finally(n)
  PROVE  /\ acq[n] \in {"granted", "denied"}
         /\ acq'[n] = "none"
         /\ \A m \in Calls \ {n} :
              acq'[m] = acq[m] \/ (acq[m] = "waiting" /\ acq'[m] = "granted")
         /\ pc' = [pc EXCEPT ![n] = "settled"]
         /\ awake' = TRUE
         /\ UNCHANGED <<paused, closed, counter, aborted, yielding, batch, runVars>>
  <1>1. /\ pc' = [pc EXCEPT ![n] = "settled"]
        /\ awake' = TRUE
        /\ UNCHANGED <<counter, aborted, yielding, batch, runVars>>
    BY DEF Finally
  <1> DEFINE standing == [acq EXCEPT ![n] = "none"]
  <1>2. ASSUME Release(n)
        PROVE  /\ acq[n] = "granted" /\ acq'[n] = "none"
               /\ \A m \in Calls \ {n} :
                    acq'[m] = acq[m] \/ (acq[m] = "waiting" /\ acq'[m] = "granted")
               /\ UNCHANGED <<paused, closed>>
    <2>1. /\ acq[n] = "granted"
          /\ Flush(available + 1, ~paused /\ ~closed, standing)
          /\ UNCHANGED <<paused, closed>>
      BY <1>2 DEF Release
    <2>2. available + 1 \in Nat /\ (~paused /\ ~closed) \in BOOLEAN
      BY DEF SemInv, SemTypeOK
    <2>3. standing[n] = "none" /\ \A m \in Calls \ {n} : standing[m] = acq[m]
      BY DEF SemInv, SemTypeOK
    <2> HIDE DEF standing
    <2>4. \A m \in Calls :
            acq'[m] = standing[m] \/ (acq[m] = "waiting" /\ acq'[m] = "granted")
      BY <2>1, <2>2, FlushServesWaiters
    <2>5. QED
      BY <2>1, <2>3, <2>4
  <1>3. ASSUME Leave(n)
        PROVE  /\ acq[n] = "denied" /\ acq'[n] = "none"
               /\ \A m \in Calls \ {n} : acq'[m] = acq[m]
               /\ UNCHANGED <<paused, closed>>
    BY <1>3 DEF Leave, SemInv, SemTypeOK
  <1>4. QED
    BY <1>1, <1>2, <1>3 DEF Finally

(* A step about one live call, or about a new one while the run has not    *)
(* been stopped, needs to be looked at for that call only.                 *)
LEMMA OneCallStep ==
  ASSUME Inv, NEW n \in Calls, OnlyCall(n), phase # "ended",
         \/ n \in Live /\ counter' = counter
         \/ n = counter + 1 /\ counter' = n /\ ~closed,
         CallConsistent(n)'
  PROVE  RunInv'
  <1> USE DEF Inv, OnlyCall
  <1>1. ASSUME NEW m \in Calls PROVE CallConsistent(m)'
    <2>1. CASE m = n
      BY <2>1
    <2>2. CASE m # n
      <3>1. CallConsistent(m)
        BY DEF RunInv
      <3>2. /\ pc'[m] = pc[m] /\ outcome'[m] = outcome[m] /\ exec'[m] = exec[m]
            /\ worktree'[m] = worktree[m] /\ journal'[m] = journal[m]
            /\ result'[m] = result[m] /\ aborted' = aborted
            /\ acq'[m] = acq[m] \/ (acq[m] = "waiting" /\ acq'[m] = "granted")
        BY <2>2
      <3>3. QED
        BY <3>1, <3>2 DEF CallConsistent
    <2>3. QED
      BY <2>1, <2>2
  <1>2. ASSUME NEW m \in Calls, m > counter' PROVE pc'[m] = "uncalled"
    <2>1. n \in Nat /\ m \in Nat /\ counter \in Nat
      BY CallsAreOrdinals, BoundsAssumption DEF TypeOK, CallTypeOK
    <2>2. CASE counter' = counter /\ n \in Live
      <3>1. pc[m] = "uncalled"
        BY <1>2, <2>2 DEF RunInv, RunConsistent
      <3>2. m # n
        BY <2>2, <3>1 DEF Live
      <3>3. QED
        BY <3>1, <3>2
    <2>3. CASE n = counter + 1 /\ counter' = n
      <3>1. m # n /\ m > counter
        BY <1>2, <2>1, <2>3
      <3>2. QED
        BY <3>1 DEF RunInv, RunConsistent
    <2>4. QED
      BY <2>2, <2>3
  <1>3. closed' => Live' \subseteq aborted'
    BY DEF RunInv, RunConsistent, Live, stopped
  <1>4. QED
    BY <1>1, <1>2, <1>3 DEF RunInv, RunConsistent, stopped

(* Types through the end of a call. *)
LEMMA EndTypes ==
  ASSUME Inv, NEW n \in Calls, NEW s \in Ended, NEW u \in 0..MaxUsage,
         End(n, s, u),
         outcome' \in [Calls -> {"none", "aborted", "ok", "failed"}],
         exec' \in [Calls -> {"none", "live", "exited"}],
         finalUsage' \in [Calls -> {NoUsage} \cup 0..MaxUsage],
         worktree' \in [Calls -> {"none", "present", "removed", "kept"}]
  PROVE  CallTypeOK' /\ RunTypeOK'
  <1>1. /\ journal' = [journal EXCEPT ![n] = s]
        /\ ledger' = [ledger EXCEPT ![n] = u]
        /\ result' = [result EXCEPT ![n] = IF s = "ok" THEN "value" ELSE "null"]
        /\ pc' = [pc EXCEPT ![n] = "settled"]
        /\ awake' = TRUE
        /\ UNCHANGED <<counter, aborted, yielding, batch, runVars>>
    BY FinallyEffect DEF End, Inv
  <1>2. CallTypeOK'
    BY <1>1 DEF Inv, TypeOK, CallTypeOK, Ended
  <1>3. RunTypeOK'
    BY <1>1 DEF Inv, TypeOK, RunTypeOK, runVars
  <1>4. QED
    BY <1>2, <1>3

LEMMA ConcludeTypes ==
  ASSUME Inv, NEW n \in Calls, NEW how \in {"aborted", "ok", "failed"},
         NEW u \in {NoUsage} \cup 0..MaxUsage,
         Conclude(n, how, u),
         exec' \in [Calls -> {"none", "live", "exited"}],
         worktree' = worktree
  PROVE  CallTypeOK' /\ RunTypeOK'
  <1>1. /\ outcome' \in [Calls -> {"none", "aborted", "ok", "failed"}]
        /\ finalUsage' \in [Calls -> {NoUsage} \cup 0..MaxUsage]
        /\ worktree' \in [Calls -> {"none", "present", "removed", "kept"}]
    BY DEF Conclude, Inv, TypeOK, CallTypeOK
  <1>2. Status(how) \in Ended /\ Charged(n, u) \in 0..MaxUsage
    BY DEF Status, Ended, Charged, Inv, TypeOK, CallTypeOK
  <1>3. CASE End(n, Status(how), Charged(n, u))
    BY <1>1, <1>2, <1>3, EndTypes DEF Inv, TypeOK, CallTypeOK
  <1>4. CASE /\ pc' = [pc EXCEPT ![n] = "cleanup"]
             /\ UNCHANGED <<semVars, counter, aborted, ledger, journal, result,
                            runVars, loopVars>>
    <2>1. CallTypeOK'
      BY <1>1, <1>4 DEF Inv, TypeOK, CallTypeOK, Ended
    <2>2. RunTypeOK'
      BY <1>4 DEF Inv, TypeOK, RunTypeOK, runVars, loopVars
    <2>3. QED
      BY <2>1, <2>2
  <1>5. QED
    BY <1>3, <1>4 DEF Conclude

(* The end of a live call keeps the run consistent if it leaves no         *)
(* worktree in place and no executor but one it gave up on.                *)
LEMMA EndKeeps ==
  ASSUME Inv, NEW n \in Live, NEW s \in Ended, NEW u, End(n, s, u), Running,
         \A m \in Calls \ {n} :
            /\ outcome'[m] = outcome[m]
            /\ exec'[m] = exec[m]
            /\ worktree'[m] = worktree[m],
         worktree'[n] # "present",
         outcome'[n] = "aborted" => n \in aborted,
         exec'[n] = "live" => outcome'[n] = "aborted" /\ s = "skipped"
  PROVE  RunInv'
  <1>1. n \in Calls
    BY DEF Live
  <1>2. /\ pc' = [pc EXCEPT ![n] = "settled"]
        /\ journal' = [journal EXCEPT ![n] = s]
        /\ result' = [result EXCEPT ![n] = IF s = "ok" THEN "value" ELSE "null"]
        /\ acq'[n] = "none"
        /\ \A m \in Calls \ {n} :
              acq'[m] = acq[m] \/ (acq[m] = "waiting" /\ acq'[m] = "granted")
        /\ UNCHANGED <<closed, counter, aborted, phase>>
    BY <1>1, FinallyEffect DEF End, Inv, runVars
  <1>3. /\ pc'[n] = "settled" /\ journal'[n] = s
        /\ \A m \in Calls \ {n} :
              pc'[m] = pc[m] /\ journal'[m] = journal[m] /\ result'[m] = result[m]
    BY <1>1, <1>2 DEF Inv, TypeOK, CallTypeOK
  <1>4. OnlyCall(n)
    BY <1>2, <1>3 DEF OnlyCall
  <1>5. CallConsistent(n)'
    BY <1>2, <1>3 DEF CallConsistent, Ended
  <1>6. QED
    BY <1>1, <1>2, <1>4, <1>5, OneCallStep DEF Running

(* What the race decides keeps the run consistent.                         *)
LEMMA ConcludeKeeps ==
  ASSUME Inv, NEW n \in Calls, NEW how \in {"aborted", "ok", "failed"}, NEW u,
         Conclude(n, how, u), Running,
         pc[n] \in {"running", "grace"},
         how = "aborted" => n \in aborted,
         worktree' = worktree,
         \A m \in Calls \ {n} : exec'[m] = exec[m],
         exec'[n] = "live" => how = "aborted"
  PROVE  RunInv'
  <1>1. n \in Live /\ CallConsistent(n)
    BY DEF Live, Inv, RunInv
  <1>2. outcome'[n] = how /\ \A m \in Calls \ {n} : outcome'[m] = outcome[m]
    BY DEF Conclude, Inv, TypeOK, CallTypeOK
  <1>3. CASE worktree[n] = "none" /\ End(n, Status(how), Charged(n, u))
    <2>1. Status(how) \in Ended /\ (how = "aborted" => Status(how) = "skipped")
      BY DEF Status, Ended
    <2>2. QED
      BY <1>1, <1>2, <1>3, <2>1, EndKeeps
  <1>4. CASE /\ worktree[n] = "present"
             /\ pc' = [pc EXCEPT ![n] = "cleanup"]
             /\ UNCHANGED <<semVars, counter, aborted, ledger, journal, result,
                            runVars, loopVars>>
    <2>1. pc'[n] = "cleanup" /\ \A m \in Calls \ {n} : pc'[m] = pc[m]
      BY <1>4 DEF Inv, TypeOK, CallTypeOK
    <2>2. UNCHANGED <<acq, closed, counter, aborted, journal, result, phase>>
      BY <1>4 DEF semVars, runVars
    <2>3. OnlyCall(n)
      BY <1>2, <2>1, <2>2 DEF OnlyCall
    <2>4. CallConsistent(n)'
      BY <1>1, <1>2, <1>4, <2>1, <2>2 DEF CallConsistent
    <2>5. QED
      BY <1>1, <2>2, <2>3, <2>4, OneCallStep DEF Running
  <1>5. QED
    BY <1>3, <1>4 DEF Conclude

(* Aborting calls changes nothing but which of them are in their grace.    *)
LEMMA AbortKeeps ==
  ASSUME Inv, NEW A \in SUBSET Calls, Abort(A),
         \A m \in Calls :
            \/ acq'[m] = acq[m]
            \/ (acq[m] = "waiting" /\ acq'[m] = "denied")
  PROVE  /\ \A m \in Calls : CallConsistent(m)'
         /\ Live' = Live
         /\ \A m \in Calls : m > counter' => pc'[m] = "uncalled"
         /\ CallTypeOK'
  <1>1. /\ aborted' = aborted \cup A
        /\ pc' = [m \in Calls |-> IF m \in A /\ pc[m] = "running" THEN "grace"
                                                                  ELSE pc[m]]
        /\ UNCHANGED <<counter, outcome, exec, finalUsage, ledger, worktree,
                       journal, result>>
    BY DEF Abort
  <1>2. ASSUME NEW m \in Calls PROVE CallConsistent(m)'
    <2>1. CallConsistent(m)
      BY DEF Inv, RunInv
    <2>2. /\ pc'[m] = IF m \in A /\ pc[m] = "running" THEN "grace" ELSE pc[m]
          /\ outcome'[m] = outcome[m] /\ exec'[m] = exec[m]
          /\ worktree'[m] = worktree[m] /\ journal'[m] = journal[m]
          /\ result'[m] = result[m]
      BY <1>1
    <2>3. CASE m \in A /\ pc[m] = "running"
      BY <1>1, <2>1, <2>2, <2>3 DEF CallConsistent
    <2>4. CASE ~(m \in A /\ pc[m] = "running")
      BY <1>1, <2>1, <2>2, <2>4 DEF CallConsistent
    <2>5. QED
      BY <2>3, <2>4
  <1>3. Live' = Live
    BY <1>1 DEF Live
  <1>4. \A m \in Calls : m > counter' => pc'[m] = "uncalled"
    BY <1>1 DEF Inv, RunInv, RunConsistent
  <1>5. CallTypeOK'
    BY <1>1 DEF Inv, TypeOK, CallTypeOK, Ended
  <1>6. QED
    BY <1>2, <1>3, <1>4, <1>5

(* The script: a new call, or a step that concerns no call. *)
LEMMA CallKeeps ==
  ASSUME Inv, Call
  PROVE  CallTypeOK' /\ RunTypeOK' /\ RunInv'
  <1> USE DEF Inv
  <1>1. PICK n \in Calls : n = counter + 1
    BY DEF Call
  <1>2. /\ counter' = n /\ ~closed /\ Running
        /\ UNCHANGED <<aborted, outcome, exec, finalUsage, ledger, worktree,
                       journal, runVars, loopVars>>
    BY <1>1 DEF Call, Microtask, stopped
  <1>3. counter \in Nat /\ n \in 0..MaxCalls /\ n > counter
    BY <1>1, CallsAreOrdinals, BoundsAssumption DEF TypeOK, CallTypeOK
  <1>4. pc[n] = "uncalled" /\ CallConsistent(n)
    BY <1>2, <1>3 DEF RunInv, RunConsistent
  <1>5. RunTypeOK'
    BY <1>2 DEF TypeOK, RunTypeOK, runVars, loopVars
  <1>6. CASE /\ pc' = [pc EXCEPT ![n] = "settled"]
             /\ result' = [result EXCEPT ![n] = "throw"]
             /\ UNCHANGED semVars
    <2>1. /\ pc'[n] = "settled" /\ result'[n] = "throw"
          /\ \A m \in Calls \ {n} : pc'[m] = pc[m] /\ result'[m] = result[m]
          /\ acq' = acq /\ closed' = closed /\ phase' = phase
      BY <1>2, <1>6 DEF TypeOK, CallTypeOK, semVars, runVars
    <2>2. OnlyCall(n)
      BY <1>2, <2>1 DEF OnlyCall
    <2>3. CallConsistent(n)'
      BY <1>2, <1>4, <2>1 DEF CallConsistent
    <2>4. CallTypeOK'
      BY <1>2, <1>3, <1>6 DEF TypeOK, CallTypeOK
    <2>5. RunInv'
      BY <1>1, <1>2, <2>2, <2>3, OneCallStep DEF Running
    <2>6. QED
      BY <1>5, <2>4, <2>5
  <1>7. CASE /\ pc' = [pc EXCEPT ![n] = "acquiring"]
             /\ Acquire(n)
             /\ UNCHANGED result
    <2>1. /\ pc'[n] = "acquiring" /\ acq'[n] # "none"
          /\ \A m \in Calls \ {n} : pc'[m] = pc[m] /\ acq'[m] = acq[m]
          /\ result' = result /\ closed' = closed /\ phase' = phase
      BY <1>2, <1>7 DEF TypeOK, CallTypeOK, SemTypeOK, runVars, Acquire
    <2>2. OnlyCall(n)
      BY <1>2, <2>1 DEF OnlyCall
    <2>3. CallConsistent(n)'
      BY <1>2, <1>4, <2>1 DEF CallConsistent
    <2>4. CallTypeOK'
      BY <1>2, <1>3, <1>7 DEF TypeOK, CallTypeOK
    <2>5. RunInv'
      BY <1>1, <1>2, <2>2, <2>3, OneCallStep DEF Running
    <2>6. QED
      BY <1>5, <2>4, <2>5
  <1>8. QED
    BY <1>1, <1>6, <1>7 DEF Call

LEMMA NoCallKeeps ==
  ASSUME Inv, UNCHANGED <<acq, closed, callVars, phase>>, phase # "ended"
  PROVE  CallTypeOK' /\ RunInv'
  <1>1. CallTypeOK'
    BY DEF Inv, TypeOK, CallTypeOK, callVars
  <1>2. ASSUME NEW m \in Calls PROVE CallConsistent(m)'
    <2>1. CallConsistent(m)
      BY DEF Inv, RunInv
    <2>2. QED
      BY <2>1 DEF CallConsistent, callVars
  <1>3. RunConsistent'
    BY DEF Inv, RunInv, RunConsistent, Live, stopped, callVars
  <1>4. QED
    BY <1>1, <1>2, <1>3 DEF RunInv

LEMMA ScriptKeeps ==
  ASSUME Inv, Script \/ YieldReturns
  PROVE  CallTypeOK' /\ RunTypeOK' /\ RunInv'
  <1>1. CASE Call
    BY <1>1, CallKeeps
  <1>2. CASE CallStopped \/ YieldReturns \/ Await \/ BodySettles
    <2>1. /\ UNCHANGED <<acq, closed, callVars, phase>>
          /\ phase # "ended"
      BY <1>2 DEF CallStopped, YieldReturns, Await, BodySettles, Microtask,
                  Running, semVars, runVars
    <2>2. RunTypeOK'
      BY <1>2 DEF CallStopped, YieldReturns, Await, BodySettles, Inv, TypeOK,
                  RunTypeOK, runVars
    <2>3. QED
      BY <2>1, <2>2, NoCallKeeps
  <1>3. QED
    BY <1>1, <1>2 DEF Script

(* The continuation of a call whose acquire() was answered. *)
LEMMA ContinuationKeeps ==
  ASSUME Inv, NEW n \in Calls, Continuation(n)
  PROVE  CallTypeOK' /\ RunTypeOK' /\ RunInv'
  <1> USE DEF Inv
  <1>1. /\ pc[n] = "acquiring" /\ Running /\ n \in Live
        /\ CallConsistent(n)
    BY DEF Continuation, RefuseOverBudget, EndSkippedInQueue, EndUnrunnable,
           CreateWorktree, RunExecutor, Admissible, Ready, Microtask, Live, RunInv
  <1>2. CASE RefuseOverBudget(n)
    <2>1. /\ result' = [result EXCEPT ![n] = "throw"]
          /\ Finally(n)
          /\ UNCHANGED <<outcome, exec, finalUsage, ledger, worktree, journal>>
      BY <1>2 DEF RefuseOverBudget
    <2>2. /\ pc' = [pc EXCEPT ![n] = "settled"]
          /\ acq'[n] = "none"
          /\ \A m \in Calls \ {n} :
                acq'[m] = acq[m] \/ (acq[m] = "waiting" /\ acq'[m] = "granted")
          /\ awake' = TRUE
          /\ UNCHANGED <<closed, counter, aborted, yielding, batch, runVars>>
      BY <2>1, FinallyEffect
    <2>3. /\ pc'[n] = "settled"
          /\ \A m \in Calls \ {n} : pc'[m] = pc[m] /\ result'[m] = result[m]
      BY <2>1, <2>2 DEF TypeOK, CallTypeOK
    <2>4. OnlyCall(n)
      BY <2>1, <2>2, <2>3 DEF OnlyCall, runVars
    <2>5. CallConsistent(n)'
      BY <1>1, <2>1, <2>2, <2>3 DEF CallConsistent
    <2>6. RunInv'
      BY <1>1, <2>2, <2>4, <2>5, OneCallStep DEF Running
    <2>7. CallTypeOK'
      BY <2>1, <2>2 DEF TypeOK, CallTypeOK
    <2>8. RunTypeOK'
      BY <2>2 DEF TypeOK, RunTypeOK, runVars
    <2>9. QED
      BY <2>6, <2>7, <2>8
  <1>3. ASSUME NEW s \in {"skipped", "failed"}, End(n, s, ledger[n]),
               UNCHANGED <<outcome, exec, finalUsage, worktree>>
        PROVE  CallTypeOK' /\ RunTypeOK' /\ RunInv'
    <2>1. s \in Ended /\ ledger[n] \in 0..MaxUsage
      BY DEF Ended, TypeOK, CallTypeOK
    <2>2. CallTypeOK' /\ RunTypeOK'
      BY <1>3, <2>1, EndTypes DEF TypeOK, CallTypeOK
    <2>3. /\ worktree'[n] # "present" /\ exec'[n] # "live"
          /\ outcome'[n] = "aborted" => n \in aborted
      BY <1>1, <1>3 DEF CallConsistent
    <2>4. RunInv'
      BY <1>1, <1>3, <2>1, <2>3, EndKeeps
    <2>5. QED
      BY <2>2, <2>4
  <1>4. CASE EndSkippedInQueue(n) \/ EndUnrunnable(n)
    BY <1>3, <1>4 DEF EndSkippedInQueue, EndUnrunnable
  <1>5. CASE CreateWorktree(n) \/ RunExecutor(n)
    <2>1. /\ acq[n] = "granted" /\ n \notin aborted
          /\ journal' = [journal EXCEPT ![n] = "started"]
          /\ UNCHANGED <<semVars, counter, aborted, outcome, finalUsage, ledger,
                         worktree, result, runVars, loopVars>>
          /\ \/ pc' = [pc EXCEPT ![n] = "creating"] /\ exec' = exec
             \/ /\ pc' = [pc EXCEPT ![n] = "running"]
                /\ exec' = [exec EXCEPT ![n] = "live"]
      BY <1>5 DEF CreateWorktree, RunExecutor
    <2>2. CallTypeOK'
      BY <2>1 DEF TypeOK, CallTypeOK, Ended
    <2>3. RunTypeOK'
      BY <2>1 DEF TypeOK, RunTypeOK, runVars, loopVars
    <2>4. OnlyCall(n)
      BY <2>1 DEF OnlyCall, TypeOK, CallTypeOK, semVars, runVars
    <2>5. /\ journal'[n] = "started" /\ acq'[n] = "granted"
          /\ \/ pc'[n] = "creating" /\ exec'[n] = exec[n]
             \/ pc'[n] = "running" /\ exec'[n] = "live"
      BY <2>1 DEF TypeOK, CallTypeOK, semVars
    <2>6. CallConsistent(n)'
      BY <1>1, <2>1, <2>5 DEF CallConsistent
    <2>7. RunInv'
      BY <1>1, <2>1, <2>4, <2>6, OneCallStep DEF Running
    <2>8. QED
      BY <2>2, <2>3, <2>7
  <1>6. QED
    BY <1>2, <1>4, <1>5 DEF Continuation

(* git answers. *)
LEMMA GitStepKeeps ==
  ASSUME Inv, NEW n \in Calls, GitStep(n)
  PROVE  CallTypeOK' /\ RunTypeOK' /\ RunInv'
  <1> USE DEF Inv
  <1>1. Running /\ n \in Live /\ CallConsistent(n)
    BY DEF GitStep, WorktreeCreated, WorktreeFailed, WorktreeCleaned, Idle,
           Microtask, Live, RunInv
  <1>2. CASE WorktreeCreated(n)
    <2>1. /\ pc[n] = "creating"
          /\ worktree' = [worktree EXCEPT ![n] = "present"]
          /\ exec' = [exec EXCEPT ![n] = "live"]
          /\ pc' = [pc EXCEPT ![n] = IF n \in aborted THEN "grace" ELSE "running"]
          /\ UNCHANGED <<semVars, counter, aborted, outcome, finalUsage, ledger,
                         journal, result, runVars, loopVars>>
      BY <1>2 DEF WorktreeCreated
    <2>2. CallTypeOK'
      BY <2>1 DEF TypeOK, CallTypeOK
    <2>3. RunTypeOK'
      BY <2>1 DEF TypeOK, RunTypeOK, runVars, loopVars
    <2>4. OnlyCall(n)
      BY <2>1 DEF OnlyCall, TypeOK, CallTypeOK, semVars, runVars
    <2>5. /\ worktree'[n] = "present" /\ exec'[n] = "live" /\ acq' = acq
          /\ pc'[n] = IF n \in aborted THEN "grace" ELSE "running"
      BY <2>1 DEF TypeOK, CallTypeOK, semVars
    <2>6. CallConsistent(n)'
      BY <1>1, <2>1, <2>5 DEF CallConsistent
    <2>7. RunInv'
      BY <1>1, <2>1, <2>4, <2>6, OneCallStep DEF Running
    <2>8. QED
      BY <2>2, <2>3, <2>7
  <1>3. CASE WorktreeFailed(n)
    <2>1. /\ pc[n] = "creating" /\ End(n, "failed", ledger[n])
          /\ UNCHANGED <<outcome, exec, finalUsage, worktree>>
      BY <1>3 DEF WorktreeFailed
    <2>2. "failed" \in Ended /\ ledger[n] \in 0..MaxUsage
      BY DEF Ended, TypeOK, CallTypeOK
    <2>3. CallTypeOK' /\ RunTypeOK'
      BY <2>1, <2>2, EndTypes DEF TypeOK, CallTypeOK
    <2>4. /\ worktree'[n] # "present" /\ exec'[n] # "live"
          /\ outcome'[n] = "aborted" => n \in aborted
      BY <1>1, <2>1 DEF CallConsistent
    <2>5. RunInv'
      BY <1>1, <2>1, <2>2, <2>4, EndKeeps
    <2>6. QED
      BY <2>3, <2>5
  <1>4. CASE WorktreeCleaned(n)
    <2>1. /\ pc[n] = "cleanup"
          /\ End(n, Status(outcome[n]), Charged(n, finalUsage[n]))
          /\ UNCHANGED <<outcome, exec, finalUsage>>
      BY <1>4 DEF WorktreeCleaned
    <2>2. PICK left \in {"removed", "kept"} :
             worktree' = [worktree EXCEPT ![n] = left]
      BY <1>4 DEF WorktreeCleaned
    <2>3. outcome[n] \in {"aborted", "ok", "failed"}
      BY <1>1, <2>1 DEF CallConsistent, TypeOK, CallTypeOK
    <2>4. /\ Status(outcome[n]) \in Ended
          /\ outcome[n] = "aborted" => Status(outcome[n]) = "skipped"
      BY <2>3 DEF Status, Ended
    <2>5. Charged(n, finalUsage[n]) \in 0..MaxUsage
      BY DEF Charged, TypeOK, CallTypeOK
    <2>6. CallTypeOK' /\ RunTypeOK'
      BY <2>1, <2>2, <2>4, <2>5, EndTypes DEF TypeOK, CallTypeOK
    <2>7. /\ worktree'[n] # "present"
          /\ \A m \in Calls \ {n} : worktree'[m] = worktree[m]
      BY <2>2 DEF TypeOK, CallTypeOK
    <2>8. /\ outcome'[n] = "aborted" => n \in aborted
          /\ exec'[n] = "live" => outcome'[n] = "aborted"
      BY <1>1, <2>1 DEF CallConsistent
    <2>9. RunInv'
      BY <1>1, <2>1, <2>4, <2>7, <2>8, EndKeeps
    <2>10. QED
      BY <2>6, <2>9
  <1>5. QED
    BY <1>2, <1>3, <1>4 DEF GitStep

(* The executor reports usage, settles, or is given up.                    *)
LEMMA ExecutorKeeps ==
  ASSUME Inv, NEW n \in Calls,
         ReportUsage(n) \/ ExecutorSettles(n) \/ TeardownDeadline(n)
  PROVE  CallTypeOK' /\ RunTypeOK' /\ RunInv'
  <1> USE DEF Inv
  <1>1. Running /\ CallConsistent(n)
    BY DEF ReportUsage, ExecutorSettles, TeardownDeadline, Idle, Microtask, RunInv
  <1>2. CASE ReportUsage(n)
    <2>1. PICK u \in 0..MaxUsage : ledger' = [ledger EXCEPT ![n] = u]
      BY <1>2 DEF ReportUsage
    <2>2. UNCHANGED <<semVars, counter, pc, aborted, outcome, exec, finalUsage,
                      worktree, journal, result, runVars, loopVars>>
      BY <1>2 DEF ReportUsage
    <2>3. CallTypeOK'
      BY <2>1, <2>2 DEF TypeOK, CallTypeOK
    <2>4. RunTypeOK'
      BY <2>2 DEF TypeOK, RunTypeOK, runVars, loopVars
    <2>5. ASSUME NEW m \in Calls PROVE CallConsistent(m)'
      <3>1. CallConsistent(m)
        BY DEF RunInv
      <3>2. QED
        BY <2>2, <3>1 DEF CallConsistent, semVars
    <2>6. RunConsistent'
      BY <2>2 DEF RunInv, RunConsistent, Live, stopped, semVars, runVars, loopVars
    <2>7. QED
      BY <2>3, <2>4, <2>5, <2>6 DEF RunInv
  <1>3. CASE ExecutorSettles(n)
    <2>1. /\ exec' = [exec EXCEPT ![n] = "exited"] /\ worktree' = worktree
      BY <1>3 DEF ExecutorSettles
    <2>2. /\ exec' \in [Calls -> {"none", "live", "exited"}]
          /\ exec'[n] = "exited"
          /\ \A m \in Calls \ {n} : exec'[m] = exec[m]
      BY <2>1 DEF TypeOK, CallTypeOK
    <2>3. ASSUME pc[n] = "running", NEW how \in {"ok", "failed"},
                 NEW u \in {NoUsage} \cup 0..MaxUsage, Conclude(n, how, u)
          PROVE  CallTypeOK' /\ RunTypeOK' /\ RunInv'
      <3>1. CallTypeOK' /\ RunTypeOK'
        BY <2>1, <2>2, <2>3, ConcludeTypes
      <3>2. RunInv'
        BY <1>1, <2>1, <2>2, <2>3, ConcludeKeeps
      <3>3. QED
        BY <3>1, <3>2
    <2>4. ASSUME pc[n] = "grace", NEW u \in {NoUsage} \cup 0..MaxUsage,
                 Conclude(n, "aborted", u)
          PROVE  CallTypeOK' /\ RunTypeOK' /\ RunInv'
      <3>1. n \in aborted
        BY <1>1, <2>4 DEF CallConsistent
      <3>2. CallTypeOK' /\ RunTypeOK'
        BY <2>1, <2>2, <2>4, ConcludeTypes
      <3>3. RunInv'
        BY <1>1, <2>1, <2>2, <2>4, <3>1, ConcludeKeeps
      <3>4. QED
        BY <3>2, <3>3
    <2>5. CASE /\ pc[n] \in {"cleanup", "settled"}
               /\ UNCHANGED <<semVars, counter, pc, aborted, outcome, finalUsage,
                              ledger, journal, result, runVars, loopVars>>
      <3>1. CallTypeOK'
        BY <2>1, <2>2, <2>5 DEF TypeOK, CallTypeOK
      <3>2. RunTypeOK'
        BY <2>5 DEF TypeOK, RunTypeOK, runVars, loopVars
      <3>3. ASSUME NEW m \in Calls PROVE CallConsistent(m)'
        <4>1. CallConsistent(m)
          BY DEF RunInv
        <4>2. \/ exec'[m] = exec[m]
              \/ exec'[m] = "exited" /\ pc[m] \in {"cleanup", "settled"}
          BY <2>2, <2>5
        <4>3. QED
          BY <2>1, <2>5, <4>1, <4>2 DEF CallConsistent, semVars
      <3>4. RunConsistent'
        BY <2>5 DEF RunInv, RunConsistent, Live, stopped, semVars, runVars, loopVars
      <3>5. QED
        BY <3>1, <3>2, <3>3, <3>4 DEF RunInv
    <2>6. QED
      BY <1>3, <2>3, <2>4, <2>5 DEF ExecutorSettles
  <1>4. CASE TeardownDeadline(n)
    <2>1. /\ pc[n] = "grace" /\ Conclude(n, "aborted", NoUsage)
          /\ exec' = exec /\ worktree' = worktree
      BY <1>4 DEF TeardownDeadline
    <2>2. n \in aborted
      BY <1>1, <2>1 DEF CallConsistent
    <2>3. CallTypeOK' /\ RunTypeOK'
      BY <2>1, ConcludeTypes DEF TypeOK, CallTypeOK
    <2>4. RunInv'
      BY <1>1, <2>1, <2>2, ConcludeKeeps
    <2>5. QED
      BY <2>3, <2>4
  <1>5. QED
    BY <1>2, <1>3, <1>4

(* A step that only grants waiting calls, or nothing, keeps every call     *)
(* consistent.                                                             *)
LEMMA GrantsKeep ==
  ASSUME Inv, UNCHANGED <<callVars, closed, phase, timedOut>>,
         phase = "ended" => batch' = 0,
         \A m \in Calls :
            acq'[m] = acq[m] \/ (acq[m] = "waiting" /\ acq'[m] = "granted")
  PROVE  CallTypeOK' /\ RunInv'
  <1> USE DEF Inv
  <1>1. CallTypeOK'
    BY DEF TypeOK, CallTypeOK, callVars
  <1>2. ASSUME NEW m \in Calls PROVE CallConsistent(m)'
    <2>1. CallConsistent(m)
      BY DEF RunInv
    <2>2. QED
      BY <2>1 DEF CallConsistent, callVars
  <1>3. RunConsistent'
    BY DEF RunInv, RunConsistent, Live, stopped, callVars
  <1>4. QED
    BY <1>1, <1>2, <1>3 DEF RunInv

(* A control command arrives: the run has not ended.                       *)
LEMMA DispatchFacts ==
  ASSUME Inv, Dispatch
  PROVE  batch' \in 0..MaxBatch /\ phase # "ended"
  <1>1. CASE batch > 0 /\ batch' = batch - 1
    BY <1>1, BoundsAssumption
    DEF Inv, TypeOK, RunTypeOK, RunInv, RunConsistent
  <1>2. CASE Idle /\ batch' \in 0..MaxBatch - 1
    BY <1>2, BoundsAssumption DEF Idle, Microtask, Running
  <1>3. QED
    BY <1>1, <1>2 DEF Dispatch

(* Stopping the controller aborts every live call.                         *)
LEMMA StopKeeps ==
  ASSUME Inv, StopController
  PROVE  /\ CallTypeOK' /\ closed' = TRUE
         /\ \A m \in Calls : CallConsistent(m)'
         /\ \A m \in Calls : m > counter' => pc'[m] = "uncalled"
         /\ Live' = Live /\ Live' \subseteq aborted'
  <1> USE DEF Inv
  <1>1. CASE closed /\ UNCHANGED <<semVars, callVars>>
    <2>1. CallTypeOK'
      BY <1>1 DEF TypeOK, CallTypeOK, callVars
    <2>2. ASSUME NEW m \in Calls PROVE CallConsistent(m)'
      <3>1. CallConsistent(m)
        BY DEF RunInv
      <3>2. QED
        BY <1>1, <3>1 DEF CallConsistent, callVars, semVars
    <2>3. /\ \A m \in Calls : m > counter' => pc'[m] = "uncalled"
          /\ Live' = Live /\ Live' \subseteq aborted'
      BY <1>1 DEF RunInv, RunConsistent, Live, stopped, callVars
    <2>4. closed' = TRUE
      BY <1>1 DEF TypeOK, SemTypeOK, semVars
    <2>5. QED
      BY <2>1, <2>2, <2>3, <2>4
  <1>2. CASE Close /\ Abort(Live)
    <2>1. \A m \in Calls :
            acq'[m] = acq[m] \/ (acq[m] = "waiting" /\ acq'[m] = "denied")
      BY <1>2 DEF Close
    <2>2. Live \in SUBSET Calls
      BY DEF Live
    <2>3. /\ \A m \in Calls : CallConsistent(m)'
          /\ Live' = Live
          /\ \A m \in Calls : m > counter' => pc'[m] = "uncalled"
          /\ CallTypeOK'
      BY <1>2, <2>1, <2>2, AbortKeeps
    <2>4. Live' \subseteq aborted'
      BY <1>2, <2>3 DEF Abort
    <2>5. closed' = TRUE
      BY <1>2 DEF Close
    <2>6. QED
      BY <2>3, <2>4, <2>5
  <1>3. QED
    BY <1>1, <1>2 DEF StopController, stopped

LEMMA CommandKeeps ==
  ASSUME Inv, Command
  PROVE  CallTypeOK' /\ RunTypeOK' /\ RunInv'
  <1> USE DEF Inv
  <1>1. /\ batch' \in 0..MaxBatch /\ phase # "ended"
        /\ UNCHANGED <<awake, yielding, body, phase, runStatus, timedOut>>
    BY DispatchFacts
    DEF Command, PauseRun, ResumeRun, RequestStop, SkipCall, runVars
  <1>2. external' \in {"none", "stopped", "failed"}
    BY DEF Command, PauseRun, ResumeRun, RequestStop, SkipCall, runVars,
           SettleExternal, TypeOK, RunTypeOK
  <1>3. RunTypeOK'
    BY <1>1, <1>2 DEF TypeOK, RunTypeOK
  <1>4. CASE PauseRun
    <2>1. UNCHANGED <<acq, closed, callVars>>
      BY <1>4 DEF PauseRun, Pause, semVars
    <2>2. QED
      BY <1>1, <1>3, <2>1, GrantsKeep
  <1>5. CASE ResumeRun
    <2>1. UNCHANGED <<closed, callVars>>
      BY <1>5 DEF ResumeRun, Resume, semVars
    <2>2. ASSUME NEW m \in Calls
          PROVE  acq'[m] = acq[m] \/ (acq[m] = "waiting" /\ acq'[m] = "granted")
      <3>1. CASE UNCHANGED semVars
        BY <3>1 DEF semVars
      <3>2. CASE Resume
        <4>1. Flush(available, ~closed, acq)
          BY <3>2 DEF Resume
        <4>2. available \in Nat /\ (~closed) \in BOOLEAN
          BY DEF SemInv, SemTypeOK
        <4>3. QED
          BY <4>1, <4>2, FlushServesWaiters
      <3>3. QED
        BY <1>5, <3>1, <3>2 DEF ResumeRun
    <2>3. QED
      BY <1>1, <1>3, <2>1, <2>2, GrantsKeep
  <1>6. ASSUME NEW n \in Calls, SkipCall(n)
        PROVE  CallTypeOK' /\ RunInv'
    <2>1. Abort({n} \cap Live) /\ closed' = closed
      BY <1>6 DEF SkipCall, Withdraw, semVars
    <2>2. \A m \in Calls :
            acq'[m] = acq[m] \/ (acq[m] = "waiting" /\ acq'[m] = "denied")
      BY <1>6 DEF SkipCall, Withdraw, semVars, SemInv, SemTypeOK
    <2>3. ({n} \cap Live) \in SUBSET Calls
      OBVIOUS
    <2>4. /\ \A m \in Calls : CallConsistent(m)'
          /\ Live' = Live
          /\ \A m \in Calls : m > counter' => pc'[m] = "uncalled"
          /\ CallTypeOK'
      BY <2>1, <2>2, <2>3, AbortKeeps
    <2>5. aborted \subseteq aborted'
      BY <2>1 DEF Abort
    <2>6. RunConsistent'
      BY <1>1, <2>1, <2>4, <2>5 DEF RunInv, RunConsistent, stopped
    <2>7. QED
      BY <2>4, <2>6 DEF RunInv
  <1>7. CASE RequestStop
    <2>1. StopController
      BY <1>7 DEF RequestStop
    <2>2. RunConsistent'
      BY <1>1, <2>1, StopKeeps DEF RunConsistent, stopped
    <2>3. QED
      BY <1>3, <2>1, <2>2, StopKeeps DEF RunInv
  <1>8. QED
    BY <1>3, <1>4, <1>5, <1>6, <1>7 DEF Command

(* An uncaught error, the teardown and the two ways to its run_end.        *)
LEMMA TeardownKeeps ==
  ASSUME Inv, Uncaught \/ Teardown \/ Drained \/ DrainDeadline
  PROVE  CallTypeOK' /\ RunTypeOK' /\ RunInv'
  <1> USE DEF Inv
  <1>1. CASE Uncaught
    <2>1. /\ StopController /\ phase # "ended"
          /\ UNCHANGED <<body, phase, runStatus, timedOut, loopVars>>
      BY <1>1 DEF Uncaught, Idle, Microtask, Running
    <2>2. RunTypeOK'
      BY <1>1, <2>1 DEF Uncaught, SettleExternal, TypeOK, RunTypeOK, loopVars
    <2>3. RunConsistent'
      BY <2>1, StopKeeps DEF RunConsistent, stopped
    <2>4. QED
      BY <2>1, <2>2, <2>3, StopKeeps DEF RunInv
  <1>2. CASE Teardown
    <2>1. /\ StopController /\ phase' = "draining"
          /\ UNCHANGED <<body, external, timedOut, loopVars>>
      BY <1>2 DEF Teardown
    <2>2. runStatus' \in {"none", "ok", "failed", "stopped"}
      BY <1>2 DEF Teardown, RaceDecided, TypeOK, RunTypeOK
    <2>3. RunTypeOK'
      BY <2>1, <2>2 DEF TypeOK, RunTypeOK, loopVars
    <2>4. RunConsistent'
      BY <2>1, StopKeeps DEF RunConsistent, stopped
    <2>5. QED
      BY <2>1, <2>3, <2>4, StopKeeps DEF RunInv
  <1>3. CASE Drained \/ DrainDeadline
    <2>1. /\ Idle /\ phase = "draining" /\ SealJournal
          /\ Open = {} \/ timedOut' = TRUE
          /\ timedOut' \in BOOLEAN
      BY <1>3 DEF Drained, DrainDeadline, TypeOK, RunTypeOK
    <2>2. /\ phase' = "ended" /\ batch' = batch /\ batch = 0
          /\ UNCHANGED <<semVars, callVars, body, external, awake, yielding>>
          /\ runStatus' \in {"none", "ok", "failed", "stopped"}
      BY <2>1 DEF SealJournal, Idle, Microtask, loopVars, TypeOK, RunTypeOK
    <2>3. CallTypeOK'
      BY <2>2 DEF TypeOK, CallTypeOK, callVars
    <2>4. RunTypeOK'
      BY <2>1, <2>2 DEF TypeOK, RunTypeOK
    <2>5. ASSUME NEW m \in Calls PROVE CallConsistent(m)'
      <3>1. CallConsistent(m)
        BY DEF RunInv
      <3>2. QED
        BY <2>2, <3>1 DEF CallConsistent, callVars, semVars
    <2>6. ASSUME Open = {} PROVE Live = {}
      <3> SUFFICES ASSUME NEW n \in Live PROVE FALSE
        OBVIOUS
      <3>1. /\ n \in Calls /\ CallConsistent(n)
            /\ pc[n] \in {"acquiring", "creating", "running", "grace", "cleanup"}
        BY DEF Live, RunInv, TypeOK, CallTypeOK
      <3>2. journal[n] # "started"
        BY <2>6, <3>1 DEF Open
      <3>3. pc[n] = "acquiring"
        BY <3>1, <3>2 DEF CallConsistent
      <3>4. closed
        BY <2>1 DEF RunInv, RunConsistent, stopped
      <3>5. acq[n] # "waiting"
        BY <3>1, <3>4, EmptySeq DEF SemInv, QueueHoldsPending
      <3>6. acq[n] \in {"granted", "denied"}
        BY <3>1, <3>3, <3>5 DEF CallConsistent, SemInv, SemTypeOK
      <3>7. n \in Ready
        BY <3>1, <3>3, <3>6 DEF Ready
      <3>8. QED
        BY <2>1, <3>7 DEF Idle
    <2>7. RunConsistent'
      BY <2>1, <2>2, <2>6 DEF RunInv, RunConsistent, Live, stopped, semVars, callVars
    <2>8. QED
      BY <2>3, <2>4, <2>5, <2>7 DEF RunInv
  <1>4. QED
    BY <1>1, <1>2, <1>3

LEMMA StepKeeps ==
  ASSUME Inv, [Next]_vars
  PROVE  Inv'
  <1>1. SemInv'
    BY RunStepIsSemStep, SemStepKeeps DEF Inv
  <1>2. SemTypeOK'
    BY <1>1 DEF SemInv
  <1>3. CASE UNCHANGED vars
    <2>1. CallTypeOK' /\ RunTypeOK'
      BY <1>3 DEF Inv, TypeOK, CallTypeOK, RunTypeOK, vars, callVars, runVars,
                  loopVars
    <2>2. ASSUME NEW m \in Calls PROVE CallConsistent(m)'
      <3>1. CallConsistent(m)
        BY DEF Inv, RunInv
      <3>2. QED
        BY <1>3, <3>1 DEF CallConsistent, vars, callVars, semVars
    <2>3. RunConsistent'
      BY <1>3 DEF Inv, RunInv, RunConsistent, Live, stopped, vars, callVars,
                  semVars, runVars, loopVars
    <2>4. QED
      BY <1>1, <1>2, <2>1, <2>2, <2>3 DEF Inv, TypeOK, RunInv
  <1>4. CASE Next
    <2>1. CallTypeOK' /\ RunTypeOK' /\ RunInv'
      BY <1>4, ScriptKeeps, ContinuationKeeps, GitStepKeeps, ExecutorKeeps,
         CommandKeeps, TeardownKeeps
      DEF Next
    <2>2. QED
      BY <1>1, <1>2, <2>1 DEF Inv, TypeOK
  <1>5. QED
    BY <1>3, <1>4

LEMMA RunStarts == Init => Inv
  <1> SUFFICES ASSUME Init PROVE Inv
    OBVIOUS
  <1>1. SemInv
    BY SemStarts DEF Init
  <1>2. CallTypeOK /\ RunTypeOK
    <2>1. 0 \in 0..MaxCalls /\ 0 \in 0..MaxUsage /\ 0 \in 0..MaxBatch
      BY BoundsAssumption
    <2>2. CallTypeOK
      BY <2>1 DEF Init, CallTypeOK, Ended
    <2>3. RunTypeOK
      BY <2>1 DEF Init, RunTypeOK
    <2>4. QED
      BY <2>2, <2>3
  <1>3. ASSUME NEW n \in Calls PROVE CallConsistent(n)
    BY DEF Init, SemInit, CallConsistent
  <1>4. RunConsistent
    BY DEF Init, SemInit, RunConsistent, Live, stopped
  <1>5. QED
    BY <1>1, <1>2, <1>3, <1>4 DEF Inv, TypeOK, SemInv, RunInv

(* The inductive invariant of a run, for any number of calls and slots,    *)
(* any budget, and any sequence of control commands.                       *)
THEOREM RunSafety == Spec => []Inv
  <1>1. Inv /\ [Next]_vars => Inv'
    BY StepKeeps
  <1>2. QED
    BY <1>1, RunStarts, PTL DEF Spec

(* Every variable of a run keeps its type. *)
THEOREM TypesHold == Spec => []TypeOK
  <1>1. Inv => TypeOK
    BY DEF Inv
  <1>2. QED
    BY <1>1, RunSafety, PTL

(* The concurrency limit bounds the executors that run, whatever skips,    *)
(* stops, budgets and worktree failures do to the calls.                   *)
THEOREM ConcurrencyIsBounded == Spec => []ConcurrencyBounded
  <1>1. Inv => ConcurrencyBounded
    <2> SUFFICES ASSUME Inv PROVE ConcurrencyBounded
      OBVIOUS
    <2> DEFINE Serving == {n \in Calls : exec[n] = "live"} \ GivenUp
    <2>1. Serving \subseteq Owners
      <3> SUFFICES ASSUME NEW n \in Serving PROVE n \in Owners
        OBVIOUS
      <3>1. /\ n \in Calls /\ exec[n] = "live" /\ journal[n] # "skipped"
            /\ CallConsistent(n)
        BY DEF GivenUp, Inv, RunInv
      <3>2. acq[n] = "granted"
        BY <3>1 DEF CallConsistent
      <3>3. QED
        BY <3>1, <3>2 DEF Owners
    <2>2. IsFiniteSet(Owners) /\ Cardinality(Owners) \in Nat
      BY OwnersFinite DEF Owners
    <2>3. Cardinality(Serving) \in Nat /\ Cardinality(Serving) <= Cardinality(Owners)
      BY <2>1, <2>2, FS_Subset, FS_CardinalityType
    <2>4. Cardinality(Owners) <= Capacity
      BY <2>2, CapacityPositive DEF Inv, SemInv, SemTypeOK, SlotsConserved
    <2> HIDE DEF Serving
    <2>5. Cardinality(Serving) <= Capacity
      BY <2>2, <2>3, <2>4, CapacityPositive
    <2>6. QED
      BY <2>5 DEF ConcurrencyBounded, Serving
  <1>2. QED
    BY <1>1, RunSafety, PTL

(* Nothing an executor works in is taken from it before it has exited,     *)
(* unless it was aborted and given up.                                     *)
THEOREM NothingIsPulledFromExecutors == Spec => []ExecutorOutlivesNothing
  <1>1. Inv => ExecutorOutlivesNothing
    BY DEF Inv, RunInv, CallConsistent, ExecutorOutlivesNothing
  <1>2. QED
    BY <1>1, RunSafety, PTL

(* A settled call has removed or deliberately kept its worktree. *)
THEOREM WorktreesAreAccounted == Spec => []WorktreesAccounted
  <1>1. Inv => WorktreesAccounted
    <2> SUFFICES ASSUME Inv, NEW n \in Calls, worktree[n] = "present"
                 PROVE  n \in Live
      BY DEF WorktreesAccounted
    <2>1. CallConsistent(n)
      BY DEF Inv, RunInv
    <2>2. pc[n] \notin {"uncalled", "settled"}
      BY <2>1 DEF CallConsistent
    <2>3. QED
      BY <2>2 DEF Live
  <1>2. QED
    BY <1>1, RunSafety, PTL

(* A journal sealed without the drain timing out misses no agent_end. *)
THEOREM JournalIsComplete == Spec => []CompleteUnlessTimedOut
  <1>1. Inv => CompleteUnlessTimedOut
    <2> SUFFICES ASSUME Inv, phase = "ended", ~timedOut
                 PROVE  Live = {} /\ \A n \in Calls : journal[n] # "started"
      BY DEF CompleteUnlessTimedOut
    <2>1. Live = {}
      BY DEF Inv, RunInv, RunConsistent
    <2>2. ASSUME NEW n \in Calls PROVE journal[n] # "started"
      <3>1. pc[n] \in {"uncalled", "settled"} /\ CallConsistent(n)
        BY <2>1 DEF Live, Inv, RunInv
      <3>2. QED
        BY <3>1 DEF CallConsistent
    <2>3. QED
      BY <2>1, <2>2
  <1>2. QED
    BY <1>1, RunSafety, PTL

(* An executor is started by a call's continuation or by its worktree.     *)
LEMMA WhoStartsExecutors ==
  ASSUME Inv, [Next]_vars, NEW n \in Calls, exec[n] = "none", exec'[n] = "live"
  PROVE  RunExecutor(n) \/ WorktreeCreated(n)
  <1> USE DEF Inv, TypeOK, CallTypeOK
  <1>1. CASE UNCHANGED vars \/ Script \/ YieldReturns
    BY <1>1 DEF vars, callVars, Script, Call, CallStopped, Await, BodySettles,
                YieldReturns
  <1>2. ASSUME NEW m \in Calls, Continuation(m)
        PROVE  RunExecutor(n)
    BY <1>2 DEF Continuation, RefuseOverBudget, EndSkippedInQueue, EndUnrunnable,
                CreateWorktree, RunExecutor
  <1>3. ASSUME NEW m \in Calls, GitStep(m)
        PROVE  WorktreeCreated(n)
    BY <1>3 DEF GitStep, WorktreeCreated, WorktreeFailed, WorktreeCleaned
  <1>4. ASSUME NEW m \in Calls, ReportUsage(m) \/ ExecutorSettles(m) \/ TeardownDeadline(m)
        PROVE  FALSE
    BY <1>4 DEF ReportUsage, ExecutorSettles, TeardownDeadline
  <1>5. CASE Command
    BY <1>5 DEF Command, PauseRun, ResumeRun, RequestStop, SkipCall,
                StopController, Abort, callVars
  <1>6. CASE Uncaught \/ Teardown
    BY <1>6 DEF Uncaught, Teardown, StopController, Abort, callVars
  <1>7. CASE Drained \/ DrainDeadline
    BY <1>7 DEF Drained, DrainDeadline, SealJournal, callVars
  <1>8. QED
    BY <1>1, <1>2, <1>3, <1>4, <1>5, <1>6, <1>7 DEF Next

(* No executor starts after stop, but in a worktree already under way. *)
THEOREM StopIsFinal == Spec => StopAdmitsNothing
  <1> DEFINE A == \A n \in Calls :
                    stopped /\ exec[n] = "none" /\ exec'[n] = "live"
                       => pc[n] = "creating" /\ n \in aborted
  <1>1. Inv /\ [Next]_vars => A
    <2> SUFFICES ASSUME Inv, [Next]_vars, NEW n \in Calls,
                        closed, exec[n] = "none", exec'[n] = "live"
                 PROVE  pc[n] = "creating" /\ n \in aborted
      BY DEF stopped
    <2>1. RunExecutor(n) \/ WorktreeCreated(n)
      BY WhoStartsExecutors
    <2>2. n \in Live => n \in aborted
      BY DEF Inv, RunInv, RunConsistent, stopped
    <2>3. n \in Live
      BY <2>1 DEF RunExecutor, Admissible, Ready, WorktreeCreated, Live
    <2>4. QED
      BY <2>1, <2>2, <2>3 DEF RunExecutor, WorktreeCreated
  <1> HIDE DEF A
  <1>2. Spec => [][A]_vars
    BY <1>1, RunSafety, PTL DEF Spec
  <1>3. QED
    BY <1>2 DEF StopAdmitsNothing, A

(* No executor starts over budget, but in a worktree already under way. *)
THEOREM BudgetIsChecked == Spec => BudgetGatesStart
  <1> DEFINE A == \A n \in Calls :
                    exec[n] = "none" /\ exec'[n] = "live" /\ OverBudget
                       => pc[n] = "creating"
  <1>1. Inv /\ [Next]_vars => A
    <2> SUFFICES ASSUME Inv, [Next]_vars, NEW n \in Calls,
                        exec[n] = "none", exec'[n] = "live", OverBudget
                 PROVE  pc[n] = "creating"
      OBVIOUS
    <2>1. RunExecutor(n) \/ WorktreeCreated(n)
      BY WhoStartsExecutors
    <2>2. QED
      BY <2>1 DEF RunExecutor, Admissible, WorktreeCreated
  <1> HIDE DEF A
  <1>2. Spec => [][A]_vars
    BY <1>1, RunSafety, PTL DEF Spec
  <1>3. QED
    BY <1>2 DEF BudgetGatesStart, A

(* A value reaches the script from the race itself, or once the worktree   *)
(* of a call the race was decided for is cleaned up.                       *)
LEMMA WhoReturnsValues ==
  ASSUME Inv, [Next]_vars, NEW n \in Calls,
         result[n] = "none", result'[n] = "value"
  PROVE  pc[n] = "running" \/ (pc[n] = "cleanup" /\ outcome[n] = "ok")
  <1> USE DEF Inv, TypeOK, CallTypeOK
  <1>1. CASE UNCHANGED vars \/ Script \/ YieldReturns
    BY <1>1 DEF vars, callVars, Script, Call, CallStopped, Await, BodySettles,
                YieldReturns
  <1>2. ASSUME NEW m \in Calls, NEW s, NEW u, End(m, s, u)
        PROVE  m = n /\ s = "ok"
    BY <1>2 DEF End
  <1>3. ASSUME NEW m \in Calls, Continuation(m)
        PROVE  FALSE
    <2>1. CASE EndSkippedInQueue(m) \/ EndUnrunnable(m)
      BY <1>2, <2>1 DEF EndSkippedInQueue, EndUnrunnable
    <2>2. CASE RefuseOverBudget(m) \/ CreateWorktree(m) \/ RunExecutor(m)
      BY <2>2 DEF RefuseOverBudget, CreateWorktree, RunExecutor
    <2>3. QED
      BY <1>3, <2>1, <2>2 DEF Continuation
  <1>4. ASSUME NEW m \in Calls, GitStep(m)
        PROVE  pc[n] = "cleanup" /\ outcome[n] = "ok"
    <2>1. CASE WorktreeCreated(m)
      BY <2>1 DEF WorktreeCreated
    <2>2. CASE WorktreeFailed(m)
      BY <1>2, <2>2 DEF WorktreeFailed
    <2>3. CASE WorktreeCleaned(m)
      <3>1. m = n /\ Status(outcome[m]) = "ok" /\ pc[m] = "cleanup"
        BY <1>2, <2>3 DEF WorktreeCleaned
      <3>2. QED
        BY <3>1 DEF Status
    <2>4. QED
      BY <1>4, <2>1, <2>2, <2>3 DEF GitStep
  <1>5. ASSUME NEW m \in Calls, NEW how, NEW u, Conclude(m, how, u)
        PROVE  m = n /\ how # "aborted"
    BY <1>2, <1>5 DEF Conclude, Status
  <1>6. ASSUME NEW m \in Calls, ReportUsage(m) \/ ExecutorSettles(m) \/ TeardownDeadline(m)
        PROVE  pc[n] = "running"
    BY <1>5, <1>6 DEF ReportUsage, ExecutorSettles, TeardownDeadline
  <1>7. CASE Command
    BY <1>7 DEF Command, PauseRun, ResumeRun, RequestStop, SkipCall,
                StopController, Abort, callVars
  <1>8. CASE Uncaught \/ Teardown
    BY <1>8 DEF Uncaught, Teardown, StopController, Abort, callVars
  <1>9. CASE Drained \/ DrainDeadline
    BY <1>9 DEF Drained, DrainDeadline, SealJournal, callVars
  <1>10. QED
    BY <1>1, <1>3, <1>4, <1>6, <1>7, <1>8, <1>9 DEF Next

(* A call aborted before its executor answered never returns a value. *)
THEOREM AbortsWin == Spec => AbortWins
  <1> DEFINE A == \A n \in Calls :
                    n \in aborted /\ result[n] = "none" /\ result'[n] = "value"
                       => pc[n] = "cleanup" /\ outcome[n] = "ok"
  <1>1. Inv /\ [Next]_vars => A
    <2> SUFFICES ASSUME Inv, [Next]_vars, NEW n \in Calls, n \in aborted,
                        result[n] = "none", result'[n] = "value"
                 PROVE  pc[n] = "cleanup" /\ outcome[n] = "ok"
      OBVIOUS
    <2>1. pc[n] # "running"
      BY DEF Inv, RunInv, CallConsistent
    <2>2. QED
      BY <2>1, WhoReturnsValues
  <1> HIDE DEF A
  <1>2. Spec => [][A]_vars
    BY <1>1, RunSafety, PTL DEF Spec
  <1>3. QED
    BY <1>2 DEF AbortWins, A

(***************************************************************************)
(* The runtime implements the contract of AgentCalls.  That a call ends    *)
(* with the usage of its executor's answer needs one fact RunInv does not  *)
(* carry: the answer is waiting for the clean-up, or charged, and the      *)
(* executor that gave it can tell nothing more; and that calls get         *)
(* consecutive ordinals needs the other: none below the counter is unused. *)
(***************************************************************************)
UsageKept(n) ==
  finalUsage[n] # NoUsage =>
    pc[n] \in {"cleanup", "settled"} /\ exec[n] # "live"

OrdinalsUsed == \A n \in Calls : n <= counter => pc[n] # "uncalled"

ContractInv ==
  /\ OrdinalsUsed
  /\ \A n \in Calls : UsageKept(n)

(* What the script sees of all calls. *)
Promises == [n \in Calls |-> PromiseOf(n)]

(* A call is uncalled for the script exactly above the counter. *)
LEMMA UncalledAboveCounter ==
  ASSUME Inv, ContractInv, NEW n \in Calls
  PROVE  PromiseOf(n) = "uncalled" <=> n > counter
  <1>1. n \in Int /\ counter \in Int
    BY CallsAreOrdinals, BoundsAssumption DEF Inv, TypeOK, CallTypeOK
  <1>2. n > counter => pc[n] = "uncalled"
    BY DEF Inv, RunInv, RunConsistent
  <1>3. n <= counter => pc[n] # "uncalled"
    BY DEF ContractInv, OrdinalsUsed
  <1>4. result[n] # "uncalled"
    BY DEF Inv, TypeOK, CallTypeOK
  <1>5. PromiseOf(n) = "uncalled" <=> pc[n] = "uncalled"
    BY <1>4 DEF PromiseOf
  <1>6. QED
    BY <1>1, <1>2, <1>3, <1>5

(* A live call is pending for the script. *)
LEMMA LiveIsPending ==
  ASSUME NEW n \in Live
  PROVE  n \in Calls /\ PromiseOf(n) = "pending"
  BY DEF Live, PromiseOf

(* A step about call n leaves what the script sees of the others alone. *)
LEMMA OnePromise ==
  ASSUME NEW n \in Calls, NEW v, PromiseOf(n)' = v,
         \A m \in Calls \ {n} : PromiseOf(m)' = PromiseOf(m)
  PROVE  Promises' = [Promises EXCEPT ![n] = v]
  BY DEF Promises

(* A step that changes nothing the contract speaks of. *)
LEMMA ContractStutters ==
  ASSUME \A m \in Calls : PromiseOf(m)' = PromiseOf(m),
         UNCHANGED <<journal, ledger, finalUsage>>,
         (phase' = "ended") = (phase = "ended")
  PROVE  UNCHANGED C!contractVars
  <1>1. Promises' = Promises
    BY DEF Promises
  <1>2. QED
    BY <1>1 DEF C!contractVars, Promises

(* A step about one call that has begun needs to be looked at for that     *)
(* call only.                                                              *)
LEMMA OneCallKeepsContract ==
  ASSUME ContractInv, NEW n \in Calls,
         counter' = counter \/ (counter' = n /\ n = counter + 1),
         counter \in Int,
         \A m \in Calls \ {n} :
            /\ pc'[m] = pc[m]
            /\ finalUsage'[m] = finalUsage[m]
            /\ exec'[m] = exec[m],
         pc'[n] # "uncalled", UsageKept(n)'
  PROVE  ContractInv'
  <1>1. ASSUME NEW m \in Calls, m <= counter' PROVE pc'[m] # "uncalled"
    <2>1. m \in Int
      BY CallsAreOrdinals
    <2>2. m = n \/ m <= counter
      BY <1>1, <2>1
    <2>3. QED
      BY <2>2 DEF ContractInv, OrdinalsUsed
  <1>2. ASSUME NEW m \in Calls PROVE UsageKept(m)'
    <2>1. CASE m # n
      BY <2>1 DEF ContractInv, UsageKept
    <2>2. QED
      BY <2>1
  <1>3. QED
    BY <1>1, <1>2 DEF ContractInv, OrdinalsUsed

(* A step that takes no answer and calls none back that has one. *)
LEMMA QuietKeepsContract ==
  ASSUME ContractInv, UNCHANGED <<counter, finalUsage>>,
         \A m \in Calls :
            /\ pc'[m] = "uncalled" => pc[m] = "uncalled"
            /\ pc[m] \in {"cleanup", "settled"} => pc'[m] = pc[m]
            /\ exec'[m] = exec[m] \/ exec'[m] = "exited"
  PROVE  ContractInv'
  BY DEF ContractInv, OrdinalsUsed, UsageKept

(* The end of a live call is the contract's Finish, if it charges what the *)
(* executor answered and only a started call returns a value.              *)
LEMMA EndRefines ==
  ASSUME Inv, ContractInv, NEW n \in Live, NEW s \in Ended,
         NEW w \in {NoUsage} \cup 0..MaxUsage,
         End(n, s, Charged(n, w)), phase # "ended",
         finalUsage' = [finalUsage EXCEPT ![n] = w],
         w = finalUsage[n] \/ finalUsage[n] = NoUsage,
         journal[n] = "none" => w = NoUsage,
         w # NoUsage => exec'[n] # "live",
         journal[n] = "started" \/ (journal[n] = "none" /\ s # "ok"),
         \A m \in Calls \ {n} : exec'[m] = exec[m]
  PROVE  C!ContractNext /\ ContractInv'
  <1> USE DEF Inv
  <1>1. n \in Calls /\ PromiseOf(n) = "pending" /\ pc[n] # "settled"
    BY LiveIsPending DEF Live
  <1>2. /\ journal' = [journal EXCEPT ![n] = s]
        /\ ledger' = [ledger EXCEPT ![n] = Charged(n, w)]
        /\ result' = [result EXCEPT ![n] = IF s = "ok" THEN "value" ELSE "null"]
        /\ pc' = [pc EXCEPT ![n] = "settled"]
        /\ phase' = phase /\ counter' = counter
    BY <1>1, FinallyEffect DEF End, runVars
  <1>3. /\ pc'[n] = "settled" /\ finalUsage'[n] = w
        /\ result'[n] = IF s = "ok" THEN "value" ELSE "null"
        /\ \A m \in Calls \ {n} :
              /\ pc'[m] = pc[m] /\ result'[m] = result[m]
              /\ finalUsage'[m] = finalUsage[m]
    BY <1>1, <1>2 DEF TypeOK, CallTypeOK
  <1>4. /\ PromiseOf(n)' = IF s = "ok" THEN "value" ELSE "null"
        /\ \A m \in Calls \ {n} : PromiseOf(m)' = PromiseOf(m)
    BY <1>3 DEF PromiseOf
  <1>5. Promises' = [Promises EXCEPT ![n] = IF s = "ok" THEN "value" ELSE "null"]
    BY <1>1, <1>4, OnePromise, Zenon
  <1>6. Promises[n] = "pending"
    BY <1>1 DEF Promises
  <1>7. C!Settled(n)
    <2>1. finalUsage' = finalUsage \/ C!Tell(n)
      <3>1. CASE w = finalUsage[n]
        BY <3>1 DEF TypeOK, CallTypeOK
      <3>2. CASE w # finalUsage[n]
        BY <3>2 DEF C!Tell
      <3>3. QED
        BY <3>1, <3>2
    <2>2. ledger' = IF finalUsage'[n] = NoUsage THEN ledger
                    ELSE [ledger EXCEPT ![n] = finalUsage'[n]]
      BY <1>1, <1>2, <1>3 DEF Charged, TypeOK, CallTypeOK
    <2>3. CASE journal[n] = "started"
      BY <2>1, <2>2, <2>3 DEF C!Settled
    <2>4. CASE journal[n] = "none"
      <3>1. w = NoUsage /\ finalUsage[n] = NoUsage
        BY <2>4
      <3>2. finalUsage' = finalUsage /\ ledger' = ledger
        BY <1>3, <2>2, <3>1 DEF TypeOK, CallTypeOK
      <3>3. QED
        BY <2>4, <3>2 DEF C!Settled
    <2>5. QED
      BY <2>3, <2>4
  <1>8. C!Finish(n)
    <2>1. CASE s = "ok"
      BY <1>2, <1>5, <1>6, <1>7, <2>1 DEF C!Finish, Promises
    <2>2. CASE s # "ok"
      <3>1. s \in {"failed", "skipped"}
        BY <2>2 DEF Ended
      <3>2. QED
        BY <1>2, <1>5, <1>6, <1>7, <2>2, <3>1 DEF C!Finish, Promises
    <2>3. QED
      BY <2>1, <2>2
  <1>9. C!ContractNext
    BY <1>1, <1>2, <1>8 DEF C!ContractNext
  <1>10. UsageKept(n)'
    BY <1>3 DEF UsageKept
  <1>11. ContractInv'
    BY <1>1, <1>2, <1>3, <1>10, OneCallKeepsContract DEF TypeOK, CallTypeOK
  <1>12. QED
    BY <1>9, <1>11

(* What the race decides is the contract's Finish, or its Answer until the *)
(* worktree is cleaned up.                                                 *)
LEMMA ConcludeRefines ==
  ASSUME Inv, ContractInv, NEW n \in Calls, pc[n] \in {"running", "grace"},
         NEW how \in {"aborted", "ok", "failed"},
         NEW u \in {NoUsage} \cup 0..MaxUsage, Conclude(n, how, u),
         u # NoUsage => exec'[n] = "exited",
         phase # "ended",
         \A m \in Calls \ {n} : exec'[m] = exec[m]
  PROVE  [C!ContractNext]_(C!contractVars) /\ ContractInv'
  <1> USE DEF Inv
  <1>1. n \in Live /\ journal[n] = "started"
    BY DEF Live, RunInv, CallConsistent
  <1>2. /\ finalUsage[n] = NoUsage
        /\ finalUsage' = [finalUsage EXCEPT ![n] = u]
    BY DEF ContractInv, UsageKept, Conclude
  <1>3. CASE End(n, Status(how), Charged(n, u))
    <2>1. Status(how) \in Ended
      BY DEF Status, Ended
    <2>2. QED
      BY <1>1, <1>2, <1>3, <2>1, EndRefines
  <1>4. CASE /\ pc' = [pc EXCEPT ![n] = "cleanup"]
             /\ UNCHANGED <<semVars, counter, aborted, ledger, journal, result,
                            runVars, loopVars>>
    <2>1. /\ pc'[n] = "cleanup" /\ finalUsage'[n] = u
          /\ \A m \in Calls \ {n} : pc'[m] = pc[m] /\ finalUsage'[m] = finalUsage[m]
          /\ UNCHANGED <<counter, ledger, journal, result, phase>>
      BY <1>2, <1>4 DEF TypeOK, CallTypeOK, runVars
    <2>2. \A m \in Calls : PromiseOf(m)' = PromiseOf(m)
      BY <2>1 DEF PromiseOf
    <2>3. [C!ContractNext]_(C!contractVars)
      <3>1. CASE u = NoUsage
        <4>1. finalUsage' = finalUsage
          BY <1>2, <3>1 DEF TypeOK, CallTypeOK
        <4>2. QED
          BY <2>1, <2>2, <4>1, ContractStutters
      <3>2. CASE u # NoUsage
        <4>1. Promises' = Promises /\ Promises[n] = "pending"
          BY <1>1, <2>2, LiveIsPending DEF Promises
        <4>2. C!Tell(n)
          BY <1>2, <3>2 DEF C!Tell
        <4>3. C!Answer(n)
          BY <1>1, <2>1, <4>1, <4>2 DEF C!Answer, C!Open, Promises
        <4>4. QED
          BY <2>1, <4>3 DEF C!ContractNext
      <3>3. QED
        BY <3>1, <3>2
    <2>4. UsageKept(n)'
      BY <2>1 DEF UsageKept
    <2>5. ContractInv'
      BY <2>1, <2>4, OneCallKeepsContract DEF TypeOK, CallTypeOK
    <2>6. QED
      BY <2>3, <2>5
  <1>5. QED
    BY <1>3, <1>4 DEF Conclude

(* agent() takes the next ordinal, or throws at once with it. *)
LEMMA CallRefines ==
  ASSUME Inv, ContractInv, Call
  PROVE  C!ContractNext /\ ContractInv'
  <1> USE DEF Inv
  <1>1. PICK n \in Calls : n = counter + 1
    BY DEF Call
  <1>2. /\ counter' = n /\ counter \in Int
        /\ phase # "ended" /\ phase' = phase
        /\ UNCHANGED <<exec, finalUsage, ledger, journal>>
    BY <1>1 DEF Call, Microtask, Running, runVars, TypeOK, CallTypeOK
  <1>3. C!NextOrdinal(n)
    <2> SUFFICES ASSUME NEW m \in Calls
                 PROVE  PromiseOf(m) = "uncalled" <=> m >= n
      BY DEF C!NextOrdinal
    <2>1. m \in Int /\ n \in Int
      BY CallsAreOrdinals
    <2>2. QED
      BY <1>1, <1>2, <2>1, UncalledAboveCounter
  <1>4. ASSUME NEW to \in {"acquiring", "settled"},
               pc' = [pc EXCEPT ![n] = to]
        PROVE  ContractInv'
    <2>1. /\ pc'[n] = to
          /\ \A m \in Calls \ {n} : pc'[m] = pc[m]
      BY <1>4 DEF TypeOK, CallTypeOK
    <2>2. finalUsage[n] = NoUsage
      <3>1. pc[n] = "uncalled"
        BY <1>1, <1>2 DEF RunInv, RunConsistent, TypeOK, CallTypeOK
      <3>2. QED
        BY <3>1 DEF ContractInv, UsageKept
    <2>3. QED
      BY <1>1, <1>2, <2>1, <2>2, OneCallKeepsContract DEF UsageKept
  <1>5. CASE /\ pc' = [pc EXCEPT ![n] = "settled"]
             /\ result' = [result EXCEPT ![n] = "throw"]
    <2>1. /\ pc'[n] = "settled" /\ result'[n] = "throw"
          /\ \A m \in Calls \ {n} : pc'[m] = pc[m] /\ result'[m] = result[m]
      BY <1>5 DEF TypeOK, CallTypeOK
    <2>2. /\ PromiseOf(n)' = "throw"
          /\ \A m \in Calls \ {n} : PromiseOf(m)' = PromiseOf(m)
      BY <2>1 DEF PromiseOf
    <2>3. Promises' = [Promises EXCEPT ![n] = "throw"]
      BY <2>2, OnePromise, Zenon
    <2>4. C!Throw(n)
      BY <1>2, <1>3, <2>3 DEF C!Throw, Promises
    <2>5. QED
      BY <1>2, <1>4, <1>5, <2>4 DEF C!ContractNext
  <1>6. CASE /\ pc' = [pc EXCEPT ![n] = "acquiring"]
             /\ UNCHANGED result
    <2>1. /\ pc'[n] = "acquiring"
          /\ \A m \in Calls \ {n} : pc'[m] = pc[m] /\ result'[m] = result[m]
      BY <1>6 DEF TypeOK, CallTypeOK
    <2>2. /\ PromiseOf(n)' = "pending"
          /\ \A m \in Calls \ {n} : PromiseOf(m)' = PromiseOf(m)
      BY <2>1 DEF PromiseOf
    <2>3. Promises' = [Promises EXCEPT ![n] = "pending"]
      BY <2>2, OnePromise, Zenon
    <2>4. C!Invoke(n)
      BY <1>2, <1>3, <2>3 DEF C!Invoke, Promises
    <2>5. QED
      BY <1>2, <1>4, <1>6, <2>4 DEF C!ContractNext
  <1>7. QED
    BY <1>1, <1>5, <1>6 DEF Call

(* The continuation of an answered acquire(): a throw without a trace, a   *)
(* start, or an end without one.                                           *)
LEMMA ContinuationRefines ==
  ASSUME Inv, ContractInv, NEW n \in Calls, Continuation(n)
  PROVE  C!ContractNext /\ ContractInv'
  <1> USE DEF Inv
  <1>1. /\ n \in Live /\ phase # "ended" /\ journal[n] = "none"
        /\ PromiseOf(n) = "pending" /\ finalUsage[n] = NoUsage
    <2>1. pc[n] = "acquiring" /\ phase # "ended"
      BY DEF Continuation, RefuseOverBudget, EndSkippedInQueue, EndUnrunnable,
             CreateWorktree, RunExecutor, Admissible, Ready, Microtask, Running
    <2>2. QED
      BY <2>1 DEF Live, RunInv, CallConsistent, PromiseOf, ContractInv, UsageKept
  <1>2. Promises[n] = "pending"
    BY <1>1 DEF Promises
  <1>3. CASE RefuseOverBudget(n)
    <2>1. /\ result' = [result EXCEPT ![n] = "throw"]
          /\ pc' = [pc EXCEPT ![n] = "settled"]
          /\ UNCHANGED <<exec, finalUsage, ledger, journal, counter, phase>>
      BY <1>3, FinallyEffect DEF RefuseOverBudget, runVars
    <2>2. /\ pc'[n] = "settled" /\ result'[n] = "throw"
          /\ \A m \in Calls \ {n} : pc'[m] = pc[m] /\ result'[m] = result[m]
      BY <2>1 DEF TypeOK, CallTypeOK
    <2>3. /\ PromiseOf(n)' = "throw"
          /\ \A m \in Calls \ {n} : PromiseOf(m)' = PromiseOf(m)
      BY <2>2 DEF PromiseOf
    <2>4. Promises' = [Promises EXCEPT ![n] = "throw"]
      BY <2>3, OnePromise, Zenon
    <2>5. C!Throw(n)
      BY <1>1, <1>2, <2>1, <2>4 DEF C!Throw, Promises
    <2>6. ContractInv'
      BY <1>1, <2>1, <2>2, OneCallKeepsContract DEF UsageKept, TypeOK, CallTypeOK
    <2>7. QED
      BY <1>1, <2>1, <2>5, <2>6 DEF C!ContractNext
  <1>4. CASE EndSkippedInQueue(n) \/ EndUnrunnable(n)
    <2>1. PICK s \in {"skipped", "failed"} : End(n, s, ledger[n])
      BY <1>4 DEF EndSkippedInQueue, EndUnrunnable
    <2>2. UNCHANGED <<exec, finalUsage>>
      BY <1>4 DEF EndSkippedInQueue, EndUnrunnable
    <2>3. /\ s \in Ended /\ Charged(n, NoUsage) = ledger[n]
          /\ finalUsage' = [finalUsage EXCEPT ![n] = NoUsage]
      BY <1>1, <2>2 DEF Ended, Charged, TypeOK, CallTypeOK
    <2>4. End(n, s, Charged(n, NoUsage))
      BY <2>1, <2>3
    <2>5. QED
      BY <1>1, <2>1, <2>2, <2>3, <2>4, EndRefines
  <1>5. CASE CreateWorktree(n) \/ RunExecutor(n)
    <2>1. /\ journal' = [journal EXCEPT ![n] = "started"]
          /\ UNCHANGED <<counter, finalUsage, ledger, result, phase>>
          /\ \/ pc' = [pc EXCEPT ![n] = "creating"] /\ exec' = exec
             \/ /\ pc' = [pc EXCEPT ![n] = "running"]
                /\ exec' = [exec EXCEPT ![n] = "live"]
      BY <1>5 DEF CreateWorktree, RunExecutor, runVars
    <2>2. /\ pc'[n] \in {"creating", "running"}
          /\ \A m \in Calls \ {n} : pc'[m] = pc[m] /\ exec'[m] = exec[m]
      BY <2>1 DEF TypeOK, CallTypeOK
    <2>3. \A m \in Calls : PromiseOf(m)' = PromiseOf(m)
      BY <1>1, <2>1, <2>2 DEF PromiseOf
    <2>4. Promises' = Promises
      BY <2>3 DEF Promises
    <2>5. C!Start(n)
      BY <1>1, <1>2, <2>1, <2>4 DEF C!Start, Promises
    <2>6. ContractInv'
      BY <1>1, <2>1, <2>2, OneCallKeepsContract DEF UsageKept, TypeOK, CallTypeOK
    <2>7. QED
      BY <1>1, <2>1, <2>5, <2>6 DEF C!ContractNext
  <1>6. QED
    BY <1>3, <1>4, <1>5 DEF Continuation

(* git answers: only the end of a call is seen by the contract. *)
LEMMA GitStepRefines ==
  ASSUME Inv, ContractInv, NEW n \in Calls, GitStep(n)
  PROVE  [C!ContractNext]_(C!contractVars) /\ ContractInv'
  <1> USE DEF Inv
  <1>1. /\ n \in Live /\ phase # "ended" /\ journal[n] = "started"
        /\ CallConsistent(n)
    <2>1. pc[n] \in {"creating", "cleanup"} /\ phase # "ended"
      BY DEF GitStep, WorktreeCreated, WorktreeFailed, WorktreeCleaned, Idle,
             Microtask, Running
    <2>2. QED
      BY <2>1 DEF Live, RunInv, CallConsistent
  <1>2. /\ pc[n] = "creating" => finalUsage[n] = NoUsage
        /\ finalUsage[n] \in {NoUsage} \cup 0..MaxUsage
        /\ finalUsage = [finalUsage EXCEPT ![n] = finalUsage[n]]
    BY <1>1 DEF ContractInv, UsageKept, Live, TypeOK, CallTypeOK
  <1>3. CASE WorktreeCreated(n)
    <2>1. /\ pc[n] = "creating"
          /\ exec' = [exec EXCEPT ![n] = "live"]
          /\ pc' = [pc EXCEPT ![n] = IF n \in aborted THEN "grace" ELSE "running"]
          /\ UNCHANGED <<counter, finalUsage, ledger, journal, result, phase>>
      BY <1>3 DEF WorktreeCreated, runVars
    <2>2. /\ pc'[n] \in {"grace", "running"}
          /\ \A m \in Calls \ {n} : pc'[m] = pc[m] /\ exec'[m] = exec[m]
      BY <2>1 DEF TypeOK, CallTypeOK
    <2>3. \A m \in Calls : PromiseOf(m)' = PromiseOf(m)
      BY <2>1, <2>2 DEF PromiseOf
    <2>4. UNCHANGED C!contractVars
      BY <2>1, <2>3, ContractStutters
    <2>5. ContractInv'
      BY <1>2, <2>1, <2>2, OneCallKeepsContract DEF UsageKept, TypeOK, CallTypeOK
    <2>6. QED
      BY <2>4, <2>5
  <1>4. CASE WorktreeFailed(n)
    <2>1. /\ pc[n] = "creating"
          /\ End(n, "failed", ledger[n]) /\ "failed" \in Ended
          /\ UNCHANGED <<exec, finalUsage>>
      BY <1>4 DEF WorktreeFailed, Ended
    <2>2. Charged(n, NoUsage) = ledger[n]
      BY DEF Charged
    <2>3. End(n, "failed", Charged(n, NoUsage))
      BY <2>1, <2>2
    <2>4. QED
      BY <1>1, <1>2, <2>1, <2>3, EndRefines
  <1>5. CASE WorktreeCleaned(n)
    <2>1. /\ pc[n] = "cleanup"
          /\ End(n, Status(outcome[n]), Charged(n, finalUsage[n]))
          /\ UNCHANGED <<exec, finalUsage>>
      BY <1>5 DEF WorktreeCleaned
    <2>2. Status(outcome[n]) \in Ended
      BY <1>1, <2>1 DEF CallConsistent, Status, Ended, TypeOK, CallTypeOK
    <2>3. finalUsage[n] # NoUsage => exec'[n] # "live"
      BY <1>1, <2>1 DEF ContractInv, UsageKept, Live
    <2>4. QED
      BY <1>1, <1>2, <2>1, <2>2, <2>3, EndRefines
  <1>6. QED
    BY <1>3, <1>4, <1>5 DEF GitStep

(* An executor is charged for only between its call's start and end.       *)
LEMMA ExecutorRefines ==
  ASSUME Inv, ContractInv, NEW n \in Calls,
         ReportUsage(n) \/ ExecutorSettles(n) \/ TeardownDeadline(n)
  PROVE  [C!ContractNext]_(C!contractVars) /\ ContractInv'
  <1> USE DEF Inv
  <1>1. phase # "ended" /\ CallConsistent(n) /\ ledger[n] \in 0..MaxUsage
    BY DEF ReportUsage, ExecutorSettles, TeardownDeadline, Idle, Microtask,
           Running, RunInv, TypeOK, CallTypeOK
  <1>2. CASE ReportUsage(n)
    <2>1. PICK u \in 0..MaxUsage : ledger' = [ledger EXCEPT ![n] = u]
      BY <1>2 DEF ReportUsage
    <2>2. /\ exec[n] = "live" /\ journal[n] = "started"
          /\ UNCHANGED <<counter, pc, exec, finalUsage, journal, result, phase>>
      BY <1>2 DEF ReportUsage, runVars
    <2>3. PromiseOf(n) = "pending" /\ finalUsage[n] = NoUsage
      BY <1>1, <2>2 DEF CallConsistent, PromiseOf, ContractInv, UsageKept
    <2>4. \A m \in Calls : PromiseOf(m)' = PromiseOf(m)
      BY <2>2 DEF PromiseOf
    <2>5. Promises' = Promises /\ Promises[n] = "pending"
      BY <2>3, <2>4 DEF Promises
    <2>6. C!Charge(n)
      BY <2>1, <2>2, <2>3, <2>5 DEF C!Charge, C!Open, Promises
    <2>7. C!ContractNext
      BY <1>1, <2>2, <2>6 DEF C!ContractNext
    <2>8. ContractInv'
      BY <2>2, QuietKeepsContract
    <2>9. QED
      BY <2>7, <2>8
  <1>3. CASE ExecutorSettles(n)
    <2>1. exec' = [exec EXCEPT ![n] = "exited"]
      BY <1>3 DEF ExecutorSettles
    <2>2. exec'[n] = "exited" /\ \A m \in Calls \ {n} : exec'[m] = exec[m]
      BY <2>1 DEF TypeOK, CallTypeOK
    <2>3. ASSUME pc[n] \in {"running", "grace"},
                 NEW how \in {"aborted", "ok", "failed"},
                 NEW u \in {NoUsage} \cup 0..MaxUsage, Conclude(n, how, u)
          PROVE  [C!ContractNext]_(C!contractVars) /\ ContractInv'
      BY <1>1, <2>2, <2>3, ConcludeRefines
    <2>4. CASE /\ pc[n] \in {"cleanup", "settled"}
               /\ UNCHANGED <<semVars, counter, pc, aborted, outcome, finalUsage,
                              ledger, journal, result, runVars, loopVars>>
      <3>1. UNCHANGED <<counter, pc, finalUsage, ledger, journal, result, phase>>
        BY <2>4 DEF runVars
      <3>2. \A m \in Calls : PromiseOf(m)' = PromiseOf(m)
        BY <3>1 DEF PromiseOf
      <3>3. UNCHANGED C!contractVars
        BY <3>1, <3>2, ContractStutters
      <3>4. ContractInv'
        BY <2>2, <3>1, QuietKeepsContract
      <3>5. QED
        BY <3>3, <3>4
    <2>5. QED
      BY <1>3, <2>3, <2>4 DEF ExecutorSettles
  <1>4. CASE TeardownDeadline(n)
    <2>1. /\ pc[n] = "grace" /\ Conclude(n, "aborted", NoUsage)
          /\ exec' = exec
      BY <1>4 DEF TeardownDeadline
    <2>2. QED
      BY <1>1, <2>1, ConcludeRefines
  <1>5. QED
    BY <1>2, <1>3, <1>4

(* Aborting calls tells the script nothing yet. *)
LEMMA AbortRefines ==
  ASSUME Inv, ContractInv, NEW A, Abort(A) \/ UNCHANGED callVars,
         (phase' = "ended") = (phase = "ended")
  PROVE  UNCHANGED C!contractVars /\ ContractInv'
  <1>1. UNCHANGED <<counter, exec, finalUsage, ledger, journal, result>>
    BY DEF Abort, callVars
  <1>2. \A m \in Calls : \/ pc'[m] = pc[m]
                         \/ pc[m] = "running" /\ pc'[m] = "grace"
    BY DEF Abort, callVars
  <1>3. \A m \in Calls : PromiseOf(m)' = PromiseOf(m)
    BY <1>1, <1>2 DEF PromiseOf
  <1>4. UNCHANGED C!contractVars
    BY <1>1, <1>3, ContractStutters
  <1>5. ContractInv'
    BY <1>1, <1>2, QuietKeepsContract
  <1>6. QED
    BY <1>4, <1>5

LEMMA StepRefines ==
  ASSUME Inv, ContractInv, [Next]_vars
  PROVE  [C!ContractNext]_(C!contractVars) /\ ContractInv'
  <1>1. CASE UNCHANGED vars \/ CallStopped \/ Await \/ BodySettles \/ YieldReturns
    <2>1. UNCHANGED <<callVars, phase>>
      BY <1>1 DEF vars, runVars, CallStopped, Await, BodySettles, YieldReturns
    <2>2. QED
      BY <2>1, AbortRefines
  <1>2. CASE Command \/ Uncaught
    <2>1. /\ \/ UNCHANGED callVars
             \/ \E A \in SUBSET Calls : Abort(A)
          /\ phase' = phase
      <3>1. Live \in SUBSET Calls
        BY DEF Live
      <3>2. QED
        BY <1>2, <3>1 DEF Command, PauseRun, ResumeRun, RequestStop, SkipCall,
                          Uncaught, StopController, runVars
    <2>2. QED
      BY <2>1, AbortRefines
  <1>3. CASE Teardown
    <2>1. /\ UNCHANGED callVars \/ Abort(Live)
          /\ phase # "ended" /\ phase' # "ended"
      BY <1>3 DEF Teardown, StopController, RaceDecided
    <2>2. QED
      BY <2>1, AbortRefines
  <1>4. CASE Drained \/ DrainDeadline
    <2>1. phase = "draining" /\ phase' = "ended" /\ UNCHANGED callVars
      BY <1>4 DEF Drained, DrainDeadline, SealJournal
    <2>2. UNCHANGED <<pc, counter, exec, finalUsage, ledger, journal, result>>
      BY <2>1 DEF callVars
    <2>3. Promises' = Promises
      BY <2>2 DEF Promises, PromiseOf
    <2>4. C!RunOver /\ C!ContractNext
      BY <2>1, <2>2, <2>3 DEF C!RunOver, C!ContractNext, Promises
    <2>5. QED
      BY <2>2, <2>4, QuietKeepsContract
  <1>5. QED
    BY <1>1, <1>2, <1>3, <1>4, CallRefines, ContinuationRefines, GitStepRefines,
       ExecutorRefines
    DEF Next, Script

LEMMA ContractStarts == Init => C!ContractInit /\ ContractInv
  <1> SUFFICES ASSUME Init PROVE C!ContractInit /\ ContractInv
    OBVIOUS
  <1>1. \A n \in Calls : PromiseOf(n) = "uncalled"
    BY DEF Init, PromiseOf
  <1>2. C!ContractInit
    BY <1>1 DEF Init, C!ContractInit
  <1>3. ContractInv
    BY CallsAreOrdinals DEF Init, ContractInv, OrdinalsUsed, UsageKept
  <1>4. QED
    BY <1>2, <1>3

(* For any number of calls, whatever aborts, stops, budgets, worktrees and *)
(* executors do: calls get consecutive ordinals, a call that throws leaves *)
(* no trace, any other is journaled with one start and one end (or, never  *)
(* started, one end), the script gets a value exactly when that end says   *)
(* ok, tokens are charged only while the call is pending, it ends charged  *)
(* with the usage of its executor's answer, or else with the last that was *)
(* told, for good, and nothing follows the run's end.                      *)
THEOREM RuntimeKeepsItsPromises == Spec => ImplementsContract
  <1>1. Init => C!ContractInit /\ ContractInv
    BY ContractStarts
  <1>2. Inv /\ ContractInv /\ [Next]_vars
          => [C!ContractNext]_(C!contractVars) /\ ContractInv'
    BY StepRefines
  <1>3. Spec => C!Contract
    BY <1>1, <1>2, RunSafety, PTL DEF Spec, C!Contract
  <1>4. QED
    BY <1>3 DEF ImplementsContract
=============================================================================
