--------------------------- MODULE HomeView_proofs ---------------------------
(***************************************************************************)
(* Proofs about the schedules and those who change them, for any number of *)
(* schedules, lines and commands: what is left of the crontab, when spec   *)
(* files and lines agree, and which schedule a removal in the TUI is of.   *)
(***************************************************************************)
EXTENDS HomeView, FiniteSetTheorems, SequenceTheorems, WellFoundedInduction, NaturalsInduction, TLAPS

(* The lines somebody reads or writes.                                     *)
Sound(t) ==
    /\ t \in Texts
    /\ t.lines = <<>> => t.closed
    /\ \A n \in Names : LinesOf(t, n) <= 1

TextsSound ==
    /\ Sound(crontab)
    /\ \A e \in Editors : Sound(text[e])
    /\ ~lost =>
         /\ UsersOwn(crontab) = own
         /\ \A e \in Editors \ late : at[e] = "writeCrontab" => UsersOwn(text[e]) = own

(* Which job has which stages, and what its copy of the spec says.         *)
JobsAgree ==
    \A e \in Editors :
        /\ at[e] \notin {"idle", "list"} => job[e] \in Jobs
        /\ at[e] = "run" => e \in Cmds /\ Op(e) = "exec"
        /\ at[e] = "unlink" => Op(e) = "rm"
        /\ Working(e) =>
             /\ Op(e) \in {"add", "resume"} => copy[e].status = "active"
             /\ Op(e) = "pause" => copy[e].status = "paused"
             /\ Op(e) = "toggle" => copy[e].status \in {"active", "paused"}
             /\ Op(e) = "exec" /\ at[e] \in {"readCrontab", "writeCrontab"} =>
                    copy[e].status = "retired"

(* No spec has counted a run that has not returned.                        *)
Counted(n) ==
    {c \in Cmds : job[c] = [op |-> "exec", name |-> n] /\ at[c] \notin {"idle", "run"}}

RunsCounted ==
    /\ \A n \in Names : Readable(n) => spec[n].runs <= Cardinality(Counted(n))
    /\ \A e \in Editors : Working(e) => copy[e].runs <= Cardinality(Counted(Name(e)))

(* While nobody interferes, one editor is at work.  Every other schedule   *)
(* agrees with its line, and the editor's own does as far as it has got.   *)
Unlisted(n) == Count(n) = 0 \/ n \in stranded
Suits(n, status) == IF status = "active" THEN Count(n) = 1 ELSE Unlisted(n)
Matched(n) == IF Readable(n) /\ spec[n].status = "active" THEN Count(n) = 1 ELSE Unlisted(n)

GotSoFar(e) ==
    LET n == Name(e)
    IN  /\ at[e] \in {"readCrontab", "writeCrontab"} =>
             IF Op(e) = "add" THEN spec[n] = copy[e] /\ Unlisted(n) ELSE Matched(n)
        /\ at[e] = "writeCrontab" => \A m \in Names : LinesOf(text[e], m) = Count(m)
        /\ at[e] \in {"empty", "write"} =>
             IF Op(e) = "add" THEN Unlisted(n) ELSE Suits(n, copy[e].status)
        /\ at[e] = "write" => spec[n] = Torn
        /\ at[e] = "withdraw" => Unlisted(n)
        /\ at[e] = "unlink" => Count(n) = 0
        /\ at[e] = "note" => Matched(n)
        /\ at[e] # "writeUnlinked"

OneAtWork ==
    ~overlap =>
        /\ \A d, e \in Editors : Working(d) /\ Working(e) => d = e
        /\ \A n \in Names : (\A e \in Editors : Working(e) => Name(e) # n) => Matched(n)
        /\ \A e \in Editors : Working(e) => GotSoFar(e)

(* What is selected is a schedule, and a removal is of the one confirmed.  *)
ScreenAgrees ==
    /\ rows \in Seq(Rows) /\ sel \in Nat \ {0}
    /\ mode \in {"confirm", "sure", "detail"} => shown \in Names
    /\ at[Tui] \notin {"idle", "list"} /\ Op(Tui) = "rm" =>
           mode \in {"confirm", "sure"} /\ shown = Name(Tui)

DeskStrong ==
    /\ DeskTypeOK /\ TextsSound /\ JobsAgree /\ RunsCounted /\ OneAtWork /\ ScreenAgrees
-----------------------------------------------------------------------------
(* Lemmas: induction over sequences, for a set of them.                    *)
LEMMA LeastNumber ==
    ASSUME NEW S \in SUBSET Nat, S # {}
    PROVE  \E m \in S : \A n \in S : m <= n
<1> DEFINE R == OpToRel(<, Nat)
<1>1. IsWellFoundedOn(R, Nat)
  BY NatLessThanWellFounded
<1>2. \A x, y \in Nat : <<y, x>> \in R <=> y < x
  BY DEF OpToRel
<1> HIDE DEF R
<1>3. PICK m \in S : \A n \in S : <<n, m>> \notin R
  BY <1>1, WFMin
<1>4. ASSUME NEW n \in S PROVE m <= n
  <2>1. m \in Nat /\ n \in Nat /\ ~(n < m)
    BY <1>2, <1>3
  <2> QED
    BY <2>1
<1> QED
  BY <1>4

LEMMA AppendInduction ==
    ASSUME NEW A, NEW Fine, <<>> \in Fine,
           \A s \in Seq(A), x \in A : s \in Fine => Append(s, x) \in Fine
    PROVE  Seq(A) \subseteq Fine
<1> SUFFICES ASSUME Seq(A) \ Fine # {} PROVE FALSE
  OBVIOUS
<1> DEFINE L == {Len(s) : s \in Seq(A) \ Fine}
<1>1. L \in SUBSET Nat /\ L # {}
  BY LenProperties
<1>2. PICK m \in L : \A n \in L : m <= n
  BY <1>1, LeastNumber
<1>3. PICK s \in Seq(A) \ Fine : m = Len(s)
  OBVIOUS
<1>4. PICK r \in Seq(A), x \in A : s = Append(r, x)
  BY SequenceEmptyOrAppend
<1>5. Len(s) = Len(r) + 1 /\ Len(r) \in Nat
  BY <1>4, AppendProperties, LenProperties
<1>6. r \in Fine
  <2>1. Len(r) \notin L
    <3> HIDE DEF L
    <3> SUFFICES ASSUME Len(r) \in L PROVE FALSE
      OBVIOUS
    <3>1. m <= Len(r)
      BY <1>2
    <3> QED
      BY <1>3, <1>5, <3>1
  <2> QED
    BY <2>1
<1> QED
  BY <1>4, <1>6
-----------------------------------------------------------------------------
(* Lemmas: the filter of the crontab's lines.                              *)
Places(l, S) == {i \in DOMAIN l : l[i] \in S}
UpTo(K, i) == {j \in K : j <= i}
Spot(K, k) == CHOOSE i \in K : Cardinality(UpTo(K, i)) = k

LEMMA KeepIs ==
    ASSUME NEW l, NEW S
    PROVE  Keep(l, S) = [k \in 1..Cardinality(Places(l, S)) |-> l[Spot(Places(l, S), k)]]
  BY DEF Keep, Places, UpTo, Spot

LEMMA PlacesFinite ==
    ASSUME NEW A, NEW l \in Seq(A), NEW S
    PROVE  /\ Places(l, S) \subseteq 1..Len(l) /\ IsFiniteSet(Places(l, S))
           /\ Cardinality(Places(l, S)) \in Nat
<1>1. Len(l) \in Nat /\ DOMAIN l = 1..Len(l)
  BY LenProperties
<1>2. IsFiniteSet(1..Len(l))
  BY <1>1, FS_Interval
<1>3. Places(l, S) \in SUBSET (1..Len(l))
  BY <1>1 DEF Places
<1>4. IsFiniteSet(Places(l, S))
  BY <1>2, <1>3, FS_Subset
<1> QED
  BY <1>3, <1>4, FS_CardinalityType

(* Counting along a finite set of numbers reaches every rank.              *)
LEMMA SpotExists ==
    ASSUME NEW K \in SUBSET Nat, IsFiniteSet(K), NEW k \in 1..Cardinality(K)
    PROVE  Spot(K, k) \in K /\ Cardinality(UpTo(K, Spot(K, k))) = k
<1> DEFINE c == Cardinality(K)
           rank == [i \in K |-> Cardinality(UpTo(K, i))]
<1>1. c \in Nat
  BY FS_CardinalityType
<1>2. ASSUME NEW i \in K
      PROVE  /\ IsFiniteSet(UpTo(K, i)) /\ Cardinality(UpTo(K, i)) \in 1..c
  <2>1. UpTo(K, i) \in SUBSET K /\ i \in UpTo(K, i)
    BY DEF UpTo
  <2>2. IsFiniteSet(UpTo(K, i)) /\ Cardinality(UpTo(K, i)) <= c
    BY <2>1, FS_Subset
  <2>3. Cardinality(UpTo(K, i)) \in Nat /\ Cardinality(UpTo(K, i)) # 0
    BY <2>1, <2>2, FS_CardinalityType, FS_EmptySet
  <2> QED
    BY <2>2, <2>3, <1>1
<1>3. ASSUME NEW i \in K, NEW j \in K, i < j
      PROVE  Cardinality(UpTo(K, i)) # Cardinality(UpTo(K, j))
  <2>1. i \in Nat /\ j \in Nat /\ \A x \in K : x \in Nat
    OBVIOUS
  <2>2. \A x \in K : x <= i => x <= j
    BY <1>3, <2>1
  <2>3. j <= j /\ ~(j <= i)
    BY <1>3, <2>1
  <2>4. UpTo(K, i) \in SUBSET UpTo(K, j) /\ j \in UpTo(K, j) /\ j \notin UpTo(K, i)
    BY <2>2, <2>3 DEF UpTo
  <2>5. IsFiniteSet(UpTo(K, j))
    BY <1>2
  <2> QED
    BY <2>4, <2>5, FS_Subset
<1>4. rank \in Injection(K, 1..c)
  <2>1. rank \in [K -> 1..c]
    BY <1>2
  <2>2. ASSUME NEW i \in K, NEW j \in K, rank[i] = rank[j] PROVE i = j
    <3>1. ~(i < j) /\ ~(j < i)
      BY <1>3, <2>2
    <3> QED
      BY <3>1
  <2> QED
    BY <2>1, <2>2 DEF Injection, IsInjective
<1>5. IsFiniteSet(1..c) /\ Cardinality(1..c) = c
  BY <1>1, FS_Interval
<1> HIDE DEF rank
<1>6. rank \in Surjection(K, 1..c)
  BY <1>4, <1>5, FS_Injection
<1>7. PICK i \in K : rank[i] = k
  BY <1>6 DEF Surjection
<1>8. Cardinality(UpTo(K, i)) = k
  BY <1>7 DEF rank
<1> QED
  BY <1>8 DEF Spot

LEMMA KeepFits ==
    ASSUME NEW A, NEW l \in Seq(A), NEW S
    PROVE  /\ Keep(l, S) \in Seq(A \cap S) /\ Keep(l, S) \in Seq(A)
           /\ Len(Keep(l, S)) = Cardinality(Places(l, S))
<1> DEFINE K == Places(l, S)
           c == Cardinality(K)
<1>1. K \subseteq 1..Len(l) /\ IsFiniteSet(K) /\ c \in Nat
  BY PlacesFinite
<1>2. K \in SUBSET Nat
  BY <1>1
<1>3. \A k \in 1..c : Spot(K, k) \in K
  BY <1>1, <1>2, SpotExists
<1>4. \A k \in 1..c : l[Spot(K, k)] \in A \cap S
  BY <1>1, <1>3, ElementOfSeq DEF Places
<1>5. Keep(l, S) = [k \in 1..c |-> l[Spot(K, k)]]
  BY KeepIs
<1> HIDE DEF K, c
<1>6. Keep(l, S) \in [1..c -> A \cap S]
  BY <1>4, <1>5
<1>7. Keep(l, S) \in Seq(A \cap S)
  BY <1>1, <1>6, SeqDef
<1>8. Keep(l, S) \in [1..c -> A]
  BY <1>6
<1>9. Keep(l, S) \in Seq(A)
  BY <1>1, <1>8, SeqDef
<1> QED
  BY <1>1, <1>6, <1>7, <1>9, LenProperties DEF K, c

LEMMA KeepNothing ==
    ASSUME NEW A, NEW l \in Seq(A), NEW S, Places(l, S) = {}
    PROVE  Keep(l, S) = <<>>
<1>1. Keep(l, S) \in Seq(A \cap S) /\ Len(Keep(l, S)) = 0
  BY KeepFits, FS_EmptySet
<1> QED
  BY <1>1, EmptySeq

(* A line at the end is kept at the end, or not at all.                    *)
LEMMA KeepAppend ==
    ASSUME NEW A, NEW l \in Seq(A), NEW x \in A, NEW S
    PROVE  Keep(Append(l, x), S) = IF x \in S THEN Append(Keep(l, S), x) ELSE Keep(l, S)
<1> DEFINE m == Append(l, x)
           n == Len(l)
           K == Places(l, S)
           M == Places(m, S)
           c == Cardinality(K)
<1>1. /\ m \in Seq(A) /\ Len(m) = n + 1 /\ n \in Nat
      /\ DOMAIN l = 1..n /\ DOMAIN m = 1..(n + 1)
      /\ \A i \in 1..n : m[i] = l[i]
      /\ m[n + 1] = x
  BY AppendProperties, LenProperties
<1>2. K \subseteq 1..n /\ IsFiniteSet(K) /\ c \in Nat
  BY PlacesFinite
<1>3. K \in SUBSET Nat
  BY <1>1, <1>2
<1>4. M = IF x \in S THEN K \cup {n + 1} ELSE K
  <2> HIDE DEF m, n
  <2>1. K = {i \in 1..n : l[i] \in S} /\ M = {i \in 1..(n + 1) : m[i] \in S}
    BY <1>1 DEF Places, m, n
  <2>2. 1..(n + 1) = (1..n) \cup {n + 1} /\ n + 1 \notin 1..n
    BY <1>1
  <2> QED
    BY <1>1, <2>1, <2>2
<1>5. \A k \in 1..c : Spot(K, k) \in K /\ m[Spot(K, k)] = l[Spot(K, k)]
  BY <1>1, <1>2, <1>3, SpotExists
<1>6. Keep(l, S) = [k \in 1..c |-> l[Spot(K, k)]]
  BY KeepIs
<1>7. Keep(m, S) = [k \in 1..Cardinality(M) |-> m[Spot(M, k)]]
  BY KeepIs
<1>8. Keep(l, S) \in Seq(A) /\ Len(Keep(l, S)) = c
  BY KeepFits
<1>9. Keep(m, S) \in Seq(A) /\ Len(Keep(m, S)) = Cardinality(M)
  BY <1>1, KeepFits
<1> HIDE DEF m, n, K, M, c
<1>10. CASE x \notin S
  <2>1. M = K
    BY <1>4, <1>10
  <2>2. Keep(m, S) = [k \in 1..c |-> m[Spot(K, k)]]
    BY <1>7, <2>1 DEF c
  <2> QED
    BY <1>5, <1>6, <1>10, <2>2 DEF m
<1>11. CASE x \in S
  <2>1. M = K \cup {n + 1} /\ n + 1 \notin K
    BY <1>1, <1>2, <1>4, <1>11
  <2>2. Cardinality(M) = c + 1 /\ IsFiniteSet(M)
    BY <1>2, <2>1, FS_AddElement DEF c
  <2>3. M \in SUBSET Nat
    BY <1>1, <1>3, <2>1
  <2>4. \A i \in K : UpTo(M, i) = UpTo(K, i)
    <3>1. \A i \in K : i <= n /\ i \in Nat
      BY <1>1, <1>2
    <3>2. \A i \in K : ~(n + 1 <= i)
      BY <1>1, <3>1
    <3> QED
      BY <2>1, <3>2 DEF UpTo
  <2>5. UpTo(M, n + 1) = M
    <3>1. \A i \in M : i <= n + 1
      BY <1>1, <1>2, <2>1
    <3> QED
      BY <3>1 DEF UpTo
  <2>6. ASSUME NEW k \in 1..c PROVE Spot(M, k) = Spot(K, k)
    <3>1. k # c + 1
      BY <1>2
    <3>2. \A i \in M : Cardinality(UpTo(M, i)) = k <=> i \in K /\ Cardinality(UpTo(K, i)) = k
      BY <2>1, <2>2, <2>4, <2>5, <3>1
    <3>3. {i \in M : Cardinality(UpTo(M, i)) = k} = {i \in K : Cardinality(UpTo(K, i)) = k}
      BY <2>1, <3>2
    <3>4. \A i : (i \in M /\ Cardinality(UpTo(M, i)) = k)
                   <=> (i \in K /\ Cardinality(UpTo(K, i)) = k)
      BY <3>3
    <3> QED
      BY <3>4 DEF Spot
  <2>7. Spot(M, c + 1) = n + 1
    <3>1. c + 1 \in 1..Cardinality(M)
      BY <1>2, <2>2
    <3>2. Spot(M, c + 1) \in M /\ Cardinality(UpTo(M, Spot(M, c + 1))) = c + 1
      BY <2>2, <2>3, <3>1, SpotExists
    <3>3. \A i \in K : Cardinality(UpTo(K, i)) <= c
      <4> SUFFICES ASSUME NEW i \in K PROVE Cardinality(UpTo(K, i)) <= c
        OBVIOUS
      <4>1. UpTo(K, i) \in SUBSET K
        BY DEF UpTo
      <4> QED
        BY <1>2, <4>1, FS_Subset DEF c
    <3>4. \A i \in K : Cardinality(UpTo(M, i)) # c + 1
      BY <1>2, <2>4, <3>3
    <3> QED
      BY <2>1, <3>2, <3>4
  <2>8. Append(Keep(l, S), x) \in Seq(A) /\ Len(Append(Keep(l, S), x)) = c + 1
    BY <1>8, AppendProperties
  <2>9. \A k \in 1..c : Keep(l, S)[k] = l[Spot(K, k)]
    BY <1>6
  <2>10. \A k \in 1..(c + 1) : Keep(m, S)[k] = m[Spot(M, k)]
    BY <1>7, <2>2
  <2>11. \A k \in 1..c : Append(Keep(l, S), x)[k] = Keep(l, S)[k]
    BY <1>8, AppendProperties
  <2>12. Append(Keep(l, S), x)[c + 1] = x
    BY <1>8, AppendProperties
  <2>13. \A k \in 1..c : Keep(m, S)[k] = Append(Keep(l, S), x)[k]
    <3> SUFFICES ASSUME NEW k \in 1..c PROVE Keep(m, S)[k] = Append(Keep(l, S), x)[k]
      OBVIOUS
    <3>1. k \in 1..(c + 1)
      BY <1>2
    <3>2. Keep(m, S)[k] = m[Spot(K, k)] /\ Append(Keep(l, S), x)[k] = l[Spot(K, k)]
      BY <2>6, <2>9, <2>10, <2>11, <3>1
    <3> QED
      BY <1>5, <3>1, <3>2
  <2>14. Keep(m, S)[c + 1] = x
    <3>1. c + 1 \in 1..(c + 1)
      BY <1>2
    <3> QED
      BY <1>1, <2>7, <2>10, <3>1
  <2>15. \A k \in 1..(c + 1) : Keep(m, S)[k] = Append(Keep(l, S), x)[k]
    <3>1. \A k \in 1..(c + 1) : k \in 1..c \/ k = c + 1
      BY <1>2
    <3> QED
      BY <2>12, <2>13, <2>14, <3>1
  <2>16. Keep(m, S) = Append(Keep(l, S), x)
    BY <1>9, <2>2, <2>8, <2>15, SeqEqual
  <2> QED
    BY <1>11, <2>16 DEF m
<1> QED
  BY <1>10, <1>11

LEMMA KeepEmpty == \A S : Keep(<<>>, S) = <<>>
<1> SUFFICES ASSUME NEW S PROVE Keep(<<>>, S) = <<>>
  OBVIOUS
<1>1. PICK none : none = {}
  OBVIOUS
<1>2. <<>> \in Seq(none) /\ Len(<<>>) = 0
  BY EmptySeq
<1>3. Places(<<>>, S) = {}
  BY <1>2, LenProperties DEF Places
<1> QED
  BY <1>2, <1>3, KeepNothing

(* What two filters keep is what both keep.                                *)
LEMMA KeepTwice ==
    ASSUME NEW A, NEW S, NEW T
    PROVE  \A l \in Seq(A) : Keep(Keep(l, S), T) = Keep(l, S \cap T)
<1> DEFINE Fine == {l \in Seq(A) : Keep(Keep(l, S), T) = Keep(l, S \cap T)}
<1>1. <<>> \in Fine
  BY KeepEmpty, EmptySeq
<1>2. ASSUME NEW l \in Seq(A), NEW x \in A, l \in Fine
      PROVE  Append(l, x) \in Fine
  <2>1. Append(l, x) \in Seq(A) /\ Keep(l, S) \in Seq(A)
    BY AppendProperties, KeepFits
  <2>2. Keep(Append(l, x), S) = IF x \in S THEN Append(Keep(l, S), x) ELSE Keep(l, S)
    BY KeepAppend
  <2>3. Keep(Append(Keep(l, S), x), T) = IF x \in T THEN Append(Keep(Keep(l, S), T), x)
                                         ELSE Keep(Keep(l, S), T)
    BY <2>1, KeepAppend
  <2>4. Keep(Append(l, x), S \cap T) = IF x \in S \cap T THEN Append(Keep(l, S \cap T), x)
                                       ELSE Keep(l, S \cap T)
    BY KeepAppend
  <2>5. Keep(Keep(l, S), T) = Keep(l, S \cap T)
    BY <1>2
  <2>6. Keep(Keep(Append(l, x), S), T) = Keep(Append(l, x), S \cap T)
    <3>1. CASE x \in S /\ x \in T
      BY <2>2, <2>3, <2>4, <2>5, <3>1
    <3>2. CASE x \in S /\ x \notin T
      BY <2>2, <2>3, <2>4, <2>5, <3>2
    <3>3. CASE x \notin S
      BY <2>2, <2>4, <2>5, <3>3
    <3> QED
      BY <3>1, <3>2, <3>3
  <2> QED
    BY <2>1, <2>6
<1> HIDE DEF Fine
<1>3. Seq(A) \subseteq Fine
  BY <1>1, <1>2, AppendInduction
<1> QED
  BY <1>3 DEF Fine

(* A line put before the others is kept before them, or not at all.        *)
LEMMA PrependAppend ==
    ASSUME NEW A, NEW l \in Seq(A), NEW x \in A, NEW y \in A
    PROVE  <<y>> \o Append(l, x) = Append(<<y>> \o l, x)
<1>1. <<y>> \in Seq(A) /\ <<x>> \in Seq(A)
  OBVIOUS
<1>2. Append(l, x) = l \o <<x>>
  BY AppendIsConcat
<1>3. <<y>> \o l \in Seq(A)
  BY <1>1, ConcatProperties
<1>4. Append(<<y>> \o l, x) = (<<y>> \o l) \o <<x>>
  BY <1>3, AppendIsConcat
<1> QED
  BY <1>1, <1>2, <1>4, ConcatAssociative

LEMMA KeepPrepend ==
    ASSUME NEW A, NEW y \in A, NEW S
    PROVE  \A l \in Seq(A) :
              Keep(<<y>> \o l, S) = IF y \in S THEN <<y>> \o Keep(l, S) ELSE Keep(l, S)
<1> DEFINE Fine == {l \in Seq(A) :
                      Keep(<<y>> \o l, S) = IF y \in S THEN <<y>> \o Keep(l, S) ELSE Keep(l, S)}
<1>1. <<y>> \in Seq(A) /\ <<>> \in Seq(A)
  BY EmptySeq
<1>2. <<>> \in Fine
  <2>1. <<y>> \o <<>> = <<y>> /\ <<y>> = Append(<<>>, y)
    BY <1>1, ConcatEmptySeq
  <2>2. Keep(Append(<<>>, y), S) = IF y \in S THEN Append(Keep(<<>>, S), y) ELSE Keep(<<>>, S)
    BY <1>1, KeepAppend
  <2> QED
    BY <1>1, <2>1, <2>2, KeepEmpty
<1>3. ASSUME NEW l \in Seq(A), NEW x \in A, l \in Fine
      PROVE  Append(l, x) \in Fine
  <2>1. Append(l, x) \in Seq(A) /\ Keep(l, S) \in Seq(A) /\ <<y>> \o l \in Seq(A)
    BY <1>1, AppendProperties, KeepFits, ConcatProperties
  <2>2. <<y>> \o Append(l, x) = Append(<<y>> \o l, x)
    BY PrependAppend
  <2>3. Keep(Append(<<y>> \o l, x), S) = IF x \in S THEN Append(Keep(<<y>> \o l, S), x)
                                         ELSE Keep(<<y>> \o l, S)
    BY <2>1, KeepAppend
  <2>4. Keep(Append(l, x), S) = IF x \in S THEN Append(Keep(l, S), x) ELSE Keep(l, S)
    BY KeepAppend
  <2>5. Keep(<<y>> \o l, S) = IF y \in S THEN <<y>> \o Keep(l, S) ELSE Keep(l, S)
    BY <1>3
  <2>6. <<y>> \o Append(Keep(l, S), x) = Append(<<y>> \o Keep(l, S), x)
    BY <2>1, PrependAppend
  <2>7. Keep(<<y>> \o Append(l, x), S) = IF y \in S THEN <<y>> \o Keep(Append(l, x), S)
                                         ELSE Keep(Append(l, x), S)
    BY <2>2, <2>3, <2>4, <2>5, <2>6
  <2> QED
    BY <2>1, <2>7
<1> HIDE DEF Fine
<1>4. Seq(A) \subseteq Fine
  BY <1>2, <1>3, AppendInduction
<1> QED
  BY <1>4 DEF Fine

(* The last line stays the last if it is kept.                             *)
LEMMA KeepLast ==
    ASSUME NEW A, NEW l \in Seq(A), l # <<>>, NEW S, Last(l) \in S
    PROVE  Keep(l, S) # <<>> /\ Last(Keep(l, S)) = Last(l)
<1>1. PICK r \in Seq(A), x \in A : l = Append(r, x)
  BY SequenceEmptyOrAppend
<1>2. Last(l) = x
  BY <1>1, AppendProperties, LenProperties DEF Last
<1>3. x \in S
  BY <1>2
<1>4. Keep(Append(r, x), S) = Append(Keep(r, S), x)
  BY <1>3, KeepAppend
<1>5. Keep(r, S) \in Seq(A)
  BY KeepFits
<1> QED
  BY <1>1, <1>2, <1>4, <1>5, AppendProperties, LenProperties DEF Last

(* Counting a line is keeping it only.                                     *)
LEMMA LinesOfKeep ==
    ASSUME NEW A, NEW l \in Seq(A), NEW t, t.lines = l, NEW n
    PROVE  LinesOf(t, n) = Len(Keep(l, {n})) /\ LinesOf(t, n) \in Nat
<1>1. LinesOf(t, n) = Cardinality(Places(l, {n}))
  BY DEF LinesOf, Places
<1>2. Len(Keep(l, {n})) = Cardinality(Places(l, {n}))
  BY KeepFits
<1>3. Cardinality(Places(l, {n})) \in Nat
  BY PlacesFinite
<1> QED
  BY <1>1, <1>2, <1>3
-----------------------------------------------------------------------------
(* Lemmas: what an edit does to the user's lines and the schedules' counts.*)
Lines == Names \cup Foreign

LEMMA RemoveAny ==
    ASSUME NEW t \in Texts, t.lines = <<>> => t.closed, NEW n \in Lines
    PROVE  LET r == RemoveTagged(t, n)
           IN  /\ r \in Texts /\ (r.lines = <<>> => r.closed)
               /\ n \in Names => UsersOwn(r) = UsersOwn(t)
               /\ \A m \in Names : LinesOf(r, m) = IF m = n THEN 0 ELSE LinesOf(t, m)
<1> DEFINE l == t.lines
           rest == Keep(l, Lines \ {n})
           c == t.closed \/ Last(l) = n
           r == [lines |-> rest, closed |-> c]
<1>1. RemoveTagged(t, n) = r
  BY DEF RemoveTagged, Lines
<1>2. l \in Seq(Lines) /\ t.closed \in BOOLEAN
  BY DEF Texts, Lines
<1>3. rest \in Seq(Lines)
  BY <1>2, KeepFits
<1>4. r \in Texts
  BY <1>3 DEF Texts, Lines
<1>5. ASSUME ~c PROVE l # <<>> /\ rest # <<>> /\ Last(rest) = Last(l)
  <2>1. l # <<>>
    BY <1>5
  <2>2. Last(l) \in Lines \ {n}
    <3>1. Last(l) \in Lines
      BY <1>2, <2>1, LenProperties, EmptySeq DEF Last
    <3> QED
      BY <1>5, <3>1
  <2>3. rest # <<>> /\ Last(rest) = Last(l)
    BY <1>2, <2>1, <2>2, KeepLast
  <2> QED
    BY <2>1, <2>3
<1>6. n \in Names => Keep(rest, Foreign) = Keep(l, Foreign)
  <2> SUFFICES ASSUME n \in Names PROVE Keep(rest, Foreign) = Keep(l, Foreign)
    OBVIOUS
  <2>1. (Lines \ {n}) \cap Foreign = Foreign
    BY LinesAssumption DEF Lines
  <2> QED
    BY <1>2, <2>1, KeepTwice
<1>7. n \in Names => (c \/ Last(rest) \in Names) = (t.closed \/ Last(l) \in Names)
  BY <1>5
<1>8. n \in Names => UsersOwn(r) = UsersOwn(t)
  BY <1>6, <1>7 DEF UsersOwn
<1>9. ASSUME NEW m \in Names
      PROVE  LinesOf(r, m) = IF m = n THEN 0 ELSE LinesOf(t, m)
  <2>1. Keep(rest, {m}) = Keep(l, (Lines \ {n}) \cap {m})
    BY <1>2, KeepTwice
  <2>2. LinesOf(r, m) = Len(Keep(rest, {m})) /\ LinesOf(t, m) = Len(Keep(l, {m}))
    <3>1. r.lines = rest /\ t.lines = l
      OBVIOUS
    <3> HIDE DEF r, l, rest
    <3> QED
      BY <1>2, <1>3, <3>1, LinesOfKeep
  <2>3. CASE m = n
    <3>1. (Lines \ {n}) \cap {m} = {}
      BY <2>3
    <3>2. Keep(l, {}) = <<>>
      <4>1. Places(l, {}) = {}
        BY DEF Places
      <4> QED
        BY <1>2, <4>1, KeepNothing
    <3> QED
      BY <2>1, <2>2, <2>3, <3>1, <3>2, EmptySeq
  <2>4. CASE m # n
    <3>1. (Lines \ {n}) \cap {m} = {m}
      BY <2>4 DEF Lines
    <3> QED
      BY <2>1, <2>2, <2>4, <3>1
  <2> QED
    BY <2>3, <2>4
<1>10. r.lines = <<>> => r.closed
  BY <1>5
<1> QED
  BY <1>1, <1>4, <1>8, <1>9, <1>10

LEMMA RemoveFacts ==
    ASSUME NEW t \in Texts, t.lines = <<>> => t.closed, NEW n \in Names
    PROVE  LET r == RemoveTagged(t, n)
           IN  /\ r \in Texts /\ (r.lines = <<>> => r.closed)
               /\ UsersOwn(r) = UsersOwn(t)
               /\ \A m \in Names : LinesOf(r, m) = IF m = n THEN 0 ELSE LinesOf(t, m)
<1>1. n \in Lines
  BY DEF Lines
<1> QED
  BY <1>1, RemoveAny

(* A line of the user's that is added or taken away leaves the schedules'. *)
LEMMA UsersLineFacts ==
    ASSUME NEW t, Sound(t), NEW x \in Foreign, NEW closed \in BOOLEAN
    PROVE  LET a == [lines |-> Append(t.lines, x), closed |-> closed]
               r == RemoveTagged(t, x)
           IN  /\ Sound(a) /\ \A m \in Names : LinesOf(a, m) = LinesOf(t, m)
               /\ Sound(r) /\ \A m \in Names : LinesOf(r, m) = LinesOf(t, m)
<1> DEFINE l == t.lines
           k == Append(l, x)
           a == [lines |-> k, closed |-> closed]
           r == RemoveTagged(t, x)
<1>1. /\ t \in Texts /\ (l = <<>> => t.closed) /\ \A m \in Names : LinesOf(t, m) <= 1
      /\ x \in Lines /\ x \notin Names /\ l \in Seq(Lines)
  BY LinesAssumption DEF Sound, Texts, Lines
<1>2. r \in Texts /\ (r.lines = <<>> => r.closed)
      /\ \A m \in Names : LinesOf(r, m) = LinesOf(t, m)
  <2>1. /\ r \in Texts /\ (r.lines = <<>> => r.closed)
        /\ \A m \in Names : LinesOf(r, m) = IF m = x THEN 0 ELSE LinesOf(t, m)
    BY <1>1, RemoveAny
  <2> QED
    BY <1>1, <2>1
<1>3. k \in Seq(Lines) /\ k # <<>> /\ a.lines = k
  BY <1>1, AppendProperties
<1>4. a \in Texts
  BY <1>3 DEF Texts, Lines
<1>5. ASSUME NEW m \in Names PROVE LinesOf(a, m) = LinesOf(t, m)
  <2>1. Keep(k, {m}) = Keep(l, {m})
    BY <1>1, KeepAppend
  <2> HIDE DEF a, k
  <2>2. LinesOf(a, m) = Len(Keep(k, {m})) /\ LinesOf(t, m) = Len(Keep(l, {m}))
    BY <1>1, <1>3, LinesOfKeep
  <2> QED
    BY <2>1, <2>2
<1>6. Sound(a) /\ Sound(r)
  <2> HIDE DEF k, r
  <2> QED
    BY <1>1, <1>2, <1>3, <1>4, <1>5 DEF Sound
<1> QED
  BY <1>2, <1>5, <1>6

LEMMA UsersOwnIsText ==
    ASSUME NEW t \in Texts
    PROVE  UsersOwn(t) \in Texts
<1>1. t.lines \in Seq(Lines) /\ t.closed \in BOOLEAN
  BY DEF Texts, Lines
<1>2. Keep(t.lines, Foreign) \in Seq(Lines)
  BY <1>1, KeepFits
<1> QED
  BY <1>2 DEF UsersOwn, Texts, Lines

LEMMA InstallFacts ==
    ASSUME NEW t \in Texts, t.lines = <<>> => t.closed, NEW n \in Names
    PROVE  LET r == Install(t, n)
           IN  /\ r \in Texts /\ (r.lines = <<>> => r.closed)
               /\ UsersOwn(r) = UsersOwn(t)
               /\ \A m \in Names : LinesOf(r, m) = IF m = n THEN 1 ELSE LinesOf(t, m)
<1> DEFINE rest == RemoveTagged(t, n)
           l == rest.lines
           r == Install(t, n)
<1>1. /\ rest \in Texts /\ (rest.lines = <<>> => rest.closed)
      /\ UsersOwn(rest) = UsersOwn(t)
      /\ \A m \in Names : LinesOf(rest, m) = IF m = n THEN 0 ELSE LinesOf(t, m)
  BY RemoveFacts
<1>2. r = IF rest.closed THEN Closed(Append(l, n)) ELSE [rest EXCEPT !.lines = <<n>> \o l]
  BY DEF Install
<1> HIDE DEF rest, r
<1>3. /\ l \in Seq(Lines) /\ n \in Lines /\ <<n>> \in Seq(Lines) /\ n \notin Foreign
      /\ rest.closed \in BOOLEAN /\ rest = [lines |-> l, closed |-> rest.closed]
  BY <1>1, LinesAssumption DEF Texts, Lines
<1>4. Keep(l, {n}) = <<>>
  <2>1. LinesOf(rest, n) = 0
    BY <1>1
  <2>2. Len(Keep(l, {n})) = 0 /\ Keep(l, {n}) \in Seq(Lines)
    BY <1>3, <2>1, LinesOfKeep, KeepFits
  <2> QED
    BY <2>2, EmptySeq
<1>5. \A m \in Names : LinesOf(rest, m) = Len(Keep(l, {m}))
  BY <1>3, LinesOfKeep
<1>6. UsersOwn(rest) = [lines |-> Keep(l, Foreign), closed |-> rest.closed \/ Last(l) \in Names]
  BY DEF UsersOwn
<1>7. CASE rest.closed
  <2> DEFINE k == Append(l, n)
  <2>1. r = [lines |-> k, closed |-> TRUE] /\ r.lines = k /\ r.closed = TRUE
    BY <1>2, <1>7 DEF Closed
  <2>2. k \in Seq(Lines) /\ k # <<>>
    BY <1>3, AppendProperties
  <2>3. Keep(k, Foreign) = Keep(l, Foreign)
    BY <1>3, KeepAppend
  <2>4. UsersOwn(r) = [lines |-> Keep(k, Foreign), closed |-> TRUE]
    BY <2>1 DEF UsersOwn
  <2>5. UsersOwn(rest) = [lines |-> Keep(l, Foreign), closed |-> TRUE]
    BY <1>6, <1>7
  <2>6. ASSUME NEW m \in Names PROVE LinesOf(r, m) = IF m = n THEN 1 ELSE LinesOf(t, m)
    <3>1. LinesOf(r, m) = Len(Keep(k, {m}))
      <4> HIDE DEF k
      <4> QED
        BY <2>1, <2>2, LinesOfKeep
    <3>2. Keep(k, {m}) = IF n \in {m} THEN Append(Keep(l, {m}), n) ELSE Keep(l, {m})
      BY <1>3, KeepAppend
    <3>3. CASE m = n
      <4>1. Keep(k, {m}) = Append(<<>>, n)
        BY <1>4, <3>2, <3>3
      <4>2. Len(Append(<<>>, n)) = 1
        BY EmptySeq, AppendProperties
      <4> QED
        BY <3>1, <3>3, <4>1, <4>2
    <3>4. CASE m # n
      BY <1>1, <1>5, <3>1, <3>2, <3>4
    <3> QED
      BY <3>3, <3>4
  <2>7. r \in Texts
    BY <2>1, <2>2 DEF Texts, Lines
  <2>8. r.lines = <<>> => r.closed
    BY <2>1
  <2>9. UsersOwn(r) = UsersOwn(t)
    BY <1>1, <2>3, <2>4, <2>5
  <2> QED
    BY <2>6, <2>7, <2>8, <2>9 DEF r
<1>8. CASE ~rest.closed
  <2> DEFINE k == <<n>> \o l
  <2>1. r = [lines |-> k, closed |-> FALSE] /\ r.lines = k /\ r.closed = FALSE
    BY <1>2, <1>3, <1>8
  <2>2. /\ l # <<>> /\ k \in Seq(Lines) /\ k # <<>>
        /\ Len(l) \in Nat \ {0} /\ Len(k) = Len(l) + 1
        /\ Last(k) = Last(l)
    <3>1. l # <<>> /\ Len(l) \in Nat \ {0}
      BY <1>1, <1>3, <1>8, EmptySeq
    <3>2. Len(<<n>>) = 1
      OBVIOUS
    <3>3. k \in Seq(Lines) /\ Len(k) = 1 + Len(l)
          /\ \A i \in 1..(1 + Len(l)) : k[i] = IF i <= 1 THEN <<n>>[i] ELSE l[i - 1]
      BY <1>3, <3>2, ConcatProperties
    <3>4. k[1 + Len(l)] = l[Len(l)]
      BY <3>1, <3>3
    <3>5. k # <<>>
      BY <3>1, <3>3, EmptySeq
    <3> QED
      BY <3>1, <3>3, <3>4, <3>5 DEF Last
  <2>3. Keep(k, Foreign) = Keep(l, Foreign)
    BY <1>3, KeepPrepend
  <2>4. UsersOwn(r) = [lines |-> Keep(k, Foreign), closed |-> Last(k) \in Names]
    BY <2>1 DEF UsersOwn
  <2>5. UsersOwn(rest) = [lines |-> Keep(l, Foreign), closed |-> Last(l) \in Names]
    BY <1>6, <1>8
  <2>6. ASSUME NEW m \in Names PROVE LinesOf(r, m) = IF m = n THEN 1 ELSE LinesOf(t, m)
    <3>1. LinesOf(r, m) = Len(Keep(k, {m}))
      <4> HIDE DEF k
      <4> QED
        BY <2>1, <2>2, LinesOfKeep
    <3>2. Keep(k, {m}) = IF n \in {m} THEN <<n>> \o Keep(l, {m}) ELSE Keep(l, {m})
      BY <1>3, KeepPrepend
    <3>3. CASE m = n
      <4>1. Keep(k, {m}) = <<n>> \o <<>>
        BY <1>4, <3>2, <3>3
      <4>2. <<n>> \o <<>> = <<n>> /\ Len(<<n>>) = 1
        BY <1>3, ConcatEmptySeq
      <4> QED
        BY <3>1, <3>3, <4>1, <4>2
    <3>4. CASE m # n
      BY <1>1, <1>5, <3>1, <3>2, <3>4
    <3> QED
      BY <3>3, <3>4
  <2>7. r \in Texts
    BY <2>1, <2>2 DEF Texts, Lines
  <2>8. r.lines = <<>> => r.closed
    BY <2>1, <2>2
  <2>9. UsersOwn(r) = UsersOwn(t)
    BY <1>1, <2>2, <2>3, <2>4, <2>5
  <2> QED
    BY <2>6, <2>7, <2>8, <2>9 DEF r
<1> QED
  BY <1>3, <1>7, <1>8 DEF r

(* The crontab there was before.                                           *)
LEMMA OnceEach ==
    ASSUME NEW S, IsFiniteSet(S), NEW f \in SetToSeqs(S)
    PROVE  /\ f \in Seq(S) /\ DOMAIN f = 1..Len(f) /\ Len(f) \in Nat
           /\ Len(f) = Cardinality(S)
           /\ \A x \in S : \E i \in 1..Len(f) : f[i] = x
           /\ \A i, j \in 1..Len(f) : f[i] = f[j] => i = j
<1> DEFINE c == Cardinality(S)
<1>1. c \in Nat /\ IsFiniteSet(1..c) /\ Cardinality(1..c) = c
  BY FS_CardinalityType, FS_Interval
<1>2. f \in [1..c -> S] /\ \A i, j \in 1..c : i # j => f[i] # f[j]
  BY DEF SetToSeqs
<1> HIDE DEF c
<1>3. f \in Injection(1..c, S)
  BY <1>2 DEF Injection, IsInjective
<1>4. f \in Surjection(1..c, S)
  BY <1>1, <1>3, FS_Injection DEF c
<1>5. \A x \in S : \E i \in 1..c : f[i] = x
  BY <1>4 DEF Surjection
<1>6. f \in Seq(S)
  BY <1>1, <1>2, SeqDef
<1>7. Len(f) = c /\ DOMAIN f = 1..Len(f)
  BY <1>1, <1>2, <1>6, LenProperties
<1> QED
  BY <1>1, <1>2, <1>5, <1>6, <1>7 DEF c

(* Text t holds one line for each schedule of S and none for another.      *)
OneLineEach(t, S) == \A n \in Names : LinesOf(t, n) = IF n \in S THEN 1 ELSE 0

LEMMA InitialLines ==
    ASSUME NEW S, NEW mine, NEW kept, NEW tagged, NEW lines, NEW t, t.lines = lines,
           S \in SUBSET Names, mine \in SUBSET Foreign,
           kept \in SetToSeqs(mine), tagged \in SetToSeqs(S),
           lines = kept \o tagged \/ lines = tagged \o kept
    PROVE  /\ lines \in Seq(Lines)
           /\ lines = <<>> => mine = {}
           /\ OneLineEach(t, S)
<1>1. IsFiniteSet(S)
  BY LinesAssumption, FS_Subset
<1>0. IsFiniteSet(mine)
  BY LinesAssumption, FS_Subset
<1>2. /\ kept \in Seq(mine) /\ Len(kept) \in Nat /\ Len(kept) = Cardinality(mine)
      /\ \A i \in 1..Len(kept) : kept[i] \in Foreign
  BY <1>0, OnceEach, ElementOfSeq
<1>3. /\ tagged \in Seq(S) /\ Len(tagged) \in Nat
      /\ \A x \in S : \E i \in 1..Len(tagged) : tagged[i] = x
      /\ \A i, j \in 1..Len(tagged) : tagged[i] = tagged[j] => i = j
      /\ \A i \in 1..Len(tagged) : tagged[i] \in S
  BY <1>1, OnceEach, ElementOfSeq
<1>4. kept \in Seq(Lines) /\ tagged \in Seq(Lines)
  BY <1>2, <1>3, SeqMonotonic DEF Lines
<1>5. lines \in Seq(Lines)
  BY <1>4, ConcatProperties
<1>6. Len(lines) = Len(kept) + Len(tagged)
  <2>1. /\ Len(kept \o tagged) = Len(kept) + Len(tagged)
        /\ Len(tagged \o kept) = Len(tagged) + Len(kept)
    BY <1>4, ConcatProperties
  <2>2. Len(kept) \in Nat /\ Len(tagged) \in Nat
    BY <1>2, <1>3
  <2>3. Len(lines) = Len(kept) + Len(tagged) \/ Len(lines) = Len(tagged) + Len(kept)
    BY <2>1
  <2> QED
    BY <2>2, <2>3
<1>7. lines = <<>> => mine = {}
  <2> SUFFICES ASSUME lines = <<>> PROVE mine = {}
    OBVIOUS
  <2>1. Len(kept) = 0
    BY <1>2, <1>3, <1>6, EmptySeq
  <2> QED
    BY <1>0, <1>2, <2>1, FS_EmptySet
<1>8. \E d \in Nat :
        /\ \A i \in 1..Len(tagged) : i + d \in 1..Len(lines) /\ lines[i + d] = tagged[i]
        /\ \A k \in 1..Len(lines) : lines[k] \in Foreign \/ (k - d \in 1..Len(tagged))
  <2>1. CASE lines = kept \o tagged
    <3>1. \A i \in 1..(Len(kept) + Len(tagged)) :
             lines[i] = IF i <= Len(kept) THEN kept[i] ELSE tagged[i - Len(kept)]
      BY <1>4, <2>1, ConcatProperties
    <3>2. \A i \in 1..Len(tagged) : i + Len(kept) \in 1..Len(lines) /\ lines[i + Len(kept)] = tagged[i]
      <4> SUFFICES ASSUME NEW i \in 1..Len(tagged)
                   PROVE  i + Len(kept) \in 1..Len(lines) /\ lines[i + Len(kept)] = tagged[i]
        OBVIOUS
      <4>0. /\ Len(kept) \in Nat /\ Len(tagged) \in Nat
            /\ i \in Nat /\ 1 <= i /\ i <= Len(tagged)
        BY <1>2, <1>3
      <4>1. /\ i + Len(kept) \in 1..(Len(kept) + Len(tagged))
            /\ ~(i + Len(kept) <= Len(kept)) /\ (i + Len(kept)) - Len(kept) = i
        BY <4>0
      <4> QED
        BY <1>6, <3>1, <4>1
    <3>3. \A k \in 1..Len(lines) : lines[k] \in Foreign \/ (k - Len(kept) \in 1..Len(tagged))
      BY <1>2, <1>3, <1>6, <3>1
    <3> QED
      BY <1>2, <3>2, <3>3
  <2>2. CASE lines = tagged \o kept
    <3>1. \A i \in 1..(Len(tagged) + Len(kept)) :
             lines[i] = IF i <= Len(tagged) THEN tagged[i] ELSE kept[i - Len(tagged)]
      BY <1>4, <2>2, ConcatProperties
    <3>2. \A i \in 1..Len(tagged) : i + 0 \in 1..Len(lines) /\ lines[i + 0] = tagged[i]
      <4> SUFFICES ASSUME NEW i \in 1..Len(tagged)
                   PROVE  i + 0 \in 1..Len(lines) /\ lines[i + 0] = tagged[i]
        OBVIOUS
      <4>1. i + 0 = i /\ i <= Len(tagged) /\ i \in 1..(Len(tagged) + Len(kept))
        BY <1>2, <1>3
      <4>2. 1..(Len(tagged) + Len(kept)) = 1..Len(lines)
        BY <1>2, <1>3, <1>6
      <4> QED
        BY <3>1, <4>1, <4>2
    <3>3. \A k \in 1..Len(lines) : lines[k] \in Foreign \/ (k - 0 \in 1..Len(tagged))
      <4> SUFFICES ASSUME NEW k \in 1..Len(lines), k - 0 \notin 1..Len(tagged)
                   PROVE  lines[k] \in Foreign
        OBVIOUS
      <4>1. k \in 1..(Len(tagged) + Len(kept)) /\ ~(k <= Len(tagged))
        BY <1>2, <1>3, <1>6
      <4>2. k - Len(tagged) \in 1..Len(kept)
        BY <1>2, <1>3, <4>1
      <4> QED
        BY <1>2, <3>1, <4>1, <4>2
    <3> QED
      BY <3>2, <3>3
  <2> QED
    BY <2>1, <2>2
<1>9. PICK d \in Nat :
        /\ \A i \in 1..Len(tagged) : i + d \in 1..Len(lines) /\ lines[i + d] = tagged[i]
        /\ \A k \in 1..Len(lines) : lines[k] \in Foreign \/ (k - d \in 1..Len(tagged))
  BY <1>8
<1>10. ASSUME NEW n \in Names PROVE LinesOf(t, n) = IF n \in S THEN 1 ELSE 0
  <2> DEFINE P == {i \in 1..Len(lines) : lines[i] = n}
  <2>1. LinesOf(t, n) = Cardinality(P)
    BY <1>5, LenProperties DEF LinesOf
  <2>2. n \notin Foreign
    BY LinesAssumption
  <2>3. CASE n \in S
    <3>1. PICK i \in 1..Len(tagged) : tagged[i] = n
      BY <1>3, <2>3
    <3>2. i + d \in P
      BY <1>9, <3>1
    <3>3. ASSUME NEW k \in P PROVE k = i + d
      <4>1. k - d \in 1..Len(tagged) /\ k \in Nat
        BY <1>9, <2>2
      <4>2. lines[(k - d) + d] = tagged[k - d]
        BY <1>9, <4>1
      <4>3. (k - d) + d = k
        BY <4>1
      <4>4. tagged[k - d] = n
        BY <4>2, <4>3
      <4>5. k - d = i
        BY <1>3, <3>1, <4>1, <4>4
      <4> QED
        BY <4>1, <4>5
    <3>4. P = {i + d}
      BY <3>2, <3>3
    <3> QED
      BY <2>1, <2>3, <3>4, FS_Singleton
  <2>4. CASE n \notin S
    <3>1. ASSUME NEW k \in P PROVE FALSE
      <4>1. k - d \in 1..Len(tagged) /\ k \in Nat /\ lines[k] = n
        BY <1>9, <2>2
      <4>2. lines[(k - d) + d] = tagged[k - d] /\ (k - d) + d = k
        BY <1>9, <4>1
      <4>3. tagged[k - d] \in S
        BY <1>3, <4>1
      <4> QED
        BY <2>4, <4>1, <4>2, <4>3
    <3>2. P = {}
      BY <3>1
    <3> QED
      BY <2>1, <2>4, <3>2, FS_EmptySet
  <2> QED
    BY <2>3, <2>4
<1> QED
  BY <1>5, <1>7, <1>10 DEF OneLineEach
-----------------------------------------------------------------------------
(* Lemmas: the steps by what they do to the files and the editors.         *)
Begins(e, o, n, copied, first) ==
    /\ at[e] = "idle"
    /\ Start(e, o, n, copied, first)
    /\ \/ o = "add" /\ first = "empty" /\ spec[n] = NoSpec /\ copied = NewSpec
       \/ /\ o \in {"pause", "toggle"} /\ first = "readCrontab" /\ Readable(n)
          /\ copied = [spec[n] EXCEPT !.status = "paused"]
       \/ /\ o \in {"resume", "toggle"} /\ first = "readCrontab" /\ Readable(n)
          /\ copied = [spec[n] EXCEPT !.status = "active"]
       \/ o = "rm" /\ first = "readCrontab" /\ Readable(n) /\ copied = spec[n]
       \/ /\ o = "exec" /\ first = "run" /\ Readable(n) /\ copied = spec[n]
          /\ e \in Cmds

(* The TUI's own affairs, between two jobs.                                *)
Quiet(stage) ==
    /\ at[Tui] \in {"idle", "list", "over", "failed"}
    /\ Go(Tui, stage) /\ UNCHANGED <<fileVars, pastVars>>
    /\ \/ stage \in {"idle", "list"} /\ UNCHANGED <<job, copy, text>>
       \/ /\ stage \in {"idle", "list"}
          /\ job' = [job EXCEPT ![Tui] = NoJob]
          /\ copy' = [copy EXCEPT ![Tui] = NewSpec]
          /\ text' = [text EXCEPT ![Tui] = Closed(<<>>)]
       \/ /\ stage = "failed" /\ UNCHANGED <<copy, text>>
          /\ \E o \in {"toggle", "rm"}, n \in Names :
                job' = [job EXCEPT ![Tui] = [op |-> o, name |-> n]]

Ops == {"add", "pause", "resume", "toggle", "rm", "exec"}

StepKind ==
    \/ UNCHANGED deskVars
    \/ \E e \in Editors, o \in Ops, n \in Names, first \in Stages :
          \E copied : Begins(e, o, n, copied, first)
    \/ \E c \in Cmds, retires \in BOOLEAN : Return(c, retires)
    \/ \E e \in Editors : EditStep(e)
    \/ \E stage \in {"idle", "list", "failed"} : Quiet(stage)
    \/ UserEdits

LEMMA SelectedNamed ==
    ASSUME ScreenAgrees, rows # <<>>
    PROVE  Selected.name \in Names
<1>1. rows \in Seq(Rows) /\ Len(rows) \in Nat \ {0} /\ sel \in Nat \ {0}
  BY EmptySeq DEF ScreenAgrees
<1>2. Lesser(sel, Len(rows)) \in 1..Len(rows)
  BY <1>1 DEF Lesser
<1>3. Selected \in Rows
  BY <1>1, <1>2, ElementOfSeq DEF Selected
<1> QED
  BY <1>3 DEF Rows

LEMMA CommandBegins ==
    ASSUME NEW c \in Cmds, Command(c)
    PROVE  StepKind
<1> USE DEF Editors, Ops, Stages
<1>1. PICK n \in Names :
          \/ Add(c, n) \/ TakeOut(c, n) \/ Exec(c, n)
          \/ Pause(c, "pause", n) \/ Resume(c, "resume", n)
  BY DEF Command
<1>2. at[c] = "idle"
  BY DEF Command
<1>3. CASE Add(c, n)
  <2>1. Begins(c, "add", n, NewSpec, "empty")
    BY <1>2, <1>3 DEF Add, Begins
  <2> QED
    BY <2>1 DEF StepKind
<1>4. CASE TakeOut(c, n)
  <2>1. Begins(c, "rm", n, spec[n], "readCrontab")
    BY <1>2, <1>4 DEF TakeOut, Begins
  <2> QED
    BY <2>1 DEF StepKind
<1>5. CASE Exec(c, n)
  <2>1. Begins(c, "exec", n, spec[n], "run")
    BY <1>2, <1>5 DEF Exec, Begins
  <2> QED
    BY <2>1 DEF StepKind
<1>6. CASE Pause(c, "pause", n)
  <2>1. Begins(c, "pause", n, [spec[n] EXCEPT !.status = "paused"], "readCrontab")
    BY <1>2, <1>6 DEF Pause, Begins
  <2> QED
    BY <2>1 DEF StepKind
<1>7. CASE Resume(c, "resume", n)
  <2>1. Begins(c, "resume", n, [spec[n] EXCEPT !.status = "active"], "readCrontab")
    BY <1>2, <1>7 DEF Resume, Begins
  <2> QED
    BY <2>1 DEF StepKind
<1> QED
  BY <1>1, <1>3, <1>4, <1>5, <1>6, <1>7

LEMMA ToggleBegins ==
    ASSUME at[Tui] = "idle", NEW n \in Names, ToggleOrRefuse(n)
    PROVE  StepKind
<1> USE DEF Editors, Ops, Stages
<1>1. CASE Pause(Tui, "toggle", n)
  <2>1. Begins(Tui, "toggle", n, [spec[n] EXCEPT !.status = "paused"], "readCrontab")
    BY <1>1 DEF Pause, Begins
  <2> QED
    BY <2>1 DEF StepKind
<1>2. CASE Resume(Tui, "toggle", n)
  <2>1. Begins(Tui, "toggle", n, [spec[n] EXCEPT !.status = "active"], "readCrontab")
    BY <1>2 DEF Resume, Begins
  <2> QED
    BY <2>1 DEF StepKind
<1>3. CASE Refused("toggle", n)
  <2>1. Quiet("failed")
    BY <1>3 DEF Refused, Quiet
  <2> QED
    BY <2>1 DEF StepKind
<1> QED
  BY <1>1, <1>2, <1>3 DEF ToggleOrRefuse, Toggle

LEMMA RemoveBegins ==
    ASSUME at[Tui] = "idle", NEW n \in Names, RemoveOrRefuse(n)
    PROVE  StepKind
<1> USE DEF Editors, Ops, Stages
<1>1. CASE TakeOut(Tui, n)
  <2>1. Begins(Tui, "rm", n, spec[n], "readCrontab")
    BY <1>1 DEF TakeOut, Begins
  <2> QED
    BY <2>1 DEF StepKind
<1>2. CASE Refused("rm", n)
  <2>1. Quiet("failed")
    BY <1>2 DEF Refused, Quiet
  <2> QED
    BY <2>1 DEF StepKind
<1> QED
  BY <1>1, <1>2 DEF RemoveOrRefuse

LEMMA KeyIsKind ==
    ASSUME ScreenAgrees, Key
    PROVE  StepKind
<1> USE DEF Editors, Ops, Stages
<1>1. CASE PressTab \/ PressEscape
  <2>1. PICK t : Turn(t) /\ at[Tui] = "idle"
    BY <1>1 DEF PressTab, PressEscape, On, Idle
  <2>2. UNCHANGED deskVars \/ Quiet("list")
    BY <2>1 DEF Turn, Quiet, deskVars, editVars
  <2> QED
    BY <2>2 DEF StepKind
<1>2. CASE Move \/ OpenForm \/ CloseForm \/ OpenDetail \/ AskRemove \/ AskInDetail \/ AnswerNo
  <2>1. UNCHANGED deskVars
    BY <1>2 DEF Move, OpenForm, CloseForm, OpenDetail, AskRemove, AskInDetail, AnswerNo, Show
  <2> QED
    BY <2>1 DEF StepKind
<1>3. CASE PressToggle
  <2>1. PICK n \in Names : ToggleOrRefuse(n) /\ at[Tui] = "idle"
    <3>1. CASE On("list") /\ AtRow /\ Begin(ToggleOrRefuse(Selected.name))
      BY <3>1, SelectedNamed DEF On, Idle, AtRow, Begin
    <3>2. CASE On("detail") /\ detail # NoSpec /\ Begin(ToggleOrRefuse(shown))
      BY <3>2 DEF On, Idle, Begin, ScreenAgrees
    <3> QED
      BY <1>3, <3>1, <3>2 DEF PressToggle
  <2> QED
    BY <2>1, ToggleBegins
<1>4. CASE PressYes
  <2>1. RemoveOrRefuse(shown) /\ shown \in Names /\ at[Tui] = "idle"
    BY <1>4 DEF PressYes, On, Idle, Begin, ScreenAgrees
  <2> QED
    BY <2>1, RemoveBegins
<1>5. CASE Submit
  <2>1. PICK n \in Names : Add(Tui, n) /\ at[Tui] = "idle"
    BY <1>5 DEF Submit, On, Idle, Begin
  <2>2. Begins(Tui, "add", n, NewSpec, "empty")
    BY <2>1 DEF Add, Begins
  <2> QED
    BY <2>2 DEF StepKind
<1>6. CASE PressExec \/ Back \/ Vanished
  <2>1. at[Tui] = "idle" /\ \E m, t, n, aimed : Jobless(m, t, n, aimed)
    BY <1>6 DEF PressExec, Back, Vanished, On, Idle
  <2>2. Quiet("list")
    BY <2>1 DEF Jobless, Leave, Reload, Quiet
  <2> QED
    BY <2>2 DEF StepKind
<1> QED
  BY <1>1, <1>2, <1>3, <1>4, <1>5, <1>6 DEF Key

LEMMA StepHasKind ==
    ASSUME ScreenAgrees, [Next]_vars
    PROVE  StepKind
<1> USE DEF Editors
<1>1. CASE UNCHANGED vars
  BY <1>1 DEF vars, StepKind
<1>2. ASSUME NEW c \in Cmds, Command(c) \/ CommandStep(c)
      PROVE  StepKind
  <2>1. CASE Command(c)
    BY <2>1, CommandBegins
  <2>2. CASE CommandStep(c)
    BY <2>2 DEF CommandStep, StepKind
  <2> QED
    BY <1>2, <2>1, <2>2
<1>7. CASE UserEdits
  BY <1>7 DEF StepKind
<1>3. CASE Handler
  <2>1. CASE ListSpecs
    <3>1. Quiet("idle")
      BY <2>1 DEF ListSpecs, Quiet
    <3> QED
      BY <3>1 DEF StepKind
  <2>2. CASE Settle
    <3>1. Quiet("list") \/ Quiet("idle")
      <4>1. Go(Tui, "list") \/ Go(Tui, "idle")
        BY <2>2 DEF Settle, Leave, Reload
      <4>2. /\ at[Tui] \in {"over", "failed"}
            /\ job' = [job EXCEPT ![Tui] = NoJob]
            /\ copy' = [copy EXCEPT ![Tui] = NewSpec]
            /\ text' = [text EXCEPT ![Tui] = Closed(<<>>)]
            /\ UNCHANGED <<fileVars, pastVars>>
        BY <2>2 DEF Settle
      <4> QED
        BY <4>1, <4>2 DEF Quiet
    <3> QED
      BY <3>1 DEF StepKind
  <2>3. CASE EditStep(Tui)
    BY <2>3 DEF StepKind
  <2> QED
    BY <1>3, <2>1, <2>2, <2>3 DEF Handler
<1>4. CASE Tick
  <2>1. UNCHANGED deskVars \/ Quiet("list")
    BY <1>4 DEF Tick, Idle, Refresh, Reload, Quiet, deskVars, editVars
  <2> QED
    BY <2>1 DEF StepKind
<1>5. CASE PollDetail
  BY <1>5 DEF PollDetail, Show, StepKind
<1>6. CASE Key
  BY <1>6, KeyIsKind
<1> QED
  BY <1>1, <1>2, <1>3, <1>4, <1>5, <1>6, <1>7 DEF Next, DeskNext
-----------------------------------------------------------------------------
(* Lemmas: the parts of a job's beginning and of a run's return.           *)
Statuses == {"active", "paused", "retired"}

LEMMA StatusParts ==
    ASSUME NEW s \in Specs, NEW x \in Statuses
    PROVE  /\ [s EXCEPT !.status = x] \in Specs
           /\ [s EXCEPT !.status = x].status = x /\ [s EXCEPT !.status = x].runs = s.runs
  BY DEF Specs, Statuses

LEMMA RunsParts ==
    ASSUME NEW s \in Specs, NEW r \in 0..Cardinality(Cmds)
    PROVE  /\ [s EXCEPT !.runs = r] \in Specs
           /\ [s EXCEPT !.runs = r].status = s.status /\ [s EXCEPT !.runs = r].runs = r
  BY DEF Specs

LEMMA CmdsCounted ==
    /\ Cardinality(Cmds) \in Nat /\ 0 \in 0..Cardinality(Cmds)
    /\ NewSpec \in Specs /\ NewSpec.status = "active" /\ NewSpec.runs = 0
    /\ NoSpec \notin Specs /\ Torn \notin Specs /\ NoSpec # Torn
<1>1. Cardinality(Cmds) \in Nat
  BY DeskAssumption, FS_CardinalityType
<1> QED
  BY <1>1, FilesAssumption DEF NewSpec, Specs

LEMMA CountedBound ==
    ASSUME NEW n
    PROVE  /\ IsFiniteSet(Counted(n)) /\ Cardinality(Counted(n)) \in Nat
           /\ Counted(n) \subseteq Cmds /\ Cardinality(Counted(n)) <= Cardinality(Cmds)
<1>1. Counted(n) \in SUBSET Cmds
  BY DEF Counted
<1> QED
  BY <1>1, DeskAssumption, FS_Subset, FS_CardinalityType

LEMMA BeginsParts ==
    ASSUME DeskTypeOK, NEW e \in Editors, NEW o \in Ops, NEW n \in Names, NEW first \in Stages,
           NEW copied, Begins(e, o, n, copied, first)
    PROVE  /\ copied \in Specs /\ [op |-> o, name |-> n] \in Jobs
           /\ o \in {"add", "resume"} => copied.status = "active"
           /\ o = "pause" => copied.status = "paused"
           /\ o = "toggle" => copied.status \in {"active", "paused"}
           /\ IF o = "add" THEN spec[n] = NoSpec /\ copied = NewSpec /\ first = "empty"
              ELSE /\ Readable(n) /\ copied.runs = spec[n].runs
                   /\ first = IF o = "exec" THEN "run" ELSE "readCrontab"
           /\ o = "exec" => e \in Cmds
           /\ first \in {"empty", "readCrontab", "run"}
<1>1. [op |-> o, name |-> n] \in Jobs
  BY DEF Jobs, Ops
<1>2. CASE o = "add"
  <2>1. spec[n] = NoSpec /\ copied = NewSpec /\ first = "empty"
    BY <1>2 DEF Begins
  <2> QED
    BY <1>1, <1>2, <2>1, CmdsCounted
<1>3. CASE o # "add"
  <2>1. Readable(n) /\ spec[n] \in Specs
    BY <1>3 DEF Begins, Readable
  <2>2. \A x \in Statuses : /\ [spec[n] EXCEPT !.status = x] \in Specs
                            /\ [spec[n] EXCEPT !.status = x].status = x
                            /\ [spec[n] EXCEPT !.status = x].runs = spec[n].runs
    BY <2>1, StatusParts
  <2>3. "active" \in Statuses /\ "paused" \in Statuses
    BY DEF Statuses
  <2> QED
    BY <1>1, <1>3, <2>1, <2>2, <2>3 DEF Begins
<1> QED
  BY <1>2, <1>3

LEMMA ReturnParts ==
    ASSUME DeskTypeOK, JobsAgree, RunsCounted, NEW c \in Cmds, NEW retires \in BOOLEAN,
           Return(c, retires)
    PROVE  /\ at[c] = "run" /\ Op(c) = "exec" /\ Name(c) \in Names /\ job[c] \in Jobs
           /\ job[c] = [op |-> "exec", name |-> Name(c)]
           /\ log' = [log EXCEPT ![Name(c)] = @ + 1]
           /\ UNCHANGED <<spec, stamp, crontab, job, text, faults, stranded>>
           /\ UNCHANGED <<own, late, lost, edits>>
           /\ \/ /\ Readable(Name(c))
                 /\ \E s \in Specs, stage \in {"readCrontab", "empty"} :
                       /\ copy' = [copy EXCEPT ![c] = s] /\ Go(c, stage)
                       /\ s.runs = spec[Name(c)].runs + 1
                       /\ s.status = IF stage = "readCrontab" THEN "retired"
                                     ELSE spec[Name(c)].status
                       /\ overlap' = (overlap \/ \E d \in Editors \ {c} : Working(d))
              \/ Go(c, "over") /\ UNCHANGED <<copy, overlap>>
<1> DEFINE n == Name(c)
<1>1. at[c] = "run" /\ c \in Editors
  BY DEF Return, Editors
<1>2. job[c] \in Jobs /\ Op(c) = "exec"
  BY <1>1 DEF JobsAgree
<1>3. n \in Names /\ job[c] = [op |-> "exec", name |-> n]
  BY <1>2 DEF Jobs, Op, Name
<1>4. UNCHANGED <<spec, stamp, crontab, job, text, faults, stranded, own, late, lost, edits>>
      /\ log' = [log EXCEPT ![n] = @ + 1]
  BY DEF Return
<1>5. CASE Readable(n)
  <2> DEFINE counted == [spec[n] EXCEPT !.runs = @ + 1]
             retired == retires /\ spec[n].status = copy[c].status
             s == IF retired THEN [counted EXCEPT !.status = "retired"] ELSE counted
             stage == IF retired THEN "readCrontab" ELSE "empty"
  <2>1. copy' = [copy EXCEPT ![c] = s] /\ Go(c, stage)
        /\ overlap' = (overlap \/ \E d \in Editors \ {c} : Working(d))
    BY <1>5 DEF Return
  <2>2. spec[n] \in Specs /\ spec[n].runs \in Nat
    BY <1>5, CmdsCounted DEF Readable, Specs
  <2>3. spec[n].runs + 1 \in 0..Cardinality(Cmds)
    <3>1. spec[n].runs <= Cardinality(Counted(n))
      BY <1>3, <1>5 DEF RunsCounted
    <3>2. Counted(n) \subseteq Cmds \ {c} /\ IsFiniteSet(Cmds \ {c})
          /\ Cardinality(Cmds \ {c}) = Cardinality(Cmds) - 1
      BY <1>1, DeskAssumption, FS_RemoveElement DEF Counted
    <3>3. Cardinality(Counted(n)) <= Cardinality(Cmds) - 1
      BY <3>2, FS_Subset
    <3> QED
      BY <2>2, <3>1, <3>3, CountedBound, CmdsCounted
  <2>4. counted \in Specs /\ counted.status = spec[n].status /\ counted.runs = spec[n].runs + 1
    <3>1. counted = [spec[n] EXCEPT !.runs = spec[n].runs + 1]
      OBVIOUS
    <3> QED
      BY <2>2, <2>3, <3>1, RunsParts
  <2> HIDE DEF counted
  <2>5. /\ [counted EXCEPT !.status = "retired"] \in Specs
        /\ [counted EXCEPT !.status = "retired"].status = "retired"
        /\ [counted EXCEPT !.status = "retired"].runs = counted.runs
    <3>1. "retired" \in Statuses
      BY DEF Statuses
    <3> QED
      BY <2>4, <3>1, StatusParts
  <2>6. /\ s \in Specs /\ s.runs = spec[n].runs + 1 /\ stage \in {"readCrontab", "empty"}
        /\ s.status = IF stage = "readCrontab" THEN "retired" ELSE spec[n].status
    BY <2>4, <2>5
  <2> HIDE DEF s, stage
  <2> QED
    BY <1>1, <1>2, <1>3, <1>4, <1>5, <2>1, <2>6
<1>6. CASE ~Readable(n)
  <2>1. Go(c, "over") /\ UNCHANGED <<copy, overlap>>
    BY <1>6 DEF Return
  <2> QED
    BY <1>1, <1>2, <1>3, <1>4, <2>1
<1> QED
  BY <1>5, <1>6
-----------------------------------------------------------------------------
(* Types and jobs survive every step.                                      *)
LEMMA EditedParts ==
    ASSUME NEW e \in Editors, Sound(text[e]), Name(e) \in Names
    PROVE  /\ Sound(Edited(e)) /\ UsersOwn(Edited(e)) = UsersOwn(text[e])
           /\ \A m \in Names : LinesOf(Edited(e), m) =
                 IF m # Name(e) THEN LinesOf(text[e], m) ELSE IF Removes(e) THEN 0 ELSE 1
<1> DEFINE t == text[e]
           n == Name(e)
<1>1. t \in Texts /\ (t.lines = <<>> => t.closed) /\ \A m \in Names : LinesOf(t, m) <= 1
  BY DEF Sound
<1>2. CASE Removes(e)
  <2>1. Edited(e) = RemoveTagged(t, n)
    BY <1>2 DEF Edited
  <2> HIDE DEF t, n
  <2>2. /\ Edited(e) \in Texts /\ (Edited(e).lines = <<>> => Edited(e).closed)
        /\ UsersOwn(Edited(e)) = UsersOwn(t)
        /\ \A m \in Names : LinesOf(Edited(e), m) = IF m = n THEN 0 ELSE LinesOf(t, m)
    BY <1>1, <2>1, RemoveFacts DEF n
  <2> QED
    BY <1>1, <1>2, <2>2 DEF Sound, t, n
<1>3. CASE ~Removes(e)
  <2>1. Edited(e) = Install(t, n)
    BY <1>3 DEF Edited
  <2> HIDE DEF t, n
  <2>2. /\ Edited(e) \in Texts /\ (Edited(e).lines = <<>> => Edited(e).closed)
        /\ UsersOwn(Edited(e)) = UsersOwn(t)
        /\ \A m \in Names : LinesOf(Edited(e), m) = IF m = n THEN 1 ELSE LinesOf(t, m)
    BY <1>1, <2>1, InstallFacts DEF n
  <2> QED
    BY <1>1, <1>3, <2>2 DEF Sound, t, n
<1> QED
  BY <1>2, <1>3

LEMMA ClosedSound == Sound(Closed(<<>>))
<1>1. Closed(<<>>) \in Texts /\ Closed(<<>>).closed
  BY EmptySeq DEF Closed, Texts
<1>2. ASSUME NEW n \in Names PROVE LinesOf(Closed(<<>>), n) <= 1
  <2>1. Closed(<<>>).lines = <<>> /\ <<>> \in Seq(Lines) /\ Len(<<>>) = 0
    BY EmptySeq DEF Closed
  <2>2. LinesOf(Closed(<<>>), n) = Len(Keep(<<>>, {n}))
    BY <2>1, LinesOfKeep
  <2> QED
    BY <2>1, <2>2, KeepEmpty
<1> QED
  BY <1>1, <1>2 DEF Sound

LEMMA WorkerHasJob ==
    ASSUME DeskTypeOK, NEW e \in Editors, Working(e)
    PROVE  job[e] \in Jobs /\ Op(e) \in Ops /\ Name(e) \in Names
<1>1. job[e] \in Jobs
  BY DEF DeskTypeOK
<1> QED
  BY <1>1 DEF Jobs, Op, Name, Ops

LEMMA EditFrame ==
    ASSUME DeskTypeOK, NEW e \in Editors, EditStep(e)
    PROVE  /\ Working(e) /\ job[e] \in Jobs /\ Op(e) \in Ops /\ Name(e) \in Names
           /\ UNCHANGED <<job, copy>>
           /\ \/ spec' = spec
              \/ \E x \in {copy[e], NoSpec, Torn} : spec' = [spec EXCEPT ![Name(e)] = x]
           /\ at' \in [Editors -> Stages]
           /\ \A d \in Editors \ {e} : at'[d] = at[d] \/ (at[d] = "write" /\ at'[d] = "writeUnlinked")
           /\ at'[e] \notin {"idle", "list", "run"}
           /\ at'[e] = "unlink" => Op(e) = "rm"
           /\ at'[e] \in {"readCrontab", "writeCrontab"} =>
                at[e] \in {"readCrontab", "writeCrontab"} \/ Op(e) = "add"
           /\ \A d \in Editors : Working(d)' => Working(d)
<1>0. at \in [Editors -> Stages]
  BY DEF DeskTypeOK
<1>1. Working(e)
  BY DEF EditStep, ReadCrontab, WriteCrontab, CrontabFails, EmptySpec, WriteSpec,
         UnlinkSpec, NoteRemoval, Working
<1>2. job[e] \in Jobs /\ Op(e) \in Ops /\ Name(e) \in Names
  BY <1>1, WorkerHasJob
<1>4. UNCHANGED <<job, copy>>
  BY DEF EditStep, ReadCrontab, WriteCrontab, CrontabFails, EmptySpec, WriteSpec,
         UnlinkSpec, NoteRemoval
<1>5. \/ spec' = spec
      \/ \E x \in {copy[e], NoSpec, Torn} : spec' = [spec EXCEPT ![Name(e)] = x]
  BY DEF EditStep, ReadCrontab, WriteCrontab, CrontabFails, EmptySpec, WriteSpec,
         UnlinkSpec, NoteRemoval, fileVars
<1>8. /\ at' \in [Editors -> Stages]
      /\ \A d \in Editors \ {e} : at'[d] = at[d] \/ (at[d] = "write" /\ at'[d] = "writeUnlinked")
      /\ at'[e] \notin {"idle", "list", "run"}
      /\ at'[e] = "unlink" => Op(e) = "rm"
      /\ at'[e] \in {"readCrontab", "writeCrontab"} =>
           at[e] \in {"readCrontab", "writeCrontab"} \/ Op(e) = "add"
  <2>1. CASE UnlinkSpec(e)
    BY <1>0, <2>1 DEF UnlinkSpec, Stages
  <2>2. CASE ~UnlinkSpec(e)
    <3>1. PICK stage \in Stages \ {"idle", "list", "run"} :
             /\ at' = [at EXCEPT ![e] = stage]
             /\ stage = "unlink" => Op(e) = "rm"
             /\ stage \in {"readCrontab", "writeCrontab"} =>
                   at[e] \in {"readCrontab", "writeCrontab"} \/ Op(e) = "add"
      <4>1. CASE ReadCrontab(e)
        BY <4>1 DEF ReadCrontab, Go, Stages
      <4>2. CASE WriteCrontab(e)
        BY <4>2, <1>2 DEF WriteCrontab, Go, AfterCrontab, Stages, Ops
      <4>3. CASE CrontabFails(e)
        BY <4>3, <1>2 DEF CrontabFails, Go, AfterFailure, Stages, Ops
      <4>4. CASE EmptySpec(e)
        <5>1. at' = [at EXCEPT ![e] = "write"] /\ "write" \in Stages \ {"idle", "list", "run"}
          BY <4>4 DEF EmptySpec, Go, Stages
        <5> QED
          BY <5>1
      <4>5. CASE WriteSpec(e)
        <5>1. PICK stage \in {"readCrontab", "over"} :
                 at' = [at EXCEPT ![e] = stage] /\ (stage = "readCrontab" => Op(e) = "add")
          BY <4>5 DEF WriteSpec, Go
        <5>2. stage \in Stages \ {"idle", "list", "run"}
          BY DEF Stages
        <5> QED
          BY <5>1, <5>2
      <4>6. CASE NoteRemoval(e)
        <5>1. at' = [at EXCEPT ![e] = "over"] /\ "over" \in Stages \ {"idle", "list", "run"}
          BY <4>6 DEF NoteRemoval, Go, Stages
        <5> QED
          BY <5>1
      <4> QED
        BY <2>2, <4>1, <4>2, <4>3, <4>4, <4>5, <4>6 DEF EditStep
    <3> QED
      BY <1>0, <3>1
  <2> QED
    BY <2>1, <2>2
<1>9. \A d \in Editors : Working(d)' => Working(d)
  <2> SUFFICES ASSUME NEW d \in Editors, Working(d)' PROVE Working(d)
    OBVIOUS
  <2>1. CASE d = e
    BY <1>1, <2>1
  <2>2. CASE d # e
    BY <1>8, <2>2 DEF Working
  <2> QED
    BY <2>1, <2>2
<1> QED
  BY <1>1, <1>2, <1>4, <1>5, <1>8, <1>9

LEMMA QuietFrame ==
    ASSUME DeskTypeOK, NEW stage \in {"idle", "list", "failed"}, Quiet(stage)
    PROVE  /\ at' = [at EXCEPT ![Tui] = stage] /\ ~Working(Tui)
           /\ UNCHANGED <<spec, stamp, log, crontab, faults, overlap, stranded>>
           /\ UNCHANGED <<own, late, lost, edits>>
           /\ \E j \in Jobs \cup {NoJob}, s \in Specs, x \in {text[Tui], Closed(<<>>)} :
                 /\ job' = [job EXCEPT ![Tui] = j] /\ copy' = [copy EXCEPT ![Tui] = s]
                 /\ text' = [text EXCEPT ![Tui] = x]
                 /\ stage = "failed" => j \in Jobs
<1>1. /\ Tui \in Editors /\ job \in [Editors -> Jobs \cup {NoJob}]
      /\ copy \in [Editors -> Specs] /\ text \in [Editors -> Texts]
  BY DEF DeskTypeOK, Editors
<1>2. \E j \in Jobs \cup {NoJob}, s \in Specs, x \in {text[Tui], Closed(<<>>)} :
         /\ job' = [job EXCEPT ![Tui] = j] /\ copy' = [copy EXCEPT ![Tui] = s]
         /\ text' = [text EXCEPT ![Tui] = x]
         /\ stage = "failed" => j \in Jobs
  <2>1. /\ job = [job EXCEPT ![Tui] = job[Tui]] /\ copy = [copy EXCEPT ![Tui] = copy[Tui]]
        /\ text = [text EXCEPT ![Tui] = text[Tui]]
    BY <1>1
  <2>2. NewSpec \in Specs
    BY CmdsCounted
  <2>3. \A o \in {"toggle", "rm"}, n \in Names : [op |-> o, name |-> n] \in Jobs
    BY DEF Jobs
  <2>4. job[Tui] \in Jobs \cup {NoJob} /\ copy[Tui] \in Specs /\ text[Tui] \in Texts
    BY <1>1
  <2>5. CASE stage \in {"idle", "list"} /\ UNCHANGED <<job, copy, text>>
    BY <2>1, <2>4, <2>5
  <2>6. CASE /\ stage \in {"idle", "list"}
             /\ job' = [job EXCEPT ![Tui] = NoJob]
             /\ copy' = [copy EXCEPT ![Tui] = NewSpec]
             /\ text' = [text EXCEPT ![Tui] = Closed(<<>>)]
    BY <2>2, <2>6
  <2>7. CASE /\ stage = "failed" /\ UNCHANGED <<copy, text>>
             /\ \E o \in {"toggle", "rm"}, n \in Names :
                   job' = [job EXCEPT ![Tui] = [op |-> o, name |-> n]]
    <3>1. PICK j \in Jobs : job' = [job EXCEPT ![Tui] = j]
      BY <2>3, <2>7
    <3> QED
      BY <2>1, <2>4, <2>7, <3>1
  <2> QED
    BY <2>5, <2>6, <2>7 DEF Quiet
<1>3. at' = [at EXCEPT ![Tui] = stage] /\ ~Working(Tui)
      /\ UNCHANGED <<spec, stamp, log, crontab, faults, overlap, stranded>>
      /\ UNCHANGED <<own, late, lost, edits>>
  BY DEF Quiet, Go, fileVars, pastVars, Working
<1> QED
  BY <1>2, <1>3

LEMMA UserEditsParts ==
    ASSUME TextsSound, UserEdits
    PROVE  /\ Sound(crontab') /\ \A m \in Names : Count(m)' = Count(m)
           /\ own' = UsersOwn(crontab') /\ own' \in Texts
           /\ late' = {e \in Editors : at[e] = "writeCrontab"} /\ lost' = FALSE
           /\ edits' = edits + 1
           /\ UNCHANGED <<spec, stamp, log, at, job, copy, text, faults, overlap, stranded>>
<1>1. Sound(crontab)
  BY DEF TextsSound
<1>2. PICK x \in Foreign, closed \in BOOLEAN :
         \/ crontab' = [lines |-> Append(crontab.lines, x), closed |-> closed]
         \/ crontab' = RemoveTagged(crontab, x)
  BY DEF UserEdits
<1>3. Sound(crontab') /\ \A m \in Names : LinesOf(crontab', m) = LinesOf(crontab, m)
  <2> DEFINE a == [lines |-> Append(crontab.lines, x), closed |-> closed]
             r == RemoveTagged(crontab, x)
  <2>1. /\ Sound(a) /\ \A m \in Names : LinesOf(a, m) = LinesOf(crontab, m)
        /\ Sound(r) /\ \A m \in Names : LinesOf(r, m) = LinesOf(crontab, m)
    BY <1>1, UsersLineFacts
  <2>2. crontab' = a \/ crontab' = r
    BY <1>2
  <2> HIDE DEF a, r
  <2> QED
    BY <2>1, <2>2
<1>4. own' = UsersOwn(crontab') /\ own' \in Texts
  <2>1. own' = UsersOwn(crontab')
    BY DEF UserEdits
  <2> QED
    BY <1>3, <2>1, UsersOwnIsText DEF Sound
<1>5. /\ late' = {e \in Editors : at[e] = "writeCrontab"} /\ lost' = FALSE
      /\ edits' = edits + 1
      /\ UNCHANGED <<spec, stamp, log, at, job, copy, text, faults, overlap, stranded>>
  BY DEF UserEdits, editVars
<1> QED
  BY <1>3, <1>4, <1>5 DEF Count

(* What an editor's step does to the books about the user's lines.         *)
LEMMA EditBooks ==
    ASSUME NEW e \in Editors, EditStep(e)
    PROVE  /\ UNCHANGED <<own, edits>> /\ late' \in {late, late \ {e}}
           /\ lost' = IF WriteCrontab(e) THEN lost \/ e \in late ELSE lost
<1>1. CASE WriteCrontab(e)
  BY <1>1 DEF WriteCrontab
<1>2. CASE ~WriteCrontab(e)
  BY <1>2 DEF EditStep, ReadCrontab, CrontabFails, EmptySpec, WriteSpec, UnlinkSpec,
              NoteRemoval, pastVars
<1> QED
  BY <1>1, <1>2

LEMMA BooksTyped ==
    ASSUME DeskTypeOK, TextsSound, JobsAgree, RunsCounted, StepKind
    PROVE  own' \in Texts /\ late' \subseteq Editors /\ lost' \in BOOLEAN /\ edits' \in Nat
<1>1. own \in Texts /\ late \subseteq Editors /\ lost \in BOOLEAN /\ edits \in Nat
  BY DEF DeskTypeOK
<1>2. ASSUME UNCHANGED <<own, late, lost, edits>>
      PROVE  own' \in Texts /\ late' \subseteq Editors /\ lost' \in BOOLEAN /\ edits' \in Nat
  BY <1>1, <1>2
<1>3. CASE UNCHANGED deskVars
  BY <1>2, <1>3 DEF deskVars, pastVars
<1>4. CASE \E e \in Editors, o \in Ops, n \in Names, first \in Stages :
              \E copied : Begins(e, o, n, copied, first)
  BY <1>2, <1>4 DEF Begins, Start
<1>5. CASE \E c \in Cmds, retires \in BOOLEAN : Return(c, retires)
  BY <1>2, <1>5 DEF Return
<1>6. ASSUME NEW e \in Editors, EditStep(e)
      PROVE  own' \in Texts /\ late' \subseteq Editors /\ lost' \in BOOLEAN /\ edits' \in Nat
  <2>1. /\ UNCHANGED <<own, edits>> /\ late' \in {late, late \ {e}}
        /\ lost' = IF WriteCrontab(e) THEN lost \/ e \in late ELSE lost
    BY <1>6, EditBooks
  <2>2. lost' \in BOOLEAN
    BY <1>1, <2>1
  <2> QED
    BY <1>1, <2>1, <2>2
<1>7. CASE \E stage \in {"idle", "list", "failed"} : Quiet(stage)
  BY <1>2, <1>7 DEF Quiet, pastVars
<1>8. CASE UserEdits
  <2>1. own' \in Texts /\ late' \subseteq Editors /\ lost' = FALSE /\ edits' = edits + 1
    BY <1>8, UserEditsParts
  <2>2. edits' \in Nat
    <3>1. edits \in Nat /\ edits' = edits + 1
      BY <1>1, <2>1
    <3> QED
      BY <3>1
  <2>3. lost' \in BOOLEAN
    BY <2>1
  <2> QED
    BY <2>1, <2>2, <2>3
<1> QED
  BY <1>3, <1>4, <1>5, <1>6, <1>7, <1>8 DEF StepKind

LEMMA TypesStep ==
    ASSUME DeskTypeOK, TextsSound, JobsAgree, RunsCounted, StepKind
    PROVE  DeskTypeOK' /\ JobsAgree'
<1>1. /\ spec \in [Names -> Specs \cup {NoSpec, Torn}]
      /\ stamp \in [Names -> Nat] /\ log \in [Names -> Nat]
      /\ crontab \in Texts /\ at \in [Editors -> Stages]
      /\ job \in [Editors -> Jobs \cup {NoJob}]
      /\ copy \in [Editors -> Specs] /\ text \in [Editors -> Texts]
  BY DEF DeskTypeOK
<1>0. own' \in Texts /\ late' \subseteq Editors /\ lost' \in BOOLEAN /\ edits' \in Nat
  BY BooksTyped
<1>2. Tui \in Editors /\ Cmds \subseteq Editors /\ Tui \notin Cmds
  BY DeskAssumption DEF Editors
<1>3. CASE UNCHANGED deskVars
  BY <1>3 DEF deskVars, fileVars, editVars, pastVars, DeskTypeOK, JobsAgree, Working, Op
<1>4. ASSUME NEW e \in Editors, NEW o \in Ops, NEW n \in Names, NEW first \in Stages,
             NEW copied, Begins(e, o, n, copied, first)
      PROVE  DeskTypeOK' /\ JobsAgree'
  <2> DEFINE started == [op |-> o, name |-> n]
  <2>1. /\ job' = [job EXCEPT ![e] = started] /\ copy' = [copy EXCEPT ![e] = copied]
        /\ at' = [at EXCEPT ![e] = first]
        /\ UNCHANGED <<spec, stamp, log, crontab, text>>
    BY <1>4 DEF Begins, Start, Go, fileVars
  <2>2. started.op = o
    OBVIOUS
  <2>3. /\ copied \in Specs /\ started \in Jobs
        /\ o \in {"add", "resume"} => copied.status = "active"
        /\ o = "pause" => copied.status = "paused"
        /\ o = "toggle" => copied.status \in {"active", "paused"}
        /\ o = "exec" => e \in Cmds
        /\ first = IF o = "add" THEN "empty" ELSE IF o = "exec" THEN "run" ELSE "readCrontab"
    BY <1>4, BeginsParts
  <2> HIDE DEF started
  <2>4. DeskTypeOK'
    BY <1>0, <1>1, <2>1, <2>3 DEF DeskTypeOK, Working
  <2>5. ASSUME NEW d \in Editors
        PROVE  /\ at'[d] = IF d = e THEN first ELSE at[d]
               /\ job'[d] = IF d = e THEN started ELSE job[d]
               /\ copy'[d] = IF d = e THEN copied ELSE copy[d]
    BY <1>1, <2>1
  <2>6. JobsAgree'
    BY <2>2, <2>3, <2>5 DEF JobsAgree, Working, Op
  <2> QED
    BY <2>4, <2>6
<1>5. ASSUME NEW c \in Cmds, NEW retires \in BOOLEAN, Return(c, retires)
      PROVE  DeskTypeOK' /\ JobsAgree'
  <2> DEFINE n == Name(c)
  <2>1. /\ at[c] = "run" /\ Op(c) = "exec" /\ n \in Names /\ job[c] \in Jobs
        /\ log' = [log EXCEPT ![n] = @ + 1]
        /\ UNCHANGED <<spec, stamp, crontab, job, text>>
        /\ \/ /\ Readable(n)
              /\ \E s \in Specs, stage \in {"readCrontab", "empty"} :
                    /\ copy' = [copy EXCEPT ![c] = s] /\ Go(c, stage)
                    /\ s.runs = spec[n].runs + 1
                    /\ s.status = IF stage = "readCrontab" THEN "retired"
                                  ELSE spec[n].status
                    /\ overlap' = (overlap \/ \E d \in Editors \ {c} : Working(d))
           \/ Go(c, "over") /\ UNCHANGED <<copy, overlap>>
    BY <1>5, ReturnParts
  <2> HIDE DEF n
  <2>2. log' \in [Names -> Nat]
    BY <1>1, <2>1
  <2>3. PICK s \in Specs, stage \in {"readCrontab", "empty", "over"} :
           /\ copy' = [copy EXCEPT ![c] = s] /\ at' = [at EXCEPT ![c] = stage]
           /\ stage = "readCrontab" => s.status = "retired"
    <3>1. copy = [copy EXCEPT ![c] = copy[c]] /\ copy[c] \in Specs
      BY <1>1, <1>2
    <3> QED
      BY <2>1, <3>1 DEF Go
  <2>4. DeskTypeOK'
    BY <1>0, <1>1, <1>2, <2>1, <2>2, <2>3 DEF DeskTypeOK, Working, Stages
  <2>5. ASSUME NEW d \in Editors
        PROVE  /\ at'[d] = IF d = c THEN stage ELSE at[d]
               /\ job'[d] = job[d]
               /\ copy'[d] = IF d = c THEN s ELSE copy[d]
    BY <1>1, <2>1, <2>3
  <2>6. JobsAgree'
    BY <2>1, <2>3, <2>5 DEF JobsAgree, Working, Op
  <2> QED
    BY <2>4, <2>6
<1>6. ASSUME NEW e \in Editors, EditStep(e)
      PROVE  DeskTypeOK' /\ JobsAgree'
  <2>1. /\ Working(e) /\ job[e] \in Jobs /\ Op(e) \in Ops /\ Name(e) \in Names
        /\ UNCHANGED <<job, copy>> /\ at' \in [Editors -> Stages]
        /\ \A d \in Editors : Working(d)' => Working(d)
    BY <1>6, EditFrame
  <2>2. /\ \A d \in Editors \ {e} : at'[d] = at[d] \/ (at[d] = "write" /\ at'[d] = "writeUnlinked")
        /\ at'[e] \notin {"idle", "list", "run"}
        /\ at'[e] = "unlink" => Op(e) = "rm"
        /\ at'[e] \in {"readCrontab", "writeCrontab"} =>
             at[e] \in {"readCrontab", "writeCrontab"} \/ Op(e) = "add"
    BY <1>6, EditFrame
  <2>3. PICK n \in Names : n = Name(e)
    BY <2>1
  <2>5. spec' \in [Names -> Specs \cup {NoSpec, Torn}]
    <3>1. \/ spec' = spec
          \/ \E x \in {copy[e], NoSpec, Torn} : spec' = [spec EXCEPT ![n] = x]
      BY <1>6, <2>3, EditFrame
    <3>2. copy[e] \in Specs
      BY <1>1
    <3> QED
      BY <1>1, <3>1, <3>2
  <2>6. stamp' \in [Names -> Nat] /\ log' \in [Names -> Nat]
    <3>1. /\ stamp' = stamp \/ stamp' = [stamp EXCEPT ![n] = @ + 1]
          /\ log' = log \/ log' = [log EXCEPT ![n] = @ + 1]
      BY <1>6, <2>3 DEF EditStep, ReadCrontab, WriteCrontab, CrontabFails, EmptySpec,
                WriteSpec, UnlinkSpec, NoteRemoval, fileVars
    <3> QED
      BY <1>1, <3>1
  <2>7. crontab' \in Texts /\ text' \in [Editors -> Texts]
    <3>1. Edited(e) \in Texts
      <4>1. Sound(text[e])
        BY DEF TextsSound
      <4> QED
        BY <2>1, <4>1, EditedParts DEF Sound
    <3>2. Closed(<<>>) \in Texts
      BY ClosedSound DEF Sound
    <3>3. /\ crontab' = crontab \/ crontab' = Edited(e)
          /\ \/ text' = text \/ text' = [text EXCEPT ![e] = crontab]
             \/ text' = [text EXCEPT ![e] = Closed(<<>>)]
      BY <1>6 DEF EditStep, ReadCrontab, WriteCrontab, CrontabFails, EmptySpec,
                WriteSpec, UnlinkSpec, NoteRemoval, fileVars
    <3> QED
      BY <1>1, <3>1, <3>2, <3>3
  <2>10. DeskTypeOK'
    <3>1. \A d \in Editors : Working(d)' => job'[d] \in Jobs
      BY <2>1 DEF DeskTypeOK
    <3> QED
      BY <1>0, <1>1, <2>1, <2>5, <2>6, <2>7, <3>1 DEF DeskTypeOK
  <2>11. ASSUME NEW d \in Editors
         PROVE  /\ at'[d] \notin {"idle", "list"} => job'[d] \in Jobs
                /\ at'[d] = "run" => d \in Cmds /\ Op(d)' = "exec"
                /\ at'[d] = "unlink" => Op(d)' = "rm"
                /\ Working(d)' =>
                     /\ Op(d)' \in {"add", "resume"} => copy'[d].status = "active"
                     /\ Op(d)' = "pause" => copy'[d].status = "paused"
                     /\ Op(d)' = "toggle" => copy'[d].status \in {"active", "paused"}
                     /\ Op(d)' = "exec" /\ at'[d] \in {"readCrontab", "writeCrontab"} =>
                           copy'[d].status = "retired"
    <3>1. Op(d)' = Op(d) /\ copy'[d] = copy[d] /\ job'[d] = job[d]
      BY <2>1 DEF Op
    <3>2. CASE d = e
      BY <2>1, <2>2, <3>1, <3>2 DEF JobsAgree
    <3>3. CASE d # e
      BY <2>1, <2>2, <3>1, <3>3 DEF JobsAgree
    <3> QED
      BY <3>2, <3>3
  <2>12. JobsAgree'
    BY <2>11 DEF JobsAgree
  <2> QED
    BY <2>10, <2>12
<1>7. ASSUME NEW stage \in {"idle", "list", "failed"}, Quiet(stage)
      PROVE  DeskTypeOK' /\ JobsAgree'
  <2>1. at' = [at EXCEPT ![Tui] = stage] /\ UNCHANGED <<spec, stamp, log, crontab>>
    BY <1>7 DEF Quiet, Go, fileVars
  <2>2. PICK j \in Jobs \cup {NoJob}, s \in Specs, x \in Texts :
           /\ job' = [job EXCEPT ![Tui] = j] /\ copy' = [copy EXCEPT ![Tui] = s]
           /\ text' = [text EXCEPT ![Tui] = x]
           /\ stage = "failed" => j \in Jobs
    <3>1. text[Tui] \in Texts /\ Closed(<<>>) \in Texts
      BY <1>1, <1>2, ClosedSound DEF Sound
    <3>2. PICK j \in Jobs \cup {NoJob}, s \in Specs, x \in {text[Tui], Closed(<<>>)} :
             /\ job' = [job EXCEPT ![Tui] = j] /\ copy' = [copy EXCEPT ![Tui] = s]
             /\ text' = [text EXCEPT ![Tui] = x]
             /\ stage = "failed" => j \in Jobs
      BY <1>7, QuietFrame
    <3> QED
      BY <3>1, <3>2
  <2>3. ASSUME NEW d \in Editors
        PROVE  /\ at'[d] = IF d = Tui THEN stage ELSE at[d]
               /\ job'[d] = IF d = Tui THEN j ELSE job[d]
               /\ copy'[d] = IF d = Tui THEN s ELSE copy[d]
    BY <1>1, <2>1, <2>2
  <2>4. DeskTypeOK'
    <3>1. \A d \in Editors : Working(d)' => job'[d] \in Jobs
      BY <2>3 DEF DeskTypeOK, Working
    <3>2. at' \in [Editors -> Stages]
      BY <1>1, <2>1 DEF Stages
    <3> QED
      BY <1>0, <1>1, <2>1, <2>2, <3>1, <3>2 DEF DeskTypeOK
  <2>5. JobsAgree'
    BY <2>2, <2>3 DEF JobsAgree, Working, Op
  <2> QED
    BY <2>4, <2>5
<1>8. CASE UserEdits
  <2>1. /\ crontab' \in Texts
        /\ UNCHANGED <<spec, stamp, log, at, job, copy, text>>
    BY <1>8, UserEditsParts DEF Sound
  <2>2. DeskTypeOK'
    BY <1>0, <1>1, <2>1 DEF DeskTypeOK, Working
  <2>3. JobsAgree'
    BY <2>1 DEF JobsAgree, Working, Op
  <2> QED
    BY <2>2, <2>3
<1> QED
  BY <1>3, <1>4, <1>5, <1>6, <1>7, <1>8 DEF StepKind
-----------------------------------------------------------------------------
(* The crontab and its copies survive every step.                          *)
LEMMA TextsKept ==
    ASSUME DeskTypeOK, TextsSound, JobsAgree, RunsCounted, StepKind
    PROVE  TextsSound'
<1>1. /\ at \in [Editors -> Stages] /\ text \in [Editors -> Texts]
      /\ Sound(crontab)
      /\ \A e \in Editors : Sound(text[e])
      /\ ~lost =>
           /\ UsersOwn(crontab) = own
           /\ \A e \in Editors \ late : at[e] = "writeCrontab" => UsersOwn(text[e]) = own
  BY DEF DeskTypeOK, TextsSound
<1>2. Tui \in Editors /\ Cmds \subseteq Editors
  BY DEF Editors
<1>3. CASE UNCHANGED deskVars
  BY <1>1, <1>3 DEF deskVars, fileVars, editVars, pastVars, TextsSound
<1>4. ASSUME NEW e \in Editors, NEW o \in Ops, NEW n \in Names, NEW first \in Stages,
             NEW copied, Begins(e, o, n, copied, first)
      PROVE  TextsSound'
  <2>1. at' = [at EXCEPT ![e] = first] /\ UNCHANGED <<crontab, text, own, late, lost>>
        /\ first # "writeCrontab"
    <3>1. first \in {"empty", "readCrontab", "run"}
      BY <1>4, BeginsParts
    <3> QED
      BY <1>4, <3>1 DEF Begins, Start, Go, fileVars
  <2> QED
    BY <1>1, <2>1 DEF TextsSound
<1>5. ASSUME NEW c \in Cmds, NEW retires \in BOOLEAN, Return(c, retires)
      PROVE  TextsSound'
  <2>1. PICK stage \in {"readCrontab", "empty", "over"} : at' = [at EXCEPT ![c] = stage]
    BY <1>5, ReturnParts DEF Go
  <2>2. UNCHANGED <<crontab, text, own, late, lost>>
    BY <1>5, ReturnParts
  <2> QED
    BY <1>1, <1>2, <2>1, <2>2 DEF TextsSound
<1>6. ASSUME NEW e \in Editors, EditStep(e)
      PROVE  TextsSound'
  <2>1. /\ at' \in [Editors -> Stages] /\ Name(e) \in Names /\ Op(e) \in Ops
        /\ \A d \in Editors \ {e} : at'[d] = at[d] \/ at'[d] = "writeUnlinked"
    BY <1>6, EditFrame
  <2>2. CASE ReadCrontab(e)
    <3>1. /\ text' = [text EXCEPT ![e] = crontab] /\ late' = late \ {e}
          /\ UNCHANGED <<crontab, own, lost>>
      BY <2>2 DEF ReadCrontab, fileVars
    <3> QED
      BY <1>1, <2>1, <3>1 DEF TextsSound
  <2>3. CASE WriteCrontab(e)
    <3>1. at[e] = "writeCrontab" /\ crontab' = Edited(e)
          /\ text' = [text EXCEPT ![e] = Closed(<<>>)]
          /\ own' = own /\ late' = late \ {e} /\ lost' = (lost \/ e \in late)
      BY <2>3 DEF WriteCrontab
    <3>2. Sound(crontab') /\ UsersOwn(crontab') = UsersOwn(text[e])
      BY <1>1, <2>1, <3>1, EditedParts
    <3>3. ~lost' => ~lost /\ e \notin late /\ UsersOwn(crontab') = own'
      BY <1>1, <3>1, <3>2
    <3>4. at'[e] # "writeCrontab"
      <4>1. at'[e] = AfterCrontab(e)
        BY <1>1, <2>3 DEF WriteCrontab, Go
      <4> QED
        BY <2>1, <4>1 DEF AfterCrontab, Ops
    <3>5. ASSUME NEW d \in Editors
          PROVE  /\ Sound(text'[d])
                 /\ ~lost' /\ d \notin late' /\ at'[d] = "writeCrontab" => UsersOwn(text'[d]) = own'
      <4>1. CASE d = e
        BY <1>1, <3>1, <3>4, <4>1, ClosedSound
      <4>2. CASE d # e
        <5>1. text'[d] = text[d] /\ (at'[d] = at[d] \/ at'[d] = "writeUnlinked")
          BY <1>1, <2>1, <3>1, <4>2
        <5>2. d \notin late' => d \notin late
          BY <3>1, <4>2
        <5> QED
          BY <1>1, <3>1, <3>3, <5>1, <5>2
      <4> QED
        BY <4>1, <4>2
    <3> QED
      BY <3>2, <3>3, <3>5 DEF TextsSound
  <2>4. CASE CrontabFails(e) \/ EmptySpec(e) \/ WriteSpec(e) \/ UnlinkSpec(e) \/ NoteRemoval(e)
    <3>1. UNCHANGED <<crontab, text, own, lost>> /\ late' \in {late, late \ {e}}
      BY <2>4 DEF CrontabFails, EmptySpec, WriteSpec, UnlinkSpec, NoteRemoval, fileVars, pastVars
    <3>2. at'[e] # "writeCrontab"
      <4>1. CASE CrontabFails(e)
        BY <1>1, <2>1, <4>1 DEF CrontabFails, Go, AfterFailure, Ops
      <4>2. CASE EmptySpec(e)
        BY <1>1, <4>2 DEF EmptySpec, Go
      <4>3. CASE WriteSpec(e)
        BY <1>1, <4>3 DEF WriteSpec, Go
      <4>4. CASE UnlinkSpec(e)
        BY <1>1, <4>4 DEF UnlinkSpec
      <4>5. CASE NoteRemoval(e)
        BY <1>1, <4>5 DEF NoteRemoval, Go
      <4> QED
        BY <2>4, <4>1, <4>2, <4>3, <4>4, <4>5
    <3> QED
      <4>1. ASSUME NEW d \in Editors, at'[d] = "writeCrontab", d \notin late'
            PROVE  at[d] = "writeCrontab" /\ d \notin late
        <5>1. d # e
          BY <3>2, <4>1
        <5> QED
          BY <2>1, <3>1, <4>1, <5>1
      <4> QED
        BY <1>1, <3>1, <4>1 DEF TextsSound
  <2> QED
    BY <1>6, <2>2, <2>3, <2>4 DEF EditStep
<1>7. ASSUME NEW stage \in {"idle", "list", "failed"}, Quiet(stage)
      PROVE  TextsSound'
  <2>1. at' = [at EXCEPT ![Tui] = stage] /\ UNCHANGED <<crontab, own, late, lost>>
    BY <1>7, QuietFrame
  <2>2. PICK x \in {text[Tui], Closed(<<>>)} : text' = [text EXCEPT ![Tui] = x]
    BY <1>7, QuietFrame
  <2>3. Sound(x)
    BY <1>1, <1>2, ClosedSound
  <2> QED
    BY <1>1, <2>1, <2>2, <2>3 DEF TextsSound
<1>8. CASE UserEdits
  <2>1. /\ Sound(crontab') /\ own' = UsersOwn(crontab')
        /\ late' = {e \in Editors : at[e] = "writeCrontab"}
        /\ UNCHANGED <<at, text>>
    BY <1>8, UserEditsParts
  <2> QED
    BY <1>1, <2>1 DEF TextsSound
<1> QED
  BY <1>3, <1>4, <1>5, <1>6, <1>7, <1>8 DEF StepKind

(* No step counts a run that has not returned.                             *)
LEMMA RunsStep ==
    ASSUME DeskTypeOK, TextsSound, JobsAgree, RunsCounted, StepKind
    PROVE  RunsCounted'
<1>1. /\ spec \in [Names -> Specs \cup {NoSpec, Torn}] /\ at \in [Editors -> Stages]
      /\ job \in [Editors -> Jobs \cup {NoJob}] /\ copy \in [Editors -> Specs]
  BY DEF DeskTypeOK
<1>2. Tui \in Editors /\ Cmds \subseteq Editors /\ Tui \notin Cmds
  BY DeskAssumption DEF Editors
<1>3. /\ \A n \in Names : Readable(n) => spec[n].runs <= Cardinality(Counted(n))
      /\ \A e \in Editors : Working(e) => copy[e].runs <= Cardinality(Counted(Name(e)))
  BY DEF RunsCounted
<1>4. CASE UNCHANGED deskVars
  BY <1>3, <1>4 DEF deskVars, fileVars, editVars, RunsCounted, Counted, Readable, Working, Name
<1>5. ASSUME NEW e \in Editors, NEW o \in Ops, NEW n \in Names, NEW first \in Stages,
             NEW copied, Begins(e, o, n, copied, first)
      PROVE  RunsCounted'
  <2> DEFINE started == [op |-> o, name |-> n]
  <2>1. /\ job' = [job EXCEPT ![e] = started] /\ copy' = [copy EXCEPT ![e] = copied]
        /\ at' = [at EXCEPT ![e] = first] /\ at[e] = "idle"
        /\ UNCHANGED spec
    BY <1>5 DEF Begins, Start, Go, fileVars
  <2>2. started.op = o /\ started.name = n
        /\ \A m : started = [op |-> "exec", name |-> m] => o = "exec"
    OBVIOUS
  <2>3. /\ started \in Jobs
        /\ IF o = "add" THEN copied = NewSpec
           ELSE Readable(n) /\ copied.runs = spec[n].runs
        /\ o = "exec" => first = "run"
    BY <1>5, BeginsParts
  <2> HIDE DEF started
  <2>4. ASSUME NEW d \in Editors
        PROVE  /\ at'[d] = IF d = e THEN first ELSE at[d]
               /\ job'[d] = IF d = e THEN started ELSE job[d]
               /\ copy'[d] = IF d = e THEN copied ELSE copy[d]
    BY <1>1, <2>1
  <2>5. \A m : Counted(m)' = Counted(m)
    BY <1>2, <2>1, <2>2, <2>3, <2>4 DEF Counted
  <2>6. \A m \in Names : Readable(m)' => spec'[m].runs <= Cardinality(Counted(m)')
    BY <1>3, <2>1, <2>5 DEF Readable
  <2>7. ASSUME NEW d \in Editors, Working(d)'
        PROVE  copy'[d].runs <= Cardinality(Counted(Name(d))')
    <3>1. CASE d = e
      <4>1. Name(d)' = n /\ copy'[d] = copied
        BY <2>2, <2>4, <3>1 DEF Name
      <4>2. copied.runs <= Cardinality(Counted(n))
        BY <1>3, <2>3, CmdsCounted, CountedBound
      <4> QED
        BY <2>5, <4>1, <4>2
    <3>2. CASE d # e
      <4>1. Name(d)' = Name(d) /\ copy'[d] = copy[d] /\ Working(d)
        BY <2>4, <2>7, <3>2 DEF Name, Working
      <4> QED
        BY <1>3, <2>5, <4>1
    <3> QED
      BY <3>1, <3>2
  <2> QED
    BY <2>6, <2>7 DEF RunsCounted
<1>6. ASSUME NEW c \in Cmds, NEW retires \in BOOLEAN, Return(c, retires)
      PROVE  RunsCounted'
  <2>0. PICK n \in Names : n = Name(c)
    BY <1>6, ReturnParts
  <2>1. /\ at[c] = "run" /\ n \in Names /\ job[c] = [op |-> "exec", name |-> n]
        /\ UNCHANGED <<spec, job>>
    BY <1>6, <2>0, ReturnParts
  <2>2. PICK stage \in {"readCrontab", "empty", "over"} : at' = [at EXCEPT ![c] = stage]
    BY <1>6, ReturnParts DEF Go
  <2>3. \/ stage = "over" /\ UNCHANGED copy
        \/ /\ Readable(n)
           /\ \E s \in Specs : copy' = [copy EXCEPT ![c] = s] /\ s.runs = spec[n].runs + 1
    <3>1. CASE Go(c, "over") /\ UNCHANGED copy
      BY <1>1, <1>2, <2>2, <3>1 DEF Go
    <3>2. CASE /\ Readable(Name(c))
               /\ \E s \in Specs : /\ copy' = [copy EXCEPT ![c] = s]
                                   /\ s.runs = spec[Name(c)].runs + 1
      BY <2>0, <3>2
    <3> QED
      BY <1>6, <3>1, <3>2, ReturnParts
  <2>4. \A d \in Editors : at'[d] = IF d = c THEN stage ELSE at[d]
    BY <1>1, <2>2
  <2>5. Counted(n)' = Counted(n) \cup {c} /\ c \notin Counted(n)
    <3>1. at'[c] \notin {"idle", "run"} /\ job'[c] = [op |-> "exec", name |-> n] /\ at[c] = "run"
      BY <1>2, <2>1, <2>4
    <3>2. \A d \in Cmds \ {c} : at'[d] = at[d] /\ job'[d] = job[d]
      BY <1>2, <2>1, <2>4
    <3>3. \A d \in Cmds \ {c} : d \in Counted(n)' <=> d \in Counted(n)
      BY <3>2 DEF Counted
    <3>4. c \in Counted(n)' /\ c \notin Counted(n)
      BY <3>1 DEF Counted
    <3>5. Counted(n) \subseteq Cmds /\ Counted(n)' \subseteq Cmds
      BY DEF Counted
    <3> QED
      BY <3>3, <3>4, <3>5
  <2>6. Cardinality(Counted(n)') = Cardinality(Counted(n)) + 1
    BY <2>5, CountedBound, FS_AddElement
  <2>7. \A m : m # n => Counted(m)' = Counted(m)
    <3>1. \A m : m # n => job[c] # [op |-> "exec", name |-> m]
      BY <2>1
    <3> QED
      BY <1>2, <2>1, <2>4, <3>1 DEF Counted
  <2>8. ASSUME NEW m
        PROVE  /\ Cardinality(Counted(m)) \in Nat /\ Cardinality(Counted(m)') \in Nat
               /\ Cardinality(Counted(m)) <= Cardinality(Counted(m)')
    <3>1. Cardinality(Counted(m)) \in Nat
      BY CountedBound
    <3>2. CASE m = n
      BY <2>6, <3>1, <3>2
    <3>3. CASE m # n
      BY <2>7, <3>1, <3>3
    <3> QED
      BY <3>2, <3>3
  <2>9. ASSUME NEW m \in Names, Readable(m)'
        PROVE  spec'[m].runs <= Cardinality(Counted(m)')
    <3>1. Readable(m) /\ spec'[m] = spec[m] /\ spec[m].runs \in Nat
      BY <2>1, <2>9, CmdsCounted DEF Readable, Specs
    <3> QED
      BY <1>3, <2>8, <3>1
  <2>10. ASSUME NEW d \in Editors, Working(d)'
         PROVE  copy'[d].runs <= Cardinality(Counted(Name(d))')
    <3>1. Name(d)' = Name(d)
      BY <2>1 DEF Name
    <3>2. CASE d = c
      <4>1. Readable(n) /\ copy'[c].runs = spec[n].runs + 1
        BY <1>1, <1>2, <2>3, <2>4, <2>10, <3>2 DEF Working
      <4>2. spec[n].runs \in Nat /\ spec[n].runs <= Cardinality(Counted(n))
        BY <1>3, <2>1, <4>1, CmdsCounted DEF Readable, Specs
      <4>3. copy'[c].runs <= Cardinality(Counted(n)')
        BY <2>6, <2>8, <4>1, <4>2
      <4> QED
        BY <2>0, <3>1, <3>2, <4>3
    <3>3. CASE d # c
      <4>1. copy'[d] = copy[d] /\ Working(d) /\ copy[d].runs \in Nat
        BY <1>1, <2>3, <2>4, <2>10, <3>3, CmdsCounted DEF Working, Specs
      <4>2. copy[d].runs <= Cardinality(Counted(Name(d)))
        BY <1>3, <4>1
      <4> QED
        BY <2>8, <3>1, <4>1, <4>2
    <3> QED
      BY <3>2, <3>3
  <2> QED
    BY <2>9, <2>10 DEF RunsCounted
<1>7. ASSUME NEW e \in Editors, EditStep(e)
      PROVE  RunsCounted'
  <2>1. /\ Working(e) /\ Name(e) \in Names /\ UNCHANGED <<job, copy>>
        /\ \A d \in Editors \ {e} : at'[d] = at[d] \/ (at[d] = "write" /\ at'[d] = "writeUnlinked")
        /\ at'[e] \notin {"idle", "run"}
        /\ \A d \in Editors : Working(d)' => Working(d)
    BY <1>7, EditFrame
  <2>2. PICK x \in {copy[e], NoSpec, Torn} : spec' = spec \/ spec' = [spec EXCEPT ![Name(e)] = x]
    BY <1>7, EditFrame
  <2>3. \A d \in Editors : at[d] \in {"idle", "run"} <=> at'[d] \in {"idle", "run"}
    BY <2>1 DEF Working
  <2>4. \A m : Counted(m)' = Counted(m)
    BY <1>2, <2>1, <2>3 DEF Counted
  <2>5. ASSUME NEW m \in Names, Readable(m)'
        PROVE  spec'[m].runs <= Cardinality(Counted(m)')
    <3>1. CASE spec'[m] = spec[m]
      BY <1>3, <2>4, <2>5, <3>1 DEF Readable
    <3>2. CASE spec'[m] # spec[m]
      <4>1. m = Name(e) /\ spec'[m] = x
        BY <1>1, <2>1, <2>2, <3>2
      <4>2. x = copy[e]
        BY <2>5, <4>1, CmdsCounted DEF Readable
      <4> QED
        BY <1>3, <2>1, <2>4, <4>1, <4>2
    <3> QED
      BY <3>1, <3>2
  <2>6. ASSUME NEW d \in Editors, Working(d)'
        PROVE  copy'[d].runs <= Cardinality(Counted(Name(d))')
    <3>1. Name(d)' = Name(d) /\ copy'[d] = copy[d] /\ Working(d)
      BY <2>1, <2>6 DEF Name
    <3> QED
      BY <1>3, <2>4, <3>1
  <2> QED
    BY <2>5, <2>6 DEF RunsCounted
<1>8. ASSUME NEW stage \in {"idle", "list", "failed"}, Quiet(stage)
      PROVE  RunsCounted'
  <2>1. at' = [at EXCEPT ![Tui] = stage] /\ UNCHANGED spec
    BY <1>8, QuietFrame
  <2>2. PICK j, s : job' = [job EXCEPT ![Tui] = j] /\ copy' = [copy EXCEPT ![Tui] = s]
    BY <1>8, QuietFrame
  <2>3. \A d \in Editors \ {Tui} : at'[d] = at[d] /\ job'[d] = job[d] /\ copy'[d] = copy[d]
    BY <1>1, <2>1, <2>2
  <2>4. ~Working(Tui)'
    BY <1>1, <1>2, <2>1 DEF Working
  <2>5. \A m : Counted(m)' = Counted(m)
    BY <1>2, <2>3 DEF Counted
  <2>6. \A m \in Names : Readable(m)' => spec'[m].runs <= Cardinality(Counted(m)')
    BY <1>3, <2>1, <2>5 DEF Readable
  <2>7. ASSUME NEW d \in Editors, Working(d)'
        PROVE  copy'[d].runs <= Cardinality(Counted(Name(d))')
    <3>1. d # Tui
      BY <2>4, <2>7
    <3>2. Name(d)' = Name(d) /\ copy'[d] = copy[d] /\ Working(d)
      BY <2>3, <2>7, <3>1 DEF Name, Working
    <3> QED
      BY <1>3, <2>5, <3>2
  <2> QED
    BY <2>6, <2>7 DEF RunsCounted
<1>9. CASE UserEdits
  <2>1. UNCHANGED <<spec, at, job, copy>>
    BY <1>9, UserEditsParts
  <2> QED
    BY <1>3, <2>1 DEF RunsCounted, Counted, Readable, Working, Name
<1> QED
  BY <1>4, <1>5, <1>6, <1>7, <1>8, <1>9 DEF StepKind
-----------------------------------------------------------------------------
(* The agreement of specs and lines survives every step that nobody        *)
(* interferes with.                                                        *)

(* One step of an editor, for the schedule it works on.                    *)
LEMMA WorkerStep ==
    ASSUME DeskTypeOK, TextsSound, JobsAgree, NEW e \in Editors, EditStep(e), GotSoFar(e),
           NEW n \in Names, n = Name(e)
    PROVE  /\ Working(e)' => GotSoFar(e)'
           /\ ~Working(e)' => Matched(n)'
           /\ \A m \in Names \ {n} : /\ Count(m)' = Count(m) /\ spec'[m] = spec[m]
                                     /\ m \in stranded' <=> m \in stranded
<1>1. /\ spec \in [Names -> Specs \cup {NoSpec, Torn}] /\ at \in [Editors -> Stages]
      /\ text \in [Editors -> Texts] /\ copy[e] \in Specs
  BY DEF DeskTypeOK
<1>2. /\ Working(e) /\ Op(e) \in Ops
      /\ Op(e)' = Op(e) /\ Name(e)' = n /\ copy'[e] = copy[e]
      /\ Name(e) = n
  BY EditFrame DEF Op, Name
<1>3. /\ Op(e) \in {"add", "resume"} => copy[e].status = "active"
      /\ Op(e) = "pause" => copy[e].status = "paused"
      /\ Op(e) = "toggle" => copy[e].status \in {"active", "paused"}
      /\ Op(e) = "exec" /\ at[e] \in {"readCrontab", "writeCrontab"} => copy[e].status = "retired"
      /\ at[e] = "unlink" => Op(e) = "rm"
  BY <1>2 DEF JobsAgree
<1>4. /\ at[e] \in {"readCrontab", "writeCrontab"} =>
           IF Op(e) = "add" THEN spec[n] = copy[e] /\ Unlisted(n) ELSE Matched(n)
      /\ at[e] = "writeCrontab" => \A m \in Names : LinesOf(text[e], m) = Count(m)
      /\ at[e] \in {"empty", "write"} =>
           IF Op(e) = "add" THEN Unlisted(n) ELSE Suits(n, copy[e].status)
      /\ at[e] = "write" => spec[n] = Torn
      /\ at[e] = "withdraw" => Unlisted(n)
      /\ at[e] = "unlink" => Count(n) = 0
      /\ at[e] = "note" => Matched(n)
      /\ at[e] # "writeUnlinked"
  BY DEF GotSoFar
<1>5. GotSoFar(e)' <=>
        /\ at'[e] \in {"readCrontab", "writeCrontab"} =>
             IF Op(e) = "add" THEN spec'[n] = copy[e] /\ Unlisted(n)' ELSE Matched(n)'
        /\ at'[e] = "writeCrontab" => \A m \in Names : LinesOf(text'[e], m) = Count(m)'
        /\ at'[e] \in {"empty", "write"} =>
             IF Op(e) = "add" THEN Unlisted(n)' ELSE Suits(n, copy[e].status)'
        /\ at'[e] = "write" => spec'[n] = Torn
        /\ at'[e] = "withdraw" => Unlisted(n)'
        /\ at'[e] = "unlink" => Count(n)' = 0
        /\ at'[e] = "note" => Matched(n)'
        /\ at'[e] # "writeUnlinked"
  BY <1>2 DEF GotSoFar, Suits, Unlisted, Count
<1>6. CASE ReadCrontab(e)
  <2>1. /\ at[e] = "readCrontab" /\ at'[e] = "writeCrontab" /\ text'[e] = crontab
        /\ UNCHANGED <<spec, crontab, stranded>>
    BY <1>1, <1>6 DEF ReadCrontab, Go, fileVars
  <2>2. /\ Unlisted(n)' = Unlisted(n) /\ Matched(n)' = Matched(n)
        /\ \A m \in Names : Count(m)' = Count(m)
    BY <2>1 DEF Unlisted, Matched, Count, Readable
  <2>3. GotSoFar(e)'
    <3>1. \A m \in Names : LinesOf(text'[e], m) = Count(m)'
      BY <2>1 DEF Count
    <3> QED
      BY <1>4, <1>5, <2>1, <2>2, <3>1
  <2>4. Working(e)'
    BY <2>1 DEF Working
  <2> QED
    BY <2>1, <2>2, <2>3, <2>4
<1>7. CASE WriteCrontab(e)
  <2>1. /\ at[e] = "writeCrontab" /\ at'[e] = AfterCrontab(e) /\ crontab' = Edited(e)
        /\ UNCHANGED <<spec, stranded>>
    BY <1>1, <1>7 DEF WriteCrontab, Go
  <2>2. Sound(text[e])
    BY DEF TextsSound
  <2>3. \A m \in Names : LinesOf(Edited(e), m) =
            IF m # n THEN LinesOf(crontab, m) ELSE IF Removes(e) THEN 0 ELSE 1
    BY <1>2, <1>4, <2>1, <2>2, EditedParts DEF Count
  <2>4. \A m \in Names : Count(m)' = IF m # n THEN Count(m) ELSE IF Removes(e) THEN 0 ELSE 1
    BY <2>1, <2>3 DEF Count
  <2>5. CASE Op(e) = "add"
    <3>1. at'[e] = "over" /\ ~Removes(e)
      BY <2>1, <2>5 DEF AfterCrontab, Removes
    <3>2. spec'[n] = copy[e] /\ copy[e].status = "active" /\ copy[e] \in Specs
      BY <1>1, <1>3, <1>4, <2>1, <2>5
    <3>3. Matched(n)'
      BY <2>4, <3>1, <3>2 DEF Matched, Readable
    <3>4. ~Working(e)'
      BY <3>1 DEF Working
    <3> QED
      BY <2>1, <2>4, <3>3, <3>4
  <2>6. CASE Op(e) = "rm"
    <3>1. at'[e] = "unlink" /\ Removes(e)
      BY <2>1, <2>6 DEF AfterCrontab, Removes
    <3>2. Working(e)' /\ GotSoFar(e)'
      BY <1>5, <2>4, <3>1 DEF Working
    <3> QED
      BY <2>1, <2>4, <3>2
  <2>7. CASE Op(e) \notin {"add", "rm"}
    <3>1. at'[e] = "empty"
      BY <2>1, <2>7 DEF AfterCrontab
    <3>2. Removes(e) <=> copy[e].status # "active"
      BY <1>2, <1>3, <2>1, <2>7 DEF Removes, Ops
    <3>3. Suits(n, copy[e].status)'
      <4>1. Suits(n, copy[e].status)' <=>
              IF copy[e].status = "active" THEN Count(n)' = 1 ELSE Count(n)' = 0 \/ n \in stranded'
        BY <1>2 DEF Suits, Unlisted, Count
      <4> QED
        BY <2>4, <3>2, <4>1
    <3>4. Working(e)' /\ GotSoFar(e)'
      BY <1>5, <2>7, <3>1, <3>3 DEF Working
    <3> QED
      BY <2>1, <2>4, <3>4
  <2> QED
    BY <2>5, <2>6, <2>7
<1>8. CASE CrontabFails(e)
  <2>1. /\ at[e] \in {"readCrontab", "writeCrontab"} /\ at'[e] = AfterFailure(e)
        /\ UNCHANGED <<spec, crontab>>
        /\ stranded' = IF Op(e) = "exec" THEN stranded \cup {n} ELSE stranded
    BY <1>1, <1>2, <1>8 DEF CrontabFails, Go, fileVars
  <2>2. /\ \A m \in Names : Count(m)' = Count(m)
        /\ \A m \in Names \ {n} : m \in stranded' <=> m \in stranded
    BY <2>1 DEF Count
  <2>3. CASE Op(e) = "exec"
    <3>1. at'[e] = "empty" /\ n \in stranded' /\ copy[e].status = "retired"
      BY <1>3, <2>1, <2>3 DEF AfterFailure
    <3>2. Suits(n, copy[e].status)'
      BY <1>2, <3>1 DEF Suits, Unlisted
    <3>3. Working(e)' /\ GotSoFar(e)'
      BY <1>5, <2>3, <3>1, <3>2 DEF Working
    <3> QED
      BY <2>1, <2>2, <3>3
  <2>4. CASE Op(e) = "add"
    <3>1. at'[e] = "withdraw"
      BY <2>1, <2>4 DEF AfterFailure
    <3>2. Unlisted(n)'
      BY <1>4, <2>1, <2>2, <2>4 DEF Unlisted
    <3>3. Working(e)' /\ GotSoFar(e)'
      BY <1>5, <3>1, <3>2 DEF Working
    <3> QED
      BY <2>1, <2>2, <3>3
  <2>5. CASE Op(e) \notin {"add", "exec"}
    <3>1. at'[e] = "failed" /\ stranded' = stranded
      BY <2>1, <2>5 DEF AfterFailure
    <3>2. Matched(n)'
      BY <1>4, <2>1, <2>2, <2>5, <3>1 DEF Matched, Unlisted, Readable
    <3>3. ~Working(e)'
      BY <3>1 DEF Working
    <3> QED
      BY <2>1, <2>2, <3>2, <3>3
  <2> QED
    BY <2>3, <2>4, <2>5
<1>9. CASE EmptySpec(e)
  <2>1. /\ at[e] = "empty" /\ at'[e] = "write" /\ spec' = [spec EXCEPT ![n] = Torn]
        /\ UNCHANGED <<crontab, stranded>>
    BY <1>1, <1>2, <1>9 DEF EmptySpec, Go, pastVars
  <2>2. /\ Unlisted(n)' = Unlisted(n) /\ Suits(n, copy[e].status)' = Suits(n, copy[e].status)
        /\ \A m \in Names : Count(m)' = Count(m)
    BY <1>2, <2>1 DEF Unlisted, Suits, Count
  <2>3. spec'[n] = Torn /\ \A m \in Names \ {n} : spec'[m] = spec[m]
    BY <1>1, <2>1
  <2>4. Working(e)' /\ GotSoFar(e)'
    BY <1>4, <1>5, <2>1, <2>2, <2>3 DEF Working
  <2> QED
    BY <2>1, <2>2, <2>3, <2>4
<1>10. CASE WriteSpec(e)
  <2>1. /\ at[e] = "write" /\ UNCHANGED <<crontab, stranded>>
        /\ at'[e] = IF Op(e) = "add" THEN "readCrontab" ELSE "over"
    BY <1>1, <1>4, <1>10 DEF WriteSpec, Go, pastVars
  <2>2. spec' = [spec EXCEPT ![n] = copy[e]]
    <3>1. spec[n] \notin Specs
      BY <1>4, <2>1, CmdsCounted
    <3> QED
      BY <1>2, <1>10, <2>1, <3>1 DEF WriteSpec
  <2>3. spec'[n] = copy[e] /\ \A m \in Names \ {n} : spec'[m] = spec[m]
    BY <1>1, <2>2
  <2>4. \A m \in Names : Count(m)' = Count(m)
    BY <2>1 DEF Count
  <2>5. CASE Op(e) = "add"
    <3>1. Unlisted(n)'
      BY <1>4, <2>1, <2>4, <2>5 DEF Unlisted
    <3>2. Working(e)' /\ GotSoFar(e)'
      BY <1>5, <2>1, <2>3, <2>5, <3>1 DEF Working
    <3> QED
      BY <2>1, <2>3, <2>4, <3>2
  <2>6. CASE Op(e) # "add"
    <3>1. Matched(n)'
      BY <1>1, <1>4, <2>1, <2>3, <2>4, <2>6 DEF Matched, Suits, Unlisted, Readable
    <3>2. ~Working(e)'
      BY <2>1, <2>6 DEF Working
    <3> QED
      BY <2>1, <2>3, <2>4, <3>1, <3>2
  <2> QED
    BY <2>5, <2>6
<1>11. CASE UnlinkSpec(e)
  <2>1. /\ at[e] \in {"unlink", "withdraw"} /\ UNCHANGED <<crontab, stranded>>
        /\ spec' = [spec EXCEPT ![n] = NoSpec]
        /\ at'[e] = IF at[e] = "unlink" THEN "note" ELSE "failed"
    BY <1>2, <1>11 DEF UnlinkSpec, pastVars
  <2>2. spec'[n] = NoSpec /\ \A m \in Names \ {n} : spec'[m] = spec[m]
    BY <1>1, <2>1
  <2>3. \A m \in Names : Count(m)' = Count(m)
    BY <2>1 DEF Count
  <2>4. Matched(n)'
    BY <1>4, <2>1, <2>2, <2>3, CmdsCounted DEF Matched, Unlisted, Readable
  <2>5. Working(e)' => GotSoFar(e)'
    BY <1>5, <2>1, <2>4 DEF Working
  <2> QED
    BY <2>1, <2>2, <2>3, <2>4, <2>5
<1>12. CASE NoteRemoval(e)
  <2>1. /\ at[e] = "note" /\ at'[e] = "over" /\ UNCHANGED <<spec, crontab, stranded>>
    BY <1>1, <1>12 DEF NoteRemoval, Go, pastVars
  <2>2. Matched(n)' = Matched(n) /\ \A m \in Names : Count(m)' = Count(m)
    BY <2>1 DEF Unlisted, Matched, Count, Readable
  <2>3. ~Working(e)'
    BY <2>1 DEF Working
  <2> QED
    BY <1>4, <2>1, <2>2, <2>3
<1> QED
  BY <1>6, <1>7, <1>8, <1>9, <1>10, <1>11, <1>12 DEF EditStep

LEMMA OneAtWorkStep ==
    ASSUME DeskTypeOK, TextsSound, JobsAgree, RunsCounted, OneAtWork, StepKind
    PROVE  OneAtWork'
<1> SUFFICES ASSUME ~overlap'
             PROVE  /\ \A d, e \in Editors : Working(d)' /\ Working(e)' => d = e
                    /\ \A n \in Names :
                          (\A e \in Editors : Working(e)' => Name(e)' # n) => Matched(n)'
                    /\ \A e \in Editors : Working(e)' => GotSoFar(e)'
  BY DEF OneAtWork
<1>1. /\ spec \in [Names -> Specs \cup {NoSpec, Torn}] /\ at \in [Editors -> Stages]
      /\ job \in [Editors -> Jobs \cup {NoJob}] /\ copy \in [Editors -> Specs]
      /\ Tui \in Editors /\ Cmds \subseteq Editors
  BY DEF DeskTypeOK, Editors
<1>2. ASSUME ~overlap
      PROVE  /\ \A d, e \in Editors : Working(d) /\ Working(e) => d = e
             /\ \A n \in Names : (\A e \in Editors : Working(e) => Name(e) # n) => Matched(n)
             /\ \A e \in Editors : Working(e) => GotSoFar(e)
  BY <1>2 DEF OneAtWork
<1>3. ASSUME UNCHANGED <<spec, crontab, stranded>>
      PROVE  /\ \A n : Matched(n)' = Matched(n) /\ Unlisted(n)' = Unlisted(n)
             /\ \A n : Readable(n)' = Readable(n)
  BY <1>3 DEF Matched, Unlisted, Count, Readable
<1>4. CASE UNCHANGED deskVars
  <2>1. UNCHANGED <<spec, crontab, stranded, overlap, at, job, copy, text>>
    BY <1>4 DEF deskVars, fileVars, editVars, pastVars
  <2>2. \A e : /\ Working(e)' = Working(e) /\ Name(e)' = Name(e) /\ GotSoFar(e)' = GotSoFar(e)
    BY <2>1 DEF Working, Name, GotSoFar, Matched, Unlisted, Suits, Count, Readable, Op
  <2>3. \A n : Matched(n)' = Matched(n)
    BY <1>3, <2>1
  <2>4. ~overlap
    BY <2>1
  <2> QED
    BY <1>2, <2>2, <2>3, <2>4
<1>5. ASSUME NEW e \in Editors, NEW o \in Ops, NEW n \in Names, NEW first \in Stages,
             NEW copied, Begins(e, o, n, copied, first)
      PROVE  /\ \A c, d \in Editors : Working(c)' /\ Working(d)' => c = d
             /\ \A m \in Names :
                   (\A d \in Editors : Working(d)' => Name(d)' # m) => Matched(m)'
             /\ \A d \in Editors : Working(d)' => GotSoFar(d)'
  <2> DEFINE started == [op |-> o, name |-> n]
  <2>1. /\ job' = [job EXCEPT ![e] = started] /\ copy' = [copy EXCEPT ![e] = copied]
        /\ at' = [at EXCEPT ![e] = first] /\ at[e] = "idle"
        /\ overlap' = (overlap \/ \E d \in Editors \ {e} : Working(d))
        /\ UNCHANGED <<spec, crontab, stranded>>
    BY <1>5 DEF Begins, Start, Go, fileVars
  <2>2. started.op = o /\ started.name = n
    OBVIOUS
  <2>3. /\ started \in Jobs
        /\ o = "add" => spec[n] = NoSpec
        /\ first = IF o = "add" THEN "empty" ELSE IF o = "exec" THEN "run" ELSE "readCrontab"
    BY <1>5, BeginsParts
  <2> HIDE DEF started
  <2>4. \A d \in Editors : ~Working(d)
    <3>1. ~Working(e)
      BY <2>1 DEF Working
    <3> QED
      BY <2>1, <3>1
  <2>5. ~overlap /\ \A m \in Names : Matched(m)
    BY <1>2, <2>1, <2>4
  <2>6. \A m \in Names : Matched(m)'
    BY <1>3, <2>1, <2>5
  <2>7. \A d \in Editors \ {e} : ~Working(d)'
    BY <1>1, <2>1, <2>4 DEF Working
  <2>8. Name(e)' = n /\ Op(e)' = o /\ at'[e] = first
    BY <1>1, <2>1, <2>2 DEF Name, Op
  <2>9. o = "add" => Unlisted(n)'
    <3> SUFFICES ASSUME o = "add" PROVE Unlisted(n)'
      OBVIOUS
    <3>1. ~Readable(n)'
      BY <2>1, <2>3, CmdsCounted DEF Readable
    <3> QED
      BY <2>6, <3>1 DEF Matched
  <2>10. ASSUME Working(e)' PROVE GotSoFar(e)'
    <3>1. CASE o = "add"
      BY <2>3, <2>8, <2>9, <3>1 DEF GotSoFar
    <3>2. CASE o # "add"
      BY <2>3, <2>6, <2>8, <2>10, <3>2 DEF GotSoFar, Working
    <3> QED
      BY <3>1, <3>2
  <2> QED
    BY <2>6, <2>7, <2>10
<1>6. ASSUME NEW c \in Cmds, NEW retires \in BOOLEAN, Return(c, retires)
      PROVE  /\ \A d, e \in Editors : Working(d)' /\ Working(e)' => d = e
             /\ \A m \in Names :
                   (\A d \in Editors : Working(d)' => Name(d)' # m) => Matched(m)'
             /\ \A d \in Editors : Working(d)' => GotSoFar(d)'
  <2>0. PICK n \in Names : n = Name(c)
    BY <1>6, ReturnParts
  <2>1. /\ at[c] = "run" /\ Op(c) = "exec" /\ UNCHANGED <<spec, job, crontab, stranded, text>>
    BY <1>6, ReturnParts
  <2>2. /\ Name(c)' = n /\ Op(c)' = "exec" /\ ~Working(c) /\ c \in Editors
        /\ \A d : Name(d)' = Name(d) /\ Op(d)' = Op(d)
        /\ \A m : Matched(m)' = Matched(m)
    BY <1>1, <1>3, <2>0, <2>1 DEF Name, Op, Working
  <2>3. CASE Go(c, "over") /\ UNCHANGED <<copy, overlap>>
    <3>1. ~overlap /\ at' = [at EXCEPT ![c] = "over"] /\ UNCHANGED copy
      BY <2>3 DEF Go
    <3>2. ~Working(c)' /\ \A d \in Editors \ {c} : at'[d] = at[d] /\ Working(d)' = Working(d)
      BY <1>1, <2>2, <3>1 DEF Working
    <3>3. \A d \in Editors : Working(d)' <=> Working(d)
      <4> SUFFICES ASSUME NEW d \in Editors PROVE Working(d)' <=> Working(d)
        OBVIOUS
      <4>1. CASE d = c
        BY <2>2, <3>2, <4>1
      <4>2. CASE d # c
        BY <3>2, <4>2
      <4> QED
        BY <4>1, <4>2
    <3>4. \A d \in Editors \ {c} : GotSoFar(d)' = GotSoFar(d)
      BY <2>1, <2>2, <3>1, <3>2 DEF GotSoFar, Unlisted, Suits, Count
    <3> QED
      BY <1>2, <2>2, <3>1, <3>2, <3>3, <3>4
  <2>4. CASE /\ Readable(Name(c))
             /\ \E s \in Specs, stage \in {"readCrontab", "empty"} :
                   /\ copy' = [copy EXCEPT ![c] = s] /\ Go(c, stage)
                   /\ s.runs = spec[Name(c)].runs + 1
                   /\ s.status = IF stage = "readCrontab" THEN "retired"
                                 ELSE spec[Name(c)].status
                   /\ overlap' = (overlap \/ \E d \in Editors \ {c} : Working(d))
    <3>1. PICK s \in Specs, stage \in {"readCrontab", "empty"} :
             /\ copy' = [copy EXCEPT ![c] = s] /\ at' = [at EXCEPT ![c] = stage]
             /\ s.status = IF stage = "readCrontab" THEN "retired" ELSE spec[n].status
             /\ overlap' = (overlap \/ \E d \in Editors \ {c} : Working(d))
      BY <2>0, <2>4 DEF Go
    <3>2. ~overlap /\ \A d \in Editors : ~Working(d)
      BY <2>2, <3>1
    <3>3. \A m \in Names : Matched(m)'
      BY <1>2, <2>2, <3>2
    <3>4. \A d \in Editors \ {c} : ~Working(d)'
      BY <1>1, <3>1, <3>2 DEF Working
    <3>5. at'[c] = stage /\ copy'[c] = s
      BY <1>1, <2>2, <3>1
    <3>6. stage = "empty" => Suits(n, s.status)'
      <4> SUFFICES ASSUME stage = "empty" PROVE Suits(n, s.status)'
        OBVIOUS
      <4>1. s.status = spec[n].status /\ Matched(n) /\ Readable(n)
        BY <1>2, <2>0, <2>4, <3>1, <3>2
      <4>2. Suits(n, s.status)
        BY <4>1 DEF Matched, Suits
      <4> QED
        BY <2>1, <4>2 DEF Suits, Unlisted, Count
    <3>7. GotSoFar(c)'
      <4>1. CASE stage = "empty"
        <5>1. Suits(n, copy[c].status)'
          BY <3>5, <3>6, <4>1 DEF Suits, Unlisted, Count
        <5> QED
          BY <2>2, <3>5, <4>1, <5>1 DEF GotSoFar, Suits, Unlisted, Count
      <4>2. CASE stage = "readCrontab"
        BY <2>2, <3>3, <3>5, <4>2 DEF GotSoFar
      <4> QED
        BY <4>1, <4>2
    <3> QED
      BY <3>3, <3>4, <3>7
  <2> QED
    BY <1>6, <2>3, <2>4, ReturnParts
<1>7. ASSUME NEW e \in Editors, EditStep(e)
      PROVE  /\ \A c, d \in Editors : Working(c)' /\ Working(d)' => c = d
             /\ \A m \in Names :
                   (\A d \in Editors : Working(d)' => Name(d)' # m) => Matched(m)'
             /\ \A d \in Editors : Working(d)' => GotSoFar(d)'
  <2>1. Working(e) /\ UNCHANGED <<job, copy>> /\ \A d \in Editors : Working(d)' => Working(d)
    BY <1>7, EditFrame
  <2>2. PICK n \in Names : n = Name(e)
    BY <1>7, EditFrame
  <2>3. ~overlap
    BY <1>7 DEF EditStep, ReadCrontab, WriteCrontab, CrontabFails, EmptySpec, WriteSpec,
                UnlinkSpec, NoteRemoval, pastVars
  <2>4. GotSoFar(e) /\ \A d \in Editors \ {e} : ~Working(d) /\ ~Working(d)'
    BY <1>2, <2>1, <2>3
  <2>5. /\ Working(e)' => GotSoFar(e)'
        /\ ~Working(e)' => Matched(n)'
        /\ \A m \in Names \ {n} : /\ Count(m)' = Count(m) /\ spec'[m] = spec[m]
                                  /\ m \in stranded' <=> m \in stranded
    BY <1>7, <2>2, <2>4, WorkerStep
  <2>6. ASSUME NEW m \in Names, m # n PROVE Matched(m)'
    <3>1. Matched(m)
      BY <1>2, <2>2, <2>3, <2>4, <2>6
    <3>2. Count(m)' = Count(m) /\ spec'[m] = spec[m] /\ (m \in stranded' <=> m \in stranded)
      BY <2>5, <2>6
    <3> QED
      BY <3>1, <3>2 DEF Matched, Unlisted, Readable
  <2>7. Name(e)' = n
    BY <2>1, <2>2 DEF Name
  <2> QED
    BY <2>4, <2>5, <2>6, <2>7
<1>8. ASSUME NEW stage \in {"idle", "list", "failed"}, Quiet(stage)
      PROVE  /\ \A c, d \in Editors : Working(c)' /\ Working(d)' => c = d
             /\ \A m \in Names :
                   (\A d \in Editors : Working(d)' => Name(d)' # m) => Matched(m)'
             /\ \A d \in Editors : Working(d)' => GotSoFar(d)'
  <2>1. /\ at' = [at EXCEPT ![Tui] = stage] /\ ~Working(Tui)
        /\ UNCHANGED <<spec, crontab, overlap, stranded>>
    BY <1>8, QuietFrame
  <2>2. PICK j, s, x : /\ job' = [job EXCEPT ![Tui] = j] /\ copy' = [copy EXCEPT ![Tui] = s]
                       /\ text' = [text EXCEPT ![Tui] = x]
    BY <1>8, QuietFrame
  <2>3. ~Working(Tui)'
    BY <1>1, <2>1 DEF Working
  <2>4. text \in [Editors -> Texts]
    BY DEF DeskTypeOK
  <2>5. \A d \in Editors \ {Tui} :
           at'[d] = at[d] /\ job'[d] = job[d] /\ copy'[d] = copy[d] /\ text'[d] = text[d]
    BY <1>1, <2>1, <2>2, <2>4
  <2>6. \A d \in Editors \ {Tui} : /\ Working(d)' = Working(d) /\ Name(d)' = Name(d)
                                   /\ Op(d)' = Op(d)
    BY <2>5 DEF Working, Name, Op
  <2>7. \A m : Matched(m)' = Matched(m) /\ Unlisted(m)' = Unlisted(m)
    BY <1>3, <2>1
  <2>8. \A d \in Editors \ {Tui} : GotSoFar(d)' = GotSoFar(d)
    BY <2>1, <2>5, <2>6, <2>7 DEF GotSoFar, Unlisted, Suits, Count
  <2> QED
    BY <1>2, <2>1, <2>3, <2>6, <2>7, <2>8
<1>9. CASE UserEdits
  <2>1. /\ \A m \in Names : Count(m)' = Count(m)
        /\ UNCHANGED <<spec, at, job, copy, text, overlap, stranded>>
    BY <1>9, UserEditsParts
  <2>2. \A e : Working(e)' = Working(e) /\ Name(e)' = Name(e) /\ Op(e)' = Op(e)
    BY <2>1 DEF Working, Name, Op
  <2>3. ASSUME NEW m \in Names
        PROVE  /\ Matched(m)' <=> Matched(m)
               /\ Unlisted(m)' <=> Unlisted(m)
               /\ \A status : Suits(m, status)' <=> Suits(m, status)
    BY <2>1 DEF Matched, Unlisted, Suits, Readable
  <2>4. ASSUME NEW e \in Editors, Working(e), GotSoFar(e)
        PROVE  GotSoFar(e)'
    <3>1. Name(e) \in Names
      BY <2>4, WorkerHasJob
    <3>2. PICK n \in Names : n = Name(e)
      BY <3>1
    <3> QED
      BY <2>1, <2>2, <2>3, <2>4, <3>2 DEF GotSoFar
  <2> QED
    BY <1>2, <2>1, <2>2, <2>3, <2>4
<1> QED
  BY <1>4, <1>5, <1>6, <1>7, <1>8, <1>9 DEF StepKind
-----------------------------------------------------------------------------
(* What the screen shows and asks survives every step.                     *)
LEMMA SortedRows ==
    ASSUME NEW listed, listed \subseteq Rows, IsFiniteSet(listed), NEW order \in Sorted(listed)
    PROVE  order \in Seq(Rows) /\ DOMAIN order = 1..Len(order) /\ Len(order) \in Nat
<1>1. order \in SetToSeqs(listed)
  BY DEF Sorted
<1>2. order \in Seq(listed)
  BY <1>1, OnceEach
<1> QED
  BY <1>2, SeqMonotonic, LenProperties

LEMMA ListedRows ==
    ASSUME DeskTypeOK
    PROVE  Listed \subseteq Rows /\ IsFiniteSet(Listed)
<1> DEFINE ns == {m \in Names : Readable(m)}
           row(n) == [name |-> n, spec |-> spec[n], log |-> log[n]]
           rs == {row(n) : n \in ns}
<1>1. Listed = {} \/ Listed = rs
  BY DEF Listed
<1>2. ns \in SUBSET Names
  OBVIOUS
<1>3. IsFiniteSet(ns)
  BY <1>2, LinesAssumption, FS_Subset
<1>4. \A n \in ns : row(n) \in Rows
  BY DEF DeskTypeOK, Readable, Rows
<1>5. IsFiniteSet(rs)
  <2> DEFINE f == [n \in ns |-> row(n)]
  <2>1. f \in Surjection(ns, rs)
    BY DEF Surjection
  <2> QED
    BY <1>3, <2>1, FS_Surjection
<1>6. rs \subseteq Rows
  BY <1>4
<1> QED
  BY <1>1, <1>5, <1>6, FS_EmptySet

LEMMA RangeRows ==
    ASSUME NEW order \in Seq(Rows)
    PROVE  Range(order) \subseteq Rows /\ IsFiniteSet(Range(order))
<1>1. Range(order) \subseteq Rows
  BY RangeOfSeq
<1>2. DOMAIN order = 1..Len(order) /\ Len(order) \in Nat
  BY LenProperties
<1>3. IsFiniteSet(DOMAIN order)
  BY <1>2, FS_Interval
<1>4. order \in Surjection(DOMAIN order, Range(order))
  <2>1. order \in [DOMAIN order -> Range(order)]
    <3>1. order \in [1..Len(order) -> Rows]
      BY LenProperties
    <3> QED
      BY <3>1 DEF Range
  <2> QED
    BY <2>1 DEF Surjection, Range
<1> QED
  BY <1>1, <1>3, <1>4, FS_Surjection

(* A removal under way is of the schedule the prompt named.                *)
Confirmed ==
    at[Tui] \notin {"idle", "list"} /\ Op(Tui) = "rm" =>
        mode \in {"confirm", "sure"} /\ shown = Name(Tui)

LEMMA RowsStep ==
    ASSUME DeskTypeOK, ScreenAgrees, [Next]_vars
    PROVE  (rows \in Seq(Rows) /\ sel \in Nat \ {0})'
<1>1. rows \in Seq(Rows) /\ sel \in Nat \ {0}
  BY DEF ScreenAgrees
<1>2. CASE UNCHANGED <<rows, sel>>
  BY <1>1, <1>2
<1>3. CASE ListSpecs
  <2>1. rows' \in Sorted(Listed)
    BY <1>3 DEF ListSpecs
  <2>2. rows' \in Seq(Rows) /\ DOMAIN rows' = 1..Len(rows') /\ Len(rows') \in Nat
    BY <2>1, ListedRows, SortedRows
  <2>3. \/ sel' = sel \/ sel' = 1
        \/ /\ \E i \in DOMAIN rows' : rows'[i].name = aim
           /\ sel' = CHOOSE i \in DOMAIN rows' : rows'[i].name = aim
    BY <1>3 DEF ListSpecs
  <2>4. sel' = sel \/ sel' = 1 \/ sel' \in DOMAIN rows'
    BY <2>3
  <2> QED
    BY <1>1, <2>2, <2>4
<1>4. CASE Tick
  <2>1. sel' = sel /\ (rows' = rows \/ rows' \in Sorted(Range(rows)))
    BY <1>4 DEF Tick, Refresh, Reload
  <2> QED
    BY <1>1, <2>1, RangeRows, SortedRows
<1>5. CASE PressTab \/ PressEscape
  BY <1>1, <1>5 DEF PressTab, PressEscape, Turn
<1>6. CASE Move
  <2>1. rows' = rows /\ sel' \in 1..Len(rows)
    BY <1>6 DEF Move
  <2> QED
    BY <1>1, <2>1, LenProperties
<1>7. CASE UNCHANGED vars
  BY <1>1, <1>7 DEF vars, uiVars
<1>8. CASE DeskNext /\ UNCHANGED uiVars
  BY <1>1, <1>8 DEF uiVars
<1>9. CASE Settle \/ (EditStep(Tui) /\ UNCHANGED uiVars) \/ PollDetail
  BY <1>1, <1>9 DEF Settle, Leave, Reload, uiVars, PollDetail, Show
<1>10. CASE OpenForm \/ CloseForm \/ OpenDetail \/ AskRemove \/ AskInDetail \/ AnswerNo
  BY <1>1, <1>10 DEF OpenForm, CloseForm, OpenDetail, AskRemove, AskInDetail, AnswerNo, Show
<1>11. CASE PressToggle \/ PressYes \/ Submit
  BY <1>1, <1>11 DEF PressToggle, PressYes, Submit, Begin
<1>12. CASE PressExec \/ Back \/ Vanished
  BY <1>1, <1>12 DEF PressExec, Back, Vanished, Jobless, Leave, Reload
<1> QED
  BY <1>3, <1>4, <1>5, <1>6, <1>7, <1>8, <1>9, <1>10, <1>11, <1>12 DEF Next, Handler, Key

LEMMA ShownStep ==
    ASSUME DeskTypeOK, ScreenAgrees, [Next]_vars
    PROVE  (mode \in {"confirm", "sure", "detail"} => shown \in Names)'
<1>1. mode \in {"confirm", "sure", "detail"} => shown \in Names
  BY DEF ScreenAgrees
<1>2. CASE UNCHANGED <<mode, shown>>
  BY <1>1, <1>2
<1>3. CASE UNCHANGED vars
  BY <1>2, <1>3 DEF vars, uiVars
<1>4. CASE \/ DeskNext /\ UNCHANGED uiVars
           \/ EditStep(Tui) /\ UNCHANGED uiVars
  BY <1>2, <1>4 DEF uiVars
<1>5. CASE ListSpecs \/ Tick \/ PollDetail \/ PressTab \/ PressEscape \/ Move
  BY <1>2, <1>5 DEF ListSpecs, Tick, PollDetail, Show, PressTab, PressEscape, Turn, Move
<1>6. CASE OpenForm \/ CloseForm \/ OpenDetail \/ AskRemove \/ AskInDetail \/ AnswerNo
  <2>1. AtRow => Selected.name \in Names
    BY SelectedNamed DEF AtRow
  <2> QED
    BY <1>1, <1>6, <2>1 DEF OpenForm, CloseForm, OpenDetail, AskRemove, AskInDetail, AnswerNo,
                            Show, On
<1>7. CASE PressToggle \/ PressYes \/ Submit
  BY <1>2, <1>7 DEF PressToggle, PressYes, Submit, Begin
<1>8. CASE Settle
  <2>1. \/ mode' = "list"
        \/ mode \in {"detail", "sure"} /\ shown' = shown
        \/ mode' = mode /\ shown' = shown
    BY <1>8 DEF Settle, Leave
  <2> QED
    BY <1>1, <2>1
<1>9. CASE PressExec \/ Back \/ Vanished
  BY <1>1, <1>9 DEF PressExec, Back, Vanished, Jobless, Leave, On
<1> QED
  BY <1>3, <1>4, <1>5, <1>6, <1>7, <1>8, <1>9 DEF Next, Handler, Key

LEMMA ConfirmedStep ==
    ASSUME DeskTypeOK, TextsSound, JobsAgree, RunsCounted, ScreenAgrees, [Next]_vars
    PROVE  Confirmed'
<1>1. Confirmed
  BY DEF ScreenAgrees, Confirmed
<1>2. /\ at \in [Editors -> Stages] /\ job \in [Editors -> Jobs \cup {NoJob}]
      /\ Tui \in Editors /\ Tui \notin Cmds /\ Cmds \subseteq Editors
  BY DeskAssumption DEF DeskTypeOK, Editors
<1>3. ASSUME UNCHANGED <<mode, shown>>, job'[Tui] = job[Tui],
             at'[Tui] \in {"idle", "list"} \/ at[Tui] \notin {"idle", "list"}
      PROVE  Confirmed'
  BY <1>1, <1>3 DEF Confirmed, Op, Name
<1>4. ASSUME at'[Tui] \in {"idle", "list"} PROVE Confirmed'
  BY <1>4 DEF Confirmed
<1>5. CASE UNCHANGED vars
  BY <1>3, <1>5 DEF vars, deskVars, editVars, uiVars
<1>6. ASSUME NEW c \in Cmds, Command(c) \/ CommandStep(c), UNCHANGED uiVars
      PROVE  Confirmed'
  <2>1. job'[Tui] = job[Tui] /\ (at'[Tui] = at[Tui] \/ at[Tui] = "write")
    <3>1. CASE Command(c)
      <4>1. PICK o, n, copied, first : Start(c, o, n, copied, first)
        BY <3>1 DEF Command, Add, TakeOut, Exec, Pause, Resume
      <4> QED
        BY <1>2, <4>1 DEF Start, Go
    <3>2. CASE EditStep(c)
      BY <1>2, <3>2, EditFrame
    <3>3. ASSUME NEW retires \in BOOLEAN, Return(c, retires)
          PROVE  job'[Tui] = job[Tui] /\ (at'[Tui] = at[Tui] \/ at[Tui] = "write")
      <4>1. job' = job /\ \E stage : at' = [at EXCEPT ![c] = stage]
        BY <3>3, ReturnParts DEF Go
      <4> QED
        BY <1>2, <4>1
    <3> QED
      BY <1>6, <3>1, <3>2, <3>3 DEF CommandStep
  <2> QED
    BY <1>3, <1>6, <2>1 DEF uiVars
<1>12. CASE UserEdits /\ UNCHANGED uiVars
  BY <1>3, <1>12, UserEditsParts DEF uiVars
<1>7. CASE EditStep(Tui) /\ UNCHANGED uiVars
  <2>1. Working(Tui) /\ UNCHANGED job
    BY <1>2, <1>7, EditFrame
  <2>2. at[Tui] \notin {"idle", "list"}
    BY <2>1 DEF Working
  <2> QED
    BY <1>3, <1>7, <2>1, <2>2 DEF uiVars
<1>8. CASE ListSpecs \/ Settle
  <2>1. at' = [at EXCEPT ![Tui] = "idle"] \/ at' = [at EXCEPT ![Tui] = "list"]
    BY <1>8 DEF ListSpecs, Settle, Leave, Reload, Go
  <2> QED
    BY <1>2, <1>4, <2>1
<1>9. CASE \/ Tick \/ PollDetail \/ PressTab \/ PressEscape \/ Move
           \/ OpenForm \/ CloseForm \/ OpenDetail \/ AskRemove \/ AskInDetail \/ AnswerNo
           \/ PressExec \/ Back \/ Vanished
  <2>1. at[Tui] = "idle"
    BY <1>9 DEF Tick, PollDetail, PressTab, PressEscape, Move, OpenForm, CloseForm, OpenDetail,
           AskRemove, AskInDetail, AnswerNo, PressExec, Back, Vanished, On, Idle
  <2>2. at' = at \/ at' = [at EXCEPT ![Tui] = "list"]
    BY <1>9 DEF Tick, Refresh, Reload, Go, PollDetail, PressTab, PressEscape, Turn, Move,
           OpenForm, CloseForm, OpenDetail, AskRemove, AskInDetail, AnswerNo, Show,
           PressExec, Back, Vanished, Jobless, Leave, deskVars, editVars
  <2> QED
    BY <1>2, <1>4, <2>1, <2>2
<1>10. CASE PressToggle \/ Submit
  <2>1. PICK o, n : o \in {"toggle", "add"} /\ job' = [job EXCEPT ![Tui] = [op |-> o, name |-> n]]
    BY <1>10 DEF PressToggle, Submit, Begin, ToggleOrRefuse, Toggle, Pause, Resume, Add, Start, Refused
  <2>2. Op(Tui)' # "rm"
    BY <1>2, <2>1 DEF Op
  <2> QED
    BY <2>2 DEF Confirmed
<1>11. CASE PressYes
  <2>1. mode \in {"confirm", "sure"} /\ RemoveOrRefuse(shown) /\ UNCHANGED <<mode, shown>>
    BY <1>11 DEF PressYes, On, Begin
  <2>2. job' = [job EXCEPT ![Tui] = [op |-> "rm", name |-> shown]]
    BY <2>1 DEF RemoveOrRefuse, TakeOut, Start, Refused
  <2>3. Name(Tui)' = shown
    BY <1>2, <2>2 DEF Name
  <2> QED
    BY <2>1, <2>3 DEF Confirmed
<1> QED
  BY <1>5, <1>6, <1>7, <1>8, <1>9, <1>10, <1>11, <1>12 DEF Next, DeskNext, Handler, Key

LEMMA ScreenStep ==
    ASSUME DeskTypeOK, TextsSound, JobsAgree, RunsCounted, ScreenAgrees, [Next]_vars
    PROVE  ScreenAgrees'
  BY RowsStep, ShownStep, ConfirmedStep DEF ScreenAgrees, Confirmed
-----------------------------------------------------------------------------
(* The program starts with its files in agreement.                         *)
LEMMA DeskStarts == Init => DeskStrong
<1> SUFFICES ASSUME Init PROVE DeskStrong
  OBVIOUS
<1> DEFINE S == {n \in Names : spec[n] = NewSpec}
<1>1. /\ spec \in [Names -> {NewSpec, NoSpec}]
      /\ stamp = [n \in Names |-> 0] /\ log = [n \in Names |-> 0]
      /\ at = [e \in Editors |-> "idle"] /\ job = [e \in Editors |-> NoJob]
      /\ copy = [e \in Editors |-> NewSpec] /\ text = [e \in Editors |-> Closed(<<>>)]
      /\ overlap = FALSE /\ stranded = {} /\ rows = <<>> /\ sel = 1 /\ mode = "list"
  BY DEF Init, DeskInit
<1>16. own = UsersOwn(crontab) /\ late = {} /\ lost = FALSE /\ edits = 0
  BY DEF Init, DeskInit
<1>2. PICK mine \in SUBSET Foreign :
        \E kept \in SetToSeqs(mine), tagged \in SetToSeqs(S) :
         \/ crontab = Closed(kept \o tagged)
         \/ mine # {} /\ crontab = [lines |-> tagged \o kept, closed |-> FALSE]
  BY DEF Init, DeskInit
<1>17. PICK kept \in SetToSeqs(mine), tagged \in SetToSeqs(S) :
         \/ crontab = Closed(kept \o tagged)
         \/ mine # {} /\ crontab = [lines |-> tagged \o kept, closed |-> FALSE]
  BY <1>2
<1> HIDE DEF S
<1>3. PICK lines \in {kept \o tagged, tagged \o kept}, closed \in BOOLEAN :
         crontab = [lines |-> lines, closed |-> closed] /\ (~closed => mine # {})
  BY <1>17 DEF Closed
<1>4. S \in SUBSET Names
  BY DEF S
<1>5. crontab.lines = lines /\ crontab.closed = closed
  BY <1>3
<1>6. /\ lines \in Seq(Lines)
      /\ lines = <<>> => mine = {}
      /\ \A n \in Names : LinesOf(crontab, n) = IF n \in S THEN 1 ELSE 0
  <2>1. /\ kept \in SetToSeqs(mine) /\ tagged \in SetToSeqs(S)
        /\ lines = kept \o tagged \/ lines = tagged \o kept
    BY <1>17, <1>3
  <2>2. PICK t, s : t = crontab /\ s = S
    OBVIOUS
  <2>3. /\ lines \in Seq(Lines)
        /\ lines = <<>> => mine = {}
        /\ \A n \in Names : LinesOf(t, n) = IF n \in s THEN 1 ELSE 0
    <3>1. t.lines = lines /\ s \in SUBSET Names /\ tagged \in SetToSeqs(s)
      BY <1>4, <1>5, <2>1, <2>2
    <3>2. lines = kept \o tagged \/ lines = tagged \o kept
      BY <2>1
    <3>3. kept \in SetToSeqs(mine)
      BY <2>1
    <3> HIDE DEF S
    <3>4. lines \in Seq(Lines)
      BY <3>1, <3>2, <3>3, InitialLines
    <3>5. lines = <<>> => mine = {}
      BY <3>1, <3>2, <3>3, InitialLines
    <3>6. OneLineEach(t, s)
      BY <3>1, <3>2, <3>3, InitialLines
    <3> QED
      BY <3>4, <3>5, <3>6 DEF OneLineEach
  <2> QED
    BY <2>2, <2>3
<1>7. crontab \in Texts
  BY <1>3, <1>6 DEF Texts, Lines
<1>8. Sound(crontab)
  BY <1>3, <1>5, <1>6, <1>7 DEF Sound
<1>9. \A e \in Editors : at[e] = "idle" /\ ~Working(e)
  BY <1>1 DEF Working
<1>10. DeskTypeOK
  BY <1>1, <1>7, <1>9, <1>16, CmdsCounted, ClosedSound, UsersOwnIsText
     DEF DeskTypeOK, Stages, Sound
<1>11. TextsSound
  BY <1>1, <1>8, <1>9, <1>16, ClosedSound DEF TextsSound
<1>12. JobsAgree
  BY <1>9 DEF JobsAgree
<1>13. RunsCounted
  <2>1. \A n \in Names : Readable(n) => spec[n].runs = 0
    BY <1>1, CmdsCounted DEF Readable
  <2> QED
    BY <1>9, <2>1, CountedBound DEF RunsCounted
<1>14. OneAtWork
  <2>1. ASSUME NEW n \in Names PROVE Matched(n)
    <3>1. CASE spec[n] = NewSpec
      BY <1>6, <3>1, CmdsCounted DEF S, Matched, Readable, Count
    <3>2. CASE spec[n] = NoSpec
      BY <1>6, <3>2, CmdsCounted DEF S, Matched, Readable, Count, Unlisted
    <3> QED
      BY <1>1, <3>1, <3>2
  <2> QED
    BY <1>9, <2>1 DEF OneAtWork
<1>15. ScreenAgrees
  <2>1. Tui \in Editors
    BY DEF Editors
  <2> QED
    BY <1>1, <1>9, <2>1, EmptySeq DEF ScreenAgrees
<1> QED
  BY <1>10, <1>11, <1>12, <1>13, <1>14, <1>15 DEF DeskStrong

LEMMA DeskStep == DeskStrong /\ [Next]_vars => DeskStrong'
<1> SUFFICES ASSUME DeskStrong, [Next]_vars PROVE DeskStrong'
  OBVIOUS
<1> USE DEF DeskStrong
<1>1. StepKind
  BY StepHasKind
<1> QED
  BY <1>1, TypesStep, TextsKept, RunsStep, OneAtWorkStep, ScreenStep

(* The inductive invariant of the schedules and their editors.             *)
THEOREM DeskIsStrong == Spec => []DeskStrong
  BY DeskStarts, DeskStep, PTL DEF Spec

(* Whoever edits schedules, and however their steps mix, files, jobs and   *)
(* crontab are well-formed; and while nobody has interfered with another   *)
(* (add.ts, exec.ts, cli.ts and scheduleActions.ts read and write without  *)
(* a lock) exactly the active schedules are in the crontab whenever nobody *)
(* is at work, whatever crontab command failed.                            *)
THEOREM SpecsAndLinesAgree == Spec => []DeskInv
<1>1. DeskStrong => DeskInv
  <2> SUFFICES ASSUME DeskStrong PROVE DeskTypeOK /\ LinesMatchSpecs
    BY DEF DeskInv
  <2>1. DeskTypeOK
    BY DEF DeskStrong
  <2>2. ASSUME ~overlap, \A e \in Editors : ~Working(e), NEW n \in Names
        PROVE  Matched(n)
    BY <2>2 DEF DeskStrong, OneAtWork
  <2> QED
    BY <2>1, <2>2 DEF LinesMatchSpecs, Matched, Unlisted
<1> QED
  BY <1>1, DeskIsStrong, PTL

(* Whatever commands, executions and the TUI do to the crontab, in         *)
(* whatever order, and whatever the user does to his own lines meanwhile:  *)
(* his lines are as he last left them, unless an editor that had read the  *)
(* crontab before that wrote it after; and no schedule is listed twice:    *)
(* removeTaggedChunks() and installScheduleCrontabLine()                   *)
(* (src/schedule/crontab.ts), for any lines.                               *)
THEOREM UsersLinesSurvive == Spec => []CrontabKept
<1>1. DeskStrong => CrontabKept
  BY DEF DeskStrong, TextsSound, Sound, Count, CrontabKept
<1> QED
  BY <1>1, DeskIsStrong, PTL

(* The TUI unlinks no schedule but the one its prompt named, whatever the  *)
(* snapshot and the selection behind the prompt have become meanwhile      *)
(* (HomeView.tsx and ScheduleDetail.tsx).                                  *)
THEOREM RemovalsAreConfirmed == Spec => RemovesConfirmed
<1>1. DeskStrong /\ [Next]_vars =>
         [\A n \in Names :
             at[Tui] = "unlink" /\ Name(Tui) = n /\ at'[Tui] # "unlink"
                => mode \in {"confirm", "sure"} /\ shown = n]_vars
  <2> SUFFICES ASSUME DeskStrong, at[Tui] = "unlink"
               PROVE  mode \in {"confirm", "sure"} /\ shown = Name(Tui)
    OBVIOUS
  <2>1. Op(Tui) = "rm"
    BY DEF DeskStrong, JobsAgree, Editors
  <2> QED
    BY <2>1 DEF DeskStrong, ScreenAgrees
<1> QED
  BY <1>1, DeskIsStrong, PTL DEF Spec, RemovesConfirmed
=============================================================================
