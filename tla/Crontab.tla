------------------------------ MODULE Crontab ------------------------------
(***************************************************************************)
(* The user's crontab as src/schedule/crontab.ts reads and edits it: a     *)
(* text of lines, of which the last may lack its newline.  A line stands   *)
(* for what it ends with: the tag of the schedule it belongs to, or, for a *)
(* line of the user's own, itself.                                         *)
(***************************************************************************)
EXTENDS Integers, Sequences, FiniteSets, SequencesExt

CONSTANTS
    Names,      \* the schedules' names, hence their tags
    Foreign     \* the user's own lines

ASSUME LinesAssumption ==
    /\ Names \cap Foreign = {}
    /\ IsFiniteSet(Names) /\ IsFiniteSet(Foreign)

Texts == [lines : Seq(Names \cup Foreign), closed : BOOLEAN]

(* An empty crontab, and none at all, read as the empty text.              *)
Closed(lines) == [lines |-> lines, closed |-> TRUE]

(* filter(): the lines in S, in their order.  (SelectSeq(lines, LAMBDA     *)
(* line : line \in S), in a form proofs can expand.)                       *)
Keep(lines, S) ==
    LET kept   == {i \in DOMAIN lines : lines[i] \in S}
        Nth(k) == CHOOSE i \in kept : Cardinality({j \in kept : j <= i}) = k
    IN  [k \in 1..Cardinality(kept) |-> lines[Nth(k)]]

(* removeTaggedChunks(): a chunk goes with its newline, so what is left    *)
(* ends without one only if its own last chunk did.                        *)
RemoveTagged(text, n) ==
    [lines  |-> Keep(text.lines, (Names \cup Foreign) \ {n}),
     closed |-> text.closed \/ Last(text.lines) = n]

(* Mutant: the line is appended, to the end of an unfinished one.          *)
InstallAppending(text, n) ==
    LET rest == RemoveTagged(text, n)
    IN  IF rest.closed THEN Closed(Append(rest.lines, n))
        ELSE Closed(Append(Front(rest.lines), n))

(* installScheduleCrontabLine(): behind the last line, or before the first *)
(* one when the last has no newline.                                       *)
Install(text, n) ==
    LET rest == RemoveTagged(text, n)
    IN  IF rest.closed THEN Closed(Append(rest.lines, n))
        ELSE [rest EXCEPT !.lines = <<n>> \o @]

(* countScheduleCrontabLines(), as doctor reports it.                      *)
LinesOf(text, n) == Cardinality({i \in DOMAIN text.lines : text.lines[i] = n})

(* What is left once every schedule is removed.                            *)
UsersOwn(text) ==
    [lines  |-> Keep(text.lines, Foreign),
     closed |-> text.closed \/ Last(text.lines) \in Names]
=============================================================================
