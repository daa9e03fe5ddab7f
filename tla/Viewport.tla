------------------------------ MODULE Viewport ------------------------------
(* The geometry of the run screen (src/tui/format.ts): how the rows of the *)
(* terminal are divided, and which part of a list is shown around the      *)
(* selected item.  Positions in a list count from 0, as in the code.       *)
EXTENDS Integers

AtMost(a, b)  == IF a <= b THEN a ELSE b
AtLeast(a, b) == IF a >= b THEN a ELSE b
-----------------------------------------------------------------------------
(* computeContentBudget(), of `rows' rows: the agents' rows, and the tail  *)
(* of the result's.                                                        *)
ResultChrome == 4

Chrome(banner, narratorLines) ==
    5 + (IF banner THEN 1 ELSE 0) + (IF narratorLines > 0 THEN 1 + narratorLines ELSE 0)

Content(rows, banner, narratorLines) == AtLeast(0, rows - Chrome(banner, narratorLines))

ResultRows(content, finished, tailMax) ==
    IF ~finished THEN 0
    ELSE AtMost(tailMax, AtMost(content \div 2, AtLeast(0, content - ResultChrome)))

AgentRows(content, finished, tailMax) ==
    IF ~finished THEN content
    ELSE AtLeast(0, content - ResultChrome - ResultRows(content, finished, tailMax))
-----------------------------------------------------------------------------
(* windowAgents(), of a list of n items with item sel selected, in cap     *)
(* rows: the items first .. last - 1, and the counts of the markers.       *)
Clamped(sel, n) == AtLeast(0, AtMost(n - 1, sel))

Slots(cap, markers) == AtLeast(1, cap - markers)

(* Mutant: the window starts at the selection less half its slots, which   *)
(* near the end leaves slots empty.                                        *)
StartUnclamped(n, sel, slots) == AtLeast(0, sel - ((slots - 1) \div 2) - 1)

(* The window is centred on the selection, within the list.                *)
Start(n, sel, slots) == AtLeast(0, AtMost(sel - ((slots - 1) \div 2), n - slots))

End(n, sel, slots) == AtMost(n, Start(n, sel, slots) + slots)

Markers(n, sel, slots) ==
    (IF Start(n, sel, slots) > 0 THEN 1 ELSE 0) + (IF End(n, sel, slots) < n THEN 1 ELSE 0)

(* The three passes: how many items fit depends on how many markers are    *)
(* shown, and the other way round.                                         *)
Settled(n, sel, cap) ==
    LET m1 == Markers(n, sel, Slots(cap, 0))
        m2 == Markers(n, sel, Slots(cap, m1))
    IN  Slots(cap, IF m1 = 0 THEN 0 ELSE IF m2 = m1 THEN m1 ELSE m2)

Window(n, sel, cap) ==
    LET s     == Clamped(sel, n)
        slots == Settled(n, s, cap)
        first == Start(n, s, slots)
        last  == End(n, s, slots)
        full  == last - first + Markers(n, s, slots) > cap
    IN  IF n = 0 \/ cap = 0 THEN [first |-> 0, last |-> 0, above |-> 0, below |-> 0]
        ELSE IF cap >= n THEN [first |-> 0, last |-> n, above |-> 0, below |-> 0]
        ELSE [first |-> first, last |-> last,
              above |-> IF full THEN 0 ELSE first, below |-> IF full THEN 0 ELSE n - last]

(* The rows a window takes: its items, and a marker for each clipped side. *)
Rendered(w) ==
    w.last - w.first + (IF w.above > 0 THEN 1 ELSE 0) + (IF w.below > 0 THEN 1 ELSE 0)
-----------------------------------------------------------------------------
(* "The selected item is mandatory - it is always inside the slice", and   *)
(* "the rendered row count is guaranteed <= capacity for every input"      *)
(* (src/tui/format.ts:242): of windowAgents(), for a list of n items.      *)
SelectionInside(n, sel, cap) ==
    LET w == Window(n, sel, cap)
    IN  n > 0 /\ cap > 0 => w.first <= Clamped(sel, n) /\ Clamped(sel, n) < w.last

WithinCapacity(n, sel, cap) == Rendered(Window(n, sel, cap)) <= cap

(* With three rows or more the markers report the true hidden counts.      *)
MarkersTrue(n, sel, cap) ==
    LET w == Window(n, sel, cap)
    IN  n > 0 /\ cap >= 3 => w.above = w.first /\ w.below = n - w.last

(* The panes of computeContentBudget() never take more rows than there     *)
(* are, once the fixed ones fit.                                           *)
PanesFit(rows, banner, narratorLines, finished, tailMax) ==
    LET content == Content(rows, banner, narratorLines)
        fixed   == Chrome(banner, narratorLines) + (IF finished THEN ResultChrome ELSE 0)
    IN  fixed <= rows =>
          fixed + AgentRows(content, finished, tailMax) + ResultRows(content, finished, tailMax) <= rows
=============================================================================
