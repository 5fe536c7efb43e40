----------------------------- MODULE ChildLists -----------------------------
(***************************************************************************)
(* What the child-list methods of a render container promise, without     *)
(* pointers: every live object has an ordered sequence of children; a    *)
(* child is put at a position of one container's sequence, possibly      *)
(* inside a new wrapper put there (an anonymous box), taken out of        *)
(* it, and a detached object goes back to the arena with everything below *)
(* it.  An object is a child of at most one container, never of itself or *)
(* of anything below it, and a text has no children.                      *)
(*                                                                         *)
(* RenderContainer implements this specification: its sibling chains,     *)
(* read from m_first, are the sequences (see ChildListRefinement there).  *)
(***************************************************************************)
EXTENDS Naturals, Sequences, SequencesExt, FiniteSets

CONSTANTS
    Objects,   \* render objects
    Texts      \* objects that never have children

VARIABLES
    kids,      \* kids[o]: the children of o, in order
    alive      \* objects not yet returned to the arena

absvars == <<kids, alive>>

\* o is in some container's sequence.
IsChild(o) == \E p \in Objects : o \in ToSet(kids[p])

\* o and everything below it.
Below(o) ==
    LET RECURSIVE Down(_, _)
        Down(x, k) == {x} \cup IF k = 0 THEN {}
                               ELSE UNION {Down(c, k - 1) : c \in ToSet(kids[x])}
    IN  Down(o, Cardinality(Objects))

\* Put c at position i of p's children (i = Len + 1 appends).
InsertAt_(p, c, i) ==
    /\ p \in alive \ Texts
    /\ c \in alive /\ i \in 1 .. Len(kids[p]) + 1
    /\ kids'[p] = InsertAt(kids[p], i, c)
    /\ kids' = [kids EXCEPT ![p] = InsertAt(@, i, c)]
    /\ UNCHANGED alive
    /\ ~IsChild(c) /\ p \notin Below(c)

\* Put a new, empty wrapper w at position i of p's children, with c as
\* its only child.
Wrap(p, w, c, i) ==
    /\ p \in alive \ Texts
    /\ w \in alive \ Texts /\ ~IsChild(w) /\ kids[w] = <<>> /\ w \notin {p, c}
    /\ c \in alive /\ i \in 1 .. Len(kids[p]) + 1
    /\ kids'[w] = <<c>> /\ kids'[p] = InsertAt(kids[p], i, w)
    /\ kids' = [kids EXCEPT ![p] = InsertAt(@, i, w), ![w] = <<c>>]
    /\ UNCHANGED alive
    /\ ~IsChild(c) /\ p \notin Below(c)

\* Take c out of p's children; the others keep their order.
TakeOut(p, c) ==
    /\ p \in alive \ Texts
    /\ c \in ToSet(kids[p])
    /\ kids'[p] = Remove(kids[p], c)
    /\ kids' = [kids EXCEPT ![p] = Remove(@, c)]
    /\ UNCHANGED alive

\* A parentless object and everything below it go back to the arena.
Destroy(o) ==
    /\ o \in alive /\ ~IsChild(o)
    /\ alive' = alive \ Below(o)
    /\ kids' = [x \in Objects |-> IF x \in Below(o) THEN <<>> ELSE kids[x]]

AbsInit ==
    /\ kids = [o \in Objects |-> <<>>]
    /\ alive = Objects

AbsNext ==
    \/ \E p \in alive \ Texts, c \in alive, i \in 1 .. Cardinality(Objects) :
          InsertAt_(p, c, i)
    \/ \E p, w \in alive \ Texts, c \in alive, i \in 1 .. Cardinality(Objects) :
          Wrap(p, w, c, i)
    \/ \E p \in alive \ Texts, c \in Objects : TakeOut(p, c)
    \/ \E o \in alive : Destroy(o)

AbsSpec == AbsInit /\ [][AbsNext]_absvars
=============================================================================
