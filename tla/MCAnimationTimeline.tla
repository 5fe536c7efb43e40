------------------------ MODULE MCAnimationTimeline ------------------------
(***************************************************************************)
(* A small instance of AnimationTimeline: one element, two animation      *)
(* names, one property with two interpolable values and `auto`, and three *)
(* animation objects.                                                      *)
(***************************************************************************)
EXTENDS AnimationTimeline

CONSTANTS e1, nameA, nameB, opacity, a1, a2, a3, a4

MCValues == {0, 1, Auto}

StyleOf(hidden, names, v, t) ==
    [displayNone |-> hidden, anims |-> names,
     value |-> [p \in Props |-> v], transition |-> [p \in Props |-> t]]

\* Visible with animation A at value 0; with A and B at 1; hidden with A;
\* visible with nothing animated at a value that cannot be interpolated;
\* visible with B and an instantaneous transition; visible with A listed
\* twice.
MCStyles ==
    { StyleOf(FALSE, <<nameA>>, 0, "positive"),
      StyleOf(FALSE, <<nameA, nameB>>, 1, "positive"),
      StyleOf(TRUE, <<nameA>>, 1, "positive"),
      StyleOf(FALSE, <<>>, Auto, "none"),
      StyleOf(FALSE, <<nameB>>, 0, "zero"),
      StyleOf(FALSE, <<nameA, nameA>>, 0, "positive") }

====
