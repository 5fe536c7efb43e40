------------------------- MODULE MCRenderContainer -------------------------
(***************************************************************************)
(* A render tree of seven objects: two ordinary containers, an anonymous  *)
(* block that removeLeftoverAnonymousBoxes flattens, two texts, a table   *)
(* row group, and one anonymous table the arena hands out when addChild   *)
(* wraps the row group.  Enough for a list of three, an anonymous box     *)
(* with one or two children in first, middle or last position,           *)
(* insertChildNode climbing out of an anonymous box, and addChild both    *)
(* creating a table and reusing the anonymous table before it.  A second  *)
(* instance, a block with two rounds of generated content, is for        *)
(* updatePseudoChild.                                                     *)
(***************************************************************************)
EXTENDS RenderContainer

CONSTANTS block, anon, text, part, table, gen1, gtext1, gen2, gtext2

MCObjects == {block, anon, text, part, table}
MCTexts == {text}
MCAnonymous == {anon, table}
MCFlattenable == {anon}
MCDisplay == [o \in MCObjects |-> CASE o = part -> "rowgroup"
                                   []  o = table -> "table"
                                   []  OTHER -> "block"]

\* A block and what the arena hands out for two rounds of generated
\* content: a container and its text each time.
MCPseudoObjects == {block, gen1, gtext1, gen2, gtext2}
MCPseudoTexts == {gtext1, gtext2}
MCPseudoAnonymous == {gen1, gen2}
MCPseudoUnallocated == {gen1, gtext1, gen2, gtext2}
MCPseudoDisplay == [o \in MCPseudoObjects |-> "block"]
====
