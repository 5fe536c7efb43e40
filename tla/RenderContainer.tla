-------------------------- MODULE RenderContainer --------------------------
(***************************************************************************)
(* The child lists of KHTML's render tree (render_container.cpp).  Every   *)
(* render object has parent, previous- and next-sibling pointers, and a    *)
(* container has m_first and m_last.  The pointers are functions from the  *)
(* objects to the objects or Null; `alive` is the set of objects not yet   *)
(* returned to the render arena, so a pointer to an object outside it is a *)
(* dangling pointer.                                                       *)
(*                                                                         *)
(* What the code reads from RenderObject (isText, isAnonymousBox, and the  *)
(* condition of removeLeftoverAnonymousBoxes: an anonymous block with no   *)
(* continuation, block children and not a table cell) is a fixed          *)
(* attribute of each object, given as a CONSTANT subset.  Layers, layout   *)
(* flags and the selection carry no list state and are left out.  Each    *)
(* method runs to completion on the one layout thread: one atomic step.   *)
(***************************************************************************)
EXTENDS Naturals, Sequences, SequencesExt, FiniteSets

CONSTANTS
    Objects,      \* render objects
    Null,         \* the null pointer
    Texts,        \* isText(): objects that never have children
    Anonymous,    \* isAnonymousBox()
    Flattenable,  \* anonymous blocks removeLeftoverAnonymousBoxes removes
    Replaced,     \* isReplaced(): images and form controls
    Display,      \* style()->display() of each object, by the arm of
                  \* addChild's switch it falls in
    Unallocated   \* the objects `new (renderArena())` hands out later:
                  \* anonymous tables and generated content; bounds them

\* The arms of addChild's switch: "block" stands for every display that
\* breaks out (INLINE ... TABLE_COLUMN, and NONE), "caption" for
\* TABLE_COLUMN_GROUP and TABLE_CAPTION, "rowgroup" for the three
\* row-group displays.  isTable(), isTableSection(), isTableRow() and
\* isTableCell() are the render classes those displays create.
Displays == {"block", "table", "caption", "rowgroup", "row", "cell"}

ASSUME /\ Null \notin Objects
       /\ Texts \subseteq Objects
       /\ Flattenable \subseteq Anonymous /\ Anonymous \subseteq Objects
       /\ Flattenable \cap Texts = {}
       /\ Display \in [Objects -> Displays]
       /\ Unallocated \ Texts \subseteq Anonymous
       /\ \A o \in Unallocated \ Texts : Display[o] \in {"block", "table"}

\* style()->styleType(): generated content carries its pseudo-element's type.
StyleTypes == {"none", "before", "after"}

VARIABLES parent, prev, next, first, last, alive,
          fresh,      \* objects the arena has not handed out yet
          styleType,  \* the styleType of each object's style
          crashed     \* a null pointer was dereferenced

vars == <<parent, prev, next, first, last, alive, fresh, styleType, crashed>>

Ptr == Objects \cup {Null}

\* The pointer fields as one record, for the methods that take several steps.
State == [parent |-> parent, prev |-> prev, next |-> next,
          first |-> first, last |-> last, alive |-> alive, fresh |-> fresh,
          styleType |-> styleType, crashed |-> crashed]

Store(s) ==
    /\ parent' = s.parent /\ prev' = s.prev /\ next' = s.next
    /\ first' = s.first /\ last' = s.last /\ alive' = s.alive
    /\ fresh' = s.fresh /\ styleType' = s.styleType /\ crashed' = s.crashed

\* `new (renderArena())`: hand out o with the given style type.
Allocate(s, o, type) ==
    [s EXCEPT !.fresh = @ \ {o}, !.alive = @ \cup {o}, !.styleType[o] = type]

\* The arena's objects of one display, not yet handed out.
FreshOf(s, d) == {o \in s.fresh \ Texts : Display[o] = d}

\* The objects met following `nxt` from n; at most |Objects| of them, since
\* a corrupted list may be cyclic.
Chain(nxt, n) ==
    LET RECURSIVE Walk(_, _)
        Walk(o, k) == IF o = Null \/ k = 0 THEN <<>> ELSE <<o>> \o Walk(nxt[o], k - 1)
    IN  Walk(n, Cardinality(Objects))

ChainSet(nxt, n) == LET c == Chain(nxt, n) IN {c[i] : i \in DOMAIN c}

\* The objects above o, following parent pointers.
Ancestors(par, o) == ChainSet(par, par[o])

\* An object with everything below it, following the child lists.
Subtree(s, o) ==
    LET RECURSIVE Below(_, _)
        Below(x, k) == {x} \cup IF k = 0 THEN {}
                                ELSE UNION {Below(c, k - 1) : c \in ChainSet(s.next, s.first[x])}
    IN  Below(o, Cardinality(Objects))

(***************************************************************************)
(* The methods, as functions of the pointer state                          *)
(***************************************************************************)
\* appendChildNode: link newChild after m_last.
AppendChild(s, this, newChild) ==
    LET lChild == s.last[this]
    IN  [s EXCEPT !.parent[newChild] = this,
                  !.prev = IF lChild # Null THEN [@ EXCEPT ![newChild] = lChild] ELSE @,
                  !.next = IF lChild # Null THEN [@ EXCEPT ![lChild] = newChild] ELSE @,
                  !.first = IF lChild # Null THEN @ ELSE [@ EXCEPT ![this] = newChild],
                  !.last[this] = newChild]

\* insertChildNode's loop: climb from beforeChild through anonymous boxes
\* until reaching a child of this.
ClimbAnonymous(s, this, beforeChild) ==
    LET RECURSIVE Up(_, _)
        Up(b, k) == IF k > 0 /\ s.parent[b] # this /\ s.parent[b] \in Anonymous
                    THEN Up(s.parent[b], k - 1) ELSE b
    IN  Up(beforeChild, Cardinality(Objects))

\* insertChildNode: link child before beforeChild, or append.
InsertChild(s, this, child, beforeChild) ==
    IF beforeChild = Null THEN AppendChild(s, this, child)
    ELSE LET b == ClimbAnonymous(s, this, beforeChild)
             pv == s.prev[b]
         IN  [s EXCEPT !.first = IF b = s.first[this] THEN [@ EXCEPT ![this] = child] ELSE @,
                       !.next = IF pv # Null THEN [@ EXCEPT ![child] = b, ![pv] = child]
                                ELSE [@ EXCEPT ![child] = b],
                       !.prev = [@ EXCEPT ![b] = child, ![child] = pv],
                       !.parent[child] = this]

\* addChild's switch: does newChild need an anonymous table around it?
NeedsTable(s, this, newChild) ==
    /\ newChild \notin Texts \cup Replaced
    /\ CASE Display[newChild] \in {"caption", "rowgroup"} -> Display[this] # "table"
         []  Display[newChild] = "row" -> Display[this] # "rowgroup"
         []  Display[newChild] = "cell" ->
                 /\ Display[this] # "row"
                 /\ ~(Display[this] = "cell" /\ s.first[this] = Null
                                             /\ Display[newChild] # "cell")
         []  OTHER -> FALSE

\* RenderTable::addChild (not in the tree), for the row groups the model
\* wraps: RenderContainer::addChild on the table, which appends.
TableAddChild(s, table, newChild) == AppendChild(s, table, newChild)

\* Where addChild wraps: beforeChild, or lastChild() when none is given.
InsertionPoint(s, this, beforeChild) ==
    IF beforeChild = Null THEN s.last[this] ELSE beforeChild

IsAnonymousTable(o) == o \in Anonymous /\ Display[o] = "table"

\* Mutant: the new anonymous table appended instead of put before beforeChild.
AddChildTableAppended(s, this, newChild, beforeChild) ==
    LET before == InsertionPoint(s, this, beforeChild)
        table == CHOOSE t \in FreshOf(s, "table") : TRUE
    IN  IF ~NeedsTable(s, this, newChild) THEN InsertChild(s, this, newChild, beforeChild)
        ELSE IF IsAnonymousTable(before)
        THEN TableAddChild(s, before, newChild)
        ELSE TableAddChild(AppendChild(Allocate(s, table, "none"), this, table),
                           table, newChild)

\* addChild: a table part added outside the table object it belongs in is
\* wrapped in an anonymous table, the one just before the insertion point
\* if there is one, else a new one, added to this by addChild(table,
\* beforeChild), that is insertChildNode since its display is TABLE.
\* Without a beforeChild the insertion point is lastChild().
AddChild(s, this, newChild, beforeChild) ==
    LET before == InsertionPoint(s, this, beforeChild)
        table == CHOOSE t \in FreshOf(s, "table") : TRUE
    IN  IF ~NeedsTable(s, this, newChild) THEN InsertChild(s, this, newChild, beforeChild)
        ELSE IF IsAnonymousTable(before)
        THEN TableAddChild(s, before, newChild)
        ELSE TableAddChild(InsertChild(Allocate(s, table, "none"), this, table, before),
                           table, newChild)

\* Mutant: m_last not moved back when the last child is removed.
RemoveChildKeepLast(s, this, oldChild) ==
    LET pv == s.prev[oldChild]
        nx == s.next[oldChild]
    IN  [s EXCEPT !.next = [(IF pv # Null THEN [@ EXCEPT ![pv] = nx] ELSE @)
                              EXCEPT ![oldChild] = Null],
                  !.prev = [(IF nx # Null THEN [@ EXCEPT ![nx] = pv] ELSE @)
                              EXCEPT ![oldChild] = Null],
                  !.first = IF s.first[this] = oldChild THEN [@ EXCEPT ![this] = nx] ELSE @,
                  !.parent[oldChild] = Null]

\* Mutant: oldChild's own next pointer left set.
RemoveChildKeepNext(s, this, oldChild) ==
    LET pv == s.prev[oldChild]
        nx == s.next[oldChild]
    IN  [s EXCEPT !.next = IF pv # Null THEN [@ EXCEPT ![pv] = nx] ELSE @,
                  !.prev = [(IF nx # Null THEN [@ EXCEPT ![nx] = pv] ELSE @)
                              EXCEPT ![oldChild] = Null],
                  !.first = IF s.first[this] = oldChild THEN [@ EXCEPT ![this] = nx] ELSE @,
                  !.last = IF s.last[this] = oldChild THEN [@ EXCEPT ![this] = pv] ELSE @,
                  !.parent[oldChild] = Null]

\* removeChildNode: unlink oldChild and clear its pointers.
RemoveChild(s, this, oldChild) ==
    LET pv == s.prev[oldChild]
        nx == s.next[oldChild]
    IN  [s EXCEPT !.next = [(IF pv # Null THEN [@ EXCEPT ![pv] = nx] ELSE @)
                              EXCEPT ![oldChild] = Null],
                  !.prev = [(IF nx # Null THEN [@ EXCEPT ![nx] = pv] ELSE @)
                              EXCEPT ![oldChild] = Null],
                  !.first = IF s.first[this] = oldChild THEN [@ EXCEPT ![this] = nx] ELSE @,
                  !.last = IF s.last[this] = oldChild THEN [@ EXCEPT ![this] = pv] ELSE @,
                  !.parent[oldChild] = Null]

\* insertChildNode's loop reads beforeChild->parent()->isAnonymousBox()
\* while the parent is not this: it dereferences null when the climb
\* reaches an object outside the tree.
ClimbDerefsNull(s, this, beforeChild) ==
    beforeChild # Null /\ s.parent[ClimbAnonymous(s, this, beforeChild)] = Null

\* updatePseudoChild(type, child), child being firstChild() for :before
\* and lastChild() for :after.  wanted is newContentWanted (a pseudo style
\* whose display is not NONE, less the continuation cases), equivalent is
\* contentDataEquivalent, and hasText says whether the content list holds
\* a text (the model's one kind of content).  Old content of the type is
\* removed when no longer wanted or no longer equivalent; if still
\* present it only gets the new style; else a new anonymous container
\* with the generated text is added before the child (:before) or at the
\* end (:after).
UpdatePseudo(s, this, type, wanted, equivalent, hasText) ==
    LET child == IF type = "before" THEN s.first[this] ELSE s.last[this]
        oldContentPresent == child # Null /\ s.styleType[child] = type
        nuke == oldContentPresent /\ (~wanted \/ ~equivalent)
        s1 == IF nuke THEN RemoveChild(s, this, child) ELSE s
        insertBefore == IF type = "before" THEN child ELSE Null
        box == CHOOSE o \in FreshOf(s1, "block") : TRUE
        text == CHOOSE o \in s1.fresh \cap Texts : TRUE
        withContent == AppendChild(Allocate(Allocate(s1, box, type), text, type), box, text)
    IN  CASE ~wanted \/ (oldContentPresent /\ ~nuke) \/ ~hasText -> s1
          [] ClimbDerefsNull(withContent, this, insertBefore) -> [s1 EXCEPT !.crashed = TRUE]
          [] OTHER -> AddChild(withContent, this, box, insertBefore)

\* Mutant: detach frees `this` without walking its children.
DetachTreeShallow(s, this) ==
    [s EXCEPT !.first[this] = Null, !.last[this] = Null, !.alive = @ \ {this}]

\* detach: every object below `this` loses its parent and its child list
\* and goes back to the arena, `this` included.
DetachTree(s, this) ==
    LET gone == Subtree(s, this)
        clear(f) == [o \in Objects |-> IF o \in gone THEN Null ELSE f[o]]
    IN  [s EXCEPT !.parent = clear(@), !.first = clear(@), !.last = clear(@),
                  !.alive = @ \ gone]

\* One iteration of removeLeftoverAnonymousBoxes on a flattenable child:
\* move its children (if any) into its place in this's list, or unlink it,
\* update m_first and m_last, clear its pointers and detach it.
Unwrap(s, this, child) ==
    LET fa == s.first[child]
        la == s.last[child]
        pv == s.prev[child]
        nx == s.next[child]
        moved == ChainSet(s.next, fa)
        relinked ==
            IF fa # Null
            THEN [s EXCEPT !.parent = [o \in Objects |-> IF o \in moved THEN this ELSE @[o]],
                           !.prev = LET p1 == [@ EXCEPT ![fa] = pv]
                                    IN  IF nx # Null THEN [p1 EXCEPT ![nx] = la] ELSE p1,
                           !.next = LET n1 == [@ EXCEPT ![la] = nx]
                                    IN  IF pv # Null THEN [n1 EXCEPT ![pv] = fa] ELSE n1]
            ELSE [s EXCEPT !.next = IF pv # Null THEN [@ EXCEPT ![pv] = nx] ELSE @,
                           !.prev = IF nx # Null THEN [@ EXCEPT ![nx] = pv] ELSE @]
    IN  [relinked EXCEPT
            !.first = [(IF child = s.first[this] THEN [@ EXCEPT ![this] = fa] ELSE @)
                         EXCEPT ![child] = Null],
            !.last = [(IF child = s.last[this] THEN [@ EXCEPT ![this] = la] ELSE @)
                        EXCEPT ![child] = Null],
            !.parent[child] = Null, !.prev[child] = Null, !.next[child] = Null,
            !.alive = @ \ {child}]

\* removeLeftoverAnonymousBoxes: walk this's children, reading each next
\* pointer before the child is handled, then do the same for the parent.
RECURSIVE RemoveLeftover(_, _, _)
RemoveLeftover(s, this, depth) ==
    LET RECURSIVE Loop(_, _, _)
        Loop(st, child, k) ==
            IF child = Null \/ k = 0 THEN st
            ELSE Loop(IF child \in Flattenable THEN Unwrap(st, this, child) ELSE st,
                      st.next[child], k - 1)
        done == Loop(s, s.first[this], Cardinality(Objects))
    IN  IF done.parent[this] # Null /\ depth > 0
        THEN RemoveLeftover(done, done.parent[this], depth - 1)
        ELSE done

(***************************************************************************)
(* Actions.  Their guards are the KHTMLAsserts of each method and what    *)
(* its callers guarantee: the render tree mirrors the DOM, so an object   *)
(* is never inserted below itself.                                         *)
(***************************************************************************)
Container(o) == o \in alive \ Texts

Insertable(this, child) ==
    /\ Container(this)
    /\ child \in alive
    /\ parent[child] = Null
    /\ child # this /\ child \notin Ancestors(parent, this)

AppendChildNode(this, newChild) ==
    /\ Insertable(this, newChild)
    /\ Store(AppendChild(State, this, newChild))

InsertChildNode(this, child, beforeChild) ==
    /\ Insertable(this, child)
    /\ beforeChild \in alive /\ beforeChild # child
    /\ parent[ClimbAnonymous(State, this, beforeChild)] = this
    /\ Store(InsertChild(State, this, child, beforeChild))

\* addChild, called by the DOM with the renderer of the next DOM sibling
\* (never an anonymous box) or with none.  A new anonymous table needs an
\* object from the arena.
AddChildStep(this, newChild, beforeChild) ==
    /\ Insertable(this, newChild)
    /\ \/ beforeChild = Null
       \/ /\ beforeChild \in alive \ Anonymous /\ beforeChild # newChild
          /\ parent[ClimbAnonymous(State, this, beforeChild)] = this
    /\ NeedsTable(State, this, newChild)
       /\ ~IsAnonymousTable(InsertionPoint(State, this, beforeChild))
       => FreshOf(State, "table") # {}
    /\ Store(AddChild(State, this, newChild, beforeChild))

\* updatePseudoChild on a container that is not itself generated content
\* (the early return); new content needs a container and a text from the
\* arena.
UpdatePseudoChild(this, type, wanted, equivalent, hasText) ==
    /\ Container(this) /\ styleType[this] = "none"
    /\ wanted /\ hasText =>
          /\ FreshOf(State, "block") # {}
          /\ fresh \cap Texts # {}
    /\ Store(UpdatePseudo(State, this, type, wanted, equivalent, hasText))

RemoveChildNode(this, oldChild) ==
    /\ Container(this)
    /\ oldChild \in alive /\ parent[oldChild] = this
    /\ Store(RemoveChild(State, this, oldChild))

Detach(this) ==
    /\ this \in alive /\ parent[this] = Null
    /\ Store(DetachTree(State, this))

RemoveLeftoverAnonymousBoxes(this) ==
    /\ Container(this)
    /\ Store(RemoveLeftover(State, this, Cardinality(Objects)))

Init ==
    /\ parent = [o \in Objects |-> Null]
    /\ prev = [o \in Objects |-> Null]
    /\ next = [o \in Objects |-> Null]
    /\ first = [o \in Objects |-> Null]
    /\ last = [o \in Objects |-> Null]
    /\ alive = Objects \ Unallocated
    /\ fresh = Unallocated
    /\ styleType = [o \in Objects |-> "none"]
    /\ crashed = FALSE

\* Building and pruning the tree.
ListNext ==
    \/ \E this, c \in Objects : AppendChildNode(this, c)
    \/ \E this, c, b \in Objects : InsertChildNode(this, c, b)
    \/ \E this, c \in Objects, b \in Ptr : AddChildStep(this, c, b)
    \/ \E this, c \in Objects : RemoveChildNode(this, c)
    \/ \E this \in Objects : Detach(this)

\* Every method, until the process crashes.
Next ==
    /\ ~crashed
    /\ \/ ListNext
       \/ \E this \in Objects : RemoveLeftoverAnonymousBoxes(this)
       \/ \E this \in Objects, type \in {"before", "after"},
             wanted, equivalent, hasText \in BOOLEAN :
             UpdatePseudoChild(this, type, wanted, equivalent, hasText)

ListSpec == Init /\ [][ListNext]_vars
Spec == Init /\ [][Next]_vars

(***************************************************************************)
(* Properties                                                              *)
(***************************************************************************)
\* A live object's children, in the order firstChild()/nextSibling() give.
Children(o) == IF o \in alive THEN Chain(next, first[o]) ELSE <<>>

\* An object the arena has not handed out yet is, abstractly, a live object
\* outside the tree with no children.
Abstract == INSTANCE ChildLists WITH kids <- [o \in Objects |-> Children(o)],
                                     alive <- alive \cup fresh

(***************************************************************************)
(* The pointer-based lists implement the abstract ordered lists: every    *)
(* appendChildNode, insertChildNode (after climbing out of anonymous      *)
(* boxes), addChild (with its anonymous table), removeChildNode and       *)
(* detach changes the sibling chains exactly as appending or inserting at *)
(* one position, wrapping, taking one child out with the others kept in   *)
(* order, or freeing a parentless subtree would.                          *)
(***************************************************************************)
ChildListRefinement == Abstract!AbsSpec

\* The tree below o in document order: o, then each child's subtree, in a
\* state given by its parent, next and first pointers.
DocumentOrder(ptr, o) ==
    LET RECURSIVE Flat(_, _)
        Flat(x, k) ==
            LET ch == Chain(ptr.next, ptr.first[x])
            IN  <<x>> \o IF k = 0 THEN <<>>
                         ELSE FlattenSeq([i \in DOMAIN ch |-> Flat(ch[i], k - 1)])
    IN  Flat(o, Cardinality(Objects))

\* a comes before b in the document order of b's tree.
Precedes(ptr, a, b) ==
    LET root == IF ptr.parent[b] = Null THEN b
                ELSE CHOOSE r \in Ancestors(ptr.parent, b) : ptr.parent[r] = Null
        d == DocumentOrder(ptr, root)
    IN  \E i, j \in DOMAIN d : i < j /\ d[i] = a /\ d[j] = b

(***************************************************************************)
(* An insertion before a given object lands before it in document order:  *)
(* insertChildNode, after climbing from beforeChild out of anonymous      *)
(* boxes, links the child in front of the box it reached, and addChild    *)
(* puts the anonymous table it wraps a table part in before beforeChild.  *)
(* The refinement allows any position; this is the position the DOM asked *)
(* for.                                                                    *)
(***************************************************************************)
InsertsBeforeSuccessor ==
    [][\A c \in {o \in Objects : parent[o] = Null /\ parent'[o] # Null} :
       \A this, b \in Objects :
          InsertChildNode(this, c, b) \/ AddChildStep(this, c, b) => Precedes([parent |-> parent', next |-> next', first |-> first'], c, b)]_vars

(***************************************************************************)
(* Every live container's list is a proper doubly-linked list of exactly  *)
(* the objects whose parent it is: following next from m_first meets each *)
(* of them once and ends at m_last, and prev mirrors next.  This is what   *)
(* appendChildNode, insertChildNode, removeChildNode and                   *)
(* removeLeftoverAnonymousBoxes must each preserve, in any order.         *)
(***************************************************************************)
ListsWellFormed ==
    \A p \in alive \ Texts :
        LET ch == Chain(next, first[p])
            n == Len(ch)
        IN  /\ {ch[i] : i \in 1 .. n} = {o \in alive : parent[o] = p}
            /\ Cardinality({ch[i] : i \in 1 .. n}) = n
            /\ last[p] = IF n = 0 THEN Null ELSE ch[n]
            /\ n > 0 => next[ch[n]] = Null
            /\ \A i \in 1 .. n : prev[ch[i]] = IF i = 1 THEN Null ELSE ch[i - 1]

(***************************************************************************)
(* No method dereferences a null pointer.  updatePseudoChild removes old   *)
(* :before content that changed and then inserts the new content before   *)
(* `child`, the object it has just removed: insertChildNode's climb then   *)
(* reads the removed object's null parent.                                 *)
(***************************************************************************)
NoNullDereference == ~crashed

(***************************************************************************)
(* No live object points to an object that was returned to the arena: a  *)
(* box removeLeftoverAnonymousBoxes or detach frees is unlinked from its  *)
(* siblings and its parent first.                                          *)
(***************************************************************************)
NoDanglingPointers ==
    \A o \in alive :
        {parent[o], prev[o], next[o], first[o], last[o]} \subseteq alive \cup {Null}
====
