# TLA+ models of WebCore-1

This directory holds TLA+ models of the parts of the repository that have
state worth model checking, the TLC configurations that check them, and the
list of what they found. `PROJECT.json` is the machine-readable index: the
components, the runs, the mutants, the map from every definition to the
source lines it models, the findings and the hazards.

Every module is translated from the code under `src/`. Code the sources call
but that is not in the tree (IntRect, the Tile class, the IntersectionObserver,
the client of the backing store, the WebAnimation classes and the style
resolver) is modelled from its documented behaviour.
Such definitions are marked `spec_modelled` in the map.

## The system and its parts

| Part | Source | State | Interacts with |
|---|---|---|---|
| TiledBackingStore | `platform/graphics/texmap/coordinated/TiledBackingStore.cpp` | tile size, contents scale, alpha flag, pending and current trajectory, `m_visibleRect`, `m_rect`, cover and keep rects, `m_pendingTileCreation`, the tile map | its client (visible and contents rects, flush requests, the pending-creation callback), its Tiles |
| Geometry engine | same file, the const methods | none (pure functions) | used by every store operation |
| Tile | not in `src/` | rect, dirty rect, ready flag | created, resized, invalidated and painted by the store |
| RenderContainer | `khtml/rendering/render_container.cpp` | parent, previous, next, first and last pointers; the render arena | RenderObject (attributes), the DOM (callers) |
| LazyLoadImageObserver | `html/LazyLoadImageObserver.cpp` | the lazily created IntersectionObserver, its targets | IntersectionObserver (entry queue, callback task), HTMLImageElement |
| AnimationTimeline | `animation/AnimationTimeline.cpp` | the timeline's animations, those without target, the animations of each element by kind, CSS animations by name, running and completed transitions by property | the style resolver (style changes), the animation objects (create, cancel, remove, phase) |
| WebGLFramebuffer | `html/canvas/WebGLFramebuffer.cpp` | three attachment flags | the GL context; not modelled |
| QPtrQueue | `kwq/KWQPtrQueue.h` | a wrapped list | a thin wrapper, not modelled |
| JS binding test output, WebCoreViewFactory | generated code, a protocol declaration | none | not modelled |

### TiledBackingStore

The store covers the visible part of a layer's contents with a grid of
tiles. A flush runs `coverWithTilesIfNeeded`. It compares the client's
current visible rect, contents rect and trajectory with those of the last
pass. If any changed, or tiles are still pending, it runs `createTiles`.
That pass does the following, in order:

1. It maps the contents to backing-store space and stores the new geometry.
2. It computes the cover and keep rects.
3. It drops tiles outside the keep rect, and returns early if the cover rect
   is empty.
4. It resizes edge tiles if the contents changed.
5. It creates only the missing cover tiles nearest the viewport, then paints.
6. It sets `m_pendingTileCreation` if more tiles are missing.

The client's `tiledBackingStoreHasPendingTileCreation` callback schedules
another flush, so creation is staged: one distance ring per pass.
`invalidate` marks tiles dirty and `updateTileBuffers` repaints them. The
other operations change the configuration: `setTileSize`,
`setContentsScale`, `setSupportsAlpha`, `setTrajectoryVector` and
`removeAllNonVisibleTiles`.

What is hard here:
- the order of client changes and flushes;
- the staged creation, which must end with the visible area covered;
- the early returns inside `createTiles`;
- integer rounding in the geometry: truncating divisions, `enclosingIntRect`
  and the strict `intersects` at shared edges;
- operations that change part of the state a later comparison reads.

### RenderContainer

A render object's children form a doubly-linked list (`m_first`, `m_last`,
sibling pointers, parent pointer). The list is changed by
`appendChildNode`, `insertChildNode`, `removeChildNode`, `detach` and
`removeLeftoverAnonymousBoxes`. `insertChildNode` first climbs out of
anonymous boxes. `removeLeftoverAnonymousBoxes` splices the children of
anonymous blocks into their place, frees the blocks, and repeats for every
ancestor. Objects are freed into an arena, so a stale pointer is a
use-after-free.

`addChild` is the entry point of the tree builder. A table part (caption,
row group, row, cell) added where its display type does not fit is wrapped
in an anonymous table: the one at the insertion point when there is one,
else a new one from the arena, inserted first and then given the child.
`updatePseudoChild` keeps the `:before`/`:after` generated content in step
with the style: it removes content that is no longer wanted or has changed,
and builds a new anonymous block holding a text, added with `addChild`
before the first child (`:before`) or at the end (`:after`).

### LazyLoadImageObserver

`observe` creates the document's IntersectionObserver on first use and adds
the element. At each rendering update, the observer queues an entry for
every target whose intersection changed. The callback later receives all
queued entries. For each intersecting image entry it loads the deferred
image and unobserves the element.

### AnimationTimeline

The timeline keeps every animation of the document, and for each element
its CSS animations, CSS transitions and script animations. It also keeps
two maps the style handlers use: CSS animations by animation name, and
running and completed transitions by property. On a style change the
resolver calls `updateCSSTransitionsForElement` (when there was a previous
style) and then `updateCSSAnimationsForElement`.

- The animation handler cancels everything when the element gets
  `display: none` and returns early when the animation list is unchanged.
  Otherwise it re-backs the animations whose names the previous style
  listed, creates the new ones, and cancels or removes the names left over.
- The transition handler runs the four steps of CSS Transitions section 3
  for each property: start, forget a completed transition, cancel an
  unmatched one, and replace a running transition whose end value is
  stale (four sub-cases, one of them reversing).

What is hard here:
- sequences of style changes. Each handler trusts that the maps still hold
  what the previous style implies.
- maps keyed by name or property, not by object identity;
- objects that are cancelled but stay registered.

## Modules

| Module | Models | Composes |
|---|---|---|
| `TBSGeometry` | IntRect operations; mapTo/FromContents, tileCoordinateForPoint, tileRectForCoordinate, tileDistance, the trajectory normalization, adjustForContentsRect, computeCoverAndKeepRect | — |
| `TiledBackingStore` | the store: one action per public method, the client's rect changes, the Tile methods | EXTENDS `TBSGeometry` |
| `TBSGeometryCheck` | a harness: one initial state per input of the geometry functions | EXTENDS `TBSGeometry` |
| `RenderContainer` | the child-list methods as functions of the pointer state, and one action per method | INSTANCEs `ChildLists` |
| `ChildLists` | the abstract specification of child lists: an ordered sequence of children per object, insert at a position, take out, destroy a parentless subtree | — |
| `LazyLoadImageObserver` | observe, the callback, and the IntersectionObserver steps it depends on | — |
| `AnimationTimeline` | the timeline's registration methods, the two style-change handlers, the element-level removal and cancel, and the animation objects' lifecycle | — |
| `MC*` | the model values and bounds for TLC | EXTEND the above |

### Correspondence with the code

**TiledBackingStore.**
- One variable per member, and `clientVisible`/`clientContents` for what the
  client returns.
- A tile is a record: its rect, its dirty rect, whether it was painted, and a
  ghost field `stale`. `stale` holds the pixels whose page content changed
  since the tile last painted them.
- `createTiles` and `coverWithTilesIfNeeded` are operators that return the
  fields a pass writes (`CreateTiles`, `CoverWithTilesFrom`), stored by
  `ApplyPass`. This lets `setContentsScale` run the whole pass inside its own
  step, as the code does.
- Scales are exact rationals `<<num, den>>`. Trajectories are normalized to
  units of 1/10000; the inputs are axis-aligned or diagonal.
- Float-to-int conversions truncate (`TruncDiv`).
- `m_coverAreaMultiplier` is an integer constant.
- `coverageRatio` returns a float quotient. It is the pair
  `<<coverArea, rectArea>>` (`CoverageRatio`). `visibleAreaIsCovered`
  compares the quotient with `1.0f`: the areas are small integers, so the
  quotient is 1 exactly when they are equal. When `rectArea` is 0, the
  quotient is `0/0`, which is NaN and never equal.
- `adjustForContentsRect` and `computeCoverAndKeepRect` are split into stage
  operators: `RegainHeight`, `RegainWidth` and `AdjustClipped`, then
  `CoverAndKeepFrom` and `CoverAndKeep`. Each stage takes the previous
  stage's rect as an argument, in the order the code mutates it. An
  intermediate rect is computed once, even when TLC collects coverage
  (which turns off the caching of LET values).

**RenderContainer.**
- The pointers are functions `Objects -> Objects \cup {Null}`, and `alive` is
  the set of objects not yet freed.
- The attributes the code tests (`isText`, `isAnonymousBox`, and the
  flattening condition of line 407) are constant subsets.
- Layers, layout flags and the selection hold no list state and are left out.
- Guards are the `KHTMLAssert`s plus what callers guarantee: the render tree
  mirrors the DOM, so nothing is inserted below itself, and `detach` is called
  on an object already removed from its parent.
- **Refinement.** `ChildLists` states what the methods promise without
  pointers. `RenderContainer` instantiates it, mapping `kids[o]` to the
  chain from `m_first` along `next` (`Children`) for every live object.
  `ChildListRefinement` is that instance's specification, checked as a
  `PROPERTY` of `rc_lists`. Each step must change the sequences exactly as
  one abstract step would. Appending and inserting put the new child at one
  position, with the others kept in order. Removing takes one child out.
  `detach` frees a parentless subtree. A pointer left set, or a splice at
  the wrong place, fails the refinement even when the lists stay
  well-formed on their own. Wrapping a child in a new anonymous table is
  the abstract `Wrap` step: a new box takes the child and goes in its
  place.
- **Allocation.** Objects `addChild` and `updatePseudoChild` create come
  from `fresh` (the constant `Unallocated`), the arena's unused objects. The
  refinement maps them into the abstract `alive`, so their arrival is a
  stuttering step for the live ones.
- **`addChild`.** `NeedsTable` is the switch on `display()` (lines 81–126),
  with each object's display a constant `Display`. `AddChild` reuses the
  anonymous table at the insertion point or wraps the child in a new one.
  `RenderTable::addChild` itself is modelled from its design, for a row
  group, as an append (`TableAddChild`).
- **`updatePseudoChild`.** `styleType` marks generated objects. The style
  comparisons become the inputs `wanted` (lines 218–228), `equivalent`
  (233–236) and `hasText` (whether the content loop makes a text child).
  When the insertion would dereference a null parent, the step sets
  `crashed`, and `Next` stops there.

**AnimationTimeline.**
- The animation objects are a pool `Anims`. An object's kind, target, name
  or property, transition end points, reversing start, progress and phase
  are in `obj`. Objects no map references are free for reuse.
- One variable per member map. A per-element map the code creates with
  `ensure` and tests with `contains` is `NoEntry` when absent.
- Each handler is an operator from a state record to a state record. A
  style change composes them in the resolver's order and stores the
  result in one step. Loops over maps are `FoldSet`; the loop over the
  animation list is `FoldLeft`, in list order.
- A style is a record: `display: none`, the animation-name list, each
  property's value, and its transition-property match (`"none"`, zero or
  positive combined duration).
- A null `RefPtr` dereferenced (lines 238 and 452) sets `crashed`, and
  nothing runs after it.
- A handler that needs a new object when none is free does not run
  (`exhausted`). With four objects this cuts off only long sequences.
- The before-change style is the current style: the unanimated style of a
  running CSS animation of the same property is not modelled.
- Modelled from design: create (`addAnimation`, then
  `animationWasAddedToElement`, then active), cancel (idle), remove
  (`animationWasRemovedFromElement`, then `removeAnimation`), an animation
  ending, a transition moving off its start value, and a transition
  completing. The CSS Transitions specification moves a completing
  transition to the completed map.

**LazyLoadImageObserver.**
- `created`, `targets`, and the per-target state last queued (`previous`,
  -1 after `observe`) are variables, with the queue of entries.
- A ghost counts `loadDeferredImage` calls.
- `unobserve` and `isObserved` are operators (`Unobserve`, `IsObserved`). A
  ghost flag records an `unobserve` whose `ASSERT(isObserved)` fails.

## Runs

| Run | Checks | Result |
|---|---|---|
| `tbs_safety` | `TypeOK`, `StaleTilesAreDirty`, `CoveredMeansPainted` (visibleAreaIsCovered never answers true over an unpainted pixel) over all client calls, flushes and purges | pass |
| `tbs_liveness` | `CoverEventuallyTiled` (once the client stops, the staged passes and repaints give every tile coordinate of the cover rect the current geometry calls for a painted, clean tile, for good) without the two purging calls | pass |
| `tbs_geometry` | `KeepContainsCover` (the two ASSERTs of computeCoverAndKeepRect), `CoverContainsVisibleContents`, `CoverAreaBounded`, `MapRoundTrip` for 131,220 inputs | pass |
| `rc_lists` | `ListsWellFormed`, `NoDanglingPointers`, the refinement `ChildListRefinement` and `InsertsBeforeSuccessor` (what is inserted before an object ends up before it in document order) under append, insert, `addChild` with anonymous tables, remove and detach | pass |
| `lazyload_liveness` | `VisibleImagesLoad` | pass |
| `at_safety` | `TransitionsTrackStyle`, `ByNameTracksStyle`, `PlayingTransitionsTracked` (every playing transition is the one the running map holds) over style changes, script animations, cancels, removal and progress | pass |
| `tbs_tile_rect_stale` | the design's tile invariant `TileRectMatchesCell` | violation |
| `rc_pseudo_null_deref` | `NoNullDereference` in `updatePseudoChild` | violation |
| `tbs_alpha_scale_down` | `StaleTilesAreDirty` with a scale of 1/2 | violation |
| `at_null_deref` | `NoNullDereference` in `updateCSSAnimationsForElement` | violation |
| `rc_lost_siblings` | `ListsWellFormed` with `removeLeftoverAnonymousBoxes` | violation |
| `lazyload_unobserve_twice` | the `ASSERT(isObserved)` of unobserve | violation |

Each property of a passing run has a mutant in `PROJECT.json`: a plausible
bug in the mapped code that TLC shows breaks it.

### Findings

1. **`setSupportsAlpha` invalidates the wrong rect** (line 437). It passes
   `m_rect`, already in backing-store space, to `invalidate`, which scales it
   again. At scale 1/2, tiles outside the half-size dirty rect keep content
   painted in the old alpha mode.
2. **Edge tiles are not resized when the cover rect is empty** (lines
   210–217). `createTiles` stores the new `m_rect`, returns on the empty cover
   rect, and never resizes. After the contents shrink, a tile keeps a rect
   larger than its cell within the contents. After they grow, a tile made
   at the old edge stays narrower than its cell, and that one is visible:
   contents 3x4, trajectory (2,0), viewport (4,0,2,2), contents 4x4,
   viewport (2,2,2,2) leaves tile (1,1) one pixel wide for good. Half the
   viewport stays unpainted and `visibleAreaIsCovered` stays false.
   `MCTileNarrowLiveness.cfg` checks `VisibleEventuallyTiled` (the visible
   cells end up with clean tiles that fill them) with five client events,
   and TLC finds this trace.
3. **Changing `:before` content crashes `updatePseudoChild`** (lines
   233–238, 290, 363). Content that is not equivalent is removed with
   `removeChild(child)`. Then `insertBefore = child`, the object just
   removed, and `addChild` reaches `insertChildNode`, whose loop reads
   `beforeChild->parent()->isAnonymousBox()` with a null parent. TLC
   finds it in two steps: create the content, then change it.
4. **`removeAllNonVisibleTiles` leaves `m_visibleRect` as it was** (lines
   392–396). If the viewport returns to the last covered rect, the dropped
   tiles are never re-created. WebKit calls this method only on a backing
   store being retired, so the liveness run leaves it out and this is listed
   as a hazard, not a run: adding it to `LiveSpec` makes
   `CoverEventuallyTiled` fail.
5. **A display:none round trip crashes `updateCSSAnimationsForElement`**
   (lines 201–251). Going to `display: none` takes the element's whole
   name map. The next style change still reads the hidden style's names as
   current. With a different list, `get(name)->setBackingAnimation` (238)
   or `cancelOrRemoveDeclarativeAnimation(take(name))` (251, then 452)
   dereferences null. With the same list, the early return at 209 leaves
   the element without the animations its style lists.
6. **`removeLeftoverAnonymousBoxes` loses siblings** (lines 429–432). Removing
   an empty anonymous box that is the first or last child sets `m_first` or
   `m_last` to null. The siblings keep their parent pointer, and a later
   `detach` of the container frees it under them: a use-after-free
   (`NoDanglingPointers` fails too when checked with this method).
7. **LazyLoadImageObserver unobserves twice** (line 80). A target reported
   visible, hidden and visible before the callback runs has two intersecting
   entries. It is loaded twice and `ASSERT(isObserved)` fails.

### Observed, not checked by a run

- **`coverageRatio` is NaN for an empty visible area** (line 159). A viewport
  off the contents makes `visibleAreaIsCovered` false forever. No run asks
  that it eventually answer true: finding 2 already keeps it false for good.
- **A stale tile rect is not counted twice.** After finding 2, a tile's rect
  can outgrow its cell, but only beyond `m_rect`. The visible rect is clipped
  to the contents, so `coverageRatio` never counts the extra part, and
  `CoveredMeansPainted` holds. A tile narrower than its cell only makes
  `coverageRatio` smaller.
- **A removed CSS animation stays in its element's map** (line 456). Take a
  CSS animation that is cancelled and then dropped from the style.
  `cancelOrRemoveDeclarativeAnimation` only calls `removeAnimation`. TLC
  reaches, in four steps, an animation that is in
  `m_elementToCSSAnimationsMap` but not in `m_animations`.
- **`setTileSize` does not schedule re-tiling** (lines 51–55). With
  unchanged geometry the visible area stays untiled. `MCTileSizeLiveness.cfg`
  checks `CoverEventuallyTiled` under `TileSizeSpec`, which adds
  `setTileSize`, and TLC finds it violated; `tbs_liveness` leaves it out.
- **`addChild` inserts an anonymous table before the last child** (line
  132). Without a `beforeChild`, the code sets `beforeChild = lastChild()`
  and inserts the new table there, so a table part appended to a container
  lands before the container's last child. TLC reaches it in two steps
  (a block whose only child is an anonymous block gets a row group). It
  shows once `InsertsBeforeSuccessor` is asked of appends too, which the
  run does not do.

## Bounds and why they suffice

**TiledBackingStore.**
- Tiles are 2x2, or 3x3 after `setTileSize`.
- Contents are 4x4, 3x4 (one column of tiles becomes an edge tile) or empty.
- There are three 2x2 viewports: on the contents, straddling four tiles, and
  off the contents.
- Two dirty rects: one inside one tile, one across four tiles.
- Scales are 1 and 2 (1 and 1/2 in the alpha run).
- Trajectories: none, axis-aligned and diagonal.
- The multiplier is 2, and at most 5 client events are allowed (4 in the
  safety runs): five is what the narrow-tile trace of finding 2 needs.

These bounds make every branch of `createTiles` and `adjustForContentsRect`
reachable: an empty `m_rect`, an empty cover, edge resizes, staged creation
over two distance rings, and cover rects clipped on one or two sides. The
runs reach 13,636 (safety) and 25,515 (liveness) distinct states.

**Geometry.** The check enumerates:
- visible rect origins -3..5 by {-2,0,3}, widths 1–3, heights {1,3};
- multipliers 1–3 and 9 trajectory directions;
- two tile sizes and three contents rects, one with an offset origin;
- five scales.

This covers clipping on every side, both branches of adjustForContentsRect,
and rounding in both directions.

**RenderContainer.** Five objects: a block, an anonymous block, a text, a
row group and one unallocated anonymous table. That allows lists of three,
an anonymous box with children in any position, an insert that climbs out
of an anonymous box, and an `addChild` that makes the table and then one
that reuses it. The run reaches 2,974 states; a sixth object gives 47,000
states, and the refinement is then too slow to check. The generated-content
run has a block and two unallocated pairs of an anonymous block and a text,
enough to create content and then replace it.

**LazyLoadImageObserver.** One image and one other element, each observed at
most twice, and a queue of at most three entries. That allows an image to be
visible, hidden and visible again in one batch.

**AnimationTimeline.** One element, one property, two animation names and
four animation objects. The values are 0, 1 and `Auto` (not
interpolable). There are six styles:
- `[A]` at 0, and `[A, B]` at 1, both with a positive transition;
- `[A]` at 1 under `display: none`;
- no animations at `Auto` without a transition;
- `[B]` at 0 with a zero-duration transition;
- `[A, A]` at 0, a name listed twice.

Between them these reach:
- every branch of both handlers, including all four sub-cases of step 4,
  the reversing one among them;
- re-backing, creation and leftover removal of CSS animations;
- both `display: none` branches, and a transition midway or completed.

The run reaches 385,714 distinct states in about 20 seconds. The styles
include `[A, A]`: with it, `PlayingAnimationsTracked` (the same law as
`PlayingTransitionsTracked` for CSS animations and the name map) fails in
one style change, as `MCAnimationDuplicateName.cfg` shows (hazard at line
241). The second `set()` replaces the first CSSAnimation, which keeps
playing and can no longer be cancelled by the style. No run slot is left
for that violation, so it is recorded here.

## Fairness

- **`tbs_liveness`.** `CoverWithTilesIfNeeded` is weakly fair and
  `UpdateTileBuffers` is weakly fair. The client requests a flush on every
  geometry change, invalidation and pending-creation callback, so a pass
  with work to do is not postponed forever. Fairness of
  `CoverWithTilesIfNeeded` is written with its enabledness spelled out
  (`CoverHasWork`), which is equivalent to `WF_vars` and much cheaper for TLC.
  No fairness is assumed for client calls.
- **`at_safety`** checks safety only and assumes no fairness.
- **`lazyload_liveness`.** The observation update and the callback task are
  weakly fair: the rendering loop and the event loop keep running. Scrolling
  is not fair.

## What is not modelled, and the plan

Planned for later work:

- RenderContainer: `RenderTable::addChild` beyond a row group (rows and
  cells wrapped in further anonymous sections), image content in
  `updatePseudoChild`, and the layout flags and `layout()`. The display
  types are constants, so a style change that moves an object between
  table and block is not modelled.
- AnimationTimeline: the unanimated before-change style of a running CSS
  animation, more than one element, and script calls to `remove` on a
  declarative animation (hazard at line 110).
- An abstract specification of the tile cache (tiles are a function of the
  visible rect, eventually) with the store shown to refine it.
- A contents rect with a non-zero origin, for the `Tile::resize` location
  hazard.

Not modelled at all: pixel content (only the ghost set of stale pixels),
integer overflow at 2^31 (out of TLC's reach), the generated binding code, AnimationTimeline's `setCurrentTime` and
`description` (timing and formatting), and WebGLFramebuffer. `setIsAttached`
sets one of three flags chosen by the attachment point, and the rest of
the class calls into the GL context, which is not in the tree.
