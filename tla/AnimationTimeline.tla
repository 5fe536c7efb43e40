------------------------- MODULE AnimationTimeline -------------------------
(***************************************************************************)
(* AnimationTimeline.cpp: the document timeline's bookkeeping of the      *)
(* animations of elements, and the style-change handlers that create,     *)
(* keep or cancel CSS animations (by animation-name) and CSS transitions  *)
(* (by property) as an element's style changes.                            *)
(*                                                                         *)
(* The animation objects are a bounded pool `Anims`; an object's own      *)
(* state (kind, target, name or property, phase, a transition's values)   *)
(* is `obj`.  WebAnimation, CSSAnimation and CSSTransition are not in the *)
(* source tree: their effect on the timeline is modelled from their       *)
(* design.  create registers the object with the timeline (addAnimation)  *)
(* and then with its target (animationWasAddedToElement) and starts it;   *)
(* cancel makes it idle; remove unregisters it from its target and then   *)
(* from the timeline.                                                      *)
(*                                                                         *)
(* A HashMap keyed by element is a function over Elements whose absent    *)
(* keys hold the empty value, except the transition maps, where the code  *)
(* keeps an empty per-element map (ensure) and tests for its presence:    *)
(* there an absent key is NoEntry.                                         *)
(***************************************************************************)
EXTENDS Naturals, Sequences, FiniteSets, SequencesExt

CONSTANTS
    Elements,   \* elements with style
    Anims,      \* the animation objects a run may create
    Names,      \* animation-name values
    NoneName,   \* the name "none"
    Props,      \* animatable longhand properties
    Values,     \* values of a property
    Auto,       \* a value that cannot be interpolated
    Mid,        \* the value of a transition between its end points
    Styles,     \* the RenderStyles an element may get
    NoStyle,    \* no current style yet (currentStyle == nullptr)
    NoAnim,     \* nullptr / an absent map entry
    NoElement,  \* no target
    NoEntry     \* no per-element map in a transition map

Kinds == {"css", "transition", "web"}

(***************************************************************************)
(* A style: display:none or not, its animation-name list, each property's *)
(* value and the transition-property entry that matches it: "none" when   *)
(* none matches, else whether its combined duration is positive.          *)
(***************************************************************************)
HasAnimations(s) == Len(s.anims) > 0
HasTransitions(s) == \E p \in Props : s.transition[p] # "none"
CanBeInterpolated(v, w) == v # Auto /\ w # Auto

VARIABLES
    obj,            \* the animation objects' own state
    animations,     \* m_animations
    withoutTarget,  \* m_animationsWithoutTarget
    byElement,      \* m_elementToCSSAnimationsMap, ...CSSTransitionsMap, ...AnimationsMap
    byName,         \* m_elementToCSSAnimationByName
    running,        \* m_elementToRunningCSSTransitionByCSSPropertyID
    completed,      \* m_elementToCompletedCSSTransitionByCSSPropertyID
    style,          \* each element's current style
    crashed         \* the process dereferenced a null animation

vars == <<obj, animations, withoutTarget, byElement, byName, running,
          completed, style, crashed>>

FreeObject == [kind |-> "free", target |-> NoElement, name |-> NoneName,
               prop |-> NoAnim, from |-> NoAnim, to |-> NoAnim,
               revStart |-> NoAnim, progress |-> "start", phase |-> "idle"]

\* The whole state as a record, so that handlers compose as functions.
State == [obj |-> obj, animations |-> animations, withoutTarget |-> withoutTarget,
          byElement |-> byElement, byName |-> byName, running |-> running,
          completed |-> completed, crashed |-> crashed, exhausted |-> FALSE]

Store(st) ==
    /\ obj' = st.obj
    /\ animations' = st.animations
    /\ withoutTarget' = st.withoutTarget
    /\ byElement' = st.byElement
    /\ byName' = st.byName
    /\ running' = st.running
    /\ completed' = st.completed
    /\ crashed' = st.crashed

Crash(st) == [st EXCEPT !.crashed = TRUE]

TransitionsIn(m) == {m[e][p] : e \in {d \in Elements : m[d] # NoEntry}, p \in Props}

\* Objects the timeline no longer references: their memory may be reused.
Referenced(st) ==
    st.animations \cup UNION {st.byElement[k][e] : k \in Kinds, e \in Elements}
      \cup {st.byName[e][n] : e \in Elements, n \in Names}
      \cup UNION {TransitionsIn(m) : m \in {st.running, st.completed}}
FreeAnims(st) == Anims \ Referenced(st)

(***************************************************************************)
(* Registration                                                            *)
(***************************************************************************)
\* AnimationTimeline::addAnimation.
AddAnimation(st, a) ==
    [st EXCEPT !.withoutTarget = @ \cup {a}, !.animations = @ \cup {a}]

\* AnimationTimeline::removeAnimation.
RemoveAnimation(st, a) ==
    [st EXCEPT !.withoutTarget = @ \ {a}, !.animations = @ \ {a}]

\* relevantMapForAnimation: the byElement map of the object's kind.
RelevantMap(st, a) == st.obj[a].kind

\* AnimationTimeline::animationWasAddedToElement.
AnimationWasAddedToElement(st, a, e) ==
    [st EXCEPT !.withoutTarget = @ \ {a},
               !.byElement[RelevantMap(st, a)][e] = @ \cup {a}]

\* removeCSSTransitionFromMap: TRUE when the element has a map, from which
\* the entry of the transition's property is removed, whatever it holds.
HasMap(m, e) == m[e] # NoEntry
WithoutProperty(m, e, p) ==
    IF \A q \in Props \ {p} : m[e][q] = NoAnim
    THEN [m EXCEPT ![e] = NoEntry]
    ELSE [m EXCEPT ![e][p] = NoAnim]

\* The declarative half of animationWasRemovedFromElement.
ForgetDeclarative(st, a, e) ==
    LET o == st.obj[a]
    IN  CASE o.kind = "css" -> [st EXCEPT !.byName[e][o.name] = NoAnim]
          [] o.kind = "transition" /\ HasMap(st.running, e) ->
               [st EXCEPT !.running = WithoutProperty(@, e, o.prop)]
          [] o.kind = "transition" /\ HasMap(st.completed, e) ->
               [st EXCEPT !.completed = WithoutProperty(@, e, o.prop)]
          [] OTHER -> st

\* AnimationTimeline::animationWasRemovedFromElement.
AnimationWasRemovedFromElement(st, a, e) ==
    LET s1 == [st EXCEPT !.withoutTarget = @ \cup {a}]
    IN  IF st.byElement[RelevantMap(st, a)][e] = {}
        THEN s1
        ELSE ForgetDeclarative([s1 EXCEPT !.byElement[RelevantMap(st, a)][e] = @ \ {a}],
                               a, e)

(***************************************************************************)
(* The animation objects (design-modelled)                                 *)
(***************************************************************************)
\* CSSAnimation::create / CSSTransition::create / Element::animate: the new
\* object joins the timeline, then its target, and starts playing.
CreateAs(st, a, rec, e) ==
    AnimationWasAddedToElement(AddAnimation([st EXCEPT !.obj[a] = rec], a), a, e)

\* WebAnimation::cancel: the animation becomes idle.
WebAnimationCancel(st, a) == [st EXCEPT !.obj[a].phase = "idle"]

\* WebAnimation::remove: off its target, then off the timeline.
WebAnimationRemove(st, a) ==
    LET e == st.obj[a].target
        s1 == RemoveAnimation(IF e = NoElement THEN st
                              ELSE AnimationWasRemovedFromElement(st, a, e), a)
    IN  [s1 EXCEPT !.obj[a].target = NoElement, !.obj[a].phase = "idle"]

\* AnimationTimeline::cancelOrRemoveDeclarativeAnimation; a null argument
\* is dereferenced.
CancelOrRemoveDeclarativeAnimation(st, a) ==
    CASE a = NoAnim -> Crash(st)
      [] st.obj[a].phase \notin {"idle", "after"} -> WebAnimationCancel(st, a)
      [] OTHER -> RemoveAnimation(st, a)

CancelOrRemoveAll(st, as) ==
    FoldSet(LAMBDA a, s : CancelOrRemoveDeclarativeAnimation(s, a), st, as)

\* The object a new animation takes: a free one.  With none left the
\* handler cannot run in this bounded model (exhausted).
NewObject(st) == CHOOSE a \in FreeAnims(st) : TRUE
Exhausted(st) == [st EXCEPT !.exhausted = TRUE]

(***************************************************************************)
(* CSS animations                                                          *)
(***************************************************************************)
\* The names of a style's valid animations other than "none".
NamesOfAnimations(s) == {s.anims[i] : i \in DOMAIN s.anims} \ {NoneName}

CSSAnimationRecord(e, n) ==
    [FreeObject EXCEPT !.kind = "css", !.target = e, !.name = n, !.phase = "active"]

\* cssAnimationsByName.set(name, CSSAnimation::create(...)).
CreateCSSAnimationAs(st, e, n, a) ==
    [CreateAs(st, a, CSSAnimationRecord(e, n), e) EXCEPT !.byName[e][n] = a]
CreateCSSAnimation(st, e, n) ==
    IF FreeAnims(st) = {} THEN Exhausted(st)
    ELSE CreateCSSAnimationAs(st, e, n, NewObject(st))

\* One iteration of the loop over the after-change animation list: an
\* animation whose name the previous style had gets its new backing
\* animation (the map entry is dereferenced); a new valid name gets a new
\* CSSAnimation.
UpdateCSSAnimationStep(acc, name, e) ==
    CASE acc.st.crashed \/ acc.st.exhausted -> acc
      [] name \in acc.names ->
           IF acc.st.byName[e][name] = NoAnim
           THEN [acc EXCEPT !.st = Crash(@)]
           ELSE [acc EXCEPT !.names = @ \ {name}]
      [] name # NoneName ->
           [acc EXCEPT !.st = CreateCSSAnimation(@, e, name)]
      [] OTHER -> acc

\* Mutant: get() in place of take(); the name stays in the map.
RemoveLeftoverAnimationGet(name, st, e) ==
    IF st.crashed THEN st
    ELSE CancelOrRemoveDeclarativeAnimation(st, st.byName[e][name])

\* cancelOrRemoveDeclarativeAnimation(cssAnimationsByName.take(name)).
RemoveLeftoverAnimation(name, st, e) ==
    IF st.crashed THEN st
    ELSE CancelOrRemoveDeclarativeAnimation([st EXCEPT !.byName[e][name] = NoAnim],
                                            st.byName[e][name])

\* The loop and the removal of the names left over, from the names of the
\* previous style.
ReconcileCSSAnimations(st, e, previous, after) ==
    LET done == FoldLeft(LAMBDA acc, n : UpdateCSSAnimationStep(acc, n, e),
                         [st |-> st, names |-> previous], after.anims)
    IN  FoldSet(LAMBDA n, s : RemoveLeftoverAnimation(n, s, e), done.st, done.names)

\* AnimationTimeline::updateCSSAnimationsForElement.
UpdateCSSAnimationsForElement(st, e, cur, after) ==
    LET had == cur # NoStyle /\ HasAnimations(cur)
    IN  CASE had /\ ~cur.displayNone /\ after.displayNone ->
               CancelOrRemoveAll([st EXCEPT !.byName[e] = [n \in Names |-> NoAnim]],
                                 {st.byName[e][n] : n \in Names} \ {NoAnim})
          [] had /\ HasAnimations(after) /\ cur.anims = after.anims -> st
          [] OTHER ->
               ReconcileCSSAnimations(st, e, IF had THEN NamesOfAnimations(cur) ELSE {},
                                      after)

(***************************************************************************)
(* CSS transitions                                                         *)
(***************************************************************************)
EmptyEntry == [p \in Props |-> NoAnim]

CSSTransitionRecord(e, p, from, to, revStart) ==
    [FreeObject EXCEPT !.kind = "transition", !.target = e, !.prop = p,
                       !.from = from, !.to = to, !.revStart = revStart,
                       !.phase = "active"]

\* runningTransitionsByProperty.set(property, CSSTransition::create(...)).
StartTransitionAs(st, e, p, rec, a) ==
    [CreateAs(st, a, rec, e) EXCEPT !.running[e][p] = a]
StartTransition(st, e, p, rec) ==
    IF FreeAnims(st) = {} THEN Exhausted(st)
    ELSE StartTransitionAs(st, e, p, rec, NewObject(st))

\* propertyInStyleMatchesValueForTransitionInMap: the map's transition for
\* the property ends at the after-change value.
MatchesTransitionIn(st, m, e, p, v) == m[e][p] # NoAnim /\ st.obj[m[e][p]].to = v

\* A running transition's current value (currentStyle()).
CurrentValue(o) == IF o.progress = "start" THEN o.from ELSE Mid

\* Steps 1 and 2 of the loop: start a transition, or forget a completed
\* one whose end value differs from the after-change value.
StartOrForgetTransition(st, e, p, before, after) ==
    LET to == after.value[p]
        endsAtTo == MatchesTransitionIn(st, st.completed, e, p, to)
    IN  CASE /\ st.running[e][p] = NoAnim
             /\ before # to /\ CanBeInterpolated(before, to)
             /\ ~endsAtTo /\ after.transition[p] = "positive" ->
               StartTransition([st EXCEPT !.completed[e][p] = NoAnim], e, p,
                               CSSTransitionRecord(e, p, before, to, before))
          [] st.completed[e][p] # NoAnim /\ ~endsAtTo ->
               [st EXCEPT !.completed[e][p] = NoAnim]
          [] OTHER -> st

\* Step 3: no matching transition-property value any more.
DropUnmatchedTransition(st, e, p, after) ==
    CASE after.transition[p] # "none" -> st
      [] st.running[e][p] # NoAnim ->
           WebAnimationCancel([st EXCEPT !.running[e][p] = NoAnim], st.running[e][p])
      [] st.completed[e][p] # NoAnim -> [st EXCEPT !.completed[e][p] = NoAnim]
      [] OTHER -> st

\* Step 4's four cases, once the previous transition `old` has been taken
\* out of the map and cancelled (every case cancels it).
ReplaceTransition(st, e, p, before, after, old) ==
    LET to == after.value[p]
    IN  CASE CurrentValue(old) = to \/ ~CanBeInterpolated(before, to) -> st
          [] after.transition[p] = "zero" \/ ~CanBeInterpolated(CurrentValue(old), to) -> st
          [] old.revStart = to ->
               StartTransition(st, e, p, CSSTransitionRecord(e, p, CurrentValue(old), to, old.to))
          [] OTHER ->
               StartTransition(st, e, p, CSSTransitionRecord(e, p, CurrentValue(old), to, before))

\* Mutant: the previous transition is taken out of the map but not cancelled.
ReplaceRunningTransitionNoCancel(st, e, p, before, after) ==
    IF \/ after.transition[p] = "none"
       \/ st.running[e][p] = NoAnim
       \/ st.obj[st.running[e][p]].to = after.value[p]
    THEN st
    ELSE ReplaceTransition([st EXCEPT !.running[e][p] = NoAnim],
                           e, p, before, after, st.obj[st.running[e][p]])

\* Step 4: a running transition whose end value is not the after-change value.
ReplaceRunningTransition(st, e, p, before, after) ==
    IF \/ after.transition[p] = "none"
       \/ st.running[e][p] = NoAnim
       \/ st.obj[st.running[e][p]].to = after.value[p]
    THEN st
    ELSE ReplaceTransition(WebAnimationCancel([st EXCEPT !.running[e][p] = NoAnim],
                                              st.running[e][p]),
                           e, p, before, after, st.obj[st.running[e][p]])

\* Mutant: the loop without step 4.
UpdateTransitionForPropertyNoStep4(st, e, p, before, after) ==
    IF st.exhausted THEN st
    ELSE DropUnmatchedTransition(StartOrForgetTransition(st, e, p, before, after),
                                 e, p, after)

\* One iteration of the loop over the properties.
UpdateTransitionForProperty(st, e, p, before, after) ==
    IF st.exhausted THEN st
    ELSE ReplaceRunningTransition(
           DropUnmatchedTransition(StartOrForgetTransition(st, e, p, before, after),
                                   e, p, after),
           e, p, before, after)

\* ensure() of the element's running and completed maps.
EnsureTransitionMaps(st, e) ==
    [st EXCEPT !.running[e] = IF @ = NoEntry THEN EmptyEntry ELSE @,
               !.completed[e] = IF @ = NoEntry THEN EmptyEntry ELSE @]

\* AnimationTimeline::updateCSSTransitionsForElement.
UpdateCSSTransitionsForElement(st, e, cur, after) ==
    IF HasTransitions(cur) /\ ~cur.displayNone /\ after.displayNone
    THEN IF HasMap(st.running, e)
         THEN CancelOrRemoveAll([st EXCEPT !.running[e] = NoEntry],
                                {st.running[e][p] : p \in Props} \ {NoAnim})
         ELSE st
    ELSE FoldSet(LAMBDA p, s : UpdateTransitionForProperty(s, e, p, cur.value[p], after),
                 EnsureTransitionMaps(st, e), Props)

(***************************************************************************)
(* Handlers called from outside                                            *)
(***************************************************************************)
\* AnimationTimeline::animationsForElement, as a set.
AnimationsForElement(st, e) == UNION {st.byElement[k][e] : k \in Kinds}

\* AnimationTimeline::removeAnimationsForElement.
RemoveAnimationsForElement(st, e) ==
    FoldSet(LAMBDA a, s : WebAnimationRemove(s, a), st, AnimationsForElement(st, e))

\* AnimationTimeline::cancelDeclarativeAnimationsForElement.
CancelDeclarativeAnimationsForElement(st, e) ==
    FoldSet(LAMBDA a, s : WebAnimationCancel(s, a), st,
            st.byElement["transition"][e] \cup st.byElement["css"][e])

(***************************************************************************)
(* Actions                                                                 *)
(***************************************************************************)
\* The outcome of a style change: a crash stops the process where it is.
ApplyStyle(st, e, s) ==
    /\ ~st.exhausted
    /\ IF st.crashed
       THEN crashed' = TRUE /\ UNCHANGED <<obj, animations, withoutTarget, byElement,
                                           byName, running, completed, style>>
       ELSE Store(st) /\ style' = [style EXCEPT ![e] = s]

\* A style change event (Style::TreeResolver, design-modelled): the
\* element's transitions, when it had a style, then its CSS animations.
StyleChange(e, s) ==
    LET cur == style[e]
    IN  ~crashed /\ ApplyStyle(UpdateCSSAnimationsForElement(
                     IF cur = NoStyle THEN State
                     ELSE UpdateCSSTransitionsForElement(State, e, cur, s),
                     e, cur, s), e, s)

\* Element::animate (design-modelled): a script animation of e.
Animate(e) ==
    /\ ~crashed
    /\ FreeAnims(State) # {}
    /\ Store(CreateAs(State, NewObject(State),
                      [FreeObject EXCEPT !.kind = "web", !.target = e, !.phase = "active"], e))
    /\ UNCHANGED style

\* The element leaves the document: its animations are removed and its
\* style is discarded.
RemoveElement(e) ==
    /\ ~crashed
    /\ Store(RemoveAnimationsForElement(State, e))
    /\ style' = [style EXCEPT ![e] = NoStyle]

CancelDeclarative(e) ==
    /\ ~crashed
    /\ Store(CancelDeclarativeAnimationsForElement(State, e))
    /\ UNCHANGED style

\* An animation's active interval ends.
FinishAnimation(a) ==
    /\ ~crashed
    /\ obj[a].kind \in {"css", "web"} /\ obj[a].phase = "active"
    /\ obj' = [obj EXCEPT ![a].phase = "after"]
    /\ UNCHANGED <<animations, withoutTarget, byElement, byName, running,
                   completed, style, crashed>>

\* A running transition moves away from its start value.
AdvanceTransition(a) ==
    /\ ~crashed
    /\ obj[a].kind = "transition" /\ obj[a].phase = "active"
    /\ obj[a].progress = "start" /\ obj[a].from # obj[a].to
    /\ obj' = [obj EXCEPT ![a].progress = "mid"]
    /\ UNCHANGED <<animations, withoutTarget, byElement, byName, running,
                   completed, style, crashed>>

\* A running transition ends: it moves from the running to the completed
\* map (CSS Transitions, "completed transitions"; design-modelled).
TransitionDidComplete(e, p) ==
    /\ ~crashed
    /\ HasMap(running, e) /\ running[e][p] # NoAnim
    /\ obj[running[e][p]].phase = "active"
    /\ obj' = [obj EXCEPT ![running[e][p]].phase = "after"]
    /\ running' = WithoutProperty(running, e, p)
    /\ completed' = [completed EXCEPT ![e] = [IF @ = NoEntry THEN EmptyEntry ELSE @
                                                EXCEPT ![p] = running[e][p]]]
    /\ UNCHANGED <<animations, withoutTarget, byElement, byName, style, crashed>>

Init ==
    /\ obj = [a \in Anims |-> FreeObject]
    /\ animations = {}
    /\ withoutTarget = {}
    /\ byElement = [k \in Kinds |-> [e \in Elements |-> {}]]
    /\ byName = [e \in Elements |-> [n \in Names |-> NoAnim]]
    /\ running = [e \in Elements |-> NoEntry]
    /\ completed = [e \in Elements |-> NoEntry]
    /\ style = [e \in Elements |-> NoStyle]
    /\ crashed = FALSE

\* After a crash nothing runs: every action requires ~crashed.
Next ==
    \/ \E e \in Elements, s \in Styles : StyleChange(e, s)
    \/ \E e \in Elements : Animate(e)
    \/ \E e \in Elements : RemoveElement(e)
    \/ \E e \in Elements : CancelDeclarative(e)
    \/ \E a \in Anims : FinishAnimation(a)
    \/ \E a \in Anims : AdvanceTransition(a)
    \/ \E e \in Elements, p \in Props : TransitionDidComplete(e, p)

Spec == Init /\ [][Next]_vars

(***************************************************************************)
(* Properties                                                              *)
(***************************************************************************)
(***************************************************************************)
(* A running transition always ends at the element's current value of its *)
(* property: after every style change, the four steps of                  *)
(* updateCSSTransitionsForElement leave in the running map only a         *)
(* transition towards the after-change value, whatever the transition was *)
(* doing (at its start, midway, reversed, cancelled by script).           *)
(***************************************************************************)
TransitionsTrackStyle ==
    \A e \in Elements, p \in Props :
        HasMap(running, e) /\ running[e][p] # NoAnim =>
            /\ obj[running[e][p]].kind = "transition"
            /\ obj[running[e][p]].prop = p
            /\ obj[running[e][p]].to = style[e].value[p]

(***************************************************************************)
(* The animation-name map only holds names the element's style still      *)
(* lists, each mapped to a CSSAnimation of that name registered with the  *)
(* element: display:none, the leftover-name removal and the element's     *)
(* removal all keep m_elementToCSSAnimationByName in step with the style  *)
(* and with m_elementToCSSAnimationsMap.                                   *)
(***************************************************************************)
ByNameTracksStyle ==
    \A e \in Elements, n \in Names :
        byName[e][n] # NoAnim =>
            /\ style[e] # NoStyle /\ n \in NamesOfAnimations(style[e])
            /\ obj[byName[e][n]].name = n
            /\ byName[e][n] \in byElement["css"][e]

(***************************************************************************)
(* Every CSS transition that is still playing can be reached by the next  *)
(* style change: it is the one the running-transition map holds for its   *)
(* element and property.  Steps 3 and 4 of                                 *)
(* updateCSSTransitionsForElement, display:none and the completion of a   *)
(* transition each take a transition out of that map; a transition taken  *)
(* out while still playing would run on, never cancelled or replaced by   *)
(* the style.                                                              *)
(***************************************************************************)
PlayingTransitionsTracked ==
    \A a \in Anims :
        obj[a].phase = "active" /\ obj[a].kind = "transition" =>
            /\ HasMap(running, obj[a].target)
            /\ running[obj[a].target][obj[a].prop] = a

(***************************************************************************)
(* The same for CSS animations and the animation-name map.  No run         *)
(* asserts it: a style listing one name twice breaks it (see               *)
(* MCAnimationDuplicateName.cfg).                                          *)
(***************************************************************************)
PlayingAnimationsTracked ==
    \A a \in Anims :
        obj[a].phase = "active" /\ obj[a].kind = "css" =>
            byName[obj[a].target][obj[a].name] = a

(***************************************************************************)
(* updateCSSAnimationsForElement never dereferences a missing animation:  *)
(* a name the previous style lists always has its CSSAnimation in the     *)
(* animation-name map when the loop calls setBackingAnimation on it, or   *)
(* cancelOrRemoveDeclarativeAnimation on what take() returns.             *)
(***************************************************************************)
NoNullDereference == ~crashed

====
