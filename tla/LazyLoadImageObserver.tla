----------------------- MODULE LazyLoadImageObserver -----------------------
(***************************************************************************)
(* LazyLoadImageObserver.cpp: a document's lazily created                  *)
(* IntersectionObserver and its callback, which loads the deferred image   *)
(* of every image element reported as intersecting and stops observing    *)
(* it.                                                                     *)
(*                                                                         *)
(* The IntersectionObserver itself is not in the source tree.  It is       *)
(* modelled from its design: observe adds a target (once) whose previous   *)
(* state is unknown; each rendering update queues an entry for every       *)
(* target whose intersection state differs from the one last queued;       *)
(* the callback task later receives the whole queue; unobserve removes a  *)
(* target, and its entries already queued stay queued.                    *)
(***************************************************************************)
EXTENDS Naturals, Sequences, SequencesExt

CONSTANTS
    Elements,     \* elements the document may observe
    Images,       \* those that are HTMLImageElements
    MaxObserve,   \* bound on observe calls per element
    MaxQueue      \* bound on entries waiting for the callback

ASSUME Images \subseteq Elements /\ MaxObserve \in Nat /\ MaxQueue \in Nat

VARIABLES
    created,       \* m_lazyLoadIntersectionObserver is non-null
    targets,       \* the observer's observationTargets
    previous,      \* per target: the intersection state last queued, or -1
    intersecting,  \* each element's current intersection with the viewport
    queue,         \* entries queued for the callback
    loads,         \* loadDeferredImage calls per element
    observeCalls,  \* observe calls per element
    unobservedTwice \* an unobserve whose ASSERT(isObserved) fails

vars == <<created, targets, previous, intersecting, queue, loads,
          observeCalls, unobservedTwice>>

Entry(e) == [target |-> e, isIntersecting |-> intersecting[e]]
State(b) == IF b THEN 1 ELSE 0

(***************************************************************************)
(* Operations                                                              *)
(***************************************************************************)
\* LazyLoadImageObserver::observe, with intersectionObserver(document)
\* creating the observer on first use (its fixed options cannot throw).
Observe(e) ==
    /\ observeCalls[e] < MaxObserve
    /\ observeCalls' = [observeCalls EXCEPT ![e] = @ + 1]
    /\ created' = TRUE
    /\ targets' = targets \cup {e}
    /\ previous' = IF e \in targets THEN previous ELSE [previous EXCEPT ![e] = -1]
    /\ UNCHANGED <<intersecting, queue, loads, unobservedTwice>>

\* The page scrolls or lays out: an element enters or leaves the viewport.
SetIntersecting(e) ==
    /\ intersecting' = [intersecting EXCEPT ![e] = ~@]
    /\ UNCHANGED <<created, targets, previous, queue, loads, observeCalls,
                   unobservedTwice>>

\* IntersectionObserver's update of its observations (design-modelled).
UpdateIntersectionObservations ==
    LET changed == {e \in targets : previous[e] # State(intersecting[e])}
    IN  /\ changed # {}
        /\ Len(queue) + Cardinality(changed) <= MaxQueue
        /\ queue' = queue \o SetToSeq({Entry(e) : e \in changed})
        /\ previous' = [e \in Elements |->
                          IF e \in changed THEN State(intersecting[e]) ELSE previous[e]]
        /\ UNCHANGED <<created, targets, intersecting, loads, observeCalls,
                       unobservedTwice>>

\* LazyLoadImageObserver::isObserved: the observer exists and has the target.
IsObserved(st, e) == st.created /\ e \in st.targets

\* LazyLoadImageObserver::unobserve: ASSERT(isObserved) (a failure is
\* recorded), then the observer drops the target.
Unobserve(st, e) ==
    [st EXCEPT !.unobservedTwice = @ \/ ~IsObserved(st, e),
               !.targets = @ \ {e}]

\* Mutant: the isIntersecting test inverted.
HandleEntryInverted(st, entry) ==
    IF ~entry.isIntersecting /\ entry.target \in Images
    THEN Unobserve([st EXCEPT !.loads[entry.target] = @ + 1], entry.target)
    ELSE st

\* One iteration of handleEvent's loop; loadDeferredImage then unobserve,
\* whose ASSERT(observer.isObserved(element)) is recorded.
HandleEntry(st, entry) ==
    IF entry.isIntersecting /\ entry.target \in Images
    THEN Unobserve([st EXCEPT !.loads[entry.target] = @ + 1], entry.target)
    ELSE st

\* The callback task: handleEvent receives every queued entry.
HandleEvent ==
    LET done == FoldLeft(HandleEntry,
                         [created |-> created, loads |-> loads, targets |-> targets,
                          unobservedTwice |-> unobservedTwice], queue)
    IN  /\ queue # <<>>
        /\ queue' = <<>>
        /\ loads' = done.loads
        /\ targets' = done.targets
        /\ unobservedTwice' = done.unobservedTwice
        /\ UNCHANGED <<created, previous, intersecting, observeCalls>>

Init ==
    /\ created = FALSE
    /\ targets = {}
    /\ previous = [e \in Elements |-> -1]
    /\ intersecting \in [Elements -> BOOLEAN]
    /\ queue = <<>>
    /\ loads = [e \in Elements |-> 0]
    /\ observeCalls = [e \in Elements |-> 0]
    /\ unobservedTwice = FALSE

Next ==
    \/ \E e \in Elements : Observe(e)
    \/ \E e \in Elements : SetIntersecting(e)
    \/ UpdateIntersectionObservations
    \/ HandleEvent

\* Rendering updates and the callback task keep being scheduled while they
\* have work.
Spec == Init /\ [][Next]_vars
        /\ WF_vars(UpdateIntersectionObservations) /\ WF_vars(HandleEvent)

(***************************************************************************)
(* Properties                                                              *)
(***************************************************************************)
(***************************************************************************)
(* handleEvent's ASSERT(observer.isObserved(element)) in unobserve: the   *)
(* callback never unobserves an element it already stopped observing.    *)
(***************************************************************************)
UnobserveOnlyObserved == ~unobservedTwice

(***************************************************************************)
(* An observed image that is in the viewport gets its deferred image      *)
(* loaded: whenever an observed image intersects the viewport, eventually *)
(* its load count grows, or it has left the viewport.  This needs the     *)
(* observer to queue an entry for a target whose state is unknown, and    *)
(* the callback to act on the intersecting entries.                        *)
(***************************************************************************)
VisibleImagesLoad ==
    \A e \in Images, n \in 0 .. MaxObserve * MaxQueue :
        (e \in targets /\ intersecting[e] /\ loads[e] = n)
            ~> (loads[e] > n \/ ~intersecting[e])
====
