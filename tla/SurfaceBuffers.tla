--------------------------- MODULE SurfaceBuffers ---------------------------
(***************************************************************************)
(* Who holds which wl_buffer: surfaces, their pool of SurfaceBuffers, the  *)
(* views that show them and the texture providers that draw them.          *)
(*                                                                         *)
(* A client hands a wl_buffer over with attach + commit.  The surface wraps *)
(* it in a SurfaceBuffer taken from its pool, and QWaylandBufferRef objects *)
(* (the surface's own, two per view, one per texture provider) count       *)
(* references to that SurfaceBuffer.  When the last one lets go the buffer  *)
(* is given back with wl_buffer.release and the SurfaceBuffer returns to   *)
(* the pool.                                                               *)
(*                                                                         *)
(* SurfaceBuffer::m_refCount is not a variable here: a count is non-zero   *)
(* exactly when some QWaylandBufferRef points to the SurfaceBuffer, so the *)
(* holders themselves are the state.  Module SurfaceBufferCounts keeps the *)
(* counters and is checked to implement this one.                          *)
(***************************************************************************)
EXTENDS Naturals

CONSTANTS Surfaces,      \* wl_surface objects
          Views,         \* QWaylandView objects, each with its QWaylandQuickItem
          Buffers,       \* wl_buffer resources
          MaxPool,       \* bound on QWaylandSurfacePrivate::bufferPool
          Lockable,      \* the views whose bufferLocked the shell uses
          Discarding,    \* the views whose discardFrontBuffers it uses
          Hideable,      \* the views whose paintEnabled it uses
          ClientReuses,  \* may a client commit a wl_buffer it has not got back?
          None

\* A SurfaceBuffer is named by its surface and its position in the bufferPool.
Slots == Surfaces \X (1..MaxPool)

ASSUME MaxPoolAssumption == MaxPool \in Nat \ {0}
ASSUME ViewAssumption ==
  Lockable \subseteq Views /\ Discarding \subseteq Views /\ Hideable \subseteq Views
ASSUME ReuseAssumption == ClientReuses \in BOOLEAN
ASSUME NoneAssumption == None \notin Surfaces \cup Buffers \cup Slots

VARIABLES
  live,         \* surfaces whose wl_surface exists
  pending,      \* pending.buffer of each surface
  bufferRef,    \* buffer and bufferRef of each surface
  mapped,       \* surfaces with mapped = true
  pool,         \* SurfaceBuffers that have been created and not deleted
  registered,   \* those with m_is_registered_for_buffer
  content,      \* their m_buffer
  committed,    \* those with m_committed
  viewSurface,  \* the surface each view shows
  ahead,        \* <<v, w>>: v precedes w in the views list of their surface
  next,         \* nextBuffer of each view
  current,      \* currentBuffer of each view
  provider,     \* m_ref of the texture provider of each view's item
  locked,       \* views with bufferLocked
  discard,      \* views with discardFrontBuffers
  hidden,       \* views whose item has paintEnabled = false
  force,        \* views with forceAdvanceSucceed
  stale,        \* items with newTexture set, or without a scene graph node
  resources,    \* wl_buffers that exist
  owned         \* wl_buffers the client may write: never committed, or released

surfaceVars == <<live, pending, bufferRef, mapped>>
slotVars    == <<pool, registered, content, committed>>
viewVars    == <<viewSurface, ahead, next, current, provider,
                 locked, discard, hidden, force, stale>>
clientVars  == <<resources, owned>>
vars        == <<surfaceVars, slotVars, viewVars, clientVars>>

Of(x) == x[1]

ViewsOf(s) == {v \in Views : viewSurface[v] = s}

\* The SurfaceBuffers with m_refCount > 0.
Held == ({bufferRef[s] : s \in Surfaces} \cup {next[v] : v \in Views}
         \cup {current[v] : v \in Views} \cup {provider[v] : v \in Views})
        \ {None}

\* m_destroyIfUnused is set when the surface dies.
DestroyIfUnused(x) == Of(x) \notin live

\* (Mutant) Nothing is released once the surface is gone.
ReleasedByLiving(X) ==
  {content[x] : x \in {y \in X \cap committed : Of(y) \in live'}} \ {None}

\* wl_buffers that destructBufferState() of the SurfaceBuffers X releases.
ReleasedBy(X) == {content[x] : x \in X \cap committed} \ {None}

\* (Mutant) The surface alone decides: views and providers do not count.
UnusedBySurface ==
  {x \in pool : /\ \A s \in Surfaces : x # bufferRef'[s]
                /\ x \in Held \/ DestroyIfUnused(x)'}

\* The SurfaceBuffers a step disowns: those it takes the last reference
\* from, and the unreferenced ones of a surface that is going away.
Unused == {x \in pool \ Held' : x \in Held \/ DestroyIfUnused(x)'}

(***************************************************************************)
(* deref(), disown(), destructBufferState() and destroyIfUnused() for all  *)
(* SurfaceBuffers the step leaves unused.  The step has already given the  *)
(* holders their new values.  handed is the SurfaceBuffer the same step    *)
(* marks committed, if any.                                                *)
(***************************************************************************)
DisownUnused(handed) ==
  /\ registered' = registered \ Unused
  /\ content' = [x \in Slots |-> IF x \in Unused THEN None ELSE content[x]]
  /\ committed' = (committed \ Unused) \cup handed
  /\ pool' = pool \ {x \in Unused : DestroyIfUnused(x)'}
  /\ owned' = (owned \ {content[x] : x \in handed}) \cup ReleasedBy(Unused)

-----------------------------------------------------------------------------
(* Requests of the client *)

CreateSurface(s) ==
  /\ s \notin live
  /\ \A x \in pool : Of(x) # s       \* the identifier is free again
  /\ live' = live \cup {s}
  /\ UNCHANGED <<pending, bufferRef, mapped, slotVars, viewVars, clientVars>>

CreateBuffer(b) ==
  /\ b \notin resources
  /\ resources' = resources \cup {b}
  /\ owned' = owned \cup {b}
  /\ UNCHANGED <<surfaceVars, slotVars, viewVars>>

\* The destroy listener of every SurfaceBuffer registered for b runs.
DestroyBuffer(b) ==
  /\ b \in resources
  /\ resources' = resources \ {b}
  /\ owned' = owned \ {b}
  /\ content' = [x \in Slots |-> IF content[x] = b THEN None ELSE content[x]]
  /\ UNCHANGED <<surfaceVars, pool, registered, committed, viewVars>>

\* (Mutant) createSurfaceBuffer() does not ask isRegisteredWithBuffer().
AnySlots(s) == {x \in Slots : Of(x) = s}

\* Pool entries createSurfaceBuffer() may take for s once the pending one is
\* disowned.  Positions that were never used follow those that were.
FreeSlots(s) ==
  {x \in Slots : Of(x) = s /\ (x \notin registered \/ x = pending[s])}

\* surface_attach(): b is None for a NULL wl_buffer.
AttachBuffer(s, b) ==
  /\ s \in live
  /\ \E x \in FreeSlots(s) :
       /\ \A y \in FreeSlots(s) : x[2] <= y[2]
       /\ pool' = pool \cup {x}
       /\ registered' = (registered \ {pending[s]}) \cup {x}
       /\ content' = [y \in Slots |-> IF y = x THEN b
                                      ELSE IF y = pending[s] THEN None
                                      ELSE content[y]]
       /\ pending' = [pending EXCEPT ![s] = x]
  /\ committed' = committed \ {pending[s]}
  /\ owned' = owned \cup ReleasedBy({pending[s]})
  /\ UNCHANGED <<live, bufferRef, mapped, viewVars, resources>>

\* surface_commit() with a buffer attached since the last commit: every view
\* gets it as its next buffer.  (Without one, setCommitted() finds the buffer
\* committed already and none of this state changes.)
CommitBuffer(s) ==
  LET x == pending[s] IN
  /\ s \in live
  /\ x # None
  /\ ClientReuses \/ content[x] \in owned \cup {None}
  /\ pending' = [pending EXCEPT ![s] = None]
  /\ bufferRef' = [bufferRef EXCEPT ![s] = x]
  /\ next' = [v \in Views |-> IF v \in ViewsOf(s) THEN x ELSE next[v]]
  /\ mapped' = IF content[x] # None THEN mapped \cup {s} ELSE mapped \ {s}
  /\ UNCHANGED <<live, viewSurface, ahead, current, provider, locked, discard,
                 hidden, force, stale, resources>>
  /\ DisownUnused({x})

\* (Mutant) The views are not told that the surface is going away.
DestroySurfaceSilently(s) ==
  /\ s \in live
  /\ live' = live \ {s}
  /\ pending' = [pending EXCEPT ![s] = None]
  /\ bufferRef' = [bufferRef EXCEPT ![s] = None]
  /\ mapped' = mapped \ {s}
  /\ UNCHANGED <<viewVars, resources>>
  /\ DisownUnused({})

\* surface_destroy_resource(): each view drops the surface, the reference
\* count of the surface reaches zero and it is deleted.
DestroySurface(s) ==
  /\ s \in live
  /\ live' = live \ {s}
  /\ pending' = [pending EXCEPT ![s] = None]
  /\ bufferRef' = [bufferRef EXCEPT ![s] = None]
  /\ mapped' = mapped \ {s}
  /\ viewSurface' = [v \in Views |-> IF v \in ViewsOf(s) THEN None
                                     ELSE viewSurface[v]]
  /\ ahead' = {p \in ahead : p[1] \notin ViewsOf(s)}
  /\ next' = [v \in Views |-> IF v \in ViewsOf(s) THEN None ELSE next[v]]
  /\ current' = [v \in Views |-> IF v \in ViewsOf(s) \ locked THEN None
                                 ELSE current[v]]
  /\ UNCHANGED <<provider, locked, discard, hidden, force, stale, resources>>
  /\ DisownUnused({})

-----------------------------------------------------------------------------
(* Operations of the compositor on its views *)

Without(v) == {p \in ahead : v \notin {p[1], p[2]}}

\* views.first()
Throttles(v) == /\ viewSurface[v] # None
                /\ \A w \in ViewsOf(viewSurface[v]) : <<w, v>> \notin ahead

\* What setSurface() does apart from the position of v in the views list.
Show(v, s) ==
  /\ viewSurface' = [viewSurface EXCEPT ![v] = s]
  /\ current' = [current EXCEPT ![v] = IF v \in locked THEN @ ELSE None]
  /\ next' = [next EXCEPT ![v] = IF s = None THEN None ELSE bufferRef[s]]
  /\ UNCHANGED <<live, pending, bufferRef, mapped, provider, locked, discard,
                 hidden, force, stale, resources>>
  /\ DisownUnused({})

\* QWaylandView::setSurface(): refView() appends the view.
SetSurface(v, s) ==
  /\ viewSurface[v] # s
  /\ ahead' = Without(v) \cup
                (IF s = None THEN {} ELSE {<<w, v>> : w \in ViewsOf(s)})
  /\ Show(v, s)

\* QWaylandSurface::setThrottlingView(): the view moves to the front of the
\* list, after setSurface() when it showed another surface.
SetThrottlingView(s, v) ==
  /\ ahead' = Without(v) \cup {<<v, w>> : w \in ViewsOf(s) \ {v}}
  /\ \/ viewSurface[v] # s /\ Show(v, s)
     \/ /\ viewSurface[v] = s
        /\ UNCHANGED <<surfaceVars, slotVars, viewSurface, next, current,
                       provider, locked, discard, hidden, force, stale,
                       clientVars>>

\* The item and its view are deleted; the name stands for a new pair.
DestroyView(v) ==
  /\ viewSurface' = [viewSurface EXCEPT ![v] = None]
  /\ ahead' = Without(v)
  /\ next' = [next EXCEPT ![v] = None]
  /\ current' = [current EXCEPT ![v] = None]
  /\ provider' = [provider EXCEPT ![v] = None]
  /\ locked' = locked \ {v}
  /\ discard' = discard \ {v}
  /\ hidden' = hidden \ {v}
  /\ force' = force \ {v}
  /\ stale' = stale \cup {v}
  /\ UNCHANGED <<surfaceVars, resources>>
  /\ DisownUnused({})

SetBufferLocked(v) ==
  /\ v \in Lockable
  /\ locked' = IF v \in locked THEN locked \ {v} ELSE locked \cup {v}
  /\ UNCHANGED <<surfaceVars, slotVars, viewSurface, ahead, next, current,
                 provider, discard, hidden, force, stale, clientVars>>

SetDiscardFrontBuffers(v) ==
  /\ v \in Discarding
  /\ discard' = IF v \in discard THEN discard \ {v} ELSE discard \cup {v}
  /\ UNCHANGED <<surfaceVars, slotVars, viewSurface, ahead, next, current,
                 provider, locked, hidden, force, stale, clientVars>>

SetPaintEnabled(v) ==
  /\ v \in Hideable
  /\ hidden' = IF v \in hidden THEN hidden \ {v} ELSE hidden \cup {v}
  /\ UNCHANGED <<surfaceVars, slotVars, viewSurface, ahead, next, current,
                 provider, locked, discard, force, stale, clientVars>>

-----------------------------------------------------------------------------
(* Rendering a frame: beforeSync() of every item, then updatePaintNode() *)

CanAdvance(v) == v \notin locked /\ (current[v] # next[v] \/ v \in force)

\* The views whose front buffer advance() of v discards.
Discarded(v) ==
  IF Throttles(v)
  THEN {w \in (ViewsOf(viewSurface[v]) \cap discard) \ {v} :
          current[w] = current[v]}
  ELSE {}

\* (Mutant) The item is not told to take a new texture.
AdvanceKeepingTexture(v) ==
  /\ CanAdvance(v)
  /\ current' = [w \in Views |-> IF w = v THEN next[v]
                                 ELSE IF w \in Discarded(v) THEN None
                                 ELSE current[w]]
  /\ force' = (force \cup Discarded(v)) \ {v}
  /\ UNCHANGED <<surfaceVars, viewSurface, ahead, next, provider, locked,
                 discard, hidden, stale, resources>>
  /\ DisownUnused({})

\* beforeSync(): advance() succeeds and asks for a new texture.
Advance(v) ==
  /\ CanAdvance(v)
  /\ current' = [w \in Views |-> IF w = v THEN next[v]
                                 ELSE IF w \in Discarded(v) THEN None
                                 ELSE current[w]]
  /\ force' = (force \cup Discarded(v)) \ {v}
  /\ stale' = stale \cup {v}
  /\ UNCHANGED <<surfaceVars, viewSurface, ahead, next, provider, locked,
                 discard, hidden, resources>>
  /\ DisownUnused({})

\* advance() ran before the paint of the same frame.  It may have been undone
\* since by another view that discarded this one's front buffer.
Advanced(v) == ~CanAdvance(v) \/ v \in force

HasPicture(v) == /\ viewSurface[v] \in mapped
                 /\ current[v] # None
                 /\ v \notin hidden

\* updatePaintNode() with nothing to draw: the node is deleted, and the
\* texture provider keeps what it has.
PaintNothing(v) ==
  /\ Advanced(v)
  /\ ~HasPicture(v)
  /\ stale' = stale \cup {v}
  /\ UNCHANGED <<surfaceVars, slotVars, viewSurface, ahead, next, current,
                 provider, locked, discard, hidden, force, clientVars>>

\* A shared memory buffer goes through the texture provider, which keeps a
\* reference of its own.
PaintTexture(v) ==
  /\ Advanced(v)
  /\ HasPicture(v)
  /\ content[current[v]] # None
  /\ v \in stale
  /\ stale' = stale \ {v}
  /\ provider' = [provider EXCEPT ![v] = current[v]]
  /\ UNCHANGED <<surfaceVars, viewSurface, ahead, next, current, locked,
                 discard, hidden, force, resources>>
  /\ DisownUnused({})

\* A buffer without content (destroyed, or NULL) has no texture format: the
\* else branch, which asserts that there is no provider.
PaintGeometry(v) ==
  /\ Advanced(v)
  /\ HasPicture(v)
  /\ content[current[v]] = None
  /\ stale' = stale \ {v}
  /\ UNCHANGED <<surfaceVars, slotVars, viewSurface, ahead, next, current,
                 provider, locked, discard, hidden, force, clientVars>>

-----------------------------------------------------------------------------

Init ==
  /\ live = {} /\ mapped = {} /\ pool = {} /\ registered = {}
  /\ committed = {} /\ ahead = {} /\ locked = {} /\ discard = {}
  /\ hidden = {} /\ force = {} /\ resources = {} /\ owned = {}
  /\ stale = Views
  /\ pending = [s \in Surfaces |-> None]
  /\ bufferRef = [s \in Surfaces |-> None]
  /\ content = [x \in Slots |-> None]
  /\ viewSurface = [v \in Views |-> None]
  /\ next = [v \in Views |-> None]
  /\ current = [v \in Views |-> None]
  /\ provider = [v \in Views |-> None]

Request ==
  \/ \E b \in Buffers : CreateBuffer(b) \/ DestroyBuffer(b)
  \/ \E s \in Surfaces : CreateSurface(s) \/ CommitBuffer(s) \/ DestroySurface(s)
  \/ \E s \in Surfaces, b \in resources \cup {None} : AttachBuffer(s, b)

Operate(v) ==
  \/ \E s \in live \cup {None} : SetSurface(v, s)
  \/ \E s \in live : SetThrottlingView(s, v)
  \/ DestroyView(v)
  \/ SetBufferLocked(v)
  \/ SetDiscardFrontBuffers(v)
  \/ SetPaintEnabled(v)

Render(v) ==
  \/ Advance(v)
  \/ PaintNothing(v)
  \/ PaintTexture(v)
  \/ PaintGeometry(v)

Next == Request \/ \E v \in Views : Operate(v) \/ Render(v)

Spec == Init /\ [][Next]_vars

\* Every commit asks the items of the surface for an update, and the window
\* keeps rendering frames, so no item is left out of all frames for ever: the
\* items are visible, on screen and in a window that is exposed.
Fairness == \A v \in Views : WF_vars(Advance(v)) /\ WF_vars(PaintTexture(v))

FairSpec == Spec /\ Fairness

-----------------------------------------------------------------------------

TypeOK ==
  /\ live \subseteq Surfaces
  /\ mapped \subseteq live
  /\ pending \in [Surfaces -> Slots \cup {None}]
  /\ bufferRef \in [Surfaces -> Slots \cup {None}]
  /\ pool \subseteq Slots
  /\ registered \subseteq pool
  /\ committed \subseteq registered
  /\ content \in [Slots -> Buffers \cup {None}]
  /\ viewSurface \in [Views -> live \cup {None}]
  /\ ahead \subseteq Views \X Views
  /\ next \in [Views -> Slots \cup {None}]
  /\ current \in [Views -> Slots \cup {None}]
  /\ provider \in [Views -> Slots \cup {None}]
  /\ locked \subseteq Views /\ discard \subseteq Views
  /\ hidden \subseteq Views
  /\ force \subseteq Views /\ stale \subseteq Views
  /\ resources \subseteq Buffers
  /\ owned \subseteq resources

Pending == {pending[s] : s \in Surfaces} \ {None}

\* A SurfaceBuffer is registered for a wl_buffer exactly while it is pending
\* or referenced, never both, and committed exactly while it is referenced:
\* the pool neither hands out an entry somebody still shows nor loses one.
SlotsAccounted ==
  /\ registered = Held \cup Pending
  /\ Held \cap Pending = {}
  /\ committed = Held

\* SurfaceBuffers of a surface that is gone live only while they are shown.
OrphansAreShown == \A x \in pool : Of(x) \in live \/ x \in Held

\* While a QWaylandBufferRef to a buffer exists the client does not own it.
ReferencedNotOwned == \A x \in Held : content[x] \notin owned

\* A wl_buffer that was committed and not released is still referenced: no
\* release is lost, whatever order surfaces, views and buffers go away in.
NoReleaseLost ==
  \A b \in resources \ owned : \E x \in Held : content[x] = b

\* Each view waits for the buffer its surface shows.
NextIsSurfaceBuffer ==
  \A v \in Views :
    next[v] = IF viewSurface[v] = None THEN None ELSE bufferRef[viewSurface[v]]

\* A SurfaceBuffer keeps its wl_buffer as long as it is referenced, unless
\* the client destroys that wl_buffer.
ContentStable ==
  [][\A x \in Held : x \in Held' =>
       content'[x] = content[x] \/ content[x] \notin resources']_vars

\* Superseded: the client committed another buffer since.
Superseded(b) ==
  /\ b \in resources \ owned
  /\ \A s \in live : bufferRef[s] # None => content[bufferRef[s]] # b

Keeps(v, b) ==
  \E x \in {current[v], provider[v]} \ {None} : content[x] = b

\* The view has a picture to draw in the place of what it keeps.
HasReplacement(v) == next[v] # None /\ content[next[v]] # None

\* A superseded buffer comes back to the client, unless a view that keeps it
\* is locked, is not painted or has no picture to draw in its place.
SupersededComesBack ==
  \A b \in Buffers :
    Superseded(b) ~>
      \/ ~Superseded(b)
      \/ \E v \in Views :
           Keeps(v, b) /\ (v \in locked \cup hidden \/ ~HasReplacement(v))

-----------------------------------------------------------------------------
(* Promises the code does not keep: the README says what refutes them *)

\* updatePaintNode() asserts that an item whose buffer has no texture format
\* has no texture provider.
NoProviderForGeometry ==
  [][\A v \in Views : PaintGeometry(v) => provider[v] = None]_vars

\* The doc of paintEnabled: the item is hidden, "though the texture will still
\* be updated".  A view that is not painted lets go of a superseded buffer too.
HiddenTextureUpdated ==
  \A v \in Views, b \in Buffers :
    (v \in hidden /\ Keeps(v, b) /\ Superseded(b)) ~>
      ~Superseded(b) \/ ~Keeps(v, b) \/ v \in locked \/ ~HasReplacement(v)

\* The protocol's promise: a buffer the compositor no longer reads is
\* released, also when the surface that showed it has become empty.
UnreadComesBack ==
  \A b \in Buffers :
    Superseded(b) ~>
      \/ ~Superseded(b)
      \/ \E v \in Views : v \in locked \/ viewSurface[v] = None

=============================================================================
