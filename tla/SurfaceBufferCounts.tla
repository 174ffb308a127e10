------------------------- MODULE SurfaceBufferCounts -------------------------
(***************************************************************************)
(* The reference counting behind SurfaceBuffers, statement by statement.   *)
(*                                                                         *)
(* SurfaceBuffers says which QWaylandBufferRef points where and lets go of *)
(* a SurfaceBuffer when nobody points to it.  The code has no such view: it *)
(* counts.  Every constructor, assignment and destructor of a              *)
(* QWaylandBufferRef calls ref() and deref(), and the deref() that reaches *)
(* zero disowns the SurfaceBuffer on the spot, in the middle of a handler. *)
(* Here each handler is the sequence of those calls in the order of the    *)
(* source, temporaries included, and the module is checked to implement    *)
(* SurfaceBuffers: no count is lost or taken twice, and none passes        *)
(* through zero while the handler still needs the buffer.                  *)
(***************************************************************************)
EXTENDS Integers, FiniteSetsExt

CONSTANTS Surfaces, Views, Buffers, MaxPool, Lockable, Discarding, Hideable,
          ClientReuses, None

ASSUME MaxPoolAssumption == MaxPool \in Nat \ {0}
ASSUME ViewAssumption ==
  Lockable \subseteq Views /\ Discarding \subseteq Views /\ Hideable \subseteq Views
ASSUME ReuseAssumption == ClientReuses \in BOOLEAN
ASSUME FiniteAssumption == IsFiniteSet(Surfaces) /\ IsFiniteSet(Views)

Slots == Surfaces \X (1..MaxPool)

ASSUME NoneAssumption == None \notin Surfaces \cup Buffers \cup Slots

\* The QWaylandBufferRef members of surfaces, views and texture providers.
Holders == ({"buffer"} \X Surfaces) \cup ({"next", "current", "provider"} \X Views)

VARIABLES
  heap,        \* SurfaceBuffers, the references to them and their owners
  live, pending, mapped,                                \* surfaces
  viewSurface, ahead, locked, discard, hidden, force, stale,    \* views
  resources                                             \* wl_buffers

surfaceVars == <<live, pending, mapped>>
viewVars    == <<viewSurface, ahead, locked, discard, hidden, force, stale>>
vars        == <<heap, surfaceVars, viewVars, resources>>

Of(x) == x[1]

ViewsOf(s) == {v \in Views : viewSurface[v] = s}

Target(kind, id) == heap.ref[<<kind, id>>]

-----------------------------------------------------------------------------
(* The operations on one SurfaceBuffer, as functions of the heap *)

DestructBufferState(h, x) ==
  [h EXCEPT !.registered = @ \ {x},
            !.committed  = @ \ {x},
            !.content[x] = None,
            !.owned      = IF x \in h.committed /\ h.content[x] # None
                           THEN @ \cup {h.content[x]} ELSE @]

DestroyIfUnused(h, x) ==
  IF x \in h.dying /\ h.count[x] = 0
  THEN [DestructBufferState(h, x) EXCEPT !.pool = @ \ {x}, !.dying = @ \ {x}]
  ELSE h

Disown(h, x) == DestroyIfUnused(DestructBufferState(h, x), x)

Ref(h, x) == IF x = None THEN h ELSE [h EXCEPT !.count[x] = @ + 1]

\* (Mutant) The old value of the counter is compared with zero.
DerefOldCount(h, x) ==
  IF x = None THEN h
  ELSE LET less == [h EXCEPT !.count[x] = @ - 1]
       IN  IF h.count[x] = 0 THEN Disown(less, x) ELSE less

Deref(h, x) ==
  IF x = None THEN h
  ELSE LET less == [h EXCEPT !.count[x] = @ - 1]
       IN  IF less.count[x] = 0 THEN Disown(less, x) ELSE less

\* (Mutant) The assignment forgets to reference its new target.
AssignUncounted(h, holder, x) ==
  [Deref(h, h.ref[holder]) EXCEPT !.ref[holder] = x]

\* QWaylandBufferRef::operator=: the old target goes before the new one comes.
Assign(h, holder, x) ==
  Ref([Deref(h, h.ref[holder]) EXCEPT !.ref[holder] = x], x)

\* A temporary QWaylandBufferRef assigned to a member.
AssignTemporary(h, holder, x) == Deref(Assign(Ref(h, x), holder, x), x)

\* Assignments to the same member of several views, one after the other.
AssignAll(h, kind, views, x) ==
  FoldSet(LAMBDA v, g : Assign(g, <<kind, v>>, x), h, views)

\* setDestroyIfUnused(true) for every entry of the pool of s.
MarkPool(h, s) ==
  FoldSet(LAMBDA x, g : DestroyIfUnused([g EXCEPT !.dying = @ \cup {x}], x),
          h, {x \in h.pool : Of(x) = s})

-----------------------------------------------------------------------------

CreateSurface(s) ==
  /\ s \notin live
  /\ \A x \in heap.pool : Of(x) # s
  /\ live' = live \cup {s}
  /\ UNCHANGED <<heap, pending, mapped, viewVars, resources>>

CreateBuffer(b) ==
  /\ b \notin resources
  /\ resources' = resources \cup {b}
  /\ heap' = [heap EXCEPT !.owned = @ \cup {b}]
  /\ UNCHANGED <<surfaceVars, viewVars>>

DestroyBuffer(b) ==
  /\ b \in resources
  /\ resources' = resources \ {b}
  /\ heap' = [heap EXCEPT
       !.owned = @ \ {b},
       !.content = [x \in Slots |-> IF @[x] = b THEN None ELSE @[x]]]
  /\ UNCHANGED <<surfaceVars, viewVars>>

\* surface_attach(), createSurfaceBuffer() and initialize()
AttachBuffer(s, b) ==
  LET h == IF pending[s] = None THEN heap ELSE Disown(heap, pending[s])
      free == {i \in 1..MaxPool : <<s, i>> \notin h.registered}
  IN /\ s \in live
     /\ free # {}
     /\ LET x == <<s, Min(free)>>
        IN /\ heap' = [h EXCEPT !.pool = @ \cup {x},
                                !.registered = @ \cup {x},
                                !.content[x] = b]
           /\ pending' = [pending EXCEPT ![s] = x]
     /\ UNCHANGED <<live, mapped, viewVars, resources>>

\* The client gave the buffer up when it sent the request.
CommitBuffer(s) ==
  LET x == pending[s]
      given == [heap EXCEPT !.owned = @ \ {heap.content[x]}]
      h == AssignAll(AssignTemporary(given, <<"buffer", s>>, x),
                     "next", ViewsOf(s), x)
  IN /\ s \in live
     /\ x # None
     /\ ClientReuses \/ heap.content[x] \in heap.owned \cup {None}
     /\ heap' = [h EXCEPT !.committed = @ \cup {x}]
     /\ mapped' = IF h.content[x] # None THEN mapped \cup {s}
                                         ELSE mapped \ {s}
     /\ pending' = [pending EXCEPT ![s] = None]
     /\ UNCHANGED <<live, viewVars, resources>>

\* setSurface(NULL) of each view, then the destructor of the surface.
DestroySurface(s) ==
  LET views == ViewsOf(s)
      h1 == AssignAll(AssignAll(heap, "current", views \ locked, None),
                      "next", views, None)
      h2 == Assign(h1, <<"buffer", s>>, None)
  IN /\ s \in live
     /\ heap' = MarkPool(h2, s)
     /\ live' = live \ {s}
     /\ pending' = [pending EXCEPT ![s] = None]
     /\ mapped' = mapped \ {s}
     /\ viewSurface' = [v \in Views |-> IF v \in views THEN None
                                        ELSE viewSurface[v]]
     /\ ahead' = {p \in ahead : p[1] \notin views}
     /\ UNCHANGED <<locked, discard, hidden, force, stale, resources>>

Without(v) == {p \in ahead : v \notin {p[1], p[2]}}

Throttles(v) == /\ viewSurface[v] # None
                /\ \A w \in ViewsOf(viewSurface[v]) : <<w, v>> \notin ahead

Show(v, s) ==
  LET h == Assign(IF v \in locked THEN heap
                  ELSE Assign(heap, <<"current", v>>, None),
                  <<"next", v>>, None)
  IN /\ heap' = IF s = None THEN h
                ELSE AssignTemporary(h, <<"next", v>>, Target("buffer", s))
     /\ viewSurface' = [viewSurface EXCEPT ![v] = s]
     /\ UNCHANGED <<surfaceVars, locked, discard, hidden, force, stale,
                    resources>>

SetSurface(v, s) ==
  /\ viewSurface[v] # s
  /\ ahead' = Without(v) \cup
                (IF s = None THEN {} ELSE {<<w, v>> : w \in ViewsOf(s)})
  /\ Show(v, s)

SetThrottlingView(s, v) ==
  /\ ahead' = Without(v) \cup {<<v, w>> : w \in ViewsOf(s) \ {v}}
  /\ \/ viewSurface[v] # s /\ Show(v, s)
     \/ /\ viewSurface[v] = s
        /\ UNCHANGED <<heap, surfaceVars, viewSurface, locked, discard, hidden,
                       force, stale, resources>>

DestroyView(v) ==
  /\ heap' = Assign(Assign(Assign(heap, <<"next", v>>, None),
                           <<"current", v>>, None),
                    <<"provider", v>>, None)
  /\ viewSurface' = [viewSurface EXCEPT ![v] = None]
  /\ ahead' = Without(v)
  /\ locked' = locked \ {v}
  /\ discard' = discard \ {v}
  /\ hidden' = hidden \ {v}
  /\ force' = force \ {v}
  /\ stale' = stale \cup {v}
  /\ UNCHANGED <<surfaceVars, resources>>

SetBufferLocked(v) ==
  /\ v \in Lockable
  /\ locked' = IF v \in locked THEN locked \ {v} ELSE locked \cup {v}
  /\ UNCHANGED <<heap, surfaceVars, viewSurface, ahead, discard, hidden, force,
                 stale, resources>>

SetDiscardFrontBuffers(v) ==
  /\ v \in Discarding
  /\ discard' = IF v \in discard THEN discard \ {v} ELSE discard \cup {v}
  /\ UNCHANGED <<heap, surfaceVars, viewSurface, ahead, locked, hidden, force,
                 stale, resources>>

SetPaintEnabled(v) ==
  /\ v \in Hideable
  /\ hidden' = IF v \in hidden THEN hidden \ {v} ELSE hidden \cup {v}
  /\ UNCHANGED <<heap, surfaceVars, viewSurface, ahead, locked, discard, force,
                 stale, resources>>

-----------------------------------------------------------------------------

CanAdvance(v) ==
  v \notin locked /\ (Target("current", v) # Target("next", v) \/ v \in force)

Discarded(v) ==
  IF Throttles(v)
  THEN {w \in (ViewsOf(viewSurface[v]) \cap discard) \ {v} :
          Target("current", w) = Target("current", v)}
  ELSE {}

Advance(v) ==
  /\ CanAdvance(v)
  /\ heap' = Assign(AssignAll(heap, "current", Discarded(v), None),
                    <<"current", v>>, Target("next", v))
  /\ force' = (force \cup Discarded(v)) \ {v}
  /\ stale' = stale \cup {v}
  /\ UNCHANGED <<surfaceVars, viewSurface, ahead, locked, discard, hidden,
                 resources>>

\* updatePaintNode(): a copy of currentBuffer lives until the end of it.
Paint(v) ==
  LET x == Target("current", v)
      picture == viewSurface[v] \in mapped /\ x # None /\ v \notin hidden
  IN /\ ~CanAdvance(v) \/ v \in force
     /\ \/ /\ ~picture
           /\ stale' = stale \cup {v}
           /\ heap' = heap
        \/ /\ picture
           /\ IF v \in stale /\ heap.content[x] # None
              THEN heap' = Deref(Assign(Ref(heap, x), <<"provider", v>>, x), x)
              ELSE heap' = heap
           /\ stale' = stale \ {v}
     /\ UNCHANGED <<surfaceVars, viewSurface, ahead, locked, discard, hidden,
                    force, resources>>

-----------------------------------------------------------------------------

Init ==
  /\ heap = [ref |-> [h \in Holders |-> None],
             count |-> [x \in Slots |-> 0],
             content |-> [x \in Slots |-> None],
             pool |-> {}, registered |-> {}, committed |-> {}, dying |-> {},
             owned |-> {}]
  /\ live = {} /\ mapped = {} /\ resources = {} /\ ahead = {}
  /\ locked = {} /\ discard = {} /\ hidden = {} /\ force = {}
  /\ stale = Views
  /\ pending = [s \in Surfaces |-> None]
  /\ viewSurface = [v \in Views |-> None]

Request ==
  \/ \E b \in Buffers : CreateBuffer(b) \/ DestroyBuffer(b)
  \/ \E s \in Surfaces : CreateSurface(s) \/ CommitBuffer(s) \/ DestroySurface(s)
  \/ \E s \in Surfaces, b \in resources \cup {None} : AttachBuffer(s, b)

Operate(v) ==
  \/ \E s \in live \cup {None} : SetSurface(v, s)
  \/ \E s \in live : SetThrottlingView(s, v)
  \/ DestroyView(v)
  \/ SetBufferLocked(v)
  \/ SetDiscardFrontBuffers(v)
  \/ SetPaintEnabled(v)
  \/ Advance(v)
  \/ Paint(v)

Next == Request \/ \E v \in Views : Operate(v)

Spec == Init /\ [][Next]_vars

-----------------------------------------------------------------------------

\* m_refCount is the number of QWaylandBufferRef members that point to the
\* SurfaceBuffer: no ref() and no deref() is missing on any path.
CountsAreExact ==
  \A x \in Slots :
    heap.count[x] = Cardinality({h \in Holders : heap.ref[h] = x})

\* Nobody points to a SurfaceBuffer that was deleted.
NoDanglingReference ==
  \A h \in Holders : heap.ref[h] \in heap.pool \cup {None}

\* Both: the counts are right on every path, in whatever order surfaces, views
\* and buffers go.
ReferencesExact == CountsAreExact /\ NoDanglingReference

References == INSTANCE SurfaceBuffers
  WITH bufferRef  <- [s \in Surfaces |-> Target("buffer", s)],
       next       <- [v \in Views |-> Target("next", v)],
       current    <- [v \in Views |-> Target("current", v)],
       provider   <- [v \in Views |-> Target("provider", v)],
       pool       <- heap.pool,
       registered <- heap.registered,
       content    <- heap.content,
       committed  <- heap.committed,
       owned      <- heap.owned

\* Counting references releases a buffer exactly when SurfaceBuffers does.
ImplementsReferences == References!Spec

=============================================================================
