-------------------------- MODULE XWaylandWindows --------------------------
(***************************************************************************)
(* How an X11 window finds the wl_surface that shows it.  Xwayland creates *)
(* the surface on its Wayland connection and tells the window manager the  *)
(* id of the surface on its X11 connection; the compositor reads the two   *)
(* in any order, so a window may have to wait for its surface.             *)
(*                                                                         *)
(* The shell surfaces have an identity of their own, as the window manager *)
(* deletes them later than it forgets them.  The events of X11 are handled *)
(* in batches, and deletions come between the batches.                     *)
(***************************************************************************)
EXTENDS Null, Naturals, Sequences, SequencesExt

CONSTANTS XWindows,    \* X11 window ids
          Ids,         \* ids of wl_surfaces, numbers above 0
          MaxObjects,  \* how many shell surfaces are created
          Patient,     \* do windows stay until they have their surface?
          Remaps,      \* are windows unmapped and mapped again?
          Reuses       \* are window ids used again?

ShellSurfaces == 1..MaxObjects

ASSUME XAssumption ==
  /\ None \notin XWindows /\ None \notin ShellSurfaces
  /\ Ids \subseteq Nat \ {0} /\ MaxObjects \in Nat

VARIABLES
  mapped,       \* Xwayland: the surface id of each window, 0 if it has none
  created, seen,\* Xwayland: windows that exist, that were ever mapped
  xEvents, wlRequests,  \* what is on its way on the two connections
  surfaces,     \* the windows of the surfaces of the compositor, by their id
  batch,        \* is wmEvents() in its loop?
  shellSurfaces,\* the shell surfaces that were created
  windowsMap,   \* m_windowsMap
  unpaired,     \* m_unpairedWindows
  misused       \* was a deleted shell surface used?

xVars  == <<mapped, created, seen>>
wmVars == <<shellSurfaces, windowsMap, unpaired, misused>>
xwaylandVars == <<xVars, xEvents, wlRequests, surfaces, batch, wmVars>>

Live(o) == o # None /\ shellSurfaces[o].state # "deleted"
Busy(id) == surfaces[id] # None \/ \E i \in DOMAIN wlRequests : wlRequests[i].id = id

\* Has everything that Xwayland sent been handled?
Handled == xEvents = << >> /\ wlRequests = << >> /\ ~batch
           /\ \A o \in DOMAIN shellSurfaces : shellSurfaces[o].state # "deleting"

-----------------------------------------------------------------------------
(* Xwayland *)

XCreateWindow(w) ==
  /\ w \notin created /\ Len(shellSurfaces) < MaxObjects
  /\ Reuses \/ \A o \in DOMAIN shellSurfaces : shellSurfaces[o].window # w
  /\ \A i \in DOMAIN xEvents : xEvents[i].type # "Create"
  /\ created' = created \cup {w}
  /\ xEvents' = Append(xEvents, [type |-> "Create", window |-> w, id |-> 0])
  /\ UNCHANGED <<mapped, seen, wlRequests, surfaces, batch, wmVars>>

XMapWindow(w, id) ==
  /\ w \in created /\ mapped[w] = 0 /\ ~Busy(id)
  /\ Remaps \/ w \notin seen
  /\ mapped' = [mapped EXCEPT ![w] = id] /\ seen' = seen \cup {w}
  /\ wlRequests' = Append(wlRequests, [type |-> "Create", window |-> w, id |-> id])
  /\ xEvents' = Append(xEvents, [type |-> "SurfaceId", window |-> w, id |-> id])
  /\ UNCHANGED <<created, surfaces, batch, wmVars>>

XUnmapWindow(w) ==
  /\ mapped[w] # 0
  /\ Patient => Handled
  /\ mapped' = [mapped EXCEPT ![w] = 0]
  /\ wlRequests' = Append(wlRequests,
                          [type |-> "Destroy", window |-> w, id |-> mapped[w]])
  /\ UNCHANGED <<created, seen, xEvents, surfaces, batch, wmVars>>

XDestroyWindow(w) ==
  /\ w \in created /\ mapped[w] = 0
  /\ created' = created \ {w}
  /\ xEvents' = Append(xEvents, [type |-> "Destroy", window |-> w, id |-> 0])
  /\ UNCHANGED <<mapped, seen, wlRequests, surfaces, batch, wmVars>>

-----------------------------------------------------------------------------
(* Surfaces of the compositor *)

\* The places in the list of the windows that wait for the id.
Waiting(id) == {i \in DOMAIN unpaired : shellSurfaces[unpaired[i]].surfaceId = id}

\* XWayland::handleSurfaceCreated(): the first window that waits for the id.
\* setSurfaceId(0) changes nothing, as the window has an id.
Pair(id) ==
  /\ misused' = \E i \in DOMAIN unpaired :
                  ~Live(unpaired[i]) /\ \A j \in Waiting(id) : i <= j
  /\ IF Waiting(id) = {} THEN UNCHANGED <<shellSurfaces, unpaired>>
     ELSE LET first == Min(Waiting(id)) IN
          /\ shellSurfaces' = [shellSurfaces EXCEPT ![unpaired[first]].surface =
                                 IF @ = 0 THEN id ELSE @]
          /\ unpaired' = RemoveAt(unpaired, first)

SurfaceCreated ==
  /\ ~batch /\ wlRequests # << >> /\ Head(wlRequests).type = "Create"
  /\ wlRequests' = Tail(wlRequests)
  /\ surfaces' = [surfaces EXCEPT ![Head(wlRequests).id] = Head(wlRequests).window]
  /\ Pair(Head(wlRequests).id)
  /\ UNCHANGED <<xVars, xEvents, batch, windowsMap>>

\* XWaylandShellSurface::handleSurfaceDestroyed()
SurfaceDestroyed ==
  /\ ~batch /\ wlRequests # << >> /\ Head(wlRequests).type = "Destroy"
  /\ wlRequests' = Tail(wlRequests)
  /\ surfaces' = [surfaces EXCEPT ![Head(wlRequests).id] = None]
  /\ shellSurfaces' = [o \in DOMAIN shellSurfaces |->
       [shellSurfaces[o] EXCEPT !.surface =
          IF Live(o) /\ @ = Head(wlRequests).id THEN 0 ELSE @]]
  /\ UNCHANGED <<xVars, xEvents, batch, windowsMap, unpaired, misused>>

-----------------------------------------------------------------------------
(* The window manager *)

HandleCreateNotify(w) ==
  /\ shellSurfaces' = Append(shellSurfaces,
       [window |-> w, surfaceId |-> 0, surface |-> 0, state |-> "live"])
  /\ windowsMap' = [windowsMap EXCEPT ![w] = Len(shellSurfaces) + 1]
  /\ UNCHANGED <<unpaired, misused>>

\* (Mutant) A window does not wait for a surface.
HandleSurfaceIdAtOnce(w, id) ==
  LET o == windowsMap[w] IN
  /\ IF o = None \/ shellSurfaces[o].surface # 0 \/ surfaces[id] = None
     THEN UNCHANGED shellSurfaces
     ELSE shellSurfaces' = [shellSurfaces EXCEPT ![o].surface = id]
  /\ UNCHANGED <<windowsMap, unpaired, misused>>

\* The id of a window is set once: setSurfaceId() keeps the one that it has.
HandleSurfaceId(w, id) ==
  LET o == windowsMap[w] IN
  /\ IF o = None \/ shellSurfaces[o].surface # 0
     THEN UNCHANGED <<shellSurfaces, unpaired>>
     ELSE /\ shellSurfaces' = [shellSurfaces EXCEPT
               ![o].surfaceId = IF @ > 0 THEN @ ELSE id,
               ![o].surface   = IF surfaces[id] # None THEN id ELSE 0]
          /\ unpaired' = IF surfaces[id] # None THEN unpaired
                         ELSE Append(unpaired, o)
  /\ UNCHANGED <<windowsMap, misused>>

\* The shell surface is taken out of the map and deleted later.  It stays in
\* m_unpairedWindows.
HandleDestroyNotify(w) ==
  LET o == windowsMap[w] IN
  /\ windowsMap' = [windowsMap EXCEPT ![w] = None]
  /\ shellSurfaces' = IF o = None THEN shellSurfaces
                      ELSE [shellSurfaces EXCEPT ![o].state = "deleting"]
  /\ UNCHANGED <<unpaired, misused>>

\* One turn of the loop of wmEvents().
WmEvent ==
  /\ xEvents # << >>
  /\ xEvents' = Tail(xEvents) /\ batch' = TRUE
  /\ LET e == Head(xEvents) IN
     \/ e.type = "Create"    /\ HandleCreateNotify(e.window)
     \/ e.type = "SurfaceId" /\ HandleSurfaceId(e.window, e.id)
     \/ e.type = "Destroy"   /\ HandleDestroyNotify(e.window)
  /\ UNCHANGED <<xVars, wlRequests, surfaces>>

WmEventsDone ==
  /\ batch /\ xEvents = << >>
  /\ batch' = FALSE
  /\ UNCHANGED <<xVars, xEvents, wlRequests, surfaces, wmVars>>

\* ~XWaylandShellSurface(): removeWindow() takes whatever has the id by now.
DeleteShellSurface(o) ==
  /\ ~batch /\ shellSurfaces[o].state = "deleting"
  /\ shellSurfaces' = [shellSurfaces EXCEPT ![o].state = "deleted"]
  /\ windowsMap' = [windowsMap EXCEPT ![shellSurfaces[o].window] = None]
  /\ UNCHANGED <<xVars, xEvents, wlRequests, surfaces, batch, unpaired, misused>>

-----------------------------------------------------------------------------
XInit ==
  /\ mapped = [w \in XWindows |-> 0] /\ created = {} /\ seen = {}
  /\ xEvents = << >> /\ wlRequests = << >> /\ batch = FALSE
  /\ surfaces = [id \in Ids |-> None] /\ shellSurfaces = << >>
  /\ windowsMap = [w \in XWindows |-> None] /\ unpaired = << >>
  /\ misused = FALSE

XNext ==
  /\ ~misused
  /\ \/ \E w \in XWindows : \/ XCreateWindow(w) \/ XUnmapWindow(w) \/ XDestroyWindow(w)
                           \/ \E id \in Ids : XMapWindow(w, id)
     \/ SurfaceCreated \/ SurfaceDestroyed \/ WmEvent \/ WmEventsDone
     \/ \E o \in DOMAIN shellSurfaces : DeleteShellSurface(o)

XSpec == XInit /\ [][XNext]_xwaylandVars

-----------------------------------------------------------------------------
(* Properties *)

XTypeOK ==
  /\ mapped \in [XWindows -> Ids \cup {0}] /\ created \subseteq XWindows
  /\ seen \subseteq XWindows /\ batch \in BOOLEAN /\ misused \in BOOLEAN
  /\ surfaces \in [Ids -> XWindows \cup {None}]
  /\ shellSurfaces \in Seq([window : XWindows, surfaceId : Ids \cup {0},
                            surface : Ids \cup {0},
                            state : {"live", "deleting", "deleted"}])
  /\ windowsMap \in [XWindows -> ShellSurfaces \cup {None}]
  /\ unpaired \in Seq(ShellSurfaces)

\* Whichever of the two connections is faster, a window ends up with its own
\* surface and is no longer in the list of those that wait.  Not so if windows
\* are mapped again, or go away while they wait.
Paired ==
  Handled => \A w \in created :
    /\ windowsMap[w] # None
    /\ shellSurfaces[windowsMap[w]].surface = mapped[w]
    /\ mapped[w] # 0 => windowsMap[w] \notin ToSet(unpaired)

\* Not so if windows are impatient: an id that is used again belongs to
\* another window.
NoStranger ==
  \A o \in DOMAIN shellSurfaces :
    Live(o) /\ shellSurfaces[o].surface # 0
      => surfaces[shellSurfaces[o].surface] = shellSurfaces[o].window

\* Not so if windows are impatient: m_unpairedWindows keeps them.
NeverMisused == ~misused

\* All of it: windows get their surface, whichever of the two comes first, and
\* nothing of a window that is gone is used.
WindowsArePaired == Paired /\ NoStranger /\ NeverMisused
=============================================================================
