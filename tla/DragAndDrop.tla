---------------------------- MODULE DragAndDrop ----------------------------
(***************************************************************************)
(* Drag and drop: the data device with the surface a drag is over, and the *)
(* items of the scene, each of which knows whether it is the origin of a   *)
(* drag and then sends the mouse to the drag instead of the pointer.       *)
(*                                                                         *)
(* The item that was pressed gets the mouse until the release, whatever is *)
(* under it.  What a client was told of the drag is kept in `over` and     *)
(* `offer`: between enter and leave it is over one of its surfaces, with   *)
(* an offer for a source.                                                  *)
(***************************************************************************)
EXTENDS SeatClients

CONSTANTS DragSurfaces,  \* surfaces that may be shown
          DragSources,   \* wl_data_sources
          DragViews      \* the views of surfaces, with their items

ASSUME DragSurfacesExist == DragSurfaces \subseteq Surfaces
ASSUME SourceOwners == \A s \in DragSources : OwnerOf[s] \in Clients
ASSUME NoneIsNoDragged == None \notin DragSources \cup DragViews

\* The drags of orderly clients have a source and an implicit grab, one at a
\* time, while every client has a data device, and neither the source nor a
\* client goes away before their end.  An orderly shell has one view of a
\* surface and lets it show that surface to the end of a drag.

VARIABLES
  dragDevices,        \* clients with a wl_data_device
  surfaces, sources,  \* those that exist
  used,               \* sources that were dragged
  shown,              \* the surface of each view
  isDragging,         \* of the item of each view
  pressed,            \* the view whose item has the mouse
  dragClient, dragDataSource, dragOrigin, dragFocus,
  dragFocusResource,  \* the client of m_dragFocusResource
  over,               \* is each client between enter and leave?
  offer,              \* the source of the offer of its last enter
  resolved,           \* sources that were dropped somewhere or cancelled
  misused             \* was a pointer followed that is null or stale?

dragClientVars == <<dragDevices, surfaces, sources, used>>
dragSceneVars  == <<shown, isDragging, pressed>>
dragDataVars   == <<dragClient, dragDataSource, dragOrigin>>
dragFocusVars  == <<dragFocus, dragFocusResource, over, offer>>
dragVars == <<dragClientVars, dragSceneVars, dragDataVars, dragFocusVars, resolved,
              misused>>

-----------------------------------------------------------------------------
(* The surface the drag is over *)

DragFocusIs(surface, client, whoIsOver, offers) ==
  /\ dragFocus' = surface /\ dragFocusResource' = client
  /\ over' = whoIsOver /\ offer' = offers

LeaveFocus ==
  IF dragFocusResource = None THEN over
  ELSE [over EXCEPT ![dragFocusResource] = FALSE]

\* (Mutant) The surface the drag is over is not left.
SetDragFocusEntering(focus) ==
  IF focus = None \/ OwnerOf[focus] \notin dragDevices
  THEN DragFocusIs(None, None, LeaveFocus, offer)
  ELSE DragFocusIs(focus, OwnerOf[focus], [over EXCEPT ![OwnerOf[focus]] = TRUE],
             [offer EXCEPT ![OwnerOf[focus]] = dragDataSource])

\* DataDevice::setDragFocus(): without a source only the client of the drag
\* is entered, and then its offer is null.
SetDragFocus(focus) ==
  IF \/ focus = None
     \/ dragDataSource = None /\ dragClient # OwnerOf[focus]
     \/ OwnerOf[focus] \notin dragDevices
  THEN DragFocusIs(None, None, LeaveFocus, offer)
  ELSE DragFocusIs(focus, OwnerOf[focus], [LeaveFocus EXCEPT ![OwnerOf[focus]] = TRUE],
             [offer EXCEPT ![OwnerOf[focus]] = dragDataSource])

Stale(source)   == source = None \/ source \notin sources
StaleResource(c) == c # None /\ c \notin dragDevices

\* DataDevice::dragMove() sends the motion without a check of the resource.
DragMove(target) ==
  IF target = dragFocus
  THEN /\ misused' = (dragFocusResource \notin dragDevices)
       /\ UNCHANGED dragFocusVars
  ELSE /\ SetDragFocus(target)
       /\ misused' = \/ StaleResource(dragFocusResource)
                     \/ dragFocusResource' = None
                     \/ Stale(dragDataSource)

\* (Mutant) A drop where there is nobody is forgotten.
DropSilently ==
  /\ SetDragFocus(None)
  /\ resolved' = IF dragFocusResource # None
                 THEN resolved \cup {dragDataSource} ELSE resolved
  /\ misused' = StaleResource(dragFocusResource)
  /\ dragOrigin' = None

\* DataDevice::drop(): drop and leave, or cancelled.
Drop ==
  /\ SetDragFocus(None)
  /\ resolved' = resolved \cup {dragDataSource}
  /\ misused' = IF dragFocusResource # None THEN StaleResource(dragFocusResource)
                ELSE Stale(dragDataSource)
  /\ dragOrigin' = None

-----------------------------------------------------------------------------
(* Clients *)

GetDragDevice(c) ==
  /\ dragDevices' = dragDevices \cup {c}
  /\ UNCHANGED <<surfaces, sources, used, dragSceneVars, dragDataVars, dragFocusVars,
                 resolved, misused>>

CreateDragSource(s) ==
  /\ s \notin used
  /\ sources' = sources \cup {s}
  /\ UNCHANGED <<dragDevices, surfaces, used, dragSceneVars, dragDataVars, dragFocusVars,
                 resolved, misused>>

\* The data device keeps the pointer to the source of a drag:
\* sourceDestroyed() is only about the selection.
DestroyDragSource(s) ==
  /\ s \in sources
  /\ OrderlyClients => s # dragDataSource \/ s \in resolved
  /\ sources' = sources \ {s}
  /\ UNCHANGED <<dragDevices, surfaces, used, dragSceneVars, dragDataVars, dragFocusVars,
                 resolved, misused>>

\* A client that goes away takes everything with it, its data device too.
Disconnect(c) ==
  /\ OrderlyClients => dragOrigin = None
  /\ dragDevices' = dragDevices \ {c}
  /\ surfaces' = {s \in surfaces : OwnerOf[s] # c}
  /\ sources'  = {s \in sources : OwnerOf[s] # c}
  /\ shown' = [v \in DragViews |-> IF shown[v] \in surfaces' THEN shown[v] ELSE None]
  /\ over' = [over EXCEPT ![c] = FALSE]
  /\ UNCHANGED <<used, isDragging, pressed, dragDataVars, dragFocus, dragFocusResource,
                 offer, resolved, misused>>

\* DataDevice::data_device_start_drag() and the items of the origin, which
\* hear dragStarted.  "We need to verify that we have an implicit grab".
StartDrag(c, source, origin) ==
  /\ c \in dragDevices /\ origin \in surfaces /\ OwnerOf[origin] = c
  /\ source # None => source \in sources \ used /\ OwnerOf[source] = c
  /\ OrderlyClients => /\ source # None /\ dragOrigin = None
                       /\ pressed # None /\ shown[pressed] = origin
                       /\ \A s \in surfaces : OwnerOf[s] \in dragDevices
  /\ dragClient' = c /\ dragDataSource' = source /\ dragOrigin' = origin
  /\ isDragging' = [v \in DragViews |-> isDragging[v] \/ shown[v] = origin]
  /\ used' = used \cup ({source} \ {None})
  /\ UNCHANGED <<dragDevices, surfaces, sources, shown, pressed, dragFocusVars,
                 resolved, misused>>

-----------------------------------------------------------------------------
(* The scene *)

SetDragSurface(v, s) ==
  /\ s \in surfaces \cup {None} /\ shown[v] # s
  /\ OrderlyShell => /\ s # None => \A w \in DragViews : shown[w] # s
                     /\ ~isDragging[v]
  /\ shown' = [shown EXCEPT ![v] = s]
  /\ UNCHANGED <<dragClientVars, isDragging, pressed, dragDataVars, dragFocusVars,
                 resolved, misused>>

PressItem(v) ==
  /\ pressed = None /\ shown[v] # None
  /\ pressed' = v
  /\ UNCHANGED <<dragClientVars, shown, isDragging, dragDataVars, dragFocusVars,
                 resolved, misused>>

\* QWaylandQuickItem::mouseMoveEvent(), over the item of another view.
MoveOver(v) ==
  /\ pressed # None /\ isDragging[pressed]
  /\ shown[pressed] # None /\ shown[v] # None
  /\ DragMove(shown[v])
  /\ UNCHANGED <<dragClientVars, dragSceneVars, dragDataVars, resolved>>

\* QWaylandQuickItem::mouseReleaseEvent()
MouseRelease ==
  /\ pressed # None
  /\ pressed' = None
  /\ IF shown[pressed] # None /\ isDragging[pressed]
     THEN /\ Drop
          /\ isDragging' = [isDragging EXCEPT ![pressed] = FALSE]
          /\ UNCHANGED <<dragClient, dragDataSource>>
     ELSE UNCHANGED <<isDragging, dragDataVars, dragFocusVars, resolved, misused>>
  /\ UNCHANGED <<dragClientVars, shown>>

-----------------------------------------------------------------------------
DragInit ==
  /\ dragDevices = {} /\ surfaces = DragSurfaces /\ sources = {} /\ used = {}
  /\ shown = [v \in DragViews |-> None] /\ isDragging = [v \in DragViews |-> FALSE]
  /\ pressed = None
  /\ dragClient = None /\ dragDataSource = None /\ dragOrigin = None
  /\ dragFocus = None /\ dragFocusResource = None
  /\ over = [c \in Clients |-> FALSE] /\ offer = [c \in Clients |-> None]
  /\ resolved = {} /\ misused = FALSE

DragClientNext ==
  \/ \E c \in Clients : GetDragDevice(c) \/ Disconnect(c)
  \/ \E s \in DragSources : CreateDragSource(s) \/ DestroyDragSource(s)
  \/ \E c \in Clients, s \in DragSources \cup {None}, o \in DragSurfaces :
       StartDrag(c, s, o)

\* Once a bad pointer was followed, nothing is known of the process.
DragNext ==
  /\ ~misused
  /\ \/ DragClientNext
     \/ \E v \in DragViews, s \in DragSurfaces \cup {None} : SetDragSurface(v, s)
     \/ \E v \in DragViews : PressItem(v) \/ MoveOver(v)
     \/ MouseRelease

DragSpec == DragInit /\ [][DragNext]_dragVars

-----------------------------------------------------------------------------
(* Properties *)

DragTypeOK ==
  /\ dragDevices \subseteq Clients /\ surfaces \subseteq DragSurfaces
  /\ sources \subseteq DragSources /\ used \subseteq DragSources
  /\ shown \in [DragViews -> surfaces \cup {None}]
  /\ isDragging \in [DragViews -> BOOLEAN] /\ pressed \in DragViews \cup {None}
  /\ dragClient \in Clients \cup {None} /\ dragDataSource \in DragSources \cup {None}
  /\ {dragOrigin, dragFocus} \subseteq DragSurfaces \cup {None}
  /\ dragFocusResource \in Clients \cup {None}
  /\ over \in [Clients -> BOOLEAN] /\ offer \in [Clients -> DragSources \cup {None}]
  /\ resolved \subseteq DragSources \cup {None} /\ misused \in BOOLEAN

\* A client is over a surface exactly while the drag has its focus there, and
\* the offer it has is for the source that is dragged: no leave is forgotten
\* between two clients, no drop leaves a client behind with an open offer, and
\* the next drag finds nobody entered.
DragBalanced ==
  \A c \in Clients :
    /\ over[c] <=> dragFocusResource = c
    /\ over[c] => dragOrigin # None /\ offer[c] = dragDataSource

\* A drag that is over was dropped on a client or its source was cancelled, and
\* no item is left that would take the mouse for another drag.
DragResolved ==
  dragOrigin = None => /\ dragDataSource \in resolved \cup {None}
                       /\ \A v \in DragViews : ~isDragging[v]

\* Not so without orderly clients: a drag without a source, a client without
\* a data device and a source that goes away make it follow a bad pointer.
NeverMisused == ~misused

\* Not so without an orderly shell: the origin's other views take the mouse.
OnlyPressedDrags == \A v \in DragViews : isDragging[v] => pressed = v

\* A client between enter and leave has the focus of the drag, and no pointer of
\* a drag dangles; only the item that was pressed drags, and every drag that is
\* over was dropped or cancelled.
DragSettles == DragBalanced /\ NeverMisused /\ OnlyPressedDrags /\ DragResolved
=============================================================================
