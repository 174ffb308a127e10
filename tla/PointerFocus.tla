---------------------------- MODULE PointerFocus ----------------------------
(***************************************************************************)
(* A seat's pointer and touch devices: the view the mouse is over, the     *)
(* wl_pointer that hears of it, the buttons that are down, and the wl_touch *)
(* that touch points are sent to.                                          *)
(*                                                                         *)
(* Views come from the Qt Quick scene: hovering, pressing and releasing    *)
(* reach the seat through the item of a view, and only while that view     *)
(* shows a surface.  A surface may disappear, and a client may bind or     *)
(* release its devices, at any moment in between.                          *)
(***************************************************************************)
EXTENDS Integers, FiniteSets, SeatClients

CONSTANTS Pointers,    \* wl_pointer resources
          Touches,     \* wl_touch resources
          Views,       \* QWaylandView objects with their items
          TouchViews,  \* those whose items have touchEventsEnabled
          Buttons,     \* buttons of the mouse
          TouchAlone,  \* does nobody touch the screen while a button is down?
          MaxTaken     \* a drag starts only while fewer presses were taken

ASSUME PointerOwners == \A r \in Pointers : OwnerOf[r] \in Clients
ASSUME NoneIsNoDevice == None \notin Pointers \cup Touches \cup Views
ASSUME TouchViewsAssumption == TouchViews \subseteq Views /\ TouchAlone \in BOOLEAN
ASSUME MaxTakenAssumption == MaxTaken \in Nat

\* An orderly client has exactly one wl_pointer, from before its first surface
\* until it disconnects, uses no window as a cursor, and drags only from the
\* surface whose press grabs the mouse.  An orderly shell
\* leaves a view on its surface, and keeps it, until that surface is gone.
\* Toolkits and the shells of the repository behave so; neither the protocol
\* nor the code asks for it.

VARIABLES
  mouseLive,    \* surfaces that exist
  mouseCursors, \* those marked as cursor surfaces
  views,        \* views that exist
  viewSurface,  \* the surface of each view
  pointers,     \* resourceMap of the pointer device, latest first
  entered,      \* surfaces each wl_pointer entered and did not leave
  pointer,      \* the pointer device, with the mouseFocus of the seat
  held,         \* buttons that are down
  grabber,      \* the view whose item grabs the mouse
  dragging,     \* views whose items have isDragging
  taken,        \* (history) presses counted and then taken by a drag, since
                \* the count was last reset
  touches,      \* wl_touch resources that exist
  touchFocus,   \* QWaylandTouchPrivate::focusResource
  touchDown     \* the last wl_touch.down: resource and surface, or None

sceneVars == <<mouseLive, mouseCursors, views, viewSurface>>
touchVars == <<touches, touchFocus, touchDown>>
dragItemVars == <<dragging, taken>>
mouseVars == <<sceneVars, pointers, entered, pointer, held, grabber, dragItemVars,
               touchVars>>

BoundPointers == UNION {{pointers[c][i] : i \in DOMAIN pointers[c]} : c \in Clients}

\* resourceMap().value(client)
PointerOf(c) == IF pointers[c] = <<>> THEN None ELSE Head(pointers[c])

\* A listener that is inserted into a second list corrupts the first one:
\* nothing is known of the program from there on.
Corrupt(p) == Cardinality(p.listening) > 1

-----------------------------------------------------------------------------
(* The pointer device: p is its state, e what the wl_pointers have entered *)

\* pointerFocusChanged() while p.mouseFocus is still the old focus.
FocusChanged(p) ==
  IF p.focusResource # None /\ p.mouseFocus # None
  THEN [p EXCEPT !.hasSentEnter = FALSE, !.focusResource = None, !.listening = {}]
  ELSE [p EXCEPT !.hasSentEnter = FALSE]

\* QWaylandSeat::setMouseFocus().
MouseFocus(p, v) ==
  IF v = p.mouseFocus THEN p ELSE [FocusChanged(p) EXCEPT !.mouseFocus = v]

\* (Mutant) Nobody is told of the leave.
LeftSilently(p, e, v) == e

\* wl_pointer.leave for what the old focus shows now, when setMouseFocus(v)
\* changes the focus.
Left(p, e, v) ==
  IF v # p.mouseFocus /\ p.focusResource # None /\ p.mouseFocus # None
  THEN [e EXCEPT ![p.focusResource] = @ \ {viewSurface[p.mouseFocus]}]
  ELSE e

\* sendMouseMoveEvent() sends enter.
SendsEnter(p, r) == r # None /\ ~p.hasSentEnter

\* The view sendMouseMoveEvent() takes for v.
Target(v) ==
  IF v # None /\ viewSurface[v] \notin mouseCursors \cup {None} THEN v ELSE None

\* The wl_pointer the target's client hears it with.
Resource(v) == IF v = None THEN None ELSE PointerOf(OwnerOf[viewSurface[v]])

\* sendMouseMoveEvent(): the state after it.
Moved(p, v) ==
  LET q == MouseFocus(p, v) IN
  [q EXCEPT !.focusResource = Resource(v),
            !.hasSentEnter = @ \/ SendsEnter(q, Resource(v)),
            !.listening = IF SendsEnter(q, Resource(v))
                          THEN @ \cup {viewSurface[v]} ELSE @]

\* sendMouseMoveEvent(): what it makes of e.
MovedEntered(p, e, v) ==
  LET l == Left(p, e, v) IN
  IF SendsEnter(MouseFocus(p, v), Resource(v))
  THEN [l EXCEPT ![Resource(v)] = @ \cup {viewSurface[v]}]
  ELSE l

\* (Mutant) Buttons stay down when the focus is destroyed.
FocusDestroyedWithButtons(p) ==
  [MouseFocus([p EXCEPT !.listening = {}], None) EXCEPT !.focusResource = None]

\* QWaylandPointer::focusDestroyed().
FocusDestroyed(p) ==
  [MouseFocus([p EXCEPT !.listening = {}], None) EXCEPT
     !.focusResource = None, !.buttonCount = 0]

-----------------------------------------------------------------------------
(* Clients *)

CreateMouseSurface(s) ==
  /\ s \notin mouseLive
  /\ OrderlyClients => pointers[OwnerOf[s]] # <<>>
  /\ mouseLive' = mouseLive \cup {s}
  /\ mouseCursors' = mouseCursors \ {s}
  /\ UNCHANGED <<views, viewSurface, pointers, entered, pointer, held, grabber,
                 dragItemVars, touchVars>>

\* wl_pointer.set_cursor: markAsCursorSurface().
SetMouseCursor(s) ==
  /\ s \in mouseLive \ mouseCursors
  /\ OrderlyClients => \A v \in Views : viewSurface[v] # s
  /\ mouseCursors' = mouseCursors \cup {s}
  /\ UNCHANGED <<mouseLive, views, viewSurface, pointers, entered, pointer, held,
                 grabber, dragItemVars, touchVars>>

\* (Mutant) The views are not told.
DestroyMouseSurfaceSilently(s) ==
  LET fired == s \in pointer.listening
      e == IF fired THEN Left(pointer, entered, None) ELSE entered IN
  /\ s \in mouseLive
  /\ mouseLive' = mouseLive \ {s}
  /\ pointer' = IF fired THEN FocusDestroyed(pointer) ELSE pointer
  /\ entered' = [r \in Pointers |-> e[r] \ {s}]
  /\ taken' = IF fired THEN 0 ELSE taken
  /\ UNCHANGED <<mouseCursors, views, viewSurface, pointers, held, grabber, dragging,
                 touchVars>>

\* The destroy signal of s reaches the pointer first; then its views let go.
DestroyMouseSurface(s) ==
  LET fired == s \in pointer.listening
      e == IF fired THEN Left(pointer, entered, None) ELSE entered IN
  /\ s \in mouseLive
  /\ mouseLive' = mouseLive \ {s}
  /\ pointer' = IF fired THEN FocusDestroyed(pointer) ELSE pointer
  /\ entered' = [r \in Pointers |-> e[r] \ {s}]
  /\ viewSurface' = [v \in Views |-> IF viewSurface[v] = s THEN None
                                     ELSE viewSurface[v]]
  /\ taken' = IF fired THEN 0 ELSE taken
  /\ UNCHANGED <<mouseCursors, views, pointers, held, grabber, dragging, touchVars>>

BindPointer(r) ==
  /\ r \notin BoundPointers
  /\ OrderlyClients => pointers[OwnerOf[r]] = <<>>
  /\ pointers' = [pointers EXCEPT ![OwnerOf[r]] = <<r>> \o @]
  /\ UNCHANGED <<sceneVars, entered, pointer, held, grabber, dragItemVars, touchVars>>

\* pointer_destroy_resource().
DestroyPointer(r) ==
  /\ r \in BoundPointers
  /\ OrderlyClients => \A s \in mouseLive : OwnerOf[s] # OwnerOf[r]
  /\ pointers' = [pointers EXCEPT ![OwnerOf[r]] = Removed(@, r)]
  /\ pointer' = IF pointer.focusResource = r
                THEN [pointer EXCEPT !.focusResource = None] ELSE pointer
  /\ entered' = [entered EXCEPT ![r] = {}]
  /\ UNCHANGED <<sceneVars, held, grabber, dragItemVars, touchVars>>

\* touch_bind_resource().
BindTouch(t) ==
  /\ t \notin touches
  /\ touches' = touches \cup {t}
  /\ touchFocus' = t
  /\ UNCHANGED <<sceneVars, pointers, entered, pointer, held, grabber, dragItemVars,
                 touchDown>>

\* touch_destroy_resource().
DestroyTouch(t) ==
  /\ t \in touches
  /\ touches' = touches \ {t}
  /\ touchFocus' = IF touchFocus = t THEN None ELSE touchFocus
  /\ touchDown' = None
  /\ UNCHANGED <<sceneVars, pointers, entered, pointer, held, grabber, dragItemVars>>

\* data_device_start_drag() asks for no grab: the items of the surface hear
\* dragStarted, and handleDragStarted() takes the mouse focus away.
DragStarted(s) ==
  LET origins == {v \in views : viewSurface[v] = s}
      grabbed == grabber \in origins /\ held # {} IN
  /\ s \in mouseLive
  /\ taken < MaxTaken
  /\ OrderlyClients => grabbed
  /\ dragging' = dragging \cup origins
  /\ taken' = IF grabbed /\ grabber \notin dragging THEN taken + 1 ELSE taken
  /\ pointer' = IF origins = {} THEN pointer ELSE MouseFocus(pointer, None)
  /\ entered' = IF origins = {} THEN entered ELSE Left(pointer, entered, None)
  /\ UNCHANGED <<sceneVars, pointers, held, grabber, touchVars>>

-----------------------------------------------------------------------------
(* The scene *)

\* A view for a surface (the item's surface property).
SetSurface(v, s) ==
  /\ s # viewSurface[v]
  /\ s \in mouseLive \cup {None}
  /\ OrderlyShell => v \notin views /\ s \in mouseLive \ mouseCursors
  /\ views' = views \cup {v}
  /\ viewSurface' = [viewSurface EXCEPT ![v] = s]
  /\ UNCHANGED <<mouseLive, mouseCursors, pointers, entered, pointer, held, grabber,
                 dragItemVars, touchVars>>

\* ~QWaylandView: the mouse focus is only looked at while there is a surface.
DestroyView(v) ==
  LET focused == viewSurface[v] # None /\ pointer.mouseFocus = v IN
  /\ v \in views
  /\ OrderlyShell => viewSurface[v] = None
  /\ views' = views \ {v}
  /\ viewSurface' = [viewSurface EXCEPT ![v] = None]
  /\ pointer' = IF focused THEN MouseFocus(pointer, None) ELSE pointer
  /\ entered' = IF focused THEN Left(pointer, entered, None) ELSE entered
  /\ grabber' = IF grabber = v THEN None ELSE grabber
  /\ dragging' = dragging \ {v}
  /\ UNCHANGED <<mouseLive, mouseCursors, pointers, held, taken, touchVars>>

\* shouldSendInputEvents()
Shows(v) == v \in views /\ viewSurface[v] # None

\* Items that get mouse events and hand them on: the one that grabs the
\* mouse, or any.
Sends(v) == Shows(v) /\ grabber \in {None, v}

\* hoverEnterEvent(), hoverMoveEvent() while no item grabs the mouse, else
\* mouseMoveEvent(), which gives the moves of a drag to dragMove().
Move(v) ==
  /\ Sends(v)
  /\ grabber = v => v \notin dragging
  /\ pointer' = Moved(pointer, Target(v))
  /\ entered' = MovedEntered(pointer, entered, Target(v))
  /\ UNCHANGED <<sceneVars, pointers, held, grabber, dragItemVars, touchVars>>

\* hoverLeaveEvent().  Qt Quick hovers nothing while an item grabs the mouse.
HoverLeave(v) ==
  /\ Sends(v)
  /\ grabber = None
  /\ pointer' = MouseFocus(pointer, None)
  /\ entered' = Left(pointer, entered, None)
  /\ UNCHANGED <<sceneVars, pointers, held, grabber, dragItemVars, touchVars>>

\* mousePressEvent(): the item grabs the mouse until all buttons are up.  If
\* it still has isDragging, the release will not be for the pointer.
Press(v, b) ==
  /\ Sends(v)
  /\ b \notin held
  /\ held' = held \cup {b}
  /\ grabber' = v
  /\ pointer' = [Moved(pointer, Target(v)) EXCEPT !.buttonCount = @ + 1]
  /\ entered' = MovedEntered(pointer, entered, Target(v))
  /\ taken' = IF v \in dragging /\ held = {} THEN taken + 1 ELSE taken
  /\ UNCHANGED <<sceneVars, pointers, dragging, touchVars>>

\* An item without a surface that still grabs the mouse ignores the press.
PressIgnored(b) ==
  /\ grabber # None
  /\ viewSurface[grabber] = None
  /\ b \notin held
  /\ held' = held \cup {b}
  /\ UNCHANGED <<sceneVars, pointers, entered, pointer, grabber, dragItemVars,
                 touchVars>>

\* Does touchEvent() of the item v move the mouse focus?  mouseUngrabEvent()
\* cancels the touch points of an item with it.
TouchMoves(v) == v \in TouchViews /\ Shows(v) /\ pointer.mouseFocus # v

\* mouseReleaseEvent(): the release of a drag goes to drop(), and an item
\* without a surface ignores it.  After the last release mouseUngrabEvent().
Release(b) ==
  LET hears == grabber # None /\ viewSurface[grabber] # None
      p == IF hears /\ grabber \notin dragging
           THEN [pointer EXCEPT !.buttonCount = @ - 1] ELSE pointer
      ungrabbed == held = {b} /\ grabber # None /\ TouchMoves(grabber) IN
  /\ b \in held
  /\ held' = held \ {b}
  /\ grabber' = IF held' = {} THEN None ELSE grabber
  /\ dragging' = IF hears THEN dragging \ {grabber} ELSE dragging
  /\ pointer' = IF ungrabbed THEN Moved(p, Target(grabber)) ELSE p
  /\ entered' = IF ungrabbed THEN MovedEntered(p, entered, Target(grabber)) ELSE entered
  /\ UNCHANGED <<sceneVars, pointers, taken, touchVars>>

\* sendDown() of the touch device.
SendDown(p) ==
  touchDown' = IF touchFocus = None \/ p.mouseFocus = None THEN touchDown
               ELSE [touch |-> touchFocus, surface |-> viewSurface[p.mouseFocus]]

\* touchEvent() for the first point on an item, which grabs the mouse.  The
\* point may be outside the input region.
TouchBegin(v) ==
  LET lost == grabber \notin {None, v} /\ TouchMoves(grabber)
      p == IF lost THEN Moved(pointer, Target(grabber)) ELSE pointer
      e == IF lost THEN MovedEntered(pointer, entered, Target(grabber)) ELSE entered
      q == IF p.mouseFocus = v THEN p ELSE Moved(p, Target(v))
      f == IF p.mouseFocus = v THEN e ELSE MovedEntered(p, e, Target(v)) IN
  /\ Shows(v) /\ v \in TouchViews
  /\ TouchAlone => held = {}
  /\ grabber' = v
  /\ \/ pointer' = p /\ entered' = e /\ UNCHANGED touchDown
     \/ pointer' = q /\ entered' = f /\ SendDown(q)
  /\ UNCHANGED <<sceneVars, pointers, held, dragItemVars, touches, touchFocus>>

\* touchEvent() for points that move, go up or join the first one.
TouchUpdate(v) ==
  LET q == IF TouchMoves(v) THEN Moved(pointer, Target(v)) ELSE pointer IN
  /\ Shows(v) /\ v \in TouchViews
  /\ TouchAlone => held = {}
  /\ pointer' = q
  /\ entered' = IF TouchMoves(v) THEN MovedEntered(pointer, entered, Target(v)) ELSE entered
  /\ SendDown(q) \/ UNCHANGED touchDown
  /\ UNCHANGED <<sceneVars, pointers, held, grabber, dragItemVars, touches, touchFocus>>

-----------------------------------------------------------------------------
MouseInit ==
  /\ mouseLive = {}
  /\ mouseCursors = {}
  /\ views = {}
  /\ viewSurface = [v \in Views |-> None]
  /\ pointers = [c \in Clients |-> <<>>]
  /\ entered = [r \in Pointers |-> {}]
  /\ pointer = [mouseFocus |-> None, focusResource |-> None,
                hasSentEnter |-> FALSE, listening |-> {}, buttonCount |-> 0]
  /\ held = {}
  /\ grabber = None
  /\ dragging = {}
  /\ taken = 0
  /\ touches = {}
  /\ touchFocus = None
  /\ touchDown = None

ClientNext ==
  \/ \E s \in Surfaces :
       CreateMouseSurface(s) \/ SetMouseCursor(s) \/ DestroyMouseSurface(s) \/ DragStarted(s)
  \/ \E r \in Pointers : BindPointer(r) \/ DestroyPointer(r)
  \/ \E t \in Touches : BindTouch(t) \/ DestroyTouch(t)

SceneNext ==
  \E v \in Views :
    \/ \E s \in Surfaces \cup {None} : SetSurface(v, s)
    \/ DestroyView(v) \/ Move(v) \/ HoverLeave(v) \/ TouchBegin(v) \/ TouchUpdate(v)
    \/ \E b \in Buttons : Press(v, b)

MouseNext ==
  /\ ~Corrupt(pointer)
  /\ ClientNext \/ SceneNext \/ \E b \in Buttons : PressIgnored(b) \/ Release(b)

MouseSpec == MouseInit /\ [][MouseNext]_mouseVars

-----------------------------------------------------------------------------
(* Properties *)

\* Every variable has its type; the wl_pointer and wl_touch in use exist.
MouseTypeOK ==
  /\ mouseLive \subseteq Surfaces /\ mouseCursors \subseteq Surfaces
  /\ views \subseteq Views
  /\ viewSurface \in [Views -> mouseLive \cup {None}]
  /\ pointers \in [Clients -> Seq(Pointers)]
  /\ entered \in [Pointers -> SUBSET mouseLive]
  /\ pointer \in [mouseFocus : Views \cup {None}, focusResource : BoundPointers \cup {None},
                 hasSentEnter : BOOLEAN, listening : SUBSET mouseLive, buttonCount : Int]
  /\ held \subseteq Buttons
  /\ grabber \in views \cup {None}
  /\ dragging \subseteq views
  /\ taken \in Nat
  /\ touches \subseteq Touches
  /\ touchFocus \in touches \cup {None}
  /\ touchDown \in [touch : Touches, surface : Surfaces \cup {None}] \cup {None}

\* Motion, buttons and axis events go to a wl_pointer that has entered the
\* surface the mouse is over: sendMouseMoveEvent() never skips the enter.
EventsAfterEnter ==
  pointer.focusResource # None =>
    /\ pointer.mouseFocus # None
    /\ viewSurface[pointer.mouseFocus] \in entered[pointer.focusResource]

\* A wl_pointer that was told of an enter and of no leave is on the surface
\* the mouse is over, so leave always comes before the next enter.
LeftWithMouse ==
  \A r \in Pointers : \A s \in entered[r] :
    /\ pointer.focusResource = r
    /\ pointer.mouseFocus # None /\ viewSurface[pointer.mouseFocus] = s

\* focusDestroyListener is in one list, that of the surface under the mouse.
ListensToMouse ==
  \A s \in pointer.listening :
    pointer.mouseFocus # None /\ viewSurface[pointer.mouseFocus] = s

\* mouseFocus() is a view that exists.
MouseFocusExists == pointer.mouseFocus \in views \cup {None}

\* Pointer events follow the mouse: each comes between enter and leave on the
\* surface under the mouse, leave comes before the next enter, and the view and
\* the surface that the seat holds exist, however views, surfaces and
\* wl_pointers come and go.
MousePlaced ==
  EventsAfterEnter /\ LeftWithMouse /\ MouseFocusExists /\ ListensToMouse

\* When no button is down, the presses that are still counted are those whose
\* release ended a drag, and no others: every other release was heard of, or its
\* surface went and took the count with it.
NoPhantomButtons == held = {} => pointer.buttonCount = taken

\* Pointer events follow the mouse, and so do the buttons that are counted.
EventsFollowMouse == MousePlaced /\ NoPhantomButtons

-----------------------------------------------------------------------------
(* Promises the code does not keep: the README says what refutes them *)

\* isButtonPressed(): "Returns true if any button is currently pressed.
\* Otherwise returns false."  The release of a drag is not counted.
PressedIfHeld == held = {} => pointer.buttonCount = 0

\* A touch point on a surface is sent to a client that owns the surface.
TouchOwned ==
  touchDown # None /\ touchDown.surface # None =>
    OwnerOf[touchDown.touch] = OwnerOf[touchDown.surface]
=============================================================================
