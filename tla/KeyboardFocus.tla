---------------------------- MODULE KeyboardFocus ----------------------------
(***************************************************************************)
(* A seat's keyboard: which surface has the keyboard focus, which          *)
(* wl_keyboard it is told about, and how pressed keys, modifiers, keymap   *)
(* and repeat rate travel to the clients.                                  *)
(*                                                                         *)
(* A key event of the platform is handled in three steps that other        *)
(* compositor code can come between: keyEvent() records the key, the event *)
(* is then handed to the Qt Quick scene, whose handlers may do anything    *)
(* (take the focus, change the keymap) and may send the key to the focus,  *)
(* and at last the keymap and the modifiers are brought up to date.        *)
(***************************************************************************)
EXTENDS SeatClients

CONSTANTS Keyboards,      \* wl_keyboard resources
          Keys,
          ModifierKeys,   \* keys that depress a modifier in every keymap
          Keymaps,
          Loadable,       \* those that xkbcommon can compile
          MaxHeld,        \* on how many keyboards each key is down at once
          CursorSurfaces, \* surfaces that clients use as cursors
          Rates,          \* repeat rates (the delay is handled alike)
          OneEach         \* do clients hold at most one wl_keyboard?

ASSUME OwnerAssumption == \A x \in Surfaces \cup Keyboards : OwnerOf[x] \in Clients
ASSUME ModifierAssumption == ModifierKeys \subseteq Keys
ASSUME LoadableAssumption == Loadable \subseteq Keymaps
ASSUME HeldAssumption == MaxHeld \in [Keys -> Nat \ {0}]
ASSUME OneEachAssumption == OneEach \in BOOLEAN
ASSUME NoneAssumption ==
  None \notin Surfaces \cup Keyboards \cup Keymaps \cup [key : Keys, down : BOOLEAN]

VARIABLES
  live,            \* surfaces that exist
  cursors,         \* those marked as cursor surfaces
  bound,           \* resourceMap: the keyboards of each client, latest first
  focus,           \* QWaylandKeyboardPrivate::focus
  focusResource,
  listening,       \* surfaces whose destroy signal holds focusDestroyListener
  downOn,          \* on how many keyboards each key is down
  keys,            \* keys recorded as pressed
  handling,        \* the key event given to the Qt Quick scene, or None
  xkb,             \* presses of each modifier key that xkb_state knows of
  base,            \* the modifiers depressed in xkb_state
  mods,            \* modsDepressed
  keymap,          \* the keymap last asked for
  pendingKeymap,
  installed,       \* the keymap xkb_state is made from
  file,            \* the keymap in keymap_fd, or None when that is -1
  rate,            \* repeatRate
  told             \* what each wl_keyboard was last told

serverVars == <<focus, focusResource, listening>>
keyVars    == <<downOn, keys, handling, xkb, base, mods>>
mapVars    == <<keymap, pendingKeymap, installed, file>>
vars == <<live, cursors, bound, serverVars, keyVars, mapVars, rate, told>>

BoundKeyboards == UNION {{bound[c][i] : i \in DOMAIN bound[c]} : c \in Clients}

Unbound == [surfaces |-> {}, mods |-> {}, keymap |-> None, rate |-> None]

\* resourceMap().value(client): the keyboard the client bound last.
KeyboardOf(c) == IF bound[c] = <<>> THEN None ELSE Head(bound[c])

\* sendEnter(): the modifiers, then wl_keyboard.enter.
Enter(t, s) == [t EXCEPT !.surfaces = @ \cup {s}, !.mods = mods]

\* wl_keyboard.leave, or the client knows that its surface s is gone.
Leave(t, s) == [t EXCEPT !.surfaces = @ \ {s}]

-----------------------------------------------------------------------------
(* Clients *)

CreateSurface(s) ==
  /\ s \notin live
  /\ live' = live \cup {s}
  /\ UNCHANGED <<cursors, bound, serverVars, keyVars, mapVars, rate, told>>

\* wl_pointer.set_cursor: markAsCursorSurface().
SetCursor(s) ==
  /\ s \in (live \ cursors) \cap CursorSurfaces
  /\ cursors' = cursors \cup {s}
  /\ UNCHANGED <<live, bound, serverVars, keyVars, mapVars, rate, told>>

\* focusDestroyed(), when the listener is in the list of s.
DestroySurface(s) ==
  /\ s \in live
  /\ live' = live \ {s}
  /\ cursors' = cursors \ {s}
  /\ listening' = listening \ {s}
  /\ focus' = IF s \in listening THEN None ELSE focus
  /\ focusResource' = IF s \in listening THEN None ELSE focusResource
  /\ told' = [k \in Keyboards |-> Leave(told[k], s)]
  /\ UNCHANGED <<bound, keyVars, mapVars, rate>>

\* get_keyboard: repeat information, the keymap and checkFocusResource().
BindKeyboard(k) ==
  LET c == OwnerOf[k]
      t == [Unbound EXCEPT !.keymap = file, !.rate = rate]
      focused == focus # None /\ OwnerOf[focus] = c IN
  /\ k \notin BoundKeyboards
  /\ OneEach => bound[c] = <<>>
  /\ bound' = [bound EXCEPT ![c] = <<k>> \o @]
  /\ told' = [told EXCEPT ![k] = IF focused THEN Enter(t, focus) ELSE t]
  /\ focusResource' = IF focused THEN k ELSE focusResource
  /\ UNCHANGED <<live, cursors, focus, listening, keyVars, mapVars, rate>>

\* (Mutant) The focus keeps its wl_keyboard.
DestroyKeyboardUnchecked(k) ==
  /\ k \in BoundKeyboards
  /\ bound' = [bound EXCEPT ![OwnerOf[k]] = Removed(@, k)]
  /\ told' = [told EXCEPT ![k] = Unbound]
  /\ UNCHANGED <<live, cursors, serverVars, keyVars, mapVars, rate>>

\* wl_keyboard.release, or the client goes away.
DestroyKeyboard(k) ==
  /\ k \in BoundKeyboards
  /\ bound' = [bound EXCEPT ![OwnerOf[k]] = Removed(@, k)]
  /\ focusResource' = IF focusResource = k THEN None ELSE focusResource
  /\ told' = [told EXCEPT ![k] = Unbound]
  /\ UNCHANGED <<live, cursors, focus, listening, keyVars, mapVars, rate>>

-----------------------------------------------------------------------------
(* Focus *)

\* (Mutant) No leave for the old focus.
FocusedSilently(s) ==
  LET r == IF s = None THEN None ELSE KeyboardOf(OwnerOf[s]) IN
  /\ told' = [k \in Keyboards |->
                IF k = r /\ (focus # s \/ focusResource # r) THEN Enter(told[k], s)
                ELSE told[k]]
  /\ listening' = IF focus = s THEN listening ELSE {s} \ {None}
  /\ focusResource' = r
  /\ focus' = s

\* QWaylandKeyboardPrivate::focused() for a surface that is no cursor, or None.
Focused(s) ==
  LET r == IF s = None THEN None ELSE KeyboardOf(OwnerOf[s])
      loser == IF focus # s THEN focusResource ELSE None IN
  /\ told' = [k \in Keyboards |->
                LET t == IF k = loser THEN Leave(told[k], focus) ELSE told[k] IN
                IF k = r /\ (focus # s \/ focusResource # r) THEN Enter(t, s) ELSE t]
  /\ listening' = IF focus = s THEN listening ELSE {s} \ {None}
  /\ focusResource' = r
  /\ focus' = s

\* takeFocus() -> QWaylandSeat::setKeyboardFocus().
SetKeyboardFocus(s) ==
  /\ s \in live
  /\ s # focus
  /\ Focused(IF s \in cursors THEN None ELSE s)
  /\ UNCHANGED <<live, cursors, bound, keyVars, mapVars, rate>>

-----------------------------------------------------------------------------
(* Key events *)

\* sendEvent(): keyEvent(), and the event goes to the scene.  A key that is
\* down on two keyboards is listed twice in keys, until the first release
\* removes both.  (Repeated presses change nothing here.)
KeyEvent(k, down) ==
  /\ handling = None
  /\ downOn[k] \in IF down THEN 0..(MaxHeld[k] - 1) ELSE 1..MaxHeld[k]
  /\ downOn' = [downOn EXCEPT ![k] = IF down THEN @ + 1 ELSE @ - 1]
  /\ keys' = IF down THEN keys \cup {k} ELSE keys \ {k}
  /\ handling' = [key |-> k, down |-> down]
  /\ UNCHANGED <<live, cursors, bound, serverVars, xkb, base, mods, mapVars, rate,
                 told>>

\* What the keyboards know after updateKeymap(): t is what they knew before.
WithKeymap(t) ==
  [k \in Keyboards |->
     IF k \notin BoundKeyboards THEN t[k]
     ELSE IF k = focusResource THEN [t[k] EXCEPT !.keymap = file', !.mods = mods]
     ELSE [t[k] EXCEPT !.keymap = file']]

\* (Mutant) The keymap is changed whatever keys are down.
MayUpdateAnytime(pending) == pending

\* The guard of updateKeymap().
MayUpdate(pending) == pending /\ keys' = {}

NoKeys == [k \in ModifierKeys |-> 0]

\* createXKBKeymap() and createXKBState(): a new xkb_state, or the one there was
\* when the keymap does not compile or there is no file to put it into.  x is
\* what xkb_state knows afterwards.
CreateXKBKeymap(x) ==
  \/ /\ keymap' \in Loadable
     /\ installed' = keymap' /\ file' = keymap'
     /\ x = NoKeys
  \/ /\ keymap' \notin Loadable
     /\ UNCHANGED <<installed, file>>
     /\ x = xkb
  \/ /\ keymap' \in Loadable
     /\ installed' = installed /\ file' = None
     /\ x = xkb

\* xkb_state_update_key() for the event e, when xkb_state knows x: a modifier is
\* depressed by the first press of its key and released with the last.
Counted(x, e) ==
  IF e.key \notin ModifierKeys THEN x
  ELSE IF e.down THEN [x EXCEPT ![e.key] = @ + 1]
  ELSE [x EXCEPT ![e.key] = IF @ = 0 THEN 0 ELSE @ - 1]

Depressed(x, b, e) ==
  IF e.key \notin ModifierKeys THEN b
  ELSE IF e.down THEN IF x[e.key] = 0 THEN b \cup {e.key} ELSE b
  ELSE IF x[e.key] <= 1 THEN b \ {e.key} ELSE b

\* modifiers(): the focus is told, unless nothing changed.
ModifiersSent(t, m) ==
  IF focusResource = None \/ m = mods THEN t
  ELSE [t EXCEPT ![focusResource].mods = m]

\* Back from the scene: updateKeymap(), which leaves xkb_state without depressed
\* modifiers, and updateModifierState().
FinishKeyEvent ==
  /\ handling # None
  /\ handling' = None
  /\ UNCHANGED <<live, cursors, bound, serverVars, downOn, keys, keymap, rate>>
  /\ \/ /\ MayUpdate(pendingKeymap)
        /\ pendingKeymap' = FALSE
        /\ \E x \in {NoKeys, xkb} :
             /\ CreateXKBKeymap(x)
             /\ xkb' = Counted(x, handling)
             /\ base' = Depressed(x, {}, handling)
        /\ mods' = base'
        /\ told' = ModifiersSent(WithKeymap(told), mods')
     \/ /\ ~MayUpdate(pendingKeymap)
        /\ xkb' = Counted(xkb, handling)
        /\ base' = Depressed(xkb, base, handling)
        /\ mods' = base'
        /\ told' = ModifiersSent(told, mods')
        /\ UNCHANGED <<pendingKeymap, installed, file>>

\* QWaylandKeyboard::setKeymap().
SetKeymap(m) ==
  /\ keymap' = m
  /\ UNCHANGED <<live, cursors, bound, serverVars, downOn, keys, handling, mods, rate>>
  /\ \/ /\ keys = {}
        /\ pendingKeymap' = FALSE
        /\ CreateXKBKeymap(xkb')
        /\ base' = {}
        /\ told' = WithKeymap(told)
     \/ /\ keys # {}
        /\ pendingKeymap' = TRUE
        /\ UNCHANGED <<installed, file, xkb, base, told>>

\* setRepeatRate(): sendRepeatInfo() comes before the assignment.
SetRepeatRate(n) ==
  /\ n # rate
  /\ rate' = n
  /\ told' = [k \in Keyboards |->
                IF k \in BoundKeyboards THEN [told[k] EXCEPT !.rate = rate]
                ELSE told[k]]
  /\ UNCHANGED <<live, cursors, bound, serverVars, keyVars, mapVars>>

\* The pointer enters a surface of c: sendKeyModifiers().
SendKeyModifiers(c) ==
  /\ KeyboardOf(c) # None
  /\ told' = [told EXCEPT ![KeyboardOf(c)].mods = mods]
  /\ UNCHANGED <<live, cursors, bound, serverVars, keyVars, mapVars, rate>>

-----------------------------------------------------------------------------
Init ==
  /\ live = {}
  /\ cursors = {}
  /\ bound = [c \in Clients |-> <<>>]
  /\ focus = None
  /\ focusResource = None
  /\ listening = {}
  /\ downOn = [k \in Keys |-> 0]
  /\ keys = {}
  /\ handling = None
  /\ xkb = NoKeys
  /\ base = {}
  /\ mods = {}
  /\ keymap \in Loadable     \* without a first keymap there is no xkb_state
  /\ pendingKeymap = FALSE
  /\ installed = keymap
  /\ file = keymap
  /\ rate \in Rates
  /\ told = [k \in Keyboards |-> Unbound]

RequestNext ==
  /\ handling = None      \* requests are not dispatched inside sendEvent()
  /\ \/ \E s \in Surfaces : CreateSurface(s) \/ SetCursor(s) \/ DestroySurface(s)
     \/ \E k \in Keyboards : BindKeyboard(k) \/ DestroyKeyboard(k)

Next ==
  \/ RequestNext
  \/ \E s \in Surfaces : SetKeyboardFocus(s)
  \/ \E k \in Keys, down \in BOOLEAN : KeyEvent(k, down)
  \/ FinishKeyEvent
  \/ \E m \in Keymaps : SetKeymap(m)
  \/ \E n \in Rates : SetRepeatRate(n)
  \/ \E c \in Clients : SendKeyModifiers(c)

Spec == Init /\ [][Next]_vars

-----------------------------------------------------------------------------
(* Properties *)

\* Every variable has its type, and only objects that exist are referred to:
\* the focus, its wl_keyboard and the destroy listener never dangle.
TypeOK ==
  /\ live \subseteq Surfaces
  /\ cursors \subseteq live
  /\ bound \in [Clients -> Seq(Keyboards)]
  /\ focus \in live \cup {None}
  /\ focusResource \in BoundKeyboards \cup {None}
  /\ listening \subseteq live
  /\ keys \subseteq Keys
  /\ handling \in [key : Keys, down : BOOLEAN] \cup {None}
  /\ downOn \in [Keys -> Nat] /\ \A k \in Keys : downOn[k] <= MaxHeld[k]
  /\ xkb \in [ModifierKeys -> Nat]
  /\ base \subseteq ModifierKeys
  /\ mods \subseteq ModifierKeys
  /\ keymap \in Keymaps /\ installed \in Loadable
  /\ file \in {installed, None}
  /\ pendingKeymap \in BOOLEAN
  /\ rate \in Rates
  /\ told \in [Keyboards -> [surfaces : SUBSET Surfaces,
                             mods : SUBSET ModifierKeys,
                             keymap : Keymaps \cup {None},
                             rate : Rates \cup {None}]]

\* A wl_keyboard that was told of an enter and of no leave is on the focus:
\* focused() says leave on every way a surface loses the keyboard.
LeftWithFocus ==
  \A k \in Keyboards : told[k].surfaces \subseteq {focus}

\* The client of the focus hears of it: if it has a wl_keyboard at all, the
\* one that key events go to has been told to enter the focused surface.
FocusHears ==
  focus # None /\ bound[OwnerOf[focus]] # <<>> =>
    /\ focusResource # None
    /\ OwnerOf[focusResource] = OwnerOf[focus]
    /\ focus \in told[focusResource].surfaces

\* focusDestroyListener waits for the focus and for nothing else.
ListensToFocus == listening = {focus} \ {None}

\* Whoever gets the key events knows the modifiers the compositor knows:
\* sendEnter(), updateKeymap() and modifiers() leave no gap.
FocusKnowsModifiers ==
  focusResource # None => told[focusResource].mods = mods

\* The focus is told to clients as it is: a wl_keyboard left has no focus, the
\* client of the focus was told to enter and has the modifiers, and nobody else
\* is listened to.
FocusIsTold ==
  LeftWithFocus /\ FocusHears /\ ListensToFocus /\ FocusKnowsModifiers

\* Between key events the modifiers are those of keys that are down, whatever
\* the scene did to the keymap while it had the event: none that was released,
\* and each one that is recorded and down on one keyboard.
ModifiersOfKeys ==
  handling = None =>
    /\ \A k \in mods : downOn[k] > 0
    /\ \A k \in keys \cap ModifierKeys : downOn[k] = 1 => k \in mods

\* A keymap that had to wait is not forgotten: without keys down and outside
\* an event, the keymap last asked for is the one in use, if it can be loaded
\* and put into a file.
KeymapArrives ==
  handling = None /\ keys = {} /\ keymap \in Loadable /\ file # None =>
    installed = keymap

\* Every client has the keymap that the compositor works with, also after one
\* that could not be loaded: what cannot be used is not announced.
KeymapIsKnown ==
  file # None => \A k \in BoundKeyboards : told[k].keymap = installed

\* Keys that go down and up settle: their modifiers are known for what they are
\* and the keymap asked for while they were down has arrived.
KeysSettle == ModifiersOfKeys /\ KeymapArrives /\ KeymapIsKnown

-----------------------------------------------------------------------------
(* Promises the code does not keep: the README says what refutes them *)

\* updateKeymap(): "There must be no keys pressed when changing the keymap".
KeymapWaitsForKeys ==
  [][installed' # installed => \A k \in Keys : downOn'[k] = 0]_vars

\* Clients know the repeat rate of the keyboard.  setRepeatRate() sends the
\* rate it is about to replace.
RateKnown == \A k \in BoundKeyboards : told[k].rate = rate

=============================================================================
