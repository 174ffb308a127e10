------------------------- MODULE ApplicationWindows -------------------------
(***************************************************************************)
(* The windows of the shells: what the application manager knows of them,  *)
(* which one is active, and who gets the focus when one closes.            *)
(*                                                                         *)
(* A ClientWindow is made for every shell surface.  A window of xdg-shell  *)
(* becomes active when its client acknowledges the configure event that    *)
(* says so; wl_shell has no such thing, and its windows follow the         *)
(* keyboard focus directly.  A window whose surface is destroyed leaves    *)
(* the list at once and is deleted by a later event.                       *)
(***************************************************************************)
EXTENDS Null, Naturals, Sequences, FiniteSets

CONSTANTS Windows,     \* wl_surfaces with a shell role, and their ClientWindow
          XdgWindows,  \* those of xdg-shell; the others are of wl_shell
          AppIds,      \* application identifiers
          MappedId,    \* appIdMap: the identifier an application is known by
          StableIds,   \* do clients name the application of a window only once?
          Minimizable, \* the windows that the user or their client minimizes
          KeepUp,      \* xdg windows at most one configure event behind when
                       \* the compositor sends them one of a mode
          MaxPending   \* bound on the configure events a client is behind

ASSUME WindowsAssumption ==
  /\ XdgWindows \subseteq Windows /\ None \notin Windows
  /\ KeepUp \subseteq XdgWindows
  /\ MappedId \in [AppIds -> AppIds] /\ None \notin AppIds

WlWindows == Windows \ XdgWindows

VARIABLES
  windowsList,    \* the windows of the application manager
  closing,        \* windows that left the list and wait to be deleted
  type,           \* type of each window
  parentWindow,   \* parentWindow of each window
  parentSurface,  \* m_parentSurface of each xdg_surface
  appId,          \* appId of each window
  active,         \* windows that are active
  minimized,      \* windows that are minimized
  appIds,         \* the applications the manager has announced
  focusedWindow,
  keyboardFocus,  \* the surface with the keyboard focus
  unacked         \* Activated or not, in the configures not acknowledged

listVars   == <<windowsList, closing>>
parentVars == <<type, parentWindow, parentSurface>>
activeVars == <<active, minimized, focusedWindow>>
focusVars  == <<keyboardFocus, unacked>>
applicationVars == <<listVars, parentVars, appId, appIds, activeVars, focusVars>>

Objects == windowsList \cup closing

-----------------------------------------------------------------------------
(* What several handlers do *)

\* setActive() of windows that become active, and of others that no longer
\* are; the manager remembers the one that became active last.
SetActive(on, off) ==
  /\ active' = (active \ off) \cup on
  /\ focusedWindow' = IF on \subseteq active THEN focusedWindow
                      ELSE CHOOSE w \in on \ active : TRUE

\* Is Activated among the states of lastSentConfigure()?  It returns the first
\* pending event, or what was acknowledged last.
LastSentActivated(w) ==
  IF unacked[w] = <<>> THEN w \in active ELSE Head(unacked[w])

\* handleFocusReceived() of the new surface, handleFocusLost() of the old one.
SendActivated(new, old) ==
  unacked' = [w \in XdgWindows |->
                CASE w = new -> Append(unacked[w], TRUE)
                  [] w = old -> Append(unacked[w], FALSE)
                  [] OTHER   -> unacked[w]]

\* _q_handleFocusChanged() of all windows of wl_shell: only a window of
\* wl_shell takes the activation from them.  All of them are restored.
ActivateWlWindow(new) ==
  IF new \in WlWindows
  THEN /\ SetActive({new}, (WlWindows \cap Objects) \ {new})
       /\ minimized' = minimized \ (WlWindows \cap Objects)
  ELSE UNCHANGED activeVars

\* takeFocus() of a view of s while old has the focus.
TakeFocus(s, old) ==
  IF s = old
  THEN keyboardFocus' = s /\ UNCHANGED <<unacked, activeVars>>
  ELSE /\ keyboardFocus' = s
       /\ SendActivated(s, old)
       /\ ActivateWlWindow(s)

MayFocus == \A w \in XdgWindows : Len(unacked[w]) < MaxPending

-----------------------------------------------------------------------------
(* Requests of the clients *)

\* The shell answers a new shell surface with createWindow().
CreateWindow(w) ==
  /\ w \notin Objects
  /\ windowsList' = windowsList \cup {w}
  /\ UNCHANGED <<closing, parentVars, appId, appIds, activeVars, focusVars>>

\* set_parent, set_transient, set_toplevel, with p = None for no parent.  An
\* xdg_surface announces a type it does not have yet, and nothing else; the
\* shell gives the focus to a window whose type is announced, but not to a
\* transient one of wl_shell that is inactive.
SetParent(w, p, inactive) ==
  /\ w \in windowsList
  /\ p # w
  /\ inactive => w \in WlWindows /\ p # None
  /\ MayFocus
  /\ LET new == IF p = None THEN "TopLevel" ELSE "Transient"
         announced == w \in WlWindows \/ type[w] # new IN
     /\ parentSurface' = [parentSurface EXCEPT ![w] = p]
     /\ type' = [type EXCEPT ![w] = new]
     /\ parentWindow' = [parentWindow EXCEPT ![w] =
          IF announced /\ (p # None \/ w \in WlWindows) THEN p ELSE @]
     /\ IF announced /\ ~inactive THEN TakeFocus(w, keyboardFocus)
        ELSE UNCHANGED <<activeVars, focusVars>>
  /\ UNCHANGED <<listVars, appId, appIds>>

\* (Mutant) The identifier is announced before it is mapped.
NameUnmapped(w, id) ==
  /\ appId' = [appId EXCEPT ![w] = MappedId[id]]
  /\ appIds' = (appIds \ {appId[w]}) \cup {id}

\* setAppId() with _q_appIdChanged(): the old one goes, the new one comes.
Name(w, id) ==
  IF id = appId[w] THEN UNCHANGED <<appId, appIds>>
  ELSE /\ appId' = [appId EXCEPT ![w] = MappedId[id]]
       /\ appIds' = (appIds \ {appId[w]}) \cup {MappedId[id]}

SetAppId(w, id) ==
  /\ w \in windowsList
  /\ StableIds => appId[w] = None
  /\ Name(w, id)
  /\ UNCHANGED <<listVars, parentVars, activeVars, focusVars>>

\* (Mutant) The event is built from what the client acknowledged last.
SendModeOfAcked(w) ==
  /\ w \in XdgWindows \cap windowsList
  /\ Len(unacked[w]) < MaxPending
  /\ w \in KeepUp => Len(unacked[w]) <= 1
  /\ unacked' = [unacked EXCEPT ![w] = Append(@, w \in active)]
  /\ UNCHANGED <<listVars, parentVars, appId, appIds, activeVars, keyboardFocus>>

\* sendMaximized(), sendUnmaximized(), sendFullscreen() and sendResizing(), for
\* requests of the client or the user: an event that takes over Activated.
SendMode(w) ==
  /\ w \in XdgWindows \cap windowsList
  /\ Len(unacked[w]) < MaxPending
  /\ w \in KeepUp => Len(unacked[w]) <= 1
  /\ unacked' = [unacked EXCEPT ![w] = Append(@, LastSentActivated(w))]
  /\ UNCHANGED <<listVars, parentVars, appId, appIds, activeVars, keyboardFocus>>

\* The client acknowledges its next configure event, also for a window that
\* is closing.  A change of the activation or of the mode restores the window.
AckActivation(w) ==
  /\ w \in Objects
  /\ unacked[w] # <<>>
  /\ unacked' = [unacked EXCEPT ![w] = Tail(@)]
  /\ LET activated == Head(unacked[w]) IN
     IF activated = (w \in active)
     THEN /\ minimized' \in {minimized, minimized \ {w}}
          /\ UNCHANGED <<active, focusedWindow>>
     ELSE /\ SetActive(IF activated THEN {w} ELSE {}, {w})
          /\ minimized' = minimized \ {w}
  /\ UNCHANGED <<listVars, parentVars, appId, appIds, keyboardFocus>>

\* The application of w when it leaves: another window may have it too.
Remaining(w) ==
  IF \E x \in windowsList \ {w} : appId[x] = appId[w]
  THEN appIds ELSE appIds \ {appId[w]}

\* The wl_surface goes: it loses the focus, the manager forgets the window,
\* and a transient one hands the focus to its parent's views, if these still
\* show a surface.
CloseWindow(w) ==
  /\ w \in windowsList
  /\ MayFocus
  /\ windowsList' = windowsList \ {w}
  /\ closing' = closing \cup {w}
  /\ appIds' = Remaining(w)
  /\ LET p == parentWindow[w]
         old == IF keyboardFocus = w THEN None ELSE keyboardFocus IN
     IF type[w] = "Transient" /\ p \in windowsList \ {w}
     THEN TakeFocus(p, old)
     ELSE keyboardFocus' = old /\ UNCHANGED <<unacked, activeVars>>
  /\ UNCHANGED <<parentVars, appId>>

-----------------------------------------------------------------------------
(* The shell *)

\* The user or the shell activates a window (activate(), a click).
Activate(w) ==
  /\ w \in windowsList
  /\ MayFocus
  /\ TakeFocus(w, keyboardFocus)
  /\ UNCHANGED <<listVars, parentVars, appId, appIds>>

\* The task bar or the client minimizes a window.
SetMinimized(w) ==
  /\ w \in windowsList \cap Minimizable
  /\ minimized' = minimized \cup {w}
  /\ UNCHANGED <<listVars, parentVars, appId, appIds, active, focusedWindow,
                 focusVars>>

\* The event loop deletes the window; the name stands for a new one.
DeleteWindow(w) ==
  /\ w \in closing
  /\ closing' = closing \ {w}
  /\ type' = [type EXCEPT ![w] = "Unknown"]
  /\ parentWindow' = [parentWindow EXCEPT ![w] = None]
  /\ parentSurface' = [parentSurface EXCEPT ![w] = None]
  /\ appId' = [appId EXCEPT ![w] = None]
  /\ active' = active \ {w}
  /\ minimized' = minimized \ {w}
  /\ unacked' = [x \in XdgWindows |-> IF x = w THEN <<>> ELSE unacked[x]]
  /\ UNCHANGED <<windowsList, appIds, focusedWindow, keyboardFocus>>

-----------------------------------------------------------------------------

ApplicationsInit ==
  /\ windowsList = {} /\ closing = {} /\ active = {} /\ minimized = {}
  /\ appIds = {} /\ focusedWindow = None /\ keyboardFocus = None
  /\ type = [w \in Windows |-> "Unknown"]
  /\ parentWindow = [w \in Windows |-> None]
  /\ parentSurface = [w \in Windows |-> None]
  /\ appId = [w \in Windows |-> None]
  /\ unacked = [w \in XdgWindows |-> <<>>]

ApplicationsNext ==
  \E w \in Windows :
    \/ CreateWindow(w)
    \/ \E p \in windowsList \cup {None}, inactive \in BOOLEAN :
         SetParent(w, p, inactive)
    \/ \E id \in AppIds : SetAppId(w, id)
    \/ w \in XdgWindows /\ AckActivation(w)
    \/ SendMode(w)
    \/ CloseWindow(w)
    \/ Activate(w)
    \/ SetMinimized(w)
    \/ DeleteWindow(w)

ApplicationsSpec == ApplicationsInit /\ [][ApplicationsNext]_applicationVars

-----------------------------------------------------------------------------

ApplicationsTypeOK ==
  /\ windowsList \subseteq Windows /\ closing \subseteq Windows \ windowsList
  /\ type \in [Windows -> {"Unknown", "TopLevel", "Transient"}]
  /\ parentWindow \in [Windows -> Windows \cup {None}]
  /\ parentSurface \in [Windows -> Windows \cup {None}]
  /\ appId \in [Windows -> AppIds \cup {None}]
  /\ active \subseteq Objects /\ minimized \subseteq Objects
  /\ appIds \subseteq AppIds
  /\ focusedWindow \in Windows \cup {None}
  /\ keyboardFocus \in windowsList \cup {None}
  /\ unacked \in [XdgWindows -> Seq(BOOLEAN)]

\* The applications announced are those of the windows, as long as no window
\* changes from one application to another.
ApplicationsHaveWindows ==
  appIds = {appId[w] : w \in windowsList} \ {None}

Settled == \A w \in KeepUp \cap windowsList : unacked[w] = <<>>

\* When the clients that keep up have acknowledged what they were sent, the
\* window with the keyboard focus is active, and no other window of its shell
\* is, whatever became of those of clients that do not keep up.
ActivationFollowsFocus ==
  Settled =>
    /\ keyboardFocus \in KeepUp \cup WlWindows => keyboardFocus \in active
    /\ \A w \in (active \cap windowsList) \ {keyboardFocus} :
         \/ w \in XdgWindows \ KeepUp
         \/ w \in WlWindows /\ keyboardFocus \notin WlWindows

-----------------------------------------------------------------------------
(* Promises the code does not keep: the README says what refutes them *)

\* "if there is no window with the same appId left it means the application
\* was closed" (applicationmanager.cpp:108): no window is left without its
\* application, whatever windows are renamed.
WindowsHaveApplications ==
  \A w \in windowsList : appId[w] # None => appId[w] \in appIds

\* The window with the keyboard focus is active once its client has acknowledged
\* everything, however far it was behind: a mode that was sent with two events
\* pending takes over an Activated that is no longer so.
FocusedIsActive ==
  keyboardFocus \in XdgWindows /\ unacked[keyboardFocus] = <<>> =>
    keyboardFocus \in active

\* The focused window of the manager is the one with the keyboard focus.
FocusedWindowHasFocus ==
  Settled /\ keyboardFocus \in KeepUp \cup WlWindows => focusedWindow = keyboardFocus

\* The focused window of the manager exists.
FocusedWindowExists == focusedWindow \in Objects \cup {None}

\* The parent of a transient window is the one its client named last.
ParentIsCurrent ==
  \A w \in windowsList : type[w] = "Transient" => parentWindow[w] = parentSurface[w]

\* A window that is raised with its parent has one that exists.
ParentExists ==
  \A w \in windowsList : type[w] = "Transient" => parentWindow[w] \in Objects

\* Only a window that becomes active leaves the task bar by itself.
StaysMinimized ==
  [][\A w \in minimized \cap windowsList' : w \in minimized' \/ w \in active']_applicationVars

=============================================================================
