------------------------------ MODULE PopupGrab ------------------------------
(***************************************************************************)
(* Popups of xdg-shell and wl_shell, and the event filter that both share. *)
(*                                                                         *)
(* The filter is installed by the first popup and closes the popups when   *)
(* the user presses a button somewhere else.  It remembers the client and  *)
(* the callback of the popup that installed it.  A press that no item      *)
(* takes closes the popups by a timer of 0 ms, so requests can come in     *)
(* between; one on another client's window does it at once, and the filter *)
(* stays to eat the release.                                               *)
(*                                                                         *)
(* There is one button: further ones go where the first one went.          *)
(***************************************************************************)
EXTENDS Null, Naturals, Sequences, FiniteSets, SequencesExt

CONSTANTS Clients,
          XdgPopups,    \* wl_surfaces that become popups of xdg-shell
          WlPopups,     \* wl_surfaces that become popups of wl_shell
          OwnerOf,      \* the client of each popup
          Mixes         \* the shells that may be used together

ASSUME PopupsAssumption ==
  /\ XdgPopups \cap WlPopups = {} /\ None \notin XdgPopups \cup WlPopups
  /\ OwnerOf \in [XdgPopups \cup WlPopups -> Clients]
  /\ Mixes \subseteq SUBSET {"xdg", "wl"}

Popups == XdgPopups \cup WlPopups

VARIABLES
  shells,             \* the shells in use, chosen once
  xdgPopups,          \* m_xdgPopups: each client's popups, the newest last
  items,              \* xdg popups whose item exists, with its integration
  popupShellSurfaces, \* the popups of wl_shell that are open
  isPopup,            \* surfaces of wl_shell with isPopup
  filter,             \* eventFilterInstalled, client, closePopups
  waitForRelease,
  mousePressTimeout,  \* is the timer active?
  grab,               \* the client with the item that holds the mouse grab
  pressed,            \* is the button down?
  told,               \* open popups that were sent popup_done
  excused             \* popups opened while the filter waits for a release, or
                      \* there when its callback was gone

popupVars  == <<xdgPopups, items, popupShellSurfaces, isPopup>>
filterVars == <<filter, waitForRelease, mousePressTimeout>>
mouseVars  == <<grab, pressed>>
popupGrabVars == <<shells, popupVars, filterVars, mouseVars, told, excused>>

NoFilter == [installed |-> FALSE, client |-> None, closes |-> None]

OpenXdg == UNION {ToSet(xdgPopups[c]) : c \in Clients}
Open == OpenXdg \cup popupShellSurfaces

-----------------------------------------------------------------------------
(* The filter *)

\* startFilter(): only the first popup is remembered.
StartFilter(c, closes) ==
  filter' = IF filter.installed THEN filter
            ELSE [installed |-> TRUE, client |-> c, closes |-> closes]

\* (Mutant) The filter goes with any popup.
CancelFilterAlways(left) ==
  filter' = IF ~waitForRelease THEN [filter EXCEPT !.installed = FALSE] ELSE filter

\* cancelFilter(), called when none of the popups of a shell is left.
CancelFilter(left) ==
  filter' = IF left = {} /\ ~waitForRelease
            THEN [filter EXCEPT !.installed = FALSE] ELSE filter

\* The callback of a popup of xdg-shell reads its integration, which may be
\* gone: then anything may happen, here that nobody is told.
ClosePopups ==
  IF filter.closes \in WlPopups
  THEN /\ told' = told \cup popupShellSurfaces
       /\ popupShellSurfaces' = {}
       /\ UNCHANGED excused
  ELSE /\ \/ told' = told \cup OpenXdg /\ UNCHANGED excused
          \/ /\ filter.closes \notin items
             /\ excused' = excused \cup OpenXdg /\ UNCHANGED told
       /\ UNCHANGED popupShellSurfaces

-----------------------------------------------------------------------------
(* Requests of the clients *)

\* values() of a QMultiMap begins with the newest, so last() is the oldest.
TopmostPopupForClient(c) == xdgPopups[c][1]

IsValidPopupParent(c, parent) ==
  xdgPopups[c] = <<>> \/ parent = TopmostPopupForClient(c)

\* The client goes, or is thrown out: its resources are destroyed.
Disconnect(c) ==
  LET gone == {p \in Popups : OwnerOf[p] = c}
      xdg  == gone \cap OpenXdg
      wl   == gone \cap isPopup IN
  /\ xdgPopups' = [xdgPopups EXCEPT ![c] = <<>>]
  /\ popupShellSurfaces' = popupShellSurfaces \ wl
  /\ isPopup' = isPopup \ wl
  /\ IF xdg # {} /\ OpenXdg = xdg THEN CancelFilter({})
     ELSE IF wl # {} THEN CancelFilter(popupShellSurfaces \ wl)
     ELSE UNCHANGED filter
  /\ told' = told \ gone /\ excused' = excused \ gone
  /\ grab' = IF grab = c THEN None ELSE grab
  /\ UNCHANGED <<shells, items, waitForRelease, mousePressTimeout, pressed>>

\* get_xdg_popup, with parent = None for the window of the client.  A parent
\* that is not valid is an error, after which the client is disconnected.
GetXdgPopup(p, parent) ==
  LET c == OwnerOf[p] IN
  /\ "xdg" \in shells
  /\ p \notin OpenXdg \cup items
  /\ parent \in {None} \cup ToSet(xdgPopups[c])
  /\ IF ~IsValidPopupParent(c, parent)
     THEN Disconnect(c)
     ELSE /\ xdgPopups' = [xdgPopups EXCEPT ![c] = Append(@, p)]
          /\ items' = items \cup {p}
          /\ StartFilter(c, p)
          /\ excused' = IF waitForRelease THEN excused \cup {p} ELSE excused
          /\ UNCHANGED <<shells, popupShellSurfaces, isPopup, waitForRelease,
                         mousePressTimeout, mouseVars, told>>

\* The popups of a client without one of them.
PopupsWithout(q, p) == RemoveAt(q, CHOOSE i \in DOMAIN q : q[i] = p)

\* xdg_popup.destroy, for any popup ("TODO: post error if not topmost popup").
DestroyXdgPopup(p) ==
  LET c == OwnerOf[p] IN
  /\ p \in OpenXdg
  /\ xdgPopups' = [xdgPopups EXCEPT ![c] = PopupsWithout(@, p)]
  /\ CancelFilter(OpenXdg \ {p})
  /\ told' = told \ {p} /\ excused' = excused \ {p}
  /\ UNCHANGED <<shells, items, popupShellSurfaces, isPopup, waitForRelease,
                 mousePressTimeout, mouseVars>>

\* handleSetPopup(), also again for a popup that is there.
SetPopup(w) ==
  /\ "wl" \in shells
  /\ isPopup' = isPopup \cup {w}
  /\ popupShellSurfaces' = popupShellSurfaces \cup {w}
  /\ StartFilter(OwnerOf[w], w)
  /\ told' = told \ {w}
  /\ excused' = IF waitForRelease /\ w \notin popupShellSurfaces
             THEN excused \cup {w} ELSE excused
  /\ UNCHANGED <<shells, xdgPopups, items, waitForRelease, mousePressTimeout,
                 mouseVars>>

\* handleSurfaceUnmapped(), handleShellSurfaceDestroyed(): either ends the
\* popup; a surface that closePopups() took from the list may still do it.
RemoveWlPopup(w) ==
  /\ w \in isPopup
  /\ isPopup' = isPopup \ {w}
  /\ popupShellSurfaces' = popupShellSurfaces \ {w}
  /\ CancelFilter(popupShellSurfaces \ {w})
  /\ told' = told \ {w} /\ excused' = excused \ {w}
  /\ UNCHANGED <<shells, xdgPopups, items, waitForRelease, mousePressTimeout,
                 mouseVars>>

-----------------------------------------------------------------------------
(* The scene *)

\* The item of a popup goes when its animation has ended.
DestroyItem(p) ==
  /\ p \in items \ OpenXdg
  /\ items' = items \ {p}
  /\ UNCHANGED <<shells, xdgPopups, popupShellSurfaces, isPopup, filterVars,
                 mouseVars, told, excused>>

\* A press on a window or popup of client c.  Its item holds the grab.
PressOn(c) ==
  /\ ~pressed
  /\ pressed' = TRUE /\ grab' = c
  /\ IF filter.installed /\ ~waitForRelease
     THEN /\ mousePressTimeout' = FALSE
          /\ IF filter.client = c
             THEN UNCHANGED <<waitForRelease, popupShellSurfaces, told, excused>>
             ELSE waitForRelease' = TRUE /\ ClosePopups
     ELSE UNCHANGED <<waitForRelease, mousePressTimeout, popupShellSurfaces,
                      told, excused>>
  /\ UNCHANGED <<shells, xdgPopups, items, isPopup, filter>>

\* A press that no item takes.
PressOutside ==
  /\ ~pressed
  /\ pressed' = TRUE
  /\ mousePressTimeout' = (mousePressTimeout \/ (filter.installed /\ ~waitForRelease))
  /\ UNCHANGED <<shells, popupVars, filter, waitForRelease, grab, told, excused>>

\* The release goes to the item with the grab, if there is one still.
ReleaseButton ==
  /\ pressed
  /\ pressed' = FALSE /\ grab' = None
  /\ IF grab # None /\ filter.installed /\ waitForRelease
     THEN /\ waitForRelease' = FALSE
          /\ filter' = [filter EXCEPT !.installed = FALSE]
     ELSE UNCHANGED <<filter, waitForRelease>>
  /\ UNCHANGED <<shells, popupVars, mousePressTimeout, told, excused>>

\* timerEvent(), also when the filter was cancelled since the press.
PressTimeout ==
  /\ mousePressTimeout
  /\ mousePressTimeout' = FALSE
  /\ ClosePopups
  /\ filter' = [filter EXCEPT !.installed = FALSE]
  /\ UNCHANGED <<shells, xdgPopups, items, isPopup, waitForRelease, mouseVars>>

-----------------------------------------------------------------------------

PopupsInit ==
  /\ shells \in Mixes
  /\ xdgPopups = [c \in Clients |-> <<>>]
  /\ items = {} /\ popupShellSurfaces = {} /\ isPopup = {}
  /\ filter = NoFilter /\ waitForRelease = FALSE /\ mousePressTimeout = FALSE
  /\ grab = None /\ pressed = FALSE /\ told = {} /\ excused = {}

PopupsNext ==
  \/ \E p \in XdgPopups :
       \/ \E parent \in XdgPopups \cup {None} : GetXdgPopup(p, parent)
       \/ DestroyXdgPopup(p)
       \/ DestroyItem(p)
  \/ \E w \in WlPopups : SetPopup(w) \/ RemoveWlPopup(w)
  \/ \E c \in Clients : PressOn(c) \/ Disconnect(c)
  \/ PressOutside \/ ReleaseButton \/ PressTimeout

PopupsSpec == PopupsInit /\ [][PopupsNext]_popupGrabVars

-----------------------------------------------------------------------------

PopupsTypeOK ==
  /\ shells \in Mixes
  /\ xdgPopups \in [Clients -> Seq(XdgPopups)]
  /\ items \subseteq XdgPopups
  /\ popupShellSurfaces \subseteq isPopup /\ isPopup \subseteq WlPopups
  /\ filter \in [installed : BOOLEAN, client : Clients \cup {None},
                 closes : Popups \cup {None}]
  /\ waitForRelease \in BOOLEAN /\ mousePressTimeout \in BOOLEAN
  /\ pressed \in BOOLEAN /\ grab \in Clients \cup {None}
  /\ told \subseteq Popups /\ excused \subseteq Popups

\* While one shell is in use, the filter is there as long as a popup is open
\* that was not closed by a press, whoever opened it and in whatever order
\* the others go, unless it is excused; and the filter does not outlive the
\* popups but to eat the release of that press.
GrabMatchesPopups ==
  Cardinality(shells) = 1 =>
    /\ Open \ (told \cup excused) # {} => filter.installed
    /\ filter.installed => Open # {} \/ waitForRelease

-----------------------------------------------------------------------------
(* Promises the code does not keep: the README says what refutes them *)

\* "If there is an existing popup when creating a new popup, the parent must
\* be the current topmost popup" (xdg-shell.xml:539): it is accepted then.
TopmostIsValidParent ==
  \A c \in Clients : xdgPopups[c] # <<>> => IsValidPopupParent(c, Last(xdgPopups[c]))

\* The callback of the filter belongs to an integration that exists.
CallbackExists ==
  filter.installed /\ filter.closes \in XdgPopups => filter.closes \in items

\* A popup of one shell stays guarded when those of the other shell go.
AllGuarded == Open \ (told \cup excused) # {} => filter.installed

\* No popup is opened that the next press elsewhere would not close.
NoneUnguarded == Open \ told # {} => filter.installed

=============================================================================
