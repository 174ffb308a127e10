------------------------------ MODULE Selection ------------------------------
(***************************************************************************)
(* Copy and paste: the selection of the data device, the one of the data   *)
(* device manager, and the data that the manager reads from the client so  *)
(* that it outlives it (retained selection).                               *)
(*                                                                         *)
(* The data comes through a pipe for each mime type, so requests of the    *)
(* clients come between the types.  A client is told of the selection when *)
(* it gets the keyboard focus or has it while the selection changes.       *)
(***************************************************************************)
EXTENDS SequencesExt, SeatClients

CONSTANTS Sources,           \* wl_data_sources
          MimeTypes,         \* how many mime types each source offers
          KeyboardClients,   \* clients that have bound a wl_keyboard
          Retains,           \* retainedSelectionEnabled
          Overrides,         \* does the compositor override the selection?
          Compositor

ASSUME SwitchesAssumption == Retains \in BOOLEAN /\ Overrides \in BOOLEAN

VARIABLES
  created,          \* the sources in the order of their times
  alive,            \* those that exist
  devices,          \* clients with a wl_data_device
  copyFocus,        \* the client with the keyboard focus
  copyListening,    \* had it a data device when it got the focus?
  selectionSource,  \* m_selectionSource of the data device
  currentSource,    \* m_current_selection_source of the manager
  replaced,         \* sources that were the selection, and are not
  cancelled,        \* sources that were sent cancelled
  offered,          \* what each client was told the selection is
  reading,          \* is there a m_retainedReadNotifier?
  retainedData,     \* whose data m_retainedData holds, for each type read
  compositorOwnsSelection

sourceVars   == <<created, alive>>
clientVars   == <<devices, copyFocus, copyListening>>
retainedVars == <<reading, retainedData, compositorOwnsSelection>>
selectionVars == <<sourceVars, clientVars, selectionSource, currentSource, replaced,
          cancelled, offered, retainedVars>>

Created == ToSet(created)
OlderThan(a, b) ==
  \E i, j \in DOMAIN created : i < j /\ created[i] = a /\ created[j] = b

-----------------------------------------------------------------------------
(* Clients *)

CreateSource(s) ==
  /\ s \notin Created
  /\ created' = Append(created, s) /\ alive' = alive \cup {s}
  /\ UNCHANGED <<clientVars, selectionSource, currentSource, replaced, cancelled,
                 offered, retainedVars>>

\* ~DataSource(): the device forgets it, the manager only stops reading.
DestroySource(s) ==
  /\ s \in alive
  /\ alive' = alive \ {s}
  /\ selectionSource' = IF selectionSource = s THEN None ELSE selectionSource
  /\ reading' = (reading /\ currentSource # s)
  /\ UNCHANGED <<created, clientVars, currentSource, replaced, cancelled,
                 offered, retainedData, compositorOwnsSelection>>

GetDataDevice(c) ==
  /\ devices' = devices \cup {c}
  /\ UNCHANGED <<sourceVars, copyFocus, copyListening, selectionSource, currentSource,
                 replaced, cancelled, offered, retainedVars>>

\* (Mutant) setFocus() offers the selection of the manager.
SetFocusFromManager(c) ==
  /\ c # copyFocus
  /\ copyFocus' = c /\ copyListening' = (c \in devices)
  /\ offered' = IF c \in devices /\ currentSource # None
                THEN [offered EXCEPT ![c] = currentSource] ELSE offered
  /\ UNCHANGED <<sourceVars, devices, selectionSource, currentSource, replaced,
                 cancelled, retainedVars>>

\* setKeyboardFocus() with DataDevice::setFocus(): a selection is offered, but
\* not that there is none.
SetFocus(c) ==
  /\ c # copyFocus
  /\ copyFocus' = c /\ copyListening' = (c \in devices)
  /\ offered' = IF c \in devices /\ selectionSource # None
                THEN [offered EXCEPT ![c] = selectionSource] ELSE offered
  /\ UNCHANGED <<sourceVars, devices, selectionSource, currentSource, replaced,
                 cancelled, retainedVars>>

\* The surface with the focus is destroyed.
LoseFocus ==
  /\ copyFocus # None
  /\ copyFocus' = None /\ copyListening' = FALSE
  /\ UNCHANGED <<sourceVars, devices, selectionSource, currentSource, replaced,
                 cancelled, offered, retainedVars>>

\* (Mutant) The data that was retained is kept.
ManagerTakesKeeping(s) ==
  /\ currentSource' = s
  /\ compositorOwnsSelection' = FALSE
  /\ reading' = (s # None /\ Retains)
  /\ UNCHANGED retainedData

\* setCurrentSelectionSource(s) of the manager: an older source is refused.
\* The time of a current source that is gone may be any.
ManagerTakes(s) ==
  /\ currentSource' = s
  /\ compositorOwnsSelection' = FALSE
  /\ reading' = (s # None /\ Retains)
  /\ retainedData' = IF s # None /\ Retains THEN <<>> ELSE retainedData

SetCurrentSelectionSource(s) ==
  \/ /\ currentSource = None \/ s = None \/ currentSource \notin alive
        \/ ~OlderThan(s, currentSource)
     /\ ManagerTakes(s)
  \/ /\ currentSource # None /\ s # None
     /\ currentSource \notin alive \/ OlderThan(s, currentSource)
     /\ UNCHANGED <<currentSource, retainedVars>>

\* set_selection: the old source is cancelled, even when it is the new one.
\* The focused client is told if it has a keyboard and a data device.
SetSelection(c, s) ==
  /\ c \in devices
  /\ s # None => s \in alive /\ OwnerOf[s] = c
  /\ cancelled' = cancelled \cup ({selectionSource} \ {None})
  /\ replaced' = (replaced \cup ({selectionSource} \ {None})) \ {s}
  /\ selectionSource' = s
  /\ SetCurrentSelectionSource(s)
  /\ offered' = IF copyFocus \in devices \cap KeyboardClients
                THEN [offered EXCEPT ![copyFocus] = s] ELSE offered
  /\ UNCHANGED <<sourceVars, clientVars>>

-----------------------------------------------------------------------------
(* The compositor *)

\* readFromClient() at the end of the data of a type, with retain().
ReadFromClient ==
  /\ reading
  /\ retainedData' = Append(retainedData, currentSource)
  /\ reading' = (Len(retainedData') < MimeTypes)
  /\ UNCHANGED <<sourceVars, clientVars, selectionSource, currentSource, replaced,
                 cancelled, offered, compositorOwnsSelection>>

\* overrideSelection(), with one type; the data of a read that is under way
\* still comes.
OverrideSelection ==
  /\ Overrides
  /\ copyFocus \in devices \cup {None}
  /\ retainedData' = <<Compositor>>
  /\ compositorOwnsSelection' = TRUE
  /\ offered' = IF copyFocus = None THEN offered
                ELSE [offered EXCEPT ![copyFocus] = Compositor]
  /\ UNCHANGED <<sourceVars, clientVars, selectionSource, currentSource, replaced,
                 cancelled, reading>>

\* QWaylandSurface::updateSelection(), with offerRetainedSelection().
UpdateSelection(c) ==
  /\ c \in devices
  /\ retainedData # <<>>
  /\ compositorOwnsSelection' = TRUE
  /\ offered' = [offered EXCEPT ![c] = Compositor]
  /\ UNCHANGED <<sourceVars, clientVars, selectionSource, currentSource, replaced,
                 cancelled, reading, retainedData>>

-----------------------------------------------------------------------------

SelectionInit ==
  /\ created = <<>> /\ alive = {} /\ devices = {}
  /\ copyFocus = None /\ copyListening = FALSE
  /\ selectionSource = None /\ currentSource = None
  /\ replaced = {} /\ cancelled = {}
  /\ offered = [c \in Clients |-> None]
  /\ reading = FALSE /\ retainedData = <<>> /\ compositorOwnsSelection = FALSE

SelectionNext ==
  \/ \E s \in Sources : CreateSource(s) \/ DestroySource(s)
  \/ \E c \in Clients :
       \/ GetDataDevice(c)
       \/ SetFocus(c)
       \/ \E s \in Sources \cup {None} : SetSelection(c, s)
       \/ UpdateSelection(c)
  \/ LoseFocus \/ ReadFromClient \/ OverrideSelection

SelectionSpec == SelectionInit /\ [][SelectionNext]_selectionVars

-----------------------------------------------------------------------------

SelectionTypeOK ==
  /\ created \in Seq(Sources) /\ alive \subseteq Created
  /\ devices \subseteq Clients /\ copyFocus \in Clients \cup {None}
  /\ copyListening \in BOOLEAN
  /\ selectionSource \in alive \cup {None}
  /\ currentSource \in Created \cup {None}
  /\ cancelled \subseteq Created /\ replaced \subseteq Created
  /\ offered \in [Clients -> Created \cup {None, Compositor}]
  /\ reading \in BOOLEAN /\ compositorOwnsSelection \in BOOLEAN
  /\ retainedData \in Seq(Created \cup {Compositor})

\* A client with the focus knows the selection there is, whoever made it and
\* when, if it can be told: it has a keyboard, and had a data device when it
\* got the focus.  The owner of any earlier one knows that it was replaced.
SelectionTold ==
  /\ /\ selectionSource # None
     /\ copyListening /\ copyFocus \in KeyboardClients
     => \/ offered[copyFocus] = selectionSource
        \/ offered[copyFocus] = Compositor /\ compositorOwnsSelection
  /\ replaced \subseteq cancelled

\* The data retained is that of one selection, although it is read type by
\* type while selections come and go; what is being read is the current one.
RetainedFromOne ==
  /\ \A i \in DOMAIN retainedData : retainedData[i] = retainedData[1]
  /\ reading => /\ currentSource \in alive
                /\ ToSet(retainedData) \subseteq {currentSource}

\* Both: what is pasted is the selection of one client, wherever it is kept.
SelectionIsKnown == SelectionTold /\ RetainedFromOne

-----------------------------------------------------------------------------
(* Promises the code does not keep: the README says what refutes them *)

\* "updates the surface with the compositor's retained clipboard selection.
\* While this is done automatically when the surface receives keyboard focus"
\* (qwaylandsurface.cpp:704).
RetainedIsOffered ==
  copyListening /\ selectionSource = None /\ retainedData # <<>> /\ ~reading
    => offered[copyFocus] = Compositor

\* A client with the focus knows that there is no selection.
NoSelectionIsKnown ==
  selectionSource = None /\ copyListening => offered[copyFocus] \in {None, Compositor}

\* The device and the manager have the same selection.
OneSelection == selectionSource # None => currentSource = selectionSource

\* The selection of the manager exists.
CurrentExists == currentSource \in alive \cup {None}

\* The selection is not a source that was told it was replaced.
SelectionIsNotCancelled == selectionSource \notin cancelled

=============================================================================
