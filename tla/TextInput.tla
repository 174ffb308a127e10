----------------------------- MODULE TextInput -----------------------------
(***************************************************************************)
(* Text input of a seat: which surface has the text focus, which text      *)
(* input is told so, which surfaces are enabled, and what the input method *)
(* knows of the text around the cursor.                                    *)
(*                                                                         *)
(* A client sends a change of its editor in pieces, which take effect with *)
(* update_state.  The pieces travel while the shell moves the focus, and   *)
(* the compositor ignores those that arrive without it.                    *)
(***************************************************************************)
EXTENDS SeatClients

CONSTANTS TextClients, TextSurfaces, TextInputs,
          TextsOf,     \* what may be in the fields of each text input's editor
          MaxRequests, MaxEvents   \* under way, when the next is sent

\* An orderly client has one text input, from before its first surface to the
\* end, and disables it before it enables it elsewhere or destroys the surface.

Fields == {"text", "hints"}

ASSUME TextOwners == \A x \in TextSurfaces \cup TextInputs : OwnerOf[x] \in TextClients
ASSUME NoneIsNoInput == None \notin TextSurfaces \cup TextInputs
ASSUME TextsExist == \A t \in TextInputs, f \in Fields : TextsOf[t][f] # {}

VARIABLES
  textLive,       \* surfaces that exist
  textInputs,     \* resourceMap: of each client, latest first
  textFocus, textResource,
  textListening,  \* where focusDestroyListener is
  textMisused,    \* the listener was inserted into a second list
  enabledSurfaces,
  controls,       \* surfaces whose input method control is enabled
  currentState, pendingState,
  textTold,       \* surfaces each text input was told to enter, and not to leave
  editor,         \* the client's editor
  heard,          \* the surface it believes to have the focus
  requests,       \* of each text input, to the compositor
  events          \* to each text input

textFocusVars  == <<textFocus, textResource, textListening, textMisused, textTold>>
stateVars      == <<currentState, pendingState>>
textClientVars == <<editor, heard>>
textVars == <<textLive, textInputs, textFocusVars, enabledSurfaces, controls, stateVars,
              textClientVars, requests, events>>

\* QWaylandTextInputClientState: a field that is not set has its default.
Default == [f \in Fields |-> None]
NewState == [value |-> Default, changed |-> {}]

BoundInputs == UNION {{textInputs[c][i] : i \in DOMAIN textInputs[c]} : c \in TextClients}

\* resourceMap().value(client)
ResourceOf(s) ==
  LET own == textInputs[OwnerOf[s]] IN IF own = <<>> THEN None ELSE Head(own)

-----------------------------------------------------------------------------
(* Objects *)

CreateTextSurface(s) ==
  /\ s \notin textLive
  /\ OrderlyClients => \A t \in TextInputs : OwnerOf[t] = OwnerOf[s] => t \in BoundInputs
  /\ textLive' = textLive \cup {s}
  /\ UNCHANGED <<textInputs, textFocusVars, enabledSurfaces, controls, stateVars,
                 textClientVars, requests, events>>

\* focusSurfaceDestroyed(), if the listener is there.  What the client sent
\* before has arrived.
DestroyTextSurface(s) ==
  /\ s \in textLive
  /\ \A t \in TextInputs : OwnerOf[t] = OwnerOf[s] => requests[t] = <<>>
  /\ OrderlyClients => \A t \in TextInputs : enabledSurfaces[t] # s
  /\ textLive' = textLive \ {s}
  /\ controls' = controls \ {s}
  /\ IF textListening = s
     THEN textFocus' = None /\ textResource' = None /\ textListening' = None
     ELSE UNCHANGED <<textFocus, textResource, textListening>>
  /\ textTold' = [t \in TextInputs |-> textTold[t] \ {s}]
  /\ heard' = [t \in TextInputs |-> IF heard[t] = s THEN None ELSE heard[t]]
  /\ UNCHANGED <<textInputs, textMisused, enabledSurfaces, stateVars, editor,
                 requests, events>>

BindInput(t) ==
  /\ t \notin BoundInputs
  /\ textInputs' = [textInputs EXCEPT ![OwnerOf[t]] = <<t>> \o @]
  /\ UNCHANGED <<textLive, textFocusVars, enabledSurfaces, controls, stateVars,
                 textClientVars, requests, events>>

\* zwp_text_input_v2_destroy_resource()
DestroyInput(t) ==
  /\ t \in BoundInputs
  /\ requests[t] = <<>>
  /\ OrderlyClients => \A s \in textLive : OwnerOf[s] # OwnerOf[t]
  /\ textInputs' = [textInputs EXCEPT ![OwnerOf[t]] = Removed(@, t)]
  /\ textResource' = IF textResource = t THEN None ELSE textResource
  /\ textTold' = [textTold EXCEPT ![t] = {}]
  /\ heard' = [heard EXCEPT ![t] = None]
  /\ events' = [events EXCEPT ![t] = <<>>]
  /\ UNCHANGED <<textLive, textFocus, textListening, textMisused, enabledSurfaces,
                 controls, stateVars, editor, requests>>

-----------------------------------------------------------------------------
(* Focus *)

\* What setFocus(s) sends, and to whom.
Leaves(s) == textResource # None /\ textFocus # s
Enters(s) == ResourceOf(s) # None /\ (textFocus # s \/ textResource # ResourceOf(s))

TextSent(s) ==
  [t \in TextInputs |->
     events[t]
     \o (IF Leaves(s) /\ t = textResource
         THEN <<[kind |-> "leave", of |-> textFocus]>> ELSE <<>>)
     \o (IF Enters(s) /\ t = ResourceOf(s) THEN <<[kind |-> "enter", of |-> s]>> ELSE <<>>)]

TextTold(s) ==
  [t \in TextInputs |->
     (textTold[t] \ (IF Leaves(s) /\ t = textResource THEN {textFocus} ELSE {}))
     \cup (IF Enters(s) /\ t = ResourceOf(s) THEN {s} ELSE {})]

\* (Mutant) The text of the surface that is left is kept.
SetTextFocusKeeping(s) ==
  /\ s \in textLive
  /\ \A t \in TextInputs : Len(events[t]) < MaxEvents
  /\ textFocus' = s /\ textResource' = ResourceOf(s)
  /\ textListening' = IF Enters(s) THEN s ELSE IF Leaves(s) THEN None ELSE textListening
  /\ textTold' = TextTold(s) /\ events' = TextSent(s)
  /\ UNCHANGED <<textLive, textInputs, textMisused, enabledSurfaces, controls, stateVars,
                 textClientVars, requests>>

\* (Mutant) The surface that is left is not forgotten by the listener.
SetTextFocusListening(s) ==
  /\ s \in textLive
  /\ \A t \in TextInputs : Len(events[t]) < MaxEvents
  /\ textFocus' = s /\ textResource' = ResourceOf(s)
  /\ textListening' = IF Enters(s) THEN s ELSE textListening
  /\ textTold' = TextTold(s) /\ events' = TextSent(s)
  /\ IF Enters(s) THEN currentState' = NewState /\ pendingState' = NewState
     ELSE UNCHANGED stateVars
  /\ UNCHANGED <<textLive, textInputs, textMisused, enabledSurfaces, controls,
                 textClientVars, requests>>

\* takeFocus() of an item: setFocus().
SetTextFocus(s) ==
  /\ s \in textLive
  /\ \A t \in TextInputs : Len(events[t]) < MaxEvents
  /\ textFocus' = s
  /\ textResource' = ResourceOf(s)
  /\ textListening' = IF Enters(s) THEN s ELSE IF Leaves(s) THEN None ELSE textListening
  /\ textMisused' = (Enters(s) /\ ~Leaves(s) /\ textListening # None)
  /\ textTold' = TextTold(s)
  /\ events' = TextSent(s)
  /\ IF Enters(s) THEN currentState' = NewState /\ pendingState' = NewState
     ELSE UNCHANGED stateVars
  /\ UNCHANGED <<textLive, textInputs, enabledSurfaces, controls, textClientVars, requests>>

\* surfaceEnabled() reaches the control of s.
Enable(t, s) ==
  /\ t \in BoundInputs /\ s \in textLive /\ OwnerOf[s] = OwnerOf[t]
  /\ OrderlyClients => enabledSurfaces[t] = None
  /\ enabledSurfaces' = [enabledSurfaces EXCEPT ![t] = s]
  /\ controls' = controls \cup {s}
  /\ UNCHANGED <<textLive, textInputs, textFocusVars, stateVars, textClientVars,
                 requests, events>>

\* surfaceDisabled() reaches the control of the surface, if there is one.
Disable(t) ==
  /\ t \in BoundInputs
  /\ enabledSurfaces[t] # None
  /\ enabledSurfaces' = [enabledSurfaces EXCEPT ![t] = None]
  /\ controls' = controls \ {enabledSurfaces[t]}
  /\ UNCHANGED <<textLive, textInputs, textFocusVars, stateVars, textClientVars,
                 requests, events>>

-----------------------------------------------------------------------------
(* The text around the cursor *)

\* set_surrounding_text, set_content_type and the like.
SetField(r) ==
  /\ r.kind = "set"
  /\ pendingState' = [value |-> [pendingState.value EXCEPT ![r.field] = r.value],
                      changed |-> pendingState.changed \cup {r.field}]
  /\ UNCHANGED currentState

\* (Mutant) A change takes all of the pending state.
UpdateStateWhole(r) ==
  /\ r.kind \in {"change", "full"}
  /\ currentState' = pendingState
  /\ pendingState' = NewState

\* update_state
UpdateState(r) ==
  /\ r.kind \in {"change", "full"}
  /\ currentState' =
       IF r.kind = "full" THEN pendingState
       ELSE [currentState EXCEPT !.value =
               [f \in Fields |-> IF f \in pendingState.changed
                                THEN pendingState.value[f] ELSE @[f]]]
  /\ pendingState' = NewState

\* A request arrives; without the focus it is ignored.
Receive(t) ==
  /\ requests[t] # <<>>
  /\ IF t = textResource THEN SetField(Head(requests[t])) \/ UpdateState(Head(requests[t]))
     ELSE UNCHANGED stateVars
  /\ requests' = [requests EXCEPT ![t] = Tail(@)]
  /\ UNCHANGED <<textLive, textInputs, textFocusVars, enabledSurfaces, controls,
                 textClientVars, events>>

\* sendInputMethodEvent(): the compositor knows what the text will be.
SendInputMethodEvent(text) ==
  /\ textResource # None
  /\ Len(events[textResource]) < MaxEvents
  /\ text \in TextsOf[textResource].text
  /\ currentState' = [currentState EXCEPT !.value["text"] = text]
  /\ events' = [events EXCEPT ![textResource] =
                  Append(@, [kind |-> "commit", of |-> text])]
  /\ UNCHANGED <<textLive, textInputs, textFocusVars, enabledSurfaces, controls,
                 pendingState, textClientVars, requests>>

-----------------------------------------------------------------------------
(* The client *)

SetRequest(t, f) == [kind |-> "set", field |-> f, value |-> editor'[t][f]]
SendRequests(t, batch) == requests' = [requests EXCEPT ![t] = @ \o batch]

\* It answers enter with its whole state, a commit with the changed text.
Hear(t) ==
  LET e == Head(events[t]) IN
  /\ events[t] # <<>>
  /\ Len(requests[t]) < MaxRequests
  /\ events' = [events EXCEPT ![t] = Tail(@)]
  /\ \/ /\ e.kind = "enter"
        /\ heard' = [heard EXCEPT ![t] = IF e.of \in textLive THEN e.of ELSE None]
        /\ UNCHANGED editor
        /\ SendRequests(t, <<SetRequest(t, "text"), SetRequest(t, "hints"),
                             [kind |-> "full"]>>)
     \/ /\ e.kind = "leave"
        /\ heard' = [heard EXCEPT ![t] = IF @ = e.of THEN None ELSE @]
        /\ UNCHANGED <<editor, requests>>
     \/ /\ e.kind = "commit"
        /\ heard[t] # None
        /\ editor' = [editor EXCEPT ![t].text = e.of]
        /\ SendRequests(t, <<SetRequest(t, "text"), [kind |-> "change"]>>)
        /\ UNCHANGED heard
     \/ /\ e.kind = "commit"
        /\ heard[t] = None
        /\ UNCHANGED <<heard, editor, requests>>
  /\ UNCHANGED <<textLive, textInputs, textFocusVars, enabledSurfaces, controls, stateVars>>

\* The user edits what the input method did not.
Edit(t, f, x) ==
  /\ heard[t] # None
  /\ Len(requests[t]) < MaxRequests
  /\ x # editor[t][f]
  /\ editor' = [editor EXCEPT ![t][f] = x]
  /\ SendRequests(t, <<SetRequest(t, f), [kind |-> "change"]>>)
  /\ UNCHANGED <<textLive, textInputs, textFocusVars, enabledSurfaces, controls,
                 stateVars, heard, events>>

-----------------------------------------------------------------------------

TextInit ==
  /\ textLive = {} /\ textInputs = [c \in TextClients |-> <<>>]
  /\ textFocus = None /\ textResource = None
  /\ textListening = None /\ textMisused = FALSE
  /\ enabledSurfaces = [t \in TextInputs |-> None] /\ controls = {}
  /\ currentState = NewState /\ pendingState = NewState
  /\ textTold = [t \in TextInputs |-> {}]
  /\ editor = [t \in TextInputs |-> [f \in Fields |-> CHOOSE x \in TextsOf[t][f] : TRUE]]
  /\ heard = [t \in TextInputs |-> None]
  /\ requests = [t \in TextInputs |-> <<>>] /\ events = [t \in TextInputs |-> <<>>]

TextNext ==
  /\ ~textMisused
  /\ \/ \E s \in TextSurfaces :
          CreateTextSurface(s) \/ DestroyTextSurface(s) \/ SetTextFocus(s)
     \/ \E t \in TextInputs :
          \/ BindInput(t) \/ DestroyInput(t) \/ Disable(t) \/ Receive(t) \/ Hear(t)
          \/ \E s \in TextSurfaces : Enable(t, s)
          \/ \E x \in TextsOf[t].text : SendInputMethodEvent(x)
          \/ \E f \in Fields : \E x \in TextsOf[t][f] : Edit(t, f, x)

TextSpec == TextInit /\ [][TextNext]_textVars

-----------------------------------------------------------------------------

Texts == UNION {UNION {TextsOf[t][f] : f \in Fields} : t \in TextInputs}

TextTypeOK ==
  /\ textLive \subseteq TextSurfaces /\ controls \subseteq TextSurfaces
  /\ textInputs \in [TextClients -> Seq(TextInputs)]
  /\ {textFocus, textListening} \subseteq TextSurfaces \cup {None}
  /\ textResource \in TextInputs \cup {None}
  /\ {enabledSurfaces, heard} \subseteq [TextInputs -> TextSurfaces \cup {None}]
  /\ textTold \in [TextInputs -> SUBSET TextSurfaces]
  /\ {currentState, pendingState} \subseteq
       [value : [Fields -> Texts \cup {None}], changed : SUBSET Fields]
  /\ editor \in [TextInputs -> [Fields -> Texts]]

\* Who has the text focus was told to enter, nobody else believes so, and the
\* compositor hears of the end of a surface it will send a leave for.
FocusedWasTold ==
  /\ \A t \in TextInputs : textTold[t] = IF t = textResource THEN {textFocus} ELSE {}
  /\ textListening = IF textResource = None THEN None ELSE textFocus
  /\ textFocus \in textLive => textResource = ResourceOf(textFocus)

\* A surface accepts input methods while its client has enabled it.
EnabledAgrees ==
  \A s \in textLive : s \in controls <=> \E t \in TextInputs : enabledSurfaces[t] = s

\* (Violated without OrderlyClients) The destroy listener is in one list.
ListenerIsOnce == ~textMisused

\* Who has the text focus was told so and nobody else was, the listener for its
\* end is in one list, and a surface accepts input methods while its client has
\* enabled it.
TextFocusIsTold == FocusedWasTold /\ EnabledAgrees /\ ListenerIsOnce

\* What the input method is told of a surface comes from its client (Qt asks
\* for it only if the surface is enabled).
TextIsOfFocus ==
  \A t \in TextInputs :
    enabledSurfaces[t] # None /\ enabledSurfaces[t] = textFocus =>
      \A f \in Fields : currentState.value[f] \in TextsOf[t][f] \cup {None}

\* However changes, commits and moves of the focus cross: when all has arrived
\* the input method knows the text in the editor that has the focus.
EditorIsKnown ==
  /\ textResource # None
  /\ requests[textResource] = <<>> /\ events[textResource] = <<>>
  => currentState.value = editor[textResource]

\* What the input method knows is of the focus, and is the text in its editor
\* once all has arrived.
TextSettles == TextIsOfFocus /\ EditorIsKnown

\* (Violated) The focus exists.
TextFocusExists == textFocus \in textLive \cup {None}
=============================================================================
