---------------------------- MODULE XdgConfigure ----------------------------
(***************************************************************************)
(* xdg_surface states: the configure events the compositor sends, the      *)
(* acknowledgements that come back, and who asks for which state.          *)
(*                                                                         *)
(* A window is maximized, fullscreen, being resized or none of these, and   *)
(* activated while it has the keyboard focus.  Every change is a configure *)
(* event that carries all states; it is built from the configure event     *)
(* that lastSentConfigure() returns.  The client applies events when it    *)
(* likes, may skip all but the last, and acknowledges the one it applied.  *)
(***************************************************************************)
EXTENDS Null, Naturals, Sequences, SequencesExt

CONSTANTS XdgSurfaces,   \* windows: a wl_surface with its xdg_surface
          MaxSerial,     \* bound on the serials of configure events
          Prompt,        \* windows with at most one configure unacknowledged
                         \* when the compositor sends the next
          OneGrab,       \* do clients ask for no move or resize during one?
          WrongAcks     \* windows whose client may acknowledge any serial

Modes == {"Maximized", "Fullscreen", "Resizing"}
States == Modes \cup {"Activated"}

ASSUME SerialAssumption == MaxSerial \in Nat
ASSUME BehaviourAssumption ==
  /\ Prompt \subseteq XdgSurfaces /\ WrongAcks \subseteq XdgSurfaces
  /\ OneGrab \in BOOLEAN
ASSUME NoneAssumption == None \notin XdgSurfaces \cup Modes

VARIABLES
  live,        \* windows that exist
  serial,      \* the last serial
  pendingConfigures,
  lastAcked,   \* m_lastAckedConfigure
  focus,       \* the window with the keyboard focus
  grabber,     \* grabberState of the window's shell integration
  toClient,    \* configure events on the way to the client
  toServer,    \* acknowledgements on the way back
  applied,     \* the configure event the client acknowledged last
  signals,     \* what the last ack_configure changed and announced
  wanted       \* history: the state last asked for, besides Activated

serverVars == <<pendingConfigures, lastAcked>>
clientVars == <<toClient, toServer, applied>>
vars == <<live, serial, serverVars, focus, grabber, clientVars, signals, wanted>>

Configure(n, s) == [serial |-> n, states |-> s]
NoConfigure == Configure(0, <<>>)
Silent == [before |-> {}, after |-> {}, changed |-> <<>>]

\* lastSentConfigure(): the first of the pending ones, if any.
LastSentConfigure(x) ==
  IF pendingConfigures[x] = <<>> THEN lastAcked[x] ELSE Head(pendingConfigures[x])

\* removeOne() (a state is listed once) and contains() + append().
Without(s, y) ==
  LET n == CHOOSE i \in DOMAIN s : s[i] = y IN
  IF Contains(s, y)
  THEN [i \in 1..(Len(s) - 1) |-> IF i < n THEN s[i] ELSE s[i + 1]]
  ELSE s
With(s, y) == IF Contains(s, y) THEN s ELSE Append(s, y)

\* sendMaximized(), sendFullscreen() and sendResizing() add their mode and
\* remove the two others, sendUnmaximized() removes all three.
InMode(s, m) ==
  CASE m = None         -> Without(Without(Without(s, "Maximized"),
                                           "Fullscreen"), "Resizing")
    [] m = "Maximized"  -> Without(Without(With(s, m), "Fullscreen"), "Resizing")
    [] m = "Fullscreen" -> Without(Without(With(s, m), "Maximized"), "Resizing")
    [] m = "Resizing"   -> Without(Without(With(s, m), "Maximized"), "Fullscreen")

MaySend(x) == x \in Prompt => Len(pendingConfigures[x]) <= 1

\* sendConfigure().  It casts the window's surface to a compositor to get the
\* serial, so that the counter is not the display's but whatever is found at
\* that place of the surface's memory; it is incremented by the call, which is
\* all that the model uses: serials of a window grow.
SendConfigure(x, s) ==
  /\ serial' = serial + 1
  /\ pendingConfigures' =
       [pendingConfigures EXCEPT ![x] = Append(@, Configure(serial', s))]
  /\ toClient' = [toClient EXCEPT ![x] = Append(@, Configure(serial', s))]

-----------------------------------------------------------------------------
(* Windows and their client *)

CreateSurface(x) ==
  /\ x \notin live
  /\ live' = live \cup {x}
  /\ pendingConfigures' = [pendingConfigures EXCEPT ![x] = <<>>]
  /\ lastAcked' = [lastAcked EXCEPT ![x] = NoConfigure]
  /\ grabber' = [grabber EXCEPT ![x] = "Default"]
  /\ toClient' = [toClient EXCEPT ![x] = <<>>]
  /\ toServer' = [toServer EXCEPT ![x] = <<>>]
  /\ applied' = [applied EXCEPT ![x] = NoConfigure]
  /\ wanted' = [wanted EXCEPT ![x] = None]
  /\ signals' = Silent
  /\ UNCHANGED <<serial, focus>>

\* The wl_surface goes too; the keyboard forgets it without a signal.
DestroySurface(x) ==
  /\ x \in live
  /\ live' = live \ {x}
  /\ focus' = IF focus = x THEN None ELSE focus
  /\ signals' = Silent
  /\ UNCHANGED <<serial, serverVars, grabber, clientVars, wanted>>

\* The client applies the first n events it got and acknowledges the last.
Apply(x, n) ==
  /\ x \in live
  /\ n \in 1..Len(toClient[x])
  /\ applied' = [applied EXCEPT ![x] = toClient[x][n]]
  /\ toServer' = [toServer EXCEPT ![x] = Append(@, toClient[x][n].serial)]
  /\ toClient' = [toClient EXCEPT ![x] = SubSeq(@, n + 1, Len(@))]
  /\ signals' = Silent
  /\ UNCHANGED <<live, serial, serverVars, focus, grabber, wanted>>

Number(y) == CASE y = "Maximized" -> 1 [] y = "Fullscreen" -> 2
               [] y = "Resizing" -> 3 [] y = "Activated" -> 4

\* What is left of two lists when the iterators are at i and j: rest has the
\* results for the positions behind.
Merge(a, b, i, j, rest) ==
  IF i > Len(a) THEN SubSeq(b, j, Len(b))
  ELSE IF j > Len(b) THEN SubSeq(a, i, Len(a))
  ELSE IF a[i] = b[j] THEN rest[<<i + 1, j + 1>>]
  ELSE IF Number(a[i]) < Number(b[j]) THEN <<a[i]>> \o rest[<<i + 1, j>>]
  ELSE <<b[j]>> \o rest[<<i, j + 1>>]

Positions(a, b) == (1..(Len(a) + 1)) \X (1..(Len(b) + 1))

\* std::set_symmetric_difference of two lists, which need not be sorted.
SymmetricDifference(a, b) ==
  LET diff[p \in Positions(a, b)] == Merge(a, b, p[1], p[2], diff)
  IN diff[<<1, 1>>]

\* The pending events that stay when the one with serial n is acknowledged:
\* the loop takes events off the front until it finds it, or none is left.
RestAfter(p, n) ==
  LET found == {i \in DOMAIN p : p[i].serial = n} IN
  IF found = {} THEN <<>>
  ELSE SubSeq(p, (CHOOSE i \in found : \A j \in found : i <= j) + 1, Len(p))

\* (Mutant) The first pending event is taken for the acknowledged one.
FirstPending(p, n) == IF p = <<>> THEN {} ELSE {Head(p)}

\* The pending event that n acknowledges.
Acknowledged(p, n) == {c \in ToSet(p) : c.serial = n}

\* xdg_surface_ack_configure().
AckConfigure(x, n) ==
  /\ pendingConfigures' = [pendingConfigures EXCEPT ![x] = RestAfter(@, n)]
  /\ \/ /\ Acknowledged(pendingConfigures[x], n) = {}
        /\ signals' = Silent
        /\ UNCHANGED lastAcked
     \/ \E c \in Acknowledged(pendingConfigures[x], n) :
          /\ lastAcked' = [lastAcked EXCEPT ![x] = c]
          /\ signals' = [before |-> ToSet(lastAcked[x].states),
                         after |-> ToSet(c.states),
                         changed |-> SymmetricDifference(lastAcked[x].states, c.states)]

HandleAck(x) ==
  /\ x \in live
  /\ toServer[x] # <<>>
  /\ toServer' = [toServer EXCEPT ![x] = Tail(@)]
  /\ AckConfigure(x, Head(toServer[x]))
  /\ UNCHANGED <<live, serial, focus, grabber, toClient, applied, wanted>>

HandleWrongAck(x, n) ==
  /\ x \in WrongAcks
  /\ x \in live
  /\ AckConfigure(x, n)
  /\ UNCHANGED <<live, serial, focus, grabber, clientVars, wanted>>

-----------------------------------------------------------------------------
(* Requests and what the shell makes of them *)

\* (Mutant) The other exclusive states stay.
SetModeAdding(x, m) ==
  /\ x \in live
  /\ MaySend(x)
  /\ SendConfigure(x, IF m = None THEN LastSentConfigure(x).states
                      ELSE With(LastSentConfigure(x).states, m))
  /\ wanted' = [wanted EXCEPT ![x] = m]
  /\ signals' = Silent

\* sendMaximized(), sendFullscreen(), sendResizing(); sendUnmaximized() for
\* None.
SetMode(x, m) ==
  /\ x \in live
  /\ MaySend(x)
  /\ SendConfigure(x, InMode(LastSentConfigure(x).states, m))
  /\ wanted' = [wanted EXCEPT ![x] = m]
  /\ signals' = Silent

\* set_maximized, unset_maximized, set_fullscreen and unset_fullscreen.
Request(x, m) ==
  /\ OneGrab => grabber[x] # "Resize"
  /\ SetMode(x, m)
  /\ UNCHANGED <<live, lastAcked, focus, grabber, toServer, applied>>

\* handleStartMove(), handleStartResize().
StartGrab(x, g) ==
  /\ x \in live
  /\ OneGrab => grabber[x] = "Default"
  /\ grabber' = [grabber EXCEPT ![x] = g]
  /\ signals' = Silent
  /\ UNCHANGED <<live, serial, serverVars, focus, clientVars, wanted>>

\* mouseMoveEvent() of the integration, after its first call.
Drag(x) ==
  /\ grabber[x] = "Resize"
  /\ SetMode(x, "Resizing")
  /\ UNCHANGED <<live, lastAcked, focus, grabber, toServer, applied>>

\* mouseReleaseEvent() of the integration.
Release(x) ==
  /\ x \in live
  /\ grabber[x] # "Default"
  /\ grabber' = [grabber EXCEPT ![x] = "Default"]
  /\ \/ /\ grabber[x] = "Resize"
        /\ SetMode(x, None)
     \/ /\ grabber[x] = "Move"
        /\ signals' = Silent
        /\ UNCHANGED <<serial, pendingConfigures, toClient, wanted>>
  /\ UNCHANGED <<live, lastAcked, focus, toServer, applied>>

\* (Mutant) The window that loses the focus is not told.
FocusConfiguresNewOnly(new, old) ==
  IF new = None THEN <<>>
  ELSE <<[window |-> new, states |-> With(LastSentConfigure(new).states, "Activated")]>>

\* handleFocusChanged(): what handleFocusReceived() and handleFocusLost() send.
FocusConfigures(new, old) ==
  (IF new = None THEN <<>>
   ELSE <<[window |-> new,
           states |-> With(LastSentConfigure(new).states, "Activated")]>>)
  \o (IF old = None THEN <<>>
      ELSE <<[window |-> old,
              states |-> Without(LastSentConfigure(old).states, "Activated")]>>)

\* The seat's keyboardFocusChanged(): the new window hears it first.
SetFocus(new) ==
  LET sends == FocusConfigures(new, focus)
      sentTo(x) == {i \in DOMAIN sends : sends[i].window = x}
      event(i) == Configure(serial + i, sends[i].states)
      added(q) == [x \in XdgSurfaces |->
                     IF sentTo(x) = {} THEN q[x]
                     ELSE Append(q[x], event(CHOOSE i \in sentTo(x) : TRUE))] IN
  /\ new \in live \cup {None}
  /\ new # focus
  /\ \A x \in {new, focus} \ {None} : MaySend(x)
  /\ focus' = new
  /\ serial' = serial + Len(sends)
  /\ pendingConfigures' = added(pendingConfigures)
  /\ toClient' = added(toClient)
  /\ signals' = Silent
  /\ UNCHANGED <<live, lastAcked, grabber, toServer, applied, wanted>>

-----------------------------------------------------------------------------
Init ==
  /\ live = {}
  /\ serial = 0
  /\ pendingConfigures = [x \in XdgSurfaces |-> <<>>]
  /\ lastAcked = [x \in XdgSurfaces |-> NoConfigure]
  /\ focus = None
  /\ grabber = [x \in XdgSurfaces |-> "Default"]
  /\ toClient = [x \in XdgSurfaces |-> <<>>]
  /\ toServer = [x \in XdgSurfaces |-> <<>>]
  /\ applied = [x \in XdgSurfaces |-> NoConfigure]
  /\ signals = Silent
  /\ wanted = [x \in XdgSurfaces |-> None]

ClientNext ==
  \E x \in XdgSurfaces :
    \/ CreateSurface(x) \/ DestroySurface(x)
    \/ \E n \in 1..Len(toClient[x]) : Apply(x, n)
    \/ HandleAck(x)
    \/ \E n \in 0..MaxSerial : HandleWrongAck(x, n)
    \/ \E g \in {"Move", "Resize"} : StartGrab(x, g)

SendNext ==
  \/ \E x \in XdgSurfaces :
       \/ \E m \in {None, "Maximized", "Fullscreen"} : Request(x, m)
       \/ Drag(x) \/ Release(x)
  \/ \E new \in XdgSurfaces \cup {None} : SetFocus(new)

Next == ClientNext \/ (SendNext /\ serial' <= MaxSerial)

Spec == Init /\ [][Next]_vars

-----------------------------------------------------------------------------
(* Properties *)

Configures == [serial : 0..MaxSerial, states : Seq(States)]
Events == [serial : 1..MaxSerial, states : Seq(States)]

\* No state is listed twice.
Distinct(s) == \A i, j \in DOMAIN s : s[i] = s[j] => i = j

\* At most one of Maximized, Fullscreen and Resizing is listed.
Exclusive(s) == \A y, z \in ToSet(s) \cap Modes : y = z

\* Every variable has its type, and the lists of states are what they stand
\* for.
TypeOK ==
  /\ live \subseteq XdgSurfaces
  /\ serial \in 0..MaxSerial
  /\ pendingConfigures \in [XdgSurfaces -> Seq(Events)]
  /\ toClient \in [XdgSurfaces -> Seq(Events)]
  /\ toServer \in [XdgSurfaces -> Seq(1..MaxSerial)]
  /\ lastAcked \in [XdgSurfaces -> Configures]
  /\ applied \in [XdgSurfaces -> Configures]
  /\ grabber \in [XdgSurfaces -> {"Default", "Move", "Resize"}]
  /\ wanted \in [XdgSurfaces -> Modes \cup {None}]
  /\ focus \in live \cup {None}
  /\ \A x \in XdgSurfaces :
       \A c \in {lastAcked[x]} \cup ToSet(pendingConfigures[x]) :
         Distinct(c.states) /\ Exclusive(c.states)

SentIsWanted(x) ==
  LET p == pendingConfigures[x]
      sent == IF p = <<>> THEN lastAcked[x] ELSE Last(p) IN
  sent.serial # 0 =>
    ToSet(sent.states) = ({wanted[x]} \ {None})
                         \cup (IF focus = x THEN {"Activated"} ELSE {})

\* The configure event sent last carries the state last asked for and
\* Activated exactly if the window has the focus.  A client that applies only
\* that one ends up right.
LastSentIsWanted == \A x \in live : SentIsWanted(x)

\* It does for a client that keeps up, whatever the clients do that do not.
PromptSentIsWanted == \A x \in live \cap (Prompt \ WrongAcks) : SentIsWanted(x)

\* Pending events are in the order of their serials and younger than the one
\* acknowledged last: an acknowledgement never takes the state back.
PendingOrdered ==
  \A x \in live : LET p == pendingConfigures[x] IN
    \A i \in DOMAIN p :
      /\ lastAcked[x].serial < p[i].serial /\ p[i].serial <= serial
      /\ \A j \in 1..(i - 1) : p[j].serial < p[i].serial

\* maximized(), fullscreen(), resizing() and activated() say what the client
\* applied, once its acknowledgements are in, however late it is; a client that
\* acknowledges what it did not apply spoils that for itself alone.
AgreesWithClient ==
  \A x \in live \ WrongAcks : toServer[x] = <<>> => lastAcked[x] = applied[x]

\* Whatever the order of the lists, every state that changes is announced:
\* feeding unsorted lists to set_symmetric_difference loses no change.
NoChangeMissed ==
  (signals.before \ signals.after) \cup (signals.after \ signals.before)
    \subseteq ToSet(signals.changed)

\* A window that was told it is being resized is told when that is over.
ResizeEnds ==
  \A x \in live : wanted[x] = "Resizing" => grabber[x] = "Resize"

\* What is wanted of a window is what its client is told in the end: the state
\* asked for, for one that keeps up, and the end of a resize for everyone.
WantedIsSent == PromptSentIsWanted /\ ResizeEnds

\* Acknowledgements are understood: they never take the state back, in the end
\* the compositor has the state of the client, and announced every change.
AcksUnderstood == PendingOrdered /\ AgreesWithClient /\ NoChangeMissed
=============================================================================
