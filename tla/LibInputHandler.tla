-------------------------- MODULE LibInputHandler --------------------------
(***************************************************************************)
(* libinput as the platform plugin drives it: devices that come and go,    *)
(* the session that takes them away, how many of each kind Qt knows of,    *)
(* and the repeat timer of the keyboard.                                   *)
(*                                                                         *)
(* libinput puts its events into a queue; the handler is called when its   *)
(* file descriptor is readable, and empties it.                            *)
(***************************************************************************)
EXTENDS LibInputTouch, Naturals, Sequences, FiniteSets, SequencesExt

CONSTANTS InputKeyboards, Touchscreens,
          InputKeys, Repeating,  \* the keys, and those that repeat
          MaxQueue, MaxOpened,
          ResumeWorks            \* does libinput_resume() succeed?

InputDevices == InputKeyboards \cup Touchscreens

ASSUME InputAssumption ==
  /\ IsFiniteSet(InputKeyboards) /\ IsFiniteSet(Touchscreens)
  /\ InputKeyboards \cap Touchscreens = {}
  /\ Repeating \subseteq InputKeys
  /\ MaxQueue \in Nat /\ MaxOpened \in Nat \ {0}

VARIABLES
  connected, active,  \* is logind there, is the session active?
  plugged,            \* devices in the machine
  initialized, suspended,
  opened,             \* devices of libinput
  heldKeys,           \* the keys that are down, as libinput sees them
  queue,              \* events of libinput
  readable,           \* is its file descriptor readable?
  keyboardCount, touchCount,
  repeatKey,          \* the key of the active repeat timer, or None
  handles             \* file descriptors of each device that are open

sessionVars == <<connected, active>>
inputDeviceVars == <<plugged, opened, heldKeys>>
countVars   == <<keyboardCount, touchCount>>
inputVars   ==
  <<sessionVars, initialized, suspended, inputDeviceVars, queue, readable,
    countVars, repeatKey, handles>>

InputEvent(type, device, key) == [type |-> type, device |-> device, key |-> key]

AddedEvents(devices) ==
  [i \in 1..Cardinality(devices) |-> InputEvent("Added", SetToSeq(devices)[i], None)]

\* libinput lets go of the keys of a device before it removes it.
RemovedEvents(devices) ==
  LET keys == {h \in heldKeys : h.device \in devices} IN
  [i \in 1..Cardinality(keys) |->
     InputEvent("Release", SetToSeq(keys)[i].device, SetToSeq(keys)[i].key)]
  \o [i \in 1..Cardinality(devices) |-> InputEvent("Removed", SetToSeq(devices)[i], None)]

-----------------------------------------------------------------------------
(* The handler of events *)

\* (Mutant) The release of a key that repeats starts the timer, too.
HandleKeyRestarting(state, e) ==
  [state EXCEPT !.repeat = IF e.key \in Repeating THEN e.key ELSE None]

\* LibInputKeyboard::handleKey(): a key that repeats starts the timer, any
\* other event stops it.
HandleKey(state, e) ==
  [state EXCEPT !.repeat = IF e.type = "Press" /\ e.key \in Repeating
                           THEN e.key ELSE None]

HandleDevice(state, e) ==
  LET Count(n) == IF e.type = "Added" THEN n + 1 ELSE n - 1 IN
  IF e.device \in InputKeyboards THEN [state EXCEPT !.keyboards = Count(@)]
  ELSE [state EXCEPT !.touches = Count(@)]

Handle(state, e) ==
  IF e.type \in {"Press", "Release"} THEN HandleKey(state, e)
  ELSE HandleDevice(state, e)

\* All events, in their order.
Handled(state, events) ==
  LET after[i \in 0..Len(events)] ==
        IF i = 0 THEN state ELSE Handle(after[i - 1], events[i])
  IN  after[Len(events)]

\* _q_liEventHandler()
HandleEvents(events) ==
  LET result == Handled([keyboards |-> keyboardCount, touches |-> touchCount,
                         repeat |-> repeatKey], events)
  IN  /\ keyboardCount' = result.keyboards /\ touchCount' = result.touches
      /\ repeatKey' = result.repeat
      /\ queue' = << >> /\ readable' = FALSE

LiEventHandler ==
  /\ initialized /\ readable
  /\ HandleEvents(queue)
  /\ UNCHANGED <<sessionVars, initialized, suspended, inputDeviceVars, handles>>

\* restrictedOpen() duplicates the descriptor logind gave; restrictedClose()
\* gives the device back to logind and does not close it.
Open(devices) ==
  [d \in InputDevices |-> IF d \in devices THEN handles[d] + 1 ELSE handles[d]]

-----------------------------------------------------------------------------
(* The machine *)

Sees(events) ==
  /\ Len(queue) + Len(events) =< MaxQueue
  /\ queue' = queue \o events /\ readable' = TRUE

\* taken: whether logind lets the process have the device.
Plug(d, taken) ==
  /\ d \notin plugged /\ handles[d] < MaxOpened
  /\ plugged' = plugged \cup {d}
  /\ IF initialized /\ ~suspended /\ taken
     THEN /\ opened' = opened \cup {d} /\ handles' = Open({d})
          /\ Sees(AddedEvents({d}))
     ELSE UNCHANGED <<opened, handles, queue, readable>>
  /\ UNCHANGED <<sessionVars, initialized, suspended, heldKeys, countVars, repeatKey>>

Unplug(d) ==
  /\ d \in plugged
  /\ plugged' = plugged \ {d} /\ opened' = opened \ {d}
  /\ heldKeys' = {h \in heldKeys : h.device # d}
  /\ IF d \in opened THEN Sees(RemovedEvents({d})) ELSE UNCHANGED <<queue, readable>>
  /\ UNCHANGED <<sessionVars, initialized, suspended, countVars, repeatKey, handles>>

PressKey(d, k) ==
  /\ d \in opened \cap InputKeyboards
  /\ \A h \in heldKeys : h # [device |-> d, key |-> k]
  /\ heldKeys' = heldKeys \cup {[device |-> d, key |-> k]}
  /\ Sees(<<InputEvent("Press", d, k)>>)
  /\ UNCHANGED <<sessionVars, initialized, suspended, plugged, opened, countVars,
                 repeatKey, handles>>

ReleaseKey(h) ==
  /\ heldKeys' = heldKeys \ {h}
  /\ Sees(<<InputEvent("Release", h.device, h.key)>>)
  /\ UNCHANGED <<sessionVars, initialized, suspended, plugged, opened, countVars,
                 repeatKey, handles>>

-----------------------------------------------------------------------------
(* The session *)

\* setup(), the first time that logind is connected, active or not.  The
\* devices that are there are added, and their events handled at once.
Connect(taken) ==
  /\ ~connected /\ taken \subseteq plugged
  /\ connected' = TRUE /\ initialized' = TRUE
  /\ opened' = taken /\ handles' = Open(taken)
  /\ HandleEvents(AddedEvents(taken))
  /\ UNCHANGED <<active, suspended, plugged, heldKeys>>

\* sessionActiveChanged(false): suspend() and the event handler.
SessionInactive ==
  /\ active
  /\ active' = FALSE
  /\ IF initialized /\ ~suspended
     THEN /\ suspended' = TRUE /\ opened' = {} /\ heldKeys' = {}
          /\ HandleEvents(queue \o RemovedEvents(opened))
     ELSE UNCHANGED <<suspended, opened, heldKeys, queue, readable, countVars, repeatKey>>
  /\ UNCHANGED <<connected, initialized, plugged, handles>>

\* sessionActiveChanged(true): resume(), without the event handler.  works: the
\* result of libinput_resume().
SessionActive(taken, works) ==
  /\ ~active
  /\ active' = TRUE
  /\ IF initialized /\ suspended /\ works
     THEN /\ taken \subseteq plugged
          /\ \A d \in taken : handles[d] < MaxOpened
          /\ Len(queue) + Cardinality(taken) =< MaxQueue
          /\ suspended' = FALSE /\ opened' = taken /\ handles' = Open(taken)
          /\ queue' = queue \o AddedEvents(taken)
     ELSE taken = {} /\ UNCHANGED <<suspended, opened, handles, queue>>
  /\ UNCHANGED <<connected, initialized, plugged, heldKeys, readable, countVars,
                 repeatKey>>

-----------------------------------------------------------------------------
InputInit ==
  /\ connected = FALSE /\ active \in BOOLEAN
  /\ plugged = {} /\ opened = {} /\ heldKeys = {}
  /\ initialized = FALSE /\ suspended = FALSE
  /\ queue = << >> /\ readable = FALSE
  /\ keyboardCount = 0 /\ touchCount = 0 /\ repeatKey = None
  /\ handles = [d \in InputDevices |-> 0]

InputNext ==
  \/ \E d \in InputDevices : Unplug(d) \/ \E taken \in BOOLEAN : Plug(d, taken)
  \/ \E d \in InputKeyboards, k \in InputKeys : PressKey(d, k)
  \/ \E h \in heldKeys : ReleaseKey(h)
  \/ \E taken \in SUBSET InputDevices : Connect(taken)
  \/ \E taken \in SUBSET InputDevices, works \in BOOLEAN :
       (ResumeWorks => works) /\ SessionActive(taken, works)
  \/ SessionInactive \/ LiEventHandler

InputSpec == InputInit /\ [][InputNext]_inputVars

-----------------------------------------------------------------------------
(* Properties *)

InputTypeOK ==
  /\ {connected, active, initialized, suspended, readable} \subseteq BOOLEAN
  /\ plugged \subseteq InputDevices /\ opened \subseteq plugged
  /\ heldKeys \subseteq [device : opened, key : InputKeys]
  /\ Len(queue) =< MaxQueue
  /\ {keyboardCount, touchCount} \subseteq 0..Cardinality(InputDevices)
  /\ repeatKey \in Repeating \cup {None}
  /\ handles \in [InputDevices -> 0..MaxOpened]

\* Once the events are handled Qt knows of the devices libinput has, whatever
\* was plugged, taken away by the session and given back in between, and a key
\* repeats only as long as it is held: the devices of an inactive session, and
\* keyboards that are pulled out, leave no key that repeats for ever.
DevicesSettle ==
  queue = << >> => /\ keyboardCount = Cardinality(opened \cap InputKeyboards)
                   /\ touchCount = Cardinality(opened \cap Touchscreens)
                   /\ repeatKey # None => \E h \in heldKeys : h.key = repeatKey

\* Qt has the fingers there are after a frame, and the devices and the repeated
\* key there are after the events.
InputSettles == FingersAgree /\ DevicesSettle

\* Not so after resume(): its events wait for other input.
NothingWaits == queue # << >> => readable

\* Not so if logind connects while the session is inactive.
SuspendedWhileInactive == initialized /\ ~active => suspended

\* Not so if libinput_resume() fails: nothing tries again.
ResumedWhileActive == active => ~suspended

\* Not so: restrictedClose() does not close them.
HandlesAreClosed ==
  \A d \in InputDevices : handles[d] = IF d \in opened THEN 1 ELSE 0
=============================================================================
