--------------------------- MODULE LibInputTouch ---------------------------
(***************************************************************************)
(* Touch screens through libinput: the fingers of a device, the list of    *)
(* touch points LibInputTouch keeps for it, and what Qt is told of them.   *)
(*                                                                         *)
(* libinput sends the changes of all slots and then a frame.  The list is  *)
(* sent with the frame, except that the last finger to go sends it itself. *)
(* A slot is in the list once at the most, in whatever order, so the list  *)
(* is here the state of each slot's point.                                 *)
(***************************************************************************)
EXTENDS Null

CONSTANTS Slots,
          OncePerFrame  \* does a slot change at most once in a frame?

TouchStates == {"Pressed", "Moved", "Stationary", "Released"}

ASSUME TouchAssumption == None \notin TouchStates

VARIABLES
  fingers,        \* slots with a finger, as the device sees them
  changed,        \* slots that changed since the last frame
  touchPoints,    \* the state of each slot's point, None if it is not in the list
  pressedInQt,    \* points Qt was told of as pressed and not as released
  misled,         \* was Qt told of a point out of order?
  touchCancelled  \* has the device cancelled its touch points?

touchPointVars ==
  <<fingers, changed, touchPoints, pressedInQt, misled, touchCancelled>>

Listed(points) == {s \in Slots : points[s] # None}
Remaining(points) == {s \in Listed(points) : points[s] # "Released"}

\* handleTouchFrame(): Qt gets the list, released points leave it and pressed
\* ones become stationary.
Deliver(points) ==
  /\ touchPoints' = [s \in Slots |->
       IF points[s] = "Released" THEN None
       ELSE IF points[s] = "Pressed" THEN "Stationary" ELSE points[s]]
  /\ pressedInQt' = Remaining(points)
  /\ misled' = \/ misled
               \/ \E s \in Listed(points) :
                    (points[s] = "Pressed") = (s \in pressedInQt)

Kept(points) == touchPoints' = points /\ UNCHANGED <<pressedInQt, misled>>

-----------------------------------------------------------------------------
MayChange(slot) == OncePerFrame => slot \notin changed

Changes(slot) == changed' = changed \cup {slot} /\ UNCHANGED touchCancelled

\* touchPoint->state is set, if there is a point.
WithState(slot, state) ==
  [touchPoints EXCEPT ![slot] = IF @ = None THEN None ELSE state]

\* A point that is still in the list swallows the new one.
HandleTouchDown(slot) ==
  /\ slot \notin fingers /\ MayChange(slot)
  /\ fingers' = fingers \cup {slot} /\ Changes(slot)
  /\ Kept([touchPoints EXCEPT ![slot] = IF @ = None THEN "Pressed" ELSE @])

\* samePlace: the position Qt knows is that of the event.
HandleTouchMotion(slot, samePlace) ==
  /\ slot \in fingers /\ MayChange(slot)
  /\ Changes(slot)
  /\ Kept(WithState(slot, IF samePlace THEN "Stationary"
                          ELSE IF touchPoints[slot] = "Pressed" THEN "Pressed"
                          ELSE "Moved"))
  /\ UNCHANGED fingers

\* (Mutant) The point leaves the list before Qt has heard that it is released.
HandleTouchUpForget(slot) ==
  /\ slot \in fingers /\ MayChange(slot)
  /\ fingers' = fingers \ {slot} /\ Changes(slot)
  /\ Kept([touchPoints EXCEPT ![slot] = None])

HandleTouchUp(slot) ==
  /\ slot \in fingers /\ MayChange(slot)
  /\ fingers' = fingers \ {slot} /\ Changes(slot)
  /\ LET points == WithState(slot, "Released") IN
     IF touchPoints[slot] # None /\ Remaining(points) = {}
     THEN Deliver(points)
     ELSE Kept(points)

HandleTouchFrame ==
  /\ changed # {}
  /\ changed' = {}
  /\ IF Listed(touchPoints) = {} THEN Kept(touchPoints) ELSE Deliver(touchPoints)
  /\ UNCHANGED <<fingers, touchCancelled>>

\* Qt forgets its points, the list stays.
HandleTouchCancel ==
  /\ fingers # {} /\ changed = {}
  /\ fingers' = {} /\ pressedInQt' = {} /\ touchCancelled' = TRUE
  /\ UNCHANGED <<changed, touchPoints, misled>>

-----------------------------------------------------------------------------
TouchInit ==
  /\ fingers = {} /\ changed = {} /\ touchPoints = [s \in Slots |-> None]
  /\ pressedInQt = {} /\ misled = FALSE /\ touchCancelled = FALSE

TouchNext ==
  \/ \E slot \in Slots :
       \/ HandleTouchDown(slot) \/ HandleTouchUp(slot)
       \/ \E samePlace \in BOOLEAN : HandleTouchMotion(slot, samePlace)
  \/ HandleTouchFrame \/ HandleTouchCancel

TouchSpec == TouchInit /\ [][TouchNext]_touchPointVars

-----------------------------------------------------------------------------
(* Properties *)

TouchTypeOK ==
  /\ fingers \subseteq Slots /\ changed \subseteq Slots
  /\ touchPoints \in [Slots -> TouchStates \cup {None}]
  /\ pressedInQt \subseteq Slots /\ {misled, touchCancelled} \subseteq BOOLEAN

\* After a frame Qt has exactly the points that have a finger, and every point
\* was told in order: pressed first, never pressed twice, and nothing of a
\* point that is gone.  Not so if a slot changes twice in a frame (a point that
\* is pressed and moved to its place is stationary, one that goes and comes
\* back is lost).
FingersAgree == ~touchCancelled => ~misled /\ (changed = {} => pressedInQt = fingers)

\* Not so: the points of the list that was cancelled come back as if Qt still
\* had them.
FingersAgreeAfterCancel == ~misled /\ (changed = {} => pressedInQt = fingers)
=============================================================================
