------------------------------- MODULE MCSeat -------------------------------
(***************************************************************************)
(* The seat for TLC, with the input that feeds it: keyboard, pointer and   *)
(* touch devices, touch points and devices of libinput, text input, the    *)
(* selection and drags.  They do not depend on each other, so a behaviour  *)
(* is of one of them (its part) while the others rest in their initial     *)
(* states.                                                                 *)
(***************************************************************************)
EXTENDS KeyboardFocus, PointerFocus, Selection, DragAndDrop,
        TextInput, LibInputHandler, TLC

CONSTANTS c1, c2, c3, s1, s2, s3, s4, v1, v2, kb1, kb2, ptr1, ptr2, tch1, ti1, ti2,
          shift, letter, us, it, typo, slow, fast, left, screen, d1, d2, d3

VARIABLE part

TwoClients    == {c1, c2}
ThreeClients  == {c1, c2, c3}
ThreeSurfaces == {s1, s2, s3}
TwoKeyboards  == {kb1, kb2}
Owned         == [x \in {s1, s3, kb1, ptr1, tch1, ti1, d1, d3} |-> c1]
                 @@ [x \in {s2, kb2, ptr2, ti2, d2} |-> c2] @@ (s4 :> c3)
TwoPointers   == {ptr1, ptr2}
OneTouch      == {tch1}
OneButton     == {left}
TwoSources    == {d1, d2}
ThreeSources  == {d1, d2, d3}
TwoSurfaces   == {s1, s2}
TwoViews      == {v1, v2}
TouchedViews  == {v1}
TwoInputs     == {ti1, ti2}
OneEachAndOne == {s1, s2, s4}
TwoTexts      == (ti1 :> [text |-> {1, 2}, hints |-> {3}])
                 @@ (ti2 :> [text |-> {4}, hints |-> {5}])
TwoKeys       == {shift, letter}
OnlyShift     == {shift}
TwoKeymaps    == {us, it}
ShiftTwice    == (shift :> 2) @@ (letter :> 1)
ThreeKeymaps  == {us, it, typo}
TwoRates      == {slow, fast}
ThreeSlots    == 1..3
OneCursor     == {s3}
OneScreen     == {screen}
OnlyLetter    == {letter}

SeatInit ==
  /\ part \in {"keyboard", "pointer", "touch", "libinput", "text", "selection",
              "drag"}
  /\ Init /\ MouseInit /\ TouchInit /\ InputInit /\ TextInit /\ SelectionInit /\ DragInit
  /\ part # "libinput" => ~active

KeymapsAndRates == Permutations(TwoKeymaps) \cup Permutations(TwoRates)

\* What rests while one of the devices, or some data, moves.
deviceVars == <<vars, mouseVars, touchPointVars, inputVars, textVars>>
dataVars   == <<selectionVars, dragVars>>

DeviceNext ==
  \/ part = "keyboard" /\ Next
     /\ UNCHANGED <<mouseVars, touchPointVars, inputVars, textVars>>
  \/ part = "pointer" /\ MouseNext
     /\ UNCHANGED <<vars, touchPointVars, inputVars, textVars>>
  \/ part = "touch" /\ TouchNext
     /\ UNCHANGED <<vars, mouseVars, inputVars, textVars>>
  \/ part = "libinput" /\ InputNext
     /\ UNCHANGED <<vars, mouseVars, touchPointVars, textVars>>
  \/ part = "text" /\ TextNext
     /\ UNCHANGED <<vars, mouseVars, touchPointVars, inputVars>>

DataNext ==
  \/ part = "selection" /\ SelectionNext /\ UNCHANGED dragVars
  \/ part = "drag" /\ DragNext /\ UNCHANGED selectionVars

SeatNext ==
  \/ DeviceNext /\ UNCHANGED <<part, dataVars>>
  \/ DataNext /\ UNCHANGED <<part, deviceVars>>

SeatSpec == SeatInit /\ [][SeatNext]_<<part, deviceVars, dataVars>>

\* The types of the modules named above.
TypesOK ==
  CASE part = "keyboard"  -> TypeOK
    [] part = "pointer"   -> MouseTypeOK
    [] part = "touch"     -> TouchTypeOK
    [] part = "libinput"  -> InputTypeOK
    [] part = "text"      -> TextTypeOK
    [] part = "selection" -> SelectionTypeOK
    [] part = "drag"      -> DragTypeOK
=============================================================================
