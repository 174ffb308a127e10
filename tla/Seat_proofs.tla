----------------------------- MODULE Seat_proofs -----------------------------
(***************************************************************************)
(* Proofs about the seat for any number of clients, surfaces, views and    *)
(* devices: of KeyboardFocus that keys settle, whatever the scene does in  *)
(* the middle of a key event, and that the focus is told, to clients that  *)
(* hold at most one wl_keyboard; of PointerFocus that events follow the    *)
(* mouse; of Selection that everybody knows the selection; of DragAndDrop  *)
(* that drags settle; of TextInput that the focus is told and that what    *)
(* the input method knows is the client's text; of LibInputTouch and       *)
(* LibInputHandler that Qt knows the fingers, devices and keys there are.  *)
(* The conditions on clients and shell are those of the runs, and each of  *)
(* them is needed.                                                         *)
(***************************************************************************)
EXTENDS KeyboardFocus, PointerFocus, Selection, DragAndDrop, TextInput,
        LibInputHandler, FiniteSetTheorems, WellFoundedInduction, TLAPS

\* The keyboards of a client are its own, and none is listed twice.
Lists ==
  \A c \in Clients :
    /\ \A i \in DOMAIN bound[c] : OwnerOf[bound[c][i]] = c
    /\ \A i, j \in DOMAIN bound[c] : bound[c][i] = bound[c][j] => i = j

\* The key event the scene has is of the key k.
Handles(k) == handling # None /\ handling.key = k

\* On how many keyboards k was down before the event that the scene has.
Before(k) ==
  IF ~Handles(k) THEN downOn[k]
  ELSE IF handling.down THEN downOn[k] - 1 ELSE downOn[k] + 1

\* An event that the scene has is recorded as what it is.
EventIsRecorded ==
  handling # None =>
    /\ handling.down <=> handling.key \in keys
    /\ handling.down => downOn[handling.key] > 0

\* While the scene has a key event, that event is all that xkb_state and the
\* modifiers miss: they know of no press but of keys that were down before it,
\* and of each recorded one on a single keyboard.
EventIsAllThatIsMissing ==
  /\ EventIsRecorded
  /\ \A k \in ModifierKeys : xkb[k] <= Before(k)
  /\ \A k \in base : xkb[k] > 0
  /\ \A k \in keys \cap ModifierKeys : downOn[k] = 1 /\ ~Handles(k) => k \in base
  /\ handling = None =>
       /\ \A k \in mods : downOn[k] > 0
       /\ \A k \in keys \cap ModifierKeys : downOn[k] = 1 => k \in mods

\* Only a keymap that waits for keys to go up, and one that cannot be loaded or
\* has no file, is not installed, and every wl_keyboard has what is in the file.
OnlyPendingIsMissing ==
  /\ ~pendingKeymap /\ keymap \in Loadable /\ file # None => installed = keymap
  /\ pendingKeymap /\ handling = None => keys # {}
  /\ \A k \in BoundKeyboards : told[k].keymap = file

\* The wl_keyboard of the focus, and it alone, was told to enter.
OnlyFocusEntered ==
  /\ focus # None /\ focusResource # None =>
       focus \in told[focusResource].surfaces /\ OwnerOf[focusResource] = OwnerOf[focus]
  /\ focus = None => focusResource = None

\* With one wl_keyboard for each client: the focus has it, and others nothing.
OneEntered ==
  OneEach =>
    /\ \A c \in Clients : bound[c] = <<>> \/ \E k \in Keyboards : bound[c] = <<k>>
    /\ focus # None => focusResource = KeyboardOf(OwnerOf[focus])
    /\ \A k \in Keyboards : told[k].surfaces \subseteq (IF k = focusResource THEN {focus} ELSE {})

Inv ==
  /\ TypeOK
  /\ Lists
  /\ EventIsAllThatIsMissing
  /\ OnlyPendingIsMissing
  /\ ListensToFocus
  /\ FocusKnowsModifiers
  /\ OnlyFocusEntered
  /\ OneEntered

-----------------------------------------------------------------------------
(* Lists of keyboards *)

\* A wl_keyboard is bound if it is in the list of some client.
LEMMA Bound ==
  ASSUME NEW k
  PROVE  k \in BoundKeyboards <=> \E c \in Clients : \E i \in DOMAIN bound[c] : bound[c][i] = k
BY DEF BoundKeyboards

\* And after a step.
LEMMA BoundNext ==
  ASSUME NEW k
  PROVE  k \in BoundKeyboards' <=> \E c \in Clients : \E i \in DOMAIN bound'[c] : bound'[c][i] = k
BY DEF BoundKeyboards

\* Taking a resource out of a list leaves the others, in their order.
LEMMA RemovedLeavesTheRest ==
  ASSUME NEW S, NEW q \in Seq(S), NEW k, k \in {q[i] : i \in DOMAIN q},
         \A i, j \in DOMAIN q : q[i] = q[j] => i = j
  PROVE  /\ Removed(q, k) \in Seq(S)
         /\ \A i \in DOMAIN Removed(q, k) : Removed(q, k)[i] # k
         /\ \A i \in DOMAIN Removed(q, k) : \E j \in DOMAIN q : Removed(q, k)[i] = q[j]
         /\ \A i, j \in DOMAIN Removed(q, k) : Removed(q, k)[i] = Removed(q, k)[j] => i = j
         /\ \A j \in DOMAIN q : q[j] # k => \E i \in DOMAIN Removed(q, k) : Removed(q, k)[i] = q[j]
         /\ Len(q) = 1 => Removed(q, k) = <<>>
<1> DEFINE n == CHOOSE i \in DOMAIN q : q[i] = k
           r == [i \in 1..Len(q) - 1 |-> IF i < n THEN q[i] ELSE q[i + 1]]
<1>1. Removed(q, k) = r
  BY DEF Removed
<1>2. n \in DOMAIN q /\ q[n] = k
  OBVIOUS
<1>3. Len(q) \in Nat /\ DOMAIN q = 1..Len(q)
  OBVIOUS
<1> HIDE DEF n
<1>4. Len(q) - 1 \in Nat
  BY <1>2, <1>3
<1>5. \A i \in 1..Len(q) - 1 :
        /\ i \in DOMAIN q /\ i + 1 \in DOMAIN q
        /\ r[i] = IF i < n THEN q[i] ELSE q[i + 1]
  BY <1>3, <1>4
<1>6. \A i \in 1..Len(q) - 1 : r[i] \in S
  BY <1>5
<1>7. r \in Seq(S) /\ DOMAIN r = 1..Len(q) - 1 /\ Len(r) = Len(q) - 1
  <2>1. r \in [1..Len(q) - 1 -> S]
    BY <1>6
  <2> QED
    BY <1>4, <2>1
<1> HIDE DEF r
\* r[i] comes from the place i or i + 1 of q, which is not n.
<1> DEFINE from(i) == IF i < n THEN i ELSE i + 1
<1>8. \A i \in DOMAIN r : from(i) \in DOMAIN q /\ r[i] = q[from(i)] /\ from(i) # n
  BY <1>2, <1>3, <1>5, <1>7
<1>9. \A i, j \in DOMAIN r : from(i) = from(j) => i = j
  BY <1>2, <1>3, <1>7
<1> HIDE DEF from
<1>10. \A i \in DOMAIN r : r[i] # k
  BY <1>2, <1>8
<1>11. \A i \in DOMAIN r : \E j \in DOMAIN q : r[i] = q[j]
  BY <1>8
<1>12. \A i, j \in DOMAIN r : r[i] = r[j] => i = j
  BY <1>8, <1>9
<1>13. Len(q) = 1 => r = <<>>
  BY <1>7
<1>14. ASSUME NEW j \in DOMAIN q, q[j] # k
       PROVE  \E i \in DOMAIN r : r[i] = q[j]
  <2>1. CASE j < n
    <3>1. j \in DOMAIN r /\ from(j) = j
      BY <1>2, <1>3, <1>7, <2>1 DEF from
    <3> QED
      BY <1>8, <3>1
  <2>2. CASE n < j
    <3>1. j - 1 \in DOMAIN r /\ from(j - 1) = j
      BY <1>2, <1>3, <1>7, <2>2 DEF from
    <3> QED
      BY <1>8, <3>1
  <2> QED
    BY <1>2, <1>3, <1>14, <2>1, <2>2
<1> QED
  BY <1>1, <1>7, <1>10, <1>11, <1>12, <1>13, <1>14

\* A new wl_keyboard comes first in the list of its client.
LEMMA AfterBind ==
  ASSUME NEW k \in Keyboards, Inv, BindKeyboard(k)
  PROVE  /\ bound' \in [Clients -> Seq(Keyboards)]
         /\ Lists'
         /\ BoundKeyboards' = BoundKeyboards \cup {k}
         /\ KeyboardOf(OwnerOf[k])' = k
         /\ \A c \in Clients \ {OwnerOf[k]} : bound'[c] = bound[c]
         /\ OneEach => bound'[OwnerOf[k]] = <<k>>
<1> DEFINE o == OwnerOf[k]
           q == bound[o]
<1>1. o \in Clients /\ q \in Seq(Keyboards) /\ bound \in [Clients -> Seq(Keyboards)]
  BY OwnerAssumption DEF Inv, TypeOK
<1>2. bound' = [bound EXCEPT ![o] = <<k>> \o q] /\ k \notin BoundKeyboards
  BY <1>1 DEF BindKeyboard
<1>3. /\ <<k>> \o q \in Seq(Keyboards)
      /\ DOMAIN (<<k>> \o q) = 1..Len(q) + 1
      /\ (<<k>> \o q)[1] = k
      /\ \A i \in 1..Len(q) + 1 : i # 1 => i - 1 \in DOMAIN q /\ (<<k>> \o q)[i] = q[i - 1]
      /\ \A i \in DOMAIN q : i + 1 \in 1..Len(q) + 1 /\ (<<k>> \o q)[i + 1] = q[i]
      /\ <<k>> \o q # <<>> /\ Head(<<k>> \o q) = k
  BY <1>1
<1>4. OneEach => <<k>> \o q = <<k>>
  <2>1. OneEach => q = <<>>
    BY DEF BindKeyboard
  <2>2. <<k>> \o <<>> = <<k>>
    OBVIOUS
  <2> QED
    BY <2>1, <2>2
<1> DEFINE r == <<k>> \o q
<1>5. bound'[o] = r /\ \A c \in Clients \ {o} : bound'[c] = bound[c]
  BY <1>1, <1>2
<1>6. bound' \in [Clients -> Seq(Keyboards)]
  BY <1>1, <1>2, <1>3
<1> HIDE DEF r
<1>7. /\ DOMAIN r = 1..Len(q) + 1 /\ r[1] = k
      /\ \A i \in 1..Len(q) + 1 : i # 1 => i - 1 \in DOMAIN q /\ r[i] = q[i - 1]
      /\ \A i \in DOMAIN q : i + 1 \in 1..Len(q) + 1 /\ r[i + 1] = q[i]
      /\ r # <<>> /\ Head(r) = k
  BY <1>3 DEF r
<1>8. \A i \in DOMAIN q : q[i] # k /\ OwnerOf[q[i]] = o
  BY <1>1, <1>2, Bound DEF Inv, Lists
<1>9. \A i, j \in DOMAIN q : q[i] = q[j] => i = j
  BY <1>1 DEF Inv, Lists
<1> HIDE DEF q
<1>10. Len(q) \in Nat
  BY <1>1
<1>11. \A i \in DOMAIN r : OwnerOf[r[i]] = o
  BY <1>7, <1>8
<1>12. \A i, j \in DOMAIN r : r[i] = r[j] => i = j
  BY <1>7, <1>8, <1>9, <1>10
<1>13. Lists'
  BY <1>5, <1>11, <1>12 DEF Inv, Lists
<1>14. BoundKeyboards' = BoundKeyboards \cup {k}
  <2> SUFFICES ASSUME NEW j PROVE j \in BoundKeyboards' <=> j = k \/ j \in BoundKeyboards
    OBVIOUS
  <2>1. j \in BoundKeyboards' <=> \E c \in Clients : \E i \in DOMAIN bound'[c] : bound'[c][i] = j
    BY BoundNext
  <2>2. (\E i \in DOMAIN r : r[i] = j) <=> (j = k \/ \E i \in DOMAIN q : q[i] = j)
    <3>1. ASSUME NEW i \in DOMAIN r, r[i] = j
          PROVE  j = k \/ \E l \in DOMAIN q : q[l] = j
      BY <1>7, <3>1
    <3>2. 1 \in DOMAIN r
      BY <1>7, <1>10
    <3>3. ASSUME NEW l \in DOMAIN q, q[l] = j
          PROVE  \E i \in DOMAIN r : r[i] = j
      BY <1>7, <3>3
    <3> QED
      BY <1>7, <3>1, <3>2, <3>3
  <2>3. j \in BoundKeyboards <=> \E c \in Clients : \E i \in DOMAIN bound[c] : bound[c][i] = j
    BY Bound
  <2>4. \A c \in Clients \ {o} :
          (\E i \in DOMAIN bound'[c] : bound'[c][i] = j) <=> \E i \in DOMAIN bound[c] : bound[c][i] = j
    BY <1>5
  <2> QED
    BY <1>1, <1>5, <2>1, <2>2, <2>3, <2>4 DEF q
<1> QED
  BY <1>1, <1>4, <1>5, <1>6, <1>7, <1>13, <1>14 DEF KeyboardOf, r

\* A destroyed wl_keyboard is in no list any more, the others are where they were.
LEMMA AfterDestroy ==
  ASSUME NEW k \in Keyboards, Inv, DestroyKeyboard(k)
  PROVE  /\ bound' \in [Clients -> Seq(Keyboards)]
         /\ Lists'
         /\ BoundKeyboards' \subseteq BoundKeyboards \ {k}
         /\ BoundKeyboards \ {k} \subseteq BoundKeyboards'
         /\ \A c \in Clients \ {OwnerOf[k]} : bound'[c] = bound[c]
         /\ OneEach => bound'[OwnerOf[k]] = <<>> /\ KeyboardOf(OwnerOf[k]) = k
<1> DEFINE o == OwnerOf[k]
           q == bound[o]
           r == Removed(q, k)
<1>1. o \in Clients /\ q \in Seq(Keyboards) /\ bound \in [Clients -> Seq(Keyboards)]
  BY OwnerAssumption DEF Inv, TypeOK
<1>2. bound' = [bound EXCEPT ![o] = r]
  BY <1>1 DEF DestroyKeyboard
<1>3. bound'[o] = r /\ \A c \in Clients \ {o} : bound'[c] = bound[c]
  BY <1>1, <1>2
<1>4. \A i, j \in DOMAIN q : q[i] = q[j] => i = j
  BY <1>1 DEF Inv, Lists
<1>5. k \in {q[i] : i \in DOMAIN q}
  BY Bound DEF DestroyKeyboard, Inv, Lists
<1>6. /\ r \in Seq(Keyboards)
      /\ \A i \in DOMAIN r : r[i] # k
      /\ \A i \in DOMAIN r : \E j \in DOMAIN q : r[i] = q[j]
      /\ \A i, j \in DOMAIN r : r[i] = r[j] => i = j
      /\ \A j \in DOMAIN q : q[j] # k => \E i \in DOMAIN r : r[i] = q[j]
      /\ Len(q) = 1 => r = <<>>
  BY <1>1, <1>4, <1>5, RemovedLeavesTheRest
<1>7. \A i \in DOMAIN q : OwnerOf[q[i]] = o
  BY <1>1 DEF Inv, Lists
<1>8. OneEach => bound'[o] = <<>> /\ KeyboardOf(o) = k
  <2> SUFFICES ASSUME OneEach PROVE r = <<>> /\ KeyboardOf(o) = k
    BY <1>3
  <2>1. q # <<>>
    BY <1>5
  <2>2. PICK j \in Keyboards : q = <<j>>
    BY <1>1, <2>1 DEF Inv, OneEntered
  <2>3. j = k /\ Len(q) = 1 /\ Head(q) = k
    BY <1>5, <2>2
  <2> QED
    BY <1>6, <2>1, <2>3 DEF KeyboardOf
<1>9. bound' \in [Clients -> Seq(Keyboards)]
  BY <1>1, <1>2, <1>6
<1> HIDE DEF q, r
<1>10. \A i \in DOMAIN r : OwnerOf[r[i]] = o
  BY <1>6, <1>7
<1>11. Lists'
  BY <1>3, <1>6, <1>10 DEF Inv, Lists
<1>12. ASSUME NEW j PROVE j \in BoundKeyboards' <=> j \in BoundKeyboards /\ j # k
  <2>1. j \in BoundKeyboards' <=> \E c \in Clients : \E i \in DOMAIN bound'[c] : bound'[c][i] = j
    BY BoundNext
  <2>2. (\E i \in DOMAIN r : r[i] = j) <=> (j # k /\ \E i \in DOMAIN q : q[i] = j)
    BY <1>6
  <2>3. j \in BoundKeyboards <=> \E c \in Clients : \E i \in DOMAIN bound[c] : bound[c][i] = j
    BY Bound
  <2>4. \A c \in Clients \ {o} :
          /\ (\E i \in DOMAIN bound'[c] : bound'[c][i] = j) <=> \E i \in DOMAIN bound[c] : bound[c][i] = j
          /\ \A i \in DOMAIN bound[c] : bound[c][i] # k
    BY <1>3 DEF Inv, Lists
  <2> QED
    BY <1>1, <1>3, <2>1, <2>2, <2>3, <2>4 DEF q
<1> QED
  BY <1>1, <1>3, <1>8, <1>9, <1>11, <1>12

-----------------------------------------------------------------------------
(* The steps *)

\* A step that leaves the lists alone leaves the bound wl_keyboards alone.
LEMMA SameLists ==
  ASSUME bound' = bound
  PROVE  /\ BoundKeyboards' = BoundKeyboards
         /\ Lists <=> Lists'
         /\ \A c : KeyboardOf(c)' = KeyboardOf(c)
BY DEF BoundKeyboards, Lists, KeyboardOf

\* What wl_keyboards are told, spelled out for the provers.
Told == [surfaces : SUBSET Surfaces, mods : SUBSET ModifierKeys,
         keymap : Keymaps \cup {None}, rate : Rates \cup {None}]

\* Nothing exists at the start, and no key is down.
LEMMA InvInit == Init => Inv
<1> SUFFICES ASSUME Init PROVE Inv
  OBVIOUS
<1>1. \A k \in Keyboards : k \notin BoundKeyboards
  BY DEF BoundKeyboards, Init
<1>2. TypeOK
  <2>1. bound \in [Clients -> Seq(Keyboards)]
    BY DEF Init
  <2>2. told \in [Keyboards -> Told]
    BY DEF Init, Unbound, Told
  <2>3. downOn \in [Keys -> Nat] /\ \A k \in Keys : downOn[k] <= MaxHeld[k]
    BY HeldAssumption DEF Init
  <2>4. xkb \in [ModifierKeys -> Nat]
    BY DEF Init, NoKeys
  <2>5. keymap \in Keymaps /\ installed \in Loadable /\ file \in {installed, None}
    BY LoadableAssumption DEF Init
  <2> QED
    BY <2>1, <2>2, <2>3, <2>4, <2>5 DEF Init, TypeOK, Told
<1>3. Lists
  <2>1. \A c \in Clients : bound[c] = <<>>
    BY DEF Init
  <2>2. DOMAIN <<>> = {}
    OBVIOUS
  <2> QED
    BY <2>1, <2>2 DEF Lists
<1>4. EventIsAllThatIsMissing /\ ListensToFocus /\ FocusKnowsModifiers /\ OnlyFocusEntered
  BY ModifierAssumption
  DEF Init, NoKeys, EventIsAllThatIsMissing, EventIsRecorded, Handles, Before, ListensToFocus,
      FocusKnowsModifiers, OnlyFocusEntered
<1>5. OnlyPendingIsMissing
  <2>1. BoundKeyboards = {}
    BY DEF BoundKeyboards, Init
  <2> QED
    BY <2>1 DEF Init, OnlyPendingIsMissing
<1>6. OneEntered
  BY DEF Init, OneEntered, Unbound
<1> QED
  BY <1>2, <1>3, <1>4, <1>5, <1>6 DEF Inv

\* A surface is created, or becomes a cursor.
LEMMA SurfaceSteps ==
  ASSUME Inv, NEW s \in Surfaces, CreateSurface(s) \/ SetCursor(s)
  PROVE  Inv'
<1>1. /\ live \subseteq live' /\ live' \subseteq Surfaces /\ cursors' \subseteq live'
      /\ UNCHANGED <<bound, serverVars, keyVars, mapVars, rate, told>>
  BY DEF CreateSurface, SetCursor, Inv, TypeOK
<1>2. BoundKeyboards' = BoundKeyboards /\ Lists' /\ \A c : KeyboardOf(c)' = KeyboardOf(c)
  BY <1>1, SameLists DEF Inv
<1>3. TypeOK'
  BY <1>1, <1>2 DEF Inv, TypeOK, serverVars, keyVars, mapVars
<1> QED
  BY <1>1, <1>2, <1>3
  DEF Inv, EventIsAllThatIsMissing, EventIsRecorded, Handles, Before, OnlyPendingIsMissing, ListensToFocus,
      FocusKnowsModifiers, OnlyFocusEntered, OneEntered, serverVars, keyVars, mapVars

\* The listener is on the focus, so that the focus does not outlive its surface.
LEMMA DestroySurfaceStep ==
  ASSUME Inv, NEW s \in Surfaces, DestroySurface(s)
  PROVE  Inv'
<1>1. UNCHANGED <<bound, keyVars, mapVars, rate>>
  BY DEF DestroySurface
<1>2. BoundKeyboards' = BoundKeyboards /\ Lists' /\ \A c : KeyboardOf(c)' = KeyboardOf(c)
  BY <1>1, SameLists DEF Inv
<1>3. /\ focus' = IF s = focus THEN None ELSE focus
      /\ focusResource' = IF s = focus THEN None ELSE focusResource
      /\ listening' = {focus'} \ {None}
  BY NoneAssumption DEF DestroySurface, Inv, ListensToFocus, TypeOK
<1>4. \A k \in Keyboards :
        /\ told'[k].surfaces = told[k].surfaces \ {s}
        /\ told'[k].mods = told[k].mods
        /\ told'[k].keymap = told[k].keymap
  BY DEF DestroySurface, Leave, Inv, TypeOK
<1>5. told' \in [Keyboards -> Told]
  BY DEF DestroySurface, Leave, Inv, TypeOK, Told
<1>6. TypeOK'
  BY <1>1, <1>2, <1>3, <1>5
  DEF Inv, TypeOK, DestroySurface, ListensToFocus, keyVars, mapVars, Told
<1>7. EventIsAllThatIsMissing'
  BY <1>1 DEF Inv, EventIsAllThatIsMissing, EventIsRecorded, Handles, Before, keyVars
<1>8. \A k \in BoundKeyboards : k \in Keyboards
  BY Bound DEF Inv, TypeOK
<1>9. OnlyPendingIsMissing'
  BY <1>1, <1>2, <1>4, <1>8 DEF Inv, OnlyPendingIsMissing, keyVars, mapVars
<1>10. focusResource # None => focusResource \in Keyboards
  BY <1>8 DEF Inv, TypeOK
<1>11. FocusKnowsModifiers' /\ OnlyFocusEntered'
  BY <1>1, <1>3, <1>4, <1>10
  DEF Inv, FocusKnowsModifiers, OnlyFocusEntered, keyVars
<1>12. OneEntered'
  BY <1>1, <1>2, <1>3, <1>4 DEF Inv, OneEntered
<1> QED
  BY <1>2, <1>3, <1>6, <1>7, <1>9, <1>11, <1>12 DEF Inv, ListensToFocus

\* A wl_keyboard bound by the client of the focus becomes the focus's.
LEMMA BindKeyboardStep ==
  ASSUME Inv, NEW k \in Keyboards, BindKeyboard(k)
  PROVE  Inv'
<1> DEFINE c == OwnerOf[k]
           t == [Unbound EXCEPT !.keymap = file, !.rate = rate]
           focused == focus # None /\ OwnerOf[focus] = c
<1>1. /\ UNCHANGED <<live, cursors, focus, listening, keyVars, mapVars, rate>>
      /\ told' = [told EXCEPT ![k] = IF focused THEN Enter(t, focus) ELSE t]
      /\ focusResource' = IF focused THEN k ELSE focusResource
      /\ k \notin BoundKeyboards
  BY DEF BindKeyboard
<1>2. /\ bound' \in [Clients -> Seq(Keyboards)] /\ Lists'
      /\ BoundKeyboards' = BoundKeyboards \cup {k}
      /\ KeyboardOf(c)' = k
      /\ \A d \in Clients \ {c} : bound'[d] = bound[d]
      /\ OneEach => bound'[c] = <<k>>
  BY AfterBind
<1>3. t = [surfaces |-> {}, mods |-> {}, keymap |-> file, rate |-> rate]
  <2>1. t = [x \in DOMAIN Unbound |-> IF x = "rate" THEN rate
                                     ELSE IF x = "keymap" THEN file ELSE Unbound[x]]
    BY DEF Unbound
  <2>2. DOMAIN Unbound = {"surfaces", "mods", "keymap", "rate"}
        /\ Unbound.surfaces = {} /\ Unbound.mods = {}
    BY DEF Unbound
  <2> QED
    BY <2>1, <2>2
<1> HIDE DEF t
<1>4. /\ told'[k].keymap = file
      /\ focused => told'[k].surfaces = {focus} /\ told'[k].mods = mods
      /\ ~focused => told'[k].surfaces = {}
      /\ \A j \in Keyboards \ {k} : told'[j] = told[j]
  BY <1>1, <1>3 DEF Enter, Inv, TypeOK
<1>5. told' \in [Keyboards -> Told]
  <2>1. t \in Told
    <3>1. file \in Keymaps \cup {None} /\ rate \in Rates
      BY LoadableAssumption DEF Inv, TypeOK
    <3> QED
      BY <1>3, <3>1 DEF t, Unbound, Told
  <2>2. focused => Enter(t, focus) \in Told
    BY <2>1 DEF Enter, Inv, TypeOK, Told
  <2>3. told \in [Keyboards -> Told]
    BY DEF Inv, TypeOK, Told
  <2> QED
    BY <1>1, <2>1, <2>2, <2>3
<1>6. TypeOK'
  BY <1>1, <1>2, <1>5 DEF Inv, TypeOK, keyVars, mapVars, Told
<1>7. EventIsAllThatIsMissing'
  BY <1>1 DEF Inv, EventIsAllThatIsMissing, EventIsRecorded, Handles, Before, keyVars
<1>8. \A j \in BoundKeyboards : j \in Keyboards
  BY Bound DEF Inv, TypeOK
<1>9. OnlyPendingIsMissing'
  BY <1>1, <1>2, <1>4, <1>8 DEF Inv, OnlyPendingIsMissing, keyVars, mapVars
<1>10. focusResource # None => focusResource \in Keyboards \ {k}
  BY <1>1, <1>8 DEF Inv, TypeOK
<1>11. FocusKnowsModifiers' /\ OnlyFocusEntered'
  BY <1>1, <1>4, <1>10, NoneAssumption
  DEF Inv, FocusKnowsModifiers, OnlyFocusEntered, keyVars
<1>12. OneEntered'
  <2> SUFFICES ASSUME OneEach PROVE OneEntered'
    BY DEF OneEntered
  <2>1. \A d \in Clients : bound'[d] = <<>> \/ \E j \in Keyboards : bound'[d] = <<j>>
    BY <1>2 DEF Inv, OneEntered
  <2>2. focused => focusResource = None
    BY NoneAssumption DEF BindKeyboard, KeyboardOf, Inv, OneEntered
  <2>3. focus' # None => focusResource' = KeyboardOf(OwnerOf[focus])'
    <3> SUFFICES ASSUME focus # None PROVE focusResource' = KeyboardOf(OwnerOf[focus])'
      BY <1>1
    <3>1. OwnerOf[focus] \in Clients
      BY OwnerAssumption DEF Inv, TypeOK
    <3>2. CASE OwnerOf[focus] = c
      BY <1>1, <1>2, <3>2
    <3>3. CASE OwnerOf[focus] # c
      BY <1>1, <1>2, <3>1, <3>3 DEF KeyboardOf, Inv, OneEntered
    <3> QED
      BY <3>2, <3>3
  <2>4. \A j \in Keyboards :
          told'[j].surfaces \subseteq (IF j = focusResource' THEN {focus'} ELSE {})
    BY <1>1, <1>4, <1>10, <2>2, NoneAssumption DEF Inv, OneEntered
  <2> QED
    BY <2>1, <2>3, <2>4 DEF OneEntered
<1> QED
  BY <1>1, <1>2, <1>6, <1>7, <1>9, <1>11, <1>12 DEF Inv, ListensToFocus

\* The focus's wl_keyboard is forgotten when it goes away.
LEMMA DestroyKeyboardStep ==
  ASSUME Inv, NEW k \in Keyboards, DestroyKeyboard(k)
  PROVE  Inv'
<1>1. /\ UNCHANGED <<live, cursors, focus, listening, keyVars, mapVars, rate>>
      /\ told' = [told EXCEPT ![k] = Unbound]
      /\ focusResource' = IF focusResource = k THEN None ELSE focusResource
  BY DEF DestroyKeyboard
<1>2. /\ bound' \in [Clients -> Seq(Keyboards)] /\ Lists'
      /\ BoundKeyboards' \subseteq BoundKeyboards \ {k}
      /\ BoundKeyboards \ {k} \subseteq BoundKeyboards'
      /\ \A c \in Clients \ {OwnerOf[k]} : bound'[c] = bound[c]
      /\ OneEach => bound'[OwnerOf[k]] = <<>> /\ KeyboardOf(OwnerOf[k]) = k
  BY AfterDestroy
<1>3. /\ told'[k].surfaces = {}
      /\ \A j \in Keyboards \ {k} : told'[j] = told[j]
  BY <1>1 DEF Unbound, Inv, TypeOK
<1>4. told' \in [Keyboards -> Told]
  BY <1>1 DEF Unbound, Inv, TypeOK, Told
<1>5. TypeOK'
  BY <1>1, <1>2, <1>4 DEF Inv, TypeOK, keyVars, mapVars, Told
<1>6. EventIsAllThatIsMissing'
  BY <1>1 DEF Inv, EventIsAllThatIsMissing, EventIsRecorded, Handles, Before, keyVars
<1>7. \A j \in BoundKeyboards : j \in Keyboards
  BY Bound DEF Inv, TypeOK
<1>8. OnlyPendingIsMissing'
  BY <1>1, <1>2, <1>3, <1>7 DEF Inv, OnlyPendingIsMissing, keyVars, mapVars
<1>9. focusResource # None => focusResource \in Keyboards
  BY <1>7 DEF Inv, TypeOK
<1>10. FocusKnowsModifiers' /\ OnlyFocusEntered'
  BY <1>1, <1>3, <1>9 DEF Inv, FocusKnowsModifiers, OnlyFocusEntered, keyVars
<1>11. OneEntered'
  <2> SUFFICES ASSUME OneEach PROVE OneEntered'
    BY DEF OneEntered
  <2>1. \A d \in Clients : bound'[d] = <<>> \/ \E j \in Keyboards : bound'[d] = <<j>>
    BY <1>2 DEF Inv, OneEntered
  <2>2. focus' # None => focusResource' = KeyboardOf(OwnerOf[focus])'
    <3> SUFFICES ASSUME focus # None PROVE focusResource' = KeyboardOf(OwnerOf[focus])'
      BY <1>1
    <3>1. OwnerOf[focus] \in Clients /\ focusResource = KeyboardOf(OwnerOf[focus])
      BY OwnerAssumption DEF Inv, TypeOK, OneEntered
    <3>2. CASE OwnerOf[focus] = OwnerOf[k]
      BY <1>1, <1>2, <3>1, <3>2 DEF KeyboardOf
    <3>3. CASE OwnerOf[focus] # OwnerOf[k]
      <4>1. KeyboardOf(OwnerOf[focus])' = KeyboardOf(OwnerOf[focus])
        BY <1>1, <1>2, <3>1, <3>3 DEF KeyboardOf
      <4>2. focusResource # k
        BY <3>1, <3>3, NoneAssumption DEF Inv, OnlyFocusEntered
      <4> QED
        BY <1>1, <3>1, <4>1, <4>2
    <3> QED
      BY <3>2, <3>3
  <2>3. \A j \in Keyboards :
          told'[j].surfaces \subseteq (IF j = focusResource' THEN {focus'} ELSE {})
    BY <1>1, <1>3, <1>9, NoneAssumption DEF Inv, OneEntered
  <2> QED
    BY <2>1, <2>2, <2>3 DEF OneEntered
<1> QED
  BY <1>1, <1>2, <1>5, <1>6, <1>8, <1>10, <1>11 DEF Inv, ListensToFocus

\* The loser is told to leave and the winner to enter, unless they are the same.
LEMMA SetKeyboardFocusStep ==
  ASSUME Inv, NEW s \in Surfaces, SetKeyboardFocus(s)
  PROVE  Inv'
<1> DEFINE n == IF s \in cursors THEN None ELSE s
           r == IF n = None THEN None ELSE KeyboardOf(OwnerOf[n])
           loser == IF focus # n THEN focusResource ELSE None
           gone(k) == IF k = loser THEN Leave(told[k], focus) ELSE told[k]
           hears(k) == k = r /\ (focus # n \/ focusResource # r)
<1>1. /\ UNCHANGED <<live, cursors, bound, keyVars, mapVars, rate>>
      /\ s \in live
      /\ focus' = n /\ focusResource' = r
      /\ listening' = IF focus = n THEN listening ELSE {n} \ {None}
      /\ told' = [k \in Keyboards |-> IF hears(k) THEN Enter(gone(k), n) ELSE gone(k)]
  BY DEF SetKeyboardFocus, Focused
<1>2. BoundKeyboards' = BoundKeyboards /\ Lists' /\ \A c : KeyboardOf(c)' = KeyboardOf(c)
  BY <1>1, SameLists DEF Inv
<1>3. n \in live \cup {None}
  BY <1>1
<1>4. r # None => n # None /\ r \in BoundKeyboards /\ OwnerOf[r] = OwnerOf[n]
  <2> SUFFICES ASSUME r # None PROVE n # None /\ r \in BoundKeyboards /\ OwnerOf[r] = OwnerOf[n]
    OBVIOUS
  <2>1. n \in Surfaces /\ OwnerOf[n] \in Clients
    BY <1>3, OwnerAssumption DEF Inv, TypeOK
  <2>2. bound[OwnerOf[n]] \in Seq(Keyboards) /\ bound[OwnerOf[n]] # <<>> /\ r = Head(bound[OwnerOf[n]])
    BY <2>1 DEF KeyboardOf, Inv, TypeOK
  <2>3. 1 \in DOMAIN bound[OwnerOf[n]] /\ bound[OwnerOf[n]][1] = r
    BY <2>2
  <2> QED
    BY <2>1, <2>3, Bound DEF Inv, Lists
<1>5. \A j \in BoundKeyboards : j \in Keyboards
  BY Bound DEF Inv, TypeOK
<1>6. \A k \in Keyboards :
        /\ told'[k].keymap = told[k].keymap
        /\ hears(k) => n \in told'[k].surfaces /\ told'[k].mods = mods
        /\ ~hears(k) => told'[k] = gone(k)
        /\ told'[k].surfaces \subseteq gone(k).surfaces \cup (IF k = r THEN {n} ELSE {})
        /\ gone(k).mods = told[k].mods
        /\ gone(k).surfaces = IF k = loser THEN told[k].surfaces \ {focus} ELSE told[k].surfaces
  BY <1>1 DEF Enter, Leave, Inv, TypeOK
<1>7. told' \in [Keyboards -> Told]
  <2>1. \A k \in Keyboards : gone(k) \in Told
    BY DEF Leave, Inv, TypeOK, Told
  <2>2. ASSUME NEW k \in Keyboards, hears(k)
        PROVE  Enter(gone(k), n) \in Told
    <3>1. n \in Surfaces
      BY <1>3, <1>4, <2>2, NoneAssumption DEF Inv, TypeOK
    <3> DEFINE t == gone(k)
    <3>2. t \in Told
      BY <2>1
    <3> HIDE DEF t
    <3>3. Enter(t, n) \in Told
      BY <3>1, <3>2 DEF Enter, Inv, TypeOK, Told
    <3> QED
      BY <3>3 DEF t
  <2> QED
    BY <1>1, <2>1, <2>2
<1> HIDE DEF n, r
<1>8. TypeOK'
  BY <1>1, <1>2, <1>3, <1>4, <1>7, NoneAssumption
  DEF Inv, TypeOK, ListensToFocus, keyVars, mapVars, Told
<1>9. EventIsAllThatIsMissing'
  BY <1>1 DEF Inv, EventIsAllThatIsMissing, EventIsRecorded, Handles, Before, keyVars
<1>10. OnlyPendingIsMissing'
  <2>1. UNCHANGED <<pendingKeymap, installed, file, keymap, handling, keys>>
    BY <1>1 DEF keyVars, mapVars
  <2>2. \A k \in BoundKeyboards : told'[k].keymap = file
    <3> HIDE DEF gone, hears
    <3> QED
      BY <1>5, <1>6 DEF Inv, OnlyPendingIsMissing
  <2> QED
    BY <1>2, <2>1, <2>2 DEF Inv, OnlyPendingIsMissing
<1>11. ListensToFocus'
  <2>1. listening' = IF focus = n THEN {focus} \ {None} ELSE {n} \ {None}
    BY <1>1 DEF Inv, ListensToFocus
  <2> QED
    BY <1>1, <2>1 DEF ListensToFocus
<1>12. FocusKnowsModifiers'
  BY <1>1, <1>4, <1>5, <1>6 DEF Inv, FocusKnowsModifiers, keyVars
<1>13. OnlyFocusEntered'
  BY <1>1, <1>4, <1>5, <1>6 DEF Inv, OnlyFocusEntered
<1>14. OneEntered'
  <2> SUFFICES ASSUME OneEach PROVE OneEntered'
    BY DEF OneEntered
  <2>1. \A d \in Clients : bound'[d] = <<>> \/ \E j \in Keyboards : bound'[d] = <<j>>
    BY <1>1 DEF Inv, OneEntered
  <2>2. focus' # None => focusResource' = KeyboardOf(OwnerOf[focus])'
    BY <1>1, <1>2 DEF r
  <2>3. ASSUME NEW k \in Keyboards
        PROVE  told'[k].surfaces \subseteq (IF k = focusResource' THEN {focus'} ELSE {})
    <3>1. told[k].surfaces \subseteq (IF k = focusResource THEN {focus} ELSE {})
      BY DEF Inv, OneEntered
    <3>2. CASE focus # n
      <4>1. gone(k).surfaces = {}
        BY <1>6, <3>1, <3>2
      <4> QED
        BY <1>1, <1>6, <4>1
    <3>3. CASE focus = n /\ n # None
      <4>1. focusResource = r
        BY <3>3 DEF r, Inv, OneEntered
      <4> QED
        BY <1>1, <1>6, <3>1, <3>3, <4>1, NoneAssumption
    <3>4. CASE focus = n /\ n = None
      <4>1. told[k].surfaces = {}
        BY <3>1, <3>4, NoneAssumption DEF Inv, OnlyFocusEntered
      <4> QED
        BY <1>1, <1>4, <1>6, <3>4, <4>1, NoneAssumption
    <3> QED
      BY <3>2, <3>3, <3>4
  <2> QED
    BY <2>1, <2>2, <2>3 DEF OneEntered
<1> QED
  BY <1>2, <1>8, <1>9, <1>10, <1>11, <1>12, <1>13, <1>14 DEF Inv

\* A step that changes only what wl_keyboards know of keys, keymap and rate
\* keeps all that is said of surfaces and lists.
LEMMA FocusUntouched ==
  ASSUME Inv, UNCHANGED <<bound, focus, focusResource, listening, live>>,
         \A k \in Keyboards : told'[k].surfaces = told[k].surfaces
  PROVE  /\ BoundKeyboards' = BoundKeyboards
         /\ BoundKeyboards \subseteq Keyboards
         /\ focusResource # None => focusResource \in BoundKeyboards
         /\ Lists' /\ ListensToFocus' /\ OnlyFocusEntered' /\ OneEntered'
<1>1. BoundKeyboards' = BoundKeyboards /\ Lists' /\ \A c : KeyboardOf(c)' = KeyboardOf(c)
  BY SameLists DEF Inv
<1>2. BoundKeyboards \subseteq Keyboards
  BY Bound DEF Inv, TypeOK
<1>3. focusResource # None => focusResource \in BoundKeyboards
  BY DEF Inv, TypeOK
<1>4. ListensToFocus'
  BY DEF Inv, ListensToFocus
<1>5. OnlyFocusEntered'
  BY <1>2, <1>3 DEF Inv, OnlyFocusEntered
<1>6. OneEntered'
  BY <1>1 DEF Inv, OneEntered
<1> QED
  BY <1>1, <1>2, <1>3, <1>4, <1>5, <1>6

\* The event given to the scene is what xkb_state does not know yet.
LEMMA KeyEventStep ==
  ASSUME Inv, NEW k \in Keys, NEW down \in BOOLEAN, KeyEvent(k, down)
  PROVE  Inv'
<1>1. /\ UNCHANGED <<live, cursors, bound, focus, focusResource, listening, xkb, base, mods,
                     keymap, pendingKeymap, installed, file, rate, told>>
      /\ handling = None
      /\ downOn[k] \in IF down THEN 0..(MaxHeld[k] - 1) ELSE 1..MaxHeld[k]
      /\ downOn' = [downOn EXCEPT ![k] = IF down THEN @ + 1 ELSE @ - 1]
      /\ keys' = IF down THEN keys \cup {k} ELSE keys \ {k}
      /\ handling' = [key |-> k, down |-> down]
  BY DEF KeyEvent, serverVars, mapVars
<1>2. BoundKeyboards' = BoundKeyboards /\ Lists' /\ ListensToFocus' /\ OnlyFocusEntered' /\ OneEntered'
  BY <1>1, FocusUntouched
<1>3. handling' \in [key : Keys, down : BOOLEAN] /\ handling' # None
  BY <1>1, NoneAssumption
<1>4. /\ downOn[k] \in Nat /\ downOn \in [Keys -> Nat] /\ MaxHeld[k] \in Nat
      /\ downOn'[k] = IF down THEN downOn[k] + 1 ELSE downOn[k] - 1
      /\ \A j \in Keys \ {k} : downOn'[j] = downOn[j]
      /\ downOn' \in [Keys -> Nat] /\ downOn'[k] <= MaxHeld[k]
  <2>1. downOn[k] \in Nat /\ downOn \in [Keys -> Nat] /\ MaxHeld[k] \in Nat
    BY HeldAssumption DEF Inv, TypeOK
  <2>2. (IF down THEN downOn[k] + 1 ELSE downOn[k] - 1) \in Nat
    BY <1>1, <2>1
  <2> QED
    BY <1>1, <2>1, <2>2
<1>5. \A j \in Keys : downOn'[j] <= MaxHeld[j]
  BY <1>4 DEF Inv, TypeOK
<1>6. TypeOK'
  BY <1>1, <1>2, <1>3, <1>4, <1>5 DEF Inv, TypeOK
<1>7. EventIsAllThatIsMissing'
  <2>1. /\ handling'.key = k /\ handling'.down = down
        /\ \A j : Handles(j)' <=> j = k
    BY <1>1, <1>3 DEF Handles
  <2>2. \A j \in Keys : Before(j)' = downOn[j]
    <3> SUFFICES ASSUME NEW j \in Keys PROVE Before(j)' = downOn[j]
      OBVIOUS
    <3>1. CASE j = k
      BY <1>4, <2>1, <3>1 DEF Before
    <3>2. CASE j # k
      BY <1>4, <2>1, <3>2 DEF Before
    <3> QED
      BY <3>1, <3>2
  <2>3. \A j \in Keys : Before(j) = downOn[j] /\ ~Handles(j)
    BY <1>1 DEF Before, Handles
  <2>4. ModifierKeys \subseteq Keys
    BY ModifierAssumption
  <2>5. EventIsRecorded'
    BY <1>1, <1>4, <2>1 DEF EventIsRecorded
  <2>6. \A j \in ModifierKeys : xkb'[j] <= Before(j)'
    BY <1>1, <2>2, <2>3, <2>4 DEF Inv, EventIsAllThatIsMissing
  <2>7. \A j \in base' : xkb'[j] > 0
    BY <1>1 DEF Inv, EventIsAllThatIsMissing
  <2>8. \A j \in keys' \cap ModifierKeys : downOn'[j] = 1 /\ ~Handles(j)' => j \in base'
    BY <1>1, <1>4, <2>1, <2>3, <2>4 DEF Inv, EventIsAllThatIsMissing
  <2> QED
    BY <1>3, <2>5, <2>6, <2>7, <2>8 DEF EventIsAllThatIsMissing
<1>8. OnlyPendingIsMissing'
  BY <1>1, <1>2, <1>3 DEF Inv, OnlyPendingIsMissing
<1>9. FocusKnowsModifiers'
  BY <1>1 DEF Inv, FocusKnowsModifiers
<1> QED
  BY <1>2, <1>6, <1>7, <1>8, <1>9 DEF Inv

\* updateKeymap() tells every wl_keyboard the keymap, and nothing but the
\* modifiers besides.
LEMMA AfterUpdate ==
  ASSUME Inv, file' \in Keymaps \cup {None}
  PROVE  /\ WithKeymap(told) \in [Keyboards -> Told]
         /\ \A k \in Keyboards : WithKeymap(told)[k].surfaces = told[k].surfaces
         /\ \A k \in BoundKeyboards : WithKeymap(told)[k].keymap = file'
         /\ \A k \in BoundKeyboards : k = focusResource => WithKeymap(told)[k].mods = mods
<1>1. \A k \in BoundKeyboards : k \in Keyboards
  BY Bound DEF Inv, TypeOK
<1>2. ASSUME NEW k \in Keyboards
      PROVE  /\ WithKeymap(told)[k] \in Told
             /\ WithKeymap(told)[k].surfaces = told[k].surfaces
             /\ k \in BoundKeyboards => WithKeymap(told)[k].keymap = file'
             /\ k \in BoundKeyboards /\ k = focusResource => WithKeymap(told)[k].mods = mods
  <2>1. told[k] \in Told /\ mods \in SUBSET ModifierKeys
    BY DEF Inv, TypeOK, Told
  <2>2. WithKeymap(told)[k] = IF k \notin BoundKeyboards THEN told[k]
          ELSE IF k = focusResource THEN [told[k] EXCEPT !.keymap = file', !.mods = mods]
          ELSE [told[k] EXCEPT !.keymap = file']
    BY DEF WithKeymap
  <2> QED
    BY <2>1, <2>2 DEF Told
<1> QED
  BY <1>1, <1>2 DEF WithKeymap

\* modifiers() tells the focus, and the keymap stays what it was.
LEMMA AfterModifiers ==
  ASSUME Inv, NEW t \in [Keyboards -> Told], NEW m \in SUBSET ModifierKeys,
         focusResource # None => t[focusResource].mods = mods
  PROVE  /\ ModifiersSent(t, m) \in [Keyboards -> Told]
         /\ \A k \in Keyboards : /\ ModifiersSent(t, m)[k].surfaces = t[k].surfaces
                                 /\ ModifiersSent(t, m)[k].keymap = t[k].keymap
         /\ focusResource # None => ModifiersSent(t, m)[focusResource].mods = m
<1>1. focusResource # None => focusResource \in Keyboards
  BY Bound DEF Inv, TypeOK
<1>2. CASE focusResource = None \/ m = mods
  BY <1>2 DEF ModifiersSent
<1>3. CASE ~(focusResource = None \/ m = mods)
  <2>1. ModifiersSent(t, m) = [t EXCEPT ![focusResource].mods = m]
    BY <1>3 DEF ModifiersSent
  <2> QED
    BY <1>1, <1>3, <2>1 DEF Told
<1> QED
  BY <1>2, <1>3

\* What xkb_state makes of an event: it counts the press or the release, and
\* modifiers are depressed only by presses it has counted.
IsAfterEvent(x, b, e, x1, b1) ==
  /\ x1 \in [ModifierKeys -> Nat]
  /\ b1 \in SUBSET ModifierKeys
  /\ \A j \in b1 : x1[j] > 0
  /\ \A j \in ModifierKeys \ {e.key} : x1[j] = x[j] /\ (j \in b1 <=> j \in b)
  /\ e.key \in ModifierKeys =>
       /\ x1[e.key] = IF e.down THEN x[e.key] + 1 ELSE IF x[e.key] = 0 THEN 0 ELSE x[e.key] - 1
       /\ e.down /\ x[e.key] = 0 => e.key \in b1
  /\ ~e.down /\ b = {} => b1 = {}

\* xkb_state_update_key() does that.
LEMMA AfterEvent ==
  ASSUME NEW x \in [ModifierKeys -> Nat], NEW b \in SUBSET ModifierKeys,
         NEW e \in [key : Keys, down : BOOLEAN],
         \A j \in b : x[j] > 0
  PROVE  IsAfterEvent(x, b, e, Counted(x, e), Depressed(x, b, e))
<1> DEFINE k == e.key
<1>1. CASE k \notin ModifierKeys
  BY <1>1 DEF Counted, Depressed, IsAfterEvent
<1>2. CASE k \in ModifierKeys /\ e.down
  <2>1. Counted(x, e) = [x EXCEPT ![k] = x[k] + 1]
    BY <1>2 DEF Counted
  <2>2. Depressed(x, b, e) = IF x[k] = 0 THEN b \cup {k} ELSE b
    BY <1>2 DEF Depressed
  <2>3. x[k] \in Nat /\ x[k] + 1 \in Nat /\ x[k] + 1 > 0
    BY <1>2
  <2> QED
    BY <1>2, <2>1, <2>2, <2>3 DEF IsAfterEvent
<1>3. CASE k \in ModifierKeys /\ ~e.down
  <2>1. Counted(x, e) = [x EXCEPT ![k] = IF x[k] = 0 THEN 0 ELSE x[k] - 1]
    BY <1>3 DEF Counted
  <2>2. Depressed(x, b, e) = IF x[k] <= 1 THEN b \ {k} ELSE b
    BY <1>3 DEF Depressed
  <2>3. x[k] \in Nat /\ (IF x[k] = 0 THEN 0 ELSE x[k] - 1) \in Nat
    BY <1>3
  <2> QED
    BY <1>3, <2>1, <2>2, <2>3 DEF IsAfterEvent
<1> QED
  BY <1>1, <1>2, <1>3

\* An event that is finished leaves nothing missing, if that was so before it.
LEMMA AfterFinish ==
  ASSUME Inv, handling # None, handling' = None, UNCHANGED <<keys, downOn>>,
         NEW x \in [ModifierKeys -> Nat], NEW b \in SUBSET ModifierKeys,
         \A j \in b : x[j] > 0,
         \A j \in ModifierKeys : x[j] <= Before(j),
         \A j \in keys \cap ModifierKeys : downOn[j] = 1 /\ ~Handles(j) => j \in b,
         xkb' = Counted(x, handling), base' = Depressed(x, b, handling), mods' = base'
  PROVE  /\ EventIsAllThatIsMissing'
         /\ xkb' \in [ModifierKeys -> Nat] /\ base' \in SUBSET ModifierKeys
<1> DEFINE e == handling
           k == e.key
<1>1. /\ e \in [key : Keys, down : BOOLEAN]
      /\ e.down <=> k \in keys
      /\ e.down => downOn[k] > 0
  BY DEF Inv, TypeOK, EventIsAllThatIsMissing, EventIsRecorded
<1>2. \A j \in ModifierKeys : downOn[j] \in Nat
  BY ModifierAssumption DEF Inv, TypeOK
<1>3. /\ xkb' \in [ModifierKeys -> Nat] /\ base' \in SUBSET ModifierKeys
      /\ \A j \in base' : xkb'[j] > 0
      /\ \A j \in ModifierKeys \ {k} : xkb'[j] = x[j] /\ (j \in base' <=> j \in b)
      /\ k \in ModifierKeys =>
           /\ xkb'[k] = IF e.down THEN x[k] + 1 ELSE IF x[k] = 0 THEN 0 ELSE x[k] - 1
           /\ e.down /\ x[k] = 0 => k \in base'
  <2> DEFINE x1 == Counted(x, e)
             b1 == Depressed(x, b, e)
  <2>1. /\ x1 \in [ModifierKeys -> Nat]
        /\ b1 \in SUBSET ModifierKeys
        /\ \A j \in b1 : x1[j] > 0
        /\ \A j \in ModifierKeys \ {k} : x1[j] = x[j] /\ (j \in b1 <=> j \in b)
        /\ k \in ModifierKeys =>
             /\ x1[k] = IF e.down THEN x[k] + 1 ELSE IF x[k] = 0 THEN 0 ELSE x[k] - 1
             /\ e.down /\ x[k] = 0 => k \in b1
    <3>1. IsAfterEvent(x, b, e, x1, b1)
      BY <1>1, AfterEvent
    <3> QED
      BY <3>1 DEF IsAfterEvent
  <2>2. xkb' = x1 /\ base' = b1
    OBVIOUS
  <2> HIDE DEF x1, b1
  <2> QED
    BY <2>1, <2>2
<1>4. \A j \in ModifierKeys \ {k} : Before(j) = downOn[j] /\ ~Handles(j)
  BY DEF Before, Handles
<1>5. Before(k) = IF e.down THEN downOn[k] - 1 ELSE downOn[k] + 1
  BY DEF Before, Handles
<1>6. \A j : Before(j)' = downOn[j] /\ ~Handles(j)'
  BY DEF Before, Handles
<1>7. \A j \in ModifierKeys : xkb'[j] <= downOn[j]
  <2> SUFFICES ASSUME NEW j \in ModifierKeys PROVE xkb'[j] <= downOn[j]
    OBVIOUS
  <2>1. CASE j # k
    BY <1>3, <1>4, <2>1
  <2>2. CASE j = k
    <3>1. x[k] \in Nat /\ downOn[k] \in Nat /\ x[k] <= Before(k)
      BY <1>2, <2>2
    <3> QED
      BY <1>1, <1>3, <1>5, <2>2, <3>1
  <2> QED
    BY <2>1, <2>2
<1>8. \A j \in keys \cap ModifierKeys : downOn[j] = 1 => j \in base'
  <2> SUFFICES ASSUME NEW j \in keys \cap ModifierKeys, downOn[j] = 1 PROVE j \in base'
    OBVIOUS
  <2>1. CASE j # k
    BY <1>3, <1>4, <2>1
  <2>2. CASE j = k
    <3>1. e.down /\ Before(k) = 0
      BY <1>1, <1>5, <2>2
    <3>2. x[k] = 0
      BY <2>2, <3>1
    <3> QED
      BY <1>3, <2>2, <3>1, <3>2
  <2> QED
    BY <2>1, <2>2
<1>9. \A j \in base' : downOn[j] > 0
  BY <1>2, <1>3, <1>7
<1>10. EventIsAllThatIsMissing'
  BY <1>3, <1>6, <1>7, <1>8, <1>9 DEF EventIsAllThatIsMissing, EventIsRecorded
<1> QED
  BY <1>3, <1>10

\* Whether or not the keymap asked for can be used, what is known of keymaps is
\* consistent, and xkb_state knows of no press it did not know of before.
LEMMA AfterCreate ==
  ASSUME Inv, keymap' \in Keymaps, NEW x, CreateXKBKeymap(x)
  PROVE  /\ x \in [ModifierKeys -> Nat]
         /\ \A j \in ModifierKeys : x[j] <= xkb[j]
         /\ installed' \in Loadable /\ file' \in {installed', None}
         /\ keymap' \in Loadable /\ file' # None => installed' = keymap'
<1>1. x \in {NoKeys, xkb}
  BY DEF CreateXKBKeymap
<1>2. xkb \in [ModifierKeys -> Nat]
  BY DEF Inv, TypeOK
<1> QED
  BY <1>1, <1>2 DEF CreateXKBKeymap, NoKeys, Inv, TypeOK

\* Back from the scene, keymap and modifiers catch up.
LEMMA FinishKeyEventStep ==
  ASSUME Inv, FinishKeyEvent
  PROVE  Inv'
<1>1. /\ UNCHANGED <<live, cursors, bound, focus, focusResource, listening, downOn, keys,
                     keymap, rate>>
      /\ handling # None /\ handling' = None
  BY DEF FinishKeyEvent, serverVars
<1>2. /\ handling \in [key : Keys, down : BOOLEAN] /\ (handling.down <=> handling.key \in keys)
      /\ xkb \in [ModifierKeys -> Nat] /\ base \in SUBSET ModifierKeys
      /\ \A j \in ModifierKeys : xkb[j] <= Before(j)
      /\ \A j \in base : xkb[j] > 0
      /\ \A j \in keys \cap ModifierKeys : downOn[j] = 1 /\ ~Handles(j) => j \in base
  BY <1>1 DEF Inv, TypeOK, EventIsAllThatIsMissing, EventIsRecorded
<1>3. told \in [Keyboards -> Told] /\ keymap' \in Keymaps
  BY <1>1 DEF Inv, TypeOK, Told
<1>4. /\ EventIsAllThatIsMissing'
      /\ xkb' \in [ModifierKeys -> Nat] /\ base' \in SUBSET ModifierKeys
      /\ mods' = base'
      /\ ~pendingKeymap' /\ keymap \in Loadable /\ file' # None => installed' = keymap
      /\ pendingKeymap' => keys # {}
      /\ pendingKeymap' \in BOOLEAN /\ installed' \in Loadable /\ file' \in {installed', None}
      /\ told' \in [Keyboards -> Told]
      /\ \A k \in Keyboards : told'[k].surfaces = told[k].surfaces
      /\ \A k \in BoundKeyboards : told'[k].keymap = file'
      /\ focusResource # None => told'[focusResource].mods = mods'
  <2>1. focusResource # None => focusResource \in BoundKeyboards
    BY DEF Inv, TypeOK
  <2>2. BoundKeyboards \subseteq Keyboards
    BY Bound DEF Inv, TypeOK
  <2>3. CASE MayUpdate(pendingKeymap)
    <3>1. PICK x \in {NoKeys, xkb} :
            /\ CreateXKBKeymap(x)
            /\ xkb' = Counted(x, handling)
            /\ base' = Depressed(x, {}, handling)
      BY <2>3 DEF FinishKeyEvent
    <3>2. /\ keys = {}
          /\ pendingKeymap' = FALSE /\ mods' = base'
          /\ told' = ModifiersSent(WithKeymap(told), mods')
      BY <1>1, <2>3 DEF FinishKeyEvent, MayUpdate
    <3>3. /\ x \in [ModifierKeys -> Nat] /\ \A j \in ModifierKeys : x[j] <= xkb[j]
          /\ installed' \in Loadable /\ file' \in {installed', None}
          /\ keymap' \in Loadable /\ file' # None => installed' = keymap'
      BY <1>3, <3>1, AfterCreate
    <3>4. \A j \in ModifierKeys : x[j] <= Before(j)
      <4> SUFFICES ASSUME NEW j \in ModifierKeys PROVE x[j] <= Before(j)
        OBVIOUS
      <4>1. downOn[j] \in Nat
        BY ModifierAssumption DEF Inv, TypeOK
      <4>2. Before(j) \in Int
        BY <4>1 DEF Before
      <4> QED
        BY <1>2, <3>3, <4>2
    <3>5. /\ EventIsAllThatIsMissing'
          /\ xkb' \in [ModifierKeys -> Nat] /\ base' \in SUBSET ModifierKeys
      BY <1>1, <3>1, <3>2, <3>3, <3>4, AfterFinish
    <3>6. file' \in Keymaps \cup {None}
      BY <3>3, LoadableAssumption
    <3>7. /\ WithKeymap(told) \in [Keyboards -> Told]
          /\ focusResource # None => WithKeymap(told)[focusResource].mods = mods
      BY <2>1, <3>6, AfterUpdate
    <3>8. /\ told' \in [Keyboards -> Told]
          /\ \A k \in Keyboards : /\ told'[k].surfaces = WithKeymap(told)[k].surfaces
                                  /\ told'[k].keymap = WithKeymap(told)[k].keymap
          /\ focusResource # None => told'[focusResource].mods = mods'
      BY <3>2, <3>5, <3>7, AfterModifiers
    <3>9. \A k \in Keyboards : told'[k].surfaces = told[k].surfaces
      BY <3>6, <3>8, AfterUpdate
    <3>10. \A k \in BoundKeyboards : told'[k].keymap = file'
      BY <2>2, <3>6, <3>8, AfterUpdate
    <3> QED
      BY <1>1, <3>2, <3>3, <3>5, <3>8, <3>9, <3>10
  <2>4. CASE ~MayUpdate(pendingKeymap)
    <3>1. /\ pendingKeymap => keys # {}
          /\ UNCHANGED <<pendingKeymap, installed, file>>
          /\ xkb' = Counted(xkb, handling) /\ base' = Depressed(xkb, base, handling)
          /\ mods' = base'
          /\ told' = ModifiersSent(told, mods')
      BY <1>1, <2>4 DEF FinishKeyEvent, MayUpdate
    <3>2. /\ EventIsAllThatIsMissing'
          /\ xkb' \in [ModifierKeys -> Nat] /\ base' \in SUBSET ModifierKeys
      BY <1>1, <1>2, <3>1, AfterFinish
    <3>3. focusResource # None => told[focusResource].mods = mods
      BY DEF Inv, FocusKnowsModifiers
    <3>4. /\ told' \in [Keyboards -> Told]
          /\ \A k \in Keyboards : /\ told'[k].surfaces = told[k].surfaces
                                  /\ told'[k].keymap = told[k].keymap
          /\ focusResource # None => told'[focusResource].mods = mods'
      BY <1>3, <3>1, <3>2, <3>3, AfterModifiers
    <3> QED
      BY <2>2, <3>1, <3>2, <3>4 DEF Inv, TypeOK, OnlyPendingIsMissing
  <2> QED
    BY <2>3, <2>4
<1>5. BoundKeyboards' = BoundKeyboards /\ Lists' /\ ListensToFocus' /\ OnlyFocusEntered' /\ OneEntered'
  BY <1>1, <1>4, FocusUntouched
<1>6. TypeOK'
  BY <1>1, <1>4, <1>5 DEF Inv, TypeOK, Told
<1>7. OnlyPendingIsMissing' /\ FocusKnowsModifiers'
  BY <1>1, <1>4, <1>5 DEF OnlyPendingIsMissing, FocusKnowsModifiers
<1> QED
  BY <1>4, <1>5, <1>6, <1>7 DEF Inv

\* A keymap asked for with keys down waits for the event that releases the last.
LEMMA SetKeymapStep ==
  ASSUME Inv, NEW m \in Keymaps, SetKeymap(m)
  PROVE  Inv'
<1>1. /\ UNCHANGED <<live, cursors, bound, focus, focusResource, listening, downOn, keys,
                     handling, mods, rate>>
      /\ keymap' = m
  BY DEF SetKeymap, serverVars
<1>2. /\ keys = {} => base' = {} /\ pendingKeymap' = FALSE
      /\ keys # {} => pendingKeymap' = TRUE /\ UNCHANGED <<installed, file, xkb, base>>
      /\ xkb' \in [ModifierKeys -> Nat] /\ \A j \in ModifierKeys : xkb'[j] <= xkb[j]
      /\ installed' \in Loadable /\ file' \in {installed', None}
      /\ ~pendingKeymap' /\ keymap' \in Loadable /\ file' # None => installed' = keymap'
      /\ told' \in [Keyboards -> Told]
      /\ \A k \in Keyboards : told'[k].surfaces = told[k].surfaces
      /\ \A k \in BoundKeyboards : told'[k].keymap = file'
      /\ focusResource # None => told'[focusResource].mods = mods
  <2>1. focusResource # None => focusResource \in BoundKeyboards
    BY DEF Inv, TypeOK
  <2>2. CASE keys = {}
    <3>1. /\ told' = WithKeymap(told) /\ base' = {} /\ pendingKeymap' = FALSE
          /\ CreateXKBKeymap(xkb')
      BY <2>2 DEF SetKeymap
    <3>2. /\ xkb' \in [ModifierKeys -> Nat] /\ \A j \in ModifierKeys : xkb'[j] <= xkb[j]
          /\ installed' \in Loadable /\ file' \in {installed', None}
          /\ keymap' \in Loadable /\ file' # None => installed' = keymap'
      BY <1>1, <3>1, AfterCreate
    <3>3. file' \in Keymaps \cup {None}
      BY <3>2, LoadableAssumption
    <3>4. /\ told' \in [Keyboards -> Told]
          /\ \A k \in Keyboards : told'[k].surfaces = told[k].surfaces
          /\ \A k \in BoundKeyboards : told'[k].keymap = file'
          /\ \A k \in BoundKeyboards : k = focusResource => told'[k].mods = mods
      BY <3>1, <3>3, AfterUpdate
    <3> QED
      BY <2>1, <2>2, <3>1, <3>2, <3>4
  <2>3. CASE keys # {}
    <3>1. /\ pendingKeymap' = TRUE /\ UNCHANGED <<installed, file, xkb, base, told>>
      BY <2>3 DEF SetKeymap
    <3>2. xkb \in [ModifierKeys -> Nat] /\ \A j \in ModifierKeys : xkb[j] <= xkb[j]
      BY DEF Inv, TypeOK
    <3> QED
      BY <2>3, <3>1, <3>2 DEF Inv, TypeOK, Told, OnlyPendingIsMissing, FocusKnowsModifiers
  <2> QED
    BY <2>2, <2>3
<1>3. BoundKeyboards' = BoundKeyboards /\ Lists' /\ ListensToFocus' /\ OnlyFocusEntered' /\ OneEntered'
  BY <1>1, <1>2, FocusUntouched
<1>4. TypeOK'
  <2>1. base' \subseteq ModifierKeys /\ pendingKeymap' \in BOOLEAN
    BY <1>2 DEF Inv, TypeOK
  <2> QED
    BY <1>1, <1>2, <1>3, <2>1 DEF Inv, TypeOK, Told
<1>5. EventIsAllThatIsMissing'
  <2>1. \A j : Before(j)' = Before(j) /\ (Handles(j)' <=> Handles(j))
    BY <1>1 DEF Before, Handles
  <2>2. EventIsRecorded'
    BY <1>1 DEF Inv, EventIsAllThatIsMissing, EventIsRecorded
  <2>3. \A j \in ModifierKeys : xkb'[j] <= Before(j)'
    <3> SUFFICES ASSUME NEW j \in ModifierKeys PROVE xkb'[j] <= Before(j)
      BY <2>1
    <3>1. downOn[j] \in Nat
      BY ModifierAssumption DEF Inv, TypeOK
    <3>2. Before(j) \in Int /\ xkb[j] \in Nat /\ xkb'[j] \in Nat
      BY <1>2, <3>1 DEF Before, Inv, TypeOK
    <3> QED
      BY <1>2, <3>2 DEF Inv, EventIsAllThatIsMissing
  <2>4. CASE keys = {}
    BY <1>1, <1>2, <2>1, <2>2, <2>3, <2>4 DEF Inv, EventIsAllThatIsMissing
  <2>5. CASE keys # {}
    BY <1>1, <1>2, <2>1, <2>2, <2>3, <2>5 DEF Inv, EventIsAllThatIsMissing
  <2> QED
    BY <2>4, <2>5
<1>6. OnlyPendingIsMissing' /\ FocusKnowsModifiers'
  <2>1. pendingKeymap' => keys # {}
    BY <1>2
  <2> QED
    BY <1>1, <1>2, <1>3, <2>1 DEF OnlyPendingIsMissing, FocusKnowsModifiers
<1> QED
  BY <1>3, <1>4, <1>5, <1>6 DEF Inv

\* The repeat rate says nothing of focus or keys.
LEMMA SetRepeatRateStep ==
  ASSUME Inv, NEW n \in Rates, SetRepeatRate(n)
  PROVE  Inv'
<1>1. /\ UNCHANGED <<live, cursors, bound, focus, focusResource, listening, keyVars, mapVars>>
      /\ rate' = n
  BY DEF SetRepeatRate, serverVars
<1>2. \A k \in Keyboards :
        /\ told'[k] \in Told
        /\ told'[k].surfaces = told[k].surfaces
        /\ told'[k].mods = told[k].mods
        /\ told'[k].keymap = told[k].keymap
  <2>1. ASSUME NEW k \in Keyboards
        PROVE  told[k] \in Told /\ rate \in Rates
    BY DEF Inv, TypeOK, Told
  <2> QED
    BY <2>1 DEF SetRepeatRate, Told
<1>3. told' \in [Keyboards -> Told]
  BY <1>2 DEF SetRepeatRate
<1>4. /\ BoundKeyboards' = BoundKeyboards /\ BoundKeyboards \subseteq Keyboards
      /\ focusResource # None => focusResource \in BoundKeyboards
      /\ Lists' /\ ListensToFocus' /\ OnlyFocusEntered' /\ OneEntered'
  BY <1>1, <1>2, FocusUntouched
<1>5. TypeOK'
  BY <1>1, <1>3, <1>4 DEF Inv, TypeOK, Told, keyVars, mapVars
<1>6. EventIsAllThatIsMissing' /\ OnlyPendingIsMissing' /\ FocusKnowsModifiers'
  BY <1>1, <1>2, <1>4
  DEF Inv, EventIsAllThatIsMissing, EventIsRecorded, Handles, Before, OnlyPendingIsMissing, FocusKnowsModifiers,
      keyVars, mapVars
<1> QED
  BY <1>4, <1>5, <1>6 DEF Inv

\* The modifiers sent to the pointer's client are those of now.
LEMMA SendKeyModifiersStep ==
  ASSUME Inv, NEW c \in Clients, SendKeyModifiers(c)
  PROVE  Inv'
<1>1. /\ UNCHANGED <<live, cursors, bound, focus, focusResource, listening, keyVars, mapVars, rate>>
      /\ told' = [told EXCEPT ![KeyboardOf(c)].mods = mods]
  BY DEF SendKeyModifiers, serverVars
<1>2. told \in [Keyboards -> Told] /\ mods \in SUBSET ModifierKeys
  BY DEF Inv, TypeOK, Told
<1>3. \A k \in Keyboards :
        /\ told'[k] \in Told
        /\ told'[k].surfaces = told[k].surfaces
        /\ told'[k].mods \in {told[k].mods, mods}
        /\ told'[k].keymap = told[k].keymap
  BY <1>1, <1>2 DEF Told
<1>4. told' \in [Keyboards -> Told]
  BY <1>1, <1>2, <1>3
<1>5. /\ BoundKeyboards' = BoundKeyboards /\ BoundKeyboards \subseteq Keyboards
      /\ focusResource # None => focusResource \in BoundKeyboards
      /\ Lists' /\ ListensToFocus' /\ OnlyFocusEntered' /\ OneEntered'
  BY <1>1, <1>3, FocusUntouched
<1>6. TypeOK'
  BY <1>1, <1>4, <1>5 DEF Inv, TypeOK, Told, keyVars, mapVars
<1>7. EventIsAllThatIsMissing' /\ OnlyPendingIsMissing' /\ FocusKnowsModifiers'
  BY <1>1, <1>3, <1>5
  DEF Inv, EventIsAllThatIsMissing, EventIsRecorded, Handles, Before, OnlyPendingIsMissing, FocusKnowsModifiers,
      keyVars, mapVars
<1> QED
  BY <1>5, <1>6, <1>7 DEF Inv

\* Nothing happens.
LEMMA Stuttering ==
  ASSUME Inv, UNCHANGED vars
  PROVE  Inv'
<1>1. BoundKeyboards' = BoundKeyboards /\ Lists' /\ \A c : KeyboardOf(c)' = KeyboardOf(c)
  BY SameLists DEF Inv, vars
<1> QED
  BY <1>1
  DEF Inv, vars, serverVars, keyVars, mapVars, TypeOK, EventIsAllThatIsMissing, EventIsRecorded,
      Handles, Before,
      OnlyPendingIsMissing, ListensToFocus, FocusKnowsModifiers, OnlyFocusEntered, OneEntered

\* Every step keeps the invariant.
LEMMA InvNext == Inv /\ [Next]_vars => Inv'
BY SurfaceSteps, DestroySurfaceStep, BindKeyboardStep, DestroyKeyboardStep,
   SetKeyboardFocusStep, KeyEventStep, FinishKeyEventStep, SetKeymapStep,
   SetRepeatRateStep, SendKeyModifiersStep, Stuttering
DEF Next, RequestNext

-----------------------------------------------------------------------------
(* The results *)

\* The objects the seat refers to exist: its focus is a live surface and the
\* wl_keyboard that hears of keys a bound one, whatever clients destroy when.
THEOREM TypeCorrect == Spec => []TypeOK
<1>1. Inv => TypeOK
  BY DEF Inv
<1> QED
  BY InvInit, InvNext, <1>1, PTL DEF Spec

\* However key events of any number of keyboards, focus changes and keymaps
\* interleave, and whichever keymaps cannot be loaded: between events no modifier
\* is left of a key that was released, and without keys down the keymap asked for
\* last is in use, if it could be, and every wl_keyboard knows the one in use.
THEOREM KeysAlwaysSettle == Spec => []KeysSettle
<1>1. Inv => KeysSettle
  BY DEF Inv, TypeOK, KeysSettle, ModifiersOfKeys, KeymapArrives, KeymapIsKnown,
         EventIsAllThatIsMissing, OnlyPendingIsMissing
<1> QED
  BY InvInit, InvNext, <1>1, PTL DEF Spec

\* If clients hold at most one wl_keyboard, the focus is told as it is: who lost
\* it was told to leave, who has it was told to enter and knows the modifiers.
THEOREM FocusIsAlwaysTold == ASSUME OneEach PROVE Spec => []FocusIsTold
<1>1. Inv => FocusIsTold
  <2> SUFFICES ASSUME Inv PROVE FocusIsTold
    OBVIOUS
  <2>1. LeftWithFocus
    BY DEF Inv, OneEntered, LeftWithFocus
  <2>2. FocusHears
    <3> SUFFICES ASSUME focus # None, bound[OwnerOf[focus]] # <<>>
                 PROVE  /\ focusResource # None
                        /\ OwnerOf[focusResource] = OwnerOf[focus]
                        /\ focus \in told[focusResource].surfaces
      BY DEF FocusHears
    <3>1. OwnerOf[focus] \in Clients
      BY OwnerAssumption DEF Inv, TypeOK
    <3>2. PICK k \in Keyboards : bound[OwnerOf[focus]] = <<k>>
      BY <3>1 DEF Inv, OneEntered
    <3>3. focusResource = k
      BY <3>2 DEF KeyboardOf, Inv, OneEntered
    <3> QED
      BY <3>3, NoneAssumption DEF Inv, OnlyFocusEntered
  <2> QED
    BY <2>1, <2>2 DEF Inv, FocusIsTold
<1> QED
  BY InvInit, InvNext, <1>1, PTL DEF Spec

-----------------------------------------------------------------------------
(* The mouse *)

\* The wl_pointers of a client are its own, and none is listed twice.
PointerLists ==
  \A c \in Clients :
    /\ \A i \in DOMAIN pointers[c] : OwnerOf[pointers[c][i]] = c
    /\ \A i, j \in DOMAIN pointers[c] : pointers[c][i] = pointers[c][j] => i = j

\* What orderly clients have: one wl_pointer each, as long as they have surfaces.
OnePointer ==
  /\ \A c \in Clients : pointers[c] = <<>> \/ \E r \in Pointers : pointers[c] = <<r>>
  /\ \A s \in mouseLive : pointers[OwnerOf[s]] # <<>>

\* What an orderly shell shows: a surface of its own, in a view that exists.
ShownSurfaces ==
  \A v \in Views : viewSurface[v] # None => v \in views /\ viewSurface[v] \notin mouseCursors

\* The mouse is over no surface, and nobody was told that it is.
Nowhere(p, e) ==
  /\ p.mouseFocus = None /\ p.focusResource = None /\ p.listening = {}
  /\ \A r \in Pointers : e[r] = {}

\* The mouse is over a surface: its client was told so, nobody else was.
OnSurface(p, e) ==
  LET s == viewSurface[p.mouseFocus] IN
  /\ p.mouseFocus \in views /\ s # None
  /\ p.focusResource = PointerOf(OwnerOf[s]) /\ p.hasSentEnter
  /\ p.listening = {s}
  /\ \A r \in Pointers : e[r] = IF r = p.focusResource THEN {s} ELSE {}

\* The press that is counted and will be counted down: of the item that grabs
\* the mouse, shows a surface and drags nothing.
Counts == /\ held # {} /\ grabber # None
          /\ viewSurface[grabber] # None /\ grabber \notin dragging

\* Such a press is of the surface under the mouse, and all others that are
\* counted were taken by drags.
PressIsGrabbed ==
  IF Counts THEN pointer.buttonCount = taken + 1 /\ pointer.mouseFocus = grabber
  ELSE pointer.buttonCount = taken

MouseInv ==
  /\ MouseTypeOK /\ PointerLists /\ OnePointer /\ ShownSurfaces
  /\ Nowhere(pointer, entered) \/ OnSurface(pointer, entered)

-----------------------------------------------------------------------------
(* The mouse: what exists *)

\* The states of the pointer device, when L are the surfaces that exist.
PointerStates(L) ==
  [mouseFocus : Views \cup {None}, focusResource : BoundPointers \cup {None},
   hasSentEnter : BOOLEAN, listening : SUBSET L, buttonCount : Int]

\* A wl_pointer is bound if it is in the list of some client.
LEMMA BoundPointer ==
  ASSUME NEW r
  PROVE  r \in BoundPointers <=> \E c \in Clients : \E i \in DOMAIN pointers[c] : pointers[c][i] = r
BY DEF BoundPointers

\* And after a step.
LEMMA BoundPointerNext ==
  ASSUME NEW r
  PROVE  r \in BoundPointers' <=> \E c \in Clients : \E i \in DOMAIN pointers'[c] : pointers'[c][i] = r
BY DEF BoundPointers

\* The wl_pointer of a client is bound.
LEMMA PointerOfBound ==
  ASSUME MouseTypeOK, NEW c \in Clients
  PROVE  PointerOf(c) \in BoundPointers \cup {None}
<1>1. CASE pointers[c] = <<>>
  BY <1>1 DEF PointerOf
<1>2. CASE pointers[c] # <<>>
  <2>1. pointers[c] \in Seq(Pointers)
    BY DEF MouseTypeOK
  <2>2. 1 \in DOMAIN pointers[c] /\ Head(pointers[c]) = pointers[c][1]
    BY <1>2, <2>1
  <2> QED
    BY <1>2, <2>2, BoundPointer DEF PointerOf
<1> QED
  BY <1>1, <1>2

\* The bound wl_pointers are wl_pointers.
LEMMA BoundArePointers ==
  ASSUME MouseTypeOK
  PROVE  BoundPointers \subseteq Pointers
<1> SUFFICES ASSUME NEW r \in BoundPointers PROVE r \in Pointers
  OBVIOUS
<1>1. PICK c \in Clients : \E i \in DOMAIN pointers[c] : pointers[c][i] = r
  BY BoundPointer
<1>2. pointers[c] \in Seq(Pointers)
  BY DEF MouseTypeOK
<1> QED
  BY <1>1, <1>2

\* setMouseFocus() keeps types.
LEMMA MouseFocusTypes ==
  ASSUME NEW L, NEW p \in PointerStates(L), NEW v \in Views \cup {None}
  PROVE  /\ MouseFocus(p, v) \in PointerStates(L)
         /\ MouseFocus(p, v).mouseFocus = v
         /\ MouseFocus(p, v).buttonCount = p.buttonCount
BY DEF MouseFocus, FocusChanged, PointerStates

\* The target of a mouse event shows a surface that exists.
LEMMA TargetTypes ==
  ASSUME MouseTypeOK, NEW v \in Views
  PROVE  /\ Target(v) \in Views \cup {None}
         /\ Target(v) # None => viewSurface[Target(v)] \in mouseLive
         /\ Resource(Target(v)) \in BoundPointers \cup {None}
<1>1. viewSurface[v] \in mouseLive \cup {None}
  BY DEF MouseTypeOK
<1>2. Target(v) \in {v, None} /\ (Target(v) # None => viewSurface[Target(v)] \in mouseLive)
  BY <1>1 DEF Target
<1>3. Target(v) # None => OwnerOf[viewSurface[Target(v)]] \in Clients
  BY <1>2, SurfaceOwners DEF MouseTypeOK
<1> QED
  BY <1>2, <1>3, PointerOfBound DEF Resource

\* sendMouseMoveEvent() keeps types.
LEMMA MovedTypes ==
  ASSUME MouseTypeOK, NEW v \in Views,
         NEW p \in PointerStates(mouseLive), NEW e \in [Pointers -> SUBSET mouseLive]
  PROVE  /\ Moved(p, Target(v)) \in PointerStates(mouseLive)
         /\ MovedEntered(p, e, Target(v)) \in [Pointers -> SUBSET mouseLive]
         /\ Moved(p, Target(v)).mouseFocus = Target(v)
         /\ Moved(p, Target(v)).buttonCount = p.buttonCount
<1> DEFINE u == Target(v)
           q == MouseFocus(p, u)
           l == Left(p, e, u)
<1>1. u \in Views \cup {None} /\ (u # None => viewSurface[u] \in mouseLive)
      /\ Resource(u) \in BoundPointers \cup {None}
  BY TargetTypes
<1>3. q \in PointerStates(mouseLive) /\ q.mouseFocus = u /\ q.buttonCount = p.buttonCount
  BY <1>1, MouseFocusTypes
<1>4. Resource(u) # None => u # None
  BY DEF Resource
<1>5. l \in [Pointers -> SUBSET mouseLive]
  BY BoundArePointers DEF Left
<1> HIDE DEF u, q, l
<1>6. /\ Moved(p, u) \in PointerStates(mouseLive)
      /\ Moved(p, u).mouseFocus = u
      /\ Moved(p, u).buttonCount = p.buttonCount
  BY <1>1, <1>3, <1>4 DEF Moved, SendsEnter, PointerStates, q
<1>7. MovedEntered(p, e, u) \in [Pointers -> SUBSET mouseLive]
  BY <1>1, <1>4, <1>5, BoundArePointers DEF MovedEntered, SendsEnter, q, l
<1> QED
  BY <1>6, <1>7 DEF u

\* Types at the start.
LEMMA MouseTypesInit == MouseInit => MouseTypeOK /\ PointerLists
BY DEF MouseInit, MouseTypeOK, PointerLists

\* What keeps the lists of the wl_pointers keeps what is said of them.
LEMMA SamePointers ==
  ASSUME PointerLists, UNCHANGED pointers
  PROVE  /\ PointerLists' /\ BoundPointers' = BoundPointers
         /\ \A c : PointerOf(c)' = PointerOf(c)
BY DEF PointerLists, BoundPointers, PointerOf

\* Types: surfaces come.
LEMMA CreateMouseSurfaceTypes ==
  ASSUME MouseTypeOK, PointerLists, NEW s \in Surfaces,
         CreateMouseSurface(s) \/ SetMouseCursor(s)
  PROVE  MouseTypeOK' /\ PointerLists'
<1>1. /\ UNCHANGED <<views, viewSurface, pointers, entered, pointer, held, grabber,
                      dragItemVars, touchVars>>
      /\ mouseLive \subseteq mouseLive' /\ mouseLive' \subseteq Surfaces
      /\ mouseCursors' \subseteq Surfaces
  BY DEF CreateMouseSurface, SetMouseCursor, MouseTypeOK
<1>2. PointerLists' /\ BoundPointers' = BoundPointers
  BY <1>1, SamePointers
<1> QED
  BY <1>1, <1>2 DEF MouseTypeOK, dragItemVars, touchVars

\* Types: surfaces go.
LEMMA DestroyMouseSurfaceTypes ==
  ASSUME MouseTypeOK, PointerLists, NEW s \in Surfaces, DestroyMouseSurface(s)
  PROVE  MouseTypeOK' /\ PointerLists'
<1> DEFINE L == mouseLive \ {s}
           fired == s \in pointer.listening
           e == IF fired THEN Left(pointer, entered, None) ELSE entered
<1>1. /\ UNCHANGED <<mouseCursors, views, pointers, held, grabber, dragging, touchVars>>
      /\ taken' \in {0, taken}
      /\ mouseLive' = L
      /\ pointer' = IF fired THEN FocusDestroyed(pointer) ELSE pointer
      /\ entered' = [r \in Pointers |-> e[r] \ {s}]
      /\ viewSurface' = [v \in Views |-> IF viewSurface[v] = s THEN None ELSE viewSurface[v]]
  BY DEF DestroyMouseSurface
<1>2. PointerLists' /\ BoundPointers' = BoundPointers
  BY <1>1, SamePointers
<1>3. pointer \in PointerStates(mouseLive) /\ entered \in [Pointers -> SUBSET mouseLive]
  BY DEF MouseTypeOK, PointerStates
<1>4. e \in [Pointers -> SUBSET mouseLive]
  BY <1>3, BoundArePointers DEF Left
<1>5. FocusDestroyed(pointer) \in PointerStates(L)
  <2>1. [pointer EXCEPT !.listening = {}] \in PointerStates(L)
    BY <1>3 DEF PointerStates
  <2> DEFINE q == MouseFocus([pointer EXCEPT !.listening = {}], None)
  <2>2. q \in PointerStates(L)
    BY <2>1, MouseFocusTypes
  <2>3. FocusDestroyed(pointer) = [q EXCEPT !.focusResource = None, !.buttonCount = 0]
    BY DEF FocusDestroyed
  <2> HIDE DEF q
  <2>4. [q EXCEPT !.focusResource = None] \in PointerStates(L)
    BY <2>2 DEF PointerStates
  <2>5. \A x \in PointerStates(L) : [x EXCEPT !.buttonCount = 0] \in PointerStates(L)
    BY DEF PointerStates
  <2> QED
    BY <2>3, <2>4, <2>5
<1>6. ~fired => pointer \in PointerStates(L)
  BY <1>3 DEF PointerStates
<1>7. pointer' \in PointerStates(mouseLive)'
  BY <1>1, <1>2, <1>5, <1>6 DEF PointerStates
<1> HIDE DEF e, fired
<1>8. entered' \in [Pointers -> SUBSET mouseLive']
  BY <1>1, <1>4
<1>9. viewSurface' \in [Views -> mouseLive' \cup {None}]
  BY <1>1 DEF MouseTypeOK
<1> QED
  BY <1>1, <1>2, <1>7, <1>8, <1>9 DEF MouseTypeOK, touchVars, PointerStates

\* Types: a wl_pointer is bound, and comes first in the list of its client.
LEMMA BindPointerTypes ==
  ASSUME MouseTypeOK, PointerLists, NEW r \in Pointers, BindPointer(r)
  PROVE  MouseTypeOK' /\ PointerLists' /\ BoundPointers \subseteq BoundPointers'
<1> DEFINE c == OwnerOf[r]
<1>1. /\ UNCHANGED <<sceneVars, entered, pointer, held, grabber, dragItemVars, touchVars>>
      /\ pointers' = [pointers EXCEPT ![c] = <<r>> \o @]
      /\ r \notin BoundPointers
  BY DEF BindPointer
<1>2. c \in Clients /\ pointers \in [Clients -> Seq(Pointers)]
  BY PointerOwners DEF MouseTypeOK
<1>3. pointers[c] \in Seq(Pointers) /\ \A i \in DOMAIN pointers[c] : pointers[c][i] # r
  BY <1>1, <1>2, BoundPointer
<1>4. /\ pointers'[c] = <<r>> \o pointers[c]
      /\ \A d \in Clients \ {c} : pointers'[d] = pointers[d]
      /\ pointers' \in [Clients -> Seq(Pointers)]
  BY <1>1, <1>2, <1>3
<1> HIDE DEF c
<1>5. /\ DOMAIN pointers'[c] = 1..Len(pointers[c]) + 1
      /\ pointers'[c][1] = r
      /\ \A i \in 2..Len(pointers[c]) + 1 :
           i - 1 \in DOMAIN pointers[c] /\ pointers'[c][i] = pointers[c][i - 1]
      /\ \A i \in DOMAIN pointers[c] :
           i + 1 \in DOMAIN pointers'[c] /\ pointers'[c][i + 1] = pointers[c][i]
  BY <1>3, <1>4
<1>6. PointerLists'
  <2> SUFFICES ASSUME NEW d \in Clients
               PROVE  /\ \A i \in DOMAIN pointers'[d] : OwnerOf[pointers'[d][i]] = d
                      /\ \A i, j \in DOMAIN pointers'[d] :
                           pointers'[d][i] = pointers'[d][j] => i = j
    BY DEF PointerLists
  <2>1. CASE d # c
    BY <1>4, <2>1 DEF PointerLists
  <2>2. CASE d = c
    <3>1. \A i \in DOMAIN pointers'[c] : i = 1 \/ i \in 2..Len(pointers[c]) + 1
      BY <1>3, <1>5
    <3>2. /\ \A i \in DOMAIN pointers[c] : OwnerOf[pointers[c][i]] = c
          /\ \A i, j \in DOMAIN pointers[c] : pointers[c][i] = pointers[c][j] => i = j
      BY <1>2 DEF PointerLists
    <3>3. OwnerOf[r] = c
      BY DEF c
    <3>4. \A i \in DOMAIN pointers'[c] : OwnerOf[pointers'[c][i]] = c
      <4>1. OwnerOf[pointers'[c][1]] = c
        BY <1>5, <3>3
      <4>2. \A i \in 2..Len(pointers[c]) + 1 : OwnerOf[pointers'[c][i]] = c
        BY <1>5, <3>2
      <4> QED
        BY <3>1, <4>1, <4>2
    <3>5. \A i \in 2..Len(pointers[c]) + 1 : pointers'[c][i] # r
      BY <1>3, <1>5
    <3>6. ASSUME NEW i \in 2..Len(pointers[c]) + 1, NEW j \in 2..Len(pointers[c]) + 1,
                 pointers'[c][i] = pointers'[c][j]
          PROVE  i = j
      <4>1. /\ i - 1 \in DOMAIN pointers[c] /\ j - 1 \in DOMAIN pointers[c]
            /\ pointers[c][i - 1] = pointers[c][j - 1]
        BY <1>5, <3>6
      <4>2. i - 1 = j - 1
        BY <3>2, <4>1
      <4> QED
        BY <4>2
    <3>7. \A i, j \in DOMAIN pointers'[c] : pointers'[c][i] = pointers'[c][j] => i = j
      BY <1>5, <3>1, <3>5, <3>6
    <3> QED
      BY <2>2, <3>4, <3>7
  <2> QED
    BY <2>1, <2>2
<1>7. BoundPointers \subseteq BoundPointers'
  <2> SUFFICES ASSUME NEW x \in BoundPointers PROVE x \in BoundPointers'
    OBVIOUS
  <2>1. PICK d \in Clients : \E i \in DOMAIN pointers[d] : pointers[d][i] = x
    BY BoundPointer
  <2>2. \E i \in DOMAIN pointers'[d] : pointers'[d][i] = x
    BY <1>4, <1>5, <2>1
  <2> QED
    BY <2>2, BoundPointerNext
<1> QED
  BY <1>1, <1>4, <1>6, <1>7 DEF MouseTypeOK, sceneVars, dragItemVars, touchVars

\* Types: a wl_pointer goes.
LEMMA DestroyPointerTypes ==
  ASSUME MouseTypeOK, PointerLists, NEW r \in Pointers, DestroyPointer(r)
  PROVE  MouseTypeOK' /\ PointerLists'
<1> DEFINE c == OwnerOf[r]
<1>1. /\ UNCHANGED <<sceneVars, held, grabber, dragItemVars, touchVars>>
      /\ pointers' = [pointers EXCEPT ![c] = Removed(@, r)]
      /\ pointer' = IF pointer.focusResource = r
                    THEN [pointer EXCEPT !.focusResource = None] ELSE pointer
      /\ entered' = [entered EXCEPT ![r] = {}]
      /\ r \in BoundPointers
  BY DEF DestroyPointer
<1>2. c \in Clients /\ pointers \in [Clients -> Seq(Pointers)]
  BY PointerOwners DEF MouseTypeOK
<1>3. pointers[c] \in Seq(Pointers) /\ r \in {pointers[c][i] : i \in DOMAIN pointers[c]}
  BY <1>1, <1>2, BoundPointer DEF PointerLists
<1>4. \A i, j \in DOMAIN pointers[c] : pointers[c][i] = pointers[c][j] => i = j
  BY <1>2 DEF PointerLists
<1>5. /\ Removed(pointers[c], r) \in Seq(Pointers)
      /\ \A i \in DOMAIN Removed(pointers[c], r) :
           \E j \in DOMAIN pointers[c] : Removed(pointers[c], r)[i] = pointers[c][j]
      /\ \A i, j \in DOMAIN Removed(pointers[c], r) :
           Removed(pointers[c], r)[i] = Removed(pointers[c], r)[j] => i = j
      /\ \A j \in DOMAIN pointers[c] : pointers[c][j] # r =>
           \E i \in DOMAIN Removed(pointers[c], r) : Removed(pointers[c], r)[i] = pointers[c][j]
  BY <1>3, <1>4, RemovedLeavesTheRest
<1>6. /\ pointers' \in [Clients -> Seq(Pointers)]
      /\ pointers'[c] = Removed(pointers[c], r)
      /\ \A d \in Clients \ {c} : pointers'[d] = pointers[d]
  BY <1>1, <1>2, <1>5
<1> HIDE DEF c
<1>7. PointerLists'
  <2> SUFFICES ASSUME NEW d \in Clients
               PROVE  /\ \A i \in DOMAIN pointers'[d] : OwnerOf[pointers'[d][i]] = d
                      /\ \A i, j \in DOMAIN pointers'[d] :
                           pointers'[d][i] = pointers'[d][j] => i = j
    BY DEF PointerLists
  <2>1. CASE d # c
    BY <1>6, <2>1 DEF PointerLists
  <2>2. CASE d = c
    BY <1>2, <1>5, <1>6, <2>2 DEF PointerLists
  <2> QED
    BY <2>1, <2>2
<1>8. BoundPointers \ {r} \subseteq BoundPointers'
  <2> SUFFICES ASSUME NEW x \in BoundPointers, x # r PROVE x \in BoundPointers'
    OBVIOUS
  <2>1. PICK d \in Clients : \E i \in DOMAIN pointers[d] : pointers[d][i] = x
    BY BoundPointer
  <2>2. \E i \in DOMAIN pointers'[d] : pointers'[d][i] = x
    BY <1>5, <1>6, <2>1
  <2> QED
    BY <2>2, BoundPointerNext
<1>9. pointer' \in PointerStates(mouseLive)'
  BY <1>1, <1>8 DEF MouseTypeOK, PointerStates, sceneVars
<1>10. entered' \in [Pointers -> SUBSET mouseLive]
  BY <1>1 DEF MouseTypeOK
<1> QED
  BY <1>1, <1>6, <1>7, <1>9, <1>10
  DEF MouseTypeOK, sceneVars, dragItemVars, touchVars, PointerStates

\* Types: wl_touches come and go.
LEMMA TouchTypes ==
  ASSUME MouseTypeOK, PointerLists, NEW t \in Touches, BindTouch(t) \/ DestroyTouch(t)
  PROVE  MouseTypeOK' /\ PointerLists'
<1>1. /\ UNCHANGED <<sceneVars, pointers, entered, pointer, held, grabber, dragItemVars>>
      /\ touches' \subseteq Touches /\ touchFocus' \in touches' \cup {None}
      /\ touchDown' \in {touchDown, None}
  BY DEF BindTouch, DestroyTouch, MouseTypeOK
<1>2. PointerLists' /\ BoundPointers' = BoundPointers
  BY <1>1, SamePointers
<1> QED
  BY <1>1, <1>2 DEF MouseTypeOK, sceneVars, dragItemVars

\* Types: a view gets a surface.
LEMMA SetSurfaceTypes ==
  ASSUME MouseTypeOK, PointerLists, NEW v \in Views, NEW s \in Surfaces \cup {None},
         SetSurface(v, s)
  PROVE  MouseTypeOK' /\ PointerLists'
<1>1. /\ UNCHANGED <<mouseLive, mouseCursors, pointers, entered, pointer, held, grabber,
                      dragItemVars, touchVars>>
      /\ s \in mouseLive \cup {None}
      /\ views' = views \cup {v}
      /\ viewSurface' = [viewSurface EXCEPT ![v] = s]
  BY DEF SetSurface
<1>2. PointerLists' /\ BoundPointers' = BoundPointers
  BY <1>1, SamePointers
<1> QED
  BY <1>1, <1>2 DEF MouseTypeOK, dragItemVars, touchVars

\* Types: a view goes.
LEMMA DestroyViewTypes ==
  ASSUME MouseTypeOK, PointerLists, NEW v \in Views, DestroyView(v)
  PROVE  MouseTypeOK' /\ PointerLists'
<1> DEFINE focused == viewSurface[v] # None /\ pointer.mouseFocus = v
<1>1. /\ UNCHANGED <<mouseLive, mouseCursors, pointers, held, taken, touchVars>>
      /\ dragging' = dragging \ {v}
      /\ views' = views \ {v}
      /\ viewSurface' = [viewSurface EXCEPT ![v] = None]
      /\ pointer' = IF focused THEN MouseFocus(pointer, None) ELSE pointer
      /\ entered' = IF focused THEN Left(pointer, entered, None) ELSE entered
      /\ grabber' = IF grabber = v THEN None ELSE grabber
  BY DEF DestroyView
<1>2. PointerLists' /\ BoundPointers' = BoundPointers
  BY <1>1, SamePointers
<1>3. pointer \in PointerStates(mouseLive) /\ entered \in [Pointers -> SUBSET mouseLive]
  BY DEF MouseTypeOK, PointerStates
<1>4. MouseFocus(pointer, None) \in PointerStates(mouseLive)
  BY <1>3, MouseFocusTypes
<1>5. Left(pointer, entered, None) \in [Pointers -> SUBSET mouseLive]
  BY <1>3, BoundArePointers DEF Left
<1>6. pointer' \in PointerStates(mouseLive) /\ entered' \in [Pointers -> SUBSET mouseLive]
  BY <1>1, <1>3, <1>4, <1>5
<1>7. views' \subseteq Views /\ viewSurface' \in [Views -> mouseLive \cup {None}]
      /\ grabber' \in views' \cup {None} /\ dragging' \subseteq views'
  BY <1>1 DEF MouseTypeOK
<1> QED
  BY <1>1, <1>2, <1>6, <1>7 DEF MouseTypeOK, touchVars, PointerStates

\* Types: the mouse moves, or a button goes down.
LEMMA MoveTypes ==
  ASSUME MouseTypeOK, PointerLists, NEW v \in Views,
         Move(v) \/ \E b \in Buttons : Press(v, b)
  PROVE  MouseTypeOK' /\ PointerLists'
<1> DEFINE p == Moved(pointer, Target(v))
<1>1. /\ UNCHANGED <<sceneVars, pointers, dragging, touchVars>>
      /\ pointer' = p \/ pointer' = [p EXCEPT !.buttonCount = @ + 1]
      /\ entered' = MovedEntered(pointer, entered, Target(v))
      /\ held' \subseteq Buttons /\ grabber' \in views \cup {None}
      /\ taken' \in {taken, taken + 1}
  BY DEF Move, Press, Sends, Shows, MouseTypeOK, dragItemVars
<1>2. PointerLists' /\ BoundPointers' = BoundPointers
  BY <1>1, SamePointers
<1>3. p \in PointerStates(mouseLive) /\ entered' \in [Pointers -> SUBSET mouseLive]
  BY <1>1, MovedTypes DEF MouseTypeOK, PointerStates
<1> HIDE DEF p
<1>4. pointer' \in PointerStates(mouseLive)
  BY <1>1, <1>3 DEF PointerStates
<1> QED
  BY <1>1, <1>2, <1>3, <1>4 DEF MouseTypeOK, sceneVars, touchVars, PointerStates

\* Types: the mouse leaves, or a drag takes it away.
LEMMA HoverLeaveTypes ==
  ASSUME MouseTypeOK, PointerLists,
         (\E v \in Views : HoverLeave(v)) \/ (\E s \in Surfaces : DragStarted(s))
  PROVE  MouseTypeOK' /\ PointerLists'
<1>1. /\ UNCHANGED <<sceneVars, pointers, held, grabber, touchVars>>
      /\ \/ pointer' = MouseFocus(pointer, None) /\ entered' = Left(pointer, entered, None)
         \/ UNCHANGED <<pointer, entered>>
      /\ dragging' \subseteq views /\ taken' \in {taken, taken + 1}
  BY DEF HoverLeave, DragStarted, dragItemVars, MouseTypeOK
<1>2. PointerLists' /\ BoundPointers' = BoundPointers
  BY <1>1, SamePointers
<1>3. pointer \in PointerStates(mouseLive) /\ entered \in [Pointers -> SUBSET mouseLive]
  BY DEF MouseTypeOK, PointerStates
<1>4. pointer' \in PointerStates(mouseLive)
  BY <1>1, <1>3, MouseFocusTypes
<1>5. entered' \in [Pointers -> SUBSET mouseLive]
  BY <1>1, <1>3, BoundArePointers DEF Left
<1> QED
  BY <1>1, <1>2, <1>4, <1>5 DEF MouseTypeOK, sceneVars, touchVars, PointerStates

\* Types: a button goes up.
LEMMA ReleaseTypes ==
  ASSUME MouseTypeOK, PointerLists, NEW b \in Buttons, Release(b)
  PROVE  MouseTypeOK' /\ PointerLists'
<1> DEFINE hears == grabber # None /\ viewSurface[grabber] # None
           p == IF hears /\ grabber \notin dragging
                THEN [pointer EXCEPT !.buttonCount = @ - 1] ELSE pointer
           ungrabbed == held = {b} /\ grabber # None /\ TouchMoves(grabber)
<1>1. /\ UNCHANGED <<sceneVars, pointers, taken, touchVars>>
      /\ pointer' = IF ungrabbed THEN Moved(p, Target(grabber)) ELSE p
      /\ entered' = IF ungrabbed THEN MovedEntered(p, entered, Target(grabber)) ELSE entered
      /\ held' \subseteq Buttons /\ grabber' \in {None, grabber} /\ dragging' \subseteq views
  BY DEF Release, MouseTypeOK
<1>2. PointerLists' /\ BoundPointers' = BoundPointers
  BY <1>1, SamePointers
<1>3. pointer \in PointerStates(mouseLive) /\ entered \in [Pointers -> SUBSET mouseLive]
  BY DEF MouseTypeOK, PointerStates
<1>5. p \in PointerStates(mouseLive)
  BY <1>3 DEF PointerStates
<1> HIDE DEF p
<1>4. pointer' \in PointerStates(mouseLive) /\ entered' \in [Pointers -> SUBSET mouseLive]
  <2>1. CASE ungrabbed
    <3>1. grabber \in Views
      BY <2>1 DEF MouseTypeOK
    <3> QED
      BY <1>1, <1>3, <1>5, <2>1, <3>1, MovedTypes
  <2>2. CASE ~ungrabbed
    BY <1>1, <1>3, <1>5, <2>2
  <2> QED
    BY <2>1, <2>2
<1> QED
  BY <1>1, <1>2, <1>4 DEF MouseTypeOK, sceneVars, touchVars, PointerStates

\* Types: a button goes down that nobody hears of.
LEMMA PressIgnoredTypes ==
  ASSUME MouseTypeOK, PointerLists, NEW b \in Buttons, PressIgnored(b)
  PROVE  MouseTypeOK' /\ PointerLists'
<1>1. PointerLists' /\ BoundPointers' = BoundPointers
  BY SamePointers DEF PressIgnored
<1> QED
  BY <1>1 DEF PressIgnored, MouseTypeOK, sceneVars, dragItemVars, touchVars

\* What sendDown() sends.
LEMMA SendDownTypes ==
  ASSUME MouseTypeOK, NEW p \in PointerStates(mouseLive), SendDown(p) \/ UNCHANGED touchDown
  PROVE  touchDown' \in [touch : Touches, surface : Surfaces \cup {None}] \cup {None}
<1>1. CASE UNCHANGED touchDown \/ touchFocus = None \/ p.mouseFocus = None
  BY <1>1 DEF MouseTypeOK, SendDown
<1>2. CASE SendDown(p) /\ touchFocus # None /\ p.mouseFocus # None
  <2>1. touchFocus \in Touches /\ viewSurface[p.mouseFocus] \in Surfaces \cup {None}
    BY <1>2 DEF MouseTypeOK, PointerStates
  <2>2. touchDown' = [touch |-> touchFocus, surface |-> viewSurface[p.mouseFocus]]
    BY <1>2 DEF SendDown
  <2> QED
    BY <2>1, <2>2
<1> QED
  BY <1>1, <1>2

\* Types: touch points come and move.
LEMMA TouchEventTypes ==
  ASSUME MouseTypeOK, PointerLists, NEW v \in Views, TouchBegin(v) \/ TouchUpdate(v)
  PROVE  MouseTypeOK' /\ PointerLists'
<1>1. /\ UNCHANGED <<sceneVars, pointers, held, dragItemVars, touches, touchFocus>>
      /\ grabber' \in views \cup {None}
  BY DEF TouchBegin, TouchUpdate, Shows, MouseTypeOK
<1>2. PointerLists' /\ BoundPointers' = BoundPointers
  BY <1>1, SamePointers
<1>3. pointer \in PointerStates(mouseLive) /\ entered \in [Pointers -> SUBSET mouseLive]
  BY DEF MouseTypeOK, PointerStates
<1>4. /\ pointer' \in PointerStates(mouseLive) /\ entered' \in [Pointers -> SUBSET mouseLive]
      /\ touchDown' \in [touch : Touches, surface : Surfaces \cup {None}] \cup {None}
  <2>1. CASE TouchBegin(v)
    <3> DEFINE lost == grabber \notin {None, v} /\ TouchMoves(grabber)
               p == IF lost THEN Moved(pointer, Target(grabber)) ELSE pointer
               e == IF lost THEN MovedEntered(pointer, entered, Target(grabber)) ELSE entered
               q == IF p.mouseFocus = v THEN p ELSE Moved(p, Target(v))
               f == IF p.mouseFocus = v THEN e ELSE MovedEntered(p, e, Target(v))
    <3>1. p \in PointerStates(mouseLive) /\ e \in [Pointers -> SUBSET mouseLive]
      <4>1. CASE lost
        <5>1. grabber \in Views
          BY <4>1 DEF MouseTypeOK
        <5> QED
          BY <1>3, <4>1, <5>1, MovedTypes
      <4>2. CASE ~lost
        BY <1>3, <4>2
      <4> QED
        BY <4>1, <4>2
    <3>2. \/ pointer' = p /\ entered' = e /\ UNCHANGED touchDown
          \/ pointer' = q /\ entered' = f /\ SendDown(q)
      BY <2>1 DEF TouchBegin
    <3> HIDE DEF p, e
    <3>3. q \in PointerStates(mouseLive) /\ f \in [Pointers -> SUBSET mouseLive]
      BY <3>1, MovedTypes
    <3> HIDE DEF q, f
    <3> QED
      BY <3>1, <3>2, <3>3, SendDownTypes
  <2>2. CASE TouchUpdate(v)
    <3> DEFINE q == IF TouchMoves(v) THEN Moved(pointer, Target(v)) ELSE pointer
               f == IF TouchMoves(v) THEN MovedEntered(pointer, entered, Target(v)) ELSE entered
    <3>1. pointer' = q /\ entered' = f /\ (SendDown(q) \/ UNCHANGED touchDown)
      BY <2>2 DEF TouchUpdate
    <3>2. q \in PointerStates(mouseLive) /\ f \in [Pointers -> SUBSET mouseLive]
      BY <1>3, MovedTypes
    <3> HIDE DEF q, f
    <3> QED
      BY <3>1, <3>2, SendDownTypes
  <2> QED
    BY <2>1, <2>2
<1> QED
  BY <1>1, <1>2, <1>4 DEF MouseTypeOK, sceneVars, dragItemVars, PointerStates

\* Types: nothing happens.
LEMMA MouseStutters ==
  ASSUME MouseTypeOK, PointerLists, UNCHANGED mouseVars
  PROVE  MouseTypeOK' /\ PointerLists'
<1>1. PointerLists' /\ BoundPointers' = BoundPointers
  BY SamePointers DEF mouseVars
<1> QED
  BY <1>1 DEF MouseTypeOK, mouseVars, sceneVars, dragItemVars, touchVars

\* Every step keeps the types.
LEMMA MouseTypesNext ==
  MouseTypeOK /\ PointerLists /\ [MouseNext]_mouseVars => MouseTypeOK' /\ PointerLists'
BY CreateMouseSurfaceTypes, DestroyMouseSurfaceTypes, BindPointerTypes, DestroyPointerTypes,
   TouchTypes, SetSurfaceTypes, DestroyViewTypes, MoveTypes, HoverLeaveTypes, ReleaseTypes,
   PressIgnoredTypes, TouchEventTypes, MouseStutters
DEF MouseNext, ClientNext, SceneNext

\* The view, the wl_pointer, the wl_touch and the surfaces that the pointer and
\* touch devices refer to exist, whatever clients and shells destroy when.
THEOREM MouseTypeCorrect == MouseSpec => []MouseTypeOK
BY MouseTypesInit, MouseTypesNext, PTL DEF MouseSpec

-----------------------------------------------------------------------------
(* The mouse: who is told where it is *)

Orderly == OrderlyClients /\ OrderlyShell

Placed == Nowhere(pointer, entered) \/ OnSurface(pointer, entered)

\* The owner of a surface that exists has a wl_pointer, which is its own.
LEMMA OwnersPointer ==
  ASSUME MouseTypeOK, PointerLists, OnePointer, NEW s \in mouseLive
  PROVE  /\ OwnerOf[s] \in Clients
         /\ PointerOf(OwnerOf[s]) \in Pointers /\ PointerOf(OwnerOf[s]) # None
         /\ OwnerOf[PointerOf(OwnerOf[s])] = OwnerOf[s]
<1>1. OwnerOf[s] \in Clients /\ pointers[OwnerOf[s]] # <<>>
  BY SurfaceOwners DEF MouseTypeOK, OnePointer
<1>2. PICK r \in Pointers : pointers[OwnerOf[s]] = <<r>>
  BY <1>1 DEF OnePointer
<1>3. PointerOf(OwnerOf[s]) = r
  BY <1>2 DEF PointerOf
<1>4. 1 \in DOMAIN pointers[OwnerOf[s]] /\ pointers[OwnerOf[s]][1] = r
  BY <1>2
<1>5. OwnerOf[r] = OwnerOf[s]
  BY <1>1, <1>4 DEF PointerLists
<1> QED
  BY <1>1, <1>3, <1>5, NoneIsNoDevice

\* The surface under the mouse exists.
LEMMA SurfaceUnderMouse ==
  ASSUME MouseTypeOK, PointerLists, OnePointer,
         NEW p \in PointerStates(mouseLive), NEW e, OnSurface(p, e)
  PROVE  /\ p.mouseFocus \in Views /\ p.mouseFocus # None
         /\ viewSurface[p.mouseFocus] \in mouseLive
         /\ viewSurface[p.mouseFocus] # None
         /\ p.focusResource \in Pointers /\ p.focusResource # None
<1>1. /\ p.mouseFocus \in Views /\ p.mouseFocus # None
      /\ viewSurface[p.mouseFocus] \in mouseLive
      /\ viewSurface[p.mouseFocus] # None
  BY NoneIsNoDevice DEF MouseTypeOK, OnSurface, PointerStates
<1> QED
  BY <1>1, OwnersPointer DEF OnSurface

\* setMouseFocus(None): nobody is left that believes to be under the mouse.
LEMMA AfterLeave ==
  ASSUME MouseTypeOK, PointerLists, OnePointer,
         NEW p \in PointerStates(mouseLive), NEW e \in [Pointers -> SUBSET mouseLive],
         Nowhere(p, e) \/ OnSurface(p, e)
  PROVE  Nowhere(MouseFocus(p, None), Left(p, e, None))
<1>2. CASE Nowhere(p, e)
  BY <1>2 DEF Nowhere, MouseFocus, Left
<1>3. CASE OnSurface(p, e)
  <2>1. /\ p.mouseFocus # None /\ p.focusResource # None
        /\ p.focusResource \in Pointers
    BY <1>3, SurfaceUnderMouse
  <2>2. /\ MouseFocus(p, None).mouseFocus = None
        /\ MouseFocus(p, None).focusResource = None
        /\ MouseFocus(p, None).listening = {}
    BY <2>1 DEF MouseFocus, FocusChanged, PointerStates
  <2>3. Left(p, e, None) =
          [e EXCEPT ![p.focusResource] = @ \ {viewSurface[p.mouseFocus]}]
    BY <2>1 DEF Left
  <2>4. /\ e[p.focusResource] \subseteq {viewSurface[p.mouseFocus]}
        /\ \A r \in Pointers : r # p.focusResource => e[r] = {}
    BY <1>3, <2>1 DEF OnSurface
  <2>5. \A r \in Pointers :
          Left(p, e, None)[r] =
            IF r = p.focusResource
            THEN e[r] \ {viewSurface[p.mouseFocus]} ELSE e[r]
    BY <2>3
  <2>6. \A r \in Pointers : Left(p, e, None)[r] = {}
    BY <2>4, <2>5
  <2> QED
    BY <2>2, <2>6 DEF Nowhere
<1> QED
  BY <1>2, <1>3

\* sendMouseMoveEvent() for the view of a surface: its client is told, and
\* whoever was told of another surface is told that the mouse left.
LEMMA AfterMove ==
  ASSUME MouseInv, NEW v \in Views, viewSurface[v] # None,
         NEW p \in PointerStates(mouseLive), NEW e \in [Pointers -> SUBSET mouseLive],
         Nowhere(p, e) \/ OnSurface(p, e)
  PROVE  /\ Target(v) = v
         /\ Moved(p, v).mouseFocus = v
         /\ OnSurface(Moved(p, v), MovedEntered(p, e, v))
<1> DEFINE s == viewSurface[v]
           r == PointerOf(OwnerOf[s])
           q == MouseFocus(p, v)
           l == Left(p, e, v)
<1>1. MouseTypeOK /\ PointerLists /\ OnePointer
  BY DEF MouseInv
<1>2. v \in views /\ v # None /\ s \in mouseLive /\ s \notin mouseCursors
  BY <1>1, NoneIsNoDevice DEF MouseInv, ShownSurfaces, MouseTypeOK
<1>3. Target(v) = v
  BY <1>2 DEF Target
<1>4. r \in Pointers /\ r # None /\ Resource(v) = r
  BY <1>1, <1>2, OwnersPointer DEF Resource
<1>5. /\ DOMAIN Moved(p, v) = DOMAIN q
      /\ Moved(p, v) = [q EXCEPT !.focusResource = r,
                                       !.hasSentEnter = @ \/ ~q.hasSentEnter,
                                       !.listening = IF ~q.hasSentEnter THEN @ \cup {s} ELSE @]
      /\ MovedEntered(p, e, v) = IF ~q.hasSentEnter
                                             THEN [l EXCEPT ![r] = @ \cup {s}] ELSE l
  BY <1>4 DEF Moved, MovedEntered, SendsEnter
<1>6. q \in PointerStates(mouseLive) /\ q.mouseFocus = v
  BY <1>1, MouseFocusTypes
<1>7. CASE p.mouseFocus = v
  <2>1. OnSurface(p, e)
    BY <1>2, <1>7 DEF Nowhere
  <2>2. q = p /\ l = e
    BY <1>7 DEF MouseFocus, Left
  <2>3. q.hasSentEnter /\ q.listening = {s} /\ \A x \in Pointers : l[x] = IF x = r THEN {s} ELSE {}
    BY <1>7, <2>1, <2>2 DEF OnSurface
  <2> HIDE DEF q, l, s, r
  <2>4. /\ Moved(p, v).mouseFocus = v /\ Moved(p, v).focusResource = r
        /\ Moved(p, v).hasSentEnter /\ Moved(p, v).listening = {s}
        /\ MovedEntered(p, e, v) = l
    BY <1>5, <1>6, <2>3 DEF PointerStates
  <2> QED
    BY <1>2, <1>3, <2>3, <2>4 DEF OnSurface, s, r
<1>8. CASE p.mouseFocus # v
  <2>1. ~q.hasSentEnter /\ q.listening = {} /\ l \in [Pointers -> SUBSET mouseLive]
        /\ \A x \in Pointers : l[x] = {}
    <3>1. CASE Nowhere(p, e)
      BY <1>1, <1>8, <3>1 DEF MouseFocus, FocusChanged, PointerStates, Nowhere, Left
    <3>2. CASE OnSurface(p, e)
      <4>1. /\ p.mouseFocus # None /\ p.focusResource # None
            /\ p.focusResource \in Pointers
        BY <1>1, <3>2, SurfaceUnderMouse
      <4>2. ~q.hasSentEnter /\ q.listening = {}
        BY <1>1, <1>8, <4>1 DEF MouseFocus, FocusChanged, PointerStates
      <4>3. l = [e EXCEPT ![p.focusResource] = @ \ {viewSurface[p.mouseFocus]}]
        BY <1>8, <4>1 DEF Left
      <4>4. l \in [Pointers -> SUBSET mouseLive] /\ \A x \in Pointers : l[x] = {}
        BY <1>1, <3>2, <4>1, <4>3 DEF OnSurface
      <4> QED
        BY <4>2, <4>4
    <3> QED
      BY <3>1, <3>2
  <2> HIDE DEF q, l, s, r
  <2>2. /\ Moved(p, v).mouseFocus = v /\ Moved(p, v).focusResource = r
        /\ Moved(p, v).hasSentEnter /\ Moved(p, v).listening = {s}
    BY <1>5, <1>6, <2>1 DEF PointerStates
  <2>3. \A x \in Pointers : MovedEntered(p, e, v)[x] = IF x = r THEN {s} ELSE {}
    BY <1>4, <1>5, <2>1
  <2> QED
    BY <1>2, <1>3, <2>2, <2>3 DEF OnSurface, s, r
<1> QED
  BY <1>7, <1>8

\* The same, with the types.
LEMMA MovedIsPlaced ==
  ASSUME MouseInv, NEW v \in Views, viewSurface[v] # None,
         NEW p \in PointerStates(mouseLive), NEW e \in [Pointers -> SUBSET mouseLive],
         Nowhere(p, e) \/ OnSurface(p, e)
  PROVE  /\ Moved(p, Target(v)) \in PointerStates(mouseLive)
         /\ MovedEntered(p, e, Target(v)) \in [Pointers -> SUBSET mouseLive]
         /\ OnSurface(Moved(p, Target(v)), MovedEntered(p, e, Target(v)))
         /\ Moved(p, Target(v)).mouseFocus = v
         /\ Moved(p, Target(v)).buttonCount = p.buttonCount
BY AfterMove, MovedTypes DEF MouseInv

\* Where the mouse is in a state that has the scene and the wl_pointers of the
\* one before it.
LEMMA SameScene ==
  ASSUME MouseInv, UNCHANGED <<mouseLive, mouseCursors, views, viewSurface, pointers>>,
         Nowhere(pointer', entered') \/ OnSurface(pointer', entered')
  PROVE  OnePointer' /\ ShownSurfaces' /\ Placed'
<1>1. OnePointer' /\ ShownSurfaces' /\ \A c : PointerOf(c)' = PointerOf(c)
  BY DEF MouseInv, OnePointer, ShownSurfaces, PointerOf
<1>2. CASE Nowhere(pointer', entered')
  BY <1>1, <1>2 DEF Placed, Nowhere
<1>3. CASE OnSurface(pointer', entered')
  BY <1>1, <1>3 DEF Placed, OnSurface
<1> QED
  BY <1>1, <1>2, <1>3

\* At the start the mouse is nowhere.
LEMMA MouseInvInit == MouseInit => MouseInv
<1> SUFFICES ASSUME MouseInit PROVE MouseInv
  OBVIOUS
<1>1. MouseTypeOK /\ PointerLists
  BY MouseTypesInit
<1>2. OnePointer /\ ShownSurfaces /\ Nowhere(pointer, entered)
  BY DEF MouseInit, OnePointer, ShownSurfaces, Nowhere
<1> QED
  BY <1>1, <1>2 DEF MouseInv

\* What leaves the pointer device alone, and the view under the mouse as it
\* is, leaves the mouse where it is.
LEMMA MouseUntouched ==
  ASSUME MouseInv, UNCHANGED <<pointer, entered>>,
         \A v \in views : viewSurface[v] # None =>
            /\ v \in views' /\ viewSurface'[v] = viewSurface[v]
            /\ PointerOf(OwnerOf[viewSurface[v]])' = PointerOf(OwnerOf[viewSurface[v]])
  PROVE  Placed'
<1>1. CASE Nowhere(pointer, entered)
  BY <1>1 DEF Placed, Nowhere
<1>2. CASE OnSurface(pointer, entered)
  <2>1. pointer.mouseFocus \in views /\ viewSurface[pointer.mouseFocus] # None
    BY <1>2 DEF OnSurface
  <2>2. /\ pointer' = pointer /\ entered' = entered
        /\ pointer.mouseFocus \in views' /\ viewSurface'[pointer.mouseFocus] = viewSurface[pointer.mouseFocus]
        /\ PointerOf(OwnerOf[viewSurface[pointer.mouseFocus]])'
             = PointerOf(OwnerOf[viewSurface[pointer.mouseFocus]])
    BY <2>1
  <2> QED
    BY <1>2, <2>2 DEF Placed, OnSurface
<1> QED
  BY <1>1, <1>2 DEF MouseInv

\* Surfaces come, and cursors are none that is shown.
LEMMA CreateMouseSurfaceStep ==
  ASSUME MouseInv, Orderly, NEW s \in Surfaces, CreateMouseSurface(s) \/ SetMouseCursor(s)
  PROVE  OnePointer' /\ ShownSurfaces' /\ Placed'
<1>1. UNCHANGED <<views, viewSurface, pointers, entered, pointer, held, grabber>>
  BY DEF CreateMouseSurface, SetMouseCursor
<1>2. \A c : PointerOf(c)' = PointerOf(c)
  BY <1>1 DEF PointerOf
<1>3. Placed'
  BY <1>1, <1>2, MouseUntouched
<1>4. OnePointer'
  <2>1. CASE CreateMouseSurface(s)
    BY <1>1, <2>1 DEF CreateMouseSurface, MouseInv, OnePointer, Orderly
  <2>2. CASE SetMouseCursor(s)
    BY <1>1, <2>2 DEF SetMouseCursor, MouseInv, OnePointer
  <2> QED
    BY <2>1, <2>2
<1>5. ShownSurfaces'
  <2>1. CASE CreateMouseSurface(s)
    BY <1>1, <2>1 DEF CreateMouseSurface, MouseInv, ShownSurfaces
  <2>2. CASE SetMouseCursor(s)
    BY <1>1, <2>2 DEF SetMouseCursor, MouseInv, ShownSurfaces, Orderly
  <2> QED
    BY <2>1, <2>2
<1> QED
  BY <1>3, <1>4, <1>5

\* focusDestroyed() after the surface under the mouse is gone: the mouse is
\* nowhere, and the press that was counted is forgotten.
LEMMA DestroyMouseSurfaceStep ==
  ASSUME MouseInv, NEW s \in Surfaces, DestroyMouseSurface(s)
  PROVE  /\ OnePointer' /\ ShownSurfaces' /\ Placed'
         /\ s \in pointer.listening => pointer'.buttonCount = 0
<1> DEFINE fired == s \in pointer.listening
           e == IF fired THEN Left(pointer, entered, None) ELSE entered
<1>1. /\ UNCHANGED <<mouseCursors, views, pointers>>
      /\ mouseLive' = mouseLive \ {s}
      /\ pointer' = IF fired THEN FocusDestroyed(pointer) ELSE pointer
      /\ entered' = [r \in Pointers |-> e[r] \ {s}]
      /\ viewSurface' = [v \in Views |-> IF viewSurface[v] = s THEN None ELSE viewSurface[v]]
  BY DEF DestroyMouseSurface
<1>2. /\ MouseTypeOK /\ PointerLists /\ OnePointer /\ Placed
      /\ pointer \in PointerStates(mouseLive) /\ entered \in [Pointers -> SUBSET mouseLive]
  BY DEF MouseInv, Placed, MouseTypeOK, PointerStates
<1>3. OnePointer' /\ ShownSurfaces'
  BY <1>1 DEF MouseInv, OnePointer, ShownSurfaces
<1>4. \A c : PointerOf(c)' = PointerOf(c)
  BY <1>1 DEF PointerOf
<1>5. CASE Nowhere(pointer, entered)
  <2>1. ~fired /\ pointer' = pointer
    BY <1>1, <1>5 DEF Nowhere
  <2>2. \A r \in Pointers : entered'[r] = {}
    BY <1>1, <1>5, <2>1 DEF Nowhere
  <2> QED
    BY <1>3, <1>5, <2>1, <2>2 DEF Placed, Nowhere
<1>6. CASE OnSurface(pointer, entered) /\ fired
  <2>1. /\ pointer.mouseFocus # None /\ pointer.focusResource # None
        /\ \A r \in Pointers : Left(pointer, entered, None)[r] = {}
    BY <1>2, <1>6, SurfaceUnderMouse, AfterLeave DEF Nowhere
  <2>2. \A r \in Pointers : entered'[r] = {}
    BY <1>1, <1>6, <2>1
  <2> DEFINE q == MouseFocus([pointer EXCEPT !.listening = {}], None)
  <2>3. q.mouseFocus = None /\ q.listening = {} /\ q \in PointerStates(mouseLive)
    <3>1. [pointer EXCEPT !.listening = {}] \in PointerStates(mouseLive)
      BY <1>2 DEF PointerStates
    <3> QED
      BY <1>2, <3>1, <2>1, MouseFocusTypes DEF MouseFocus, FocusChanged, PointerStates
  <2>4. pointer' = [q EXCEPT !.focusResource = None, !.buttonCount = 0]
    BY <1>1, <1>6 DEF FocusDestroyed
  <2> HIDE DEF q
  <2>5. /\ pointer'.mouseFocus = None /\ pointer'.focusResource = None
        /\ pointer'.listening = {} /\ pointer'.buttonCount = 0
    BY <2>3, <2>4 DEF PointerStates
  <2> QED
    BY <1>3, <2>2, <2>5 DEF Placed, Nowhere
<1>7. CASE OnSurface(pointer, entered) /\ ~fired
  <2> DEFINE m == pointer.mouseFocus
  <2>1. m \in Views /\ m \in views' /\ viewSurface[m] # None /\ viewSurface[m] # s
    BY <1>1, <1>2, <1>7, SurfaceUnderMouse DEF OnSurface
  <2>2. viewSurface'[m] = viewSurface[m] /\ pointer' = pointer
    BY <1>1, <1>7, <2>1
  <2>3. \A r \in Pointers : entered'[r] = entered[r]
    BY <1>1, <1>7, <2>1 DEF OnSurface
  <2> HIDE DEF fired, e
  <2>4. OnSurface(pointer, entered)'
    BY <1>4, <1>7, <2>1, <2>2, <2>3 DEF OnSurface
  <2> QED
    BY <1>3, <1>7, <2>4 DEF Placed, fired
<1> QED
  BY <1>2, <1>5, <1>6, <1>7, <1>3 DEF Placed, Nowhere

\* A client binds its wl_pointer, before it has surfaces.
LEMMA BindPointerStep ==
  ASSUME MouseInv, Orderly, NEW r \in Pointers, BindPointer(r)
  PROVE  OnePointer' /\ ShownSurfaces' /\ Placed'
<1> DEFINE c == OwnerOf[r]
<1>1. /\ UNCHANGED <<mouseLive, mouseCursors, views, viewSurface, entered, pointer>>
      /\ pointers' = [pointers EXCEPT ![c] = <<r>> \o @]
      /\ pointers[c] = <<>>
  BY DEF BindPointer, Orderly, sceneVars
<1>2. c \in Clients /\ pointers \in [Clients -> Seq(Pointers)]
  BY PointerOwners DEF MouseInv, MouseTypeOK
<1>3. pointers'[c] = <<r>> /\ \A d \in Clients \ {c} : pointers'[d] = pointers[d]
  BY <1>1, <1>2
<1> HIDE DEF c
<1>4. OnePointer' /\ ShownSurfaces'
  <2>1. \A d \in Clients : pointers'[d] = <<>> \/ \E x \in Pointers : pointers'[d] = <<x>>
    BY <1>3 DEF MouseInv, OnePointer
  <2>2. \A s \in mouseLive' : pointers'[OwnerOf[s]] # <<>>
    <3> SUFFICES ASSUME NEW s \in mouseLive PROVE pointers'[OwnerOf[s]] # <<>>
      BY <1>1
    <3>1. OwnerOf[s] \in Clients /\ pointers[OwnerOf[s]] # <<>>
      BY SurfaceOwners DEF MouseInv, MouseTypeOK, OnePointer
    <3> QED
      BY <1>1, <1>3, <3>1
  <2> QED
    BY <1>1, <2>1, <2>2 DEF OnePointer, MouseInv, ShownSurfaces
<1>5. ASSUME NEW v \in views, viewSurface[v] # None
      PROVE  PointerOf(OwnerOf[viewSurface[v]])' = PointerOf(OwnerOf[viewSurface[v]])
  <2>1. viewSurface[v] \in mouseLive
    BY <1>5 DEF MouseInv, MouseTypeOK
  <2>2. OwnerOf[viewSurface[v]] \in Clients \ {c}
    BY <1>1, <2>1, SurfaceOwners DEF MouseInv, MouseTypeOK, OnePointer
  <2> QED
    BY <1>1, <1>3, <2>2 DEF PointerOf
<1> QED
  BY <1>1, <1>4, <1>5, MouseUntouched

\* A client without surfaces destroys its wl_pointer.
LEMMA DestroyPointerStep ==
  ASSUME MouseInv, Orderly, NEW r \in Pointers, DestroyPointer(r)
  PROVE  OnePointer' /\ ShownSurfaces' /\ Placed'
<1> DEFINE c == OwnerOf[r]
<1>1. /\ UNCHANGED <<mouseLive, mouseCursors, views, viewSurface>>
      /\ pointers' = [pointers EXCEPT ![c] = Removed(@, r)]
      /\ pointer' = IF pointer.focusResource = r
                    THEN [pointer EXCEPT !.focusResource = None] ELSE pointer
      /\ entered' = [entered EXCEPT ![r] = {}]
      /\ r \in BoundPointers
      /\ \A s \in mouseLive : OwnerOf[s] # c
  BY DEF DestroyPointer, Orderly, sceneVars
<1>2. /\ c \in Clients /\ pointers \in [Clients -> Seq(Pointers)]
      /\ pointer \in PointerStates(mouseLive) /\ entered \in [Pointers -> SUBSET mouseLive]
  BY PointerOwners DEF MouseInv, MouseTypeOK, PointerStates
<1>3. pointers[c] \in Seq(Pointers) /\ r \in {pointers[c][i] : i \in DOMAIN pointers[c]}
  BY <1>1, <1>2, BoundPointer DEF MouseInv, PointerLists
<1>4. Len(pointers[c]) = 1
  <2>1. pointers[c] # <<>>
    BY <1>3
  <2>2. PICK x \in Pointers : pointers[c] = <<x>>
    BY <1>2, <2>1 DEF MouseInv, OnePointer
  <2> QED
    BY <2>2
<1>5. \A i, j \in DOMAIN pointers[c] : pointers[c][i] = pointers[c][j] => i = j
  BY <1>2 DEF MouseInv, PointerLists
<1>6. Removed(pointers[c], r) = <<>>
  BY <1>3, <1>4, <1>5, RemovedLeavesTheRest
<1>7. pointers'[c] = <<>> /\ \A d \in Clients \ {c} : pointers'[d] = pointers[d]
  BY <1>1, <1>2, <1>6
<1> HIDE DEF c
<1>8. OnePointer' /\ ShownSurfaces'
  <2>1. \A d \in Clients : pointers'[d] = <<>> \/ \E x \in Pointers : pointers'[d] = <<x>>
    BY <1>7 DEF MouseInv, OnePointer
  <2>2. \A s \in mouseLive' : pointers'[OwnerOf[s]] # <<>>
    <3> SUFFICES ASSUME NEW s \in mouseLive PROVE pointers'[OwnerOf[s]] # <<>>
      BY <1>1
    <3>1. OwnerOf[s] \in Clients /\ pointers[OwnerOf[s]] # <<>>
      BY SurfaceOwners DEF MouseInv, MouseTypeOK, OnePointer
    <3> QED
      BY <1>1, <1>7, <3>1
  <2> QED
    BY <1>1, <2>1, <2>2 DEF OnePointer, MouseInv, ShownSurfaces
<1>9. CASE Nowhere(pointer, entered)
  <2>1. pointer' = pointer \/ pointer' = [pointer EXCEPT !.focusResource = None]
    BY <1>1
  <2>2. pointer'.mouseFocus = None /\ pointer'.focusResource = None /\ pointer'.listening = {}
    BY <1>2, <1>9, <2>1 DEF Nowhere, PointerStates
  <2>3. \A x \in Pointers : entered'[x] = {}
    BY <1>1, <1>2, <1>9 DEF Nowhere
  <2> QED
    BY <1>8, <2>2, <2>3 DEF Placed, Nowhere
<1>10. CASE OnSurface(pointer, entered)
  <2>1. PICK s \in mouseLive : s = viewSurface[pointer.mouseFocus] /\ s # None
    BY <1>2, <1>10, SurfaceUnderMouse DEF MouseInv
  <2>2. OwnerOf[s] \in Clients /\ pointer.focusResource = PointerOf(OwnerOf[s])
        /\ OwnerOf[pointer.focusResource] = OwnerOf[s] /\ OwnerOf[s] # c
    BY <1>1, <1>10, <2>1, OwnersPointer DEF MouseInv, OnSurface
  <2>3. pointer.focusResource # r
    BY <2>2 DEF c
  <2>4. pointer' = pointer /\ \A x \in Pointers : entered'[x] = entered[x]
    BY <1>1, <1>2, <1>10, <2>3 DEF OnSurface
  <2>5. PointerOf(OwnerOf[s])' = PointerOf(OwnerOf[s])
    BY <1>1, <1>7, <2>2 DEF PointerOf
  <2>6. \A x \in Pointers : entered'[x] = IF x = pointer.focusResource THEN {s} ELSE {}
    BY <1>10, <2>1, <2>4 DEF OnSurface
  <2>7. /\ pointer.mouseFocus \in views' /\ viewSurface'[pointer.mouseFocus] = s /\ s # None
        /\ pointer.focusResource = PointerOf(OwnerOf[s])'
        /\ pointer.hasSentEnter /\ pointer.listening = {s}
    BY <1>1, <1>10, <2>1, <2>5 DEF OnSurface
  <2>8. OnSurface(pointer, entered)'
    BY <2>4, <2>6, <2>7 DEF OnSurface
  <2> QED
    BY <1>8, <2>8 DEF Placed
<1> QED
  BY <1>9, <1>10 DEF MouseInv

\* What is said of views: one is added, or one without a surface goes.
LEMMA ViewStep ==
  ASSUME MouseInv, Orderly, NEW v \in Views,
         DestroyView(v) \/ \E s \in Surfaces \cup {None} : SetSurface(v, s)
  PROVE  OnePointer' /\ ShownSurfaces' /\ Placed' /\ UNCHANGED <<pointer, entered>>
<1>1. viewSurface[v] = None
  <2>1. CASE DestroyView(v)
    BY <2>1 DEF DestroyView, Orderly
  <2>2. CASE \E s \in Surfaces \cup {None} : SetSurface(v, s)
    BY <2>2 DEF SetSurface, Orderly, MouseInv, ShownSurfaces
  <2> QED
    BY <2>1, <2>2
<1>2. /\ UNCHANGED <<mouseLive, mouseCursors, pointers, pointer, entered>>
      /\ views \ {v} \subseteq views'
      /\ \A u \in Views \ {v} : viewSurface'[u] = viewSurface[u]
      /\ viewSurface'[v] # None => v \in views' /\ viewSurface'[v] \notin mouseCursors
  <2>1. CASE DestroyView(v)
    BY <1>1, <2>1 DEF DestroyView, MouseInv, MouseTypeOK
  <2>2. CASE \E s \in Surfaces \cup {None} : SetSurface(v, s)
    BY <2>2 DEF SetSurface, Orderly, MouseInv, MouseTypeOK
  <2> QED
    BY <2>1, <2>2
<1>3. \A c : PointerOf(c)' = PointerOf(c)
  BY <1>2 DEF PointerOf
<1>4. OnePointer' /\ ShownSurfaces'
  BY <1>2 DEF MouseInv, OnePointer, ShownSurfaces
<1>5. views \subseteq Views
  BY DEF MouseInv, MouseTypeOK
<1>6. Placed'
  BY <1>1, <1>2, <1>3, <1>5, MouseUntouched
<1> QED
  BY <1>2, <1>4, <1>6

\* The mouse moves, or a button goes down: the mouse is over v.
LEMMA MoveStep ==
  ASSUME MouseInv, NEW v \in Views, NEW d \in {0, 1},
         IF d = 0 THEN Move(v) ELSE \E b \in Buttons : Press(v, b)
  PROVE  /\ OnePointer' /\ ShownSurfaces' /\ Placed'
         /\ pointer'.mouseFocus = v
         /\ pointer'.buttonCount = pointer.buttonCount + d
<1> DEFINE p == Moved(pointer, Target(v))
           e == MovedEntered(pointer, entered, Target(v))
<1>1. /\ UNCHANGED <<mouseLive, mouseCursors, views, viewSurface, pointers>>
      /\ viewSurface[v] # None
  BY DEF Move, Press, Sends, Shows, sceneVars
<1>2. /\ pointer \in PointerStates(mouseLive) /\ entered \in [Pointers -> SUBSET mouseLive]
      /\ Nowhere(pointer, entered) \/ OnSurface(pointer, entered)
  BY DEF MouseInv, MouseTypeOK, PointerStates
<1>3. /\ p \in PointerStates(mouseLive) /\ OnSurface(p, e)
      /\ p.mouseFocus = v /\ p.buttonCount = pointer.buttonCount
  BY <1>1, <1>2, MovedIsPlaced
<1>4. /\ pointer' = IF d = 0 THEN p ELSE [p EXCEPT !.buttonCount = @ + 1]
      /\ entered' = e
  BY DEF Move, Press
<1> HIDE DEF p, e
<1>5. /\ pointer'.mouseFocus = p.mouseFocus /\ pointer'.focusResource = p.focusResource
      /\ pointer'.hasSentEnter = p.hasSentEnter /\ pointer'.listening = p.listening
      /\ pointer'.buttonCount = pointer.buttonCount + d
  BY <1>3, <1>4 DEF PointerStates
<1>6. OnSurface(pointer', entered')
  BY <1>3, <1>4, <1>5 DEF OnSurface
<1>7. OnePointer' /\ ShownSurfaces' /\ Placed'
  BY <1>1, <1>6, SameScene
<1> QED
  BY <1>3, <1>5, <1>7

\* Either of them.
LEMMA MoveOrPressStep ==
  ASSUME MouseInv, NEW v \in Views, Move(v) \/ \E b \in Buttons : Press(v, b)
  PROVE  OnePointer' /\ ShownSurfaces' /\ Placed'
<1>1. CASE Move(v)
  BY <1>1, MoveStep
<1>2. CASE \E b \in Buttons : Press(v, b)
  BY <1>2, MoveStep
<1> QED
  BY <1>1, <1>2

\* Touch points: the mouse is over the item that is touched, or where it was.
LEMMA TouchStep ==
  ASSUME MouseInv, NEW v \in Views, TouchBegin(v) \/ TouchUpdate(v)
  PROVE  /\ OnePointer' /\ ShownSurfaces' /\ Placed'
         /\ pointer'.buttonCount = pointer.buttonCount
<1>1. /\ UNCHANGED <<mouseLive, mouseCursors, views, viewSurface, pointers>>
      /\ viewSurface[v] # None
  BY DEF TouchBegin, TouchUpdate, Shows, sceneVars
<1>2. /\ pointer \in PointerStates(mouseLive) /\ entered \in [Pointers -> SUBSET mouseLive]
      /\ Nowhere(pointer, entered) \/ OnSurface(pointer, entered)
  BY DEF MouseInv, MouseTypeOK, PointerStates
<1>3. CASE TouchUpdate(v)
  <2> DEFINE q == Moved(pointer, Target(v))
             f == MovedEntered(pointer, entered, Target(v))
  <2>1. pointer' = (IF TouchMoves(v) THEN q ELSE pointer)
        /\ entered' = (IF TouchMoves(v) THEN f ELSE entered)
    BY <1>3 DEF TouchUpdate
  <2>2. OnSurface(q, f) /\ q.buttonCount = pointer.buttonCount
    BY <1>1, <1>2, MovedIsPlaced
  <2> HIDE DEF q, f
  <2>3. /\ Nowhere(pointer', entered') \/ OnSurface(pointer', entered')
        /\ pointer'.buttonCount = pointer.buttonCount
    <3>1. CASE TouchMoves(v)
      BY <2>1, <2>2, <3>1
    <3>2. CASE ~TouchMoves(v)
      BY <1>2, <2>1, <3>2
    <3> QED
      BY <3>1, <3>2
  <2> QED
    BY <1>1, <2>3, SameScene
<1>4. CASE TouchBegin(v)
  <2> DEFINE lost == grabber \notin {None, v} /\ TouchMoves(grabber)
             p == IF lost THEN Moved(pointer, Target(grabber)) ELSE pointer
             e == IF lost THEN MovedEntered(pointer, entered, Target(grabber)) ELSE entered
             q == Moved(p, Target(v))
             f == MovedEntered(p, e, Target(v))
  <2>1. \/ pointer' = p /\ entered' = e
        \/ p.mouseFocus = v /\ pointer' = p /\ entered' = e
        \/ pointer' = q /\ entered' = f
    BY <1>4 DEF TouchBegin
  <2>2. /\ p \in PointerStates(mouseLive) /\ e \in [Pointers -> SUBSET mouseLive]
        /\ Nowhere(p, e) \/ OnSurface(p, e)
        /\ p.buttonCount = pointer.buttonCount
    <3>1. CASE lost
      <4>1. grabber \in Views /\ viewSurface[grabber] # None
        BY <3>1 DEF MouseInv, MouseTypeOK, TouchMoves, Shows
      <4> QED
        BY <1>2, <3>1, <4>1, MovedIsPlaced
    <3>2. CASE ~lost
      BY <1>2, <3>2
    <3> QED
      BY <3>1, <3>2
  <2> HIDE DEF p, e
  <2>3. OnSurface(q, f) /\ q.buttonCount = p.buttonCount
    BY <1>1, <2>2, MovedIsPlaced
  <2> HIDE DEF q, f
  <2>4. /\ Nowhere(pointer', entered') \/ OnSurface(pointer', entered')
        /\ pointer'.buttonCount = pointer.buttonCount
    BY <2>1, <2>2, <2>3
  <2> QED
    BY <1>1, <2>4, SameScene
<1> QED
  BY <1>3, <1>4

\* The mouse leaves, or a drag takes it away.
LEMMA LeaveStep ==
  ASSUME MouseInv, (\E v \in Views : HoverLeave(v)) \/ (\E s \in Surfaces : DragStarted(s))
  PROVE  /\ OnePointer' /\ ShownSurfaces' /\ Placed'
         /\ pointer'.buttonCount = pointer.buttonCount
<1>1. UNCHANGED <<mouseLive, mouseCursors, views, viewSurface, pointers>>
  BY DEF HoverLeave, DragStarted, sceneVars
<1>2. /\ pointer \in PointerStates(mouseLive) /\ entered \in [Pointers -> SUBSET mouseLive]
      /\ Nowhere(pointer, entered) \/ OnSurface(pointer, entered)
  BY DEF MouseInv, MouseTypeOK, PointerStates
<1>3. \/ pointer' = MouseFocus(pointer, None) /\ entered' = Left(pointer, entered, None)
      \/ UNCHANGED <<pointer, entered>>
  BY DEF HoverLeave, DragStarted
<1>4. /\ Nowhere(MouseFocus(pointer, None), Left(pointer, entered, None))
      /\ MouseFocus(pointer, None).buttonCount = pointer.buttonCount
  BY <1>2, AfterLeave, MouseFocusTypes DEF MouseInv
<1>5. /\ Nowhere(pointer', entered') \/ OnSurface(pointer', entered')
      /\ pointer'.buttonCount = pointer.buttonCount
  BY <1>2, <1>3, <1>4
<1> QED
  BY <1>1, <1>5, SameScene

\* A button goes up, and the item that had the mouse is told.
LEMMA ReleaseStep ==
  ASSUME MouseInv, NEW b \in Buttons, Release(b)
  PROVE  /\ OnePointer' /\ ShownSurfaces' /\ Placed'
         /\ pointer'.buttonCount =
              IF grabber # None /\ viewSurface[grabber] # None /\ grabber \notin dragging
              THEN pointer.buttonCount - 1 ELSE pointer.buttonCount
<1> DEFINE counts == grabber # None /\ viewSurface[grabber] # None /\ grabber \notin dragging
           p == IF counts THEN [pointer EXCEPT !.buttonCount = @ - 1] ELSE pointer
           ungrabbed == held = {b} /\ grabber # None /\ TouchMoves(grabber)
<1>1. /\ UNCHANGED <<mouseLive, mouseCursors, views, viewSurface, pointers>>
      /\ pointer' = IF ungrabbed THEN Moved(p, Target(grabber)) ELSE p
      /\ entered' = IF ungrabbed THEN MovedEntered(p, entered, Target(grabber)) ELSE entered
  BY DEF Release, sceneVars
<1>2. /\ pointer \in PointerStates(mouseLive) /\ entered \in [Pointers -> SUBSET mouseLive]
      /\ Nowhere(pointer, entered) \/ OnSurface(pointer, entered)
  BY DEF MouseInv, MouseTypeOK, PointerStates
<1>3. /\ p \in PointerStates(mouseLive)
      /\ p.mouseFocus = pointer.mouseFocus /\ p.focusResource = pointer.focusResource
      /\ p.hasSentEnter = pointer.hasSentEnter /\ p.listening = pointer.listening
      /\ p.buttonCount = IF counts THEN pointer.buttonCount - 1 ELSE pointer.buttonCount
  BY <1>2 DEF PointerStates
<1> HIDE DEF p
<1>4. Nowhere(p, entered) \/ OnSurface(p, entered)
  BY <1>2, <1>3 DEF Nowhere, OnSurface
<1>5. /\ Nowhere(pointer', entered') \/ OnSurface(pointer', entered')
      /\ pointer'.buttonCount = p.buttonCount
  <2>1. CASE ungrabbed
    <3>1. grabber \in Views /\ viewSurface[grabber] # None
      BY <2>1 DEF MouseInv, MouseTypeOK, TouchMoves, Shows
    <3> QED
      BY <1>1, <1>2, <1>3, <1>4, <2>1, <3>1, MovedIsPlaced
  <2>2. CASE ~ungrabbed
    BY <1>1, <1>4, <2>2
  <2> QED
    BY <2>1, <2>2
<1>6. OnePointer' /\ ShownSurfaces' /\ Placed'
  BY <1>1, <1>5, SameScene
<1> QED
  BY <1>3, <1>5, <1>6

\* Steps that are not of the mouse.
LEMMA OtherMouseStep ==
  ASSUME MouseInv, UNCHANGED <<sceneVars, pointers, entered, pointer>>
  PROVE  OnePointer' /\ ShownSurfaces' /\ Placed'
<1>1. UNCHANGED <<mouseLive, mouseCursors, views, viewSurface, pointers, entered, pointer>>
  BY DEF sceneVars
<1>2. OnePointer' /\ ShownSurfaces' /\ \A c : PointerOf(c)' = PointerOf(c)
  BY <1>1 DEF MouseInv, OnePointer, ShownSurfaces, PointerOf
<1> QED
  BY <1>1, <1>2, MouseUntouched

\* Every step of orderly clients and an orderly shell keeps the invariant.
LEMMA MouseInvNext ==
  ASSUME Orderly
  PROVE  MouseInv /\ [MouseNext]_mouseVars => MouseInv'
<1> SUFFICES ASSUME MouseInv, [MouseNext]_mouseVars PROVE MouseInv'
  OBVIOUS
<1>1. MouseTypeOK' /\ PointerLists'
  BY MouseTypesNext DEF MouseInv
<1>2. OnePointer' /\ ShownSurfaces' /\ Placed'
  <2>1. CASE \E t \in Touches : BindTouch(t) \/ DestroyTouch(t)
    BY <2>1, OtherMouseStep DEF BindTouch, DestroyTouch
  <2>2. CASE UNCHANGED mouseVars \/ \E b \in Buttons : PressIgnored(b)
    BY <2>2, OtherMouseStep DEF mouseVars, PressIgnored
  <2> QED
    BY <2>1, <2>2, CreateMouseSurfaceStep, DestroyMouseSurfaceStep, BindPointerStep,
       DestroyPointerStep, ViewStep, MoveOrPressStep, TouchStep, LeaveStep, ReleaseStep
    DEF MouseNext, ClientNext, SceneNext
<1> QED
  BY <1>1, <1>2 DEF MouseInv, Placed

\* If clients and the shell are orderly, pointer events follow the mouse: each
\* comes between enter and leave on the surface under the mouse, leave comes
\* before the next enter, and the view and the surface that the seat holds
\* exist, however surfaces, views and wl_pointers come and go and whatever
\* buttons there are.
THEOREM MouseIsAlwaysPlaced ==
  ASSUME OrderlyClients, OrderlyShell PROVE MouseSpec => []MousePlaced
<1>1. MouseInv => MousePlaced
  <2> SUFFICES ASSUME MouseInv PROVE MousePlaced
    OBVIOUS
  <2>1. CASE Nowhere(pointer, entered)
    BY <2>1 DEF Nowhere, MousePlaced, EventsAfterEnter, LeftWithMouse, MouseFocusExists,
                ListensToMouse
  <2>2. CASE OnSurface(pointer, entered)
    BY <2>2, SurfaceUnderMouse
    DEF MouseTypeOK, PointerStates, MouseInv, OnSurface, MousePlaced, EventsAfterEnter, LeftWithMouse, MouseFocusExists,
        ListensToMouse
  <2> QED
    BY <2>1, <2>2 DEF MouseInv
<1>2. MouseInv /\ [MouseNext]_mouseVars => MouseInv'
  BY MouseInvNext DEF Orderly
<1> QED
  BY MouseInvInit, <1>1, <1>2, PTL DEF MouseSpec

-----------------------------------------------------------------------------
(* The mouse: one button *)

PressInv == MouseInv /\ PressIsGrabbed

\* The press that is counted goes with its surface.
LEMMA PressAfterDestroy ==
  ASSUME PressInv, NEW s \in Surfaces, DestroyMouseSurface(s)
  PROVE  PressIsGrabbed'
<1>1. /\ UNCHANGED <<held, grabber, dragging>>
      /\ s \notin pointer.listening => pointer' = pointer /\ taken' = taken
      /\ s \in pointer.listening => pointer'.buttonCount = 0 /\ taken' = 0
      /\ viewSurface' = [v \in Views |-> IF viewSurface[v] = s THEN None ELSE viewSurface[v]]
      /\ s # None
  BY DestroyMouseSurfaceStep, NoneIsNoSurface DEF DestroyMouseSurface, PressInv
<1>2. grabber \in Views \cup {None}
  BY DEF PressInv, MouseInv, MouseTypeOK
<1>3. CASE Counts
  <2>1. pointer.mouseFocus = grabber /\ pointer.buttonCount = taken + 1
    BY <1>3 DEF PressInv, PressIsGrabbed
  <2>2. pointer.listening = {viewSurface[grabber]}
    BY <1>3, <2>1 DEF PressInv, MouseInv, Nowhere, OnSurface, Counts
  <2>3. CASE viewSurface[grabber] = s
    <3>1. viewSurface'[grabber] = None /\ pointer'.buttonCount = 0 /\ taken' = 0
      BY <1>1, <1>2, <1>3, <2>2, <2>3 DEF Counts
    <3> QED
      BY <1>1, <3>1 DEF PressIsGrabbed, Counts
  <2>4. CASE viewSurface[grabber] # s
    <3>1. viewSurface'[grabber] = viewSurface[grabber] /\ pointer' = pointer /\ taken' = taken
      BY <1>1, <1>2, <1>3, <2>2, <2>4 DEF Counts
    <3> QED
      BY <1>1, <1>3, <2>1, <3>1 DEF PressIsGrabbed, Counts
  <2> QED
    BY <2>3, <2>4
<1>4. CASE ~Counts
  <2>1. pointer.buttonCount = taken /\ pointer'.buttonCount = taken'
    BY <1>1, <1>4 DEF PressInv, PressIsGrabbed
  <2>2. ~Counts'
    BY <1>1, <1>2, <1>4 DEF Counts
  <2> QED
    BY <2>1, <2>2 DEF PressIsGrabbed
<1> QED
  BY <1>3, <1>4

\* The item that grabs the mouse keeps its surface, or has none.
LEMMA PressAfterView ==
  ASSUME PressInv, Orderly, NEW v \in Views,
         DestroyView(v) \/ \E s \in Surfaces \cup {None} : SetSurface(v, s)
  PROVE  PressIsGrabbed'
<1>1. pointer' = pointer
  BY ViewStep DEF PressInv
<1>2. CASE DestroyView(v)
  <2>1. /\ viewSurface[v] = None /\ viewSurface' = [viewSurface EXCEPT ![v] = None]
        /\ grabber' = IF grabber = v THEN None ELSE grabber
        /\ held' = held /\ dragging' = dragging \ {v} /\ taken' = taken
    BY <1>2 DEF DestroyView, Orderly
  <2>2. viewSurface' = viewSurface
    BY <2>1 DEF PressInv, MouseInv, MouseTypeOK
  <2>3. Counts' <=> Counts
    BY <2>1, <2>2 DEF Counts
  <2>4. Counts => grabber' = grabber
    BY <2>1 DEF Counts
  <2> QED
    BY <1>1, <2>1, <2>3, <2>4 DEF PressInv, PressIsGrabbed
<1>3. CASE \E s \in Surfaces \cup {None} : SetSurface(v, s)
  <2>1. /\ v \notin views /\ UNCHANGED <<held, grabber, dragging, taken>>
        /\ \A u \in Views \ {v} : viewSurface'[u] = viewSurface[u]
    BY <1>3 DEF SetSurface, Orderly, PressInv, MouseInv, MouseTypeOK, dragItemVars
  <2>2. grabber # None => grabber \in Views \ {v}
    BY <2>1 DEF PressInv, MouseInv, MouseTypeOK
  <2>3. Counts' <=> Counts
    BY <2>1, <2>2 DEF Counts
  <2> QED
    BY <1>1, <2>1, <2>3 DEF PressInv, PressIsGrabbed
<1> QED
  BY <1>2, <1>3

\* The mouse moves only over the item that grabs it, leaves only when none
\* does, and is touched only while no button is down.
LEMMA PressAfterMove ==
  ASSUME PressInv, TouchAlone, NEW v \in Views,
         Move(v) \/ HoverLeave(v) \/ TouchBegin(v) \/ TouchUpdate(v)
  PROVE  PressIsGrabbed'
<1>1. UNCHANGED <<viewSurface, held, dragging, taken>>
  BY DEF Move, HoverLeave, TouchBegin, TouchUpdate, sceneVars, dragItemVars
<1>2. pointer'.buttonCount = pointer.buttonCount
  <2>1. CASE Move(v)
    <3>1. pointer'.buttonCount = pointer.buttonCount + 0
      BY <2>1, MoveStep DEF PressInv
    <3> QED
      BY <3>1 DEF PressInv, MouseInv, MouseTypeOK
  <2>2. CASE HoverLeave(v)
    BY <2>2, LeaveStep DEF PressInv
  <2>3. CASE TouchBegin(v) \/ TouchUpdate(v)
    BY <2>3, TouchStep DEF PressInv
  <2> QED
    BY <2>1, <2>2, <2>3
<1>3. CASE Move(v)
  <2>1. grabber \in {None, v} /\ grabber' = grabber /\ pointer'.mouseFocus = v
    BY <1>3, MoveStep DEF Move, Sends, PressInv
  <2>2. Counts' <=> Counts
    BY <1>1, <2>1 DEF Counts
  <2>3. Counts => pointer'.mouseFocus = grabber'
    BY <2>1 DEF Counts
  <2> QED
    BY <1>1, <1>2, <2>2, <2>3 DEF PressInv, PressIsGrabbed
<1>4. CASE HoverLeave(v) \/ TouchBegin(v) \/ TouchUpdate(v)
  <2>1. ~Counts /\ ~Counts'
    BY <1>1, <1>4 DEF HoverLeave, TouchBegin, TouchUpdate, Counts
  <2> QED
    BY <1>1, <1>2, <2>1 DEF PressInv, PressIsGrabbed
<1> QED
  BY <1>3, <1>4

\* The one button goes down.
LEMMA PressAfterPress ==
  ASSUME PressInv, NEW b, Buttons = {b}, NEW v \in Views, Press(v, b)
  PROVE  PressIsGrabbed'
<1>1. /\ b \notin held /\ held' = held \cup {b} /\ grabber' = v
      /\ viewSurface' = viewSurface /\ viewSurface[v] # None
      /\ dragging' = dragging
      /\ taken' = IF v \in dragging /\ held = {} THEN taken + 1 ELSE taken
  BY DEF Press, Sends, Shows, sceneVars
<1>2. held = {} /\ held' # {} /\ v # None
  BY <1>1, NoneIsNoDevice DEF PressInv, MouseInv, MouseTypeOK
<1>3. pointer'.mouseFocus = v /\ pointer'.buttonCount = pointer.buttonCount + 1
  BY MoveStep DEF PressInv
<1>4. pointer.buttonCount = taken
  BY <1>2 DEF PressInv, PressIsGrabbed, Counts
<1>5. Counts' <=> v \notin dragging
  BY <1>1, <1>2 DEF Counts
<1> QED
  BY <1>1, <1>2, <1>3, <1>4, <1>5 DEF PressIsGrabbed

\* The one button goes up.
LEMMA PressAfterRelease ==
  ASSUME PressInv, NEW b, Buttons = {b}, Release(b)
  PROVE  PressIsGrabbed'
<1>1. b \in held /\ held' = held \ {b} /\ taken' = taken
  BY DEF Release
<1>2. held # {} /\ held' = {}
  BY <1>1 DEF PressInv, MouseInv, MouseTypeOK
<1>3. pointer'.buttonCount = IF Counts THEN pointer.buttonCount - 1 ELSE pointer.buttonCount
  BY <1>2, ReleaseStep DEF PressInv, Counts
<1>4. pointer'.buttonCount = taken
  BY <1>3 DEF PressInv, PressIsGrabbed, MouseInv, MouseTypeOK
<1> QED
  BY <1>1, <1>2, <1>4 DEF PressIsGrabbed, Counts

\* A drag starts from the surface of the item that grabs the mouse, and takes
\* the press.
LEMMA PressAfterDrag ==
  ASSUME PressInv, Orderly, NEW s \in Surfaces, DragStarted(s)
  PROVE  PressIsGrabbed'
<1>1. /\ UNCHANGED <<viewSurface, held, grabber>>
      /\ grabber \in views /\ viewSurface[grabber] = s /\ held # {}
      /\ grabber \in dragging'
      /\ taken' = IF grabber \notin dragging THEN taken + 1 ELSE taken
  BY DEF DragStarted, Orderly, sceneVars
<1>2. pointer'.buttonCount = pointer.buttonCount
  BY LeaveStep DEF PressInv
<1>3. grabber # None /\ s # None
  BY <1>1, NoneIsNoDevice, NoneIsNoSurface DEF PressInv, MouseInv, MouseTypeOK
<1>4. Counts <=> grabber \notin dragging
  BY <1>1, <1>3 DEF Counts
<1>5. ~Counts'
  BY <1>1 DEF Counts
<1> QED
  BY <1>1, <1>2, <1>4, <1>5 DEF PressInv, PressIsGrabbed

\* Everything else leaves what is pressed as it is.
LEMMA PressUntouched ==
  ASSUME PressInv,
         \/ \E s \in Surfaces : CreateMouseSurface(s) \/ SetMouseCursor(s)
         \/ \E r \in Pointers : BindPointer(r) \/ DestroyPointer(r)
         \/ \E t \in Touches : BindTouch(t) \/ DestroyTouch(t)
         \/ UNCHANGED mouseVars
  PROVE  PressIsGrabbed'
<1>1. UNCHANGED <<viewSurface, held, grabber, dragging, taken>>
  BY DEF CreateMouseSurface, SetMouseCursor, BindPointer, DestroyPointer, BindTouch,
         DestroyTouch, mouseVars, sceneVars, dragItemVars
<1>2. pointer' = pointer \/ pointer' = [pointer EXCEPT !.focusResource = None]
  BY DEF CreateMouseSurface, SetMouseCursor, BindPointer, DestroyPointer, BindTouch,
         DestroyTouch, mouseVars
<1>3. pointer'.mouseFocus = pointer.mouseFocus /\ pointer'.buttonCount = pointer.buttonCount
  BY <1>2 DEF PressInv, MouseInv, MouseTypeOK
<1> QED
  BY <1>1, <1>3 DEF PressInv, PressIsGrabbed, Counts

\* A press that is ignored is not counted.
LEMMA PressAfterIgnored ==
  ASSUME PressInv, NEW b, PressIgnored(b)
  PROVE  PressIsGrabbed'
<1>1. UNCHANGED <<pointer, viewSurface, grabber, dragging, taken>>
      /\ viewSurface[grabber] = None
  BY DEF PressIgnored, sceneVars, dragItemVars
<1>2. ~Counts /\ ~Counts'
  BY <1>1 DEF Counts
<1> QED
  BY <1>1, <1>2 DEF PressInv, PressIsGrabbed

\* Every step keeps that the press counted is of the item that grabs the mouse.
LEMMA PressInvNext ==
  ASSUME Orderly, TouchAlone, NEW b, Buttons = {b}
  PROVE  PressInv /\ [MouseNext]_mouseVars => PressInv'
<1> SUFFICES ASSUME PressInv, [MouseNext]_mouseVars PROVE PressInv'
  OBVIOUS
<1>1. MouseInv'
  BY MouseInvNext DEF PressInv
<1>2. PressIsGrabbed'
  BY PressAfterDestroy, PressAfterView, PressAfterMove, PressAfterPress, PressAfterRelease,
     PressAfterDrag, PressAfterIgnored, PressUntouched
  DEF MouseNext, ClientNext, SceneNext
<1> QED
  BY <1>1, <1>2 DEF PressInv

\* With a mouse of one button, orderly clients and shell, and nobody touching
\* the screen while the button is down, events follow the mouse and every press
\* is counted down again, unless a drag took it: also when the surface, or the
\* view, goes while the button is down.
THEOREM EventsAlwaysFollowMouse ==
  ASSUME OrderlyClients, OrderlyShell, TouchAlone, NEW b, Buttons = {b}
  PROVE  MouseSpec => []EventsFollowMouse
<1>1. MouseInit => PressInv
  BY MouseInvInit DEF MouseInit, PressInv, PressIsGrabbed, Counts
<1>2. PressInv /\ [MouseNext]_mouseVars => PressInv'
  BY PressInvNext DEF Orderly
<1>3. PressInv => NoPhantomButtons
  BY DEF PressInv, PressIsGrabbed, Counts, NoPhantomButtons
<1>4. MouseSpec => []NoPhantomButtons
  BY <1>1, <1>2, <1>3, PTL DEF MouseSpec
<1>5. MouseSpec => []MousePlaced
  BY MouseIsAlwaysPlaced
<1> QED
  BY <1>4, <1>5, PTL DEF EventsFollowMouse

-----------------------------------------------------------------------------
(* The selection *)

\* Who listens to the focus has a data device, and what is being read exists.
ListenersExist ==
  /\ copyListening => copyFocus \in devices
  /\ reading => currentSource \in alive

SelectionInv == SelectionTypeOK /\ ListenersExist /\ SelectionTold

\* A source that is created is the last one.
LEMMA CreatedGrows ==
  ASSUME created \in Seq(Sources), NEW s \in Sources, created' = Append(created, s)
  PROVE  created' \in Seq(Sources) /\ Created' = Created \cup {s}
BY DEF Created, ToSet

\* The same sources.
LEMMA SameCreated == UNCHANGED created => Created' = Created
BY DEF Created

\* At the start there is no selection.
LEMMA SelectionInvInit == SelectionInit => SelectionInv /\ RetainedFromOne
<1> SUFFICES ASSUME SelectionInit PROVE SelectionInv /\ RetainedFromOne
  OBVIOUS
<1>1. Created = {}
  BY DEF SelectionInit, Created, ToSet
<1>2. created \in Seq(Sources) /\ retainedData \in Seq(Created \cup {Compositor})
  BY DEF SelectionInit
<1>3. SelectionTypeOK
  BY <1>1, <1>2 DEF SelectionInit, SelectionTypeOK
<1>4. ListenersExist /\ SelectionTold
  BY DEF SelectionInit, ListenersExist, SelectionTold
<1>5. RetainedFromOne
  BY DEF SelectionInit, RetainedFromOne
<1> QED
  BY <1>3, <1>4, <1>5 DEF SelectionInv

\* Clients create and destroy sources.
LEMMA SourceStep ==
  ASSUME SelectionInv, NEW s \in Sources, CreateSource(s) \/ DestroySource(s)
  PROVE  SelectionInv'
<1>1. CASE CreateSource(s)
  <2>1. created' \in Seq(Sources) /\ Created' = Created \cup {s}
    BY <1>1, CreatedGrows DEF CreateSource, SelectionInv, SelectionTypeOK
  <2>2. /\ alive' = alive \cup {s}
        /\ UNCHANGED <<clientVars, selectionSource, currentSource, replaced, cancelled, offered,
                       retainedVars>>
    BY <1>1 DEF CreateSource
  <2>3. retainedData \in Seq(Created' \cup {Compositor})
    <3>1. retainedData \in [1..Len(retainedData) -> Created' \cup {Compositor}]
          /\ Len(retainedData) \in Nat
      BY <2>1 DEF SelectionInv, SelectionTypeOK
    <3> QED
      BY <3>1
  <2>4. SelectionTypeOK'
    BY <2>1, <2>2, <2>3 DEF SelectionInv, SelectionTypeOK, clientVars, retainedVars
  <2> QED
    BY <2>2, <2>4 DEF SelectionInv, ListenersExist, SelectionTold, clientVars, retainedVars
<1>2. CASE DestroySource(s)
  <2>1. /\ alive' = alive \ {s}
        /\ selectionSource' = IF selectionSource = s THEN None ELSE selectionSource
        /\ reading' = (reading /\ currentSource # s)
        /\ UNCHANGED <<created, clientVars, currentSource, replaced, cancelled, offered,
                       retainedData, compositorOwnsSelection>>
        /\ Created' = Created
    BY <1>2, SameCreated DEF DestroySource
  <2>2. SelectionTypeOK'
    BY <2>1 DEF SelectionInv, SelectionTypeOK, clientVars
  <2> QED
    BY <2>1, <2>2 DEF SelectionInv, ListenersExist, SelectionTold, clientVars
<1> QED
  BY <1>1, <1>2

\* Clients get data devices, and the keyboard focus comes and goes.
LEMMA CopyFocusStep ==
  ASSUME SelectionInv,
         LoseFocus \/ \E c \in Clients : GetDataDevice(c) \/ SetFocus(c)
  PROVE  SelectionInv'
<1>1. /\ UNCHANGED <<sourceVars, selectionSource, currentSource, replaced, cancelled,
                     retainedVars>>
      /\ Created' = Created
  BY SameCreated DEF GetDataDevice, SetFocus, LoseFocus, sourceVars
<1>2. CASE \E c \in Clients : GetDataDevice(c)
  BY <1>1, <1>2
  DEF GetDataDevice, SelectionInv, SelectionTypeOK, ListenersExist, SelectionTold,
      sourceVars, retainedVars
<1>3. CASE \E c \in Clients : SetFocus(c)
  <2>1. PICK c \in Clients : SetFocus(c)
    BY <1>3
  <2>2. /\ UNCHANGED devices /\ copyFocus' = c /\ copyListening' = (c \in devices)
        /\ offered' = IF c \in devices /\ selectionSource # None
                      THEN [offered EXCEPT ![c] = selectionSource] ELSE offered
    BY <2>1 DEF SetFocus
  <2>3. SelectionTypeOK'
    BY <1>1, <2>2 DEF SelectionInv, SelectionTypeOK, sourceVars, retainedVars
  <2>4. c \in devices /\ selectionSource # None => offered'[c] = selectionSource
    BY <2>2 DEF SelectionInv, SelectionTypeOK
  <2> QED
    BY <1>1, <2>2, <2>3, <2>4
    DEF SelectionInv, ListenersExist, SelectionTold, sourceVars, retainedVars
<1>4. CASE LoseFocus
  <2>1. copyFocus' = None /\ copyListening' = FALSE /\ UNCHANGED <<devices, offered>>
    BY <1>4 DEF LoseFocus
  <2>2. SelectionTypeOK'
    BY <1>1, <2>1 DEF SelectionInv, SelectionTypeOK, sourceVars, retainedVars
  <2> QED
    BY <1>1, <2>1, <2>2
    DEF SelectionInv, ListenersExist, SelectionTold, sourceVars, retainedVars
<1> QED
  BY <1>2, <1>3, <1>4

\* A client sets the selection, and the focused client is told at once.
LEMMA SetSelectionStep ==
  ASSUME SelectionInv, NEW c \in Clients, NEW s \in Sources \cup {None}, SetSelection(c, s)
  PROVE  /\ SelectionInv'
         /\ RetainedFromOne => RetainedFromOne'
<1>1. /\ s # None => s \in alive
      /\ cancelled' = cancelled \cup ({selectionSource} \ {None})
      /\ replaced' = (replaced \cup ({selectionSource} \ {None})) \ {s}
      /\ selectionSource' = s
      /\ offered' = IF copyFocus \in devices \cap KeyboardClients
                    THEN [offered EXCEPT ![copyFocus] = s] ELSE offered
      /\ UNCHANGED <<created, alive, devices, copyFocus, copyListening>>
      /\ Created' = Created
  BY SameCreated DEF SetSelection, sourceVars, clientVars
<1>2. \/ /\ currentSource' = s /\ compositorOwnsSelection' = FALSE
         /\ reading' = (s # None /\ Retains)
         /\ retainedData' = IF s # None /\ Retains THEN <<>> ELSE retainedData
      \/ UNCHANGED <<currentSource, reading, retainedData, compositorOwnsSelection>>
  BY DEF SetSelection, SetCurrentSelectionSource, ManagerTakes, retainedVars
<1>3. /\ reading' \in BOOLEAN /\ (reading' => currentSource' \in alive)
      /\ currentSource' \in Created \cup {None} /\ compositorOwnsSelection' \in BOOLEAN
      /\ retainedData' \in Seq(Created \cup {Compositor})
  <2>1. /\ retainedData \in Seq(Created \cup {Compositor})
        /\ reading \in BOOLEAN /\ (reading => currentSource \in alive)
        /\ currentSource \in Created \cup {None} /\ compositorOwnsSelection \in BOOLEAN
        /\ s # None => s \in Created
    BY <1>1 DEF SelectionInv, SelectionTypeOK, ListenersExist
  <2>2. CASE UNCHANGED <<currentSource, reading, retainedData, compositorOwnsSelection>>
    BY <2>1, <2>2
  <2>3. CASE /\ currentSource' = s /\ compositorOwnsSelection' = FALSE
             /\ reading' = (s # None /\ Retains)
             /\ retainedData' = IF s # None /\ Retains THEN <<>> ELSE retainedData
    <3>1. reading' \in BOOLEAN /\ (reading' => s # None)
      BY <2>3, SwitchesAssumption
    <3>2. retainedData' \in Seq(Created \cup {Compositor})
      BY <2>1, <2>3
    <3> QED
      BY <1>1, <2>1, <2>3, <3>1, <3>2
  <2> QED
    BY <1>2, <2>2, <2>3
<1>4. offered' \in [Clients -> Created \cup {None, Compositor}]
  BY <1>1 DEF SelectionInv, SelectionTypeOK
<1>5. SelectionTypeOK'
  BY <1>1, <1>3, <1>4 DEF SelectionInv, SelectionTypeOK
<1>6. SelectionTold'
  <2>1. replaced' \subseteq cancelled'
    BY <1>1 DEF SelectionInv, SelectionTold
  <2>2. copyListening /\ copyFocus \in KeyboardClients => offered'[copyFocus] = s
    BY <1>1 DEF SelectionInv, SelectionTypeOK, ListenersExist
  <2> QED
    BY <1>1, <2>1, <2>2 DEF SelectionTold
<1>7. ASSUME RetainedFromOne PROVE RetainedFromOne'
  <2>1. CASE UNCHANGED <<currentSource, reading, retainedData, compositorOwnsSelection>>
    BY <1>1, <1>7, <2>1 DEF RetainedFromOne
  <2>2. CASE /\ currentSource' = s /\ reading' = (s # None /\ Retains)
             /\ retainedData' = IF s # None /\ Retains THEN <<>> ELSE retainedData
    <3>1. CASE s # None /\ Retains
      BY <1>1, <2>2, <3>1 DEF RetainedFromOne, ToSet
    <3>2. CASE ~(s # None /\ Retains)
      BY <1>7, <2>2, <3>2 DEF RetainedFromOne
    <3> QED
      BY <3>1, <3>2
  <2> QED
    BY <1>2, <2>1, <2>2
<1> QED
  BY <1>1, <1>3, <1>5, <1>6, <1>7 DEF SelectionInv, ListenersExist

\* The compositor reads the data of a type, and offers what it has.
LEMMA RetainStep ==
  ASSUME SelectionInv,
         ReadFromClient \/ OverrideSelection \/ \E c \in Clients : UpdateSelection(c)
  PROVE  SelectionInv'
<1>1. /\ UNCHANGED <<sourceVars, clientVars, selectionSource, currentSource, replaced, cancelled>>
      /\ Created' = Created
  BY SameCreated DEF ReadFromClient, OverrideSelection, UpdateSelection, sourceVars
<1>2. CASE ReadFromClient
  <2>1. /\ retainedData' = Append(retainedData, currentSource) /\ reading
        /\ UNCHANGED <<offered, compositorOwnsSelection>> /\ reading' \in BOOLEAN
    BY <1>2 DEF ReadFromClient
  <2>2. retainedData' \in Seq(Created \cup {Compositor})
    BY <2>1 DEF SelectionInv, SelectionTypeOK, ListenersExist
  <2>3. SelectionTypeOK'
    BY <1>1, <2>1, <2>2 DEF SelectionInv, SelectionTypeOK, sourceVars, clientVars
  <2> QED
    BY <1>1, <2>1, <2>3
    DEF SelectionInv, ListenersExist, SelectionTold, sourceVars, clientVars
<1>3. CASE OverrideSelection
  <2>1. /\ retainedData' = <<Compositor>> /\ compositorOwnsSelection' = TRUE /\ UNCHANGED reading
        /\ copyFocus \in devices \cup {None}
        /\ offered' = IF copyFocus = None THEN offered
                      ELSE [offered EXCEPT ![copyFocus] = Compositor]
    BY <1>3 DEF OverrideSelection
  <2>2. retainedData' \in Seq(Created \cup {Compositor})
    BY <2>1
  <2>3. SelectionTypeOK'
    BY <1>1, <2>1, <2>2 DEF SelectionInv, SelectionTypeOK, sourceVars, clientVars
  <2>4. copyListening => copyFocus \in Clients /\ copyFocus # None
    BY NoneIsNoClient DEF SelectionInv, SelectionTypeOK, ListenersExist
  <2>5. copyListening => offered'[copyFocus] = Compositor
    BY <2>1, <2>4 DEF SelectionInv, SelectionTypeOK
  <2> QED
    BY <1>1, <2>1, <2>3, <2>5
    DEF SelectionInv, ListenersExist, SelectionTold, sourceVars, clientVars
<1>4. CASE \E c \in Clients : UpdateSelection(c)
  <2>1. PICK c \in Clients : UpdateSelection(c)
    BY <1>4
  <2>2. /\ compositorOwnsSelection' = TRUE /\ UNCHANGED <<reading, retainedData>>
        /\ offered' = [offered EXCEPT ![c] = Compositor]
    BY <2>1 DEF UpdateSelection
  <2>3. SelectionTypeOK'
    BY <1>1, <2>2 DEF SelectionInv, SelectionTypeOK, sourceVars, clientVars
  <2>4. copyListening => offered'[copyFocus] \in {Compositor, offered[copyFocus]}
    BY <2>2 DEF SelectionInv, SelectionTypeOK, ListenersExist
  <2> QED
    BY <1>1, <2>2, <2>3, <2>4
    DEF SelectionInv, ListenersExist, SelectionTold, sourceVars, clientVars
<1> QED
  BY <1>2, <1>3, <1>4

\* Nothing happens.
LEMMA SelectionStutters ==
  ASSUME SelectionInv, UNCHANGED selectionVars
  PROVE  SelectionInv'
<1>1. Created' = Created
  BY SameCreated DEF selectionVars, sourceVars
<1> QED
  BY <1>1
  DEF SelectionInv, SelectionTypeOK, ListenersExist, SelectionTold, selectionVars, sourceVars,
      clientVars, retainedVars

\* Every step keeps the invariant.
LEMMA SelectionInvNext == SelectionInv /\ [SelectionNext]_selectionVars => SelectionInv'
BY SourceStep, CopyFocusStep, SetSelectionStep, RetainStep, SelectionStutters DEF SelectionNext

\* While the compositor does not override the selection, what is retained is
\* read from the current source: a new one empties it first.
LEMMA RetainedNext ==
  ASSUME ~Overrides
  PROVE  SelectionInv /\ RetainedFromOne /\ [SelectionNext]_selectionVars => RetainedFromOne'
<1> SUFFICES ASSUME SelectionInv, RetainedFromOne, [SelectionNext]_selectionVars
             PROVE  RetainedFromOne'
  OBVIOUS
<1>1. CASE \E c \in Clients, s \in Sources \cup {None} : SetSelection(c, s)
  BY <1>1, SetSelectionStep
<1>2. CASE ReadFromClient
  <2>1. /\ reading /\ retainedData' = Append(retainedData, currentSource)
        /\ UNCHANGED <<alive, currentSource>>
    BY <1>2 DEF ReadFromClient, sourceVars
  <2>2. /\ retainedData \in Seq(Created \cup {Compositor})
        /\ currentSource \in alive
        /\ \A i \in DOMAIN retainedData : retainedData[i] = currentSource
    BY <2>1 DEF SelectionInv, SelectionTypeOK, ListenersExist, RetainedFromOne, ToSet
  <2>3. \A i \in DOMAIN retainedData' : retainedData'[i] = currentSource
    BY <2>1, <2>2 DEF SelectionInv, SelectionTypeOK
  <2>4. 1 \in DOMAIN retainedData'
    BY <2>1, <2>2
  <2> QED
    BY <2>1, <2>2, <2>3, <2>4 DEF RetainedFromOne, ToSet
<1>3. CASE \E s \in Sources : DestroySource(s)
  BY <1>3 DEF DestroySource, RetainedFromOne
<1>4. CASE \E s \in Sources : CreateSource(s)
  BY <1>4 DEF CreateSource, RetainedFromOne, retainedVars
<1>5. CASE \/ LoseFocus
           \/ \E c \in Clients : GetDataDevice(c) \/ SetFocus(c) \/ UpdateSelection(c)
           \/ UNCHANGED selectionVars
  BY <1>5
  DEF LoseFocus, GetDataDevice, SetFocus, UpdateSelection, selectionVars, sourceVars,
      retainedVars, RetainedFromOne
<1> QED
  BY <1>1, <1>2, <1>3, <1>4, <1>5 DEF SelectionNext, OverrideSelection

\* The sources the device and the manager refer to were created, the selection
\* of the device exists, and what is read is of a source that exists.
THEOREM SelectionTypeCorrect == SelectionSpec => []SelectionTypeOK
<1>1. SelectionInv => SelectionTypeOK
  BY DEF SelectionInv
<1> QED
  BY SelectionInvInit, SelectionInvNext, <1>1, PTL DEF SelectionSpec

\* Whoever sets the selection when, and whether the compositor overrides it:
\* the focused client, if it can be told, knows it, and the owner of an earlier
\* one knows that it was replaced.
THEOREM SelectionAlwaysTold == SelectionSpec => []SelectionTold
<1>1. SelectionInv => SelectionTold
  BY DEF SelectionInv
<1> QED
  BY SelectionInvInit, SelectionInvNext, <1>1, PTL DEF SelectionSpec

\* And as long as the compositor does not override the selection, the data it
\* retains is that of one selection, although it comes type by type.
THEOREM SelectionAlwaysKnown ==
  ASSUME ~Overrides PROVE SelectionSpec => []SelectionIsKnown
<1>1. SelectionInv /\ RetainedFromOne /\ [SelectionNext]_selectionVars
        => SelectionInv' /\ RetainedFromOne'
  BY SelectionInvNext, RetainedNext
<1>2. SelectionSpec => []RetainedFromOne
  BY SelectionInvInit, <1>1, PTL DEF SelectionSpec
<1> QED
  BY SelectionAlwaysTold, <1>2, PTL DEF SelectionIsKnown

-----------------------------------------------------------------------------
(* Drag and drop *)

\* Between drags nobody is entered and no item takes the mouse for one.
DragRests ==
  /\ \A v \in DragViews : ~isDragging[v]
  /\ dragFocus = None /\ dragFocusResource = None
  /\ \A c \in Clients : ~over[c]
  /\ dragDataSource \in resolved \cup {None}

\* Who the drag is over, and nobody else, was sent enter.
OnlyFocusIsOver == \A c \in Clients : over[c] <=> c = dragFocusResource

\* During one the mouse is with the item it began in, its source exists and was
\* neither dropped nor cancelled, and the client of its focus was told of it.
DragRuns ==
  /\ pressed # None /\ shown[pressed] = dragOrigin
  /\ \A v \in DragViews : isDragging[v] <=> v = pressed
  /\ dragDataSource \in sources /\ dragDataSource \notin resolved
  /\ \A s \in surfaces : OwnerOf[s] \in dragDevices
  /\ dragFocus = None => dragFocusResource = None
  /\ dragFocus # None => dragFocusResource = OwnerOf[dragFocus]
  /\ dragFocusResource \in dragDevices \cup {None}
  /\ OnlyFocusIsOver
  /\ dragFocusResource # None => offer[dragFocusResource] = dragDataSource

\* No source is dragged twice, and no surface is shown twice.
DraggedOnce == resolved \cup {dragDataSource} \subseteq used \cup {None}
ShownOnce ==
  \A v, w \in DragViews : shown[v] = shown[w] => v = w \/ shown[v] = None

DragInv ==
  /\ DragTypeOK /\ ~misused /\ DraggedOnce /\ ShownOnce
  /\ dragOrigin = None => DragRests
  /\ dragOrigin # None => DragRuns

\* What setDragFocus() leaves has the types of before.
LEMMA DragFocusTypes ==
  ASSUME DragTypeOK, NEW s \in surfaces \cup {None}, SetDragFocus(s)
  PROVE  /\ dragFocus' \in DragSurfaces \cup {None}
         /\ dragFocusResource' \in Clients \cup {None}
         /\ over' \in [Clients -> BOOLEAN]
         /\ offer' \in [Clients -> DragSources \cup {None}]
<1>1. LeaveFocus \in [Clients -> BOOLEAN]
  BY DEF LeaveFocus, DragTypeOK
<1>2. s # None => s \in DragSurfaces /\ OwnerOf[s] \in Clients
  BY SurfaceOwners, DragSurfacesExist DEF DragTypeOK
<1> QED
  BY <1>1, <1>2 DEF SetDragFocus, DragFocusIs, DragTypeOK

\* Once the focus is left nobody is between enter and leave.
LEMMA NobodyEntered ==
  ASSUME over \in [Clients -> BOOLEAN], dragFocusResource \in Clients \cup {None},
         OnlyFocusIsOver
  PROVE  LeaveFocus \in [Clients -> BOOLEAN] /\ \A c \in Clients : ~LeaveFocus[c]
<1>1. CASE dragFocusResource = None
  <2>1. LeaveFocus = over /\ \A c \in Clients : ~over[c]
    BY <1>1, NoneIsNoClient DEF LeaveFocus, OnlyFocusIsOver
  <2> QED
    BY <2>1
<1>2. CASE dragFocusResource # None
  <2>1. LeaveFocus = [over EXCEPT ![dragFocusResource] = FALSE]
    BY <1>2 DEF LeaveFocus
  <2>2. ASSUME NEW c \in Clients
        PROVE  ~LeaveFocus[c]
    <3>1. c = dragFocusResource => LeaveFocus[c] = FALSE
      BY <2>1
    <3>2. c # dragFocusResource => LeaveFocus[c] = over[c] /\ ~over[c]
      BY <2>1 DEF OnlyFocusIsOver
    <3> QED
      BY <3>1, <3>2
  <2> QED
    BY <2>1, <2>2
<1> QED
  BY <1>1, <1>2

LEMMA DragTypesInit == DragInit => DragTypeOK
BY DEF DragInit, DragTypeOK

\* Every step keeps the types.
LEMMA DragTypesNext == DragTypeOK /\ [DragNext]_dragVars => DragTypeOK'
<1> SUFFICES ASSUME DragTypeOK, [DragNext]_dragVars
             PROVE  DragTypeOK'
  OBVIOUS
<1> USE DEF dragVars, dragClientVars, dragSceneVars, dragDataVars, dragFocusVars
<1>1. ASSUME NEW c \in Clients, GetDragDevice(c)
      PROVE  DragTypeOK'
  BY <1>1 DEF GetDragDevice, DragTypeOK
<1>2. ASSUME NEW c \in Clients, Disconnect(c)
      PROVE  DragTypeOK'
  BY <1>2 DEF Disconnect, DragTypeOK
<1>3. ASSUME NEW s \in DragSources, CreateDragSource(s) \/ DestroyDragSource(s)
      PROVE  DragTypeOK'
  BY <1>3 DEF CreateDragSource, DestroyDragSource, DragTypeOK
<1>4. ASSUME NEW c \in Clients, NEW s \in DragSources \cup {None},
             NEW o \in DragSurfaces, StartDrag(c, s, o)
      PROVE  DragTypeOK'
  BY <1>4 DEF StartDrag, DragTypeOK
<1>5. ASSUME NEW v \in DragViews, NEW s \in DragSurfaces \cup {None},
             SetDragSurface(v, s)
      PROVE  DragTypeOK'
  BY <1>5 DEF SetDragSurface, DragTypeOK
<1>6. ASSUME NEW v \in DragViews, PressItem(v)
      PROVE  DragTypeOK'
  BY <1>6 DEF PressItem, DragTypeOK
<1>7. ASSUME NEW v \in DragViews, MoveOver(v)
      PROVE  DragTypeOK'
  <2>1. /\ shown[v] \in surfaces
        /\ UNCHANGED <<dragClientVars, dragSceneVars, dragDataVars, resolved>>
    BY <1>7 DEF MoveOver, DragTypeOK
  <2>2. CASE shown[v] = dragFocus
    BY <1>7, <2>1, <2>2 DEF MoveOver, DragMove, DragTypeOK
  <2>3. CASE shown[v] # dragFocus
    <3>1. SetDragFocus(shown[v]) /\ misused' \in BOOLEAN
      BY <1>7, <2>3 DEF MoveOver, DragMove, Stale, StaleResource
    <3> QED
      BY <2>1, <3>1, DragFocusTypes DEF DragTypeOK
  <2> QED
    BY <2>2, <2>3
<1>8. ASSUME MouseRelease
      PROVE  DragTypeOK'
  <2>1. UNCHANGED dragClientVars /\ UNCHANGED shown /\ pressed' = None /\ pressed \in DragViews
    BY <1>8 DEF MouseRelease, DragTypeOK
  <2>2. CASE shown[pressed] # None /\ isDragging[pressed]
    <3>1. /\ SetDragFocus(None) /\ UNCHANGED <<dragClient, dragDataSource>>
          /\ resolved' = resolved \cup {dragDataSource} /\ dragOrigin' = None
          /\ misused' \in BOOLEAN
          /\ isDragging' = [isDragging EXCEPT ![pressed] = FALSE]
      BY <1>8, <2>2 DEF MouseRelease, Drop, Stale, StaleResource
    <3> QED
      BY <2>1, <3>1, DragFocusTypes DEF DragTypeOK
  <2>3. CASE ~(shown[pressed] # None /\ isDragging[pressed])
    BY <1>8, <2>1, <2>3 DEF MouseRelease, DragTypeOK
  <2> QED
    BY <2>2, <2>3
<1>9. CASE UNCHANGED dragVars
  BY <1>9 DEF DragTypeOK
<1> QED
  BY <1>1, <1>2, <1>3, <1>4, <1>5, <1>6, <1>7, <1>8, <1>9 DEF DragNext, DragClientNext

\* Nothing is dragged between an item and a surface that do not exist, and a
\* drag refers to sources and clients there have been.
THEOREM DragTypeCorrect == DragSpec => []DragTypeOK
BY DragTypesInit, DragTypesNext, PTL DEF DragSpec

LEMMA DragInvInit == DragInit => DragInv
BY DragTypesInit
DEF DragInit, DragInv, DraggedOnce, ShownOnce, DragRests

\* Clients bind data devices, make sources and let go of those that were dragged.
LEMMA DragClientStep ==
  ASSUME Orderly, DragInv,
         \/ \E c \in Clients : GetDragDevice(c) \/ Disconnect(c)
         \/ \E s \in DragSources : CreateDragSource(s) \/ DestroyDragSource(s)
  PROVE  /\ ~misused' /\ DraggedOnce' /\ ShownOnce'
         /\ dragOrigin' = None => DragRests'
         /\ dragOrigin' # None => DragRuns'
<1> USE DEF dragVars, dragClientVars, dragSceneVars, dragDataVars, dragFocusVars
<1>1. ASSUME NEW c \in Clients, GetDragDevice(c)
      PROVE  /\ ~misused' /\ DraggedOnce' /\ ShownOnce'
             /\ dragOrigin' = None => DragRests'
             /\ dragOrigin' # None => DragRuns'
  BY <1>1 DEF GetDragDevice, DragInv, DraggedOnce, ShownOnce, DragRests, DragRuns, OnlyFocusIsOver
<1>2. ASSUME NEW s \in DragSources, CreateDragSource(s)
      PROVE  /\ ~misused' /\ DraggedOnce' /\ ShownOnce'
             /\ dragOrigin' = None => DragRests'
             /\ dragOrigin' # None => DragRuns'
  BY <1>2 DEF CreateDragSource, DragInv, DraggedOnce, ShownOnce, DragRests, DragRuns, OnlyFocusIsOver
<1>3. ASSUME NEW s \in DragSources, DestroyDragSource(s)
      PROVE  /\ ~misused' /\ DraggedOnce' /\ ShownOnce'
             /\ dragOrigin' = None => DragRests'
             /\ dragOrigin' # None => DragRuns'
  BY <1>3
  DEF Orderly, DestroyDragSource, DragInv, DraggedOnce, ShownOnce, DragRests, DragRuns, OnlyFocusIsOver
<1>4. ASSUME NEW c \in Clients, Disconnect(c)
      PROVE  /\ ~misused' /\ DraggedOnce' /\ ShownOnce'
             /\ dragOrigin' = None => DragRests'
             /\ dragOrigin' # None => DragRuns'
  <2>1. /\ dragOrigin = None /\ UNCHANGED <<used, isDragging, dragDataVars, resolved, misused>>
        /\ UNCHANGED <<dragFocus, dragFocusResource>>
        /\ over' = [over EXCEPT ![c] = FALSE]
        /\ \A v \in DragViews : shown'[v] \in {shown[v], None}
    BY <1>4 DEF Disconnect, Orderly
  <2>2. ShownOnce'
    BY <2>1 DEF DragInv, ShownOnce
  <2> QED
    BY <2>1, <2>2 DEF DragInv, DragTypeOK, DraggedOnce, DragRests
<1> QED
  BY <1>1, <1>2, <1>3, <1>4

\* A drag begins in the item with the mouse, which is the origin's only one.
LEMMA StartDragStep ==
  ASSUME Orderly, DragInv, NEW c \in Clients, NEW s \in DragSources \cup {None},
         NEW o \in DragSurfaces, StartDrag(c, s, o)
  PROVE  /\ ~misused' /\ DraggedOnce' /\ ShownOnce'
         /\ dragOrigin' # None /\ DragRuns'
<1>1. /\ s # None /\ s \in sources \ used /\ o \in surfaces
      /\ dragOrigin = None /\ pressed # None /\ shown[pressed] = o
      /\ \A t \in surfaces : OwnerOf[t] \in dragDevices
      /\ dragDataSource' = s /\ dragOrigin' = o
      /\ isDragging' = [v \in DragViews |-> isDragging[v] \/ shown[v] = o]
      /\ used' = used \cup {s}
      /\ UNCHANGED <<dragDevices, surfaces, sources, shown, pressed, dragFocus,
                     dragFocusResource, over, offer, resolved, misused>>
  BY DEF StartDrag, Orderly, dragFocusVars
<1>2. o # None
  BY NoneIsNoSurface, DragSurfacesExist
<1>3. pressed \in DragViews /\ DragRests
  BY <1>1 DEF DragInv, DragTypeOK
<1>4. \A v \in DragViews : isDragging'[v] <=> v = pressed
  BY <1>1, <1>2, <1>3 DEF DragInv, ShownOnce, DragRests
<1>5. DraggedOnce' /\ s \notin resolved
  BY <1>1 DEF DragInv, DraggedOnce
<1>6. \A d \in Clients : ~over'[d] /\ d # dragFocusResource'
  BY <1>1, <1>3, NoneIsNoClient DEF DragRests
<1>7. dragFocus' = None /\ dragFocusResource' = None
  BY <1>1, <1>3 DEF DragRests
<1>8. ~misused' /\ ShownOnce'
  BY <1>1 DEF DragInv, ShownOnce
<1>9. OnlyFocusIsOver'
  BY <1>6 DEF OnlyFocusIsOver
<1>10. DragRuns'
  BY <1>1, <1>4, <1>5, <1>7, <1>9 DEF DragRuns
<1> QED
  BY <1>1, <1>2, <1>5, <1>8, <1>10

\* The item with the mouse of a drag keeps its surface.
LEMMA DragSceneStep ==
  ASSUME Orderly, DragInv,
         \/ \E v \in DragViews, s \in DragSurfaces \cup {None} : SetDragSurface(v, s)
         \/ \E v \in DragViews : PressItem(v)
         \/ UNCHANGED dragVars
  PROVE  /\ ~misused' /\ DraggedOnce' /\ ShownOnce'
         /\ dragOrigin' = None => DragRests'
         /\ dragOrigin' # None => DragRuns'
<1> USE DEF dragVars, dragClientVars, dragSceneVars, dragDataVars, dragFocusVars
<1>1. ASSUME NEW v \in DragViews, NEW s \in DragSurfaces \cup {None}, SetDragSurface(v, s)
      PROVE  /\ ~misused' /\ DraggedOnce' /\ ShownOnce'
             /\ dragOrigin' = None => DragRests'
             /\ dragOrigin' # None => DragRuns'
  <2>1. /\ s # None => \A w \in DragViews : shown[w] # s
        /\ ~isDragging[v] /\ shown' = [shown EXCEPT ![v] = s]
        /\ UNCHANGED <<dragClientVars, isDragging, pressed, dragDataVars, dragFocusVars,
                       resolved, misused>>
    BY <1>1 DEF SetDragSurface, Orderly
  <2>2. ShownOnce'
    BY <2>1 DEF DragInv, DragTypeOK, ShownOnce
  <2>3. dragOrigin # None => shown'[pressed] = dragOrigin
    BY <2>1 DEF DragInv, DragTypeOK, DragRuns
  <2> QED
    BY <2>1, <2>2, <2>3 DEF DragInv, DraggedOnce, DragRests, DragRuns, OnlyFocusIsOver
<1>2. ASSUME NEW v \in DragViews, PressItem(v)
      PROVE  /\ ~misused' /\ DraggedOnce' /\ ShownOnce'
             /\ dragOrigin' = None => DragRests'
             /\ dragOrigin' # None => DragRuns'
  BY <1>2 DEF PressItem, DragInv, DraggedOnce, ShownOnce, DragRests, DragRuns
<1>3. CASE UNCHANGED dragVars
  BY <1>3 DEF DragInv, DraggedOnce, ShownOnce, DragRests, DragRuns, OnlyFocusIsOver
<1> QED
  BY <1>1, <1>2, <1>3

\* Motion takes the drag to the surface under it: who it was over is left first.
LEMMA MoveOverStep ==
  ASSUME Orderly, DragInv, NEW v \in DragViews, MoveOver(v)
  PROVE  /\ ~misused' /\ DraggedOnce' /\ ShownOnce'
         /\ dragOrigin' # None /\ DragRuns'
<1> USE DEF dragVars, dragClientVars, dragSceneVars, dragDataVars, dragFocusVars
<1> DEFINE s == shown[v]
<1>1. /\ pressed # None /\ isDragging[pressed] /\ s # None /\ DragMove(s)
      /\ UNCHANGED <<dragClientVars, dragSceneVars, dragDataVars, resolved>>
  BY DEF MoveOver
<1>2. dragOrigin # None /\ DragRuns
  BY <1>1 DEF DragInv, DragTypeOK, DragRests
<1>3. s \in surfaces /\ OwnerOf[s] \in dragDevices /\ OwnerOf[s] \in Clients
  BY <1>1, <1>2, SurfaceOwners, DragSurfacesExist DEF DragInv, DragTypeOK, DragRuns
<1>4. dragDataSource \in sources /\ dragDataSource # None
  BY <1>2, NoneIsNoDragged DEF DragInv, DragTypeOK, DragRuns
<1> HIDE DEF s
<1>5. CASE s = dragFocus
  <2>1. ~misused' /\ UNCHANGED dragFocusVars
    BY <1>1, <1>2, <1>3, <1>5 DEF DragMove, DragRuns
  <2> QED
    BY <1>1, <1>2, <2>1 DEF DragInv, DraggedOnce, ShownOnce, DragRuns, OnlyFocusIsOver
<1>6. CASE s # dragFocus
  <2>1. SetDragFocus(s)
    BY <1>1, <1>6 DEF DragMove
  <2>2. /\ dragFocus' = s /\ dragFocusResource' = OwnerOf[s]
        /\ over' = [LeaveFocus EXCEPT ![OwnerOf[s]] = TRUE]
        /\ offer' = [offer EXCEPT ![OwnerOf[s]] = dragDataSource]
    BY <1>1, <1>3, <1>4, <2>1 DEF SetDragFocus, DragFocusIs
  <2>3. ~misused'
    BY <1>1, <1>2, <1>3, <1>4, <1>6, <2>2, NoneIsNoClient
    DEF DragMove, Stale, StaleResource, DragRuns
  <2>4. LeaveFocus \in [Clients -> BOOLEAN] /\ \A c \in Clients : ~LeaveFocus[c]
    <3>1. over \in [Clients -> BOOLEAN] /\ dragFocusResource \in Clients \cup {None}
      BY DEF DragInv, DragTypeOK
    <3>2. OnlyFocusIsOver
      BY <1>2 DEF DragRuns
    <3> QED
      BY <3>1, <3>2, NobodyEntered
  <2>5. \A c \in Clients : over'[c] <=> c = OwnerOf[s]
    BY <1>3, <2>2, <2>4
  <2>6. offer'[OwnerOf[s]] = dragDataSource
    BY <1>3, <2>2 DEF DragInv, DragTypeOK
  <2>7. DraggedOnce' /\ ShownOnce'
    BY <1>1 DEF DragInv, DraggedOnce, ShownOnce
  <2>8. OnlyFocusIsOver'
    BY <2>2, <2>5 DEF OnlyFocusIsOver
  <2>9. offer'[dragFocusResource'] = dragDataSource'
    BY <1>1, <2>2, <2>6
  <2>10. DragRuns'
    BY <1>1, <1>2, <1>3, <2>2, <2>8, <2>9 DEF DragRuns
  <2> QED
    BY <1>1, <1>2, <2>3, <2>7, <2>10
<1> QED
  BY <1>5, <1>6

\* The release ends the drag: a drop on the client it is over, or cancelled.
LEMMA MouseReleaseStep ==
  ASSUME DragInv, MouseRelease
  PROVE  /\ ~misused' /\ DraggedOnce' /\ ShownOnce'
         /\ dragOrigin' = None => DragRests'
         /\ dragOrigin' # None => DragRuns'
<1> USE DEF dragVars, dragClientVars, dragSceneVars, dragDataVars, dragFocusVars
<1>1. pressed \in DragViews /\ UNCHANGED <<dragClientVars, shown>>
  BY DEF MouseRelease, DragInv, DragTypeOK
<1>2. CASE dragOrigin = None
  <2>1. ~isDragging[pressed]
    BY <1>1, <1>2 DEF DragInv, DragRests
  <2>2. UNCHANGED <<isDragging, dragDataVars, dragFocusVars, resolved, misused>>
    BY <2>1 DEF MouseRelease
  <2> QED
    BY <1>1, <1>2, <2>2 DEF DragInv, DraggedOnce, ShownOnce, DragRests
<1>3. CASE dragOrigin # None
  <2>1. DragRuns /\ isDragging[pressed] /\ shown[pressed] # None
    BY <1>1, <1>3 DEF DragInv, DragRuns
  <2>2. /\ Drop /\ isDragging' = [isDragging EXCEPT ![pressed] = FALSE]
        /\ UNCHANGED <<dragClient, dragDataSource>>
    BY <2>1 DEF MouseRelease
  <2>3. dragDataSource \in sources /\ dragDataSource # None
    BY <2>1, NoneIsNoDragged DEF DragInv, DragTypeOK, DragRuns
  <2>4. /\ resolved' = resolved \cup {dragDataSource} /\ dragOrigin' = None
        /\ dragFocus' = None /\ dragFocusResource' = None /\ over' = LeaveFocus
    BY <2>2 DEF Drop, SetDragFocus, DragFocusIs
  <2>5. ~misused'
    BY <2>1, <2>2, <2>3 DEF Drop, Stale, StaleResource, DragRuns
  <2>6. \A c \in Clients : ~over'[c]
    <3>1. over \in [Clients -> BOOLEAN] /\ dragFocusResource \in Clients \cup {None}
      BY DEF DragInv, DragTypeOK
    <3>2. OnlyFocusIsOver
      BY <2>1 DEF DragRuns
    <3> QED
      BY <2>4, <3>1, <3>2, NobodyEntered
  <2>7. \A v \in DragViews : ~isDragging'[v]
    BY <1>1, <2>1, <2>2 DEF DragRuns, DragInv, DragTypeOK
  <2> QED
    BY <1>1, <2>2, <2>4, <2>5, <2>6, <2>7 DEF DragInv, DraggedOnce, ShownOnce, DragRests
<1> QED
  BY <1>2, <1>3

\* Every step keeps the invariant.
LEMMA DragInvNext ==
  ASSUME Orderly
  PROVE  DragInv /\ [DragNext]_dragVars => DragInv'
<1> SUFFICES ASSUME DragInv, [DragNext]_dragVars
             PROVE  DragInv'
  OBVIOUS
<1>1. DragTypeOK'
  BY DragTypesNext DEF DragInv
<1>2. CASE \/ \E c \in Clients : GetDragDevice(c) \/ Disconnect(c)
           \/ \E s \in DragSources : CreateDragSource(s) \/ DestroyDragSource(s)
  BY <1>1, <1>2, DragClientStep DEF DragInv
<1>3. CASE \E c \in Clients, s \in DragSources \cup {None}, o \in DragSurfaces :
             StartDrag(c, s, o)
  BY <1>1, <1>3, StartDragStep DEF DragInv
<1>4. CASE \/ \E v \in DragViews, s \in DragSurfaces \cup {None} : SetDragSurface(v, s)
           \/ \E v \in DragViews : PressItem(v)
           \/ UNCHANGED dragVars
  BY <1>1, <1>4, DragSceneStep DEF DragInv
<1>5. CASE \E v \in DragViews : MoveOver(v)
  BY <1>1, <1>5, MoveOverStep DEF DragInv
<1>6. CASE MouseRelease
  BY <1>1, <1>6, MouseReleaseStep DEF DragInv
<1> QED
  BY <1>2, <1>3, <1>4, <1>5, <1>6 DEF DragNext, DragClientNext

\* With orderly clients and an orderly shell, however many clients a drag visits
\* and whenever data devices are bound and sources destroyed: exactly the client
\* that has the focus of the drag is between enter and leave, with an offer for
\* the source that is dragged; setDragFocus(), dragMove() and drop() follow no
\* pointer to what is gone; only the item with the mouse drags; and a drag that
\* is over was dropped or cancelled and leaves no item that drags.
THEOREM DragAlwaysSettles ==
  ASSUME OrderlyClients, OrderlyShell
  PROVE  DragSpec => []DragSettles
<1> USE DEF Orderly
<1>1. ASSUME DragInv
      PROVE  DragBalanced
  <2>1. CASE dragOrigin = None
    <3>1. \A c \in Clients : ~over[c] /\ c # dragFocusResource
      BY <1>1, <2>1, NoneIsNoClient DEF DragInv, DragRests
    <3> QED
      BY <3>1 DEF DragBalanced
  <2>2. CASE dragOrigin # None
    <3>1. DragRuns
      BY <1>1, <2>2 DEF DragInv
    <3>2. ASSUME NEW c \in Clients
          PROVE  over[c] <=> dragFocusResource = c
      BY <3>1 DEF DragRuns, OnlyFocusIsOver
    <3>3. ASSUME NEW c \in Clients, over[c]
          PROVE  offer[c] = dragDataSource
      BY <3>1, <3>2, <3>3, NoneIsNoClient DEF DragRuns
    <3> QED
      BY <2>2, <3>2, <3>3 DEF DragBalanced
  <2> QED
    BY <2>1, <2>2
<1>2. DragInv => OnlyPressedDrags /\ DragResolved /\ NeverMisused
  BY DEF DragInv, DragRests, DragRuns, OnlyPressedDrags, DragResolved, NeverMisused
<1>3. DragInv => DragSettles
  BY <1>1, <1>2 DEF DragSettles
<1> QED
  BY DragInvInit, DragInvNext, <1>3, PTL DEF DragSpec

-----------------------------------------------------------------------------
(* Text input *)

\* What travels between a client and the compositor.
Requests   == [kind : {"set"}, field : Fields, value : Texts] \cup [kind : {"change", "full"}]
TextEvents == [kind : {"enter", "leave"}, of : TextSurfaces \cup {None}]
              \cup [kind : {"commit"}, of : Texts]

\* The text inputs of a client are its own, and none is listed twice.
InputLists ==
  \A c \in TextClients :
    /\ \A i \in DOMAIN textInputs[c] : OwnerOf[textInputs[c][i]] = c
    /\ \A i, j \in DOMAIN textInputs[c] : textInputs[c][i] = textInputs[c][j] => i = j

TextTypes ==
  /\ TextTypeOK
  /\ requests \in [TextInputs -> Seq(Requests)]
  /\ events \in [TextInputs -> Seq(TextEvents)]
  /\ InputLists

\* A client with a surface has its text input.
InputsFirst ==
  \A s \in textLive, t \in TextInputs : OwnerOf[t] = OwnerOf[s] => t \in BoundInputs

\* A focus that is told exists and is of the client that is told; one that is
\* not told is of a client without text input.
FocusIsOfClient ==
  /\ textResource # None =>
       /\ textResource \in TextInputs
       /\ textFocus \in textLive /\ OwnerOf[textResource] = OwnerOf[textFocus]
  /\ textResource = None /\ textFocus # None =>
       \A t \in TextInputs : OwnerOf[t] # OwnerOf[textFocus]

FocusIsHeld ==
  /\ \A t \in TextInputs : textTold[t] = IF t = textResource THEN {textFocus} ELSE {}
  /\ textListening = IF textResource = None THEN None ELSE textFocus

EnabledExist ==
  /\ controls \subseteq textLive
  /\ \A t \in TextInputs :
       enabledSurfaces[t] # None =>
         enabledSurfaces[t] \in textLive /\ OwnerOf[enabledSurfaces[t]] = OwnerOf[t]

TextPlaced ==
  InputsFirst /\ FocusIsOfClient /\ FocusIsHeld /\ EnabledExist /\ EnabledAgrees /\ ListenerIsOnce

\* All that a client sends, and is sent, is of its own editor.
RequestsOf(t) == {r \in Requests : r.kind = "set" => r.value \in TextsOf[t][r.field]}
EventsOf(t)   == {e \in TextEvents : e.kind = "commit" => e.of \in TextsOf[t]["text"]}

OwnTexts ==
  \A t \in TextInputs :
    /\ \A f \in Fields : editor[t][f] \in TextsOf[t][f]
    /\ requests[t] \in Seq(RequestsOf(t)) /\ events[t] \in Seq(EventsOf(t))

\* And what the compositor knows is of the editor with the focus.
StateIsOfFocus ==
  textResource # None =>
    \A f \in Fields :
      {currentState.value[f], pendingState.value[f]} \subseteq TextsOf[textResource][f] \cup {None}

IsSet(r, f) == r.kind = "set" /\ r.field = f

\* Pieces are followed by what makes them take effect.
PiecesTakeEffect ==
  /\ \A t \in TextInputs :
       requests[t] # <<>> => requests[t][Len(requests[t])].kind # "set"
  /\ textResource # None /\ pendingState.changed # {} => requests[textResource] # <<>>

\* When the requests q have arrived at the pending state p and the values v, the
\* field f has the value x: the last of them to set it does so, or none sets it.
Arrives(p, v, q, f, x) ==
  \/ \E i \in DOMAIN q : /\ IsSet(q[i], f) /\ q[i].value = x
                         /\ \A j \in DOMAIN q : j > i => ~IsSet(q[j], f)
  \/ /\ \A i \in DOMAIN q : ~IsSet(q[i], f)
     /\ IF f \in p.changed THEN p.value[f] = x ELSE v[f] = x

\* And a full update among them, which takes all of the pending state, finds f
\* set there, or f is set later.
IsWhole(p, q, f) ==
  \A i \in DOMAIN q : q[i].kind = "full" =>
    \/ \E j \in DOMAIN q : j > i /\ IsSet(q[j], f)
    \/ \E j \in DOMAIN q : /\ j < i /\ IsSet(q[j], f)
                           /\ \A k \in DOMAIN q : j < k /\ k < i => q[k].kind = "set"
    \/ /\ f \in p.changed
       /\ \A k \in DOMAIN q : k < i => q[k].kind = "set"

\* The client has yet to hear that it has the focus, and will send everything.
WillHear(t) ==
  \E i \in DOMAIN events[t] :
    /\ events[t][i].kind = "enter" /\ events[t][i].of = textFocus
    /\ \A j \in DOMAIN events[t] : j > i => events[t][j].kind = "commit"

\* Or it knows, and what it sent is what it has; but for texts on their way to
\* it, which it will send back.
HasHeard(t) ==
  /\ heard[t] = textFocus
  /\ \A i \in DOMAIN events[t] : events[t][i].kind = "commit"
  /\ \A f \in Fields :
       /\ (f = "text" /\ events[t] # <<>>)
            \/ Arrives(pendingState, currentState.value, requests[t], f, editor[t][f])
       /\ IsWhole(pendingState, requests[t], f)

FocusSettles == textResource # None => WillHear(textResource) \/ HasHeard(textResource)

TextInv ==
  TextTypes /\ TextPlaced /\ OwnTexts /\ StateIsOfFocus /\ PiecesTakeEffect /\ FocusSettles

\* A resource in front of a list makes it longer by that one.
LEMMA PrependedJoinsTheRest ==
  ASSUME NEW S, NEW q \in Seq(S), NEW k \in S, \A i \in DOMAIN q : q[i] # k,
         \A i, j \in DOMAIN q : q[i] = q[j] => i = j
  PROVE  /\ <<k>> \o q \in Seq(S) /\ <<k>> \o q # <<>>
         /\ 1 \in DOMAIN (<<k>> \o q) /\ (<<k>> \o q)[1] = k
         /\ \A i \in DOMAIN (<<k>> \o q) :
              (<<k>> \o q)[i] = k \/ \E j \in DOMAIN q : (<<k>> \o q)[i] = q[j]
         /\ \A j \in DOMAIN q : \E i \in DOMAIN (<<k>> \o q) : (<<k>> \o q)[i] = q[j]
         /\ \A i, j \in DOMAIN (<<k>> \o q) : (<<k>> \o q)[i] = (<<k>> \o q)[j] => i = j
<1> DEFINE r == <<k>> \o q
<1>1. r \in Seq(S) /\ r # <<>>
  OBVIOUS
<1>2. /\ DOMAIN r = 1..Len(q) + 1 /\ r[1] = k
      /\ \A i \in 2..Len(q) + 1 : i - 1 \in DOMAIN q /\ r[i] = q[i - 1]
      /\ \A i \in DOMAIN q : i + 1 \in DOMAIN r /\ r[i + 1] = q[i]
  OBVIOUS
<1> HIDE DEF r
<1>3. \A i \in DOMAIN r : i = 1 \/ i \in 2..Len(q) + 1
  BY <1>2
<1>4. \A i \in DOMAIN r : r[i] = k \/ \E j \in DOMAIN q : r[i] = q[j]
  BY <1>2, <1>3
<1>5. \A i \in 2..Len(q) + 1 : r[i] # k
  BY <1>2
<1>6. \A i, j \in 2..Len(q) + 1 : r[i] = r[j] => i = j
  BY <1>2
<1>7. \A i, j \in DOMAIN r : r[i] = r[j] => i = j
  BY <1>2, <1>3, <1>5, <1>6
<1>8. 1 \in DOMAIN r
  BY <1>2
<1> QED
  BY <1>1, <1>2, <1>4, <1>7, <1>8 DEF r

\* Where the text inputs are.
LEMMA BoundInput ==
  ASSUME NEW t
  PROVE  t \in BoundInputs <=>
           \E c \in TextClients : \E i \in DOMAIN textInputs[c] : textInputs[c][i] = t
BY DEF BoundInputs

\* And after a step.
LEMMA BoundInputNext ==
  ASSUME NEW t
  PROVE  t \in BoundInputs' <=>
           \E c \in TextClients : \E i \in DOMAIN textInputs'[c] : textInputs'[c][i] = t
BY DEF BoundInputs

\* resourceMap().value() finds a text input of the client if there is one.
LEMMA ResourceIsOfClient ==
  ASSUME TextTypes, NEW s \in TextSurfaces
  PROVE  /\ ResourceOf(s) # None =>
              /\ ResourceOf(s) \in BoundInputs /\ ResourceOf(s) \in TextInputs
              /\ OwnerOf[ResourceOf(s)] = OwnerOf[s]
         /\ ResourceOf(s) = None => \A t \in BoundInputs : OwnerOf[t] # OwnerOf[s]
<1> DEFINE c == OwnerOf[s]
           own == textInputs[c]
<1>1. c \in TextClients /\ own \in Seq(TextInputs)
  BY TextOwners DEF TextTypes, TextTypeOK
<1>2. ResourceOf(s) = IF own = <<>> THEN None ELSE Head(own)
  BY DEF ResourceOf
<1>3. CASE own = <<>>
  <2>1. \A d \in TextClients : \A i \in DOMAIN textInputs[d] : OwnerOf[textInputs[d][i]] = d
    BY DEF TextTypes, InputLists
  <2>2. ASSUME NEW t \in BoundInputs, OwnerOf[t] = c
        PROVE  FALSE
    <3>1. PICK d \in TextClients : \E i \in DOMAIN textInputs[d] : textInputs[d][i] = t
      BY BoundInput
    <3>2. d = c
      BY <2>1, <2>2, <3>1
    <3> QED
      BY <1>3, <3>1, <3>2
  <2> QED
    BY <1>2, <1>3, <2>2
<1>4. CASE own # <<>>
  <2>1. 1 \in DOMAIN own /\ Head(own) = own[1] /\ Head(own) \in TextInputs
    BY <1>1, <1>4
  <2>2. Head(own) \in BoundInputs
    BY <1>1, <2>1, BoundInput
  <2>3. OwnerOf[own[1]] = c
    BY <1>1, <2>1 DEF TextTypes, InputLists
  <2> QED
    BY <1>2, <1>4, <2>1, <2>2, <2>3, NoneIsNoInput
<1> QED
  BY <1>3, <1>4

LEMMA TextTypesInit == TextInit => TextTypes
<1> SUFFICES ASSUME TextInit PROVE TextTypes
  OBVIOUS
<1>1. \A t \in TextInputs, f \in Fields : (CHOOSE x \in TextsOf[t][f] : TRUE) \in TextsOf[t][f]
  BY TextsExist
<1>2. editor \in [TextInputs -> [Fields -> Texts]]
  BY <1>1 DEF TextInit, Texts
<1>3. {currentState, pendingState} \subseteq
        [value : [Fields -> Texts \cup {None}], changed : SUBSET Fields]
  BY DEF TextInit, NewState, Default
<1>4. InputLists /\ textInputs \in [TextClients -> Seq(TextInputs)]
  BY DEF TextInit, InputLists
<1>5. /\ {enabledSurfaces, heard} \subseteq [TextInputs -> TextSurfaces \cup {None}]
      /\ textTold \in [TextInputs -> SUBSET TextSurfaces]
      /\ requests \in [TextInputs -> Seq(Requests)] /\ events \in [TextInputs -> Seq(TextEvents)]
  BY DEF TextInit
<1>6. /\ textLive \subseteq TextSurfaces /\ controls \subseteq TextSurfaces
      /\ {textFocus, textListening} \subseteq TextSurfaces \cup {None}
      /\ textResource \in TextInputs \cup {None}
  BY DEF TextInit
<1> QED
  BY <1>2, <1>3, <1>4, <1>5, <1>6 DEF TextTypes, TextTypeOK

\* Surfaces come and go, and are enabled.
LEMMA SurfaceTypes ==
  ASSUME TextTypes, NEW s \in TextSurfaces,
         \/ CreateTextSurface(s) \/ DestroyTextSurface(s)
         \/ \E t \in TextInputs : Enable(t, s)
  PROVE  TextTypes'
<1> USE DEF stateVars, textClientVars, textFocusVars
<1>1. CASE CreateTextSurface(s)
  BY <1>1 DEF CreateTextSurface, TextTypes, TextTypeOK, InputLists
<1>2. CASE DestroyTextSurface(s)
  BY <1>2 DEF DestroyTextSurface, TextTypes, TextTypeOK, InputLists
<1>3. ASSUME NEW t \in TextInputs, Enable(t, s)
      PROVE  TextTypes'
  BY <1>3 DEF Enable, TextTypes, TextTypeOK, InputLists
<1> QED
  BY <1>1, <1>2, <1>3

\* A text input is in the list of its client after BindInput(t).
LEMMA BindInputTypes ==
  ASSUME TextTypes, NEW t \in TextInputs, BindInput(t)
  PROVE  TextTypes' /\ BoundInputs \subseteq BoundInputs'
<1> DEFINE c == OwnerOf[t]
           q == textInputs[c]
           r == <<t>> \o q
<1>1. /\ textInputs' = [textInputs EXCEPT ![c] = <<t>> \o @]
      /\ t \notin BoundInputs
      /\ UNCHANGED <<textLive, textFocusVars, enabledSurfaces, controls, stateVars,
                     textClientVars, requests, events>>
  BY DEF BindInput
<1>2. c \in TextClients /\ textInputs \in [TextClients -> Seq(TextInputs)]
  BY TextOwners DEF TextTypes, TextTypeOK
<1>3. q \in Seq(TextInputs) /\ \A i \in DOMAIN q : q[i] # t
  BY <1>1, <1>2, BoundInput
<1>4. \A i, j \in DOMAIN q : q[i] = q[j] => i = j
  BY <1>2 DEF TextTypes, InputLists
<1>5. \A i \in DOMAIN q : OwnerOf[q[i]] = c
  BY <1>2 DEF TextTypes, InputLists
<1> HIDE DEF q
<1>6. /\ r \in Seq(TextInputs)
      /\ \A i \in DOMAIN r : r[i] = t \/ \E j \in DOMAIN q : r[i] = q[j]
      /\ \A j \in DOMAIN q : \E i \in DOMAIN r : r[i] = q[j]
      /\ \A i, j \in DOMAIN r : r[i] = r[j] => i = j
  BY <1>3, <1>4, PrependedJoinsTheRest
<1>7. \A i \in DOMAIN r : OwnerOf[r[i]] = c
  BY <1>5, <1>6
<1>8. /\ textInputs' \in [TextClients -> Seq(TextInputs)] /\ textInputs'[c] = r
      /\ \A d \in TextClients \ {c} : textInputs'[d] = textInputs[d]
  BY <1>1, <1>2, <1>6 DEF q
<1> HIDE DEF c, q, r
<1>9. InputLists'
  <2> SUFFICES ASSUME NEW d \in TextClients
               PROVE  /\ \A i \in DOMAIN textInputs'[d] : OwnerOf[textInputs'[d][i]] = d
                      /\ \A i, j \in DOMAIN textInputs'[d] :
                           textInputs'[d][i] = textInputs'[d][j] => i = j
    BY DEF InputLists
  <2>1. CASE d # c
    BY <1>8, <2>1 DEF TextTypes, InputLists
  <2>2. CASE d = c
    BY <1>6, <1>7, <1>8, <2>2
  <2> QED
    BY <2>1, <2>2
<1>10. BoundInputs \subseteq BoundInputs'
  <2> SUFFICES ASSUME NEW u \in BoundInputs PROVE u \in BoundInputs'
    OBVIOUS
  <2>1. PICK d \in TextClients : \E i \in DOMAIN textInputs[d] : textInputs[d][i] = u
    BY BoundInput
  <2>2. \E i \in DOMAIN textInputs'[d] : textInputs'[d][i] = u
    BY <1>6, <1>8, <2>1 DEF q
  <2> QED
    BY <2>2, BoundInputNext
<1> QED
  BY <1>1, <1>8, <1>9, <1>10
  DEF TextTypes, TextTypeOK, textFocusVars, stateVars, textClientVars

\* And not any more after DestroyInput(t).
LEMMA DestroyInputTypes ==
  ASSUME TextTypes, NEW t \in TextInputs, DestroyInput(t)
  PROVE  TextTypes' /\ BoundInputs \ {t} \subseteq BoundInputs'
<1> DEFINE c == OwnerOf[t]
           q == textInputs[c]
           r == Removed(q, t)
<1>1. /\ textInputs' = [textInputs EXCEPT ![c] = Removed(@, t)]
      /\ t \in BoundInputs
      /\ textResource' = IF textResource = t THEN None ELSE textResource
      /\ textTold' = [textTold EXCEPT ![t] = {}]
      /\ heard' = [heard EXCEPT ![t] = None]
      /\ events' = [events EXCEPT ![t] = <<>>]
      /\ UNCHANGED <<textLive, textFocus, textListening, textMisused, enabledSurfaces,
                     controls, stateVars, editor, requests>>
  BY DEF DestroyInput
<1>2. c \in TextClients /\ textInputs \in [TextClients -> Seq(TextInputs)]
  BY TextOwners DEF TextTypes, TextTypeOK
<1>3. q \in Seq(TextInputs) /\ t \in {q[i] : i \in DOMAIN q}
  BY <1>1, <1>2, BoundInput DEF TextTypes, InputLists
<1>4. \A i, j \in DOMAIN q : q[i] = q[j] => i = j
  BY <1>2 DEF TextTypes, InputLists
<1>5. \A i \in DOMAIN q : OwnerOf[q[i]] = c
  BY <1>2 DEF TextTypes, InputLists
<1>6. /\ r \in Seq(TextInputs)
      /\ \A i \in DOMAIN r : \E j \in DOMAIN q : r[i] = q[j]
      /\ \A j \in DOMAIN q : q[j] # t => \E i \in DOMAIN r : r[i] = q[j]
      /\ \A i, j \in DOMAIN r : r[i] = r[j] => i = j
  BY <1>3, <1>4, RemovedLeavesTheRest
<1>7. \A i \in DOMAIN r : OwnerOf[r[i]] = c
  BY <1>5, <1>6
<1>8. /\ textInputs' \in [TextClients -> Seq(TextInputs)] /\ textInputs'[c] = r
      /\ \A d \in TextClients \ {c} : textInputs'[d] = textInputs[d]
  BY <1>1, <1>2, <1>6
<1> HIDE DEF c, q, r
<1>9. InputLists'
  <2> SUFFICES ASSUME NEW d \in TextClients
               PROVE  /\ \A i \in DOMAIN textInputs'[d] : OwnerOf[textInputs'[d][i]] = d
                      /\ \A i, j \in DOMAIN textInputs'[d] :
                           textInputs'[d][i] = textInputs'[d][j] => i = j
    BY DEF InputLists
  <2>1. CASE d # c
    BY <1>8, <2>1 DEF TextTypes, InputLists
  <2>2. CASE d = c
    BY <1>6, <1>7, <1>8, <2>2
  <2> QED
    BY <2>1, <2>2
<1>10. BoundInputs \ {t} \subseteq BoundInputs'
  <2> SUFFICES ASSUME NEW u \in BoundInputs, u # t PROVE u \in BoundInputs'
    OBVIOUS
  <2>1. PICK d \in TextClients : \E i \in DOMAIN textInputs[d] : textInputs[d][i] = u
    BY BoundInput
  <2>2. \E i \in DOMAIN textInputs'[d] : textInputs'[d][i] = u
    BY <1>6, <1>8, <2>1 DEF q
  <2> QED
    BY <2>2, BoundInputNext
<1>11. events' \in [TextInputs -> Seq(TextEvents)]
  BY <1>1 DEF TextTypes
<1> QED
  BY <1>1, <1>8, <1>9, <1>10, <1>11
  DEF TextTypes, TextTypeOK, stateVars

\* What setFocus() sends joins what is under way.
LEMMA SentTypes ==
  ASSUME TextTypes, NEW s \in TextSurfaces
  PROVE  TextSent(s) \in [TextInputs -> Seq(TextEvents)]
<1> SUFFICES ASSUME NEW t \in TextInputs
             PROVE  TextSent(s)[t] \in Seq(TextEvents)
  BY DEF TextSent
<1>1. events[t] \in Seq(TextEvents) /\ textFocus \in TextSurfaces \cup {None}
  BY DEF TextTypes, TextTypeOK
<1>2. [kind |-> "leave", of |-> textFocus] \in TextEvents
  BY <1>1 DEF TextEvents
<1>3. [kind |-> "enter", of |-> s] \in TextEvents
  BY DEF TextEvents
<1> DEFINE leave == IF Leaves(s) /\ t = textResource
                    THEN <<[kind |-> "leave", of |-> textFocus]>> ELSE <<>>
           enter == IF Enters(s) /\ t = ResourceOf(s)
                    THEN <<[kind |-> "enter", of |-> s]>> ELSE <<>>
<1>4. TextSent(s)[t] = events[t] \o leave \o enter
  BY DEF TextSent
<1>5. leave \in Seq(TextEvents) /\ enter \in Seq(TextEvents)
  BY <1>2, <1>3
<1> HIDE DEF leave, enter
<1> QED
  BY <1>1, <1>4, <1>5

\* The focus moves.
LEMMA TextFocusTypes ==
  ASSUME TextTypes, NEW s \in TextSurfaces, SetTextFocus(s)
  PROVE  TextTypes'
<1>1. /\ s \in textLive /\ textFocus' = s /\ textResource' = ResourceOf(s)
      /\ textListening' = IF Enters(s) THEN s ELSE IF Leaves(s) THEN None ELSE textListening
      /\ textTold' = TextTold(s) /\ events' = TextSent(s)
      /\ \/ currentState' = NewState /\ pendingState' = NewState
         \/ UNCHANGED <<currentState, pendingState>>
      /\ UNCHANGED <<textLive, textInputs, enabledSurfaces, controls, textClientVars, requests>>
  BY DEF SetTextFocus, stateVars
<1>2. ResourceOf(s) \in TextInputs \cup {None}
  BY ResourceIsOfClient
<1>3. TextTold(s) \in [TextInputs -> SUBSET TextSurfaces]
  BY DEF TextTold, TextTypes, TextTypeOK
<1>4. NewState \in [value : [Fields -> Texts \cup {None}], changed : SUBSET Fields]
  BY DEF NewState, Default
<1>5. InputLists'
  BY <1>1 DEF TextTypes, InputLists
<1>6. events' \in [TextInputs -> Seq(TextEvents)]
  BY <1>1, SentTypes
<1> QED
  BY <1>1, <1>2, <1>3, <1>4, <1>5, <1>6 DEF TextTypes, TextTypeOK, textClientVars

\* The first request of those that are under way.
LEMMA RequestAtHead ==
  ASSUME TextTypes, NEW t \in TextInputs, requests[t] # <<>>
  PROVE  /\ Head(requests[t]) \in Requests /\ Tail(requests[t]) \in Seq(Requests)
BY DEF TextTypes

\* A field or an update arrives.
LEMMA StateTypes ==
  ASSUME TextTypes, NEW r \in Requests, SetField(r) \/ UpdateState(r)
  PROVE  {currentState', pendingState'} \subseteq
           [value : [Fields -> Texts \cup {None}], changed : SUBSET Fields]
<1> DEFINE States == [value : [Fields -> Texts \cup {None}], changed : SUBSET Fields]
<1>1. currentState \in States /\ pendingState \in States
  BY DEF TextTypes, TextTypeOK
<1>2. NewState \in States
  BY DEF NewState, Default
<1>3. CASE SetField(r)
  <2>1. r \in [kind : {"set"}, field : Fields, value : Texts]
    BY <1>3 DEF SetField, Requests
  <2>2. pendingState' \in States /\ currentState' = currentState
    BY <1>1, <1>3, <2>1 DEF SetField
  <2> QED
    BY <1>1, <2>2
<1>4. CASE UpdateState(r)
  <2>1. pendingState' = NewState
    BY <1>4 DEF UpdateState
  <2>2. CASE r.kind = "full"
    BY <1>1, <1>2, <1>4, <2>1, <2>2 DEF UpdateState
  <2>3. CASE r.kind # "full"
    <3>1. currentState' =
            [currentState EXCEPT !.value =
               [f \in Fields |-> IF f \in pendingState.changed
                                 THEN pendingState.value[f] ELSE @[f]]]
      BY <1>4, <2>3 DEF UpdateState
    <3>2. currentState' \in States
      BY <1>1, <3>1
    <3> QED
      BY <1>2, <2>1, <3>2
  <2> QED
    BY <2>2, <2>3
<1> QED
  BY <1>3, <1>4

LEMMA ReceiveTypes ==
  ASSUME TextTypes, NEW t \in TextInputs, Receive(t)
  PROVE  TextTypes'
<1>1. /\ requests[t] # <<>> /\ requests' = [requests EXCEPT ![t] = Tail(@)]
      /\ \/ SetField(Head(requests[t])) \/ UpdateState(Head(requests[t]))
         \/ UNCHANGED <<currentState, pendingState>>
      /\ UNCHANGED <<textLive, textInputs, textFocusVars, enabledSurfaces, controls,
                     textClientVars, events>>
  BY DEF Receive, stateVars
<1>2. {currentState', pendingState'} \subseteq
        [value : [Fields -> Texts \cup {None}], changed : SUBSET Fields]
  BY <1>1, RequestAtHead, StateTypes DEF TextTypes, TextTypeOK
<1>3. requests' \in [TextInputs -> Seq(Requests)]
  BY <1>1, RequestAtHead DEF TextTypes
<1>4. InputLists'
  BY <1>1 DEF TextTypes, InputLists
<1> QED
  BY <1>1, <1>2, <1>3, <1>4 DEF TextTypes, TextTypeOK, textClientVars, textFocusVars

LEMMA InputMethodTypes ==
  ASSUME TextTypes, NEW t \in TextInputs, NEW x \in TextsOf[t].text,
         SendInputMethodEvent(x)
  PROVE  TextTypes'
<1>1. /\ textResource # None /\ x \in TextsOf[textResource].text
      /\ currentState' = [currentState EXCEPT !.value["text"] = x]
      /\ events' = [events EXCEPT ![textResource] = Append(@, [kind |-> "commit", of |-> x])]
      /\ UNCHANGED <<textLive, textInputs, textFocusVars, enabledSurfaces, controls,
                     pendingState, textClientVars, requests>>
  BY DEF SendInputMethodEvent
<1>2. textResource \in TextInputs
  BY <1>1 DEF TextTypes, TextTypeOK
<1>3. x \in Texts
  BY DEF Texts, Fields
<1>4. currentState' \in [value : [Fields -> Texts \cup {None}], changed : SUBSET Fields]
  BY <1>1, <1>3 DEF TextTypes, TextTypeOK
<1>5. [kind |-> "commit", of |-> x] \in TextEvents
  BY <1>3 DEF TextEvents
<1>6. events' \in [TextInputs -> Seq(TextEvents)]
  BY <1>1, <1>2, <1>5 DEF TextTypes
<1>7. InputLists'
  BY <1>1 DEF TextTypes, InputLists
<1> QED
  BY <1>1, <1>4, <1>6, <1>7 DEF TextTypes, TextTypeOK, textClientVars, textFocusVars

\* What a client does when it hears of something.
HearsEnter(t) ==
  /\ Head(events[t]).kind = "enter"
  /\ heard' = [heard EXCEPT ![t] = IF Head(events[t]).of \in textLive
                                   THEN Head(events[t]).of ELSE None]
  /\ UNCHANGED editor
  /\ SendRequests(t, <<SetRequest(t, "text"), SetRequest(t, "hints"), [kind |-> "full"]>>)
HearsLeave(t) ==
  /\ Head(events[t]).kind = "leave"
  /\ heard' = [heard EXCEPT ![t] = IF @ = Head(events[t]).of THEN None ELSE @]
  /\ UNCHANGED <<editor, requests>>
HearsCommit(t) ==
  /\ Head(events[t]).kind = "commit" /\ heard[t] # None
  /\ editor' = [editor EXCEPT ![t].text = Head(events[t]).of]
  /\ SendRequests(t, <<SetRequest(t, "text"), [kind |-> "change"]>>)
  /\ UNCHANGED heard
HearsNothing(t) ==
  /\ Head(events[t]).kind = "commit" /\ heard[t] = None
  /\ UNCHANGED <<heard, editor, requests>>

LEMMA HearCases ==
  ASSUME NEW t \in TextInputs, Hear(t)
  PROVE  /\ events[t] # <<>> /\ events' = [events EXCEPT ![t] = Tail(@)]
         /\ HearsEnter(t) \/ HearsLeave(t) \/ HearsCommit(t) \/ HearsNothing(t)
         /\ UNCHANGED <<textLive, textInputs, textFocusVars, enabledSurfaces, controls, stateVars>>
BY DEF Hear, HearsEnter, HearsLeave, HearsCommit, HearsNothing

LEMMA EventAtHead ==
  ASSUME TextTypes, NEW t \in TextInputs, events[t] # <<>>
  PROVE  /\ Head(events[t]) \in TextEvents /\ Tail(events[t]) \in Seq(TextEvents)
         /\ Head(events[t]) = events[t][1] /\ 1 \in DOMAIN events[t]
BY DEF TextTypes

\* What a client sends is of its editor as it is then.
LEMMA SetRequests ==
  ASSUME NEW t \in TextInputs, NEW f \in Fields, editor' \in [TextInputs -> [Fields -> Texts]]
  PROVE  SetRequest(t, f) \in Requests
BY DEF SetRequest, Requests

LEMMA SendTypes ==
  ASSUME TextTypes, NEW t \in TextInputs, NEW batch \in Seq(Requests), SendRequests(t, batch)
  PROVE  requests' \in [TextInputs -> Seq(Requests)]
BY DEF SendRequests, TextTypes

LEMMA HearTypes ==
  ASSUME TextTypes, NEW t \in TextInputs, Hear(t)
  PROVE  TextTypes'
<1>1. /\ events[t] # <<>> /\ events' = [events EXCEPT ![t] = Tail(@)]
      /\ UNCHANGED <<textLive, textInputs, textFocusVars, enabledSurfaces, controls, stateVars>>
  BY HearCases
<1>2. events' \in [TextInputs -> Seq(TextEvents)]
  BY <1>1, EventAtHead DEF TextTypes
<1>3. heard \in [TextInputs -> TextSurfaces \cup {None}] /\ textLive \subseteq TextSurfaces
  BY DEF TextTypes, TextTypeOK
<1>4. editor \in [TextInputs -> [Fields -> Texts]]
  BY DEF TextTypes, TextTypeOK
<1>5. /\ heard' \in [TextInputs -> TextSurfaces \cup {None}]
      /\ editor' \in [TextInputs -> [Fields -> Texts]]
      /\ requests' \in [TextInputs -> Seq(Requests)]
  <2>1. CASE HearsEnter(t)
    <3>1. heard' \in [TextInputs -> TextSurfaces \cup {None}] /\ editor' = editor
      BY <1>3, <2>1 DEF HearsEnter
    <3>2. SetRequest(t, "text") \in Requests /\ SetRequest(t, "hints") \in Requests
      BY <1>4, <3>1, SetRequests DEF Fields
    <3>3. [kind |-> "full"] \in Requests
      BY DEF Requests
    <3>4. <<SetRequest(t, "text"), SetRequest(t, "hints"), [kind |-> "full"]>> \in Seq(Requests)
      BY <3>2, <3>3
    <3> QED
      BY <1>4, <2>1, <3>1, <3>4, SendTypes DEF HearsEnter
  <2>2. CASE HearsLeave(t) \/ HearsNothing(t)
    BY <1>3, <1>4, <2>2 DEF HearsLeave, HearsNothing, TextTypes
  <2>3. CASE HearsCommit(t)
    <3>1. heard' = heard /\ editor' = [editor EXCEPT ![t].text = Head(events[t]).of]
      BY <2>3 DEF HearsCommit
    <3>2. Head(events[t]) \in [kind : {"commit"}, of : Texts]
      BY <1>1, <2>3, EventAtHead DEF HearsCommit, TextEvents
    <3>3. editor' \in [TextInputs -> [Fields -> Texts]]
      BY <1>4, <3>1, <3>2 DEF Fields
    <3>4. SetRequest(t, "text") \in Requests /\ [kind |-> "change"] \in Requests
      BY <3>3, SetRequests DEF Fields, Requests
    <3>5. <<SetRequest(t, "text"), [kind |-> "change"]>> \in Seq(Requests)
      BY <3>4
    <3> QED
      BY <1>3, <2>3, <3>1, <3>3, <3>5, SendTypes DEF HearsCommit
  <2> QED
    BY <2>1, <2>2, <2>3, HearCases
<1>6. InputLists'
  BY <1>1 DEF TextTypes, InputLists
<1> QED
  BY <1>1, <1>2, <1>5, <1>6 DEF TextTypes, TextTypeOK, textFocusVars, stateVars

LEMMA EditTypes ==
  ASSUME TextTypes, NEW t \in TextInputs, NEW f \in Fields, NEW x \in TextsOf[t][f],
         Edit(t, f, x)
  PROVE  TextTypes'
<1>1. /\ editor' = [editor EXCEPT ![t][f] = x]
      /\ SendRequests(t, <<SetRequest(t, f), [kind |-> "change"]>>)
      /\ UNCHANGED <<textLive, textInputs, textFocusVars, enabledSurfaces, controls,
                     stateVars, heard, events>>
  BY DEF Edit
<1>2. editor' \in [TextInputs -> [Fields -> Texts]]
  <2>1. x \in Texts
    BY DEF Texts
  <2> QED
    BY <1>1, <2>1 DEF TextTypes, TextTypeOK
<1>3. SetRequest(t, f) \in Requests /\ [kind |-> "change"] \in Requests
  BY <1>2, SetRequests DEF Requests
<1>4. <<SetRequest(t, f), [kind |-> "change"]>> \in Seq(Requests)
  BY <1>3
<1>5. requests' \in [TextInputs -> Seq(Requests)]
  BY <1>1, <1>4, SendTypes
<1>6. InputLists'
  BY <1>1 DEF TextTypes, InputLists
<1> QED
  BY <1>1, <1>2, <1>5, <1>6 DEF TextTypes, TextTypeOK, textFocusVars, stateVars

\* Every step keeps the types.
LEMMA TextTypesNext == TextTypes /\ [TextNext]_textVars => TextTypes'
<1> SUFFICES ASSUME TextTypes, [TextNext]_textVars
             PROVE  TextTypes'
  OBVIOUS
<1>1. ASSUME UNCHANGED textVars
      PROVE  TextTypes'
  BY <1>1
  DEF textVars, textFocusVars, stateVars, textClientVars, TextTypes, TextTypeOK, InputLists
<1>2. ASSUME NEW s \in TextSurfaces,
             CreateTextSurface(s) \/ DestroyTextSurface(s) \/ SetTextFocus(s)
      PROVE  TextTypes'
  BY <1>2, SurfaceTypes, TextFocusTypes
<1>3. ASSUME NEW t \in TextInputs, BindInput(t) \/ DestroyInput(t) \/ Receive(t) \/ Hear(t)
      PROVE  TextTypes'
  BY <1>3, BindInputTypes, DestroyInputTypes, ReceiveTypes, HearTypes
<1>4. ASSUME NEW t \in TextInputs, Disable(t)
      PROVE  TextTypes'
  BY <1>4
  DEF Disable, TextTypes, TextTypeOK, InputLists, stateVars, textClientVars, textFocusVars
<1>5. ASSUME NEW t \in TextInputs, NEW s \in TextSurfaces, Enable(t, s)
      PROVE  TextTypes'
  BY <1>5, SurfaceTypes
<1>6. ASSUME NEW t \in TextInputs, NEW x \in TextsOf[t].text, SendInputMethodEvent(x)
      PROVE  TextTypes'
  BY <1>6, InputMethodTypes
<1>7. ASSUME NEW t \in TextInputs, NEW f \in Fields, NEW x \in TextsOf[t][f], Edit(t, f, x)
      PROVE  TextTypes'
  BY <1>7, EditTypes
<1> QED
  BY <1>1, <1>2, <1>3, <1>4, <1>5, <1>6, <1>7 DEF TextNext

\* What a text input or the compositor refers to is there, or was, whatever
\* clients send and however long it takes.
THEOREM TextTypeCorrect == TextSpec => []TextTypeOK
<1>1. TextTypes => TextTypeOK
  BY DEF TextTypes
<1> QED
  BY TextTypesInit, TextTypesNext, <1>1, PTL DEF TextSpec

\* Each client has at most one text input.
OneTextInput == \A t, u \in TextInputs : OwnerOf[t] = OwnerOf[u] => t = u

LEMMA PlacedInit == TextInit => TextPlaced
BY NoneIsNoInput
DEF TextInit, TextPlaced, InputsFirst, FocusIsOfClient, FocusIsHeld, EnabledExist,
    EnabledAgrees, ListenerIsOnce

\* What the focus and the enabled surfaces rest on does not change.
LEMMA PlacedUntouched ==
  ASSUME TextPlaced,
         UNCHANGED <<textLive, textInputs, textFocusVars, enabledSurfaces, controls>>
  PROVE  TextPlaced'
<1> USE DEF textFocusVars
<1>1. InputsFirst' /\ ListenerIsOnce'
  BY DEF TextPlaced, InputsFirst, BoundInputs, ListenerIsOnce
<1>2. FocusIsOfClient' /\ FocusIsHeld'
  BY DEF TextPlaced, FocusIsOfClient, FocusIsHeld
<1>3. EnabledExist' /\ EnabledAgrees'
  BY DEF TextPlaced, EnabledExist, EnabledAgrees
<1> QED
  BY <1>1, <1>2, <1>3 DEF TextPlaced

LEMMA CreateTextSurfaceStep ==
  ASSUME OrderlyClients, TextTypes, TextPlaced, NEW s \in TextSurfaces, CreateTextSurface(s)
  PROVE  TextPlaced'
<1>1. /\ s \notin textLive /\ textLive' = textLive \cup {s}
      /\ \A t \in TextInputs : OwnerOf[t] = OwnerOf[s] => t \in BoundInputs
      /\ UNCHANGED <<textInputs, textFocusVars, enabledSurfaces, controls>>
  BY DEF CreateTextSurface
<1>2. InputsFirst' /\ ListenerIsOnce'
  BY <1>1 DEF TextPlaced, InputsFirst, BoundInputs, ListenerIsOnce, textFocusVars
<1>3. FocusIsOfClient' /\ FocusIsHeld'
  BY <1>1 DEF TextPlaced, FocusIsOfClient, FocusIsHeld, textFocusVars
<1>4. EnabledExist'
  BY <1>1 DEF TextPlaced, EnabledExist
<1>5. s \notin controls /\ \A t \in TextInputs : enabledSurfaces[t] # s
  BY <1>1, NoneIsNoInput DEF TextPlaced, EnabledExist
<1>6. EnabledAgrees'
  BY <1>1, <1>5 DEF TextPlaced, EnabledAgrees
<1> QED
  BY <1>2, <1>3, <1>4, <1>6 DEF TextPlaced

\* The listener hears of the end of the surface that has the focus.
LEMMA DestroyTextSurfaceStep ==
  ASSUME OrderlyClients, TextTypes, TextPlaced, NEW s \in TextSurfaces, DestroyTextSurface(s)
  PROVE  TextPlaced'
<1>1. /\ textLive' = textLive \ {s} /\ controls' = controls \ {s}
      /\ \A t \in TextInputs : enabledSurfaces[t] # s
      /\ textTold' = [t \in TextInputs |-> textTold[t] \ {s}]
      /\ UNCHANGED <<textInputs, textMisused, enabledSurfaces>>
  BY DEF DestroyTextSurface
<1>2. InputsFirst' /\ ListenerIsOnce'
  BY <1>1 DEF TextPlaced, InputsFirst, BoundInputs, ListenerIsOnce
<1>3. EnabledExist' /\ EnabledAgrees'
  BY <1>1 DEF TextPlaced, EnabledExist, EnabledAgrees
<1>4. FocusIsOfClient' /\ FocusIsHeld'
  <2>1. CASE textListening = s
    <3>1. textFocus' = None /\ textResource' = None /\ textListening' = None
      BY <2>1 DEF DestroyTextSurface
    <3>2. textResource # None /\ textFocus = s
      BY <2>1, NoneIsNoInput DEF TextPlaced, FocusIsHeld
    <3>3. \A t \in TextInputs : textTold'[t] = {}
      BY <1>1, <3>2 DEF TextPlaced, FocusIsHeld
    <3>4. FocusIsOfClient'
      BY <3>1 DEF FocusIsOfClient
    <3>5. FocusIsHeld'
      BY <3>1, <3>3, NoneIsNoInput DEF FocusIsHeld
    <3> QED
      BY <3>4, <3>5
  <2>2. CASE textListening # s
    <3>1. UNCHANGED <<textFocus, textResource, textListening>>
      BY <2>2 DEF DestroyTextSurface
    <3>2. textResource # None => textFocus # s
      BY <2>2 DEF TextPlaced, FocusIsHeld
    <3>3. FocusIsOfClient'
      BY <1>1, <3>1, <3>2 DEF TextPlaced, FocusIsOfClient
    <3>4. \A t \in TextInputs : textTold'[t] = textTold[t]
      BY <1>1, <3>2, NoneIsNoInput DEF TextPlaced, FocusIsHeld
    <3>5. FocusIsHeld'
      BY <3>1, <3>4 DEF TextPlaced, FocusIsHeld
    <3> QED
      BY <3>3, <3>5
  <2> QED
    BY <2>1, <2>2
<1> QED
  BY <1>2, <1>3, <1>4 DEF TextPlaced

LEMMA BindInputStep ==
  ASSUME TextTypes, TextPlaced, NEW t \in TextInputs, BindInput(t)
  PROVE  TextPlaced'
<1>1. /\ BoundInputs \subseteq BoundInputs'
      /\ UNCHANGED <<textLive, textFocusVars, enabledSurfaces, controls>>
  BY BindInputTypes DEF BindInput
<1>2. InputsFirst' /\ ListenerIsOnce'
  BY <1>1 DEF TextPlaced, InputsFirst, ListenerIsOnce, textFocusVars
<1>3. FocusIsOfClient' /\ FocusIsHeld'
  BY <1>1 DEF TextPlaced, FocusIsOfClient, FocusIsHeld, textFocusVars
<1>4. EnabledExist' /\ EnabledAgrees'
  BY <1>1 DEF TextPlaced, EnabledExist, EnabledAgrees
<1> QED
  BY <1>2, <1>3, <1>4 DEF TextPlaced

\* The text input with the focus stays while its client has a surface.
LEMMA DestroyInputStep ==
  ASSUME OrderlyClients, TextTypes, TextPlaced, NEW t \in TextInputs, DestroyInput(t)
  PROVE  TextPlaced' /\ t # textResource
<1>1. /\ \A s \in textLive : OwnerOf[s] # OwnerOf[t]
      /\ textResource' = IF textResource = t THEN None ELSE textResource
      /\ textTold' = [textTold EXCEPT ![t] = {}]
      /\ UNCHANGED <<textLive, textFocus, textListening, textMisused, enabledSurfaces, controls>>
  BY DEF DestroyInput
<1>2. t # textResource /\ textResource' = textResource
  BY <1>1, NoneIsNoInput DEF TextPlaced, FocusIsOfClient
<1>3. BoundInputs \ {t} \subseteq BoundInputs'
  BY DestroyInputTypes
<1>4. InputsFirst' /\ ListenerIsOnce'
  BY <1>1, <1>3 DEF TextPlaced, InputsFirst, ListenerIsOnce
<1>5. FocusIsOfClient'
  BY <1>1, <1>2 DEF TextPlaced, FocusIsOfClient
<1>6. FocusIsHeld'
  BY <1>1, <1>2 DEF TextPlaced, FocusIsHeld, TextTypes, TextTypeOK
<1>7. EnabledExist' /\ EnabledAgrees'
  BY <1>1 DEF TextPlaced, EnabledExist, EnabledAgrees
<1> QED
  BY <1>2, <1>4, <1>5, <1>6, <1>7 DEF TextPlaced

\* Who gets the focus has a text input from before its first surface, or never.
LEMMA FocusFindsResource ==
  ASSUME TextTypes, TextPlaced, NEW s \in textLive
  PROVE  /\ ResourceOf(s) # None =>
              ResourceOf(s) \in TextInputs /\ OwnerOf[ResourceOf(s)] = OwnerOf[s]
         /\ ResourceOf(s) = None => \A t \in TextInputs : OwnerOf[t] # OwnerOf[s]
<1>1. s \in TextSurfaces
  BY DEF TextTypes, TextTypeOK
<1> QED
  BY <1>1, ResourceIsOfClient DEF TextPlaced, InputsFirst

\* The old focus is left, the new one entered, and the listener follows: it is
\* never in two lists.
LEMMA SetTextFocusStep ==
  ASSUME OneTextInput, TextTypes, TextPlaced, NEW s \in TextSurfaces, SetTextFocus(s)
  PROVE  TextPlaced'
<1> DEFINE r == ResourceOf(s)
<1>1. /\ s \in textLive /\ textFocus' = s /\ textResource' = r
      /\ textListening' = IF Enters(s) THEN s ELSE IF Leaves(s) THEN None ELSE textListening
      /\ textMisused' = (Enters(s) /\ ~Leaves(s) /\ textListening # None)
      /\ textTold' = TextTold(s)
      /\ UNCHANGED <<textLive, textInputs, enabledSurfaces, controls>>
  BY DEF SetTextFocus
<1>2. /\ r # None => r \in TextInputs /\ OwnerOf[r] = OwnerOf[s]
      /\ r = None => \A t \in TextInputs : OwnerOf[t] # OwnerOf[s]
  BY <1>1, FocusFindsResource
<1>3. /\ Leaves(s) <=> textResource # None /\ textFocus # s
      /\ Enters(s) <=> r # None /\ (textFocus # s \/ textResource # r)
  BY DEF Leaves, Enters
<1>4. \A t \in TextInputs :
        textTold'[t] = (textTold[t] \ (IF Leaves(s) /\ t = textResource THEN {textFocus} ELSE {}))
                       \cup (IF Enters(s) /\ t = r THEN {s} ELSE {})
  BY <1>1 DEF TextTold
<1>5. /\ \A t \in TextInputs : textTold[t] = IF t = textResource THEN {textFocus} ELSE {}
      /\ textListening = IF textResource = None THEN None ELSE textFocus
      /\ textResource # None =>
           textResource \in TextInputs /\ OwnerOf[textResource] = OwnerOf[textFocus]
  BY DEF TextPlaced, FocusIsHeld, FocusIsOfClient
<1>6. InputsFirst'
  BY <1>1 DEF TextPlaced, InputsFirst, BoundInputs
<1>7. EnabledExist' /\ EnabledAgrees'
  BY <1>1 DEF TextPlaced, EnabledExist, EnabledAgrees
<1> HIDE DEF r
<1>8. FocusIsOfClient'
  BY <1>1, <1>2 DEF FocusIsOfClient
<1>9. textResource # None /\ textFocus = s => r = textResource
  BY <1>2, <1>5 DEF OneTextInput
<1>10. /\ \A t \in TextInputs : textTold'[t] = IF t = r THEN {s} ELSE {}
       /\ textListening' = IF r = None THEN None ELSE s
       /\ ~textMisused'
  <2>1. CASE textResource # None /\ textFocus = s
    <3>1. ~Leaves(s) /\ ~Enters(s)
      BY <1>3, <1>9, <2>1
    <3> QED
      BY <1>1, <1>4, <1>5, <1>9, <2>1, <3>1
  <2>2. CASE textResource # None /\ textFocus # s
    <3>1. Leaves(s) /\ (Enters(s) <=> r # None)
      BY <1>3, <2>2
    <3> QED
      BY <1>1, <1>4, <1>5, <2>2, <3>1, NoneIsNoInput
  <2>3. CASE textResource = None
    <3>1. ~Leaves(s) /\ (Enters(s) <=> r # None)
      BY <1>3, <2>3
    <3> QED
      BY <1>1, <1>4, <1>5, <2>3, <3>1, NoneIsNoInput
  <2> QED
    BY <2>1, <2>2, <2>3
<1>11. FocusIsHeld' /\ ListenerIsOnce'
  BY <1>1, <1>10 DEF FocusIsHeld, ListenerIsOnce
<1> QED
  BY <1>6, <1>7, <1>8, <1>11 DEF TextPlaced

\* A surface is enabled by the text input of its client, which is the only one.
LEMMA EnableStep ==
  ASSUME OrderlyClients, OneTextInput, TextTypes, TextPlaced, NEW t \in TextInputs,
         Disable(t) \/ \E s \in TextSurfaces : Enable(t, s)
  PROVE  TextPlaced'
<1>1. UNCHANGED <<textLive, textInputs, textFocusVars>>
  BY DEF Disable, Enable
<1>2. InputsFirst' /\ ListenerIsOnce'
  BY <1>1 DEF TextPlaced, InputsFirst, BoundInputs, ListenerIsOnce, textFocusVars
<1>3. FocusIsOfClient' /\ FocusIsHeld'
  BY <1>1 DEF TextPlaced, FocusIsOfClient, FocusIsHeld, textFocusVars
<1>4. enabledSurfaces \in [TextInputs -> TextSurfaces \cup {None}]
  BY DEF TextTypes, TextTypeOK
<1>5. ASSUME NEW s \in TextSurfaces, Enable(t, s)
      PROVE  EnabledExist' /\ EnabledAgrees'
  <2>1. /\ s \in textLive /\ OwnerOf[s] = OwnerOf[t] /\ enabledSurfaces[t] = None
        /\ enabledSurfaces' = [enabledSurfaces EXCEPT ![t] = s]
        /\ controls' = controls \cup {s}
    BY <1>5 DEF Enable
  <2>2. EnabledExist'
    BY <1>1, <1>4, <2>1 DEF TextPlaced, EnabledExist
  <2>3. \A u \in textLive : u # None
    BY NoneIsNoInput DEF TextTypes, TextTypeOK
  <2>4. \A u \in textLive :
          (\E w \in TextInputs : enabledSurfaces'[w] = u)
            <=> u = s \/ \E w \in TextInputs : enabledSurfaces[w] = u
    BY <1>4, <2>1, <2>3
  <2>5. EnabledAgrees'
    BY <1>1, <2>1, <2>4 DEF TextPlaced, EnabledAgrees
  <2> QED
    BY <2>2, <2>5
<1>6. ASSUME Disable(t)
      PROVE  EnabledExist' /\ EnabledAgrees'
  <2> DEFINE s == enabledSurfaces[t]
  <2>1. /\ s # None /\ enabledSurfaces' = [enabledSurfaces EXCEPT ![t] = None]
        /\ controls' = controls \ {s}
    BY <1>6 DEF Disable
  <2>2. EnabledExist'
    BY <1>1, <1>4, <2>1 DEF TextPlaced, EnabledExist
  <2>3. \A w \in TextInputs : enabledSurfaces[w] = s => w = t
    BY <2>1 DEF TextPlaced, EnabledExist, OneTextInput
  <2>4. \A u \in textLive : u # None
    BY NoneIsNoInput DEF TextTypes, TextTypeOK
  <2>5. \A u \in textLive :
          (\E w \in TextInputs : enabledSurfaces'[w] = u)
            <=> u # s /\ \E w \in TextInputs : enabledSurfaces[w] = u
    BY <1>4, <2>1, <2>3, <2>4
  <2>6. EnabledAgrees'
    BY <1>1, <2>1, <2>5 DEF TextPlaced, EnabledAgrees
  <2> QED
    BY <2>2, <2>6
<1> QED
  BY <1>2, <1>3, <1>5, <1>6 DEF TextPlaced

\* Every step keeps the invariant of the focus.
LEMMA TextPlacedNext ==
  ASSUME OrderlyClients, OneTextInput
  PROVE  TextTypes /\ TextPlaced /\ [TextNext]_textVars => TextPlaced'
<1> SUFFICES ASSUME TextTypes, TextPlaced, [TextNext]_textVars
             PROVE  TextPlaced'
  OBVIOUS
<1>1. CASE UNCHANGED textVars
  BY <1>1, PlacedUntouched DEF textVars
<1>2. ASSUME NEW s \in TextSurfaces,
             CreateTextSurface(s) \/ DestroyTextSurface(s) \/ SetTextFocus(s)
      PROVE  TextPlaced'
  BY <1>2, CreateTextSurfaceStep, DestroyTextSurfaceStep, SetTextFocusStep
<1>3. ASSUME NEW t \in TextInputs, BindInput(t) \/ DestroyInput(t)
      PROVE  TextPlaced'
  BY <1>3, BindInputStep, DestroyInputStep
<1>4. ASSUME NEW t \in TextInputs, Disable(t) \/ \E s \in TextSurfaces : Enable(t, s)
      PROVE  TextPlaced'
  BY <1>4, EnableStep
<1>5. ASSUME NEW t \in TextInputs,
             \/ Receive(t) \/ Hear(t)
             \/ \E x \in TextsOf[t].text : SendInputMethodEvent(x)
             \/ \E f \in Fields : \E x \in TextsOf[t][f] : Edit(t, f, x)
      PROVE  TextPlaced'
  <2>1. UNCHANGED <<textLive, textInputs, textFocusVars, enabledSurfaces, controls>>
    BY <1>5 DEF Receive, Hear, SendInputMethodEvent, Edit
  <2> QED
    BY <2>1, PlacedUntouched
<1> QED
  BY <1>1, <1>2, <1>3, <1>4, <1>5 DEF TextNext

\* With orderly clients, each with a text input at most, whenever the focus moves
\* and surfaces appear and disappear: exactly the text input of the client with
\* the focus was told to enter, and not to leave, what has the focus; the listener
\* for its end is there and in no second list; and the control of a surface is
\* enabled while a text input has enabled the surface.
THEOREM TextFocusIsAlwaysTold ==
  ASSUME OrderlyClients, OneTextInput
  PROVE  TextSpec => []TextFocusIsTold
<1>1. TextTypes /\ TextPlaced => TextFocusIsTold
  <2> SUFFICES ASSUME TextTypes, TextPlaced PROVE TextFocusIsTold
    OBVIOUS
  <2>1. ASSUME textFocus \in textLive
        PROVE  textResource = ResourceOf(textFocus)
    <3>1. /\ ResourceOf(textFocus) # None =>
               /\ ResourceOf(textFocus) \in TextInputs
               /\ OwnerOf[ResourceOf(textFocus)] = OwnerOf[textFocus]
          /\ ResourceOf(textFocus) = None =>
               \A t \in TextInputs : OwnerOf[t] # OwnerOf[textFocus]
      BY <2>1, FocusFindsResource
    <3>2. textFocus # None
      BY <2>1, NoneIsNoInput DEF TextTypes, TextTypeOK
    <3> QED
      BY <3>1, <3>2 DEF TextPlaced, FocusIsOfClient, OneTextInput
  <2> QED
    BY <2>1 DEF TextPlaced, FocusIsHeld, TextFocusIsTold, FocusedWasTold
<1>2. TextTypes /\ TextPlaced /\ [TextNext]_textVars => TextTypes' /\ TextPlaced'
  BY TextTypesNext, TextPlacedNext
<1> QED
  BY TextTypesInit, PlacedInit, <1>1, <1>2, PTL DEF TextSpec

LEMMA OwnTextsInit == TextInit => OwnTexts /\ StateIsOfFocus
<1> SUFFICES ASSUME TextInit PROVE OwnTexts /\ StateIsOfFocus
  OBVIOUS
<1>1. \A t \in TextInputs, f \in Fields : (CHOOSE x \in TextsOf[t][f] : TRUE) \in TextsOf[t][f]
  BY TextsExist
<1> QED
  BY <1>1 DEF TextInit, OwnTexts, StateIsOfFocus

LEMMA SentIsOwn ==
  ASSUME TextTypes, OwnTexts, NEW s \in TextSurfaces, NEW t \in TextInputs
  PROVE  TextSent(s)[t] \in Seq(EventsOf(t))
<1> DEFINE leave == IF Leaves(s) /\ t = textResource
                    THEN <<[kind |-> "leave", of |-> textFocus]>> ELSE <<>>
           enter == IF Enters(s) /\ t = ResourceOf(s)
                    THEN <<[kind |-> "enter", of |-> s]>> ELSE <<>>
<1>1. TextSent(s)[t] = events[t] \o leave \o enter /\ events[t] \in Seq(EventsOf(t))
  BY DEF TextSent, OwnTexts
<1>2. [kind |-> "leave", of |-> textFocus] \in EventsOf(t)
  BY DEF EventsOf, TextEvents, TextTypes, TextTypeOK
<1>3. [kind |-> "enter", of |-> s] \in EventsOf(t)
  BY DEF EventsOf, TextEvents
<1>4. leave \in Seq(EventsOf(t)) /\ enter \in Seq(EventsOf(t))
  BY <1>2, <1>3
<1> HIDE DEF leave, enter
<1> QED
  BY <1>1, <1>4

\* Each client sends texts of its editor, and gets texts for it.
LEMMA OwnTextsNext == TextTypes /\ OwnTexts /\ [TextNext]_textVars => OwnTexts'
<1> SUFFICES ASSUME TextTypes, OwnTexts, [TextNext]_textVars
             PROVE  OwnTexts'
  OBVIOUS
<1>0. /\ editor \in [TextInputs -> [Fields -> Texts]]
      /\ requests \in [TextInputs -> Seq(Requests)]
      /\ events \in [TextInputs -> Seq(TextEvents)]
  BY DEF TextTypes, TextTypeOK
<1>1. ASSUME UNCHANGED <<editor, requests, events>>
      PROVE  OwnTexts'
  BY <1>1 DEF OwnTexts
<1>2. ASSUME NEW t \in TextInputs, DestroyInput(t)
      PROVE  OwnTexts'
  <2>1. events' = [events EXCEPT ![t] = <<>>] /\ UNCHANGED <<editor, requests>>
    BY <1>2 DEF DestroyInput
  <2>2. <<>> \in Seq(EventsOf(t))
    OBVIOUS
  <2> QED
    BY <1>0, <2>1, <2>2 DEF OwnTexts
<1>3. ASSUME NEW s \in TextSurfaces, SetTextFocus(s)
      PROVE  OwnTexts'
  <2>1. events' = TextSent(s) /\ UNCHANGED <<editor, requests>>
    BY <1>3 DEF SetTextFocus, textClientVars
  <2> QED
    BY <2>1, SentIsOwn DEF OwnTexts
<1>4. ASSUME NEW t \in TextInputs, Receive(t)
      PROVE  OwnTexts'
  <2>1. /\ requests[t] # <<>> /\ requests' = [requests EXCEPT ![t] = Tail(@)]
        /\ UNCHANGED <<editor, events>>
    BY <1>4 DEF Receive, textClientVars
  <2>2. Tail(requests[t]) \in Seq(RequestsOf(t))
    BY <2>1 DEF OwnTexts
  <2> QED
    BY <1>0, <2>1, <2>2 DEF OwnTexts
<1>5. ASSUME NEW x, SendInputMethodEvent(x)
      PROVE  OwnTexts'
  <2> DEFINE t == textResource
             e == [kind |-> "commit", of |-> x]
  <2>1. /\ t \in TextInputs /\ x \in TextsOf[t]["text"]
        /\ events' = [events EXCEPT ![t] = Append(@, e)]
        /\ UNCHANGED <<editor, requests>>
    BY <1>5 DEF SendInputMethodEvent, textClientVars, TextTypes, TextTypeOK
  <2>2. x \in Texts
    BY <2>1 DEF Texts, Fields
  <2>3. e \in EventsOf(t)
    BY <2>1, <2>2 DEF EventsOf, TextEvents
  <2> HIDE DEF t, e
  <2>4. Append(events[t], e) \in Seq(EventsOf(t))
    BY <2>1, <2>3 DEF OwnTexts
  <2> QED
    BY <1>0, <2>1, <2>4 DEF OwnTexts
<1>6. ASSUME NEW t \in TextInputs, NEW batch \in Seq(RequestsOf(t)),
             requests' = [requests EXCEPT ![t] = @ \o batch]
      PROVE  \A u \in TextInputs : requests'[u] \in Seq(RequestsOf(u))
  <2>1. requests[t] \o batch \in Seq(RequestsOf(t))
    BY DEF OwnTexts
  <2> QED
    BY <1>0, <1>6, <2>1 DEF OwnTexts
<1>7. ASSUME NEW t \in TextInputs, NEW f \in Fields,
             editor'[t][f] \in TextsOf[t][f], editor'[t][f] \in Texts
      PROVE  SetRequest(t, f) \in RequestsOf(t)
  BY <1>7 DEF SetRequest, RequestsOf, Requests
<1>8. ASSUME NEW t \in TextInputs
      PROVE  [kind |-> "full"] \in RequestsOf(t) /\ [kind |-> "change"] \in RequestsOf(t)
  BY DEF RequestsOf, Requests
<1>9. ASSUME NEW t \in TextInputs, Hear(t)
      PROVE  OwnTexts'
  <2>1. events[t] # <<>> /\ events' = [events EXCEPT ![t] = Tail(@)]
    BY <1>9, HearCases
  <2>2. Tail(events[t]) \in Seq(EventsOf(t)) /\ Head(events[t]) \in EventsOf(t)
    BY <2>1 DEF OwnTexts
  <2>3. \A u \in TextInputs : events'[u] \in Seq(EventsOf(u))
    BY <1>0, <2>1, <2>2 DEF OwnTexts
  <2>4. CASE HearsLeave(t) \/ HearsNothing(t)
    BY <2>3, <2>4 DEF HearsLeave, HearsNothing, OwnTexts
  <2>5. CASE HearsEnter(t)
    <3>1. editor' = editor
      BY <2>5 DEF HearsEnter
    <3>2. SetRequest(t, "text") \in RequestsOf(t) /\ SetRequest(t, "hints") \in RequestsOf(t)
      BY <1>0, <1>7, <3>1 DEF OwnTexts, Fields
    <3>3. <<SetRequest(t, "text"), SetRequest(t, "hints"), [kind |-> "full"]>>
            \in Seq(RequestsOf(t))
      BY <1>8, <3>2
    <3>4. \A u \in TextInputs : requests'[u] \in Seq(RequestsOf(u))
      BY <1>6, <2>5, <3>3 DEF HearsEnter, SendRequests
    <3> QED
      BY <2>3, <3>1, <3>4 DEF OwnTexts
  <2>6. CASE HearsCommit(t)
    <3> DEFINE x == Head(events[t]).of
    <3>1. editor' = [editor EXCEPT ![t].text = x] /\ x \in TextsOf[t]["text"] /\ x \in Texts
      BY <2>2, <2>6 DEF HearsCommit, EventsOf, TextEvents
    <3> HIDE DEF x
    <3>2. \A u \in TextInputs : \A f \in Fields : editor'[u][f] \in TextsOf[u][f]
      BY <1>0, <3>1 DEF OwnTexts, Fields
    <3>3. editor'[t]["text"] = x
      BY <1>0, <3>1 DEF Fields
    <3>4. SetRequest(t, "text") \in RequestsOf(t)
      BY <1>7, <3>1, <3>3 DEF Fields
    <3>5. <<SetRequest(t, "text"), [kind |-> "change"]>> \in Seq(RequestsOf(t))
      BY <1>8, <3>4
    <3>6. \A u \in TextInputs : requests'[u] \in Seq(RequestsOf(u))
      BY <1>6, <2>6, <3>5 DEF HearsCommit, SendRequests
    <3> QED
      BY <2>3, <3>2, <3>6 DEF OwnTexts
  <2> QED
    BY <1>9, <2>4, <2>5, <2>6, HearCases
<1>10. ASSUME NEW t \in TextInputs, NEW f \in Fields, NEW x \in TextsOf[t][f], Edit(t, f, x)
       PROVE  OwnTexts'
  <2>1. /\ editor' = [editor EXCEPT ![t][f] = x] /\ events' = events
        /\ requests' = [requests EXCEPT ![t] = @ \o <<SetRequest(t, f), [kind |-> "change"]>>]
    BY <1>10 DEF Edit, SendRequests
  <2>2. editor'[t][f] = x /\ x \in Texts
    <3>1. x \in Texts
      BY DEF Texts
    <3> QED
      BY <1>0, <2>1, <3>1
  <2>3. \A u \in TextInputs : \A g \in Fields : editor'[u][g] \in TextsOf[u][g]
    BY <1>0, <2>1 DEF OwnTexts
  <2>4. <<SetRequest(t, f), [kind |-> "change"]>> \in Seq(RequestsOf(t))
    BY <1>7, <1>8, <2>2
  <2>5. \A u \in TextInputs : requests'[u] \in Seq(RequestsOf(u))
    BY <1>6, <2>1, <2>4
  <2> QED
    BY <2>1, <2>3, <2>5 DEF OwnTexts
<1>11. ASSUME \/ \E s \in TextSurfaces : CreateTextSurface(s) \/ DestroyTextSurface(s)
              \/ \E t \in TextInputs : BindInput(t) \/ Disable(t)
              \/ \E t \in TextInputs, s \in TextSurfaces : Enable(t, s)
              \/ UNCHANGED textVars
       PROVE  UNCHANGED <<editor, requests, events>>
  BY <1>11
  DEF CreateTextSurface, DestroyTextSurface, BindInput, Disable, Enable, textVars,
      textClientVars
<1> QED
  BY <1>1, <1>2, <1>3, <1>4, <1>5, <1>9, <1>10, <1>11 DEF TextNext

\* The state of the compositor is reset when another editor gets the focus, and
\* takes only what comes from the one that has it.
LEMMA StateIsOfFocusNext ==
  ASSUME OrderlyClients, OneTextInput,
         TextTypes, TextPlaced, OwnTexts, StateIsOfFocus, [TextNext]_textVars
  PROVE  StateIsOfFocus'
<1>1. ASSUME UNCHANGED <<textResource, currentState, pendingState>>
      PROVE  StateIsOfFocus'
  BY <1>1 DEF StateIsOfFocus
<1>2. ASSUME NEW s \in TextSurfaces, DestroyTextSurface(s)
      PROVE  StateIsOfFocus'
  <2>1. (textResource' = None \/ textResource' = textResource) /\ UNCHANGED stateVars
    BY <1>2 DEF DestroyTextSurface
  <2> QED
    BY <2>1 DEF StateIsOfFocus, stateVars
<1>3. ASSUME NEW t \in TextInputs, DestroyInput(t)
      PROVE  StateIsOfFocus'
  <2>1. textResource' = textResource /\ UNCHANGED stateVars
    BY <1>3, DestroyInputStep DEF DestroyInput
  <2> QED
    BY <2>1 DEF StateIsOfFocus, stateVars
<1>4. ASSUME NEW s \in TextSurfaces, SetTextFocus(s)
      PROVE  StateIsOfFocus'
  <2>1. /\ textResource' = ResourceOf(s)
        /\ IF Enters(s) THEN currentState' = NewState /\ pendingState' = NewState
           ELSE UNCHANGED stateVars
    BY <1>4 DEF SetTextFocus
  <2>2. CASE Enters(s)
    BY <2>1, <2>2 DEF StateIsOfFocus, NewState, Default
  <2>3. CASE ~Enters(s)
    <3>1. textResource' = None \/ textResource' = textResource
      BY <2>1, <2>3 DEF Enters
    <3> QED
      BY <2>1, <2>3, <3>1 DEF StateIsOfFocus, stateVars
  <2> QED
    BY <2>2, <2>3
<1>5. ASSUME NEW x, SendInputMethodEvent(x)
      PROVE  StateIsOfFocus'
  <2>1. /\ textResource # None /\ x \in TextsOf[textResource]["text"]
        /\ currentState' = [currentState EXCEPT !.value["text"] = x]
        /\ pendingState' = pendingState /\ textResource' = textResource
    BY <1>5 DEF SendInputMethodEvent, textFocusVars
  <2>2. currentState \in [value : [Fields -> Texts \cup {None}], changed : SUBSET Fields]
    BY DEF TextTypes, TextTypeOK
  <2>3. \A f \in Fields :
          currentState'.value[f] = IF f = "text" THEN x ELSE currentState.value[f]
    BY <2>1, <2>2
  <2> QED
    BY <2>1, <2>3 DEF StateIsOfFocus
<1>6. ASSUME NEW t \in TextInputs, Receive(t)
      PROVE  StateIsOfFocus'
  <2>1. /\ requests[t] # <<>> /\ textResource' = textResource
        /\ IF t = textResource
           THEN SetField(Head(requests[t])) \/ UpdateState(Head(requests[t]))
           ELSE UNCHANGED stateVars
    BY <1>6 DEF Receive, textFocusVars
  <2>2. CASE t # textResource
    BY <2>1, <2>2 DEF StateIsOfFocus, stateVars
  <2>3. CASE t = textResource
    <3> DEFINE r == Head(requests[t])
    <3>1. r \in RequestsOf(t)
      BY <2>1 DEF OwnTexts
    <3>2. \A f \in Fields :
            {currentState.value[f], pendingState.value[f]} \subseteq TextsOf[t][f] \cup {None}
      BY <2>3, NoneIsNoInput DEF StateIsOfFocus
    <3>3. /\ currentState \in [value : [Fields -> Texts \cup {None}], changed : SUBSET Fields]
          /\ pendingState \in [value : [Fields -> Texts \cup {None}], changed : SUBSET Fields]
      BY DEF TextTypes, TextTypeOK
    <3> HIDE DEF r
    <3>4. CASE SetField(r)
      <4>1. r.field \in Fields /\ r.value \in TextsOf[t][r.field]
        BY <3>1, <3>4 DEF SetField, RequestsOf, Requests
      <4>2. /\ pendingState'.value = [pendingState.value EXCEPT ![r.field] = r.value]
            /\ currentState' = currentState
        BY <3>4 DEF SetField
      <4>3. \A f \in Fields : pendingState'.value[f] \in TextsOf[t][f] \cup {None}
        BY <3>2, <3>3, <4>1, <4>2
      <4> QED
        BY <2>1, <2>3, <3>2, <4>2, <4>3 DEF StateIsOfFocus
    <3>5. CASE UpdateState(r)
      <4>1. \A f \in Fields : pendingState'.value[f] = None
        BY <3>5 DEF UpdateState, NewState, Default
      <4>2. \A f \in Fields : currentState'.value[f] \in {currentState.value[f], pendingState.value[f]}
        BY <3>3, <3>5 DEF UpdateState
      <4> QED
        BY <2>1, <2>3, <3>2, <4>1, <4>2 DEF StateIsOfFocus
    <3> QED
      BY <2>1, <2>3, <3>4, <3>5 DEF r
  <2> QED
    BY <2>2, <2>3
<1>7. ASSUME \/ \E s \in TextSurfaces : CreateTextSurface(s)
             \/ \E t \in TextInputs : BindInput(t) \/ Disable(t) \/ Hear(t)
             \/ \E t \in TextInputs, s \in TextSurfaces : Enable(t, s)
             \/ \E t \in TextInputs : \E f \in Fields : \E x \in TextsOf[t][f] : Edit(t, f, x)
             \/ UNCHANGED textVars
      PROVE  UNCHANGED <<textResource, currentState, pendingState>>
  BY <1>7
  DEF CreateTextSurface, BindInput, Disable, Hear, Enable, Edit, textVars, textFocusVars,
      stateVars
<1> QED
  BY <1>1, <1>2, <1>3, <1>4, <1>5, <1>6, <1>7 DEF TextNext

\* The requests of a client, in their places.
LEMMA Joined ==
  ASSUME NEW S, NEW q \in Seq(S), NEW b \in Seq(S)
  PROVE  /\ q \o b \in Seq(S)
         /\ \A i \in DOMAIN q : i \in DOMAIN (q \o b) /\ (q \o b)[i] = q[i]
         /\ \A i \in DOMAIN b : Len(q) + i \in DOMAIN (q \o b) /\ (q \o b)[Len(q) + i] = b[i]
         /\ \A i \in DOMAIN (q \o b) : i \in DOMAIN q \/ \E j \in DOMAIN b : i = Len(q) + j
<1>1. /\ DOMAIN q = 1..Len(q) /\ DOMAIN b = 1..Len(b) /\ Len(q) \in Nat /\ Len(b) \in Nat
      /\ DOMAIN (q \o b) = 1..Len(q) + Len(b)
      /\ \A i \in 1..Len(q) : (q \o b)[i] = q[i]
      /\ \A i \in 1..Len(b) : (q \o b)[Len(q) + i] = b[i]
  OBVIOUS
<1>2. \A i \in 1..Len(q) + Len(b) : i \in 1..Len(q) \/ (i - Len(q) \in 1..Len(b) /\ i = Len(q) + (i - Len(q)))
  BY <1>1
<1>3. \A i \in DOMAIN (q \o b) : i \in DOMAIN q \/ \E j \in DOMAIN b : i = Len(q) + j
  BY <1>1, <1>2
<1>4. q \o b \in Seq(S)
  OBVIOUS
<1>5. \A i \in DOMAIN q : i \in DOMAIN (q \o b) /\ (q \o b)[i] = q[i]
  BY <1>1
<1>6. \A i \in DOMAIN b : Len(q) + i \in DOMAIN (q \o b) /\ (q \o b)[Len(q) + i] = b[i]
  BY <1>1
<1> QED
  BY <1>3, <1>4, <1>5, <1>6

\* A change of the field f is what it will be, and other fields are as before.
LEMMA ChangeArrives ==
  ASSUME NEW q \in Seq(Requests), NEW f, NEW x, NEW p, NEW v,
         NEW b \in Seq(Requests), DOMAIN b = 1..2, IsSet(b[1], f), b[1].value = x,
         b[2].kind = "change"
  PROVE  /\ Arrives(p, v, q \o b, f, x)
         /\ \A g, y : g # f /\ Arrives(p, v, q, g, y) => Arrives(p, v, q \o b, g, y)
         /\ \A g : IsWhole(p, q, g) => IsWhole(p, q \o b, g)
<1> DEFINE r == q \o b
           n == Len(q)
<1>2. n \in Nat /\ DOMAIN q = 1..n
  OBVIOUS
<1> HIDE DEF r, n
<1>1. /\ \A i \in DOMAIN q : i \in DOMAIN r /\ r[i] = q[i]
      /\ \A i \in DOMAIN b : n + i \in DOMAIN r /\ r[n + i] = b[i]
      /\ \A i \in DOMAIN r : i \in DOMAIN q \/ \E j \in DOMAIN b : i = n + j
  <2>1. /\ q \o b \in Seq(Requests)
        /\ \A i \in DOMAIN q : i \in DOMAIN (q \o b) /\ (q \o b)[i] = q[i]
        /\ \A i \in DOMAIN b : Len(q) + i \in DOMAIN (q \o b) /\ (q \o b)[Len(q) + i] = b[i]
        /\ \A i \in DOMAIN (q \o b) : i \in DOMAIN q \/ \E j \in DOMAIN b : i = Len(q) + j
    BY Joined, Zenon
  <2> QED
    BY <2>1 DEF r, n
<1>3. /\ n + 1 \in DOMAIN r /\ r[n + 1] = b[1]
      /\ n + 2 \in DOMAIN r /\ r[n + 2] = b[2]
      /\ \A i \in DOMAIN r : i \in DOMAIN q \/ i = n + 1 \/ i = n + 2
  BY <1>1
<1>4. ~IsSet(b[2], f) /\ \A g : ~IsSet(b[2], g)
  BY DEF IsSet
<1>5. Arrives(p, v, r, f, x)
  <2>1. \A j \in DOMAIN r : j > n + 1 => ~IsSet(r[j], f)
    BY <1>2, <1>3, <1>4
  <2> QED
    BY <1>3, <2>1 DEF Arrives
<1>6. ASSUME NEW g, NEW y, g # f, Arrives(p, v, q, g, y)
      PROVE  Arrives(p, v, r, g, y)
  <2>1. ~IsSet(b[1], g)
    BY <1>6 DEF IsSet
  <2>2. CASE \A i \in DOMAIN q : ~IsSet(q[i], g)
    <3>1. IF g \in p.changed THEN p.value[g] = y ELSE v[g] = y
      BY <1>6, <2>2 DEF Arrives
    <3>2. \A i \in DOMAIN r : ~IsSet(r[i], g)
      BY <1>1, <1>3, <1>4, <2>1, <2>2
    <3> QED
      BY <3>1, <3>2 DEF Arrives
  <2>3. CASE \E i \in DOMAIN q : IsSet(q[i], g)
    <3>1. PICK i \in DOMAIN q : /\ IsSet(q[i], g) /\ q[i].value = y
                                /\ \A j \in DOMAIN q : j > i => ~IsSet(q[j], g)
      BY <1>6, <2>3 DEF Arrives
    <3>2. \A j \in DOMAIN r : j > i => ~IsSet(r[j], g)
      BY <1>1, <1>3, <1>4, <2>1, <3>1
    <3> QED
      BY <1>1, <3>1, <3>2 DEF Arrives
  <2> QED
    BY <2>2, <2>3
<1>7. ASSUME NEW g, IsWhole(p, q, g)
      PROVE  IsWhole(p, r, g)
  <2> SUFFICES ASSUME NEW i \in DOMAIN r, r[i].kind = "full"
               PROVE  \/ \E j \in DOMAIN r : j > i /\ IsSet(r[j], g)
                      \/ \E j \in DOMAIN r : /\ j < i /\ IsSet(r[j], g)
                                             /\ \A k \in DOMAIN r : j < k /\ k < i => r[k].kind = "set"
                      \/ /\ g \in p.changed
                         /\ \A k \in DOMAIN r : k < i => r[k].kind = "set"
    BY DEF IsWhole
  <2>1. i \in DOMAIN q /\ q[i].kind = "full"
    BY <1>1, <1>3 DEF IsSet
  <2>2. \A k \in DOMAIN r : k < i => k \in DOMAIN q /\ r[k] = q[k]
    BY <1>1, <1>2, <1>3, <2>1
  <2>3. CASE \E j \in DOMAIN q : j > i /\ IsSet(q[j], g)
    BY <1>1, <2>3
  <2>4. CASE \E j \in DOMAIN q : /\ j < i /\ IsSet(q[j], g)
                                 /\ \A k \in DOMAIN q : j < k /\ k < i => q[k].kind = "set"
    BY <1>1, <2>2, <2>4
  <2>5. CASE g \in p.changed /\ \A k \in DOMAIN q : k < i => q[k].kind = "set"
    BY <2>2, <2>5
  <2> QED
    BY <1>7, <2>1, <2>3, <2>4, <2>5 DEF IsWhole
<1> QED
  BY <1>5, <1>6, <1>7 DEF r

\* A full update of both fields makes them what they are in it.
LEMMA FullArrives ==
  ASSUME NEW q \in Seq(Requests), NEW p, NEW v, NEW x, NEW y,
         NEW b \in Seq(Requests), DOMAIN b = 1..3,
         IsSet(b[1], "text"), b[1].value = x, IsSet(b[2], "hints"), b[2].value = y,
         b[3].kind = "full"
  PROVE  /\ Arrives(p, v, q \o b, "text", x) /\ Arrives(p, v, q \o b, "hints", y)
         /\ IsWhole(p, q \o b, "text") /\ IsWhole(p, q \o b, "hints")
<1> DEFINE r == q \o b
           n == Len(q)
<1>2. n \in Nat /\ DOMAIN q = 1..n
  OBVIOUS
<1> HIDE DEF r, n
<1>1. /\ \A i \in DOMAIN q : i \in DOMAIN r /\ r[i] = q[i]
      /\ \A i \in DOMAIN b : n + i \in DOMAIN r /\ r[n + i] = b[i]
      /\ \A i \in DOMAIN r : i \in DOMAIN q \/ \E j \in DOMAIN b : i = n + j
  <2>1. /\ q \o b \in Seq(Requests)
        /\ \A i \in DOMAIN q : i \in DOMAIN (q \o b) /\ (q \o b)[i] = q[i]
        /\ \A i \in DOMAIN b : Len(q) + i \in DOMAIN (q \o b) /\ (q \o b)[Len(q) + i] = b[i]
        /\ \A i \in DOMAIN (q \o b) : i \in DOMAIN q \/ \E j \in DOMAIN b : i = Len(q) + j
    BY Joined, Zenon
  <2> QED
    BY <2>1 DEF r, n
<1>3. /\ n + 1 \in DOMAIN r /\ r[n + 1] = b[1]
      /\ n + 2 \in DOMAIN r /\ r[n + 2] = b[2]
      /\ n + 3 \in DOMAIN r /\ r[n + 3] = b[3]
      /\ \A i \in DOMAIN r : i \in 1..n \/ i = n + 1 \/ i = n + 2 \/ i = n + 3
  BY <1>1, <1>2
<1>4. ~IsSet(b[2], "text") /\ ~IsSet(b[3], "text") /\ ~IsSet(b[3], "hints")
  BY DEF IsSet
<1>5. Arrives(p, v, r, "text", x)
  <2>1. \A j \in DOMAIN r : j > n + 1 => ~IsSet(r[j], "text")
    BY <1>2, <1>3, <1>4
  <2> QED
    BY <1>3, <2>1 DEF Arrives
<1>6. Arrives(p, v, r, "hints", y)
  <2>1. \A j \in DOMAIN r : j > n + 2 => ~IsSet(r[j], "hints")
    BY <1>2, <1>3, <1>4
  <2> QED
    BY <1>3, <2>1 DEF Arrives
<1>7. ASSUME NEW i \in DOMAIN r, r[i].kind = "full"
      PROVE  i \in 1..n \/ i = n + 3
  BY <1>3, <1>7 DEF IsSet
<1>8. IsSet(r[n + 1], "text") /\ IsSet(r[n + 2], "hints")
  BY <1>3
<1>9. IsWhole(p, r, "text")
  <2> SUFFICES ASSUME NEW i \in DOMAIN r, r[i].kind = "full"
               PROVE  \/ \E j \in DOMAIN r : j > i /\ IsSet(r[j], "text")
                      \/ \E j \in DOMAIN r : /\ j < i /\ IsSet(r[j], "text")
                                             /\ \A k \in DOMAIN r : j < k /\ k < i => r[k].kind = "set"
    BY DEF IsWhole
  <2>1. CASE i \in 1..n
    BY <1>2, <1>3, <1>8, <2>1
  <2>2. CASE i = n + 3
    <3>1. \A k \in DOMAIN r : n + 1 < k /\ k < i => r[k].kind = "set"
      BY <1>2, <1>3, <1>8, <2>2 DEF IsSet
    <3>2. n + 1 < i
      BY <1>2, <2>2
    <3> QED
      BY <1>3, <1>8, <3>1, <3>2
  <2> QED
    BY <1>7, <2>1, <2>2
<1>10. IsWhole(p, r, "hints")
  <2> SUFFICES ASSUME NEW i \in DOMAIN r, r[i].kind = "full"
               PROVE  \/ \E j \in DOMAIN r : j > i /\ IsSet(r[j], "hints")
                      \/ \E j \in DOMAIN r : /\ j < i /\ IsSet(r[j], "hints")
                                             /\ \A k \in DOMAIN r : j < k /\ k < i => r[k].kind = "set"
    BY DEF IsWhole
  <2>1. CASE i \in 1..n
    BY <1>2, <1>3, <1>8, <2>1
  <2>2. CASE i = n + 3
    <3>1. \A k \in DOMAIN r : n + 2 < k /\ k < i => r[k].kind = "set"
      BY <1>2, <1>3, <2>2
    <3>2. n + 2 < i
      BY <1>2, <2>2
    <3> QED
      BY <1>3, <1>8, <3>1, <3>2
  <2> QED
    BY <1>7, <2>1, <2>2
<1> QED
  BY <1>5, <1>6, <1>9, <1>10 DEF r

\* A queue without its head.
LEMMA WithoutHead ==
  ASSUME NEW S, NEW q \in Seq(S), q # <<>>
  PROVE  /\ Tail(q) \in Seq(S) /\ 1 \in DOMAIN q /\ Head(q) = q[1]
         /\ \A i \in DOMAIN Tail(q) : i >= 1 /\ i + 1 \in DOMAIN q /\ Tail(q)[i] = q[i + 1]
         /\ \A i \in DOMAIN q : i = 1 \/ (i - 1 \in DOMAIN Tail(q) /\ Tail(q)[i - 1] = q[i])
         /\ \A i \in DOMAIN q : i \in Nat /\ i >= 1
<1>1. /\ DOMAIN q = 1..Len(q) /\ Len(q) \in Nat /\ Len(q) >= 1
      /\ DOMAIN Tail(q) = 1..Len(q) - 1
      /\ \A i \in 1..Len(q) - 1 : Tail(q)[i] = q[i + 1]
      /\ Head(q) = q[1] /\ Tail(q) \in Seq(S)
  OBVIOUS
<1>2. \A i \in 1..Len(q) : i = 1 \/ (i - 1 \in 1..Len(q) - 1 /\ (i - 1) + 1 = i)
  BY <1>1
<1>3. \A i \in DOMAIN q : i = 1 \/ (i - 1 \in DOMAIN Tail(q) /\ Tail(q)[i - 1] = q[i])
  BY <1>1, <1>2
<1>4. \A i \in DOMAIN Tail(q) : i >= 1 /\ i + 1 \in DOMAIN q /\ Tail(q)[i] = q[i + 1]
  BY <1>1
<1> QED
  BY <1>1, <1>3, <1>4

\* The first request that is under way sets a field of the pending state.
LEMMA SetArrives ==
  ASSUME NEW q \in Seq(Requests), q # <<>>, NEW f, NEW x, NEW p, NEW w, NEW v,
         q[1].kind = "set",
         q[1].field = f => w.value[f] = q[1].value,
         q[1].field # f => w.value[f] = p.value[f],
         w.changed = p.changed \cup {q[1].field}
  PROVE  /\ Arrives(p, v, q, f, x) => Arrives(w, v, Tail(q), f, x)
         /\ IsWhole(p, q, f) => IsWhole(w, Tail(q), f)
<1> DEFINE r == Tail(q)
<1>1. /\ 1 \in DOMAIN q
      /\ \A i \in DOMAIN r : i >= 1 /\ i + 1 \in DOMAIN q /\ r[i] = q[i + 1]
      /\ \A i \in DOMAIN q : i = 1 \/ (i - 1 \in DOMAIN r /\ r[i - 1] = q[i])
      /\ \A i \in DOMAIN q : i \in Nat /\ i >= 1
      /\ \A i \in DOMAIN r : i \in Nat
  BY WithoutHead
<1> HIDE DEF r
<1>2. ASSUME Arrives(p, v, q, f, x)
      PROVE  Arrives(w, v, r, f, x)
  <2>1. CASE \E i \in DOMAIN r : IsSet(r[i], f)
    <3>1. PICK i \in DOMAIN q : /\ IsSet(q[i], f) /\ q[i].value = x
                                /\ \A j \in DOMAIN q : j > i => ~IsSet(q[j], f)
      BY <1>1, <1>2, <2>1 DEF Arrives
    <3>2. i # 1
      BY <1>1, <2>1, <3>1
    <3>3. i - 1 \in DOMAIN r /\ r[i - 1] = q[i]
      BY <1>1, <3>2
    <3>4. \A j \in DOMAIN r : j > i - 1 => ~IsSet(r[j], f)
      BY <1>1, <3>1
    <3> QED
      BY <3>1, <3>3, <3>4 DEF Arrives
  <2>2. CASE (\A i \in DOMAIN r : ~IsSet(r[i], f)) /\ q[1].field = f
    <3>1. IsSet(q[1], f)
      BY <2>2 DEF IsSet
    <3>2. \A i \in DOMAIN q : IsSet(q[i], f) => i = 1
      BY <1>1, <2>2
    <3>3. q[1].value = x
      BY <1>1, <1>2, <3>1, <3>2 DEF Arrives
    <3>4. f \in w.changed /\ w.value[f] = x
      BY <2>2, <3>3
    <3> QED
      BY <2>2, <3>4 DEF Arrives
  <2>3. CASE (\A i \in DOMAIN r : ~IsSet(r[i], f)) /\ q[1].field # f
    <3>1. \A i \in DOMAIN q : ~IsSet(q[i], f)
      BY <1>1, <2>3 DEF IsSet
    <3>2. IF f \in p.changed THEN p.value[f] = x ELSE v[f] = x
      BY <1>2, <3>1 DEF Arrives
    <3>3. IF f \in w.changed THEN w.value[f] = x ELSE v[f] = x
      BY <2>3, <3>2
    <3> QED
      BY <2>3, <3>3 DEF Arrives
  <2> QED
    BY <2>1, <2>2, <2>3
<1>3. ASSUME IsWhole(p, q, f)
      PROVE  IsWhole(w, r, f)
  <2> SUFFICES ASSUME NEW i \in DOMAIN r, r[i].kind = "full"
               PROVE  \/ \E j \in DOMAIN r : j > i /\ IsSet(r[j], f)
                      \/ \E j \in DOMAIN r : /\ j < i /\ IsSet(r[j], f)
                                             /\ \A k \in DOMAIN r : j < k /\ k < i => r[k].kind = "set"
                      \/ /\ f \in w.changed
                         /\ \A k \in DOMAIN r : k < i => r[k].kind = "set"
    BY DEF IsWhole
  <2>1. i + 1 \in DOMAIN q /\ q[i + 1].kind = "full" /\ i \in Nat
    BY <1>1
  <2>2. CASE \E j \in DOMAIN q : j > i + 1 /\ IsSet(q[j], f)
    <3>1. PICK j \in DOMAIN q : j > i + 1 /\ IsSet(q[j], f)
      BY <2>2
    <3>2. j - 1 \in DOMAIN r /\ r[j - 1] = q[j] /\ j - 1 > i
      BY <1>1, <2>1, <3>1
    <3> QED
      BY <3>1, <3>2
  <2>3. CASE \E j \in DOMAIN q : /\ j < i + 1 /\ IsSet(q[j], f)
                                 /\ \A k \in DOMAIN q : j < k /\ k < i + 1 => q[k].kind = "set"
    <3>1. PICK j \in DOMAIN q : /\ j < i + 1 /\ IsSet(q[j], f)
                                /\ \A k \in DOMAIN q : j < k /\ k < i + 1 => q[k].kind = "set"
      BY <2>3
    <3>2. CASE j = 1
      <4>1. f \in w.changed
        BY <3>1, <3>2 DEF IsSet
      <4>2. \A k \in DOMAIN r : k < i => r[k].kind = "set"
        BY <1>1, <2>1, <3>1, <3>2
      <4> QED
        BY <4>1, <4>2
    <3>3. CASE j # 1
      <4>1. j - 1 \in DOMAIN r /\ r[j - 1] = q[j] /\ j - 1 < i
        BY <1>1, <2>1, <3>1, <3>3
      <4>2. ASSUME NEW k \in DOMAIN r, j - 1 < k, k < i
            PROVE  r[k].kind = "set"
        <5>1. k + 1 \in DOMAIN q /\ r[k] = q[k + 1] /\ k \in Nat /\ j \in Nat
          BY <1>1
        <5>2. j < k + 1 /\ k + 1 < i + 1
          BY <2>1, <4>2, <5>1
        <5> QED
          BY <3>1, <5>1, <5>2
      <4> QED
        BY <3>1, <4>1, <4>2
    <3> QED
      BY <3>2, <3>3
  <2>4. CASE f \in p.changed /\ \A k \in DOMAIN q : k < i + 1 => q[k].kind = "set"
    <3>1. \A k \in DOMAIN r : k < i => r[k].kind = "set"
      BY <1>1, <2>1, <2>4
    <3> QED
      BY <2>4, <3>1
  <2> QED
    BY <1>3, <2>1, <2>2, <2>3, <2>4 DEF IsWhole
<1> QED
  BY <1>2, <1>3 DEF r

\* Or it makes the pending state take effect, of which a full update takes all.
LEMMA UpdateArrives ==
  ASSUME NEW q \in Seq(Requests), q # <<>>, NEW f \in Fields, NEW x, NEW p, NEW v, NEW u,
         q[1].kind # "set",
         IF q[1].kind = "full" \/ f \in p.changed THEN u[f] = p.value[f] ELSE u[f] = v[f],
         IsWhole(p, q, f)
  PROVE  /\ Arrives(p, v, q, f, x) => Arrives(NewState, u, Tail(q), f, x)
         /\ IsWhole(NewState, Tail(q), f)
<1> DEFINE r == Tail(q)
<1>1. /\ 1 \in DOMAIN q
      /\ \A i \in DOMAIN r : i >= 1 /\ i + 1 \in DOMAIN q /\ r[i] = q[i + 1]
      /\ \A i \in DOMAIN q : i = 1 \/ (i - 1 \in DOMAIN r /\ r[i - 1] = q[i])
      /\ \A i \in DOMAIN q : i \in Nat /\ i >= 1
      /\ \A i \in DOMAIN r : i \in Nat
  BY WithoutHead
<1> HIDE DEF r
<1>2. ~IsSet(q[1], f) /\ f \notin NewState.changed
  BY DEF IsSet, NewState
<1>3. ASSUME Arrives(p, v, q, f, x)
      PROVE  Arrives(NewState, u, r, f, x)
  <2>1. CASE \E i \in DOMAIN q : IsSet(q[i], f)
    <3>1. PICK i \in DOMAIN q : /\ IsSet(q[i], f) /\ q[i].value = x
                                /\ \A j \in DOMAIN q : j > i => ~IsSet(q[j], f)
      BY <1>3, <2>1 DEF Arrives
    <3>2. i - 1 \in DOMAIN r /\ r[i - 1] = q[i]
      BY <1>1, <1>2, <3>1
    <3>3. \A j \in DOMAIN r : j > i - 1 => ~IsSet(r[j], f)
      BY <1>1, <3>1
    <3> QED
      BY <3>1, <3>2, <3>3 DEF Arrives
  <2>2. CASE \A i \in DOMAIN q : ~IsSet(q[i], f)
    <3>1. IF f \in p.changed THEN p.value[f] = x ELSE v[f] = x
      BY <1>3, <2>2 DEF Arrives
    <3>2. q[1].kind = "full" => f \in p.changed
      BY <1>1, <2>2 DEF IsWhole
    <3>3. u[f] = x
      BY <3>1, <3>2
    <3>4. \A i \in DOMAIN r : ~IsSet(r[i], f)
      BY <1>1, <2>2
    <3> QED
      BY <1>2, <3>3, <3>4 DEF Arrives
  <2> QED
    BY <2>1, <2>2
<1>4. IsWhole(NewState, r, f)
  <2> SUFFICES ASSUME NEW i \in DOMAIN r, r[i].kind = "full"
               PROVE  \/ \E j \in DOMAIN r : j > i /\ IsSet(r[j], f)
                      \/ \E j \in DOMAIN r : /\ j < i /\ IsSet(r[j], f)
                                             /\ \A k \in DOMAIN r : j < k /\ k < i => r[k].kind = "set"
    BY DEF IsWhole
  <2>1. i + 1 \in DOMAIN q /\ q[i + 1].kind = "full" /\ i \in Nat /\ 1 < i + 1
    BY <1>1
  <2>2. CASE \E j \in DOMAIN q : j > i + 1 /\ IsSet(q[j], f)
    <3>1. PICK j \in DOMAIN q : j > i + 1 /\ IsSet(q[j], f)
      BY <2>2
    <3>2. j - 1 \in DOMAIN r /\ r[j - 1] = q[j] /\ j - 1 > i
      BY <1>1, <2>1, <3>1
    <3> QED
      BY <3>1, <3>2
  <2>3. CASE \E j \in DOMAIN q : /\ j < i + 1 /\ IsSet(q[j], f)
                                 /\ \A k \in DOMAIN q : j < k /\ k < i + 1 => q[k].kind = "set"
    <3>1. PICK j \in DOMAIN q : /\ j < i + 1 /\ IsSet(q[j], f)
                                /\ \A k \in DOMAIN q : j < k /\ k < i + 1 => q[k].kind = "set"
      BY <2>3
    <3>2. j # 1
      BY <1>2, <3>1
    <3>3. j - 1 \in DOMAIN r /\ r[j - 1] = q[j] /\ j - 1 < i
      BY <1>1, <2>1, <3>1, <3>2
    <3>4. ASSUME NEW k \in DOMAIN r, j - 1 < k, k < i
          PROVE  r[k].kind = "set"
      <4>1. k + 1 \in DOMAIN q /\ r[k] = q[k + 1] /\ k \in Nat /\ j \in Nat
        BY <1>1
      <4>2. j < k + 1 /\ k + 1 < i + 1
        BY <2>1, <3>4, <4>1
      <4> QED
        BY <3>1, <4>1, <4>2
    <3> QED
      BY <3>1, <3>3, <3>4
  <2>4. ~ \A k \in DOMAIN q : k < i + 1 => q[k].kind = "set"
    BY <1>1, <2>1
  <2> QED
    BY <2>1, <2>2, <2>3, <2>4 DEF IsWhole
<1> QED
  BY <1>3, <1>4 DEF r

\* What Hear and Edit send ends with an update.
Answers(t, batch) ==
  /\ batch \in Seq(Requests) /\ batch # <<>> /\ batch[Len(batch)].kind # "set"
  /\ requests' = [requests EXCEPT ![t] = @ \o batch]

LEMMA ClientAnswers ==
  ASSUME TextTypes, NEW t \in TextInputs,
         Hear(t) \/ \E f \in Fields : \E x \in TextsOf[t][f] : Edit(t, f, x)
  PROVE  requests' = requests \/ \E batch : Answers(t, batch)
<1>1. editor' \in [TextInputs -> [Fields -> Texts]]
  BY HearTypes, EditTypes DEF TextTypes, TextTypeOK
<1>2. \A f \in Fields : SetRequest(t, f) \in Requests
  BY <1>1, SetRequests
<1>3. [kind |-> "full"] \in Requests /\ [kind |-> "change"] \in Requests
  BY DEF Requests
<1>4. ASSUME NEW f \in Fields, SendRequests(t, <<SetRequest(t, f), [kind |-> "change"]>>)
      PROVE  \E batch : Answers(t, batch)
  <2> DEFINE b == <<SetRequest(t, f), [kind |-> "change"]>>
  <2>1. b \in Seq(Requests) /\ b # <<>> /\ b[Len(b)].kind # "set"
    BY <1>2, <1>3
  <2>2. Answers(t, b)
    BY <1>4, <2>1 DEF Answers, SendRequests
  <2> QED
    BY <2>2
<1>5. CASE HearsEnter(t)
  <2> DEFINE b == <<SetRequest(t, "text"), SetRequest(t, "hints"), [kind |-> "full"]>>
  <2>1. b \in Seq(Requests) /\ b # <<>> /\ b[Len(b)].kind # "set"
    BY <1>2, <1>3 DEF Fields
  <2>2. Answers(t, b)
    BY <1>5, <2>1 DEF Answers, HearsEnter, SendRequests
  <2> QED
    BY <2>2
<1>6. CASE HearsCommit(t)
  BY <1>4, <1>6 DEF HearsCommit, Fields
<1>7. CASE HearsLeave(t) \/ HearsNothing(t)
  BY <1>7 DEF HearsLeave, HearsNothing
<1>8. CASE \E f \in Fields : \E x \in TextsOf[t][f] : Edit(t, f, x)
  BY <1>4, <1>8 DEF Edit
<1> QED
  BY <1>5, <1>6, <1>7, <1>8, HearCases

\* The last place of a queue.
LEMMA LastOfTail ==
  ASSUME NEW S, NEW q \in Seq(S), q # <<>>
  PROVE  /\ Tail(q) # <<>> => Tail(q)[Len(Tail(q))] = q[Len(q)]
         /\ Tail(q) = <<>> => q[Len(q)] = Head(q)
<1>1. Len(q) \in Nat /\ Len(q) >= 1 /\ Len(Tail(q)) = Len(q) - 1 /\ Head(q) = q[1]
  OBVIOUS
<1>2. \A i \in 1..Len(q) - 1 : Tail(q)[i] = q[i + 1]
  OBVIOUS
<1>3. Tail(q) = <<>> <=> Len(Tail(q)) = 0
  <2>1. \A r \in Seq(S) : r = <<>> <=> Len(r) = 0
    OBVIOUS
  <2>2. Tail(q) \in Seq(S)
    OBVIOUS
  <2> QED
    BY <2>1, <2>2, Zenon
<1> QED
  BY <1>1, <1>2, <1>3

LEMMA LastOfJoined ==
  ASSUME NEW S, NEW q \in Seq(S), NEW b \in Seq(S), b # <<>>
  PROVE  q \o b # <<>> /\ (q \o b)[Len(q \o b)] = b[Len(b)]
<1>1. Len(q) \in Nat /\ Len(b) \in Nat /\ Len(b) # 0
  OBVIOUS
<1>2. /\ Len(q \o b) = Len(q) + Len(b)
      /\ \A i \in 1..Len(b) : (q \o b)[Len(q) + i] = b[i]
  OBVIOUS
<1>3. (q \o b)[Len(q) + Len(b)] = b[Len(b)] /\ Len(q \o b) # 0
  BY <1>1, <1>2
<1> QED
  BY <1>2, <1>3

\* However pieces are sent, received or ignored, an update follows.
LEMMA PiecesNext ==
  ASSUME OrderlyClients, TextTypes, TextPlaced, PiecesTakeEffect, [TextNext]_textVars
  PROVE  PiecesTakeEffect'
<1>0. /\ requests \in [TextInputs -> Seq(Requests)]
      /\ textResource \in TextInputs \cup {None}
      /\ \A t \in TextInputs :
           requests[t] # <<>> => requests[t][Len(requests[t])].kind # "set"
      /\ textResource # None /\ pendingState.changed # {} => requests[textResource] # <<>>
  BY DEF TextTypes, TextTypeOK, PiecesTakeEffect
<1>1. ASSUME requests' = requests,
             \/ textResource' = None
             \/ textResource' = textResource /\ pendingState' = pendingState
             \/ pendingState'.changed = {}
      PROVE  PiecesTakeEffect'
  BY <1>0, <1>1 DEF PiecesTakeEffect
<1>2. ASSUME NEW s \in TextSurfaces, DestroyTextSurface(s) \/ SetTextFocus(s)
      PROVE  PiecesTakeEffect'
  <2>1. requests' = requests
    BY <1>2 DEF DestroyTextSurface, SetTextFocus
  <2>2. ASSUME DestroyTextSurface(s)
        PROVE  /\ textResource' \in {None, textResource}
               /\ pendingState' = pendingState
    BY <2>2 DEF DestroyTextSurface, stateVars
  <2>3. ASSUME SetTextFocus(s)
        PROVE  \/ textResource' = None
               \/ textResource' = textResource /\ pendingState' = pendingState
               \/ pendingState'.changed = {}
    <3>1. /\ textResource' = ResourceOf(s)
          /\ IF Enters(s) THEN pendingState' = NewState ELSE pendingState' = pendingState
      BY <2>3 DEF SetTextFocus, stateVars
    <3> QED
      BY <3>1 DEF Enters, NewState
  <2> QED
    BY <1>1, <1>2, <2>1, <2>2, <2>3
<1>3. ASSUME NEW t \in TextInputs, DestroyInput(t)
      PROVE  PiecesTakeEffect'
  <2>1. textResource' = textResource /\ UNCHANGED <<requests, pendingState>>
    BY <1>3, DestroyInputStep DEF DestroyInput, stateVars
  <2> QED
    BY <1>1, <2>1
<1>4. ASSUME NEW t \in TextInputs, Receive(t)
      PROVE  PiecesTakeEffect'
  <2> DEFINE q == requests[t]
  <2>1. /\ q # <<>> /\ q \in Seq(Requests) /\ requests' = [requests EXCEPT ![t] = Tail(q)]
        /\ textResource' = textResource
        /\ IF t = textResource THEN SetField(Head(q)) \/ UpdateState(Head(q))
           ELSE pendingState' = pendingState
    BY <1>0, <1>4 DEF Receive, textFocusVars, stateVars
  <2>2. /\ Tail(q) # <<>> => Tail(q)[Len(Tail(q))].kind # "set"
        /\ Tail(q) = <<>> => Head(q).kind # "set"
    BY <1>0, <2>1, LastOfTail
  <2> HIDE DEF q
  <2>3. \A u \in TextInputs : requests'[u] = IF u = t THEN Tail(q) ELSE requests[u]
    BY <1>0, <2>1
  <2>4. ASSUME t = textResource, pendingState'.changed # {}
        PROVE  Tail(q) # <<>>
    BY <2>1, <2>2, <2>4 DEF SetField, UpdateState, NewState
  <2> QED
    BY <1>0, <2>1, <2>2, <2>3, <2>4 DEF PiecesTakeEffect
<1>5. ASSUME NEW t \in TextInputs,
             Hear(t) \/ \E f \in Fields : \E x \in TextsOf[t][f] : Edit(t, f, x)
      PROVE  PiecesTakeEffect'
  <2>1. textResource' = textResource /\ pendingState' = pendingState
    BY <1>5 DEF Hear, Edit, textFocusVars, stateVars
  <2>2. CASE requests' = requests
    BY <1>1, <2>1, <2>2
  <2>3. ASSUME NEW b, Answers(t, b)
        PROVE  PiecesTakeEffect'
    <3>1. /\ requests[t] \o b # <<>>
          /\ (requests[t] \o b)[Len(requests[t] \o b)].kind # "set"
      BY <1>0, <2>3, LastOfJoined DEF Answers
    <3>2. \A u \in TextInputs : requests'[u] = IF u = t THEN requests[t] \o b ELSE requests[u]
      BY <1>0, <2>3 DEF Answers
    <3> QED
      BY <1>0, <2>1, <3>1, <3>2 DEF PiecesTakeEffect
  <2> QED
    BY <1>5, <2>2, <2>3, ClientAnswers
<1>6. ASSUME \/ \E s \in TextSurfaces : CreateTextSurface(s)
             \/ \E t \in TextInputs : BindInput(t) \/ Disable(t)
             \/ \E t \in TextInputs, s \in TextSurfaces : Enable(t, s)
             \/ \E x : SendInputMethodEvent(x)
             \/ UNCHANGED textVars
      PROVE  PiecesTakeEffect'
  <2>1. UNCHANGED <<requests, textResource, pendingState>>
    BY <1>6
    DEF CreateTextSurface, BindInput, Disable, Enable, SendInputMethodEvent, textVars,
        textFocusVars, stateVars
  <2> QED
    BY <1>1, <2>1
<1> QED
  BY <1>2, <1>3, <1>4, <1>5, <1>6 DEF TextNext

\* Nothing happens to the editor with the focus, or to what is under way to it and
\* from it.
LEMMA EditorUntouched ==
  ASSUME FocusSettles, UNCHANGED <<textFocus, currentState, pendingState>>,
         textResource' = textResource \/ textResource' = None,
         textResource' # None =>
           /\ events'[textResource] = events[textResource]
           /\ requests'[textResource] = requests[textResource]
           /\ editor'[textResource] = editor[textResource]
           /\ heard[textResource] = textFocus => heard'[textResource] = textFocus
  PROVE  FocusSettles'
<1> SUFFICES ASSUME NEW t, t = textResource, textResource' # None
             PROVE  WillHear(t)' \/ HasHeard(t)'
  BY DEF FocusSettles
<1>1. /\ textResource' = t /\ textFocus' = textFocus /\ events'[t] = events[t]
      /\ requests'[t] = requests[t] /\ editor'[t] = editor[t]
      /\ (heard[t] = textFocus => heard'[t] = textFocus)
      /\ currentState' = currentState /\ pendingState' = pendingState
  OBVIOUS
<1>2. ASSUME WillHear(t)
      PROVE  WillHear(t)'
  BY <1>1, <1>2 DEF WillHear
<1>3. ASSUME HasHeard(t)
      PROVE  HasHeard(t)'
  BY <1>1, <1>3 DEF HasHeard
<1>4. WillHear(t) \/ HasHeard(t)
  BY <1>1 DEF FocusSettles
<1> QED
  BY <1>2, <1>3, <1>4

\* The focus moves, and its text input is told last of all.
LEMMA TextFocusMoves ==
  ASSUME OneTextInput, TextTypes, TextPlaced, FocusSettles, NEW s \in TextSurfaces,
         SetTextFocus(s)
  PROVE  FocusSettles'
<1> DEFINE r == ResourceOf(s)
<1>1. /\ s \in textLive /\ textFocus' = s /\ textResource' = r /\ events' = TextSent(s)
      /\ IF Enters(s) THEN currentState' = NewState /\ pendingState' = NewState
         ELSE UNCHANGED stateVars
      /\ UNCHANGED <<editor, heard, requests>>
  BY DEF SetTextFocus, textClientVars
<1>2. /\ Leaves(s) <=> textResource # None /\ textFocus # s
      /\ Enters(s) <=> r # None /\ (textFocus # s \/ textResource # r)
  BY DEF Leaves, Enters
<1>3. r # None => r \in TextInputs
  BY <1>1, FocusFindsResource
<1>4. CASE r = None
  BY <1>1, <1>4 DEF FocusSettles
<1>5. CASE r # None /\ Enters(s)
  <2> DEFINE leave == IF Leaves(s) /\ r = textResource
                      THEN <<[kind |-> "leave", of |-> textFocus]>> ELSE <<>>
             enter == [kind |-> "enter", of |-> s]
  <2>1. events'[r] = events[r] \o leave \o <<enter>> /\ events[r] \in Seq(TextEvents)
    BY <1>1, <1>3, <1>5 DEF TextSent, TextTypes
  <2>2. enter \in TextEvents /\ leave \in Seq(TextEvents)
    <3>1. [kind |-> "leave", of |-> textFocus] \in TextEvents
      BY DEF TextEvents, TextTypes, TextTypeOK
    <3>2. enter \in TextEvents
      BY DEF TextEvents
    <3> QED
      BY <3>1, <3>2
  <2> HIDE DEF leave
  <2>3. events'[r] \in Seq(TextEvents)
    BY <2>1, <2>2
  <2>4. /\ Len(events'[r]) \in DOMAIN events'[r]
        /\ events'[r][Len(events'[r])] = enter
        /\ \A j \in DOMAIN events'[r] : ~(j > Len(events'[r]))
    <3>1. events[r] \o leave \in Seq(TextEvents)
      BY <2>1, <2>2
    <3>2. <<enter>> \in Seq(TextEvents) /\ <<enter>> # <<>> /\ <<enter>>[Len(<<enter>>)] = enter
      BY <2>2
    <3>3. events'[r] # <<>> /\ events'[r][Len(events'[r])] = <<enter>>[Len(<<enter>>)]
      BY <2>1, <3>1, <3>2, LastOfJoined
    <3> QED
      BY <2>3, <3>2, <3>3
  <2>5. \E i \in DOMAIN events'[r] :
          /\ events'[r][i].kind = "enter" /\ events'[r][i].of = s
          /\ \A j \in DOMAIN events'[r] : j > i => events'[r][j].kind = "commit"
    BY <2>4
  <2> HIDE DEF r
  <2>6. FocusSettles'
    BY <1>1, <2>5 DEF FocusSettles, WillHear
  <2> QED
    BY <2>6
<1>6. CASE r # None /\ ~Enters(s)
  <2>1. textFocus = s /\ textResource = r /\ ~Leaves(s)
    BY <1>2, <1>6
  <2>2. events'[r] = events[r]
    BY <1>1, <1>3, <1>6, <2>1 DEF TextSent, TextTypes
  <2> QED
    BY <1>1, <1>6, <2>1, <2>2, EditorUntouched DEF stateVars
<1> QED
  BY <1>4, <1>5, <1>6

\* The input method commits a text.
LEMMA TextCommits ==
  ASSUME TextTypes, FocusSettles, NEW x, SendInputMethodEvent(x)
  PROVE  FocusSettles'
<1> SUFFICES ASSUME NEW t \in TextInputs, t = textResource
             PROVE  WillHear(t)' \/ HasHeard(t)'
  BY DEF SendInputMethodEvent, FocusSettles, TextTypes, TextTypeOK, textFocusVars
<1> DEFINE e == [kind |-> "commit", of |-> x]
           q == events[t]
<1>1. /\ events'[t] = Append(q, e) /\ q \in Seq(TextEvents)
      /\ currentState' = [currentState EXCEPT !.value["text"] = x]
      /\ UNCHANGED <<textFocus, textResource, heard, editor, requests, pendingState>>
  BY DEF SendInputMethodEvent, TextTypes, TextTypeOK, textFocusVars, textClientVars
<1>2. currentState'.value["hints"] = currentState.value["hints"]
  BY <1>1 DEF TextTypes, TextTypeOK, Fields
<1>3. e.kind = "commit"
  OBVIOUS
<1> HIDE DEF e, q
<1>4. /\ Append(q, e) # <<>>
      /\ \A i \in DOMAIN q : i \in DOMAIN Append(q, e) /\ Append(q, e)[i] = q[i]
      /\ \A i \in DOMAIN Append(q, e) : i \in DOMAIN q \/ Append(q, e)[i] = e
  BY <1>1
<1>5. ASSUME WillHear(t)
      PROVE  WillHear(t)'
  <2>1. PICK i \in DOMAIN q : /\ q[i].kind = "enter" /\ q[i].of = textFocus
                              /\ \A j \in DOMAIN q : j > i => q[j].kind = "commit"
    BY <1>5 DEF WillHear, q
  <2>2. \A j \in DOMAIN events'[t] : j > i => events'[t][j].kind = "commit"
    BY <1>1, <1>3, <1>4, <2>1
  <2>3. i \in DOMAIN events'[t] /\ events'[t][i] = q[i] /\ textFocus' = textFocus
    BY <1>1, <1>4
  <2> QED
    BY <2>1, <2>2, <2>3 DEF WillHear
<1>6. ASSUME HasHeard(t)
      PROVE  HasHeard(t)'
  <2>1. heard'[t] = textFocus' /\ \A i \in DOMAIN events'[t] : events'[t][i].kind = "commit"
    BY <1>1, <1>3, <1>4, <1>6 DEF HasHeard, q
  <2>2. ASSUME NEW f \in Fields
        PROVE  /\ (f = "text" /\ events'[t] # <<>>)
                    \/ Arrives(pendingState', currentState'.value, requests'[t], f, editor'[t][f])
               /\ IsWhole(pendingState', requests'[t], f)
    <3>1. IsWhole(pendingState', requests'[t], f)
      BY <1>1, <1>6 DEF HasHeard
    <3>2. CASE f = "text"
      BY <1>1, <1>4, <3>1, <3>2
    <3>3. CASE f = "hints"
      <4>1. Arrives(pendingState, currentState.value, requests[t], f, editor[t][f])
        BY <1>6, <3>3 DEF HasHeard
      <4>2. Arrives(pendingState', currentState'.value, requests'[t], f, editor'[t][f])
        BY <1>1, <1>2, <3>3, <4>1 DEF Arrives
      <4> QED
        BY <3>1, <4>2
    <3> QED
      BY <3>2, <3>3 DEF Fields
  <2> QED
    BY <2>1, <2>2 DEF HasHeard
<1> QED
  BY <1>5, <1>6, NoneIsNoInput DEF FocusSettles

\* A request of the editor with the focus arrives.
LEMMA TextReceives ==
  ASSUME TextTypes, FocusSettles, NEW t \in TextInputs, t = textResource, Receive(t)
  PROVE  FocusSettles'
<1> DEFINE q == requests[t]
           p == pendingState
           v == currentState.value
<1>1. /\ q # <<>> /\ q \in Seq(Requests) /\ requests'[t] = Tail(q)
      /\ SetField(Head(q)) \/ UpdateState(Head(q))
      /\ UNCHANGED <<textFocus, textResource, heard, editor, events>>
  BY DEF Receive, TextTypes, textFocusVars, textClientVars
<1>2. p \in [value : [Fields -> Texts \cup {None}], changed : SUBSET Fields]
  BY DEF TextTypes, TextTypeOK
<1>3. v \in [Fields -> Texts \cup {None}]
  BY DEF TextTypes, TextTypeOK
<1>4. Head(q) = q[1] /\ q[1] \in Requests
  BY <1>1
<1> HIDE DEF q, p
<1>5. ASSUME NEW f \in Fields, NEW x, Arrives(p, v, q, f, x), IsWhole(p, q, f)
      PROVE  Arrives(pendingState', currentState'.value, requests'[t], f, x)
  <2>1. CASE SetField(q[1])
    <3>1. /\ q[1].kind = "set" /\ q[1].field \in Fields
          /\ pendingState'.value = [p.value EXCEPT ![q[1].field] = q[1].value]
          /\ pendingState'.changed = p.changed \cup {q[1].field}
          /\ currentState' = currentState
      BY <1>4, <2>1 DEF SetField, Requests, p
    <3>2. pendingState'.value[f] = IF q[1].field = f THEN q[1].value ELSE p.value[f]
      BY <1>2, <3>1
    <3> DEFINE w == pendingState'
    <3>3. w.value[f] = IF q[1].field = f THEN q[1].value ELSE p.value[f]
      BY <3>2
    <3>4. w.changed = p.changed \cup {q[1].field}
      BY <3>1
    <3> HIDE DEF w, v
    <3>5. /\ Arrives(p, v, q, f, x) => Arrives(w, v, Tail(q), f, x)
          /\ IsWhole(p, q, f) => IsWhole(w, Tail(q), f)
      BY <1>1, <3>1, <3>3, <3>4, SetArrives
    <3> QED
      BY <1>1, <1>5, <3>1, <3>5 DEF v, w
  <2>2. CASE UpdateState(q[1])
    <3>1. q[1].kind # "set" /\ pendingState' = NewState
      BY <2>2 DEF UpdateState
    <3>2. currentState'.value[f] =
            IF q[1].kind = "full" \/ f \in p.changed THEN p.value[f] ELSE v[f]
      BY <2>2, <1>3 DEF UpdateState, p, TextTypes, TextTypeOK
    <3> QED
      BY <1>1, <1>5, <3>1, <3>2, UpdateArrives
  <2> QED
    BY <1>1, <1>4, <2>1, <2>2
<1>6. ASSUME NEW f \in Fields, IsWhole(p, q, f)
      PROVE  IsWhole(pendingState', requests'[t], f)
  <2>1. CASE SetField(q[1])
    <3>1. /\ q[1].kind = "set" /\ q[1].field \in Fields
          /\ pendingState'.value = [p.value EXCEPT ![q[1].field] = q[1].value]
          /\ pendingState'.changed = p.changed \cup {q[1].field}
      BY <1>4, <2>1 DEF SetField, Requests, p
    <3>2. pendingState'.value[f] = IF q[1].field = f THEN q[1].value ELSE p.value[f]
      BY <1>2, <3>1
    <3> DEFINE w == pendingState'
    <3>3. w.value[f] = IF q[1].field = f THEN q[1].value ELSE p.value[f]
      BY <3>2
    <3>4. w.changed = p.changed \cup {q[1].field}
      BY <3>1
    <3> HIDE DEF w, v
    <3>5. /\ Arrives(p, v, q, f, None) => Arrives(w, v, Tail(q), f, None)
          /\ IsWhole(p, q, f) => IsWhole(w, Tail(q), f)
      BY <1>1, <3>1, <3>3, <3>4, SetArrives
    <3> QED
      BY <1>1, <1>6, <3>1, <3>5 DEF v, w
  <2>2. CASE UpdateState(q[1])
    <3>1. q[1].kind # "set" /\ pendingState' = NewState
      BY <2>2 DEF UpdateState
    <3>2. currentState'.value[f] =
            IF q[1].kind = "full" \/ f \in p.changed THEN p.value[f] ELSE v[f]
      BY <2>2, <1>3 DEF UpdateState, p, TextTypes, TextTypeOK
    <3> QED
      BY <1>1, <1>6, <3>1, <3>2, UpdateArrives
  <2> QED
    BY <1>1, <1>4, <2>1, <2>2
<1>7. ASSUME HasHeard(t)
      PROVE  HasHeard(t)'
  <2>1. heard'[t] = textFocus' /\ \A i \in DOMAIN events'[t] : events'[t][i].kind = "commit"
    BY <1>1, <1>7 DEF HasHeard
  <2>2. ASSUME NEW f \in Fields
        PROVE  /\ (f = "text" /\ events'[t] # <<>>)
                    \/ Arrives(pendingState', currentState'.value, requests'[t], f, editor'[t][f])
               /\ IsWhole(pendingState', requests'[t], f)
    <3>1. /\ (f = "text" /\ events[t] # <<>>) \/ Arrives(p, v, q, f, editor[t][f])
          /\ IsWhole(p, q, f)
      BY <1>7 DEF HasHeard, p, q
    <3> QED
      BY <1>1, <1>5, <1>6, <3>1
  <2> QED
    BY <2>1, <2>2 DEF HasHeard
<1>8. ASSUME WillHear(t)
      PROVE  WillHear(t)'
  BY <1>1, <1>8 DEF WillHear
<1> QED
  BY <1>1, <1>7, <1>8, NoneIsNoInput DEF FocusSettles

\* What is sent of one field of the editor will have arrived.
LEMMA ChangeSettles ==
  ASSUME TextTypes, TextTypes', NEW t \in TextInputs, t = textResource, HasHeard(t),
         NEW f \in Fields, NEW x,
         editor' = [editor EXCEPT ![t][f] = x],
         SendRequests(t, <<SetRequest(t, f), [kind |-> "change"]>>),
         UNCHANGED <<textFocus, heard, currentState, pendingState>>,
         \A i \in DOMAIN events'[t] : events'[t][i].kind = "commit",
         events'[t] = events[t] \/ f = "text"
  PROVE  HasHeard(t)'
<1> DEFINE q == requests[t]
           p == pendingState
           v == currentState.value
           b == <<SetRequest(t, f), [kind |-> "change"]>>
<1>1. editor \in [TextInputs -> [Fields -> Texts]] /\ editor' \in [TextInputs -> [Fields -> Texts]]
  BY DEF TextTypes, TextTypeOK
<1>2. \A g \in Fields : editor'[t][g] = IF g = f THEN x ELSE editor[t][g]
  BY <1>1
<1>3. SetRequest(t, f) \in Requests /\ [kind |-> "change"] \in Requests
  BY <1>1, SetRequests DEF Requests
<1>4. /\ b \in Seq(Requests) /\ DOMAIN b = 1..2 /\ b[2].kind = "change"
      /\ IsSet(b[1], f) /\ b[1].value = x
  <2>1. b \in Seq(Requests)
    BY <1>3
  <2>2. SetRequest(t, f) = [kind |-> "set", field |-> f, value |-> x]
    BY <1>2 DEF SetRequest
  <2> QED
    BY <2>1, <2>2 DEF IsSet
<1>5. requests'[t] = q \o b /\ q \in Seq(Requests)
  BY DEF SendRequests, TextTypes
<1> HIDE DEF b, q
<1>6. /\ Arrives(p, v, q \o b, f, x)
      /\ \A g, y : g # f /\ Arrives(p, v, q, g, y) => Arrives(p, v, q \o b, g, y)
      /\ \A g : IsWhole(p, q, g) => IsWhole(p, q \o b, g)
  BY <1>4, <1>5, ChangeArrives
<1>7. ASSUME NEW g \in Fields
      PROVE  /\ (g = "text" /\ events'[t] # <<>>) \/ Arrives(p, v, q \o b, g, editor'[t][g])
             /\ IsWhole(p, q \o b, g)
  <2>1. /\ (g = "text" /\ events[t] # <<>>) \/ Arrives(p, v, q, g, editor[t][g])
        /\ IsWhole(p, q, g)
    BY DEF HasHeard, q
  <2>2. CASE g = f
    BY <1>2, <1>6, <2>1, <2>2
  <2>3. CASE g # f
    <3>1. editor'[t][g] = editor[t][g]
      BY <1>2, <2>3
    <3>2. (g = "text" /\ events'[t] # <<>>) \/ Arrives(p, v, q, g, editor'[t][g])
      BY <2>1, <2>3, <3>1
    <3> QED
      BY <1>6, <2>1, <2>3, <3>2
  <2> QED
    BY <2>2, <2>3
<1>8. heard'[t] = textFocus'
  BY DEF HasHeard
<1> QED
  BY <1>5, <1>7, <1>8 DEF HasHeard

\* The client hears of the focus and sends everything, or of a text.
LEMMA TextHears ==
  ASSUME TextTypes, TextTypes', TextPlaced, FocusSettles,
         NEW t \in TextInputs, t = textResource, Hear(t)
  PROVE  FocusSettles'
<1> DEFINE q == events[t]
<1>1. /\ q # <<>> /\ q \in Seq(TextEvents) /\ events'[t] = Tail(q)
      /\ UNCHANGED <<textFocus, textResource, currentState, pendingState>>
  BY HearCases DEF TextTypes, textFocusVars, stateVars
<1>2. /\ 1 \in DOMAIN q /\ Head(q) = q[1]
      /\ \A i \in DOMAIN Tail(q) : i >= 1 /\ i + 1 \in DOMAIN q /\ Tail(q)[i] = q[i + 1]
      /\ \A i \in DOMAIN q : i = 1 \/ (i - 1 \in DOMAIN Tail(q) /\ Tail(q)[i - 1] = q[i])
      /\ \A i \in DOMAIN q : i \in Nat /\ i >= 1
  BY <1>1, WithoutHead
<1>3. \A i \in DOMAIN Tail(q) : i \in Nat
  BY <1>1
<1>4. textFocus \in textLive /\ textFocus # None
  BY NoneIsNoInput DEF TextPlaced, FocusIsOfClient, TextTypes, TextTypeOK
<1> HIDE DEF q
<1>5. ASSUME NEW i \in DOMAIN q, i # 1, q[i].kind = "enter", q[i].of = textFocus,
             \A j \in DOMAIN q : j > i => q[j].kind = "commit"
      PROVE  WillHear(t)'
  <2>1. i - 1 \in DOMAIN Tail(q) /\ Tail(q)[i - 1] = q[i]
    BY <1>2, <1>5
  <2>2. \A j \in DOMAIN Tail(q) : j > i - 1 => Tail(q)[j].kind = "commit"
    BY <1>2, <1>3, <1>5
  <2> QED
    BY <1>1, <1>5, <2>1, <2>2 DEF WillHear
<1>6. ASSUME q[1].kind = "enter", q[1].of = textFocus,
             \A j \in DOMAIN q : j > 1 => q[j].kind = "commit"
      PROVE  HasHeard(t)'
  <2> DEFINE b == <<SetRequest(t, "text"), SetRequest(t, "hints"), [kind |-> "full"]>>
  <2>1. HearsEnter(t)
    BY <1>2, <1>6, HearCases DEF HearsEnter, HearsLeave, HearsCommit, HearsNothing, q
  <2>2. heard'[t] = textFocus /\ editor' = editor
    BY <1>2, <1>4, <1>6, <2>1 DEF HearsEnter, q, TextTypes, TextTypeOK
  <2>3. requests'[t] = requests[t] \o b /\ requests[t] \in Seq(Requests)
    BY <2>1 DEF HearsEnter, SendRequests, TextTypes
  <2>4. editor' \in [TextInputs -> [Fields -> Texts]]
    BY DEF TextTypes, TextTypeOK
  <2>5. /\ SetRequest(t, "text") \in Requests /\ SetRequest(t, "hints") \in Requests
        /\ [kind |-> "full"] \in Requests
    BY <2>4, SetRequests DEF Requests, Fields
  <2>6. /\ b \in Seq(Requests) /\ DOMAIN b = 1..3 /\ b[3].kind = "full"
        /\ IsSet(b[1], "text") /\ b[1].value = editor'[t]["text"]
        /\ IsSet(b[2], "hints") /\ b[2].value = editor'[t]["hints"]
    BY <2>5 DEF IsSet, SetRequest
  <2> HIDE DEF b
  <2>7. ASSUME NEW f \in Fields
        PROVE  /\ Arrives(pendingState, currentState.value, requests'[t], f, editor'[t][f])
               /\ IsWhole(pendingState, requests'[t], f)
    BY <2>3, <2>6, FullArrives DEF Fields
  <2>8. \A j \in DOMAIN events'[t] : events'[t][j].kind = "commit"
    BY <1>1, <1>2, <1>3, <1>6
  <2> QED
    BY <1>1, <2>2, <2>7, <2>8 DEF HasHeard
<1>7. ASSUME HasHeard(t)
      PROVE  HasHeard(t)'
  <2>1. q[1].kind = "commit" /\ heard[t] = textFocus
    BY <1>2, <1>7 DEF HasHeard, q
  <2>2. HearsCommit(t)
    BY <1>2, <1>4, <2>1, HearCases DEF HearsEnter, HearsLeave, HearsCommit, HearsNothing, q
  <2>3. \A j \in DOMAIN events'[t] : events'[t][j].kind = "commit"
    BY <1>1, <1>2, <1>7 DEF HasHeard, q
  <2>4. editor' = [editor EXCEPT ![t]["text"] = Head(q).of] /\ heard' = heard
    BY <2>2 DEF HearsCommit, q
  <2> QED
    BY <1>1, <1>7, <2>2, <2>3, <2>4, ChangeSettles DEF HearsCommit, Fields
<1>8. WillHear(t) \/ HasHeard(t)
  BY NoneIsNoInput DEF FocusSettles
<1>9. WillHear(t)' \/ HasHeard(t)'
  BY <1>5, <1>6, <1>7, <1>8 DEF WillHear, q
<1> QED
  BY <1>1, <1>9 DEF FocusSettles

\* The user edits where the focus is.
LEMMA TextEdits ==
  ASSUME TextTypes, TextTypes', FocusSettles, NEW t \in TextInputs, t = textResource,
         NEW f \in Fields, NEW x \in TextsOf[t][f], Edit(t, f, x)
  PROVE  FocusSettles'
<1>1. /\ editor' = [editor EXCEPT ![t][f] = x]
      /\ SendRequests(t, <<SetRequest(t, f), [kind |-> "change"]>>)
      /\ UNCHANGED <<textFocus, textResource, heard, events, currentState, pendingState>>
  BY DEF Edit, textFocusVars, stateVars
<1>2. ASSUME HasHeard(t)
      PROVE  HasHeard(t)'
  <2>1. \A i \in DOMAIN events'[t] : events'[t][i].kind = "commit"
    BY <1>1, <1>2 DEF HasHeard
  <2> QED
    BY <1>1, <1>2, <2>1, ChangeSettles
<1>3. ASSUME WillHear(t)
      PROVE  WillHear(t)'
  BY <1>1, <1>3 DEF WillHear
<1> QED
  BY <1>1, <1>2, <1>3, NoneIsNoInput DEF FocusSettles

\* However pieces, texts and moves of the focus cross, what is under way settles it.
LEMMA FocusSettlesNext ==
  ASSUME OrderlyClients, OneTextInput, TextTypes, TextTypes', TextPlaced, FocusSettles,
         [TextNext]_textVars
  PROVE  FocusSettles'
<1>0. /\ requests \in [TextInputs -> Seq(Requests)] /\ events \in [TextInputs -> Seq(TextEvents)]
      /\ editor \in [TextInputs -> [Fields -> Texts]]
      /\ heard \in [TextInputs -> TextSurfaces \cup {None}]
      /\ textResource \in TextInputs \cup {None}
  BY DEF TextTypes, TextTypeOK
<1>1. ASSUME UNCHANGED <<textFocus, textResource, stateVars, requests, events, textClientVars>>
      PROVE  FocusSettles'
  BY <1>1, EditorUntouched DEF stateVars, textClientVars
<1>2. ASSUME NEW s \in TextSurfaces, DestroyTextSurface(s)
      PROVE  FocusSettles'
  <2>1. /\ heard' = [t \in TextInputs |-> IF heard[t] = s THEN None ELSE heard[t]]
        /\ UNCHANGED <<currentState, pendingState, editor, requests, events>>
    BY <1>2 DEF DestroyTextSurface, stateVars
  <2>2. CASE textListening = s
    BY <1>2, <2>2 DEF DestroyTextSurface, FocusSettles
  <2>3. CASE textListening # s
    <3>1. UNCHANGED <<textFocus, textResource>>
      BY <1>2, <2>3 DEF DestroyTextSurface
    <3>2. textResource # None => textFocus # s
      BY <2>3 DEF TextPlaced, FocusIsHeld
    <3>3. textResource # None /\ heard[textResource] = textFocus =>
            heard'[textResource] = textFocus
      BY <1>0, <2>1, <3>2
    <3> QED
      BY <2>1, <3>1, <3>3, EditorUntouched
  <2> QED
    BY <2>2, <2>3
<1>3. ASSUME NEW t \in TextInputs, DestroyInput(t)
      PROVE  FocusSettles'
  <2>1. /\ t # textResource /\ textResource' = textResource
        /\ heard' = [heard EXCEPT ![t] = None] /\ events' = [events EXCEPT ![t] = <<>>]
        /\ UNCHANGED <<textFocus, currentState, pendingState, editor, requests>>
    BY <1>3, DestroyInputStep DEF DestroyInput, stateVars
  <2>2. textResource # None =>
          events'[textResource] = events[textResource] /\ heard'[textResource] = heard[textResource]
    BY <1>0, <2>1
  <2> QED
    BY <2>1, <2>2, EditorUntouched
<1>4. ASSUME NEW t \in TextInputs, t # textResource,
             \/ Receive(t) \/ Hear(t)
             \/ \E f \in Fields : \E x \in TextsOf[t][f] : Edit(t, f, x)
      PROVE  FocusSettles'
  <2>1. UNCHANGED <<textFocus, textResource, currentState, pendingState>>
    BY <1>4 DEF Receive, Hear, Edit, textFocusVars, stateVars
  <2>2. \A u \in TextInputs : u # t =>
          /\ events'[u] = events[u] /\ requests'[u] = requests[u]
          /\ editor'[u] = editor[u] /\ heard'[u] = heard[u]
    <3>1. CASE Receive(t)
      BY <1>0, <3>1 DEF Receive, textClientVars
    <3>2. CASE Hear(t)
      <4>1. events' = [events EXCEPT ![t] = Tail(@)]
        BY <3>2, HearCases
      <4>2. CASE HearsEnter(t)
        BY <1>0, <4>1, <4>2 DEF HearsEnter, SendRequests
      <4>3. CASE HearsLeave(t)
        BY <1>0, <4>1, <4>3 DEF HearsLeave
      <4>4. CASE HearsCommit(t)
        BY <1>0, <4>1, <4>4 DEF HearsCommit, SendRequests
      <4>5. CASE HearsNothing(t)
        BY <1>0, <4>1, <4>5 DEF HearsNothing
      <4> QED
        BY <3>2, <4>2, <4>3, <4>4, <4>5, HearCases
    <3>3. CASE \E f \in Fields : \E x \in TextsOf[t][f] : Edit(t, f, x)
      BY <1>0, <3>3 DEF Edit, SendRequests
    <3> QED
      BY <1>4, <3>1, <3>2, <3>3
  <2> QED
    BY <1>0, <1>4, <2>1, <2>2, EditorUntouched
<1>5. ASSUME NEW t \in TextInputs, t = textResource,
             \/ Receive(t) \/ Hear(t)
             \/ \E f \in Fields : \E x \in TextsOf[t][f] : Edit(t, f, x)
      PROVE  FocusSettles'
  BY <1>5, TextReceives, TextHears, TextEdits
<1>6. ASSUME \/ \E s \in TextSurfaces : CreateTextSurface(s)
             \/ \E t \in TextInputs : BindInput(t) \/ Disable(t)
             \/ \E t \in TextInputs, s \in TextSurfaces : Enable(t, s)
             \/ UNCHANGED textVars
      PROVE  UNCHANGED <<textFocus, textResource, stateVars, requests, events, textClientVars>>
  BY <1>6
  DEF CreateTextSurface, BindInput, Disable, Enable, textVars, textFocusVars
<1>7. ASSUME NEW s \in TextSurfaces, SetTextFocus(s)
      PROVE  FocusSettles'
  BY <1>7, TextFocusMoves
<1>8. ASSUME NEW x, SendInputMethodEvent(x)
      PROVE  FocusSettles'
  BY <1>8, TextCommits
<1> QED
  BY <1>1, <1>2, <1>3, <1>4, <1>5, <1>6, <1>7, <1>8 DEF TextNext

LEMMA TextInvInit == TextInit => TextInv
<1> SUFFICES ASSUME TextInit PROVE TextInv
  OBVIOUS
<1>1. PiecesTakeEffect /\ FocusSettles
  BY DEF TextInit, PiecesTakeEffect, FocusSettles
<1> QED
  BY <1>1, TextTypesInit, PlacedInit, OwnTextsInit DEF TextInv

LEMMA TextInvNext ==
  ASSUME OrderlyClients, OneTextInput
  PROVE  TextInv /\ [TextNext]_textVars => TextInv'
<1> SUFFICES ASSUME TextInv, [TextNext]_textVars
             PROVE  TextInv'
  OBVIOUS
<1>1. TextTypes' /\ TextPlaced' /\ OwnTexts'
  BY TextTypesNext, TextPlacedNext, OwnTextsNext DEF TextInv
<1>2. StateIsOfFocus'
  BY StateIsOfFocusNext DEF TextInv
<1>3. PiecesTakeEffect'
  BY PiecesNext DEF TextInv
<1>4. FocusSettles'
  BY <1>1, FocusSettlesNext DEF TextInv
<1> QED
  BY <1>1, <1>2, <1>3, <1>4 DEF TextInv

\* With orderly clients, each with a text input at most, however changes of the
\* editor, texts of the input method and moves of the focus cross: what the input
\* method is told of a surface comes from the editor of its client; and when nothing
\* is under way to the editor with the focus or from it, it is what is in that editor.
THEOREM TextAlwaysSettles ==
  ASSUME OrderlyClients, OneTextInput
  PROVE  TextSpec => []TextSettles
<1>1. TextInv => TextIsOfFocus
  <2> SUFFICES ASSUME TextInv, NEW t \in TextInputs, enabledSurfaces[t] # None,
                      enabledSurfaces[t] = textFocus, NEW f \in Fields
               PROVE  currentState.value[f] \in TextsOf[t][f] \cup {None}
    BY DEF TextIsOfFocus
  <2>1. OwnerOf[textFocus] = OwnerOf[t]
    BY DEF TextInv, TextPlaced, EnabledExist
  <2>2. textResource = t /\ textResource # None
    BY <2>1, NoneIsNoInput DEF TextInv, TextPlaced, FocusIsOfClient, OneTextInput
  <2> QED
    BY <2>2 DEF TextInv, StateIsOfFocus
<1>2. TextInv => EditorIsKnown
  <2> SUFFICES ASSUME TextInv, NEW t, t = textResource, textResource # None,
                      requests[t] = <<>>, events[t] = <<>>
               PROVE  currentState.value = editor[t]
    BY DEF EditorIsKnown
  <2>1. t \in TextInputs
    BY DEF TextInv, TextTypes, TextTypeOK
  <2>2. ~WillHear(t)
    BY DEF WillHear
  <2>3. HasHeard(t)
    BY <2>2 DEF TextInv, FocusSettles
  <2>4. pendingState.changed = {}
    BY DEF TextInv, PiecesTakeEffect
  <2>5. \A f \in Fields : Arrives(pendingState, currentState.value, <<>>, f, editor[t][f])
    BY <2>3 DEF HasHeard
  <2>6. \A f \in Fields : currentState.value[f] = editor[t][f]
    BY <2>4, <2>5 DEF Arrives
  <2>7. /\ currentState \in [value : [Fields -> Texts \cup {None}], changed : SUBSET Fields]
        /\ editor[t] \in [Fields -> Texts]
    BY <2>1 DEF TextInv, TextTypes, TextTypeOK
  <2> QED
    BY <2>6, <2>7
<1>3. TextInv => TextSettles
  BY <1>1, <1>2 DEF TextSettles
<1> QED
  BY TextInvInit, TextInvNext, <1>3, PTL DEF TextSpec

-----------------------------------------------------------------------------
(* libinput: touch points *)

\* Qt knows the finger of a slot, or of none; or it will, or will no more, with
\* the next frame.
SlotAgrees(s) ==
  \/ /\ s \in fingers /\ s \in pressedInQt
     /\ touchPoints[s] \in {"Moved", "Stationary"}
  \/ s \notin fingers /\ s \notin pressedInQt /\ touchPoints[s] = None
  \/ /\ s \in changed /\ s \in fingers /\ s \notin pressedInQt
     /\ touchPoints[s] = "Pressed"
  \/ /\ s \in changed /\ s \notin fingers /\ s \in pressedInQt
     /\ touchPoints[s] = "Released"

TouchInv ==
  /\ TouchTypeOK
  /\ ~touchCancelled => ~misled /\ \A s \in Slots : SlotAgrees(s)

LEMMA TouchInvInit == TouchInit => TouchInv
BY DEF TouchInit, TouchInv, TouchTypeOK, SlotAgrees

\* Delivering a list in which every slot agrees makes Qt know the fingers.
LEMMA DeliverSettles ==
  ASSUME TouchTypeOK, ~misled,
         NEW points \in [Slots -> TouchStates \cup {None}], Deliver(points),
         NEW down \in SUBSET Slots,
         \A s \in Slots :
           \/ s \in down /\ s \in pressedInQt /\ points[s] \in {"Moved", "Stationary"}
           \/ s \notin down /\ s \notin pressedInQt /\ points[s] = None
           \/ s \in down /\ s \notin pressedInQt /\ points[s] = "Pressed"
           \/ s \notin down /\ s \in pressedInQt /\ points[s] = "Released"
  PROVE  /\ ~misled' /\ pressedInQt' = down
         /\ \A s \in Slots : IF s \in down THEN touchPoints'[s] \in {"Moved", "Stationary"}
                             ELSE touchPoints'[s] = None
<1>1. \A s \in Slots : points[s] # None => ((points[s] = "Pressed") <=> s \notin pressedInQt)
  BY TouchAssumption DEF TouchStates
<1>2. ~misled'
  BY <1>1 DEF Deliver, Listed, TouchTypeOK
<1>3. pressedInQt' = down
  BY TouchAssumption DEF Deliver, Remaining, Listed, TouchStates
<1>4. ASSUME NEW s \in Slots
      PROVE  IF s \in down THEN touchPoints'[s] \in {"Moved", "Stationary"}
             ELSE touchPoints'[s] = None
  BY TouchAssumption DEF Deliver, TouchStates
<1> QED
  BY <1>2, <1>3, <1>4

LEMMA DeliverTypes ==
  ASSUME TouchTypeOK, NEW points \in [Slots -> TouchStates \cup {None}], Deliver(points)
  PROVE  /\ touchPoints' \in [Slots -> TouchStates \cup {None}]
         /\ pressedInQt' \subseteq Slots /\ misled' \in BOOLEAN
BY DEF Deliver, Remaining, Listed, TouchTypeOK, TouchStates

LEMMA TouchTypesNext ==
  ASSUME TouchTypeOK, [TouchNext]_touchPointVars
  PROVE  TouchTypeOK'
<1>1. ASSUME NEW slot \in Slots, HandleTouchDown(slot)
      PROVE  TouchTypeOK'
  BY <1>1 DEF HandleTouchDown, Changes, Kept, TouchTypeOK, TouchStates
<1>2. ASSUME NEW slot \in Slots, NEW samePlace \in BOOLEAN, HandleTouchMotion(slot, samePlace)
      PROVE  TouchTypeOK'
  BY <1>2 DEF HandleTouchMotion, WithState, Changes, Kept, TouchTypeOK, TouchStates
<1>3. ASSUME NEW slot \in Slots, HandleTouchUp(slot)
      PROVE  TouchTypeOK'
  <2> DEFINE points == WithState(slot, "Released")
  <2>1. /\ fingers' = fingers \ {slot} /\ changed' = changed \cup {slot}
        /\ UNCHANGED touchCancelled
    BY <1>3 DEF HandleTouchUp, Changes
  <2>2. points \in [Slots -> TouchStates \cup {None}]
    BY DEF WithState, TouchTypeOK, TouchStates
  <2> HIDE DEF points
  <2>3. CASE Deliver(points)
    BY <2>1, <2>2, <2>3, DeliverTypes DEF TouchTypeOK
  <2>4. CASE Kept(points)
    BY <2>1, <2>2, <2>4 DEF Kept, TouchTypeOK
  <2> QED
    BY <1>3, <2>3, <2>4 DEF HandleTouchUp, points
<1>4. CASE HandleTouchFrame
  <2>1. touchPoints \in [Slots -> TouchStates \cup {None}]
        /\ changed' = {} /\ UNCHANGED <<fingers, touchCancelled>>
    BY <1>4 DEF HandleTouchFrame, TouchTypeOK
  <2>2. CASE Kept(touchPoints)
    BY <2>1, <2>2 DEF Kept, TouchTypeOK
  <2>3. CASE Deliver(touchPoints)
    BY <2>1, <2>3, DeliverTypes DEF TouchTypeOK
  <2> QED
    BY <1>4, <2>2, <2>3 DEF HandleTouchFrame
<1>5. CASE HandleTouchCancel
  BY <1>5 DEF HandleTouchCancel, TouchTypeOK
<1>6. CASE UNCHANGED touchPointVars
  BY <1>6 DEF touchPointVars, TouchTypeOK
<1> QED
  BY <1>1, <1>2, <1>3, <1>4, <1>5, <1>6 DEF TouchNext

\* Without a second change of a slot in a frame every step keeps the agreement.
LEMMA TouchInvNext ==
  ASSUME OncePerFrame, TouchInv, [TouchNext]_touchPointVars
  PROVE  TouchInv'
<1> USE DEF TouchInv
<1>0. TouchTypeOK'
  BY TouchTypesNext
<1>1. ASSUME NEW slot \in Slots, HandleTouchDown(slot)
      PROVE  TouchInv'
  <2>1. ASSUME ~touchCancelled', NEW s \in Slots
        PROVE  SlotAgrees(s)'
    BY <1>1, <2>1, TouchAssumption
    DEF HandleTouchDown, MayChange, Changes, Kept, TouchTypeOK, TouchStates, SlotAgrees
  <2> QED
    BY <1>0, <1>1, <2>1 DEF HandleTouchDown, Changes, Kept
<1>2. ASSUME NEW slot \in Slots, NEW samePlace \in BOOLEAN, HandleTouchMotion(slot, samePlace)
      PROVE  TouchInv'
  <2>1. ASSUME ~touchCancelled', NEW s \in Slots
        PROVE  SlotAgrees(s)'
    BY <1>2, <2>1, TouchAssumption
    DEF HandleTouchMotion, WithState, MayChange, Changes, Kept, TouchTypeOK, TouchStates,
        SlotAgrees
  <2> QED
    BY <1>0, <1>2, <2>1 DEF HandleTouchMotion, Changes, Kept
<1>3. ASSUME NEW slot \in Slots, HandleTouchUp(slot)
      PROVE  TouchInv'
  <2> DEFINE points == WithState(slot, "Released")
  <2>1. /\ slot \in fingers /\ slot \notin changed /\ fingers' = fingers \ {slot}
        /\ changed' = changed \cup {slot} /\ UNCHANGED touchCancelled
    BY <1>3 DEF HandleTouchUp, MayChange, Changes
  <2>2. points \in [Slots -> TouchStates \cup {None}]
    BY DEF WithState, TouchTypeOK, TouchStates
  <2>3. ASSUME ~touchCancelled, NEW s \in Slots
        PROVE  \/ /\ s \in fingers' /\ s \in pressedInQt
                  /\ points[s] \in {"Moved", "Stationary"}
               \/ s \notin fingers' /\ s \notin pressedInQt /\ points[s] = None
               \/ /\ s \in changed' /\ s \in fingers' /\ s \notin pressedInQt
                  /\ points[s] = "Pressed"
               \/ /\ s \in changed' /\ s \notin fingers' /\ s \in pressedInQt
                  /\ points[s] = "Released"
    BY <2>1, <2>3, TouchAssumption DEF WithState, TouchTypeOK, TouchStates, SlotAgrees
  <2> HIDE DEF points
  <2>4. CASE Deliver(points)
    <3>1. ASSUME ~touchCancelled
          PROVE  ~misled' /\ \A s \in Slots : SlotAgrees(s)'
      <4>1. fingers' \in SUBSET Slots
        BY <2>1 DEF TouchTypeOK
      <4>2. /\ ~misled' /\ pressedInQt' = fingers'
            /\ \A s \in Slots : IF s \in fingers' THEN touchPoints'[s] \in {"Moved", "Stationary"}
                                ELSE touchPoints'[s] = None
        BY <2>2, <2>3, <2>4, <3>1, <4>1, DeliverSettles
      <4> QED
        BY <4>2 DEF SlotAgrees
    <3> QED
      BY <1>0, <2>1, <3>1
  <2>5. CASE Kept(points)
    BY <1>0, <2>1, <2>2, <2>3, <2>5 DEF Kept, TouchTypeOK, SlotAgrees
  <2> QED
    BY <1>3, <2>4, <2>5 DEF HandleTouchUp, points
<1>4. CASE HandleTouchFrame
  <2>1. touchPoints \in [Slots -> TouchStates \cup {None}] /\ fingers \in SUBSET Slots
        /\ changed' = {} /\ UNCHANGED <<fingers, touchCancelled>>
    BY <1>4 DEF HandleTouchFrame, TouchTypeOK
  <2>2. CASE Listed(touchPoints) = {}
    <3>1. UNCHANGED <<touchPoints, pressedInQt, misled>> /\ \A s \in Slots : touchPoints[s] = None
      BY <1>4, <2>2 DEF HandleTouchFrame, Kept, Listed
    <3> QED
      BY <2>1, <3>1, TouchAssumption DEF TouchTypeOK, SlotAgrees, TouchStates
  <2>3. CASE Deliver(touchPoints)
    <3>1. ASSUME ~touchCancelled
          PROVE  ~misled' /\ \A s \in Slots : SlotAgrees(s)'
      <4>1. /\ ~misled' /\ pressedInQt' = fingers
            /\ \A s \in Slots : IF s \in fingers THEN touchPoints'[s] \in {"Moved", "Stationary"}
                                ELSE touchPoints'[s] = None
        BY <2>1, <2>3, <3>1, DeliverSettles DEF SlotAgrees
      <4> QED
        BY <2>1, <4>1 DEF SlotAgrees
    <3> QED
      BY <1>0, <2>1, <3>1
  <2> QED
    BY <1>4, <2>2, <2>3 DEF HandleTouchFrame
<1>5. CASE HandleTouchCancel
  BY <1>5 DEF HandleTouchCancel, TouchTypeOK
<1>6. CASE UNCHANGED touchPointVars
  BY <1>6 DEF touchPointVars, TouchTypeOK, SlotAgrees
<1> QED
  BY <1>1, <1>2, <1>3, <1>4, <1>5, <1>6 DEF TouchNext

-----------------------------------------------------------------------------
(* Sequences that list a set *)

\* What an induction over the natural numbers starts from.
LEMMA Least ==
  ASSUME NEW T \in SUBSET Nat, T # {}
  PROVE  \E x \in T : \A y \in T : x =< y
<1> DEFINE R == OpToRel(<, Nat)
<1>1. IsWellFoundedOn(R, Nat)
  BY NatLessThanWellFounded, Zenon
<1>2. PICK x \in T : \A y \in T : <<y, x>> \notin R
  <2> HIDE DEF R
  <2> QED
    BY <1>1, WFMin
<1>3. \A y \in T : ~(y < x)
  BY <1>2 DEF OpToRel
<1> HIDE DEF R
<1> QED
  BY <1>3

\* SetToSeq() has every element of a finite set, and once.
LEMMA SetToSeqLists ==
  ASSUME NEW S, IsFiniteSet(S)
  PROVE  /\ Cardinality(S) \in Nat
         /\ SetToSeq(S) \in [1..Cardinality(S) -> S]
         /\ \A i, j \in 1..Cardinality(S) : SetToSeq(S)[i] = SetToSeq(S)[j] => i = j
         /\ \A x \in S : \E i \in 1..Cardinality(S) : SetToSeq(S)[i] = x
<1> DEFINE n == Cardinality(S)
<1>1. n \in Nat /\ ExistsBijection(1..n, S)
  BY FS_CardinalityType
<1>2. PICK g \in [1..n -> S] : IsInjective(g)
  BY <1>1 DEF ExistsBijection, Bijection, Injection
<1>3. SetToSeq(S) \in [1..n -> S] /\ IsInjective(SetToSeq(S))
  BY <1>2 DEF SetToSeq
<1>4. SetToSeq(S) \in Injection(1..n, S)
  BY <1>3 DEF Injection
<1>5. \A i, j \in 1..n : SetToSeq(S)[i] = SetToSeq(S)[j] => i = j
  BY <1>3 DEF IsInjective
<1>6. IsFiniteSet(1..n) /\ Cardinality(1..n) = n
  BY <1>1, FS_Interval
<1>7. SetToSeq(S) \in Surjection(1..n, S)
  <2>1. /\ IsFiniteSet(1..n)
        /\ Cardinality(1..n) = Cardinality(S) <=> SetToSeq(S) \in Surjection(1..n, S)
    BY <1>4, FS_Injection
  <2> QED
    BY <2>1, <1>6
<1>8. \A x \in S : \E i \in 1..n : SetToSeq(S)[i] = x
  BY <1>7 DEF Surjection
<1> QED
  BY <1>1, <1>3, <1>5, <1>8

-----------------------------------------------------------------------------
(* libinput: what events do to what Qt knows *)

EventTypes == {"Added", "Removed", "Press", "Release"}
Events == [type : EventTypes, device : InputDevices, key : InputKeys \cup {None}]

\* The devices Qt knows of, and the key that repeats.
States == [devices : SUBSET InputDevices, repeat : Repeating \cup {None}]

Known(s) == [keyboards |-> Cardinality(s.devices \cap InputKeyboards),
             touches |-> Cardinality(s.devices \cap Touchscreens),
             repeat |-> s.repeat]

\* After event e state p has become q.
Follows(p, e, q) ==
  \/ /\ e.type \in {"Press", "Release"} /\ q.devices = p.devices
     /\ q.repeat = IF e.type = "Press" /\ e.key \in Repeating THEN e.key ELSE None
  \/ /\ e.type = "Added" /\ e.device \notin p.devices
     /\ q.devices = p.devices \cup {e.device} /\ q.repeat = p.repeat
  \/ /\ e.type = "Removed" /\ e.device \in p.devices
     /\ q.devices = p.devices \ {e.device} /\ q.repeat = p.repeat

Path(path, p, es, q) ==
  /\ path \in [0..Len(es) -> States]
  /\ path[0] = p /\ path[Len(es)] = q
  /\ \A i \in 1..Len(es) : Follows(path[i - 1], es[i], path[i])

Leads(p, es, q) == \E path : Path(path, p, es, q)

\* Handling an event turns what Qt knows of p into what it knows of q.
LEMMA HandleFollows ==
  ASSUME NEW p \in States, NEW q \in States, NEW e \in Events, Follows(p, e, q)
  PROVE  Handle(Known(p), e) = Known(q)
<1>1. CASE e.type \in {"Press", "Release"}
  <2>1. q.devices = p.devices
        /\ q.repeat = IF e.type = "Press" /\ e.key \in Repeating THEN e.key ELSE None
    BY <1>1 DEF Follows
  <2> QED
    BY <1>1, <2>1 DEF Handle, HandleKey, Known
<1>2. ASSUME NEW d, d = e.device, e.type \in {"Added", "Removed"}
      PROVE  Handle(Known(p), e) = Known(q)
  <2>1. d \in InputDevices /\ (d \in InputKeyboards => d \notin Touchscreens)
        /\ (d \notin InputKeyboards => d \in Touchscreens)
    BY <1>2, InputAssumption DEF Events, InputDevices
  <2>2. q.repeat = p.repeat
        /\ IF e.type = "Added" THEN d \notin p.devices /\ q.devices = p.devices \cup {d}
           ELSE d \in p.devices /\ q.devices = p.devices \ {d}
    BY <1>2 DEF Follows
  <2>3. ASSUME NEW Class, IsFiniteSet(Class)
        PROVE  Cardinality(q.devices \cap Class) =
                 IF d \notin Class THEN Cardinality(p.devices \cap Class)
                 ELSE IF e.type = "Added" THEN Cardinality(p.devices \cap Class) + 1
                 ELSE Cardinality(p.devices \cap Class) - 1
    <3> DEFINE S == p.devices \cap Class
    <3>1. IsFiniteSet(S)
      BY <2>3, FS_Intersection
    <3>2. q.devices \cap Class = IF d \notin Class THEN S
                                 ELSE IF e.type = "Added" THEN S \cup {d} ELSE S \ {d}
      BY <2>2
    <3>3. d \in Class => (d \in S <=> e.type # "Added")
      BY <2>2
    <3> HIDE DEF S
    <3>4. Cardinality(S \cup {d}) = IF d \in S THEN Cardinality(S) ELSE Cardinality(S) + 1
      BY <3>1, FS_AddElement
    <3>5. Cardinality(S \ {d}) = IF d \in S THEN Cardinality(S) - 1 ELSE Cardinality(S)
      BY <3>1, FS_RemoveElement
    <3> QED
      BY <3>2, <3>3, <3>4, <3>5 DEF S
  <2>4. Handle(Known(p), e) = HandleDevice(Known(p), e)
    BY <1>2 DEF Handle
  <2>5. CASE d \in InputKeyboards
    <3>1. HandleDevice(Known(p), e) =
            [keyboards |-> IF e.type = "Added" THEN Cardinality(p.devices \cap InputKeyboards) + 1
                           ELSE Cardinality(p.devices \cap InputKeyboards) - 1,
             touches |-> Cardinality(p.devices \cap Touchscreens), repeat |-> p.repeat]
      BY <1>2, <2>5 DEF HandleDevice, Known
    <3>2. /\ IsFiniteSet(InputKeyboards) /\ IsFiniteSet(Touchscreens)
      BY InputAssumption
    <3>3. Cardinality(q.devices \cap InputKeyboards) =
            IF e.type = "Added" THEN Cardinality(p.devices \cap InputKeyboards) + 1
            ELSE Cardinality(p.devices \cap InputKeyboards) - 1
      BY <2>3, <2>5, <3>2
    <3>4. Cardinality(q.devices \cap Touchscreens) = Cardinality(p.devices \cap Touchscreens)
      BY <2>1, <2>3, <2>5, <3>2
    <3> QED
      BY <2>2, <2>4, <3>1, <3>3, <3>4 DEF Known
  <2>6. CASE d \notin InputKeyboards
    <3>1. HandleDevice(Known(p), e) =
            [keyboards |-> Cardinality(p.devices \cap InputKeyboards),
             touches |-> IF e.type = "Added" THEN Cardinality(p.devices \cap Touchscreens) + 1
                         ELSE Cardinality(p.devices \cap Touchscreens) - 1,
             repeat |-> p.repeat]
      BY <1>2, <2>6 DEF HandleDevice, Known
    <3>2. /\ IsFiniteSet(InputKeyboards) /\ IsFiniteSet(Touchscreens)
      BY InputAssumption
    <3>3. Cardinality(q.devices \cap Touchscreens) =
            IF e.type = "Added" THEN Cardinality(p.devices \cap Touchscreens) + 1
            ELSE Cardinality(p.devices \cap Touchscreens) - 1
      BY <2>1, <2>3, <2>6, <3>2
    <3>4. Cardinality(q.devices \cap InputKeyboards) = Cardinality(p.devices \cap InputKeyboards)
      BY <2>3, <2>6, <3>2
    <3> QED
      BY <2>2, <2>4, <3>1, <3>3, <3>4 DEF Known
  <2> QED
    BY <2>5, <2>6
<1> QED
  BY <1>1, <1>2 DEF Events, EventTypes

\* Handling the events of a path ends at its end.
LEMMA HandledLeads ==
  ASSUME NEW p, NEW q, NEW es \in Seq(Events), Leads(p, es, q)
  PROVE  Handled(Known(p), es) = Known(q)
<1> DEFINE n == Len(es)
<1>1. PICK path : Path(path, p, es, q)
  BY DEF Leads
<1>2. n \in Nat /\ \A i \in 1..n : es[i] \in Events
  OBVIOUS
<1> DEFINE g == [i \in 0..n |-> Known(path[i])]
           h == CHOOSE f : f = [i \in 0..n |-> IF i = 0 THEN Known(p)
                                               ELSE Handle(f[i - 1], es[i])]
<1>3. g = [i \in 0..n |-> IF i = 0 THEN Known(p) ELSE Handle(g[i - 1], es[i])]
  <2>1. g[0] = Known(p)
    BY <1>1, <1>2 DEF Path
  <2>2. ASSUME NEW i \in 1..n
        PROVE  g[i] = Handle(g[i - 1], es[i])
    <3>1. i - 1 \in 0..n /\ i \in 0..n
      BY <1>2
    <3>2. path[i - 1] \in States /\ path[i] \in States
          /\ Follows(path[i - 1], es[i], path[i])
      BY <1>1, <1>2, <3>1 DEF Path
    <3>3. Handle(Known(path[i - 1]), es[i]) = Known(path[i])
      BY <1>2, <3>2, HandleFollows
    <3> QED
      BY <3>1, <3>3
  <2> HIDE DEF g
  <2>3. g = [i \in 0..n |-> g[i]]
    BY DEF g
  <2>4. \A i \in 0..n : g[i] = IF i = 0 THEN Known(p) ELSE Handle(g[i - 1], es[i])
    BY <1>2, <2>1, <2>2
  <2> QED
    BY <2>3, <2>4
<1>4. h = [i \in 0..n |-> IF i = 0 THEN Known(p) ELSE Handle(h[i - 1], es[i])]
  <2> HIDE DEF g
  <2> QED
    BY <1>3
<1>5. Handled(Known(p), es) = h[n]
  BY Zenon DEF Handled
<1> HIDE DEF g, h
<1> DEFINE Apart == {i \in 0..n : h[i] # g[i]}
<1>6. Apart = {}
  <2>1. SUFFICES ASSUME Apart # {} PROVE FALSE
    OBVIOUS
  <2>2. Apart \in SUBSET Nat
    BY <1>2
  <2>3. PICK i \in Apart : \A j \in Apart : i =< j
    BY <2>1, <2>2, Least
  <2>4. i \in 1..n
    BY <1>2, <1>3, <1>4, <2>3
  <2>5. i - 1 \in 0..n /\ i - 1 \notin Apart
    BY <1>2, <2>3, <2>4
  <2>6. h[i - 1] = g[i - 1]
    BY <2>5
  <2>7. h[i] = Handle(h[i - 1], es[i]) /\ g[i] = Handle(g[i - 1], es[i])
    BY <1>2, <1>3, <1>4, <2>4
  <2> QED
    BY <2>3, <2>6, <2>7
<1>7. h[n] = g[n] /\ n \in 0..n
  BY <1>2, <1>6
<1>8. g[n] = Known(q)
  BY <1>1, <1>7 DEF g, Path
<1> QED
  BY <1>5, <1>7, <1>8

-----------------------------------------------------------------------------
(* libinput: paths of events *)

LEMMA LeadsNothing ==
  /\ \A p \in States : Leads(p, << >>, p)
  /\ \A p, q : Leads(p, << >>, q) => p = q
<1>1. ASSUME NEW p \in States
      PROVE  Path([i \in 0..0 |-> p], p, << >>, p)
  BY DEF Path
<1> QED
  BY <1>1 DEF Leads, Path

LEMMA LeadsEvent ==
  ASSUME NEW p \in States, NEW q \in States, NEW e \in Events, Follows(p, e, q)
  PROVE  Leads(p, <<e>>, q)
<1> DEFINE path == [i \in 0..1 |-> IF i = 0 THEN p ELSE q]
<1>1. Len(<<e>>) = 1 /\ <<e>>[1] = e
  OBVIOUS
<1>2. path \in [0..1 -> States] /\ path[0] = p /\ path[1] = q
  OBVIOUS
<1>3. \A i \in 1..1 : Follows(path[i - 1], e, path[i]) /\ i = 1
  BY <1>2
<1> HIDE DEF path
<1>4. Path(path, p, <<e>>, q)
  BY <1>1, <1>2, <1>3 DEF Path
<1> QED
  BY <1>4 DEF Leads

\* Paths that follow each other are one.
LEMMA LeadsOn ==
  ASSUME NEW p, NEW q, NEW r, NEW a \in Seq(Events), NEW b \in Seq(Events),
         Leads(p, a, q), Leads(q, b, r)
  PROVE  Leads(p, a \o b, r)
<1> DEFINE m == Len(a)
           n == Len(b)
<1>1. PICK first : Path(first, p, a, q)
  BY DEF Leads
<1>2. PICK second : Path(second, q, b, r)
  BY DEF Leads
<1>3. m \in Nat /\ n \in Nat /\ Len(a \o b) = m + n
  OBVIOUS
<1>4. \A i \in 1..(m + n) : (a \o b)[i] = IF i =< m THEN a[i] ELSE b[i - m]
  OBVIOUS
<1> DEFINE path == [i \in 0..(m + n) |-> IF i =< m THEN first[i] ELSE second[i - m]]
<1>5. first \in [0..m -> States] /\ second \in [0..n -> States]
      /\ first[0] = p /\ first[m] = q /\ second[0] = q /\ second[n] = r
  BY <1>1, <1>2 DEF Path
<1>6. path \in [0..(m + n) -> States]
  <2>1. ASSUME NEW i \in 0..(m + n)
        PROVE  (IF i =< m THEN first[i] ELSE second[i - m]) \in States
    <3>1. CASE i =< m
      BY <1>3, <1>5, <3>1
    <3>2. CASE ~(i =< m)
      <4>1. i - m \in 0..n
        BY <1>3, <3>2
      <4> QED
        BY <1>5, <3>2, <4>1
    <3> QED
      BY <3>1, <3>2
  <2> QED
    BY <2>1
<1>7. path[0] = p /\ path[m + n] = r
  <2>1. path[0] = p
    BY <1>3, <1>5
  <2>2. CASE n = 0
    BY <1>3, <1>5, <2>2
  <2>3. CASE n # 0
    <3>1. ~(m + n =< m) /\ (m + n) - m = n /\ m + n \in 0..(m + n)
      BY <1>3, <2>3
    <3> QED
      BY <1>5, <2>1, <3>1
  <2> QED
    BY <2>1, <2>2, <2>3
<1>8. ASSUME NEW i \in 1..(m + n)
      PROVE  Follows(path[i - 1], (a \o b)[i], path[i])
  <2>1. i \in 0..(m + n) /\ i - 1 \in 0..(m + n)
    BY <1>3
  <2>2. CASE i =< m
    <3>1. i \in 1..m /\ i - 1 =< m
      BY <1>3, <2>2
    <3>2. path[i] = first[i] /\ path[i - 1] = first[i - 1]
      BY <2>1, <2>2, <3>1
    <3>3. (a \o b)[i] = a[i]
      BY <1>4, <2>2
    <3>4. Follows(first[i - 1], a[i], first[i])
      BY <1>1, <3>1 DEF Path
    <3> HIDE DEF path
    <3> QED
      BY <3>2, <3>3, <3>4
  <2>3. CASE ~(i =< m)
    <3>1. i - m \in 1..n /\ (i - m) - 1 = (i - 1) - m
      BY <1>3, <2>3
    <3>2. path[i] = second[i - m]
      BY <2>1, <2>3
    <3>3. path[i - 1] = second[(i - m) - 1]
      <4>1. CASE i - 1 =< m
        <5>1. i - 1 = m /\ (i - m) - 1 = 0
          BY <1>3, <2>3, <4>1
        <5> QED
          BY <1>5, <2>1, <4>1, <5>1
      <4>2. CASE ~(i - 1 =< m)
        BY <2>1, <3>1, <4>2
      <4> QED
        BY <4>1, <4>2
    <3>4. (a \o b)[i] = b[i - m]
      BY <1>4, <2>3
    <3>5. Follows(second[(i - m) - 1], b[i - m], second[i - m])
      BY <1>2, <3>1 DEF Path
    <3> HIDE DEF path
    <3> QED
      BY <3>2, <3>3, <3>4, <3>5
  <2> QED
    BY <2>2, <2>3
<1> HIDE DEF path
<1>9. Path(path, p, a \o b, r)
  BY <1>3, <1>6, <1>7, <1>8 DEF Path
<1> QED
  BY <1>9 DEF Leads

-----------------------------------------------------------------------------
(* libinput: the events of devices that come and go *)

LEMMA DevicesFinite == IsFiniteSet(InputDevices)
BY InputAssumption, FS_Union DEF InputDevices

\* The events of devices that come lead to a state that has them.
LEMMA AddedLeads ==
  ASSUME NEW p \in States, NEW ds \in SUBSET InputDevices, ds \cap p.devices = {}
  PROVE  /\ AddedEvents(ds) \in Seq(Events)
         /\ Len(AddedEvents(ds)) = Cardinality(ds)
         /\ Leads(p, AddedEvents(ds),
                  [devices |-> p.devices \cup ds, repeat |-> p.repeat])
<1> DEFINE n == Cardinality(ds)
           s == SetToSeq(ds)
           es == AddedEvents(ds)
           path == [i \in 0..n |-> [devices |-> p.devices \cup {s[j] : j \in 1..i},
                                    repeat |-> p.repeat]]
           q == [devices |-> p.devices \cup ds, repeat |-> p.repeat]
<1>1. /\ n \in Nat /\ s \in [1..n -> ds]
      /\ \A i, j \in 1..n : s[i] = s[j] => i = j
      /\ \A x \in ds : \E i \in 1..n : s[i] = x
  <2>1. IsFiniteSet(ds)
    BY DevicesFinite, FS_Subset
  <2> QED
    BY <2>1, SetToSeqLists
<1>2. es = [i \in 1..n |-> InputEvent("Added", s[i], None)]
  BY DEF AddedEvents
<1> HIDE DEF s, n, es
<1>3. \A i \in 1..n : es[i] \in Events /\ es[i].type = "Added"
                      /\ es[i].device = s[i] /\ s[i] \in ds
  BY <1>1, <1>2 DEF InputEvent, Events, EventTypes
<1>4. es \in Seq(Events) /\ Len(es) = n
  BY <1>1, <1>2, <1>3
<1>5. path \in [0..n -> States]
  <2>1. ASSUME NEW i \in 0..n
        PROVE  p.devices \cup {s[j] : j \in 1..i} \subseteq InputDevices
    BY <1>1 DEF States
  <2> QED
    BY <2>1 DEF States
<1>6. path[0] = p
  <2>1. p = [devices |-> p.devices, repeat |-> p.repeat]
    BY DEF States
  <2>2. {s[j] : j \in 1..0} = {} /\ 0 \in 0..n
    BY <1>1
  <2> QED
    BY <2>1, <2>2
<1>7. path[n] = q
  <2>1. {s[j] : j \in 1..n} = ds /\ n \in 0..n
    BY <1>1
  <2> QED
    BY <2>1
<1>8. ASSUME NEW i \in 1..n
      PROVE  Follows(path[i - 1], es[i], path[i])
  <2>1. i \in 0..n /\ i - 1 \in 0..n /\ 1..i = (1..(i - 1)) \cup {i}
    BY <1>1
  <2>2. s[i] \notin p.devices \cup {s[j] : j \in 1..(i - 1)}
    BY <1>1, <1>3
  <2>3. p.devices \cup {s[j] : j \in 1..i} = (p.devices \cup {s[j] : j \in 1..(i - 1)}) \cup {s[i]}
    BY <2>1
  <2> QED
    BY <1>3, <2>1, <2>2, <2>3 DEF Follows
<1> HIDE DEF path, q
<1>9. Path(path, p, es, q)
  BY <1>4, <1>5, <1>6, <1>7, <1>8 DEF Path
<1> QED
  BY <1>4, <1>9 DEF Leads, es, n, q

\* Those of devices that go lead to a state without them.
LEMMA RemovedLeads ==
  ASSUME NEW p \in States, NEW ds \in SUBSET p.devices
  PROVE  LET es == [i \in 1..Cardinality(ds) |->
                          InputEvent("Removed", SetToSeq(ds)[i], None)]
         IN  /\ es \in Seq(Events)
             /\ Leads(p, es, [devices |-> p.devices \ ds, repeat |-> p.repeat])
<1> DEFINE n == Cardinality(ds)
           s == SetToSeq(ds)
           es == [i \in 1..n |-> InputEvent("Removed", s[i], None)]
           path == [i \in 0..n |-> [devices |-> p.devices \ {s[j] : j \in 1..i},
                                    repeat |-> p.repeat]]
           q == [devices |-> p.devices \ ds, repeat |-> p.repeat]
<1>1. /\ n \in Nat /\ s \in [1..n -> ds]
      /\ \A i, j \in 1..n : s[i] = s[j] => i = j
      /\ \A x \in ds : \E i \in 1..n : s[i] = x
  <2>1. IsFiniteSet(ds)
    BY DevicesFinite, FS_Subset DEF States
  <2> QED
    BY <2>1, SetToSeqLists
<1> HIDE DEF s, n
<1>3. \A i \in 1..n : es[i] \in Events /\ es[i].type = "Removed"
                      /\ es[i].device = s[i] /\ s[i] \in ds
  BY <1>1 DEF InputEvent, Events, EventTypes, States
<1>4. es \in Seq(Events) /\ Len(es) = n
  BY <1>1, <1>3
<1>5. path \in [0..n -> States]
  BY DEF States
<1>6. path[0] = p
  <2>1. p = [devices |-> p.devices, repeat |-> p.repeat]
    BY DEF States
  <2>2. {s[j] : j \in 1..0} = {} /\ 0 \in 0..n
    BY <1>1
  <2> QED
    BY <2>1, <2>2
<1>7. path[n] = q
  <2>1. {s[j] : j \in 1..n} = ds /\ n \in 0..n
    BY <1>1
  <2> QED
    BY <2>1
<1>8. ASSUME NEW i \in 1..n
      PROVE  Follows(path[i - 1], es[i], path[i])
  <2>1. i \in 0..n /\ i - 1 \in 0..n /\ 1..i = (1..(i - 1)) \cup {i}
    BY <1>1
  <2>2. s[i] \in p.devices \ {s[j] : j \in 1..(i - 1)}
    BY <1>1, <1>3
  <2>3. p.devices \ {s[j] : j \in 1..i} = (p.devices \ {s[j] : j \in 1..(i - 1)}) \ {s[i]}
    BY <2>1
  <2> HIDE DEF es
  <2> QED
    BY <1>3, <2>1, <2>2, <2>3 DEF Follows
<1> HIDE DEF path, q
<1>9. Path(path, p, es, q)
  <2> HIDE DEF es
  <2> QED
    BY <1>4, <1>5, <1>6, <1>7, <1>8 DEF Path
<1> QED
  BY <1>4, <1>9 DEF Leads, n, q, s

\* Those of the keys of a device that is taken away stop what repeats.
LEMMA ReleasedLeads ==
  ASSUME NEW p \in States, NEW ks \in SUBSET [device : InputDevices, key : InputKeys],
         IsFiniteSet(ks)
  PROVE  LET es == [i \in 1..Cardinality(ks) |->
                          InputEvent("Release", SetToSeq(ks)[i].device,
                                     SetToSeq(ks)[i].key)]
         IN  /\ es \in Seq(Events)
             /\ Leads(p, es, [devices |-> p.devices,
                                  repeat |-> IF ks = {} THEN p.repeat ELSE None])
<1> DEFINE n == Cardinality(ks)
           s == SetToSeq(ks)
           es == [i \in 1..n |-> InputEvent("Release", s[i].device, s[i].key)]
           path == [i \in 0..n |-> [devices |-> p.devices,
                                    repeat |-> IF i = 0 THEN p.repeat ELSE None]]
           q == [devices |-> p.devices, repeat |-> IF ks = {} THEN p.repeat ELSE None]
<1>1. n \in Nat /\ s \in [1..n -> ks]
  BY SetToSeqLists
<1>2. n = 0 <=> ks = {}
  BY FS_EmptySet
<1> HIDE DEF s, n
<1>3. \A i \in 1..n : es[i] \in Events /\ es[i].type = "Release"
  BY <1>1 DEF InputEvent, Events, EventTypes
<1>4. es \in Seq(Events) /\ Len(es) = n
  BY <1>1, <1>3
<1>5. path \in [0..n -> States]
  BY DEF States
<1>6. path[0] = p /\ path[n] = q
  <2>1. p = [devices |-> p.devices, repeat |-> p.repeat] /\ 0 \in 0..n /\ n \in 0..n
    BY <1>1 DEF States
  <2> QED
    BY <1>2, <2>1
<1>7. ASSUME NEW i \in 1..n
      PROVE  Follows(path[i - 1], es[i], path[i])
  <2>1. i \in 0..n /\ i - 1 \in 0..n /\ i # 0
    BY <1>1
  <2> HIDE DEF es
  <2> QED
    BY <1>3, <2>1 DEF Follows
<1> HIDE DEF path, q
<1>8. Path(path, p, es, q)
  <2> HIDE DEF es
  <2> QED
    BY <1>4, <1>5, <1>6, <1>7 DEF Path
<1> QED
  BY <1>4, <1>8 DEF Leads, n, q, s

LEMMA TakenLeads ==
  ASSUME NEW p \in States, NEW ds \in SUBSET p.devices, IsFiniteSet(heldKeys),
         heldKeys \subseteq [device : InputDevices, key : InputKeys]
  PROVE  /\ RemovedEvents(ds) \in Seq(Events)
         /\ Leads(p, RemovedEvents(ds),
                  [devices |-> p.devices \ ds,
                   repeat |-> IF {h \in heldKeys : h.device \in ds} = {}
                              THEN p.repeat ELSE None])
<1> DEFINE ks == {h \in heldKeys : h.device \in ds}
           releases == [i \in 1..Cardinality(ks) |->
                          InputEvent("Release", SetToSeq(ks)[i].device,
                                     SetToSeq(ks)[i].key)]
           removals == [i \in 1..Cardinality(ds) |->
                          InputEvent("Removed", SetToSeq(ds)[i], None)]
           q == [devices |-> p.devices, repeat |-> IF ks = {} THEN p.repeat ELSE None]
           r == [devices |-> p.devices \ ds,
                 repeat |-> IF ks = {} THEN p.repeat ELSE None]
<1>1. RemovedEvents(ds) = releases \o removals
  BY DEF RemovedEvents
<1>2. IsFiniteSet(ks) /\ ks \in SUBSET [device : InputDevices, key : InputKeys]
  BY FS_Subset
<1> HIDE DEF ks
<1>3. releases \in Seq(Events) /\ Leads(p, releases, q)
  BY <1>2, ReleasedLeads
<1>4. q \in States /\ ds \in SUBSET q.devices
  BY DEF States
<1>5. removals \in Seq(Events) /\ Leads(q, removals, r)
  <2>1. r = [devices |-> q.devices \ ds, repeat |-> q.repeat]
    OBVIOUS
  <2> HIDE DEF q, r
  <2> QED
    BY <1>4, <2>1, RemovedLeads
<1> HIDE DEF releases, removals, q, r
<1>6. releases \o removals \in Seq(Events) /\ Leads(p, releases \o removals, r)
  BY <1>3, <1>5, LeadsOn
<1> QED
  BY <1>1, <1>6 DEF r, ks

-----------------------------------------------------------------------------
(* libinput: what Qt knows, what waits, and what there is *)

QtKnows(p) ==
  /\ keyboardCount = Known(p).keyboards /\ touchCount = Known(p).touches
  /\ repeatKey = p.repeat

LibinputHas(q) ==
  q.devices = opened /\ (q.repeat # None => \E h \in heldKeys : h.key = q.repeat)

InputTypes ==
  /\ {connected, active, initialized, suspended, readable} \subseteq BOOLEAN
  /\ plugged \subseteq InputDevices /\ opened \subseteq plugged
  /\ heldKeys \subseteq [device : opened, key : InputKeys] /\ IsFiniteSet(heldKeys)
  /\ queue \in Seq(Events) /\ Len(queue) =< MaxQueue
  /\ handles \in [InputDevices -> 0..MaxOpened]

\* The events of the queue lead from what Qt knows to what libinput has.
QueueInv == \E p, q \in States : QtKnows(p) /\ Leads(p, queue, q) /\ LibinputHas(q)

\* What libinput has before it is set up and while it is suspended: nothing.
SessionInv ==
  /\ connected = initialized
  /\ ~initialized => /\ opened = {} /\ queue = << >> /\ ~suspended
                     /\ \A d \in InputDevices : handles[d] = 0
  /\ suspended => opened = {}

InputInv == InputTypes /\ QueueInv /\ SessionInv

LEMMA InputInvTypes == InputInv => InputTypeOK
<1>1. SUFFICES ASSUME InputInv PROVE InputTypeOK
  OBVIOUS
<1>2. PICK p \in States : QtKnows(p)
  BY <1>1 DEF InputInv, QueueInv
<1>3. ASSUME NEW Class
      PROVE  Cardinality(p.devices \cap Class) \in 0..Cardinality(InputDevices)
  <2>1. p.devices \cap Class \in SUBSET InputDevices
    BY DEF States
  <2>2. /\ IsFiniteSet(p.devices \cap Class)
        /\ Cardinality(p.devices \cap Class) =< Cardinality(InputDevices)
    BY <2>1, DevicesFinite, FS_Subset
  <2> QED
    BY <2>2, DevicesFinite, FS_CardinalityType
<1>4. {keyboardCount, touchCount} \subseteq 0..Cardinality(InputDevices)
  BY <1>2, <1>3 DEF QtKnows, Known
<1>5. repeatKey \in Repeating \cup {None}
  BY <1>2 DEF QtKnows, States
<1> QED
  BY <1>1, <1>4, <1>5 DEF InputInv, InputTypes, InputTypeOK

LEMMA InputInvSettles == InputInv => DevicesSettle
<1>1. SUFFICES ASSUME InputInv, queue = << >> PROVE DevicesSettle
  BY DEF DevicesSettle
<1>2. PICK p, q \in States : QtKnows(p) /\ Leads(p, queue, q) /\ LibinputHas(q)
  BY <1>1 DEF InputInv, QueueInv
<1>3. p = q
  BY <1>1, <1>2, LeadsNothing
<1> QED
  BY <1>2, <1>3 DEF QtKnows, LibinputHas, Known, DevicesSettle

LEMMA InputInvInit == InputInit => InputInv
<1>1. SUFFICES ASSUME InputInit PROVE InputInv
  OBVIOUS
<1> DEFINE p == [devices |-> {}, repeat |-> None]
<1>2. p \in States /\ Leads(p, << >>, p)
  BY LeadsNothing DEF States
<1>3. Known(p) = [keyboards |-> 0, touches |-> 0, repeat |-> None]
  BY FS_EmptySet DEF Known
<1>4. p.devices = {} /\ p.repeat = None
  OBVIOUS
<1> HIDE DEF p
<1>5. QtKnows(p)
  BY <1>1, <1>3, <1>4 DEF InputInit, QtKnows
<1>6. LibinputHas(p)
  BY <1>1, <1>4 DEF InputInit, LibinputHas
<1>7. QueueInv
  BY <1>1, <1>2, <1>5, <1>6 DEF InputInit, QueueInv
<1>8. InputTypes
  <2>1. handles \in [InputDevices -> 0..MaxOpened]
    BY <1>1, InputAssumption DEF InputInit
  <2>2. queue \in Seq(Events) /\ Len(queue) =< MaxQueue
    BY <1>1, InputAssumption DEF InputInit
  <2> QED
    BY <1>1, <2>1, <2>2, FS_EmptySet DEF InputInit, InputTypes
<1> QED
  BY <1>1, <1>7, <1>8 DEF InputInit, InputInv, SessionInv

\* Events lead from what libinput had to what it has.
Tell(es) ==
  /\ es \in Seq(Events)
  /\ \A q \in States :
       LibinputHas(q) => \E r \in States : Leads(q, es, r) /\ LibinputHas(r)'

\* Events that libinput queues keep the invariant, and so do those handled.
LEMMA SeesSettles ==
  ASSUME InputInv, NEW es, Tell(es), queue' = queue \o es,
         UNCHANGED <<countVars, repeatKey>>
  PROVE  QueueInv' /\ queue' \in Seq(Events)
<1>1. PICK p, q \in States : QtKnows(p) /\ Leads(p, queue, q) /\ LibinputHas(q)
  BY DEF InputInv, QueueInv
<1>2. PICK r \in States : Leads(q, es, r) /\ LibinputHas(r)'
  BY <1>1 DEF Tell
<1>3. queue \in Seq(Events) /\ es \in Seq(Events)
  BY DEF InputInv, InputTypes, Tell
<1>4. Leads(p, queue', r)
  BY <1>1, <1>2, <1>3, LeadsOn
<1>5. QtKnows(p)'
  BY <1>1 DEF QtKnows, countVars
<1> QED
  BY <1>2, <1>3, <1>4, <1>5 DEF QueueInv

LEMMA HandleSettles ==
  ASSUME InputInv, NEW es, Tell(es), HandleEvents(queue \o es)
  PROVE  QueueInv' /\ queue' = << >>
<1>1. PICK p, q \in States : QtKnows(p) /\ Leads(p, queue, q) /\ LibinputHas(q)
  BY DEF InputInv, QueueInv
<1>2. PICK r \in States : Leads(q, es, r) /\ LibinputHas(r)'
  BY <1>1 DEF Tell
<1>3. queue \in Seq(Events) /\ es \in Seq(Events) /\ queue \o es \in Seq(Events)
  BY DEF InputInv, InputTypes, Tell
<1>4. Leads(p, queue \o es, r)
  BY <1>1, <1>2, <1>3, LeadsOn
<1>5. [keyboards |-> keyboardCount, touches |-> touchCount, repeat |-> repeatKey] = Known(p)
  BY <1>1 DEF QtKnows, Known
<1>6. Handled(Known(p), queue \o es) = Known(r)
  BY <1>3, <1>4, HandledLeads
<1>7. QtKnows(r)' /\ queue' = << >>
  <2>1. /\ keyboardCount' = Known(r).keyboards /\ touchCount' = Known(r).touches
        /\ repeatKey' = Known(r).repeat /\ queue' = << >>
    BY <1>5, <1>6 DEF HandleEvents
  <2>2. Known(r).repeat = r.repeat
    BY DEF Known
  <2> QED
    BY <2>1, <2>2 DEF QtKnows
<1>8. Leads(r, queue', r)
  BY <1>7, LeadsNothing
<1> QED
  BY <1>2, <1>7, <1>8 DEF QueueInv

LEMMA InputInvNext ==
  ASSUME InputInv, [InputNext]_inputVars
  PROVE  InputInv'
<1>1. InputTypes /\ QueueInv /\ SessionInv
  BY DEF InputInv
<1>2. Tell(<< >>) <=> \A q \in States : LibinputHas(q) => LibinputHas(q)'
  <2>1. \A q \in States : Leads(q, << >>, q)
    BY LeadsNothing
  <2>2. \A q, r \in States : Leads(q, << >>, r) => r = q
    BY LeadsNothing
  <2> QED
    BY <2>1, <2>2 DEF Tell
<1>3. queue \in Seq(Events) /\ queue \o << >> = queue
  BY <1>1 DEF InputTypes
<1>4. ASSUME UNCHANGED <<opened, heldKeys>>
      PROVE  Tell(<< >>)
  BY <1>2, <1>4 DEF LibinputHas
\* A step without events, to which libinput is indifferent.
<1>5. ASSUME UNCHANGED <<opened, heldKeys, queue, countVars, repeatKey>>
      PROVE  QueueInv'
  BY <1>3, <1>4, <1>5, SeesSettles
<1>6. ASSUME NEW q \in States, LibinputHas(q), NEW ds \in SUBSET InputDevices,
             ds \cap opened = {}, opened' = opened \cup ds, UNCHANGED heldKeys
      PROVE  LET r == [devices |-> q.devices \cup ds, repeat |-> q.repeat]
             IN  r \in States /\ Leads(q, AddedEvents(ds), r) /\ LibinputHas(r)'
  <2> DEFINE r == [devices |-> q.devices \cup ds, repeat |-> q.repeat]
  <2>1. ds \cap q.devices = {}
    BY <1>6 DEF LibinputHas
  <2>2. r \in States /\ LibinputHas(r)'
    BY <1>6 DEF LibinputHas, States
  <2> HIDE DEF r
  <2>3. Leads(q, AddedEvents(ds), r)
    BY <2>1, AddedLeads DEF r
  <2> QED
    BY <2>2, <2>3 DEF r
<1>7. ASSUME NEW ds \in SUBSET InputDevices, ds \cap opened = {},
             opened' = opened \cup ds, UNCHANGED heldKeys
      PROVE  /\ Tell(AddedEvents(ds))
             /\ Len(AddedEvents(ds)) = Cardinality(ds)
  <2>1. PICK q \in States : LibinputHas(q)
    BY <1>1 DEF QueueInv
  <2>2. ds \cap q.devices = {}
    BY <1>7, <2>1 DEF LibinputHas
  <2>3. AddedEvents(ds) \in Seq(Events)
        /\ Len(AddedEvents(ds)) = Cardinality(ds)
    BY <2>2, AddedLeads
  <2> QED
    BY <1>6, <1>7, <2>3 DEF Tell
<1>8. ASSUME NEW ds \in SUBSET opened, opened' = opened \ ds,
             heldKeys' = {h \in heldKeys : h.device \notin ds}
      PROVE  Tell(RemovedEvents(ds))
  <2> DEFINE lost == {h \in heldKeys : h.device \in ds}
  <2>1. heldKeys \subseteq [device : InputDevices, key : InputKeys] /\ IsFiniteSet(heldKeys)
    BY <1>1 DEF InputTypes
  <2>2. ASSUME NEW q \in States, LibinputHas(q)
        PROVE  /\ RemovedEvents(ds) \in Seq(Events)
               /\ \E r \in States : Leads(q, RemovedEvents(ds), r) /\ LibinputHas(r)'
    <3>1. PICK r : r = [devices |-> q.devices \ ds,
                        repeat |-> IF lost = {} THEN q.repeat ELSE None]
      OBVIOUS
    <3>2. ds \in SUBSET q.devices
      BY <2>2 DEF LibinputHas
    <3>3. RemovedEvents(ds) \in Seq(Events) /\ Leads(q, RemovedEvents(ds), r)
      BY <2>1, <3>1, <3>2, TakenLeads
    <3>4. r \in States
      BY <3>1 DEF States
    <3>5. lost = {} => heldKeys' = heldKeys
      BY <1>8
    <3> HIDE DEF lost
    <3>6. r.devices = q.devices \ ds /\ r.repeat = IF lost = {} THEN q.repeat ELSE None
      BY <3>1
    <3>7. r.devices = opened'
      BY <1>8, <2>2, <3>6 DEF LibinputHas
    <3>8. r.repeat # None => \E h \in heldKeys' : h.key = r.repeat
      BY <2>2, <3>5, <3>6 DEF LibinputHas
    <3>9. LibinputHas(r)'
      BY <3>7, <3>8 DEF LibinputHas
    <3> QED
      BY <3>3, <3>4, <3>9
  <2>3. PICK q \in States : LibinputHas(q)
    BY <1>1 DEF QueueInv
  <2> QED
    BY <2>2, <2>3 DEF Tell
<1>9. ASSUME NEW d \in InputDevices, Unplug(d)
      PROVE  InputInv'
  <2>1. /\ plugged' = plugged \ {d} /\ opened' = opened \ {d}
        /\ heldKeys' = {h \in heldKeys : h.device # d}
        /\ UNCHANGED <<sessionVars, initialized, suspended, countVars, repeatKey, handles>>
    BY <1>9 DEF Unplug
  <2>2. /\ plugged' \subseteq InputDevices /\ opened' \subseteq plugged'
        /\ heldKeys' \subseteq [device : opened', key : InputKeys]
    BY <1>1, <2>1 DEF InputTypes
  <2>3. IsFiniteSet(heldKeys')
    <3>1. IsFiniteSet(heldKeys) /\ heldKeys' \in SUBSET heldKeys
      BY <1>1, <2>1 DEF InputTypes
    <3> QED
      BY <3>1, FS_Subset
  <2>4. CASE d \in opened
    <3>1. queue' = queue \o RemovedEvents({d}) /\ readable' = TRUE
          /\ Len(queue) + Len(RemovedEvents({d})) =< MaxQueue
      BY <1>9, <2>4 DEF Unplug, Sees
    <3>2. Tell(RemovedEvents({d}))
      <4>1. {d} \in SUBSET opened /\ opened' = opened \ {d}
            /\ heldKeys' = {h \in heldKeys : h.device \notin {d}}
        BY <2>1, <2>4
      <4> QED
        BY <1>8, <4>1
    <3>3. QueueInv' /\ queue' \in Seq(Events)
      BY <2>1, <3>1, <3>2, SeesSettles
    <3>4. Len(queue') =< MaxQueue
      BY <1>3, <3>1, <3>2 DEF Tell
    <3>5. initialized /\ ~suspended
      BY <1>1, <2>4 DEF SessionInv
    <3>6. InputTypes'
      BY <1>1, <2>1, <2>2, <2>3, <3>1, <3>3, <3>4 DEF InputTypes, sessionVars
    <3>7. SessionInv'
      BY <1>1, <2>1, <3>5 DEF SessionInv, sessionVars
    <3> QED
      BY <3>3, <3>6, <3>7 DEF InputInv
  <2>5. CASE d \notin opened
    <3>1. UNCHANGED <<queue, readable>>
      BY <1>9, <2>5 DEF Unplug
    <3>2. opened' = opened /\ heldKeys' = heldKeys
      BY <1>1, <2>1, <2>5 DEF InputTypes
    <3>3. QueueInv'
      BY <1>5, <2>1, <3>1, <3>2
    <3>4. InputTypes'
      BY <1>1, <2>1, <2>2, <2>3, <3>1 DEF InputTypes, sessionVars
    <3>5. SessionInv'
      BY <1>1, <2>1, <3>1, <3>2 DEF SessionInv, sessionVars
    <3> QED
      BY <3>3, <3>4, <3>5 DEF InputInv
  <2> QED
    BY <2>4, <2>5
<1>10. ASSUME NEW d \in InputDevices, NEW given \in BOOLEAN, Plug(d, given)
       PROVE  InputInv'
  <2>1. /\ d \notin plugged /\ handles[d] < MaxOpened /\ plugged' = plugged \cup {d}
        /\ UNCHANGED <<sessionVars, initialized, suspended, heldKeys, countVars, repeatKey>>
    BY <1>10 DEF Plug
  <2>2. CASE initialized /\ ~suspended /\ given
    <3>1. /\ opened' = opened \cup {d} /\ handles' = Open({d})
          /\ queue' = queue \o AddedEvents({d}) /\ readable' = TRUE
          /\ Len(queue) + Len(AddedEvents({d})) =< MaxQueue
      BY <1>10, <2>2 DEF Plug, Sees
    <3>2. {d} \in SUBSET InputDevices /\ {d} \cap opened = {}
      BY <1>1, <2>1 DEF InputTypes
    <3>3. Tell(AddedEvents({d}))
      BY <1>7, <2>1, <3>1, <3>2
    <3>4. QueueInv' /\ queue' \in Seq(Events)
      BY <2>1, <3>1, <3>3, SeesSettles
    <3>5. Len(queue') =< MaxQueue
      BY <1>3, <3>1, <3>3 DEF Tell
    <3>6. handles' \in [InputDevices -> 0..MaxOpened]
      BY <1>1, <2>1, <3>1, InputAssumption DEF InputTypes, Open
    <3>7. /\ plugged' \subseteq InputDevices /\ opened' \subseteq plugged'
          /\ heldKeys' \subseteq [device : opened', key : InputKeys] /\ IsFiniteSet(heldKeys')
      BY <1>1, <2>1, <3>1 DEF InputTypes
    <3>8. InputTypes'
      BY <1>1, <2>1, <3>1, <3>4, <3>5, <3>6, <3>7 DEF InputTypes, sessionVars
    <3>9. SessionInv'
      BY <1>1, <2>1, <2>2 DEF SessionInv, sessionVars
    <3> QED
      BY <3>4, <3>8, <3>9 DEF InputInv
  <2>3. CASE UNCHANGED <<opened, handles, queue, readable>>
    <3>1. QueueInv'
      BY <1>5, <2>1, <2>3
    <3>2. InputTypes'
      BY <1>1, <2>1, <2>3 DEF InputTypes, sessionVars
    <3>3. SessionInv'
      BY <1>1, <2>1, <2>3 DEF SessionInv, sessionVars
    <3> QED
      BY <3>1, <3>2, <3>3 DEF InputInv
  <2> QED
    BY <1>10, <2>2, <2>3 DEF Plug
<1>11. ASSUME NEW d \in InputKeyboards, NEW k \in InputKeys, PressKey(d, k)
       PROVE  InputInv'
  <2> DEFINE hk == [device |-> d, key |-> k]
             e == InputEvent("Press", d, k)
  <2>1. /\ d \in opened /\ heldKeys' = heldKeys \cup {hk}
        /\ queue' = queue \o <<e>> /\ readable' = TRUE /\ Len(queue) + Len(<<e>>) =< MaxQueue
        /\ UNCHANGED <<sessionVars, initialized, suspended, plugged, opened, countVars,
                       repeatKey, handles>>
    BY <1>11 DEF PressKey, Sees
  <2>2. e \in Events /\ e.type = "Press" /\ e.key = k
    BY <1>1, <2>1 DEF InputTypes, Events, EventTypes, InputEvent
  <2>3. ASSUME NEW q \in States, LibinputHas(q)
        PROVE  \E r \in States : Leads(q, <<e>>, r) /\ LibinputHas(r)'
    <3> DEFINE r == [devices |-> q.devices, repeat |-> IF k \in Repeating THEN k ELSE None]
    <3>1. r \in States /\ r.devices = q.devices
          /\ r.repeat = IF k \in Repeating THEN k ELSE None
      BY DEF States
    <3> HIDE DEF r, e
    <3>2. Follows(q, e, r)
      BY <2>2, <3>1 DEF Follows
    <3>3. Leads(q, <<e>>, r)
      BY <2>2, <3>1, <3>2, LeadsEvent
    <3>4. hk.key = k /\ hk \in heldKeys'
      BY <2>1
    <3>5. LibinputHas(r)'
      BY <2>1, <2>3, <3>1, <3>4 DEF LibinputHas
    <3> QED
      BY <3>1, <3>3, <3>5
  <2>4. Tell(<<e>>)
    <3> HIDE DEF e
    <3> QED
      BY <2>2, <2>3 DEF Tell
  <2>5. QueueInv' /\ queue' \in Seq(Events)
    BY <2>1, <2>4, SeesSettles
  <2>6. Len(queue') =< MaxQueue
    BY <1>3, <2>1, <2>4 DEF Tell
  <2>7. heldKeys' \subseteq [device : opened', key : InputKeys] /\ IsFiniteSet(heldKeys')
    <3>1. hk \in [device : opened', key : InputKeys]
      BY <2>1
    <3> HIDE DEF hk
    <3> QED
      BY <1>1, <2>1, <3>1, FS_AddElement DEF InputTypes
  <2>8. InputTypes'
    BY <1>1, <2>1, <2>5, <2>6, <2>7 DEF InputTypes, sessionVars
  <2>9. initialized
    BY <1>1, <2>1 DEF SessionInv
  <2>10. SessionInv'
    BY <1>1, <2>1, <2>9 DEF SessionInv, sessionVars
  <2> QED
    BY <2>5, <2>8, <2>10 DEF InputInv
<1>12. ASSUME NEW h \in heldKeys, ReleaseKey(h)
       PROVE  InputInv'
  <2> DEFINE e == InputEvent("Release", h.device, h.key)
  <2>1. /\ heldKeys' = heldKeys \ {h}
        /\ queue' = queue \o <<e>> /\ readable' = TRUE /\ Len(queue) + Len(<<e>>) =< MaxQueue
        /\ UNCHANGED <<sessionVars, initialized, suspended, plugged, opened, countVars,
                       repeatKey, handles>>
    BY <1>12 DEF ReleaseKey, Sees
  <2>2. e \in Events /\ e.type = "Release" /\ h.device \in opened
    BY <1>1 DEF InputTypes, Events, EventTypes, InputEvent
  <2>3. ASSUME NEW q \in States, LibinputHas(q)
        PROVE  \E r \in States : Leads(q, <<e>>, r) /\ LibinputHas(r)'
    <3> DEFINE r == [devices |-> q.devices, repeat |-> None]
    <3>1. r \in States /\ r.devices = q.devices /\ r.repeat = None
      BY DEF States
    <3> HIDE DEF r, e
    <3>2. Follows(q, e, r)
      BY <2>2, <3>1 DEF Follows
    <3>3. Leads(q, <<e>>, r)
      BY <2>2, <3>1, <3>2, LeadsEvent
    <3>4. LibinputHas(r)'
      BY <2>1, <2>3, <3>1 DEF LibinputHas
    <3> QED
      BY <3>1, <3>3, <3>4
  <2>4. Tell(<<e>>)
    <3> HIDE DEF e
    <3> QED
      BY <2>2, <2>3 DEF Tell
  <2>5. QueueInv' /\ queue' \in Seq(Events)
    BY <2>1, <2>4, SeesSettles
  <2>6. Len(queue') =< MaxQueue
    BY <1>3, <2>1, <2>4 DEF Tell
  <2>7. heldKeys' \subseteq [device : opened', key : InputKeys] /\ IsFiniteSet(heldKeys')
    BY <1>1, <2>1, FS_RemoveElement DEF InputTypes
  <2>8. InputTypes'
    BY <1>1, <2>1, <2>5, <2>6, <2>7 DEF InputTypes, sessionVars
  <2>9. initialized
    BY <1>1, <2>2 DEF SessionInv
  <2>10. SessionInv'
    BY <1>1, <2>1, <2>9 DEF SessionInv, sessionVars
  <2> QED
    BY <2>5, <2>8, <2>10 DEF InputInv
<1>13. ASSUME NEW given \in SUBSET InputDevices, Connect(given)
       PROVE  InputInv'
  <2>1. /\ ~connected /\ given \subseteq plugged /\ connected' = TRUE /\ initialized' = TRUE
        /\ opened' = given /\ handles' = Open(given) /\ HandleEvents(AddedEvents(given))
        /\ UNCHANGED <<active, suspended, plugged, heldKeys>>
    BY <1>13 DEF Connect
  <2>2. /\ opened = {} /\ queue = << >> /\ ~suspended
        /\ \A d \in InputDevices : handles[d] = 0
    BY <1>1, <2>1 DEF SessionInv
  <2>3. heldKeys = {}
    BY <1>1, <2>2 DEF InputTypes
  <2>4. Tell(AddedEvents(given))
    BY <1>7, <2>1, <2>2
  <2>5. queue \o AddedEvents(given) = AddedEvents(given)
    BY <2>2, <2>4 DEF Tell
  <2>6. QueueInv' /\ queue' = << >>
    BY <2>1, <2>4, <2>5, HandleSettles
  <2>7. handles' \in [InputDevices -> 0..MaxOpened]
    BY <1>1, <2>1, <2>2, InputAssumption DEF InputTypes, Open
  <2>8. queue' \in Seq(Events) /\ Len(queue') =< MaxQueue /\ readable' = FALSE
    BY <2>1, <2>6, InputAssumption DEF HandleEvents
  <2>9. InputTypes'
    BY <1>1, <2>1, <2>3, <2>7, <2>8 DEF InputTypes
  <2>10. SessionInv'
    BY <1>1, <2>1, <2>2 DEF SessionInv
  <2> QED
    BY <2>6, <2>9, <2>10 DEF InputInv
<1>14. CASE SessionInactive
  <2>1. active' = FALSE /\ UNCHANGED <<connected, initialized, plugged, handles>>
    BY <1>14 DEF SessionInactive
  <2>2. CASE initialized /\ ~suspended
    <3>1. /\ suspended' = TRUE /\ opened' = {} /\ heldKeys' = {}
          /\ HandleEvents(queue \o RemovedEvents(opened))
      BY <1>14, <2>2 DEF SessionInactive
    <3>2. opened \in SUBSET opened /\ opened' = opened \ opened
          /\ heldKeys' = {h \in heldKeys : h.device \notin opened}
      BY <1>1, <3>1 DEF InputTypes
    <3>3. Tell(RemovedEvents(opened))
      BY <1>8, <3>2
    <3>4. QueueInv' /\ queue' = << >>
      BY <3>1, <3>3, HandleSettles
    <3>5. queue' \in Seq(Events) /\ Len(queue') =< MaxQueue /\ readable' = FALSE
      BY <3>1, <3>4, InputAssumption DEF HandleEvents
    <3>6. InputTypes'
      BY <1>1, <2>1, <3>1, <3>5, FS_EmptySet DEF InputTypes
    <3>7. SessionInv'
      BY <1>1, <2>1, <2>2, <3>1 DEF SessionInv
    <3> QED
      BY <3>4, <3>6, <3>7 DEF InputInv
  <2>3. CASE UNCHANGED <<suspended, opened, heldKeys, queue, readable, countVars, repeatKey>>
    <3>1. QueueInv'
      BY <1>5, <2>3
    <3>2. InputTypes'
      BY <1>1, <2>1, <2>3 DEF InputTypes
    <3>3. SessionInv'
      BY <1>1, <2>1, <2>3 DEF SessionInv
    <3> QED
      BY <3>1, <3>2, <3>3 DEF InputInv
  <2> QED
    BY <1>14, <2>2, <2>3 DEF SessionInactive
<1>15. ASSUME NEW given \in SUBSET InputDevices, NEW works \in BOOLEAN,
              SessionActive(given, works)
       PROVE  InputInv'
  <2>1. /\ active' = TRUE
        /\ UNCHANGED <<connected, initialized, plugged, heldKeys, readable, countVars,
                       repeatKey>>
    BY <1>15 DEF SessionActive
  <2>2. CASE initialized /\ suspended /\ works
    <3>1. /\ given \subseteq plugged /\ \A d \in given : handles[d] < MaxOpened
          /\ Len(queue) + Cardinality(given) =< MaxQueue
          /\ suspended' = FALSE /\ opened' = given /\ handles' = Open(given)
          /\ queue' = queue \o AddedEvents(given)
      BY <1>15, <2>2 DEF SessionActive
    <3>2. opened = {} /\ heldKeys = {}
      BY <1>1, <2>2 DEF SessionInv, InputTypes
    <3>3. Tell(AddedEvents(given)) /\ Len(AddedEvents(given)) = Cardinality(given)
      BY <1>7, <2>1, <3>1, <3>2
    <3>4. QueueInv' /\ queue' \in Seq(Events)
      BY <2>1, <3>1, <3>3, SeesSettles
    <3>5. Len(queue') =< MaxQueue
      BY <1>3, <3>1, <3>3 DEF Tell
    <3>6. handles' \in [InputDevices -> 0..MaxOpened]
      BY <1>1, <3>1, InputAssumption DEF InputTypes, Open
    <3>7. InputTypes'
      BY <1>1, <2>1, <3>1, <3>2, <3>4, <3>5, <3>6 DEF InputTypes
    <3>8. SessionInv'
      BY <1>1, <2>1, <2>2, <3>1 DEF SessionInv
    <3> QED
      BY <3>4, <3>7, <3>8 DEF InputInv
  <2>3. CASE UNCHANGED <<suspended, opened, handles, queue>>
    <3>1. QueueInv'
      BY <1>5, <2>1, <2>3
    <3>2. InputTypes'
      BY <1>1, <2>1, <2>3 DEF InputTypes
    <3>3. SessionInv'
      BY <1>1, <2>1, <2>3 DEF SessionInv
    <3> QED
      BY <3>1, <3>2, <3>3 DEF InputInv
  <2> QED
    BY <1>15, <2>2, <2>3 DEF SessionActive
<1>16. CASE LiEventHandler
  <2>1. /\ initialized /\ HandleEvents(queue)
        /\ UNCHANGED <<sessionVars, initialized, suspended, inputDeviceVars, handles>>
    BY <1>16 DEF LiEventHandler
  <2>2. Tell(<< >>)
    BY <1>4, <2>1 DEF inputDeviceVars
  <2>3. QueueInv' /\ queue' = << >>
    BY <1>3, <2>1, <2>2, HandleSettles
  <2>4. queue' \in Seq(Events) /\ Len(queue') =< MaxQueue /\ readable' = FALSE
    BY <2>1, <2>3, InputAssumption DEF HandleEvents
  <2>5. InputTypes'
    BY <1>1, <2>1, <2>4 DEF InputTypes, sessionVars, inputDeviceVars
  <2>6. SessionInv'
    BY <1>1, <2>1, <2>3 DEF SessionInv, sessionVars, inputDeviceVars
  <2> QED
    BY <2>3, <2>5, <2>6 DEF InputInv
<1>17. CASE UNCHANGED inputVars
  <2>1. QueueInv'
    BY <1>5, <1>17 DEF inputVars, inputDeviceVars
  <2>2. InputTypes' /\ SessionInv'
    BY <1>1, <1>17
    DEF inputVars, inputDeviceVars, sessionVars, InputTypes, SessionInv
  <2> QED
    BY <2>1, <2>2 DEF InputInv
<1> QED
  BY <1>9, <1>10, <1>11, <1>12, <1>13, <1>14, <1>15, <1>16, <1>17 DEF InputNext

-----------------------------------------------------------------------------
\* Type correctness: the handles and counts are in their bounds, the keys that
\* are down are of devices there are.
THEOREM InputTypeCorrect == InputSpec => []InputTypeOK
<1>1. InputSpec => []InputInv
  BY InputInvInit, InputInvNext, PTL DEF InputSpec
<1> QED
  BY <1>1, InputInvTypes, PTL

\* The types of the lists of touch points, however often a slot changes.
THEOREM TouchTypeCorrect == TouchSpec => []TouchTypeOK
<1>1. TouchInit => TouchTypeOK
  BY DEF TouchInit, TouchTypeOK
<1> QED
  BY <1>1, TouchTypesNext, PTL DEF TouchSpec

\* However fingers come and go, a slot at a time in a frame, and whatever is
\* plugged, pulled out, held, and taken away by the session: after a frame Qt
\* has the fingers there are, and after the events the devices, and no key
\* repeats that is not held.
THEOREM InputAlwaysSettles ==
  ASSUME OncePerFrame PROVE TouchSpec /\ InputSpec => []InputSettles
<1>1. TouchSpec => []TouchInv
  BY TouchInvInit, TouchInvNext, PTL DEF TouchSpec
<1>2. InputSpec => []InputInv
  BY InputInvInit, InputInvNext, PTL DEF InputSpec
<1>3. TouchInv => FingersAgree
  BY TouchAssumption DEF TouchInv, TouchTypeOK, TouchStates, SlotAgrees, FingersAgree
<1>4. InputInv => DevicesSettle
  BY InputInvSettles
<1>5. FingersAgree /\ DevicesSettle => InputSettles
  BY DEF InputSettles
<1> QED
  BY <1>1, <1>2, <1>3, <1>4, <1>5, PTL
=============================================================================
