--------------------------- MODULE Windows_proofs ---------------------------
(***************************************************************************)
(* Proofs about the windows of the shells, their popups and the windows of *)
(* X clients, for any number of windows, applications, clients, popups and *)
(* surfaces.                                                               *)
(***************************************************************************)
EXTENDS ApplicationWindows, PopupGrab, XWaylandWindows, FiniteSetTheorems,
        SequenceTheorems, TLAPS

-----------------------------------------------------------------------------
(* Windows and their applications *)

\* A window that was not created has no application.
NoNameUnused == \A w \in Windows \ Objects : appId[w] = None

\* Its client has no configure event.
NoneSentUnused ==
  \A w \in XdgWindows : w \notin Objects => unacked[w] = <<>>

\* Is w active when its client has acknowledged what it was sent?
WillBeActive(w) ==
  IF unacked[w] = <<>> THEN w \in active ELSE unacked[w][Len(unacked[w])]

\* A window of xdg-shell whose client keeps up will be active if it has the
\* focus, and only then.
FocusTold ==
  \A w \in KeepUp \cap windowsList : WillBeActive(w) <=> keyboardFocus = w

\* A window of wl_shell with the focus is the active one.
WlActive == keyboardFocus \in WlWindows => active \cap WlWindows = {keyboardFocus}

ActiveInv == ApplicationsTypeOK /\ NoneSentUnused /\ FocusTold /\ WlActive

NamesInv == ApplicationsTypeOK /\ NoNameUnused /\ ApplicationsHaveWindows

\* An event that is appended is the last one.
LEMMA AppendedIsLast ==
  ASSUME NEW q \in Seq(BOOLEAN), NEW e \in BOOLEAN
  PROVE  /\ Append(q, e) \in Seq(BOOLEAN) /\ Append(q, e) # <<>>
         /\ Append(q, e)[Len(Append(q, e))] = e
  OBVIOUS

\* The first event goes and the last one stays the last, if there is another.
LEMMA RestEndsAlike ==
  ASSUME NEW q \in Seq(BOOLEAN), q # <<>>
  PROVE  /\ Head(q) \in BOOLEAN /\ Tail(q) \in Seq(BOOLEAN)
         /\ IF Tail(q) = <<>> THEN q[Len(q)] = Head(q)
            ELSE Tail(q)[Len(Tail(q))] = q[Len(q)]
<1>1. /\ Head(q) \in BOOLEAN /\ Tail(q) \in Seq(BOOLEAN)
      /\ Len(Tail(q)) = Len(q) - 1 /\ \A i \in 1..Len(Tail(q)) : Tail(q)[i] = q[i + 1]
  BY HeadTailProperties
<1>2. Len(q) \in Nat /\ Head(q) = q[1]
  OBVIOUS
<1>3. CASE Tail(q) = <<>>
  <2>1. Len(q) = 1
    BY <1>1, <1>2, <1>3, EmptySeq
  <2> QED  BY <1>1, <1>2, <1>3, <2>1
<1>4. CASE Tail(q) # <<>>
  <2>1. Len(Tail(q)) # 0 /\ Len(Tail(q)) \in Nat
    BY <1>1, <1>4, EmptySeq
  <2>2. Len(Tail(q)) \in 1..Len(Tail(q)) /\ Len(Tail(q)) + 1 = Len(q)
    BY <1>1, <1>2, <2>1
  <2> QED  BY <1>1, <1>4, <2>2
<1> QED  BY <1>3, <1>4

\* The only event is the first and the last one.
LEMMA OnlyEvent ==
  ASSUME NEW q \in Seq(BOOLEAN), q # <<>>, Len(q) <= 1
  PROVE  Head(q) = q[Len(q)]
<1>1. Len(q) \in Nat /\ Head(q) = q[1]
  OBVIOUS
<1>2. Len(q) # 0
  BY EmptySeq
<1> QED  BY <1>1, <1>2

\* Giving the focus to s keeps what is known of the focus: the one that had
\* it is told, and so is s.
LEMMA TakeFocusKeeps ==
  ASSUME NEW s \in windowsList, NEW old \in (windowsList \cup {None}),
         ApplicationsTypeOK, NoneSentUnused,
         \A w \in KeepUp \cap windowsList' : WillBeActive(w) <=> old = w,
         old \in WlWindows => active \cap WlWindows = {old},
         s \in windowsList', windowsList' \subseteq windowsList, Objects' = Objects,
         TakeFocus(s, old)
  PROVE  /\ unacked' \in [XdgWindows -> Seq(BOOLEAN)] /\ keyboardFocus' = s
         /\ active' \subseteq Objects /\ minimized' \subseteq Objects
         /\ focusedWindow' \in Windows \cup {None}
         /\ NoneSentUnused' /\ FocusTold' /\ WlActive'
<1> USE WindowsAssumption
<1>1. /\ s \in Windows /\ s # None /\ s \in Objects
      /\ windowsList \subseteq Objects /\ Objects \subseteq Windows
  BY DEF ApplicationsTypeOK, Objects
<1>2. CASE s = old
  <2>1. keyboardFocus' = s /\ UNCHANGED <<unacked, active, minimized, focusedWindow>>
    BY <1>2 DEF TakeFocus, activeVars
  <2> QED
    BY <1>1, <1>2, <2>1
    DEF ApplicationsTypeOK, NoneSentUnused, FocusTold, WlActive, WillBeActive
<1>3. CASE s # old
  <2>1. keyboardFocus' = s /\ SendActivated(s, old) /\ ActivateWlWindow(s)
    BY <1>3 DEF TakeFocus
  <2>2. unacked' = [w \in XdgWindows |->
                     IF w = s THEN Append(unacked[w], TRUE)
                     ELSE IF w = old THEN Append(unacked[w], FALSE)
                     ELSE unacked[w]]
    BY <1>3, <2>1 DEF SendActivated
  <2>3. ASSUME NEW w \in XdgWindows
        PROVE  /\ unacked[w] \in Seq(BOOLEAN)
               /\ unacked'[w] = IF w = s THEN Append(unacked[w], TRUE)
                                ELSE IF w = old THEN Append(unacked[w], FALSE)
                                ELSE unacked[w]
               /\ unacked'[w] \in Seq(BOOLEAN)
    <3>1. unacked[w] \in Seq(BOOLEAN)
      BY DEF ApplicationsTypeOK
    <3>2. unacked'[w] = IF w = s THEN Append(unacked[w], TRUE)
                        ELSE IF w = old THEN Append(unacked[w], FALSE)
                        ELSE unacked[w]
      BY <2>2
    <3> QED  BY <3>1, <3>2, AppendedIsLast
  <2>4. unacked' \in [XdgWindows -> Seq(BOOLEAN)]
    BY <2>2, <2>3
  <2>5. FocusTold' <=> \A w \in KeepUp \cap windowsList' :
          (IF unacked'[w] = <<>> THEN w \in active'
           ELSE unacked'[w][Len(unacked'[w])]) <=> s = w
    BY <2>1 DEF FocusTold, WillBeActive
  <2>6. CASE s \in WlWindows
    <3>1. /\ active' = (active \ ((WlWindows \cap Objects) \ {s})) \cup {s}
          /\ minimized' = minimized \ (WlWindows \cap Objects)
          /\ focusedWindow' = IF {s} \subseteq active THEN focusedWindow
                              ELSE CHOOSE w \in {s} \ active : TRUE
      BY <2>1, <2>6 DEF ActivateWlWindow, SetActive
    <3>2. focusedWindow' \in Windows \cup {None}
      BY <1>1, <3>1 DEF ApplicationsTypeOK
    <3>3. active' \subseteq Objects /\ minimized' \subseteq Objects
      BY <1>1, <3>1 DEF ApplicationsTypeOK
    <3>4. WlActive'
      BY <2>1, <2>6, <3>1 DEF WlActive, ApplicationsTypeOK
    <3>5. \A w \in XdgWindows : w \in active' <=> w \in active
      BY <2>6, <3>1 DEF WlWindows
    <3>6. FocusTold'
      <4> SUFFICES ASSUME NEW w \in KeepUp \cap windowsList'
                   PROVE  (IF unacked'[w] = <<>> THEN w \in active'
                           ELSE unacked'[w][Len(unacked'[w])]) <=> s = w
        BY <2>5
      <4>1. w # s
        BY <2>6 DEF WlWindows
      <4>2. CASE w = old
        BY <2>3, <4>1, <4>2, AppendedIsLast
      <4>3. CASE w # old
        BY <2>3, <3>5, <4>1, <4>3 DEF WillBeActive
      <4> QED  BY <4>2, <4>3
    <3>7. NoneSentUnused'
      BY <1>1, <2>3 DEF NoneSentUnused
    <3> QED  BY <2>1, <2>4, <3>2, <3>3, <3>4, <3>6, <3>7
  <2>7. CASE s \notin WlWindows
    <3>1. UNCHANGED <<active, minimized, focusedWindow>>
      BY <2>1, <2>7 DEF ActivateWlWindow, activeVars
    <3>2. WlActive'
      BY <2>1, <2>7 DEF WlActive
    <3>3. FocusTold'
      <4> SUFFICES ASSUME NEW w \in KeepUp \cap windowsList'
                   PROVE  (IF unacked'[w] = <<>> THEN w \in active'
                           ELSE unacked'[w][Len(unacked'[w])]) <=> s = w
        BY <2>5
      <4>1. CASE w = s
        BY <2>3, <4>1, AppendedIsLast
      <4>2. CASE w # s /\ w = old
        BY <2>3, <4>2, AppendedIsLast
      <4>3. CASE w # s /\ w # old
        BY <2>3, <3>1, <4>3 DEF WillBeActive
      <4> QED  BY <4>1, <4>2, <4>3
    <3>4. NoneSentUnused'
      BY <1>1, <2>3 DEF NoneSentUnused
    <3> QED  BY <2>1, <2>4, <3>1, <3>2, <3>3, <3>4 DEF ApplicationsTypeOK
  <2> QED  BY <2>6, <2>7
<1> QED  BY <1>2, <1>3
\* In the beginning there is no window, and nothing was said of any.
LEMMA ActiveInit == ApplicationsInit => ActiveInv
<1> USE WindowsAssumption
<1> SUFFICES ASSUME ApplicationsInit PROVE ActiveInv
  OBVIOUS
<1>1. ApplicationsTypeOK
  BY DEF ApplicationsInit, ApplicationsTypeOK, Objects
<1>2. NoneSentUnused /\ WlActive /\ FocusTold
  BY DEF ApplicationsInit, NoneSentUnused, WlActive, WlWindows, FocusTold
<1> QED  BY <1>1, <1>2 DEF ActiveInv

\* Whatever the clients and the shell do keeps what is known of the focus.
LEMMA ActiveStep ==
  ActiveInv /\ [ApplicationsNext]_applicationVars => ActiveInv'
<1> SUFFICES ASSUME ActiveInv, [ApplicationsNext]_applicationVars
             PROVE  ActiveInv'
  OBVIOUS
<1> USE WindowsAssumption
<1>T. /\ windowsList \subseteq Windows /\ closing \subseteq Windows \ windowsList
      /\ type \in [Windows -> {"Unknown", "TopLevel", "Transient"}]
      /\ parentWindow \in [Windows -> Windows \cup {None}]
      /\ parentSurface \in [Windows -> Windows \cup {None}]
      /\ appId \in [Windows -> AppIds \cup {None}]
      /\ active \subseteq Objects /\ minimized \subseteq Objects
      /\ appIds \subseteq AppIds
      /\ focusedWindow \in Windows \cup {None}
      /\ keyboardFocus \in windowsList \cup {None}
      /\ unacked \in [XdgWindows -> Seq(BOOLEAN)]
  BY DEF ActiveInv, ApplicationsTypeOK
<1>I. NoneSentUnused /\ FocusTold /\ WlActive
  BY DEF ActiveInv
<1>1. CASE UNCHANGED applicationVars
  BY <1>1, <1>T, <1>I
  DEF ActiveInv, ApplicationsTypeOK, NoneSentUnused, FocusTold, WillBeActive,
      WlActive, applicationVars, listVars, parentVars, activeVars, focusVars,
      Objects
<1>2. ASSUME NEW w \in Windows, CreateWindow(w) PROVE ActiveInv'
  <2>1. /\ windowsList' = windowsList \cup {w} /\ w \notin Objects
        /\ UNCHANGED <<closing, type, parentWindow, parentSurface, appId, appIds,
                       active, minimized, focusedWindow, keyboardFocus, unacked>>
    BY <1>2 DEF CreateWindow, parentVars, activeVars, focusVars
  <2>2. Objects' = Objects \cup {w}
    BY <2>1 DEF Objects
  <2>3. ApplicationsTypeOK'
    BY <2>1, <2>2, <1>T DEF ApplicationsTypeOK, Objects
  <2>4. NoneSentUnused' /\ WlActive'
    BY <2>1, <2>2, <1>I DEF NoneSentUnused, WlActive
  <2>5. FocusTold'
    <3> SUFFICES ASSUME NEW x \in KeepUp \cap windowsList'
                 PROVE  WillBeActive(x)' <=> keyboardFocus' = x
      BY DEF FocusTold
    <3>1. WillBeActive(x)' <=> WillBeActive(x)
      BY <2>1 DEF WillBeActive
    <3>2. CASE x = w
      <4>1. unacked[x] = <<>> /\ x \notin active /\ keyboardFocus # x
        BY <2>1, <3>2, <1>T, <1>I DEF NoneSentUnused, Objects
      <4> QED  BY <4>1, <3>1, <2>1 DEF WillBeActive
    <3>3. CASE x # w
      BY <2>1, <3>1, <3>3, <1>I DEF FocusTold
    <3> QED  BY <3>2, <3>3
  <2> QED  BY <2>3, <2>4, <2>5 DEF ActiveInv
<1>3. ASSUME NEW w \in Windows, NEW p \in windowsList \cup {None}, NEW i \in BOOLEAN,
             SetParent(w, p, i)
      PROVE  ActiveInv'
  <2> DEFINE new == IF p = None THEN "TopLevel" ELSE "Transient"
             announced == w \in WlWindows \/ type[w] # new
  <2>1. /\ w \in windowsList /\ UNCHANGED <<windowsList, closing, appId, appIds>>
        /\ parentSurface' = [parentSurface EXCEPT ![w] = p]
        /\ type' = [type EXCEPT ![w] = new]
        /\ parentWindow' = [parentWindow EXCEPT ![w] =
             IF announced /\ (p # None \/ w \in WlWindows) THEN p ELSE @]
        /\ IF announced /\ ~i THEN TakeFocus(w, keyboardFocus)
           ELSE UNCHANGED <<activeVars, focusVars>>
    BY <1>3 DEF SetParent, listVars
  <2>2. /\ type' \in [Windows -> {"Unknown", "TopLevel", "Transient"}]
        /\ parentWindow' \in [Windows -> Windows \cup {None}]
        /\ parentSurface' \in [Windows -> Windows \cup {None}]
    BY <2>1, <1>T
  <2>3. Objects' = Objects
    BY <2>1 DEF Objects
  <2>4. CASE announced /\ ~i
    <3>1. TakeFocus(w, keyboardFocus)
      BY <2>1, <2>4
    <3>2. /\ \A x \in KeepUp \cap windowsList' : WillBeActive(x) <=> keyboardFocus = x
          /\ keyboardFocus \in WlWindows => active \cap WlWindows = {keyboardFocus}
          /\ w \in windowsList' /\ windowsList' \subseteq windowsList
      BY <2>1, <1>I DEF FocusTold, WlActive
    <3>3. ApplicationsTypeOK /\ NoneSentUnused /\ keyboardFocus \in windowsList \cup {None}
      BY <1>I, <1>T DEF ActiveInv
    <3> HIDE DEF new, announced
    <3>4. /\ unacked' \in [XdgWindows -> Seq(BOOLEAN)] /\ keyboardFocus' = w
          /\ active' \subseteq Objects /\ minimized' \subseteq Objects
          /\ focusedWindow' \in Windows \cup {None}
          /\ NoneSentUnused' /\ FocusTold' /\ WlActive'
      BY <2>1, <2>3, <3>1, <3>2, <3>3, TakeFocusKeeps
    <3>5. ApplicationsTypeOK'
      BY <2>1, <2>2, <2>3, <3>4, <1>T DEF ApplicationsTypeOK
    <3> QED  BY <3>4, <3>5 DEF ActiveInv
  <2>5. CASE ~(announced /\ ~i)
    <3>1. UNCHANGED <<active, minimized, focusedWindow, keyboardFocus, unacked>>
      BY <2>1, <2>5 DEF activeVars, focusVars
    <3> HIDE DEF new, announced
    <3>2. ApplicationsTypeOK'
      BY <2>1, <2>2, <2>3, <3>1, <1>T DEF ApplicationsTypeOK
    <3>3. NoneSentUnused' /\ FocusTold' /\ WlActive'
      BY <2>1, <2>3, <3>1, <1>I DEF NoneSentUnused, FocusTold, WlActive, WillBeActive
    <3> QED  BY <3>2, <3>3 DEF ActiveInv
  <2> QED  BY <2>4, <2>5
<1>4. ASSUME NEW w \in Windows, NEW id \in AppIds, SetAppId(w, id) PROVE ActiveInv'
  <2>1. UNCHANGED <<windowsList, closing, type, parentWindow, parentSurface,
                    active, minimized, focusedWindow, keyboardFocus, unacked>>
    BY <1>4 DEF SetAppId, listVars, parentVars, activeVars, focusVars
  <2>2. appId' \in [Windows -> AppIds \cup {None}] /\ appIds' \subseteq AppIds
    BY <1>4, <1>T DEF SetAppId, Name
  <2>3. ApplicationsTypeOK'
    BY <2>1, <2>2, <1>T DEF ApplicationsTypeOK, Objects
  <2>4. NoneSentUnused' /\ FocusTold' /\ WlActive'
    BY <2>1, <1>I DEF NoneSentUnused, FocusTold, WlActive, WillBeActive, Objects
  <2> QED  BY <2>3, <2>4 DEF ActiveInv
<1>5. ASSUME NEW w \in XdgWindows, AckActivation(w) PROVE ActiveInv'
  <2> DEFINE e == Head(unacked[w])
  <2>1. /\ w \in Objects /\ unacked[w] # <<>> /\ unacked[w] \in Seq(BOOLEAN)
        /\ unacked' = [unacked EXCEPT ![w] = Tail(unacked[w])]
        /\ UNCHANGED <<windowsList, closing, type, parentWindow, parentSurface,
                       appId, appIds, keyboardFocus>>
    BY <1>5, <1>T DEF AckActivation, listVars, parentVars
  <2>2. e \in BOOLEAN /\ Tail(unacked[w]) \in Seq(BOOLEAN)
    BY <2>1, RestEndsAlike
  <2>3. /\ active' = IF e THEN active \cup {w} ELSE active \ {w}
        /\ minimized' \subseteq minimized
        /\ focusedWindow' \in Windows \cup {None}
    <3>1. CASE e = (w \in active)
      <4>1. /\ minimized' \in {minimized, minimized \ {w}}
            /\ UNCHANGED <<active, focusedWindow>>
        BY <1>5, <3>1 DEF AckActivation
      <4> QED  BY <4>1, <3>1, <1>T
    <3>2. CASE e # (w \in active) /\ e
      <4>1. SetActive({w}, {w}) /\ minimized' = minimized \ {w} /\ w \notin active
        BY <1>5, <2>2, <3>2 DEF AckActivation
      <4> QED  BY <4>1, <3>2, <1>T DEF SetActive
    <3>3. CASE e # (w \in active) /\ ~e
      <4>1. SetActive({}, {w}) /\ minimized' = minimized \ {w}
        BY <1>5, <3>3 DEF AckActivation
      <4> QED  BY <4>1, <3>3, <1>T DEF SetActive
    <3> QED  BY <2>2, <3>1, <3>2, <3>3
  <2>4. unacked' \in [XdgWindows -> Seq(BOOLEAN)]
    BY <2>1, <2>2, <1>T
  <2>5. Objects' = Objects
    BY <2>1 DEF Objects
  <2>6. ApplicationsTypeOK'
    BY <2>1, <2>3, <2>4, <2>5, <1>T DEF ApplicationsTypeOK
  <2>7. NoneSentUnused'
    BY <2>1, <2>5, <1>I, <1>T DEF NoneSentUnused
  <2>8. WlActive'
    BY <2>1, <2>3, <1>I DEF WlActive, WlWindows
  <2>9. FocusTold'
    <3> SUFFICES ASSUME NEW x \in KeepUp \cap windowsList'
                 PROVE  WillBeActive(x)' <=> keyboardFocus' = x
      BY DEF FocusTold
    <3>1. WillBeActive(x) <=> keyboardFocus = x
      BY <2>1, <1>I DEF FocusTold
    <3>2. CASE x # w
      <4>1. unacked'[x] = unacked[x] /\ (x \in active' <=> x \in active)
        BY <2>1, <2>3, <3>2, <1>T
      <4> QED  BY <2>1, <3>1, <4>1 DEF WillBeActive
    <3>3. CASE x = w
      <4>1. unacked'[x] = Tail(unacked[w])
        BY <2>1, <3>3, <1>T
      <4>2. CASE Tail(unacked[w]) = <<>>
        <5>1. WillBeActive(x)' <=> e
          BY <4>1, <4>2, <2>3, <3>3 DEF WillBeActive
        <5>2. WillBeActive(x) <=> e
          BY <4>2, <3>3, <2>1, RestEndsAlike DEF WillBeActive
        <5> QED  BY <5>1, <5>2, <3>1, <2>1
      <4>3. CASE Tail(unacked[w]) # <<>>
        <5>1. WillBeActive(x)' <=> Tail(unacked[w])[Len(Tail(unacked[w]))]
          BY <4>1, <4>3 DEF WillBeActive
        <5>2. WillBeActive(x) <=> Tail(unacked[w])[Len(Tail(unacked[w]))]
          BY <4>3, <3>3, <2>1, RestEndsAlike DEF WillBeActive
        <5> QED  BY <5>1, <5>2, <3>1, <2>1
      <4> QED  BY <4>2, <4>3
    <3> QED  BY <3>2, <3>3
  <2> QED  BY <2>6, <2>7, <2>8, <2>9 DEF ActiveInv
<1>6. ASSUME NEW w \in Windows, CloseWindow(w) PROVE ActiveInv'
  <2> DEFINE p == parentWindow[w]
             old == IF keyboardFocus = w THEN None ELSE keyboardFocus
  <2>1. /\ w \in windowsList
        /\ windowsList' = windowsList \ {w} /\ closing' = closing \cup {w}
        /\ appIds' \subseteq appIds
        /\ UNCHANGED <<type, parentWindow, parentSurface, appId>>
        /\ IF type[w] = "Transient" /\ p \in windowsList \ {w} THEN TakeFocus(p, old)
           ELSE keyboardFocus' = old /\ UNCHANGED <<unacked, activeVars>>
    BY <1>6 DEF CloseWindow, Remaining, parentVars
  <2>2. Objects' = Objects
    BY <2>1 DEF Objects
  <2>3. /\ old \in windowsList' \cup {None}
        /\ \A x \in KeepUp \cap windowsList' : WillBeActive(x) <=> old = x
        /\ old \in WlWindows => active \cap WlWindows = {old}
    BY <2>1, <1>I, <1>T DEF FocusTold, WlActive, WlWindows
  <2>4. /\ unacked' \in [XdgWindows -> Seq(BOOLEAN)]
        /\ keyboardFocus' \in windowsList' \cup {None}
        /\ active' \subseteq Objects /\ minimized' \subseteq Objects
        /\ focusedWindow' \in Windows \cup {None}
        /\ NoneSentUnused' /\ FocusTold' /\ WlActive'
    <3>1. CASE type[w] = "Transient" /\ p \in windowsList \ {w}
      <4>1. TakeFocus(p, old) /\ p \in windowsList' /\ p \in windowsList
        BY <2>1, <3>1
      <4>2. /\ ApplicationsTypeOK /\ NoneSentUnused /\ old \in windowsList \cup {None}
            /\ windowsList' \subseteq windowsList
        BY <1>I, <2>1, <2>3 DEF ActiveInv
      <4> HIDE DEF p, old
      <4> QED  BY <4>1, <4>2, <2>2, <2>3, TakeFocusKeeps
    <3>2. CASE ~(type[w] = "Transient" /\ p \in windowsList \ {w})
      <4>1. /\ keyboardFocus' = old
            /\ UNCHANGED <<unacked, active, minimized, focusedWindow>>
        BY <2>1, <3>2 DEF activeVars
      <4> HIDE DEF p, old
      <4>2. NoneSentUnused' /\ FocusTold' /\ WlActive'
        BY <4>1, <2>1, <2>2, <2>3, <1>I
        DEF NoneSentUnused, FocusTold, WlActive, WillBeActive
      <4> QED  BY <4>1, <4>2, <2>3, <1>T
    <3> QED  BY <3>1, <3>2
  <2>5. ApplicationsTypeOK'
    <3>1. windowsList' \subseteq Windows /\ closing' \subseteq Windows \ windowsList'
      BY <2>1, <1>T
    <3> QED  BY <3>1, <2>1, <2>2, <2>4, <1>T DEF ApplicationsTypeOK
  <2> QED  BY <2>4, <2>5 DEF ActiveInv
<1>7. ASSUME NEW w \in Windows, Activate(w) PROVE ActiveInv'
  <2>1. /\ w \in windowsList /\ TakeFocus(w, keyboardFocus)
        /\ UNCHANGED <<windowsList, closing, type, parentWindow, parentSurface,
                       appId, appIds>>
    BY <1>7 DEF Activate, listVars, parentVars
  <2>2. Objects' = Objects
    BY <2>1 DEF Objects
  <2>3. /\ \A x \in KeepUp \cap windowsList' : WillBeActive(x) <=> keyboardFocus = x
        /\ keyboardFocus \in WlWindows => active \cap WlWindows = {keyboardFocus}
        /\ w \in windowsList' /\ windowsList' \subseteq windowsList
    BY <2>1, <1>I DEF FocusTold, WlActive
  <2>4. ApplicationsTypeOK /\ NoneSentUnused /\ keyboardFocus \in windowsList \cup {None}
    BY <1>I, <1>T DEF ActiveInv
  <2>5. /\ unacked' \in [XdgWindows -> Seq(BOOLEAN)] /\ keyboardFocus' = w
        /\ active' \subseteq Objects /\ minimized' \subseteq Objects
        /\ focusedWindow' \in Windows \cup {None}
        /\ NoneSentUnused' /\ FocusTold' /\ WlActive'
    BY <2>1, <2>2, <2>3, <2>4, TakeFocusKeeps
  <2>6. ApplicationsTypeOK'
    BY <2>1, <2>2, <2>5, <1>T DEF ApplicationsTypeOK
  <2> QED  BY <2>5, <2>6 DEF ActiveInv
<1>8. ASSUME NEW w \in Windows, SetMinimized(w) PROVE ActiveInv'
  <2>1. /\ w \in windowsList /\ minimized' = minimized \cup {w}
        /\ UNCHANGED <<windowsList, closing, type, parentWindow, parentSurface,
                       appId, appIds, active, focusedWindow, keyboardFocus, unacked>>
    BY <1>8 DEF SetMinimized, listVars, parentVars, focusVars
  <2>2. ApplicationsTypeOK'
    BY <2>1, <1>T DEF ApplicationsTypeOK, Objects
  <2>3. NoneSentUnused' /\ FocusTold' /\ WlActive'
    BY <2>1, <1>I DEF NoneSentUnused, FocusTold, WlActive, WillBeActive, Objects
  <2> QED  BY <2>2, <2>3 DEF ActiveInv
<1>9. ASSUME NEW w \in Windows, DeleteWindow(w) PROVE ActiveInv'
  <2>1. /\ w \in closing /\ closing' = closing \ {w}
        /\ type' = [type EXCEPT ![w] = "Unknown"]
        /\ parentWindow' = [parentWindow EXCEPT ![w] = None]
        /\ parentSurface' = [parentSurface EXCEPT ![w] = None]
        /\ appId' = [appId EXCEPT ![w] = None]
        /\ active' = active \ {w} /\ minimized' = minimized \ {w}
        /\ unacked' = [x \in XdgWindows |-> IF x = w THEN <<>> ELSE unacked[x]]
        /\ UNCHANGED <<windowsList, appIds, focusedWindow, keyboardFocus>>
    BY <1>9 DEF DeleteWindow
  <2>2. w \notin windowsList /\ Objects' = Objects \ {w}
    BY <2>1, <1>T DEF Objects
  <2>3. ASSUME NEW x \in XdgWindows
        PROVE  /\ unacked'[x] \in Seq(BOOLEAN)
               /\ x = w => unacked'[x] = <<>>
               /\ x # w => unacked'[x] = unacked[x]
    <3>1. unacked[x] \in Seq(BOOLEAN) /\ <<>> \in Seq(BOOLEAN)
      BY <1>T
    <3> QED  BY <2>1, <3>1
  <2>4. /\ type' \in [Windows -> {"Unknown", "TopLevel", "Transient"}]
        /\ parentWindow' \in [Windows -> Windows \cup {None}]
        /\ parentSurface' \in [Windows -> Windows \cup {None}]
        /\ appId' \in [Windows -> AppIds \cup {None}]
        /\ unacked' \in [XdgWindows -> Seq(BOOLEAN)]
    BY <2>1, <2>3, <1>T
  <2>5. ApplicationsTypeOK'
    BY <2>1, <2>2, <2>4, <1>T DEF ApplicationsTypeOK
  <2>6. NoneSentUnused'
    BY <2>2, <2>3, <1>I DEF NoneSentUnused
  <2>7. WlActive'
    BY <2>1, <2>2, <1>I, <1>T DEF WlActive
  <2>8. FocusTold'
    <3> SUFFICES ASSUME NEW x \in KeepUp \cap windowsList'
                 PROVE  WillBeActive(x)' <=> keyboardFocus' = x
      BY DEF FocusTold
    <3>1. x # w /\ x \in windowsList
      BY <2>1, <2>2
    <3>2. unacked'[x] = unacked[x] /\ (x \in active' <=> x \in active)
      BY <2>1, <2>3, <3>1
    <3> QED  BY <2>1, <3>1, <3>2, <1>I DEF FocusTold, WillBeActive
  <2> QED  BY <2>5, <2>6, <2>7, <2>8 DEF ActiveInv
<1>10. ASSUME NEW w \in Windows, SendMode(w) PROVE ActiveInv'
  <2> DEFINE e == LastSentActivated(w)
  <2>1. /\ w \in XdgWindows /\ w \in windowsList /\ unacked[w] \in Seq(BOOLEAN)
        /\ w \in KeepUp => Len(unacked[w]) <= 1
        /\ unacked' = [unacked EXCEPT ![w] = Append(unacked[w], e)]
        /\ UNCHANGED <<windowsList, closing, type, parentWindow, parentSurface, appId,
                       appIds, active, minimized, focusedWindow, keyboardFocus>>
    BY <1>10, <1>T DEF SendMode, listVars, parentVars, activeVars
  <2>2. e \in BOOLEAN
    <3>1. CASE unacked[w] = <<>>
      <4>1. CASE w \in active
        BY <3>1, <4>1 DEF LastSentActivated
      <4>2. CASE w \notin active
        BY <3>1, <4>2 DEF LastSentActivated
      <4> QED  BY <4>1, <4>2
    <3>2. CASE unacked[w] # <<>>
      <4>1. Head(unacked[w]) \in BOOLEAN
        BY <2>1, <3>2, RestEndsAlike
      <4> QED  BY <3>2, <4>1 DEF LastSentActivated
    <3> QED  BY <3>1, <3>2
  <2>3. w \in KeepUp => (e <=> WillBeActive(w))
    <3>1. CASE unacked[w] = <<>>
      BY <3>1 DEF LastSentActivated, WillBeActive
    <3>2. CASE w \in KeepUp /\ unacked[w] # <<>>
      <4>1. Head(unacked[w]) = unacked[w][Len(unacked[w])]
        BY <2>1, <3>2, OnlyEvent
      <4> QED  BY <3>2, <4>1 DEF LastSentActivated, WillBeActive
    <3> QED  BY <3>1, <3>2
  <2> HIDE DEF e
  <2>4. ASSUME NEW x \in XdgWindows
        PROVE  /\ unacked'[x] = IF x = w THEN Append(unacked[w], e) ELSE unacked[x]
               /\ unacked'[x] \in Seq(BOOLEAN)
    BY <2>1, <2>2, <1>T, AppendedIsLast
  <2>5. unacked' \in [XdgWindows -> Seq(BOOLEAN)]
    BY <2>1, <2>4, <1>T
  <2>6. ApplicationsTypeOK'
    BY <2>1, <2>5, <1>T DEF ApplicationsTypeOK, Objects
  <2>7. NoneSentUnused' /\ WlActive'
    BY <2>1, <2>4, <1>I DEF NoneSentUnused, WlActive, Objects
  <2>8. FocusTold'
    <3> SUFFICES ASSUME NEW x \in KeepUp \cap windowsList'
                 PROVE  WillBeActive(x)' <=> keyboardFocus' = x
      BY DEF FocusTold
    <3>1. WillBeActive(x) <=> keyboardFocus = x
      BY <2>1, <1>I DEF FocusTold
    <3>2. WillBeActive(x)' <=> WillBeActive(x)
      <4>1. CASE x = w
        BY <2>1, <2>2, <2>3, <2>4, <4>1, AppendedIsLast DEF WillBeActive
      <4>2. CASE x # w
        BY <2>1, <2>4, <4>2 DEF WillBeActive
      <4> QED  BY <4>1, <4>2
    <3> QED  BY <2>1, <3>1, <3>2
  <2> QED  BY <2>6, <2>7, <2>8 DEF ActiveInv
<1> QED
  BY <1>1, <1>2, <1>3, <1>4, <1>5, <1>6, <1>7, <1>8, <1>9, <1>10
  DEF ApplicationsNext

\* In every behaviour, the window that the clients believe to be active is the
\* one with the keyboard focus, once they have acknowledged what they were told:
\* for clients at most one event behind when a mode is sent, whatever the others
\* do.
THEOREM ActivationAlwaysFollows == ApplicationsSpec => []ActivationFollowsFocus
<1> USE WindowsAssumption
<1>1. ApplicationsInit => ActiveInv
  BY ActiveInit
<1>2. ActiveInv /\ [ApplicationsNext]_applicationVars => ActiveInv'
  BY ActiveStep
<1>3. ActiveInv => ActivationFollowsFocus
  <2> SUFFICES ASSUME ActiveInv, Settled PROVE ActivationFollowsFocus
    BY DEF ActivationFollowsFocus
  <2>1. /\ windowsList \subseteq Windows /\ keyboardFocus \in windowsList \cup {None}
        /\ FocusTold /\ WlActive
    BY DEF ActiveInv, ApplicationsTypeOK
  <2>2. \A w \in KeepUp \cap windowsList : w \in active <=> keyboardFocus = w
    BY <2>1 DEF FocusTold, WillBeActive, Settled
  <2>3. keyboardFocus \in KeepUp \cup WlWindows => keyboardFocus \in active
    BY <2>1, <2>2 DEF WlActive, WlWindows
  <2>4. ASSUME NEW w \in (active \cap windowsList) \ {keyboardFocus}
        PROVE  \/ w \in XdgWindows \ KeepUp
               \/ w \in WlWindows /\ keyboardFocus \notin WlWindows
    <3>1. w \in WlWindows \/ w \in XdgWindows \ KeepUp
      BY <2>1, <2>2 DEF WlWindows
    <3> QED  BY <2>1, <3>1 DEF WlActive
  <2> QED  BY <2>3, <2>4 DEF ActivationFollowsFocus
<1> QED  BY <1>1, <1>2, <1>3, PTL DEF ApplicationsSpec

\* As long as no window changes from one application to another, the
\* applications that the manager has announced are always those of its windows.
THEOREM ApplicationsAlwaysHaveWindows ==
  ASSUME StableIds
  PROVE  ApplicationsSpec => []ApplicationsHaveWindows
<1> USE WindowsAssumption
<1>1. ApplicationsInit => NamesInv
  <2> SUFFICES ASSUME ApplicationsInit PROVE NamesInv
    OBVIOUS
  <2>1. ApplicationsTypeOK
    BY DEF ApplicationsInit, ApplicationsTypeOK, Objects
  <2>2. NoNameUnused /\ ApplicationsHaveWindows
    BY DEF ApplicationsInit, NoNameUnused, ApplicationsHaveWindows
  <2> QED  BY <2>1, <2>2 DEF NamesInv
<1>2. NamesInv /\ ActiveInv' /\ [ApplicationsNext]_applicationVars => NamesInv'
  <2> SUFFICES ASSUME NamesInv, ActiveInv', [ApplicationsNext]_applicationVars
               PROVE  NoNameUnused' /\ ApplicationsHaveWindows'
    BY DEF NamesInv, ActiveInv
  <2>T. /\ windowsList \subseteq Windows /\ closing \subseteq Windows \ windowsList
        /\ appId \in [Windows -> AppIds \cup {None}]
        /\ \A w \in Windows \ Objects : appId[w] = None
        /\ appIds = {appId[w] : w \in windowsList} \ {None}
    BY DEF NamesInv, ApplicationsTypeOK, NoNameUnused, ApplicationsHaveWindows
  <2>U. ASSUME UNCHANGED <<windowsList, closing, appId, appIds>>
        PROVE  NoNameUnused' /\ ApplicationsHaveWindows'
    BY <2>U, <2>T DEF NoNameUnused, ApplicationsHaveWindows, Objects
  <2>1. CASE UNCHANGED applicationVars
    BY <2>1, <2>U DEF applicationVars, listVars
  <2>2. ASSUME NEW w \in Windows, CreateWindow(w)
        PROVE  NoNameUnused' /\ ApplicationsHaveWindows'
    <3>1. /\ windowsList' = windowsList \cup {w} /\ w \notin Objects
          /\ UNCHANGED <<closing, appId, appIds>>
      BY <2>2 DEF CreateWindow
    <3>2. appId[w] = None
      BY <3>1, <2>T
    <3>3. {appId[x] : x \in windowsList \cup {w}} = {appId[x] : x \in windowsList} \cup {None}
      BY <3>2
    <3>4. ApplicationsHaveWindows'
      BY <3>1, <3>3, <2>T DEF ApplicationsHaveWindows
    <3>5. NoNameUnused'
      BY <3>1, <2>T DEF NoNameUnused, Objects
    <3> QED  BY <3>4, <3>5
  <2>3. ASSUME NEW w \in Windows, NEW p \in windowsList \cup {None}, NEW i \in BOOLEAN,
               SetParent(w, p, i)
        PROVE  NoNameUnused' /\ ApplicationsHaveWindows'
    BY <2>3, <2>U DEF SetParent, listVars
  <2>4. ASSUME NEW w \in Windows, NEW id \in AppIds, SetAppId(w, id)
        PROVE  NoNameUnused' /\ ApplicationsHaveWindows'
    <3> DEFINE name == MappedId[id]
    <3>1. /\ w \in windowsList /\ appId[w] = None /\ id # None
          /\ UNCHANGED <<windowsList, closing>>
          /\ appId' = [appId EXCEPT ![w] = name]
          /\ appIds' = (appIds \ {None}) \cup {name}
      BY <2>4 DEF SetAppId, Name, listVars
    <3>2. name \in AppIds /\ name # None
      OBVIOUS
    <3> HIDE DEF name
    <3>3. ASSUME NEW x \in Windows PROVE appId'[x] = IF x = w THEN name ELSE appId[x]
      BY <3>1, <2>T
    <3>4. {appId'[x] : x \in windowsList} \ {None}
            = ({appId[x] : x \in windowsList} \ {None}) \cup {name}
      BY <3>1, <3>2, <3>3, <2>T
    <3>5. ApplicationsHaveWindows'
      BY <3>1, <3>2, <3>4, <2>T DEF ApplicationsHaveWindows
    <3>6. NoNameUnused'
      BY <3>1, <3>3, <2>T DEF NoNameUnused, Objects
    <3> QED  BY <3>5, <3>6
  <2>5. ASSUME NEW w \in XdgWindows, AckActivation(w)
        PROVE  NoNameUnused' /\ ApplicationsHaveWindows'
    BY <2>5, <2>U DEF AckActivation, listVars
  <2>6. ASSUME NEW w \in Windows, CloseWindow(w)
        PROVE  NoNameUnused' /\ ApplicationsHaveWindows'
    <3>1. /\ w \in windowsList /\ windowsList' = windowsList \ {w}
          /\ closing' = closing \cup {w} /\ UNCHANGED appId
          /\ appIds' = Remaining(w)
      BY <2>6 DEF CloseWindow
    <3>2. {appId[x] : x \in windowsList \ {w}} \ {None} = appIds'
      <4>1. CASE \E x \in windowsList \ {w} : appId[x] = appId[w]
        BY <3>1, <4>1, <2>T DEF Remaining
      <4>2. CASE ~\E x \in windowsList \ {w} : appId[x] = appId[w]
        BY <3>1, <4>2, <2>T DEF Remaining
      <4> QED  BY <4>1, <4>2
    <3>3. ApplicationsHaveWindows'
      BY <3>1, <3>2 DEF ApplicationsHaveWindows
    <3>4. NoNameUnused'
      BY <3>1, <2>T DEF NoNameUnused, Objects
    <3> QED  BY <3>3, <3>4
  <2>7. ASSUME NEW w \in Windows, Activate(w) \/ SetMinimized(w) \/ SendMode(w)
        PROVE  NoNameUnused' /\ ApplicationsHaveWindows'
    BY <2>7, <2>U DEF Activate, SetMinimized, SendMode, listVars
  <2>8. ASSUME NEW w \in Windows, DeleteWindow(w)
        PROVE  NoNameUnused' /\ ApplicationsHaveWindows'
    <3>1. /\ w \in closing /\ closing' = closing \ {w}
          /\ appId' = [appId EXCEPT ![w] = None]
          /\ UNCHANGED <<windowsList, appIds>>
      BY <2>8 DEF DeleteWindow
    <3>2. \A x \in Windows : appId'[x] = IF x = w THEN None ELSE appId[x]
      BY <3>1, <2>T
    <3>3. \A x \in windowsList : appId'[x] = appId[x]
      BY <3>1, <3>2, <2>T
    <3>4. ApplicationsHaveWindows'
      BY <3>1, <3>3, <2>T DEF ApplicationsHaveWindows
    <3>5. NoNameUnused'
      BY <3>1, <3>2, <2>T DEF NoNameUnused, Objects
    <3> QED  BY <3>4, <3>5
  <2> QED
    BY <2>1, <2>2, <2>3, <2>4, <2>5, <2>6, <2>7, <2>8 DEF ApplicationsNext
<1>3. NamesInv => ApplicationsHaveWindows
  BY DEF NamesInv
<1>4. ApplicationsSpec => []ActiveInv
  BY ActiveInit, ActiveStep, PTL DEF ApplicationsSpec
<1> QED  BY <1>1, <1>2, <1>3, <1>4, PTL DEF ApplicationsSpec

\* Every variable of ApplicationWindows keeps its type.
THEOREM ApplicationsTypeCorrect == ApplicationsSpec => []ApplicationsTypeOK
<1>1. ActiveInv => ApplicationsTypeOK
  BY DEF ActiveInv
<1> QED  BY <1>1, ActiveInit, ActiveStep, PTL DEF ApplicationsSpec

-----------------------------------------------------------------------------
(* Popups and the mouse grab *)

\* The popups of a client are its own, and none is listed twice.
PopupsOf(c) ==
  /\ \A i \in DOMAIN xdgPopups[c] : OwnerOf[xdgPopups[c][i]] = c
  /\ \A i, j \in DOMAIN xdgPopups[c] : xdgPopups[c][i] = xdgPopups[c][j] => i = j

\* A shell that is not in use has no popups, and no callback in the filter.
OfShellsUsed ==
  /\ "xdg" \notin shells => OpenXdg = {} /\ filter.closes \notin XdgPopups
  /\ "wl" \notin shells => isPopup = {} /\ filter.closes \notin WlPopups

\* A filter that is installed, or whose timer runs, has a callback.
HasCallback == filter.installed \/ mousePressTimeout => filter.closes \in Popups

\* A filter that waits for the release has closed the popups that there were.
ClosedByPress == waitForRelease => Open \subseteq told \cup excused

\* The filter is there as long as there is something to close, and no longer.
Guarded ==
  /\ Open \ (told \cup excused) # {} => filter.installed
  /\ filter.installed => Open # {} \/ waitForRelease

PopupsInv ==
  /\ PopupsTypeOK
  /\ \A c \in Clients : PopupsOf(c)
  /\ OfShellsUsed /\ HasCallback /\ popupShellSurfaces \cap told = {}
  /\ shells # {"xdg", "wl"} => ClosedByPress /\ Guarded

\* An entry is taken from a list, and those behind it move up.
LEMMA TakenAt ==
  ASSUME NEW S, NEW q \in Seq(S), NEW n \in DOMAIN q
  PROVE  /\ RemoveAt(q, n) \in Seq(S)
         /\ DOMAIN RemoveAt(q, n) = 1..(Len(q) - 1)
         /\ \A i \in 1..(Len(q) - 1) :
              RemoveAt(q, n)[i] = IF i < n THEN q[i] ELSE q[i + 1]
<1> DEFINE front == SubSeq(q, 1, n - 1)
           back  == SubSeq(q, n + 1, Len(q))
<1>1. /\ Len(q) \in Nat /\ n \in 1..Len(q) /\ n \in Int /\ n - 1 \in Int /\ n + 1 \in Int
      /\ \A i \in 1..Len(q) : q[i] \in S
  OBVIOUS
<1>2. /\ front \in Seq(S) /\ Len(front) = n - 1
      /\ \A i \in 1..(n - 1) : front[i] = q[i]
  <2>1. \A i \in 1..(n - 1) : q[i] \in S
    BY <1>1
  <2>2. /\ front \in Seq(S) /\ Len(front) = IF 1 <= n - 1 THEN n - 1 - 1 + 1 ELSE 0
        /\ \A i \in 1..(n - 1 - 1 + 1) : front[i] = q[1 + i - 1]
    BY <1>1, <2>1, SubSeqProperties
  <2> HIDE DEF front
  <2> QED  BY <1>1, <2>2
<1>3. /\ back \in Seq(S) /\ Len(back) = Len(q) - n
      /\ \A i \in 1..(Len(q) - n) : back[i] = q[n + i]
  <2>1. \A i \in (n + 1)..Len(q) : q[i] \in S
    BY <1>1
  <2>2. /\ back \in Seq(S)
        /\ Len(back) = IF n + 1 <= Len(q) THEN Len(q) - (n + 1) + 1 ELSE 0
        /\ \A i \in 1..(Len(q) - (n + 1) + 1) : back[i] = q[n + 1 + i - 1]
    BY <1>1, <2>1, SubSeqProperties
  <2> HIDE DEF back
  <2>3. Len(back) = Len(q) - n
    BY <1>1, <2>2
  <2>4. ASSUME NEW i \in 1..(Len(q) - n) PROVE back[i] = q[n + i]
    <3>1. Len(q) - (n + 1) + 1 = Len(q) - n /\ i \in Int
      BY <1>1
    <3>2. n + 1 + i - 1 = n + i
      BY <1>1, <3>1
    <3>3. back[i] = q[n + 1 + i - 1]
      BY <2>2, <3>1
    <3> QED  BY <3>2, <3>3
  <2> QED  BY <2>2, <2>3, <2>4
<1>4. RemoveAt(q, n) = front \o back
  BY DEF RemoveAt
<1> HIDE DEF front, back
<1> DEFINE t == front \o back
<1>5. /\ t \in Seq(S) /\ Len(t) = Len(front) + Len(back)
      /\ \A i \in 1..(Len(front) + Len(back)) :
           t[i] = IF i <= Len(front) THEN front[i] ELSE back[i - Len(front)]
  BY <1>2, <1>3, ConcatProperties
<1> HIDE DEF t
<1>6. /\ t \in Seq(S) /\ Len(t) = Len(q) - 1
      /\ \A i \in 1..(Len(q) - 1) :
           t[i] = IF i <= n - 1 THEN front[i] ELSE back[i - (n - 1)]
  <2>1. Len(front) + Len(back) = Len(q) - 1
    BY <1>1, <1>2, <1>3
  <2> QED  BY <1>5, <1>2, <2>1
<1>7. DOMAIN t = 1..(Len(q) - 1)
  BY <1>6
<1>8. ASSUME NEW i \in 1..(Len(q) - 1)
      PROVE  t[i] = IF i < n THEN q[i] ELSE q[i + 1]
  <2>1. CASE i < n
    BY <1>1, <1>2, <1>3, <1>6, <2>1
  <2>2. CASE ~(i < n)
    <3>1. t[i] = back[i - (n - 1)]
      BY <1>1, <1>6, <2>2
    <3>2. i - (n - 1) \in 1..(Len(q) - n) /\ n + (i - (n - 1)) = i + 1
      BY <1>1, <2>2
    <3> QED  BY <1>3, <2>2, <3>1, <3>2
  <2> QED  BY <2>1, <2>2
<1> QED  BY <1>4, <1>6, <1>7, <1>8 DEF t

\* Taking a popup from the list of its client leaves the others.
LEMMA PopupTaken ==
  ASSUME NEW q \in Seq(XdgPopups), NEW p \in ToSet(q),
         \A i, j \in DOMAIN q : q[i] = q[j] => i = j
  PROVE  /\ PopupsWithout(q, p) \in Seq(XdgPopups)
         /\ ToSet(PopupsWithout(q, p)) = ToSet(q) \ {p}
         /\ \A i, j \in DOMAIN PopupsWithout(q, p) :
              PopupsWithout(q, p)[i] = PopupsWithout(q, p)[j] => i = j
<1> DEFINE n == CHOOSE i \in DOMAIN q : q[i] = p
           t == RemoveAt(q, n)
<1>1. n \in DOMAIN q /\ q[n] = p
  BY DEF ToSet
<1>2. PopupsWithout(q, p) = t
  BY DEF PopupsWithout
<1> HIDE DEF n
<1>3. Len(q) \in Nat /\ DOMAIN q = 1..Len(q) /\ n \in 1..Len(q)
  BY <1>1
<1>4. /\ t \in Seq(XdgPopups) /\ DOMAIN t = 1..(Len(q) - 1)
      /\ \A i \in DOMAIN t : t[i] = IF i < n THEN q[i] ELSE q[i + 1]
  BY <1>1, TakenAt
<1> HIDE DEF t
<1>5. ASSUME NEW i \in DOMAIN t, NEW j \in DOMAIN t, t[i] = t[j] PROVE i = j
  <2> DEFINE a == IF i < n THEN i ELSE i + 1
             b == IF j < n THEN j ELSE j + 1
  <2>1. a \in DOMAIN q /\ b \in DOMAIN q
    BY <1>3, <1>4
  <2>2. q[a] = q[b]
    BY <1>4, <1>5
  <2>3. a = b
    BY <2>1, <2>2
  <2> QED  BY <2>3, <1>3, <1>4
<1>6. ToSet(t) = ToSet(q) \ {p}
  <2>1. ASSUME NEW z \in ToSet(t) PROVE z \in ToSet(q) \ {p}
    <3>1. PICK i \in DOMAIN t : t[i] = z
      BY DEF ToSet
    <3> DEFINE a == IF i < n THEN i ELSE i + 1
    <3>2. a \in DOMAIN q /\ a # n /\ q[a] = z
      BY <3>1, <1>3, <1>4
    <3> HIDE DEF a
    <3>3. z # p
      BY <3>2, <1>1
    <3> QED  BY <3>2, <3>3 DEF ToSet
  <2>2. ASSUME NEW z \in ToSet(q) \ {p} PROVE z \in ToSet(t)
    <3>1. PICK a \in DOMAIN q : q[a] = z
      BY DEF ToSet
    <3>2. a # n
      BY <3>1, <1>1
    <3> DEFINE i == IF a < n THEN a ELSE a - 1
    <3>3. i \in DOMAIN t /\ t[i] = z
      BY <3>1, <3>2, <1>3, <1>4
    <3> QED  BY <3>3 DEF ToSet
  <2> QED  BY <2>1, <2>2
<1> QED  BY <1>2, <1>4, <1>5, <1>6

\* The open popups of xdg-shell that a client owns are those in its list.
LEMMA OpenIsListed ==
  ASSUME xdgPopups \in [Clients -> Seq(XdgPopups)], \A c \in Clients : PopupsOf(c)
  PROVE  /\ OpenXdg \subseteq XdgPopups
         /\ \A p \in OpenXdg : p \in ToSet(xdgPopups[OwnerOf[p]])
         /\ \A c \in Clients : \A p \in ToSet(xdgPopups[c]) : p \in OpenXdg /\ OwnerOf[p] = c
<1>1. ASSUME NEW c \in Clients, NEW p \in ToSet(xdgPopups[c])
      PROVE  p \in OpenXdg /\ OwnerOf[p] = c /\ p \in XdgPopups
  <2>1. PICK i \in DOMAIN xdgPopups[c] : xdgPopups[c][i] = p
    BY DEF ToSet
  <2>2. xdgPopups[c] \in Seq(XdgPopups)
    OBVIOUS
  <2> QED  BY <2>1, <2>2 DEF PopupsOf, OpenXdg
<1>2. ASSUME NEW p \in OpenXdg PROVE \E c \in Clients : p \in ToSet(xdgPopups[c])
  BY DEF OpenXdg
<1> QED  BY <1>1, <1>2

\* Who changes the list of one client changes what is open by it.
LEMMA OpenChanges ==
  ASSUME xdgPopups \in [Clients -> Seq(XdgPopups)], \A c \in Clients : PopupsOf(c),
         NEW c \in Clients, NEW q \in Seq(XdgPopups),
         xdgPopups' = [xdgPopups EXCEPT ![c] = q],
         \A p \in ToSet(q) : OwnerOf[p] = c,
         \A i, j \in DOMAIN q : q[i] = q[j] => i = j
  PROVE  /\ xdgPopups' \in [Clients -> Seq(XdgPopups)]
         /\ \A d \in Clients : PopupsOf(d)'
         /\ OpenXdg' = {p \in OpenXdg : OwnerOf[p] # c} \cup ToSet(q)
<1>1. xdgPopups' \in [Clients -> Seq(XdgPopups)]
  OBVIOUS
<1>2. \A d \in Clients : xdgPopups'[d] = IF d = c THEN q ELSE xdgPopups[d]
  OBVIOUS
<1>3. ASSUME NEW d \in Clients PROVE PopupsOf(d)'
  <2>1. CASE d = c
    <3>1. \A i \in DOMAIN q : OwnerOf[q[i]] = c
      BY DEF ToSet
    <3> QED  BY <1>2, <2>1, <3>1 DEF PopupsOf
  <2>2. CASE d # c
    <3>1. PopupsOf(d) /\ xdgPopups'[d] = xdgPopups[d]
      BY <1>2, <2>2
    <3> QED  BY <3>1 DEF PopupsOf
  <2> QED  BY <2>1, <2>2
<1>4. OpenXdg' = UNION {ToSet(xdgPopups'[d]) : d \in Clients}
  BY DEF OpenXdg, ToSet
<1>5. ASSUME NEW p
      PROVE  p \in OpenXdg' <=> p \in {r \in OpenXdg : OwnerOf[r] # c} \cup ToSet(q)
  <2>1. CASE p \in ToSet(q)
    BY <1>2, <1>4, <2>1
  <2>2. CASE p \notin ToSet(q)
    <3>1. p \in OpenXdg' <=> \E d \in Clients \ {c} : p \in ToSet(xdgPopups[d])
      BY <1>2, <1>4, <2>2
    <3>2. (\E d \in Clients \ {c} : p \in ToSet(xdgPopups[d]))
            <=> p \in OpenXdg /\ OwnerOf[p] # c
      BY OpenIsListed DEF OpenXdg
    <3> QED  BY <2>2, <3>1, <3>2
  <2> QED  BY <2>1, <2>2
<1> QED  BY <1>1, <1>3, <1>5

\* With one shell in use only its popups are open.
LEMMA OneShellOpen ==
  ASSUME PopupsInv, shells # {"xdg", "wl"}
  PROVE  \/ OpenXdg = {} /\ "xdg" \notin shells /\ filter.closes \notin XdgPopups
         \/ isPopup = {} /\ "wl" \notin shells /\ filter.closes \notin WlPopups
<1>1. shells \subseteq {"xdg", "wl"}
  BY PopupsAssumption DEF PopupsInv, PopupsTypeOK
<1>2. "xdg" \notin shells \/ "wl" \notin shells
  BY <1>1
<1> QED  BY <1>2 DEF PopupsInv, OfShellsUsed

\* The callback of the filter leaves no popup that was not told or excused.
LEMMA ClosesPopups ==
  ASSUME PopupsInv, filter.closes \in Popups, ClosePopups, UNCHANGED xdgPopups
  PROVE  /\ popupShellSurfaces' \subseteq popupShellSurfaces
         /\ told' \subseteq Popups /\ excused' \subseteq Popups
         /\ popupShellSurfaces' \cap told' = {}
         /\ OpenXdg' = OpenXdg
         /\ shells # {"xdg", "wl"} => Open' \subseteq told' \cup excused'
<1>1. /\ OpenXdg \subseteq XdgPopups /\ popupShellSurfaces \subseteq WlPopups
      /\ told \subseteq Popups /\ excused \subseteq Popups
      /\ popupShellSurfaces \subseteq isPopup /\ popupShellSurfaces \cap told = {}
  BY OpenIsListed DEF PopupsInv, PopupsTypeOK
<1>2. OpenXdg' = OpenXdg
  BY DEF OpenXdg, ToSet
<1>3. CASE filter.closes \in WlPopups
  <2>1. told' = told \cup popupShellSurfaces /\ popupShellSurfaces' = {} /\ excused' = excused
    BY <1>3 DEF ClosePopups
  <2>2. shells # {"xdg", "wl"} => OpenXdg = {}
    BY <1>3, OneShellOpen
  <2> QED  BY <1>1, <1>2, <2>1, <2>2 DEF Open, Popups
<1>4. CASE filter.closes \notin WlPopups
  <2>1. /\ popupShellSurfaces' = popupShellSurfaces
        /\ \/ told' = told \cup OpenXdg /\ excused' = excused
           \/ excused' = excused \cup OpenXdg /\ told' = told
    BY <1>4 DEF ClosePopups
  <2>2. filter.closes \in XdgPopups
    BY <1>4 DEF Popups
  <2>3. shells # {"xdg", "wl"} => popupShellSurfaces = {}
    BY <1>1, <2>2, OneShellOpen
  <2>4. OpenXdg \cap popupShellSurfaces = {}
    BY <1>1, PopupsAssumption
  <2> QED  BY <1>1, <1>2, <2>1, <2>3, <2>4 DEF Open, Popups
<1> QED  BY <1>3, <1>4

\* Every request, press and release keeps the invariant of the popups.
LEMMA PopupsStep == PopupsInv /\ [PopupsNext]_popupGrabVars => PopupsInv'
<1> SUFFICES ASSUME PopupsInv, [PopupsNext]_popupGrabVars PROVE PopupsInv'
  OBVIOUS
<1> USE PopupsAssumption
<1>T. /\ shells \in Mixes /\ shells \subseteq {"xdg", "wl"}
      /\ xdgPopups \in [Clients -> Seq(XdgPopups)]
      /\ items \subseteq XdgPopups
      /\ popupShellSurfaces \subseteq isPopup /\ isPopup \subseteq WlPopups
      /\ filter \in [installed : BOOLEAN, client : Clients \cup {None},
                     closes : Popups \cup {None}]
      /\ waitForRelease \in BOOLEAN /\ mousePressTimeout \in BOOLEAN
      /\ pressed \in BOOLEAN /\ grab \in Clients \cup {None}
      /\ told \subseteq Popups /\ excused \subseteq Popups
  BY DEF PopupsInv, PopupsTypeOK
<1>I. /\ \A c \in Clients : PopupsOf(c)
      /\ OfShellsUsed /\ HasCallback /\ popupShellSurfaces \cap told = {}
      /\ shells # {"xdg", "wl"} => ClosedByPress /\ Guarded
  BY DEF PopupsInv
<1>O. /\ OpenXdg \subseteq XdgPopups
      /\ \A p \in OpenXdg : p \in ToSet(xdgPopups[OwnerOf[p]])
      /\ \A c \in Clients : \A p \in ToSet(xdgPopups[c]) : p \in OpenXdg /\ OwnerOf[p] = c
  BY <1>T, <1>I, OpenIsListed
<1>U. ASSUME UNCHANGED xdgPopups
      PROVE  OpenXdg' = OpenXdg /\ \A c \in Clients : PopupsOf(c)'
  BY <1>U, <1>I DEF OpenXdg, ToSet, PopupsOf
<1>F. ASSUME filter' = filter \/ filter' = [filter EXCEPT !.installed = FALSE]
      PROVE  /\ filter' \in [installed : BOOLEAN, client : Clients \cup {None},
                             closes : Popups \cup {None}]
             /\ filter'.closes = filter.closes
             /\ filter'.installed => filter.installed
  <2>1. CASE filter' = filter
    BY <2>1, <1>T
  <2>2. CASE filter' = [filter EXCEPT !.installed = FALSE]
    <3>1. /\ filter' \in [installed : BOOLEAN, client : Clients \cup {None},
                          closes : Popups \cup {None}]
          /\ filter'.closes = filter.closes /\ ~filter'.installed
      BY <2>2, <1>T
    <3> QED  BY <3>1
  <2> QED  BY <1>F, <2>1, <2>2
<1>1. CASE UNCHANGED popupGrabVars
  <2>1. UNCHANGED <<shells, xdgPopups, items, popupShellSurfaces, isPopup, filter,
                    waitForRelease, mousePressTimeout, grab, pressed, told, excused>>
    BY <1>1 DEF popupGrabVars, popupVars, filterVars, mouseVars
  <2>2. OpenXdg' = OpenXdg /\ \A c \in Clients : PopupsOf(c)'
    BY <2>1, <1>U
  <2> QED
    BY <2>1, <2>2, <1>T, <1>I
    DEF PopupsInv, PopupsTypeOK, OfShellsUsed, HasCallback, ClosedByPress, Guarded, Open
<1>2. ASSUME NEW c \in Clients, Disconnect(c) PROVE PopupsInv'
  <2> DEFINE gone == {p \in Popups : OwnerOf[p] = c}
             xdg  == gone \cap OpenXdg
             wl   == gone \cap isPopup
  <2>1. /\ xdgPopups' = [xdgPopups EXCEPT ![c] = <<>>]
        /\ popupShellSurfaces' = popupShellSurfaces \ wl /\ isPopup' = isPopup \ wl
        /\ IF xdg # {} /\ OpenXdg = xdg THEN CancelFilter({})
           ELSE IF wl # {} THEN CancelFilter(popupShellSurfaces \ wl)
           ELSE UNCHANGED filter
        /\ told' = told \ gone /\ excused' = excused \ gone
        /\ grab' = IF grab = c THEN None ELSE grab
        /\ UNCHANGED <<shells, items, waitForRelease, mousePressTimeout, pressed>>
    BY <1>2 DEF Disconnect
  <2>2. /\ xdgPopups' \in [Clients -> Seq(XdgPopups)]
        /\ \A d \in Clients : PopupsOf(d)'
        /\ OpenXdg' = {p \in OpenXdg : OwnerOf[p] # c} \cup ToSet(<<>>)
    <3>1. <<>> \in Seq(XdgPopups) /\ DOMAIN <<>> = {} /\ ToSet(<<>>) = {}
      BY DEF ToSet
    <3> QED  BY <2>1, <3>1, <1>T, <1>I, OpenChanges
  <2>3. OpenXdg' = OpenXdg \ gone
    <3>1. ToSet(<<>>) = {}
      BY DEF ToSet
    <3> QED  BY <2>2, <3>1, <1>O DEF Popups
  <2>4. filter' = filter \/ filter' = [filter EXCEPT !.installed = FALSE]
    BY <2>1 DEF CancelFilter
  <2>5. PopupsTypeOK'
    BY <2>1, <2>2, <2>4, <1>F, <1>T DEF PopupsTypeOK
  <2>6. OfShellsUsed' /\ HasCallback' /\ popupShellSurfaces' \cap told' = {}
    BY <2>1, <2>3, <2>4, <1>F, <1>I DEF OfShellsUsed, HasCallback
  <2>7. ASSUME shells' # {"xdg", "wl"} PROVE ClosedByPress' /\ Guarded'
    <3>1. shells # {"xdg", "wl"} /\ ClosedByPress /\ Guarded
      BY <2>1, <2>7, <1>I
    <3>2. Open' = Open \ gone
      BY <2>1, <2>3, <1>T DEF Open, Popups
    <3>3. ClosedByPress'
      BY <2>1, <3>1, <3>2 DEF ClosedByPress
    <3>4. Open' \ (told' \cup excused') # {} => Open' # {} /\ filter.installed
      BY <2>1, <3>1, <3>2 DEF Guarded
    <3> HIDE DEF gone
    <3>5. CASE OpenXdg = {}
      <4>1. Open = popupShellSurfaces /\ Open' = popupShellSurfaces \ wl /\ xdg = {}
        BY <2>1, <2>3, <3>5 DEF Open
      <4>2. IF wl # {} THEN CancelFilter(popupShellSurfaces \ wl) ELSE filter' = filter
        BY <2>1, <4>1
      <4> HIDE DEF xdg, wl
      <4>3. CASE filter' = filter /\ (wl = {} \/ Open' # {} \/ waitForRelease)
        <5>1. wl = {} => Open' = Open
          BY <4>1
        <5>2. filter'.installed => Open' # {} \/ waitForRelease'
          BY <3>1, <4>3, <5>1, <2>1 DEF Guarded
        <5>3. Open' \ (told' \cup excused') # {} => filter'.installed
          BY <3>4, <4>3
        <5> QED  BY <3>3, <5>2, <5>3 DEF Guarded
      <4>4. CASE /\ filter' = [filter EXCEPT !.installed = FALSE] /\ Open' = {}
        <5>1. ~filter'.installed
          BY <4>4, <1>T
        <5> QED  BY <3>3, <4>4, <5>1 DEF Guarded
      <4> QED  BY <4>1, <4>2, <4>3, <4>4 DEF CancelFilter
    <3>6. CASE OpenXdg # {}
      <4>1. isPopup = {} /\ wl = {} /\ popupShellSurfaces = {}
        BY <3>1, <3>6, <1>T, OneShellOpen
      <4>2. Open = OpenXdg /\ Open' = OpenXdg \ xdg
        BY <2>1, <2>3, <4>1 DEF Open
      <4>3. IF OpenXdg = xdg THEN CancelFilter({}) ELSE filter' = filter
        BY <2>1, <3>6, <4>1
      <4>4. xdg \subseteq OpenXdg
        OBVIOUS
      <4> HIDE DEF xdg, wl
      <4>5. CASE filter' = filter /\ (Open' # {} \/ waitForRelease)
        BY <3>3, <3>4, <4>5, <2>1 DEF Guarded
      <4>6. CASE filter' = [filter EXCEPT !.installed = FALSE] /\ Open' = {}
        <5>1. ~filter'.installed
          BY <4>6, <1>T
        <5> QED  BY <3>3, <4>6, <5>1 DEF Guarded
      <4>7. OpenXdg # xdg => OpenXdg \ xdg # {}
        BY <4>4
      <4>8. CASE OpenXdg = xdg
        <5>1. IF ~waitForRelease THEN filter' = [filter EXCEPT !.installed = FALSE]
              ELSE filter' = filter
          BY <4>3, <4>8 DEF CancelFilter
        <5>2. Open' = {}
          BY <4>2, <4>8
        <5> QED  BY <5>1, <5>2, <4>5, <4>6
      <4>9. CASE OpenXdg # xdg
        BY <4>2, <4>3, <4>5, <4>7, <4>9
      <4> QED  BY <4>8, <4>9
    <3> QED  BY <3>5, <3>6
  <2> QED  BY <2>2, <2>5, <2>6, <2>7 DEF PopupsInv
<1>3. ASSUME NEW p \in XdgPopups, NEW parent, GetXdgPopup(p, parent),
             IsValidPopupParent(OwnerOf[p], parent)
      PROVE  PopupsInv'
  <2> DEFINE c == OwnerOf[p]
             q == Append(xdgPopups[c], p)
  <2>1. /\ "xdg" \in shells /\ p \notin OpenXdg
        /\ xdgPopups' = [xdgPopups EXCEPT ![c] = q]
        /\ items' = items \cup {p}
        /\ StartFilter(c, p)
        /\ excused' = IF waitForRelease THEN excused \cup {p} ELSE excused
        /\ UNCHANGED <<shells, popupShellSurfaces, isPopup, waitForRelease,
                       mousePressTimeout, grab, pressed, told>>
    BY <1>3 DEF GetXdgPopup, mouseVars
  <2>2. c \in Clients /\ p \in Popups
    BY DEF Popups
  <2>3. /\ q \in Seq(XdgPopups) /\ ToSet(q) = ToSet(xdgPopups[c]) \cup {p}
        /\ \A i, j \in DOMAIN q : q[i] = q[j] => i = j
        /\ \A r \in ToSet(q) : OwnerOf[r] = c
    <3>1. xdgPopups[c] \in Seq(XdgPopups)
      BY <2>2, <1>T
    <3>2. /\ \A r \in ToSet(xdgPopups[c]) : r # p /\ OwnerOf[r] = c
          /\ \A i, j \in DOMAIN xdgPopups[c] : xdgPopups[c][i] = xdgPopups[c][j] => i = j
      BY <2>1, <2>2, <1>O, <1>I DEF PopupsOf
    <3> DEFINE s == xdgPopups[c]
    <3>3. s \in Seq(XdgPopups) /\ q = Append(s, p)
      BY <3>1
    <3>4. /\ \A r \in ToSet(s) : r # p /\ OwnerOf[r] = c
          /\ \A i, j \in DOMAIN s : s[i] = s[j] => i = j
      BY <3>2
    <3> HIDE DEF s, q
    <3>5. /\ q \in Seq(XdgPopups) /\ DOMAIN q = 1..(Len(s) + 1) /\ Len(s) \in Nat
          /\ DOMAIN s = 1..Len(s) /\ q[Len(s) + 1] = p /\ \A i \in DOMAIN s : q[i] = s[i]
      BY <3>3
    <3>6. ToSet(q) = ToSet(s) \cup {p}
      <4>1. \A i \in DOMAIN q : i \in DOMAIN s \/ i = Len(s) + 1
        BY <3>5
      <4>2. \A i \in DOMAIN s : i \in DOMAIN q
        BY <3>5
      <4> QED  BY <3>5, <4>1, <4>2 DEF ToSet
    <3>7. ASSUME NEW i \in DOMAIN q, NEW j \in DOMAIN q, q[i] = q[j] PROVE i = j
      <4>1. \A k \in DOMAIN s : s[k] # p
        BY <3>4 DEF ToSet
      <4> QED  BY <3>4, <3>5, <3>7, <4>1
    <3>8. \A r \in ToSet(q) : OwnerOf[r] = c
      BY <3>4, <3>6
    <3> QED  BY <3>5, <3>6, <3>7, <3>8 DEF s
  <2> HIDE DEF q
  <2>4. /\ xdgPopups' \in [Clients -> Seq(XdgPopups)]
        /\ \A d \in Clients : PopupsOf(d)'
        /\ OpenXdg' = OpenXdg \cup {p}
    <3>1. /\ xdgPopups' \in [Clients -> Seq(XdgPopups)]
          /\ \A d \in Clients : PopupsOf(d)'
          /\ OpenXdg' = {r \in OpenXdg : OwnerOf[r] # c} \cup ToSet(q)
      BY <2>1, <2>2, <2>3, <1>T, <1>I, OpenChanges
    <3>2. {r \in OpenXdg : OwnerOf[r] # c} \cup ToSet(xdgPopups[c]) = OpenXdg
      BY <2>2, <1>O
    <3> QED  BY <2>3, <3>1, <3>2
  <2> HIDE DEF c
  <2>5. /\ filter' \in [installed : BOOLEAN, client : Clients \cup {None},
                        closes : Popups \cup {None}]
        /\ filter'.installed /\ filter'.closes \in {filter.closes, p} /\ filter'.closes \in Popups
    <3>1. CASE filter.installed
      BY <2>1, <3>1, <1>T, <1>I DEF StartFilter, HasCallback
    <3>2. CASE ~filter.installed
      <4>1. filter' = [installed |-> TRUE, client |-> c, closes |-> p]
        BY <2>1, <3>2 DEF StartFilter
      <4> QED  BY <4>1, <2>2
    <3> QED  BY <3>1, <3>2
  <2>6. PopupsTypeOK'
    <3>1. items' \subseteq XdgPopups /\ excused' \subseteq Popups
      BY <2>1, <2>2, <1>T
    <3> QED  BY <2>1, <2>4, <2>5, <3>1, <1>T DEF PopupsTypeOK
  <2>7. OfShellsUsed' /\ HasCallback' /\ popupShellSurfaces' \cap told' = {}
    BY <2>1, <2>4, <2>5, <1>I DEF OfShellsUsed, HasCallback
  <2>8. Open' = Open \cup {p}
    BY <2>1, <2>4 DEF Open
  <2>9. ASSUME shells' # {"xdg", "wl"} PROVE ClosedByPress' /\ Guarded'
    BY <2>1, <2>5, <2>8, <2>9, <1>I DEF ClosedByPress, Guarded
  <2> QED  BY <2>4, <2>6, <2>7, <2>9 DEF PopupsInv
<1>4. ASSUME NEW p \in XdgPopups, DestroyXdgPopup(p) PROVE PopupsInv'
  <2> DEFINE c == OwnerOf[p]
             q == PopupsWithout(xdgPopups[c], p)
  <2>1. /\ p \in OpenXdg
        /\ xdgPopups' = [xdgPopups EXCEPT ![c] = q]
        /\ CancelFilter(OpenXdg \ {p})
        /\ told' = told \ {p} /\ excused' = excused \ {p}
        /\ UNCHANGED <<shells, items, popupShellSurfaces, isPopup, waitForRelease,
                       mousePressTimeout, grab, pressed>>
    BY <1>4 DEF DestroyXdgPopup, mouseVars
  <2>2. c \in Clients /\ xdgPopups[c] \in Seq(XdgPopups) /\ p \in ToSet(xdgPopups[c])
    BY <2>1, <1>T, <1>O DEF Popups
  <2>3. /\ q \in Seq(XdgPopups) /\ ToSet(q) = ToSet(xdgPopups[c]) \ {p}
        /\ \A i, j \in DOMAIN q : q[i] = q[j] => i = j
    BY <2>2, <1>I, PopupTaken DEF PopupsOf
  <2> HIDE DEF q
  <2>4. /\ xdgPopups' \in [Clients -> Seq(XdgPopups)]
        /\ \A d \in Clients : PopupsOf(d)'
        /\ OpenXdg' = OpenXdg \ {p}
    <3>1. \A r \in ToSet(q) : OwnerOf[r] = c
      BY <2>2, <2>3, <1>O
    <3>2. /\ xdgPopups' \in [Clients -> Seq(XdgPopups)]
          /\ \A d \in Clients : PopupsOf(d)'
          /\ OpenXdg' = {r \in OpenXdg : OwnerOf[r] # c} \cup ToSet(q)
      BY <2>1, <2>2, <2>3, <3>1, <1>T, <1>I, OpenChanges
    <3>3. {r \in OpenXdg : OwnerOf[r] # c} \cup ToSet(xdgPopups[c]) = OpenXdg
      BY <2>2, <1>O
    <3> QED  BY <2>3, <3>2, <3>3
  <2> HIDE DEF c
  <2>5. filter' = filter \/ filter' = [filter EXCEPT !.installed = FALSE]
    BY <2>1 DEF CancelFilter
  <2>6. PopupsTypeOK'
    BY <2>1, <2>4, <2>5, <1>F, <1>T DEF PopupsTypeOK
  <2>7. OfShellsUsed' /\ HasCallback' /\ popupShellSurfaces' \cap told' = {}
    BY <2>1, <2>4, <2>5, <1>F, <1>I DEF OfShellsUsed, HasCallback
  <2>8. ASSUME shells' # {"xdg", "wl"} PROVE ClosedByPress' /\ Guarded'
    <3>1. shells # {"xdg", "wl"} /\ ClosedByPress /\ Guarded /\ popupShellSurfaces = {}
      BY <2>1, <2>8, <1>I, <1>T, OneShellOpen
    <3>2. Open = OpenXdg /\ Open' = OpenXdg \ {p}
      BY <2>1, <2>4, <3>1 DEF Open
    <3>3. ClosedByPress'
      BY <2>1, <3>1, <3>2 DEF ClosedByPress
    <3>6. Open' \ (told' \cup excused') # {} => filter.installed
      BY <2>1, <3>1, <3>2 DEF Guarded
    <3>4. CASE filter' = filter /\ (Open' # {} \/ waitForRelease)
      BY <2>1, <3>3, <3>6, <3>4 DEF Guarded
    <3>5. CASE filter' = [filter EXCEPT !.installed = FALSE] /\ Open' = {}
      <4>1. ~filter'.installed
        BY <3>5, <1>T
      <4> QED  BY <3>3, <3>5, <4>1 DEF Guarded
    <3> QED  BY <2>1, <3>2, <3>3, <3>4, <3>5 DEF CancelFilter
  <2> QED  BY <2>4, <2>6, <2>7, <2>8 DEF PopupsInv
<1>5. ASSUME NEW p \in XdgPopups, DestroyItem(p) PROVE PopupsInv'
  <2>1. /\ items' \subseteq items
        /\ UNCHANGED <<shells, xdgPopups, popupShellSurfaces, isPopup, filter,
                       waitForRelease, mousePressTimeout, grab, pressed, told, excused>>
    BY <1>5 DEF DestroyItem, filterVars, mouseVars
  <2>2. OpenXdg' = OpenXdg /\ \A c \in Clients : PopupsOf(c)'
    BY <2>1, <1>U
  <2>3. PopupsTypeOK'
    BY <2>1, <1>T DEF PopupsTypeOK
  <2> QED
    BY <2>1, <2>2, <2>3, <1>I
    DEF PopupsInv, OfShellsUsed, HasCallback, ClosedByPress, Guarded, Open
<1>6. ASSUME NEW w \in WlPopups, SetPopup(w) PROVE PopupsInv'
  <2>1. /\ "wl" \in shells
        /\ isPopup' = isPopup \cup {w}
        /\ popupShellSurfaces' = popupShellSurfaces \cup {w}
        /\ StartFilter(OwnerOf[w], w)
        /\ told' = told \ {w}
        /\ excused' = IF waitForRelease /\ w \notin popupShellSurfaces
                      THEN excused \cup {w} ELSE excused
        /\ UNCHANGED <<shells, xdgPopups, items, waitForRelease, mousePressTimeout,
                       grab, pressed>>
    BY <1>6 DEF SetPopup, mouseVars
  <2>2. OwnerOf[w] \in Clients /\ w \in Popups
    BY DEF Popups
  <2>3. OpenXdg' = OpenXdg /\ \A c \in Clients : PopupsOf(c)'
    BY <2>1, <1>U
  <2>4. /\ filter' \in [installed : BOOLEAN, client : Clients \cup {None},
                        closes : Popups \cup {None}]
        /\ filter'.installed /\ filter'.closes \in {filter.closes, w} /\ filter'.closes \in Popups
    <3>1. CASE filter.installed
      BY <2>1, <3>1, <1>T, <1>I DEF StartFilter, HasCallback
    <3>2. CASE ~filter.installed
      <4>1. filter' = [installed |-> TRUE, client |-> OwnerOf[w], closes |-> w]
        BY <2>1, <3>2 DEF StartFilter
      <4> QED  BY <4>1, <2>2
    <3> QED  BY <3>1, <3>2
  <2>5. PopupsTypeOK'
    <3>1. /\ popupShellSurfaces' \subseteq isPopup' /\ isPopup' \subseteq WlPopups
          /\ told' \subseteq Popups /\ excused' \subseteq Popups
      BY <2>1, <2>2, <1>T
    <3> QED  BY <2>1, <2>4, <3>1, <1>T DEF PopupsTypeOK
  <2>6. popupShellSurfaces' \cap told' = {}
    BY <2>1, <1>I
  <2>7. OfShellsUsed' /\ HasCallback'
    <3>1. w \notin XdgPopups
      OBVIOUS
    <3> QED  BY <2>1, <2>3, <2>4, <3>1, <1>I DEF OfShellsUsed, HasCallback
  <2>8. Open' = Open \cup {w}
    BY <2>1, <2>3 DEF Open
  <2>9. ASSUME shells' # {"xdg", "wl"} PROVE ClosedByPress' /\ Guarded'
    <3>1. ClosedByPress /\ popupShellSurfaces \subseteq Open
      BY <2>1, <2>9, <1>I DEF Open
    <3>2. waitForRelease => w \in excused'
      BY <2>1, <3>1, <1>I DEF ClosedByPress
    <3>3. ClosedByPress'
      BY <2>1, <2>8, <3>1, <3>2 DEF ClosedByPress
    <3> QED  BY <2>4, <2>8, <3>3 DEF Guarded
  <2> QED  BY <2>3, <2>5, <2>6, <2>7, <2>9 DEF PopupsInv
<1>7. ASSUME NEW w \in WlPopups, RemoveWlPopup(w) PROVE PopupsInv'
  <2>1. /\ w \in isPopup /\ isPopup' = isPopup \ {w}
        /\ popupShellSurfaces' = popupShellSurfaces \ {w}
        /\ CancelFilter(popupShellSurfaces \ {w})
        /\ told' = told \ {w} /\ excused' = excused \ {w}
        /\ UNCHANGED <<shells, xdgPopups, items, waitForRelease, mousePressTimeout,
                       grab, pressed>>
    BY <1>7 DEF RemoveWlPopup, mouseVars
  <2>2. OpenXdg' = OpenXdg /\ \A c \in Clients : PopupsOf(c)'
    BY <2>1, <1>U
  <2>3. filter' = filter \/ filter' = [filter EXCEPT !.installed = FALSE]
    BY <2>1 DEF CancelFilter
  <2>4. PopupsTypeOK'
    BY <2>1, <2>3, <1>F, <1>T DEF PopupsTypeOK
  <2>5. OfShellsUsed' /\ HasCallback' /\ popupShellSurfaces' \cap told' = {}
    BY <2>1, <2>2, <2>3, <1>F, <1>I DEF OfShellsUsed, HasCallback
  <2>6. ASSUME shells' # {"xdg", "wl"} PROVE ClosedByPress' /\ Guarded'
    <3>1. ClosedByPress /\ Guarded /\ OpenXdg = {}
      BY <2>1, <2>6, <1>I, OneShellOpen
    <3>2. Open = popupShellSurfaces /\ Open' = popupShellSurfaces \ {w}
      BY <2>1, <2>2, <3>1 DEF Open
    <3>3. ClosedByPress'
      BY <2>1, <3>1, <3>2 DEF ClosedByPress
    <3>6. Open' \ (told' \cup excused') # {} => filter.installed
      BY <2>1, <3>1, <3>2 DEF Guarded
    <3>4. CASE filter' = filter /\ (Open' # {} \/ waitForRelease)
      BY <2>1, <3>3, <3>6, <3>4 DEF Guarded
    <3>5. CASE filter' = [filter EXCEPT !.installed = FALSE] /\ Open' = {}
      <4>1. ~filter'.installed
        BY <3>5, <1>T
      <4> QED  BY <3>3, <3>5, <4>1 DEF Guarded
    <3> QED  BY <2>1, <3>2, <3>3, <3>4, <3>5 DEF CancelFilter
  <2> QED  BY <2>2, <2>4, <2>5, <2>6 DEF PopupsInv
<1>8. ASSUME NEW c \in Clients, PressOn(c) PROVE PopupsInv'
  <2>1. /\ pressed' = TRUE /\ grab' = c
        /\ UNCHANGED <<shells, xdgPopups, items, isPopup, filter>>
    BY <1>8 DEF PressOn
  <2>2. OpenXdg' = OpenXdg /\ \A d \in Clients : PopupsOf(d)'
    BY <2>1, <1>U
  <2>3. CASE /\ filter.installed /\ mousePressTimeout' = FALSE
             /\ waitForRelease' = TRUE /\ ClosePopups
    <3>1. filter.closes \in Popups
      BY <2>3, <1>I DEF HasCallback
    <3>2. /\ popupShellSurfaces' \subseteq popupShellSurfaces
          /\ told' \subseteq Popups /\ excused' \subseteq Popups
          /\ popupShellSurfaces' \cap told' = {}
          /\ shells # {"xdg", "wl"} => Open' \subseteq told' \cup excused'
      BY <2>1, <2>3, <3>1, ClosesPopups
    <3>3. PopupsTypeOK'
      BY <2>1, <2>3, <3>2, <1>T DEF PopupsTypeOK
    <3>4. OfShellsUsed' /\ HasCallback'
      BY <2>1, <2>2, <2>3, <1>I DEF OfShellsUsed, HasCallback
    <3>5. shells' # {"xdg", "wl"} => ClosedByPress' /\ Guarded'
      BY <2>1, <2>3, <3>2 DEF ClosedByPress, Guarded
    <3> QED  BY <2>2, <3>2, <3>3, <3>4, <3>5 DEF PopupsInv
  <2>4. CASE /\ mousePressTimeout' \in BOOLEAN /\ (mousePressTimeout' => mousePressTimeout)
             /\ UNCHANGED <<waitForRelease, popupShellSurfaces, told, excused>>
    <3>1. PopupsTypeOK'
      BY <2>1, <2>4, <1>T DEF PopupsTypeOK
    <3> QED
      BY <2>1, <2>2, <2>4, <3>1, <1>I
      DEF PopupsInv, OfShellsUsed, HasCallback, ClosedByPress, Guarded, Open
  <2> QED  BY <1>8, <2>3, <2>4, <1>T DEF PressOn
<1>9. CASE PressOutside
  <2>1. /\ pressed' = TRUE
        /\ mousePressTimeout' = (mousePressTimeout \/ (filter.installed /\ ~waitForRelease))
        /\ UNCHANGED <<shells, xdgPopups, items, popupShellSurfaces, isPopup, filter,
                       waitForRelease, grab, told, excused>>
    BY <1>9 DEF PressOutside, popupVars
  <2>2. OpenXdg' = OpenXdg /\ \A c \in Clients : PopupsOf(c)'
    BY <2>1, <1>U
  <2>3. mousePressTimeout' \in BOOLEAN
    BY <2>1, <1>T
  <2>4. PopupsTypeOK'
    BY <2>1, <2>3, <1>T DEF PopupsTypeOK
  <2> QED
    BY <2>1, <2>2, <2>4, <1>I
    DEF PopupsInv, OfShellsUsed, HasCallback, ClosedByPress, Guarded, Open
<1>10. CASE ReleaseButton
  <2>1. /\ pressed' = FALSE /\ grab' = None
        /\ UNCHANGED <<shells, xdgPopups, items, popupShellSurfaces, isPopup,
                       mousePressTimeout, told, excused>>
    BY <1>10 DEF ReleaseButton, popupVars
  <2>2. OpenXdg' = OpenXdg /\ Open' = Open /\ \A c \in Clients : PopupsOf(c)'
    BY <2>1, <1>U DEF Open
  <2>3. CASE /\ waitForRelease /\ waitForRelease' = FALSE
             /\ filter' = [filter EXCEPT !.installed = FALSE]
    <3>1. /\ ~filter'.installed /\ filter'.closes = filter.closes
          /\ filter' \in [installed : BOOLEAN, client : Clients \cup {None},
                          closes : Popups \cup {None}]
      BY <2>3, <1>T
    <3>2. PopupsTypeOK'
      BY <2>1, <2>3, <3>1, <1>T DEF PopupsTypeOK
    <3>3. OfShellsUsed' /\ HasCallback' /\ popupShellSurfaces' \cap told' = {}
      BY <2>1, <2>2, <3>1, <1>I DEF OfShellsUsed, HasCallback
    <3>4. shells' # {"xdg", "wl"} => ClosedByPress' /\ Guarded'
      BY <2>1, <2>2, <2>3, <3>1, <1>I DEF ClosedByPress, Guarded
    <3> QED  BY <2>2, <3>2, <3>3, <3>4 DEF PopupsInv
  <2>4. CASE UNCHANGED <<filter, waitForRelease>>
    <3>1. PopupsTypeOK'
      BY <2>1, <2>4, <1>T DEF PopupsTypeOK
    <3> QED
      BY <2>1, <2>2, <2>4, <3>1, <1>I
      DEF PopupsInv, OfShellsUsed, HasCallback, ClosedByPress, Guarded
  <2> QED  BY <1>10, <2>3, <2>4 DEF ReleaseButton
<1>11. CASE PressTimeout
  <2>1. /\ mousePressTimeout /\ mousePressTimeout' = FALSE /\ ClosePopups
        /\ filter' = [filter EXCEPT !.installed = FALSE]
        /\ UNCHANGED <<shells, xdgPopups, items, isPopup, waitForRelease, grab, pressed>>
    BY <1>11 DEF PressTimeout, mouseVars
  <2>2. OpenXdg' = OpenXdg /\ \A c \in Clients : PopupsOf(c)'
    BY <2>1, <1>U
  <2>3. filter.closes \in Popups
    BY <2>1, <1>I DEF HasCallback
  <2>4. /\ popupShellSurfaces' \subseteq popupShellSurfaces
        /\ told' \subseteq Popups /\ excused' \subseteq Popups
        /\ popupShellSurfaces' \cap told' = {}
        /\ shells # {"xdg", "wl"} => Open' \subseteq told' \cup excused'
    BY <2>1, <2>3, ClosesPopups
  <2>5. /\ ~filter'.installed /\ filter'.closes = filter.closes
        /\ filter' \in [installed : BOOLEAN, client : Clients \cup {None},
                        closes : Popups \cup {None}]
    BY <2>1, <1>T
  <2>6. PopupsTypeOK'
    BY <2>1, <2>4, <2>5, <1>T DEF PopupsTypeOK
  <2>7. OfShellsUsed' /\ HasCallback'
    BY <2>1, <2>2, <2>5, <1>I DEF OfShellsUsed, HasCallback
  <2>8. shells' # {"xdg", "wl"} => ClosedByPress' /\ Guarded'
    BY <2>1, <2>4, <2>5 DEF ClosedByPress, Guarded
  <2> QED  BY <2>2, <2>4, <2>6, <2>7, <2>8 DEF PopupsInv
<1>12. ASSUME NEW p \in XdgPopups, NEW parent, GetXdgPopup(p, parent),
              ~IsValidPopupParent(OwnerOf[p], parent)
       PROVE  PopupsInv'
  <2>1. Disconnect(OwnerOf[p]) /\ OwnerOf[p] \in Clients
    BY <1>12 DEF GetXdgPopup
  <2> QED  BY <2>1, <1>2
<1> QED
  BY <1>1, <1>2, <1>3, <1>4, <1>5, <1>6, <1>7, <1>8, <1>9, <1>10, <1>11, <1>12
  DEF PopupsNext

\* In the beginning there is neither popup nor filter.
LEMMA PopupsStart == PopupsInit => PopupsInv
<1> USE PopupsAssumption
<1> SUFFICES ASSUME PopupsInit PROVE PopupsInv
  OBVIOUS
<1>1. /\ xdgPopups = [c \in Clients |-> <<>>] /\ shells \in Mixes
      /\ items = {} /\ popupShellSurfaces = {} /\ isPopup = {}
      /\ filter = [installed |-> FALSE, client |-> None, closes |-> None]
      /\ waitForRelease = FALSE /\ mousePressTimeout = FALSE
      /\ grab = None /\ pressed = FALSE /\ told = {} /\ excused = {}
  BY DEF PopupsInit, NoFilter
<1>2. /\ xdgPopups \in [Clients -> Seq(XdgPopups)] /\ OpenXdg = {}
      /\ \A c \in Clients : PopupsOf(c)
  BY <1>1 DEF OpenXdg, ToSet, PopupsOf
<1>3. PopupsTypeOK
  BY <1>1, <1>2 DEF PopupsTypeOK
<1> QED
  BY <1>1, <1>2, <1>3
  DEF PopupsInv, OfShellsUsed, HasCallback, ClosedByPress, Guarded, Open

\* While one shell is in use, the mouse grab is always that of the popups that
\* are open: it is not given up before the last, nor kept after it.
THEOREM GrabAlwaysMatches == PopupsSpec => []GrabMatchesPopups
<1> USE PopupsAssumption
<1>1. PopupsInit => PopupsInv
  BY PopupsStart
<1>2. PopupsInv /\ [PopupsNext]_popupGrabVars => PopupsInv'
  BY PopupsStep
<1>3. PopupsInv => GrabMatchesPopups
  <2> SUFFICES ASSUME PopupsInv, Cardinality(shells) = 1 PROVE Guarded
    BY DEF GrabMatchesPopups, Guarded
  <2>1. Cardinality({"xdg"} \cup {"wl"}) = 2
    <3>1. IsFiniteSet({"xdg"}) /\ Cardinality({"xdg"}) = 1
      BY FS_Singleton
    <3> QED  BY <3>1, FS_AddElement
  <2>2. {"xdg"} \cup {"wl"} = {"xdg", "wl"}
    OBVIOUS
  <2>3. shells # {"xdg", "wl"}
    <3>1. ASSUME shells = {"xdg", "wl"} PROVE Cardinality(shells) = 2
      BY <2>1, <2>2, <3>1
    <3>2. Cardinality(shells) # 2
      OBVIOUS
    <3> QED  BY <3>1, <3>2
  <2> QED  BY <2>3 DEF PopupsInv
<1> QED  BY <1>1, <1>2, <1>3, PTL DEF PopupsSpec
\* Every variable of PopupGrab keeps its type.
THEOREM PopupsTypeCorrect == PopupsSpec => []PopupsTypeOK
<1>1. PopupsInv => PopupsTypeOK
  BY DEF PopupsInv
<1> QED  BY <1>1, PopupsStart, PopupsStep, PTL DEF PopupsSpec

-----------------------------------------------------------------------------
(* Windows of X clients and their surfaces *)

EventTypes == {"Create", "SurfaceId", "Destroy"}
Events     == [type : EventTypes, window : XWindows, id : Ids \cup {0}]
ShellSurfaceRecords ==
  [window : XWindows, surfaceId : Ids \cup {0}, surface : Ids \cup {0},
   state : {"live", "deleting", "deleted"}]
Requests   == [type : {"Create", "Destroy"}, window : XWindows, id : Ids]

\* Is an event of the window on its way, or a request for its surface?
Announced(w, t) == \E e \in ToSet(xEvents) : e.window = w /\ e.type = t
Requested(t, w, i) == [type |-> t, window |-> w, id |-> i] \in ToSet(wlRequests)

\* Does the window manager know the window, or will it?
Known(w) == windowsMap[w] # None \/ Announced(w, "Create")
Shown(w) == \E o \in DOMAIN shellSurfaces : shellSurfaces[o].window = w

Before(t, u) == \/ t = "Create" /\ u \in {"SurfaceId", "Destroy"}
                \/ t = "SurfaceId" /\ u = "Destroy"

\* The events of a window come in the order of its life, each once.
EventsInOrder ==
  \A i, j \in DOMAIN xEvents :
    i < j /\ xEvents[i].window = xEvents[j].window
      => Before(xEvents[i].type, xEvents[j].type)

\* A surface is destroyed when all that was sent before is handled, and no two
\* windows wait for a surface with one id.
RequestsInOrder ==
  /\ \A i \in DOMAIN wlRequests : wlRequests[i].type = "Destroy" => i = 1
  /\ \A i, j \in DOMAIN wlRequests :
       /\ wlRequests[i].type = "Create" /\ wlRequests[j].type = "Create"
       /\ wlRequests[i].id = wlRequests[j].id
       => i = j

QueuesOK ==
  /\ xEvents \in Seq(Events) /\ wlRequests \in Seq(Requests)
  /\ EventsInOrder /\ RequestsInOrder
  /\ \A e \in ToSet(xEvents) : e.type = "SurfaceId" => mapped[e.window] = e.id /\ e.id # 0
  /\ \A v, w \in XWindows : Announced(v, "Create") /\ Announced(w, "Create") => v = w

\* What is on its way for a window that exists, is mapped or was.
WindowState(w) ==
  /\ Announced(w, "SurfaceId") \/ Announced(w, "Destroy") => Known(w)
  /\ Announced(w, "Create") => ~Shown(w) /\ Len(shellSurfaces) < MaxObjects
  /\ Announced(w, "Create") /\ mapped[w] # 0 => Announced(w, "SurfaceId")
  /\ w \in created <=> Known(w) /\ ~Announced(w, "Destroy")
  /\ mapped[w] # 0 => w \in created /\ w \in seen
  /\ w \in seen => Announced(w, "Create") \/ Shown(w)
  /\ mapped[w] # 0 => surfaces[mapped[w]] = w \/ Requested("Create", w, mapped[w])

\* A surface that exists, or will, is that of the window mapped with its id.
SurfaceState(w, i) ==
  /\ Requested("Create", w, i) => mapped[w] = i /\ surfaces[i] = None
  /\ Requested("Destroy", w, i) => surfaces[i] = w /\ mapped[w] = 0 /\ w \in seen
  /\ surfaces[i] = w => mapped[w] = i \/ Requested("Destroy", w, i)

\* There is one shell surface of a window, in the map as long as it is live.
MapsToLive ==
  /\ Len(shellSurfaces) <= MaxObjects
  /\ \A o, p \in DOMAIN shellSurfaces :
       shellSurfaces[o].window = shellSurfaces[p].window => o = p
  /\ \A o \in DOMAIN shellSurfaces :
       shellSurfaces[o].state = "live" <=> windowsMap[shellSurfaces[o].window] = o
  /\ \A w \in XWindows : windowsMap[w] # None =>
       windowsMap[w] \in DOMAIN shellSurfaces /\ shellSurfaces[windowsMap[w]].window = w

ListedOnce ==
  /\ \A i, j \in DOMAIN unpaired : unpaired[i] = unpaired[j] => i = j
  /\ ToSet(unpaired) \subseteq DOMAIN shellSurfaces

\* A shell surface is listed from the event with its id on, until it has the
\* surface; it has no surface but its own.
PairingState(o) ==
  LET r == shellSurfaces[o]  w == shellSurfaces[o].window IN
  IF r.state = "live" /\ mapped[w] # 0
  THEN IF Announced(w, "SurfaceId")
       THEN r.surfaceId = 0 /\ r.surface = 0 /\ o \notin ToSet(unpaired)
       ELSE /\ r.surfaceId = mapped[w]
            /\ IF surfaces[mapped[w]] = w
               THEN r.surface = mapped[w] /\ o \notin ToSet(unpaired)
               ELSE r.surface = 0 /\ o \in ToSet(unpaired)
  ELSE /\ o \notin ToSet(unpaired)
       /\ r.state # "deleted" /\ r.surface # 0 => surfaces[r.surface] = w
       /\ w \notin seen => r.surfaceId = 0 /\ r.surface = 0

XInv == /\ XTypeOK /\ QueuesOK /\ MapsToLive /\ ListedOnce /\ ~misused
        /\ \A w \in XWindows : WindowState(w)
        /\ \A w \in XWindows, i \in Ids : SurfaceState(w, i)
        /\ \A o \in DOMAIN shellSurfaces : PairingState(o)

-----------------------------------------------------------------------------
\* Appending to a queue adds one element, at its end.
LEMMA Enqueued ==
  ASSUME NEW S, NEW q \in Seq(S), NEW e \in S
  PROVE  /\ Append(q, e) \in Seq(S) /\ Len(q) \in Nat
         /\ DOMAIN q = 1..Len(q) /\ DOMAIN Append(q, e) = 1..(Len(q) + 1)
         /\ \A i \in 1..Len(q) : Append(q, e)[i] = q[i]
         /\ Append(q, e)[Len(q) + 1] = e
         /\ ToSet(Append(q, e)) = ToSet(q) \cup {e}
<1> DEFINE t == Append(q, e)
<1>1. /\ t \in Seq(S) /\ Len(q) \in Nat
      /\ DOMAIN q = 1..Len(q) /\ DOMAIN t = 1..(Len(q) + 1)
      /\ \A i \in 1..Len(q) : t[i] = q[i]
      /\ t[Len(q) + 1] = e
  OBVIOUS
<1> HIDE DEF t
<1>2. /\ \A i \in DOMAIN t : i \in DOMAIN q \/ i = Len(q) + 1
      /\ \A i \in DOMAIN q : i \in DOMAIN t
      /\ Len(q) + 1 \in DOMAIN t
  BY <1>1
<1>3. ToSet(t) = ToSet(q) \cup {e}
  BY <1>1, <1>2 DEF ToSet
<1> QED  BY <1>1, <1>3 DEF t

\* Taking the head of a queue leaves the others, each one place further on.
LEMMA Dequeued ==
  ASSUME NEW S, NEW q \in Seq(S), q # <<>>
  PROVE  /\ Head(q) \in S /\ Head(q) = q[1] /\ Tail(q) \in Seq(S)
         /\ Len(q) \in Nat \ {0} /\ DOMAIN q = 1..Len(q)
         /\ DOMAIN Tail(q) = 1..(Len(q) - 1)
         /\ \A i \in 1..(Len(q) - 1) : Tail(q)[i] = q[i + 1]
         /\ ToSet(q) = {Head(q)} \cup ToSet(Tail(q))
<1> DEFINE t == Tail(q)
<1>1. /\ Head(q) \in S /\ t \in Seq(S) /\ Len(t) = Len(q) - 1
      /\ \A i \in 1..Len(t) : t[i] = q[i + 1]
  BY HeadTailProperties
<1>2. Len(q) \in Nat /\ DOMAIN q = 1..Len(q) /\ Head(q) = q[1] /\ Len(q) # 0
  BY EmptySeq
<1> HIDE DEF t
<1>3. DOMAIN t = 1..(Len(q) - 1)
  BY <1>1
<1>4. /\ 1 \in DOMAIN q /\ \A i \in DOMAIN t : i + 1 \in DOMAIN q
      /\ \A i \in DOMAIN q : i # 1 => i - 1 \in DOMAIN t /\ (i - 1) + 1 = i
  BY <1>2, <1>3
<1>5. ToSet(q) = {Head(q)} \cup ToSet(t)
  <2>1. ASSUME NEW e \in ToSet(q), e # q[1] PROVE e \in ToSet(t)
    <3>1. PICK i \in DOMAIN q : q[i] = e
      BY DEF ToSet
    <3>2. i - 1 \in DOMAIN t /\ t[i - 1] = e
      BY <1>1, <1>2, <1>3, <1>4, <2>1, <3>1
    <3> QED  BY <3>2 DEF ToSet
  <2>2. ASSUME NEW e \in ToSet(t) PROVE e \in ToSet(q)
    <3>1. PICK i \in DOMAIN t : t[i] = e
      BY DEF ToSet
    <3>2. i + 1 \in DOMAIN q /\ q[i + 1] = e
      BY <1>1, <1>3, <1>4, <3>1
    <3> QED  BY <3>2 DEF ToSet
  <2>3. q[1] \in ToSet(q)
    BY <1>4 DEF ToSet
  <2> QED  BY <1>2, <2>1, <2>2, <2>3
<1> QED  BY <1>1, <1>2, <1>3, <1>5 DEF t

\* An event that comes after all others of its window keeps the order.
LEMMA EventSent ==
  ASSUME xEvents \in Seq(Events), EventsInOrder, NEW e \in Events,
         xEvents' = Append(xEvents, e),
         \A d \in ToSet(xEvents) : d.window = e.window => Before(d.type, e.type)
  PROVE  /\ xEvents' \in Seq(Events) /\ EventsInOrder'
         /\ ToSet(xEvents') = ToSet(xEvents) \cup {e}
         /\ \A w, t : Announced(w, t)' <=> Announced(w, t) \/ (w = e.window /\ t = e.type)
<1>1. /\ xEvents' \in Seq(Events) /\ Len(xEvents) \in Nat
      /\ DOMAIN xEvents = 1..Len(xEvents) /\ DOMAIN xEvents' = 1..(Len(xEvents) + 1)
      /\ \A i \in 1..Len(xEvents) : xEvents'[i] = xEvents[i]
      /\ xEvents'[Len(xEvents) + 1] = e
      /\ ToSet(xEvents') = ToSet(xEvents) \cup {e}
  BY Enqueued
<1>2. \A w, t : Announced(w, t)' <=> Announced(w, t) \/ (w = e.window /\ t = e.type)
  BY <1>1 DEF Announced, ToSet
<1>3. ASSUME NEW i \in DOMAIN xEvents', NEW j \in DOMAIN xEvents',
             i < j, xEvents'[i].window = xEvents'[j].window
      PROVE  Before(xEvents'[i].type, xEvents'[j].type)
  <2>1. i \in DOMAIN xEvents /\ xEvents'[i] = xEvents[i]
    BY <1>1, <1>3
  <2>2. CASE j \in DOMAIN xEvents
    BY <1>1, <1>3, <2>1, <2>2 DEF EventsInOrder
  <2>3. CASE j = Len(xEvents) + 1
    BY <1>1, <1>3, <2>1, <2>3 DEF ToSet
  <2> QED  BY <1>1, <2>2, <2>3
<1> QED  BY <1>1, <1>2, <1>3 DEF EventsInOrder

\* The event that is handled is of a type that no event of its window has
\* after it; the others stay.
LEMMA EventHandled ==
  ASSUME xEvents \in Seq(Events), EventsInOrder, xEvents # <<>>,
         xEvents' = Tail(xEvents)
  PROVE  LET e == Head(xEvents) IN
         /\ e \in Events /\ xEvents' \in Seq(Events) /\ EventsInOrder'
         /\ ToSet(xEvents) = {e} \cup ToSet(xEvents')
         /\ \A d \in ToSet(xEvents') : d.window = e.window => Before(e.type, d.type)
         /\ \A w, t : Announced(w, t) <=> Announced(w, t)' \/ (w = e.window /\ t = e.type)
         /\ \A w, t : Announced(w, t)' /\ w = e.window => Before(e.type, t)
<1> DEFINE e == Head(xEvents)
<1>1. /\ e \in Events /\ e = xEvents[1] /\ xEvents' \in Seq(Events)
      /\ Len(xEvents) \in Nat \ {0} /\ DOMAIN xEvents = 1..Len(xEvents)
      /\ DOMAIN xEvents' = 1..(Len(xEvents) - 1)
      /\ \A i \in 1..(Len(xEvents) - 1) : xEvents'[i] = xEvents[i + 1]
      /\ ToSet(xEvents) = {e} \cup ToSet(xEvents')
  BY Dequeued
<1> HIDE DEF e
<1>2. ASSUME NEW i \in DOMAIN xEvents', NEW j \in DOMAIN xEvents',
             i < j, xEvents'[i].window = xEvents'[j].window
      PROVE  Before(xEvents'[i].type, xEvents'[j].type)
  <2>1. i + 1 \in DOMAIN xEvents /\ j + 1 \in DOMAIN xEvents /\ i + 1 < j + 1
    BY <1>1, <1>2
  <2> QED  BY <1>1, <1>2, <2>1 DEF EventsInOrder
<1>3. ASSUME NEW d \in ToSet(xEvents'), d.window = e.window PROVE Before(e.type, d.type)
  <2>1. PICK i \in DOMAIN xEvents' : xEvents'[i] = d
    BY DEF ToSet
  <2>2. i + 1 \in DOMAIN xEvents /\ 1 \in DOMAIN xEvents /\ 1 < i + 1 /\ xEvents[i + 1] = d
    BY <1>1, <2>1
  <2> QED  BY <1>1, <1>3, <2>2 DEF EventsInOrder
<1>4. \A w, t : Announced(w, t) <=> Announced(w, t)' \/ (w = e.window /\ t = e.type)
  BY <1>1 DEF Announced, ToSet
<1>5. ASSUME NEW w, NEW t, Announced(w, t)', w = e.window PROVE Before(e.type, t)
  <2>1. PICK d \in ToSet(xEvents') : d.window = e.window /\ d.type = t
    BY <1>5 DEF Announced, ToSet
  <2> QED  BY <1>3, <2>1
<1> QED  BY <1>1, <1>2, <1>3, <1>4, <1>5 DEF EventsInOrder, e

\* A request for a new surface comes last.
LEMMA RequestSent ==
  ASSUME wlRequests \in Seq(Requests), RequestsInOrder, NEW r \in Requests,
         wlRequests' = Append(wlRequests, r),
         \/ r.type = "Create" /\ \A d \in ToSet(wlRequests) : d.id # r.id
         \/ r.type = "Destroy" /\ wlRequests = <<>>
  PROVE  /\ wlRequests' \in Seq(Requests) /\ RequestsInOrder'
         /\ ToSet(wlRequests') = ToSet(wlRequests) \cup {r}
         /\ \A t, w, i : Requested(t, w, i)' <=>
              Requested(t, w, i) \/ r = [type |-> t, window |-> w, id |-> i]
<1>1. /\ wlRequests' \in Seq(Requests) /\ Len(wlRequests) \in Nat
      /\ DOMAIN wlRequests = 1..Len(wlRequests)
      /\ DOMAIN wlRequests' = 1..(Len(wlRequests) + 1)
      /\ \A i \in 1..Len(wlRequests) : wlRequests'[i] = wlRequests[i]
      /\ wlRequests'[Len(wlRequests) + 1] = r
      /\ ToSet(wlRequests') = ToSet(wlRequests) \cup {r}
  BY Enqueued
<1>2. \A t, w, i : Requested(t, w, i)' <=>
        Requested(t, w, i) \/ r = [type |-> t, window |-> w, id |-> i]
  BY <1>1 DEF Requested, ToSet
<1>3. CASE r.type = "Destroy" /\ wlRequests = <<>>
  <2>1. Len(wlRequests) = 0
    BY <1>3
  <2>2. \A i \in DOMAIN wlRequests' : i = 1
    BY <1>1, <2>1
  <2> QED  BY <1>1, <1>2, <2>2 DEF RequestsInOrder
<1>4. CASE r.type = "Create" /\ \A d \in ToSet(wlRequests) : d.id # r.id
  <2>1. \A i \in DOMAIN wlRequests' : \/ i \in DOMAIN wlRequests /\ wlRequests'[i] = wlRequests[i]
                                      \/ i = Len(wlRequests) + 1
    BY <1>1
  <2>2. \A i \in DOMAIN wlRequests : wlRequests[i].id # r.id
    BY <1>4 DEF ToSet
  <2>3. \A i \in DOMAIN wlRequests' : wlRequests'[i].type = "Destroy" => i = 1
    BY <1>1, <1>4, <2>1 DEF RequestsInOrder
  <2>4. ASSUME NEW i \in DOMAIN wlRequests', NEW j \in DOMAIN wlRequests',
               wlRequests'[i].type = "Create", wlRequests'[j].type = "Create",
               wlRequests'[i].id = wlRequests'[j].id
        PROVE  i = j
    BY <1>1, <2>1, <2>2, <2>4 DEF RequestsInOrder
  <2> QED  BY <1>1, <1>2, <2>3, <2>4 DEF RequestsInOrder
<1> QED  BY <1>3, <1>4

\* When a request is read, no request to destroy a surface is left, and no
\* other one for the surface that it creates.
LEMMA RequestRead ==
  ASSUME wlRequests \in Seq(Requests), RequestsInOrder, wlRequests # <<>>,
         wlRequests' = Tail(wlRequests)
  PROVE  LET r == Head(wlRequests) IN
         /\ r \in Requests /\ wlRequests' \in Seq(Requests) /\ RequestsInOrder'
         /\ r \in ToSet(wlRequests)
         /\ \A t, w, i : Requested(t, w, i) <=>
              Requested(t, w, i)' \/ r = [type |-> t, window |-> w, id |-> i]
         /\ \A w, i : ~Requested("Destroy", w, i)'
         /\ \A w, i : Requested("Create", w, i)' /\ r.type = "Create" => i # r.id
<1> DEFINE r == Head(wlRequests)
<1>1. /\ r \in Requests /\ r = wlRequests[1] /\ wlRequests' \in Seq(Requests)
      /\ Len(wlRequests) \in Nat \ {0} /\ DOMAIN wlRequests = 1..Len(wlRequests)
      /\ DOMAIN wlRequests' = 1..(Len(wlRequests) - 1)
      /\ \A i \in 1..(Len(wlRequests) - 1) : wlRequests'[i] = wlRequests[i + 1]
      /\ ToSet(wlRequests) = {r} \cup ToSet(wlRequests')
  BY Dequeued
<1> HIDE DEF r
<1>2. \A i \in DOMAIN wlRequests' :
        i + 1 \in DOMAIN wlRequests /\ i + 1 # 1 /\ wlRequests'[i] = wlRequests[i + 1]
  BY <1>1
<1>3. \A i \in DOMAIN wlRequests' : wlRequests'[i].type # "Destroy"
  BY <1>2 DEF RequestsInOrder
<1>4. ASSUME NEW i \in DOMAIN wlRequests', NEW j \in DOMAIN wlRequests',
             wlRequests'[i].type = "Create", wlRequests'[j].type = "Create",
             wlRequests'[i].id = wlRequests'[j].id
      PROVE  i = j
  <2>1. i + 1 = j + 1
    BY <1>2, <1>4 DEF RequestsInOrder
  <2> QED  BY <1>1, <2>1
<1>5. RequestsInOrder'
  BY <1>3, <1>4 DEF RequestsInOrder
<1>6. ASSUME NEW w, NEW i, Requested("Destroy", w, i)' PROVE FALSE
  <2>1. PICK j \in DOMAIN wlRequests' :
          wlRequests'[j] = [type |-> "Destroy", window |-> w, id |-> i]
    BY <1>6 DEF Requested, ToSet
  <2> QED  BY <1>3, <2>1
<1>7. ASSUME NEW w, NEW i, Requested("Create", w, i)', r.type = "Create", i = r.id
      PROVE  FALSE
  <2>1. PICK j \in DOMAIN wlRequests' :
          wlRequests'[j] = [type |-> "Create", window |-> w, id |-> i]
    BY <1>7 DEF Requested, ToSet
  <2>2. wlRequests[j + 1].type = "Create" /\ wlRequests[j + 1].id = wlRequests[1].id
    BY <1>1, <1>2, <1>7, <2>1
  <2>3. 1 \in DOMAIN wlRequests
    BY <1>1
  <2> QED  BY <1>1, <1>2, <1>7, <2>2, <2>3 DEF RequestsInOrder
<1>8. \A t, w, i : Requested(t, w, i) <=>
        Requested(t, w, i)' \/ r = [type |-> t, window |-> w, id |-> i]
  BY <1>1 DEF Requested, ToSet
<1> QED  BY <1>1, <1>5, <1>6, <1>7, <1>8 DEF r

-----------------------------------------------------------------------------
\* The types that the invariant gives, one by one.
LEMMA XTypes ==
  ASSUME XInv
  PROVE  /\ mapped \in [XWindows -> Ids \cup {0}] /\ created \subseteq XWindows
         /\ seen \subseteq XWindows /\ batch \in BOOLEAN /\ misused = FALSE
         /\ surfaces \in [Ids -> XWindows \cup {None}]
         /\ windowsMap \in [XWindows -> ShellSurfaces \cup {None}]
         /\ unpaired \in Seq(ShellSurfaces)
         /\ xEvents \in Seq(Events) /\ wlRequests \in Seq(Requests)
         /\ EventsInOrder /\ RequestsInOrder
         /\ 0 \notin Ids /\ None \notin XWindows
         /\ shellSurfaces \in Seq(ShellSurfaceRecords) /\ Len(shellSurfaces) \in Nat
         /\ DOMAIN shellSurfaces = 1..Len(shellSurfaces)
         /\ \A o \in DOMAIN shellSurfaces :
              /\ shellSurfaces[o] \in ShellSurfaceRecords
              /\ o \in ShellSurfaces /\ o # None
<1>1. /\ mapped \in [XWindows -> Ids \cup {0}] /\ created \subseteq XWindows
      /\ seen \subseteq XWindows /\ batch \in BOOLEAN /\ misused = FALSE
      /\ surfaces \in [Ids -> XWindows \cup {None}]
      /\ windowsMap \in [XWindows -> ShellSurfaces \cup {None}]
      /\ unpaired \in Seq(ShellSurfaces)
      /\ shellSurfaces \in Seq(ShellSurfaceRecords)
  BY DEF XInv, XTypeOK, ShellSurfaceRecords
<1>2. /\ xEvents \in Seq(Events) /\ wlRequests \in Seq(Requests)
      /\ EventsInOrder /\ RequestsInOrder
  BY DEF XInv, QueuesOK
<1>3. /\ Len(shellSurfaces) \in Nat /\ DOMAIN shellSurfaces = 1..Len(shellSurfaces)
      /\ \A o \in DOMAIN shellSurfaces : shellSurfaces[o] \in ShellSurfaceRecords
  BY <1>1
<1>4. Len(shellSurfaces) <= MaxObjects /\ MaxObjects \in Nat
  BY XAssumption DEF XInv, MapsToLive
<1>5. \A o \in DOMAIN shellSurfaces : o \in ShellSurfaces /\ o # None
  BY <1>3, <1>4, XAssumption DEF ShellSurfaces
<1> QED  BY <1>1, <1>2, <1>3, <1>5, XAssumption

\* What the window manager knows of a window, and what is on its way for it.
LEMMA KnownWindow ==
  ASSUME XInv, NEW w \in XWindows
  PROVE  /\ windowsMap[w] # None =>
              /\ Shown(w) /\ ~Announced(w, "Create")
              /\ windowsMap[w] \in DOMAIN shellSurfaces
              /\ shellSurfaces[windowsMap[w]].window = w
              /\ shellSurfaces[windowsMap[w]].state = "live"
         /\ \A o \in DOMAIN shellSurfaces : shellSurfaces[o].window = w =>
              shellSurfaces[o].state = "live" <=> windowsMap[w] # None
         /\ w \in created => Known(w) /\ ~Announced(w, "Destroy")
         /\ Announced(w, "SurfaceId") => mapped[w] # 0
         /\ mapped[w] # 0 => w \in created /\ w \in seen /\ ~Announced(w, "Destroy")
         /\ ~Known(w) => ~Announced(w, "Create") /\ ~Announced(w, "SurfaceId")
                          /\ ~Announced(w, "Destroy") /\ w \notin created /\ mapped[w] = 0
<1>1. MapsToLive /\ WindowState(w)
  BY DEF XInv
<1>2. Announced(w, "SurfaceId") => mapped[w] # 0
  BY DEF Announced, XInv, QueuesOK
<1>3. \A o \in DOMAIN shellSurfaces : o # None
  BY XTypes
<1>4. windowsMap[w] # None =>
        /\ windowsMap[w] \in DOMAIN shellSurfaces
        /\ shellSurfaces[windowsMap[w]].window = w
        /\ shellSurfaces[windowsMap[w]].state = "live"
  BY <1>1 DEF MapsToLive
<1>5. windowsMap[w] # None => Shown(w) /\ ~Announced(w, "Create")
  BY <1>1, <1>4 DEF Shown, WindowState
<1>6. ASSUME NEW o \in DOMAIN shellSurfaces, shellSurfaces[o].window = w
      PROVE  shellSurfaces[o].state = "live" <=> windowsMap[w] # None
  BY <1>1, <1>3, <1>4, <1>6 DEF MapsToLive
<1>7. w \in created => Known(w) /\ ~Announced(w, "Destroy")
  BY <1>1 DEF WindowState
<1>8. mapped[w] # 0 => w \in created /\ w \in seen /\ ~Announced(w, "Destroy")
  BY <1>1, <1>7 DEF WindowState
<1>9. ~Known(w) => ~Announced(w, "Create") /\ ~Announced(w, "SurfaceId")
                   /\ ~Announced(w, "Destroy") /\ w \notin created /\ mapped[w] = 0
  BY <1>1, <1>7, <1>8 DEF WindowState, Known
<1> QED  BY <1>2, <1>4, <1>5, <1>6, <1>7, <1>8, <1>9

\* No two windows are mapped with the same surface.
LEMMA OneWindowOfSurface ==
  ASSUME XInv, NEW v \in XWindows, NEW w \in XWindows,
         mapped[v] # 0, mapped[v] = mapped[w]
  PROVE  v = w
<1> DEFINE i == mapped[v]
<1>1. i \in Ids /\ None \notin XWindows
  BY XTypes, XAssumption
<1>2. surfaces[i] = v \/ Requested("Create", v, i)
  BY DEF XInv, WindowState
<1>3. surfaces[i] = w \/ Requested("Create", w, i)
  BY DEF XInv, WindowState
<1>4. /\ Requested("Create", v, i) => surfaces[i] = None
      /\ Requested("Create", w, i) => surfaces[i] = None
  BY <1>1 DEF XInv, SurfaceState
<1>5. CASE Requested("Create", v, i) /\ Requested("Create", w, i)
  <2>1. PICK k \in DOMAIN wlRequests :
          wlRequests[k] = [type |-> "Create", window |-> v, id |-> i]
    BY <1>5 DEF Requested, ToSet
  <2>2. PICK l \in DOMAIN wlRequests :
          wlRequests[l] = [type |-> "Create", window |-> w, id |-> i]
    BY <1>5 DEF Requested, ToSet
  <2>3. k = l
    <3>1. RequestsInOrder
      BY XTypes
    <3> QED  BY <2>1, <2>2, <3>1 DEF RequestsInOrder
  <2> QED  BY <2>1, <2>2, <2>3
<1> QED  BY <1>1, <1>2, <1>3, <1>4, <1>5

\* Who waits in the list is live, and waits for the surface it is mapped with.
LEMMA ListedWaits ==
  ASSUME XInv, NEW o \in ToSet(unpaired)
  PROVE  LET w == shellSurfaces[o].window IN
         /\ o \in DOMAIN shellSurfaces /\ w \in XWindows
         /\ shellSurfaces[o].state = "live" /\ mapped[w] # 0
         /\ ~Announced(w, "SurfaceId") /\ shellSurfaces[o].surfaceId = mapped[w]
         /\ surfaces[mapped[w]] # w /\ shellSurfaces[o].surface = 0
<1>1. o \in DOMAIN shellSurfaces /\ PairingState(o)
  BY DEF XInv, ListedOnce
<1>2. shellSurfaces[o] \in ShellSurfaceRecords
  BY <1>1, XTypes
<1>3. shellSurfaces[o].window \in XWindows
  BY <1>2 DEF ShellSurfaceRecords
<1> QED  BY <1>1, <1>3 DEF PairingState

-----------------------------------------------------------------------------
\* What Xwayland does leaves the compositor as it is.
LEMMA CompositorRests ==
  ASSUME XInv,
         UNCHANGED <<surfaces, batch, shellSurfaces, windowsMap, unpaired, misused>>,
         mapped' \in [XWindows -> Ids \cup {0}], created' \subseteq XWindows,
         seen' \subseteq XWindows
  PROVE  /\ XTypeOK' /\ MapsToLive' /\ ListedOnce' /\ ~misused'
         /\ \A w : Shown(w)' <=> Shown(w)
BY DEF XInv, XTypeOK, MapsToLive, ListedOnce, Shown, ToSet

\* Creating a window announces it, and nothing else is known of it.
LEMMA CreateKeeps ==
  ASSUME XInv, ~Reuses, NEW w \in XWindows, XCreateWindow(w)
  PROVE  XInv'
<1> DEFINE e == [type |-> "Create", window |-> w, id |-> 0]
<1>1. /\ w \notin created /\ Len(shellSurfaces) < MaxObjects
      /\ \A o \in DOMAIN shellSurfaces : shellSurfaces[o].window # w
      /\ \A i \in DOMAIN xEvents : xEvents[i].type # "Create"
      /\ created' = created \cup {w} /\ xEvents' = Append(xEvents, e)
      /\ UNCHANGED <<mapped, seen, wlRequests, surfaces, batch,
                     shellSurfaces, windowsMap, unpaired, misused>>
  BY DEF XCreateWindow, wmVars
<1>2. ~Shown(w) /\ \A v : ~Announced(v, "Create")
  BY <1>1 DEF Shown, Announced, ToSet
<1>3. ~Known(w)
  BY <1>2, KnownWindow DEF Known
<1>4. /\ windowsMap[w] = None /\ mapped[w] = 0 /\ w \notin seen
      /\ \A t \in EventTypes : ~Announced(w, t)
  BY <1>2, <1>3, KnownWindow DEF XInv, WindowState, Known, EventTypes
<1>5. xEvents \in Seq(Events) /\ EventsInOrder /\ e \in Events
  BY XTypes DEF Events, EventTypes
<1>6. \A d \in ToSet(xEvents) : d.window # w
  <2>1. \A d \in ToSet(xEvents) : d \in Events
    BY <1>5 DEF ToSet
  <2> QED  BY <1>4, <2>1 DEF Announced, Events
<1>7. /\ xEvents' \in Seq(Events) /\ EventsInOrder'
      /\ ToSet(xEvents') = ToSet(xEvents) \cup {e}
      /\ \A v, t : Announced(v, t)' <=> Announced(v, t) \/ (v = w /\ t = "Create")
  <2>1. /\ xEvents' \in Seq(Events) /\ EventsInOrder'
        /\ ToSet(xEvents') = ToSet(xEvents) \cup {e}
        /\ \A v, t : Announced(v, t)' <=> Announced(v, t) \/ (v = e.window /\ t = e.type)
    BY <1>1, <1>5, <1>6, EventSent
  <2> QED  BY <2>1
<1>8. /\ XTypeOK' /\ MapsToLive' /\ ListedOnce' /\ ~misused'
      /\ \A v : Shown(v)' <=> Shown(v)
  BY <1>1, XTypes, CompositorRests
<1>9. \A t, v, i : Requested(t, v, i)' <=> Requested(t, v, i)
  BY <1>1 DEF Requested, ToSet
<1>10. QueuesOK'
  <2>1. \A d \in ToSet(xEvents') : d.type = "SurfaceId" => d \in ToSet(xEvents)
    BY <1>7
  <2>2. \A d \in ToSet(xEvents') : d.type = "SurfaceId" => mapped'[d.window] = d.id /\ d.id # 0
    BY <1>1, <2>1 DEF XInv, QueuesOK
  <2>3. \A u, v \in XWindows : Announced(u, "Create")' /\ Announced(v, "Create")' => u = v
    BY <1>2, <1>7
  <2>4. wlRequests' \in Seq(Requests) /\ RequestsInOrder'
    BY <1>1, XTypes DEF RequestsInOrder
  <2>5. \A d \in ToSet(xEvents)' : d.type = "SurfaceId" => mapped'[d.window] = d.id /\ d.id # 0
    BY <2>2 DEF ToSet
  <2> QED  BY <1>7, <2>3, <2>4, <2>5 DEF QueuesOK
<1>11. ASSUME NEW v \in XWindows PROVE WindowState(v)'
  <2>1. WindowState(v)
    BY DEF XInv
  <2>2. CASE v = w
    BY <1>1, <1>2, <1>4, <1>7, <1>8, <2>2 DEF WindowState, Known, EventTypes
  <2>3. CASE v # w
    <3>1. \A t : Announced(v, t)' <=> Announced(v, t)
      BY <1>7, <2>3
    <3> QED  BY <1>1, <1>8, <1>9, <2>1, <2>3, <3>1 DEF WindowState, Known
  <2> QED  BY <2>2, <2>3
<1>12. ASSUME NEW v \in XWindows, NEW i \in Ids PROVE SurfaceState(v, i)'
  BY <1>1, <1>9 DEF XInv, SurfaceState
<1>13. ASSUME NEW o \in DOMAIN shellSurfaces' PROVE PairingState(o)'
  <2>1. PairingState(o) /\ o \in DOMAIN shellSurfaces
    BY <1>1 DEF XInv
  <2>2. \A v : Announced(v, "SurfaceId")' <=> Announced(v, "SurfaceId")
    BY <1>7
  <2> QED  BY <1>1, <2>1, <2>2 DEF PairingState, ToSet
<1> QED  BY <1>8, <1>10, <1>11, <1>12, <1>13 DEF XInv

\* Mapping a window sends the id on both connections.
LEMMA MapKeeps ==
  ASSUME XInv, ~Remaps, NEW w \in XWindows, NEW id \in Ids, XMapWindow(w, id)
  PROVE  XInv'
<1> DEFINE e == [type |-> "SurfaceId", window |-> w, id |-> id]
           r == [type |-> "Create", window |-> w, id |-> id]
<1>1. /\ w \in created /\ mapped[w] = 0 /\ w \notin seen
      /\ surfaces[id] = None /\ \A i \in DOMAIN wlRequests : wlRequests[i].id # id
      /\ mapped' = [mapped EXCEPT ![w] = id] /\ seen' = seen \cup {w}
      /\ wlRequests' = Append(wlRequests, r) /\ xEvents' = Append(xEvents, e)
      /\ UNCHANGED <<created, surfaces, batch, shellSurfaces, windowsMap, unpaired, misused>>
  BY DEF XMapWindow, wmVars, Busy
<1>2. /\ mapped \in [XWindows -> Ids \cup {0}] /\ id # 0 /\ None \notin XWindows
      /\ xEvents \in Seq(Events) /\ EventsInOrder /\ e \in Events
      /\ wlRequests \in Seq(Requests) /\ RequestsInOrder /\ r \in Requests
  BY XTypes DEF Events, EventTypes, Requests
<1>3. \A v \in XWindows : mapped'[v] = IF v = w THEN id ELSE mapped[v]
  BY <1>1, <1>2
<1>4. mapped' \in [XWindows -> Ids \cup {0}] /\ seen' \subseteq XWindows /\ created' \subseteq XWindows
  BY <1>1, <1>2, XTypes
<1>5. Known(w) /\ ~Announced(w, "Destroy") /\ ~Announced(w, "SurfaceId")
  BY <1>1, KnownWindow
<1>6. \A d \in ToSet(xEvents) : d.window = w => Before(d.type, "SurfaceId")
  <2>1. \A d \in ToSet(xEvents) : d \in Events
    BY <1>2 DEF ToSet
  <2> QED  BY <1>5, <2>1 DEF Announced, Events, EventTypes, Before
<1>7. /\ xEvents' \in Seq(Events) /\ EventsInOrder'
      /\ ToSet(xEvents') = ToSet(xEvents) \cup {e}
      /\ \A v, t : Announced(v, t)' <=> Announced(v, t) \/ (v = w /\ t = "SurfaceId")
  <2>1. /\ xEvents' \in Seq(Events) /\ EventsInOrder'
        /\ ToSet(xEvents') = ToSet(xEvents) \cup {e}
        /\ \A v, t : Announced(v, t)' <=> Announced(v, t) \/ (v = e.window /\ t = e.type)
    BY <1>1, <1>2, <1>6, EventSent
  <2> QED  BY <2>1
<1>8. /\ wlRequests' \in Seq(Requests) /\ RequestsInOrder'
      /\ \A t, v, i : Requested(t, v, i)' <=>
           Requested(t, v, i) \/ (t = "Create" /\ v = w /\ i = id)
  <2>1. r.type = "Create" /\ \A d \in ToSet(wlRequests) : d.id # r.id
    BY <1>1 DEF ToSet
  <2>2. /\ wlRequests' \in Seq(Requests) /\ RequestsInOrder'
        /\ \A t, v, i : Requested(t, v, i)' <=>
             Requested(t, v, i) \/ r = [type |-> t, window |-> v, id |-> i]
    BY <1>1, <1>2, <2>1, RequestSent
  <2> QED  BY <2>2
<1>9. /\ XTypeOK' /\ MapsToLive' /\ ListedOnce' /\ ~misused'
      /\ \A v : Shown(v)' <=> Shown(v)
  BY <1>1, <1>4, CompositorRests
<1>10. QueuesOK'
  <2>1. ASSUME NEW d \in ToSet(xEvents'), d.type = "SurfaceId"
        PROVE  mapped'[d.window] = d.id /\ d.id # 0
    <3>1. CASE d = e
      BY <1>2, <1>3, <3>1
    <3>2. CASE d # e
      <4>1. d \in ToSet(xEvents) /\ d \in Events
        <5>1. \A f \in ToSet(xEvents) : f \in Events
          BY <1>2 DEF ToSet
        <5> QED  BY <1>7, <2>1, <3>2, <5>1
      <4>2. d.window \in XWindows /\ d.window # w
        BY <1>5, <2>1, <4>1 DEF Announced, Events
      <4> QED  BY <1>3, <2>1, <4>1, <4>2 DEF XInv, QueuesOK
    <3> QED  BY <3>1, <3>2
  <2>2. \A u, v \in XWindows : Announced(u, "Create")' /\ Announced(v, "Create")' => u = v
    BY <1>7 DEF XInv, QueuesOK
  <2>3. \A d \in ToSet(xEvents)' : d.type = "SurfaceId" => mapped'[d.window] = d.id /\ d.id # 0
    BY <2>1 DEF ToSet
  <2> QED  BY <1>7, <1>8, <2>2, <2>3 DEF QueuesOK
<1>11. ASSUME NEW v \in XWindows PROVE WindowState(v)'
  <2>1. WindowState(v) /\ (Known(v)' <=> Known(v))
    BY <1>1, <1>7 DEF XInv, Known
  <2>2. CASE v = w
    <3>1. Announced(w, "Create") \/ Shown(w)
      BY <1>5, KnownWindow DEF Known
    <3> QED  BY <1>1, <1>3, <1>5, <1>7, <1>8, <1>9, <2>1, <2>2, <3>1 DEF WindowState
  <2>3. CASE v # w
    <3>1. /\ \A t : Announced(v, t)' <=> Announced(v, t)
          /\ \A t, i : Requested(t, v, i)' <=> Requested(t, v, i)
          /\ mapped'[v] = mapped[v] /\ (v \in seen' <=> v \in seen)
      BY <1>1, <1>3, <1>7, <1>8, <2>3
    <3> QED  BY <1>1, <1>9, <2>1, <3>1 DEF WindowState
  <2> QED  BY <2>2, <2>3
<1>12. ASSUME NEW v \in XWindows, NEW i \in Ids PROVE SurfaceState(v, i)'
  <2>1. SurfaceState(v, i) /\ i # 0
    BY XTypes DEF XInv
  <2>2. CASE v = w
    <3>1. ~Requested("Create", v, i) /\ ~Requested("Destroy", v, i) /\ surfaces[i] # v
      BY <1>1, <2>1, <2>2 DEF SurfaceState
    <3>2. /\ Requested("Create", v, i)' <=> i = id
          /\ ~Requested("Destroy", v, i)'
      BY <1>8, <2>2, <3>1
    <3> QED  BY <1>1, <1>3, <2>2, <3>1, <3>2 DEF SurfaceState
  <2>3. CASE v # w
    <3>1. /\ \A t : Requested(t, v, i)' <=> Requested(t, v, i)
          /\ mapped'[v] = mapped[v] /\ (v \in seen' <=> v \in seen)
      BY <1>1, <1>3, <1>8, <2>3
    <3> QED  BY <1>1, <2>1, <3>1 DEF SurfaceState
  <2> QED  BY <2>2, <2>3
<1>13. ASSUME NEW o \in DOMAIN shellSurfaces' PROVE PairingState(o)'
  <2> DEFINE v == shellSurfaces[o].window
  <2>1. PairingState(o) /\ o \in DOMAIN shellSurfaces
    BY <1>1 DEF XInv
  <2>2. v \in XWindows
    BY <2>1, XTypes DEF ShellSurfaceRecords
  <2>3. CASE v = w
    <3>1. shellSurfaces[o].state = "live"
      <4>1. Shown(w)
        BY <2>1, <2>3 DEF Shown
      <4>2. ~Announced(w, "Create")
        BY <4>1 DEF XInv, WindowState
      <4>3. windowsMap[w] # None
        BY <1>5, <4>2 DEF Known
      <4> QED  BY <2>1, <2>3, <4>3, KnownWindow
    <3>2. /\ shellSurfaces[o].surfaceId = 0 /\ shellSurfaces[o].surface = 0
          /\ o \notin ToSet(unpaired)
      BY <1>1, <2>1, <2>3 DEF PairingState
    <3>3. Announced(w, "SurfaceId")' /\ mapped'[w] # 0
      BY <1>2, <1>3, <1>7
    <3> QED  BY <1>1, <2>3, <3>1, <3>2, <3>3 DEF PairingState, ToSet
  <2>4. CASE v # w
    <3>1. /\ Announced(v, "SurfaceId")' <=> Announced(v, "SurfaceId")
          /\ mapped'[v] = mapped[v] /\ (v \in seen' <=> v \in seen)
      BY <1>1, <1>3, <1>7, <2>2, <2>4
    <3> QED  BY <1>1, <2>1, <3>1 DEF PairingState, ToSet
  <2> QED  BY <2>3, <2>4
<1> QED  BY <1>9, <1>10, <1>11, <1>12, <1>13 DEF XInv

\* A window that is unmapped when all is handled has its surface, and nothing
\* else is on its way.
LEMMA UnmapKeeps ==
  ASSUME XInv, Patient, NEW w \in XWindows, XUnmapWindow(w)
  PROVE  XInv'
<1> DEFINE id == mapped[w]
           r  == [type |-> "Destroy", window |-> w, id |-> id]
<1>1. /\ id # 0 /\ xEvents = <<>> /\ wlRequests = <<>>
      /\ mapped' = [mapped EXCEPT ![w] = 0]
      /\ wlRequests' = Append(wlRequests, r)
      /\ UNCHANGED <<created, seen, xEvents, surfaces, batch, shellSurfaces,
                     windowsMap, unpaired, misused>>
  BY DEF XUnmapWindow, wmVars, Handled
<1>2. /\ mapped \in [XWindows -> Ids \cup {0}] /\ id \in Ids /\ 0 \notin Ids
      /\ None \notin XWindows
      /\ wlRequests \in Seq(Requests) /\ RequestsInOrder /\ r \in Requests
  BY <1>1, XTypes DEF Requests
<1>3. \A v \in XWindows : mapped'[v] = IF v = w THEN 0 ELSE mapped[v]
  BY <1>1, <1>2
<1>4. mapped' \in [XWindows -> Ids \cup {0}] /\ seen' \subseteq XWindows /\ created' \subseteq XWindows
  BY <1>1, <1>2, XTypes
<1>5. /\ \A v, t : ~Announced(v, t) /\ (Announced(v, t)' <=> Announced(v, t))
      /\ \A t, v, i : ~Requested(t, v, i)
  BY <1>1 DEF Announced, Requested, ToSet
<1>6. w \in created /\ w \in seen /\ surfaces[id] = w
  BY <1>1, <1>5 DEF XInv, WindowState
<1>7. /\ wlRequests' \in Seq(Requests) /\ RequestsInOrder'
      /\ \A t, v, i : Requested(t, v, i)' <=> t = "Destroy" /\ v = w /\ i = id
  <2>1. /\ wlRequests' \in Seq(Requests) /\ RequestsInOrder'
        /\ \A t, v, i : Requested(t, v, i)' <=>
             Requested(t, v, i) \/ r = [type |-> t, window |-> v, id |-> i]
    BY <1>1, <1>2, RequestSent
  <2> HIDE DEF id
  <2> QED  BY <1>5, <2>1
<1>8. /\ XTypeOK' /\ MapsToLive' /\ ListedOnce' /\ ~misused'
      /\ \A v : Shown(v)' <=> Shown(v)
  BY <1>1, <1>4, CompositorRests
<1>9. QueuesOK'
  <2>1. xEvents' \in Seq(Events) /\ EventsInOrder' /\ ToSet(xEvents)' = {}
    BY <1>1, XTypes DEF EventsInOrder, ToSet
  <2> QED  BY <1>5, <1>7, <2>1 DEF QueuesOK
<1>10. ASSUME NEW v \in XWindows PROVE WindowState(v)'
  <2>1. WindowState(v) /\ (Known(v)' <=> Known(v))
    BY <1>1, <1>5 DEF XInv, Known
  <2>2. mapped'[v] # 0 => surfaces'[mapped'[v]] = v
    BY <1>1, <1>3, <1>5, <2>1 DEF WindowState
  <2> QED  BY <1>1, <1>3, <1>5, <1>8, <2>1, <2>2 DEF WindowState
<1>11. ASSUME NEW v \in XWindows, NEW i \in Ids PROVE SurfaceState(v, i)'
  <2>1. SurfaceState(v, i)
    BY DEF XInv
  <2>2. surfaces[i] = v => mapped[v] = i
    BY <1>5, <2>1 DEF SurfaceState
  <2>3. ~Requested("Create", v, i)' /\ (Requested("Destroy", v, i)' <=> v = w /\ i = mapped[w])
    BY <1>7
  <2>4. mapped[w] \in Ids /\ surfaces[mapped[w]] = w
    BY <1>2, <1>6
  <2> QED  BY <1>1, <1>3, <1>6, <2>2, <2>3, <2>4 DEF SurfaceState
<1>12. ASSUME NEW o \in DOMAIN shellSurfaces' PROVE PairingState(o)'
  <2> DEFINE v == shellSurfaces[o].window
  <2>1. PairingState(o) /\ o \in DOMAIN shellSurfaces
    BY <1>1 DEF XInv
  <2>2. v \in XWindows
    BY <2>1, XTypes DEF ShellSurfaceRecords
  <2>3. CASE v = w /\ shellSurfaces[o].state = "live"
    <3>1. shellSurfaces[o].surface = mapped[w] /\ o \notin ToSet(unpaired)
      BY <1>1, <1>5, <1>6, <2>1, <2>3 DEF PairingState
    <3> QED  BY <1>1, <1>3, <1>6, <2>3, <3>1 DEF PairingState, ToSet
  <2>4. CASE v # w \/ shellSurfaces[o].state # "live"
    <3>1. /\ Announced(v, "SurfaceId")' <=> Announced(v, "SurfaceId")
          /\ shellSurfaces[o].state = "live" => mapped'[v] = mapped[v]
      BY <1>3, <1>5, <2>2, <2>4
    <3> QED  BY <1>1, <2>1, <3>1 DEF PairingState, ToSet
  <2> QED  BY <2>3, <2>4
<1> QED  BY <1>8, <1>9, <1>10, <1>11, <1>12 DEF XInv

\* A window is destroyed when it has no surface and nothing else of it is sent.
LEMMA DestroyKeeps ==
  ASSUME XInv, NEW w \in XWindows, XDestroyWindow(w)
  PROVE  XInv'
<1> DEFINE e == [type |-> "Destroy", window |-> w, id |-> 0]
<1>1. /\ w \in created /\ mapped[w] = 0
      /\ created' = created \ {w} /\ xEvents' = Append(xEvents, e)
      /\ UNCHANGED <<mapped, seen, wlRequests, surfaces, batch,
                     shellSurfaces, windowsMap, unpaired, misused>>
  BY DEF XDestroyWindow, wmVars
<1>2. /\ mapped' \in [XWindows -> Ids \cup {0}] /\ seen' \subseteq XWindows
      /\ created' \subseteq XWindows
      /\ xEvents \in Seq(Events) /\ EventsInOrder /\ e \in Events
  BY <1>1, XTypes DEF Events, EventTypes
<1>3. Known(w) /\ ~Announced(w, "Destroy") /\ ~Announced(w, "SurfaceId")
  BY <1>1, KnownWindow
<1>4. \A d \in ToSet(xEvents) : d.window = w => Before(d.type, "Destroy")
  <2>1. \A d \in ToSet(xEvents) : d \in Events
    BY <1>2 DEF ToSet
  <2> QED  BY <1>3, <2>1 DEF Announced, Events, EventTypes, Before
<1>5. /\ xEvents' \in Seq(Events) /\ EventsInOrder'
      /\ ToSet(xEvents') = ToSet(xEvents) \cup {e}
      /\ \A v, t : Announced(v, t)' <=> Announced(v, t) \/ (v = w /\ t = "Destroy")
  <2>1. /\ xEvents' \in Seq(Events) /\ EventsInOrder'
        /\ ToSet(xEvents') = ToSet(xEvents) \cup {e}
        /\ \A v, t : Announced(v, t)' <=> Announced(v, t) \/ (v = e.window /\ t = e.type)
    BY <1>1, <1>2, <1>4, EventSent
  <2> QED  BY <2>1
<1>6. /\ XTypeOK' /\ MapsToLive' /\ ListedOnce' /\ ~misused'
      /\ \A v : Shown(v)' <=> Shown(v)
  BY <1>1, <1>2, CompositorRests
<1>7. \A t, v, i : Requested(t, v, i)' <=> Requested(t, v, i)
  BY <1>1 DEF Requested, ToSet
<1>8. QueuesOK'
  <2>1. \A d \in ToSet(xEvents') : d.type = "SurfaceId" => d \in ToSet(xEvents)
    BY <1>5
  <2>2. \A d \in ToSet(xEvents') : d.type = "SurfaceId" => mapped'[d.window] = d.id /\ d.id # 0
    BY <1>1, <2>1 DEF XInv, QueuesOK
  <2>3. \A u, v \in XWindows : Announced(u, "Create")' /\ Announced(v, "Create")' => u = v
    BY <1>5 DEF XInv, QueuesOK
  <2>4. wlRequests' \in Seq(Requests) /\ RequestsInOrder'
    BY <1>1, XTypes DEF RequestsInOrder
  <2>5. \A d \in ToSet(xEvents)' : d.type = "SurfaceId" => mapped'[d.window] = d.id /\ d.id # 0
    BY <2>2 DEF ToSet
  <2> QED  BY <1>5, <2>3, <2>4, <2>5 DEF QueuesOK
<1>9. ASSUME NEW v \in XWindows PROVE WindowState(v)'
  <2>1. WindowState(v) /\ (Known(v)' <=> Known(v))
    BY <1>1, <1>5 DEF XInv, Known
  <2>2. CASE v = w
    BY <1>1, <1>3, <1>5, <1>6, <2>1, <2>2 DEF WindowState
  <2>3. CASE v # w
    <3>1. \A t : Announced(v, t)' <=> Announced(v, t)
      BY <1>5, <2>3
    <3> QED  BY <1>1, <1>6, <1>7, <2>1, <2>3, <3>1 DEF WindowState
  <2> QED  BY <2>2, <2>3
<1>10. ASSUME NEW v \in XWindows, NEW i \in Ids PROVE SurfaceState(v, i)'
  BY <1>1, <1>7 DEF XInv, SurfaceState
<1>11. ASSUME NEW o \in DOMAIN shellSurfaces' PROVE PairingState(o)'
  <2>1. PairingState(o) /\ o \in DOMAIN shellSurfaces
    BY <1>1 DEF XInv
  <2>2. \A v : Announced(v, "SurfaceId")' <=> Announced(v, "SurfaceId")
    BY <1>5
  <2> QED  BY <1>1, <2>1, <2>2 DEF PairingState, ToSet
<1> QED  BY <1>6, <1>8, <1>9, <1>10, <1>11 DEF XInv

-----------------------------------------------------------------------------
\* The only one who can wait for a surface is the shell surface of the window
\* that is mapped with it, and it gets it.
LEMMA SurfacePaired ==
  ASSUME XInv, NEW w \in XWindows, NEW id \in Ids, mapped[w] = id, surfaces[id] = None,
         Pair(id)
  PROVE  /\ misused' = FALSE /\ unpaired' \in Seq(ShellSurfaces)
         /\ \A i, j \in DOMAIN unpaired' : unpaired'[i] = unpaired'[j] => i = j
         /\ \A o : o \in ToSet(unpaired') <=>
              o \in ToSet(unpaired) /\ shellSurfaces[o].window # w
         /\ shellSurfaces' \in Seq(ShellSurfaceRecords)
         /\ Len(shellSurfaces') = Len(shellSurfaces)
         /\ DOMAIN shellSurfaces' = DOMAIN shellSurfaces
         /\ \A o \in DOMAIN shellSurfaces : shellSurfaces'[o] =
              IF o \in ToSet(unpaired) /\ shellSurfaces[o].window = w
              THEN [shellSurfaces[o] EXCEPT !.surface = id] ELSE shellSurfaces[o]
<1>1. /\ id # 0 /\ unpaired \in Seq(ShellSurfaces) /\ DOMAIN unpaired = 1..Len(unpaired)
      /\ Len(unpaired) \in Nat
      /\ shellSurfaces \in Seq(ShellSurfaceRecords)
      /\ \A i, j \in DOMAIN unpaired : unpaired[i] = unpaired[j] => i = j
      /\ \A o, p \in DOMAIN shellSurfaces :
           shellSurfaces[o].window = shellSurfaces[p].window => o = p
  <2>1. unpaired \in Seq(ShellSurfaces) /\ shellSurfaces \in Seq(ShellSurfaceRecords) /\ id # 0
    BY XTypes
  <2>2. /\ \A i, j \in DOMAIN unpaired : unpaired[i] = unpaired[j] => i = j
        /\ \A o, p \in DOMAIN shellSurfaces :
             shellSurfaces[o].window = shellSurfaces[p].window => o = p
    BY DEF XInv, ListedOnce, MapsToLive
  <2>3. DOMAIN unpaired = 1..Len(unpaired) /\ Len(unpaired) \in Nat
    BY <2>1
  <2> QED  BY <2>1, <2>2, <2>3
<1>2. ASSUME NEW i \in DOMAIN unpaired
      PROVE  /\ unpaired[i] \in ToSet(unpaired) /\ unpaired[i] \in DOMAIN shellSurfaces
             /\ Live(unpaired[i]) /\ shellSurfaces[unpaired[i]].surface = 0
             /\ shellSurfaces[unpaired[i]].surfaceId = id
                  <=> shellSurfaces[unpaired[i]].window = w
  <2>1. unpaired[i] \in ToSet(unpaired)
    BY DEF ToSet
  <2> DEFINE o == unpaired[i]
             v == shellSurfaces[o].window
  <2>2. /\ o \in DOMAIN shellSurfaces /\ v \in XWindows
        /\ shellSurfaces[o].state = "live" /\ mapped[v] # 0
        /\ shellSurfaces[o].surfaceId = mapped[v] /\ shellSurfaces[o].surface = 0
    BY <2>1, ListedWaits
  <2>3. o # None
    BY <2>2, XTypes
  <2>4. mapped[v] = mapped[w] => v = w
    BY <2>2, OneWindowOfSurface
  <2> QED  BY <2>1, <2>2, <2>3, <2>4 DEF Live
<1>3. misused' = FALSE
  BY <1>2 DEF Pair
<1>4. Waiting(id) = {i \in DOMAIN unpaired : shellSurfaces[unpaired[i]].window = w}
  BY <1>2 DEF Waiting
<1>5. CASE Waiting(id) = {}
  <2>1. shellSurfaces' = shellSurfaces /\ unpaired' = unpaired
    BY <1>5 DEF Pair
  <2>2. \A o \in ToSet(unpaired) : shellSurfaces[o].window # w
    BY <1>4, <1>5 DEF ToSet
  <2> QED  BY <1>1, <1>3, <2>1, <2>2
<1>6. CASE Waiting(id) # {}
  <2>1. PICK n \in DOMAIN unpaired : n \in Waiting(id) /\ shellSurfaces[unpaired[n]].window = w
    BY <1>4, <1>6
  <2>2. ASSUME NEW i \in DOMAIN unpaired, shellSurfaces[unpaired[i]].window = w
        PROVE  i = n
    BY <1>1, <1>2, <2>1, <2>2
  <2>3. Waiting(id) = {n} /\ n \in Nat
    BY <1>1, <1>4, <2>1, <2>2
  <2>4. Min(Waiting(id)) = n
    BY <2>3 DEF Min
  <2>5. /\ shellSurfaces' = [shellSurfaces EXCEPT ![unpaired[n]].surface =
                               IF @ = 0 THEN id ELSE @]
        /\ unpaired' = RemoveAt(unpaired, n)
    BY <1>6, <2>4 DEF Pair
  <2>6. /\ unpaired' \in Seq(ShellSurfaces)
        /\ DOMAIN unpaired' = 1..(Len(unpaired) - 1)
        /\ \A i \in 1..(Len(unpaired) - 1) :
             unpaired'[i] = IF i < n THEN unpaired[i] ELSE unpaired[i + 1]
    BY <1>1, <2>5, TakenAt
  <2>7. /\ \A i \in DOMAIN unpaired' :
             \/ i < n /\ i \in DOMAIN unpaired /\ unpaired'[i] = unpaired[i]
             \/ i >= n /\ i + 1 \in DOMAIN unpaired /\ unpaired'[i] = unpaired[i + 1]
        /\ \A i \in DOMAIN unpaired : i # n =>
             \/ i < n /\ i \in DOMAIN unpaired' /\ unpaired'[i] = unpaired[i]
             \/ i > n /\ i - 1 \in DOMAIN unpaired' /\ unpaired'[i - 1] = unpaired[i]
    <3>1. ASSUME NEW i \in DOMAIN unpaired, i > n
          PROVE  i - 1 \in DOMAIN unpaired' /\ unpaired'[i - 1] = unpaired[i]
      <4>1. i - 1 \in 1..(Len(unpaired) - 1) /\ ~(i - 1 < n) /\ (i - 1) + 1 = i
        BY <1>1, <2>1, <3>1
      <4>2. unpaired'[i - 1] = unpaired[(i - 1) + 1]
        BY <2>6, <4>1
      <4> QED  BY <2>6, <4>1, <4>2
    <3>2. \A i \in DOMAIN unpaired : i < n =>
            i \in DOMAIN unpaired' /\ unpaired'[i] = unpaired[i]
      BY <1>1, <2>1, <2>6
    <3>3. \A i \in DOMAIN unpaired' :
            \/ i < n /\ i \in DOMAIN unpaired /\ unpaired'[i] = unpaired[i]
            \/ i >= n /\ i + 1 \in DOMAIN unpaired /\ unpaired'[i] = unpaired[i + 1]
      BY <1>1, <2>1, <2>6
    <3> QED  BY <1>1, <2>1, <3>1, <3>2, <3>3
  <2>8. \A i, j \in DOMAIN unpaired' : unpaired'[i] = unpaired'[j] => i = j
    <3> SUFFICES ASSUME NEW i \in DOMAIN unpaired', NEW j \in DOMAIN unpaired',
                        unpaired'[i] = unpaired'[j]
                 PROVE  i = j
      OBVIOUS
    <3>1. i \in Nat /\ j \in Nat
      BY <1>1, <2>6
    <3> QED  BY <1>1, <2>1, <2>7, <3>1
  <2>9. ASSUME NEW o PROVE o \in ToSet(unpaired') <=>
          o \in ToSet(unpaired) /\ shellSurfaces[o].window # w
    <3>1. ASSUME o \in ToSet(unpaired') PROVE o \in ToSet(unpaired) /\ shellSurfaces[o].window # w
      <4>1. PICK i \in DOMAIN unpaired' : unpaired'[i] = o
        BY <3>1 DEF ToSet
      <4>2. PICK j \in DOMAIN unpaired : j # n /\ unpaired[j] = o
        BY <1>1, <2>1, <2>6, <2>7, <4>1
      <4> QED  BY <2>2, <4>2 DEF ToSet
    <3>2. ASSUME o \in ToSet(unpaired), shellSurfaces[o].window # w PROVE o \in ToSet(unpaired')
      <4>1. PICK i \in DOMAIN unpaired : unpaired[i] = o
        BY <3>2 DEF ToSet
      <4>2. i # n
        BY <2>1, <3>2, <4>1
      <4> QED  BY <2>7, <4>1, <4>2 DEF ToSet
    <3> QED  BY <3>1, <3>2
  <2>10. ASSUME NEW o \in DOMAIN shellSurfaces
         PROVE  /\ o \in ToSet(unpaired) /\ shellSurfaces[o].window = w <=> o = unpaired[n]
                /\ shellSurfaces'[o] = IF o = unpaired[n]
                     THEN [shellSurfaces[o] EXCEPT !.surface = id] ELSE shellSurfaces[o]
    <3>1. o \in ToSet(unpaired) /\ shellSurfaces[o].window = w <=> o = unpaired[n]
      BY <1>1, <1>2, <2>1
    <3>2. o = unpaired[n] => shellSurfaces[o].surface = 0
      BY <1>2, <2>1
    <3> QED  BY <1>1, <2>5, <3>1, <3>2
  <2>11. /\ shellSurfaces' \in Seq(ShellSurfaceRecords)
         /\ Len(shellSurfaces') = Len(shellSurfaces)
         /\ DOMAIN shellSurfaces' = DOMAIN shellSurfaces
    <3>1. DOMAIN shellSurfaces' = DOMAIN shellSurfaces
      BY <2>5
    <3>2. ASSUME NEW o \in DOMAIN shellSurfaces
          PROVE  shellSurfaces'[o] \in ShellSurfaceRecords
      <4>1. shellSurfaces[o] \in ShellSurfaceRecords
        BY XTypes
      <4>2. CASE o = unpaired[n]
        <5>1. shellSurfaces'[o] = [shellSurfaces[o] EXCEPT !.surface = id]
          BY <2>10, <4>2
        <5> QED  BY <4>1, <5>1 DEF ShellSurfaceRecords
      <4>3. CASE o # unpaired[n]
        <5>1. shellSurfaces'[o] = shellSurfaces[o]
          BY <2>10, <4>3
        <5> QED  BY <4>1, <5>1
      <4> QED  BY <4>2, <4>3
    <3>3. Len(shellSurfaces) \in Nat /\ DOMAIN shellSurfaces = 1..Len(shellSurfaces)
      BY <1>1
    <3>4. shellSurfaces' \in [1..Len(shellSurfaces) -> ShellSurfaceRecords]
      BY <2>5, <3>1, <3>2, <3>3
    <3> HIDE DEF ShellSurfaceRecords
    <3>5. shellSurfaces' \in Seq(ShellSurfaceRecords) /\ Len(shellSurfaces') = Len(shellSurfaces)
      BY <3>3, <3>4
    <3> QED  BY <3>1, <3>5
  <2> QED  BY <1>3, <2>6, <2>8, <2>9, <2>10, <2>11
<1> QED  BY <1>5, <1>6

\* A new surface is that of the window that is mapped with its id.
LEMMA SurfaceCreatedKeeps ==
  ASSUME XInv, SurfaceCreated
  PROVE  XInv'
<1> DEFINE r  == Head(wlRequests)
           w  == r.window
           id == r.id
<1>1. /\ wlRequests # <<>> /\ r.type = "Create" /\ wlRequests' = Tail(wlRequests)
      /\ surfaces' = [surfaces EXCEPT ![id] = w] /\ Pair(id)
      /\ UNCHANGED <<mapped, created, seen, xEvents, batch, windowsMap>>
  BY DEF SurfaceCreated, xVars
<1>2. /\ r \in Requests /\ wlRequests' \in Seq(Requests) /\ RequestsInOrder'
      /\ r \in ToSet(wlRequests)
      /\ \A t, v, i : Requested(t, v, i) <=>
           Requested(t, v, i)' \/ r = [type |-> t, window |-> v, id |-> i]
      /\ \A v, i : ~Requested("Destroy", v, i)'
      /\ \A v, i : Requested("Create", v, i)' => i # id
  BY <1>1, XTypes, RequestRead
<1>3. w \in XWindows /\ id \in Ids /\ r = [type |-> "Create", window |-> w, id |-> id]
  BY <1>1, <1>2 DEF Requests
<1> HIDE DEF r, w, id
<1>4. mapped[w] = id /\ surfaces[id] = None /\ id # 0 /\ None \notin XWindows
  BY <1>2, <1>3, XTypes DEF XInv, SurfaceState
<1>5. /\ misused' = FALSE /\ unpaired' \in Seq(ShellSurfaces)
      /\ \A i, j \in DOMAIN unpaired' : unpaired'[i] = unpaired'[j] => i = j
      /\ \A o : o \in ToSet(unpaired') <=>
           o \in ToSet(unpaired) /\ shellSurfaces[o].window # w
      /\ shellSurfaces' \in Seq(ShellSurfaceRecords)
      /\ Len(shellSurfaces') = Len(shellSurfaces)
      /\ DOMAIN shellSurfaces' = DOMAIN shellSurfaces
      /\ \A o \in DOMAIN shellSurfaces : shellSurfaces'[o] =
           IF o \in ToSet(unpaired) /\ shellSurfaces[o].window = w
           THEN [shellSurfaces[o] EXCEPT !.surface = id] ELSE shellSurfaces[o]
  <2>1. w \in XWindows /\ id \in Ids
    BY <1>3
  <2>2. mapped[w] = id /\ surfaces[id] = None
    BY <1>4
  <2>3. Pair(id)
    BY <1>1
  <2> QED  BY <2>1, <2>2, <2>3, SurfacePaired
<1>6. ASSUME NEW o \in DOMAIN shellSurfaces
      PROVE  /\ shellSurfaces[o] \in ShellSurfaceRecords
             /\ shellSurfaces'[o].window = shellSurfaces[o].window
             /\ shellSurfaces'[o].state = shellSurfaces[o].state
             /\ shellSurfaces'[o].surfaceId = shellSurfaces[o].surfaceId
             /\ shellSurfaces'[o].surface =
                  IF o \in ToSet(unpaired) /\ shellSurfaces[o].window = w
                  THEN id ELSE shellSurfaces[o].surface
  <2>1. shellSurfaces[o] \in ShellSurfaceRecords
    BY XTypes
  <2>2. CASE o \in ToSet(unpaired) /\ shellSurfaces[o].window = w
    <3>1. shellSurfaces'[o] = [shellSurfaces[o] EXCEPT !.surface = id]
      BY <1>5, <2>2
    <3> QED  BY <2>1, <2>2, <3>1 DEF ShellSurfaceRecords
  <2>3. CASE ~(o \in ToSet(unpaired) /\ shellSurfaces[o].window = w)
    BY <1>5, <2>1, <2>3
  <2> QED  BY <2>2, <2>3
<1>7. \A i \in Ids : surfaces'[i] = IF i = id THEN w ELSE surfaces[i]
  BY <1>1, XTypes
<1>8. /\ \A v, t : Announced(v, t)' <=> Announced(v, t)
      /\ \A v : (Known(v)' <=> Known(v)) /\ (Shown(v)' <=> Shown(v))
      /\ ToSet(xEvents)' = ToSet(xEvents)
  <2>1. \A v, t : Announced(v, t)' <=> Announced(v, t)
    BY <1>1 DEF Announced, ToSet
  <2>2. \A v : Shown(v)' <=> Shown(v)
    BY <1>5, <1>6 DEF Shown
  <2> QED  BY <1>1, <2>1, <2>2 DEF Known, ToSet
<1>9. XTypeOK' /\ QueuesOK'
  <2>1. surfaces' \in [Ids -> XWindows \cup {None}]
    BY <1>1, <1>3, XTypes
  <2>2. XTypeOK'
    BY <1>1, <1>5, <2>1, XTypes DEF XTypeOK, ShellSurfaceRecords
  <2>3. xEvents' \in Seq(Events) /\ EventsInOrder'
    BY <1>1, XTypes DEF EventsInOrder
  <2> QED  BY <1>1, <1>2, <1>8, <2>2, <2>3 DEF XInv, QueuesOK
<1>10. MapsToLive' /\ ListedOnce'
  <2>1. MapsToLive'
    <3>1. MapsToLive
      BY DEF XInv
    <3>2. \A o, p \in DOMAIN shellSurfaces' :
            shellSurfaces'[o].window = shellSurfaces'[p].window => o = p
      BY <1>5, <1>6, <3>1 DEF MapsToLive
    <3>3. \A o \in DOMAIN shellSurfaces' :
            shellSurfaces'[o].state = "live" <=> windowsMap'[shellSurfaces'[o].window] = o
      BY <1>1, <1>5, <1>6, <3>1 DEF MapsToLive
    <3>4. \A u \in XWindows : windowsMap'[u] # None =>
            windowsMap'[u] \in DOMAIN shellSurfaces' /\ shellSurfaces'[windowsMap'[u]].window = u
      BY <1>1, <1>5, <1>6, <3>1 DEF MapsToLive
    <3> QED  BY <1>5, <3>1, <3>2, <3>3, <3>4 DEF MapsToLive
  <2>2. \A o \in ToSet(unpaired') : o \in DOMAIN shellSurfaces'
    BY <1>5 DEF XInv, ListedOnce
  <2>3. ToSet(unpaired)' = ToSet(unpaired')
    BY DEF ToSet
  <2> QED  BY <1>5, <2>1, <2>2, <2>3 DEF ListedOnce
<1>11. ASSUME NEW v \in XWindows PROVE WindowState(v)'
  <2>1. WindowState(v) /\ (mapped[v] # 0 => mapped[v] \in Ids)
    BY XTypes DEF XInv
  <2>2. mapped[v] # 0 => surfaces'[mapped[v]] = v \/ Requested("Create", v, mapped[v])'
    <3>1. CASE mapped[v] = id
      BY <1>3, <1>4, <1>7, <3>1, OneWindowOfSurface
    <3>2. CASE mapped[v] # id
      <4>1. mapped[v] # 0 => surfaces'[mapped[v]] = surfaces[mapped[v]]
        BY <1>7, <2>1, <3>2
      <4>2. Requested("Create", v, mapped[v]) <=>
              Requested("Create", v, mapped[v])'
              \/ r = [type |-> "Create", window |-> v, id |-> mapped[v]]
        <5>1. mapped' = mapped
          BY <1>1
        <5> QED  BY <1>2, <5>1
      <4> QED  BY <1>3, <2>1, <3>2, <4>1, <4>2 DEF WindowState
    <3> QED  BY <3>1, <3>2
  <2> QED  BY <1>1, <1>5, <1>8, <2>1, <2>2 DEF WindowState
<1>12. ASSUME NEW v \in XWindows, NEW i \in Ids PROVE SurfaceState(v, i)'
  <2>1. SurfaceState(v, i)
    BY DEF XInv
  <2>2. ~Requested("Destroy", v, i)
    <3>1. r # [type |-> "Destroy", window |-> v, id |-> i]
      BY <1>3
    <3> QED  BY <1>2, <3>1
  <2> QED  BY <1>1, <1>2, <1>4, <1>7, <2>1, <2>2 DEF SurfaceState
<1>13. ASSUME NEW o \in DOMAIN shellSurfaces' PROVE PairingState(o)'
  <2> DEFINE v == shellSurfaces[o].window
  <2>1. PairingState(o) /\ o \in DOMAIN shellSurfaces
    BY <1>5 DEF XInv
  <2>2. v \in XWindows /\ shellSurfaces[o].surface \in Ids \cup {0}
        /\ (mapped[v] # 0 => mapped[v] \in Ids)
    BY <2>1, XTypes DEF ShellSurfaceRecords
  <2>3. /\ o \in ToSet(unpaired)' <=> o \in ToSet(unpaired) /\ v # w
        /\ shellSurfaces'[o].window = v /\ shellSurfaces'[o].state = shellSurfaces[o].state
        /\ shellSurfaces'[o].surfaceId = shellSurfaces[o].surfaceId
        /\ shellSurfaces'[o].surface = IF o \in ToSet(unpaired) /\ v = w
                                       THEN id ELSE shellSurfaces[o].surface
    BY <1>5, <1>6, <2>1 DEF ToSet
  <2>4. CASE shellSurfaces[o].state = "live" /\ v = w
    <3>1. CASE Announced(w, "SurfaceId")
      BY <1>1, <1>8, <2>1, <2>3, <2>4, <3>1 DEF PairingState
    <3>2. CASE ~Announced(w, "SurfaceId")
      <4>1. surfaces[mapped[w]] # w
        BY <1>3, <1>4
      <4>2. shellSurfaces[o].surfaceId = id /\ o \in ToSet(unpaired)
        BY <1>4, <2>1, <2>4, <3>2, <4>1 DEF PairingState
      <4>3. surfaces'[id] = w /\ mapped'[w] = id
        BY <1>1, <1>3, <1>4, <1>7
      <4>4. shellSurfaces'[o].window = w /\ shellSurfaces'[o].surface = id
            /\ shellSurfaces'[o].surfaceId = id /\ o \notin ToSet(unpaired)' /\ shellSurfaces'[o].state = "live"
        BY <2>3, <2>4, <4>2
      <4>5. ~Announced(shellSurfaces'[o].window, "SurfaceId")
        BY <3>2, <4>4
      <4>6. ~Announced(shellSurfaces[o].window, "SurfaceId")'
        BY <1>1, <4>5 DEF Announced, ToSet
      <4> QED  BY <1>4, <4>3, <4>4, <4>6 DEF PairingState
    <3> QED  BY <3>1, <3>2
  <2>5. CASE shellSurfaces[o].state = "live" /\ v # w /\ mapped[v] # 0
    <3>1. mapped[v] # id
      BY <1>3, <1>4, <2>2, <2>5, OneWindowOfSurface
    <3>2. surfaces'[mapped[v]] = surfaces[mapped[v]]
      BY <1>7, <2>2, <2>5, <3>1
    <3> HIDE DEF v
    <3>3. o \in ToSet(unpaired)' <=> o \in ToSet(unpaired)
      BY <2>3, <2>5
    <3> QED  BY <1>1, <1>8, <2>1, <2>3, <2>5, <3>2, <3>3 DEF PairingState, v
  <2>6. CASE shellSurfaces[o].state # "live" \/ mapped[v] = 0
    <3>1. o \notin ToSet(unpaired)
      BY <2>1, <2>6 DEF PairingState
    <3>2. shellSurfaces[o].surface # 0 /\ surfaces[shellSurfaces[o].surface] = v
            => surfaces'[shellSurfaces[o].surface] = v
      BY <1>4, <1>7, <2>2
    <3> QED  BY <1>1, <2>1, <2>3, <2>6, <3>1, <3>2 DEF PairingState
  <2> QED  BY <2>4, <2>5, <2>6
<1> QED  BY <1>5, <1>9, <1>10, <1>11, <1>12, <1>13 DEF XInv

\* The surface of a window that was unmapped goes, and its shell surface
\* forgets it.
LEMMA SurfaceDestroyedKeeps ==
  ASSUME XInv, SurfaceDestroyed
  PROVE  XInv'
<1> DEFINE r  == Head(wlRequests)
           w  == r.window
           id == r.id
<1>1. /\ wlRequests # <<>> /\ r.type = "Destroy" /\ wlRequests' = Tail(wlRequests)
      /\ surfaces' = [surfaces EXCEPT ![id] = None]
      /\ shellSurfaces' = [o \in DOMAIN shellSurfaces |->
           [shellSurfaces[o] EXCEPT !.surface = IF Live(o) /\ @ = id THEN 0 ELSE @]]
      /\ UNCHANGED <<mapped, created, seen, xEvents, batch, windowsMap, unpaired, misused>>
  BY DEF SurfaceDestroyed, xVars
<1>2. /\ r \in Requests /\ wlRequests' \in Seq(Requests) /\ RequestsInOrder'
      /\ r \in ToSet(wlRequests)
      /\ \A t, v, i : Requested(t, v, i) <=>
           Requested(t, v, i)' \/ r = [type |-> t, window |-> v, id |-> i]
      /\ \A v, i : ~Requested("Destroy", v, i)'
  BY <1>1, XTypes, RequestRead
<1>3. w \in XWindows /\ id \in Ids /\ r = [type |-> "Destroy", window |-> w, id |-> id]
  BY <1>1, <1>2 DEF Requests
<1> HIDE DEF r, w, id
<1>4. surfaces[id] = w /\ mapped[w] = 0 /\ id # 0 /\ None \notin XWindows
  BY <1>2, <1>3, XTypes DEF XInv, SurfaceState
<1>5. ASSUME NEW o \in DOMAIN shellSurfaces
      PROVE  /\ shellSurfaces'[o] \in ShellSurfaceRecords
             /\ shellSurfaces'[o].window = shellSurfaces[o].window
             /\ shellSurfaces'[o].state = shellSurfaces[o].state
             /\ shellSurfaces'[o].surfaceId = shellSurfaces[o].surfaceId
             /\ shellSurfaces'[o].surface =
                  IF shellSurfaces[o].state # "deleted" /\ shellSurfaces[o].surface = id
                  THEN 0 ELSE shellSurfaces[o].surface
  <2>1. shellSurfaces[o] \in ShellSurfaceRecords /\ o # None
    BY XTypes
  <2>2. shellSurfaces'[o] = [shellSurfaces[o] EXCEPT !.surface =
          IF shellSurfaces[o].state # "deleted" /\ @ = id THEN 0 ELSE @]
    BY <1>1, <2>1 DEF Live
  <2> QED  BY <2>1, <2>2 DEF ShellSurfaceRecords
<1>6. /\ DOMAIN shellSurfaces' = DOMAIN shellSurfaces
      /\ shellSurfaces' \in Seq(ShellSurfaceRecords)
      /\ Len(shellSurfaces') = Len(shellSurfaces)
  <2>1. DOMAIN shellSurfaces' = DOMAIN shellSurfaces
    BY <1>1
  <2>2. Len(shellSurfaces) \in Nat /\ DOMAIN shellSurfaces = 1..Len(shellSurfaces)
    BY XTypes
  <2>3. shellSurfaces' \in [1..Len(shellSurfaces) -> ShellSurfaceRecords]
    BY <1>1, <1>5, <2>1, <2>2
  <2>4. shellSurfaces' \in Seq(ShellSurfaceRecords) /\ Len(shellSurfaces') = Len(shellSurfaces)
    BY <2>2, <2>3
  <2> QED  BY <2>1, <2>4
<1>7. \A i \in Ids : surfaces'[i] = IF i = id THEN None ELSE surfaces[i]
  BY <1>1, XTypes
<1>8. /\ \A v, t : Announced(v, t)' <=> Announced(v, t)
      /\ \A v : (Known(v)' <=> Known(v)) /\ (Shown(v)' <=> Shown(v))
      /\ ToSet(xEvents)' = ToSet(xEvents)
  <2>1. \A v, t : Announced(v, t)' <=> Announced(v, t)
    BY <1>1 DEF Announced, ToSet
  <2>2. \A v : Shown(v)' <=> Shown(v)
    BY <1>5, <1>6 DEF Shown
  <2> QED  BY <1>1, <2>1, <2>2 DEF Known, ToSet
<1>9. XTypeOK' /\ QueuesOK'
  <2>1. surfaces' \in [Ids -> XWindows \cup {None}]
    BY <1>1, <1>3, XTypes
  <2>2. XTypeOK'
    BY <1>1, <1>6, <2>1, XTypes DEF XTypeOK, ShellSurfaceRecords
  <2>3. xEvents' \in Seq(Events) /\ EventsInOrder'
    BY <1>1, XTypes DEF EventsInOrder
  <2> QED  BY <1>1, <1>2, <1>8, <2>2, <2>3 DEF XInv, QueuesOK
<1>10. MapsToLive' /\ ListedOnce' /\ ~misused'
  <2>1. MapsToLive
    BY DEF XInv
  <2>2. \A o, p \in DOMAIN shellSurfaces' :
          shellSurfaces'[o].window = shellSurfaces'[p].window => o = p
    BY <1>5, <1>6, <2>1 DEF MapsToLive
  <2>3. ASSUME NEW o \in DOMAIN shellSurfaces'
        PROVE  shellSurfaces'[o].state = "live" <=> windowsMap'[shellSurfaces'[o].window] = o
    <3>1. /\ o \in DOMAIN shellSurfaces /\ windowsMap' = windowsMap
          /\ shellSurfaces'[o].window = shellSurfaces[o].window
          /\ shellSurfaces'[o].state = shellSurfaces[o].state
      BY <1>1, <1>5, <1>6
    <3>2. shellSurfaces[o].state = "live" <=> windowsMap[shellSurfaces[o].window] = o
      BY <2>1, <3>1 DEF MapsToLive
    <3> QED  BY <3>1, <3>2
  <2>4. \A u \in XWindows : windowsMap'[u] # None =>
          windowsMap'[u] \in DOMAIN shellSurfaces' /\ shellSurfaces'[windowsMap'[u]].window = u
    BY <1>1, <1>5, <1>6, <2>1 DEF MapsToLive
  <2>5. MapsToLive'
    BY <1>6, <2>1, <2>2, <2>3, <2>4 DEF MapsToLive
  <2> QED  BY <1>1, <1>6, <2>5 DEF XInv, ListedOnce, ToSet
<1>11. ASSUME NEW v \in XWindows PROVE WindowState(v)'
  <2>1. WindowState(v) /\ (mapped[v] # 0 => mapped[v] \in Ids)
    BY XTypes DEF XInv
  <2>2. mapped[v] # 0 => surfaces'[mapped[v]] = v \/ Requested("Create", v, mapped[v])'
    <3>1. surfaces[mapped[v]] = v /\ mapped[v] # 0 => mapped[v] # id
      BY <1>4
    <3>2. mapped[v] # 0 /\ mapped[v] # id => surfaces'[mapped[v]] = surfaces[mapped[v]]
      BY <1>7, <2>1
    <3>3. Requested("Create", v, mapped[v]) <=>
            Requested("Create", v, mapped[v])'
            \/ r = [type |-> "Create", window |-> v, id |-> mapped[v]]
      <4>1. mapped' = mapped
        BY <1>1
      <4> QED  BY <1>2, <4>1
    <3> QED  BY <1>3, <2>1, <3>1, <3>2, <3>3 DEF WindowState
  <2> QED  BY <1>1, <1>6, <1>8, <2>1, <2>2 DEF WindowState
<1>12. ASSUME NEW v \in XWindows, NEW i \in Ids PROVE SurfaceState(v, i)'
  <2>1. SurfaceState(v, i)
    BY DEF XInv
  <2>2. Requested("Destroy", v, i) => i = id
    <3>1. r = [type |-> "Destroy", window |-> v, id |-> i] => i = id
      BY <1>3
    <3>2. Requested("Destroy", v, i) => r = [type |-> "Destroy", window |-> v, id |-> i]
      BY <1>2
    <3> QED  BY <3>1, <3>2
  <2> QED  BY <1>1, <1>2, <1>4, <1>7, <2>1, <2>2 DEF SurfaceState
<1>13. ASSUME NEW o \in DOMAIN shellSurfaces' PROVE PairingState(o)'
  <2>1. PairingState(o) /\ o \in DOMAIN shellSurfaces
    BY <1>6 DEF XInv
  <2>2. PICK v \in XWindows : v = shellSurfaces[o].window
    BY <2>1, XTypes DEF ShellSurfaceRecords
  <2>3. shellSurfaces[o].surface \in Ids \cup {0} /\ mapped[v] \in Ids \cup {0}
    BY <2>1, XTypes DEF ShellSurfaceRecords
  <2>4. /\ o \in ToSet(unpaired)' <=> o \in ToSet(unpaired)
        /\ Announced(v, "SurfaceId")' <=> Announced(v, "SurfaceId")
    BY <1>1, <1>8 DEF ToSet
  <2>5. CASE shellSurfaces[o].state = "live" /\ mapped[v] # 0
    <3>1. surfaces[mapped[v]] = v => mapped[v] # id
      BY <1>4, <2>5
    <3>2. surfaces'[mapped[v]] = v <=> surfaces[mapped[v]] = v
      BY <1>4, <1>7, <2>3, <2>5, <3>1
    <3>3. shellSurfaces'[o].surface = shellSurfaces[o].surface
      BY <1>5, <2>1, <2>2, <2>5, <3>1 DEF PairingState
    <3>4. /\ shellSurfaces'[o].window = v /\ shellSurfaces'[o].state = "live"
          /\ shellSurfaces'[o].surfaceId = shellSurfaces[o].surfaceId
      BY <1>5, <2>1, <2>2, <2>5
    <3>5. Announced(shellSurfaces[o].window, "SurfaceId")' <=> Announced(v, "SurfaceId")
      BY <1>8, <3>4
    <3>6. IF Announced(v, "SurfaceId")
          THEN /\ shellSurfaces[o].surfaceId = 0 /\ shellSurfaces[o].surface = 0
               /\ o \notin ToSet(unpaired)
          ELSE /\ shellSurfaces[o].surfaceId = mapped[v]
               /\ IF surfaces[mapped[v]] = v
                  THEN shellSurfaces[o].surface = mapped[v] /\ o \notin ToSet(unpaired)
                  ELSE shellSurfaces[o].surface = 0 /\ o \in ToSet(unpaired)
      BY <2>1, <2>2, <2>5 DEF PairingState
    <3>7. mapped'[v] = mapped[v]
      BY <1>1
    <3> QED  BY <2>4, <2>5, <3>2, <3>3, <3>4, <3>5, <3>6, <3>7 DEF PairingState
  <2>6. CASE shellSurfaces[o].state # "live" \/ mapped[v] = 0
    <3>1. /\ o \notin ToSet(unpaired)
          /\ shellSurfaces[o].state # "deleted" /\ shellSurfaces[o].surface # 0
               => surfaces[shellSurfaces[o].surface] = v
          /\ v \notin seen => shellSurfaces[o].surfaceId = 0 /\ shellSurfaces[o].surface = 0
      BY <2>1, <2>2, <2>6 DEF PairingState
    <3>2. shellSurfaces[o].state # "deleted" /\ shellSurfaces'[o].surface # 0
            => surfaces'[shellSurfaces'[o].surface] = v
      BY <1>5, <1>7, <2>1, <2>3, <3>1
    <3>3. v \notin seen => shellSurfaces'[o].surface = 0
      BY <1>5, <2>1, <3>1
    <3>4. /\ shellSurfaces'[o].window = v /\ shellSurfaces'[o].state = shellSurfaces[o].state
          /\ shellSurfaces'[o].surfaceId = shellSurfaces[o].surfaceId
          /\ mapped'[v] = mapped[v] /\ seen' = seen
      BY <1>1, <1>5, <2>1, <2>2
    <3> QED  BY <2>4, <2>6, <3>1, <3>2, <3>3, <3>4 DEF PairingState
  <2> QED  BY <2>5, <2>6
<1> QED  BY <1>9, <1>10, <1>11, <1>12, <1>13 DEF XInv

-----------------------------------------------------------------------------
\* The event t of w is taken from the connection: what is left of w comes later
\* in its life, and the queues are as they should be.
Taken(w, t) ==
  /\ Announced(w, t)
  /\ \A v, u : Announced(v, u) <=> Announced(v, u)' \/ (v = w /\ u = t)
  /\ \A u : Announced(w, u)' => Before(t, u)
  /\ QueuesOK' /\ batch' = TRUE
  /\ UNCHANGED <<mapped, created, seen, wlRequests, surfaces>>

\* A turn of the loop takes one event and calls its handler.
LEMMA EventTaken ==
  ASSUME XInv, WmEvent
  PROVE  \E e \in Events :
           /\ e \in ToSet(xEvents) /\ Taken(e.window, e.type)
           /\ \/ e.type = "Create"    /\ HandleCreateNotify(e.window)
              \/ e.type = "SurfaceId" /\ HandleSurfaceId(e.window, e.id)
              \/ e.type = "Destroy"   /\ HandleDestroyNotify(e.window)
<1>1. PICK e : e = Head(xEvents)
  OBVIOUS
<1>2. /\ xEvents # <<>> /\ xEvents' = Tail(xEvents) /\ batch' = TRUE
      /\ UNCHANGED <<mapped, created, seen, wlRequests, surfaces>>
      /\ \/ e.type = "Create"    /\ HandleCreateNotify(e.window)
         \/ e.type = "SurfaceId" /\ HandleSurfaceId(e.window, e.id)
         \/ e.type = "Destroy"   /\ HandleDestroyNotify(e.window)
  BY <1>1 DEF WmEvent, xVars
<1>3. /\ e \in Events /\ xEvents' \in Seq(Events) /\ EventsInOrder'
      /\ ToSet(xEvents) = {e} \cup ToSet(xEvents')
      /\ \A w, t : Announced(w, t) <=> Announced(w, t)' \/ (w = e.window /\ t = e.type)
      /\ \A w, t : Announced(w, t)' /\ w = e.window => Before(e.type, t)
  BY <1>1, <1>2, XTypes, EventHandled
<1>4. QueuesOK'
  <2>1. wlRequests' \in Seq(Requests) /\ RequestsInOrder'
    BY <1>2, XTypes DEF RequestsInOrder
  <2>2. \A d \in ToSet(xEvents') : d.type = "SurfaceId" => mapped'[d.window] = d.id /\ d.id # 0
    BY <1>2, <1>3 DEF XInv, QueuesOK
  <2>3. \A d \in ToSet(xEvents)' : d.type = "SurfaceId" => mapped'[d.window] = d.id /\ d.id # 0
    BY <2>2 DEF ToSet
  <2>4. \A v, w \in XWindows : Announced(v, "Create")' /\ Announced(w, "Create")' => v = w
    BY <1>3 DEF XInv, QueuesOK
  <2> QED  BY <1>3, <2>1, <2>3, <2>4 DEF QueuesOK
<1> QED  BY <1>2, <1>3, <1>4 DEF Taken

\* A created window gets a shell surface of its own.
LEMMA CreateNotifyKeeps ==
  ASSUME XInv, NEW w \in XWindows, Taken(w, "Create"), HandleCreateNotify(w)
  PROVE  XInv'
<1> DEFINE o == [window |-> w, surfaceId |-> 0, surface |-> 0, state |-> "live"]
<1>1. PICK n \in Nat : n = Len(shellSurfaces)
  BY XTypes
<1>2. /\ shellSurfaces' = Append(shellSurfaces, o)
      /\ windowsMap' = [windowsMap EXCEPT ![w] = n + 1]
      /\ UNCHANGED <<mapped, created, seen, wlRequests, surfaces, unpaired, misused>>
      /\ QueuesOK' /\ batch' = TRUE
  BY <1>1 DEF HandleCreateNotify, Taken
<1>3. /\ ~Shown(w) /\ n < MaxObjects /\ windowsMap[w] = None
      /\ \A v \in XWindows : Announced(v, "Create") => v = w
  BY <1>1, KnownWindow DEF Taken, XInv, WindowState, QueuesOK
<1>4. /\ ~Announced(w, "Create")'
      /\ \A t : t # "Create" => (Announced(w, t)' <=> Announced(w, t))
      /\ \A v, t : v # w => (Announced(v, t)' <=> Announced(v, t))
  BY DEF Taken, Before
<1>5. /\ shellSurfaces \in Seq(ShellSurfaceRecords) /\ o \in ShellSurfaceRecords
      /\ DOMAIN shellSurfaces = 1..n
  BY <1>1, XTypes DEF ShellSurfaceRecords
<1>6. /\ shellSurfaces' \in Seq(ShellSurfaceRecords) /\ Len(shellSurfaces') = n + 1
      /\ DOMAIN shellSurfaces' = 1..(n + 1)
      /\ \A p \in 1..n : shellSurfaces'[p] = shellSurfaces[p]
      /\ shellSurfaces'[n + 1] = o
  <2> HIDE DEF o
  <2> QED  BY <1>1, <1>2, <1>5, Enqueued
<1>7. /\ n + 1 \in ShellSurfaces /\ n + 1 # None /\ n + 1 \notin 1..n
      /\ MaxObjects \in Nat
  BY <1>3, XAssumption DEF ShellSurfaces
<1>8. \A v \in XWindows : windowsMap'[v] = IF v = w THEN n + 1 ELSE windowsMap[v]
  BY <1>2, XTypes
<1>9. XTypeOK'
  <2>1. windowsMap' \in [XWindows -> ShellSurfaces \cup {None}]
    BY <1>2, <1>7, XTypes
  <2> QED  BY <1>2, <1>6, <2>1, XTypes DEF XTypeOK, ShellSurfaceRecords
<1>10. \A p \in 1..n : shellSurfaces[p].window \in XWindows /\ shellSurfaces[p].window # w
  BY <1>3, <1>5, XTypes DEF Shown, ShellSurfaceRecords
<1>11. MapsToLive' /\ ListedOnce'
  <2>1. MapsToLive
    BY DEF XInv
  <2>2. /\ \A p \in DOMAIN shellSurfaces' : p \in 1..n \/ p = n + 1
        /\ n + 1 \in DOMAIN shellSurfaces'
    BY <1>6
  <2>3. \A p, q \in DOMAIN shellSurfaces' :
          shellSurfaces'[p].window = shellSurfaces'[q].window => p = q
    BY <1>5, <1>6, <1>10, <2>1, <2>2 DEF MapsToLive
  <2>4. \A p \in DOMAIN shellSurfaces' :
          shellSurfaces'[p].state = "live" <=> windowsMap'[shellSurfaces'[p].window] = p
    BY <1>5, <1>6, <1>8, <1>10, <2>1, <2>2 DEF MapsToLive
  <2>5. \A u \in XWindows : windowsMap'[u] # None =>
          windowsMap'[u] \in DOMAIN shellSurfaces' /\ shellSurfaces'[windowsMap'[u]].window = u
    BY <1>5, <1>6, <1>8, <2>1, <2>2 DEF MapsToLive
  <2>6. MapsToLive'
    BY <1>3, <1>6, <1>7, <2>3, <2>4, <2>5 DEF MapsToLive
  <2> QED  BY <1>2, <1>5, <1>6, <2>6 DEF XInv, ListedOnce, ToSet
<1>12. ASSUME NEW v \in XWindows PROVE WindowState(v)'
  <2>1. WindowState(v)
    BY DEF XInv
  <2>2. CASE v = w
    <3>1. Shown(w)'
      BY <1>6 DEF Shown
    <3>2. Known(w) /\ Known(w)'
      BY <1>7, <1>8 DEF Known, Taken
    <3>3. Requested("Create", w, mapped[w])' <=> Requested("Create", w, mapped[w])
      BY <1>2 DEF Requested, ToSet
    <3> QED  BY <1>2, <1>4, <2>1, <2>2, <3>1, <3>2, <3>3 DEF WindowState
  <2>3. CASE v # w
    <3>1. Shown(v)' <=> Shown(v)
      BY <1>5, <1>6, <2>3 DEF Shown
    <3>2. (Known(v)' <=> Known(v)) /\ ~Announced(v, "Create")
      BY <1>3, <1>4, <1>8, <2>3 DEF Known
    <3>3. Requested("Create", v, mapped[v])' <=> Requested("Create", v, mapped[v])
      BY <1>2 DEF Requested, ToSet
    <3> QED  BY <1>2, <1>4, <2>1, <2>3, <3>1, <3>2, <3>3 DEF WindowState
  <2> QED  BY <2>2, <2>3
<1>13. ASSUME NEW v \in XWindows, NEW i \in Ids PROVE SurfaceState(v, i)'
  BY <1>2 DEF XInv, SurfaceState, Requested, ToSet
<1>14. ASSUME NEW p \in DOMAIN shellSurfaces' PROVE PairingState(p)'
  <2>1. CASE p \in 1..n
    <3>1. PairingState(p)
      BY <1>5, <2>1 DEF XInv
    <3>2. Announced(shellSurfaces[p].window, "SurfaceId")'
            <=> Announced(shellSurfaces[p].window, "SurfaceId")
      BY <1>4, <1>6, <1>10, <2>1
    <3> QED  BY <1>2, <1>6, <2>1, <3>1, <3>2 DEF PairingState, ToSet
  <2>2. CASE p = n + 1
    <3>1. p \notin ToSet(unpaired)'
      BY <1>2, <1>5, <1>7, <2>2 DEF XInv, ListedOnce, ToSet
    <3>2. mapped'[w] # 0 => Announced(w, "SurfaceId")'
      BY <1>2, <1>4 DEF Taken, XInv, WindowState
    <3>3. shellSurfaces'[p] = o
      BY <1>6, <2>2
    <3>4. Announced(shellSurfaces[p].window, "SurfaceId")' <=> Announced(w, "SurfaceId")'
      BY <3>3
    <3> QED  BY <3>1, <3>2, <3>3, <3>4 DEF PairingState
  <2> QED  BY <1>6, <2>1, <2>2
<1> QED  BY <1>2, <1>9, <1>11, <1>12, <1>13, <1>14 DEF XInv

\* The id of its surface comes to a live shell surface that has none, and the
\* surface is there or still to come.
LEMMA SurfaceIdKeeps ==
  ASSUME XInv, NEW w \in XWindows, NEW id \in Ids, mapped[w] = id,
         Taken(w, "SurfaceId"), HandleSurfaceId(w, id)
  PROVE  XInv'
<1>1. /\ ~Announced(w, "SurfaceId")' /\ ~Announced(w, "Create") /\ ~Announced(w, "Create")'
      /\ \A t : t # "SurfaceId" => (Announced(w, t)' <=> Announced(w, t))
      /\ \A v, t : v # w => (Announced(v, t)' <=> Announced(v, t))
  BY DEF Taken, Before
<1>2. PICK o \in DOMAIN shellSurfaces : o = windowsMap[w]
  <2>1. Known(w)
    BY DEF Taken, XInv, WindowState
  <2> QED  BY <1>1, <2>1, KnownWindow DEF Known
<1>3. /\ shellSurfaces[o].window = w /\ shellSurfaces[o].state = "live"
      /\ o # None /\ o \in ShellSurfaces /\ id # 0 /\ None \notin XWindows
      /\ shellSurfaces[o] \in ShellSurfaceRecords
  BY <1>2, KnownWindow, XTypes
<1>4. /\ shellSurfaces[o].surfaceId = 0 /\ shellSurfaces[o].surface = 0
      /\ o \notin ToSet(unpaired)
  BY <1>3 DEF Taken, XInv, PairingState
<1>5. surfaces[id] # None <=> surfaces[id] = w
  BY <1>3 DEF XInv, WindowState, SurfaceState
<1>6. /\ shellSurfaces' = [shellSurfaces EXCEPT
           ![o].surfaceId = IF @ > 0 THEN @ ELSE id,
           ![o].surface   = IF surfaces[id] # None THEN id ELSE 0]
      /\ unpaired' = IF surfaces[id] # None THEN unpaired ELSE Append(unpaired, o)
      /\ UNCHANGED <<windowsMap, misused, mapped, created, seen, wlRequests, surfaces>>
      /\ QueuesOK' /\ batch' = TRUE
  BY <1>2, <1>3, <1>4 DEF HandleSurfaceId, Taken
<1>7. /\ DOMAIN shellSurfaces' = DOMAIN shellSurfaces
      /\ \A p \in DOMAIN shellSurfaces : p # o => shellSurfaces'[p] = shellSurfaces[p]
  BY <1>6
<1>8. /\ shellSurfaces'[o].window = w /\ shellSurfaces'[o].state = "live"
      /\ shellSurfaces'[o].surfaceId = id
      /\ shellSurfaces'[o].surface = IF surfaces[id] # None THEN id ELSE 0
      /\ shellSurfaces'[o] \in ShellSurfaceRecords
  <2>1. shellSurfaces'[o] = [[shellSurfaces[o] EXCEPT !.surfaceId = IF @ > 0 THEN @ ELSE id]
                               EXCEPT !.surface = IF surfaces[id] # None THEN id ELSE 0]
    BY <1>6
  <2>2. shellSurfaces'[o] = [shellSurfaces[o] EXCEPT !.surfaceId = id,
                               !.surface = IF surfaces[id] # None THEN id ELSE 0]
    BY <1>3, <1>4, <2>1
  <2> QED  BY <1>3, <1>4, <2>2 DEF ShellSurfaceRecords
<1>9. /\ shellSurfaces' \in Seq(ShellSurfaceRecords)
      /\ Len(shellSurfaces') = Len(shellSurfaces)
  <2>1. Len(shellSurfaces) \in Nat /\ DOMAIN shellSurfaces = 1..Len(shellSurfaces)
        /\ \A p \in DOMAIN shellSurfaces : shellSurfaces[p] \in ShellSurfaceRecords
    BY XTypes
  <2>2. \A p \in DOMAIN shellSurfaces : shellSurfaces'[p] \in ShellSurfaceRecords
    BY <1>7, <1>8, <2>1
  <2>3. shellSurfaces' \in [1..Len(shellSurfaces) -> ShellSurfaceRecords]
    BY <1>6, <1>7, <2>1, <2>2
  <2> QED  BY <2>1, <2>3
<1>10. \A p \in DOMAIN shellSurfaces :
         /\ shellSurfaces'[p].window = shellSurfaces[p].window
         /\ shellSurfaces'[p].state = shellSurfaces[p].state
  BY <1>3, <1>7, <1>8
<1>11. /\ unpaired' \in Seq(ShellSurfaces)
       /\ \A i, j \in DOMAIN unpaired' : unpaired'[i] = unpaired'[j] => i = j
       /\ ToSet(unpaired') = IF surfaces[id] # None THEN ToSet(unpaired)
                             ELSE ToSet(unpaired) \cup {o}
  <2>1. /\ unpaired \in Seq(ShellSurfaces)
        /\ \A i, j \in DOMAIN unpaired : unpaired[i] = unpaired[j] => i = j
    BY XTypes DEF XInv, ListedOnce
  <2>2. CASE surfaces[id] # None
    BY <1>6, <2>1, <2>2
  <2>3. CASE surfaces[id] = None
    <3>1. /\ unpaired' \in Seq(ShellSurfaces) /\ Len(unpaired) \in Nat
          /\ DOMAIN unpaired = 1..Len(unpaired) /\ DOMAIN unpaired' = 1..(Len(unpaired) + 1)
          /\ \A i \in 1..Len(unpaired) : unpaired'[i] = unpaired[i]
          /\ unpaired'[Len(unpaired) + 1] = o
          /\ ToSet(unpaired') = ToSet(unpaired) \cup {o}
      BY <1>3, <1>6, <2>1, <2>3, Enqueued
    <3>2. \A i \in DOMAIN unpaired' :
            \/ i \in DOMAIN unpaired /\ unpaired'[i] = unpaired[i] /\ unpaired'[i] # o
            \/ i = Len(unpaired) + 1 /\ unpaired'[i] = o
      BY <1>4, <3>1 DEF ToSet
    <3> QED  BY <2>1, <2>3, <3>1, <3>2
  <2> QED  BY <2>2, <2>3
<1>12. XTypeOK'
  BY <1>6, <1>9, <1>11, XTypes DEF XTypeOK, ShellSurfaceRecords
<1>13. MapsToLive' /\ ListedOnce'
  <2>1. MapsToLive
    BY DEF XInv
  <2>2. MapsToLive'
    BY <1>6, <1>7, <1>9, <1>10, <2>1 DEF MapsToLive
  <2>3. ToSet(unpaired') \subseteq DOMAIN shellSurfaces'
    BY <1>7, <1>11 DEF XInv, ListedOnce
  <2>4. ToSet(unpaired)' = ToSet(unpaired')
    BY DEF ToSet
  <2> QED  BY <1>11, <2>2, <2>3, <2>4 DEF ListedOnce
<1>14. \A v : Shown(v)' <=> Shown(v)
  BY <1>7, <1>10 DEF Shown
<1>15. \A t, v, i : Requested(t, v, i)' <=> Requested(t, v, i)
  BY <1>6 DEF Requested, ToSet
<1>16. ASSUME NEW v \in XWindows PROVE WindowState(v)'
  <2>1. WindowState(v)
    BY DEF XInv
  <2>2. (Known(v)' <=> Known(v)) /\ (Announced(v, "Create")' <=> Announced(v, "Create"))
        /\ (Announced(v, "Destroy")' <=> Announced(v, "Destroy"))
    BY <1>1, <1>6 DEF Known
  <2>3. Announced(v, "SurfaceId")' => Announced(v, "SurfaceId")
    BY <1>1
  <2>4. Announced(v, "Create") /\ mapped[v] # 0 => Announced(v, "SurfaceId")'
    BY <1>1, <2>1 DEF WindowState
  <2> QED  BY <1>6, <1>9, <1>14, <1>15, <2>1, <2>2, <2>3, <2>4 DEF WindowState
<1>17. ASSUME NEW v \in XWindows, NEW i \in Ids PROVE SurfaceState(v, i)'
  BY <1>6, <1>15 DEF XInv, SurfaceState
<1>18. ASSUME NEW p \in DOMAIN shellSurfaces' PROVE PairingState(p)'
  <2>1. PairingState(p) /\ p \in DOMAIN shellSurfaces
    BY <1>7 DEF XInv
  <2>2. CASE p = o
    <3>1. ~Announced(shellSurfaces[p].window, "SurfaceId")'
      BY <1>1, <1>8, <2>2
    <3>2. mapped'[w] = id /\ surfaces'[id] = surfaces[id]
      BY <1>6
    <3>3. o \in ToSet(unpaired)' <=> surfaces[id] = None
      BY <1>4, <1>11 DEF ToSet
    <3>4. CASE surfaces[id] = None
      BY <1>3, <1>5, <1>8, <2>2, <3>1, <3>2, <3>3, <3>4 DEF PairingState
    <3>5. CASE surfaces[id] = w
      BY <1>3, <1>5, <1>8, <2>2, <3>1, <3>2, <3>3, <3>5 DEF PairingState
    <3> QED  BY <1>5, <3>4, <3>5
  <2>3. CASE p # o
    <3>1. shellSurfaces'[p] = shellSurfaces[p] /\ shellSurfaces[p].window # w
      BY <1>3, <1>7, <2>1, <2>3 DEF XInv, MapsToLive
    <3>2. Announced(shellSurfaces[p].window, "SurfaceId")'
            <=> Announced(shellSurfaces[p].window, "SurfaceId")
      BY <1>1, <3>1
    <3>3. p \in ToSet(unpaired)' <=> p \in ToSet(unpaired)
      BY <1>11, <2>3 DEF ToSet
    <3>4. mapped' = mapped /\ seen' = seen /\ surfaces' = surfaces
      BY <1>6
    <3> QED  BY <2>1, <3>1, <3>2, <3>3, <3>4 DEF PairingState
  <2> QED  BY <2>2, <2>3
<1> QED  BY <1>6, <1>12, <1>13, <1>16, <1>17, <1>18 DEF XInv

\* A destroyed window leaves the map, and its shell surface waits to be deleted.
LEMMA DestroyNotifyKeeps ==
  ASSUME XInv, NEW w \in XWindows, Taken(w, "Destroy"), HandleDestroyNotify(w)
  PROVE  XInv'
<1>1. /\ \A t \in EventTypes : ~Announced(w, t)' /\ (t # "Destroy" => ~Announced(w, t))
      /\ \A v, t : v # w => (Announced(v, t)' <=> Announced(v, t))
  BY DEF Taken, Before, EventTypes
<1>2. Known(w) /\ w \notin created /\ mapped[w] = 0
  BY DEF Taken, XInv, WindowState
<1>3. PICK o \in DOMAIN shellSurfaces : o = windowsMap[w]
  BY <1>1, <1>2, KnownWindow DEF Known, EventTypes
<1>4. /\ shellSurfaces[o].window = w /\ shellSurfaces[o].state = "live" /\ o # None
      /\ shellSurfaces[o] \in ShellSurfaceRecords
      /\ \A v \in XWindows : windowsMap'[v] = IF v = w THEN None ELSE windowsMap[v]
      /\ windowsMap' \in [XWindows -> ShellSurfaces \cup {None}]
  BY <1>3, KnownWindow, XTypes DEF HandleDestroyNotify
<1>5. /\ shellSurfaces' = [shellSurfaces EXCEPT ![o].state = "deleting"]
      /\ UNCHANGED <<mapped, created, seen, wlRequests, surfaces, unpaired, misused>>
      /\ QueuesOK' /\ batch' = TRUE
  BY <1>3, <1>4 DEF HandleDestroyNotify, Taken
<1>6. /\ DOMAIN shellSurfaces' = DOMAIN shellSurfaces
      /\ \A p \in DOMAIN shellSurfaces : p # o => shellSurfaces'[p] = shellSurfaces[p]
      /\ shellSurfaces'[o].window = w /\ shellSurfaces'[o].state = "deleting"
      /\ shellSurfaces'[o].surfaceId = shellSurfaces[o].surfaceId
      /\ shellSurfaces'[o].surface = shellSurfaces[o].surface
      /\ shellSurfaces'[o] \in ShellSurfaceRecords
  BY <1>4, <1>5 DEF ShellSurfaceRecords
<1>7. /\ shellSurfaces' \in Seq(ShellSurfaceRecords)
      /\ Len(shellSurfaces') = Len(shellSurfaces)
  <2>1. Len(shellSurfaces) \in Nat /\ DOMAIN shellSurfaces = 1..Len(shellSurfaces)
        /\ \A p \in DOMAIN shellSurfaces : shellSurfaces[p] \in ShellSurfaceRecords
    BY XTypes
  <2>2. \A p \in DOMAIN shellSurfaces : shellSurfaces'[p] \in ShellSurfaceRecords
    BY <1>6, <2>1
  <2>3. shellSurfaces' \in [1..Len(shellSurfaces) -> ShellSurfaceRecords]
    BY <1>5, <1>6, <2>1, <2>2
  <2> QED  BY <2>1, <2>3
<1>8. \A p \in DOMAIN shellSurfaces :
        /\ shellSurfaces'[p].window = shellSurfaces[p].window
        /\ p # o => shellSurfaces[p].window # w
  BY <1>4, <1>6 DEF XInv, MapsToLive
<1>9. XTypeOK'
  BY <1>4, <1>5, <1>7, XTypes DEF XTypeOK, ShellSurfaceRecords
<1>10. MapsToLive' /\ ListedOnce'
  <2>1. MapsToLive /\ \A p \in DOMAIN shellSurfaces :
          shellSurfaces[p].window \in XWindows /\ p # None
    BY XTypes DEF XInv, ShellSurfaceRecords
  <2>2. \A p, q \in DOMAIN shellSurfaces' :
          shellSurfaces'[p].window = shellSurfaces'[q].window => p = q
    BY <1>6, <1>8, <2>1 DEF MapsToLive
  <2>3. \A p \in DOMAIN shellSurfaces' :
          shellSurfaces'[p].state = "live" <=> windowsMap'[shellSurfaces'[p].window] = p
    <3> SUFFICES ASSUME NEW p \in DOMAIN shellSurfaces
                 PROVE  shellSurfaces'[p].state = "live"
                          <=> windowsMap'[shellSurfaces'[p].window] = p
      BY <1>6
    <3>1. CASE p = o
      BY <1>4, <1>6, <3>1
    <3>2. CASE p # o
      BY <1>4, <1>6, <1>8, <2>1, <3>2 DEF MapsToLive
    <3> QED  BY <3>1, <3>2
  <2>4. \A u \in XWindows : windowsMap'[u] # None =>
          windowsMap'[u] \in DOMAIN shellSurfaces' /\ shellSurfaces'[windowsMap'[u]].window = u
    BY <1>4, <1>6, <1>8, <2>1 DEF MapsToLive
  <2>5. MapsToLive'
    BY <1>7, <2>1, <2>2, <2>3, <2>4 DEF MapsToLive
  <2> QED  BY <1>5, <1>6, <2>5 DEF XInv, ListedOnce, ToSet
<1>11. \A v : Shown(v)' <=> Shown(v)
  BY <1>6, <1>8 DEF Shown
<1>12. \A t, v, i : Requested(t, v, i)' <=> Requested(t, v, i)
  BY <1>5 DEF Requested, ToSet
<1>13. ASSUME NEW v \in XWindows PROVE WindowState(v)'
  <2>1. WindowState(v)
    BY DEF XInv
  <2>2. CASE v = w
    <3>1. ~Known(w)' /\ Shown(w)
      BY <1>1, <1>4 DEF Known, EventTypes, Shown
    <3> QED  BY <1>1, <1>2, <1>5, <1>11, <2>2, <3>1 DEF WindowState, EventTypes
  <2>3. CASE v # w
    <3>1. \A t : Announced(v, t)' <=> Announced(v, t)
      BY <1>1, <2>3
    <3>2. Known(v)' <=> Known(v)
      BY <1>4, <2>3, <3>1 DEF Known
    <3> QED  BY <1>5, <1>7, <1>11, <1>12, <2>1, <3>1, <3>2 DEF WindowState
  <2> QED  BY <2>2, <2>3
<1>14. ASSUME NEW v \in XWindows, NEW i \in Ids PROVE SurfaceState(v, i)'
  BY <1>5, <1>12 DEF XInv, SurfaceState
<1>15. ASSUME NEW p \in DOMAIN shellSurfaces' PROVE PairingState(p)'
  <2>1. PairingState(p) /\ p \in DOMAIN shellSurfaces
    BY <1>6 DEF XInv
  <2>2. CASE p = o
    <3>1. /\ o \notin ToSet(unpaired)
          /\ shellSurfaces[o].surface # 0 => surfaces[shellSurfaces[o].surface] = w
          /\ w \notin seen => shellSurfaces[o].surfaceId = 0 /\ shellSurfaces[o].surface = 0
      BY <1>2, <1>4, <2>1, <2>2 DEF PairingState
    <3>2. o \notin ToSet(unpaired)' /\ surfaces' = surfaces /\ seen' = seen
      BY <1>5, <3>1 DEF ToSet
    <3> QED  BY <1>6, <2>2, <3>1, <3>2 DEF PairingState
  <2>3. CASE p # o
    <3>1. shellSurfaces'[p] = shellSurfaces[p] /\ shellSurfaces[p].window # w
      BY <1>6, <1>8, <2>1, <2>3
    <3>2. Announced(shellSurfaces[p].window, "SurfaceId")'
            <=> Announced(shellSurfaces[p].window, "SurfaceId")
      BY <1>1, <3>1
    <3>3. /\ mapped' = mapped /\ seen' = seen /\ surfaces' = surfaces
          /\ p \in ToSet(unpaired)' <=> p \in ToSet(unpaired)
      BY <1>5 DEF ToSet
    <3> QED  BY <2>1, <3>1, <3>2, <3>3 DEF PairingState
  <2> QED  BY <2>2, <2>3
<1> QED  BY <1>5, <1>9, <1>10, <1>13, <1>14, <1>15 DEF XInv

\* Only whether the loop runs changes, or nothing.
LEMMA LoopEnds ==
  ASSUME XInv, batch' \in BOOLEAN,
         UNCHANGED <<xVars, xEvents, wlRequests, surfaces, wmVars>>
  PROVE  XInv'
<1>1. UNCHANGED <<mapped, created, seen, xEvents, wlRequests, surfaces, shellSurfaces,
                  windowsMap, unpaired, misused>>
  BY DEF xVars, wmVars
<1>2. /\ \A w, t : Announced(w, t)' <=> Announced(w, t)
      /\ \A t, w, i : Requested(t, w, i)' <=> Requested(t, w, i)
      /\ ToSet(xEvents)' = ToSet(xEvents) /\ ToSet(unpaired)' = ToSet(unpaired)
  BY <1>1 DEF Announced, Requested, ToSet
<1>3. \A w : (Known(w)' <=> Known(w)) /\ (Shown(w)' <=> Shown(w))
  BY <1>1, <1>2 DEF Known, Shown
<1>4. XTypeOK' /\ QueuesOK' /\ MapsToLive' /\ ListedOnce' /\ ~misused'
  <2>1. XTypeOK' /\ MapsToLive' /\ ListedOnce' /\ ~misused'
    BY <1>1, <1>2 DEF XInv, XTypeOK, MapsToLive, ListedOnce
  <2>2. EventsInOrder' /\ RequestsInOrder'
    BY <1>1, XTypes DEF EventsInOrder, RequestsInOrder
  <2> QED  BY <1>1, <1>2, <2>1, <2>2 DEF XInv, QueuesOK
<1>5. \A w \in XWindows : WindowState(w)'
  BY <1>1, <1>2, <1>3 DEF XInv, WindowState
<1>6. \A w \in XWindows, i \in Ids : SurfaceState(w, i)'
  BY <1>1, <1>2 DEF XInv, SurfaceState
<1>7. ASSUME NEW o \in DOMAIN shellSurfaces' PROVE PairingState(o)'
  <2>1. PairingState(o)
    BY <1>1 DEF XInv
  <2>2. shellSurfaces'[o] = shellSurfaces[o]
    BY <1>1
  <2> QED  BY <1>1, <1>2, <2>1, <2>2 DEF PairingState
<1> QED  BY <1>4, <1>5, <1>6, <1>7 DEF XInv

\* A shell surface is deleted when nothing refers to it any more.
LEMMA DeleteKeeps ==
  ASSUME XInv, NEW o \in DOMAIN shellSurfaces, DeleteShellSurface(o)
  PROVE  XInv'
<1> DEFINE w == shellSurfaces[o].window
<1>1. /\ shellSurfaces[o].state = "deleting"
      /\ shellSurfaces' = [shellSurfaces EXCEPT ![o].state = "deleted"]
      /\ windowsMap' = [windowsMap EXCEPT ![w] = None]
      /\ UNCHANGED <<mapped, created, seen, xEvents, wlRequests, surfaces, batch,
                     unpaired, misused>>
  BY DEF DeleteShellSurface, xVars
<1>2. shellSurfaces[o] \in ShellSurfaceRecords /\ w \in XWindows
  BY XTypes DEF ShellSurfaceRecords
<1>3. windowsMap' = windowsMap
  <2>1. windowsMap[w] = None
    BY <1>1, <1>2, KnownWindow
  <2> HIDE DEF w
  <2> QED  BY <1>1, <1>2, <2>1, XTypes
<1>4. /\ DOMAIN shellSurfaces' = DOMAIN shellSurfaces
      /\ \A p \in DOMAIN shellSurfaces : p # o => shellSurfaces'[p] = shellSurfaces[p]
      /\ shellSurfaces'[o].window = shellSurfaces[o].window
      /\ shellSurfaces'[o].state = "deleted"
      /\ shellSurfaces'[o].surfaceId = shellSurfaces[o].surfaceId
      /\ shellSurfaces'[o].surface = shellSurfaces[o].surface
      /\ shellSurfaces'[o] \in ShellSurfaceRecords
  BY <1>1, <1>2 DEF ShellSurfaceRecords
<1>5. /\ shellSurfaces' \in Seq(ShellSurfaceRecords)
      /\ Len(shellSurfaces') = Len(shellSurfaces)
  <2>1. Len(shellSurfaces) \in Nat /\ DOMAIN shellSurfaces = 1..Len(shellSurfaces)
        /\ \A p \in DOMAIN shellSurfaces : shellSurfaces[p] \in ShellSurfaceRecords
    BY XTypes
  <2>2. \A p \in DOMAIN shellSurfaces : shellSurfaces'[p] \in ShellSurfaceRecords
    BY <1>4, <2>1
  <2>3. shellSurfaces' \in [1..Len(shellSurfaces) -> ShellSurfaceRecords]
    BY <1>1, <1>4, <2>1, <2>2
  <2> QED  BY <2>1, <2>3
<1>6. \A p \in DOMAIN shellSurfaces :
        /\ shellSurfaces'[p].window = shellSurfaces[p].window
        /\ shellSurfaces'[p].state = "live" <=> shellSurfaces[p].state = "live"
  BY <1>1, <1>4
<1>7. /\ \A v, t : Announced(v, t)' <=> Announced(v, t)
      /\ \A t, v, i : Requested(t, v, i)' <=> Requested(t, v, i)
      /\ ToSet(xEvents)' = ToSet(xEvents) /\ ToSet(unpaired)' = ToSet(unpaired)
  BY <1>1 DEF Announced, Requested, ToSet
<1>8. \A v : (Known(v)' <=> Known(v)) /\ (Shown(v)' <=> Shown(v))
  BY <1>3, <1>4, <1>6, <1>7 DEF Known, Shown
<1>9. XTypeOK' /\ QueuesOK' /\ MapsToLive' /\ ListedOnce' /\ ~misused'
  <2>1. XTypeOK'
    BY <1>1, <1>3, <1>5, XTypes DEF XTypeOK, ShellSurfaceRecords
  <2>2. EventsInOrder' /\ RequestsInOrder'
    BY <1>1, XTypes DEF EventsInOrder, RequestsInOrder
  <2>3. QueuesOK'
    BY <1>1, <1>7, <2>2 DEF XInv, QueuesOK
  <2>4. MapsToLive'
    BY <1>3, <1>4, <1>5, <1>6 DEF XInv, MapsToLive
  <2> QED  BY <1>1, <1>4, <1>7, <2>1, <2>3, <2>4 DEF XInv, ListedOnce
<1>10. \A v \in XWindows : WindowState(v)'
  BY <1>1, <1>5, <1>7, <1>8 DEF XInv, WindowState
<1>11. \A v \in XWindows, i \in Ids : SurfaceState(v, i)'
  BY <1>1, <1>7 DEF XInv, SurfaceState
<1>12. ASSUME NEW p \in DOMAIN shellSurfaces' PROVE PairingState(p)'
  <2>1. PairingState(p) /\ p \in DOMAIN shellSurfaces
    BY <1>4 DEF XInv
  <2>2. mapped' = mapped /\ seen' = seen /\ surfaces' = surfaces
    BY <1>1
  <2>3. CASE p = o
    BY <1>1, <1>4, <1>7, <2>1, <2>2, <2>3 DEF PairingState
  <2>4. CASE p # o
    <3>1. shellSurfaces'[p] = shellSurfaces[p]
      BY <1>4, <2>1, <2>4
    <3> QED  BY <1>7, <2>1, <2>2, <3>1 DEF PairingState
  <2> QED  BY <2>3, <2>4
<1> QED  BY <1>9, <1>10, <1>11, <1>12 DEF XInv

LEMMA XStep ==
  ASSUME Patient, ~Remaps, ~Reuses
  PROVE  XInv /\ [XNext]_xwaylandVars => XInv'
<1> SUFFICES ASSUME XInv, [XNext]_xwaylandVars PROVE XInv'
  OBVIOUS
<1>1. CASE UNCHANGED xwaylandVars
  BY <1>1, XTypes, LoopEnds DEF xwaylandVars
<1>2. ASSUME NEW w \in XWindows, XCreateWindow(w) PROVE XInv'
  BY <1>2, CreateKeeps
<1>3. ASSUME NEW w \in XWindows, XUnmapWindow(w) PROVE XInv'
  BY <1>3, UnmapKeeps
<1>4. ASSUME NEW w \in XWindows, XDestroyWindow(w) PROVE XInv'
  BY <1>4, DestroyKeeps
<1>5. ASSUME NEW w \in XWindows, NEW id \in Ids, XMapWindow(w, id) PROVE XInv'
  BY <1>5, MapKeeps
<1>6. CASE SurfaceCreated
  BY <1>6, SurfaceCreatedKeeps
<1>7. CASE SurfaceDestroyed
  BY <1>7, SurfaceDestroyedKeeps
<1>8. CASE WmEvent
  <2>1. PICK e \in Events :
          /\ e \in ToSet(xEvents) /\ Taken(e.window, e.type)
          /\ \/ e.type = "Create"    /\ HandleCreateNotify(e.window)
             \/ e.type = "SurfaceId" /\ HandleSurfaceId(e.window, e.id)
             \/ e.type = "Destroy"   /\ HandleDestroyNotify(e.window)
    BY <1>8, EventTaken
  <2>2. e.window \in XWindows
    BY DEF Events
  <2>3. CASE e.type = "Create"
    BY <2>1, <2>2, <2>3, CreateNotifyKeeps
  <2>4. CASE e.type = "SurfaceId"
    <3>1. mapped[e.window] = e.id /\ e.id \in Ids
      BY <2>1, <2>4 DEF XInv, QueuesOK, Events
    <3> QED  BY <2>1, <2>2, <2>4, <3>1, SurfaceIdKeeps
  <2>5. CASE e.type = "Destroy"
    BY <2>1, <2>2, <2>5, DestroyNotifyKeeps
  <2> QED  BY <2>1, <2>3, <2>4, <2>5
<1>9. CASE WmEventsDone
  BY <1>9, LoopEnds DEF WmEventsDone
<1>10. ASSUME NEW o \in DOMAIN shellSurfaces, DeleteShellSurface(o) PROVE XInv'
  BY <1>10, DeleteKeeps
<1> QED
  BY <1>1, <1>2, <1>3, <1>4, <1>5, <1>6, <1>7, <1>8, <1>9, <1>10 DEF XNext

LEMMA XStart == XInit => XInv
<1> SUFFICES ASSUME XInit PROVE XInv
  OBVIOUS
<1>1. /\ mapped = [w \in XWindows |-> 0] /\ created = {} /\ seen = {}
      /\ xEvents = <<>> /\ wlRequests = <<>> /\ batch = FALSE
      /\ surfaces = [id \in Ids |-> None] /\ shellSurfaces = <<>>
      /\ windowsMap = [w \in XWindows |-> None] /\ unpaired = <<>>
      /\ misused = FALSE
  BY DEF XInit
<1>2. /\ XTypeOK /\ xEvents \in Seq(Events) /\ wlRequests \in Seq(Requests)
  <2>1. \A S : <<>> \in Seq(S)
    OBVIOUS
  <2>2. /\ mapped \in [XWindows -> Ids \cup {0}]
        /\ surfaces \in [Ids -> XWindows \cup {None}]
        /\ windowsMap \in [XWindows -> ShellSurfaces \cup {None}]
    BY <1>1
  <2> QED  BY <1>1, <2>1, <2>2 DEF XTypeOK
<1>3. /\ \A w, t : ~Announced(w, t)
      /\ \A t, w, i : ~Requested(t, w, i)
      /\ \A w : ~Shown(w)
      /\ ToSet(xEvents) = {} /\ ToSet(unpaired) = {}
  BY <1>1 DEF Announced, Requested, Shown, ToSet
<1>4. QueuesOK
  BY <1>1, <1>2, <1>3 DEF QueuesOK, EventsInOrder, RequestsInOrder
<1>5. MapsToLive /\ ListedOnce
  <2>1. Len(shellSurfaces) = 0 /\ DOMAIN shellSurfaces = {} /\ DOMAIN unpaired = {}
    BY <1>1
  <2> QED  BY <1>1, <1>3, <2>1, XAssumption DEF MapsToLive, ListedOnce
<1>6. \A w \in XWindows : WindowState(w)
  BY <1>1, <1>3 DEF WindowState, Known
<1>7. \A w \in XWindows, i \in Ids : SurfaceState(w, i)
  BY <1>1, <1>3, XAssumption DEF SurfaceState
<1> QED  BY <1>1, <1>2, <1>4, <1>5, <1>6, <1>7 DEF XInv

\* The invariant says all that is wanted of the pairs.
LEMMA XInvPairs == XInv => WindowsArePaired
<1> SUFFICES ASSUME XInv PROVE WindowsArePaired
  OBVIOUS
<1>1. NoStranger
  <2> SUFFICES ASSUME NEW o \in DOMAIN shellSurfaces, Live(o), shellSurfaces[o].surface # 0
               PROVE  surfaces[shellSurfaces[o].surface] = shellSurfaces[o].window
    BY DEF NoStranger
  <2>1. PairingState(o) /\ shellSurfaces[o].state # "deleted"
    BY DEF XInv, Live
  <2> QED  BY <2>1 DEF PairingState
<1>2. Paired
  <2> SUFFICES ASSUME Handled, NEW w \in created
               PROVE  /\ windowsMap[w] # None
                      /\ shellSurfaces[windowsMap[w]].surface = mapped[w]
                      /\ mapped[w] # 0 => windowsMap[w] \notin ToSet(unpaired)
    BY DEF Paired
  <2>1. w \in XWindows
    BY XTypes
  <2>2. /\ \A v, t : ~Announced(v, t)
        /\ \A t, v, i : ~Requested(t, v, i)
    BY DEF Handled, Announced, Requested, ToSet
  <2>3. Known(w) /\ windowsMap[w] # None
    BY <2>1, <2>2, KnownWindow DEF Known
  <2>4. PICK o \in DOMAIN shellSurfaces : o = windowsMap[w]
    BY <2>1, <2>3, KnownWindow
  <2>5. /\ shellSurfaces[o].window = w /\ shellSurfaces[o].state = "live"
        /\ PairingState(o) /\ shellSurfaces[o] \in ShellSurfaceRecords
    BY <2>1, <2>3, <2>4, KnownWindow, XTypes DEF XInv
  <2>6. CASE mapped[w] # 0
    <3>1. surfaces[mapped[w]] = w
      BY <2>1, <2>2, <2>6 DEF XInv, WindowState
    <3> QED  BY <2>2, <2>3, <2>4, <2>5, <2>6, <3>1 DEF PairingState
  <2>7. CASE mapped[w] = 0
    <3> DEFINE i == shellSurfaces[o].surface
    <3>1. i \in Ids \cup {0} /\ (i # 0 => surfaces[i] = w)
      BY <2>5, <2>7 DEF PairingState, ShellSurfaceRecords
    <3>2. i \in Ids /\ surfaces[i] = w => mapped[w] = i
      BY <2>1, <2>2 DEF XInv, SurfaceState
    <3>3. i = 0
      BY <2>7, <3>1, <3>2, XTypes
    <3> QED  BY <2>3, <2>4, <2>7, <3>3
  <2> QED  BY <2>6, <2>7
<1>3. NeverMisused
  BY DEF XInv, NeverMisused
<1> QED  BY <1>1, <1>2, <1>3 DEF WindowsArePaired

\* Whatever the order in which the compositor reads the X11 and the Wayland
\* connection, a window gets its own surface, at the latest when all is handled,
\* no window has the surface of another, and no deleted shell surface is used
\* (XWayland::handleSurfaceCreated(), XWaylandManager::handleSurfaceId()).  This is so
\* as long as a window stays until it has its surface, is not mapped again, and
\* window ids are not used again.
THEOREM WindowsAreAlwaysPaired ==
  ASSUME Patient, ~Remaps, ~Reuses
  PROVE  XSpec => []WindowsArePaired
<1>1. XInit => XInv
  BY XStart
<1>2. XInv /\ [XNext]_xwaylandVars => XInv'
  BY XStep
<1>3. XInv => WindowsArePaired
  BY XInvPairs
<1> QED  BY <1>1, <1>2, <1>3, PTL DEF XSpec

\* The state of the window manager and of Xwayland has its type.
THEOREM XTypeCorrect ==
  ASSUME Patient, ~Remaps, ~Reuses
  PROVE  XSpec => []XTypeOK
<1>1. XInit => XInv
  BY XStart
<1>2. XInv /\ [XNext]_xwaylandVars => XInv'
  BY XStep
<1>3. XInv => XTypeOK
  BY DEF XInv
<1> QED  BY <1>1, <1>2, <1>3, PTL DEF XSpec
=============================================================================
