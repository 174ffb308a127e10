--------------------------- MODULE Outputs_proofs ---------------------------
(****************************************************************************)
(* Proofs about what outputs owe: of PageFlip, for any number of screens,   *)
(* windows and buffers, until the virtual terminal is switched and when the *)
(* kernel refuses no flip, that nobody renders into what is shown; of the   *)
(* screencasts, for any buffers, that none is forgotten and that the client *)
(* library waits for one at a time.  Each condition is needed, as the       *)
(* README shows; the types of the variables are correct without them.       *)
(****************************************************************************)
EXTENDS PageFlip, ScreencastClient, TLAPS

Parameters ==
  /\ Windowed \subseteq Screens /\ Changing \subseteq Screens
  /\ None \notin Buffers
  /\ MaxSwitches \in Nat /\ ~FlipsFail

\* The session is active as it was, so that nobody but render threads flips.
Calm ==
  /\ switches = 0
  /\ mainPc = Idle /\ vtActive
  /\ \A s \in Screens : active[s] /\ ~suspended[s]

\* An event of s is among those, and no screen has two.
Has(q, s) == \E i \in 1..Len(q) : q[i] = s
Distinct(q) == \A i, j \in 1..Len(q) : q[i] = q[j] => i = j

\* What a screen has locked: the buffer that goes, and the one that comes.
BuffersOf(s) ==
  /\ locked[s] = {current[s], next[s]} \ {None}
  /\ current[s] # None => current[s] # next[s]
  /\ front[s] # None => front[s] \notin locked[s]
  /\ shown[s] \in {current[s], next[s], None}

\* How far the flip of a screen is: under way, done and not read, or none.
FlipOf(s) ==
  /\ next[s] # None => modeSet[s]
  /\ flipping[s] # None => flipping[s] = next[s] /\ ~Has(events, s)
  /\ Has(events, s) => next[s] # None /\ shown[s] = next[s]
  /\ pc[s] \in {"Swap", "Resized", "Flip", "Queue"} => next[s] = None

Inv ==
  /\ TypeOK
  /\ Calm
  /\ Distinct(events)
  /\ \A s \in Screens : BuffersOf(s) /\ FlipOf(s)

-----------------------------------------------------------------------------
(* Events *)

\* Reading the first event leaves those of the other screens.
LEMMA ReadEvent ==
  ASSUME NEW S, NEW q \in Seq(S), q # <<>>, Distinct(q)
  PROVE  /\ Tail(q) \in Seq(S) /\ Distinct(Tail(q))
         /\ Head(q) \in S /\ Has(q, Head(q))
         /\ \A s : Has(Tail(q), s) <=> Has(q, s) /\ s # Head(q)
<1>1. /\ Len(q) \in Nat /\ Len(q) >= 1
      /\ Head(q) = q[1] /\ Head(q) \in S
      /\ Tail(q) \in Seq(S) /\ Len(Tail(q)) = Len(q) - 1
      /\ \A i \in 1..Len(Tail(q)) : Tail(q)[i] = q[i + 1]
  OBVIOUS
<1>2. Distinct(Tail(q))
  BY <1>1 DEF Distinct
<1>3. Has(q, Head(q))
  BY <1>1 DEF Has
<1>4. ASSUME NEW s, Has(Tail(q), s)
      PROVE  Has(q, s) /\ s # Head(q)
  <2>1. PICK i \in 1..Len(Tail(q)) : Tail(q)[i] = s
    BY <1>4 DEF Has
  <2>2. i + 1 \in 1..Len(q) /\ q[i + 1] = s /\ i + 1 # 1 /\ 1 \in 1..Len(q)
    BY <1>1, <2>1
  <2> QED  BY <1>1, <2>2 DEF Has, Distinct
<1>5. ASSUME NEW s, Has(q, s), s # Head(q)
      PROVE  Has(Tail(q), s)
  <2>1. PICK i \in 1..Len(q) : q[i] = s
    BY <1>5 DEF Has
  <2>2. i - 1 \in 1..Len(Tail(q)) /\ Tail(q)[i - 1] = s
    BY <1>1, <1>5, <2>1
  <2> QED  BY <2>2 DEF Has
<1> QED  BY <1>1, <1>2, <1>3, <1>4, <1>5

\* The kernel adds an event of a screen that has none.
LEMMA AddEvent ==
  ASSUME NEW S, NEW q \in Seq(S), NEW s \in S, Distinct(q), ~Has(q, s)
  PROVE  /\ Append(q, s) \in Seq(S) /\ Distinct(Append(q, s))
         /\ \A t : Has(Append(q, s), t) <=> Has(q, t) \/ t = s
<1> DEFINE r == Append(q, s)
<1>1. /\ Len(q) \in Nat /\ r \in Seq(S) /\ Len(r) = Len(q) + 1
      /\ r[Len(r)] = s
      /\ \A i \in 1..Len(q) : r[i] = q[i]
  OBVIOUS
<1> HIDE DEF r
<1>2. \A i \in 1..Len(r) : i = Len(r) \/ i \in 1..Len(q)
  BY <1>1
<1>3. \A i \in 1..Len(q) : r[i] # s
  BY <1>1 DEF Has
<1>4. Distinct(r)
  BY <1>1, <1>2, <1>3 DEF Distinct
<1>5. ASSUME NEW t PROVE Has(r, t) <=> Has(q, t) \/ t = s
  <2>1. \A i \in 1..Len(q) : i \in 1..Len(r)
    BY <1>1
  <2>2. Len(r) \in 1..Len(r)
    BY <1>1
  <2> QED  BY <1>1, <1>2, <2>1, <2>2 DEF Has
<1> QED  BY <1>1, <1>4, <1>5 DEF r

-----------------------------------------------------------------------------
(* Each step preserves the invariant *)

LEMMA InitInv ==
  ASSUME Parameters, Init
  PROVE  Inv
<1>1. TypeOK
  BY DEF Parameters, Init, TypeOK
<1>2. Calm /\ Distinct(events)
  BY DEF Init, Calm, Distinct
<1>3. ASSUME NEW s \in Screens PROVE BuffersOf(s) /\ FlipOf(s)
  BY DEF Init, BuffersOf, FlipOf, Has
<1> QED  BY <1>1, <1>2, <1>3 DEF Inv

\* A step of a thread that touches no buffer, and does not go past a flip.
LEMMA MoveInv ==
  ASSUME Parameters, Inv, NEW s \in Screens,
         NEW there \in {"Wait", "Lock", "Handle", "Swap", "Flip", "Queue"},
         pc' = [pc EXCEPT ![s] = there],
         there \in {"Swap", "Flip", "Queue"} => next[s] = None,
         mutex' \in Screens \cup {Main, None},
         UNCHANGED <<bufferVars, mainVars, modeVars, kernelVars>>
  PROVE  Inv'
<1> USE DEF bufferVars, mainVars, modeVars, kernelVars
<1>1. TypeOK'
  BY DEF Inv, TypeOK
<1>2. Calm' /\ Distinct(events)'
  BY DEF Inv, Calm
<1>3. ASSUME NEW t \in Screens PROVE BuffersOf(t)' /\ FlipOf(t)'
  BY DEF Inv, TypeOK, BuffersOf, FlipOf
<1> QED  BY <1>1, <1>2, <1>3 DEF Inv

\* The buffer that goes is given back when the one that comes is on the screen.
LEMMA HandleDrmEventInv ==
  ASSUME Parameters, Inv, NEW s \in Screens, HandleDrmEvent(s)
  PROVE  Inv'
<1> DEFINE h == Head(events)
<1>1. /\ events # <<>>
      /\ locked' = [locked EXCEPT ![h] = @ \ {current[h]}]
      /\ current' = [current EXCEPT ![h] = next[h]]
      /\ next' = [next EXCEPT ![h] = None]
      /\ events' = Tail(events)
      /\ UNCHANGED <<pc, mutex, front, mainVars, modeVars, flipping, shown>>
  BY DEF HandleDrmEvent, FlipFinished
<1>2. /\ events' \in Seq(Screens) /\ Distinct(events')
      /\ h \in Screens /\ Has(events, h)
      /\ \A t : Has(events', t) <=> Has(events, t) /\ t # h
  BY <1>1, ReadEvent DEF Inv, TypeOK
<1> HIDE DEF h
<1>3. /\ next[h] # None /\ shown[h] = next[h] /\ flipping[h] = None
      /\ locked[h] = {current[h], next[h]} \ {None}
      /\ current[h] # next[h]
  BY <1>2 DEF Inv, BuffersOf, FlipOf
<1>4. TypeOK'
  BY <1>1, <1>2 DEF Inv, TypeOK, mainVars, modeVars
<1>5. Calm'
  BY <1>1 DEF Inv, Calm, mainVars
<1>6. ASSUME NEW t \in Screens PROVE BuffersOf(t)' /\ FlipOf(t)'
  <2>1. CASE t = h
    <3>1. /\ locked'[t] = {next[t]} /\ current'[t] = next[t] /\ next'[t] = None
          /\ shown'[t] = next[t] /\ flipping'[t] = None /\ front'[t] = front[t]
          /\ ~Has(events', t)
      BY <1>1, <1>2, <1>3, <2>1 DEF Inv, TypeOK
    <3> QED  BY <1>2, <1>3, <2>1, <3>1 DEF Inv, BuffersOf, FlipOf
  <2>2. CASE t # h
    <3>1. /\ locked'[t] = locked[t] /\ current'[t] = current[t]
          /\ next'[t] = next[t]
          /\ Has(events', t) <=> Has(events, t)
      BY <1>1, <1>2, <2>2 DEF Inv, TypeOK
    <3> QED  BY <1>1, <3>1 DEF Inv, BuffersOf, FlipOf, modeVars
  <2> QED  BY <2>1, <2>2
<1> QED  BY <1>2, <1>4, <1>5, <1>6 DEF Inv

\* A mode changes while no flip is under way.
LEMMA ResizeSurfaceInv ==
  ASSUME Parameters, Inv, NEW s \in Screens, ResizeSurface(s)
  PROVE  Inv'
<1>1. /\ pc[s] = "Swap" /\ pc' = [pc EXCEPT ![s] = "Resized"]
      /\ modePending' = [modePending EXCEPT ![s] = FALSE]
      /\ modeSet' = [modeSet EXCEPT ![s] = FALSE]
      /\ current' = [current EXCEPT ![s] = None]
      /\ next' = [next EXCEPT ![s] = None]
      /\ locked' = [locked EXCEPT ![s] = {}]
      /\ front' = [front EXCEPT ![s] = None]
      /\ shown' = [shown EXCEPT ![s] = None]
      /\ UNCHANGED <<mutex, mainVars, powered, flipping, events>>
  BY DEF ResizeSurface, Goto
<1>2. next[s] = None /\ flipping[s] = None /\ ~Has(events, s)
  BY <1>1 DEF Inv, FlipOf
<1>3. TypeOK'
  BY <1>1 DEF Inv, TypeOK, mainVars
<1>4. Calm' /\ Distinct(events)'
  BY <1>1 DEF Inv, Calm, mainVars
<1>5. ASSUME NEW t \in Screens PROVE BuffersOf(t)' /\ FlipOf(t)'
  <2>1. CASE t = s
    BY <1>1, <1>2, <2>1 DEF Inv, TypeOK, BuffersOf, FlipOf, Has
  <2>2. CASE t # s
    BY <1>1, <2>2 DEF Inv, TypeOK, BuffersOf, FlipOf, Has
  <2> QED  BY <2>1, <2>2
<1> QED  BY <1>3, <1>4, <1>5 DEF Inv

\* What is rendered into is not locked.
LEMMA SwapBuffersInv ==
  ASSUME Parameters, Inv, NEW s \in Screens, SwapBuffers(s)
  PROVE  Inv'
<1>1. /\ pc[s] \in {"Swap", "Resized"} /\ pc' = [pc EXCEPT ![s] = "Flip"]
      /\ UNCHANGED <<mutex, current, next, locked, mainVars, modeVars, kernelVars>>
  BY DEF SwapBuffers, Goto
<1>2. \/ front' = front
      \/ \E b \in Buffers \ locked[s] : front' = [front EXCEPT ![s] = b]
  BY DEF SwapBuffers
<1>3. TypeOK'
  BY <1>1, <1>2 DEF Inv, TypeOK, mainVars, modeVars, kernelVars
<1>4. Calm' /\ Distinct(events)'
  BY <1>1 DEF Inv, Calm, mainVars, kernelVars
<1>5. ASSUME NEW t \in Screens PROVE BuffersOf(t)' /\ FlipOf(t)'
  <2>1. front'[t] # None => front'[t] \notin locked[t]
    BY <1>2 DEF Inv, TypeOK, BuffersOf
  <2> QED  BY <1>1, <2>1 DEF Inv, TypeOK, BuffersOf, FlipOf, Has, modeVars, kernelVars
<1> QED  BY <1>3, <1>4, <1>5 DEF Inv

\* The flip is the only one of its screen.
LEMMA RenderFlipInv ==
  ASSUME Parameters, Inv, NEW s \in Screens, RenderFlip(s)
  PROVE  Inv'
<1>1. /\ pc[s] = "Queue" /\ pc' = [pc EXCEPT ![s] = "Wait"]
      /\ Flip(s)
      /\ UNCHANGED <<mutex, mainVars>>
  BY DEF RenderFlip, Goto
<1>2. next[s] = None /\ flipping[s] = None /\ ~Has(events, s)
  BY <1>1 DEF Inv, FlipOf
<1>3. Calm'
  BY <1>1 DEF Inv, Calm, mainVars
<1>4. CASE front[s] = None
  <2>1. /\ next' = next
        /\ UNCHANGED <<current, locked, front, modeVars, kernelVars>>
    BY <1>1, <1>2, <1>4 DEF Flip, Inv, TypeOK
  <2>2. TypeOK' /\ Distinct(events)'
    BY <1>1, <2>1 DEF Inv, TypeOK, mainVars, modeVars, kernelVars
  <2>3. ASSUME NEW t \in Screens PROVE BuffersOf(t)' /\ FlipOf(t)'
    BY <1>1, <2>1 DEF Inv, TypeOK, BuffersOf, FlipOf, Has, modeVars, kernelVars
  <2> QED  BY <1>3, <2>2, <2>3 DEF Inv
<1>5. CASE front[s] # None
  <2>1. /\ flipping' = [flipping EXCEPT ![s] = front[s]]
        /\ next' = [next EXCEPT ![s] = front[s]]
        /\ locked' = [locked EXCEPT ![s] = @ \cup {front[s]}]
        /\ shown' = IF modeSet[s] THEN shown ELSE [shown EXCEPT ![s] = front[s]]
        /\ modeSet' = [modeSet EXCEPT ![s] = TRUE]
        /\ powered' = IF modeSet[s] THEN powered ELSE [powered EXCEPT ![s] = TRUE]
        /\ front' = [front EXCEPT ![s] = None]
        /\ UNCHANGED <<current, modePending, events>>
    BY <1>1, <1>2, <1>5 DEF Flip, QueueFlip, Parameters
  <2>2. front[s] \in Buffers /\ front[s] \notin locked[s]
    BY <1>5 DEF Inv, TypeOK, BuffersOf
  <2>3. TypeOK' /\ Distinct(events)'
    BY <1>1, <2>1, <2>2 DEF Inv, TypeOK, mainVars
  <2>4. ASSUME NEW t \in Screens PROVE BuffersOf(t)' /\ FlipOf(t)'
    <3>1. CASE t = s
      <4>1. /\ next'[t] = front[s] /\ flipping'[t] = front[s] /\ front'[t] = None
            /\ locked'[t] = locked[s] \cup {front[s]} /\ current'[t] = current[s]
            /\ modeSet'[t] /\ pc'[t] = "Wait"
            /\ shown'[t] \in {shown[s], front[s]}
            /\ Has(events', t) <=> Has(events, s)
        BY <1>1, <2>1, <3>1 DEF Inv, TypeOK
      <4>2. locked[s] = {current[s]} \ {None} /\ shown[s] \in {current[s], None}
        BY <1>2 DEF Inv, BuffersOf
      <4>3. BuffersOf(t)'
        BY <2>2, <4>1, <4>2, <1>5 DEF BuffersOf
      <4>4. FlipOf(t)'
        BY <1>2, <4>1 DEF FlipOf
      <4> QED  BY <4>3, <4>4
    <3>2. CASE t # s
      BY <1>1, <2>1, <3>2 DEF Inv, TypeOK, BuffersOf, FlipOf, Has
    <3> QED  BY <3>1, <3>2
  <2> QED  BY <1>3, <2>3, <2>4 DEF Inv
<1> QED  BY <1>4, <1>5

\* What comes on the screen is what was locked for it.
LEMMA FlipDoneInv ==
  ASSUME Parameters, Inv, NEW s \in Screens, FlipDone(s)
  PROVE  Inv'
<1>1. /\ flipping[s] # None
      /\ flipping[s] = next[s] /\ next[s] # None /\ modeSet[s] /\ ~Has(events, s)
  BY DEF FlipDone, Inv, FlipOf
<1>2. /\ shown' = [shown EXCEPT ![s] = flipping[s]]
      /\ flipping' = [flipping EXCEPT ![s] = None]
      /\ events' = Append(events, s)
      /\ UNCHANGED <<pc, mutex, bufferVars, mainVars, modeVars>>
  BY <1>1 DEF FlipDone
<1>3. /\ events' \in Seq(Screens) /\ Distinct(events')
      /\ \A t : Has(events', t) <=> Has(events, t) \/ t = s
  BY <1>2, <1>1, AddEvent DEF Inv, TypeOK
<1>4. TypeOK'
  BY <1>2, <1>3 DEF Inv, TypeOK, bufferVars, mainVars, modeVars
<1>5. Calm'
  BY <1>2 DEF Inv, Calm, mainVars
<1>6. ASSUME NEW t \in Screens PROVE BuffersOf(t)' /\ FlipOf(t)'
  <2>1. CASE t = s
    <3>1. /\ shown'[t] = next[t] /\ flipping'[t] = None
          /\ modeSet'[t] /\ next'[t] = next[t]
      BY <1>1, <1>2, <2>1 DEF Inv, TypeOK, bufferVars, modeVars
    <3> QED  BY <1>1, <1>2, <2>1, <3>1 DEF Inv, BuffersOf, FlipOf, bufferVars
  <2>2. CASE t # s
    <3>1. /\ shown'[t] = shown[t] /\ flipping'[t] = flipping[t]
          /\ Has(events', t) <=> Has(events, t)
      BY <1>2, <1>3, <2>2 DEF Inv, TypeOK
    <3> QED  BY <1>2, <3>1 DEF Inv, BuffersOf, FlipOf, bufferVars, modeVars
  <2> QED  BY <2>1, <2>2
<1> QED  BY <1>3, <1>4, <1>5, <1>6 DEF Inv

LEMMA NextInv ==
  ASSUME Parameters, Inv, [Next]_vars, ~SwitchVt
  PROVE  Inv'
<1> USE DEF Parameters
<1>1. ASSUME NEW s \in Windowed, WaitForFlip(s) PROVE Inv'
  <2>1. ~suspended[s]
    BY DEF Inv, Calm
  <2>2. PICK there \in {"Swap", "Lock"} :
          /\ pc' = [pc EXCEPT ![s] = there]
          /\ there = "Swap" => next[s] = None
    BY <1>1, <2>1 DEF WaitForFlip, Goto
  <2> QED  BY <1>1, <2>2, MoveInv DEF WaitForFlip, Inv, TypeOK
<1>2. ASSUME NEW s \in Windowed, Lock(s) PROVE Inv'
  BY <1>2, MoveInv DEF Lock, Goto
<1>3. ASSUME NEW s \in Windowed, StopWaiting(s) PROVE Inv'
  BY <1>3, MoveInv DEF StopWaiting, Goto
<1>4. ASSUME NEW s \in Windowed, CheckFlip(s) PROVE Inv'
  <2>1. PICK there \in {"Queue", "Wait"} : pc' = [pc EXCEPT ![s] = there]
    BY <1>4 DEF CheckFlip, Goto
  <2>2. next[s] = None
    BY <1>4 DEF CheckFlip, Inv, FlipOf
  <2> QED  BY <1>4, <2>1, <2>2, MoveInv DEF CheckFlip, Inv, TypeOK
<1>5. ASSUME NEW s \in Windowed, Render(s) PROVE Inv'
  BY <1>1, <1>2, <1>3, <1>4, <1>5, HandleDrmEventInv, ResizeSurfaceInv,
     SwapBuffersInv, RenderFlipInv DEF Render
<1>6. ASSUME NEW s \in Screens, HandleVt(s) PROVE FALSE
  BY <1>6 DEF HandleVt, Suspend, ResumeFinish, Resume, ResumeFlip, Idle, Inv, Calm
<1>7. ASSUME NEW s \in Changing, SetPowerState(s) \/ SetCurrentMode(s) PROVE Inv'
  <2>1. /\ powered' \in [Screens -> BOOLEAN] /\ modePending' \in [Screens -> BOOLEAN]
        /\ UNCHANGED <<pc, mutex, bufferVars, mainVars, modeSet, kernelVars>>
    <3>1. powered \in [Screens -> BOOLEAN] /\ modePending \in [Screens -> BOOLEAN]
      BY DEF Inv, TypeOK
    <3>2. CASE SetPowerState(s)
      <4>1. /\ powered' = [powered EXCEPT ![s] = ~powered[s]]
            /\ UNCHANGED <<pc, mutex, bufferVars, mainVars, modePending, modeSet, kernelVars>>
        BY <3>2 DEF SetPowerState
      <4> QED  BY <3>1, <4>1
    <3>3. CASE SetCurrentMode(s)
      <4>1. /\ modePending' = [modePending EXCEPT ![s] = TRUE]
            /\ UNCHANGED <<pc, mutex, bufferVars, mainVars, powered, modeSet, kernelVars>>
        BY <3>3 DEF SetCurrentMode
      <4> QED  BY <3>1, <4>1
    <3> QED  BY <1>7, <3>2, <3>3
  <2>2. TypeOK' /\ Calm' /\ Distinct(events)'
    BY <2>1 DEF Inv, TypeOK, Calm, bufferVars, mainVars, kernelVars
  <2>3. ASSUME NEW t \in Screens PROVE BuffersOf(t)' /\ FlipOf(t)'
    BY <2>1 DEF Inv, BuffersOf, FlipOf, Has, bufferVars, kernelVars
  <2> QED  BY <2>2, <2>3 DEF Inv
<1>8. CASE UNCHANGED vars
  <2>1. TypeOK' /\ Calm' /\ Distinct(events)'
    BY <1>8 DEF Inv, TypeOK, Calm, vars, bufferVars, mainVars, modeVars, kernelVars
  <2>2. ASSUME NEW t \in Screens PROVE BuffersOf(t)' /\ FlipOf(t)'
    BY <1>8 DEF Inv, BuffersOf, FlipOf, Has, vars, bufferVars, mainVars, modeVars, kernelVars
  <2> QED  BY <2>1, <2>2 DEF Inv
<1> QED
  BY <1>5, <1>6, <1>7, <1>8, FlipDoneInv DEF Next

\* Switches are counted, so that a session which has seen none never had one.
UntilSwitched == switches \in Nat /\ (switches = 0 => Inv)

LEMMA SwitchesCount ==
  ASSUME switches \in Nat, [Next]_vars
  PROVE  switches' \in Nat /\ (switches' = 0 => switches = 0 /\ ~SwitchVt)
<1>1. CASE SwitchVt
  BY <1>1 DEF SwitchVt
<1>2. CASE switches' = switches /\ ~SwitchVt
  BY <1>2
<1>3. ASSUME NEW s \in Windowed, Render(s) PROVE switches' = switches
  BY <1>3 DEF Render, WaitForFlip, Lock, HandleDrmEvent, StopWaiting, ResizeSurface,
              SwapBuffers, CheckFlip, RenderFlip, mainVars
<1>4. ASSUME NEW s \in Screens, FlipDone(s) \/ HandleVt(s) PROVE switches' = switches
  BY <1>4 DEF FlipDone, HandleVt, Suspend, ResumeFinish, Resume, ResumeFlip, mainVars
<1>5. ASSUME NEW s \in Changing, SetPowerState(s) \/ SetCurrentMode(s)
      PROVE  switches' = switches
  BY <1>5 DEF SetPowerState, SetCurrentMode, mainVars
<1>6. UNCHANGED vars => switches' = switches
  BY DEF vars, mainVars
<1> QED  BY <1>1, <1>2, <1>3, <1>4, <1>5, <1>6 DEF Next

-----------------------------------------------------------------------------

\* However many screens share the device and its events, and whichever thread
\* reads them: no buffer that is on a screen, or about to be, can be rendered
\* into, and no locked buffer is lost.
THEOREM ScanoutStaysStable ==
  ASSUME Parameters
  PROVE  Spec => []ScanoutIsStable
<1>1. Init => UntilSwitched
  BY InitInv DEF UntilSwitched, Init
<1>2. UntilSwitched /\ [Next]_vars => UntilSwitched'
  BY SwitchesCount, NextInv DEF UntilSwitched
<1>3. UntilSwitched => ScanoutIsStable
  <2>1. ASSUME NEW s \in Screens, BuffersOf(s), FlipOf(s)
        PROVE  /\ {shown[s], flipping[s]} \ {None} \subseteq locked[s]
               /\ locked[s] = {current[s], next[s]} \ {None}
    BY <2>1 DEF BuffersOf, FlipOf
  <2> QED  BY <2>1 DEF UntilSwitched, Inv, ScanoutIsStable
<1> QED  BY <1>1, <1>2, <1>3, PTL DEF Spec

\* What a screen has and the kernel knows, whoever flips.
LEMMA FlipTypes ==
  ASSUME TypeOK, NEW s \in Screens, Flip(s)
  PROVE  /\ {current', next', front', flipping', shown'} \subseteq
              [Screens -> Buffers \cup {None}]
         /\ locked' \in [Screens -> SUBSET Buffers]
         /\ {powered', modePending', modeSet'} \subseteq [Screens -> BOOLEAN]
         /\ events' \in Seq(Screens)
<1>1. CASE front[s] = None
  BY <1>1 DEF Flip, TypeOK, modeVars, kernelVars
<1>2. CASE front[s] # None
  <2>1. front[s] \in Buffers
    BY <1>2 DEF TypeOK
  <2>2. QueueFlip(s) /\ current' = current
    BY <1>2 DEF Flip
  <2>3. /\ {next', flipping'} \subseteq [Screens -> Buffers \cup {None}]
        /\ locked' \in [Screens -> SUBSET Buffers]
    <3>1. CASE /\ flipping' = [flipping EXCEPT ![s] = front[s]]
               /\ next' = [next EXCEPT ![s] = front[s]]
               /\ locked' = [locked EXCEPT ![s] = @ \cup {front[s]}]
      BY <3>1, <2>1 DEF TypeOK
    <3>2. CASE /\ next' = [next EXCEPT ![s] = None]
               /\ UNCHANGED <<flipping, locked>>
      BY <3>2 DEF TypeOK
    <3> QED
      BY <2>2, <3>1, <3>2 DEF QueueFlip
  <2>4. {front', shown'} \subseteq [Screens -> Buffers \cup {None}]
    BY <1>2, <2>1 DEF Flip, TypeOK
  <2>5. {powered', modePending', modeSet'} \subseteq [Screens -> BOOLEAN]
    <3>1. /\ modeSet' = [modeSet EXCEPT ![s] = TRUE] /\ modePending' = modePending
          /\ powered' = powered \/ powered' = [powered EXCEPT ![s] = TRUE]
      BY <1>2 DEF Flip
    <3>2. /\ powered \in [Screens -> BOOLEAN] /\ modeSet \in [Screens -> BOOLEAN]
          /\ modePending \in [Screens -> BOOLEAN]
      BY DEF TypeOK
    <3>3. powered' \in [Screens -> BOOLEAN] /\ modeSet' \in [Screens -> BOOLEAN]
      BY <3>1, <3>2
    <3> QED
      BY <3>1, <3>2, <3>3
  <2>6. events' = events
    BY <1>2 DEF Flip
  <2> QED
    BY <2>2, <2>3, <2>4, <2>5, <2>6 DEF TypeOK
<1> QED
  BY <1>1, <1>2

LEMMA FinishTypes ==
  ASSUME TypeOK, NEW s \in Screens, FlipFinished(s)
  PROVE  /\ {current', next'} \subseteq [Screens -> Buffers \cup {None}]
         /\ locked' \in [Screens -> SUBSET Buffers]
BY DEF FlipFinished, TypeOK

LEMMA RenderTypes ==
  ASSUME TypeOK, NEW s \in Screens, Render(s)
  PROVE  TypeOK'
<1> USE DEF mainVars, modeVars, kernelVars, bufferVars
<1>1. CASE WaitForFlip(s) \/ Lock(s) \/ StopWaiting(s) \/ CheckFlip(s)
  BY <1>1 DEF TypeOK, WaitForFlip, Lock, StopWaiting, CheckFlip, Goto
<1>2. CASE HandleDrmEvent(s)
  <2>1. Head(events) \in Screens /\ Tail(events) \in Seq(Screens)
    BY <1>2 DEF HandleDrmEvent, TypeOK
  <2> QED
    BY <1>2, <2>1, FinishTypes DEF HandleDrmEvent, TypeOK
<1>3. CASE ResizeSurface(s)
  BY <1>3 DEF TypeOK, ResizeSurface, Goto
<1>4. CASE SwapBuffers(s)
  <2>1. front' \in [Screens -> Buffers \cup {None}]
    BY <1>4 DEF TypeOK, SwapBuffers
  <2> QED
    BY <1>4, <2>1 DEF TypeOK, SwapBuffers, Goto
<1>5. CASE RenderFlip(s)
  <2>1. pc' \in [Screens -> {"Wait", "Lock", "Handle", "Swap", "Resized", "Flip", "Queue"}]
    BY <1>5 DEF RenderFlip, Goto, TypeOK
  <2>2. /\ Flip(s)
        /\ UNCHANGED <<mutex, suspended, active, vtActive, switches>>
    BY <1>5 DEF RenderFlip
  <2> QED
    BY <2>1, <2>2, FlipTypes DEF TypeOK
<1> QED
  BY <1>1, <1>2, <1>3, <1>4, <1>5 DEF Render

LEMMA MainTypes ==
  ASSUME TypeOK, NEW s \in Screens, HandleVt(s)
  PROVE  TypeOK'
<1> USE DEF mainVars, modeVars, kernelVars, bufferVars
<1>1. CASE Suspend(s)
  BY <1>1 DEF TypeOK, Suspend
<1>2. CASE ResumeFinish(s)
  BY <1>2, FinishTypes DEF TypeOK, ResumeFinish
<1>3. CASE Resume(s)
  BY <1>3 DEF TypeOK, Resume
<1>4. CASE ResumeFlip(s)
  <2>1. UNCHANGED <<pc, mutex, suspended, active, vtActive, switches>>
    BY <1>4 DEF ResumeFlip
  <2>2. CASE powered[s]
    <3>1. Flip(s)
      BY <1>4, <2>2 DEF ResumeFlip
    <3> QED
      BY <2>1, <3>1, FlipTypes DEF TypeOK
  <2>3. CASE ~powered[s]
    BY <1>4, <2>1, <2>3 DEF ResumeFlip, TypeOK
  <2> QED
    BY <2>2, <2>3
<1> QED
  BY <1>1, <1>2, <1>3, <1>4 DEF HandleVt

\* The variables of the threads, of the plugin and of the kernel keep their types,
\* also while the virtual terminal is switched and when the kernel refuses flips.
THEOREM FlipsTypeCorrect ==
  ASSUME Windowed \subseteq Screens, Changing \subseteq Screens, MaxSwitches \in Nat
  PROVE  Spec => []TypeOK
<1>1. Init => TypeOK
  BY DEF Init, TypeOK
<1>2. TypeOK /\ [Next]_vars => TypeOK'
  <2> SUFFICES ASSUME TypeOK, [Next]_vars PROVE TypeOK'
    OBVIOUS
  <2>1. ASSUME NEW s \in Windowed, Render(s)
        PROVE  TypeOK'
    BY <2>1, RenderTypes
  <2>2. ASSUME NEW s \in Screens, FlipDone(s)
        PROVE  TypeOK'
    <3>1. events' \in Seq(Screens)
      BY <2>2 DEF FlipDone, TypeOK
    <3>2. {flipping', shown'} \subseteq [Screens -> Buffers \cup {None}]
      BY <2>2 DEF FlipDone, TypeOK
    <3> QED
      BY <2>2, <3>1, <3>2 DEF FlipDone, TypeOK, bufferVars, mainVars, modeVars
  <2>3. ASSUME NEW s \in Screens, HandleVt(s)
        PROVE  TypeOK'
    BY <2>3, MainTypes
  <2>4. ASSUME NEW s \in Changing, SetPowerState(s) \/ SetCurrentMode(s)
        PROVE  TypeOK'
    <3>1. /\ \/ powered' = [powered EXCEPT ![s] = ~@] /\ modePending' = modePending
             \/ modePending' = [modePending EXCEPT ![s] = TRUE] /\ powered' = powered
          /\ UNCHANGED <<pc, mutex, bufferVars, mainVars, modeSet, kernelVars>>
      BY <2>4 DEF SetPowerState, SetCurrentMode
    <3>2. powered \in [Screens -> BOOLEAN] /\ modePending \in [Screens -> BOOLEAN]
      BY DEF TypeOK
    <3>3. powered' \in [Screens -> BOOLEAN]
      BY <3>1, <3>2
    <3>4. modePending' \in [Screens -> BOOLEAN]
      BY <3>1, <3>2
    <3> QED
      BY <3>1, <3>3, <3>4 DEF TypeOK, bufferVars, mainVars, kernelVars
  <2>5. CASE SwitchVt
    BY <2>5 DEF SwitchVt, TypeOK, bufferVars, modeVars, kernelVars
  <2>6. CASE UNCHANGED vars
    BY <2>6 DEF vars, TypeOK, bufferVars, mainVars, modeVars, kernelVars
  <2> QED
    BY <2>1, <2>2, <2>3, <2>4, <2>5, <2>6 DEF Next
<1> QED
  BY <1>1, <1>2, PTL DEF Spec

-----------------------------------------------------------------------------
(* Screencasts *)

\* A buffer that the client waits for is not forgotten, however requests, frames,
\* posted events, and the end of the buffer, the object or the client cross; for
\* any buffers, refused ones and those that are too small among them.
THEOREM NothingIsForgotten == CastSpec => []NeverForgotten
<1> DEFINE Known == NeverForgotten /\ requests \in Nat /\ posted \in Seq({"Success", "Failed"})
<1>1. CastInit => Known
  BY DEF CastInit, NeverForgotten
<1>2. Known /\ [CastNext]_castVars => Known'
  <2> SUFFICES ASSUME Known, [CastNext]_castVars
               PROVE  Known'
    OBVIOUS
  <2>1. ASSUME NEW b \in CastBuffers, Record(b) \/ DestroyBuffer(b)
        PROVE  Known'
    BY <2>1 DEF Record, DestroyBuffer, NeverForgotten
  <2>2. CASE RecordFrame
    <3>1. CASE bufferResource = None \/ object # "Valid"
      BY <2>2, <3>1 DEF RecordFrame, NeverForgotten
    <3>2. CASE ~(bufferResource = None \/ object # "Valid")
      <4> DEFINE answers == [i \in 1..requests |->
                               IF bufferResource \in TooLarge THEN "Failed" ELSE "Success"]
      <4>1. /\ requests > 0 /\ requests' = 0 /\ posted' = posted \o answers
            /\ UNCHANGED <<object, bufferResource>>
        BY <2>2, <3>2 DEF RecordFrame
      <4>2. answers \in Seq({"Success", "Failed"}) /\ Len(answers) = requests
        OBVIOUS
      <4> HIDE DEF answers
      <4>3. posted' \in Seq({"Success", "Failed"}) /\ posted' # <<>>
        BY <4>1, <4>2
      <4> QED
        BY <4>1, <4>3 DEF NeverForgotten
    <3> QED
      BY <3>1, <3>2
  <2>3. CASE HandleEvent
    BY <2>3 DEF HandleEvent, NeverForgotten
  <2>4. CASE Destroy \/ DeleteLater \/ Disconnect
    <3>1. CASE Destroy
      BY <3>1 DEF Destroy, NeverForgotten
    <3>2. CASE DeleteLater
      <4>1. object' = "Deleted" /\ requests' = 0 /\ posted' = <<>>
        BY <3>2 DEF DeleteLater
      <4> QED
        BY <4>1 DEF NeverForgotten
    <3>3. CASE Disconnect
      BY <3>3 DEF Disconnect, NeverForgotten
    <3> QED
      BY <2>4, <3>1, <3>2, <3>3
  <2>5. CASE UNCHANGED castVars
    BY <2>5 DEF castVars, serverVars, NeverForgotten
  <2> QED
    BY <2>1, <2>2, <2>3, <2>4, <2>5 DEF CastNext
<1> QED
  BY <1>1, <1>2, PTL DEF CastSpec

\* The compositor's variables keep their types, whatever the client asks for:
\* requests and posted events do not pile up, and no buffer that was refused is
\* kept.
THEOREM CastTypeCorrect ==
  ASSUME MaxPosted \in Nat
  PROVE  CastSpec => []CastTypeOK
<1> DEFINE E == [type : {"frame", "failed", "cancelled"}, buffer : CastBuffers \cup {None}]
           Q == {"Success", "Failed"}
<1>e. <<>> \in Seq(E) /\ \A x \in E : <<x>> \in Seq(E)
  OBVIOUS
<1>q. <<>> \in Seq(Q) /\ Len(<<>>) <= MaxPosted /\ 0 \in 0..MaxPosted
  OBVIOUS
<1>c. \A p, q \in Seq(E) : p \o q \in Seq(E)
  OBVIOUS
<1>v. ASSUME NEW type \in {"frame", "failed", "cancelled"},
             NEW b \in CastBuffers \cup {None}
      PROVE  Event(type, b) \in E
  BY DEF Event
\* CastTypeOK, with names for the sets of events.
<1>t. CastTypeOK <=>
        /\ object \in {"Valid", "Destroyed", "Deleted"} /\ connected \in BOOLEAN
        /\ bufferResource \in (CastBuffers \ Unusable) \cup {None}
        /\ requests \in 0..MaxPosted
        /\ posted \in Seq(Q) /\ Len(posted) <= MaxPosted
        /\ filled \in BOOLEAN /\ sent \in Seq(E)
  BY DEF CastTypeOK
<1>u. (CastTypeOK <=>
         /\ object \in {"Valid", "Destroyed", "Deleted"} /\ connected \in BOOLEAN
         /\ bufferResource \in (CastBuffers \ Unusable) \cup {None}
         /\ requests \in 0..MaxPosted
         /\ posted \in Seq(Q) /\ Len(posted) <= MaxPosted
         /\ filled \in BOOLEAN /\ sent \in Seq(E))'
  BY DEF CastTypeOK
<1> HIDE DEF E
<1>1. CastInit => CastTypeOK
  BY <1>t, <1>e, <1>q DEF CastInit
<1>2. CastTypeOK /\ [CastNext]_castVars => CastTypeOK'
  <2> SUFFICES ASSUME CastTypeOK, [CastNext]_castVars PROVE CastTypeOK'
    OBVIOUS
  <2> USE <1>t, <1>u
  <2>1. ASSUME NEW b \in CastBuffers, requests < MaxPosted, Record(b)
        PROVE  CastTypeOK'
    <3> DEFINE p == IF bufferResource # None
                    THEN <<Event("cancelled", bufferResource)>> ELSE <<>>
               q == IF b \in Unusable THEN <<Event("failed", b)>> ELSE <<>>
    <3>1. p \in Seq(E) /\ q \in Seq(E)
      BY <1>e, <1>v
    <3>2. /\ sent' = p \o q /\ filled' = FALSE
          /\ bufferResource' = IF b \in Unusable THEN None ELSE b
          /\ requests' = IF b \in Unusable THEN requests ELSE requests + 1
          /\ UNCHANGED <<object, connected, posted>>
      BY <2>1 DEF Record
    <3> HIDE DEF p, q
    <3>3. sent' \in Seq(E)
      BY <3>1, <3>2, <1>c
    <3>4. /\ requests' \in 0..MaxPosted
          /\ bufferResource' \in (CastBuffers \ Unusable) \cup {None}
      BY <2>1, <3>2
    <3>5. filled' \in BOOLEAN
      BY <3>2
    <3> QED
      BY <3>2, <3>3, <3>4, <3>5
  <2>2. ASSUME NEW b \in CastBuffers, DestroyBuffer(b)
        PROVE  CastTypeOK'
    BY <2>2, <1>e DEF DestroyBuffer
  <2>3. CASE RecordFrame
    <3>1. CASE bufferResource = None \/ object # "Valid"
      BY <2>3, <3>1, <1>e DEF RecordFrame
    <3>2. CASE ~(bufferResource = None \/ object # "Valid")
      <4> DEFINE answers == [i \in 1..requests |->
                               IF bufferResource \in TooLarge THEN "Failed" ELSE "Success"]
      <4>1. /\ requests' = 0 /\ posted' = posted \o answers
            /\ Len(posted) + requests <= MaxPosted
            /\ filled' \in BOOLEAN /\ sent' = <<>>
            /\ UNCHANGED <<object, connected, bufferResource>>
        BY <2>3, <3>2 DEF RecordFrame
      <4>2. answers \in Seq(Q) /\ Len(answers) = requests
        OBVIOUS
      <4> HIDE DEF answers
      <4>3. posted' \in Seq(Q) /\ Len(posted') <= MaxPosted
        BY <4>1, <4>2
      <4> QED
        BY <4>1, <4>3, <1>e
    <3> QED
      BY <3>1, <3>2
  <2>4. CASE HandleEvent
    <3>1. Tail(posted) \in Seq(Q) /\ Len(Tail(posted)) <= MaxPosted
      BY <2>4 DEF HandleEvent
    <3>2. sent' \in Seq(E)
      BY <2>4, <1>e, <1>v DEF HandleEvent
    <3> QED
      BY <2>4, <3>1, <3>2 DEF HandleEvent
  <2>5. CASE Destroy \/ DeleteLater \/ Disconnect
    BY <2>5, <1>e, <1>q DEF Destroy, DeleteLater, Disconnect
  <2>6. CASE UNCHANGED castVars
    BY <2>6 DEF castVars, serverVars
  <2> QED
    BY <2>1, <2>2, <2>3, <2>4, <2>5, <2>6 DEF CastNext
<1> QED
  BY <1>1, <1>2, PTL DEF CastSpec

\* The client library's buffers are usable and of the size of the frame, and the
\* handler's recordFrame() is not interrupted.
CastParameters ==
  /\ None \notin CastBuffers /\ MaxPosted \in Nat \ {0}
  /\ Unusable = {} /\ TooLarge = {} /\ Sound

\* What is on its way between client and compositor, or being recorded.
OnItsWay ==
  Len(requested) + (IF bufferResource # None THEN 1 ELSE 0) + Len(received)

\* The compositor records what it was asked to, once.
CompositorRecords ==
  /\ object = "Valid" /\ connected
  /\ requests + Len(posted) = (IF bufferResource # None THEN 1 ELSE 0)
  /\ \A i \in DOMAIN posted : posted[i] = "Success"
  /\ received \in Seq([type : {"frame"}, buffer : CastBuffers])

\* One buffer is on its way, unless the dispatching thread is about to ask for
\* one, or has found none and left it to the handler (starving).
OneAsks ==
  /\ threadPc["Dispatch"] \in {"Idle", "Record", "Note"}
  /\ threadPc["Handler"] \in {"Record", "Note"} => threadPc["Dispatch"] = "Idle" /\ starving
  /\ threadPc["Dispatch"] # "Idle" => ~starving
  /\ threadPc["Dispatch"] = "Record" => OnItsWay = 0
  /\ threadPc["Dispatch"] = "Note" =>
       OnItsWay = (IF picked["Dispatch"] # None THEN 1 ELSE 0)
  /\ threadPc["Dispatch"] = "Idle" =>
       OnItsWay = (IF ~starving \/ (threadPc["Handler"] = "Note" /\ picked["Handler"] # None)
                   THEN 1 ELSE 0)

ClientInv == ClientTypeOK /\ CompositorRecords /\ OneAsks

LEMMA ClientInvInit ==
  ASSUME CastParameters, ClientInit
  PROVE  ClientInv
<1>1. CastTypeOK
  <2>1. /\ object = "Valid" /\ connected = TRUE /\ bufferResource = None /\ filled = FALSE
        /\ requests = 0 /\ posted = <<>> /\ sent = <<>>
    BY DEF ClientInit, CastInit
  <2>2. \A S : <<>> \in Seq(S)
    OBVIOUS
  <2>3. sent \in Seq([type : {"frame", "failed", "cancelled"}, buffer : CastBuffers \cup {None}])
    BY <2>1, <2>2
  <2>4. /\ posted \in Seq({"Success", "Failed"}) /\ Len(posted) <= MaxPosted
        /\ requests \in 0..MaxPosted
    BY <2>1 DEF CastParameters
  <2> QED
    BY <2>1, <2>3, <2>4 DEF CastTypeOK
<1>2. ClientTypeOK
  <2>1. /\ requested = <<>> /\ busy = {} /\ starving = FALSE /\ frameEvents = <<>>
        /\ threadPc = [t \in Threads |-> IF t = "Dispatch" THEN "Record" ELSE "Idle"]
        /\ picked = [t \in Threads |-> None] /\ frame = [t \in Threads |-> None]
    BY DEF ClientInit
  <2>2. requested \in Seq(CastBuffers) /\ frameEvents \in Seq(CastBuffers)
    BY <2>1
  <2> QED
    BY <1>1, <2>1, <2>2 DEF ClientTypeOK
<1>3. CompositorRecords
  BY DEF ClientInit, CastInit, CompositorRecords
<1>4. OneAsks
  BY DEF ClientInit, CastInit, OneAsks, OnItsWay, Threads
<1> QED
  BY <1>2, <1>3, <1>4 DEF ClientInv

\* The first of a sequence is of its elements, and so are the others.
LEMMA HeadAndTail ==
  ASSUME NEW S, NEW q \in Seq(S)
  PROVE  /\ DOMAIN q = 1..Len(q) /\ \A i \in DOMAIN q : q[i] \in S
         /\ q # <<>> => /\ Head(q) = q[1] /\ Head(q) \in S
                       /\ Tail(q) \in Seq(S) /\ Len(Tail(q)) = Len(q) - 1
OBVIOUS

\* Looking for a buffer asks for one, if there is one.
LEMMA LookStep ==
  ASSUME CastParameters, ClientInv, Undisturbed, NEW t \in Threads, LookAndRecord(t)
  PROVE  ClientInv'
<1>1. PICK b \in CastBuffers \cup {None} :
        /\ picked' = [picked EXCEPT ![t] = b]
        /\ requested' = IF b = None THEN requested ELSE Append(requested, b)
  BY DEF LookAndRecord, Free
<1>2. /\ threadPc[t] = "Record" /\ threadPc' = [threadPc EXCEPT ![t] = "Note"]
      /\ UNCHANGED <<castVars, received, busy, starving, frame, frameEvents>>
  BY DEF LookAndRecord
<1>3. ClientTypeOK' /\ CompositorRecords'
  BY <1>1, <1>2 DEF ClientInv, ClientTypeOK, CastTypeOK, CompositorRecords, castVars, serverVars
<1>4. OnItsWay = 0
  BY <1>2 DEF ClientInv, OneAsks, Threads
<1>5. OnItsWay' = IF b = None THEN 0 ELSE 1
  <2>1. /\ requested \in Seq(CastBuffers) /\ received \in Seq([type : {"frame"}, buffer : CastBuffers])
        /\ b # None => b \in CastBuffers
    BY DEF ClientInv, ClientTypeOK, CompositorRecords
  <2>2. Len(requested) = 0 /\ bufferResource = None /\ Len(received) = 0
    BY <1>4, <2>1 DEF OnItsWay
  <2>3. Len(requested') = IF b = None THEN 0 ELSE 1
    BY <1>1, <2>1, <2>2
  <2> QED
    BY <1>2, <2>2, <2>3 DEF OnItsWay, castVars, serverVars
<1> QED
  BY <1>1, <1>2, <1>3, <1>5
  DEF ClientInv, OneAsks, ClientTypeOK, Threads, Undisturbed, CastParameters

\* Noting that it is busy leaves what is on its way.
LEMMA NoteStep ==
  ASSUME CastParameters, ClientInv, NEW t \in Threads, NoteBusy(t),
         t = "Dispatch" => Undisturbed
  PROVE  ClientInv'
<1>1. /\ threadPc[t] = "Note" /\ UNCHANGED <<castVars, requested, received>>
      /\ starving' = (picked[t] = None) /\ busy' = busy \cup ({picked[t]} \ {None})
      /\ picked' = [picked EXCEPT ![t] = None]
      /\ threadPc' = [threadPc EXCEPT ![t] = IF t = "Dispatch" THEN "Idle" ELSE "Pass"]
      /\ frame' = IF t = "Dispatch" THEN [frame EXCEPT ![t] = None] ELSE frame
      /\ frameEvents' = IF t = "Dispatch" /\ frame[t] # None
                        THEN Append(frameEvents, frame[t]) ELSE frameEvents
  BY DEF NoteBusy
<1>2. ClientTypeOK' /\ CompositorRecords' /\ OnItsWay' = OnItsWay
  BY <1>1 DEF ClientInv, ClientTypeOK, CastTypeOK, CompositorRecords, OnItsWay, castVars,
              serverVars
<1> QED
  BY <1>1, <1>2
  DEF ClientInv, OneAsks, ClientTypeOK, Threads, Undisturbed, CastParameters

\* A frame that arrives makes the dispatching thread ask for the next one.
LEMMA ReceiveStep ==
  ASSUME CastParameters, ClientInv, Undisturbed, ReceiveFrame \/ ReceiveOther
  PROVE  ClientInv'
<1>1. received # <<>> /\ received \in Seq([type : {"frame"}, buffer : CastBuffers])
  BY DEF ReceiveFrame, ReceiveOther, ClientInv, CompositorRecords
<1>2. Head(received).type = "frame" /\ Head(received).buffer \in CastBuffers
  <2>1. Head(received) \in [type : {"frame"}, buffer : CastBuffers]
    BY <1>1, HeadAndTail
  <2> QED
    BY <2>1
<1>3. /\ threadPc["Dispatch"] = "Idle"
      /\ received' = Tail(received)
      /\ frame' = [frame EXCEPT !["Dispatch"] = Head(received).buffer]
      /\ threadPc' = [threadPc EXCEPT !["Dispatch"] = "Record"]
      /\ UNCHANGED <<castVars, requested, busy, starving, picked, frameEvents>>
  BY <1>2 DEF ReceiveFrame, ReceiveOther
<1>4. received' \in Seq([type : {"frame"}, buffer : CastBuffers]) /\ Len(received') = Len(received) - 1
  BY <1>1, <1>3
<1>5. ClientTypeOK' /\ CompositorRecords'
  BY <1>2, <1>3, <1>4
  DEF ClientInv, ClientTypeOK, CastTypeOK, CompositorRecords, castVars, serverVars
<1>6. OnItsWay' = OnItsWay - 1 /\ OnItsWay > 0
  <2>1. requested \in Seq(CastBuffers)
    BY DEF ClientInv, ClientTypeOK
  <2> QED
    BY <1>1, <1>3, <1>4, <2>1 DEF OnItsWay, castVars, serverVars
<1>7. threadPc["Handler"] # "Note"
  BY DEF CastParameters, Undisturbed
<1>8. OnItsWay = 1 /\ ~starving
  BY <1>3, <1>6, <1>7 DEF ClientInv, OneAsks
<1>9. threadPc'["Handler"] = threadPc["Handler"] /\ threadPc'["Dispatch"] = "Record"
  BY <1>3 DEF ClientInv, ClientTypeOK, Threads
<1> QED
  BY <1>3, <1>5, <1>6, <1>8, <1>9 DEF ClientInv, OneAsks

\* The handler leaves what is on its way, too.
LEMMA HandlerStep ==
  ASSUME CastParameters, ClientInv, HandleFrame \/ CheckStarving \/ PassFrame
  PROVE  ClientInv'
<1>1. /\ threadPc["Handler"] \in {"Idle", "Check", "Pass"}
      /\ UNCHANGED <<castVars, requested, received, starving, picked>>
  BY DEF HandleFrame, CheckStarving, PassFrame
<1>2. /\ threadPc' = [threadPc EXCEPT !["Handler"] = threadPc'["Handler"]]
      /\ threadPc'["Handler"] \in {"Check", "Pass", "Idle"} \cup IF starving THEN {"Record"} ELSE {}
  BY DEF HandleFrame, CheckStarving, PassFrame, ClientInv, ClientTypeOK, Threads
<1>3. frameEvents' \in Seq(CastBuffers) /\ busy' \subseteq CastBuffers
      /\ frame' \in [Threads -> CastBuffers \cup {None}]
  <2>1. /\ frameEvents \in Seq(CastBuffers) /\ busy \subseteq CastBuffers
        /\ frame \in [Threads -> CastBuffers \cup {None}]
    BY DEF ClientInv, ClientTypeOK
  <2>2. CASE HandleFrame
    <3>1. Head(frameEvents) \in CastBuffers /\ Tail(frameEvents) \in Seq(CastBuffers)
      BY <2>1, <2>2, HeadAndTail DEF HandleFrame
    <3> QED
      BY <2>1, <2>2, <3>1 DEF HandleFrame
  <2>3. CASE CheckStarving \/ PassFrame
    BY <2>1, <2>3 DEF CheckStarving, PassFrame
  <2> QED
    BY <2>2, <2>3
<1>4. ClientTypeOK' /\ CompositorRecords' /\ OnItsWay' = OnItsWay
  BY <1>1, <1>2, <1>3 DEF ClientInv, ClientTypeOK, CastTypeOK, CompositorRecords, OnItsWay,
                          castVars, serverVars, Threads
<1> QED
  BY <1>1, <1>2, <1>4 DEF ClientInv, OneAsks, ClientTypeOK, Threads

\* The compositor takes a request, records it, and answers with its buffer.
LEMMA ServerRecordStep ==
  ASSUME CastParameters, ClientInv, ServerRecord
  PROVE  ClientInv'
<1>1. /\ requested # <<>> /\ Record(Head(requested)) /\ requested' = Tail(requested)
      /\ received' = received \o sent'
      /\ UNCHANGED <<busy, starving, threadPc, picked, frame, frameEvents>>
  BY DEF ServerRecord
<1>2. /\ requested \in Seq(CastBuffers) /\ received \in Seq([type : {"frame"}, buffer : CastBuffers])
      /\ posted \in Seq({"Success", "Failed"}) /\ requests \in Nat
  BY DEF ClientInv, ClientTypeOK, CastTypeOK, CompositorRecords
<1>3. Head(requested) \in CastBuffers /\ requested' \in Seq(CastBuffers)
      /\ Len(requested') = Len(requested) - 1 /\ Len(requested) >= 1
  BY <1>1, <1>2
<1>4. bufferResource = None
  <2>1. OnItsWay \in {0, 1}
    BY DEF ClientInv, OneAsks
  <2> QED
    BY <1>2, <1>3, <2>1 DEF OnItsWay
<1>5. /\ sent' = <<>> /\ bufferResource' = Head(requested) /\ requests' = requests + 1
      /\ filled' = FALSE /\ UNCHANGED <<object, connected, posted>>
  <2>1. (<<>> \o <<>>) = <<>>
    OBVIOUS
  <2> QED
    BY <1>1, <1>4, <2>1 DEF Record, CastParameters
<1>6. received' = received
  BY <1>1, <1>2, <1>5
<1>7. requests = 0 /\ Len(posted) = 0
  BY <1>2, <1>4 DEF ClientInv, CompositorRecords
<1>8. bufferResource' \in CastBuffers /\ bufferResource' # None
  BY <1>3, <1>5 DEF CastParameters
<1>9. ClientTypeOK' /\ CompositorRecords'
  <2>1. sent' \in Seq([type : {"frame", "failed", "cancelled"}, buffer : CastBuffers \cup {None}])
    BY <1>5
  <2>2. CastTypeOK'
    <3>1. bufferResource' \in (CastBuffers \ Unusable) \cup {None} /\ requests' \in 0..MaxPosted
      BY <1>5, <1>7, <1>8 DEF CastParameters
    <3>2. /\ object' \in {"Valid", "Destroyed", "Deleted"} /\ connected' \in BOOLEAN
          /\ posted' \in Seq({"Success", "Failed"}) /\ Len(posted') <= MaxPosted
          /\ filled' \in BOOLEAN
      BY <1>5 DEF ClientInv, ClientTypeOK, CastTypeOK
    <3> QED
      BY <2>1, <3>1, <3>2 DEF CastTypeOK
  <2>3. ClientTypeOK'
    BY <1>1, <1>3, <2>2 DEF ClientInv, ClientTypeOK
  <2>4. CompositorRecords'
    BY <1>5, <1>6, <1>7, <1>8 DEF ClientInv, CompositorRecords
  <2> QED
    BY <2>3, <2>4
<1>10. OnItsWay' = OnItsWay
  BY <1>2, <1>3, <1>4, <1>6, <1>8 DEF OnItsWay
<1> QED
  BY <1>1, <1>9, <1>10 DEF ClientInv, OneAsks

LEMMA ServerStepKeeps ==
  ASSUME CastParameters, ClientInv, ServerStep
  PROVE  ClientInv'
<1>1. /\ RecordFrame \/ HandleEvent
      /\ received' = received \o sent'
      /\ UNCHANGED <<requested, busy, starving, threadPc, picked, frame, frameEvents>>
  BY DEF ServerStep
<1>2. /\ requested \in Seq(CastBuffers) /\ received \in Seq([type : {"frame"}, buffer : CastBuffers])
      /\ posted \in Seq({"Success", "Failed"}) /\ requests \in Nat
      /\ object = "Valid" /\ connected /\ bufferResource \in CastBuffers \cup {None}
      /\ \A i \in DOMAIN posted : posted[i] = "Success"
      /\ requests + Len(posted) = (IF bufferResource # None THEN 1 ELSE 0)
  BY DEF ClientInv, ClientTypeOK, CastTypeOK, CompositorRecords
<1>3. CASE RecordFrame
  <2>1. requests = 1 /\ posted = <<>> /\ bufferResource # None
    BY <1>2, <1>3 DEF RecordFrame
  <2>2. /\ posted' = posted \o [i \in 1..requests |-> "Success"]
        /\ requests' = 0 /\ sent' = <<>> /\ filled' = TRUE
        /\ UNCHANGED <<object, connected, bufferResource>>
    BY <1>2, <1>3, <2>1 DEF RecordFrame, CastParameters
  <2>3. posted' = <<"Success">>
    <3>1. [i \in 1..1 |-> "Success"] = <<"Success">>
      OBVIOUS
    <3> QED
      BY <2>1, <2>2, <3>1
  <2>4. received' = received
    BY <1>1, <1>2, <2>2
  <2>5. /\ posted' \in Seq({"Success", "Failed"}) /\ Len(posted') = 1 /\ Len(posted') <= MaxPosted
        /\ \A i \in DOMAIN posted' : posted'[i] = "Success"
    BY <2>3 DEF CastParameters
  <2>6. ClientTypeOK' /\ CompositorRecords'
    BY <1>1, <2>1, <2>2, <2>4, <2>5
    DEF CastParameters, ClientInv, ClientTypeOK, CastTypeOK, CompositorRecords
  <2>7. OnItsWay' = OnItsWay
    BY <1>1, <2>2, <2>4 DEF OnItsWay
  <2> QED
    BY <1>1, <2>6, <2>7 DEF ClientInv, OneAsks
<1>4. CASE HandleEvent
  <2>1. posted # <<>> /\ Len(posted) = 1 /\ requests = 0 /\ bufferResource # None
    BY <1>2, <1>4 DEF HandleEvent
  <2>2. Head(posted) = "Success" /\ Tail(posted) = <<>>
    <3>1. /\ 1 \in DOMAIN posted /\ Head(posted) = posted[1]
          /\ Tail(posted) \in Seq({"Success", "Failed"}) /\ Len(Tail(posted)) = 0
      BY <1>2, <2>1, HeadAndTail
    <3> QED
      BY <1>2, <3>1
  <2>3. /\ posted' = <<>> /\ sent' = <<Event("frame", bufferResource)>>
        /\ bufferResource' = None /\ filled' = FALSE
        /\ UNCHANGED <<object, connected, requests>>
    BY <1>2, <1>4, <2>2 DEF HandleEvent
  <2>4. Event("frame", bufferResource) \in [type : {"frame"}, buffer : CastBuffers]
    BY <1>2, <2>1 DEF Event
  <2>5. /\ received' \in Seq([type : {"frame"}, buffer : CastBuffers])
        /\ Len(received') = Len(received) + 1
    BY <1>1, <1>2, <2>3, <2>4
  <2>6. sent' \in Seq([type : {"frame", "failed", "cancelled"}, buffer : CastBuffers \cup {None}])
    BY <2>3, <2>4
  <2>7. ClientTypeOK' /\ CompositorRecords'
    <3>1. CastTypeOK'
      <4>1. /\ bufferResource' \in (CastBuffers \ Unusable) \cup {None} /\ requests' \in 0..MaxPosted
            /\ posted' \in Seq({"Success", "Failed"}) /\ Len(posted') <= MaxPosted
        BY <2>1, <2>3 DEF CastParameters
      <4>2. /\ object' \in {"Valid", "Destroyed", "Deleted"} /\ connected' \in BOOLEAN
            /\ filled' \in BOOLEAN
        BY <1>2, <2>3
      <4> QED
        BY <2>6, <4>1, <4>2 DEF CastTypeOK
    <3>2. ClientTypeOK'
      BY <1>1, <3>1 DEF ClientInv, ClientTypeOK
    <3>3. CompositorRecords'
      BY <1>2, <2>1, <2>3, <2>5 DEF ClientInv, CompositorRecords
    <3> QED
      BY <3>2, <3>3
  <2>8. OnItsWay' = OnItsWay
    BY <1>1, <1>2, <2>1, <2>3, <2>5 DEF OnItsWay
  <2> QED
    BY <1>1, <2>7, <2>8 DEF ClientInv, OneAsks
<1> QED
  BY <1>1, <1>3, <1>4

LEMMA ClientInvNext ==
  ASSUME CastParameters, ClientInv, [ClientNext]_allVars
  PROVE  ClientInv'
<1>1. CASE UNCHANGED allVars
  BY <1>1 DEF ClientInv, ClientTypeOK, CastTypeOK, CompositorRecords, OneAsks, OnItsWay,
              allVars, clientVars, castVars, serverVars
<1>2. CASE NoteBusy("Handler")
  BY <1>2, NoteStep DEF Threads
<1>3. ASSUME Undisturbed, NoteBusy("Dispatch")
      PROVE  ClientInv'
  BY <1>3, NoteStep DEF Threads
<1> QED
  BY <1>1, <1>2, <1>3, LookStep, ReceiveStep, HandlerStep, ServerRecordStep, ServerStepKeeps
  DEF ClientNext

\* Every variable of the client library and of the compositor that records for it
\* keeps its type: requests and posted events do not pile up.
THEOREM ClientTypeCorrect ==
  ASSUME CastParameters
  PROVE  ClientSpec => []ClientTypeOK
<1>1. ClientInit => ClientInv
  BY ClientInvInit
<1>2. ClientInv /\ [ClientNext]_allVars => ClientInv'
  BY ClientInvNext
<1>3. ClientInv => ClientTypeOK
  BY DEF ClientInv
<1> QED
  BY <1>1, <1>2, <1>3, PTL DEF ClientSpec

\* However the two threads of the library, the connection and the compositor
\* interleave: the client waits for one buffer at a time, each answer is a frame
\* that names its buffer, and a buffer that is waited for is not forgotten.
THEOREM BuffersAreAccounted ==
  ASSUME CastParameters
  PROVE  ClientSpec => []BuffersAccounted
<1>1. ClientInit => ClientInv
  BY ClientInvInit
<1>2. ClientInv /\ [ClientNext]_allVars => ClientInv'
  BY ClientInvNext
<1>3. ClientInv => BuffersAccounted
  <2> SUFFICES ASSUME ClientInv
               PROVE  BuffersAccounted
    OBVIOUS
  <2>1. NeverForgotten
    BY DEF ClientInv, CompositorRecords, ClientTypeOK, CastTypeOK, NeverForgotten
  <2>2. OnItsWay <= 1
    BY DEF ClientInv, OneAsks
  <2>3. \A i \in DOMAIN received : received[i] \in [type : {"frame"}, buffer : CastBuffers]
    BY HeadAndTail DEF ClientInv, CompositorRecords
  <2> QED
    BY <2>1, <2>2, <2>3 DEF BuffersAccounted, OneAtATime, OnItsWay, CastParameters
<1> QED
  BY <1>1, <1>2, <1>3, PTL DEF ClientSpec
=============================================================================
