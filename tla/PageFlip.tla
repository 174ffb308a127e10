------------------------------ MODULE PageFlip ------------------------------
(***************************************************************************)
(* Page flips of the KMS plugin.  Each screen has a render thread, which   *)
(* waits for its last flip, renders into a buffer of the screen's GBM      *)
(* surface and asks the kernel to flip to it.  Who waits reads the events  *)
(* of the device, which are those of all screens, under a mutex that all   *)
(* screens share.  The main thread changes modes and power states, and     *)
(* suspends the screens while another session has the virtual terminal.    *)
(***************************************************************************)
EXTENDS Null, Naturals, Sequences

CONSTANTS Screens,
          Windowed,  \* those that have a window, and with it a render thread
          Changing,  \* those whose mode and power state are changed
          Buffers,   \* the buffers of each GBM surface
          MaxSwitches,  \* bound on the switches of the virtual terminal
          FlipsFail  \* may the kernel refuse a flip for reasons of its own?

Main == "Main"

VARIABLES
  pc,          \* where each render thread is in swapBuffers()
  mainPc,      \* where the main thread is in activeChanged(true), on which screen
  mutex,       \* who holds m_waitForFlipMutex
  current,     \* m_gbm_bo_current
  next,        \* m_gbm_bo_next
  locked,      \* buffers of each GBM surface that are locked
  front,       \* the buffer swapped last, until it is locked
  suspended,   \* m_suspend
  powered,     \* is m_powerState PowerStateOn?
  modePending, \* m_pendingMode >= 0
  modeSet,     \* mode_set
  vtActive,
  switches,    \* of the virtual terminal so far
  active,      \* m_active of the interrupt handlers
  flipping,    \* kernel: the buffer of the flip under way
  shown,       \* kernel: the buffer on the screen, None if it is not ours
  events       \* kernel: finished flips nobody has read

bufferVars == <<current, next, locked, front>>
mainVars   == <<mainPc, vtActive, switches, active, suspended>>
modeVars   == <<powered, modePending, modeSet>>
kernelVars == <<flipping, shown, events>>
vars == <<pc, mutex, bufferVars, mainVars, modeVars, kernelVars>>

-----------------------------------------------------------------------------
(* What both threads do *)

\* (Mutant) The buffer that comes on is given back, not the one that goes.
FlipFinishedEarly(s) ==
  /\ locked' = [locked EXCEPT ![s] = @ \ {next[s]}]
  /\ current' = [current EXCEPT ![s] = next[s]]
  /\ next' = [next EXCEPT ![s] = None]

\* flipFinished()
FlipFinished(s) ==
  /\ locked' = [locked EXCEPT ![s] = @ \ {current[s]}]
  /\ current' = [current EXCEPT ![s] = next[s]]
  /\ next' = [next EXCEPT ![s] = None]

\* The kernel is asked to flip to the front buffer.  It refuses while an
\* earlier flip is under way; what was locked is released then.
QueueFlip(s) ==
  \/ /\ flipping[s] = None
     /\ flipping' = [flipping EXCEPT ![s] = front[s]]
     /\ next' = [next EXCEPT ![s] = front[s]]
     /\ locked' = [locked EXCEPT ![s] = @ \cup {front[s]}]
  \/ /\ flipping[s] # None \/ FlipsFail
     /\ next' = [next EXCEPT ![s] = None]
     /\ UNCHANGED <<flipping, locked>>

\* flip() after the checks.  The first flip of a mode sets it, which shows the
\* buffer at once and switches the screen on.
Flip(s) ==
  IF front[s] = None
  THEN /\ next' = [next EXCEPT ![s] = None]
       /\ UNCHANGED <<current, locked, front, modeVars, kernelVars>>
  ELSE /\ QueueFlip(s)
       /\ shown' = IF modeSet[s] THEN shown ELSE [shown EXCEPT ![s] = front[s]]
       /\ modeSet' = [modeSet EXCEPT ![s] = TRUE]
       /\ powered' = IF modeSet[s] THEN powered ELSE [powered EXCEPT ![s] = TRUE]
       /\ front' = [front EXCEPT ![s] = None]
       /\ UNCHANGED <<current, modePending, events>>

-----------------------------------------------------------------------------
(* A render thread in swapBuffers() *)

Goto(s, there) == pc' = [pc EXCEPT ![s] = there]

\* waitForFlip() up to the mutex.
WaitForFlip(s) ==
  /\ pc[s] = "Wait"
  /\ Goto(s, IF next[s] = None \/ suspended[s] THEN "Swap" ELSE "Lock")
  /\ UNCHANGED <<mutex, bufferVars, mainVars, modeVars, kernelVars>>

Lock(s) ==
  /\ pc[s] = "Lock"
  /\ mutex = None
  /\ mutex' = s
  /\ Goto(s, "Handle")
  /\ UNCHANGED <<bufferVars, mainVars, modeVars, kernelVars>>

\* handleDrmEvent(), which blocks until there is an event; it may be the one
\* of another screen.  What has come is read at once, and handled one by one.
HandleDrmEvent(s) ==
  /\ pc[s] = "Handle"
  /\ next[s] # None
  /\ events # <<>>
  /\ FlipFinished(Head(events))
  /\ events' = Tail(events)
  /\ UNCHANGED <<pc, mutex, front, mainVars, modeVars, flipping, shown>>

\* (Mutant) The mutex is not unlocked.
StopWaitingLocked(s) ==
  /\ pc[s] = "Handle"
  /\ next[s] = None
  /\ Goto(s, "Swap")
  /\ UNCHANGED <<mutex, bufferVars, mainVars, modeVars, kernelVars>>

\* The loop of waitForFlip() ends.
StopWaiting(s) ==
  /\ pc[s] = "Handle"
  /\ next[s] = None
  /\ mutex' = None
  /\ Goto(s, "Swap")
  /\ UNCHANGED <<bufferVars, mainVars, modeVars, kernelVars>>

\* resizeSurface(): the buffers of the old mode are destroyed, and with the
\* one on the screen the kernel switches it off.
ResizeSurface(s) ==
  /\ pc[s] = "Swap"
  /\ modePending[s]
  /\ Goto(s, "Resized")
  /\ modePending' = [modePending EXCEPT ![s] = FALSE]
  /\ modeSet' = [modeSet EXCEPT ![s] = FALSE]
  /\ current' = [current EXCEPT ![s] = None]
  /\ next' = [next EXCEPT ![s] = None]
  /\ locked' = [locked EXCEPT ![s] = {}]
  /\ front' = [front EXCEPT ![s] = None]
  /\ shown' = [shown EXCEPT ![s] = None]
  /\ UNCHANGED <<mutex, mainVars, powered, flipping, events>>

\* eglSwapBuffers(): a buffer that is not locked was rendered into and becomes
\* the front buffer, if there is one.
SwapBuffers(s) ==
  /\ pc[s] = "Resized" \/ (pc[s] = "Swap" /\ ~modePending[s])
  /\ IF Buffers \subseteq locked[s] THEN UNCHANGED front
     ELSE \E b \in Buffers \ locked[s] : front' = [front EXCEPT ![s] = b]
  /\ Goto(s, "Flip")
  /\ UNCHANGED <<mutex, current, next, locked, mainVars, modeVars, kernelVars>>

\* flip() looks whether the screen is on and the session active, ...
CheckFlip(s) ==
  /\ pc[s] = "Flip"
  /\ Goto(s, IF powered[s] /\ ~suspended[s] THEN "Queue" ELSE "Wait")
  /\ UNCHANGED <<mutex, bufferVars, mainVars, modeVars, kernelVars>>

\* ... and flips.
RenderFlip(s) ==
  /\ pc[s] = "Queue"
  /\ Flip(s)
  /\ Goto(s, "Wait")
  /\ UNCHANGED <<mutex, mainVars>>

Render(s) ==
  \/ WaitForFlip(s) \/ Lock(s) \/ HandleDrmEvent(s) \/ StopWaiting(s)
  \/ ResizeSurface(s) \/ SwapBuffers(s) \/ CheckFlip(s) \/ RenderFlip(s)

-----------------------------------------------------------------------------
(* The main thread *)

Idle == [step |-> "Idle", screen |-> None]

SetPowerState(s) ==
  /\ mainPc = Idle
  /\ powered' = [powered EXCEPT ![s] = ~@]
  /\ UNCHANGED <<pc, mutex, bufferVars, mainVars, modePending, modeSet, kernelVars>>

SetCurrentMode(s) ==
  /\ mainPc = Idle
  /\ ~modePending[s]
  /\ modePending' = [modePending EXCEPT ![s] = TRUE]
  /\ UNCHANGED <<pc, mutex, bufferVars, mainVars, powered, modeSet, kernelVars>>

\* VtHandler emits activeChanged() when all handlers are through with the last.
SwitchVt ==
  /\ switches < MaxSwitches
  /\ mainPc = Idle
  /\ \A s \in Screens : active[s] = vtActive
  /\ vtActive' = ~vtActive
  /\ switches' = switches + 1
  /\ UNCHANGED <<pc, mutex, bufferVars, mainPc, active, suspended, modeVars, kernelVars>>

\* activeChanged(false): suspend() and restoreMode().  suspend() takes the
\* mutex if it is free, and nothing gives it back.
Suspend(s) ==
  /\ mainPc = Idle
  /\ ~vtActive /\ active[s]
  /\ active' = [active EXCEPT ![s] = FALSE]
  /\ suspended' = [suspended EXCEPT ![s] = TRUE]
  /\ mutex' = IF mutex = None THEN Main ELSE mutex
  /\ modeSet' = [modeSet EXCEPT ![s] = FALSE]
  /\ shown' = IF modeSet[s] THEN [shown EXCEPT ![s] = None] ELSE shown
  /\ UNCHANGED <<pc, bufferVars, mainPc, vtActive, switches, powered, modePending,
                 flipping, events>>

\* activeChanged(true): flipFinished(), ...
ResumeFinish(s) ==
  /\ mainPc = Idle
  /\ vtActive /\ ~active[s]
  /\ active' = [active EXCEPT ![s] = TRUE]
  /\ FlipFinished(s)
  /\ mainPc' = [step |-> "Resume", screen |-> s]
  /\ UNCHANGED <<pc, mutex, front, vtActive, switches, suspended, modeVars, kernelVars>>

\* ... resume(), ...
Resume(s) ==
  /\ mainPc = [step |-> "Resume", screen |-> s]
  /\ suspended' = [suspended EXCEPT ![s] = FALSE]
  /\ mainPc' = [step |-> "Flip", screen |-> s]
  /\ UNCHANGED <<pc, mutex, bufferVars, vtActive, switches, active, modeVars, kernelVars>>

\* ... and flip().
ResumeFlip(s) ==
  /\ mainPc = [step |-> "Flip", screen |-> s]
  /\ IF powered[s] THEN Flip(s) ELSE UNCHANGED <<bufferVars, modeVars, kernelVars>>
  /\ mainPc' = Idle
  /\ UNCHANGED <<pc, mutex, vtActive, switches, active, suspended>>

\* The handlers of a vt that was switched.
HandleVt(s) == Suspend(s) \/ ResumeFinish(s) \/ Resume(s) \/ ResumeFlip(s)

-----------------------------------------------------------------------------
(* The kernel *)

\* The next vertical blank.
FlipDone(s) ==
  /\ flipping[s] # None
  /\ shown' = IF modeSet[s] THEN [shown EXCEPT ![s] = flipping[s]] ELSE shown
  /\ flipping' = [flipping EXCEPT ![s] = None]
  /\ events' = Append(events, s)
  /\ UNCHANGED <<pc, mutex, bufferVars, mainVars, modeVars>>

-----------------------------------------------------------------------------

Init ==
  /\ pc = [s \in Screens |-> "Wait"] /\ mainPc = Idle /\ mutex = None
  /\ current = [s \in Screens |-> None] /\ next = [s \in Screens |-> None]
  /\ locked = [s \in Screens |-> {}] /\ front = [s \in Screens |-> None]
  /\ suspended = [s \in Screens |-> FALSE] /\ powered = [s \in Screens |-> TRUE]
  /\ modePending = [s \in Screens |-> FALSE] /\ modeSet = [s \in Screens |-> FALSE]
  /\ vtActive = TRUE /\ switches = 0
  /\ active = [s \in Screens |-> TRUE]
  /\ flipping = [s \in Screens |-> None] /\ shown = [s \in Screens |-> None]
  /\ events = <<>>

Next ==
  \/ \E s \in Windowed : Render(s)
  \/ \E s \in Screens : FlipDone(s) \/ HandleVt(s)
  \/ \E s \in Changing : SetPowerState(s) \/ SetCurrentMode(s)
  \/ SwitchVt

Spec == Init /\ [][Next]_vars

\* The threads run, and flips finish.  A thread that asks for the mutex again
\* and again gets it: its rivals render a frame before they ask again.
Fairness ==
  /\ \A s \in Windowed : WF_vars(Render(s)) /\ SF_vars(Lock(s))
  /\ \A s \in Screens : WF_vars(FlipDone(s)) /\ WF_vars(HandleVt(s))

FairSpec == Spec /\ Fairness

-----------------------------------------------------------------------------

TypeOK ==
  /\ pc \in [Screens -> {"Wait", "Lock", "Handle", "Swap", "Resized", "Flip", "Queue"}]
  /\ mutex \in Screens \cup {Main, None}
  /\ {current, next, front, flipping, shown} \subseteq [Screens -> Buffers \cup {None}]
  /\ locked \in [Screens -> SUBSET Buffers]
  /\ {suspended, powered, modePending, modeSet, active} \subseteq [Screens -> BOOLEAN]
  /\ vtActive \in BOOLEAN /\ switches \in 0..MaxSwitches
  /\ events \in Seq(Screens)

\* Nobody renders into a buffer that is on the screen or about to be, whatever
\* thread handles the events of a screen; and the buffers that are locked are
\* the two that will be released: none is lost.  (Until the virtual terminal
\* is switched, and as long as the kernel refuses no flip.)
ScanoutIsStable ==
  switches = 0 => \A s \in Screens :
    /\ {shown[s], flipping[s]} \ {None} \subseteq locked[s]
    /\ locked[s] = {current[s], next[s]} \ {None}

\* A thread that waits for its flip goes on while the session is active,
\* whoever reads its event and whatever other screens wait for.
KeepsPainting ==
  \A s \in Screens :
    pc[s] = "Lock" /\ vtActive ~> pc[s] = "Swap" \/ ~vtActive
=============================================================================
