--------------------------- MODULE FrameCallbacks ---------------------------
(***************************************************************************)
(* Which output shows which surface, and when the client is told to draw.  *)
(*                                                                         *)
(* A scene item has a QWaylandView; the view shows a surface on the output *)
(* whose window the item is in.  The surface lists its views, the first is *)
(* the throttling view; the output lists per surface the views it shows.    *)
(* A commit schedules a frame on the windows of the items; when a window   *)
(* starts a frame (render thread, GUI thread blocked) the frame callbacks  *)
(* of the surfaces it throttles are marked, and a call that sends them is  *)
(* queued to the GUI thread, where anything may come first.                *)
(***************************************************************************)
EXTENDS Naturals, FiniteSets, Sequences, SequencesExt

CONSTANTS Surfaces, Views, Outputs,
          MaxCallbacks,  \* bound on the frame requests
          MaxQueued,     \* bound on the calls queued per output
          StableViews,   \* do items stay in their window, with their surface?
          BindsFirst,    \* does the client bind every wl_output at once?
          Automatic,     \* outputs that send frame callbacks by themselves: the
                         \* queued call does nothing for others, and is not counted
          None

ASSUME BoundsAssumption == MaxCallbacks \in Nat /\ MaxQueued \in Nat
ASSUME BehaviourAssumption ==
  {StableViews, BindsFirst} \subseteq BOOLEAN /\ Automatic \subseteq Outputs
ASSUME NoneAssumption == None \notin Surfaces \cup Views \cup Outputs

VARIABLES
  alive, mapped,
  views,          \* the views of a surface, in order
  viewSurface, viewOutput,
  window,         \* the output of the window that the view's item is in
  surfaceViews,   \* of an output: its entry for each surface
  bound,          \* outputs that the client has a wl_output for
  entered,        \* outputs the client believes a surface to be on
  pendingFrameCallbacks, frameCallbacks,
  frames,         \* frame requests so far: their numbers are their names
  done,           \* the callbacks of a surface that were sent, in order
  scheduled,      \* outputs whose window will draw a frame
  queued          \* calls of doFrameCallbacks() on their way

surfaceVars == <<alive, mapped, views>>
viewVars == <<viewSurface, viewOutput, window>>
callbackVars == <<pendingFrameCallbacks, frameCallbacks, frames, done>>
vars == <<surfaceVars, viewVars, surfaceViews, bound, entered, callbackVars,
          scheduled, queued>>

NoEntry == [views |-> {}, has_entered |-> FALSE]

\* The entries of q at the positions in S, in their order.
Entries(q, S) ==
  [k \in 1..Cardinality(S) |->
     q[CHOOSE i \in S : Cardinality({j \in S : j <= i}) = k]]

-----------------------------------------------------------------------------
(* What an output shows: sv is a value of surfaceViews *)

AddView(sv, o, v, s) ==
  IF None \in {o, s} THEN sv ELSE [sv EXCEPT ![o][s].views = @ \cup {v}]

\* What removing the views vs leaves of an entry.
EntryWithout(entry, vs) ==
  IF entry.views # {} /\ entry.views \subseteq vs THEN NoEntry
  ELSE [entry EXCEPT !.views = @ \ vs]

RemoveView(sv, o, v, s) ==
  IF None \in {o, s} THEN sv
  ELSE [sv EXCEPT ![o][s] = EntryWithout(@, {v})]

\* Removing the last view of an entry that was entered sends leave.
StillEntered(sv) ==
  [s \in Surfaces |->
     entered[s] \ {o \in Outputs : /\ surfaceViews[o][s].has_entered
                                   /\ ~sv[o][s].has_entered}]

\* maybeThrottelingView(): does o show the throttling view of s?
Throttles(o, s) == views[s] # <<>> /\ Head(views[s]) \in surfaceViews[o][s].views

\* (Mutant) The output keeps the view under its old surface.
ShowKeepingEntry(v, s, out) ==
  /\ viewSurface' = [viewSurface EXCEPT ![v] = s]
  /\ viewOutput' = [viewOutput EXCEPT ![v] = out]
  /\ surfaceViews' = AddView(surfaceViews, out, v, s)
  /\ entered' = StillEntered(surfaceViews')

\* The view shows s (setSurface) and then does so on out (setOutput).
Show(v, s, out) ==
  LET old == viewOutput[v]
      moved == IF s = viewSurface[v] THEN surfaceViews
               ELSE AddView(RemoveView(surfaceViews, old, v, viewSurface[v]), old, v, s) IN
  /\ viewSurface' = [viewSurface EXCEPT ![v] = s]
  /\ viewOutput' = [viewOutput EXCEPT ![v] = out]
  /\ surfaceViews' = IF out = old THEN moved
                     ELSE AddView(RemoveView(moved, old, v, s), out, v, s)
  /\ entered' = StillEntered(surfaceViews')

\* handleSurfaceChanged() moves the view to the output of the item's window.
OutputWith(v, s) ==
  IF s # None /\ window[v] # None THEN window[v] ELSE viewOutput[v]

ViewsWithout(v) ==
  [s \in Surfaces |-> Entries(views[s], {i \in DOMAIN views[s] : views[s][i] # v})]

-----------------------------------------------------------------------------
(* The scene *)

\* QWaylandQuickItem::setSurface().
SetSurface(v, s) ==
  /\ s \in alive \cup {None}
  /\ s # viewSurface[v]
  /\ StableViews => window[v] # None /\ viewSurface[v] = None
  /\ Show(v, s, OutputWith(v, s))
  /\ views' = IF s = None THEN ViewsWithout(v)
              ELSE [ViewsWithout(v) EXCEPT ![s] = Append(@, v)]
  /\ scheduled' = scheduled \cup ({window[v]} \ {None})
  /\ UNCHANGED <<alive, mapped, window, bound, callbackVars, queued>>

\* The item moves to another window, or to none; updateWindow().
SetWindow(v, o) ==
  /\ o # window[v]
  /\ StableViews => window[v] = None
  /\ window' = [window EXCEPT ![v] = o]
  /\ scheduled' = scheduled \cup ({o} \ {None})
  /\ \/ /\ None \in {o, viewSurface[v]}
        /\ UNCHANGED <<viewSurface, viewOutput, surfaceViews, entered>>
     \/ /\ None \notin {o, viewSurface[v]}
        /\ Show(v, viewSurface[v], o)
  /\ UNCHANGED <<surfaceVars, bound, callbackVars, queued>>

SetThrottlingView(s, v) ==
  /\ ~StableViews
  /\ s \in alive
  /\ views' = [ViewsWithout(v) EXCEPT ![s] = <<v>> \o @]
  /\ \/ /\ viewSurface[v] = s
        /\ UNCHANGED <<viewSurface, viewOutput, surfaceViews, entered>>
     \/ /\ viewSurface[v] # s
        /\ Show(v, s, OutputWith(v, s))
  /\ UNCHANGED <<alive, mapped, window, bound, callbackVars, scheduled, queued>>

\* The item goes with its view; another may come in its place.
DestroyView(v) ==
  /\ ~StableViews
  /\ surfaceViews' = RemoveView(surfaceViews, viewOutput[v], v, viewSurface[v])
  /\ entered' = StillEntered(surfaceViews')
  /\ views' = ViewsWithout(v)
  /\ viewSurface' = [viewSurface EXCEPT ![v] = None]
  /\ viewOutput' = [viewOutput EXCEPT ![v] = None]
  /\ window' = [window EXCEPT ![v] = None]
  /\ UNCHANGED <<alive, mapped, bound, callbackVars, scheduled, queued>>

-----------------------------------------------------------------------------
(* The client *)

CreateSurface(s) ==
  /\ s \notin alive
  /\ BindsFirst => bound = Outputs
  /\ alive' = alive \cup {s}
  /\ done' = [done EXCEPT ![s] = <<>>]
  /\ UNCHANGED <<mapped, views, viewVars, surfaceViews, bound, entered,
                 pendingFrameCallbacks, frameCallbacks, frames, scheduled, queued>>

\* (Mutant) The surface stays mapped.
DestroySurfaceStillMapped(s) ==
  /\ s \in alive
  /\ alive' = alive \ {s}
  /\ views' = [views EXCEPT ![s] = <<>>]
  /\ viewSurface' = [v \in Views |-> IF viewSurface[v] = s THEN None ELSE viewSurface[v]]
  /\ surfaceViews' = [o \in Outputs |-> [surfaceViews[o] EXCEPT ![s] =
       EntryWithout(@, {v \in ToSet(views[s]) : viewOutput[v] = o})]]
  /\ entered' = StillEntered(surfaceViews')
  /\ pendingFrameCallbacks' = [pendingFrameCallbacks EXCEPT ![s] = <<>>]
  /\ frameCallbacks' = [frameCallbacks EXCEPT ![s] = <<>>]
  /\ UNCHANGED <<mapped, viewOutput, window, bound, frames, done, scheduled, queued>>

\* Every view loses the surface, the outputs leave it, its callbacks go.
DestroySurface(s) ==
  /\ s \in alive
  /\ alive' = alive \ {s}
  /\ mapped' = mapped \ {s}
  /\ views' = [views EXCEPT ![s] = <<>>]
  /\ viewSurface' = [v \in Views |-> IF viewSurface[v] = s THEN None ELSE viewSurface[v]]
  /\ surfaceViews' = [o \in Outputs |-> [surfaceViews[o] EXCEPT ![s] =
       EntryWithout(@, {v \in ToSet(views[s]) : viewOutput[v] = o})]]
  /\ entered' = StillEntered(surfaceViews')
  /\ pendingFrameCallbacks' = [pendingFrameCallbacks EXCEPT ![s] = <<>>]
  /\ frameCallbacks' = [frameCallbacks EXCEPT ![s] = <<>>]
  /\ UNCHANGED <<viewOutput, window, bound, frames, done, scheduled, queued>>

BindOutput(o) ==
  /\ o \notin bound
  /\ bound' = bound \cup {o}
  /\ UNCHANGED <<surfaceVars, viewVars, surfaceViews, entered, callbackVars,
                 scheduled, queued>>

Frame(s) ==
  /\ s \in alive
  /\ frames < MaxCallbacks
  /\ frames' = frames + 1
  /\ pendingFrameCallbacks' = [pendingFrameCallbacks EXCEPT ![s] = Append(@, frames')]
  /\ UNCHANGED <<surfaceVars, viewVars, surfaceViews, bound, entered,
                 frameCallbacks, done, scheduled, queued>>

\* (Mutant) The new callbacks come first.
Prepended(s) ==
  [i \in DOMAIN pendingFrameCallbacks[s] |->
     [id |-> pendingFrameCallbacks[s][i], canSend |-> FALSE]] \o frameCallbacks[s]

\* The callbacks of s with the pending ones.
Committed(s) ==
  frameCallbacks[s] \o [i \in DOMAIN pendingFrameCallbacks[s] |->
                          [id |-> pendingFrameCallbacks[s][i], canSend |-> FALSE]]

\* (Mutant) Only items whose surface becomes mapped or unmapped are updated.
CommitQuietly(s, content) ==
  /\ s \in alive
  /\ mapped' = IF content THEN mapped \cup {s} ELSE mapped \ {s}
  /\ frameCallbacks' = [frameCallbacks EXCEPT ![s] = Committed(s)]
  /\ pendingFrameCallbacks' = [pendingFrameCallbacks EXCEPT ![s] = <<>>]
  /\ scheduled' = scheduled \cup (IF content <=> s \in mapped THEN {} ELSE {window[v] : v \in ToSet(views[s])} \ {None})
  /\ UNCHANGED <<alive, views, viewVars, surfaceViews, bound, entered, frames,
                 done, queued>>

\* surface_commit(): the surface has content afterwards, or not.  redraw()
\* updates every item that shows it.
Commit(s, content) ==
  /\ s \in alive
  /\ mapped' = IF content THEN mapped \cup {s} ELSE mapped \ {s}
  /\ frameCallbacks' = [frameCallbacks EXCEPT ![s] = Committed(s)]
  /\ pendingFrameCallbacks' = [pendingFrameCallbacks EXCEPT ![s] = <<>>]
  /\ scheduled' = scheduled \cup ({window[v] : v \in ToSet(views[s])} \ {None})
  /\ UNCHANGED <<alive, views, viewVars, surfaceViews, bound, entered, frames,
                 done, queued>>

-----------------------------------------------------------------------------
(* The frames of an output *)

\* QWaylandSurface::frameStarted() if o throttles s.
Marked(o, s) ==
  IF Throttles(o, s)
  THEN [i \in DOMAIN frameCallbacks[s] |-> [frameCallbacks[s][i] EXCEPT !.canSend = TRUE]]
  ELSE frameCallbacks[s]

\* updateStarted(); a frame may also start for other reasons.
FrameStart(o) ==
  /\ queued[o] < MaxQueued
  /\ scheduled' = scheduled \ {o}
  /\ queued' = IF o \in Automatic THEN [queued EXCEPT ![o] = @ + 1] ELSE queued
  /\ frameCallbacks' = [s \in Surfaces |-> Marked(o, s)]
  /\ UNCHANGED <<surfaceVars, viewVars, surfaceViews, bound, entered,
                 pendingFrameCallbacks, frames, done>>

\* The positions of the callbacks of s that o sends now.
Sent(o, s) ==
  {i \in DOMAIN frameCallbacks[s] :
     s \in mapped /\ Throttles(o, s) /\ frameCallbacks[s][i].canSend}

IdsOf(q) == [i \in DOMAIN q |-> q[i].id]

ShownMapped(o) == {s \in mapped : surfaceViews[o][s].views # {}}

\* sendFrameCallbacks(): doFrameCallbacks() calls it for an output that does so
\* automatically, and the shell when it likes for another.
SendFrameCallbacks(o) ==
  /\ \/ /\ o \in Automatic /\ queued[o] > 0
        /\ queued' = [queued EXCEPT ![o] = @ - 1]
     \/ /\ o \notin Automatic
        /\ UNCHANGED queued
  /\ surfaceViews' = [surfaceViews EXCEPT ![o] =
       [s \in Surfaces |-> IF s \in ShownMapped(o) THEN [@[s] EXCEPT !.has_entered = TRUE]
                           ELSE @[s]]]
  /\ entered' = [s \in Surfaces |->
       entered[s] \cup (IF /\ s \in ShownMapped(o) /\ o \in bound
                           /\ ~surfaceViews[o][s].has_entered THEN {o} ELSE {})]
  /\ done' = [s \in Surfaces |->
       done[s] \o IdsOf(Entries(frameCallbacks[s], Sent(o, s)))]
  /\ frameCallbacks' = [s \in Surfaces |->
       Entries(frameCallbacks[s], DOMAIN frameCallbacks[s] \ Sent(o, s))]
  /\ UNCHANGED <<surfaceVars, viewVars, bound, pendingFrameCallbacks, frames, scheduled>>

-----------------------------------------------------------------------------
Init ==
  /\ alive = {} /\ mapped = {}
  /\ views = [s \in Surfaces |-> <<>>]
  /\ viewSurface = [v \in Views |-> None]
  /\ viewOutput = [v \in Views |-> None]
  /\ window = [v \in Views |-> None]
  /\ surfaceViews = [o \in Outputs |-> [s \in Surfaces |-> NoEntry]]
  /\ bound = {}
  /\ entered = [s \in Surfaces |-> {}]
  /\ pendingFrameCallbacks = [s \in Surfaces |-> <<>>]
  /\ frameCallbacks = [s \in Surfaces |-> <<>>]
  /\ frames = 0
  /\ done = [s \in Surfaces |-> <<>>]
  /\ scheduled = {}
  /\ queued = [o \in Outputs |-> 0]

SceneNext ==
  \/ \E v \in Views, s \in Surfaces \cup {None} : SetSurface(v, s)
  \/ \E v \in Views, o \in Outputs \cup {None} : SetWindow(v, o)
  \/ \E s \in Surfaces, v \in Views : SetThrottlingView(s, v)
  \/ \E v \in Views : DestroyView(v)

ClientNext ==
  \/ \E s \in Surfaces : CreateSurface(s) \/ DestroySurface(s) \/ Frame(s)
  \/ \E s \in Surfaces, content \in BOOLEAN : Commit(s, content)
  \/ \E o \in Outputs : BindOutput(o)

FrameNext == \E o \in Outputs : FrameStart(o) \/ SendFrameCallbacks(o)

Next == SceneNext \/ ClientNext \/ FrameNext

\* The render loop draws what was scheduled; the GUI thread runs queued calls.
Fairness ==
  \A o \in Outputs : /\ WF_vars(o \in scheduled /\ FrameStart(o))
                     /\ WF_vars(o \in Automatic /\ SendFrameCallbacks(o))

Spec == Init /\ [][Next]_vars
FairSpec == Spec /\ Fairness

-----------------------------------------------------------------------------
(* Properties *)

Callbacks == [id : 1..MaxCallbacks, canSend : BOOLEAN]

\* Every variable has its type.
TypeOK ==
  /\ alive \subseteq Surfaces /\ mapped \subseteq alive
  /\ views \in [Surfaces -> Seq(Views)]
  /\ viewSurface \in [Views -> alive \cup {None}]
  /\ viewOutput \in [Views -> Outputs \cup {None}]
  /\ window \in [Views -> Outputs \cup {None}]
  /\ surfaceViews \in [Outputs -> [Surfaces ->
       [views : SUBSET Views, has_entered : BOOLEAN]]]
  /\ bound \in SUBSET Outputs /\ scheduled \in SUBSET Outputs
  /\ entered \in [Surfaces -> SUBSET Outputs]
  /\ frames \in 0..MaxCallbacks
  /\ {pendingFrameCallbacks, done} \subseteq [Surfaces -> Seq(1..MaxCallbacks)]
  /\ frameCallbacks \in [Surfaces -> Seq(Callbacks)]
  /\ queued \in [Outputs -> 0..MaxQueued]

\* Surface, view and output keep the same relation in three places: the
\* surface's list holds each view that shows it once, and an output's entry
\* holds exactly the views that show the surface there.
ViewsAgree ==
  /\ \A s \in Surfaces : /\ ToSet(views[s]) = {v \in Views : viewSurface[v] = s}
                         /\ IsInjective(views[s])
  /\ \A o \in Outputs, s \in Surfaces :
       surfaceViews[o][s].views =
         {v \in Views : viewSurface[v] = s /\ viewOutput[v] = o}

\* Callbacks are sent in the order of the requests, whatever views and outputs
\* come and go in between.
PostedInOrder ==
  \A s \in alive :
    LET all == done[s] \o IdsOf(frameCallbacks[s]) \o pendingFrameCallbacks[s] IN
    \A i \in DOMAIN all : \A j \in 1..(i - 1) : all[j] < all[i]

\* The client believes a surface to be on exactly the outputs that entered it,
\* and each of them shows it: every enter gets its leave.
EnteredWhereShown ==
  \A s \in Surfaces, o \in Outputs :
    /\ o \in entered[s] <=> surfaceViews[o][s].has_entered
    /\ surfaceViews[o][s].has_entered => surfaceViews[o][s].views # {}

\* Surface, view, output and client agree on where a surface is shown.
ShownAlike == ViewsAgree /\ EnteredWhereShown

\* Whatever moves between the halves of a frame, callbacks are sent in order,
\* and everybody agrees on where a surface is shown.
FramesFollowMoves == PostedInOrder /\ ShownAlike

\* A callback committed for a surface that stays mapped, with views that are
\* all in windows, is sent: the client does not wait for ever.
Answered ==
  \A s \in Surfaces, n \in 1..MaxCallbacks :
    n \in ToSet(IdsOf(frameCallbacks[s]))
      ~> \/ n \notin ToSet(IdsOf(frameCallbacks[s]))
         \/ s \notin mapped
         \/ views[s] = <<>>
         \/ \E v \in ToSet(views[s]) : window[v] = None
=============================================================================
