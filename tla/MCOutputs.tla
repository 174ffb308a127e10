------------------------------ MODULE MCOutputs ------------------------------
(***************************************************************************)
(* What outputs owe to clients and to the screen, for TLC: frame           *)
(* callbacks, frames that are recorded and frames that are flipped to.     *)
(* They do not depend on each other, so a behaviour is of one of them (its *)
(* part) while the others rest in their initial states.                    *)
(*                                                                         *)
(* Recording has two parts: the compositor's, with a client that may do    *)
(* anything, and the compositor's with the client library.  So have page   *)
(* flips: those of two windows, and those of one, next to a screen without *)
(* a window, while the virtual terminal is switched.                       *)
(***************************************************************************)
EXTENDS PageFlip, ScreencastClient, SequencesExt, TLC

CONSTANTS s1, v1, v2, o1, o2

VARIABLES
  part,
  \* FrameCallbacks
  alive, mapped, views, viewSurface, viewOutput, window, surfaceViews, bound,
  entered, pendingFrameCallbacks, frameCallbacks, frames, done, scheduled, queued

TwoScreens   == {o1, o2}
FirstScreen  == {o1}
ThreeBuffers == 1..3

F == INSTANCE FrameCallbacks WITH
       Surfaces <- {s1}, Views <- {v1, v2}, Outputs <- {o1, o2},
       MaxCallbacks <- 2, MaxQueued <- 1, StableViews <- TRUE, BindsFirst <- TRUE,
       Automatic <- {o1, o2}
S == INSTANCE Screencast WITH
       CastBuffers <- 1..4, Unusable <- {3}, TooLarge <- {4}, MaxPosted <- 4
V == INSTANCE PageFlip WITH
       Screens <- {o1, o2}, Windowed <- {o1}, Changing <- {o1}, Buffers <- 1..3,
       MaxSwitches <- 2, FlipsFail <- FALSE

callbackVars ==
  <<alive, mapped, views, viewSurface, viewOutput, window, surfaceViews, bound,
    entered, pendingFrameCallbacks, frameCallbacks, frames, done, scheduled, queued>>

OutputsInit ==
  /\ part \in {"frames", "caster", "client", "flips", "vt"}
  /\ Init /\ F!Init /\ ClientInit

OutputsNext ==
  /\ UNCHANGED part
  /\ \/ part = "frames" /\ F!Next     /\ UNCHANGED <<vars, allVars>>
     \/ part = "caster" /\ S!CastNext /\ UNCHANGED <<vars, callbackVars, clientVars>>
     \/ part = "client" /\ ClientNext /\ UNCHANGED <<vars, callbackVars>>
     \/ part = "flips"  /\ Next       /\ UNCHANGED <<callbackVars, allVars>>
     \/ part = "vt"     /\ V!Next     /\ UNCHANGED <<callbackVars, allVars>>

OutputsSpec ==
  /\ OutputsInit
  /\ [][OutputsNext]_<<part, vars, callbackVars, allVars>>
  /\ \/ part = "frames" /\ F!Fairness
     \/ part = "client" /\ ClientFairness
     \/ part = "flips"  /\ Fairness
     \/ part \in {"caster", "vt"}

\* The types of FrameCallbacks, Screencast, ScreencastClient and PageFlip.
TypesOK ==
  CASE part = "frames" -> F!TypeOK
    [] part = "caster" -> S!CastTypeOK
    [] part = "client" -> ClientTypeOK
    [] part = "flips"  -> TypeOK
    [] part = "vt"     -> V!TypeOK

\* Of FrameCallbacks: the client of a surface that is shown is answered.
FramesAnswered == part = "frames" => F!Answered

\* Of ScreencastClient: the client keeps recording.
RecordingGoesOn == part = "client" => KeepsRecording

\* Of PageFlip: who waits for a flip does not wait for ever.
FlipsGoOn == part = "flips" => KeepsPainting
=============================================================================
