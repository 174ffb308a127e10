----------------------------- MODULE MCServices -----------------------------
(***************************************************************************)
(* What is restarted, for TLC: the session with a service that goes and    *)
(* comes back, the launcher with processes that crash, and the X display   *)
(* of compositors that crash.  They do not depend on each other, so a      *)
(* behaviour is of one of them (its part) while the others rest in their   *)
(* initial states.                                                         *)
(***************************************************************************)
EXTENDS XWaylandSetup, LogindSession, CompositorProcess, TLC

CONSTANTS x1, x2, x3

VARIABLE part

ThreeCompositors == {x1, x2, x3}

\* Weston and the compositor end in any way; SIGTERM ends weston and kills the
\* compositor.
AnyEnd == [Weston |-> Ended, Compositor |-> Ended]
CompositorDies == {"Compositor"}

ServicesInit ==
  /\ part \in {"session", "launcher", "display"}
  /\ Init /\ SessionInit /\ LauncherInit
  /\ part # "session" => ~up
  /\ part # "launcher" => socket = {}
  /\ part # "display" => lockFile[0] = None

\* The service goes away and the user switches three times in all.
SessionBound == stops' + switches' <= 3

ServicesNext ==
  /\ UNCHANGED part
  /\ \/ part = "session"  /\ SessionNext /\ SessionBound /\ UNCHANGED <<vars, launcherVars>>
     \/ part = "launcher" /\ LauncherNext /\ UNCHANGED <<vars, sessionVars>>
     \/ part = "display"  /\ Next   /\ UNCHANGED <<sessionVars, launcherVars>>

ServicesSpec ==
  /\ ServicesInit
  /\ [][ServicesNext]_<<part, vars, sessionVars, launcherVars>>
  /\ \/ part = "session"  /\ SessionFairness
     \/ part = "launcher" /\ LauncherFairness
     \/ part = "display"  /\ Fairness

\* The types of LogindSession, CompositorProcess and XWaylandSetup.
TypesOK == TypeOK /\ SessionTypeOK /\ LauncherTypeOK

\* Of LogindSession: if the service stays up, the session stays connected.
SessionStaysConnected == part = "session" => StaysConnected

\* Of CompositorProcess: whenever weston starts a compositor runs in it.
CompositorStarts == part = "launcher" => CompositorFollowsWeston

\* Of XWaylandSetup: the search for a display comes to an end.
DisplayFound == part = "display" => SetupEnds
=============================================================================
