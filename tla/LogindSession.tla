---------------------------- MODULE LogindSession ----------------------------
(***************************************************************************)
(* The session as logind sees it, as Logind caches it, and the virtual      *)
(* terminal that VtHandler derives from it.                                *)
(*                                                                         *)
(* Logind talks to the login1 service over D-Bus: calls are asynchronous,  *)
(* replies and signals arrive in the order they were sent, and the service *)
(* may go away and come back.  A call that is not answered before the      *)
(* service goes away fails, after the signal that it is gone.              *)
(***************************************************************************)
EXTENDS Naturals, Sequences, SequencesExt

CONSTANTS MaxStops,      \* how often the service goes away
          MaxSwitches,   \* how often the user changes the virtual terminal
          MaxCalls,      \* calls of the application
          OpensActive,   \* is the session active until the vt is open?
          SwitchesWork,  \* does SwitchTo always succeed?
          OneTake        \* is there at most one TakeControl under way?

ASSUME CountsAssumption == {MaxStops, MaxSwitches, MaxCalls} \subseteq Nat
ASSUME FlagsAssumption == {OpensActive, SwitchesWork, OneTake} \subseteq BOOLEAN

VARIABLES
  up,                \* the service is registered on the bus
  active,            \* our session is the active one of the seat
  controller,        \* the service has us as the session's controller
  requests,          \* calls on the way to the service
  inbox,             \* replies and signals on the way to us
  isConnected, hasSessionControl, sessionActive,
  vtKnown,           \* vt # -1
  handler,           \* VtHandler: "none", or does it take control "once" (it
                     \* found Logind connected) or "always"
  vtOpen,            \* vtFd # -1
  vtActive,          \* its active
  stops, switches, calls

serviceVars == <<up, active, controller>>
logindVars == <<isConnected, hasSessionControl, sessionActive, vtKnown>>
handlerVars == <<handler, vtOpen, vtActive>>
boundVars == <<stops, switches, calls>>
sessionVars == <<serviceVars, requests, inbox, logindVars, handlerVars, boundVars>>

Msg(t, v) == [type |-> t, value |-> v]
Failed(call) == [type |-> "Failed", call |-> call]
Registered == Msg("Registered", TRUE)
Unregistered == Msg("Unregistered", TRUE)
PropertiesChanged == Msg("PropertiesChanged", TRUE)

GetProperties == <<"GetActive", "GetVt">>

-----------------------------------------------------------------------------
(* The service (external) *)

\* (Mutant) Only the service's end is watched.
StartServiceUnwatched ==
  /\ ~up
  /\ up' = TRUE
  /\ UNCHANGED <<active, controller, requests, inbox, logindVars, handlerVars,
                 boundVars>>

StartService ==
  /\ ~up
  /\ up' = TRUE
  /\ inbox' = Append(inbox, Registered)
  /\ UNCHANGED <<active, controller, requests, logindVars, handlerVars, boundVars>>

\* The session stays; who controlled it is forgotten; open calls fail.
StopService ==
  /\ up
  /\ stops < MaxStops
  /\ stops' = stops + 1
  /\ up' = FALSE
  /\ controller' = FALSE
  /\ inbox' = inbox \o <<Unregistered>>
              \o [i \in DOMAIN requests |-> Failed(requests[i])]
  /\ requests' = <<>>
  /\ UNCHANGED <<active, logindVars, handlerVars, switches, calls>>

\* Calls made while there is no service fail.
Refuse ==
  /\ ~up
  /\ requests # <<>>
  /\ inbox' = Append(inbox, Failed(Head(requests)))
  /\ requests' = Tail(requests)
  /\ UNCHANGED <<serviceVars, logindVars, handlerVars, boundVars>>

\* Once subscribed (since the first connection) we hear of the changes.
Serve ==
  /\ up
  /\ requests # <<>>
  /\ requests' = Tail(requests)
  /\ LET r == Head(requests) IN
     \/ /\ r = "GetSession"
        /\ inbox' = Append(inbox, Msg("Session", TRUE))
        /\ UNCHANGED <<active, controller>>
     \/ /\ r = "GetActive"
        /\ inbox' = Append(inbox, Msg("Active", active))
        /\ UNCHANGED <<active, controller>>
     \/ /\ r = "GetVt"
        /\ inbox' = Append(inbox, Msg("Vt", TRUE))
        /\ UNCHANGED <<active, controller>>
     \/ /\ r = "TakeControl"
        /\ controller' = TRUE
        /\ inbox' = Append(inbox, Msg("Control", TRUE))
        /\ UNCHANGED active
     \/ /\ r = "ReleaseControl"
        /\ controller' = FALSE
        /\ UNCHANGED <<active, inbox>>
     \/ /\ r = "SwitchTo"
        /\ active
        /\ active' = FALSE
        /\ inbox' = Append(inbox, PropertiesChanged)
        /\ UNCHANGED controller
     \/ /\ r = "SwitchTo"
        /\ ~active \/ ~SwitchesWork
        /\ UNCHANGED <<active, controller, inbox>>
  /\ UNCHANGED <<up, logindVars, handlerVars, boundVars>>

\* The user goes to another virtual terminal or comes back.
UserSwitches ==
  /\ switches < MaxSwitches
  /\ OpensActive => vtOpen
  /\ switches' = switches + 1
  /\ active' = ~active
  /\ inbox' = IF up THEN Append(inbox, PropertiesChanged) ELSE inbox
  /\ UNCHANGED <<up, controller, requests, logindVars, handlerVars, stops, calls>>

-----------------------------------------------------------------------------
(* What the handlers do; primed Logind state is set before *)

\* takeControl(): its request, given the new state of Logind.
TakeControl(connected, control) ==
  IF connected /\ ~control THEN <<"TakeControl">> ELSE <<>>

\* setup(): nothing if the vt is open; opening it may fail.
SetupVt ==
  \/ ~vtOpen /\ vtOpen' = TRUE /\ vtActive' = TRUE
  \/ UNCHANGED <<vtOpen, vtActive>>

\* (Mutant) VtHandler is told of the session's return only.
SetActiveOnReturn(a) ==
  /\ sessionActive' = a
  /\ vtActive' = (vtActive \/ (handler # "none" /\ a))

\* VtHandler follows sessionActiveChanged.
SetActive(a) ==
  /\ sessionActive' = a
  /\ vtActive' = IF handler # "none" /\ a # sessionActive THEN a ELSE vtActive

-----------------------------------------------------------------------------
(* Logind: one action per message *)

Receive(t) == inbox # <<>> /\ Head(inbox).type = t /\ inbox' = Tail(inbox)

\* _q_serviceRegistered().
ServiceRegistered ==
  /\ Receive("Registered")
  /\ requests' = Append(requests, "GetSession")
  /\ UNCHANGED <<serviceVars, logindVars, handlerVars, boundVars>>

\* The reply to GetSession, unless we are connected already.  Activate is
\* called on an interface that the session does not have: it has no effect.
SessionReply ==
  /\ Receive("Session")
  /\ \/ /\ isConnected
        /\ UNCHANGED <<requests, isConnected>>
     \/ /\ ~isConnected
        /\ isConnected' = TRUE
        /\ requests' = requests \o GetProperties
             \o (IF handler = "always" THEN TakeControl(TRUE, hasSessionControl)
                 ELSE <<>>)
  /\ UNCHANGED <<serviceVars, hasSessionControl, sessionActive, vtKnown,
                 handlerVars, boundVars>>

\* _q_serviceUnregistered(): session control is not reset.
ServiceUnregistered ==
  /\ Receive("Unregistered")
  /\ isConnected' = FALSE
  /\ SetActive(FALSE)
  /\ vtKnown' = FALSE
  /\ UNCHANGED <<serviceVars, requests, hasSessionControl, handler, vtOpen,
                 boundVars>>

\* _q_sessionPropertiesChanged().
SessionPropertiesChanged ==
  /\ Receive("PropertiesChanged")
  /\ requests' = IF isConnected THEN requests \o GetProperties ELSE requests
  /\ UNCHANGED <<serviceVars, logindVars, handlerVars, boundVars>>

ActiveReply ==
  /\ Receive("Active")
  /\ SetActive(Head(inbox).value)
  /\ UNCHANGED <<serviceVars, requests, isConnected, hasSessionControl, vtKnown,
                 handler, vtOpen, boundVars>>

VtReply ==
  /\ Receive("Vt")
  /\ vtKnown' = TRUE
  /\ \/ /\ ~vtKnown /\ handler # "none"
        /\ SetupVt
     \/ /\ vtKnown \/ handler = "none"
        /\ UNCHANGED <<vtOpen, vtActive>>
  /\ UNCHANGED <<serviceVars, requests, isConnected, hasSessionControl,
                 sessionActive, handler, boundVars>>

\* The reply to TakeControl.
ControlReply ==
  /\ Receive("Control")
  /\ hasSessionControl' = TRUE
  /\ UNCHANGED <<serviceVars, requests, isConnected, sessionActive, vtKnown,
                 handlerVars, boundVars>>

\* The error reply to any call; only that to TakeControl has an effect.
FailedReply ==
  /\ Receive("Failed")
  /\ hasSessionControl' = IF Head(inbox).call = "TakeControl" THEN FALSE
                          ELSE hasSessionControl
  /\ UNCHANGED <<serviceVars, requests, isConnected, sessionActive, vtKnown,
                 handlerVars, boundVars>>

-----------------------------------------------------------------------------
(* The application *)

Taking == \/ Contains(requests, "TakeControl")
          \/ \E i \in DOMAIN inbox : \/ inbox[i].type = "Control"
                                     \/ /\ inbox[i].type = "Failed"
                                        /\ inbox[i].call = "TakeControl"

CallTakeControl ==
  /\ OneTake => ~Taking
  /\ calls < MaxCalls
  /\ calls' = calls + 1
  /\ requests' = requests \o TakeControl(isConnected, hasSessionControl)
  /\ UNCHANGED <<serviceVars, inbox, logindVars, handlerVars, stops, switches>>

CallReleaseControl ==
  /\ isConnected /\ hasSessionControl
  /\ calls < MaxCalls
  /\ calls' = calls + 1
  /\ requests' = Append(requests, "ReleaseControl")
  /\ hasSessionControl' = FALSE
  /\ UNCHANGED <<serviceVars, inbox, isConnected, sessionActive, vtKnown,
                 handlerVars, stops, switches>>

\* VtHandler::activate() with another vt.
CallActivate ==
  /\ vtOpen
  /\ calls < MaxCalls
  /\ calls' = calls + 1
  /\ requests' = Append(requests, "SwitchTo")
  /\ vtActive' = FALSE
  /\ UNCHANGED <<serviceVars, inbox, logindVars, handler, vtOpen, stops, switches>>

\* VtHandler::VtHandler().
CreateVtHandler ==
  /\ handler = "none"
  /\ OneTake => ~Taking
  /\ handler' = IF isConnected THEN "once" ELSE "always"
  /\ \/ /\ vtKnown
        /\ SetupVt
     \/ /\ ~vtKnown
        /\ UNCHANGED <<vtOpen, vtActive>>
  /\ requests' = requests \o TakeControl(isConnected, hasSessionControl)
  /\ UNCHANGED <<serviceVars, inbox, logindVars, boundVars>>

-----------------------------------------------------------------------------
\* At first there is no connection.  ListNames may find the service that the watcher announces too.
SessionInit ==
  /\ up \in BOOLEAN
  /\ active \in {TRUE, OpensActive}
  /\ controller = FALSE
  /\ requests = <<>>
  /\ inbox \in IF up THEN {<<Registered>>, <<Registered, Registered>>} ELSE {<<>>}
  /\ isConnected = FALSE /\ hasSessionControl = FALSE
  /\ sessionActive = FALSE /\ vtKnown = FALSE
  /\ handler = "none" /\ vtOpen = FALSE /\ vtActive = FALSE
  /\ stops = 0 /\ switches = 0 /\ calls = 0

ServiceNext == StartService \/ StopService \/ Refuse \/ Serve \/ UserSwitches

LogindNext ==
  \/ ServiceRegistered \/ SessionReply \/ ServiceUnregistered
  \/ SessionPropertiesChanged \/ ActiveReply \/ VtReply
  \/ ControlReply \/ FailedReply

AppNext == CallTakeControl \/ CallReleaseControl \/ CallActivate \/ CreateVtHandler

SessionNext == ServiceNext \/ LogindNext \/ AppNext

\* The service answers, and the event loop delivers what arrived.
SessionFairness == WF_sessionVars(Serve \/ Refuse) /\ WF_sessionVars(LogindNext)

SessionSpec == SessionInit /\ [][SessionNext]_sessionVars
SessionFairSpec == SessionSpec /\ SessionFairness

-----------------------------------------------------------------------------
(* Properties *)

Quiet == requests = <<>> /\ inbox = <<>>

Methods == {"GetSession", "GetActive", "GetVt", "TakeControl", "ReleaseControl",
            "SwitchTo"}
Messages ==
  [type : {"Registered", "Unregistered", "PropertiesChanged", "Session", "Active",
           "Vt", "Control"}, value : BOOLEAN]
  \cup [type : {"Failed"}, call : Methods]

\* Every variable has its type; the vt is active only while it is open or
\* followed.
SessionTypeOK ==
  /\ {up, active, controller, isConnected, hasSessionControl, sessionActive,
      vtKnown, vtOpen, vtActive} \subseteq BOOLEAN
  /\ handler \in {"none", "once", "always"}
  /\ handler = "none" => ~vtOpen /\ ~vtActive
  /\ requests \in Seq(Methods) /\ inbox \in Seq(Messages)
  /\ stops \in 0..MaxStops /\ switches \in 0..MaxSwitches /\ calls \in 0..MaxCalls

\* Whatever restarts and switches overtake each other: when all is answered,
\* Logind is connected if and only if there is a service, and knows whether
\* the session is active and its vt.
CatchesUp ==
  Quiet => /\ isConnected = up
           /\ sessionActive = (up /\ active)
           /\ vtKnown = up

\* When all is answered we believe to control the session exactly if the
\* service says so.
ControlAgrees == Quiet /\ up => hasSessionControl = controller

\* It does so as long as the service has not gone away.
ControlOfFirstService == stops = 0 => ControlAgrees

\* VtHandler is active when the session is, once all is answered.
VtFollowsSession == Quiet /\ up /\ vtOpen => vtActive = sessionActive

\* It is, if the session was when the vt was opened, as long as the service
\* has not gone away and the application has not asked for another vt: however
\* often the user comes and goes and whatever replies are under way.
VtFollowsUser == OpensActive /\ stops = 0 /\ calls = 0 => VtFollowsSession

\* The session follows the service and the user: when all is answered it is as
\* they have it, however restarts, switches and replies overtook each other.
FollowsService == CatchesUp /\ ControlOfFirstService /\ VtFollowsUser

\* If the service stays up we are connected in the end, and stay it.
StaysConnected == <>[]up => <>[]isConnected
=============================================================================
