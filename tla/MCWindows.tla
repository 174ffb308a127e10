----------------------------- MODULE MCWindows -----------------------------
(***************************************************************************)
(* Windows for TLC: their states and configure events, the applications    *)
(* they belong to, their popups, and the windows of X11.  They do not      *)
(* depend on each other, so a behaviour is of one of them (its part) while *)
(* the others rest in their initial states.                                *)
(***************************************************************************)
EXTENDS XdgConfigure, ApplicationWindows, XWaylandWindows, PopupGrab, TLC

CONSTANTS x1, x2, w1, w2, w3, a, b, c1, c2, p1, p2, p3, q1, q2

VARIABLE part

TwoWindows   == {x1, x2}
FirstWindow  == {x1}
SecondWindow == {x2}

ThreeWindows == {w1, w2, w3}
TwoXWindows  == {w2, w3}
\* Two windows of wl_shell, and the two of X11, are alike.
Alike        == Permutations({w2, w3})
BothAreB     == (a :> b) @@ (b :> b)

OwnersOfPopups ==
  (p1 :> c1) @@ (p2 :> c1) @@ (p3 :> c2) @@ (q1 :> c1) @@ (q2 :> c2)
AllMixes == {{"xdg"}, {"wl"}, {"xdg", "wl"}}

\* There is one mouse: windows are moved or resized one at a time.  One that
\* goes has nothing under way.
ConfigureBound ==
  /\ Cardinality({x \in XdgSurfaces : grabber'[x] # "Default"}) <= 1
  /\ \A x \in XdgSurfaces \ live' : pendingConfigures'[x] = <<>>

\* Where applications are named, no client is more than one event behind;
\* where clients are, no application is named.
NamesBound == \A w \in XdgWindows : Len(unacked'[w]) <= 1

WindowsInit ==
  /\ part \in {"configure", "applications", "activation", "xwayland", "popups"}
  /\ Init /\ ApplicationsInit /\ XInit /\ PopupsInit
  /\ part # "popups" => shells = {"xdg"}

WindowsNext ==
  /\ UNCHANGED part
  /\ \/ part = "configure"    /\ Next /\ ConfigureBound
        /\ UNCHANGED <<applicationVars, xwaylandVars, popupGrabVars>>
     \/ part = "applications" /\ ApplicationsNext /\ NamesBound
        /\ UNCHANGED <<vars, xwaylandVars, popupGrabVars>>
     \/ part = "activation"   /\ ApplicationsNext /\ UNCHANGED appId
        /\ UNCHANGED <<vars, xwaylandVars, popupGrabVars>>
     \/ part = "xwayland"     /\ XNext
        /\ UNCHANGED <<vars, applicationVars, popupGrabVars>>
     \/ part = "popups"       /\ PopupsNext
        /\ UNCHANGED <<vars, applicationVars, xwaylandVars>>

WindowsSpec ==
  WindowsInit
    /\ [][WindowsNext]_<<part, vars, applicationVars, xwaylandVars, popupGrabVars>>

\* The types of XdgConfigure, ApplicationWindows, XWaylandWindows and PopupGrab.
TypesOK ==
  CASE part = "configure"    -> TypeOK
    [] part \in {"applications", "activation"} -> ApplicationsTypeOK
    [] part = "xwayland"     -> XTypeOK
    [] part = "popups"       -> PopupsTypeOK
=============================================================================
