-------------------------- MODULE MCFrameCallbacks --------------------------
(***************************************************************************)
(* Outputs as clients see them, for TLC: which surfaces are shown on them  *)
(* while items move, and what they are while they are configured or their  *)
(* modes change.  None depends on the others, so a behaviour is of one of  *)
(* them (its part) while the others rest in their initial state.           *)
(***************************************************************************)
EXTENDS FrameCallbacks, WaylandOutput

CONSTANTS s1, s2, v1, v2, o1, o2, k1, k2

VARIABLE part

TwoSurfaces       == {s1, s2}
TwoViews          == {v1, v2}
TwoOutputs        == {o1, o2}
TwoConfigurations == {k1, k2}
PositionAndScale  == {"position", "scale"}

\* The output has the properties that clients assume, until it is configured.
MovesInit ==
  /\ part \in {"moves", "configurations", "modes"}
  /\ Init /\ OutputInit
  /\ properties = known[CHOOSE c \in Clients : TRUE].properties
  /\ part = "moves" => ~sizeFollowsWindow

\* The requests of one surface matter to no other: only one makes any.
OneSurfaceDraws ==
  Cardinality({s \in Surfaces :
    frameCallbacks'[s] \o pendingFrameCallbacks'[s] \o done'[s] # <<>>}) <= 1

MovesNext ==
  /\ UNCHANGED part
  /\ \/ part = "moves"  /\ Next /\ OneSurfaceDraws /\ UNCHANGED outputVars
     \/ part = "configurations" /\ OutputNext /\ UNCHANGED <<vars, modeVars>>
     \/ part = "modes"  /\ OutputNext /\ UNCHANGED <<vars, configVars>>

MovesSpec == MovesInit /\ [][MovesNext]_<<part, vars, outputVars>>

Symmetry == Permutations(TwoSurfaces) \cup Permutations(TwoViews)
=============================================================================
