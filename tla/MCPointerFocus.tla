--------------------------- MODULE MCPointerFocus ---------------------------
\* Instances of PointerFocus for TLC.
EXTENDS PointerFocus, TLC

CONSTANTS c1, c2, s1, s2, p1, p2, t1, t2, v1, v2, left

TwoClients  == {c1, c2}
TwoSurfaces == {s1, s2}
TwoPointers == {p1, p2}
TwoTouches  == {t1, t2}
TwoViews    == {v1, v2}
OneButton   == {left}
Owned       == (s1 :> c1) @@ (s2 :> c2) @@ (p1 :> c1) @@ (p2 :> c2)
OwnedTouches == Owned @@ (t1 :> c1) @@ (t2 :> c2)
=============================================================================
