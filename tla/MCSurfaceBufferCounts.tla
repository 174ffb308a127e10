------------------------ MODULE MCSurfaceBufferCounts ------------------------
\* Instances of SurfaceBufferCounts for TLC.
EXTENDS SurfaceBufferCounts, TLC

CONSTANTS s1, s2, v1, v2, b1, b2

OneSurface  == {s1}
TwoSurfaces == {s1, s2}
OneView     == {v1}
TwoViews    == {v1, v2}
OneBuffer   == {b1}
TwoBuffers  == {b1, b2}
NoView      == {}
SecondView  == {v2}

SurfacesAndBuffers == Permutations(TwoSurfaces) \cup Permutations(TwoBuffers)

=============================================================================
