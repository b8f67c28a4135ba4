------------------------- MODULE MCTrackingHandoff --------------------------
(* Instances of TrackingHandoff for TLC.                                    *)
EXTENDS TrackingHandoff

CONSTANTS viewer, headset

Both == {viewer, headset}
Viewer == {viewer}
\* Squares of 2^-24, just refused, and of 2^-22.
UsualLengths == {-12, -11}
One == {0}
UpDifferently == {1, 3}
=============================================================================
