---------------------------- MODULE MCJPEGInput ----------------------------
(* An instance of JPEGInput for TLC: frames of every kind of length.        *)
EXTENDS JPEGInput, TLC

CONSTANTS c1, c2

MCStreams == c1 :> {<<2, 1>>, <<1, 3>>, <<0, 1>>} @@ c2 :> {<<1>>}
=============================================================================
