-------------------------- MODULE MCFrameTransport --------------------------
(* Instances of FrameTransport for TLC, and faulty variants of its           *)
(* definitions that show what each property is able to notice.               *)
EXTENDS FrameTransport

\* The bytes of a payload differ, so that order and duplication show.
MCOne   == {<<1, 2, 3>>}
\* One chunk exactly full, one short last chunk of two, one of three.
MCShort == {<<9, 8>>, <<1, 2, 3>>, <<4, 5, 6, 7, 8>>}
=============================================================================
