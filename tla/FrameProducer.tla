--------------------------- MODULE FrameProducer ----------------------------
(***************************************************************************)
(* What the JPEG input may expect of a well-behaved producer on each of    *)
(* its connections: frames one after the other, each behind a header with  *)
(* its length and none too long; only the last may be cut, and no byte     *)
(* follows the cut.                                                        *)
(***************************************************************************)
EXTENDS Naturals, Sequences, SequencesExt

CONSTANTS Conns, HeaderLength, MaxLength

VARIABLES
    frames,     \* the lengths of the frames begun on each connection
    written,    \* bytes written to it
    over        \* connections that are done with

Sum(numbers) == FoldLeft(+, 0, numbers)

\* The bytes these frames take.
Total(lengths) == Sum([k \in DOMAIN lengths |-> HeaderLength + lengths[k]])

ProducerInit ==
    /\ frames = [c \in Conns |-> <<>>] /\ written = [c \in Conns |-> 0] /\ over = {}

Begin(c) ==
    /\ c \notin over /\ written[c] = Total(frames[c])
    /\ \E length \in 1 .. MaxLength : frames' = [frames EXCEPT ![c] = Append(@, length)]
    /\ UNCHANGED <<written, over>>

Write(c) ==
    /\ c \notin over
    /\ \E bytes \in 1 .. Total(frames[c]) - written[c] :
          written' = [written EXCEPT ![c] = @ + bytes]
    /\ UNCHANGED <<frames, over>>

End(c) == over' = over \cup {c} /\ UNCHANGED <<frames, written>>

ProducerNext == \E c \in Conns : Begin(c) \/ Write(c) \/ End(c)

ProducerSpec == ProducerInit /\ [][ProducerNext]_<<frames, written, over>>
=============================================================================
