---------------------------- MODULE MCJPEGSender ----------------------------
(* Instances of JPEGSender for TLC.                                         *)
EXTENDS JPEGSender

Word(text) == [text |-> text, number |-> <<>>]
Number(n)  == [text |-> "number", number |-> <<n>>]

TheFile == <<Word("--jpeg-file"), Word("frame.jpg")>>
Count(n) == <<Word("--count"), Number(n)>>

\* Command lines that ask for frames, without end, for one and for two; and some
\* that do not.
MCArgvs == {
    TheFile,
    TheFile \o Count(1) \o Count(2),
    <<Word("--max-jpeg-bytes"), Number(1), Word("--verbose")>> \o Count(1) \o TheFile,
    TheFile \o Count(-1),
    Count(1),
    TheFile \o <<Word("--count")>>,
    TheFile \o <<Word("--port"), Number(65536)>>,
    <<Word("--host")>> \o TheFile,
    TheFile \o <<Word("--verbose"), Word("--version"), Word("--fps")>>,
    <<Word("-h")>>,
    TheFile \o <<Word("--fps"), Word("fast")>> }

\* One that asks for one frame.
OneFrame == {TheFile \o Count(1)}

\* As in the source but for --max-jpeg-bytes, which is 1024 to 16000000 there.
MCLimits == [option \in {"--port", "--fps", "--reconnect-delay-ms", "--max-jpeg-bytes"} |->
    CASE option = "--port" -> <<1, 65535>>
      [] option = "--fps" -> <<1, 240>>
      [] option = "--reconnect-delay-ms" -> <<10, 30000>>
      [] option = "--max-jpeg-bytes" -> <<1, 2>>]
=============================================================================
