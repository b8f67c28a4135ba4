----------------------------- MODULE JPEGSender -----------------------------
(***************************************************************************)
(* macvr-jpeg-sender: it sends the JPEG file it is given again and again,  *)
(* behind its length, over one connection after the other, until the       *)
(* frames it was asked for are sent or a signal sets g_should_stop.        *)
(*                                                                         *)
(* One thread.  Around it, at any moment: the file is rewritten, replaced  *)
(* or removed, the service comes and goes, its end of the connection       *)
(* stops reading, closes or is reset, and a signal arrives, which cuts no  *)
(* sleep short and restarts a send.  What the file holds is left out.      *)
(***************************************************************************)
EXTENDS Integers, Sequences, SequencesExt, FiniteSetsExt

CONSTANTS
    Argvs,              \* command lines: sequences of tokens
    Limits,             \* the least and the most a numeric option takes
    Modulus,            \* 2 to the width of unsigned long and long long
    FileLengths,        \* lengths of the JPEG file; 0: none, or empty
    Addresses, Served,  \* addresses the host has, and those the service is at
    PrefixLength,
    MaxConnections,     \* bound: the last connection is not lost
    MaxFrames           \* bound: frames sent when no count is given

Texts  == {"--host", "--jpeg-file"}
Valued == Texts \cup {"--port", "--fps", "--count", "--reconnect-delay-ms", "--max-jpeg-bytes"}

\* A token has the number strtol finds in all of it, or none.
ASSUME SenderAssumption ==
    /\ Limits \in [Valued \ (Texts \cup {"--count"}) -> Int \X Int]
    /\ Argvs \subseteq Seq([text : STRING, number : Seq(Int)])
    /\ {Modulus, PrefixLength, MaxConnections, MaxFrames, Addresses} \subseteq Nat \ {0}
    /\ FileLengths \subseteq Nat /\ Served \subseteq 1 .. Addresses

Sockets == 1 .. MaxConnections

VARIABLES
    platform,       \* "posix" or "windows"
    argv, options, g_should_stop, frames_sent,
    stage,          \* where main is
    entries,        \* addresses connect_socket has not tried
    socket,         \* socket_fd, or 0; connections are numbered as they are made
    opened,         \* connections made so far
    jpeg_length,    \* file_size of the frame in hand
    remaining,      \* bytes send_all has not sent
    file,           \* the length of the file now
    reachable,      \* the host's name resolves and the service listens
    peer,           \* the other end of the socket
    frames,         \* history: the lengths of the frames begun on each connection
    written         \* history: the bytes each connection took

orders     == <<options, g_should_stop>>
connection == <<socket, peer>>
frame      == <<jpeg_length, remaining>>
counters   == <<frames_sent, entries, opened>>
world      == <<file, reachable>>
history    == <<frames, written>>
sender == <<platform, argv, orders, stage, connection, frame, counters, world, history>>
-----------------------------------------------------------------------------
\* parse_cli.

\* strtoul and strtoull take a sign, and the most there is for what is too long.
Unsigned(n) == IF n \in 1 - Modulus .. Modulus - 1 THEN n % Modulus ELSE Modulus - 1

Between(n, limit) == limit[1] <= n /\ n <= limit[2]

Value(option, token) ==
    IF option \in Texts THEN token.text
    ELSE IF option \in {"--port", "--count"} THEN Unsigned(token.number[1])
    ELSE token.number[1]

Valid(option, token) ==
    IF option \in Texts THEN token.text # ""
    ELSE /\ token.number # <<>>
         /\ option # "--count" => Between(Value(option, token), Limits[option])

Defaults ==
    [option \in Valued |->
        CASE option = "--host" -> "127.0.0.1" [] option = "--port" -> 44000
          [] option = "--jpeg-file" -> ""     [] option = "--fps" -> 30
          [] option = "--count" -> 0          [] option = "--reconnect-delay-ms" -> 1000
          [] OTHER -> Limits[option][2]]

\* One token: the value an option before it waits for, whatever it is, or an
\* option.  The first that is wrong, or asks for help, is the last one looked at.
Take(parsed, token) ==
    CASE parsed.result # "success" -> parsed
      [] parsed.result = "success" /\ parsed.option \in Valued ->
            IF Valid(parsed.option, token)
            THEN [parsed EXCEPT !.options[parsed.option] = Value(parsed.option, token),
                                !.option = "none"]
            ELSE [parsed EXCEPT !.result = "error"]
      [] OTHER ->
            CASE token.text \in Valued           -> [parsed EXCEPT !.option = token.text]
              [] token.text = "--verbose"        -> parsed
              [] token.text = "--version"        -> [parsed EXCEPT !.result = "version"]
              [] token.text \in {"-h", "--help"} -> [parsed EXCEPT !.result = "help"]
              [] OTHER                           -> [parsed EXCEPT !.result = "error"]

\* What each command line comes to: a value that is missing and a missing file are
\* errors too.
parse_cli ==
    [tokens \in Argvs |->
        LET parsed == FoldLeft(Take, [result |-> "success", option |-> "none",
                                      options |-> Defaults], tokens)
        IN  IF /\ parsed.result = "success"
               /\ parsed.option # "none" \/ parsed.options["--jpeg-file"] = ""
            THEN [parsed EXCEPT !.result = "error"] ELSE parsed]
-----------------------------------------------------------------------------
SenderInit ==
    /\ platform \in {"posix", "windows"} /\ argv \in Argvs /\ options = Defaults
    /\ g_should_stop = FALSE /\ stage = "args"
    /\ frames_sent = 0 /\ socket = 0 /\ opened = 0
    /\ entries = 0 /\ jpeg_length = 0 /\ remaining = 0
    /\ file \in FileLengths /\ reachable \in BOOLEAN /\ peer = "none"
    /\ frames = [c \in Sockets |-> <<>>] /\ written = [c \in Sockets |-> 0]

\* The options and the platform: WSAStartup may fail.
Begin ==
    /\ stage = "args"
    /\ LET parsed == parse_cli[argv]
       IN  /\ options' = parsed.options
           /\ \/ parsed.result \in {"help", "version"} /\ stage' = "success"
              \/ parsed.result = "success" /\ stage' = "loop"
              \/ parsed.result = "error" /\ stage' = "failure"
              \/ parsed.result = "success" /\ platform = "windows" /\ stage' = "failure"
    /\ UNCHANGED <<g_should_stop, connection, frame, counters, history>>

\* Faulty variant: one frame too many.
MoreBeyond(sent) == options["--count"] = 0 \/ sent <= options["--count"]

More(sent) == options["--count"] = 0 \/ sent < options["--count"]

\* The head of the loop, and what follows it.
Loop ==
    /\ stage = "loop"
    /\ IF g_should_stop \/ ~More(frames_sent)
       THEN stage' = "success" /\ socket' = 0 /\ peer' = "none" /\ UNCHANGED entries
       ELSE /\ frames_sent < MaxFrames
            /\ UNCHANGED <<socket, peer>>
            /\ IF socket # 0
               THEN stage' = "open" /\ UNCHANGED entries
               ELSE /\ stage' = "connect"
                    /\ entries' \in {Addresses} \cup (IF reachable THEN {} ELSE {0})
    /\ UNCHANGED <<orders, frames_sent, opened, frame, history>>

Connected ==
    /\ stage = "connect" /\ entries \in Served /\ reachable
    /\ opened' = opened + 1 /\ socket' = opened + 1 /\ peer' = "reading"
    /\ stage' = "open" /\ entries' = 0
    /\ UNCHANGED <<orders, frames_sent, frame, history>>

\* Faulty variant: only the first address is tried.
NextOfFirst == stage' = "retry" /\ entries' = 0

\* The next address, or INVALID_SOCKET_HANDLE after the last.
NextAddress ==
    IF entries > 1 THEN entries' = entries - 1 /\ UNCHANGED stage
                   ELSE stage' = "retry" /\ entries' = 0

NotConnected ==
    /\ stage = "connect" /\ ~(entries \in Served /\ reachable)
    /\ NextAddress
    /\ UNCHANGED <<orders, connection, frame, frames_sent, opened, history>>

\* load_file_bytes, up to ftell.
OpenFile ==
    /\ stage = "open"
    /\ IF file = 0 THEN stage' = "retry" /\ UNCHANGED jpeg_length
                   ELSE stage' = "read" /\ jpeg_length' = file
    /\ UNCHANGED <<orders, connection, remaining, counters, history>>

TooLong == jpeg_length > options["--max-jpeg-bytes"]

\* fread and the check of the length.  A file that was replaced is still read as
\* it was; one that was cut short comes up short.
ReadFile ==
    /\ stage = "read"
    /\ \/ /\ ~TooLong /\ stage' = "header" /\ remaining' = PrefixLength
          /\ frames' = [frames EXCEPT ![socket] = Append(@, jpeg_length)]
          /\ UNCHANGED jpeg_length
       \/ /\ TooLong \/ file < jpeg_length
          /\ stage' = "retry" /\ jpeg_length' = 0 /\ UNCHANGED <<remaining, frames>>
    /\ UNCHANGED <<orders, connection, counters, written>>

\* send takes at least a byte: of a peer that reads, and of one that closed, as
\* long as its reset is not here.
Send ==
    /\ stage \in {"header", "payload"} /\ peer \in {"reading", "closed"}
    /\ \E bytes \in 1 .. remaining :
          /\ written' = [written EXCEPT ![socket] = @ + bytes]
          /\ \/ /\ bytes < remaining /\ remaining' = remaining - bytes
                /\ UNCHANGED <<stage, frames_sent, jpeg_length>>
             \/ /\ bytes = remaining /\ stage = "header"
                /\ stage' = "payload" /\ remaining' = jpeg_length
                /\ UNCHANGED <<frames_sent, jpeg_length>>
             \/ /\ bytes = remaining /\ stage = "payload"
                /\ frames_sent' = frames_sent + 1 /\ jpeg_length' = 0 /\ remaining' = 0
                /\ stage' = IF ~g_should_stop /\ More(frames_sent + 1) THEN "pace" ELSE "loop"
    /\ UNCHANGED <<orders, connection, entries, opened, frames>>

\* Faulty variant: the connection is used again after a failed send.
DropKept == UNCHANGED <<socket, peer>>

Drop == socket' = 0 /\ peer' = "none"

\* send fails, or, where SIGPIPE is not ignored, a reset ends the process.
SendFails ==
    /\ stage \in {"header", "payload"}
    /\ peer = "reset" \/ opened < MaxConnections
    /\ \/ stage' = "retry" /\ Drop
       \/ /\ platform = "posix" /\ peer = "reset"
          /\ stage' = "killed" /\ socket' = 0 /\ peer' = "none"
    /\ jpeg_length' = 0 /\ remaining' = 0
    /\ UNCHANGED <<orders, counters, history>>

\* Faulty variant: it goes on connecting without a look at g_should_stop.
AfterRetryConnect ==
    IF stage = "retry" /\ socket = 0 THEN stage' = "connect" /\ entries' = Addresses
                                     ELSE stage' = "loop" /\ UNCHANGED entries

\* continue, or the end of the loop's body.
AfterRetry == stage' = "loop" /\ UNCHANGED entries

\* sleep_ms is over, of 1000 / fps or of reconnect_delay_ms.
Wake ==
    /\ stage \in {"pace", "retry"}
    /\ AfterRetry
    /\ UNCHANGED <<orders, connection, frame, frames_sent, opened, history>>

Main ==
    /\ UNCHANGED <<platform, argv, world>>
    /\ \/ Begin \/ Loop \/ Connected \/ NotConnected \/ OpenFile \/ ReadFile
       \/ Send \/ SendFails \/ Wake
-----------------------------------------------------------------------------
\* Around it.

Ended == stage \in {"success", "failure", "killed"}

\* Before the handler is there a signal ends the process.
Signal ==
    /\ ~Ended /\ ~g_should_stop
    /\ IF stage = "args" THEN stage' = "killed" /\ UNCHANGED g_should_stop
                         ELSE g_should_stop' = TRUE /\ UNCHANGED stage
    /\ UNCHANGED <<options, connection, frame, counters, world, history>>

FileChanges ==
    /\ ~Ended
    /\ file' \in FileLengths \ {file}
    /\ UNCHANGED <<orders, stage, connection, frame, counters, reachable, history>>

ServiceChanges ==
    /\ ~Ended
    /\ reachable' = ~reachable
    /\ UNCHANGED <<orders, stage, connection, frame, counters, file, history>>

PeerChanges ==
    /\ \/ peer = "reading" /\ peer' = "stalled"
       \/ peer = "stalled" /\ peer' = "reading"
       \/ peer \in {"reading", "stalled"} /\ opened < MaxConnections /\ peer' = "closed"
       \/ peer \in {"reading", "stalled", "closed"} /\ opened < MaxConnections /\ peer' = "reset"
    /\ UNCHANGED <<orders, stage, socket, frame, counters, world, history>>

Around ==
    /\ UNCHANGED <<platform, argv>>
    /\ Signal \/ FileChanges \/ ServiceChanges \/ PeerChanges

SenderNext == Main \/ Around

SenderSpec == SenderInit /\ [][SenderNext]_sender

\* main goes on whenever it can; a send that peers let through from time to time
\* gets through.
FairSenderSpec == SenderSpec /\ SF_sender(Main)
-----------------------------------------------------------------------------
\* Properties.

\* Every variable has its type.
TypeOK ==
    /\ platform \in {"posix", "windows"} /\ argv \in Argvs /\ DOMAIN options = Valued
    /\ g_should_stop \in BOOLEAN
    /\ stage \in {"args", "loop", "connect", "open", "read", "header", "payload", "pace",
                  "retry", "success", "failure", "killed"}
    /\ frames_sent \in 0 .. MaxFrames /\ entries \in 0 .. Addresses
    /\ opened \in {0} \cup Sockets /\ socket \in {0, opened}
    /\ jpeg_length \in FileLengths \cup {0} /\ remaining \in Nat
    /\ file \in FileLengths /\ reachable \in BOOLEAN
    /\ peer \in {"none", "reading", "stalled", "closed", "reset"}
    /\ frames \in [Sockets -> Seq(FileLengths)] /\ written \in [Sockets -> Nat]

\* The positions of a command line that are values of the option before them.
Values(tokens) ==
    CHOOSE values \in SUBSET DOMAIN tokens :
        \A i \in DOMAIN tokens :
            i \in values <=> i > 1 /\ i - 1 \notin values /\ tokens[i - 1].text \in Valued

\* Those that are values of this option; the last of them counts.
Given(tokens, option) == {i \in Values(tokens) : tokens[i - 1].text = option}

Asked ==
    [tokens \in Argvs |-> [option \in Valued |->
        IF Given(tokens, option) = {} THEN Defaults[option]
        ELSE Value(option, tokens[Max(Given(tokens, option))])]]

\* The command lines that ask for frames: nothing in them is wrong or asks for
\* something else.
AsksForFrames ==
    {tokens \in Argvs :
        /\ \A i \in DOMAIN tokens \ Values(tokens) :
              \/ tokens[i].text = "--verbose"
              \/ /\ tokens[i].text \in Valued /\ i + 1 \in DOMAIN tokens
                 /\ Valid(tokens[i].text, tokens[i + 1])
        /\ Given(tokens, "--jpeg-file") # {}}

Producer == INSTANCE FrameProducer
    WITH Conns <- Sockets, HeaderLength <- PrefixLength,
         MaxLength <- Limits["--max-jpeg-bytes"][2], over <- 1 .. opened \ {socket}

\* Each connection carries whole frames and nothing else, however sends are split
\* and wherever they fail: after a cut frame there is never another byte.
ProducerSpec == Producer!ProducerSpec

Whole(c) ==
    {k \in DOMAIN frames[c] : Producer!Total(SubSeq(frames[c], 1, k)) <= written[c]}

\* It connects only if the command line was right; the frames it counts are those
\* that were written whole, over all the connections, none too long and none more
\* than asked for; and it stops by itself only when they are sent.
SendsAsAsked ==
    /\ opened > 0 =>
          /\ argv \in AsksForFrames
          /\ Asked[argv]["--count"] # 0 => frames_sent <= Asked[argv]["--count"]
    /\ frames_sent = Producer!Sum([c \in Sockets |-> Cardinality(Whole(c))])
    /\ \A c \in Sockets : \A k \in DOMAIN frames[c] : frames[c][k] <= Asked[argv]["--max-jpeg-bytes"]
    /\ stage = "success" /\ argv \in AsksForFrames =>
          g_should_stop \/ frames_sent = Asked[argv]["--count"]

\* A signal ends it, in whatever retry it is, unless its peer never reads again.
StopsWhenAsked == []<>(peer # "stalled") => (g_should_stop ~> Ended)

Favourable ==
    /\ file \in 1 .. options["--max-jpeg-bytes"] /\ reachable
    /\ socket # 0 => peer = "reading"

\* It ended by itself, or by a signal before the handler was there.
EndedAsAsked == stage \in {"success", "failure"} \/ (stage = "killed" /\ opened = 0)

GetsDone == Asked[argv]["--count"] \notin 1 .. MaxFrames \/ EndedAsAsked

\* Once the file, the service and its peer are as they should be, and stay so, the
\* frames asked for are sent and it ends, if it never meets the reset of a peer
\* where that raises SIGPIPE.
DeliversItsCount ==
    /\ [](platform = "windows" \/ peer # "reset")
    /\ <>[]Favourable /\ <>[][file' = file]_sender
    => <>GetsDone

\* Usage and log promise that a send that failed is followed by a reconnect: "Delay
\* before reconnect" (main.c:70), "Send failed (error=%d); reconnecting" (main.c:453).
\* So the frames asked for should be sent whatever happened to earlier connections.
DeliversThroughResets == <>[]Favourable /\ <>[][file' = file]_sender => <>GetsDone
=============================================================================
