-------------------------- MODULE BufferingHandler --------------------------
(* message.h: BufferingMessageHandler, the C++ handler with buffers of fixed *)
(* size, behind the loop of feed that MessageReader models.  Its reset() is *)
(* the reader's alone: the handler is not told.                             *)
EXTENDS MessageReader

CONSTANTS
    TextBufSize,
    BinaryBufSize

ASSUME BufferSizes == TextBufSize \in Nat /\ BinaryBufSize \in Nat

VARIABLES
    cpp_text,       \* _text_buf[0.._text_len)
    cpp_binary,     \* _binary_buf[0.._binary_len)
    cpp_messages    \* what on_text and on_binary were called with

cpp_vars == <<cpp_text, cpp_binary, cpp_messages>>

CppInit == cpp_text = <<>> /\ cpp_binary = <<>> /\ cpp_messages = <<>>

Cut(bytes, n) == SubSeq(bytes, 1, IF Len(bytes) < n THEN Len(bytes) ELSE n)

\* on_text_end strips the carriage return of what is left of the line.
CppLine(bytes) ==
    LET line == Cut(bytes, TextBufSize)
    IN  IF line # <<>> /\ Last(line) = CR THEN Front(line) ELSE line

\* on_text_data(chunk), then on_text_end() if the line ends
CppText(chunk, ends) ==
    /\ cpp_text' = IF ends THEN <<>> ELSE Cut(cpp_text \o chunk, TextBufSize)
    /\ cpp_messages' = IF ends THEN Append(cpp_messages, [kind |-> "text", body |-> CppLine(cpp_text \o chunk)])
                               ELSE cpp_messages
    /\ UNCHANGED cpp_binary

\* Mutation: on_binary_start leaves the buffer to on_binary_end.
AtBinaryStart_Keeps == cpp_binary

\* on_binary_start
AtBinaryStart == <<>>

\* The payload so far, with on_binary_data(chunk), and on_binary_end() if it ends
CppBinary(bytes, ends) ==
    LET payload == Cut(bytes, BinaryBufSize) IN
    /\ cpp_binary' = IF ends THEN <<>> ELSE payload
    /\ cpp_messages' = IF ends THEN Append(cpp_messages, Binary(payload)) ELSE cpp_messages
    /\ UNCHANGED cpp_text

\* The callbacks of one iteration of the loop of feed.
Callbacks ==
    LET ends == Len(messages') > Len(messages)
        text == IF AtText THEN SelectInSeq(data, Delimiter) ELSE 0
    IN  \/ /\ state \in {"IDLE", "TEXT"}
           /\ AtText \/ ends
           /\ CppText(IF ~AtText THEN <<>> ELSE IF text = 0 THEN data ELSE SubSeq(data, 1, text - 1), ends)
        \/ /\ state = "LENGTH" /\ state' # "LENGTH" /\ ~Continues(Head(data))
           /\ CppBinary(AtBinaryStart, ends)
        \/ /\ state = "PAYLOAD"
           /\ CppBinary(cpp_binary \o SubSeq(data, 1, PayloadTake), ends)
        \/ /\ state \in {"IDLE", "VERSION"} /\ ~AtText /\ ~ends
           /\ UNCHANGED cpp_vars
        \/ /\ state = "LENGTH" /\ Continues(Head(data))
           /\ UNCHANGED cpp_vars

=============================================================================
