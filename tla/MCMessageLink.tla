--------------------------- MODULE MCMessageLink ---------------------------
(* MessageLink with lines and payloads that look like each other's framing. *)
EXTENDS MessageLink

a == <<97>>

\* The empty line, an ordinary one, and one with a carriage return inside.
MCLines == {<<>>, <<a>>, <<a, <<CR>>, a>>}

\* The empty payload, one that looks like a text line, one that looks like the
\* header of a binary message, and one whose length takes two varint bytes.
MCPayloads == {<<>>, <<97, LF>>, <<SOH, BINARY_PROTOCOL_V1>>, <<LF, SOH, SOH, 2>>}

=============================================================================
