-------------------------- MODULE MCMessageStream --------------------------
(* MessageReader on every stream of a few well-chosen bytes.               *)
EXTENDS MessageStream

\* 0 is text and a length, 1 is SOH, the known version and a length, 2 is text, an unknown version, a length
\* and a payload byte; 195 and 129 are a two-byte character and varint bytes that
\* continue.
MCAlphabet == {0, SOH, 2, LF, CR, 129, 195}

=============================================================================
