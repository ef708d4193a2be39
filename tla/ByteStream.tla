----------------------------- MODULE ByteStream -----------------------------
(***************************************************************************)
(* What a transport promises to its reader (transport/base.py, Transport): *)
(* the bytes of the connection it holds, in order and without a gap.  With *)
(* a connection, what had not been read of it is lost.                     *)
(***************************************************************************)
EXTENDS Naturals, Sequences

VARIABLES
    conn,   \* number of the connection
    sent,   \* bytes the device has sent over it
    taken,  \* bytes read of it
    got     \* the bytes read, each as <<connection, position>>

stream_vars == <<conn, sent, taken, got>>

Init == conn = 0 /\ sent = 0 /\ taken = 0 /\ got = <<>>

Connect == conn' = conn + 1 /\ sent' = 0 /\ taken' = 0 /\ UNCHANGED got

Send == sent' > sent /\ sent' \in Nat /\ UNCHANGED <<conn, taken, got>>

\* One read returns some of the bytes that are next.
Receive ==
    /\ \E k \in 1..(sent - taken) :
        /\ got' = got \o [i \in 1..k |-> <<conn, taken + i>>]
        /\ taken' = taken + k
    /\ UNCHANGED <<conn, sent>>

Next == Connect \/ Send \/ Receive

Spec == Init /\ [][Next]_stream_vars

=============================================================================
