-------------------------- MODULE WebSocketTransport --------------------------
(* transport/websocket.py: read and write of WebSocketTransport.  The wire  *)
(* is a sequence of frames; recv takes a whole frame, and may still return *)
(* frames that came before the connection was closed.                      *)
EXTENDS Transport

\* _drain_buffer(size) of these bytes
DrainBuffer(bytes) ==
    /\ ReturnBytes(Split(bytes)[1])
    /\ buffer' = Split(bytes)[2]

\* What is buffered is returned whatever has become of the connection.
ReadBuffered ==
    /\ at = "reading" /\ buffer # <<>>
    /\ DrainBuffer(buffer)
    /\ UNCHANGED <<handle, present, wire, out>>

\* Mutation: recv is given the whole timeout again after a reconnect.
MayReceive_Restarted == at = "reading" /\ buffer = <<>> /\ (clock < due \/ reconnects > 0)

\* recv is called only while time remains.
MayReceive == at = "reading" /\ buffer = <<>> /\ clock < due

Receive ==
    /\ MayReceive /\ wire # <<>>
    /\ DrainBuffer(Head(wire))
    /\ wire' = Tail(wire)
    /\ UNCHANGED <<handle, present, out>>

ReceiveTimesOut ==
    /\ at = "reading" /\ buffer = <<>> /\ clock >= due
    /\ ReturnBytes(<<>>)
    /\ UNCHANGED link_vars

\* recv or send raises ConnectionClosed.
ReceiveFails ==
    /\ MayReceive /\ wire = <<>> /\ handle = "dead"
    /\ ConnectionLost

SendFails ==
    /\ at = "writing" /\ handle = "dead"
    /\ ConnectionLost

\* send returns when the frame is on its way.
SendFrame ==
    /\ at = "writing" /\ handle = "open"
    /\ out' = Append(out, written)
    /\ Return(None)
    /\ UNCHANGED <<handle, present, wire, buffer, stream_vars>>

PutFrame(bytes) == wire' = Append(wire, bytes)

WebSocketHost ==
    \/ ReadBuffered \/ Receive \/ ReceiveTimesOut \/ ReceiveFails
    \/ SendFails \/ SendFrame \/ Reconnecting

WebSocketPeer ==
    \/ \E n \in Chunks : Sends(n, PutFrame)
    \/ Hears
    \/ \E stays \in BOOLEAN, k \in 0..Len(wire) : Drops(stays, k)
    \/ ComesBack

WebSocketNext == kind = "websocket" /\ UNCHANGED kind /\ (Caller \/ WebSocketHost \/ WebSocketPeer \/ Tick)

=============================================================================
