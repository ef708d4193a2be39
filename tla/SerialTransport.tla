--------------------------- MODULE SerialTransport ---------------------------
(* transport/serial.py: read and write of SerialTransport over a port that  *)
(* a USB device can take away at any moment, with all that was in flight.  *)
EXTENDS Transport

\* in_waiting > 0
ReadWaiting ==
    LET split == Split(wire) IN
    /\ at = "reading" /\ wire # <<>>
    /\ ReturnBytes(split[1])
    /\ wire' = split[2]
    /\ UNCHANGED <<handle, present, buffer, out>>

\* Mutation: the deadline is not looked at.
Late_Dropped == FALSE

Late == clock >= due

\* The deadline is looked at only when in_waiting did not raise.
ReadTimesOut ==
    /\ at = "reading" /\ handle = "open" /\ wire = <<>> /\ Late
    /\ ReturnBytes(<<>>)
    /\ UNCHANGED link_vars

\* in_waiting, write or flush raises.
PortFails ==
    /\ at \in {"reading", "writing", "flushing"} /\ handle = "dead"
    /\ ConnectionLost

\* ser.write(data)
WriteData ==
    /\ at = "writing" /\ handle = "open"
    /\ out' = Append(out, written)
    /\ at' = "flushing"
    /\ UNCHANGED <<handle, present, wire, buffer, call, size, clock, due, until, wake, retry>>
    /\ UNCHANGED <<reconnect, stream_vars, history_vars>>

\* ser.flush() returns when all is out.
Flush ==
    /\ at = "flushing" /\ handle = "open" /\ out = <<>>
    /\ Return(None)
    /\ UNCHANGED <<link_vars, stream_vars>>

PutBytes(bytes) == wire' = wire \o bytes

SerialHost == ReadWaiting \/ ReadTimesOut \/ PortFails \/ WriteData \/ Flush \/ Reconnecting

SerialPeer ==
    \/ \E n \in Chunks \ {0} : Sends(n, PutBytes)
    \/ Hears
    \/ \E stays \in BOOLEAN : Drops(stays, 0)
    \/ ComesBack

SerialNext == kind = "serial" /\ UNCHANGED kind /\ (Caller \/ SerialHost \/ SerialPeer \/ Tick)

=============================================================================
