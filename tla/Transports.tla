------------------------------ MODULE Transports ------------------------------
(* The two transports.  A behaviour uses one of them.                       *)
EXTENDS SerialTransport, WebSocketTransport

Next == SerialNext \/ WebSocketNext

Host ==
    /\ UNCHANGED kind
    /\ \/ kind = "serial" /\ SerialHost
       \/ kind = "websocket" /\ WebSocketHost

TimePasses == Tick /\ UNCHANGED kind

\* The caller's thread is scheduled and clocks run on.  Nothing is assumed of the
\* peer, nor of the caller.
Spec ==
    /\ TransportInit /\ [][Next]_transport_vars
    /\ WF_transport_vars(Host) /\ SF_transport_vars(TimePasses)

\* A read with a timeout returns if the connection is lost finitely often.
ReadsReturn == call = "read" ~> call # "read"

=============================================================================
