--------------------------- MODULE Transports_proofs ---------------------------
(***************************************************************************)
(* Proofs about the two transports, for all sizes, chunks, frames, times   *)
(* and numbers of connections, writes and losses.                          *)
(*                                                                         *)
(* Both make most of their steps with the operators of Transport, so the   *)
(* first part says what these do to the byte stream, the calls, the        *)
(* commands, the time and the errors, for either of them.                  *)
(***************************************************************************)
EXTENDS Transports, SequenceTheorems, FiniteSetTheorems, TLAPS

\* The n bytes of the connection after the first `from`.
Bytes(from, n) == [i \in 1..n |-> <<conn, from + i>>]

\* The part of a transport's invariant that does not depend on where it keeps its
\* bytes: a connection is opened only where none is held.
HandleInv ==
    /\ conn \in Nat /\ sent \in Nat /\ taken \in Nat
    /\ got \in Seq(Byte)
    /\ size \in (Nat \ {0}) \cup {None}
    /\ call = "none" => at = "none"
    /\ at \in {"opening", "sleeping"} => handle = "none"

StreamStep == Stream!Next \/ UNCHANGED stream_vars

LEMMA BytesAreBytes ==
    ASSUME conn \in Nat, NEW from \in Nat, NEW n \in Nat
    PROVE  Bytes(from, n) \in Seq(Byte) /\ Len(Bytes(from, n)) = n
BY DEF Bytes, Byte

LEMMA SplitBytes ==
    ASSUME conn \in Nat, NEW from \in Nat, NEW n \in Nat, size \in (Nat \ {0}) \cup {None}
    PROVE  \E k \in 0..n : /\ Split(Bytes(from, n))[1] = Bytes(from, k)
                           /\ Split(Bytes(from, n))[2] = Bytes(from + k, n - k)
<1>1. Bytes(from, n) \in Seq(Byte) /\ Len(Bytes(from, n)) = n
  BY BytesAreBytes
<1>2. Bytes(from + n, n - n) = <<>>
  BY DEF Bytes
<1>3. CASE size = None \/ size >= n
  BY <1>1, <1>2, <1>3 DEF Split
<1>4. CASE ~(size = None \/ size >= n)
  <2>1. size \in 0..n
    BY <1>4
  <2>2. SubSeq(Bytes(from, n), 1, size) = Bytes(from, size)
    BY <1>1, <2>1 DEF Bytes
  <2>3. SubSeq(Bytes(from, n), size + 1, n) = Bytes(from + size, n - size)
    BY <1>1, <2>1, SMTT(60) DEF Bytes
  <2> QED BY <1>1, <1>4, <2>1, <2>2, <2>3 DEF Split
<1> QED BY <1>3, <1>4

\* A read that returns the next k bytes is a step of the stream.
LEMMA ReturnedIsReceived ==
    ASSUME HandleInv, NEW k \in Nat, taken + k <= sent, ReturnBytes(Bytes(taken, k))
    PROVE  /\ StreamStep
           /\ taken' = taken + k /\ got' \in Seq(Byte)
           /\ UNCHANGED <<conn, sent>>
<1>1. Bytes(taken, k) \in Seq(Byte) /\ Len(Bytes(taken, k)) = k
  BY BytesAreBytes DEF HandleInv
<1>2. got' = got \o Bytes(taken, k) /\ taken' = taken + k /\ UNCHANGED <<conn, sent>>
  BY <1>1 DEF ReturnBytes
<1>3. got' \in Seq(Byte)
  BY <1>1, <1>2 DEF HandleInv
<1>4. CASE k = 0
  <2>1. Bytes(taken, k) = <<>>
    BY <1>4 DEF Bytes
  <2>2. got' = got /\ taken' = taken
    BY <1>2, <1>4, <2>1 DEF HandleInv
  <2> QED BY <1>2, <1>3, <2>2 DEF StreamStep, stream_vars
<1>5. CASE k # 0
  <2>1. k \in 1..(sent - taken)
    BY <1>5 DEF HandleInv
  <2> QED BY <1>2, <1>3, <2>1 DEF StreamStep, Stream!Next, Stream!Receive, Bytes
<1> QED BY <1>4, <1>5

LEMMA OpenedIsConnect ==
    ASSUME HandleInv, Opened
    PROVE  StreamStep /\ conn' \in Nat /\ sent' = 0 /\ taken' = 0 /\ got' = got
BY DEF HandleInv, Opened, StreamStep, Stream!Next, Stream!Connect

LEMMA SentIsSend ==
    ASSUME HandleInv, NEW n \in Nat, sent' = sent + n, UNCHANGED <<conn, taken, got>>
    PROVE  StreamStep /\ sent' \in Nat
<1>1. CASE n = 0
  BY <1>1 DEF HandleInv, StreamStep, stream_vars
<1>2. CASE n # 0
  BY <1>2 DEF HandleInv, StreamStep, Stream!Next, Stream!Send
<1> QED BY <1>1, <1>2

-----------------------------------------------------------------------------
(* Calls.                                                                  *)

\* Where a call stands, and what it knows there; the clock is that of the call.
CallInv ==
    /\ TransportTypeOK
    /\ kind \in {"serial", "websocket"}
    /\ conn \in Nat /\ sent \in Nat /\ reconnects \in Nat
    /\ size \in (Nat \ {0}) \cup {None}
    /\ written \in 0..MaxWrites /\ (call = "write" => written # 0)
    /\ at \in {"opening", "sleeping"} => handle = "none" /\ reconnect /\ ~retry /\ reconnects # 0
    /\ retry \in BOOLEAN
    /\ retry => call = "write" /\ reconnect /\ reconnects # 0
    /\ at = "flushing" => kind = "serial"
    /\ call = "none" => clock = 0 /\ reconnects = 0

LEMMA Bounds ==
    /\ {MaxConnects, MaxSends, MaxWrites, MaxDrops} \subseteq Nat
    /\ OpenTimeout \in Nat \ {0} /\ ReconnectTimeout \in Nat \ {0} /\ ReconnectInterval \in Nat \ {0}
    /\ None \notin Nat /\ None # "raw" /\ None # "ConnectionError"
BY TransportTimes, BoundsAssumption, NoneAssumption

LEMMA InitCall == TransportInit => CallInv
<1> SUFFICES ASSUME TransportInit PROVE CallInv
  OBVIOUS
<1>1. /\ wire \in Seq(IF kind = "serial" THEN Byte ELSE Seq(Byte))
      /\ buffer \in Seq(Byte) /\ out \in Seq(Command)
  BY DEF TransportInit
<1>2. TransportTypeOK
  BY <1>1 DEF TransportInit, TransportTypeOK
<1>3. 0 \in 0..MaxWrites
  BY Bounds
<1> QED BY <1>2, <1>3 DEF TransportInit, CallInv

LEMMA TypedSame ==
    ASSUME TransportTypeOK, UNCHANGED <<kind, reconnect, link_vars, call, at, clock, due, until, wake, retry, raised>>
    PROVE  TransportTypeOK'
BY DEF TransportTypeOK, link_vars

\* What is received is of the right type, however a read is cut.
LEMMA SplitType ==
    ASSUME NEW T, NEW bytes \in Seq(T), size \in (Nat \ {0}) \cup {None}
    PROVE  Split(bytes)[1] \in Seq(T) /\ Split(bytes)[2] \in Seq(T)
<1>1. CASE size = None \/ size >= Len(bytes)
  BY <1>1 DEF Split
<1>2. CASE ~(size = None \/ size >= Len(bytes))
  <2>1. size \in Nat /\ size >= 1 /\ size < Len(bytes) /\ Len(bytes) \in Nat
    BY <1>2
  <2>2. SubSeq(bytes, 1, size) \in Seq(T) /\ SubSeq(bytes, size + 1, Len(bytes)) \in Seq(T)
    BY <2>1
  <2> QED BY <1>2, <2>2 DEF Split
<1> QED BY <1>1, <1>2

LEMMA OpenedCall ==
    ASSUME CallInv, handle = "none", Opened,
           UNCHANGED <<kind, reconnect, reconnects, size, written, raised, call, clock, due>>,
           \/ call = "none" /\ UNCHANGED <<at, until, wake, retry>>
           \/ /\ at = "opening" /\ at' = (IF call = "read" THEN "reading" ELSE "writing")
              /\ retry' = (call = "write") /\ until' = 0 /\ wake' = 0
    PROVE  CallInv'
<1>1. /\ handle' = "open" /\ conn' = conn + 1 /\ sent' = 0
      /\ UNCHANGED <<present, wire, buffer, out>>
  BY DEF Opened
<1>2. retry' \in BOOLEAN
  BY DEF CallInv
<1>3. TransportTypeOK'
  BY <1>1 DEF CallInv, TransportTypeOK
<1>4. /\ conn' \in Nat /\ sent' \in Nat /\ reconnects' \in Nat
      /\ size' \in (Nat \ {0}) \cup {None}
      /\ written' \in 0..MaxWrites /\ (call' = "write" => written' # 0)
  BY <1>1 DEF CallInv
<1>5. /\ at' \notin {"opening", "sleeping"}
      /\ retry' => call' = "write" /\ reconnect' /\ reconnects' # 0
      /\ at' = "flushing" => kind' = "serial"
  BY DEF CallInv, TransportTypeOK
<1> QED BY <1>2, <1>3, <1>4, <1>5 DEF CallInv

LEMMA ReturnCall ==
    ASSUME CallInv, NEW error \in {None, "ConnectionError", "raw"}, Return(error), UNCHANGED <<kind, conn, sent>>,
           /\ handle' = handle /\ present' = present
           /\ wire' \in Seq(IF kind = "serial" THEN Byte ELSE Seq(Byte))
           /\ buffer' \in Seq(Byte) /\ out' \in Seq(Command)
           /\ kind = "serial" => buffer' = <<>>
           /\ handle = "none" => wire' = <<>> /\ buffer' = <<>> /\ out' = <<>>
    PROVE  CallInv'
<1>1. /\ call' = "none" /\ at' = "none" /\ size' = None /\ clock' = 0 /\ due' = 0 /\ until' = 0
      /\ wake' = 0 /\ retry' = FALSE /\ reconnects' = 0
      /\ raised' = IF call = "write" THEN error ELSE raised
      /\ UNCHANGED <<reconnect, written>>
  BY DEF Return
<1>2. TransportTypeOK'
  BY <1>1 DEF CallInv, TransportTypeOK
<1> QED BY <1>1, <1>2 DEF CallInv

LEMMA LostCall ==
    ASSUME CallInv, handle = "dead", at \in {"reading", "writing", "flushing"}, ConnectionLost, kind' = kind
    PROVE  CallInv'
<1>1. CASE MayReconnect
  <2>1. /\ handle' = "none" /\ wire' = <<>> /\ out' = <<>> /\ buffer' = <<>>
        /\ at' = "opening" /\ until' = clock + ReconnectTimeout /\ wake' = clock + OpenTimeout
        /\ UNCHANGED <<present, call, size, clock, due, retry>>
        /\ reconnects' = reconnects + 1
        /\ UNCHANGED <<reconnect, conn, sent, written, raised>>
    BY <1>1 DEF ConnectionLost, Closed, Attempt, stream_vars
  <2>2. reconnect /\ ~retry
    BY <1>1 DEF MayReconnect
  <2>3. /\ wire' \in Seq(IF kind = "serial" THEN Byte ELSE Seq(Byte))
        /\ buffer' \in Seq(Byte) /\ out' \in Seq(Command)
    BY <2>1
  <2>4. until' \in Nat /\ wake' \in Nat
    BY <2>1, Bounds, SMTT(60) DEF CallInv, TransportTypeOK
  <2>5. TransportTypeOK'
    BY <2>1, <2>2, <2>3, <2>4 DEF CallInv, TransportTypeOK
  <2> QED BY <2>1, <2>2, <2>5 DEF CallInv, TransportTypeOK
<1>2. CASE ~MayReconnect
  <2>1. Return(LossError) /\ UNCHANGED <<link_vars, stream_vars>>
    BY <1>2 DEF ConnectionLost
  <2> QED BY <2>1, ReturnCall DEF LossError, link_vars, stream_vars, CallInv, TransportTypeOK
<1> QED BY <1>1, <1>2

LEMMA ReconnectingCall ==
    ASSUME CallInv, Reconnecting, kind' = kind
    PROVE  CallInv'
<1>1. CASE AttemptSucceeds
  BY <1>1, OpenedCall DEF AttemptSucceeds, CallInv, history_vars
<1>2. CASE AttemptFails \/ AttemptAgain
  <2>1. /\ at \in {"opening", "sleeping"} /\ at' \in {"opening", "sleeping"}
        /\ UNCHANGED <<call, size, clock, due, until, retry, reconnect>>
        /\ UNCHANGED <<handle, present, wire, buffer, out, conn, sent, written, raised, reconnects>>
        /\ wake' = clock + ReconnectInterval \/ wake' = clock + OpenTimeout
    BY <1>2 DEF AttemptFails, AttemptAgain, Attempt, link_vars, stream_vars, history_vars
  <2>2. wake' \in Nat
    BY <2>1, Bounds DEF CallInv, TransportTypeOK
  <2>3. TransportTypeOK'
    BY <2>1, <2>2 DEF CallInv, TransportTypeOK
  <2> QED BY <2>1, <2>3 DEF CallInv
<1>3. CASE ReconnectFails
  BY <1>3, ReturnCall DEF ReconnectFails, link_vars, stream_vars, CallInv, TransportTypeOK
<1> QED BY <1>1, <1>2, <1>3 DEF Reconnecting

LEMMA CallerCall ==
    ASSUME CallInv, Caller, kind' = kind
    PROVE  CallInv'
<1>1. CASE Connect
  BY <1>1, OpenedCall DEF Connect, Idle, call_vars, history_vars
<1>2. CASE Disconnect
  <2>1. /\ handle' = "none" /\ wire' = <<>> /\ out' = <<>> /\ buffer' = <<>> /\ call = "none"
        /\ UNCHANGED <<present, reconnect, call, at, size, clock, due, until, wake, retry>>
        /\ UNCHANGED <<conn, sent, written, raised, reconnects>>
    BY <1>2 DEF Disconnect, Closed, Idle, call_vars, stream_vars, history_vars
  <2>2. /\ wire' \in Seq(IF kind = "serial" THEN Byte ELSE Seq(Byte))
        /\ buffer' \in Seq(Byte) /\ out' \in Seq(Command)
    BY <2>1
  <2>3. TransportTypeOK'
    BY <2>1, <2>2 DEF CallInv, TransportTypeOK
  <2> QED BY <2>1, <2>3 DEF CallInv, TransportTypeOK
<1>3. ASSUME NEW n \in Sizes, NEW timeout \in Timeouts, Read(n, timeout) PROVE CallInv'
  <2>1. /\ handle # "none" /\ call = "none" /\ call' = "read" /\ at' = "reading" /\ size' = n /\ due' = timeout
        /\ UNCHANGED <<clock, until, wake, retry, reconnect, handle, present, wire, buffer, out>>
        /\ UNCHANGED <<conn, sent, written, raised, reconnects>>
    BY <1>3 DEF Read, Begin, Idle, link_vars, stream_vars
  <2>2. due' \in Nat /\ size' \in (Nat \ {0}) \cup {None}
    BY <2>1, TransportTimes
  <2>3. TransportTypeOK'
    BY <2>1, <2>2 DEF CallInv, TransportTypeOK
  <2> QED BY <2>1, <2>2, <2>3 DEF CallInv, TransportTypeOK
<1>4. CASE Write
  <2>1. /\ handle # "none" /\ call = "none" /\ call' = "write" /\ at' = "writing" /\ size' = None /\ due' = 0
        /\ UNCHANGED <<clock, until, wake, retry, reconnect, handle, present, wire, buffer, out>>
        /\ UNCHANGED <<conn, sent, raised, reconnects>>
        /\ written < MaxWrites /\ written' = written + 1
    BY <1>4 DEF Write, Begin, Idle, link_vars, stream_vars
  <2>2. written' \in 0..MaxWrites /\ written' # 0
    BY <2>1, Bounds DEF CallInv
  <2>3. TransportTypeOK'
    BY <2>1 DEF CallInv, TransportTypeOK
  <2> QED BY <2>1, <2>2, <2>3 DEF CallInv, TransportTypeOK
<1> QED BY <1>1, <1>2, <1>3, <1>4 DEF Caller

LEMMA TickCall ==
    ASSUME CallInv, Tick, kind' = kind
    PROVE  CallInv'
<1>1. /\ clock' = clock + 1
      /\ UNCHANGED <<call, at, size, due, until, wake, retry, reconnect, handle, present, wire, buffer, out>>
      /\ UNCHANGED <<conn, sent, written, raised, reconnects>>
  BY DEF Tick, link_vars, stream_vars, history_vars
<1>2. TransportTypeOK'
  BY <1>1 DEF CallInv, TransportTypeOK
<1>3. call # "none"
  BY DEF Tick, CallInv, TransportTypeOK
<1> QED BY <1>1, <1>2, <1>3 DEF CallInv

\* What the peer does to the wire keeps its type; the rest is the same for both.
LEMMA PeerCall ==
    ASSUME CallInv, kind' = kind,
           UNCHANGED PeerVars, buffer' = buffer, conn' = conn, sent' \in Nat,
           wire' \in Seq(IF kind = "serial" THEN Byte ELSE Seq(Byte)),
           out' \in Seq(Command), handle = "none" => wire' = <<>> /\ out' = <<>>,
           present' \in BOOLEAN, handle' = handle \/ (handle = "open" /\ handle' = "dead")
    PROVE  CallInv'
<1>1. UNCHANGED <<reconnect, call, at, size, clock, due, until, wake, retry, written, raised, reconnects>>
  BY DEF PeerVars, call_vars
<1>2. TransportTypeOK'
  BY <1>1 DEF CallInv, TransportTypeOK
<1> QED BY <1>1, <1>2 DEF CallInv, TransportTypeOK

LEMMA SameCall ==
    ASSUME CallInv, UNCHANGED transport_vars
    PROVE  CallInv'
<1>1. TransportTypeOK'
  BY TypedSame DEF CallInv, transport_vars, call_vars, history_vars
<1> QED BY <1>1 DEF CallInv, transport_vars, link_vars, call_vars, stream_vars, history_vars

-----------------------------------------------------------------------------
(* Commands.                                                               *)

Unheard == \A i \in DOMAIN heard : heard[i][2] # written
HeardOnce == \A i, j \in DOMAIN heard : heard[i][2] = written /\ heard[j][2] = written => i = j
HeardBefore == \A i \in DOMAIN heard : heard[i][2] = written => heard[i][1] # conn
WasHeard == \E i \in DOMAIN heard : heard[i][2] = written

\* A serial port holds at most the command that is being written.
SerialHeard ==
    /\ out # <<>> => at = "flushing" /\ handle = "open" /\ Len(out) = 1 /\ out[1] = written
    /\ call = "write" /\ ~retry => HeardOnce
    /\ call = "write" /\ ~retry /\ (at = "writing" \/ out # <<>>) => Unheard
    /\ retry /\ (at = "writing" \/ out # <<>>) => HeardOnce /\ HeardBefore
    /\ at = "flushing" /\ handle = "open" => out # <<>> \/ WasHeard
    /\ call # "write" /\ raised = None /\ written > 0 => WasHeard

\* A WebSocket may hold commands of earlier writes, but the one being written has
\* never left.
WebSocketHeard ==
    /\ \A j, k \in DOMAIN out : j < k => out[j] < out[k]
    /\ \A k \in DOMAIN out : out[k] <= written
    /\ \A i \in DOMAIN heard, k \in DOMAIN out : heard[i][2] < out[k]
    /\ call = "write" => Unheard /\ \A k \in DOMAIN out : out[k] # written

HeardInv ==
    /\ heard \in Seq(Nat \X Command)
    /\ \A i \in DOMAIN heard : heard[i][1] <= conn /\ heard[i][2] <= written
    /\ \A i, j \in DOMAIN heard : i < j => heard[i][2] <= heard[j][2]
    /\ \A i, j \in DOMAIN heard :
        i # j /\ heard[i][2] = heard[j][2] => kind = "serial" /\ reconnect /\ heard[i][1] # heard[j][1]
    /\ \A i, j, k \in DOMAIN heard :
        heard[i][2] = heard[j][2] /\ heard[j][2] = heard[k][2] => i = j \/ j = k \/ i = k
    /\ kind = "serial" => SerialHeard
    /\ kind = "websocket" => WebSocketHeard

LEMMA TwoAtMost ==
    ASSUME NEW S, IsFiniteSet(S), \A i, j, k \in S : i = j \/ j = k \/ i = k
    PROVE  Cardinality(S) <= 2
<1>1. CASE S = {}
  BY <1>1, FS_EmptySet
<1>2. ASSUME NEW a \in S, S \subseteq {a} PROVE Cardinality(S) <= 2
  <2>1. S = {a}
    BY <1>2
  <2> QED BY <2>1, FS_Singleton
<1>3. ASSUME NEW a \in S, NEW b \in S, a # b PROVE Cardinality(S) <= 2
  <2>1. S = {a} \cup {b}
    BY <1>3
  <2>2. IsFiniteSet({a}) /\ Cardinality({a}) = 1
    BY FS_Singleton
  <2>3. Cardinality({a} \cup {b}) = Cardinality({a}) + 1
    BY <1>3, <2>2, FS_AddElement
  <2> QED BY <2>1, <2>2, <2>3
<1> QED BY <1>1, <1>2, <1>3

LEMMA HeardInvIsEnough ==
    ASSUME CallInv, HeardInv
    PROVE  HeardAsWritten
<1>1. DOMAIN heard = 1..Len(heard) /\ Len(heard) \in Nat
  BY DEF HeardInv
<1>2. ASSUME NEW c \in Command PROVE Cardinality(HeardAs(c)) <= 2
  <2>1. IsFiniteSet(1..Len(heard))
    BY <1>1, FS_Interval
  <2>2. IsFiniteSet(HeardAs(c))
    BY <1>1, <2>1, FS_Subset DEF HeardAs
  <2>3. \A i, j, k \in HeardAs(c) : i = j \/ j = k \/ i = k
    BY DEF HeardAs, HeardInv
  <2> QED BY <2>2, <2>3, TwoAtMost
<1>3. \A c \in Command : \A i, j \in HeardAs(c) :
        i # j => kind = "serial" /\ reconnect /\ heard[i][1] # heard[j][1]
  BY DEF HeardAs, HeardInv
<1>4. kind = "serial" /\ call # "write" /\ written > 0 /\ raised = None => HeardAs(written) # {}
  BY DEF HeardAs, HeardInv, SerialHeard, WasHeard
<1> QED BY <1>2, <1>3, <1>4 DEF HeardAsWritten, HeardInv

LEMMA InitHeard == TransportInit => HeardInv
<1> SUFFICES ASSUME TransportInit PROVE HeardInv
  OBVIOUS
<1>1. heard = <<>> /\ out = <<>> /\ DOMAIN heard = {} /\ DOMAIN out = {} /\ at = "none" /\ call = "none"
      /\ retry = FALSE /\ written = 0
  BY DEF TransportInit
<1>2. heard \in Seq(Nat \X Command)
  BY <1>1
<1>3. SerialHeard /\ WebSocketHeard
  BY <1>1 DEF SerialHeard, WebSocketHeard, Unheard, HeardOnce, HeardBefore
<1> QED BY <1>1, <1>2, <1>3 DEF HeardInv

\* Steps of which the commands take no notice: the five facts on all that was heard
\* stay, and those of the running call are left to be shown.
LEMMA HeardKept ==
    ASSUME CallInv, HeardInv, UNCHANGED <<kind, reconnect, heard>>, conn' \in Nat, conn' >= conn,
           written' \in Nat, written' >= written,
           kind = "serial" => SerialHeard', kind = "websocket" => WebSocketHeard'
    PROVE  HeardInv'
<1>1. \A i \in DOMAIN heard : heard[i][1] \in Nat /\ heard[i][2] \in Nat
  BY Bounds DEF HeardInv, Command
<1>2. \A i \in DOMAIN heard : heard[i][1] <= conn' /\ heard[i][2] <= written'
  BY <1>1 DEF HeardInv, CallInv
<1> QED BY <1>2 DEF HeardInv

\* Nothing that the facts on commands look at changes but the handle, the place and
\* the connection.
LEMMA HeardStands ==
    ASSUME CallInv, CallInv', HeardInv, UNCHANGED <<kind, reconnect, heard, written, conn>>,
           UNCHANGED <<call, raised, retry, out, handle>>,
           UNCHANGED at \/ (at \in {"opening", "sleeping"} /\ at' \in {"opening", "sleeping"})
    PROVE  HeardInv'
<1>1. written \in Nat /\ conn \in Nat
  BY DEF CallInv
<1>2. kind = "serial" => SerialHeard'
  BY DEF HeardInv, SerialHeard, HeardOnce, HeardBefore, Unheard, WasHeard
<1>3. kind = "websocket" => WebSocketHeard'
  BY DEF HeardInv, WebSocketHeard, Unheard
<1> QED BY <1>1, <1>2, <1>3, HeardKept

LEMMA OpenedHeard ==
    ASSUME CallInv, CallInv', HeardInv, handle = "none", Opened,
           UNCHANGED <<kind, reconnect, heard, written, raised, call>>,
           \/ call = "none" /\ UNCHANGED <<at, retry>>
           \/ /\ at = "opening" /\ at' = (IF call = "read" THEN "reading" ELSE "writing")
              /\ retry' = (call = "write")
    PROVE  HeardInv'
<1>1. /\ conn' = conn + 1 /\ out = <<>> /\ out' = <<>> /\ conn \in Nat /\ written \in Nat
  BY DEF Opened, CallInv, TransportTypeOK
<1>2. \A i \in DOMAIN heard : heard[i][1] # conn'
  BY <1>1 DEF HeardInv
<1>3. kind = "serial" => SerialHeard'
  <2> SUFFICES ASSUME SerialHeard PROVE SerialHeard'
    BY DEF HeardInv
  <2>1. HeardBefore'
    BY <1>2 DEF HeardBefore
  <2>2. call = "write" => at = "opening" /\ ~retry /\ HeardOnce /\ retry'
    BY DEF SerialHeard, CallInv
  <2>3. HeardOnce' <=> HeardOnce
    BY DEF HeardOnce
  <2>4. WasHeard' <=> WasHeard
    BY DEF WasHeard
  <2>5. at' # "flushing" /\ (call # "write" => ~retry')
    BY DEF CallInv, TransportTypeOK
  <2> QED BY <1>1, <2>1, <2>2, <2>3, <2>4, <2>5 DEF SerialHeard
<1>4. kind = "websocket" => WebSocketHeard'
  BY <1>1 DEF HeardInv, WebSocketHeard, Unheard
<1> QED BY <1>1, <1>3, <1>4, HeardKept

\* A call that ends in an error, or is no write.
LEMMA ReturnHeard ==
    ASSUME CallInv, CallInv', HeardInv, NEW error, Return(error), UNCHANGED <<kind, conn, handle, out>>,
           call = "write" => error # None, call = "write" => out = <<>> \/ kind = "websocket"
    PROVE  HeardInv'
<1>1. /\ call' = "none" /\ at' = "none" /\ retry' = FALSE
      /\ raised' = IF call = "write" THEN error ELSE raised
      /\ UNCHANGED <<reconnect, written, heard>>
  BY DEF Return
<1>2. conn \in Nat /\ written \in Nat
  BY DEF CallInv
<1>3. kind = "serial" => SerialHeard'
  <2> SUFFICES ASSUME kind = "serial", SerialHeard PROVE SerialHeard'
    BY DEF HeardInv
  <2>1. out' = <<>>
    BY DEF SerialHeard, CallInv, TransportTypeOK
  <2>2. raised' = None => call # "write" /\ raised = None
    BY <1>1
  <2> QED BY <1>1, <2>1, <2>2 DEF SerialHeard, WasHeard
<1>4. kind = "websocket" => WebSocketHeard'
  BY <1>1 DEF HeardInv, WebSocketHeard
<1> QED BY <1>1, <1>2, <1>3, <1>4, HeardKept

LEMMA LostHeard ==
    ASSUME CallInv, CallInv', HeardInv, handle = "dead", at \in {"reading", "writing", "flushing"},
           ConnectionLost, kind' = kind
    PROVE  HeardInv'
<1>0. kind = "serial" => out = <<>>
  BY DEF HeardInv, SerialHeard
<1>1. CASE MayReconnect
  <2>1. /\ out' = <<>> /\ handle' = "none" /\ at' = "opening"
        /\ UNCHANGED <<reconnect, call, retry, conn, written, raised, heard>>
    BY <1>1 DEF ConnectionLost, Closed, Attempt, stream_vars
  <2>2. ~retry /\ conn \in Nat /\ written \in Nat
    BY <1>1 DEF MayReconnect, CallInv
  <2>3. kind = "serial" => SerialHeard'
    BY <2>1, <2>2 DEF HeardInv, SerialHeard, HeardOnce, WasHeard
  <2>4. kind = "websocket" => WebSocketHeard'
    BY <2>1 DEF HeardInv, WebSocketHeard, Unheard
  <2> QED BY <2>1, <2>2, <2>3, <2>4, HeardKept
<1>2. CASE ~MayReconnect
  <2>1. Return(LossError) /\ UNCHANGED <<link_vars, stream_vars>>
    BY <1>2 DEF ConnectionLost
  <2>2. LossError # None
    BY Bounds DEF LossError
  <2>3. kind = "serial" \/ kind = "websocket"
    BY DEF CallInv
  <2> QED BY <1>0, <2>1, <2>2, <2>3, ReturnHeard DEF link_vars, stream_vars
<1> QED BY <1>1, <1>2

LEMMA ReconnectingHeard ==
    ASSUME CallInv, CallInv', HeardInv, Reconnecting, kind' = kind
    PROVE  HeardInv'
<1>1. CASE AttemptSucceeds
  BY <1>1, OpenedHeard DEF AttemptSucceeds, CallInv, history_vars
<1>2. CASE AttemptFails \/ AttemptAgain
  BY <1>2, HeardStands DEF AttemptFails, AttemptAgain, Attempt, link_vars, stream_vars, history_vars
<1>3. CASE ReconnectFails
  <2>1. out = <<>>
    BY <1>3 DEF ReconnectFails, CallInv, TransportTypeOK
  <2> QED BY <1>3, <2>1, ReturnHeard, Bounds DEF ReconnectFails, link_vars, stream_vars
<1> QED BY <1>1, <1>2, <1>3 DEF Reconnecting

LEMMA CallerHeard ==
    ASSUME CallInv, CallInv', HeardInv, Caller, kind' = kind
    PROVE  HeardInv'
<1>0. written \in Nat /\ conn \in Nat
  BY DEF CallInv
<1>1. CASE Connect
  BY <1>1, OpenedHeard DEF Connect, Idle, call_vars, history_vars
<1>2. CASE Disconnect
  <2>1. /\ call = "none" /\ out' = <<>> /\ at' = at /\ UNCHANGED <<reconnect, call, retry, conn, written, raised, heard>>
        /\ at # "flushing" /\ at # "writing" /\ ~retry
    BY <1>2 DEF Disconnect, Closed, Idle, call_vars, stream_vars, history_vars, CallInv, TransportTypeOK
  <2>2. kind = "serial" => SerialHeard'
    BY <2>1 DEF HeardInv, SerialHeard, WasHeard
  <2>3. kind = "websocket" => WebSocketHeard'
    BY <2>1 DEF HeardInv, WebSocketHeard
  <2> QED BY <1>0, <2>1, <2>2, <2>3, HeardKept
<1>3. ASSUME NEW n \in Sizes, NEW timeout \in Timeouts, Read(n, timeout) PROVE HeardInv'
  <2>1. /\ call = "none" /\ call' = "read" /\ at' = "reading"
        /\ UNCHANGED <<reconnect, retry, conn, written, raised, heard, out, handle>>
        /\ at # "flushing" /\ ~retry
    BY <1>3 DEF Read, Begin, Idle, link_vars, stream_vars, CallInv, TransportTypeOK
  <2>2. kind = "serial" => SerialHeard'
    BY <2>1 DEF HeardInv, SerialHeard, WasHeard
  <2>3. kind = "websocket" => WebSocketHeard'
    BY <2>1 DEF HeardInv, WebSocketHeard
  <2> QED BY <1>0, <2>1, <2>2, <2>3, HeardKept
<1>4. CASE Write
  <2>1. /\ call = "none" /\ call' = "write" /\ at' = "writing" /\ written' = written + 1
        /\ UNCHANGED <<reconnect, retry, conn, raised, heard, out, handle>>
        /\ at # "flushing" /\ ~retry
    BY <1>4 DEF Write, Begin, Idle, link_vars, stream_vars, CallInv, TransportTypeOK
  <2>2. \A i \in DOMAIN heard : heard[i][2] \in Nat /\ heard[i][2] <= written
    BY Bounds DEF HeardInv, Command
  <2>3. Unheard'
    BY <1>0, <2>1, <2>2 DEF Unheard
  <2>4. HeardOnce'
    BY <1>0, <2>1, <2>2 DEF HeardOnce
  <2>5. kind = "serial" => SerialHeard'
    BY <2>1, <2>3, <2>4 DEF HeardInv, SerialHeard
  <2>6. kind = "websocket" => WebSocketHeard'
    <3> SUFFICES ASSUME WebSocketHeard PROVE WebSocketHeard'
      BY DEF HeardInv
    <3>1. \A k \in DOMAIN out : out[k] \in Nat /\ out[k] <= written
      <4>1. out \in Seq(Command) /\ \A x \in Command : x \in Nat
        BY Bounds DEF CallInv, TransportTypeOK, Command
      <4> QED BY <4>1 DEF WebSocketHeard
    <3>2. \A k \in DOMAIN out : out[k] # written' /\ out[k] <= written'
      BY <1>0, <2>1, <3>1
    <3> QED BY <2>1, <2>3, <3>2 DEF WebSocketHeard
  <2>7. written' \in Nat /\ written' >= written
    BY <1>0, <2>1
  <2> QED BY <1>0, <2>1, <2>5, <2>6, <2>7, HeardKept
<1> QED BY <1>1, <1>2, <1>3, <1>4 DEF Caller

\* The device takes the next command.
LEMMA HearsHeard ==
    ASSUME CallInv, CallInv', HeardInv, Hears, kind' = kind
    PROVE  HeardInv'
<1> DEFINE n == Len(heard)
           c == Head(out)
<1>1. /\ out # <<>> /\ heard' = Append(heard, <<conn, c>>) /\ out' = Tail(out)
      /\ UNCHANGED <<reconnect, call, at, retry, conn, written, raised, handle>>
  BY DEF Hears, PeerVars, call_vars
<1>2. /\ n \in Nat /\ DOMAIN heard = 1..n /\ heard \in Seq(Nat \X Command) /\ conn \in Nat /\ written \in Nat
      /\ out \in Seq(Command) /\ \A x \in Command : x \in Nat
      /\ kind \in {"serial", "websocket"}
  <2>1. n \in Nat /\ DOMAIN heard = 1..n /\ heard \in Seq(Nat \X Command)
    BY DEF HeardInv
  <2>2. conn \in Nat /\ written \in Nat /\ kind \in {"serial", "websocket"}
    BY Bounds DEF CallInv
  <2>3. out \in Seq(Command)
    BY DEF CallInv, TransportTypeOK
  <2>4. \A x \in Command : x \in Nat
    BY DEF Command
  <2> QED BY <2>1, <2>2, <2>3, <2>4
<1>3. c \in Command /\ c = out[1] /\ 1 \in DOMAIN out /\ c \in Nat
  BY <1>1, <1>2
<1>4. \A i \in 1..n : heard[i][1] \in Nat /\ heard[i][2] \in Nat /\ heard[i][1] <= conn /\ heard[i][2] <= written
  BY <1>2 DEF HeardInv
<1> HIDE DEF n, c
<1>5. /\ heard' \in Seq(Nat \X Command) /\ DOMAIN heard' = 1..(n + 1)
      /\ \A i \in 1..n : heard'[i] = heard[i]
      /\ heard'[n + 1][1] = conn /\ heard'[n + 1][2] = c
  BY <1>1, <1>2, <1>3 DEF n
<1>6. \A i \in DOMAIN heard' : i \in 1..n \/ i = n + 1
  BY <1>2, <1>5
<1>7. /\ c <= written
      /\ \A i \in 1..n : heard[i][2] <= c
      /\ \A i \in 1..n : heard[i][2] = c => kind = "serial" /\ reconnect /\ heard[i][1] # conn
      /\ \A i, j \in 1..n : heard[i][2] = c /\ heard[j][2] = c => i = j
  <2>1. CASE kind = "serial"
    <3>1. /\ c = written /\ (call = "write" \/ retry)
          /\ ~retry => Unheard
          /\ retry => HeardOnce /\ HeardBefore /\ reconnect
      BY <1>1, <1>3, <2>1 DEF HeardInv, SerialHeard, CallInv, TransportTypeOK
    <3>2. \A i \in 1..n : heard[i][2] = c => retry
      BY <1>2, <3>1 DEF Unheard
    <3>3. \A i \in 1..n : heard[i][2] = c => heard[i][1] # conn
      BY <1>2, <3>1, <3>2 DEF HeardBefore
    <3>4. \A i, j \in 1..n : heard[i][2] = c /\ heard[j][2] = c => i = j
      BY <1>2, <3>1, <3>2 DEF HeardOnce
    <3>5. c <= written /\ \A i \in 1..n : heard[i][2] <= c
      BY <1>2, <1>4, <3>1
    <3> QED BY <2>1, <3>1, <3>2, <3>3, <3>4, <3>5
  <2>2. CASE kind = "websocket"
    <3>1. c <= written /\ \A i \in 1..n : heard[i][2] < c
      BY <1>2, <1>3, <2>2 DEF HeardInv, WebSocketHeard
    <3>2. \A i \in 1..n : heard[i][2] # c /\ heard[i][2] <= c
      BY <1>3, <1>4, <3>1
    <3> QED BY <3>1, <3>2
  <2> QED BY <1>2, <2>1, <2>2
<1>8. \A i \in DOMAIN heard' : heard'[i][1] <= conn' /\ heard'[i][2] <= written'
  <2> TAKE i \in DOMAIN heard'
  <2>1. CASE i \in 1..n
    BY <1>1, <1>4, <1>5, <2>1
  <2>2. CASE i = n + 1
    BY <1>1, <1>2, <1>5, <1>7, <2>2
  <2> QED BY <1>6, <2>1, <2>2
<1>9. ASSUME NEW i \in DOMAIN heard', NEW j \in DOMAIN heard', i < j PROVE heard'[i][2] <= heard'[j][2]
  <2>1. CASE j \in 1..n
    <3>1. i \in 1..n
      BY <1>2, <1>5, <1>9, <2>1
    <3> QED BY <1>2, <1>5, <1>9, <2>1, <3>1 DEF HeardInv
  <2>2. CASE j = n + 1
    <3>1. i \in 1..n
      BY <1>2, <1>6, <1>9, <2>2
    <3> QED BY <1>5, <1>7, <2>2, <3>1
  <2> QED BY <1>6, <2>1, <2>2
<1>10. ASSUME NEW i \in DOMAIN heard', NEW j \in DOMAIN heard', i # j, heard'[i][2] = heard'[j][2]
       PROVE  kind' = "serial" /\ reconnect' /\ heard'[i][1] # heard'[j][1]
  <2>1. CASE i \in 1..n /\ j \in 1..n
    BY <1>1, <1>2, <1>5, <1>10, <2>1 DEF HeardInv
  <2>2. CASE i = n + 1 /\ j \in 1..n
    BY <1>1, <1>5, <1>7, <1>10, <2>2
  <2>3. CASE j = n + 1 /\ i \in 1..n
    BY <1>1, <1>5, <1>7, <1>10, <2>3
  <2> QED BY <1>6, <1>10, <2>1, <2>2, <2>3
<1>11. ASSUME NEW i \in DOMAIN heard', NEW j \in DOMAIN heard', NEW k \in DOMAIN heard',
              heard'[i][2] = heard'[j][2], heard'[j][2] = heard'[k][2]
       PROVE  i = j \/ j = k \/ i = k
  <2>0. \A a, b, d \in 1..n :
          heard[a][2] = heard[b][2] /\ heard[b][2] = heard[d][2] => a = b \/ b = d \/ a = d
    BY <1>2 DEF HeardInv
  <2>1. CASE i \in 1..n /\ j \in 1..n /\ k \in 1..n
    <3>1. heard[i][2] = heard[j][2] /\ heard[j][2] = heard[k][2]
      BY <1>5, <1>11, <2>1
    <3> QED BY <2>0, <2>1, <3>1
  <2>2. CASE i = n + 1 /\ j \in 1..n /\ k \in 1..n
    BY <1>5, <1>7, <1>11, <2>2
  <2>3. CASE j = n + 1 /\ i \in 1..n /\ k \in 1..n
    BY <1>5, <1>7, <1>11, <2>3
  <2>4. CASE k = n + 1 /\ i \in 1..n /\ j \in 1..n
    BY <1>5, <1>7, <1>11, <2>4
  <2> QED BY <1>6, <2>1, <2>2, <2>3, <2>4
<1>12. ASSUME kind = "serial" PROVE SerialHeard'
  <2>1. /\ Len(out) = 1 /\ c = written /\ at = "flushing" /\ call = "write" /\ (~retry => Unheard)
    BY <1>1, <1>3, <1>12 DEF HeardInv, SerialHeard, CallInv, TransportTypeOK
  <2>2. out' = <<>>
    <3>1. out' \in Seq(Command) /\ Len(out') = Len(out) - 1
      BY <1>1, <1>2, HeadTailProperties
    <3> QED BY <2>1, <3>1
  <2>3. n + 1 \in DOMAIN heard'
    BY <1>2, <1>5
  <2>4. WasHeard'
    BY <1>1, <1>5, <2>1, <2>3 DEF WasHeard
  <2>5. ~retry => HeardOnce'
    <3> SUFFICES ASSUME ~retry, NEW i \in DOMAIN heard', heard'[i][2] = written' PROVE i = n + 1
      BY DEF HeardOnce
    <3> QED BY <1>1, <1>2, <1>5, <1>6, <2>1 DEF Unheard
  <2> QED BY <1>1, <2>1, <2>2, <2>4, <2>5 DEF SerialHeard
<1>13. ASSUME kind = "websocket" PROVE WebSocketHeard'
  <2>0. WebSocketHeard /\ Len(out) \in Nat /\ Len(out) # 0 /\ DOMAIN out = 1..Len(out)
    BY <1>1, <1>2, <1>13 DEF HeardInv
  <2>1. /\ \A k \in DOMAIN out' : k \in Nat /\ k + 1 \in DOMAIN out /\ out'[k] = out[k + 1]
        /\ \A k \in DOMAIN out' : 1 < k + 1
    <3>1. out' \in Seq(Command) /\ Len(out') = Len(out) - 1 /\ \A k \in 1..Len(out') : out'[k] = out[k + 1]
      BY <1>1, <1>2
    <3>2. DOMAIN out' = 1..(Len(out) - 1)
      BY <3>1
    <3>3. \A k \in 1..(Len(out) - 1) : k \in Nat /\ k + 1 \in 1..Len(out) /\ 1 < k + 1
      BY <2>0
    <3> QED BY <2>0, <3>1, <3>2, <3>3
  <2>2. \A j, k \in DOMAIN out' : j < k => out'[j] < out'[k]
    <3>1. \A j, k \in DOMAIN out' : j < k => j + 1 < k + 1
      BY <2>1
    <3> QED BY <2>0, <2>1, <3>1 DEF WebSocketHeard
  <2>3. \A k \in DOMAIN out' : out'[k] <= written /\ c < out'[k]
    BY <1>3, <2>0, <2>1 DEF WebSocketHeard
  <2>4. \A i \in DOMAIN heard', k \in DOMAIN out' : heard'[i][2] < out'[k]
    <3> SUFFICES ASSUME NEW i \in DOMAIN heard', NEW k \in DOMAIN out' PROVE heard'[i][2] < out'[k]
      OBVIOUS
    <3>1. CASE i = n + 1
      BY <1>5, <2>3, <3>1
    <3>2. CASE i \in 1..n
      <4>1. i \in DOMAIN heard /\ heard'[i] = heard[i] /\ k + 1 \in DOMAIN out /\ out'[k] = out[k + 1]
        BY <1>2, <1>5, <2>1, <3>2
      <4> QED BY <2>0, <4>1 DEF WebSocketHeard
    <3> QED BY <1>6, <3>1, <3>2
  <2>5. call = "write" => c # written /\ Unheard /\ \A k \in DOMAIN out : out[k] # written
    BY <1>3, <2>0 DEF WebSocketHeard
  <2>6. call = "write" => Unheard'
    BY <1>1, <1>2, <1>5, <1>6, <2>5 DEF Unheard
  <2>7. call = "write" => \A k \in DOMAIN out' : out'[k] # written
    BY <2>1, <2>5
  <2> QED BY <1>1, <2>2, <2>3, <2>4, <2>6, <2>7 DEF WebSocketHeard
<1>14. kind' = kind /\ heard' \in Seq(Nat \X Command)
  BY <1>5
<1>15. /\ kind' = "serial" => SerialHeard'
       /\ kind' = "websocket" => WebSocketHeard'
  BY <1>12, <1>13, <1>14
<1> QED BY <1>8, <1>9, <1>10, <1>11, <1>14, <1>15 DEF HeardInv

\* What is on its way to a peer that goes away is lost.
LEMMA PeerHeard ==
    ASSUME CallInv, CallInv', HeardInv, kind' = kind, UNCHANGED PeerVars, UNCHANGED <<conn, heard>>,
           \/ out' = out /\ handle' = handle
           \/ out' = <<>> /\ handle' # "open"
    PROVE  HeardInv'
<1>1. UNCHANGED <<reconnect, call, at, retry, written, raised>> /\ conn \in Nat /\ written \in Nat
  BY DEF PeerVars, call_vars, CallInv
<1>2. kind = "serial" => SerialHeard'
  BY <1>1 DEF HeardInv, SerialHeard, HeardOnce, HeardBefore, Unheard, WasHeard
<1>3. kind = "websocket" => WebSocketHeard'
  BY <1>1 DEF HeardInv, WebSocketHeard, Unheard
<1> QED BY <1>1, <1>2, <1>3, HeardKept

-----------------------------------------------------------------------------
(* Time.                                                                   *)

\* The latest end of n reconnects that began before time d.
Limit(d, n) == d + OneReconnect * n

\* The reconnects of the running read that may have begun after its deadline.
Counted == IF kind = "serial" \/ reconnects = 0 THEN reconnects ELSE 1

TimeInv ==
    call = "read" =>
        /\ at = "reading" => clock <= Limit(due, Counted)
        /\ at \in {"opening", "sleeping"} =>
            /\ until <= Limit(due, Counted - 1) + ReconnectTimeout
            /\ clock <= wake
        /\ at = "opening" => wake <= until - 1 + OpenTimeout
        /\ at = "sleeping" => wake <= until - 1 + OpenTimeout + ReconnectInterval

LEMMA LimitGrows ==
    /\ OneReconnect \in Nat
    /\ OneReconnect = ReconnectTimeout - 1 + OpenTimeout + ReconnectInterval
    /\ \A d, n \in Nat : Limit(d, n) \in Nat /\ Limit(d, n) >= d
    /\ \A d \in Nat : Limit(d, 0) = d
    /\ \A d \in Nat, n \in Nat \ {0} :
        /\ n - 1 \in Nat
        /\ Limit(d, n) = Limit(d, n - 1) + ReconnectTimeout - 1 + OpenTimeout + ReconnectInterval
<1>1. OneReconnect \in Nat /\ OneReconnect = ReconnectTimeout - 1 + OpenTimeout + ReconnectInterval
  BY Bounds DEF OneReconnect
<1>2. ASSUME NEW p \in Nat PROVE \A n \in Nat : p * n \in Nat /\ p * 0 = 0
  OBVIOUS
<1>3. ASSUME NEW p \in Nat, NEW n \in Nat \ {0} PROVE n - 1 \in Nat /\ p * n = p * (n - 1) + p
  OBVIOUS
<1>4. \A d, n \in Nat : Limit(d, n) \in Nat /\ Limit(d, n) >= d
  BY <1>1, <1>2 DEF Limit
<1>5. \A d \in Nat : Limit(d, 0) = d
  BY <1>1, <1>2 DEF Limit
<1>6. ASSUME NEW d \in Nat, NEW n \in Nat \ {0}
      PROVE  /\ n - 1 \in Nat
             /\ Limit(d, n) = Limit(d, n - 1) + ReconnectTimeout - 1 + OpenTimeout + ReconnectInterval
  <2>1. n - 1 \in Nat /\ OneReconnect * n = OneReconnect * (n - 1) + OneReconnect
    BY <1>1, <1>3
  <2>2. OneReconnect * (n - 1) \in Nat
    BY <1>1, <1>2, <2>1
  <2> QED BY <1>1, <2>1, <2>2, Bounds DEF Limit
<1> QED BY <1>1, <1>4, <1>5, <1>6

LEMMA TimeTypes ==
    ASSUME CallInv
    PROVE  /\ clock \in Nat /\ due \in Nat /\ until \in Nat /\ wake \in Nat /\ reconnects \in Nat
           /\ Counted \in Nat /\ (reconnects # 0 => Counted \in Nat \ {0})
BY DEF CallInv, TransportTypeOK, Counted

LEMMA TimeInvIsEnough ==
    ASSUME CallInv, TimeInv
    PROVE  ReadOverrunBounded
<1> SUFFICES ASSUME call = "read" PROVE clock <= Limit(due, Counted)
  BY DEF ReadOverrunBounded, Limit, Counted
<1>1. CASE at = "reading"
  BY <1>1 DEF TimeInv
<1>2. CASE at \in {"opening", "sleeping"}
  <2>1. Counted \in Nat \ {0}
    BY <1>2, TimeTypes DEF CallInv
  <2>2. Counted - 1 \in Nat /\ Limit(due, Counted - 1) \in Nat
    BY <2>1, TimeTypes, LimitGrows
  <2>3. Limit(due, Counted) = Limit(due, Counted - 1) + ReconnectTimeout - 1 + OpenTimeout + ReconnectInterval
    BY <2>1, TimeTypes, LimitGrows
  <2>4. /\ until <= Limit(due, Counted - 1) + ReconnectTimeout
        /\ clock <= wake
        /\ wake <= until - 1 + OpenTimeout + ReconnectInterval
    BY <1>2, TimeTypes, Bounds DEF TimeInv
  <2> HIDE DEF Limit, Counted
  <2> QED BY <2>2, <2>3, <2>4, TimeTypes, Bounds
<1> QED BY <1>1, <1>2 DEF CallInv, TransportTypeOK

LEMMA NoReadTime == call' # "read" => TimeInv'
BY DEF TimeInv

LEMMA SameTime ==
    ASSUME TimeInv, UNCHANGED <<kind, reconnects, call, at, clock, due, until, wake>>
    PROVE  TimeInv'
BY DEF TimeInv, Counted, Limit

LEMMA LostTime ==
    ASSUME CallInv, TimeInv, ConnectionLost, kind' = kind, at \in {"reading", "writing", "flushing"},
           kind = "websocket" /\ at = "reading" => clock < due
    PROVE  TimeInv'
<1>1. CASE MayReconnect /\ call = "read"
  <2>1. /\ at' = "opening" /\ until' = clock + ReconnectTimeout /\ wake' = clock + OpenTimeout
        /\ UNCHANGED <<call, clock, due, kind>> /\ reconnects' = reconnects + 1
    BY <1>1 DEF ConnectionLost, Attempt
  <2>2. /\ at = "reading" /\ clock <= Limit(due, Counted)
        /\ kind \in {"serial", "websocket"}
    BY <1>1 DEF TimeInv, CallInv, TransportTypeOK
  <2>3. clock <= Limit(due, Counted' - 1)
    <3>1. CASE kind = "serial"
      <4>1. Counted' - 1 = Counted
        BY <2>1, <3>1, TimeTypes DEF Counted
      <4> QED BY <2>2, <4>1
    <3>2. CASE kind = "websocket"
      <4>1. Counted' - 1 = 0
        BY <2>1, <3>2, TimeTypes DEF Counted
      <4>2. Limit(due, 0) = due
        BY TimeTypes, LimitGrows
      <4> QED BY <2>2, <3>2, <4>1, <4>2, TimeTypes
    <3> QED BY <2>2, <3>1, <3>2
  <2>4. Limit(due, Counted' - 1) \in Nat
    <3>1. Counted' - 1 \in Nat
      BY <2>1, TimeTypes DEF Counted
    <3> QED BY <3>1, TimeTypes, LimitGrows
  <2>5. Limit(due, Counted - 1)' = Limit(due, Counted' - 1)
    BY <2>1 DEF Limit, OneReconnect
  <2>6. until' <= Limit(due, Counted - 1)' + ReconnectTimeout /\ clock' <= wake' /\ wake' <= until' - 1 + OpenTimeout
    BY <2>1, <2>3, <2>4, <2>5, TimeTypes, Bounds
  <2> QED BY <2>1, <2>6 DEF TimeInv
<1>2. CASE ~MayReconnect
  BY <1>2, NoReadTime DEF ConnectionLost, Return
<1>3. CASE MayReconnect /\ call # "read"
  BY <1>3, NoReadTime DEF ConnectionLost, Attempt
<1> QED BY <1>1, <1>2, <1>3

LEMMA ReconnectingTime ==
    ASSUME CallInv, TimeInv, Reconnecting, kind' = kind
    PROVE  TimeInv'
<1>0. CASE call # "read"
  BY <1>0, NoReadTime DEF Reconnecting, AttemptSucceeds, AttemptFails, AttemptAgain, ReconnectFails, Attempt, Return
<1>1. CASE call = "read" /\ AttemptSucceeds
  <2>1. at' = "reading" /\ UNCHANGED <<call, clock, due, kind, reconnects>>
    BY <1>1 DEF AttemptSucceeds, history_vars
  <2>2. clock <= Limit(due, Counted)
    BY <1>1, TimeInvIsEnough DEF ReadOverrunBounded, Limit, Counted
  <2>3. Limit(due, Counted)' = Limit(due, Counted)
    BY <2>1 DEF Limit, Counted, OneReconnect
  <2> QED BY <2>1, <2>2, <2>3 DEF TimeInv
<1>2. CASE call = "read" /\ (AttemptFails \/ AttemptAgain)
  <2>1. UNCHANGED <<call, clock, due, until, kind, reconnects>> /\ at \in {"opening", "sleeping"}
    BY <1>2 DEF AttemptFails, AttemptAgain, Attempt, history_vars
  <2>2. (Limit(due, Counted - 1) + ReconnectTimeout)' = Limit(due, Counted - 1) + ReconnectTimeout
    BY <2>1 DEF Limit, Counted, OneReconnect
  <2>3. until' <= (Limit(due, Counted - 1) + ReconnectTimeout)'
    BY <1>2, <2>1, <2>2 DEF TimeInv
  <2>4. /\ clock' <= wake'
        /\ at' = "opening" => wake' <= until' - 1 + OpenTimeout
        /\ at' = "sleeping" => wake' <= until' - 1 + OpenTimeout + ReconnectInterval
        /\ at' \in {"opening", "sleeping"}
    <3>1. CASE AttemptFails
      <4>1. at = "opening" /\ at' = "sleeping" /\ wake' = clock + ReconnectInterval
        BY <3>1 DEF AttemptFails
      <4>2. clock <= wake /\ wake <= until - 1 + OpenTimeout
        BY <1>2, <4>1 DEF TimeInv
      <4> QED BY <2>1, <4>1, <4>2, TimeTypes, Bounds
    <3>2. CASE AttemptAgain
      <4>1. at' = "opening" /\ wake' = clock + OpenTimeout /\ clock < until
        BY <3>2 DEF AttemptAgain, Attempt
      <4> QED BY <2>1, <4>1, TimeTypes, Bounds
    <3> QED BY <1>2, <3>1, <3>2
  <2> QED BY <2>3, <2>4 DEF TimeInv
<1>3. CASE ReconnectFails
  BY <1>3, NoReadTime DEF ReconnectFails, Return
<1> QED BY <1>0, <1>1, <1>2, <1>3 DEF Reconnecting

LEMMA CallerTime ==
    ASSUME CallInv, TimeInv, Caller, kind' = kind
    PROVE  TimeInv'
<1>1. CASE Connect \/ Disconnect
  BY <1>1, NoReadTime DEF Connect, Disconnect, Idle, call_vars
<1>2. ASSUME NEW n \in Sizes, NEW timeout \in Timeouts, Read(n, timeout) PROVE TimeInv'
  <2>1. /\ call = "none" /\ at' = "reading" /\ due' = timeout
        /\ UNCHANGED <<clock, reconnects>>
    BY <1>2 DEF Read, Begin, Idle
  <2>2. clock' = 0 /\ Counted' = 0 /\ due' \in Nat
    BY <2>1, TransportTimes DEF CallInv, Counted
  <2>3. Limit(due', 0) = due'
    BY <2>2, LimitGrows
  <2>4. Limit(due, Counted)' = Limit(due', Counted')
    BY DEF Limit, OneReconnect
  <2>5. clock' <= Limit(due, Counted)'
    BY <2>2, <2>3, <2>4
  <2> QED BY <2>1, <2>5 DEF TimeInv
<1>3. CASE Write
  BY <1>3, NoReadTime DEF Write, Begin
<1> QED BY <1>1, <1>2, <1>3 DEF Caller

LEMMA TickTime ==
    ASSUME CallInv, TimeInv, Tick, kind' = kind
    PROVE  TimeInv'
<1>1. clock' = clock + 1 /\ UNCHANGED <<call, at, due, until, wake, kind, reconnects>>
  BY DEF Tick, history_vars
<1>2. /\ Limit(due, Counted)' = Limit(due, Counted)
      /\ (Limit(due, Counted - 1) + ReconnectTimeout)' = Limit(due, Counted - 1) + ReconnectTimeout
  BY <1>1 DEF Limit, Counted, OneReconnect
<1>3. CASE at = "reading" /\ clock < due
  <2>1. Limit(due, Counted) \in Nat /\ due <= Limit(due, Counted)
    BY TimeTypes, LimitGrows
  <2>2. clock' <= Limit(due, Counted)'
    BY <1>1, <1>2, <1>3, <2>1, TimeTypes
  <2> QED BY <1>1, <1>3, <2>2 DEF TimeInv
<1>4. CASE at \in {"opening", "sleeping"} /\ clock < wake
  <2>1. clock' <= wake'
    BY <1>1, <1>4, TimeTypes
  <2> QED BY <1>1, <1>2, <1>4, <2>1 DEF TimeInv
<1> QED BY <1>3, <1>4 DEF Tick

-----------------------------------------------------------------------------
(* Errors.                                                                 *)

RawStep == raised # "raw" /\ raised' = "raw" => call = "write" /\ reconnects > 0 /\ handle = "dead"

LEMMA LostRaw ==
    ASSUME CallInv, ConnectionLost, handle = "dead"
    PROVE  RawStep
<1>1. CASE MayReconnect
  BY <1>1 DEF ConnectionLost, RawStep
<1>2. CASE ~MayReconnect
  <2>1. raised' = IF call = "write" THEN LossError ELSE raised
    BY <1>2 DEF ConnectionLost, Return
  <2>2. LossError = "raw" => reconnect
    BY DEF LossError
  <2>3. reconnect => retry
    BY <1>2 DEF MayReconnect, CallInv
  <2>4. retry => reconnects > 0
    BY DEF CallInv
  <2> QED BY <2>1, <2>2, <2>3, <2>4 DEF RawStep
<1> QED BY <1>1, <1>2

LEMMA OtherRaw ==
    ASSUME Caller \/ Reconnecting \/ Tick \/ (UNCHANGED PeerVars) \/ Return(None) \/ UNCHANGED transport_vars
    PROVE  RawStep
BY Bounds DEF RawStep, Caller, Connect, Disconnect, Read, Write, Begin, Reconnecting, AttemptSucceeds,
   AttemptFails, AttemptAgain, ReconnectFails, Return, Tick, PeerVars, transport_vars, history_vars

-----------------------------------------------------------------------------
(* The steps of both transports.                                           *)

Safe == CallInv /\ HeardInv /\ TimeInv
SafeStep == Safe' /\ RawStep

LEMMA InitSafe == TransportInit => Safe
BY InitCall, InitHeard, NoReadTime DEF Safe, TransportInit, TimeInv

LEMMA SafeIsEnough ==
    ASSUME Safe
    PROVE  TransportTypeOK /\ HeardAsWritten /\ ReadOverrunBounded
BY HeardInvIsEnough, TimeInvIsEnough DEF Safe, CallInv

LEMMA HostSafe ==
    ASSUME Safe, Caller \/ Reconnecting \/ Tick, kind' = kind
    PROVE  SafeStep
<1>1. CASE Caller
  BY <1>1, CallerCall, CallerHeard, CallerTime, OtherRaw DEF Safe, SafeStep
<1>2. CASE Reconnecting
  BY <1>2, ReconnectingCall, ReconnectingHeard, ReconnectingTime, OtherRaw DEF Safe, SafeStep
<1>3. CASE Tick
  <2>1. HeardInv'
    BY <1>3, TickCall, HeardStands DEF Safe, Tick, link_vars, stream_vars, history_vars
  <2> QED BY <1>3, <2>1, TickCall, TickTime, OtherRaw DEF Safe, SafeStep
<1> QED BY <1>1, <1>2, <1>3

LEMMA SameSafe ==
    ASSUME Safe, UNCHANGED transport_vars
    PROVE  SafeStep
<1>1. HeardInv'
  BY SameCall, HeardStands DEF Safe, transport_vars, link_vars, call_vars, stream_vars, history_vars
<1>2. TimeInv'
  BY SameTime DEF Safe, transport_vars, call_vars, history_vars
<1> QED BY <1>1, <1>2, SameCall, OtherRaw DEF Safe, SafeStep

LEMMA LostSafe ==
    ASSUME Safe, handle = "dead", at \in {"reading", "writing", "flushing"}, ConnectionLost, kind' = kind,
           kind = "websocket" /\ at = "reading" => clock < due
    PROVE  SafeStep
BY LostCall, LostHeard, LostTime, LostRaw DEF Safe, SafeStep

\* A read that returns ends a call that writes nothing.
LEMMA ReadSafe ==
    ASSUME Safe, at = "reading", NEW bytes, ReturnBytes(bytes), kind' = kind,
           UNCHANGED <<handle, present, out>>,
           wire' \in Seq(IF kind = "serial" THEN Byte ELSE Seq(Byte)),
           buffer' \in Seq(Byte), kind = "serial" => buffer' = <<>>
    PROVE  SafeStep
<1>1. call = "read" /\ handle # "none" /\ out \in Seq(Command)
  BY DEF Safe, CallInv, TransportTypeOK
<1>2. Return(None) /\ UNCHANGED <<conn, sent>>
  BY DEF ReturnBytes
<1>3. CallInv'
  BY <1>1, <1>2, ReturnCall DEF Safe
<1>4. HeardInv'
  BY <1>1, <1>2, <1>3, ReturnHeard DEF Safe
<1>5. TimeInv'
  BY <1>2, NoReadTime DEF Return
<1> QED BY <1>2, <1>3, <1>4, <1>5, OtherRaw DEF Safe, SafeStep

LEMMA PeerSafe ==
    ASSUME Safe, CallInv', HeardInv', UNCHANGED PeerVars, kind' = kind
    PROVE  SafeStep
<1>1. TimeInv'
  BY SameTime DEF Safe, PeerVars, call_vars
<1> QED BY <1>1, OtherRaw DEF Safe, SafeStep

LEMMA SendsSafe ==
    ASSUME Safe, UNCHANGED <<PeerVars, handle, present, buffer, out, conn, heard>>, handle = "open",
           sent' \in Nat, wire' \in Seq(IF kind = "serial" THEN Byte ELSE Seq(Byte)), kind' = kind
    PROVE  SafeStep
<1>1. CallInv'
  BY PeerCall DEF Safe, CallInv, TransportTypeOK
<1>2. HeardInv'
  BY <1>1, PeerHeard DEF Safe
<1> QED BY <1>1, <1>2, PeerSafe

LEMMA HearsSafe ==
    ASSUME Safe, Hears, kind' = kind
    PROVE  SafeStep
<1>1. /\ wire \in Seq(IF kind = "serial" THEN Byte ELSE Seq(Byte))
      /\ out \in Seq(Command) /\ present \in BOOLEAN /\ sent \in Nat
      /\ handle = "none" => wire = <<>> /\ out = <<>>
  BY DEF Safe, CallInv, TransportTypeOK
<1>2. /\ out # <<>> /\ out' = Tail(out) /\ UNCHANGED PeerVars
      /\ UNCHANGED <<handle, present, wire, buffer, conn, sent>>
  BY DEF Hears
<1>3. out' \in Seq(Command)
  BY <1>1, <1>2
<1>4. CallInv'
  BY <1>1, <1>2, <1>3, PeerCall DEF Safe
<1>5. HeardInv'
  BY <1>4, HearsHeard DEF Safe
<1> QED BY <1>2, <1>4, <1>5, PeerSafe

LEMMA DropsSafe ==
    ASSUME Safe, NEW stays \in BOOLEAN, NEW k \in 0..Len(wire), Drops(stays, k), kind' = kind
    PROVE  SafeStep
<1>1. /\ wire \in Seq(IF kind = "serial" THEN Byte ELSE Seq(Byte))
      /\ handle = "none" => wire = <<>>
      /\ handle \in {"none", "open", "dead"} /\ sent \in Nat
  BY DEF Safe, CallInv, TransportTypeOK
<1>2. /\ out' = <<>> /\ UNCHANGED PeerVars /\ UNCHANGED <<buffer, conn, sent, heard>>
      /\ present' = stays
      /\ handle' = IF handle = "open" THEN "dead" ELSE handle
      /\ wire' = IF handle = "open" THEN SubSeq(wire, 1, k) ELSE wire
  BY DEF Drops
<1>3. SubSeq(wire, 1, k) \in Seq(IF kind = "serial" THEN Byte ELSE Seq(Byte))
  <2>1. ASSUME NEW T, wire \in Seq(T) PROVE SubSeq(wire, 1, k) \in Seq(T)
    BY <2>1
  <2> QED BY <1>1, <2>1
<1>4. wire' \in Seq(IF kind = "serial" THEN Byte ELSE Seq(Byte)) /\ out' \in Seq(Command)
  BY <1>1, <1>2, <1>3
<1>5. CallInv'
  BY <1>1, <1>2, <1>4, PeerCall DEF Safe
<1>6. HeardInv'
  BY <1>1, <1>2, <1>5, PeerHeard DEF Safe
<1> QED BY <1>2, <1>5, <1>6, PeerSafe

LEMMA ComesBackSafe ==
    ASSUME Safe, ComesBack, kind' = kind
    PROVE  SafeStep
<1>1. /\ wire \in Seq(IF kind = "serial" THEN Byte ELSE Seq(Byte))
      /\ out \in Seq(Command) /\ sent \in Nat
      /\ handle = "none" => wire = <<>> /\ out = <<>>
  BY DEF Safe, CallInv, TransportTypeOK
<1>2. /\ present' = TRUE /\ UNCHANGED PeerVars
      /\ UNCHANGED <<handle, wire, buffer, out, conn, sent, heard>>
  BY DEF ComesBack
<1>3. CallInv'
  BY <1>1, <1>2, PeerCall DEF Safe
<1>4. HeardInv'
  BY <1>2, <1>3, PeerHeard DEF Safe
<1> QED BY <1>2, <1>3, <1>4, PeerSafe

-----------------------------------------------------------------------------
(* SerialTransport.                                                        *)

\* The wire holds the bytes that come next, and all that was sent while the
\* connection is whole.
SerialInv ==
    /\ HandleInv
    /\ wire \in Seq(Byte)
    /\ wire = Bytes(taken, Len(wire))
    /\ taken + Len(wire) <= sent
    /\ handle = "open" => taken + Len(wire) = sent
    /\ handle = "none" => wire = <<>>

SerialStreamStep == StreamStep /\ SerialInv'

LEMMA SerialOpened ==
    ASSUME SerialInv, Opened, handle = "none", HandleInv'
    PROVE  SerialStreamStep
<1>1. wire' = <<>> /\ handle' = "open"
  BY DEF SerialInv, Opened
<1>2. StreamStep /\ sent' = 0 /\ taken' = 0
  BY OpenedIsConnect DEF SerialInv
<1>3. wire' = Bytes(taken, Len(wire))'
  BY <1>1, <1>2 DEF Bytes
<1> QED BY <1>1, <1>2, <1>3 DEF SerialInv, SerialStreamStep

LEMMA SerialClosed ==
    ASSUME SerialInv, Closed, UNCHANGED stream_vars, HandleInv'
    PROVE  SerialStreamStep
<1>1. wire' = <<>> /\ handle' = "none" /\ UNCHANGED <<conn, sent, taken, got>>
  BY DEF Closed, stream_vars
<1>2. wire' = Bytes(taken, Len(wire))'
  BY <1>1 DEF Bytes
<1>3. StreamStep
  BY DEF StreamStep
<1> QED BY <1>1, <1>2, <1>3 DEF SerialInv, HandleInv, SerialStreamStep

LEMMA SerialUntouched ==
    ASSUME SerialInv, UNCHANGED <<handle, wire, stream_vars>>, HandleInv'
    PROVE  SerialStreamStep
<1>1. UNCHANGED <<conn, sent, taken, got>> /\ StreamStep
  BY DEF stream_vars, StreamStep
<1>2. Bytes(taken, Len(wire))' = Bytes(taken, Len(wire))
  BY <1>1 DEF Bytes
<1> QED BY <1>1, <1>2 DEF SerialInv, SerialStreamStep

\* What the steps of a call and of the caller do to the place it is at.
LEMMA SerialHandle ==
    ASSUME SerialInv, [SerialNext]_transport_vars,
           conn' \in Nat, sent' \in Nat, taken' \in Nat, got' \in Seq(Byte)
    PROVE  HandleInv'
<1>0. size' \in (Nat \ {0}) \cup {None}
  BY TransportTimes DEF SerialInv, HandleInv, SerialNext, Caller, Connect, Disconnect, Read, Write, Begin,
     SerialHost, ReadWaiting, ReadTimesOut, PortFails, WriteData, Flush, Reconnecting, AttemptSucceeds,
     AttemptFails, AttemptAgain, ReconnectFails, ConnectionLost, Attempt, ReturnBytes, Return, SerialPeer,
     Sends, Hears, Drops, ComesBack, PeerVars, Tick, transport_vars, call_vars
<1>1. CASE Caller
  BY <1>0, <1>1 DEF Caller, Connect, Disconnect, Read, Write, Begin, Idle, Opened, Closed, call_vars,
                    SerialInv, HandleInv
<1>2. CASE SerialHost
  BY <1>0, <1>2 DEF SerialHost, ReadWaiting, ReadTimesOut, PortFails, WriteData, Flush, Reconnecting,
     AttemptSucceeds, AttemptFails, AttemptAgain, ReconnectFails, ConnectionLost, Attempt, Closed,
     Opened, ReturnBytes, Return, link_vars, SerialInv, HandleInv
<1>3. CASE SerialPeer
  BY <1>0, <1>3 DEF SerialPeer, Sends, Hears, Drops, ComesBack, PeerVars, call_vars, SerialInv, HandleInv
<1>4. CASE Tick
  BY <1>0, <1>4 DEF Tick, link_vars, SerialInv, HandleInv
<1>5. CASE UNCHANGED transport_vars
  BY <1>0, <1>5 DEF transport_vars, link_vars, call_vars, SerialInv, HandleInv
<1> QED BY <1>1, <1>2, <1>3, <1>4, <1>5 DEF SerialNext

LEMMA SerialReads ==
    ASSUME SerialInv, [SerialNext]_transport_vars, ReadWaiting \/ ReadTimesOut
    PROVE  SerialStreamStep
<1>0. HandleInv /\ Len(wire) \in Nat /\ conn \in Nat /\ taken \in Nat
  BY DEF SerialInv, HandleInv
<1> SUFFICES ASSUME NEW k \in 0..Len(wire), ReturnBytes(Bytes(taken, k)),
                    wire' = Bytes(taken + k, Len(wire) - k), UNCHANGED handle
             PROVE  SerialStreamStep
  <2>1. CASE ReadWaiting
    <3> PICK k \in 0..Len(wire) : /\ Split(wire)[1] = Bytes(taken, k)
                                  /\ Split(wire)[2] = Bytes(taken + k, Len(wire) - k)
      <4>1. wire = Bytes(taken, Len(wire)) /\ size \in (Nat \ {0}) \cup {None}
        BY DEF SerialInv, HandleInv
      <4>2. \E k \in 0..Len(wire) : /\ Split(Bytes(taken, Len(wire)))[1] = Bytes(taken, k)
                                   /\ Split(Bytes(taken, Len(wire)))[2] = Bytes(taken + k, Len(wire) - k)
        BY <1>0, <4>1, SplitBytes
      <4> QED BY <4>1, <4>2
    <3>1. ReturnBytes(Split(wire)[1]) /\ wire' = Split(wire)[2] /\ UNCHANGED handle
      BY <2>1 DEF ReadWaiting
    <3> QED BY <3>1
  <2>2. CASE ReadTimesOut
    <3>1. Bytes(taken, 0) = <<>> /\ Len(wire) = 0 /\ wire = <<>>
      BY <2>2 DEF Bytes, ReadTimesOut
    <3>2. wire = Bytes(taken + 0, 0)
      BY <3>1 DEF Bytes
    <3> QED BY <2>2, <3>1, <3>2 DEF ReadTimesOut, link_vars
  <2> QED BY <2>1, <2>2
<1>1. /\ StreamStep
      /\ taken' = taken + k /\ got' \in Seq(Byte)
      /\ UNCHANGED <<conn, sent>>
  <2>1. k \in Nat /\ taken + k <= sent
    BY <1>0 DEF SerialInv, HandleInv
  <2> QED BY <1>0, <2>1, ReturnedIsReceived
<1>2. wire' \in Seq(Byte) /\ Len(wire') = Len(wire) - k
  <2>1. taken + k \in Nat /\ Len(wire) - k \in Nat
    BY <1>0
  <2> QED BY <1>0, <2>1, BytesAreBytes
<1>3. wire' = Bytes(taken, Len(wire))'
  BY <1>1, <1>2 DEF Bytes
<1>4. HandleInv'
  BY <1>0, <1>1, SerialHandle DEF HandleInv
<1>5. handle' = "none" => wire' = <<>>
  <2> SUFFICES ASSUME handle = "none" PROVE wire' = <<>>
    OBVIOUS
  <2>1. Len(wire) = 0 /\ k = 0
    BY <1>0 DEF SerialInv
  <2> QED BY <2>1 DEF Bytes
<1>6. /\ taken' + Len(wire') = taken + Len(wire) /\ sent' = sent
      /\ handle' = handle
  BY <1>0, <1>1, <1>2
<1> QED BY <1>1, <1>2, <1>3, <1>4, <1>5, <1>6 DEF SerialInv, SerialStreamStep

LEMMA SerialSends ==
    ASSUME SerialInv, NEW n \in Chunks \ {0}, Sends(n, PutBytes), HandleInv'
    PROVE  SerialStreamStep
<1>0. n \in Nat /\ Len(wire) \in Nat /\ conn \in Nat /\ taken \in Nat /\ sent = taken + Len(wire)
  BY TransportTimes DEF SerialInv, HandleInv, Sends
<1>1. /\ sent' = sent + n /\ UNCHANGED <<conn, taken, got, handle>> /\ handle = "open"
      /\ wire' = wire \o Bytes(sent, n)
  BY DEF Sends, PutBytes, PeerVars, Bytes
<1>2. StreamStep
  BY <1>0, <1>1, SentIsSend DEF SerialInv
<1>3. Bytes(taken, Len(wire)) \o Bytes(sent, n) = Bytes(taken, Len(wire) + n)
  BY <1>0, SMTT(60) DEF Bytes
<1>4. wire' = Bytes(taken, Len(wire) + n)
  BY <1>1, <1>3 DEF SerialInv
<1>5. wire' \in Seq(Byte) /\ Len(wire') = Len(wire) + n
  BY <1>0, <1>4, BytesAreBytes
<1>6. wire' = Bytes(taken, Len(wire))'
  BY <1>1, <1>4, <1>5 DEF Bytes
<1>7. taken' + Len(wire') = sent' /\ handle' = "open"
  <2>1. taken' = taken /\ handle' = "open"
    BY <1>1
  <2>2. taken + (Len(wire) + n) = taken + Len(wire) + n
    BY <1>0
  <2> QED BY <1>0, <1>1, <1>5, <2>1, <2>2
<1>8. taken' + Len(wire') <= sent'
  BY <1>0, <1>1, <1>7
<1> QED BY <1>2, <1>5, <1>6, <1>7, <1>8 DEF SerialInv, SerialStreamStep

LEMMA SerialDrops ==
    ASSUME SerialInv, NEW stays \in BOOLEAN, Drops(stays, 0), HandleInv'
    PROVE  SerialStreamStep
<1>1. UNCHANGED <<conn, sent, taken, got>> /\ StreamStep
  BY DEF Drops, PeerVars, StreamStep, stream_vars
<1>2. CASE handle = "open"
  <2>1. wire' = <<>> /\ handle' = "dead"
    BY <1>2 DEF Drops, SerialInv
  <2>2. wire' = Bytes(taken, Len(wire))'
    BY <2>1 DEF Bytes
  <2> QED BY <1>1, <2>1, <2>2 DEF SerialInv, HandleInv, SerialStreamStep
<1>3. CASE handle # "open"
  BY <1>1, <1>3, SerialUntouched DEF Drops, stream_vars
<1> QED BY <1>2, <1>3

LEMMA SerialSteps ==
    ASSUME SerialInv, [SerialNext]_transport_vars
    PROVE  SerialStreamStep
<1>0. HandleInv
  BY DEF SerialInv
<1>1. CASE ReadWaiting \/ ReadTimesOut
  BY <1>1, SerialReads
<1>2. CASE Opened /\ handle = "none"
  <2>1. HandleInv'
    BY <1>0, <1>2, OpenedIsConnect, SerialHandle DEF HandleInv
  <2> QED BY <1>2, <2>1, SerialOpened
<1>3. CASE Closed /\ UNCHANGED stream_vars
  <2>1. HandleInv'
    BY <1>0, <1>3, SerialHandle DEF HandleInv, stream_vars
  <2> QED BY <1>3, <2>1, SerialClosed
<1>4. CASE UNCHANGED <<handle, wire, stream_vars>>
  <2>1. HandleInv'
    BY <1>0, <1>4, SerialHandle DEF HandleInv, stream_vars
  <2> QED BY <1>4, <2>1, SerialUntouched
<1>5. CASE \E n \in Chunks \ {0} : Sends(n, PutBytes)
  <2> PICK n \in Chunks \ {0} : Sends(n, PutBytes)
    BY <1>5
  <2>1. sent' \in Nat /\ UNCHANGED <<conn, taken, got>>
    BY <1>0, TransportTimes DEF Sends, PeerVars, HandleInv
  <2>2. HandleInv'
    BY <1>0, <2>1, SerialHandle DEF HandleInv
  <2> QED BY <2>2, SerialSends
<1>6. CASE \E stays \in BOOLEAN : Drops(stays, 0)
  <2> PICK stays \in BOOLEAN : Drops(stays, 0)
    BY <1>6
  <2>1. HandleInv'
    BY <1>0, SerialHandle DEF Drops, PeerVars, HandleInv
  <2> QED BY <2>1, SerialDrops
<1>7. Caller => (Opened /\ handle = "none") \/ (Closed /\ UNCHANGED stream_vars)
                \/ UNCHANGED <<handle, wire, stream_vars>>
  BY DEF Caller, Connect, Disconnect, Read, Write, Begin, link_vars
<1>8. ConnectionLost => \/ Closed /\ UNCHANGED stream_vars
                        \/ UNCHANGED <<handle, wire, stream_vars>>
  BY DEF ConnectionLost, link_vars
<1>9. Reconnecting => (Opened /\ handle = "none") \/ UNCHANGED <<handle, wire, stream_vars>>
  BY DEF Reconnecting, AttemptSucceeds, AttemptFails, AttemptAgain, ReconnectFails, link_vars,
         SerialInv, HandleInv
<1>10. Hears \/ ComesBack \/ Tick \/ WriteData \/ Flush \/ UNCHANGED transport_vars =>
         UNCHANGED <<handle, wire, stream_vars>>
  BY DEF Hears, ComesBack, PeerVars, Tick, WriteData, Flush, link_vars, stream_vars, transport_vars
<1> QED BY <1>1, <1>2, <1>3, <1>4, <1>5, <1>6, <1>7, <1>8, <1>9, <1>10
        DEF SerialNext, SerialHost, PortFails, SerialPeer

LEMMA SerialReadSafe ==
    ASSUME Safe, ReadWaiting \/ ReadTimesOut, kind = "serial", kind' = kind
    PROVE  SafeStep
<1>0. wire \in Seq(Byte) /\ buffer \in Seq(Byte) /\ buffer = <<>> /\ size \in (Nat \ {0}) \cup {None}
  BY DEF Safe, CallInv, TransportTypeOK
<1>1. CASE ReadWaiting
  <2>1. Split(wire)[2] \in Seq(Byte)
    BY <1>0, SplitType
  <2> QED BY <1>0, <1>1, <2>1, ReadSafe DEF ReadWaiting
<1>2. CASE ReadTimesOut
  BY <1>0, <1>2, ReadSafe DEF ReadTimesOut, link_vars
<1> QED BY <1>1, <1>2

LEMMA WriteDataSafe ==
    ASSUME Safe, WriteData, kind = "serial", kind' = kind
    PROVE  SafeStep
<1>1. /\ out' = Append(out, written) /\ at = "writing" /\ at' = "flushing" /\ handle = "open"
      /\ UNCHANGED <<handle, present, wire, buffer, call, size, clock, due, until, wake, retry>>
      /\ UNCHANGED <<reconnect, conn, sent, heard, written, raised, reconnects>>
  BY DEF WriteData, stream_vars, history_vars
<1>2. /\ out = <<>> /\ call = "write" /\ written \in Command /\ SerialHeard /\ conn \in Nat /\ written \in Nat
  BY <1>1 DEF Safe, CallInv, TransportTypeOK, Command, HeardInv, SerialHeard
<1>3. out' \in Seq(Command) /\ Len(out') = 1 /\ out'[1] = written
  BY <1>1, <1>2
<1>4. TransportTypeOK'
  BY <1>1, <1>2, <1>3 DEF Safe, CallInv, TransportTypeOK
<1>5. CallInv'
  BY <1>1, <1>2, <1>4 DEF Safe, CallInv
<1>6. SerialHeard'
  <2>1. /\ HeardOnce' <=> HeardOnce
        /\ HeardBefore' <=> HeardBefore
        /\ Unheard' <=> Unheard
    BY <1>1 DEF HeardOnce, HeardBefore, Unheard
  <2>2. out' # <<>>
    BY <1>3
  <2> QED BY <1>1, <1>2, <1>3, <2>1, <2>2 DEF SerialHeard
<1>7. HeardInv'
  BY <1>1, <1>2, <1>6, HeardKept DEF Safe
<1>8. TimeInv' /\ RawStep
  BY <1>1, <1>2, NoReadTime DEF RawStep
<1> QED BY <1>5, <1>7, <1>8 DEF Safe, SafeStep

LEMMA FlushSafe ==
    ASSUME Safe, Flush, kind = "serial", kind' = kind
    PROVE  SafeStep
<1>1. /\ at = "flushing" /\ handle = "open" /\ out = <<>> /\ Return(None)
      /\ UNCHANGED <<handle, present, wire, buffer, out, conn, sent>>
  BY DEF Flush, link_vars, stream_vars
<1>2. CallInv'
  BY <1>1, ReturnCall DEF Safe, CallInv, TransportTypeOK
<1>3. /\ call' = "none" /\ at' = "none" /\ retry' = FALSE
      /\ UNCHANGED <<reconnect, written, heard>>
  BY <1>1 DEF Return
<1>4. WasHeard
  BY <1>1 DEF Safe, HeardInv, SerialHeard
<1>5. WasHeard'
  BY <1>3, <1>4 DEF WasHeard
<1>6. SerialHeard'
  BY <1>1, <1>3, <1>5 DEF SerialHeard
<1>7. conn \in Nat /\ written \in Nat
  BY DEF Safe, CallInv
<1>8. HeardInv'
  BY <1>1, <1>3, <1>6, <1>7, HeardKept DEF Safe
<1> QED BY <1>1, <1>2, <1>3, <1>8, NoReadTime, OtherRaw DEF Safe, SafeStep

LEMMA SerialSafeSteps ==
    ASSUME Safe, [SerialNext]_transport_vars
    PROVE  SafeStep
<1>0. CASE UNCHANGED transport_vars
  BY <1>0, SameSafe
<1> SUFFICES ASSUME SerialNext PROVE SafeStep
  BY <1>0
<1>1. kind = "serial" /\ kind' = kind /\ (Caller \/ SerialHost \/ SerialPeer \/ Tick)
  BY DEF SerialNext
<1>2. CASE Caller \/ Reconnecting \/ Tick
  BY <1>1, <1>2, HostSafe
<1>3. CASE ReadWaiting \/ ReadTimesOut
  BY <1>1, <1>3, SerialReadSafe
<1>4. CASE PortFails
  BY <1>1, <1>4, LostSafe DEF PortFails
<1>5. CASE WriteData
  BY <1>1, <1>5, WriteDataSafe
<1>6. CASE Flush
  BY <1>1, <1>6, FlushSafe
<1>7. ASSUME NEW n \in Chunks \ {0}, Sends(n, PutBytes) PROVE SafeStep
  <2>1. /\ n \in Nat /\ conn \in Nat /\ sent \in Nat /\ wire \in Seq(Byte)
    BY <1>1, TransportTimes DEF Safe, CallInv, TransportTypeOK
  <2>2. /\ UNCHANGED <<PeerVars, handle, present, buffer, out, conn, heard>> /\ handle = "open"
        /\ sent' = sent + n /\ wire' = wire \o Bytes(sent, n)
    BY <1>7 DEF Sends, PutBytes, Bytes
  <2>3. Bytes(sent, n) \in Seq(Byte)
    BY <2>1, BytesAreBytes
  <2>4. wire' \in Seq(Byte) /\ sent' \in Nat
    BY <2>1, <2>2, <2>3
  <2> QED BY <1>1, <2>2, <2>4, SendsSafe
<1>8. CASE Hears
  BY <1>1, <1>8, HearsSafe
<1>9. ASSUME NEW stays \in BOOLEAN, Drops(stays, 0) PROVE SafeStep
  <2>1. 0 \in 0..Len(wire)
    BY <1>1 DEF Safe, CallInv, TransportTypeOK
  <2> QED BY <1>1, <1>9, <2>1, DropsSafe
<1>10. CASE ComesBack
  BY <1>1, <1>10, ComesBackSafe
<1> QED BY <1>1, <1>2, <1>3, <1>4, <1>5, <1>6, <1>7, <1>8, <1>9, <1>10 DEF SerialHost, SerialPeer

-----------------------------------------------------------------------------
(* WebSocketTransport.                                                     *)

\* off[k] bytes of the connection come before frame k of the wire: the frames
\* follow the buffer, and each other, without a gap.
FramesFollow(off) ==
    /\ off \in [1..(Len(wire) + 1) -> Nat]
    /\ off[1] = taken + Len(buffer)
    /\ \A k \in 1..(Len(wire) + 1) : off[k] <= sent
    /\ \A k \in 1..Len(wire) :
        off[k] <= off[k + 1] /\ wire[k] = Bytes(off[k], off[k + 1] - off[k])
    /\ handle = "open" => off[Len(wire) + 1] = sent

\* The buffer holds the bytes that come next, and the frames those after them, all
\* that was sent while the connection is whole.
WebSocketInv ==
    /\ HandleInv
    /\ buffer \in Seq(Byte) /\ wire \in Seq(Seq(Byte))
    /\ buffer = Bytes(taken, Len(buffer))
    /\ \E off \in [1..(Len(wire) + 1) -> Nat] : FramesFollow(off)
    /\ handle = "none" => wire = <<>> /\ buffer = <<>>

WebSocketStreamStep == StreamStep /\ WebSocketInv'

\* Nothing is at hand.
LEMMA WebSocketEmpty ==
    ASSUME HandleInv', wire' = <<>>, buffer' = <<>>, taken' <= sent',
           handle' = "open" => taken' = sent'
    PROVE  WebSocketInv'
<1>1. Bytes(taken, Len(buffer))' = buffer'
  BY DEF Bytes
<1>2. Len(wire') = 0 /\ Len(buffer') = 0 /\ taken' \in Nat
  BY DEF HandleInv
<1> PICK off \in [1..1 -> Nat] : off[1] = taken'
  <2>1. [i \in 1..1 |-> taken'] \in [1..1 -> Nat] /\ [i \in 1..1 |-> taken'][1] = taken'
    BY <1>2
  <2> QED BY <2>1
<1>3. off \in [1..(Len(wire') + 1) -> Nat]
  BY <1>2
<1>4. FramesFollow(off)'
  <2>1. Len(wire') + 1 = 1
    BY <1>2
  <2>2. \A m \in Nat : m + 0 = m
    OBVIOUS
  <2>3. taken' + Len(buffer') = taken'
    BY <1>2, <2>2
  <2>4. \A k \in 1..(Len(wire') + 1) : off[k] <= sent'
    <3> TAKE k \in 1..(Len(wire') + 1)
    <3>1. k = 1
      BY <2>1
    <3> QED BY <3>1
  <2>5. \A k \in 1..Len(wire') : FALSE
    BY <1>2
  <2> QED BY <1>3, <2>1, <2>3, <2>4, <2>5 DEF FramesFollow
<1> QED BY <1>1, <1>3, <1>4 DEF WebSocketInv

LEMMA WebSocketOpened ==
    ASSUME WebSocketInv, Opened, handle = "none", HandleInv'
    PROVE  WebSocketStreamStep
<1>1. wire' = <<>> /\ buffer' = <<>>
  BY DEF WebSocketInv, Opened
<1>2. StreamStep /\ sent' = 0 /\ taken' = 0
  BY OpenedIsConnect DEF WebSocketInv
<1> QED BY <1>1, <1>2, WebSocketEmpty DEF WebSocketStreamStep

LEMMA TakenAtMostSent ==
    ASSUME WebSocketInv
    PROVE  taken + Len(buffer) <= sent /\ taken <= sent
<1>0. taken \in Nat /\ Len(buffer) \in Nat /\ Len(wire) \in Nat /\ sent \in Nat
  BY DEF WebSocketInv, HandleInv
<1> PICK off \in [1..(Len(wire) + 1) -> Nat] : FramesFollow(off)
  BY DEF WebSocketInv
<1>1. off[1] = taken + Len(buffer) /\ off[1] <= sent
  BY <1>0 DEF FramesFollow
<1> QED BY <1>0, <1>1

LEMMA WebSocketClosed ==
    ASSUME WebSocketInv, Closed, UNCHANGED stream_vars, HandleInv'
    PROVE  WebSocketStreamStep
<1>1. wire' = <<>> /\ buffer' = <<>> /\ handle' = "none" /\ UNCHANGED <<conn, sent, taken, got>>
  BY DEF Closed, stream_vars
<1>2. StreamStep
  BY DEF StreamStep
<1>3. taken' <= sent'
  BY <1>1, TakenAtMostSent
<1> QED BY <1>1, <1>2, <1>3, WebSocketEmpty DEF WebSocketStreamStep

LEMMA WebSocketUntouched ==
    ASSUME WebSocketInv, UNCHANGED <<handle, wire, buffer, stream_vars>>, HandleInv'
    PROVE  WebSocketStreamStep
<1>1. UNCHANGED <<handle, wire, buffer, conn, sent, taken, got>> /\ StreamStep
  BY DEF stream_vars, StreamStep
<1>2. Bytes(taken, Len(buffer))' = Bytes(taken, Len(buffer))
  BY <1>1 DEF Bytes
<1> PICK off \in [1..(Len(wire) + 1) -> Nat] : FramesFollow(off)
  BY DEF WebSocketInv
<1>3. FramesFollow(off)'
  BY <1>1 DEF FramesFollow, Bytes
<1>4. \E o \in [1..(Len(wire') + 1) -> Nat] : FramesFollow(o)'
  BY <1>1, <1>3
<1> QED BY <1>1, <1>2, <1>4 DEF WebSocketInv, WebSocketStreamStep

\* What the steps of a call and of the caller do to the place it is at.
LEMMA WebSocketHandle ==
    ASSUME WebSocketInv, [WebSocketNext]_transport_vars,
           conn' \in Nat, sent' \in Nat, taken' \in Nat, got' \in Seq(Byte)
    PROVE  HandleInv'
<1>0. size' \in (Nat \ {0}) \cup {None}
  BY TransportTimes DEF WebSocketInv, HandleInv, WebSocketNext, Caller, Connect, Disconnect, Read, Write,
     Begin, WebSocketHost, ReadBuffered, Receive, DrainBuffer, ReceiveTimesOut, ReceiveFails, SendFails,
     SendFrame, Reconnecting, AttemptSucceeds, AttemptFails, AttemptAgain, ReconnectFails,
     ConnectionLost, Attempt, ReturnBytes, Return, WebSocketPeer, Sends, Hears, Drops, ComesBack, PeerVars,
     Tick, transport_vars, call_vars
<1>1. CASE Caller
  BY <1>0, <1>1 DEF Caller, Connect, Disconnect, Read, Write, Begin, Idle, Opened, Closed, call_vars,
                    WebSocketInv, HandleInv
<1>2. CASE WebSocketHost
  <2>1. CASE ReadBuffered \/ Receive \/ ReceiveTimesOut \/ SendFrame
    BY <1>0, <2>1 DEF ReadBuffered, Receive, DrainBuffer, ReceiveTimesOut, SendFrame, ReturnBytes,
       Return, WebSocketInv, HandleInv
  <2>2. CASE ReceiveFails \/ SendFails
    BY <1>0, <2>2 DEF ReceiveFails, MayReceive, SendFails, ConnectionLost, Attempt, Closed, Return,
       link_vars, WebSocketInv, HandleInv
  <2>3. CASE Reconnecting
    BY <1>0, <2>3 DEF Reconnecting, AttemptSucceeds, AttemptFails, AttemptAgain, ReconnectFails,
       Attempt, Opened, Return, link_vars, WebSocketInv, HandleInv
  <2> QED BY <1>2, <2>1, <2>2, <2>3 DEF WebSocketHost
<1>3. CASE WebSocketPeer
  BY <1>0, <1>3 DEF WebSocketPeer, Sends, Hears, Drops, ComesBack, PeerVars, call_vars, WebSocketInv, HandleInv
<1>4. CASE Tick
  BY <1>0, <1>4 DEF Tick, link_vars, WebSocketInv, HandleInv
<1>5. CASE UNCHANGED transport_vars
  BY <1>0, <1>5 DEF transport_vars, link_vars, call_vars, WebSocketInv, HandleInv
<1> QED BY <1>1, <1>2, <1>3, <1>4, <1>5 DEF WebSocketNext

\* n bytes are at hand, before frames that follow them; a read returns k of them.
LEMMA WebSocketDrains ==
    ASSUME WebSocketInv, [WebSocketNext]_transport_vars, NEW n \in Nat, DrainBuffer(Bytes(taken, n)),
           taken + n <= sent, UNCHANGED handle, wire' \in Seq(Seq(Byte)),
           handle = "none" => n = 0 /\ wire' = <<>>,
           NEW off \in [1..(Len(wire') + 1) -> Nat],
           off[1] = taken + n,
           \A k \in 1..(Len(wire') + 1) : off[k] <= sent,
           \A k \in 1..Len(wire') :
              off[k] <= off[k + 1] /\ wire'[k] = Bytes(off[k], off[k + 1] - off[k]),
           handle = "open" => off[Len(wire') + 1] = sent
    PROVE  WebSocketStreamStep
<1>0. HandleInv /\ conn \in Nat /\ taken \in Nat /\ size \in (Nat \ {0}) \cup {None}
  BY DEF WebSocketInv, HandleInv
<1>1. PICK k \in 0..n : /\ Split(Bytes(taken, n))[1] = Bytes(taken, k)
                        /\ Split(Bytes(taken, n))[2] = Bytes(taken + k, n - k)
  BY <1>0, SplitBytes
<1>2. k \in Nat /\ n - k \in Nat /\ taken + k \in Nat /\ taken + k <= sent
      /\ (taken + k) + (n - k) = taken + n
  BY <1>0 DEF HandleInv
<1>3. ReturnBytes(Bytes(taken, k)) /\ buffer' = Bytes(taken + k, n - k)
  BY <1>1 DEF DrainBuffer
<1>4. /\ StreamStep
      /\ taken' = taken + k /\ got' \in Seq(Byte)
      /\ conn' = conn /\ sent' = sent
  BY <1>0, <1>2, <1>3, ReturnedIsReceived
<1>5. buffer' \in Seq(Byte) /\ Len(buffer') = n - k
  BY <1>0, <1>2, <1>3, BytesAreBytes
<1>6. buffer' = Bytes(taken, Len(buffer))'
  BY <1>3, <1>4, <1>5 DEF Bytes
<1>7. HandleInv'
  BY <1>0, <1>2, <1>4, WebSocketHandle DEF HandleInv
<1>8. FramesFollow(off)'
  BY <1>2, <1>4, <1>5 DEF FramesFollow, Bytes
<1>9. handle' = "none" => wire' = <<>> /\ buffer' = <<>>
  <2> SUFFICES ASSUME handle' = "none" PROVE wire' = <<>> /\ n = 0 /\ k = 0
    BY <1>3 DEF Bytes
  <2> QED OBVIOUS
<1> QED BY <1>4, <1>5, <1>6, <1>7, <1>8, <1>9 DEF WebSocketInv, WebSocketStreamStep

LEMMA WebSocketReads ==
    ASSUME WebSocketInv, [WebSocketNext]_transport_vars, ReadBuffered \/ Receive \/ ReceiveTimesOut
    PROVE  WebSocketStreamStep
<1>0. Len(buffer) \in Nat /\ Len(wire) \in Nat /\ conn \in Nat /\ taken \in Nat /\ sent \in Nat
  BY DEF WebSocketInv, HandleInv
<1>1. taken + Len(buffer) <= sent /\ taken <= sent
  BY TakenAtMostSent
<1>2. buffer = Bytes(taken, Len(buffer)) /\ wire \in Seq(Seq(Byte))
  BY DEF WebSocketInv
<1> PICK off \in [1..(Len(wire) + 1) -> Nat] : FramesFollow(off)
  BY DEF WebSocketInv
<1>3. CASE ReadBuffered
  <2>1. DrainBuffer(Bytes(taken, Len(buffer))) /\ UNCHANGED <<handle, wire>>
    BY <1>2, <1>3 DEF ReadBuffered
  <2>2. handle = "none" => Len(buffer) = 0 /\ wire = <<>>
    BY DEF WebSocketInv
  <2> QED BY <1>0, <1>1, <1>2, <2>1, <2>2, WebSocketDrains DEF FramesFollow
<1>4. CASE Receive
  <2> DEFINE n == off[2] - off[1]
  <2>1. buffer = <<>> /\ wire # <<>> /\ Len(buffer) = 0 /\ Len(wire) >= 1 /\ 1 \in 1..Len(wire)
    BY <1>0, <1>2, <1>4 DEF Receive, MayReceive
  <2>2. /\ off[1] = taken /\ off[1] <= off[2] /\ off[2] <= sent /\ off[2] \in Nat
        /\ Head(wire) = Bytes(off[1], off[2] - off[1])
    BY <1>0, <1>2, <2>1 DEF FramesFollow
  <2>3. n \in Nat /\ taken + n = off[2] /\ taken + n <= sent
    BY <1>0, <2>2
  <2>4. DrainBuffer(Bytes(taken, n)) /\ handle' = handle /\ wire' = Tail(wire)
    BY <1>4, <2>2 DEF Receive
  <2>5. /\ wire' \in Seq(Seq(Byte)) /\ Len(wire') + 1 = Len(wire)
        /\ \A k \in 1..Len(wire') : wire'[k] = wire[k + 1]
    BY <1>0, <1>2, <2>1, <2>4
  <2>6. handle # "none"
    BY <2>1 DEF WebSocketInv
  <2> PICK later \in [1..Len(wire) -> Nat] : \A i \in 1..Len(wire) : later[i] = off[i + 1]
    <3>1. [i \in 1..Len(wire) |-> off[i + 1]] \in [1..Len(wire) -> Nat]
      BY <1>0
    <3> QED BY <3>1
  <2>7. later \in [1..(Len(wire') + 1) -> Nat] /\ later[1] = taken + n
    BY <1>0, <2>1, <2>3, <2>5
  <2>8. \A k \in 1..(Len(wire') + 1) : later[k] <= sent
    BY <1>0, <2>5 DEF FramesFollow
  <2>9. \A k \in 1..Len(wire') :
          later[k] <= later[k + 1] /\ wire'[k] = Bytes(later[k], later[k + 1] - later[k])
    BY <1>0, <2>5 DEF FramesFollow
  <2>10. handle = "open" => later[Len(wire') + 1] = sent
    BY <1>0, <2>1, <2>5 DEF FramesFollow
  <2> HIDE DEF n
  <2> QED BY <2>3, <2>4, <2>5, <2>6, <2>7, <2>8, <2>9, <2>10, WebSocketDrains
<1>5. CASE ReceiveTimesOut
  <2>1. /\ ReturnBytes(<<>>) /\ buffer = <<>> /\ UNCHANGED <<handle, wire, buffer>>
        /\ Len(buffer) = 0
    BY <1>5 DEF ReceiveTimesOut, link_vars
  <2>2. Bytes(taken, 0) = <<>> /\ Split(<<>>) = <<<<>>, <<>>>>
    <3>1. size = None \/ size >= Len(<<>>)
      BY DEF WebSocketInv, HandleInv
    <3> QED BY <3>1 DEF Bytes, Split
  <2>3. DrainBuffer(Bytes(taken, Len(buffer)))
    BY <2>1, <2>2 DEF DrainBuffer
  <2>4. handle = "none" => Len(buffer) = 0 /\ wire = <<>>
    BY DEF WebSocketInv
  <2> QED BY <1>0, <1>1, <1>2, <2>1, <2>3, <2>4, WebSocketDrains DEF FramesFollow
<1> QED BY <1>3, <1>4, <1>5

LEMMA WebSocketSends ==
    ASSUME WebSocketInv, NEW n \in Chunks, Sends(n, PutFrame), HandleInv'
    PROVE  WebSocketStreamStep
<1>0. /\ n \in Nat /\ Len(wire) \in Nat /\ conn \in Nat /\ taken \in Nat /\ sent \in Nat
      /\ wire \in Seq(Seq(Byte)) /\ sent + n \in Nat
  BY TransportTimes DEF WebSocketInv, HandleInv
<1>1. /\ sent' = sent + n /\ conn' = conn /\ taken' = taken /\ got' = got /\ buffer' = buffer
      /\ handle = "open" /\ handle' = handle
      /\ wire' = Append(wire, Bytes(sent, n))
  BY DEF Sends, PutFrame, PeerVars, Bytes
<1>2. StreamStep
  BY <1>0, <1>1, SentIsSend DEF WebSocketInv
<1>3. buffer' = Bytes(taken, Len(buffer))'
  BY <1>1 DEF WebSocketInv, Bytes
<1>4. Bytes(sent, n) \in Seq(Byte)
  BY <1>0, BytesAreBytes
<1>5. /\ wire' \in Seq(Seq(Byte)) /\ Len(wire') = Len(wire) + 1
      /\ wire'[Len(wire) + 1] = Bytes(sent, n)
      /\ \A k \in 1..Len(wire) : wire'[k] = wire[k]
  BY <1>0, <1>1, <1>4
<1> PICK off \in [1..(Len(wire) + 1) -> Nat] : FramesFollow(off)
  BY DEF WebSocketInv
<1> PICK longer \in [1..(Len(wire) + 2) -> Nat] :
        /\ \A i \in 1..(Len(wire) + 1) : longer[i] = off[i]
        /\ longer[Len(wire) + 2] = sent + n
  <2> DEFINE f == [i \in 1..(Len(wire) + 2) |-> IF i = Len(wire) + 2 THEN sent + n ELSE off[i]]
  <2>1. f \in [1..(Len(wire) + 2) -> Nat]
    BY <1>0
  <2>2. \A i \in 1..(Len(wire) + 1) : f[i] = off[i]
    BY <1>0
  <2>3. f[Len(wire) + 2] = sent + n
    BY <1>0
  <2> QED BY <2>1, <2>2, <2>3
<1>6. longer \in [1..(Len(wire') + 1) -> Nat]
  BY <1>0, <1>5
<1>7. off[Len(wire) + 1] = sent
  BY <1>0, <1>1 DEF FramesFollow
<1>8. longer[1] = taken' + Len(buffer')
  BY <1>0, <1>1, <1>7 DEF FramesFollow
<1>9. \A k \in 1..(Len(wire') + 1) : longer[k] <= sent'
  <2> TAKE k \in 1..(Len(wire') + 1)
  <2>1. CASE k = Len(wire) + 2
    BY <1>0, <1>1, <1>7, <2>1
  <2>2. CASE k \in 1..(Len(wire) + 1)
    <3>1. longer[k] = off[k] /\ off[k] \in Nat /\ off[k] <= sent
      BY <1>0, <2>2 DEF FramesFollow
    <3> QED BY <1>0, <1>1, <3>1
  <2> QED BY <1>0, <1>5, <2>1, <2>2
<1>10. \A k \in 1..Len(wire') :
          longer[k] <= longer[k + 1] /\ wire'[k] = Bytes(longer[k], longer[k + 1] - longer[k])
  <2> TAKE k \in 1..Len(wire')
  <2>1. CASE k = Len(wire) + 1
    <3>1. k + 1 = Len(wire) + 2 /\ k \in 1..(Len(wire) + 1)
      BY <1>0, <2>1
    <3>2. longer[k] = sent /\ longer[k + 1] = sent + n /\ (sent + n) - sent = n /\ sent <= sent + n
      BY <1>0, <1>7, <2>1, <3>1, SMTT(60)
    <3> QED BY <1>5, <2>1, <3>2
  <2>2. CASE k \in 1..Len(wire)
    <3>1. longer[k] = off[k] /\ longer[k + 1] = off[k + 1]
      BY <1>0, <2>2
    <3> QED BY <1>5, <2>2, <3>1 DEF FramesFollow
  <2> QED BY <1>0, <1>5, <2>1, <2>2
<1>11. longer[Len(wire') + 1] = sent'
  BY <1>0, <1>1, <1>5, <1>7
<1>12. FramesFollow(longer)'
  BY <1>1, <1>6, <1>8, <1>9, <1>10, <1>11 DEF FramesFollow, Bytes
<1> QED BY <1>1, <1>2, <1>3, <1>5, <1>6, <1>12 DEF WebSocketInv, WebSocketStreamStep

LEMMA WebSocketDrops ==
    ASSUME WebSocketInv, NEW stays \in BOOLEAN, NEW k \in 0..Len(wire), Drops(stays, k), HandleInv'
    PROVE  WebSocketStreamStep
<1>0. Len(wire) \in Nat /\ wire \in Seq(Seq(Byte))
  BY DEF WebSocketInv
<1>1. /\ conn' = conn /\ sent' = sent /\ taken' = taken /\ got' = got /\ buffer' = buffer
      /\ StreamStep
  BY DEF Drops, PeerVars, StreamStep, stream_vars
<1>2. CASE handle = "open"
  <2>1. wire' = SubSeq(wire, 1, k) /\ handle' = "dead"
    BY <1>2 DEF Drops
  <2>2. /\ wire' \in Seq(Seq(Byte)) /\ Len(wire') = k
        /\ \A i \in 1..k : wire'[i] = wire[i]
    BY <1>0, <2>1
  <2>3. buffer' = Bytes(taken, Len(buffer))'
    BY <1>1 DEF WebSocketInv, Bytes
  <2> PICK off \in [1..(Len(wire) + 1) -> Nat] : FramesFollow(off)
    BY DEF WebSocketInv
  <2> PICK fewer \in [1..(k + 1) -> Nat] : \A i \in 1..(k + 1) : fewer[i] = off[i]
    <3>1. [i \in 1..(k + 1) |-> off[i]] \in [1..(k + 1) -> Nat]
      BY <1>0
    <3> QED BY <3>1
  <2>4. fewer \in [1..(Len(wire') + 1) -> Nat]
    BY <1>0, <2>2
  <2>6. fewer[1] = taken' + Len(buffer')
    BY <1>0, <1>1 DEF FramesFollow
  <2>7. \A i \in 1..(Len(wire') + 1) : fewer[i] <= sent'
    BY <1>0, <1>1, <2>2 DEF FramesFollow
  <2>8. \A i \in 1..Len(wire') :
          fewer[i] <= fewer[i + 1] /\ wire'[i] = Bytes(fewer[i], fewer[i + 1] - fewer[i])
    <3> TAKE i \in 1..Len(wire')
    <3>1. fewer[i] = off[i] /\ fewer[i + 1] = off[i + 1] /\ i \in 1..Len(wire) /\ wire'[i] = wire[i]
      BY <1>0, <2>2, SMTT(60)
    <3> QED BY <3>1 DEF FramesFollow
  <2>9. FramesFollow(fewer)'
    BY <1>1, <2>1, <2>4, <2>6, <2>7, <2>8 DEF FramesFollow, Bytes
  <2> QED BY <1>1, <2>1, <2>2, <2>3, <2>4, <2>9 DEF WebSocketInv, WebSocketStreamStep
<1>3. CASE handle # "open"
  BY <1>1, <1>3, WebSocketUntouched DEF Drops, stream_vars
<1> QED BY <1>2, <1>3

LEMMA WebSocketSteps ==
    ASSUME WebSocketInv, [WebSocketNext]_transport_vars
    PROVE  WebSocketStreamStep
<1>0. HandleInv
  BY DEF WebSocketInv
<1>1. CASE ReadBuffered \/ Receive \/ ReceiveTimesOut
  BY <1>1, WebSocketReads
<1>2. CASE Opened /\ handle = "none"
  <2>1. HandleInv'
    BY <1>0, <1>2, OpenedIsConnect, WebSocketHandle DEF HandleInv
  <2> QED BY <1>2, <2>1, WebSocketOpened
<1>3. CASE Closed /\ UNCHANGED stream_vars
  <2>1. HandleInv'
    BY <1>0, <1>3, WebSocketHandle DEF HandleInv, stream_vars
  <2> QED BY <1>3, <2>1, WebSocketClosed
<1>4. CASE UNCHANGED <<handle, wire, buffer, stream_vars>>
  <2>1. HandleInv'
    BY <1>0, <1>4, WebSocketHandle DEF HandleInv, stream_vars
  <2> QED BY <1>4, <2>1, WebSocketUntouched
<1>5. CASE \E n \in Chunks : Sends(n, PutFrame)
  <2> PICK n \in Chunks : Sends(n, PutFrame)
    BY <1>5
  <2>1. sent' \in Nat /\ UNCHANGED <<conn, taken, got>>
    BY <1>0, TransportTimes DEF Sends, PeerVars, HandleInv
  <2>2. HandleInv'
    BY <1>0, <2>1, WebSocketHandle DEF HandleInv
  <2> QED BY <2>2, WebSocketSends
<1>6. CASE \E stays \in BOOLEAN, k \in 0..Len(wire) : Drops(stays, k)
  <2> PICK stays \in BOOLEAN, k \in 0..Len(wire) : Drops(stays, k)
    BY <1>6
  <2>1. HandleInv'
    BY <1>0, WebSocketHandle DEF Drops, PeerVars, HandleInv
  <2> QED BY <2>1, WebSocketDrops
<1>7. Caller => (Opened /\ handle = "none") \/ (Closed /\ UNCHANGED stream_vars)
                \/ UNCHANGED <<handle, wire, buffer, stream_vars>>
  BY DEF Caller, Connect, Disconnect, Read, Write, Begin, link_vars
<1>8. ConnectionLost => \/ Closed /\ UNCHANGED stream_vars
                        \/ UNCHANGED <<handle, wire, buffer, stream_vars>>
  BY DEF ConnectionLost, link_vars
<1>9. Reconnecting => (Opened /\ handle = "none") \/ UNCHANGED <<handle, wire, buffer, stream_vars>>
  BY DEF Reconnecting, AttemptSucceeds, AttemptFails, AttemptAgain, ReconnectFails, link_vars,
         WebSocketInv, HandleInv
<1>10. Hears \/ ComesBack \/ Tick \/ SendFrame \/ UNCHANGED transport_vars =>
         UNCHANGED <<handle, wire, buffer, stream_vars>>
  BY DEF Hears, ComesBack, PeerVars, Tick, SendFrame, link_vars, stream_vars, transport_vars
<1> QED BY <1>1, <1>2, <1>3, <1>4, <1>5, <1>6, <1>7, <1>8, <1>9, <1>10
        DEF WebSocketNext, WebSocketHost, ReceiveFails, SendFails, WebSocketPeer

LEMMA WebSocketReadSafe ==
    ASSUME Safe, ReadBuffered \/ Receive \/ ReceiveTimesOut, kind = "websocket", kind' = kind
    PROVE  SafeStep
<1>0. /\ wire \in Seq(Seq(Byte)) /\ buffer \in Seq(Byte) /\ size \in (Nat \ {0}) \cup {None}
  BY DEF Safe, CallInv, TransportTypeOK
<1>1. CASE ReadBuffered
  <2>1. Split(buffer)[2] \in Seq(Byte)
    BY <1>0, SplitType
  <2> QED BY <1>0, <1>1, <2>1, ReadSafe DEF ReadBuffered, DrainBuffer
<1>2. CASE Receive
  <2>1. Head(wire) \in Seq(Byte) /\ Tail(wire) \in Seq(Seq(Byte))
    BY <1>0, <1>2 DEF Receive
  <2>2. Split(Head(wire))[2] \in Seq(Byte)
    BY <1>0, <2>1, SplitType
  <2> QED BY <1>0, <1>2, <2>1, <2>2, ReadSafe DEF Receive, MayReceive, DrainBuffer
<1>3. CASE ReceiveTimesOut
  BY <1>0, <1>3, ReadSafe DEF ReceiveTimesOut, link_vars
<1> QED BY <1>1, <1>2, <1>3

LEMMA SendFrameSafe ==
    ASSUME Safe, SendFrame, kind = "websocket", kind' = kind
    PROVE  SafeStep
<1>1. /\ out' = Append(out, written) /\ at = "writing" /\ handle = "open" /\ Return(None)
      /\ UNCHANGED <<handle, present, wire, buffer, conn, sent>>
  BY DEF SendFrame, stream_vars
<1>2. /\ call = "write" /\ written \in Command /\ written \in Nat /\ conn \in Nat
      /\ out \in Seq(Command) /\ Len(out) \in Nat /\ \A c \in Command : c \in Nat
      /\ WebSocketHeard
  BY <1>1 DEF Safe, CallInv, TransportTypeOK, Command, HeardInv
<1>3. /\ out' \in Seq(Command) /\ Len(out') = Len(out) + 1 /\ out'[Len(out) + 1] = written
      /\ \A k \in 1..Len(out) : out'[k] = out[k]
      /\ DOMAIN out' = 1..(Len(out) + 1) /\ DOMAIN out = 1..Len(out)
  BY <1>1, <1>2
<1>4. CallInv'
  BY <1>1, <1>3, ReturnCall DEF Safe, CallInv, TransportTypeOK
<1>5. /\ call' = "none" /\ at' = "none" /\ retry' = FALSE
      /\ UNCHANGED <<reconnect, written, heard>>
  BY <1>1 DEF Return
<1>6. \A k \in 1..Len(out) : out[k] \in Nat /\ out[k] < written
  <2>1. \A k \in 1..Len(out) : out[k] \in Nat
    <3>1. ASSUME NEW T, NEW s \in Seq(T) PROVE \A k \in 1..Len(s) : s[k] \in T
      OBVIOUS
    <3>2. \A k \in 1..Len(out) : out[k] \in Command
      BY <1>2, <3>1
    <3> QED BY <1>2, <3>2
  <2>2. \A k \in 1..Len(out) : out[k] <= written /\ out[k] # written
    BY <1>2, <1>3 DEF WebSocketHeard
  <2> QED BY <1>2, <2>1, <2>2
<1>7. \A k \in DOMAIN out' : k \in 1..Len(out) \/ k = Len(out) + 1
  BY <1>2, <1>3
<1>8. \A j, k \in DOMAIN out' : j < k => out'[j] < out'[k]
  <2> SUFFICES ASSUME NEW j \in DOMAIN out', NEW k \in DOMAIN out', j < k PROVE out'[j] < out'[k]
    OBVIOUS
  <2>1. j \in 1..Len(out)
    BY <1>2, <1>3
  <2>2. CASE k = Len(out) + 1
    BY <1>3, <1>6, <2>1, <2>2
  <2>3. CASE k \in 1..Len(out)
    BY <1>2, <1>3, <2>1, <2>3 DEF WebSocketHeard
  <2> QED BY <1>7, <2>2, <2>3
<1>9. \A k \in DOMAIN out' : out'[k] <= written'
  BY <1>2, <1>3, <1>5, <1>6, <1>7
<1>10. \A i \in DOMAIN heard, k \in DOMAIN out' : heard[i][2] < out'[k]
  <2>0. heard \in Seq(Nat \X Command) /\ \A i \in DOMAIN heard : heard[i][2] <= written
    BY DEF Safe, HeardInv
  <2>1. \A i \in DOMAIN heard : heard[i][2] \in Nat /\ heard[i][2] <= written /\ heard[i][2] # written
    <3>1. ASSUME NEW T, NEW s \in Seq(T) PROVE \A i \in DOMAIN s : s[i] \in T
      OBVIOUS
    <3>2. \A i \in DOMAIN heard : heard[i] \in Nat \X Command
      BY <2>0, <3>1
    <3>3. \A i \in DOMAIN heard : heard[i][2] \in Nat
      BY <1>2, <3>2
    <3> QED BY <1>2, <2>0, <3>3 DEF WebSocketHeard, Unheard
  <2>2. \A i \in DOMAIN heard : heard[i][2] < written
    BY <1>2, <2>1
  <2> SUFFICES ASSUME NEW i \in DOMAIN heard, NEW k \in DOMAIN out' PROVE heard[i][2] < out'[k]
    OBVIOUS
  <2>3. CASE k = Len(out) + 1
    BY <1>3, <2>2, <2>3
  <2>4. CASE k \in 1..Len(out)
    BY <1>2, <1>3, <2>4 DEF WebSocketHeard
  <2> QED BY <1>7, <2>3, <2>4
<1>11. WebSocketHeard'
  BY <1>5, <1>8, <1>9, <1>10 DEF WebSocketHeard
<1>12. HeardInv'
  BY <1>1, <1>2, <1>5, <1>11, HeardKept DEF Safe
<1> QED BY <1>1, <1>4, <1>5, <1>12, NoReadTime, OtherRaw DEF Safe, SafeStep

LEMMA WebSocketSafeSteps ==
    ASSUME Safe, [WebSocketNext]_transport_vars
    PROVE  SafeStep
<1>0. CASE UNCHANGED transport_vars
  BY <1>0, SameSafe
<1> SUFFICES ASSUME WebSocketNext PROVE SafeStep
  BY <1>0
<1>1. kind = "websocket" /\ kind' = kind /\ (Caller \/ WebSocketHost \/ WebSocketPeer \/ Tick)
  BY DEF WebSocketNext
<1>2. CASE Caller \/ Reconnecting \/ Tick
  BY <1>1, <1>2, HostSafe
<1>3. CASE ReadBuffered \/ Receive \/ ReceiveTimesOut
  BY <1>1, <1>3, WebSocketReadSafe
<1>4. CASE ReceiveFails
  BY <1>1, <1>4, LostSafe DEF ReceiveFails, MayReceive
<1>5. CASE SendFails
  BY <1>1, <1>5, LostSafe DEF SendFails
<1>6. CASE SendFrame
  BY <1>1, <1>6, SendFrameSafe
<1>7. ASSUME NEW n \in Chunks, Sends(n, PutFrame) PROVE SafeStep
  <2>1. n \in Nat /\ conn \in Nat /\ sent \in Nat /\ wire \in Seq(Seq(Byte))
    BY <1>1, TransportTimes DEF Safe, CallInv, TransportTypeOK
  <2>2. /\ UNCHANGED <<PeerVars, handle, present, buffer, out, conn, heard>> /\ handle = "open"
        /\ sent' = sent + n /\ wire' = Append(wire, Bytes(sent, n))
    BY <1>7 DEF Sends, PutFrame, Bytes
  <2>3. Bytes(sent, n) \in Seq(Byte)
    BY <2>1, BytesAreBytes
  <2>4. wire' \in Seq(Seq(Byte)) /\ sent' \in Nat
    BY <2>1, <2>2, <2>3
  <2> QED BY <1>1, <2>2, <2>4, SendsSafe
<1>8. CASE Hears
  BY <1>1, <1>8, HearsSafe
<1>9. ASSUME NEW stays \in BOOLEAN, NEW k \in 0..Len(wire), Drops(stays, k) PROVE SafeStep
  BY <1>1, <1>9, DropsSafe
<1>10. CASE ComesBack
  BY <1>1, <1>10, ComesBackSafe
<1> QED BY <1>1, <1>2, <1>3, <1>4, <1>5, <1>6, <1>7, <1>8, <1>9, <1>10 DEF WebSocketHost, WebSocketPeer

-----------------------------------------------------------------------------
(* The theorems.                                                           *)

IsTransport == kind \in {"serial", "websocket"}

LEMMA NextIsOneOf ==
    ASSUME IsTransport, [Next]_transport_vars
    PROVE  /\ kind = "serial" => [SerialNext]_transport_vars
           /\ kind = "websocket" => [WebSocketNext]_transport_vars
           /\ kind' = kind /\ IsTransport'
BY DEF IsTransport, Next, SerialNext, WebSocketNext, transport_vars

LEMMA SafeSteps ==
    ASSUME Safe, [Next]_transport_vars
    PROVE  SafeStep
<1>1. IsTransport
  BY DEF Safe, CallInv, IsTransport
<1> QED BY <1>1, NextIsOneOf, SerialSafeSteps, WebSocketSafeSteps DEF IsTransport

LEMMA Invariant == Spec => []Safe
<1>1. Safe /\ [Next]_transport_vars => Safe'
  BY SafeSteps DEF SafeStep
<1> QED BY <1>1, InitSafe, PTL DEF Spec

\* read and write of both transports: a call stands where it may, with a handle where
\* it uses one, so that their second _ensure_connected never raises.
THEOREM TypeCorrect == Spec => []TransportTypeOK
<1>1. Safe => TransportTypeOK
  BY SafeIsEnough
<1> QED BY <1>1, Invariant, PTL

\* write: commands are heard in the order of the writes; over a serial port one that
\* the retry repeats is heard twice at most, on two connections, and a write that
\* returned was heard; over a WebSocket none is heard twice.
THEOREM CommandsHeardAsWritten == Spec => []HeardAsWritten
<1>1. Safe => HeardAsWritten
  BY SafeIsEnough
<1> QED BY <1>1, Invariant, PTL

\* read: over a serial port every reconnect adds its own time to the timeout, over a
\* WebSocket all of them together no more than one.
THEOREM ReadOverrunIsBounded == Spec => []ReadOverrunBounded
<1>1. Safe => ReadOverrunBounded
  BY SafeIsEnough
<1> QED BY <1>1, Invariant, PTL

\* write: an error is left unconverted only by the second write of a call, when the
\* new connection is lost too.
THEOREM RawErrorIsSecondLoss == Spec => RawOnlyIfLostAgain
<1>1. Safe /\ [Next]_transport_vars => RawStep
  BY SafeSteps DEF SafeStep
<1>2. RawStep =>
        [raised # "raw" /\ raised' = "raw" =>
            call = "write" /\ reconnects > 0 /\ handle = "dead"]_transport_vars
  BY DEF RawStep
<1> QED BY <1>1, <1>2, Invariant, PTL DEF Spec, RawOnlyIfLostAgain

StreamInv ==
    /\ IsTransport
    /\ kind = "serial" => SerialInv
    /\ kind = "websocket" => WebSocketInv

LEMMA InitStream == TransportInit => StreamInv /\ Stream!Init
<1> SUFFICES ASSUME TransportInit PROVE StreamInv /\ Stream!Init
  OBVIOUS
<1>1. IsTransport /\ Stream!Init
  BY DEF TransportInit, IsTransport, Stream!Init
<1>2. kind = "serial" => SerialInv
  BY DEF TransportInit, SerialInv, HandleInv, Bytes
<1>3. kind = "websocket" => WebSocketInv
  <2> SUFFICES ASSUME kind = "websocket" PROVE WebSocketInv
    OBVIOUS
  <2> DEFINE off == [i \in 1..1 |-> 0]
  <2>1. Len(wire) = 0 /\ Len(buffer) = 0 /\ buffer = Bytes(taken, Len(buffer))
    BY DEF TransportInit, Bytes
  <2>2. off \in [1..(Len(wire) + 1) -> Nat] /\ FramesFollow(off)
    BY <2>1 DEF TransportInit, FramesFollow
  <2> QED BY <2>1, <2>2 DEF TransportInit, WebSocketInv, HandleInv
<1> QED BY <1>1, <1>2, <1>3 DEF StreamInv

LEMMA StreamSteps ==
    ASSUME StreamInv, [Next]_transport_vars
    PROVE  StreamInv' /\ StreamStep
<1>1. /\ kind = "serial" => [SerialNext]_transport_vars
      /\ kind = "websocket" => [WebSocketNext]_transport_vars
      /\ kind' = kind /\ IsTransport'
  BY NextIsOneOf DEF StreamInv
<1>2. CASE kind = "serial"
  <2>1. SerialStreamStep
    BY <1>1, <1>2, SerialSteps DEF StreamInv
  <2> QED BY <1>1, <1>2, <2>1 DEF StreamInv, SerialStreamStep
<1>3. CASE kind = "websocket"
  <2>1. WebSocketStreamStep
    BY <1>1, <1>3, WebSocketSteps DEF StreamInv
  <2> QED BY <1>1, <1>3, <2>1 DEF StreamInv, WebSocketStreamStep
<1> QED BY <1>2, <1>3 DEF StreamInv, IsTransport

\* read of both transports: what the reads return is a byte stream, through losses,
\* reconnects inside a read, reads cut to size and frames longer than a read.
THEOREM TransportsImplementStream == Spec => ImplementsStream
<1>1. StreamInv /\ [Next]_transport_vars => StreamInv' /\ [Stream!Next]_(Stream!stream_vars)
  BY StreamSteps DEF StreamStep, Stream!stream_vars, stream_vars
<1> QED BY <1>1, InitStream, PTL DEF Spec, ImplementsStream, Stream!Spec

=============================================================================
