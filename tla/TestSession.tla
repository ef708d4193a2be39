----------------------------- MODULE TestSession -----------------------------
(***************************************************************************)
(* testing/session.py: TestSession.discover, start_test and monitor over a *)
(* serial transport without reconnect, with the device they are written    *)
(* for, which drops off USB in deep sleep and when it crashes.             *)
(*                                                                         *)
(* What the device sends is a sequence of tokens, a word for the text of a *)
(* line and NL for its end; the transport returns them in chunks that end  *)
(* anywhere.  connect() and write() last: opening the port may fail or     *)
(* succeed at any time up to a limit, and flush() ends when the device has *)
(* taken the command, which it may never do.  The clock counts from the    *)
(* beginning of the running call's loop.                                   *)
(***************************************************************************)
EXTENDS Integers, Sequences, FiniteSets, SequencesExt

CONSTANTS
    Tests,          \* test ids
    Durations,      \* the durations of SLEEP markers; None does not parse
    Verdicts,       \* the status that the n-th run reports in its test_end line
    CallTimeout,    \* timeout of discover and start_test
    MonitorTimeout, \* timeout of monitor
    ReadTimeout,    \* timeout of _read_line
    ReadTime,       \* what one read() of it may last
    PollInterval,   \* port_poll_interval
    EnterLimit,     \* the 10 s a device may take to enter sleep
    SleepGrace,     \* the 15 s it may oversleep
    ConnectTime,    \* what connect() may last: the 10 s of resolve_port, and opening the port
    RetryWait,      \* the 1 s between reconnect attempts
    MaxAttempts,    \* max_attempts of _reconnect_after_wake
    MaxCalls,       \* bound: calls of discover and start_test, and of monitor after a timeout
    MaxLines,       \* bound: SLEEP markers and lines without meaning in a run
    MaxDrops,       \* bound: crashes and USB drops
    MaxFlush,       \* bound: the time that passes in flush() in a call of monitor
    None

ASSUME NoneAssumption == None \notin Nat \cup Tests

ASSUME TimesAssumption ==
    /\ {CallTimeout, MonitorTimeout, ReadTimeout, ReadTime, PollInterval, ConnectTime,
        RetryWait, MaxAttempts} \subseteq Nat \ {0}
    /\ EnterLimit \in Nat /\ SleepGrace \in Nat /\ EnterLimit < SleepGrace
    /\ Durations \subseteq Nat \cup {None}

ASSUME BoundsAssumption ==
    /\ MaxCalls \in Nat /\ MaxLines \in Nat /\ MaxDrops \in Nat /\ MaxFlush \in Nat
    /\ Verdicts \in Seq(Range(Verdicts)) /\ Len(Verdicts) >= MaxCalls

VARIABLES
    \* The host: the running call and where it stands.
    call, at, test_id, clock,
    due,                \* when the _read_line, time.sleep or connect() under way is to end
    line_buf,           \* _line_buf
    \* The locals of monitor.
    sleeping, sleep_confirmed, sleep_start_time, sleep_expected_s, elapsed, attempt,
    outcome,            \* status, warnings, sleep_actual_s, stopped (the run that ended)
    serial_log,         \* outcome.serial_log
    \* The connection.
    handle,             \* the transport's port: closed, open, or dead (is_open, device gone)
    port,               \* the port's path exists
    to_device,          \* commands the device has not read
    wire,               \* tokens the host has not read
    \* The device.
    dev, dev_test, run, lines,
    \* History.
    calls,
    started,            \* the run start_test saw start, or None
    again,              \* monitor was called again for it
    leftover,           \* tokens at the head of line_buf read over an earlier connection
    misled,             \* start_test returned at a marker of an earlier connection
    received,           \* the lines sent to the host in this monitor call and connection
    gone,               \* for how long the port has been gone since the SLEEP marker was seen
    flushed,            \* time spent in flush() in this call of monitor
    refused,            \* attempts of this reconnect whose connect() raised
    drops

call_vars == <<call, at, test_id, clock, due>>
monitor_vars == <<sleeping, sleep_confirmed, sleep_start_time, sleep_expected_s, elapsed,
                  attempt, outcome, serial_log>>
link_vars == <<handle, port, to_device, wire>>
device_vars == <<dev, dev_test, run, lines>>
bound_vars == <<calls, drops, again>>
fault_vars == <<gone, flushed, refused, bound_vars>>
buffer_vars == <<line_buf, leftover>>
start_vars == <<started, misled>>
vars == <<call_vars, buffer_vars, monitor_vars, link_vars, device_vars, start_vars, received, fault_vars>>

SOH == [command |-> "SOH", test |-> None]
ACK == [command |-> "ACK", test |-> None]
STX(t) == [command |-> "STX", test |-> t]
Commands == {SOH, ACK} \cup {STX(t) : t \in Tests}

Kinds == {"catalog", "text", "started", "sleep", "test_end", "stopped"}
Word(kind, t, r, arg) == [kind |-> kind, test |-> t, run |-> r, arg |-> arg]
NL == Word("nl", None, 0, None)
Text == Word("text", None, 0, None)

\* The lines with text of a stream.
Words(tokens) ==
    FlattenSeq([i \in 1..Len(tokens) |-> IF tokens[i] = NL THEN <<>> ELSE <<tokens[i]>>])

NoOutcome == [status |-> "ok", warnings |-> {}, sleep_actual_s |-> None, stopped |-> None]

Init ==
    /\ call = "none" /\ at = "top" /\ test_id = None /\ clock = 0 /\ due = 0
    /\ line_buf = <<>>
    /\ sleeping = FALSE /\ sleep_confirmed = FALSE /\ sleep_start_time = 0
    /\ sleep_expected_s = None /\ elapsed = 0 /\ attempt = 0
    /\ outcome = NoOutcome
    /\ serial_log = <<>>
    /\ handle = "open" /\ port = TRUE /\ to_device = <<>> /\ wire = <<>>
    /\ dev = "idle" /\ dev_test = None /\ run = 0 /\ lines = 0
    /\ calls = 0 /\ started = None /\ misled = FALSE /\ leftover = 0
    /\ received = <<>>
    /\ gone = 0 /\ flushed = 0 /\ refused = 0 /\ drops = 0 /\ again = FALSE

-----------------------------------------------------------------------------
(* The device, as the session and testing/protocol.py expect it.           *)

\* Lines that are sent while the host has no live connection are lost.
Emit(tokens) ==
    /\ UNCHANGED <<handle, port>>
    /\ IF handle = "open"
       THEN /\ wire' = wire \o tokens
            /\ received' = IF call = "monitor" THEN received \o Words(tokens) ELSE received
       ELSE UNCHANGED <<wire, received>>

Line(kind, arg) == <<Word(kind, dev_test', run', arg), NL>>

\* The device takes the next byte of its input.
DeviceIdle ==
    /\ dev = "idle" /\ to_device # <<>>
    /\ to_device' = Tail(to_device)
    /\ \/ /\ Head(to_device) = SOH
          /\ Emit(<<Word("catalog", None, 0, None), NL>>)
          /\ UNCHANGED device_vars
       \/ /\ Head(to_device) = ACK
          /\ UNCHANGED <<device_vars, handle, port, wire, received>>
       \/ /\ Head(to_device).command = "STX"
          /\ run' = run + 1
          /\ dev' = "running"
          /\ dev_test' = Head(to_device).test
          /\ lines' = 0
          /\ Emit(Line("started", None))
    /\ UNCHANGED <<call_vars, buffer_vars, monitor_vars, start_vars, fault_vars>>

\* A line the session does not interpret, or an empty one.
DeviceText ==
    /\ dev = "running" /\ lines < MaxLines
    /\ lines' = lines + 1
    /\ \E tokens \in {<<Text, NL>>, <<NL>>} : Emit(tokens)
    /\ UNCHANGED <<dev, dev_test, run, to_device>>
    /\ UNCHANGED <<call_vars, buffer_vars, monitor_vars, start_vars, fault_vars>>

DeviceSleepMarker(d) ==
    /\ dev = "running" /\ lines < MaxLines
    /\ dev' = "await_ack"
    /\ lines' = lines + 1
    /\ UNCHANGED <<dev_test, run, to_device>>
    /\ Emit(Line("sleep", d))
    /\ UNCHANGED <<call_vars, buffer_vars, monitor_vars, start_vars, fault_vars>>

\* The device waits for the ACK, or stops waiting for it.
DeviceAcked ==
    /\ dev = "await_ack"
    /\ IF to_device = <<>> THEN UNCHANGED to_device ELSE to_device' = Tail(to_device)
    /\ dev' = IF to_device = <<>> \/ Head(to_device) = ACK THEN "entering" ELSE dev
    /\ UNCHANGED <<dev_test, run, lines, handle, port, wire, received>>
    /\ UNCHANGED <<call_vars, buffer_vars, monitor_vars, start_vars, fault_vars>>

\* Everything in flight is lost, and a handle that was open is dead.
PortLost ==
    /\ handle' = IF handle = "open" THEN "dead" ELSE handle
    /\ to_device' = <<>>
    /\ wire' = <<>>

DeviceSleep ==
    /\ dev = "entering"
    /\ dev' = "asleep"
    /\ PortLost
    /\ port' = FALSE
    /\ gone' = 0
    /\ UNCHANGED <<dev_test, run, lines, flushed, refused, bound_vars>>
    /\ UNCHANGED <<call_vars, buffer_vars, monitor_vars, start_vars, received>>

DeviceWake ==
    /\ dev = "asleep"
    /\ dev' = "await_soh"
    /\ port' = TRUE
    /\ UNCHANGED <<dev_test, run, lines, handle, to_device, wire, received>>
    /\ UNCHANGED <<call_vars, buffer_vars, monitor_vars, start_vars, fault_vars>>

\* After the wake handshake the run goes on.
DeviceHandshake ==
    /\ dev = "await_soh" /\ to_device # <<>>
    /\ to_device' = Tail(to_device)
    /\ dev' = IF Head(to_device) = SOH THEN "running" ELSE dev
    /\ UNCHANGED <<dev_test, run, lines, handle, port, wire, received>>
    /\ UNCHANGED <<call_vars, buffer_vars, monitor_vars, start_vars, fault_vars>>

\* The run ends: the test_end line, then the TEST_STOPPED marker.
DeviceStop ==
    /\ dev = "running"
    /\ dev' = "idle"
    /\ UNCHANGED <<dev_test, run, lines, to_device>>
    /\ Emit(Line("test_end", Verdicts[run]) \o Line("stopped", None))
    /\ UNCHANGED <<call_vars, buffer_vars, monitor_vars, start_vars, fault_vars>>

\* The device crashes and boots, or only USB drops; the port is back at once or later.
DeviceDrop(next, back) ==
    /\ port /\ drops < MaxDrops
    /\ drops' = drops + 1
    /\ dev' = next
    /\ PortLost
    /\ port' = back
    /\ gone' = IF back THEN gone ELSE 0
    /\ UNCHANGED <<flushed, refused, calls, again, dev_test, run, lines>>
    /\ UNCHANGED <<call_vars, buffer_vars, monitor_vars, start_vars, received>>

PortBack ==
    /\ ~port /\ dev # "asleep"
    /\ port' = TRUE
    /\ UNCHANGED <<device_vars, handle, to_device, wire, received>>
    /\ UNCHANGED <<call_vars, buffer_vars, monitor_vars, start_vars, fault_vars>>

\* The head of a loop lasts no time and reads nothing of the device, so no step of
\* the device needs to be interleaved with it.
Device ==
    /\ call # "none" => at # "top"
    /\ \/ DeviceIdle
       \/ DeviceText
       \/ \E d \in Durations : DeviceSleepMarker(d)
       \/ DeviceAcked
       \/ DeviceSleep
       \/ DeviceWake
       \/ DeviceHandshake
       \/ DeviceStop
       \/ \E next \in {"idle", dev}, back \in BOOLEAN : DeviceDrop(next, back)
       \/ PortBack

-----------------------------------------------------------------------------
(* The transport.                                                          *)

\* ser.write(c): an error in every other case
Writable == handle = "open"

Write(c) == to_device' = IF Writable THEN Append(to_device, c) ELSE to_device

\* ser.flush() must end: it raises when the device is gone, and all is out when the
\* device has read it.  It may end before, when the device's USB has taken it.
Drained == handle # "open" \/ to_device = <<>>

\* connect() returns at once when it holds a handle, a dead one too.
HandleAfterConnect == IF handle = "closed" THEN "open" ELSE handle

-----------------------------------------------------------------------------
(* _read_line.                                                             *)

\* The first line of a buffer that holds a newline, and what follows it.
FirstEnd(buf) == CHOOSE i \in 1..Len(buf) : buf[i] = NL /\ \A j \in 1..i - 1 : buf[j] # NL
HasLine(buf) == \E i \in 1..Len(buf) : buf[i] = NL
FirstLine(buf) == SubSeq(buf, 1, FirstEnd(buf) - 1)
\* Mutation: the chunk's bytes behind the line are dropped.
AfterLine_Dropped(buf) == <<>>

AfterLine(buf) == SubSeq(buf, FirstEnd(buf) + 1, Len(buf))

-----------------------------------------------------------------------------
(* What a call does with a line; at = "top" is the head of its loop.       *)

Return ==
    /\ call' = "none"
    /\ at' = "top"
    /\ clock' = 0
    /\ due' = 0
    /\ UNCHANGED test_id

LoopAgain == at' = "top" /\ due' = 0 /\ UNCHANGED <<call, test_id, clock>>

\* discover returns at the catalog line.
DiscoverLine(words) ==
    /\ call = "discover"
    /\ IF Len(words) = 1 /\ words[1].kind = "catalog" THEN Return ELSE LoopAgain
    /\ UNCHANGED <<monitor_vars, handle, to_device, start_vars>>

\* Mutation: any marker of the test is taken for its start.
StartMarker_Any == {"started", "sleep", "stopped"}

StartMarker == {"started"}

\* start_test returns at the TEST_STARTED marker of its test.
StartLine(words) ==
    /\ call = "start"
    /\ IF Len(words) = 1 /\ words[1].kind \in StartMarker /\ words[1].test = test_id
       THEN Return /\ started' = words[1].run /\ misled' = (leftover > 0)
       ELSE LoopAgain /\ UNCHANGED start_vars
    /\ UNCHANGED <<monitor_vars, handle, to_device>>

IsMarker(words, kind) == Len(words) = 1 /\ words[1].kind = kind

\* A line that begins with a SLEEP marker is one, with a duration that does not parse
\* when the next line was joined to it.
IsSleep(words) == words[1].kind = "sleep"

\* monitor: the test id of a test_end line is not compared.
MonitorLine(words) ==
    LET word == words[1] IN
    /\ call = "monitor"
    /\ serial_log' = Append(serial_log, words)
    /\ UNCHANGED <<sleeping, sleep_confirmed, elapsed, attempt, handle, start_vars>>
    /\ \/ /\ IsMarker(words, "test_end")
          /\ outcome' = [outcome EXCEPT !.status = word.arg]
          /\ LoopAgain
          /\ UNCHANGED <<sleep_start_time, sleep_expected_s, to_device>>
       \/ /\ IsSleep(words)
          /\ sleep_expected_s' = IF Len(words) = 1 THEN word.arg ELSE None
          /\ sleep_start_time' = clock
          /\ Write(ACK)
          /\ at' = "acking"
          /\ due' = 0
          /\ UNCHANGED <<call, test_id, clock, outcome>>
       \/ /\ IsMarker(words, "stopped") /\ word.test = test_id
          /\ outcome' = [outcome EXCEPT !.stopped = word.run]
          /\ Return
          /\ UNCHANGED <<sleep_start_time, sleep_expected_s, to_device>>
       \/ /\ ~IsMarker(words, "test_end") /\ ~IsSleep(words)
          /\ ~(IsMarker(words, "stopped") /\ word.test = test_id)
          /\ LoopAgain
          /\ UNCHANGED <<outcome, sleep_start_time, sleep_expected_s, to_device>>

OnLine(words) == DiscoverLine(words) \/ StartLine(words) \/ MonitorLine(words)

\* write(ACK) ended or raised: disconnect, which drops what the port had buffered.
AckWritten ==
    /\ at = "acking"
    /\ sleeping' = TRUE
    /\ handle' = "closed"
    /\ wire' = <<>>
    /\ LoopAgain
    /\ UNCHANGED <<sleep_confirmed, sleep_start_time, sleep_expected_s, elapsed, attempt, outcome,
                   serial_log, buffer_vars, port, to_device, device_vars, start_vars, received, fault_vars>>

-----------------------------------------------------------------------------
(* _read_line, at = "reading".                                             *)

StartReading ==
    /\ at' = "reading"
    /\ due' = clock + ReadTimeout
    /\ UNCHANGED <<call, test_id, clock>>

\* The loop goes on until the deadline.
KeepReading ==
    /\ IF clock < due THEN UNCHANGED call_vars ELSE LoopAgain
    /\ UNCHANGED <<monitor_vars, handle, to_device, start_vars>>

\* The first line leaves the buffer.
TakeLine(buf) ==
    /\ line_buf' = AfterLine(buf)
    /\ leftover' = IF leftover > FirstEnd(buf) THEN leftover - FirstEnd(buf) ELSE 0

\* read() returned the first n tokens; an empty line is passed over.
ReadData(n) ==
    LET buf == line_buf \o SubSeq(wire, 1, n) IN
    /\ at = "reading" /\ handle = "open"
    /\ IF HasLine(buf)
       THEN /\ TakeLine(buf)
            /\ IF FirstLine(buf) = <<>> THEN KeepReading ELSE OnLine(FirstLine(buf))
       ELSE /\ line_buf' = buf
            /\ UNCHANGED leftover
            /\ KeepReading
    /\ wire' = SubSeq(wire, n + 1, Len(wire))
    /\ UNCHANGED <<port, device_vars, received, fault_vars>>

\* read() returned nothing or raised, and a line is left of an earlier chunk; an
\* empty line ends this _read_line.
ReadBuffered ==
    /\ at = "reading" /\ (handle = "open" => wire = <<>>)
    /\ HasLine(line_buf)
    /\ TakeLine(line_buf)
    /\ IF FirstLine(line_buf) = <<>>
       THEN LoopAgain /\ UNCHANGED <<monitor_vars, handle, to_device, start_vars>>
       ELSE OnLine(FirstLine(line_buf))
    /\ UNCHANGED <<port, wire, device_vars, received, fault_vars>>

\* Mutation: read is called without a timeout.
Late_NoTimeout == clock >= due /\ handle # "open"

Late == clock >= due

\* The last read() returned nothing, or raised, and no line is left.
ReadTimesOut ==
    /\ at = "reading" /\ Late /\ ~HasLine(line_buf)
    /\ LoopAgain
    /\ UNCHANGED <<buffer_vars, monitor_vars, link_vars, device_vars, start_vars, received, fault_vars>>

-----------------------------------------------------------------------------
(* The loops of the calls, at = "top".                                     *)

Environment == <<buffer_vars, link_vars, device_vars, start_vars, received, fault_vars>>

\* write() of the command returned, or raised out of the call.
CommandWritten ==
    /\ at = "commanding"
    /\ IF Writable THEN LoopAgain ELSE Return
    /\ UNCHANGED <<monitor_vars, Environment>>

\* discover and start_test raise TimeoutError when their time is up.
CallTop ==
    /\ call \in {"discover", "start"} /\ at = "top"
    /\ IF clock < CallTimeout THEN StartReading ELSE Return
    /\ UNCHANGED <<monitor_vars, Environment>>

Fail(status, warning) ==
    /\ outcome' = [outcome EXCEPT !.status = status, !.warnings = @ \cup {warning}]
    /\ Return

MonitorTimesOut ==
    /\ call = "monitor" /\ at = "top" /\ clock >= MonitorTimeout
    /\ Fail("timeout", "incomplete")
    /\ UNCHANGED <<sleeping, sleep_confirmed, sleep_start_time, sleep_expected_s, elapsed,
                   attempt, serial_log, Environment>>

MonitorReads ==
    /\ call = "monitor" /\ at = "top" /\ clock < MonitorTimeout /\ ~sleeping
    /\ StartReading
    /\ UNCHANGED <<monitor_vars, Environment>>

\* Mutation: only every other poll is made.
PollDelay_Double == 2 * PollInterval

PollDelay == PollInterval

\* Mutation: the deadline is not looked at while the device sleeps.
MayPoll_NoDeadline == sleeping

MayPoll == clock < MonitorTimeout /\ sleeping

\* The elapsed time is taken before time.sleep and used after it.
MonitorPolls ==
    /\ call = "monitor" /\ at = "top" /\ MayPoll
    /\ elapsed' = clock - sleep_start_time
    /\ IF sleep_expected_s # None /\ elapsed' > sleep_expected_s + SleepGrace
       THEN Fail("timeout", "no_wake")
       ELSE /\ at' = "polling"
            /\ due' = clock + PollDelay
            /\ UNCHANGED <<call, test_id, clock, outcome>>
    /\ UNCHANGED <<sleeping, sleep_confirmed, sleep_start_time, sleep_expected_s,
                   attempt, serial_log, Environment>>

\* _check_sleep_state without a detector
CheckSleepState == IF port THEN "active" ELSE "sleeping"

\* Phase 1: the device is to enter sleep.
PolledBeforeSleep ==
    /\ at = "polling" /\ clock = due /\ ~sleep_confirmed
    /\ IF CheckSleepState = "sleeping"
       THEN sleep_confirmed' = TRUE /\ LoopAgain /\ UNCHANGED outcome
       ELSE /\ UNCHANGED sleep_confirmed
            /\ IF elapsed > EnterLimit THEN Fail("error", "no_sleep")
                                       ELSE LoopAgain /\ UNCHANGED outcome
    /\ UNCHANGED <<sleeping, sleep_start_time, sleep_expected_s, elapsed,
                   attempt, serial_log, Environment>>

\* Phase 2: the device sleeps.
PolledAsleep ==
    /\ at = "polling" /\ clock = due /\ sleep_confirmed /\ CheckSleepState = "sleeping"
    /\ LoopAgain
    /\ UNCHANGED <<monitor_vars, Environment>>

WakeWarnings(actual) ==
    IF sleep_expected_s = None THEN {}
    ELSE (IF 10 * actual < 8 * sleep_expected_s THEN {"premature"} ELSE {}) \cup
         (IF 10 * actual > 13 * sleep_expected_s THEN {"late"} ELSE {})

\* An attempt of _reconnect_after_wake begins with connect().
Attempt ==
    /\ at' = "connecting"
    /\ due' = clock + ConnectTime
    /\ UNCHANGED <<call, test_id, clock>>

\* Phase 3: the device is back; _reconnect_after_wake begins.
PolledAwake ==
    LET actual == clock - sleep_start_time IN
    /\ at = "polling" /\ clock = due /\ sleep_confirmed /\ CheckSleepState # "sleeping"
    /\ outcome' = [outcome EXCEPT !.sleep_actual_s = actual,
                                  !.warnings = @ \cup WakeWarnings(actual)]
    /\ handle' = "closed"
    /\ line_buf' = <<>> /\ leftover' = 0
    /\ attempt' = 1 /\ refused' = 0
    /\ Attempt
    /\ UNCHANGED <<sleeping, sleep_confirmed, sleep_start_time, sleep_expected_s, elapsed,
                   serial_log, port, to_device, wire, device_vars, start_vars, received,
                   gone, flushed, bound_vars>>

-----------------------------------------------------------------------------
(* _reconnect_after_wake.                                                  *)

Unmonitored == <<sleep_start_time, sleep_expected_s, elapsed, serial_log>>

\* An attempt failed: time.sleep(1.0).
Retry ==
    /\ at' = "retrying"
    /\ due' = clock + RetryWait
    /\ UNCHANGED <<call, test_id, clock>>

\* connect() raises: the name is not resolved, or the port is not there, in use or
\* not permitted.
ConnectFails ==
    /\ at = "connecting" /\ handle = "closed"
    /\ refused' = refused + 1
    /\ Retry
    /\ UNCHANGED <<monitor_vars, buffer_vars, link_vars, device_vars, start_vars, received,
                   gone, flushed, bound_vars>>

\* connect() returns and SOH is written.  (When the device goes away between the two,
\* or before them, the write fails as it does when it goes away after them.)
Connect ==
    /\ at = "connecting" /\ (handle = "closed" => port)
    /\ handle' = HandleAfterConnect
    /\ to_device' = IF handle' = "open" THEN Append(to_device, SOH) ELSE to_device
    /\ received' = FlattenSeq(serial_log)
    /\ at' = "greeting"
    /\ due' = 0
    /\ UNCHANGED <<call, test_id, clock, buffer_vars, monitor_vars, port, wire, device_vars,
                   start_vars, fault_vars>>

\* write(SOH) of an attempt returned or raised.  The handle is not closed before the
\* next attempt.
SohWritten ==
    /\ at = "greeting"
    /\ IF Writable
       THEN /\ sleeping' = FALSE
            /\ sleep_confirmed' = FALSE
            /\ gone' = 0
            /\ LoopAgain
       ELSE Retry /\ UNCHANGED <<sleeping, sleep_confirmed, gone>>
    /\ UNCHANGED <<Unmonitored, attempt, outcome, buffer_vars, link_vars, device_vars,
                   start_vars, received, flushed, refused, bound_vars>>

\* Mutations: one attempt too many, one too few.
AttemptsLeft_OneMore == attempt <= MaxAttempts
AttemptsLeft_OneLess == attempt + 1 < MaxAttempts

AttemptsLeft == attempt < MaxAttempts

NextAttempt ==
    /\ at = "retrying" /\ clock = due /\ AttemptsLeft
    /\ attempt' = attempt + 1
    /\ Attempt
    /\ UNCHANGED <<Unmonitored, sleeping, sleep_confirmed, outcome, Environment>>

ReconnectFails ==
    /\ at = "retrying" /\ clock = due /\ ~AttemptsLeft
    /\ Fail("error", "no_reconnect")
    /\ UNCHANGED <<Unmonitored, attempt, sleeping, sleep_confirmed, Environment>>

-----------------------------------------------------------------------------
(* The caller of the session, between two calls.                           *)

Begin(name, place, t) ==
    /\ call = "none"
    /\ call' = name
    /\ at' = place
    /\ test_id' = t
    /\ UNCHANGED <<clock, due>>

\* The locals of a monitor that has not begun; the outcome of the last one is used.
NoMonitor ==
    /\ sleeping' = FALSE
    /\ sleep_confirmed' = FALSE
    /\ sleep_start_time' = 0
    /\ sleep_expected_s' = None
    /\ elapsed' = 0
    /\ attempt' = 0
    /\ outcome' = NoOutcome
    /\ serial_log' = <<>>
    /\ gone' = 0 /\ flushed' = 0 /\ refused' = 0

\* The command is written first; without a live handle that raises at once, and
\* nothing changes.
Command(c) ==
    /\ Writable
    /\ Write(c)
    /\ calls < MaxCalls
    /\ calls' = calls + 1
    /\ started' = None /\ misled' = FALSE
    /\ again' = FALSE
    /\ NoMonitor
    /\ received' = <<>>
    /\ UNCHANGED <<buffer_vars, handle, port, wire, device_vars, drops>>

Discover == Begin("discover", "commanding", None) /\ Command(SOH)

StartTest(t) == Begin("start", "commanding", t) /\ Command(STX(t))

\* Called for the test that start_test saw start, and again if that timed out.
Monitor ==
    /\ started # None
    /\ \/ outcome = NoOutcome /\ UNCHANGED <<again, calls>>
       \/ /\ "incomplete" \in outcome.warnings /\ calls < MaxCalls
          /\ again' = TRUE
          /\ calls' = calls + 1
    /\ Begin("monitor", "top", test_id)
    /\ NoMonitor
    /\ received' = Words(line_buf \o wire)
    /\ UNCHANGED <<buffer_vars, link_vars, device_vars, start_vars, drops>>

\* The caller reopens the port itself, and makes a new session for it or keeps the
\* one it has, with what is left in its buffer.
Reopen ==
    /\ call = "none" /\ handle # "open" /\ port
    /\ handle' = "open"
    /\ started' = None /\ misled' = FALSE
    /\ NoMonitor
    /\ line_buf' \in {<<>>, line_buf} /\ leftover' = Len(line_buf')
    /\ received' = <<>>
    /\ UNCHANGED <<call_vars, port, to_device, wire, device_vars, bound_vars>>

Caller ==
    \/ Discover
    \/ \E t \in Tests : StartTest(t)
    \/ Monitor
    \/ Reopen

\* Time passes while the host waits, and only then.  The read() under way at the
\* deadline goes on, unless it raises.
Waiting ==
    \/ at \in {"reading", "polling", "retrying"} /\ clock < due
    \/ at = "reading" /\ handle = "open" /\ clock < due - 1 + ReadTime
    \/ at = "connecting" /\ handle = "closed" /\ clock < due

Flushing == call = "monitor" /\ at \in {"acking", "greeting"} /\ handle = "open"

Tick ==
    /\ \/ Waiting /\ UNCHANGED flushed
       \/ Flushing /\ flushed < MaxFlush /\ flushed' = flushed + 1
    /\ clock' = clock + 1
    /\ gone' = IF port \/ ~sleeping THEN gone ELSE gone + 1
    /\ UNCHANGED <<call, at, test_id, due, buffer_vars, monitor_vars, link_vars, device_vars,
                   start_vars, received, refused, bound_vars>>

\* flush() ends.
Flushed == CommandWritten \/ AckWritten \/ SohWritten

Host ==
    \/ \E n \in 1..Len(wire) : ReadData(n)
    \/ ReadBuffered
    \/ ReadTimesOut
    \/ CallTop
    \/ MonitorTimesOut
    \/ MonitorReads
    \/ MonitorPolls
    \/ PolledBeforeSleep
    \/ PolledAsleep
    \/ PolledAwake
    \/ ConnectFails
    \/ Connect
    \/ Drained /\ Flushed
    \/ NextAttempt
    \/ ReconnectFails

Next == Device \/ Host \/ Flushed \/ Caller \/ Tick

\* Clocks run on, and the host's thread is scheduled.  Nothing is assumed of the
\* device, which need not take a command either, nor of the caller.
Spec == Init /\ [][Next]_vars /\ WF_vars(Host) /\ SF_vars(Tick)

-----------------------------------------------------------------------------
(* Properties.                                                             *)

Token == {NL} \cup [kind : Kinds, test : Tests \cup {None}, run : 0..MaxCalls,
                    arg : Durations \cup Range(Verdicts) \cup {None}]

TypeOK ==
    /\ call \in {"none", "discover", "start", "monitor"}
    /\ at \in {"top", "commanding", "reading", "acking", "polling", "connecting", "greeting",
              "retrying"}
    /\ test_id \in Tests \cup {None}
    /\ clock \in Nat /\ due \in Nat
    /\ line_buf \in Seq(Token) /\ wire \in Seq(Token)
    /\ sleeping \in BOOLEAN /\ sleep_confirmed \in BOOLEAN
    /\ sleep_start_time \in Nat /\ elapsed \in Nat
    /\ sleep_expected_s \in Durations \cup {None}
    /\ attempt \in 0..MaxAttempts
    /\ outcome.status \in {"ok", "error", "timeout"} \cup Range(Verdicts)
    /\ serial_log \in Seq(Seq(Token))
    /\ handle \in {"open", "closed", "dead"}
    /\ port \in BOOLEAN
    /\ to_device \in Seq(Commands)
    /\ dev \in {"idle", "running", "await_ack", "entering", "asleep", "await_soh"}
    /\ started \in 1..MaxCalls \cup {None}
    /\ misled \in BOOLEAN /\ leftover \in 0..Len(line_buf)
    /\ flushed \in 0..MaxFlush /\ refused \in Nat

\* While monitor is connected, its log and what it has still to read are exactly
\* the lines the device sent over this connection, each one whole: _read_line
\* loses, joins, splits and reorders nothing, wherever the chunks are cut and
\* whatever half line an earlier call left in the buffer.  The exception is a
\* start_test that was misled by a marker left over from an earlier connection.
LogFaithful ==
    call = "monitor" /\ ~sleeping /\ handle = "open" /\ ~misled =>
        /\ \A i \in 1..Len(serial_log) : Len(serial_log[i]) = 1
        /\ FlattenSeq(serial_log) \o Words(line_buf \o wire) = received

\* A monitor that returns at TEST_STOPPED has watched the run that start_test saw
\* start, and returns the status which the device reported for that run, through
\* sleeps, crashes, calls that timed out and commands left over from them.  Only a
\* monitor that is called again, after one that had read the test_end line, returns
\* "ok" without having seen it.  Of a run that start_test only believes to have seen
\* start (misled: _line_buf kept the marker over a reopened port) nothing is said.
VerdictOfThisRun ==
    outcome.stopped # None /\ started # None /\ ~misled =>
        /\ outcome.stopped = started
        /\ \/ outcome.status = Verdicts[started]
           \/ /\ again /\ outcome.status = "ok"
              /\ \A i \in DOMAIN serial_log : ~IsMarker(serial_log[i], "test_end")

\* The device is accused of not entering sleep only when it did not, or not for
\* longer than the poll interval.
NoSleepMissed == "no_sleep" \in outcome.warnings => gone <= PollInterval

\* Reconnecting fails only when every attempt was made and its connect() raised, or
\* when the device went away from an attempt that had opened the port.
ReconnectsIfPortOpens ==
    "no_reconnect" \in outcome.warnings =>
        (refused = MaxAttempts /\ handle = "closed") \/ handle = "dead"

\* monitor overruns its timeout by what the read, or the poll and the reconnect attempts,
\* begun before it may last, and by the time it spends in flush(), for which the code
\* has no timeout; by nothing else.
OverrunBounded ==
    call = "monitor" =>
        \/ clock <= MonitorTimeout - 1 + ReadTimeout - 1 + ReadTime + flushed
        \/ clock <= MonitorTimeout - 1 + PollInterval + MaxAttempts * (ConnectTime + RetryWait) + flushed

\* Every call returns, whatever the device does, unless it waits for ever in the
\* flush() of a command that a device which is there does not take.
CallsReturn ==
    \/ []<>(call = "none")
    \/ <>[](at \in {"commanding", "acking", "greeting"} /\ handle = "open" /\ to_device # <<>>)

\* "Measured sleep duration (port gone time)" (TestOutcome): the duration is the
\* time for which the port was gone, within a poll interval at either end.
SleepActualIsGoneTime ==
    call = "monitor" /\ at = "connecting" => outcome.sleep_actual_s <= gone + 2 * PollInterval

=============================================================================
