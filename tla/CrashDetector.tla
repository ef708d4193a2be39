---------------------------- MODULE CrashDetector ----------------------------
(***************************************************************************)
(* receivers/crash_detector.py: CrashDetector.  A message is reduced to    *)
(* what the receivers look for in it; its field `crash` is the first crash *)
(* pattern that is found in it, or None.  Instead of the monotonic clock   *)
(* and the time of the last feed, the model keeps their difference.        *)
(***************************************************************************)
EXTENDS Integers, Sequences

CONSTANTS
    Messages,
    SilentTimeout,      \* silent_timeout
    LineLimits,         \* the values of crash_line_limit
    None

ASSUME SilentTimeoutAssumption == SilentTimeout \in Nat \ {0}
ASSUME LineLimitsAssumption == LineLimits \subseteq Int
ASSUME MessagesAssumption ==
    /\ \A m \in Messages : DOMAIN m = {"crash", "sleep", "wake", "mem"}
    /\ None \notin 0..SilentTimeout

VARIABLES
    crash_line_limit,   \* _crash_line_limit
    silent_for,         \* now - _last_feed_time, or None before the first feed
    crash_detected,     \* _crash_detected
    crash_lines,        \* _crash_lines
    crash_event,        \* _crash_event: reason, pattern and lines
    \* History since the last reset.
    silence,            \* time since the last message of the device, or None
    reports             \* calls of on_crash

detector_vars == <<silent_for, crash_detected, crash_lines, crash_event, reports>>
crash_vars == <<crash_line_limit, detector_vars, silence>>

NoEvent == [reason |-> "none", pattern |-> None, lines |-> <<>>]

CrashInit ==
    /\ crash_line_limit \in LineLimits
    /\ silent_for = None
    /\ crash_detected = FALSE
    /\ crash_lines = <<>>
    /\ crash_event = NoEvent
    /\ silence = None
    /\ reports = 0

\* triggered
Triggered == crash_event # NoEvent

\* The event is set before on_crash is called, which may raise.
Report(event) ==
    /\ crash_event' = event
    /\ reports' = reports + 1

\* Mutation: the pattern is looked for in the last line of the report.
Finalize_LastLine(lines) ==
    Report([reason |-> "crash", pattern |-> lines[Len(lines)].crash, lines |-> lines])

\* _finalize_crash, with the lines of feed's call
Finalize(lines) ==
    Report([reason |-> "crash", pattern |-> lines[1].crash, lines |-> lines])

\* The lines that feed(m) leaves in the buffer, and whether they end the crash.
LinesWith(m) == IF crash_detected \/ m.crash # None THEN Append(crash_lines, m) ELSE crash_lines

\* Mutation: one line too many.
Finalizes_OffByOne(m) ==
    /\ ~Triggered
    /\ crash_detected \/ m.crash # None
    /\ Len(LinesWith(m)) > crash_line_limit

Finalizes(m) ==
    /\ ~Triggered
    /\ crash_detected \/ m.crash # None
    /\ Len(LinesWith(m)) >= crash_line_limit

\* Mutation: the lines of a crash do not count as a sign of life.
FeedTime_NotInCrash == IF crash_detected THEN silent_for ELSE 0

\* _last_feed_time = now
FeedTime == 0

\* feed(message)
DetectorFeed(m) ==
    IF Triggered
    THEN UNCHANGED detector_vars
    ELSE /\ silent_for' = FeedTime
         /\ crash_detected' = (crash_detected \/ m.crash # None)
         /\ crash_lines' = LinesWith(m)
         /\ IF Finalizes(m) THEN Finalize(LinesWith(m)) ELSE UNCHANGED <<crash_event, reports>>

\* Mutation: a crash that is being buffered hides the silence after it.
Silent_NotInCrash == silent_for # None /\ silent_for >= SilentTimeout /\ ~crash_detected

Silent == silent_for # None /\ silent_for >= SilentTimeout

\* Mutation: a hang is reported whatever was reported before.
MayReport_Again == TRUE

MayReport == ~Triggered

\* check_timeout()
CheckTimeout ==
    /\ MayReport /\ Silent
    /\ Report([reason |-> "hang", pattern |-> None, lines |-> <<>>])
    /\ UNCHANGED <<crash_line_limit, silent_for, crash_detected, crash_lines, silence>>

\* reset()
DetectorReset ==
    /\ silent_for' = None
    /\ crash_detected' = FALSE
    /\ crash_lines' = <<>>
    /\ crash_event' = NoEvent
    /\ reports' = 0
    /\ silence' = None
    /\ UNCHANGED crash_line_limit

\* Times past the timeout need not be told apart.
Longer(time) == IF time = None \/ time = SilentTimeout THEN time ELSE time + 1

CrashTick ==
    /\ silent_for' = Longer(silent_for)
    /\ silence' = Longer(silence)
    /\ UNCHANGED <<crash_line_limit, crash_detected, crash_lines, crash_event, reports>>

-----------------------------------------------------------------------------
CrashTypeOK ==
    /\ crash_line_limit \in LineLimits
    /\ silent_for \in 0..SilentTimeout \cup {None}
    /\ crash_detected \in BOOLEAN
    /\ crash_lines \in Seq(Messages)
    /\ crash_event.reason \in {"none", "crash", "hang"}
    /\ crash_event.lines \in Seq(Messages)
    /\ crash_event.pattern # None <=> crash_event.reason = "crash"
    /\ silence \in 0..SilentTimeout \cup {None}
    /\ reports \in Nat

\* on_crash is called once for the event that is set, and never without one.
ReportedOnce == reports = IF Triggered THEN 1 ELSE 0

\* A hang is reported only of a device that has said something and then nothing
\* for the whole timeout, whatever state the detector's crash buffer is in.
HangIsSilence ==
    [][crash_event.reason = "none" /\ crash_event'.reason = "hang"
          => silence # None /\ silence >= SilentTimeout]_crash_vars

\* Every silence of the timeout's length is reported, or broken by a message.
HangsReported ==
    silence # None /\ silence = SilentTimeout ~> Triggered \/ silence # SilentTimeout

=============================================================================
