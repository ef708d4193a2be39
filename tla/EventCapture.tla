---------------------------- MODULE EventCapture ----------------------------
(***************************************************************************)
(* receivers/event_capture.py: EventCapture behind a tracer on a multicore *)
(* device.  A core reads the wrapping microsecond counter when it builds   *)
(* an event and the line reaches the host some time later, so the lines of *)
(* two cores may arrive slightly out of order.                             *)
(*                                                                         *)
(* The counter is a pair: the period it is in, which the device does not   *)
(* send, and its value.  HalfPeriod is 2^31 in the code.                   *)
(***************************************************************************)
EXTENDS Integers, Sequences, FiniteSetsExt

CONSTANTS
    HalfPeriod,     \* _WRAP_THRESHOLD_US
    Names,          \* the names of scopes
    Cores,
    MaxSkew,        \* longest time from building an event to its arrival
    MaxGap,         \* longest time between two captured events, in device time
    MaxPeriod,      \* bound: counter wraps
    MaxEvents,      \* bound: events captured since the last reset
    None

\* _TIMESTAMP_WRAP_US
Wrap == 2 * HalfPeriod

ASSUME HalfPeriodAssumption == HalfPeriod \in Nat \ {0}
\* The code needs events more often than every half period, and a skew below it.
ASSUME MaxSkewAssumption == MaxSkew \in Nat /\ MaxSkew < HalfPeriod
ASSUME MaxGapAssumption == MaxGap \in Nat /\ MaxGap < HalfPeriod

Raw == 0..(Wrap - 1)
Built == [name : Names, ph : {"B", "E", "C"}, period : Nat, raw : Raw, age : Nat]
Stamp == [period : Nat, raw : Raw, age : Nat]
Event == [name : Names, action : {"STARTED", "STOPPED"}, ts : Nat, period : Nat, raw : Raw]
Span == [name : Names, start : Event, stop : Event]

ASSUME NoneAssumption == None \notin Raw /\ None \notin Stamp /\ None \notin Built

VARIABLES
    \* The device.
    period, counter,    \* the microsecond counter
    built,              \* per core: the event it has built and not yet sent, or None
    \* The receiver.
    last_raw_ts_us,     \* _last_raw_ts_us
    wrap_count,         \* _wrap_count
    events,             \* _events; device_timestamp_s is the adjusted `ts`
    spans,              \* _spans
    pending,            \* _pending
    \* History since the last reset.
    newest,             \* the stamp and age of the event captured last, or None
    base,               \* the period of the event captured first
    straddled           \* an event was captured after one of a later period

device_vars == <<period, counter, built>>
receiver_vars == <<last_raw_ts_us, wrap_count, events, spans, pending>>
history_vars == <<newest, base, straddled>>
vars == <<device_vars, receiver_vars, history_vars>>

NoPending == [n \in {} |-> None]

Init ==
    /\ period = 0
    /\ counter \in 0..(Wrap - 1)
    /\ built = [c \in Cores |-> None]
    /\ last_raw_ts_us = None
    /\ wrap_count = 0
    /\ events = <<>>
    /\ spans = <<>>
    /\ pending = NoPending
    /\ newest = None
    /\ base = 0
    /\ straddled = FALSE

-----------------------------------------------------------------------------
(* The device.                                                             *)

Older(stamp) == [stamp EXCEPT !.age = @ + 1]

\* A microsecond passes.  Every event in the making arrives within MaxSkew, and
\* the host hears of a scope at least every MaxGap.
Tick ==
    /\ \A c \in Cores : built[c] # None => built[c].age < MaxSkew
    /\ newest # None => newest.age < MaxGap
    /\ IF counter + 1 = Wrap
       THEN period < MaxPeriod /\ period' = period + 1 /\ counter' = 0
       ELSE counter' = counter + 1 /\ UNCHANGED period
    /\ built' = [c \in Cores |-> IF built[c] = None THEN None ELSE Older(built[c])]
    /\ newest' = IF newest = None THEN None ELSE Older(newest)
    /\ UNCHANGED <<receiver_vars, base, straddled>>

\* A core stamps an event: "B" and "E" open and close a scope, "C" is a counter.
Build(c, name, ph) ==
    /\ built[c] = None
    /\ built' = [built EXCEPT ![c] =
            [name |-> name, ph |-> ph, period |-> period, raw |-> counter, age |-> 0]]
    /\ UNCHANGED <<period, counter, receiver_vars, history_vars>>

-----------------------------------------------------------------------------
(* feed(message), called with the line a core sends.                       *)

\* Mutation: every step backwards is a wrap.
WrapSeen_AnyStep(raw) == last_raw_ts_us # None /\ raw < last_raw_ts_us

\* Only a large backwards step counts as a wrap.
WrapSeen(raw) ==
    last_raw_ts_us # None /\ raw - last_raw_ts_us < -HalfPeriod

\* Mutation: the wraps are counted from one.
Captured_OffByOne(e, count) ==
    [name   |-> e.name,
     action |-> IF e.ph = "B" THEN "STARTED" ELSE "STOPPED",
     ts     |-> e.raw + (count - 1) * Wrap,
     period |-> e.period,
     raw    |-> e.raw]

Captured(e, count) ==
    [name   |-> e.name,
     action |-> IF e.ph = "B" THEN "STARTED" ELSE "STOPPED",
     ts     |-> e.raw + count * Wrap,
     period |-> e.period,
     raw    |-> e.raw]

Capture(e) ==
    LET event == Captured(e, wrap_count') IN
    /\ wrap_count' = IF WrapSeen(e.raw) THEN wrap_count + 1 ELSE wrap_count
    /\ last_raw_ts_us' = e.raw
    /\ events' = Append(events, event)
    /\ IF event.action = "STARTED"
       THEN /\ pending' = [n \in DOMAIN pending \cup {e.name} |->
                              IF n = e.name THEN event ELSE pending[n]]
            /\ UNCHANGED spans
       ELSE /\ pending' = [n \in DOMAIN pending \ {e.name} |-> pending[n]]
            /\ spans' = IF e.name \in DOMAIN pending
                        THEN Append(spans, [name |-> e.name, start |-> pending[e.name], stop |-> event])
                        ELSE spans

FeedScope(c) ==
    LET e == built[c] IN
    /\ e # None /\ e.ph \in {"B", "E"}
    /\ Len(events) < MaxEvents
    /\ Capture(e)
    /\ built' = [built EXCEPT ![c] = None]
    /\ newest' = [period |-> e.period, raw |-> e.raw, age |-> e.age]
    /\ base' = IF newest = None THEN e.period ELSE base
    /\ straddled' = (straddled \/ (newest # None /\ e.period < newest.period))
    /\ UNCHANGED <<period, counter>>

\* Every other line is ignored, its timestamp too.
FeedOther(c) ==
    /\ built[c] # None /\ built[c].ph \notin {"B", "E"}
    /\ built' = [built EXCEPT ![c] = None]
    /\ UNCHANGED <<period, counter, receiver_vars, history_vars>>

\* Mutation: the open scopes survive the reset.
Reset_KeepsPending ==
    /\ events' = <<>>
    /\ spans' = <<>>
    /\ last_raw_ts_us' = None
    /\ wrap_count' = 0
    /\ newest' = None
    /\ base' = 0
    /\ straddled' = FALSE
    /\ UNCHANGED <<device_vars, pending>>

\* reset()
Reset ==
    /\ events' = <<>>
    /\ spans' = <<>>
    /\ pending' = NoPending
    /\ last_raw_ts_us' = None
    /\ wrap_count' = 0
    /\ newest' = None
    /\ base' = 0
    /\ straddled' = FALSE
    /\ UNCHANGED device_vars

Next ==
    \/ Tick
    \/ \E c \in Cores, name \in Names, ph \in {"B", "E", "C"} : Build(c, name, ph)
    \/ \E c \in Cores : FeedScope(c)
    \/ \E c \in Cores : FeedOther(c)
    \/ Reset

Spec == Init /\ [][Next]_vars

-----------------------------------------------------------------------------
(* Properties.                                                             *)

TypeOK ==
    /\ period \in Nat
    /\ counter \in Raw
    /\ \A c \in Cores : built[c] # None => built[c] \in Built
    /\ DOMAIN built = Cores
    /\ last_raw_ts_us # None => last_raw_ts_us \in Raw
    /\ wrap_count \in Nat
    /\ events \in Seq(Event)
    /\ spans \in Seq(Span)
    /\ DOMAIN pending \subseteq Names
    /\ \A n \in DOMAIN pending : pending[n] \in Event
    /\ newest # None => newest \in Stamp
    /\ base \in Nat
    /\ straddled \in BOOLEAN

\* The time of an event since the start of the period of the first one.
TrueTime(e) == (e.period - base) * Wrap + e.raw

\* Every event gets its true device time, over any number of counter wraps and
\* with the lines of the cores out of order, as long as no pair of them is out of
\* order across a wrap.
AdjustedTimeTrue ==
    ~straddled => \A i \in 1..Len(events) : events[i].ts = TrueTime(events[i])

\* "Host-side wrap detection restores monotonicity" and "jitter is always a few
\* ms" (the comment on _TIMESTAMP_WRAP_US): two events captured one after the
\* other are as far apart in the log as they were on the device, whatever lines of
\* different cores the jitter put in the wrong order.
JitterStaysSmall ==
    \A i \in 1..(Len(events) - 1) :
        events[i + 1].ts - events[i].ts = TrueTime(events[i + 1]) - TrueTime(events[i])

\* The last event with this name before position i, or 0.
PreviousOf(log, name, i) ==
    LET before == {j \in 1..(i - 1) : log[j].name = name}
    IN  IF before = {} THEN 0 ELSE Max(before)

\* The events that close a span: a STOP closes the START just before it of the same
\* name.
Closing(log) ==
    {i \in 1..Len(log) :
        LET start == PreviousOf(log, log[i].name, i)
        IN  log[i].action = "STOPPED" /\ start # 0 /\ log[start].action = "STARTED"}

\* The k-th number of a set.
Nth(set, k) == CHOOSE i \in set : Cardinality({j \in set : j <= i}) = k

SpanAt(log, i) ==
    [name |-> log[i].name, start |-> log[PreviousOf(log, log[i].name, i)], stop |-> log[i]]

SpansOf(log) ==
    LET closing == Closing(log)
    IN  [k \in 1..Cardinality(closing) |-> SpanAt(log, Nth(closing, k))]

\* The spans are what the log says, each as it was closed; a START is used once, and
\* is pending until its STOP.
SpansMatchLog ==
    /\ spans = SpansOf(events)
    /\ \A n \in Names :
         LET latest == PreviousOf(events, n, Len(events) + 1)
         IN  IF latest # 0 /\ events[latest].action = "STARTED"
             THEN n \in DOMAIN pending /\ pending[n] = events[latest]
             ELSE n \notin DOMAIN pending

=============================================================================
