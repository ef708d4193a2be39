------------------------- MODULE TestSession_proofs -------------------------
(***************************************************************************)
(* Safety of TestSession for every timeout, interval, number of calls,     *)
(* drops and lines.                                                        *)
(***************************************************************************)
EXTENDS TestSession, Flattening_proofs

-----------------------------------------------------------------------------
(* Lines of a buffer.                                                      *)

LEMMA FirstEndIs ==
    ASSUME NEW T, NEW buf \in Seq(T), HasLine(buf)
    PROVE  /\ FirstEnd(buf) \in 1..Len(buf)
           /\ buf[FirstEnd(buf)] = NL
           /\ \A j \in 1..FirstEnd(buf) - 1 : buf[j] # NL
<1> DEFINE I == {i \in 1..Len(buf) : buf[i] = NL}
<1>1. I # {} /\ I \subseteq Nat
  BY DEF HasLine
<1>2. PICK m \in I : \A n \in I : ~(n < m)
  BY <1>1, LeastOf
<1>3. m \in 1..Len(buf) /\ buf[m] = NL
  OBVIOUS
<1>4. \A j \in 1..m - 1 : buf[j] # NL
  BY <1>2, <1>3
<1> QED BY <1>3, <1>4 DEF FirstEnd

LEMMA LineType ==
    ASSUME NEW T, NEW buf \in Seq(T), HasLine(buf)
    PROVE  /\ FirstLine(buf) \in Seq(T)
           /\ Len(FirstLine(buf)) = FirstEnd(buf) - 1
           /\ \A i \in 1..FirstEnd(buf) - 1 : FirstLine(buf)[i] = buf[i]
           /\ AfterLine(buf) \in Seq(T)
           /\ Len(AfterLine(buf)) = Len(buf) - FirstEnd(buf)
           /\ \A i \in 1..Len(buf) - FirstEnd(buf) : AfterLine(buf)[i] = buf[FirstEnd(buf) + i]
<1> DEFINE e == FirstEnd(buf)
<1>1. e \in 1..Len(buf) /\ Len(buf) \in Nat
  BY FirstEndIs
<1> HIDE DEF e
<1>2. /\ SubSeq(buf, 1, e - 1) \in Seq(T)
      /\ Len(SubSeq(buf, 1, e - 1)) = e - 1
      /\ \A i \in 1..e - 1 : SubSeq(buf, 1, e - 1)[i] = buf[i]
  BY <1>1
<1>3. /\ SubSeq(buf, e + 1, Len(buf)) \in Seq(T)
      /\ Len(SubSeq(buf, e + 1, Len(buf))) = Len(buf) - e
      /\ \A i \in 1..Len(buf) - e : SubSeq(buf, e + 1, Len(buf))[i] = buf[e + i]
  BY <1>1
<1> QED BY <1>2, <1>3 DEF e, FirstLine, AfterLine

-----------------------------------------------------------------------------
(* Commands on their way: those that start a run are bounded by the calls. *)

Cost(c) == IF c.command = "STX" THEN 1 ELSE 0

\* g[i] is a bound of the runs begun when i commands of q have been taken.
Counts(q, low, high) ==
    \E g \in [0..Len(q) -> Int] :
        /\ low <= g[0]
        /\ \A i \in 0..Len(q) : g[i] <= high
        /\ \A i \in 1..Len(q) : g[i] >= g[i - 1] + Cost(q[i])

LEMMA CountsLow ==
    ASSUME NEW T, NEW q \in Seq(T), NEW low \in Int, NEW high \in Int, Counts(q, low, high)
    PROVE  low <= high
BY DEF Counts

LEMMA CountsEmpty ==
    ASSUME NEW low \in Int, NEW high \in Int, low <= high
    PROVE  Counts(<<>>, low, high)
<1>1. Len(<<>>) = 0 /\ 1..0 = {} /\ 0..0 = {0}
  OBVIOUS
<1> DEFINE g == [i \in 0..0 |-> low]
<1>2. g \in [0..0 -> Int] /\ g[0] = low
  OBVIOUS
<1> HIDE DEF g
<1> QED BY <1>1, <1>2 DEF Counts

LEMMA CountsTail ==
    ASSUME NEW T, NEW q \in Seq(T), NEW low \in Int, NEW high \in Int,
           Counts(q, low, high), q # <<>>
    PROVE  Counts(Tail(q), low + Cost(Head(q)), high)
<1>1. PICK g \in [0..Len(q) -> Int] :
        /\ low <= g[0]
        /\ \A i \in 0..Len(q) : g[i] <= high
        /\ \A i \in 1..Len(q) : g[i] >= g[i - 1] + Cost(q[i])
  BY DEF Counts
<1>2. /\ Len(q) \in Nat \ {0} /\ Len(Tail(q)) = Len(q) - 1
      /\ \A i \in 1..Len(q) - 1 : Tail(q)[i] = q[i + 1]
      /\ Head(q) = q[1]
  OBVIOUS
<1> DEFINE h == [i \in 0..Len(Tail(q)) |-> g[i + 1]]
<1>3. h \in [0..Len(Tail(q)) -> Int]
  BY <1>2
<1>4. Cost(q[1]) \in Int
  BY DEF Cost
<1>5. low + Cost(Head(q)) <= h[0]
  <2>1. g[1] >= g[0] + Cost(q[1]) /\ g[0] \in Int /\ g[1] \in Int
    BY <1>1, <1>2
  <2>2. h[0] = g[1]
    BY <1>2
  <2> QED BY <1>1, <1>2, <1>4, <2>1, <2>2
<1>6. \A i \in 0..Len(Tail(q)) : h[i] <= high
  BY <1>1, <1>2
<1>7. ASSUME NEW i \in 1..Len(Tail(q)) PROVE h[i] >= h[i - 1] + Cost(Tail(q)[i])
  <2>1. i + 1 \in 1..Len(q) /\ (i + 1) - 1 = i
    BY <1>2
  <2>2. g[i + 1] >= g[i] + Cost(q[i + 1])
    BY <1>1, <2>1
  <2>3. h[i] = g[i + 1] /\ h[i - 1] = g[i] /\ Tail(q)[i] = q[i + 1]
    BY <1>2
  <2> QED BY <2>2, <2>3
<1> HIDE DEF h
<1> QED BY <1>3, <1>5, <1>6, <1>7 DEF Counts

LEMMA CountsAppend ==
    ASSUME NEW T, NEW q \in Seq(T), NEW c \in T, NEW low \in Int, NEW high \in Int,
           NEW k \in Int, Counts(q, low, high), k >= Cost(c)
    PROVE  Counts(Append(q, c), low, high + k)
<1>1. PICK g \in [0..Len(q) -> Int] :
        /\ low <= g[0]
        /\ \A i \in 0..Len(q) : g[i] <= high
        /\ \A i \in 1..Len(q) : g[i] >= g[i - 1] + Cost(q[i])
  BY DEF Counts
<1>2. /\ Len(q) \in Nat /\ Len(Append(q, c)) = Len(q) + 1
      /\ \A i \in 1..Len(q) : Append(q, c)[i] = q[i]
      /\ Append(q, c)[Len(q) + 1] = c
  OBVIOUS
<1>3. Cost(c) \in {0, 1}
  BY DEF Cost
<1> DEFINE h == [i \in 0..Len(q) + 1 |-> IF i = Len(q) + 1 THEN g[Len(q)] + Cost(c) ELSE g[i]]
<1>4. h \in [0..Len(Append(q, c)) -> Int]
  BY <1>2, <1>3
<1>5. low <= h[0]
  BY <1>1, <1>2
<1>6. ASSUME NEW i \in 0..Len(q) + 1 PROVE h[i] <= high + k
  <2>1. CASE i = Len(q) + 1
    <3>1. h[i] = g[Len(q)] + Cost(c)
      BY <2>1
    <3> QED BY <1>1, <1>2, <1>3, <3>1
  <2>2. CASE i # Len(q) + 1
    <3>1. h[i] = g[i] /\ i \in 0..Len(q) /\ g[i] \in Int
      BY <1>2, <2>2
    <3> QED BY <1>1, <1>3, <3>1
  <2> QED BY <2>1, <2>2
<1>7. ASSUME NEW i \in 1..Len(q) + 1 PROVE h[i] >= h[i - 1] + Cost(Append(q, c)[i])
  <2>1. CASE i = Len(q) + 1
    <3>1. h[i] = g[Len(q)] + Cost(c) /\ h[i - 1] = g[Len(q)] /\ Append(q, c)[i] = c
      BY <1>2, <2>1
    <3> QED BY <1>2, <1>3, <3>1
  <2>2. CASE i # Len(q) + 1
    <3>1. i \in 1..Len(q) /\ h[i] = g[i] /\ h[i - 1] = g[i - 1] /\ Append(q, c)[i] = q[i]
      BY <1>2, <2>2
    <3> QED BY <1>1, <3>1
  <2> QED BY <2>1, <2>2
<1> HIDE DEF h
<1> QED BY <1>2, <1>4, <1>5, <1>6, <1>7 DEF Counts

-----------------------------------------------------------------------------
(* The invariants of the states.                                           *)

\* What a word says of its run agrees with the run.
Sane(w) ==
    /\ w.kind = "sleep" => w.arg \in Durations
    /\ w.kind \in {"started", "sleep", "test_end", "stopped"} => w.run \in 1..MaxCalls
    /\ w.kind = "test_end" => w.arg = Verdicts[w.run]

Sound == {w \in Token : Sane(w)}

Outcomes ==
    [status : {"ok", "error", "timeout"} \cup Range(Verdicts),
     warnings : SUBSET {"premature", "late", "incomplete", "no_wake", "no_sleep", "no_reconnect"},
     sleep_actual_s : Nat \cup {None},
     stopped : 1..MaxCalls \cup {None}]

CallTyped ==
    /\ call \in {"none", "discover", "start", "monitor"}
    /\ at \in {"top", "commanding", "reading", "acking", "polling", "connecting", "greeting",
              "retrying"}
    /\ test_id \in Tests \cup {None}
    /\ clock \in Nat /\ due \in Nat

BufferTyped ==
    /\ line_buf \in Seq(Sound)
    /\ leftover \in 0..Len(line_buf)

MonitorTyped ==
    /\ sleeping \in BOOLEAN /\ sleep_confirmed \in BOOLEAN
    /\ sleep_start_time \in Nat /\ elapsed \in Nat
    /\ sleep_expected_s \in Durations \cup {None}
    /\ attempt \in 0..MaxAttempts
    /\ outcome \in Outcomes
    /\ serial_log \in Seq(Seq(Token))

LinkTyped ==
    /\ handle \in {"open", "closed", "dead"}
    /\ port \in BOOLEAN
    /\ to_device \in Seq(Commands) /\ wire \in Seq(Sound)

DevTyped ==
    /\ dev \in {"idle", "running", "await_ack", "entering", "asleep", "await_soh"}
    /\ dev_test \in Tests \cup {None}
    /\ run \in Nat /\ calls \in 0..MaxCalls /\ Counts(to_device, run, calls)
    /\ dev # "idle" => run >= 1

HistoryTyped ==
    /\ started \in 1..MaxCalls \cup {None}
    /\ misled \in BOOLEAN /\ again \in BOOLEAN
    /\ gone \in Nat /\ flushed \in 0..MaxFlush /\ refused \in Nat

Typed == CallTyped /\ BufferTyped /\ MonitorTyped /\ LinkTyped /\ DevTyped /\ HistoryTyped

\* Where the host stands in a call.
CallInv ==
    /\ call = "none" => at = "top" /\ clock = 0
    /\ at \notin {"top", "commanding", "reading", "acking"} => call = "monitor" /\ sleeping
    /\ at = "commanding" => call \in {"discover", "start"}
    /\ at = "acking" => call = "monitor" /\ ~sleeping /\ sleep_start_time <= clock
    /\ call = "monitor" /\ sleeping => sleep_start_time <= clock /\ at # "reading"
    /\ call = "monitor" /\ sleeping /\ at \in {"top", "polling"} => handle = "closed"
    /\ call = "monitor" => /\ started # None
                           /\ outcome.stopped = None
                           /\ outcome.warnings \subseteq {"premature", "late"}
    /\ call \in {"discover", "start"} => started = None /\ outcome = NoOutcome
    /\ outcome.stopped # None => "incomplete" \notin outcome.warnings
    /\ sleep_confirmed => sleeping

LinkInv ==
    /\ handle = "open" => port
    /\ handle # "open" => wire = <<>>
    /\ handle = "dead" => to_device = <<>>

LEMMA NumberTypes ==
    /\ CallTimeout \in Nat \ {0} /\ MonitorTimeout \in Nat \ {0} /\ ReadTimeout \in Nat \ {0}
    /\ PollInterval \in Nat \ {0} /\ RetryWait \in Nat \ {0} /\ MaxAttempts \in Nat \ {0}
    /\ ReadTime \in Nat \ {0} /\ ConnectTime \in Nat \ {0}
    /\ EnterLimit \in Nat /\ SleepGrace \in Nat
    /\ MaxCalls \in Nat /\ MaxFlush \in Nat
BY TimesAssumption, BoundsAssumption

LEMMA VerdictType ==
    ASSUME NEW r \in 1..MaxCalls
    PROVE  Verdicts[r] \in Range(Verdicts)
BY BoundsAssumption DEF Range

LEMMA TokenFacts ==
    ASSUME NEW w \in Token
    PROVE  /\ w.kind \in Kinds \cup {"nl"} /\ w.test \in Tests \cup {None} /\ w.run \in 0..MaxCalls
           /\ w.arg \in Durations \cup Range(Verdicts) \cup {None}
           /\ w.kind = "nl" <=> w = NL
<1>1. CASE w = NL
  BY <1>1, NumberTypes DEF NL, Word, Kinds
<1>2. CASE w # NL
  <2>1. w \in [kind : Kinds, test : Tests \cup {None}, run : 0..MaxCalls,
               arg : Durations \cup Range(Verdicts) \cup {None}]
    BY <1>2 DEF Token
  <2>2. w.kind \in Kinds /\ w.kind # "nl"
    BY <2>1 DEF Kinds
  <2> QED BY <1>2, <2>1, <2>2
<1> QED BY <1>1, <1>2

LEMMA SoundFacts ==
    ASSUME NEW w \in Sound
    PROVE  /\ w \in Token
           /\ w.kind = "sleep" => w.arg \in Durations
           /\ w.kind \in {"started", "sleep", "test_end", "stopped"} => w.run \in 1..MaxCalls
           /\ w.kind = "test_end" => w.arg = Verdicts[w.run]
BY DEF Sound, Sane

LEMMA SoundWords ==
    /\ NL \in Sound /\ Text \in Sound /\ Word("catalog", None, 0, None) \in Sound
    /\ \A t \in Tests \cup {None}, r \in 1..MaxCalls :
          /\ Word("started", t, r, None) \in Sound
          /\ Word("stopped", t, r, None) \in Sound
          /\ \A d \in Durations : Word("sleep", t, r, d) \in Sound
          /\ Word("test_end", t, r, Verdicts[r]) \in Sound
<1>0. MaxCalls \in Nat
  BY NumberTypes
<1>1. NL \in Sound
  BY DEF NL, Word, Sound, Sane, Token
<1>2. Text \in Sound /\ Word("catalog", None, 0, None) \in Sound
  BY <1>0 DEF Text, Word, Sound, Sane, Token, Kinds
<1>3. ASSUME NEW t \in Tests \cup {None}, NEW r \in 1..MaxCalls
      PROVE  /\ Word("started", t, r, None) \in Sound
             /\ Word("stopped", t, r, None) \in Sound
             /\ \A d \in Durations : Word("sleep", t, r, d) \in Sound
             /\ Word("test_end", t, r, Verdicts[r]) \in Sound
  <2>1. r \in 0..MaxCalls /\ Verdicts[r] \in Range(Verdicts)
    BY <1>0, VerdictType
  <2>2. Word("started", t, r, None) \in Sound /\ Word("stopped", t, r, None) \in Sound
    BY <2>1 DEF Word, Sound, Sane, Token, Kinds
  <2>3. ASSUME NEW d \in Durations PROVE Word("sleep", t, r, d) \in Sound
    BY <2>1 DEF Word, Sound, Sane, Token, Kinds
  <2>4. Word("test_end", t, r, Verdicts[r]) \in Sound
    BY <2>1 DEF Word, Sound, Sane, Token, Kinds
  <2> QED BY <2>2, <2>3, <2>4
<1> QED BY <1>1, <1>2, <1>3

LEMMA SoundTokens ==
    ASSUME NEW s \in Seq(Sound)
    PROVE  s \in Seq(Token)
BY DEF Sound

-----------------------------------------------------------------------------
(* Types.                                                                  *)

LEMMA CommandTypes ==
    /\ SOH \in Commands /\ ACK \in Commands /\ \A t \in Tests : STX(t) \in Commands
    /\ Cost(SOH) = 0 /\ Cost(ACK) = 0 /\ \A t \in Tests : Cost(STX(t)) = 1
    /\ \A c \in Commands : c.command = "STX" => c.test \in Tests
    /\ \A c \in Commands : c.command = "STX" \/ c = SOH \/ c = ACK
<1>1. SOH \in Commands /\ ACK \in Commands /\ \A t \in Tests : STX(t) \in Commands
  BY DEF Commands
<1>2. SOH.command = "SOH" /\ ACK.command = "ACK"
  BY DEF SOH, ACK
<1>3. \A t \in Tests : STX(t).command = "STX" /\ STX(t).test = t
  BY DEF STX
<1>4. \A c \in Commands : c = SOH \/ c = ACK \/ \E t \in Tests : c = STX(t)
  BY DEF Commands
<1> QED BY <1>1, <1>2, <1>3, <1>4 DEF Cost

LEMMA InitTyped == Init => Typed /\ CallInv /\ LinkInv
<1> SUFFICES ASSUME Init PROVE Typed /\ CallInv /\ LinkInv
  OBVIOUS
<1>1. Counts(<<>>, 0, 0)
  BY CountsEmpty
<1>2. NoOutcome \in Outcomes /\ NoOutcome.status = "ok" /\ NoOutcome.stopped = None
  BY DEF NoOutcome, Outcomes
<1>3. Counts(to_device, run, calls)
  BY <1>1 DEF Init
<1>4. CallTyped
  BY DEF Init, CallTyped
<1>5. BufferTyped
  <2>1. line_buf \in Seq(Sound) /\ Len(line_buf) = 0 /\ leftover = 0
    BY DEF Init
  <2> QED BY <2>1 DEF BufferTyped
<1>6. MonitorTyped
  <2>1. sleeping \in BOOLEAN /\ sleep_confirmed \in BOOLEAN
    BY DEF Init
  <2>2. /\ sleep_start_time = 0 /\ elapsed = 0 /\ attempt = 0 /\ sleep_expected_s = None
        /\ outcome = NoOutcome /\ serial_log \in Seq(Seq(Token))
    BY DEF Init
  <2> QED BY <1>2, <2>1, <2>2, NumberTypes DEF MonitorTyped
<1>9. LinkTyped
  <2>1. handle = "open" /\ port \in BOOLEAN /\ to_device \in Seq(Commands) /\ wire \in Seq(Sound)
    BY DEF Init
  <2> QED BY <2>1 DEF LinkTyped
<1>10. DevTyped
  <2>1. run = 0 /\ calls = 0 /\ dev_test = None /\ dev = "idle"
    BY DEF Init
  <2> QED BY <1>3, <2>1, NumberTypes DEF DevTyped
<1>11. HistoryTyped
  <2>1. misled \in BOOLEAN /\ again \in BOOLEAN
    BY DEF Init
  <2>2. started = None /\ gone = 0 /\ flushed = 0 /\ refused = 0
    BY DEF Init
  <2> QED BY <2>1, <2>2, NumberTypes DEF HistoryTyped
<1>7. CallInv
  BY <1>2 DEF Init, CallInv
<1>8. LinkInv
  BY DEF Init, LinkInv
<1> QED BY <1>4, <1>5, <1>6, <1>7, <1>8, <1>9, <1>10, <1>11 DEF Typed

LEMMA EmitTyped ==
    ASSUME Typed, NEW tokens \in Seq(Sound), Emit(tokens)
    PROVE  wire' \in Seq(Sound) /\ UNCHANGED <<handle, port>>
<1>1. wire \in Seq(Sound)
  BY DEF Typed, LinkTyped
<1>2. wire \o tokens \in Seq(Sound)
  BY <1>1
<1> QED BY <1>1, <1>2 DEF Emit

\* The variables of the host and of the caller.
HostTypedUnchanged ==
    UNCHANGED <<call_vars, buffer_vars, monitor_vars, start_vars, calls, again, flushed, refused>>

LEMMA DeviceTypes ==
    ASSUME Typed, HostTypedUnchanged,
           handle' \in {"open", "closed", "dead"}, port' \in BOOLEAN,
           to_device' \in Seq(Commands), wire' \in Seq(Sound),
           dev' \in {"idle", "running", "await_ack", "entering", "asleep", "await_soh"},
           run' \in Nat, Counts(to_device', run', calls'), dev_test' \in Tests \cup {None},
           dev' # "idle" => run' >= 1, gone' \in Nat
    PROVE  Typed'
<1>1. CallTyped' /\ MonitorTyped'
  BY DEF Typed, CallTyped, MonitorTyped, HostTypedUnchanged, call_vars, monitor_vars
<1>2. BufferTyped' /\ HistoryTyped'
  BY DEF Typed, BufferTyped, HistoryTyped, HostTypedUnchanged, buffer_vars, start_vars
<1>3. LinkTyped' /\ DevTyped'
  BY DEF Typed, LinkTyped, DevTyped, HostTypedUnchanged
<1> QED BY <1>1, <1>2, <1>3 DEF Typed

LEMMA RunBound ==
    ASSUME Typed
    PROVE  run <= calls /\ run <= MaxCalls /\ (dev # "idle" => run \in 1..MaxCalls)
<1>1. to_device \in Seq(Commands) /\ run \in Int /\ calls \in Int /\ Counts(to_device, run, calls)
  BY NumberTypes DEF Typed, LinkTyped, DevTyped, HistoryTyped
<1>2. run <= calls
  BY <1>1, CountsLow
<1> QED BY <1>1, <1>2, NumberTypes DEF Typed, DevTyped

\* The device has taken a command.
LEMMA Taken ==
    ASSUME Typed, to_device # <<>>
    PROVE  /\ Head(to_device) \in Commands /\ Tail(to_device) \in Seq(Commands)
           /\ Counts(Tail(to_device), run + Cost(Head(to_device)), calls)
           /\ Counts(Tail(to_device), run, calls)
<1>1. to_device \in Seq(Commands) /\ run \in Int /\ calls \in Int /\ Counts(to_device, run, calls)
  BY NumberTypes DEF Typed, LinkTyped, DevTyped, HistoryTyped
<1>2. Head(to_device) \in Commands /\ Tail(to_device) \in Seq(Commands)
  BY <1>1
<1>3. Counts(Tail(to_device), run + Cost(Head(to_device)), calls)
  BY <1>1, CountsTail
<1>4. Cost(Head(to_device)) \in {0, 1}
  BY DEF Cost
<1>5. ASSUME NEW low \in Int, NEW next \in Int, next <= low, NEW high \in Int,
             NEW q, q \in Seq(Commands), Counts(q, low, high)
      PROVE  Counts(q, next, high)
  <2>1. 0 \in 0..Len(q)
    BY <1>5
  <2> QED BY <1>5, <2>1 DEF Counts
<1>6. run + Cost(Head(to_device)) \in Int /\ run <= run + Cost(Head(to_device))
  BY <1>1, <1>4
<1> QED BY <1>1, <1>2, <1>3, <1>5, <1>6

LEMMA RunLine ==
    ASSUME Typed, NEW kind \in {"started", "stopped"}, dev_test' \in Tests \cup {None},
           run' \in 1..MaxCalls
    PROVE  Line(kind, None) \in Seq(Sound) /\ Line(kind, None) = <<Word(kind, dev_test', run', None), NL>>
BY SoundWords DEF Line

LEMMA DeviceTyped ==
    ASSUME Typed, Device
    PROVE  Typed'
<1> USE NumberTypes
<1>0. /\ handle \in {"open", "closed", "dead"} /\ port \in BOOLEAN
      /\ to_device \in Seq(Commands) /\ wire \in Seq(Sound)
      /\ dev \in {"idle", "running", "await_ack", "entering", "asleep", "await_soh"}
      /\ run \in Nat /\ dev_test \in Tests \cup {None} /\ (dev # "idle" => run >= 1)
      /\ gone \in Nat /\ Counts(to_device, run, calls)
      /\ calls \in 0..MaxCalls
  BY DEF Typed, LinkTyped, DevTyped, HistoryTyped
<1>1. CASE DeviceIdle
  <2>0. HostTypedUnchanged /\ gone' = gone /\ calls' = calls
    BY <1>1 DEF DeviceIdle, HostTypedUnchanged, fault_vars, bound_vars
  <2>1. CASE /\ Head(to_device) = SOH
             /\ Emit(<<Word("catalog", None, 0, None), NL>>)
             /\ UNCHANGED device_vars
    <3>1. <<Word("catalog", None, 0, None), NL>> \in Seq(Sound)
      BY SoundWords
    <3>2. wire' \in Seq(Sound) /\ UNCHANGED <<handle, port>>
      BY <2>1, <3>1, EmitTyped
    <3>3. to_device' = Tail(to_device) /\ to_device # <<>> /\ UNCHANGED <<dev, dev_test, run>>
      BY <1>1, <2>1 DEF DeviceIdle, device_vars
    <3> QED BY <1>0, <2>0, <3>2, <3>3, Taken, DeviceTypes
  <2>2. CASE UNCHANGED <<device_vars, handle, port, wire>>
    <3>1. to_device' = Tail(to_device) /\ to_device # <<>> /\ UNCHANGED <<dev, dev_test, run>>
      BY <1>1, <2>2 DEF DeviceIdle, device_vars
    <3> QED BY <1>0, <2>0, <2>2, <3>1, Taken, DeviceTypes
  <2>3. CASE /\ Head(to_device).command = "STX"
             /\ run' = run + 1
             /\ dev' = "running"
             /\ dev_test' = Head(to_device).test
             /\ Emit(Line("started", None))
    <3>1. to_device' = Tail(to_device) /\ to_device # <<>>
      BY <1>1 DEF DeviceIdle
    <3>2. Cost(Head(to_device)) = 1 /\ dev_test' \in Tests
      BY <2>3, <3>1, Taken, CommandTypes DEF Cost
    <3>3. Counts(to_device', run', calls') /\ to_device' \in Seq(Commands)
      BY <2>0, <2>3, <3>1, <3>2, Taken
    <3>4. run' <= calls'
      BY <1>0, <2>0, <2>3, <3>3, CountsLow
    <3>5. run' \in 1..MaxCalls
      BY <1>0, <2>0, <2>3, <3>4
    <3>6. Line("started", None) \in Seq(Sound)
      BY <3>2, <3>5, RunLine
    <3>7. wire' \in Seq(Sound) /\ UNCHANGED <<handle, port>>
      BY <2>3, <3>6, EmitTyped
    <3> QED BY <1>0, <2>0, <2>3, <3>2, <3>3, <3>5, <3>7, DeviceTypes
  <2> QED BY <1>1, <2>1, <2>2, <2>3 DEF DeviceIdle
<1>2. CASE DeviceText
  <2>1. PICK tokens \in {<<Text, NL>>, <<NL>>} : Emit(tokens)
    BY <1>2 DEF DeviceText
  <2>2. tokens \in Seq(Sound)
    <3>1. <<NL>> \in Seq(Sound) /\ <<Text, NL>> \in Seq(Sound)
      BY SoundWords
    <3>2. tokens = <<NL>> \/ tokens = <<Text, NL>>
      OBVIOUS
    <3> QED BY <3>1, <3>2
  <2>3. wire' \in Seq(Sound) /\ UNCHANGED <<handle, port>>
    BY <2>1, <2>2, EmitTyped
  <2>4. /\ HostTypedUnchanged
        /\ UNCHANGED <<dev, dev_test, run, to_device, gone, calls>>
    BY <1>2 DEF DeviceText, HostTypedUnchanged, fault_vars, bound_vars
  <2> QED BY <1>0, <2>3, <2>4, DeviceTypes
<1>3. CASE \E d \in Durations : DeviceSleepMarker(d)
  <2>1. PICK d \in Durations : DeviceSleepMarker(d)
    BY <1>3
  <2>2. /\ HostTypedUnchanged /\ dev = "running" /\ dev' = "await_ack"
        /\ UNCHANGED <<dev_test, run, to_device, gone, calls>>
        /\ Emit(Line("sleep", d))
    BY <2>1 DEF DeviceSleepMarker, HostTypedUnchanged, fault_vars, bound_vars
  <2>3. run \in 1..MaxCalls
    BY <2>2, RunBound
  <2>4. Line("sleep", d) \in Seq(Sound)
    <3>1. Word("sleep", dev_test', run', d) \in Sound /\ NL \in Sound
      BY <1>0, <2>2, <2>3, SoundWords
    <3> QED BY <3>1 DEF Line
  <2>5. wire' \in Seq(Sound) /\ UNCHANGED <<handle, port>>
    BY <2>2, <2>4, EmitTyped
  <2> QED BY <1>0, <2>2, <2>5, DeviceTypes
<1>4. CASE DeviceAcked
  <2>1. /\ HostTypedUnchanged /\ dev # "idle"
        /\ dev' \in {"await_ack", "entering"}
        /\ UNCHANGED <<dev_test, run, handle, port, wire, gone, calls>>
    BY <1>4 DEF DeviceAcked, HostTypedUnchanged, fault_vars, bound_vars
  <2>2. to_device' \in Seq(Commands) /\ Counts(to_device', run', calls')
    BY <1>0, <1>4, <2>1, Taken DEF DeviceAcked
  <2> QED BY <1>0, <2>1, <2>2, DeviceTypes
<1>5. CASE DeviceSleep
  <2>1. /\ HostTypedUnchanged /\ dev # "idle" /\ dev' = "asleep" /\ port' = FALSE
        /\ UNCHANGED <<dev_test, run, calls>> /\ gone' = 0
        /\ handle' \in {handle, "dead"} /\ to_device' = <<>> /\ wire' = <<>>
    BY <1>5 DEF DeviceSleep, PortLost, HostTypedUnchanged, bound_vars
  <2>2. Counts(to_device', run', calls')
    BY <1>0, <2>1, RunBound, CountsEmpty
  <2>3. to_device' \in Seq(Commands) /\ wire' \in Seq(Sound)
    BY <2>1
  <2> QED BY <1>0, <2>1, <2>2, <2>3, DeviceTypes
<1>6. CASE DeviceWake
  <2>1. /\ HostTypedUnchanged /\ dev # "idle" /\ dev' = "await_soh" /\ port' = TRUE
        /\ UNCHANGED <<dev_test, run, handle, to_device, wire, gone, calls>>
    BY <1>6 DEF DeviceWake, HostTypedUnchanged, fault_vars, bound_vars
  <2> QED BY <1>0, <2>1, DeviceTypes
<1>7. CASE DeviceHandshake
  <2>1. /\ HostTypedUnchanged /\ dev # "idle" /\ dev' \in {"running", "await_soh"}
        /\ to_device # <<>> /\ to_device' = Tail(to_device)
        /\ UNCHANGED <<dev_test, run, handle, port, wire, gone, calls>>
    BY <1>7 DEF DeviceHandshake, HostTypedUnchanged, fault_vars, bound_vars
  <2> QED BY <1>0, <2>1, Taken, DeviceTypes
<1>8. CASE DeviceStop
  <2>1. /\ HostTypedUnchanged /\ dev = "running" /\ dev' = "idle"
        /\ UNCHANGED <<dev_test, run, to_device, gone, calls>>
        /\ Emit(Line("test_end", Verdicts[run]) \o Line("stopped", None))
    BY <1>8 DEF DeviceStop, HostTypedUnchanged, fault_vars, bound_vars
  <2>2. run \in 1..MaxCalls
    BY <2>1, RunBound
  <2>3. Line("stopped", None) \in Seq(Sound)
    BY <1>0, <2>1, <2>2, RunLine
  <2>4. Line("test_end", Verdicts[run]) \in Seq(Sound)
    BY <1>0, <2>1, <2>2, SoundWords DEF Line
  <2>5. Line("test_end", Verdicts[run]) \o Line("stopped", None) \in Seq(Sound)
    BY <2>3, <2>4
  <2>6. wire' \in Seq(Sound) /\ UNCHANGED <<handle, port>>
    BY <2>1, <2>5, EmitTyped
  <2> QED BY <1>0, <2>1, <2>6, DeviceTypes
<1>9. CASE \E next \in {"idle", dev}, back \in BOOLEAN : DeviceDrop(next, back)
  <2>1. /\ HostTypedUnchanged /\ dev' \in {"idle", dev} /\ port' \in BOOLEAN /\ gone' \in {gone, 0}
        /\ UNCHANGED <<dev_test, run, calls>>
        /\ handle' \in {handle, "dead"} /\ to_device' = <<>> /\ wire' = <<>>
    BY <1>9 DEF DeviceDrop, PortLost, HostTypedUnchanged
  <2>2. Counts(to_device', run', calls')
    BY <1>0, <2>1, RunBound, CountsEmpty
  <2>3. to_device' \in Seq(Commands) /\ wire' \in Seq(Sound)
    BY <2>1
  <2> QED BY <1>0, <2>1, <2>2, <2>3, DeviceTypes
<1>10. CASE PortBack
  <2>1. /\ HostTypedUnchanged /\ port' = TRUE
        /\ UNCHANGED <<dev, dev_test, run, handle, to_device, wire, gone, calls>>
    BY <1>10 DEF PortBack, HostTypedUnchanged, fault_vars, bound_vars, device_vars
  <2> QED BY <1>0, <2>1, DeviceTypes
<1> QED BY <1>1, <1>2, <1>3, <1>4, <1>5, <1>6, <1>7, <1>8, <1>9, <1>10 DEF Device

LEMMA TypedTypeOK == Typed => TypeOK
<1> SUFFICES ASSUME Typed PROVE TypeOK
  OBVIOUS
<1>1. line_buf \in Seq(Token) /\ wire \in Seq(Token)
  BY SoundTokens DEF Typed, BufferTyped, LinkTyped
<1>2. outcome.status \in {"ok", "error", "timeout"} \cup Range(Verdicts)
  BY DEF Typed, MonitorTyped, Outcomes
<1> QED BY <1>1, <1>2 DEF Typed, TypeOK, CallTyped, BufferTyped, MonitorTyped, LinkTyped,
                        DevTyped, HistoryTyped

LEMMA CallTypes ==
    ASSUME CallTyped, Return \/ LoopAgain \/ StartReading \/ Retry \/ Attempt \/ UNCHANGED call_vars
    PROVE  CallTyped'
BY NumberTypes DEF CallTyped, Return, LoopAgain, StartReading, Retry, Attempt, call_vars

LEMMA WriteTypes ==
    ASSUME Typed, NEW c \in {SOH, ACK}, Write(c), UNCHANGED <<run, calls, dev, dev_test>>
    PROVE  to_device' \in Seq(Commands) /\ DevTyped'
<1>0. to_device \in Seq(Commands) /\ run \in Int /\ calls \in Int /\ DevTyped
  BY NumberTypes DEF Typed, LinkTyped, DevTyped
<1>1. c \in Commands /\ Cost(c) = 0
  BY CommandTypes
<1>2. CASE Writable
  <2>1. Counts(Append(to_device, c), run, calls + 0)
    BY <1>0, <1>1, CountsAppend DEF DevTyped
  <2>2. calls + 0 = calls
    BY <1>0
  <2> QED BY <1>0, <1>1, <1>2, <2>1, <2>2 DEF Write, DevTyped
<1>3. CASE ~Writable
  BY <1>0, <1>3 DEF Write, DevTyped
<1> QED BY <1>2, <1>3

LEMMA OutcomeTypes ==
    ASSUME NEW o \in Outcomes
    PROVE  /\ \A r \in 1..MaxCalls : [o EXCEPT !.status = Verdicts[r]] \in Outcomes
           /\ \A r \in 1..MaxCalls : [o EXCEPT !.stopped = r] \in Outcomes
           /\ \A w \in {"incomplete", "no_wake", "no_sleep", "no_reconnect"} :
                 /\ [o EXCEPT !.status = "timeout", !.warnings = @ \cup {w}] \in Outcomes
                 /\ [o EXCEPT !.status = "error", !.warnings = @ \cup {w}] \in Outcomes
           /\ \A a \in Nat, w \in SUBSET {"premature", "late"} :
                 [o EXCEPT !.sleep_actual_s = a, !.warnings = @ \cup w] \in Outcomes
<1>1. \A r \in 1..MaxCalls : [o EXCEPT !.status = Verdicts[r]] \in Outcomes
  BY VerdictType DEF Outcomes
<1>2. \A r \in 1..MaxCalls : [o EXCEPT !.stopped = r] \in Outcomes
  BY DEF Outcomes
<1>3. ASSUME NEW w \in {"incomplete", "no_wake", "no_sleep", "no_reconnect"}
      PROVE  /\ [o EXCEPT !.status = "timeout", !.warnings = @ \cup {w}] \in Outcomes
             /\ [o EXCEPT !.status = "error", !.warnings = @ \cup {w}] \in Outcomes
  BY DEF Outcomes
<1>4. ASSUME NEW a \in Nat, NEW w \in SUBSET {"premature", "late"}
      PROVE  [o EXCEPT !.sleep_actual_s = a, !.warnings = @ \cup w] \in Outcomes
  BY DEF Outcomes
<1> QED BY <1>1, <1>2, <1>3, <1>4

\* What a line changes of the types.
LEMMA OnLineTyped ==
    ASSUME Typed, NEW words \in Seq(Sound), OnLine(words), UNCHANGED <<device_vars, calls>>
    PROVE  /\ CallTyped' /\ MonitorTyped' /\ DevTyped'
           /\ handle' \in {"open", "closed", "dead"} /\ to_device' \in Seq(Commands)
           /\ started' \in 1..MaxCalls \cup {None} /\ misled' \in BOOLEAN
<1>0. /\ CallTyped /\ MonitorTyped /\ DevTyped
      /\ handle \in {"open", "closed", "dead"} /\ to_device \in Seq(Commands)
      /\ started \in 1..MaxCalls \cup {None} /\ misled \in BOOLEAN
      /\ leftover \in Nat
  BY DEF Typed, LinkTyped, HistoryTyped, BufferTyped
<1>1. UNCHANGED <<dev, dev_test, run, calls>>
  BY DEF device_vars
<1>2. CASE DiscoverLine(words)
  <2>1. CallTyped'
    BY <1>0, <1>2, CallTypes DEF DiscoverLine
  <2>2. UNCHANGED <<monitor_vars, handle, to_device, start_vars>>
    BY <1>2 DEF DiscoverLine
  <2> QED BY <1>0, <1>1, <2>1, <2>2 DEF MonitorTyped, monitor_vars, start_vars, DevTyped
<1>3. CASE StartLine(words)
  <2>1. CallTyped'
    BY <1>0, <1>3, CallTypes DEF StartLine
  <2>2. UNCHANGED <<monitor_vars, handle, to_device>>
    BY <1>3 DEF StartLine
  <2>3. started' \in 1..MaxCalls \cup {None} /\ misled' \in BOOLEAN
    <3>1. CASE Len(words) = 1 /\ words[1].kind \in StartMarker /\ words[1].test = test_id
      <4>1. words[1] \in Sound /\ words[1].kind = "started"
        BY <3>1 DEF StartMarker
      <4>2. words[1].run \in 1..MaxCalls
        BY <4>1, SoundFacts
      <4>3. started' = words[1].run /\ misled' = (leftover > 0)
        BY <1>3, <3>1 DEF StartLine
      <4>4. misled' \in BOOLEAN
        BY <4>3
      <4> QED BY <4>2, <4>3, <4>4
    <3>2. CASE ~(Len(words) = 1 /\ words[1].kind \in StartMarker /\ words[1].test = test_id)
      BY <1>0, <1>3, <3>2 DEF StartLine, start_vars
    <3> QED BY <3>1, <3>2
  <2> QED BY <1>0, <1>1, <2>1, <2>2, <2>3 DEF MonitorTyped, monitor_vars, DevTyped
<1>4. CASE MonitorLine(words)
  <2>0. started' = started /\ misled' = misled /\ call = "monitor"
    BY <1>4 DEF MonitorLine, start_vars
  <2>1. CallTyped'
    <3>1. CASE at' = "acking" /\ due' = 0 /\ UNCHANGED <<call, test_id, clock>>
      BY <1>0, <3>1 DEF CallTyped
    <3> QED BY <1>0, <1>4, <3>1, CallTypes DEF MonitorLine
  <2>2. serial_log' \in Seq(Seq(Token))
    <3>1. words \in Seq(Token) /\ serial_log \in Seq(Seq(Token))
      BY <1>0, SoundTokens DEF MonitorTyped
    <3> QED BY <1>4, <3>1 DEF MonitorLine
  <2>3. UNCHANGED <<sleeping, sleep_confirmed, elapsed, attempt, handle>>
    BY <1>4 DEF MonitorLine
  <2>4. CASE IsMarker(words, "test_end")
    <3>1. words[1] \in Sound /\ words[1].kind = "test_end"
      BY <2>4 DEF IsMarker
    <3>2. words[1].run \in 1..MaxCalls /\ words[1].arg = Verdicts[words[1].run]
      BY <3>1, SoundFacts
    <3>3. /\ outcome' = [outcome EXCEPT !.status = words[1].arg]
          /\ UNCHANGED <<sleep_start_time, sleep_expected_s, to_device>>
      BY <1>4, <2>4, <3>1 DEF MonitorLine, IsMarker, IsSleep
    <3>4. outcome' \in Outcomes
      BY <1>0, <3>2, <3>3, OutcomeTypes DEF MonitorTyped
    <3>5. MonitorTyped'
      BY <1>0, <2>2, <2>3, <3>3, <3>4 DEF MonitorTyped
    <3> QED BY <1>0, <1>1, <2>0, <2>1, <2>3, <3>3, <3>5 DEF DevTyped
  <2>5. CASE IsSleep(words)
    <3>2. Len(words) = 1 => words[1].arg \in Durations
      <4>1. ASSUME Len(words) = 1 PROVE words[1] \in Sound
        BY <4>1
      <4> QED BY <2>5, <4>1, SoundFacts DEF IsSleep
    <3>3. /\ sleep_expected_s' = IF Len(words) = 1 THEN words[1].arg ELSE None
          /\ sleep_start_time' = clock /\ Write(ACK) /\ UNCHANGED outcome
      BY <1>4, <2>5 DEF MonitorLine, IsMarker, IsSleep
    <3>4. MonitorTyped'
      BY <1>0, <2>2, <2>3, <3>2, <3>3 DEF MonitorTyped, CallTyped
    <3>5. to_device' \in Seq(Commands) /\ DevTyped'
      BY <1>1, <3>3, WriteTypes
    <3> QED BY <1>0, <2>0, <2>1, <2>3, <3>4, <3>5
  <2>6. CASE IsMarker(words, "stopped") /\ words[1].test = test_id
    <3>1. words[1] \in Sound /\ words[1].kind = "stopped"
      BY <2>6 DEF IsMarker
    <3>2. words[1].run \in 1..MaxCalls
      BY <3>1, SoundFacts
    <3>3. /\ outcome' = [outcome EXCEPT !.stopped = words[1].run]
          /\ UNCHANGED <<sleep_start_time, sleep_expected_s, to_device>>
      BY <1>4, <2>6, <3>1 DEF MonitorLine, IsMarker, IsSleep
    <3>4. outcome' \in Outcomes
      BY <1>0, <3>2, <3>3, OutcomeTypes DEF MonitorTyped
    <3>5. MonitorTyped'
      BY <1>0, <2>2, <2>3, <3>3, <3>4 DEF MonitorTyped
    <3> QED BY <1>0, <1>1, <2>0, <2>1, <2>3, <3>3, <3>5 DEF DevTyped
  <2>7. CASE /\ ~IsMarker(words, "test_end") /\ ~IsSleep(words)
             /\ ~(IsMarker(words, "stopped") /\ words[1].test = test_id)
    <3>1. UNCHANGED <<outcome, sleep_start_time, sleep_expected_s, to_device>>
      BY <1>4, <2>7 DEF MonitorLine
    <3>2. MonitorTyped'
      BY <1>0, <2>2, <2>3, <3>1 DEF MonitorTyped
    <3> QED BY <1>0, <1>1, <2>0, <2>1, <2>3, <3>1, <3>2 DEF DevTyped
  <2> QED BY <2>4, <2>5, <2>6, <2>7
<1> QED BY <1>2, <1>3, <1>4 DEF OnLine

LEMMA TakeLineTyped ==
    ASSUME Typed, NEW buf \in Seq(Sound), HasLine(buf), Len(line_buf) <= Len(buf), TakeLine(buf)
    PROVE  BufferTyped' /\ FirstLine(buf) \in Seq(Sound)
<1>0. Len(buf) \in Nat /\ leftover \in Nat /\ leftover <= Len(buf)
  BY DEF Typed, BufferTyped
<1>1. FirstEnd(buf) \in 1..Len(buf)
  BY FirstEndIs
<1>2. line_buf' \in Seq(Sound) /\ Len(line_buf') = Len(buf) - FirstEnd(buf)
  BY LineType DEF TakeLine
<1>3. leftover' \in 0..Len(buf) - FirstEnd(buf)
  BY <1>0, <1>1 DEF TakeLine
<1> QED BY <1>2, <1>3, LineType DEF BufferTyped

\* The tokens read, and those still on the wire.
LEMMA ReadSplit ==
    ASSUME Typed, NEW n \in 1..Len(wire)
    PROVE  /\ line_buf \o SubSeq(wire, 1, n) \in Seq(Sound)
           /\ Len(line_buf \o SubSeq(wire, 1, n)) = Len(line_buf) + n
           /\ SubSeq(wire, n + 1, Len(wire)) \in Seq(Sound)
<1>1. line_buf \in Seq(Sound) /\ wire \in Seq(Sound) /\ Len(wire) \in Nat
  BY DEF Typed, BufferTyped, LinkTyped
<1>2. SubSeq(wire, 1, n) \in Seq(Sound) /\ Len(SubSeq(wire, 1, n)) = n
  BY <1>1
<1>3. SubSeq(wire, n + 1, Len(wire)) \in Seq(Sound)
  BY <1>1
<1> QED BY <1>1, <1>2, <1>3

LEMMA KeptTypes ==
    ASSUME Typed, UNCHANGED <<monitor_vars, handle, to_device, start_vars>>,
           UNCHANGED <<device_vars, calls>>
    PROVE  /\ MonitorTyped' /\ DevTyped'
           /\ handle' \in {"open", "closed", "dead"} /\ to_device' \in Seq(Commands)
           /\ started' \in 1..MaxCalls \cup {None} /\ misled' \in BOOLEAN
BY DEF Typed, MonitorTyped, DevTyped, LinkTyped, HistoryTyped, monitor_vars, device_vars, start_vars

LEMMA ReadDataTyped ==
    ASSUME Typed, NEW n \in 1..Len(wire), ReadData(n)
    PROVE  Typed'
<1> DEFINE buf == line_buf \o SubSeq(wire, 1, n)
<1>0. /\ UNCHANGED <<port, device_vars, fault_vars>>
      /\ wire' = SubSeq(wire, n + 1, Len(wire))
  BY DEF ReadData
<1>1. wire' \in Seq(Sound)
  BY <1>0, ReadSplit
<1>2. UNCHANGED <<device_vars, calls, gone, again, flushed, refused>>
  BY <1>0 DEF fault_vars, bound_vars
<1>3. buf \in Seq(Sound) /\ Len(line_buf) <= Len(buf) /\ Len(line_buf) \in Nat
  BY ReadSplit DEF Typed, BufferTyped
<1>4. CASE HasLine(buf)
  <2>1. TakeLine(buf) /\ (KeepReading \/ OnLine(FirstLine(buf)))
    BY <1>4 DEF ReadData
  <2> HIDE DEF buf
  <2>2. BufferTyped' /\ FirstLine(buf) \in Seq(Sound)
    BY <1>3, <1>4, <2>1, TakeLineTyped
  <2>3. CallTyped'
    BY <1>2, <2>1, <2>2, CallTypes, OnLineTyped DEF KeepReading, Typed
  <2>4. /\ MonitorTyped' /\ DevTyped'
        /\ handle' \in {"open", "closed", "dead"} /\ to_device' \in Seq(Commands)
        /\ started' \in 1..MaxCalls \cup {None} /\ misled' \in BOOLEAN
    BY <1>2, <2>1, <2>2, KeptTypes, OnLineTyped DEF KeepReading
  <2> QED BY <1>0, <1>1, <1>2, <2>2, <2>3, <2>4 DEF Typed, LinkTyped, HistoryTyped
<1>5. CASE ~HasLine(buf)
  <2>1. line_buf' = buf /\ UNCHANGED leftover /\ KeepReading
    BY <1>5 DEF ReadData
  <2>2. BufferTyped'
    BY <1>3, <2>1 DEF Typed, BufferTyped
  <2>3. CallTyped'
    BY <2>1, CallTypes DEF KeepReading, Typed
  <2>4. /\ MonitorTyped' /\ DevTyped'
        /\ handle' \in {"open", "closed", "dead"} /\ to_device' \in Seq(Commands)
        /\ started' \in 1..MaxCalls \cup {None} /\ misled' \in BOOLEAN
    BY <1>2, <2>1, KeptTypes DEF KeepReading
  <2> QED BY <1>0, <1>1, <1>2, <2>2, <2>3, <2>4 DEF Typed, LinkTyped, HistoryTyped
<1> QED BY <1>4, <1>5

LEMMA ReadBufferedTyped ==
    ASSUME Typed, ReadBuffered
    PROVE  Typed'
<1>0. UNCHANGED <<port, wire, device_vars, fault_vars>> /\ HasLine(line_buf) /\ TakeLine(line_buf)
  BY DEF ReadBuffered
<1>1. UNCHANGED <<device_vars, calls, gone, again, flushed, refused>>
  BY <1>0 DEF fault_vars, bound_vars
<1>2. line_buf \in Seq(Sound) /\ Len(line_buf) <= Len(line_buf)
  BY DEF Typed, BufferTyped
<1>3. BufferTyped' /\ FirstLine(line_buf) \in Seq(Sound)
  BY <1>0, <1>2, TakeLineTyped
<1>4. CASE LoopAgain /\ UNCHANGED <<monitor_vars, handle, to_device, start_vars>>
  <2>1. CallTyped'
    BY <1>4, CallTypes DEF Typed
  <2>2. /\ MonitorTyped' /\ DevTyped'
        /\ handle' \in {"open", "closed", "dead"} /\ to_device' \in Seq(Commands)
        /\ started' \in 1..MaxCalls \cup {None} /\ misled' \in BOOLEAN
    BY <1>1, <1>4, KeptTypes
  <2> QED BY <1>0, <1>1, <1>3, <2>1, <2>2 DEF Typed, LinkTyped, HistoryTyped
<1>5. CASE OnLine(FirstLine(line_buf))
  <2>1. /\ CallTyped' /\ MonitorTyped' /\ DevTyped'
        /\ handle' \in {"open", "closed", "dead"} /\ to_device' \in Seq(Commands)
        /\ started' \in 1..MaxCalls \cup {None} /\ misled' \in BOOLEAN
    BY <1>1, <1>3, <1>5, OnLineTyped
  <2> QED BY <1>0, <1>1, <1>3, <2>1 DEF Typed, LinkTyped, HistoryTyped
<1> QED BY <1>4, <1>5 DEF ReadBuffered

LEMMA EnvironmentTypes ==
    ASSUME Typed, UNCHANGED Environment, CallTyped', MonitorTyped'
    PROVE  Typed'
<1>1. BufferTyped' /\ LinkTyped' /\ DevTyped' /\ HistoryTyped'
  BY DEF Typed, BufferTyped, LinkTyped, DevTyped, HistoryTyped, Environment, buffer_vars, link_vars,
         device_vars, start_vars, fault_vars, bound_vars
<1> QED BY <1>1 DEF Typed

LEMMA FailTypes ==
    ASSUME Typed, NEW s \in {"error", "timeout"},
           NEW w \in {"incomplete", "no_wake", "no_sleep", "no_reconnect"}, Fail(s, w)
    PROVE  CallTyped' /\ outcome' \in Outcomes
<1>1. CallTyped'
  BY CallTypes DEF Fail, Typed
<1>2. outcome' \in Outcomes
  BY OutcomeTypes DEF Fail, Typed, MonitorTyped
<1> QED BY <1>1, <1>2

LEMMA ElapsedType ==
    ASSUME Typed, CallInv, call = "monitor", sleeping
    PROVE  clock - sleep_start_time \in Nat
BY DEF Typed, CallTyped, MonitorTyped, CallInv

LEMMA MonitorPollsTyped ==
    ASSUME Typed, CallInv, MonitorPolls
    PROVE  Typed'
<1>0. /\ UNCHANGED <<sleeping, sleep_confirmed, sleep_start_time, sleep_expected_s, attempt, serial_log>>
      /\ UNCHANGED Environment /\ elapsed' = clock - sleep_start_time
  BY DEF MonitorPolls
<1>1. elapsed' \in Nat
  BY <1>0, ElapsedType DEF MonitorPolls, MayPoll
<1>2. CASE Fail("timeout", "no_wake")
  <2>1. CallTyped' /\ outcome' \in Outcomes
    BY <1>2, FailTypes
  <2>2. MonitorTyped'
    BY <1>0, <1>1, <2>1 DEF Typed, MonitorTyped
  <2> QED BY <1>0, <2>1, <2>2, EnvironmentTypes
<1>3. CASE /\ at' = "polling" /\ due' = clock + PollDelay
           /\ UNCHANGED <<call, test_id, clock, outcome>>
  <2>1. CallTyped'
    BY <1>3, NumberTypes DEF Typed, CallTyped, PollDelay
  <2>2. MonitorTyped'
    BY <1>0, <1>1, <1>3 DEF Typed, MonitorTyped
  <2> QED BY <1>0, <2>1, <2>2, EnvironmentTypes
<1> QED BY <1>2, <1>3 DEF MonitorPolls

LEMMA PolledBeforeSleepTyped ==
    ASSUME Typed, PolledBeforeSleep
    PROVE  Typed'
<1>0. /\ UNCHANGED <<sleeping, sleep_start_time, sleep_expected_s, elapsed, attempt, serial_log>>
      /\ UNCHANGED Environment
  BY DEF PolledBeforeSleep
<1>1. CASE sleep_confirmed' = TRUE /\ LoopAgain /\ UNCHANGED outcome
  <2>1. CallTyped'
    BY <1>1, CallTypes DEF Typed
  <2>2. MonitorTyped'
    BY <1>0, <1>1 DEF Typed, MonitorTyped
  <2> QED BY <1>0, <2>1, <2>2, EnvironmentTypes
<1>2. CASE UNCHANGED sleep_confirmed /\ Fail("error", "no_sleep")
  <2>1. CallTyped' /\ outcome' \in Outcomes
    BY <1>2, FailTypes
  <2>2. MonitorTyped'
    BY <1>0, <1>2, <2>1 DEF Typed, MonitorTyped
  <2> QED BY <1>0, <2>1, <2>2, EnvironmentTypes
<1>3. CASE UNCHANGED sleep_confirmed /\ LoopAgain /\ UNCHANGED outcome
  <2>1. CallTyped'
    BY <1>3, CallTypes DEF Typed
  <2>2. MonitorTyped'
    BY <1>0, <1>3 DEF Typed, MonitorTyped
  <2> QED BY <1>0, <2>1, <2>2, EnvironmentTypes
<1> QED BY <1>1, <1>2, <1>3 DEF PolledBeforeSleep

LEMMA PolledAwakeTyped ==
    ASSUME Typed, CallInv, PolledAwake
    PROVE  Typed'
<1>0. /\ at' = "connecting" /\ handle' = "closed" /\ line_buf' = <<>> /\ leftover' = 0 /\ attempt' = 1
      /\ refused' = 0 /\ Attempt
      /\ UNCHANGED <<call, test_id, clock, sleeping, sleep_confirmed, sleep_start_time,
                     sleep_expected_s, elapsed, serial_log, port, to_device, wire, gone, flushed>>
      /\ UNCHANGED <<device_vars, start_vars, bound_vars>>
      /\ outcome' = [outcome EXCEPT !.sleep_actual_s = clock - sleep_start_time,
                                    !.warnings = @ \cup WakeWarnings(clock - sleep_start_time)]
      /\ at = "polling" /\ sleep_confirmed
  BY DEF PolledAwake, Attempt
<1>1. clock - sleep_start_time \in Nat
  BY <1>0, ElapsedType DEF CallInv
<1>2. WakeWarnings(clock - sleep_start_time) \in SUBSET {"premature", "late"}
  BY DEF WakeWarnings
<1>3. outcome' \in Outcomes
  BY <1>0, <1>1, <1>2, OutcomeTypes DEF Typed, MonitorTyped
<1>4. CallTyped'
  BY <1>0, CallTypes DEF Typed
<1>5. MonitorTyped'
  BY <1>0, <1>3, NumberTypes DEF Typed, MonitorTyped
<1>6. BufferTyped'
  <2>1. line_buf' \in Seq(Sound) /\ Len(line_buf') = 0
    BY <1>0
  <2> QED BY <1>0, <2>1 DEF BufferTyped
<1>7. LinkTyped'
  BY <1>0 DEF Typed, LinkTyped
<1>8. DevTyped'
  BY <1>0 DEF Typed, DevTyped, device_vars, bound_vars
<1>9. HistoryTyped'
  BY <1>0 DEF Typed, HistoryTyped, start_vars, bound_vars
<1> QED BY <1>4, <1>5, <1>6, <1>7, <1>8, <1>9 DEF Typed

LEMMA ConnectTyped ==
    ASSUME Typed, Connect
    PROVE  Typed'
<1>0. /\ UNCHANGED <<buffer_vars, monitor_vars, port, wire, device_vars, start_vars, fault_vars>>
      /\ handle' = HandleAfterConnect
      /\ to_device' = IF handle' = "open" THEN Append(to_device, SOH) ELSE to_device
      /\ at' = "greeting" /\ due' = 0 /\ UNCHANGED <<call, test_id, clock>>
  BY DEF Connect
<1>1. handle' \in {"open", "closed", "dead"}
  BY <1>0 DEF Typed, LinkTyped, HandleAfterConnect
<1>2. CallTyped'
  BY <1>0 DEF Typed, CallTyped
<1>3. to_device' \in Seq(Commands) /\ DevTyped'
  <2>1. to_device \in Seq(Commands) /\ run \in Int /\ calls \in Int /\ DevTyped
    BY NumberTypes DEF Typed, LinkTyped, DevTyped
  <2>2. SOH \in Commands /\ Cost(SOH) = 0
    BY CommandTypes
  <2>3. Counts(Append(to_device, SOH), run, calls + 0) /\ calls + 0 = calls
    BY <2>1, <2>2, CountsAppend DEF DevTyped
  <2>4. UNCHANGED <<dev, dev_test, run, calls>>
    BY <1>0 DEF device_vars, fault_vars, bound_vars
  <2> QED BY <1>0, <2>1, <2>2, <2>3, <2>4 DEF DevTyped
<1>4. BufferTyped' /\ MonitorTyped' /\ LinkTyped' /\ HistoryTyped'
  BY <1>0, <1>1, <1>3 DEF Typed, BufferTyped, MonitorTyped, LinkTyped, HistoryTyped, buffer_vars,
         monitor_vars, start_vars, fault_vars, bound_vars
<1> QED BY <1>2, <1>3, <1>4 DEF Typed

LEMMA ConnectFailsTyped ==
    ASSUME Typed, ConnectFails
    PROVE  Typed'
<1>1. /\ UNCHANGED <<monitor_vars, buffer_vars, link_vars, device_vars, start_vars, gone, flushed, bound_vars>>
      /\ refused' = refused + 1
  BY DEF ConnectFails
<1>2. CallTyped'
  BY CallTypes DEF ConnectFails, Typed
<1>3. BufferTyped' /\ MonitorTyped' /\ LinkTyped' /\ DevTyped' /\ HistoryTyped'
  BY <1>1 DEF Typed, BufferTyped, MonitorTyped, LinkTyped, DevTyped, HistoryTyped, buffer_vars,
       monitor_vars, link_vars, device_vars, start_vars, bound_vars
<1> QED BY <1>2, <1>3 DEF Typed

LEMMA FlushedTyped ==
    ASSUME Typed, Flushed
    PROVE  Typed'
<1>1. CASE CommandWritten
  <2>1. CallTyped'
    BY <1>1, CallTypes DEF CommandWritten, Typed
  <2>2. MonitorTyped' /\ UNCHANGED Environment
    BY <1>1 DEF CommandWritten, Typed, MonitorTyped, monitor_vars
  <2> QED BY <2>1, <2>2, EnvironmentTypes
<1>2. CASE AckWritten
  <2>1. /\ sleeping' = TRUE /\ handle' = "closed" /\ wire' = <<>>
        /\ UNCHANGED <<sleep_confirmed, sleep_start_time, sleep_expected_s, elapsed, attempt, outcome,
                       serial_log, port, to_device>>
        /\ UNCHANGED <<buffer_vars, device_vars, start_vars, fault_vars>>
    BY <1>2 DEF AckWritten
  <2>2. CallTyped'
    BY <1>2, CallTypes DEF AckWritten, Typed
  <2>3. wire' \in Seq(Sound)
    BY <2>1
  <2>4. MonitorTyped' /\ LinkTyped'
    BY <2>1, <2>3 DEF Typed, MonitorTyped, LinkTyped
  <2>5. BufferTyped' /\ DevTyped' /\ HistoryTyped'
    BY <2>1 DEF Typed, BufferTyped, DevTyped, HistoryTyped, buffer_vars, device_vars, start_vars,
           fault_vars, bound_vars
  <2> QED BY <2>2, <2>4, <2>5 DEF Typed
<1>3. CASE SohWritten
  <2>0. /\ UNCHANGED <<attempt, outcome, flushed, refused>>
        /\ UNCHANGED <<buffer_vars, link_vars, device_vars, start_vars, bound_vars>>
        /\ UNCHANGED <<sleep_start_time, sleep_expected_s, elapsed, serial_log>>
    BY <1>3 DEF SohWritten, Unmonitored
  <2>1. CallTyped' /\ sleeping' \in BOOLEAN /\ sleep_confirmed' \in BOOLEAN /\ gone' \in Nat
    <3>1. CASE /\ sleeping' = FALSE /\ sleep_confirmed' = FALSE /\ gone' = 0 /\ LoopAgain
      BY <3>1, CallTypes DEF Typed
    <3>2. CASE Retry /\ UNCHANGED <<sleeping, sleep_confirmed, gone>>
      BY <3>2, CallTypes DEF Typed, MonitorTyped, HistoryTyped
    <3> QED BY <1>3, <3>1, <3>2 DEF SohWritten
  <2>3. MonitorTyped'
    BY <2>0, <2>1 DEF Typed, MonitorTyped
  <2>4. BufferTyped' /\ LinkTyped' /\ DevTyped' /\ HistoryTyped'
    BY <2>0, <2>1 DEF Typed, BufferTyped, LinkTyped, DevTyped, HistoryTyped, buffer_vars, link_vars,
           device_vars, start_vars, bound_vars
  <2> QED BY <2>1, <2>3, <2>4 DEF Typed
<1> QED BY <1>1, <1>2, <1>3 DEF Flushed

LEMMA HostTyped ==
    ASSUME Typed, CallInv, Host
    PROVE  Typed'
<1>1. CASE \E n \in 1..Len(wire) : ReadData(n)
  BY <1>1, ReadDataTyped
<1>2. CASE ReadBuffered
  BY <1>2, ReadBufferedTyped
<1>3. CASE ReadTimesOut
  <2>1. CallTyped'
    BY <1>3, CallTypes DEF ReadTimesOut, Typed
  <2>2. MonitorTyped' /\ UNCHANGED Environment
    BY <1>3 DEF ReadTimesOut, Typed, MonitorTyped, monitor_vars, Environment
  <2> QED BY <2>1, <2>2, EnvironmentTypes
<1>4. CASE CallTop \/ MonitorReads
  <2>1. CallTyped'
    BY <1>4, CallTypes DEF CallTop, MonitorReads, Typed
  <2>2. MonitorTyped' /\ UNCHANGED Environment
    BY <1>4 DEF CallTop, MonitorReads, Typed, MonitorTyped, monitor_vars
  <2> QED BY <2>1, <2>2, EnvironmentTypes
<1>5. CASE MonitorTimesOut
  <2>1. CallTyped' /\ outcome' \in Outcomes
    BY <1>5, FailTypes DEF MonitorTimesOut
  <2>2. MonitorTyped' /\ UNCHANGED Environment
    BY <1>5, <2>1 DEF MonitorTimesOut, Typed, MonitorTyped
  <2> QED BY <2>1, <2>2, EnvironmentTypes
<1>6. CASE MonitorPolls
  BY <1>6, MonitorPollsTyped
<1>7. CASE PolledBeforeSleep
  BY <1>7, PolledBeforeSleepTyped
<1>8. CASE PolledAsleep
  <2>1. CallTyped'
    BY <1>8, CallTypes DEF PolledAsleep, Typed
  <2>2. MonitorTyped' /\ UNCHANGED Environment
    BY <1>8 DEF PolledAsleep, Typed, MonitorTyped, monitor_vars
  <2> QED BY <2>1, <2>2, EnvironmentTypes
<1>9. CASE PolledAwake
  BY <1>9, PolledAwakeTyped
<1>10. CASE Connect
  BY <1>10, ConnectTyped
<1>11. CASE ConnectFails
  BY <1>11, ConnectFailsTyped
<1>14. CASE Flushed
  BY <1>14, FlushedTyped
<1>12. CASE NextAttempt
  <2>1. CallTyped'
    BY <1>12, CallTypes DEF NextAttempt, Typed
  <2>2. attempt' \in 0..MaxAttempts
    BY <1>12, NumberTypes DEF NextAttempt, AttemptsLeft, Typed, MonitorTyped
  <2>3. MonitorTyped' /\ UNCHANGED Environment
    BY <1>12, <2>2 DEF NextAttempt, Typed, MonitorTyped, Unmonitored
  <2> QED BY <2>1, <2>3, EnvironmentTypes
<1>13. CASE ReconnectFails
  <2>1. CallTyped' /\ outcome' \in Outcomes
    BY <1>13, FailTypes DEF ReconnectFails
  <2>2. MonitorTyped' /\ UNCHANGED Environment
    BY <1>13, <2>1 DEF ReconnectFails, Typed, MonitorTyped, Unmonitored
  <2> QED BY <2>1, <2>2, EnvironmentTypes
<1> QED BY <1>1, <1>2, <1>3, <1>4, <1>5, <1>6, <1>7, <1>8, <1>9, <1>10, <1>11, <1>12, <1>13, <1>14 DEF Host

LEMMA NoMonitorTypes ==
    ASSUME NoMonitor
    PROVE  MonitorTyped' /\ gone' = 0 /\ flushed' = 0 /\ refused' = 0
<1>1. sleeping' \in BOOLEAN /\ sleep_confirmed' \in BOOLEAN
  BY DEF NoMonitor
<1>2. /\ sleep_start_time' = 0 /\ elapsed' = 0 /\ attempt' = 0 /\ sleep_expected_s' = None
      /\ serial_log' \in Seq(Seq(Token)) /\ outcome' = NoOutcome
      /\ gone' = 0 /\ flushed' = 0 /\ refused' = 0
  BY DEF NoMonitor
<1>3. outcome' \in Outcomes
  BY <1>2 DEF NoOutcome, Outcomes
<1> QED BY <1>1, <1>2, <1>3, NumberTypes DEF MonitorTyped

LEMMA CommandTyped ==
    ASSUME Typed, NEW c \in Commands, Command(c), Cost(c) <= 1, CallTyped'
    PROVE  Typed'
<1>0. /\ Writable /\ Write(c) /\ calls < MaxCalls /\ calls' = calls + 1
      /\ started' = None /\ misled' \in BOOLEAN /\ again' \in BOOLEAN /\ NoMonitor
      /\ UNCHANGED <<buffer_vars, handle, port, wire, device_vars>>
  BY DEF Command
<1>1. /\ to_device \in Seq(Commands) /\ run \in Int /\ calls \in Int /\ Counts(to_device, run, calls)
      /\ calls \in Nat /\ Cost(c) \in Int
  BY NumberTypes DEF Typed, LinkTyped, DevTyped, Cost
<1>2. Counts(Append(to_device, c), run, calls + 1)
  BY <1>1, CountsAppend
<1>3. DevTyped'
  BY <1>0, <1>1, <1>2, NumberTypes DEF Typed, DevTyped, Write, device_vars
<1>4. LinkTyped'
  BY <1>0, <1>1 DEF Typed, LinkTyped, Write
<1>5. MonitorTyped' /\ gone' = 0 /\ flushed' = 0 /\ refused' = 0
  BY <1>0, NoMonitorTypes
<1>6. BufferTyped' /\ HistoryTyped'
  BY <1>0, <1>5, NumberTypes DEF Typed, BufferTyped, HistoryTyped, buffer_vars
<1> QED BY <1>3, <1>4, <1>5, <1>6 DEF Typed

LEMMA CallerTyped ==
    ASSUME Typed, Caller
    PROVE  Typed'
<1>1. CASE Discover
  <2>1. CallTyped'
    BY <1>1 DEF Discover, Begin, Typed, CallTyped
  <2> QED BY <1>1, <2>1, CommandTypes, CommandTyped DEF Discover
<1>2. CASE \E t \in Tests : StartTest(t)
  <2>1. PICK t \in Tests : StartTest(t)
    BY <1>2
  <2>2. CallTyped'
    BY <2>1 DEF StartTest, Begin, Typed, CallTyped
  <2>3. STX(t) \in Commands /\ Cost(STX(t)) <= 1
    BY CommandTypes
  <2> QED BY <2>1, <2>2, <2>3, CommandTyped DEF StartTest
<1>3. CASE Monitor
  <2>1. CallTyped'
    BY <1>3 DEF Monitor, Begin, Typed, CallTyped
  <2>2. /\ UNCHANGED <<buffer_vars, link_vars, device_vars, start_vars>> /\ NoMonitor
        /\ \/ UNCHANGED <<again, calls>>
           \/ calls < MaxCalls /\ again' = TRUE /\ calls' = calls + 1
    BY <1>3 DEF Monitor
  <2>3. MonitorTyped' /\ gone' = 0 /\ flushed' = 0 /\ refused' = 0
    BY <2>2, NoMonitorTypes
  <2>4. BufferTyped' /\ LinkTyped'
    BY <2>2 DEF Typed, BufferTyped, LinkTyped, buffer_vars, link_vars
  <2>5. HistoryTyped'
    <3>1. again' \in BOOLEAN
      BY <2>2 DEF Typed, HistoryTyped
    <3> QED BY <2>2, <2>3, <3>1, NumberTypes DEF Typed, HistoryTyped, start_vars
  <2>6. DevTyped'
    <3>0. /\ UNCHANGED <<dev, dev_test, run, to_device>> /\ DevTyped
          /\ calls \in Nat /\ run \in Nat /\ to_device \in Seq(Commands)
      BY <2>2 DEF Typed, DevTyped, LinkTyped, link_vars, device_vars
    <3>1. CASE UNCHANGED calls
      BY <3>0, <3>1 DEF DevTyped
    <3>2. CASE calls < MaxCalls /\ calls' = calls + 1
      <4>1. Counts(to_device, run, calls + 1)
        <5>1. \A g \in [0..Len(to_device) -> Int], i \in 0..Len(to_device) :
                 g[i] <= calls => g[i] <= calls + 1
          BY <3>0
        <5> QED BY <3>0, <5>1 DEF DevTyped, Counts
      <4>2. calls' \in 0..MaxCalls
        BY <3>0, <3>2, NumberTypes
      <4> QED BY <3>0, <3>2, <4>1, <4>2 DEF DevTyped
    <3> QED BY <2>2, <3>1, <3>2
  <2> QED BY <2>1, <2>3, <2>4, <2>5, <2>6 DEF Typed
<1>4. CASE Reopen
  <2>1. /\ handle' = "open" /\ started' = None /\ misled' \in BOOLEAN /\ NoMonitor
        /\ line_buf' \in {<<>>, line_buf} /\ leftover' = Len(line_buf')
        /\ UNCHANGED <<call_vars, port, to_device, wire, device_vars, bound_vars>>
    BY <1>4 DEF Reopen
  <2>2. MonitorTyped' /\ gone' = 0 /\ flushed' = 0 /\ refused' = 0
    BY <2>1, NoMonitorTypes
  <2>3. BufferTyped'
    <3>1. line_buf' \in Seq(Sound)
      <4>1. <<>> \in Seq(Sound) /\ line_buf \in Seq(Sound)
        BY DEF Typed, BufferTyped
      <4> QED BY <2>1, <4>1
    <3> QED BY <2>1, <3>1 DEF BufferTyped
  <2>4. CallTyped' /\ LinkTyped' /\ DevTyped'
    BY <2>1 DEF Typed, CallTyped, LinkTyped, DevTyped, call_vars, device_vars, bound_vars
  <2>5. HistoryTyped'
    BY <2>1, <2>2, NumberTypes DEF Typed, HistoryTyped, bound_vars
  <2> QED BY <2>2, <2>3, <2>4, <2>5 DEF Typed
<1> QED BY <1>1, <1>2, <1>3, <1>4 DEF Caller

LEMMA TickTyped ==
    ASSUME Typed, Tick
    PROVE  Typed'
<1>1. /\ clock' = clock + 1 /\ gone' \in {gone, gone + 1}
      /\ \/ UNCHANGED flushed
         \/ flushed < MaxFlush /\ flushed' = flushed + 1
      /\ UNCHANGED <<call, at, test_id, due, buffer_vars, monitor_vars, link_vars, device_vars,
                     start_vars, refused, bound_vars>>
  BY DEF Tick
<1>2. CallTyped' /\ HistoryTyped'
  BY <1>1, NumberTypes DEF Typed, CallTyped, HistoryTyped, start_vars, bound_vars
<1>3. BufferTyped' /\ MonitorTyped' /\ LinkTyped' /\ DevTyped'
  BY <1>1 DEF Typed, BufferTyped, MonitorTyped, LinkTyped, DevTyped, buffer_vars, monitor_vars,
         link_vars, device_vars, bound_vars
<1> QED BY <1>2, <1>3 DEF Typed

LEMMA StutterTyped ==
    ASSUME Typed, UNCHANGED vars
    PROVE  Typed'
BY DEF Typed, CallTyped, BufferTyped, MonitorTyped, LinkTyped, DevTyped, HistoryTyped, vars, call_vars,
       buffer_vars, monitor_vars, link_vars, device_vars, start_vars, fault_vars, bound_vars

LEMMA NextTyped ==
    ASSUME Typed, CallInv, [Next]_vars
    PROVE  Typed'
BY DeviceTyped, HostTyped, FlushedTyped, CallerTyped, TickTyped, StutterTyped DEF Next

-----------------------------------------------------------------------------
(* Where the host stands, and the connection.                              *)

LEMMA OutcomeFields ==
    ASSUME NEW o \in Outcomes
    PROVE  /\ \A x : [o EXCEPT !.status = x].stopped = o.stopped
           /\ \A x : [o EXCEPT !.status = x].warnings = o.warnings
           /\ \A x : [o EXCEPT !.status = x].status = x
           /\ \A x : [o EXCEPT !.stopped = x].stopped = x
           /\ \A x : [o EXCEPT !.stopped = x].warnings = o.warnings
           /\ \A x : [o EXCEPT !.stopped = x].status = o.status
           /\ \A x, w : [o EXCEPT !.status = x, !.warnings = @ \cup {w}].stopped = o.stopped
           /\ \A x, w : [o EXCEPT !.status = x, !.warnings = @ \cup {w}].warnings
                           = o.warnings \cup {w}
           /\ \A x, w : [o EXCEPT !.sleep_actual_s = x, !.warnings = @ \cup w].stopped = o.stopped
           /\ \A x, w : [o EXCEPT !.sleep_actual_s = x, !.warnings = @ \cup w].status = o.status
           /\ \A x, w : [o EXCEPT !.sleep_actual_s = x, !.warnings = @ \cup w].warnings
                           = o.warnings \cup w
BY DEF Outcomes

LEMMA NoOutcomeFields ==
    /\ NoOutcome.status = "ok" /\ NoOutcome.warnings = {} /\ NoOutcome.stopped = None
BY DEF NoOutcome

LEMMA DeviceCall ==
    ASSUME CallInv, LinkInv, Device
    PROVE  CallInv' /\ LinkInv'
<1>2. UNCHANGED <<call_vars, monitor_vars, start_vars>>
  BY DEF Device, DeviceIdle, DeviceText, DeviceSleepMarker, DeviceAcked, DeviceSleep, DeviceWake,
         DeviceHandshake, DeviceStop, DeviceDrop, PortBack
<1>3. handle' = handle \/ (handle = "open" /\ handle' = "dead")
  <2>1. DeviceSleep \/ (\E next \in {"idle", dev}, back \in BOOLEAN : DeviceDrop(next, back)) => PortLost
    BY DEF DeviceSleep, DeviceDrop
  <2>2. PortLost => handle' = handle \/ (handle = "open" /\ handle' = "dead")
    BY DEF PortLost
  <2>3. DeviceIdle => UNCHANGED handle
    BY DEF DeviceIdle, Emit
  <2>4. DeviceText \/ (\E d \in Durations : DeviceSleepMarker(d)) \/ DeviceStop => UNCHANGED handle
    BY DEF DeviceText, DeviceSleepMarker, DeviceStop, Emit
  <2>5. DeviceAcked \/ DeviceWake \/ DeviceHandshake \/ PortBack => UNCHANGED handle
    BY DEF DeviceAcked, DeviceWake, DeviceHandshake, PortBack
  <2> QED BY <2>1, <2>2, <2>3, <2>4, <2>5 DEF Device
<1>4. CallInv'
  BY <1>2, <1>3 DEF CallInv, call_vars, monitor_vars, start_vars
<1>5. LinkInv'
  <2>1. CASE PortLost /\ (port' \/ ~port')
    BY <1>3, <2>1 DEF LinkInv, PortLost
  <2>2. CASE /\ UNCHANGED handle /\ (port => port') /\ (handle # "open" => wire' = wire)
             /\ (to_device = <<>> => to_device' = <<>>)
    BY <2>2 DEF LinkInv
  <2>3. CASE DeviceIdle
    BY <2>2, <2>3 DEF DeviceIdle, Emit
  <2>4. CASE DeviceText
    BY <2>2, <2>4 DEF DeviceText, Emit
  <2>5. CASE \E d \in Durations : DeviceSleepMarker(d)
    BY <2>2, <2>5 DEF DeviceSleepMarker, Emit
  <2>6. CASE DeviceAcked
    BY <2>2, <2>6 DEF DeviceAcked
  <2>7. CASE DeviceSleep
    BY <2>1, <2>7 DEF DeviceSleep
  <2>8. CASE DeviceWake
    BY <2>2, <2>8 DEF DeviceWake
  <2>9. CASE DeviceHandshake
    BY <2>2, <2>9 DEF DeviceHandshake
  <2>10. CASE DeviceStop
    BY <2>2, <2>10 DEF DeviceStop, Emit
  <2>11. CASE \E next \in {"idle", dev}, back \in BOOLEAN : DeviceDrop(next, back)
    BY <2>1, <2>11 DEF DeviceDrop
  <2>12. CASE PortBack
    BY <2>2, <2>12 DEF PortBack
  <2> QED BY <2>3, <2>4, <2>5, <2>6, <2>7, <2>8, <2>9, <2>10, <2>11, <2>12 DEF Device
<1> QED BY <1>4, <1>5

LEMMA OnLineCall ==
    ASSUME Typed, CallInv, NEW words, OnLine(words), at = "reading"
    PROVE  /\ CallInv'
           /\ handle' = handle
           /\ handle = "dead" => to_device' = to_device
<1>0. outcome \in Outcomes /\ (call = "monitor" => ~sleeping)
  BY DEF Typed, MonitorTyped, CallInv
<1>1. CASE DiscoverLine(words)
  BY <1>1 DEF DiscoverLine, Return, LoopAgain, monitor_vars, start_vars, CallInv
<1>2. CASE StartLine(words)
  BY <1>2 DEF StartLine, Return, LoopAgain, monitor_vars, start_vars, CallInv
<1>3. CASE MonitorLine(words)
  <2>0. /\ call = "monitor" /\ UNCHANGED <<sleeping, sleep_confirmed, started, handle>>
        /\ outcome.stopped = None /\ outcome.warnings \subseteq {"premature", "late"} /\ ~sleep_confirmed
    BY <1>0, <1>3 DEF MonitorLine, start_vars, CallInv
  <2>1. CASE /\ outcome' = [outcome EXCEPT !.status = words[1].arg]
             /\ LoopAgain
             /\ UNCHANGED <<sleep_start_time, to_device>>
    <3>1. outcome'.stopped = outcome.stopped /\ outcome'.warnings = outcome.warnings
      BY <1>0, <2>1, OutcomeFields
    <3> QED BY <1>0, <2>0, <2>1, <3>1 DEF LoopAgain, CallInv
  <2>2. CASE /\ sleep_start_time' = clock /\ Write(ACK)
             /\ at' = "acking" /\ UNCHANGED <<call, clock, outcome>>
    <3>1. sleep_start_time' <= clock'
      BY <2>2 DEF Typed, CallTyped
    <3> QED BY <1>0, <2>0, <2>2, <3>1 DEF CallInv, Write, Writable
  <2>3. CASE /\ outcome' = [outcome EXCEPT !.stopped = words[1].run]
             /\ Return
             /\ UNCHANGED <<sleep_start_time, to_device>>
    <3>1. outcome'.warnings = outcome.warnings
      BY <1>0, <2>3, OutcomeFields
    <3> QED BY <1>0, <2>0, <2>3, <3>1 DEF Return, CallInv
  <2>4. CASE LoopAgain /\ UNCHANGED <<outcome, sleep_start_time, to_device>>
    BY <1>0, <2>0, <2>4 DEF LoopAgain, CallInv
  <2> QED BY <1>3, <2>1, <2>2, <2>3, <2>4 DEF MonitorLine
<1> QED BY <1>1, <1>2, <1>3 DEF OnLine

LEMMA KeptCall ==
    ASSUME CallInv, at = "reading", LoopAgain \/ UNCHANGED call_vars,
           UNCHANGED <<monitor_vars, handle, start_vars>>
    PROVE  CallInv'
BY DEF CallInv, LoopAgain, call_vars, monitor_vars, start_vars

LEMMA FailCall ==
    ASSUME Typed, CallInv, call = "monitor", NEW s, NEW w, Fail(s, w),
           UNCHANGED <<sleeping, sleep_confirmed, start_vars>>
    PROVE  CallInv'
<1>1. outcome'.stopped = outcome.stopped
  BY OutcomeFields DEF Typed, MonitorTyped, Fail
<1> QED BY <1>1 DEF CallInv, Fail, Return, start_vars

LEMMA FlushedCall ==
    ASSUME Typed, CallInv, LinkInv, Flushed
    PROVE  CallInv' /\ LinkInv'
<1>1. CASE CommandWritten
  BY <1>1 DEF CommandWritten, Environment, LoopAgain, Return, CallInv, LinkInv, monitor_vars, link_vars,
              start_vars
<1>2. CASE AckWritten
  BY <1>2 DEF AckWritten, LoopAgain, CallInv, LinkInv, start_vars
<1>3. CASE SohWritten
  BY <1>3 DEF SohWritten, Retry, LoopAgain, Unmonitored, link_vars, start_vars, CallInv, LinkInv
<1> QED BY <1>1, <1>2, <1>3 DEF Flushed

LEMMA HostCall ==
    ASSUME Typed, CallInv, LinkInv, Host
    PROVE  CallInv'
<1> USE NumberTypes
<1>1. CASE \E n \in 1..Len(wire) : ReadData(n)
  <2>1. PICK n \in 1..Len(wire) : ReadData(n)
    BY <1>1
  <2>2. at = "reading" /\ (KeepReading \/ \E words : OnLine(words))
    BY <2>1 DEF ReadData
  <2> QED BY <2>2, OnLineCall, KeptCall DEF KeepReading
<1>2. CASE ReadBuffered
  <2>1. /\ at = "reading"
        /\ \/ LoopAgain /\ UNCHANGED <<monitor_vars, handle, to_device, start_vars>>
           \/ \E words : OnLine(words)
    BY <1>2 DEF ReadBuffered
  <2> QED BY <2>1, OnLineCall, KeptCall
<1>3. CASE ReadTimesOut
  BY <1>3, KeptCall DEF ReadTimesOut, link_vars
<1>4. CASE CallTop
  BY <1>4 DEF CallTop, Environment, StartReading, Return, CallInv, monitor_vars, start_vars
<1>5. CASE MonitorReads
  BY <1>5 DEF MonitorReads, Environment, StartReading, CallInv, monitor_vars, start_vars
<1>6. CASE MonitorTimesOut
  BY <1>6, FailCall DEF MonitorTimesOut, Environment
<1>7. CASE MonitorPolls
  <2>1. CASE Fail("timeout", "no_wake")
    BY <1>7, <2>1, FailCall DEF MonitorPolls, Environment
  <2>2. CASE /\ at' = "polling" /\ due' = clock + PollDelay
             /\ UNCHANGED <<call, test_id, clock, outcome>>
    BY <1>7, <2>2 DEF MonitorPolls, MayPoll, Environment, link_vars, start_vars, CallInv
  <2> QED BY <1>7, <2>1, <2>2 DEF MonitorPolls
<1>8. CASE PolledBeforeSleep
  <2>0. call = "monitor" /\ sleeping
    BY <1>8 DEF PolledBeforeSleep, CallInv
  <2>1. CASE Fail("error", "no_sleep") /\ UNCHANGED sleep_confirmed
    BY <1>8, <2>0, <2>1, FailCall DEF PolledBeforeSleep, Environment
  <2>2. CASE LoopAgain /\ UNCHANGED outcome
    BY <1>8, <2>0, <2>2 DEF PolledBeforeSleep, LoopAgain, Environment, link_vars, start_vars, CallInv
  <2> QED BY <1>8, <2>1, <2>2 DEF PolledBeforeSleep
<1>9. CASE PolledAsleep
  BY <1>9 DEF PolledAsleep, LoopAgain, Environment, monitor_vars, link_vars, start_vars, CallInv
<1>10. CASE PolledAwake
  <2>1. WakeWarnings(clock - sleep_start_time) \subseteq {"premature", "late"}
    BY DEF WakeWarnings
  <2>2. outcome' = [outcome EXCEPT !.sleep_actual_s = clock - sleep_start_time,
                                   !.warnings = @ \cup WakeWarnings(clock - sleep_start_time)]
    BY <1>10 DEF PolledAwake
  <2>3. /\ outcome'.stopped = outcome.stopped
        /\ outcome'.warnings = outcome.warnings \cup WakeWarnings(clock - sleep_start_time)
    BY <2>2, OutcomeFields DEF Typed, MonitorTyped
  <2>4. /\ at = "polling" /\ at' = "connecting"
        /\ UNCHANGED <<call, clock, sleeping, sleep_confirmed, sleep_start_time, start_vars>>
    BY <1>10 DEF PolledAwake, Attempt
  <2> QED BY <2>1, <2>3, <2>4 DEF start_vars, CallInv
<1>11. CASE Connect \/ ConnectFails
  BY <1>11 DEF Connect, ConnectFails, Retry, monitor_vars, link_vars, start_vars, CallInv
<1>12. CASE Flushed
  BY <1>12, FlushedCall
<1>13. CASE NextAttempt
  BY <1>13 DEF NextAttempt, Attempt, Unmonitored, Environment, start_vars, CallInv
<1>14. CASE ReconnectFails
  <2>0. call = "monitor" /\ sleeping
    BY <1>14 DEF ReconnectFails, CallInv
  <2> QED BY <1>14, <2>0, FailCall DEF ReconnectFails, Environment
<1> QED BY <1>1, <1>2, <1>3, <1>4, <1>5, <1>6, <1>7, <1>8, <1>9, <1>10, <1>11, <1>12, <1>13, <1>14 DEF Host

LEMMA HostLink ==
    ASSUME Typed, LinkInv, CallInv, Host
    PROVE  LinkInv'
<1>1. CASE \E n \in 1..Len(wire) : ReadData(n)
  <2>1. PICK n \in 1..Len(wire) : ReadData(n)
    BY <1>1
  <2>2. /\ at = "reading" /\ handle = "open" /\ UNCHANGED port
        /\ KeepReading \/ \E words : OnLine(words)
    BY <2>1 DEF ReadData
  <2>3. handle' = handle
    BY <2>2, OnLineCall DEF KeepReading
  <2> QED BY <2>2, <2>3 DEF LinkInv
<1>2. CASE ReadBuffered
  <2>1. /\ at = "reading" /\ UNCHANGED <<port, wire>> /\ (handle = "open" => wire = <<>>)
        /\ \/ UNCHANGED <<handle, to_device>>
           \/ \E words : OnLine(words)
    BY <1>2 DEF ReadBuffered
  <2>2. handle' = handle /\ (handle = "dead" => to_device' = to_device)
    BY <2>1, OnLineCall
  <2> QED BY <2>1, <2>2 DEF LinkInv
<1>3. CASE UNCHANGED <<handle, port, to_device, wire>>
  BY <1>3 DEF LinkInv
<1>4. CASE ReadTimesOut \/ CallTop \/ MonitorTimesOut \/ MonitorReads \/ MonitorPolls
           \/ PolledBeforeSleep \/ PolledAsleep \/ ConnectFails \/ NextAttempt \/ ReconnectFails
  BY <1>3, <1>4 DEF ReadTimesOut, ConnectFails, CallTop, MonitorTimesOut, MonitorReads, MonitorPolls, PolledBeforeSleep,
       PolledAsleep, NextAttempt, ReconnectFails, Environment, link_vars
<1>5. CASE PolledAwake
  <2>1. handle = "closed" /\ handle' = "closed" /\ UNCHANGED <<port, wire, to_device>>
    BY <1>5 DEF PolledAwake, CallInv
  <2> QED BY <2>1 DEF LinkInv
<1>6. CASE Connect
  BY <1>6 DEF Connect, HandleAfterConnect, LinkInv
<1>7. CASE Flushed
  BY <1>7, FlushedCall
<1> QED BY <1>1, <1>2, <1>4, <1>5, <1>6, <1>7 DEF Host

LEMMA CallerCall ==
    ASSUME Typed, CallInv, LinkInv, Caller
    PROVE  CallInv' /\ LinkInv'
<1>1. CASE \E c : /\ Command(c)
                  /\ \/ Begin("discover", "commanding", None)
                     \/ \E t \in Tests : Begin("start", "commanding", t)
  <2>1. PICK c : /\ Command(c)
                 /\ \/ Begin("discover", "commanding", None)
                    \/ \E t \in Tests : Begin("start", "commanding", t)
    BY <1>1
  <2>2. /\ call = "none" /\ call' \in {"discover", "start"} /\ at' = "commanding" /\ UNCHANGED clock
        /\ NoMonitor /\ started' = None /\ UNCHANGED <<handle, port, wire>> /\ handle = "open"
    BY <2>1 DEF Command, Begin, Writable
  <2>3. CallInv'
    BY <2>2, NoOutcomeFields DEF NoMonitor, CallInv
  <2>4. LinkInv'
    BY <2>2 DEF LinkInv
  <2> QED BY <2>3, <2>4
<1>2. CASE Monitor
  <2>1. /\ call = "none" /\ call' = "monitor" /\ at' = "top"
        /\ UNCHANGED <<clock, link_vars, start_vars>>
        /\ NoMonitor /\ started # None
    BY <1>2 DEF Monitor, Begin
  <2>2. CallInv'
    BY <2>1, NoOutcomeFields DEF NoMonitor, CallInv, start_vars
  <2>3. LinkInv'
    BY <2>1 DEF LinkInv, link_vars
  <2> QED BY <2>2, <2>3
<1>3. CASE Reopen
  <2>1. /\ call = "none" /\ call' = "none" /\ UNCHANGED <<at, clock, port>>
        /\ NoMonitor /\ port /\ handle' = "open"
    BY <1>3 DEF Reopen, call_vars
  <2>2. CallInv'
    BY <2>1, NoOutcomeFields DEF NoMonitor, CallInv
  <2>3. LinkInv'
    BY <2>1 DEF LinkInv
  <2> QED BY <2>2, <2>3
<1> QED BY <1>1, <1>2, <1>3 DEF Caller, Discover, StartTest

LEMMA TickCall ==
    ASSUME Typed, CallInv, LinkInv, Tick
    PROVE  CallInv' /\ LinkInv'
<1>1. /\ clock' = clock + 1 /\ clock \in Nat /\ sleep_start_time \in Nat /\ at # "top"
      /\ UNCHANGED <<call, at, monitor_vars, link_vars, start_vars>>
  BY DEF Tick, Waiting, Flushing, Typed, CallTyped, MonitorTyped
<1> QED BY <1>1 DEF CallInv, LinkInv, monitor_vars, link_vars, start_vars

Basic == Typed /\ CallInv /\ LinkInv

LEMMA NextBasic ==
    ASSUME Basic, [Next]_vars
    PROVE  Basic'
<1>1. Typed'
  BY NextTyped DEF Basic
<1>2. CASE UNCHANGED vars
  BY <1>1, <1>2 DEF Basic, CallInv, LinkInv, vars, call_vars, monitor_vars, link_vars, start_vars
<1>3. CASE Next
  BY <1>1, <1>3, DeviceCall, HostCall, HostLink, FlushedCall, CallerCall, TickCall DEF Basic, Next
<1> QED BY <1>2, <1>3

\* Every variable has its type: the words of every line among them, and the run
\* that start_test saw start is one of those begun.
THEOREM TypeCorrect == Spec => []TypeOK
<1>1. Init => Basic
  BY InitTyped DEF Basic
<1>2. Basic /\ [Next]_vars => Basic'
  BY NextBasic
<1>3. Basic => TypeOK
  BY TypedTypeOK DEF Basic
<1> QED BY <1>1, <1>2, <1>3, PTL DEF Spec

-----------------------------------------------------------------------------
(* Time.                                                                   *)

\* How long the first a attempts to reconnect may last, without their flush().
PerAttempt == ConnectTime + RetryWait
Delay(a) == a * PerAttempt

LEMMA DelayFacts ==
    /\ \A a \in Nat : Delay(a) \in Nat /\ Delay(a + 1) = Delay(a) + PerAttempt
    /\ \A a, b \in Nat : a <= b => Delay(a) <= Delay(b)
    /\ Delay(0) = 0
    /\ PerAttempt = ConnectTime + RetryWait
<1>0. PerAttempt \in Nat
  BY NumberTypes DEF PerAttempt
<1>1. \A a \in Nat : a * PerAttempt \in Nat /\ (a + 1) * PerAttempt = a * PerAttempt + PerAttempt
  BY <1>0
<1>2. ASSUME NEW a \in Nat, NEW b \in Nat, a <= b PROVE a * PerAttempt <= b * PerAttempt
  <2>1. b - a \in Nat /\ b = a + (b - a)
    BY <1>2
  <2>2. \A c \in Nat : c * PerAttempt >= 0 /\ (a + c) * PerAttempt = a * PerAttempt + c * PerAttempt
    BY <1>0
  <2>3. /\ (b - a) * PerAttempt >= 0
        /\ (a + (b - a)) * PerAttempt = a * PerAttempt + (b - a) * PerAttempt
    BY <2>1, <2>2
  <2>4. a * PerAttempt \in Nat /\ b * PerAttempt \in Nat /\ (b - a) * PerAttempt \in Nat
    BY <1>1, <2>1
  <2>5. b * PerAttempt = a * PerAttempt + (b - a) * PerAttempt
    BY <2>1, <2>3
  <2> QED BY <2>3, <2>4, <2>5
<1>3. 0 * PerAttempt = 0
  BY <1>0
<1> QED BY <1>1, <1>2, <1>3 DEF Delay, PerAttempt

Attempting == at \in {"connecting", "greeting", "retrying"}

\* What a call of monitor may last: the last read, or the last poll and a attempts.
ReadEnd == MonitorTimeout - 1 + ReadTimeout - 1 + ReadTime
AttemptsEnd(a) == MonitorTimeout - 1 + PollInterval + Delay(a)

TimeInv ==
    /\ at = "reading" => clock <= due - 1 + ReadTime
    /\ at \in {"polling", "connecting", "retrying"} => clock <= due
    /\ call = "monitor" /\ at = "reading" => due <= MonitorTimeout - 1 + ReadTimeout
    /\ at = "polling" => due <= MonitorTimeout - 1 + PollInterval /\ due <= clock + PollInterval
    /\ Attempting => attempt >= 1
    /\ at = "connecting" => due <= AttemptsEnd(attempt - 1) + ConnectTime + flushed
    /\ at = "greeting" => clock <= AttemptsEnd(attempt - 1) + ConnectTime + flushed
    /\ at = "retrying" => due <= AttemptsEnd(attempt) + flushed
    /\ call = "monitor" =>
          clock <= ReadEnd + flushed \/ clock <= AttemptsEnd(MaxAttempts) + flushed

LEMMA ClockTypes ==
    ASSUME Basic
    PROVE  /\ clock \in Nat /\ due \in Nat /\ attempt \in 0..MaxAttempts /\ flushed \in Nat
           /\ PollInterval \in Nat \ {0} /\ ReadTimeout \in Nat \ {0} /\ RetryWait \in Nat \ {0}
           /\ MonitorTimeout \in Nat \ {0} /\ ReadTime \in Nat \ {0} /\ ConnectTime \in Nat \ {0}
           /\ ReadEnd \in Nat /\ ReadEnd = MonitorTimeout - 1 + ReadTimeout - 1 + ReadTime
           /\ AttemptsEnd(attempt) \in Nat /\ AttemptsEnd(MaxAttempts) \in Nat
           /\ AttemptsEnd(attempt) <= AttemptsEnd(MaxAttempts)
           /\ attempt >= 1 => /\ AttemptsEnd(attempt - 1) \in Nat
                              /\ AttemptsEnd(attempt)
                                    = AttemptsEnd(attempt - 1) + ConnectTime + RetryWait
           /\ AttemptsEnd(0) = MonitorTimeout - 1 + PollInterval
<1>1. /\ clock \in Nat /\ due \in Nat /\ attempt \in 0..MaxAttempts /\ MaxAttempts \in Nat
      /\ PollInterval \in Nat \ {0} /\ ReadTimeout \in Nat \ {0} /\ RetryWait \in Nat \ {0}
      /\ MonitorTimeout \in Nat \ {0} /\ ReadTime \in Nat \ {0} /\ ConnectTime \in Nat \ {0}
      /\ flushed \in Nat
  BY NumberTypes DEF Basic, Typed, CallTyped, MonitorTyped, HistoryTyped
<1>2. attempt >= 1 => attempt - 1 \in Nat /\ (attempt - 1) + 1 = attempt
  BY <1>1
<1>3. attempt \in Nat /\ attempt <= MaxAttempts
  BY <1>1
<1>4. /\ Delay(attempt) \in Nat /\ Delay(MaxAttempts) \in Nat /\ Delay(attempt) <= Delay(MaxAttempts)
      /\ attempt >= 1 => /\ Delay(attempt - 1) \in Nat
                         /\ Delay(attempt) = Delay(attempt - 1) + (ConnectTime + RetryWait)
      /\ Delay(0) = 0
  BY <1>1, <1>2, <1>3, DelayFacts
<1>5. ReadEnd \in Nat
  BY <1>1 DEF ReadEnd
<1> QED BY <1>1, <1>4, <1>5 DEF AttemptsEnd, ReadEnd

\* The steps of a call that take no time, by where they lead.
LEMMA TimeKept ==
    ASSUME Basic, Basic', TimeInv,
           \/ Return
           \/ /\ at' \in {"top", "acking"} /\ UNCHANGED <<call, clock, flushed>>
           \/ StartReading /\ (call = "monitor" => clock < MonitorTimeout) /\ UNCHANGED flushed
           \/ UNCHANGED <<call_vars, attempt, flushed>>
           \/ call = "none" /\ at' \in {"top", "commanding"} /\ UNCHANGED <<clock, due>>
    PROVE  TimeInv'
<1>0. flushed' \in Nat
  BY NumberTypes DEF Basic, Typed, HistoryTyped
<1>1. CASE Return
  BY <1>1 DEF Return, TimeInv, Attempting
<1>2. CASE at' \in {"top", "acking"} /\ UNCHANGED <<call, clock, flushed>>
  BY <1>2 DEF TimeInv, Attempting, ReadEnd, AttemptsEnd, Delay, PerAttempt
<1>3. CASE StartReading /\ (call = "monitor" => clock < MonitorTimeout) /\ UNCHANGED flushed
  <2>1. /\ at' = "reading" /\ due' = clock + ReadTimeout /\ UNCHANGED <<call, clock, flushed>>
    BY <1>3 DEF StartReading
  <2>2. clock' <= due' - 1 + ReadTime
    BY <2>1, ClockTypes
  <2>3. call' = "monitor" => due' <= MonitorTimeout - 1 + ReadTimeout /\ clock' <= ReadEnd + flushed'
    BY <1>3, <2>1, ClockTypes
  <2> QED BY <2>1, <2>2, <2>3 DEF TimeInv, Attempting
<1>4. CASE UNCHANGED <<call_vars, attempt, flushed>>
  BY <1>4 DEF call_vars, TimeInv, Attempting, ReadEnd, AttemptsEnd, Delay, PerAttempt
<1>5. CASE call = "none" /\ at' \in {"top", "commanding"} /\ UNCHANGED <<clock, due>>
  <2>1. clock' = 0
    BY <1>5 DEF Basic, CallInv
  <2>2. clock' <= ReadEnd + flushed'
    BY <1>0, <2>1, ClockTypes
  <2> QED BY <1>5, <2>2 DEF TimeInv, Attempting
<1> QED BY <1>1, <1>2, <1>3, <1>4, <1>5

LEMMA FlushedTime ==
    ASSUME Basic, Basic', TimeInv, Flushed
    PROVE  TimeInv'
<1>1. CASE CommandWritten
  <2>1. UNCHANGED flushed /\ (LoopAgain \/ Return)
    BY <1>1 DEF CommandWritten, Environment, fault_vars
  <2> QED BY <2>1, TimeKept DEF LoopAgain
<1>2. CASE AckWritten
  BY <1>2, TimeKept DEF AckWritten, LoopAgain, fault_vars
<1>3. CASE SohWritten
  <2>1. at = "greeting" /\ UNCHANGED <<attempt, flushed>>
    BY <1>3 DEF SohWritten
  <2>2. CASE LoopAgain
    BY <2>1, <2>2, TimeKept DEF LoopAgain
  <2>3. CASE Retry
    <3>1. /\ at' = "retrying" /\ due' = clock + RetryWait /\ UNCHANGED <<call, clock, attempt, flushed>>
          /\ attempt >= 1 /\ clock <= AttemptsEnd(attempt - 1) + ConnectTime + flushed
      BY <2>1, <2>3 DEF Retry, TimeInv, Attempting
    <3>2. due' <= AttemptsEnd(attempt) + flushed /\ clock' <= due'
      BY <3>1, ClockTypes
    <3>3. clock' <= AttemptsEnd(MaxAttempts) + flushed
      BY <3>1, ClockTypes
    <3> QED BY <3>1, <3>2, <3>3 DEF TimeInv, Attempting, AttemptsEnd, Delay, PerAttempt
  <2> QED BY <1>3, <2>2, <2>3 DEF SohWritten
<1> QED BY <1>1, <1>2, <1>3 DEF Flushed

LEMMA LineTime ==
    ASSUME NEW words, OnLine(words)
    PROVE  Return \/ (at' \in {"top", "acking"} /\ UNCHANGED <<call, clock>>)
<1>1. CASE DiscoverLine(words) \/ StartLine(words)
  BY <1>1 DEF DiscoverLine, StartLine, LoopAgain
<1>2. CASE MonitorLine(words)
  BY <1>2 DEF MonitorLine, LoopAgain
<1> QED BY <1>1, <1>2 DEF OnLine

LEMMA HostTime ==
    ASSUME Basic, Basic', TimeInv, Host
    PROVE  TimeInv'
<1>1. CASE (\E n \in 1..Len(wire) : ReadData(n)) \/ ReadBuffered
  <2>1. /\ UNCHANGED flushed
        /\ \/ KeepReading
           \/ LoopAgain
           \/ \E words : OnLine(words)
    BY <1>1 DEF ReadData, ReadBuffered, fault_vars
  <2>2. CASE KeepReading
    BY <2>1, <2>2, TimeKept DEF KeepReading, LoopAgain, monitor_vars
  <2>3. CASE LoopAgain
    BY <2>1, <2>3, TimeKept DEF LoopAgain
  <2>4. CASE \E words : OnLine(words)
    BY <2>1, <2>4, LineTime, TimeKept
  <2> QED BY <2>1, <2>2, <2>3, <2>4
<1>3. CASE ReadTimesOut \/ PolledAsleep
  BY <1>3, TimeKept DEF ReadTimesOut, PolledAsleep, LoopAgain, Environment, fault_vars
<1>4. CASE CallTop
  <2>1. UNCHANGED flushed /\ call # "monitor" /\ (StartReading \/ Return)
    BY <1>4 DEF CallTop, Environment, fault_vars
  <2> QED BY <2>1, TimeKept
<1>5. CASE MonitorReads
  <2>1. UNCHANGED flushed /\ clock < MonitorTimeout /\ StartReading
    BY <1>5 DEF MonitorReads, Environment, fault_vars
  <2> QED BY <2>1, TimeKept
<1>6. CASE MonitorTimesOut \/ ReconnectFails
  BY <1>6, TimeKept DEF MonitorTimesOut, ReconnectFails, Fail
<1>7. CASE MonitorPolls
  <2>0. /\ call = "monitor" /\ clock < MonitorTimeout /\ UNCHANGED <<attempt, flushed>>
    BY <1>7 DEF MonitorPolls, MayPoll, Environment, fault_vars
  <2>1. CASE Fail("timeout", "no_wake")
    BY <2>1, TimeKept DEF Fail
  <2>2. CASE at' = "polling" /\ due' = clock + PollDelay /\ UNCHANGED <<call, test_id, clock>>
    <3>1. /\ due' <= MonitorTimeout - 1 + PollInterval /\ due' <= clock' + PollInterval
          /\ clock' <= due' /\ clock' <= ReadEnd + flushed'
      BY <2>0, <2>2, ClockTypes DEF PollDelay
    <3> QED BY <2>0, <2>2, <3>1 DEF TimeInv, Attempting
  <2> QED BY <1>7, <2>1, <2>2 DEF MonitorPolls
<1>8. CASE PolledBeforeSleep
  BY <1>8, TimeKept DEF PolledBeforeSleep, Fail, LoopAgain, Environment, fault_vars
<1>9. CASE PolledAwake
  <2>1. /\ at = "polling" /\ clock = due /\ at' = "connecting" /\ attempt' = 1
        /\ due' = clock + ConnectTime /\ UNCHANGED <<call, clock, flushed>>
    BY <1>9 DEF PolledAwake, Attempt
  <2>2. attempt' - 1 = 0
    BY <2>1
  <2>3. /\ due' <= AttemptsEnd(attempt' - 1) + ConnectTime + flushed' /\ clock' <= due' /\ attempt' >= 1
    BY <2>1, <2>2, ClockTypes DEF TimeInv
  <2>4. call' = "monitor" => clock' <= ReadEnd + flushed' \/ clock' <= AttemptsEnd(MaxAttempts) + flushed'
    BY <2>1 DEF TimeInv, ReadEnd, AttemptsEnd, Delay, PerAttempt
  <2> QED BY <2>1, <2>3, <2>4 DEF TimeInv, Attempting, AttemptsEnd, Delay, PerAttempt
<1>10. CASE ConnectFails
  <2>1. /\ at = "connecting" /\ at' = "retrying" /\ due' = clock + RetryWait
        /\ UNCHANGED <<attempt, call, clock, flushed>>
    BY <1>10 DEF ConnectFails, Retry, monitor_vars
  <2>2. attempt >= 1 /\ clock <= AttemptsEnd(attempt - 1) + ConnectTime + flushed
    BY <2>1, ClockTypes DEF TimeInv, Attempting
  <2>3. due' <= AttemptsEnd(attempt) + flushed /\ clock' <= due'
    BY <2>1, <2>2, ClockTypes
  <2>4. clock' <= AttemptsEnd(MaxAttempts) + flushed
    BY <2>1, <2>2, ClockTypes
  <2> QED BY <2>1, <2>2, <2>3, <2>4 DEF TimeInv, Attempting, AttemptsEnd, Delay, PerAttempt
<1>13. CASE Connect
  <2>1. /\ at = "connecting" /\ at' = "greeting" /\ UNCHANGED <<attempt, call, clock, flushed>>
    BY <1>13 DEF Connect, monitor_vars, fault_vars
  <2>2. attempt >= 1 /\ clock <= AttemptsEnd(attempt - 1) + ConnectTime + flushed
    BY <2>1, ClockTypes DEF TimeInv, Attempting
  <2>4. clock' <= AttemptsEnd(MaxAttempts) + flushed
    BY <2>1, <2>2, ClockTypes
  <2> QED BY <2>1, <2>2, <2>4 DEF TimeInv, Attempting, AttemptsEnd, Delay, PerAttempt
<1>11. CASE Flushed
  BY <1>11, FlushedTime
<1>12. CASE NextAttempt
  <2>1. /\ at = "retrying" /\ at' = "connecting" /\ attempt' = attempt + 1 /\ clock = due
        /\ due' = clock + ConnectTime /\ UNCHANGED <<call, clock, flushed>>
    BY <1>12 DEF NextAttempt, Attempt, Environment, fault_vars
  <2>2. attempt' - 1 = attempt /\ attempt' >= 1
    BY <2>1, ClockTypes
  <2>3. due' <= AttemptsEnd(attempt' - 1) + ConnectTime + flushed' /\ clock' <= due'
    BY <2>1, <2>2, ClockTypes DEF TimeInv
  <2>4. clock' <= AttemptsEnd(MaxAttempts) + flushed'
    BY <2>1, ClockTypes DEF TimeInv
  <2> QED BY <2>1, <2>2, <2>3, <2>4 DEF TimeInv, Attempting, AttemptsEnd, Delay, PerAttempt
<1> QED BY <1>1, <1>3, <1>4, <1>5, <1>6, <1>7, <1>8, <1>9, <1>10, <1>11, <1>12, <1>13 DEF Host

LEMMA TickTime ==
    ASSUME Basic, TimeInv, Tick
    PROVE  TimeInv'
<1>0. clock' = clock + 1 /\ UNCHANGED <<call, at, due, attempt>>
  BY DEF Tick, monitor_vars
<1>1. at \in {"polling", "connecting", "greeting", "retrying"} => call = "monitor"
  BY DEF Basic, CallInv
<1>2. CASE Waiting /\ UNCHANGED flushed
  <2>1. CASE at = "reading" /\ (clock < due \/ clock < due - 1 + ReadTime)
    <3>1. clock' <= due' - 1 + ReadTime
      BY <1>0, <2>1, ClockTypes
    <3>2. call = "monitor" => clock' <= ReadEnd + flushed
      BY <1>0, <2>1, <3>1, ClockTypes DEF TimeInv
    <3> QED BY <1>0, <1>2, <2>1, <3>1, <3>2 DEF TimeInv, Attempting
  <2>2. CASE at \in {"polling", "connecting", "retrying"} /\ clock < due
    <3>1. clock' <= due' /\ due' = due
      BY <1>0, <2>2, ClockTypes
    <3>2. at = "polling" => due' <= clock' + PollInterval
      BY <1>0, ClockTypes DEF TimeInv
    <3>3. due <= AttemptsEnd(MaxAttempts) + flushed
      <4>1. CASE at = "polling"
        <5>1. AttemptsEnd(0) <= AttemptsEnd(MaxAttempts)
          BY NumberTypes, DelayFacts DEF AttemptsEnd
        <5> QED BY <4>1, <5>1, ClockTypes DEF TimeInv
      <4>2. CASE at \in {"connecting", "retrying"}
        BY <4>2, ClockTypes DEF TimeInv, Attempting
      <4> QED BY <2>2, <4>1, <4>2
    <3>4. clock' <= AttemptsEnd(MaxAttempts) + flushed
      BY <1>0, <2>2, <3>3, ClockTypes
    <3> QED BY <1>0, <1>2, <2>2, <3>1, <3>2, <3>4 DEF TimeInv, Attempting, AttemptsEnd, Delay, PerAttempt
  <2> QED BY <1>2, <2>1, <2>2 DEF Waiting
<1>3. CASE Flushing /\ flushed' = flushed + 1
  <2>1. at \in {"acking", "greeting"} /\ call = "monitor"
    BY <1>3 DEF Flushing
  <2>2. clock' <= ReadEnd + flushed' \/ clock' <= AttemptsEnd(MaxAttempts) + flushed'
    BY <1>0, <1>3, <2>1, ClockTypes DEF TimeInv
  <2>3. at = "greeting" => attempt >= 1 /\ clock' <= AttemptsEnd(attempt - 1) + ConnectTime + flushed'
    BY <1>0, <1>3, ClockTypes DEF TimeInv, Attempting
  <2> QED BY <1>0, <2>1, <2>2, <2>3 DEF TimeInv, Attempting, AttemptsEnd, Delay, PerAttempt
<1> QED BY <1>2, <1>3 DEF Tick

LEMMA NextTime ==
    ASSUME Basic, Basic', TimeInv, [Next]_vars
    PROVE  TimeInv'
<1>1. CASE Device
  <2>1. UNCHANGED <<call_vars, monitor_vars, flushed>>
    BY <1>1 DEF Device, DeviceIdle, DeviceText, DeviceSleepMarker, DeviceAcked, DeviceSleep, DeviceWake,
         DeviceHandshake, DeviceStop, DeviceDrop, PortBack, fault_vars
  <2> QED BY <2>1, TimeKept DEF monitor_vars
<1>2. CASE Caller
  <2>1. /\ call = "none" /\ at' \in {"top", "commanding"} /\ UNCHANGED <<clock, due>>
    BY <1>2 DEF Caller, Discover, StartTest, Monitor, Begin, Reopen, call_vars, Basic, CallInv
  <2> QED BY <2>1, TimeKept
<1>3. CASE UNCHANGED vars
  BY <1>3, TimeKept DEF vars, monitor_vars, fault_vars
<1> QED BY <1>1, <1>2, <1>3, HostTime, FlushedTime, TickTime DEF Next

\* Whatever the timeouts and intervals, and whatever the device does, monitor
\* overruns its timeout by one read, or by one poll and the reconnect attempts,
\* connecting included, and by what it waits in flush().
THEOREM OverrunIsBounded == Spec => []OverrunBounded
<1>1. Init => Basic /\ TimeInv
  <2> SUFFICES ASSUME Init PROVE Basic /\ TimeInv
    OBVIOUS
  <2>1. Basic
    BY InitTyped DEF Basic
  <2>2. at = "top" /\ call = "none"
    BY DEF Init
  <2> QED BY <2>1, <2>2 DEF TimeInv, Attempting
<1>2. Basic /\ TimeInv /\ [Next]_vars => (Basic /\ TimeInv)'
  BY NextBasic, NextTime
<1>3. TimeInv => OverrunBounded
  BY DEF TimeInv, OverrunBounded, ReadEnd, AttemptsEnd, Delay, PerAttempt
<1> QED BY <1>1, <1>2, <1>3, PTL DEF Spec

-----------------------------------------------------------------------------
(* The port gone and back.                                                 *)

GoneInv ==
    /\ Attempting => sleep_confirmed
    /\ call = "monitor" /\ ~sleeping => gone = 0
    /\ call = "monitor" /\ sleeping /\ ~sleep_confirmed =>
          /\ gone <= PollInterval
          /\ at = "top" /\ ~port => gone = 0
          /\ at = "polling" /\ ~port => gone <= clock + PollInterval - due
    /\ NoSleepMissed

LEMMA GoneTypes ==
    ASSUME Basic
    PROVE  /\ clock \in Nat /\ due \in Nat /\ gone \in Nat /\ PollInterval \in Nat \ {0}
           /\ outcome \in Outcomes
BY NumberTypes DEF Basic, Typed, CallTyped, HistoryTyped, MonitorTyped

LEMMA DeviceGone ==
    ASSUME Basic, TimeInv, GoneInv, Device
    PROVE  GoneInv'
<1>1. UNCHANGED <<call_vars, monitor_vars>>
  BY DEF Device, DeviceIdle, DeviceText, DeviceSleepMarker, DeviceAcked, DeviceSleep, DeviceWake,
       DeviceHandshake, DeviceStop, DeviceDrop, PortBack
<1>2. CASE gone' = gone /\ (port => port')
  BY <1>1, <1>2 DEF GoneInv, Attempting, NoSleepMissed, call_vars, monitor_vars
<1>3. CASE gone' = 0
  BY <1>1, <1>3, GoneTypes DEF GoneInv, Attempting, NoSleepMissed, TimeInv, call_vars, monitor_vars
<1>4. CASE DeviceIdle \/ DeviceText \/ (\E d \in Durations : DeviceSleepMarker(d)) \/ DeviceStop
  BY <1>2, <1>4 DEF DeviceIdle, DeviceText, DeviceSleepMarker, DeviceStop, Emit, fault_vars
<1>5. CASE DeviceAcked \/ DeviceWake \/ DeviceHandshake \/ PortBack
  BY <1>2, <1>5 DEF DeviceAcked, DeviceWake, DeviceHandshake, PortBack, fault_vars
<1>6. CASE \E next \in {"idle", dev}, back \in BOOLEAN : DeviceDrop(next, back)
  BY <1>2, <1>3, <1>6 DEF DeviceDrop
<1>7. CASE DeviceSleep
  BY <1>3, <1>7 DEF DeviceSleep
<1> QED BY <1>4, <1>5, <1>6, <1>7 DEF Device

\* A step that starts no poll, leaves monitor's locals alone and no trace of a sleep.
LEMMA GoneKept ==
    ASSUME Basic, GoneInv, UNCHANGED <<gone, port, sleeping, sleep_confirmed>>,
           call' \in {call, "none"}, at' \notin {"polling", "connecting", "greeting", "retrying"},
           at # "polling" \/ call' = "none" \/ sleep_confirmed \/ port,
           "no_sleep" \notin outcome'.warnings \/ outcome'.warnings = outcome.warnings
    PROVE  GoneInv'
<1>1. NoSleepMissed'
  BY GoneTypes DEF GoneInv, NoSleepMissed
<1>2. call = "monitor" /\ at \notin {"top", "polling"} /\ sleeping => Attempting
  BY DEF Basic, CallInv, Typed, CallTyped, Attempting
<1> QED BY <1>1, <1>2, GoneTypes DEF GoneInv, Attempting, Basic, CallInv

LEMMA FlushedGone ==
    ASSUME Basic, GoneInv, Flushed
    PROVE  GoneInv'
<1>1. CASE CommandWritten
  BY <1>1, GoneKept DEF CommandWritten, LoopAgain, Return, Environment, monitor_vars, link_vars, fault_vars
<1>2. CASE AckWritten
  <2>1. /\ sleeping' = TRUE /\ at' = "top" /\ UNCHANGED <<call, gone, sleep_confirmed, outcome>>
        /\ call = "monitor" /\ gone = 0
    BY <1>2 DEF AckWritten, LoopAgain, fault_vars, GoneInv, Basic, CallInv
  <2> QED BY <2>1, GoneTypes DEF GoneInv, Attempting, NoSleepMissed
<1>3. CASE SohWritten
  <2>0. at = "greeting" /\ UNCHANGED <<call, outcome, port>> /\ sleeping /\ call = "monitor"
    BY <1>3 DEF SohWritten, link_vars, LoopAgain, Retry, Basic, CallInv
  <2>1. CASE sleeping' = FALSE /\ sleep_confirmed' = FALSE /\ gone' = 0 /\ LoopAgain
    BY <2>0, <2>1, GoneTypes DEF LoopAgain, GoneInv, Attempting, NoSleepMissed
  <2>2. CASE Retry /\ UNCHANGED <<sleeping, sleep_confirmed, gone>>
    BY <2>0, <2>2 DEF Retry, GoneInv, Attempting, NoSleepMissed
  <2> QED BY <1>3, <2>1, <2>2 DEF SohWritten
<1> QED BY <1>1, <1>2, <1>3 DEF Flushed

LEMMA HostGone ==
    ASSUME Basic, TimeInv, GoneInv, Host
    PROVE  GoneInv'
<1>0. outcome \in Outcomes
  BY GoneTypes
<1>1. CASE (\E n \in 1..Len(wire) : ReadData(n)) \/ ReadBuffered
  <2>1. /\ UNCHANGED <<gone, port>> /\ at = "reading"
        /\ \/ KeepReading
           \/ LoopAgain /\ UNCHANGED monitor_vars
           \/ \E words : OnLine(words)
    BY <1>1 DEF ReadData, ReadBuffered, fault_vars
  <2>2. CASE KeepReading
    BY <2>1, <2>2, GoneKept DEF KeepReading, LoopAgain, call_vars, monitor_vars
  <2>3. CASE LoopAgain /\ UNCHANGED monitor_vars
    BY <2>1, <2>3, GoneKept DEF LoopAgain, monitor_vars
  <2>4. ASSUME NEW words, DiscoverLine(words) \/ StartLine(words) PROVE GoneInv'
    BY <2>1, <2>4, GoneKept DEF DiscoverLine, StartLine, LoopAgain, Return, monitor_vars
  <2>5. ASSUME NEW words, MonitorLine(words) PROVE GoneInv'
    <3>0. /\ UNCHANGED <<sleeping, sleep_confirmed>>
          /\ call = "monitor" /\ ~sleeping /\ gone = 0 /\ ~sleep_confirmed
      BY <2>1, <2>5 DEF MonitorLine, Basic, CallInv, GoneInv
    <3>1. CASE /\ outcome' = [outcome EXCEPT !.status = words[1].arg] /\ LoopAgain
      <4>1. outcome'.warnings = outcome.warnings
        BY <1>0, <3>1, OutcomeFields
      <4> QED BY <2>1, <3>0, <3>1, <4>1, GoneKept DEF LoopAgain
    <3>2. CASE at' = "acking" /\ UNCHANGED <<call, outcome>>
      BY <2>1, <3>0, <3>2, GoneKept
    <3>3. CASE /\ outcome' = [outcome EXCEPT !.stopped = words[1].run] /\ Return
      <4>1. outcome'.warnings = outcome.warnings
        BY <1>0, <3>3, OutcomeFields
      <4> QED BY <2>1, <3>0, <3>3, <4>1, GoneKept DEF Return
    <3>4. CASE LoopAgain /\ UNCHANGED outcome
      BY <2>1, <3>0, <3>4, GoneKept DEF LoopAgain
    <3> QED BY <2>5, <3>1, <3>2, <3>3, <3>4 DEF MonitorLine
  <2> QED BY <2>1, <2>2, <2>3, <2>4, <2>5 DEF OnLine
<1>2. CASE ReadTimesOut
  BY <1>2, GoneKept DEF ReadTimesOut, LoopAgain, monitor_vars, link_vars, fault_vars
<1>3. CASE CallTop
  BY <1>3, GoneKept DEF CallTop, StartReading, Return, Environment, monitor_vars, link_vars, fault_vars
<1>4. CASE MonitorReads
  BY <1>4, GoneKept DEF MonitorReads, StartReading, Environment, monitor_vars, link_vars, fault_vars
<1>5. CASE MonitorTimesOut
  <2>1. outcome'.warnings = outcome.warnings \cup {"incomplete"}
    BY <1>0, <1>5, OutcomeFields DEF MonitorTimesOut, Fail
  <2>2. "no_sleep" \notin outcome.warnings
    BY <1>5 DEF MonitorTimesOut, Basic, CallInv
  <2> QED BY <1>5, <2>1, <2>2, GoneKept DEF MonitorTimesOut, Fail, Return, Environment, link_vars, fault_vars
<1>6. CASE MonitorPolls
  <2>0. UNCHANGED <<gone, port, sleeping, sleep_confirmed>> /\ call = "monitor" /\ at = "top" /\ sleeping
    BY <1>6 DEF MonitorPolls, MayPoll, Environment, link_vars, fault_vars
  <2>1. CASE Fail("timeout", "no_wake")
    <3>1. outcome'.warnings = outcome.warnings \cup {"no_wake"}
      BY <1>0, <2>1, OutcomeFields DEF Fail
    <3>2. "no_sleep" \notin outcome.warnings
      BY <2>0 DEF Basic, CallInv
    <3> QED BY <2>0, <2>1, <3>1, <3>2, GoneKept DEF Fail, Return
  <2>2. CASE at' = "polling" /\ due' = clock + PollDelay /\ UNCHANGED <<call, clock, outcome>>
    BY <2>0, <2>2, GoneTypes DEF PollDelay, GoneInv, Attempting, NoSleepMissed
  <2> QED BY <1>6, <2>1, <2>2 DEF MonitorPolls
<1>7. CASE PolledBeforeSleep
  <2>0. /\ UNCHANGED <<gone, port, sleeping>> /\ at = "polling" /\ ~sleep_confirmed
        /\ call = "monitor" /\ sleeping
    BY <1>7 DEF PolledBeforeSleep, Environment, link_vars, fault_vars, Basic, CallInv
  <2>1. CASE sleep_confirmed' = TRUE /\ LoopAgain /\ UNCHANGED outcome
    BY <2>0, <2>1 DEF LoopAgain, GoneInv, Attempting, NoSleepMissed
  <2>2. CASE port /\ UNCHANGED sleep_confirmed /\ Fail("error", "no_sleep")
    BY <2>0, <2>2, GoneTypes DEF Fail, Return, GoneInv, Attempting, NoSleepMissed
  <2>3. CASE port /\ UNCHANGED sleep_confirmed /\ LoopAgain /\ UNCHANGED outcome
    BY <2>0, <2>3, GoneKept DEF LoopAgain
  <2> QED BY <1>7, <2>1, <2>2, <2>3 DEF PolledBeforeSleep, CheckSleepState
<1>8. CASE PolledAsleep
  BY <1>8, GoneKept DEF PolledAsleep, LoopAgain, Environment, monitor_vars, link_vars, fault_vars
<1>9. CASE PolledAwake
  <2>0. /\ sleep_confirmed /\ UNCHANGED <<gone, sleeping, sleep_confirmed, call>>
        /\ at = "polling" /\ at' = "connecting"
        /\ outcome' = [outcome EXCEPT !.sleep_actual_s = clock - sleep_start_time,
                                      !.warnings = @ \cup WakeWarnings(clock - sleep_start_time)]
    BY <1>9 DEF PolledAwake, Attempt
  <2>1. outcome'.warnings = outcome.warnings \cup WakeWarnings(clock - sleep_start_time)
    BY <1>0, <2>0, OutcomeFields
  <2>2. "no_sleep" \notin outcome.warnings /\ "no_sleep" \notin WakeWarnings(clock - sleep_start_time)
    BY <2>0 DEF Basic, CallInv, WakeWarnings
  <2>3. sleeping /\ call = "monitor"
    BY <2>0 DEF Basic, CallInv
  <2> QED BY <2>0, <2>1, <2>2, <2>3 DEF GoneInv, Attempting, NoSleepMissed
<1>10. CASE Connect \/ ConnectFails \/ NextAttempt
  <2>1. /\ Attempting /\ UNCHANGED <<call, gone, port, sleeping, sleep_confirmed, outcome>>
        /\ at' \in {"connecting", "retrying", "greeting"}
    BY <1>10 DEF Connect, ConnectFails, Retry, NextAttempt, Attempt, Attempting, Unmonitored, Environment,
         monitor_vars, link_vars, fault_vars
  <2>2. sleeping
    BY <2>1 DEF Attempting, Basic, CallInv
  <2> QED BY <2>1, <2>2 DEF GoneInv, Attempting, NoSleepMissed
<1>11. CASE Flushed
  BY <1>11, FlushedGone
<1>12. CASE ReconnectFails
  <2>0. /\ at = "retrying" /\ UNCHANGED <<gone, port, sleeping, sleep_confirmed>>
        /\ Fail("error", "no_reconnect") /\ call = "monitor"
    BY <1>12 DEF ReconnectFails, Environment, link_vars, fault_vars, Basic, CallInv
  <2>1. outcome'.warnings = outcome.warnings \cup {"no_reconnect"}
    BY <1>0, <2>0, OutcomeFields DEF Fail
  <2>2. "no_sleep" \notin outcome.warnings
    BY <2>0 DEF Basic, CallInv
  <2> QED BY <2>0, <2>1, <2>2, GoneKept DEF Fail, Return
<1> QED BY <1>1, <1>2, <1>3, <1>4, <1>5, <1>6, <1>7, <1>8, <1>9, <1>10, <1>11, <1>12 DEF Host

LEMMA NoMonitorGone ==
    ASSUME Basic, NoMonitor, at' \in {"top", "commanding"}
    PROVE  GoneInv'
BY NoOutcomeFields DEF NoMonitor, Basic, CallInv, GoneInv, Attempting, NoSleepMissed

LEMMA NextGone ==
    ASSUME Basic, TimeInv, GoneInv, [Next]_vars
    PROVE  GoneInv'
<1>1. CASE Caller
  <2>1. NoMonitor /\ at' \in {"top", "commanding"}
    BY <1>1 DEF Caller, Discover, StartTest, Monitor, Begin, Command, Reopen, call_vars, Basic, CallInv
  <2> QED BY <2>1, NoMonitorGone
<1>2. CASE Tick
  <2>1. /\ at # "top" /\ clock' = clock + 1
        /\ gone' = IF port \/ ~sleeping THEN gone ELSE gone + 1
        /\ UNCHANGED <<call, at, due, port, sleeping, sleep_confirmed, outcome>>
    BY <1>2 DEF Tick, Waiting, Flushing, monitor_vars, link_vars
  <2>2. at \in {"commanding", "reading", "acking"} => ~(call = "monitor" /\ sleeping)
    BY DEF Basic, CallInv
  <2>6. at = "polling" => clock < due
    BY <1>2 DEF Tick, Waiting, Flushing
  <2>7. at \in {"commanding", "reading", "acking", "polling"} \/ Attempting
    BY <2>1 DEF Basic, Typed, CallTyped, Attempting
  <2>3. call # "none"
    BY <2>1 DEF Basic, CallInv
  <2>4. NoSleepMissed'
    <3>1. call = "monitor" => "no_sleep" \notin outcome.warnings
      BY DEF Basic, CallInv
    <3>2. call \in {"discover", "start"} => outcome.warnings = {}
      BY NoOutcomeFields DEF Basic, CallInv
    <3>3. call \in {"discover", "start", "monitor"}
      BY <2>3 DEF Basic, Typed, CallTyped
    <3> QED BY <2>1, <3>1, <3>2, <3>3 DEF NoSleepMissed
  <2>5. at = "polling" => call = "monitor" /\ due <= clock + PollInterval
    BY DEF TimeInv, Basic, CallInv
  <2> QED BY <2>1, <2>2, <2>4, <2>5, <2>6, <2>7, GoneTypes DEF GoneInv, Attempting
<1>3. CASE UNCHANGED vars
  BY <1>3 DEF GoneInv, Attempting, NoSleepMissed, vars, call_vars, monitor_vars, link_vars, fault_vars
<1> QED BY <1>1, <1>2, <1>3, DeviceGone, HostGone, FlushedGone DEF Next


\* The device is accused of not entering sleep only when the port was there, or
\* had been gone for no longer than the poll interval.
THEOREM NoSleepIsMissed == Spec => []NoSleepMissed
<1>1. Init => Basic /\ TimeInv /\ GoneInv
  <2> SUFFICES ASSUME Init PROVE Basic /\ TimeInv /\ GoneInv
    OBVIOUS
  <2>1. Basic
    BY InitTyped DEF Basic
  <2>2. at = "top" /\ call = "none" /\ outcome = NoOutcome
    BY DEF Init
  <2> QED BY <2>1, <2>2, NoOutcomeFields DEF TimeInv, GoneInv, Attempting, NoSleepMissed
<1>2. Basic /\ TimeInv /\ GoneInv /\ [Next]_vars => (Basic /\ TimeInv /\ GoneInv)'
  BY NextBasic, NextTime, NextGone
<1>3. GoneInv => NoSleepMissed
  BY DEF GoneInv
<1> QED BY <1>1, <1>2, <1>3, PTL DEF Spec

-----------------------------------------------------------------------------
(* Reconnecting.                                                           *)

\* While the handle is closed every attempt so far has failed in connect(), and once
\* an attempt has opened the port only its loss makes that attempt fail.
ReconnectInv ==
    /\ Attempting => line_buf = <<>> /\ leftover = 0
    /\ at = "connecting" => (handle = "closed" /\ refused = attempt - 1) \/ handle = "dead"
    /\ at = "greeting" => handle \in {"open", "dead"}
    /\ at = "retrying" => (handle = "closed" /\ refused = attempt) \/ handle = "dead"
    /\ ReconnectsIfPortOpens

\* A step of a call that makes no attempt, and does not give up on reconnecting.
LEMMA ReconnectKept ==
    ASSUME Basic, at' \in {"top", "commanding", "reading", "acking", "polling"}, call # "none",
           "no_reconnect" \notin outcome'.warnings \/ outcome'.warnings = outcome.warnings
    PROVE  ReconnectInv'
<1>1. "no_reconnect" \notin outcome.warnings
  BY NoOutcomeFields DEF Basic, CallInv, Typed, CallTyped
<1> QED BY <1>1 DEF ReconnectInv, Attempting, ReconnectsIfPortOpens

LEMMA DeviceReconnect ==
    ASSUME ReconnectInv, Device
    PROVE  ReconnectInv'
<1>1. UNCHANGED <<call_vars, buffer_vars, monitor_vars, refused>>
  BY DEF Device, DeviceIdle, DeviceText, DeviceSleepMarker, DeviceAcked, DeviceSleep, DeviceWake,
       DeviceHandshake, DeviceStop, DeviceDrop, PortBack, fault_vars
<1>2. CASE handle' = handle \/ (handle = "open" /\ handle' = "dead")
  BY <1>1, <1>2 DEF ReconnectInv, Attempting, ReconnectsIfPortOpens, call_vars, buffer_vars, monitor_vars
<1>3. CASE PortLost
  BY <1>2, <1>3 DEF PortLost
<1>4. CASE DeviceIdle \/ DeviceText \/ (\E d \in Durations : DeviceSleepMarker(d)) \/ DeviceStop
  BY <1>2, <1>4 DEF DeviceIdle, DeviceText, DeviceSleepMarker, DeviceStop, Emit
<1>5. CASE DeviceAcked \/ DeviceWake \/ DeviceHandshake \/ PortBack
  BY <1>2, <1>5 DEF DeviceAcked, DeviceWake, DeviceHandshake, PortBack
<1>6. CASE DeviceSleep \/ \E next \in {"idle", dev}, back \in BOOLEAN : DeviceDrop(next, back)
  BY <1>3, <1>6 DEF DeviceSleep, DeviceDrop
<1> QED BY <1>4, <1>5, <1>6 DEF Device

LEMMA LineWarnings ==
    ASSUME Basic, NEW words, OnLine(words)
    PROVE  outcome'.warnings = outcome.warnings /\ at' \in {"top", "acking"}
<1>0. outcome \in Outcomes
  BY GoneTypes
<1>1. CASE DiscoverLine(words) \/ StartLine(words)
  BY <1>1 DEF DiscoverLine, StartLine, LoopAgain, Return, monitor_vars
<1>2. CASE MonitorLine(words)
  <2>1. CASE outcome' = [outcome EXCEPT !.status = words[1].arg] /\ LoopAgain
    BY <1>0, <2>1, OutcomeFields DEF LoopAgain
  <2>2. CASE outcome' = [outcome EXCEPT !.stopped = words[1].run] /\ Return
    BY <1>0, <2>2, OutcomeFields DEF Return
  <2>3. CASE LoopAgain /\ UNCHANGED outcome
    BY <2>3 DEF LoopAgain
  <2>4. CASE at' = "acking" /\ UNCHANGED outcome
    BY <2>4
  <2> QED BY <1>2, <2>1, <2>2, <2>3, <2>4 DEF MonitorLine
<1> QED BY <1>1, <1>2 DEF OnLine

LEMMA FlushedReconnect ==
    ASSUME Basic, ReconnectInv, Flushed
    PROVE  ReconnectInv'
<1>1. CASE CommandWritten \/ AckWritten
  <2>1. at' = "top" /\ UNCHANGED outcome /\ call # "none"
    BY <1>1 DEF CommandWritten, AckWritten, LoopAgain, Return, monitor_vars, Basic, CallInv
  <2> QED BY <2>1, ReconnectKept
<1>2. CASE SohWritten
  <2>1. /\ at = "greeting" /\ UNCHANGED <<line_buf, leftover, handle, outcome>> /\ call # "none"
        /\ "no_reconnect" \notin outcome.warnings
    BY <1>2 DEF SohWritten, buffer_vars, link_vars, Basic, CallInv
  <2>2. CASE LoopAgain
    BY <2>1, <2>2, ReconnectKept DEF LoopAgain
  <2>3. CASE ~Writable /\ Retry
    BY <2>1, <2>3 DEF Writable, Retry, ReconnectInv, Attempting, ReconnectsIfPortOpens
  <2> QED BY <1>2, <2>2, <2>3 DEF SohWritten
<1> QED BY <1>1, <1>2 DEF Flushed

LEMMA HostReconnect ==
    ASSUME Basic, ReconnectInv, Host
    PROVE  ReconnectInv'
<1>0. outcome \in Outcomes /\ attempt \in 0..MaxAttempts /\ refused \in Nat /\ MaxAttempts \in Nat
  BY GoneTypes, NumberTypes DEF Basic, Typed, MonitorTyped, HistoryTyped
<1>1. CASE (\E n \in 1..Len(wire) : ReadData(n)) \/ ReadBuffered
  <2>1. /\ at = "reading"
        /\ \/ KeepReading
           \/ LoopAgain /\ UNCHANGED monitor_vars
           \/ \E words : OnLine(words)
    BY <1>1 DEF ReadData, ReadBuffered
  <2>2. at' \in {"top", "reading", "acking"} /\ outcome'.warnings = outcome.warnings
    BY <2>1, LineWarnings DEF KeepReading, LoopAgain, call_vars, monitor_vars
  <2>3. call # "none"
    BY <2>1 DEF Basic, CallInv
  <2> QED BY <2>2, <2>3, ReconnectKept
<1>2. CASE ReadTimesOut \/ PolledAsleep
  <2>1. at' = "top" /\ UNCHANGED outcome /\ call # "none"
    BY <1>2 DEF ReadTimesOut, PolledAsleep, LoopAgain, monitor_vars, Basic, CallInv
  <2> QED BY <2>1, ReconnectKept
<1>3. CASE CallTop \/ MonitorReads
  BY <1>3, ReconnectKept DEF CallTop, MonitorReads, StartReading, Return, monitor_vars
<1>5. CASE MonitorTimesOut \/ MonitorPolls \/ PolledBeforeSleep
  <2>1. call = "monitor" /\ "no_reconnect" \notin outcome.warnings
    BY <1>5 DEF MonitorTimesOut, MonitorPolls, PolledBeforeSleep, Basic, CallInv
  <2>2. ASSUME NEW st, NEW w \in {"incomplete", "no_wake", "no_sleep"}, Fail(st, w) PROVE ReconnectInv'
    <3>1. at' = "top" /\ outcome'.warnings = outcome.warnings \cup {w}
      BY <1>0, <2>2, OutcomeFields DEF Fail, Return
    <3>2. "no_reconnect" \notin outcome'.warnings
      BY <2>1, <3>1
    <3> QED BY <2>1, <3>1, <3>2, ReconnectKept
  <2>3. CASE at' \in {"top", "polling"} /\ UNCHANGED outcome
    BY <2>1, <2>3, ReconnectKept
  <2> QED BY <1>5, <2>2, <2>3 DEF MonitorTimesOut, MonitorPolls, PolledBeforeSleep, LoopAgain
<1>6. CASE PolledAwake
  <2>1. /\ handle' = "closed" /\ line_buf' = <<>> /\ leftover' = 0 /\ at' = "connecting"
        /\ at = "polling" /\ attempt' = 1 /\ refused' = 0
        /\ outcome' = [outcome EXCEPT !.sleep_actual_s = clock - sleep_start_time,
                                      !.warnings = @ \cup WakeWarnings(clock - sleep_start_time)]
    BY <1>6 DEF PolledAwake, Attempt
  <2>2. outcome'.warnings = outcome.warnings \cup WakeWarnings(clock - sleep_start_time)
    BY <1>0, <2>1, OutcomeFields
  <2>3. /\ "no_reconnect" \notin outcome.warnings
        /\ "no_reconnect" \notin WakeWarnings(clock - sleep_start_time)
    BY <2>1 DEF Basic, CallInv, WakeWarnings
  <2> QED BY <2>1, <2>2, <2>3 DEF ReconnectInv, Attempting, ReconnectsIfPortOpens
<1>11. CASE at \in {"connecting", "retrying"}
  <2>1. "no_reconnect" \notin outcome.warnings
    BY <1>11 DEF Basic, CallInv
  <2>2. CASE ConnectFails
    <3>1. /\ at = "connecting" /\ handle = "closed" /\ refused' = refused + 1 /\ at' = "retrying"
          /\ UNCHANGED <<handle, line_buf, leftover, attempt, outcome>>
      BY <2>2 DEF ConnectFails, Retry, monitor_vars, buffer_vars, link_vars
    <3>2. refused' = attempt'
      BY <1>0, <3>1 DEF ReconnectInv
    <3> QED BY <2>1, <3>1, <3>2 DEF ReconnectInv, Attempting, ReconnectsIfPortOpens
  <2>3. CASE Connect
    <3>1. /\ at = "connecting" /\ at' = "greeting"
          /\ handle' = IF handle = "closed" THEN "open" ELSE handle
          /\ UNCHANGED <<line_buf, leftover, outcome>>
      BY <2>3 DEF Connect, HandleAfterConnect, monitor_vars, buffer_vars
    <3> QED BY <2>1, <3>1 DEF ReconnectInv, Attempting, ReconnectsIfPortOpens
  <2>4. CASE NextAttempt
    <3>1. /\ at = "retrying" /\ at' = "connecting" /\ attempt' = attempt + 1
          /\ UNCHANGED <<handle, line_buf, leftover, refused, outcome>>
      BY <2>4 DEF NextAttempt, Attempt, Environment, buffer_vars, link_vars, fault_vars
    <3>2. attempt' - 1 = attempt
      BY <1>0, <3>1
    <3> QED BY <2>1, <3>1, <3>2 DEF ReconnectInv, Attempting, ReconnectsIfPortOpens
  <2>5. CASE ReconnectFails
    <3>1. at = "retrying" /\ ~(attempt < MaxAttempts) /\ at' = "top" /\ UNCHANGED <<handle, refused>>
      BY <2>5 DEF ReconnectFails, AttemptsLeft, Fail, Return, Environment, link_vars, fault_vars
    <3>2. attempt = MaxAttempts
      BY <1>0, <3>1
    <3> QED BY <3>1, <3>2 DEF ReconnectInv, Attempting, ReconnectsIfPortOpens
  <2>6. CASE Drained /\ Flushed
    BY <2>6, FlushedReconnect
  <2> QED BY <1>1, <1>2, <1>3, <1>5, <1>6, <2>2, <2>3, <2>4, <2>5, <2>6 DEF Host
<1>12. CASE Flushed
  BY <1>12, FlushedReconnect
<1>13. ConnectFails \/ Connect \/ NextAttempt \/ ReconnectFails => at \in {"connecting", "retrying"}
  BY DEF ConnectFails, Connect, NextAttempt, ReconnectFails
<1> QED BY <1>1, <1>2, <1>3, <1>5, <1>6, <1>11, <1>12, <1>13 DEF Host

LEMMA NextReconnect ==
    ASSUME Basic, ReconnectInv, [Next]_vars
    PROVE  ReconnectInv'
<1>1. CASE Caller
  <2>1. NoMonitor /\ at' \in {"top", "commanding"}
    BY <1>1 DEF Caller, Discover, StartTest, Monitor, Begin, Command, Reopen, call_vars, Basic, CallInv
  <2> QED BY <2>1, NoOutcomeFields DEF NoMonitor, ReconnectInv, Attempting, ReconnectsIfPortOpens
<1>2. CASE Tick \/ UNCHANGED vars
  BY <1>2 DEF Tick, vars, call_vars, buffer_vars, monitor_vars, link_vars, fault_vars, ReconnectInv, Attempting,
         ReconnectsIfPortOpens
<1> QED BY <1>1, <1>2, DeviceReconnect, HostReconnect, FlushedReconnect DEF Next

\* monitor gives up on reconnecting only after all of its attempts were refused by
\* connect(), or when the device went away from one that had opened the port.
THEOREM ReconnectsWhilePortOpens == Spec => []ReconnectsIfPortOpens
<1>1. Init => Basic /\ ReconnectInv
  <2> SUFFICES ASSUME Init PROVE Basic /\ ReconnectInv
    OBVIOUS
  <2>1. Basic
    BY InitTyped DEF Basic
  <2>2. at = "top" /\ outcome = NoOutcome
    BY DEF Init
  <2> QED BY <2>1, <2>2, NoOutcomeFields DEF ReconnectInv, Attempting, ReconnectsIfPortOpens
<1>2. Basic /\ ReconnectInv /\ [Next]_vars => (Basic /\ ReconnectInv)'
  BY NextBasic, NextReconnect
<1>3. ReconnectInv => ReconnectsIfPortOpens
  BY DEF ReconnectInv
<1> QED BY <1>1, <1>2, <1>3, PTL DEF Spec

-----------------------------------------------------------------------------
(* What follows the start of a run in a stream s, behind the token i.      *)

NoStop(s, i, j) == \A k \in i + 1..j - 1 : s[k].kind # "stopped"

\* Up to the first TEST_STOPPED marker, the reports are those of the run r of test t.
Own(s, i, r, t) ==
    \A j \in i + 1..Len(s) : NoStop(s, i, j) =>
        /\ s[j].kind = "test_end" => s[j].run = r
        /\ s[j].kind = "stopped" => s[j].run = r /\ s[j].test = t

\* A SLEEP marker is the last line before that.
LastSleep(s, i) ==
    \A j \in i + 1..Len(s) : NoStop(s, i, j) /\ s[j].kind = "sleep" => j + 1 >= Len(s)

HasSleep(s, i) == \E j \in i + 1..Len(s) : NoStop(s, i, j) /\ s[j].kind = "sleep"

Ended(s, i) == \E j \in i + 1..Len(s) : s[j].kind = "stopped"

\* The TEST_STOPPED marker comes after a test_end line.
Reports(s, i) ==
    \A j \in i + 1..Len(s) : NoStop(s, i, j) /\ s[j].kind = "stopped" =>
        \E k \in i + 1..j - 1 : s[k].kind = "test_end"

\* c is s from the token e + 1 to the token m.
CutOf(c, s, e, m) ==
    /\ c \in Seq(Sound) /\ s \in Seq(Sound)
    /\ e \in Nat /\ m \in Nat /\ e <= m /\ m <= Len(s)
    /\ Len(c) = m - e
    /\ \A i \in 1..m - e : c[i] = s[i + e]

LEMMA CutFollowed ==
    ASSUME NEW c, NEW s, NEW e, NEW m, CutOf(c, s, e, m), NEW i \in 0..Len(c), NEW r, NEW t
    PROVE  /\ Own(s, i + e, r, t) => Own(c, i, r, t)
           /\ LastSleep(s, i + e) => LastSleep(c, i)
           /\ HasSleep(c, i) => HasSleep(s, i + e)
           /\ Reports(s, i + e) => Reports(c, i)
           /\ m = Len(s) /\ Ended(s, i + e) => Ended(c, i)
<1>0. /\ e \in Nat /\ m \in Nat /\ e <= m /\ Len(c) = m - e /\ m <= Len(s) /\ Len(s) \in Nat /\ i \in Nat
      /\ \A k \in 1..m - e : c[k] = s[k + e]
  BY DEF CutOf
<1>1. \A j \in i + 1..Len(c) : j + e \in (i + e) + 1..Len(s) /\ c[j] = s[j + e]
  BY <1>0
<1>2. ASSUME NEW j \in i + 1..Len(c) PROVE NoStop(c, i, j) <=> NoStop(s, i + e, j + e)
  <2>1. ASSUME NEW k \in i + 1..j - 1
        PROVE  k + e \in (i + e) + 1..(j + e) - 1 /\ c[k] = s[k + e]
    <3>1. k \in 1..m - e
      BY <1>0
    <3>2. k + e \in (i + e) + 1..(j + e) - 1
      BY <1>0
    <3> QED BY <1>0, <3>1, <3>2
  <2>2. \A k \in (i + e) + 1..(j + e) - 1 : k - e \in i + 1..j - 1 /\ c[k - e] = s[k]
    BY <1>0
  <2> QED BY <2>1, <2>2 DEF NoStop
<1>3. Own(s, i + e, r, t) => Own(c, i, r, t)
  BY <1>1, <1>2 DEF Own
<1>4. ASSUME LastSleep(s, i + e), NEW j \in i + 1..Len(c), NoStop(c, i, j), c[j].kind = "sleep"
      PROVE  j + 1 >= Len(c)
  <2>1. (j + e) + 1 >= Len(s)
    BY <1>1, <1>2, <1>4 DEF LastSleep
  <2> QED BY <1>0, <2>1
<1>5. HasSleep(c, i) => HasSleep(s, i + e)
  BY <1>1, <1>2 DEF HasSleep
<1>6. ASSUME Reports(s, i + e), NEW j \in i + 1..Len(c), NoStop(c, i, j), c[j].kind = "stopped"
      PROVE  \E k \in i + 1..j - 1 : c[k].kind = "test_end"
  <2>1. PICK k \in (i + e) + 1..(j + e) - 1 : s[k].kind = "test_end"
    BY <1>1, <1>2, <1>6 DEF Reports
  <2>2. k - e \in i + 1..j - 1 /\ c[k - e] = s[k]
    BY <1>0
  <2> QED BY <2>1, <2>2
<1>7. ASSUME m = Len(s), Ended(s, i + e) PROVE Ended(c, i)
  <2>1. PICK j \in (i + e) + 1..Len(s) : s[j].kind = "stopped"
    BY <1>7 DEF Ended
  <2>2. j - e \in i + 1..Len(c) /\ c[j - e] = s[j]
    BY <1>0, <1>7
  <2> QED BY <2>1, <2>2 DEF Ended
<1> QED BY <1>3, <1>4, <1>5, <1>6, <1>7 DEF LastSleep, Reports

\* From a later token on, when no marker and no report of an end lies between.
LEMMA LaterFollowed ==
    ASSUME NEW s \in Seq(Sound), NEW i \in Nat, NEW k \in Nat, i <= k, NoStop(s, i, k + 1),
           NEW r, NEW t
    PROVE  /\ Own(s, i, r, t) => Own(s, k, r, t)
           /\ LastSleep(s, i) => LastSleep(s, k)
           /\ HasSleep(s, k) => HasSleep(s, i)
           /\ Ended(s, i) => Ended(s, k)
           /\ Reports(s, i) /\ (\A j \in i + 1..k : s[j].kind # "test_end") => Reports(s, k)
<1>0. Len(s) \in Nat
  OBVIOUS
<1>1. ASSUME NEW j \in k + 1..Len(s) PROVE j \in i + 1..Len(s) /\ (NoStop(s, k, j) => NoStop(s, i, j))
  BY <1>0 DEF NoStop
<1>2. Own(s, i, r, t) => Own(s, k, r, t)
  BY <1>1 DEF Own
<1>3. (LastSleep(s, i) => LastSleep(s, k)) /\ (HasSleep(s, k) => HasSleep(s, i))
  BY <1>1 DEF LastSleep, HasSleep
<1>4. Ended(s, i) => Ended(s, k)
  BY <1>0 DEF Ended, NoStop
<1>5. ASSUME Reports(s, i), \A j \in i + 1..k : s[j].kind # "test_end",
             NEW j \in k + 1..Len(s), NoStop(s, k, j), s[j].kind = "stopped"
      PROVE  \E l \in k + 1..j - 1 : s[l].kind = "test_end"
  <2>1. PICK l \in i + 1..j - 1 : s[l].kind = "test_end"
    BY <1>1, <1>5 DEF Reports
  <2>2. l \in k + 1..j - 1
    BY <1>0, <1>5, <2>1
  <2> QED BY <2>1, <2>2
<1> QED BY <1>2, <1>3, <1>4, <1>5 DEF Reports

LEMMA MoreFollowed ==
    ASSUME NEW s \in Seq(Sound), NEW x \in Seq(Sound), NEW c, c = s \o x, NEW i \in 0..Len(s), NEW r, NEW t
    PROVE  /\ Own(s, i, r, t) /\ (Ended(s, i) \/ Own(x, 0, r, t)) => Own(c, i, r, t)
           /\ ~HasSleep(s, i) /\ (Ended(s, i) \/ LastSleep(x, 0)) => LastSleep(c, i)
           /\ HasSleep(c, i) => HasSleep(s, i) \/ (~Ended(s, i) /\ HasSleep(x, 0))
           /\ Reports(s, i) /\ (Ended(s, i) \/ Reports(x, 0)) => Reports(c, i)
           /\ Ended(s, i) \/ Ended(x, 0) => Ended(c, i)
<1> DEFINE n == Len(s)
<1>0. /\ n \in Nat /\ Len(x) \in Nat /\ i \in Nat /\ i <= n /\ Len(c) = n + Len(x)
      /\ \A j \in 1..n : c[j] = s[j]
      /\ \A j \in 1..Len(x) : c[j + n] = x[j]
  OBVIOUS
<1> HIDE DEF n
<1>n. n = Len(s)
  BY DEF n
<1>1. ASSUME NEW j \in i + 1..Len(c), NoStop(c, i, j)
      PROVE  \/ j \in i + 1..n /\ NoStop(s, i, j) /\ c[j] = s[j]
             \/ j - n \in 1..Len(x) /\ ~Ended(s, i) /\ NoStop(x, 0, j - n) /\ c[j] = x[j - n]
  <2>1. CASE j <= n
    <3>1. j \in i + 1..n /\ c[j] = s[j]
      BY <1>0, <2>1
    <3>2. \A k \in i + 1..j - 1 : c[k] = s[k]
      BY <1>0, <2>1
    <3> QED BY <1>1, <3>1, <3>2 DEF NoStop
  <2>2. CASE ~(j <= n)
    <3>1. j - n \in 1..Len(x) /\ (j - n) + n = j
      BY <1>0, <2>2
    <3>2. \A k \in i + 1..n : k \in i + 1..j - 1 /\ c[k] = s[k]
      BY <1>0, <2>2
    <3>3. ~Ended(s, i)
      BY <1>1, <3>2, <1>n DEF NoStop, Ended
    <3>4. ASSUME NEW k \in 0 + 1..(j - n) - 1 PROVE x[k].kind # "stopped"
      <4>1. k + n \in i + 1..j - 1 /\ c[k + n] = x[k]
        BY <1>0, <2>2
      <4>2. c[k + n].kind # "stopped"
        BY <1>1, <4>1 DEF NoStop
      <4> QED BY <4>1, <4>2
    <3>5. NoStop(x, 0, j - n)
      BY <3>4 DEF NoStop
    <3> QED BY <1>0, <3>1, <3>3, <3>5
  <2> QED BY <2>1, <2>2
<1>2. Own(s, i, r, t) /\ (Ended(s, i) \/ Own(x, 0, r, t)) => Own(c, i, r, t)
  BY <1>1, <1>n DEF Own
<1>3. HasSleep(c, i) => HasSleep(s, i) \/ (~Ended(s, i) /\ HasSleep(x, 0))
  BY <1>1, <1>n DEF HasSleep
<1>4. ~HasSleep(s, i) /\ (Ended(s, i) \/ LastSleep(x, 0)) => LastSleep(c, i)
  <2> SUFFICES ASSUME ~HasSleep(s, i), Ended(s, i) \/ LastSleep(x, 0),
                      NEW j \in i + 1..Len(c), NoStop(c, i, j), c[j].kind = "sleep"
               PROVE  j + 1 >= Len(c)
    BY DEF LastSleep
  <2>1. j - n \in 1..Len(x) /\ ~Ended(s, i) /\ NoStop(x, 0, j - n) /\ c[j] = x[j - n]
    BY <1>1, <1>n DEF HasSleep
  <2>2. (j - n) + 1 >= Len(x)
    BY <2>1 DEF LastSleep
  <2> QED BY <1>0, <2>1, <2>2
<1>5. ASSUME Reports(s, i), Ended(s, i) \/ Reports(x, 0), NEW j \in i + 1..Len(c), NoStop(c, i, j),
             c[j].kind = "stopped"
      PROVE  \E k \in i + 1..j - 1 : c[k].kind = "test_end"
  <2>1. CASE j \in i + 1..n /\ NoStop(s, i, j) /\ c[j] = s[j]
    <3>1. PICK k \in i + 1..j - 1 : s[k].kind = "test_end"
      BY <1>5, <1>n, <2>1 DEF Reports
    <3>2. c[k] = s[k]
      BY <1>0, <2>1
    <3> QED BY <3>1, <3>2
  <2>2. CASE j - n \in 1..Len(x) /\ ~Ended(s, i) /\ NoStop(x, 0, j - n) /\ c[j] = x[j - n]
    <3>1. PICK k \in 1..(j - n) - 1 : x[k].kind = "test_end"
      BY <1>5, <2>2 DEF Reports
    <3>2. k + n \in i + 1..j - 1 /\ c[k + n] = x[k]
      BY <1>0, <2>2
    <3> QED BY <3>1, <3>2
  <2> QED BY <1>1, <1>5, <2>1, <2>2
<1>6. ASSUME Ended(s, i) PROVE Ended(c, i)
  <2>1. \A j \in i + 1..n : j \in i + 1..Len(c) /\ c[j] = s[j]
    BY <1>0
  <2> QED BY <1>6, <1>n, <2>1 DEF Ended
<1>7. ASSUME Ended(x, 0) PROVE Ended(c, i)
  <2>1. PICK j \in 0 + 1..Len(x) : x[j].kind = "stopped"
    BY <1>7 DEF Ended
  <2>2. j + n \in i + 1..Len(c) /\ c[j + n] = x[j]
    BY <1>0
  <2> QED BY <2>1, <2>2 DEF Ended
<1> QED BY <1>2, <1>3, <1>4, <1>5, <1>6, <1>7 DEF Reports

-----------------------------------------------------------------------------
(* What the host has still to take, and the steps that change it.          *)

Stream == line_buf \o wire

Joins(s, a, b) ==
    /\ s \in Seq(Sound) /\ Len(a) \in Nat /\ Len(b) \in Nat /\ Len(s) = Len(a) + Len(b)
    /\ \A i \in 1..Len(a) : s[i] = a[i]
    /\ \A i \in 1..Len(b) : s[i + Len(a)] = b[i]

LEMMA JoinIs ==
    ASSUME NEW a \in Seq(Sound), NEW b \in Seq(Sound), NEW s, s = a \o b
    PROVE  Joins(s, a, b)
BY DEF Joins

LEMMA StreamJoins ==
    ASSUME Basic
    PROVE  Joins(Stream, line_buf, wire) /\ Stream \in Seq(Sound) /\ Len(Stream) \in Nat
           /\ leftover \in Nat /\ leftover <= Len(line_buf) /\ Len(line_buf) \in Nat
           /\ leftover <= Len(Stream) /\ Len(line_buf) <= Len(Stream)
<1>1. line_buf \in Seq(Sound) /\ wire \in Seq(Sound) /\ leftover \in 0..Len(line_buf)
  BY DEF Basic, Typed, BufferTyped, LinkTyped
<1>2. Joins(Stream, line_buf, wire)
  BY <1>1, JoinIs DEF Stream
<1> QED BY <1>1, <1>2 DEF Joins

LEMMA NextJoins ==
    ASSUME Basic'
    PROVE  Joins(Stream', line_buf', wire') /\ Stream' \in Seq(Sound) /\ Len(Stream') \in Nat
           /\ leftover' \in Nat /\ leftover' <= Len(line_buf') /\ Len(line_buf') \in Nat
<1>1. line_buf' \in Seq(Sound) /\ wire' \in Seq(Sound) /\ leftover' \in 0..Len(line_buf')
  BY DEF Basic, Typed, BufferTyped, LinkTyped
<1>2. Joins(Stream', line_buf', wire')
  BY <1>1, JoinIs DEF Stream
<1> QED BY <1>1, <1>2 DEF Joins

LEMMA SameStream ==
    ASSUME Basic, UNCHANGED <<line_buf, wire>>
    PROVE  Stream' = Stream /\ CutOf(Stream', Stream, 0, Len(Stream))
<1>1. Stream' = Stream
  BY DEF Stream
<1>2. Stream \in Seq(Sound) /\ Len(Stream) \in Nat
  BY StreamJoins
<1> HIDE DEF Stream
<1> QED BY <1>1, <1>2 DEF CutOf

LEMMA LostStream ==
    ASSUME Basic, Basic', UNCHANGED line_buf, wire' = <<>>
    PROVE  CutOf(Stream', Stream, 0, Len(line_buf))
<1>1. Joins(Stream, line_buf, wire) /\ Joins(Stream', line_buf, wire') /\ Len(wire') = 0
  BY StreamJoins, NextJoins
<1> QED BY <1>1 DEF Joins, CutOf

\* A line leaves the front of the stream of m tokens.
Takes(buf, m) ==
    /\ buf \in Seq(Sound) /\ HasLine(buf) /\ TakeLine(buf)
    /\ m \in Nat /\ Len(buf) <= m /\ m = Len(Stream)
    /\ \A i \in 1..Len(buf) : buf[i] = Stream[i]
    /\ CutOf(Stream', Stream, FirstEnd(buf), m)

LEMMA AfterIs ==
    ASSUME NEW buf \in Seq(Sound), HasLine(buf), line_buf' = AfterLine(buf)
    PROVE  /\ FirstEnd(buf) \in 1..Len(buf) /\ Len(buf) \in Nat
           /\ Len(line_buf') = Len(buf) - FirstEnd(buf)
           /\ \A i \in 1..Len(buf) - FirstEnd(buf) : line_buf'[i] = buf[FirstEnd(buf) + i]
BY FirstEndIs, LineType

LEMMA ReadDataTakes ==
    ASSUME Basic, Basic', NEW n \in 1..Len(wire), ReadData(n),
           HasLine(line_buf \o SubSeq(wire, 1, n))
    PROVE  \E m : Takes(line_buf \o SubSeq(wire, 1, n), m)
<1> DEFINE buf == line_buf \o SubSeq(wire, 1, n)
           e == FirstEnd(buf)
           m == Len(Stream)
<1>1. TakeLine(buf) /\ wire' = SubSeq(wire, n + 1, Len(wire))
  BY DEF ReadData
<1>2. line_buf \in Seq(Sound) /\ wire \in Seq(Sound) /\ Len(wire) \in Nat /\ n \in Nat /\ n <= Len(wire)
  BY DEF Basic, Typed, BufferTyped, LinkTyped
<1>3. /\ SubSeq(wire, 1, n) \in Seq(Sound) /\ Len(SubSeq(wire, 1, n)) = n
      /\ \A i \in 1..n : SubSeq(wire, 1, n)[i] = wire[i]
  BY <1>2
<1>4. Joins(buf, line_buf, SubSeq(wire, 1, n))
  BY <1>2, <1>3, JoinIs
<1>5. /\ Len(SubSeq(wire, n + 1, Len(wire))) = Len(wire) - n
      /\ \A i \in 1..Len(wire) - n : SubSeq(wire, n + 1, Len(wire))[i] = wire[i + n]
  BY <1>2
<1>6. buf \in Seq(Sound) /\ Len(buf) = Len(line_buf) + n /\ Len(line_buf) \in Nat
  BY <1>3, <1>4 DEF Joins
<1>7. HasLine(buf)
  OBVIOUS
<1>j. Joins(Stream, line_buf, wire) /\ Len(Stream) \in Nat
  BY StreamJoins
<1>8. \A i \in 1..Len(buf) : buf[i] = Stream[i]
  <2> SUFFICES ASSUME NEW i \in 1..Len(buf) PROVE buf[i] = Stream[i]
    OBVIOUS
  <2> HIDE DEF buf
  <2>1. CASE i <= Len(line_buf)
    BY <1>4, <1>6, <1>j, <2>1 DEF Joins
  <2>2. CASE ~(i <= Len(line_buf))
    <3>1. i - Len(line_buf) \in 1..n /\ (i - Len(line_buf)) + Len(line_buf) = i
      BY <1>6, <2>2
    <3>2. buf[i] = SubSeq(wire, 1, n)[i - Len(line_buf)]
      BY <1>3, <1>4, <3>1 DEF Joins
    <3>3. Stream[i] = wire[i - Len(line_buf)]
      BY <1>2, <1>j, <3>1, SMTT(60) DEF Joins
    <3> QED BY <1>3, <3>1, <3>2, <3>3
  <2> QED BY <2>1, <2>2
<1> HIDE DEF buf
<1>9. /\ e \in 1..Len(buf) /\ Len(buf) \in Nat /\ Len(line_buf') = Len(buf) - e
      /\ \A i \in 1..Len(buf) - e : line_buf'[i] = buf[e + i]
  BY <1>1, <1>6, <1>7, AfterIs DEF TakeLine
<1>10. /\ m \in Nat /\ Len(buf) <= m /\ m <= Len(Stream) /\ e <= m
       /\ Len(wire') = m - Len(buf)
       /\ \A i \in 1..m - Len(buf) : wire'[i] = wire[i + n]
  <2>1. Len(Stream) = Len(line_buf) + Len(wire)
    BY <1>j DEF Joins
  <2> QED BY <1>1, <1>2, <1>5, <1>6, <1>9, <1>j, <2>1
<1>k. Joins(Stream', line_buf', wire')
  BY NextJoins
<1>m. m = Len(Stream)
  OBVIOUS
<1> HIDE DEF e, m
<1>11. CutOf(Stream', Stream, e, m)
  <2>1. Len(Stream') = m - e
    BY <1>9, <1>10, <1>k DEF Joins
  <2>2. ASSUME NEW i \in 1..m - e PROVE Stream'[i] = Stream[i + e]
    <3>1. CASE i <= Len(line_buf')
      <4>1. Stream'[i] = line_buf'[i] /\ line_buf'[i] = buf[e + i] /\ e + i \in 1..Len(buf)
        BY <1>9, <1>k, <2>2, <3>1 DEF Joins
      <4>2. e + i = i + e
        BY <1>9
      <4> QED BY <1>8, <4>1, <4>2
    <3>2. CASE ~(i <= Len(line_buf'))
      <4>1. i - Len(line_buf') \in 1..Len(wire') /\ (i - Len(line_buf')) + Len(line_buf') = i
        BY <1>9, <1>10, <3>2
      <4>2. Stream'[i] = wire'[i - Len(line_buf')]
        BY <1>k, <4>1 DEF Joins
      <4>3. wire'[i - Len(line_buf')] = wire[(i - Len(line_buf')) + n]
        BY <1>10, <4>1
      <4>a. /\ Len(line_buf') = (Len(line_buf) + n) - e /\ Len(line_buf) \in Nat /\ e \in Nat
            /\ Len(wire') = m - (Len(line_buf) + n) /\ m <= Len(line_buf) + Len(wire)
        BY <1>6, <1>9, <1>10, <1>j DEF Joins
      <4>b. (i - Len(line_buf')) + n \in 1..Len(wire)
        <5>1. i - Len(line_buf') >= 1 /\ i - Len(line_buf') <= m - (Len(line_buf) + n) /\ i - Len(line_buf') \in Int
          BY <1>10, <4>1, <4>a
        <5>2. (i - Len(line_buf')) + n <= m - Len(line_buf) /\ (i - Len(line_buf')) + n \in Int
              /\ (i - Len(line_buf')) + n >= 1
          BY <1>2, <1>10, <4>a, <5>1
        <5>3. m - Len(line_buf) <= Len(wire)
          BY <1>2, <1>10, <4>a
        <5> HIDE DEF m
        <5> QED BY <1>2, <1>10, <4>a, <5>2, <5>3
      <4>c. ((i - Len(line_buf')) + n) + Len(line_buf) = i + e
        BY <1>2, <2>2, <4>a
      <4>4. /\ (i - Len(line_buf')) + n \in 1..Len(wire)
            /\ ((i - Len(line_buf')) + n) + Len(line_buf) = i + e
        BY <4>b, <4>c
      <4>5. Stream[i + e] = wire[(i - Len(line_buf')) + n]
        BY <1>j, <4>4 DEF Joins
      <4> QED BY <4>2, <4>3, <4>5
    <3> QED BY <3>1, <3>2
  <2>3. Stream' \in Seq(Sound) /\ Stream \in Seq(Sound)
    BY <1>j, <1>k DEF Joins
  <2> QED BY <1>9, <1>10, <2>1, <2>2, <2>3 DEF CutOf
<1>12. Takes(buf, m)
  BY <1>1, <1>6, <1>7, <1>8, <1>9, <1>10, <1>11, <1>m DEF Takes, e
<1> QED BY <1>12 DEF buf

LEMMA ReadOnStream ==
    ASSUME Basic, Basic', NEW n \in 1..Len(wire), ReadData(n),
           ~HasLine(line_buf \o SubSeq(wire, 1, n))
    PROVE  /\ CutOf(Stream', Stream, 0, Len(Stream))
           /\ UNCHANGED <<leftover, handle>> /\ KeepReading
<1>1. /\ line_buf' = line_buf \o SubSeq(wire, 1, n) /\ UNCHANGED leftover /\ KeepReading
      /\ UNCHANGED handle /\ wire' = SubSeq(wire, n + 1, Len(wire))
  BY DEF ReadData, KeepReading
<1>2. line_buf \in Seq(Sound) /\ wire \in Seq(Sound) /\ Len(wire) \in Nat /\ n \in Nat /\ n <= Len(wire)
  BY DEF Basic, Typed, BufferTyped, LinkTyped
<1>3. /\ SubSeq(wire, 1, n) \in Seq(Sound) /\ Len(SubSeq(wire, 1, n)) = n
      /\ \A i \in 1..n : SubSeq(wire, 1, n)[i] = wire[i]
  BY <1>2
<1>4. Joins(line_buf', line_buf, SubSeq(wire, 1, n))
  BY <1>1, <1>2, <1>3, JoinIs
<1>5. /\ Len(wire') = Len(wire) - n
      /\ \A i \in 1..Len(wire) - n : wire'[i] = wire[i + n]
  BY <1>1, <1>2
<1>j. Joins(Stream, line_buf, wire) /\ Len(Stream) \in Nat /\ Joins(Stream', line_buf', wire')
  BY StreamJoins, NextJoins
<1>6. /\ Len(line_buf') = Len(line_buf) + n /\ Len(line_buf) \in Nat
      /\ Len(Stream') = Len(Stream) /\ Len(Stream) = Len(line_buf) + Len(wire)
  BY <1>2, <1>3, <1>4, <1>5, <1>j DEF Joins
<1>7. ASSUME NEW i \in 1..Len(Stream) PROVE Stream'[i] = Stream[i]
  <2>1. CASE i <= Len(line_buf)
    BY <1>4, <1>6, <1>j, <2>1 DEF Joins
  <2>2. CASE ~(i <= Len(line_buf)) /\ i <= Len(line_buf')
    <3>1. i - Len(line_buf) \in 1..n /\ (i - Len(line_buf)) + Len(line_buf) = i
      BY <1>6, <2>2
    <3>2. line_buf'[i] = SubSeq(wire, 1, n)[i - Len(line_buf)]
      BY <1>3, <1>4, <3>1 DEF Joins
    <3>a. i - Len(line_buf) \in 1..Len(wire)
      BY <1>2, <1>6, <3>1
    <3>3. Stream[i] = wire[i - Len(line_buf)]
      BY <1>j, <3>1, <3>a DEF Joins
    <3>4. Stream'[i] = line_buf'[i]
      BY <1>6, <1>j, <2>2 DEF Joins
    <3> QED BY <1>3, <3>1, <3>2, <3>3, <3>4
  <2>3. CASE ~(i <= Len(line_buf'))
    <3>1. i - Len(line_buf') \in 1..Len(wire') /\ (i - Len(line_buf')) + Len(line_buf') = i
      BY <1>2, <1>5, <1>6, <2>3
    <3>2. Stream'[i] = wire'[i - Len(line_buf')]
      BY <1>j, <3>1 DEF Joins
    <3>3. wire'[i - Len(line_buf')] = wire[(i - Len(line_buf')) + n]
      BY <1>5, <3>1
    <3>4. /\ (i - Len(line_buf')) + n \in 1..Len(wire)
          /\ ((i - Len(line_buf')) + n) + Len(line_buf) = i
      BY <1>2, <1>5, <1>6, <3>1
    <3>5. Stream[i] = wire[(i - Len(line_buf')) + n]
      BY <1>j, <3>4 DEF Joins
    <3> QED BY <3>2, <3>3, <3>5
  <2> QED BY <2>1, <2>2, <2>3
<1>8. Stream' \in Seq(Sound) /\ Stream \in Seq(Sound)
  BY <1>j DEF Joins
<1>9. ASSUME NEW i \in 1..Len(Stream) - 0 PROVE Stream'[i] = Stream[i + 0]
  BY <1>6, <1>7
<1> QED BY <1>1, <1>6, <1>8, <1>9, <1>j DEF CutOf

LEMMA ReadBufferedTakes ==
    ASSUME Basic, Basic', ReadBuffered
    PROVE  \E m : Takes(line_buf, m)
<1> DEFINE e == FirstEnd(line_buf)
<1>1. TakeLine(line_buf) /\ HasLine(line_buf) /\ UNCHANGED wire
  BY DEF ReadBuffered
<1>2. line_buf \in Seq(Sound)
  BY DEF Basic, Typed, BufferTyped
<1>3. /\ e \in 1..Len(line_buf) /\ Len(line_buf) \in Nat /\ Len(line_buf') = Len(line_buf) - e
      /\ \A i \in 1..Len(line_buf) - e : line_buf'[i] = line_buf[e + i]
  BY <1>1, <1>2, AfterIs DEF TakeLine
<1> HIDE DEF e
<1>4. Joins(Stream, line_buf, wire) /\ Joins(Stream', line_buf', wire) /\ Len(Stream) \in Nat
  BY <1>1, StreamJoins, NextJoins
<1>5. \A i \in 1..Len(line_buf) : line_buf[i] = Stream[i]
  BY <1>4 DEF Joins
<1>6. CutOf(Stream', Stream, e, Len(Stream))
  <2>1. Len(Stream') = Len(Stream) - e /\ e <= Len(Stream) /\ e \in Nat
    BY <1>3, <1>4 DEF Joins
  <2>2. ASSUME NEW i \in 1..Len(Stream) - e PROVE Stream'[i] = Stream[i + e]
    <3>1. CASE i <= Len(line_buf')
      <4>1. Stream'[i] = line_buf'[i] /\ line_buf'[i] = line_buf[e + i] /\ e + i \in 1..Len(line_buf)
        BY <1>3, <1>4, <2>2, <3>1 DEF Joins
      <4>2. e + i = i + e
        BY <1>3
      <4> QED BY <1>5, <4>1, <4>2
    <3>2. CASE ~(i <= Len(line_buf'))
      <4>1. i - Len(line_buf') \in 1..Len(wire) /\ (i - Len(line_buf')) + Len(line_buf') = i
        BY <1>3, <1>4, <3>2 DEF Joins
      <4>2. Stream'[i] = wire[i - Len(line_buf')]
        BY <1>4, <4>1 DEF Joins
      <4>3. (i - Len(line_buf')) + Len(line_buf) = i + e
        BY <1>3, <2>2
      <4>4. Stream[i + e] = wire[i - Len(line_buf')]
        BY <1>4, <4>1, <4>3 DEF Joins
      <4> QED BY <4>2, <4>4
    <3> QED BY <3>1, <3>2
  <2>3. Stream' \in Seq(Sound) /\ Stream \in Seq(Sound)
    BY <1>4 DEF Joins
  <2> QED BY <1>4, <2>1, <2>2, <2>3 DEF CutOf
<1>7. Len(line_buf) <= Len(Stream)
  BY <1>3, <1>4 DEF Joins
<1> QED BY <1>1, <1>2, <1>4, <1>5, <1>6, <1>7 DEF Takes, e

-----------------------------------------------------------------------------
(* The device of a run that the host hears, or waits for.                  *)

NoStart(q) == \A i \in 1..Len(q) : q[i].command # "STX"

\* The run r of test t waits, sleeps or was lost in a crash, and no other can begin.
Paused(r, t) ==
    \/ run = r /\ dev_test = t /\ dev \in {"await_ack", "entering"}
    \/ /\ handle # "open" /\ to_device = <<>>
       /\ run = r /\ dev_test = t /\ dev \in {"asleep", "await_soh"}
    \/ handle # "open" /\ dev = "idle" /\ NoStart(to_device)

Running(r, t) == run = r /\ dev_test = t /\ dev # "idle"

Crashed == dev = "idle" /\ NoStart(to_device)

\* Where a run was seen to start: i is the token of its marker, or 0.
Watched(i, r, t) ==
    /\ Own(Stream, i, r, t)
    /\ LastSleep(Stream, i)
    /\ HasSleep(Stream, i) => Paused(r, t)

LEMMA NoStartTail ==
    ASSUME NEW q \in Seq(Commands), q # <<>>, NoStart(q)
    PROVE  NoStart(Tail(q)) /\ Head(q).command # "STX"
<1>1. /\ Len(q) \in Nat /\ Len(q) >= 1 /\ Len(Tail(q)) = Len(q) - 1 /\ Head(q) = q[1]
      /\ \A i \in 1..Len(q) - 1 : Tail(q)[i] = q[i + 1]
  OBVIOUS
<1> QED BY <1>1 DEF NoStart

LEMMA NoStartAppend ==
    ASSUME NEW q \in Seq(Commands), NEW c \in Commands, c.command # "STX", NoStart(q)
    PROVE  NoStart(Append(q, c))
<1>1. /\ Len(q) \in Nat /\ Len(Append(q, c)) = Len(q) + 1 /\ Append(q, c)[Len(q) + 1] = c
      /\ \A i \in 1..Len(q) : Append(q, c)[i] = q[i]
  OBVIOUS
<1> QED BY <1>1 DEF NoStart

\* What the device does to a stream that may be heard.
Quietly ==
    /\ UNCHANGED <<wire, handle, received>>
    /\ handle = "open" /\ dev # "idle" => dev' # "idle" /\ UNCHANGED <<run, dev_test>>
    /\ handle = "open" /\ Crashed => Crashed'

Lost == wire' = <<>> /\ handle' # "open" /\ (handle' = "closed" => handle = "closed")

Plain(x) ==
    /\ \A k \in 1..Len(x) : x[k].kind \notin {"started", "sleep", "test_end", "stopped"}
    /\ dev \in {"idle", "running"} /\ UNCHANGED <<dev, run, dev_test>>
    /\ Crashed => Crashed'

Begins(x) ==
    /\ x = <<Word("started", dev_test', run', None), NL>>
    /\ dev = "idle" /\ dev' = "running" /\ ~NoStart(to_device)

Sleeps(x) ==
    /\ \E d \in Durations : x = <<Word("sleep", dev_test, run, d), NL>>
    /\ dev = "running" /\ dev' = "await_ack" /\ UNCHANGED <<run, dev_test>>

Stops(x) ==
    /\ x = <<Word("test_end", dev_test, run, Verdicts[run]), NL, Word("stopped", dev_test, run, None), NL>>
    /\ dev = "running"

Sends(x) == wire' = wire \o x /\ (call = "monitor" => received' = received \o Words(x))

Emits(x) ==
    /\ x \in Seq(Sound) /\ Sends(x)
    /\ handle = "open" /\ handle' = "open"
    /\ Plain(x) \/ Begins(x) \/ Sleeps(x) \/ Stops(x)
    /\ x # <<>> /\ x[Len(x)] = NL /\ \A k \in 1..Len(x) : k < Len(x) /\ x[k] # NL => x[k + 1] = NL

LEMMA LinesOf ==
    ASSUME NEW w \in Sound, NEW v \in Sound, NEW x, x \in {<<NL>>, <<w, NL>>, <<w, NL, v, NL>>}
    PROVE  /\ x \in Seq(Sound) /\ x # <<>> /\ x[Len(x)] = NL
           /\ \A k \in 1..Len(x) : k < Len(x) /\ x[k] # NL => x[k + 1] = NL
           /\ \A k \in 1..Len(x) : x[k] \in {w, v, NL}
           /\ (x = <<NL>> \/ x = <<w, NL>>) => \A k \in 1..Len(x) : x[k] \in {w, NL}
<1>0. NL \in Sound
  BY SoundWords
<1>1. CASE x = <<NL>>
  BY <1>0, <1>1
<1>2. CASE x = <<w, NL>>
  BY <1>0, <1>2
<1>3. CASE x = <<w, NL, v, NL>>
  BY <1>0, <1>3
<1> QED BY <1>1, <1>2, <1>3

LEMMA TwoLines ==
    ASSUME NEW w \in Sound, NEW v \in Sound
    PROVE  <<w, NL>> \o <<v, NL>> = <<w, NL, v, NL>>
<1> DEFINE a == <<w, NL>>
           b == <<v, NL>>
           x == <<w, NL, v, NL>>
<1>1. a \in Seq(Sound) /\ b \in Seq(Sound) /\ Len(a) = 2 /\ Len(b) = 2
  BY SoundWords
<1>2. x \in Seq(Sound) /\ Len(x) = 4 /\ x[1] = a[1] /\ x[2] = a[2] /\ x[3] = b[1] /\ x[4] = b[2]
  BY SoundWords
<1> HIDE DEF a, b, x
<1>3. Joins(a \o b, a, b)
  BY <1>1, JoinIs
<1>4. a \o b \in Seq(Sound) /\ Len(a \o b) = 4
  BY <1>1, <1>3 DEF Joins
<1>5. (a \o b)[1] = a[1] /\ (a \o b)[2] = a[2] /\ (a \o b)[1 + 2] = b[1] /\ (a \o b)[2 + 2] = b[2]
  BY <1>1, <1>3 DEF Joins
<1>6. \A i \in 1..4 : (a \o b)[i] = x[i]
  <2>1. 1 + 2 = 3 /\ 2 + 2 = 4 /\ \A i \in 1..4 : i = 1 \/ i = 2 \/ i = 3 \/ i = 4
    OBVIOUS
  <2>2. (a \o b)[3] = b[1] /\ (a \o b)[4] = b[2]
    BY <1>5, <2>1
  <2> QED BY <1>2, <1>5, <2>1, <2>2, Zenon
<1> QED BY <1>2, <1>4, <1>6, SeqEqual DEF a, b, x

LEMMA WordFields ==
    /\ \A kind, t, r, arg : LET w == Word(kind, t, r, arg) IN
          w.kind = kind /\ w.test = t /\ w.run = r /\ w.arg = arg
    /\ NL.kind = "nl" /\ Text.kind = "text"
BY DEF Word, NL, Text

LEMMA DeviceDoes ==
    ASSUME Basic, Device
    PROVE  Quietly \/ Lost \/ \E x : Emits(x)
<1>0. /\ to_device \in Seq(Commands) /\ run \in Nat /\ dev_test \in Tests \cup {None}
      /\ wire \in Seq(Sound) /\ (handle # "open" => wire = <<>>)
  BY DEF Basic, Typed, LinkTyped, DevTyped, LinkInv
<1>t. to_device # <<>> => /\ Head(to_device) \in Commands
                          /\ NoStart(to_device) => NoStart(Tail(to_device)) /\ Head(to_device).command # "STX"
  BY <1>0, Taken, NoStartTail DEF Basic
<1>1. CASE DeviceIdle
  <2>0. dev = "idle" /\ to_device # <<>> /\ to_device' = Tail(to_device)
    BY <1>1 DEF DeviceIdle
  <2>1. CASE /\ Emit(<<Word("catalog", None, 0, None), NL>>)
             /\ UNCHANGED device_vars
    <3>1. UNCHANGED <<handle, dev, run, dev_test>> /\ (Crashed => Crashed')
      BY <1>t, <2>0, <2>1 DEF Emit, device_vars, Crashed
    <3>2. CASE handle = "open"
      <4> DEFINE x == <<Word("catalog", None, 0, None), NL>>
      <4>1. Sends(x)
        BY <2>1, <3>2 DEF Emit, Sends
      <4>2. Word("catalog", None, 0, None) \in Sound
        BY SoundWords
      <4> HIDE DEF x
      <4>3. /\ x \in Seq(Sound) /\ x # <<>> /\ x[Len(x)] = NL
            /\ \A k \in 1..Len(x) : k < Len(x) /\ x[k] # NL => x[k + 1] = NL
            /\ \A k \in 1..Len(x) : x[k] \in {Word("catalog", None, 0, None), NL}
        BY <4>2, LinesOf DEF x
      <4>4. Plain(x)
        BY <2>0, <3>1, <4>3, WordFields DEF Plain
      <4> QED BY <3>1, <3>2, <4>1, <4>3, <4>4 DEF Emits
    <3>3. CASE handle # "open"
      BY <2>1, <3>1, <3>3 DEF Emit, Quietly
    <3> QED BY <3>2, <3>3
  <2>2. CASE UNCHANGED <<device_vars, handle, port, wire, received>>
    BY <1>t, <2>0, <2>2 DEF Quietly, Crashed, device_vars
  <2>3. CASE /\ Head(to_device).command = "STX"
             /\ run' = run + 1
             /\ dev' = "running"
             /\ dev_test' = Head(to_device).test
             /\ Emit(Line("started", None))
    <3>1. ~NoStart(to_device) /\ UNCHANGED handle
      BY <1>t, <2>0, <2>3 DEF Emit, Sends
    <3>2. CASE handle = "open"
      <4> DEFINE w == Word("started", dev_test', run', None)
                 x == <<w, NL>>
      <4>1. Sends(x)
        BY <2>3, <3>2 DEF Emit, Sends, Line
      <4>2. w \in Sound
        <5>1. Basic'
          BY <1>1, NextBasic DEF Next, Device
        <5>2. run' \in 1..MaxCalls /\ dev_test' \in Tests \cup {None}
          <6>1. to_device' \in Seq(Commands) /\ run' \in Int /\ calls' \in Int /\ Counts(to_device', run', calls')
                /\ calls' \in 0..MaxCalls /\ dev_test' \in Tests \cup {None} /\ run' >= 1
            BY <2>3, <5>1, NumberTypes DEF Basic, Typed, LinkTyped, DevTyped
          <6>2. run' <= calls'
            BY <6>1, CountsLow
          <6> QED BY <6>1, <6>2, NumberTypes
        <5> QED BY <5>2, SoundWords
      <4>3. Begins(x)
        BY <2>0, <2>3, <3>1 DEF Begins
      <4> HIDE DEF w, x
      <4>4. /\ x \in Seq(Sound) /\ x # <<>> /\ x[Len(x)] = NL
            /\ \A k \in 1..Len(x) : k < Len(x) /\ x[k] # NL => x[k + 1] = NL
        BY <4>2, LinesOf DEF x
      <4> QED BY <3>1, <3>2, <4>1, <4>3, <4>4 DEF Emits
    <3>3. CASE handle # "open"
      BY <2>3, <3>1, <3>3 DEF Emit, Quietly
    <3> QED BY <3>2, <3>3
  <2> QED BY <1>1, <2>1, <2>2, <2>3 DEF DeviceIdle
<1>2. CASE DeviceText
  <2>1. PICK x \in {<<Text, NL>>, <<NL>>} : Emit(x)
    BY <1>2 DEF DeviceText
  <2>2. UNCHANGED <<handle, dev, run, dev_test>> /\ dev = "running"
    BY <1>2, <2>1 DEF DeviceText, Emit
  <2>3. CASE handle = "open"
    <3>1. Sends(x)
      BY <2>1, <2>3 DEF Emit, Sends
    <3>2. Text \in Sound /\ (x = <<NL>> \/ x = <<Text, NL>>)
      BY SoundWords
    <3>3. /\ x \in Seq(Sound) /\ x # <<>> /\ x[Len(x)] = NL
          /\ \A k \in 1..Len(x) : k < Len(x) /\ x[k] # NL => x[k + 1] = NL
          /\ \A k \in 1..Len(x) : x[k] \in {Text, NL}
      BY <3>2, LinesOf
    <3>4. Plain(x)
      BY <2>2, <3>3, WordFields DEF Plain, Crashed
    <3> QED BY <2>2, <2>3, <3>1, <3>3, <3>4 DEF Emits
  <2>4. CASE handle # "open"
    BY <2>1, <2>2, <2>4 DEF Emit, Quietly
  <2> QED BY <2>3, <2>4
<1>3. CASE \E d \in Durations : DeviceSleepMarker(d)
  <2>1. PICK d \in Durations : DeviceSleepMarker(d)
    BY <1>3
  <2>2. /\ dev = "running" /\ dev' = "await_ack" /\ UNCHANGED <<dev_test, run>>
        /\ Emit(Line("sleep", d)) /\ UNCHANGED handle
    BY <2>1 DEF DeviceSleepMarker, Emit
  <2>3. CASE handle = "open"
    <3> DEFINE w == Word("sleep", dev_test, run, d)
               x == <<w, NL>>
    <3>1. Sends(x)
      BY <2>2, <2>3 DEF Emit, Sends, Line
    <3>2. w \in Sound
      BY <1>0, <2>2, RunBound, SoundWords DEF Basic
    <3>3. Sleeps(x)
      BY <2>2 DEF Sleeps
    <3> HIDE DEF w, x
    <3>4. /\ x \in Seq(Sound) /\ x # <<>> /\ x[Len(x)] = NL
          /\ \A k \in 1..Len(x) : k < Len(x) /\ x[k] # NL => x[k + 1] = NL
      BY <3>2, LinesOf DEF x
    <3> QED BY <2>2, <2>3, <3>1, <3>3, <3>4 DEF Emits
  <2>4. CASE handle # "open"
    BY <2>2, <2>4 DEF Emit, Quietly
  <2> QED BY <2>3, <2>4
<1>4. CASE DeviceAcked
  BY <1>4 DEF DeviceAcked, Quietly, Crashed
<1>5. CASE DeviceSleep \/ \E next \in {"idle", dev}, back \in BOOLEAN : DeviceDrop(next, back)
  BY <1>5 DEF DeviceSleep, DeviceDrop, PortLost, Lost
<1>6. CASE DeviceWake \/ DeviceHandshake \/ PortBack
  BY <1>6 DEF DeviceWake, DeviceHandshake, PortBack, device_vars, Quietly, Crashed
<1>8. CASE DeviceStop
  <2>1. /\ dev = "running" /\ UNCHANGED <<dev_test, run>> /\ UNCHANGED handle
        /\ Emit(Line("test_end", Verdicts[run]) \o Line("stopped", None))
    BY <1>8 DEF DeviceStop, Emit
  <2>2. CASE handle = "open"
    <3> DEFINE w == Word("test_end", dev_test, run, Verdicts[run])
               v == Word("stopped", dev_test, run, None)
               x == <<w, NL, v, NL>>
    <3>1. Sends(x)
      <4>0. w \in Sound /\ v \in Sound
        BY <1>0, <2>1, RunBound, SoundWords DEF Basic
      <4>1. <<w, NL>> \o <<v, NL>> = x
        BY <4>0, TwoLines
      <4>2. Line("test_end", Verdicts[run]) = <<w, NL>> /\ Line("stopped", None) = <<v, NL>>
        BY <2>1 DEF Line
      <4> QED BY <2>1, <2>2, <4>1, <4>2 DEF Emit, Sends
    <3>2. w \in Sound /\ v \in Sound
      BY <1>0, <2>1, RunBound, SoundWords DEF Basic
    <3>3. Stops(x)
      BY <2>1 DEF Stops
    <3> HIDE DEF w, v, x
    <3>4. /\ x \in Seq(Sound) /\ x # <<>> /\ x[Len(x)] = NL
          /\ \A k \in 1..Len(x) : k < Len(x) /\ x[k] # NL => x[k + 1] = NL
      BY <3>2, LinesOf DEF x
    <3> QED BY <2>1, <2>2, <3>1, <3>3, <3>4 DEF Emits
  <2>3. CASE handle # "open"
    BY <2>1, <2>3 DEF Emit, Quietly
  <2> QED BY <2>2, <2>3
<1> QED BY <1>1, <1>2, <1>3, <1>4, <1>5, <1>6, <1>8 DEF Device

LEMMA DevicePaused ==
    ASSUME Basic, Device, NEW r, NEW t, Paused(r, t)
    PROVE  Paused(r, t)'
<1>0. to_device \in Seq(Commands) /\ (handle = "dead" => to_device = <<>>)
      /\ handle \in {"open", "closed", "dead"}
  BY DEF Basic, Typed, LinkTyped, LinkInv
<1>1. CASE DeviceIdle
  <2>1. /\ dev = "idle" /\ to_device # <<>> /\ to_device' = Tail(to_device)
        /\ UNCHANGED handle
    BY <1>1 DEF DeviceIdle, Emit
  <2>2. handle # "open" /\ NoStart(to_device)
    BY <2>1 DEF Paused
  <2>3. NoStart(to_device') /\ Head(to_device).command # "STX"
    BY <1>0, <2>1, <2>2, NoStartTail
  <2>4. dev' = dev
    BY <1>1, <2>3 DEF DeviceIdle, device_vars
  <2> QED BY <2>1, <2>2, <2>3, <2>4 DEF Paused
<1>2. CASE DeviceText \/ (\E d \in Durations : DeviceSleepMarker(d)) \/ DeviceStop
  BY <1>2 DEF DeviceText, DeviceSleepMarker, DeviceStop, Paused
<1>3. CASE DeviceAcked
  BY <1>3 DEF DeviceAcked, Paused
<1>4. CASE DeviceSleep
  <2>1. dev = "entering" /\ dev' = "asleep" /\ to_device' = <<>> /\ handle' # "open"
        /\ UNCHANGED <<run, dev_test>>
    BY <1>4 DEF DeviceSleep, PortLost
  <2> QED BY <2>1 DEF Paused
<1>5. CASE DeviceWake \/ PortBack
  BY <1>5 DEF DeviceWake, PortBack, device_vars, Paused
<1>6. CASE DeviceHandshake
  BY <1>6 DEF DeviceHandshake, Paused
<1>7. CASE \E next \in {"idle", dev}, back \in BOOLEAN : DeviceDrop(next, back)
  <2>1. to_device' = <<>> /\ handle' # "open" /\ dev' \in {"idle", dev} /\ UNCHANGED <<run, dev_test>>
    BY <1>7 DEF DeviceDrop, PortLost
  <2>2. NoStart(to_device')
    BY <2>1 DEF NoStart
  <2> QED BY <2>1, <2>2 DEF Paused
<1> QED BY <1>1, <1>2, <1>3, <1>4, <1>5, <1>6, <1>7 DEF Device

-----------------------------------------------------------------------------
(* The device and the runs that are watched.                               *)

Unstopped(i) == handle = "open" /\ ~Ended(Stream, i)

LEMMA QuietLines ==
    ASSUME NEW x, \A k \in 1..Len(x) : x[k].kind \notin {"sleep", "test_end", "stopped"}, NEW r, NEW t
    PROVE  Own(x, 0, r, t) /\ LastSleep(x, 0) /\ ~HasSleep(x, 0) /\ Reports(x, 0)
BY DEF Own, LastSleep, HasSleep, Reports

LEMMA SleepLine ==
    ASSUME NEW w, w.kind = "sleep", NEW x, x = <<w, NL>>, NEW r, NEW t
    PROVE  Own(x, 0, r, t) /\ LastSleep(x, 0) /\ Reports(x, 0)
<1>1. /\ Len(x) = 2 /\ \A k \in 1..Len(x) : x[k].kind \in {"sleep", "nl"}
      /\ \A k \in 0 + 1..Len(x) : k \in 1..Len(x) /\ k + 1 >= Len(x)
  BY WordFields
<1> QED BY <1>1 DEF Own, LastSleep, Reports

LEMMA StopLines ==
    ASSUME NEW w, w.kind = "test_end", NEW v, v.kind = "stopped", NEW x, x = <<w, NL, v, NL>>,
           w.run = v.run
    PROVE  /\ Own(x, 0, v.run, v.test) /\ LastSleep(x, 0) /\ ~HasSleep(x, 0)
           /\ Reports(x, 0) /\ Ended(x, 0)
<1>1. /\ Len(x) = 4 /\ x[1] = w /\ x[3] = v /\ x[2].kind = "nl" /\ x[4].kind = "nl"
      /\ \A k \in 0 + 1..Len(x) : k = 1 \/ k = 2 \/ k = 3 \/ k = 4
  BY WordFields
<1>2. 3 \in 0 + 1..Len(x) /\ 3 \in 0 + 1..4 - 1 /\ 1 \in 0 + 1..3 - 1
  BY <1>1
<1>3. \A k \in 0 + 1..Len(x) : x[k].kind # "sleep"
  BY <1>1
<1>4. LastSleep(x, 0) /\ ~HasSleep(x, 0)
  BY <1>3 DEF LastSleep, HasSleep
<1>5. Ended(x, 0)
  BY <1>1, <1>2 DEF Ended
<1>6. Own(x, 0, v.run, v.test)
  BY <1>1 DEF Own
<1>7. Reports(x, 0)
  BY <1>1, <1>2 DEF Reports
<1> QED BY <1>4, <1>5, <1>6, <1>7

LEMMA EmitStream ==
    ASSUME Basic, NEW x \in Seq(Sound), UNCHANGED line_buf, wire' = wire \o x
    PROVE  Stream' = Stream \o x /\ Joins(Stream', Stream, x)
<1>1. line_buf \in Seq(Sound) /\ wire \in Seq(Sound) /\ Stream \in Seq(Sound)
  BY StreamJoins DEF Basic, Typed, BufferTyped, LinkTyped
<1>2. (line_buf \o wire) \o x = line_buf \o (wire \o x)
  BY <1>1, ConcatAssociative
<1>3. Stream' = Stream \o x
  BY <1>2 DEF Stream
<1> HIDE DEF Stream
<1> QED BY <1>1, <1>3, JoinIs

LEMMA DeviceWatched ==
    ASSUME Basic, Basic', Device, NEW i \in 0..Len(Stream), NEW r, NEW t, Watched(i, r, t),
           Unstopped(i) => Running(r, t) \/ Crashed
    PROVE  /\ Watched(i, r, t)'
           /\ Reports(Stream, i) => Reports(Stream', i)
           /\ Unstopped(i)' => /\ Unstopped(i)
                               /\ (Running(r, t) \/ Crashed)'
                               /\ dev # "idle" => dev' # "idle"
<1>0. Paused(r, t) => Paused(r, t)'
  BY DevicePaused
<1>b. UNCHANGED line_buf /\ Stream \in Seq(Sound) /\ i \in Nat /\ i <= Len(Stream) /\ Len(Stream) \in Nat
  BY StreamJoins DEF Device, DeviceIdle, DeviceText, DeviceSleepMarker, DeviceAcked, DeviceSleep, DeviceWake,
       DeviceHandshake, DeviceStop, DeviceDrop, PortBack, buffer_vars
<1>1. CASE Quietly
  <2>1. Stream' = Stream /\ handle' = handle
    BY <1>1, <1>b, SameStream DEF Quietly
  <2>2. Unstopped(i)' => Unstopped(i)
    BY <2>1 DEF Unstopped
  <2>3. Watched(i, r, t)'
    BY <1>0, <2>1 DEF Watched
  <2>4. handle = "open" => (Running(r, t) \/ Crashed => (Running(r, t) \/ Crashed)')
                           /\ (dev # "idle" => dev' # "idle")
    BY <1>1 DEF Quietly, Running
  <2> QED BY <2>1, <2>2, <2>3, <2>4 DEF Unstopped
<1>2. CASE Lost
  <2>1. CutOf(Stream', Stream, 0, Len(line_buf)) /\ handle' # "open"
    BY <1>2, <1>b, LostStream DEF Lost
  <2>2. Len(line_buf) \in Nat /\ Len(Stream') = Len(line_buf) - 0
    BY <2>1, StreamJoins DEF CutOf
  <2>3. CASE i <= Len(line_buf)
    <3>1. i \in 0..Len(Stream') /\ i + 0 = i
      BY <1>b, <2>2, <2>3
    <3>2. /\ Own(Stream, i, r, t) => Own(Stream', i, r, t)
          /\ LastSleep(Stream, i) => LastSleep(Stream', i)
          /\ HasSleep(Stream', i) => HasSleep(Stream, i)
          /\ Reports(Stream, i) => Reports(Stream', i)
      BY <2>1, <3>1, CutFollowed
    <3> QED BY <1>0, <2>1, <3>2 DEF Watched, Unstopped
  <2>4. CASE ~(i <= Len(line_buf))
    <3>1. ~\E j \in i + 1..Len(Stream') : TRUE
      BY <1>b, <2>2, <2>4
    <3> QED BY <2>1, <3>1 DEF Watched, Unstopped, Own, LastSleep, HasSleep, Reports
  <2> QED BY <2>3, <2>4
<1>3. ASSUME NEW x, Emits(x)
      PROVE  /\ Watched(i, r, t)'
             /\ Reports(Stream, i) => Reports(Stream', i)
             /\ Unstopped(i)' => /\ Unstopped(i)
                                 /\ (Running(r, t) \/ Crashed)'
                                 /\ dev # "idle" => dev' # "idle"
  <2>1. x \in Seq(Sound) /\ wire' = wire \o x /\ handle = "open" /\ handle' = "open"
    BY <1>3 DEF Emits, Sends
  <2>2. Stream' = Stream \o x
    BY <1>b, <2>1, EmitStream
  <2>3. ~Paused(r, t) /\ dev \in {"idle", "running"}
    BY <1>3, <2>1 DEF Emits, Plain, Begins, Sleeps, Stops, Paused
  <2>4. ~HasSleep(Stream, i) /\ Own(Stream, i, r, t)
    BY <2>3 DEF Watched
  <2>5. /\ Own(Stream, i, r, t) /\ (Ended(Stream, i) \/ Own(x, 0, r, t)) => Own(Stream', i, r, t)
        /\ ~HasSleep(Stream, i) /\ (Ended(Stream, i) \/ LastSleep(x, 0)) => LastSleep(Stream', i)
        /\ HasSleep(Stream', i) => HasSleep(Stream, i) \/ (~Ended(Stream, i) /\ HasSleep(x, 0))
        /\ Reports(Stream, i) /\ (Ended(Stream, i) \/ Reports(x, 0)) => Reports(Stream', i)
        /\ Ended(Stream, i) \/ Ended(x, 0) => Ended(Stream', i)
    BY <1>b, <2>1, <2>2, MoreFollowed
  <2>6. CASE Ended(Stream, i)
    <3>1. Own(Stream', i, r, t) /\ LastSleep(Stream', i) /\ ~HasSleep(Stream', i) /\ Ended(Stream', i)
          /\ (Reports(Stream, i) => Reports(Stream', i))
      BY <2>4, <2>5, <2>6
    <3> QED BY <3>1 DEF Watched, Unstopped
  <2>7. CASE ~Ended(Stream, i)
    <3>0. Unstopped(i) /\ (Running(r, t) \/ Crashed)
      BY <2>1, <2>7 DEF Unstopped
    <3>1. SUFFICES /\ Own(x, 0, r, t) /\ LastSleep(x, 0) /\ Reports(x, 0)
                   /\ HasSleep(x, 0) => Paused(r, t)'
                   /\ Ended(x, 0) \/ ((Running(r, t) \/ Crashed)' /\ (dev # "idle" => dev' # "idle"))
      <4>1. /\ Own(Stream', i, r, t) /\ LastSleep(Stream', i)
            /\ HasSleep(Stream', i) => HasSleep(x, 0)
            /\ Reports(Stream, i) => Reports(Stream', i)
            /\ Ended(x, 0) => Ended(Stream', i)
        BY <2>4, <2>5, <3>1
      <4> QED BY <3>0, <3>1, <4>1 DEF Watched, Unstopped
    <3>2. CASE Plain(x)
      <4>1. /\ Own(x, 0, r, t) /\ LastSleep(x, 0) /\ ~HasSleep(x, 0) /\ Reports(x, 0)
        BY <3>2, QuietLines DEF Plain
      <4>2. (Running(r, t) \/ Crashed)' /\ (dev # "idle" => dev' # "idle")
        BY <3>0, <3>2 DEF Plain, Running
      <4> QED BY <4>1, <4>2
    <3>3. CASE Begins(x)
      BY <3>0, <3>3 DEF Begins, Running, Crashed
    <3>4. CASE Sleeps(x)
      <4>1. PICK d \in Durations : x = <<Word("sleep", dev_test, run, d), NL>>
        BY <3>4 DEF Sleeps
      <4>2. Word("sleep", dev_test, run, d).kind = "sleep"
        BY WordFields
      <4>3. Own(x, 0, r, t) /\ LastSleep(x, 0) /\ Reports(x, 0)
        BY <4>1, <4>2, SleepLine
      <4>4. run' = r /\ dev_test' = t /\ dev' = "await_ack"
        BY <3>0, <3>4 DEF Sleeps, Running, Crashed
      <4> QED BY <4>3, <4>4 DEF Paused, Running
    <3>5. CASE Stops(x)
      <4> DEFINE w == Word("test_end", dev_test, run, Verdicts[run])
                 v == Word("stopped", dev_test, run, None)
      <4>1. x = <<w, NL, v, NL>> /\ run = r /\ dev_test = t
        BY <3>0, <3>5 DEF Stops, Running, Crashed
      <4>2. w.kind = "test_end" /\ v.kind = "stopped" /\ w.run = v.run /\ v.run = r /\ v.test = t
        BY <4>1, WordFields
      <4> HIDE DEF w, v
      <4>3. /\ Own(x, 0, v.run, v.test) /\ LastSleep(x, 0) /\ ~HasSleep(x, 0)
            /\ Reports(x, 0) /\ Ended(x, 0)
        BY <4>1, <4>2, StopLines
      <4> QED BY <4>2, <4>3
    <3> QED BY <1>3, <3>2, <3>3, <3>4, <3>5 DEF Emits
  <2> QED BY <2>6, <2>7
<1> QED BY <1>1, <1>2, <1>3, DeviceDoes

-----------------------------------------------------------------------------
(* The verdict.                                                            *)

\* Every word is followed by its NL, in what was read over this connection.
WholeLines ==
    /\ \A i \in leftover + 1..Len(Stream) :
          i < Len(Stream) /\ Stream[i] # NL => Stream[i + 1] = NL
    /\ handle = "open" /\ leftover < Len(Stream) => Stream[Len(Stream)] = NL

\* Token i is the TEST_STARTED marker of the run r of test t.
Starts(i, r, t) ==
    /\ i \in leftover + 1..Len(Stream)
    /\ Stream[i].kind = "started" /\ Stream[i].run = r /\ Stream[i].test = t

StartsFollowed ==
    \A i, r, t : Starts(i, r, t) =>
        /\ Watched(i, r, t)
        /\ Reports(Stream, i)
        /\ Unstopped(i) => Running(r, t)

SawEnd == \E l \in 1..Len(serial_log) : IsMarker(serial_log[l], "test_end")

\* start_test saw the run r of test t start, and its end was not seen.
Monitored(r, t) ==
    started = r /\ test_id = t /\ started # None /\ ~misled /\ outcome.stopped = None

StartedFollowed ==
    \A r, t : Monitored(r, t) =>
        /\ leftover = 0
        /\ Watched(0, r, t)
        /\ Unstopped(0) => Running(r, t) \/ Crashed
        /\ at = "acking" \/ handle = "closed" => Paused(r, t)
        /\ Reports(Stream, 0) \/ again \/ SawEnd

StatusInv ==
    /\ call = "monitor" /\ ~misled => outcome.status = IF SawEnd THEN Verdicts[started] ELSE "ok"
    /\ call # "monitor" /\ outcome = NoOutcome => serial_log = <<>>
    /\ call \in {"discover", "start"} => handle # "closed"
    /\ VerdictOfThisRun

VerdictInv == WholeLines /\ StartsFollowed /\ StartedFollowed /\ StatusInv

LEMMA DeviceUnchanged ==
    ASSUME Device
    PROVE  UNCHANGED <<call, at, test_id, line_buf, leftover, outcome, serial_log, started, misled, again>>
BY DEF Device, DeviceIdle, DeviceText, DeviceSleepMarker, DeviceAcked, DeviceSleep, DeviceWake,
       DeviceHandshake, DeviceStop, DeviceDrop, PortBack, call_vars, buffer_vars, monitor_vars, start_vars, fault_vars,
       bound_vars

LEMMA DeviceLines ==
    ASSUME Basic, Basic', Device, WholeLines
    PROVE  WholeLines'
<1>0. UNCHANGED <<line_buf, leftover>> /\ leftover \in Nat /\ leftover <= Len(Stream) /\ Len(Stream) \in Nat
      /\ leftover <= Len(line_buf) /\ Len(line_buf) \in Nat
  BY DeviceUnchanged, StreamJoins
<1>1. CASE Quietly
  <2>1. Stream' = Stream /\ handle' = handle
    BY <1>0, <1>1, SameStream DEF Quietly
  <2> QED BY <1>0, <2>1 DEF WholeLines
<1>2. CASE Lost
  <2>1. CutOf(Stream', Stream, 0, Len(line_buf)) /\ handle' # "open"
    BY <1>0, <1>2, LostStream DEF Lost
  <2>2. Len(Stream') = Len(line_buf) /\ Len(line_buf) <= Len(Stream) /\ \A i \in 1..Len(line_buf) : Stream'[i] = Stream[i]
    BY <1>0, <2>1 DEF CutOf
  <2> QED BY <1>0, <2>1, <2>2, SMTT(60) DEF WholeLines
<1>3. ASSUME NEW x, Emits(x) PROVE WholeLines'
  <2>1. /\ x \in Seq(Sound) /\ x # <<>> /\ x[Len(x)] = NL /\ wire' = wire \o x /\ handle = "open"
        /\ \A k \in 1..Len(x) : k < Len(x) /\ x[k] # NL => x[k + 1] = NL
    BY <1>3 DEF Emits, Sends
  <2>2. Joins(Stream', Stream, x)
    BY <1>0, <2>1, EmitStream
  <2>3. /\ Len(x) \in Nat /\ Len(x) >= 1 /\ Len(Stream') = Len(Stream) + Len(x)
        /\ \A i \in 1..Len(Stream) : Stream'[i] = Stream[i]
        /\ \A i \in 1..Len(x) : Stream'[i + Len(Stream)] = x[i]
    BY <2>1, <2>2 DEF Joins
  <2>4. Stream'[Len(Stream')] = NL
    BY <1>0, <2>1, <2>3
  <2>5. ASSUME NEW i \in leftover + 1..Len(Stream'), i < Len(Stream'), Stream'[i] # NL
        PROVE  Stream'[i + 1] = NL
    <3>1. CASE i <= Len(Stream)
      <4>1. Stream[i] # NL
        BY <1>0, <2>3, <2>5, <3>1
      <4>2. i # Len(Stream)
        BY <1>0, <2>1, <2>5, <4>1 DEF WholeLines
      <4>3. i + 1 \in 1..Len(Stream) /\ i \in leftover + 1..Len(Stream) /\ i < Len(Stream)
        BY <1>0, <2>5, <3>1, <4>2
      <4> QED BY <2>3, <4>1, <4>3 DEF WholeLines
    <3>2. CASE ~(i <= Len(Stream))
      <4>1. /\ i - Len(Stream) \in 1..Len(x) /\ (i - Len(Stream)) + Len(Stream) = i
            /\ (i - Len(Stream)) + 1 \in 1..Len(x) /\ ((i - Len(Stream)) + 1) + Len(Stream) = i + 1
            /\ i - Len(Stream) < Len(x)
        BY <1>0, <2>3, <2>5, <3>2
      <4> QED BY <2>1, <2>3, <2>5, <4>1
    <3> QED BY <3>1, <3>2
  <2> QED BY <1>0, <2>4, <2>5 DEF WholeLines
<1> QED BY <1>1, <1>2, <1>3, DeviceDoes

LEMMA DeviceStarts ==
    ASSUME Basic, Basic', Device, StartsFollowed
    PROVE  StartsFollowed'
<1> SUFFICES ASSUME NEW i, NEW r, NEW t, Starts(i, r, t)'
             PROVE  /\ Watched(i, r, t)'
                    /\ Reports(Stream', i)
                    /\ Unstopped(i)' => Running(r, t)'
  BY DEF StartsFollowed
<1>0. UNCHANGED <<line_buf, leftover>> /\ leftover \in Nat /\ leftover <= Len(Stream) /\ Len(Stream) \in Nat
      /\ Len(line_buf) \in Nat
  BY DeviceUnchanged, StreamJoins
<1>1. CASE Starts(i, r, t)
  <2>1. Watched(i, r, t) /\ Reports(Stream, i) /\ (Unstopped(i) => Running(r, t))
    BY <1>1 DEF StartsFollowed
  <2>2. i \in 0..Len(Stream)
    BY <1>0, <1>1 DEF Starts
  <2>3. /\ Watched(i, r, t)'
        /\ Reports(Stream, i) => Reports(Stream', i)
        /\ Unstopped(i)' => /\ Unstopped(i)
                            /\ (Running(r, t) \/ Crashed)'
                            /\ dev # "idle" => dev' # "idle"
    BY <2>1, <2>2, DeviceWatched
  <2> QED BY <2>1, <2>3 DEF Running, Crashed
<1>2. CASE ~Starts(i, r, t)
  <2>1. CASE Quietly
    <3>1. Stream' = Stream
      BY <1>0, <2>1, SameStream DEF Quietly
    <3> QED BY <1>0, <1>2, <3>1 DEF Starts
  <2>2. CASE Lost
    <3>1. CutOf(Stream', Stream, 0, Len(line_buf))
      BY <1>0, <2>2, LostStream DEF Lost
    <3>2. Len(Stream') = Len(line_buf) /\ Len(line_buf) <= Len(Stream) /\ \A k \in 1..Len(line_buf) : Stream'[k] = Stream[k]
      BY <1>0, <3>1 DEF CutOf
    <3> QED BY <1>0, <1>2, <3>2 DEF Starts
  <2>3. ASSUME NEW x, Emits(x)
        PROVE  /\ Watched(i, r, t)'
               /\ Reports(Stream', i)
               /\ Unstopped(i)' => Running(r, t)'
    <3>1. x \in Seq(Sound) /\ wire' = wire \o x
      BY <2>3 DEF Emits, Sends
    <3>2. Joins(Stream', Stream, x)
      BY <1>0, <3>1, EmitStream
    <3>3. /\ Len(x) \in Nat /\ Len(Stream') = Len(Stream) + Len(x)
          /\ \A k \in 1..Len(Stream) : Stream'[k] = Stream[k]
          /\ \A k \in 1..Len(x) : Stream'[k + Len(Stream)] = x[k]
      BY <3>2 DEF Joins
    <3>4. i - Len(Stream) \in 1..Len(x) /\ (i - Len(Stream)) + Len(Stream) = i
      BY <1>0, <1>2, <3>3 DEF Starts
    <3>5. Stream'[i] = x[i - Len(Stream)] /\ x[i - Len(Stream)].kind = "started"
      BY <3>3, <3>4 DEF Starts
    <3>6. ~Plain(x)
      BY <3>4, <3>5 DEF Plain
    <3>7. ~Sleeps(x)
      <4>1. ASSUME NEW d, x = <<Word("sleep", dev_test, run, d), NL>> PROVE FALSE
        <5>1. i - Len(Stream) = 1 \/ i - Len(Stream) = 2
          BY <3>4, <4>1
        <5> QED BY <3>5, <4>1, <5>1, WordFields
      <4> QED BY <4>1 DEF Sleeps
    <3>8. ~Stops(x)
      <4>1. ASSUME NEW a, NEW b, a.kind = "test_end", b.kind = "stopped", x = <<a, NL, b, NL>> PROVE FALSE
        <5>1. i - Len(Stream) = 1 \/ i - Len(Stream) = 2 \/ i - Len(Stream) = 3 \/ i - Len(Stream) = 4
          BY <3>4, <4>1
        <5> QED BY <3>5, <4>1, <5>1, WordFields
      <4> QED BY <4>1, WordFields DEF Stops
    <3>9. Begins(x)
      BY <2>3, <3>6, <3>7, <3>8 DEF Emits
    <3> DEFINE w == Word("started", dev_test', run', None)
    <3>10. x = <<w, NL>> /\ w.run = run' /\ w.test = dev_test' /\ w.kind = "started" /\ dev' = "running"
           /\ NL.kind = "nl"
      BY <3>9, WordFields DEF Begins
    <3> HIDE DEF w
    <3>11. Len(x) = 2 /\ x[1] = w /\ x[2] = NL
      BY <3>10
    <3>12. i - Len(Stream) = 1
      BY <3>4, <3>5, <3>10, <3>11
    <3>13. run' = r /\ dev_test' = t
      BY <3>5, <3>10, <3>11, <3>12 DEF Starts
    <3>14. ASSUME NEW j \in i + 1..Len(Stream') PROVE Stream'[j].kind = "nl"
      <4>1. j = 2 + Len(Stream)
        BY <1>0, <3>3, <3>4, <3>11, <3>12
      <4> QED BY <3>3, <3>10, <3>11, <4>1
    <3>15. Own(Stream', i, r, t) /\ LastSleep(Stream', i) /\ ~HasSleep(Stream', i) /\ Reports(Stream', i)
      BY <3>14 DEF Own, LastSleep, HasSleep, Reports
    <3> QED BY <3>10, <3>13, <3>15 DEF Watched, Running
  <2> QED BY <2>1, <2>2, <2>3, DeviceDoes
<1> QED BY <1>1, <1>2

LEMMA DeviceStarted ==
    ASSUME Basic, Basic', Device, StartedFollowed
    PROVE  StartedFollowed'
<1> SUFFICES ASSUME NEW r, NEW t, Monitored(r, t)'
             PROVE  /\ leftover' = 0
                    /\ Watched(0, r, t)'
                    /\ Unstopped(0)' => (Running(r, t) \/ Crashed)'
                    /\ at' = "acking" \/ handle' = "closed" => Paused(r, t)'
                    /\ Reports(Stream', 0) \/ again' \/ SawEnd'
  BY DEF StartedFollowed
<1>0. UNCHANGED <<call, at, test_id, line_buf, leftover, outcome, serial_log, started, misled, again>>
  BY DeviceUnchanged
<1>1. Monitored(r, t)
  BY <1>0 DEF Monitored
<1>2. /\ leftover = 0 /\ Watched(0, r, t) /\ (Unstopped(0) => Running(r, t) \/ Crashed)
      /\ (at = "acking" \/ handle = "closed" => Paused(r, t)) /\ (Reports(Stream, 0) \/ again \/ SawEnd)
  BY <1>1 DEF StartedFollowed
<1>3. 0 \in 0..Len(Stream)
  BY StreamJoins
<1>4. /\ Watched(0, r, t)'
      /\ Reports(Stream, 0) => Reports(Stream', 0)
      /\ Unstopped(0)' => (Running(r, t) \/ Crashed)'
  BY <1>2, <1>3, DeviceWatched
<1>5. handle' = "closed" => handle = "closed"
  BY DeviceDoes DEF Quietly, Lost, Emits
<1>6. at' = "acking" \/ handle' = "closed" => Paused(r, t)'
  BY <1>0, <1>2, <1>5, DevicePaused
<1> QED BY <1>0, <1>2, <1>4, <1>6 DEF SawEnd

LEMMA DeviceVerdict ==
    ASSUME Basic, Basic', Device, VerdictInv
    PROVE  VerdictInv'
<1>0. handle' = "closed" => handle = "closed"
  BY DeviceDoes DEF Quietly, Lost, Emits
<1>1. StatusInv'
  BY <1>0, DeviceUnchanged DEF VerdictInv, StatusInv, SawEnd, VerdictOfThisRun
<1> QED BY <1>1, DeviceLines, DeviceStarts, DeviceStarted DEF VerdictInv

-----------------------------------------------------------------------------
(* The host's steps and the runs that are watched.                         *)

\* The device stays as it is, and the host writes to it only over an open port.
DevKept ==
    /\ UNCHANGED <<dev, dev_test, run>>
    /\ handle' \in {handle, "closed"}
    /\ handle = "open" \/ to_device' = to_device

LEMMA KeptRuns ==
    ASSUME DevKept, NEW r, NEW t
    PROVE  (Paused(r, t) => Paused(r, t)') /\ (Running(r, t) => Running(r, t)')
BY DEF DevKept, Paused, Running

\* The first e tokens leave the stream, and with the connection those behind m.
Leaves(e, m) ==
    /\ CutOf(Stream', Stream, e, m)
    /\ handle' = "open" => m = Len(Stream)
    /\ leftover' = IF leftover > e THEN leftover - e ELSE 0

LEMMA LeavesFacts ==
    ASSUME Basic, NEW e, NEW m, Leaves(e, m)
    PROVE  /\ e \in Nat /\ m \in Nat /\ e <= m /\ m <= Len(Stream) /\ Len(Stream) \in Nat
           /\ leftover \in Nat /\ leftover' \in Nat /\ leftover' + e >= leftover
           /\ Len(Stream') = m - e /\ Len(Stream') \in Nat
           /\ \A i \in 1..Len(Stream') : Stream'[i] = Stream[i + e]
<1>1. leftover \in Nat
  BY StreamJoins
<1>2. /\ e \in Nat /\ m \in Nat /\ e <= m /\ m <= Len(Stream) /\ Stream \in Seq(Sound)
      /\ Len(Stream') = m - e /\ \A i \in 1..m - e : Stream'[i] = Stream[i + e]
  BY DEF Leaves, CutOf
<1>3. Len(Stream) \in Nat
  BY StreamJoins
<1> QED BY <1>1, <1>2, <1>3 DEF Leaves

LEMMA ShiftIndex ==
    ASSUME NEW e \in Nat, NEW low \in Nat, NEW l \in Nat, l + e >= low, NEW n \in Nat, NEW k \in Nat,
           n + e <= k, NEW i \in l + 1..n
    PROVE  /\ i \in 1..n /\ i \in 0..n /\ i + e \in low + 1..k /\ (i + 1) + e = (i + e) + 1
           /\ i < n => i + 1 \in 1..n /\ i + e < k
OBVIOUS

LEMMA LeavesLines ==
    ASSUME Basic, NEW e, NEW m, Leaves(e, m), DevKept, WholeLines
    PROVE  WholeLines'
<1>0. /\ e \in Nat /\ m \in Nat /\ e <= m /\ m <= Len(Stream) /\ Len(Stream) \in Nat
      /\ leftover \in Nat /\ leftover' \in Nat /\ leftover' + e >= leftover
      /\ Len(Stream') = m - e /\ Len(Stream') \in Nat
      /\ \A i \in 1..Len(Stream') : Stream'[i] = Stream[i + e]
  BY LeavesFacts
<1>l. Len(Stream') + e = m /\ Len(Stream') + e <= Len(Stream)
  BY <1>0
<1>n. /\ e \in Nat /\ leftover \in Nat /\ leftover' \in Nat /\ leftover' + e >= leftover
      /\ Len(Stream') \in Nat /\ Len(Stream) \in Nat
  BY <1>0
<1>1. ASSUME NEW i \in leftover' + 1..Len(Stream'), i < Len(Stream'), Stream'[i] # NL
      PROVE  Stream'[i + 1] = NL
  <2>1. i + e \in leftover + 1..Len(Stream) /\ i + e < Len(Stream) /\ i \in 1..Len(Stream')
    BY <1>0, <1>1, <1>l, ShiftIndex
  <2>b. i < Len(Stream')
    BY <1>1
  <2>c. i \in Nat
    BY <2>1, <1>n
  <2>a. i \in Nat /\ i < Len(Stream')
    BY <2>b, <2>c
  <2>2. i + 1 \in 1..Len(Stream') /\ (i + 1) + e = (i + e) + 1
    <3>1. ASSUME NEW n \in Nat, NEW k \in Nat, NEW d \in Nat, k < n
          PROVE  k + 1 \in 1..n /\ (k + 1) + d = (k + d) + 1
      BY <3>1
    <3> QED BY <1>n, <2>a, <3>1
  <2>3. Stream[i + e] # NL
    BY <1>0, <1>1, <2>1
  <2>4. Stream[(i + e) + 1] = NL
    BY <2>1, <2>3 DEF WholeLines
  <2> QED BY <1>0, <2>2, <2>4
<1>2. ASSUME handle' = "open", leftover' < Len(Stream') PROVE Stream'[Len(Stream')] = NL
  <2>1. handle = "open" /\ m = Len(Stream)
    BY <1>2 DEF DevKept, Leaves
  <2>a. leftover' + 1 <= Len(Stream') /\ Len(Stream') \in leftover' + 1..Len(Stream')
    BY <1>n, <1>2
  <2>b. Len(Stream') + e \in leftover + 1..Len(Stream) /\ Len(Stream') \in 1..Len(Stream')
    BY <1>n, <1>l, <2>a, ShiftIndex
  <2>2. Len(Stream') \in 1..Len(Stream') /\ Len(Stream') + e = Len(Stream) /\ leftover < Len(Stream)
    BY <1>0, <1>l, <2>1, <2>b
  <2>3. Stream[Len(Stream)] = NL
    BY <2>1, <2>2 DEF WholeLines
  <2>4. Stream'[Len(Stream')] = Stream[Len(Stream') + e]
    BY <1>0, <2>2
  <2> QED BY <2>2, <2>3, <2>4
<1> QED BY <1>1, <1>2 DEF WholeLines

\* A run that is watched from a token behind those that leave.
LEMMA LeavesWatched ==
    ASSUME Basic, NEW e, NEW m, Leaves(e, m), DevKept, NEW i \in 0..Len(Stream'), NEW r, NEW t,
           Watched(i + e, r, t)
    PROVE  /\ Watched(i, r, t)'
           /\ Unstopped(i)' => Unstopped(i + e)
           /\ Reports(Stream, i + e) => Reports(Stream', i)
<1>1. CutOf(Stream', Stream, e, m) /\ (handle' = "open" => m = Len(Stream))
  BY DEF Leaves
<1>2. /\ Own(Stream, i + e, r, t) => Own(Stream', i, r, t)
      /\ LastSleep(Stream, i + e) => LastSleep(Stream', i)
      /\ HasSleep(Stream', i) => HasSleep(Stream, i + e)
      /\ Reports(Stream, i + e) => Reports(Stream', i)
      /\ m = Len(Stream) /\ Ended(Stream, i + e) => Ended(Stream', i)
  BY <1>1, CutFollowed
<1>3. Unstopped(i)' => Unstopped(i + e)
  BY <1>1, <1>2 DEF Unstopped, DevKept
<1> QED BY <1>2, <1>3, KeptRuns DEF Watched

LEMMA LeavesStarts ==
    ASSUME Basic, NEW e, NEW m, Leaves(e, m), DevKept, StartsFollowed
    PROVE  StartsFollowed'
<1> SUFFICES ASSUME NEW i, NEW r, NEW t, Starts(i, r, t)'
             PROVE  /\ Watched(i, r, t)'
                    /\ Reports(Stream', i)
                    /\ Unstopped(i)' => Running(r, t)'
  BY DEF StartsFollowed
<1>0. /\ e \in Nat /\ m \in Nat /\ e <= m /\ m <= Len(Stream) /\ Len(Stream) \in Nat
      /\ leftover \in Nat /\ leftover' \in Nat /\ leftover' + e >= leftover
      /\ Len(Stream') = m - e /\ Len(Stream') \in Nat
      /\ \A k \in 1..Len(Stream') : Stream'[k] = Stream[k + e]
  BY LeavesFacts
<1>1. i \in leftover' + 1..Len(Stream')
  BY DEF Starts
<1>l. Len(Stream') + e = m /\ Len(Stream') + e <= Len(Stream)
  BY <1>0
<1>2. i + e \in leftover + 1..Len(Stream) /\ i \in 1..Len(Stream') /\ i \in 0..Len(Stream')
  BY <1>0, <1>1, <1>l, ShiftIndex
<1>3. Starts(i + e, r, t)
  BY <1>0, <1>2 DEF Starts
<1>4. Watched(i + e, r, t) /\ Reports(Stream, i + e) /\ (Unstopped(i + e) => Running(r, t))
  BY <1>3 DEF StartsFollowed
<1>5. /\ Watched(i, r, t)'
      /\ Unstopped(i)' => Unstopped(i + e)
      /\ Reports(Stream, i + e) => Reports(Stream', i)
  BY <1>2, <1>4, LeavesWatched
<1> QED BY <1>4, <1>5, KeptRuns

\* What start_test saw stays watched when the tokens that leave end no run.
LEMMA LeavesStarted ==
    ASSUME Basic, NEW e, NEW m, Leaves(e, m), DevKept, StartedFollowed,
           NEW r, NEW t, Monitored(r, t), NoStop(Stream, 0, e + 1),
           NoStart(to_device) => NoStart(to_device'),
           at' = "acking" \/ handle' = "closed" => at = "acking" \/ handle = "closed" \/ Paused(r, t),
           \/ SawEnd'
           \/ (again => again') /\ (SawEnd => SawEnd') /\ \A j \in 1..e : Stream[j].kind # "test_end"
    PROVE  /\ leftover' = 0
           /\ Watched(0, r, t)'
           /\ Unstopped(0)' => (Running(r, t) \/ Crashed)'
           /\ at' = "acking" \/ handle' = "closed" => Paused(r, t)'
           /\ Reports(Stream', 0) \/ again' \/ SawEnd'
<1>0. /\ e \in Nat /\ e <= Len(Stream) /\ leftover \in Nat /\ Len(Stream') \in Nat
      /\ Stream \in Seq(Sound)
  BY LeavesFacts, StreamJoins
<1>1. /\ leftover = 0 /\ Watched(0, r, t) /\ (Unstopped(0) => Running(r, t) \/ Crashed)
      /\ (at = "acking" \/ handle = "closed" => Paused(r, t)) /\ (Reports(Stream, 0) \/ again \/ SawEnd)
  BY DEF StartedFollowed
<1>2. leftover' = 0
  BY <1>0, <1>1 DEF Leaves
<1>3. /\ Own(Stream, 0, r, t) => Own(Stream, e, r, t)
      /\ LastSleep(Stream, 0) => LastSleep(Stream, e)
      /\ HasSleep(Stream, e) => HasSleep(Stream, 0)
      /\ Ended(Stream, 0) => Ended(Stream, e)
      /\ Reports(Stream, 0) /\ (\A j \in 0 + 1..e : Stream[j].kind # "test_end") => Reports(Stream, e)
  BY <1>0, LaterFollowed, SMTT(60)
<1>4. Watched(e, r, t) /\ (Unstopped(e) => Unstopped(0)) /\ 0 + e = e /\ 0 \in 0..Len(Stream')
  BY <1>0, <1>1, <1>3 DEF Watched, Unstopped
<1>5. /\ Watched(0, r, t)'
      /\ Unstopped(0)' => Unstopped(e)
      /\ Reports(Stream, e) => Reports(Stream', 0)
  <2>1. Watched(0 + e, r, t)
    BY <1>4
  <2>2. /\ Watched(0, r, t)'
        /\ Unstopped(0)' => Unstopped(0 + e)
        /\ Reports(Stream, 0 + e) => Reports(Stream', 0)
    BY <1>4, <2>1, LeavesWatched
  <2> QED BY <1>4, <2>2
<1>6. Running(r, t) \/ Crashed => (Running(r, t) \/ Crashed)'
  <2>1. Crashed => Crashed'
    BY DEF Crashed, DevKept
  <2> QED BY <2>1, KeptRuns
<1>7. at' = "acking" \/ handle' = "closed" => Paused(r, t)'
  BY <1>1, KeptRuns
<1>8. Reports(Stream', 0) \/ again' \/ SawEnd'
  <2>1. 0 + 1 = 1
    OBVIOUS
  <2> QED BY <1>1, <1>3, <1>5, <2>1
<1> QED BY <1>1, <1>2, <1>4, <1>5, <1>6, <1>7, <1>8

\* What the tokens that leave may be when no call looks at them.
Skips(e, m) ==
    /\ Leaves(e, m)
    /\ handle' = handle \/ (handle' = "closed" /\ at = "acking")
    /\ at' = "acking" => at = "acking"
    /\ \A j \in 1..e : Stream[j].kind \notin {"test_end", "stopped"}

LEMMA SkipsStarted ==
    ASSUME Basic, StartedFollowed, NEW e, NEW m, Skips(e, m), DevKept,
           UNCHANGED <<test_id, started, misled, again, serial_log>>, outcome'.stopped = outcome.stopped,
           NoStart(to_device) => NoStart(to_device')
    PROVE  StartedFollowed'
<1> SUFFICES ASSUME NEW r, NEW t, Monitored(r, t)'
             PROVE  /\ leftover' = 0
                    /\ Watched(0, r, t)'
                    /\ Unstopped(0)' => (Running(r, t) \/ Crashed)'
                    /\ at' = "acking" \/ handle' = "closed" => Paused(r, t)'
                    /\ Reports(Stream', 0) \/ again' \/ SawEnd'
  BY DEF StartedFollowed
<1>1. Monitored(r, t)
  BY DEF Monitored
<1>2. e \in Nat
  BY LeavesFacts DEF Skips
<1>3. \A j \in 0 + 1..(e + 1) - 1 : j \in 1..e
  BY <1>2
<1>4. NoStop(Stream, 0, e + 1)
  BY <1>3 DEF NoStop, Skips
<1>5. SawEnd => SawEnd'
  BY DEF SawEnd
<1> QED BY <1>1, <1>4, <1>5, LeavesStarted DEF Skips

LEMMA SkipsVerdict ==
    ASSUME Basic, VerdictInv, NEW e, NEW m, Skips(e, m), DevKept,
           UNCHANGED <<test_id, started, misled, again, serial_log>>, outcome'.stopped = outcome.stopped,
           NoStart(to_device) => NoStart(to_device'),
           \/ UNCHANGED <<call, outcome>>
           \/ call \in {"discover", "start"} /\ call' = "none" /\ UNCHANGED outcome
           \/ call = "monitor" /\ call' = "none" /\ outcome'.warnings # {}
    PROVE  VerdictInv'
<1>1. Leaves(e, m) /\ (handle' = handle \/ call = "monitor")
  BY DEF Skips, Basic, CallInv
<1>2. WholeLines' /\ StartsFollowed'
  BY <1>1, LeavesLines, LeavesStarts DEF VerdictInv
<1>3. StartedFollowed'
  BY SkipsStarted DEF VerdictInv
<1>4. StatusInv'
  <2>1. SawEnd' = SawEnd
    BY DEF SawEnd
  <2>2. CASE UNCHANGED <<call, outcome>>
    BY <1>1, <2>1, <2>2 DEF VerdictInv, StatusInv, VerdictOfThisRun
  <2>3. CASE call \in {"discover", "start"} /\ call' = "none" /\ UNCHANGED outcome
    BY <2>3 DEF VerdictInv, StatusInv, VerdictOfThisRun
  <2>4. CASE call = "monitor" /\ call' = "none" /\ outcome'.warnings # {}
    <3>1. outcome' # NoOutcome /\ outcome'.stopped = None
      BY <2>4, NoOutcomeFields DEF Basic, CallInv
    <3> QED BY <2>4, <3>1 DEF StatusInv, VerdictOfThisRun
  <2> QED BY <2>2, <2>3, <2>4
<1> QED BY <1>2, <1>3, <1>4 DEF VerdictInv

\* A step that takes nothing of the stream.
LEMMA StillVerdict ==
    ASSUME Basic, VerdictInv, UNCHANGED <<line_buf, leftover, wire, handle>>, DevKept, at' # "acking" \/ at' = at,
           UNCHANGED <<test_id, started, misled, again, serial_log>>, outcome'.stopped = outcome.stopped,
           NoStart(to_device) => NoStart(to_device'),
           \/ UNCHANGED <<call, outcome>>
           \/ call \in {"discover", "start"} /\ call' = "none" /\ UNCHANGED outcome
           \/ call = "monitor" /\ call' = "none" /\ outcome'.warnings # {}
    PROVE  VerdictInv'
<1>0. leftover \in Nat
  BY StreamJoins
<1>1. Skips(0, Len(Stream))
  BY <1>0, SameStream DEF Leaves, Skips
<1> QED BY <1>1, SkipsVerdict

LEMMA FailVerdict ==
    ASSUME Basic, NEW s, NEW w, Fail(s, w)
    PROVE  outcome'.stopped = outcome.stopped /\ outcome'.warnings # {} /\ call' = "none" /\ UNCHANGED test_id
<1>1. outcome' = [outcome EXCEPT !.status = s, !.warnings = @ \cup {w}] /\ outcome \in Outcomes
  BY GoneTypes DEF Fail
<1>2. outcome'.stopped = outcome.stopped /\ outcome'.warnings = outcome.warnings \cup {w}
  BY <1>1, OutcomeFields
<1> QED BY <1>2 DEF Fail, Return

LEMMA TimedVerdict ==
    ASSUME Basic, VerdictInv,
           ReadTimesOut \/ CallTop \/ MonitorTimesOut \/ MonitorReads \/ MonitorPolls \/ PolledBeforeSleep
           \/ PolledAsleep \/ ConnectFails \/ CommandWritten \/ SohWritten \/ NextAttempt \/ ReconnectFails
    PROVE  VerdictInv'
<1>1. /\ UNCHANGED <<buffer_vars, link_vars, device_vars, start_vars, again, serial_log>>
  BY DEF ReadTimesOut, CallTop, MonitorTimesOut, MonitorReads, MonitorPolls, PolledBeforeSleep, PolledAsleep,
       ConnectFails, CommandWritten, SohWritten, NextAttempt, ReconnectFails, Environment, fault_vars, bound_vars,
       monitor_vars, Unmonitored
<1>a. at' # "acking"
  BY DEF ReadTimesOut, CallTop, MonitorTimesOut, MonitorReads, MonitorPolls, PolledBeforeSleep, PolledAsleep,
       ConnectFails, CommandWritten, SohWritten, NextAttempt, ReconnectFails, Attempt, Retry, Fail, Return,
       LoopAgain, StartReading
<1>2. /\ UNCHANGED <<line_buf, leftover, wire, handle, started, misled, to_device>> /\ DevKept
      /\ at' # "acking" \/ at' = at
  BY <1>1, <1>a DEF buffer_vars, link_vars, device_vars, start_vars, DevKept
<1>3. CASE UNCHANGED <<call, test_id, outcome>>
  BY <1>1, <1>2, <1>3, StillVerdict
<1>4. CASE call \in {"discover", "start"} /\ call' = "none" /\ UNCHANGED <<test_id, outcome>>
  BY <1>1, <1>2, <1>4, StillVerdict
<1>5. ASSUME NEW s, NEW w, Fail(s, w), call = "monitor" PROVE VerdictInv'
  <2>1. outcome'.stopped = outcome.stopped /\ outcome'.warnings # {} /\ call' = "none" /\ UNCHANGED test_id
    BY <1>5, FailVerdict
  <2> QED BY <1>1, <1>2, <1>5, <2>1, StillVerdict
<1>6. CASE ReadTimesOut \/ MonitorReads \/ PolledAsleep \/ ConnectFails \/ SohWritten \/ NextAttempt
  BY <1>3, <1>6 DEF ReadTimesOut, MonitorReads, PolledAsleep, ConnectFails, SohWritten, NextAttempt, Attempt,
       Retry, LoopAgain, StartReading, monitor_vars
<1>7. CASE CallTop \/ CommandWritten
  <2>1. call \in {"discover", "start"}
    BY <1>7 DEF CallTop, CommandWritten, Basic, CallInv
  <2> QED BY <1>3, <1>4, <1>7, <2>1 DEF CallTop, CommandWritten, StartReading, LoopAgain, Return, monitor_vars
<1>8. CASE MonitorTimesOut \/ MonitorPolls
  BY <1>3, <1>5, <1>8 DEF MonitorTimesOut, MonitorPolls
<1>9. CASE PolledBeforeSleep \/ ReconnectFails
  <2>1. call = "monitor"
    BY <1>9 DEF PolledBeforeSleep, ReconnectFails, Basic, CallInv
  <2> QED BY <1>3, <1>5, <1>9, <2>1 DEF PolledBeforeSleep, ReconnectFails, LoopAgain
<1> QED BY <1>6, <1>7, <1>8, <1>9

\* disconnect() drops what is not yet read.
LEMMA AckWrittenVerdict ==
    ASSUME Basic, Basic', VerdictInv, AckWritten
    PROVE  VerdictInv'
<1>1. /\ at = "acking" /\ at' = "top" /\ wire' = <<>> /\ handle' = "closed"
      /\ UNCHANGED <<line_buf, leftover, call, test_id, outcome, serial_log, started, misled, again>>
      /\ UNCHANGED <<dev, dev_test, run, to_device>>
  BY DEF AckWritten, LoopAgain, buffer_vars, device_vars, start_vars, fault_vars, bound_vars
<1>2. DevKept
  BY <1>1 DEF DevKept
<1>3. leftover \in Nat
  BY StreamJoins
<1>4. CutOf(Stream', Stream, 0, Len(line_buf))
  BY <1>1, LostStream
<1>5. leftover' = IF leftover > 0 THEN leftover - 0 ELSE 0
  BY <1>1, <1>3
<1>6. Skips(0, Len(line_buf))
  BY <1>1, <1>4, <1>5 DEF Leaves, Skips
<1> QED BY <1>1, <1>2, <1>6, SkipsVerdict

LEMMA NoIndex ==
    ASSUME NEW l \in Nat, NEW n \in Nat, n <= l
    PROVE  ~(l < n) /\ \A i : i \notin l + 1..n
OBVIOUS

\* Nothing of the stream is left.
LEMMA NoneLeft ==
    ASSUME Basic', Len(Stream') <= leftover'
    PROVE  /\ WholeLines' /\ StartsFollowed'
           /\ leftover' = 0 => \A r, t : /\ Watched(0, r, t)'
                                         /\ Reports(Stream', 0)
<1>0. leftover' \in Nat /\ Len(Stream') \in Nat
  BY NextJoins
<1>1. ~(leftover' < Len(Stream')) /\ \A i : i \notin leftover' + 1..Len(Stream')
  BY <1>0, NoIndex
<1>2. WholeLines'
  BY <1>0, <1>1 DEF WholeLines
<1>3. StartsFollowed'
  BY <1>1 DEF StartsFollowed, Starts
<1>4. leftover' = 0 => ~\E i \in 0 + 1..Len(Stream') : TRUE
  BY <1>0
<1>5. ASSUME NEW r, NEW t, leftover' = 0 PROVE Watched(0, r, t)' /\ Reports(Stream', 0)
  BY <1>4, <1>5 DEF Watched, Own, LastSleep, HasSleep, Reports
<1> QED BY <1>2, <1>3, <1>5

LEMMA PolledAwakeVerdict ==
    ASSUME Basic, Basic', VerdictInv, PolledAwake
    PROVE  VerdictInv'
<1>1. /\ handle = "closed" /\ handle' = "closed" /\ line_buf' = <<>> /\ leftover' = 0 /\ wire' = <<>>
      /\ UNCHANGED <<call, test_id, started, misled, again, serial_log, dev, dev_test, run, to_device>>
      /\ call = "monitor"
  BY DEF PolledAwake, Attempt, Basic, CallInv, LinkInv, device_vars, start_vars, bound_vars
<1>2. outcome'.stopped = outcome.stopped /\ outcome'.status = outcome.status
  BY GoneTypes, OutcomeFields DEF PolledAwake
<1>3. Len(Stream') = 0
  BY <1>1, NextJoins DEF Joins
<1>4. WholeLines' /\ StartsFollowed' /\ \A r, t : Watched(0, r, t)' /\ Reports(Stream', 0)
  <2>1. Len(Stream') <= leftover'
    BY <1>1, <1>3
  <2> QED BY <1>1, <2>1, NoneLeft
<1>5. StartedFollowed'
  <2> SUFFICES ASSUME NEW r, NEW t, Monitored(r, t)'
               PROVE  /\ leftover' = 0
                      /\ Watched(0, r, t)'
                      /\ Unstopped(0)' => (Running(r, t) \/ Crashed)'
                      /\ at' = "acking" \/ handle' = "closed" => Paused(r, t)'
                      /\ Reports(Stream', 0) \/ again' \/ SawEnd'
    BY DEF StartedFollowed
  <2>1. Monitored(r, t)
    BY <1>1, <1>2 DEF Monitored
  <2>2. Paused(r, t)
    BY <1>1, <2>1 DEF VerdictInv, StartedFollowed
  <2>3. Paused(r, t)'
    BY <1>1, <2>2 DEF Paused
  <2> QED BY <1>1, <1>4, <2>3 DEF Unstopped
<1>6. StatusInv'
  <2>1. SawEnd' = SawEnd
    BY <1>1 DEF SawEnd
  <2>2. outcome'.stopped = None
    BY <1>1, <1>2 DEF Basic, CallInv
  <2> QED BY <1>1, <1>2, <2>1, <2>2 DEF VerdictInv, StatusInv, VerdictOfThisRun
<1> QED BY <1>4, <1>5, <1>6 DEF VerdictInv

LEMMA ConnectVerdict ==
    ASSUME Basic, Basic', VerdictInv, ReconnectInv, Connect
    PROVE  VerdictInv'
<1>1. /\ UNCHANGED <<line_buf, leftover, wire, call, test_id, started, misled, again, serial_log, outcome>>
      /\ UNCHANGED <<dev, dev_test, run>>
      /\ to_device' = IF handle' = "open" THEN Append(to_device, SOH) ELSE to_device
      /\ line_buf = <<>> /\ leftover = 0 /\ at' = "greeting"
      /\ (handle = "dead" /\ handle' = "dead") \/ (handle = "closed" /\ handle' = "open")
      /\ call = "monitor"
  BY DEF Connect, HandleAfterConnect, ReconnectInv, Attempting, Basic, CallInv, buffer_vars,
       monitor_vars, device_vars, start_vars, fault_vars, bound_vars
<1>n. NoStart(to_device) => NoStart(to_device')
  <2>1. to_device \in Seq(Commands) /\ SOH \in Commands /\ SOH.command # "STX"
    BY CommandTypes DEF Basic, Typed, LinkTyped, SOH
  <2> QED BY <1>1, <2>1, NoStartAppend
<1>2. CASE handle' = handle
  <2>1. DevKept
    BY <1>1, <1>2 DEF DevKept
  <2> QED BY <1>1, <1>2, <1>n, <2>1, StillVerdict
<1>3. CASE handle = "closed" /\ handle' = "open"
  <2>1. wire = <<>>
    BY <1>3 DEF Basic, LinkInv
  <2>2. Len(Stream') = 0
    BY <1>1, <2>1, NextJoins DEF Joins
  <2>3. WholeLines' /\ StartsFollowed' /\ \A r, t : Watched(0, r, t)' /\ Reports(Stream', 0)
    <3>1. Len(Stream') <= leftover' /\ leftover' = 0
      BY <1>1, <2>2
    <3> QED BY <3>1, NoneLeft
  <2>4. StartedFollowed'
    <3> SUFFICES ASSUME NEW r, NEW t, Monitored(r, t)'
                 PROVE  /\ leftover' = 0
                        /\ Watched(0, r, t)'
                        /\ Unstopped(0)' => (Running(r, t) \/ Crashed)'
                        /\ at' = "acking" \/ handle' = "closed" => Paused(r, t)'
                        /\ Reports(Stream', 0) \/ again' \/ SawEnd'
      BY DEF StartedFollowed
    <3>1. Monitored(r, t)
      BY <1>1 DEF Monitored
    <3>2. Paused(r, t)
      BY <1>3, <3>1 DEF VerdictInv, StartedFollowed
    <3>3. (Running(r, t) \/ Crashed)'
      BY <1>1, <1>n, <3>2 DEF Paused, Running, Crashed
    <3> QED BY <1>1, <1>3, <2>3, <3>3
  <2>5. StatusInv'
    <3>1. SawEnd' = SawEnd
      BY <1>1 DEF SawEnd
    <3> QED BY <1>1, <1>3, <3>1 DEF VerdictInv, StatusInv, VerdictOfThisRun
  <2> QED BY <2>3, <2>4, <2>5 DEF VerdictInv
<1> QED BY <1>1, <1>2, <1>3

-----------------------------------------------------------------------------
(* The lines that are read.                                                *)

LEMMA TakesLeaves ==
    ASSUME NEW buf, NEW m, Takes(buf, m)
    PROVE  Leaves(FirstEnd(buf), m)
BY DEF Takes, TakeLine, Leaves

LEMMA FirstTokens ==
    ASSUME NEW buf, NEW m, Takes(buf, m)
    PROVE  /\ FirstEnd(buf) \in 1..Len(buf) /\ Len(buf) \in Nat /\ Len(buf) <= Len(Stream)
           /\ Stream[FirstEnd(buf)] = NL
           /\ \A j \in 1..FirstEnd(buf) - 1 : Stream[j] # NL /\ FirstLine(buf)[j] = Stream[j]
           /\ Len(FirstLine(buf)) = FirstEnd(buf) - 1 /\ FirstLine(buf) \in Seq(Sound)
<1>1. /\ buf \in Seq(Sound) /\ HasLine(buf) /\ m \in Nat /\ Len(buf) <= m /\ m <= Len(Stream)
      /\ \A i \in 1..Len(buf) : buf[i] = Stream[i]
      /\ Stream \in Seq(Sound)
  BY DEF Takes, CutOf
<1>2. /\ FirstEnd(buf) \in 1..Len(buf) /\ buf[FirstEnd(buf)] = NL
      /\ \A j \in 1..FirstEnd(buf) - 1 : buf[j] # NL
  BY <1>1, FirstEndIs
<1>3. /\ FirstLine(buf) \in Seq(Sound) /\ Len(FirstLine(buf)) = FirstEnd(buf) - 1
      /\ \A i \in 1..FirstEnd(buf) - 1 : FirstLine(buf)[i] = buf[i]
  BY <1>1, LineType
<1>4. Len(buf) \in Nat /\ Len(Stream) \in Nat
  BY <1>1
<1>5. \A j \in 1..FirstEnd(buf) - 1 : j \in 1..Len(buf)
  BY <1>2, <1>4
<1> QED BY <1>1, <1>2, <1>3, <1>4, <1>5

\* An empty line.
LEMMA EmptyVerdict ==
    ASSUME Basic, VerdictInv, NEW buf, NEW m, Takes(buf, m), FirstLine(buf) = <<>>,
           UNCHANGED <<call, test_id, monitor_vars, handle, to_device, start_vars, device_vars, again>>,
           at' # "acking"
    PROVE  VerdictInv'
<1>1. /\ FirstEnd(buf) \in 1..Len(buf) /\ Stream[FirstEnd(buf)] = NL /\ Len(FirstLine(buf)) = FirstEnd(buf) - 1
      /\ Len(buf) \in Nat
  BY FirstTokens
<1>2. Len(FirstLine(buf)) = 0
  OBVIOUS
<1>3. FirstEnd(buf) = 1
  BY <1>1, <1>2
<1>4. Skips(FirstEnd(buf), m)
  BY <1>1, <1>3, TakesLeaves, WordFields DEF Skips
<1>5. DevKept
  BY DEF DevKept, device_vars
<1> QED BY <1>4, <1>5, SkipsVerdict DEF monitor_vars, start_vars

\* The tail of a line stays in the buffer.
LEMMA NoLineVerdict ==
    ASSUME Basic, VerdictInv, CutOf(Stream', Stream, 0, Len(Stream)), UNCHANGED <<leftover, handle>>,
           KeepReading, UNCHANGED <<device_vars, again>>, at = "reading"
    PROVE  VerdictInv'
<1>1. leftover \in Nat /\ at' # "acking" /\ UNCHANGED <<call, test_id>>
  BY StreamJoins DEF KeepReading, LoopAgain, call_vars
<1>2. Skips(0, Len(Stream))
  BY <1>1 DEF Skips, Leaves
<1>3. DevKept
  BY DEF DevKept, device_vars, KeepReading
<1> QED BY <1>1, <1>2, <1>3, SkipsVerdict DEF KeepReading, monitor_vars, start_vars

\* A line of the run that is monitored is one word, which is of that run.
LEMMA MonitoredLine ==
    ASSUME Basic, VerdictInv, NEW buf, NEW m, Takes(buf, m), FirstLine(buf) # <<>>, leftover = 0
    PROVE  /\ FirstEnd(buf) = 2 /\ Len(FirstLine(buf)) = 1 /\ FirstLine(buf)[1] = Stream[1]
           /\ Stream[1] \in Sound /\ Stream[2] = NL /\ Len(Stream) >= 2 /\ Len(Stream) \in Nat
<1>1. /\ FirstEnd(buf) \in 1..Len(buf) /\ Len(buf) \in Nat /\ Len(buf) <= Len(Stream)
      /\ Stream[FirstEnd(buf)] = NL
      /\ \A j \in 1..FirstEnd(buf) - 1 : Stream[j] # NL /\ FirstLine(buf)[j] = Stream[j]
      /\ Len(FirstLine(buf)) = FirstEnd(buf) - 1 /\ FirstLine(buf) \in Seq(Sound)
  BY FirstTokens
<1>2. Len(FirstLine(buf)) # 0
  BY <1>1
<1>3. FirstEnd(buf) >= 2 /\ Len(Stream) >= 2 /\ Len(Stream) \in Nat /\ Stream \in Seq(Sound)
  BY <1>1, <1>2, StreamJoins
<1>4. 1 \in 1..FirstEnd(buf) - 1 /\ 1 \in leftover + 1..Len(Stream) /\ 1 < Len(Stream)
  BY <1>1, <1>3
<1>5. Stream[1] # NL /\ FirstLine(buf)[1] = Stream[1]
  BY <1>1, <1>4
<1>6. Stream[1 + 1] = NL
  BY <1>4, <1>5 DEF VerdictInv, WholeLines
<1>7. Stream[2] = NL
  BY <1>6
<1>8. FirstEnd(buf) = 2
  BY <1>1, <1>3, <1>7
<1>9. Stream[1] \in Sound
  BY <1>3, <1>4
<1> QED BY <1>1, <1>3, <1>5, <1>7, <1>8, <1>9

LEMMA OwnLine ==
    ASSUME Basic, VerdictInv, NEW r, NEW t, Monitored(r, t), Len(Stream) >= 2, Len(Stream) \in Nat
    PROVE  /\ Stream[1].kind = "test_end" => Stream[1].run = r
           /\ Stream[1].kind = "stopped" => /\ Stream[1].run = r /\ Stream[1].test = t
                                            /\ again \/ SawEnd
           /\ Stream[1].kind = "sleep" => Paused(r, t)
<1>1. Watched(0, r, t) /\ (Reports(Stream, 0) \/ again \/ SawEnd)
  BY DEF VerdictInv, StartedFollowed
<1>2. 1 \in 0 + 1..Len(Stream) /\ NoStop(Stream, 0, 1) /\ ~\E k \in 0 + 1..1 - 1 : TRUE
  BY DEF NoStop
<1>3. /\ Stream[1].kind = "test_end" => Stream[1].run = r
      /\ Stream[1].kind = "stopped" => Stream[1].run = r /\ Stream[1].test = t
  BY <1>1, <1>2 DEF Watched, Own
<1>4. Stream[1].kind = "sleep" => Paused(r, t)
  BY <1>1, <1>2 DEF Watched, HasSleep
<1>5. Stream[1].kind = "stopped" => again \/ SawEnd
  BY <1>1, <1>2 DEF Reports
<1> QED BY <1>3, <1>4, <1>5

LEMMA LineKept ==
    ASSUME Basic, at = "reading", NEW words, OnLine(words), UNCHANGED device_vars
    PROVE  DevKept /\ (NoStart(to_device) => NoStart(to_device')) /\ test_id' = test_id
           /\ handle' = handle /\ (at' = "acking" => call = "monitor" /\ IsSleep(words))
<1>0. to_device \in Seq(Commands) /\ ACK \in Commands /\ ACK.command # "STX" /\ UNCHANGED <<dev, dev_test, run>>
  BY CommandTypes DEF Basic, Typed, LinkTyped, ACK, device_vars
<1>1. handle' = handle /\ test_id' = test_id /\ (to_device' = to_device \/ Write(ACK))
  BY DEF OnLine, DiscoverLine, StartLine, MonitorLine, LoopAgain, Return
<1>2. at' = "acking" => call = "monitor" /\ IsSleep(words)
  BY DEF OnLine, DiscoverLine, StartLine, MonitorLine, LoopAgain, Return
<1>3. DevKept /\ (NoStart(to_device) => NoStart(to_device'))
  BY <1>0, <1>1, NoStartAppend DEF DevKept, Write, Writable
<1> QED BY <1>1, <1>2, <1>3

LEMMA UnstartedVerdict ==
    ASSUME Basic, VerdictInv, NEW e, NEW m, Leaves(e, m), DevKept, handle' = handle, started' = None,
           call \in {"discover", "start"}, call' \in {call, "none"}, UNCHANGED <<outcome, serial_log>>
    PROVE  VerdictInv'
<1>1. WholeLines' /\ StartsFollowed'
  BY LeavesLines, LeavesStarts DEF VerdictInv
<1>2. StartedFollowed'
  BY DEF StartedFollowed, Monitored
<1>3. StatusInv'
  BY DEF VerdictInv, StatusInv, VerdictOfThisRun
<1> QED BY <1>1, <1>2, <1>3 DEF VerdictInv

\* start_test returns at the marker of the run that the host then waits for.
LEMMA StartedVerdict ==
    ASSUME Basic, Basic', VerdictInv, NEW buf, NEW m, Takes(buf, m), at = "reading",
           UNCHANGED <<device_vars, again>>,
           StartLine(FirstLine(buf)),
           Len(FirstLine(buf)) = 1, FirstLine(buf)[1].kind \in StartMarker, FirstLine(buf)[1].test = test_id
    PROVE  VerdictInv'
<1> DEFINE word == FirstLine(buf)[1]
           e == FirstEnd(buf)
<1>1. /\ call = "start" /\ call' = "none" /\ at' = "top" /\ started' = word.run /\ misled' = (leftover > 0)
      /\ UNCHANGED <<test_id, outcome, serial_log, handle, to_device>>
  BY DEF StartLine, Return, monitor_vars
<1>2. DevKept /\ Leaves(e, m)
  BY <1>1, TakesLeaves DEF DevKept, device_vars
<1>3. WholeLines' /\ StartsFollowed'
  BY <1>2, LeavesLines, LeavesStarts DEF VerdictInv
<1>4. StatusInv'
  BY <1>1, NoOutcomeFields DEF VerdictInv, StatusInv, VerdictOfThisRun, Basic, CallInv
<1>5. ASSUME NEW r, NEW t, Monitored(r, t)'
      PROVE  /\ leftover' = 0
             /\ Watched(0, r, t)'
             /\ Unstopped(0)' => (Running(r, t) \/ Crashed)'
             /\ at' = "acking" \/ handle' = "closed" => Paused(r, t)'
             /\ Reports(Stream', 0) \/ again' \/ SawEnd'
  <2>1. word.run = r /\ test_id = t /\ ~(leftover > 0)
    BY <1>1, <1>5 DEF Monitored
  <2>2. leftover = 0
    BY <2>1, StreamJoins
  <2>3. FirstLine(buf) # <<>>
    OBVIOUS
  <2>4. /\ e = 2 /\ word = Stream[1] /\ Stream[2] = NL /\ Len(Stream) >= 2 /\ Len(Stream) \in Nat
    BY <2>2, <2>3, MonitoredLine
  <2> HIDE DEF word, e
  <2>5. Starts(1, r, t)
    <3>1. word.kind = "started" /\ word.test = t /\ word.run = r
      BY <2>1 DEF word, StartMarker
    <3>2. 1 \in leftover + 1..Len(Stream)
      BY <2>2, <2>4
    <3> QED BY <2>4, <3>1, <3>2 DEF Starts
  <2>6. Watched(1, r, t) /\ Reports(Stream, 1) /\ (Unstopped(1) => Running(r, t))
    BY <2>5 DEF VerdictInv, StartsFollowed
  <2>7. Stream \in Seq(Sound) /\ NL.kind = "nl"
    BY StreamJoins, WordFields
  <2>8. NoStop(Stream, 1, 2 + 1) /\ \A j \in 1 + 1..2 : Stream[j].kind # "test_end"
    BY <2>4, <2>7 DEF NoStop
  <2>9. /\ Own(Stream, 1, r, t) => Own(Stream, 2, r, t)
        /\ LastSleep(Stream, 1) => LastSleep(Stream, 2)
        /\ HasSleep(Stream, 2) => HasSleep(Stream, 1)
        /\ Ended(Stream, 1) => Ended(Stream, 2)
        /\ Reports(Stream, 1) /\ (\A j \in 1 + 1..2 : Stream[j].kind # "test_end") => Reports(Stream, 2)
    <3>1. 1 \in Nat /\ 2 \in Nat /\ 1 <= 2
      OBVIOUS
    <3> QED BY <2>7, <2>8, <3>1, LaterFollowed
  <2>10. Watched(2, r, t) /\ (Unstopped(2) => Unstopped(1)) /\ Reports(Stream, 2)
    BY <2>6, <2>8, <2>9 DEF Watched, Unstopped
  <2>11. /\ Watched(0, r, t)'
         /\ Unstopped(0)' => Unstopped(2)
         /\ Reports(Stream', 0)
    <3>1. Leaves(2, m) /\ 0 \in 0..Len(Stream')
      BY <1>2, <2>4, NextJoins
    <3>2. 0 + 2 = 2
      OBVIOUS
    <3>3. Watched(0 + 2, r, t)
      BY <2>10, <3>2
    <3>4. /\ Watched(0, r, t)'
          /\ Unstopped(0)' => Unstopped(0 + 2)
          /\ Reports(Stream, 0 + 2) => Reports(Stream', 0)
      BY <1>2, <3>1, <3>3, LeavesWatched
    <3> QED BY <2>10, <3>2, <3>4
  <2>12. leftover' = 0
    BY <1>2, <2>2, <2>4 DEF Leaves
  <2>13. handle' # "closed" /\ at' # "acking"
    BY <1>1 DEF VerdictInv, StatusInv
  <2> QED BY <1>2, <2>6, <2>10, <2>11, <2>12, <2>13, KeptRuns
<1> QED BY <1>3, <1>4, <1>5 DEF VerdictInv, StartedFollowed

LEMMA SawEndNext ==
    ASSUME Basic, NEW words, serial_log' = Append(serial_log, words)
    PROVE  SawEnd' <=> SawEnd \/ IsMarker(words, "test_end")
<1>1. serial_log \in Seq(Seq(Token))
  BY DEF Basic, Typed, MonitorTyped
<1>2. ASSUME NEW S, NEW log \in Seq(S), NEW x
      PROVE  /\ Len(log) \in Nat /\ Len(Append(log, x)) = Len(log) + 1 /\ Append(log, x)[Len(log) + 1] = x
             /\ \A l \in 1..Len(log) : Append(log, x)[l] = log[l]
  BY <1>2
<1>3. /\ Len(serial_log) \in Nat /\ Len(serial_log') = Len(serial_log) + 1
      /\ serial_log'[Len(serial_log) + 1] = words
      /\ \A l \in 1..Len(serial_log) : serial_log'[l] = serial_log[l]
  BY <1>1, <1>2
<1>4. Len(serial_log) + 1 \in 1..Len(serial_log')
  BY <1>3
<1>5. \A l \in 1..Len(serial_log') : l \in 1..Len(serial_log) \/ l = Len(serial_log) + 1
  BY <1>3
<1>6. \A l \in 1..Len(serial_log) : l \in 1..Len(serial_log')
  BY <1>3
<1> QED BY <1>3, <1>4, <1>5, <1>6 DEF SawEnd

LEMMA MonitorLineVerdict ==
    ASSUME Basic, Basic', VerdictInv, NEW buf, NEW m, Takes(buf, m), FirstLine(buf) # <<>>, at = "reading",
           UNCHANGED <<device_vars, again>>, MonitorLine(FirstLine(buf))
    PROVE  VerdictInv'
<1> DEFINE words == FirstLine(buf)
           e == FirstEnd(buf)
<1>0. /\ call = "monitor" /\ serial_log' = Append(serial_log, words) /\ UNCHANGED <<started, misled>>
      /\ outcome \in Outcomes /\ outcome.stopped = None /\ started # None /\ started \in 1..MaxCalls
      /\ OnLine(words)
  BY GoneTypes DEF MonitorLine, start_vars, Basic, CallInv, Typed, HistoryTyped, OnLine
<1>1. /\ DevKept /\ (NoStart(to_device) => NoStart(to_device')) /\ test_id' = test_id
      /\ handle' = handle /\ (at' = "acking" => IsSleep(words))
  BY <1>0, LineKept
<1>2. Leaves(e, m)
  BY TakesLeaves
<1>3. WholeLines' /\ StartsFollowed'
  BY <1>1, <1>2, LeavesLines, LeavesStarts DEF VerdictInv
<1>4. SawEnd' <=> SawEnd \/ IsMarker(words, "test_end")
  BY <1>0, SawEndNext
<1>5. CASE misled
  <2>1. StartedFollowed'
    BY <1>0, <1>5 DEF StartedFollowed, Monitored
  <2>2. StatusInv'
    <3>1. call' # "monitor" => outcome'.stopped # None
      <4>1. CASE call' # "monitor"
        <5>1. IsMarker(words, "stopped") /\ outcome' = [outcome EXCEPT !.stopped = words[1].run]
          BY <1>0, <4>1 DEF MonitorLine, LoopAgain
        <5>2. words \in Seq(Sound) /\ Len(words) = 1 /\ words[1].kind = "stopped"
          BY <5>1, FirstTokens DEF IsMarker
        <5>3. words[1].run \in 1..MaxCalls
          BY <5>2, SoundFacts
        <5>4. words[1].run # None
          BY <5>3, NumberTypes, NoneAssumption
        <5> QED BY <1>0, <5>1, <5>4, OutcomeFields
      <4> QED BY <4>1
    <3>2. call' \in {"monitor", "none"}
      BY <1>0 DEF MonitorLine, LoopAgain, Return
    <3> QED BY <1>0, <1>5, <3>1, <3>2, NoOutcomeFields DEF StatusInv, VerdictOfThisRun
  <2> QED BY <1>3, <2>1, <2>2 DEF VerdictInv
<1>6. CASE ~misled
  <2> DEFINE r == started
             t == test_id
             word == Stream[1]
  <2>1. Monitored(r, t)
    BY <1>0, <1>6 DEF Monitored
  <2>2. leftover = 0
    BY <2>1 DEF VerdictInv, StartedFollowed
  <2>3. /\ e = 2 /\ Len(words) = 1 /\ words[1] = word /\ word \in Sound /\ Stream[2] = NL
        /\ Len(Stream) >= 2 /\ Len(Stream) \in Nat
    BY <2>2, MonitoredLine
  <2>4. /\ word.kind = "test_end" => word.run = r
        /\ word.kind = "stopped" => word.run = r /\ word.test = t /\ (again \/ SawEnd)
        /\ word.kind = "sleep" => Paused(r, t)
    BY <2>1, <2>3, OwnLine
  <2>5. (\A kind : IsMarker(words, kind) <=> word.kind = kind) /\ (IsSleep(words) <=> word.kind = "sleep")
    BY <2>3 DEF IsMarker, IsSleep
  <2>6. outcome.status = IF SawEnd THEN Verdicts[r] ELSE "ok"
    BY <1>0, <1>6 DEF VerdictInv, StatusInv
  <2> HIDE DEF words, e
  <2>7. CASE word.kind = "stopped"
    <3>1. outcome' = [outcome EXCEPT !.stopped = word.run] /\ call' = "none"
      <4>1. words[1].test = test_id /\ IsMarker(words, "stopped")
        BY <2>3, <2>4, <2>5, <2>7
      <4>2. ~IsMarker(words, "test_end") /\ ~IsSleep(words)
        BY <2>5, <2>7
      <4>3. outcome' = [outcome EXCEPT !.stopped = words[1].run] /\ Return
        BY <4>1, <4>2 DEF MonitorLine, words
      <4> QED BY <2>3, <4>3 DEF Return
    <3>2. outcome'.stopped = r /\ outcome'.status = outcome.status /\ r # None
      BY <1>0, <2>4, <2>7, <3>1, OutcomeFields
    <3>3. StartedFollowed'
      BY <3>2 DEF StartedFollowed, Monitored
    <3>4. SawEnd' <=> SawEnd
      BY <1>4, <2>5, <2>7
    <3>5. VerdictOfThisRun'
      <4>1. CASE SawEnd
        BY <1>0, <2>6, <3>2, <4>1 DEF VerdictOfThisRun
      <4>2. CASE ~SawEnd
        <5>1. again' /\ outcome'.status = "ok"
          BY <2>4, <2>6, <2>7, <3>2, <4>2
        <5>2. \A i \in DOMAIN serial_log' : ~IsMarker(serial_log'[i], "test_end")
          <6>1. serial_log' \in Seq(Seq(Token))
            BY DEF Basic, Typed, MonitorTyped
          <6>2. DOMAIN serial_log' = 1..Len(serial_log')
            BY <6>1
          <6> QED BY <3>4, <4>2, <6>2 DEF SawEnd
        <5> QED BY <1>0, <3>2, <5>1, <5>2 DEF VerdictOfThisRun
      <4> QED BY <4>1, <4>2
    <3>6. StatusInv'
      BY <3>1, <3>2, <3>5, NoOutcomeFields DEF StatusInv
    <3> QED BY <1>3, <3>3, <3>6 DEF VerdictInv
  <2>8. CASE word.kind # "stopped"
    <3>1. call' = "monitor" /\ outcome'.stopped = None
          /\ (word.kind = "test_end" => outcome'.status = word.arg)
          /\ (word.kind # "test_end" => outcome'.status = outcome.status)
      <4>1. ~IsMarker(words, "stopped")
        BY <2>5, <2>8
      <4>2. CASE outcome' = [outcome EXCEPT !.status = words[1].arg] /\ LoopAgain /\ IsMarker(words, "test_end")
        <5>1. outcome'.stopped = None /\ outcome'.status = words[1].arg
          BY <1>0, <4>2, OutcomeFields
        <5> QED BY <1>0, <2>3, <2>5, <4>2, <5>1 DEF LoopAgain
      <4>3. CASE UNCHANGED outcome /\ LoopAgain /\ ~IsMarker(words, "test_end")
        BY <1>0, <2>5, <4>3 DEF LoopAgain
      <4>4. CASE UNCHANGED <<outcome, call>> /\ IsSleep(words)
        BY <1>0, <2>5, <4>4
      <4> QED BY <4>1, <4>2, <4>3, <4>4 DEF MonitorLine, words
    <3>2. word.kind = "test_end" => word.arg = Verdicts[r]
      BY <2>3, <2>4, SoundFacts
    <3>3. outcome'.status = IF SawEnd' THEN Verdicts[r] ELSE "ok"
      BY <1>4, <2>5, <2>6, <3>1, <3>2
    <3>4. StatusInv'
      BY <1>0, <3>1, <3>3 DEF StatusInv, VerdictOfThisRun
    <3>5. NoStop(Stream, 0, 2 + 1)
      <4>1. NL.kind = "nl" /\ \A k \in 0 + 1..(2 + 1) - 1 : k = 1 \/ k = 2
        BY WordFields
      <4> QED BY <2>3, <2>8, <4>1 DEF NoStop
    <3>6. at' = "acking" \/ handle' = "closed" => handle = "closed" \/ Paused(r, t)
      BY <1>1, <2>4, <2>5
    <3>7. \/ SawEnd'
          \/ (again => again') /\ (SawEnd => SawEnd') /\ \A j \in 1..2 : Stream[j].kind # "test_end"
      <4>1. NL.kind = "nl" /\ \A k \in 1..2 : k = 1 \/ k = 2
        BY WordFields
      <4> QED BY <1>4, <2>3, <2>5, <4>1
    <3>8. StartedFollowed'
      <4>1. ASSUME NEW a, NEW b, Monitored(a, b)'
            PROVE  /\ leftover' = 0
                   /\ Watched(0, a, b)'
                   /\ Unstopped(0)' => (Running(a, b) \/ Crashed)'
                   /\ at' = "acking" \/ handle' = "closed" => Paused(a, b)'
                   /\ Reports(Stream', 0) \/ again' \/ SawEnd'
        <5>1. a = r /\ b = t
          BY <1>0, <1>1, <4>1 DEF Monitored
        <5>2. Leaves(2, m) /\ StartedFollowed /\ Monitored(a, b)
              /\ (at' = "acking" \/ handle' = "closed" => handle = "closed" \/ Paused(a, b))
          BY <1>2, <2>1, <2>3, <3>6, <5>1 DEF VerdictInv
        <5> QED BY <1>1, <3>5, <3>7, <5>2, LeavesStarted
      <4> QED BY <4>1 DEF StartedFollowed
    <3> QED BY <1>3, <3>4, <3>8 DEF VerdictInv
  <2> QED BY <2>7, <2>8
<1> QED BY <1>5, <1>6

\* A line goes to the call that is running.
LEMMA LineVerdict ==
    ASSUME Basic, Basic', VerdictInv, NEW buf, NEW m, Takes(buf, m), FirstLine(buf) # <<>>, at = "reading",
           UNCHANGED <<device_vars, again>>, OnLine(FirstLine(buf))
    PROVE  VerdictInv'
<1>1. Leaves(FirstEnd(buf), m)
  BY TakesLeaves
<1>2. DevKept /\ handle' = handle
  BY LineKept
<1>3. call \in {"discover", "start"} => started = None
  BY DEF Basic, CallInv
<1>4. CASE DiscoverLine(FirstLine(buf))
  <2>1. /\ call = "discover" /\ call' \in {call, "none"} /\ handle' = handle
        /\ UNCHANGED <<started, outcome, serial_log>>
    BY <1>4 DEF DiscoverLine, Return, LoopAgain, monitor_vars, start_vars
  <2> QED BY <1>1, <1>2, <1>3, <2>1, UnstartedVerdict
<1>5. CASE StartLine(FirstLine(buf))
  <2>1. /\ call = "start" /\ handle' = handle /\ UNCHANGED <<outcome, serial_log>>
    BY <1>5 DEF StartLine, monitor_vars
  <2>2. CASE /\ Len(FirstLine(buf)) = 1 /\ FirstLine(buf)[1].kind \in StartMarker
             /\ FirstLine(buf)[1].test = test_id
    BY <1>5, <2>2, StartedVerdict
  <2>3. CASE LoopAgain /\ UNCHANGED start_vars
    <3>1. started' = None /\ call' \in {call, "none"}
      BY <1>3, <2>1, <2>3 DEF LoopAgain, start_vars
    <3> QED BY <1>1, <1>2, <2>1, <3>1, UnstartedVerdict
  <2> QED BY <1>5, <2>2, <2>3 DEF StartLine
<1>6. CASE MonitorLine(FirstLine(buf))
  BY <1>6, MonitorLineVerdict
<1> QED BY <1>4, <1>5, <1>6 DEF OnLine

LEMMA ReadVerdict ==
    ASSUME Basic, Basic', VerdictInv, ReadBuffered \/ \E n \in 1..Len(wire) : ReadData(n)
    PROVE  VerdictInv'
<1>1. ASSUME NEW n \in 1..Len(wire), ReadData(n) PROVE VerdictInv'
  <2> DEFINE buf == line_buf \o SubSeq(wire, 1, n)
  <2>1. at = "reading" /\ UNCHANGED <<device_vars, again>>
    BY <1>1 DEF ReadData, fault_vars, bound_vars
  <2>2. CASE ~HasLine(buf)
    <3>1. CutOf(Stream', Stream, 0, Len(Stream)) /\ UNCHANGED <<leftover, handle>> /\ KeepReading
      BY <1>1, <2>2, ReadOnStream
    <3> QED BY <2>1, <3>1, NoLineVerdict
  <2>3. CASE HasLine(buf)
    <3>1. PICK m : Takes(buf, m)
      BY <1>1, <2>3, ReadDataTakes
    <3>2. IF FirstLine(buf) = <<>> THEN KeepReading ELSE OnLine(FirstLine(buf))
      BY <1>1, <2>3 DEF ReadData
    <3> HIDE DEF buf
    <3>3. CASE FirstLine(buf) = <<>>
      <4>1. UNCHANGED <<call, test_id, monitor_vars, handle, to_device, start_vars>> /\ at' # "acking"
        BY <2>1, <3>2, <3>3 DEF KeepReading, LoopAgain, call_vars
      <4> QED BY <2>1, <3>1, <3>3, <4>1, EmptyVerdict
    <3>4. CASE FirstLine(buf) # <<>>
      BY <2>1, <3>1, <3>2, <3>4, LineVerdict
    <3> QED BY <3>3, <3>4
  <2> QED BY <2>2, <2>3
<1>2. ASSUME ReadBuffered PROVE VerdictInv'
  <2>1. at = "reading" /\ UNCHANGED <<device_vars, again>>
    BY <1>2 DEF ReadBuffered, fault_vars, bound_vars
  <2>2. PICK m : Takes(line_buf, m)
    BY <1>2, ReadBufferedTakes
  <2>3. CASE FirstLine(line_buf) = <<>>
    <3>1. UNCHANGED <<call, test_id, monitor_vars, handle, to_device, start_vars>> /\ at' # "acking"
      BY <1>2, <2>3 DEF ReadBuffered, LoopAgain
    <3> QED BY <2>1, <2>2, <2>3, <3>1, EmptyVerdict
  <2>4. CASE FirstLine(line_buf) # <<>>
    <3>1. OnLine(FirstLine(line_buf))
      BY <1>2, <2>4 DEF ReadBuffered
    <3> QED BY <2>1, <2>2, <2>4, <3>1, LineVerdict
  <2> QED BY <2>3, <2>4
<1> QED BY <1>1, <1>2

LEMMA HostVerdict ==
    ASSUME Basic, Basic', VerdictInv, ReconnectInv, Host \/ Flushed
    PROVE  VerdictInv'
BY ReadVerdict, TimedVerdict, PolledAwakeVerdict, ConnectVerdict, AckWrittenVerdict DEF Host, Flushed

-----------------------------------------------------------------------------
(* The caller and the clock.                                               *)

LEMMA CommandVerdict ==
    ASSUME Basic, VerdictInv, NEW c, Command(c), call' \in {"discover", "start"}
    PROVE  VerdictInv'
<1>1. /\ UNCHANGED <<line_buf, leftover, wire, handle, dev, dev_test, run>>
      /\ handle = "open" /\ started' = None /\ outcome' = NoOutcome /\ serial_log' = <<>>
  BY DEF Command, Writable, NoMonitor, buffer_vars, device_vars
<1>2. DevKept
  BY <1>1 DEF DevKept
<1>3. Leaves(0, Len(Stream))
  <2>1. leftover \in Nat
    BY StreamJoins
  <2>2. leftover = IF leftover > 0 THEN leftover - 0 ELSE 0
    BY <2>1
  <2> QED BY <1>1, <2>2, SameStream DEF Leaves
<1>4. WholeLines' /\ StartsFollowed'
  BY <1>2, <1>3, LeavesLines, LeavesStarts DEF VerdictInv
<1>5. StartedFollowed'
  BY <1>1 DEF StartedFollowed, Monitored
<1>6. StatusInv'
  BY <1>1, NoOutcomeFields DEF StatusInv, VerdictOfThisRun
<1> QED BY <1>4, <1>5, <1>6 DEF VerdictInv

\* The log of a monitor that begins is empty, and it may end without a test_end
\* line only when an earlier monitor had taken it.
LEMMA MonitorVerdict ==
    ASSUME Basic, VerdictInv, Monitor
    PROVE  VerdictInv'
<1>1. /\ UNCHANGED <<line_buf, leftover, wire, handle, to_device, dev, dev_test, run, test_id, started, misled>>
      /\ call = "none" /\ call' = "monitor" /\ at' = "top" /\ outcome' = NoOutcome /\ serial_log' = <<>>
  BY DEF Monitor, Begin, NoMonitor, buffer_vars, link_vars, device_vars, start_vars
<1>2. /\ outcome.stopped = None
      /\ (outcome = NoOutcome /\ again' = again) \/ again' = TRUE
  BY NoOutcomeFields DEF Monitor, Basic, CallInv
<1>3. DevKept
  BY <1>1 DEF DevKept
<1>4. Leaves(0, Len(Stream))
  <2>1. leftover \in Nat
    BY StreamJoins
  <2>2. leftover = IF leftover > 0 THEN leftover - 0 ELSE 0
    BY <2>1
  <2> QED BY <1>1, <2>2, SameStream DEF Leaves
<1>5. WholeLines' /\ StartsFollowed'
  BY <1>3, <1>4, LeavesLines, LeavesStarts DEF VerdictInv
<1>6. ~SawEnd'
  <2>1. Len(serial_log') = 0
    BY <1>1
  <2> QED BY <2>1 DEF SawEnd
<1>7. outcome = NoOutcome => ~SawEnd
  <2>1. outcome = NoOutcome => Len(serial_log) = 0
    BY <1>1 DEF VerdictInv, StatusInv
  <2> QED BY <2>1 DEF SawEnd
<1>8. StartedFollowed'
  <2> SUFFICES ASSUME NEW r, NEW t, Monitored(r, t)'
               PROVE  /\ leftover' = 0
                      /\ Watched(0, r, t)'
                      /\ Unstopped(0)' => (Running(r, t) \/ Crashed)'
                      /\ at' = "acking" \/ handle' = "closed" => Paused(r, t)'
                      /\ Reports(Stream', 0) \/ again' \/ SawEnd'
    BY DEF StartedFollowed
  <2>1. Monitored(r, t)
    BY <1>1, <1>2 DEF Monitored
  <2>2. /\ leftover = 0 /\ Watched(0, r, t) /\ (Unstopped(0) => Running(r, t) \/ Crashed)
        /\ (handle = "closed" => Paused(r, t)) /\ (Reports(Stream, 0) \/ again \/ SawEnd)
    BY <2>1 DEF VerdictInv, StartedFollowed
  <2>3. Stream' = Stream
    BY <1>1, SameStream
  <2>4. (Watched(0, r, t)' <=> Watched(0, r, t)) /\ (Unstopped(0)' <=> Unstopped(0))
    BY <1>1, <2>3 DEF Watched, Unstopped, Paused
  <2>5. Crashed => Crashed'
    BY <1>1 DEF Crashed
  <2>6. Reports(Stream', 0) \/ again' \/ SawEnd'
    BY <1>2, <1>7, <2>2, <2>3
  <2> QED BY <1>1, <1>3, <2>2, <2>4, <2>5, <2>6, KeptRuns
<1>9. StatusInv'
  BY <1>1, <1>6, NoOutcomeFields DEF StatusInv, VerdictOfThisRun
<1> QED BY <1>5, <1>8, <1>9 DEF VerdictInv

LEMMA ReopenVerdict ==
    ASSUME Basic, Basic', Reopen
    PROVE  VerdictInv'
<1>1. /\ call' = "none" /\ started' = None /\ outcome' = NoOutcome /\ serial_log' = <<>>
      /\ leftover' = Len(line_buf') /\ wire' = <<>>
  BY DEF Reopen, call_vars, NoMonitor, Basic, LinkInv
<1>2. Len(Stream') <= leftover'
  <2>1. Len(wire') = 0
    BY <1>1
  <2> QED BY <1>1, <2>1, NextJoins DEF Joins
<1>3. WholeLines' /\ StartsFollowed'
  BY <1>2, NoneLeft
<1>4. StartedFollowed'
  BY <1>1 DEF StartedFollowed, Monitored
<1>5. StatusInv'
  BY <1>1, NoOutcomeFields DEF StatusInv, VerdictOfThisRun
<1> QED BY <1>3, <1>4, <1>5 DEF VerdictInv

LEMMA NextVerdict ==
    ASSUME Basic, Basic', VerdictInv, ReconnectInv, [Next]_vars
    PROVE  VerdictInv'
<1>1. CASE Discover
  BY <1>1, CommandVerdict DEF Discover, Begin
<1>2. CASE \E t \in Tests : StartTest(t)
  BY <1>2, CommandVerdict DEF StartTest, Begin
<1>3. CASE Tick \/ UNCHANGED vars
  <2>1. /\ UNCHANGED <<line_buf, leftover, wire, handle, to_device, dev, dev_test, run>>
        /\ UNCHANGED <<test_id, started, misled, again, serial_log, call, at, outcome>>
    BY <1>3 DEF Tick, vars, call_vars, buffer_vars, monitor_vars, link_vars, device_vars, start_vars,
         fault_vars, bound_vars
  <2>2. DevKept
    BY <2>1 DEF DevKept
  <2> QED BY <2>1, <2>2, StillVerdict
<1> QED BY <1>1, <1>2, <1>3, DeviceVerdict, HostVerdict, MonitorVerdict, ReopenVerdict DEF Next, Caller

LEMMA InitVerdict == Init => VerdictInv
<1> SUFFICES ASSUME Init PROVE VerdictInv
  OBVIOUS
<1>1. /\ line_buf = <<>> /\ wire = <<>> /\ leftover = 0 /\ started = None /\ call = "none"
      /\ outcome = NoOutcome /\ serial_log = <<>> /\ handle = "open"
  BY DEF Init
<1>2. Len(Stream) = 0
  BY <1>1 DEF Stream
<1>3. \A i : i \notin leftover + 1..Len(Stream)
  BY <1>1, <1>2, NoIndex
<1>4. WholeLines /\ StartsFollowed
  BY <1>1, <1>2, <1>3 DEF WholeLines, StartsFollowed, Starts
<1>5. StartedFollowed
  BY <1>1 DEF StartedFollowed, Monitored
<1>6. StatusInv
  BY <1>1, NoOutcomeFields DEF StatusInv, VerdictOfThisRun
<1> QED BY <1>4, <1>5, <1>6 DEF VerdictInv

\* A monitor that returns at TEST_STOPPED returns the verdict of the run that
\* start_test saw start, whatever is left in the stream of earlier calls and runs.
THEOREM VerdictIsOfThisRun == Spec => []VerdictOfThisRun
<1> DEFINE Inv == Basic /\ ReconnectInv /\ VerdictInv
<1>1. Init => Inv
  <2> SUFFICES ASSUME Init PROVE Inv
    OBVIOUS
  <2>1. Basic /\ VerdictInv
    BY InitTyped, InitVerdict DEF Basic
  <2>2. at = "top" /\ outcome = NoOutcome
    BY DEF Init
  <2> QED BY <2>1, <2>2, NoOutcomeFields DEF ReconnectInv, Attempting, ReconnectsIfPortOpens
<1>2. Inv /\ [Next]_vars => Inv'
  BY NextBasic, NextReconnect, NextVerdict
<1>3. Inv => VerdictOfThisRun
  BY DEF VerdictInv, StatusInv
<1> HIDE DEF Inv
<1> QED BY <1>1, <1>2, <1>3, PTL DEF Spec


-----------------------------------------------------------------------------
(* The log.                                                                *)

\* What a token adds to the lines with text.
WordOf(w) == IF w = NL THEN <<>> ELSE <<w>>

WordsOf(s) == [i \in 1..Len(s) |-> WordOf(s[i])]

LEMMA WordsAre ==
    ASSUME NEW s \in Seq(Sound)
    PROVE  /\ WordsOf(s) \in Seq(Seq(Sound)) /\ Len(WordsOf(s)) = Len(s) /\ Len(s) \in Nat
           /\ \A i \in 1..Len(s) : WordsOf(s)[i] = WordOf(s[i])
           /\ Words(s) = FlattenSeq(WordsOf(s)) /\ Words(s) \in Seq(Sound)
<1>1. \A w \in Sound : WordOf(w) \in Seq(Sound)
  BY DEF WordOf
<1>2. Len(s) \in Nat /\ \A i \in 1..Len(s) : s[i] \in Sound
  OBVIOUS
<1>3. WordsOf(s) \in Seq(Seq(Sound)) /\ Len(WordsOf(s)) = Len(s)
  <2>1. WordsOf(s) \in [1..Len(s) -> Seq(Sound)]
    BY <1>1, <1>2 DEF WordsOf
  <2> QED BY <1>2, <2>1 DEF WordsOf
<1>4. Words(s) = FlattenSeq(WordsOf(s))
  BY DEF Words, WordsOf, WordOf
<1>5. \A i \in 1..Len(s) : WordsOf(s)[i] = WordOf(s[i])
  BY DEF WordsOf
<1> QED BY <1>2, <1>3, <1>4, <1>5, FlattenType

LEMMA WordsConcat ==
    ASSUME NEW s \in Seq(Sound), NEW t \in Seq(Sound)
    PROVE  Words(s \o t) = Words(s) \o Words(t)
<1>1. s \o t \in Seq(Sound) /\ Joins(s \o t, s, t)
  BY JoinIs DEF Joins
<1>2. PICK x : x = WordsOf(s \o t)
  OBVIOUS
<1>3. PICK y : y = WordsOf(s)
  OBVIOUS
<1>4. PICK z : z = WordsOf(t)
  OBVIOUS
<1>5. /\ x \in Seq(Seq(Sound)) /\ Len(x) = Len(s) + Len(t) /\ Len(s) \in Nat /\ Len(t) \in Nat
      /\ \A i \in 1..Len(s) + Len(t) : x[i] = WordOf((s \o t)[i])
  BY <1>1, <1>2, WordsAre DEF Joins
<1>6. y \in Seq(Seq(Sound)) /\ Len(y) = Len(s) /\ \A i \in 1..Len(s) : y[i] = WordOf(s[i])
  BY <1>3, WordsAre
<1>7. z \in Seq(Seq(Sound)) /\ Len(z) = Len(t) /\ \A i \in 1..Len(t) : z[i] = WordOf(t[i])
  BY <1>4, WordsAre
<1>a. ASSUME NEW T, NEW a \in Seq(T), NEW b \in Seq(T)
      PROVE  /\ a \o b \in Seq(T) /\ Len(a \o b) = Len(a) + Len(b)
             /\ \A i \in 1..Len(a) + Len(b) : (a \o b)[i] = IF i <= Len(a) THEN a[i] ELSE b[i - Len(a)]
  BY ConcatProperties
<1>8. y \o z \in Seq(Seq(Sound)) /\ Len(y \o z) = Len(s) + Len(t)
      /\ \A i \in 1..Len(s) + Len(t) : (y \o z)[i] = IF i <= Len(s) THEN y[i] ELSE z[i - Len(s)]
  <2>a. PICK T : T = Seq(Sound)
    OBVIOUS
  <2>b. y \in Seq(T) /\ z \in Seq(T)
    BY <1>6, <1>7, <2>a
  <2>1. y \o z \in Seq(T) /\ Len(y \o z) = Len(y) + Len(z)
        /\ \A i \in 1..Len(y) + Len(z) : (y \o z)[i] = IF i <= Len(y) THEN y[i] ELSE z[i - Len(y)]
    BY <2>b, <1>a
  <2>2. Len(y) = Len(s) /\ Len(z) = Len(t)
    BY <1>6, <1>7
  <2> QED BY <2>1, <2>2, <2>a
<1>9. ASSUME NEW i \in 1..Len(s) + Len(t) PROVE (y \o z)[i] = x[i]
  <2>1. CASE i <= Len(s)
    <3>1. i \in 1..Len(s)
      BY <1>5, <2>1
    <3> QED BY <1>1, <1>5, <1>6, <1>8, <2>1, <3>1 DEF Joins
  <2>2. CASE ~(i <= Len(s))
    <3>1. PICK k : k = i - Len(s)
      OBVIOUS
    <3>2. k \in 1..Len(t) /\ k + Len(s) = i
      BY <1>5, <2>2, <3>1
    <3>3. (s \o t)[i] = t[k]
      BY <1>1, <3>2 DEF Joins
    <3>4. (y \o z)[i] = z[k]
      BY <1>8, <2>2, <3>1
    <3> QED BY <1>5, <1>7, <3>2, <3>3, <3>4
  <2> QED BY <2>1, <2>2
<1>10. y \o z = x
  BY <1>5, <1>8, <1>9, SeqEqual
<1>11. FlattenSeq(y \o z) = FlattenSeq(y) \o FlattenSeq(z)
  BY <1>6, <1>7, FlattenConcat
<1> QED BY <1>1, <1>2, <1>3, <1>4, <1>10, <1>11, WordsAre

LEMMA WordsOfOne ==
    ASSUME NEW w \in Sound
    PROVE  Words(<<w>>) = WordOf(w) /\ <<w>> \in Seq(Sound)
<1>1. <<w>> \in Seq(Sound) /\ Len(<<w>>) = 1 /\ <<w>>[1] = w
  OBVIOUS
<1>2. WordsOf(<<w>>) = <<WordOf(w)>>
  BY <1>1 DEF WordsOf
<1>3. WordOf(w) \in Seq(Sound)
  BY DEF WordOf
<1> QED BY <1>1, <1>2, <1>3, WordsAre, FlattenOne

\* A stream that loses its first token.
LEMMA WordsShift ==
    ASSUME NEW s \in Seq(Sound), NEW t \in Seq(Sound), CutOf(t, s, 1, Len(s))
    PROVE  Words(s) = WordOf(s[1]) \o Words(t) /\ s[1] \in Sound
<1>1. /\ Len(s) \in Nat /\ Len(s) >= 1 /\ Len(t) = Len(s) - 1 /\ \A i \in 1..Len(s) - 1 : t[i] = s[i + 1]
      /\ Len(t) \in Nat
  BY DEF CutOf
<1>2. s[1] \in Sound
  BY <1>1
<1>3. <<s[1]>> \in Seq(Sound) /\ Len(<<s[1]>>) = 1 /\ <<s[1]>>[1] = s[1] /\ Words(<<s[1]>>) = WordOf(s[1])
  BY <1>2, WordsOfOne
<1>4. PICK h : h = <<s[1]>>
  OBVIOUS
<1>5. h \in Seq(Sound) /\ Len(h) = 1 /\ h[1] = s[1] /\ Words(h) = WordOf(s[1])
  BY <1>3, <1>4
<1>6. Joins(h \o t, h, t)
  BY <1>5, JoinIs
<1>7. h \o t \in Seq(Sound) /\ Len(h \o t) = Len(s)
  BY <1>1, <1>5, <1>6 DEF Joins
<1>8. ASSUME NEW i \in 1..Len(s) PROVE (h \o t)[i] = s[i]
  <2>1. CASE i = 1
    BY <1>5, <1>6, <2>1 DEF Joins
  <2>2. CASE i # 1
    <3>1. PICK k : k = i - 1
      OBVIOUS
    <3>2. k \in 1..Len(s) - 1 /\ k + 1 = i
      BY <1>1, <2>2, <3>1
    <3>3. (h \o t)[k + 1] = t[k]
      BY <1>1, <1>5, <1>6, <3>2 DEF Joins
    <3> QED BY <1>1, <3>2, <3>3
  <2> QED BY <2>1, <2>2
<1>9. h \o t = s
  BY <1>1, <1>7, <1>8, SeqEqual
<1> QED BY <1>2, <1>5, <1>9, WordsConcat

LEMMA NoWords == Words(<<>>) = <<>>
<1>1. Len(<<>>) = 0 /\ WordsOf(<<>>) = <<>>
  BY DEF WordsOf
<1>2. <<>> \in Seq(Sound)
  OBVIOUS
<1> QED BY <1>1, <1>2, WordsAre, FlattenEmpty

\* The words of the stream are kept, one by one, and those of a line that is read
\* go to the log.
LogInv ==
    call = "monitor" /\ ~misled =>
        /\ \A i \in 1..Len(serial_log) : Len(serial_log[i]) = 1
        /\ handle = "open" => FlattenSeq(serial_log) \o Words(Stream) = received

LEMMA LogTypes ==
    ASSUME Basic
    PROVE  /\ serial_log \in Seq(Seq(Token)) /\ FlattenSeq(serial_log) \in Seq(Token)
           /\ line_buf \in Seq(Sound) /\ wire \in Seq(Sound) /\ Stream \in Seq(Sound)
           /\ Words(Stream) \in Seq(Token)
<1>1. serial_log \in Seq(Seq(Token)) /\ line_buf \in Seq(Sound) /\ wire \in Seq(Sound)
  BY DEF Basic, Typed, MonitorTyped, BufferTyped, LinkTyped
<1>2. FlattenSeq(serial_log) \in Seq(Token)
  BY <1>1, FlattenType
<1>3. Stream \in Seq(Sound)
  BY StreamJoins
<1>4. Words(Stream) \in Seq(Token)
  BY <1>3, WordsAre, SoundTokens
<1> QED BY <1>1, <1>2, <1>3, <1>4

\* A step that touches neither the stream nor the log, or leaves the connection.
LEMMA StillLog ==
    ASSUME LogInv, call' \in {call, "none"}, UNCHANGED <<misled, serial_log, received>>,
           handle' = "open" => handle = "open" /\ Stream' = Stream
    PROVE  LogInv'
BY DEF LogInv

LEMMA DeviceLog ==
    ASSUME Basic, Basic', LogInv, Device
    PROVE  LogInv'
<1>0. UNCHANGED <<call, line_buf, misled, serial_log>>
  BY DeviceUnchanged
<1>1. CASE Quietly
  <2>1. UNCHANGED <<wire, handle, received>> /\ Stream' = Stream
    BY <1>0, <1>1 DEF Quietly, Stream
  <2> QED BY <1>0, <2>1, StillLog
<1>2. CASE Lost
  BY <1>0, <1>2 DEF Lost, LogInv
<1>3. ASSUME NEW x, Emits(x) PROVE LogInv'
  <2>1. /\ x \in Seq(Sound) /\ wire' = wire \o x /\ handle = "open" /\ handle' = "open"
        /\ call = "monitor" => received' = received \o Words(x)
    BY <1>3 DEF Emits, Sends
  <2>3. CASE call = "monitor" /\ ~misled
    <3>1. /\ FlattenSeq(serial_log) \in Seq(Token) /\ Stream \in Seq(Sound) /\ Words(Stream) \in Seq(Token)
          /\ line_buf \in Seq(Sound) /\ wire \in Seq(Sound)
      BY LogTypes
    <3>2. Stream' = Stream \o x
      BY <1>0, <2>1, <3>1, ConcatAssociative, SMTT(60) DEF Stream
    <3>3. Words(x) \in Seq(Token)
      BY <2>1, WordsAre, SoundTokens
    <3>4. Words(Stream \o x) = Words(Stream) \o Words(x)
      BY <2>1, <3>1, WordsConcat
    <3>5. ASSUME NEW a \in Seq(Token), NEW b \in Seq(Token), NEW c \in Seq(Token)
          PROVE  (a \o b) \o c = a \o (b \o c)
      BY ConcatAssociative
    <3>6. (FlattenSeq(serial_log) \o Words(Stream)) \o Words(x) = FlattenSeq(serial_log) \o Words(Stream \o x)
      BY <3>1, <3>3, <3>4, <3>5, SMTT(60)
    <3> QED BY <1>0, <2>1, <2>3, <3>2, <3>6 DEF LogInv
  <2> QED BY <1>0, <2>3 DEF LogInv
<1> QED BY <1>1, <1>2, <1>3, DeviceDoes

\* An empty line leaves no word.
LEMMA EmptyLineWords ==
    ASSUME Basic, Basic', NEW buf, NEW m, Takes(buf, m), FirstLine(buf) = <<>>, m = Len(Stream)
    PROVE  Words(Stream') = Words(Stream)
<1>1. /\ FirstEnd(buf) \in 1..Len(buf) /\ Stream[FirstEnd(buf)] = NL /\ Len(FirstLine(buf)) = FirstEnd(buf) - 1
      /\ Len(buf) \in Nat
  BY FirstTokens
<1>2. Len(FirstLine(buf)) = 0
  OBVIOUS
<1>3. FirstEnd(buf) = 1
  BY <1>1, <1>2
<1>4. CutOf(Stream', Stream, 1, Len(Stream)) /\ Stream[1] = NL
  BY <1>1, <1>3 DEF Takes
<1>5. Stream \in Seq(Sound) /\ Stream' \in Seq(Sound)
  BY <1>4 DEF CutOf
<1>6. Words(Stream) = WordOf(Stream[1]) \o Words(Stream')
  BY <1>4, <1>5, WordsShift
<1>7. WordOf(Stream[1]) = <<>>
  BY <1>4 DEF WordOf
<1> QED BY <1>5, <1>6, <1>7, WordsAre, ConcatEmptySeq

\* A line of the run that is monitored is one word of the stream.
LEMMA LineWords ==
    ASSUME Basic, Basic', VerdictInv, NEW buf, NEW m, Takes(buf, m), FirstLine(buf) # <<>>, m = Len(Stream),
           leftover = 0
    PROVE  Words(Stream) = FirstLine(buf) \o Words(Stream')
<1>1. /\ FirstEnd(buf) = 2 /\ Len(FirstLine(buf)) = 1 /\ FirstLine(buf)[1] = Stream[1]
      /\ Stream[1] \in Sound /\ Stream[2] = NL /\ Len(Stream) >= 2 /\ Len(Stream) \in Nat
  BY MonitoredLine
<1>2. CutOf(Stream', Stream, 2, Len(Stream))
  BY <1>1 DEF Takes
<1>3. /\ Stream \in Seq(Sound) /\ Stream' \in Seq(Sound) /\ Len(Stream') = Len(Stream) - 2
      /\ \A i \in 1..Len(Stream) - 2 : Stream'[i] = Stream[i + 2]
  BY <1>2 DEF CutOf
<1>4. PICK s : s = Stream
  OBVIOUS
<1>5. PICK u : u = Stream'
  OBVIOUS
<1>6. PICK t : t = Tail(s)
  OBVIOUS
<1>7. /\ s \in Seq(Sound) /\ Len(s) \in Nat /\ Len(s) >= 2 /\ u \in Seq(Sound) /\ Len(u) = Len(s) - 2
      /\ \A i \in 1..Len(s) - 2 : u[i] = s[i + 2]
  BY <1>1, <1>3, <1>4, <1>5
<1>8. t \in Seq(Sound) /\ Len(t) = Len(s) - 1 /\ \A i \in 1..Len(s) - 1 : t[i] = s[i + 1]
  BY <1>6, <1>7
<1>9. CutOf(t, s, 1, Len(s))
  BY <1>7, <1>8 DEF CutOf
<1>10. CutOf(u, t, 1, Len(t))
  BY <1>7, <1>8 DEF CutOf
<1>11. Words(s) = WordOf(s[1]) \o Words(t) /\ Words(t) = WordOf(t[1]) \o Words(u)
  BY <1>7, <1>8, <1>9, <1>10, WordsShift
<1>12. t[1] = NL /\ WordOf(t[1]) = <<>>
  <2>1. t[1] = s[2]
    BY <1>7, <1>8
  <2> QED BY <1>1, <1>4, <2>1 DEF WordOf
<1>13. Words(t) = Words(u)
  BY <1>7, <1>11, <1>12, WordsAre, ConcatEmptySeq
<1>14. s[1] # NL
  <2>1. 1 \in 1..FirstEnd(buf) - 1
    BY <1>1
  <2> QED BY <1>4, <2>1, FirstTokens
<1>15. FirstLine(buf) = <<s[1]>>
  <2>1. FirstLine(buf) \in Seq(Sound)
    BY FirstTokens
  <2>2. <<s[1]>> \in Seq(Sound) /\ Len(<<s[1]>>) = 1 /\ <<s[1]>>[1] = s[1]
    BY <1>1, <1>4
  <2>3. \A i \in 1..1 : FirstLine(buf)[i] = <<s[1]>>[i]
    BY <1>1, <1>4, <2>2
  <2> QED BY <1>1, <2>1, <2>2, <2>3, SeqEqual
<1>16. WordOf(s[1]) = <<s[1]>>
  BY <1>14 DEF WordOf
<1> QED BY <1>4, <1>5, <1>11, <1>13, <1>15, <1>16

LEMMA NotStarted ==
    ASSUME Basic, VerdictInv, call = "monitor", ~misled
    PROVE  leftover = 0
<1>1. Monitored(started, test_id)
  BY DEF Monitored, Basic, CallInv
<1> QED BY <1>1 DEF VerdictInv, StartedFollowed

\* A line that monitor reads moves from the stream to the log.
LEMMA LineLog ==
    ASSUME Basic, Basic', VerdictInv, LogInv, NEW buf, NEW m, Takes(buf, m), FirstLine(buf) # <<>>,
           OnLine(FirstLine(buf)), at = "reading", UNCHANGED received
    PROVE  LogInv'
<1>2. CASE call # "monitor"
  BY <1>2 DEF OnLine, DiscoverLine, StartLine, MonitorLine, LoopAgain, Return, LogInv
<1>3. CASE call = "monitor" /\ misled
  <2>1. misled' = misled
    BY <1>3 DEF OnLine, DiscoverLine, StartLine, MonitorLine, start_vars
  <2> QED BY <1>3, <2>1 DEF LogInv
<1>4. CASE call = "monitor" /\ ~misled
  <2>1. serial_log' = Append(serial_log, FirstLine(buf)) /\ misled' = misled
    BY <1>4 DEF OnLine, DiscoverLine, StartLine, MonitorLine, start_vars
  <2>2. handle' = "open" => handle = "open" /\ m = Len(Stream)
    BY <1>4 DEF Takes, OnLine, DiscoverLine, StartLine, MonitorLine
  <2>3. leftover = 0
    BY <1>4, NotStarted
  <2>4. Len(FirstLine(buf)) = 1 /\ FirstLine(buf) \in Seq(Token)
    BY <2>3, MonitoredLine, FirstTokens, SoundTokens
  <2>5. /\ serial_log \in Seq(Seq(Token)) /\ FlattenSeq(serial_log) \in Seq(Token) /\ Stream' \in Seq(Sound)
    BY LogTypes, NextJoins
  <2>6. \A i \in 1..Len(serial_log') : Len(serial_log'[i]) = 1
    <3>1. ASSUME NEW T, NEW q \in Seq(T), NEW x \in T, Len(x) = 1, \A i \in 1..Len(q) : Len(q[i]) = 1
          PROVE  \A i \in 1..Len(Append(q, x)) : Len(Append(q, x)[i]) = 1
      <4>1. /\ Len(q) \in Nat /\ Len(Append(q, x)) = Len(q) + 1 /\ Append(q, x)[Len(q) + 1] = x
            /\ \A i \in 1..Len(q) : Append(q, x)[i] = q[i]
        OBVIOUS
      <4> QED BY <3>1, <4>1
    <3> QED BY <1>4, <2>1, <2>4, <2>5, <3>1 DEF LogInv
  <2>7. ASSUME handle' = "open" PROVE FlattenSeq(serial_log') \o Words(Stream') = received'
    <3>1. handle = "open" /\ m = Len(Stream)
      BY <2>2, <2>7
    <3>2. Words(Stream) = FirstLine(buf) \o Words(Stream')
      BY <2>3, <3>1, LineWords
    <3>3. FlattenSeq(serial_log') = FlattenSeq(serial_log) \o FirstLine(buf)
      BY <2>1, <2>4, <2>5, FlattenAppend
    <3>4. Words(Stream') \in Seq(Token)
      BY <2>5, WordsAre, SoundTokens
    <3>5. ASSUME NEW a \in Seq(Token), NEW b \in Seq(Token), NEW c \in Seq(Token)
          PROVE  (a \o b) \o c = a \o (b \o c)
      BY ConcatAssociative
    <3>6. (FlattenSeq(serial_log) \o FirstLine(buf)) \o Words(Stream')
              = FlattenSeq(serial_log) \o (FirstLine(buf) \o Words(Stream'))
      BY <2>4, <2>5, <3>4, <3>5
    <3> QED BY <1>4, <3>1, <3>2, <3>3, <3>6 DEF LogInv
  <2> QED BY <2>6, <2>7 DEF LogInv
<1> QED BY <1>2, <1>3, <1>4

LEMMA EmptyLog ==
    ASSUME Basic, Basic', LogInv, NEW buf, NEW m, Takes(buf, m), FirstLine(buf) = <<>>,
           UNCHANGED <<call, serial_log, misled, handle, received>>
    PROVE  LogInv'
<1>1. Words(Stream') = Words(Stream)
  BY EmptyLineWords DEF Takes
<1> QED BY <1>1 DEF LogInv

LEMMA ReadLog ==
    ASSUME Basic, Basic', VerdictInv, LogInv, ReadBuffered \/ \E n \in 1..Len(wire) : ReadData(n)
    PROVE  LogInv'
<1>1. ASSUME NEW n \in 1..Len(wire), ReadData(n) PROVE LogInv'
  <2> DEFINE buf == line_buf \o SubSeq(wire, 1, n)
  <2>1. at = "reading" /\ UNCHANGED received
    BY <1>1 DEF ReadData
  <2>2. CASE ~HasLine(buf)
    <3>1. CutOf(Stream', Stream, 0, Len(Stream)) /\ UNCHANGED <<leftover, handle>> /\ KeepReading
      BY <1>1, <2>2, ReadOnStream
    <3>2. Stream' = Stream
      <4>1. ASSUME NEW s \in Seq(Sound), NEW t \in Seq(Sound), CutOf(t, s, 0, Len(s)) PROVE t = s
        <5>1. Len(s) \in Nat /\ Len(t) = Len(s) - 0 /\ \A i \in 1..Len(s) - 0 : t[i] = s[i + 0]
          BY <4>1 DEF CutOf
        <5>2. Len(t) = Len(s) /\ \A i \in 1..Len(s) : t[i] = s[i]
          BY <5>1
        <5> QED BY <5>2, SeqEqual
      <4> QED BY <3>1, <4>1 DEF CutOf
    <3>3. UNCHANGED <<call, serial_log, misled>>
      BY <3>1 DEF KeepReading, LoopAgain, call_vars, monitor_vars, start_vars
    <3> QED BY <2>1, <3>1, <3>2, <3>3, StillLog
  <2>3. CASE HasLine(buf)
    <3>1. PICK m : Takes(buf, m)
      BY <1>1, <2>3, ReadDataTakes
    <3>2. IF FirstLine(buf) = <<>> THEN KeepReading ELSE OnLine(FirstLine(buf))
      BY <1>1, <2>3 DEF ReadData
    <3> HIDE DEF buf
    <3>3. CASE FirstLine(buf) = <<>>
      <4>1. UNCHANGED <<call, serial_log, misled, handle>>
        BY <3>2, <3>3 DEF KeepReading, LoopAgain, call_vars, monitor_vars, start_vars
      <4> QED BY <2>1, <3>1, <3>3, <4>1, EmptyLog
    <3>4. CASE FirstLine(buf) # <<>>
      BY <2>1, <3>1, <3>2, <3>4, LineLog
    <3> QED BY <3>3, <3>4
  <2> QED BY <2>2, <2>3
<1>2. ASSUME ReadBuffered PROVE LogInv'
  <2>1. at = "reading" /\ UNCHANGED received
    BY <1>2 DEF ReadBuffered
  <2>2. PICK m : Takes(line_buf, m)
    BY <1>2, ReadBufferedTakes
  <2>3. CASE FirstLine(line_buf) = <<>>
    <3>1. UNCHANGED <<call, serial_log, misled, handle>>
      BY <1>2, <2>3 DEF ReadBuffered, LoopAgain, monitor_vars, start_vars
    <3> QED BY <2>1, <2>2, <2>3, <3>1, EmptyLog
  <2>4. CASE FirstLine(line_buf) # <<>>
    <3>1. OnLine(FirstLine(line_buf))
      BY <1>2, <2>4 DEF ReadBuffered
    <3> QED BY <2>1, <2>2, <2>4, <3>1, LineLog
  <2> QED BY <2>3, <2>4
<1> QED BY <1>1, <1>2

\* A reconnect that succeeds begins a connection on which nothing has been sent.
LEMMA ConnectLog ==
    ASSUME Basic, Basic', ReconnectInv, LogInv, Connect
    PROVE  LogInv'
<1>1. /\ UNCHANGED <<line_buf, wire, call, misled, serial_log>> /\ line_buf = <<>> /\ call = "monitor"
      /\ wire = <<>> /\ received' = FlattenSeq(serial_log)
  BY DEF Connect, ReconnectInv, Attempting, Basic, CallInv, LinkInv, buffer_vars, monitor_vars, start_vars
<1>3. Words(Stream') = <<>>
  <2>1. Stream' = <<>>
    BY <1>1, ConcatEmptySeq DEF Stream
  <2> QED BY <2>1, NoWords
<1>4. FlattenSeq(serial_log) \o <<>> = FlattenSeq(serial_log)
  BY LogTypes, ConcatEmptySeq
<1> QED BY <1>1, <1>3, <1>4 DEF LogInv

LEMMA HostLog ==
    ASSUME Basic, Basic', VerdictInv, ReconnectInv, LogInv, Host \/ Flushed
    PROVE  LogInv'
<1>1. CASE ReadTimesOut \/ CallTop \/ MonitorTimesOut \/ MonitorReads \/ MonitorPolls \/ PolledBeforeSleep
           \/ PolledAsleep \/ ConnectFails \/ CommandWritten \/ SohWritten \/ NextAttempt \/ ReconnectFails
  <2>1. UNCHANGED <<line_buf, wire, handle, received, misled, serial_log>>
    BY <1>1 DEF ReadTimesOut, CallTop, MonitorTimesOut, MonitorReads, MonitorPolls, PolledBeforeSleep,
         PolledAsleep, ConnectFails, CommandWritten, SohWritten, NextAttempt, ReconnectFails, Environment,
         monitor_vars, Unmonitored, buffer_vars, link_vars, start_vars
  <2>2. call' \in {call, "none"}
    BY <1>1 DEF ReadTimesOut, CallTop, MonitorTimesOut, MonitorReads, MonitorPolls, PolledBeforeSleep,
         PolledAsleep, ConnectFails, CommandWritten, SohWritten, NextAttempt, ReconnectFails, LoopAgain,
         StartReading, Attempt, Retry, Return, Fail
  <2>3. Stream' = Stream
    BY <2>1, SameStream
  <2> QED BY <2>1, <2>2, <2>3, StillLog
<1>2. CASE PolledAwake \/ AckWritten
  <2>1. handle' = "closed" /\ call' = call /\ misled' = misled /\ serial_log' = serial_log
    BY <1>2 DEF PolledAwake, AckWritten, Attempt, LoopAgain, start_vars
  <2> QED BY <2>1 DEF LogInv
<1> QED BY <1>1, <1>2, ReadLog, ConnectLog DEF Host, Flushed

LEMMA CallerLog ==
    ASSUME Basic, Basic', LogInv, Caller
    PROVE  LogInv'
<1>2. CASE Discover \/ (\E t \in Tests : StartTest(t)) \/ Reopen
  BY <1>2 DEF Discover, StartTest, Reopen, Begin, call_vars, LogInv
<1>3. CASE Monitor
  <2>1. /\ serial_log' = <<>> /\ received' = Words(Stream) /\ UNCHANGED <<line_buf, wire, handle>>
        /\ call = "none"
    BY <1>3 DEF Monitor, Begin, NoMonitor, buffer_vars, link_vars, Stream
  <2>2. Stream' = Stream
    BY <2>1, SameStream
  <2>3. FlattenSeq(serial_log') \o Words(Stream') = received'
    BY <2>1, <2>2, FlattenEmpty, LogTypes, ConcatEmptySeq
  <2>4. \A i \in 1..Len(serial_log') : Len(serial_log'[i]) = 1
    <3>1. Len(serial_log') = 0
      BY <2>1
    <3> QED BY <3>1
  <2>5. call' = "monitor" /\ misled' = misled
    BY <1>3 DEF Monitor, Begin, start_vars
  <2> QED BY <2>3, <2>4, <2>5 DEF LogInv
<1> QED BY <1>2, <1>3 DEF Caller

LEMMA NextLog ==
    ASSUME Basic, Basic', VerdictInv, ReconnectInv, LogInv, [Next]_vars
    PROVE  LogInv'
<1>1. CASE Tick \/ UNCHANGED vars
  <2>1. UNCHANGED <<line_buf, wire, handle, received, misled, serial_log, call>>
    BY <1>1 DEF Tick, vars, call_vars, buffer_vars, monitor_vars, link_vars, start_vars
  <2>2. Stream' = Stream
    BY <2>1, SameStream
  <2> QED BY <2>1, <2>2, StillLog
<1> QED BY <1>1, DeviceLog, HostLog, CallerLog DEF Next

\* While monitor is connected, its log and the lines that are still to be read are
\* what the device sent over this connection: _read_line, over a transport that
\* cuts the stream anywhere, and the buffer it keeps from call to call neither
\* lose, join, split nor reorder a line.
THEOREM LogIsFaithful == Spec => []LogFaithful
<1> DEFINE Inv == Basic /\ ReconnectInv /\ VerdictInv /\ LogInv
<1>1. Init => Inv
  <2> SUFFICES ASSUME Init PROVE Inv
    OBVIOUS
  <2>1. Basic /\ VerdictInv
    BY InitTyped, InitVerdict DEF Basic
  <2>2. at = "top" /\ outcome = NoOutcome /\ call = "none"
    BY DEF Init
  <2>3. ReconnectInv
    BY <2>2, NoOutcomeFields DEF ReconnectInv, Attempting, ReconnectsIfPortOpens
  <2>4. LogInv
    BY <2>2 DEF LogInv
  <2> QED BY <2>1, <2>3, <2>4
<1>2. Inv /\ [Next]_vars => Inv'
  BY NextBasic, NextReconnect, NextVerdict, NextLog
<1>3. Inv => LogFaithful
  BY DEF LogInv, LogFaithful, Stream
<1> HIDE DEF Inv
<1> QED BY <1>1, <1>2, <1>3, PTL DEF Spec

=============================================================================
