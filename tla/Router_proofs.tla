---------------------------- MODULE Router_proofs ----------------------------
(***************************************************************************)
(* Proofs about the receivers behind a Router, for every set of messages,  *)
(* list of routes, predicates and bounds.                                  *)
(*                                                                         *)
(* Every receiver is disturbed by its own calls only, so each invariant is *)
(* proved from what the calls of one receiver do (the lemmas ...Calls) and *)
(* from what of them each action of the router makes.                      *)
(***************************************************************************)
EXTENDS Router, FiniteSetTheorems, WellFoundedInduction, TLAPS

-----------------------------------------------------------------------------
(* SleepWakeMonitor.                                                       *)

\* What the calls of the SleepWakeMonitor and the port do.
SleepStep ==
    \/ \E m \in Messages : MonitorFeed(m) /\ UNCHANGED port
    \/ CheckPort
    \/ MonitorReset /\ UNCHANGED port
    \/ PortChanges
    \/ UNCHANGED sleep_vars

\* The alternation and the reason to be waking hold together with what an awake
\* monitor remembers of the port: nothing.
SleepInv ==
    /\ state \in {"awake", "sleeping", "waking"}
    /\ seen \subseteq {"gone", "back"}
    /\ CallbacksAlternate
    /\ WakingWasSeen
    /\ port_was_gone => "gone" \in seen
    /\ state = "awake" => ~port_was_gone

LEMMA SleepCalls ==
    ASSUME NEW m \in Messages, MonitorFeed(m), UNCHANGED port, SleepInv
    PROVE  SleepInv'
<1>1. CASE SleepSeen(m)
  BY <1>1 DEF MonitorFeed, SleepSeen, WakeSeen, TransitionToSleeping, SleepInv, CallbacksAlternate,
              WakingWasSeen, monitor_vars
<1>2. CASE WakeSeen(m)
  <2>1. WakeUp /\ state # "awake"
    BY <1>2 DEF MonitorFeed, SleepSeen, WakeSeen, monitor_vars
  <2>2. unended = 1
    BY <2>1 DEF SleepInv, CallbacksAlternate
  <2>3. unended' = 0 /\ state' = "awake" /\ port_was_gone' = FALSE /\ seen' = {}
    BY <2>1, <2>2 DEF WakeUp
  <2> QED
    BY <2>3 DEF SleepInv, CallbacksAlternate, WakingWasSeen
<1>3. CASE ~SleepSeen(m) /\ ~WakeSeen(m)
  <2>1. UNCHANGED monitor_vars
    BY <1>3 DEF MonitorFeed
  <2> QED
    BY <2>1 DEF SleepInv, CallbacksAlternate, WakingWasSeen, monitor_vars
<1> QED BY <1>1, <1>2, <1>3

LEMMA CheckPortCall ==
    ASSUME CheckPort, SleepInv
    PROVE  SleepInv'
<1>1. CASE state = "awake" /\ ~port
  BY <1>1 DEF CheckPort, TransitionToSleeping, SleepInv, CallbacksAlternate, WakingWasSeen
<1>2. CASE state = "sleeping" /\ port /\ port_was_gone
  <2>1. seen' = {"gone", "back"}
    BY <1>2 DEF CheckPort, SeenNow, SleepInv
  <2> QED
    BY <1>2, <2>1 DEF CheckPort, SleepInv, CallbacksAlternate, WakingWasSeen
<1>3. CASE (state = "awake" => port) /\ ~(state = "sleeping" /\ port /\ port_was_gone)
  <2>1. seen \subseteq seen' /\ seen' \subseteq {"gone", "back"}
    BY <1>3 DEF CheckPort, SeenNow, SleepInv
  <2>2. UNCHANGED <<port, state, port_was_gone, unended>>
    BY <1>3 DEF CheckPort
  <2> QED
    BY <2>1, <2>2 DEF SleepInv, CallbacksAlternate, WakingWasSeen
<1> QED BY <1>1, <1>2, <1>3 DEF CheckPort

LEMMA SleepStepKeepsInv ==
    ASSUME SleepStep, SleepInv
    PROVE  SleepInv'
<1>1. CASE \E m \in Messages : MonitorFeed(m) /\ UNCHANGED port
  BY <1>1, SleepCalls
<1>2. CASE CheckPort
  BY <1>2, CheckPortCall
<1>3. CASE MonitorReset /\ UNCHANGED port
  BY <1>3 DEF MonitorReset, SleepInv, CallbacksAlternate, WakingWasSeen
<1>4. CASE PortChanges
  BY <1>4 DEF PortChanges, monitor_vars, SleepInv, CallbacksAlternate, WakingWasSeen
<1>5. CASE UNCHANGED sleep_vars
  BY <1>5 DEF sleep_vars, monitor_vars, SleepInv, CallbacksAlternate, WakingWasSeen
<1> QED BY <1>1, <1>2, <1>3, <1>4, <1>5 DEF SleepStep

LEMMA FedMessages ==
    ASSUME FeedMessage, alphabet \in Alphabets
    PROVE  \E m \in Messages, raising \in SUBSET {"crash", "sleep"} : Feed(m, raising)
BY RoutesAssumption DEF RoutesAssumption, FeedMessage

LEMMA NextIsSleepStep ==
    ASSUME [Next]_vars, alphabet \in Alphabets
    PROVE  SleepStep /\ alphabet' = alphabet
<1>1. CASE FeedMessage
  <2> PICK m \in Messages, raising \in SUBSET {"crash", "sleep"} : Feed(m, raising)
    BY <1>1, FedMessages
  <2> QED BY DEF Feed, SleepStep, sleep_vars
<1>2. CASE Reset
  BY <1>2 DEF Reset, SleepStep
<1>3. CASE Tick
  BY <1>3 DEF Tick, SleepStep, router_vars
<1>4. CASE CallCheckTimeout
  BY <1>4 DEF CallCheckTimeout, SleepStep, router_vars
<1>5. CASE CallCheckPort
  BY <1>5 DEF CallCheckPort, SleepStep, router_vars
<1>6. CASE ChangePort
  BY <1>6 DEF ChangePort, SleepStep, router_vars
<1>7. CASE CallSetCurrentTest
  BY <1>7 DEF CallSetCurrentTest, SleepStep, router_vars
<1>8. CASE UNCHANGED vars
  BY <1>8 DEF vars, SleepStep, router_vars
<1> QED BY <1>1, <1>2, <1>3, <1>4, <1>5, <1>6, <1>7, <1>8 DEF Next

\* A behaviour's messages stay in its alphabet.
InAlphabets == alphabet \in Alphabets

LEMMA SleepInvariant == Spec => [](SleepInv /\ InAlphabets)
<1>1. Init => SleepInv /\ InAlphabets
  BY DEF Init, SleepInit, SleepInv, CallbacksAlternate, WakingWasSeen, InAlphabets
<1>2. SleepInv /\ InAlphabets /\ [Next]_vars => (SleepInv /\ InAlphabets)'
  BY NextIsSleepStep, SleepStepKeepsInv DEF InAlphabets
<1> QED BY <1>1, <1>2, PTL DEF Spec

\* SleepWakeMonitor: on_sleep and on_wake alternate, whatever lines reach the
\* monitor and however the port and check_port come between them.
THEOREM SleepCallbacksAlternate == Spec => []CallbacksAlternate
<1>1. SleepInv => CallbacksAlternate
  BY DEF SleepInv
<1> QED BY <1>1, SleepInvariant, PTL

\* SleepWakeMonitor: the monitor is waking only after check_port has seen the port
\* gone and back in this sleep.
THEOREM WakingJustified == Spec => []WakingWasSeen
<1>1. SleepInv => WakingWasSeen
  BY DEF SleepInv
<1> QED BY <1>1, SleepInvariant, PTL

-----------------------------------------------------------------------------
(* CrashDetector.                                                          *)

\* What the calls of the CrashDetector, the clock and the device do.
DetectorStep ==
    \/ \E m \in Messages : DetectorFeed(m) /\ silence' = 0 /\ UNCHANGED crash_line_limit
    \/ UNCHANGED detector_vars /\ silence' = 0 /\ UNCHANGED crash_line_limit
    \/ CheckTimeout
    \/ DetectorReset
    \/ CrashTick
    \/ UNCHANGED crash_vars

LEMMA NextIsDetectorStep ==
    ASSUME [Next]_vars, InAlphabets
    PROVE  DetectorStep
<1>1. CASE FeedMessage
  <2> PICK m \in Messages, raising \in SUBSET {"crash", "sleep"} : Feed(m, raising)
    BY <1>1, FedMessages DEF InAlphabets
  <2> QED BY DEF Feed, DetectorStep
<1>2. CASE Reset
  BY <1>2 DEF Reset, DetectorStep
<1>3. CASE Tick
  BY <1>3 DEF Tick, DetectorStep
<1>4. CASE CallCheckTimeout
  BY <1>4 DEF CallCheckTimeout, DetectorStep
<1>5. CASE CallCheckPort
  BY <1>5 DEF CallCheckPort, DetectorStep
<1>6. CASE ChangePort
  BY <1>6 DEF ChangePort, DetectorStep
<1>7. CASE CallSetCurrentTest
  BY <1>7 DEF CallSetCurrentTest, DetectorStep
<1>8. CASE UNCHANGED vars
  BY <1>8 DEF vars, DetectorStep
<1> QED BY <1>1, <1>2, <1>3, <1>4, <1>5, <1>6, <1>7, <1>8 DEF Next

LEMMA ReportTriggers ==
    ASSUME NEW event, event.reason # "none", Report(event)
    PROVE  Triggered'
<1>1. NoEvent.reason = "none"
  BY DEF NoEvent
<1> QED BY <1>1 DEF Report, Triggered

LEMMA ReportCounts ==
    ASSUME NEW event, event.reason # "none", Report(event), ~Triggered, ReportedOnce
    PROVE  ReportedOnce'
BY ReportTriggers DEF Report, ReportedOnce

LEMMA DetectorStepReports ==
    ASSUME DetectorStep, ReportedOnce
    PROVE  ReportedOnce'
<1>0. UNCHANGED <<crash_event, reports>> => ReportedOnce'
  BY DEF ReportedOnce, Triggered
<1>1. CASE \E m \in Messages : DetectorFeed(m)
  <2> PICK m \in Messages : DetectorFeed(m)
    BY <1>1
  <2>1. CASE ~Triggered /\ Finalizes(m)
    BY <2>1, ReportCounts DEF DetectorFeed, Finalize
  <2> QED BY <1>0, <2>1 DEF DetectorFeed, detector_vars
<1>2. CASE CheckTimeout
  BY <1>2, ReportCounts DEF CheckTimeout, MayReport
<1>3. CASE DetectorReset
  BY <1>3 DEF DetectorReset, ReportedOnce, Triggered
<1>4. CASE UNCHANGED <<crash_event, reports>>
  BY <1>0, <1>4
<1> QED BY <1>1, <1>2, <1>3, <1>4 DEF DetectorStep, CrashTick, crash_vars, detector_vars

\* CrashDetector: on_crash is called exactly once for the event that is set,
\* whatever is fed, polled or reset after it and whatever callbacks raise.
THEOREM ReportsCounted == Spec => []ReportedOnce
<1>1. Init => ReportedOnce /\ InAlphabets
  BY DEF Init, CrashInit, ReportedOnce, Triggered, InAlphabets
<1>2. ReportedOnce /\ InAlphabets /\ [Next]_vars => (ReportedOnce /\ InAlphabets)'
  BY NextIsSleepStep, NextIsDetectorStep, DetectorStepReports DEF InAlphabets
<1> QED BY <1>1, <1>2, PTL DEF Spec

-----------------------------------------------------------------------------
(* A CrashDetector that sees every message.                                *)

LEMMA DetectorReceives ==
    ASSUME DetectorSeesAll, NEW m, NEW raising
    PROVE  "crash" \in Receiving(m, raising)
<1> PICK i \in DOMAIN Routes : Routes[i].receiver = "crash"
  BY RoutesAssumption DEF RoutesAssumption
<1>1. Unguarded(i) /\ \A j \in 1..(i - 1) : ~Unguarded(j)
  BY DEF DetectorSeesAll
<1>2. i \in Reached(m, raising)
  BY <1>1 DEF Reached, Aborts
<1>3. Selected(i, m)
  BY <1>1 DEF Selected
<1> QED BY <1>2, <1>3 DEF Receiving

\* NothingWithheld: no other route keeps a message from the detector.
THEOREM DetectorSeesEveryMessage == Spec => []NothingWithheld
<1>1. Init => NothingWithheld /\ InAlphabets
  BY DEF Init, NothingWithheld, InAlphabets
<1>2. ASSUME NothingWithheld, InAlphabets, [Next]_vars
      PROVE  NothingWithheld' /\ InAlphabets'
  <2>0. SUFFICES ASSUME DetectorSeesAll PROVE to_crash' = fed'
    BY <1>2, NextIsSleepStep DEF NothingWithheld, InAlphabets
  <2>1. CASE FeedMessage
    <3> PICK m \in Messages, raising \in SUBSET {"crash", "sleep"} : Feed(m, raising)
      BY <1>2, <2>1, FedMessages DEF InAlphabets
    <3> QED BY <1>2, <2>0, DetectorReceives DEF Feed, NothingWithheld
  <2>2. CASE Reset
    BY <2>2 DEF Reset
  <2>3. CASE UNCHANGED router_vars
    BY <1>2, <2>0, <2>3 DEF router_vars, NothingWithheld
  <2> QED
    BY <1>2, <2>1, <2>2, <2>3 DEF Next, Tick, CallCheckTimeout, CallCheckPort, ChangePort,
                                  CallSetCurrentTest, SetCurrentTest, vars, router_vars
<1> QED BY <1>1, <1>2, PTL DEF Spec

\* While nothing is reported, the detector's idea of the silence is the true one.
SilenceInv == Triggered \/ silent_for = silence

LEMMA FeedKeepsSilence ==
    ASSUME DetectorSeesAll, NEW m, NEW raising, Feed(m, raising), SilenceInv
    PROVE  SilenceInv'
<1>1. DetectorFeed(m) /\ silence' = 0
  BY DetectorReceives DEF Feed
<1>2. CASE Triggered
  BY <1>1, <1>2 DEF DetectorFeed, detector_vars, SilenceInv, Triggered
<1>3. CASE ~Triggered
  BY <1>1, <1>3 DEF DetectorFeed, FeedTime, SilenceInv
<1> QED BY <1>2, <1>3

LEMMA NextKeepsSilence ==
    ASSUME DetectorSeesAll, [Next]_vars, SilenceInv, InAlphabets
    PROVE  SilenceInv'
<1>1. CASE FeedMessage
  BY <1>1, FedMessages, FeedKeepsSilence DEF InAlphabets
<1>2. CASE Reset
  BY <1>2 DEF Reset, DetectorReset, SilenceInv
<1>3. CASE Tick
  BY <1>3 DEF Tick, CrashTick, SilenceInv, Triggered
<1>4. CASE CallCheckTimeout
  BY <1>4, ReportTriggers DEF CallCheckTimeout, CheckTimeout, SilenceInv
<1>5. CASE UNCHANGED crash_vars
  BY <1>5 DEF crash_vars, detector_vars, SilenceInv, Triggered
<1> QED
  BY <1>1, <1>2, <1>3, <1>4, <1>5 DEF Next, CallCheckPort, ChangePort, CallSetCurrentTest, vars

LEMMA HangStep ==
    ASSUME [Next]_vars, SilenceInv, InAlphabets,
           crash_event.reason = "none", crash_event'.reason = "hang"
    PROVE  silence # None /\ silence >= SilentTimeout
<1>1. CheckTimeout => silence # None /\ silence >= SilentTimeout
  BY DEF CheckTimeout, MayReport, Silent, SilenceInv
<1>2. ASSUME NEW m \in Messages, DetectorFeed(m) PROVE FALSE
  BY <1>2 DEF DetectorFeed, Finalize, Report, detector_vars
<1>3. ~DetectorReset
  BY DEF DetectorReset, NoEvent
<1> QED
  BY <1>1, <1>2, <1>3, NextIsDetectorStep DEF DetectorStep, CrashTick, crash_vars, detector_vars

\* HangIsSilence: with a detector that sees every message, a hang is reported only
\* after a silence of the whole timeout.
THEOREM HangsAreSilences ==
    ASSUME DetectorSeesAll
    PROVE  Spec => HangIsSilence
<1>1. Init => SilenceInv /\ InAlphabets
  BY DEF Init, CrashInit, SilenceInv, InAlphabets
<1>2. SilenceInv /\ InAlphabets /\ [Next]_vars => (SilenceInv /\ InAlphabets)'
  BY NextIsSleepStep, NextKeepsSilence DEF InAlphabets
<1>3. SilenceInv /\ InAlphabets /\ [Next]_vars =>
        [crash_event.reason = "none" /\ crash_event'.reason = "hang"
            => silence # None /\ silence >= SilentTimeout]_crash_vars
  BY HangStep
<1> QED BY <1>1, <1>2, <1>3, PTL DEF Spec, HangIsSilence

-----------------------------------------------------------------------------
(* What a crash report holds.                                              *)

NoCrash(s) == \A i \in 1..Len(s) : s[i].crash = None

FirstAt(s, k) ==
    /\ k \in 1..Len(s)
    /\ s[k].crash # None
    /\ \A i \in 1..(k - 1) : s[i].crash = None

LEMMA FirstAtIsFirst ==
    ASSUME NEW s \in Seq(Messages), NEW k, FirstAt(s, k)
    PROVE  FirstCrash(s) = k /\ k > 0
<1> DEFINE I == {i \in 1..Len(s) : s[i].crash # None}
<1>1. k \in I /\ \A i \in I : k <= i
  BY DEF FirstAt
<1>2. I \subseteq Int
  OBVIOUS
<1>3. FirstCrash(s) = IF I # {} THEN Min(I) ELSE 0
  BY DEF FirstCrash, SelectInSeq
<1>4. k > 0
  BY DEF FirstAt
<1> HIDE DEF I
<1>5. Min(I) = k
  <2>1. Min(I) \in I /\ \A i \in I : Min(I) <= i
    BY <1>1 DEF Min
  <2>2. k \in Int /\ Min(I) \in Int
    BY <1>1, <1>2, <2>1
  <2>3. k <= Min(I) /\ Min(I) <= k
    BY <1>1, <2>1
  <2> HIDE DEF Min
  <2> QED BY <2>2, <2>3
<1> QED BY <1>1, <1>3, <1>4, <1>5

LEMMA FirstAtStays ==
    ASSUME NEW s \in Seq(Messages), NEW m \in Messages, NEW k, FirstAt(s, k)
    PROVE  FirstAt(Append(s, m), k)
<1>1. Len(Append(s, m)) = Len(s) + 1 /\ \A i \in 1..Len(s) : Append(s, m)[i] = s[i]
  OBVIOUS
<1> QED BY <1>1 DEF FirstAt

LEMMA FirstAtEnd ==
    ASSUME NEW s \in Seq(Messages), NEW m \in Messages, NoCrash(s), m.crash # None
    PROVE  FirstAt(Append(s, m), Len(s) + 1)
<1>1. /\ Len(Append(s, m)) = Len(s) + 1
      /\ Append(s, m)[Len(s) + 1] = m
      /\ \A i \in 1..Len(s) : Append(s, m)[i] = s[i]
  OBVIOUS
<1> QED BY <1>1 DEF FirstAt, NoCrash

\* The number of lines a report holds.
Count == IF crash_line_limit > 1 THEN crash_line_limit ELSE 1

\* The lines buffered are those since the first crash message.
Buffered(s, lines) ==
    \E k \in 1..Len(s) :
        /\ FirstAt(s, k)
        /\ lines = SubSeq(s, k, Len(s))
        /\ Len(lines) < crash_line_limit

\* The lines reported are the first ones that were buffered.
Reported(s, event) ==
    \E k \in 1..Len(s) :
        /\ FirstAt(s, k)
        /\ k + Count - 1 <= Len(s)
        /\ event.lines = SubSeq(s, k, k + Count - 1)
        /\ event.pattern = s[k].crash

ReportInv ==
    /\ to_crash \in Seq(Messages)
    /\ crash_line_limit \in LineLimits
    /\ ~Triggered /\ ~crash_detected => crash_lines = <<>> /\ NoCrash(to_crash)
    /\ ~Triggered /\ crash_detected => Buffered(to_crash, crash_lines)
    /\ crash_event.reason = "crash" => Reported(to_crash, crash_event)

LEMMA ReportHolds ==
    ASSUME ReportInv
    PROVE  CrashReportExact
<1> SUFFICES ASSUME crash_event.reason = "crash"
             PROVE  /\ FirstCrash(to_crash) > 0
                    /\ crash_event.lines = SubSeq(to_crash, FirstCrash(to_crash),
                                                  FirstCrash(to_crash) + Count - 1)
                    /\ Len(crash_event.lines) = Count
                    /\ crash_event.pattern = to_crash[FirstCrash(to_crash)].crash
  BY DEF CrashReportExact, Count
<1> PICK k \in 1..Len(to_crash) :
        /\ FirstAt(to_crash, k)
        /\ k + Count - 1 <= Len(to_crash)
        /\ crash_event.lines = SubSeq(to_crash, k, k + Count - 1)
        /\ crash_event.pattern = to_crash[k].crash
  BY DEF ReportInv, Reported
<1>1. FirstCrash(to_crash) = k /\ k > 0
  BY FirstAtIsFirst DEF ReportInv
<1>2. Count \in Nat \ {0}
  BY LineLimitsAssumption DEF ReportInv, Count
<1>3. Len(SubSeq(to_crash, k, k + Count - 1)) = Count
  BY <1>2 DEF ReportInv
<1> QED BY <1>1, <1>3

\* One more message leaves a report as it is.
LEMMA ReportStays ==
    ASSUME NEW s \in Seq(Messages), NEW m \in Messages, NEW event, Reported(s, event),
           crash_line_limit \in Int
    PROVE  Reported(Append(s, m), event)
<1> PICK k \in 1..Len(s) : /\ FirstAt(s, k)
                           /\ k + Count - 1 <= Len(s)
                           /\ event.lines = SubSeq(s, k, k + Count - 1)
                           /\ event.pattern = s[k].crash
  BY DEF Reported
<1>1. Count \in Nat \ {0}
  BY DEF Count
<1>2. FirstAt(Append(s, m), k) /\ k \in 1..Len(Append(s, m)) /\ Append(s, m)[k] = s[k]
  BY FirstAtStays
<1>3. SubSeq(Append(s, m), k, k + Count - 1) = SubSeq(s, k, k + Count - 1)
  BY <1>1
<1>4. k + Count - 1 <= Len(Append(s, m))
  BY <1>1
<1> QED BY <1>2, <1>3, <1>4 DEF Reported

\* The lines with one more message are those of the messages with one more.
LEMMA LinesGrow ==
    ASSUME NEW m \in Messages, ReportInv, ~Triggered, crash_detected \/ m.crash # None
    PROVE  \E k \in 1..Len(Append(to_crash, m)) :
              /\ FirstAt(Append(to_crash, m), k)
              /\ LinesWith(m) = SubSeq(Append(to_crash, m), k, Len(to_crash) + 1)
              /\ Len(LinesWith(m)) <= Count
<1>0. to_crash \in Seq(Messages) /\ crash_line_limit \in Int
  BY LineLimitsAssumption DEF ReportInv
<1>1. CASE crash_detected
  <2> PICK k \in 1..Len(to_crash) : /\ FirstAt(to_crash, k)
                                    /\ crash_lines = SubSeq(to_crash, k, Len(to_crash))
                                    /\ Len(crash_lines) < crash_line_limit
    BY <1>1 DEF ReportInv, Buffered
  <2>1. LinesWith(m) = Append(crash_lines, m)
    BY <1>1 DEF LinesWith
  <2>2. Append(crash_lines, m) = SubSeq(Append(to_crash, m), k, Len(to_crash) + 1)
    BY <1>0
  <2>3. Len(Append(crash_lines, m)) <= Count
    BY <1>0 DEF Count
  <2>4. FirstAt(Append(to_crash, m), k) /\ k \in 1..Len(Append(to_crash, m))
    BY <1>0, FirstAtStays
  <2> QED BY <2>1, <2>2, <2>3, <2>4
<1>2. CASE ~crash_detected
  <2>1. crash_lines = <<>> /\ NoCrash(to_crash) /\ m.crash # None
    BY <1>2 DEF ReportInv
  <2>2. LinesWith(m) = <<m>>
    BY <2>1 DEF LinesWith
  <2>3. SubSeq(Append(to_crash, m), Len(to_crash) + 1, Len(to_crash) + 1) = <<m>>
    <3> DEFINE n == Len(to_crash) + 1
               one == SubSeq(Append(to_crash, m), n, n)
    <3>1. Append(to_crash, m) \in Seq(Messages) /\ n \in 1..Len(Append(to_crash, m))
      BY <1>0
    <3>2. one \in Seq(Messages) /\ Len(one) = 1 /\ one[1] = Append(to_crash, m)[n]
      BY <3>1
    <3>3. Append(to_crash, m)[n] = m
      BY <1>0
    <3> HIDE DEF one
    <3>4. one = <<m>>
      BY <3>2, <3>3
    <3> QED BY <3>4 DEF one
  <2>4. FirstAt(Append(to_crash, m), Len(to_crash) + 1)
    BY <1>0, <2>1, FirstAtEnd
  <2>5. Len(<<m>>) <= Count
    BY <1>0 DEF Count
  <2>6. Len(to_crash) + 1 \in 1..Len(Append(to_crash, m))
    BY <1>0
  <2> QED BY <2>2, <2>3, <2>4, <2>5, <2>6
<1> QED BY <1>1, <1>2

LEMMA FeedKeepsReport ==
    ASSUME NEW m \in Messages, DetectorFeed(m), UNCHANGED crash_line_limit,
           to_crash' = Append(to_crash, m), ReportInv
    PROVE  ReportInv'
<1>0. /\ to_crash \in Seq(Messages) /\ to_crash' \in Seq(Messages)
      /\ Len(to_crash') = Len(to_crash) + 1
      /\ crash_line_limit \in Int /\ crash_line_limit' \in LineLimits
      /\ Count' = Count
  BY LineLimitsAssumption DEF ReportInv, Count
<1>1. CASE Triggered
  <2>1. UNCHANGED detector_vars
    BY <1>1 DEF DetectorFeed
  <2>2. Triggered'
    BY <1>1, <2>1 DEF Triggered, detector_vars
  <2>3. crash_event'.reason = "crash" => Reported(to_crash, crash_event)'
    <3>1. SUFFICES ASSUME crash_event.reason = "crash"
                   PROVE  Reported(to_crash', crash_event)
      BY <1>0, <2>1 DEF Reported, detector_vars
    <3> QED BY <1>0, <3>1, ReportStays DEF ReportInv
  <2> QED
    BY <1>0, <2>1, <2>2, <2>3 DEF ReportInv, detector_vars
<1>2. CASE ~Triggered /\ ~crash_detected /\ m.crash = None
  <2>1. crash_detected' = FALSE /\ crash_lines' = crash_lines /\ crash_event' = crash_event
    BY <1>2 DEF DetectorFeed, LinesWith, Finalizes
  <2>2. NoCrash(to_crash')
    BY <1>0, <1>2 DEF ReportInv, NoCrash
  <2>3. crash_event'.reason # "crash"
    BY <1>2, <2>1 DEF Triggered, NoEvent
  <2> QED
    BY <1>0, <1>2, <2>1, <2>2, <2>3 DEF ReportInv
<1>3. CASE ~Triggered /\ (crash_detected \/ m.crash # None)
  <2>0. crash_detected' = TRUE /\ crash_lines' = LinesWith(m)
    BY <1>3 DEF DetectorFeed
  <2> PICK k \in 1..Len(to_crash') : /\ FirstAt(to_crash', k)
                                     /\ LinesWith(m) = SubSeq(to_crash', k, Len(to_crash'))
                                     /\ Len(LinesWith(m)) <= Count
    BY <1>0, <1>3, LinesGrow
  <2>1. Len(LinesWith(m)) = Len(to_crash') - k + 1 /\ Len(LinesWith(m)) \in Nat \ {0}
    BY <1>0
  <2>2. CASE Finalizes(m)
    <3>1. crash_event' = [reason |-> "crash", pattern |-> LinesWith(m)[1].crash,
                          lines |-> LinesWith(m)]
      BY <1>3, <2>2 DEF DetectorFeed, Finalize, Report
    <3>2. Triggered'
      BY <3>1 DEF Triggered, NoEvent
    <3>3. Len(LinesWith(m)) = Count
      <4> DEFINE n == Len(LinesWith(m))
      <4>1. n >= crash_line_limit /\ n <= Count /\ n \in Nat \ {0}
        BY <2>1, <2>2 DEF Finalizes
      <4> HIDE DEF n
      <4>2. n = Count
        BY <1>0, <4>1 DEF Count
      <4> QED BY <4>2 DEF n
    <3>4. k + Count - 1 = Len(to_crash')
      BY <2>1, <3>3
    <3>5. LinesWith(m)[1] = to_crash'[k]
      BY <1>0
    <3>6. Reported(to_crash, crash_event)'
      <4>1. /\ FirstAt(to_crash, k)'
            /\ crash_event'.lines = SubSeq(to_crash', k, k + Count - 1)
            /\ crash_event'.pattern = to_crash'[k].crash
        BY <3>1, <3>4, <3>5 DEF FirstAt
      <4>2. k + Count - 1 <= Len(to_crash')
        BY <1>0, <3>4
      <4> QED BY <1>0, <4>1, <4>2 DEF Reported
    <3> QED
      BY <1>0, <3>2, <3>6 DEF ReportInv
  <2>3. CASE ~Finalizes(m)
    <3>1. crash_event' = crash_event
      BY <1>3, <2>3 DEF DetectorFeed
    <3>2. Len(LinesWith(m)) < crash_line_limit
      BY <1>0, <1>3, <2>1, <2>3 DEF Finalizes
    <3>3. Buffered(to_crash, crash_lines)'
      BY <1>0, <2>0, <3>2 DEF Buffered
    <3>4. crash_event'.reason # "crash"
      BY <1>3, <3>1 DEF Triggered, NoEvent
    <3> QED
      BY <1>0, <2>0, <3>3, <3>4 DEF ReportInv
  <2> QED BY <2>2, <2>3
<1> QED BY <1>1, <1>2, <1>3

LEMMA NextKeepsReport ==
    ASSUME [Next]_vars, ReportInv, InAlphabets
    PROVE  ReportInv'
<1>0. UNCHANGED <<crash_line_limit, crash_detected, crash_lines, crash_event, to_crash>> =>
        ReportInv'
  <2> SUFFICES ASSUME UNCHANGED <<crash_line_limit, crash_detected, crash_lines, crash_event,
                                  to_crash>>
               PROVE  ReportInv'
    OBVIOUS
  <2>1. Triggered' <=> Triggered
    BY DEF Triggered
  <2>2. Buffered(to_crash, crash_lines)' <=> Buffered(to_crash, crash_lines)
    BY DEF Buffered
  <2>3. Reported(to_crash, crash_event)' <=> Reported(to_crash, crash_event)
    BY DEF Reported, Count
  <2> QED BY <2>1, <2>2, <2>3 DEF ReportInv
<1>1. CASE FeedMessage
  <2> PICK m \in Messages, raising \in SUBSET {"crash", "sleep"} : Feed(m, raising)
    BY <1>1, FedMessages DEF InAlphabets
  <2>1. CASE "crash" \in Receiving(m, raising)
    BY <2>1, FeedKeepsReport DEF Feed
  <2>2. CASE "crash" \notin Receiving(m, raising)
    BY <1>0, <2>2 DEF Feed, detector_vars
  <2> QED BY <2>1, <2>2
<1>2. CASE Reset
  BY <1>2 DEF Reset, DetectorReset, ReportInv, NoCrash, NoEvent
<1>3. CASE CallCheckTimeout
  <2>1. /\ Triggered' /\ crash_event'.reason # "crash"
        /\ UNCHANGED <<crash_line_limit, to_crash>>
    BY <1>3, ReportTriggers DEF CallCheckTimeout, CheckTimeout, Report, router_vars
  <2> QED BY <2>1 DEF ReportInv
<1>4. CASE Tick
  BY <1>0, <1>4 DEF Tick, CrashTick, router_vars
<1>5. CASE UNCHANGED <<crash_vars, router_vars>>
  BY <1>0, <1>5 DEF crash_vars, detector_vars, router_vars
<1> QED
  BY <1>1, <1>2, <1>3, <1>4, <1>5 DEF Next, CallCheckPort, ChangePort, CallSetCurrentTest, vars

\* CrashReportExact: a report holds the first crash message that reached the
\* detector and the messages right after it, for every limit of lines.
THEOREM CrashReportsExact == Spec => []CrashReportExact
<1>1. Init => ReportInv /\ InAlphabets
  BY DEF Init, CrashInit, ReportInv, NoCrash, NoEvent, InAlphabets
<1>2. ReportInv /\ InAlphabets /\ [Next]_vars => (ReportInv /\ InAlphabets)'
  BY NextIsSleepStep, NextKeepsReport DEF InAlphabets
<1>3. ReportInv => CrashReportExact
  BY ReportHolds
<1> QED BY <1>1, <1>2, <1>3, PTL DEF Spec

-----------------------------------------------------------------------------
(* MemoryTracker.                                                          *)

\* The lines of the log that carry f for test t.
Carrying(log, t, f) ==
    {k \in 1..Len(log) : log[k].test = t /\ f \in Stored(log[k].mem)}

\* k is the last of the lines, or 0 when there is none.
LastOf(lines, k) ==
    \/ lines = {} /\ k = 0
    \/ k \in lines /\ \A j \in lines : j <= k

Attributions == [test : Tests, mem : {m.mem : m \in Messages}]

MemoryInv ==
    /\ current_test \in Tests \cup {NoTest}
    /\ attributed \in Seq(Attributions)
    /\ mem_data \in [Tests -> [DOMAIN NoInfo -> Nat]]
    /\ \A t \in Tests, f \in DOMAIN NoInfo :
          LastOf(Carrying(attributed, t, f), mem_data[t][f])

LEMMA MemoryHolds ==
    ASSUME MemoryInv
    PROVE  MemoryOfLastLines
<1> SUFFICES ASSUME NEW t \in Tests, NEW f \in DOMAIN NoInfo
             PROVE  mem_data[t][f] = LastCarrying(t, f)
  BY DEF MemoryOfLastLines
<1> DEFINE lines == Carrying(attributed, t, f)
           k == mem_data[t][f]
<1>1. LastOf(lines, k)
  BY DEF MemoryInv
<1>2. lines \subseteq Int
  BY DEF Carrying
<1>3. LastCarrying(t, f) =
        IF lines = {} THEN 0 ELSE CHOOSE i \in lines : \A j \in lines : j <= i
  <2>1. lines = {i \in DOMAIN attributed :
                   attributed[i].test = t /\ f \in Stored(attributed[i].mem)}
    BY DEF Carrying, MemoryInv
  <2> HIDE DEF lines
  <2> QED BY <2>1 DEF LastCarrying
<1> HIDE DEF lines, k
<1>4. CASE lines = {}
  BY <1>1, <1>3, <1>4 DEF LastOf, k
<1>5. CASE lines # {}
  <2>1. k \in lines /\ \A j \in lines : j <= k
    BY <1>1, <1>5 DEF LastOf
  <2> DEFINE last == CHOOSE i \in lines : \A j \in lines : j <= i
  <2>2. last \in lines /\ \A j \in lines : j <= last
    BY <2>1
  <2> HIDE DEF last
  <2>3. last = k
    BY <1>2, <2>1, <2>2
  <2> QED BY <1>3, <1>5, <2>3 DEF k, last
<1> QED BY <1>4, <1>5

LEMMA TakenKeepsMemory ==
    ASSUME NEW m \in Messages, MemoryTakes(m), MemoryFeed(m), MemoryInv
    PROVE  MemoryInv'
<1> DEFINE n == Len(attributed) + 1
           entry == [test |-> current_test, mem |-> m.mem]
<1>1. current_test \in Tests /\ current_test' = current_test
  BY DEF MemoryTakes, MemoryFeed, MemoryInv
<1>2. /\ attributed' = Append(attributed, entry)
      /\ attributed' \in Seq(Attributions)
      /\ Len(attributed') = n /\ n \in Nat
      /\ attributed'[n] = entry
      /\ \A k \in 1..Len(attributed) : attributed'[k] = attributed[k]
  <2>1. entry \in Attributions /\ attributed' = Append(attributed, entry)
    BY <1>1 DEF MemoryFeed, Attributions
  <2>2. attributed \in Seq(Attributions)
    BY DEF MemoryInv
  <2> HIDE DEF entry
  <2> QED BY <2>1, <2>2
<1>3. \A t \in Tests, f \in DOMAIN NoInfo :
        mem_data'[t][f] = IF t = current_test /\ f \in Stored(m.mem) THEN n ELSE mem_data[t][f]
  BY <1>1 DEF MemoryFeed, MemoryInv, NewValue
<1>4. mem_data' \in [Tests -> [DOMAIN NoInfo -> Nat]]
  <2> DEFINE info == [f \in DOMAIN NoInfo |->
                        IF f \in Stored(m.mem) THEN n ELSE mem_data[current_test][f]]
  <2>1. mem_data' = [mem_data EXCEPT ![current_test] = info]
    BY <1>1 DEF MemoryFeed, NewValue
  <2>2. info \in [DOMAIN NoInfo -> Nat]
    BY <1>1, <1>2 DEF MemoryInv
  <2> HIDE DEF info
  <2> QED BY <1>1, <2>1, <2>2 DEF MemoryInv
<1>5. ASSUME NEW t \in Tests, NEW f \in DOMAIN NoInfo
      PROVE  LastOf(Carrying(attributed', t, f), mem_data'[t][f])
  <2> DEFINE old == Carrying(attributed, t, f)
             new == Carrying(attributed', t, f)
  <2>1. attributed \in Seq(Attributions) /\ n \in Nat \ {0}
    BY DEF MemoryInv
  <2>2. LastOf(old, mem_data[t][f])
    BY DEF MemoryInv
  <2>3. \A k \in old : k \in Int /\ k < n
    BY <2>1 DEF Carrying
  <2>4. CASE t = current_test /\ f \in Stored(m.mem)
    <3>1. new = old \cup {n}
      BY <1>2, <2>4 DEF Carrying
    <3>2. mem_data'[t][f] = n
      BY <1>3, <2>4
    <3>3. n \in new /\ \A k \in new : k <= n
      <4> HIDE DEF old, new
      <4> QED BY <2>1, <2>3, <3>1
    <3> QED BY <3>2, <3>3 DEF LastOf
  <2>5. CASE ~(t = current_test /\ f \in Stored(m.mem))
    <3>1. new = old
      BY <1>2, <2>5 DEF Carrying
    <3>2. mem_data'[t][f] = mem_data[t][f]
      BY <1>3, <2>5
    <3> QED BY <2>2, <3>1, <3>2
  <2> QED BY <2>4, <2>5
<1> QED BY <1>1, <1>2, <1>4, <1>5 DEF MemoryInv

LEMMA NextKeepsMemory ==
    ASSUME [Next]_vars, MemoryInv, InAlphabets
    PROVE  MemoryInv'
<1>0. UNCHANGED memory_vars => MemoryInv'
  BY DEF MemoryInv, memory_vars
<1>1. CASE FeedMessage
  <2> PICK m \in Messages, raising \in SUBSET {"crash", "sleep"} : Feed(m, raising)
    BY <1>1, FedMessages DEF InAlphabets
  <2>1. CASE MemoryFeed(m) /\ MemoryTakes(m)
    BY <2>1, TakenKeepsMemory
  <2>2. CASE UNCHANGED memory_vars
    BY <1>0, <2>2
  <2> QED BY <2>1, <2>2 DEF Feed, MemoryFeed
<1>2. CASE Reset
  BY <1>2 DEF Reset, MemoryReset, MemoryInv, NoInfo, Carrying, LastOf
<1>3. CASE CallSetCurrentTest
  BY <1>3 DEF CallSetCurrentTest, SetCurrentTest, MemoryInv
<1>4. CASE UNCHANGED memory_vars
  BY <1>0, <1>4
<1> QED
  BY <1>1, <1>2, <1>3, <1>4 DEF Next, Tick, CallCheckTimeout, CallCheckPort, ChangePort, vars

\* MemoryTracker: what is kept of a test is the last of each number that came while
\* it was the current test, however lines break off and tests come again.
THEOREM MemoryIsOfLastLines == Spec => []MemoryOfLastLines
<1>1. Init => MemoryInv /\ InAlphabets
  BY DEF Init, MemoryInit, MemoryInv, NoInfo, Carrying, LastOf, InAlphabets
<1>2. MemoryInv /\ InAlphabets /\ [Next]_vars => (MemoryInv /\ InAlphabets)'
  BY NextIsSleepStep, NextKeepsMemory DEF InAlphabets
<1>3. MemoryInv => MemoryOfLastLines
  BY MemoryHolds
<1> QED BY <1>1, <1>2, <1>3, PTL DEF Spec

-----------------------------------------------------------------------------
(* What passes through.                                                    *)

\* The first route whose exception leaves feed is reached.
LEMMA FirstAbortReached ==
    ASSUME NEW m, NEW raising, NEW k \in DOMAIN Routes, Aborts(k, m, raising)
    PROVE  \E i \in Reached(m, raising) : Aborts(i, m, raising)
<1> DEFINE R == OpToRel(<, Nat)
           T == {i \in DOMAIN Routes : Aborts(i, m, raising)}
<1>1. DOMAIN Routes = 1..Len(Routes) /\ Len(Routes) \in Nat
  BY RoutesAssumption DEF RoutesAssumption
<1>2. T \subseteq Nat /\ T # {}
  BY <1>1
<1>3. IsWellFoundedOn(R, Nat)
  BY NatLessThanWellFounded
<1>4. \A x, y \in Nat : x < y => <<x, y>> \in R
  BY DEF OpToRel
<1>5. PICK i \in T : \A j \in T : <<j, i>> \notin R
  <2> HIDE DEF R, T
  <2> QED BY <1>2, <1>3, WFMin
<1>6. ASSUME NEW j \in 1..(i - 1) PROVE ~Aborts(j, m, raising)
  <2>1. j \in DOMAIN Routes /\ <<j, i>> \in R
    <3>1. i \in 1..Len(Routes)
      BY <1>1, <1>5
    <3> HIDE DEF R
    <3> QED BY <1>1, <1>4, <3>1
  <2> QED BY <1>5, <2>1
<1> QED BY <1>5, <1>6 DEF Reached

\* No predicate accepts the message.
Unwanted(m) ==
    \A i \in DOMAIN Routes : Unguarded(i) \/ Accepts(Routes[i].predicate, m) # "yes"

LEMMA PassesUnwanted ==
    ASSUME NEW m, NEW raising, ~\E i \in Reached(m, raising) : Aborts(i, m, raising)
    PROVE  (\E i \in Reached(m, raising) : ~Unguarded(i) /\ Selected(i, m)) <=> ~Unwanted(m)
<1>1. Reached(m, raising) = DOMAIN Routes
  <2>1. Reached(m, raising) \subseteq DOMAIN Routes
    BY DEF Reached
  <2>2. \A k \in DOMAIN Routes : ~Aborts(k, m, raising)
    BY FirstAbortReached
  <2>3. \A i \in DOMAIN Routes : 1..(i - 1) \subseteq DOMAIN Routes
    BY RoutesAssumption DEF RoutesAssumption
  <2> QED BY <2>1, <2>2, <2>3 DEF Reached
<1> QED BY <1>1 DEF Selected, Unwanted

\* t holds the elements of s at the positions of U, in their order.
Picks(t, s, U) ==
    /\ Len(t) = Cardinality(U)
    /\ \A k \in U : t[Cardinality({j \in U : j <= k})] = s[k]

\* An element that is not picked changes nothing.
LEMMA PickStays ==
    ASSUME NEW S, NEW s \in Seq(S), NEW t \in Seq(S), NEW U \in SUBSET (1..Len(s)),
           NEW m \in S, Picks(t, s, U)
    PROVE  Picks(t, Append(s, m), U)
<1>1. \A k \in U : Append(s, m)[k] = s[k]
  OBVIOUS
<1> QED BY <1>1 DEF Picks

\* One that is picked comes last.
LEMMA PickGrows ==
    ASSUME NEW S, NEW s \in Seq(S), NEW t \in Seq(S), NEW U \in SUBSET (1..Len(s)),
           NEW m \in S, Picks(t, s, U)
    PROVE  Picks(Append(t, m), Append(s, m), U \cup {Len(s) + 1})
<1> DEFINE n == Len(s) + 1
           V == U \cup {n}
<1>0. n \in Nat /\ Len(s) \in Nat /\ \A k \in U : k \in Nat /\ k < n
  OBVIOUS
<1>1. IsFiniteSet(U) /\ Cardinality(U) \in Nat
  <2>1. IsFiniteSet(1..Len(s))
    BY <1>0, FS_Interval
  <2>2. IsFiniteSet(U)
    BY <2>1, FS_Subset
  <2> QED BY <2>2, FS_CardinalityType
<1>2. Cardinality(V) = Cardinality(U) + 1
  <2>1. n \notin U
    BY <1>0
  <2> HIDE DEF n
  <2> QED BY <1>1, <2>1, FS_AddElement
<1>3. Len(Append(t, m)) = Len(t) + 1 /\ Append(t, m)[Len(t) + 1] = m
  OBVIOUS
<1>4. Append(s, m)[n] = m /\ \A k \in U : Append(s, m)[k] = s[k]
  OBVIOUS
<1>5. ASSUME NEW k \in U
      PROVE  Append(t, m)[Cardinality({j \in V : j <= k})] = Append(s, m)[k]
  <2> DEFINE before == {j \in U : j <= k}
             c == Cardinality(before)
  <2>1. {j \in V : j <= k} = before
    BY <1>0
  <2>2. c \in 1..Len(t)
    <3>1. k \in before /\ before \in SUBSET U
      BY <1>0
    <3>2. IsFiniteSet(before) /\ c <= Cardinality(U)
      <4> HIDE DEF before
      <4> QED BY <1>1, <3>1, FS_Subset
    <3>3. c \in Nat /\ c # 0
      <4> HIDE DEF before
      <4> QED BY <3>1, <3>2, FS_CardinalityType, FS_EmptySet
    <3>4. Len(t) = Cardinality(U)
      BY DEF Picks
    <3> HIDE DEF before, c
    <3> QED BY <1>1, <3>2, <3>3, <3>4
  <2>3. t[c] = s[k]
    BY DEF Picks
  <2>4. Append(t, m)[c] = t[c]
    <3> HIDE DEF c
    <3> QED BY <2>2
  <2> HIDE DEF V, before
  <2> QED BY <1>4, <2>1, <2>3, <2>4
<1>6. Append(t, m)[Cardinality({j \in V : j <= n})] = Append(s, m)[n]
  <2>1. {j \in V : j <= n} = V
    <3>1. \A k \in V : k <= n
      <4>1. \A k \in U : k <= n
        BY <1>0
      <4>2. n <= n
        BY <1>0
      <4> QED BY <4>1, <4>2
    <3> HIDE DEF V
    <3> QED BY <3>1
  <2>2. Cardinality(V) = Len(t) + 1
    BY <1>2 DEF Picks
  <2> HIDE DEF V, n
  <2> QED BY <1>3, <1>4, <2>1, <2>2
<1>7. Len(Append(t, m)) = Cardinality(V)
  <2> HIDE DEF V
  <2> QED BY <1>2, <1>3 DEF Picks
<1>8. \A k \in V : Append(t, m)[Cardinality({j \in V : j <= k})] = Append(s, m)[k]
  <2>1. \A k \in V : k \in U \/ k = n
    OBVIOUS
  <2> HIDE DEF V, n
  <2> QED BY <1>5, <1>6, <2>1
<1> HIDE DEF V
<1>9. Picks(Append(t, m), Append(s, m), V)
  BY <1>7, <1>8 DEF Picks
<1> QED BY <1>9 DEF V, n

PassInv ==
    /\ fed \in Seq(Messages)
    /\ passed \in Seq(Messages)
    /\ aborted \subseteq 1..Len(fed)
    /\ Picks(passed, fed, Unmatched)

LEMMA FeedKeepsPass ==
    ASSUME NEW m \in Messages, NEW raising, Feed(m, raising), PassInv
    PROVE  PassInv'
<1> DEFINE n == Len(fed) + 1
           abort == \E i \in Reached(m, raising) : Aborts(i, m, raising)
<1>0. /\ fed \in Seq(Messages) /\ passed \in Seq(Messages) /\ aborted \subseteq 1..Len(fed)
      /\ Picks(passed, fed, Unmatched)
  BY DEF PassInv
<1>1. /\ fed' = Append(fed, m) /\ fed' \in Seq(Messages) /\ Len(fed') = n
      /\ DOMAIN fed' = 1..n /\ DOMAIN fed = 1..Len(fed) /\ n \in Nat
      /\ fed'[n] = m /\ \A k \in 1..Len(fed) : fed'[k] = fed[k]
  <2>1. fed' = Append(fed, m)
    BY DEF Feed
  <2> QED BY <1>0, <2>1
<1>2. Unmatched \in SUBSET (1..Len(fed))
  BY <1>1 DEF Unmatched
<1>3. CASE abort
  <2>1. aborted' = aborted \cup {n} /\ passed' = passed
    BY <1>1, <1>3 DEF Feed
  <2>2. Unmatched' = Unmatched
    BY <1>0, <1>1, <2>1 DEF Unmatched, Unguarded
  <2>3. Picks(passed', fed', Unmatched')
    BY <1>0, <1>1, <1>2, <2>1, <2>2, PickStays
  <2>4. aborted' \subseteq 1..Len(fed')
    <3>1. n \in 1..n /\ 1..Len(fed) \subseteq 1..n
      BY <1>1
    <3> HIDE DEF n
    <3> QED BY <1>0, <1>1, <2>1, <3>1
  <2> QED BY <1>0, <1>1, <2>1, <2>3, <2>4 DEF PassInv
<1>4. CASE ~abort /\ ~Unwanted(m)
  <2>1. aborted' = aborted /\ passed' = passed
    BY <1>4, PassesUnwanted DEF Feed
  <2>2. Unmatched' = Unmatched
    BY <1>0, <1>1, <1>4, <2>1 DEF Unmatched, Unguarded, Unwanted
  <2>3. Picks(passed', fed', Unmatched')
    BY <1>0, <1>1, <1>2, <2>1, <2>2, PickStays
  <2> QED BY <1>0, <1>1, <2>1, <2>3 DEF PassInv
<1>5. CASE ~abort /\ Unwanted(m)
  <2>1. aborted' = aborted /\ passed' = Append(passed, m)
    BY <1>5, PassesUnwanted DEF Feed
  <2>2. Unmatched' = Unmatched \cup {n}
    BY <1>0, <1>1, <1>5, <2>1 DEF Unmatched, Unguarded, Unwanted
  <2>3. Picks(passed', fed', Unmatched')
    BY <1>0, <1>1, <1>2, <2>1, <2>2, PickGrows
  <2> QED BY <1>0, <1>1, <2>1, <2>3 DEF PassInv
<1> QED BY <1>3, <1>4, <1>5

LEMMA NextKeepsPass ==
    ASSUME [Next]_vars, PassInv, InAlphabets
    PROVE  PassInv'
<1>1. CASE FeedMessage
  BY <1>1, FedMessages, FeedKeepsPass DEF InAlphabets
<1>2. CASE Reset
  <2>1. Unmatched' = {}
    BY <1>2 DEF Reset, Unmatched
  <2> QED BY <1>2, <2>1, FS_EmptySet DEF Reset, PassInv, Picks
<1>3. CASE UNCHANGED router_vars
  <2>1. Unmatched' = Unmatched
    BY <1>3 DEF router_vars, Unmatched, Unguarded
  <2> QED BY <1>3, <2>1 DEF router_vars, PassInv, Picks
<1> QED
  BY <1>1, <1>2, <1>3 DEF Next, Tick, CallCheckTimeout, CallCheckPort, ChangePort,
                          CallSetCurrentTest, vars

LEMMA InitPasses ==
    ASSUME Init
    PROVE  PassInv /\ InAlphabets
<1>1. Unmatched = {}
  BY DEF Init, Unmatched
<1> QED BY <1>1, FS_EmptySet DEF Init, PassInv, Picks, InAlphabets

LEMMA PassInvariant == Spec => [](PassInv /\ InAlphabets)
<1>1. Init => PassInv /\ InAlphabets
  BY InitPasses
<1>2. PassInv /\ InAlphabets /\ [Next]_vars => (PassInv /\ InAlphabets)'
  BY NextIsSleepStep, NextKeepsPass DEF InAlphabets
<1> QED BY <1>1, <1>2, PTL DEF Spec

\* Router.feed: passthrough gets every message that no predicate accepts, once and
\* in order, and no other, whichever predicates and callbacks raise.
THEOREM PassthroughIsExact == Spec => []PassthroughExact
<1>1. PassInv => PassthroughExact
  BY DEF PassInv, Picks, PassthroughExact
<1> QED BY <1>1, PassInvariant, PTL

-----------------------------------------------------------------------------
(* Types.                                                                  *)

\* What a CrashDetector holds, its patterns apart.
CrashTyping ==
    /\ silent_for \in 0..SilentTimeout \cup {None}
    /\ silence \in 0..SilentTimeout \cup {None}
    /\ crash_detected \in BOOLEAN
    /\ crash_lines \in Seq(Messages)
    /\ crash_event.reason \in {"none", "crash", "hang"}
    /\ crash_event.lines \in Seq(Messages)
    /\ crash_event.reason # "crash" => crash_event.pattern = None

LEMMA LongerType ==
    ASSUME NEW time \in 0..SilentTimeout \cup {None}
    PROVE  Longer(time) \in 0..SilentTimeout \cup {None}
BY SilentTimeoutAssumption, MessagesAssumption DEF Longer

LEMMA LinesType ==
    ASSUME NEW m \in Messages, crash_lines \in Seq(Messages)
    PROVE  LinesWith(m) \in Seq(Messages)
BY DEF LinesWith

LEMMA DetectorFeedTyping ==
    ASSUME NEW m \in Messages, DetectorFeed(m), silence' = 0, CrashTyping
    PROVE  CrashTyping'
<1>0. 0 \in 0..SilentTimeout
  BY SilentTimeoutAssumption
<1>1. CASE Triggered
  BY <1>0, <1>1 DEF DetectorFeed, detector_vars, CrashTyping
<1>2. CASE ~Triggered
  <2>1. silent_for' = 0 /\ crash_lines' = LinesWith(m) /\ LinesWith(m) \in Seq(Messages)
    BY <1>2, LinesType DEF DetectorFeed, FeedTime, CrashTyping
  <2>2. crash_detected' \in BOOLEAN
    BY <1>2 DEF DetectorFeed
  <2>3. /\ crash_event'.reason \in {"none", "crash", "hang"}
        /\ crash_event'.lines \in Seq(Messages)
        /\ crash_event'.reason # "crash" => crash_event'.pattern = None
    <3>1. CASE Finalizes(m)
      <4>1. crash_event' = [reason |-> "crash", pattern |-> LinesWith(m)[1].crash,
                            lines |-> LinesWith(m)]
        BY <1>2, <3>1 DEF DetectorFeed, Finalize, Report
      <4> QED BY <2>1, <4>1
    <3>2. CASE ~Finalizes(m)
      BY <1>2, <3>2 DEF DetectorFeed, CrashTyping
    <3> QED BY <3>1, <3>2
  <2> QED BY <1>0, <2>1, <2>2, <2>3 DEF CrashTyping
<1> QED BY <1>1, <1>2

LEMMA DetectorStepTyping ==
    ASSUME DetectorStep, CrashTyping
    PROVE  CrashTyping'
<1>1. CASE \E m \in Messages : DetectorFeed(m) /\ silence' = 0 /\ UNCHANGED crash_line_limit
  BY <1>1, DetectorFeedTyping
<1>2. CASE UNCHANGED detector_vars /\ silence' = 0 /\ UNCHANGED crash_line_limit
  BY <1>2, SilentTimeoutAssumption DEF detector_vars, CrashTyping
<1>3. CASE CheckTimeout
  <2>1. crash_event' = [reason |-> "hang", pattern |-> None, lines |-> <<>>]
    BY <1>3 DEF CheckTimeout, Report
  <2>2. crash_event'.lines \in Seq(Messages)
    BY <2>1
  <2> QED BY <1>3, <2>1, <2>2 DEF CheckTimeout, CrashTyping
<1>4. CASE DetectorReset
  <2>1. <<>> \in Seq(Messages)
    OBVIOUS
  <2> QED BY <1>4, <2>1 DEF DetectorReset, NoEvent, CrashTyping
<1>5. CASE CrashTick
  BY <1>5, LongerType DEF CrashTick, CrashTyping
<1>6. CASE UNCHANGED crash_vars
  BY <1>6 DEF crash_vars, detector_vars, CrashTyping
<1> QED BY <1>1, <1>2, <1>3, <1>4, <1>5, <1>6 DEF DetectorStep

LEMMA PortType ==
    ASSUME SleepStep, port \in BOOLEAN /\ port_was_gone \in BOOLEAN
    PROVE  port' \in BOOLEAN /\ port_was_gone' \in BOOLEAN
<1>1. CASE \E m \in Messages : MonitorFeed(m) /\ UNCHANGED port
  BY <1>1 DEF MonitorFeed, WakeUp, monitor_vars
<1>2. CASE CheckPort
  BY <1>2 DEF CheckPort
<1>3. CASE MonitorReset /\ UNCHANGED port
  BY <1>3 DEF MonitorReset
<1>4. CASE PortChanges
  BY <1>4 DEF PortChanges, monitor_vars
<1>5. CASE UNCHANGED sleep_vars
  BY <1>5 DEF sleep_vars, monitor_vars
<1> QED BY <1>1, <1>2, <1>3, <1>4, <1>5 DEF SleepStep

\* The receivers' types follow from what is known of each.
RouterInv ==
    /\ SleepInv /\ port \in BOOLEAN /\ port_was_gone \in BOOLEAN
    /\ ReportedOnce /\ ReportInv /\ CrashTyping
    /\ MemoryInv
    /\ PassInv
    /\ InAlphabets

\* A reported crash has a pattern, and nothing else has one.
LEMMA PatternHolds ==
    ASSUME ReportInv, CrashTyping
    PROVE  crash_event.pattern # None <=> crash_event.reason = "crash"
<1>1. CASE crash_event.reason = "crash"
  <2>1. PICK k \in 1..Len(to_crash) : FirstAt(to_crash, k) /\ crash_event.pattern = to_crash[k].crash
    BY <1>1 DEF ReportInv, Reported
  <2>2. crash_event.pattern # None
    BY <2>1 DEF FirstAt
  <2> QED BY <1>1, <2>2
<1>2. CASE crash_event.reason # "crash"
  BY <1>2 DEF CrashTyping
<1> QED BY <1>1, <1>2

\* A number kept of a test is that of a line of the log, or 0.
LEMMA NumbersHold ==
    ASSUME MemoryInv
    PROVE  mem_data \in [Tests -> [DOMAIN NoInfo -> 0..Len(attributed)]]
<1>1. mem_data \in [Tests -> [DOMAIN NoInfo -> Nat]] /\ Len(attributed) \in Nat
  BY DEF MemoryInv
<1>2. ASSUME NEW t \in Tests, NEW f \in DOMAIN NoInfo
      PROVE  mem_data[t][f] \in 0..Len(attributed)
  <2>1. LastOf(Carrying(attributed, t, f), mem_data[t][f])
    BY DEF MemoryInv
  <2>2. Carrying(attributed, t, f) \subseteq 1..Len(attributed)
    BY DEF Carrying
  <2>3. 0 \in 0..Len(attributed) /\ 1..Len(attributed) \subseteq 0..Len(attributed)
    BY <1>1
  <2> QED BY <2>1, <2>2, <2>3 DEF LastOf
<1>3. ASSUME NEW t \in Tests PROVE mem_data[t] \in [DOMAIN NoInfo -> 0..Len(attributed)]
  BY <1>1, <1>2
<1> QED BY <1>1, <1>3

LEMMA TypesHold ==
    ASSUME RouterInv
    PROVE  TypeOK
<1>1. CrashTypeOK
  <2>1. reports \in Nat
    BY DEF RouterInv, ReportedOnce
  <2>2. crash_event.pattern # None <=> crash_event.reason = "crash"
    BY PatternHolds DEF RouterInv
  <2> QED BY <2>1, <2>2 DEF RouterInv, ReportInv, CrashTyping, CrashTypeOK
<1>2. SleepTypeOK
  BY DEF RouterInv, SleepInv, CallbacksAlternate, SleepTypeOK
<1>3. current_test \in Tests \cup {NoTest}
  BY DEF RouterInv, MemoryInv
<1>4. mem_data \in [Tests -> [DOMAIN NoInfo -> 0..Len(attributed)]]
  BY NumbersHold DEF RouterInv
<1>5. fed \in Seq(Messages) /\ passed \in Seq(Messages) /\ aborted \subseteq DOMAIN fed
  BY DEF RouterInv, PassInv
<1> QED BY <1>1, <1>2, <1>3, <1>4, <1>5 DEF TypeOK

\* Every variable keeps its type: among the rest, an event has a pattern exactly when
\* it is a crash, and a number kept of a test is that of a line the tracker took.
THEOREM TypeCorrect == Spec => []TypeOK
<1>1. Init => RouterInv
  <2> SUFFICES ASSUME Init PROVE RouterInv
    OBVIOUS
  <2>1. SleepInv /\ port \in BOOLEAN /\ port_was_gone \in BOOLEAN
    BY DEF Init, SleepInit, SleepInv, CallbacksAlternate, WakingWasSeen
  <2>2. ReportedOnce /\ ReportInv /\ CrashTyping
    <3>1. ReportedOnce
      BY DEF Init, CrashInit, ReportedOnce, Triggered
    <3>2. ReportInv
      BY DEF Init, CrashInit, ReportInv, NoCrash, NoEvent
    <3>3. CrashTyping
      <4>1. NoEvent.reason = "none" /\ NoEvent.pattern = None /\ NoEvent.lines = <<>>
        BY DEF NoEvent
      <4>2. <<>> \in Seq(Messages)
        OBVIOUS
      <4> QED BY <4>1, <4>2 DEF Init, CrashInit, CrashTyping
    <3> QED BY <3>1, <3>2, <3>3
  <2>3. MemoryInv
    BY DEF Init, MemoryInit, MemoryInv, NoInfo, Carrying, LastOf
  <2>4. PassInv /\ InAlphabets
    BY InitPasses
  <2> QED BY <2>1, <2>2, <2>3, <2>4 DEF RouterInv
<1>2. RouterInv /\ [Next]_vars => RouterInv'
  <2> SUFFICES ASSUME RouterInv, [Next]_vars PROVE RouterInv'
    OBVIOUS
  <2>1. SleepStep /\ InAlphabets'
    BY NextIsSleepStep DEF RouterInv, InAlphabets
  <2>2. SleepInv' /\ port' \in BOOLEAN /\ port_was_gone' \in BOOLEAN
    BY <2>1, SleepStepKeepsInv, PortType DEF RouterInv
  <2>3. DetectorStep
    BY NextIsDetectorStep DEF RouterInv
  <2>4. ReportedOnce' /\ CrashTyping'
    BY <2>3, DetectorStepReports, DetectorStepTyping DEF RouterInv
  <2>5. ReportInv' /\ MemoryInv' /\ PassInv'
    BY NextKeepsReport, NextKeepsMemory, NextKeepsPass DEF RouterInv
  <2> QED BY <2>1, <2>2, <2>4, <2>5 DEF RouterInv
<1>3. RouterInv => TypeOK
  BY TypesHold
<1> QED BY <1>1, <1>2, <1>3, PTL DEF Spec

=============================================================================
