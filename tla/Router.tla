------------------------------- MODULE Router -------------------------------
(***************************************************************************)
(* receivers/router.py: Router in front of a CrashDetector, a              *)
(* SleepWakeMonitor, a MemoryTracker and any other receivers, fed by a     *)
(* host loop that also calls check_timeout, check_port and                 *)
(* set_current_test.  The callbacks on_crash, on_sleep and on_wake may     *)
(* raise; the host loop catches what the router lets through and goes on.  *)
(***************************************************************************)
EXTENDS CrashDetector, SleepWakeMonitor, MemoryTracker, SequencesExt

CONSTANTS
    Routes,             \* _routes: receiver and predicate (or None), in order
    Accepts(_, _),      \* predicate(message): "yes", "no" or "raises"
    Alphabets,          \* bound: a behaviour's messages are all of one of these sets
    MaxFed,             \* bound: messages since the last reset
    MaxMem              \* bound: the same, of an alphabet with MEM lines

ASSUME RoutesAssumption ==
    /\ Routes \in Seq(Range(Routes))
    /\ \E i \in DOMAIN Routes : Routes[i].receiver = "crash"
    /\ \E i \in DOMAIN Routes : Routes[i].receiver = "sleep"
    /\ Alphabets \subseteq SUBSET Messages
    /\ \A i, j \in DOMAIN Routes : Routes[i].receiver = Routes[j].receiver => i = j

VARIABLES
    alphabet,
    fed,        \* history: the messages fed since the last reset
    to_crash,   \* history: those that reached the CrashDetector
    passed,     \* history: those passed to passthrough
    aborted     \* history: those of which an exception left feed

router_vars == <<alphabet, fed, to_crash, passed, aborted>>
vars == <<crash_vars, sleep_vars, memory_vars, router_vars>>

Init ==
    /\ CrashInit
    /\ SleepInit
    /\ MemoryInit
    /\ alphabet \in Alphabets
    /\ fed = <<>>
    /\ to_crash = <<>>
    /\ passed = <<>>
    /\ aborted = {}

-----------------------------------------------------------------------------
(* feed(message).  `raising` are the receivers whose callback raises when   *)
(* this message makes them call it.                                        *)

\* feed of the receiver raises.
Raises(receiver, m, raising) ==
    \/ receiver = "crash" /\ receiver \in raising /\ Finalizes(m)
    \/ receiver = "sleep" /\ receiver \in raising /\ (SleepSeen(m) \/ WakeSeen(m))
    \/ receiver = "memory" /\ MemoryRaises(m)

\* The route has no predicate to put its receiver inside the try block.
Unguarded(i) == Routes[i].predicate = None

\* Mutation: a predicate that raises accepts the message.
Selected_OnError(i, m) == Unguarded(i) \/ Accepts(Routes[i].predicate, m) # "no"

Selected(i, m) == Unguarded(i) \/ Accepts(Routes[i].predicate, m) = "yes"

\* Mutation: predicates are called outside the try block.
Aborts_Predicates(i, m, raising) ==
    IF Unguarded(i) THEN Raises(Routes[i].receiver, m, raising)
                    ELSE Accepts(Routes[i].predicate, m) = "raises"

\* The routes whose exception leaves feed.
Aborts(i, m, raising) == Unguarded(i) /\ Raises(Routes[i].receiver, m, raising)

\* The routes feed comes to.
Reached(m, raising) ==
    {i \in DOMAIN Routes : \A j \in 1..(i - 1) : ~Aborts(j, m, raising)}

\* The receivers that get the message.
Receiving(m, raising) ==
    {Routes[i].receiver : i \in {j \in Reached(m, raising) : Selected(j, m)}}

Feed(m, raising) ==
    LET abort == \E i \in Reached(m, raising) : Aborts(i, m, raising)
        matched_predicate == \E i \in Reached(m, raising) : ~Unguarded(i) /\ Selected(i, m)
        receiving == Receiving(m, raising)
    IN  /\ IF "crash" \in receiving
           THEN DetectorFeed(m) /\ to_crash' = Append(to_crash, m)
           ELSE UNCHANGED <<detector_vars, to_crash>>
        /\ IF "sleep" \in receiving THEN MonitorFeed(m) ELSE UNCHANGED monitor_vars
        /\ IF "memory" \in receiving THEN MemoryFeed(m) ELSE UNCHANGED memory_vars
        /\ passed' = IF ~abort /\ ~matched_predicate THEN Append(passed, m) ELSE passed
        /\ fed' = Append(fed, m)
        /\ aborted' = IF abort THEN aborted \cup {Len(fed')} ELSE aborted
        /\ silence' = 0
        /\ UNCHANGED <<crash_line_limit, port, alphabet>>

\* The alphabet has MEM lines.
InTests == \E m \in alphabet : m.mem.tag # "none"

FeedMessage ==
    /\ Len(fed) < IF InTests THEN MaxMem ELSE MaxFed
    /\ \E m \in alphabet, raising \in SUBSET {"crash", "sleep"} : Feed(m, raising)

\* The receivers are reset together.
Reset ==
    /\ DetectorReset
    /\ MonitorReset
    /\ MemoryReset
    /\ fed' = <<>>
    /\ to_crash' = <<>>
    /\ passed' = <<>>
    /\ aborted' = {}
    /\ UNCHANGED <<port, alphabet>>

Tick == CrashTick /\ UNCHANGED <<sleep_vars, memory_vars, router_vars>>
CallCheckTimeout == CheckTimeout /\ UNCHANGED <<sleep_vars, memory_vars, router_vars>>
CallCheckPort == CheckPort /\ UNCHANGED <<crash_vars, memory_vars, router_vars>>
ChangePort == PortChanges /\ UNCHANGED <<crash_vars, memory_vars, router_vars>>

\* Bound: the test is set only where the alphabet has MEM lines.
CallSetCurrentTest ==
    /\ InTests
    /\ \E t \in Tests \cup {NoTest} : SetCurrentTest(t)
    /\ UNCHANGED <<crash_vars, sleep_vars, router_vars>>

Next ==
    \/ FeedMessage
    \/ Reset
    \/ Tick
    \/ CallCheckTimeout
    \/ CallCheckPort
    \/ ChangePort
    \/ CallSetCurrentTest

\* check_timeout "requires the caller to invoke it periodically".
Spec == Init /\ [][Next]_vars /\ WF_vars(CallCheckTimeout)

-----------------------------------------------------------------------------
(* Properties.                                                             *)

TypeOK ==
    /\ CrashTypeOK
    /\ SleepTypeOK
    /\ current_test \in Tests \cup {NoTest}
    /\ mem_data \in [Tests -> [DOMAIN NoInfo -> 0..Len(attributed)]]
    /\ fed \in Seq(Messages)
    /\ passed \in Seq(Messages)
    /\ aborted \subseteq DOMAIN fed

\* The first crash message at or after position i of s, or 0.
FirstCrash(s) == SelectInSeq(s, LAMBDA m : m.crash # None)

\* A crash report holds the message with the crash pattern and the ones that came
\* right after it, as many as the limit says, none missing, doubled or from before.
CrashReportExact ==
    crash_event.reason = "crash" =>
        LET first == FirstCrash(to_crash)
            count == IF crash_line_limit > 1 THEN crash_line_limit ELSE 1
        IN  /\ first > 0
            /\ crash_event.lines = SubSeq(to_crash, first, first + count - 1)
            /\ Len(crash_event.lines) = count
            /\ crash_event.pattern = to_crash[first].crash

\* The CrashDetector's route lets every message through, and no route before it can
\* end feed.
DetectorSeesAll ==
    \A i \in DOMAIN Routes : Routes[i].receiver = "crash" =>
        Unguarded(i) /\ \A j \in 1..(i - 1) : ~Unguarded(j)

\* A detector that is to see every message does, whatever predicates and callbacks of
\* other routes raise; only an exception of an unguarded route before its own can
\* keep a message from it.
NothingWithheld == DetectorSeesAll => to_crash = fed

\* The messages fed that no predicate accepts, a predicate that raises not counted,
\* except those of which an exception left feed.
Unmatched ==
    {k \in DOMAIN fed \ aborted :
        \A i \in DOMAIN Routes :
            Unguarded(i) \/ Accepts(Routes[i].predicate, fed[k]) # "yes"}

\* passthrough gets exactly the unmatched messages, each once and in their order.
PassthroughExact ==
    /\ Len(passed) = Cardinality(Unmatched)
    /\ \A k \in Unmatched : passed[Cardinality({j \in Unmatched : j <= k})] = fed[k]

\* "When a crash pattern is detected, the detector buffers subsequent lines [...]
\* then triggers" with "the matched pattern string, or None for hangs": what is
\* reported after a crash message is that crash.
CrashIsReported ==
    Triggered /\ FirstCrash(to_crash) > 0 => crash_event.reason = "crash"

=============================================================================
