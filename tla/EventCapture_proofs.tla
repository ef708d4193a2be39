------------------------ MODULE EventCapture_proofs ------------------------
(***************************************************************************)
(* Proofs about EventCapture for every wrap period, skew, gap, number of   *)
(* cores and length of the log.                                            *)
(*                                                                         *)
(* The wrap counter of the receiver is the number of periods between the   *)
(* first and the last captured event; that is inductive only with the      *)
(* facts that tie every stamp to the present value of the counter by its   *)
(* age, since an event is stamped long before it is compared.              *)
(*                                                                         *)
(* The spans are a function of the log; what one more event does to it is  *)
(* the second half of the module.                                          *)
(***************************************************************************)
EXTENDS EventCapture, SequenceTheorems, FiniteSetTheorems, WellFoundedInduction, TLAPS

\* The counter has advanced by the stamp's age since the stamp was taken, and
\* has wrapped at most once meanwhile.
InStepAt(stamp, p, k) ==
    \/ stamp.period = p /\ stamp.raw + stamp.age = k
    \/ stamp.period + 1 = p /\ stamp.raw + stamp.age = k + Wrap

InStep(stamp) == InStepAt(stamp, period, counter)

BuiltInv ==
    \A c \in Cores : built[c] # None => InStep(built[c]) /\ built[c].age <= MaxSkew

NewestInv ==
    /\ newest = None => last_raw_ts_us = None /\ wrap_count = 0 /\ events = <<>> /\ ~straddled
    /\ newest # None =>
        /\ last_raw_ts_us = newest.raw
        /\ InStep(newest)
        /\ newest.age < HalfPeriod
        /\ ~straddled => wrap_count = newest.period - base

Inv ==
    /\ TypeOK
    /\ BuiltInv
    /\ NewestInv
    /\ AdjustedTimeTrue

USE HalfPeriodAssumption, MaxSkewAssumption, MaxGapAssumption, NoneAssumption
  DEF HalfPeriodAssumption, MaxSkewAssumption, MaxGapAssumption, NoneAssumption

LEMMA WrapFacts ==
    /\ Wrap \in Nat \ {0}
    /\ Wrap = HalfPeriod + HalfPeriod
    /\ None \notin Nat => None \notin Raw
BY DEF Wrap, Raw

-----------------------------------------------------------------------------
(* Types.                                                                  *)

LEMMA CapturedType ==
    ASSUME NEW e \in Built, NEW count \in Nat
    PROVE  Captured(e, count) \in Event
<1>1. e.raw + count * Wrap \in Nat
  BY WrapFacts DEF Built, Raw
<1> QED
  BY <1>1 DEF Captured, Built, Event

LEMMA CapturedFields ==
    ASSUME NEW e, NEW count
    PROVE  /\ Captured(e, count).name = e.name
           /\ Captured(e, count).period = e.period
           /\ Captured(e, count).raw = e.raw
           /\ Captured(e, count).ts = e.raw + count * Wrap
BY DEF Captured

LEMMA OlderFields ==
    ASSUME NEW stamp \in Stamp \cup Built
    PROVE  /\ Older(stamp).period = stamp.period
           /\ Older(stamp).raw = stamp.raw
           /\ Older(stamp).age = stamp.age + 1
           /\ stamp \in Stamp => Older(stamp) \in Stamp
           /\ stamp \in Built => Older(stamp) \in Built
<1>1. CASE stamp \in Stamp
  BY <1>1 DEF Older, Stamp, Built
<1>2. CASE stamp \in Built
  BY <1>2 DEF Older, Stamp, Built
<1> QED BY <1>1, <1>2

LEMMA InitType == Init => TypeOK
<1> SUFFICES ASSUME Init PROVE TypeOK
  OBVIOUS
<1>1. counter \in Raw /\ DOMAIN built = Cores /\ \A c \in Cores : built[c] = None
  BY DEF Init, Raw
<1>2. DOMAIN pending = {}
  BY DEF Init, NoPending
<1>3. events \in Seq(Event) /\ spans \in Seq(Span)
  BY DEF Init
<1>4. /\ DOMAIN pending \subseteq Names
      /\ \A n \in DOMAIN pending : pending[n] \in Event
  BY <1>2
<1>5. /\ period \in Nat /\ base \in Nat /\ wrap_count \in Nat /\ straddled \in BOOLEAN
      /\ newest = None /\ last_raw_ts_us = None
  BY DEF Init
<1> QED
  BY <1>1, <1>3, <1>4, <1>5 DEF TypeOK

LEMMA FeedScopeType ==
    ASSUME TypeOK, NEW c \in Cores, FeedScope(c)
    PROVE  TypeOK'
<1> DEFINE e == built[c]
           event == Captured(e, wrap_count')
<1>1. e \in Built /\ e # None
  BY DEF FeedScope, TypeOK
<1>2. wrap_count' \in Nat
  BY DEF FeedScope, Capture, TypeOK
<1>3. event \in Event
  BY <1>1, <1>2, CapturedType
<1>4. e.name \in Names /\ e.raw \in Raw /\ e.period \in Nat /\ e.age \in Nat
  BY <1>1 DEF Built
<1>5. events' \in Seq(Event)
  BY <1>3 DEF FeedScope, Capture, TypeOK
<1>6. /\ DOMAIN pending' \subseteq Names
      /\ \A n \in DOMAIN pending' : pending'[n] \in Event
  <2>1. CASE event.action = "STARTED"
    BY <1>3, <1>4, <2>1 DEF FeedScope, Capture, TypeOK
  <2>2. CASE event.action # "STARTED"
    BY <1>4, <2>2 DEF FeedScope, Capture, TypeOK
  <2> QED BY <2>1, <2>2
<1>7. spans' \in Seq(Span)
  <2>1. CASE event.action = "STARTED" \/ e.name \notin DOMAIN pending
    BY <2>1 DEF FeedScope, Capture, TypeOK
  <2>2. CASE event.action # "STARTED" /\ e.name \in DOMAIN pending
    <3>1. [name |-> e.name, start |-> pending[e.name], stop |-> event] \in Span
      BY <1>3, <1>4, <2>2 DEF TypeOK, Span
    <3>2. spans' = Append(spans, [name |-> e.name, start |-> pending[e.name], stop |-> event])
      BY <2>2 DEF FeedScope, Capture
    <3>3. spans \in Seq(Span)
      BY DEF TypeOK
    <3> HIDE DEF event
    <3> QED BY <3>1, <3>2, <3>3
  <2> QED BY <2>1, <2>2
<1>8. /\ \A d \in Cores : built'[d] # None => built'[d] \in Built
      /\ DOMAIN built' = Cores
  BY DEF FeedScope, TypeOK
<1>9. newest' \in Stamp
  BY <1>4 DEF FeedScope, Stamp
<1>10. base' \in Nat /\ straddled' \in BOOLEAN
  BY <1>4 DEF FeedScope, TypeOK
<1>11. last_raw_ts_us' \in Raw
  BY <1>4 DEF FeedScope, Capture
<1> QED
  BY <1>2, <1>5, <1>6, <1>7, <1>8, <1>9, <1>10, <1>11 DEF FeedScope, TypeOK

LEMMA NextType == TypeOK /\ [Next]_vars => TypeOK'
<1> SUFFICES ASSUME TypeOK, [Next]_vars PROVE TypeOK'
  OBVIOUS
<1>1. CASE Tick
  <2>1. period' \in Nat /\ counter' \in Raw
    BY <1>1, WrapFacts DEF Tick, TypeOK, Raw
  <2>2. /\ \A c \in Cores : built'[c] # None => built'[c] \in Built
        /\ DOMAIN built' = Cores
    <3>1. \A c \in Cores : built'[c] = IF built[c] = None THEN None ELSE Older(built[c])
      BY <1>1 DEF Tick
    <3>2. DOMAIN built' = Cores
      BY <1>1 DEF Tick
    <3> QED
      BY <3>1, <3>2, OlderFields DEF TypeOK
  <2>3. newest' # None => newest' \in Stamp
    BY <1>1, OlderFields DEF Tick, TypeOK
  <2> QED
    BY <1>1, <2>1, <2>2, <2>3 DEF Tick, TypeOK, receiver_vars
<1>2. ASSUME NEW c \in Cores, NEW name \in Names, NEW ph \in {"B", "E", "C"}, Build(c, name, ph)
      PROVE  TypeOK'
  <2>1. [name |-> name, ph |-> ph, period |-> period, raw |-> counter, age |-> 0] \in Built
    BY DEF TypeOK, Built
  <2> QED
    BY <1>2, <2>1 DEF Build, TypeOK, receiver_vars, history_vars
<1>3. ASSUME NEW c \in Cores, FeedScope(c) PROVE TypeOK'
  BY <1>3, FeedScopeType
<1>4. ASSUME NEW c \in Cores, FeedOther(c) PROVE TypeOK'
  BY <1>4 DEF FeedOther, TypeOK, receiver_vars, history_vars
<1>5. CASE Reset
  <2>1. DOMAIN pending' = {}
    BY <1>5 DEF Reset, NoPending
  <2>2. events' \in Seq(Event) /\ spans' \in Seq(Span)
    BY <1>5 DEF Reset
  <2>3. /\ DOMAIN pending' \subseteq Names
        /\ \A n \in DOMAIN pending' : pending'[n] \in Event
    BY <2>1
  <2>4. /\ base' \in Nat /\ wrap_count' \in Nat /\ straddled' \in BOOLEAN
        /\ newest' = None /\ last_raw_ts_us' = None
        /\ UNCHANGED <<period, counter, built>>
    BY <1>5 DEF Reset, device_vars
  <2> QED
    BY <2>2, <2>3, <2>4 DEF TypeOK
<1>6. CASE UNCHANGED vars
  BY <1>6 DEF vars, device_vars, receiver_vars, history_vars, TypeOK
<1> QED
  BY <1>1, <1>2, <1>3, <1>4, <1>5, <1>6 DEF Next

\* Every variable of the device model and of EventCapture keeps its type: the
\* log holds events and the spans pair events, for every value of the constants.
THEOREM TypeCorrect == Spec => []TypeOK
BY InitType, NextType, PTL DEF Spec

-----------------------------------------------------------------------------
(* Time.                                                                   *)

LEMMA InitInv == Init => Inv
BY InitType DEF Init, Inv, BuiltInv, NewestInv, AdjustedTimeTrue

\* A tick ages every stamp by the step it makes the counter take.
LEMMA AgesInStep ==
    ASSUME NEW stamp \in Stamp \cup Built,
           NEW p \in Nat, NEW k \in Raw, NEW p2, NEW k2,
           InStepAt(stamp, p, k), stamp.age < HalfPeriod,
           IF k + 1 = Wrap THEN p2 = p + 1 /\ k2 = 0 ELSE k2 = k + 1 /\ p2 = p
    PROVE  InStepAt(Older(stamp), p2, k2)
<1>1. stamp.period \in Nat /\ stamp.raw \in Nat /\ stamp.age \in Nat /\ k \in Nat
  BY DEF Stamp, Built, Raw
<1>2. stamp.raw < Wrap /\ k < Wrap
  BY WrapFacts DEF Stamp, Built, Raw
<1> QED
  BY <1>1, <1>2, OlderFields, WrapFacts DEF InStepAt

LEMMA TickInv == Inv /\ Tick => Inv'
<1> SUFFICES ASSUME Inv, Tick PROVE Inv'
  OBVIOUS
<1>0. /\ period \in Nat /\ counter \in Raw
      /\ IF counter + 1 = Wrap THEN period' = period + 1 /\ counter' = 0
                               ELSE counter' = counter + 1 /\ period' = period
  BY DEF Inv, TypeOK, Tick
<1>1. TypeOK'
  BY NextType DEF Inv, Next
<1>2. BuiltInv'
  <2> SUFFICES ASSUME NEW c \in Cores, built'[c] # None
               PROVE  InStepAt(built'[c], period', counter') /\ built'[c].age <= MaxSkew
    BY DEF BuiltInv, InStep
  <2>1. built[c] # None /\ built'[c] = Older(built[c]) /\ built[c].age < MaxSkew
    BY DEF Tick
  <2>2. built[c] \in Built /\ InStep(built[c]) /\ built[c].age \in Nat
    BY <2>1 DEF Inv, TypeOK, BuiltInv, Built
  <2>3. InStepAt(Older(built[c]), period', counter')
    BY <1>0, <2>1, <2>2, AgesInStep DEF InStep
  <2>4. Older(built[c]).age = built[c].age + 1
    BY <2>2, OlderFields
  <2> QED
    BY <2>1, <2>2, <2>3, <2>4
<1>3. NewestInv'
  <2>1. CASE newest = None
    BY <2>1 DEF Tick, Inv, NewestInv, receiver_vars
  <2>2. CASE newest # None
    <3>1. newest \in Stamp /\ InStep(newest) /\ newest.age < MaxGap /\ newest.age \in Nat
      BY <2>2 DEF Tick, Inv, TypeOK, NewestInv, Stamp
    <3>2. newest' = Older(newest)
      BY <2>2 DEF Tick
    <3>3. InStepAt(newest', period', counter')
      BY <1>0, <3>1, <3>2, AgesInStep DEF InStep
    <3>4. newest'.raw = newest.raw /\ newest'.period = newest.period /\ newest'.age = newest.age + 1
      BY <3>1, <3>2, OlderFields
    <3>5. newest' # None
      BY <3>1, <3>2, OlderFields
    <3>6. /\ last_raw_ts_us = newest.raw
          /\ ~straddled => wrap_count = newest.period - base
          /\ UNCHANGED <<last_raw_ts_us, wrap_count, base, straddled>>
      BY <2>2 DEF Tick, Inv, NewestInv, receiver_vars
    <3> QED
      BY <3>1, <3>3, <3>4, <3>5, <3>6 DEF NewestInv, InStep
  <2> QED BY <2>1, <2>2
<1>4. AdjustedTimeTrue'
  BY DEF Tick, Inv, AdjustedTimeTrue, TrueTime, receiver_vars
<1> QED
  BY <1>1, <1>2, <1>3, <1>4 DEF Inv

\* The heart of the matter: when the stamp of the arriving line is not of an
\* earlier period than the last one captured, a wrap is seen exactly when it is of
\* the next period.
LEMMA WrapDetection ==
    ASSUME Inv, NEW c \in Cores, built[c] # None, newest # None,
           built[c].period >= newest.period
    PROVE  /\ ~WrapSeen(built[c].raw) => built[c].period = newest.period
           /\ WrapSeen(built[c].raw) => built[c].period = newest.period + 1
<1> DEFINE e == built[c]
<1>1. InStep(e) /\ e.age < HalfPeriod /\ e \in Built
  BY DEF Inv, BuiltInv, TypeOK, Built
<1>2. InStep(newest) /\ newest.age < HalfPeriod /\ last_raw_ts_us = newest.raw /\ newest \in Stamp
  BY DEF Inv, NewestInv, TypeOK
<1>3. /\ e.raw \in Nat /\ e.period \in Nat /\ e.age \in Nat
      /\ newest.raw \in Nat /\ newest.period \in Nat /\ newest.age \in Nat
      /\ counter \in Nat /\ period \in Nat /\ last_raw_ts_us # None
  BY <1>1, <1>2 DEF Built, Stamp, Raw, Inv, TypeOK
<1> QED
  BY <1>1, <1>2, <1>3, WrapFacts DEF InStep, InStepAt, WrapSeen

LEMMA FeedScopeInv == ASSUME Inv, NEW c \in Cores, FeedScope(c) PROVE Inv'
<1> DEFINE e == built[c]
           event == Captured(e, wrap_count')
<1>1. TypeOK'
  BY FeedScopeType DEF Inv
<1>2. e # None /\ e \in Built /\ InStep(e) /\ e.age <= MaxSkew
  BY DEF FeedScope, Inv, BuiltInv, TypeOK
<1>3. e.raw \in Raw /\ e.period \in Nat /\ e.age \in Nat
  BY <1>2 DEF Built
<1>4. BuiltInv'
  BY DEF FeedScope, Inv, BuiltInv, TypeOK, InStep
<1>5. /\ newest' = [period |-> e.period, raw |-> e.raw, age |-> e.age]
      /\ newest' \in Stamp /\ newest' # None
  BY <1>3 DEF FeedScope, Stamp
<1>6. ~straddled' => wrap_count' = e.period - base' /\ ~straddled
  <2>1. CASE newest = None
    BY <1>3, <2>1 DEF FeedScope, Capture, WrapSeen, Inv, NewestInv
  <2>2. CASE newest # None
    <3> SUFFICES ASSUME ~straddled' PROVE wrap_count' = e.period - base' /\ ~straddled
      OBVIOUS
    <3>0. ~straddled /\ ~(e.period < newest.period) /\ base' = base
      BY <2>2, Zenon DEF FeedScope
    <3>1. e.period >= newest.period /\ newest.period \in Nat
      BY <1>3, <2>2, <3>0 DEF Inv, TypeOK, Stamp
    <3>2. wrap_count = newest.period - base /\ base \in Nat
      BY <2>2, <3>0 DEF Inv, NewestInv, TypeOK
    <3>3. wrap_count' = IF WrapSeen(e.raw) THEN wrap_count + 1 ELSE wrap_count
      BY DEF FeedScope, Capture
    <3> QED
      BY <1>2, <1>3, <2>2, <3>0, <3>1, <3>2, <3>3, WrapDetection
  <2> QED BY <2>1, <2>2
<1>7. NewestInv'
  <2>1. last_raw_ts_us' = newest'.raw
    BY <1>5 DEF FeedScope, Capture
  <2>2. InStep(newest)' /\ newest'.age < HalfPeriod
    <3>1. newest'.period = e.period /\ newest'.raw = e.raw /\ newest'.age = e.age
      BY <1>5
    <3>2. UNCHANGED <<period, counter>>
      BY DEF FeedScope
    <3> QED
      BY <1>2, <1>3, <3>1, <3>2 DEF InStep, InStepAt
  <2> QED
    BY <1>5, <1>6, <2>1, <2>2 DEF NewestInv
<1>8. AdjustedTimeTrue'
  <2> SUFFICES ASSUME ~straddled', NEW i \in 1..Len(events')
               PROVE  events'[i].ts = TrueTime(events[i])'
    BY DEF AdjustedTimeTrue
  <2>1. events' = Append(events, event) /\ events \in Seq(Event)
    BY DEF FeedScope, Capture, Inv, TypeOK
  <2>2. CASE i = Len(events) + 1
    <3>1. events'[i] = event
      BY <2>1, <2>2
    <3>2. /\ event.ts = e.raw + wrap_count' * Wrap
          /\ event.period = e.period /\ event.raw = e.raw
      BY CapturedFields
    <3>3. e.raw \in Int /\ wrap_count' * Wrap \in Int
      BY <1>1, <1>3, WrapFacts, SMTT(60) DEF TypeOK, Raw
    <3> QED
      BY <1>6, <3>1, <3>2, <3>3 DEF TrueTime
  <2>3. CASE i \in 1..Len(events)
    <3>1. events'[i] = events[i]
      BY <2>1, <2>3
    <3>2. newest # None
      BY <2>1, <2>3 DEF Inv, NewestInv
    <3>3. base' = base
      BY <3>2 DEF FeedScope
    <3>4. ~straddled
      BY <1>6
    <3> QED
      BY <2>3, <3>1, <3>3, <3>4 DEF Inv, AdjustedTimeTrue, TrueTime
  <2> QED
    BY <2>1, <2>2, <2>3
<1> QED
  BY <1>1, <1>4, <1>7, <1>8 DEF Inv

LEMMA NextInv == Inv /\ [Next]_vars => Inv'
<1> SUFFICES ASSUME Inv, [Next]_vars PROVE Inv'
  OBVIOUS
<1>0. TypeOK'
  BY NextType DEF Inv
<1>1. CASE Tick
  BY <1>1, TickInv
<1>2. ASSUME NEW c \in Cores, NEW name \in Names, NEW ph \in {"B", "E", "C"}, Build(c, name, ph)
      PROVE  Inv'
  <2>1. BuiltInv'
    <3> DEFINE stamp == [name |-> name, ph |-> ph, period |-> period, raw |-> counter, age |-> 0]
    <3>2. stamp.period = period /\ stamp.raw = counter /\ stamp.age = 0 /\ counter \in Nat
      BY DEF Inv, TypeOK, Raw
    <3>3. InStepAt(stamp, period, counter) /\ stamp.age <= MaxSkew
      BY <3>2 DEF InStepAt
    <3>4. built' = [built EXCEPT ![c] = stamp] /\ UNCHANGED <<period, counter>>
      BY <1>2 DEF Build
    <3> HIDE DEF stamp
    <3> QED
      BY <3>3, <3>4 DEF Inv, BuiltInv, TypeOK, InStep
  <2>2. NewestInv' /\ AdjustedTimeTrue'
    BY <1>2 DEF Build, Inv, NewestInv, AdjustedTimeTrue, TrueTime, InStep, receiver_vars, history_vars
  <2> QED
    BY <1>0, <2>1, <2>2 DEF Inv
<1>3. ASSUME NEW c \in Cores, FeedScope(c) PROVE Inv'
  BY <1>3, FeedScopeInv
<1>4. ASSUME NEW c \in Cores, FeedOther(c) PROVE Inv'
  <2>1. BuiltInv'
    BY <1>4 DEF FeedOther, Inv, BuiltInv, TypeOK, InStep
  <2>2. NewestInv' /\ AdjustedTimeTrue'
    BY <1>4 DEF FeedOther, Inv, NewestInv, AdjustedTimeTrue, TrueTime, InStep, receiver_vars, history_vars
  <2> QED
    BY <1>0, <2>1, <2>2 DEF Inv
<1>5. CASE Reset
  BY <1>0, <1>5 DEF Reset, Inv, BuiltInv, NewestInv, AdjustedTimeTrue, InStep, device_vars
<1>6. CASE UNCHANGED vars
  BY <1>0, <1>6 DEF vars, device_vars, receiver_vars, history_vars, Inv, BuiltInv, NewestInv,
                    AdjustedTimeTrue, TrueTime, InStep
<1> QED
  BY <1>1, <1>2, <1>3, <1>4, <1>5, <1>6 DEF Next

\* EventCapture gives every event its true device time through any number of
\* counter wraps, for every wrap period, provided the skew and the silences stay
\* below half a period and no pair of lines changes places across a wrap.
THEOREM AdjustedTimeCorrect == Spec => []AdjustedTimeTrue
<1>1. Inv => AdjustedTimeTrue
  BY DEF Inv
<1> QED
  BY InitInv, NextInv, <1>1, PTL DEF Spec

-----------------------------------------------------------------------------
(* Spans.                                                                  *)

LEMMA GreatestOf ==
    ASSUME NEW n \in Nat, NEW I, I \subseteq 1..n, I # {}
    PROVE  Max(I) \in I /\ \A k \in I : k <= Max(I)
<1> DEFINE R == OpToRel(<, Nat)
           J == {n - k : k \in I}
<1>1. IsWellFoundedOn(R, Nat)
  BY NatLessThanWellFounded
<1>2. \A x, y \in Nat : x < y => <<x, y>> \in R
  BY DEF OpToRel
<1> HIDE DEF R
<1>3. J \subseteq Nat /\ J # {}
  <2>1. \A k \in I : n - k \in Nat
    OBVIOUS
  <2> QED BY <2>1
<1>4. PICK d \in J : \A c \in J : <<c, d>> \notin R
  BY <1>1, <1>3, WFMin
<1>5. PICK m \in I : d = n - m
  BY <1>4
<1>6. \A k \in I : ~(n - k < n - m)
  <2>1. \A k \in I : n - k \in J /\ n - k \in Nat /\ n - m \in Nat
    BY <1>3
  <2> HIDE DEF J
  <2> QED BY <1>2, <1>4, <1>5, <2>1
<1>7. \A k \in I : k \in Nat /\ m \in Nat
  OBVIOUS
<1>8. m \in I /\ \A k \in I : m >= k /\ k <= m
  BY <1>6, <1>7
<1>9. Max(I) \in I /\ \A k \in I : Max(I) >= k
  BY <1>8 DEF Max
<1> QED BY <1>7, <1>9

LEMMA PreviousIs ==
    ASSUME NEW log, NEW name, NEW i \in Nat \ {0}, PreviousOf(log, name, i) # 0
    PROVE  PreviousOf(log, name, i) \in 1..(i - 1) /\ log[PreviousOf(log, name, i)].name = name
<1> DEFINE before == {j \in 1..(i - 1) : log[j].name = name}
<1>1. before # {} /\ PreviousOf(log, name, i) = Max(before)
  BY DEF PreviousOf
<1>2. Max(before) \in before
  <2>1. i - 1 \in Nat /\ before \subseteq 1..(i - 1)
    OBVIOUS
  <2> HIDE DEF before
  <2> QED BY <1>1, <2>1, GreatestOf
<1> QED BY <1>1, <1>2

\* A longer log has the same events before its old end.
LEMMA PreviousKept ==
    ASSUME NEW log, NEW more, NEW name, NEW i \in Nat \ {0}, \A j \in 1..(i - 1) : more[j] = log[j]
    PROVE  PreviousOf(more, name, i) = PreviousOf(log, name, i)
<1>1. {j \in 1..(i - 1) : more[j].name = name} = {j \in 1..(i - 1) : log[j].name = name}
  <2>1. \A j \in 1..(i - 1) : more[j].name = name <=> log[j].name = name
    OBVIOUS
  <2> QED BY <2>1
<1> QED BY <1>1 DEF PreviousOf

\* Behind an event of another name the previous one stays; behind one of the name
\* it is that one.
PreviousStep(log, name, i, next) ==
    /\ log[i].name = name => PreviousOf(log, name, next) = i
    /\ log[i].name # name => PreviousOf(log, name, next) = PreviousOf(log, name, i)

LEMMA PreviousNext ==
    ASSUME NEW log, NEW name, NEW i \in Nat \ {0}, NEW next, next = i + 1
    PROVE  PreviousStep(log, name, i, next)
<1> DEFINE before(n) == {j \in 1..(n - 1) : log[j].name = name}
<1>1. CASE log[i].name = name
  <2>1. i \in before(i + 1) /\ \A k \in before(i + 1) : k <= i /\ k \in Nat
    BY <1>1
  <2>2. before(i + 1) \subseteq 1..i /\ before(i + 1) # {}
    BY <2>1
  <2>3. PreviousOf(log, name, i + 1) = Max(before(i + 1))
    BY <2>2 DEF PreviousOf
  <2> HIDE DEF before
  <2>4. Max(before(i + 1)) \in before(i + 1) /\ \A k \in before(i + 1) : k <= Max(before(i + 1))
    BY <2>2, GreatestOf
  <2> QED BY <1>1, <2>1, <2>3, <2>4 DEF PreviousStep
<1>2. CASE log[i].name # name
  <2>1. \A j : j \in 1..((i + 1) - 1) /\ log[j].name = name <=> j \in 1..(i - 1) /\ log[j].name = name
    BY <1>2
  <2>2. {j \in 1..((i + 1) - 1) : log[j].name = name} = {j \in 1..(i - 1) : log[j].name = name}
    BY <2>1
  <2> QED BY <1>2, <2>2 DEF PreviousOf, PreviousStep
<1> QED BY <1>1, <1>2 DEF PreviousStep

\* Every number of the set has its place in it.
Ranked(set) == \A k \in 1..Cardinality(set) : \E i \in set : Cardinality({j \in set : j <= i}) = k

LEMMA NthIs ==
    ASSUME NEW n \in Nat, NEW set, set \subseteq 1..n, NEW i \in set
    PROVE  Nth(set, Cardinality({j \in set : j <= i})) = i
<1> DEFINE upto(k) == {j \in set : j <= k}
<1>1. IsFiniteSet(1..n)
  BY FS_Interval
<1>2. IsFiniteSet(set)
  BY <1>1, FS_Subset
<1>3. ASSUME NEW a \in set, NEW b \in set, a < b PROVE Cardinality(upto(a)) # Cardinality(upto(b))
  <2>1. upto(a) \in SUBSET upto(b) /\ b \in upto(b) /\ b \notin upto(a) /\ upto(b) \in SUBSET set
    <3>1. \A j \in set : j \in Nat
      OBVIOUS
    <3>2. \A j \in set : j <= a => j <= b
      BY <1>3, <3>1
    <3>3. b \notin upto(a) /\ b \in upto(b)
      BY <1>3, <3>1
    <3> QED BY <3>2, <3>3
  <2>2. IsFiniteSet(upto(b))
    BY <1>2, <2>1, FS_Subset
  <2> HIDE DEF upto
  <2>3. Cardinality(upto(b)) = Cardinality(upto(a)) => upto(b) = upto(a)
    BY <2>1, <2>2, FS_Subset
  <2> QED BY <2>1, <2>3
<1>4. ASSUME NEW a \in set, Cardinality(upto(a)) = Cardinality(upto(i)) PROVE a = i
  <2>1. a \in Nat /\ i \in Nat
    OBVIOUS
  <2>2. a < i \/ i < a \/ a = i
    BY <2>1
  <2> QED BY <1>3, <1>4, <2>2
<1> QED BY <1>4 DEF Nth

\* `more` has the places of `set` and m behind them.
Extends(set, more, m) ==
    /\ Cardinality(set) \in Nat
    /\ Cardinality(more) = Cardinality(set) + 1
    /\ Ranked(more)
    /\ \A k \in 1..Cardinality(set) : Nth(more, k) = Nth(set, k) /\ Nth(set, k) \in set
    /\ Nth(more, Cardinality(set) + 1) = m

\* A number behind all others is the last one, and the others keep their places.
LEMMA NthGrows ==
    ASSUME NEW n \in Nat, NEW set, set \subseteq 1..n, Ranked(set), NEW m \in Nat, m > n
    PROVE  Extends(set, set \cup {m}, m)
<1> DEFINE more == set \cup {m}
<1>1. IsFiniteSet(1..n)
  BY FS_Interval
<1>0. \A j \in set : j \in Nat /\ j < m /\ j <= m
  OBVIOUS
<1>2. IsFiniteSet(set) /\ m \notin set
  <2>1. IsFiniteSet(set)
    BY <1>1, FS_Subset
  <2> QED BY <1>0, <2>1
<1>3. Cardinality(set) \in Nat /\ Cardinality(more) = Cardinality(set) + 1
  BY <1>2, FS_CardinalityType, FS_AddElement
<1>4. \A i \in set : {j \in more : j <= i} = {j \in set : j <= i}
  OBVIOUS
<1>5. {j \in more : j <= m} = more
  <2>1. \A j \in more : j <= m
    BY <1>0
  <2> QED BY <2>1
<1>6. more \subseteq 1..m
  OBVIOUS
<1>7. \A k \in 1..Cardinality(set) + 1 : k \in 1..Cardinality(set) \/ k = Cardinality(set) + 1
  BY <1>3
<1>8. Ranked(more)
  <2> SUFFICES ASSUME NEW k \in 1..Cardinality(more)
               PROVE  \E i \in more : Cardinality({j \in more : j <= i}) = k
    BY DEF Ranked
  <2>1. CASE k = Cardinality(set) + 1
    BY <1>3, <1>5, <2>1
  <2>2. CASE k \in 1..Cardinality(set)
    <3>1. PICK i \in set : Cardinality({j \in set : j <= i}) = k
      BY <2>2 DEF Ranked
    <3>2. i \in more /\ Cardinality({j \in more : j <= i}) = k
      BY <1>4, <3>1
    <3> QED BY <3>2
  <2> QED BY <1>3, <1>7, <2>1, <2>2
<1>9. ASSUME NEW k \in 1..Cardinality(set) PROVE Nth(more, k) = Nth(set, k) /\ Nth(set, k) \in set
  <2>1. PICK i \in set : Cardinality({j \in set : j <= i}) = k
    BY DEF Ranked
  <2>2. Nth(set, k) = i
    BY <2>1, NthIs
  <2>3. i \in more /\ Cardinality({j \in more : j <= i}) = k
    BY <1>4, <2>1
  <2>4. Nth(more, k) = i
    BY <1>6, <2>3, NthIs
  <2> QED BY <2>2, <2>4
<1>10. Nth(more, Cardinality(set) + 1) = m
  <2>1. Cardinality({j \in more : j <= m}) = Cardinality(set) + 1
    BY <1>3, <1>5
  <2>2. m \in more
    OBVIOUS
  <2>3. Nth(more, Cardinality({j \in more : j <= m})) = m
    BY <1>6, <2>2, NthIs
  <2> QED BY <2>1, <2>3
<1> QED BY <1>3, <1>8, <1>9, <1>10 DEF Extends

\* An event that closes a span.
ClosesNext(log, event) ==
    LET start == PreviousOf(log, event.name, Len(log) + 1)
    IN  event.action = "STOPPED" /\ start # 0 /\ log[start].action = "STARTED"

\* Up to the event behind the shorter log, both logs have the same previous events.
SamePrevious(log, more, n, name, i) ==
    /\ PreviousOf(more, name, i) = PreviousOf(log, name, i)
    /\ PreviousOf(log, name, i) # 0 =>
          /\ PreviousOf(log, name, i) \in 1..n
          /\ more[PreviousOf(log, name, i)] = log[PreviousOf(log, name, i)]

LEMMA PreviousGrows ==
    ASSUME NEW log, NEW more, NEW n \in Nat, \A j \in 1..n : more[j] = log[j],
           NEW name, NEW i \in 1..n + 1
    PROVE  SamePrevious(log, more, n, name, i)
<1>1. i \in Nat \ {0} /\ \A j \in 1..(i - 1) : j \in 1..n
  OBVIOUS
<1>2. \A j \in 1..(i - 1) : more[j] = log[j]
  BY <1>1
<1>3. PreviousOf(more, name, i) = PreviousOf(log, name, i)
  BY <1>1, <1>2, PreviousKept
<1>4. PreviousOf(log, name, i) # 0 => PreviousOf(log, name, i) \in 1..(i - 1)
  BY <1>1, PreviousIs
<1> QED BY <1>1, <1>2, <1>3, <1>4 DEF SamePrevious

LEMMA ClosingGrows ==
    ASSUME NEW log, NEW event, NEW more, Len(log) \in Nat,
           Len(more) = Len(log) + 1, more[Len(log) + 1] = event,
           \A i \in 1..Len(log) : more[i] = log[i]
    PROVE  /\ Closing(log) \subseteq 1..Len(log)
           /\ Closing(more) =
                 Closing(log) \cup IF ClosesNext(log, event) THEN {Len(log) + 1} ELSE {}
           /\ \A i \in 1..Len(log) : SpanAt(more, i) = SpanAt(log, i) \/ i \notin Closing(log)
           /\ ClosesNext(log, event) =>
                 SpanAt(more, Len(log) + 1) =
                    [name  |-> event.name,
                     start |-> log[PreviousOf(log, event.name, Len(log) + 1)],
                     stop  |-> event]
<1> DEFINE n == Len(log)
           start(i) == PreviousOf(log, more[i].name, i)
<1>1. /\ n \in Nat /\ Len(more) = n + 1 /\ more[n + 1] = event
      /\ \A i \in 1..n : more[i] = log[i]
  OBVIOUS
<1> HIDE DEF n
<1>2. ASSUME NEW i \in 1..n + 1
      PROVE  /\ PreviousOf(more, more[i].name, i) = start(i)
             /\ start(i) # 0 => start(i) \in 1..n /\ more[start(i)] = log[start(i)]
  <2>1. SamePrevious(log, more, n, more[i].name, i)
    BY <1>1, PreviousGrows
  <2> QED BY <2>1 DEF SamePrevious
<1>3. \A i \in 1..n : i \in 1..n + 1 /\ n + 1 \in 1..n + 1 /\ i # n + 1
  BY <1>1
<1>4. \A i \in 1..n + 1 : i \in 1..n \/ i = n + 1
  BY <1>1
<1>5. n + 1 \in 1..n + 1
  BY <1>1
<1>6. \A i \in 1..n : start(i) = PreviousOf(log, log[i].name, i)
  BY <1>1
<1>7. start(n + 1) = PreviousOf(log, event.name, n + 1)
  BY <1>1
<1> HIDE DEF start
<1>8. \A i \in 1..n : i \in Closing(more) <=> i \in Closing(log)
  BY <1>1, <1>2, <1>3, <1>6 DEF Closing, n
<1>9. n + 1 \in Closing(more) <=> ClosesNext(log, event)
  BY <1>1, <1>2, <1>5, <1>7 DEF Closing, ClosesNext, n
<1>10. Closing(log) \subseteq 1..n /\ Closing(more) \subseteq 1..n + 1
  BY <1>1 DEF Closing, n
<1>11. Closing(more) = Closing(log) \cup IF ClosesNext(log, event) THEN {n + 1} ELSE {}
  BY <1>3, <1>4, <1>8, <1>9, <1>10
<1>12. ASSUME NEW i \in 1..n, i \in Closing(log) PROVE SpanAt(more, i) = SpanAt(log, i)
  <2>1. start(i) # 0
    BY <1>6, <1>12 DEF Closing
  <2> QED BY <1>1, <1>2, <1>3, <1>6, <2>1 DEF SpanAt
<1>13. ClosesNext(log, event) => start(n + 1) # 0
  BY <1>7 DEF ClosesNext, n
<1>14. ASSUME ClosesNext(log, event)
       PROVE  SpanAt(more, n + 1) =
                 [name |-> event.name, start |-> log[PreviousOf(log, event.name, n + 1)], stop |-> event]
  <2>1. more[PreviousOf(more, more[n + 1].name, n + 1)] = log[PreviousOf(log, event.name, n + 1)]
    BY <1>2, <1>5, <1>7, <1>13, <1>14
  <2> QED BY <1>1, <2>1 DEF SpanAt
<1> QED BY <1>1, <1>10, <1>11, <1>12, <1>14 DEF n

\* What an event behind a sequence makes of it.
LEMMA AppendIs ==
    ASSUME NEW S, NEW s \in Seq(S), NEW y \in S, NEW m, Len(s) = m
    PROVE  /\ m \in Nat
           /\ Append(s, y) = [k \in 1..m + 1 |-> Append(s, y)[k]]
           /\ Append(s, y)[m + 1] = y
           /\ \A k \in 1..m : Append(s, y)[k] = s[k]
<1>1. m \in Nat
  OBVIOUS
<1>2. Append(s, y) \in Seq(S) /\ Len(Append(s, y)) = m + 1
  OBVIOUS
<1>3. Append(s, y) = [k \in 1..m + 1 |-> Append(s, y)[k]]
  <2>1. Append(s, y) \in [1..m + 1 -> S]
    BY <1>2, LenProperties
  <2> QED BY <2>1
<1>4. Append(s, y)[m + 1] = y
  OBVIOUS
<1>5. \A k \in 1..m : Append(s, y)[k] = s[k]
  OBVIOUS
<1> QED BY <1>1, <1>3, <1>4, <1>5

\* The spans grow by the one that the event closes.
SpansAfter(log, event, more, x) ==
    /\ Ranked(Closing(more))
    /\ SpansOf(more) = IF ClosesNext(log, event) THEN Append(SpansOf(log), x) ELSE SpansOf(log)

LEMMA SpansGrow ==
    ASSUME NEW log \in Seq(Event), NEW event \in Event, NEW more, more = Append(log, event),
           Ranked(Closing(log)), SpansOf(log) \in Seq(Span), NEW x,
           x = [name  |-> event.name,
                start |-> log[PreviousOf(log, event.name, Len(log) + 1)],
                stop  |-> event],
           ClosesNext(log, event) => x \in Span
    PROVE  SpansAfter(log, event, more, x)
<1> DEFINE n == Len(log)
           old == Closing(log)
           c == Cardinality(old)
<1>1. /\ n \in Nat /\ old \subseteq 1..n
      /\ Closing(more) = old \cup IF ClosesNext(log, event) THEN {n + 1} ELSE {}
      /\ \A i \in old : SpanAt(more, i) = SpanAt(log, i)
      /\ ClosesNext(log, event) => SpanAt(more, n + 1) = x
  <2>a. /\ Len(log) \in Nat /\ Len(more) = Len(log) + 1 /\ more[Len(log) + 1] = event
        /\ \A i \in 1..Len(log) : more[i] = log[i]
    OBVIOUS
  <2>1. /\ n \in Nat /\ old \subseteq 1..n
        /\ Closing(more) = old \cup IF ClosesNext(log, event) THEN {n + 1} ELSE {}
        /\ \A i \in 1..n : SpanAt(more, i) = SpanAt(log, i) \/ i \notin old
        /\ ClosesNext(log, event) => SpanAt(more, n + 1) = x
    BY <2>a, ClosingGrows
  <2> HIDE DEF n, old
  <2>2. \A i \in old : i \in 1..n
    BY <2>1
  <2> QED BY <2>1, <2>2
<1>2. SpansOf(log) = [k \in 1..c |-> SpanAt(log, Nth(old, k))]
  BY DEF SpansOf
<1>3. Ranked(old)
  OBVIOUS
<1> HIDE DEF n, old
<1> DEFINE next == n + 1
<1>4. next = n + 1
  OBVIOUS
<1> HIDE DEF next
<1>5. /\ c \in Nat
      /\ Cardinality(old \cup {next}) = c + 1
      /\ Ranked(old \cup {next})
      /\ \A k \in 1..c : Nth(old \cup {next}, k) = Nth(old, k) /\ Nth(old, k) \in old
      /\ Nth(old \cup {next}, c + 1) = next
  <2>1. next \in Nat /\ next > n
    BY <1>1, <1>4
  <2>2. Extends(old, old \cup {next}, next)
    BY <1>1, <1>3, <2>1, NthGrows
  <2> QED BY <2>2 DEF Extends, c
<1>6. CASE ~ClosesNext(log, event)
  <2>1. Closing(more) = old
    BY <1>1, <1>6
  <2>2. SpansOf(more) = [k \in 1..c |-> SpanAt(more, Nth(old, k))]
    BY <2>1 DEF SpansOf
  <2>3. \A k \in 1..c : SpanAt(more, Nth(old, k)) = SpanAt(log, Nth(old, k))
    BY <1>1, <1>5
  <2> QED BY <1>2, <1>3, <1>6, <2>1, <2>2, <2>3 DEF SpansAfter
<1>7. CASE ClosesNext(log, event)
  <2>1. Closing(more) = old \cup {next}
    BY <1>1, <1>4, <1>7
  <2>2. SpansOf(more) = [k \in 1..c + 1 |-> SpanAt(more, Nth(old \cup {next}, k))]
    BY <1>5, <2>1 DEF SpansOf
  <2>3. \A k \in 1..c : SpanAt(more, Nth(old \cup {next}, k)) = SpanAt(log, Nth(old, k))
    BY <1>1, <1>5
  <2>4. SpanAt(more, Nth(old \cup {next}, c + 1)) = x
    BY <1>1, <1>4, <1>5, <1>7
  <2>5. /\ Len(SpansOf(log)) = c
        /\ \A k \in 1..c : SpansOf(log)[k] = SpanAt(log, Nth(old, k))
    BY <1>2, <1>5
  <2>6. Append(SpansOf(log), x) = SpansOf(more)
    <3>1. \A k \in 1..c + 1 : k \in 1..c \/ k = c + 1
      BY <1>5
    <3>a. \A k \in 1..c : k \in 1..c + 1 /\ k # c + 1
      BY <1>5
    <3>2. /\ Append(SpansOf(log), x) = [k \in 1..c + 1 |-> Append(SpansOf(log), x)[k]]
          /\ Append(SpansOf(log), x)[c + 1] = x
          /\ \A k \in 1..c : Append(SpansOf(log), x)[k] = SpansOf(log)[k]
      <4> HIDE DEF c
      <4>2. SpansOf(log) \in Seq(Span) /\ x \in Span
        BY <1>7
      <4> QED BY <2>5, <4>2, AppendIs
    <3>3. \A k \in 1..c + 1 : Append(SpansOf(log), x)[k] = SpanAt(more, Nth(old \cup {next}, k))
      BY <2>3, <2>4, <2>5, <3>1, <3>2
    <3> QED BY <2>2, <3>2, <3>3
  <2> QED BY <1>5, <1>7, <2>1, <2>6 DEF SpansAfter
<1> QED BY <1>6, <1>7

-----------------------------------------------------------------------------
(* The spans of EventCapture.                                              *)

\* The log says of a name that its scope is open, with this event.
OpenIn(log, name, event) ==
    LET latest == PreviousOf(log, name, Len(log) + 1)
    IN  latest # 0 /\ log[latest].action = "STARTED" /\ event = log[latest]

PendingMatches ==
    \A n \in Names : IF n \in DOMAIN pending
                     THEN OpenIn(events, n, pending[n])
                     ELSE \A event : ~OpenIn(events, n, event)

LEMMA SpansMatchLogParts ==
    SpansMatchLog <=> spans = SpansOf(events) /\ PendingMatches
BY DEF SpansMatchLog, PendingMatches, OpenIn

SpanInv == Ranked(Closing(events)) /\ SpansMatchLog

\* Behind an event the scope of its name is open if it starts one, and every other
\* scope is what it was.
LEMMA OpenNext ==
    ASSUME NEW log, NEW event, NEW more, Len(log) \in Nat,
           Len(more) = Len(log) + 1, more[Len(log) + 1] = event,
           \A i \in 1..Len(log) : more[i] = log[i],
           NEW name, NEW start
    PROVE  OpenIn(more, name, start) <=>
              IF event.name = name THEN event.action = "STARTED" /\ start = event
                                   ELSE OpenIn(log, name, start)
<1> DEFINE n == Len(log)
           last == n + 1
           next == last + 1
<1>1. /\ n \in Nat /\ Len(more) = last /\ more[last] = event /\ \A i \in 1..n : more[i] = log[i]
      /\ last \in Nat \ {0} /\ last \in 1..n + 1 /\ last = n + 1 /\ next = last + 1
  OBVIOUS
<1> HIDE DEF n, last, next
<1>2. /\ more[last].name = name => PreviousOf(more, name, next) = last
      /\ more[last].name # name => PreviousOf(more, name, next) = PreviousOf(more, name, last)
  <2>1. PreviousStep(more, name, last, next)
    BY <1>1, PreviousNext
  <2> QED BY <2>1 DEF PreviousStep
<1>3. SamePrevious(log, more, n, name, last)
  BY <1>1, PreviousGrows
<1>4. CASE event.name = name
  <2>1. PreviousOf(more, name, next) = last
    BY <1>1, <1>2, <1>4
  <2> QED BY <1>1, <1>4, <2>1 DEF OpenIn
<1>5. CASE event.name # name
  <2>1. PreviousOf(more, name, next) = PreviousOf(log, name, last)
    BY <1>1, <1>2, <1>3, <1>5 DEF SamePrevious
  <2>2. OpenIn(log, name, start) <=>
           /\ PreviousOf(log, name, last) # 0
           /\ log[PreviousOf(log, name, last)].action = "STARTED"
           /\ start = log[PreviousOf(log, name, last)]
    BY <1>1 DEF OpenIn, n
  <2>3. OpenIn(more, name, start) <=>
           /\ PreviousOf(log, name, last) # 0
           /\ more[PreviousOf(log, name, last)].action = "STARTED"
           /\ start = more[PreviousOf(log, name, last)]
    BY <1>1, <2>1 DEF OpenIn
  <2>4. PreviousOf(log, name, last) # 0 =>
           more[PreviousOf(log, name, last)] = log[PreviousOf(log, name, last)]
    BY <1>3 DEF SamePrevious
  <2> QED BY <1>5, <2>2, <2>3, <2>4
<1> QED BY <1>4, <1>5

\* What one line does to the log, the spans and the open scopes.
LEMMA FeedScopeSpans ==
    ASSUME TypeOK, SpanInv, NEW c \in Cores, FeedScope(c)
    PROVE  SpanInv'
<1> DEFINE e == built[c]
           event == Captured(e, wrap_count')
<1>1. /\ e.name \in Names /\ event \in Event /\ event.name = e.name
      /\ event.action \in {"STARTED", "STOPPED"}
  <2>1. e \in Built /\ wrap_count' \in Nat
    BY DEF FeedScope, Capture, TypeOK
  <2>2. event \in Event
    BY <2>1, CapturedType
  <2>3. event.name = e.name
    BY CapturedFields
  <2> QED BY <2>1, <2>2, <2>3 DEF Built, Event
<1>2. /\ events' = Append(events, event)
      /\ event.action = "STARTED" =>
            /\ pending' = [n \in DOMAIN pending \cup {e.name} |->
                              IF n = e.name THEN event ELSE pending[n]]
            /\ UNCHANGED spans
      /\ event.action # "STARTED" =>
            /\ pending' = [n \in DOMAIN pending \ {e.name} |-> pending[n]]
            /\ spans' = IF e.name \in DOMAIN pending
                        THEN Append(spans, [name |-> e.name, start |-> pending[e.name], stop |-> event])
                        ELSE spans
  BY DEF FeedScope, Capture
<1> HIDE DEF e, event
<1>3. /\ events \in Seq(Event) /\ spans \in Seq(Span) /\ Len(events) \in Nat
      /\ DOMAIN pending \subseteq Names /\ \A n \in DOMAIN pending : pending[n] \in Event
  BY DEF TypeOK
<1>4. /\ Len(events') = Len(events) + 1 /\ events'[Len(events) + 1] = event
      /\ \A i \in 1..Len(events) : events'[i] = events[i]
  BY <1>1, <1>2, <1>3
<1>5. spans = SpansOf(events) /\ PendingMatches /\ Ranked(Closing(events))
  BY SpansMatchLogParts DEF SpanInv
<1>6. \A n, start : OpenIn(events', n, start) <=>
                       IF event.name = n THEN event.action = "STARTED" /\ start = event
                                         ELSE OpenIn(events, n, start)
  BY <1>3, <1>4, OpenNext
<1>7. PendingMatches'
  <2> SUFFICES ASSUME NEW n \in Names
               PROVE  IF n \in DOMAIN pending' THEN OpenIn(events', n, pending'[n])
                                               ELSE \A start : ~OpenIn(events', n, start)
    BY DEF PendingMatches
  <2>1. CASE n = e.name /\ event.action = "STARTED"
    <3>1. n \in DOMAIN pending' /\ pending'[n] = event
      BY <1>2, <2>1
    <3> QED BY <1>1, <1>6, <2>1, <3>1
  <2>2. CASE n = e.name /\ event.action # "STARTED"
    <3>1. n \notin DOMAIN pending'
      BY <1>2, <2>2
    <3> QED BY <1>1, <1>6, <2>2, <3>1
  <2>3. CASE n # e.name
    <3>1. /\ n \in DOMAIN pending' <=> n \in DOMAIN pending
          /\ n \in DOMAIN pending => pending'[n] = pending[n]
      BY <1>2, <2>3
    <3>2. \A start : OpenIn(events', n, start) <=> OpenIn(events, n, start)
      BY <1>1, <1>6, <2>3
    <3>3. IF n \in DOMAIN pending THEN OpenIn(events, n, pending[n])
                                  ELSE \A start : ~OpenIn(events, n, start)
      BY <1>5 DEF PendingMatches
    <3> QED BY <3>1, <3>2, <3>3
  <2> QED BY <2>1, <2>2, <2>3
<1> DEFINE opened == events[PreviousOf(events, event.name, Len(events) + 1)]
           x == [name |-> event.name, start |-> opened, stop |-> event]
<1>8. IF e.name \in DOMAIN pending
      THEN /\ pending[e.name] = opened /\ opened.action = "STARTED"
           /\ PreviousOf(events, event.name, Len(events) + 1) # 0
      ELSE ~(/\ PreviousOf(events, event.name, Len(events) + 1) # 0
             /\ opened.action = "STARTED")
  BY <1>1, <1>5 DEF PendingMatches, OpenIn
<1>9. ClosesNext(events, event) <=> event.action # "STARTED" /\ e.name \in DOMAIN pending
  <2>1. event.action = "STOPPED" <=> event.action # "STARTED"
    BY <1>1
  <2> QED BY <1>8, <2>1 DEF ClosesNext
<1>10. ClosesNext(events, event) => x \in Span
  <2> SUFFICES ASSUME ClosesNext(events, event) PROVE x \in Span
    OBVIOUS
  <2>1. opened \in Event
    BY <1>3, <1>8, <1>9
  <2> QED BY <1>1, <2>1 DEF Span
<1>11. spans' = IF ClosesNext(events, event) THEN Append(spans, x) ELSE spans
  <2>1. CASE ClosesNext(events, event)
    BY <1>1, <1>2, <1>8, <1>9, <2>1
  <2>2. CASE ~ClosesNext(events, event)
    BY <1>2, <1>9, <2>2
  <2> QED BY <2>1, <2>2
<1>12. /\ Ranked(Closing(events'))
       /\ SpansOf(events') = IF ClosesNext(events, event) THEN Append(SpansOf(events), x) ELSE SpansOf(events)
  <2>1. SpansOf(events) \in Seq(Span)
    BY <1>3, <1>5
  <2> DEFINE log == events
             more == events'
             y == x
  <2>2. /\ log \in Seq(Event) /\ more = Append(log, event) /\ Ranked(Closing(log))
        /\ SpansOf(log) \in Seq(Span)
        /\ y = [name  |-> event.name,
                start |-> log[PreviousOf(log, event.name, Len(log) + 1)],
                stop  |-> event]
        /\ ClosesNext(log, event) => y \in Span
    BY <1>2, <1>3, <1>5, <1>10, <2>1
  <2> HIDE DEF log, more, y
  <2>3. SpansAfter(log, event, more, y)
    BY <1>1, <2>2, SpansGrow
  <2> QED BY <2>3 DEF SpansAfter, log, more, y
<1>13. spans' = SpansOf(events')
  BY <1>5, <1>11, <1>12
<1>14. SpansMatchLog' <=> (spans = SpansOf(events))' /\ PendingMatches'
  BY DEF SpansMatchLog, PendingMatches, OpenIn
<1> QED BY <1>7, <1>12, <1>13, <1>14 DEF SpanInv

LEMMA EmptyLog ==
    /\ Ranked(Closing(<<>>))
    /\ SpansOf(<<>>) = <<>>
    /\ \A n, event : ~OpenIn(<<>>, n, event)
<1>1. Closing(<<>>) = {}
  BY DEF Closing
<1>2. Cardinality(Closing(<<>>)) = 0
  BY <1>1, FS_EmptySet
<1>3. Ranked(Closing(<<>>))
  BY <1>2 DEF Ranked
<1>4. SpansOf(<<>>) = <<>>
  BY <1>2 DEF SpansOf
<1>5. \A n : PreviousOf(<<>>, n, Len(<<>>) + 1) = 0
  BY DEF PreviousOf
<1> QED BY <1>3, <1>4, <1>5 DEF OpenIn

LEMMA NothingPending == NoPending = [n \in {} |-> None] /\ DOMAIN NoPending = {}
BY DEF NoPending

LEMMA NextSpans == TypeOK /\ SpanInv /\ [Next]_vars => SpanInv'
<1> SUFFICES ASSUME TypeOK, SpanInv, [Next]_vars PROVE SpanInv'
  OBVIOUS
<1>1. CASE UNCHANGED <<events, spans, pending>>
  BY <1>1 DEF SpanInv, SpansMatchLog
<1>2. CASE Tick
  BY <1>1, <1>2 DEF Tick, receiver_vars
<1>3. ASSUME NEW c \in Cores, NEW name \in Names, NEW ph \in {"B", "E", "C"}, Build(c, name, ph)
      PROVE  SpanInv'
  BY <1>1, <1>3 DEF Build, receiver_vars
<1>4. ASSUME NEW c \in Cores, FeedScope(c) PROVE SpanInv'
  BY <1>4, FeedScopeSpans
<1>5. ASSUME NEW c \in Cores, FeedOther(c) PROVE SpanInv'
  BY <1>1, <1>5 DEF FeedOther, receiver_vars
<1>6. CASE Reset
  <2>1. events' = <<>> /\ spans' = <<>> /\ pending' = NoPending
    BY <1>6 DEF Reset
  <2>2. SpansMatchLog' <=> (spans = SpansOf(events))' /\ PendingMatches'
    BY DEF SpansMatchLog, PendingMatches, OpenIn
  <2>3. PendingMatches'
    BY <2>1, EmptyLog, NothingPending DEF PendingMatches
  <2> QED BY <2>1, <2>2, <2>3, EmptyLog DEF SpanInv
<1>7. CASE UNCHANGED vars
  BY <1>1, <1>7 DEF vars, receiver_vars
<1> QED
  BY <1>2, <1>3, <1>4, <1>5, <1>6, <1>7 DEF Next

\* The spans are those of the log, each with the START and the STOP that belong
\* together, and the scopes still open are those the log has started and not stopped,
\* for every number of events, names and cores.
THEOREM SpansCorrect == Spec => []SpansMatchLog
<1>1. Init => SpanInv
  <2> SUFFICES ASSUME Init PROVE SpanInv
    OBVIOUS
  <2>1. events = <<>> /\ spans = <<>> /\ pending = NoPending
    BY DEF Init
  <2>2. PendingMatches
    BY <2>1, EmptyLog, NothingPending DEF PendingMatches
  <2> QED BY <2>1, <2>2, EmptyLog, SpansMatchLogParts DEF SpanInv
<1>2. SpanInv => SpansMatchLog
  BY DEF SpanInv
<1> QED
  BY TypeCorrect, NextSpans, <1>1, <1>2, PTL DEF Spec

=============================================================================
