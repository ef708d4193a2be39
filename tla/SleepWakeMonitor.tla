--------------------------- MODULE SleepWakeMonitor ---------------------------
(***************************************************************************)
(* receivers/sleep_wake.py: SleepWakeMonitor.  The fields `sleep` and      *)
(* `wake` of a message say whether a pattern of each kind is found in it.  *)
(***************************************************************************)
EXTENDS Integers

VARIABLES
    port,           \* os.path.exists(port_path)
    state,          \* _state
    port_was_gone,  \* _port_was_gone
    \* History since the last reset.
    unended,        \* calls of on_sleep less those of on_wake
    seen            \* what check_port saw of the port since the device fell asleep

monitor_vars == <<state, port_was_gone, unended, seen>>
sleep_vars == <<port, monitor_vars>>

SleepInit ==
    /\ port = TRUE
    /\ state = "awake"
    /\ port_was_gone = FALSE
    /\ unended = 0
    /\ seen = {}

\* _transition_to_sleeping: on_sleep is called last.
TransitionToSleeping ==
    /\ state' = "sleeping"
    /\ unended' = unended + 1

\* Mutation: a sleeping device falls asleep again.
SleepSeen_Again(m) == m.sleep

SleepSeen(m) == state = "awake" /\ m.sleep
WakeSeen(m) == state \in {"sleeping", "waking"} /\ m.wake

\* Mutation: the port's absence is remembered in the next sleep.
WakeUp_KeepsGone ==
    /\ state' = "awake"
    /\ unended' = unended - 1
    /\ seen' = {}
    /\ UNCHANGED port_was_gone

WakeUp ==
    /\ state' = "awake"
    /\ port_was_gone' = FALSE
    /\ unended' = unended - 1
    /\ seen' = {}

\* feed(message); on_wake is called last.
MonitorFeed(m) ==
    \/ /\ SleepSeen(m)
       /\ TransitionToSleeping
       /\ seen' = {}
       /\ UNCHANGED port_was_gone
    \/ WakeSeen(m) /\ WakeUp
    \/ /\ ~SleepSeen(m) /\ ~WakeSeen(m)
       /\ UNCHANGED monitor_vars

\* What is known of the port in this sleep after a look at it.
SeenNow ==
    IF ~port THEN seen \cup {"gone"}
    ELSE IF "gone" \in seen THEN seen \cup {"back"} ELSE seen

\* check_port()
CheckPort ==
    /\ \/ /\ state = "awake" /\ ~port
          /\ port_was_gone' = TRUE
          /\ TransitionToSleeping
          /\ seen' = {"gone"}
       \/ /\ state = "sleeping" /\ port /\ port_was_gone
          /\ state' = "waking"
          /\ seen' = SeenNow
          /\ UNCHANGED <<port_was_gone, unended>>
       \/ /\ state = "awake" => port
          /\ ~(state = "sleeping" /\ port /\ port_was_gone)
          /\ seen' = IF state = "awake" THEN seen ELSE SeenNow
          /\ UNCHANGED <<state, port_was_gone, unended>>
    /\ UNCHANGED port

\* reset()
MonitorReset ==
    /\ state' = "awake"
    /\ port_was_gone' = FALSE
    /\ unended' = 0
    /\ seen' = {}

\* The device's port disappears or comes back.
PortChanges ==
    /\ port' = ~port
    /\ UNCHANGED monitor_vars

-----------------------------------------------------------------------------
SleepTypeOK ==
    /\ port \in BOOLEAN
    /\ state \in {"awake", "sleeping", "waking"}
    /\ port_was_gone \in BOOLEAN
    /\ unended \in Int
    /\ seen \subseteq {"gone", "back"}

\* The callbacks alternate: every on_wake ends one on_sleep, whatever the order of
\* lines, port changes and calls of check_port.
CallbacksAlternate == unended = IF state = "awake" THEN 0 ELSE 1

\* "waking" is never a guess: check_port has seen the port gone and then back
\* since the device fell asleep.
WakingWasSeen == state = "waking" => seen = {"gone", "back"}

\* "When it reappears, the monitor transitions to waking" (check_port): a device
\* whose port was seen gone and then back is no longer taken to sleep.
PortBackIsWaking == "back" \in seen => state # "sleeping"

=============================================================================
