------------------------------ MODULE MCRouter ------------------------------
(* Router with a detector that sees everything, a sleep monitor behind a    *)
(* predicate, and a memory tracker whose predicate raises on some messages. *)
EXTENDS Router

CONSTANTS backtrace, sleep_lines, memory_lines

Message(crash, sleep, wake) ==
    [crash |-> crash, sleep |-> sleep, wake |-> wake, mem |-> [tag |-> "none", numbers |-> 0]]
Mem(tag, n) ==
    [crash |-> None, sleep |-> FALSE, wake |-> FALSE, mem |-> [tag |-> tag, numbers |-> n]]

\* A line without meaning, one of each kind, and a sleep announcement that holds
\* a crash pattern.
CrashAndSleep ==
    {Message(None, FALSE, FALSE), Message(backtrace, FALSE, FALSE),
     Message(None, TRUE, FALSE), Message(None, FALSE, TRUE), Message(backtrace, TRUE, FALSE)}

\* Whole MEM lines, and one with a number that int() does not take.
Memory == {Mem("BEFORE", 2), Mem("AFTER", 3), Mem("AFTER", 1)}

MCAlphabets == {CrashAndSleep, Memory}
MCMessages == CrashAndSleep \cup Memory

MCRoutes ==
    <<[receiver |-> "memory", predicate |-> memory_lines],
      [receiver |-> "crash", predicate |-> None],
      [receiver |-> "sleep", predicate |-> sleep_lines]>>

MCAccepts(predicate, m) ==
    IF predicate = sleep_lines THEN (IF m.sleep \/ m.wake THEN "yes" ELSE "no")
    ELSE IF m.wake \/ m.mem.tag # "none" THEN "yes"
    ELSE IF m.crash # None THEN "raises" ELSE "no"

=============================================================================
