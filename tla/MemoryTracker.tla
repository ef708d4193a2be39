---------------------------- MODULE MemoryTracker ----------------------------
(***************************************************************************)
(* receivers/memory_tracker.py: MemoryTracker.  The field `mem` of a       *)
(* message is the tag that parse_line accepts in it, if any, and how many  *)
(* of the line's numbers, in the order in which feed reads them, int()     *)
(* takes.  The value of a number is the line it came with.                 *)
(***************************************************************************)
EXTENDS Integers, Sequences

CONSTANTS
    Tests,      \* the names passed to set_current_test
    NoTest          \* the empty name

ASSUME NoTestAssumption == NoTest \notin Tests

VARIABLES
    current_test,   \* _current_test
    mem_data,       \* _data: for every test its MemoryInfo, 0 where nothing was stored
    attributed      \* history: the MEM lines taken since the last reset, with the test

memory_vars == <<current_test, mem_data, attributed>>

Fields(tag) ==
    IF tag = "BEFORE" THEN <<"free_before", "min_before">>
                      ELSE <<"free_after", "delta", "min_after">>

NoInfo == [f \in {"free_before", "min_before", "free_after", "delta", "min_after"} |-> 0]

MemoryInit ==
    /\ current_test = NoTest
    /\ mem_data = [t \in Tests |-> NoInfo]
    /\ attributed = <<>>

\* The fields that the line stores before int() raises, if it does.
Stored(mem) == {Fields(mem.tag)[i] : i \in 1..mem.numbers}

MemoryTakes(m) == m.mem.tag \in {"BEFORE", "AFTER"} /\ current_test # NoTest

MemoryRaises(m) == MemoryTakes(m) /\ m.mem.numbers < Len(Fields(m.mem.tag))

\* Mutation: the first value of a test is kept.
NewValue_First(old, line) == IF old = 0 THEN line ELSE old

NewValue(old, line) == line

\* feed(message), which is the line-th line taken
MemoryFeed(m) ==
    IF MemoryTakes(m)
    THEN /\ mem_data' = [mem_data EXCEPT ![current_test] =
                [f \in DOMAIN NoInfo |->
                    IF f \in Stored(m.mem) THEN NewValue(@[f], Len(attributed) + 1) ELSE @[f]]]
         /\ attributed' = Append(attributed, [test |-> current_test, mem |-> m.mem])
         /\ UNCHANGED current_test
    ELSE UNCHANGED memory_vars

SetCurrentTest(t) ==
    /\ current_test' = t
    /\ UNCHANGED <<mem_data, attributed>>

\* reset()
MemoryReset ==
    /\ current_test' = NoTest
    /\ mem_data' = [t \in Tests |-> NoInfo]
    /\ attributed' = <<>>

-----------------------------------------------------------------------------
\* The last of the lines attributed to a test that carries a field, or 0.
LastCarrying(t, f) ==
    LET carrying == {k \in DOMAIN attributed :
                        attributed[k].test = t /\ f \in Stored(attributed[k].mem)}
    IN  IF carrying = {} THEN 0 ELSE CHOOSE k \in carrying : \A j \in carrying : j <= k

\* Every number kept of a test is that of the last line which carried it while the
\* test was the current one: a whole BEFORE and AFTER make a pair, with nothing in
\* it of an earlier run of the test, of another test or of a line that broke off.
MemoryOfLastLines ==
    \A t \in Tests, f \in DOMAIN NoInfo : mem_data[t][f] = LastCarrying(t, f)

=============================================================================
