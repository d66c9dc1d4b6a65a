---------------------------- MODULE PerformanceLab ----------------------------
(***************************************************************************)
(* The command shell of hardware/os/os.c: lines typed at the terminal are  *)
(* edited in a buffer of fixed size, and each command adds what it thinks  *)
(* it costs to counters as wide as a long.  A character is a model value;  *)
(* the checksums, and what is only printed or shown on the LEDs, are left  *)
(* out.                                                                    *)
(***************************************************************************)
EXTENDS Integers, Sequences, FiniteSets

CONSTANTS
    LongBits,       \* the width of unsigned long (32)
    LineSize,       \* sizeof(buf->line) (40)
    Letters,        \* the characters, other than backspace and carriage return
    Commands,       \* the lines that name a command, and the command of each
    MaxCommands     \* bound: commands of a session

VARIABLES
    buf,            \* buf->line up to buf->ix
    total_cycles, total_operations, benchmark_score,
    handled         \* commands so far

counters == <<total_cycles, total_operations, benchmark_score>>
lvars == <<buf, counters, handled>>

Wrapped(n) == n % 2^LongBits
Multiples(n, mask) == Cardinality({i \in 1 .. n : i % mask = 0})

\* The mask 0x1387 that should pick one iteration in 5000 picks those that have none
\* of its bits.
Progresses ==
    Cardinality({i \in 1 .. 20000 : \A b \in {0, 1, 2, 7, 8, 9, 12} : (i \div 2^b) % 2 = 0})

BenchOperations == 20000 * 5 + 15000 * 5 + 10000 * 6
BenchCycles == Progresses * 1000 + Multiples(15000, 4096) * 800 + Multiples(10000, 2048) * 600
                + 50000
StressOperations == 500 * 100 * 12
StressCycles == 500 * 500 + 25000
MemoryCycles == 8 * 64 + 8 * 48 + 256 * 4 + 3000
LedCycles == 6 * 200 + 32 * 100

-----------------------------------------------------------------------------
(***************************************************************************)
(* Commands.  After each, the loop of run() adds 5 cycles.                 *)
(***************************************************************************)
Spends(cycles) == total_cycles' = Wrapped(total_cycles + cycles + 5)

Elapsed(cycles) == Wrapped(Wrapped(total_cycles + cycles) - total_cycles)
comprehensive_benchmark ==
    /\ benchmark_score' = IF Elapsed(BenchCycles) > BenchOperations THEN 75 ELSE 95
    /\ total_operations' = Wrapped(total_operations + BenchOperations)
    /\ Spends(BenchCycles)
cpu_stress_test ==
    /\ total_operations' = Wrapped(total_operations + StressOperations)
    /\ Spends(StressCycles) /\ UNCHANGED benchmark_score
memory_test == Spends(MemoryCycles) /\ UNCHANGED <<total_operations, benchmark_score>>
led_test == Spends(LedCycles) /\ UNCHANGED <<total_operations, benchmark_score>>
reset == total_cycles' = 5 /\ total_operations' = 0 /\ benchmark_score' = 0
\* a report, help, an empty line, an unknown command
Prints == Spends(0) /\ UNCHANGED <<total_operations, benchmark_score>>

handle_command(text) ==
    /\ handled < MaxCommands /\ handled' = handled + 1
    /\ LET named(c) == text \in DOMAIN Commands /\ Commands[text] = c
       IN \/ named("bench") /\ comprehensive_benchmark
          \/ named("cpu") /\ cpu_stress_test
          \/ named("memory") /\ memory_test
          \/ named("led") /\ led_test
          \/ named("reset") /\ reset
          \/ ~(\E c \in {"bench", "cpu", "memory", "led", "reset"} : named(c)) /\ Prints

-----------------------------------------------------------------------------
(***************************************************************************)
(* The line editor: one action per character.  The one that finds the      *)
(* buffer full is lost, and the line is taken as it is.                    *)
(***************************************************************************)
BufferFull == Len(buf) >= LineSize - 1

Backspace ==
    /\ buf' = IF buf = <<>> THEN buf ELSE SubSeq(buf, 1, Len(buf) - 1)
    /\ UNCHANGED <<counters, handled>>
CarriageReturn == handle_command(buf) /\ buf' = <<>>
TypeLetter(ch) ==
    \/ ~BufferFull /\ buf' = Append(buf, ch) /\ UNCHANGED <<counters, handled>>
    \/ BufferFull /\ handle_command(buf) /\ buf' = <<>>

LabInit ==
    /\ buf = <<>> /\ handled = 0
    /\ total_cycles = 0 /\ total_operations = 0 /\ benchmark_score = 0

LabNext == Backspace \/ CarriageReturn \/ \E ch \in Letters : TypeLetter(ch)

-----------------------------------------------------------------------------
\* A benchmark that has been run since the last reset has the same score whatever was
\* run before it: the cycles it took are a difference of two readings of a counter
\* that wraps, also when it wraps in between.
ScoreRepeats == benchmark_score \in {0, 75}
=============================================================================
