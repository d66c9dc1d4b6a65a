------------------------- MODULE IrqMonitor_proofs --------------------------
(***************************************************************************)
(* For any number of samples, any period longer than the handler, any work *)
(* and any number of levels: the events are accounted for, the latencies   *)
(* are those of the events counted or of newer ones, and the intervals     *)
(* span the period.                                                        *)
(***************************************************************************)
EXTENDS IrqMonitor, TLAPS

(***************************************************************************)
(* The inductive invariant, a part for each reason the properties hold.    *)
(***************************************************************************)
IType ==
    /\ program \in {"monitor", "sweep", "bench", "poll"}
    /\ timer_counter \in Nat /\ timer_irq_event_count \in Nat
    /\ timer_irq_event_count < timer_counter
    /\ timer_irq_enable \in {0, 1} /\ timer_irq_pending \in {0, 1}
    /\ timer_irq_countdown \in Int /\ irq_mask \in {0, 1}
    /\ irq \in {"none", "count", "times", "stats", "ack"}
    /\ irq_count \in Nat /\ irq_timestamp \in Nat /\ irq_event_timestamp \in Nat
    /\ irq_last_timer \in Nat /\ left \in Nat
    /\ seen \in Nat /\ missed_events \in Nat /\ sample.samples \in Nat
    /\ interval.samples \in Nat /\ interval.min \in Int
    /\ times \in Seq(Nat)

\* which program is where
IdlePcs == {"unmask", "reset", "disable", "clear", "period", "enable"}
CountPcs == {"wait", "read", "stamp", "work"}
PollPcs == {"poll", "detected", "eventTime", "ack", "update"}
EndPcs == {"stop", "mask", "report", "done"}
IPc ==
    /\ pc \in IdlePcs \cup CountPcs \cup PollPcs \cup EndPcs \cup {"samples", "print", "line"}
    /\ pc \in CountPcs => program \in {"monitor", "sweep"}
    /\ pc \in PollPcs => program = "poll"
    /\ pc \in {"unmask", "reset", "mask"} => program # "poll"
    /\ pc = "samples" => program = "bench"
    /\ pc = "print" => program = "monitor"
    /\ pc = "line" => program = "sweep"

\* before the timer is started nothing is pending, and nothing is counted
IIdle ==
    pc \in IdlePcs =>
        /\ timer_irq_enable = 0 /\ timer_irq_pending = 0 /\ irq = "none"
        /\ seen = 0 /\ missed_events = 0 /\ sample.samples = 0
        /\ pc \in {"disable", "clear", "period", "enable"} \/ program # "sweep"
              => irq_count = 0

\* the handler runs while its event is pending; polling masks every interrupt
IHandler ==
    /\ irq # "none" => timer_irq_pending = 1
    /\ program = "poll" => irq = "none" /\ irq_mask = 1

\* an event left over when run_level has stopped the timer is served before
\* the next level clears the count
ILate ==
    /\ program = "sweep" /\ pc \notin {"unmask", "done"} => irq_mask = 0
    /\ pc \in {"mask", "report", "line", "done"} => timer_irq_enable = 0
    /\ pc = "line" /\ timer_irq_pending = 1
          => timer_counter - timer_irq_event_count > ReportClocks - left

ICount == Running /\ program # "poll" => irq_count + Uncounted = Len(times)

\* main() is behind the handler, by one event at least when it reads the count
ISeen ==
    /\ pc \in {"wait", "stamp", "work", "print"} => seen <= irq_count
    /\ pc = "read" => seen < irq_count
    /\ sample.samples + missed_events + (IF pc \in {"stamp", "work"} THEN 1 ELSE 0) = seen

\* where the time of the last event counted is
IStamp ==
    Running /\ program # "poll" =>
        /\ timer_irq_pending = 1 => Len(times) > 0 /\ timer_irq_event_count = times[Len(times)]
        /\ irq # "times" /\ irq_count > 0 => irq_event_timestamp = times[irq_count]
        /\ pc = "work" => \E i \in seen..Len(times) : t_event = times[i]

\* the countdown tells how long ago the last event was measured, at least
IInterval ==
    /\ interval.samples = 0 => interval.min = 0
    /\ interval.samples > 0 => interval.min > TIMER_IRQ_PERIOD
    /\ irq_last_timer < timer_counter /\ irq_timestamp < timer_counter
    /\ timer_irq_pending = 1 => timer_irq_countdown = TIMER_IRQ_PERIOD
    /\ irq_last_timer # 0 =>
          /\ timer_irq_pending = 0
                => timer_counter - irq_last_timer > TIMER_IRQ_PERIOD - timer_irq_countdown
          /\ timer_irq_pending = 1 /\ irq # "ack"
                => timer_counter - irq_last_timer > TIMER_IRQ_PERIOD
          /\ irq = "stats" \/ pc \in {"eventTime", "ack", "update"}
                => irq_timestamp - irq_last_timer > TIMER_IRQ_PERIOD
    /\ pc \in {"detected", "eventTime", "ack"} => timer_irq_pending = 1
    /\ pc = "ack" => irq_timestamp + 1 < timer_counter
    /\ pc = "update" => /\ irq_timestamp + 2 < timer_counter
                        /\ timer_irq_pending = 0 /\ timer_irq_countdown = TIMER_IRQ_PERIOD

IInv == IType /\ IPc /\ IIdle /\ IHandler /\ ILate /\ ICount /\ ISeen /\ IStamp /\ IInterval

\* the fields of statistics without a sample
LEMMA NoSamplesFields == NoSamples.samples = 0 /\ NoSamples.min = 0
  BY DEF NoSamples

\* what one more event is worth to main(), in the words of ISeen
LEMMA SkippedArithmetic ==
  ASSUME NEW s \in Nat, NEW m \in Nat, NEW n \in Nat, NEW c \in Nat, s + m = n, c > n
  PROVE  s + (m + (IF c > n + 1 THEN c - n - 1 ELSE 0)) + 1 = c
  OBVIOUS

\* ReadCount counts the events it skips, so that none is left out.
LEMMA EventsAfterRead ==
  ASSUME IType, ISeen, ReadCount
  PROVE  sample' = sample /\ sample.samples + missed_events' + 1 = seen'
<1>1. /\ pc = "read" /\ seen' = irq_count /\ sample' = sample
      /\ missed_events' = missed_events + Skipped(irq_count)
  BY DEF ReadCount, Main
<1>2. /\ seen \in Nat /\ missed_events \in Nat /\ irq_count \in Nat /\ sample.samples \in Nat
  BY DEF IType
<1>3. irq_count > seen /\ sample.samples + missed_events + 0 = seen
  BY <1>1, <1>2 DEF ISeen
<1>4. sample.samples + missed_events = seen
  BY <1>2, <1>3
<1>5. sample.samples
        + (missed_events + (IF irq_count > seen + 1 THEN irq_count - seen - 1 ELSE 0)) + 1
      = irq_count
  BY <1>2, <1>3, <1>4, SkippedArithmetic
<1>6. QED
  BY <1>1, <1>5 DEF Skipped

(***************************************************************************)
(* Each part is kept by every step: one step of the proof per action.      *)
(***************************************************************************)
LEMMA TypePreserved ==
  IType /\ IPc /\ IIdle /\ IHandler /\ ISeen /\ IInterval /\ [Next]_vars
    => IType'
<1> SUFFICES ASSUME IType, IPc, IIdle, IHandler, ISeen, IInterval, [Next]_vars
             PROVE  IType'
  OBVIOUS
<1> USE ProgramsAssumption, SamplesAssumption, PeriodAssumption, DelayAssumption,
        ReportAssumption, WorkAssumption, LevelsAssumption, SMTT(30)
<1> USE DEF IType, IPc, IIdle, IHandler, ISeen, IInterval,
        IdlePcs, CountPcs, PollPcs, EndPcs, Running, Uncounted, Main, Clock, Counts, Fires,
        Requested, Only, kept, timer, stamps, statistics, locals
<1>1. CASE IrqRequest
  BY <1>1 DEF IrqRequest
<1>2. CASE IrqCount
  BY <1>2 DEF IrqCount
<1>3. CASE IrqTimes
  BY <1>3 DEF IrqTimes, EventTime
<1>4. CASE IrqStats
  BY <1>4 DEF IrqStats, Measure, update_stats
<1>5. CASE IrqAck
  BY <1>5 DEF IrqAck
<1>6. CASE ResetCounts
  <2>1. interval' = NoSamples \/ interval' = interval
    BY <1>6 DEF ResetCounts
  <2>2. interval'.samples \in Nat /\ interval'.min \in Int
    BY <2>1, NoSamplesFields
  <2>3. QED
    BY <1>6, <2>2 DEF ResetCounts
<1>7. CASE Disable
  BY <1>7 DEF Disable
<1>8. CASE ClearPending
  BY <1>8 DEF ClearPending
<1>9. CASE SetPeriod
  BY <1>9 DEF SetPeriod
<1>10. CASE Unmask
  BY <1>10 DEF Unmask
<1>11. CASE Enable
  BY <1>11 DEF Enable
<1>12. CASE Wait
  BY <1>12 DEF Wait
<1>13. CASE ReadCount
  BY <1>13 DEF ReadCount, Skipped
<1>14. CASE ReadStamp
  BY <1>14 DEF ReadStamp
<1>15. CASE Spend
  BY <1>15 DEF Spend
<1>16. CASE MeasureEvent
  BY <1>16 DEF MeasureEvent, update_stats
<1>17. CASE print_event_line
  BY <1>17 DEF print_event_line
<1>18. CASE CollectSamples
  BY <1>18 DEF CollectSamples
<1>19. CASE Poll
  BY <1>19 DEF Poll
<1>20. CASE Detect
  BY <1>20 DEF Detect
<1>21. CASE ReadEventTime
  BY <1>21 DEF ReadEventTime
<1>22. CASE PollAck
  BY <1>22 DEF PollAck
<1>23. CASE PollUpdate
  BY <1>23 DEF PollUpdate, Measure, update_stats
<1>24. CASE Stop
  BY <1>24 DEF Stop
<1>25. CASE Mask
  BY <1>25 DEF Mask
<1>26. CASE Report
  BY <1>26 DEF Report
<1>27. CASE NextLevel
  BY <1>27 DEF NextLevel, NoSamples
<1>28. CASE UNCHANGED vars
  BY <1>28 DEF vars
<1>29. QED
  BY <1>1, <1>2, <1>3, <1>4, <1>5, <1>6, <1>7, <1>8, <1>9, <1>10, <1>11, <1>12,
     <1>13, <1>14, <1>15, <1>16, <1>17, <1>18, <1>19, <1>20, <1>21, <1>22, <1>23, <1>24,
     <1>25, <1>26, <1>27, <1>28
  DEF Next, Handler, Setup, Loop, Ending, Done

\* a program stays at its own points
LEMMA ProgramCounterPreserved ==
  IType /\ IPc /\ [Next]_vars
    => IPc'
<1> SUFFICES ASSUME IType, IPc, [Next]_vars
             PROVE  IPc'
  OBVIOUS
<1> USE ProgramsAssumption, SamplesAssumption, PeriodAssumption, DelayAssumption,
        ReportAssumption, WorkAssumption, LevelsAssumption, SMTT(30)
<1> USE DEF IType, IPc,
        IdlePcs, CountPcs, PollPcs, EndPcs, Running, Uncounted, Main, Clock, Counts, Fires,
        Requested, Only, kept, timer, stamps, statistics, locals
<1>1. CASE Handler
  BY <1>1
  DEF Handler, IrqRequest, IrqCount, IrqTimes, IrqStats, IrqAck
<1>2. CASE Setup
  BY <1>2
  DEF Setup, ResetCounts, Disable, ClearPending, SetPeriod, Unmask, Enable
<1>3. CASE Loop
  BY <1>3
  DEF Loop, Wait, ReadCount, ReadStamp, Spend, MeasureEvent, print_event_line,
         CollectSamples, Poll, Detect, ReadEventTime, PollAck, PollUpdate
<1>4. CASE Ending
  BY <1>4
  DEF Ending, Stop, Mask, Report, NextLevel
<1>5. CASE UNCHANGED vars
  BY <1>5 DEF vars
<1>6. QED
  BY <1>1, <1>2, <1>3, <1>4, <1>5 DEF Next, Done

\* nothing happens until the timer is started, and a level leaves nothing behind
LEMMA IdlePreserved ==
  IType /\ IPc /\ IIdle /\ IHandler /\ ILate /\ ISeen /\ [Next]_vars
    => IIdle'
<1> SUFFICES ASSUME IType, IPc, IIdle, IHandler, ILate, ISeen, [Next]_vars
             PROVE  IIdle'
  OBVIOUS
<1> USE ProgramsAssumption, SamplesAssumption, PeriodAssumption, DelayAssumption,
        ReportAssumption, WorkAssumption, LevelsAssumption, SMTT(30)
<1> USE DEF IType, IPc, IIdle, IHandler, ILate, ISeen,
        IdlePcs, CountPcs, PollPcs, EndPcs, Running, Uncounted, Main, Clock, Counts, Fires,
        Requested, Only, kept, timer, stamps, statistics, locals
<1>1. CASE IrqRequest
  BY <1>1 DEF IrqRequest
<1>2. CASE IrqCount
  BY <1>2 DEF IrqCount
<1>3. CASE IrqTimes
  BY <1>3 DEF IrqTimes, EventTime
<1>4. CASE IrqStats
  BY <1>4 DEF IrqStats, Measure, update_stats
<1>5. CASE IrqAck
  BY <1>5 DEF IrqAck
<1>6. CASE ResetCounts
  BY <1>6 DEF ResetCounts, NoSamples
<1>7. CASE Disable
  BY <1>7 DEF Disable
<1>8. CASE ClearPending
  BY <1>8 DEF ClearPending
<1>9. CASE SetPeriod
  BY <1>9 DEF SetPeriod
<1>10. CASE Unmask
  BY <1>10 DEF Unmask
<1>11. CASE Enable
  BY <1>11 DEF Enable
<1>12. CASE Wait
  BY <1>12 DEF Wait
<1>13. CASE ReadCount
  BY <1>13 DEF ReadCount, Skipped
<1>14. CASE ReadStamp
  BY <1>14 DEF ReadStamp
<1>15. CASE Spend
  BY <1>15 DEF Spend
<1>16. CASE MeasureEvent
  BY <1>16 DEF MeasureEvent, update_stats
<1>17. CASE print_event_line
  BY <1>17 DEF print_event_line
<1>18. CASE CollectSamples
  BY <1>18 DEF CollectSamples
<1>19. CASE Poll
  BY <1>19 DEF Poll
<1>20. CASE Detect
  BY <1>20 DEF Detect
<1>21. CASE ReadEventTime
  BY <1>21 DEF ReadEventTime
<1>22. CASE PollAck
  BY <1>22 DEF PollAck
<1>23. CASE PollUpdate
  BY <1>23 DEF PollUpdate, Measure, update_stats
<1>24. CASE Stop
  BY <1>24 DEF Stop
<1>25. CASE Mask
  BY <1>25 DEF Mask
<1>26. CASE Report
  BY <1>26 DEF Report
<1>27. CASE NextLevel
  BY <1>27 DEF NextLevel, NoSamples
<1>28. CASE UNCHANGED vars
  BY <1>28 DEF vars
<1>29. QED
  BY <1>1, <1>2, <1>3, <1>4, <1>5, <1>6, <1>7, <1>8, <1>9, <1>10, <1>11, <1>12,
     <1>13, <1>14, <1>15, <1>16, <1>17, <1>18, <1>19, <1>20, <1>21, <1>22, <1>23, <1>24,
     <1>25, <1>26, <1>27, <1>28
  DEF Next, Handler, Setup, Loop, Ending, Done

\* only IrqAck clears the event the handler works on
LEMMA HandlerPreserved ==
  IType /\ IPc /\ IIdle /\ IHandler /\ [Next]_vars
    => IHandler'
<1> SUFFICES ASSUME IType, IPc, IIdle, IHandler, [Next]_vars
             PROVE  IHandler'
  OBVIOUS
<1> USE ProgramsAssumption, SamplesAssumption, PeriodAssumption, DelayAssumption,
        ReportAssumption, WorkAssumption, LevelsAssumption, SMTT(30)
<1> USE DEF IType, IPc, IIdle, IHandler,
        IdlePcs, CountPcs, PollPcs, EndPcs, Running, Uncounted, Main, Clock, Counts, Fires,
        Requested, Only, kept, timer, stamps, statistics, locals
<1>1. CASE IrqRequest
  BY <1>1 DEF IrqRequest
<1>2. CASE IrqCount
  BY <1>2 DEF IrqCount
<1>3. CASE IrqTimes
  BY <1>3 DEF IrqTimes, EventTime
<1>4. CASE IrqStats
  BY <1>4 DEF IrqStats, Measure, update_stats
<1>5. CASE IrqAck
  BY <1>5 DEF IrqAck
<1>6. CASE ResetCounts
  BY <1>6 DEF ResetCounts, NoSamples
<1>7. CASE Disable
  BY <1>7 DEF Disable
<1>8. CASE ClearPending
  BY <1>8 DEF ClearPending
<1>9. CASE SetPeriod
  BY <1>9 DEF SetPeriod
<1>10. CASE Unmask
  BY <1>10 DEF Unmask
<1>11. CASE Enable
  BY <1>11 DEF Enable
<1>12. CASE Wait
  BY <1>12 DEF Wait
<1>13. CASE ReadCount
  BY <1>13 DEF ReadCount, Skipped
<1>14. CASE ReadStamp
  BY <1>14 DEF ReadStamp
<1>15. CASE Spend
  BY <1>15 DEF Spend
<1>16. CASE MeasureEvent
  BY <1>16 DEF MeasureEvent, update_stats
<1>17. CASE print_event_line
  BY <1>17 DEF print_event_line
<1>18. CASE CollectSamples
  BY <1>18 DEF CollectSamples
<1>19. CASE Poll
  BY <1>19 DEF Poll
<1>20. CASE Detect
  BY <1>20 DEF Detect
<1>21. CASE ReadEventTime
  BY <1>21 DEF ReadEventTime
<1>22. CASE PollAck
  BY <1>22 DEF PollAck
<1>23. CASE PollUpdate
  BY <1>23 DEF PollUpdate, Measure, update_stats
<1>24. CASE Stop
  BY <1>24 DEF Stop
<1>25. CASE Mask
  BY <1>25 DEF Mask
<1>26. CASE Report
  BY <1>26 DEF Report
<1>27. CASE NextLevel
  BY <1>27 DEF NextLevel, NoSamples
<1>28. CASE UNCHANGED vars
  BY <1>28 DEF vars
<1>29. QED
  BY <1>1, <1>2, <1>3, <1>4, <1>5, <1>6, <1>7, <1>8, <1>9, <1>10, <1>11, <1>12,
     <1>13, <1>14, <1>15, <1>16, <1>17, <1>18, <1>19, <1>20, <1>21, <1>22, <1>23, <1>24,
     <1>25, <1>26, <1>27, <1>28
  DEF Next, Handler, Setup, Loop, Ending, Done

\* main() reports for longer than an interrupt takes to be entered
LEMMA LateEventPreserved ==
  IType /\ IPc /\ IIdle /\ IHandler /\ ILate /\ [Next]_vars
    => ILate'
<1> SUFFICES ASSUME IType, IPc, IIdle, IHandler, ILate, [Next]_vars
             PROVE  ILate'
  OBVIOUS
<1> USE ProgramsAssumption, SamplesAssumption, PeriodAssumption, DelayAssumption,
        ReportAssumption, WorkAssumption, LevelsAssumption, SMTT(30)
<1> USE DEF IType, IPc, IIdle, IHandler, ILate,
        IdlePcs, CountPcs, PollPcs, EndPcs, Running, Uncounted, Main, Clock, Counts, Fires,
        Requested, Only, kept, timer, stamps, statistics, locals
<1>1. CASE IrqRequest
  BY <1>1 DEF IrqRequest
<1>2. CASE IrqCount
  BY <1>2 DEF IrqCount
<1>3. CASE IrqTimes
  BY <1>3 DEF IrqTimes, EventTime
<1>4. CASE IrqStats
  BY <1>4 DEF IrqStats, Measure, update_stats
<1>5. CASE IrqAck
  BY <1>5 DEF IrqAck
<1>6. CASE ResetCounts
  BY <1>6 DEF ResetCounts, NoSamples
<1>7. CASE Disable
  BY <1>7 DEF Disable
<1>8. CASE ClearPending
  BY <1>8 DEF ClearPending
<1>9. CASE SetPeriod
  BY <1>9 DEF SetPeriod
<1>10. CASE Unmask
  BY <1>10 DEF Unmask
<1>11. CASE Enable
  BY <1>11 DEF Enable
<1>12. CASE Wait
  BY <1>12 DEF Wait
<1>13. CASE ReadCount
  BY <1>13 DEF ReadCount, Skipped
<1>14. CASE ReadStamp
  BY <1>14 DEF ReadStamp
<1>15. CASE Spend
  BY <1>15 DEF Spend
<1>16. CASE MeasureEvent
  BY <1>16 DEF MeasureEvent, update_stats
<1>17. CASE print_event_line
  BY <1>17 DEF print_event_line
<1>18. CASE CollectSamples
  BY <1>18 DEF CollectSamples
<1>19. CASE Poll
  BY <1>19 DEF Poll
<1>20. CASE Detect
  BY <1>20 DEF Detect
<1>21. CASE ReadEventTime
  BY <1>21 DEF ReadEventTime
<1>22. CASE PollAck
  BY <1>22 DEF PollAck
<1>23. CASE PollUpdate
  BY <1>23 DEF PollUpdate, Measure, update_stats
<1>24. CASE Stop
  BY <1>24 DEF Stop
<1>25. CASE Mask
  BY <1>25 DEF Mask
<1>26. CASE Report
  BY <1>26 DEF Report
<1>27. CASE NextLevel
  BY <1>27 DEF NextLevel, NoSamples
<1>28. CASE UNCHANGED vars
  BY <1>28 DEF vars
<1>29. QED
  BY <1>1, <1>2, <1>3, <1>4, <1>5, <1>6, <1>7, <1>8, <1>9, <1>10, <1>11, <1>12,
     <1>13, <1>14, <1>15, <1>16, <1>17, <1>18, <1>19, <1>20, <1>21, <1>22, <1>23, <1>24,
     <1>25, <1>26, <1>27, <1>28
  DEF Next, Handler, Setup, Loop, Ending, Done

\* an event fires once, and the handler counts it once
LEMMA CountPreserved ==
  IType /\ IPc /\ IIdle /\ IHandler /\ ILate /\ ICount /\ [Next]_vars
    => ICount'
<1> SUFFICES ASSUME IType, IPc, IIdle, IHandler, ILate, ICount, [Next]_vars
             PROVE  ICount'
  OBVIOUS
<1> USE ProgramsAssumption, SamplesAssumption, PeriodAssumption, DelayAssumption,
        ReportAssumption, WorkAssumption, LevelsAssumption, SMTT(30)
<1> USE DEF IType, IPc, IIdle, IHandler, ILate, ICount,
        IdlePcs, CountPcs, PollPcs, EndPcs, Running, Uncounted, Main, Clock, Counts, Fires,
        Requested, Only, kept, timer, stamps, statistics, locals
<1>1. CASE IrqRequest
  BY <1>1 DEF IrqRequest
<1>2. CASE IrqCount
  BY <1>2 DEF IrqCount
<1>3. CASE IrqTimes
  BY <1>3 DEF IrqTimes, EventTime
<1>4. CASE IrqStats
  BY <1>4 DEF IrqStats, Measure, update_stats
<1>5. CASE IrqAck
  BY <1>5 DEF IrqAck
<1>6. CASE ResetCounts
  BY <1>6 DEF ResetCounts, NoSamples
<1>7. CASE Disable
  BY <1>7 DEF Disable
<1>8. CASE ClearPending
  BY <1>8 DEF ClearPending
<1>9. CASE SetPeriod
  BY <1>9 DEF SetPeriod
<1>10. CASE Unmask
  BY <1>10 DEF Unmask
<1>11. CASE Enable
  BY <1>11 DEF Enable
<1>12. CASE Wait
  BY <1>12 DEF Wait
<1>13. CASE ReadCount
  BY <1>13 DEF ReadCount, Skipped
<1>14. CASE ReadStamp
  BY <1>14 DEF ReadStamp
<1>15. CASE Spend
  BY <1>15 DEF Spend
<1>16. CASE MeasureEvent
  BY <1>16 DEF MeasureEvent, update_stats
<1>17. CASE print_event_line
  BY <1>17 DEF print_event_line
<1>18. CASE CollectSamples
  BY <1>18 DEF CollectSamples
<1>19. CASE Poll
  BY <1>19 DEF Poll
<1>20. CASE Detect
  BY <1>20 DEF Detect
<1>21. CASE ReadEventTime
  BY <1>21 DEF ReadEventTime
<1>22. CASE PollAck
  BY <1>22 DEF PollAck
<1>23. CASE PollUpdate
  BY <1>23 DEF PollUpdate, Measure, update_stats
<1>24. CASE Stop
  BY <1>24 DEF Stop
<1>25. CASE Mask
  BY <1>25 DEF Mask
<1>26. CASE Report
  BY <1>26 DEF Report
<1>27. CASE NextLevel
  BY <1>27 DEF NextLevel, NoSamples
<1>28. CASE UNCHANGED vars
  BY <1>28 DEF vars
<1>29. QED
  BY <1>1, <1>2, <1>3, <1>4, <1>5, <1>6, <1>7, <1>8, <1>9, <1>10, <1>11, <1>12,
     <1>13, <1>14, <1>15, <1>16, <1>17, <1>18, <1>19, <1>20, <1>21, <1>22, <1>23, <1>24,
     <1>25, <1>26, <1>27, <1>28
  DEF Next, Handler, Setup, Loop, Ending, Done

\* main() takes over the count it reads
LEMMA SeenPreserved ==
  IType /\ IPc /\ IIdle /\ IHandler /\ ICount /\ ISeen /\ [Next]_vars
    => ISeen'
<1> SUFFICES ASSUME IType, IPc, IIdle, IHandler, ICount, ISeen, [Next]_vars
             PROVE  ISeen'
  OBVIOUS
<1> USE ProgramsAssumption, SamplesAssumption, PeriodAssumption, DelayAssumption,
        ReportAssumption, WorkAssumption, LevelsAssumption, SMTT(30)
<1> USE DEF IType, IPc, IIdle, IHandler, ICount, ISeen,
        IdlePcs, CountPcs, PollPcs, EndPcs, Running, Uncounted, Main, Clock, Counts, Fires,
        Requested, Only, kept, timer, stamps, statistics, locals
<1>1. CASE IrqRequest
  BY <1>1 DEF IrqRequest
<1>2. CASE IrqCount
  BY <1>2 DEF IrqCount
<1>3. CASE IrqTimes
  BY <1>3 DEF IrqTimes, EventTime
<1>4. CASE IrqStats
  BY <1>4 DEF IrqStats, Measure, update_stats
<1>5. CASE IrqAck
  BY <1>5 DEF IrqAck
<1>6. CASE ResetCounts
  BY <1>6 DEF ResetCounts, NoSamples
<1>7. CASE Disable
  BY <1>7 DEF Disable
<1>8. CASE ClearPending
  BY <1>8 DEF ClearPending
<1>9. CASE SetPeriod
  BY <1>9 DEF SetPeriod
<1>10. CASE Unmask
  BY <1>10 DEF Unmask
<1>11. CASE Enable
  BY <1>11 DEF Enable
<1>12. CASE Wait
  BY <1>12 DEF Wait
<1>13. CASE ReadCount
  <2>1. pc = "read" /\ pc' = "stamp" /\ irq_count' = irq_count /\ seen' = irq_count
    BY <1>13 DEF ReadCount
  <2>2. sample' = sample /\ sample.samples + missed_events' + 1 = seen'
    BY <1>13, EventsAfterRead
  <2>3. QED
    BY <2>1, <2>2
<1>14. CASE ReadStamp
  BY <1>14 DEF ReadStamp
<1>15. CASE Spend
  BY <1>15 DEF Spend
<1>16. CASE MeasureEvent
  BY <1>16 DEF MeasureEvent, update_stats
<1>17. CASE print_event_line
  BY <1>17 DEF print_event_line
<1>18. CASE CollectSamples
  BY <1>18 DEF CollectSamples
<1>19. CASE Poll
  BY <1>19 DEF Poll
<1>20. CASE Detect
  BY <1>20 DEF Detect
<1>21. CASE ReadEventTime
  BY <1>21 DEF ReadEventTime
<1>22. CASE PollAck
  BY <1>22 DEF PollAck
<1>23. CASE PollUpdate
  BY <1>23 DEF PollUpdate, Measure, update_stats
<1>24. CASE Stop
  BY <1>24 DEF Stop
<1>25. CASE Mask
  BY <1>25 DEF Mask
<1>26. CASE Report
  BY <1>26 DEF Report
<1>27. CASE NextLevel
  BY <1>27 DEF NextLevel, NoSamples
<1>28. CASE UNCHANGED vars
  BY <1>28 DEF vars
<1>29. QED
  BY <1>1, <1>2, <1>3, <1>4, <1>5, <1>6, <1>7, <1>8, <1>9, <1>10, <1>11, <1>12,
     <1>13, <1>14, <1>15, <1>16, <1>17, <1>18, <1>19, <1>20, <1>21, <1>22, <1>23, <1>24,
     <1>25, <1>26, <1>27, <1>28
  DEF Next, Handler, Setup, Loop, Ending, Done

\* no event fires between the count and the time stamp of the one at hand
LEMMA StampPreserved ==
  IType /\ IPc /\ IIdle /\ IHandler /\ ILate /\ ICount /\ ISeen /\ IStamp /\ [Next]_vars
    => IStamp'
<1> SUFFICES ASSUME IType, IPc, IIdle, IHandler, ILate, ICount, ISeen, IStamp, [Next]_vars
             PROVE  IStamp'
  OBVIOUS
<1> USE ProgramsAssumption, SamplesAssumption, PeriodAssumption, DelayAssumption,
        ReportAssumption, WorkAssumption, LevelsAssumption, SMTT(30)
<1> USE DEF IType, IPc, IIdle, IHandler, ILate, ICount, ISeen, IStamp,
        IdlePcs, CountPcs, PollPcs, EndPcs, Running, Uncounted, Main, Clock, Counts, Fires,
        Requested, Only, kept, timer, stamps, statistics, locals
<1>1. CASE IrqRequest
  BY <1>1 DEF IrqRequest
<1>2. CASE IrqCount
  BY <1>2 DEF IrqCount
<1>3. CASE IrqTimes
  BY <1>3 DEF IrqTimes, EventTime
<1>4. CASE IrqStats
  BY <1>4 DEF IrqStats, Measure, update_stats
<1>5. CASE IrqAck
  BY <1>5 DEF IrqAck
<1>6. CASE ResetCounts
  BY <1>6 DEF ResetCounts, NoSamples
<1>7. CASE Disable
  BY <1>7 DEF Disable
<1>8. CASE ClearPending
  BY <1>8 DEF ClearPending
<1>9. CASE SetPeriod
  BY <1>9 DEF SetPeriod
<1>10. CASE Unmask
  BY <1>10 DEF Unmask
<1>11. CASE Enable
  BY <1>11 DEF Enable
<1>12. CASE Wait
  BY <1>12 DEF Wait
<1>13. CASE ReadCount
  BY <1>13 DEF ReadCount, Skipped
<1>14. CASE ReadStamp
  <2>1. pc = "stamp" /\ pc' = "work" /\ irq = "none" /\ program # "poll"
    BY <1>14 DEF ReadStamp
  <2>2. irq' = irq /\ irq_count' = irq_count /\ irq_event_timestamp' = irq_event_timestamp
        /\ program' = program /\ seen' = seen /\ t_event' = irq_event_timestamp
    BY <1>14 DEF ReadStamp
  <2>3. irq_count \in seen..Len(times) /\ irq_count > 0
    BY <2>1
  <2>4. timer_irq_pending' = 1
          => Len(times') > 0 /\ timer_irq_event_count' = times'[Len(times')]
    BY <1>14, <2>1 DEF ReadStamp
  <2>5. Len(times') >= Len(times) /\ irq_event_timestamp = times'[irq_count]
    BY <1>14, <2>1, <2>3 DEF ReadStamp
  <2>6. \E i \in seen..Len(times') : t_event' = times'[i]
    BY <2>2, <2>3, <2>5
  <2>7. QED
    BY <2>1, <2>2, <2>4, <2>5, <2>6
<1>15. CASE Spend
  BY <1>15 DEF Spend
<1>16. CASE MeasureEvent
  <2>1. pc = "work" /\ pc' \in {"print", "wait", "stop"} /\ irq = "none"
    BY <1>16 DEF MeasureEvent
  <2>2. irq' = irq /\ irq_count' = irq_count /\ irq_event_timestamp' = irq_event_timestamp
        /\ program' = program
    BY <1>16 DEF MeasureEvent
  <2>3. timer_irq_pending' = 1
          => Len(times') > 0 /\ timer_irq_event_count' = times'[Len(times')]
    BY <1>16, <2>1 DEF MeasureEvent
  <2>4. irq_count > 0 => irq_event_timestamp = times'[irq_count]
    BY <1>16, <2>1 DEF MeasureEvent
  <2>5. QED
    BY <2>1, <2>2, <2>3, <2>4
<1>17. CASE print_event_line
  BY <1>17 DEF print_event_line
<1>18. CASE CollectSamples
  BY <1>18 DEF CollectSamples
<1>19. CASE Poll
  BY <1>19 DEF Poll
<1>20. CASE Detect
  BY <1>20 DEF Detect
<1>21. CASE ReadEventTime
  BY <1>21 DEF ReadEventTime
<1>22. CASE PollAck
  BY <1>22 DEF PollAck
<1>23. CASE PollUpdate
  BY <1>23 DEF PollUpdate, Measure, update_stats
<1>24. CASE Stop
  BY <1>24 DEF Stop
<1>25. CASE Mask
  BY <1>25 DEF Mask
<1>26. CASE Report
  BY <1>26 DEF Report
<1>27. CASE NextLevel
  BY <1>27 DEF NextLevel, NoSamples
<1>28. CASE UNCHANGED vars
  BY <1>28 DEF vars
<1>29. QED
  BY <1>1, <1>2, <1>3, <1>4, <1>5, <1>6, <1>7, <1>8, <1>9, <1>10, <1>11, <1>12,
     <1>13, <1>14, <1>15, <1>16, <1>17, <1>18, <1>19, <1>20, <1>21, <1>22, <1>23, <1>24,
     <1>25, <1>26, <1>27, <1>28
  DEF Next, Handler, Setup, Loop, Ending, Done

\* the countdown is not reloaded before an event is acknowledged
LEMMA IntervalPreserved ==
  IType /\ IPc /\ IIdle /\ IHandler /\ IInterval /\ [Next]_vars
    => IInterval'
<1> SUFFICES ASSUME IType, IPc, IIdle, IHandler, IInterval, [Next]_vars
             PROVE  IInterval'
  OBVIOUS
<1> USE ProgramsAssumption, SamplesAssumption, PeriodAssumption, DelayAssumption,
        ReportAssumption, WorkAssumption, LevelsAssumption, SMTT(30)
<1> USE DEF IType, IPc, IIdle, IHandler, IInterval,
        IdlePcs, CountPcs, PollPcs, EndPcs, Running, Uncounted, Main, Clock, Counts, Fires,
        Requested, Only, kept, timer, stamps, statistics, locals
<1>1. CASE IrqRequest
  BY <1>1 DEF IrqRequest
<1>2. CASE IrqCount
  BY <1>2 DEF IrqCount
<1>3. CASE IrqTimes
  BY <1>3 DEF IrqTimes, EventTime
<1>4. CASE IrqStats
  BY <1>4 DEF IrqStats, Measure, update_stats
<1>5. CASE IrqAck
  BY <1>5 DEF IrqAck
<1>6. CASE ResetCounts
  BY <1>6 DEF ResetCounts, NoSamples
<1>7. CASE Disable
  BY <1>7 DEF Disable
<1>8. CASE ClearPending
  BY <1>8 DEF ClearPending
<1>9. CASE SetPeriod
  BY <1>9 DEF SetPeriod
<1>10. CASE Unmask
  BY <1>10 DEF Unmask
<1>11. CASE Enable
  BY <1>11 DEF Enable
<1>12. CASE Wait
  BY <1>12 DEF Wait
<1>13. CASE ReadCount
  BY <1>13 DEF ReadCount, Skipped
<1>14. CASE ReadStamp
  BY <1>14 DEF ReadStamp
<1>15. CASE Spend
  BY <1>15 DEF Spend
<1>16. CASE MeasureEvent
  BY <1>16 DEF MeasureEvent, update_stats
<1>17. CASE print_event_line
  BY <1>17 DEF print_event_line
<1>18. CASE CollectSamples
  BY <1>18 DEF CollectSamples
<1>19. CASE Poll
  BY <1>19 DEF Poll
<1>20. CASE Detect
  BY <1>20 DEF Detect
<1>21. CASE ReadEventTime
  BY <1>21 DEF ReadEventTime
<1>22. CASE PollAck
  BY <1>22 DEF PollAck
<1>23. CASE PollUpdate
  BY <1>23 DEF PollUpdate, Measure, update_stats
<1>24. CASE Stop
  BY <1>24 DEF Stop
<1>25. CASE Mask
  BY <1>25 DEF Mask
<1>26. CASE Report
  BY <1>26 DEF Report
<1>27. CASE NextLevel
  BY <1>27 DEF NextLevel, NoSamples
<1>28. CASE UNCHANGED vars
  BY <1>28 DEF vars
<1>29. QED
  BY <1>1, <1>2, <1>3, <1>4, <1>5, <1>6, <1>7, <1>8, <1>9, <1>10, <1>11, <1>12,
     <1>13, <1>14, <1>15, <1>16, <1>17, <1>18, <1>19, <1>20, <1>21, <1>22, <1>23, <1>24,
     <1>25, <1>26, <1>27, <1>28
  DEF Next, Handler, Setup, Loop, Ending, Done

LEMMA InvariantInitially == Init => IInv
<1> SUFFICES ASSUME Init PROVE IInv
  OBVIOUS
<1> USE ProgramsAssumption, PeriodAssumption, DelayAssumption
<1> USE DEF Init, IdlePcs, CountPcs, PollPcs, EndPcs
<1>1. sample.samples = 0 /\ interval.samples = 0 /\ interval.min = 0
  BY NoSamplesFields
<1>2. IType
  BY <1>1 DEF IType
<1>3. IPc /\ IIdle /\ IHandler /\ ILate
  BY <1>1 DEF IPc, IIdle, IHandler, ILate
<1>4. ICount /\ ISeen /\ IStamp /\ IInterval
  BY <1>1 DEF ICount, ISeen, IStamp, IInterval, Running
<1>5. QED
  BY <1>2, <1>3, <1>4 DEF IInv

LEMMA InvariantPreserved == IInv /\ [Next]_vars => IInv'
  BY TypePreserved, ProgramCounterPreserved, IdlePreserved, HandlerPreserved,
     LateEventPreserved, CountPreserved, SeenPreserved, StampPreserved, IntervalPreserved
  DEF IInv

(***************************************************************************)
(* What follows for the programs.                                          *)
(***************************************************************************)
\* The invariant holds in every program, for any number of samples and levels.
THEOREM MonitorInvariant == Spec => []IInv
  BY InvariantInitially, InvariantPreserved, PTL DEF Spec

\* Every event since the timer was started is counted once, and main() reports
\* each one it was told of as measured or as missed, however long it works.
THEOREM MonitorEventsAccounted == Spec => []EventsAccounted
<1>1. IInv => EventsAccounted
  BY DEF IInv, IType, IPc, ICount, ISeen, EventsAccounted, CountPcs, PollPcs, EndPcs, Running
<1>2. QED
  BY <1>1, MonitorInvariant, PTL

\* The time stamp main() measures from is never that of an event older than the
\* one it counted, although it reads the two with interrupts on.
THEOREM MonitorStampNotOlder == Spec => []StampNotOlder
<1>1. IInv => StampNotOlder
  BY DEF IInv, IPc, IStamp, StampNotOlder, CountPcs, Running
<1>2. QED
  BY <1>1, MonitorInvariant, PTL

\* No interval is measured as short as the timer's period, in any program.
THEOREM MonitorIntervalsSpanPeriod == Spec => []IntervalsSpanPeriod
<1>1. IInv => IntervalsSpanPeriod
  BY DEF IInv, IInterval, IntervalsSpanPeriod
<1>2. QED
  BY <1>1, MonitorInvariant, PTL

\* Both: what the programs report of the times of the events is sound.
THEOREM MonitorTimesSound == Spec => []TimesSound
<1>1. StampNotOlder /\ IntervalsSpanPeriod => TimesSound
  BY DEF TimesSound
<1>2. QED
  BY <1>1, MonitorStampNotOlder, MonitorIntervalsSpanPeriod, PTL
=============================================================================
