------------------------ MODULE InputPipelineProofs -------------------------
(***************************************************************************)
(* AuthoritativeLoop and InputPipeline for any number of players, any      *)
(* capacity, tick rate, cadence and window.                                *)
(*                                                                         *)
(* First the loop alone: the input queues stay ordered, bounded and        *)
(* correctly counted, and the tick schedule never leaves its grid.  Then   *)
(* the pipeline, which uses the loop only by its own operations, so that   *)
(* all that is proved of the loop holds in it.  On top of that, what the   *)
(* client replays is exact, its inputs are always heard and the            *)
(* acknowledgements come in order, by one inductive invariant that relates *)
(* the client, the packets both ways, the queue and the motion state of    *)
(* one player.  Last the telemetry of the loop, which shares no state with *)
(* it: what a report tells is what its ticks and packets were, for any     *)
(* length of a window, thresholds and percentile.                          *)
(***************************************************************************)
EXTENDS InputPipeline, RuntimeTelemetry, FiniteSetTheorems, WellFoundedInduction, TLAPS

USE LoopAssumption

\* The pending inputs are finitely many.
LEMMA PendingFinite == IsFiniteSet(PendingInputs)
<1>1. IsFiniteSet(Players) /\ IsFiniteSet(InputSeqs)
  BY FS_Interval DEF Players, InputSeqs
<1>2. IsFiniteSet(Players \X InputSeqs)
  BY <1>1, FS_Product
<1> QED
  BY <1>2, FS_Subset DEF PendingInputs

\* The numbers up to n are n numbers.
LEMMA IntervalCount ==
  ASSUME NEW n \in Nat
  PROVE  IsFiniteSet(1 .. n) /\ Cardinality(1 .. n) = n
<1>1. IsFiniteSet(1 .. n) /\ Cardinality(1 .. n) = IF 1 > n THEN 0 ELSE n - 1 + 1
  BY FS_Interval
<1> QED
  BY <1>1

\* Appending adds one element to the range of a sequence.
LEMMA RangeOfAppend ==
  ASSUME NEW T, NEW queue \in Seq(T), NEW e \in T
  PROVE  Range(Append(queue, e)) = Range(queue) \cup {e}
<1> DEFINE longer == Append(queue, e)
<1>1. DOMAIN longer = 1 .. Len(queue) + 1 /\ DOMAIN queue = 1 .. Len(queue)
  OBVIOUS
<1>2. Len(queue) \in Nat
  OBVIOUS
<1>3. \A i \in 1 .. Len(queue) : longer[i] = queue[i]
  OBVIOUS
<1>4. longer[Len(queue) + 1] = e
  OBVIOUS
<1>5. 1 .. Len(queue) + 1 = 1 .. Len(queue) \cup {Len(queue) + 1}
  BY <1>2
<1> HIDE DEF longer
<1>6. Range(longer) = Range(queue) \cup {e}
  BY <1>1, <1>3, <1>4, <1>5 DEF Range
<1> QED
  BY <1>6 DEF longer

\* A strictly increasing queue holds as many different inputs as it is long.
LEMMA QueueCount ==
  ASSUME NEW queue \in Seq(InputSeqs), NEW player,
         \A i, j \in 1 .. Len(queue) : i < j => queue[i] < queue[j]
  PROVE  Cardinality({<<player, seq>> : seq \in Range(queue)}) = Len(queue)
<1> DEFINE S == {<<player, seq>> : seq \in Range(queue)}
           f == [i \in 1 .. Len(queue) |-> <<player, queue[i]>>]
<1>1. f \in Bijection(1 .. Len(queue), S)
  <2>1. f \in [1 .. Len(queue) -> S]
    BY DEF Range
  <2>2. \A i, j \in 1 .. Len(queue) : f[i] = f[j] => i = j
    BY DEF InputSeqs
  <2>3. \A x \in S : \E i \in 1 .. Len(queue) : f[i] = x
    BY DEF Range
  <2>4. f \in Injection(1 .. Len(queue), S)
    BY <2>1, <2>2 DEF Injection, IsInjective
  <2> QED
    BY <2>1, <2>3, <2>4 DEF Bijection, Surjection
<1>2. Len(queue) \in Nat
  OBVIOUS
<1>3. IsFiniteSet(1 .. Len(queue)) /\ Cardinality(1 .. Len(queue)) = Len(queue)
  BY <1>2, IntervalCount
<1>4. ExistsBijection(1 .. Len(queue), S)
  BY <1>1 DEF ExistsBijection
<1> QED
  BY <1>3, <1>4, FS_Bijection

\* Everything a player has queued came no later than the last input accepted.
LEMMA QueueBelowLast ==
  ASSUME TypeOK, QueuesOrdered, NEW p \in Players,
         NEW i \in 1 .. Len(input_queues_by_player[p])
  PROVE  /\ p \in DOMAIN last_input_seq_by_player
         /\ input_queues_by_player[p][i] <= last_input_seq_by_player[p]
<1> DEFINE queue == input_queues_by_player[p]
<1>1. queue \in Seq(InputSeqs) /\ queue # <<>>
  BY DEF TypeOK
<1>2. Len(queue) \in 1 .. Len(queue) /\ i <= Len(queue)
  BY <1>1
<1>3. queue[i] <= queue[Len(queue)]
  <2>1. queue[i] \in Int /\ queue[Len(queue)] \in Int
    BY <1>1, <1>2 DEF InputSeqs
  <2>2. i = Len(queue) \/ i < Len(queue)
    BY <1>1, <1>2
  <2> QED
    BY <1>2, <2>1, <2>2 DEF QueuesOrdered
<1> QED
  BY <1>1, <1>3 DEF QueuesOrdered, Last

\* An accepted input joins the end of its queue and is counted once.
LEMMA AcceptKeepsQueueInv ==
  ASSUME QueueInv, NEW player \in Players, NEW seq \in InputSeqs,
         InputAccepted(player, seq)
  PROVE  QueueInv'
<1> DEFINE queue == input_queues_by_player[player]
<1>1. queue \in Seq(InputSeqs)
  BY DEF QueueInv, TypeOK
<1>2. \A i \in 1 .. Len(queue) : queue[i] < seq
  <2> SUFFICES ASSUME NEW i \in 1 .. Len(queue) PROVE queue[i] < seq
    OBVIOUS
  <2>1. /\ player \in DOMAIN last_input_seq_by_player
        /\ queue[i] <= last_input_seq_by_player[player]
    BY QueueBelowLast DEF QueueInv
  <2>2. last_input_seq_by_player[player] < seq
    BY <2>1 DEF QueueInv, TypeOK, InputAccepted, OutOfOrder, InputSeqs
  <2>3. queue[i] \in Int /\ last_input_seq_by_player[player] \in Int /\ seq \in Int
    <3>1. InputSeqs \subseteq Int
      BY DEF InputSeqs
    <3>2. queue[i] \in InputSeqs
      BY <1>1
    <3>3. last_input_seq_by_player[player] \in InputSeqs
      BY <2>1 DEF QueueInv, TypeOK
    <3> QED
      BY <3>1, <3>2, <3>3
  <2> QED
    BY <2>1, <2>2, <2>3
<1>3. TypeOK'
  BY <1>1 DEF QueueInv, TypeOK, InputAccepted, Put, clock_vars
<1>4. QueuesOrdered'
  <2> SUFFICES ASSUME NEW p \in Players
               PROVE  LET new == input_queues_by_player'[p]
                      IN  /\ \A i, j \in 1 .. Len(new) : i < j => new[i] < new[j]
                          /\ new # <<>> =>
                               /\ p \in DOMAIN last_input_seq_by_player'
                               /\ Last(new) = last_input_seq_by_player'[p]
    BY DEF QueuesOrdered
  <2>1. CASE p = player
    <3>1. input_queues_by_player'[p] = Append(queue, seq)
      BY <2>1 DEF InputAccepted, QueueInv, TypeOK
    <3>2. \A i, j \in 1 .. Len(Append(queue, seq)) :
            i < j => Append(queue, seq)[i] < Append(queue, seq)[j]
      BY <1>1, <1>2, <2>1 DEF QueueInv, QueuesOrdered
    <3>3. Last(Append(queue, seq)) = seq
      BY <1>1 DEF Last
    <3>4. /\ p \in DOMAIN last_input_seq_by_player'
          /\ last_input_seq_by_player'[p] = seq
      BY <2>1 DEF InputAccepted, Put
    <3> QED
      BY <3>1, <3>2, <3>3, <3>4
  <2>2. CASE p # player
    BY <2>2 DEF InputAccepted, QueueInv, TypeOK, QueuesOrdered, Put
  <2> QED
    BY <2>1, <2>2
<1>5. PendingInputs' = PendingInputs \cup {<<player, seq>>}
  <2>1. Range(Append(queue, seq)) = Range(queue) \cup {seq}
    BY <1>1, RangeOfAppend
  <2>2. \A p \in Players :
          Range(input_queues_by_player'[p]) =
            IF p = player THEN Range(queue) \cup {seq}
            ELSE Range(input_queues_by_player[p])
    BY <2>1 DEF InputAccepted, QueueInv, TypeOK
  <2> QED
    BY <2>2 DEF PendingInputs
<1>6. <<player, seq>> \notin PendingInputs
  <2>1. seq \notin Range(queue)
    BY <1>1, <1>2 DEF Range, InputSeqs
  <2> QED
    BY <2>1 DEF PendingInputs
<1>7. PendingCountExact'
  BY <1>5, <1>6, PendingFinite, FS_AddElement
     DEF QueueInv, PendingCountExact, InputAccepted
<1>8. QueueBounded'
  BY DEF QueueInv, TypeOK, QueueBounded, InputAccepted, HasRoom
<1> QED
  BY <1>3, <1>4, <1>7, <1>8 DEF QueueInv

\* A player who leaves takes exactly its own inputs off the count.
LEMMA ClearKeepsQueueInv ==
  ASSUME QueueInv, NEW player \in Players, ClearPlayer(player)
  PROVE  QueueInv'
<1> DEFINE queue == input_queues_by_player[player]
           own == {<<player, seq>> : seq \in Range(queue)}
<1>1. queue \in Seq(InputSeqs) /\ Len(queue) \in Nat
  BY DEF QueueInv, TypeOK
<1>2. Cardinality(own) = Len(queue)
  BY <1>1, QueueCount DEF QueueInv, QueuesOrdered
<1>3. own \subseteq PendingInputs
  BY <1>1 DEF PendingInputs, Range
<1>4. PendingInputs' = PendingInputs \ own
  <2>1. \A p \in Players :
          input_queues_by_player'[p] =
            IF p = player THEN <<>> ELSE input_queues_by_player[p]
    BY DEF ClearPlayer, QueueInv, TypeOK
  <2>2. Range(<<>>) = {}
    BY DEF Range
  <2> QED
    BY <2>1, <2>2 DEF PendingInputs
<1>5. Cardinality(PendingInputs') = Cardinality(PendingInputs) - Len(queue)
  <2>1. PendingInputs \cap own = own
    BY <1>3
  <2>2. Cardinality(PendingInputs \ own)
          = Cardinality(PendingInputs) - Cardinality(PendingInputs \cap own)
    BY PendingFinite, FS_Difference
  <2> QED
    BY <1>2, <1>4, <2>1, <2>2
<1>6. Cardinality(PendingInputs') \in Nat
  <2>1. IsFiniteSet(PendingInputs')
    BY <1>4, PendingFinite, FS_Difference
  <2> QED
    BY <2>1, FS_CardinalityType
<1>7. pending_input_count' = Cardinality(PendingInputs')
  BY <1>5 DEF QueueInv, PendingCountExact, ClearPlayer
<1>8. TypeOK'
  BY <1>6, <1>7 DEF QueueInv, TypeOK, ClearPlayer, Erase, clock_vars
<1>9. QueuesOrdered'
  BY DEF QueueInv, TypeOK, QueuesOrdered, ClearPlayer, Erase
<1>10. QueueBounded'
  BY <1>1 DEF QueueInv, TypeOK, QueueBounded, ClearPlayer
<1> QED
  BY <1>7, <1>8, <1>9, <1>10 DEF QueueInv, PendingCountExact

\* A tick empties the queues and the count together.
LEMMA AdvanceKeepsQueueInv ==
  ASSUME QueueInv, Advance, DueTicks \in Nat, NextDeadline \in Nat
  PROVE  QueueInv'
<1>1. tick_counter' \in Nat /\ next_tick_deadline' \in Nat
  BY DEF QueueInv, TypeOK, Advance
<1>2. CASE DueTicks = 0
  BY <1>1, <1>2
     DEF QueueInv, TypeOK, QueuesOrdered, PendingCountExact, PendingInputs,
         QueueBounded, Advance, queue_vars
<1>3. CASE DueTicks # 0
  <2>1. /\ input_queues_by_player' = [p \in Players |-> <<>>]
        /\ pending_input_count' = 0
        /\ UNCHANGED <<last_input_seq_by_player, now>>
    BY <1>3 DEF Advance
  <2>2. TypeOK'
    BY <1>1, <2>1 DEF QueueInv, TypeOK
  <2>3. QueuesOrdered'
    BY <2>1 DEF QueuesOrdered
  <2>4. PendingCountExact'
    <3>1. PendingInputs' = {}
      BY <2>1 DEF PendingInputs, Range
    <3> QED
      BY <2>1, <3>1, FS_EmptySet DEF PendingCountExact
  <2>5. QueueBounded'
    BY <2>1 DEF QueueBounded
  <2> QED
    BY <2>2, <2>3, <2>4, <2>5 DEF QueueInv
<1> QED
  BY <1>2, <1>3

-----------------------------------------------------------------------------
(* The tick schedule *)

\* The quotient brackets the dividend.
LEMMA DivisionBrackets ==
  ASSUME NEW a \in Nat, NEW b \in Nat \ {0}
  PROVE  a \div b \in Nat /\ b * (a \div b) <= a /\ a < b * (a \div b) + b
  BY SMTT(30)

\* Products of naturals are naturals.
LEMMA ProductOfNaturals ==
  ASSUME NEW a \in Nat, NEW b \in Nat
  PROVE  a * b \in Nat
  BY SMTT(30)

\* How many ticks are due, and where they leave the clock: the next deadline is
\* the first one past it.
LEMMA DueTicksExact ==
  ASSUME TypeOK
  PROVE  /\ DueTicks \in Nat
         /\ now < next_tick_deadline + DueTicks * TickInterval
         /\ DueTicks > 0 =>
              next_tick_deadline + (DueTicks - 1) * TickInterval <= now
<1>1. CASE now < next_tick_deadline
  BY <1>1 DEF TypeOK, DueTicks
<1>2. CASE ~(now < next_tick_deadline)
  <2> DEFINE late == now - next_tick_deadline
             q == late \div TickInterval
  <2>1. late \in Nat
    BY <1>2 DEF TypeOK
  <2>2. /\ q \in Nat
        /\ TickInterval * q <= late
        /\ late < TickInterval * q + TickInterval
    BY <2>1, DivisionBrackets, LoopAssumption
  <2>3. DueTicks = q + 1
    BY <1>2 DEF DueTicks
  <2> HIDE DEF q
  <2>4. /\ (q + 1) * TickInterval = TickInterval * q + TickInterval
        /\ (q + 1 - 1) * TickInterval = TickInterval * q
    BY <2>2, LoopAssumption
  <2> DEFINE whole == TickInterval * q
  <2>5. whole \in Nat
    BY <2>2, ProductOfNaturals, LoopAssumption
  <2>6. /\ DueTicks \in Nat
        /\ DueTicks * TickInterval = whole + TickInterval
        /\ (DueTicks - 1) * TickInterval = whole
    BY <2>2, <2>3, <2>4
  <2>7. whole <= late /\ late < whole + TickInterval
    BY <2>2
  <2> HIDE DEF whole
  <2>8. now = next_tick_deadline + late
    BY DEF TypeOK
  <2> HIDE DEF late
  <2> DEFINE due == DueTicks * TickInterval
             last == (DueTicks - 1) * TickInterval
  <2>9. due = whole + TickInterval /\ last = whole
    BY <2>6
  <2> HIDE DEF due, last
  <2>10. now < next_tick_deadline + due /\ next_tick_deadline + last <= now
    BY <2>1, <2>5, <2>7, <2>8, <2>9, LoopAssumption DEF TypeOK
  <2> QED
    BY <2>6, <2>10 DEF due, last
<1> QED
  BY <1>1, <1>2

\* Running the due ticks keeps the deadlines on the grid.
LEMMA AdvanceStaysOnGrid ==
  ASSUME TypeOK, TicksOnGrid, Advance
  PROVE  TicksOnGrid'
<1>1. /\ DueTicks \in Nat
      /\ DueTicks > 0 => next_tick_deadline + (DueTicks - 1) * TickInterval <= now
  BY DueTicksExact
<1>2. /\ tick_counter' = tick_counter + DueTicks
      /\ next_tick_deadline' = next_tick_deadline + DueTicks * TickInterval
      /\ now' = now
  BY DEF Advance, NextDeadline
<1>3. /\ next_tick_deadline = (tick_counter + 1) * TickInterval
      /\ tick_counter * TickInterval <= now
  BY DEF TicksOnGrid
<1> DEFINE d == DueTicks
<1>4. tick_counter \in Nat /\ next_tick_deadline \in Nat /\ now \in Nat
  BY DEF TypeOK
<1> HIDE DEF d
<1>5. (tick_counter + 1) * TickInterval + d * TickInterval
        = (tick_counter + d + 1) * TickInterval
  BY <1>1, <1>4 DEF d
<1>6. (tick_counter + 1) * TickInterval + (d - 1) * TickInterval
        = (tick_counter + d) * TickInterval
  BY <1>1, <1>4 DEF d
<1>7. next_tick_deadline' = (tick_counter' + 1) * TickInterval
  BY <1>1, <1>2, <1>3, <1>4, <1>5 DEF d
<1>8. tick_counter' * TickInterval <= now'
  <2>1. CASE d = 0
    BY <1>2, <1>3, <1>4, <2>1 DEF d
  <2>2. CASE d > 0
    BY <1>1, <1>2, <1>3, <1>4, <1>6, <2>2 DEF d
  <2> QED
    BY <1>1, <2>1, <2>2 DEF d
<1> QED
  BY <1>7, <1>8 DEF TicksOnGrid

-----------------------------------------------------------------------------

LEMMA QueueInvInitially == Init => QueueInv /\ TicksOnGrid
<1> SUFFICES ASSUME Init PROVE QueueInv /\ TicksOnGrid
  OBVIOUS
<1>1. TypeOK
  BY DEF Init, TypeOK, EmptyMap
<1>2. QueuesOrdered
  BY DEF Init, QueuesOrdered
<1>3. PendingCountExact
  <2>1. PendingInputs = {}
    BY DEF Init, PendingInputs, Range
  <2> QED
    BY <2>1, FS_EmptySet DEF Init, PendingCountExact
<1>4. QueueBounded
  BY DEF Init, QueueBounded
<1>5. TicksOnGrid
  BY DEF Init, TicksOnGrid
<1> QED
  BY <1>1, <1>2, <1>3, <1>4, <1>5 DEF QueueInv

LEMMA QueueInvInductive ==
  QueueInv /\ TicksOnGrid /\ [Next]_vars => QueueInv' /\ TicksOnGrid'
<1> SUFFICES ASSUME QueueInv, TicksOnGrid, [Next]_vars
             PROVE  QueueInv' /\ TicksOnGrid'
  OBVIOUS
<1>1. ASSUME NEW player \in Players, NEW seq \in InputSeqs,
             InputAccepted(player, seq)
      PROVE  QueueInv' /\ TicksOnGrid'
  BY <1>1, AcceptKeepsQueueInv DEF InputAccepted, clock_vars, TicksOnGrid
<1>2. ASSUME NEW player \in Players, ClearPlayer(player)
      PROVE  QueueInv' /\ TicksOnGrid'
  BY <1>2, ClearKeepsQueueInv DEF ClearPlayer, clock_vars, TicksOnGrid
<1>3. ASSUME Advance
      PROVE  QueueInv' /\ TicksOnGrid'
  <2>1. DueTicks \in Nat
    BY DueTicksExact DEF QueueInv
  <2>2. NextDeadline \in Nat
    <3>1. DueTicks * TickInterval \in Nat
      BY <2>1, ProductOfNaturals, LoopAssumption
    <3> QED
      BY <3>1 DEF NextDeadline, QueueInv, TypeOK
  <2> QED
    BY <1>3, <2>1, <2>2, AdvanceKeepsQueueInv, AdvanceStaysOnGrid DEF QueueInv
<1>4. ASSUME ClockAdvances
      PROVE  QueueInv' /\ TicksOnGrid'
  <2>1. now' \in Nat /\ now' > now /\ UNCHANGED <<clock_vars, queue_vars>>
    BY <1>4 DEF ClockAdvances, QueueInv, TypeOK
  <2>2. TicksOnGrid'
    BY <2>1 DEF TicksOnGrid, clock_vars, QueueInv, TypeOK
  <2>3. QueueInv'
    BY <2>1 DEF QueueInv, TypeOK, QueuesOrdered, PendingCountExact, PendingInputs,
                QueueBounded, clock_vars, queue_vars
  <2> QED
    BY <2>2, <2>3
<1>5. ASSUME UNCHANGED vars
      PROVE  QueueInv' /\ TicksOnGrid'
  BY <1>5 DEF vars, QueueInv, TypeOK, QueuesOrdered, PendingCountExact,
              PendingInputs, QueueBounded, TicksOnGrid, clock_vars, queue_vars
<1> QED
  BY <1>1, <1>2, <1>3, <1>4, <1>5 DEF Next, InputDropped

\* The queues and the schedule keep their invariants for ever.
THEOREM LoopInvariant == Spec => []LoopInv
<1>1. LoopInv <=> QueueInv /\ TicksOnGrid
  BY DEF LoopInv
<1> QED
  BY <1>1, QueueInvInitially, QueueInvInductive, PTL DEF Spec

\* The variables of the loop always have their types; the count of pending
\* inputs, which the code keeps in an unsigned integer, never goes below zero.
THEOREM LoopTypes == Spec => []TypeOK
<1>1. LoopInv => TypeOK
  BY DEF LoopInv, QueueInv
<1> QED
  BY <1>1, LoopInvariant, PTL

\* No player ever has the same or an older input queued behind a newer one.
THEOREM InputsStayOrdered == Spec => []QueuesOrdered
<1>1. LoopInv => QueuesOrdered
  BY DEF LoopInv, QueueInv
<1> QED
  BY <1>1, LoopInvariant, PTL

\* The hand-kept count is the number of queued inputs.
THEOREM CountStaysExact == Spec => []PendingCountExact
<1>1. LoopInv => PendingCountExact
  BY DEF LoopInv, QueueInv
<1> QED
  BY <1>1, LoopInvariant, PTL

\* The queues never hold more than the configured capacity.
THEOREM QueuesStayBounded == Spec => []QueueBounded
<1>1. LoopInv => QueueBounded
  BY DEF LoopInv, QueueInv
<1> QED
  BY <1>1, LoopInvariant, PTL

\* Ticks are neither skipped, repeated nor early.
THEOREM ScheduleStaysOnGrid == Spec => []TicksOnGrid
<1>1. LoopInv => TicksOnGrid
  BY DEF LoopInv
<1> QED
  BY <1>1, LoopInvariant, PTL

\* Every call of advance that runs ticks runs all of the due ones, numbered
\* without a gap.
THEOREM AdvanceAlwaysCatchesUp == Spec => AdvanceCatchesUp
<1> DEFINE CatchesUp ==
      tick_counter' # tick_counter =>
        /\ now < next_tick_deadline'
        /\ Len(frames') = tick_counter' - tick_counter
        /\ \A i \in DOMAIN frames' : frames'[i].tick = tick_counter + i
<1>1. LoopInv /\ [Next]_vars => [CatchesUp]_vars
  <2> SUFFICES ASSUME LoopInv, Advance PROVE CatchesUp
    BY DEF Next, InputAccepted, InputDropped, ClearPlayer, ClockAdvances,
           clock_vars, vars
  <2>1. DueTicks \in Nat /\ now < next_tick_deadline'
    BY DueTicksExact DEF LoopInv, QueueInv, Advance, NextDeadline
  <2>2. tick_counter' - tick_counter = DueTicks
    BY <2>1 DEF Advance, LoopInv, QueueInv, TypeOK
  <2>3. Len(frames') = DueTicks
    BY <2>1 DEF Advance
  <2>4. \A i \in DOMAIN frames' : frames'[i].tick = tick_counter + i
    BY DEF Advance, Frame
  <2> QED
    BY <2>1, <2>2, <2>3, <2>4
<1> QED
  BY <1>1, LoopInvariant, PTL DEF Spec, AdvanceCatchesUp
-----------------------------------------------------------------------------
(* The pipeline uses the loop *)

USE PipelineAssumption

\* What the client numbers and sends are sequence numbers.
Numbered == next_input_seq \in Nat /\ outbox \in Seq(InputSeqs)

\* Numbers grow by one up to the last one sent, or start again at 1.
LEMMA NumberedInductive ==
  Numbered /\ [PipelineNext]_pipeline_vars => Numbered'
<1> SUFFICES ASSUME Numbered, [PipelineNext]_pipeline_vars PROVE Numbered'
  OBVIOUS
<1> USE DEF Numbered
<1>1. CASE QueueLocalInput
  <2>1. next_input_seq \in InputSeqs
    BY <1>1 DEF QueueLocalInput, InputSeqs
  <2> QED
    BY <1>1, <2>1 DEF QueueLocalInput
<1>2. CASE Receive
  <2>1. UNCHANGED outbox
    BY <1>2 DEF Receive
  <2>2. ResetReconciler \/ \E ack : Reconcile(ack)
    BY <1>2 DEF Receive
  <2>3. next_input_seq' = 1 \/ next_input_seq' = next_input_seq
    <3>1. \A ack : Reconcile(ack) => next_input_seq' = next_input_seq
      BY DEF Reconcile
    <3>2. ResetReconciler => next_input_seq' = 1
      BY DEF ResetReconciler
    <3> QED
      BY <2>2, <3>1, <3>2
  <2> QED
    BY <2>1, <2>3
<1>3. CASE Quit
  BY <1>3 DEF Quit
<1>4. CASE Join
  BY <1>4 DEF Join, reconciler_vars
<1>5. CASE DeliverInput
  BY <1>5 DEF DeliverInput, client_vars, reconciler_vars
<1>6. ASSUME NEW p \in Strangers, NEW seq \in InputSeqs, StrangerInput(p, seq)
      PROVE  Numbered'
  BY <1>6 DEF StrangerInput, client_vars, reconciler_vars
<1>7. CASE EndSession
  BY <1>7 DEF EndSession, client_vars, reconciler_vars
<1>8. ASSUME NEW p \in Strangers, StrangerReplaced(p)
      PROVE  Numbered'
  BY <1>8 DEF StrangerReplaced, client_vars, reconciler_vars
<1>9. CASE RunTicks
  BY <1>9 DEF RunTicks, client_vars, reconciler_vars
<1>10. CASE TimePasses
  BY <1>10 DEF TimePasses, client_vars, reconciler_vars
<1>11. CASE UNCHANGED pipeline_vars
  BY <1>11 DEF pipeline_vars, client_vars, reconciler_vars
<1> QED
  BY <1>1, <1>2, <1>3, <1>4, <1>5, <1>6, <1>7, <1>8, <1>9, <1>10, <1>11
     DEF PipelineNext

\* Every step of the pipeline is one of the loop's own, or leaves it alone.
LEMMA PipelineStepIsLoopStep ==
  Numbered /\ [PipelineNext]_pipeline_vars => [Next]_vars
<1> SUFFICES ASSUME Numbered, [PipelineNext]_pipeline_vars PROVE [Next]_vars
  OBVIOUS
<1>1. CASE QueueLocalInput \/ Receive \/ Quit \/ Join
  BY <1>1 DEF QueueLocalInput, Receive, Quit, Join
<1>2. CASE DeliverInput
  <2>1. Head(outbox) \in InputSeqs
    BY <1>2 DEF DeliverInput, Numbered
  <2> QED
    BY <1>2, <2>1 DEF DeliverInput, Next
<1>3. ASSUME NEW p \in Strangers, NEW seq \in InputSeqs, StrangerInput(p, seq)
      PROVE  [Next]_vars
  BY <1>3 DEF StrangerInput, Next, Strangers
<1>4. CASE EndSession
  BY <1>4 DEF EndSession, Next
<1>5. ASSUME NEW p \in Strangers, StrangerReplaced(p)
      PROVE  [Next]_vars
  BY <1>5 DEF StrangerReplaced, Next, Strangers
<1>6. CASE RunTicks
  BY <1>6 DEF RunTicks, Next
<1>7. CASE TimePasses
  BY <1>7 DEF TimePasses, Next
<1>8. CASE UNCHANGED pipeline_vars
  BY <1>8 DEF pipeline_vars
<1> QED
  BY <1>1, <1>2, <1>3, <1>4, <1>5, <1>6, <1>7, <1>8 DEF PipelineNext

\* What goes on at the server's queues and schedule while clients come, predict,
\* send, leave and come back is a behaviour of AuthoritativeLoop alone.
THEOREM PipelineUsesLoop == PipelineSpec => Spec
<1>1. PipelineInit => Init /\ Numbered
  BY DEF PipelineInit, Numbered
<1>2. PipelineSpec => []Numbered
  BY <1>1, NumberedInductive, PTL DEF PipelineSpec
<1> QED
  BY <1>1, <1>2, PipelineStepIsLoopStep, PTL DEF PipelineSpec, Spec

\* Queues, count and schedule keep their invariant under every client.
THEOREM PipelineKeepsLoopInv == PipelineSpec => []LoopInv
BY PipelineUsesLoop, LoopInvariant, PTL

\* No tick is skipped, repeated or early, whatever the clients do.
THEOREM PipelineCatchesUp == PipelineSpec => AdvanceCatchesUp
BY PipelineUsesLoop, AdvanceAlwaysCatchesUp, PTL
-----------------------------------------------------------------------------
(* What a tick drains *)

\* A set of natural numbers has a least one: of the intervals 1 .. n that its
\* numbers bound, one contains no other.
LEMMA LeastNumber ==
  ASSUME NEW T, T \subseteq Nat, T # {}
  PROVE  \E n \in T : \A m \in T : n <= m
<1> DEFINE R == StrictSubsetOrdering(Nat)
           below == {1 .. n : n \in T}
<1>1. IsWellFoundedOn(R, FiniteSubsetsOf(Nat))
  BY FS_StrictSubsetOrderingWellFounded
<1>2. below \subseteq FiniteSubsetsOf(Nat)
  <2> SUFFICES ASSUME NEW n \in T PROVE 1 .. n \in FiniteSubsetsOf(Nat)
    OBVIOUS
  <2>1. IsFiniteSet(1 .. n)
    BY FS_Interval
  <2> QED
    BY <2>1 DEF FiniteSubsetsOf
<1>3. below # {}
  OBVIOUS
<1> HIDE DEF below, R
<1>4. PICK x \in below : \A y \in below : ~(<<y, x>> \in R)
  BY <1>1, <1>2, <1>3, WFMin
<1>5. PICK n \in T : x = 1 .. n
  BY DEF below
<1>6. ASSUME NEW m \in T PROVE n <= m
  <2> SUFFICES ASSUME m < n PROVE FALSE
    OBVIOUS
  <2>1. 1 .. m \in below
    BY DEF below
  <2>2. 1 .. m \in SUBSET Nat /\ 1 .. n \in SUBSET Nat
    OBVIOUS
  <2>3. 1 .. m \subseteq 1 .. n /\ n \in 1 .. n /\ n \notin 1 .. m
    OBVIOUS
  <2>4. 1 .. m # 1 .. n
    BY <2>3
  <2>5. <<1 .. m, 1 .. n>> \in R
    BY <2>2, <2>3, <2>4 DEF R, StrictSubsetOrdering
  <2> QED
    BY <1>4, <1>5, <2>1, <2>5
<1> QED
  BY <1>6

\* A set with 0, and with n + 1 whenever with n, has every number.
LEMMA Induction ==
  ASSUME NEW S, 0 \in S, \A n \in Nat : n \in S => n + 1 \in S
  PROVE  Nat \subseteq S
<1> SUFFICES ASSUME Nat \ S # {} PROVE FALSE
  OBVIOUS
<1>1. PICK n \in Nat \ S : \A m \in Nat \ S : n <= m
  BY LeastNumber
<1>2. n - 1 \in Nat /\ n - 1 \in S
  BY <1>1
<1> QED
  BY <1>1, <1>2

\* The sequences glued together, up to each of them.
IsFlattened(f, seqs, n) ==
  f = [i \in 1 .. n |-> IF i = 1 THEN seqs[i] ELSE f[i - 1] \o seqs[i]]

LEMMA FlattenedExists ==
  ASSUME NEW seqs, NEW n \in Nat
  PROVE  \E f : IsFlattened(f, seqs, n)
<1> DEFINE S == {k \in Nat : \E f : IsFlattened(f, seqs, k)}
<1>1. 0 \in S
  <2>1. IsFlattened([i \in 1 .. 0 |-> seqs[i]], seqs, 0)
    BY DEF IsFlattened
  <2> QED
    BY <2>1
<1>2. ASSUME NEW k \in Nat, k \in S PROVE k + 1 \in S
  <2>1. PICK f : IsFlattened(f, seqs, k)
    BY <1>2
  <2> DEFINE longer == IF k = 0 THEN seqs[1] ELSE f[k] \o seqs[k + 1]
             g == [i \in 1 .. k + 1 |-> IF i <= k THEN f[i] ELSE longer]
  <2> HIDE DEF longer
  <2>2. ASSUME NEW i \in 1 .. k + 1
        PROVE  g[i] = IF i = 1 THEN seqs[i] ELSE g[i - 1] \o seqs[i]
    <3>1. CASE i = k + 1
      <4>1. CASE k = 0
        BY <3>1, <4>1 DEF longer
      <4>2. CASE k # 0
        <5>1. g[i] = longer /\ g[i - 1] = f[k] /\ i # 1
          BY <3>1, <4>2
        <5>2. longer = f[k] \o seqs[i]
          BY <3>1, <4>2 DEF longer
        <5> QED
          BY <5>1, <5>2
      <4> QED
        BY <4>1, <4>2
    <3>2. CASE i <= k
      <4>1. i \in 1 .. k
        BY <3>2
      <4>2. f[i] = IF i = 1 THEN seqs[i] ELSE f[i - 1] \o seqs[i]
        BY <2>1, <4>1 DEF IsFlattened
      <4>3. g[i] = f[i] /\ (i # 1 => g[i - 1] = f[i - 1])
        BY <4>1
      <4> HIDE DEF g
      <4> QED
        BY <4>2, <4>3
    <3> QED
      BY <3>1, <3>2
  <2>3. g = [i \in 1 .. k + 1 |-> g[i]]
    OBVIOUS
  <2> HIDE DEF g
  <2>4. IsFlattened(g, seqs, k + 1)
    BY <2>2, <2>3 DEF IsFlattened
  <2> QED
    BY <2>4
<1> HIDE DEF S
<1>3. n \in S
  BY <1>1, <1>2, Induction
<1> QED
  BY <1>3 DEF S

\* Gluing sequences of a kind gives a sequence of that kind.
LEMMA FlattenedTyped ==
  ASSUME NEW T, NEW seqs \in Seq(Seq(T))
  PROVE  FlattenSeq(seqs) \in Seq(T)
<1> DEFINE n == Len(seqs)
           flatten == CHOOSE f : IsFlattened(f, seqs, n)
<1>1. n \in Nat /\ DOMAIN seqs = 1 .. n /\ \A i \in 1 .. n : seqs[i] \in Seq(T)
  OBVIOUS
<1>2. CASE n = 0
  <2>1. FlattenSeq(seqs) = seqs
    BY <1>2 DEF FlattenSeq
  <2>2. seqs = <<>> /\ <<>> \in Seq(T)
    BY <1>2
  <2> QED
    BY <2>1, <2>2
<1>3. CASE n # 0
  <2>1. FlattenSeq(seqs) = flatten[n]
    BY <1>3 DEF FlattenSeq, IsFlattened
  <2>2. IsFlattened(flatten, seqs, n)
    BY <1>1, FlattenedExists
  <2> HIDE DEF flatten, n
  <2> DEFINE S == {k \in Nat : k \in 1 .. n => flatten[k] \in Seq(T)}
  <2>3. 0 \in S
    OBVIOUS
  <2>4. ASSUME NEW k \in Nat, k \in S PROVE k + 1 \in S
    <3> SUFFICES ASSUME k + 1 \in 1 .. n PROVE flatten[k + 1] \in Seq(T)
      OBVIOUS
    <3>1. \A i \in 1 .. n : flatten[i] = IF i = 1 THEN seqs[i]
                                        ELSE flatten[i - 1] \o seqs[i]
      BY <2>2 DEF IsFlattened
    <3>2. seqs[k + 1] \in Seq(T)
      BY <1>1
    <3>3. CASE k = 0
      BY <3>1, <3>2, <3>3
    <3>4. CASE k # 0
      <4>1. flatten[k] \in Seq(T)
        BY <1>1, <2>4, <3>4
      <4>2. (k + 1) - 1 = k /\ k + 1 # 1
        BY <3>4
      <4>3. flatten[k + 1] = flatten[k] \o seqs[k + 1]
        BY <3>1, <4>2, Zenon
      <4> QED
        BY <3>2, <4>1, <4>3
    <3> QED
      BY <3>3, <3>4
  <2> HIDE DEF S
  <2>5. n \in S
    BY <1>1, <2>3, <2>4, Induction
  <2> QED
    BY <1>1, <1>3, <2>1, <2>5 DEF S
<1> QED
  BY <1>2, <1>3

\* The inputs that are queued, as the frames will tell them.
Queued ==
  {input \in [player_id : Players, input_seq : InputSeqs] :
     input.input_seq \in Range(input_queues_by_player[input.player_id])}

LEMMA AsSequence ==
  ASSUME NEW T, NEW n \in Nat, NEW f,
         f = [i \in 1 .. n |-> f[i]], \A i \in 1 .. n : f[i] \in T
  PROVE  f \in Seq(T)
  OBVIOUS

\* A tick drains only what is queued.
LEMMA DrainedTyped ==
  ASSUME TypeOK
  PROVE  DrainedInputs \in Seq(Queued)
<1> DEFINE input(p, i) == [player_id |-> p, input_seq |-> input_queues_by_player[p][i]]
           own(p) == [i \in 1 .. Len(input_queues_by_player[p]) |-> input(p, i)]
<1>1. ASSUME NEW p \in Players PROVE own(p) \in Seq(Queued)
  <2>1. input_queues_by_player[p] \in Seq(InputSeqs)
    BY DEF TypeOK
  <2>2. \A i \in 1 .. Len(input_queues_by_player[p]) : input(p, i) \in Queued
    BY <2>1 DEF Queued, Range
  <2>3. Len(input_queues_by_player[p]) \in Nat
    BY <2>1
  <2> HIDE DEF input
  <2> QED
    BY <2>2, <2>3
<1>2. DrainedInputs = FlattenSeq([p \in Players |-> own(p)])
  BY DEF DrainedInputs
<1> HIDE DEF own
<1> DEFINE all == [p \in Players |-> own(p)]
<1>3. all \in Seq(Seq(Queued))
  <2>1. all = [p \in 1 .. MaxPlayers |-> all[p]]
    BY DEF Players
  <2>2. \A p \in Players : all[p] \in Seq(Queued)
    <3>1. \A p \in Players : all[p] = own(p)
      OBVIOUS
    <3> HIDE DEF all
    <3> QED
      BY <1>1, <3>1, Zenon
  <2> HIDE DEF all
  <2> QED
    BY <2>1, <2>2, LoopAssumption, AsSequence DEF Players
<1> QED
  BY <1>2, <1>3, FlattenedTyped

\* The last of some positions is one of them.
LEMMA LastPosition ==
  ASSUME NEW n \in Nat, NEW S, S \subseteq 1 .. n, S # {}
  PROVE  Max(S) \in S
<1> DEFINE T == {n - x : x \in S}
<1>1. T \subseteq Nat /\ T # {}
  <2>1. \A x \in S : x \in Int /\ x <= n
    OBVIOUS
  <2>2. \A x \in S : n - x \in Nat
    BY <2>1
  <2> QED
    BY <2>2, Zenon
<1>2. PICK k \in T : \A m \in T : k <= m
  BY <1>1, LeastNumber
<1>3. PICK x \in S : k = n - x
  BY <1>2
<1>4. \A y \in S : x >= y
  <2> TAKE y \in S
  <2>1. k <= n - y
    BY <1>2
  <2>2. x \in 1 .. n /\ y \in 1 .. n
    BY Zenon
  <2> QED
    BY <1>3, <2>1, <2>2
<1> QED
  BY <1>4 DEF Max

LEMMA LargerOfTwo ==
  ASSUME NEW a \in Int, NEW b \in Int
  PROVE  Max({a, b}) = IF a >= b THEN a ELSE b
<1> DEFINE larger == IF a >= b THEN a ELSE b
<1>1. larger \in {a, b} /\ \A y \in {a, b} : larger >= y
  OBVIOUS
<1>2. \A x \in {a, b} : (\A y \in {a, b} : x >= y) => x = larger
  OBVIOUS
<1> HIDE DEF larger
<1>3. Max({a, b}) = larger
  BY <1>1, <1>2 DEF Max
<1> QED
  BY <1>3 DEF larger

\* What a tick acknowledges to a player is what it has acknowledged before or an
\* input the player had queued, whichever is the larger.
LEMMA AcknowledgesQueued ==
  ASSUME TypeOK, NEW p \in Players, NEW before \in InputSeqs,
         before = IF p \in DOMAIN processed THEN processed[p] ELSE 0
  PROVE  /\ ProcessedAfter(p, DrainedInputs) \in InputSeqs
         /\ before <= ProcessedAfter(p, DrainedInputs)
         /\ \/ ProcessedAfter(p, DrainedInputs) = before
            \/ \E i \in 1 .. Len(input_queues_by_player[p]) :
                 ProcessedAfter(p, DrainedInputs) = input_queues_by_player[p][i]
<1> DEFINE inputs == DrainedInputs
           own == InputsOf(p, inputs)
           after == ProcessedAfter(p, inputs)
<1>1. inputs \in Seq(Queued)
  BY DrainedTyped
<1> HIDE DEF inputs
<1>2. CASE own = {}
  <2>1. after = before
    BY <1>2 DEF ProcessedAfter
  <2> QED
    BY <2>1 DEF InputSeqs, inputs
<1>3. CASE own # {}
  <2>1. Len(inputs) \in Nat /\ DOMAIN inputs = 1 .. Len(inputs)
    BY <1>1
  <2>2. own \subseteq 1 .. Len(inputs)
    BY <2>1 DEF InputsOf
  <2>3. Max(own) \in own
    BY <1>3, <2>1, <2>2, LastPosition
  <2> DEFINE input == inputs[Max(own)]
             seq == input.input_seq
  <2>4. input.player_id = p /\ input \in Queued
    BY <1>1, <2>1, <2>2, <2>3 DEF InputsOf
  <2>5. seq \in InputSeqs /\ seq \in Range(input_queues_by_player[p])
    BY <2>4 DEF Queued
  <2>6. after = Max({before, seq})
    BY <1>3 DEF ProcessedAfter
  <2> HIDE DEF seq, input
  <2>7. input_queues_by_player[p] \in Seq(InputSeqs)
    BY DEF TypeOK
  <2>8. PICK i \in 1 .. Len(input_queues_by_player[p]) :
          seq = input_queues_by_player[p][i]
    BY <2>5, <2>7 DEF Range
  <2>9. before \in Int /\ seq \in Int
    BY <2>5 DEF InputSeqs
  <2>10. after = IF before >= seq THEN before ELSE seq
    BY <2>6, <2>9, LargerOfTwo
  <2> HIDE DEF after
  <2> QED
    BY <2>5, <2>8, <2>9, <2>10 DEF inputs, after
<1> QED
  BY <1>2, <1>3

\* The acknowledgements are kept for players, and each is a sequence number.
ProcessedTyped ==
  /\ DOMAIN processed \subseteq Players
  /\ \A p \in DOMAIN processed : processed[p] \in InputSeqs
  /\ processed = [p \in DOMAIN processed |-> processed[p]]

\* What the ticks that are due do to the acknowledgements.
LEMMA TicksAcknowledge ==
  ASSUME TypeOK, ProcessedTyped, RunTicks
  PROVE  /\ ProcessedTyped'
         /\ DOMAIN processed \subseteq DOMAIN processed'
         /\ \A p \in Players :
              p \notin DOMAIN processed /\ input_queues_by_player[p] = <<>>
                => p \notin DOMAIN processed'
         /\ \A p \in DOMAIN processed :
              /\ processed[p] <= processed'[p]
              /\ \/ processed'[p] = processed[p]
                 \/ \E i \in 1 .. Len(input_queues_by_player[p]) :
                      processed'[p] = input_queues_by_player[p][i]
<1> DEFINE result == ApplyInputs(DrainedInputs)
<1>1. processed' = processed \/ processed' = result
  <2>1. DueTicks \in Nat
    BY DueTicksExact
  <2>2. frames' = [i \in 1 .. DueTicks |->
                     Frame(tick_counter + i, IF i = 1 THEN DrainedInputs ELSE <<>>)]
    BY DEF RunTicks, Advance
  <2>3. CASE frames' = <<>>
    BY <2>3 DEF RunTicks
  <2>4. CASE frames' # <<>>
    <3>1. DueTicks # 0
      <4> SUFFICES ASSUME DueTicks = 0 PROVE FALSE
        OBVIOUS
      <4>1. frames' = [i \in {} |->
                     Frame(tick_counter + i, IF i = 1 THEN DrainedInputs ELSE <<>>)]
        BY <2>2
      <4> QED
        BY <2>4, <4>1
    <3>2. 1 \in 1 .. DueTicks
      BY <2>1, <3>1
    <3>3. frames'[1].inputs = DrainedInputs
      BY <2>2, <3>2 DEF Frame
    <3> QED
      BY <2>4, <3>3 DEF RunTicks
  <2> QED
    BY <2>3, <2>4
<1>2. CASE processed' = processed
  <2>1. \A p \in DOMAIN processed : processed[p] <= processed[p]
    BY DEF ProcessedTyped, InputSeqs
  <2> QED
    BY <1>2, <2>1 DEF ProcessedTyped
<1>3. CASE processed' = result
  <2> DEFINE inputs == DrainedInputs
             heard == {inputs[i].player_id : i \in DOMAIN inputs}
  <2>1. inputs \in Seq(Queued)
    BY DrainedTyped
  <2>2. \A i \in DOMAIN inputs : inputs[i] \in Queued
    BY <2>1
  <2>3. \A p \in heard : p \in Players /\ input_queues_by_player[p] # <<>>
    <3>1. \A p \in heard : p \in Players /\ Range(input_queues_by_player[p]) # {}
      BY <2>2 DEF Queued
    <3>2. Range(<<>>) = {}
      BY DEF Range
    <3> QED
      BY <3>1, <3>2
  <2>4. result = [p \in DOMAIN processed \cup heard |-> ProcessedAfter(p, inputs)]
    BY DEF ApplyInputs
  <2>5. ASSUME NEW p \in DOMAIN processed \cup heard
        PROVE  /\ ProcessedAfter(p, inputs) \in InputSeqs
               /\ p \in DOMAIN processed =>
                    /\ processed[p] <= ProcessedAfter(p, inputs)
                    /\ \/ ProcessedAfter(p, inputs) = processed[p]
                       \/ \E i \in 1 .. Len(input_queues_by_player[p]) :
                            ProcessedAfter(p, inputs) = input_queues_by_player[p][i]
    <3> DEFINE before == IF p \in DOMAIN processed THEN processed[p] ELSE 0
    <3>1. p \in Players
      BY <2>3 DEF ProcessedTyped
    <3>2. before \in InputSeqs
      <4>1. 0 \in InputSeqs
        BY LoopAssumption DEF InputSeqs
      <4>2. p \in DOMAIN processed => processed[p] \in InputSeqs
        BY DEF ProcessedTyped
      <4> QED
        BY <4>1, <4>2
    <3>3. p \in DOMAIN processed => before = processed[p]
      OBVIOUS
    <3>4. before = IF p \in DOMAIN processed THEN processed[p] ELSE 0
      OBVIOUS
    <3> HIDE DEF before
    <3> QED
      BY <3>1, <3>2, <3>3, <3>4, AcknowledgesQueued
  <2> HIDE DEF inputs, heard, result
  <2>6. /\ DOMAIN processed' = DOMAIN processed \cup heard
        /\ \A p \in DOMAIN processed \cup heard :
             processed'[p] = ProcessedAfter(p, inputs)
        /\ processed' = [p \in DOMAIN processed' |-> processed'[p]]
    BY <1>3, <2>4
  <2>7. ProcessedTyped'
    BY <2>3, <2>5, <2>6 DEF ProcessedTyped, Players, InputSeqs
  <2> QED
    BY <2>3, <2>5, <2>6, <2>7
<1> QED
  BY <1>1, <1>2, <1>3

-----------------------------------------------------------------------------
(* The window of the inputs that are replayed *)

\* The numbers up to last, as many as the sequence is long.
Consecutive(seqs, last) == seqs = [i \in 1 .. Len(seqs) |-> last - Len(seqs) + i]

LEMMA ConsecutiveAppend ==
  ASSUME NEW seqs \in Seq(Nat), NEW last \in Nat, Consecutive(seqs, last)
  PROVE  /\ Append(seqs, last + 1) \in Seq(Nat)
         /\ Len(Append(seqs, last + 1)) = Len(seqs) + 1
         /\ Consecutive(Append(seqs, last + 1), last + 1)
<1> DEFINE n == Len(seqs)
           longer == Append(seqs, last + 1)
<1>1. /\ n \in Nat /\ longer \in Seq(Nat) /\ Len(longer) = n + 1
      /\ \A i \in 1 .. n : longer[i] = seqs[i]
      /\ longer[n + 1] = last + 1
      /\ longer = [i \in 1 .. n + 1 |-> longer[i]]
  OBVIOUS
<1>2. \A i \in 1 .. n : seqs[i] = last - n + i
  BY DEF Consecutive
<1> HIDE DEF longer, n
<1>3. \A i \in 1 .. n + 1 : longer[i] = (last + 1) - (n + 1) + i
  <2> TAKE i \in 1 .. n + 1
  <2>1. CASE i = n + 1
    <3>1. longer[i] = last + 1
      BY <1>1, <2>1
    <3>2. \A a, b \in Nat : (a + 1) - (b + 1) + (b + 1) = a + 1
      OBVIOUS
    <3>3. n \in Nat /\ last \in Nat
      BY <1>1, Zenon
    <3> QED
      BY <2>1, <3>1, <3>2, <3>3, Zenon
  <2>2. CASE i # n + 1
    <3>1. i \in 1 .. n
      <4>1. \A m \in Nat : \A k \in 1 .. m + 1 : k # m + 1 => k \in 1 .. m
        OBVIOUS
      <4> QED
        BY <1>1, <2>2, <4>1, Zenon
    <3>2. longer[i] = last - n + i
      BY <1>1, <1>2, <3>1
    <3> QED
      BY <1>1, <3>1, <3>2
  <2> QED
    BY <2>1, <2>2
<1>4. Consecutive(longer, last + 1)
  BY <1>1, <1>3 DEF Consecutive
<1> QED
  BY <1>1, <1>4 DEF longer, n

\* The end of such a sequence is one too.
LEMMA ConsecutiveSuffix ==
  ASSUME NEW seqs \in Seq(Nat), NEW last \in Nat, Consecutive(seqs, last),
         NEW k \in 0 .. Len(seqs)
  PROVE  /\ SubSeq(seqs, k + 1, Len(seqs)) \in Seq(Nat)
         /\ Len(SubSeq(seqs, k + 1, Len(seqs))) = Len(seqs) - k
         /\ Consecutive(SubSeq(seqs, k + 1, Len(seqs)), last)
<1> DEFINE n == Len(seqs)
           rest == SubSeq(seqs, k + 1, n)
<1>1. n \in Nat
  OBVIOUS
<1>2. /\ rest \in Seq(Nat) /\ Len(rest) = n - k
      /\ \A i \in 1 .. n - k : rest[i] = seqs[k + i]
      /\ rest = [i \in 1 .. n - k |-> rest[i]]
  <2>1. rest = [i \in 1 .. n - k |-> seqs[i + (k + 1) - 1]]
    BY <1>1
  <2>2. \A i \in 1 .. n - k : i + (k + 1) - 1 \in 1 .. n /\ i + (k + 1) - 1 = k + i
    BY <1>1
  <2>3. \A i \in 1 .. n - k : seqs[k + i] \in Nat
    BY <1>1, <2>2
  <2> HIDE DEF rest, n
  <2>4. n - k \in Nat
    BY <1>1 DEF n
  <2>5. \A i \in 1 .. n - k : rest[i] = seqs[k + i]
    BY <2>1, <2>2
  <2>6. rest = [i \in 1 .. n - k |-> rest[i]]
    BY <2>1
  <2>7. rest \in Seq(Nat) /\ Len(rest) = n - k
    <3> DEFINE w == n - k
    <3>1. w \in Nat /\ rest = [i \in 1 .. w |-> rest[i]]
      BY <2>4, <2>6
    <3>2. \A i \in 1 .. w : rest[i] \in Nat
      BY <2>3, <2>5
    <3> HIDE DEF w
    <3>3. rest \in Seq(Nat)
      BY <3>1, <3>2, AsSequence
    <3>4. DOMAIN rest = 1 .. w
      BY <3>1
    <3>5. Len(rest) = w
      BY <3>1, <3>3, <3>4
    <3> QED
      BY <3>3, <3>5 DEF w
  <2> QED
    BY <2>5, <2>6, <2>7
<1>3. \A i \in 1 .. n : seqs[i] = last - n + i
  BY DEF Consecutive
<1> HIDE DEF rest, n
<1>4. \A i \in 1 .. n - k : rest[i] = last - (n - k) + i
  <2> TAKE i \in 1 .. n - k
  <2>1. k + i \in 1 .. n
    BY <1>1 DEF n
  <2>2. rest[i] = last - n + (k + i)
    BY <1>2, <1>3, <2>1
  <2> QED
    BY <1>1, <2>2 DEF n
<1>5. Consecutive(rest, last)
  BY <1>2, <1>4 DEF Consecutive
<1> QED
  BY <1>2, <1>5 DEF rest, n

\* The last input the client has numbered.
Sent == next_input_seq - 1

\* Pending and replayed inputs are the latest ones, the pending ones as many of
\* the replayed as the window holds; the replay reaches back to the acknowledged
\* input or as far as the window.
WindowInv ==
  LET n == Len(predicted.inputs)
      m == Len(pending_inputs)
  IN  /\ predicted.base <= Sent
      /\ m = IF n < MaxPendingInputs THEN n ELSE MaxPendingInputs
      /\ Consecutive(pending_inputs, Sent)
      /\ Consecutive(predicted.inputs, Sent)
      /\ \/ n = Sent - predicted.base
         \/ MaxPendingInputs <= n /\ n < Sent - predicted.base

ClientTyped ==
  /\ client \in {"gone", "joining", "joined"}
  /\ next_input_seq \in 1 .. MaxInputSeq + 1
  /\ pending_inputs \in Seq(Nat)
  /\ predicted \in [base : InputSeqs, inputs : Seq(Nat)]

\* Only who has joined numbers and predicts.
ClientInv ==
  /\ ClientTyped
  /\ WindowInv
  /\ client # "joined" => /\ next_input_seq = 1 /\ pending_inputs = <<>>
                          /\ predicted = Untouched

\* A client that has just (re)started its numbering.
LEMMA ResetClient ==
  ASSUME client' \in {"gone", "joining", "joined"},
         next_input_seq' = 1, pending_inputs' = <<>>, predicted' = Untouched
  PROVE  ClientInv'
<1>1. <<>> \in Seq(Nat) /\ Len(<<>>) = 0 /\ 0 \in InputSeqs
  BY LoopAssumption DEF InputSeqs
<1>2. predicted'.base = 0 /\ predicted'.inputs = <<>>
  BY DEF Untouched
<1>3. Sent' = 0
  BY DEF Sent
<1>4. \A last : Consecutive(<<>>, last)
  BY DEF Consecutive
<1>5. WindowInv'
  BY <1>1, <1>2, <1>3, <1>4, PipelineAssumption DEF WindowInv, Consecutive
<1>6. ClientTyped'
  BY <1>1, LoopAssumption DEF ClientTyped, Untouched
<1> QED
  BY <1>5, <1>6 DEF ClientInv

\* The first inputs up to the acknowledged one are dropped, as many as are left
\* of them in the window; the others stay.
LEMMA UnacknowledgedExact ==
  ASSUME ClientInv, NEW ack \in Nat, ack <= Sent
  PROVE  LET m == Len(pending_inputs)
             kept == IF m < Sent - ack THEN m ELSE Sent - ack
         IN  /\ Unacknowledged(ack) \in Seq(Nat)
             /\ Len(Unacknowledged(ack)) = kept
             /\ Consecutive(Unacknowledged(ack), Sent)
<1> DEFINE m == Len(pending_inputs)
           kept == IF m < Sent - ack THEN m ELSE Sent - ack
           k == m - kept
<1>1. pending_inputs \in Seq(Nat) /\ m \in Nat /\ Consecutive(pending_inputs, Sent)
  BY DEF ClientInv, ClientTyped, WindowInv
<1>2. Sent \in Nat
  BY LoopAssumption DEF ClientInv, ClientTyped, Sent
<1>3. kept \in Nat /\ k \in 0 .. m
  BY <1>1, <1>2
<1>4. \A i \in 1 .. m : pending_inputs[i] = Sent - m + i
  BY <1>1 DEF Consecutive
<1>5. \A i \in 1 .. m : pending_inputs[i] <= ack <=> i <= k
  <2> TAKE i \in 1 .. m
  <2>1. pending_inputs[i] = Sent - m + i
    BY <1>4
  <2> HIDE DEF m
  <2> QED
    BY <1>1, <1>2, <2>1
<1> DEFINE stops(i) == /\ \A j \in 1 .. i - 1 : pending_inputs[j] <= ack
                       /\ i <= m => pending_inputs[i] > ack
<1>6. \A i \in 1 .. m : pending_inputs[i] > ack <=> k < i
  <2> TAKE i \in 1 .. m
  <2>1. pending_inputs[i] = Sent - m + i
    BY <1>4
  <2> HIDE DEF m
  <2> QED
    BY <1>1, <1>2, <2>1
<1> HIDE DEF m, kept, k
<1>7. k + 1 \in 1 .. m + 1 /\ stops(k + 1)
  <2>1. \A j \in 1 .. (k + 1) - 1 : j \in 1 .. m /\ j <= k
    BY <1>1, <1>3
  <2>2. k + 1 <= m => k + 1 \in 1 .. m /\ k < k + 1
    BY <1>1, <1>3
  <2> QED
    BY <1>1, <1>3, <1>5, <1>6, <2>1, <2>2
<1>8. ASSUME NEW i \in 1 .. m + 1, stops(i) PROVE i = k + 1
  <2>1. ~(i > k + 1)
    <3> SUFFICES ASSUME i > k + 1 PROVE FALSE
      OBVIOUS
    <3>1. k + 1 \in 1 .. i - 1 /\ k + 1 \in 1 .. m
      BY <1>1, <1>3
    <3>2. pending_inputs[k + 1] <= ack
      BY <1>8, <3>1
    <3>3. k + 1 <= k
      BY <1>5, <3>1, <3>2
    <3> QED
      BY <1>3, <3>3
  <2>2. ~(i < k + 1)
    <3> SUFFICES ASSUME i < k + 1 PROVE FALSE
      OBVIOUS
    <3>1. i \in 1 .. m /\ ~(k < i) /\ i <= m
      BY <1>1, <1>3
    <3>2. pending_inputs[i] > ack
      BY <1>8, <3>1
    <3> QED
      BY <1>6, <3>1, <3>2
  <2> QED
    BY <1>1, <1>3, <2>1, <2>2
<1>9. FirstUnacknowledged(ack) = k + 1
  <2>1. FirstUnacknowledged(ack) = CHOOSE i \in 1 .. m + 1 : stops(i)
    BY DEF FirstUnacknowledged, m
  <2> HIDE DEF stops
  <2> QED
    BY <1>7, <1>8, <2>1
<1>10. Unacknowledged(ack) = SubSeq(pending_inputs, k + 1, m)
  BY <1>9 DEF Unacknowledged, m
<1>11. m - k = kept
  BY <1>1, <1>3 DEF k
<1>12. /\ SubSeq(pending_inputs, k + 1, m) \in Seq(Nat)
       /\ Len(SubSeq(pending_inputs, k + 1, m)) = m - k
       /\ Consecutive(SubSeq(pending_inputs, k + 1, m), Sent)
  BY <1>1, <1>2, <1>3, ConsecutiveSuffix DEF m
<1> QED
  BY <1>10, <1>11, <1>12 DEF kept, m

\* A reconciliation starts from an acknowledgement that is no older than the last
\* one and covers nothing that was not sent.
LEMMA ReconcileKeepsClient ==
  ASSUME ClientInv, client = "joined", NEW ack \in InputSeqs,
         predicted.base <= ack, ack <= Sent, Reconcile(ack)
  PROVE  ClientInv' /\ predicted'.base = ack
<1> DEFINE rest == Unacknowledged(ack)
           n == Len(predicted.inputs)
           m == Len(pending_inputs)
           kept == IF m < Sent - ack THEN m ELSE Sent - ack
<1>1. ack \in Nat /\ Sent \in Nat
  BY LoopAssumption DEF ClientInv, ClientTyped, Sent, InputSeqs
<1>2. rest \in Seq(Nat) /\ Len(rest) = kept /\ Consecutive(rest, Sent)
  BY <1>1, UnacknowledgedExact
<1> HIDE DEF rest
<1>3. <<>> \o rest = rest
  BY <1>2
<1>4. predicted' = [base |-> ack, inputs |-> rest] /\ pending_inputs' = rest
  <2>1. [[base |-> ack, inputs |-> <<>>] EXCEPT !.inputs = @ \o rest]
          = [base |-> ack, inputs |-> <<>> \o rest]
    OBVIOUS
  <2> QED
    BY <1>3, <2>1 DEF Reconcile, Applied, rest
<1>5. client' = client /\ next_input_seq' = next_input_seq
  BY DEF Reconcile
<1>6. predicted'.base = ack /\ predicted'.inputs = rest
  BY <1>4
<1>7. ClientTyped'
  BY <1>2, <1>4, <1>5 DEF ClientInv, ClientTyped
<1>8. n \in Nat /\ m \in Nat /\ predicted.base \in Nat
  BY LoopAssumption DEF ClientInv, ClientTyped, InputSeqs
<1>9. /\ m = IF n < MaxPendingInputs THEN n ELSE MaxPendingInputs
      /\ \/ n = Sent - predicted.base
         \/ MaxPendingInputs <= n /\ n < Sent - predicted.base
  BY DEF ClientInv, WindowInv
<1> HIDE DEF n, m
<1>10. kept \in Nat /\ kept <= MaxPendingInputs
  BY <1>1, <1>8, <1>9, PipelineAssumption
<1>11. kept = Sent - ack \/ (MaxPendingInputs <= kept /\ kept < Sent - ack)
  BY <1>1, <1>8, <1>9, PipelineAssumption
<1> HIDE DEF kept
<1>12. kept = IF kept < MaxPendingInputs THEN kept ELSE MaxPendingInputs
  BY <1>10, PipelineAssumption
<1>13. Sent' = Sent
  BY <1>5 DEF Sent
<1>14. WindowInv'
  BY <1>2, <1>4, <1>6, <1>11, <1>12, <1>13 DEF WindowInv, Consecutive
<1> QED
  BY <1>5, <1>6, <1>7, <1>14 DEF ClientInv

\* A new input joins both, and the oldest falls out of a full window.
LEMMA QueueKeepsClient ==
  ASSUME ClientInv, QueueLocalInput
  PROVE  ClientInv' /\ predicted'.base = predicted.base /\ Sent' = Sent + 1
<1> DEFINE seq == next_input_seq
           n == Len(predicted.inputs)
           m == Len(pending_inputs)
           longer == Append(pending_inputs, seq)
           replayed == Append(predicted.inputs, seq)
<1>1. /\ client = "joined" /\ client' = client
      /\ next_input_seq' = seq + 1 /\ seq <= MaxInputSeq
      /\ pending_inputs' = IF m >= MaxPendingInputs THEN Windowed(longer) ELSE longer
      /\ predicted' = Applied(predicted, <<seq>>)
  BY DEF QueueLocalInput
<1>2. /\ Sent \in Nat /\ seq = Sent + 1 /\ n \in Nat /\ m \in Nat
      /\ pending_inputs \in Seq(Nat) /\ predicted.inputs \in Seq(Nat)
      /\ predicted \in [base : InputSeqs, inputs : Seq(Nat)]
      /\ predicted.base \in Nat
  BY LoopAssumption DEF ClientInv, ClientTyped, Sent, InputSeqs
<1>3. /\ predicted.base <= Sent
      /\ m = IF n < MaxPendingInputs THEN n ELSE MaxPendingInputs
      /\ Consecutive(pending_inputs, Sent) /\ Consecutive(predicted.inputs, Sent)
      /\ \/ n = Sent - predicted.base
         \/ MaxPendingInputs <= n /\ n < Sent - predicted.base
  BY DEF ClientInv, WindowInv
<1>4. Sent' = Sent + 1
  BY <1>1, <1>2 DEF Sent
<1>5. longer \in Seq(Nat) /\ Len(longer) = m + 1 /\ Consecutive(longer, Sent + 1)
  BY <1>2, <1>3, ConsecutiveAppend
<1>6. replayed \in Seq(Nat) /\ Len(replayed) = n + 1 /\ Consecutive(replayed, Sent + 1)
  BY <1>2, <1>3, ConsecutiveAppend
<1>7. predicted' = [predicted EXCEPT !.inputs = replayed]
  <2>1. predicted.inputs \o <<seq>> = replayed
    BY <1>2
  <2> QED
    BY <1>1, <1>2, <2>1 DEF Applied
<1> HIDE DEF replayed, longer, n, m, seq
<1>8. /\ predicted' \in [base : InputSeqs, inputs : Seq(Nat)]
      /\ predicted'.base = predicted.base /\ predicted'.inputs = replayed
  BY <1>2, <1>6, <1>7
<1>9. /\ pending_inputs' \in Seq(Nat)
      /\ Len(pending_inputs') = IF n + 1 < MaxPendingInputs THEN n + 1
                                ELSE MaxPendingInputs
      /\ Consecutive(pending_inputs', Sent + 1)
  <2>1. CASE m >= MaxPendingInputs
    <3>1. m = MaxPendingInputs /\ ~(n + 1 < MaxPendingInputs)
      BY <1>2, <1>3, <2>1, PipelineAssumption
    <3>2. 1 \in 0 .. Len(longer)
      BY <1>2, <1>5
    <3> DEFINE latest == SubSeq(longer, 1 + 1, Len(longer))
    <3>3. /\ latest \in Seq(Nat) /\ Len(latest) = Len(longer) - 1
          /\ Consecutive(latest, Sent + 1)
      BY <1>2, <1>5, <3>2, ConsecutiveSuffix
    <3>4. Len(longer) + 1 - MaxPendingInputs = 1 + 1 /\ Len(longer) - 1 = MaxPendingInputs
      BY <1>2, <1>5, <3>1
    <3>5. Windowed(longer) = latest
      BY <3>4 DEF Windowed
    <3>6. pending_inputs' = latest
      BY <1>1, <2>1, <3>5
    <3> HIDE DEF latest
    <3> QED
      BY <3>1, <3>3, <3>4, <3>6
  <2>2. CASE ~(m >= MaxPendingInputs)
    <3>1. pending_inputs' = longer
      BY <1>1, <2>2
    <3>2. m = n /\ n < MaxPendingInputs
      BY <1>2, <1>3, <2>2, PipelineAssumption
    <3>3. m + 1 = IF n + 1 < MaxPendingInputs THEN n + 1 ELSE MaxPendingInputs
      BY <1>2, <3>2, PipelineAssumption
    <3> QED
      BY <1>5, <3>1, <3>3
  <2> QED
    BY <2>1, <2>2
<1>10. ClientTyped'
  BY <1>1, <1>2, <1>8, <1>9, LoopAssumption DEF ClientInv, ClientTyped, seq
<1>11. /\ predicted'.base <= Sent + 1
       /\ \/ n + 1 = Sent + 1 - predicted'.base
          \/ MaxPendingInputs <= n + 1 /\ n + 1 < Sent + 1 - predicted'.base
  <2> DEFINE base == predicted.base
  <2>1. /\ base \in Nat /\ base <= Sent
        /\ n = Sent - base \/ (MaxPendingInputs <= n /\ n < Sent - base)
    BY <1>2, <1>3
  <2>2. predicted'.base = base
    BY <1>8
  <2> HIDE DEF base
  <2>3. /\ base <= Sent + 1
        /\ \/ n + 1 = Sent + 1 - base
           \/ MaxPendingInputs <= n + 1 /\ n + 1 < Sent + 1 - base
    BY <1>2, <2>1, PipelineAssumption
  <2> QED
    BY <2>2, <2>3, Zenon
<1>12. WindowInv'
  <2>1. Len(predicted'.inputs) = n + 1
    BY <1>6, <1>8, Zenon
  <2>2. Consecutive(predicted'.inputs, Sent')
    BY <1>4, <1>6, <1>8, Zenon
  <2>3. Consecutive(pending_inputs', Sent')
    BY <1>4, <1>9, Zenon
  <2>4. Len(pending_inputs') = IF Len(predicted'.inputs) < MaxPendingInputs
                               THEN Len(predicted'.inputs) ELSE MaxPendingInputs
    BY <1>9, <2>1
  <2>5. /\ predicted'.base <= Sent'
        /\ \/ Len(predicted'.inputs) = Sent' - predicted'.base
           \/ /\ MaxPendingInputs <= Len(predicted'.inputs)
              /\ Len(predicted'.inputs) < Sent' - predicted'.base
    <3> DEFINE base == predicted'.base
               len == Len(predicted'.inputs)
               sent == Sent'
    <3>1. /\ base \in Int /\ n \in Nat /\ len = n + 1
          /\ sent = Sent + 1 /\ Sent \in Nat
      BY <1>2, <1>4, <1>8, <2>1
    <3>2. /\ base <= Sent + 1
          /\ \/ n + 1 = Sent + 1 - base
             \/ MaxPendingInputs <= n + 1 /\ n + 1 < Sent + 1 - base
      BY <1>11
    <3> HIDE DEF base, len, sent
    <3>3. /\ base <= sent
          /\ len = sent - base \/ (MaxPendingInputs <= len /\ len < sent - base)
      BY <3>1, <3>2
    <3> QED
      BY <3>3 DEF base, len, sent
  <2> QED
    BY <2>2, <2>3, <2>4, <2>5 DEF WindowInv
<1> QED
  BY <1>1, <1>4, <1>8, <1>10, <1>12 DEF ClientInv

-----------------------------------------------------------------------------
(* The pipeline *)

\* The last input the server has accepted from the client of this session.
Seen == IF Local \in DOMAIN last_input_seq_by_player
        THEN last_input_seq_by_player[Local] ELSE 0

\* The acknowledgement a snapshot carries for the client.
AckOf(packet) == (CHOOSE q \in OwnStates(packet) : TRUE).last_processed_input_seq

IsSnapshot(packet) ==
  /\ packet.type = "state_snapshot"
  /\ \E ack \in InputSeqs :
       OwnStates(packet) = {[player_id |-> Local, last_processed_input_seq |-> ack]}

Packets ==
  [type : {"join_accept"}]
    \cup [type : {"state_snapshot"},
          players : SUBSET [player_id : Players, last_processed_input_seq : InputSeqs]]

\* The server knows an acknowledgement of Local exactly during a session; it has
\* processed no more than was accepted, and nothing of what is queued.
SessionInv ==
  /\ in_session \in BOOLEAN
  /\ ProcessedTyped
  /\ in_session <=> Local \in DOMAIN processed
  /\ ~in_session => /\ input_queues_by_player[Local] = <<>>
                    /\ Local \notin DOMAIN last_input_seq_by_player
  /\ in_session =>
       /\ processed[Local] <= Seen
       /\ \A i \in 1 .. Len(input_queues_by_player[Local]) :
            processed[Local] <= input_queues_by_player[Local][i]
       /\ client # "gone" => Seen <= Sent

\* What is on its way to the server is newer than what was accepted, in order, and
\* was sent.
OutboxInv ==
  /\ outbox \in Seq(InputSeqs)
  /\ \A i, j \in 1 .. Len(outbox) : i < j => outbox[i] < outbox[j]
  /\ in_session => \A i \in 1 .. Len(outbox) : Seen < outbox[i]
  /\ client # "gone" => \A i \in 1 .. Len(outbox) : outbox[i] <= Sent

\* Where the snapshots begin among the packets.
FirstSnapshot == IF client = "joining" THEN 2 ELSE 1

\* What is on its way to the client: a join_accept first while it joins, then
\* snapshots, the later ones acknowledging no less.
InboxInv ==
  /\ inbox \in Seq(Packets)
  /\ client = "gone" => inbox = <<>>
  /\ client = "joining" => inbox # <<>> /\ inbox[1].type = "join_accept"
  /\ \A i \in FirstSnapshot .. Len(inbox) :
       /\ IsSnapshot(inbox[i])
       /\ predicted.base <= AckOf(inbox[i])
       /\ AckOf(inbox[i]) <= Sent
       /\ in_session => AckOf(inbox[i]) <= processed[Local]
       /\ \A j \in i .. Len(inbox) : AckOf(inbox[i]) <= AckOf(inbox[j])
  /\ in_session => predicted.base <= processed[Local]

\* The inductive invariant of the pipeline.
PInv == SessionInv /\ OutboxInv /\ InboxInv /\ ClientInv

\* The sequence numbers are integers.
LEMMA Numbers ==
  ASSUME TypeOK, PInv
  PROVE  /\ Sent \in Nat /\ Seen \in InputSeqs /\ predicted.base \in InputSeqs
         /\ in_session => processed[Local] \in InputSeqs
         /\ InputSeqs \subseteq Nat
         /\ input_queues_by_player[Local] \in Seq(InputSeqs)
<1>1. InputSeqs \subseteq Nat /\ 0 \in InputSeqs
  BY LoopAssumption DEF InputSeqs
<1>2. Seen \in InputSeqs
  BY <1>1 DEF TypeOK, Seen
<1>3. Sent \in Nat /\ predicted.base \in InputSeqs
  BY LoopAssumption DEF PInv, ClientInv, ClientTyped, Sent
<1>4. in_session => processed[Local] \in InputSeqs
  BY DEF PInv, SessionInv, ProcessedTyped
<1>5. input_queues_by_player[Local] \in Seq(InputSeqs)
  BY PipelineAssumption DEF TypeOK
<1> QED
  BY <1>1, <1>2, <1>3, <1>4, <1>5

\* A snapshot carries the acknowledgement of its motion state.
LEMMA SnapshotCarries ==
  ASSUME NEW motions, Local \in DOMAIN motions, DOMAIN motions \subseteq Players,
         \A p \in DOMAIN motions : motions[p] \in InputSeqs
  PROVE  /\ Snapshot(motions) \in Packets
         /\ IsSnapshot(Snapshot(motions))
         /\ AckOf(Snapshot(motions)) = motions[Local]
<1> DEFINE state(p) == [player_id |-> p, last_processed_input_seq |-> motions[p]]
           packet == Snapshot(motions)
<1>1. packet = [type |-> "state_snapshot", players |-> {state(p) : p \in DOMAIN motions}]
  BY DEF Snapshot
<1>2. {state(p) : p \in DOMAIN motions}
        \in SUBSET [player_id : Players, last_processed_input_seq : InputSeqs]
  OBVIOUS
<1>3. \A p : state(p).player_id = p /\ state(p).last_processed_input_seq = motions[p]
  OBVIOUS
<1> HIDE DEF state
<1>4. packet \in Packets /\ packet.type = "state_snapshot"
  BY <1>1, <1>2 DEF Packets
<1>5. packet.players = {state(p) : p \in DOMAIN motions}
  BY <1>1
<1>6. OwnStates(packet) = {state(Local)}
  BY <1>3, <1>5 DEF OwnStates
<1>7. AckOf(packet) = motions[Local]
  <2>1. (CHOOSE q \in {state(Local)} : TRUE) = state(Local)
    OBVIOUS
  <2> QED
    BY <1>3, <1>6, <2>1 DEF AckOf
<1>8. IsSnapshot(packet)
  BY <1>4, <1>6 DEF IsSnapshot, state
<1> QED
  BY <1>4, <1>7, <1>8

LEMMA AckTyped ==
  ASSUME NEW packet, IsSnapshot(packet)
  PROVE  /\ AckOf(packet) \in InputSeqs
         /\ \A q \in OwnStates(packet) : q.last_processed_input_seq = AckOf(packet)
<1>1. PICK ack \in InputSeqs :
        OwnStates(packet) = {[player_id |-> Local, last_processed_input_seq |-> ack]}
  BY DEF IsSnapshot
<1> DEFINE state == [player_id |-> Local, last_processed_input_seq |-> ack]
<1>2. (CHOOSE q \in {state} : TRUE) = state
  OBVIOUS
<1>3. state.last_processed_input_seq = ack
  OBVIOUS
<1> HIDE DEF state
<1>4. OwnStates(packet) = {state}
  BY <1>1 DEF state
<1>5. AckOf(packet) = ack
  BY <1>2, <1>3, <1>4 DEF AckOf
<1> QED
  BY <1>3, <1>4, <1>5

-----------------------------------------------------------------------------
(* The invariant is inductive *)

LEMMA PipelineInitially == PipelineInit => PInv
<1> SUFFICES ASSUME PipelineInit PROVE PInv
  OBVIOUS
<1> USE DEF PipelineInit
<1>1. 0 \in InputSeqs /\ <<>> \in Seq(Nat) /\ Len(<<>>) = 0
      /\ Local \in Players /\ Local \notin Strangers /\ Strangers \subseteq Players
  BY LoopAssumption, PipelineAssumption DEF InputSeqs, Strangers
<1>2. ProcessedTyped
  BY <1>1 DEF ProcessedTyped
<1>3. SessionInv
  BY <1>1, <1>2 DEF SessionInv, Init, EmptyMap
<1>4. OutboxInv
  BY <1>1 DEF OutboxInv
<1>5. InboxInv
  BY <1>1 DEF InboxInv, FirstSnapshot
<1>6. ClientInv
  <2>1. predicted.base = 0 /\ predicted.inputs = <<>> /\ Sent = 0
    BY DEF Untouched, Sent
  <2>2. \A last : Consecutive(<<>>, last)
    BY DEF Consecutive
  <2>3. WindowInv
    BY <1>1, <2>1, <2>2, PipelineAssumption DEF WindowInv, Consecutive
  <2>4. ClientTyped
    BY <1>1, LoopAssumption DEF ClientTyped, Untouched
  <2> QED
    BY <2>3, <2>4 DEF ClientInv
<1> QED
  BY <1>3, <1>4, <1>5, <1>6 DEF PInv

\* A new input of the client is newer than everything.
LEMMA QueueLocalKeeps ==
  ASSUME TypeOK, PInv, QueueLocalInput
  PROVE  PInv'
<1>1. /\ Sent \in Nat /\ Seen \in InputSeqs /\ predicted.base \in InputSeqs
      /\ in_session => processed[Local] \in InputSeqs
      /\ InputSeqs \subseteq Nat
  BY Numbers
<1>2. ClientInv' /\ predicted'.base = predicted.base /\ Sent' = Sent + 1
  BY QueueKeepsClient DEF PInv
<1>3. /\ client = "joined" /\ client' = client /\ UNCHANGED <<in_session, processed, inbox>>
      /\ input_queues_by_player' = input_queues_by_player
      /\ last_input_seq_by_player' = last_input_seq_by_player
      /\ outbox' = Append(outbox, next_input_seq) /\ next_input_seq <= MaxInputSeq
  BY DEF QueueLocalInput, vars, queue_vars
<1>4. next_input_seq = Sent + 1 /\ next_input_seq \in InputSeqs
  BY <1>1, <1>3, LoopAssumption DEF Sent, InputSeqs, PInv, ClientInv, ClientTyped
<1>5. Seen' = Seen
  BY <1>3 DEF Seen
<1>6. SessionInv'
  BY <1>1, <1>2, <1>3, <1>5 DEF PInv, SessionInv, ProcessedTyped
<1>7. OutboxInv'
  <2> DEFINE seq == next_input_seq
             n == Len(outbox)
             longer == Append(outbox, seq)
  <2>1. /\ outbox \in Seq(InputSeqs)
        /\ \A i, j \in 1 .. n : i < j => outbox[i] < outbox[j]
        /\ in_session => \A i \in 1 .. n : Seen < outbox[i]
        /\ \A i \in 1 .. n : outbox[i] <= Sent
    BY <1>3 DEF PInv, OutboxInv
  <2>2. /\ longer \in Seq(InputSeqs) /\ n \in Nat /\ Len(longer) = n + 1
        /\ \A i \in 1 .. n : longer[i] = outbox[i] /\ outbox[i] \in InputSeqs
        /\ longer[n + 1] = seq
    BY <1>4, <2>1
  <2>3. seq = Sent + 1 /\ (in_session => Seen <= Sent)
    BY <1>3, <1>4 DEF PInv, SessionInv
  <2> HIDE DEF longer, n, seq
  <2>4. \A i \in 1 .. n + 1 :
          \/ i = n + 1 /\ longer[i] = Sent + 1
          \/ i \in 1 .. n /\ longer[i] = outbox[i] /\ longer[i] <= Sent
             /\ longer[i] \in Nat
    <3> TAKE i \in 1 .. n + 1
    <3>1. CASE i = n + 1
      BY <2>2, <2>3, <3>1
    <3>2. CASE i # n + 1
      <4>1. i \in 1 .. n
        BY <2>2, <3>2
      <4>2. longer[i] = outbox[i] /\ outbox[i] \in InputSeqs /\ outbox[i] <= Sent
        BY <2>1, <2>2, <4>1
      <4> QED
        BY <1>1, <4>1, <4>2
    <3> QED
      BY <3>1, <3>2
  <2>5. \A i, j \in 1 .. n + 1 : i < j => longer[i] < longer[j]
    <3> SUFFICES ASSUME NEW i \in 1 .. n + 1, NEW j \in 1 .. n + 1, i < j
                 PROVE  longer[i] < longer[j]
      OBVIOUS
    <3>1. i \in 1 .. n
      BY <2>2
    <3>2. CASE j = n + 1
      BY <1>1, <2>2, <2>4, <3>1, <3>2
    <3>3. CASE j # n + 1
      <4>1. j \in 1 .. n
        BY <2>2, <3>3
      <4> QED
        BY <2>1, <2>2, <3>1, <4>1
    <3> QED
      BY <3>2, <3>3
  <2>6. in_session => \A i \in 1 .. n + 1 : Seen < longer[i]
    BY <1>1, <2>1, <2>3, <2>4
  <2>7. \A i \in 1 .. n + 1 : longer[i] <= Sent + 1
    BY <1>1, <2>4
  <2>8. outbox' = longer
    BY <1>3 DEF longer, seq
  <2> QED
    BY <1>2, <1>3, <1>5, <2>2, <2>5, <2>6, <2>7, <2>8 DEF OutboxInv
<1>8. InboxInv'
  <2>1. \A i \in FirstSnapshot .. Len(inbox) :
          AckOf(inbox[i]) \in InputSeqs /\ AckOf(inbox[i]) <= Sent + 1
    <3> TAKE i \in FirstSnapshot .. Len(inbox)
    <3>1. IsSnapshot(inbox[i]) /\ AckOf(inbox[i]) <= Sent
      BY DEF PInv, InboxInv
    <3>2. AckOf(inbox[i]) \in InputSeqs
      BY <3>1, AckTyped
    <3> DEFINE ack == AckOf(inbox[i])
    <3>3. ack \in Nat /\ ack <= Sent
      BY <1>1, <3>1, <3>2
    <3> HIDE DEF ack
    <3>4. ack <= Sent + 1
      BY <1>1, <3>3
    <3> QED
      BY <3>2, <3>4 DEF ack
  <2>2. FirstSnapshot' = FirstSnapshot
    BY <1>3 DEF FirstSnapshot
  <2> QED
    BY <1>2, <1>3, <2>1, <2>2 DEF PInv, InboxInv
<1> QED
  BY <1>2, <1>6, <1>7, <1>8 DEF PInv

LEMMA TailOf ==
  ASSUME NEW T, NEW s \in Seq(T), s # <<>>
  PROVE  /\ Tail(s) \in Seq(T) /\ Len(s) \in Nat \ {0}
         /\ Len(Tail(s)) = Len(s) - 1 /\ Head(s) = s[1]
         /\ \A i \in 1 .. Len(s) - 1 : i + 1 \in 1 .. Len(s) /\ Tail(s)[i] = s[i + 1]
  OBVIOUS

\* What the client has numbered and predicted stays.
LEMMA ClientStays ==
  ASSUME ClientInv, UNCHANGED client_vars
  PROVE  /\ ClientInv' /\ Sent' = Sent /\ predicted' = predicted
         /\ client' = client /\ FirstSnapshot' = FirstSnapshot
<1>1. /\ client' = client /\ next_input_seq' = next_input_seq
      /\ pending_inputs' = pending_inputs /\ predicted' = predicted
  BY DEF client_vars, reconciler_vars
<1>2. Sent' = Sent /\ FirstSnapshot' = FirstSnapshot
  BY <1>1 DEF Sent, FirstSnapshot
<1>3. WindowInv'
  BY <1>1, <1>2 DEF ClientInv, WindowInv, Consecutive
<1> QED
  BY <1>1, <1>2, <1>3 DEF ClientInv, ClientTyped

\* A packet read: the numbering starts, or the acknowledgement moves on.
LEMMA ReceiveKeeps ==
  ASSUME TypeOK, PInv, Receive
  PROVE  PInv'
<1> DEFINE n == Len(inbox)
           packet == Head(inbox)
<1>1. /\ Sent \in Nat /\ Seen \in InputSeqs /\ predicted.base \in InputSeqs
      /\ in_session => processed[Local] \in InputSeqs
      /\ InputSeqs \subseteq Nat
  BY Numbers
<1>2. /\ inbox # <<>> /\ inbox' = Tail(inbox) /\ inbox \in Seq(Packets)
      /\ UNCHANGED <<in_session, processed, outbox>>
      /\ input_queues_by_player' = input_queues_by_player
      /\ last_input_seq_by_player' = last_input_seq_by_player
  BY DEF Receive, PInv, InboxInv, vars, queue_vars
<1>3. /\ inbox' \in Seq(Packets) /\ n \in Nat \ {0}
      /\ Len(inbox') = n - 1 /\ packet = inbox[1]
      /\ \A i \in 1 .. n - 1 : i + 1 \in 1 .. n /\ inbox'[i] = inbox[i + 1]
  BY <1>2, TailOf
<1>4. Seen' = Seen
  BY <1>2 DEF Seen
<1>5. \A i \in FirstSnapshot .. n :
        /\ IsSnapshot(inbox[i])
        /\ AckOf(inbox[i]) \in InputSeqs
        /\ predicted.base <= AckOf(inbox[i])
        /\ AckOf(inbox[i]) <= Sent
        /\ in_session => AckOf(inbox[i]) <= processed[Local]
        /\ \A j \in i .. n : AckOf(inbox[i]) <= AckOf(inbox[j])
  BY AckTyped DEF PInv, InboxInv
<1> HIDE DEF n
<1>6. client # "gone"
  BY <1>2 DEF PInv, InboxInv
<1>7. CASE packet.type = "join_accept"
  <2>1. client = "joining"
    <3> SUFFICES ASSUME client # "joining" PROVE FALSE
      OBVIOUS
    <3>1. 1 \in FirstSnapshot .. n
      BY <1>3 DEF FirstSnapshot
    <3>2. inbox[1].type = "state_snapshot"
      BY <1>5, <3>1 DEF IsSnapshot
    <3> QED
      BY <1>3, <1>7, <3>2
  <2>2. ResetReconciler
    BY <1>7 DEF Receive
  <2>3. ClientInv' /\ client' = "joined" /\ predicted'.base = 0 /\ Sent' = 0
    BY <2>2, ResetClient DEF ResetReconciler, Untouched, Sent
  <2>4. Sent = 0 /\ predicted.base = 0
    BY <2>1 DEF PInv, ClientInv, Sent, Untouched
  <2>5. SessionInv'
    BY <1>2, <1>4, <1>6, <2>3, <2>4 DEF PInv, SessionInv, ProcessedTyped
  <2>6. OutboxInv'
    BY <1>2, <1>4, <1>6, <2>3, <2>4 DEF PInv, OutboxInv
  <2>7. FirstSnapshot = 2 /\ FirstSnapshot' = 1
    BY <2>1, <2>3 DEF FirstSnapshot
  <2>8. ASSUME NEW i \in 1 .. n - 1
        PROVE  /\ IsSnapshot(inbox'[i])
               /\ 0 <= AckOf(inbox'[i])
               /\ AckOf(inbox'[i]) <= 0
               /\ in_session => AckOf(inbox'[i]) <= processed[Local]
               /\ \A j \in i .. n - 1 : AckOf(inbox'[i]) <= AckOf(inbox'[j])
    <3>1. i + 1 \in 2 .. n /\ \A j \in i .. n - 1 : j + 1 \in i + 1 .. n /\ j \in 1 .. n - 1
      BY <1>3
    <3>2. /\ IsSnapshot(inbox[i + 1])
          /\ 0 <= AckOf(inbox[i + 1]) /\ AckOf(inbox[i + 1]) <= 0
          /\ in_session => AckOf(inbox[i + 1]) <= processed[Local]
          /\ \A j \in i + 1 .. n : AckOf(inbox[i + 1]) <= AckOf(inbox[j])
      BY <1>5, <2>4, <2>7, <3>1
    <3>3. \A j \in 1 .. n - 1 : inbox'[j] = inbox[j + 1]
      BY <1>3
    <3> QED
      BY <3>1, <3>2, <3>3
  <2>9. in_session => 0 <= processed[Local]
    BY Numbers
  <2>10. InboxInv'
    BY <1>2, <1>3, <2>3, <2>7, <2>8, <2>9 DEF InboxInv
  <2> QED
    BY <2>3, <2>5, <2>6, <2>10 DEF PInv
<1>8. CASE packet.type = "state_snapshot"
  <2>1. client = "joined"
    BY <1>3, <1>6, <1>8 DEF PInv, InboxInv, ClientInv, ClientTyped
  <2>2. FirstSnapshot = 1
    BY <2>1 DEF FirstSnapshot
  <2> DEFINE ack == AckOf(packet)
  <2>3. 1 \in FirstSnapshot .. n
    BY <1>3, <2>2
  <2>4. /\ IsSnapshot(packet) /\ ack \in InputSeqs
        /\ predicted.base <= ack /\ ack <= Sent
        /\ in_session => ack <= processed[Local]
        /\ \A j \in 1 .. n : ack <= AckOf(inbox[j])
    BY <1>3, <1>5, <2>3
  <2>5. Reconcile(ack)
    <3>1. \A own \in OwnStates(packet) : own.last_processed_input_seq = ack
      BY <2>4, AckTyped
    <3>2. \E own \in OwnStates(packet) : Reconcile(own.last_processed_input_seq)
      BY <1>8 DEF Receive
    <3> QED
      BY <3>1, <3>2
  <2> HIDE DEF ack
  <2>6. ClientInv' /\ predicted'.base = ack
    BY <2>1, <2>4, <2>5, ReconcileKeepsClient DEF PInv
  <2>7. client' = "joined" /\ Sent' = Sent /\ FirstSnapshot' = 1
    BY <2>1, <2>5 DEF Reconcile, Sent, FirstSnapshot
  <2>8. SessionInv'
    BY <1>2, <1>4, <1>6, <2>7 DEF PInv, SessionInv, ProcessedTyped
  <2>9. OutboxInv'
    BY <1>2, <1>4, <1>6, <2>7 DEF PInv, OutboxInv
  <2>10. ASSUME NEW i \in 1 .. n - 1
         PROVE  /\ IsSnapshot(inbox'[i])
                /\ ack <= AckOf(inbox'[i])
                /\ AckOf(inbox'[i]) <= Sent
                /\ in_session => AckOf(inbox'[i]) <= processed[Local]
                /\ \A j \in i .. n - 1 : AckOf(inbox'[i]) <= AckOf(inbox'[j])
    <3>1. /\ i + 1 \in 1 .. n
          /\ \A j \in i .. n - 1 : j + 1 \in i + 1 .. n /\ j \in 1 .. n - 1
      BY <1>3
    <3>2. /\ IsSnapshot(inbox[i + 1])
          /\ ack <= AckOf(inbox[i + 1]) /\ AckOf(inbox[i + 1]) <= Sent
          /\ in_session => AckOf(inbox[i + 1]) <= processed[Local]
          /\ \A j \in i + 1 .. n : AckOf(inbox[i + 1]) <= AckOf(inbox[j])
      BY <1>5, <2>2, <2>4, <3>1
    <3>3. \A j \in 1 .. n - 1 : inbox'[j] = inbox[j + 1]
      BY <1>3
    <3> QED
      BY <3>1, <3>2, <3>3
  <2>11. InboxInv'
    BY <1>2, <1>3, <2>4, <2>6, <2>7, <2>10 DEF InboxInv
  <2> QED
    BY <2>6, <2>8, <2>9, <2>11 DEF PInv
<1> QED
  BY <1>7, <1>8 DEF Receive

\* A client process that ends leaves only what the server has of it.
LEMMA QuitKeeps ==
  ASSUME TypeOK, PInv, Quit
  PROVE  PInv'
<1>1. /\ client' = "gone" /\ inbox' = <<>> /\ next_input_seq' = 1
      /\ pending_inputs' = <<>> /\ predicted' = Untouched
      /\ UNCHANGED <<in_session, processed, outbox>>
      /\ input_queues_by_player' = input_queues_by_player
      /\ last_input_seq_by_player' = last_input_seq_by_player
  BY DEF Quit, vars, queue_vars
<1>2. ClientInv'
  BY <1>1, ResetClient
<1>3. Seen' = Seen
  BY <1>1 DEF Seen
<1>4. SessionInv'
  BY <1>1, <1>3 DEF PInv, SessionInv, ProcessedTyped
<1>5. OutboxInv'
  BY <1>1, <1>3 DEF PInv, OutboxInv
<1>6. InboxInv'
  <2>1. predicted'.base = 0 /\ FirstSnapshot' = 1 /\ Len(inbox') = 0
        /\ inbox' \in Seq(Packets)
    BY <1>1 DEF Untouched, FirstSnapshot
  <2>2. in_session => 0 <= processed[Local]
    BY Numbers
  <2> QED
    BY <1>1, <2>1, <2>2 DEF InboxInv
<1> QED
  BY <1>2, <1>4, <1>5, <1>6 DEF PInv

\* A new client process: nothing of an earlier stay is left.
LEMMA JoinKeeps ==
  ASSUME TypeOK, PInv, Join
  PROVE  PInv'
<1>1. /\ client = "gone" /\ ~in_session /\ client' = "joining" /\ in_session' = TRUE
      /\ processed' = Emplace(processed, Local, 0)
      /\ inbox' = <<[type |-> "join_accept"]>> /\ outbox' = <<>>
      /\ UNCHANGED reconciler_vars
      /\ input_queues_by_player' = input_queues_by_player
      /\ last_input_seq_by_player' = last_input_seq_by_player
  BY DEF Join, vars, queue_vars
<1>2. /\ next_input_seq' = 1 /\ pending_inputs' = <<>> /\ predicted' = Untouched
  BY <1>1 DEF PInv, ClientInv, reconciler_vars
<1>3. ClientInv'
  BY <1>1, <1>2, ResetClient
<1>4. Local \in Players /\ 0 \in InputSeqs
  BY LoopAssumption, PipelineAssumption DEF InputSeqs
<1>5. /\ Local \notin DOMAIN processed /\ Local \notin DOMAIN last_input_seq_by_player
      /\ input_queues_by_player[Local] = <<>>
  BY <1>1 DEF PInv, SessionInv
<1>6. /\ DOMAIN processed' = DOMAIN processed \cup {Local} /\ processed'[Local] = 0
      /\ \A p \in DOMAIN processed : processed'[p] = processed[p]
      /\ processed' = [p \in DOMAIN processed' |-> processed'[p]]
  BY <1>1, <1>5 DEF Emplace, Put
<1>7. ProcessedTyped'
  BY <1>4, <1>6 DEF PInv, SessionInv, ProcessedTyped, Players, InputSeqs
<1>8. Seen' = 0 /\ Sent' = 0
  BY <1>1, <1>2, <1>5 DEF Seen, Sent
<1>9. SessionInv'
  BY <1>1, <1>5, <1>6, <1>7, <1>8 DEF SessionInv
<1>10. OutboxInv'
  BY <1>1 DEF OutboxInv
<1>11. InboxInv'
  <2>1. /\ inbox' \in Seq(Packets) /\ Len(inbox') = 1
        /\ inbox'[1] = [type |-> "join_accept"] /\ inbox' # <<>>
    BY <1>1 DEF Packets
  <2>2. FirstSnapshot' = 2 /\ predicted'.base = 0
    BY <1>1, <1>2 DEF FirstSnapshot, Untouched
  <2> QED
    BY <1>1, <1>6, <2>1, <2>2 DEF InboxInv
<1> QED
  BY <1>3, <1>9, <1>10, <1>11 DEF PInv

\* The server takes the oldest input on its way, or drops it.
LEMMA DeliverKeeps ==
  ASSUME TypeOK, PInv, DeliverInput
  PROVE  PInv'
<1> DEFINE seq == Head(outbox)
           n == Len(outbox)
           queue == input_queues_by_player[Local]
<1>1. /\ Sent \in Nat /\ Seen \in InputSeqs
      /\ processed[Local] \in InputSeqs /\ InputSeqs \subseteq Nat
      /\ queue \in Seq(InputSeqs)
  BY Numbers DEF DeliverInput
<1>2. /\ in_session /\ outbox # <<>> /\ outbox' = Tail(outbox)
      /\ UNCHANGED <<in_session, processed, client_vars, inbox>>
      /\ InputAccepted(Local, seq) \/ InputDropped(Local, seq)
  BY DEF DeliverInput
<1>3. outbox \in Seq(InputSeqs)
  BY DEF PInv, OutboxInv
<1>4. /\ outbox' \in Seq(InputSeqs) /\ n \in Nat \ {0} /\ Len(outbox') = n - 1
      /\ seq = outbox[1]
      /\ \A i \in 1 .. n - 1 : i + 1 \in 1 .. n /\ outbox'[i] = outbox[i + 1]
  BY <1>2, <1>3, TailOf
<1>5. /\ \A i, j \in 1 .. n : i < j => outbox[i] < outbox[j]
      /\ \A i \in 1 .. n : Seen < outbox[i]
      /\ client # "gone" => \A i \in 1 .. n : outbox[i] <= Sent
  BY <1>2 DEF PInv, OutboxInv
<1>6. /\ ClientInv' /\ Sent' = Sent /\ predicted' = predicted
      /\ client' = client /\ FirstSnapshot' = FirstSnapshot
  BY <1>2, ClientStays DEF PInv
<1>7. seq \in InputSeqs /\ Seen < seq /\ (client # "gone" => seq <= Sent)
  <2>1. 1 \in 1 .. n
    BY <1>4
  <2> QED
    BY <1>3, <1>4, <1>5, <2>1
<1> HIDE DEF seq, n
<1>8. InboxInv'
  BY <1>2, <1>6 DEF PInv, InboxInv
<1>9. CASE InputDropped(Local, seq)
  <2>1. /\ input_queues_by_player' = input_queues_by_player
        /\ last_input_seq_by_player' = last_input_seq_by_player
    BY <1>9 DEF InputDropped, vars, queue_vars
  <2>2. Seen' = Seen
    BY <2>1 DEF Seen
  <2>3. SessionInv'
    BY <1>2, <1>6, <2>1, <2>2 DEF PInv, SessionInv, ProcessedTyped
  <2>4. OutboxInv'
    BY <1>2, <1>4, <1>5, <1>6, <2>2 DEF OutboxInv
  <2> QED
    BY <1>6, <1>8, <2>3, <2>4 DEF PInv
<1>10. CASE InputAccepted(Local, seq)
  <2>1. /\ input_queues_by_player' =
             [input_queues_by_player EXCEPT ![Local] = Append(@, seq)]
        /\ last_input_seq_by_player' = Put(last_input_seq_by_player, Local, seq)
    BY <1>10 DEF InputAccepted
  <2>2. input_queues_by_player'[Local] = Append(queue, seq)
    BY <2>1, PipelineAssumption DEF TypeOK
  <2>3. Seen' = seq
    BY <2>1 DEF Seen, Put
  <2>4. /\ processed[Local] <= Seen
        /\ \A i \in 1 .. Len(queue) : processed[Local] <= queue[i]
    BY <1>2 DEF PInv, SessionInv
  <2>5. processed[Local] <= seq
    <3>1. \A a, b, c \in Nat : a <= b /\ b < c => a <= c
      OBVIOUS
    <3>2. processed[Local] \in Nat /\ Seen \in Nat /\ seq \in Nat
      BY <1>1, <1>7, Zenon
    <3> QED
      BY <1>7, <2>4, <3>1, <3>2, Zenon
  <2> DEFINE longer == Append(queue, seq)
  <2>6. \A i \in 1 .. Len(longer) : processed[Local] <= longer[i]
    <3>1. /\ Len(longer) = Len(queue) + 1 /\ Len(queue) \in Nat
          /\ \A i \in 1 .. Len(queue) : longer[i] = queue[i]
          /\ longer[Len(queue) + 1] = seq
      BY <1>1, <1>7
    <3> HIDE DEF longer, queue
    <3> SUFFICES ASSUME NEW i \in 1 .. Len(longer) PROVE processed[Local] <= longer[i]
      OBVIOUS
    <3>2. CASE i = Len(queue) + 1
      BY <2>5, <3>1, <3>2
    <3>3. CASE i # Len(queue) + 1
      <4>1. i \in 1 .. Len(queue)
        BY <3>1, <3>3
      <4> QED
        BY <2>4, <3>1, <4>1
    <3> QED
      BY <3>2, <3>3
  <2>7. SessionInv'
    BY <1>2, <1>6, <1>7, <2>2, <2>3, <2>5, <2>6 DEF PInv, SessionInv, ProcessedTyped
  <2>8. \A i \in 1 .. n - 1 : seq < outbox'[i]
    <3> TAKE i \in 1 .. n - 1
    <3>1. 1 \in 1 .. n /\ i + 1 \in 1 .. n /\ 1 < i + 1
      BY <1>4
    <3> QED
      BY <1>4, <1>5, <3>1
  <2>9. OutboxInv'
    BY <1>2, <1>4, <1>5, <1>6, <2>3, <2>8 DEF OutboxInv
  <2> QED
    BY <1>6, <1>8, <2>7, <2>9 DEF PInv
<1> QED
  BY <1>2, <1>9, <1>10

\* What others send does not touch the client's queue.
LEMMA StrangerKeeps ==
  ASSUME TypeOK, PInv, NEW p \in Strangers, NEW seq \in InputSeqs, StrangerInput(p, seq)
  PROVE  PInv'
<1>1. /\ UNCHANGED <<in_session, processed, client_vars, outbox, inbox>>
      /\ InputAccepted(p, seq) \/ InputDropped(p, seq)
  BY DEF StrangerInput
<1>2. p # Local /\ Local \in Players
  BY PipelineAssumption DEF Strangers
<1>3. /\ input_queues_by_player'[Local] = input_queues_by_player[Local]
      /\ Local \in DOMAIN last_input_seq_by_player'
           <=> Local \in DOMAIN last_input_seq_by_player
      /\ Local \in DOMAIN last_input_seq_by_player =>
           last_input_seq_by_player'[Local] = last_input_seq_by_player[Local]
  BY <1>1, <1>2 DEF InputAccepted, InputDropped, vars, queue_vars, Put, TypeOK
<1>4. /\ ClientInv' /\ Sent' = Sent /\ predicted' = predicted
      /\ client' = client /\ FirstSnapshot' = FirstSnapshot
  BY <1>1, ClientStays DEF PInv
<1>5. Seen' = Seen
  BY <1>3 DEF Seen
<1>6. SessionInv'
  BY <1>1, <1>3, <1>4, <1>5 DEF PInv, SessionInv, ProcessedTyped
<1>7. OutboxInv'
  BY <1>1, <1>4, <1>5 DEF PInv, OutboxInv
<1>8. InboxInv'
  BY <1>1, <1>4 DEF PInv, InboxInv
<1> QED
  BY <1>4, <1>6, <1>7, <1>8 DEF PInv

\* A session that ends takes queue, numbering and acknowledgement with it.
LEMMA EndSessionKeeps ==
  ASSUME TypeOK, PInv, EndSession
  PROVE  PInv'
<1>1. /\ in_session' = FALSE /\ outbox' = <<>>
      /\ processed' = Erase(processed, {Local})
      /\ input_queues_by_player' = [input_queues_by_player EXCEPT ![Local] = <<>>]
      /\ last_input_seq_by_player' = Erase(last_input_seq_by_player, {Local})
      /\ UNCHANGED <<client_vars, inbox>>
  BY DEF EndSession, ClearPlayer
<1>2. /\ ClientInv' /\ Sent' = Sent /\ predicted' = predicted
      /\ client' = client /\ FirstSnapshot' = FirstSnapshot
  BY <1>1, ClientStays DEF PInv
<1>3. /\ Local \notin DOMAIN processed' /\ ProcessedTyped'
  BY <1>1 DEF PInv, SessionInv, ProcessedTyped, Erase, Players, InputSeqs
<1>4. /\ input_queues_by_player'[Local] = <<>>
      /\ Local \notin DOMAIN last_input_seq_by_player'
  BY <1>1, PipelineAssumption DEF TypeOK, Erase
<1>5. SessionInv'
  BY <1>1, <1>3, <1>4 DEF SessionInv
<1>6. OutboxInv'
  BY <1>1 DEF OutboxInv
<1>7. InboxInv'
  BY <1>1, <1>2 DEF PInv, InboxInv
<1> QED
  BY <1>2, <1>5, <1>6, <1>7 DEF PInv

\* A slot of somebody else changes hands.
LEMMA ReplacedKeeps ==
  ASSUME TypeOK, PInv, NEW p \in Strangers, StrangerReplaced(p)
  PROVE  PInv'
<1>1. /\ UNCHANGED <<in_session, client_vars, outbox, inbox>>
      /\ processed' = [processed EXCEPT ![p] = 0]
      /\ input_queues_by_player' = [input_queues_by_player EXCEPT ![p] = <<>>]
      /\ last_input_seq_by_player' = Erase(last_input_seq_by_player, {p})
  BY DEF StrangerReplaced, ClearPlayer
<1>2. p # Local /\ Local \in Players /\ 0 \in InputSeqs
  BY LoopAssumption, PipelineAssumption DEF Strangers, InputSeqs
<1>3. /\ input_queues_by_player'[Local] = input_queues_by_player[Local]
      /\ Local \in DOMAIN last_input_seq_by_player'
           <=> Local \in DOMAIN last_input_seq_by_player
      /\ Local \in DOMAIN last_input_seq_by_player =>
           last_input_seq_by_player'[Local] = last_input_seq_by_player[Local]
  BY <1>1, <1>2 DEF Erase, TypeOK
<1>4. /\ ClientInv' /\ Sent' = Sent /\ predicted' = predicted
      /\ client' = client /\ FirstSnapshot' = FirstSnapshot
  BY <1>1, ClientStays DEF PInv
<1>5. Seen' = Seen
  BY <1>3 DEF Seen
<1>6. /\ DOMAIN processed' = DOMAIN processed /\ ProcessedTyped'
      /\ Local \in DOMAIN processed => processed'[Local] = processed[Local]
  BY <1>1, <1>2 DEF PInv, SessionInv, ProcessedTyped, Players, InputSeqs
<1>7. SessionInv'
  BY <1>1, <1>3, <1>4, <1>5, <1>6 DEF PInv, SessionInv
<1>8. OutboxInv'
  BY <1>1, <1>4, <1>5 DEF PInv, OutboxInv
<1>9. InboxInv'
  BY <1>1, <1>4, <1>6 DEF PInv, InboxInv, SessionInv
<1> QED
  BY <1>4, <1>7, <1>8, <1>9 DEF PInv

\* The ticks process what was queued and send the acknowledgement of it.
LEMMA TicksKeep ==
  ASSUME QueueInv, PInv, RunTicks
  PROVE  PInv'
<1> DEFINE queue == input_queues_by_player[Local]
           n == Len(inbox)
           due == SnapshotsDue
           told == [i \in 1 .. due |-> Snapshot(processed')]
<1>1. TypeOK
  BY DEF QueueInv
<1>2. /\ Sent \in Nat /\ Seen \in InputSeqs /\ predicted.base \in InputSeqs
      /\ in_session => processed[Local] \in InputSeqs
      /\ InputSeqs \subseteq Nat /\ queue \in Seq(InputSeqs)
  BY <1>1, Numbers
<1>3. /\ UNCHANGED <<in_session, client_vars, outbox>>
      /\ inbox' = IF in_session /\ client # "gone" THEN inbox \o told ELSE inbox
      /\ last_input_seq_by_player' = last_input_seq_by_player
      /\ \/ input_queues_by_player' = input_queues_by_player
         \/ input_queues_by_player' = [p \in Players |-> <<>>]
  BY DEF RunTicks, Advance, queue_vars
<1>4. /\ ClientInv' /\ Sent' = Sent /\ predicted' = predicted
      /\ client' = client /\ FirstSnapshot' = FirstSnapshot
  BY <1>3, ClientStays DEF PInv
<1>5. Seen' = Seen
  BY <1>3 DEF Seen
<1>6. Local \in Players
  BY PipelineAssumption
<1>7. /\ ProcessedTyped'
      /\ DOMAIN processed \subseteq DOMAIN processed'
      /\ Local \notin DOMAIN processed /\ queue = <<>> => Local \notin DOMAIN processed'
      /\ Local \in DOMAIN processed =>
           /\ processed[Local] <= processed'[Local]
           /\ \/ processed'[Local] = processed[Local]
              \/ \E i \in 1 .. Len(queue) : processed'[Local] = queue[i]
  <2> HIDE DEF queue
  <2>1. ProcessedTyped
    BY DEF PInv, SessionInv
  <2> QED
    BY <1>1, <1>6, <2>1, TicksAcknowledge DEF queue
<1>8. in_session <=> Local \in DOMAIN processed'
  BY <1>7 DEF PInv, SessionInv
<1>9. \A i \in 1 .. Len(queue) : queue[i] <= Seen
  <2> TAKE i \in 1 .. Len(queue)
  <2>1. /\ Local \in DOMAIN last_input_seq_by_player
        /\ queue[i] <= last_input_seq_by_player[Local]
    BY <1>6, QueueBelowLast DEF QueueInv
  <2> QED
    BY <2>1 DEF Seen
<1>10. in_session => processed'[Local] \in InputSeqs /\ processed'[Local] <= Seen
  <2> SUFFICES ASSUME in_session
               PROVE  processed'[Local] \in InputSeqs /\ processed'[Local] <= Seen
    OBVIOUS
  <2>1. processed'[Local] \in InputSeqs
    BY <1>7, <1>8 DEF ProcessedTyped, Players, InputSeqs
  <2>2. processed[Local] <= Seen
    BY DEF PInv, SessionInv
  <2>3. Local \in DOMAIN processed
    BY DEF PInv, SessionInv
  <2> QED
    BY <1>7, <1>9, <2>1, <2>2, <2>3
<1>11. ASSUME in_session, NEW i \in 1 .. Len(input_queues_by_player'[Local])
       PROVE  processed'[Local] <= input_queues_by_player'[Local][i]
  <2>1. input_queues_by_player'[Local] # <<>>
    BY <1>2, <1>3, <1>6, <1>11
  <2>2. input_queues_by_player' = input_queues_by_player
    BY <1>3, <1>6, <2>1
  <2>3. processed' = processed
    <3>1. DueTicks = 0
      <4> SUFFICES ASSUME DueTicks # 0 PROVE FALSE
        OBVIOUS
      <4>1. input_queues_by_player' = [p \in Players |-> <<>>]
        BY DEF RunTicks, Advance
      <4> QED
        BY <1>6, <2>1, <4>1
    <3>2. frames' = [j \in 1 .. 0 |->
                       Frame(tick_counter + j, IF j = 1 THEN DrainedInputs ELSE <<>>)]
      BY <3>1 DEF RunTicks, Advance
    <3>3. frames' = <<>>
      BY <3>2
    <3> QED
      BY <3>3 DEF RunTicks
  <2> QED
    BY <1>11, <2>2, <2>3 DEF PInv, SessionInv
<1>12. SessionInv'
  <2>1. ~in_session => /\ input_queues_by_player'[Local] = <<>>
                       /\ Local \notin DOMAIN last_input_seq_by_player'
    BY <1>3, <1>6 DEF PInv, SessionInv
  <2>2. in_session' = in_session /\ in_session \in BOOLEAN
    BY <1>3 DEF PInv, SessionInv
  <2>3. in_session /\ client # "gone" => Seen <= Sent
    BY DEF PInv, SessionInv
  <2> QED
    BY <1>4, <1>5, <1>7, <1>8, <1>10, <1>11, <2>1, <2>2, <2>3 DEF SessionInv
<1>13. OutboxInv'
  BY <1>3, <1>4, <1>5 DEF PInv, OutboxInv
<1>14. in_session => predicted.base <= processed'[Local]
  <2> SUFFICES ASSUME in_session PROVE predicted.base <= processed'[Local]
    OBVIOUS
  <2>1. predicted.base <= processed[Local] /\ processed[Local] <= processed'[Local]
    BY <1>7 DEF PInv, SessionInv, InboxInv
  <2>2. /\ predicted.base \in Nat /\ processed[Local] \in Nat
        /\ processed'[Local] \in Nat
    BY <1>2, <1>10
  <2> QED
    BY <2>1, <2>2
<1>15. \A i \in FirstSnapshot .. n :
         /\ IsSnapshot(inbox[i])
         /\ AckOf(inbox[i]) \in Nat
         /\ predicted.base <= AckOf(inbox[i])
         /\ AckOf(inbox[i]) <= Sent
         /\ in_session => AckOf(inbox[i]) <= processed'[Local]
         /\ \A j \in i .. n : AckOf(inbox[i]) <= AckOf(inbox[j])
  <2> TAKE i \in FirstSnapshot .. n
  <2>1. /\ IsSnapshot(inbox[i])
        /\ predicted.base <= AckOf(inbox[i])
        /\ AckOf(inbox[i]) <= Sent
        /\ in_session => AckOf(inbox[i]) <= processed[Local]
        /\ \A j \in i .. n : AckOf(inbox[i]) <= AckOf(inbox[j])
    BY DEF PInv, InboxInv
  <2>2. AckOf(inbox[i]) \in Nat
    BY <1>2, <2>1, AckTyped
  <2>3. in_session => AckOf(inbox[i]) <= processed'[Local]
    <3> SUFFICES ASSUME in_session PROVE AckOf(inbox[i]) <= processed'[Local]
      OBVIOUS
    <3> DEFINE ack == AckOf(inbox[i])
               before == processed[Local]
               after == processed'[Local]
    <3>1. /\ ack \in Nat /\ before \in Nat /\ after \in Nat
          /\ ack <= before /\ before <= after
      BY <1>2, <1>7, <1>10, <2>1, <2>2 DEF PInv, SessionInv
    <3> HIDE DEF ack, before, after
    <3>2. ack <= after
      BY <3>1
    <3> QED
      BY <3>2 DEF ack, after
  <2> QED
    BY <2>1, <2>2, <2>3
<1>16. inbox \in Seq(Packets) /\ n \in Nat
  BY DEF PInv, InboxInv
<1>17. CASE ~(in_session /\ client # "gone")
  <2>1. inbox' = inbox
    BY <1>3, <1>17
  <2>2. InboxInv'
    BY <1>3, <1>4, <1>14, <1>15, <1>16, <2>1 DEF PInv, InboxInv
  <2> QED
    BY <1>4, <1>12, <1>13, <2>2 DEF PInv
<1>18. CASE in_session /\ client # "gone"
  <2> DEFINE snapshot == Snapshot(processed')
             ack == processed'[Local]
             longer == inbox \o told
  <2>1. due \in Nat
    <3>1. DueTicks \in Nat
      BY <1>1, DueTicksExact
    <3>2. DOMAIN frames' = 1 .. DueTicks
      BY DEF RunTicks, Advance
    <3>3. IsFiniteSet({i \in DOMAIN frames' : frames'[i].snapshot_due})
      BY <3>1, <3>2, FS_Interval, FS_Subset
    <3> QED
      BY <3>3, FS_CardinalityType DEF SnapshotsDue
  <2>2. snapshot \in Packets /\ IsSnapshot(snapshot) /\ AckOf(snapshot) = ack
    <3>1. /\ Local \in DOMAIN processed' /\ DOMAIN processed' \subseteq Players
          /\ \A p \in DOMAIN processed' : processed'[p] \in InputSeqs
      BY <1>7, <1>8, <1>18 DEF ProcessedTyped, Players, InputSeqs
    <3> QED
      BY <3>1, SnapshotCarries
  <2>3. ack \in Nat /\ ack <= Sent /\ predicted.base <= ack
    <3>1. ack \in Nat /\ ack <= Seen /\ predicted.base <= ack
      BY <1>2, <1>10, <1>14, <1>18
    <3>2. Seen <= Sent /\ Seen \in Nat
      BY <1>2, <1>18 DEF PInv, SessionInv
    <3> HIDE DEF ack
    <3> QED
      BY <1>2, <3>1, <3>2
  <2> HIDE DEF snapshot, due
  <2>4. told \in Seq(Packets) /\ Len(told) = due /\ \A i \in 1 .. due : told[i] = snapshot
    BY <2>1, <2>2 DEF snapshot
  <2> HIDE DEF told
  <2>5. /\ longer \in Seq(Packets) /\ Len(longer) = n + due
        /\ \A i \in 1 .. n : longer[i] = inbox[i]
        /\ \A i \in n + 1 .. n + due : longer[i] = snapshot
    <3>1. /\ longer \in Seq(Packets) /\ Len(longer) = n + due
          /\ \A i \in 1 .. n : longer[i] = inbox[i]
          /\ \A i \in 1 .. due : longer[n + i] = told[i]
      BY <1>16, <2>1, <2>4
    <3>2. ASSUME NEW i \in n + 1 .. n + due PROVE longer[i] = snapshot
      <4> DEFINE k == i - n
      <4>1. k \in 1 .. due /\ n + k = i
        BY <1>16, <2>1
      <4> HIDE DEF k
      <4>2. longer[n + k] = told[k]
        BY <3>1, <4>1
      <4> QED
        BY <2>4, <4>1, <4>2
    <3> QED
      BY <3>1, <3>2
  <2>6. inbox' = longer
    BY <1>3, <1>18
  <2> HIDE DEF longer, ack, n
  <2>7. client = "joining" => n # 0 /\ inbox[1].type = "join_accept"
    BY <1>16 DEF PInv, InboxInv, n
  <2>8. FirstSnapshot \in {1, 2} /\ (client = "joining" => 1 <= n)
    BY <1>16, <2>7 DEF FirstSnapshot
  <2>9. ASSUME NEW i \in FirstSnapshot .. n + due
        PROVE  /\ IsSnapshot(longer[i])
               /\ AckOf(longer[i]) \in Nat
               /\ predicted.base <= AckOf(longer[i])
               /\ AckOf(longer[i]) <= Sent
               /\ AckOf(longer[i]) <= ack
               /\ i \in n + 1 .. n + due => AckOf(longer[i]) = ack
    <3>1. CASE i \in n + 1 .. n + due
      <4>1. longer[i] = snapshot
        BY <2>5, <3>1
      <4> QED
        BY <2>2, <2>3, <4>1
    <3>2. CASE i \notin n + 1 .. n + due
      <4>1. i \in FirstSnapshot .. n /\ i \in 1 .. n
        BY <1>16, <2>1, <2>8, <3>2
      <4>2. longer[i] = inbox[i]
        BY <2>5, <4>1
      <4> QED
        BY <1>15, <1>18, <3>2, <4>1, <4>2 DEF ack
    <3> QED
      BY <3>1, <3>2
  <2>10. ASSUME NEW i \in FirstSnapshot .. n + due, NEW j \in i .. n + due
         PROVE  AckOf(longer[i]) <= AckOf(longer[j])
    <3>1. j \in FirstSnapshot .. n + due
      BY <1>16, <2>1, <2>8
    <3>2. CASE j \in n + 1 .. n + due
      BY <2>9, <3>1, <3>2
    <3>3. CASE j \notin n + 1 .. n + due
      <4>1. i \in FirstSnapshot .. n /\ j \in i .. n /\ i \in 1 .. n /\ j \in 1 .. n
        BY <1>16, <2>1, <2>8, <3>1, <3>3
      <4>2. longer[i] = inbox[i] /\ longer[j] = inbox[j]
        BY <2>5, <4>1
      <4> QED
        BY <1>15, <4>1, <4>2
    <3> QED
      BY <3>2, <3>3
  <2>11. client = "joining" => longer # <<>> /\ longer[1].type = "join_accept"
    BY <1>16, <2>1, <2>5, <2>7, <2>8
  <2>12. InboxInv'
    BY <1>3, <1>4, <1>14, <1>18, <2>5, <2>6, <2>9, <2>10, <2>11 DEF InboxInv, ack
  <2> QED
    BY <1>4, <1>12, <1>13, <2>12 DEF PInv
<1> QED
  BY <1>17, <1>18

\* Steps that leave the pipeline alone.
LEMMA NothingKeeps ==
  ASSUME TypeOK, PInv, UNCHANGED <<in_session, processed, client_vars, outbox, inbox>>,
         UNCHANGED queue_vars
  PROVE  PInv'
<1>1. /\ input_queues_by_player' = input_queues_by_player
      /\ last_input_seq_by_player' = last_input_seq_by_player
      /\ in_session' = in_session /\ processed' = processed
      /\ outbox' = outbox /\ inbox' = inbox
  BY DEF queue_vars
<1>2. /\ ClientInv' /\ Sent' = Sent /\ predicted' = predicted
      /\ client' = client /\ FirstSnapshot' = FirstSnapshot
  BY ClientStays DEF PInv
<1>3. Seen' = Seen
  BY <1>1 DEF Seen
<1>4. SessionInv'
  BY <1>1, <1>2, <1>3 DEF PInv, SessionInv, ProcessedTyped
<1>5. OutboxInv'
  BY <1>1, <1>2, <1>3 DEF PInv, OutboxInv
<1>6. InboxInv'
  BY <1>1, <1>2 DEF PInv, InboxInv
<1> QED
  BY <1>2, <1>4, <1>5, <1>6 DEF PInv

\* No handler, tick or client step breaks the order of numbers along the way.
LEMMA PipelineInductive ==
  LoopInv /\ PInv /\ [PipelineNext]_pipeline_vars => PInv'
<1> SUFFICES ASSUME LoopInv, PInv, [PipelineNext]_pipeline_vars PROVE PInv'
  OBVIOUS
<1>1. QueueInv /\ TypeOK
  BY DEF LoopInv, QueueInv
<1>2. CASE QueueLocalInput
  BY <1>1, <1>2, QueueLocalKeeps
<1>3. CASE Receive
  BY <1>1, <1>3, ReceiveKeeps
<1>4. CASE Quit
  BY <1>1, <1>4, QuitKeeps
<1>5. CASE Join
  BY <1>1, <1>5, JoinKeeps
<1>6. CASE DeliverInput
  BY <1>1, <1>6, DeliverKeeps
<1>7. ASSUME NEW p \in Strangers, NEW seq \in InputSeqs, StrangerInput(p, seq)
      PROVE  PInv'
  BY <1>1, <1>7, StrangerKeeps
<1>8. CASE EndSession
  BY <1>1, <1>8, EndSessionKeeps
<1>9. ASSUME NEW p \in Strangers, StrangerReplaced(p) PROVE PInv'
  BY <1>1, <1>9, ReplacedKeeps
<1>10. CASE RunTicks
  BY <1>1, <1>10, TicksKeep
<1>11. CASE TimePasses
  <2>1. UNCHANGED <<in_session, processed, client_vars, outbox, inbox>>
        /\ UNCHANGED queue_vars
    BY <1>11 DEF TimePasses, ClockAdvances
  <2> QED
    BY <1>1, <2>1, NothingKeeps
<1>12. CASE UNCHANGED pipeline_vars
  <2>1. UNCHANGED <<in_session, processed, client_vars, outbox, inbox>>
        /\ UNCHANGED queue_vars
    BY <1>12 DEF pipeline_vars, vars
  <2> QED
    BY <1>1, <2>1, NothingKeeps
<1> QED
  BY <1>2, <1>3, <1>4, <1>5, <1>6, <1>7, <1>8, <1>9, <1>10, <1>11, <1>12
     DEF PipelineNext

\* At every moment, in every behaviour of clients, server and ticks.
THEOREM PipelineInvariant == PipelineSpec => []PInv
<1>1. PipelineInit => PInv
  BY PipelineInitially
<1>2. LoopInv /\ PInv /\ [PipelineNext]_pipeline_vars => PInv'
  BY PipelineInductive
<1>3. PipelineSpec => []LoopInv
  BY PipelineKeepsLoopInv
<1> QED
  BY <1>1, <1>2, <1>3, PTL DEF PipelineSpec

-----------------------------------------------------------------------------
(* What follows for the checked properties *)

\* reconcile replays on top of the acknowledged state what the acknowledgement
\* does not cover, no input twice and none left out but beyond the window.
THEOREM ReplayIsExact == PipelineSpec => []ReplayExact
<1>1. ASSUME PInv PROVE ReplayExact
  <2>1. WindowInv
    BY <1>1 DEF PInv, ClientInv
  <2> QED
    BY <2>1 DEF WindowInv, Consecutive, Sent, ReplayExact
<1> QED
  BY <1>1, PipelineInvariant, PTL

\* The next input to arrive is never taken for old by enqueue_input, also when a
\* client has come back and numbers from 1.
THEOREM ClientIsAlwaysHeard == PipelineSpec => []ClientIsHeard
<1>1. ASSUME LoopInv, PInv PROVE ClientIsHeard
  <2> SUFFICES ASSUME in_session, outbox # <<>> PROVE ~OutOfOrder(Local, Head(outbox))
    BY DEF ClientIsHeard
  <2> DEFINE seq == Head(outbox)
             queue == input_queues_by_player[Local]
  <2>1. TypeOK /\ QueuesOrdered /\ Local \in Players
    BY <1>1, PipelineAssumption DEF LoopInv, QueueInv
  <2>2. Seen \in Nat /\ queue \in Seq(InputSeqs) /\ InputSeqs \subseteq Nat
    BY <1>1, <2>1, Numbers
  <2>3. seq \in Nat /\ Seen < seq
    <3>1. outbox \in Seq(InputSeqs)
          /\ \A i \in 1 .. Len(outbox) : Seen < outbox[i]
      BY <1>1 DEF PInv, OutboxInv
    <3>2. 1 \in 1 .. Len(outbox) /\ seq = outbox[1] /\ seq \in InputSeqs
      BY <3>1
    <3> QED
      BY <2>2, <3>1, <3>2
  <2>4. Local \in DOMAIN last_input_seq_by_player
          => last_input_seq_by_player[Local] = Seen
    BY DEF Seen
  <2>5. queue # <<>> => Last(queue) = Seen
    BY <2>1, <2>4 DEF QueuesOrdered
  <2> HIDE DEF seq, queue
  <2>6. ~(seq <= Seen)
    BY <2>2, <2>3
  <2> QED
    BY <2>4, <2>5, <2>6 DEF OutOfOrder, seq, queue
<1> QED
  BY <1>1, PipelineInvariant, PipelineKeepsLoopInv, PTL

\* Numbers between low and high that never decrease.
Rising(s, low, high) ==
  /\ s \in Seq(Int)
  /\ low \in Int /\ high \in Int /\ low <= high
  /\ \A i \in 1 .. Len(s) : low <= s[i] /\ s[i] <= high
  /\ \A i \in 1 .. Len(s) - 1 : s[i] <= s[i + 1]

LEMMA RisingConcat ==
  ASSUME NEW s, NEW t, NEW low, NEW mid, NEW high,
         Rising(s, low, mid), Rising(t, mid, high)
  PROVE  Rising(s \o t, low, high)
<1> DEFINE m == Len(s)
           n == Len(t)
           st == s \o t
<1>1. /\ m \in Nat /\ n \in Nat /\ st \in Seq(Int) /\ Len(st) = m + n
      /\ low \in Int /\ mid \in Int /\ high \in Int /\ low <= mid /\ mid <= high
      /\ \A i \in 1 .. m : st[i] = s[i] /\ s[i] \in Int
      /\ \A i \in 1 .. n : t[i] \in Int
      /\ \A i \in m + 1 .. m + n : st[i] = t[i - m] /\ i - m \in 1 .. n
  BY DEF Rising
<1>2. /\ \A i \in 1 .. m : low <= s[i] /\ s[i] <= mid
      /\ \A i \in 1 .. m - 1 : s[i] <= s[i + 1]
      /\ \A i \in 1 .. n : mid <= t[i] /\ t[i] <= high
      /\ \A i \in 1 .. n - 1 : t[i] <= t[i + 1]
  BY DEF Rising
<1> HIDE DEF m, n, st
<1>3. ASSUME NEW i \in 1 .. m + n
      PROVE  /\ st[i] \in Int /\ low <= st[i] /\ st[i] <= high
             /\ i \in 1 .. m => st[i] <= mid
             /\ i \notin 1 .. m => mid <= st[i]
  <2>1. CASE i \in 1 .. m
    <3>1. st[i] = s[i] /\ s[i] \in Int /\ low <= s[i] /\ s[i] <= mid
      BY <1>1, <1>2, <2>1
    <3> QED
      BY <1>1, <2>1, <3>1
  <2>2. CASE i \notin 1 .. m
    <3>1. i \in m + 1 .. m + n
      BY <1>1, <2>2
    <3>2. st[i] = t[i - m] /\ i - m \in 1 .. n
      BY <1>1, <3>1
    <3>3. t[i - m] \in Int /\ mid <= t[i - m] /\ t[i - m] <= high
      BY <1>1, <1>2, <3>2
    <3> QED
      BY <1>1, <2>2, <3>2, <3>3
  <2> QED
    BY <2>1, <2>2
<1>4. ASSUME NEW i \in 1 .. (m + n) - 1 PROVE st[i] <= st[i + 1]
  <2>1. i \in 1 .. m + n /\ i + 1 \in 1 .. m + n
    BY <1>1
  <2>2. CASE i + 1 <= m
    <3>1. i \in 1 .. m - 1 /\ i \in 1 .. m /\ i + 1 \in 1 .. m
      BY <1>1, <2>2
    <3>2. st[i] = s[i] /\ st[i + 1] = s[i + 1]
      BY <1>1, <3>1
    <3> QED
      BY <1>2, <3>1, <3>2
  <2>3. CASE i = m
    <3>1. i \in 1 .. m /\ i + 1 \notin 1 .. m
      BY <1>1, <2>3
    <3>2. st[i] <= mid /\ mid <= st[i + 1] /\ st[i] \in Int /\ st[i + 1] \in Int
      BY <1>3, <2>1, <3>1
    <3> QED
      BY <1>1, <3>2
  <2>4. CASE m < i
    <3> DEFINE k == i - m
    <3>1. k \in 1 .. n - 1 /\ (i + 1) - m = k + 1
          /\ i \in m + 1 .. m + n /\ i + 1 \in m + 1 .. m + n
      BY <1>1, <2>4
    <3>2. st[i] = t[i - m] /\ st[i + 1] = t[(i + 1) - m]
      BY <1>1, <3>1
    <3>3. st[i] = t[k] /\ st[i + 1] = t[k + 1]
      BY <3>1, <3>2
    <3> HIDE DEF k
    <3> QED
      BY <1>2, <3>1, <3>3
  <2> QED
    BY <1>1, <2>2, <2>3, <2>4
<1>5. low <= high
  BY <1>1
<1> QED
  BY <1>1, <1>3, <1>4, <1>5 DEF Rising, st

LEMMA NumbersAreInts ==
  ASSUME NEW s \in Seq(InputSeqs)
  PROVE  s \in Seq(Int) /\ \A i \in 1 .. Len(s) : s[i] \in Int
<1>1. Len(s) \in Nat /\ s = [i \in 1 .. Len(s) |-> s[i]]
  OBVIOUS
<1>2. ASSUME NEW i \in 1 .. Len(s) PROVE s[i] \in Int
  <2>1. s[i] \in InputSeqs
    OBVIOUS
  <2>2. \A n \in InputSeqs : n \in Int
    BY DEF InputSeqs
  <2> QED
    BY <2>1, <2>2, Zenon
<1> QED
  BY <1>1, <1>2, AsSequence

LEMMA RisingSingle ==
  ASSUME NEW n \in Int
  PROVE  Rising(<<n>>, n, n)
BY DEF Rising

\* What the server has told and what it has been told of one stay is one rising
\* chain, from the acknowledgement the client replays from to the last input.
LEMMA ChainRises ==
  ASSUME LoopInv, PInv, client = "joined", in_session
  PROVE  Rising(<<predicted.base>>
                  \o [i \in 1 .. Len(inbox) |->
                        (CHOOSE q \in OwnStates(inbox[i]) : TRUE).last_processed_input_seq]
                  \o <<processed[Local]>> \o input_queues_by_player[Local] \o outbox
                  \o <<next_input_seq - 1>>, predicted.base, Sent)
<1> DEFINE base == predicted.base
           ack == processed[Local]
           queue == input_queues_by_player[Local]
           n == Len(inbox)
           acks == [i \in 1 .. n |-> AckOf(inbox[i])]
<1>1. TypeOK /\ QueuesOrdered /\ Local \in Players
  BY PipelineAssumption DEF LoopInv, QueueInv
<1>2. /\ Sent \in Nat /\ Seen \in Nat /\ base \in Nat /\ ack \in Nat
      /\ queue \in Seq(InputSeqs) /\ InputSeqs \subseteq Nat
  BY <1>1, Numbers
<1>3. base <= ack /\ ack <= Seen /\ Seen <= Sent
  BY DEF PInv, SessionInv, InboxInv
<1>4. Rising(acks, base, ack)
  <2>1. n \in Nat /\ FirstSnapshot = 1
    BY DEF PInv, InboxInv, FirstSnapshot
  <2>2. \A i \in 1 .. n : /\ IsSnapshot(inbox[i])
                          /\ base <= AckOf(inbox[i])
                          /\ AckOf(inbox[i]) <= ack
                          /\ \A j \in i .. n : AckOf(inbox[i]) <= AckOf(inbox[j])
    BY <2>1 DEF PInv, InboxInv
  <2>3. ASSUME NEW i \in 1 .. n PROVE acks[i] = AckOf(inbox[i]) /\ acks[i] \in Int
    <3>1. acks[i] = AckOf(inbox[i])
      OBVIOUS
    <3>2. AckOf(inbox[i]) \in InputSeqs
      BY <2>2, AckTyped
    <3>3. \A k \in InputSeqs : k \in Int
      BY DEF InputSeqs
    <3>4. AckOf(inbox[i]) \in Int
      BY <3>2, <3>3, Zenon
    <3> HIDE DEF acks
    <3> QED
      BY <3>1, <3>4, Zenon
  <2>4. acks = [i \in 1 .. n |-> acks[i]]
    OBVIOUS
  <2>5. DOMAIN acks = 1 .. n
    OBVIOUS
  <2> HIDE DEF acks, n
  <2>6. acks \in Seq(Int) /\ Len(acks) = n
    <3>1. acks \in Seq(Int)
      BY <2>1, <2>3, <2>4, AsSequence
    <3> QED
      BY <2>1, <2>5, <3>1
  <2>7. \A i \in 1 .. n - 1 : i \in 1 .. n /\ i + 1 \in 1 .. n /\ i + 1 \in i .. n
    BY <2>1
  <2>8. \A i \in 1 .. n - 1 : acks[i] <= acks[i + 1]
    BY <2>2, <2>3, <2>7
  <2>9. \A i \in 1 .. n : base <= acks[i] /\ acks[i] <= ack
    BY <2>2, <2>3
  <2> HIDE DEF base, ack
  <2> QED
    BY <1>2, <1>3, <2>6, <2>8, <2>9 DEF Rising
<1>5. Rising(queue, ack, Seen)
  <2>1. \A i \in 1 .. Len(queue) : ack <= queue[i]
    BY DEF PInv, SessionInv
  <2>2. ASSUME NEW i \in 1 .. Len(queue) PROVE queue[i] <= Seen
    <3>1. /\ Local \in DOMAIN last_input_seq_by_player
          /\ queue[i] <= last_input_seq_by_player[Local]
      BY <1>1, QueueBelowLast
    <3> QED
      BY <3>1 DEF Seen
  <2>3. \A i, j \in 1 .. Len(queue) : i < j => queue[i] < queue[j]
    BY <1>1 DEF QueuesOrdered
  <2> HIDE DEF queue, ack
  <2>4. queue \in Seq(Int) /\ \A i \in 1 .. Len(queue) : queue[i] \in Int
    BY <1>2, NumbersAreInts
  <2>5. ASSUME NEW i \in 1 .. Len(queue) - 1 PROVE queue[i] <= queue[i + 1]
    <3>1. i \in 1 .. Len(queue) /\ i + 1 \in 1 .. Len(queue) /\ i < i + 1
      BY <2>4
    <3> QED
      BY <2>3, <2>4, <3>1
  <2> QED
    BY <1>2, <1>3, <2>1, <2>2, <2>4, <2>5 DEF Rising
<1>6. Rising(outbox, Seen, Sent)
  <2>1. /\ outbox \in Seq(InputSeqs)
        /\ \A i, j \in 1 .. Len(outbox) : i < j => outbox[i] < outbox[j]
        /\ \A i \in 1 .. Len(outbox) : Seen < outbox[i] /\ outbox[i] <= Sent
    BY DEF PInv, OutboxInv
  <2>2. outbox \in Seq(Int) /\ \A i \in 1 .. Len(outbox) : outbox[i] \in Int
    BY <2>1, NumbersAreInts
  <2>3. ASSUME NEW i \in 1 .. Len(outbox) - 1 PROVE outbox[i] <= outbox[i + 1]
    <3>1. i \in 1 .. Len(outbox) /\ i + 1 \in 1 .. Len(outbox) /\ i < i + 1
      BY <2>2
    <3> QED
      BY <2>1, <2>2, <3>1
  <2>4. \A i \in 1 .. Len(outbox) : Seen <= outbox[i] /\ outbox[i] <= Sent
    BY <1>2, <2>1, <2>2
  <2> QED
    BY <1>2, <1>3, <2>2, <2>3, <2>4 DEF Rising
<1>7. Rising(<<base>>, base, base) /\ Rising(<<ack>>, ack, ack)
      /\ Rising(<<Sent>>, Sent, Sent)
  BY <1>2, RisingSingle
<1> HIDE DEF base, ack, queue, acks
<1>8. Rising(<<base>> \o acks, base, ack)
  BY <1>4, <1>7, RisingConcat
<1>9. Rising(<<base>> \o acks \o <<ack>>, base, ack)
  BY <1>7, <1>8, RisingConcat
<1>10. Rising(<<base>> \o acks \o <<ack>> \o queue, base, Seen)
  BY <1>5, <1>9, RisingConcat
<1>11. Rising(<<base>> \o acks \o <<ack>> \o queue \o outbox, base, Sent)
  BY <1>6, <1>10, RisingConcat
<1>12. Rising(<<base>> \o acks \o <<ack>> \o queue \o outbox \o <<Sent>>, base, Sent)
  BY <1>7, <1>11, RisingConcat
<1> QED
  BY <1>12 DEF base, ack, queue, acks, n, AckOf, Sent

\* From the acknowledged state through the snapshots, the queue and the packets to
\* the last input sent, nothing overtakes and nothing of an earlier stay is left.
THEOREM AcknowledgementsInOrder == PipelineSpec => []PipelineInv
<1>1. ASSUME LoopInv, PInv PROVE PipelineInv
  <2>1. PipelineTypeOK
    <3>1. ClientTyped /\ ProcessedTyped /\ in_session \in BOOLEAN /\ TypeOK
      BY <1>1 DEF PInv, ClientInv, SessionInv, LoopInv, QueueInv
    <3>2. Range(processed) \subseteq InputSeqs
      BY <3>1 DEF ProcessedTyped, Range
    <3>3. Len(pending_inputs) <= MaxPendingInputs
      <4>1. /\ Len(pending_inputs)
                 = IF Len(predicted.inputs) < MaxPendingInputs
                   THEN Len(predicted.inputs) ELSE MaxPendingInputs
            /\ Len(predicted.inputs) \in Nat
        BY <1>1, <3>1 DEF PInv, ClientInv, WindowInv, ClientTyped
      <4> QED
        BY <4>1, PipelineAssumption
    <3> QED
      BY <3>1, <3>2, <3>3 DEF PipelineTypeOK, ClientTyped, ProcessedTyped
  <2>2. AcknowledgedInOrder
    BY <1>1, ChainRises DEF AcknowledgedInOrder, Rising
  <2> QED
    BY <2>1, <2>2 DEF PipelineInv
<1> QED
  BY <1>1, PipelineInvariant, PipelineKeepsLoopInv, PTL

-----------------------------------------------------------------------------
(* The telemetry of the loop *)

HIDE PipelineAssumption
HIDE LoopAssumption

-----------------------------------------------------------------------------
(* Finite sets and sums *)

\* What holds of a finite set whenever it holds of it without any one element holds
\* of all of them.
LEMMA SetInduction ==
  ASSUME NEW U, IsFiniteSet(U), NEW Good,
         \A T \in SUBSET U : (\A x \in T : T \ {x} \in Good) => T \in Good
  PROVE  SUBSET U \subseteq Good
<1> DEFINE S == {n \in Nat : \A T \in SUBSET U : Cardinality(T) = n => T \in Good}
<1>1. \A T \in SUBSET U : IsFiniteSet(T) /\ Cardinality(T) \in Nat
  BY FS_Subset, FS_CardinalityType
<1>2. 0 \in S
  <2> SUFFICES ASSUME NEW T \in SUBSET U, Cardinality(T) = 0 PROVE T \in Good
    OBVIOUS
  <2>1. T = {}
    BY <1>1, FS_EmptySet
  <2> QED
    BY <2>1
<1>3. ASSUME NEW n \in Nat, n \in S PROVE n + 1 \in S
  <2> SUFFICES ASSUME NEW T \in SUBSET U, Cardinality(T) = n + 1 PROVE T \in Good
    OBVIOUS
  <2>1. \A x \in T : T \ {x} \in Good
    <3> TAKE x \in T
    <3>1. Cardinality(T \ {x}) = (n + 1) - 1
      BY <1>1, FS_RemoveElement
    <3>2. (n + 1) - 1 = n /\ T \ {x} \in SUBSET U
      OBVIOUS
    <3> QED
      BY <1>3, <3>1, <3>2
  <2> QED
    BY <2>1
<1> HIDE DEF S
<1>4. Nat \subseteq S
  BY <1>2, <1>3, Induction
<1>5. ASSUME NEW T \in SUBSET U PROVE T \in Good
  BY <1>1, <1>4, <1>5 DEF S
<1> QED
  BY <1>5

\* The sums over the subsets of S of up to n elements, each from those of one less.
IsIter(g, f, D) ==
  g = [s \in D |-> IF s = {} THEN 0 ELSE LET x == CHOOSE x \in s : TRUE IN f[x] + g[s \ {x}]]

\* SumFunctionOnSet is one such function, at its last place.
LEMMA SumIsIter ==
  ASSUME NEW f, NEW S
  PROVE  SumFunctionOnSet(f, S) = (CHOOSE g : IsIter(g, f, SUBSET S))[S]
  BY DEF SumFunctionOnSet, FoldFunctionOnSet, MapThenFoldSet, IsIter

LEMMA IterExists ==
  ASSUME NEW f, NEW S, IsFiniteSet(S)
  PROVE  \E g : IsIter(g, f, SUBSET S)
<1> DEFINE D(n) == {s \in SUBSET S : Cardinality(s) <= n}
           N == {n \in Nat : \E g : IsIter(g, f, D(n))}
<1>1. \A s \in SUBSET S : IsFiniteSet(s) /\ Cardinality(s) \in Nat
  BY FS_Subset, FS_CardinalityType
<1>2. 0 \in N
  <2> DEFINE g == [s \in D(0) |-> 0]
  <2>1. \A s \in D(0) : s = {}
    <3> TAKE s \in D(0)
    <3>1. Cardinality(s) = 0
      BY <1>1
    <3> QED
      BY <1>1, <3>1, FS_EmptySet
  <2>2. IsIter(g, f, D(0))
    BY <2>1 DEF IsIter
  <2> QED
    BY <2>2
<1>3. ASSUME NEW n \in Nat, n \in N PROVE n + 1 \in N
  <2>1. PICK g : IsIter(g, f, D(n))
    BY <1>3
  <2> DEFINE pick(s) == CHOOSE x \in s : TRUE
             h == [s \in D(n + 1) |-> IF s = {} THEN 0 ELSE f[pick(s)] + g[s \ {pick(s)}]]
  <2>2. \A s \in D(n + 1) : s # {} => pick(s) \in s /\ s \ {pick(s)} \in D(n)
    <3> SUFFICES ASSUME NEW s \in D(n + 1), s # {}
                 PROVE  pick(s) \in s /\ s \ {pick(s)} \in D(n)
      OBVIOUS
    <3>1. pick(s) \in s
      OBVIOUS
    <3> HIDE DEF pick
    <3>2. Cardinality(s \ {pick(s)}) = Cardinality(s) - 1
      BY <1>1, <3>1, FS_RemoveElement
    <3> QED
      BY <1>1, <3>1, <3>2
  <2>3. \A s \in D(n) : s \in D(n + 1)
    BY <1>1
  <2>4. \A s \in D(n) : g[s] = IF s = {} THEN 0 ELSE f[pick(s)] + g[s \ {pick(s)}]
    BY <2>1 DEF IsIter
  <2>5. \A s \in D(n) : h[s] = g[s]
    BY <2>3, <2>4
  <2>6. \A s \in D(n + 1) : h[s] = IF s = {} THEN 0 ELSE f[pick(s)] + h[s \ {pick(s)}]
    <3> HIDE DEF pick
    <3> TAKE s \in D(n + 1)
    <3>1. CASE s = {}
      BY <3>1
    <3>2. CASE s # {}
      <4>1. h[s] = f[pick(s)] + g[s \ {pick(s)}]
        BY <3>2
      <4>2. h[s \ {pick(s)}] = g[s \ {pick(s)}]
        BY <2>2, <2>5, <3>2
      <4> QED
        BY <3>2, <4>1, <4>2
    <3> QED
      BY <3>1, <3>2
  <2>7. h = [s \in D(n + 1) |-> h[s]]
    OBVIOUS
  <2> HIDE DEF h, D
  <2>8. IsIter(h, f, D(n + 1))
    BY <2>6, <2>7 DEF IsIter
  <2> QED
    BY <2>8
<1> DEFINE m == Cardinality(S)
<1>4. m \in Nat
  BY <1>1
<1> HIDE DEF N, m
<1>5. m \in N
  BY <1>2, <1>3, <1>4, Induction
<1>6. D(m) = SUBSET S
  BY <1>1, FS_Subset DEF m
<1> HIDE DEF D
<1> QED
  BY <1>5, <1>6 DEF N

AgreeAt(g, h, s) == g[s] = h[s]

\* Two such functions agree where both are defined.
LEMMA IterUnique ==
  ASSUME NEW f, NEW S, IsFiniteSet(S), NEW T \in SUBSET S,
         NEW g, IsIter(g, f, SUBSET S), NEW h, IsIter(h, f, SUBSET T)
  PROVE  AgreeAt(g, h, T)
<1> DEFINE Good == {s \in SUBSET T : g[s] = h[s]}
           pick(s) == CHOOSE x \in s : TRUE
<1>1. IsFiniteSet(T)
  BY FS_Subset
<1>2. ASSUME NEW s \in SUBSET T, \A x \in s : s \ {x} \in Good PROVE s \in Good
  <2>1. /\ g[s] = IF s = {} THEN 0 ELSE f[pick(s)] + g[s \ {pick(s)}]
        /\ h[s] = IF s = {} THEN 0 ELSE f[pick(s)] + h[s \ {pick(s)}]
    BY DEF IsIter
  <2>2. s # {} => pick(s) \in s
    OBVIOUS
  <2> HIDE DEF pick
  <2> QED
    BY <1>2, <2>1, <2>2
<1>3. SUBSET T \subseteq Good
  <2> HIDE DEF Good
  <2> QED
    BY <1>1, <1>2, SetInduction
<1> QED
  BY <1>3 DEF AgreeAt

\* A sum is of the value at some place and of the sum over the others.
LEMMA SumPicks ==
  ASSUME NEW f, NEW S, IsFiniteSet(S), S # {}
  PROVE  LET x == CHOOSE x \in S : TRUE
         IN  /\ x \in S
             /\ SumFunctionOnSet(f, S) = f[x] + SumFunctionOnSet(f, S \ {x})
<1> DEFINE x == CHOOSE x \in S : TRUE
           T == S \ {x}
           g == CHOOSE g : IsIter(g, f, SUBSET S)
           h == CHOOSE h : IsIter(h, f, SUBSET T)
<1>1. x \in S /\ T \in SUBSET S /\ IsFiniteSet(T)
  BY FS_Subset
<1>2. IsIter(g, f, SUBSET S) /\ IsIter(h, f, SUBSET T)
  BY <1>1, IterExists
<1>3. SumFunctionOnSet(f, S) = g[S] /\ SumFunctionOnSet(f, T) = h[T]
  BY SumIsIter
<1> HIDE DEF g, h
<1>4. g[S] = f[x] + g[T]
  BY <1>2 DEF IsIter
<1>5. g[T] = h[T]
  <2> HIDE DEF x, T
  <2>1. AgreeAt(g, h, T)
    BY <1>1, <1>2, IterUnique
  <2> QED
    BY <2>1 DEF AgreeAt
<1> QED
  BY <1>1, <1>3, <1>4, <1>5

LEMMA SumOfNone == ASSUME NEW f PROVE SumFunctionOnSet(f, {}) = 0
  BY DEF SumFunctionOnSet, FoldFunctionOnSet, MapThenFoldSet

LEMMA SumTyped ==
  ASSUME NEW f, NEW S, IsFiniteSet(S), \A x \in S : f[x] \in Nat
  PROVE  SumFunctionOnSet(f, S) \in Nat
<1> DEFINE Good == {s \in SUBSET S : SumFunctionOnSet(f, s) \in Nat}
<1>1. ASSUME NEW s \in SUBSET S, \A x \in s : s \ {x} \in Good PROVE s \in Good
  <2>1. CASE s = {}
    BY <2>1, SumOfNone
  <2>2. CASE s # {}
    <3>1. IsFiniteSet(s)
      BY FS_Subset
    <3>2. PICK x \in s : SumFunctionOnSet(f, s) = f[x] + SumFunctionOnSet(f, s \ {x})
      BY <2>2, <3>1, SumPicks
    <3>3. f[x] \in Nat /\ SumFunctionOnSet(f, s \ {x}) \in Nat
      BY <1>1
    <3> QED
      BY <3>2, <3>3
  <2> QED
    BY <2>1, <2>2
<1>2. SUBSET S \subseteq Good
  <2> HIDE DEF Good
  <2> QED
    BY <1>1, SetInduction
<1> QED
  BY <1>2

\* Any place will do.
LEMMA SumStep ==
  ASSUME NEW f, NEW S, IsFiniteSet(S), \A x \in S : f[x] \in Nat, NEW a \in S
  PROVE  SumFunctionOnSet(f, S) = f[a] + SumFunctionOnSet(f, S \ {a})
<1> DEFINE sum(s) == SumFunctionOnSet(f, s)
           Good == {s \in SUBSET S : \A x \in s : sum(s) = f[x] + sum(s \ {x})}
<1>1. \A s \in SUBSET S : IsFiniteSet(s) /\ sum(s) \in Nat
  BY FS_Subset, SumTyped
<1>2. \A s \in SUBSET S : s # {} => \E p \in s : sum(s) = f[p] + sum(s \ {p})
  BY <1>1, SumPicks
<1> HIDE DEF sum
<1>3. ASSUME NEW s \in SUBSET S, \A x \in s : s \ {x} \in Good PROVE s \in Good
  <2> SUFFICES ASSUME NEW x \in s PROVE sum(s) = f[x] + sum(s \ {x})
    OBVIOUS
  <2>1. PICK p \in s : sum(s) = f[p] + sum(s \ {p})
    BY <1>2
  <2>2. CASE x = p
    BY <2>1, <2>2
  <2>3. CASE x # p
    <3>1. sum(s \ {p}) = f[x] + sum((s \ {p}) \ {x})
      BY <1>3, <2>3
    <3>2. sum(s \ {x}) = f[p] + sum((s \ {x}) \ {p})
      BY <1>3, <2>3
    <3>3. (s \ {p}) \ {x} = (s \ {x}) \ {p} /\ (s \ {p}) \ {x} \in SUBSET S
      OBVIOUS
    <3> DEFINE rest == sum((s \ {x}) \ {p})
    <3>4. f[x] \in Nat /\ f[p] \in Nat /\ rest \in Nat
      BY <1>1, <3>3
    <3>5. sum(s) = f[p] + (f[x] + rest) /\ sum(s \ {x}) = f[p] + rest
      BY <2>1, <3>1, <3>2, <3>3
    <3> HIDE DEF rest
    <3> QED
      BY <3>4, <3>5
  <2> QED
    BY <2>2, <2>3
<1>4. SUBSET S \subseteq Good
  <2> HIDE DEF Good
  <2> QED
    BY <1>3, SetInduction
<1> QED
  BY <1>4 DEF sum

\* The sum of the values at places that are told apart is that of the values, in
\* whatever order.
LEMMA SumOfRenamed ==
  ASSUME NEW f, NEW h, NEW S, IsFiniteSet(S), NEW to,
         \A x \in S : h[x] = f[to[x]] /\ f[to[x]] \in Nat,
         \A x, y \in S : to[x] = to[y] => x = y
  PROVE  SumFunctionOnSet(h, S) = SumFunctionOnSet(f, {to[x] : x \in S})
<1> DEFINE image(s) == {to[x] : x \in s}
           Good == {s \in SUBSET S : SumFunctionOnSet(h, s) = SumFunctionOnSet(f, image(s))}
<1>1. ASSUME NEW s \in SUBSET S, \A x \in s : s \ {x} \in Good PROVE s \in Good
  <2>1. CASE s = {}
    BY <2>1, SumOfNone
  <2>2. CASE s # {}
    <3>1. PICK x \in s : TRUE
      BY <2>2
    <3>2. IsFiniteSet(s)
      BY FS_Subset
    <3>3. IsFiniteSet(image(s))
      <4> DEFINE g == [y \in s |-> to[y]]
      <4>1. g \in Surjection(s, image(s))
        BY DEF Surjection
      <4> QED
        BY <3>2, <4>1, FS_Surjection
    <3>4. image(s) \ {to[x]} = image(s \ {x}) /\ to[x] \in image(s)
      BY <3>1
    <3>5. \A y \in image(s) : f[y] \in Nat
      OBVIOUS
    <3>6. SumFunctionOnSet(f, image(s)) = f[to[x]] + SumFunctionOnSet(f, image(s \ {x}))
      <4> DEFINE m == image(s)
                 a == to[x]
      <4>1. IsFiniteSet(m) /\ a \in m /\ (\A y \in m : f[y] \in Nat) /\ m \ {a} = image(s \ {x})
        BY <3>3, <3>4, <3>5
      <4> HIDE DEF m, a
      <4>2. SumFunctionOnSet(f, m) = f[a] + SumFunctionOnSet(f, m \ {a})
        BY <4>1, SumStep
      <4> QED
        BY <4>1, <4>2 DEF m, a
    <3>7. SumFunctionOnSet(h, s) = h[x] + SumFunctionOnSet(h, s \ {x})
      BY <3>1, <3>2, SumStep
    <3>8. SumFunctionOnSet(h, s \ {x}) = SumFunctionOnSet(f, image(s \ {x}))
      BY <1>1, <3>1
    <3> QED
      BY <3>1, <3>6, <3>7, <3>8
  <2> QED
    BY <2>1, <2>2
<1>2. SUBSET S \subseteq Good
  <2> HIDE DEF Good
  <2> QED
    BY <1>1, SetInduction
<1> QED
  BY <1>2

\* Sums of the same values are the same.
LEMMA SumOfSame ==
  ASSUME NEW f, NEW h, NEW S, IsFiniteSet(S), \A x \in S : h[x] = f[x] /\ f[x] \in Nat
  PROVE  SumFunctionOnSet(h, S) = SumFunctionOnSet(f, S)
<1> DEFINE to == [x \in S |-> x]
<1>1. SumFunctionOnSet(h, S) = SumFunctionOnSet(f, {to[x] : x \in S})
  <2>1. /\ \A x \in S : h[x] = f[to[x]] /\ f[to[x]] \in Nat
        /\ \A x, y \in S : to[x] = to[y] => x = y
    OBVIOUS
  <2> HIDE DEF to
  <2> QED
    BY <2>1, SumOfRenamed
<1>2. {to[x] : x \in S} = S
  OBVIOUS
<1> QED
  BY <1>1, <1>2

\* The sum of a sequence and one number more.
LEMMA SumOfAppend ==
  ASSUME NEW s \in Seq(Nat), NEW n \in Nat
  PROVE  SumFunction(Append(s, n)) = SumFunction(s) + n
<1> DEFINE t == Append(s, n)
           k == Len(s)
<1>1. /\ k \in Nat /\ DOMAIN s = 1 .. k /\ DOMAIN t = 1 .. k + 1 /\ t[k + 1] = n
      /\ \A i \in 1 .. k : t[i] = s[i] /\ s[i] \in Nat
      /\ \A i \in 1 .. k + 1 : t[i] \in Nat
  OBVIOUS
<1> HIDE DEF t, k
<1>2. (1 .. k + 1) \ {k + 1} = 1 .. k /\ k + 1 \in 1 .. k + 1
  BY <1>1
<1>3. IsFiniteSet(1 .. k) /\ IsFiniteSet(1 .. k + 1)
  BY <1>1, FS_Interval
<1>4. SumFunctionOnSet(t, 1 .. k + 1) = t[k + 1] + SumFunctionOnSet(t, 1 .. k)
  BY <1>1, <1>2, <1>3, SumStep
<1>5. SumFunctionOnSet(t, 1 .. k) = SumFunctionOnSet(s, 1 .. k)
  BY <1>1, <1>3, SumOfSame
<1>6. SumFunctionOnSet(s, 1 .. k) \in Nat
  BY <1>1, <1>3, SumTyped
<1> QED
  BY <1>1, <1>4, <1>5, <1>6 DEF SumFunction, t

-----------------------------------------------------------------------------
(* Sorting *)

\* The order is a permutation of the n places that makes s rise.
IsOrder(order, s, n) ==
  /\ order \in [1 .. n -> 1 .. n]
  /\ \A i, j \in 1 .. n : order[i] = order[j] => i = j
  /\ \A k \in 1 .. n : \E i \in 1 .. n : order[i] = k
  /\ \A i, j \in 1 .. n : i < j => s[order[i]] <= s[order[j]]

\* Some value of a sequence is the largest.
LEMMA LargestPlace ==
  ASSUME NEW n \in Nat, NEW s \in [1 .. n -> Nat], n > 0
  PROVE  \E m \in 1 .. n : \A i \in 1 .. n : s[i] <= s[m]
<1> DEFINE S == {k \in Nat : k \in 1 .. n => \E m \in 1 .. k : \A i \in 1 .. k : s[i] <= s[m]}
<1>1. 0 \in S
  OBVIOUS
<1>2. ASSUME NEW k \in Nat, k \in S PROVE k + 1 \in S
  <2> SUFFICES ASSUME k + 1 \in 1 .. n
               PROVE  \E m \in 1 .. k + 1 : \A i \in 1 .. k + 1 : s[i] <= s[m]
    OBVIOUS
  <2>1. CASE k = 0
    BY <2>1
  <2>2. CASE k # 0
    <3>1. PICK m \in 1 .. k : \A i \in 1 .. k : s[i] <= s[m]
      BY <1>2, <2>2
    <3>2. \A i \in 1 .. k + 1 : i \in 1 .. k \/ i = k + 1
      OBVIOUS
    <3>3. s[m] \in Nat /\ s[k + 1] \in Nat /\ m \in 1 .. k + 1 /\ \A i \in 1 .. k : s[i] \in Nat
      BY <3>1
    <3>4. CASE s[m] <= s[k + 1]
      <4>1. \A i \in 1 .. k : s[i] <= s[k + 1]
        BY <3>1, <3>3, <3>4
      <4>2. \A i \in 1 .. k + 1 : s[i] <= s[k + 1]
        BY <3>2, <3>3, <4>1
      <4>3. k + 1 \in 1 .. k + 1
        OBVIOUS
      <4> QED
        BY <4>2, <4>3
    <3>5. CASE ~(s[m] <= s[k + 1])
      <4>1. s[k + 1] <= s[m]
        BY <3>3, <3>5
      <4>2. \A i \in 1 .. k + 1 : s[i] <= s[m]
        BY <3>1, <3>2, <4>1
      <4> QED
        BY <3>3, <4>2
    <3> QED
      BY <3>4, <3>5
  <2> QED
    BY <2>1, <2>2
<1> HIDE DEF S
<1>3. n \in S
  BY <1>1, <1>2, Induction
<1> QED
  BY <1>3 DEF S

\* The largest goes last, its place is taken by the last, and the rest is sorted.
LEMMA OrderGrows ==
  ASSUME NEW n \in Nat, NEW s \in [1 .. n + 1 -> Nat],
         NEW m \in 1 .. n + 1, \A i \in 1 .. n + 1 : s[i] <= s[m],
         NEW r, r = [i \in 1 .. n |-> IF i = m THEN s[n + 1] ELSE s[i]],
         NEW inner, IsOrder(inner, r, n),
         NEW order, order = [i \in 1 .. n + 1 |->
                               IF i = n + 1 THEN m
                               ELSE IF inner[i] = m THEN n + 1 ELSE inner[i]]
  PROVE  IsOrder(order, s, n + 1)
<1>1. /\ inner \in [1 .. n -> 1 .. n]
      /\ \A i, j \in 1 .. n : inner[i] = inner[j] => i = j
      /\ \A k \in 1 .. n : \E i \in 1 .. n : inner[i] = k
      /\ \A i, j \in 1 .. n : i < j => r[inner[i]] <= r[inner[j]]
  BY DEF IsOrder
<1>2. /\ \A i \in 1 .. n + 1 : i \in 1 .. n \/ i = n + 1
      /\ \A i \in 1 .. n : i \in 1 .. n + 1 /\ i # n + 1
      /\ n + 1 \in 1 .. n + 1
      /\ \A i, j \in 1 .. n + 1 : i < j => i \in 1 .. n
  OBVIOUS
<1>3. /\ order[n + 1] = m
      /\ \A i \in 1 .. n : order[i] = IF inner[i] = m THEN n + 1 ELSE inner[i]
  BY <1>2
<1>4. order \in [1 .. n + 1 -> 1 .. n + 1]
  BY <1>1, <1>2
<1>5. \A i, j \in 1 .. n + 1 : order[i] = order[j] => i = j
  <2> TAKE i, j \in 1 .. n + 1
  <2> SUFFICES ASSUME order[i] = order[j] PROVE i = j
    OBVIOUS
  <2>1. \A k \in 1 .. n : order[k] # m
    BY <1>1, <1>2, <1>3
  <2>2. CASE i = n + 1 \/ j = n + 1
    BY <1>2, <1>3, <2>1, <2>2
  <2>3. CASE i \in 1 .. n /\ j \in 1 .. n
    <3>1. inner[i] = inner[j]
      BY <1>1, <1>2, <1>3, <2>3
    <3> QED
      BY <1>1, <2>3, <3>1
  <2> QED
    BY <1>2, <2>2, <2>3
<1>6. \A k \in 1 .. n + 1 : \E i \in 1 .. n + 1 : order[i] = k
  <2> TAKE k \in 1 .. n + 1
  <2>1. CASE k = m
    BY <1>2, <1>3, <2>1
  <2>2. CASE k = n + 1 /\ k # m
    <3>1. m \in 1 .. n
      BY <1>2, <2>2
    <3>2. PICK i \in 1 .. n : inner[i] = m
      BY <1>1, <3>1
    <3> QED
      BY <1>2, <1>3, <2>2, <3>2
  <2>3. CASE k \in 1 .. n /\ k # m
    <3>1. PICK i \in 1 .. n : inner[i] = k
      BY <1>1, <2>3
    <3> QED
      BY <1>2, <1>3, <2>3, <3>1
  <2> QED
    BY <1>2, <2>1, <2>2, <2>3
<1>7. \A i \in 1 .. n : s[order[i]] = r[inner[i]]
  <2> TAKE i \in 1 .. n
  <2>1. r[inner[i]] = IF inner[i] = m THEN s[n + 1] ELSE s[inner[i]]
    BY <1>1
  <2> QED
    BY <1>3, <2>1
<1>8. \A i, j \in 1 .. n + 1 : i < j => s[order[i]] <= s[order[j]]
  <2> TAKE i, j \in 1 .. n + 1
  <2> SUFFICES ASSUME i < j PROVE s[order[i]] <= s[order[j]]
    OBVIOUS
  <2>1. CASE j = n + 1
    BY <1>3, <1>4, <2>1
  <2>2. CASE j \in 1 .. n
    BY <1>1, <1>2, <1>7, <2>2
  <2> QED
    BY <1>2, <2>1, <2>2
<1> QED
  BY <1>4, <1>5, <1>6, <1>8 DEF IsOrder

LEMMA OrderIsBijection ==
  ASSUME NEW n, NEW s, NEW order
  PROVE  IsOrder(order, s, n)
           <=> /\ order \in Bijection(1 .. n, 1 .. n)
               /\ \A i, j \in 1 .. n : i < j => s[order[i]] <= s[order[j]]
<1> DEFINE D == 1 .. n
           Rises == \A i, j \in D : i < j => s[order[i]] <= s[order[j]]
<1>1. IsOrder(order, s, n) <=> /\ order \in [D -> D]
                               /\ \A i, j \in D : order[i] = order[j] => i = j
                               /\ \A k \in D : \E i \in D : order[i] = k
                               /\ Rises
  BY Zenon DEF IsOrder
<1> HIDE DEF D, Rises
<1>2. order \in Bijection(D, D) <=> /\ order \in [D -> D]
                                    /\ \A i, j \in D : order[i] = order[j] => i = j
                                    /\ \A k \in D : \E i \in D : order[i] = k
  BY Zenon DEF Bijection, Injection, Surjection, IsInjective
<1>3. IsOrder(order, s, n) <=> order \in Bijection(D, D) /\ Rises
  BY <1>1, <1>2, Zenon
<1> QED
  BY <1>3, Zenon DEF D, Rises

LEMMA OrderExists ==
  ASSUME NEW n \in Nat, NEW s \in [1 .. n -> Nat]
  PROVE  \E order : IsOrder(order, s, n)
<1> DEFINE S == {k \in Nat : \A q \in [1 .. k -> Nat] : \E order : IsOrder(order, q, k)}
<1>1. 0 \in S
  <2> SUFFICES ASSUME NEW q \in [1 .. 0 -> Nat] PROVE \E order : IsOrder(order, q, 0)
    OBVIOUS
  <2>1. IsOrder([i \in 1 .. 0 |-> i], q, 0)
    BY DEF IsOrder
  <2> QED
    BY <2>1
<1>2. ASSUME NEW k \in Nat, k \in S PROVE k + 1 \in S
  <2> SUFFICES ASSUME NEW q \in [1 .. k + 1 -> Nat]
               PROVE  \E order : IsOrder(order, q, k + 1)
    OBVIOUS
  <2>1. PICK m \in 1 .. k + 1 : \A i \in 1 .. k + 1 : q[i] <= q[m]
    <3> DEFINE l == k + 1
    <3>1. l \in Nat /\ l > 0 /\ q \in [1 .. l -> Nat]
      OBVIOUS
    <3> HIDE DEF l
    <3>2. \E m \in 1 .. l : \A i \in 1 .. l : q[i] <= q[m]
      BY <3>1, LargestPlace
    <3> QED
      BY <3>2 DEF l
  <2> DEFINE r == [i \in 1 .. k |-> IF i = m THEN q[k + 1] ELSE q[i]]
  <2>2. r \in [1 .. k -> Nat]
    OBVIOUS
  <2>3. PICK inner : IsOrder(inner, r, k)
    BY <1>2, <2>2
  <2> DEFINE order == [i \in 1 .. k + 1 |->
                         IF i = k + 1 THEN m ELSE IF inner[i] = m THEN k + 1 ELSE inner[i]]
  <2>4. /\ r = [i \in 1 .. k |-> IF i = m THEN q[k + 1] ELSE q[i]]
        /\ order = [i \in 1 .. k + 1 |->
                      IF i = k + 1 THEN m ELSE IF inner[i] = m THEN k + 1 ELSE inner[i]]
    OBVIOUS
  <2> HIDE DEF r, order
  <2>5. IsOrder(order, q, k + 1)
    BY <2>1, <2>3, <2>4, OrderGrows
  <2> QED
    BY <2>5
<1> HIDE DEF S
<1>3. n \in S
  BY <1>1, <1>2, Induction
<1> QED
  BY <1>3 DEF S

Reordered(t, s, n, order) == t = [i \in 1 .. n |-> s[order[i]]]

\* std::sort sorts.
LEMMA SortedIs ==
  ASSUME NEW s \in Seq(Nat), NEW n, n = Len(s)
  PROVE  \E order : IsOrder(order, s, n) /\ Reordered(Sorted(s), s, n, order)
<1>1. n \in Nat /\ DOMAIN s = 1 .. n /\ s \in [1 .. n -> Nat]
  OBVIOUS
<1> DEFINE Rises(order) == \A i, j \in 1 .. n : i < j => s[order[i]] <= s[order[j]]
           order == CHOOSE order \in Bijection(1 .. n, 1 .. n) : Rises(order)
<1>2. \E o \in Bijection(1 .. n, 1 .. n) : Rises(o)
  <2>1. PICK o : IsOrder(o, s, n)
    BY <1>1, OrderExists
  <2>2. o \in Bijection(1 .. n, 1 .. n) /\ Rises(o)
    BY <2>1, OrderIsBijection, Zenon
  <2> QED
    BY <2>2
<1>3. order \in Bijection(1 .. n, 1 .. n) /\ Rises(order)
  <2> HIDE DEF Rises
  <2> QED
    BY <1>2
<1>4. Sorted(s) = [i \in 1 .. n |-> s[order[i]]]
  BY <1>1 DEF Sorted
<1> HIDE DEF order
<1>5. IsOrder(order, s, n)
  BY <1>3, OrderIsBijection, Zenon
<1> QED
  BY <1>4, <1>5 DEF Reordered

Chosen(s, n, Such) == {i \in 1 .. n : s[i] \in Such}

\* Sorting does not change how many values are of a kind.
LEMMA CountOfSorted ==
  ASSUME NEW n \in Nat, NEW s, NEW order, IsOrder(order, s, n), NEW Such,
         NEW t, Reordered(t, s, n, order)
  PROVE  Cardinality(Chosen(t, n, Such)) = Cardinality(Chosen(s, n, Such))
<1> DEFINE A == {i \in 1 .. n : t[i] \in Such}
           B == {i \in 1 .. n : s[i] \in Such}
           f == [i \in A |-> order[i]]
<1>1. f \in [A -> B]
  BY DEF IsOrder, Reordered
<1>2. \A i, j \in A : f[i] = f[j] => i = j
  BY DEF IsOrder, Reordered
<1>3. \A k \in B : \E i \in A : f[i] = k
  <2> TAKE k \in B
  <2>1. PICK i \in 1 .. n : order[i] = k
    BY DEF IsOrder
  <2>2. i \in A
    BY <2>1 DEF Reordered
  <2> QED
    BY <2>1, <2>2
<1>4. IsFiniteSet(A)
  <2>1. IsFiniteSet(1 .. n) /\ A \in SUBSET (1 .. n)
    BY FS_Interval
  <2> HIDE DEF A
  <2> QED
    BY <2>1, FS_Subset
<1> HIDE DEF f, A, B
<1>5. f \in Bijection(A, B)
  BY <1>1, <1>2, <1>3, Zenon DEF Bijection, Injection, Surjection, IsInjective
<1>6. Cardinality(B) = Cardinality(A)
  BY <1>4, <1>5, FS_Bijection DEF ExistsBijection
<1> QED
  BY <1>6 DEF A, B, Chosen

-----------------------------------------------------------------------------
(* What a window tells of its ticks and packets *)

Outcomes == {"handled", "unparsable", "rejected"}
Lost == {"unparsable", "rejected"}

Windows ==
  [ticks_since_report : Nat, tick_lag_count : Nat, max_tick_overrun : Nat,
   tick_durations : Seq(Nat), phase_total : [Phases -> Nat], phase_max : [Phases -> Nat],
   inbound_packets_received : Nat, inbound_packets_dropped : Nat,
   inbound_parse_errors : Nat, command_rejections : Nat,
   packet_count_by_type : [MessageTypes -> Nat], total_packets_sent : Nat,
   peak_active_sessions : Nat, active_players_sum : Nat, active_players_samples : Nat]

DurationsOf(history) == [i \in DOMAIN history |-> history[i].elapsed]
PlayersOf(history) == [i \in DOMAIN history |-> history[i].players]
WorkOf(history, phase) == [i \in DOMAIN history |-> history[i].work[phase]]
SnapshotsOf(history) ==
  [i \in DOMAIN history |-> IF history[i].snapshot THEN history[i].players ELSE 0]

Places(history, Such) == {i \in DOMAIN history : history[i] \in Such}

IsLate(duration) == duration > TickBudget + TickLagTolerance
LateDurations == {d \in Nat : IsLate(d)}

\* By how much the longest of the late ticks overran the budget.
OverrunIs(overrun, durations) ==
  \/ overrun = 0 /\ Places(durations, LateDurations) = {}
  \/ \E i \in DOMAIN durations :
       /\ durations[i] \in LateDurations
       /\ overrun = durations[i] - TickBudget
       /\ \A j \in DOMAIN durations : durations[j] <= durations[i]

PeakIs(peak, players) ==
  /\ \A i \in DOMAIN players : players[i] <= peak
  /\ peak = 0 \/ \E i \in DOMAIN players : players[i] = peak

\* The time of a phase, and the longest it took.
PhaseIs(total, longest, work) == total = SumFunction(work) /\ PeakIs(longest, work)

PhasesCounted(w, history) ==
  \A phase \in Phases :
    PhaseIs(w.phase_total[phase], w.phase_max[phase], WorkOf(history, phase))

TicksCounted(w, history) ==
  /\ w.ticks_since_report = Len(history) /\ w.active_players_samples = Len(history)
  /\ w.tick_durations = DurationsOf(history)
  /\ w.tick_lag_count = Cardinality(Places(DurationsOf(history), LateDurations))
  /\ OverrunIs(w.max_tick_overrun, DurationsOf(history))
  /\ PhasesCounted(w, history)
  /\ w.active_players_sum = SumFunction(PlayersOf(history))
  /\ PeakIs(w.peak_active_sessions, PlayersOf(history))
  /\ w.packet_count_by_type["StateSnapshot"] = SumFunction(SnapshotsOf(history))

PacketsCounted(w, history) ==
  /\ w.inbound_packets_received = Len(history)
  /\ w.inbound_packets_dropped = Cardinality(Places(history, Lost))
  /\ w.inbound_packets_dropped = w.inbound_parse_errors + w.command_rejections

SentCounted(w) == w.total_packets_sent = SumFunction(w.packet_count_by_type)

Counted(w, of_ticks, of_packets) ==
  /\ w \in Windows
  /\ TicksCounted(w, of_ticks) /\ PacketsCounted(w, of_packets) /\ SentCounted(w)

\* A report is of a whole window, which is what the history tells.
TelemetryIInv ==
  /\ ticks \in Seq(Ticks) /\ packets \in Seq(Outcomes)
  /\ Counted(window, Since(ticks), Since(packets))
  /\ Len(Since(ticks)) < Interval
  /\ \A told \in report : /\ told = ReportOf(told.counters)
                          /\ Counted(told.counters, ticks, packets)
                          /\ Len(ticks) = Interval

-----------------------------------------------------------------------------

LEMMA TelemetryNumbers ==
  /\ HistorySize \in Nat /\ TickLagTolerance \in Nat /\ MinActivePlayers \in Nat
  /\ TickBudget \in Nat \ {0} /\ Percentile \in 1 .. 100
  /\ Times \subseteq Nat /\ PlayerCounts \subseteq Nat
  /\ Interval \in Nat \ {0} /\ History(Interval) \in Nat /\ Interval <= History(Interval)
<1>1. /\ HistorySize \in Nat /\ ReportInterval \in Nat
      /\ TickLagTolerance \in Nat /\ MinActivePlayers \in Nat
      /\ TickBudget \in Nat \ {0} /\ Percentile \in 1 .. 100
      /\ Times \subseteq Nat /\ PlayerCounts \subseteq Nat
  BY TelemetryAssumption DEF TelemetryAssumption
<1>2. Interval \in Nat \ {0}
  BY <1>1 DEF Interval
<1>3. History(Interval) = IF HistorySize >= Interval THEN HistorySize ELSE Interval
  <2> DEFINE n == Interval
  <2>1. n \in Int /\ HistorySize \in Int
    BY <1>1, <1>2
  <2> HIDE DEF n
  <2>2. Max({HistorySize, n}) = IF HistorySize >= n THEN HistorySize ELSE n
    BY <2>1, LargerOfTwo
  <2> QED
    BY <2>2 DEF History, n
<1> QED
  BY <1>1, <1>2, <1>3

LEMMA PhasesAndTypes == IsFiniteSet(Phases) /\ IsFiniteSet(MessageTypes)
<1>1. IsFiniteSet({"movement"}) /\ IsFiniteSet({"JoinAccept"})
  BY FS_Singleton
<1>2. IsFiniteSet({"movement"} \cup {"snapshot_send"})
  BY <1>1, FS_AddElement
<1>3. IsFiniteSet({"JoinAccept"} \cup {"MatchState"})
  BY <1>1, FS_AddElement
<1>4. IsFiniteSet(({"JoinAccept"} \cup {"MatchState"}) \cup {"StateSnapshot"})
  BY <1>3, FS_AddElement
<1>5. /\ Phases = {"movement"} \cup {"snapshot_send"}
      /\ MessageTypes = ({"JoinAccept"} \cup {"MatchState"}) \cup {"StateSnapshot"}
  BY DEF Phases, MessageTypes
<1> QED
  BY <1>2, <1>4, <1>5

LEMMA TickTyped ==
  ASSUME NEW t \in Ticks
  PROVE  /\ t.work \in [Phases -> Nat] /\ t.players \in Nat /\ t.snapshot \in BOOLEAN
         /\ t.elapsed \in Nat
  BY TelemetryNumbers DEF Ticks

\* Messages of a type more make the sum of all types as many more.
LEMMA SumOfMore ==
  ASSUME NEW f \in [MessageTypes -> Nat], NEW type \in MessageTypes, NEW n \in Nat,
         NEW g, g = [f EXCEPT ![type] = @ + n]
  PROVE  g \in [MessageTypes -> Nat] /\ SumFunction(g) = SumFunction(f) + n
<1>1. /\ g \in [MessageTypes -> Nat] /\ g[type] = f[type] + n /\ f[type] \in Nat
      /\ \A x \in MessageTypes \ {type} : g[x] = f[x] /\ f[x] \in Nat
      /\ \A x \in MessageTypes : g[x] \in Nat /\ f[x] \in Nat
      /\ DOMAIN g = MessageTypes /\ DOMAIN f = MessageTypes
  OBVIOUS
<1> DEFINE rest == MessageTypes \ {type}
<1>2. IsFiniteSet(rest)
  BY PhasesAndTypes, FS_RemoveElement
<1>3. /\ SumFunctionOnSet(g, MessageTypes) = g[type] + SumFunctionOnSet(g, rest)
      /\ SumFunctionOnSet(f, MessageTypes) = f[type] + SumFunctionOnSet(f, rest)
  <2>1. SumFunctionOnSet(g, MessageTypes)
          = g[type] + SumFunctionOnSet(g, MessageTypes \ {type})
    <3>1. \A x \in MessageTypes : g[x] \in Nat
      BY <1>1
    <3> HIDE DEF rest
    <3> QED
      BY <3>1, PhasesAndTypes, SumStep
  <2>2. SumFunctionOnSet(f, MessageTypes)
          = f[type] + SumFunctionOnSet(f, MessageTypes \ {type})
    <3>1. \A x \in MessageTypes : f[x] \in Nat
      BY <1>1
    <3> HIDE DEF rest
    <3> QED
      BY <3>1, PhasesAndTypes, SumStep
  <2> QED
    BY <2>1, <2>2
<1>4. SumFunctionOnSet(g, rest) = SumFunctionOnSet(f, rest)
  BY <1>1, <1>2, SumOfSame
<1>5. SumFunctionOnSet(f, rest) \in Nat
  BY <1>1, <1>2, SumTyped
<1> HIDE DEF rest
<1> QED
  BY <1>1, <1>3, <1>4, <1>5 DEF SumFunction

\* The places of a kind, after one more.
LEMMA CountOfAppend ==
  ASSUME NEW T, NEW s \in Seq(T), NEW x \in T, NEW Such
  PROVE  /\ IsFiniteSet(Places(s, Such)) /\ Cardinality(Places(s, Such)) \in Nat
         /\ Cardinality(Places(s, Such)) <= Len(s)
         /\ Cardinality(Places(Append(s, x), Such))
              = Cardinality(Places(s, Such)) + (IF x \in Such THEN 1 ELSE 0)
<1> DEFINE t == Append(s, x)
           n == Len(s)
           A == Places(s, Such)
           B == Places(t, Such)
<1>1. /\ n \in Nat /\ DOMAIN s = 1 .. n /\ DOMAIN t = 1 .. n + 1
      /\ t[n + 1] = x /\ \A i \in 1 .. n : t[i] = s[i]
  OBVIOUS
<1> HIDE DEF t, n
<1>2. A \in SUBSET (1 .. n) /\ n + 1 \notin A
  BY <1>1 DEF Places
<1>3. B = IF x \in Such THEN A \cup {n + 1} ELSE A
  <2>1. 1 .. n + 1 = (1 .. n) \cup {n + 1}
    BY <1>1
  <2> QED
    BY <1>1, <2>1 DEF Places
<1> HIDE DEF A, B
<1>4. IsFiniteSet(A) /\ Cardinality(A) \in Nat /\ Cardinality(A) <= n
  <2>1. IsFiniteSet(1 .. n) /\ Cardinality(1 .. n) = n
    BY <1>1, FS_Interval
  <2> QED
    BY <1>2, <2>1, FS_Subset, FS_CardinalityType
<1>5. Cardinality(A \cup {n + 1}) = Cardinality(A) + 1
  BY <1>2, <1>4, FS_AddElement
<1>6. Cardinality(B) = Cardinality(A) + (IF x \in Such THEN 1 ELSE 0)
  BY <1>3, <1>4, <1>5
<1> QED
  BY <1>4, <1>6 DEF A, B, n, t

\* A sequence of what the ticks of a history took or found, after one tick more.
LEMMA ColumnsOfTicks ==
  ASSUME NEW h \in Seq(Ticks), NEW t \in Ticks
  PROVE  /\ DurationsOf(h) \in Seq(Nat) /\ Len(DurationsOf(h)) = Len(h)
         /\ PlayersOf(h) \in Seq(Nat) /\ Len(PlayersOf(h)) = Len(h)
         /\ SnapshotsOf(h) \in Seq(Nat) /\ Len(SnapshotsOf(h)) = Len(h)
         /\ DurationsOf(Append(h, t)) = Append(DurationsOf(h), t.elapsed)
         /\ PlayersOf(Append(h, t)) = Append(PlayersOf(h), t.players)
         /\ SnapshotsOf(Append(h, t))
              = Append(SnapshotsOf(h), IF t.snapshot THEN t.players ELSE 0)
         /\ \A phase \in Phases :
              /\ WorkOf(h, phase) \in Seq(Nat) /\ Len(WorkOf(h, phase)) = Len(h)
              /\ WorkOf(Append(h, t), phase) = Append(WorkOf(h, phase), t.work[phase])
<1> DEFINE n == Len(h)
           g == Append(h, t)
<1>1. /\ n \in Nat /\ DOMAIN h = 1 .. n /\ DOMAIN g = 1 .. n + 1
      /\ g[n + 1] = t /\ \A i \in 1 .. n : g[i] = h[i] /\ h[i] \in Ticks
      /\ \A i \in 1 .. n + 1 : i \in 1 .. n \/ i = n + 1
  OBVIOUS
<1> HIDE DEF n, g
<1>2. \A f \in [1 .. n -> Nat], x \in Nat :
        /\ f \in Seq(Nat) /\ Len(f) = n
        /\ Append(f, x) = [i \in 1 .. n + 1 |-> IF i = n + 1 THEN x ELSE f[i]]
  <2> TAKE f \in [1 .. n -> Nat], x \in Nat
  <2>1. f \in Seq(Nat) /\ Len(f) = n
    BY <1>1
  <2> DEFINE a == Append(f, x)
  <2>2. a \in Seq(Nat) /\ Len(a) = n + 1 /\ \A i \in 1 .. n : a[i] = f[i]
    BY <1>1, <2>1
  <2>3. a[n + 1] = x
    BY <1>1, <2>1
  <2> HIDE DEF a
  <2>4. a = [i \in 1 .. n + 1 |-> a[i]]
    BY <1>1, <2>2
  <2>5. \A i \in 1 .. n + 1 : a[i] = IF i = n + 1 THEN x ELSE f[i]
    BY <1>1, <2>2, <2>3
  <2>6. a = [i \in 1 .. n + 1 |-> IF i = n + 1 THEN x ELSE f[i]]
    BY <2>4, <2>5
  <2> QED
    BY <2>1, <2>6 DEF a
<1>3. DurationsOf(h) \in [1 .. n -> Nat] /\ t.elapsed \in Nat
  BY <1>1, TickTyped DEF DurationsOf
<1>4. PlayersOf(h) \in [1 .. n -> Nat] /\ t.players \in Nat
  BY <1>1, TickTyped DEF PlayersOf
<1>5. SnapshotsOf(h) \in [1 .. n -> Nat] /\ (IF t.snapshot THEN t.players ELSE 0) \in Nat
  BY <1>1, TickTyped DEF SnapshotsOf
<1>6. DurationsOf(g) = [i \in 1 .. n + 1 |-> IF i = n + 1 THEN t.elapsed ELSE DurationsOf(h)[i]]
  BY <1>1 DEF DurationsOf
<1>7. PlayersOf(g) = [i \in 1 .. n + 1 |-> IF i = n + 1 THEN t.players ELSE PlayersOf(h)[i]]
  BY <1>1 DEF PlayersOf
<1>8. SnapshotsOf(g) = [i \in 1 .. n + 1 |-> IF i = n + 1 THEN IF t.snapshot THEN t.players ELSE 0
                                            ELSE SnapshotsOf(h)[i]]
  BY <1>1 DEF SnapshotsOf
<1>9. DurationsOf(g) = Append(DurationsOf(h), t.elapsed)
  BY <1>2, <1>3, <1>6
<1>10. PlayersOf(g) = Append(PlayersOf(h), t.players)
  BY <1>2, <1>4, <1>7
<1>11. SnapshotsOf(g) = Append(SnapshotsOf(h), IF t.snapshot THEN t.players ELSE 0)
  <2> DEFINE x == IF t.snapshot THEN t.players ELSE 0
  <2>1. SnapshotsOf(g) = [i \in 1 .. n + 1 |-> IF i = n + 1 THEN x ELSE SnapshotsOf(h)[i]]
    BY <1>8
  <2>2. x \in Nat
    BY <1>5
  <2> HIDE DEF x
  <2>3. SnapshotsOf(g) = Append(SnapshotsOf(h), x)
    BY <1>2, <1>5, <2>1, <2>2
  <2> QED
    BY <2>3 DEF x
<1>12. ASSUME NEW phase \in Phases
       PROVE  /\ WorkOf(h, phase) \in Seq(Nat) /\ Len(WorkOf(h, phase)) = n
              /\ WorkOf(g, phase) = Append(WorkOf(h, phase), t.work[phase])
  <2>1. WorkOf(h, phase) \in [1 .. n -> Nat] /\ t.work[phase] \in Nat
    BY <1>1, TickTyped DEF WorkOf
  <2>2. WorkOf(g, phase)
          = [i \in 1 .. n + 1 |-> IF i = n + 1 THEN t.work[phase] ELSE WorkOf(h, phase)[i]]
    BY <1>1 DEF WorkOf
  <2> QED
    BY <1>2, <2>1, <2>2
<1> QED
  BY <1>2, <1>3, <1>4, <1>5, <1>9, <1>10, <1>11, <1>12 DEF n, g

\* Nothing but the two counters of packets sent changes.
SameButSent(v, w) ==
  /\ v.ticks_since_report = w.ticks_since_report
  /\ v.tick_lag_count = w.tick_lag_count /\ v.max_tick_overrun = w.max_tick_overrun
  /\ v.tick_durations = w.tick_durations
  /\ v.phase_total = w.phase_total /\ v.phase_max = w.phase_max
  /\ v.inbound_packets_received = w.inbound_packets_received
  /\ v.inbound_packets_dropped = w.inbound_packets_dropped
  /\ v.inbound_parse_errors = w.inbound_parse_errors
  /\ v.command_rejections = w.command_rejections
  /\ v.peak_active_sessions = w.peak_active_sessions
  /\ v.active_players_sum = w.active_players_sum
  /\ v.active_players_samples = w.active_players_samples

\* What sending n packets of a type makes of a window.
SentMore(v, w, type, n) ==
  /\ v \in Windows /\ SameButSent(v, w)
  /\ v.packet_count_by_type = [w.packet_count_by_type EXCEPT ![type] = @ + n]
  /\ SentCounted(w) => SentCounted(v)

LEMMA CountSentIs ==
  ASSUME NEW w \in Windows, NEW type \in MessageTypes, NEW n \in Nat
  PROVE  SentMore(CountSent(w, type, n), w, type, n)
<1> DEFINE v == CountSent(w, type, n)
           f == w.packet_count_by_type
           g == [f EXCEPT ![type] = @ + n]
<1>1. f \in [MessageTypes -> Nat] /\ w.total_packets_sent \in Nat
  BY DEF Windows
<1>2. g \in [MessageTypes -> Nat] /\ SumFunction(g) = SumFunction(f) + n
  BY <1>1, SumOfMore
<1>3. v = [w EXCEPT !.packet_count_by_type = g, !.total_packets_sent = @ + n]
  BY DEF CountSent, Windows
<1>4. /\ v.packet_count_by_type = g /\ v.total_packets_sent = w.total_packets_sent + n
  BY <1>3 DEF Windows
<1>5. v \in Windows
  <2> DEFINE total == w.total_packets_sent + n
  <2>1. total \in Nat /\ v = [w EXCEPT !.packet_count_by_type = g, !.total_packets_sent = total]
    BY <1>1, <1>3 DEF Windows
  <2> DEFINE v1 == [w EXCEPT !.packet_count_by_type = g]
  <2> HIDE DEF g, total
  <2>2. v1 \in Windows
    BY <1>2 DEF Windows
  <2>3. v = [v1 EXCEPT !.total_packets_sent = total]
    BY <2>1
  <2> HIDE DEF v1, v
  <2> QED
    BY <2>1, <2>2, <2>3 DEF Windows
<1>6. SentCounted(w) => SentCounted(v)
  <2> HIDE DEF g
  <2>1. v.packet_count_by_type = g
    BY <1>4
  <2> QED
    BY <1>2, <1>4, <2>1 DEF SentCounted
<1>7. SameButSent(v, w)
  <2> DEFINE total == w.total_packets_sent + n
  <2>1. v = [w EXCEPT !.packet_count_by_type = g, !.total_packets_sent = total]
    BY <1>3 DEF Windows
  <2> HIDE DEF g, total, v
  <2> QED
    BY <2>1 DEF Windows, SameButSent
<1> HIDE DEF v
<1>8. SentMore(v, w, type, n)
  BY <1>4, <1>5, <1>6, <1>7 DEF SentMore
<1> QED
  BY <1>8 DEF v

\* What a tick makes of a window, counter by counter.
TickAdds(v, w, t) ==
  /\ v.ticks_since_report = w.ticks_since_report + 1
  /\ v.tick_durations = Append(w.tick_durations, t.elapsed)
  /\ v.tick_lag_count = w.tick_lag_count + (IF IsLate(t.elapsed) THEN 1 ELSE 0)
  /\ v.max_tick_overrun = IF IsLate(t.elapsed)
                          THEN Max({w.max_tick_overrun, t.elapsed - TickBudget})
                          ELSE w.max_tick_overrun
  /\ v.phase_total = [phase \in Phases |-> w.phase_total[phase] + t.work[phase]]
  /\ v.phase_max = [phase \in Phases |-> Max({w.phase_max[phase], t.work[phase]})]
  /\ v.peak_active_sessions = Max({w.peak_active_sessions, t.players})
  /\ v.active_players_sum = w.active_players_sum + t.players
  /\ v.active_players_samples = w.active_players_samples + 1
  /\ v.packet_count_by_type["StateSnapshot"]
       = w.packet_count_by_type["StateSnapshot"] + (IF t.snapshot THEN t.players ELSE 0)

SamePackets(v, w) ==
  /\ v.inbound_packets_received = w.inbound_packets_received
  /\ v.inbound_packets_dropped = w.inbound_packets_dropped
  /\ v.inbound_parse_errors = w.inbound_parse_errors
  /\ v.command_rejections = w.command_rejections

LEMMA AfterTickIs ==
  ASSUME NEW w \in Windows, NEW t \in Ticks, Len(w.tick_durations) < History(Interval),
         NEW v, v = AfterTick(w, t)
  PROVE  /\ v \in Windows /\ TickAdds(v, w, t) /\ SamePackets(v, w)
         /\ SentCounted(w) => SentCounted(v)
<1> DEFINE elapsed == t.elapsed
           more == Append(w.tick_durations, elapsed)
           u == IF t.snapshot THEN CountSent(w, "StateSnapshot", t.players) ELSE w
           f == u.packet_count_by_type
           sent == u.total_packets_sent
           late == IF IsLate(elapsed) THEN u.tick_lag_count + 1 ELSE u.tick_lag_count
           over == IF IsLate(elapsed) THEN Max({u.max_tick_overrun, elapsed - TickBudget})
                                      ELSE u.max_tick_overrun
           total == [phase \in Phases |-> u.phase_total[phase] + t.work[phase]]
           longest == [phase \in Phases |-> Max({u.phase_max[phase], t.work[phase]})]
           peak == Max({u.peak_active_sessions, t.players})
<1>0. /\ t.work \in [Phases -> Nat] /\ t.players \in Nat /\ t.snapshot \in BOOLEAN
      /\ elapsed \in Nat /\ TickBudget \in Nat /\ TickLagTolerance \in Nat
  BY TickTyped, TelemetryNumbers
<1>1. /\ u \in Windows /\ SameButSent(u, w)
      /\ f["StateSnapshot"] = w.packet_count_by_type["StateSnapshot"]
                                + (IF t.snapshot THEN t.players ELSE 0)
      /\ SentCounted(w) => SentCounted(u)
  <2> DEFINE type == "StateSnapshot"
             x == CountSent(w, type, t.players)
             few == w.packet_count_by_type
  <2>1. type \in MessageTypes /\ few \in [MessageTypes -> Nat] /\ few[type] \in Nat
    BY DEF MessageTypes, Windows
  <2>2. u = IF t.snapshot THEN x ELSE w
    OBVIOUS
  <2> HIDE DEF type
  <2>3. SentMore(x, w, type, t.players)
    BY <1>0, <2>1, CountSentIs
  <2> HIDE DEF x, u
  <2>4. /\ u \in Windows /\ SameButSent(u, w)
        /\ f[type] = few[type] + (IF t.snapshot THEN t.players ELSE 0)
        /\ SentCounted(w) => SentCounted(u)
    <3>1. CASE t.snapshot
      <4>1. u = x
        BY <2>2, <3>1
      <4>2. x.packet_count_by_type = [few EXCEPT ![type] = @ + t.players]
        BY <2>3 DEF SentMore
      <4>3. f[type] = few[type] + t.players
        BY <2>1, <4>1, <4>2
      <4>4. x \in Windows /\ SameButSent(x, w) /\ (SentCounted(w) => SentCounted(x))
        BY <2>3 DEF SentMore
      <4> HIDE DEF f, few
      <4> QED
        BY <3>1, <4>1, <4>3, <4>4
    <3>2. CASE ~t.snapshot
      <4>1. u = w
        BY <2>2, <3>2
      <4>2. SameButSent(w, w)
        BY DEF SameButSent
      <4> QED
        BY <1>0, <2>1, <3>2, <4>1, <4>2
    <3> QED
      BY <3>1, <3>2
  <2> QED
    BY <2>4 DEF type
<1>2. Len(more) <= History(Interval) /\ more \in Seq(Nat)
  <2>1. w.tick_durations \in Seq(Nat)
    BY DEF Windows
  <2> QED
    BY <1>0, <2>1, TelemetryNumbers
<1>3. /\ u.ticks_since_report = w.ticks_since_report
      /\ u.tick_lag_count = w.tick_lag_count /\ u.max_tick_overrun = w.max_tick_overrun
      /\ u.tick_durations = w.tick_durations
      /\ u.phase_total = w.phase_total /\ u.phase_max = w.phase_max
      /\ SamePackets(u, w)
      /\ u.peak_active_sessions = w.peak_active_sessions
      /\ u.active_players_sum = w.active_players_sum
      /\ u.active_players_samples = w.active_players_samples
  <2> HIDE DEF u, f, sent
  <2> QED
    BY <1>1 DEF SamePackets, SameButSent
<1>4. v = [u EXCEPT !.ticks_since_report = @ + 1, !.tick_durations = more,
                    !.tick_lag_count = late, !.max_tick_overrun = over,
                    !.phase_total = total, !.phase_max = longest,
                    !.peak_active_sessions = peak,
                    !.active_players_sum = @ + t.players,
                    !.active_players_samples = @ + 1]
  <2>1. t.elapsed = elapsed
    OBVIOUS
  <2>2. ~(Len(more) > History(Interval))
    BY <1>2, <1>0, TelemetryNumbers
  <2> DEFINE lagging == elapsed > TickBudget + TickLagTolerance
             kept == IF Len(more) > History(Interval) THEN Tail(more) ELSE more
             slow == IF lagging THEN u.tick_lag_count + 1 ELSE u.tick_lag_count
             slowest == IF lagging THEN Max({u.max_tick_overrun, elapsed - TickBudget})
                                   ELSE u.max_tick_overrun
  <2>3. kept = more
    BY <2>2
  <2>4. slow = late /\ slowest = over
    BY DEF IsLate
  <2>5. v = [u EXCEPT !.ticks_since_report = @ + 1, !.tick_durations = kept,
                      !.tick_lag_count = slow, !.max_tick_overrun = slowest,
                      !.phase_total = total, !.phase_max = longest,
                      !.peak_active_sessions = peak,
                      !.active_players_sum = @ + t.players,
                      !.active_players_samples = @ + 1]
    BY <2>1 DEF AfterTick
  <2> HIDE DEF kept, slow, slowest, more, late, over, total, longest, peak, u
  <2> QED
    BY <2>3, <2>4, <2>5, Zenon
<1>5. /\ late \in Nat /\ over \in Nat /\ peak \in Nat
      /\ total \in [Phases -> Nat] /\ longest \in [Phases -> Nat]
  <2>1. /\ u.tick_lag_count \in Nat /\ u.max_tick_overrun \in Nat
        /\ u.phase_total \in [Phases -> Nat] /\ u.phase_max \in [Phases -> Nat]
        /\ u.peak_active_sessions \in Nat
    BY <1>1 DEF Windows
  <2> HIDE DEF u
  <2>2. late \in Nat
    BY <2>1
  <2>3. over \in Nat
    <3> SUFFICES ASSUME IsLate(elapsed)
                 PROVE  Max({u.max_tick_overrun, elapsed - TickBudget}) \in Nat
      BY <2>1
    <3> DEFINE n == elapsed - TickBudget
               m == u.max_tick_overrun
    <3>1. n \in Nat /\ m \in Nat
      BY <1>0, <2>1 DEF IsLate
    <3> HIDE DEF n, m
    <3>2. Max({m, n}) \in Nat
      BY <3>1, LargerOfTwo
    <3> QED
      BY <3>2 DEF n, m
  <2>4. peak \in Nat
    BY <1>0, <2>1, LargerOfTwo
  <2>5. total \in [Phases -> Nat]
    BY <1>0, <2>1
  <2>6. longest \in [Phases -> Nat]
    <3> SUFFICES ASSUME NEW phase \in Phases
                 PROVE  Max({u.phase_max[phase], t.work[phase]}) \in Nat
      OBVIOUS
    <3> DEFINE a == u.phase_max[phase]
               b == t.work[phase]
    <3>1. a \in Nat /\ b \in Nat
      BY <1>0, <2>1
    <3> HIDE DEF a, b
    <3>2. Max({a, b}) \in Nat
      BY <3>1, LargerOfTwo
    <3> QED
      BY <3>2 DEF a, b
  <2> QED
    BY <2>2, <2>3, <2>4, <2>5, <2>6
<1>6. TickAdds(v, w, t)
  <2>1. /\ v.ticks_since_report = u.ticks_since_report + 1 /\ v.tick_durations = more
        /\ v.tick_lag_count = late /\ v.max_tick_overrun = over
        /\ v.phase_total = total /\ v.phase_max = longest
        /\ v.peak_active_sessions = peak
        /\ v.active_players_sum = u.active_players_sum + t.players
        /\ v.active_players_samples = u.active_players_samples + 1
        /\ v.packet_count_by_type = f
    <3> HIDE DEF more, u, late, over, total, longest, peak
    <3> QED
      BY <1>1, <1>4 DEF Windows
  <2>2. late = w.tick_lag_count + (IF IsLate(elapsed) THEN 1 ELSE 0)
    <3>1. w.tick_lag_count \in Nat
      BY DEF Windows
    <3> QED
      BY <1>3, <3>1
  <2> HIDE DEF u, f
  <2> QED
    BY <1>1, <1>3, <2>1, <2>2 DEF TickAdds
<1>7. SamePackets(v, w) /\ (SentCounted(w) => SentCounted(v))
  <2>1. /\ v.inbound_packets_received = u.inbound_packets_received
        /\ v.inbound_packets_dropped = u.inbound_packets_dropped
        /\ v.inbound_parse_errors = u.inbound_parse_errors
        /\ v.command_rejections = u.command_rejections
        /\ v.packet_count_by_type = u.packet_count_by_type
        /\ v.total_packets_sent = u.total_packets_sent
    <3> HIDE DEF more, u, late, over, total, longest, peak
    <3> QED
      BY <1>1, <1>4 DEF Windows
  <2> HIDE DEF u, f, sent
  <2> QED
    BY <1>1, <1>3, <2>1 DEF SamePackets, SentCounted
<1>8. v \in Windows
  <2> DEFINE count == u.ticks_since_report + 1
             sum == u.active_players_sum + t.players
             samples == u.active_players_samples + 1
  <2>1. count \in Nat /\ sum \in Nat /\ samples \in Nat
    <3>1. u.ticks_since_report \in Nat /\ u.active_players_sum \in Nat
          /\ u.active_players_samples \in Nat
      BY <1>1 DEF Windows
    <3> HIDE DEF u
    <3> QED
      BY <1>0, <3>1
  <2> HIDE DEF more, u, late, over, total, longest, peak
  <2>2. v = [u EXCEPT !.ticks_since_report = count, !.tick_durations = more,
                      !.tick_lag_count = late, !.max_tick_overrun = over,
                      !.phase_total = total, !.phase_max = longest,
                      !.peak_active_sessions = peak, !.active_players_sum = sum,
                      !.active_players_samples = samples]
    BY <1>1, <1>4 DEF Windows
  <2> HIDE DEF count, sum, samples
  <2> DEFINE v1 == [u EXCEPT !.ticks_since_report = count, !.tick_durations = more]
             v2 == [v1 EXCEPT !.tick_lag_count = late, !.max_tick_overrun = over]
             v3 == [v2 EXCEPT !.phase_total = total, !.phase_max = longest]
             v4 == [v3 EXCEPT !.peak_active_sessions = peak, !.active_players_sum = sum]
             v5 == [v4 EXCEPT !.active_players_samples = samples]
  <2>3. v1 \in Windows
    BY <1>1, <1>2, <2>1 DEF Windows
  <2>4. v2 \in Windows
    <3> HIDE DEF v1
    <3> QED
      BY <1>5, <2>3 DEF Windows
  <2>5. v3 \in Windows
    <3> HIDE DEF v2
    <3> QED
      BY <1>5, <2>4 DEF Windows
  <2>6. v4 \in Windows
    <3> HIDE DEF v3
    <3> QED
      BY <1>5, <2>1, <2>5 DEF Windows
  <2>7. v5 \in Windows
    <3> HIDE DEF v4
    <3> QED
      BY <2>1, <2>6 DEF Windows
  <2>8. v = v5
    BY <2>2
  <2> QED
    BY <2>7, <2>8
<1> QED
  BY <1>6, <1>7, <1>8

\* The overrun of the latest tick counts if it is late, and if it is the longest.
LEMMA OverrunOfAppend ==
  ASSUME NEW s \in Seq(Nat), NEW x \in Nat, NEW o \in Nat, OverrunIs(o, s)
  PROVE  OverrunIs(IF IsLate(x) THEN Max({o, x - TickBudget}) ELSE o, Append(s, x))
<1> DEFINE n == Len(s)
           a == Append(s, x)
           over == x - TickBudget
           more == Max({o, over})
<1>1. /\ n \in Nat /\ DOMAIN s = 1 .. n /\ DOMAIN a = 1 .. n + 1 /\ n + 1 \in 1 .. n + 1
      /\ a[n + 1] = x /\ \A i \in 1 .. n : a[i] = s[i] /\ s[i] \in Nat /\ i \in 1 .. n + 1
      /\ \A i \in 1 .. n + 1 : i \in 1 .. n \/ i = n + 1
  OBVIOUS
<1>2. TickBudget \in Nat /\ TickLagTolerance \in Nat /\ over \in Int
  BY TelemetryNumbers
<1>3. \A d \in Nat : d \in LateDurations <=> d > TickBudget + TickLagTolerance
  BY DEF LateDurations, IsLate
<1>4. IsLate(x) <=> x \in LateDurations
  BY DEF LateDurations
<1>5. more = IF o >= over THEN o ELSE over
  <2> HIDE DEF over
  <2> QED
    BY <1>2, LargerOfTwo
<1> HIDE DEF a, n, more
<1>6. CASE o = 0 /\ Places(s, LateDurations) = {}
  <2>1. \A i \in 1 .. n : s[i] \notin LateDurations
    BY <1>1, <1>6 DEF Places
  <2>2. CASE ~IsLate(x)
    <3>1. Places(a, LateDurations) = {}
      BY <1>1, <1>4, <2>1, <2>2 DEF Places
    <3> QED
      BY <1>6, <2>2, <3>1 DEF OverrunIs, a
  <2>3. CASE IsLate(x)
    <3>1. x > TickBudget + TickLagTolerance /\ x \in LateDurations
      BY <1>3, <1>4, <2>3
    <3>2. more = x - TickBudget
      BY <1>2, <1>5, <1>6, <3>1
    <3>3. \A j \in DOMAIN a : a[j] <= a[n + 1]
      <4> SUFFICES ASSUME NEW j \in 1 .. n + 1
                   PROVE  a[j] <= x
        BY <1>1
      <4>1. CASE j \in 1 .. n
        <5>1. a[j] = s[j] /\ s[j] \in Nat /\ ~(s[j] > TickBudget + TickLagTolerance)
          BY <1>1, <1>3, <2>1, <4>1
        <5> QED
          BY <1>2, <3>1, <5>1
      <4>2. CASE j = n + 1
        BY <1>1, <4>2
      <4> QED
        BY <1>1, <4>1, <4>2
    <3>4. OverrunIs(more, a)
      BY <1>1, <3>1, <3>2, <3>3 DEF OverrunIs
    <3> QED
      BY <2>3, <3>4 DEF more, a
  <2> QED
    BY <2>2, <2>3
<1>7. ASSUME NEW i \in 1 .. n, s[i] \in LateDurations, o = s[i] - TickBudget,
             \A j \in 1 .. n : s[j] <= s[i]
      PROVE  OverrunIs(IF IsLate(x) THEN more ELSE o, a)
  <2>1. /\ i \in DOMAIN a /\ a[i] = s[i] /\ s[i] \in Nat
        /\ s[i] > TickBudget + TickLagTolerance
    BY <1>1, <1>3, <1>7
  <2>2. CASE IsLate(x) /\ x > s[i]
    <3>1. more = x - TickBudget
      BY <1>2, <1>5, <1>7, <2>1, <2>2
    <3>2. \A j \in DOMAIN a : a[j] <= a[n + 1]
      <4> SUFFICES ASSUME NEW j \in 1 .. n + 1
                   PROVE  a[j] <= x
        BY <1>1
      <4>1. CASE j \in 1 .. n
        <5>1. a[j] = s[j] /\ s[j] \in Nat /\ s[j] <= s[i]
          BY <1>1, <1>7, <4>1
        <5> QED
          BY <2>1, <2>2, <5>1
      <4>2. CASE j = n + 1
        BY <1>1, <4>2
      <4> QED
        BY <1>1, <4>1, <4>2
    <3>3. x \in LateDurations
      BY <1>4, <2>2
    <3> QED
      BY <1>1, <2>2, <3>1, <3>2, <3>3 DEF OverrunIs
  <2>3. CASE ~(IsLate(x) /\ x > s[i])
    <3>1. x <= s[i]
      <4>1. CASE ~IsLate(x)
        <5>1. ~(x > TickBudget + TickLagTolerance)
          BY <1>3, <1>4, <4>1
        <5> QED
          BY <1>2, <2>1, <5>1
      <4> QED
        BY <2>1, <2>3, <4>1
    <3>2. (IF IsLate(x) THEN more ELSE o) = o
      BY <1>2, <1>5, <1>7, <2>1, <3>1
    <3>3. \A j \in DOMAIN a : a[j] <= a[i]
      <4> SUFFICES ASSUME NEW j \in 1 .. n + 1
                   PROVE  a[j] <= s[i]
        BY <1>1, <2>1
      <4> QED
        BY <1>1, <1>7, <3>1
    <3>4. OverrunIs(o, a)
      BY <1>7, <2>1, <3>3 DEF OverrunIs
    <3> QED
      BY <3>2, <3>4
  <2> QED
    BY <2>2, <2>3
<1> QED
  BY <1>1, <1>6, <1>7 DEF OverrunIs, more, a

\* The peak is reached, and never passed.
LEMMA PeakOfAppend ==
  ASSUME NEW s \in Seq(Nat), NEW x \in Nat, NEW o \in Nat, PeakIs(o, s)
  PROVE  PeakIs(Max({o, x}), Append(s, x))
<1> DEFINE n == Len(s)
           a == Append(s, x)
           more == Max({o, x})
<1>1. /\ n \in Nat /\ DOMAIN s = 1 .. n /\ DOMAIN a = 1 .. n + 1 /\ n + 1 \in 1 .. n + 1
      /\ a[n + 1] = x /\ \A i \in 1 .. n : a[i] = s[i] /\ s[i] \in Nat /\ i \in 1 .. n + 1
      /\ \A i \in 1 .. n + 1 : i \in 1 .. n \/ i = n + 1
  OBVIOUS
<1>2. more = IF o >= x THEN o ELSE x
  BY LargerOfTwo
<1> HIDE DEF a, n, more
<1>3. more \in Nat /\ o <= more /\ x <= more
  BY <1>2
<1>4. \A i \in DOMAIN a : a[i] <= more
  <2> SUFFICES ASSUME NEW i \in 1 .. n + 1
               PROVE  a[i] <= more
    BY <1>1
  <2>1. CASE i \in 1 .. n
    <3>1. a[i] = s[i] /\ s[i] \in Nat /\ s[i] <= o
      BY <1>1, <2>1 DEF PeakIs
    <3> QED
      BY <1>3, <3>1
  <2> QED
    BY <1>1, <1>3, <2>1
<1>5. more = 0 \/ \E i \in DOMAIN a : a[i] = more
  <2>1. CASE o >= x
    <3>1. more = o
      BY <1>2, <2>1
    <3>2. o = 0 \/ \E i \in 1 .. n : s[i] = o
      BY <1>1 DEF PeakIs
    <3> QED
      BY <1>1, <3>1, <3>2
  <2>2. CASE ~(o >= x)
    BY <1>1, <1>2, <2>2
  <2> QED
    BY <2>1, <2>2
<1>6. PeakIs(more, a)
  BY <1>4, <1>5 DEF PeakIs
<1> QED
  BY <1>6 DEF more, a

\* A tick is counted in every counter of its window.
LEMMA TickCounts ==
  ASSUME NEW w, NEW ts \in Seq(Ticks), NEW ps, NEW t \in Ticks, Counted(w, ts, ps),
         Len(ts) < Interval
  PROVE  Counted(AfterTick(w, t), Append(ts, t), ps)
<1> DEFINE v == AfterTick(w, t)
           h == Append(ts, t)
           d == t.elapsed
           n == Len(ts)
           durations == DurationsOf(ts)
           players == PlayersOf(ts)
           snapshots == SnapshotsOf(ts)
           sent == IF t.snapshot THEN t.players ELSE 0
<1>1. /\ w \in Windows /\ TicksCounted(w, ts) /\ PacketsCounted(w, ps) /\ SentCounted(w)
  BY DEF Counted
<1>2. /\ durations \in Seq(Nat) /\ Len(durations) = n
      /\ players \in Seq(Nat) /\ snapshots \in Seq(Nat)
      /\ DurationsOf(h) = Append(durations, d)
      /\ PlayersOf(h) = Append(players, t.players)
      /\ SnapshotsOf(h) = Append(snapshots, sent)
  BY ColumnsOfTicks
<1>3. /\ d \in Nat /\ t.players \in Nat /\ sent \in Nat /\ t.work \in [Phases -> Nat]
      /\ n \in Nat /\ Len(h) = n + 1 /\ n < Interval
  BY TickTyped
<1>4. v \in Windows /\ TickAdds(v, w, t) /\ SamePackets(v, w) /\ (SentCounted(w) => SentCounted(v))
  <2>1. Len(w.tick_durations) < History(Interval)
    <3>1. Len(w.tick_durations) = n
      BY <1>1, <1>2 DEF TicksCounted
    <3> HIDE DEF n
    <3> QED
      BY <1>3, <3>1, TelemetryNumbers
  <2>2. v = AfterTick(w, t)
    OBVIOUS
  <2> HIDE DEF v
  <2> QED
    BY <1>1, <2>1, <2>2, AfterTickIs
<1> HIDE DEF v, h, d, n, durations, players, snapshots, sent
<1>5. /\ v.ticks_since_report = n + 1 /\ v.active_players_samples = n + 1
      /\ v.tick_durations = Append(durations, d)
  BY <1>1, <1>4 DEF TicksCounted, TickAdds, n, durations, d
<1>6. v.tick_lag_count = Cardinality(Places(Append(durations, d), LateDurations))
  <2>1. IsLate(d) <=> d \in LateDurations
    BY <1>3 DEF LateDurations
  <2>2. v.tick_lag_count = Cardinality(Places(durations, LateDurations))
                             + (IF IsLate(d) THEN 1 ELSE 0)
    BY <1>1, <1>4 DEF TicksCounted, TickAdds, durations, d
  <2>3. Cardinality(Places(Append(durations, d), LateDurations))
          = Cardinality(Places(durations, LateDurations)) + (IF d \in LateDurations THEN 1 ELSE 0)
    <3> DEFINE T == Nat
               Such == LateDurations
    <3>1. durations \in Seq(T) /\ d \in T
      BY <1>2, <1>3
    <3> HIDE DEF T, Such
    <3>2. Cardinality(Places(Append(durations, d), Such))
            = Cardinality(Places(durations, Such)) + (IF d \in Such THEN 1 ELSE 0)
      BY <3>1, CountOfAppend
    <3> QED
      BY <3>2 DEF Such
  <2> QED
    BY <2>1, <2>2, <2>3
<1>7. OverrunIs(v.max_tick_overrun, Append(durations, d))
  <2>1. w.max_tick_overrun \in Nat /\ OverrunIs(w.max_tick_overrun, durations)
    BY <1>1 DEF TicksCounted, Windows, durations
  <2>2. v.max_tick_overrun = IF IsLate(d) THEN Max({w.max_tick_overrun, d - TickBudget})
                             ELSE w.max_tick_overrun
    BY <1>4 DEF TickAdds, d
  <2> QED
    BY <1>2, <1>3, <2>1, <2>2, OverrunOfAppend
<1>8. PhasesCounted(v, h)
  <2> SUFFICES ASSUME NEW phase \in Phases
               PROVE  PhaseIs(v.phase_total[phase], v.phase_max[phase], WorkOf(h, phase))
    BY DEF PhasesCounted
  <2> DEFINE work == WorkOf(ts, phase)
             x == t.work[phase]
             total == w.phase_total[phase]
             longest == w.phase_max[phase]
  <2>1. work \in Seq(Nat) /\ WorkOf(h, phase) = Append(work, x)
    BY ColumnsOfTicks DEF h
  <2>2. x \in Nat /\ total \in Nat /\ longest \in Nat
    BY <1>1, <1>3 DEF Windows
  <2>3. total = SumFunction(work) /\ PeakIs(longest, work)
    BY <1>1 DEF TicksCounted, PhasesCounted, PhaseIs
  <2>4. v.phase_total[phase] = total + x /\ v.phase_max[phase] = Max({longest, x})
    BY <1>4 DEF TickAdds
  <2> HIDE DEF work, x, total, longest
  <2>5. SumFunction(Append(work, x)) = total + x
    BY <2>1, <2>2, <2>3, SumOfAppend
  <2>6. PeakIs(Max({longest, x}), Append(work, x))
    BY <2>1, <2>2, <2>3, PeakOfAppend
  <2> QED
    BY <2>1, <2>4, <2>5, <2>6 DEF PhaseIs
<1>9. v.active_players_sum = SumFunction(Append(players, t.players))
  <2>1. SumFunction(Append(players, t.players)) = SumFunction(players) + t.players
    BY <1>2, <1>3, SumOfAppend
  <2> QED
    BY <1>1, <1>4, <2>1 DEF TicksCounted, TickAdds, players
<1>10. PeakIs(v.peak_active_sessions, Append(players, t.players))
  <2>1. w.peak_active_sessions \in Nat /\ PeakIs(w.peak_active_sessions, players)
    BY <1>1 DEF TicksCounted, Windows, players
  <2>2. v.peak_active_sessions = Max({w.peak_active_sessions, t.players})
    BY <1>4 DEF TickAdds
  <2> QED
    BY <1>2, <1>3, <2>1, <2>2, PeakOfAppend
<1>11. v.packet_count_by_type["StateSnapshot"] = SumFunction(Append(snapshots, sent))
  <2>1. SumFunction(Append(snapshots, sent)) = SumFunction(snapshots) + sent
    BY <1>2, <1>3, SumOfAppend
  <2> QED
    BY <1>1, <1>4, <2>1 DEF TicksCounted, TickAdds, snapshots, sent
<1>12. TicksCounted(v, h)
  BY <1>2, <1>3, <1>5, <1>6, <1>7, <1>8, <1>9, <1>10, <1>11 DEF TicksCounted
<1>13. PacketsCounted(v, ps)
  BY <1>1, <1>4 DEF PacketsCounted, SamePackets
<1> QED
  BY <1>1, <1>4, <1>12, <1>13 DEF Counted, v, h

\* What packets, which are no snapshots, leave alone.
SameTicks(v, w) ==
  /\ v.ticks_since_report = w.ticks_since_report
  /\ v.tick_lag_count = w.tick_lag_count /\ v.max_tick_overrun = w.max_tick_overrun
  /\ v.tick_durations = w.tick_durations
  /\ v.phase_total = w.phase_total /\ v.phase_max = w.phase_max
  /\ v.peak_active_sessions = w.peak_active_sessions
  /\ v.active_players_sum = w.active_players_sum
  /\ v.active_players_samples = w.active_players_samples
  /\ v.packet_count_by_type["StateSnapshot"] = w.packet_count_by_type["StateSnapshot"]

\* A window after answers, before the packet itself is counted.
Answered(v, w) ==
  /\ v \in Windows /\ SameTicks(v, w) /\ SamePackets(v, w)
  /\ SentCounted(w) => SentCounted(v)

\* A window after a packet.
PacketAdds(v, w, lost, unparsable, rejected) ==
  /\ v \in Windows /\ SameTicks(v, w) /\ (SentCounted(w) => SentCounted(v))
  /\ v.inbound_packets_received = w.inbound_packets_received + 1
  /\ v.inbound_packets_dropped = w.inbound_packets_dropped + lost
  /\ v.inbound_parse_errors = w.inbound_parse_errors + unparsable
  /\ v.command_rejections = w.command_rejections + rejected

LEMMA AnswerIs ==
  ASSUME NEW w \in Windows, NEW x \in Windows, Answered(x, w),
         NEW type \in {"JoinAccept", "MatchState"}
  PROVE  Answered(CountSent(x, type, 1), w)
<1> DEFINE v == CountSent(x, type, 1)
           few == x.packet_count_by_type
           snapshot == "StateSnapshot"
<1>1. type \in MessageTypes /\ snapshot \in MessageTypes /\ type # snapshot /\ 1 \in Nat
  BY DEF MessageTypes
<1>2. SentMore(v, x, type, 1)
  <2> DEFINE n == 1
  <2>1. n \in Nat
    OBVIOUS
  <2> HIDE DEF n
  <2>2. SentMore(CountSent(x, type, n), x, type, n)
    BY <1>1, <2>1, CountSentIs
  <2> QED
    BY <2>2 DEF n
<1> HIDE DEF v, snapshot
<1>3. v \in Windows /\ SameButSent(v, x) /\ (SentCounted(x) => SentCounted(v))
  BY <1>2 DEF SentMore
<1>4. v.packet_count_by_type[snapshot] = x.packet_count_by_type[snapshot]
  <2>1. v.packet_count_by_type = [few EXCEPT ![type] = @ + 1] /\ few \in [MessageTypes -> Nat]
    BY <1>2 DEF SentMore, Windows
  <2> QED
    BY <1>1, <2>1
<1>5. SameTicks(v, w)
  <2>1. SameTicks(x, w)
    BY DEF Answered
  <2>2. SameTicks(v, x)
    BY <1>3, <1>4 DEF SameButSent, SameTicks, snapshot
  <2> QED
    BY <2>1, <2>2 DEF SameTicks
<1>6. SamePackets(v, w)
  BY <1>3 DEF SameButSent, SamePackets, Answered
<1>7. SentCounted(w) => SentCounted(v)
  BY <1>3 DEF Answered
<1>8. Answered(v, w)
  BY <1>3, <1>5, <1>6, <1>7 DEF Answered
<1> QED
  BY <1>8 DEF v

LEMMA NotAnswered == ASSUME NEW w \in Windows PROVE Answered(w, w)
  BY DEF Answered, SameTicks, SamePackets

\* The counters of a packet, told by which of them a step raises.
LEMMA InboundIs ==
  ASSUME NEW w \in Windows, NEW x \in Windows, Answered(x, w),
         NEW received, received = x.inbound_packets_received + 1,
         NEW lost \in Nat, NEW unparsable \in Nat, NEW rejected \in Nat,
         NEW v, v = [x EXCEPT !.inbound_packets_received = received,
                              !.inbound_packets_dropped = x.inbound_packets_dropped + lost,
                              !.inbound_parse_errors = x.inbound_parse_errors + unparsable,
                              !.command_rejections = x.command_rejections + rejected]
  PROVE  PacketAdds(v, w, lost, unparsable, rejected)
<1> DEFINE a == received
           b == x.inbound_packets_dropped + lost
           c == x.inbound_parse_errors + unparsable
           d == x.command_rejections + rejected
<1>1. a \in Nat /\ b \in Nat /\ c \in Nat /\ d \in Nat
  <2>1. /\ x.inbound_packets_received \in Nat /\ x.inbound_packets_dropped \in Nat
        /\ x.inbound_parse_errors \in Nat /\ x.command_rejections \in Nat
    BY DEF Windows
  <2> QED
    BY <2>1
<1>2. v = [x EXCEPT !.inbound_packets_received = a, !.inbound_packets_dropped = b,
                    !.inbound_parse_errors = c, !.command_rejections = d]
  OBVIOUS
<1>3. SamePackets(x, w) /\ SameTicks(x, w) /\ (SentCounted(w) => SentCounted(x))
  BY DEF Answered
<1>4. b = w.inbound_packets_dropped + lost /\ c = w.inbound_parse_errors + unparsable
      /\ d = w.command_rejections + rejected /\ a = w.inbound_packets_received + 1
  BY <1>3 DEF SamePackets
<1> HIDE DEF a, b, c, d
<1>5. v \in Windows
  <2> DEFINE v1 == [x EXCEPT !.inbound_packets_received = a, !.inbound_packets_dropped = b]
             v2 == [v1 EXCEPT !.inbound_parse_errors = c, !.command_rejections = d]
  <2>1. v1 \in Windows
    BY <1>1 DEF Windows
  <2>2. v2 \in Windows
    <3> HIDE DEF v1
    <3> QED
      BY <1>1, <2>1 DEF Windows
  <2>3. v = v2
    BY <1>2
  <2> QED
    BY <2>2, <2>3
<1>6. /\ v.inbound_packets_received = a /\ v.inbound_packets_dropped = b
      /\ v.inbound_parse_errors = c /\ v.command_rejections = d
  BY <1>2 DEF Windows
<1>7. SameTicks(v, x)
  BY <1>2 DEF Windows, SameTicks
<1>8. SameTicks(v, w)
  BY <1>3, <1>7 DEF SameTicks
<1>9. SentCounted(x) => SentCounted(v)
  <2>1. /\ v.packet_count_by_type = x.packet_count_by_type
        /\ v.total_packets_sent = x.total_packets_sent
    BY <1>2 DEF Windows
  <2> QED
    BY <2>1 DEF SentCounted
<1> QED
  BY <1>3, <1>4, <1>5, <1>6, <1>8, <1>9 DEF PacketAdds

\* The three ways a packet is counted.
LEMMA PacketIs ==
  ASSUME NEW w \in Windows, NEW x \in Windows, Answered(x, w)
  PROVE  /\ PacketAdds([x EXCEPT !.inbound_packets_received = @ + 1], w, 0, 0, 0)
         /\ PacketAdds([Rejected(x) EXCEPT !.inbound_packets_received = @ + 1], w, 1, 0, 1)
         /\ PacketAdds([[x EXCEPT !.inbound_packets_dropped = @ + 1, !.inbound_parse_errors = @ + 1]
                          EXCEPT !.inbound_packets_received = @ + 1], w, 1, 1, 0)
<1> DEFINE received == x.inbound_packets_received + 1
           handled == [x EXCEPT !.inbound_packets_received = @ + 1]
           refused == [Rejected(x) EXCEPT !.inbound_packets_received = @ + 1]
           garbled == [[x EXCEPT !.inbound_packets_dropped = @ + 1, !.inbound_parse_errors = @ + 1]
                         EXCEPT !.inbound_packets_received = @ + 1]
           After(lost, unparsable, rejected) ==
             [x EXCEPT !.inbound_packets_received = received,
                       !.inbound_packets_dropped = x.inbound_packets_dropped + lost,
                       !.inbound_parse_errors = x.inbound_parse_errors + unparsable,
                       !.command_rejections = x.command_rejections + rejected]
<1>1. /\ x.inbound_packets_received \in Nat /\ x.inbound_packets_dropped \in Nat
      /\ x.inbound_parse_errors \in Nat /\ x.command_rejections \in Nat
  BY DEF Windows
<1>2. handled = After(0, 0, 0)
  <2>1. x.inbound_packets_dropped + 0 = x.inbound_packets_dropped
        /\ x.inbound_parse_errors + 0 = x.inbound_parse_errors
        /\ x.command_rejections + 0 = x.command_rejections
    BY <1>1
  <2> QED
    BY <2>1 DEF Windows
<1>3. refused = After(1, 0, 1)
  <2>1. x.inbound_parse_errors + 0 = x.inbound_parse_errors
    BY <1>1
  <2> QED
    BY <2>1 DEF Windows, Rejected
<1>4. garbled = After(1, 1, 0)
  <2>1. x.command_rejections + 0 = x.command_rejections
    BY <1>1
  <2> QED
    BY <2>1 DEF Windows
<1> HIDE DEF handled, refused, garbled
<1>5. ASSUME NEW lost \in Nat, NEW unparsable \in Nat, NEW rejected \in Nat
      PROVE  PacketAdds(After(lost, unparsable, rejected), w, lost, unparsable, rejected)
  <2> DEFINE v == After(lost, unparsable, rejected)
  <2>1. /\ v = [x EXCEPT !.inbound_packets_received = received,
                         !.inbound_packets_dropped = x.inbound_packets_dropped + lost,
                         !.inbound_parse_errors = x.inbound_parse_errors + unparsable,
                         !.command_rejections = x.command_rejections + rejected]
        /\ received = x.inbound_packets_received + 1
    OBVIOUS
  <2> HIDE DEF v, received
  <2> QED
    BY <2>1, InboundIs
<1> HIDE DEF After
<1>6. PacketAdds(After(0, 0, 0), w, 0, 0, 0) /\ PacketAdds(After(1, 0, 1), w, 1, 0, 1)
      /\ PacketAdds(After(1, 1, 0), w, 1, 1, 0)
  BY <1>5
<1>7. PacketAdds(handled, w, 0, 0, 0) /\ PacketAdds(refused, w, 1, 0, 1)
      /\ PacketAdds(garbled, w, 1, 1, 0)
  BY <1>2, <1>3, <1>4, <1>6
<1> QED
  BY <1>7 DEF handled, refused, garbled

\* A packet is counted in every counter of its window.
LEMMA PacketCounts ==
  ASSUME NEW w, NEW ts, NEW ps \in Seq(Outcomes), Counted(w, ts, ps), NEW v,
         NEW outcome \in Outcomes,
         \/ outcome = "handled" /\ PacketAdds(v, w, 0, 0, 0)
         \/ outcome = "rejected" /\ PacketAdds(v, w, 1, 0, 1)
         \/ outcome = "unparsable" /\ PacketAdds(v, w, 1, 1, 0)
  PROVE  Counted(v, ts, Append(ps, outcome))
<1>1. w \in Windows /\ TicksCounted(w, ts) /\ PacketsCounted(w, ps) /\ SentCounted(w)
  BY DEF Counted
<1>2. \E lost, unparsable, rejected \in Nat :
         /\ PacketAdds(v, w, lost, unparsable, rejected)
         /\ lost = unparsable + rejected
         /\ lost = IF outcome \in Lost THEN 1 ELSE 0
  <2>1. CASE outcome = "handled"
    <3>1. PacketAdds(v, w, 0, 0, 0) /\ outcome \notin Lost
      BY <2>1 DEF Lost
    <3> QED
      BY <3>1
  <2>2. CASE outcome = "rejected"
    <3>1. PacketAdds(v, w, 1, 0, 1) /\ outcome \in Lost
      BY <2>2 DEF Lost
    <3> QED
      BY <3>1
  <2>3. CASE outcome = "unparsable"
    <3>1. PacketAdds(v, w, 1, 1, 0) /\ outcome \in Lost
      BY <2>3 DEF Lost
    <3> QED
      BY <3>1
  <2> QED
    BY <2>1, <2>2, <2>3
<1>3. PICK lost \in Nat, unparsable \in Nat, rejected \in Nat :
         /\ PacketAdds(v, w, lost, unparsable, rejected)
         /\ lost = unparsable + rejected
         /\ lost = IF outcome \in Lost THEN 1 ELSE 0
  BY <1>2
<1>4. v \in Windows /\ SameTicks(v, w) /\ SentCounted(v)
  BY <1>1, <1>3 DEF PacketAdds
<1>5. TicksCounted(v, ts)
  <2>1. PhasesCounted(v, ts)
    BY <1>1, <1>4 DEF TicksCounted, SameTicks, PhasesCounted
  <2> QED
    BY <1>1, <1>4, <2>1 DEF TicksCounted, SameTicks
<1>6. PacketsCounted(v, Append(ps, outcome))
  <2>1. /\ v.inbound_packets_received = w.inbound_packets_received + 1
        /\ v.inbound_packets_dropped = w.inbound_packets_dropped + lost
        /\ v.inbound_parse_errors = w.inbound_parse_errors + unparsable
        /\ v.command_rejections = w.command_rejections + rejected
    BY <1>3 DEF PacketAdds
  <2>2. /\ w.inbound_parse_errors \in Nat /\ w.command_rejections \in Nat
    BY <1>1 DEF Windows
  <2>3. Cardinality(Places(Append(ps, outcome), Lost)) = Cardinality(Places(ps, Lost)) + lost
    <3> DEFINE Such == Lost
               all == Append(ps, outcome)
               one == IF outcome \in Such THEN 1 ELSE 0
    <3>1. lost = one
      BY <1>3
    <3> HIDE DEF Such
    <3>2. Cardinality(Places(Append(ps, outcome), Such))
            = Cardinality(Places(ps, Such)) + (IF outcome \in Such THEN 1 ELSE 0)
      BY CountOfAppend
    <3> QED
      BY <3>1, <3>2 DEF Such
  <2>4. Len(Append(ps, outcome)) = Len(ps) + 1
    OBVIOUS
  <2>5. /\ w.inbound_packets_received = Len(ps)
        /\ w.inbound_packets_dropped = Cardinality(Places(ps, Lost))
        /\ w.inbound_packets_dropped = w.inbound_parse_errors + w.command_rejections
    BY <1>1 DEF PacketsCounted
  <2>6. v.inbound_packets_dropped = v.inbound_parse_errors + v.command_rejections
    BY <1>3, <2>1, <2>2, <2>5
  <2> QED
    BY <2>1, <2>3, <2>4, <2>5, <2>6 DEF PacketsCounted
<1> QED
  BY <1>4, <1>5, <1>6 DEF Counted

\* A new window tells of nothing.
LEMMA EmptyIsCounted == Counted(EmptyWindow, <<>>, <<>>)
<1> DEFINE none == <<>>
           w == EmptyWindow
           zeros == [phase \in Phases |-> 0]
           nothing == [type \in MessageTypes |-> 0]
<1>1. /\ DurationsOf(none) = none /\ PlayersOf(none) = none /\ SnapshotsOf(none) = none
  BY DEF DurationsOf, PlayersOf, SnapshotsOf
<1>2. Len(none) = 0 /\ none \in Seq(Nat) /\ DOMAIN none = {}
  OBVIOUS
<1>3. SumFunction(none) = 0
  BY <1>2, SumOfNone DEF SumFunction
<1>4. Places(none, LateDurations) = {} /\ Places(none, Lost) = {} /\ Cardinality({}) = 0
  BY <1>2, FS_EmptySet DEF Places
<1>5. \A phase \in Phases : zeros[phase] = 0 /\ WorkOf(none, phase) = none
  BY <1>2 DEF WorkOf
<1>6. SumFunction(nothing) = 0
  <2> DEFINE S == MessageTypes
  <2>1. DOMAIN nothing = S /\ \A x \in S : nothing[x] = 0
    OBVIOUS
  <2>2. IsFiniteSet(S)
    BY PhasesAndTypes
  <2> DEFINE Good == {s \in SUBSET S : SumFunctionOnSet(nothing, s) = 0}
  <2> HIDE DEF nothing, S
  <2>3. ASSUME NEW s \in SUBSET S, \A x \in s : s \ {x} \in Good PROVE s \in Good
    <3>1. CASE s = {}
      BY <3>1, SumOfNone
    <3>2. CASE s # {}
      <4>1. PICK a \in s : TRUE
        BY <3>2
      <4>2. IsFiniteSet(s) /\ \A x \in s : nothing[x] \in Nat
        BY <2>1, <2>2, FS_Subset
      <4>3. SumFunctionOnSet(nothing, s) = nothing[a] + SumFunctionOnSet(nothing, s \ {a})
        BY <4>1, <4>2, SumStep
      <4>4. SumFunctionOnSet(nothing, s \ {a}) = 0
        BY <2>3, <4>1
      <4> QED
        BY <2>1, <4>1, <4>3, <4>4
    <3> QED
      BY <3>1, <3>2
  <2> HIDE DEF Good
  <2>4. S \in Good
    BY <2>2, <2>3, SetInduction
  <2> QED
    BY <2>1, <2>4 DEF Good, SumFunction
<1>7. w \in Windows
  BY <1>2 DEF EmptyWindow, Windows
<1>8. OverrunIs(0, none) /\ PeakIs(0, none)
  BY <1>2, <1>4 DEF OverrunIs, PeakIs
<1>9. TicksCounted(w, none)
  <2>1. /\ w.ticks_since_report = 0 /\ w.active_players_samples = 0 /\ w.tick_durations = none
        /\ w.tick_lag_count = 0 /\ w.max_tick_overrun = 0
        /\ w.phase_total = zeros /\ w.phase_max = zeros
        /\ w.active_players_sum = 0 /\ w.peak_active_sessions = 0
        /\ w.packet_count_by_type = nothing /\ nothing["StateSnapshot"] = 0
    BY DEF EmptyWindow, MessageTypes
  <2> HIDE DEF w, none, zeros, nothing
  <2>2. PhasesCounted(w, none)
    BY <1>3, <1>5, <1>8, <2>1 DEF PhasesCounted, PhaseIs
  <2> QED
    BY <1>1, <1>2, <1>3, <1>4, <1>8, <2>1, <2>2 DEF TicksCounted
<1>10. PacketsCounted(w, none) /\ SentCounted(w)
  <2>1. /\ w.inbound_packets_received = 0 /\ w.inbound_packets_dropped = 0
        /\ w.inbound_parse_errors = 0 /\ w.command_rejections = 0
        /\ w.packet_count_by_type = nothing /\ w.total_packets_sent = 0
    BY DEF EmptyWindow
  <2> HIDE DEF w, none, nothing
  <2> QED
    BY <1>2, <1>4, <1>6, <2>1 DEF PacketsCounted, SentCounted
<1> HIDE DEF w, none
<1>11. Counted(w, none, none)
  BY <1>7, <1>9, <1>10 DEF Counted
<1> QED
  BY <1>11 DEF w, none

-----------------------------------------------------------------------------

LEMMA TelemetryStarts == TelemetryInit => TelemetryIInv
<1> SUFFICES ASSUME TelemetryInit PROVE TelemetryIInv
  OBVIOUS
<1>1. window = EmptyWindow /\ report = {} /\ ticks = <<>> /\ packets = <<>>
  BY DEF TelemetryInit
<1>2. Since(ticks) = <<>> /\ Since(packets) = <<>> /\ Len(<<>>) = 0
  BY <1>1 DEF Since
<1>3. ticks \in Seq(Ticks) /\ packets \in Seq(Outcomes)
  BY <1>1
<1>4. Counted(window, Since(ticks), Since(packets))
  BY <1>1, <1>2, EmptyIsCounted
<1>5. Len(Since(ticks)) < Interval
  BY <1>2, TelemetryNumbers
<1> QED
  BY <1>1, <1>3, <1>4, <1>5 DEF TelemetryIInv

\* A packet of the window that the steps before it have filled.
LEMMA PacketKeeps ==
  ASSUME TelemetryIInv, NEW outcome \in Outcomes, NEW x, ReceivePacket(outcome, x),
         NEW v, v = [x EXCEPT !.inbound_packets_received = @ + 1],
         \/ outcome = "handled" /\ PacketAdds(v, window, 0, 0, 0)
         \/ outcome = "rejected" /\ PacketAdds(v, window, 1, 0, 1)
         \/ outcome = "unparsable" /\ PacketAdds(v, window, 1, 1, 0)
  PROVE  TelemetryIInv'
<1> DEFINE ts == Since(ticks)
           ps == Since(packets)
<1>1. ts \in Seq(Ticks) /\ ps \in Seq(Outcomes) /\ Counted(window, ts, ps) /\ Len(ts) < Interval
  BY DEF TelemetryIInv, Since
<1>2. window' = v /\ report' = {} /\ ticks' = ts /\ packets' = Append(ps, outcome)
  BY DEF ReceivePacket
<1>3. Since(ticks)' = ticks' /\ Since(packets)' = packets'
  BY <1>2 DEF Since
<1> HIDE DEF ts, ps
<1>4. Counted(v, ts, Append(ps, outcome))
  BY <1>1, PacketCounts
<1>5. Counted(window, Since(ticks), Since(packets))'
  BY <1>2, <1>3, <1>4
<1>6. ticks' \in Seq(Ticks) /\ packets' \in Seq(Outcomes)
  BY <1>1, <1>2
<1>7. (Len(Since(ticks)) < Interval)'
  BY <1>1, <1>2, <1>3 DEF Interval
<1> QED
  BY <1>2, <1>5, <1>6, <1>7 DEF TelemetryIInv

\* A tick ends the window if it was the last of it.
LEMMA TickKeeps ==
  ASSUME TelemetryIInv, NEW t \in Ticks, Tick(t)
  PROVE  TelemetryIInv'
<1> DEFINE ts == Since(ticks)
           ps == Since(packets)
           h == Append(ts, t)
           w == AfterTick(window, t)
           full == w.ticks_since_report >= Interval
<1>1. ts \in Seq(Ticks) /\ ps \in Seq(Outcomes) /\ Counted(window, ts, ps) /\ Len(ts) < Interval
  BY DEF TelemetryIInv, Since
<1>2. /\ window' = IF full THEN EmptyWindow ELSE w
      /\ report' = IF full THEN {ReportOf(w)} ELSE {}
      /\ ticks' = h /\ packets' = ps
  BY DEF Tick, NextWindow
<1>3. Interval \in Nat \ {0} /\ Interval' = Interval
  BY TelemetryNumbers DEF Interval
<1> HIDE DEF ts, ps, w
<1>4. Counted(w, h, ps)
  BY <1>1, TickCounts DEF w
<1>5. w.ticks_since_report = Len(h) /\ Len(h) = Len(ts) + 1 /\ Len(ts) \in Nat
  <2>1. TicksCounted(w, h)
    BY <1>4 DEF Counted
  <2> QED
    BY <1>1, <2>1 DEF TicksCounted
<1>6. h \in Seq(Ticks)
  BY <1>1
<1> HIDE DEF h
<1>7. CASE full
  <2>1. window' = EmptyWindow /\ report' = {ReportOf(w)}
    BY <1>2, <1>7
  <2>2. Since(ticks)' = <<>> /\ Since(packets)' = <<>> /\ Len(<<>>) = 0
    BY <2>1 DEF Since
  <2>3. Counted(window, Since(ticks), Since(packets))'
    BY <2>1, <2>2, EmptyIsCounted
  <2>4. Len(h) = Interval
    BY <1>1, <1>3, <1>5, <1>7
  <2>5. ReportOf(w).counters = w
    BY DEF ReportOf
  <2>6. (\A told \in report : /\ told = ReportOf(told.counters)
                              /\ Counted(told.counters, ticks, packets)
                              /\ Len(ticks) = Interval)'
    BY <1>2, <1>3, <1>4, <2>1, <2>4, <2>5
  <2>7. (Len(Since(ticks)) < Interval)'
    BY <1>3, <2>2
  <2> QED
    BY <1>1, <1>2, <1>6, <2>3, <2>6, <2>7 DEF TelemetryIInv
<1>8. CASE ~full
  <2>1. window' = w /\ report' = {}
    BY <1>2, <1>8
  <2>2. Since(ticks)' = h /\ Since(packets)' = ps
    BY <1>2, <2>1 DEF Since
  <2>3. Counted(window, Since(ticks), Since(packets))'
    BY <1>4, <2>1, <2>2
  <2>4. Len(h) < Interval
    BY <1>3, <1>5, <1>8
  <2> QED
    BY <1>1, <1>2, <1>3, <1>6, <2>1, <2>2, <2>3, <2>4 DEF TelemetryIInv
<1> QED
  BY <1>7, <1>8

LEMMA TelemetrySteps == TelemetryIInv /\ [TelemetryNext]_telemetry_vars => TelemetryIInv'
<1> SUFFICES ASSUME TelemetryIInv, [TelemetryNext]_telemetry_vars
             PROVE  TelemetryIInv'
  OBVIOUS
<1>1. window \in Windows
  BY DEF TelemetryIInv, Counted
<1>2. /\ "handled" \in Outcomes /\ "rejected" \in Outcomes /\ "unparsable" \in Outcomes
      /\ "JoinAccept" \in {"JoinAccept", "MatchState"}
      /\ "MatchState" \in {"JoinAccept", "MatchState"}
  BY DEF Outcomes
<1> DEFINE join == CountSent(window, "JoinAccept", 1)
           welcome == CountSent(join, "MatchState", 1)
<1>3. Answered(window, window)
  BY <1>1, NotAnswered
<1>4. Answered(join, window) /\ join \in Windows
  <2>1. Answered(join, window)
    BY <1>1, <1>2, <1>3, AnswerIs
  <2> HIDE DEF join
  <2> QED
    BY <2>1 DEF Answered
<1>5. Answered(welcome, window) /\ welcome \in Windows
  <2> HIDE DEF join
  <2>1. Answered(welcome, window)
    BY <1>1, <1>2, <1>4, AnswerIs
  <2> HIDE DEF welcome
  <2> QED
    BY <2>1 DEF Answered
<1>6. CASE PacketHandled
  <2> DEFINE v == [window EXCEPT !.inbound_packets_received = @ + 1]
  <2>1. PacketAdds(v, window, 0, 0, 0) /\ ReceivePacket("handled", window)
    BY <1>1, <1>3, <1>6, PacketIs DEF PacketHandled
  <2>2. v = [window EXCEPT !.inbound_packets_received = @ + 1]
    OBVIOUS
  <2> HIDE DEF v
  <2> QED
    BY <1>2, <2>1, <2>2, PacketKeeps
<1>7. CASE PacketUnparsable
  <2> DEFINE x == [window EXCEPT !.inbound_packets_dropped = @ + 1, !.inbound_parse_errors = @ + 1]
             v == [x EXCEPT !.inbound_packets_received = @ + 1]
  <2>1. PacketAdds(v, window, 1, 1, 0) /\ ReceivePacket("unparsable", x)
    BY <1>1, <1>3, <1>7, PacketIs DEF PacketUnparsable
  <2>2. v = [x EXCEPT !.inbound_packets_received = @ + 1]
    OBVIOUS
  <2> HIDE DEF v, x
  <2> QED
    BY <1>2, <2>1, <2>2, PacketKeeps
<1>8. CASE JoinAccepted
  <2> DEFINE v == [welcome EXCEPT !.inbound_packets_received = @ + 1]
  <2>0. ReceivePacket("handled", welcome)
    BY <1>8 DEF JoinAccepted
  <2> HIDE DEF welcome
  <2>1. PacketAdds(v, window, 0, 0, 0)
    BY <1>1, <1>5, PacketIs
  <2>2. v = [welcome EXCEPT !.inbound_packets_received = @ + 1]
    OBVIOUS
  <2> HIDE DEF v
  <2> QED
    BY <1>2, <2>0, <2>1, <2>2, PacketKeeps
<1>9. CASE JoinRejected
  <2> DEFINE x == Rejected(join)
             v == [x EXCEPT !.inbound_packets_received = @ + 1]
  <2>0. ReceivePacket("rejected", x)
    BY <1>9 DEF JoinRejected
  <2> HIDE DEF join
  <2>1. PacketAdds(v, window, 1, 0, 1)
    BY <1>1, <1>4, PacketIs
  <2>2. v = [x EXCEPT !.inbound_packets_received = @ + 1]
    OBVIOUS
  <2> HIDE DEF v, x
  <2> QED
    BY <1>2, <2>0, <2>1, <2>2, PacketKeeps
<1>10. CASE CommandRejected \/ ShotRejected
  <2> DEFINE x == Rejected(window)
             v == [x EXCEPT !.inbound_packets_received = @ + 1]
  <2>0. ReceivePacket("rejected", x)
    BY <1>10 DEF CommandRejected, ShotRejected
  <2>1. PacketAdds(v, window, 1, 0, 1)
    BY <1>1, <1>3, PacketIs
  <2>2. v = [x EXCEPT !.inbound_packets_received = @ + 1]
    OBVIOUS
  <2> HIDE DEF v, x
  <2> QED
    BY <1>2, <2>0, <2>1, <2>2, PacketKeeps
<1>11. CASE \E t \in Ticks : Tick(t)
  BY <1>11, TickKeeps
<1>12. CASE UNCHANGED telemetry_vars
  BY <1>12 DEF telemetry_vars, TelemetryIInv, Since
<1> QED
  BY <1>6, <1>7, <1>8, <1>9, <1>10, <1>11, <1>12 DEF TelemetryNext

-----------------------------------------------------------------------------
(* What a report tells *)

\* The share of n at the percentile, rounded up.
LEMMA PercentileBracket ==
  ASSUME NEW n \in Nat, n > 0
  PROVE  /\ PercentileIndex(n) \in 1 .. n /\ Percentile * n \in Nat
         /\ PercentileIndex(n) * 100 >= Percentile * n
         /\ (PercentileIndex(n) - 1) * 100 < Percentile * n
<1>1. Percentile \in Nat /\ 1 <= Percentile /\ Percentile <= 100
  BY TelemetryNumbers
<1> DEFINE m == Percentile * n
<1>2. m \in Nat /\ n <= m /\ m <= 100 * n
  <2>1. ASSUME NEW a \in Nat, NEW b \in Nat, NEW c \in Nat, a <= b
        PROVE  a * c <= b * c /\ b * c \in Nat
    BY <2>1, SMTT(30)
  <2>2. 1 * n <= Percentile * n /\ Percentile * n <= 100 * n /\ Percentile * n \in Nat
    BY <1>1, <2>1
  <2> QED
    BY <2>2
<1> HIDE DEF m
<1> DEFINE k == (m + 99) \div 100
<1>3. k \in Nat /\ 100 * k <= m + 99 /\ m + 99 < 100 * k + 100
  BY <1>2
<1>4. PercentileIndex(n) = k
  BY DEF PercentileIndex, m
<1> HIDE DEF k
<1>5. k \in 1 .. n /\ k * 100 >= m /\ (k - 1) * 100 < m
  BY <1>2, <1>3
<1> QED
  BY <1>2, <1>4, <1>5 DEF m

\* A maximum, or minimum, is told by being one.
LEMMA MaxIs ==
  ASSUME NEW S \in SUBSET Int, NEW x \in S, \A y \in S : y <= x
  PROVE  Max(S) = x
<1> DEFINE Most(y) == \A z \in S : y >= z
<1>1. \E y \in S : Most(y)
  <2>1. Most(x)
    OBVIOUS
  <2> HIDE DEF Most
  <2> QED
    BY <2>1
<1>2. Max(S) = CHOOSE y \in S : Most(y)
  BY DEF Max
<1>3. Max(S) \in S /\ Most(Max(S))
  <2> HIDE DEF Most
  <2> QED
    BY <1>1, <1>2
<1>4. Max(S) >= x /\ Max(S) <= x /\ Max(S) \in Int /\ x \in Int
  BY <1>3
<1> QED
  BY <1>4

LEMMA MinIs ==
  ASSUME NEW S \in SUBSET Int, NEW x \in S, \A y \in S : x <= y
  PROVE  Min(S) = x
<1> DEFINE Least(y) == \A z \in S : y <= z
<1>1. \E y \in S : Least(y)
  <2>1. Least(x)
    OBVIOUS
  <2> HIDE DEF Least
  <2> QED
    BY <2>1
<1>2. Min(S) = CHOOSE y \in S : Least(y)
  BY DEF Min
<1>3. Min(S) \in S /\ Least(Min(S))
  <2> HIDE DEF Least
  <2> QED
    BY <1>1, <1>2
<1>4. Min(S) <= x /\ x <= Min(S) /\ Min(S) \in Int /\ x \in Int
  BY <1>3
<1> QED
  BY <1>4

\* The last of the sorted values is the largest, and sorting keeps the sum.
LEMMA SortedTells ==
  ASSUME NEW s \in Seq(Nat), NEW n, n = Len(s), n > 0
  PROVE  /\ Len(Sorted(s)) = n
         /\ Last(Sorted(s)) = Max(Range(s))
         /\ SumFunction(Sorted(s)) = SumFunction(s)
<1>1. /\ n \in Nat /\ DOMAIN s = 1 .. n /\ \A i \in 1 .. n : s[i] \in Nat
      /\ n \in 1 .. n
  OBVIOUS
<1>2. PICK order : IsOrder(order, s, n) /\ Reordered(Sorted(s), s, n, order)
  BY SortedIs
<1> DEFINE q == Sorted(s)
<1>3. /\ q = [i \in 1 .. n |-> s[order[i]]]
      /\ order \in [1 .. n -> 1 .. n]
      /\ \A i, j \in 1 .. n : order[i] = order[j] => i = j
      /\ \A k \in 1 .. n : \E i \in 1 .. n : order[i] = k
      /\ \A i, j \in 1 .. n : i < j => s[order[i]] <= s[order[j]]
  BY <1>2 DEF IsOrder, Reordered
<1> HIDE DEF q
<1>4. q \in Seq(Nat) /\ Len(q) = n /\ DOMAIN q = 1 .. n /\ Last(q) = q[n]
  <2>1. q \in [1 .. n -> Nat]
    BY <1>1, <1>3
  <2>2. q \in Seq(Nat) /\ Len(q) = n /\ DOMAIN q = 1 .. n
    BY <1>1, <2>1
  <2> QED
    BY <2>2 DEF Last
<1>5. q[n] = Max(Range(s))
  <2> DEFINE S == Range(s)
  <2>1. S \in SUBSET Int /\ \A y \in S : \E i \in 1 .. n : y = s[i]
    BY <1>1 DEF Range
  <2>2. q[n] \in S
    BY <1>1, <1>3 DEF Range
  <2>3. ASSUME NEW y \in S PROVE y <= q[n]
    <3>1. PICK k \in 1 .. n : y = s[k]
      BY <2>1
    <3>2. PICK i \in 1 .. n : order[i] = k
      BY <1>3
    <3>3. y = q[i] /\ y \in Nat
      BY <1>1, <1>3, <3>1, <3>2
    <3>4. CASE i = n
      BY <3>3, <3>4
    <3>5. CASE i # n
      <4>1. i < n
        BY <1>1, <3>5
      <4> QED
        BY <1>1, <1>3, <3>3, <4>1
    <3> QED
      BY <3>4, <3>5
  <2> HIDE DEF S
  <2>4. Max(S) = q[n]
    BY <2>1, <2>2, <2>3, MaxIs
  <2> QED
    BY <2>4 DEF S
<1>6. SumFunction(q) = SumFunction(s)
  <2> DEFINE D == 1 .. n
  <2>1. IsFiniteSet(D)
    BY <1>1, FS_Interval
  <2>2. \A i \in D : q[i] = s[order[i]] /\ s[order[i]] \in Nat
    BY <1>1, <1>3
  <2>3. \A i, j \in D : order[i] = order[j] => i = j
    BY <1>3
  <2>4. {order[i] : i \in D} = D
    <3>1. \A k \in D : \E i \in D : order[i] = k
      BY <1>3
    <3>2. \A i \in D : order[i] \in D
      BY <1>3
    <3> HIDE DEF D
    <3> QED
      BY <3>1, <3>2
  <2>5. DOMAIN q = D /\ DOMAIN s = D
    BY <1>1, <1>4
  <2> HIDE DEF D
  <2>6. SumFunctionOnSet(q, D) = SumFunctionOnSet(s, {order[i] : i \in D})
    BY <2>1, <2>2, <2>3, SumOfRenamed
  <2> QED
    BY <2>4, <2>5, <2>6 DEF SumFunction
<1> QED
  BY <1>4, <1>5, <1>6 DEF q

\* How many values are at most d.
AtMost(s, n, d) == {i \in 1 .. n : s[i] <= d}

\* At the index of the percentile the sorted values have the percentile by its
\* definition: the least that as many are at most.
LEMMA PercentileIs ==
  ASSUME NEW s \in Seq(Nat), NEW n, n = Len(s), n > 0
  PROVE  Sorted(s)[PercentileIndex(n)]
           = Min({d \in Range(s) : Cardinality(AtMost(s, n, d)) * 100 >= Percentile * n})
<1>1. /\ n \in Nat /\ DOMAIN s = 1 .. n /\ \A i \in 1 .. n : s[i] \in Nat
  OBVIOUS
<1>2. PICK order : IsOrder(order, s, n) /\ Reordered(Sorted(s), s, n, order)
  BY SortedIs
<1> DEFINE q == Sorted(s)
           k == PercentileIndex(n)
           share == Percentile * n
           S == {d \in Range(s) : Cardinality(AtMost(s, n, d)) * 100 >= share}
<1>3. /\ q = [i \in 1 .. n |-> s[order[i]]]
      /\ order \in [1 .. n -> 1 .. n]
      /\ \A i, j \in 1 .. n : i < j => s[order[i]] <= s[order[j]]
      /\ \A i \in 1 .. n : \E j \in 1 .. n : order[j] = i
  BY <1>2 DEF IsOrder, Reordered
<1>4. k \in 1 .. n /\ share \in Nat /\ k * 100 >= share /\ (k - 1) * 100 < share
  BY <1>1, PercentileBracket
<1> HIDE DEF q, k, share
<1>5. \A i \in 1 .. n : q[i] \in Nat /\ q[i] \in Range(s)
  BY <1>1, <1>3 DEF Range
<1>6. \A i, j \in 1 .. n : i <= j => q[i] <= q[j]
  <2> TAKE i, j \in 1 .. n
  <2> HAVE i <= j
  <2>1. CASE i < j
    BY <1>3, <2>1
  <2>2. CASE i = j
    BY <1>5, <2>2
  <2> QED
    BY <1>1, <2>1, <2>2
<1>7. ASSUME NEW d \in Nat
      PROVE  /\ IsFiniteSet(AtMost(q, n, d))
             /\ Cardinality(AtMost(q, n, d)) = Cardinality(AtMost(s, n, d))
             /\ Cardinality(AtMost(q, n, d)) \in Nat
  <2> DEFINE Such == {x \in Nat : x <= d}
             P == {i \in 1 .. n : q[i] \in Such}
             Q == {i \in 1 .. n : s[i] \in Such}
  <2>1. P = AtMost(q, n, d) /\ Q = AtMost(s, n, d)
    BY <1>1, <1>5 DEF AtMost
  <2>2. Cardinality(P) = Cardinality(Q)
    <3>1. IsOrder(order, s, n) /\ Reordered(q, s, n, order)
      BY <1>2 DEF q
    <3> HIDE DEF Such
    <3>2. Cardinality(Chosen(q, n, Such)) = Cardinality(Chosen(s, n, Such))
      BY <1>1, <3>1, CountOfSorted
    <3> QED
      BY <3>2 DEF Chosen
  <2>3. IsFiniteSet(P)
    <3>1. IsFiniteSet(1 .. n) /\ P \in SUBSET (1 .. n)
      BY <1>1, FS_Interval
    <3> HIDE DEF P
    <3> QED
      BY <3>1, FS_Subset
  <2> HIDE DEF P, Q
  <2>4. Cardinality(P) \in Nat
    BY <2>3, FS_CardinalityType
  <2> QED
    BY <2>1, <2>2, <2>3, <2>4
<1>8. q[k] \in S
  <2> DEFINE d == q[k]
             A == AtMost(q, n, d)
             c == Cardinality(A)
  <2>1. d \in Nat /\ d \in Range(s)
    BY <1>4, <1>5
  <2>2. 1 .. k \in SUBSET A
    BY <1>1, <1>4, <1>6 DEF AtMost
  <2> HIDE DEF d, A
  <2>3. IsFiniteSet(A) /\ c = Cardinality(AtMost(s, n, d)) /\ c \in Nat
    BY <1>7, <2>1 DEF A
  <2>4. k <= c
    <3> DEFINE B == 1 .. k
    <3>1. Cardinality(B) = k /\ B \in SUBSET A
      BY <1>4, <2>2, FS_Interval
    <3> HIDE DEF B
    <3>2. Cardinality(B) <= Cardinality(A)
      BY <2>3, <3>1, FS_Subset
    <3> QED
      BY <3>1, <3>2
  <2> HIDE DEF c
  <2>5. c * 100 >= share
    BY <1>1, <1>4, <2>3, <2>4
  <2> QED
    BY <2>1, <2>3, <2>5 DEF d
<1>9. ASSUME NEW d \in S PROVE q[k] <= d
  <2> SUFFICES ASSUME ~(q[k] <= d) PROVE FALSE
    OBVIOUS
  <2>1. d \in Nat /\ Cardinality(AtMost(s, n, d)) * 100 >= share
    BY <1>1 DEF Range
  <2> DEFINE A == AtMost(q, n, d)
             c == Cardinality(A)
  <2>2. A \in SUBSET (1 .. k - 1)
    <3> SUFFICES ASSUME NEW i \in 1 .. n, q[i] <= d PROVE i \in 1 .. k - 1
      BY DEF AtMost
    <3>1. q[i] \in Nat /\ q[k] \in Nat
      BY <1>4, <1>5
    <3>2. ~(k <= i)
      BY <1>4, <1>6, <2>1, <3>1
    <3> QED
      BY <1>1, <1>4, <3>2
  <2> HIDE DEF A
  <2>3. c = Cardinality(AtMost(s, n, d)) /\ c \in Nat
    BY <1>7, <2>1 DEF A
  <2>4. c <= k - 1
    <3> DEFINE m == k - 1
               B == 1 .. m
    <3>0. m \in Nat /\ A \in SUBSET (1 .. m)
      BY <1>4, <2>2
    <3> HIDE DEF m
    <3>1. IsFiniteSet(B) /\ Cardinality(B) = m /\ A \in SUBSET B
      <4>1. IsFiniteSet(1 .. m) /\ Cardinality(1 .. m) = m
        BY <3>0, IntervalCount
      <4> QED
        BY <3>0, <4>1
    <3> HIDE DEF B
    <3>2. Cardinality(A) <= Cardinality(B)
      BY <3>1, FS_Subset
    <3> QED
      BY <3>1, <3>2 DEF m
  <2> HIDE DEF c
  <2>5. c * 100 >= share
    BY <2>1, <2>3
  <2> QED
    BY <1>1, <1>4, <2>3, <2>4, <2>5
<1>10. S \in SUBSET Int
  BY <1>1 DEF Range
<1> HIDE DEF S
<1>11. Min(S) = q[k]
  BY <1>8, <1>9, <1>10, MinIs
<1> QED
  BY <1>11 DEF S, q, k, share

LEMMA TelemetryKeepsItsWord == TelemetryIInv => TelemetryInv
<1> SUFFICES ASSUME TelemetryIInv PROVE TelemetryInv
  OBVIOUS
<1> DEFINE ts == Since(ticks)
           ps == Since(packets)
           w == window
<1>1. /\ ts \in Seq(Ticks) /\ ps \in Seq(Outcomes) /\ Len(ts) < Interval
      /\ w \in Windows /\ TicksCounted(w, ts) /\ PacketsCounted(w, ps) /\ SentCounted(w)
      /\ ticks \in Seq(Ticks) /\ packets \in Seq(Outcomes)
  BY DEF TelemetryIInv, Since, Counted
<1> HIDE DEF ts, ps, w
<1>2. Len(ts) \in Nat /\ Interval \in Nat \ {0} /\ History(Interval) \in Nat
      /\ Interval <= History(Interval)
  BY <1>1, TelemetryNumbers
<1>3. DurationsOf(ts) \in [1 .. Len(ts) -> Nat] /\ DurationsOf(ts) \in Seq(Nat)
      /\ Len(DurationsOf(ts)) = Len(ts)
  <2>1. DOMAIN ts = 1 .. Len(ts) /\ \A i \in DOMAIN ts : ts[i] \in Ticks
    BY <1>1
  <2>2. DurationsOf(ts) \in [1 .. Len(ts) -> Nat]
    BY <2>1, TickTyped DEF DurationsOf
  <2> QED
    BY <1>2, <2>2
<1>4. w.ticks_since_report \in 0 .. Interval - 1 /\ Len(w.tick_durations) <= History(Interval)
  <2>1. w.ticks_since_report = Len(ts) /\ w.tick_durations = DurationsOf(ts)
    BY <1>1 DEF TicksCounted
  <2>2. Len(w.tick_durations) = Len(ts)
    BY <1>3, <2>1
  <2> HIDE DEF w
  <2> QED
    BY <1>1, <1>2, <2>1, <2>2
<1>5. w.inbound_packets_dropped <= w.inbound_packets_received
  <2>1. "handled" \in Outcomes
    BY DEF Outcomes
  <2> DEFINE Such == Lost
  <2> HIDE DEF Such
  <2>2. Cardinality(Places(ps, Such)) <= Len(ps)
    BY <1>1, <2>1, CountOfAppend
  <2> QED
    BY <1>1, <2>2 DEF PacketsCounted, Such
<1>6. w.tick_lag_count <= w.ticks_since_report
  <2> DEFINE Such == LateDurations
             T == Nat
             s == DurationsOf(ts)
             few == Cardinality(Places(s, Such))
  <2>1. s \in Seq(T) /\ 0 \in T /\ Len(s) = Len(ts)
    BY <1>3
  <2>2. w.tick_lag_count = few /\ w.ticks_since_report = Len(ts)
    BY <1>1 DEF TicksCounted
  <2> HIDE DEF Such, T, s
  <2>3. few <= Len(s)
    <3>1. Cardinality(Places(s, Such)) <= Len(s)
      BY <2>1, CountOfAppend
    <3> QED
      BY <3>1
  <2> HIDE DEF few
  <2> QED
    BY <2>1, <2>2, <2>3
<1>7. TelemetryTypes
  BY <1>1, <1>4 DEF TelemetryTypes, w, Outcomes
<1>8. RatesAreShares
  BY <1>1, <1>5, <1>6 DEF RatesAreShares, PacketsCounted, SentCounted, w
<1> QED
  BY <1>7, <1>8 DEF TelemetryInv

\* A report of the window that the history tells of.
Tells(told, late, lost) ==
  /\ Len(ticks) = Interval
  /\ told.tick_max = Max(Range(DurationsOf(ticks)))
  /\ told.tick_sum = SumFunction(DurationsOf(ticks))
  /\ told.tick_p95 =
       Min({d \in Range(DurationsOf(ticks)) :
              HowMany(DurationsOf(ticks), LAMBDA x : x <= d) * 100 >= Percentile * Len(ticks)})
  /\ told.counters.max_tick_overrun = (IF late = 0 THEN 0 ELSE told.tick_max - TickBudget)
  /\ \A phase \in Phases :
       /\ told.counters.phase_total[phase] = SumFunction(WorkOf(ticks, phase))
       /\ told.counters.phase_max[phase] = Max(Range(WorkOf(ticks, phase)))
  /\ told.counters.active_players_sum = SumFunction(PlayersOf(ticks))
  /\ told.counters.peak_active_sessions = Max(Range(PlayersOf(ticks)))
  /\ told.counters.packet_count_by_type["StateSnapshot"] = SumFunction(SnapshotsOf(ticks))
  /\ told.counters.inbound_packets_received = Len(packets)
  /\ "tick_lag" \in told.alerts <=> late * 100 > MaxLagRate * Len(ticks)
  /\ "packet_drop" \in told.alerts <=> lost * 100 > MaxDropRate * Len(packets)
  /\ "active_players" \in told.alerts
       <=> SumFunction(PlayersOf(ticks)) < MinActivePlayers * Len(ticks)

LateTicks == Cardinality(Places(DurationsOf(ticks), LateDurations))
LostPackets == Cardinality(Places(packets, Lost))

\* A peak is the largest of what it is the peak of.
LEMMA PeakIsMax ==
  ASSUME NEW n \in Nat, n > 0, NEW s \in [1 .. n -> Nat], NEW peak, PeakIs(peak, s)
  PROVE  peak = Max(Range(s))
<1> DEFINE S == Range(s)
<1>1. S \in SUBSET Int /\ s[1] \in S /\ \A i \in 1 .. n : s[i] \in S
  BY DEF Range
<1>2. \A y \in S : y <= peak
  BY DEF PeakIs, Range
<1>3. peak \in S
  <2>1. CASE peak = 0
    <3>1. 1 \in 1 .. n /\ s[1] \in Nat /\ s[1] <= 0
      BY <2>1 DEF PeakIs
    <3>2. s[1] = peak
      BY <2>1, <3>1
    <3> HIDE DEF S
    <3> QED
      BY <1>1, <3>2
  <2>2. CASE peak # 0
    <3>1. PICK i \in DOMAIN s : s[i] = peak
      BY <2>2 DEF PeakIs
    <3> HIDE DEF S
    <3> QED
      BY <1>1, <3>1
  <2> QED
    BY <2>1, <2>2
<1> HIDE DEF S
<1>4. Max(S) = peak
  BY <1>1, <1>2, <1>3, MaxIs
<1> QED
  BY <1>4 DEF S

LEMMA ReportTells ==
  ASSUME NEW w, ticks \in Seq(Ticks), packets \in Seq(Outcomes),
         Counted(w, ticks, packets), Len(ticks) = Interval
  PROVE  Tells(ReportOf(w), LateTicks, LostPackets)
<1> DEFINE n == Len(ticks)
           s == DurationsOf(ticks)
           players == PlayersOf(ticks)
           sent == SnapshotsOf(ticks)
           told == ReportOf(w)
           late == Cardinality(Places(s, LateDurations))
           lost == Cardinality(Places(packets, Lost))
<1>1. /\ w \in Windows /\ TicksCounted(w, ticks) /\ PacketsCounted(w, packets)
  BY DEF Counted
<1>2. /\ n \in Nat /\ n > 0 /\ DOMAIN ticks = 1 .. n /\ n = Interval
      /\ \A i \in 1 .. n : ticks[i] \in Ticks
  BY TelemetryNumbers
<1>3. /\ s \in [1 .. n -> Nat] /\ players \in [1 .. n -> Nat]
      /\ DOMAIN s = 1 .. n /\ DOMAIN players = 1 .. n
  BY <1>2, TickTyped DEF DurationsOf, PlayersOf
<1>4. s \in Seq(Nat) /\ Len(s) = n
  BY <1>2, <1>3
<1>5. /\ w.tick_durations = s /\ w.ticks_since_report = n /\ w.active_players_samples = n
      /\ w.tick_lag_count = late /\ OverrunIs(w.max_tick_overrun, s)
      /\ PhasesCounted(w, ticks)
      /\ w.active_players_sum = SumFunction(players)
      /\ PeakIs(w.peak_active_sessions, players)
      /\ w.packet_count_by_type["StateSnapshot"] = SumFunction(sent)
      /\ w.inbound_packets_received = Len(packets)
      /\ w.inbound_packets_dropped = lost
  BY <1>1 DEF TicksCounted, PacketsCounted
<1>6. /\ told.counters = w /\ told.tick_max = Last(Sorted(s))
      /\ told.tick_sum = SumFunction(Sorted(s))
      /\ told.tick_p95 = Sorted(s)[PercentileIndex(Len(Sorted(s)))]
      /\ "tick_lag" \in told.alerts <=> w.tick_lag_count * 100 > MaxLagRate * w.ticks_since_report
      /\ "packet_drop" \in told.alerts
           <=> w.inbound_packets_dropped * 100 > MaxDropRate * w.inbound_packets_received
      /\ "active_players" \in told.alerts
           <=> w.active_players_sum < MinActivePlayers * w.active_players_samples
  BY <1>5 DEF ReportOf
<1> HIDE DEF s, players, sent, told, late, lost, n
<1>7. /\ told.tick_max = Max(Range(s)) /\ told.tick_sum = SumFunction(s)
       /\ told.tick_p95
            = Min({d \in Range(s) : Cardinality(AtMost(s, n, d)) * 100 >= Percentile * n})
  <2>1. /\ Len(Sorted(s)) = n /\ Last(Sorted(s)) = Max(Range(s))
        /\ SumFunction(Sorted(s)) = SumFunction(s)
    BY <1>2, <1>4, SortedTells
  <2>2. Sorted(s)[PercentileIndex(n)]
          = Min({d \in Range(s) : Cardinality(AtMost(s, n, d)) * 100 >= Percentile * n})
    BY <1>2, <1>4, PercentileIs
  <2> QED
    BY <1>6, <2>1, <2>2
<1>8. told.tick_p95 = Min({d \in Range(s) :
                              HowMany(s, LAMBDA x : x <= d) * 100 >= Percentile * Len(ticks)})
  <2>1. {d \in Range(s) : HowMany(s, LAMBDA x : x <= d) * 100 >= Percentile * Len(ticks)}
          = {d \in Range(s) : Cardinality(AtMost(s, n, d)) * 100 >= Percentile * n}
    BY <1>3, Zenon DEF n, HowMany, AtMost
  <2> QED
    BY <1>7, <2>1
<1>9. w.max_tick_overrun = IF late = 0 THEN 0 ELSE told.tick_max - TickBudget
  <2>1. IsFiniteSet(Places(s, LateDurations))
    <3>1. IsFiniteSet(1 .. n) /\ Places(s, LateDurations) \in SUBSET (1 .. n)
      BY <1>2, <1>3, FS_Interval DEF Places
    <3> QED
      BY <3>1, FS_Subset
  <2>2. late = 0 <=> Places(s, LateDurations) = {}
    BY <2>1, FS_EmptySet DEF late
  <2>3. CASE w.max_tick_overrun = 0 /\ Places(s, LateDurations) = {}
    BY <2>2, <2>3
  <2>4. ASSUME NEW i \in DOMAIN s, s[i] \in LateDurations,
               w.max_tick_overrun = s[i] - TickBudget, \A j \in DOMAIN s : s[j] <= s[i]
        PROVE  w.max_tick_overrun = IF late = 0 THEN 0 ELSE told.tick_max - TickBudget
    <3>1. late # 0
      BY <2>2, <2>4 DEF Places
    <3> DEFINE S == Range(s)
    <3>2. S \in SUBSET Int /\ s[i] \in S /\ \A y \in S : y <= s[i]
      BY <1>3, <2>4 DEF Range
    <3> HIDE DEF S
    <3>3. Max(S) = s[i]
      BY <3>2, MaxIs
    <3> QED
      BY <1>7, <2>4, <3>1, <3>3 DEF S
  <2> QED
    BY <1>5, <2>3, <2>4 DEF OverrunIs
<1>10. w.peak_active_sessions = Max(Range(players))
  BY <1>2, <1>3, <1>5, PeakIsMax
<1>11. /\ "tick_lag" \in told.alerts <=> late * 100 > MaxLagRate * Len(ticks)
       /\ "packet_drop" \in told.alerts <=> lost * 100 > MaxDropRate * Len(packets)
       /\ "active_players" \in told.alerts
            <=> SumFunction(players) < MinActivePlayers * Len(ticks)
  BY <1>5, <1>6 DEF n
<1>12. /\ Len(ticks) = Interval /\ told.tick_max = Max(Range(s))
       /\ told.tick_sum = SumFunction(s)
       /\ told.counters.max_tick_overrun = (IF late = 0 THEN 0 ELSE told.tick_max - TickBudget)
       /\ told.counters.active_players_sum = SumFunction(players)
       /\ told.counters.peak_active_sessions = Max(Range(players))
       /\ told.counters.packet_count_by_type["StateSnapshot"] = SumFunction(sent)
       /\ told.counters.inbound_packets_received = Len(packets)
  BY <1>5, <1>6, <1>7, <1>9, <1>10
<1>13. ASSUME NEW phase \in Phases
       PROVE  /\ told.counters.phase_total[phase] = SumFunction(WorkOf(ticks, phase))
              /\ told.counters.phase_max[phase] = Max(Range(WorkOf(ticks, phase)))
  <2> DEFINE work == WorkOf(ticks, phase)
             longest == w.phase_max[phase]
  <2>1. work \in [1 .. n -> Nat]
    BY <1>2, TickTyped DEF WorkOf
  <2>2. w.phase_total[phase] = SumFunction(work) /\ PeakIs(longest, work)
    BY <1>5 DEF PhasesCounted, PhaseIs
  <2> HIDE DEF work, longest
  <2>3. longest = Max(Range(work))
    BY <1>2, <2>1, <2>2, PeakIsMax
  <2> QED
    BY <1>6, <2>2, <2>3 DEF work, longest
<1> QED
  BY <1>8, <1>11, <1>12, <1>13 DEF Tells, s, players, sent, told, late, lost, LateTicks, LostPackets

LEMMA ReportsTell == TelemetryIInv => ReportsTellTheirWindow
<1> SUFFICES ASSUME TelemetryIInv PROVE ReportsTellTheirWindow
  OBVIOUS
<1> DEFINE s == DurationsOf(ticks)
           players == PlayersOf(ticks)
           sent == SnapshotsOf(ticks)
           late == LateTicks
           lost == LostPackets
<1>1. ticks \in Seq(Ticks) /\ packets \in Seq(Outcomes)
  BY DEF TelemetryIInv
<1>2. /\ DOMAIN ticks = 1 .. Len(ticks) /\ DOMAIN s = DOMAIN ticks
      /\ \A i \in DOMAIN ticks : ticks[i] \in Ticks
  BY <1>1 DEF DurationsOf
<1>3. \A i \in DOMAIN ticks : ticks[i].elapsed \in Nat /\ s[i] = ticks[i].elapsed
  BY <1>2, TickTyped DEF DurationsOf
<1>4. /\ s = [i \in DOMAIN ticks |-> ticks[i].elapsed]
      /\ players = [i \in DOMAIN ticks |-> ticks[i].players]
      /\ sent = [i \in DOMAIN ticks |-> IF ticks[i].snapshot THEN ticks[i].players ELSE 0]
  BY DEF DurationsOf, PlayersOf, SnapshotsOf
<1>5. HowMany(ticks, LAMBDA t : t.elapsed > TickBudget + TickLagTolerance) = late
  <2>1. {i \in DOMAIN ticks : ticks[i].elapsed > TickBudget + TickLagTolerance}
          = Places(s, LateDurations)
    BY <1>2, <1>3 DEF Places, LateDurations, IsLate
  <2> QED
    BY <2>1 DEF HowMany, LateTicks
<1>6. HowMany(packets, LAMBDA p : p # "handled") = lost
  <2>1. {i \in DOMAIN packets : packets[i] # "handled"} = Places(packets, Lost)
    <3>1. \A i \in DOMAIN packets : packets[i] \in Outcomes
      BY <1>1
    <3> QED
      BY <3>1 DEF Places, Lost, Outcomes
  <2> QED
    BY <2>1 DEF HowMany, LostPackets
<1>7. ASSUME NEW told \in report PROVE Tells(told, late, lost)
  BY <1>1, ReportTells DEF TelemetryIInv
<1>8. ASSUME NEW told \in report, NEW phase \in Phases
      PROVE  LET work == [i \in DOMAIN ticks |-> ticks[i].work[phase]]
             IN  /\ told.counters.phase_total[phase] = SumFunction(work)
                 /\ told.counters.phase_max[phase] = Max(Range(work))
  <2> DEFINE work == WorkOf(ticks, phase)
  <2>1. work = [i \in DOMAIN ticks |-> ticks[i].work[phase]]
    BY DEF WorkOf
  <2>2. /\ told.counters.phase_total[phase] = SumFunction(work)
        /\ told.counters.phase_max[phase] = Max(Range(work))
    BY <1>7 DEF Tells
  <2> HIDE DEF work
  <2> QED
    BY <2>1, <2>2
<1> HIDE DEF late, lost
<1> QED
  BY <1>4, <1>5, <1>6, <1>7, <1>8, Zenon DEF ReportsTellTheirWindow, Tells

\* The counters of the window at every moment: no rate above one, every packet
\* dropped for one reason, the sums the sums of their parts.
THEOREM TelemetryInvHolds == TelemetrySpec => []TelemetryInv
<1>1. TelemetryInit => TelemetryIInv
  BY TelemetryStarts
<1>2. TelemetryIInv /\ [TelemetryNext]_telemetry_vars => TelemetryIInv'
  BY TelemetrySteps
<1>3. TelemetryIInv => TelemetryInv
  BY TelemetryKeepsItsWord
<1> QED
  BY <1>1, <1>2, <1>3, PTL DEF TelemetrySpec

\* A report tells of its own window all there is, and nothing of another, for
\* every window, threshold and percentile that may be configured.
THEOREM ReportsTellTheirWindowHolds == TelemetrySpec => []ReportsTellTheirWindow
<1>1. TelemetryInit => TelemetryIInv
  BY TelemetryStarts
<1>2. TelemetryIInv /\ [TelemetryNext]_telemetry_vars => TelemetryIInv'
  BY TelemetrySteps
<1>3. TelemetryIInv => ReportsTellTheirWindow
  BY ReportsTell
<1> QED
  BY <1>1, <1>2, <1>3, PTL DEF TelemetrySpec
=============================================================================
