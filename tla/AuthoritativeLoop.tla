------------------------- MODULE AuthoritativeLoop --------------------------
(***************************************************************************)
(* server/src/AuthoritativeLoop.cpp: the bounded queues of player inputs   *)
(* between two ticks, and the schedule of fixed ticks that drains them.    *)
(*                                                                         *)
(* An input is its player and its input_seq; the movement it carries is    *)
(* left out.  Time is counted in clock units, TickInterval of them a tick. *)
(***************************************************************************)
EXTENDS Integers, Sequences, SequencesExt, Maps

CONSTANTS
  MaxPlayers,             \* player ids are 1 .. MaxPlayers
  InputQueueCapacity,     \* RuntimeConfig::input_queue_capacity, all players together
  SnapshotIntervalTicks,  \* RuntimeConfig::snapshot_interval_ticks
  TickInterval,           \* clock units between two ticks
  MaxInputSeq,            \* bound: input sequence numbers a client may send
  MaxNow                  \* bound: clock units the model runs for

\* sanitize_config raises zeros of the configuration to one.
ASSUME LoopAssumption ==
  /\ MaxPlayers \in Nat
  /\ InputQueueCapacity \in Nat \ {0}
  /\ SnapshotIntervalTicks \in Nat \ {0}
  /\ TickInterval \in Nat \ {0}
  /\ MaxInputSeq \in Nat
  /\ MaxNow \in Nat

VARIABLES
  now,                       \* what steady_clock::now() last returned
  tick_counter,
  next_tick_deadline,
  pending_input_count,
  input_queues_by_player,    \* player -> queued input_seqs, oldest first
  last_input_seq_by_player,  \* player -> last input_seq accepted; partial
  frames                     \* what the last advance returned

queue_vars == <<pending_input_count, input_queues_by_player,
                last_input_seq_by_player>>
clock_vars == <<tick_counter, next_tick_deadline, frames>>
vars == <<now, clock_vars, queue_vars>>

Players == 1 .. MaxPlayers
InputSeqs == 0 .. MaxInputSeq

Init ==
  /\ now = 0
  /\ tick_counter = 0
  /\ next_tick_deadline = TickInterval
  /\ pending_input_count = 0
  /\ input_queues_by_player = [p \in Players |-> <<>>]
  /\ last_input_seq_by_player = EmptyMap
  /\ frames = <<>>

-----------------------------------------------------------------------------

OutOfOrder(player, seq) ==
  \/ /\ player \in DOMAIN last_input_seq_by_player
     /\ seq <= last_input_seq_by_player[player]
  \/ /\ input_queues_by_player[player] # <<>>
     /\ seq <= Last(input_queues_by_player[player])

HasRoom == pending_input_count < InputQueueCapacity

\* enqueue_input, Accepted.
InputAccepted(player, seq) ==
  /\ ~OutOfOrder(player, seq)
  /\ HasRoom
  /\ input_queues_by_player' =
       [input_queues_by_player EXCEPT ![player] = Append(@, seq)]
  /\ last_input_seq_by_player' = Put(last_input_seq_by_player, player, seq)
  /\ pending_input_count' = pending_input_count + 1
  /\ UNCHANGED <<now, clock_vars>>

\* enqueue_input, OutOfOrder or QueueFull: the input is dropped.
InputDropped(player, seq) ==
  /\ OutOfOrder(player, seq) \/ ~HasRoom
  /\ UNCHANGED vars

\* A clear_player that leaves the inputs of the player counted.
ClearPlayerUncounted(player) ==
  /\ input_queues_by_player' = [input_queues_by_player EXCEPT ![player] = <<>>]
  /\ last_input_seq_by_player' = Erase(last_input_seq_by_player, {player})
  /\ UNCHANGED <<now, clock_vars, pending_input_count>>

\* clear_player: the player left, and its next input_seq may be anything.
ClearPlayer(player) ==
  /\ pending_input_count' =
       pending_input_count - Len(input_queues_by_player[player])
  /\ input_queues_by_player' = [input_queues_by_player EXCEPT ![player] = <<>>]
  /\ last_input_seq_by_player' = Erase(last_input_seq_by_player, {player})
  /\ UNCHANGED <<now, clock_vars>>

\* drain_inputs_deterministic: player by player, oldest first.
DrainedInputs ==
  FlattenSeq([p \in Players |->
    [i \in 1 .. Len(input_queues_by_player[p]) |->
       [player_id |-> p, input_seq |-> input_queues_by_player[p][i]]]])

Frame(tick, inputs) ==
  [tick |-> tick, inputs |-> inputs,
   snapshot_due |-> tick % SnapshotIntervalTicks = 0]

\* A catch-up that runs at most one tick per call.
DueTicksSingle == IF now >= next_tick_deadline THEN 1 ELSE 0

\* The ticks whose deadline has passed.
DueTicks ==
  IF now < next_tick_deadline THEN 0
  ELSE (now - next_tick_deadline) \div TickInterval + 1

NextDeadline == next_tick_deadline + DueTicks * TickInterval

\* advance: one frame per missed deadline; the first takes every queued input,
\* so that the frames after it have none.
Advance ==
  /\ frames' = [i \in 1 .. DueTicks |->
                  Frame(tick_counter + i, IF i = 1 THEN DrainedInputs ELSE <<>>)]
  /\ tick_counter' = tick_counter + DueTicks
  /\ next_tick_deadline' = NextDeadline
  /\ IF DueTicks = 0
     THEN UNCHANGED queue_vars
     ELSE /\ input_queues_by_player' = [p \in Players |-> <<>>]
          /\ pending_input_count' = 0
          /\ UNCHANGED last_input_seq_by_player
  /\ UNCHANGED now

\* The inner event loop may hold the server up for any time before it calls
\* advance again.
ClockAdvances ==
  /\ now < MaxNow
  /\ \E later \in now + 1 .. MaxNow : now' = later
  /\ UNCHANGED <<clock_vars, queue_vars>>

Next ==
  \/ \E player \in Players, seq \in InputSeqs :
       InputAccepted(player, seq) \/ InputDropped(player, seq)
  \/ \E player \in Players : ClearPlayer(player)
  \/ Advance
  \/ ClockAdvances

Spec == Init /\ [][Next]_vars

-----------------------------------------------------------------------------
(* Properties *)

\* The clock, the counters, the queues and the frames have their types.
TypeOK ==
  /\ now \in Nat
  /\ tick_counter \in Nat
  /\ next_tick_deadline \in Nat
  /\ pending_input_count \in Nat
  /\ input_queues_by_player \in [Players -> Seq(InputSeqs)]
  /\ DOMAIN last_input_seq_by_player \subseteq Players
  /\ last_input_seq_by_player \in [DOMAIN last_input_seq_by_player -> InputSeqs]

\* What a player has queued is strictly increasing and ends with the last
\* input_seq accepted from it: nothing is queued twice, and after a reconnect
\* (clear_player) nothing of the earlier stay is left in front of the new inputs.
QueuesOrdered ==
  \A p \in Players :
    LET queue == input_queues_by_player[p]
    IN  /\ \A i, j \in 1 .. Len(queue) : i < j => queue[i] < queue[j]
        /\ queue # <<>> => /\ p \in DOMAIN last_input_seq_by_player
                           /\ Last(queue) = last_input_seq_by_player[p]

\* Every queued input, as the set of its player and sequence number.
PendingInputs ==
  {input \in Players \X InputSeqs :
     input[2] \in Range(input_queues_by_player[input[1]])}

\* pending_input_count, kept by hand in four places, is the number of inputs
\* that are queued: were it to drift up, inputs would be refused for good; were
\* it to drift below, it would wrap and refuse everything.
PendingCountExact == pending_input_count = Cardinality(PendingInputs)

\* All players together never have more inputs queued than the capacity.
QueueBounded == pending_input_count <= InputQueueCapacity

\* The strengthening that makes the invariants above inductive.
QueueInv == TypeOK /\ QueuesOrdered /\ PendingCountExact /\ QueueBounded

\* The deadlines stay on the grid of the tick rate, however late advance is
\* called: no tick is skipped, repeated or run before its time.
TicksOnGrid ==
  /\ next_tick_deadline = (tick_counter + 1) * TickInterval
  /\ tick_counter * TickInterval <= now

\* The inductive invariant: queues, counter and schedule.
LoopInv == QueueInv /\ TicksOnGrid

\* Whenever advance runs ticks it runs all that are due: the next deadline lies
\* ahead of the clock and the frames number the ticks without a gap.
AdvanceCatchesUp ==
  [][tick_counter' # tick_counter =>
       /\ now < next_tick_deadline'
       /\ Len(frames') = tick_counter' - tick_counter
       /\ \A i \in DOMAIN frames' : frames'[i].tick = tick_counter + i]_vars

=============================================================================
