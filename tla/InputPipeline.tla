--------------------------- MODULE InputPipeline ----------------------------
(***************************************************************************)
(* The way of an input and of its acknowledgement: the numbering and the   *)
(* prediction of one client (client/src/PredictionReconciler.cpp and the   *)
(* client main loop), the queues and ticks of AuthoritativeLoop, the       *)
(* latest-input rule of MovementSimulation, and back in the snapshots.     *)
(*                                                                         *)
(* Player Local is served by this repository's client, one process after   *)
(* the other.  The other players send whatever numbers they like.          *)
(*                                                                         *)
(* Where a player moves to is left out: a predicted state is the           *)
(* acknowledged state it started from and the inputs applied on top.       *)
(* Packets of a connection are reliable and ordered.                       *)
(***************************************************************************)
EXTENDS AuthoritativeLoop

CONSTANTS
  MaxPendingInputs,       \* PredictionConfig::max_pending_inputs
  MaxLag                  \* bound: inputs of the client on their way

Local == 1
Strangers == Players \ {Local}

ASSUME PipelineAssumption ==
  /\ Local \in Players
  /\ MaxPendingInputs \in Nat \ {0}
  /\ MaxLag \in Nat \ {0}

VARIABLES
  in_session,        \* the server has a session for Local
  processed,         \* player -> last_processed_input_seq; partial
  client,            \* "gone", "joining" or "joined"
  next_input_seq,
  pending_inputs,    \* inputs not acknowledged yet, oldest first
  predicted,         \* the acknowledged input it is based on, inputs on top
  outbox,            \* inputs on their way to the server
  inbox              \* packets on their way to the client

reconciler_vars == <<next_input_seq, pending_inputs, predicted>>
client_vars == <<client, reconciler_vars>>
pipeline_vars == <<vars, in_session, processed, client_vars, outbox, inbox>>

Untouched == [base |-> 0, inputs |-> <<>>]

PipelineInit ==
  /\ Init
  /\ in_session = FALSE
  /\ processed = [p \in Strangers |-> 0]
  /\ client = "gone"
  /\ next_input_seq = 1
  /\ pending_inputs = <<>>
  /\ predicted = Untouched
  /\ outbox = <<>>
  /\ inbox = <<>>

-----------------------------------------------------------------------------
(* PredictionReconciler *)

\* The window of the inputs that can be replayed: the oldest falls out.
Windowed(inputs) ==
  SubSeq(inputs, Len(inputs) + 1 - MaxPendingInputs, Len(inputs))

\* apply_input: the motion is not computed, what it was computed from is kept.
Applied(prediction, seqs) == [prediction EXCEPT !.inputs = @ \o seqs]

\* queue_local_input, and the packet that carries the input.
QueueLocalInput ==
  /\ client = "joined"
  /\ next_input_seq <= MaxInputSeq
  /\ Len(outbox) < MaxLag
  /\ next_input_seq' = next_input_seq + 1
  /\ pending_inputs' =
       IF Len(pending_inputs) >= MaxPendingInputs
       THEN Windowed(Append(pending_inputs, next_input_seq))
       ELSE Append(pending_inputs, next_input_seq)
  /\ predicted' = Applied(predicted, <<next_input_seq>>)
  /\ outbox' = Append(outbox, next_input_seq)
  /\ UNCHANGED <<vars, in_session, processed, client, inbox>>

\* Where the loop that drops the acknowledged inputs at the front stops.
FirstUnacknowledged(ack) ==
  CHOOSE i \in 1 .. Len(pending_inputs) + 1 :
    /\ \A j \in 1 .. i - 1 : pending_inputs[j] <= ack
    /\ i <= Len(pending_inputs) => pending_inputs[i] > ack

\* A loop that leaves the acknowledged input in the window.
UnacknowledgedOffByOne(ack) ==
  SubSeq(pending_inputs, FirstUnacknowledged(ack - 1), Len(pending_inputs))

\* The inputs a reconciliation keeps and replays.
Unacknowledged(ack) ==
  SubSeq(pending_inputs, FirstUnacknowledged(ack), Len(pending_inputs))

\* reconcile: start from the server's state and replay what it has not seen.
Reconcile(ack) ==
  /\ pending_inputs' = Unacknowledged(ack)
  /\ predicted' = Applied([base |-> ack, inputs |-> <<>>], Unacknowledged(ack))
  /\ UNCHANGED <<client, next_input_seq>>

\* extract_player_state: the client finds itself among the players by its
\* id; a snapshot sent to a session has its player.
OwnStates(packet) == {q \in packet.players : q.player_id = Local}

\* JoinAccept: numbering starts again.
ResetReconciler ==
  /\ client' = "joined"
  /\ next_input_seq' = 1
  /\ pending_inputs' = <<>>
  /\ predicted' = Untouched

\* The client reads its next packet.
Receive ==
  /\ inbox # <<>>
  /\ inbox' = Tail(inbox)
  /\ \/ /\ Head(inbox).type = "join_accept"
        /\ ResetReconciler
     \/ /\ Head(inbox).type = "state_snapshot"
        /\ \E own \in OwnStates(Head(inbox)) : Reconcile(own.last_processed_input_seq)
  /\ UNCHANGED <<vars, in_session, processed, outbox>>

\* The client process ends; what is on its way to the server may still arrive.
Quit ==
  /\ client # "gone"
  /\ client' = "gone"
  /\ next_input_seq' = 1
  /\ pending_inputs' = <<>>
  /\ predicted' = Untouched
  /\ inbox' = <<>>
  /\ UNCHANGED <<vars, in_session, processed, outbox>>

-----------------------------------------------------------------------------
(* The server's handlers *)

\* A new client process joins and gets the player id.
Join ==
  /\ client = "gone" /\ ~in_session
  /\ client' = "joining"
  /\ in_session' = TRUE
  /\ processed' = Emplace(processed, Local, 0)
  /\ inbox' = <<[type |-> "join_accept"]>>
  /\ outbox' = <<>>
  /\ UNCHANGED <<vars, reconciler_vars>>

\* PlayerInput from the client: queued, or dropped without a word.
DeliverInput ==
  /\ in_session
  /\ outbox # <<>>
  /\ outbox' = Tail(outbox)
  /\ InputAccepted(Local, Head(outbox)) \/ InputDropped(Local, Head(outbox))
  /\ UNCHANGED <<in_session, processed, client_vars, inbox>>

\* PlayerInput from somebody else's client.
StrangerInput(player, seq) ==
  /\ InputAccepted(player, seq) \/ InputDropped(player, seq)
  /\ UNCHANGED <<in_session, processed, client_vars, outbox, inbox>>

\* A departure that leaves the motion state.
EndSessionKeepingMotion ==
  /\ in_session
  /\ in_session' = FALSE
  /\ ClearPlayer(Local)
  /\ outbox' = <<>>
  /\ UNCHANGED <<processed, client_vars, inbox>>

\* A departure that leaves the queue and the numbering in the loop.
EndSessionUncleared ==
  /\ in_session
  /\ in_session' = FALSE
  /\ processed' = Erase(processed, {Local})
  /\ outbox' = <<>>
  /\ UNCHANGED <<vars, client_vars, inbox>>

\* Disconnect or timeout.  Inputs that arrive later have no session and are
\* refused.
EndSession ==
  /\ in_session
  /\ in_session' = FALSE
  /\ ClearPlayer(Local)
  /\ processed' = Erase(processed, {Local})
  /\ outbox' = <<>>
  /\ UNCHANGED <<client_vars, inbox>>

\* Somebody else leaves and another one takes the slot.
StrangerReplaced(player) ==
  /\ ClearPlayer(player)
  /\ processed' = [processed EXCEPT ![player] = 0]
  /\ UNCHANGED <<in_session, client_vars, outbox, inbox>>

-----------------------------------------------------------------------------
(* Ticks *)

InputsOf(player, inputs) ==
  {i \in DOMAIN inputs : inputs[i].player_id = player}

\* The latest input of a player wins, the ones before it count as processed.
ProcessedAfter(player, inputs) ==
  LET own == InputsOf(player, inputs)
      before == IF player \in DOMAIN processed THEN processed[player] ELSE 0
  IN IF own = {} THEN before
     ELSE Max({before, inputs[Max(own)].input_seq})

\* MovementSimulation::apply_inputs, the acknowledgements it leaves: an input
\* without a motion state makes one.
ApplyInputs(inputs) ==
  [p \in DOMAIN processed \cup {inputs[i].player_id : i \in DOMAIN inputs} |->
     ProcessedAfter(p, inputs)]

\* The part of a state snapshot the motion states are told in.
Snapshot(motions) ==
  [type |-> "state_snapshot",
   players |-> {[player_id |-> p, last_processed_input_seq |-> motions[p]] :
                  p \in DOMAIN motions}]

SnapshotsDue == Cardinality({i \in DOMAIN frames' : frames'[i].snapshot_due})

\* A run of the ticks that are due: only the first frame has inputs, and every
\* frame that is due for one sends the snapshot with the acknowledgement.
RunTicks ==
  /\ Advance
  /\ processed' = IF frames' = <<>> THEN processed ELSE ApplyInputs(frames'[1].inputs)
  /\ inbox' =
       IF in_session /\ client # "gone"
       THEN inbox \o [i \in 1 .. SnapshotsDue |-> Snapshot(processed')]
       ELSE inbox
  /\ UNCHANGED <<in_session, client_vars, outbox>>

TimePasses ==
  /\ ClockAdvances
  /\ UNCHANGED <<in_session, processed, client_vars, outbox, inbox>>

PipelineNext ==
  \/ QueueLocalInput
  \/ Receive
  \/ Quit
  \/ Join
  \/ DeliverInput
  \/ \E p \in Strangers, seq \in InputSeqs : StrangerInput(p, seq)
  \/ EndSession
  \/ \E p \in Strangers : StrangerReplaced(p)
  \/ RunTicks
  \/ TimePasses

PipelineSpec == PipelineInit /\ [][PipelineNext]_pipeline_vars

-----------------------------------------------------------------------------
(* Properties *)

\* Every variable of the pipeline has its type.
PipelineTypeOK ==
  /\ TypeOK
  /\ in_session \in BOOLEAN
  /\ DOMAIN processed \subseteq Players
  /\ Range(processed) \subseteq InputSeqs
  /\ client \in {"gone", "joining", "joined"}
  /\ next_input_seq \in 1 .. MaxInputSeq + 1
  /\ Len(pending_inputs) <= MaxPendingInputs
  /\ predicted.base \in InputSeqs

\* The acknowledgements and the inputs of one stay of the client, in the order
\* the packets will be read: what it replays from, what is on its way back, what
\* the server has processed and queued, what is on its way there.  They never
\* decrease, whatever was collapsed in one tick, dropped for lack of room, sent
\* by others, or left behind by an earlier client with the same player id.
AcknowledgedInOrder ==
  client = "joined" /\ in_session
    => LET acks == [i \in 1 .. Len(inbox) |->
                      (CHOOSE q \in OwnStates(inbox[i]) : TRUE).last_processed_input_seq]
           chain == <<predicted.base>> \o acks \o <<processed[Local]>>
                      \o input_queues_by_player[Local] \o outbox
                      \o <<next_input_seq - 1>>
       IN  \A i \in 1 .. Len(chain) - 1 : chain[i] <= chain[i + 1]

\* What the pipeline keeps in order.
PipelineInv == PipelineTypeOK /\ AcknowledgedInOrder

\* The prediction is the last acknowledged state with exactly the inputs on top
\* that the acknowledgement does not cover: none twice, none missing, in order.
\* Only inputs beyond the window of max_pending_inputs are left out.
ReplayExact ==
  LET n == Len(predicted.inputs)
      sent == next_input_seq - 1
  IN  /\ predicted.inputs = [i \in 1 .. n |-> sent - n + i]
      /\ \/ n = sent - predicted.base
         \/ MaxPendingInputs <= n /\ n < sent - predicted.base

\* The server never takes an input of the client for old: a client that comes
\* back and numbers from 1 again is heard at once.  Lack of room is the only
\* reason to drop one.
ClientIsHeard ==
  in_session /\ outbox # <<>> => ~OutOfOrder(Local, Head(outbox))
=============================================================================
