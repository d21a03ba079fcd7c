-------------------------- MODULE RuntimeTelemetry --------------------------
(***************************************************************************)
(* server/src/RuntimeTelemetry.cpp and the places of the server main loop  *)
(* that feed it: counters of a window of ticks, filled by the packet       *)
(* handlers and by the ticks in between, and a report with its alerts at   *)
(* the end of each window.                                                 *)
(*                                                                         *)
(* The counters of the class are one record, window, with the names of the *)
(* members.  Rates are compared in percent without dividing, and averages  *)
(* are kept as sum and count; sizes in bytes are left out, and of the peak *)
(* resources only the sessions are kept.  Of the packets a tick sends only *)
(* its snapshots are kept: MatchState and damage broadcasts are counted    *)
(* the same way.                                                           *)
(***************************************************************************)
EXTENDS Integers, Sequences, FiniteSets, FiniteSetsExt, SequencesExt, Functions

CONSTANTS
  ReportInterval, HistorySize,        \* as configured: sanitize_config corrects them
  TickBudget, TickLagTolerance,       \* in the unit of Times
  Percentile,                         \* 95, in percent
  MaxLagRate, MaxDropRate, MaxParseErrorRate,  \* thresholds of alerts, in percent
  MinActivePlayers,                   \* threshold of an alert
  Times,                              \* what a tick, or a phase of it, may take
  PlayerCounts,                       \* how many sessions a tick may find
  MaxPackets                          \* bound: packets received in a window

ASSUME TelemetryAssumption ==
  /\ {ReportInterval, HistorySize, TickLagTolerance, MinActivePlayers, MaxPackets} \subseteq Nat
  /\ TickBudget \in Nat \ {0}
  /\ Percentile \in 1 .. 100
  /\ {MaxLagRate, MaxDropRate, MaxParseErrorRate} \subseteq 0 .. 100
  /\ Times \subseteq Nat /\ PlayerCounts \subseteq Nat

VARIABLES
  window,            \* the counters since the last report
  report,            \* what the last end_tick returned: no report or one
  ticks, packets     \* history: the ticks and the packets of the window of the report,
                     \* or else of this one

telemetry_vars == <<window, report, ticks, packets>>

Phases == {"movement", "snapshot_send"}
MessageTypes == {"JoinAccept", "MatchState", "StateSnapshot"}

\* The history as it is configured, as long as it is not empty.
HistoryUnraised(interval) == IF HistorySize = 0 THEN interval ELSE HistorySize

\* sanitize_config: the history holds a whole window.
History(interval) == Max({HistorySize, interval})

Interval == IF ReportInterval = 0 THEN 1 ELSE ReportInterval

EmptyWindow ==
  [ticks_since_report |-> 0, tick_lag_count |-> 0, max_tick_overrun |-> 0,
   tick_durations |-> <<>>,
   phase_total |-> [phase \in Phases |-> 0], phase_max |-> [phase \in Phases |-> 0],
   inbound_packets_received |-> 0, inbound_packets_dropped |-> 0,
   inbound_parse_errors |-> 0, command_rejections |-> 0,
   packet_count_by_type |-> [type \in MessageTypes |-> 0], total_packets_sent |-> 0,
   peak_active_sessions |-> 0, active_players_sum |-> 0, active_players_samples |-> 0]

TelemetryInit == window = EmptyWindow /\ report = {} /\ ticks = <<>> /\ packets = <<>>

\* note_outbound_packet, of n packets of a type.
CountSent(w, type, n) ==
  [w EXCEPT !.packet_count_by_type[type] = @ + n, !.total_packets_sent = @ + n]

-----------------------------------------------------------------------------
(* Packets, between the ticks *)

\* A new history begins with the first step after a report.
Since(history) == IF report = {} THEN history ELSE <<>>

\* note_inbound_packet_received; the handler goes on with w.
ReceivePacket(outcome, w) ==
  /\ Len(Since(packets)) < MaxPackets
  /\ window' = [w EXCEPT !.inbound_packets_received = @ + 1]
  /\ report' = {}
  /\ ticks' = Since(ticks)
  /\ packets' = Append(Since(packets), outcome)

\* note_command_rejected and note_inbound_packet_drop(false).
Rejected(w) == [w EXCEPT !.command_rejections = @ + 1, !.inbound_packets_dropped = @ + 1]

PacketHandled == ReceivePacket("handled", window)

PacketUnparsable ==
  ReceivePacket("unparsable", [window EXCEPT !.inbound_packets_dropped = @ + 1,
                                       !.inbound_parse_errors = @ + 1])

\* The answer, and the match state after it.
JoinAccepted == ReceivePacket("handled", CountSent(CountSent(window, "JoinAccept", 1), "MatchState", 1))

JoinRejected == ReceivePacket("rejected", Rejected(CountSent(window, "JoinAccept", 1)))

\* Any other command that its handler marks rejected, counted at its end.
CommandRejected == ReceivePacket("rejected", Rejected(window))

\* A shot outside the match that goes on to the end of the handler.
ShotRejectedTwice == ReceivePacket("rejected", Rejected(Rejected(window)))

\* A shot outside the match: counted on the spot, and the handler is left.
ShotRejected == ReceivePacket("rejected", Rejected(window))

-----------------------------------------------------------------------------
(* A tick, from begin_tick to end_tick *)

\* What a tick adds: the time from begin_tick to end_tick, and that of its phases,
\* each on a clock of its own; the sessions note_resources finds; and a snapshot for
\* each session if one is due.
AfterTick(w, tick) ==
  LET lagging == tick.elapsed > TickBudget + TickLagTolerance
      history == Append(w.tick_durations, tick.elapsed)
      w2 == IF tick.snapshot THEN CountSent(w, "StateSnapshot", tick.players) ELSE w
  IN  [w2 EXCEPT
         !.ticks_since_report = @ + 1,
         !.tick_durations = IF Len(history) > History(Interval) THEN Tail(history) ELSE history,
         !.tick_lag_count = IF lagging THEN @ + 1 ELSE @,
         !.max_tick_overrun = IF lagging THEN Max({@, tick.elapsed - TickBudget}) ELSE @,
         !.phase_total = [phase \in Phases |-> @[phase] + tick.work[phase]],
         !.phase_max = [phase \in Phases |-> Max({@[phase], tick.work[phase]})],
         !.peak_active_sessions = Max({@, tick.players}),
         !.active_players_sum = @ + tick.players,
         !.active_players_samples = @ + 1]

PercentileIndex(count) == (Percentile * count + 99) \div 100

\* std::sort
Sorted(s) ==
  LET order == CHOOSE order \in Bijection(DOMAIN s, DOMAIN s) :
                 \A i, j \in DOMAIN s : i < j => s[order[i]] <= s[order[j]]
  IN  [i \in DOMAIN s |-> s[order[i]]]

\* build_report
ReportOf(w) ==
  LET sorted == Sorted(w.tick_durations)
      exceeded ==
        [tick_lag |-> w.tick_lag_count * 100 > MaxLagRate * w.ticks_since_report,
         packet_drop |->
           w.inbound_packets_dropped * 100 > MaxDropRate * w.inbound_packets_received,
         parse_error |->
           w.inbound_parse_errors * 100 > MaxParseErrorRate * w.inbound_packets_received,
         active_players |-> w.active_players_sum < MinActivePlayers * w.active_players_samples]
  IN  [counters |-> w,
       tick_sum |-> SumFunction(sorted),
       tick_p95 |-> sorted[PercentileIndex(Len(sorted))],
       tick_max |-> Last(sorted),
       alerts |-> {alert \in DOMAIN exceeded : exceeded[alert]}]

\* What end_tick leaves of a window it has reported.
NextWindow(w) == EmptyWindow

Tick(tick) ==
  LET w == AfterTick(window, tick)
      full == w.ticks_since_report >= Interval
  IN  /\ window' = IF full THEN NextWindow(w) ELSE w
      /\ report' = IF full THEN {ReportOf(w)} ELSE {}
      /\ ticks' = Append(Since(ticks), tick)
      /\ packets' = Since(packets)

\* A tick without a snapshot does not send any.  The time of a tick and that of
\* its phases are measured apart.
Ticks ==
  {tick \in [elapsed : Times, work : [Phases -> Times],
             players : PlayerCounts, snapshot : BOOLEAN] :
     tick.snapshot \/ tick.work["snapshot_send"] = 0}

TelemetryNext ==
  \/ PacketHandled \/ PacketUnparsable
  \/ JoinAccepted \/ JoinRejected
  \/ CommandRejected \/ ShotRejected
  \/ \E tick \in Ticks : Tick(tick)

TelemetrySpec == TelemetryInit /\ [][TelemetryNext]_telemetry_vars

-----------------------------------------------------------------------------
(* Properties *)

\* The type invariant.
TelemetryTypes ==
  /\ window.ticks_since_report \in 0 .. Interval - 1
  /\ Len(window.tick_durations) <= History(Interval)
  /\ ticks \in Seq(Ticks)
  /\ packets \in Seq({"handled", "unparsable", "rejected"})

\* No rate is ever above one, although a packet is counted in several places of
\* the handler that are left early: each packet is dropped at most once, for one
\* reason, and each tick lags at most once.
RatesAreShares ==
  /\ window.inbound_packets_dropped <= window.inbound_packets_received
  /\ window.inbound_packets_dropped = window.inbound_parse_errors + window.command_rejections
  /\ window.tick_lag_count <= window.ticks_since_report
  /\ window.total_packets_sent = SumFunction(window.packet_count_by_type)

\* What holds of the counters at every moment.
TelemetryInv == TelemetryTypes /\ RatesAreShares

\* The number of packets, or ticks, that are such.
HowMany(history, Such(_)) == Cardinality({i \in DOMAIN history : Such(history[i])})

\* A report tells of its own window all there is, and nothing of another: every
\* tick, every phase and every packet since the report before, the percentile by
\* its definition, and the alerts that follow.
ReportsTellTheirWindow ==
  \A told \in report :
    LET durations == [i \in DOMAIN ticks |-> ticks[i].elapsed]
        players == [i \in DOMAIN ticks |-> ticks[i].players]
        sent == [i \in DOMAIN ticks |-> IF ticks[i].snapshot THEN ticks[i].players ELSE 0]
        lagging == HowMany(ticks, LAMBDA t : t.elapsed > TickBudget + TickLagTolerance)
        lost == HowMany(packets, LAMBDA p : p # "handled")
        counters == told.counters
    IN  /\ Len(ticks) = Interval
        /\ told.tick_max = Max(Range(durations))
        /\ told.tick_sum = SumFunction(durations)
        /\ told.tick_p95 =
             Min({d \in Range(durations) :
                    HowMany(durations, LAMBDA x : x <= d) * 100 >= Percentile * Len(ticks)})
        /\ counters.max_tick_overrun =
             (IF lagging = 0 THEN 0 ELSE told.tick_max - TickBudget)
        /\ \A phase \in Phases :
             LET work == [i \in DOMAIN ticks |-> ticks[i].work[phase]]
             IN  /\ counters.phase_total[phase] = SumFunction(work)
                 /\ counters.phase_max[phase] = Max(Range(work))
        /\ counters.active_players_sum = SumFunction(players)
        /\ counters.peak_active_sessions = Max(Range(players))
        /\ counters.packet_count_by_type["StateSnapshot"] = SumFunction(sent)
        /\ counters.inbound_packets_received = Len(packets)
        /\ "tick_lag" \in told.alerts <=> lagging * 100 > MaxLagRate * Len(ticks)
        /\ "packet_drop" \in told.alerts <=> lost * 100 > MaxDropRate * Len(packets)
        /\ "active_players" \in told.alerts
             <=> SumFunction(players) < MinActivePlayers * Len(ticks)
=============================================================================
