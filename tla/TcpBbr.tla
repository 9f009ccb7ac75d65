------------------------------- MODULE TcpBbr --------------------------------
(***************************************************************************)
(* TcpBbr (tcp-bbr.cc): BBR congestion control, as operators from a sender *)
(* to the sender after.  A sender s holds the fields of TcpSocketState     *)
(* that BBR reads and writes (now, cong, cwnd, ssThresh, pacingRate,       *)
(* inflight, lastRtt, minRtt, lastAcked), the connection's rate r          *)
(* (TcpRate), BBR's own state b, and luck, a random number.                *)
(*                                                                         *)
(* Windows count segments, rates are those of TcpRate, gains are in        *)
(* hundredths.  The maximum pacing rate is never reached; a second is      *)
(* longer than what a run looks at, so that the bound of a tenth of a      *)
(* second on AckAggregationCwnd and the expected acknowledgments of an     *)
(* epoch, counted in whole seconds, do not show.                           *)
(***************************************************************************)
EXTENDS TcpRate, FiniteSets, FiniteSetsExt

CONSTANTS HighGain,           \* m_highGain
          BwWindow,           \* m_bandwidthWindowLength, in rounds
          RttWindow,          \* m_rtPropFilterLen
          ProbeRttDuration,   \* m_probeRttDuration
          ExtraAckedWindow,   \* m_extraAckedWinRttLength, in rounds
          EpochMax,           \* m_ackEpochAckedResetThresh
          MinPipeCwnd,        \* m_minPipeCwnd
          InitialCwnd,        \* m_initialCWnd
          Wrap                \* windows are counted modulo Wrap

ASSUME TcpBbrAssumption ==
  /\ {HighGain, BwWindow, RttWindow, ProbeRttDuration, ExtraAckedWindow, EpochMax, MinPipeCwnd,
      InitialCwnd} \subseteq Nat \ {0}
  /\ Wrap \in Nat /\ Wrap > InitialCwnd + MinPipeCwnd

PacingGainCycle == [i \in 0 .. 7 |-> CASE i = 0 -> 125 [] i = 1 -> 75 [] OTHER -> 100]

AtLeast(a, b) == IF a > b THEN a ELSE b
AtMost(a, b)  == IF a < b THEN a ELSE b

\* WindowedFilter of ns-3: the samples that are or may become the largest of
\* the last BwWindow rounds.
NewFilter(rate) == {[rate |-> rate, round |-> 0]}
GetBest(filter) == Max({e.rate : e \in filter})
UpdateFilter(filter, rate, round) ==
  {e \in filter : e.round + BwWindow >= round /\ e.rate > rate} \cup {[rate |-> rate, round |-> round]}

InitialSsThresh == Wrap - 1

NewBbr ==
  [mode |-> "STARTUP", pacingGain |-> HighGain, cwndGain |-> HighGain,
   pipeFilled |-> FALSE, fullBw |-> 0, fullBwCount |-> 0,
   roundCount |-> 0, roundStart |-> FALSE, nextRound |-> 0,
   rtProp |-> Never, rtPropStamp |-> 0, rtPropExpired |-> FALSE,
   doneStamp |-> 0, roundDone |-> FALSE,           \* of PROBE_RTT
   conservation |-> FALSE, priorCwnd |-> 0, targetCwnd |-> 0,
   idleRestart |-> FALSE, appLimited |-> 0,
   cycleStamp |-> 0, cycleIndex |-> 0,
   filter |-> {},
   extraAcked |-> <<0, 0>>, extraAge |-> 0, extraIdx |-> 1, epochAcked |-> 0,
   seenRtt |-> FALSE]

Best(s) == GetBest(s.b.filter)

-----------------------------------------------------------------------------
(* Pacing rate and target window                                           *)

InitPacingRate(s) ==
  LET rtt     == IF s.minRtt = Never THEN 1 ELSE s.minRtt
      nominal == (s.cwnd * Scale) \div rtt
  IN  [s EXCEPT !.pacingRate = (s.b.pacingGain * nominal) \div 100,
                !.b.filter   = NewFilter(nominal),
                !.b.seenRtt  = @ \/ s.minRtt # Never]

\* The gain is applied before InitPacingRate may change the filter.
SetPacingRate(s, gain) ==
  LET rate == (gain * Best(s)) \div 100
      seen == IF ~s.b.seenRtt /\ s.minRtt # Never THEN InitPacingRate(s) ELSE s
  IN  IF s.b.pipeFilled \/ rate > seen.pacingRate THEN [seen EXCEPT !.pacingRate = rate] ELSE seen

\* InFlight: the window that fills the pipe gain times, with three send quanta
\* and, while the rate is probed, two segments more
InFlight(s, gain) ==
  IF s.b.rtProp = Never THEN InitialCwnd
  ELSE (gain * Best(s) * s.b.rtProp) \div (100 * Scale) + 3
       + (IF s.b.mode = "PROBE_BW" /\ s.b.cycleIndex = 0 THEN 2 ELSE 0)

AckAggregationCwnd(s) ==
  IF s.b.pipeFilled THEN AtLeast(s.b.extraAcked[1], s.b.extraAcked[2]) ELSE 0

UpdateTargetCwnd(s) ==
  [s EXCEPT !.b.targetCwnd = InFlight(s, s.b.cwndGain) + AckAggregationCwnd(s)]

-----------------------------------------------------------------------------
(* The four modes                                                          *)

EnterStartup(s) ==
  [s EXCEPT !.b.mode = "STARTUP", !.b.pacingGain = HighGain, !.b.cwndGain = HighGain]

EnterDrain(s) ==
  [s EXCEPT !.b.mode = "DRAIN", !.b.pacingGain = 10000 \div HighGain, !.b.cwndGain = HighGain]

AdvanceCyclePhase(s) ==
  LET next == (s.b.cycleIndex + 1) % 8
  IN  [s EXCEPT !.b.cycleStamp = s.now, !.b.cycleIndex = next, !.b.pacingGain = PacingGainCycle[next]]

\* A random phase to begin with, but not the one that drains.
EnterProbeBW(s) ==
  AdvanceCyclePhase([s EXCEPT !.b.mode = "PROBE_BW", !.b.cwndGain = 200, !.b.cycleIndex = 7 - s.luck])

EnterProbeRTT(s) == [s EXCEPT !.b.mode = "PROBE_RTT", !.b.pacingGain = 100, !.b.cwndGain = 100]

\* Mutant: PROBE_RTT is followed by PROBE_BW also when it interrupted STARTUP.
ExitProbeRTTToBW(s) == EnterProbeBW(s)

ExitProbeRTT(s) == IF s.b.pipeFilled THEN EnterProbeBW(s) ELSE EnterStartup(s)

IsNextCyclePhase(s) ==
  LET full == s.now - s.b.cycleStamp > s.b.rtProp
      x    == s.r.sample
  IN  CASE s.b.pacingGain = 100 -> full
        [] s.b.pacingGain > 100 -> full /\ (x.loss > 0 \/ x.priorInFlight >= InFlight(s, s.b.pacingGain))
        [] OTHER                -> full \/ x.priorInFlight <= InFlight(s, 100)

CheckCyclePhase(s) ==
  IF s.b.mode = "PROBE_BW" /\ IsNextCyclePhase(s) THEN AdvanceCyclePhase(s) ELSE s

\* The pipe is full when the rate has not grown by a quarter for three rounds.
CheckFullPipe(s) ==
  LET growing == Best(s) * 4 >= s.b.fullBw * 5
  IN  IF s.b.pipeFilled \/ ~s.b.roundStart \/ s.r.sample.appLimited THEN s
      ELSE IF growing THEN [s EXCEPT !.b.fullBw = Best(s), !.b.fullBwCount = 0]
      ELSE [s EXCEPT !.b.fullBwCount = @ + 1, !.b.pipeFilled = s.b.fullBwCount + 1 >= 3]

CheckDrain(s) ==
  LET drain == IF s.b.mode = "STARTUP" /\ s.b.pipeFilled
               THEN [EnterDrain(s) EXCEPT !.ssThresh = InFlight(EnterDrain(s), 100)] ELSE s
  IN  IF drain.b.mode = "DRAIN" /\ drain.inflight <= InFlight(drain, 100)
      THEN EnterProbeBW(drain) ELSE drain

-----------------------------------------------------------------------------
(* Saving and restoring the window; PROBE_RTT                              *)

\* Mutant: a window cut down by recovery or PROBE_RTT is saved.
SaveCwndAlways(s) == [s EXCEPT !.b.priorCwnd = s.cwnd]

SaveCwnd(s) ==
  [s EXCEPT !.b.priorCwnd = IF s.cong # "RECOVERY" /\ s.b.mode # "PROBE_RTT" THEN s.cwnd
                            ELSE AtLeast(@, s.cwnd)]

RestoreCwnd(s) == [s EXCEPT !.cwnd = AtLeast(s.b.priorCwnd, @)]

UpdateRTprop(s) ==
  LET expired == s.now > s.b.rtPropStamp + RttWindow
      heard   == [s EXCEPT !.b.rtPropExpired = expired]
  IN  IF s.lastRtt <= s.b.rtProp \/ expired
      THEN [heard EXCEPT !.b.rtProp = s.lastRtt, !.b.rtPropStamp = s.now] ELSE heard

ProbeRttOver(s) == ExitProbeRTT(RestoreCwnd([s EXCEPT !.b.rtPropStamp = s.now]))

\* PROBE_RTT lasts, from the time that little is in flight, for a duration and
\* a round.
HandleProbeRTT(s) ==
  LET limited == [s EXCEPT !.b.appLimited = AtLeast(s.r.conn.delivered + s.inflight, 1)]
      rounded == [limited EXCEPT !.b.roundDone = @ \/ s.b.roundStart]
  IN  IF s.b.doneStamp = 0
      THEN IF s.inflight > MinPipeCwnd THEN limited
           ELSE [limited EXCEPT !.b.doneStamp = s.now + ProbeRttDuration, !.b.roundDone = FALSE,
                                !.b.nextRound = s.r.conn.delivered]
      ELSE IF rounded.b.roundDone /\ s.now > s.b.doneStamp THEN ProbeRttOver(rounded) ELSE rounded

CheckProbeRTT(s) ==
  LET enter   == s.b.mode # "PROBE_RTT" /\ s.b.rtPropExpired /\ ~s.b.idleRestart
      entered == IF enter THEN [SaveCwnd(EnterProbeRTT(s)) EXCEPT !.b.doneStamp = 0] ELSE s
      handled == IF entered.b.mode = "PROBE_RTT" THEN HandleProbeRTT(entered) ELSE entered
  IN  IF s.r.sample.delivered # 0 THEN [handled EXCEPT !.b.idleRestart = FALSE] ELSE handled

-----------------------------------------------------------------------------
(* An acknowledgment: the model of the path, then the window               *)

\* Mutant: the end of the next round is not noted.
UpdateRoundStuck(s) ==
  IF s.r.sample.priorDelivered >= s.b.nextRound
  THEN [s EXCEPT !.b.roundCount = @ + 1, !.b.roundStart = TRUE, !.b.conservation = FALSE]
  ELSE [s EXCEPT !.b.roundStart = FALSE]

\* A round ends with a segment that was sent after it began.
UpdateRound(s) ==
  IF s.r.sample.priorDelivered >= s.b.nextRound
  THEN [s EXCEPT !.b.nextRound = s.r.conn.delivered, !.b.roundCount = @ + 1, !.b.roundStart = TRUE,
                 !.b.conservation = FALSE]
  ELSE [s EXCEPT !.b.roundStart = FALSE]

UpdateBtlBw(s) ==
  LET x     == s.r.sample
      round == UpdateRound(s)
  IN  IF x.rate = 0 \/ ~IsValid(x) THEN s
      ELSE IF x.rate >= Best(s) \/ ~x.appLimited
           THEN [round EXCEPT !.b.filter = UpdateFilter(@, x.rate, round.b.roundCount)]
      ELSE round

\* What is acknowledged in excess of the estimate, in two windows of rounds
UpdateAckAggregation(s) ==
  LET turn  == s.b.roundStart /\ s.b.extraAge + 1 >= ExtraAckedWindow
      idx   == IF turn THEN 3 - s.b.extraIdx ELSE s.b.extraIdx
      acked == s.r.sample.acked
      epoch == IF s.b.epochAcked = 0 \/ s.b.epochAcked + acked >= EpochMax
               THEN acked ELSE s.b.epochAcked + acked
      kept  == IF turn THEN 0 ELSE s.b.extraAcked[idx]
  IN  IF acked = 0 \/ s.r.sample.delivered < 0 THEN s
      ELSE [s EXCEPT !.b.extraAge        = IF turn THEN 0 ELSE IF s.b.roundStart THEN @ + 1 ELSE @,
                     !.b.extraIdx        = idx,
                     !.b.epochAcked      = epoch,
                     !.b.extraAcked[idx] = AtLeast(kept, AtMost(epoch, s.cwnd))]

\* First s, then Op: binds the sender s so that it is computed once.
Then(s, Op(_)) == CHOOSE after \in {Op(t) : t \in {s}} : TRUE

UpdateModelAndState(s) ==
  Then(Then(Then(Then(UpdateBtlBw(s), UpdateAckAggregation), CheckCyclePhase), CheckFullPipe),
       LAMBDA t : Then(Then(CheckDrain(t), UpdateRTprop), CheckProbeRTT))

ModulateCwndForRecovery(s) ==
  LET lost == IF s.r.sample.loss > 0 THEN AtLeast(s.cwnd - s.r.sample.loss, 1) ELSE s.cwnd
  IN  [s EXCEPT !.cwnd = IF s.b.conservation THEN AtLeast(lost, s.inflight + s.r.sample.acked) ELSE lost]

\* The window grows by what is acknowledged, up to the target once the pipe is
\* full.
GrowCwnd(s) ==
  LET t     == UpdateTargetCwnd(s)
      grown == (s.cwnd + s.r.sample.acked) % Wrap
      cwnd  == IF s.b.pipeFilled THEN AtMost(grown, t.b.targetCwnd)
               ELSE IF s.cwnd < t.b.targetCwnd \/ s.r.conn.delivered < InitialCwnd THEN grown
               ELSE s.cwnd
  IN  [t EXCEPT !.cwnd = AtLeast(cwnd, MinPipeCwnd)]

ModulateCwndForProbeRTT(s) ==
  IF s.b.mode = "PROBE_RTT" THEN [s EXCEPT !.cwnd = AtMost(@, MinPipeCwnd)] ELSE s

SetCwnd(s) ==
  ModulateCwndForProbeRTT(
    IF s.r.sample.acked = 0 THEN s
    ELSE IF s.cong # "RECOVERY" THEN GrowCwnd(s)
    ELSE IF s.b.conservation THEN ModulateCwndForRecovery(s)
    ELSE GrowCwnd(ModulateCwndForRecovery(s)))

\* CongControl, with UpdateControlParameters
CongControl(s) ==
  Then(Then([s EXCEPT !.b.appLimited = s.r.conn.appLimited], UpdateModelAndState),
       LAMBDA t : Then(SetPacingRate(t, t.b.pacingGain), SetCwnd))

-----------------------------------------------------------------------------
(* Events of the socket                                                    *)

\* CongestionStateSet
InitBbr(s) ==
  InitPacingRate([s EXCEPT !.b = [NewBbr EXCEPT !.rtProp = s.lastRtt, !.rtPropStamp = s.now,
                                                !.priorCwnd = s.cwnd, !.targetCwnd = s.cwnd],
                           !.ssThresh = InitialSsThresh])

SetLoss(s)     == [SaveCwnd(s) EXCEPT !.b.roundStart = TRUE]
SetRecovery(s) == [SaveCwnd(s) EXCEPT !.cwnd = s.inflight + AtLeast(s.lastAcked, 1),
                                      !.b.conservation = TRUE]

\* CwndEvent: COMPLETE_CWR and TX_START
CompleteCwr(s) == [RestoreCwnd(s) EXCEPT !.b.conservation = FALSE]

TxStart(s) ==
  LET idle == [s EXCEPT !.b.idleRestart = TRUE, !.b.epochAcked = 0]
  IN  IF s.b.appLimited = 0 THEN s
      ELSE IF s.b.mode = "PROBE_BW" THEN SetPacingRate(idle, 100)
      ELSE IF s.b.mode = "PROBE_RTT" /\ s.b.roundDone /\ s.now > s.b.doneStamp THEN ProbeRttOver(idle)
      ELSE idle

\* GetSsThresh returns the threshold as it is.
GetSsThresh(s) == SaveCwnd(s)
=============================================================================
