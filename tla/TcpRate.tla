------------------------------- MODULE TcpRate -------------------------------
(***************************************************************************)
(* TcpRateLinux (tcp-rate-ops.cc): the estimate of the delivery rate of a  *)
(* connection.  A segment that leaves takes a note of what has been        *)
(* delivered so far; when it is acknowledged, that note and the present    *)
(* count make a sample of the rate.  Data count segments; a rate is in     *)
(* segments per Scale units of time.                                       *)
(***************************************************************************)
EXTENDS Integers

CONSTANTS Scale,   \* divides what intervals there are, so that rates are exact enough
          Never    \* Time::Max(): later than any time

ASSUME TcpRateAssumption == Scale \in Nat \ {0} /\ Never \in Nat

\* TcpRateConnection and TcpRateSample.  Time 0 stands for none.
NewRate ==
  [conn   |-> [delivered |-> 0, deliveredTime |-> 0, firstSent |-> 0, appLimited |-> 0,
               rateDelivered |-> 0, rateInterval |-> 0],
   sample |-> [rate |-> 0, appLimited |-> FALSE, interval |-> 0, delivered |-> 0,
               priorDelivered |-> 0, priorTime |-> 0, sendElapsed |-> 0, ackElapsed |-> 0,
               loss |-> 0, priorInFlight |-> 0, acked |-> 0]]

\* SkbSent: the clocks start anew when nothing is in flight.
AtSend(r, start, now) ==
  IF start THEN [r EXCEPT !.conn.firstSent = now, !.conn.deliveredTime = now] ELSE r

\* The note that a segment takes
SentInfo(r) == [delivered     |-> r.conn.delivered,
                deliveredTime |-> r.conn.deliveredTime,
                firstSent     |-> r.conn.firstSent,
                appLimited    |-> r.conn.appLimited # 0]

Counted(r, now) == [r EXCEPT !.conn.delivered = @ + 1, !.conn.deliveredTime = now]

\* The sample goes by the segment with the largest count, the latest one sent.
TakeNote(r, info, lastSent, now) ==
  IF r.sample.priorDelivered # 0 /\ info.delivered <= r.sample.priorDelivered THEN Counted(r, now)
  ELSE [Counted(r, now) EXCEPT !.sample.ackElapsed     = now - info.deliveredTime,
                               !.sample.priorDelivered = info.delivered,
                               !.sample.priorTime      = info.deliveredTime,
                               !.sample.appLimited     = info.appLimited,
                               !.sample.sendElapsed    = lastSent - info.firstSent,
                               !.conn.firstSent        = lastSent]

\* Mutant: a segment that was SACKed counts again when it is acknowledged.
SkbDeliveredAgain(r, info, lastSent, now) ==
  IF info.deliveredTime = Never THEN Counted(r, now) ELSE TakeNote(r, info, lastSent, now)

\* SkbDelivered, for a segment with this note, last sent at lastSent
SkbDelivered(r, info, lastSent, now) ==
  IF info.deliveredTime = Never THEN r ELSE TakeNote(r, info, lastSent, now)

\* The index of the last segment of an application-limited phase; it is
\* forgotten when the phase has been acknowledged.
NoteAppLimited(r, appLimited) ==
  LET limit == IF appLimited # 0 THEN appLimited ELSE r.conn.appLimited
  IN  [r EXCEPT !.conn.appLimited = IF r.conn.delivered > limit THEN 0 ELSE limit]

\* The sample over the longer of the sending and the acknowledging phase.  An
\* interval below the minimum RTT makes the sample invalid, and one from an
\* application-limited phase is taken when it is no smaller than the last.
SampleRate(r, minRtt) ==
  LET x        == r.sample
      interval == IF x.sendElapsed > x.ackElapsed THEN x.sendElapsed ELSE x.ackElapsed
      amount   == r.conn.delivered - x.priorDelivered
      timed    == [r EXCEPT !.sample.interval = interval, !.sample.delivered = amount]
  IN  IF x.priorTime = 0
      THEN [r EXCEPT !.sample.delivered = -1, !.sample.interval = 0]
      ELSE IF interval < minRtt
      THEN [timed EXCEPT !.sample.interval = 0, !.sample.priorTime = 0]
      ELSE IF ~x.appLimited \/ amount * r.conn.rateInterval >= r.conn.rateDelivered * interval
      THEN [timed EXCEPT !.conn.rateDelivered = amount, !.conn.rateInterval = interval,
                         !.sample.rate = (amount * Scale) \div interval]
      ELSE timed

GenerateSample(r, acked, appLimited, lost, priorInFlight, minRtt) ==
  SampleRate([NoteAppLimited(r, appLimited) EXCEPT
                !.sample.acked = acked, !.sample.loss = lost, !.sample.priorInFlight = priorInFlight],
             minRtt)

IsValid(sample) == sample.priorTime # 0 \/ sample.interval # 0
=============================================================================
