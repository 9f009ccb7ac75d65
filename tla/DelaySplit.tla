----------------------------- MODULE DelaySplit -----------------------------
(***************************************************************************)
(* How the receiver of a GMA flow turns a measurement into a split         *)
(* (GmaRxControl::DelayAlgorithm), step by step.  Other modules use its    *)
(* abstraction, TrafficSplit!MeasuredSplits.                               *)
(*                                                                         *)
(* A control record k holds the split, the delays of the last measurement  *)
(* and how many times in a row each link has lost part of its share.  A    *)
(* report r holds, for each link, its delay in ms and its loss rate, a     *)
(* fraction.                                                               *)
(***************************************************************************)
EXTENDS TrafficSplit

CONSTANTS DelayThresh,   \* a larger difference of delays moves traffic (ms)
          StepThresh,    \* moves in a row after which more is moved at once
          LossBound,     \* a larger ratio of loss rates moves traffic
          MaxDelay       \* delay of a link that nothing was ever received from

ASSUME DelaySplitAssumption ==
  /\ {DelayThresh, StepThresh, LossBound} \subseteq Nat /\ MaxDelay \in Nat \ {0}

\* What a delay that no int can hold becomes when stored in a list of ints.
Junk == -1

Stored(d) == IF d = MaxDelay THEN Junk ELSE d

NoControl(burst) == [split |-> NoSplit, burst |-> burst, owd |-> <<>>, counter |-> <<>>]

StartControl(s, k, r) ==
  IF k.split # NoSplit THEN k
  ELSE [split |-> AllTo(s.low, k.burst), burst |-> k.burst,
        owd |-> [c \in Cids |-> Stored(r.delay[c])], counter |-> [c \in Cids |-> 1]]

Used(k) == {c \in Cids : k.split[c] # 0}

\* Loss rates are compared as fractions.
Exceeds(p, q, factor) == p.num * q.den > factor * q.num * p.den

\* The searches keep the link they start from unless another is strictly better,
\* and then the first of the best.
LeastDelayed(S, start, delay) ==
  IF \A c \in S : delay[c] >= delay[start] THEN start
  ELSE Min({c \in S : \A d \in S : delay[c] <= delay[d]})

MostDelayed(S, start, delay) ==
  IF \A c \in S : delay[c] <= delay[start] THEN start
  ELSE Min({c \in S : \A d \in S : delay[c] >= delay[d]})

LeastLossy(S, start, loss) ==
  IF \A c \in S : ~Exceeds(loss[start], loss[c], 1) THEN start
  ELSE Min({c \in S : \A d \in S : ~Exceeds(loss[c], loss[d], 1)})

MostLossy(S, start, loss) ==
  IF \A c \in S : ~Exceeds(loss[c], loss[start], 1) THEN start
  ELSE Min({c \in S : \A d \in S : ~Exceeds(loss[d], loss[c], 1)})

\* Whether the delay of link c has not decreased since the last measurement; of
\* a junk value both answers are possible.
NotFalling(k, r, c) == IF k.owd[c] = Junk THEN BOOLEAN ELSE {k.owd[c] <= r.delay[c]}

\* Mutant: the step is not limited to the share of the link.
TakeTooMuch(k, c, d) ==
  LET n == k.counter[c] + 1
  IN  [k EXCEPT !.split = MoveShare(@, c, d, Max({n - StepThresh, 1}) + 1),
                !.counter = [e \in Cids |-> IF e = c THEN n ELSE 1]]

\* Part of the share of link c, more of it when it has lost some several times
\* in a row, moves to link d.
TakeFrom(k, c, d) ==
  LET n    == k.counter[c] + 1
      step == Min({Max({n - StepThresh, 1}), k.split[c]})
  IN  [k EXCEPT !.split = MoveShare(@, c, d, step),
                !.counter = [e \in Cids |-> IF e = c THEN n ELSE 1]]

\* Mutant: a steered flow returns to the low priority link although the delay of
\* that link is larger.
LossRuleReturns(s, k, r, apart) ==
  IF k.burst = 1 /\ s.low \in UpLinks(s) THEN [k EXCEPT !.split = AllTo(s.low, 1)] ELSE k

\* Links with about the same delay: the loss rule, or the return of a steered
\* flow to the low priority link.
LossRule(s, k, r, apart) ==
  LET up    == UpLinks(s)
      worst == MostLossy(up \cap Used(k), Min(up), r.loss)
      best  == LeastLossy(up, Min(up), r.loss)
  IN  IF up # {} /\ Exceeds(r.loss[worst], r.loss[best], LossBound)
      THEN IF k.split[worst] > 0 THEN [k EXCEPT !.split = MoveShare(@, worst, best, 1)] ELSE k
      ELSE IF k.burst = 1 /\ apart /\ s.low \in up
      THEN [k EXCEPT !.split = AllTo(s.low, 1)]
      ELSE k

\* The possible control records after report r.
DelayAlgorithm(s, k0, r) ==
  LET k   == StartControl(s, k0, r)
      far == MostDelayed(UpLinks(s) \cap Used(k), FirstUsed(k.split), r.delay)
      near == LeastDelayed(UpLinks(s), FirstUsed(k.split), r.delay)
      Moves == {IF rising THEN TakeFrom(k, far, near) ELSE k : rising \in NotFalling(k, r, far)}
      Rest  == LossRule(s, [k EXCEPT !.counter = [c \in Cids |-> 1]], r, near # far)
  IN  {[j EXCEPT !.owd = [c \in Cids |-> Stored(r.delay[c])]] :
         j \in IF r.delay[far] > r.delay[near] + DelayThresh THEN Moves ELSE {Rest}}

=============================================================================
