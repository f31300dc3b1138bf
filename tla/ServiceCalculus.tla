--------------------------- MODULE ServiceCalculus ---------------------------
(***************************************************************************)
(* libraries/slope/src/service_calculus.rs: the controller that admits a   *)
(* job only when a rate-latency bound, a conformal guard over the          *)
(* residuals of finished jobs and a drift penalty fit its deadline.  The   *)
(* controller is one record; each operation is an operator on it.          *)
(***************************************************************************)
EXTENDS Integers, SequencesExt

CONSTANTS
    Curve,          \* ServiceCurve: completions, admissions, window, latency, backlog
    Retained        \* N: residuals the calibrator keeps

Q16One == 65536

CeilDiv(a, b) == (a + b - 1) \div b

SatSub(a, b) == IF a < b THEN 0 ELSE a - b

\* The part of ServiceCurve::valid that the arithmetic below relies on.
CurveValid ==
    /\ Curve.completions # 0 /\ Curve.admissions # 0
    /\ Curve.window # 0 /\ Curve.backlog # 0
    /\ Curve.completions <= Curve.backlog
    /\ Curve.admissions <= Curve.backlog

DeterministicDelay(backlog) ==
    Curve.latency + CeilDiv(backlog + 1, Curve.completions) * Curve.window

MaximumGuard == Curve.window * Curve.backlog

AtMost(a, b) == IF a < b THEN a ELSE b

\* ResidualCalibrator::guard at 15/16 coverage and one tick of slack.
Guard(s) ==
    LET n == Len(s.residuals)
        sorted == SortSeq(s.residuals, LAMBDA a, b : a < b)
        rank == CeilDiv((n + 1) * 15, 16)
    IN IF n = 0 THEN AtMost(1, MaximumGuard)
       ELSE AtMost(sorted[AtMost(rank, n)] + 1, MaximumGuard)

\* push: the residuals are a ring, of which guard only uses the multiset.
Push(s, residual) ==
    LET bounded == AtMost(residual, MaximumGuard)
    IN IF Len(s.residuals) < Retained
       THEN [s EXCEPT !.residuals = Append(@, bounded)]
       ELSE [s EXCEPT !.residuals = Append(Tail(@), bounded)]

NewController(now) ==
    [start |-> now, last |-> now, admitted |-> 0, sequence |-> 0,
     accepted |-> 0, observed |-> 0, virtual |-> 0, residuals |-> <<>>]

\* advance: whole windows roll over, each serving its guaranteed completions.
Advance(s, now) ==
    LET windows == (now - s.start) \div Curve.window
    IN IF windows = 0 THEN [s EXCEPT !.last = now]
       ELSE [s EXCEPT !.last = now, !.start = @ + windows * Curve.window, !.admitted = 0,
                      !.virtual = SatSub(@, windows * Curve.completions * Q16One)]

\* A tick before the last one, or before the window, is a regression.
Regresses(s, now) == now < s.last \/ now < s.start

DriftPenalty(s) == CeilDiv(s.virtual \div Q16One, Curve.completions) * Curve.window

\* The delay an admission at this backlog is certified for.
DelayBound(s, backlog) == DeterministicDelay(backlog) + Guard(s) + DriftPenalty(s)

\* admit refuses: backlog, arrival envelope, or a deadline that is too near.
Refuses(s, now, deadline, backlog) ==
    \/ backlog >= Curve.backlog
    \/ s.admitted >= Curve.admissions
    \/ deadline < now + DelayBound(s, backlog)

\* The certificate of an accepted admission; roots and tags are left out.
Certificate(s, now, backlog) ==
    [sequence |-> s.sequence + 1, tick |-> now, window |-> s.start, before |-> s.admitted,
     predicted |-> DeterministicDelay(backlog) + DriftPenalty(s), bound |-> DelayBound(s, backlog)]

Accept(s) ==
    [s EXCEPT !.admitted = @ + 1, !.sequence = @ + 1, !.accepted = @ + 1, !.virtual = @ + Q16One]

\* rollback applies only to the newest reservation of the current window.
Fresh(s, cert) ==
    /\ cert.window = s.start
    /\ cert.sequence = s.sequence
    /\ s.admitted = cert.before + 1

Rollback(s, cert) ==
    [s EXCEPT !.admitted = cert.before, !.accepted = SatSub(@, 1), !.virtual = SatSub(@, Q16One)]

\* observe_completion, at a tick that does not regress.
Observe(s, cert, now) ==
    LET a == Push(Advance(s, now), SatSub(now - cert.tick, cert.predicted))
        excess == SatSub(now - cert.tick, cert.bound)
    IN [a EXCEPT !.observed = @ + 1,
                 !.virtual = SatSub(@, Q16One) + (excess * Q16One) \div Curve.window]
=============================================================================
