------------------------------ MODULE Breaker ------------------------------
(***************************************************************************)
(* The circuit breaker (src/reroll_sync/daemon/circuit_breaker.py) as      *)
(* operators on a record, for the modules whose stages share one.          *)
(*   state  _state                                                         *)
(*   fails  _consecutive_failures, kept up to Threshold                    *)
(*   due    recovery_timeout has passed since _opened_at                   *)
(*   trial  _half_open_trial_in_flight                                     *)
(***************************************************************************)
EXTENDS Naturals

CONSTANT Threshold  \* failure_threshold

ASSUME BreakerAssumption == Threshold \in Nat \ {0}

BreakerType ==
    [state : {"closed", "open", "half_open"}, fails : 0..Threshold,
     due : BOOLEAN, trial : BOOLEAN]

NewBreaker == [state |-> "closed", fails |-> 0, due |-> FALSE, trial |-> FALSE]

\* allow() returns True ...
Allowed(b) ==
    \/ b.state = "closed"
    \/ b.state = "open" /\ b.due
    \/ b.state = "half_open" /\ ~b.trial

\* ... and this is what it leaves behind then; a refusal changes nothing
AfterAllow(b) ==
    IF b.state = "closed" THEN b
    ELSE [b EXCEPT !.state = "half_open", !.trial = TRUE]

RecordSuccess(b) == [b EXCEPT !.state = "closed", !.fails = 0, !.trial = FALSE]

RecordFailure(b) ==
    LET n == IF b.fails < Threshold THEN b.fails + 1 ELSE Threshold
    IN  IF b.state = "half_open" \/ n >= Threshold
        THEN [state |-> "open", fails |-> n, due |-> FALSE, trial |-> FALSE]
        ELSE [b EXCEPT !.fails = n]

\* recovery_timeout runs out
Recovered(b) == [b EXCEPT !.due = TRUE]
=============================================================================
