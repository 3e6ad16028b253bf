--------------------------- MODULE ReconnectPolicy ---------------------------
(***************************************************************************)
(* hlk_dio16/reconnect.py: consecutive failures and the poll interval they *)
(* lead to, with HlkDio16Coordinator._apply_interval.  Times are in half   *)
(* seconds, so that the healthy interval of 0.5 s is 1.                    *)
(***************************************************************************)
EXTENDS Naturals

CONSTANTS
    ScanInterval,   \* SCAN_INTERVAL_SECONDS
    BackoffStart,   \* RECONNECT_BACKOFF_START_SECONDS
    BackoffMax,     \* RECONNECT_BACKOFF_MAX_SECONDS
    FailureCap      \* bound: the failure count saturates here

ASSUME PolicyAssumption ==
    /\ ScanInterval \in Nat \ {0}
    /\ BackoffStart \in Nat \ {0}
    /\ BackoffMax \in Nat
    /\ BackoffStart <= BackoffMax
    /\ ScanInterval <= BackoffStart
    /\ FailureCap \in Nat \ {0}

VARIABLES
    failures,       \* ReconnectPolicy.failures
    delay,          \* ReconnectPolicy._delay
    interval        \* coordinator.update_interval

policyVars == <<failures, delay, interval>>

Lesser(a, b) == IF a <= b THEN a ELSE b

PolicyInit ==
    /\ failures = 0
    /\ delay = BackoffStart
    /\ interval = ScanInterval

OnSuccess ==
    /\ failures' = 0
    /\ delay' = BackoffStart
    /\ interval' = ScanInterval

OnFailure ==
    /\ failures' = Lesser(failures + 1, FailureCap)
    /\ interval' = delay
    /\ delay' = Lesser(2 * delay, BackoffMax)

PolicyTypeOK ==
    /\ failures \in 0..FailureCap
    /\ delay \in Nat
    /\ interval \in Nat
=============================================================================
