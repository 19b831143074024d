------------------------------ MODULE PollTime ------------------------------
(***************************************************************************)
(* The pure helpers of poll_engine.rs: the backoff/deadline computation    *)
(* calculate_poll_time and the interval defaulting default_if_zero.        *)
(*                                                                         *)
(* Clock values are u64 seconds.  The only arithmetic that can wrap is     *)
(* deadline.overflowing_sub(now); its wrapped value is discarded when the  *)
(* overflow flag is set, so the model keeps the flag (deadline < now) and  *)
(* the difference only where it is defined.  last_poll + backoff would     *)
(* need 2^64 seconds of uptime to overflow and is left unbounded.          *)
(***************************************************************************)
EXTENDS Naturals

\* fn default_if_zero: a requested interval of 0 means the configured default.
DefaultIfZero(defaultInterval, interval) ==
    IF interval = 0 THEN defaultInterval ELSE interval

\* Mutant: the backoff floor is left out of the deadline.
CalculatePollTimeNoBackoff(backoff, upcomingEntry, now, lastPoll) ==
    IF upcomingEntry < now THEN 1 ELSE upcomingEntry - now

\* fn calculate_poll_time: seconds from now until the next poll may fire.
\* deadline.overflowing_sub(now) overflows exactly when deadline < now, and
\* then the function answers 1; otherwise it answers deadline - now, which
\* is 0 when the deadline is exactly now.
CalculatePollTime(backoff, upcomingEntry, now, lastPoll) ==
    LET minimumPollTime == lastPoll + backoff
        deadline == IF upcomingEntry >= minimumPollTime
                    THEN upcomingEntry ELSE minimumPollTime
        overflow == deadline < now
    IN  IF overflow THEN 1 ELSE deadline - now

=============================================================================
