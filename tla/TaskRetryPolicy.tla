--------------------------- MODULE TaskRetryPolicy ---------------------------
(* The pure parts of the retry policy of core/tasks.                      *)
EXTENDS Integers

MaxBackoff == 3600

(* No retries means no backoff either.                                    *)
NormalizedBackoff(maxRetries, backoff) == IF maxRetries = 0 THEN 0 ELSE backoff

(* The base delay a row may hold.                                          *)
ClampedBase(base) == IF base < 1 THEN 1 ELSE IF base > MaxBackoff THEN MaxBackoff ELSE base

(* One pass of the loop.  It breaks at the cap, where another pass would   *)
(* change nothing.                                                         *)
Doubled(delay) ==
  IF delay >= 1800 \/ 2 * delay > MaxBackoff THEN MaxBackoff ELSE 2 * delay

(* Variant: the first retry does not wait longer than none.               *)
BackoffOffByOne(base, retryCount) ==
  LET delay[passes \in 0..retryCount] ==
        IF passes <= 1 THEN ClampedBase(base) ELSE Doubled(delay[passes - 1])
  IN  delay[retryCount]

(* The delay after one pass per retry made.                                *)
BoundedRetryBackoffSeconds(base, retryCount) ==
  LET delay[passes \in 0..retryCount] ==
        IF passes = 0 THEN ClampedBase(base) ELSE Doubled(delay[passes - 1])
  IN  delay[retryCount]
=============================================================================
