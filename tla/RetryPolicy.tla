---------------------------- MODULE RetryPolicy ----------------------------
(***************************************************************************)
(* What a failure of the provider is, whether it is retried, and when:     *)
(* classifyProviderFailure and calculateRetryDelay.                        *)
(*                                                                         *)
(* A failure is [text, hint]: the kinds one of whose patterns the text of  *)
(* a failed run matches, and the "retry-after" parsed from it, a set of at *)
(* most one number. No caller has an HTTP status to pass, so that          *)
(* classifyStatusCode is never reached.                                    *)
(***************************************************************************)
EXTENDS Integers, Sequences

ErrorKind ==
    {"rate_limit", "unavailable", "timeout", "network", "authentication",
     "configuration", "protocol", "capacity", "unknown"}

\* KIND_RETRYABILITY
IsRetryableKind(kind) ==
    kind \in {"rate_limit", "unavailable", "timeout", "network", "capacity"}

\* Mutant: authentication before the transient kinds.
TextRulesReordered ==
    <<"authentication", "rate_limit", "unavailable", "capacity", "timeout", "network",
      "configuration">>

\* The order of TEXT_RULES; the first rule that matches wins.
TextRules ==
    <<"rate_limit", "unavailable", "capacity", "timeout", "network",
      "authentication", "configuration">>

FirstMatch(text) ==
    TextRules[CHOOSE i \in DOMAIN TextRules :
                 /\ TextRules[i] \in text
                 /\ \A j \in 1 .. i - 1 : TextRules[j] \notin text]

ClassifyProviderFailure(f) ==
    IF f.text # {} THEN FirstMatch(f.text)
    ELSE IF f.hint # {} THEN "rate_limit"
    ELSE "unknown"

-----------------------------------------------------------------------------

Least(a, b) == IF a <= b THEN a ELSE b
Greatest(a, b) == IF a >= b THEN a ELSE b

\* Mutant: the bounds are not looked at.
DelaysAlwaysFit(base, max) == TRUE

\* calculateRetryDelay throws where the cap is below the base delay, which
\* resolveProviderConfig lets pass.
DelaysFit(base, max) == base <= max

\* A positive hint of the provider, else exponential backoff, kept within the
\* configured bounds.
UnjitteredDelay(attempt, hint, base, max) ==
    IF \E h \in hint : h > 0
    THEN Least(Greatest(CHOOSE h \in hint : h > 0, base), max)
    ELSE Least(base * 2 ^ (attempt - 1), max)

\* Mutant: jitter after the last clamp.
JitteredUnclamped(delay, max) ==
    Greatest(1, (80 * delay + 50) \div 100) .. Greatest(1, (120 * delay + 49) \div 100)

\* The delays that jitter, a factor in [0.8, 1.2), and rounding may give. The
\* upper end is not reached, hence 49.
Jittered(delay, max) ==
    Greatest(1, (80 * delay + 50) \div 100)
      .. Greatest(1, Least((120 * delay + 49) \div 100, max))

RetryDelays(attempt, hint, base, max, jitter) ==
    LET delay == UnjitteredDelay(attempt, hint, base, max)
    IN IF jitter THEN Jittered(delay, max) ELSE {Greatest(1, delay)}
=============================================================================
