------------------------------ MODULE ClientIDs ------------------------------
(***************************************************************************)
(* The client IDs an ibkr.Client tries, internal/broker/ibkr/client.go.    *)
(* IB refuses a client ID that another connection of the same account uses *)
(* (error 326), so that the fallback IDs of one process must not meet      *)
(* those of another, nor anybody's primary ID.                             *)
(***************************************************************************)
EXTENDS Integers

Base     == 100000    \* clientIDFallbackBase
PIDs     == 10000     \* clientIDPIDModulo
Primaries == 100000   \* clientIDPrimaryModulo
Stride   == 200000    \* clientIDFallbackStride
MaxInt32 == 2147483647

FirstFallback(primary, pid) ==
    Base + (pid % PIDs) * Stride + (primary % Primaries) * 2

(* clientIDCandidates: the primary ID and the first two IDs from            *)
(* FirstFallback on that differ from it.  A primary of 0 has no fallback.   *)
FirstTwo(first, primary) ==
    IF primary = first THEN {first + 1, first + 2}
    ELSE IF primary = first + 1 THEN {first, first + 2}
    ELSE {first, first + 1}

Fallbacks(primary, pid) ==
    IF primary = 0 THEN {} ELSE FirstTwo(FirstFallback(primary, pid), primary)
==============================================================================
