------------------------------ MODULE TimeSync ------------------------------
(***************************************************************************)
(* How the client estimates the time of the server (server_connection.cpp).*)
(* Each ping response gives a measurement of the offset between the clocks.*)
(* The target of the estimate is the average of the last measurements      *)
(* without the smallest and the largest.  The offset in use moves towards  *)
(* the target at a constant speed: one unit in one tick of the clock.  The *)
(* ping time is averaged and smoothed in the same way.                     *)
(*                                                                         *)
(* The network thread updates the measurements under a mutex, but the time *)
(* of the last response after it has given the mutex back: the main thread *)
(* may draw a frame in between.                                            *)
(***************************************************************************)
EXTENDS Integers, Sequences, SequencesExt, FiniteSetsExt

CONSTANTS
    Measurements,  \* offsets a response may measure, in units
    WindowSize,    \* measurements that are kept (10)
    MaxTime        \* bound: ticks

ASSUME TimeSyncAssumption ==
    /\ Measurements \subseteq Int
    /\ WindowSize \in Nat /\ WindowSize > 2

VARIABLES
    now,
    lastTimeOffsets,
    smoothed,              \* lastSmoothedTimeOffset
    robust,                \* robustOffsetAverage
    lastPingResponseTime,
    pending,               \* the response whose time is not written yet, or 0
    hasSmoothed,           \* lastSmoothedPing is not -1
    hasRobust,             \* robustPingAverage is not -1
    shown, shownAt,        \* the offset of the last frame, and when it was drawn
    slack                  \* what the last frame counted twice, or -1 without a target

syncVars == <<now, lastTimeOffsets, smoothed, robust, lastPingResponseTime, pending,
              hasSmoothed, hasRobust, shown, shownAt, slack>>

SyncInit ==
    /\ now = 1 /\ lastTimeOffsets = <<>> /\ smoothed = -1 /\ robust = -1
    /\ lastPingResponseTime = 1 /\ pending = 0 /\ hasSmoothed = FALSE /\ hasRobust = FALSE
    /\ shown = -1 /\ shownAt = 0 /\ slack = -1
-----------------------------------------------------------------------------
\* GetCurrentSmoothedPingAndOffset: towards the target, and not beyond it.
CurrentOffset(time) ==
    LET elapsed == time - lastPingResponseTime
    IN  IF robust > smoothed THEN Min({robust, smoothed + elapsed})
                             ELSE Max({robust, smoothed - elapsed})

SumOf(s) == MapThenSumSet(LAMBDA i : s[i], DOMAIN s)

\* EstimateRobustPingAndOffsetAverages.  With equal extremes, two are dropped
\* all the same: the sum is that of the sorted window without its ends.
RobustAverage(s) ==
    IF Len(s) < 3 THEN SumOf(s) \div Len(s)
    ELSE (SumOf(s) - Min(ToSet(s)) - Max(ToSet(s))) \div (Len(s) - 2)

\* Mutant: the new target is set, but the way made towards the old one is lost.
UpdatedLosesWay(time) == smoothed

Updated(time) == IF hasRobust THEN CurrentOffset(time) ELSE smoothed

\* HandlePingResponseMessage, until the mutex is given back.
Response ==
    /\ pending = 0 /\ lastPingResponseTime < now
    /\ \E m \in Measurements :
         LET kept   == IF Len(lastTimeOffsets) = WindowSize THEN Tail(lastTimeOffsets)
                                                            ELSE lastTimeOffsets
             window == Append(kept, m)
         IN  /\ lastTimeOffsets' = window
             /\ IF ~hasSmoothed
                  THEN smoothed' = m /\ UNCHANGED <<robust, hasRobust>>
                  ELSE /\ smoothed' = Updated(now)
                       /\ robust' = RobustAverage(window)
                       /\ hasRobust' = TRUE
    /\ hasSmoothed' = TRUE
    /\ pending' = now
    /\ UNCHANGED <<now, lastPingResponseTime, shown, shownAt, slack>>

\* Its last assignment, without the mutex.
ResponseTime ==
    /\ pending > 0
    /\ lastPingResponseTime' = pending
    /\ pending' = 0
    /\ UNCHANGED <<now, lastTimeOffsets, smoothed, robust, hasSmoothed, hasRobust, shown,
                   shownAt, slack>>

\* GetServerTimeToDisplayNow, for a frame.
ShowFrame ==
    /\ shownAt < now
    /\ shown' = CurrentOffset(now)
    /\ shownAt' = now
    /\ slack' = IF ~hasRobust THEN -1
                ELSE IF pending > 0 THEN pending - lastPingResponseTime ELSE 0
    /\ UNCHANGED <<now, lastTimeOffsets, smoothed, robust, lastPingResponseTime, pending,
                   hasSmoothed, hasRobust>>

\* The thread writes the time of a response in the tick in which it came.
Tick ==
    /\ now < MaxTime /\ pending = 0
    /\ now' = now + 1
    /\ UNCHANGED <<lastTimeOffsets, smoothed, robust, lastPingResponseTime, pending, hasSmoothed,
                   hasRobust, shown, shownAt, slack>>

SyncNext == Response \/ ResponseTime \/ ShowFrame \/ Tick

SyncSpec == SyncInit /\ [][SyncNext]_syncVars
-----------------------------------------------------------------------------
Distance(a, b) == IF a > b THEN a - b ELSE b - a

\* Whatever the measurements are, once the estimate has a target, the game's
\* time never jumps: what a frame shows differs from what the frame before
\* showed by no more than the speed of the smoothing allows.  The exception are
\* frames drawn while the time of a response is not written yet: they count the
\* interval since the response before twice.  Two of them may do so into opposite
\* directions.
NoJumps ==
    [][shownAt' > shownAt /\ slack >= 0 =>
         Distance(shown', shown) <= (shownAt' - shownAt) + slack + slack']_syncVars
=============================================================================
