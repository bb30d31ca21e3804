-------------------------------- MODULE Clock --------------------------------
(***************************************************************************)
(* Time as the service counts it: Date.now() and Redis in ticks            *)
(* (milliseconds), timestamps and lifetimes in seconds, the time of day in *)
(* whole seconds by Math.floor(Date.now() / 1000).                         *)
(***************************************************************************)
EXTENDS Integers

CONSTANT TicksPerSecond

ASSUME SecondsHaveTicks == TicksPerSecond \in Nat \ {0}

\* The second that `time` is in.
Seconds(time) == time \div TicksPerSecond

Ticks(seconds) == TicksPerSecond * seconds
=============================================================================
