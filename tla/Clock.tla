-------------------------------- MODULE Clock --------------------------------
(***************************************************************************)
(* The monotonic clock that time.Now reads (the Go runtime), in ticks,     *)
(* shared by the parts of the server that measure time.                    *)
(***************************************************************************)
EXTENDS Integers

CONSTANT MaxTime  \* bound: time stands still from then on

ASSUME ClockAssumption == MaxTime \in Nat

VARIABLE now

Tick == now < MaxTime /\ now' = now + 1
=============================================================================
