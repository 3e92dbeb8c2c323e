-------------------------- MODULE MCTimeWheelTimer --------------------------
(* Instances of TimeWheelTimer: a minute of three seconds, an hour of three    *)
(* (or two) minutes and a day of two hours.                                    *)
EXTENDS TimeWheelTimer, TLC

Req(hh, mm, ss, n) == [h |-> hh, m |-> mm, s |-> ss, cyc |-> n]

\* A task for ever and one that runs three times, both of less than a minute, and
\* a one-time task that goes through all three wheels.
Requests == "forever" :> Req(0, 0, 1, -1) @@ "thrice" :> Req(0, 0, 2, 3)
              @@ "hour" :> Req(1, 1, 1, 1)

\* A task repeated every minute.
EveryMinute == "minute" :> Req(0, 1, 0, -1)
=============================================================================
