--------------------------- MODULE MCEventSource ---------------------------
(* Small instances for the checks of EventSource.                            *)
EXTENDS EventSource

CONSTANTS io, timer, timer2, periodic

TimersOnly == {timer, timer2}
OneOfEach == {io, timer, timer2, periodic}
Kinds == [s \in Src |-> CASE s = io -> "io"
                          [] s \in {timer, timer2} -> "timer"
                          [] s = periodic -> "periodic"]
=============================================================================
