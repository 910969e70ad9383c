---------------------------- MODULE BootTimeline ----------------------------
(***************************************************************************)
(* What the boot server's tracker promises whoever reads it (the console   *)
(* feed, the metrics, the BootHost status): for each machine, either a     *)
(* phase that only moves forward or nothing at all.  A machine is          *)
(* forgotten when the process restarts, or to make room for a machine not  *)
(* seen before, and finished machines are forgotten before any other.      *)
(***************************************************************************)
EXTENDS Integers, FiniteSets

CONSTANTS Mac, MaxTracked, None

VARIABLE view  \* the phase shown for each machine, or None

Finished == {5, 6}  \* Phase::Local and Phase::Failed

Shown == {m \in Mac : view[m] # None}

Init == view = [m \in Mac |-> None]

\* A machine that is already shown moves forward.
Advance(m) ==
  \E phase \in 0..6 : /\ view[m] # None
                      /\ phase >= view[m]
                      /\ view' = [view EXCEPT ![m] = phase]

\* A new machine appears in the place of the machines in `gone`.
Appear(m, gone) ==
  \E phase \in 0..6 : /\ view[m] = None
                      /\ view' = [n \in Mac |-> IF n = m THEN phase
                                                ELSE IF n \in gone THEN None
                                                ELSE view[n]]

\* Which machines may be forgotten together: none while there is room,
\* otherwise all the finished ones, or a single one if none has finished.
Forgettable ==
  LET finished == {m \in Shown : view[m] \in Finished}
  IN  IF Cardinality(Shown) < MaxTracked THEN {{}}
      ELSE IF finished # {} THEN {finished}
      ELSE {{m} : m \in Shown}

Next ==
  \/ \E m \in Mac : Advance(m)
  \/ \E m \in Mac : \E gone \in Forgettable : Appear(m, gone)
  \/ view' = [m \in Mac |-> None]

Spec == Init /\ [][Next]_view
=============================================================================
