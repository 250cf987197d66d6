----------------------------- MODULE TimerTable -----------------------------
(****************************************************************************)
(* What a display promises of its kitchen timers, whoever turns them off    *)
(* and whenever: a timer counts, then rings, and once it is off it is off   *)
(* for good; only an engine that starts again begins with a clean table.    *)
(* Timers implements this.                                                  *)
(****************************************************************************)
CONSTANT Ids

VARIABLE status

Init == status = [id \in Ids |-> "unset"]

Set(id) ==
  /\ status[id] = "unset"
  /\ status' = [status EXCEPT ![id] = "counting"]

Ring(id) ==
  /\ status[id] = "counting"
  /\ status' = [status EXCEPT ![id] = "ringing"]

\* One button, or a spoken "stop" that reaches several timers at once.
TurnOff(S) ==
  /\ \A id \in S : status[id] \in {"counting", "ringing"}
  /\ status' = [id \in Ids |-> IF id \in S THEN "off" ELSE status[id]]

StartOver == status' = [id \in Ids |-> "unset"]

Next ==
  \/ \E id \in Ids : Set(id) \/ Ring(id)
  \/ \E S \in SUBSET Ids : TurnOff(S)
  \/ StartOver

Spec == Init /\ [][Next]_status
=============================================================================
