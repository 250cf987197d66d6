------------------------------ MODULE TurnSlot ------------------------------
(****************************************************************************)
(* What the display promises about its one microphone, whatever threads     *)
(* compete for it: the slot is free, being opened, held by exactly one      *)
(* turn, or closed for good at shutdown; and a turn that has given the slot *)
(* back never holds it again.                                               *)
(****************************************************************************)
CONSTANT Turns

VARIABLES
  stage,    \* "free", "opening", "held" or "closed"
  holders,  \* the turn that holds the slot, as a set: {} or {t}
  served    \* the turns that have given it back

Init == stage = "free" /\ holders = {} /\ served = {}

\* One contender wins the free slot.
Claim ==
  /\ stage = "free"
  /\ stage' = "opening"
  /\ UNCHANGED <<holders, served>>

\* The contender's turn takes it.
Open(t) ==
  /\ stage = "opening"
  /\ t \notin served
  /\ stage' = "held"
  /\ holders' = {t}
  /\ UNCHANGED served

\* The turn gives it back.
Release(t) ==
  /\ stage = "held"
  /\ holders = {t}
  /\ stage' = "free"
  /\ holders' = {}
  /\ served' = served \cup {t}

\* Shutdown takes it from anyone.
Close ==
  /\ stage # "closed"
  /\ stage' = "closed"
  /\ holders' = {}
  /\ served' = {}

Next == Claim \/ Close \/ \E t \in Turns : Open(t) \/ Release(t)

Spec == Init /\ [][Next]_<<stage, holders, served>>
=============================================================================
