----------------------------- MODULE MCExchange -----------------------------
(***************************************************************************)
(* That a turn and what it leaves behind come to an end, checked in one    *)
(* run for the display's tasks (VoiceTurn), for one exchange on its        *)
(* connection (TurnWire) and for the music ducked under the replies        *)
(* (MusicDucker).  The three share no variable: focus names the one that a *)
(* behaviour moves while the others rest in an initial state.  MCVoiceTurn *)
(* checks the safety of the first two on larger instances.                 *)
(***************************************************************************)
EXTENDS VoiceTurn, TurnWire, MusicDucker

VARIABLE focus

ASSUME ConnsAreTurns == Conns = Turns   \* so that one index serves both

mcVars == <<focus, vars, exchangeVars, duckerVars>>

MCInit ==
  /\ focus \in {"tasks", "wire", "music"}
  /\ Init /\ WireInit /\ DuckerInit
  /\ focus # "music" => \A c \in Clients : ~volume[c].muted

\* A step of one part, while it is the one that moves.
Tasks(A) == focus = "tasks" /\ A /\ UNCHANGED <<focus, exchangeVars, duckerVars>>
Wire(A)  == focus = "wire" /\ A /\ UNCHANGED <<focus, vars, duckerVars>>
Music(A) == focus = "music" /\ A /\ UNCHANGED <<focus, vars, exchangeVars>>

MCNext == Tasks(Next) \/ Wire(WireNext) \/ Music(DuckerNext)

\* The fairness of each part.  Only one ever moves, so that a condition on one
\* and a condition on another are one condition on either step: turn t stands
\* for connection t too.
MCFairness ==
  /\ WF_mcVars(\/ Tasks(Capture /\ capture # "scoring")
               \/ Wire(DevTimeout)
               \/ Music(ManualStep))
  /\ WF_mcVars(Tasks(Callback) \/ Wire(Core))
  /\ \A t \in Turns :
       /\ WF_mcVars(Tasks(Resolved(t) \/ Connected(t) \/ NoConnection(t)))
       /\ WF_mcVars(\/ Tasks(Transcript(t) \/ TurnAbandoned(t))
                    \/ Music(TurnOver(t)))
       /\ SF_mcVars(Tasks(ReplyEnds(t)) \/ Music(TaskStep(t)))
       /\ SF_mcVars(Tasks(BargedIn(t)))
       /\ WF_mcVars(Tasks(Unparked(t) \/ BlockDropped(t)))
       /\ WF_mcVars(Tasks(\/ ClearChannels(t) \/ ReleaseSlot(t)
                          \/ TakeRestart(t) \/ RestartClaim(t)
                          \/ \E u \in Turns : RestartSpawn(t, u)))
       /\ WF_mcVars(Tasks(WatcherStep(t)))

MCSpec == MCInit /\ [][MCNext]_mcVars /\ MCFairness
----------------------------------------------------------------------------
\* However an exchange goes, the display and the Core both let go of it.
ExchangeEnds == focus = "wire" ~> dev = "idle" /\ core = "closed"
=============================================================================
