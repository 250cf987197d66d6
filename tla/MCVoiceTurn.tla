---------------------------- MODULE MCVoiceTurn ----------------------------
(***************************************************************************)
(* What a voice turn meets on its way, checked in one run for safety.      *)
(* focus says what a behaviour moves: the display's tasks alone            *)
(* (VoiceTurn, with all its openings), the tasks together with the         *)
(* conversation panel (TurnScreen, with fewer), one exchange on its        *)
(* connection (TurnWire), the full screens and the context they give a     *)
(* turn (DisplayScreen), the sign-in to the household apps that the turns' *)
(* tools use and the page changes (HouseholdLink), or the music ducked     *)
(* under the replies (MusicDucker).  The last four share no variable with  *)
(* the others.                                                             *)
(***************************************************************************)
EXTENDS TurnScreen, TurnWire, DisplayScreen, HouseholdLink, MusicDucker

CONSTANT PanelTurns   \* bound on openings when the panel takes part

VARIABLE focus

voiceVars == <<focus, vars, panelVars, exchangeVars, displayVars,
               linkVars, duckerVars>>

PanelNext == TurnScreenNext /\ budget' >= MaxTurns - PanelTurns

\* Where nobody tells the panel anything, it owes nobody anything.
PanelRests ==
  /\ events = << >> /\ greeted = {} /\ said = {}
  /\ turnPhase = "idle" /\ audioPlaying = FALSE
  /\ transcript = None /\ reply = {}
  /\ uncleared = {} /\ excused = Turns

VoiceInit ==
  /\ \/ focus \in {"slot", "wire", "screen", "link", "music"}
        /\ Init /\ PanelRests
     \/ focus = "panel" /\ TurnScreenInit
  /\ WireInit /\ ScreenInit /\ LinkInit /\ DuckerInit
  /\ focus # "music" => \A c \in Clients : ~volume[c].muted

VoiceNext ==
  \/ /\ focus = "slot" /\ Next
     /\ UNCHANGED <<focus, panelVars, exchangeVars, displayVars, linkVars,
                    duckerVars>>
  \/ /\ focus = "panel" /\ PanelNext
     /\ UNCHANGED <<focus, exchangeVars, displayVars, linkVars, duckerVars>>
  \/ /\ focus = "wire" /\ WireNext
     /\ UNCHANGED <<focus, vars, panelVars, displayVars, linkVars, duckerVars>>
  \/ /\ focus = "screen" /\ ScreenNext
     /\ UNCHANGED <<focus, vars, panelVars, exchangeVars, linkVars, duckerVars>>
  \/ /\ focus = "link" /\ LinkNext
     /\ UNCHANGED <<focus, vars, panelVars, exchangeVars, displayVars,
                    duckerVars>>
  \/ /\ focus = "music" /\ DuckerNext
     /\ UNCHANGED <<focus, vars, panelVars, exchangeVars, displayVars, linkVars>>

VoiceSpec == VoiceInit /\ [][VoiceNext]_voiceVars
=============================================================================
