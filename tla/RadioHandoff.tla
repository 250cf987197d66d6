---------------------------- MODULE RadioHandoff ----------------------------
(***************************************************************************)
(* The Core's web radio and its truce with Spotify (music/radio.rs), with  *)
(* the now-playing tick that looks at both (nowplaying_service.rs, tick).  *)
(*                                                                         *)
(* Three things have to agree: the station RadioPlayer says is on, what    *)
(* mpv plays, and the stream the speakers are pointed at.  Play, stop and  *)
(* the release for Spotify change them one at a time under the op lock;    *)
(* the reload of a dropped stream does so without it, and every decision   *)
(* to take the lock is made before it is taken.  A voice turn may be       *)
(* dropped at any await, by a barge-in or a timeout (speech_out.rs,        *)
(* with_barge_in), and then leaves what it had done.                       *)
(*                                                                         *)
(* mpv, snapserver and Spotify are external.                               *)
(***************************************************************************)
EXTENDS Integers

CONSTANTS
  Users,         \* who gives commands: "turn" may be dropped, others not
  MaxCommands,   \* bound on their commands
  MaxPhones,     \* bound on Spotify started from outside
  MaxMishaps     \* bound on failed calls, dropped streams, dropped turns

ASSUME RadioAssumption ==
  /\ MaxCommands \in Nat /\ MaxPhones \in Nat /\ MaxMishaps \in Nat
  /\ Users \intersect {"tick", "free"} = {}

VARIABLES
  current,     \* RadioPlayer: the station that is on, or "none"
  player,      \* mpv: the station it plays, or "none"
  speakers,    \* the stream of the snapserver groups: "web" or "spotify"
  spotify,     \* Spotify is playing
  op,          \* who holds the op lock, or "free"
  at,          \* where each user and the tick are
  tune,        \* the station a user wants, or the tick saw
  after,       \* where a user goes once the radio has been stopped
  wasPlaying,  \* the tick's memory of Spotify
  resetDue,    \* the boot-time reset of the speakers has not run yet
  misrouted,   \* ghost: the last change of the speakers failed or was cut off
  mistuned,    \* ghost: likewise of mpv, or a reload crossed a command
  uninvited,   \* ghost: Spotify was left on, or came on, under the radio
  commands, phones, mishaps

radioVars == <<current, player, speakers, spotify, op, at, tune, after,
               wasPlaying, resetDue, misrouted, mistuned, uninvited,
               commands, phones, mishaps>>

Stations == {"s1", "s2"}
Others(s) == IF s = "s1" THEN "s2" ELSE "s1"
Everyone == Users \union {"tick"}

Move(u, a) == at' = [at EXCEPT ![u] = a]

\* A user about to play a station, past the pause of Spotify.
Tuning(u) ==
  \/ at[u] \in {"load", "loaded"}
  \/ at[u] \in {"stop", "silenced", "cleared"} /\ after[u] = "load"

\* An external call fails, or does not.
Mishap == mishaps < MaxMishaps /\ mishaps' = mishaps + 1
Fine == mishaps' = mishaps

\* At boot the speakers are where the last run left them.
RadioInit ==
  /\ current = "none" /\ player = "none"
  /\ speakers \in {"web", "spotify"}
  /\ spotify \in BOOLEAN
  /\ op = "free"
  /\ at = [u \in Everyone |-> "idle"]
  /\ tune = [u \in Everyone |-> "none"]
  /\ after = [u \in Everyone |-> "idle"]
  /\ wasPlaying = FALSE /\ resetDue = TRUE
  /\ misrouted = (speakers = "web") /\ mistuned = FALSE /\ uninvited = FALSE
  /\ commands = 0 /\ phones = 0 /\ mishaps = 0

----------------------------------------------------------------------------
(* Commands: the radio tool, the page, the display's buttons.              *)

Command(u) ==
  /\ u \in Users /\ at[u] = "idle" /\ commands < MaxCommands
  /\ commands' = commands + 1
  /\ UNCHANGED <<current, player, speakers, spotify, op, wasPlaying,
                 misrouted, mistuned, phones, mishaps, resetDue>>

\* RadioPlayer::play: Spotify is paused first if the radio is off.
Play(u, s) ==
  /\ Command(u)
  /\ Move(u, IF current = "none" THEN "pause" ELSE "load")
  /\ tune' = [tune EXCEPT ![u] = s]
  /\ UNCHANGED <<after, uninvited>>

\* RadioPlayer::step: the next station, or the first; Spotify is not touched.
StepStation(u) ==
  /\ Command(u)
  /\ Move(u, "load")
  /\ tune' = [tune EXCEPT ![u] = Others(current)]
  /\ uninvited' = (uninvited \/ (current = "none" /\ spotify))
  /\ UNCHANGED after

\* RadioPlayer::stop, or a pause while the radio is on.
StopRadio(u) ==
  /\ Command(u)
  /\ Move(u, "stop")
  /\ after' = [after EXCEPT ![u] = "idle"]
  /\ UNCHANGED <<tune, uninvited>>

\* RoutedSpotify::command, a command that starts Spotify.
StartSpotify(u) ==
  /\ Command(u)
  /\ Move(u, "release")
  /\ after' = [after EXCEPT ![u] = "start"]
  /\ UNCHANGED <<tune, uninvited>>

----------------------------------------------------------------------------
(* play.                                                                   *)

\* The pause goes through RoutedSpotify, which stops a station that has come
\* on meanwhile.
PauseFirst(u) ==
  /\ at[u] = "pause"
  /\ \/ /\ current # "none"
        /\ Move(u, "stop")
        /\ after' = [after EXCEPT ![u] = "load"]
        /\ Fine
        /\ UNCHANGED <<spotify, uninvited>>
     \/ /\ current = "none"
        /\ Move(u, "load")
        /\ \/ Fine /\ spotify' = FALSE /\ UNCHANGED uninvited
           \/ Mishap /\ uninvited' = TRUE /\ UNCHANGED spotify
        /\ UNCHANGED after
  /\ UNCHANGED <<current, player, speakers, op, tune, wasPlaying, misrouted,
                 mistuned, commands, phones, resetDue>>

LoadStation(u) ==
  /\ at[u] = "load" /\ op = "free"
  /\ op' = u
  /\ player' = tune[u]
  /\ mistuned' = FALSE
  /\ Move(u, "loaded")
  /\ UNCHANGED <<current, speakers, spotify, tune, after, wasPlaying,
                 misrouted, uninvited, commands, phones, mishaps, resetDue>>

LoadFails(u) ==
  /\ at[u] = "load" /\ op = "free"
  /\ Mishap
  /\ Move(u, "idle")
  /\ UNCHANGED <<current, player, speakers, spotify, op, tune, after,
                 wasPlaying, misrouted, mistuned, uninvited, commands, phones,
                 resetDue>>

\* The speakers follow, or do not: the station is on either way.
PlayDone(u) ==
  /\ at[u] = "loaded"
  /\ \/ Fine /\ speakers' = "web" /\ misrouted' = FALSE
     \/ Mishap /\ UNCHANGED speakers /\ misrouted' = TRUE
  /\ current' = tune[u]
  /\ op' = "free"
  /\ Move(u, "idle")
  /\ UNCHANGED <<player, spotify, tune, after, wasPlaying, mistuned,
                 uninvited, commands, phones, resetDue>>

----------------------------------------------------------------------------
(* stop and release_for_spotify.                                           *)

\* mpv is told to stop; that it fails changes nothing of what follows.
StopPlayer(u) ==
  /\ \/ at[u] = "stop"
     \/ at[u] = "release" /\ current # "none"
  /\ op = "free"
  /\ op' = u
  /\ \/ Fine /\ player' = "none" /\ mistuned' = FALSE
     \/ Mishap /\ UNCHANGED player /\ mistuned' = TRUE
  /\ Move(u, "silenced")
  /\ UNCHANGED <<current, speakers, spotify, tune, after, wasPlaying,
                 misrouted, uninvited, commands, phones, resetDue>>

\* Nothing to stop, only the speakers to turn.
ReleaseIdle(u) ==
  /\ at[u] = "release" /\ current = "none" /\ op = "free"
  /\ op' = u
  /\ Move(u, "cleared")
  /\ UNCHANGED <<current, player, speakers, spotify, tune, after, wasPlaying,
                 misrouted, mistuned, uninvited, commands, phones, mishaps,
                 resetDue>>

\* MUTANT: the speakers stay where they are.
ClearStationOnly(u) ==
  /\ at[u] = "silenced"
  /\ current' = "none"
  /\ op' = "free"
  /\ Move(u, after[u])
  /\ UNCHANGED <<player, speakers, spotify, tune, after, wasPlaying,
                 misrouted, mistuned, uninvited, commands, phones, mishaps,
                 resetDue>>

ClearStation(u) ==
  /\ at[u] = "silenced"
  /\ current' = "none"
  /\ Move(u, "cleared")
  /\ UNCHANGED <<player, speakers, spotify, op, tune, after, wasPlaying,
                 misrouted, mistuned, uninvited, commands, phones, mishaps,
                 resetDue>>

RouteBack(u) ==
  /\ at[u] = "cleared"
  /\ \/ Fine /\ speakers' = "spotify" /\ misrouted' = FALSE
     \/ Mishap /\ UNCHANGED speakers /\ misrouted' = TRUE
  /\ op' = "free"
  /\ Move(u, after[u])
  /\ UNCHANGED <<current, player, spotify, tune, after, wasPlaying, mistuned,
                 uninvited, commands, phones, resetDue>>

\* The command reaches Spotify; a station may have come on since.
SpotifyStarts(u) ==
  /\ at[u] = "start"
  /\ spotify' = TRUE
  /\ uninvited' = (uninvited \/ current # "none"
                   \/ \E v \in Everyone : Tuning(v))
  /\ Move(u, "idle")
  /\ UNCHANGED <<current, player, speakers, op, tune, after, wasPlaying,
                 misrouted, mistuned, commands, phones, mishaps, resetDue>>

\* A barge-in or a timeout drops the turn at an await; the lock goes with it.
TurnDropped ==
  /\ "turn" \in Users /\ at["turn"] # "idle"
  /\ Mishap
  /\ Move("turn", "idle")
  /\ op' = IF op = "turn" THEN "free" ELSE op
  /\ misrouted' = (misrouted \/ op = "turn")
  /\ mistuned' = (mistuned \/ op = "turn")
  /\ UNCHANGED <<current, player, speakers, spotify, tune, after, wasPlaying,
                 uninvited, commands, phones, resetDue>>

----------------------------------------------------------------------------
(* The tick.                                                               *)

\* MUTANT: the memory is refreshed before it is compared.
TickSeesLevel ==
  /\ at["tick"] = "idle" /\ current # "none"
  /\ wasPlaying' = spotify
  /\ Move("tick", IF spotify /\ ~wasPlaying' THEN "release" ELSE "song")
  /\ after' = [after EXCEPT !["tick"] = "idle"]
  /\ UNCHANGED <<current, player, speakers, spotify, op, tune, misrouted,
                 mistuned, uninvited, commands, phones, mishaps, resetDue>>

\* With a station on, Spotify starting takes the speakers back.
TickSees ==
  /\ at["tick"] = "idle" /\ current # "none"
  /\ wasPlaying' = spotify
  /\ Move("tick", IF spotify /\ ~wasPlaying THEN "release" ELSE "song")
  /\ after' = [after EXCEPT !["tick"] = "idle"]
  /\ UNCHANGED <<current, player, speakers, spotify, op, tune, misrouted,
                 mistuned, uninvited, commands, phones, mishaps, resetDue>>

\* Spotify could not be read: only the radio's own state is looked at.
TickBlind ==
  /\ at["tick"] = "idle" /\ current # "none"
  /\ Mishap
  /\ Move("tick", "song")
  /\ UNCHANGED <<current, player, speakers, spotify, op, tune, after,
                 wasPlaying, misrouted, mistuned, uninvited, commands, phones,
                 resetDue>>

\* With the radio off only Spotify is looked at.
TickWithoutRadio ==
  /\ at["tick"] = "idle" /\ current = "none"
  /\ wasPlaying' = spotify
  /\ UNCHANGED <<current, player, speakers, spotify, op, at, tune, after,
                 misrouted, mistuned, uninvited, commands, phones, mishaps,
                 resetDue>>

\* RadioPlayer::now_playing remembers the station before it asks mpv.
TickReadsStation ==
  /\ at["tick"] = "song"
  /\ Move("tick", IF current = "none" THEN "idle" ELSE "ask")
  /\ tune' = [tune EXCEPT !["tick"] = current]
  /\ UNCHANGED <<current, player, speakers, spotify, op, after, wasPlaying,
                 misrouted, mistuned, uninvited, commands, phones, mishaps,
                 resetDue>>

TickAsks ==
  /\ at["tick"] = "ask"
  /\ Move("tick", IF player = "none" THEN "reload" ELSE "idle")
  /\ UNCHANGED <<current, player, speakers, spotify, op, tune, after,
                 wasPlaying, misrouted, mistuned, uninvited, commands, phones,
                 mishaps, resetDue>>

\* reconnect takes no lock and does not look again; it may also fail, or have
\* been tried just now.
TickReloads ==
  /\ at["tick"] = "reload"
  /\ Move("tick", "idle")
  /\ \/ /\ player' = tune["tick"]
        /\ mistuned' = (mistuned \/ op # "free" \/ current # tune["tick"])
     \/ UNCHANGED <<player, mistuned>>
  /\ UNCHANGED <<current, speakers, spotify, op, tune, after, wasPlaying,
                 misrouted, uninvited, commands, phones, mishaps, resetDue>>

----------------------------------------------------------------------------
(* The world.                                                              *)

\* reset_routing, once after boot: a station that is on is left alone.
ResetRouting ==
  /\ resetDue /\ op = "free"
  /\ resetDue' = FALSE
  /\ IF current # "none" THEN Fine /\ UNCHANGED <<speakers, misrouted>>
     ELSE \/ Fine /\ speakers' = "spotify" /\ misrouted' = FALSE
          \/ Mishap /\ UNCHANGED speakers /\ misrouted' = TRUE
  /\ UNCHANGED <<current, player, spotify, op, at, tune, after, wasPlaying,
                 mistuned, uninvited, commands, phones>>

\* Spotify is started or paused from a phone.
PhoneStarts ==
  /\ ~spotify /\ phones < MaxPhones
  /\ phones' = phones + 1
  /\ spotify' = TRUE
  /\ uninvited' = (uninvited \/ current # "none"
                   \/ \E v \in Everyone : Tuning(v))
  /\ UNCHANGED <<current, player, speakers, op, at, tune, after, wasPlaying,
                 misrouted, mistuned, commands, mishaps, resetDue>>

SpotifyPauses ==
  /\ spotify /\ phones < MaxPhones
  /\ phones' = phones + 1
  /\ spotify' = FALSE
  /\ uninvited' = FALSE
  /\ UNCHANGED <<current, player, speakers, op, at, tune, after, wasPlaying,
                 misrouted, mistuned, commands, mishaps, resetDue>>

\* The station's stream ends under mpv.
StreamDrops ==
  /\ player # "none"
  /\ Mishap
  /\ player' = "none"
  /\ UNCHANGED <<current, speakers, spotify, op, at, tune, after, wasPlaying,
                 misrouted, mistuned, uninvited, commands, phones, resetDue>>

RadioStep(u) ==
  \/ PauseFirst(u) \/ LoadStation(u) \/ LoadFails(u) \/ PlayDone(u)
  \/ StopPlayer(u) \/ ReleaseIdle(u) \/ ClearStation(u) \/ RouteBack(u)
  \/ SpotifyStarts(u)

TickStep ==
  \/ TickSees \/ TickBlind \/ TickWithoutRadio \/ TickReadsStation
  \/ TickAsks \/ TickReloads

RadioNext ==
  \/ \E u \in Users : \/ \E s \in Stations : Play(u, s)
                      \/ StepStation(u) \/ StopRadio(u) \/ StartSpotify(u)
  \/ \E u \in Everyone : RadioStep(u)
  \/ TickStep \/ TurnDropped
  \/ ResetRouting \/ PhoneStarts \/ SpotifyPauses \/ StreamDrops

\* Calls return, the lock is fair, and a display is connected: the tick
\* runs.
RadioFairness ==
  /\ \A u \in Users : WF_radioVars(RadioStep(u))
  /\ SF_radioVars(RadioStep("tick") \/ TickSees)
  /\ WF_radioVars(TickStep)

RadioSpec == RadioInit /\ [][RadioNext]_radioVars /\ RadioFairness
----------------------------------------------------------------------------
(* Properties.                                                             *)

\* The op lock is held exactly between the first and the last change.
RadioTypeOK ==
  /\ current \in Stations \union {"none"}
  /\ player \in Stations \union {"none"}
  /\ speakers \in {"web", "spotify"} /\ spotify \in BOOLEAN
  /\ wasPlaying \in BOOLEAN /\ resetDue \in BOOLEAN
  /\ at \in [Everyone -> {"idle", "pause", "load", "loaded", "stop",
                          "release", "silenced", "cleared", "start", "song",
                          "ask", "reload"}]
  /\ tune \in [Everyone -> Stations \union {"none"}]
  /\ after \in [Everyone -> {"idle", "load", "start"}]
  /\ op \in Everyone \union {"free"}
  /\ \A u \in Everyone :
       op = u <=> at[u] \in {"loaded", "silenced", "cleared"}
  /\ \A b \in {misrouted, mistuned, uninvited} : b \in BOOLEAN

\* What is on is what is heard, whoever raced whom to it.  The speakers are
\* on the stream of what is on, unless the call that should have turned them
\* failed or was cut off; mpv plays the station that is on or nothing, unless
\* a call to it failed or was cut off, or a reload crossed a command; and when
\* everyone is done the radio and Spotify do not both play, unless Spotify
\* came on meanwhile, could not be paused, or a step began the radio.
StationIsHeard ==
  /\ op = "free" =>
       /\ ~misrouted => (speakers = "web" <=> current # "none")
       /\ ~mistuned => player \in {current, "none"}
  /\ (\A u \in Everyone : at[u] = "idle") /\ current # "none" /\ spotify =>
       uninvited

\* Spotify starting under the radio gets the speakers, if the tick had last
\* seen it silent ("a new Spotify start while the radio is on hands the
\* speakers back").
NewStartIsHandedOff ==
  (current # "none" /\ spotify /\ ~wasPlaying) ~>
    (current = "none" \/ ~spotify)
============================================================================
