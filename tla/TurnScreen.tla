----------------------------- MODULE TurnScreen -----------------------------
(***************************************************************************)
(* The conversation panel of the display: VoiceTurn with the events its    *)
(* threads add to the engine's stream, and AssistantController, which      *)
(* consumes them in order on the UI thread and keeps the phase of the      *)
(* turn, the flag that reply audio is playing, and the words shown.        *)
(*                                                                         *)
(* Words are known by the turn they belong to.  The local end-of-speech    *)
(* cue (listening to processing and back) is left out: no handler of       *)
(* these events tells the two phases apart.  After the engine's last event *)
(* the controller would start another; that is the end here.               *)
(***************************************************************************)
EXTENDS VoiceTurn

CONSTANT MaxBehind   \* bound on events the UI thread is behind

VARIABLES
  events,       \* the engine's stream: what the UI has still to handle
  greeted,      \* follow-up turns that have announced themselves
  said,         \* turns that have sent reply words
  turnPhase,    \* AssistantState.phase
  audioPlaying, \* AssistantState.audioPlaying
  transcript,   \* whose transcript is shown, or None
  reply,        \* whose reply words are shown
  uncleared,    \* ghost: turns whose words no opening event follows yet
  excused       \* ghost: turns whose words need not be up alone while they
                \* are heard

screenVars == <<turnPhase, audioPlaying, transcript, reply>>
ghostVars == <<uncleared, excused>>
panelVars == <<events, greeted, said, screenVars, ghostVars>>

Event(kind, t) == [kind |-> kind, turn |-> t]
Emit(kind, t) == /\ Len(events) < MaxBehind
                 /\ events' = Append(events, Event(kind, t))

TurnScreenInit ==
  /\ Init
  /\ events = << >> /\ greeted = {} /\ said = {}
  /\ turnPhase = "idle" /\ audioPlaying = FALSE
  /\ transcript = None /\ reply = {}
  /\ uncleared = {} /\ excused = {}

----------------------------------------------------------------------------
(* The engine's threads and what they add to the stream.                   *)

Born == {t \in Turns : turn[t] # "unborn"}

\* The capture thread reports the wake word, then flushes.
DetectedEmitted ==
  /\ WakeFlush
  /\ Emit("detected", None)
  /\ uncleared' = {}
  /\ excused' = excused \union Born
  /\ UNCHANGED <<greeted, said, screenVars>>

\* A wake word's turn opens, at once or as a restart.  It is the report of the
\* wake word that takes down the words of the turns before; one that began
\* after the report is overtaken all the same.
OpenedByWake(u) ==
  /\ WakeSpawn(u) \/ \E t \in Turns : RestartSpawn(t, u)
  /\ excused' = excused \union Born
                  \union {v \in {u} : uncleared # {}}
  /\ UNCHANGED <<events, greeted, said, screenVars, uncleared>>

\* A follow-up turn's task announces itself before it resolves.
FollowupEmitted(t) ==
  /\ turn[t] = "resolving" /\ followup[t] /\ t \notin greeted /\ MayRun(t)
  /\ greeted' = greeted \union {t}
  /\ Emit("listeningFollowup", t)
  /\ uncleared' = {}
  /\ UNCHANGED <<vars, said, screenVars, excused>>

Ready(t) == followup[t] => t \in greeted

ConnectingEmitted(t) ==
  /\ Ready(t) /\ Resolved(t)
  /\ Emit("connecting", t)
  /\ UNCHANGED <<greeted, said, screenVars, ghostVars>>

NoConnectionEmitted(t) ==
  /\ Ready(t) /\ NoConnection(t)
  /\ Emit("failed", t)
  /\ UNCHANGED <<greeted, said, screenVars, ghostVars>>

StreamingEmitted(t) ==
  /\ Connected(t)
  /\ Emit("streaming", t)
  /\ UNCHANGED <<greeted, said, screenVars, ghostVars>>

TranscriptEmitted(t) ==
  /\ Transcript(t)
  /\ Emit("transcript", t)
  /\ UNCHANGED <<greeted, said, screenVars, ghostVars>>

\* A reply-token; the words of a reply are one here.
ReplyTokenEmitted(t) ==
  /\ Polled(t, "speaking") /\ t \notin said
  /\ said' = said \union {t}
  /\ Emit("replyToken", t)
  /\ uncleared' = uncleared \union {t}
  /\ UNCHANGED <<vars, greeted, screenVars, excused>>

SpeakingEmitted(t) ==
  /\ AudioStart(t)
  /\ Emit("speaking", t)
  /\ UNCHANGED <<greeted, said, screenVars, ghostVars>>

\* Every end of run_turn without an error is "turn complete"; a read or a
\* write that fails is not, and cuts a reply that is still playing.
EndEmitted(t) ==
  /\ ReplyEnds(t) \/ TurnAbandoned(t)
  /\ \/ Emit("complete", t) /\ UNCHANGED excused
     \/ Emit("failed", t) /\ excused' = excused \union {t}
  /\ UNCHANGED <<greeted, said, screenVars, uncleared>>

BargedInEmitted(t) ==
  /\ BargedIn(t)
  /\ Emit("complete", t)
  /\ UNCHANGED <<greeted, said, screenVars, ghostVars>>

\* The drain watcher of a turn that spoke; a newer turn may be speaking.
DrainedEmitted(t) ==
  /\ Drained(t)
  /\ IF spoke[t]
       THEN /\ Emit("speakingDone", t)
            /\ excused' = excused \union {u \in Turns : u > t /\ spoke[u]}
       ELSE UNCHANGED <<events, excused>>
  /\ UNCHANGED <<greeted, said, screenVars, uncleared>>

\* run_loop's last event, after the network is dropped.
StoppedEmitted ==
  /\ DropRuntime
  /\ Emit("stopped", None)
  /\ UNCHANGED <<greeted, said, screenVars, ghostVars>>

\* The steps of VoiceTurn that tell the UI nothing.
SilentStep ==
  /\ \/ WakeClaim \/ WakeRefused \/ WakeAsk \/ WakeInterrupt
     \/ DropSlot \/ DropChannels
     \/ \E t \in Turns :
          \/ Listen(t) \/ AudioChunk(t) \/ Unparked(t) \/ BlockDropped(t)
          \/ ClearChannels(t) \/ ReleaseSlot(t) \/ TakeRestart(t)
          \/ RestartClaim(t) \/ FollowupClaim(t)
          \/ \E u \in Turns : FollowupSpawn(t, u)
     \/ Callback \/ Wedge
  /\ UNCHANGED panelVars

----------------------------------------------------------------------------
(* AssistantController::_onEvent, on the UI thread.                        *)

Handles(kinds) == events # << >> /\ Head(events).kind \in kinds

Handled == /\ events' = Tail(events)
           /\ UNCHANGED <<vars, greeted, said, ghostVars>>

\* A wake word or a follow-up begins a fresh exchange.
OnOpening ==
  /\ Handles({"detected", "listeningFollowup"}) /\ Handled
  /\ turnPhase' = "listening" /\ audioPlaying' = FALSE
  /\ transcript' = None /\ reply' = {}

OnConnecting ==
  /\ Handles({"connecting"}) /\ Handled
  /\ turnPhase' = "connecting"
  /\ UNCHANGED <<audioPlaying, transcript, reply>>

OnStreaming ==
  /\ Handles({"streaming"}) /\ Handled
  /\ turnPhase' = "listening"
  /\ UNCHANGED <<audioPlaying, transcript, reply>>

OnTranscript ==
  /\ Handles({"transcript"}) /\ Handled
  /\ turnPhase' = "thinking" /\ transcript' = Head(events).turn
  /\ UNCHANGED <<audioPlaying, reply>>

OnReplyToken ==
  /\ Handles({"replyToken"}) /\ Handled
  /\ turnPhase' = "thinking" /\ reply' = reply \union {Head(events).turn}
  /\ UNCHANGED <<audioPlaying, transcript>>

OnSpeaking ==
  /\ Handles({"speaking"}) /\ Handled
  /\ turnPhase' = "speaking" /\ audioPlaying' = TRUE
  /\ UNCHANGED <<transcript, reply>>

\* MUTANT: any report that audio has drained clears the panel.
ClearsAlways ==
  /\ Handles({"speakingDone"}) /\ Handled
  /\ audioPlaying' = FALSE
  /\ transcript' = None /\ reply' = {}
  /\ UNCHANGED turnPhase

\* The audio has drained: clear the panel, unless a newer turn has moved on.
OnSpeakingDone ==
  /\ Handles({"speakingDone"}) /\ Handled
  /\ audioPlaying' = FALSE
  /\ IF turnPhase = "speaking" \/ (turnPhase = "idle" /\ audioPlaying)
       THEN transcript' = None /\ reply' = {}
       ELSE UNCHANGED <<transcript, reply>>
  /\ UNCHANGED turnPhase

\* After a clean end the reply is usually still playing.
OnDisconnected ==
  /\ Handles({"complete", "failed"}) /\ Handled
  /\ turnPhase' = "idle"
  /\ audioPlaying' = (audioPlaying /\ Head(events).kind = "complete")
  /\ UNCHANGED <<transcript, reply>>

\* The engine is gone: the rest of its stream is not read.
OnStopped ==
  /\ Handles({"stopped"})
  /\ events' = << >>
  /\ turnPhase' = "error" /\ audioPlaying' = FALSE
  /\ UNCHANGED <<vars, greeted, said, transcript, reply, ghostVars>>

Handle ==
  \/ OnOpening \/ OnConnecting \/ OnStreaming \/ OnTranscript \/ OnReplyToken
  \/ OnSpeaking \/ OnSpeakingDone \/ OnDisconnected \/ OnStopped

----------------------------------------------------------------------------
TurnScreenNext ==
  \/ DetectedEmitted \/ StoppedEmitted \/ SilentStep
  \/ \E t \in Turns :
       \/ OpenedByWake(t) \/ FollowupEmitted(t)
       \/ ConnectingEmitted(t) \/ NoConnectionEmitted(t)
       \/ StreamingEmitted(t) \/ TranscriptEmitted(t) \/ ReplyTokenEmitted(t)
       \/ SpeakingEmitted(t) \/ EndEmitted(t) \/ BargedInEmitted(t)
       \/ DrainedEmitted(t)
  \/ Handle

TurnScreenSpec ==
  TurnScreenInit /\ [][TurnScreenNext]_<<vars, panelVars>>
----------------------------------------------------------------------------
(* Properties.                                                             *)

PanelTypeOK ==
  /\ events \in Seq([kind : {"detected", "listeningFollowup", "connecting",
                            "streaming", "transcript", "replyToken",
                            "speaking", "speakingDone", "complete", "failed",
                            "stopped"},
                    turn : Turns \union {None}])
  /\ greeted \subseteq Turns /\ said \subseteq Turns
  /\ uncleared \subseteq Turns /\ excused \subseteq Turns
  /\ turnPhase \in {"idle", "listening", "connecting", "thinking", "speaking",
                    "error"}
  /\ audioPlaying \in BOOLEAN
  /\ transcript \in Turns \union {None} /\ reply \subseteq Turns

\* The conversation panel is up.
DisplayActive == turnPhase \notin {"idle", "error"} \/ audioPlaying

Audible(t) ==
  Up /\ ~wedged /\ ~flush /\ \E i \in DOMAIN ring : ring[i] = t

\* "The audio outlives the turn": while a reply plays, and the UI has handled
\* what it was told, the panel is up and shows the words of that turn and no
\* others.  Four things excuse it: a wake word since the turn began, reported
\* or opening its turn; a reply cut by a failed connection with audio still
\* queued; the drain watcher of an older turn that reports after this one
\* began to speak; and words that an older turn sent after the wake word that
\* opened this one was reported, which stay.
PanelWhileAudible ==
  \A t \in Turns :
    Audible(t) /\ events = << >> /\ t \notin excused
      => DisplayActive /\ transcript = t /\ reply \subseteq {t}
=============================================================================
