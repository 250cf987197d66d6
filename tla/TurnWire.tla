------------------------------ MODULE TurnWire ------------------------------
(****************************************************************************)
(* One voice turn on the wire, from the moment the display has connected    *)
(* and sent its audio-start: the display's Session driven by run_turn       *)
(* (wyoming/state.rs, wyoming/client.rs) against the Core's pipeline        *)
(* (orchestrator/{mod,vad_loop,speech_out}.rs under server.rs).             *)
(*                                                                          *)
(* The two talk over one TCP connection: frames arrive in order, and a side *)
(* that closes its end is seen after everything it wrote.  A frame that     *)
(* leaves the display is in `up` until the Core reads it; everything the    *)
(* Core has ever written is in `sent`, of which the display has read the    *)
(* first `got`.  Each await between two writes is a place where the other   *)
(* side, or a barge-in, may come first.                                     *)
(****************************************************************************)
EXTENDS Integers, Sequences

CONSTANTS
  MaxChunks,     \* bound: PCM frames the display sends
  MaxSentences,  \* bound: sentences the LLM forms
  FollowUp       \* follow_up.enabled, with the chain cap not reached

ASSUME WireBounds == MaxChunks \in Nat /\ MaxSentences \in Nat
ASSUME FollowUpAssumption == FollowUp \in BOOLEAN

VARIABLES
  dev,       \* Session::state; "idle" once run_turn has returned
  ended,     \* history: what ended the display's turn
  torn,      \* a frame was dropped half read: the reader is out of step
  chunks,    \* PCM frames still to come from the microphone
  up,        \* frames from the display the Core has not read
  upClosed,  \* the display has closed the connection
  sent,      \* history: frames the Core has written
  got,       \* how many of them the display has read
  downClosed,\* the Core has closed the connection
  core,      \* where the Core's task for this connection is
  speechStarted, \* vad_loop: the VAD has latched speech
  audioStarted,  \* the turn's single audio-start has been forwarded
  fast,      \* the reply comes from a fast path
  ending,    \* FastReply::end_session
  trailing,  \* the sentence being spoken is the last one
  sentences  \* sentences the LLM may still form

devVars  == <<dev, ended, torn, chunks>>
wireVars == <<up, upClosed, sent, got, downClosed>>
coreVars == <<core, speechStarted, audioStarted, fast, ending, trailing,
              sentences>>
exchangeVars == <<devVars, wireVars, coreVars>>

UpFrames == {"chunk", "audio-stop", "interrupt"}
DownFrames == {"transcript", "action", "reply-token", "audio-start",
               "audio-chunk", "listen", "audio-stop", "enroll-result"}

DevPcs == {"streaming", "speaking", "idle"}
Endings == {"none", "stop", "closed", "timeout", "barge-in", "hang-up", "error"}

\* Where the Core's reply future (`drive`) is; with_barge_in races these
\* against the reader.
DrivePcs == {"acting", "telling", "generating", "voicing", "synthesizing",
             "inviting", "stopping", "mute"}
CorePcs == DrivePcs \cup {"listening", "finalized", "silent", "deciding",
                          "enrolled", "suppressed", "stalled", "failing",
                          "between", "closed"}

WireInit ==
  /\ dev = "streaming"
  /\ ended = "none"
  /\ torn = FALSE
  /\ chunks = MaxChunks
  /\ up = << >>
  /\ upClosed = FALSE
  /\ sent = << >>
  /\ got = 0
  /\ downClosed = FALSE
  /\ core = "listening"
  /\ speechStarted = FALSE
  /\ audioStarted = FALSE
  /\ fast = FALSE
  /\ ending = FALSE
  /\ trailing = FALSE
  /\ sentences = MaxSentences

-----------------------------------------------------------------------------
(* The display: the arms of run_turn's select!.                             *)

\* run_turn returns; its caller drops the connection.
EndTurn(how, frames) ==
  /\ dev' = "idle"
  /\ ended' = how
  /\ up' = up \o frames
  /\ upClosed' = TRUE

\* The audio-stop that closes the microphone stream, if it is open.
MicStop == IF dev = "streaming" THEN <<"audio-stop">> ELSE << >>

DevSendChunk ==
  /\ dev = "streaming"
  /\ chunks > 0
  /\ chunks' = chunks - 1
  /\ up' = Append(up, "chunk")
  /\ UNCHANGED <<dev, ended, torn, upClosed, sent, got, downClosed, coreVars>>

\* The frame read next, when the reader is in step.
DevReads(f) ==
  /\ dev # "idle"
  /\ ~torn
  /\ got < Len(sent)
  /\ sent[got + 1] = f
  /\ got' = got + 1

\* STREAMING -> SPEAKING; a transcript in SPEAKING changes nothing.
DevReadTranscript ==
  /\ DevReads("transcript")
  /\ dev' = "speaking"
  /\ up' = up \o MicStop
  /\ UNCHANGED <<ended, torn, chunks, upClosed, sent, downClosed, coreVars>>

\* PlaybackFinished ends a turn in SPEAKING and is ignored in STREAMING.
DevReadStop ==
  /\ DevReads("audio-stop")
  /\ IF dev = "speaking"
       THEN EndTurn("stop", << >>)
       ELSE UNCHANGED <<dev, ended, up, upClosed>>
  /\ UNCHANGED <<torn, chunks, sent, downClosed, coreVars>>

\* Everything else is handed on without touching the turn.
DevReadOther ==
  /\ \E f \in DownFrames \ {"transcript", "audio-stop"} : DevReads(f)
  /\ UNCHANGED <<devVars, up, upClosed, sent, downClosed, coreVars>>

\* While STREAMING a microphone chunk can win the select! over a read that has
\* part of a frame: that part is lost.
DevTearsFrame ==
  /\ dev = "streaming"
  /\ ~torn
  /\ got < Len(sent)
  /\ chunks > 0
  /\ torn' = TRUE
  /\ got' = got + 1
  /\ chunks' = chunks - 1
  /\ up' = Append(up, "chunk")
  /\ UNCHANGED <<dev, ended, upClosed, sent, downClosed, coreVars>>

\* The next read, out of step, is an error.
DevReadFails ==
  /\ dev # "idle"
  /\ torn
  /\ got < Len(sent) \/ downClosed
  /\ EndTurn("error", << >>)
  /\ UNCHANGED <<torn, chunks, sent, got, downClosed, coreVars>>

DevSeesClose ==
  /\ dev # "idle"
  /\ ~torn
  /\ got = Len(sent)
  /\ downClosed
  /\ EndTurn("closed", << >>)
  /\ UNCHANGED <<torn, chunks, sent, got, downClosed, coreVars>>

\* A write that the Core does not take within WRITE_TIMEOUT, or to a closed
\* connection.
DevWriteFails ==
  /\ dev = "streaming"
  /\ downClosed \/ chunks > 0
  /\ EndTurn("error", << >>)
  /\ UNCHANGED <<torn, chunks, sent, got, downClosed, coreVars>>

\* Mutant of DevTimeout: no watchdog.
DevWaitsForEver ==
  /\ FALSE
  /\ UNCHANGED exchangeVars

\* The idle watchdog.
DevTimeout ==
  /\ dev # "idle"
  /\ EndTurn("timeout", MicStop)
  /\ UNCHANGED <<torn, chunks, sent, got, downClosed, coreVars>>

\* A new wake word.
DevBargeIn ==
  /\ dev # "idle"
  /\ EndTurn("barge-in", <<"interrupt">> \o MicStop)
  /\ UNCHANGED <<torn, chunks, sent, got, downClosed, coreVars>>

\* The capture side is gone.
DevHangUp ==
  /\ dev = "streaming"
  /\ EndTurn("hang-up", MicStop)
  /\ UNCHANGED <<torn, chunks, sent, got, downClosed, coreVars>>

Device ==
  \/ DevSendChunk \/ DevReadTranscript \/ DevReadStop \/ DevReadOther
  \/ DevTearsFrame \/ DevReadFails \/ DevSeesClose \/ DevWriteFails
  \/ DevTimeout \/ DevBargeIn \/ DevHangUp

-----------------------------------------------------------------------------
(* The Core listens: stream_to_transcript.                                  *)

\* The Core's task moves on, having written these frames.
Say(frames) == sent' = sent \o frames

Quiet == UNCHANGED sent

CoreReads(f) ==
  /\ up # << >>
  /\ Head(up) = f
  /\ up' = Tail(up)

\* A PCM frame: the VAD may latch speech, and may find the end of it or of the
\* no-speech window, which finalizes the STT stream.
CoreHearsChunk ==
  /\ core = "listening"
  /\ CoreReads("chunk")
  /\ speechStarted' \in {speechStarted, TRUE}
  /\ core' \in {"listening", "finalized"}
  /\ UNCHANGED <<devVars, upClosed, sent, got, downClosed, audioStarted, fast,
                 ending, trailing, sentences>>

\* Other frames before the transcript are ignored, an interrupt too.
CoreSkips ==
  /\ core = "listening"
  /\ \E f \in UpFrames \ {"chunk"} : CoreReads(f)
  /\ UNCHANGED <<devVars, upClosed, sent, got, downClosed, coreVars>>

\* The display closed before the transcript: Listen::DeviceClosed.
CoreSeesClose ==
  /\ core = "listening"
  /\ up = << >>
  /\ upClosed
  /\ core' = "closed"
  /\ downClosed' = TRUE
  /\ UNCHANGED <<devVars, up, upClosed, sent, got, speechStarted, audioStarted,
                 fast, ending, trailing, sentences>>

\* turn_timeout without a frame from the display or the STT: the turn is over,
\* the connection stays.
CoreIdleTimeout ==
  /\ core \in {"listening", "finalized"}
  /\ core' = "between"
  /\ UNCHANGED <<devVars, wireVars, speechStarted, audioStarted, fast, ending,
                 trailing, sentences>>

\* An STT event other than the transcript wins over a device read that has
\* part of a frame; the next read is an error, and so is an STT that fails or
\* closes.  An error ends the connection.
CoreListenFails ==
  /\ core \in {"listening", "finalized"}
  /\ core' = "closed"
  /\ downClosed' = TRUE
  /\ UNCHANGED <<devVars, up, upClosed, sent, got, speechStarted, audioStarted,
                 fast, ending, trailing, sentences>>

\* The STT returned, the VAD having latched nothing: whatever the text, it is
\* not relayed.
SttOnSilence ==
  /\ core \in {"listening", "finalized"}
  /\ ~speechStarted
  /\ core' = "silent"
  /\ UNCHANGED <<devVars, wireVars, speechStarted, audioStarted, fast, ending,
                 trailing, sentences>>

SttTranscript ==
  /\ core \in {"listening", "finalized"}
  /\ speechStarted
  /\ Say(<<"transcript">>)
  /\ core' \in {"deciding", "silent"}   \* silent: the text is empty
  /\ UNCHANGED <<devVars, up, upClosed, got, downClosed, speechStarted,
                 audioStarted, fast, ending, trailing, sentences>>

-----------------------------------------------------------------------------
(* What run_turn_after_start and respond_and_speak make of it.              *)

\* No speech, or a transcription-only screen: a bare audio-stop.
CloseQuietly ==
  /\ core \in {"silent", "suppressed"}
  /\ Say(<<"audio-stop">>)
  /\ core' = "between"
  /\ UNCHANGED <<devVars, up, upClosed, got, downClosed, speechStarted,
                 audioStarted, fast, ending, trailing, sentences>>

\* The enrollment screen: the result, then the stop.
Enroll ==
  /\ core = "enrolled"
  /\ Say(<<"enroll-result">>)
  /\ core' = "suppressed"
  /\ UNCHANGED <<devVars, up, upClosed, got, downClosed, speechStarted,
                 audioStarted, fast, ending, trailing, sentences>>

\* A diagnostics or enrollment screen, a fast path (command, home, camera,
\* System-1), the LLM, or an error on the way to any of them.
Decide ==
  /\ core = "deciding"
  /\ \/ /\ core' \in {"suppressed", "enrolled", "generating", "failing"}
        /\ UNCHANGED <<fast, ending, trailing>>
     \/ /\ core' \in {"acting", "telling"}   \* with a device action or not
        /\ fast' = TRUE
        /\ trailing' = TRUE
        /\ ending' \in BOOLEAN
  /\ UNCHANGED <<devVars, wireVars, speechStarted, audioStarted, sentences>>

\* speak_fast_reply: the reply's device action ...
FastAction ==
  /\ core = "acting"
  /\ Say(<<"action">>)
  /\ core' = "telling"
  /\ UNCHANGED <<devVars, up, upClosed, got, downClosed, speechStarted,
                 audioStarted, fast, ending, trailing, sentences>>

\* ... and its text.
FastText ==
  /\ core = "telling"
  /\ Say(<<"reply-token">>)
  /\ core' = "voicing"
  /\ UNCHANGED <<devVars, up, upClosed, got, downClosed, speechStarted,
                 audioStarted, fast, ending, trailing, sentences>>

\* System-2: the LLM's next token, after the device actions its tools queued; a
\* sentence may have formed.
LlmToken ==
  /\ core = "generating"
  /\ sentences > 0
  /\ sentences' = sentences - 1
  /\ \E actions \in {<< >>, <<"action">>} : Say(actions \o <<"reply-token">>)
  /\ core' \in {"generating", "voicing"}
  /\ UNCHANGED <<devVars, up, upClosed, got, downClosed, speechStarted,
                 audioStarted, fast, ending, trailing>>

\* Some of the reply has come.
TokenRelayed == \E i \in 1 .. Len(sent) : sent[i] = "reply-token"

\* One token may complete several sentences.
SameToken ==
  /\ core = "generating"
  /\ sentences > 0
  /\ TokenRelayed
  /\ sentences' = sentences - 1
  /\ core' = "voicing"
  /\ UNCHANGED <<devVars, wireVars, speechStarted, audioStarted, fast, ending,
                 trailing>>

\* The stream ends: the actions left over, then the trailing clause if any.
LlmEnds ==
  /\ core = "generating"
  /\ \E actions \in {<< >>, <<"action">>} : Say(actions)
  /\ \/ core' = "voicing" /\ trailing' = TRUE /\ TokenRelayed
     \/ core' = "inviting" /\ UNCHANGED trailing
  /\ UNCHANGED <<devVars, up, upClosed, got, downClosed, speechStarted,
                 audioStarted, fast, ending, sentences>>

\* The LLM stalls past its budget; or its stream fails, the actions its tools
\* queued before that having been relayed.
LlmStalls ==
  /\ core = "generating"
  /\ \/ core' = "stalled" /\ Say(<< >>)
     \/ core' = "failing" /\ \E actions \in {<< >>, <<"action">>} : Say(actions)
  /\ UNCHANGED <<devVars, up, upClosed, got, downClosed, speechStarted,
                 audioStarted, fast, ending, trailing, sentences>>

-----------------------------------------------------------------------------
(* speak_chunk: one sentence through Piper.                                 *)

\* The sentence is spoken, or was nothing but decoration.
Spoken == core' = IF trailing THEN "inviting" ELSE "generating"

NothingToSay ==
  /\ core = "voicing"
  /\ Spoken
  /\ UNCHANGED <<devVars, wireVars, speechStarted, audioStarted, fast, ending,
                 trailing, sentences>>

\* Mutant of TtsStart: every sentence opens its own stream.
TtsStartEach ==
  /\ core = "voicing"
  /\ audioStarted' = TRUE
  /\ Say(<<"audio-start">>)
  /\ core' = "synthesizing"
  /\ UNCHANGED <<devVars, up, upClosed, got, downClosed, speechStarted, fast,
                 ending, trailing, sentences>>

\* Piper's audio-start: only the turn's first is forwarded.
TtsStart ==
  /\ core = "voicing"
  /\ audioStarted' = TRUE
  /\ Say(IF audioStarted THEN << >> ELSE <<"audio-start">>)
  /\ core' = "synthesizing"
  /\ UNCHANGED <<devVars, up, upClosed, got, downClosed, speechStarted, fast,
                 ending, trailing, sentences>>

TtsChunk ==
  /\ core = "synthesizing"
  /\ Len(sent) = 0 \/ sent[Len(sent)] # "audio-chunk"   \* one stands for many
  /\ Say(<<"audio-chunk">>)
  /\ UNCHANGED <<devVars, up, upClosed, got, downClosed, coreVars>>

\* Mutant of TtsEnd: the sentence's audio-stop is relayed.
TtsEndRelayed ==
  /\ core = "synthesizing"
  /\ Say(<<"audio-stop">>)
  /\ Spoken
  /\ UNCHANGED <<devVars, up, upClosed, got, downClosed, speechStarted,
                 audioStarted, fast, ending, trailing, sentences>>

\* Piper's audio-stop is swallowed.
TtsEnd ==
  /\ core = "synthesizing"
  /\ Quiet
  /\ Spoken
  /\ UNCHANGED <<devVars, up, upClosed, got, downClosed, speechStarted,
                 audioStarted, fast, ending, trailing, sentences>>

\* Piper is unreachable, stalls or fails.  A fast reply still closes with the
\* frames the display expects; System-2 ends on its stall or its error.
TtsFails ==
  /\ core \in {"voicing", "synthesizing"}
  /\ IF fast
       THEN core' = IF audioStarted THEN "inviting" ELSE "mute"
       ELSE core' \in {"stalled", "failing"}
  /\ UNCHANGED <<devVars, wireVars, speechStarted, audioStarted, fast, ending,
                 trailing, sentences>>

\* A write found the display gone: Delivery::DeviceClosed.
RelayStops ==
  /\ core \in {"acting", "voicing", "synthesizing"}
  /\ upClosed
  /\ core' = "closed"
  /\ downClosed' = TRUE
  /\ UNCHANGED <<devVars, up, upClosed, sent, got, speechStarted, audioStarted,
                 fast, ending, trailing, sentences>>

-----------------------------------------------------------------------------
(* Closing a reply.                                                         *)

\* emit_follow_up_and_stop: listen ...
Invite ==
  /\ core = "inviting"
  /\ Say(IF audioStarted /\ FollowUp /\ ~ending THEN <<"listen">> ELSE << >>)
  /\ core' = "stopping"
  /\ UNCHANGED <<devVars, up, upClosed, got, downClosed, speechStarted,
                 audioStarted, fast, ending, trailing, sentences>>

\* ... then the audio-stop, if a stream is open.
StopReply ==
  /\ core = "stopping"
  /\ Say(IF audioStarted THEN <<"audio-stop">> ELSE << >>)
  /\ core' = "between"
  /\ UNCHANGED <<devVars, up, upClosed, got, downClosed, speechStarted,
                 audioStarted, fast, ending, trailing, sentences>>

\* A fast reply Piper never began to speak.
StopMute ==
  /\ core = "mute"
  /\ Say(<<"audio-stop">>)
  /\ core' = "between"
  /\ UNCHANGED <<devVars, up, upClosed, got, downClosed, speechStarted,
                 audioStarted, fast, ending, trailing, sentences>>

\* Mutant of StopStalled: a stall ends the turn without a word.
StallQuietly ==
  /\ core = "stalled"
  /\ core' = "between"
  /\ UNCHANGED <<devVars, wireVars, speechStarted, audioStarted, fast, ending,
                 trailing, sentences>>

\* A stall in the reply ends the turn with the usual frame.
StopStalled ==
  /\ core = "stalled"
  /\ Say(<<"audio-stop">>)
  /\ core' = "between"
  /\ UNCHANGED <<devVars, up, upClosed, got, downClosed, speechStarted,
                 audioStarted, fast, ending, trailing, sentences>>

\* An error closes the turn the same way, and then the connection.
StopFailing ==
  /\ core = "failing"
  /\ Say(<<"audio-stop">>)
  /\ core' = "closed"
  /\ downClosed' = TRUE
  /\ UNCHANGED <<devVars, up, upClosed, got, speechStarted, audioStarted, fast,
                 ending, trailing, sentences>>

\* watch_for_barge_in, racing the reply: an interrupt drops it; the end of the
\* connection too, and closes the Core's side; other frames are ignored.
WatcherReads ==
  /\ core \in DrivePcs
  /\ \/ CoreReads("interrupt") /\ core' = "between"
     \/ \E f \in UpFrames \ {"interrupt"} : CoreReads(f) /\ core' = core
  /\ UNCHANGED <<devVars, upClosed, sent, got, downClosed, speechStarted,
                 audioStarted, fast, ending, trailing, sentences>>

WatcherSeesClose ==
  /\ core \in DrivePcs
  /\ up = << >>
  /\ upClosed
  /\ core' = "closed"
  /\ downClosed' = TRUE
  /\ UNCHANGED <<devVars, up, upClosed, sent, got, speechStarted, audioStarted,
                 fast, ending, trailing, sentences>>

\* handle_connection's loop after the turn: stray frames, then the close.
BetweenTurns ==
  /\ core = "between"
  /\ \/ /\ \E f \in UpFrames : CoreReads(f)
        /\ UNCHANGED <<core, downClosed>>
     \/ /\ up = << >>
        /\ upClosed
        /\ core' = "closed"
        /\ downClosed' = TRUE
        /\ UNCHANGED up
  /\ UNCHANGED <<devVars, upClosed, sent, got, speechStarted, audioStarted,
                 fast, ending, trailing, sentences>>

Core ==
  \/ CoreHearsChunk \/ CoreSkips \/ CoreSeesClose \/ CoreIdleTimeout
  \/ CoreListenFails \/ SttOnSilence \/ SttTranscript
  \/ CloseQuietly \/ Enroll \/ Decide \/ FastAction \/ FastText
  \/ LlmToken \/ SameToken \/ LlmEnds \/ LlmStalls
  \/ NothingToSay \/ TtsStart \/ TtsChunk \/ TtsEnd \/ TtsFails \/ RelayStops
  \/ Invite \/ StopReply \/ StopMute \/ StopStalled \/ StopFailing
  \/ WatcherReads \/ WatcherSeesClose \/ BetweenTurns

WireNext == Device \/ Core

\* The display's watchdog; the Core's deadlines on its reads, on the LLM and
\* on Piper.
WireFairness == WF_exchangeVars(DevTimeout) /\ WF_exchangeVars(Core)

WireSpec == WireInit /\ [][WireNext]_exchangeVars /\ WireFairness

-----------------------------------------------------------------------------
\* The types; and a task that has returned has dropped its end of the
\* connection, which no other step does.
WireTypeOK ==
  /\ upClosed <=> dev = "idle"
  /\ downClosed <=> core = "closed"
  /\ dev \in DevPcs
  /\ ended \in Endings
  /\ torn \in BOOLEAN
  /\ chunks \in 0 .. MaxChunks
  /\ up \in Seq(UpFrames)
  /\ upClosed \in BOOLEAN
  /\ sent \in Seq(DownFrames)
  /\ got \in 0 .. Len(sent)
  /\ downClosed \in BOOLEAN
  /\ core \in CorePcs
  /\ speechStarted \in BOOLEAN
  /\ audioStarted \in BOOLEAN
  /\ fast \in BOOLEAN
  /\ ending \in BOOLEAN
  /\ trailing \in BOOLEAN
  /\ sentences \in 0 .. MaxSentences

Places(f) == {i \in 1 .. Len(sent) : sent[i] = f}

\* The display ends its turn at the first audio-stop it sees in SPEAKING, and
\* then nothing of the reply may be missing: no sentence cut off, no
\* invitation to go on left behind.
WholeReply == ended = "stop" => got = Len(sent)

\* However many sentences Piper speaks, the display is given one audio stream:
\* one audio-start, before any chunk of audio and before the invitation to
\* listen, which waits for that stream to drain.
OneAudioStream ==
  /\ \A i, j \in Places("audio-start") : i = j
  /\ \A i \in Places("audio-chunk") \cup Places("listen") :
       \E j \in Places("audio-start") : j < i

\* The Core has left the turn, the display has read all it will ever get and
\* still waits: only its watchdog can end its turn.
Stranded(where) ==
  /\ core = "between"
  /\ dev = where
  /\ ~torn
  /\ got = Len(sent)

\* A reply that began to be heard always releases the display, whether it
\* completes, stalls or fails.
HeardReplyReleases == audioStarted => ~Stranded("speaking")

\* A turn in which nobody spoke releases the display at once.
SilentTurnSleeps ==
  core = "between" /\ sent = <<"audio-stop">> => ~Stranded("streaming")
=============================================================================
