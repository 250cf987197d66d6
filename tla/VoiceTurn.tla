------------------------------ MODULE VoiceTurn ------------------------------
(****************************************************************************)
(* The display's voice turns: engine/net.rs with the playback ring it       *)
(* drives.  Three threads meet here.                                        *)
(*                                                                          *)
(*  - the capture thread scores audio and, on a wake word, runs             *)
(*    Network::on_wake_word; it also runs Drop for Network at shutdown;     *)
(*  - one tokio worker thread polls every turn task and every drain         *)
(*    watcher: a task keeps the worker until its next await;                *)
(*  - the audio callback drains the playback ring.                          *)
(*                                                                          *)
(* Each access to a shared atomic or lock is one action, so the capture     *)
(* thread may run between any two of them (the two channel slots are set    *)
(* and cleared together: no thread reads both, so none can tell).  Two      *)
(* worker tasks interleave only where the code awaits (see MayRun).         *)
(****************************************************************************)
EXTENDS Integers, Sequences

CONSTANTS
  MaxTurns,   \* bound: wake words plus follow-up requests in one behaviour,
              \* and so the turn tasks they can spawn
  RingCap     \* blocks of reply audio the playback ring holds

ASSUME MaxTurnsAssumption == MaxTurns \in Nat
ASSUME RingCapAssumption == RingCap \in Nat \ {0}

Turns == 1 .. MaxTurns   \* turn tasks, numbered as they are spawned
None == 0

VARIABLES
  active,      \* Shared::active
  pendingRestart, \* Shared::pending_restart
  pcmTx,       \* the turn whose sender is in Shared::pcm_tx, or None
  interruptTx, \* the turn whose sender is in Shared::interrupt_tx, or None
  capture,     \* where the capture thread is
  turn,        \* [Turns -> where that turn task is]
  followup,    \* [Turns -> was it opened without a wake word]
  interrupted, \* [Turns -> is a message in its interrupt channel]
  spoke,       \* [Turns -> has TTS begun]
  wantsFollowup, \* [Turns -> pending_followup_depth > 0]
  watcher,     \* [Turns -> where the drain watcher it left behind is]
  ring,        \* queued reply audio: the turn of each block, oldest first
  flush,       \* PlaybackSink::flush
  wedged,      \* the output callback has stopped running
  budget       \* openings the environment may still ask for

captureVars == <<capture>>
slotVars    == <<active, pendingRestart, pcmTx, interruptTx>>
turnVars    == <<turn, followup, interrupted, spoke, wantsFollowup>>
audioVars   == <<ring, flush, wedged>>
vars == <<slotVars, captureVars, turnVars, watcher, audioVars, budget>>

-----------------------------------------------------------------------------
(* Locations.                                                               *)

CapturePcs == {"scoring", "flushed", "claimed", "refused", "asked",
               "dropping", "hungUp", "gone"}

\* A turn in one of these still has run_turn_task or its clean-up up to
\* active.store(false) ahead of it.
LivePcs == {"resolving", "connecting", "streaming", "speaking", "parked",
            "returned", "cleared"}

TurnPcs == LivePcs \cup {"unborn", "idle", "restarting", "claimed", "done"}

\* Where a turn task sits between two steps with no await: it has the worker.
HeldPcs == {"parked", "returned", "cleared", "idle", "restarting", "claimed"}

WatcherPcs == {"none", "draining", "checked", "claimed", "over"}

Live(t) == turn[t] \in LivePcs

\* Network exists and Drop has not begun.
Up == capture \notin {"dropping", "hungUp", "gone"}

\* Task t may be polled: no other task is on the single worker thread.
MayRun(t) ==
  /\ capture # "gone"
  /\ \A u \in Turns : u # t => turn[u] \notin HeldPcs
  /\ \A u \in Turns : watcher[u] \notin {"checked", "claimed"}

MayWatch(t) ==
  /\ capture # "gone"
  /\ \A u \in Turns : turn[u] \notin HeldPcs
  /\ \A u \in Turns : u # t => watcher[u] \notin {"checked", "claimed"}

-----------------------------------------------------------------------------
Init ==
  /\ active = FALSE
  /\ pendingRestart = FALSE
  /\ pcmTx = None
  /\ interruptTx = None
  /\ capture = "scoring"
  /\ turn = [t \in Turns |-> "unborn"]
  /\ followup = [t \in Turns |-> FALSE]
  /\ interrupted = [t \in Turns |-> FALSE]
  /\ spoke = [t \in Turns |-> FALSE]
  /\ wantsFollowup = [t \in Turns |-> FALSE]
  /\ watcher = [t \in Turns |-> "none"]
  /\ ring = << >>
  /\ flush = FALSE
  /\ wedged = FALSE
  /\ budget = MaxTurns

\* Shared::spawn_turn for task u, after the caller won `active`: fresh channels,
\* then the task is handed to the runtime.
SpawnTurn(u, isFollowup) ==
  /\ turn[u] = "unborn"
  /\ \A v \in Turns : v < u => turn[v] # "unborn"
  /\ pcmTx' = u
  /\ interruptTx' = u
  /\ followup' = [followup EXCEPT ![u] = isFollowup]

-----------------------------------------------------------------------------
(* The capture thread: Network::on_wake_word.                               *)

\* The detector fired: pb.clear().
WakeFlush ==
  /\ capture = "scoring"
  /\ budget > 0
  /\ capture' = "flushed"
  /\ flush' = TRUE
  /\ budget' = budget - 1
  /\ UNCHANGED <<slotVars, turnVars, watcher, ring, wedged>>

\* active.compare_exchange(false, true) succeeds ...
WakeClaim ==
  /\ capture = "flushed"
  /\ ~active
  /\ active' = TRUE
  /\ capture' = "claimed"
  /\ UNCHANGED <<pendingRestart, pcmTx, interruptTx, turnVars, watcher,
                 audioVars, budget>>

\* ... and the thread spawns the turn.
WakeSpawn(u) ==
  /\ capture = "claimed"
  /\ SpawnTurn(u, FALSE)
  /\ turn' = [turn EXCEPT ![u] = "resolving"]
  /\ capture' = "scoring"
  /\ UNCHANGED <<active, pendingRestart, interrupted, spoke, wantsFollowup,
                 watcher, audioVars, budget>>

\* The exchange fails: a turn is in flight.
WakeRefused ==
  /\ capture = "flushed"
  /\ active
  /\ capture' = "refused"
  /\ UNCHANGED <<slotVars, turnVars, watcher, audioVars, budget>>

WakeAsk ==
  /\ capture = "refused"
  /\ pendingRestart' = TRUE
  /\ capture' = "asked"
  /\ UNCHANGED <<active, pcmTx, interruptTx, turnVars, watcher, audioVars,
                 budget>>

\* try_send on whatever interrupt_tx holds now; nothing if it holds None.
WakeInterrupt ==
  /\ capture = "asked"
  /\ capture' = "scoring"
  /\ interrupted' = [t \in Turns |-> interrupted[t] \/ t = interruptTx]
  /\ UNCHANGED <<slotVars, turn, followup, spoke, wantsFollowup, watcher,
                 audioVars, budget>>

\* Drop for Network, on the same thread once run_loop has left its loop.  The
\* slot is freed first, whoever holds it ...
DropSlot ==
  /\ capture = "scoring"
  /\ active' = FALSE
  /\ capture' = "dropping"
  /\ UNCHANGED <<pendingRestart, pcmTx, interruptTx, turnVars, watcher,
                 audioVars, budget>>

\* ... then the restart is forgotten, the PCM sender dropped and the current
\* turn told to stop.
DropChannels ==
  /\ capture = "dropping"
  /\ pendingRestart' = FALSE
  /\ pcmTx' = None
  /\ interrupted' = [t \in Turns |-> interrupted[t] \/ t = interruptTx]
  /\ capture' = "hungUp"
  /\ UNCHANGED <<active, interruptTx, turn, followup, spoke, wantsFollowup,
                 watcher, audioVars, budget>>

\* The runtime drops once the worker has finished its current poll; every
\* task still waiting is aborted where it stands.
DropRuntime ==
  /\ capture = "hungUp"
  /\ \A t \in Turns : /\ turn[t] \notin HeldPcs
                      /\ watcher[t] \notin {"checked", "claimed"}
  /\ capture' = "gone"
  /\ UNCHANGED <<slotVars, turnVars, watcher, audioVars, budget>>

-----------------------------------------------------------------------------
(* The turn task: run_turn_task, then the clean-up in spawn_turn.           *)

\* run_turn_task's last step: it reads what the turn left and, when it spoke
\* or was asked for a follow-up, spawns a detached drain watcher.
LeaveRunTurn(t) ==
  /\ turn' = [turn EXCEPT ![t] = "returned"]
  /\ watcher' = [watcher EXCEPT
       ![t] = IF spoke[t] \/ wantsFollowup[t] THEN "draining" ELSE "none"]

Advance(t, from, to) ==
  /\ turn[t] = from
  /\ MayRun(t)
  /\ turn' = [turn EXCEPT ![t] = to]

\* wyoming::resolve answers; WyomingConnection::connect succeeds.
Resolved(t) ==
  /\ Advance(t, "resolving", "connecting")
  /\ UNCHANGED <<slotVars, captureVars, followup, interrupted, spoke,
                 wantsFollowup, watcher, audioVars, budget>>

Connected(t) ==
  /\ Advance(t, "connecting", "streaming")
  /\ UNCHANGED <<slotVars, captureVars, followup, interrupted, spoke,
                 wantsFollowup, watcher, audioVars, budget>>

\* Either fails: run_turn_task returns early, before any reply.
NoConnection(t) ==
  /\ turn[t] \in {"resolving", "connecting"}
  /\ MayRun(t)
  /\ LeaveRunTurn(t)
  /\ UNCHANGED <<slotVars, captureVars, followup, interrupted, spoke,
                 wantsFollowup, audioVars, budget>>

\* A select! arm of run_turn other than the interrupt: the select is biased,
\* so the arm runs only while the interrupt channel is empty.
Polled(t, state) ==
  /\ turn[t] = state
  /\ ~interrupted[t]
  /\ MayRun(t)

Transcript(t) ==
  /\ Polled(t, "streaming")
  /\ turn' = [turn EXCEPT ![t] = "speaking"]
  /\ UNCHANGED <<slotVars, captureVars, followup, interrupted, spoke,
                 wantsFollowup, watcher, audioVars, budget>>

AudioStart(t) ==
  /\ Polled(t, "speaking")
  /\ ~spoke[t]
  /\ spoke' = [spoke EXCEPT ![t] = TRUE]
  /\ UNCHANGED <<slotVars, captureVars, turn, followup, interrupted,
                 wantsFollowup, watcher, audioVars, budget>>

\* anamanti-listen: reopen the mic after this reply.
Listen(t) ==
  /\ Polled(t, "speaking")
  /\ ~wantsFollowup[t]
  /\ budget > 0
  /\ budget' = budget - 1
  /\ wantsFollowup' = [wantsFollowup EXCEPT ![t] = TRUE]
  /\ UNCHANGED <<slotVars, captureVars, turn, followup, interrupted, spoke,
                 watcher, audioVars>>

\* An audio-chunk: submit_pcm queues it, or parks the worker on a full ring.
AudioChunk(t) ==
  /\ Polled(t, "speaking")
  /\ spoke[t]
  /\ IF Len(ring) < RingCap
       THEN /\ ring' = Append(ring, t)
            /\ turn' = turn
       ELSE /\ turn' = [turn EXCEPT ![t] = "parked"]
            /\ ring' = ring
  /\ UNCHANGED <<slotVars, captureVars, followup, interrupted, spoke,
                 wantsFollowup, watcher, flush, wedged, budget>>

\* The callback made room: the rest of the block goes in.
Unparked(t) ==
  /\ Advance(t, "parked", "speaking")
  /\ Len(ring) < RingCap
  /\ ring' = Append(ring, t)
  /\ UNCHANGED <<slotVars, captureVars, followup, interrupted, spoke,
                 wantsFollowup, watcher, flush, wedged, budget>>

\* Mutant of BlockDropped: submit_pcm waits for room without a deadline.
BlockNeverDropped(t) == FALSE /\ Advance(t, "parked", "speaking")

\* max_backpressure ran out, which takes a stopped callback: the block is lost.
BlockDropped(t) ==
  /\ Advance(t, "parked", "speaking")
  /\ wedged
  /\ Len(ring) = RingCap
  /\ UNCHANGED <<slotVars, captureVars, followup, interrupted, spoke,
                 wantsFollowup, watcher, audioVars, budget>>

\* The TTS audio-stop; or the socket closed, the watchdog fired, a read or a
\* write failed, or the PCM sender is gone.
ReplyEnds(t) ==
  /\ Polled(t, "speaking")
  /\ LeaveRunTurn(t)
  /\ UNCHANGED <<slotVars, captureVars, followup, interrupted, spoke,
                 wantsFollowup, audioVars, budget>>

TurnAbandoned(t) ==
  /\ Polled(t, "streaming")
  /\ LeaveRunTurn(t)
  /\ UNCHANGED <<slotVars, captureVars, followup, interrupted, spoke,
                 wantsFollowup, audioVars, budget>>

\* The interrupt arm: anamanti-interrupt goes up, Stop ends the turn.
BargedIn(t) ==
  /\ turn[t] \in {"streaming", "speaking"}
  /\ interrupted[t]
  /\ MayRun(t)
  /\ LeaveRunTurn(t)
  /\ UNCHANGED <<slotVars, captureVars, followup, interrupted, spoke,
                 wantsFollowup, audioVars, budget>>

\* Mutant of ClearChannels: the senders of the finished turn stay installed.
KeepChannels(t) ==
  /\ Advance(t, "returned", "cleared")
  /\ UNCHANGED <<slotVars, captureVars, followup, interrupted, spoke,
                 wantsFollowup, watcher, audioVars, budget>>

\* The clean-up, one shared access at a time: the channels ...
ClearChannels(t) ==
  /\ Advance(t, "returned", "cleared")
  /\ pcmTx' = None
  /\ interruptTx' = None
  /\ UNCHANGED <<active, pendingRestart, captureVars, followup, interrupted,
                 spoke, wantsFollowup, watcher, audioVars, budget>>

\* ... active.store(false) ...
ReleaseSlot(t) ==
  /\ Advance(t, "cleared", "idle")
  /\ active' = FALSE
  /\ UNCHANGED <<pendingRestart, pcmTx, interruptTx, captureVars, followup,
                 interrupted, spoke, wantsFollowup, watcher, audioVars, budget>>

\* Mutant of TakeRestart: the finished turn forgets the barge-in.
ForgetRestart(t) ==
  /\ Advance(t, "idle", "done")
  /\ UNCHANGED <<slotVars, captureVars, followup, interrupted, spoke,
                 wantsFollowup, watcher, audioVars, budget>>

\* ... pending_restart.swap(false) ...
TakeRestart(t) ==
  /\ Advance(t, "idle", IF pendingRestart THEN "restarting" ELSE "done")
  /\ pendingRestart' = FALSE
  /\ UNCHANGED <<active, pcmTx, interruptTx, captureVars, followup,
                 interrupted, spoke, wantsFollowup, watcher, audioVars, budget>>

\* Mutant of RestartClaim: a plain store where the exchange is.
RestartClaimBlind(t) ==
  /\ Advance(t, "restarting", "claimed")
  /\ active' = TRUE
  /\ UNCHANGED <<pendingRestart, pcmTx, interruptTx, captureVars, followup,
                 interrupted, spoke, wantsFollowup, watcher, audioVars, budget>>

\* ... and, when it was set, the exchange on active.
RestartClaim(t) ==
  /\ Advance(t, "restarting", IF active THEN "done" ELSE "claimed")
  /\ active' = TRUE
  /\ UNCHANGED <<pendingRestart, pcmTx, interruptTx, captureVars, followup,
                 interrupted, spoke, wantsFollowup, watcher, audioVars, budget>>

RestartSpawn(t, u) ==
  /\ turn[t] = "claimed"
  /\ MayRun(t)
  /\ SpawnTurn(u, FALSE)
  /\ turn' = [turn EXCEPT ![t] = "done", ![u] = "resolving"]
  /\ UNCHANGED <<active, pendingRestart, captureVars, interrupted, spoke,
                 wantsFollowup, watcher, audioVars, budget>>

-----------------------------------------------------------------------------
(* The drain watcher a finished turn left behind.                           *)

\* Mutant of Drained: the watcher does not wait for the ring.
DrainedAtOnce(t) ==
  /\ watcher[t] = "draining"
  /\ MayWatch(t)
  /\ watcher' = [watcher EXCEPT
       ![t] = IF wantsFollowup[t] /\ ~pendingRestart THEN "checked" ELSE "over"]
  /\ UNCHANGED <<slotVars, captureVars, turnVars, audioVars, budget>>

\* A poll that finds pending() = 0, or the 45 s cap, which takes a stopped
\* callback.  speaking_done is emitted, then, on a follow-up request, the
\* same poll looks at pending_restart.
Drained(t) ==
  /\ watcher[t] = "draining"
  /\ MayWatch(t)
  /\ ring = << >> \/ wedged
  /\ watcher' = [watcher EXCEPT
       ![t] = IF wantsFollowup[t] /\ ~pendingRestart THEN "checked" ELSE "over"]
  /\ UNCHANGED <<slotVars, captureVars, turnVars, audioVars, budget>>

\* Mutant of FollowupClaim: a plain store where the exchange is.
FollowupClaimBlind(t) ==
  /\ watcher[t] = "checked"
  /\ MayWatch(t)
  /\ watcher' = [watcher EXCEPT ![t] = "claimed"]
  /\ active' = TRUE
  /\ UNCHANGED <<pendingRestart, pcmTx, interruptTx, captureVars, turnVars,
                 audioVars, budget>>

\* The exchange on active: lost if a turn is in flight.
FollowupClaim(t) ==
  /\ watcher[t] = "checked"
  /\ MayWatch(t)
  /\ watcher' = [watcher EXCEPT ![t] = IF active THEN "over" ELSE "claimed"]
  /\ active' = TRUE
  /\ UNCHANGED <<pendingRestart, pcmTx, interruptTx, captureVars, turnVars,
                 audioVars, budget>>

FollowupSpawn(t, u) ==
  /\ watcher[t] = "claimed"
  /\ MayWatch(t)
  /\ SpawnTurn(u, TRUE)
  /\ turn' = [turn EXCEPT ![u] = "resolving"]
  /\ watcher' = [watcher EXCEPT ![t] = "over"]
  /\ UNCHANGED <<active, pendingRestart, captureVars, interrupted, spoke,
                 wantsFollowup, audioVars, budget>>

-----------------------------------------------------------------------------
(* The output callback.                                                     *)

\* flush.swap(false): drain the whole ring, play silence.
CallbackFlush ==
  /\ ~wedged
  /\ flush
  /\ flush' = FALSE
  /\ ring' = << >>
  /\ UNCHANGED <<slotVars, captureVars, turnVars, watcher, wedged, budget>>

CallbackPlay ==
  /\ ~wedged
  /\ ~flush
  /\ ring # << >>
  /\ ring' = Tail(ring)
  /\ UNCHANGED <<slotVars, captureVars, turnVars, watcher, flush, wedged,
                 budget>>

\* The device stops calling back (unplugged, stream error).
Wedge ==
  /\ ~wedged
  /\ wedged' = TRUE
  /\ UNCHANGED <<slotVars, captureVars, turnVars, watcher, ring, flush, budget>>

-----------------------------------------------------------------------------
Capture ==
  \/ WakeFlush \/ WakeClaim \/ WakeRefused \/ WakeAsk \/ WakeInterrupt
  \/ \E u \in Turns : WakeSpawn(u)

Shutdown == DropSlot \/ DropChannels \/ DropRuntime

TurnStep(t) ==
  \/ Resolved(t) \/ Connected(t) \/ NoConnection(t)
  \/ Transcript(t) \/ AudioStart(t) \/ Listen(t) \/ AudioChunk(t)
  \/ Unparked(t) \/ BlockDropped(t)
  \/ ReplyEnds(t) \/ TurnAbandoned(t) \/ BargedIn(t)
  \/ ClearChannels(t) \/ ReleaseSlot(t) \/ TakeRestart(t) \/ RestartClaim(t)
  \/ \E u \in Turns : RestartSpawn(t, u)

WatcherStep(t) ==
  \/ Drained(t) \/ FollowupClaim(t)
  \/ \E u \in Turns : FollowupSpawn(t, u)

Callback == CallbackFlush \/ CallbackPlay

Next ==
  \/ Capture
  \/ Shutdown
  \/ \E t \in Turns : TurnStep(t) \/ WatcherStep(t)
  \/ Callback
  \/ Wedge

Spec == Init /\ [][Next]_vars

\* What keeps the display going: the worker polls a task that can move, the
\* capture thread finishes what a wake word began, the callback runs until it
\* stops for good.  Of what lies outside: a resolve and a dial end (both have
\* timeouts), an utterance ends or the watchdog does it, and a reply ends
\* however many chunks it has, which is the one strong assumption.
Fairness ==
  /\ WF_vars(Capture /\ capture # "scoring")
  /\ WF_vars(Callback)
  /\ \A t \in Turns :
       /\ WF_vars(Resolved(t) \/ Connected(t) \/ NoConnection(t))
       /\ WF_vars(Transcript(t) \/ TurnAbandoned(t))
       /\ SF_vars(ReplyEnds(t))
       /\ SF_vars(BargedIn(t))
       /\ WF_vars(Unparked(t) \/ BlockDropped(t))
       /\ WF_vars(ClearChannels(t) \/ ReleaseSlot(t) \/ TakeRestart(t)
                    \/ RestartClaim(t) \/ \E u \in Turns : RestartSpawn(t, u))
       /\ WF_vars(WatcherStep(t))

FairSpec == Spec /\ Fairness

-----------------------------------------------------------------------------
(* Invariants.                                                              *)

\* The types; and the playback ring is never written past its capacity,
\* whatever the network hands submit_pcm.
TypeOK ==
  /\ active \in BOOLEAN
  /\ pendingRestart \in BOOLEAN
  /\ pcmTx \in Turns \cup {None}
  /\ interruptTx \in Turns \cup {None}
  /\ capture \in CapturePcs
  /\ turn \in [Turns -> TurnPcs]
  /\ followup \in [Turns -> BOOLEAN]
  /\ interrupted \in [Turns -> BOOLEAN]
  /\ spoke \in [Turns -> BOOLEAN]
  /\ wantsFollowup \in [Turns -> BOOLEAN]
  /\ watcher \in [Turns -> WatcherPcs]
  /\ ring \in Seq(Turns)
  /\ Len(ring) <= RingCap
  /\ flush \in BOOLEAN
  /\ wedged \in BOOLEAN
  /\ budget \in 0 .. MaxTurns

\* Everyone who has won `active` and not given it back: a live turn, or a
\* thread between winning the exchange and spawning its turn.
Holders ==
  {<<"turn", t>> : t \in {u \in Turns : Live(u)}}
    \cup {<<"restart", t>> : t \in {u \in Turns : turn[u] = "claimed"}}
    \cup {<<"watcher", t>> : t \in {u \in Turns : watcher[u] = "claimed"}}
    \cup (IF capture = "claimed" THEN {<<"capture", None>>} ELSE {})

\* Three independent openers (a wake word, a finishing turn's restart, a drain
\* watcher's follow-up) compete for one microphone and one speaker: until
\* shutdown at most one of them holds the turn slot, and `active` says so.
OneHolder ==
  Up => /\ \A x, y \in Holders : x = y
        /\ active <=> Holders # {}

\* A turn that can hear the user can be barged into: until shutdown the
\* channels the capture thread sees are those of the turn that is live, never
\* those of a turn that is over, and a turn in flight is never cut off from
\* them by the clean-up of the one before.
ChannelsReachLiveTurn ==
  Up => \A t \in Turns :
          /\ pcmTx = t <=> turn[t] \in LivePcs \ {"cleared"}
          /\ interruptTx = t <=> turn[t] \in LivePcs \ {"cleared"}

\* A follow-up turn opens the microphone with nobody touching the device, so
\* while it listens no reply audio may be left to play (unless the speaker
\* has stopped): it never transcribes the assistant's own voice.
FollowupMicIsQuiet ==
  Up => \A t \in Turns :
          /\ followup[t]
          /\ turn[t] \in {"resolving", "connecting", "streaming"}
          => ring = << >> \/ wedged

\* A wake word that finds a turn in flight is not lost: once it has asked for a
\* restart, some turn has still to look at pending_restart, and a turn it
\* interrupts has the restart waiting behind it.
BargeInIsKept ==
  Up => /\ pendingRestart =>
             \E t \in Turns : Live(t) \/ turn[t] \in {"claimed", "idle"}
        /\ \A t \in Turns :
             Live(t) /\ interrupted[t] /\ capture = "scoring" => pendingRestart

-----------------------------------------------------------------------------
(* Refinement: until shutdown the protocol on `active` is a slot with one   *)
(* holder.                                                                  *)

stageView ==
  IF ~Up THEN "closed"
  ELSE IF ~active THEN "free"
  ELSE IF \E t \in Turns : Live(t) THEN "held"
  ELSE "opening"

holdersView == IF Up THEN {t \in Turns : Live(t)} ELSE {}

servedView ==
  IF Up THEN {t \in Turns : turn[t] \notin LivePcs \cup {"unborn"}} ELSE {}

Slot == INSTANCE TurnSlot
          WITH stage <- stageView, holders <- holdersView, served <- servedView

SlotRefinement == Slot!Spec

-----------------------------------------------------------------------------
(* Liveness.                                                                *)

\* Every turn that is opened ends, whatever the network, the Core or the
\* speaker do, so the device never stays deaf behind a turn that hangs; and
\* its reply leaves the screen, for its drain watcher ends even when the
\* speaker has stopped.
TurnsEnd ==
  \A t \in Turns :
    /\ turn[t] = "resolving" ~> (turn[t] = "done" \/ ~Up)
    /\ watcher[t] = "draining" ~> (watcher[t] = "over" \/ ~Up)

\* A wake word spoken while a turn is still live when the restart is asked for
\* is answered: the restart is taken up.
RestartIsTaken ==
  (pendingRestart /\ \E t \in Turns : Live(t)) ~> (~pendingRestart \/ ~Up)
=============================================================================
