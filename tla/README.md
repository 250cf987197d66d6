# A TLA+ model of Anamanti

Anamanti is a voice assistant in two halves. The **display** (`anamanti-display`, an Echo Show: a Rust
engine under a Flutter UI) hears the wake word, streams the microphone and plays the reply. The **Core**
(`anamanti-core`, a Mac) transcribes, thinks, speaks, runs the house music and keeps the household's
settings and memory. They talk the Wyoming protocol over TCP. This directory holds TLA+ modules of the
parts where concurrency, failure and ordering decide whether that works, TLC configurations that check them
on small instances, and TLAPS proofs for every instance.

## 1. The system

### Components, their state and operations

| Component | Code | State | Operations | What makes it correct |
|---|---|---|---|---|
| Turn slot and turn tasks | display `rust/src/engine/net.rs` | `active`, `pending_restart`, `pcm_tx`, `interrupt_tx`; one task per turn, one drain watcher behind it | wake word, spawn, clean-up, restart, follow-up, shutdown | one turn at a time; a barge-in always reaches the live turn and is answered; a follow-up never hears the reply |
| Playback ring | display `rust/src/audio/playback.rs` | sample ring, `flush`, counters | submit (blocks when full), clear, callback | bounded; a stopped speaker delays a turn, never hangs it |
| Turn client | display `rust/src/wyoming/{client,state}.rs` | session state, socket | one `select!` over barge-in, watchdog, read, microphone | ends at the reply's end, never before and never long after |
| Turn pipeline | Core `orchestrator/{mod,vad_loop,speech_out}.rs` | position in the turn, `audio_started`, `speech_started` | listen, decide, generate, speak, close | one audio stream, closed once, whatever stalls or fails; interruptible |
| Connections | Core `server.rs` | one task per connection, its ducking queue, push registrations | turns, announcements, control, push channels | every duck has its restore |
| Music ducker | Core `music/mod.rs`, `webconfig/music.rs` | the record of prior volumes, behind an async mutex | duck, restore, manual change | the music comes back, at the level the user chose |
| Timers | display `engine/timer.rs`, the chips of `assistant_controller.dart` | table of timers, one task each, ringing flag, the screen's list | start, adjust, cancel, dismiss, fire, announce, engine restart | what rings can be turned off; a dismissed timer falls silent; the screen agrees |
| Timer mirror | Core `timer.rs`, notify branch of `server.rs`; the report of `push_channel.rs` | last report per display, with its connection | hello, report, close | the mirror shows the live connection's report, and nothing of a display that left |
| Push channels | Core `notify.rs`, `nowplaying_service.rs`, `weather/service.rs` | registry of senders, last pushed value | register, broadcast, repush, prune | every live display ends up with the newest value |
| Push client and discovery | display `wyoming/{push_channel,discovery}.rs` | back-off, cached endpoint | browse, dial, hello, listen, retry, stop | reconnects; a pinned display hears its own Core |
| Radio and its hand-off | Core `music/radio.rs`, `nowplaying_service.rs` | current station, mpv, the speakers' stream, op lock | play, step, stop, release, reload, boot reset | what is on is what is heard; one source at a time |
| Settings and boot | Core `settings.rs`, `config.rs` | live settings, rebuilt LLM, the file, seeded values | change, pair, enroll, persist, quarantine, boot | no change lost; tools match settings; a restart changes nothing |
| Household sign-in | Core `cadora/apps.rs`, `webconfig/household.rs` | hub session, single-use refresh token, settings' copy | use, refresh, link, unlink, configure | the Core never ends its own session; a linked app is usable |
| Memory and speakers | Core `memory/`, `speaker/`, `webconfig/speakers.rs` | facts, chat log, graph stores with offsets, aliases, voiceprints | turn, ingest, merge, forget, correct, switch backend, boot | nothing is skipped; a person's history follows them and nobody else |
| Wake-word gate, detector, mic sharing | display `engine/gate.rs`, `wakeword/`, `audio/` | threshold latches, ring buffer | observe a score | one detection per utterance |
| Conversation panel | display `assistant_controller.dart`, the events of `net.rs` and `engine/mod.rs` | phase of the turn, transcript and reply shown, whether audio plays | one handler per event | while a reply plays its words are up, and no others |
| Full screens and their context | display `assistant_controller.dart`, settings pages, `engine/mod.rs` | the view shown, auto-close timers, camera sessions, music screen; the engine's one context slot | show, dismiss, fetch, push, open a page | what a turn tells the Core is true of the screen |
| Enrollment | display `speaker_enroll_screen.dart`, Core `speaker/mod.rs` | the screen's stage and count; the Core's samples per session | speak a phrase, commit, cancel | no voice is learnt twice or kept unasked |
| Other UI controllers | display `lib/src/engine/*.dart` | screen state from the event stream | one handler per event | the screen agrees with the engine |
| Fast path, LLM, tools | Core `orchestrator/system1_handlers.rs`, `system1/`, `llm/` | none across turns but the history | decide, stream a reply | (what a reply says, not when) |
| Control protocol, pages, companion | Core `control.rs`, `webconfig/` | settings behind a lock | snapshot, change | a turn sees one snapshot |
| Services | Core `weather/`, `calendar/`, `camera/`, `home_assistant/`, ... | caches | fetch | independent of the turn |

`PROJECT.json` lists each with its files and its status.

### How they interact

A wake word makes the display's capture thread flush the ring and either win `active` and spawn a turn
task, or ask for a restart and interrupt the turn in flight. The task resolves a Core, dials it, and runs
`run_turn`: microphone frames up, frames down. The Core reads frames until its VAD or the no-speech window
finalizes the STT; relays the transcript (which moves the display from STREAMING to SPEAKING); answers by a
fast path or the LLM, sentence by sentence through Piper; invites a follow-up and sends one `audio-stop`,
which ends the display's turn. The reply is still playing out of the ring then, so a detached drain watcher
waits for it and, if invited, opens a follow-up turn with no wake word. The pipeline's Speaking event ducks
the music through a per-connection queue; the end of the turn, however it comes, queues the restore. The
ducker is shared by all connections and by the config page.

A turn may leave device actions behind it: timers, which then run on the display's one network worker beside
the turns. Apart from turns a display holds long-lived push channels to the Core (now playing, weather,
notifications), each a loop of browse, dial, hello, listen and wait; the notify channel carries the timers'
reports the other way. On the Core the now-playing tick reads both Spotify and the radio and arbitrates
between them.

What the household tells the Core goes through one settings store: pages, the pairing of phones and the
enrollment of voices each commit under its mutation lock, and every commit points the tools, the sign-in to
the family's apps and the graph memory at the new settings. What people say is logged under the speaker the
turn was identified as; an ingester takes the log into the active graph store, while the consoles merge,
forget and correct voices.

### What is hard

- three openers for one slot on two threads, with clean-up between release and restart;
- a capture thread, or the UI thread, that may run between any two accesses of a task;
- a blocking wait (`submit_pcm`) on the only runtime worker;
- reads that are not cancellation-safe inside `select!`, on both sides;
- deadlines, failures and barge-in at every await of the reply, also inside the radio's and the settings'
  sequences of changes;
- locks let go in the middle of a sequence (the ducker's restore, the timers' adjust), or decisions made
  before one is taken (the radio, the unlink page);
- values read, then awaited on, then used: aliases of a batch, a station to reload, a snapshot to push;
- several stores brought in line one after the other, with a stop of the Core between any two writes.

`PROJECT.json` lists these as hazards, each at its line, with the properties that cover it, and with a note
where a property names a case as its exception instead of catching it. Two more are real and have no
property: the display gives a turn up after 15 s without a frame while the Core lets the
LLM think for 150 s (`client.rs:356`), which an untimed model cannot tell apart; and two displays ducking
at once, of which the first to end restores the music under the second (`music/mod.rs:357`), which no text
of the repository promises otherwise.

## 2. Modules

| Module | Models | Theorems |
|---|---|---|
| `TurnSlot` | abstract: a slot that is free, being opened, held by one turn, or closed | |
| `VoiceTurn` | display: turn slot, turn tasks, drain watchers, ring and callback, shutdown | `VoiceTurn_proofs` |
| `TurnScreen` | `VoiceTurn` with its events and the conversation panel that consumes them | `VoiceTurn_proofs` |
| `MusicDucker` | Core: ducking tasks, ducker, snapserver, config page | `Music_proofs` |
| `TurnWire` | one turn on the wire: the display's session against the Core's pipeline | `Exchange_proofs` |
| `DisplayScreen` | display: full-screen views, music screen, settings pages and the context slot | `Exchange_proofs` |
| `MCVoiceTurn` | `TurnScreen` (and with it `VoiceTurn`), `TurnWire`, `DisplayScreen`, `HouseholdLink` and `MusicDucker` in one run, for safety | |
| `MCExchange` | `VoiceTurn`, `TurnWire` and `MusicDucker` with their fairness in one run | |
| `TimerTable` | abstract: a timer counts, rings, and is off for good | |
| `Timers` | display: timer table, countdown tasks, alarm, button, screen chips, engine restart | `Timers_proofs` |
| `TimerMirror` | the report of a display's timers over its reconnects, and the Core's mirror | `Channels_proofs` |
| `PushChannels` | Core: the now-playing and weather services and the registry of channels | `Channels_proofs` |
| `PushLink` | display: a push channel's loop, discovery, endpoint cache, pin | `Channels_proofs` |
| `RadioHandoff` | Core: radio player, Spotify, speakers' routing, now-playing tick | `Music_proofs` |
| `MCDisplays` | `TimerMirror`, `PushChannels`, `PushLink` and `RadioHandoff` in one run | |
| `SettingsStore` | Core: settings, commit, file, configuration, boot; pairing and enrollment | `SettingsStore_proofs` |
| `HouseholdLink` | Core: sign-in to the household apps, refresh tokens, link and unlink | `HouseholdLink_proofs` |
| `SpeakerMemory` | Core: facts, chat log, ingester, graph stores, aliases, corrections | `Speakers_proofs` |
| `Enrollment` | the enrollment screen, its turns, and the Core's sessions of samples | `Speakers_proofs` |
| `MCSettings` | `SettingsStore`, `SpeakerMemory` and `Enrollment` in one run | |

The modules meet at named steps. `VoiceTurn` sees of the network only that a turn gets a transcript, audio,
an invitation or an end; `TurnWire` refines exactly that stretch, from the display's `audio-start` to the
end of `run_turn`. `MusicDucker` sees of a turn only its first Speaking event and its end, `Timers` only
that one is active and which timer actions it brings, `TimerMirror` only that the table changed,
`SpeakerMemory` only who spoke, `DisplayScreen` only that a turn starts, `Enrollment` only what context
it starts with. They are checked apart: a product would multiply interleavings that share
no variable. `TurnScreen` alone extends another: its steps are those of `VoiceTurn` with the events they
emit, and the handlers. `MCVoiceTurn`, `MCExchange`, `MCDisplays` and `MCSettings` put several such parts in
one specification for that reason alone: a variable `focus`, chosen at the start, says which part moves while
the others rest in one of their initial states, so that the run visits the sum of the parts and not their
product. Because only one part ever moves, `MCExchange` writes a fairness condition on one part and one on
another as one condition on the disjunction of their steps, which says the same and is cheaper to check.

### VoiceTurn

Each access to a shared atomic or lock is an action, so the capture thread can come between any two. Names
follow the code: `WakeFlush`, `WakeClaim`, `WakeSpawn` or `WakeRefused`, `WakeAsk`, `WakeInterrupt` are
`on_wake_word`; `ClearChannels`, `ReleaseSlot`, `TakeRestart`, `RestartClaim`, `RestartSpawn` are the end of
`spawn_turn`'s task; `Drained`, `FollowupClaim`, `FollowupSpawn` are the drain watcher; `DropSlot`,
`DropChannels`, `DropRuntime` are `Drop`. The two channel slots are set and cleared in one step: no thread
reads both, so none can tell.

The runtime has one worker (`worker_threads(1)`), so two tasks interleave only where the code awaits:
`MayRun` and `MayWatch` say that nobody else is between two steps with no await. A parked `submit_pcm` is
such a place, since it sleeps on the worker. The ring holds blocks, each the audio of one `submit_pcm`;
`wedged` is a speaker whose callback has stopped for good, the only way the 45 s drain cap and the
back-pressure budget can run out, so the two deadlines are modelled by it. A display without a speaker, and
audio already handed to the operating system, are not modelled.

`TurnSlot` is what the display promises about its one microphone. The refinement maps `active` and the live
tasks to its stages: free, opening (somebody won the exchange and has not spawned yet), held, closed.

### TurnScreen

The engine's threads append to one stream; the UI thread handles its head whenever it likes (`events`). The
emitting steps (`DetectedEmitted`, `FollowupEmitted` ... `DrainedEmitted`, `StoppedEmitted`) are the steps of
`VoiceTurn` they belong to, in the order of the code, and the rest is `SilentStep`. `OnOpening`,
`OnConnecting` ... `OnSpeakingDone`, `OnDisconnected`, `OnStopped` are the cases of `_onEvent`. Words are
known by their turn. Left out: the local end-of-speech cue, status lines, spotlight and diagnostics, and the
engine's next start. `PanelWhileAudible` is the promise in the comment at `displayActive` ("the audio
outlives the turn"), and `excused` collects its four exceptions, each of them needed: a wake word, once it is
reported or once it opens its turn; a reply cut by a failed read or write whose queue still plays, though
`_onDisconnected` says that "on a failed turn nothing is playing"; the watcher of an older turn that reports
after a newer one began to speak; and words a turn sent after the wake word that ends it, which no opening
event of the next turn takes down. `uncleared` notes the turns whose words no opening event follows yet, and
`OpenedByWake` adds the turn that then starts over them; the stale restart of a lost wake word is one such
start. Two openings cannot show it, three do: a turn whose words stay, and one that begins over them.

### DisplayScreen

A handler of the UI thread is one action: it sets the views and their timers, `_emit` pushes the music's
context if that has changed (`Writes`, `Emitted`), then the handler pushes the contexts of its views in its
own order, and the slot keeps the last. The camera's stream is fetched in the meantime (`fetches`) and
folded in by `StreamArrives` if its session is still up. `MusicPush` leaves open which style a push makes
the display adopt. The settings pages write the slot as they come and go, `EngineStarts` replaces the
controller and not the slot, and `TurnStarts` reads it. `ContextTellsNoLies` lets the slot be empty after a
screen was closed over another one that is still up (a dismissal by voice empties it whatever is up, and the
music behind a closed view is not announced again): a turn then says less than it could, never something
false. A turn that starts between two writes of one handler is not modelled, nor are the font and timer
blocks, which have slots of their own.

### MusicDucker

One task per connection (`ConnectionDucking`) applies that connection's queue in order. Every request to the
snapserver is an action of its own, and with `Faults` it may fail, with or without having been carried out.
`duck` and `set_manual` hold the lock throughout and `restore` only while it takes the record (`LockFree`).
The two history variables are for the property only: `wanted` is what the user last chose for a client, and
`spoiled` the clients whose level was read or set in the middle of another task's restore, or whose request
failed. `ExactUnlessSpoiled` then says that these are the only ways a level can be lost, and `RestoreIsExact`
(which the code does not satisfy) that there are none.

### TurnWire

The display's actions are the arms of `run_turn`'s `select!`; the Core's are the awaits of the pipeline.
`sent` is everything the Core wrote and `got` how much of it the display has read, `up` what the Core has
still to read. TCP keeps order, and a close is seen after the data before it. A half-read frame dropped by
a `select!` is `torn`: the next read is an error. Text and PCM are abstracted away: a fast path, the LLM, a
diagnostics screen, an enrollment screen and an error are outcomes of `Decide`. One `audio-chunk` stands for
a run of them. Deadlines are untimed: a timeout may come whenever its wait is on.

### Timers

The runtime's one worker polls one task at a time, so a task begins a poll only with the worker free
(`WorkerFree`), an abort takes effect only at an await, and the UI thread (`DismissRemove`, `DismissAbort`,
`DismissEmit`) comes in anywhere. `Start`, `Adjust` with `Rearm` and `Cancel` are what a
turn's device actions call; a task sleeps, sets its ringing flag (`Fire`), sends `timer_finished`, plays the
bell unless a turn is active, asks the Core for the announcement once and plays it, and repeats. The request
(`SynthesisEnds`) may return a voice, fail, or never come back. Events
reach the screen in order and later (`events`, `chips`). `EngineFails` drops the runtime and its timers and
begins the ids again. `TimerTable` is the promise: the table maps to counting, ringing and off, and off is
final.

### TimerMirror

A display has one connection at a time; on the Core every connection is a task, and an old one may be
behind. The table is a version number. The watch's "seen" mark, the report built after it, what a lost
socket swallows and the first report after hello are steps of their own.

### PushChannels, PushLink, RadioHandoff

`PushChannels` keeps the two-step nature of every service operation: read the cached value, then register;
push, then store (weather the other way round); clone the snapshot, then push it again. `PushLink` is the
display's loop against Macs that go away silently, come back elsewhere or take over each other's address.
`RadioHandoff` has mpv, the speakers' routing and `current` as three states that the op lock is meant to
keep together, users whose decisions precede the lock, a voice turn that may be dropped at any await, and
the tick, which reloads a dropped stream without the lock.

### SettingsStore

Every change takes the mutation lock, copies and edits the live settings and rebuilds the tools (`Take`, by
way of `Apply`, `Mutate`, `Pair` or the enrollment's `EnsureAdds`), swaps the copy in (`Swap`) and writes it
through a temporary file and a rename (`Persist`). The file is good, bad or absent; `Boot` lays it over the
configuration and the environment (`Resolve`), folds the configured recipients back into the roster and
quarantines what it cannot read. Enrollment's voiceprint is committed to a database first and its roster
step comes later, under the lock. `want` (all accepted changes in order), `unlinked`, `dropped`, `unsaved`
and `unbuilt` are history.

### HouseholdLink

The server is external: a refresh token is spent by its first use, and a spent one ends the session. A
request or its answer may be lost. `refresher` is the hub's refresh lock; the page's link and unlink act on
settings they read before their awaits. `broken`, `orphans` and `crossed` record what is known to go wrong:
`crossed` also when an unlink of the app, on settings from before the link, leaves the household between the
link's join and its settings entry. That takes four requests to show.

### SpeakerMemory

A turn writes one fact and one record of the chat log under the speaker it was identified as. A merge,
forget or correction is a request with three writes: the registry's transaction (`Rename`, `Correct`), the
facts, the active graph store, the last in two batches. The ingester's run is step by step, from the batch
it reads to the offset it commits, against the aliases it loaded. A switch builds and replays the new store
(`SwitchBuilds`) before it swaps it in. A stop keeps what was flushed and perhaps more.

`HistoryFollowsItsPeople` states what the design intends, and `stray` collects the exceptions: the places
where a named race or failure is known to leave a fact or a record behind. Each is needed (without it TLC
finds the history that shows it), and a later boot takes back those its replay puts right:

- a fact stored by a turn that was identified before its speaker was merged away;
- the facts of a merge or correction whose SQLite step failed or was cut off by a stop: nothing retries it;
- the same, for a graph step that failed: the replay at the next activation mends it if the gone id still
  has a User node, and not if the store never gave it one. The comment at `graphrag_control.rs:601` (no
  User node, so nothing to move) overlooks `ingest_memory`, which writes the fact of an unanswered turn
  and creates no User node;
- records written under an alias snapshot that a merge has outrun, or after the gone id's User node was
  already a tombstone;
- two merges at once (A into B, B into C), the slower of which leaves its facts at B;
- a merge that commits while a switch is building: the new store misses it until its next activation;
- a correction, in every store but the active one that has taken the turn in already: none replays it.

`NeverSomeoneElses` has no exception: whatever races, what one person said is never shown as another's
unless somebody asked for it. Who a turn may be shown as (`Reach`) are the ids in every set that has all
speakers the turn was ever said to be by and that no merge leads out of. The comments at
`speaker/mod.rs:496-500` and `registry.rs:361-363` say a forgotten voice's history goes to the household;
the code moves it to `unknown`, and so does the model.

### Enrollment

A session is the screen that opened it. `Speak` starts a turn with the context of that moment; the sample
reaches the Core (`CoreTakesSample`) and the answer the screen (`ResultHeard`) whenever they do, or never,
and a barge-in leaves an answer unread. `Save` sends a commit; `SaveFails` is the display's deadline, after
which the request may still arrive; a cancel is sent once and may be lost. The verify turn and the answers
of an earlier session go to whatever screen is up, as in the code. `disturbed` and `late` record the known
ways to go wrong: a restart of the Core, a commit without an answer, an answer to an earlier screen, and a
sample that comes after its session has ended.

## 3. What each run checks

| Run | Instance | States | Shows |
|---|---|---|---|
| `voice_turn` | see below | 3,145,164 | tasks: `OneHolder`, `ChannelsReachLiveTurn`, `FollowupMicIsQuiet`, `TurnSlot` is implemented (`SlotRefinement`); panel: the words of a reply are up while it plays (`PanelWhileAudible`); wire: `WholeReply`, `OneAudioStream`, `HeardReplyReleases`; screen: `ContextTellsNoLies`, `ViewsAreTheirOwn`; apps: `SessionSurvives`, `LinkedIsUsable`; music: a restore is always owed while it is ducked (`RestoreIsOwed`), levels are exact but for the spoiled ones (`ExactUnlessSpoiled`) |
| `exchange` | 2 openings, ring of 1; 1 microphone frame, 2 sentences; 2 connections, 1 client, 2 replies, 1 manual change, faults | 116,595 | every turn and watcher ends (`TurnsEnd`), a restart is taken up (`RestartIsTaken`), display and Core let go of an exchange (`ExchangeEnds`), the music comes back (`MusicReturns`) |
| `lost_wake` | 2 openings, ring of 1 | stops within 600 | **violated**: a wake word can be lost (`BargeInIsKept`) |
| `ducker_exact` | 2 connections, 2 clients, no fault, no manual change | stops within 4,000 | **violated**: a restore is not exact across connections (`RestoreIsExact`) |
| `silent_turn` | 1 frame, 1 sentence | stops within 200 | **violated**: a silent turn leaves the display streaming (`SilentTurnSleeps`) |
| `timers` | 2 ids, 2 tasks, 1 label, 1 turn, 1 adjust, 1 engine failure | 240,576 | what rings can be turned off (`AlarmIsReachable`) and then falls silent (`RemovedFallsSilent`), the screen agrees (`ScreenAgreesUnlessDisturbed`), `TimerTable` is implemented, an alarm goes on until turned off unless its synthesis is never answered (`AlarmRepeats`) |
| `mute_alarm` | 1 timer, 1 turn | 281 | **violated**: an alarm falls mute with a Core that never answers (`AlarmOutlastsCore`) |
| `loud_timer` | 1 timer, 2 turns | stops within 500 | **violated**: an announcement plays into a turn (`AnnouncementYields`) |
| `displays` | see below | 379,571 | mirror: `MirrorAgreesUnlessOvertaken`, `ClosedIsForgotten`; pushes: `ScreensCatchUp`; channel: `PinnedHearsItsMac`, `ChannelComesBack`; radio: `StationIsHeard`, `NewStartIsHandedOff` |
| `settings` | see below, with symmetry | 2,084,215 | settings: `NoSaveIsLost`, `ToolsFollowSettings`, `FileAlwaysBoots`, `RestartChangesNothing`, `EnrolledIsMember`; memory: `NothingSkipped`, `HistoryFollowsItsPeople`, `NeverSomeoneElses`; enrollment: `NoVoiceIsKeptOrLearntTwice`, `ScreenIsHonest` |
| `unlinked_phone` | 1 person, 1 edit, 1 stop | stops within 200 | **violated**: an unlinked phone comes back (`UnlinkedStaysUnlinked`) |
| `diagnostics` | 2 tracks, no other view | stops within 200 | **violated**: a turn on the diagnostics page goes to the assistant (`DiagnosticsStayLocal`) |

Every property of a passing run has a mutant of the mapped code (a dropped exchange, a missing reset, a
relayed stop, an unbounded wait, an offset committed before the flush ...) that breaks it; see
`PROJECT.json`. The type invariants are theorems and are in no run, and so is `EntryHasOwner`
(`TimerMirror`), an ingredient of the mirror's invariant.

### The seven violations

- **lost_wake.** `on_wake_word` fails its exchange on `active`, and before it stores `pending_restart` the
  turn in flight clears its channels, frees the slot and looks at the flag. The wake word flushes the reply
  and then opens nothing; the flag stays behind, blocks the next follow-up, and restarts after the next
  turn. If another turn is opened in that window, the late `try_send` interrupts it.
- **ducker_exact.** `restore()` empties the record under the lock and writes the volumes after it. A second
  connection's `duck()` in between records levels that are still ducked and restores those later.
- **silent_turn.** On silence the Core sends a bare `audio-stop` with no transcript; the session ignores it
  in STREAMING, so only the 15 s watchdog closes the microphone.
- **mute_alarm.** After its first bell a ringing timer awaits the synthesis of its announcement, whose reply
  it reads without a deadline (`timer.rs:222-228`, `587`). A Core that hangs or vanishes meanwhile sends
  neither a frame nor an error, and the bell never sounds again, although the module promises a bell-only
  alarm without a Mac and repeats until the timer is turned off (`timer.rs:15-17`). `AlarmRepeats`, which
  holds, names this case and so shows that it is the only one.
- **loud_timer.** A ringing timer looks at `turn_active` before its bell, then awaits the synthesis of its
  announcement and plays it without looking again.
- **unlinked_phone.** The page unlinks the last phone. An empty list of recipients in the file leaves the
  configuration's standing at the next boot, and the fold gives it back to its member.
- **diagnostics.** The page announces itself once, in the slot that every other screen writes too. With the
  music in full-screen style the next track (or its end, or someone leaving the room) overwrites it, and what
  is then said on the page goes to speaker identification and the assistant.

### Known deviations without a run

These are behaviours the code really has, which the models contain and whose properties name them as
exceptions: the panel's, listed under TurnScreen; chips that stay on the screen after an engine failure
(`assistant_controller.dart:963-980`); a dismissal lost while an adjust has the timer out of the table
(`timer.rs:355-384`); a late report of an old connection that replaces the newer one's in the mirror until
its next; a now-playing screen that joins between a push and its store, or is sent an older snapshot again
by a volume change, until the next tick; the screen of a station that died with the Core while Spotify is
not linked; a push channel without reports that cannot notice a silent peer; a pinned display that dials a
cached address another Mac has taken over; radio commands that cross each other, a reload or a dropped turn;
links and unlinks that cross another request; an enrollment that counts an earlier session's samples, shows
"done" before the voice is saved, or offers a commit again whose answer was lost; a context left by a
replaced controller; and the list under SpeakerMemory.

### Bounds, and why they are enough

- `MaxTurns` of `VoiceTurn` bounds wake words and follow-ups together. Three are a turn, the one that
  replaces it and one more opener competing with both: the protocol's state is one slot, one flag and one
  pair of channels, so a further turn can only repeat the role of one of these. The theorems cover the rest.
- The panel takes part in behaviours with two openings: a turn and the one that overtakes it, by a wake word
  or a follow-up. A UI thread two events behind still holds an end of one turn beside an event of the next.
  The theorem about the panel has no bound on openings or on the backlog of events.
- `RingCap` 2 has empty, partly filled and full; 1 keeps empty and full, which is what liveness needs.
- Two connections make every pair of duck and restore overlap; two clients give a restore a middle (that the
  music returns is checked with one, whose restore can fail or be overtaken as well); two levels tell ducked
  from chosen; two replies let a second duck meet the first restore; one manual change meets each of them.
- The screen has one recipe at two places, two forecasts, a place, two cameras and two pieces of music, one of
  them live radio: each view can replace, retarget and be behind another; two camera openings give a fetch a
  session to be late for; one start of the engine leaves one context behind.
- Two sentences are needed for a stream to be reopened or cut; two microphone frames for one read and one
  on its way, or one that tears a frame.
- Two timers, one with a label, let a selector match one, both or none; two tasks let an adjust re-arm
  beside a second countdown; one turn, one adjust and one failure each meet every step of a countdown.
- `displays`: two connections and two changes for a report to be overtaken; two displays, one of which
  joins while the other listens; a queue of one to overflow; two Macs and two addresses to exchange, two
  moves for a Mac to leave and another to take its place; two users of the radio with two commands, one
  start of Spotify and one mishap.
- The sign-in has two callers, two apps, two identities and two tokens, so that a token can be stale, and four
  requests: a link, what it crosses, and a use of what they leave.
- `settings`: two people, one of whom the configuration seeds a phone for; three edits, one per writer or
  two of one across a third; one stop and one failed write or damaged file. Two voices, two stores, two
  consoles, two turns; up to three changes (one asked for beside another counts twice), two stops, switches
  or failures, and four events in all. Two samples for a commit stand for three, two screens make one late
  for the other, three turns and two commits allow a sample too many and a retry, and the Core restarts once.
  Voices, stores and consoles differ in name only and the run has no temporal property, so it uses symmetry
  over them; people do not.

Deadlock checking is off: with the budgets spent, or after shutdown, all these systems really stop.

### Fairness, and why the code justifies it

- **VoiceTurn**: the worker polls a task that can move; the capture thread finishes what a wake word began;
  the callback runs until it stops for good. Resolve and dial have timeouts; the watchdog ends an utterance.
  `ReplyEnds` and `BargedIn` are strongly fair because a chunk that arrives, or a wait for the worker,
  disables them again and again: that a reply ends however many chunks it has is the one strong assumption
  about the Core, which `TurnWire` examines. Nothing is assumed of wake words, shutdown or the network.
- **MusicDucker**: each snapserver request ends (`CONTROL_TIMEOUT`), each turn ends, and tokio's mutex is
  fair, so a task waiting for it again and again is served (strong fairness per task).
- **TurnWire**: the display's watchdog fires if nothing else ends the turn; the Core's deadlines on the
  turn, the LLM and Piper let its task move on.
- **Timers**: the worker serves each task that can move (strongly, because it is shared), turns end, and the
  UI thread finishes a dismissal. Nothing is assumed of the Core: the synthesis has no deadline in the code.
- **TimerMirror**: connection tasks run; a close is read after the data before it.
- **PushChannels**: tasks run and the periodic fetch succeeds in the end; displays keep dialling.
- **PushLink**: back-off and deadlines end; a browse that is repeated without end finds a Core that is there
  (strong fairness, the one assumption about the network).
- **RadioHandoff**: calls return, the op lock is fair, and the tick runs, which it does while a display is
  connected.

DisplayScreen, SettingsStore, HouseholdLink, SpeakerMemory and Enrollment are checked for safety only and
assume no fairness.

## 4. What is proved

Every safety property of the passing runs, the two refinements among them, is a theorem for every value of
the constants, and so are the type invariants. They follow from the named assumptions only: bounds that are
naturals, a ring of at least one block, a duck level among the levels, at least one client, app and settings
page, and names that do not collide with the markers of the models ("none", "unknown", "facts", "free",
"tick" and the settings' "cleared" and "null"). `...Invariance` in a module is the inductive invariant of a
component as a theorem of its specification; the properties below are consequences of it.

- **VoiceTurn_proofs**, the tasks: `TypeCorrect`, `OneHolderAlways`, `ChannelsAlwaysReachLiveTurn`,
  `FollowupMicAlwaysQuiet`, and `ImplementsTurnSlot` (`Spec => SlotRefinement`). `FollowupMicIsQuiet` is not
  inductive: that no audio is queued between the watcher's poll and its follow-up is the single worker's
  doing, which `DrainInv` records together with `SlotInv` (holder against holder: any two of live turn,
  claiming turn, claiming watcher and claiming capture thread exclude each other). The refinement takes each
  action to a step of `TurnSlot` or a stutter, by the same invariant.
- **VoiceTurn_proofs**, the panel: `PanelTypeCorrect` and `PanelAlwaysTells`, for any backlog of events.
  `PanelInv` follows a reply through the stream: its words are up, or among the unread events with nothing
  after them that takes them down (`ToldBy`, `SpeaksOn`); `WordsInv` says that those of earlier turns are
  gone once the panel has caught up (`Gone`), unless no opening event followed them. They need the order of
  the tasks (`OrderInv`, `HeardInv`), what the stream can hold (`StreamInv`), that a follow-up announces
  itself before anything else (`GreetedInv`), and that a turn still heard after another has been opened is
  one of the exceptions (`OvertakenInv`).
- **Music_proofs**, the ducker: `TypeCorrect`, `RestoreAlwaysOwed`, `RestoreAlwaysExact`. A task that records
  levels must know that its own connection still owes a restore; this follows from the order of its queue
  (`InOrder`: ducks and restores alternate, and the last request says whether the turn has ducked).
  `ExactInv` says at every step where the level the user chose is kept: in the record, in what a restore has
  still to write, in what the page's change will make of it (`Lands`), or in the volume; `LockInv` says
  whose turn it is to touch the record.
- **Music_proofs**, the radio: `RadioTypeCorrect` and `StationAlwaysHeard`. Four invariants, one per piece of
  state the op lock keeps together: what each user is about (`PathInv`), where the speakers point
  (`RouteInv`), what mpv plays (`TuneInv`), and when Spotify may (`SpotifyInv`).
- **Exchange_proofs**, the wire: `TypeCorrect`, `RepliesAreWhole`, `OneStreamAlways` and
  `HeardRepliesRelease`. `CoreWrites` sorts the Core's steps into four kinds (plain frames, opening the
  stream, relaying in it, stopping with it), and the invariant says for every position of `sent` that the
  stop is last, the start unique and first. That a heard reply releases the display needs more
  (`ReleaseInv`): an interrupt on the wire means that the display has left, no audio has started before a
  reply is decided, and a display that is speaking and in step has not read a stop.
- **Exchange_proofs**, the screen: `ScreenTypeCorrect`, `ContextNeverLies` and `ViewsAlwaysTheirOwn`. At most
  one view is up (`OneView`), its timers and stream are its own (`TimersFit`, `StreamFits`), and every
  handler that changes what is shown ends by writing the slot.
- **Timers_proofs**: `TypeCorrect`, `AlarmAlwaysReachable`, `RemovedAlwaysFallsSilent`,
  `ImplementsTimerTable` and `ScreenAlwaysAgrees`. The invariant relates each task that is alive to the table
  (its entry, a pending re-arm, or the button's hold on it), which an adjust breaks and restores across
  several steps, and says that the worker is in at most one poll. For the screen, `CalmInv` says of every
  timer what the unread events will make of its chip, as long as nothing disturbed the engine.
- **Channels_proofs**: of the mirror `TypeCorrect`, `EntryAlwaysHasOwner`, by the order of a connection's
  steps, and `MirrorAlwaysAgrees`: what was built since the last tick is the table unless a publication is
  still to come (`FrameInv`), and what was built is on its way or in the mirror unless another connection
  has reported since (`SaidInv`). Of the display's channel `ChannelTypeCorrect` and
  `PinnedAlwaysHearsItsMac`: the address the loop goes to belongs, or belonged, to a Mac the pin allows
  (`AddressInv`). Of the services `PushTypeCorrect`.
- **SettingsStore_proofs**: `ChangesAddUp`, `ToolsAlwaysFollow`, `AlwaysBootable`, `RestartIsIdentity`,
  `VoicesBelongToMembers` and `TypeCorrect`. The invariant says that at most one commit is in flight
  (`OneCommit`), that every candidate is sound (`AllSound`, `InFlight`), what the tools were built from
  (`ToolsInv`), what the file holds (`FileInv`), that nothing is under way while the Core is down, and where
  an enrolled voice is on its way into the roster (`Roster`). `RestartIsIdentity` rests on lemmas that
  overlay undoes persist.
- **HouseholdLink_proofs**: `LinkTypeCorrect` (with the holder of the refresh lock), `SessionAlwaysSurvives`
  and `LinkedAlwaysUsable`. The first invariant (`SessionInv`) says that while no rotation was lost, what hub
  and settings hold of a user is the server's latest token unless the lock's holder is just bringing a newer
  one, that this holder's token is the latest, and that a hub which has it already is only pointed elsewhere
  when the settings, too, name another user (`SinkFollows`). The second (`UsableInv`) says, unless a link was
  crossed, whose session the hub has, what each request that is linking or joining can have read, and that
  every link of the settings is one of the identity's households or about to be taken away (`MemberInv`).
- **Speakers_proofs**, the memory: `TypeCorrect`, which includes that the alias table stays one hop deep, and
  - `OffsetNeverSkips`, by `Kept`: what is durable is in the store, a run holds the records it went through,
    and at the commit they are durable; stores only grow (`Grows`);
  - `NeverAnyoneElses`: every set of ids that has all a turn was said to be by, and that no merge leads out
    of, also has each owner that a table leads to from inside it and that a request, a fact or a record
    names for the turn (`WithinInv`). Such a set is what `Reach` is made of, so no induction over merges is
    needed;
  - `HistoryAlwaysFollows`: every table and request, however old, leads where the aliases lead
    (`TablesInv`); a fact or record is its turn's rightful owner's, has a request under way that will bring
    it there, or is noted in `stray` (`FactsInv`, `NodesInv`); nothing is left under an id that is gone in
    the store that is served or in the one being built (`ServedInv`, `BuildInv`); and what the ingester is
    about to write is what its tables said (`WriteInv`).
- **Speakers_proofs**, the enrollment: `VoicesKeptAndLearntOnce` and `ScreenAlwaysHonest`, by where every
  sample, commit and cancel can be (`EnrollInvariance`).

Proving found two statements that no run had refuted and that were false beyond the bounds of their runs: the
panel's exceptions lacked the words that no opening event follows, and the sign-in's `crossed` lacked an
unlink that leaves the household a link has just joined. Both are in the models now, and so are the bounds
that show them where TLC can reach them (four requests).

### Only model-checked

What is left to TLC is liveness under fairness, which needs ENABLED and is beyond the prover: `TurnsEnd`,
`RestartIsTaken`, `ExchangeEnds`, `MusicReturns`, `AlarmRepeats`, `ClosedIsForgotten`, `ScreensCatchUp`,
`ChannelComesBack` and `NewStartIsHandedOff`. No module here needs RECURSIVE operators.

## 5. What is not modelled, and why

- **What a reply says**: the LLM, System-1, tools, prompts, STT, TTS and VAD are outcomes in `TurnWire`; so
  are the wake-word and voice networks and the audio arithmetic elsewhere.
- **Pure functions on text and numbers**: `DetectionGate::observe`, `voiced_onset_step`, `take_speakable`,
  `ids_matching` and the presence thresholds are sequential, have no partner to race, and are covered
  input by input by their unit tests.
- **Clients of services** (weather, calendar, home, cameras, places, recipes, Spotify's API, OAuth): requests
  and caches with no state shared with a turn but a reply text.
- **Parts of modelled files**: the many further settings fields, which behave as the key or the roster do;
  the catalogues and layout of the pages; recall and search in the memory, its review queue and entities;
  the registry's clips and embeddings; the shopping list and recipe search of the household apps; radio
  catalogue and titles; the notification service, which is `PushChannels` without a cached value.
- **Two steps of modelled parts**: a boot whose persisted embedding backend does not start falls back to the
  configured one (`graphrag_control.rs:301-313`), which in `SpeakerMemory` is a start and a switch; and
  `HouseholdLink` takes its settings write as reaching the file, which `SettingsStore` lets fail.
- **UI controllers** other than the conversation panel, the timer chips, the full screens and the enrollment
  screen: the music's volume and seek controls with their pending windows, the night schedule,
  notifications; camera images, presence and self-update. An engine start under an open enrollment screen,
  which goes on listening to the old controller, is left out.
- The frames' encoding, the companion app, the websites, the vendored `cpal`, cargokit,
  `video_player_android` and generated bridge code.

Of these, the memory's review queue and the music's volume controls would add most.
