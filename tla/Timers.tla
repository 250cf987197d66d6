------------------------------- MODULE Timers -------------------------------
(****************************************************************************)
(* The display's timers: TimerManager (engine/timer.rs), the screen's chips *)
(* (assistant_controller.dart) and the two threads that share the table.    *)
(*                                                                          *)
(* Each countdown is a task on the network runtime, whose one worker also   *)
(* runs the turn that sets, adjusts and cancels timers; the "Cancel timer"  *)
(* button comes from the UI thread.  A task gives up the worker only where  *)
(* it awaits, and an abort takes effect only there; the UI thread may come  *)
(* in between any two steps.  Durations are abstract: a sleep ends at any   *)
(* moment.                                                                  *)
(****************************************************************************)
EXTENDS Integers, Sequences, FiniteSets

CONSTANTS
  MaxIds,       \* bound: timers one engine sets
  MaxTasks,     \* bound: countdown tasks
  Labels,       \* labels a timer may carry
  NoLabel,      \* no label: a timer without a name, a cancel of "the timer"
  NoTask,       \* no entry in the table; nobody at the button
  MaxTurns,     \* bound: voice turns
  MaxAdjusts,   \* bound: adjust commands
  MaxFailures   \* bound: engines that fail and are started again

Ids == 1 .. MaxIds
Tasks == 1 .. MaxTasks

ASSUME IdsAssumption == MaxIds \in Nat \ {0}
ASSUME TasksAssumption == MaxTasks \in Nat /\ NoTask \notin Tasks
ASSUME LabelsAssumption == NoLabel \notin Labels
ASSUME BoundsAssumption ==
  MaxTurns \in Nat /\ MaxAdjusts \in Nat /\ MaxFailures \in Nat

AnyLabel == Labels \cup {NoLabel}

VARIABLES
  nextId,      \* Inner::next_id
  timers,      \* Inner::timers, the table: [Ids -> its task, or NoTask]
  pc,          \* [Tasks -> where it is]
  idOf,        \* [Tasks -> the timer it counts for]
  labelOf,     \* [Tasks -> its label]
  ringing,     \* TimerEntry::ringing of each task
  aborted,     \* TimerEntry::abort was called
  voice,       \* [Tasks -> its announcement: not asked for, none, at hand]
  rearm,       \* adjust: timers taken out of the table and not yet re-armed
  turnActive,  \* Inner::turn_active
  speaker,     \* Inner::playback is Some
  button,      \* what the UI thread is dismissing, and how far it is
  chips,       \* AssistantState.timers: the screen
  events,      \* the event stream from the engine to the screen
  budget,      \* turns, adjusts and failures still to come
  lateBells,   \* history: bells a task rang after it was aborted
  lateVoices   \* history: announcements it made after that

tableVars  == <<nextId, timers, rearm>>
taskVars   == <<pc, idOf, labelOf, ringing, aborted, voice>>
screenVars == <<button, chips>>
lateVars   == <<lateBells, lateVoices>>
vars == <<tableVars, taskVars, turnActive, speaker, screenVars, events, budget,
          lateVars>>

\* Where a task runs on the worker, and where it waits.
PollingPcs == {"starting", "fired", "looping", "bell", "announcing"}
WaitingPcs == {"queued", "counting", "asking", "pausing", "done"}
AlarmPcs ==
  {"fired", "looping", "bell", "asking", "announcing", "pausing", "done"}

WorkerFree == rearm = {} /\ \A t \in Tasks : pc[t] \notin PollingPcs
Set == {id \in Ids : timers[id] # NoTask}   \* the keys of the table
Rings(id) == ringing[timers[id]]

TimerEvents == [kind : {"started", "finished", "cancelled"}, ids : SUBSET Ids]

Idle == [stage |-> "idle", id |-> 1, task |-> NoTask]

TypeOK ==
  /\ nextId \in Nat \ {0} /\ timers \in [Ids -> Tasks \cup {NoTask}]
  /\ rearm \subseteq (Ids \X AnyLabel)
  /\ pc \in [Tasks -> {"unborn", "dead"} \cup PollingPcs \cup WaitingPcs]
  /\ idOf \in [Tasks -> Ids] /\ labelOf \in [Tasks -> AnyLabel]
  /\ ringing \in [Tasks -> BOOLEAN] /\ aborted \in [Tasks -> BOOLEAN]
  /\ voice \in [Tasks -> {"unasked", "none", "cached"}]
  /\ turnActive \in BOOLEAN /\ speaker \in BOOLEAN
  /\ button \in [stage : {"idle", "removed", "aborted"}, id : Ids,
                 task : Tasks \cup {NoTask}]
  /\ chips \in [Ids -> {"absent", "counting", "finished"}]
  /\ events \in Seq(TimerEvents)
  /\ budget \in [turns : Nat, adjusts : Nat, failures : Nat]
  /\ lateBells \in [Tasks -> Nat] /\ lateVoices \in [Tasks -> Nat]

-----------------------------------------------------------------------------
Init ==
  /\ nextId = 1
  /\ timers = [id \in Ids |-> NoTask]
  /\ rearm = {}
  /\ pc = [t \in Tasks |-> "unborn"]
  /\ idOf = [t \in Tasks |-> 1]
  /\ labelOf = [t \in Tasks |-> NoLabel]
  /\ ringing = [t \in Tasks |-> FALSE]
  /\ aborted = [t \in Tasks |-> FALSE]
  /\ voice = [t \in Tasks |-> "unasked"]
  /\ turnActive = FALSE
  /\ speaker \in BOOLEAN
  /\ button = Idle
  /\ chips = [id \in Ids |-> "absent"]
  /\ events = << >>
  /\ budget = [turns |-> MaxTurns, adjusts |-> MaxAdjusts,
               failures |-> MaxFailures]
  /\ lateBells = [t \in Tasks |-> 0] /\ lateVoices = [t \in Tasks |-> 0]

-----------------------------------------------------------------------------
(* The turn, on the worker: it hands timer commands to TimerManager::apply. *)

TurnBegins ==
  /\ ~turnActive /\ budget.turns > 0
  /\ turnActive' = TRUE
  /\ budget' = [budget EXCEPT !.turns = @ - 1]
  /\ UNCHANGED <<tableVars, taskVars, speaker, screenVars, events, lateVars>>

TurnEnds ==
  /\ turnActive /\ WorkerFree
  /\ turnActive' = FALSE
  /\ UNCHANGED <<tableVars, taskVars, speaker, screenVars, events, budget,
                 lateVars>>

\* spawn_countdown: the task is handed to the runtime, then entered in the
\* table.  The caller has the worker, so the task runs only after that.
SpawnCountdown(t, id, label) ==
  /\ pc[t] = "unborn"
  /\ \A u \in Tasks : u < t => pc[u] # "unborn"
  /\ pc' = [pc EXCEPT ![t] = "queued"]
  /\ idOf' = [idOf EXCEPT ![t] = id]
  /\ labelOf' = [labelOf EXCEPT ![t] = label]
  /\ timers' = [timers EXCEPT ![id] = t]

Start(t, label) ==
  /\ turnActive /\ WorkerFree
  /\ nextId \in Ids
  /\ SpawnCountdown(t, nextId, label)
  /\ nextId' = nextId + 1
  /\ UNCHANGED <<rearm, ringing, aborted, voice, turnActive, speaker,
                 screenVars, events, budget, lateVars>>

\* ids_matching
Matching(label) ==
  {id \in Set : label # NoLabel => labelOf[timers[id]] = label}

\* Mutant of AbortAll: the handles are dropped, which aborts nothing.
DropHandles(ids) == UNCHANGED aborted

AbortAll(ids) ==
  aborted' = [t \in Tasks |-> aborted[t] \/ \E id \in ids : timers[id] = t]

RemoveAll(ids) ==
  timers' = [id \in Ids |-> IF id \in ids THEN NoTask ELSE timers[id]]

\* "stop" silences what rings and leaves the countdowns.
ToCancel(label) ==
  LET ringingOnly == label = NoLabel /\ \E id \in Set : Rings(id)
  IN {id \in Matching(label) : ringingOnly => Rings(id)}

\* Mutant of Cancel: the screen is not told.
CancelQuietly(label) ==
  LET ids == ToCancel(label)
  IN /\ turnActive /\ WorkerFree
     /\ ids # {}
     /\ RemoveAll(ids)
     /\ AbortAll(ids)
     /\ UNCHANGED <<nextId, rearm, pc, idOf, labelOf, ringing, voice, events,
                    turnActive, speaker, screenVars, budget, lateVars>>

\* cancel: one lock from the look to the last event.
Cancel(label) ==
  LET ids == ToCancel(label)
  IN /\ turnActive /\ WorkerFree
     /\ ids # {}
     /\ RemoveAll(ids)
     /\ AbortAll(ids)
     /\ events' = Append(events, [kind |-> "cancelled", ids |-> ids])
     /\ UNCHANGED <<nextId, rearm, pc, idOf, labelOf, ringing, voice,
                    turnActive, speaker, screenVars, budget, lateVars>>

\* Mutant of Adjust: a timer that rings is re-armed too.
AdjustRinging(label) ==
  LET ids == Matching(label)
  IN /\ turnActive /\ WorkerFree
     /\ budget.adjusts > 0
     /\ ids # {}
     /\ Cardinality({t \in Tasks : pc[t] = "unborn"}) >= Cardinality(ids)
     /\ RemoveAll(ids)
     /\ AbortAll(ids)
     /\ rearm' = {<<id, labelOf[timers[id]]>> : id \in ids}
     /\ budget' = [budget EXCEPT !.adjusts = @ - 1]
     /\ UNCHANGED <<nextId, pc, idOf, labelOf, ringing, voice, turnActive,
                    speaker, screenVars, events, lateVars>>

\* adjust takes the countdowns out of the table under its lock ...
Adjust(label) ==
  LET ids == {id \in Matching(label) : ~Rings(id)}
  IN /\ turnActive /\ WorkerFree
     /\ budget.adjusts > 0
     /\ ids # {}
     /\ Cardinality({t \in Tasks : pc[t] = "unborn"}) >= Cardinality(ids)
     /\ RemoveAll(ids)
     /\ AbortAll(ids)
     /\ rearm' = {<<id, labelOf[timers[id]]>> : id \in ids}
     /\ budget' = [budget EXCEPT !.adjusts = @ - 1]
     /\ UNCHANGED <<nextId, pc, idOf, labelOf, ringing, voice, turnActive,
                    speaker, screenVars, events, lateVars>>

\* ... and arms each of them again after the lock.
Rearm(t, entry) ==
  /\ entry \in rearm
  /\ rearm' = rearm \ {entry}
  /\ SpawnCountdown(t, entry[1], entry[2])
  /\ UNCHANGED <<nextId, ringing, aborted, voice, turnActive, speaker,
                 screenVars, events, budget, lateVars>>

-----------------------------------------------------------------------------
(* A countdown task.                                                        *)

Goes(t, from, to) ==
  /\ pc[t] = from
  /\ pc' = [pc EXCEPT ![t] = to]

\* The runtime polls a task that waits: only if it was not aborted meanwhile.
Resumes(t, from, to) ==
  /\ WorkerFree /\ ~aborted[t]
  /\ Goes(t, from, to)

Emit(kind, id) == events' = Append(events, [kind |-> kind, ids |-> {id}])

FirstPoll(t) ==
  /\ Resumes(t, "queued", "starting")
  /\ UNCHANGED <<tableVars, idOf, labelOf, ringing, aborted, voice, turnActive,
                 speaker, screenVars, events, budget, lateVars>>

EmitStarted(t) ==
  /\ Goes(t, "starting", "counting")
  /\ Emit("started", idOf[t])
  /\ UNCHANGED <<tableVars, idOf, labelOf, ringing, aborted, voice, turnActive,
                 speaker, screenVars, budget, lateVars>>

\* The sleep is over.
Fire(t) ==
  /\ Resumes(t, "counting", "fired")
  /\ ringing' = [ringing EXCEPT ![t] = TRUE]
  /\ UNCHANGED <<tableVars, idOf, labelOf, aborted, voice, turnActive, speaker,
                 screenVars, events, budget, lateVars>>

EmitFinished(t) ==
  /\ Goes(t, "fired", IF speaker THEN "looping" ELSE "done")
  /\ Emit("finished", idOf[t])
  /\ UNCHANGED <<tableVars, idOf, labelOf, ringing, aborted, voice, turnActive,
                 speaker, screenVars, budget, lateVars>>

\* Mutant of CheckTurn: a turn in flight ends the alarm.
CheckTurnEnds(t) ==
  /\ Goes(t, "looping", IF turnActive THEN "done" ELSE "bell")
  /\ UNCHANGED <<tableVars, idOf, labelOf, ringing, aborted, voice, turnActive,
                 speaker, screenVars, events, budget, lateVars>>

\* A repeat is skipped while a turn is in flight.
CheckTurn(t) ==
  /\ Goes(t, "looping", IF turnActive THEN "pausing" ELSE "bell")
  /\ UNCHANGED <<tableVars, idOf, labelOf, ringing, aborted, voice, turnActive,
                 speaker, screenVars, events, budget, lateVars>>

\* submit_pcm of the bell; after the first one the Core is asked to speak.
Bell(t) ==
  /\ Goes(t, "bell", CASE voice[t] = "unasked" -> "asking"
                       [] voice[t] = "cached" -> "announcing"
                       [] voice[t] = "none" -> "pausing")
  /\ lateBells' = [lateBells EXCEPT ![t] = @ + (IF aborted[t] THEN 1 ELSE 0)]
  /\ UNCHANGED <<tableVars, idOf, labelOf, ringing, aborted, voice, turnActive,
                 speaker, screenVars, events, budget, lateVoices>>

\* synthesize_via_orchestrator comes back, with a voice or with an error.
SynthesisEnds(t, answer) ==
  /\ Resumes(t, "asking", IF answer = "cached" THEN "announcing" ELSE "pausing")
  /\ voice' = [voice EXCEPT ![t] = answer]
  /\ UNCHANGED <<tableVars, idOf, labelOf, ringing, aborted, turnActive,
                 speaker, screenVars, events, budget, lateVars>>

\* submit_pcm of the announcement.
Announce(t) ==
  /\ Goes(t, "announcing", "pausing")
  /\ lateVoices' = [lateVoices EXCEPT ![t] = @ + (IF aborted[t] THEN 1 ELSE 0)]
  /\ UNCHANGED <<tableVars, idOf, labelOf, ringing, aborted, voice, turnActive,
                 speaker, screenVars, events, budget, lateBells>>

\* Mutant of Repeat: the pause does not notice an abort.
RepeatAnyway(t) ==
  /\ WorkerFree /\ Goes(t, "pausing", "looping")
  /\ UNCHANGED <<tableVars, idOf, labelOf, ringing, aborted, voice, turnActive,
                 speaker, screenVars, events, budget, lateVars>>

Repeat(t) ==
  /\ Resumes(t, "pausing", "looping")
  /\ UNCHANGED <<tableVars, idOf, labelOf, ringing, aborted, voice, turnActive,
                 speaker, screenVars, events, budget, lateVars>>

-----------------------------------------------------------------------------
(* The UI thread.                                                           *)

\* AssistantController._onEvent, the three timer events.
ScreenEvent ==
  LET e == Head(events)
  IN /\ button = Idle
     /\ events # << >>
     /\ events' = Tail(events)
     /\ chips' = [id \in Ids |->
                    IF id \notin e.ids THEN chips[id]
                    ELSE CASE e.kind = "started" -> "counting"
                           [] e.kind = "finished" ->
                                IF chips[id] = "absent" THEN "absent"
                                ELSE "finished"
                           [] e.kind = "cancelled" -> "absent"]
     /\ UNCHANGED <<tableVars, taskVars, turnActive, speaker, button, budget,
                    lateVars>>

\* dismissTimer -> TimerManager::dismiss: the entry is taken out under the
\* lock ...
DismissRemove(id) ==
  /\ button = Idle
  /\ chips[id] # "absent" /\ timers[id] # NoTask
  /\ button' = [stage |-> "removed", id |-> id, task |-> timers[id]]
  /\ timers' = [timers EXCEPT ![id] = NoTask]
  /\ UNCHANGED <<nextId, rearm, taskVars, turnActive, speaker, chips, events,
                 budget, lateVars>>

\* ... the task aborted and the event sent after it, and the chip cleared.
DismissAbort ==
  /\ button.stage = "removed"
  /\ aborted' = [aborted EXCEPT ![button.task] = TRUE]
  /\ button' = [button EXCEPT !.stage = "aborted"]
  /\ UNCHANGED <<tableVars, pc, idOf, labelOf, ringing, voice, turnActive,
                 speaker, chips, events, budget, lateVars>>

DismissEmit ==
  /\ button.stage = "aborted"
  /\ Emit("cancelled", button.id)
  /\ chips' = [chips EXCEPT ![button.id] = "absent"]
  /\ button' = Idle
  /\ UNCHANGED <<tableVars, taskVars, turnActive, speaker, budget, lateVars>>

\* The table has no such timer: only the chip is cleared.
DismissUnknown(id) ==
  /\ button = Idle
  /\ chips[id] # "absent" /\ timers[id] = NoTask
  /\ chips' = [chips EXCEPT ![id] = "absent"]
  /\ UNCHANGED <<tableVars, taskVars, turnActive, speaker, button, events,
                 budget, lateVars>>

\* The engine ends by itself and the screen's controller starts another one
\* (_scheduleReconnect): the runtime takes the tasks with it, what the old
\* stream still held is not read, and ids begin again.
EngineFails ==
  /\ WorkerFree /\ button = Idle /\ budget.failures > 0
  /\ budget' = [budget EXCEPT !.failures = @ - 1]
  /\ pc' = [t \in Tasks |-> IF pc[t] = "unborn" THEN "unborn" ELSE "dead"]
  /\ timers' = [id \in Ids |-> NoTask]
  /\ nextId' = 1
  /\ turnActive' = FALSE
  /\ speaker' \in BOOLEAN
  /\ events' = << >>
  /\ UNCHANGED <<rearm, idOf, labelOf, ringing, aborted, voice, screenVars,
                 lateVars>>

-----------------------------------------------------------------------------
TurnStep ==
  \/ TurnBegins \/ TurnEnds
  \/ \E t \in Tasks, label \in AnyLabel : Start(t, label)
  \/ \E label \in AnyLabel : Cancel(label) \/ Adjust(label)
  \/ \E t \in Tasks, entry \in rearm : Rearm(t, entry)

TaskStep(t) ==
  \/ FirstPoll(t) \/ EmitStarted(t) \/ Fire(t) \/ EmitFinished(t)
  \/ CheckTurn(t) \/ Bell(t) \/ Announce(t) \/ Repeat(t)

ScreenStep ==
  \/ ScreenEvent \/ DismissAbort \/ DismissEmit
  \/ \E id \in Ids : DismissRemove(id) \/ DismissUnknown(id)

Next ==
  \/ TurnStep
  \/ \E t \in Tasks : TaskStep(t)
  \/ \E t \in Tasks, answer \in {"none", "cached"} : SynthesisEnds(t, answer)
  \/ ScreenStep
  \/ EngineFails

Spec == Init /\ [][Next]_vars

\* The worker goes on with what it began and serves every task that can move
\* in turn, a voice turn ends, the UI thread finishes a dismissal.  Nothing is
\* assumed of SynthesisEnds: the display waits without a deadline for a Core
\* that may hang or vanish.
FairSpec ==
  /\ Spec
  /\ SF_vars(TurnEnds)
  /\ WF_vars(\E t \in Tasks, entry \in rearm : Rearm(t, entry))
  /\ \A t \in Tasks : SF_vars(TaskStep(t))
  /\ WF_vars(DismissAbort \/ DismissEmit)

-----------------------------------------------------------------------------
(* What must hold.                                                          *)

\* No alarm without a handle: a task that lives and was not aborted is the
\* table's entry for its timer, or is just being dismissed.  Else neither
\* "stop" nor the button could ever silence it.
AlarmIsReachable ==
  \A t \in Tasks :
    pc[t] \in PollingPcs \cup WaitingPcs /\ ~aborted[t]
      => timers[idOf[t]] = t \/ (button.task = t /\ button.stage = "removed")

\* A timer turned off while its task is in the middle of a poll still plays the
\* alarm it began, and nothing after that.
RemovedFallsSilent ==
  \A t \in Tasks : lateBells[t] <= 1 /\ lateVoices[t] <= 1

\* When nothing is on its way, the screen shows the timers the engine has, and
\* shows as finished those that ring.
Settled ==
  /\ WorkerFree /\ button = Idle /\ events = << >>
  /\ \A t \in Tasks : pc[t] = "queued" => aborted[t]

ScreenAgrees ==
  Settled =>
    \A id \in Ids :
      chips[id] = CASE timers[id] = NoTask -> "absent"
                    [] timers[id] # NoTask /\ Rings(id) -> "finished"
                    [] timers[id] # NoTask /\ ~Rings(id) -> "counting"

\* They agree until an engine fails, whose chips outlive it, or an adjust has a
\* timer out of the table, whose dismissal is then lost.
ScreenAgreesUnlessDisturbed ==
  budget.failures = MaxFailures /\ budget.adjusts = MaxAdjusts => ScreenAgrees

\* The table of timers is TimerTable: one being re-armed still counts.
Status ==
  [id \in Ids |->
     CASE id >= nextId -> "unset"
       [] id < nextId /\ timers[id] # NoTask ->
            IF Rings(id) THEN "ringing" ELSE "counting"
       [] id < nextId /\ timers[id] = NoTask ->
            IF \E entry \in rearm : entry[1] = id THEN "counting" ELSE "off"]

Table == INSTANCE TimerTable WITH status <- Status

TableRefinement == Table!Spec

\* "so the alarm never talks over the user or the reply": no announcement is
\* played into a turn.  The code looks at turn_active only before the bell.
AnnouncementYields ==
  [][\A t \in Tasks : pc[t] = "announcing" /\ pc'[t] # "announcing"
       => ~turnActive]_vars

\* The alarm of t has gone off on a display with a speaker.
HasGoneOff(t) == speaker /\ pc[t] \in AlarmPcs

\* It was cancelled or dismissed, or went down with the engine.
TurnedOff(t) == aborted[t] \/ pc[t] = "dead"

\* It sounds, and however long it has sounded it sounds once more.
SoundsAgain(t) == HasGoneOff(t) ~> (pc[t] = "bell" \/ TurnedOff(t))

\* The Core is asked for the announcement and never answers.
NeverAnswered(t) == <>[](pc[t] = "asking")

\* An alarm goes on until it is turned off, through turns that make it skip and
\* whatever its synthesis returns, but for the one that never hears back.
AlarmRepeats == \A t \in Tasks : SoundsAgain(t) \/ NeverAnswered(t)

\* "When the Mac is offline the timer is bell-only.  The alarm then repeats
\* every ALARM_REPEAT ... until the timer is turned off": the module's doc makes
\* no exception.  The code holds the repeats back until the Core has answered.
AlarmOutlastsCore == \A t \in Tasks : SoundsAgain(t)

=============================================================================
