---------------------------- MODULE Timers_proofs ----------------------------
(****************************************************************************)
(* For any number of timers, tasks and turns: the types, that every alarm   *)
(* that can sound is in the table, that a removed timer plays at most the   *)
(* alarm it began, that the table of timers implements TimerTable, and that *)
(* the screen shows the timers the engine has.                              *)
(****************************************************************************)
EXTENDS Timers, TLAPS

Lives(t) == pc[t] \in PollingPcs \cup WaitingPcs

\* An entry of the table is the live task of its own timer.
TableInv ==
  \A id \in Ids : timers[id] # NoTask =>
    /\ idOf[timers[id]] = id /\ id < nextId
    /\ ~aborted[timers[id]] /\ Lives(timers[id])

\* A timer being re-armed is known, out of the table, and waits only once.
RearmInv ==
  /\ \A e \in rearm : timers[e[1]] = NoTask /\ e[1] < nextId
  /\ \A e, f \in rearm : e[1] = f[1] => e = f

\* Whoever is at the button has taken one task, which lived, out of the table.
ButtonInv ==
  button # Idle =>
    /\ button.task \in Tasks /\ pc[button.task] # "unborn"
    /\ \A id \in Ids : timers[id] # button.task

\* A task rings from its firing on.
RingInv ==
  \A t \in Tasks : pc[t] \in {"unborn", "queued", "starting", "counting"} => ~ringing[t]

\* A task not born yet was aborted by nobody.
FreshInv == \A t \in Tasks : pc[t] = "unborn" => ~aborted[t]

\* What an aborted task may still play is what its poll has not got to yet.
LateInv ==
  \A t \in Tasks :
    /\ ~aborted[t] => lateBells[t] = 0 /\ lateVoices[t] = 0
    /\ pc[t] \in {"starting", "fired", "looping", "bell"} =>
         lateBells[t] = 0 /\ lateVoices[t] = 0
    /\ pc[t] = "announcing" => lateVoices[t] = 0

IInv ==
  /\ TypeOK /\ TableInv /\ RearmInv /\ ButtonInv /\ RingInv /\ FreshInv
  /\ LateInv /\ AlarmIsReachable /\ RemovedFallsSilent

\* A display that has just started has an empty table and no task.
LEMMA InitIInv == Init => IInv
<1> SUFFICES ASSUME Init PROVE IInv
  OBVIOUS
<1> USE IdsAssumption, TasksAssumption, BoundsAssumption
    DEF Init, Ids, Tasks, AnyLabel, PollingPcs, WaitingPcs, Idle
<1>1. TypeOK
  <2>1. nextId \in Nat \ {0} /\ timers \in [Ids -> Tasks \cup {NoTask}]
    OBVIOUS
  <2>2. pc \in [Tasks -> {"unborn", "dead"} \cup PollingPcs \cup WaitingPcs]
    OBVIOUS
  <2>3. idOf \in [Tasks -> Ids] /\ labelOf \in [Tasks -> AnyLabel]
    OBVIOUS
  <2>4. button \in [stage : {"idle", "removed", "aborted"}, id : Ids,
                 task : Tasks \cup {NoTask}]
    OBVIOUS
  <2>5. events \in Seq(TimerEvents)
    OBVIOUS
  <2>6. budget \in [turns : Nat, adjusts : Nat, failures : Nat]
    OBVIOUS
  <2>7. QED
    BY <2>1, <2>2, <2>3, <2>4, <2>5, <2>6 DEF TypeOK
<1>2. TableInv /\ RearmInv /\ ButtonInv /\ RingInv /\ FreshInv
  BY DEF TableInv, RearmInv, ButtonInv, RingInv, FreshInv, Lives
<1>3. LateInv /\ AlarmIsReachable /\ RemovedFallsSilent
  BY DEF LateInv, AlarmIsReachable, RemovedFallsSilent
<1>4. QED
  BY <1>1, <1>2, <1>3 DEF IInv

\* There is a first timer id.
LEMMA FirstId == 1 \in Ids
  BY IdsAssumption DEF Ids

\* What a bounded action spends leaves a budget.
LEMMA BudgetSpent ==
  ASSUME budget \in [turns : Nat, adjusts : Nat, failures : Nat]
  PROVE  /\ budget.turns > 0 =>
              [budget EXCEPT !.turns = @ - 1] \in [turns : Nat, adjusts : Nat, failures : Nat]
         /\ budget.adjusts > 0 =>
              [budget EXCEPT !.adjusts = @ - 1] \in [turns : Nat, adjusts : Nat, failures : Nat]
         /\ budget.failures > 0 =>
              [budget EXCEPT !.failures = @ - 1] \in [turns : Nat, adjusts : Nat, failures : Nat]
<1>1. budget.turns \in Nat /\ budget.adjusts \in Nat /\ budget.failures \in Nat
  OBVIOUS
<1>2. \A n \in Nat : n > 0 => n - 1 \in Nat
  OBVIOUS
<1>3. QED
  BY <1>1, <1>2

\* The stream of events stays one of timer events.
LEMMA EventSent ==
  ASSUME events \in Seq(TimerEvents), NEW kind \in {"started", "finished", "cancelled"},
         NEW S \in SUBSET Ids
  PROVE  Append(events, [kind |-> kind, ids |-> S]) \in Seq(TimerEvents)
<1>1. [kind |-> kind, ids |-> S] \in TimerEvents
  BY DEF TimerEvents
<1>2. QED
  BY <1>1

\* Every step keeps the types.
LEMMA TypeStep == TypeOK /\ ButtonInv /\ [Next]_vars => TypeOK'
<1> SUFFICES ASSUME TypeOK, ButtonInv, [Next]_vars PROVE TypeOK'
  OBVIOUS
<1> USE DEF TypeOK, tableVars, taskVars, screenVars, lateVars
<1>1. CASE TurnBegins \/ TurnEnds
  <2>1. budget' \in [turns : Nat, adjusts : Nat, failures : Nat]
    BY <1>1, BudgetSpent DEF TurnBegins, TurnEnds
  <2>2. QED
    BY <1>1, <2>1 DEF TurnBegins, TurnEnds
<1>2. ASSUME NEW t \in Tasks, NEW label \in AnyLabel, Start(t, label)
      PROVE  TypeOK'
  BY <1>2 DEF Start, SpawnCountdown, WaitingPcs
<1>3. ASSUME NEW label \in AnyLabel, Cancel(label) PROVE TypeOK'
  <2>1. ToCancel(label) \subseteq Ids
    BY DEF ToCancel, Matching, Set
  <2>2. events' \in Seq(TimerEvents)
    BY <1>3, <2>1 DEF Cancel, TimerEvents
  <2>3. timers' \in [Ids -> Tasks \cup {NoTask}] /\ aborted' \in [Tasks -> BOOLEAN]
    BY <1>3 DEF Cancel, RemoveAll, AbortAll
  <2>4. QED
    BY <1>3, <2>2, <2>3 DEF Cancel
<1>4. ASSUME NEW label \in AnyLabel, Adjust(label) PROVE TypeOK'
  <2>1. timers' \in [Ids -> Tasks \cup {NoTask}] /\ aborted' \in [Tasks -> BOOLEAN]
    BY <1>4 DEF Adjust, RemoveAll, AbortAll
  <2>2. rearm' \subseteq (Ids \X AnyLabel)
    BY <1>4 DEF Adjust, Matching, Set
  <2>3. budget' \in [turns : Nat, adjusts : Nat, failures : Nat]
    BY <1>4, BudgetSpent DEF Adjust
  <2>4. QED
    BY <1>4, <2>1, <2>2, <2>3 DEF Adjust
<1>5. ASSUME NEW t \in Tasks, NEW e \in rearm, Rearm(t, e) PROVE TypeOK'
  BY <1>5 DEF Rearm, SpawnCountdown, WaitingPcs
<1>6. ASSUME NEW t \in Tasks, TaskStep(t) PROVE TypeOK'
  <2> USE DEF Goes, Resumes, Emit, PollingPcs, WaitingPcs
  <2>1. CASE FirstPoll(t) \/ CheckTurn(t) \/ Repeat(t)
    BY <2>1 DEF FirstPoll, CheckTurn, Repeat
  <2>6. CASE Fire(t)
    BY <2>6 DEF Fire
  <2>2. CASE EmitStarted(t) \/ EmitFinished(t)
    <3>1. {idOf[t]} \in SUBSET Ids
      OBVIOUS
    <3>4. \A kind \in {"started", "finished"} :
            Append(events, [kind |-> kind, ids |-> {idOf[t]}]) \in Seq(TimerEvents)
      BY <3>1, EventSent
    <3>3. events' \in Seq(TimerEvents)
      BY <2>2, <3>4 DEF EmitStarted, EmitFinished
    <3>2. QED
      BY <2>2, <3>3 DEF EmitStarted, EmitFinished
  <2>3. CASE Bell(t)
    <3>1. lateBells' \in [Tasks -> Nat]
      BY <2>3 DEF Bell
    <3>2. QED
      BY <2>3, <3>1 DEF Bell
  <2>4. CASE Announce(t)
    <3>1. lateVoices' \in [Tasks -> Nat]
      BY <2>4 DEF Announce
    <3>2. QED
      BY <2>4, <3>1 DEF Announce
  <2>5. QED
    BY <1>6, <2>1, <2>2, <2>3, <2>4, <2>6 DEF TaskStep
<1>7. ASSUME NEW t \in Tasks, NEW a \in {"none", "cached"}, SynthesisEnds(t, a)
      PROVE  TypeOK'
  BY <1>7 DEF SynthesisEnds, Goes, Resumes, PollingPcs, WaitingPcs
<1>8. CASE ScreenEvent
  <2>1. events' \in Seq(TimerEvents)
    BY <1>8 DEF ScreenEvent
  <2>2. chips' \in [Ids -> {"absent", "counting", "finished"}]
    <3> DEFINE e == Head(events)
    <3>4. e \in TimerEvents
      BY <1>8 DEF ScreenEvent
    <3>1. e.kind \in {"started", "finished", "cancelled"}
      BY <3>4 DEF TimerEvents
    <3>2. \A id \in Ids : chips'[id] \in {"absent", "counting", "finished"}
      BY <1>8, <3>1 DEF ScreenEvent
    <3>3. QED
      BY <1>8, <3>2 DEF ScreenEvent
  <2>3. QED
    BY <1>8, <2>1, <2>2 DEF ScreenEvent
<1>9. CASE DismissAbort
  <2>1. button.task \in Tasks
    BY <1>9 DEF DismissAbort, ButtonInv, Idle
  <2>2. QED
    BY <1>9, <2>1 DEF DismissAbort
<1>10. CASE DismissEmit
  <2>1. events' \in Seq(TimerEvents)
    BY <1>10 DEF DismissEmit, Emit, TimerEvents
  <2>2. QED
    BY <1>10, <2>1, FirstId DEF DismissEmit, Idle
<1>11. ASSUME NEW id \in Ids, DismissRemove(id) \/ DismissUnknown(id)
       PROVE  TypeOK'
  <2>1. CASE DismissRemove(id)
    <3>1. button' \in [stage : {"idle", "removed", "aborted"}, id : Ids,
                       task : Tasks \cup {NoTask}]
      BY <2>1 DEF DismissRemove
    <3>2. timers' \in [Ids -> Tasks \cup {NoTask}]
      BY <2>1 DEF DismissRemove
    <3>3. QED
      BY <2>1, <3>1, <3>2 DEF DismissRemove
  <2>2. CASE DismissUnknown(id)
    BY <2>2 DEF DismissUnknown
  <2>3. QED
    BY <1>11, <2>1, <2>2
<1>12. CASE EngineFails
  <2>1. budget' \in [turns : Nat, adjusts : Nat, failures : Nat]
    BY <1>12, BudgetSpent DEF EngineFails
  <2>2. events' \in Seq(TimerEvents)
    BY <1>12 DEF EngineFails
  <2>3. timers' \in [Ids -> Tasks \cup {NoTask}]
    BY <1>12 DEF EngineFails
  <2>4. pc' \in [Tasks -> {"unborn", "dead"} \cup PollingPcs \cup WaitingPcs]
    BY <1>12 DEF EngineFails
  <2>5. nextId' \in Nat \ {0}
    BY <1>12 DEF EngineFails
  <2>8. turnActive' \in BOOLEAN /\ speaker' \in BOOLEAN
    BY <1>12 DEF EngineFails
  <2>6. UNCHANGED <<rearm, idOf, labelOf, ringing, aborted, voice, screenVars, lateVars>>
    BY <1>12 DEF EngineFails
  <2>7. QED
    BY <2>1, <2>2, <2>3, <2>4, <2>5, <2>6, <2>8
<1>13. CASE UNCHANGED vars
  BY <1>13 DEF vars
<1>14. QED
  BY <1>1, <1>2, <1>3, <1>4, <1>5, <1>6, <1>7, <1>8, <1>9, <1>10, <1>11, <1>12,
     <1>13 DEF Next, TurnStep, ScreenStep

\* Spawning a fresh task for a timer that is not in the table keeps the table
\* and its handles.
LEMMA SpawnKeeps ==
  ASSUME IInv, NEW t \in Tasks, NEW id \in Ids, NEW label \in AnyLabel,
         timers[id] = NoTask, SpawnCountdown(t, id, label),
         id < nextId', nextId' \in Nat, nextId <= nextId',
         UNCHANGED <<ringing, aborted, voice, button, lateVars>>
  PROVE  /\ TableInv' /\ RingInv' /\ FreshInv' /\ LateInv'
         /\ AlarmIsReachable' /\ ButtonInv'
<1>1. /\ timers \in [Ids -> Tasks \cup {NoTask}] /\ pc[t] = "unborn"
      /\ idOf \in [Tasks -> Ids] /\ nextId \in Nat
      /\ pc \in [Tasks -> {"unborn", "dead"} \cup PollingPcs \cup WaitingPcs]
  BY DEF IInv, TypeOK, SpawnCountdown
<1>2. /\ timers' = [timers EXCEPT ![id] = t] /\ idOf' = [idOf EXCEPT ![t] = id]
      /\ pc' = [pc EXCEPT ![t] = "queued"]
  BY DEF SpawnCountdown
<1>3. \A j \in Ids : timers[j] # t
  <2>1. ~Lives(t) /\ t # NoTask
    BY <1>1, TasksAssumption DEF Lives, PollingPcs, WaitingPcs
  <2>2. QED
    BY <1>1, <2>1 DEF IInv, TableInv
<1>4. TableInv'
  <2> SUFFICES ASSUME NEW j \in Ids, timers'[j] # NoTask
               PROVE  /\ idOf'[timers'[j]] = j /\ j < nextId'
                      /\ ~aborted'[timers'[j]]
                      /\ pc'[timers'[j]] \in PollingPcs \cup WaitingPcs
    BY DEF TableInv, Lives
  <2>1. CASE j = id
    <3>1. timers'[j] = t
      BY <1>1, <1>2, <2>1
    <3>2. ~aborted[t]
      BY <1>1 DEF IInv, FreshInv
    <3>3. QED
      BY <1>1, <1>2, <2>1, <3>1, <3>2 DEF Lives, WaitingPcs
  <2>2. CASE j # id
    <3>1. timers'[j] = timers[j] /\ timers[j] # t /\ timers[j] \in Tasks
      BY <1>1, <1>2, <1>3, <2>2
    <3>2. /\ idOf[timers[j]] = j /\ j < nextId
          /\ ~aborted[timers[j]] /\ Lives(timers[j])
      BY <3>1 DEF IInv, TableInv
    <3>3. j < nextId'
      BY <1>1, <3>2 DEF Ids
    <3>4. QED
      BY <1>1, <1>2, <3>1, <3>2, <3>3 DEF Lives
  <2>3. QED
    BY <2>1, <2>2
<1>5. RingInv' /\ FreshInv'
  BY <1>1, <1>2 DEF IInv, RingInv, FreshInv
<1>6. LateInv'
  BY <1>1, <1>2 DEF IInv, LateInv, lateVars
<1>7. AlarmIsReachable'
  <2> SUFFICES ASSUME NEW u \in Tasks, pc'[u] \in PollingPcs \cup WaitingPcs,
                      ~aborted[u]
               PROVE  timers'[idOf'[u]] = u
                      \/ (button.task = u /\ button.stage = "removed")
    BY DEF AlarmIsReachable
  <2>1. CASE u = t
    BY <1>1, <1>2, <2>1
  <2>2. CASE u # t
    <3>1. pc'[u] = pc[u] /\ idOf'[u] = idOf[u] /\ idOf[u] \in Ids /\ u # NoTask
      BY <1>1, <1>2, <2>2, TasksAssumption
    <3>2. timers[idOf[u]] = u \/ (button.task = u /\ button.stage = "removed")
      BY <3>1 DEF IInv, AlarmIsReachable
    <3>3. QED
      BY <1>1, <1>2, <3>1, <3>2
  <2>3. QED
    BY <2>1, <2>2
<1>8. ButtonInv'
  <2> SUFFICES ASSUME button # Idle PROVE ButtonInv'
    BY DEF ButtonInv
  <2>1. /\ button.task \in Tasks /\ pc[button.task] # "unborn"
        /\ \A j \in Ids : timers[j] # button.task
    BY DEF IInv, ButtonInv
  <2>2. button.task # t
    BY <1>1, <2>1
  <2>3. pc'[button.task] = pc[button.task]
    BY <1>1, <1>2, <2>1, <2>2
  <2>4. \A j \in Ids : timers'[j] = timers[j] \/ timers'[j] = t
    BY <1>1, <1>2
  <2>5. QED
    BY <2>1, <2>2, <2>3, <2>4 DEF ButtonInv
<1>9. QED
  BY <1>4, <1>5, <1>6, <1>7, <1>8

\* Taking entries out of the table together with aborting their tasks keeps
\* every other handle.
LEMMA RemoveKeeps ==
  ASSUME IInv, NEW S \in SUBSET Ids, RemoveAll(S), AbortAll(S),
         S \subseteq Set,
         UNCHANGED <<nextId, pc, idOf, ringing, button, lateVars>>, WorkerFree
  PROVE  /\ TableInv' /\ RingInv' /\ FreshInv' /\ LateInv'
         /\ AlarmIsReachable' /\ ButtonInv'
<1> USE TasksAssumption
    DEF IInv, TypeOK, PollingPcs, WaitingPcs, RemoveAll, AbortAll, Set,
        TableInv, lateVars
<1>1. TableInv'
  BY DEF Lives
<1>2. RingInv' /\ FreshInv'
  BY DEF RingInv, FreshInv, Lives
<1>3. LateInv'
  BY DEF LateInv
<1>4. AlarmIsReachable'
  BY DEF AlarmIsReachable
<1>5. ButtonInv'
  BY DEF ButtonInv
<1>6. QED
  BY <1>1, <1>2, <1>3, <1>4, <1>5

\* A task that goes on living, by itself, keeps the table.
LEMMA GoingOnKeeps ==
  ASSUME IInv, NEW t \in Tasks, Lives(t), NEW to \in PollingPcs \cup WaitingPcs,
         pc' = [pc EXCEPT ![t] = to],
         UNCHANGED <<tableVars, idOf, aborted, button>>
  PROVE  TableInv' /\ RearmInv' /\ ButtonInv' /\ FreshInv' /\ AlarmIsReachable'
<1> USE DEF IInv, TypeOK, Lives, tableVars
<1>1. \A u \in Tasks : u # t => pc'[u] = pc[u]
  OBVIOUS
<1>2. pc'[t] = to
  OBVIOUS
<1>3. TableInv' /\ RearmInv'
  BY <1>1, <1>2 DEF TableInv, RearmInv
<1>6. ButtonInv'
  <2>1. to # "unborn"
    BY DEF PollingPcs, WaitingPcs
  <2>2. \A u \in Tasks : pc[u] # "unborn" => pc'[u] # "unborn"
    BY <1>1, <1>2, <2>1
  <2>3. QED
    BY <2>2 DEF ButtonInv
<1>4. FreshInv' /\ AlarmIsReachable'
  BY <1>1, <1>2 DEF FreshInv, AlarmIsReachable, PollingPcs, WaitingPcs
<1>5. QED
  BY <1>3, <1>4, <1>6

\* The steps of a countdown task.
LEMMA TaskKeeps ==
  ASSUME IInv, NEW t \in Tasks,
         \/ TaskStep(t)
         \/ \E a \in {"none", "cached"} : SynthesisEnds(t, a)
  PROVE  /\ TableInv' /\ RearmInv' /\ ButtonInv' /\ RingInv' /\ FreshInv'
         /\ LateInv' /\ AlarmIsReachable' /\ RemovedFallsSilent'
<1>1. /\ pc \in [Tasks -> {"unborn", "dead"} \cup PollingPcs \cup WaitingPcs]
      /\ ringing \in [Tasks -> BOOLEAN] /\ voice[t] \in {"unasked", "none", "cached"}
      /\ lateBells \in [Tasks -> Nat] /\ lateVoices \in [Tasks -> Nat]
  BY DEF IInv, TypeOK
<1> DEFINE Alarmed == {"fired", "looping", "bell", "asking", "announcing", "pausing", "done"}
<1>11. UNCHANGED <<tableVars, idOf, aborted, button>>
  BY DEF TaskStep, FirstPoll, EmitStarted, Fire, EmitFinished, CheckTurn,
    Bell, SynthesisEnds, Announce, Repeat, screenVars
<1>12. Lives(t)
  BY DEF TaskStep, FirstPoll, EmitStarted, Fire, EmitFinished, CheckTurn,
    Bell, SynthesisEnds, Announce, Repeat, Goes, Resumes, Lives, PollingPcs,
    WaitingPcs
<1>13. ASSUME NEW from, NEW to \in PollingPcs \cup WaitingPcs, Goes(t, from, to)
       PROVE  \E next \in PollingPcs \cup WaitingPcs : pc' = [pc EXCEPT ![t] = next]
  BY <1>13 DEF Goes
<1>14. \E to \in PollingPcs \cup WaitingPcs : pc' = [pc EXCEPT ![t] = to]
  <2>1. CASE FirstPoll(t) \/ EmitStarted(t) \/ Fire(t) \/ Announce(t) \/ Repeat(t)
    BY <2>1, <1>13 DEF FirstPoll, EmitStarted, Fire, Announce, Repeat, Resumes,
      PollingPcs, WaitingPcs
  <2>2. CASE EmitFinished(t) \/ CheckTurn(t)
    BY <2>2, <1>13 DEF EmitFinished, CheckTurn, PollingPcs, WaitingPcs
  <2>3. CASE Bell(t)
    BY <1>1, <2>3 DEF Bell, Goes, PollingPcs, WaitingPcs
  <2>4. CASE \E a \in {"none", "cached"} : SynthesisEnds(t, a)
    BY <2>4 DEF SynthesisEnds, Resumes, Goes, PollingPcs, WaitingPcs
  <2>5. QED
    BY <2>1, <2>2, <2>3, <2>4 DEF TaskStep
<1>2. /\ UNCHANGED <<tableVars, idOf, aborted, button>>
      /\ Lives(t)
      /\ \E to \in PollingPcs \cup WaitingPcs : pc' = [pc EXCEPT ![t] = to]
  BY <1>11, <1>12, <1>14
<1>3. TableInv' /\ RearmInv' /\ ButtonInv' /\ FreshInv' /\ AlarmIsReachable'
  BY <1>2, GoingOnKeeps
<1>4. \/ pc[t] \in {"queued", "starting"} /\ ringing' = ringing
      \/ pc'[t] \in Alarmed /\ \A u \in Tasks : u # t => ringing'[u] = ringing[u]
  BY <1>1 DEF TaskStep, FirstPoll, EmitStarted, Fire, EmitFinished, CheckTurn,
    Bell, SynthesisEnds, Announce, Repeat, Goes, Resumes
<1>5. \A u \in Tasks : u # t => pc'[u] = pc[u]
  BY <1>1, <1>2
<1>6. RingInv'
  BY <1>1, <1>4, <1>5 DEF IInv, RingInv
<1>7. CASE Bell(t)
  <2>1. pc[t] = "bell" /\ pc'[t] \in {"asking", "announcing", "pausing"}
    BY <1>1, <1>7 DEF Bell, Goes
  <2>2. lateBells[t] = 0 /\ lateVoices[t] = 0
    BY <2>1 DEF IInv, LateInv
  <2>3. /\ lateBells' = [lateBells EXCEPT ![t] = @ + (IF aborted[t] THEN 1 ELSE 0)]
        /\ lateVoices' = lateVoices /\ aborted' = aborted
    BY <1>7 DEF Bell
  <2>4. lateBells'[t] = IF aborted[t] THEN 1 ELSE 0
    BY <1>1, <2>2, <2>3
  <2>5. \A u \in Tasks : u # t => lateBells'[u] = lateBells[u]
    BY <1>1, <2>3
  <2>6. LateInv' /\ RemovedFallsSilent'
    BY <1>5, <2>1, <2>2, <2>3, <2>4, <2>5 DEF IInv, LateInv, RemovedFallsSilent
  <2>7. QED
    BY <1>3, <1>6, <2>6
<1>8. CASE Announce(t)
  <2>1. pc[t] = "announcing" /\ pc'[t] = "pausing"
    BY <1>1, <1>8 DEF Announce, Goes
  <2>2. lateVoices[t] = 0
    BY <2>1 DEF IInv, LateInv
  <2>3. /\ lateVoices' = [lateVoices EXCEPT ![t] = @ + (IF aborted[t] THEN 1 ELSE 0)]
        /\ lateBells' = lateBells /\ aborted' = aborted
    BY <1>8 DEF Announce
  <2>4. lateVoices'[t] = IF aborted[t] THEN 1 ELSE 0
    BY <1>1, <2>2, <2>3
  <2>5. \A u \in Tasks : u # t => lateVoices'[u] = lateVoices[u]
    BY <1>1, <2>3
  <2>6. LateInv' /\ RemovedFallsSilent'
    BY <1>5, <2>1, <2>2, <2>3, <2>4, <2>5 DEF IInv, LateInv, RemovedFallsSilent
  <2>7. QED
    BY <1>3, <1>6, <2>6
<1>9. CASE ~Bell(t) /\ ~Announce(t)
  <2>1. UNCHANGED <<aborted, lateBells, lateVoices>>
    BY <1>9 DEF TaskStep, FirstPoll, EmitStarted, Fire, EmitFinished, CheckTurn,
      SynthesisEnds, Repeat, lateVars
  <2>2. \/ pc[t] \in {"starting", "fired", "looping"} /\ pc'[t] # "announcing"
        \/ ~aborted[t]
    BY <1>1, <1>9 DEF TaskStep, FirstPoll, EmitStarted, Fire, EmitFinished,
      CheckTurn, SynthesisEnds, Repeat, Goes, Resumes
  <2>3. LateInv' /\ RemovedFallsSilent'
    BY <1>5, <2>1, <2>2 DEF IInv, LateInv, RemovedFallsSilent
  <2>4. QED
    BY <1>3, <1>6, <2>3
<1>10. QED
  BY <1>7, <1>8, <1>9

\* Every step keeps the inductive invariant.
LEMMA InvStep == IInv /\ [Next]_vars => IInv'
<1> SUFFICES ASSUME IInv, [Next]_vars PROVE IInv'
  OBVIOUS
<1>0. TypeOK'
  BY TypeStep DEF IInv
<1>1. /\ timers \in [Ids -> Tasks \cup {NoTask}] /\ nextId \in Nat
      /\ rearm \subseteq (Ids \X AnyLabel)
      /\ pc \in [Tasks -> {"unborn", "dead"} \cup PollingPcs \cup WaitingPcs]
      /\ aborted \in [Tasks -> BOOLEAN]
  BY DEF IInv, TypeOK
<1> DEFINE Rest == /\ TableInv /\ RearmInv /\ ButtonInv /\ RingInv /\ FreshInv
                   /\ LateInv /\ AlarmIsReachable /\ RemovedFallsSilent
<1>2. Rest
  BY DEF IInv
<1> SUFFICES Rest'
  BY <1>0 DEF IInv
<1>3. ASSUME UNCHANGED <<tableVars, pc, idOf, ringing, aborted, button, lateVars>>
      PROVE  Rest'
  BY <1>2, <1>3 DEF tableVars, lateVars, TableInv, RearmInv, ButtonInv, RingInv,
    FreshInv, LateInv, AlarmIsReachable, RemovedFallsSilent, Lives
<1>4. CASE TurnBegins \/ TurnEnds
  BY <1>3, <1>4 DEF TurnBegins, TurnEnds, taskVars, screenVars
<1>5. ASSUME NEW t \in Tasks, NEW label \in AnyLabel, Start(t, label)
      PROVE  Rest'
  <2>1. /\ SpawnCountdown(t, nextId, label) /\ nextId \in Ids
        /\ nextId' = nextId + 1 /\ rearm = {} /\ rearm' = {}
        /\ UNCHANGED <<ringing, aborted, voice, button, lateVars>>
    BY <1>5 DEF Start, WorkerFree, screenVars
  <2>2. timers[nextId] = NoTask
    BY <1>1, <1>2, <2>1 DEF TableInv, Ids
  <2>3. nextId < nextId' /\ nextId' \in Nat /\ nextId <= nextId'
    BY <1>1, <2>1
  <2>4. TableInv' /\ RingInv' /\ FreshInv' /\ LateInv' /\ AlarmIsReachable' /\ ButtonInv'
    BY <2>1, <2>2, <2>3, SpawnKeeps
  <2>5. RearmInv' /\ RemovedFallsSilent'
    BY <1>2, <2>1 DEF RearmInv, RemovedFallsSilent, lateVars
  <2>6. QED
    BY <2>4, <2>5
<1>6. ASSUME NEW label \in AnyLabel, Cancel(label) PROVE Rest'
  <2>1. /\ RemoveAll(ToCancel(label)) /\ AbortAll(ToCancel(label)) /\ WorkerFree
        /\ UNCHANGED <<nextId, pc, idOf, ringing, button, lateVars, rearm>>
    BY <1>6 DEF Cancel, screenVars
  <2>2. ToCancel(label) \subseteq Set /\ ToCancel(label) \in SUBSET Ids
    BY DEF ToCancel, Matching, Set
  <2>3. TableInv' /\ RingInv' /\ FreshInv' /\ LateInv' /\ AlarmIsReachable' /\ ButtonInv'
    BY <2>1, <2>2, RemoveKeeps
  <2>4. RearmInv' /\ RemovedFallsSilent'
    BY <1>2, <2>1 DEF RearmInv, RemovedFallsSilent, lateVars, WorkerFree
  <2>5. QED
    BY <2>3, <2>4
<1>7. ASSUME NEW label \in AnyLabel, Adjust(label) PROVE Rest'
  <2> DEFINE S == {id \in Matching(label) : ~Rings(id)}
  <2>1. /\ RemoveAll(S) /\ AbortAll(S) /\ WorkerFree
        /\ rearm' = {<<id, labelOf[timers[id]]>> : id \in S}
        /\ UNCHANGED <<nextId, pc, idOf, ringing, button, lateVars>>
    BY <1>7 DEF Adjust, screenVars
  <2>2. S \subseteq Set /\ S \in SUBSET Ids
    BY DEF Matching, Set
  <2>3. TableInv' /\ RingInv' /\ FreshInv' /\ LateInv' /\ AlarmIsReachable' /\ ButtonInv'
    BY <2>1, <2>2, RemoveKeeps
  <2>4. \A id \in S : timers'[id] = NoTask /\ id < nextId'
    BY <1>2, <2>1, <2>2 DEF RemoveAll, TableInv, Set
  <2>5. \A e \in rearm' : e[1] \in S /\ e = <<e[1], labelOf[timers[e[1]]]>>
    BY <2>1
  <2>6. RearmInv'
    BY <2>4, <2>5 DEF RearmInv
  <2>7. RemovedFallsSilent'
    BY <1>2, <2>1 DEF RemovedFallsSilent, lateVars
  <2>8. QED
    BY <2>3, <2>6, <2>7
<1>8. ASSUME NEW t \in Tasks, NEW e \in rearm, Rearm(t, e) PROVE Rest'
  <2>1. /\ SpawnCountdown(t, e[1], e[2]) /\ rearm' = rearm \ {e}
        /\ nextId' = nextId
        /\ UNCHANGED <<ringing, aborted, voice, button, lateVars>>
    BY <1>8 DEF Rearm, screenVars
  <2>2. e[1] \in Ids /\ e[2] \in AnyLabel /\ timers[e[1]] = NoTask /\ e[1] < nextId
    BY <1>1, <1>2 DEF RearmInv
  <2>3. TableInv' /\ RingInv' /\ FreshInv' /\ LateInv' /\ AlarmIsReachable' /\ ButtonInv'
    BY <1>1, <2>1, <2>2, SpawnKeeps
  <2>4. \A f \in rearm' : f \in rearm /\ f[1] # e[1] /\ f[1] \in Ids
    BY <1>1, <1>2, <2>1 DEF RearmInv
  <2>5. \A f \in rearm' : timers'[f[1]] = timers[f[1]]
    BY <1>1, <2>1, <2>4 DEF SpawnCountdown
  <2>6. RearmInv'
    BY <1>2, <2>1, <2>4, <2>5 DEF RearmInv
  <2>7. RemovedFallsSilent'
    BY <1>2, <2>1 DEF RemovedFallsSilent, lateVars
  <2>8. QED
    BY <2>3, <2>6, <2>7
<1>9. ASSUME NEW t \in Tasks,
             \/ TaskStep(t)
             \/ \E a \in {"none", "cached"} : SynthesisEnds(t, a)
      PROVE  Rest'
  BY <1>9, TaskKeeps
<1>10. CASE ScreenEvent
  BY <1>3, <1>10 DEF ScreenEvent, taskVars
<1>11. CASE DismissAbort
  <2>1. button # Idle /\ button.task \in Tasks /\ button.stage = "removed"
    BY <1>2, <1>11 DEF DismissAbort, ButtonInv, Idle
  <2>2. /\ aborted' = [aborted EXCEPT ![button.task] = TRUE]
        /\ button' = [button EXCEPT !.stage = "aborted"]
        /\ UNCHANGED <<tableVars, pc, idOf, ringing, lateVars>>
    BY <1>11 DEF DismissAbort
  <2>3. button'.task = button.task
    BY <2>2 DEF IInv, TypeOK
  <2>4. pc[button.task] # "unborn" /\ \A id \in Ids : timers[id] # button.task
    BY <1>2, <2>1 DEF ButtonInv
  <2>5. /\ UNCHANGED <<timers, nextId, rearm, lateBells, lateVoices>>
        /\ \A t \in Tasks : t # button.task => aborted'[t] = aborted[t]
        /\ aborted'[button.task]
    BY <1>1, <2>1, <2>2 DEF tableVars, lateVars
  <2>6. TableInv' /\ RearmInv' /\ ButtonInv'
    BY <1>1, <1>2, <2>1, <2>2, <2>3, <2>4, <2>5
      DEF TableInv, RearmInv, ButtonInv, Lives
  <2>7. RingInv' /\ FreshInv' /\ LateInv' /\ RemovedFallsSilent'
    BY <1>2, <2>2, <2>4, <2>5 DEF RingInv, FreshInv, LateInv, RemovedFallsSilent
  <2>8. AlarmIsReachable'
    BY <1>2, <2>2, <2>5 DEF AlarmIsReachable
  <2>9. QED
    BY <2>6, <2>7, <2>8
<1>12. CASE DismissEmit
  <2>1. button.stage = "aborted" /\ button' = Idle /\ Idle.stage = "idle"
        /\ UNCHANGED <<tableVars, pc, idOf, ringing, aborted, lateVars>>
    BY <1>12 DEF DismissEmit, taskVars, Idle
  <2>2. AlarmIsReachable'
    BY <1>2, <2>1 DEF AlarmIsReachable, tableVars
  <2>3. ButtonInv'
    BY <2>1 DEF ButtonInv
  <2>4. QED
    BY <1>2, <2>1, <2>2, <2>3 DEF tableVars, lateVars, TableInv, RearmInv,
      RingInv, FreshInv, LateInv, RemovedFallsSilent, Lives
<1>13. ASSUME NEW id \in Ids, DismissRemove(id) PROVE Rest'
  <2>1. /\ button = Idle /\ timers[id] # NoTask /\ timers[id] \in Tasks
        /\ button' = [stage |-> "removed", id |-> id, task |-> timers[id]]
        /\ timers' = [timers EXCEPT ![id] = NoTask]
        /\ UNCHANGED <<nextId, rearm, pc, idOf, ringing, aborted, lateVars>>
    BY <1>1, <1>13 DEF DismissRemove, taskVars
  <2>2. \A j \in Ids : /\ j # id => timers'[j] = timers[j] /\ timers[j] # timers[id]
                       /\ j = id => timers'[j] = NoTask
    BY <1>1, <1>2, <2>1 DEF TableInv
  <2>3. pc[timers[id]] # "unborn"
    BY <1>2, <2>1 DEF TableInv, Lives, PollingPcs, WaitingPcs
  <2>4. TableInv' /\ RearmInv'
    BY <1>1, <1>2, <2>1, <2>2 DEF TableInv, RearmInv, Lives
  <2>5. ButtonInv'
    <3>1. button'.task = timers[id]
      BY <2>1
    <3>2. \A j \in Ids : timers'[j] # timers[id]
      BY <2>1, <2>2
    <3>3. QED
      BY <2>1, <2>3, <3>1, <3>2 DEF ButtonInv
  <2>6. AlarmIsReachable'
    <3> SUFFICES ASSUME NEW t \in Tasks, pc[t] \in PollingPcs \cup WaitingPcs,
                        ~aborted[t], t # timers[id]
                 PROVE  timers'[idOf[t]] = t
      BY <2>1 DEF AlarmIsReachable
    <3>1. timers[idOf[t]] = t /\ idOf[t] \in Ids
      BY <1>2, <2>1 DEF AlarmIsReachable, Idle, IInv, TypeOK
    <3>2. idOf[t] # id
      BY <3>1
    <3>3. QED
      BY <2>2, <3>1, <3>2
  <2>7. RingInv' /\ FreshInv' /\ LateInv' /\ RemovedFallsSilent'
    BY <1>2, <2>1 DEF RingInv, FreshInv, LateInv, RemovedFallsSilent, lateVars
  <2>8. QED
    BY <2>4, <2>5, <2>6, <2>7
<1>14. ASSUME NEW id \in Ids, DismissUnknown(id) PROVE Rest'
  BY <1>3, <1>14 DEF DismissUnknown, taskVars
<1>15. CASE EngineFails
  <2>1. /\ pc' = [t \in Tasks |-> IF pc[t] = "unborn" THEN "unborn" ELSE "dead"]
        /\ timers' = [id \in Ids |-> NoTask] /\ rearm = {} /\ rearm' = {}
        /\ button = Idle /\ button' = Idle
        /\ UNCHANGED <<idOf, ringing, aborted, lateVars>>
    BY <1>15 DEF EngineFails, WorkerFree, screenVars
  <2>2. TableInv' /\ RearmInv' /\ ButtonInv'
    BY <2>1 DEF TableInv, RearmInv, ButtonInv
  <2>3. RingInv' /\ FreshInv' /\ LateInv' /\ RemovedFallsSilent'
    BY <1>2, <2>1 DEF RingInv, FreshInv, LateInv, RemovedFallsSilent, lateVars
  <2>4. AlarmIsReachable'
    BY <2>1 DEF AlarmIsReachable, PollingPcs, WaitingPcs
  <2>5. QED
    BY <2>2, <2>3, <2>4
<1>16. CASE UNCHANGED vars
  BY <1>3, <1>16 DEF vars, taskVars, screenVars
<1>17. QED
  BY <1>4, <1>5, <1>6, <1>7, <1>8, <1>9, <1>10, <1>11, <1>12, <1>13, <1>14,
     <1>15, <1>16 DEF Next, TurnStep, ScreenStep

\* Every reachable state satisfies the inductive invariant.
THEOREM Invariance == Spec => []IInv
  BY InitIInv, InvStep, PTL DEF Spec

\* The types.
THEOREM TypeCorrect == Spec => []TypeOK
<1>1. IInv => TypeOK
  BY DEF IInv
<1>2. QED
  BY <1>1, Invariance, PTL

\* No alarm can sound that neither "stop" nor the button would reach.
THEOREM AlarmAlwaysReachable == Spec => []AlarmIsReachable
<1>1. IInv => AlarmIsReachable
  BY DEF IInv
<1>2. QED
  BY <1>1, Invariance, PTL

\* After it was aborted a task plays at most the alarm it began.
THEOREM RemovedAlwaysFallsSilent == Spec => []RemovedFallsSilent
<1>1. IInv => RemovedFallsSilent
  BY DEF IInv
<1>2. QED
  BY <1>1, Invariance, PTL

\* Steps that touch neither the table nor what rings do not show in TimerTable.
LEMMA Unseen ==
  ASSUME UNCHANGED <<timers, nextId, rearm, ringing>>
  PROVE  UNCHANGED Status
  BY DEF Status, Rings

\* The table of timers implements TimerTable: the first state is its first, and
\* every step is a step of it or does not show.
LEMMA RefinesInit == Init => Table!Init
  BY FirstId DEF Init, Table!Init, Status, Ids

\* What a timer's status is, case by case.
LEMMA StatusIs ==
  ASSUME NEW id \in Ids, nextId \in Nat
  PROVE  /\ id >= nextId => Status[id] = "unset"
         /\ id < nextId /\ timers[id] # NoTask /\ Rings(id) => Status[id] = "ringing"
         /\ id < nextId /\ timers[id] # NoTask /\ ~Rings(id) => Status[id] = "counting"
         /\ id < nextId /\ timers[id] = NoTask /\ (\E e \in rearm : e[1] = id)
              => Status[id] = "counting"
         /\ id < nextId /\ timers[id] = NoTask /\ ~(\E e \in rearm : e[1] = id)
              => Status[id] = "off"
  BY DEF Status, Ids

\* The same of the state after a step.
LEMMA StatusWillBe ==
  ASSUME NEW id \in Ids, nextId' \in Nat
  PROVE  /\ id >= nextId' => Status'[id] = "unset"
         /\ id < nextId' /\ timers'[id] # NoTask /\ Rings(id)' => Status'[id] = "ringing"
         /\ id < nextId' /\ timers'[id] # NoTask /\ ~Rings(id)' => Status'[id] = "counting"
         /\ id < nextId' /\ timers'[id] = NoTask /\ (\E e \in rearm' : e[1] = id)
              => Status'[id] = "counting"
         /\ id < nextId' /\ timers'[id] = NoTask /\ ~(\E e \in rearm' : e[1] = id)
              => Status'[id] = "off"
  BY DEF Status, Ids

\* Status is a function, before a step and after it.
LEMMA StatusIsFunction ==
  ASSUME nextId \in Nat, nextId' \in Nat
  PROVE  /\ Status = [id \in Ids |-> Status[id]]
         /\ Status' = [id \in Ids |-> Status'[id]]
<1>1. Status \in [Ids -> {"unset", "counting", "ringing", "off"}]
  BY DEF Status, Ids
<1>2. Status' \in [Ids -> {"unset", "counting", "ringing", "off"}]
  BY DEF Status, Ids
<1>3. QED
  BY <1>1, <1>2

\* A step after which every timer has the status it had.
LEMMA SameStatus ==
  ASSUME nextId \in Nat, nextId' \in Nat,
         \A id \in Ids : Status'[id] = Status[id]
  PROVE  UNCHANGED Status
<1> DEFINE F == [id \in Ids |-> Status[id]]
           G == [id \in Ids |-> Status'[id]]
<1>1. F = G
  OBVIOUS
<1>2. QED
  BY <1>1, StatusIsFunction

\* A step after which one timer has another status.
LEMMA OneStatus ==
  ASSUME nextId \in Nat, nextId' \in Nat,
         NEW id \in Ids, NEW s, Status'[id] = s,
         \A j \in Ids : j # id => Status'[j] = Status[j]
  PROVE  Status' = [Status EXCEPT ![id] = s]
<1> DEFINE F == [j \in Ids |-> Status[j]]
           G == [j \in Ids |-> Status'[j]]
<1>1. G = [F EXCEPT ![id] = s]
  OBVIOUS
<1>2. QED
  BY <1>1, StatusIsFunction

\* A step that turns some timers off.
LEMMA OffStatus ==
  ASSUME nextId \in Nat, nextId' \in Nat,
         NEW S \in SUBSET Ids, \A id \in S : Status'[id] = "off",
         \A id \in Ids \ S : Status'[id] = Status[id]
  PROVE  Status' = [id \in Ids |-> IF id \in S THEN "off" ELSE Status[id]]
<1> DEFINE G == [j \in Ids |-> Status'[j]]
<1>1. G = [id \in Ids |-> IF id \in S THEN "off" ELSE Status[id]]
  OBVIOUS
<1>2. QED
  BY <1>1, StatusIsFunction

LEMMA RefinesStep == IInv /\ IInv' /\ [Next]_vars => [Table!Next]_Status
<1> SUFFICES ASSUME IInv, IInv', [Next]_vars PROVE [Table!Next]_Status
  OBVIOUS
<1>1. /\ timers \in [Ids -> Tasks \cup {NoTask}] /\ nextId \in Nat \ {0}
      /\ rearm \subseteq (Ids \X AnyLabel) /\ ringing \in [Tasks -> BOOLEAN]
      /\ idOf \in [Tasks -> Ids] /\ nextId' \in Nat
  BY DEF IInv, TypeOK
<1>2. ASSUME UNCHANGED <<timers, nextId, rearm, ringing>> PROVE UNCHANGED Status
  BY <1>2, Unseen
<1>3. CASE TurnBegins \/ TurnEnds
  BY <1>2, <1>3 DEF TurnBegins, TurnEnds, tableVars, taskVars
<1>4. ASSUME NEW t \in Tasks, NEW label \in AnyLabel, Start(t, label)
      PROVE  Table!Next
  <2>1. /\ nextId \in Ids /\ nextId' = nextId + 1 /\ rearm = {} /\ rearm' = {}
        /\ timers' = [timers EXCEPT ![nextId] = t] /\ ringing' = ringing
        /\ pc[t] = "unborn"
    BY <1>4 DEF Start, SpawnCountdown, WorkerFree
  <2>2. ~ringing[t] /\ t # NoTask
    BY <2>1, TasksAssumption DEF IInv, RingInv
  <2>3. Status[nextId] = "unset"
    BY <1>1, <2>1, StatusIs
  <2>4. Status'[nextId] = "counting"
    BY <1>1, <2>1, <2>2, StatusWillBe DEF Rings
  <2>5. \A id \in Ids : id # nextId => Status'[id] = Status[id]
    BY <1>1, <2>1 DEF Status, Rings, Ids
  <2>6. Status' = [Status EXCEPT ![nextId] = "counting"]
    BY <1>1, <2>1, <2>4, <2>5, OneStatus
  <2>7. QED
    BY <2>1, <2>3, <2>6 DEF Table!Next, Table!Set
<1>5. ASSUME NEW label \in AnyLabel, Cancel(label) PROVE Table!Next
  <2> DEFINE S == ToCancel(label)
  <2>1. /\ RemoveAll(S) /\ rearm = {} /\ rearm' = {}
        /\ UNCHANGED <<nextId, ringing>>
    BY <1>5 DEF Cancel, WorkerFree
  <2>2. S \in SUBSET Ids /\ \A id \in S : timers[id] # NoTask
    BY DEF ToCancel, Matching, Set
  <2>3. \A id \in S : id < nextId
    BY <2>2 DEF IInv, TableInv
  <2>4. \A id \in S : Status[id] \in {"counting", "ringing"}
    BY <1>1, <2>2, <2>3, StatusIs
  <2>5. \A id \in S : Status'[id] = "off"
    BY <1>1, <2>1, <2>2, <2>3, StatusWillBe DEF RemoveAll
  <2>6. \A id \in Ids \ S : Status'[id] = Status[id]
    BY <1>1, <2>1 DEF Status, Rings, RemoveAll
  <2>7. Status' = [id \in Ids |-> IF id \in S THEN "off" ELSE Status[id]]
    BY <1>1, <2>2, <2>5, <2>6, OffStatus
  <2>8. QED
    BY <2>2, <2>4, <2>7 DEF Table!Next, Table!TurnOff
<1>6. ASSUME NEW label \in AnyLabel, Adjust(label) PROVE UNCHANGED Status
  <2> DEFINE S == {id \in Matching(label) : ~Rings(id)}
  <2>1. /\ RemoveAll(S) /\ rearm = {}
        /\ rearm' = {<<id, labelOf[timers[id]]>> : id \in S}
        /\ UNCHANGED <<nextId, ringing>>
    BY <1>6 DEF Adjust, WorkerFree
  <2>2. S \in SUBSET Ids /\ \A id \in S : timers[id] # NoTask /\ ~Rings(id)
    BY DEF Matching, Set
  <2>3. \A id \in S : id < nextId
    BY <2>2 DEF IInv, TableInv
  <2>4. \A id \in Ids : (\E e \in rearm' : e[1] = id) <=> id \in S
    <3> TAKE id \in Ids
    <3> DEFINE entry == <<id, labelOf[timers[id]]>>
    <3>1. ASSUME id \in S PROVE \E e \in rearm' : e[1] = id
      <4>1. entry \in rearm' /\ entry[1] = id
        BY <2>1, <3>1
      <4>2. QED
        BY <4>1
    <3>2. ASSUME NEW e \in rearm', e[1] = id PROVE id \in S
      <4>1. PICK j \in S : e = <<j, labelOf[timers[j]]>>
        BY <2>1
      <4>2. QED
        BY <3>2, <4>1
    <3>3. QED
      BY <3>1, <3>2
  <2>5. \A id \in S : Status[id] = "counting" /\ Status'[id] = "counting"
    BY <1>1, <2>1, <2>2, <2>3, <2>4, StatusIs, StatusWillBe DEF RemoveAll
  <2>6. \A id \in Ids \ S : Status'[id] = Status[id]
    <3> TAKE id \in Ids \ S
    <3>1. timers'[id] = timers[id] /\ Rings(id)' = Rings(id)
      BY <2>1 DEF RemoveAll, Rings
    <3>2. ~(\E e \in rearm' : e[1] = id) /\ ~(\E e \in rearm : e[1] = id)
      BY <2>1, <2>4
    <3>3. QED
      BY <1>1, <2>1, <3>1, <3>2 DEF Status
  <2>7. \A id \in Ids : Status'[id] = Status[id]
    BY <2>5, <2>6
  <2>8. QED
    BY <1>1, <2>7, SameStatus
<1>7. ASSUME NEW t \in Tasks, NEW e \in rearm, Rearm(t, e) PROVE UNCHANGED Status
  <2>1. /\ timers' = [timers EXCEPT ![e[1]] = t] /\ rearm' = rearm \ {e}
        /\ UNCHANGED <<nextId, ringing>> /\ pc[t] = "unborn"
    BY <1>7 DEF Rearm, SpawnCountdown
  <2>2. e[1] \in Ids /\ timers[e[1]] = NoTask /\ e[1] < nextId
    BY <1>1 DEF IInv, RearmInv
  <2>3. ~ringing[t] /\ t # NoTask
    BY <2>1, TasksAssumption DEF IInv, RingInv
  <2>4. Status[e[1]] = "counting"
    BY <1>1, <2>2, StatusIs
  <2>5. Status'[e[1]] = "counting"
    BY <1>1, <2>1, <2>2, <2>3, StatusWillBe DEF Rings
  <2>6. \A id \in Ids : id # e[1] =>
          /\ timers'[id] = timers[id] /\ Rings(id)' = Rings(id)
          /\ (\E f \in rearm' : f[1] = id) <=> (\E f \in rearm : f[1] = id)
    BY <1>1, <2>1 DEF Rings
  <2>7. \A id \in Ids : id # e[1] => Status'[id] = Status[id]
    BY <1>1, <2>1, <2>6 DEF Status
  <2>8. \A id \in Ids : Status'[id] = Status[id]
    BY <2>4, <2>5, <2>7
  <2>9. QED
    BY <1>1, <2>8, SameStatus
<1>8. ASSUME NEW t \in Tasks, Fire(t) PROVE [Table!Next]_Status
  <2>1. /\ pc[t] = "counting" /\ ~aborted[t]
        /\ ringing' = [ringing EXCEPT ![t] = TRUE]
        /\ UNCHANGED <<timers, nextId, rearm>>
    BY <1>8 DEF Fire, Resumes, Goes, tableVars
  <2>2. ~ringing[t]
    BY <2>1 DEF IInv, RingInv
  <2>3. \A id \in Ids : timers[id] # t /\ timers[id] # NoTask => Rings(id)' = Rings(id)
    BY <1>1, <2>1 DEF Rings
  <2>4. \A id \in Ids : timers[id] # t => Status'[id] = Status[id]
    BY <1>1, <2>1, <2>3 DEF Status
  <2>5. CASE \A id \in Ids : timers[id] # t
    BY <1>1, <2>4, <2>5, SameStatus
  <2>6. ASSUME NEW id \in Ids, timers[id] = t PROVE Table!Next
    <3>1. \A j \in Ids : j # id => timers[j] # t
      BY <2>6, TasksAssumption DEF IInv, TableInv
    <3>2. id < nextId /\ t # NoTask
      BY <2>6, TasksAssumption DEF IInv, TableInv
    <3>3. Status[id] = "counting"
      BY <1>1, <2>2, <2>6, <3>2, StatusIs DEF Rings
    <3>4. Status'[id] = "ringing"
      BY <1>1, <2>1, <2>6, <3>2, StatusWillBe DEF Rings
    <3>5. Status' = [Status EXCEPT ![id] = "ringing"]
      BY <1>1, <2>4, <3>1, <3>4, OneStatus
    <3>6. QED
      BY <3>3, <3>5 DEF Table!Next, Table!Ring
  <2>7. QED
    BY <2>5, <2>6
<1>9. ASSUME NEW t \in Tasks, TaskStep(t), ~Fire(t) PROVE UNCHANGED Status
  BY <1>2, <1>9 DEF TaskStep, FirstPoll, EmitStarted, EmitFinished, CheckTurn,
    Bell, Announce, Repeat, tableVars
<1>10. ASSUME NEW t \in Tasks, NEW a \in {"none", "cached"}, SynthesisEnds(t, a)
       PROVE  UNCHANGED Status
  BY <1>2, <1>10 DEF SynthesisEnds, tableVars
<1>11. CASE ScreenEvent \/ DismissAbort \/ DismissEmit
  BY <1>2, <1>11 DEF ScreenEvent, DismissAbort, DismissEmit, tableVars, taskVars
<1>12. ASSUME NEW id \in Ids, DismissRemove(id) PROVE Table!Next
  <2>1. /\ timers[id] # NoTask /\ timers' = [timers EXCEPT ![id] = NoTask]
        /\ UNCHANGED <<nextId, rearm, ringing>>
    BY <1>12 DEF DismissRemove, taskVars
  <2>2. id < nextId /\ ~(\E e \in rearm' : e[1] = id)
    BY <2>1 DEF IInv, TableInv, RearmInv
  <2>3. Status[id] \in {"counting", "ringing"}
    BY <1>1, <2>1, <2>2, StatusIs
  <2>4. Status'[id] = "off"
    BY <1>1, <2>1, <2>2, StatusWillBe
  <2>5. \A j \in Ids : j # id => Status'[j] = Status[j]
    BY <1>1, <2>1 DEF Status, Rings
  <2>6. Status' = [j \in Ids |-> IF j \in {id} THEN "off" ELSE Status[j]]
    <3>1. {id} \in SUBSET Ids /\ \A j \in {id} : Status'[j] = "off"
      BY <2>4
    <3>2. \A j \in Ids \ {id} : Status'[j] = Status[j]
      BY <2>5
    <3>3. QED
      BY <1>1, <3>1, <3>2, OffStatus
  <2>7. QED
    BY <2>3, <2>6 DEF Table!Next, Table!TurnOff
<1>13. ASSUME NEW id \in Ids, DismissUnknown(id) PROVE UNCHANGED Status
  BY <1>2, <1>13 DEF DismissUnknown, tableVars, taskVars
<1>14. CASE EngineFails
  <2>1. nextId' = 1
    BY <1>14 DEF EngineFails
  <2>2. Status' = [id \in Ids |-> "unset"]
    BY <2>1 DEF Status, Ids
  <2>3. QED
    BY <2>2 DEF Table!Next, Table!StartOver
<1>15. CASE UNCHANGED vars
  BY <1>2, <1>15 DEF vars, tableVars, taskVars
<1>16. QED
  BY <1>3, <1>4, <1>5, <1>6, <1>7, <1>8, <1>9, <1>10, <1>11, <1>12, <1>13,
     <1>14, <1>15 DEF Next, TurnStep, ScreenStep

\* The timers are TimerTable, whoever turns them off and whenever.
THEOREM ImplementsTimerTable == Spec => TableRefinement
<1>1. Init => Table!Init
  BY RefinesInit
<1>2. IInv /\ IInv' /\ [Next]_vars => [Table!Next]_Status
  BY RefinesStep
<1>3. QED
  BY <1>1, <1>2, Invariance, PTL DEF Spec, TableRefinement, Table!Spec
-----------------------------------------------------------------------------
(* The screen.  While no adjust and no failure has disturbed them, a timer  *)
(* has one task and its chip follows from that task's place and from the    *)
(* events about it that the screen has not read: at most "started", then    *)
(* "finished", then, once the timer has gone, "cancelled".                  *)

Calm == budget.failures = MaxFailures /\ budget.adjusts = MaxAdjusts

BudgetInv == budget.failures <= MaxFailures /\ budget.adjusts <= MaxAdjusts

\* The unread events about a timer, by their place in the stream.
Starts ==
  [id \in Ids |-> {i \in 1 .. Len(events) :
                     events[i].kind = "started" /\ id \in events[i].ids}]
Finishes ==
  [id \in Ids |-> {i \in 1 .. Len(events) :
                     events[i].kind = "finished" /\ id \in events[i].ids}]
Cancels ==
  [id \in Ids |-> {i \in 1 .. Len(events) :
                     events[i].kind = "cancelled" /\ id \in events[i].ids}]

EarlyPcs == {"queued", "starting"}
PastPcs == AlarmPcs \ {"fired"}      \* "finished" has been sent

\* A timer keeps its one task; a task in its first poll is in the table.
OwnInv ==
  /\ rearm = {}
  /\ \A t \in Tasks : pc[t] # "unborn" =>
       idOf[t] < nextId /\ timers[idOf[t]] \in {t, NoTask}
  /\ \A t \in Tasks : pc[t] = "starting" => timers[idOf[t]] = t
  /\ button.stage = "removed" => pc[button.task] \notin EarlyPcs
  /\ button # Idle => timers[button.id] = NoTask /\ button.id < nextId
  /\ \A t \in Tasks : pc[t] \in AlarmPcs => ringing[t]

\* A timer of the table, by where its task is.
LiveChip(id) ==
  timers[id] # NoTask =>
    /\ Cancels[id] = {}
    /\ pc[timers[id]] \in EarlyPcs => chips[id] = "absent" /\ Starts[id] = {}
    /\ pc[timers[id]] \notin EarlyPcs /\ Starts[id] = {} => chips[id] # "absent"
    /\ \A i \in Starts[id], j \in Finishes[id] : i < j
    /\ pc[timers[id]] \in PastPcs /\ Starts[id] # {} => Finishes[id] # {}
    /\ pc[timers[id]] \in PastPcs /\ Finishes[id] = {} => chips[id] = "finished"
    /\ chips[id] = "finished" \/ Finishes[id] # {} => pc[timers[id]] \in PastPcs

\* A timer not set yet.
UnsetChip(id) ==
  id >= nextId =>
    /\ chips[id] = "absent"
    /\ Starts[id] = {} /\ Finishes[id] = {} /\ Cancels[id] = {}

\* A timer that has gone, once the button has let go of it.
GoneChip(id) ==
  /\ timers[id] = NoTask
  /\ id < nextId
  /\ ~(button # Idle /\ button.id = id)
  => \/ chips[id] = "absent" /\ Starts[id] = {}
     \/ \E i \in Cancels[id] : \A j \in Starts[id] : j < i

ChipOK(id) == LiveChip(id) /\ UnsetChip(id) /\ GoneChip(id)

CalmParts == OwnInv /\ \A id \in Ids : ChipOK(id)

CalmInv == BudgetInv /\ (Calm => CalmParts)

-----------------------------------------------------------------------------
(* The stream of events.                                                    *)

LEMMA StreamSame ==
  ASSUME events' = events
  PROVE  Starts' = Starts /\ Finishes' = Finishes /\ Cancels' = Cancels
BY DEF Starts, Finishes, Cancels

\* An event that is sent comes last.
LEMMA StreamGrows ==
  ASSUME events \in Seq(TimerEvents), NEW kind, NEW S,
         events' = Append(events, [kind |-> kind, ids |-> S])
  PROVE  LET last == Len(events) + 1
         IN  \A id \in Ids :
               /\ IF kind = "started" /\ id \in S
                    THEN Starts'[id] = Starts[id] \cup {last}
                    ELSE Starts'[id] = Starts[id]
               /\ IF kind = "finished" /\ id \in S
                    THEN Finishes'[id] = Finishes[id] \cup {last}
                    ELSE Finishes'[id] = Finishes[id]
               /\ IF kind = "cancelled" /\ id \in S
                    THEN Cancels'[id] = Cancels[id] \cup {last}
                    ELSE Cancels'[id] = Cancels[id]
               /\ \A i \in Starts[id] \cup Finishes[id] \cup Cancels[id] :
                    i < last
<1> DEFINE last == Len(events) + 1
<1>1. /\ Len(events) \in Nat
      /\ Len(events') = last
      /\ \A i \in 1 .. Len(events) : events'[i] = events[i]
      /\ events'[last].kind = kind /\ events'[last].ids = S
  OBVIOUS
<1>2. /\ 1 .. Len(events') = (1 .. Len(events)) \cup {last}
      /\ last \notin 1 .. Len(events)
      /\ \A i \in 1 .. Len(events) : i < last
  BY <1>1
<1> HIDE DEF last
<1>3. ASSUME NEW id \in Ids
      PROVE  /\ IF kind = "started" /\ id \in S
                    THEN Starts'[id] = Starts[id] \cup {last}
                    ELSE Starts'[id] = Starts[id]
             /\ IF kind = "finished" /\ id \in S
                    THEN Finishes'[id] = Finishes[id] \cup {last}
                    ELSE Finishes'[id] = Finishes[id]
             /\ IF kind = "cancelled" /\ id \in S
                    THEN Cancels'[id] = Cancels[id] \cup {last}
                    ELSE Cancels'[id] = Cancels[id]
  <2>1. IF kind = "started" /\ id \in S
          THEN Starts'[id] = Starts[id] \cup {last}
          ELSE Starts'[id] = Starts[id]
    BY <1>1, <1>2 DEF Starts
  <2>2. IF kind = "finished" /\ id \in S
          THEN Finishes'[id] = Finishes[id] \cup {last}
          ELSE Finishes'[id] = Finishes[id]
    BY <1>1, <1>2 DEF Finishes
  <2>3. IF kind = "cancelled" /\ id \in S
          THEN Cancels'[id] = Cancels[id] \cup {last}
          ELSE Cancels'[id] = Cancels[id]
    BY <1>1, <1>2 DEF Cancels
  <2>4. QED
    BY <2>1, <2>2, <2>3
<1>4. \A id \in Ids : \A i \in Starts[id] \cup Finishes[id] \cup Cancels[id] :
        i < last
  BY <1>2 DEF Starts, Finishes, Cancels
<1>5. QED
  BY <1>3, <1>4 DEF last

\* An event that is read was the first; the others move up.
LEMMA StreamRead ==
  ASSUME events \in Seq(TimerEvents), events # << >>, events' = Tail(events)
  PROVE  LET e == Head(events)
         IN  \A id \in Ids :
               /\ \A i \in Nat :
                    i \in Starts'[id] <=> i + 1 \in Starts[id] /\ i # 0
               /\ \A i \in Nat :
                    i \in Finishes'[id] <=> i + 1 \in Finishes[id] /\ i # 0
               /\ \A i \in Nat :
                    i \in Cancels'[id] <=> i + 1 \in Cancels[id] /\ i # 0
               /\ 1 \in Starts[id] <=> e.kind = "started" /\ id \in e.ids
               /\ 1 \in Finishes[id] <=> e.kind = "finished" /\ id \in e.ids
               /\ 1 \in Cancels[id] <=> e.kind = "cancelled" /\ id \in e.ids
<1>1. /\ Len(events) \in Nat /\ Len(events) >= 1
      /\ Len(events') = Len(events) - 1
      /\ \A i \in 1 .. Len(events') : events'[i] = events[i + 1]
      /\ Head(events) = events[1]
  OBVIOUS
<1>2. ASSUME NEW i \in Nat
      PROVE  i \in 1 .. Len(events') <=> i + 1 \in 1 .. Len(events) /\ i # 0
  BY <1>1
<1>3. ASSUME NEW id \in Ids, NEW i \in Nat
      PROVE  /\ i \in Starts'[id] <=> i + 1 \in Starts[id] /\ i # 0
             /\ i \in Finishes'[id] <=> i + 1 \in Finishes[id] /\ i # 0
             /\ i \in Cancels'[id] <=> i + 1 \in Cancels[id] /\ i # 0
  <2>1. i \in Starts'[id] <=> i + 1 \in Starts[id] /\ i # 0
    BY <1>1, <1>2 DEF Starts
  <2>2. i \in Finishes'[id] <=> i + 1 \in Finishes[id] /\ i # 0
    BY <1>1, <1>2 DEF Finishes
  <2>3. i \in Cancels'[id] <=> i + 1 \in Cancels[id] /\ i # 0
    BY <1>1, <1>2 DEF Cancels
  <2>4. QED
    BY <2>1, <2>2, <2>3
<1>4. ASSUME NEW id \in Ids
      PROVE  /\ 1 \in Starts[id] <=>
                  Head(events).kind = "started" /\ id \in Head(events).ids
             /\ 1 \in Finishes[id] <=>
                  Head(events).kind = "finished" /\ id \in Head(events).ids
             /\ 1 \in Cancels[id] <=>
                  Head(events).kind = "cancelled" /\ id \in Head(events).ids
  BY <1>1 DEF Starts, Finishes, Cancels
<1>5. QED
  BY <1>3, <1>4

LEMMA StreamTypes ==
  \A id \in Ids : /\ Starts[id] \subseteq Nat \ {0}
                  /\ Finishes[id] \subseteq Nat \ {0}
                  /\ Cancels[id] \subseteq Nat \ {0}
                  /\ Starts'[id] \subseteq Nat \ {0}
                  /\ Finishes'[id] \subseteq Nat \ {0}
                  /\ Cancels'[id] \subseteq Nat \ {0}
BY DEF Starts, Finishes, Cancels

-----------------------------------------------------------------------------
(* What a step does to one timer's chip.                                    *)

\* The place of the task changes nothing for the chip.
SamePlace(t) ==
  /\ pc'[t] \in EarlyPcs <=> pc[t] \in EarlyPcs
  /\ pc'[t] \in PastPcs <=> pc[t] \in PastPcs

LEMMA ChipUntouched ==
  ASSUME NEW id \in Ids, ChipOK(id),
         timers'[id] = timers[id], chips'[id] = chips[id],
         id >= nextId' => id >= nextId, id < nextId' => id < nextId,
         Starts'[id] = Starts[id], Finishes'[id] = Finishes[id],
         Cancels'[id] = Cancels[id],
         timers[id] # NoTask => SamePlace(timers[id]),
         button # Idle /\ button.id = id => button' # Idle /\ button'.id = id
  PROVE  ChipOK(id)'
<1>1. LiveChip(id)'
  BY DEF ChipOK, LiveChip, SamePlace
<1>2. UnsetChip(id)'
  BY DEF ChipOK, UnsetChip
<1>3. GoneChip(id)'
  BY DEF ChipOK, GoneChip
<1>4. QED
  BY <1>1, <1>2, <1>3 DEF ChipOK

\* The steps that say nothing and leave table and screen alone.
Silent ==
  /\ UNCHANGED <<timers, nextId, chips, events, button>>
  /\ \A t \in Tasks : SamePlace(t)

LEMMA SilentChips ==
  ASSUME TypeOK, NEW id \in Ids, ChipOK(id), Silent
  PROVE  ChipOK(id)'
<1>1. /\ Starts' = Starts /\ Finishes' = Finishes /\ Cancels' = Cancels
  BY StreamSame DEF Silent
<1>2. timers[id] # NoTask => timers[id] \in Tasks
  BY DEF TypeOK
<1>3. QED
  BY <1>1, <1>2, ChipUntouched DEF Silent

\* An event about other timers.
LEMMA OthersChips ==
  ASSUME TypeOK, NEW id \in Ids, ChipOK(id), NEW kind, NEW S, id \notin S,
         events' = Append(events, [kind |-> kind, ids |-> S]),
         timers'[id] = timers[id], chips'[id] = chips[id], nextId' = nextId,
         timers[id] # NoTask => SamePlace(timers[id]),
         button # Idle /\ button.id = id => button' # Idle /\ button'.id = id
  PROVE  ChipOK(id)'
<1>1. /\ Starts'[id] = Starts[id] /\ Finishes'[id] = Finishes[id]
      /\ Cancels'[id] = Cancels[id]
  <2>1. events \in Seq(TimerEvents)
    BY DEF TypeOK
  <2>2. QED
    BY <2>1, StreamGrows
<1>2. QED
  BY <1>1, ChipUntouched

\* "started": the first about its timer.
LEMMA StartedChip ==
  ASSUME TypeOK, NEW id \in Ids, ChipOK(id), NEW t \in Tasks,
         timers[id] = t, id < nextId, pc[t] = "starting", pc'[t] = "counting",
         events' = Append(events, [kind |-> "started", ids |-> {id}]),
         UNCHANGED <<timers, nextId, chips, button>>
  PROVE  ChipOK(id)'
<1>1. /\ chips[id] = "absent" /\ Starts[id] = {} /\ Cancels[id] = {}
      /\ Finishes[id] = {}
  BY TasksAssumption
  DEF ChipOK, LiveChip, EarlyPcs, PastPcs, AlarmPcs
<1>2. /\ Starts'[id] = {Len(events) + 1} /\ Finishes'[id] = {}
      /\ Cancels'[id] = {}
  <2>1. events \in Seq(TimerEvents)
    BY DEF TypeOK
  <2>2. QED
    BY <1>1, <2>1, StreamGrows
<1>3. LiveChip(id)'
  BY <1>1, <1>2 DEF LiveChip, EarlyPcs, PastPcs, AlarmPcs
<1>4. UnsetChip(id)'
  BY DEF UnsetChip, TypeOK, Ids
<1>5. GoneChip(id)'
  BY TasksAssumption DEF GoneChip
<1>6. QED
  BY <1>3, <1>4, <1>5 DEF ChipOK

\* "finished": of a timer in the table, or of one that has gone.
LEMMA FinishedChip ==
  ASSUME TypeOK, NEW id \in Ids, ChipOK(id), NEW t \in Tasks,
         timers[id] \in {t, NoTask}, id < nextId,
         pc[t] = "fired", pc'[t] \in PastPcs,
         events' = Append(events, [kind |-> "finished", ids |-> {id}]),
         UNCHANGED <<timers, nextId, chips, button>>
  PROVE  ChipOK(id)'
<1> DEFINE last == Len(events) + 1
<1>1. /\ Starts'[id] = Starts[id] /\ Finishes'[id] = Finishes[id] \cup {last}
      /\ Cancels'[id] = Cancels[id]
      /\ \A i \in Starts[id] \cup Finishes[id] : i < last
  <2>1. events \in Seq(TimerEvents)
    BY DEF TypeOK
  <2>2. QED
    BY <2>1, StreamGrows
<1> HIDE DEF last
<1>2. CASE timers[id] = t
  <2>1. /\ Finishes[id] = {} /\ chips[id] # "finished" /\ Cancels[id] = {}
        /\ Starts[id] = {} => chips[id] # "absent"
    BY <1>2, TasksAssumption
    DEF ChipOK, LiveChip, EarlyPcs, PastPcs, AlarmPcs
  <2>2. pc'[t] \notin EarlyPcs
    BY DEF EarlyPcs, PastPcs, AlarmPcs
  <2>3. LiveChip(id)'
    BY <1>1, <1>2, <2>1, <2>2 DEF LiveChip
  <2>4. UnsetChip(id)'
    BY DEF UnsetChip, TypeOK, Ids
  <2>5. GoneChip(id)'
    BY <1>2, TasksAssumption DEF GoneChip
  <2>6. QED
    BY <2>3, <2>4, <2>5 DEF ChipOK
<1>3. CASE timers[id] = NoTask
  <2>1. LiveChip(id)'
    BY <1>3 DEF LiveChip
  <2>2. UnsetChip(id)'
    BY DEF UnsetChip, TypeOK, Ids
  <2>3. GoneChip(id)'
    BY <1>1, <1>3 DEF GoneChip, ChipOK
  <2>4. QED
    BY <2>1, <2>2, <2>3 DEF ChipOK
<1>4. QED
  BY <1>2, <1>3

\* "cancelled": the last of a timer that has left the table.
LEMMA CancelledChip ==
  ASSUME TypeOK, NEW id \in Ids, id < nextId, NEW S, id \in S,
         events' = Append(events, [kind |-> "cancelled", ids |-> S]),
         timers'[id] = NoTask, nextId' = nextId
  PROVE  ChipOK(id)'
<1> DEFINE last == Len(events) + 1
<1>1. /\ Starts'[id] = Starts[id] /\ last \in Cancels'[id]
      /\ \A i \in Starts[id] : i < last
  <2>1. events \in Seq(TimerEvents)
    BY DEF TypeOK
  <2>2. QED
    BY <2>1, StreamGrows
<1> HIDE DEF last
<1>2. GoneChip(id)'
  BY <1>1 DEF GoneChip
<1>3. LiveChip(id)' /\ UnsetChip(id)'
  BY DEF LiveChip, UnsetChip, TypeOK, Ids
<1>4. QED
  BY <1>2, <1>3 DEF ChipOK

\* A timer is set: nothing was ever said about it.
LEMMA SetChip ==
  ASSUME TypeOK, NEW id \in Ids, ChipOK(id), NEW t \in Tasks, id = nextId,
         timers'[id] = t, pc'[t] = "queued", nextId' = nextId + 1,
         UNCHANGED <<chips, events>>
  PROVE  ChipOK(id)'
<1>1. /\ chips[id] = "absent" /\ Starts'[id] = {} /\ Finishes'[id] = {}
      /\ Cancels'[id] = {}
  BY StreamSame DEF ChipOK, UnsetChip, TypeOK
<1>2. LiveChip(id)'
  BY <1>1 DEF LiveChip, EarlyPcs, PastPcs, AlarmPcs
<1>3. UnsetChip(id)' /\ GoneChip(id)'
  BY TasksAssumption DEF UnsetChip, GoneChip, TypeOK, Ids
<1>4. QED
  BY <1>2, <1>3 DEF ChipOK

\* The screen reads an event.
LEMMA ReadChip ==
  ASSUME TypeOK, NEW id \in Ids, ChipOK(id), ScreenEvent
  PROVE  ChipOK(id)'
<1> DEFINE e == Head(events)
<1> DEFINE about == id \in e.ids
<1>1. /\ events \in Seq(TimerEvents) /\ events # << >> /\ events' = Tail(events)
      /\ button = Idle /\ button' = button
      /\ UNCHANGED <<timers, nextId, pc>>
      /\ e \in TimerEvents
  BY DEF TypeOK, ScreenEvent, tableVars, taskVars
<1>2. /\ e.kind \in {"started", "finished", "cancelled"}
      /\ chips[id] \in {"absent", "counting", "finished"}
      /\ ~about => chips'[id] = chips[id]
      /\ about /\ e.kind = "started" => chips'[id] = "counting"
      /\ about /\ e.kind = "finished" /\ chips[id] = "absent" =>
           chips'[id] = "absent"
      /\ about /\ e.kind = "finished" /\ chips[id] # "absent" =>
           chips'[id] = "finished"
      /\ about /\ e.kind = "cancelled" => chips'[id] = "absent"
  <2>1. /\ e.kind \in {"started", "finished", "cancelled"}
        /\ chips[id] \in {"absent", "counting", "finished"}
    BY <1>1 DEF TypeOK, TimerEvents
  <2>2. chips'[id] =
          IF id \notin e.ids THEN chips[id]
          ELSE CASE e.kind = "started" -> "counting"
                 [] e.kind = "finished" ->
                      IF chips[id] = "absent" THEN "absent" ELSE "finished"
                 [] e.kind = "cancelled" -> "absent"
    BY DEF ScreenEvent
  <2>3. CASE ~about
    BY <2>1, <2>2, <2>3
  <2>4. CASE about /\ e.kind = "started"
    BY <2>1, <2>2, <2>4
  <2>5. CASE about /\ e.kind = "finished"
    BY <2>1, <2>2, <2>5
  <2>6. CASE about /\ e.kind = "cancelled"
    BY <2>1, <2>2, <2>6
  <2>7. QED
    BY <2>1, <2>3, <2>4, <2>5, <2>6
<1>3. /\ \A i \in Nat : i \in Starts'[id] <=> i + 1 \in Starts[id] /\ i # 0
      /\ \A i \in Nat : i \in Finishes'[id] <=> i + 1 \in Finishes[id] /\ i # 0
      /\ \A i \in Nat : i \in Cancels'[id] <=> i + 1 \in Cancels[id] /\ i # 0
      /\ 1 \in Starts[id] <=> e.kind = "started" /\ about
      /\ 1 \in Finishes[id] <=> e.kind = "finished" /\ about
      /\ 1 \in Cancels[id] <=> e.kind = "cancelled" /\ about
  BY <1>1, StreamRead
<1> HIDE DEF e, about
<1>4. ASSUME NEW X, NEW Y, X \subseteq Nat \ {0}, Y \subseteq Nat \ {0},
             \A i \in Nat : i \in Y <=> i + 1 \in X /\ i # 0
      PROVE  /\ X = {} => Y = {}
             /\ X # {} /\ 1 \notin X => Y # {}
             /\ \A i \in Y : i \in Nat /\ i + 1 \in X
  <2>1. X = {} => Y = {}
    BY <1>4
  <2>2. ASSUME NEW i \in X, 1 \notin X PROVE i - 1 \in Y
    <3>1. i \in Nat /\ i # 0 /\ i # 1 /\ i - 1 \in Nat /\ (i - 1) + 1 = i
      BY <1>4, <2>2
    <3>2. QED
      BY <1>4, <2>2, <3>1
  <2>3. \A i \in Y : i \in Nat /\ i + 1 \in X
    BY <1>4
  <2>4. QED
    BY <2>1, <2>2, <2>3
<1>5. /\ Starts[id] = {} => Starts'[id] = {}
      /\ Starts[id] # {} /\ 1 \notin Starts[id] => Starts'[id] # {}
      /\ \A i \in Starts'[id] : i \in Nat /\ i + 1 \in Starts[id]
  BY <1>3, <1>4, StreamTypes
<1>6. /\ Finishes[id] = {} => Finishes'[id] = {}
      /\ Finishes[id] # {} /\ 1 \notin Finishes[id] => Finishes'[id] # {}
      /\ \A i \in Finishes'[id] : i \in Nat /\ i + 1 \in Finishes[id]
  BY <1>3, <1>4, StreamTypes
<1>7. Cancels[id] = {} => Cancels'[id] = {}
  BY <1>3, <1>4, StreamTypes
<1>8. LiveChip(id)'
  <2> SUFFICES ASSUME timers[id] # NoTask PROVE LiveChip(id)'
    BY <1>1 DEF LiveChip
  <2> DEFINE t == timers[id]
  <2>1. /\ Cancels[id] = {}
        /\ pc[t] \in EarlyPcs => chips[id] = "absent" /\ Starts[id] = {}
        /\ pc[t] \notin EarlyPcs /\ Starts[id] = {} => chips[id] # "absent"
        /\ \A i \in Starts[id], j \in Finishes[id] : i < j
        /\ pc[t] \in PastPcs /\ Starts[id] # {} => Finishes[id] # {}
        /\ pc[t] \in PastPcs /\ Finishes[id] = {} => chips[id] = "finished"
        /\ chips[id] = "finished" \/ Finishes[id] # {} => pc[t] \in PastPcs
    BY DEF ChipOK, LiveChip
  <2>2. pc[t] \in PastPcs => pc[t] \notin EarlyPcs
    BY DEF PastPcs, EarlyPcs, AlarmPcs
  <2>3. timers'[id] = t /\ pc'[t] = pc[t]
    BY <1>1
  <2>4. \A i \in Starts'[id], j \in Finishes'[id] : i < j
    BY <1>5, <1>6, <2>1
  <2>5. Cancels'[id] = {} /\ ~(e.kind = "cancelled" /\ about)
    BY <1>3, <1>7, <2>1
  <2> HIDE DEF t
  <2>6. CASE ~about
    BY <1>2, <1>3, <1>5, <1>6, <2>1, <2>3, <2>4, <2>5, <2>6 DEF LiveChip
  <2>7. CASE about /\ e.kind = "started"
    <3>1. /\ chips'[id] = "counting" /\ Starts[id] # {} /\ pc[t] \notin EarlyPcs
          /\ 1 \notin Finishes[id]
      BY <1>2, <1>3, <2>1, <2>7
    <3>2. QED
      BY <1>6, <2>1, <2>3, <2>4, <2>5, <3>1 DEF LiveChip
  <2>8. CASE about /\ e.kind = "finished"
    <3>1. 1 \in Finishes[id]
      BY <1>3, <2>8
    <3>2. Starts[id] = {}
      BY <2>1, <3>1, StreamTypes
    <3>3. pc[t] \in PastPcs /\ pc[t] \notin EarlyPcs /\ chips'[id] = "finished"
      BY <1>2, <2>1, <2>2, <2>8, <3>1, <3>2
    <3>4. QED
      BY <1>5, <2>3, <2>4, <2>5, <3>2, <3>3 DEF LiveChip
  <2>9. QED
    BY <1>2, <2>5, <2>6, <2>7, <2>8
<1>9. UnsetChip(id)'
  BY <1>1, <1>2, <1>3, <1>5, <1>6, <1>7 DEF ChipOK, UnsetChip
<1>10. GoneChip(id)'
  <2> SUFFICES ASSUME timers[id] = NoTask, id < nextId
               PROVE  \/ chips'[id] = "absent" /\ Starts'[id] = {}
                      \/ \E i \in Cancels'[id] : \A j \in Starts'[id] : j < i
    BY <1>1 DEF GoneChip
  <2>1. \/ chips[id] = "absent" /\ Starts[id] = {}
        \/ \E i \in Cancels[id] : \A j \in Starts[id] : j < i
    BY <1>1 DEF ChipOK, GoneChip
  <2>2. CASE chips[id] = "absent" /\ Starts[id] = {}
    BY <1>2, <1>3, <1>5, <2>2
  <2>3. ASSUME NEW i \in Cancels[id], \A j \in Starts[id] : j < i
        PROVE  \/ chips'[id] = "absent" /\ Starts'[id] = {}
               \/ \E k \in Cancels'[id] : \A j \in Starts'[id] : j < k
    <3>1. i \in Nat /\ i # 0
      BY StreamTypes
    <3>2. CASE i = 1
      <4>1. chips'[id] = "absent"
        BY <1>2, <1>3, <3>2
      <4>2. Starts[id] = {}
        BY <2>3, <3>2, StreamTypes
      <4>3. QED
        BY <1>5, <4>1, <4>2
    <3>3. CASE i # 1
      <4>1. i - 1 \in Nat /\ i - 1 # 0 /\ (i - 1) + 1 = i
        BY <3>1, <3>3
      <4>2. i - 1 \in Cancels'[id]
        BY <1>3, <4>1
      <4>3. \A j \in Starts'[id] : j < i - 1
        BY <1>5, <2>3, <3>1
      <4>4. QED
        BY <4>2, <4>3
    <3>4. QED
      BY <3>2, <3>3
  <2>4. QED
    BY <2>1, <2>2, <2>3
<1>11. QED
  BY <1>8, <1>9, <1>10 DEF ChipOK

-----------------------------------------------------------------------------
(* The calm steps, one by one: the timers' own tasks, and the chips.        *)

LEMMA TaskFacts ==
  ASSUME IInv
  PROVE  /\ timers \in [Ids -> Tasks \cup {NoTask}] /\ NoTask \notin Tasks
         /\ pc \in [Tasks -> {"unborn", "dead"} \cup PollingPcs \cup WaitingPcs]
         /\ idOf \in [Tasks -> Ids] /\ nextId \in Nat \ {0}
         /\ ringing \in [Tasks -> BOOLEAN]
         /\ \A id \in Ids : timers[id] # NoTask =>
              /\ timers[id] \in Tasks /\ idOf[timers[id]] = id /\ id < nextId
              /\ pc[timers[id]] # "unborn"
<1>1. /\ timers \in [Ids -> Tasks \cup {NoTask}] /\ NoTask \notin Tasks
      /\ pc \in [Tasks -> {"unborn", "dead"} \cup PollingPcs \cup WaitingPcs]
      /\ idOf \in [Tasks -> Ids] /\ nextId \in Nat \ {0}
      /\ ringing \in [Tasks -> BOOLEAN]
  BY TasksAssumption DEF IInv, TypeOK
<1>2. "unborn" \notin PollingPcs \cup WaitingPcs
  BY DEF PollingPcs, WaitingPcs
<1>3. QED
  BY <1>1, <1>2 DEF IInv, TableInv, Lives

LEMMA QuietSteps ==
  ASSUME IInv, CalmParts,
         TurnBegins \/ TurnEnds \/ UNCHANGED vars
  PROVE  CalmParts'
<1>1. UNCHANGED <<tableVars, taskVars, screenVars, events>>
  BY DEF TurnBegins, TurnEnds, vars
<1>2. Silent
  BY <1>1 DEF Silent, SamePlace, tableVars, taskVars, screenVars
<1>3. OwnInv'
  BY <1>1 DEF CalmParts, OwnInv, tableVars, taskVars, screenVars
<1>4. QED
  BY <1>2, <1>3, SilentChips DEF CalmParts, IInv

LEMMA StartSteps ==
  ASSUME IInv, CalmParts, NEW t \in Tasks, NEW label \in AnyLabel,
         Start(t, label)
  PROVE  CalmParts'
<1>1. /\ nextId \in Ids /\ pc[t] = "unborn" /\ nextId' = nextId + 1
      /\ pc' = [pc EXCEPT ![t] = "queued"]
      /\ idOf' = [idOf EXCEPT ![t] = nextId]
      /\ timers' = [timers EXCEPT ![nextId] = t]
      /\ UNCHANGED <<rearm, ringing, button, chips, events>>
  BY DEF Start, SpawnCountdown, screenVars
<1>2. /\ pc'[t] = "queued" /\ timers'[nextId] = t /\ idOf'[t] = nextId
      /\ \A u \in Tasks : u # t => pc'[u] = pc[u] /\ idOf'[u] = idOf[u]
      /\ \A id \in Ids : id # nextId => timers'[id] = timers[id]
  BY <1>1, TaskFacts
<1>3. OwnInv'
  <2>1. ASSUME NEW u \in Tasks, pc'[u] # "unborn"
        PROVE  idOf'[u] < nextId' /\ timers'[idOf'[u]] \in {u, NoTask}
    <3>1. CASE u = t
      BY <1>1, <1>2, <3>1, TaskFacts
    <3>2. CASE u # t
      <4>1. /\ idOf'[u] = idOf[u] /\ idOf[u] \in Ids /\ idOf[u] < nextId
            /\ timers[idOf[u]] \in {u, NoTask}
        BY <1>2, <2>1, <3>2, TaskFacts DEF CalmParts, OwnInv
      <4>2. QED
        BY <1>1, <1>2, <4>1, TaskFacts DEF Ids
    <3>3. QED
      BY <3>1, <3>2
  <2>2. ASSUME NEW u \in Tasks, pc'[u] = "starting"
        PROVE  timers'[idOf'[u]] = u
    <3>1. u # t /\ pc[u] = "starting" /\ idOf'[u] = idOf[u]
      BY <1>2, <2>2
    <3>2. idOf[u] \in Ids /\ idOf[u] < nextId /\ timers[idOf[u]] = u
      BY <3>1, TaskFacts DEF CalmParts, OwnInv
    <3>3. QED
      BY <1>1, <1>2, <3>1, <3>2, TaskFacts DEF Ids
  <2>3. button # Idle =>
          /\ button.task \in Tasks /\ button.task # t /\ button.id \in Ids
          /\ button.id # nextId
    BY <1>1, TaskFacts DEF IInv, ButtonInv, CalmParts, OwnInv, TypeOK, Ids
  <2>4. button.stage = "removed" => pc'[button.task] \notin EarlyPcs
    <3>1. button.stage = "removed" => button # Idle
      BY DEF Idle
    <3>2. QED
      BY <1>2, <2>3, <3>1 DEF CalmParts, OwnInv
  <2>5. button # Idle => timers'[button.id] = NoTask /\ button.id < nextId'
    BY <1>1, <1>2, <2>3, TaskFacts DEF CalmParts, OwnInv, Ids
  <2>6. \A u \in Tasks : pc'[u] \in AlarmPcs => ringing'[u]
    BY <1>1, <1>2 DEF CalmParts, OwnInv, AlarmPcs
  <2>7. QED
    BY <1>1, <2>1, <2>2, <2>4, <2>5, <2>6 DEF OwnInv, CalmParts
<1>4. ASSUME NEW id \in Ids PROVE ChipOK(id)'
  <2>1. CASE id = nextId
    BY <1>1, <1>2, <2>1, SetChip DEF CalmParts, IInv
  <2>2. CASE id # nextId
    <3>1. Starts' = Starts /\ Finishes' = Finishes /\ Cancels' = Cancels
      BY <1>1, StreamSame
    <3>2. timers[id] # NoTask => SamePlace(timers[id])
      BY <1>1, <1>2, TaskFacts DEF SamePlace
    <3>3. /\ id >= nextId' => id >= nextId
          /\ id < nextId' => id < nextId
      BY <1>1, <2>2, TaskFacts DEF Ids
    <3>4. QED
      BY <1>1, <1>2, <2>2, <3>1, <3>2, <3>3, ChipUntouched DEF CalmParts
  <2>3. QED
    BY <2>1, <2>2
<1>5. QED
  BY <1>3, <1>4 DEF CalmParts

LEMMA CancelSteps ==
  ASSUME IInv, CalmParts, NEW label \in AnyLabel, Cancel(label)
  PROVE  CalmParts'
<1> DEFINE ids == ToCancel(label)
<1>1. /\ WorkerFree /\ ids \subseteq Set
      /\ timers' = [id \in Ids |-> IF id \in ids THEN NoTask ELSE timers[id]]
      /\ events' = Append(events, [kind |-> "cancelled", ids |-> ids])
      /\ UNCHANGED <<nextId, rearm, pc, idOf, ringing, button, chips>>
  BY DEF Cancel, ToCancel, Matching, RemoveAll, screenVars
<1> HIDE DEF ids
<1>2. \A id \in Ids : timers'[id] = IF id \in ids THEN NoTask ELSE timers[id]
  BY <1>1
<1>3. OwnInv'
  <2>1. \A u \in Tasks : pc[u] # "starting"
    BY <1>1 DEF WorkerFree, PollingPcs
  <2>2. button # Idle => button.id \in Ids
    BY DEF IInv, TypeOK
  <2>3. QED
    BY <1>1, <1>2, <2>1, <2>2, TaskFacts DEF CalmParts, OwnInv
<1>4. ASSUME NEW id \in Ids PROVE ChipOK(id)'
  <2>1. CASE id \in ids
    <3>1. id < nextId /\ timers'[id] = NoTask
      BY <1>1, <1>2, <2>1, TaskFacts DEF Set
    <3>2. QED
      BY <1>1, <2>1, <3>1, CancelledChip DEF IInv
  <2>2. CASE id \notin ids
    <3>1. timers[id] # NoTask => SamePlace(timers[id])
      BY <1>1 DEF SamePlace
    <3>2. QED
      BY <1>1, <1>2, <2>2, <3>1, OthersChips DEF CalmParts, IInv
  <2>3. QED
    BY <2>1, <2>2
<1>5. QED
  BY <1>3, <1>4 DEF CalmParts

LEMMA TaskStepChips ==
  ASSUME IInv, CalmParts, NEW t \in Tasks,
         TaskStep(t) \/ \E a \in {"none", "cached"} : SynthesisEnds(t, a)
  PROVE  CalmParts'
<1> USE DEF Goes, Resumes
<1>1. UNCHANGED <<tableVars, idOf, button, chips>>
  BY DEF TaskStep, FirstPoll, EmitStarted, Fire, EmitFinished, CheckTurn,
     Bell, SynthesisEnds, Announce, Repeat, screenVars
<1>2. /\ pc' = [pc EXCEPT ![t] = pc'[t]]
      /\ \/ /\ FirstPoll(t) /\ pc[t] = "queued" /\ pc'[t] = "starting"
            /\ ~aborted[t] /\ UNCHANGED <<events, ringing>>
         \/ /\ EmitStarted(t) /\ pc[t] = "starting" /\ pc'[t] = "counting"
            /\ Emit("started", idOf[t]) /\ ringing' = ringing
         \/ /\ Fire(t) /\ pc[t] = "counting" /\ pc'[t] = "fired"
            /\ ringing' = [ringing EXCEPT ![t] = TRUE] /\ events' = events
         \/ /\ EmitFinished(t) /\ pc[t] = "fired" /\ pc'[t] \in PastPcs
            /\ Emit("finished", idOf[t]) /\ ringing' = ringing
         \/ /\ pc[t] \in PastPcs /\ pc'[t] \in PastPcs
            /\ UNCHANGED <<events, ringing>>
  <2>1. CASE FirstPoll(t)
    BY <2>1, TaskFacts DEF FirstPoll
  <2>2. CASE EmitStarted(t)
    BY <2>2, TaskFacts DEF EmitStarted
  <2>3. CASE Fire(t)
    BY <2>3, TaskFacts DEF Fire
  <2>4. CASE EmitFinished(t)
    BY <2>4, TaskFacts DEF EmitFinished, PastPcs, AlarmPcs
  <2>5. CASE CheckTurn(t)
    BY <2>5, TaskFacts DEF CheckTurn, PastPcs, AlarmPcs
  <2>6. CASE Bell(t)
    <3>1. voice[t] \in {"unasked", "none", "cached"}
      BY DEF IInv, TypeOK
    <3>2. QED
      BY <2>6, <3>1, TaskFacts DEF Bell, PastPcs, AlarmPcs
  <2>7. CASE Announce(t)
    BY <2>7, TaskFacts DEF Announce, PastPcs, AlarmPcs
  <2>8. CASE Repeat(t)
    BY <2>8, TaskFacts DEF Repeat, PastPcs, AlarmPcs
  <2>9. CASE \E a \in {"none", "cached"} : SynthesisEnds(t, a)
    BY <2>9, TaskFacts DEF SynthesisEnds, PastPcs, AlarmPcs
  <2>10. QED
    BY <2>1, <2>2, <2>3, <2>4, <2>5, <2>6, <2>7, <2>8, <2>9 DEF TaskStep
<1>3. /\ \A u \in Tasks : u # t => pc'[u] = pc[u]
      /\ pc[t] # "unborn" /\ pc'[t] # "unborn"
  BY <1>2, TaskFacts DEF PastPcs, AlarmPcs
<1>4. UNCHANGED <<timers, nextId, rearm, idOf, button, chips>>
  BY <1>1 DEF tableVars
<1>5. /\ idOf[t] \in Ids /\ idOf[t] < nextId /\ timers[idOf[t]] \in {t, NoTask}
  BY <1>3, TaskFacts DEF CalmParts, OwnInv
<1>6. FirstPoll(t) => timers[idOf[t]] = t
  <2> SUFFICES ASSUME FirstPoll(t) PROVE timers[idOf[t]] = t
    OBVIOUS
  <2>1. pc[t] = "queued" /\ ~aborted[t]
    BY DEF FirstPoll
  <2>2. timers[idOf[t]] = t \/ (button.task = t /\ button.stage = "removed")
    BY <2>1 DEF IInv, AlarmIsReachable, WaitingPcs
  <2>3. ~(button.task = t /\ button.stage = "removed")
    BY <2>1 DEF CalmParts, OwnInv, EarlyPcs
  <2>4. QED
    BY <2>2, <2>3
<1>7. OwnInv'
  <2>1. rearm' = {}
    BY <1>4 DEF CalmParts, OwnInv
  <2>2. \A u \in Tasks : pc'[u] # "unborn" =>
          idOf'[u] < nextId' /\ timers'[idOf'[u]] \in {u, NoTask}
    BY <1>3, <1>4 DEF CalmParts, OwnInv
  <2>3. \A u \in Tasks : pc'[u] = "starting" => timers'[idOf'[u]] = u
    BY <1>2, <1>3, <1>4, <1>6 DEF CalmParts, OwnInv, PastPcs, AlarmPcs
  <2>4. button'.stage = "removed" => pc'[button'.task] \notin EarlyPcs
    <3> SUFFICES ASSUME button.stage = "removed"
                 PROVE  pc'[button.task] \notin EarlyPcs
      BY <1>4
    <3>1. button.task \in Tasks /\ pc[button.task] \notin EarlyPcs
      BY DEF CalmParts, OwnInv, IInv, ButtonInv, Idle
    <3>2. pc[t] \notin EarlyPcs => pc'[t] \notin EarlyPcs
      BY <1>2 DEF EarlyPcs, PastPcs, AlarmPcs
    <3>3. QED
      BY <1>3, <3>1, <3>2
  <2>5. button' # Idle => timers'[button'.id] = NoTask /\ button'.id < nextId'
    BY <1>4 DEF CalmParts, OwnInv
  <2>6. \A u \in Tasks : pc'[u] \in AlarmPcs => ringing'[u]
    BY <1>2, <1>3, TaskFacts DEF CalmParts, OwnInv, PastPcs, AlarmPcs
  <2>7. QED
    BY <2>1, <2>2, <2>3, <2>4, <2>5, <2>6 DEF OwnInv
<1>8. ASSUME NEW id \in Ids PROVE ChipOK(id)'
  <2>1. ChipOK(id) /\ TypeOK
    BY DEF CalmParts, IInv
  <2>2. CASE events' = events
    <3>1. /\ pc'[t] \in EarlyPcs <=> pc[t] \in EarlyPcs
          /\ pc'[t] \in PastPcs <=> pc[t] \in PastPcs
      <4>1. Emit("started", idOf[t]) \/ Emit("finished", idOf[t]) => FALSE
        <5>1. Len(events') = Len(events) /\ Len(events) \in Nat
          BY <2>1, <2>2 DEF TypeOK
        <5>2. \A e : Len(Append(events, e)) = Len(events) + 1
          BY <2>1 DEF TypeOK
        <5>3. QED
          BY <5>1, <5>2 DEF Emit
      <4>2. QED
        BY <1>2, <4>1 DEF EarlyPcs, PastPcs, AlarmPcs
    <3>2. Silent
      BY <1>3, <1>4, <2>2, <3>1 DEF Silent, SamePlace
    <3>3. QED
      BY <2>1, <3>2, SilentChips
  <2>3. CASE EmitStarted(t) /\ idOf[t] = id
    <3>1. /\ pc[t] = "starting" /\ pc'[t] = "counting"
          /\ events' = Append(events, [kind |-> "started", ids |-> {id}])
      BY <2>3, TaskFacts DEF EmitStarted, Emit
    <3>2. timers[id] = t
      BY <2>3, <3>1 DEF CalmParts, OwnInv
    <3>3. QED
      BY <1>4, <1>5, <2>1, <2>3, <3>1, <3>2, StartedChip
  <2>4. CASE EmitFinished(t) /\ idOf[t] = id
    <3>1. /\ pc[t] = "fired" /\ pc'[t] \in PastPcs
          /\ events' = Append(events, [kind |-> "finished", ids |-> {id}])
      BY <2>4, TaskFacts DEF EmitFinished, Emit, PastPcs, AlarmPcs
    <3>2. QED
      BY <1>4, <1>5, <2>1, <2>4, <3>1, FinishedChip
  <2>5. CASE (EmitStarted(t) \/ EmitFinished(t)) /\ idOf[t] # id
    <3>1. \E kind : events' = Append(events, [kind |-> kind, ids |-> {idOf[t]}])
      BY <2>5 DEF EmitStarted, EmitFinished, Emit
    <3>2. timers[id] # NoTask => timers[id] \in Tasks /\ timers[id] # t
      BY <2>5, TaskFacts
    <3>3. timers[id] # NoTask => SamePlace(timers[id])
      BY <1>3, <3>2 DEF SamePlace
    <3>4. id \notin {idOf[t]}
      BY <2>5
    <3>5. QED
      BY <1>4, <2>1, <3>1, <3>3, <3>4, OthersChips
  <2>6. QED
    BY <1>2, <2>2, <2>3, <2>4, <2>5
<1>9. QED
  BY <1>7, <1>8 DEF CalmParts

LEMMA ButtonSteps ==
  ASSUME IInv, CalmParts,
         DismissAbort \/ DismissEmit
           \/ (\E id \in Ids : DismissRemove(id) \/ DismissUnknown(id))
  PROVE  CalmParts'
<1>1. CASE DismissAbort
  <2>1. /\ UNCHANGED <<timers, nextId, rearm, pc, idOf, ringing, chips, events>>
        /\ button'.stage = "aborted" /\ button'.id = button.id
        /\ button' # Idle /\ button # Idle
    BY <1>1 DEF DismissAbort, tableVars, IInv, TypeOK, Idle
  <2>2. OwnInv'
    BY <2>1 DEF CalmParts, OwnInv
  <2>3. ASSUME NEW id \in Ids PROVE ChipOK(id)'
    <3>1. Starts' = Starts /\ Finishes' = Finishes /\ Cancels' = Cancels
      BY <2>1, StreamSame
    <3>2. timers[id] # NoTask => SamePlace(timers[id])
      BY <2>1 DEF SamePlace
    <3>3. QED
      BY <2>1, <3>1, <3>2, ChipUntouched DEF CalmParts
  <2>4. QED
    BY <2>2, <2>3 DEF CalmParts
<1>2. CASE DismissEmit
  <2> DEFINE b == button.id
  <2>1. /\ UNCHANGED <<timers, nextId, rearm, pc, idOf, ringing>>
        /\ button' = Idle /\ button # Idle /\ b \in Ids
        /\ events' = Append(events, [kind |-> "cancelled", ids |-> {b}])
        /\ chips' = [chips EXCEPT ![b] = "absent"]
    BY <1>2 DEF DismissEmit, Emit, tableVars, taskVars, IInv, TypeOK, Idle
  <2>2. timers[b] = NoTask /\ b < nextId
    BY <2>1 DEF CalmParts, OwnInv
  <2>3. OwnInv'
    <3>1. button'.stage # "removed"
      BY <2>1 DEF Idle
    <3>2. QED
      BY <2>1, <3>1 DEF CalmParts, OwnInv
  <2>4. ASSUME NEW id \in Ids PROVE ChipOK(id)'
    <3>1. CASE id = b
      BY <2>1, <2>2, <3>1, CancelledChip DEF IInv
    <3>2. CASE id # b
      <4>1. chips'[id] = chips[id] /\ id \notin {b}
        BY <2>1, <3>2 DEF IInv, TypeOK
      <4>2. timers[id] # NoTask => SamePlace(timers[id])
        BY <2>1 DEF SamePlace
      <4>3. QED
        BY <2>1, <3>2, <4>1, <4>2, OthersChips DEF CalmParts, IInv
    <3>3. QED
      BY <3>1, <3>2
  <2>5. QED
    BY <2>3, <2>4 DEF CalmParts
<1>3. ASSUME NEW b \in Ids, DismissRemove(b) PROVE CalmParts'
  <2>1. /\ UNCHANGED <<nextId, rearm, pc, idOf, ringing, chips, events>>
        /\ button = Idle /\ chips[b] # "absent" /\ timers[b] # NoTask
        /\ button' = [stage |-> "removed", id |-> b, task |-> timers[b]]
        /\ timers' = [timers EXCEPT ![b] = NoTask]
    BY <1>3 DEF DismissRemove, taskVars
  <2>2. /\ timers'[b] = NoTask /\ button' # Idle
        /\ \A id \in Ids : id # b => timers'[id] = timers[id]
    BY <2>1, TaskFacts DEF Idle
  <2>3. pc[timers[b]] \notin EarlyPcs
    BY <2>1 DEF CalmParts, ChipOK, LiveChip
  <2>4. OwnInv'
    <3>1. \A u \in Tasks : pc[u] # "unborn" =>
            idOf[u] < nextId /\ timers'[idOf[u]] \in {u, NoTask}
      BY <2>2, TaskFacts DEF CalmParts, OwnInv
    <3>2. ASSUME NEW u \in Tasks, pc[u] = "starting"
          PROVE  timers'[idOf[u]] = u
      <4>1. timers[idOf[u]] = u /\ idOf[u] \in Ids
        BY <3>2, TaskFacts DEF CalmParts, OwnInv
      <4>2. idOf[u] # b
        BY <2>3, <3>2, <4>1 DEF EarlyPcs
      <4>3. QED
        BY <2>2, <4>1, <4>2
    <3>3. b < nextId
      BY <2>1, TaskFacts
    <3>4. QED
      BY <2>1, <2>2, <2>3, <3>1, <3>2, <3>3 DEF CalmParts, OwnInv
  <2>5. ASSUME NEW id \in Ids PROVE ChipOK(id)'
    <3>1. CASE id = b
      <4>1. id < nextId /\ id \in Nat
        BY <2>1, <3>1, TaskFacts DEF Ids
      <4>2. LiveChip(id)' /\ UnsetChip(id)' /\ GoneChip(id)'
        BY <2>1, <2>2, <3>1, <4>1, TaskFacts DEF LiveChip, UnsetChip, GoneChip
      <4>3. QED
        BY <4>2 DEF ChipOK
    <3>2. CASE id # b
      <4>1. Starts' = Starts /\ Finishes' = Finishes /\ Cancels' = Cancels
        BY <2>1, StreamSame
      <4>2. timers[id] # NoTask => SamePlace(timers[id])
        BY <2>1 DEF SamePlace
      <4>3. QED
        BY <2>1, <2>2, <3>2, <4>1, <4>2, ChipUntouched DEF CalmParts
    <3>3. QED
      BY <3>1, <3>2
  <2>6. QED
    BY <2>4, <2>5 DEF CalmParts
<1>4. ASSUME NEW b \in Ids, DismissUnknown(b) PROVE CalmParts'
  <2>1. /\ UNCHANGED <<timers, nextId, rearm, pc, idOf, ringing, button,
                       events>>
        /\ button = Idle /\ timers[b] = NoTask
        /\ chips' = [chips EXCEPT ![b] = "absent"]
    BY <1>4 DEF DismissUnknown, tableVars, taskVars
  <2>2. /\ chips'[b] = "absent"
        /\ \A id \in Ids : id # b => chips'[id] = chips[id]
    BY <2>1 DEF IInv, TypeOK
  <2>3. OwnInv'
    BY <2>1 DEF CalmParts, OwnInv
  <2>4. ASSUME NEW id \in Ids PROVE ChipOK(id)'
    <3>1. Starts' = Starts /\ Finishes' = Finishes /\ Cancels' = Cancels
      BY <2>1, StreamSame
    <3>2. CASE id = b
      <4>1. LiveChip(id)' /\ UnsetChip(id)' /\ GoneChip(id)'
        BY <2>1, <2>2, <3>1, <3>2
        DEF CalmParts, ChipOK, LiveChip, UnsetChip, GoneChip
      <4>2. QED
        BY <4>1 DEF ChipOK
    <3>3. CASE id # b
      <4>1. timers[id] # NoTask => SamePlace(timers[id])
        BY <2>1 DEF SamePlace
      <4>2. QED
        BY <2>1, <2>2, <3>1, <3>3, <4>1, ChipUntouched DEF CalmParts
    <3>4. QED
      BY <3>2, <3>3
  <2>5. QED
    BY <2>3, <2>4 DEF CalmParts
<1>5. QED
  BY <1>1, <1>2, <1>3, <1>4

LEMMA ReadStep == IInv /\ CalmParts /\ ScreenEvent => CalmParts'
<1> SUFFICES ASSUME IInv, CalmParts, ScreenEvent PROVE CalmParts'
  OBVIOUS
<1>1. UNCHANGED <<timers, nextId, rearm, pc, idOf, ringing, button>>
  BY DEF ScreenEvent, tableVars, taskVars
<1>2. OwnInv'
  BY <1>1 DEF CalmParts, OwnInv
<1>3. ASSUME NEW id \in Ids PROVE ChipOK(id)'
  BY ReadChip DEF CalmParts, IInv
<1>4. QED
  BY <1>2, <1>3 DEF CalmParts

\* The budgets only fall, and an adjust or a failure spends one.
LEMMA CalmBudget ==
  ASSUME IInv, BudgetInv, [Next]_vars
  PROVE  /\ BudgetInv'
         /\ Calm' => Calm
         /\ (\E label \in AnyLabel : Adjust(label)) \/ EngineFails => ~Calm'
<1>1. budget \in [turns : Nat, adjusts : Nat, failures : Nat]
  BY DEF IInv, TypeOK
<1>2. CASE TurnBegins
  <2>1. budget'.adjusts = budget.adjusts /\ budget'.failures = budget.failures
    BY <1>1, <1>2 DEF TurnBegins
  <2>2. ~(\E label \in AnyLabel : Adjust(label)) /\ ~EngineFails
    BY <1>1, <1>2 DEF TurnBegins, Adjust, EngineFails
  <2>3. QED
    BY <2>1, <2>2 DEF BudgetInv, Calm
<1>3. CASE \E label \in AnyLabel : Adjust(label)
  <2>1. /\ budget'.adjusts = budget.adjusts - 1
        /\ budget'.failures = budget.failures
    BY <1>1, <1>3 DEF Adjust
  <2>2. QED
    BY <1>1, <2>1, BoundsAssumption DEF BudgetInv, Calm
<1>4. CASE EngineFails
  <2>1. /\ budget'.failures = budget.failures - 1
        /\ budget'.adjusts = budget.adjusts
    BY <1>1, <1>4 DEF EngineFails
  <2>2. QED
    BY <1>1, <2>1, BoundsAssumption DEF BudgetInv, Calm
<1>5. \/ TurnBegins \/ (\E label \in AnyLabel : Adjust(label)) \/ EngineFails
      \/ budget' = budget
  BY DEF Next, TurnStep, TaskStep, ScreenStep, TurnEnds, Start, Cancel, Rearm,
     FirstPoll, EmitStarted, Fire, EmitFinished, CheckTurn, Bell,
     SynthesisEnds, Announce, Repeat, ScreenEvent, DismissAbort, DismissEmit,
     DismissRemove, DismissUnknown, vars
<1>6. CASE budget' = budget
  BY <1>3, <1>4, <1>6 DEF BudgetInv, Calm
<1>7. QED
  BY <1>2, <1>3, <1>4, <1>5, <1>6

LEMMA InitCalm == Init => CalmInv
<1> SUFFICES ASSUME Init PROVE CalmInv
  OBVIOUS
<1>1. BudgetInv
  BY BoundsAssumption DEF Init, BudgetInv
<1>2. OwnInv
  BY DEF Init, OwnInv, Idle, AlarmPcs
<1>3. ASSUME NEW id \in Ids PROVE ChipOK(id)
  <2>1. timers[id] = NoTask /\ chips[id] = "absent" /\ events = << >>
        /\ nextId = 1 /\ id \in Nat
    BY DEF Init, Ids
  <2>2. Starts[id] = {} /\ Finishes[id] = {} /\ Cancels[id] = {}
    BY <2>1 DEF Starts, Finishes, Cancels
  <2>3. QED
    BY <2>1, <2>2 DEF ChipOK, LiveChip, UnsetChip, GoneChip
<1>4. QED
  BY <1>1, <1>2, <1>3 DEF CalmInv, CalmParts

LEMMA CalmStep == IInv /\ CalmInv /\ [Next]_vars => CalmInv'
<1> SUFFICES ASSUME IInv, CalmInv, [Next]_vars PROVE CalmInv'
  OBVIOUS
<1>1. /\ BudgetInv'
      /\ Calm' => Calm
      /\ (\E label \in AnyLabel : Adjust(label)) \/ EngineFails => ~Calm'
  BY CalmBudget DEF CalmInv
<1> SUFFICES ASSUME Calm' PROVE CalmParts'
  BY <1>1 DEF CalmInv
<1>2. CalmParts
  BY <1>1 DEF CalmInv
<1>3. CASE TurnBegins \/ TurnEnds \/ UNCHANGED vars
  BY <1>2, <1>3, QuietSteps
<1>4. ASSUME NEW t \in Tasks, NEW label \in AnyLabel, Start(t, label)
      PROVE  CalmParts'
  BY <1>2, <1>4, StartSteps
<1>5. ASSUME NEW label \in AnyLabel, Cancel(label) PROVE CalmParts'
  BY <1>2, <1>5, CancelSteps
<1>6. ASSUME NEW t \in Tasks, NEW entry \in rearm, Rearm(t, entry)
      PROVE  CalmParts'
  BY <1>2, <1>6 DEF CalmParts, OwnInv
<1>7. ASSUME NEW t \in Tasks,
             TaskStep(t) \/ \E a \in {"none", "cached"} : SynthesisEnds(t, a)
      PROVE  CalmParts'
  BY <1>2, <1>7, TaskStepChips
<1>8. CASE DismissAbort \/ DismissEmit
             \/ (\E id \in Ids : DismissRemove(id) \/ DismissUnknown(id))
  BY <1>2, <1>8, ButtonSteps
<1>9. CASE ScreenEvent
  BY <1>2, <1>9, ReadStep
<1>10. QED
  BY <1>1, <1>3, <1>4, <1>5, <1>6, <1>7, <1>8, <1>9
  DEF Next, TurnStep, ScreenStep

\* The chip of every timer follows from its task and the unread events.
THEOREM CalmInvariance == Spec => [](IInv /\ CalmInv)
<1>1. IInv /\ CalmInv /\ [Next]_vars => CalmInv'
  BY CalmStep
<1>2. QED
  BY <1>1, InitCalm, Invariance, PTL DEF Spec

\* With no event left to read, a timer's chip tells whether its task rings.
LEMMA SettledChip ==
  ASSUME IInv, CalmParts, Settled, NEW id \in Ids
  PROVE  chips[id] = CASE timers[id] = NoTask -> "absent"
                       [] timers[id] # NoTask /\ Rings(id) -> "finished"
                       [] timers[id] # NoTask /\ ~Rings(id) -> "counting"
<1>1. Starts[id] = {} /\ Finishes[id] = {} /\ Cancels[id] = {}
  BY DEF Settled, Starts, Finishes, Cancels
<1>2. CASE timers[id] = NoTask
  <2>1. id < nextId \/ id >= nextId
    BY TaskFacts DEF Ids
  <2>2. button = Idle
    BY DEF Settled
  <2>3. chips[id] = "absent"
    BY <1>1, <1>2, <2>1, <2>2 DEF CalmParts, ChipOK, GoneChip, UnsetChip
  <2>4. QED
    BY <1>2, <2>3
<1>3. CASE timers[id] # NoTask
  <2> DEFINE t == timers[id]
  <2>1. t \in Tasks /\ ~aborted[t] /\ Lives(t)
    BY <1>3, TaskFacts DEF IInv, TableInv
  <2>2. pc[t] # "queued" /\ pc[t] \notin PollingPcs
    BY <2>1 DEF Settled, WorkerFree
  <2>3. pc[t] \in WaitingPcs \ {"queued"}
    BY <2>1, <2>2 DEF Lives
  <2>4. LiveChip(id)
    BY DEF CalmParts, ChipOK
  <2>5. chips[id] \in {"absent", "counting", "finished"}
    BY DEF IInv, TypeOK
  <2>6. CASE pc[t] = "counting"
    <3>1. ~ringing[t]
      BY <2>1, <2>6 DEF IInv, RingInv
    <3>2. chips[id] = "counting"
      BY <1>1, <1>3, <2>4, <2>5, <2>6
      DEF LiveChip, EarlyPcs, PastPcs, AlarmPcs
    <3>3. QED
      BY <1>3, <3>1, <3>2 DEF Rings
  <2>7. CASE pc[t] # "counting"
    <3>1. pc[t] \in PastPcs /\ pc[t] \in AlarmPcs
      BY <2>3, <2>7 DEF WaitingPcs, PastPcs, AlarmPcs
    <3>2. ringing[t]
      BY <2>1, <3>1 DEF CalmParts, OwnInv
    <3>3. chips[id] = "finished"
      BY <1>1, <1>3, <2>4, <3>1 DEF LiveChip
    <3>4. QED
      BY <1>3, <3>2, <3>3 DEF Rings
  <2>8. QED
    BY <2>6, <2>7
<1>4. QED
  BY <1>2, <1>3

\* The screen shows the timers the engine has, for any number of them, unless
\* an engine failed or a timer was adjusted.
THEOREM ScreenAlwaysAgrees == Spec => []ScreenAgreesUnlessDisturbed
<1>1. IInv /\ CalmInv => ScreenAgreesUnlessDisturbed
  BY SettledChip
  DEF CalmInv, Calm, ScreenAgreesUnlessDisturbed, ScreenAgrees
<1>2. QED
  BY <1>1, CalmInvariance, PTL

=============================================================================
