----------------------------- MODULE Enrollment -----------------------------
(***************************************************************************)
(* Teaching the Core a voice: the guided screen of the display             *)
(* (SpeakerEnrollScreen), the turns its phrases are spoken in, and the     *)
(* Core's sessions of samples (SpeakerService), which a control request    *)
(* commits to a voiceprint or discards.                                    *)
(*                                                                         *)
(* A turn carries the context that was set when it started; by the time    *)
(* the Core has the voice, or its answer is back, the screen may be gone   *)
(* and another one open.  Requests and answers can be lost, a request that *)
(* the display has given up can still reach the Core, and a restart of the *)
(* Core forgets its sessions.  What can take the context away from the     *)
(* screen is in DisplayScreen; the roster of the household is in           *)
(* SettingsStore and the voices that a commit makes in SpeakerMemory.      *)
(***************************************************************************)
EXTENDS Integers, FiniteSets

CONSTANTS
  MinSamples,    \* MIN_ENROLL_SAMPLES and kMinEnrollSamples
  MaxScreens,    \* bound: enrollment screens opened, each with its session
  MaxTakes,      \* bound: turns spoken into an enrollment
  MaxSaves,      \* bound: commits asked for
  MaxCoreStops   \* bound: restarts of the Core

ASSUME EnrollmentAssumption ==
  /\ MinSamples \in Nat \ {0}
  /\ {MaxScreens, MaxTakes, MaxSaves, MaxCoreStops} \subseteq Nat

Sessions == 1 .. MaxScreens
Takes == 1 .. MaxTakes
NoCount == -1

VARIABLES
  stage,       \* _stage, "away" without a screen
  session,     \* screens opened so far: the last one's session
  accepted,    \* _accepted
  committed,   \* _committed
  awaited,     \* the commit the screen waits for, 0 for none
  reply,       \* its answer
  offer,       \* what the display context says: session (0: none) and phase
  takes,       \* the turns spoken so far: their context and where they are
  heard,       \* the turn whose answer the display would read, 0 for none
  samples,     \* enrollments: the samples of each session
  controls,    \* control requests on their way to the Core
  saves,       \* commits asked for so far
  restarts,    \* restarts of the Core still to come
  folded,      \* history: how many voiceprint commits each turn went into
  disturbed,   \* history: something came between the screen and the Core
  late,        \* history: sessions that got a sample after they had ended
  ended        \* history: sessions committed or cancelled at the Core

screenSide == <<stage, session, accepted, committed, awaited, reply>>
turnSide == <<offer, takes, heard>>
coreSide == <<samples, folded, late, ended>>
enrollVars == <<screenSide, turnSide, coreSide, controls, saves, restarts,
                disturbed>>

Stages == {"away", "name", "capturing", "committing", "verifying", "done"}
Nobody == [session |-> 0, phase |-> "sample"]
Offer(phase) == [session |-> session, phase |-> phase]

EnrollInit ==
  /\ stage = "away" /\ session = 0 /\ accepted = 0 /\ committed = FALSE
  /\ awaited = 0 /\ reply = "none"
  /\ offer = Nobody /\ takes = << >> /\ heard = 0
  /\ samples = [s \in Sessions |-> {}] /\ controls = {} /\ saves = 0
  /\ restarts = MaxCoreStops
  /\ folded = [t \in Takes |-> 0] /\ disturbed = FALSE
  /\ late = {} /\ ended = {}
-----------------------------------------------------------------------------
(* The screen.                                                             *)

\* Opened on a name to choose, or on the phrases of a person who has one.
OpenScreen(first) ==
  /\ stage = "away" /\ session < MaxScreens
  /\ stage' = first /\ session' = session + 1
  /\ accepted' = 0 /\ committed' = FALSE /\ awaited' = 0 /\ reply' = "none"
  /\ disturbed' = FALSE
  /\ offer' = IF first = "capturing"
                THEN [session |-> session + 1, phase |-> "sample"] ELSE offer
  /\ UNCHANGED <<takes, heard, coreSide, controls, saves, restarts>>

Start ==
  /\ stage = "name"
  /\ stage' = "capturing"
  /\ offer' = Offer("sample")
  /\ UNCHANGED <<session, accepted, committed, awaited, reply, takes, heard,
                 coreSide, controls, saves, restarts, disturbed>>

Save ==
  /\ stage = "capturing" /\ accepted >= MinSamples
  /\ saves < MaxSaves
  /\ stage' = "committing"
  /\ saves' = saves + 1 /\ awaited' = saves' /\ reply' = "none"
  /\ controls' = controls \cup
       {[kind |-> "finish", session |-> session, id |-> saves']}
  /\ UNCHANGED <<session, accepted, committed, turnSide, coreSide, restarts,
                 disturbed>>

\* The answer to a commit.  The screen moves on only if it still waits.
SaveAnswered ==
  /\ reply # "none"
  /\ reply' = "none" /\ awaited' = 0
  /\ committed' = (committed \/ reply = "ok")
  /\ IF stage # "committing" THEN UNCHANGED <<stage, offer>>
     ELSE IF reply = "ok"
       THEN stage' = "verifying" /\ offer' = Offer("verify")
       ELSE stage' = "capturing" /\ offer' = Offer("sample")
  /\ UNCHANGED <<session, accepted, takes, heard, coreSide, controls, saves,
                 restarts, disturbed>>

\* No Core to send it to, or no answer in time: the request may yet arrive.
SaveFails ==
  /\ awaited # 0 /\ reply = "none"
  /\ reply' = "failed"
  /\ disturbed' = TRUE
  /\ controls' \in {controls, {r \in controls : r.id # awaited}}
  /\ UNCHANGED <<stage, session, accepted, committed, awaited, turnSide,
                 coreSide, saves, restarts>>

\* Leaving clears the context and cancels what was not committed.
Leave ==
  /\ stage # "away"
  /\ stage' = "away" /\ accepted' = 0 /\ committed' = FALSE
  /\ awaited' = 0 /\ reply' = "none"
  /\ offer' = Nobody
  /\ controls' = IF committed THEN controls
                 ELSE controls \cup
                      {[kind |-> "cancel", session |-> session, id |-> 0]}
  /\ UNCHANGED <<session, takes, heard, coreSide, saves, restarts, disturbed>>
-----------------------------------------------------------------------------
(* The turns.                                                              *)

LetGo(t) == takes' = [takes EXCEPT ![t].at = "gone"]

\* The wake word, or a barge-in on a turn whose answer is then not read.
Speak ==
  /\ offer.session # 0 /\ Cardinality(DOMAIN takes) < MaxTakes
  /\ heard' = Cardinality(DOMAIN takes) + 1
  /\ takes' = [t \in 1 .. heard' |->
       IF t = heard'
         THEN [session |-> offer.session, phase |-> offer.phase,
               at |-> "core", count |-> NoCount]
         ELSE takes[t]]
  /\ UNCHANGED <<screenSide, offer, coreSide, controls, saves, restarts,
                 disturbed>>

Answered(t, n) ==
  takes' = [takes EXCEPT ![t].at = IF t = heard THEN "answered" ELSE "gone",
                         ![t].count = n]

\* handle_enrollment with enroll_sample: a sample joins its session, which
\* begins if need be; or it is too short, unlike the others, or an error.
CoreTakesSample(t) ==
  LET s == takes[t].session IN
  /\ takes[t].at = "core" /\ takes[t].phase = "sample"
  /\ \/ /\ samples' = [samples EXCEPT ![s] = @ \cup {t}]
        /\ Answered(t, Cardinality(samples'[s]))
        /\ late' = IF s \in ended THEN late \cup {s} ELSE late
     \/ /\ \E n \in {Cardinality(samples[s]), NoCount} : Answered(t, n)
        /\ UNCHANGED <<samples, late>>
  /\ UNCHANGED <<screenSide, offer, heard, folded, ended, controls, saves,
                 restarts, disturbed>>

CoreVerifies(t) ==
  /\ takes[t].at = "core" /\ takes[t].phase = "verify"
  /\ Answered(t, NoCount)
  /\ UNCHANGED <<screenSide, offer, heard, coreSide, controls, saves, restarts,
                 disturbed>>

\* A turn that fails on its way, or whose answer does.
TurnFails(t) ==
  /\ takes[t].at \in {"core", "answered"}
  /\ LetGo(t)
  /\ UNCHANGED <<screenSide, offer, heard, coreSide, controls, saves, restarts,
                 disturbed>>

\* Mutant of Counted: the screen counts what it hears by itself.
CountedHere(t) == accepted + 1

Counted(t) == IF takes[t].count = NoCount THEN accepted ELSE takes[t].count

\* The screen that is up takes the answer, whosever session it names.
ResultHeard(t) ==
  /\ t = heard /\ takes[t].at = "answered"
  /\ LetGo(t) /\ heard' = 0
  /\ disturbed' = (disturbed \/ takes[t].session # session)
  /\ IF stage = "away" THEN UNCHANGED <<stage, accepted, offer>>
     ELSE IF takes[t].phase = "verify"
       THEN stage' = "done" /\ UNCHANGED <<accepted, offer>>
       ELSE /\ accepted' = Counted(t)
            /\ offer' = IF stage = "capturing" THEN Offer("sample") ELSE offer
            /\ UNCHANGED stage
  /\ UNCHANGED <<session, committed, awaited, reply, coreSide, controls,
                 saves, restarts>>
-----------------------------------------------------------------------------
(* The Core's control requests.                                            *)

AnswerTo(r, answer) ==
  reply' = IF r.id = awaited /\ reply = "none" THEN answer ELSE reply

\* Mutant of Over: the samples stay.
OverButKept(s) == samples

\* What is left when session s ends.
Over(s) == [samples EXCEPT ![s] = {}]

\* enroll_finish, or enroll_into for a person on the list: the mean of the
\* samples goes into one voiceprint and the session ends.
CoreCommits(r) ==
  /\ r \in controls /\ r.kind = "finish"
  /\ Cardinality(samples[r.session]) >= MinSamples
  /\ folded' = [t \in Takes |-> IF t \in samples[r.session]
                                  THEN folded[t] + 1 ELSE folded[t]]
  /\ samples' = Over(r.session)
  /\ ended' = ended \cup {r.session}
  /\ controls' = controls \ {r}
  /\ AnswerTo(r, "ok")
  /\ UNCHANGED <<stage, session, accepted, committed, awaited, turnSide, late,
                 saves, restarts, disturbed>>

\* Too few samples; or the person is gone, or the registry fails.
CoreRefuses(r) ==
  /\ r \in controls /\ r.kind = "finish"
  /\ controls' = controls \ {r}
  /\ AnswerTo(r, "failed")
  /\ UNCHANGED <<stage, session, accepted, committed, awaited, turnSide,
                 coreSide, saves, restarts, disturbed>>

CoreCancels(r) ==
  /\ r \in controls /\ r.kind = "cancel"
  /\ samples' = Over(r.session)
  /\ ended' = ended \cup {r.session}
  /\ controls' = controls \ {r}
  /\ UNCHANGED <<screenSide, turnSide, folded, late, saves, restarts,
                 disturbed>>

\* Nobody waits for the answer to a cancel, or sends it again.
CancelLost(r) ==
  /\ r \in controls /\ r.kind = "cancel"
  /\ controls' = controls \ {r}
  /\ late' = late \cup {r.session}
  /\ UNCHANGED <<screenSide, turnSide, samples, folded, ended, saves, restarts,
                 disturbed>>

\* The sessions are in memory; connections fail.
CoreRestarts ==
  /\ restarts > 0
  /\ restarts' = restarts - 1
  /\ samples' = [s \in Sessions |-> {}]
  /\ controls' = {}
  /\ reply' = IF awaited # 0 /\ reply = "none" THEN "failed" ELSE reply
  /\ takes' = [t \in DOMAIN takes |-> [takes[t] EXCEPT !.at = "gone"]]
  /\ disturbed' = TRUE
  /\ UNCHANGED <<stage, session, accepted, committed, awaited, offer, heard,
                 folded, late, ended, saves>>
-----------------------------------------------------------------------------
EnrollNext ==
  \/ OpenScreen("name") \/ OpenScreen("capturing") \/ Start \/ Leave
  \/ Save \/ SaveAnswered \/ SaveFails
  \/ Speak
  \/ \E t \in DOMAIN takes :
       CoreTakesSample(t) \/ CoreVerifies(t) \/ TurnFails(t) \/ ResultHeard(t)
  \/ \E r \in controls :
       CoreCommits(r) \/ CoreRefuses(r) \/ CoreCancels(r) \/ CancelLost(r)
  \/ CoreRestarts

EnrollSpec == EnrollInit /\ [][EnrollNext]_enrollVars
-----------------------------------------------------------------------------
Underway(s) ==
  \/ \E t \in DOMAIN takes : takes[t].session = s /\ takes[t].at = "core"
  \/ \E r \in controls : r.session = s

\* No voice is learnt twice: however commits fail, are repeated or overtaken
\* by a cancel, a sample goes into one voiceprint at most.  And the Core keeps
\* no voice that was not asked for: when a screen is gone and nothing of it is
\* under way, its samples are gone too, unless the cancel was lost or a turn
\* came after the end of the session and began it again.
NoVoiceIsKeptOrLearntTwice ==
  /\ \A t \in Takes : folded[t] <= 1
  /\ \A s \in Sessions :
       samples[s] # {} /\ ~Underway(s) =>
         (s = session /\ stage # "away") \/ s \in late

\* The screen does not deceive: when it offers to save, the Core has the
\* samples; when it says the voice is saved, it is; and a sample is never
\* counted for another session.  All this unless the Core restarted, a commit
\* went unanswered, or the answer to an earlier screen's turn came late.
ScreenIsHonest ==
  /\ stage = "capturing" /\ ~disturbed
       => accepted <= Cardinality(samples[session])
  /\ committed \/ (stage = "done" /\ ~disturbed)
       => \E t \in DOMAIN takes : takes[t].session = session /\ folded[t] = 1
=============================================================================
