----------------------------- MODULE MusicDucker -----------------------------
(****************************************************************************)
(* Ducking the house music while a reply is spoken: ConnectionDucking and   *)
(* TurnDuck in the Core's server.rs, MusicDucker in its music/mod.rs, and   *)
(* the config page's volume changes that go through the same ducker.        *)
(*                                                                          *)
(* One task per device connection applies that connection's duck and        *)
(* restore requests in order; all the tasks share one ducker, whose record  *)
(* of the levels to put back sits behind an async mutex.  Every volume      *)
(* change is a request to the snapserver that may be answered late, fail,   *)
(* or be carried out although its answer never came.                        *)
(****************************************************************************)
EXTENDS Integers, Sequences

CONSTANTS
  Conns,        \* device connections
  Clients,      \* snapclients of the ducked group
  Levels,       \* volume percents that matter
  StartLevels,  \* bound: those the clients play at to begin with
  DuckPercent,  \* MusicDucker::duck_percent
  NoRecord,     \* MusicDucker::active is None
  MaxSpeaking,  \* bound: turns that get as far as speaking
  MaxManual,    \* bound: volume changes made on the config page
  Faults        \* may a snapserver request fail

Vols == [percent : Levels, muted : BOOLEAN]
Records == [Clients -> Vols]   \* DuckRecord

ASSUME LevelsAssumption == DuckPercent \in Levels /\ StartLevels \subseteq Levels
ASSUME NoRecordAssumption == NoRecord \notin Records
ASSUME ClientsAssumption == Clients # {}
ASSUME BoundsAssumption == MaxSpeaking \in Nat /\ MaxManual \in Nat
ASSUME FaultsAssumption == Faults \in BOOLEAN

VARIABLES
  ducked,   \* [Conns -> has its current turn's TurnDuck ducked]
  queue,    \* [Conns -> its requests, the one being applied first]
  task,     \* [Conns -> where its ducking task is in that request]
  todo,     \* [Conns -> clients its loop has still to set]
  taken,    \* [Conns -> the record its restore is writing back, or NoRecord]
  record,   \* MusicDucker::active: the levels to put back, or NoRecord
  volume,   \* the snapserver's volume of each client
  manual,   \* where the config page's handler is
  request,  \* what it was asked: a client, a percent or none, a mute or none
  duckerBudget, \* turns and changes still to come
  wanted,   \* history: what the user last chose for each client
  spoiled   \* history: clients whose level was read or set inside another
            \* task's restore, or whose request failed

taskVars    == <<task, todo, taken>>
manualVars  == <<manual, request>>
historyVars == <<wanted, spoiled>>
duckerVars  == <<ducked, queue, taskVars, record, volume, manualVars,
                 duckerBudget, historyVars>>

Option(S) == {{}} \cup {{x} : x \in S}
OrElse(option, default) ==
  IF option = {} THEN default ELSE CHOOSE x \in option : TRUE

Requests == [client : Clients, percent : Option(Levels), muted : Option(BOOLEAN)]

\* music_volume_json refuses a request that changes nothing.
Asked == {r \in Requests : r.percent # {} \/ r.muted # {}}

\* Between two changes; only the shape of it matters.
NothingAsked == [client |-> CHOOSE c \in Clients : TRUE,
                 percent |-> {}, muted |-> {}]

TaskPcs == {"ready", "resolving", "attenuating", "restoring"}
ManualPcs == {"idle", "reading", "writing", "muting"}
DuckOps == {"duck", "restore"}

\* duck() holds the lock throughout, set_manual() too; restore() holds it only
\* while it takes the record.
LockFree ==
  /\ manual = "idle"
  /\ \A k \in Conns : task[k] \notin {"resolving", "attenuating"}

\* Client c has a restore's write still ahead of it.
BeingRestored(c) == \E k \in Conns : task[k] = "restoring" /\ c \in todo[k]

DuckerInit ==
  /\ ducked = [k \in Conns |-> FALSE]
  /\ queue = [k \in Conns |-> << >>]
  /\ task = [k \in Conns |-> "ready"]
  /\ todo = [k \in Conns |-> {}]
  /\ taken = [k \in Conns |-> NoRecord]
  /\ volume \in [Clients -> [percent : StartLevels, muted : BOOLEAN]]
  /\ record = NoRecord
  /\ manual = "idle"
  /\ request = NothingAsked
  /\ duckerBudget = [turns |-> MaxSpeaking, changes |-> MaxManual]
  /\ wanted = volume
  /\ spoiled = {}

-----------------------------------------------------------------------------
(* The turns of a connection.                                               *)

\* TurnDuck::observe, on the first Speaking of a turn.
FirstSpeaking(k) ==
  /\ ~ducked[k]
  /\ duckerBudget.turns > 0
  /\ duckerBudget' = [duckerBudget EXCEPT !.turns = @ - 1]
  /\ ducked' = [ducked EXCEPT ![k] = TRUE]
  /\ queue' = [queue EXCEPT ![k] = Append(@, "duck")]
  /\ UNCHANGED <<taskVars, record, volume, manualVars, historyVars>>

\* Mutant of TurnOver: a turn that fails does not restore.
TurnOverMaybeFailed(k) ==
  /\ ducked[k]
  /\ ducked' = [ducked EXCEPT ![k] = FALSE]
  /\ \E asked \in {<< >>, <<"restore">>} :
       queue' = [queue EXCEPT ![k] = @ \o asked]
  /\ UNCHANGED <<taskVars, record, volume, manualVars, duckerBudget,
                 historyVars>>

\* Drop for TurnDuck: the turn finished, failed, timed out, was barged into, or
\* its connection closed.
TurnOver(k) ==
  /\ ducked[k]
  /\ ducked' = [ducked EXCEPT ![k] = FALSE]
  /\ queue' = [queue EXCEPT ![k] = Append(@, "restore")]
  /\ UNCHANGED <<taskVars, record, volume, manualVars, duckerBudget,
                 historyVars>>

-----------------------------------------------------------------------------
(* The ducking task of connection k: MusicDucker::duck.                     *)

Applying(k, op, pc) ==
  /\ queue[k] # << >>
  /\ Head(queue[k]) = op
  /\ task[k] = pc

NextRequest(k) ==
  /\ queue' = [queue EXCEPT ![k] = Tail(@)]
  /\ task' = [task EXCEPT ![k] = "ready"]
  /\ todo' = [todo EXCEPT ![k] = {}]
  /\ taken' = [taken EXCEPT ![k] = NoRecord]

\* Already ducked: nothing to do.
DuckAgain(k) ==
  /\ Applying(k, "duck", "ready")
  /\ LockFree
  /\ record # NoRecord
  /\ NextRequest(k)
  /\ UNCHANGED <<ducked, record, volume, manualVars, duckerBudget,
                 historyVars>>

\* Mutant of DuckBegins: ducks again when already ducked.
DuckBeginsAgain(k) ==
  /\ Applying(k, "duck", "ready")
  /\ LockFree
  /\ task' = [task EXCEPT ![k] = "resolving"]
  /\ UNCHANGED <<ducked, queue, todo, taken, record, volume, manualVars,
                 duckerBudget, historyVars>>

DuckBegins(k) ==
  /\ Applying(k, "duck", "ready")
  /\ LockFree
  /\ record = NoRecord
  /\ task' = [task EXCEPT ![k] = "resolving"]
  /\ UNCHANGED <<ducked, queue, todo, taken, record, volume, manualVars,
                 duckerBudget, historyVars>>

\* resolve_group answered: the record is what the snapserver says now.
DuckSnapshot(k) ==
  /\ Applying(k, "duck", "resolving")
  /\ record' = volume
  /\ task' = [task EXCEPT ![k] = "attenuating"]
  /\ todo' = [todo EXCEPT ![k] = Clients]
  /\ spoiled' = spoiled \cup {c \in Clients : BeingRestored(c)}
  /\ UNCHANGED <<ducked, queue, taken, volume, manualVars, duckerBudget,
                 wanted>>

DuckSet(k, c) ==
  /\ Applying(k, "duck", "attenuating")
  /\ c \in todo[k]
  /\ volume' = [volume EXCEPT ![c] = [percent |-> DuckPercent, muted |-> FALSE]]
  /\ todo' = [todo EXCEPT ![k] = @ \ {c}]
  /\ UNCHANGED <<ducked, queue, task, taken, record, manualVars, duckerBudget,
                 historyVars>>

DuckDone(k) ==
  /\ Applying(k, "duck", "attenuating")
  /\ todo[k] = {}
  /\ NextRequest(k)
  /\ UNCHANGED <<ducked, record, volume, manualVars, duckerBudget,
                 historyVars>>

\* A request failed: duck() returns at once and keeps the record it has.  The
\* volume it was setting may have been set all the same.
DuckFails(k) ==
  /\ Faults
  /\ \/ /\ Applying(k, "duck", "resolving")
        /\ UNCHANGED volume
     \/ /\ Applying(k, "duck", "attenuating")
        /\ \E c \in todo[k] :
             \/ UNCHANGED volume
             \/ volume' = [volume EXCEPT
                  ![c] = [percent |-> DuckPercent, muted |-> FALSE]]
  /\ NextRequest(k)
  /\ UNCHANGED <<ducked, record, manualVars, duckerBudget, historyVars>>

-----------------------------------------------------------------------------
(* MusicDucker::restore.                                                    *)

RestoreNothing(k) ==
  /\ Applying(k, "restore", "ready")
  /\ LockFree
  /\ record = NoRecord
  /\ NextRequest(k)
  /\ UNCHANGED <<ducked, record, volume, manualVars, duckerBudget,
                 historyVars>>

\* Mutant of RestoreTakes: the record is read and left in place.
RestoreLeavesRecord(k) ==
  /\ Applying(k, "restore", "ready")
  /\ LockFree
  /\ record # NoRecord
  /\ taken' = [taken EXCEPT ![k] = record]
  /\ todo' = [todo EXCEPT ![k] = Clients]
  /\ task' = [task EXCEPT ![k] = "restoring"]
  /\ UNCHANGED <<ducked, queue, record, volume, manualVars, duckerBudget,
                 historyVars>>

\* The record is taken under the lock, which is then let go.
RestoreTakes(k) ==
  /\ Applying(k, "restore", "ready")
  /\ LockFree
  /\ record # NoRecord
  /\ record' = NoRecord
  /\ taken' = [taken EXCEPT ![k] = record]
  /\ todo' = [todo EXCEPT ![k] = Clients]
  /\ task' = [task EXCEPT ![k] = "restoring"]
  /\ UNCHANGED <<ducked, queue, volume, manualVars, duckerBudget, historyVars>>

RestoreSet(k, c) ==
  /\ Applying(k, "restore", "restoring")
  /\ c \in todo[k]
  /\ volume' = [volume EXCEPT ![c] = taken[k][c]]
  /\ todo' = [todo EXCEPT ![k] = @ \ {c}]
  /\ UNCHANGED <<ducked, queue, task, taken, record, manualVars, duckerBudget,
                 historyVars>>

RestoreDone(k) ==
  /\ Applying(k, "restore", "restoring")
  /\ todo[k] = {}
  /\ NextRequest(k)
  /\ UNCHANGED <<ducked, record, volume, manualVars, duckerBudget,
                 historyVars>>

\* A request failed: the clients not yet set stay as they are, and the record
\* is gone.
RestoreFails(k) ==
  /\ Faults
  /\ Applying(k, "restore", "restoring")
  /\ \E c \in todo[k] :
       \/ UNCHANGED volume
       \/ volume' = [volume EXCEPT ![c] = taken[k][c]]
  /\ spoiled' = spoiled \cup todo[k]
  /\ NextRequest(k)
  /\ UNCHANGED <<ducked, record, manualVars, duckerBudget, wanted>>

-----------------------------------------------------------------------------
(* MusicDucker::set_manual, which holds the lock throughout.                *)

Chosen(r, v) == [percent |-> OrElse(r.percent, v.percent),
                 muted   |-> OrElse(r.muted, v.muted)]

\* Ducked: the record remembers the choice; a mute is also sent at once.
ManualWhileDucked(r) ==
  /\ LockFree
  /\ duckerBudget.changes > 0
  /\ record # NoRecord
  /\ duckerBudget' = [duckerBudget EXCEPT !.changes = @ - 1]
  /\ record' = [record EXCEPT ![r.client] = Chosen(r, @)]
  /\ wanted' = [wanted EXCEPT ![r.client] = Chosen(r, @)]
  /\ IF r.muted = {}
       THEN manual' = "idle" /\ request' = NothingAsked
       ELSE manual' = "muting" /\ request' = r
  /\ UNCHANGED <<ducked, queue, taskVars, volume, spoiled>>

ManualMutes ==
  /\ manual = "muting"
  /\ volume' = [volume EXCEPT
       ![request.client] = [percent |-> DuckPercent,
                            muted   |-> OrElse(request.muted, FALSE)]]
  /\ manual' = "idle"
  /\ request' = NothingAsked
  /\ UNCHANGED <<ducked, queue, taskVars, record, duckerBudget, historyVars>>

\* Not ducked: apply_client_volume, which asks the snapserver for the half it
\* was not given ...
ManualDirect(r) ==
  /\ LockFree
  /\ duckerBudget.changes > 0
  /\ record = NoRecord
  /\ duckerBudget' = [duckerBudget EXCEPT !.changes = @ - 1]
  /\ wanted' = [wanted EXCEPT ![r.client] = Chosen(r, @)]
  /\ request' = r
  /\ manual' = IF r.percent = {} \/ r.muted = {} THEN "reading" ELSE "writing"
  /\ UNCHANGED <<ducked, queue, taskVars, record, volume, spoiled>>

\* A step that finds its client in another task's restore.
SpoilIfRestoring ==
  spoiled' = IF BeingRestored(request.client)
               THEN spoiled \cup {request.client} ELSE spoiled

\* ... gets the answer ...
ManualRead ==
  /\ manual = "reading"
  /\ LET full == Chosen(request, volume[request.client]) IN
       request' = [request EXCEPT !.percent = {full.percent},
                                  !.muted = {full.muted}]
  /\ SpoilIfRestoring
  /\ manual' = "writing"
  /\ UNCHANGED <<ducked, queue, taskVars, record, volume, duckerBudget,
                 wanted>>

\* ... and sets both.
ManualWrite ==
  /\ manual = "writing"
  /\ volume' = [volume EXCEPT ![request.client] = Chosen(request, @)]
  /\ SpoilIfRestoring
  /\ manual' = "idle"
  /\ request' = NothingAsked
  /\ UNCHANGED <<ducked, queue, taskVars, record, duckerBudget, wanted>>

\* The request failed; what it was setting may have been set all the same.
ManualFails ==
  /\ Faults
  /\ \/ /\ manual = "reading"
        /\ UNCHANGED volume
        /\ spoiled' = spoiled \cup {request.client}
     \/ /\ manual = "writing"
        /\ \/ UNCHANGED volume
           \/ volume' = [volume EXCEPT ![request.client] = Chosen(request, @)]
        /\ spoiled' = spoiled \cup {request.client}
     \/ /\ manual = "muting"
        /\ UNCHANGED <<volume, spoiled>>
  /\ manual' = "idle"
  /\ request' = NothingAsked
  /\ UNCHANGED <<ducked, queue, taskVars, record, duckerBudget, wanted>>

-----------------------------------------------------------------------------
TaskStep(k) ==
  \/ DuckAgain(k) \/ DuckBegins(k) \/ DuckSnapshot(k) \/ DuckDone(k)
  \/ DuckFails(k)
  \/ RestoreNothing(k) \/ RestoreTakes(k) \/ RestoreDone(k) \/ RestoreFails(k)
  \/ \E c \in Clients : DuckSet(k, c) \/ RestoreSet(k, c)

ManualStep == ManualMutes \/ ManualRead \/ ManualWrite \/ ManualFails

DuckerNext ==
  \/ \E k \in Conns : FirstSpeaking(k) \/ TurnOver(k) \/ TaskStep(k)
  \/ \E r \in Asked : ManualWhileDucked(r) \/ ManualDirect(r)
  \/ ManualStep

\* Every request to the snapserver is answered or times out (CONTROL_TIMEOUT);
\* every turn ends (its timeouts); the mutex is fair, as tokio's is.
DuckerFairness ==
  /\ \A k \in Conns : WF_duckerVars(TurnOver(k)) /\ SF_duckerVars(TaskStep(k))
  /\ WF_duckerVars(ManualStep)

DuckerSpec == DuckerInit /\ [][DuckerNext]_duckerVars /\ DuckerFairness

-----------------------------------------------------------------------------
\* The types; and a task holds a taken record exactly while it restores.
DuckerTypeOK ==
  /\ ducked \in [Conns -> BOOLEAN]
  /\ queue \in [Conns -> Seq(DuckOps)]
  /\ task \in [Conns -> TaskPcs]
  /\ todo \in [Conns -> SUBSET Clients]
  /\ taken \in [Conns -> Records \cup {NoRecord}]
  /\ \A k \in Conns : taken[k] # NoRecord <=> task[k] = "restoring"
  /\ record \in Records \cup {NoRecord}
  /\ volume \in Records
  /\ manual \in ManualPcs
  /\ request \in Requests
  /\ duckerBudget \in [turns : 0 .. MaxSpeaking, changes : 0 .. MaxManual]
  /\ wanted \in Records
  /\ spoiled \subseteq Clients

\* Connection k has a restore ahead of it that has not begun.
Owes(k) ==
  \/ ducked[k]
  \/ \E i \in 1 .. Len(queue[k]) :
       queue[k][i] = "restore" /\ (i > 1 \/ task[k] = "ready")

\* However turns end, fail or overlap across connections, the music is never
\* left ducked with nobody to put it back: while the ducker holds a record,
\* some connection has a restore still to apply.
RestoreIsOwed == record # NoRecord => \E k \in Conns : Owes(k)

\* No ducking in effect and nobody in the middle of a request.
Settled ==
  /\ record = NoRecord
  /\ manual = "idle"
  /\ \A k \in Conns : task[k] = "ready"

\* Once the ducker has come to rest every client plays at the level the user
\* last chose for it (before, or from the config page while it was ducked),
\* except one whose level was read or set in the middle of a restore or whose
\* request failed.
ExactUnlessSpoiled ==
  Settled => \A c \in Clients \ spoiled : volume[c] = wanted[c]

\* What the comment on MusicDucker promises: a restore is exact.
RestoreIsExact == Settled => volume = wanted

\* A ducked house does not stay ducked: the record is given up again even when
\* requests to the snapserver fail.
MusicReturns == record # NoRecord ~> record = NoRecord
=============================================================================
