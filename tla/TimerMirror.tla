---------------------------- MODULE TimerMirror ----------------------------
(****************************************************************************)
(* One display's timers as the Core shows them: DisplayTimers (Core         *)
(* timer.rs), the notify branch of handle_connection (server.rs), and the   *)
(* outbound report of the display's push channel (push_channel.rs).         *)
(*                                                                          *)
(* The display holds one connection at a time and dials another when that   *)
(* one fails; on the Core every connection is a task of its own, and an old *)
(* one may be behind.  What the timers are is a version number.             *)
(****************************************************************************)
EXTENDS Integers, Sequences

CONSTANTS
  MaxConns,     \* bound: connections the display opens
  MaxChanges,   \* bound: changes of its timers
  MaxRestarts   \* bound: restarts of the Core

ASSUME BoundsAssumption ==
  MaxConns \in Nat /\ MaxChanges \in Nat /\ MaxRestarts \in Nat

Conns == 1 .. MaxConns
Versions == 0 .. MaxChanges

VARIABLES
  table,       \* the display's timers: how often they changed
  owed,        \* changes whose publish_change is still to come
  unseen,      \* the watch holds a tick the channel has not seen
  conn,        \* the display's latest connection, 0 before the first
  stage,       \* where connect_and_listen is
  frame,       \* the report current_report built
  up,          \* [Conns -> reports on their way to the Core]
  shut,        \* connections the display has closed
  task,        \* [Conns -> where the Core's task is]
  registered,  \* NotificationService's channels
  mirror,      \* DisplayTimers: this display's entry, as a set of at most one
  heard,       \* history: the newest connection that reported, 0 for none
  latest,      \* history: the connection that reported last
  restarts

displayVars == <<table, owed, unseen, conn, stage, frame>>
coreVars    == <<task, registered, mirror, heard, latest>>
vars == <<displayVars, up, shut, coreVars, restarts>>

Entries == [conn : Conns, table : Versions]

TypeOK ==
  /\ table \in Versions /\ owed \in Versions /\ unseen \in BOOLEAN
  /\ conn \in 0 .. MaxConns
  /\ stage \in {"down", "greeted", "marked", "built", "listening"}
  /\ frame \in Versions
  /\ up \in [Conns -> Seq(Versions)]
  /\ shut \subseteq Conns
  /\ task \in [Conns -> {"none", "dialed", "open", "left", "forgotten", "done"}]
  /\ registered \subseteq Conns
  /\ mirror \subseteq Entries
  /\ heard \in 0 .. MaxConns /\ latest \in 0 .. MaxConns
  /\ restarts \in 0 .. MaxRestarts

Init ==
  /\ table = 0 /\ owed = 0 /\ unseen = FALSE
  /\ conn = 0 /\ stage = "down" /\ frame = 0
  /\ up = [c \in Conns |-> << >>]
  /\ shut = {}
  /\ task = [c \in Conns |-> "none"]
  /\ registered = {}
  /\ mirror = {}
  /\ heard = 0 /\ latest = 0
  /\ restarts = 0

-----------------------------------------------------------------------------
(* The display.                                                             *)

\* Someone changes the timers and will publish the change after it; adjust
\* changes them twice and publishes once.
TimersChange ==
  /\ table < MaxChanges
  /\ table' = table + 1
  /\ owed' \in {owed, owed + 1} \ {0}
  /\ UNCHANGED <<unseen, conn, stage, frame, up, shut, coreVars, restarts>>

\* publish_change
Publish ==
  /\ owed > 0
  /\ owed' = owed - 1
  /\ unseen' = TRUE
  /\ UNCHANGED <<table, conn, stage, frame, up, shut, coreVars, restarts>>

\* Resolved, dialed, and the hello is written.
Connect ==
  /\ stage = "down" /\ conn < MaxConns
  /\ conn' = conn + 1
  /\ stage' = "greeted"
  /\ task' = [task EXCEPT ![conn + 1] = "dialed"]
  /\ UNCHANGED <<table, owed, unseen, frame, up, shut, registered, mirror,
                 heard, latest, restarts>>

\* borrow_and_update after the hello, or changed() in the select!
MarkSeen ==
  /\ \/ stage = "greeted"
     \/ stage = "listening" /\ unseen
  /\ stage' = "marked"
  /\ unseen' = FALSE
  /\ UNCHANGED <<table, owed, conn, frame, up, shut, coreVars, restarts>>

\* send_outbound: current_report ...
BuildReport ==
  /\ stage = "marked"
  /\ stage' = "built"
  /\ frame' = table
  /\ UNCHANGED <<table, owed, unseen, conn, up, shut, coreVars, restarts>>

\* Mutant of SendReport: what changed until then counts as seen.
SendAndMark ==
  /\ stage = "built"
  /\ stage' = "listening"
  /\ up' = [up EXCEPT ![conn] = Append(@, frame)]
  /\ unseen' = FALSE
  /\ UNCHANGED <<table, owed, conn, frame, shut, coreVars, restarts>>

\* ... and write_event.
SendReport ==
  /\ stage = "built"
  /\ stage' = "listening"
  /\ up' = [up EXCEPT ![conn] = Append(@, frame)]
  /\ UNCHANGED <<table, owed, unseen, conn, frame, shut, coreVars, restarts>>

\* A read error, a write that fails or times out, or the Core's close: the
\* socket is dropped.  What was written may arrive in part.
Disconnect ==
  /\ stage # "down"
  /\ stage' = "down"
  /\ \E n \in 0 .. Len(up[conn]) : up' = [up EXCEPT ![conn] = SubSeq(@, 1, n)]
  /\ shut' = shut \cup {conn}
  /\ UNCHANGED <<table, owed, unseen, conn, frame, coreVars, restarts>>

-----------------------------------------------------------------------------
(* The Core, one task per connection.                                       *)

\* The hello: ChannelRegistry::register
Register(c) ==
  /\ task[c] = "dialed"
  /\ task' = [task EXCEPT ![c] = "open"]
  /\ registered' = registered \cup {c}
  /\ UNCHANGED <<displayVars, up, shut, mirror, heard, latest, restarts>>

\* The connection ends before its hello arrived.
NoHello(c) ==
  /\ task[c] = "dialed" /\ c \in shut /\ up[c] = << >>
  /\ task' = [task EXCEPT ![c] = "done"]
  /\ UNCHANGED <<displayVars, up, shut, registered, mirror, heard, latest,
                 restarts>>

\* A report is read: DisplayTimers::report replaces the display's entry.
Report(c) ==
  /\ task[c] = "open" /\ up[c] # << >>
  /\ mirror' = {[conn |-> c, table |-> Head(up[c])]}
  /\ up' = [up EXCEPT ![c] = Tail(@)]
  /\ latest' = c
  /\ heard' = IF c > heard THEN c ELSE heard
  /\ UNCHANGED <<displayVars, shut, task, registered, restarts>>

\* Mutant of Leave: a close goes unnoticed until a push fails.
LeaveOnFailedPush(c) ==
  /\ task[c] = "open" /\ c \notin shut
  /\ task' = [task EXCEPT ![c] = "left"]
  /\ UNCHANGED <<displayVars, up, shut, registered, mirror, heard, latest,
                 restarts>>

\* The device closed, or a push could not be written.
Leave(c) ==
  /\ task[c] = "open"
  /\ task' = [task EXCEPT ![c] = "left"]
  /\ UNCHANGED <<displayVars, up, shut, registered, mirror, heard, latest,
                 restarts>>

\* DisplayTimers::connection_closed
Forget(c) ==
  /\ task[c] = "left"
  /\ task' = [task EXCEPT ![c] = "forgotten"]
  /\ mirror' = {e \in mirror : e.conn # c}
  /\ UNCHANGED <<displayVars, up, shut, registered, heard, latest, restarts>>

\* ChannelRegistry::deregister; the socket is dropped with the task.
Deregister(c) ==
  /\ task[c] = "forgotten"
  /\ task' = [task EXCEPT ![c] = "done"]
  /\ registered' = registered \ {c}
  /\ UNCHANGED <<displayVars, up, shut, mirror, heard, latest, restarts>>

\* The Core is started again: nothing of this is kept on disk.
Restart ==
  /\ restarts < MaxRestarts
  /\ restarts' = restarts + 1
  /\ task' = [c \in Conns |-> IF task[c] = "none" THEN "none" ELSE "done"]
  /\ registered' = {}
  /\ mirror' = {}
  /\ heard' = 0 /\ latest' = 0
  /\ UNCHANGED <<displayVars, up, shut>>

-----------------------------------------------------------------------------
DisplayStep ==
  \/ TimersChange \/ Publish
  \/ Connect \/ MarkSeen \/ BuildReport \/ SendReport \/ Disconnect

CoreStep(c) ==
  \/ Register(c) \/ NoHello(c) \/ Report(c)
  \/ Leave(c) \/ Forget(c) \/ Deregister(c)

Next == DisplayStep \/ (\E c \in Conns : CoreStep(c)) \/ Restart

Spec == Init /\ [][Next]_vars

\* The Core's tasks go on: a close is read when the data before it has been,
\* and a channel that was left is cleaned up.
MirrorFairness ==
  \A c \in Conns :
    /\ WF_vars(c \in shut /\ (Register(c) \/ NoHello(c) \/ Report(c)))
    /\ WF_vars(c \in shut /\ up[c] = << >> /\ Leave(c))
    /\ WF_vars(Forget(c) \/ Deregister(c))

FairSpec == Spec /\ MirrorFairness

-----------------------------------------------------------------------------
(* What must hold.                                                          *)

\* The Companion app shows no display that nobody will take away again: an
\* entry belongs to a registered channel that has yet to take its leave.
EntryHasOwner ==
  \A e \in mirror : e.conn \in registered /\ task[e.conn] \in {"open", "left"}

\* Everything the display said has been heard, and only it is talking.
Settled ==
  /\ stage = "listening" /\ ~unseen /\ owed = 0
  /\ task[conn] = "open" /\ up[conn] = << >>
  /\ \A c \in Conns \ {conn} : task[c] \in {"none", "done"}

\* Then the mirror is the display's timers: "a stale connection closing after a
\* reconnect can't wipe the newer connection's report".
MirrorAgrees ==
  Settled => mirror = {[conn |-> conn, table |-> table]}

\* It is, unless a report of an old connection came after a newer one's; the
\* next report of the newer one repairs it.
MirrorAgreesUnlessOvertaken == latest = heard => MirrorAgrees

\* A display that closed its connection disappears, or has reported anew.
ClosedIsForgotten ==
  \A c \in Conns :
    c \in shut /\ (\E e \in mirror : e.conn = c)
      ~> \A e \in mirror : e.conn # c
=============================================================================
