--------------------------- MODULE PushChannels ---------------------------
(***************************************************************************)
(* The Core's push services (notify.rs, ChannelRegistry): the now-playing  *)
(* screen (nowplaying_service.rs) and the ambient weather                  *)
(* (weather/service.rs), pushed to every display that holds a channel      *)
(* open (server.rs, the branch of anamanti-hello).                         *)
(*                                                                         *)
(* A service keeps the last thing it pushed and gives it to a display that *)
(* joins.  Joining reads that value and then enters the registry; a        *)
(* broadcast pushes and stores, music in this order, weather in the other; *)
(* a volume change pushes the stored value once more from another task.    *)
(* None of these holds a lock across its two steps.  Connections drop, and *)
(* the Core restarts with nothing stored while the screens keep what they  *)
(* show.                                                                   *)
(***************************************************************************)
EXTENDS Integers, Sequences

CONSTANTS
  Displays,
  MaxShows,    \* bound on changes of what there is to show
  MaxVolumes,    \* bound on volume changes
  MaxLosses,     \* bound on lost connections and restarts of the Core
  MaxQueue       \* a broadcast is not modelled while a queue is this long

ASSUME PushAssumption ==
  /\ MaxShows \in Nat /\ MaxVolumes \in Nat /\ MaxLosses \in Nat
  /\ MaxQueue \in Nat \ {0}

VARIABLES
  role,      \* which service this is
  linked,    \* Spotify is linked
  truth,     \* what there is to show
  last,      \* the service's cache
  service,   \* the periodic task: "idle", "fetched", or between its two steps
  snap,      \* what it fetched
  knob,      \* the task of a volume change: "idle" or "read"
  knobSnap,  \* what it read
  channel,   \* a display's channel, as the Core's connection task sees it
  queue,     \* its receiver: pushes not yet written to the display
  screen,    \* what the display shows
  changes, volumes, losses

pushVars == <<role, linked, truth, last, service, snap, knob, knobSnap,
              channel, queue, screen, changes, volumes, losses>>

Shows == {"none", "station", "track", "sun", "rain"}
ShowsOf(r, l) ==
  IF r = "weather" THEN {"sun", "rain"}
  ELSE {"none", "station"} \union (IF l THEN {"track"} ELSE {})

Registered == {d \in Displays : channel[d] = "in"}

----------------------------------------------------------------------------
PushInit ==
  /\ role \in {"music", "weather"}
  /\ linked \in BOOLEAN
  /\ truth \in ShowsOf(role, linked)
  /\ last = "none"
  /\ service = "idle" /\ snap = "none"
  /\ knob = "idle" /\ knobSnap = "none"
  /\ channel = [d \in Displays |-> "down"]
  /\ queue = [d \in Displays |-> <<>>]
  /\ screen = [d \in Displays |-> "none"]
  /\ changes = 0 /\ volumes = 0 /\ losses = 0

\* Another song, a station tuned or stopped, other weather.
ShowChanges(t) ==
  /\ changes < MaxShows
  /\ t \in ShowsOf(role, linked) \ {truth}
  /\ changes' = changes + 1
  /\ truth' = t
  /\ UNCHANGED <<role, linked, last, service, snap, knob, knobSnap, channel,
                 queue, screen, volumes, losses>>

----------------------------------------------------------------------------
(* A display's channel.                                                    *)

Dial(d) ==
  /\ channel[d] = "down"
  /\ channel' = [channel EXCEPT ![d] = "hello"]
  /\ UNCHANGED <<role, linked, truth, last, service, snap, knob, knobSnap,
                 queue, screen, changes, volumes, losses>>

\* The cached value, if any, is the first frame.
JoinReads(d) ==
  /\ channel[d] = "hello"
  /\ channel' = [channel EXCEPT ![d] = "joining"]
  /\ queue' = [queue EXCEPT ![d] = IF last = "none" THEN <<>> ELSE <<last>>]
  /\ UNCHANGED <<role, linked, truth, last, service, snap, knob, knobSnap,
                 screen, changes, volumes, losses>>

\* ChannelRegistry::register: from now on a push reaches it.
JoinEnters(d) ==
  /\ channel[d] = "joining"
  /\ channel' = [channel EXCEPT ![d] = "in"]
  /\ UNCHANGED <<role, linked, truth, last, service, snap, knob, knobSnap,
                 queue, screen, changes, volumes, losses>>

\* The pump writes the next push and the display shows it.
Deliver(d) ==
  /\ channel[d] = "in" /\ queue[d] # <<>>
  /\ screen' = [screen EXCEPT ![d] = Head(queue[d])]
  /\ queue' = [queue EXCEPT ![d] = Tail(@)]
  /\ UNCHANGED <<role, linked, truth, last, service, snap, knob, knobSnap,
                 channel, changes, volumes, losses>>

\* The connection is lost, with what it had queued.
DropChannel(d) ==
  /\ channel[d] # "down" /\ losses < MaxLosses
  /\ losses' = losses + 1
  /\ channel' = [channel EXCEPT ![d] = "down"]
  /\ queue' = [queue EXCEPT ![d] = <<>>]
  /\ UNCHANGED <<role, linked, truth, last, service, snap, knob, knobSnap,
                 screen, changes, volumes>>

----------------------------------------------------------------------------
(* The periodic task: fetch, then broadcast.                               *)

\* MUTANT: nothing is pushed that equals the cache.
FetchIfChanged ==
  /\ service = "idle"
  /\ \A d \in Displays : Len(queue[d]) < MaxQueue
  /\ role = "music" => /\ Registered # {}
                       /\ truth = "station" \/ linked \/ last = "station"
  /\ truth # last
  /\ snap' = truth
  /\ service' = "fetched"
  /\ UNCHANGED <<role, linked, truth, last, knob, knobSnap, channel, queue,
                 screen, changes, volumes, losses>>

\* Music only looks while a display is connected.  A station that is on comes
\* first, then Spotify; without Spotify there is something to say only if the
\* last push was a station.
Fetch ==
  /\ service = "idle"
  /\ \A d \in Displays : Len(queue[d]) < MaxQueue
  /\ role = "music" => /\ Registered # {}
                       /\ truth = "station" \/ linked \/ last = "station"
  /\ snap' = truth
  /\ service' = "fetched"
  /\ UNCHANGED <<role, linked, truth, last, knob, knobSnap, channel, queue,
                 screen, changes, volumes, losses>>

\* broadcast: to every registered channel, under the registry's lock.
Push(s) ==
  queue' = [d \in Displays |->
              IF d \in Registered THEN Append(queue[d], s) ELSE queue[d]]

PushStep ==
  /\ service = IF role = "music" THEN "fetched" ELSE "half"
  /\ Push(snap)
  /\ service' = IF role = "music" THEN "half" ELSE "idle"
  /\ UNCHANGED <<role, linked, truth, last, snap, knob, knobSnap, channel,
                 screen, changes, volumes, losses>>

StoreStep ==
  /\ service = IF role = "music" THEN "half" ELSE "fetched"
  /\ last' = snap
  /\ service' = IF role = "music" THEN "idle" ELSE "half"
  /\ UNCHANGED <<role, linked, truth, snap, knob, knobSnap, channel, queue,
                 screen, changes, volumes, losses>>

----------------------------------------------------------------------------
(* apply_volume, from a display's control connection or the page.          *)

KnobReads ==
  /\ role = "music" /\ knob = "idle" /\ last # "none"
  /\ volumes < MaxVolumes
  /\ volumes' = volumes + 1
  /\ knobSnap' = last
  /\ knob' = "read"
  /\ UNCHANGED <<role, linked, truth, last, service, snap, channel, queue,
                 screen, changes, losses>>

KnobPushes ==
  /\ knob = "read"
  /\ Push(knobSnap)
  /\ knob' = "idle"
  /\ UNCHANGED <<role, linked, truth, last, service, snap, knobSnap, channel,
                 screen, changes, volumes, losses>>

\* The Core restarts: nothing stored, no channel, no station playing.
CoreRestarts ==
  /\ losses < MaxLosses
  /\ losses' = losses + 1
  /\ last' = "none"
  /\ service' = "idle" /\ knob' = "idle"
  /\ channel' = [d \in Displays |-> "down"]
  /\ queue' = [d \in Displays |-> <<>>]
  /\ truth' = IF truth = "station" THEN "none" ELSE truth
  /\ UNCHANGED <<role, linked, snap, knobSnap, screen, changes,
                 volumes>>

PushNext ==
  \/ \E t \in Shows : ShowChanges(t)
  \/ \E d \in Displays : \/ Dial(d) \/ JoinReads(d) \/ JoinEnters(d)
                         \/ Deliver(d) \/ DropChannel(d)
  \/ Fetch \/ PushStep \/ StoreStep \/ KnobReads \/ KnobPushes
  \/ CoreRestarts

\* The displays dial again, the Core's tasks run, a fetch succeeds in the end.
PushFairness ==
  /\ \A d \in Displays : /\ WF_pushVars(Dial(d))
                         /\ WF_pushVars(JoinReads(d))
                         /\ WF_pushVars(JoinEnters(d))
                         /\ WF_pushVars(Deliver(d))
  /\ WF_pushVars(Fetch) /\ WF_pushVars(PushStep)
  /\ WF_pushVars(StoreStep) /\ WF_pushVars(KnobPushes)

PushSpec == PushInit /\ [][PushNext]_pushVars /\ PushFairness
----------------------------------------------------------------------------
(* Properties.                                                             *)

\* Values are the service's own, and nothing is queued before a display joins.
PushTypeOK ==
  /\ role \in {"music", "weather"} /\ linked \in BOOLEAN
  /\ truth \in ShowsOf(role, linked)
  /\ last \in Shows /\ snap \in Shows /\ knobSnap \in Shows
  /\ service \in {"idle", "fetched", "half"}
  /\ knob \in {"idle", "read"}
  /\ channel \in [Displays -> {"down", "hello", "joining", "in"}]
  /\ queue \in [Displays -> Seq(Shows)]
  /\ \A d \in Displays : channel[d] \in {"down", "hello"} => queue[d] = <<>>
  /\ screen \in [Displays -> Shows]

\* In the end every display shows what there is to show.  Only with Spotify
\* unlinked and nothing playing may one keep a station that has stopped: the
\* service says nothing more once it has stored "none", whoever missed it.
ScreensCatchUp ==
  <>[](linked \/ role = "weather" \/ truth = "station" =>
         \A d \in Displays : screen[d] = truth)
============================================================================
