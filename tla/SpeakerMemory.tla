--------------------------- MODULE SpeakerMemory ---------------------------
(***************************************************************************)
(* Who said what, in the three places the Core keeps it: the facts of the  *)
(* SQLite store, the append-only chat log, and the graph stores an         *)
(* ingester fills from the log (one store per embedding backend, one of    *)
(* them active).  Voices are merged and forgotten and turns corrected      *)
(* while all of that goes on: the registry's transaction is the commit     *)
(* point, the facts and the active graph follow after it, and the stores   *)
(* that were not active catch up when they next become active, from the    *)
(* table of aliases.                                                       *)
(*                                                                         *)
(* A turn writes one fact about its speaker; its record stands for the     *)
(* graph's Turn node and the Memory node of the fact, which share their    *)
(* owner.  A turn that was not answered gets the Memory node only, and     *)
(* with it no User node.  One turn is under way at a time.  Voiceprints,   *)
(* clips, names, edges and household facts are left out.                   *)
(***************************************************************************)
EXTENDS Integers, Sequences, FiniteSets

CONSTANTS
  Voices,       \* ids of voice clusters
  Stores,       \* one graph store for each embedding backend
  Admins,       \* requests of consoles and displays served at once
  MaxTurns,     \* bound on turns
  MaxChanges,   \* bound on merges, forgets and corrections, where one asked
                \* for beside another counts twice
  MaxUpsets,    \* bound on switches of the embedding backend, stops of the
                \* Core and failed calls, taken together
  MaxEvents     \* bound on turns, changes and upsets, taken together

ASSUME MemoryAssumption ==
  /\ {"unknown", "none"} \cap Voices = {}
  /\ {"facts", "none"} \cap Stores = {}
  /\ MaxTurns \in Nat /\ MaxChanges \in Nat /\ MaxUpsets \in Nat
  /\ MaxEvents \in Nat

VARIABLES
  profiles,   \* the registry: ids that still have a voiceprint
  alias,      \* speaker_aliases: where a gone id went, "none" for the others
  fixed,      \* turn_attribution_overrides, "none" for the others
  facts,      \* SQLite: the owner of each turn's fact
  chatlog,    \* the log: who was heard, and was the turn answered
  talking,    \* who the turn under way was identified as
  graph,      \* each graph store, as its next reader finds it
  durable,    \* what a stop cannot take from it
  offset,     \* the lines of the log each store has taken in (sidecar file)
  active,     \* the store behind the proxies
  marker,     \* the active_backend file
  serving,    \* the Core runs
  ingest,     \* the run of the active store's ingester
  building,   \* the switch under way
  change,     \* the request each admin has under way
  merged,     \* history: every merge and forget ever made
  corrected,  \* history: every correction ever made
  stray,      \* ghost: what a race or a failure is known to have left behind
  changes, upsets

memoryVars == <<profiles, alias, fixed, facts, chatlog, talking, graph,
                durable, offset, active, marker, serving, ingest, building,
                change, merged, corrected, stray, changes, upsets>>

Turns == 1 .. MaxTurns
Owners == Voices \union {"unknown"}
OwnerOrNone == Owners \union {"none"}
Places == Stores \union {"facts"}

\* A graph store: the owner of each record's nodes, the ids with a live User
\* node, and the tombstones (merged_into).
GraphStates == [node : [Turns -> OwnerOrNone], users : SUBSET Owners,
                tomb : [Voices -> OwnerOrNone]]

NewGraph == [node |-> [t \in Turns |-> "none"], users |-> {"unknown"},
             tomb |-> [v \in Voices |-> "none"]]

\* A run of the ingester, a switch, a request.
Tables == [Voices -> OwnerOrNone]
Corrections == [Turns -> OwnerOrNone]
Runs == [pc : {"idle", "embed", "item", "write", "commit"},
         next : 0 .. MaxTurns, at : 0 .. MaxTurns + 1, names : Tables,
         fixes : Corrections, by : OwnerOrNone]
Switches == [to : Stores \union {"none"}, names : Tables]
Requests == [pc : {"idle", "facts", "graph", "tomb"},
             kind : {"voice", "turn"}, from : Voices \union {"none"},
             to : Owners, turn : 0 .. MaxTurns,
             store : Stores \union {"none"}]

Unnamed == [v \in Voices |-> "none"]
Unfixed == [t \in Turns |-> "none"]

NoIngest == [pc |-> "idle", next |-> 0, at |-> 0, names |-> Unnamed,
             fixes |-> Unfixed, by |-> "none"]
NoBuild == [to |-> "none", names |-> Unnamed]
NoChange == [pc |-> "idle", kind |-> "voice", from |-> "none",
             to |-> "unknown", turn |-> 0, store |-> "none"]
----------------------------------------------------------------------------
(* Names.                                                                  *)

\* Follow a table from `id`, eight hops at most (AliasMap::resolve for the
\* aliases, resolve_speaker for a store's tombstones).
Hop(table, id) ==
  IF id \in Voices /\ table[id] # "none" THEN table[id] ELSE id

Follow(table, id) ==
  LET h(x) == Hop(table, x) IN h(h(h(h(h(h(h(h(id))))))))

\* aliases::record: the alias, and every alias that pointed at `from`.
Recorded(table, from, to) ==
  [v \in Voices |-> IF v = from \/ table[v] = from THEN to ELSE table[v]]

\* The ingester's attribution and memory_owner: a correction wins, and the
\* id is looked up among the aliases.
Attribution(t, names, fixes) ==
  Follow(names, IF fixes[t] # "none" THEN fixes[t] ELSE chatlog[t].by)

\* Whose a logged turn is, by the tables as they stand.
Rightful(t) == Attribution(t, alias, fixed)

Gone(v) == v \in Voices /\ alias[v] # "none"
Logged == 1 .. Len(chatlog)
----------------------------------------------------------------------------
(* The graph store's operations (HelixMemory).                             *)

\* The first batch of reassign_speaker.
Rewritten(g, from, to) ==
  [g EXCEPT !.node = [t \in Turns |-> IF g.node[t] = from THEN to
                                      ELSE g.node[t]]]

\* Its second: the User node of `from`, if it has one, becomes a tombstone.
Tombstoned(g, from, to) ==
  IF from \notin g.users THEN g
  ELSE [g EXCEPT !.users = (@ \ {from}) \union {Follow(g.tomb, to)},
                 !.tomb[from] = to]

\* The aliased ids a replay would move: those with a live User node.
Replayable(g) == {v \in g.users : Gone(v)}

\* MUTANT: a store becomes active as it is.
ReplayNothing(g, ids) == g

\* apply_speaker_aliases, as far as `ids`.
Replay(g, ids) ==
  LET dest(v) == Follow(g.tomb, Follow(alias, v))
  IN  [node  |-> [t \in Turns |-> IF g.node[t] \in ids THEN dest(g.node[t])
                                  ELSE g.node[t]],
       users |-> (g.users \ ids) \union {dest(v) : v \in ids},
       tomb  |-> [v \in Voices |-> IF v \in ids THEN dest(v)
                                   ELSE g.tomb[v]]]

\* What a replay of `ids` leaves in store s under a gone id, and what it puts
\* right.
LeftBehind(s, g, ids) ==
  {<<s, t>> : t \in {u \in Turns : Gone(g.node[u]) /\ g.node[u] \notin ids}}
PutRight(s, g, ids) ==
  {<<s, t>> : t \in {u \in Turns : g.node[u] \in ids /\ fixed[u] = "none"}}
----------------------------------------------------------------------------
MemoryInit ==
  /\ profiles = Voices
  /\ alias = Unnamed
  /\ fixed = Unfixed
  /\ facts = Unfixed
  /\ chatlog = << >>
  /\ talking = "none"
  /\ graph = [s \in Stores |-> NewGraph]
  /\ durable = graph
  /\ offset = [s \in Stores |-> 0]
  /\ active \in Stores
  /\ marker = active
  /\ serving = TRUE
  /\ ingest = NoIngest
  /\ building = NoBuild
  /\ change = [a \in Admins |-> NoChange]
  /\ merged = {}
  /\ corrected = {}
  /\ stray = {}
  /\ changes = 0 /\ upsets = 0

\* Room for n more events, and for a turn, a change or an upset.
Room(n) ==
  Len(chatlog) + (IF talking = "none" THEN 0 ELSE 1) + changes + upsets + n
    <= MaxEvents
TurnAllowed == Len(chatlog) < MaxTurns /\ Room(1)
ChangeAllowed(n) == changes + n <= MaxChanges /\ Room(n)
UpsetsAllowed(n) == upsets + n <= MaxUpsets /\ Room(n)

\* What one more request counts for.
Weight == 1 + Cardinality({a \in Admins : change[a].pc # "idle"})

\* A call fails.
Fails == UpsetsAllowed(1) /\ upsets' = upsets + 1

----------------------------------------------------------------------------
(* Turns.                                                                  *)

\* The turn's voice is identified, or not: a match that is only tentative, or
\* a new voice, is nobody's turn yet.
TurnStarts ==
  /\ serving /\ talking = "none" /\ TurnAllowed
  /\ talking' \in profiles \union {"unknown"}
  /\ UNCHANGED <<profiles, alias, fixed, facts, chatlog, graph, durable,
                 offset, active, marker, serving, ingest, building, change,
                 merged, corrected, stray, changes, upsets>>

\* Its fact is stored and its record logged, under the id it was identified
\* as, which may be gone by now.
TurnEnds(answered) ==
  /\ serving /\ talking # "none"
  /\ LET t == Len(chatlog) + 1
     IN  /\ facts' = [facts EXCEPT ![t] = talking]
         /\ stray' = stray \union (IF Gone(talking) THEN {<<"facts", t>>}
                                  ELSE {})
  /\ chatlog' = Append(chatlog, [by |-> talking, answered |-> answered])
  /\ talking' = "none"
  /\ UNCHANGED <<profiles, alias, fixed, graph, durable, offset, active,
                 marker, serving, ingest, building, change, merged,
                 corrected, changes, upsets>>

----------------------------------------------------------------------------
(* Merges, forgets and corrections.                                        *)

\* The registry's transaction: `from` loses its voiceprint and is aliased.
Rename(a, from, to) ==
  /\ serving /\ change[a].pc = "idle" /\ ChangeAllowed(Weight)
  /\ from \in profiles /\ to # from
  /\ profiles' = profiles \ {from}
  /\ alias' = Recorded(alias, from, to)
  /\ change' = [change EXCEPT ![a] = [NoChange EXCEPT
                  !.pc = "facts", !.from = from, !.to = to]]
  /\ merged' = merged \union {<<from, to>>}
  /\ changes' = changes + Weight
  /\ UNCHANGED <<fixed, facts, chatlog, talking, graph, durable, offset,
                 active, marker, serving, ingest, building, corrected,
                 stray, upsets>>

Merge(a, keep, drop) == keep \in profiles /\ Rename(a, drop, keep)
Forget(a, id) == Rename(a, id, "unknown")

\* The console's "this was ...": the target is one that still exists.
Correct(a, t, to) ==
  /\ serving /\ change[a].pc = "idle" /\ ChangeAllowed(Weight)
  /\ t \in Logged /\ to \in profiles \union {"unknown"}
  /\ fixed' = [fixed EXCEPT ![t] = to]
  /\ change' = [change EXCEPT ![a] = [NoChange EXCEPT
                  !.pc = "facts", !.kind = "turn", !.to = to, !.turn = t]]
  /\ corrected' = corrected \union {<<t, to>>}
  /\ changes' = changes + Weight
  /\ UNCHANGED <<profiles, alias, facts, chatlog, talking, graph, durable,
                 offset, active, marker, serving, ingest, building, merged,
                 stray, upsets>>

\* The turns a change is about, in a table of owners.
About(c, owner) ==
  IF c.kind = "voice" THEN {t \in Turns : owner[t] = c.from}
  ELSE {t \in Turns : t = c.turn /\ owner[t] # "none"}

\* Another change has settled the matter since.
Overtaken(c) ==
  IF c.kind = "voice" THEN alias[c.from] # c.to
  ELSE fixed[c.turn] # c.to \/ Gone(c.to)

At(place, ts) == {place} \X ts

\* The stores that have taken record t in.
Holding(t) == {s \in Stores : graph[s].node[t] # "none"}

\* MUTANT: the facts of every speaker move.
AllFactsMove(a) ==
  /\ change[a].pc = "facts"
  /\ facts' = [t \in Turns |-> IF facts[t] = "none" THEN "none"
                               ELSE change[a].to]
  /\ change' = [change EXCEPT ![a].pc = "graph"]
  /\ UNCHANGED <<profiles, alias, fixed, chatlog, talking, graph, durable,
                 offset, active, marker, serving, ingest, building, merged,
                 corrected, stray, changes, upsets>>

\* SQLite follows.  A failure is a warning for a merge or a forget; for a
\* correction it ends the request.
FactsMove(a) ==
  LET c == change[a]
      moved == About(c, facts)
  IN  /\ c.pc = "facts"
      /\ \/ /\ facts' = [t \in Turns |-> IF t \in moved THEN c.to
                                         ELSE facts[t]]
            /\ stray' = stray \union
                  (IF Overtaken(c) THEN At("facts", moved) ELSE {})
            /\ change' = [change EXCEPT ![a].pc = "graph"]
            /\ UNCHANGED upsets
         \/ /\ Fails
            /\ stray' = stray \union At("facts", moved) \union
                  (IF c.kind = "turn" THEN Holding(c.turn) \X {c.turn}
                   ELSE {})
            /\ change' = [change EXCEPT ![a] =
                  IF c.kind = "turn" THEN NoChange ELSE [c EXCEPT
                                                         !.pc = "graph"]]
            /\ UNCHANGED facts
      /\ UNCHANGED <<profiles, alias, fixed, chatlog, talking, graph,
                     durable, offset, active, marker, serving, ingest,
                     building, merged, corrected, changes>>

\* The graph follows, the store that is active now: a merge rewrites the
\* owners and goes on to the User nodes.
GraphMoves(a) ==
  LET c == change[a]
      g == graph[active]
      dest == Follow(g.tomb, c.to)
      moved == About(c, g.node)
  IN  /\ c.pc = "graph" /\ c.kind = "voice"
      /\ \/ /\ graph' = [graph EXCEPT ![active] = Rewritten(g, c.from, dest)]
            /\ change' = [change EXCEPT ![a].pc = "tomb", ![a].to = dest,
                                       ![a].store = active]
            /\ stray' = stray \union
                  (IF Overtaken(c) THEN At(active, moved) ELSE {})
            /\ UNCHANGED upsets
         \/ /\ Fails
            /\ change' = [change EXCEPT ![a] = NoChange]
            /\ stray' = stray \union At(active, moved)
            /\ UNCHANGED graph
      /\ UNCHANGED <<profiles, alias, fixed, facts, chatlog, talking,
                     durable, offset, active, marker, serving, ingest,
                     building, merged, corrected, changes>>

\* The User node becomes a tombstone, and the store is flushed.
GraphTombs(a) ==
  LET c == change[a]
  IN  /\ c.pc = "tomb"
      /\ \/ /\ graph' = [graph EXCEPT ![c.store] =
                                       Tombstoned(@, c.from, c.to)]
            /\ durable' = [durable EXCEPT ![c.store] = graph'[c.store]]
            /\ UNCHANGED upsets
         \/ /\ Fails
            /\ UNCHANGED <<graph, durable>>
      /\ change' = [change EXCEPT ![a] = NoChange]
      /\ UNCHANGED <<profiles, alias, fixed, facts, chatlog, talking, offset,
                     active, marker, serving, ingest, building, merged,
                     corrected, stray, changes>>

\* A correction: the record's nodes in the active store, if they are there;
\* no other store ever hears of it once it has taken the record in.
GraphCorrects(a) ==
  LET c == change[a]
      g == graph[active]
      dest == Follow(g.tomb, c.to)
      moved == About(c, g.node)
      elsewhere == Holding(c.turn) \ {active}
      now == [g EXCEPT !.users = @ \union {dest},
                       !.node = [t \in Turns |->
                                   IF t \in moved THEN dest ELSE @[t]]]
  IN  /\ c.pc = "graph" /\ c.kind = "turn"
      /\ change' = [change EXCEPT ![a] = NoChange]
      /\ \/ /\ graph' = [graph EXCEPT ![active] = now]
            /\ durable' = IF moved = {} THEN durable
                          ELSE [durable EXCEPT ![active] = now]
            /\ stray' = stray \union (elsewhere \X {c.turn}) \union
                  (IF Overtaken(c) THEN At(active, moved) ELSE {})
            /\ UNCHANGED upsets
         \/ /\ Fails
            /\ stray' = stray \union (Holding(c.turn) \X {c.turn})
            /\ UNCHANGED <<graph, durable>>
      /\ UNCHANGED <<profiles, alias, fixed, facts, chatlog, talking, offset,
                     active, marker, serving, ingest, building, merged,
                     corrected, changes>>

----------------------------------------------------------------------------
(* The ingester of the active store (run_once).                            *)

\* Everything but the ingester's own state and its store.
IngesterOnly ==
  UNCHANGED <<profiles, alias, fixed, facts, chatlog, talking, active, marker,
              serving, building, change, merged, corrected, changes>>

\* A batch: all that was logged since the committed offset.
IngestReads ==
  /\ serving /\ ingest.pc = "idle" /\ offset[active] < Len(chatlog)
  /\ ingest' = [NoIngest EXCEPT !.pc = "embed", !.next = Len(chatlog),
                               !.at = offset[active] + 1]
  /\ IngesterOnly
  /\ UNCHANGED <<graph, durable, offset, stray, upsets>>

\* After the batch is embedded, the aliases and corrections as they are now.
IngestLoads ==
  /\ ingest.pc = "embed"
  /\ ingest' = [ingest EXCEPT !.pc = "item", !.names = alias,
                             !.fixes = fixed]
  /\ IngesterOnly
  /\ UNCHANGED <<graph, durable, offset, stray, upsets>>

Item == ingest.pc = "item" /\ ingest.at <= ingest.next

\* A record that was taken in before (a retried batch) is left alone.
IngestFinds ==
  /\ Item /\ graph[active].node[ingest.at] # "none"
  /\ ingest' = [ingest EXCEPT !.at = @ + 1]
  /\ IngesterOnly
  /\ UNCHANGED <<graph, durable, offset, stray, upsets>>

\* Whose the record is; an answered turn's owner gets a User node.
IngestResolves ==
  /\ Item /\ graph[active].node[ingest.at] = "none"
  /\ LET by == Follow(graph[active].tomb,
                     Attribution(ingest.at, ingest.names, ingest.fixes))
     IN  /\ ingest' = [ingest EXCEPT !.pc = "write", !.by = by]
         /\ graph' = IF ~chatlog[ingest.at].answered THEN graph
                     ELSE [graph EXCEPT ![active].users = @ \union {by}]
  /\ IngesterOnly
  /\ UNCHANGED <<durable, offset, stray, upsets>>

\* The nodes are written.  Was the User node dropped meanwhile, the batch may
\* write all the same.
IngestWrites ==
  /\ ingest.pc = "write"
  /\ graph' = [graph EXCEPT ![active].node[ingest.at] = ingest.by]
  /\ ingest' = [ingest EXCEPT !.pc = "item", !.at = @ + 1, !.by = "none"]
  /\ stray' = stray \union
        (IF <<ingest.names, ingest.fixes>> # <<alias, fixed>>
            /\ ingest.by # Rightful(ingest.at)
         THEN {<<active, ingest.at>>} ELSE {})
  /\ IngesterOnly
  /\ UNCHANGED <<durable, offset, upsets>>

\* ... or fail.
IngestRejected ==
  /\ ingest.pc = "write" /\ ingest.by \notin graph[active].users
  /\ chatlog[ingest.at].answered
  /\ ingest' = NoIngest
  /\ IngesterOnly
  /\ UNCHANGED <<graph, durable, offset, stray, upsets>>

\* MUTANT: the offset is committed before the store is flushed.
CommitFirst ==
  /\ ingest.pc = "item" /\ ingest.at > ingest.next
  /\ offset' = [offset EXCEPT ![active] = ingest.next]
  /\ ingest' = NoIngest
  /\ IngesterOnly
  /\ UNCHANGED <<graph, durable, stray, upsets>>

IngestFlushes ==
  /\ ingest.pc = "item" /\ ingest.at > ingest.next
  /\ durable' = [durable EXCEPT ![active] = graph[active]]
  /\ ingest' = [ingest EXCEPT !.pc = "commit"]
  /\ IngesterOnly
  /\ UNCHANGED <<graph, offset, stray, upsets>>

IngestCommits ==
  /\ ingest.pc = "commit"
  /\ offset' = [offset EXCEPT ![active] = ingest.next]
  /\ ingest' = NoIngest
  /\ IngesterOnly
  /\ UNCHANGED <<graph, durable, stray, upsets>>

\* Any of these calls may fail: the run ends, the next one starts over from
\* the same offset.
IngestFails ==
  /\ ingest.pc # "idle"
  /\ Fails
  /\ ingest' = NoIngest
  /\ IngesterOnly
  /\ UNCHANGED <<graph, durable, offset, stray>>

----------------------------------------------------------------------------
(* Which store is active.                                                  *)

\* Store s is opened and brought up to date with the aliases; a failure of
\* that serves it as it is.  `g` is how it is found.
Activated(s, g, cost) ==
  \E ids \in SUBSET Replayable(g) :
    LET n == cost + IF ids = Replayable(g) THEN 0 ELSE 1
        now == Replay(g, ids)
    IN  /\ UpsetsAllowed(n) /\ upsets' = upsets + n
        /\ graph' = [graph EXCEPT ![s] = now]
        /\ durable' = [durable EXCEPT ![s] = now]
        /\ stray' = (stray \ PutRight(s, g, ids)) \union LeftBehind(s, g, ids)

\* A switch builds the new backend first, while the old one goes on serving.
\* What the closed store had not flushed may be gone.  (A store is not opened
\* again while a request still holds it.)
SwitchBuilds(s) ==
  /\ serving /\ building = NoBuild /\ s # active /\ UpsetsAllowed(1)
  /\ \A a \in Admins : ~(change[a].pc = "tomb" /\ change[a].store = s)
  /\ \E g \in {graph[s], durable[s]} : Activated(s, g, 1)
  /\ building' = [to |-> s, names |-> alias]
  /\ UNCHANGED <<profiles, alias, fixed, facts, chatlog, talking, offset,
                 active, marker, serving, ingest, change, merged, corrected,
                 changes>>

\* Then the proxies are swapped, the old ingester is aborted (an offset it was
\* writing may still be written) and the choice noted, if that succeeds.
SwitchSwaps ==
  /\ building # NoBuild
  /\ active' = building.to
  /\ \/ marker' = building.to /\ UNCHANGED upsets
     \/ UNCHANGED marker /\ Fails
  /\ \/ UNCHANGED offset
     \/ /\ ingest.pc = "commit"
        /\ offset' = [offset EXCEPT ![active] = ingest.next]
  /\ ingest' = NoIngest
  /\ building' = NoBuild
  /\ stray' = stray \union
        (IF building.names = alias THEN {}
         ELSE LeftBehind(building.to, graph[building.to], {}))
  /\ UNCHANGED <<profiles, alias, fixed, facts, chatlog, talking, graph,
                 durable, serving, change, merged, corrected, changes>>

----------------------------------------------------------------------------
(* Stop and boot.                                                          *)

\* What is under way is lost, and of the stores perhaps what they had not
\* flushed.  Only the aliases are applied again: not the facts of a change
\* that had not reached them, and not a correction.
Halt ==
  LET at(step) == {a \in Admins : change[a].pc = step}
  IN  /\ serving /\ UpsetsAllowed(1)
      /\ serving' = FALSE
      /\ graph' \in {graph, durable}
      /\ durable' = graph'
      /\ talking' = "none"
      /\ ingest' = NoIngest
      /\ building' = NoBuild
      /\ change' = [a \in Admins |-> NoChange]
      /\ stray' = stray
           \union (UNION {At("facts", About(change[a], facts)) :
                            a \in at("facts")})
           \union (UNION {Holding(t) \X {t} :
                  t \in {change[a].turn : a \in {b \in Admins :
                         change[b].pc # "idle" /\ change[b].kind = "turn"}}})
      /\ upsets' = upsets + 1
      /\ UNCHANGED <<profiles, alias, fixed, facts, chatlog, offset, active,
                     marker, merged, corrected, changes>>

Starts ==
  /\ ~serving
  /\ serving' = TRUE
  /\ active' = marker
  /\ Activated(marker, graph[marker], 0)
  /\ UNCHANGED <<profiles, alias, fixed, facts, chatlog, talking, offset,
                 marker, ingest, building, change, merged, corrected,
                 changes>>

----------------------------------------------------------------------------
ChangeStep(a) ==
  FactsMove(a) \/ GraphMoves(a) \/ GraphTombs(a) \/ GraphCorrects(a)

IngestStep ==
  \/ IngestReads \/ IngestLoads \/ IngestFinds \/ IngestResolves
  \/ IngestWrites \/ IngestRejected \/ IngestFlushes \/ IngestCommits
  \/ IngestFails

MemoryNext ==
  \/ TurnStarts
  \/ \E answered \in BOOLEAN : TurnEnds(answered)
  \/ \E a \in Admins, v \in Voices :
       Forget(a, v) \/ \E keep \in Voices : Merge(a, keep, v)
  \/ \E a \in Admins, t \in Turns, to \in Owners : Correct(a, t, to)
  \/ \E a \in Admins : ChangeStep(a)
  \/ IngestStep
  \/ \E s \in Stores : SwitchBuilds(s)
  \/ SwitchSwaps \/ Halt \/ Starts

MemorySpec == MemoryInit /\ [][MemoryNext]_memoryVars

----------------------------------------------------------------------------
\* Types; a one-hop alias table, and a registry that holds exactly the ids
\* that were not aliased away.
MemoryTypeOK ==
  /\ alias \in Tables
  /\ profiles = {v \in Voices : ~Gone(v)}
  /\ \A v \in Voices : Gone(v) => ~Gone(alias[v])
  /\ fixed \in Corrections /\ facts \in Corrections
  /\ chatlog \in Seq([by : Owners, answered : BOOLEAN])
  /\ Len(chatlog) <= MaxTurns
  /\ talking \in OwnerOrNone
  /\ graph \in [Stores -> GraphStates] /\ durable \in [Stores -> GraphStates]
  /\ offset \in [Stores -> 0 .. MaxTurns]
  /\ active \in Stores /\ marker \in Stores /\ serving \in BOOLEAN
  /\ ingest \in Runs /\ building \in Switches
  /\ change \in [Admins -> Requests]
  /\ stray \subseteq Places \X Turns

\* The offset is written after the flush: whatever is killed, retried,
\* aborted or switched, and in whatever order, a record the offset of a store
\* has passed is durably in that store, since nothing would ever read it
\* again (ingester.rs run_once, commit).
NothingSkipped ==
  \A s \in Stores, t \in Turns :
    t <= offset[s] => durable[s].node[t] # "none"

\* When the Core is idle, the facts and the active graph agree with the log
\* read through the corrections and aliases: a person's history follows
\* them through any sequence of merges, forgets, corrections, restarts and
\* switches (speaker/mod.rs merge and delete, graphrag_control.rs
\* apply_speaker_aliases).  Excepted is what a named race or failure left
\* behind; a later start takes back the exceptions its replay mends.
Calm == /\ serving /\ ingest.pc = "idle" /\ building = NoBuild
        /\ \A a \in Admins : change[a].pc = "idle"

HistoryFollowsItsPeople ==
  Calm => \A t \in Logged :
    /\ <<"facts", t>> \notin stray => facts[t] = Rightful(t)
    /\ <<active, t>> \notin stray =>
         graph[active].node[t] \in {"none", Rightful(t)}

\* Everybody turn t was ever said to be by, and whoever those were merged
\* into: the ids in every set that has the first and is closed under merges.
Said(t) == {chatlog[t].by} \union {c[2] : c \in {d \in corrected : d[1] = t}}
MergesStayIn(S) == \A m \in merged : m[1] \in S => m[2] \in S
Reach(t) ==
  LET closed == {S \in SUBSET Owners : Said(t) \subseteq S /\ MergesStayIn(S)}
  IN  {v \in Owners : \A S \in closed : v \in S}

\* Whatever races and fails, what one person said is never attributed to
\* another, unless an administrator once merged or corrected them into it:
\* at worst it stays with an id nobody has any more, or with nobody.
NeverSomeoneElses ==
  \A t \in Logged :
    LET reach == Reach(t)
    IN  /\ facts[t] \in reach
        /\ \A s \in Stores : graph[s].node[t] \in reach \union {"none"}
=============================================================================
