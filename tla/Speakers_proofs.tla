------------------------ MODULE Speakers_proofs -----------------------------
(***************************************************************************)
(* Proofs about SpeakerMemory and Enrollment.  Whatever the voices, the    *)
(* stores, the number of requests served at once and the bounds: the types *)
(* hold (with a one-hop alias table that agrees with the registry), no     *)
(* record the offset of a store has passed is missing from what that store *)
(* keeps through a stop, nothing one person said is attributed to another  *)
(* unasked, a person's history follows them through merges, corrections    *)
(* and switches but for the named exceptions, no voice is learnt twice or  *)
(* kept unasked, and the enrollment's screen says what is so at the Core.  *)
(***************************************************************************)
EXTENDS SpeakerMemory, Enrollment, FiniteSetTheorems, TLAPS

USE MemoryAssumption

----------------------------------------------------------------------------
(* The operators.                                                          *)

\* An id followed through a table is an id.
LEMMA FollowType ==
  ASSUME NEW table \in Tables, NEW id \in Owners
  PROVE  Follow(table, id) \in Owners
<1>1. \A x \in Owners : Hop(table, x) \in Owners
  BY DEF Hop, Tables, OwnerOrNone, Owners
<1>2. QED
  BY <1>1 DEF Follow

\* What was taken in is still there.
Grows(g, h) ==
  \A t \in Turns : g.node[t] # "none" => h.node[t] # "none"

\* Rewriting owners keeps a graph a graph, with all its records.
LEMMA RewrittenType ==
  ASSUME NEW g \in GraphStates, NEW from, NEW to \in Owners
  PROVE  /\ Rewritten(g, from, to) \in GraphStates
         /\ Grows(g, Rewritten(g, from, to))
<1>1. g.node \in [Turns -> OwnerOrNone]
  BY DEF GraphStates
<1>2. [t \in Turns |-> IF g.node[t] = from THEN to ELSE g.node[t]]
        \in [Turns -> OwnerOrNone]
  BY <1>1 DEF OwnerOrNone
<1>3. Rewritten(g, from, to) \in GraphStates
  BY <1>2 DEF Rewritten, GraphStates
<1>4. Rewritten(g, from, to).node
        = [t \in Turns |-> IF g.node[t] = from THEN to ELSE g.node[t]]
  BY DEF Rewritten, GraphStates
<1>5. to # "none"
  BY DEF Owners
<1>6. QED
  BY <1>3, <1>4, <1>5 DEF Grows

\* So does replacing a User node by a tombstone.
LEMMA TombstonedType ==
  ASSUME NEW g \in GraphStates, NEW from \in Voices, NEW to \in Owners
  PROVE  /\ Tombstoned(g, from, to) \in GraphStates
         /\ Grows(g, Tombstoned(g, from, to))
<1>1. g.tomb \in Tables /\ g.users \in SUBSET Owners
  BY DEF GraphStates, Tables
<1>2. Follow(g.tomb, to) \in Owners
  BY <1>1, FollowType
<1>3. (g.users \ {from}) \union {Follow(g.tomb, to)} \in SUBSET Owners
  BY <1>1, <1>2
<1>4. [g.tomb EXCEPT ![from] = to] \in Tables
  BY <1>1 DEF Tables, OwnerOrNone
<1>5. Tombstoned(g, from, to) \in GraphStates
  BY <1>3, <1>4 DEF Tombstoned, GraphStates, Tables
<1>6. Tombstoned(g, from, to).node = g.node
  BY DEF Tombstoned, GraphStates
<1>7. QED
  BY <1>5, <1>6 DEF Grows

\* So does a replay, however far it gets.
LEMMA ReplayType ==
  ASSUME NEW g \in GraphStates, alias \in Tables,
         NEW ids \in SUBSET Replayable(g)
  PROVE  /\ Replay(g, ids) \in GraphStates
         /\ Grows(g, Replay(g, ids))
<1> DEFINE dest(v) == Follow(g.tomb, Follow(alias, v))
<1>1. g.tomb \in Tables /\ g.users \in SUBSET Owners
      /\ g.node \in [Turns -> OwnerOrNone]
  BY DEF GraphStates, Tables
<1>2. ids \in SUBSET Owners
  BY <1>1 DEF Replayable
<1>3. \A v \in ids : dest(v) \in Owners
  BY <1>1, <1>2, FollowType
<1>4. /\ Replay(g, ids).node =
           [t \in Turns |-> IF g.node[t] \in ids THEN dest(g.node[t])
                            ELSE g.node[t]]
      /\ Replay(g, ids) =
           [node  |-> [t \in Turns |-> IF g.node[t] \in ids
                                       THEN dest(g.node[t]) ELSE g.node[t]],
            users |-> (g.users \ ids) \union {dest(v) : v \in ids},
            tomb  |-> [v \in Voices |-> IF v \in ids THEN dest(v)
                                        ELSE g.tomb[v]]]
  BY DEF Replay
<1> HIDE DEF dest
<1>5. [t \in Turns |-> IF g.node[t] \in ids THEN dest(g.node[t])
                       ELSE g.node[t]] \in [Turns -> OwnerOrNone]
  BY <1>1, <1>3 DEF OwnerOrNone
<1>6. (g.users \ ids) \union {dest(v) : v \in ids} \in SUBSET Owners
  BY <1>1, <1>3
<1>7. [v \in Voices |-> IF v \in ids THEN dest(v) ELSE g.tomb[v]]
        \in [Voices -> OwnerOrNone]
  BY <1>1, <1>3 DEF Tables, OwnerOrNone
<1>8. Replay(g, ids) \in GraphStates
  BY <1>4, <1>5, <1>6, <1>7 DEF GraphStates
<1>9. "none" \notin Owners
  BY DEF Owners
<1>10. QED
  BY <1>3, <1>4, <1>8, <1>9 DEF Grows
----------------------------------------------------------------------------
(* Types.                                                                  *)

\* What the types of requests and of the ingester's run rest on.
RequestOK(c) ==
  c.pc # "idle" => /\ c.kind = "voice" => c.from \in Voices
                   /\ c.kind = "turn" => c.turn \in Turns
                   /\ c.pc = "tomb" => c.kind = "voice" /\ c.store \in Stores

RunOK ==
  /\ ~serving => ingest.pc = "idle"
  /\ ingest.pc # "idle" => ingest.next <= Len(chatlog)
  /\ ingest.pc \in {"embed", "item", "write"} => ingest.at >= 1
  /\ ingest.pc = "write" => ingest.at <= ingest.next /\ ingest.by \in Owners

Shape ==
  /\ talking # "none" => Len(chatlog) < MaxTurns
  /\ building = NoBuild \/ building.to \in Stores
  /\ \A a \in Admins : RequestOK(change[a])
  /\ RunOK

\* The idle records have their types.
LEMMA IdleTypes ==
  /\ NoIngest \in Runs /\ NoBuild \in Switches /\ NoChange \in Requests
  /\ Unnamed \in Tables /\ Unfixed \in Corrections /\ NewGraph \in GraphStates
  /\ NoIngest.pc = "idle" /\ NoChange.pc = "idle" /\ RequestOK(NoChange)
<1>1. Unnamed \in Tables /\ Unfixed \in Corrections
  BY DEF Unnamed, Unfixed, Tables, Corrections, OwnerOrNone
<1>2. NoIngest \in Runs /\ NoIngest.pc = "idle"
  BY <1>1 DEF NoIngest, Runs, OwnerOrNone
<1>3. NoBuild \in Switches
  BY <1>1 DEF NoBuild, Switches
<1>4. NoChange \in Requests /\ NoChange.pc = "idle" /\ RequestOK(NoChange)
  BY DEF NoChange, Requests, Owners, RequestOK
<1>5. NewGraph \in GraphStates
  BY DEF NewGraph, GraphStates, OwnerOrNone, Owners
<1>6. QED
  BY <1>1, <1>2, <1>3, <1>4, <1>5

\* In the initial states.
LEMMA InitTypes == MemoryInit => MemoryTypeOK /\ Shape
<1> SUFFICES ASSUME MemoryInit PROVE MemoryTypeOK /\ Shape
  OBVIOUS
<1> USE IdleTypes
<1>1. /\ alias \in Tables /\ \A v \in Voices : ~Gone(v)
      /\ fixed \in Corrections /\ facts \in Corrections
  BY DEF MemoryInit, Gone, Unnamed
<1>2. profiles = {v \in Voices : ~Gone(v)}
  BY <1>1 DEF MemoryInit
<1>3. chatlog \in Seq([by : Owners, answered : BOOLEAN]) /\ Len(chatlog) = 0
  BY DEF MemoryInit
<1>4. /\ graph \in [Stores -> GraphStates] /\ durable \in [Stores -> GraphStates]
      /\ offset \in [Stores -> 0 .. MaxTurns]
      /\ change \in [Admins -> Requests]
  BY DEF MemoryInit
<1>5. MemoryTypeOK
  BY <1>1, <1>2, <1>3, <1>4 DEF MemoryInit, MemoryTypeOK, OwnerOrNone
<1>6. Shape
  BY DEF MemoryInit, Shape, RunOK
<1>7. QED
  BY <1>5, <1>6

\* The names: who is gone, and where to.
NamesOK ==
  /\ alias \in Tables
  /\ profiles = {v \in Voices : ~Gone(v)}
  /\ \A v \in Voices : Gone(v) => ~Gone(alias[v])

\* A merge or a forget keeps the table one hop deep, and in step with the
\* registry.
LEMMA RecordedNames ==
  ASSUME NamesOK, NEW from \in profiles, NEW to \in Owners, to # from,
         to \in profiles \union {"unknown"},
         alias' = Recorded(alias, from, to), profiles' = profiles \ {from}
  PROVE  NamesOK'
<1>1. /\ alias \in [Voices -> OwnerOrNone] /\ from \in Voices
      /\ "unknown" \notin Voices /\ "none" \notin Voices /\ to # "none"
  BY DEF NamesOK, Tables, Owners
<1>2. alias' \in [Voices -> OwnerOrNone]
      /\ \A v \in Voices : alias'[v] =
           IF v = from \/ alias[v] = from THEN to ELSE alias[v]
  BY <1>1 DEF Recorded, OwnerOrNone
<1>3. \A v \in Voices : (Gone(v))' <=> Gone(v) \/ v = from
  BY <1>1, <1>2 DEF Gone
<1>4. profiles' = {v \in Voices : ~(Gone(v))'}
  BY <1>3 DEF NamesOK
<1>5. ASSUME NEW v \in Voices, (Gone(v))' PROVE ~(Gone(alias[v]))'
  <2>1. ~Gone(to) /\ to # from
    BY <1>1 DEF NamesOK, Gone
  <2>2. CASE v = from \/ alias[v] = from
    BY <1>1, <1>2, <1>3, <2>1, <2>2 DEF Gone
  <2>3. CASE v # from /\ alias[v] # from
    <3>1. Gone(v) /\ alias'[v] = alias[v] /\ ~Gone(alias[v])
      BY <1>2, <1>3, <1>5, <2>3 DEF NamesOK
    <3>2. QED
      BY <1>1, <1>3, <2>3, <3>1 DEF Gone
  <2>4. QED
    BY <2>2, <2>3
<1>6. QED
  BY <1>2, <1>4, <1>5 DEF NamesOK, Tables

\* The names are as they were.
LEMMA NamesStay ==
  ASSUME NamesOK, UNCHANGED <<alias, profiles>> PROVE NamesOK'
BY DEF NamesOK, Gone

Others ==
  /\ fixed \in Corrections /\ facts \in Corrections
  /\ chatlog \in Seq([by : Owners, answered : BOOLEAN])
  /\ Len(chatlog) <= MaxTurns
  /\ talking \in OwnerOrNone
  /\ graph \in [Stores -> GraphStates] /\ durable \in [Stores -> GraphStates]
  /\ offset \in [Stores -> 0 .. MaxTurns]
  /\ active \in Stores /\ marker \in Stores /\ serving \in BOOLEAN
  /\ ingest \in Runs /\ building \in Switches
  /\ change \in [Admins -> Requests]
  /\ stray \subseteq Places \X Turns

\* The two halves of the type invariant.
LEMMA Halves == MemoryTypeOK <=> NamesOK /\ Others
BY DEF MemoryTypeOK, NamesOK, Others

\* What is noted as left behind is a place and a turn.
LEMMA StrayParts ==
  /\ \A p \in Places, S \in SUBSET Turns : At(p, S) \subseteq Places \X Turns
  /\ \A s \in Stores : \A g, ids :
       LeftBehind(s, g, ids) \subseteq Places \X Turns
  /\ \A t \in Turns : Holding(t) \X {t} \subseteq Places \X Turns
  /\ Stores \subseteq Places /\ "facts" \in Places
BY DEF At, LeftBehind, Holding, Places

\* The turns a request is about are turns.
LEMMA AboutTurns == \A c, owner : About(c, owner) \in SUBSET Turns
BY DEF About

\* An element of a sequence.
LEMMA ElementType ==
  ASSUME NEW S, NEW q \in Seq(S), NEW i \in 1 .. Len(q) PROVE q[i] \in S
OBVIOUS

\* The ingester touches its run, its store, its offset and nothing else.
LEMMA IngestTypes ==
  ASSUME MemoryTypeOK, Shape, IngestStep PROVE MemoryTypeOK' /\ Shape'
<1>1. /\ NamesOK /\ Others
      /\ ingest \in Runs /\ alias \in Tables /\ fixed \in Corrections
      /\ graph \in [Stores -> GraphStates] /\ active \in Stores
      /\ durable \in [Stores -> GraphStates]
      /\ offset \in [Stores -> 0 .. MaxTurns]
      /\ Len(chatlog) \in 0 .. MaxTurns
      /\ chatlog \in Seq([by : Owners, answered : BOOLEAN])
  BY Halves DEF MemoryTypeOK
<1>2. ASSUME IngesterOnly, ingest' \in Runs, RunOK',
             graph' \in [Stores -> GraphStates],
             durable' \in [Stores -> GraphStates],
             offset' \in [Stores -> 0 .. MaxTurns],
             stray' \subseteq Places \X Turns
      PROVE  MemoryTypeOK' /\ Shape'
  <2>1. NamesOK' /\ Others'
    BY <1>1, <1>2, NamesStay DEF IngesterOnly, Others
  <2>2. MemoryTypeOK'
    BY <2>1, Halves DEF MemoryTypeOK, NamesOK, Others
  <2>3. Shape'
    BY <1>2 DEF IngesterOnly, Shape, RequestOK
  <2>4. QED
    BY <2>2, <2>3
<1>3. serving \/ ingest.pc = "idle"
  BY DEF Shape, RunOK
<1>4. stray \subseteq Places \X Turns
  BY DEF MemoryTypeOK
<1>5. CASE IngestReads
  <2>1. offset[active] + 1 \in 0 .. MaxTurns + 1 /\ offset[active] + 1 >= 1
    BY <1>1
  <2>2. /\ NoIngest.names \in Tables /\ NoIngest.fixes \in Corrections
        /\ NoIngest.by = "none"
    BY IdleTypes DEF NoIngest
  <2>3. ingest' = [pc |-> "embed", next |-> Len(chatlog),
                   at |-> offset[active] + 1, names |-> NoIngest.names,
                   fixes |-> NoIngest.fixes, by |-> "none"]
    BY <1>5 DEF IngestReads, NoIngest
  <2>4. ingest' \in Runs
    BY <1>1, <2>1, <2>2, <2>3 DEF Runs, OwnerOrNone
  <2>5. RunOK'
    BY <1>1, <1>5, <2>1, <2>3 DEF IngestReads, RunOK, IngesterOnly
  <2>6. QED
    BY <1>1, <1>2, <1>4, <1>5, <2>4, <2>5 DEF IngestReads
<1>6. CASE IngestLoads
  BY <1>1, <1>2, <1>4, <1>6 DEF IngestLoads, Runs, RunOK, IngesterOnly, Shape
<1>7. CASE IngestFinds
  <2>1. /\ ingest.at + 1 \in 0 .. MaxTurns + 1 /\ ingest.at + 1 >= 1
        /\ ingest.pc = "item"
    BY <1>1, <1>7 DEF IngestFinds, Item, Runs, RunOK, Shape
  <2>2. ingest' \in Runs
    BY <1>1, <1>7, <2>1 DEF IngestFinds, Runs
  <2>3. RunOK'
    BY <1>1, <1>7, <2>1 DEF IngestFinds, Runs, RunOK, IngesterOnly, Shape
  <2>4. QED
    BY <1>1, <1>2, <1>4, <1>7, <2>2, <2>3 DEF IngestFinds
<1>8. CASE IngestResolves
  <2> DEFINE t == ingest.at
             by == Follow(graph[active].tomb,
                          Attribution(t, ingest.names, ingest.fixes))
  <2>1. t \in Turns /\ t \in 1 .. Len(chatlog) /\ ingest.pc = "item"
        /\ t <= ingest.next
    BY <1>1, <1>8 DEF IngestResolves, Item, Shape, RunOK, Runs, Turns
  <2>2. chatlog[t].by \in Owners /\ ingest.fixes[t] \in OwnerOrNone
        /\ ingest.names \in Tables
    <3> DEFINE Record == [by : Owners, answered : BOOLEAN]
    <3>a. chatlog \in Seq(Record)
      BY <1>1
    <3>1. chatlog[t] \in Record
      <4> HIDE DEF Record, t
      <4>1. QED
        BY <2>1, <3>a, ElementType
    <3>2. ingest.fixes \in [Turns -> OwnerOrNone] /\ ingest.names \in Tables
      BY <1>1 DEF Runs, Corrections
    <3>3. QED
      BY <2>1, <3>1, <3>2
  <2>3. Attribution(t, ingest.names, ingest.fixes) \in Owners
    BY <2>2, FollowType DEF Attribution, OwnerOrNone
  <2>4. graph[active] \in GraphStates /\ graph[active].tomb \in Tables
        /\ graph[active].users \in SUBSET Owners
    BY <1>1 DEF GraphStates, Tables
  <2>5. by \in Owners
    BY <2>3, <2>4, FollowType
  <2>6. ingest' = [ingest EXCEPT !.pc = "write", !.by = by]
    BY <1>8 DEF IngestResolves
  <2>7. graph' = IF ~chatlog[t].answered THEN graph
                 ELSE [graph EXCEPT ![active].users = @ \union {by}]
    BY <1>8 DEF IngestResolves
  <2> HIDE DEF by
  <2>8. graph' \in [Stores -> GraphStates]
    BY <1>1, <2>4, <2>5, <2>7 DEF GraphStates
  <2>9. ingest' \in Runs /\ ingest'.pc = "write" /\ ingest'.by = by
        /\ ingest'.at = t /\ ingest'.next = ingest.next
    BY <1>1, <2>5, <2>6 DEF Runs, OwnerOrNone
  <2>10. RunOK'
    BY <1>8, <2>1, <2>5, <2>9 DEF IngestResolves, IngesterOnly, RunOK, Shape,
       Runs
  <2>11. QED
    BY <1>1, <1>2, <1>4, <1>8, <2>8, <2>9, <2>10 DEF IngestResolves
<1>9. CASE IngestWrites
  <2>1. ingest.at \in Turns /\ ingest.by \in Owners /\ ingest.pc = "write"
        /\ ingest.at <= ingest.next
    BY <1>1, <1>9 DEF IngestWrites, Shape, RunOK, Runs, Turns
  <2>2. graph[active] \in GraphStates
        /\ graph[active].node \in [Turns -> OwnerOrNone]
    BY <1>1 DEF GraphStates
  <2>3. graph' \in [Stores -> GraphStates]
    BY <1>1, <1>9, <2>1, <2>2 DEF IngestWrites, GraphStates, OwnerOrNone
  <2>4. ingest' \in Runs
    <3>1. ingest.at + 1 \in 0 .. MaxTurns + 1
      BY <2>1 DEF Turns
    <3>2. QED
      BY <1>1, <1>9, <3>1 DEF IngestWrites, Runs, OwnerOrNone
  <2>5. RunOK'
    BY <1>1, <1>9, <2>1 DEF IngestWrites, IngesterOnly, RunOK, Shape, Runs
  <2>6. stray' \subseteq Places \X Turns
    BY <1>1, <1>4, <1>9, <2>1 DEF IngestWrites, Places
  <2>7. QED
    BY <1>1, <1>2, <1>9, <2>3, <2>4, <2>5, <2>6 DEF IngestWrites
<1>10. CASE IngestRejected \/ IngestFails
  BY <1>1, <1>2, <1>4, <1>10, IdleTypes
     DEF IngestRejected, IngestFails, RunOK
<1>11. CASE IngestFlushes
  BY <1>1, <1>2, <1>4, <1>11
     DEF IngestFlushes, Runs, RunOK, IngesterOnly, Shape
<1>12. CASE IngestCommits
  BY <1>1, <1>2, <1>4, <1>12, IdleTypes DEF IngestCommits, Runs, RunOK
<1>13. QED
  BY <1>5, <1>6, <1>7, <1>8, <1>9, <1>10, <1>11, <1>12 DEF IngestStep

\* A turn starts or ends.
LEMMA TurnTypes ==
  ASSUME MemoryTypeOK, Shape,
         TurnStarts \/ \E answered \in BOOLEAN : TurnEnds(answered)
  PROVE  MemoryTypeOK' /\ Shape'
<1>1. NamesOK /\ Others
  BY Halves
<1>2. CASE TurnStarts
  <2>1. NamesOK'
    BY <1>1, <1>2, NamesStay DEF TurnStarts
  <2>2. talking' \in Owners /\ Len(chatlog) < MaxTurns
    BY <1>1, <1>2 DEF TurnStarts, TurnAllowed, NamesOK, Owners
  <2>3. Others'
    BY <1>1, <1>2, <2>2 DEF TurnStarts, Others, OwnerOrNone
  <2>4. Shape'
    BY <1>2, <2>2 DEF TurnStarts, Shape, RunOK, RequestOK
  <2>5. QED
    BY <2>1, <2>3, <2>4, Halves DEF MemoryTypeOK, NamesOK, Others
<1>3. ASSUME NEW answered \in BOOLEAN, TurnEnds(answered)
      PROVE  MemoryTypeOK' /\ Shape'
  <2> DEFINE t == Len(chatlog) + 1
             Record == [by : Owners, answered : BOOLEAN]
             r == [by |-> talking, answered |-> answered]
  <2>1. NamesOK'
    BY <1>1, <1>3, NamesStay DEF TurnEnds
  <2>2. talking \in Owners /\ chatlog \in Seq(Record)
        /\ Len(chatlog) < MaxTurns
    BY <1>1, <1>3 DEF TurnEnds, Others, Shape, OwnerOrNone
  <2>3. r \in Record
    BY <2>2
  <2>4. chatlog' = Append(chatlog, r)
    BY <1>3 DEF TurnEnds
  <2>5. /\ chatlog' \in Seq(Record) /\ Len(chatlog) \in Nat
        /\ Len(chatlog') = Len(chatlog) + 1
    <3> HIDE DEF Record, r
    <3>1. QED
      BY <2>2, <2>3, <2>4
  <2>6. t \in Turns
    BY <2>2, <2>5 DEF Turns
  <2>7. facts' \in Corrections
    <3>1. facts' = [facts EXCEPT ![t] = talking] /\ facts \in Corrections
      BY <1>1, <1>3 DEF TurnEnds, Others
    <3>2. QED
      BY <2>2, <3>1 DEF Corrections, OwnerOrNone
  <2>8. stray' \subseteq Places \X Turns
    BY <1>1, <1>3, <2>6 DEF TurnEnds, Others, Places
  <2>9. Others'
    <3>1. /\ chatlog' \in Seq([by : Owners, answered : BOOLEAN])
          /\ Len(chatlog') <= MaxTurns /\ talking' = "none"
      BY <1>3, <2>2, <2>5 DEF TurnEnds
    <3>2. UNCHANGED <<fixed, graph, durable, offset, active, marker, serving,
                      ingest, building, change>>
      BY <1>3 DEF TurnEnds
    <3>3. QED
      BY <1>1, <2>7, <2>8, <3>1, <3>2 DEF Others, OwnerOrNone
  <2>10. RunOK'
    <3>1. ingest \in Runs /\ UNCHANGED <<serving, ingest>>
      BY <1>1, <1>3 DEF TurnEnds, Others
    <3>2. QED
      BY <2>5, <3>1 DEF Shape, RunOK, Runs
  <2>11. Shape'
    BY <1>3, <2>10 DEF TurnEnds, Shape, RequestOK
  <2>12. QED
    BY <2>1, <2>9, <2>11, Halves DEF MemoryTypeOK, NamesOK, Others
<1>4. QED
  BY <1>2, <1>3

\* A merge, a forget or a correction is asked for.
LEMMA RequestTypes ==
  ASSUME MemoryTypeOK, Shape, NEW a \in Admins,
         \/ \E v \in Voices :
              Forget(a, v) \/ \E keep \in Voices : Merge(a, keep, v)
         \/ \E t \in Turns, to \in Owners : Correct(a, t, to)
  PROVE  MemoryTypeOK' /\ Shape'
<1>1. NamesOK /\ Others
  BY Halves
<1>2. ASSUME NEW from \in Voices, NEW to \in profiles \union {"unknown"},
             Rename(a, from, to)
      PROVE  MemoryTypeOK' /\ Shape'
  <2>1. to \in Owners /\ profiles \subseteq Voices
    BY <1>1 DEF NamesOK, Owners
  <2>2. NamesOK'
    BY <1>1, <1>2, <2>1, RecordedNames DEF Rename
  <2> DEFINE c == [NoChange EXCEPT !.pc = "facts", !.from = from, !.to = to]
  <2>3. c \in Requests /\ RequestOK(c)
    BY <2>1, IdleTypes DEF NoChange, Requests, RequestOK
  <2>4. change' = [change EXCEPT ![a] = c] /\ change \in [Admins -> Requests]
    BY <1>1, <1>2 DEF Rename, Others
  <2> HIDE DEF c
  <2>5. Others'
    BY <1>1, <1>2, <2>3, <2>4 DEF Rename, Others
  <2>6. \A b \in Admins : RequestOK(change'[b])
    BY <2>3, <2>4 DEF Shape
  <2>7. Shape'
    BY <1>2, <2>6 DEF Rename, Shape, RunOK
  <2>8. QED
    BY <2>2, <2>5, <2>7, Halves DEF MemoryTypeOK, NamesOK, Others
<1>3. ASSUME NEW t \in Turns, NEW to \in Owners, Correct(a, t, to)
      PROVE  MemoryTypeOK' /\ Shape'
  <2>1. NamesOK'
    BY <1>1, <1>3, NamesStay DEF Correct
  <2> DEFINE c == [NoChange EXCEPT !.pc = "facts", !.kind = "turn",
                                   !.to = to, !.turn = t]
  <2>2. c \in Requests /\ RequestOK(c)
    <3>1. t \in 0 .. MaxTurns
      BY DEF Turns
    <3>2. QED
      BY <3>1, IdleTypes DEF NoChange, Requests, RequestOK
  <2>3. change' = [change EXCEPT ![a] = c] /\ change \in [Admins -> Requests]
    BY <1>1, <1>3 DEF Correct, Others
  <2>4. fixed' \in Corrections
    BY <1>1, <1>3 DEF Correct, Others, Corrections, OwnerOrNone
  <2> HIDE DEF c
  <2>5. Others'
    <3>1. change' \in [Admins -> Requests]
      BY <2>2, <2>3
    <3>2. UNCHANGED <<facts, chatlog, talking, graph, durable, offset, active,
                      marker, serving, ingest, building, stray>>
      BY <1>3 DEF Correct
    <3>3. QED
      BY <1>1, <2>4, <3>1, <3>2 DEF Others
  <2>6. \A b \in Admins : RequestOK(change'[b])
    BY <2>2, <2>3 DEF Shape
  <2>7. Shape'
    BY <1>3, <2>6 DEF Correct, Shape, RunOK
  <2>8. QED
    BY <2>1, <2>5, <2>7, Halves DEF MemoryTypeOK, NamesOK, Others
<1>4. QED
  BY <1>2, <1>3 DEF Merge, Forget

\* A request goes on.
LEMMA ChangeTypes ==
  ASSUME MemoryTypeOK, Shape, NEW a \in Admins, ChangeStep(a)
  PROVE  MemoryTypeOK' /\ Shape'
<1> DEFINE c == change[a]
<1>1. /\ NamesOK /\ Others
      /\ c \in Requests /\ c.to \in Owners /\ RequestOK(c)
      /\ active \in Stores /\ facts \in Corrections
      /\ change \in [Admins -> Requests]
      /\ graph \in [Stores -> GraphStates]
      /\ durable \in [Stores -> GraphStates]
      /\ stray \subseteq Places \X Turns
  BY Halves DEF Others, Shape, Requests
<1>2. /\ graph[active] \in GraphStates /\ graph[active].tomb \in Tables
      /\ graph[active].users \in SUBSET Owners
      /\ graph[active].node \in [Turns -> OwnerOrNone]
  BY <1>1 DEF GraphStates, Tables
<1>3. Follow(graph[active].tomb, c.to) \in Owners
  BY <1>1, <1>2, FollowType
<1> HIDE DEF c
\* What every step of a request leaves alone.
<1>4. ASSUME UNCHANGED <<profiles, alias, fixed, chatlog, talking, offset,
                         active, marker, serving, ingest, building>>,
             facts' \in Corrections,
             graph' \in [Stores -> GraphStates],
             durable' \in [Stores -> GraphStates],
             stray' \subseteq Places \X Turns,
             NEW d \in Requests, RequestOK(d),
             change' = [change EXCEPT ![a] = d]
      PROVE  MemoryTypeOK' /\ Shape'
  <2>1. NamesOK'
    BY <1>1, <1>4, NamesStay
  <2>2. change' \in [Admins -> Requests] /\ \A b \in Admins : RequestOK(change'[b])
    BY <1>1, <1>4 DEF Shape
  <2>3. Others'
    BY <1>1, <1>4, <2>2 DEF Others
  <2>4. Shape'
    BY <1>4, <2>2 DEF Shape, RunOK
  <2>5. QED
    BY <2>1, <2>3, <2>4, Halves DEF MemoryTypeOK, NamesOK, Others
<1>5. NoChange \in Requests /\ RequestOK(NoChange)
  BY IdleTypes
<1>6. ASSUME c.pc # "idle"
      PROVE  /\ c.kind = "voice" => c.from \in Voices
             /\ c.kind = "turn" => c.turn \in Turns
             /\ c.pc = "tomb" => c.kind = "voice" /\ c.store \in Stores
  BY <1>1, <1>6 DEF RequestOK
<1>7. CASE FactsMove(a)
  <2> DEFINE moved == About(c, facts)
  <2>1. c.pc = "facts" /\ moved \in SUBSET Turns
    BY <1>7, AboutTurns DEF FactsMove, c
  <2>2. /\ At("facts", moved) \subseteq Places \X Turns
        /\ c.kind = "turn" =>
             Holding(c.turn) \X {c.turn} \subseteq Places \X Turns
    BY <1>6, <2>1, StrayParts
  <2>3. [c EXCEPT !.pc = "graph"] \in Requests
        /\ RequestOK([c EXCEPT !.pc = "graph"])
    BY <1>1, <1>6, <2>1 DEF Requests, RequestOK
  <2>4. [t \in Turns |-> IF t \in moved THEN c.to ELSE facts[t]] \in Corrections
    BY <1>1 DEF Corrections, OwnerOrNone
  <2>5. facts' \in Corrections /\ stray' \subseteq Places \X Turns
    BY <1>1, <1>7, <2>2, <2>4 DEF FactsMove, c
  <2>6. UNCHANGED <<profiles, alias, fixed, chatlog, talking, offset, active,
                    marker, serving, ingest, building, graph, durable>>
    BY <1>7 DEF FactsMove
  <2>7. \/ change' = [change EXCEPT ![a] = NoChange]
        \/ change' = [change EXCEPT ![a] = [c EXCEPT !.pc = "graph"]]
    BY <1>7 DEF FactsMove, c
  <2>8. QED
    BY <1>1, <1>4, <1>5, <2>3, <2>5, <2>6, <2>7
<1>8. CASE GraphMoves(a)
  <2> DEFINE g == graph[active]
             dest == Follow(g.tomb, c.to)
             moved == About(c, g.node)
             d == [[[c EXCEPT !.pc = "tomb"] EXCEPT !.to = dest]
                     EXCEPT !.store = active]
  <2>1. c.pc = "graph" /\ c.kind = "voice" /\ c.from \in Voices
    BY <1>6, <1>8 DEF GraphMoves, c
  <2>2. moved \in SUBSET Turns /\ dest \in Owners
    BY <1>3, AboutTurns
  <2>3. At(active, moved) \subseteq Places \X Turns
    BY <1>1, <2>2, StrayParts
  <2>4. d \in Requests /\ RequestOK(d)
    BY <1>1, <2>1, <2>2 DEF Requests, RequestOK
  <2>5. Rewritten(g, c.from, dest) \in GraphStates
    BY <1>2, <2>2, RewrittenType
  <2>6. UNCHANGED <<profiles, alias, fixed, chatlog, talking, offset, active,
                    marker, serving, ingest, building, facts, durable>>
    BY <1>8 DEF GraphMoves
  <2>7. stray' \subseteq Places \X Turns
    BY <1>1, <1>8, <2>3 DEF GraphMoves, c
  <2>8. \/ /\ graph' = [graph EXCEPT ![active] = Rewritten(g, c.from, dest)]
           /\ change' = [change EXCEPT ![a] = d]
        \/ /\ graph' = graph
           /\ change' = [change EXCEPT ![a] = NoChange]
    BY <1>1, <1>8 DEF GraphMoves, c
  <2> HIDE DEF d, dest, moved
  <2>9. graph' \in [Stores -> GraphStates]
    BY <1>1, <2>5, <2>8
  <2>10. QED
    BY <1>1, <1>4, <1>5, <2>4, <2>6, <2>7, <2>8, <2>9
<1>9. CASE GraphTombs(a)
  <2>1. c.pc = "tomb" /\ c.from \in Voices /\ c.store \in Stores
    BY <1>6, <1>9 DEF GraphTombs, c
  <2>2. Tombstoned(graph[c.store], c.from, c.to) \in GraphStates
    BY <1>1, <2>1, TombstonedType
  <2>3. graph' \in [Stores -> GraphStates] /\ durable' \in [Stores -> GraphStates]
    BY <1>1, <1>9, <2>1, <2>2 DEF GraphTombs, c
  <2>4. UNCHANGED <<profiles, alias, fixed, chatlog, talking, offset, active,
                    marker, serving, ingest, building, facts, stray>>
        /\ change' = [change EXCEPT ![a] = NoChange]
    BY <1>9 DEF GraphTombs
  <2>5. QED
    BY <1>1, <1>4, <1>5, <2>3, <2>4
<1>10. CASE GraphCorrects(a)
  <2> DEFINE g == graph[active]
             dest == Follow(g.tomb, c.to)
             moved == About(c, g.node)
             now == [g EXCEPT !.users = @ \union {dest},
                              !.node = [t \in Turns |->
                                         IF t \in moved THEN dest ELSE @[t]]]
  <2>1. c.kind = "turn" /\ c.turn \in Turns
    BY <1>6, <1>10 DEF GraphCorrects, c
  <2>2. moved \in SUBSET Turns /\ dest \in Owners
    BY <1>3, AboutTurns
  <2>3. /\ At(active, moved) \subseteq Places \X Turns
        /\ Holding(c.turn) \X {c.turn} \subseteq Places \X Turns
    BY <1>1, <2>1, <2>2, StrayParts
  <2>4. stray' \subseteq Places \X Turns
    BY <1>1, <1>10, <2>3 DEF GraphCorrects, c
  <2>5. \/ graph' = [graph EXCEPT ![active] = now]
           /\ \/ durable' = durable
              \/ durable' = [durable EXCEPT ![active] = now]
        \/ graph' = graph /\ durable' = durable
    BY <1>10 DEF GraphCorrects, c
  <2>6. UNCHANGED <<profiles, alias, fixed, chatlog, talking, offset, active,
                    marker, serving, ingest, building, facts>>
        /\ change' = [change EXCEPT ![a] = NoChange]
    BY <1>10 DEF GraphCorrects
  <2>7. now \in GraphStates
    <3> HIDE DEF dest, moved
    <3>1. [t \in Turns |-> IF t \in moved THEN dest ELSE g.node[t]]
            \in [Turns -> OwnerOrNone]
      BY <1>2, <2>2 DEF OwnerOrNone
    <3>2. g.users \union {dest} \in SUBSET Owners
      BY <1>2, <2>2
    <3>3. QED
      BY <1>2, <3>1, <3>2 DEF GraphStates
  <2> HIDE DEF now
  <2>8. graph' \in [Stores -> GraphStates] /\ durable' \in [Stores -> GraphStates]
    BY <1>1, <2>5, <2>7
  <2>9. QED
    BY <1>1, <1>4, <1>5, <2>4, <2>6, <2>8
<1>11. QED
  BY <1>7, <1>8, <1>9, <1>10 DEF ChangeStep

\* A store is opened and brought up to date.
LEMMA ActivatedTypes ==
  ASSUME MemoryTypeOK, NEW s \in Stores, NEW g \in GraphStates, NEW cost,
         Activated(s, g, cost)
  PROVE  /\ graph' \in [Stores -> GraphStates]
         /\ durable' \in [Stores -> GraphStates]
         /\ stray' \subseteq Places \X Turns
<1>1. /\ graph \in [Stores -> GraphStates] /\ alias \in Tables
      /\ durable \in [Stores -> GraphStates]
      /\ stray \subseteq Places \X Turns
  BY DEF MemoryTypeOK
<1>2. PICK ids \in SUBSET Replayable(g) :
        /\ graph' = [graph EXCEPT ![s] = Replay(g, ids)]
        /\ durable' = [durable EXCEPT ![s] = Replay(g, ids)]
        /\ stray' = (stray \ PutRight(s, g, ids)) \union LeftBehind(s, g, ids)
  BY DEF Activated
<1>3. Replay(g, ids) \in GraphStates
  BY <1>1, ReplayType
<1>4. LeftBehind(s, g, ids) \subseteq Places \X Turns
  BY StrayParts
<1>5. QED
  BY <1>1, <1>2, <1>3, <1>4

\* A switch, a stop or a boot.
LEMMA StoreTypes ==
  ASSUME MemoryTypeOK, Shape,
         (\E s \in Stores : SwitchBuilds(s)) \/ SwitchSwaps \/ Halt \/ Starts
  PROVE  MemoryTypeOK' /\ Shape'
<1>1. /\ NamesOK /\ Others
      /\ graph \in [Stores -> GraphStates] /\ marker \in Stores
      /\ durable \in [Stores -> GraphStates]
      /\ change \in [Admins -> Requests]
      /\ stray \subseteq Places \X Turns
  BY Halves DEF Others
<1>2. CASE \E s \in Stores : SwitchBuilds(s)
  <2>1. PICK s \in Stores : SwitchBuilds(s)
    BY <1>2
  <2>2. PICK g \in {graph[s], durable[s]} : Activated(s, g, 1)
    BY <2>1 DEF SwitchBuilds
  <2>3. g \in GraphStates
    BY <1>1, <2>2
  <2>4. /\ graph' \in [Stores -> GraphStates]
        /\ durable' \in [Stores -> GraphStates]
        /\ stray' \subseteq Places \X Turns
    BY <2>2, <2>3, ActivatedTypes
  <2>5. building' = [to |-> s, names |-> alias] /\ building' \in Switches
    BY <1>1, <2>1 DEF SwitchBuilds, Switches, NamesOK
  <2>6. UNCHANGED <<profiles, alias, fixed, facts, chatlog, talking, offset,
                    active, marker, serving, ingest, change>>
    BY <2>1 DEF SwitchBuilds
  <2>7. NamesOK' /\ Others'
    BY <1>1, <2>4, <2>5, <2>6, NamesStay DEF Others
  <2>8. Shape'
    BY <2>5, <2>6 DEF Shape, RunOK, RequestOK
  <2>9. QED
    BY <2>7, <2>8, Halves DEF MemoryTypeOK, NamesOK, Others
<1>3. CASE SwitchSwaps
  <2>1. building.to \in Stores /\ active' = building.to
    BY <1>3 DEF SwitchSwaps, Shape
  <2>2. marker' \in Stores
    BY <1>1, <1>3, <2>1 DEF SwitchSwaps
  <2>3. offset' \in [Stores -> 0 .. MaxTurns]
    BY <1>1, <1>3 DEF SwitchSwaps, Others, Runs
  <2>4. stray' \subseteq Places \X Turns
    <3>1. LeftBehind(building.to, graph[building.to], {})
            \subseteq Places \X Turns
      BY <2>1, StrayParts
    <3>2. QED
      BY <1>1, <1>3, <3>1 DEF SwitchSwaps
  <2>5. /\ ingest' = NoIngest /\ building' = NoBuild
        /\ UNCHANGED <<profiles, alias, fixed, facts, chatlog, talking, graph,
                       durable, serving, change>>
    BY <1>3 DEF SwitchSwaps
  <2>6. NamesOK' /\ Others'
    BY <1>1, <2>1, <2>2, <2>3, <2>4, <2>5, NamesStay, IdleTypes DEF Others
  <2>7. Shape'
    BY <2>5, IdleTypes DEF Shape, RunOK, RequestOK
  <2>8. QED
    BY <2>6, <2>7, Halves DEF MemoryTypeOK, NamesOK, Others
<1>4. CASE Halt
  <2>1. /\ graph' \in [Stores -> GraphStates]
        /\ durable' \in [Stores -> GraphStates]
    BY <1>1, <1>4 DEF Halt
  <2>2. stray' \subseteq Places \X Turns
    <3> DEFINE A == {a \in Admins : change[a].pc = "facts"}
               B == {b \in Admins : change[b].pc # "idle"
                                      /\ change[b].kind = "turn"}
    <3>1. \A a \in A : At("facts", About(change[a], facts))
                         \subseteq Places \X Turns
      BY AboutTurns, StrayParts
    <3>2. \A t \in {change[a].turn : a \in B} :
            Holding(t) \X {t} \subseteq Places \X Turns
      BY StrayParts DEF Shape, RequestOK
    <3>3. stray' = stray
            \union (UNION {At("facts", About(change[a], facts)) : a \in A})
            \union (UNION {Holding(t) \X {t} :
                             t \in {change[a].turn : a \in B}})
      BY <1>4 DEF Halt
    <3> HIDE DEF A, B
    <3> DEFINE P == Places \X Turns
               F == UNION {At("facts", About(change[a], facts)) : a \in A}
               T == UNION {Holding(t) \X {t} : t \in {change[a].turn : a \in B}}
    <3>4. F \subseteq P
      BY <3>1
    <3>5. T \subseteq P
      BY <3>2
    <3>6. stray' = (stray \union F) \union T
      BY <3>3
    <3>7. stray \subseteq P
      BY <1>1
    <3> HIDE DEF P, F, T
    <3>8. stray' \subseteq P
      BY <3>4, <3>5, <3>6, <3>7
    <3>9. QED
      BY <3>8 DEF P
  <2>3. /\ talking' = "none" /\ ingest' = NoIngest /\ building' = NoBuild
        /\ change' = [a \in Admins |-> NoChange] /\ serving' = FALSE
        /\ UNCHANGED <<profiles, alias, fixed, facts, chatlog, offset, active,
                       marker>>
    BY <1>4 DEF Halt
  <2>4. NamesOK' /\ Others'
    BY <1>1, <2>1, <2>2, <2>3, NamesStay, IdleTypes DEF Others, OwnerOrNone
  <2>5. Shape'
    BY <2>3, IdleTypes DEF Shape, RunOK
  <2>6. QED
    BY <2>4, <2>5, Halves DEF MemoryTypeOK, NamesOK, Others
<1>5. CASE Starts
  <2>1. Activated(marker, graph[marker], 0)
    BY <1>5 DEF Starts
  <2>2. /\ graph' \in [Stores -> GraphStates]
        /\ durable' \in [Stores -> GraphStates]
        /\ stray' \subseteq Places \X Turns
    BY <1>1, <2>1, ActivatedTypes
  <2>3. /\ active' = marker /\ serving' = TRUE /\ ~serving
        /\ UNCHANGED <<profiles, alias, fixed, facts, chatlog, talking, offset,
                       marker, ingest, building, change>>
    BY <1>5 DEF Starts
  <2>4. NamesOK' /\ Others'
    BY <1>1, <2>2, <2>3, NamesStay DEF Others
  <2>5. Shape'
    BY <2>3 DEF Shape, RunOK, RequestOK
  <2>6. QED
    BY <2>4, <2>5, Halves DEF MemoryTypeOK, NamesOK, Others
<1>6. QED
  BY <1>2, <1>3, <1>4, <1>5

\* Every step keeps the types.
LEMMA StepTypes ==
  ASSUME MemoryTypeOK, Shape, [MemoryNext]_memoryVars
  PROVE  MemoryTypeOK' /\ Shape'
<1>1. CASE TurnStarts \/ \E answered \in BOOLEAN : TurnEnds(answered)
  BY <1>1, TurnTypes
<1>2. CASE \E a \in Admins, v \in Voices :
             Forget(a, v) \/ \E keep \in Voices : Merge(a, keep, v)
  BY <1>2, RequestTypes
<1>3. CASE \E a \in Admins, t \in Turns, to \in Owners : Correct(a, t, to)
  BY <1>3, RequestTypes
<1>4. CASE \E a \in Admins : ChangeStep(a)
  BY <1>4, ChangeTypes
<1>5. CASE IngestStep
  BY <1>5, IngestTypes
<1>6. CASE (\E s \in Stores : SwitchBuilds(s)) \/ SwitchSwaps \/ Halt \/ Starts
  BY <1>6, StoreTypes
<1>7. CASE UNCHANGED memoryVars
  <2>1. NamesOK' /\ Others'
    BY <1>7, Halves, NamesStay DEF memoryVars, Others
  <2>2. Shape'
    BY <1>7 DEF memoryVars, Shape, RunOK, RequestOK
  <2>3. QED
    BY <2>1, <2>2, Halves DEF MemoryTypeOK, NamesOK, Others
<1>8. QED
  BY <1>1, <1>2, <1>3, <1>4, <1>5, <1>6, <1>7 DEF MemoryNext

\* Every variable keeps its type, the aliases stay one hop deep, and the
\* registry keeps exactly the ids that were not aliased away
\* (speaker/aliases.rs record, speaker/registry.rs merge and delete).
THEOREM TypeCorrect == MemorySpec => []MemoryTypeOK
<1>1. MemoryInit => MemoryTypeOK /\ Shape
  BY InitTypes
<1>2. MemoryTypeOK /\ Shape /\ [MemoryNext]_memoryVars
        => (MemoryTypeOK /\ Shape)'
  BY StepTypes
<1>3. QED
  BY <1>1, <1>2, PTL DEF MemorySpec
----------------------------------------------------------------------------
(* Nothing the offset passes is lost.                                      *)

\* What NothingSkipped rests on: a store keeps no more than it has, a run
\* has the records it has gone through, and once it has flushed they are
\* kept.
Kept ==
  /\ \A s \in Stores : Grows(durable[s], graph[s])
  /\ NothingSkipped
  /\ ingest.pc \in {"embed", "item", "write"} =>
       \A t \in Turns : t < ingest.at => graph[active].node[t] # "none"
  /\ ingest.pc = "commit" =>
       \A t \in Turns : t <= ingest.next => durable[active].node[t] # "none"

LEMMA GrowsTwice ==
  ASSUME NEW g, NEW h, NEW i, Grows(g, h), Grows(h, i) PROVE Grows(g, i)
BY DEF Grows

LEMMA GrowsNot == \A g : Grows(g, g)
BY DEF Grows

\* No record leaves a store, what is kept is there, and the run is where it
\* was, or over.
LEMMA KeptGrows ==
  ASSUME Kept, active' = active \/ ingest.pc = "idle",
         ingest' = ingest \/ ingest'.pc = "idle",
         \A s \in Stores : /\ Grows(durable[s], durable'[s])
                           /\ Grows(durable'[s], graph'[s]),
         ingest'.pc = "idle" \/ Grows(graph[active], graph'[active]),
         active \in Stores, UNCHANGED offset
  PROVE  Kept'
<1>1. \A s \in Stores : Grows(durable'[s], graph'[s])
  OBVIOUS
<1>2. NothingSkipped'
  BY DEF Kept, NothingSkipped, Grows
<1>3. CASE ingest'.pc = "idle"
  BY <1>1, <1>2, <1>3 DEF Kept
<1>4. CASE ingest' = ingest /\ ingest.pc # "idle"
  <2>1. active' = active /\ Grows(graph[active], graph'[active])
        /\ Grows(durable[active], durable'[active])
    BY <1>4
  <2>2. QED
    BY <1>1, <1>2, <1>4, <2>1 DEF Kept, Grows
<1>5. QED
  BY <1>3, <1>4

\* The steps of the ingester.
LEMMA IngestKept ==
  ASSUME MemoryTypeOK, Shape, Kept, IngestStep PROVE Kept'
<1>1. /\ ingest \in Runs /\ graph \in [Stores -> GraphStates]
      /\ durable \in [Stores -> GraphStates]
      /\ offset \in [Stores -> 0 .. MaxTurns] /\ active \in Stores
      /\ UNCHANGED active
      /\ \A s \in Stores : Grows(durable[s], graph[s])
  BY DEF MemoryTypeOK, IngestStep, IngesterOnly, IngestReads, IngestLoads,
     IngestFinds, IngestResolves, IngestWrites, IngestRejected, IngestFlushes,
     IngestCommits, IngestFails, Kept
<1>2. ingest.at \in 0 .. MaxTurns + 1 /\ ingest.next \in 0 .. MaxTurns
  BY <1>1 DEF Runs
<1>3. CASE IngestReads
  <2>1. ingest' = [NoIngest EXCEPT !.pc = "embed", !.next = Len(chatlog),
                                  !.at = offset[active] + 1]
    BY <1>3 DEF IngestReads
  <2>2. ingest'.pc = "embed" /\ ingest'.at = offset[active] + 1
    BY <2>1 DEF NoIngest
  <2>3. UNCHANGED <<graph, durable, offset, active>>
    BY <1>1, <1>3 DEF IngestReads
  <2>4. ASSUME NEW t \in Turns, t < ingest'.at
        PROVE  graph'[active].node[t] # "none"
    <3>1. t <= offset[active]
      BY <1>1, <2>2, <2>4 DEF Turns
    <3>2. durable[active].node[t] # "none"
      BY <1>1, <3>1 DEF Kept, NothingSkipped
    <3>3. QED
      BY <1>1, <2>3, <3>2 DEF Grows
  <2>5. NothingSkipped'
    BY <2>3 DEF Kept, NothingSkipped
  <2>6. QED
    BY <1>1, <2>2, <2>3, <2>4, <2>5 DEF Kept
<1>4. CASE IngestLoads
  <2>1. /\ ingest.pc = "embed" /\ ingest'.pc = "item"
        /\ ingest'.at = ingest.at
        /\ UNCHANGED <<graph, durable, offset, active>>
    BY <1>1, <1>4 DEF IngestLoads, Runs
  <2>2. QED
    BY <2>1 DEF Kept, NothingSkipped
<1>5. CASE IngestFinds
  <2>1. /\ ingest.pc = "item" /\ ingest'.pc = "item"
        /\ ingest'.at = ingest.at + 1
        /\ graph[active].node[ingest.at] # "none"
        /\ UNCHANGED <<graph, durable, offset, active>>
    BY <1>1, <1>5 DEF IngestFinds, Item, Runs
  <2>2. \A t \in Turns : t < ingest.at + 1 => t < ingest.at \/ t = ingest.at
    BY <1>2 DEF Turns
  <2>3. QED
    BY <2>1, <2>2 DEF Kept, NothingSkipped
<1>6. CASE IngestResolves
  <2>1. /\ ingest.pc = "item" /\ ingest'.pc = "write"
        /\ ingest'.at = ingest.at
        /\ UNCHANGED <<durable, offset, active>>
    BY <1>1, <1>6 DEF IngestResolves, Item, Runs
  <2>2. \A s \in Stores : graph'[s].node = graph[s].node
    BY <1>1, <1>6 DEF IngestResolves, GraphStates
  <2>3. QED
    BY <1>1, <2>1, <2>2 DEF Kept, NothingSkipped, Grows
<1>7. CASE IngestWrites
  <2>1. /\ ingest.pc = "write" /\ ingest'.pc = "item"
        /\ ingest'.at = ingest.at + 1
        /\ UNCHANGED <<durable, offset, active>>
        /\ graph' = [graph EXCEPT ![active].node[ingest.at] = ingest.by]
    BY <1>1, <1>7 DEF IngestWrites, Runs
  <2>2. ingest.by # "none"
    BY <2>1 DEF Shape, RunOK, Owners
  <2>3. graph[active].node \in [Turns -> OwnerOrNone]
    BY <1>1 DEF GraphStates
  <2>4. graph'[active].node = [graph[active].node EXCEPT
                                 ![ingest.at] = ingest.by]
        /\ \A s \in Stores \ {active} : graph'[s] = graph[s]
    BY <1>1, <2>1 DEF GraphStates
  <2>5. \A t \in Turns :
          /\ graph[active].node[t] # "none" =>
               graph'[active].node[t] # "none"
          /\ t = ingest.at => graph'[active].node[t] # "none"
    BY <2>2, <2>3, <2>4
  <2>6. \A t \in Turns : t < ingest.at + 1 => t < ingest.at \/ t = ingest.at
    BY <1>2 DEF Turns
  <2>7. \A s \in Stores : Grows(durable'[s], graph'[s])
    BY <1>1, <2>1, <2>4, <2>5 DEF Grows
  <2>8. \A t \in Turns : t < ingest'.at => graph'[active'].node[t] # "none"
    BY <2>1, <2>5, <2>6 DEF Kept
  <2>9. QED
    BY <2>1, <2>7, <2>8 DEF Kept, NothingSkipped
<1>8. CASE IngestRejected \/ IngestFails
  <2>1. ingest'.pc = "idle" /\ UNCHANGED <<graph, durable, offset, active>>
    BY <1>1, <1>8, IdleTypes DEF IngestRejected, IngestFails
  <2>2. QED
    BY <1>1, <2>1, KeptGrows, GrowsNot
<1>9. CASE IngestFlushes
  <2>1. /\ ingest.pc = "item" /\ ingest.at > ingest.next
        /\ ingest'.pc = "commit" /\ ingest'.next = ingest.next
        /\ durable' = [durable EXCEPT ![active] = graph[active]]
        /\ UNCHANGED <<graph, offset, active>>
    BY <1>1, <1>9 DEF IngestFlushes, Runs
  <2>2. \A t \in Turns : t <= ingest.next => t < ingest.at
    BY <1>2, <2>1 DEF Turns
  <2>3. durable'[active] = graph[active]
        /\ \A s \in Stores \ {active} : durable'[s] = durable[s]
    BY <1>1, <2>1
  <2>4. \A s \in Stores : Grows(durable'[s], graph'[s])
                          /\ Grows(durable[s], durable'[s])
    BY <1>1, <2>1, <2>3, GrowsNot
  <2>5. NothingSkipped'
    BY <2>1, <2>4 DEF Kept, NothingSkipped, Grows
  <2>6. QED
    BY <2>1, <2>2, <2>3, <2>4, <2>5 DEF Kept
<1>10. CASE IngestCommits
  <2>1. /\ ingest.pc = "commit" /\ ingest'.pc = "idle"
        /\ offset' = [offset EXCEPT ![active] = ingest.next]
        /\ UNCHANGED <<graph, durable, active>>
    BY <1>1, <1>10, IdleTypes DEF IngestCommits
  <2>2. NothingSkipped'
    BY <1>1, <2>1 DEF Kept, NothingSkipped
  <2>3. QED
    BY <2>1, <2>2 DEF Kept
<1>11. QED
  BY <1>3, <1>4, <1>5, <1>6, <1>7, <1>8, <1>9, <1>10 DEF IngestStep

\* A request rewrites owners, and never takes a record out.
LEMMA ChangeKept ==
  ASSUME MemoryTypeOK, Shape, Kept, NEW a \in Admins, ChangeStep(a)
  PROVE  Kept'
<1> DEFINE c == change[a]
           g == graph[active]
<1>1. /\ graph \in [Stores -> GraphStates] /\ active \in Stores
      /\ durable \in [Stores -> GraphStates]
      /\ c \in Requests /\ c.to \in Owners /\ RequestOK(c)
      /\ g \in GraphStates /\ g.tomb \in Tables
      /\ \A s \in Stores : Grows(durable[s], graph[s])
  BY DEF MemoryTypeOK, Shape, Requests, Kept, GraphStates, Tables
<1>2. Follow(g.tomb, c.to) \in Owners
  BY <1>1, FollowType
<1>3. UNCHANGED <<offset, active, ingest>>
  BY DEF ChangeStep, FactsMove, GraphMoves, GraphTombs, GraphCorrects
<1>4. ASSUME \A s \in Stores : /\ Grows(durable[s], durable'[s])
                               /\ Grows(durable'[s], graph'[s])
                               /\ Grows(graph[s], graph'[s])
      PROVE  Kept'
  BY <1>1, <1>3, <1>4, KeptGrows
<1>5. CASE UNCHANGED <<graph, durable>>
  BY <1>1, <1>4, <1>5, GrowsNot
<1>6. ASSUME NEW h \in GraphStates, NEW s \in Stores, Grows(graph[s], h),
             graph' = [graph EXCEPT ![s] = h],
             durable' = durable \/ durable' = [durable EXCEPT ![s] = h]
      PROVE  Kept'
  <2>1. graph'[s] = h /\ \A r \in Stores \ {s} : graph'[r] = graph[r]
    BY <1>1, <1>6
  <2>2. Grows(durable[s], h)
    BY <1>1, <1>6, GrowsTwice
  <2>3. \A r \in Stores : Grows(graph[r], graph'[r])
    BY <1>6, <2>1, GrowsNot
  <2>4. CASE durable' = durable
    <3>1. \A r \in Stores : Grows(durable'[r], graph'[r])
      BY <1>1, <2>1, <2>2, <2>4
    <3>2. QED
      BY <1>4, <2>3, <2>4, <3>1, GrowsNot
  <2>5. CASE durable' = [durable EXCEPT ![s] = h]
    <3>1. durable'[s] = h /\ \A r \in Stores \ {s} : durable'[r] = durable[r]
      BY <1>1, <2>5
    <3>2. QED
      BY <1>1, <1>4, <2>1, <2>2, <2>3, <3>1, GrowsNot
  <2>6. QED
    BY <1>6, <2>4, <2>5
<1>7. CASE FactsMove(a)
  BY <1>5, <1>7 DEF FactsMove
<1>8. CASE GraphMoves(a)
  <2> DEFINE dest == Follow(g.tomb, c.to)
  <2>1. Rewritten(g, c.from, dest) \in GraphStates
        /\ Grows(g, Rewritten(g, c.from, dest))
    BY <1>1, <1>2, RewrittenType
  <2>2. \/ UNCHANGED <<graph, durable>>
        \/ graph' = [graph EXCEPT ![active] = Rewritten(g, c.from, dest)]
           /\ durable' = durable
    BY <1>8 DEF GraphMoves
  <2>3. QED
    BY <1>1, <1>5, <1>6, <2>1, <2>2
<1>9. CASE GraphTombs(a)
  <2>1. c.from \in Voices /\ c.store \in Stores
    BY <1>1, <1>9 DEF GraphTombs, RequestOK
  <2> DEFINE h == Tombstoned(graph[c.store], c.from, c.to)
  <2>2. graph[c.store] \in GraphStates
    BY <1>1, <2>1
  <2>3. h \in GraphStates /\ Grows(graph[c.store], h)
    BY <1>1, <2>1, <2>2, TombstonedType
  <2>4. \/ UNCHANGED <<graph, durable>>
        \/ /\ graph' = [graph EXCEPT ![c.store] = h]
           /\ durable' = [durable EXCEPT ![c.store] = graph'[c.store]]
    BY <1>9 DEF GraphTombs
  <2>5. graph' = [graph EXCEPT ![c.store] = h] => graph'[c.store] = h
    BY <1>1, <2>1
  <2>6. QED
    BY <1>5, <1>6, <2>1, <2>3, <2>4, <2>5
<1>10. CASE GraphCorrects(a)
  <2> DEFINE dest == Follow(g.tomb, c.to)
             moved == About(c, g.node)
             now == [g EXCEPT !.users = @ \union {dest},
                              !.node = [t \in Turns |->
                                         IF t \in moved THEN dest ELSE @[t]]]
  <2>1. \/ UNCHANGED <<graph, durable>>
        \/ /\ graph' = [graph EXCEPT ![active] = now]
           /\ durable' = durable \/ durable' = [durable EXCEPT ![active] = now]
    BY <1>10 DEF GraphCorrects
  <2>2. now \in GraphStates /\ Grows(g, now)
    <3> HIDE DEF dest, moved
    <3>1. /\ g.node \in [Turns -> OwnerOrNone] /\ g.users \in SUBSET Owners
          /\ dest \in Owners /\ "none" \notin Owners
      BY <1>1, <1>2 DEF dest, GraphStates, Owners
    <3>2. [t \in Turns |-> IF t \in moved THEN dest ELSE g.node[t]]
            \in [Turns -> OwnerOrNone]
      BY <3>1 DEF OwnerOrNone
    <3>3. now \in GraphStates
      BY <1>1, <3>1, <3>2 DEF GraphStates
    <3>4. now.node = [t \in Turns |-> IF t \in moved THEN dest ELSE g.node[t]]
      BY <1>1 DEF GraphStates
    <3>5. Grows(g, now)
      BY <3>1, <3>4 DEF Grows
    <3>6. QED
      BY <3>3, <3>5
  <2> HIDE DEF now
  <2>3. QED
    BY <1>1, <1>5, <1>6, <2>1, <2>2
<1>11. QED
  BY <1>7, <1>8, <1>9, <1>10 DEF ChangeStep

\* Nor does a switch, a stop or a boot take a record out of what is kept.
LEMMA StoreKept ==
  ASSUME MemoryTypeOK, Shape, Kept,
         (\E s \in Stores : SwitchBuilds(s)) \/ SwitchSwaps \/ Halt \/ Starts
  PROVE  Kept'
<1>1. /\ graph \in [Stores -> GraphStates] /\ active \in Stores
      /\ durable \in [Stores -> GraphStates] /\ marker \in Stores
      /\ alias \in Tables /\ ingest \in Runs
      /\ offset \in [Stores -> 0 .. MaxTurns]
      /\ \A s \in Stores : Grows(durable[s], graph[s])
  BY DEF MemoryTypeOK, Kept
\* Store s is opened as g.
<1>2. ASSUME NEW s \in Stores, NEW g \in {graph[s], durable[s]}, NEW cost,
             Activated(s, g, cost)
      PROVE  /\ \A r \in Stores : /\ Grows(durable[r], durable'[r])
                                  /\ Grows(durable'[r], graph'[r])
             /\ \A r \in Stores \ {s} : graph'[r] = graph[r]
  <2>1. PICK ids \in SUBSET Replayable(g) :
          /\ graph' = [graph EXCEPT ![s] = Replay(g, ids)]
          /\ durable' = [durable EXCEPT ![s] = Replay(g, ids)]
    BY <1>2 DEF Activated
  <2>2. g \in GraphStates /\ Grows(durable[s], g)
    BY <1>1, <1>2, GrowsNot
  <2>3. Grows(g, Replay(g, ids))
    BY <1>1, <2>2, ReplayType
  <2>4. Grows(durable[s], Replay(g, ids))
    BY <2>2, <2>3, GrowsTwice
  <2>5. /\ graph'[s] = Replay(g, ids) /\ durable'[s] = Replay(g, ids)
        /\ \A r \in Stores \ {s} : graph'[r] = graph[r]
                                   /\ durable'[r] = durable[r]
    BY <1>1, <2>1
  <2>6. QED
    BY <1>1, <2>4, <2>5, GrowsNot
<1>3. CASE \E s \in Stores : SwitchBuilds(s)
  <2>1. PICK s \in Stores : SwitchBuilds(s)
    BY <1>3
  <2>2. PICK g \in {graph[s], durable[s]} : Activated(s, g, 1)
    BY <2>1 DEF SwitchBuilds
  <2>3. s # active /\ UNCHANGED <<offset, active, ingest>>
    BY <2>1 DEF SwitchBuilds
  <2>4. /\ \A r \in Stores : /\ Grows(durable[r], durable'[r])
                             /\ Grows(durable'[r], graph'[r])
        /\ \A r \in Stores \ {s} : graph'[r] = graph[r]
    BY <1>2, <2>2
  <2>5. Grows(graph[active], graph'[active])
    BY <1>1, <2>3, <2>4, GrowsNot
  <2>6. QED
    BY <1>1, <2>3, <2>4, <2>5, KeptGrows
<1>4. CASE SwitchSwaps
  <2>1. ingest'.pc = "idle" /\ UNCHANGED <<graph, durable>>
    BY <1>4, IdleTypes DEF SwitchSwaps
  <2>2. \/ offset' = offset
        \/ /\ ingest.pc = "commit"
           /\ offset' = [offset EXCEPT ![active] = ingest.next]
    BY <1>4 DEF SwitchSwaps
  <2>3. NothingSkipped'
    BY <1>1, <2>1, <2>2 DEF Kept, NothingSkipped
  <2>4. QED
    BY <1>1, <2>1, <2>3 DEF Kept
<1>5. CASE Halt
  <2>1. /\ ingest'.pc = "idle" /\ graph' \in {graph, durable}
        /\ durable' = graph' /\ UNCHANGED <<offset, active>>
    BY <1>5, IdleTypes DEF Halt
  <2>2. \A s \in Stores : /\ Grows(durable[s], durable'[s])
                          /\ Grows(durable'[s], graph'[s])
    BY <1>1, <2>1, GrowsNot
  <2>3. QED
    BY <1>1, <2>1, <2>2, KeptGrows
<1>6. CASE Starts
  <2>1. Activated(marker, graph[marker], 0) /\ UNCHANGED <<offset, ingest>>
        /\ ingest.pc = "idle"
    BY <1>6 DEF Starts, Shape, RunOK
  <2>2. \A r \in Stores : /\ Grows(durable[r], durable'[r])
                          /\ Grows(durable'[r], graph'[r])
    BY <1>1, <1>2, <2>1
  <2>3. QED
    BY <1>1, <2>1, <2>2, KeptGrows
<1>7. QED
  BY <1>3, <1>4, <1>5, <1>6

\* Every step keeps it.
LEMMA StepKept ==
  ASSUME MemoryTypeOK, Shape, Kept, [MemoryNext]_memoryVars PROVE Kept'
<1>1. active \in Stores /\ \A s \in Stores : Grows(durable[s], graph[s])
  BY DEF MemoryTypeOK, Kept
<1>2. CASE UNCHANGED <<graph, durable, offset, active, ingest>>
  BY <1>1, <1>2, KeptGrows, GrowsNot
<1>3. CASE TurnStarts \/ \E answered \in BOOLEAN : TurnEnds(answered)
  BY <1>2, <1>3 DEF TurnStarts, TurnEnds
<1>4. CASE \E a \in Admins, v \in Voices :
             Forget(a, v) \/ \E keep \in Voices : Merge(a, keep, v)
  BY <1>2, <1>4 DEF Forget, Merge, Rename
<1>5. CASE \E a \in Admins, t \in Turns, to \in Owners : Correct(a, t, to)
  BY <1>2, <1>5 DEF Correct
<1>6. CASE \E a \in Admins : ChangeStep(a)
  BY <1>6, ChangeKept
<1>7. CASE IngestStep
  BY <1>7, IngestKept
<1>8. CASE (\E s \in Stores : SwitchBuilds(s)) \/ SwitchSwaps \/ Halt \/ Starts
  BY <1>8, StoreKept
<1>9. CASE UNCHANGED memoryVars
  BY <1>2, <1>9 DEF memoryVars
<1>10. QED
  BY <1>3, <1>4, <1>5, <1>6, <1>7, <1>8, <1>9 DEF MemoryNext

\* At the start nothing is kept and nothing is passed.
LEMMA InitKept == MemoryInit => Kept
<1> SUFFICES ASSUME MemoryInit PROVE Kept
  OBVIOUS
<1>1. /\ \A s \in Stores : durable[s] = graph[s] /\ offset[s] = 0
      /\ ingest.pc = "idle"
  BY IdleTypes DEF MemoryInit
<1>2. \A t \in Turns : ~(t <= 0)
  BY DEF Turns
<1>3. QED
  BY <1>1, <1>2, GrowsNot DEF Kept, NothingSkipped

\* Whatever is stopped, retried, aborted, switched or merged, a record the
\* offset of a store has passed is durably in that store (ingester.rs
\* run_once, which flushes before it commits the offset).
THEOREM OffsetNeverSkips == MemorySpec => []NothingSkipped
<1>1. MemoryInit => MemoryTypeOK /\ Shape /\ Kept
  BY InitTypes, InitKept
<1>2. MemoryTypeOK /\ Shape /\ Kept /\ [MemoryNext]_memoryVars
        => (MemoryTypeOK /\ Shape /\ Kept)'
  BY StepTypes, StepKept
<1>3. MemoryTypeOK /\ Shape /\ Kept => NothingSkipped
  BY DEF Kept
<1>4. QED
  BY <1>1, <1>2, <1>3, PTL DEF MemorySpec
----------------------------------------------------------------------------
(* Turns and the log.                                                      *)

\* A logged turn is a turn, of somebody or of nobody known.
LEMMA LogTypes ==
  ASSUME MemoryTypeOK
  PROVE  /\ Len(chatlog) \in Nat /\ Logged \in SUBSET Turns
         /\ \A t \in Logged : chatlog[t].by \in Owners
<1> DEFINE Record == [by : Owners, answered : BOOLEAN]
<1>1. chatlog \in Seq(Record) /\ Len(chatlog) <= MaxTurns
  BY DEF MemoryTypeOK
<1>2. ASSUME NEW t \in Logged PROVE chatlog[t].by \in Owners
  <2>1. chatlog[t] \in Record
    <3> HIDE DEF Record
    <3>1. QED
      BY <1>1, <1>2, ElementType DEF Logged
  <2>2. QED
    BY <2>1
<1>3. Len(chatlog) \in Nat
  <2> HIDE DEF Record
  <2>1. QED
    BY <1>1
<1>4. Logged \in SUBSET Turns
  BY <1>1, <1>3, MemoryAssumption DEF Logged, Turns
<1>5. QED
  BY <1>2, <1>3, <1>4

\* A turn that ends is the next in the log, and no other changes.
LEMMA LogGrows ==
  ASSUME MemoryTypeOK, Shape, NEW answered \in BOOLEAN, TurnEnds(answered)
  PROVE  /\ Len(chatlog) + 1 \in Turns \ Logged
         /\ Logged' = Logged \union {Len(chatlog) + 1}
         /\ \A t \in Logged : chatlog'[t] = chatlog[t]
         /\ chatlog'[Len(chatlog) + 1].by = talking
         /\ facts' = [facts EXCEPT ![Len(chatlog) + 1] = talking]
         /\ facts' \in [Turns -> OwnerOrNone] /\ talking \in Owners
<1> DEFINE Record == [by : Owners, answered : BOOLEAN]
           r == [by |-> talking, answered |-> answered]
<1>1. /\ chatlog \in Seq(Record) /\ chatlog' = Append(chatlog, r)
      /\ talking \in Owners /\ Len(chatlog) < MaxTurns
      /\ facts' = [facts EXCEPT ![Len(chatlog) + 1] = talking]
      /\ facts \in [Turns -> OwnerOrNone]
  BY DEF MemoryTypeOK, OwnerOrNone, TurnEnds, Shape, Corrections
<1>2. Len(chatlog) \in Nat
  BY LogTypes
<1>3. r \in Record
  BY <1>1
<1>4. /\ Len(chatlog') = Len(chatlog) + 1
      /\ \A t \in 1 .. Len(chatlog) : chatlog'[t] = chatlog[t]
      /\ chatlog'[Len(chatlog) + 1] = r
  <2> HIDE DEF Record, r
  <2>1. QED
    BY <1>1, <1>3
<1>5. /\ Len(chatlog) + 1 \in Turns /\ Len(chatlog) + 1 \notin Logged
      /\ 1 .. (Len(chatlog) + 1) = (1 .. Len(chatlog)) \union {Len(chatlog) + 1}
  BY <1>1, <1>2, MemoryAssumption DEF Turns, Logged
<1>6. Logged' = Logged \union {Len(chatlog) + 1}
  BY <1>4, <1>5 DEF Logged
<1>7. facts' \in [Turns -> OwnerOrNone]
  BY <1>1 DEF OwnerOrNone
<1>8. QED
  BY <1>1, <1>4, <1>5, <1>6, <1>7 DEF Logged

\* A turn has a fact once it is logged, and nothing before.
TurnsInv ==
  /\ \A t \in Logged : facts[t] # "none"
  /\ \A t \in Turns \ Logged :
       /\ fixed[t] = "none" /\ ingest.fixes[t] = "none"
       /\ \A s \in Stores : /\ graph[s].node[t] = "none"
                            /\ durable[s].node[t] = "none"
  /\ \A a \in Admins : change[a].pc # "idle" /\ change[a].kind = "turn" =>
       change[a].turn \in Logged /\ fixed[change[a].turn] # "none"

\* What a replay makes of a record.
LEMMA NodesReplayed ==
  ASSUME NEW g \in GraphStates, NEW ids \in SUBSET Replayable(g), NEW t \in Turns
  PROVE  Replay(g, ids).node[t] =
           IF g.node[t] \in ids THEN Follow(g.tomb, Follow(alias, g.node[t]))
                                ELSE g.node[t]
BY DEF Replay

\* It brings no record that was not there.
LEMMA NoneReplayed ==
  ASSUME NEW g \in GraphStates, NEW ids \in SUBSET Replayable(g), NEW t \in Turns,
         g.node[t] = "none"
  PROVE  Replay(g, ids).node[t] = "none"
<1>1. "none" \notin ids
  BY DEF Replayable, Gone
<1>2. QED
  BY <1>1, NodesReplayed

\* At the start nothing is logged.
LEMMA TurnsInit == MemoryInit => TurnsInv
<1> SUFFICES ASSUME MemoryInit PROVE TurnsInv
  OBVIOUS
<1>1. chatlog = << >> /\ Logged = {}
  BY DEF MemoryInit, Logged
<1>2. QED
  BY <1>1 DEF MemoryInit, TurnsInv, NoIngest, NoChange, Unfixed, NewGraph

\* Every step keeps it so.
LEMMA TurnsStep ==
  ASSUME MemoryTypeOK, Shape, TurnsInv, [MemoryNext]_memoryVars
  PROVE  TurnsInv'
<1>1. /\ Len(chatlog) \in Nat /\ Logged \in SUBSET Turns
  BY LogTypes
<1>2. /\ graph \in [Stores -> GraphStates] /\ durable \in [Stores -> GraphStates]
      /\ \A s \in Stores : /\ graph[s].node \in [Turns -> OwnerOrNone]
                           /\ durable[s].node \in [Turns -> OwnerOrNone]
      /\ change \in [Admins -> Requests] /\ active \in Stores /\ marker \in Stores
      /\ fixed \in [Turns -> OwnerOrNone] /\ facts \in [Turns -> OwnerOrNone]
      /\ ingest \in Runs
      /\ \A a \in Admins : change[a].to \in Owners
      /\ \A a \in Admins : change[a].to # "none"
  BY DEF MemoryTypeOK, GraphStates, Corrections, Owners, Requests
<1>3. CASE UNCHANGED memoryVars
  BY <1>3 DEF memoryVars, TurnsInv, Logged
<1>4. CASE TurnStarts
  BY <1>4 DEF TurnStarts, TurnsInv, Logged
<1>5. ASSUME NEW answered \in BOOLEAN, TurnEnds(answered) PROVE TurnsInv'
  <2>1. talking # "none" /\ UNCHANGED <<fixed, ingest, graph, durable, change>>
    BY <1>5 DEF TurnEnds
  <2>2. \A t \in Logged' : facts'[t] # "none"
    BY <1>1, <1>2, <1>5, <2>1, LogGrows DEF TurnsInv
  <2>3. QED
    BY <1>5, <2>1, <2>2, LogGrows DEF TurnsInv
<1>6. ASSUME NEW a \in Admins, NEW from, NEW to, Rename(a, from, to)
      PROVE  TurnsInv'
  <2>1. change'[a].kind = "voice" /\ \A b \in Admins : b # a => change'[b] = change[b]
    BY <1>2, <1>6 DEF Rename, NoChange
  <2>2. QED
    BY <1>6, <2>1 DEF Rename, TurnsInv, Logged
<1>7. ASSUME NEW a \in Admins, NEW t \in Turns, NEW to \in Owners,
             Correct(a, t, to)
      PROVE  TurnsInv'
  <2>1. change'[a].turn = t /\ \A b \in Admins : b # a => change'[b] = change[b]
    BY <1>2, <1>7 DEF Correct, NoChange
  <2>2. t \in Logged /\ to # "none"
        /\ fixed' = [fixed EXCEPT ![t] = to]
    BY <1>7 DEF Correct, Owners
  <2>3. \A u \in Turns : fixed'[u] = IF u = t THEN to ELSE fixed[u]
    BY <1>2, <2>2
  <2>4. UNCHANGED <<facts, chatlog, ingest, graph, durable>>
    BY <1>7 DEF Correct
  <2>5. Logged' = Logged
    BY <2>4 DEF Logged
  <2>6. QED
    BY <1>1, <2>1, <2>2, <2>3, <2>4, <2>5 DEF TurnsInv
<1>8. ASSUME NEW a \in Admins, FactsMove(a) PROVE TurnsInv'
  <2>1. /\ UNCHANGED <<fixed, chatlog, ingest, graph, durable>>
        /\ \/ facts' = facts
           \/ facts' = [t \in Turns |-> IF t \in About(change[a], facts)
                                        THEN change[a].to ELSE facts[t]]
        /\ change[a].pc = "facts"
        /\ \/ change' = [change EXCEPT ![a] = NoChange]
           \/ change' = [change EXCEPT ![a].pc = "graph"]
    BY <1>2, <1>8 DEF FactsMove
  <2>2. \A b \in Admins : change'[b].pc # "idle" =>
          change[b].pc # "idle" /\ change'[b].kind = change[b].kind
          /\ change'[b].turn = change[b].turn
    BY <1>2, <2>1 DEF NoChange, Requests
  <2>3. Logged' = Logged
    BY <2>1 DEF Logged
  <2>4. \A t \in Logged : facts'[t] # "none"
    BY <1>1, <1>2, <2>1 DEF TurnsInv
  <2>5. QED
    BY <2>1, <2>2, <2>3, <2>4 DEF TurnsInv
\* What the other steps of a request, and those of the stores, may do.
<1>9. ASSUME UNCHANGED <<fixed, facts, chatlog>>,
             \A t \in Turns : ingest'.fixes[t] \in {ingest.fixes[t], fixed[t], "none"},
             \A s \in Stores, t \in Turns \ Logged :
               graph'[s].node[t] = "none" /\ durable'[s].node[t] = "none",
             \A b \in Admins : change'[b].pc # "idle" =>
               change[b].pc # "idle" /\ change'[b].kind = change[b].kind
               /\ change'[b].turn = change[b].turn
      PROVE  TurnsInv'
  <2>1. Logged' = Logged
    BY <1>9 DEF Logged
  <2>2. QED
    BY <1>9, <2>1 DEF TurnsInv
<1>10. ASSUME NEW a \in Admins, GraphMoves(a) PROVE TurnsInv'
  <2> DEFINE g == graph[active]
             dest == Follow(g.tomb, change[a].to)
  <2>1. UNCHANGED <<fixed, facts, chatlog, durable, ingest>>
    BY <1>10 DEF GraphMoves
  <2>2. /\ change[a].pc = "graph" /\ change[a].kind = "voice"
        /\ \/ change' = [change EXCEPT ![a] = NoChange]
           \/ change' = [change EXCEPT ![a].pc = "tomb", ![a].to = dest,
                                       ![a].store = active]
        /\ graph' \in {graph, [graph EXCEPT ![active] =
                                   Rewritten(g, change[a].from, dest)]}
    BY <1>10 DEF GraphMoves
  <2> HIDE DEF dest
  <2>3. \A b \in Admins : change'[b].pc # "idle" =>
          change[b].pc # "idle" /\ change'[b].kind = change[b].kind
          /\ change'[b].turn = change[b].turn
    BY <1>2, <2>2 DEF NoChange, Requests
  <2>4. change[a].from # "none"
    BY <2>2 DEF Shape, RequestOK
  <2>5. \A t \in Turns \ Logged :
          Rewritten(g, change[a].from, dest).node[t] = "none"
    BY <1>2, <2>4 DEF Rewritten, TurnsInv, GraphStates
  <2>6. \A s \in Stores, t \in Turns \ Logged : graph'[s].node[t] = "none"
    BY <1>2, <2>2, <2>5 DEF TurnsInv
  <2>7. QED
    BY <1>9, <2>1, <2>3, <2>6 DEF TurnsInv
<1>11. ASSUME NEW a \in Admins, GraphTombs(a) PROVE TurnsInv'
  <2>1. UNCHANGED <<fixed, facts, chatlog, ingest>>
    BY <1>11 DEF GraphTombs
  <2>2. \A b \in Admins : change'[b].pc # "idle" =>
          change[b].pc # "idle" /\ change'[b].kind = change[b].kind
          /\ change'[b].turn = change[b].turn
    BY <1>2, <1>11 DEF GraphTombs, NoChange, Requests
  <2>3. change[a].store \in Stores
    BY <1>11 DEF GraphTombs, Shape, RequestOK
  <2>4. \A g \in GraphStates : Tombstoned(g, change[a].from, change[a].to).node = g.node
    BY DEF Tombstoned, GraphStates
  <2>5. \A s \in Stores, t \in Turns \ Logged :
          graph'[s].node[t] = "none" /\ durable'[s].node[t] = "none"
    BY <1>2, <1>11, <2>3, <2>4 DEF GraphTombs, TurnsInv
  <2>6. QED
    BY <1>9, <2>1, <2>2, <2>5
<1>12. ASSUME NEW a \in Admins, GraphCorrects(a) PROVE TurnsInv'
  <2>1. UNCHANGED <<fixed, facts, chatlog, ingest>>
    BY <1>12 DEF GraphCorrects
  <2>2. \A b \in Admins : change'[b].pc # "idle" =>
          change[b].pc # "idle" /\ change'[b].kind = change[b].kind
          /\ change'[b].turn = change[b].turn
    BY <1>2, <1>12 DEF GraphCorrects, NoChange, Requests
  <2>3. change[a].turn \in Logged /\ change[a].kind = "turn"
    BY <1>12 DEF GraphCorrects, TurnsInv
  <2> DEFINE g == graph[active]
             dest == Follow(g.tomb, change[a].to)
             moved == About(change[a], g.node)
             now == [g EXCEPT !.users = @ \union {dest},
                              !.node = [t \in Turns |->
                                          IF t \in moved THEN dest ELSE @[t]]]
  <2>4. /\ graph' \in {graph, [graph EXCEPT ![active] = now]}
        /\ durable' \in {durable, [durable EXCEPT ![active] = now]}
    BY <1>12 DEF GraphCorrects
  <2>5. \A t \in Turns \ Logged : now.node[t] = "none"
    <3>1. \A t \in Turns \ Logged : t \notin moved
      BY <2>3 DEF About
    <3>2. now.node = [t \in Turns |-> IF t \in moved THEN dest ELSE g.node[t]]
      BY <1>2 DEF GraphStates
    <3>3. QED
      BY <1>2, <3>1, <3>2 DEF TurnsInv
  <2> HIDE DEF now
  <2>6. \A s \in Stores, t \in Turns \ Logged :
          graph'[s].node[t] = "none" /\ durable'[s].node[t] = "none"
    BY <1>2, <2>4, <2>5 DEF TurnsInv
  <2>7. QED
    BY <1>9, <2>1, <2>2, <2>6
<1>13. CASE IngestStep
  <2>1. UNCHANGED <<fixed, facts, chatlog, change>>
    BY <1>13 DEF IngestStep, IngestReads, IngestLoads, IngestFinds,
       IngestResolves, IngestWrites, IngestRejected, IngestFlushes,
       IngestCommits, IngestFails, IngesterOnly
  <2>2. NoIngest.fixes = Unfixed /\ \A t \in Turns : Unfixed[t] = "none"
    BY DEF NoIngest, Unfixed
  <2>3. \/ ingest'.fixes \in {ingest.fixes, fixed}
        \/ ingest'.fixes = Unfixed
    <3>1. CASE IngestReads
      BY <3>1, <2>2 DEF IngestReads, NoIngest
    <3>2. CASE IngestLoads \/ IngestFinds \/ IngestResolves \/ IngestWrites
               \/ IngestFlushes
      BY <1>2, <3>2 DEF IngestLoads, IngestFinds, IngestResolves, IngestWrites,
         IngestFlushes, Runs
    <3>3. CASE IngestRejected \/ IngestCommits \/ IngestFails
      BY <2>2, <3>3 DEF IngestRejected, IngestCommits, IngestFails
    <3>4. QED
      BY <1>13, <3>1, <3>2, <3>3 DEF IngestStep
  <2>4. \A t \in Turns : ingest'.fixes[t] \in {ingest.fixes[t], fixed[t], "none"}
    BY <2>2, <2>3
  <2>5. \A s \in Stores, t \in Turns \ Logged :
          graph'[s].node[t] = "none" /\ durable'[s].node[t] = "none"
    <3>1. CASE IngestWrites
      <4>1. ingest.at \in Logged
        BY <1>1, <1>2, <3>1 DEF IngestWrites, Shape, RunOK, Logged, Runs
      <4>2. QED
        BY <1>2, <3>1, <4>1 DEF IngestWrites, TurnsInv, GraphStates
    <3>2. CASE IngestResolves
      <4>1. \A s \in Stores : graph'[s].node = graph[s].node
        BY <1>2, <3>2 DEF IngestResolves, GraphStates
      <4>2. QED
        BY <3>2, <4>1 DEF IngestResolves, TurnsInv
    <3>3. CASE IngestFlushes
      BY <1>2, <3>3 DEF IngestFlushes, TurnsInv
    <3>4. CASE UNCHANGED <<graph, durable>>
      BY <3>4 DEF TurnsInv
    <3>5. QED
      BY <1>13, <3>1, <3>2, <3>3, <3>4 DEF IngestStep, IngestReads,
         IngestLoads, IngestFinds, IngestRejected, IngestCommits, IngestFails
  <2>6. QED
    BY <1>9, <2>1, <2>4, <2>5
<1>14. ASSUME NEW s \in Stores, NEW g \in {graph[s], durable[s]}, NEW n,
              Activated(s, g, n), UNCHANGED <<fixed, facts, chatlog, ingest, change>>
       PROVE  TurnsInv'
  <2>1. PICK ids \in SUBSET Replayable(g) :
          /\ graph' = [graph EXCEPT ![s] = Replay(g, ids)]
          /\ durable' = [durable EXCEPT ![s] = Replay(g, ids)]
    BY <1>14 DEF Activated
  <2>2. \A t \in Turns \ Logged : Replay(g, ids).node[t] = "none"
    BY <1>2, <1>14, NoneReplayed DEF TurnsInv
  <2>3. \A r \in Stores, t \in Turns \ Logged :
          graph'[r].node[t] = "none" /\ durable'[r].node[t] = "none"
    BY <1>2, <2>1, <2>2 DEF TurnsInv
  <2>4. QED
    BY <1>9, <1>14, <2>3
<1>15. ASSUME NEW s \in Stores, SwitchBuilds(s) PROVE TurnsInv'
  BY <1>14, <1>15 DEF SwitchBuilds
<1>16. CASE Starts
  BY <1>2, <1>14, <1>16 DEF Starts
<1>17. CASE SwitchSwaps
  <2>1. NoIngest.fixes = Unfixed /\ \A t \in Turns : Unfixed[t] = "none"
    BY DEF NoIngest, Unfixed
  <2>2. QED
    BY <1>9, <1>17, <2>1 DEF SwitchSwaps, TurnsInv
<1>18. CASE Halt
  <2>1. NoIngest.fixes = Unfixed /\ \A t \in Turns : Unfixed[t] = "none"
    BY DEF NoIngest, Unfixed
  <2>2. \A a \in Admins : change'[a].pc = "idle"
    BY <1>18 DEF Halt, NoChange
  <2>3. /\ graph' \in {graph, durable} /\ durable' = graph'
        /\ UNCHANGED <<fixed, facts, chatlog>> /\ ingest' = NoIngest
    BY <1>18 DEF Halt
  <2>4. \A s \in Stores, t \in Turns \ Logged :
          graph'[s].node[t] = "none" /\ durable'[s].node[t] = "none"
    BY <2>3 DEF TurnsInv
  <2>5. QED
    BY <1>9, <2>1, <2>2, <2>3, <2>4
<1>19. QED
  BY <1>3, <1>4, <1>5, <1>6, <1>7, <1>8, <1>10, <1>11, <1>12, <1>13, <1>15,
     <1>16, <1>17, <1>18 DEF MemoryNext, ChangeStep, Forget, Merge
----------------------------------------------------------------------------
(* Nothing is attributed to someone else.                                  *)

\* A table that leads from no member of a set out of it.
LeadsWithin(table, S) ==
  \A v \in Voices : v \in S /\ table[v] # "none" => table[v] \in S

\* No table, however old, and no request leads out of S ...
NamesWithin(S) ==
  /\ LeadsWithin(alias, S) /\ LeadsWithin(ingest.names, S)
  /\ LeadsWithin(building.names, S)
  /\ \A s \in Stores : /\ LeadsWithin(graph[s].tomb, S)
                       /\ LeadsWithin(durable[s].tomb, S)
  /\ \A a \in Admins : /\ change[a].pc # "idle" /\ change[a].kind = "voice"
                       /\ change[a].from \in S
                       => change[a].to \in S

\* ... and whatever names an owner of turn t names one in S.
OwnersWithin(S, t) ==
  /\ facts[t] \in S
  /\ \A s \in Stores : /\ graph[s].node[t] \in S \union {"none"}
                       /\ durable[s].node[t] \in S \union {"none"}
  /\ fixed[t] \in S \union {"none"} /\ ingest.fixes[t] \in S \union {"none"}
  /\ ingest.pc = "write" /\ ingest.at = t => ingest.by \in S
  /\ \A a \in Admins : /\ change[a].pc # "idle" /\ change[a].kind = "turn"
                       /\ change[a].turn = t
                       => change[a].to \in S

\* A set of ids that merges do not lead out of keeps all there is about the
\* turns that were only ever said to be by its members.
WithinInv ==
  \A S \in SUBSET Owners : MergesStayIn(S) =>
    NamesWithin(S) /\ \A t \in Logged : Said(t) \subseteq S => OwnersWithin(S, t)

ReachIInv == MemoryTypeOK /\ Shape /\ TurnsInv /\ WithinInv

\* An id followed through such a table stays in the set.
LEMMA FollowWithin ==
  ASSUME NEW table, NEW S, LeadsWithin(table, S), NEW id \in S
  PROVE  Follow(table, id) \in S
<1>1. \A x \in S : Hop(table, x) \in S
  BY DEF Hop, LeadsWithin
<1>2. QED
  BY <1>1 DEF Follow

\* At the start nobody leads anywhere.
LEMMA WithinInit == MemoryInit => WithinInv
<1> SUFFICES ASSUME MemoryInit, NEW S \in SUBSET Owners
             PROVE  NamesWithin(S) /\ Logged = {}
  BY DEF WithinInv
<1>1. chatlog = << >> /\ Logged = {}
  BY DEF MemoryInit, Logged
<1>2. LeadsWithin(Unnamed, S)
  BY DEF LeadsWithin, Unnamed
<1>3. /\ NoIngest.names = Unnamed /\ NoBuild.names = Unnamed
      /\ NewGraph.tomb = Unnamed /\ NoChange.pc = "idle"
  BY DEF NoIngest, NoBuild, NewGraph, NoChange, Unnamed
<1>4. QED
  BY <1>1, <1>2, <1>3 DEF MemoryInit, NamesWithin

\* A step that logs nothing and corrects or merges nobody else.
LEMMA SetStep ==
  ASSUME WithinInv, UNCHANGED chatlog, merged \subseteq merged',
         corrected \subseteq corrected',
         \A S \in SUBSET Owners :
           /\ MergesStayIn(S)' /\ MergesStayIn(S) /\ NamesWithin(S)
           /\ \A t \in Logged : Said(t) \subseteq S => OwnersWithin(S, t)
           => /\ NamesWithin(S)'
              /\ \A t \in Logged : Said(t)' \subseteq S /\ Said(t) \subseteq S
                                   => OwnersWithin(S, t)'
  PROVE  WithinInv'
<1> SUFFICES ASSUME NEW S \in SUBSET Owners, MergesStayIn(S)'
             PROVE  /\ NamesWithin(S)'
                    /\ \A t \in Logged' : Said(t)' \subseteq S
                                          => OwnersWithin(S, t)'
  BY DEF WithinInv
<1>1. MergesStayIn(S)
  BY DEF MergesStayIn
<1>2. Logged' = Logged /\ \A t \in Logged : Said(t) \subseteq Said(t)'
  BY DEF Logged, Said
<1>3. /\ NamesWithin(S)
      /\ \A t \in Logged : Said(t) \subseteq S => OwnersWithin(S, t)
  BY <1>1 DEF WithinInv
<1>4. QED
  BY <1>1, <1>2, <1>3

\* The ingester: what it resolves and writes is in the set.
LEMMA IngestWithin ==
  ASSUME MemoryTypeOK, Shape, TurnsInv, WithinInv, IngestStep
  PROVE  WithinInv'
<1>1. /\ graph \in [Stores -> GraphStates] /\ durable \in [Stores -> GraphStates]
      /\ active \in Stores /\ ingest \in Runs
      /\ Logged \in SUBSET Turns /\ Len(chatlog) \in Nat
      /\ \A s \in Stores : graph[s].node \in [Turns -> OwnerOrNone]
  BY LogTypes DEF MemoryTypeOK, GraphStates
<1>2. IngesterOnly
  BY DEF IngestStep, IngestReads, IngestLoads, IngestFinds, IngestResolves,
     IngestWrites, IngestRejected, IngestFlushes, IngestCommits, IngestFails
<1>3. /\ NoIngest.names = Unnamed /\ NoIngest.fixes = Unfixed
      /\ NoIngest.pc = "idle"
      /\ \A S : LeadsWithin(Unnamed, S)
      /\ \A t \in Turns : Unfixed[t] = "none"
  BY DEF NoIngest, LeadsWithin, Unnamed, Unfixed
<1> SUFFICES ASSUME NEW S \in SUBSET Owners, MergesStayIn(S), NamesWithin(S),
                    \A t \in Logged : Said(t) \subseteq S => OwnersWithin(S, t)
             PROVE  /\ NamesWithin(S)'
                    /\ \A t \in Logged : Said(t) \subseteq S => OwnersWithin(S, t)'
  BY <1>2, SetStep DEF IngesterOnly
<1>4. CASE IngestReads
  <2>1. /\ ingest'.names = Unnamed /\ ingest'.fixes = Unfixed
        /\ ingest'.pc = "embed" /\ UNCHANGED <<graph, durable>>
    BY <1>3, <1>4 DEF IngestReads, NoIngest
  <2>2. QED
    BY <1>1, <1>2, <1>3, <2>1 DEF NamesWithin, OwnersWithin, IngesterOnly
<1>5. CASE IngestLoads
  <2>1. /\ ingest'.names = alias /\ ingest'.fixes = fixed
        /\ ingest'.pc = "item" /\ UNCHANGED <<graph, durable>>
    BY <1>1, <1>5 DEF IngestLoads, Runs
  <2>2. QED
    BY <1>1, <1>2, <2>1 DEF NamesWithin, OwnersWithin, IngesterOnly
<1>6. CASE IngestFinds
  <2>1. /\ ingest'.names = ingest.names /\ ingest'.fixes = ingest.fixes
        /\ ingest'.pc = "item" /\ UNCHANGED <<graph, durable>>
    BY <1>1, <1>6 DEF IngestFinds, Item, Runs
  <2>2. QED
    BY <1>1, <1>2, <2>1 DEF NamesWithin, OwnersWithin, IngesterOnly
<1>7. CASE IngestResolves
  <2> DEFINE id == Attribution(ingest.at, ingest.names, ingest.fixes)
             by == Follow(graph[active].tomb, id)
  <2>1. /\ ingest'.names = ingest.names /\ ingest'.fixes = ingest.fixes
        /\ ingest'.at = ingest.at /\ ingest'.by = by
        /\ ingest.at \in Logged /\ durable' = durable
    BY <1>1, <1>7 DEF IngestResolves, Item, Runs, Shape, RunOK, Logged
  <2>2. \A s \in Stores : graph'[s].node = graph[s].node
                          /\ graph'[s].tomb = graph[s].tomb
    BY <1>1, <1>7 DEF IngestResolves, GraphStates
  <2>3. Said(ingest.at) \subseteq S => by \in S
    <3>1. SUFFICES ASSUME Said(ingest.at) \subseteq S PROVE by \in S
      OBVIOUS
    <3>2. OwnersWithin(S, ingest.at) /\ chatlog[ingest.at].by \in S
      BY <2>1, <3>1 DEF Said
    <3>3. id \in S
      BY <3>2, FollowWithin DEF Attribution, OwnersWithin, NamesWithin
    <3>4. QED
      BY <1>1, <3>3, FollowWithin DEF NamesWithin
  <2> HIDE DEF by, id
  <2>4. NamesWithin(S)'
    BY <1>2, <2>1, <2>2 DEF NamesWithin, IngesterOnly
  <2>5. \A t \in Logged : Said(t) \subseteq S => OwnersWithin(S, t)'
    BY <1>2, <2>1, <2>2, <2>3 DEF OwnersWithin, IngesterOnly
  <2>6. QED
    BY <2>4, <2>5
<1>8. CASE IngestWrites
  <2>1. /\ ingest'.names = ingest.names /\ ingest'.fixes = ingest.fixes
        /\ ingest'.pc = "item" /\ durable' = durable /\ ingest.pc = "write"
        /\ ingest.at \in Logged
    BY <1>1, <1>8 DEF IngestWrites, Runs, Shape, RunOK, Logged
  <2>2. /\ \A s \in Stores : graph'[s].tomb = graph[s].tomb
        /\ \A s \in Stores, t \in Turns : graph'[s].node[t] =
             IF s = active /\ t = ingest.at THEN ingest.by ELSE graph[s].node[t]
    BY <1>1, <1>8, <2>1 DEF IngestWrites, GraphStates
  <2>3. NamesWithin(S)'
    BY <1>2, <2>1, <2>2 DEF NamesWithin, IngesterOnly
  <2>4. \A t \in Logged : Said(t) \subseteq S => OwnersWithin(S, t)'
    BY <1>1, <1>2, <2>1, <2>2 DEF OwnersWithin, IngesterOnly
  <2>5. QED
    BY <2>3, <2>4
<1>9. CASE IngestFlushes
  <2>1. /\ ingest'.names = ingest.names /\ ingest'.fixes = ingest.fixes
        /\ ingest'.pc = "commit" /\ graph' = graph
        /\ durable' = [durable EXCEPT ![active] = graph[active]]
    BY <1>1, <1>9 DEF IngestFlushes, Runs
  <2>2. NamesWithin(S)'
    BY <1>1, <1>2, <2>1 DEF NamesWithin, IngesterOnly
  <2>3. \A t \in Logged : Said(t) \subseteq S => OwnersWithin(S, t)'
    BY <1>1, <1>2, <2>1 DEF OwnersWithin, IngesterOnly
  <2>4. QED
    BY <2>2, <2>3
<1>10. CASE IngestRejected \/ IngestCommits \/ IngestFails
  <2>1. ingest' = NoIngest /\ UNCHANGED <<graph, durable>>
    BY <1>10 DEF IngestRejected, IngestCommits, IngestFails
  <2>2. QED
    BY <1>1, <1>2, <1>3, <2>1 DEF NamesWithin, OwnersWithin, IngesterOnly
<1>11. QED
  BY <1>4, <1>5, <1>6, <1>7, <1>8, <1>9, <1>10 DEF IngestStep

\* Turns, and what is asked for: a correction is noted before it is acted on,
\* and so is a merge.
LEMMA AskedWithin ==
  ASSUME MemoryTypeOK, Shape, TurnsInv, WithinInv,
         \/ TurnStarts \/ \E answered \in BOOLEAN : TurnEnds(answered)
         \/ \E a \in Admins, from, to \in Owners : Rename(a, from, to)
         \/ \E a \in Admins, t \in Turns, to \in Owners : Correct(a, t, to)
  PROVE  WithinInv'
<1>1. /\ Logged \in SUBSET Turns /\ change \in [Admins -> Requests]
      /\ fixed \in [Turns -> OwnerOrNone] /\ facts \in [Turns -> OwnerOrNone]
  BY LogTypes DEF MemoryTypeOK, Corrections
<1>2. CASE TurnStarts
  <2>1. UNCHANGED <<chatlog, merged, corrected, alias, ingest, building, graph,
                    durable, change, facts, fixed>>
    BY <1>2 DEF TurnStarts
  <2>2. QED
    BY <2>1, SetStep DEF NamesWithin, OwnersWithin
<1>3. ASSUME NEW answered \in BOOLEAN, TurnEnds(answered) PROVE WithinInv'
  <2> SUFFICES ASSUME NEW S \in SUBSET Owners, MergesStayIn(S)'
               PROVE  /\ NamesWithin(S)'
                      /\ \A t \in Logged' : Said(t)' \subseteq S
                                            => OwnersWithin(S, t)'
    BY DEF WithinInv
  <2>1. UNCHANGED <<merged, corrected, alias, ingest, building, graph,
                    durable, change, fixed>>
    BY <1>3 DEF TurnEnds
  <2>2. /\ NamesWithin(S)
        /\ \A t \in Logged : Said(t) \subseteq S => OwnersWithin(S, t)
    BY <2>1 DEF WithinInv, MergesStayIn
  <2>3. NamesWithin(S)'
    BY <2>1, <2>2 DEF NamesWithin
  <2>4. ASSUME NEW t \in Logged, Said(t)' \subseteq S PROVE OwnersWithin(S, t)'
    <3>1. Said(t)' = Said(t) /\ facts'[t] = facts[t]
      BY <1>1, <1>3, <2>1, LogGrows DEF Said
    <3>2. OwnersWithin(S, t)
      BY <2>2, <2>4, <3>1
    <3>3. QED
      BY <2>1, <3>1, <3>2 DEF OwnersWithin
  <2>5. ASSUME NEW t, t = Len(chatlog) + 1, Said(t)' \subseteq S
        PROVE  OwnersWithin(S, t)'
    <3>1. t \in Turns \ Logged /\ talking \in S /\ facts'[t] = talking
      BY <1>1, <1>3, <2>5, LogGrows DEF Said
    <3>2. ingest.pc = "write" => ingest.at \in Logged
      BY LogTypes DEF Shape, RunOK, MemoryTypeOK, Runs, Logged
    <3>3. QED
      BY <2>1, <3>1, <3>2 DEF OwnersWithin, TurnsInv
  <2>6. QED
    BY <1>3, <2>3, <2>4, <2>5, LogGrows
<1>4. ASSUME NEW a \in Admins, NEW from \in Owners, NEW to \in Owners,
             Rename(a, from, to)
      PROVE  WithinInv'
  <2>1. /\ UNCHANGED <<chatlog, corrected, ingest, building, graph, durable,
                       facts, fixed>>
        /\ merged' = merged \union {<<from, to>>}
        /\ alias' = Recorded(alias, from, to)
    BY <1>4 DEF Rename
  <2>2. /\ change'[a].kind = "voice" /\ change'[a].from = from
        /\ change'[a].to = to
        /\ \A b \in Admins : b # a => change'[b] = change[b]
    BY <1>1, <1>4 DEF Rename, NoChange
  <2>3. ASSUME NEW S \in SUBSET Owners, MergesStayIn(S)', NamesWithin(S)
        PROVE  NamesWithin(S)'
    <3>1. from \in S => to \in S
      <4>1. <<from, to>> \in merged'
            /\ \A m \in merged' : m[1] \in S => m[2] \in S
        BY <2>1, <2>3 DEF MergesStayIn
      <4>2. <<from, to>>[1] \in S => <<from, to>>[2] \in S
        BY <4>1
      <4>3. QED
        BY <4>2
    <3>2. LeadsWithin(alias', S)
      <4>1. \A v \in Voices : alias'[v] =
              IF v = from \/ alias[v] = from THEN to ELSE alias[v]
        BY <2>1 DEF Recorded
      <4>2. LeadsWithin(alias, S)
        BY <2>3 DEF NamesWithin
      <4>3. from # "none"
        BY DEF Owners
      <4>4. QED
        BY <3>1, <4>1, <4>2, <4>3 DEF LeadsWithin
    <3>3. QED
      BY <2>1, <2>2, <2>3, <3>1, <3>2 DEF NamesWithin
  <2>4. ASSUME NEW S, NEW t \in Logged, OwnersWithin(S, t)
        PROVE  OwnersWithin(S, t)'
    BY <2>1, <2>2, <2>4 DEF OwnersWithin
  <2>5. QED
    BY <2>1, <2>3, <2>4, SetStep
<1>5. ASSUME NEW a \in Admins, NEW t \in Turns, NEW to \in Owners,
             Correct(a, t, to)
      PROVE  WithinInv'
  <2>1. /\ UNCHANGED <<chatlog, merged, alias, ingest, building, graph, durable,
                       facts>>
        /\ corrected' = corrected \union {<<t, to>>}
        /\ \A u \in Turns : fixed'[u] = IF u = t THEN to ELSE fixed[u]
    BY <1>1, <1>5 DEF Correct
  <2>2. /\ change'[a].kind = "turn" /\ change'[a].turn = t
        /\ change'[a].to = to
        /\ \A b \in Admins : b # a => change'[b] = change[b]
    BY <1>1, <1>5 DEF Correct, NoChange
  <2>3. ASSUME NEW S, NamesWithin(S) PROVE NamesWithin(S)'
    BY <2>1, <2>2, <2>3 DEF NamesWithin
  <2>4. ASSUME NEW S, NEW u \in Logged, OwnersWithin(S, u), Said(u)' \subseteq S
        PROVE  OwnersWithin(S, u)'
    <3>1. u = t => to \in S
      <4>1. <<t, to>> \in corrected' /\ <<t, to>>[1] = t /\ <<t, to>>[2] = to
        BY <2>1
      <4>2. to \in Said(t)'
        BY <4>1 DEF Said
      <4>3. QED
        BY <2>4, <4>2
    <3>2. QED
      BY <1>1, <2>1, <2>2, <2>4, <3>1 DEF OwnersWithin
  <2>5. QED
    BY <2>1, <2>3, <2>4, SetStep
<1>6. QED
  BY <1>2, <1>3, <1>4, <1>5

\* A request that goes on.
LEMMA ChangeWithin ==
  ASSUME MemoryTypeOK, Shape, TurnsInv, WithinInv, NEW a \in Admins, ChangeStep(a)
  PROVE  WithinInv'
<1> DEFINE c == change[a]
<1>1. /\ Logged \in SUBSET Turns /\ change \in [Admins -> Requests]
      /\ graph \in [Stores -> GraphStates] /\ durable \in [Stores -> GraphStates]
      /\ \A s \in Stores : graph[s].node \in [Turns -> OwnerOrNone]
      /\ active \in Stores /\ facts \in [Turns -> OwnerOrNone]
      /\ c.pc # "idle" /\ c.kind \in {"voice", "turn"}
      /\ NoChange.pc = "idle"
  BY LogTypes, IdleTypes DEF MemoryTypeOK, Corrections, GraphStates, Requests,
     ChangeStep, FactsMove, GraphMoves, GraphTombs, GraphCorrects
<1>2. UNCHANGED <<alias, fixed, chatlog, merged, corrected, ingest, building>>
  BY DEF ChangeStep, FactsMove, GraphMoves, GraphTombs, GraphCorrects
<1> SUFFICES ASSUME NEW S \in SUBSET Owners, MergesStayIn(S), NamesWithin(S),
                    \A t \in Logged : Said(t) \subseteq S => OwnersWithin(S, t)
             PROVE  /\ NamesWithin(S)'
                    /\ \A t \in Logged : Said(t) \subseteq S => OwnersWithin(S, t)'
  BY <1>2, SetStep
\* What the request leaves in its wake has to be right.
<1>3. ASSUME \A b \in Admins : b # a => change'[b] = change[b],
             \/ change'[a].pc = "idle"
             \/ /\ change'[a].kind = c.kind /\ change'[a].from = c.from
                /\ change'[a].turn = c.turn
                /\ c.to \in S => change'[a].to \in S,
             \A s \in Stores : /\ LeadsWithin(graph'[s].tomb, S)
                               /\ LeadsWithin(durable'[s].tomb, S),
             \A t \in Logged : Said(t) \subseteq S /\ OwnersWithin(S, t) =>
               /\ facts'[t] \in S
               /\ \A s \in Stores : /\ graph'[s].node[t] \in S \union {"none"}
                                    /\ durable'[s].node[t] \in S \union {"none"}
      PROVE  /\ NamesWithin(S)'
             /\ \A t \in Logged : Said(t) \subseteq S => OwnersWithin(S, t)'
  <2>1. \A b \in Admins : /\ change'[b].pc # "idle" /\ change'[b].kind = "voice"
                          /\ change'[b].from \in S
                          => change'[b].to \in S
    BY <1>1, <1>3 DEF NamesWithin
  <2>2. NamesWithin(S)'
    BY <1>2, <1>3, <2>1 DEF NamesWithin
  <2>3. ASSUME NEW t \in Logged, Said(t) \subseteq S PROVE OwnersWithin(S, t)'
    <3>1. OwnersWithin(S, t)
      BY <2>3
    <3>2. \A b \in Admins : /\ change'[b].pc # "idle"
                            /\ change'[b].kind = "turn" /\ change'[b].turn = t
                            => change'[b].to \in S
      BY <1>1, <1>3, <3>1 DEF OwnersWithin
    <3>3. QED
      BY <1>2, <1>3, <2>3, <3>1, <3>2 DEF OwnersWithin
  <2>4. QED
    BY <2>2, <2>3
\* A turn of the set goes to somebody in the set.
<1>4. ASSUME NEW t \in Logged, OwnersWithin(S, t), NEW owner,
             owner[t] \in S \union {"none"}, t \in About(c, owner)
      PROVE  c.to \in S
  <2>1. c.kind = "voice" => owner[t] = c.from /\ c.from # "none"
    BY <1>1, <1>4 DEF About, Shape, RequestOK
  <2>2. QED
    BY <1>1, <1>4, <2>1 DEF About, OwnersWithin, NamesWithin
<1>5. \A table, id : LeadsWithin(table, S) /\ id \in S => Follow(table, id) \in S
  BY FollowWithin
<1>6. CASE FactsMove(a)
  <2>1. /\ UNCHANGED <<graph, durable>>
        /\ \/ facts' = facts
           \/ facts' = [t \in Turns |-> IF t \in About(c, facts) THEN c.to
                                        ELSE facts[t]]
        /\ \/ change' = [change EXCEPT ![a] = NoChange]
           \/ change' = [change EXCEPT ![a].pc = "graph"]
    BY <1>1, <1>6 DEF FactsMove
  <2>2. /\ \A b \in Admins : b # a => change'[b] = change[b]
        /\ \/ change'[a].pc = "idle"
           \/ /\ change'[a].kind = c.kind /\ change'[a].from = c.from
              /\ change'[a].turn = c.turn /\ change'[a].to = c.to
    BY <1>1, <2>1 DEF Requests
  <2>3. \A t \in Logged : OwnersWithin(S, t) => facts'[t] \in S
    BY <1>1, <1>4, <2>1 DEF OwnersWithin
  <2>4. QED
    BY <1>3, <2>1, <2>2, <2>3 DEF NamesWithin, OwnersWithin
<1>7. CASE GraphMoves(a)
  <2> DEFINE g == graph[active]
             dest == Follow(g.tomb, c.to)
             moved == About(c, g.node)
  <2>1. /\ UNCHANGED <<facts, durable>> /\ c.kind = "voice"
        /\ graph' \in {graph, [graph EXCEPT ![active] =
                                 Rewritten(g, c.from, dest)]}
        /\ \/ change' = [change EXCEPT ![a] = NoChange]
           \/ change' = [change EXCEPT ![a].pc = "tomb", ![a].to = dest,
                                       ![a].store = active]
    BY <1>7 DEF GraphMoves
  <2>2. c.to \in S => dest \in S
    BY <1>1, <1>5 DEF NamesWithin
  <2> HIDE DEF dest
  <2>3. /\ \A b \in Admins : b # a => change'[b] = change[b]
        /\ \/ change'[a].pc = "idle"
           \/ /\ change'[a].kind = c.kind /\ change'[a].from = c.from
              /\ change'[a].turn = c.turn /\ change'[a].to = dest
    BY <1>1, <2>1 DEF Requests
  <2>4. /\ Rewritten(g, c.from, dest).tomb = g.tomb
        /\ \A t \in Turns : Rewritten(g, c.from, dest).node[t] =
             IF t \in moved THEN dest ELSE g.node[t]
    BY <1>1, <2>1 DEF Rewritten, GraphStates, About
  <2>5. \A t \in Logged : OwnersWithin(S, t) =>
          \A s \in Stores : graph'[s].node[t] \in S \union {"none"}
    BY <1>1, <1>4, <2>1, <2>2, <2>4 DEF OwnersWithin
  <2>6. \A s \in Stores : LeadsWithin(graph'[s].tomb, S)
    BY <1>1, <2>1, <2>4 DEF NamesWithin
  <2>7. QED
    BY <1>3, <2>1, <2>2, <2>3, <2>5, <2>6 DEF NamesWithin, OwnersWithin
<1>8. CASE GraphTombs(a)
  <2> DEFINE new == Tombstoned(graph[c.store], c.from, c.to)
  <2>1. c.store \in Stores /\ c.kind = "voice" /\ c.from \in Voices
    BY <1>1, <1>8 DEF GraphTombs, Shape, RequestOK
  <2>2. /\ facts' = facts
        /\ change' = [change EXCEPT ![a] = NoChange]
        /\ \/ UNCHANGED <<graph, durable>>
           \/ /\ graph' = [graph EXCEPT ![c.store] = new]
              /\ durable' = [durable EXCEPT ![c.store] = graph'[c.store]]
    BY <1>1, <1>8, <2>1 DEF GraphTombs
  <2>3. new.node = graph[c.store].node
    BY <1>1, <2>1 DEF Tombstoned, GraphStates
  <2>4. LeadsWithin(new.tomb, S)
    <3>1. /\ graph[c.store].tomb \in [Voices -> OwnerOrNone]
          /\ LeadsWithin(graph[c.store].tomb, S)
          /\ c.from \in S => c.to \in S
      BY <1>1, <2>1 DEF GraphStates, NamesWithin
    <3>2. new.tomb \in {graph[c.store].tomb,
                        [graph[c.store].tomb EXCEPT ![c.from] = c.to]}
      BY <1>1, <2>1 DEF Tombstoned, GraphStates
    <3>3. QED
      BY <3>1, <3>2 DEF LeadsWithin
  <2> HIDE DEF new
  <2>5. \A s \in Stores : /\ LeadsWithin(graph'[s].tomb, S)
                          /\ LeadsWithin(durable'[s].tomb, S)
    BY <1>1, <2>1, <2>2, <2>4 DEF NamesWithin
  <2>6. \A t \in Logged : OwnersWithin(S, t) =>
          \A s \in Stores : /\ graph'[s].node[t] \in S \union {"none"}
                            /\ durable'[s].node[t] \in S \union {"none"}
    BY <1>1, <2>1, <2>2, <2>3 DEF OwnersWithin
  <2>7. QED
    BY <1>1, <1>3, <2>2, <2>5, <2>6 DEF OwnersWithin
<1>9. CASE GraphCorrects(a)
  <2> DEFINE g == graph[active]
             dest == Follow(g.tomb, c.to)
             moved == About(c, g.node)
             now == [g EXCEPT !.users = @ \union {dest},
                              !.node = [t \in Turns |->
                                          IF t \in moved THEN dest ELSE @[t]]]
  <2>1. /\ facts' = facts
        /\ change' = [change EXCEPT ![a] = NoChange]
        /\ graph' \in {graph, [graph EXCEPT ![active] = now]}
        /\ durable' \in {durable, [durable EXCEPT ![active] = now]}
    BY <1>9 DEF GraphCorrects
  <2>2. c.to \in S => dest \in S
    BY <1>1, <1>5 DEF NamesWithin
  <2>3. /\ now.tomb = g.tomb
        /\ \A t \in Turns : now.node[t] = IF t \in moved THEN dest ELSE g.node[t]
    BY <1>1 DEF GraphStates
  <2> HIDE DEF now, dest
  <2>4. \A s \in Stores : /\ LeadsWithin(graph'[s].tomb, S)
                          /\ LeadsWithin(durable'[s].tomb, S)
    BY <1>1, <2>1, <2>3 DEF NamesWithin
  <2>5. \A t \in Logged : OwnersWithin(S, t) => now.node[t] \in S \union {"none"}
    BY <1>1, <1>4, <2>2, <2>3 DEF OwnersWithin
  <2>6. \A t \in Logged : OwnersWithin(S, t) =>
          \A s \in Stores : /\ graph'[s].node[t] \in S \union {"none"}
                            /\ durable'[s].node[t] \in S \union {"none"}
    BY <1>1, <2>1, <2>5 DEF OwnersWithin
  <2>7. QED
    BY <1>1, <1>3, <2>1, <2>4, <2>6 DEF OwnersWithin
<1>10. QED
  BY <1>6, <1>7, <1>8, <1>9 DEF ChangeStep

\* The stores are replayed, swapped, stopped and started.
LEMMA StoreWithin ==
  ASSUME MemoryTypeOK, Shape, TurnsInv, WithinInv,
         (\E s \in Stores : SwitchBuilds(s)) \/ SwitchSwaps \/ Halt \/ Starts
  PROVE  WithinInv'
<1>1. /\ Logged \in SUBSET Turns
      /\ graph \in [Stores -> GraphStates] /\ durable \in [Stores -> GraphStates]
      /\ \A s \in Stores : graph[s].node \in [Turns -> OwnerOrNone]
      /\ active \in Stores /\ marker \in Stores
  BY LogTypes DEF MemoryTypeOK, GraphStates
<1>2. UNCHANGED <<alias, fixed, facts, chatlog, merged, corrected>>
  BY DEF SwitchBuilds, SwitchSwaps, Halt, Starts
<1>3. /\ NoIngest.names = Unnamed /\ NoIngest.fixes = Unfixed
      /\ NoIngest.pc = "idle" /\ NoBuild.names = Unnamed /\ NoChange.pc = "idle"
      /\ \A S : LeadsWithin(Unnamed, S)
      /\ \A t \in Turns : Unfixed[t] = "none"
  BY DEF NoIngest, LeadsWithin, Unnamed, Unfixed, NoBuild, NoChange
<1> SUFFICES ASSUME NEW S \in SUBSET Owners, MergesStayIn(S), NamesWithin(S),
                    \A t \in Logged : Said(t) \subseteq S => OwnersWithin(S, t)
             PROVE  /\ NamesWithin(S)'
                    /\ \A t \in Logged : Said(t) \subseteq S => OwnersWithin(S, t)'
  BY <1>2, SetStep
<1>4. ASSUME NEW s \in Stores, NEW g \in {graph[s], durable[s]}, NEW n,
             Activated(s, g, n), UNCHANGED <<ingest, change>>,
             building' = building \/ building'.names = alias
      PROVE  /\ NamesWithin(S)'
             /\ \A t \in Logged : Said(t) \subseteq S => OwnersWithin(S, t)'
  <2>1. PICK ids \in SUBSET Replayable(g) :
          /\ graph' = [graph EXCEPT ![s] = Replay(g, ids)]
          /\ durable' = [durable EXCEPT ![s] = Replay(g, ids)]
    BY <1>4 DEF Activated
  <2>2. g \in GraphStates /\ LeadsWithin(g.tomb, S) /\ LeadsWithin(alias, S)
    BY <1>1, <1>4 DEF NamesWithin
  <2> DEFINE dest(v) == Follow(g.tomb, Follow(alias, v))
  <2>3. \A v \in S : dest(v) \in S
    BY <2>2, FollowWithin
  <2>4. LeadsWithin(Replay(g, ids).tomb, S)
    <3>1. \A v \in Voices : Replay(g, ids).tomb[v] =
            IF v \in ids THEN dest(v) ELSE g.tomb[v]
      BY DEF Replay
    <3> HIDE DEF dest
    <3>2. QED
      BY <2>2, <2>3, <3>1 DEF LeadsWithin
  <2>5. \A t \in Logged : OwnersWithin(S, t) =>
          Replay(g, ids).node[t] \in S \union {"none"}
    <3>1. \A t \in Logged : Replay(g, ids).node[t] =
            IF g.node[t] \in ids THEN dest(g.node[t]) ELSE g.node[t]
      BY <1>1, <2>2, NodesReplayed
    <3>2. "none" \notin ids
      BY DEF Replayable, Gone
    <3> HIDE DEF dest
    <3>3. QED
      BY <1>4, <2>3, <3>1, <3>2 DEF OwnersWithin
  <2>6. NamesWithin(S)'
    BY <1>1, <1>2, <1>4, <2>1, <2>4 DEF NamesWithin
  <2>7. \A t \in Logged : Said(t) \subseteq S => OwnersWithin(S, t)'
    BY <1>1, <1>2, <1>4, <2>1, <2>5 DEF OwnersWithin
  <2>8. QED
    BY <2>6, <2>7
<1>5. ASSUME NEW s \in Stores, SwitchBuilds(s)
      PROVE  /\ NamesWithin(S)'
             /\ \A t \in Logged : Said(t) \subseteq S => OwnersWithin(S, t)'
  BY <1>4, <1>5 DEF SwitchBuilds
<1>6. CASE Starts
  BY <1>1, <1>4, <1>6 DEF Starts
<1>7. CASE SwitchSwaps
  <2>1. ingest' = NoIngest /\ building' = NoBuild
        /\ UNCHANGED <<graph, durable, change>>
    BY <1>7 DEF SwitchSwaps
  <2>2. QED
    BY <1>1, <1>2, <1>3, <2>1 DEF NamesWithin, OwnersWithin
<1>8. CASE Halt
  <2>1. /\ ingest' = NoIngest /\ building' = NoBuild
        /\ graph' \in {graph, durable} /\ durable' = graph'
        /\ \A a \in Admins : change'[a].pc = "idle"
    BY <1>3, <1>8 DEF Halt
  <2>2. NamesWithin(S)'
    BY <1>2, <1>3, <2>1 DEF NamesWithin
  <2>3. \A t \in Logged : Said(t) \subseteq S => OwnersWithin(S, t)'
    BY <1>1, <1>2, <1>3, <2>1 DEF OwnersWithin
  <2>4. QED
    BY <2>2, <2>3
<1>9. QED
  BY <1>5, <1>6, <1>7, <1>8

\* Every set that merges do not lead out of keeps what is said to be its
\* members' (SpeakerMemory's tables, requests and stores together).
THEOREM ReachInvariance == MemorySpec => []ReachIInv
<1>1. MemoryInit => ReachIInv
  BY InitTypes, TurnsInit, WithinInit DEF ReachIInv
<1>2. ReachIInv /\ [MemoryNext]_memoryVars => ReachIInv'
  <2> SUFFICES ASSUME ReachIInv, [MemoryNext]_memoryVars PROVE ReachIInv'
    OBVIOUS
  <2>1. MemoryTypeOK /\ Shape /\ TurnsInv /\ WithinInv
    BY DEF ReachIInv
  <2>2. MemoryTypeOK' /\ Shape' /\ TurnsInv'
    BY <2>1, StepTypes, TurnsStep
  <2>3. profiles \subseteq Owners
    BY <2>1 DEF MemoryTypeOK, Owners
  <2>4. WithinInv'
    <3>1. CASE UNCHANGED memoryVars
      BY <2>1, <3>1, SetStep DEF memoryVars, NamesWithin, OwnersWithin
    <3>2. CASE MemoryNext
      <4>1. ASSUME NEW a \in Admins, NEW v \in Voices,
                   Forget(a, v) \/ \E keep \in Voices : Merge(a, keep, v)
            PROVE  \E to \in Owners : v \in Owners /\ Rename(a, v, to)
        BY <2>3, <4>1 DEF Forget, Merge, Owners
      <4>2. QED
        BY <2>1, <3>2, <4>1, IngestWithin, AskedWithin, ChangeWithin,
           StoreWithin DEF MemoryNext
    <3>3. QED
      BY <3>1, <3>2
  <2>5. QED
    BY <2>2, <2>4 DEF ReachIInv
<1>3. QED
  BY <1>1, <1>2, PTL DEF MemorySpec

\* Whatever races and fails, no fact and no record is attributed to anybody
\* its turn was not once said to be by, or merged into
\* (ingester.rs, graphrag_control.rs apply_speaker_aliases).
THEOREM NeverAnyoneElses == MemorySpec => []NeverSomeoneElses
<1>1. ReachIInv => NeverSomeoneElses
  <2> SUFFICES ASSUME ReachIInv, NEW t \in Logged
               PROVE  /\ facts[t] \in Reach(t)
                      /\ \A s \in Stores :
                           graph[s].node[t] \in Reach(t) \union {"none"}
    BY DEF NeverSomeoneElses
  <2>1. /\ t \in Turns /\ facts[t] \in Owners
        /\ \A s \in Stores : graph[s].node[t] \in Owners \union {"none"}
    BY LogTypes DEF ReachIInv, MemoryTypeOK, TurnsInv, Corrections, GraphStates,
       OwnerOrNone
  <2>2. ASSUME NEW S \in SUBSET Owners, Said(t) \subseteq S, MergesStayIn(S)
        PROVE  /\ facts[t] \in S
               /\ \A s \in Stores : graph[s].node[t] \in S \union {"none"}
    BY <2>2 DEF ReachIInv, WithinInv, OwnersWithin
  <2>3. QED
    BY <2>1, <2>2 DEF Reach
<1>2. QED
  BY <1>1, ReachInvariance, PTL

-----------------------------------------------------------------------------
(* A person's history follows them.                                        *)

\* A table that leads from an id that is gone towards what became of it.
Faithful(table, names) ==
  \A v \in Voices : table[v] # "none" =>
    names[v] # "none" /\ Hop(names, table[v]) = Hop(names, v)

\* An id that is not gone.
Stands(names, id) == Hop(names, id) = id

\* A correction of turn t, or a merge or a forget of v, is under way and has
\* got as far as one of `pcs`.
Asked(requests, t, pcs) ==
  \E a \in Admins : /\ requests[a].pc \in pcs
                    /\ requests[a].kind = "turn" /\ requests[a].turn = t
Moving(requests, v, pcs) ==
  \E a \in Admins : /\ requests[a].pc \in pcs
                    /\ requests[a].kind = "voice" /\ requests[a].from = v

\* Every table and every request, however old, leads the way the aliases do.
TablesInv ==
  /\ \A s \in Stores : /\ Faithful(graph[s].tomb, alias)
                       /\ Faithful(durable[s].tomb, alias)
  /\ Faithful(ingest.names, alias) /\ Faithful(building.names, alias)
  /\ \A t \in Turns : ingest.fixes[t] # "none" => fixed[t] # "none"
  /\ \A a \in Admins : change[a].pc # "idle" /\ change[a].kind = "voice" =>
       /\ alias[change[a].from] # "none"
       /\ Hop(alias, change[a].to) = Hop(alias, change[a].from)

\* A fact that no race or failure spoilt is its turn's, or will be.
FactsInv ==
  \A t \in Logged : <<"facts", t>> \notin stray =>
    /\ Hop(alias, facts[t]) = Rightful(t) \/ Asked(change, t, {"facts"})
    /\ Stands(alias, facts[t]) \/ Moving(change, facts[t], {"facts"})

\* A record stays among those its owner was merged with; so it is right, if
\* it was never corrected, whatever races and fails.
OwnerOK(s, t, id) ==
  /\ fixed[t] = "none" => Hop(alias, id) = Rightful(t)
  /\ <<s, t>> \notin stray => \/ Hop(alias, id) = Rightful(t)
                              \/ Asked(change, t, {"facts", "graph"})

NodesInv ==
  \A s \in Stores, t \in Logged, id \in Owners :
    id \in {graph[s].node[t], durable[s].node[t]} => OwnerOK(s, t, id)

\* No record is left under an id that is gone, in the store that is served ...
ServedInv ==
  serving => \A t \in Logged :
    <<active, t>> \notin stray =>
      \/ Stands(alias, graph[active].node[t])
      \/ Moving(change, graph[active].node[t], {"facts", "graph"})

\* ... nor in the one that will be, as far as the aliases were known.
BuildInv ==
  building # NoBuild =>
    /\ serving /\ building.to # active
    /\ building.names = alias => \A t \in Logged :
         <<building.to, t>> \notin stray =>
           Stands(alias, graph[building.to].node[t])

\* The owner the ingester is about to write is the one its tables say, unless
\* that one has gone since they were read.
WriteInv ==
  ingest.pc = "write" =>
    LET id == Attribution(ingest.at, ingest.names, ingest.fixes)
    IN  Hop(alias, ingest.by) = Hop(alias, id)
        /\ (Stands(alias, id) => ingest.by = id)

HistoryInv ==
  TablesInv /\ FactsInv /\ NodesInv /\ ServedInv /\ BuildInv /\ WriteInv

HistoryIInv == MemoryTypeOK /\ Shape /\ Kept /\ TurnsInv /\ HistoryInv

----------------------------------------------------------------------------
(* Names and the tables that lead from one to another.                     *)

\* A table whose entries lead to ids that have none.
OneHop(names) ==
  /\ names \in Tables
  /\ \A v \in Voices : names[v] # "none" => Stands(names, names[v])

\* The aliases are one.
LEMMA AliasOneHop ==
  /\ MemoryTypeOK => OneHop(alias)
  /\ MemoryTypeOK' => OneHop(alias')
BY DEF MemoryTypeOK, OneHop, Stands, Hop, Gone

\* To follow it is to make one hop; what is reached is not gone.
LEMMA Heirs ==
  ASSUME NEW names, OneHop(names), NEW id \in Owners
  PROVE  /\ Hop(names, id) \in Owners /\ Follow(names, id) = Hop(names, id)
         /\ Stands(names, Hop(names, id))
         /\ id \in Voices =>
              (Stands(names, id) <=> names[id] = "none" \/ names[id] = id)
         /\ id \notin Voices => Stands(names, id)
<1>1. names \in [Voices -> OwnerOrNone]
  BY DEF OneHop, Tables
<1>2. Hop(names, id) \in Owners
  BY <1>1 DEF Hop, OwnerOrNone
<1>3. Stands(names, Hop(names, id))
  BY DEF OneHop, Stands, Hop
<1>4. Follow(names, id) = Hop(names, id)
  BY <1>3 DEF Follow, Stands
<1>5. QED
  BY <1>2, <1>3, <1>4 DEF Stands, Hop

\* A faithful table leads nowhere but to what stands for the same person, and
\* not away from an id that is there.
LEMMA FollowFaithful ==
  ASSUME NEW names, NEW table \in Tables, Faithful(table, names),
         NEW id \in Owners
  PROVE  /\ Follow(table, id) \in Owners
         /\ Hop(names, Follow(table, id)) = Hop(names, id)
         /\ (id \in Voices /\ names[id] # "none") \/ Follow(table, id) = id
<1>1. \A x \in Owners : Hop(table, x) \in Owners
                        /\ Hop(names, Hop(table, x)) = Hop(names, x)
  BY DEF Hop, Faithful, Tables, OwnerOrNone, Owners
<1>2. (id \in Voices /\ names[id] # "none") \/ Hop(table, id) = id
  BY DEF Hop, Faithful
<1>3. Follow(table, id) \in Owners
  BY FollowType
<1>4. Hop(names, Follow(table, id)) = Hop(names, id)
  BY <1>1 DEF Follow
<1>5. (id \in Voices /\ names[id] # "none") \/ Follow(table, id) = id
  BY <1>2 DEF Follow
<1>6. QED
  BY <1>3, <1>4, <1>5

\* An empty table and the aliases themselves are faithful.
LEMMA FaithfulTables ==
  /\ \A names : Faithful(Unnamed, names)
  /\ \A names : OneHop(names) => Faithful(names, names)
<1>1. \A names : Faithful(Unnamed, names)
  BY DEF Faithful, Unnamed
<1>2. ASSUME NEW names, OneHop(names) PROVE Faithful(names, names)
  BY <1>2 DEF Faithful, OneHop, Stands, Hop
<1>3. QED
  BY <1>1, <1>2

\* Whose a logged turn is.
Base(t) == IF fixed[t] # "none" THEN fixed[t] ELSE chatlog[t].by

\* It is an id, followed through the aliases to one that is not gone.
LEMMA RightfulIs ==
  ASSUME MemoryTypeOK, NEW t \in Logged
  PROVE  /\ t \in Turns /\ Base(t) \in Owners
         /\ Rightful(t) = Hop(alias, Base(t))
         /\ Rightful(t) \in Owners /\ Stands(alias, Rightful(t))
<1>1. t \in Turns /\ chatlog[t].by \in Owners
  BY LogTypes
<1>2. fixed[t] \in OwnerOrNone
  BY <1>1 DEF MemoryTypeOK, Corrections
<1>3. Base(t) \in Owners
  BY <1>1, <1>2 DEF Base, OwnerOrNone
<1>4. OneHop(alias)
  BY AliasOneHop
<1>5. Rightful(t) = Follow(alias, Base(t))
  BY DEF Rightful, Attribution, Base
<1>6. QED
  BY <1>1, <1>3, <1>4, <1>5, Heirs

\* What a merge or a forget does to the ids.
LEMMA AliasMoves ==
  ASSUME MemoryTypeOK, MemoryTypeOK', NEW a \in Admins, NEW from \in Voices,
         NEW to \in profiles \union {"unknown"}, Rename(a, from, to)
  PROVE  /\ \A x \in Owners : Hop(alias', x) =
              IF Hop(alias, x) = from THEN to ELSE Hop(alias, x)
         /\ \A v \in Voices :
              alias'[v] # "none" <=> alias[v] # "none" \/ v = from
         /\ Hop(alias', from) = to /\ Hop(alias', to) = to /\ to # from
         /\ to \in Owners /\ alias[from] = "none"
         /\ \A x \in Owners : /\ Stands(alias', x) => Stands(alias, x)
                              /\ Stands(alias, x) /\ x # from => Stands(alias', x)
<1>1. /\ alias \in [Voices -> OwnerOrNone] /\ profiles \in SUBSET Voices
      /\ alias[from] = "none" /\ to # from /\ to \in Owners
      /\ \A v \in Voices : v \in profiles => alias[v] = "none"
      /\ "unknown" \notin Voices /\ to # "none" /\ from # "none"
  BY DEF MemoryTypeOK, Tables, Rename, Owners, Gone
<1>2. \A v \in Voices : alias'[v] =
        IF v = from \/ alias[v] = from THEN to ELSE alias[v]
  BY DEF Rename, Recorded
<1>3. \A v \in Voices : alias'[v] # "none" <=> alias[v] # "none" \/ v = from
  BY <1>1, <1>2
<1>4. Hop(alias', from) = to /\ Hop(alias', to) = to /\ Hop(alias, from) = from
  BY <1>1, <1>2, <1>3 DEF Hop
<1>5. \A v \in Voices : alias[v] # v
  BY DEF MemoryTypeOK, Gone
<1>6. ASSUME NEW x \in Owners
      PROVE  /\ Hop(alias', x) = IF Hop(alias, x) = from THEN to ELSE Hop(alias, x)
             /\ Stands(alias', x) => Stands(alias, x)
             /\ Stands(alias, x) /\ x # from => Stands(alias', x)
  <2>1. CASE x = from
    BY <1>1, <1>4, <2>1 DEF Stands
  <2>2. CASE x \in Voices /\ x # from /\ alias[x] # "none"
    BY <1>1, <1>2, <1>3, <1>5, <2>2 DEF Stands, Hop
  <2>3. CASE x \in Voices /\ x # from /\ alias[x] = "none"
    BY <1>1, <1>2, <1>3, <2>3 DEF Stands, Hop
  <2>4. CASE x \notin Voices
    BY <1>1, <2>4 DEF Stands, Hop
  <2>5. QED
    BY <2>1, <2>2, <2>3, <2>4
<1>7. QED
  BY <1>1, <1>3, <1>4, <1>6

\* And whose a turn is follows it.
LEMMA RightfulMoves ==
  ASSUME MemoryTypeOK, MemoryTypeOK', NEW a \in Admins, NEW from \in Voices,
         NEW to \in profiles \union {"unknown"}, Rename(a, from, to),
         NEW t \in Logged
  PROVE  Rightful(t)' = IF Rightful(t) = from THEN to ELSE Rightful(t)
<1>1. Logged' = Logged /\ Base(t)' = Base(t)
  BY DEF Rename, Logged, Base
<1>2. Rightful(t) = Hop(alias, Base(t)) /\ Base(t) \in Owners
  BY RightfulIs
<1>3. OneHop(alias') /\ Rightful(t)' = Follow(alias', Base(t)')
  BY AliasOneHop DEF Rightful, Attribution, Base
<1>4. Rightful(t)' = Hop(alias', Base(t))
  BY <1>1, <1>2, <1>3, Heirs
<1>5. QED
  BY <1>2, <1>4, AliasMoves

\* Nothing else does either, but a correction.
LEMMA NamesHold ==
  ASSUME UNCHANGED <<alias, fixed, chatlog>>
  PROVE  Logged' = Logged /\ \A t : Rightful(t)' = Rightful(t)
BY DEF Logged, Rightful, Attribution

\* The types, in the form the steps use.
LEMMA HistoryTypes ==
  ASSUME MemoryTypeOK, Shape
  PROVE  /\ alias \in Tables /\ OneHop(alias) /\ Logged \in SUBSET Turns
         /\ fixed \in [Turns -> OwnerOrNone] /\ facts \in [Turns -> OwnerOrNone]
         /\ graph \in [Stores -> GraphStates]
         /\ durable \in [Stores -> GraphStates]
         /\ \A g \in GraphStates : /\ g.node \in [Turns -> OwnerOrNone]
                                   /\ g.tomb \in Tables
         /\ active \in Stores /\ marker \in Stores
         /\ ingest \in Runs /\ ingest.names \in Tables
         /\ ingest.pc = "write" => ingest.at \in Logged /\ ingest.by \in Owners
         /\ building # NoBuild => building.to \in Stores
         /\ building.names \in Tables
         /\ change \in [Admins -> Requests]
         /\ \A a \in Admins : /\ change[a].to \in Owners
                              /\ change[a].pc \in {"idle", "facts", "graph", "tomb"}
                              /\ change[a].kind \in {"voice", "turn"}
                              /\ RequestOK(change[a])
<1>1. Logged \in SUBSET Turns /\ Len(chatlog) \in Nat
  BY LogTypes
<1>2. \A g \in GraphStates : /\ g.node \in [Turns -> OwnerOrNone]
                             /\ g.tomb \in Tables
  BY DEF GraphStates, Tables
<1>3. ingest \in Runs /\ ingest.names \in Tables /\ building.names \in Tables
  BY DEF MemoryTypeOK, Runs, Switches
<1>4. ingest.pc = "write" => ingest.at \in Logged /\ ingest.by \in Owners
  BY <1>1, <1>3 DEF Shape, RunOK, Runs, Logged
<1>5. \A a \in Admins : /\ change[a].to \in Owners
                        /\ change[a].pc \in {"idle", "facts", "graph", "tomb"}
                        /\ change[a].kind \in {"voice", "turn"}
                        /\ RequestOK(change[a])
  BY DEF MemoryTypeOK, Requests, Shape
<1>6. QED
  BY <1>1, <1>2, <1>3, <1>4, <1>5, AliasOneHop
     DEF MemoryTypeOK, Corrections, Shape

\* The ingester changes nothing about names, corrections and requests, and of
\* a store only its records and User nodes.
LEMMA IngestFrame ==
  ASSUME MemoryTypeOK, Shape, IngestStep
  PROVE  /\ IngesterOnly
         /\ \A s \in Stores : graph'[s].tomb = graph[s].tomb
         /\ \/ ingest'.names = Unnamed /\ ingest'.fixes = Unfixed
            \/ ingest'.names = ingest.names /\ ingest'.fixes = ingest.fixes
            \/ ingest'.names = alias /\ ingest'.fixes = fixed
         /\ durable' = durable \/ (/\ durable' = [durable EXCEPT ![active] =
                                                    graph[active]]
                                   /\ graph' = graph)
<1>1. ingest \in Runs /\ graph \in [Stores -> GraphStates] /\ active \in Stores
  BY HistoryTypes
<1>2. /\ NoIngest.names = Unnamed /\ NoIngest.fixes = Unfixed
  BY DEF NoIngest
<1>3. CASE IngestReads
  BY <1>2, <1>3 DEF IngestReads, NoIngest
<1>4. CASE IngestLoads
  BY <1>1, <1>4 DEF IngestLoads, Runs
<1>5. CASE IngestFinds
  BY <1>1, <1>5 DEF IngestFinds, Runs
<1>6. CASE IngestResolves
  <2>1. ingest'.names = ingest.names /\ ingest'.fixes = ingest.fixes
    BY <1>1, <1>6 DEF IngestResolves, Runs
  <2>2. \A s \in Stores : graph'[s].tomb = graph[s].tomb
    BY <1>1, <1>6 DEF IngestResolves, GraphStates
  <2>3. QED
    BY <1>6, <2>1, <2>2 DEF IngestResolves
<1>7. CASE IngestWrites
  <2>1. ingest'.names = ingest.names /\ ingest'.fixes = ingest.fixes
    BY <1>1, <1>7 DEF IngestWrites, Runs
  <2>2. \A s \in Stores : graph'[s].tomb = graph[s].tomb
    BY <1>1, <1>7 DEF IngestWrites, GraphStates
  <2>3. QED
    BY <1>7, <2>1, <2>2 DEF IngestWrites
<1>8. CASE IngestRejected \/ IngestCommits \/ IngestFails
  BY <1>2, <1>8 DEF IngestRejected, IngestCommits, IngestFails
<1>9. CASE IngestFlushes
  BY <1>1, <1>9 DEF IngestFlushes, Runs
<1>10. QED
  BY <1>3, <1>4, <1>5, <1>6, <1>7, <1>8, <1>9 DEF IngestStep

\* What a step of a request makes of the requests.
LEMMA RequestFrame ==
  ASSUME MemoryTypeOK, Shape, NEW a \in Admins, ChangeStep(a)
  PROVE  /\ UNCHANGED <<profiles, alias, fixed, chatlog, talking, offset, active,
                        marker, serving, ingest, building>>
         /\ \A b \in Admins : b # a => change'[b] = change[b]
         /\ \/ change'[a].pc = "idle"
            \/ /\ change'[a].kind = change[a].kind
               /\ change'[a].from = change[a].from
               /\ change'[a].turn = change[a].turn
               /\ change'[a].to \in {change[a].to,
                                     Follow(graph[active].tomb, change[a].to)}
               /\ change'[a].to = change[a].to \/ change[a].kind = "voice"
         /\ change[a].pc \in {"facts", "graph", "tomb"}
         /\ change[a].pc = "facts" /\ change[a].kind = "voice" =>
              change'[a].pc = "graph"
         /\ change[a].pc # "facts" => change'[a].pc \in {"tomb", "idle"}
<1> DEFINE c == change[a]
           dest == Follow(graph[active].tomb, c.to)
<1>1. change \in [Admins -> Requests] /\ c \in Requests /\ NoChange.pc = "idle"
  BY HistoryTypes, IdleTypes
<1> HIDE DEF dest
<1>2. \/ change' = [change EXCEPT ![a] = NoChange]
      \/ change' = [change EXCEPT ![a].pc = "graph"] /\ c.pc = "facts"
      \/ /\ change' = [change EXCEPT ![a].pc = "tomb", ![a].to = dest,
                                     ![a].store = active]
         /\ c.pc = "graph" /\ c.kind = "voice"
  BY DEF ChangeStep, FactsMove, GraphMoves, GraphTombs, GraphCorrects, dest
<1>3. c.pc \in {"facts", "graph", "tomb"}
  BY DEF ChangeStep, FactsMove, GraphMoves, GraphTombs, GraphCorrects
<1>4. c.pc = "facts" /\ c.kind = "voice" => change'[a].pc = "graph"
  BY <1>1 DEF ChangeStep, FactsMove, GraphMoves, GraphTombs, GraphCorrects, Requests
<1>5. UNCHANGED <<profiles, alias, fixed, chatlog, talking, offset, active,
                  marker, serving, ingest, building>>
  BY DEF ChangeStep, FactsMove, GraphMoves, GraphTombs, GraphCorrects
<1>6. QED
  BY <1>1, <1>2, <1>3, <1>4, <1>5 DEF Requests, dest

\* No step makes a table or a request lead elsewhere than the aliases do.
LEMMA TablesStep ==
  ASSUME MemoryTypeOK, Shape, MemoryTypeOK', TurnsInv, TablesInv,
         [MemoryNext]_memoryVars
  PROVE  TablesInv'
<1>1. /\ alias \in Tables /\ OneHop(alias)
      /\ graph \in [Stores -> GraphStates] /\ durable \in [Stores -> GraphStates]
      /\ \A g \in GraphStates : g.tomb \in Tables
      /\ active \in Stores /\ marker \in Stores
      /\ ingest.names \in Tables /\ building.names \in Tables
      /\ change \in [Admins -> Requests]
      /\ \A a \in Admins : /\ change[a].to \in Owners /\ RequestOK(change[a])
                           /\ change[a].kind \in {"voice", "turn"}
  BY HistoryTypes
<1>2. /\ NoIngest.names = Unnamed /\ NoIngest.fixes = Unfixed
      /\ NoBuild.names = Unnamed /\ NoChange.pc = "idle"
      /\ \A t \in Turns : Unfixed[t] = "none"
  BY DEF NoIngest, NoBuild, NoChange, Unfixed
<1>3. Faithful(Unnamed, alias) /\ Faithful(alias, alias)
  BY <1>1, FaithfulTables
<1>4. CASE UNCHANGED memoryVars \/ TurnStarts
           \/ \E answered \in BOOLEAN : TurnEnds(answered)
  <2>1. UNCHANGED <<graph, durable, ingest, building, fixed, alias, change>>
    BY <1>4 DEF memoryVars, TurnStarts, TurnEnds
  <2>2. QED
    BY <2>1 DEF TablesInv
<1>5. ASSUME NEW a \in Admins, NEW from \in Voices,
             NEW to \in profiles \union {"unknown"}, Rename(a, from, to)
      PROVE  TablesInv'
  <2>1. ASSUME NEW table \in Tables, Faithful(table, alias)
        PROVE  Faithful(table, alias')
    <3>1. \A v \in Voices : table[v] # "none" => table[v] \in Owners
      BY <2>1 DEF Tables, OwnerOrNone
    <3>2. Voices \subseteq Owners
      BY DEF Owners
    <3>3. QED
      BY <1>5, <2>1, <3>1, <3>2, AliasMoves DEF Faithful
  <2>2. UNCHANGED <<graph, durable, ingest, building, fixed>>
    BY <1>5 DEF Rename
  <2>3. /\ change'[a].from = from /\ change'[a].to = to
        /\ \A b \in Admins : b # a => change'[b] = change[b]
    BY <1>1, <1>5 DEF Rename, NoChange
  <2>4. ASSUME NEW b \in Admins, change'[b].pc # "idle", change'[b].kind = "voice"
        PROVE  /\ alias'[change'[b].from] # "none"
               /\ Hop(alias', change'[b].to) = Hop(alias', change'[b].from)
    <3>1. CASE b = a
      BY <1>5, <2>3, <3>1, AliasMoves
    <3>2. CASE b # a
      <4>1. /\ change'[b] = change[b] /\ change[b].from \in Voices
            /\ change[b].to \in Owners /\ change[b].from \in Owners
        BY <1>1, <2>3, <2>4, <3>2 DEF RequestOK, Owners
      <4>2. /\ alias[change[b].from] # "none"
            /\ Hop(alias, change[b].to) = Hop(alias, change[b].from)
        BY <2>4, <4>1 DEF TablesInv
      <4>3. QED
        BY <1>5, <4>1, <4>2, AliasMoves
    <3>3. QED
      BY <3>1, <3>2
  <2>5. QED
    BY <1>1, <2>1, <2>2, <2>4 DEF TablesInv
<1>6. ASSUME NEW a \in Admins, NEW t \in Turns, NEW to \in Owners,
             Correct(a, t, to)
      PROVE  TablesInv'
  <2>1. UNCHANGED <<graph, durable, ingest, building, alias>>
    BY <1>6 DEF Correct
  <2>2. /\ change'[a].kind = "turn"
        /\ \A b \in Admins : b # a => change'[b] = change[b]
    BY <1>1, <1>6 DEF Correct, NoChange
  <2>3. \A u \in Turns : fixed'[u] = IF u = t THEN to ELSE fixed[u]
    <3>1. fixed \in [Turns -> OwnerOrNone]
      BY HistoryTypes
    <3>2. QED
      BY <1>6, <3>1 DEF Correct
  <2>4. QED
    BY <2>1, <2>2, <2>3 DEF TablesInv, Owners
<1>7. ASSUME NEW a \in Admins, ChangeStep(a) PROVE TablesInv'
  <2> DEFINE c == change[a]
             dest == Follow(graph[active].tomb, c.to)
  <2>1. /\ UNCHANGED <<alias, fixed, ingest, building>>
        /\ \A b \in Admins : b # a => change'[b] = change[b]
        /\ \/ change'[a].pc = "idle"
           \/ /\ change'[a].kind = c.kind /\ change'[a].from = c.from
              /\ change'[a].to \in {c.to, dest}
        /\ c.pc # "idle"
    BY <1>7, RequestFrame
  <2>2. Hop(alias, dest) = Hop(alias, c.to)
    BY <1>1, FollowFaithful DEF TablesInv
  <2> HIDE DEF dest
  <2>3. ASSUME NEW b \in Admins, change'[b].pc # "idle", change'[b].kind = "voice"
        PROVE  /\ alias'[change'[b].from] # "none"
               /\ Hop(alias', change'[b].to) = Hop(alias', change'[b].from)
    BY <2>1, <2>2, <2>3 DEF TablesInv
  <2>4. ASSUME NEW s \in Stores
        PROVE  Faithful(graph'[s].tomb, alias) /\ Faithful(durable'[s].tomb, alias)
    <3>1. CASE FactsMove(a)
      BY <3>1 DEF FactsMove, TablesInv
    <3>2. CASE GraphMoves(a)
      <4>1. \A to : Rewritten(graph[active], c.from, to).tomb = graph[active].tomb
        BY <1>1 DEF Rewritten, GraphStates
      <4>2. graph'[s].tomb = graph[s].tomb /\ durable' = durable
        BY <1>1, <3>2, <4>1 DEF GraphMoves
      <4>3. QED
        BY <4>2 DEF TablesInv
    <3>3. CASE GraphTombs(a)
      <4> DEFINE new == Tombstoned(graph[c.store], c.from, c.to)
      <4>1. c.store \in Stores /\ c.kind = "voice" /\ c.from \in Voices
        BY <1>1, <2>1, <3>3 DEF GraphTombs, RequestOK
      <4>2. \/ UNCHANGED <<graph, durable>>
            \/ /\ graph' = [graph EXCEPT ![c.store] = new]
               /\ durable' = [durable EXCEPT ![c.store] = graph'[c.store]]
        BY <1>1, <3>3, <4>1 DEF GraphTombs
      <4>3. /\ graph[c.store].tomb \in [Voices -> OwnerOrNone]
            /\ Faithful(graph[c.store].tomb, alias)
            /\ alias[c.from] # "none" /\ Hop(alias, c.to) = Hop(alias, c.from)
        BY <1>1, <2>1, <4>1 DEF Tables, TablesInv
      <4>4. new.tomb \in {graph[c.store].tomb,
                          [graph[c.store].tomb EXCEPT ![c.from] = c.to]}
        BY <1>1, <4>1 DEF Tombstoned, GraphStates
      <4>5. Faithful(new.tomb, alias)
        BY <4>3, <4>4 DEF Faithful
      <4> HIDE DEF new
      <4>6. QED
        BY <1>1, <4>1, <4>2, <4>5 DEF TablesInv
    <3>4. CASE GraphCorrects(a)
      <4> DEFINE g == graph[active]
                 moved == About(c, g.node)
                 now == [g EXCEPT !.users = @ \union {dest},
                                  !.node = [t \in Turns |->
                                              IF t \in moved THEN dest
                                              ELSE @[t]]]
      <4>1. /\ graph' \in {graph, [graph EXCEPT ![active] = now]}
            /\ durable' \in {durable, [durable EXCEPT ![active] = now]}
        BY <3>4 DEF GraphCorrects, dest
      <4>2. now.tomb = g.tomb
        BY <1>1 DEF GraphStates
      <4> HIDE DEF now
      <4>3. QED
        BY <1>1, <4>1, <4>2 DEF TablesInv
    <3>5. QED
      BY <1>7, <3>1, <3>2, <3>3, <3>4 DEF ChangeStep
  <2>5. QED
    BY <2>1, <2>3, <2>4 DEF TablesInv
<1>8. CASE IngestStep
  <2>1. /\ UNCHANGED <<alias, fixed, building, change>>
        /\ \A s \in Stores : graph'[s].tomb = graph[s].tomb
        /\ \/ ingest'.names = Unnamed /\ ingest'.fixes = Unfixed
           \/ ingest'.names = ingest.names /\ ingest'.fixes = ingest.fixes
           \/ ingest'.names = alias /\ ingest'.fixes = fixed
        /\ durable' = durable \/ durable' = [durable EXCEPT ![active] =
                                               graph[active]]
    BY <1>8, IngestFrame DEF IngesterOnly
  <2>2. Faithful(ingest'.names, alias)
        /\ \A t \in Turns : ingest'.fixes[t] # "none" => fixed[t] # "none"
    BY <1>2, <1>3, <2>1 DEF TablesInv
  <2>3. \A s \in Stores : Faithful(durable'[s].tomb, alias)
    BY <1>1, <2>1 DEF TablesInv
  <2>4. QED
    BY <2>1, <2>2, <2>3 DEF TablesInv
<1>9. ASSUME NEW s \in Stores, NEW g \in {graph[s], durable[s]}, NEW n,
             Activated(s, g, n)
      PROVE  \A r \in Stores : /\ Faithful(graph'[r].tomb, alias)
                               /\ Faithful(durable'[r].tomb, alias)
  <2>1. PICK ids \in SUBSET Replayable(g) :
          /\ graph' = [graph EXCEPT ![s] = Replay(g, ids)]
          /\ durable' = [durable EXCEPT ![s] = Replay(g, ids)]
    BY <1>9 DEF Activated
  <2>2. g \in GraphStates /\ g.tomb \in Tables /\ Faithful(g.tomb, alias)
    BY <1>1, <1>9 DEF TablesInv
  <2> DEFINE dest(v) == Follow(g.tomb, Follow(alias, v))
  <2>3. ASSUME NEW v \in ids \cap Voices
        PROVE  alias[v] # "none" /\ Hop(alias, dest(v)) = Hop(alias, v)
    <3>1. v \in Owners /\ alias[v] # "none"
      BY DEF Replayable, Gone, Owners
    <3>2. /\ Follow(alias, v) = Hop(alias, v) /\ Hop(alias, v) \in Owners
          /\ Hop(alias, Hop(alias, v)) = Hop(alias, v)
      BY <1>1, <3>1, Heirs DEF Stands
    <3>3. Hop(alias, dest(v)) = Hop(alias, Hop(alias, v))
      BY <2>2, <3>2, FollowFaithful
    <3>4. QED
      BY <3>1, <3>2, <3>3
  <2>4. \A v \in Voices : Replay(g, ids).tomb[v] =
          IF v \in ids THEN dest(v) ELSE g.tomb[v]
    BY DEF Replay
  <2> HIDE DEF dest
  <2>5. Faithful(Replay(g, ids).tomb, alias)
    BY <2>2, <2>3, <2>4 DEF Faithful
  <2>6. QED
    BY <1>1, <2>1, <2>5 DEF TablesInv
<1>10. ASSUME NEW s \in Stores, SwitchBuilds(s) PROVE TablesInv'
  <2>1. UNCHANGED <<alias, fixed, ingest, change>> /\ building'.names = alias
    BY <1>10 DEF SwitchBuilds
  <2>2. \A r \in Stores : /\ Faithful(graph'[r].tomb, alias)
                          /\ Faithful(durable'[r].tomb, alias)
    BY <1>9, <1>10 DEF SwitchBuilds
  <2>3. QED
    BY <1>3, <2>1, <2>2 DEF TablesInv
<1>11. CASE Starts
  <2>1. UNCHANGED <<alias, fixed, ingest, change, building>>
    BY <1>11 DEF Starts
  <2>2. \A r \in Stores : /\ Faithful(graph'[r].tomb, alias)
                          /\ Faithful(durable'[r].tomb, alias)
    BY <1>1, <1>9, <1>11 DEF Starts
  <2>3. QED
    BY <2>1, <2>2 DEF TablesInv
<1>12. CASE SwitchSwaps \/ Halt
  <2>1. /\ UNCHANGED <<alias, fixed>> /\ ingest' = NoIngest
        /\ building' = NoBuild
        /\ UNCHANGED <<graph, durable>>
             \/ (graph' \in {graph, durable} /\ durable' = graph')
        /\ (change' = change \/ \A a \in Admins : change'[a].pc = "idle")
    <3>1. CASE SwitchSwaps
      BY <3>1 DEF SwitchSwaps
    <3>2. CASE Halt
      <4>1. change' = [a \in Admins |-> NoChange]
        BY <3>2 DEF Halt
      <4>2. \A a \in Admins : change'[a].pc = "idle"
        BY <1>2, <4>1
      <4>3. QED
        BY <3>2, <4>2 DEF Halt
    <3>3. QED
      BY <1>12, <3>1, <3>2
  <2>2. \A s \in Stores : /\ Faithful(graph'[s].tomb, alias)
                          /\ Faithful(durable'[s].tomb, alias)
    BY <2>1 DEF TablesInv
  <2>3. QED
    BY <1>2, <1>3, <2>1, <2>2 DEF TablesInv
<1>13. QED
  BY <1>4, <1>5, <1>6, <1>7, <1>8, <1>10, <1>11, <1>12
     DEF MemoryNext, Forget, Merge

\* A request that was idle takes nothing away from what is under way.
LEMMA StillAsked ==
  ASSUME NEW a \in Admins, change[a].pc = "idle",
         \A b \in Admins : b # a => change'[b] = change[b],
         NEW pcs, "idle" \notin pcs
  PROVE  /\ \A t : Asked(change, t, pcs) => Asked(change', t, pcs)
         /\ \A v : Moving(change, v, pcs) => Moving(change', v, pcs)
BY DEF Asked, Moving

\* The facts stay right.
LEMMA FactsStep ==
  ASSUME MemoryTypeOK, Shape, MemoryTypeOK', TurnsInv, TablesInv, FactsInv,
         [MemoryNext]_memoryVars
  PROVE  FactsInv'
<1>1. /\ alias \in Tables /\ OneHop(alias) /\ Logged \in SUBSET Turns
      /\ facts \in [Turns -> OwnerOrNone] /\ fixed \in [Turns -> OwnerOrNone]
      /\ change \in [Admins -> Requests]
      /\ \A a \in Admins : /\ change[a].to \in Owners /\ RequestOK(change[a])
                           /\ change[a].kind \in {"voice", "turn"}
      /\ "facts" \notin Stores /\ active \in Stores /\ marker \in Stores
  BY HistoryTypes
<1>2. \A t \in Logged : /\ facts[t] \in Owners
                        /\ Rightful(t) \in Owners /\ Stands(alias, Rightful(t))
  BY <1>1, RightfulIs DEF TurnsInv, OwnerOrNone
\* Where the facts and the requests stay as they are.
<1>3. ASSUME UNCHANGED <<alias, fixed, chatlog, facts, change>>,
             \A t \in Turns : <<"facts", t>> \in stray => <<"facts", t>> \in stray'
      PROVE  FactsInv'
  BY <1>1, <1>3, NamesHold DEF FactsInv
<1>4. CASE UNCHANGED memoryVars \/ TurnStarts
  BY <1>3, <1>4 DEF memoryVars, TurnStarts
<1>5. CASE IngestStep
  <2>1. stray \subseteq stray' /\ IngesterOnly
    BY <1>5 DEF IngestStep, IngestReads, IngestLoads, IngestFinds,
       IngestResolves, IngestWrites, IngestRejected, IngestFlushes,
       IngestCommits, IngestFails, IngesterOnly
  <2>2. QED
    BY <1>3, <2>1 DEF IngesterOnly
<1>6. ASSUME NEW s \in Stores, NEW g, NEW n, Activated(s, g, n),
             UNCHANGED <<alias, fixed, chatlog, facts, change>>
      PROVE  FactsInv'
  <2>1. PICK ids : stray' = (stray \ PutRight(s, g, ids))
                              \union LeftBehind(s, g, ids)
    BY <1>6 DEF Activated
  <2>2. \A t \in Turns : <<"facts", t>> \notin PutRight(s, g, ids)
    BY <1>1 DEF PutRight
  <2>3. QED
    BY <1>3, <1>6, <2>1, <2>2
<1>7. CASE (\E s \in Stores : SwitchBuilds(s)) \/ SwitchSwaps \/ Starts
  <2>1. ASSUME NEW s \in Stores, SwitchBuilds(s) PROVE FactsInv'
    BY <1>6, <2>1 DEF SwitchBuilds
  <2>2. CASE SwitchSwaps
    BY <1>3, <2>2 DEF SwitchSwaps
  <2>3. CASE Starts
    BY <1>1, <1>6, <2>3 DEF Starts
  <2>4. QED
    BY <1>7, <2>1, <2>2, <2>3
<1>8. ASSUME NEW answered \in BOOLEAN, TurnEnds(answered) PROVE FactsInv'
  <2>0. PICK n : n = Len(chatlog) + 1
    OBVIOUS
  <2>1. /\ UNCHANGED <<alias, fixed, change>>
        /\ stray' = stray \union (IF Gone(talking) THEN {<<"facts", n>>} ELSE {})
    BY <1>8, <2>0 DEF TurnEnds
  <2>2. /\ n \in Turns \ Logged /\ Logged' = Logged \union {n}
        /\ \A t \in Logged : chatlog'[t] = chatlog[t]
        /\ chatlog'[n].by = talking /\ talking \in Owners
        /\ \A t \in Turns : facts'[t] = IF t = n THEN talking ELSE facts[t]
    BY <1>1, <1>8, <2>0, LogGrows
  <2>3. ASSUME NEW t \in Logged
        PROVE  Rightful(t)' = Rightful(t) /\ facts'[t] = facts[t] /\ t # n
    BY <1>1, <2>1, <2>2 DEF Rightful, Attribution
  <2>4. Rightful(n)' = Hop(alias, talking)
    <3>1. fixed'[n] = "none"
      BY <2>1, <2>2 DEF TurnsInv
    <3>2. Rightful(n)' = Follow(alias, talking)
      BY <2>1, <2>2, <3>1 DEF Rightful, Attribution
    <3>3. QED
      BY <1>1, <2>2, <3>2, Heirs
  <2>5. Gone(talking) \/ Stands(alias, talking)
    BY DEF Gone, Stands, Hop
  <2>6. ASSUME NEW t \in Logged', <<"facts", t>> \notin stray'
        PROVE  /\ Hop(alias', facts'[t]) = Rightful(t)'
                    \/ Asked(change', t, {"facts"})
               /\ Stands(alias', facts'[t])
                    \/ Moving(change', facts'[t], {"facts"})
    <3>1. CASE t = n
      BY <2>1, <2>2, <2>4, <2>5, <2>6, <3>1
    <3>2. CASE t # n
      BY <2>1, <2>2, <2>3, <2>6, <3>2 DEF FactsInv
    <3>3. QED
      BY <3>1, <3>2
  <2>7. QED
    BY <2>6 DEF FactsInv
<1>9. ASSUME NEW a \in Admins, NEW from \in Voices,
             NEW to \in profiles \union {"unknown"}, Rename(a, from, to)
      PROVE  FactsInv'
  <2>1. /\ UNCHANGED <<facts, stray, chatlog>> /\ Logged' = Logged
        /\ change[a].pc = "idle"
    BY <1>9 DEF Rename, Logged
  <2>2. /\ change'[a].pc = "facts" /\ change'[a].kind = "voice"
        /\ change'[a].from = from
        /\ \A b \in Admins : b # a => change'[b] = change[b]
    BY <1>1, <1>9 DEF Rename, NoChange
  <2>3. Moving(change', from, {"facts"})
    BY <2>2 DEF Moving
  <2>4. /\ \A t : Asked(change, t, {"facts"}) => Asked(change', t, {"facts"})
        /\ \A v : Moving(change, v, {"facts"}) => Moving(change', v, {"facts"})
    BY <2>1, <2>2, StillAsked
  <2>5. ASSUME NEW t \in Logged, <<"facts", t>> \notin stray
        PROVE  /\ Hop(alias', facts[t]) = Rightful(t)'
                    \/ Asked(change', t, {"facts"})
               /\ Stands(alias', facts[t])
                    \/ Moving(change', facts[t], {"facts"})
    <3>1. /\ Hop(alias, facts[t]) = Rightful(t) \/ Asked(change, t, {"facts"})
          /\ Stands(alias, facts[t]) \/ Moving(change, facts[t], {"facts"})
      BY <2>5 DEF FactsInv
    <3>2. Rightful(t)' = IF Rightful(t) = from THEN to ELSE Rightful(t)
      BY <1>9, RightfulMoves
    <3>3. Hop(alias', facts[t]) =
            IF Hop(alias, facts[t]) = from THEN to ELSE Hop(alias, facts[t])
      BY <1>2, <1>9, AliasMoves
    <3>4. Stands(alias, facts[t]) /\ facts[t] # from => Stands(alias', facts[t])
      BY <1>2, <1>9, AliasMoves
    <3>5. QED
      BY <2>3, <2>4, <3>1, <3>2, <3>3, <3>4
  <2>6. QED
    BY <2>1, <2>5 DEF FactsInv
<1>10. ASSUME NEW a \in Admins, NEW t \in Turns, NEW to \in Owners,
              Correct(a, t, to)
       PROVE  FactsInv'
  <2>1. /\ UNCHANGED <<facts, stray, chatlog, alias>> /\ Logged' = Logged
        /\ change[a].pc = "idle"
    BY <1>10 DEF Correct, Logged
  <2>2. /\ change'[a].pc = "facts" /\ change'[a].kind = "turn"
        /\ change'[a].turn = t
        /\ \A b \in Admins : b # a => change'[b] = change[b]
    BY <1>1, <1>10 DEF Correct, NoChange
  <2>3. Asked(change', t, {"facts"})
    BY <2>2 DEF Asked
  <2>4. /\ \A u : Asked(change, u, {"facts"}) => Asked(change', u, {"facts"})
        /\ \A v : Moving(change, v, {"facts"}) => Moving(change', v, {"facts"})
    BY <2>1, <2>2, StillAsked
  <2>5. \A u \in Turns : fixed'[u] = IF u = t THEN to ELSE fixed[u]
    BY <1>1, <1>10 DEF Correct
  <2>6. ASSUME NEW u \in Logged, u # t PROVE Rightful(u)' = Rightful(u)
    BY <1>1, <2>1, <2>5, <2>6 DEF Rightful, Attribution
  <2>7. QED
    BY <2>1, <2>3, <2>4, <2>6 DEF FactsInv
<1>11. ASSUME NEW a \in Admins, FactsMove(a) PROVE FactsInv'
  <2> DEFINE c == change[a]
             moved == About(c, facts)
  <2>1. /\ UNCHANGED <<alias, fixed, chatlog>> /\ c.pc = "facts"
        /\ \A b \in Admins : b # a => change'[b] = change[b]
        /\ Logged' = Logged /\ \A t : Rightful(t)' = Rightful(t)
        /\ c.kind \in {"voice", "turn"} /\ c.to \in Owners
    BY <1>1, <1>11, RequestFrame, NamesHold DEF ChangeStep, FactsMove
  <2>2. \/ /\ \A t \in Turns : facts'[t] = IF t \in moved THEN c.to ELSE facts[t]
           /\ stray' = stray \union
                (IF Overtaken(c) THEN At("facts", moved) ELSE {})
        \/ /\ facts' = facts
           /\ stray \subseteq stray' /\ At("facts", moved) \subseteq stray'
    BY <1>11 DEF FactsMove
  <2>3. stray \subseteq stray'
    BY <2>2
\* A turn the request is not about.
  <2>4. ASSUME NEW t \in Logged, t \notin moved, <<"facts", t>> \notin stray'
        PROVE  /\ Hop(alias, facts'[t]) = Rightful(t)
                    \/ Asked(change', t, {"facts"})
               /\ Stands(alias, facts'[t])
                    \/ Moving(change', facts'[t], {"facts"})
    <3>1. facts'[t] = facts[t]
      BY <1>1, <2>2, <2>4
    <3>2. /\ Hop(alias, facts[t]) = Rightful(t) \/ Asked(change, t, {"facts"})
          /\ Stands(alias, facts[t]) \/ Moving(change, facts[t], {"facts"})
      BY <2>3, <2>4 DEF FactsInv
    <3>3. c.kind = "turn" => c.turn # t
      BY <1>1, <2>4 DEF About, TurnsInv
    <3>4. c.kind = "voice" => c.from # facts[t]
      BY <1>1, <2>4 DEF About
    <3>5. Asked(change, t, {"facts"}) => Asked(change', t, {"facts"})
      BY <2>1, <3>3 DEF Asked
    <3>6. Moving(change, facts[t], {"facts"}) => Moving(change', facts[t], {"facts"})
      BY <2>1, <3>4 DEF Moving
    <3>7. QED
      BY <3>1, <3>2, <3>5, <3>6
\* A turn it is about: it is settled, or noted.
  <2>5. ASSUME NEW t \in Logged, t \in moved, <<"facts", t>> \notin stray'
        PROVE  /\ Hop(alias, facts'[t]) = Rightful(t)
                    \/ Asked(change', t, {"facts"})
               /\ Stands(alias, facts'[t])
    <3>1. <<"facts", t>> \in At("facts", moved)
      BY <2>5 DEF At
    <3>2. facts'[t] = c.to /\ ~Overtaken(c)
      BY <1>1, <2>2, <2>5, <3>1
    <3>3. CASE c.kind = "voice"
      <4>1. /\ alias[c.from] = c.to /\ facts[t] = c.from /\ c.from \in Voices
            /\ c.from \in Owners /\ alias[c.from] # "none"
        BY <1>1, <2>1, <2>5, <3>2, <3>3
           DEF Overtaken, About, RequestOK, TablesInv, Owners
      <4>2. Stands(alias, c.to) /\ Hop(alias, c.from) = c.to
        BY <1>1, <4>1 DEF OneHop, Hop
      <4>3. Hop(alias, facts[t]) = Rightful(t) \/ Asked(change, t, {"facts"})
        BY <2>3, <2>5 DEF FactsInv
      <4>4. Asked(change, t, {"facts"}) => Asked(change', t, {"facts"})
        BY <2>1, <3>3 DEF Asked
      <4>5. QED
        BY <3>2, <4>1, <4>2, <4>3, <4>4 DEF Stands
    <3>4. CASE c.kind = "turn"
      <4>1. fixed[t] = c.to /\ ~Gone(c.to)
        BY <2>5, <3>2, <3>4 DEF Overtaken, About
      <4>2. Stands(alias, c.to)
        BY <4>1 DEF Gone, Stands, Hop
      <4>3. Base(t) = c.to
        BY <2>1, <4>1 DEF Base, Owners
      <4>4. Rightful(t) = c.to
        BY <4>2, <4>3, RightfulIs DEF Stands
      <4>5. QED
        BY <3>2, <4>2, <4>4 DEF Stands
    <3>5. QED
      BY <2>1, <3>3, <3>4
  <2>6. QED
    BY <2>1, <2>4, <2>5 DEF FactsInv
<1>12. ASSUME NEW a \in Admins, GraphMoves(a) \/ GraphTombs(a) \/ GraphCorrects(a)
       PROVE  FactsInv'
  <2>1. /\ UNCHANGED <<alias, fixed, chatlog, facts>> /\ stray \subseteq stray'
        /\ change[a].pc \in {"graph", "tomb"}
    BY <1>12 DEF GraphMoves, GraphTombs, GraphCorrects
  <2>2. \A b \in Admins : b # a => change'[b] = change[b]
    BY <1>12, RequestFrame DEF ChangeStep
  <2>3. /\ \A t : Asked(change, t, {"facts"}) => Asked(change', t, {"facts"})
        /\ \A v : Moving(change, v, {"facts"}) => Moving(change', v, {"facts"})
    BY <2>1, <2>2 DEF Asked, Moving
  <2>4. QED
    BY <2>1, <2>3, NamesHold DEF FactsInv
<1>13. CASE Halt
  <2> DEFINE left == {a \in Admins : change[a].pc = "facts"}
  <2>1. /\ UNCHANGED <<alias, fixed, chatlog, facts>>
        /\ stray \subseteq stray'
        /\ UNION {At("facts", About(change[a], facts)) : a \in left}
             \subseteq stray'
    BY <1>13 DEF Halt
  <2>2. ASSUME NEW t \in Logged, <<"facts", t>> \notin stray'
        PROVE  /\ ~Asked(change, t, {"facts"})
               /\ ~Moving(change, facts[t], {"facts"})
    <3>1. ASSUME NEW a \in Admins, change[a].pc = "facts"
          PROVE  t \notin About(change[a], facts)
      <4>1. At("facts", About(change[a], facts)) \subseteq stray'
        BY <2>1, <3>1
      <4>2. QED
        BY <2>2, <4>1 DEF At
    <3>2. facts[t] # "none" /\ t \in Turns
      BY <1>1 DEF TurnsInv
    <3>3. QED
      BY <3>1, <3>2 DEF Asked, Moving, About
  <2>3. QED
    BY <2>1, <2>2, NamesHold DEF FactsInv
<1>14. QED
  BY <1>4, <1>5, <1>7, <1>8, <1>9, <1>10, <1>11, <1>12, <1>13
     DEF MemoryNext, ChangeStep, Forget, Merge

\* Records stay among those their owners were merged with.
LEMMA NodesStep ==
  ASSUME MemoryTypeOK, Shape, MemoryTypeOK', Kept, TurnsInv, TablesInv, NodesInv,
         WriteInv, [MemoryNext]_memoryVars
  PROVE  NodesInv'
<1>1. /\ alias \in Tables /\ OneHop(alias) /\ Logged \in SUBSET Turns
      /\ fixed \in [Turns -> OwnerOrNone]
      /\ graph \in [Stores -> GraphStates] /\ durable \in [Stores -> GraphStates]
      /\ \A g \in GraphStates : /\ g.node \in [Turns -> OwnerOrNone]
                                /\ g.tomb \in Tables
      /\ change \in [Admins -> Requests]
      /\ \A a \in Admins : /\ change[a].to \in Owners /\ RequestOK(change[a])
                           /\ change[a].kind \in {"voice", "turn"}
      /\ active \in Stores /\ marker \in Stores
  BY HistoryTypes
<1>2. \A t \in Logged : Rightful(t) \in Owners /\ Stands(alias, Rightful(t))
  BY RightfulIs
<1>3. \A s \in Stores, t \in Turns :
        durable[s].node[t] # "none" => graph[s].node[t] # "none"
  BY DEF Kept, Grows
<1>4. "none" \notin Owners
  BY DEF Owners
\* What a store may find in a record without more ado.
<1> DEFINE Old(s, t, id) == id \in {graph[s].node[t], durable[s].node[t]}
           Pcs == {"facts", "graph"}
<1>5. ASSUME UNCHANGED <<alias, fixed, chatlog>>, stray \subseteq stray',
             \A t \in Logged : Asked(change, t, Pcs) => Asked(change', t, Pcs),
             \A s \in Stores, t \in Logged :
               Old(s, t, graph'[s].node[t]) /\ Old(s, t, durable'[s].node[t])
      PROVE  NodesInv'
  <2>1. Logged' = Logged /\ \A t : Rightful(t)' = Rightful(t)
    BY <1>5, NamesHold
  <2>2. \A id : \A s \in Stores, t \in Logged :
          OwnerOK(s, t, id) => OwnerOK(s, t, id)'
    BY <1>5, <2>1 DEF OwnerOK
  <2>3. QED
    BY <1>5, <2>1, <2>2 DEF NodesInv
<1>6. CASE UNCHANGED memoryVars \/ TurnStarts \/ SwitchSwaps
  <2>1. UNCHANGED <<alias, fixed, chatlog, graph, durable, change>>
        /\ stray \subseteq stray'
    BY <1>6 DEF memoryVars, TurnStarts, SwitchSwaps
  <2>2. QED
    BY <1>5, <2>1
<1>7. ASSUME NEW answered \in BOOLEAN, TurnEnds(answered) PROVE NodesInv'
  <2>0. PICK n : n = Len(chatlog) + 1
    OBVIOUS
  <2>1. UNCHANGED <<alias, fixed, change, graph, durable>> /\ stray \subseteq stray'
    BY <1>7 DEF TurnEnds
  <2>2. /\ n \in Turns \ Logged /\ Logged' = Logged \union {n}
        /\ \A t \in Logged : chatlog'[t] = chatlog[t]
    BY <1>7, <2>0, LogGrows
  <2>3. \A t \in Logged : Rightful(t)' = Rightful(t)
    BY <2>1, <2>2 DEF Rightful, Attribution
  <2>4. \A s \in Stores : graph[s].node[n] = "none" /\ durable[s].node[n] = "none"
    BY <2>2 DEF TurnsInv
  <2>5. \A id : \A s \in Stores, t \in Logged :
          OwnerOK(s, t, id) => OwnerOK(s, t, id)'
    BY <2>1, <2>3 DEF OwnerOK
  <2>6. QED
    BY <1>4, <2>1, <2>2, <2>4, <2>5 DEF NodesInv
<1>8. ASSUME NEW a \in Admins, NEW from \in Voices,
             NEW to \in profiles \union {"unknown"}, Rename(a, from, to)
      PROVE  NodesInv'
  <2>1. /\ UNCHANGED <<fixed, stray, chatlog, graph, durable>> /\ Logged' = Logged
        /\ change[a].pc = "idle"
    BY <1>8 DEF Rename, Logged
  <2>2. \A b \in Admins : b # a => change'[b] = change[b]
    BY <1>1, <1>8 DEF Rename
  <2>3. \A t : Asked(change, t, Pcs) => Asked(change', t, Pcs)
    BY <2>1, <2>2, StillAsked
  <2>4. ASSUME NEW s \in Stores, NEW t \in Logged, NEW id \in Owners,
               OwnerOK(s, t, id)
        PROVE  OwnerOK(s, t, id)'
    <3>1. Rightful(t)' = IF Rightful(t) = from THEN to ELSE Rightful(t)
      BY <1>8, RightfulMoves
    <3>2. Hop(alias', id) = IF Hop(alias, id) = from THEN to ELSE Hop(alias, id)
      BY <1>8, AliasMoves
    <3>3. QED
      BY <2>1, <2>3, <2>4, <3>1, <3>2 DEF OwnerOK
  <2>5. QED
    BY <2>1, <2>4 DEF NodesInv
<1>9. ASSUME NEW a \in Admins, NEW t \in Turns, NEW to \in Owners,
             Correct(a, t, to)
      PROVE  NodesInv'
  <2>1. /\ UNCHANGED <<alias, stray, chatlog, graph, durable>> /\ Logged' = Logged
        /\ change[a].pc = "idle"
    BY <1>9 DEF Correct, Logged
  <2>2. /\ change'[a].pc = "facts" /\ change'[a].kind = "turn"
        /\ change'[a].turn = t
        /\ \A b \in Admins : b # a => change'[b] = change[b]
    BY <1>1, <1>9 DEF Correct, NoChange
  <2>3. Asked(change', t, Pcs)
    BY <2>2 DEF Asked
  <2>4. \A u : Asked(change, u, Pcs) => Asked(change', u, Pcs)
    BY <2>1, <2>2, StillAsked
  <2>5. \A u \in Turns : fixed'[u] = IF u = t THEN to ELSE fixed[u]
    BY <1>1, <1>9 DEF Correct
  <2>6. ASSUME NEW s \in Stores, NEW u \in Logged, NEW id, OwnerOK(s, u, id)
        PROVE  OwnerOK(s, u, id)'
    <3>1. CASE u = t
      BY <1>4, <2>3, <2>5, <3>1 DEF OwnerOK
    <3>2. CASE u # t
      <4>1. Rightful(u)' = Rightful(u) /\ fixed'[u] = fixed[u]
        BY <1>1, <2>1, <2>5, <3>2 DEF Rightful, Attribution
      <4>2. QED
        BY <2>1, <2>4, <2>6, <4>1 DEF OwnerOK
    <3>3. QED
      BY <3>1, <3>2
  <2>7. QED
    BY <2>1, <2>6 DEF NodesInv
\* A correction that is given up, or done.
<1>10. ASSUME NEW a \in Admins, UNCHANGED <<alias, fixed, chatlog>>,
              stray \subseteq stray', change[a].kind = "turn",
              change[a].pc # "idle",
              \A b \in Admins : b # a => change'[b] = change[b],
              \A s \in Stores, t \in Logged : t # change[a].turn =>
                Old(s, t, graph'[s].node[t]) /\ Old(s, t, durable'[s].node[t]),
              \A s \in Stores, t \in Logged, id \in Owners :
                /\ id \in {graph'[s].node[t], durable'[s].node[t]}
                /\ t = change[a].turn /\ <<s, t>> \notin stray'
                => Hop(alias, id) = Rightful(t)
       PROVE  NodesInv'
  <2>1. Logged' = Logged /\ \A t : Rightful(t)' = Rightful(t)
    BY <1>10, NamesHold
  <2>2. ASSUME NEW s \in Stores, NEW t \in Logged, NEW id \in Owners,
               id \in {graph'[s].node[t], durable'[s].node[t]}
        PROVE  OwnerOK(s, t, id)'
    <3>1. CASE t = change[a].turn
      <4>1. fixed[t] # "none"
        BY <1>10, <3>1 DEF TurnsInv
      <4>2. QED
        BY <1>10, <2>1, <2>2, <3>1, <4>1 DEF OwnerOK
    <3>2. CASE t # change[a].turn
      <4>1. Asked(change, t, Pcs) => Asked(change', t, Pcs)
        BY <1>10, <3>2 DEF Asked
      <4>2. OwnerOK(s, t, id)
        BY <1>10, <2>2, <3>2 DEF NodesInv
      <4>3. QED
        BY <1>10, <2>1, <4>1, <4>2 DEF OwnerOK
    <3>3. QED
      BY <3>1, <3>2
  <2>3. QED
    BY <2>1, <2>2 DEF NodesInv
\* What the stores that hold a record have to do with it.
<1>11. \A s \in Stores, t \in Logged, id \in Owners :
         id \in {graph[s].node[t], durable[s].node[t]} => s \in Holding(t)
  BY <1>1, <1>3, <1>4 DEF Holding
<1>12. ASSUME NEW a \in Admins, FactsMove(a) PROVE NodesInv'
  <2> DEFINE c == change[a]
  <2>1. /\ UNCHANGED <<alias, fixed, chatlog, graph, durable>>
        /\ stray \subseteq stray' /\ c.pc = "facts"
    BY <1>12 DEF FactsMove
  <2>2. \A b \in Admins : b # a => change'[b] = change[b]
    BY <1>12, RequestFrame DEF ChangeStep
  <2>3. CASE change' = [change EXCEPT ![a].pc = "graph"]
    <3>1. \A t : Asked(change, t, Pcs) => Asked(change', t, Pcs)
      <4>1. /\ change'[a].kind = c.kind /\ change'[a].turn = c.turn
            /\ change'[a].pc = "graph"
        BY <1>1, <2>3 DEF Requests
      <4>2. QED
        BY <2>2, <4>1 DEF Asked
    <3>2. QED
      BY <1>5, <2>1, <3>1
  <2>4. CASE change' # [change EXCEPT ![a].pc = "graph"]
    <3>1. c.kind = "turn" /\ Holding(c.turn) \X {c.turn} \subseteq stray'
      BY <1>1, <1>12, <2>4 DEF FactsMove
    <3>2. ASSUME NEW s \in Stores, NEW t \in Logged, NEW id \in Owners,
                 id \in {graph'[s].node[t], durable'[s].node[t]}, t = c.turn
          PROVE  <<s, t>> \in stray'
      BY <1>11, <2>1, <3>1, <3>2
    <3>3. QED
      BY <1>10, <2>1, <2>2, <3>1, <3>2
  <2>5. QED
    BY <2>3, <2>4
<1>13. ASSUME NEW a \in Admins, GraphMoves(a) PROVE NodesInv'
  <2> DEFINE c == change[a]
             g == graph[active]
             dest == Follow(g.tomb, c.to)
  <2>1. /\ UNCHANGED <<alias, fixed, chatlog, durable>>
        /\ stray \subseteq stray' /\ c.pc = "graph" /\ c.kind = "voice"
        /\ graph' \in {graph, [graph EXCEPT ![active] =
                                 Rewritten(g, c.from, dest)]}
    BY <1>13 DEF GraphMoves
  <2>2. \A b \in Admins : b # a => change'[b] = change[b]
    BY <1>13, RequestFrame DEF ChangeStep
  <2>3. \A t : Asked(change, t, Pcs) => Asked(change', t, Pcs)
    BY <2>1, <2>2 DEF Asked
  <2>4. Hop(alias, dest) = Hop(alias, c.from) /\ c.from \in Owners
    <3>1. Hop(alias, dest) = Hop(alias, c.to)
      BY <1>1, FollowFaithful DEF TablesInv
    <3>2. QED
      BY <1>1, <2>1, <3>1 DEF TablesInv, RequestOK, Owners
  <2> HIDE DEF dest
  <2>5. \A t \in Turns : Rewritten(g, c.from, dest).node[t] =
          IF g.node[t] = c.from THEN dest ELSE g.node[t]
    BY <1>1 DEF Rewritten, GraphStates
  <2>6. Logged' = Logged /\ \A t : Rightful(t)' = Rightful(t)
    BY <2>1, NamesHold
  <2>7. \A id : \A s \in Stores, t \in Logged :
          OwnerOK(s, t, id) => OwnerOK(s, t, id)'
    BY <2>1, <2>3, <2>6 DEF OwnerOK
  <2>8. \A s \in Stores, t \in Logged :
          OwnerOK(s, t, c.from) => OwnerOK(s, t, dest)
    BY <2>4 DEF OwnerOK
  <2>9. \A s \in Stores, t \in Logged :
          \/ graph'[s].node[t] = graph[s].node[t]
          \/ graph[s].node[t] = c.from /\ graph'[s].node[t] = dest
    BY <1>1, <2>1, <2>5
  <2>10. QED
    BY <2>1, <2>4, <2>6, <2>7, <2>8, <2>9 DEF NodesInv
<1>14. ASSUME NEW a \in Admins, GraphTombs(a) PROVE NodesInv'
  <2> DEFINE c == change[a]
             new == Tombstoned(graph[c.store], c.from, c.to)
  <2>1. /\ UNCHANGED <<alias, fixed, chatlog, stray>> /\ c.pc = "tomb"
    BY <1>14 DEF GraphTombs
  <2>2. \A b \in Admins : b # a => change'[b] = change[b]
    BY <1>14, RequestFrame DEF ChangeStep
  <2>3. \A t : Asked(change, t, Pcs) => Asked(change', t, Pcs)
    BY <2>1, <2>2 DEF Asked
  <2>4. c.store \in Stores
    BY <1>1, <2>1 DEF RequestOK
  <2>5. \/ UNCHANGED <<graph, durable>>
        \/ /\ graph' = [graph EXCEPT ![c.store] = new]
           /\ durable' = [durable EXCEPT ![c.store] = graph'[c.store]]
    BY <1>1, <1>14, <2>4 DEF GraphTombs
  <2>6. new.node = graph[c.store].node
    BY <1>1, <2>4 DEF Tombstoned, GraphStates
  <2> HIDE DEF new
  <2>7. \A s \in Stores, t \in Logged :
          Old(s, t, graph'[s].node[t]) /\ Old(s, t, durable'[s].node[t])
    BY <1>1, <2>4, <2>5, <2>6
  <2>8. QED
    BY <1>5, <2>1, <2>3, <2>7
<1>15. ASSUME NEW a \in Admins, GraphCorrects(a) PROVE NodesInv'
  <2> DEFINE c == change[a]
             g == graph[active]
             dest == Follow(g.tomb, c.to)
             moved == About(c, g.node)
             now == [g EXCEPT !.users = @ \union {dest},
                              !.node = [t \in Turns |->
                                          IF t \in moved THEN dest ELSE @[t]]]
  <2>1. /\ UNCHANGED <<alias, fixed, chatlog>> /\ stray \subseteq stray'
        /\ c.pc = "graph" /\ c.kind = "turn"
    BY <1>15 DEF GraphCorrects
  <2>2. \A b \in Admins : b # a => change'[b] = change[b]
    BY <1>15, RequestFrame DEF ChangeStep
  <2>3. \/ /\ graph' = [graph EXCEPT ![active] = now]
           /\ durable' = IF moved = {} THEN durable
                         ELSE [durable EXCEPT ![active] = now]
           /\ (Holding(c.turn) \ {active}) \X {c.turn} \subseteq stray'
           /\ Overtaken(c) => At(active, moved) \subseteq stray'
        \/ /\ UNCHANGED <<graph, durable>>
           /\ Holding(c.turn) \X {c.turn} \subseteq stray'
    BY <1>15 DEF GraphCorrects
  <2>4. \A t \in Turns : now.node[t] = IF t \in moved THEN dest ELSE g.node[t]
    BY <1>1 DEF GraphStates
  <2>5. \A t \in Turns : t \in moved <=> t = c.turn /\ g.node[t] # "none"
    BY <2>1 DEF About
  <2> HIDE DEF now, moved
  <2>6. \A s \in Stores, t \in Logged : t # c.turn =>
          Old(s, t, graph'[s].node[t]) /\ Old(s, t, durable'[s].node[t])
    BY <1>1, <2>3, <2>4, <2>5
  <2>7. ASSUME NEW s \in Stores, NEW t \in Logged, NEW id \in Owners,
               id \in {graph'[s].node[t], durable'[s].node[t]},
               t = c.turn, <<s, t>> \notin stray'
        PROVE  Hop(alias, id) = Rightful(t)
    <3>1. s \in Holding(t)
      <4>1. CASE UNCHANGED <<graph, durable>>
        BY <1>11, <2>7, <4>1
      <4>2. CASE s # active
        <5>1. graph'[s] = graph[s] /\ durable'[s] = durable[s]
          BY <1>1, <2>3, <4>2
        <5>2. QED
          BY <1>11, <2>7, <5>1
      <4>3. CASE s = active /\ t \notin moved
        <5>1. /\ graph'[s].node[t] = graph[s].node[t]
              /\ durable'[s].node[t] \in {durable[s].node[t], graph[s].node[t]}
          BY <1>1, <2>3, <2>4, <4>3
        <5>2. QED
          BY <1>11, <2>7, <5>1
      <4>4. CASE s = active /\ t \in moved
        BY <1>1, <2>5, <4>4 DEF Holding
      <4>5. QED
        BY <4>1, <4>2, <4>3, <4>4
    <3>2. s = active /\ ~(Holding(c.turn) \X {c.turn} \subseteq stray')
      BY <2>3, <2>7, <3>1
    <3>3. t \in moved
      BY <1>1, <2>5, <2>7, <3>1, <3>2 DEF Holding
    <3>4. ~Overtaken(c)
      BY <2>3, <2>7, <3>2, <3>3 DEF At
    <3>5. id = dest
      BY <1>1, <2>3, <2>4, <2>7, <3>2, <3>3
    <3>6. fixed[t] = c.to /\ ~Gone(c.to)
      BY <2>1, <2>7, <3>4 DEF Overtaken
    <3>7. Stands(alias, c.to)
      BY <3>6 DEF Gone, Stands, Hop
    <3>8. Base(t) = c.to
      BY <1>1, <1>4, <3>6 DEF Base
    <3>9. Rightful(t) = c.to
      BY <3>7, <3>8, RightfulIs DEF Stands
    <3>10. Hop(alias, dest) = Hop(alias, c.to)
      BY <1>1, FollowFaithful DEF TablesInv
    <3>11. QED
      BY <3>5, <3>7, <3>9, <3>10 DEF Stands
  <2>8. QED
    BY <1>10, <2>1, <2>2, <2>6, <2>7
<1>16. CASE IngestStep
  <2>1. /\ IngesterOnly /\ stray \subseteq stray'
        /\ durable' = durable \/ (/\ durable' = [durable EXCEPT ![active] =
                                                   graph[active]]
                                  /\ graph' = graph)
    BY <1>16, IngestFrame
       DEF IngestStep, IngestReads, IngestLoads, IngestFinds, IngestResolves,
       IngestWrites, IngestRejected, IngestFlushes, IngestCommits, IngestFails
  <2>2. UNCHANGED <<alias, fixed, chatlog, change>>
    BY <2>1 DEF IngesterOnly
  <2>3. CASE ~IngestWrites
    <3>1. \A s \in Stores : graph'[s].node = graph[s].node
      <4>1. CASE IngestResolves
        BY <1>1, <4>1 DEF IngestResolves, GraphStates
      <4>2. CASE ~IngestResolves
        BY <1>16, <2>3, <4>2
           DEF IngestStep, IngestReads, IngestLoads, IngestFinds,
           IngestRejected, IngestFlushes, IngestCommits, IngestFails
      <4>3. QED
        BY <4>1, <4>2
    <3>2. \A s \in Stores, t \in Logged :
            Old(s, t, graph'[s].node[t]) /\ Old(s, t, durable'[s].node[t])
      BY <1>1, <2>1, <3>1
    <3>3. QED
      BY <1>5, <2>1, <2>2, <3>2
  <2>4. CASE IngestWrites
    <3>0. PICK t, by, here : t = ingest.at /\ by = ingest.by /\ here = active
      OBVIOUS
    <3> DEFINE id == Attribution(t, ingest.names, ingest.fixes)
    <3>1. /\ ingest.pc = "write" /\ t \in Logged /\ by \in Owners
          /\ ingest.names \in Tables
      BY <2>4, <3>0, HistoryTypes DEF IngestWrites
    <3>2. /\ durable' = durable
          /\ \A s \in Stores, u \in Turns : graph'[s].node[u] =
               IF s = here /\ u = t THEN by ELSE graph[s].node[u]
      BY <1>1, <2>4, <3>0, <3>1 DEF IngestWrites, GraphStates
    <3>3. /\ Hop(alias, by) = Hop(alias, id) /\ (Stands(alias, id) => by = id)
      BY <3>0, <3>1 DEF WriteInv
    <3>4. <<here, t>> \notin stray' =>
            by = Rightful(t) \/ <<ingest.names, ingest.fixes>> = <<alias, fixed>>
      BY <2>4, <3>0 DEF IngestWrites
    <3>5. <<ingest.names, ingest.fixes>> = <<alias, fixed>> => by = Rightful(t)
      BY <1>2, <3>1, <3>3 DEF Rightful
    <3>6. fixed[t] = "none" => Hop(alias, by) = Rightful(t)
      <4>1. SUFFICES ASSUME fixed[t] = "none" PROVE Hop(alias, by) = Rightful(t)
        OBVIOUS
      <4>2. ingest.fixes[t] = "none"
        BY <1>1, <3>1, <4>1 DEF TablesInv
      <4>3. id = Follow(ingest.names, chatlog[t].by) /\ chatlog[t].by \in Owners
        BY <3>1, <4>2, LogTypes DEF Attribution
      <4>4. Hop(alias, id) = Hop(alias, chatlog[t].by)
        BY <3>1, <4>3, FollowFaithful DEF TablesInv
      <4>5. Rightful(t) = Hop(alias, chatlog[t].by)
        BY <3>1, <4>1, RightfulIs DEF Base
      <4>6. QED
        BY <3>3, <4>4, <4>5
    <3>7. Logged' = Logged /\ \A u : Rightful(u)' = Rightful(u)
      BY <2>2, NamesHold
    <3>8. OwnerOK(here, t, by)'
      <4>1. <<here, t>> \notin stray' => Hop(alias, by) = Rightful(t)
        BY <1>2, <3>1, <3>4, <3>5 DEF Stands
      <4>2. QED
        BY <2>2, <3>6, <3>7, <4>1 DEF OwnerOK
    <3>9. \A x : \A s \in Stores, u \in Logged :
            OwnerOK(s, u, x) => OwnerOK(s, u, x)'
      BY <2>1, <2>2, <3>7 DEF OwnerOK
    <3>10. QED
      BY <1>1, <3>2, <3>7, <3>8, <3>9 DEF NodesInv
  <2>5. QED
    BY <2>3, <2>4
<1>17. ASSUME NEW s \in Stores, NEW g \in {graph[s], durable[s]}, NEW n,
              Activated(s, g, n), UNCHANGED <<alias, fixed, chatlog, change>>
       PROVE  NodesInv'
  <2>1. PICK ids \in SUBSET Replayable(g) :
          /\ graph' = [graph EXCEPT ![s] = Replay(g, ids)]
          /\ durable' = [durable EXCEPT ![s] = Replay(g, ids)]
          /\ stray' = (stray \ PutRight(s, g, ids)) \union LeftBehind(s, g, ids)
    BY <1>17 DEF Activated
  <2>2. Logged' = Logged /\ \A t : Rightful(t)' = Rightful(t)
    BY <1>17, NamesHold
  <2>3. g \in GraphStates /\ g.tomb \in Tables /\ Faithful(g.tomb, alias)
    BY <1>1, <1>17 DEF TablesInv
  <2> DEFINE new(t) == Replay(g, ids).node[t]
  <2>4. ASSUME NEW t \in Logged, NEW id \in Owners, id = new(t)
        PROVE  g.node[t] \in Owners /\ Hop(alias, id) = Hop(alias, g.node[t])
    <3>1. new(t) = IF g.node[t] \in ids
                   THEN Follow(g.tomb, Follow(alias, g.node[t])) ELSE g.node[t]
      BY <1>1, <2>3, NodesReplayed
    <3>2. CASE g.node[t] \in ids
      <4>1. g.node[t] \in Owners
        BY <2>3, <3>2 DEF Replayable, GraphStates
      <4>2. /\ Follow(alias, g.node[t]) = Hop(alias, g.node[t])
            /\ Hop(alias, g.node[t]) \in Owners
            /\ Hop(alias, Hop(alias, g.node[t])) = Hop(alias, g.node[t])
        BY <1>1, <4>1, Heirs DEF Stands
      <4>3. QED
        BY <2>3, <2>4, <3>1, <3>2, <4>1, <4>2, FollowFaithful
    <3>3. CASE g.node[t] \notin ids
      BY <2>4, <3>1, <3>3
    <3>4. QED
      BY <3>2, <3>3
  <2>5. \A r \in Stores, t \in Turns :
          r # s => (<<r, t>> \in stray' <=> <<r, t>> \in stray)
    BY <2>1 DEF PutRight, LeftBehind
  <2>6. \A t \in Turns : <<s, t>> \in stray /\ <<s, t>> \notin stray'
                         => fixed[t] = "none"
    BY <2>1 DEF PutRight
  <2>7. ASSUME NEW t \in Logged, NEW id \in Owners, id = new(t)
        PROVE  OwnerOK(s, t, id)'
    <3>1. Hop(alias, id) = Hop(alias, g.node[t]) /\ g.node[t] \in Owners
      BY <2>4, <2>7
    <3>2. OwnerOK(s, t, g.node[t])
      BY <1>17, <3>1 DEF NodesInv
    <3>3. QED
      BY <1>1, <1>17, <2>2, <2>6, <3>1, <3>2 DEF OwnerOK
  <2>8. ASSUME NEW r \in Stores, r # s, NEW t \in Logged, NEW id, OwnerOK(r, t, id)
        PROVE  OwnerOK(r, t, id)'
    BY <1>1, <1>17, <2>2, <2>5, <2>8 DEF OwnerOK
  <2>9. \A r \in Stores, t \in Logged :
          IF r = s THEN graph'[r].node[t] = new(t) /\ durable'[r].node[t] = new(t)
          ELSE graph'[r] = graph[r] /\ durable'[r] = durable[r]
    BY <1>1, <2>1
  <2> HIDE DEF new
  <2>10. ASSUME NEW r \in Stores, NEW t \in Logged, NEW id \in Owners,
                id \in {graph'[r].node[t], durable'[r].node[t]}
         PROVE  OwnerOK(r, t, id)'
    <3>1. CASE r = s
      BY <2>7, <2>9, <2>10, <3>1
    <3>2. CASE r # s
      <4>1. id \in {graph[r].node[t], durable[r].node[t]}
        BY <2>9, <2>10, <3>2
      <4>2. OwnerOK(r, t, id)
        BY <4>1 DEF NodesInv
      <4>3. QED
        BY <2>8, <3>2, <4>2
    <3>3. QED
      BY <3>1, <3>2
  <2>11. QED
    BY <2>2, <2>10 DEF NodesInv
<1>18. ASSUME NEW s \in Stores, SwitchBuilds(s) PROVE NodesInv'
  BY <1>17, <1>18 DEF SwitchBuilds
<1>19. CASE Starts
  BY <1>1, <1>17, <1>19 DEF Starts
<1>20. CASE Halt
  <2> DEFINE open == {a \in Admins : /\ change[a].pc # "idle"
                                     /\ change[a].kind = "turn"}
             lost == UNION {Holding(t) \X {t} :
                              t \in {change[a].turn : a \in open}}
  <2>1. /\ UNCHANGED <<alias, fixed, chatlog>>
        /\ graph' \in {graph, durable} /\ durable' = graph'
        /\ stray \subseteq stray' /\ lost \subseteq stray'
    BY <1>20 DEF Halt
  <2>2. Logged' = Logged /\ \A t : Rightful(t)' = Rightful(t)
    BY <2>1, NamesHold
  <2>3. ASSUME NEW s \in Stores, NEW t \in Logged, NEW id \in Owners,
               id \in {graph'[s].node[t], durable'[s].node[t]}
        PROVE  OwnerOK(s, t, id)'
    <3>1. id \in {graph[s].node[t], durable[s].node[t]}
      BY <2>1, <2>3
    <3>2. OwnerOK(s, t, id)
      BY <3>1 DEF NodesInv
    <3>3. <<s, t>> \notin stray' => ~Asked(change, t, Pcs)
      <4>1. SUFFICES ASSUME Asked(change, t, Pcs) PROVE <<s, t>> \in stray'
        OBVIOUS
      <4>2. PICK a \in Admins : /\ change[a].pc \in Pcs /\ change[a].kind = "turn"
                                /\ change[a].turn = t
        BY <4>1 DEF Asked
      <4>3. a \in open
        BY <4>2
      <4>4. Holding(t) \X {t} \subseteq lost
        BY <4>2, <4>3
      <4>5. QED
        BY <1>11, <2>1, <3>1, <4>4
    <3>4. QED
      BY <2>1, <2>2, <3>2, <3>3 DEF OwnerOK
  <2>4. QED
    BY <2>2, <2>3 DEF NodesInv
<1>21. QED
  BY <1>6, <1>7, <1>8, <1>9, <1>12, <1>13, <1>14, <1>15, <1>16, <1>18, <1>19,
     <1>20 DEF MemoryNext, ChangeStep, Forget, Merge

\* A store that was brought up to date has no record under an id that is gone
\* but those noted; of the other stores nothing changes.
LEMMA ActivatedStands ==
  ASSUME MemoryTypeOK, Shape, TablesInv,
         NEW s \in Stores, NEW g \in {graph[s], durable[s]}, NEW n,
         Activated(s, g, n)
  PROVE  /\ \A t \in Logged : <<s, t>> \notin stray' =>
              Stands(alias, graph'[s].node[t])
         /\ \A r \in Stores : r # s =>
              /\ graph'[r] = graph[r]
              /\ \A t \in Turns : <<r, t>> \in stray' <=> <<r, t>> \in stray
<1>1. /\ OneHop(alias) /\ Logged \in SUBSET Turns
      /\ graph \in [Stores -> GraphStates] /\ g \in GraphStates
      /\ g.tomb \in Tables /\ Faithful(g.tomb, alias)
  BY HistoryTypes DEF TablesInv
<1>2. PICK ids \in SUBSET Replayable(g) :
        /\ graph' = [graph EXCEPT ![s] = Replay(g, ids)]
        /\ stray' = (stray \ PutRight(s, g, ids)) \union LeftBehind(s, g, ids)
  BY DEF Activated
<1>3. ASSUME NEW t \in Logged, <<s, t>> \notin stray'
      PROVE  Stands(alias, graph'[s].node[t])
  <2>1. graph'[s].node[t] = IF g.node[t] \in ids
                            THEN Follow(g.tomb, Follow(alias, g.node[t]))
                            ELSE g.node[t]
    BY <1>1, <1>2, NodesReplayed
  <2>2. CASE g.node[t] \in ids
    <3>1. g.node[t] \in Owners
      BY <1>1, <2>2 DEF Replayable, GraphStates
    <3>2. /\ Follow(alias, g.node[t]) \in Owners
          /\ Stands(alias, Follow(alias, g.node[t]))
      BY <1>1, <3>1, Heirs
    <3>3. Follow(alias, g.node[t]) \in Voices =>
            alias[Follow(alias, g.node[t])] = "none"
      <4>1. \A v \in Voices : alias[v] # v
        BY DEF MemoryTypeOK, Gone
      <4>2. QED
        BY <1>1, <3>2, <4>1, Heirs
    <3>4. Follow(g.tomb, Follow(alias, g.node[t])) = Follow(alias, g.node[t])
      BY <1>1, <3>2, <3>3, FollowFaithful
    <3>5. QED
      BY <2>1, <2>2, <3>2, <3>4
  <2>3. CASE g.node[t] \notin ids
    <3>1. ~Gone(g.node[t])
      BY <1>1, <1>2, <1>3, <2>3 DEF LeftBehind
    <3>2. QED
      BY <2>1, <2>3, <3>1 DEF Stands, Hop, Gone
  <2>4. QED
    BY <2>2, <2>3
<1>4. ASSUME NEW r \in Stores, r # s
      PROVE  /\ graph'[r] = graph[r]
             /\ \A t \in Turns : <<r, t>> \in stray' <=> <<r, t>> \in stray
  BY <1>1, <1>2, <1>4 DEF LeftBehind, PutRight
<1>5. QED
  BY <1>3, <1>4

\* The target of a request that was not overtaken is not gone.
LEMMA TargetStands ==
  ASSUME MemoryTypeOK, Shape, TurnsInv, TablesInv, NEW a \in Admins,
         change[a].pc # "idle", ~Overtaken(change[a])
  PROVE  /\ Stands(alias, change[a].to)
         /\ \A s \in Stores : Follow(graph[s].tomb, change[a].to) = change[a].to
<1> DEFINE c == change[a]
<1>1. /\ OneHop(alias) /\ c.to \in Owners /\ RequestOK(c)
      /\ c.kind \in {"voice", "turn"}
      /\ \A s \in Stores : graph[s].tomb \in Tables
  BY HistoryTypes
<1>2. Stands(alias, c.to)
  <2>1. CASE c.kind = "voice"
    <3>1. alias[c.from] = c.to /\ c.from \in Voices /\ alias[c.from] # "none"
      BY <1>1, <2>1 DEF Overtaken, RequestOK, TablesInv
    <3>2. QED
      BY <1>1, <3>1 DEF OneHop
  <2>2. CASE c.kind = "turn"
    BY <2>2 DEF Overtaken, Gone, Stands, Hop
  <2>3. QED
    BY <1>1, <2>1, <2>2
<1>3. c.to \in Voices => alias[c.to] = "none"
  BY <1>2 DEF Stands, Hop, MemoryTypeOK, Gone
<1>4. QED
  BY <1>1, <1>2, <1>3, FollowFaithful DEF TablesInv

\* The store that is served has no record under an id that is gone.
LEMMA ServedStep ==
  ASSUME MemoryTypeOK, Shape, MemoryTypeOK', TurnsInv, TablesInv, ServedInv,
         BuildInv, WriteInv, [MemoryNext]_memoryVars
  PROVE  ServedInv'
<1>1. /\ alias \in Tables /\ OneHop(alias) /\ Logged \in SUBSET Turns
      /\ graph \in [Stores -> GraphStates]
      /\ \A g \in GraphStates : /\ g.node \in [Turns -> OwnerOrNone]
                                /\ g.tomb \in Tables
      /\ change \in [Admins -> Requests]
      /\ \A a \in Admins : /\ change[a].to \in Owners /\ RequestOK(change[a])
                           /\ change[a].kind \in {"voice", "turn"}
      /\ active \in Stores /\ marker \in Stores
      /\ building # NoBuild => building.to \in Stores
  BY HistoryTypes
<1>2. \A t \in Logged : Rightful(t) \in Owners /\ Stands(alias, Rightful(t))
  BY RightfulIs
<1> DEFINE Pcs == {"facts", "graph"}
           Node(t) == graph[active].node[t]
<1>3. \A names : Stands(names, "none")
  BY DEF Stands, Hop
\* A record that is as it was, or under an id that is there, or noted.
<1>4. ASSUME UNCHANGED <<alias, chatlog, active>>, serving' => serving,
             \A t \in Logged : <<active, t>> \notin stray' =>
               \/ Stands(alias, graph'[active].node[t])
               \/ /\ <<active, t>> \notin stray
                  /\ graph'[active].node[t] = Node(t)
                  /\ Moving(change, Node(t), Pcs) => Moving(change', Node(t), Pcs)
      PROVE  ServedInv'
  <2>1. Logged' = Logged
    BY <1>4 DEF Logged
  <2>2. QED
    BY <1>4, <2>1 DEF ServedInv
<1>5. CASE UNCHANGED memoryVars \/ TurnStarts
  <2>1. UNCHANGED <<alias, chatlog, active, serving, stray, graph, change>>
    BY <1>5 DEF memoryVars, TurnStarts
  <2>2. QED
    BY <1>4, <2>1
<1>6. ASSUME NEW answered \in BOOLEAN, TurnEnds(answered) PROVE ServedInv'
  <2>1. UNCHANGED <<alias, change, graph, active, serving>> /\ stray \subseteq stray'
    BY <1>6 DEF TurnEnds
  <2>2. /\ Len(chatlog) + 1 \in Turns \ Logged
        /\ Logged' = Logged \union {Len(chatlog) + 1}
    BY <1>6, LogGrows
  <2>3. graph[active].node[Len(chatlog) + 1] = "none"
    BY <1>1, <2>2 DEF TurnsInv
  <2>4. QED
    BY <1>3, <2>1, <2>2, <2>3 DEF ServedInv
<1>7. ASSUME NEW a \in Admins, NEW from \in Voices,
             NEW to \in profiles \union {"unknown"}, Rename(a, from, to)
      PROVE  ServedInv'
  <2>1. /\ UNCHANGED <<stray, chatlog, graph, active, serving>>
        /\ Logged' = Logged /\ change[a].pc = "idle"
    BY <1>7 DEF Rename, Logged
  <2>2. /\ change'[a].pc = "facts" /\ change'[a].kind = "voice"
        /\ change'[a].from = from
        /\ \A b \in Admins : b # a => change'[b] = change[b]
    BY <1>1, <1>7 DEF Rename, NoChange
  <2>3. Moving(change', from, Pcs)
    BY <2>2 DEF Moving
  <2>4. \A v : Moving(change, v, Pcs) => Moving(change', v, Pcs)
    BY <2>1, <2>2, StillAsked
  <2>5. ASSUME NEW t \in Logged, Stands(alias, Node(t))
        PROVE  Stands(alias', Node(t)) \/ Node(t) = from
    <3>1. Node(t) \in OwnerOrNone
      BY <1>1
    <3>2. CASE Node(t) = "none"
      BY <1>3, <3>2
    <3>3. CASE Node(t) \in Owners
      BY <1>7, <2>5, <3>3, AliasMoves
    <3>4. QED
      BY <3>1, <3>2, <3>3 DEF OwnerOrNone
  <2>6. QED
    BY <2>1, <2>3, <2>4, <2>5 DEF ServedInv
<1>8. ASSUME NEW a \in Admins, NEW t \in Turns, NEW to \in Owners,
             Correct(a, t, to)
      PROVE  ServedInv'
  <2>1. /\ UNCHANGED <<alias, stray, chatlog, graph, active, serving>>
        /\ change[a].pc = "idle"
    BY <1>8 DEF Correct
  <2>2. \A b \in Admins : b # a => change'[b] = change[b]
    BY <1>1, <1>8 DEF Correct
  <2>3. \A v : Moving(change, v, Pcs) => Moving(change', v, Pcs)
    BY <2>1, <2>2, StillAsked
  <2>4. QED
    BY <1>4, <2>1, <2>3
<1>9. ASSUME NEW a \in Admins, ChangeStep(a) PROVE ServedInv'
  <2> DEFINE c == change[a]
             g == graph[active]
             dest == Follow(g.tomb, c.to)
             moved == About(c, g.node)
  <2>1. /\ UNCHANGED <<alias, chatlog, active, serving>> /\ stray \subseteq stray'
        /\ \A b \in Admins : b # a => change'[b] = change[b]
        /\ c.pc \in {"facts", "graph", "tomb"}
    BY <1>9, RequestFrame
       DEF ChangeStep, FactsMove, GraphMoves, GraphTombs, GraphCorrects
  <2>2. ASSUME NEW v, Moving(change, v, Pcs)
        PROVE  \/ Moving(change', v, Pcs)
               \/ /\ c.pc = "graph" /\ c.kind = "voice"
                  /\ c.from = v
    <3>1. PICK b \in Admins : /\ change[b].pc \in Pcs /\ change[b].kind = "voice"
                              /\ change[b].from = v
      BY <2>2 DEF Moving
    <3>2. CASE b # a
      <4>1. change'[b] = change[b]
        BY <2>1, <3>2
      <4>2. Moving(change', v, Pcs)
        BY <3>1, <4>1 DEF Moving
      <4>3. QED
        BY <4>2
    <3>3. CASE b = a
      <4>1. c.pc = "facts" => /\ change'[a].pc = "graph"
                              /\ change'[a].kind = c.kind
                              /\ change'[a].from = c.from
        BY <1>9, <3>1, <3>3, RequestFrame
      <4>2. QED
        BY <3>1, <3>3, <4>1 DEF Moving
    <3>4. QED
      BY <3>2, <3>3
  <2>3. \/ Overtaken(c) \/ Stands(alias, dest)
    BY <1>1, <2>1, TargetStands
  <2> HIDE DEF dest
\* A step that changes no record of the store.
  <2>4. ASSUME ~(c.pc = "graph" /\ c.kind = "voice"),
               \A t \in Logged : graph'[active].node[t] = Node(t)
        PROVE  ServedInv'
    BY <1>4, <2>1, <2>2, <2>4
  <2>5. CASE FactsMove(a)
    BY <2>4, <2>5 DEF FactsMove
  <2>6. CASE GraphTombs(a)
    <3>1. c.store \in Stores /\ c.pc = "tomb"
      BY <1>1, <2>6 DEF GraphTombs, RequestOK
    <3>2. Tombstoned(graph[c.store], c.from, c.to).node = graph[c.store].node
      BY <1>1, <3>1 DEF Tombstoned, GraphStates
    <3>3. graph'[active].node = g.node
      BY <1>1, <2>6, <3>1, <3>2 DEF GraphTombs
    <3>4. QED
      BY <2>4, <3>1, <3>3
  <2>7. CASE GraphMoves(a)
    <3>1. /\ c.pc = "graph" /\ c.kind = "voice"
          /\ \/ /\ graph' = [graph EXCEPT ![active] =
                               Rewritten(g, c.from, dest)]
                /\ Overtaken(c) => At(active, moved) \subseteq stray'
             \/ graph' = graph /\ At(active, moved) \subseteq stray'
      BY <2>7 DEF GraphMoves, dest
    <3>2. \A t \in Turns : Rewritten(g, c.from, dest).node[t] =
            IF t \in moved THEN dest ELSE Node(t)
      BY <1>1, <3>1 DEF Rewritten, GraphStates, About
    <3>3. ASSUME NEW t \in Logged, <<active, t>> \notin stray'
          PROVE  \/ Stands(alias, graph'[active].node[t])
                 \/ /\ <<active, t>> \notin stray
                    /\ graph'[active].node[t] = Node(t)
                    /\ Moving(change, Node(t), Pcs) =>
                         Moving(change', Node(t), Pcs)
      <4>1. CASE t \in moved
        <5>1. ~(At(active, moved) \subseteq stray')
          BY <3>3, <4>1 DEF At
        <5>2. graph'[active].node[t] = dest /\ ~Overtaken(c)
          BY <1>1, <3>1, <3>2, <4>1, <5>1
        <5>3. QED
          BY <2>3, <5>2
      <4>2. CASE t \notin moved
        <5>1. graph'[active].node[t] = Node(t)
          BY <1>1, <3>1, <3>2, <4>2
        <5>2. c.from # Node(t)
          BY <1>1, <3>1, <4>2 DEF About
        <5>3. QED
          BY <2>1, <2>2, <3>3, <5>1, <5>2
      <4>3. QED
        BY <4>1, <4>2
    <3>4. QED
      BY <1>4, <2>1, <3>3
  <2>8. CASE GraphCorrects(a)
    <3> DEFINE now == [g EXCEPT !.users = @ \union {dest},
                                !.node = [t \in Turns |->
                                            IF t \in moved THEN dest ELSE @[t]]]
    <3>1. /\ c.pc = "graph" /\ c.kind = "turn"
          /\ \/ /\ graph' = [graph EXCEPT ![active] = now]
                /\ Overtaken(c) => At(active, moved) \subseteq stray'
             \/ graph' = graph
      BY <2>8 DEF GraphCorrects, dest
    <3>2. \A t \in Turns : now.node[t] = IF t \in moved THEN dest ELSE Node(t)
      BY <1>1 DEF GraphStates
    <3> HIDE DEF now
    <3>3. ASSUME NEW t \in Logged, <<active, t>> \notin stray'
          PROVE  \/ Stands(alias, graph'[active].node[t])
                 \/ graph'[active].node[t] = Node(t)
      <4>1. t \in moved /\ Overtaken(c) => ~(At(active, moved) \subseteq stray')
        BY <3>3 DEF At
      <4>2. QED
        BY <1>1, <2>3, <3>1, <3>2, <4>1
    <3>4. QED
      BY <1>4, <2>1, <2>2, <3>1, <3>3
  <2>9. QED
    BY <1>9, <2>5, <2>6, <2>7, <2>8 DEF ChangeStep
<1>10. CASE IngestStep
  <2>1. IngesterOnly /\ stray \subseteq stray'
    BY <1>10 DEF IngestStep, IngestReads, IngestLoads, IngestFinds,
       IngestResolves, IngestWrites, IngestRejected, IngestFlushes,
       IngestCommits, IngestFails
  <2>2. UNCHANGED <<alias, fixed, chatlog, active, serving, change>>
    BY <2>1 DEF IngesterOnly
  <2>3. CASE ~IngestWrites
    <3>1. graph'[active].node = graph[active].node
      <4>1. CASE IngestResolves
        BY <1>1, <4>1 DEF IngestResolves, GraphStates
      <4>2. CASE ~IngestResolves
        BY <1>10, <2>3, <4>2
           DEF IngestStep, IngestReads, IngestLoads, IngestFinds,
           IngestRejected, IngestFlushes, IngestCommits, IngestFails
      <4>3. QED
        BY <4>1, <4>2
    <3>2. QED
      BY <1>4, <2>1, <2>2, <3>1
  <2>4. CASE IngestWrites
    <3> DEFINE n == ingest.at
               id == Attribution(n, ingest.names, ingest.fixes)
    <3>1. ingest.pc = "write" /\ n \in Logged /\ ingest.by \in Owners
      BY <2>4, HistoryTypes DEF IngestWrites
    <3>2. \A u \in Turns : graph'[active].node[u] =
            IF u = n THEN ingest.by ELSE Node(u)
      BY <1>1, <2>4, <3>1 DEF IngestWrites, GraphStates
    <3>3. Stands(alias, id) => ingest.by = id
      BY <3>1 DEF WriteInv
    <3>4. <<active, n>> \notin stray' =>
            ingest.by = Rightful(n)
              \/ <<ingest.names, ingest.fixes>> = <<alias, fixed>>
      BY <2>4 DEF IngestWrites
    <3>5. <<ingest.names, ingest.fixes>> = <<alias, fixed>>
            => ingest.by = Rightful(n)
      BY <1>2, <3>1, <3>3 DEF Rightful
    <3>6. <<active, n>> \notin stray' => Stands(alias, ingest.by)
      BY <1>2, <3>1, <3>4, <3>5
    <3>7. QED
      BY <1>1, <1>4, <2>1, <2>2, <3>2, <3>6
  <2>5. QED
    BY <2>3, <2>4
<1>11. ASSUME NEW s \in Stores, SwitchBuilds(s) PROVE ServedInv'
  <2>1. s # active /\ UNCHANGED <<alias, chatlog, active, serving, change>>
    BY <1>11 DEF SwitchBuilds
  <2>2. PICK g \in {graph[s], durable[s]} : Activated(s, g, 1)
    BY <1>11 DEF SwitchBuilds
  <2>3. /\ graph'[active] = graph[active]
        /\ \A t \in Turns : <<active, t>> \in stray' <=> <<active, t>> \in stray
    BY <1>1, <2>1, <2>2, ActivatedStands
  <2>4. QED
    BY <1>1, <1>4, <2>1, <2>3
<1>12. CASE SwitchSwaps
  <2>1. /\ building # NoBuild /\ active' = building.to
        /\ UNCHANGED <<alias, chatlog, graph, serving>>
        /\ stray' = stray \union
             (IF building.names = alias THEN {}
              ELSE LeftBehind(building.to, graph[building.to], {}))
    BY <1>12 DEF SwitchSwaps
  <2>2. Logged' = Logged
    BY <2>1 DEF Logged
  <2>3. ASSUME NEW t \in Logged, <<building.to, t>> \notin stray'
        PROVE  Stands(alias, graph[building.to].node[t])
    <3>1. CASE building.names = alias
      BY <2>1, <2>3, <3>1 DEF BuildInv
    <3>2. CASE building.names # alias
      <4>1. ~Gone(graph[building.to].node[t])
        BY <1>1, <2>1, <2>3, <3>2 DEF LeftBehind
      <4>2. QED
        BY <4>1 DEF Gone, Stands, Hop
    <3>3. QED
      BY <3>1, <3>2
  <2>4. QED
    BY <2>1, <2>2, <2>3 DEF ServedInv
<1>13. CASE Halt
  BY <1>13 DEF Halt, ServedInv
<1>14. CASE Starts
  <2>1. /\ UNCHANGED <<alias, chatlog>> /\ active' = marker
        /\ Activated(marker, graph[marker], 0)
    BY <1>14 DEF Starts
  <2>2. \A t \in Logged : <<marker, t>> \notin stray' =>
          Stands(alias, graph'[marker].node[t])
    BY <1>1, <2>1, ActivatedStands
  <2>3. Logged' = Logged
    BY <2>1 DEF Logged
  <2>4. QED
    BY <2>1, <2>2, <2>3 DEF ServedInv
<1>15. QED
  BY <1>5, <1>6, <1>7, <1>8, <1>9, <1>10, <1>11, <1>12, <1>13, <1>14
     DEF MemoryNext, Forget, Merge

\* Nor has the store a switch is building, but for ids gone since.
LEMMA BuildStep ==
  ASSUME MemoryTypeOK, Shape, MemoryTypeOK', TurnsInv, TablesInv, BuildInv,
         [MemoryNext]_memoryVars
  PROVE  BuildInv'
<1>1. /\ Logged \in SUBSET Turns /\ graph \in [Stores -> GraphStates]
      /\ \A a \in Admins : RequestOK(change[a])
      /\ active \in Stores
      /\ building # NoBuild => building.to \in Stores
  BY HistoryTypes
<1>2. CASE building' = NoBuild
  BY <1>2 DEF BuildInv
\* What leaves the store that is being built alone.
<1>3. ASSUME UNCHANGED <<alias, chatlog, building, active, serving>>,
             building # NoBuild => \A t \in Turns :
               /\ <<building.to, t>> \in stray => <<building.to, t>> \in stray'
               /\ graph'[building.to].node[t] = graph[building.to].node[t]
      PROVE  BuildInv'
  <2>1. Logged' = Logged
    BY <1>3 DEF Logged
  <2>2. QED
    BY <1>1, <1>3, <2>1 DEF BuildInv
<1>4. CASE UNCHANGED memoryVars \/ TurnStarts
  <2>1. UNCHANGED <<alias, chatlog, building, active, serving, stray, graph>>
    BY <1>4 DEF memoryVars, TurnStarts
  <2>2. QED
    BY <1>3, <2>1
<1>5. ASSUME NEW answered \in BOOLEAN, TurnEnds(answered) PROVE BuildInv'
  <2>1. UNCHANGED <<alias, building, graph, active, serving>>
        /\ stray \subseteq stray'
    BY <1>5 DEF TurnEnds
  <2>2. /\ Len(chatlog) + 1 \in Turns \ Logged
        /\ Logged' = Logged \union {Len(chatlog) + 1}
    BY <1>5, LogGrows
  <2>3. building # NoBuild =>
          Stands(alias, graph[building.to].node[Len(chatlog) + 1])
    BY <1>1, <2>2 DEF TurnsInv, Stands, Hop
  <2>4. QED
    BY <2>1, <2>2, <2>3 DEF BuildInv
<1>6. ASSUME NEW a \in Admins, NEW from \in Voices,
             NEW to \in profiles \union {"unknown"}, Rename(a, from, to)
      PROVE  BuildInv'
  <2>1. UNCHANGED <<building, active, serving>>
    BY <1>6 DEF Rename
  <2>2. building.names # alias'
    BY <1>6, AliasMoves DEF TablesInv, Faithful
  <2>3. QED
    BY <2>1, <2>2 DEF BuildInv
<1>7. ASSUME NEW a \in Admins, NEW t \in Turns, NEW to \in Owners,
             Correct(a, t, to)
      PROVE  BuildInv'
  BY <1>3, <1>7 DEF Correct
<1>8. ASSUME NEW a \in Admins, ChangeStep(a) PROVE BuildInv'
  <2>1. /\ UNCHANGED <<alias, chatlog, building, active, serving>>
        /\ stray \subseteq stray'
    BY <1>8 DEF ChangeStep, FactsMove, GraphMoves, GraphTombs, GraphCorrects
  <2>2. CASE FactsMove(a)
    BY <1>3, <2>1, <2>2 DEF FactsMove
  <2>3. CASE GraphMoves(a) \/ GraphCorrects(a)
    <3>1. \A s \in Stores : s # active => graph'[s] = graph[s]
      BY <1>1, <2>3 DEF GraphMoves, GraphCorrects
    <3>2. QED
      BY <1>1, <1>3, <2>1, <3>1 DEF BuildInv
  <2>4. CASE GraphTombs(a)
    <3>1. change[a].store \in Stores
      BY <1>1, <2>4 DEF GraphTombs, RequestOK
    <3>2. Tombstoned(graph[change[a].store], change[a].from, change[a].to).node
            = graph[change[a].store].node
      BY <1>1, <3>1 DEF Tombstoned, GraphStates
    <3>3. \A s \in Stores : graph'[s].node = graph[s].node
      BY <1>1, <2>4, <3>1, <3>2 DEF GraphTombs
    <3>4. QED
      BY <1>1, <1>3, <2>1, <3>3
  <2>5. QED
    BY <1>8, <2>2, <2>3, <2>4 DEF ChangeStep
<1>9. CASE IngestStep
  <2>1. IngesterOnly /\ stray \subseteq stray'
    BY <1>9 DEF IngestStep, IngestReads, IngestLoads, IngestFinds,
       IngestResolves, IngestWrites, IngestRejected, IngestFlushes,
       IngestCommits, IngestFails
  <2>2. \A s \in Stores : s # active => graph'[s] = graph[s]
    BY <1>1, <1>9 DEF IngestStep, IngestReads, IngestLoads, IngestFinds,
       IngestResolves, IngestWrites, IngestRejected, IngestFlushes,
       IngestCommits, IngestFails
  <2>3. QED
    BY <1>1, <1>3, <2>1, <2>2 DEF IngesterOnly, BuildInv
<1>10. ASSUME NEW s \in Stores, SwitchBuilds(s) PROVE BuildInv'
  <2>1. /\ s # active /\ serving /\ UNCHANGED <<alias, chatlog, active, serving>>
        /\ building' = [to |-> s, names |-> alias]
    BY <1>10 DEF SwitchBuilds
  <2>2. PICK g \in {graph[s], durable[s]} : Activated(s, g, 1)
    BY <1>10 DEF SwitchBuilds
  <2>3. \A t \in Logged : <<s, t>> \notin stray' =>
          Stands(alias, graph'[s].node[t])
    BY <2>2, ActivatedStands
  <2>4. Logged' = Logged
    BY <2>1 DEF Logged
  <2>5. QED
    BY <2>1, <2>3, <2>4 DEF BuildInv
<1>11. CASE SwitchSwaps \/ Halt
  BY <1>2, <1>11 DEF SwitchSwaps, Halt
<1>12. CASE Starts
  BY <1>2, <1>12 DEF Starts, BuildInv
<1>13. QED
  BY <1>4, <1>5, <1>6, <1>7, <1>8, <1>9, <1>10, <1>11, <1>12
     DEF MemoryNext, Forget, Merge

\* What the ingester is about to write is what its tables said.
LEMMA WriteStep ==
  ASSUME MemoryTypeOK, Shape, MemoryTypeOK', TurnsInv, TablesInv, WriteInv,
         [MemoryNext]_memoryVars
  PROVE  WriteInv'
<1> DEFINE id == Attribution(ingest.at, ingest.names, ingest.fixes)
<1>1. /\ Logged \in SUBSET Turns /\ ingest \in Runs /\ active \in Stores
      /\ OneHop(alias) /\ ingest.names \in Tables
      /\ \A s \in Stores : graph[s].tomb \in Tables
      /\ \A t \in Logged : chatlog[t].by \in Owners
      /\ NoIngest.pc = "idle"
  BY HistoryTypes, LogTypes, IdleTypes
<1>2. ASSUME ingest.at \in Logged PROVE id \in Owners
  <2>1. ingest.fixes[ingest.at] \in OwnerOrNone /\ chatlog[ingest.at].by \in Owners
    BY <1>1, <1>2 DEF Runs, Corrections
  <2>2. QED
    BY <1>1, <2>1, FollowType DEF Attribution, OwnerOrNone
<1>3. ingest.pc = "write" => ingest.at \in Logged /\ ingest.by \in Owners
  BY HistoryTypes
<1>4. CASE ingest'.pc # "write"
  BY <1>4 DEF WriteInv
<1>5. ASSUME UNCHANGED <<alias, ingest>>,
             \A t \in Logged : chatlog'[t] = chatlog[t]
      PROVE  WriteInv'
  BY <1>3, <1>5 DEF WriteInv, Attribution
<1>6. CASE UNCHANGED memoryVars \/ TurnStarts
           \/ \E a \in Admins, t \in Turns, to \in Owners : Correct(a, t, to)
  BY <1>5, <1>6 DEF memoryVars, TurnStarts, Correct
<1>7. ASSUME NEW answered \in BOOLEAN, TurnEnds(answered) PROVE WriteInv'
  <2>1. UNCHANGED <<alias, ingest>>
    BY <1>7 DEF TurnEnds
  <2>2. QED
    BY <1>5, <1>7, <2>1, LogGrows
<1>8. ASSUME NEW a \in Admins, NEW from \in Voices,
             NEW to \in profiles \union {"unknown"}, Rename(a, from, to)
      PROVE  WriteInv'
  <2>1. UNCHANGED <<chatlog, ingest>>
    BY <1>8 DEF Rename
  <2>2. CASE ingest.pc = "write"
    <3>0. PICK x, y : x = id /\ y = ingest.by
      OBVIOUS
    <3>1. x \in Owners /\ y \in Owners
      BY <1>2, <1>3, <2>2, <3>0
    <3>2. Hop(alias, y) = Hop(alias, x) /\ (Stands(alias, x) => y = x)
      BY <2>2, <3>0 DEF WriteInv
    <3>3. Hop(alias', y) = Hop(alias', x) /\ (Stands(alias', x) => y = x)
      BY <1>8, <3>1, <3>2, AliasMoves
    <3>4. QED
      BY <2>1, <3>0, <3>3 DEF WriteInv, Attribution
  <2>3. QED
    BY <1>4, <2>1, <2>2
<1>9. ASSUME NEW a \in Admins, ChangeStep(a) PROVE WriteInv'
  BY <1>5, <1>9, RequestFrame
<1>10. CASE IngestStep
  <2>1. CASE IngestResolves
    <3> DEFINE by == Follow(graph[active].tomb, id)
    <3>1. /\ ingest'.names = ingest.names /\ ingest'.fixes = ingest.fixes
          /\ ingest'.at = ingest.at /\ ingest'.by = by
          /\ UNCHANGED <<alias, chatlog>>
      BY <1>1, <2>1 DEF IngestResolves, Runs, IngesterOnly
    <3>2. ingest.at \in Logged
      BY <1>1, <2>1, LogTypes DEF IngestResolves, Item, Runs, Shape, RunOK, Logged
    <3>3. id \in Owners
      BY <1>2, <3>2
    <3> HIDE DEF id
    <3>4. /\ Hop(alias, by) = Hop(alias, id)
          /\ (id \in Voices /\ alias[id] # "none") \/ by = id
      BY <1>1, <3>3, FollowFaithful DEF TablesInv
    <3>5. Stands(alias, id) => by = id
      BY <3>4 DEF Stands, Hop, MemoryTypeOK, Gone
    <3> HIDE DEF by
    <3>6. QED
      BY <3>1, <3>4, <3>5 DEF WriteInv, Attribution, id
  <2>2. CASE ~IngestResolves
    <3>1. ingest'.pc # "write"
      BY <1>1, <1>10, <2>2 DEF IngestStep, IngestReads, IngestLoads, IngestFinds,
         IngestWrites, IngestRejected, IngestFlushes, IngestCommits,
         IngestFails, Item, Runs, NoIngest
    <3>2. QED
      BY <1>4, <3>1
  <2>3. QED
    BY <2>1, <2>2
<1>11. CASE (\E s \in Stores : SwitchBuilds(s)) \/ Starts
  BY <1>5, <1>11 DEF SwitchBuilds, Starts
<1>12. CASE SwitchSwaps \/ Halt
  BY <1>1, <1>4, <1>12 DEF SwitchSwaps, Halt
<1>13. QED
  BY <1>6, <1>7, <1>8, <1>9, <1>10, <1>11, <1>12 DEF MemoryNext, Forget, Merge

\* At the start there is no history.
LEMMA HistoryInit == MemoryInit => HistoryInv
<1> SUFFICES ASSUME MemoryInit PROVE HistoryInv
  OBVIOUS
<1>1. Logged = {} /\ chatlog = << >>
  BY DEF MemoryInit, Logged
<1>2. /\ NoIngest.names = Unnamed /\ NoIngest.fixes = Unfixed
      /\ NoIngest.pc = "idle" /\ NoBuild.names = Unnamed
      /\ NewGraph.tomb = Unnamed /\ NoChange.pc = "idle"
      /\ \A t \in Turns : Unfixed[t] = "none"
      /\ Faithful(Unnamed, alias)
  BY FaithfulTables DEF NoIngest, NoBuild, NewGraph, NoChange, Unfixed, Unnamed
<1>3. TablesInv
  BY <1>2 DEF MemoryInit, TablesInv
<1>4. FactsInv /\ NodesInv /\ ServedInv /\ BuildInv /\ WriteInv
  BY <1>1, <1>2 DEF MemoryInit, FactsInv, NodesInv, ServedInv, BuildInv, WriteInv
<1>5. QED
  BY <1>3, <1>4 DEF HistoryInv

\* Where every table, request, fact and record leads is where its turn's
\* speaker went, or it is noted as left behind.
THEOREM HistoryInvariance == MemorySpec => []HistoryIInv
<1>1. MemoryInit => HistoryIInv
  BY InitTypes, InitKept, TurnsInit, HistoryInit DEF HistoryIInv
<1>2. HistoryIInv /\ [MemoryNext]_memoryVars => HistoryIInv'
  <2> SUFFICES ASSUME HistoryIInv, [MemoryNext]_memoryVars PROVE HistoryIInv'
    OBVIOUS
  <2>1. MemoryTypeOK /\ Shape /\ Kept /\ TurnsInv /\ HistoryInv
    BY DEF HistoryIInv
  <2>2. MemoryTypeOK' /\ Shape' /\ Kept' /\ TurnsInv'
    BY <2>1, StepTypes, StepKept, TurnsStep
  <2>3. HistoryInv'
    BY <2>1, <2>2, TablesStep, FactsStep, NodesStep, ServedStep, BuildStep,
       WriteStep DEF HistoryInv
  <2>4. QED
    BY <2>2, <2>3 DEF HistoryIInv
<1>3. QED
  BY <1>1, <1>2, PTL DEF MemorySpec

\* When nothing is under way, facts and the active store agree with the log
\* read through corrections and aliases, but for what a race or a failure is
\* noted to have left behind (speaker/mod.rs merge and delete,
\* graphrag_control.rs apply_speaker_aliases).
THEOREM HistoryAlwaysFollows == MemorySpec => []HistoryFollowsItsPeople
<1>1. HistoryIInv => HistoryFollowsItsPeople
  <2> SUFFICES ASSUME HistoryIInv, Calm, NEW t \in Logged
               PROVE  /\ <<"facts", t>> \notin stray => facts[t] = Rightful(t)
                      /\ <<active, t>> \notin stray =>
                           graph[active].node[t] \in {"none", Rightful(t)}
    BY DEF HistoryFollowsItsPeople
  <2>1. /\ ~Asked(change, t, {"facts"}) /\ ~Asked(change, t, {"facts", "graph"})
        /\ \A v : /\ ~Moving(change, v, {"facts"})
                  /\ ~Moving(change, v, {"facts", "graph"})
    BY DEF Calm, Asked, Moving
  <2>2. /\ FactsInv /\ NodesInv /\ ServedInv /\ serving /\ active \in Stores
        /\ graph[active].node[t] \in Owners \union {"none"}
    BY HistoryTypes DEF HistoryIInv, HistoryInv, Calm, OwnerOrNone
  <2>3. <<"facts", t>> \notin stray => facts[t] = Rightful(t)
    BY <2>1, <2>2 DEF FactsInv, Stands
  <2>4. ASSUME <<active, t>> \notin stray, graph[active].node[t] \in Owners
        PROVE  graph[active].node[t] = Rightful(t)
    <3>1. OwnerOK(active, t, graph[active].node[t])
      BY <2>2, <2>4 DEF NodesInv
    <3>2. Stands(alias, graph[active].node[t])
      BY <2>1, <2>2, <2>4 DEF ServedInv
    <3>3. QED
      BY <2>1, <2>4, <3>1, <3>2 DEF OwnerOK, Stands
  <2>5. QED
    BY <2>2, <2>3, <2>4
<1>2. QED
  BY <1>1, HistoryInvariance, PTL

-----------------------------------------------------------------------------
(* The enrollment.                                                         *)

\* What a control request and a turn can be.
ControlTypes == [kind : {"finish"}, session : Sessions, id : 1 .. saves]
              \cup [kind : {"cancel"}, session : Sessions, id : {0}]

TakeTypes == [session : Sessions, phase : {"sample", "verify"},
              at : {"core", "answered", "gone"}, count : Nat \cup {NoCount}]

EnrollTypeOK ==
  /\ stage \in Stages /\ session \in 0 .. MaxScreens
  /\ stage # "away" => session # 0
  /\ accepted \in Nat /\ committed \in BOOLEAN
  /\ awaited \in 0 .. saves /\ reply \in {"none", "ok", "failed"}
  /\ offer \in [session : 0 .. MaxScreens, phase : {"sample", "verify"}]
  /\ takes \in [DOMAIN takes -> TakeTypes]
  /\ \E n \in 0 .. MaxTakes : DOMAIN takes = 1 .. n
  /\ samples \in [Sessions -> SUBSET DOMAIN takes]
  /\ controls \subseteq ControlTypes /\ saves \in Nat
  /\ folded \in [Takes -> Nat] /\ disturbed \in BOOLEAN
  /\ late \subseteq Sessions /\ ended \subseteq Sessions

\* What is said to the Core is said for the screen that is up.
OfferInv == offer.session # 0 => offer.session = session /\ stage # "away"

\* The turns spoken so far go on: none goes back to the Core.
TakesGoOn ==
  /\ DOMAIN takes' = DOMAIN takes
  /\ takes' \in [DOMAIN takes -> TakeTypes]
  /\ \A t \in DOMAIN takes :
       /\ takes'[t].session = takes[t].session
       /\ takes'[t].phase = takes[t].phase
       /\ takes[t].at # "core" => takes'[t].at # "core"

\* One more is spoken.
Spoken(n) ==
  /\ n \in 0 .. MaxTakes /\ n < MaxTakes
  /\ DOMAIN takes = 1 .. n /\ DOMAIN takes' = 1 .. n + 1
  /\ takes' \in [DOMAIN takes' -> TakeTypes]
  /\ \A t \in 1 .. n : takes'[t] = takes[t]
  /\ takes'[n + 1] = [session |-> offer.session, phase |-> offer.phase,
                      at |-> "core", count |-> NoCount]
  /\ offer.session # 0

\* The samples of a session can be counted.
LEMMA SampleCounts ==
  ASSUME EnrollTypeOK, NEW s \in Sessions
  PROVE  IsFiniteSet(samples[s]) /\ Cardinality(samples[s]) \in Nat
<1>1. PICK n \in 0 .. MaxTakes : DOMAIN takes = 1 .. n
  BY DEF EnrollTypeOK
<1>2. IsFiniteSet(1 .. n)
  BY FS_Interval
<1>3. samples[s] \subseteq 1 .. n
  BY <1>1 DEF EnrollTypeOK
<1> QED
  BY <1>2, <1>3, FS_Subset, FS_CardinalityType

LEMMA SpeakSpoken ==
  ASSUME EnrollTypeOK, Speak
  PROVE  \E n \in 0 .. MaxTakes : Spoken(n)
<1>1. PICK n \in 0 .. MaxTakes : DOMAIN takes = 1 .. n
  BY DEF EnrollTypeOK
<1>2. Cardinality(DOMAIN takes) = n
  BY <1>1, FS_Interval, EnrollmentAssumption
<1>3. n < MaxTakes /\ offer.session # 0 /\ heard' = n + 1
  BY <1>2 DEF Speak
<1> DEFINE new == [session |-> offer.session, phase |-> offer.phase,
                   at |-> "core", count |-> NoCount]
<1>4. takes' = [t \in 1 .. n + 1 |-> IF t = n + 1 THEN new ELSE takes[t]]
  BY <1>3 DEF Speak
<1>5. new \in TakeTypes
  BY <1>3 DEF EnrollTypeOK, TakeTypes, Sessions
<1>6. \A t \in 1 .. n + 1 : t # n + 1 => t \in 1 .. n
  OBVIOUS
<1> HIDE DEF new
<1>7. /\ DOMAIN takes' = 1 .. n + 1 /\ takes'[n + 1] = new
      /\ \A t \in 1 .. n : takes'[t] = takes[t]
  BY <1>4
<1>8. takes' \in [1 .. n + 1 -> TakeTypes]
  BY <1>1, <1>4, <1>5, <1>6 DEF EnrollTypeOK
<1>9. Spoken(n)
  BY <1>1, <1>3, <1>7, <1>8 DEF Spoken, new
<1> QED
  BY <1>9

\* An answer, or a turn let go, moves that one turn on.
LEMMA TakesMove ==
  ASSUME EnrollTypeOK, NEW t \in DOMAIN takes,
         NEW n \in Nat \cup {NoCount},
         Answered(t, n) \/ LetGo(t)
  PROVE  TakesGoOn
<1>1. takes[t] \in TakeTypes /\ takes \in [DOMAIN takes -> TakeTypes]
  BY DEF EnrollTypeOK
<1>2. CASE Answered(t, n)
  <2>1. PICK a \in {"answered", "gone"} :
          takes' = [takes EXCEPT ![t] = [takes[t] EXCEPT !.at = a,
                                                        !.count = n]]
    BY <1>2 DEF Answered
  <2>2. [takes[t] EXCEPT !.at = a, !.count = n] \in TakeTypes
    BY <1>1 DEF TakeTypes
  <2> QED
    BY <1>1, <2>1, <2>2 DEF TakesGoOn, TakeTypes
<1>3. CASE LetGo(t)
  <2>1. takes' = [takes EXCEPT ![t] = [takes[t] EXCEPT !.at = "gone"]]
    BY <1>3 DEF LetGo
  <2>2. [takes[t] EXCEPT !.at = "gone"] \in TakeTypes
    BY <1>1 DEF TakeTypes
  <2> QED
    BY <1>1, <2>1, <2>2 DEF TakesGoOn, TakeTypes
<1> QED
  BY <1>2, <1>3

LEMMA TakesStep ==
  ASSUME EnrollTypeOK, [EnrollNext]_enrollVars
  PROVE  TakesGoOn \/ \E n \in 0 .. MaxTakes : Spoken(n)
<1>1. CASE UNCHANGED takes
  BY <1>1 DEF EnrollTypeOK, TakesGoOn
<1>2. CASE Speak
  BY <1>2, SpeakSpoken
<1>3. ASSUME NEW t \in DOMAIN takes, CoreTakesSample(t) PROVE TakesGoOn
  <2>1. takes[t].session \in Sessions
    BY DEF EnrollTypeOK, TakeTypes
  <2>2. CASE /\ samples' = [samples EXCEPT ![takes[t].session] = @ \cup {t}]
             /\ Answered(t, Cardinality(samples'[takes[t].session]))
    <3>1. samples'[takes[t].session] = samples[takes[t].session] \cup {t}
      BY <2>1, <2>2 DEF EnrollTypeOK
    <3>2. Cardinality(samples'[takes[t].session]) \in Nat
      BY <2>1, <3>1, SampleCounts, FS_AddElement, FS_CardinalityType
    <3> QED
      BY <2>2, <3>2, TakesMove
  <2>3. CASE \E n \in {Cardinality(samples[takes[t].session]), NoCount} :
               Answered(t, n)
    BY <2>1, <2>3, SampleCounts, TakesMove
  <2> QED
    BY <1>3, <2>2, <2>3 DEF CoreTakesSample
<1>4. ASSUME NEW t \in DOMAIN takes,
             CoreVerifies(t) \/ TurnFails(t) \/ ResultHeard(t)
      PROVE  TakesGoOn
  BY <1>4, TakesMove DEF CoreVerifies, TurnFails, ResultHeard
<1>5. CASE CoreRestarts
  <2>1. takes' = [t \in DOMAIN takes |-> [takes[t] EXCEPT !.at = "gone"]]
    BY <1>5 DEF CoreRestarts
  <2>2. \A t \in DOMAIN takes : [takes[t] EXCEPT !.at = "gone"] \in TakeTypes
    BY DEF EnrollTypeOK, TakeTypes
  <2> QED
    BY <2>1, <2>2 DEF EnrollTypeOK, TakesGoOn, TakeTypes
<1>6. CASE OpenScreen("name") \/ OpenScreen("capturing") \/ Start \/ Leave
  BY <1>1, <1>6 DEF OpenScreen, Start, Leave, turnSide
<1>7. CASE Save \/ SaveAnswered \/ SaveFails
  BY <1>1, <1>7 DEF Save, SaveAnswered, SaveFails, turnSide
<1>8. ASSUME NEW r \in controls, CoreCommits(r) \/ CoreRefuses(r)
                                  \/ CoreCancels(r) \/ CancelLost(r)
      PROVE  UNCHANGED takes
  BY <1>8 DEF CoreCommits, CoreRefuses, CoreCancels, CancelLost, turnSide
<1>9. CASE UNCHANGED enrollVars
  BY <1>1, <1>9 DEF enrollVars, turnSide
<1> QED
  BY <1>1, <1>2, <1>3, <1>4, <1>5, <1>6, <1>7, <1>8, <1>9 DEF EnrollNext

LEMMA EnrollTypeInit == EnrollInit => EnrollTypeOK /\ OfferInv
<1> SUFFICES ASSUME EnrollInit PROVE EnrollTypeOK /\ OfferInv
  OBVIOUS
<1>1. DOMAIN takes = 1 .. 0 /\ takes \in [DOMAIN takes -> TakeTypes]
  BY DEF EnrollInit
<1>2. 0 \in 0 .. MaxTakes /\ 0 \in 0 .. MaxScreens /\ MaxCoreStops \in Nat
  BY EnrollmentAssumption
<1>3. offer \in [session : 0 .. MaxScreens, phase : {"sample", "verify"}]
      /\ offer.session = 0
  BY <1>2 DEF EnrollInit, Nobody
<1>4. /\ \E n \in 0 .. MaxTakes : DOMAIN takes = 1 .. n
      /\ samples \in [Sessions -> SUBSET DOMAIN takes]
      /\ folded \in [Takes -> Nat]
  BY <1>1, <1>2 DEF EnrollInit
<1>5. /\ stage = "away" /\ session = 0 /\ accepted = 0 /\ committed = FALSE
      /\ awaited = 0 /\ reply = "none" /\ controls = {} /\ saves = 0
      /\ disturbed = FALSE /\ late = {} /\ ended = {}
  BY DEF EnrollInit
<1>6. /\ stage \in Stages /\ session \in 0 .. MaxScreens /\ stage = "away"
      /\ accepted \in Nat /\ awaited \in 0 .. saves /\ saves \in Nat
      /\ reply \in {"none", "ok", "failed"}
  BY <1>2, <1>5 DEF Stages
<1>7. /\ committed \in BOOLEAN /\ disturbed \in BOOLEAN
      /\ controls \subseteq ControlTypes /\ late \subseteq Sessions
      /\ ended \subseteq Sessions
  BY <1>5
<1> QED
  BY <1>1, <1>3, <1>4, <1>6, <1>7 DEF EnrollTypeOK, OfferInv

LEMMA EnrollTypeStep ==
  ASSUME EnrollTypeOK, OfferInv, [EnrollNext]_enrollVars
  PROVE  EnrollTypeOK' /\ OfferInv'
<1>t. /\ takes' \in [DOMAIN takes' -> TakeTypes]
      /\ \E n \in 0 .. MaxTakes : DOMAIN takes' = 1 .. n
      /\ DOMAIN takes \subseteq DOMAIN takes'
  <2>1. CASE TakesGoOn
    BY <2>1 DEF TakesGoOn, EnrollTypeOK
  <2>2. ASSUME NEW n \in 0 .. MaxTakes, Spoken(n)
        PROVE  /\ takes' \in [DOMAIN takes' -> TakeTypes]
               /\ \E m \in 0 .. MaxTakes : DOMAIN takes' = 1 .. m
               /\ DOMAIN takes \subseteq DOMAIN takes'
    BY <2>2, EnrollmentAssumption DEF Spoken
  <2> QED
    BY <2>1, <2>2, TakesStep
<1>s. /\ samples \in [Sessions -> SUBSET DOMAIN takes']
      /\ \A s \in Sessions :
           [samples EXCEPT ![s] = {}] \in [Sessions -> SUBSET DOMAIN takes']
      /\ MaxScreens \in Nat /\ MaxTakes \in Nat
  BY <1>t, EnrollmentAssumption DEF EnrollTypeOK
<1> USE <1>t, <1>s
<1>1. ASSUME NEW first \in {"name", "capturing"}, OpenScreen(first)
      PROVE  EnrollTypeOK' /\ OfferInv'
  <2>1. session + 1 \in 0 .. MaxScreens /\ session + 1 # 0
    BY <1>1 DEF OpenScreen, EnrollTypeOK
  <2>2. offer' \in [session : 0 .. MaxScreens, phase : {"sample", "verify"}]
    BY <1>1, <2>1 DEF OpenScreen, EnrollTypeOK
  <2>3. first \in Stages /\ first # "away" /\ 0 \in 0 .. saves
    BY DEF Stages, EnrollTypeOK
  <2>4. OfferInv'
    BY <1>1, <2>3 DEF OpenScreen, OfferInv
  <2> QED
    BY <1>1, <2>1, <2>2, <2>3, <2>4
    DEF OpenScreen, EnrollTypeOK, coreSide, ControlTypes
<1>2. CASE Start
  BY <1>2
  DEF Start, EnrollTypeOK, OfferInv, Stages, Offer, coreSide, ControlTypes
<1>3. CASE Leave
  <2>1. session \in Sessions
    BY <1>3 DEF Leave, EnrollTypeOK, Sessions
  <2>2. controls' \subseteq ControlTypes
    BY <1>3, <2>1 DEF Leave, EnrollTypeOK, ControlTypes
  <2>3. /\ offer' \in [session : 0 .. MaxScreens, phase : {"sample", "verify"}]
        /\ offer'.session = 0 /\ 0 \in 0 .. saves /\ "away" \in Stages
    BY <1>3 DEF Leave, Nobody, Stages, EnrollTypeOK
  <2> QED
    BY <1>3, <2>2, <2>3
    DEF Leave, EnrollTypeOK, OfferInv, coreSide, ControlTypes
<1>4. CASE Save
  <2>1. session \in Sessions
    BY <1>4 DEF Save, EnrollTypeOK, Sessions
  <2>2. saves' = saves + 1 /\ saves \in Nat
    BY <1>4 DEF Save, EnrollTypeOK
  <2>3. controls' \subseteq ControlTypes'
    BY <1>4, <2>1, <2>2 DEF Save, EnrollTypeOK, ControlTypes
  <2> QED
    BY <1>4, <2>2, <2>3
    DEF Save, EnrollTypeOK, OfferInv, Stages, turnSide, coreSide
<1>5. CASE SaveAnswered
  BY <1>5
  DEF SaveAnswered, EnrollTypeOK, OfferInv, Stages, Offer, coreSide,
    ControlTypes
<1>6. CASE SaveFails
  <2>1. controls' \subseteq controls
    BY <1>6 DEF SaveFails
  <2> QED
    BY <1>6, <2>1
    DEF SaveFails, EnrollTypeOK, OfferInv, turnSide, coreSide, ControlTypes
<1>7. CASE Speak
  BY <1>7 DEF Speak, EnrollTypeOK, OfferInv, screenSide, coreSide, ControlTypes
<1>8. ASSUME NEW t \in DOMAIN takes, CoreTakesSample(t)
      PROVE  EnrollTypeOK' /\ OfferInv'
  <2>1. takes[t].session \in Sessions
    BY DEF EnrollTypeOK, TakeTypes
  <2>2. /\ samples' \in [Sessions -> SUBSET DOMAIN takes']
        /\ late' \subseteq Sessions
    BY <1>8, <2>1 DEF CoreTakesSample, EnrollTypeOK
  <2> QED
    BY <1>8, <2>2
    DEF CoreTakesSample, EnrollTypeOK, OfferInv, screenSide, ControlTypes
<1>9. ASSUME NEW t \in DOMAIN takes, CoreVerifies(t) \/ TurnFails(t)
      PROVE  EnrollTypeOK' /\ OfferInv'
  BY <1>9
  DEF CoreVerifies, TurnFails, EnrollTypeOK, OfferInv, screenSide, coreSide,
    ControlTypes
<1>10. ASSUME NEW t \in DOMAIN takes, ResultHeard(t)
      PROVE  EnrollTypeOK' /\ OfferInv'
  <2>1. Counted(t) \in Nat
    BY <1>10 DEF Counted, EnrollTypeOK, TakeTypes
  <2> QED
    BY <1>10, <2>1
    DEF ResultHeard, EnrollTypeOK, OfferInv, Stages, Offer, coreSide,
      ControlTypes
<1>11. ASSUME NEW r \in controls, CoreCommits(r) \/ CoreCancels(r)
      PROVE  EnrollTypeOK' /\ OfferInv'
  <2>1. r.session \in Sessions
    BY DEF EnrollTypeOK, ControlTypes
  <2>2. /\ samples' = [samples EXCEPT ![r.session] = {}]
        /\ ended' \subseteq Sessions /\ controls' \subseteq controls
    BY <1>11, <2>1 DEF CoreCommits, CoreCancels, Over, EnrollTypeOK
  <2>3. folded' \in [Takes -> Nat]
    <3>1. CASE CoreCommits(r)
      BY <3>1 DEF CoreCommits, EnrollTypeOK
    <3>2. CASE CoreCancels(r)
      BY <3>2 DEF CoreCancels, EnrollTypeOK
    <3> QED
      BY <1>11, <3>1, <3>2
  <2>4. reply' \in {"none", "ok", "failed"}
    BY <1>11 DEF CoreCommits, CoreCancels, AnswerTo, EnrollTypeOK, screenSide
  <2>5. UNCHANGED <<stage, session, accepted, committed, awaited, offer, late,
                    saves, disturbed>>
    BY <1>11 DEF CoreCommits, CoreCancels, screenSide, turnSide
  <2> QED
    BY <2>1, <2>2, <2>3, <2>4, <2>5 DEF EnrollTypeOK, OfferInv, ControlTypes
<1>12. ASSUME NEW r \in controls, CoreRefuses(r) \/ CancelLost(r)
      PROVE  EnrollTypeOK' /\ OfferInv'
  <2>1. r.session \in Sessions
    BY DEF EnrollTypeOK, ControlTypes
  <2>2. reply' \in {"none", "ok", "failed"} /\ late' \subseteq Sessions
    BY <1>12, <2>1
    DEF CoreRefuses, CancelLost, AnswerTo, EnrollTypeOK, screenSide, coreSide
  <2>3. /\ controls' \subseteq controls
        /\ UNCHANGED <<stage, session, accepted, committed, awaited, offer,
                       ended, samples, folded, saves, disturbed>>
    BY <1>12 DEF CoreRefuses, CancelLost, screenSide, turnSide, coreSide
  <2> QED
    BY <2>2, <2>3 DEF EnrollTypeOK, OfferInv, ControlTypes
<1>13. CASE CoreRestarts
  BY <1>13 DEF CoreRestarts, EnrollTypeOK, OfferInv
<1>14. CASE UNCHANGED enrollVars
  BY <1>14
  DEF enrollVars, screenSide, turnSide, coreSide, EnrollTypeOK, OfferInv,
    ControlTypes
<1> QED
  BY <1>1, <1>2, <1>3, <1>4, <1>5, <1>6, <1>7, <1>8, <1>9, <1>10, <1>11,
     <1>12, <1>13, <1>14 DEF EnrollNext

\* A sample is of its own session, and of no voiceprint yet; a turn still on
\* its way is neither a sample nor in a voiceprint.
SampleInv ==
  /\ \A s \in Sessions : \A t \in samples[s] :
       takes[t].session = s /\ takes[t].at # "core" /\ folded[t] = 0
  /\ \A t \in Takes :
       /\ folded[t] \in {0, 1}
       /\ folded[t] = 1 => t \in DOMAIN takes /\ takes[t].at # "core"

\* Only sessions that were opened are spoken of, and one that has ended keeps
\* samples only if a turn came after its end.
KnownInv ==
  /\ \A t \in DOMAIN takes : takes[t].session <= session
  /\ \A r \in controls : r.session <= session
  /\ \A s \in Sessions : s > session => samples[s] = {} /\ s \notin ended
  /\ \A s \in ended : samples[s] # {} => s \in late
  /\ committed => session \in ended

Cancelled == {r.session : r \in {q \in controls : q.kind = "cancel"}}

\* A screen that is gone has asked to cancel, or its session has ended, or there
\* is nothing left of it.
LeftInv ==
  \A s \in 1 .. session : (s = session => stage = "away") =>
    \/ s \in Cancelled \union ended \union late
    \/ samples[s] = {} /\ \A t \in DOMAIN takes :
                            takes[t].session = s => takes[t].at # "core"

\* The sessions with a voiceprint.
Learnt == {takes[t].session : t \in {u \in DOMAIN takes : folded[u] = 1}}

\* Who says a voice is saved says so of one that is.
LearntInv ==
  /\ reply = "ok" => session \in Learnt /\ session \in ended
  /\ \A r \in controls :
       r.kind = "finish" /\ r.id = awaited => r.session = session
  /\ committed => session \in Learnt
  /\ offer.phase = "verify" => offer.session \in Learnt
  /\ \A t \in DOMAIN takes :
       takes[t].phase = "verify" => takes[t].session \in Learnt
  /\ stage = "done" /\ ~disturbed => session \in Learnt

\* A cancel is of a screen that is gone, and what is to be recognised was
\* committed.
CancelInv ==
  /\ \A r \in controls : r.kind = "cancel" =>
       r.session < session \/ stage = "away"
  /\ offer.phase = "verify" => committed
  /\ stage # "away" => \A t \in DOMAIN takes :
       takes[t].phase = "verify" /\ takes[t].session = session => committed

\* What the screen was told is still so at the Core, while nothing has come
\* between them: the session is committed when the screen knows it or its answer
\* is back, and until then it only grows.
CountInv ==
  /\ accepted <= Cardinality(samples[session])
  /\ \A t \in DOMAIN takes :
       takes[t].session = session /\ takes[t].count # NoCount =>
         takes[t].count <= Cardinality(samples[session])

Together ==
  /\ committed => stage \in {"verifying", "done"}
  /\ reply = "ok" => stage = "committing"
  /\ session \in ended => reply = "ok" \/ stage \in {"verifying", "done"}
  /\ \A r \in controls : r.kind = "finish" /\ r.session = session =>
       r.id = awaited /\ reply = "none" /\ stage = "committing"
  /\ session \notin ended => CountInv

ToldInv == CancelInv /\ (stage # "away" /\ ~disturbed => Together)

EnrollIInv ==
  /\ EnrollTypeOK /\ OfferInv /\ SampleInv /\ KnownInv /\ LeftInv
  /\ LearntInv /\ ToldInv

\* A voiceprint takes the samples it is made of along.
LEMMA SampleStep ==
  ASSUME EnrollIInv, [EnrollNext]_enrollVars
  PROVE  SampleInv'
<1>t. /\ DOMAIN takes \subseteq DOMAIN takes'
      /\ \A t \in DOMAIN takes :
           /\ takes'[t].session = takes[t].session
           /\ takes[t].at # "core" => takes'[t].at # "core"
  BY TakesStep DEF EnrollIInv, TakesGoOn, Spoken
<1>d. /\ \A s \in Sessions : samples[s] \subseteq DOMAIN takes
      /\ DOMAIN takes \subseteq Takes
  BY EnrollmentAssumption DEF EnrollIInv, EnrollTypeOK, Takes
<1>0. ASSUME \A s \in Sessions : samples'[s] \subseteq samples[s],
             UNCHANGED folded
      PROVE  SampleInv'
  BY <1>0, <1>t, <1>d DEF EnrollIInv, SampleInv
<1>1. ASSUME NEW t \in DOMAIN takes, CoreTakesSample(t) PROVE SampleInv'
  <2>1. takes[t].session \in Sessions /\ takes[t].at = "core"
    BY <1>1 DEF CoreTakesSample, EnrollIInv, EnrollTypeOK, TakeTypes
  <2>2. UNCHANGED folded
    BY <1>1 DEF CoreTakesSample
  <2>3. CASE /\ samples' = [samples EXCEPT ![takes[t].session] = @ \cup {t}]
             /\ Answered(t, Cardinality(samples'[takes[t].session]))
    <3>1. takes'[t].at # "core"
      <4> DEFINE n == Cardinality(samples'[takes[t].session])
      <4>1. takes \in [DOMAIN takes -> TakeTypes]
        BY DEF EnrollIInv, EnrollTypeOK
      <4>2. Answered(t, n)
        BY <2>3
      <4> HIDE DEF n
      <4>3. PICK a \in {"answered", "gone"} :
              takes' = [takes EXCEPT ![t] = [takes[t] EXCEPT !.at = a,
                                                            !.count = n]]
        BY <4>2 DEF Answered
      <4> QED
        BY <4>1, <4>3 DEF TakeTypes
    <3>2. folded[t] = 0
      BY <1>d, <2>1 DEF EnrollIInv, SampleInv
    <3>3. \A s \in Sessions : samples'[s] =
            IF s = takes[t].session THEN samples[s] \cup {t} ELSE samples[s]
      BY <2>1, <2>3 DEF EnrollIInv, EnrollTypeOK
    <3>4. ASSUME NEW s \in Sessions, NEW u \in samples'[s]
          PROVE  /\ takes'[u].session = s /\ takes'[u].at # "core"
                 /\ folded[u] = 0
      <4>1. u \in samples[s] \/ (u = t /\ s = takes[t].session)
        BY <3>3, <3>4
      <4> QED
        BY <1>t, <1>d, <3>1, <3>2, <4>1 DEF EnrollIInv, SampleInv
    <3>5. \A u \in Takes :
            /\ folded[u] \in {0, 1}
            /\ folded[u] = 1 => u \in DOMAIN takes' /\ takes'[u].at # "core"
      BY <1>t DEF EnrollIInv, SampleInv
    <3> QED
      BY <2>2, <3>4, <3>5 DEF SampleInv
  <2>4. CASE UNCHANGED samples
    BY <1>0, <2>2, <2>4
  <2> QED
    BY <1>1, <2>3, <2>4 DEF CoreTakesSample
<1>2. ASSUME NEW r \in controls, CoreCommits(r) PROVE SampleInv'
  <2>1. r.session \in Sessions
    BY DEF EnrollIInv, EnrollTypeOK, ControlTypes
  <2>2. \A s \in Sessions :
          samples'[s] = IF s = r.session THEN {} ELSE samples[s]
    BY <1>2, <2>1 DEF CoreCommits, Over, EnrollIInv, EnrollTypeOK
  <2>3. \A t \in Takes : folded'[t] =
          IF t \in samples[r.session] THEN folded[t] + 1 ELSE folded[t]
    BY <1>2 DEF CoreCommits
  <2>4. \A t \in samples[r.session] :
          /\ folded'[t] = 1 /\ t \in DOMAIN takes /\ takes[t].at # "core"
          /\ takes[t].session = r.session
    BY <1>d, <2>1, <2>3 DEF EnrollIInv, SampleInv
  <2>5. \A s \in Sessions : \A t \in samples'[s] : t \notin samples[r.session]
    BY <2>1, <2>2 DEF EnrollIInv, SampleInv
  <2> QED
    BY <1>t, <1>d, <2>1, <2>2, <2>3, <2>4, <2>5 DEF EnrollIInv, SampleInv
<1>3. ASSUME NEW r \in controls, CoreCancels(r) PROVE SampleInv'
  <2>1. r.session \in Sessions
    BY DEF EnrollIInv, EnrollTypeOK, ControlTypes
  <2> QED
    BY <1>0, <1>3, <2>1 DEF CoreCancels, Over, EnrollIInv, EnrollTypeOK
<1>4. CASE CoreRestarts
  BY <1>0, <1>4 DEF CoreRestarts
<1>5. CASE UNCHANGED coreSide
  BY <1>0, <1>5 DEF coreSide
<1>6. CASE OpenScreen("name") \/ OpenScreen("capturing") \/ Start \/ Leave
  BY <1>5, <1>6 DEF OpenScreen, Start, Leave
<1>7. CASE Save \/ SaveAnswered \/ SaveFails \/ Speak
  BY <1>5, <1>7 DEF Save, SaveAnswered, SaveFails, Speak
<1>8. ASSUME NEW t \in DOMAIN takes,
             CoreVerifies(t) \/ TurnFails(t) \/ ResultHeard(t)
      PROVE  UNCHANGED coreSide
  BY <1>8 DEF CoreVerifies, TurnFails, ResultHeard
<1>9. ASSUME NEW r \in controls, CoreRefuses(r) PROVE UNCHANGED coreSide
  BY <1>9 DEF CoreRefuses
<1>10. ASSUME NEW r \in controls, CancelLost(r) PROVE SampleInv'
  BY <1>0, <1>10 DEF CancelLost
<1>11. CASE UNCHANGED enrollVars
  BY <1>5, <1>11 DEF enrollVars
<1> QED
  BY <1>1, <1>2, <1>3, <1>4, <1>5, <1>6, <1>7, <1>8, <1>9, <1>10, <1>11
  DEF EnrollNext

\* A session that was opened, or that is the screen's, is one of the sessions.
LEMMA KnownStep ==
  ASSUME EnrollIInv, [EnrollNext]_enrollVars
  PROVE  KnownInv'
<1>y. /\ MaxScreens \in Nat /\ session \in 0 .. MaxScreens
      /\ samples \in [Sessions -> SUBSET DOMAIN takes]
      /\ offer.session \in 0 .. MaxScreens
      /\ \A r \in controls : r.session \in Sessions /\ r.session \in Int
      /\ \A t \in DOMAIN takes : /\ takes[t].session \in Sessions
                                 /\ takes[t].session \in Int
      /\ offer.session # 0 => offer.session = session
  BY EnrollmentAssumption
  DEF EnrollIInv, EnrollTypeOK, OfferInv, ControlTypes, TakeTypes, Sessions
<1>t. session' \in Int /\ session <= session' =>
        \A t \in DOMAIN takes' : takes'[t].session <= session'
  <2>1. CASE TakesGoOn
    BY <1>y, <2>1 DEF TakesGoOn, EnrollIInv, KnownInv
  <2>2. ASSUME NEW n \in 0 .. MaxTakes, Spoken(n),
               session' \in Int, session <= session',
               NEW t \in DOMAIN takes'
        PROVE  takes'[t].session <= session'
    <3>1. CASE t = n + 1
      BY <1>y, <2>2, <3>1 DEF Spoken
    <3>2. CASE t \in 1 .. n
      BY <1>y, <2>2, <3>2 DEF Spoken, EnrollIInv, KnownInv
    <3> QED
      BY <2>2, <3>1, <3>2 DEF Spoken
  <2> QED
    BY <2>1, <2>2, TakesStep DEF EnrollIInv
<1>0. ASSUME UNCHANGED <<session, committed, samples, ended>>,
             controls' \subseteq controls, late \subseteq late'
      PROVE  KnownInv'
  BY <1>0, <1>t, <1>y DEF EnrollIInv, KnownInv
<1>1. ASSUME NEW first \in {"name", "capturing"}, OpenScreen(first)
      PROVE  KnownInv'
  <2>1. session' = session + 1 /\ committed' = FALSE
        /\ UNCHANGED <<samples, ended, late, controls>>
    BY <1>1 DEF OpenScreen, coreSide
  <2> QED
    BY <1>t, <1>y, <2>1 DEF EnrollIInv, KnownInv, Sessions
<1>2. CASE Start \/ SaveFails \/ Speak
  <2>1. UNCHANGED coreSide /\ UNCHANGED <<session, committed>>
        /\ controls' \subseteq controls
    BY <1>2 DEF Start, SaveFails, Speak, screenSide
  <2> QED
    BY <1>0, <2>1 DEF coreSide
<1>3. CASE Leave \/ Save
  <2>1. /\ UNCHANGED <<session, samples, ended, late>>
        /\ committed' => committed
    BY <1>3 DEF Leave, Save, coreSide
  <2>2. \A r \in controls' : r \in controls \/ r.session = session
    BY <1>3 DEF Leave, Save
  <2> QED
    BY <1>t, <1>y, <2>1, <2>2 DEF EnrollIInv, KnownInv
<1>4. CASE SaveAnswered
  <2>1. /\ UNCHANGED <<session, samples, ended, late, controls>>
        /\ committed' => committed \/ reply = "ok"
    BY <1>4 DEF SaveAnswered, coreSide, EnrollIInv, EnrollTypeOK
  <2> QED
    BY <1>t, <1>y, <2>1 DEF EnrollIInv, KnownInv, LearntInv
<1>5. ASSUME NEW t \in DOMAIN takes, CoreTakesSample(t)
      PROVE  KnownInv'
  <2>1. UNCHANGED <<session, committed, ended, controls>>
    BY <1>5 DEF CoreTakesSample, screenSide
  <2>2. CASE UNCHANGED <<samples, late>>
    BY <1>0, <2>1, <2>2
  <2>3. CASE /\ samples' = [samples EXCEPT ![takes[t].session] = @ \cup {t}]
             /\ late' = IF takes[t].session \in ended
                        THEN late \cup {takes[t].session} ELSE late
    <3>1. \A s \in Sessions : s # takes[t].session => samples'[s] = samples[s]
      BY <1>y, <2>3
    <3>2. takes[t].session <= session
      BY DEF EnrollIInv, KnownInv
    <3>3. \A s \in Sessions : s > session => samples'[s] = {} /\ s \notin ended
      BY <1>y, <3>1, <3>2 DEF EnrollIInv, KnownInv, Sessions
    <3>4. \A s \in ended : samples'[s] # {} => s \in late'
      BY <2>3, <3>1 DEF EnrollIInv, KnownInv, EnrollTypeOK
    <3> QED
      BY <1>t, <1>y, <2>1, <3>3, <3>4 DEF EnrollIInv, KnownInv
  <2> QED
    BY <1>5, <2>2, <2>3 DEF CoreTakesSample
<1>6. ASSUME NEW t \in DOMAIN takes,
             CoreVerifies(t) \/ TurnFails(t) \/ ResultHeard(t)
      PROVE  KnownInv'
  <2>1. UNCHANGED coreSide /\ UNCHANGED <<session, committed, controls>>
    BY <1>6 DEF CoreVerifies, TurnFails, ResultHeard, screenSide
  <2> QED
    BY <1>0, <2>1 DEF coreSide
<1>7. ASSUME NEW r \in controls, CoreCommits(r) \/ CoreCancels(r)
      PROVE  KnownInv'
  <2>1. /\ UNCHANGED <<session, committed, late>>
        /\ controls' \subseteq controls
        /\ ended' = ended \cup {r.session}
        /\ samples' = [samples EXCEPT ![r.session] = {}]
    BY <1>7 DEF CoreCommits, CoreCancels, Over, screenSide
  <2>2. \A s \in Sessions :
          samples'[s] = IF s = r.session THEN {} ELSE samples[s]
    BY <1>y, <2>1
  <2>3. r.session <= session
    BY DEF EnrollIInv, KnownInv
  <2>4. \A s \in Sessions : s > session => samples'[s] = {} /\ s \notin ended'
    BY <1>y, <2>1, <2>2, <2>3 DEF EnrollIInv, KnownInv, Sessions
  <2>5. \A s \in ended' : samples'[s] # {} => s \in late
    BY <1>y, <2>1, <2>2 DEF EnrollIInv, KnownInv, EnrollTypeOK
  <2> QED
    BY <1>t, <1>y, <2>1, <2>4, <2>5 DEF EnrollIInv, KnownInv
<1>8. ASSUME NEW r \in controls, CoreRefuses(r) \/ CancelLost(r)
      PROVE  KnownInv'
  <2>1. /\ UNCHANGED <<session, committed, samples, ended>>
        /\ controls' \subseteq controls /\ late \subseteq late'
    BY <1>8 DEF CoreRefuses, CancelLost, screenSide, coreSide
  <2> QED
    BY <1>0, <2>1
<1>9. CASE CoreRestarts
  <2>1. /\ UNCHANGED <<session, committed, ended, late>> /\ controls' = {}
        /\ \A s \in Sessions : samples'[s] = {}
    BY <1>9 DEF CoreRestarts
  <2> QED
    BY <1>t, <1>y, <2>1 DEF EnrollIInv, KnownInv, EnrollTypeOK
<1>10. CASE UNCHANGED enrollVars
  BY <1>0, <1>10 DEF enrollVars, screenSide, coreSide
<1> QED
  BY <1>1, <1>2, <1>3, <1>4, <1>5, <1>6, <1>7, <1>8, <1>9, <1>10
  DEF EnrollNext

\* A session over at the screen stays so at the Core.
LEMMA LeftStep ==
  ASSUME EnrollIInv, [EnrollNext]_enrollVars
  PROVE  LeftInv'
<1>y. /\ session \in 0 .. MaxScreens /\ MaxScreens \in Nat
      /\ samples \in [Sessions -> SUBSET DOMAIN takes]
      /\ \A r \in controls : r.session \in Sessions
      /\ offer.session # 0 => offer.session = session /\ stage # "away"
      /\ \A s \in 1 .. session : s \in Sessions
  BY EnrollmentAssumption
  DEF EnrollIInv, EnrollTypeOK, OfferInv, ControlTypes, Sessions
<1> DEFINE Still(s) == \A t \in DOMAIN takes :
                         takes[t].session = s => takes[t].at # "core"
\* Nothing more is spoken into a session that the screen has left.
<1>t. ASSUME NEW s \in Nat, Still(s), s = session => stage = "away"
      PROVE  \A t \in DOMAIN takes' :
               takes'[t].session = s => takes'[t].at # "core"
  <2>1. CASE TakesGoOn
    BY <1>t, <2>1 DEF TakesGoOn
  <2>2. ASSUME NEW n \in 0 .. MaxTakes, Spoken(n), NEW t \in DOMAIN takes'
        PROVE  takes'[t].session = s => takes'[t].at # "core"
    <3>1. CASE t = n + 1
      BY <1>y, <1>t, <2>2, <3>1 DEF Spoken
    <3>2. CASE t \in 1 .. n
      BY <1>t, <2>2, <3>2 DEF Spoken
    <3> QED
      BY <2>2, <3>1, <3>2 DEF Spoken
  <2> QED
    BY <2>1, <2>2, TakesStep DEF EnrollIInv
<1>0. ASSUME /\ session' = session /\ (stage' = "away" => stage = "away")
             /\ Cancelled \subseteq Cancelled' \union ended' \union late'
             /\ ended \subseteq ended' /\ late \subseteq late'
             /\ \A s \in Sessions : Still(s) /\ samples[s] = {} =>
                  samples'[s] = {}
      PROVE  LeftInv'
  <2> SUFFICES ASSUME NEW s \in 1 .. session, s = session => stage = "away"
               PROVE  \/ s \in Cancelled' \union ended' \union late'
                      \/ samples'[s] = {} /\ \A t \in DOMAIN takes' :
                           takes'[t].session = s => takes'[t].at # "core"
    BY <1>0 DEF LeftInv
  <2>1. \/ s \in Cancelled \union ended \union late
        \/ samples[s] = {} /\ Still(s)
    BY DEF EnrollIInv, LeftInv
  <2>2. s \in Nat /\ s \in Sessions
    BY <1>y
  <2> QED
    BY <1>0, <1>t, <2>1, <2>2
<1>1. ASSUME NEW first \in {"name", "capturing"}, OpenScreen(first)
      PROVE  LeftInv'
  <2>1. /\ session' = session + 1 /\ stage = "away" /\ stage' # "away"
        /\ UNCHANGED <<samples, ended, late, controls, takes>>
    BY <1>1 DEF OpenScreen, coreSide
  <2>2. Cancelled' = Cancelled
    BY <2>1 DEF Cancelled
  <2> QED
    BY <1>y, <2>1, <2>2 DEF EnrollIInv, LeftInv
<1>2. CASE Start \/ Save \/ SaveAnswered \/ Speak
  <2>1. /\ UNCHANGED <<session, samples, ended, late>>
        /\ stage' = "away" => stage = "away"
        /\ controls \subseteq controls'
    BY <1>2 DEF Start, Save, SaveAnswered, Speak, screenSide, coreSide
  <2>2. Cancelled \subseteq Cancelled'
    BY <2>1 DEF Cancelled
  <2> QED
    BY <1>0, <2>1, <2>2
<1>3. CASE SaveFails
  <2>1. UNCHANGED <<session, stage, samples, ended, late>>
    BY <1>3 DEF SaveFails, coreSide
  <2>2. \A r \in controls : r.kind = "cancel" => r \in controls'
    BY <1>3 DEF SaveFails, EnrollIInv, EnrollTypeOK, ControlTypes
  <2>3. Cancelled \subseteq Cancelled'
    BY <2>2 DEF Cancelled
  <2> QED
    BY <1>0, <2>1, <2>3
<1>4. CASE Leave
  <2>1. /\ UNCHANGED <<session, samples, ended, late, takes>>
        /\ stage # "away" /\ controls \subseteq controls'
    BY <1>4 DEF Leave, coreSide
  <2>2. session \in Cancelled' \union ended
    <3>1. CASE committed
      BY <3>1 DEF EnrollIInv, KnownInv
    <3>2. CASE ~committed
      <4>1. [kind |-> "cancel", session |-> session, id |-> 0] \in controls'
        BY <1>4, <3>2 DEF Leave
      <4> QED
        BY <4>1 DEF Cancelled
    <3> QED
      BY <3>1, <3>2
  <2>3. Cancelled \subseteq Cancelled'
    BY <2>1 DEF Cancelled
  <2> QED
    BY <1>y, <2>1, <2>2, <2>3 DEF EnrollIInv, LeftInv
<1>5. ASSUME NEW t \in DOMAIN takes, CoreTakesSample(t)
      PROVE  LeftInv'
  <2>1. /\ UNCHANGED <<session, stage, ended, controls>> /\ late \subseteq late'
        /\ takes[t].at = "core"
    BY <1>5 DEF CoreTakesSample, screenSide
  <2>2. Cancelled' = Cancelled
    BY <2>1 DEF Cancelled
  <2>3. \A s \in Sessions : s # takes[t].session => samples'[s] = samples[s]
    BY <1>5, <1>y DEF CoreTakesSample
  <2> QED
    BY <1>0, <2>1, <2>2, <2>3
<1>6. ASSUME NEW t \in DOMAIN takes,
             CoreVerifies(t) \/ TurnFails(t) \/ ResultHeard(t)
      PROVE  LeftInv'
  <2>1. /\ UNCHANGED <<session, samples, ended, late, controls>>
        /\ stage' = "away" => stage = "away"
    BY <1>6 DEF CoreVerifies, TurnFails, ResultHeard, screenSide, coreSide
  <2>2. Cancelled' = Cancelled
    BY <2>1 DEF Cancelled
  <2> QED
    BY <1>0, <2>1, <2>2
<1>7. ASSUME NEW r \in controls, CoreCommits(r) \/ CoreCancels(r)
      PROVE  LeftInv'
  <2>1. /\ UNCHANGED <<session, stage, late>> /\ controls' = controls \ {r}
        /\ ended' = ended \cup {r.session}
        /\ samples' = [samples EXCEPT ![r.session] = {}]
    BY <1>7 DEF CoreCommits, CoreCancels, Over, screenSide
  <2>2. Cancelled \subseteq Cancelled' \union ended'
    BY <2>1 DEF Cancelled
  <2> QED
    BY <1>0, <1>y, <2>1, <2>2
<1>8. ASSUME NEW r \in controls, CoreRefuses(r) \/ CancelLost(r)
      PROVE  LeftInv'
  <2>1. /\ UNCHANGED <<session, stage, samples, ended>>
        /\ controls' = controls \ {r} /\ late \subseteq late'
        /\ r.kind = "cancel" => r.session \in late'
    BY <1>8 DEF CoreRefuses, CancelLost, screenSide, coreSide
  <2>2. Cancelled \subseteq Cancelled' \union late'
    BY <2>1 DEF Cancelled
  <2> QED
    BY <1>0, <2>1, <2>2
<1>9. CASE CoreRestarts
  <2>1. /\ session' = session /\ \A s \in Sessions : samples'[s] = {}
        /\ takes' = [t \in DOMAIN takes |-> [takes[t] EXCEPT !.at = "gone"]]
    BY <1>9 DEF CoreRestarts
  <2>2. \A t \in DOMAIN takes' : takes'[t].at = "gone"
    BY <2>1 DEF EnrollIInv, EnrollTypeOK, TakeTypes
  <2> QED
    BY <1>y, <2>1, <2>2 DEF LeftInv
<1>10. CASE UNCHANGED enrollVars
  BY <1>0, <1>10 DEF enrollVars, screenSide, coreSide, Cancelled
<1> QED
  BY <1>1, <1>2, <1>3, <1>4, <1>5, <1>6, <1>7, <1>8, <1>9, <1>10
  DEF EnrollNext

\* A voiceprint stays, and so does what is said of it.
LEMMA LearntStep ==
  ASSUME EnrollIInv, [EnrollNext]_enrollVars
  PROVE  LearntInv'
<1>y. /\ session \in 0 .. MaxScreens /\ saves \in Nat /\ awaited \in 0 .. saves
      /\ samples \in [Sessions -> SUBSET DOMAIN takes]
      /\ \A r \in controls : /\ r.session \in Sessions
                             /\ r.kind = "finish" => r.id \in 1 .. saves
      /\ DOMAIN takes \subseteq Takes
      /\ offer.phase = "verify" => offer.session \in Learnt
      /\ offer.session # 0 => offer.session = session /\ stage # "away"
  BY EnrollmentAssumption
  DEF EnrollIInv, EnrollTypeOK, OfferInv, LearntInv, ControlTypes, Takes
<1>g. /\ DOMAIN takes \subseteq DOMAIN takes'
      /\ \A t \in DOMAIN takes : /\ takes'[t].session = takes[t].session
                                 /\ takes'[t].phase = takes[t].phase
  <2>1. CASE TakesGoOn
    BY <2>1 DEF TakesGoOn
  <2>2. ASSUME NEW n \in 0 .. MaxTakes, Spoken(n)
        PROVE  /\ DOMAIN takes \subseteq DOMAIN takes'
               /\ \A t \in DOMAIN takes : takes'[t] = takes[t]
    BY <2>2 DEF Spoken
  <2> QED
    BY <2>1, <2>2, TakesStep DEF EnrollIInv
<1>f. \A t \in Takes : folded[t] = 1 => folded'[t] = 1
  <2>1. CASE UNCHANGED folded
    BY <2>1
  <2>2. ASSUME NEW r \in controls, CoreCommits(r),
               NEW t \in Takes, folded[t] = 1
        PROVE  folded'[t] = 1
    <3>1. t \notin samples[r.session]
      BY <1>y, <2>2 DEF EnrollIInv, SampleInv
    <3> QED
      BY <2>2, <3>1 DEF CoreCommits
  <2>3. CASE OpenScreen("name") \/ OpenScreen("capturing") \/ Start \/ Leave
    BY <2>1, <2>3 DEF OpenScreen, Start, Leave, coreSide
  <2>4. CASE Save \/ SaveAnswered \/ SaveFails \/ Speak
    BY <2>1, <2>4 DEF Save, SaveAnswered, SaveFails, Speak, coreSide
  <2>5. ASSUME NEW t \in DOMAIN takes, CoreTakesSample(t) \/ CoreVerifies(t)
                                        \/ TurnFails(t) \/ ResultHeard(t)
        PROVE  UNCHANGED folded
    BY <2>5
    DEF CoreTakesSample, CoreVerifies, TurnFails, ResultHeard, coreSide
  <2>6. ASSUME NEW r \in controls,
               CoreRefuses(r) \/ CoreCancels(r) \/ CancelLost(r)
        PROVE  UNCHANGED folded
    BY <2>6 DEF CoreRefuses, CoreCancels, CancelLost, coreSide
  <2>7. CASE CoreRestarts \/ UNCHANGED enrollVars
    BY <2>1, <2>7 DEF CoreRestarts, enrollVars, coreSide
  <2> QED
    BY <2>1, <2>2, <2>3, <2>4, <2>5, <2>6, <2>7 DEF EnrollNext
<1>l. Learnt \subseteq Learnt'
  BY <1>y, <1>g, <1>f DEF Learnt
\* A turn that is to be recognised is of a voice that is learnt.
<1>t. \A t \in DOMAIN takes' :
        takes'[t].phase = "verify" => takes'[t].session \in Learnt'
  <2>1. CASE TakesGoOn
    BY <1>l, <2>1 DEF TakesGoOn, EnrollIInv, LearntInv
  <2>2. ASSUME NEW n \in 0 .. MaxTakes, Spoken(n), NEW t \in DOMAIN takes',
               takes'[t].phase = "verify"
        PROVE  takes'[t].session \in Learnt'
    <3>1. CASE t = n + 1
      BY <1>y, <1>l, <2>2, <3>1 DEF Spoken
    <3>2. CASE t \in 1 .. n
      BY <1>l, <2>2, <3>2 DEF Spoken, EnrollIInv, LearntInv
    <3> QED
      BY <2>2, <3>1, <3>2 DEF Spoken
  <2> QED
    BY <2>1, <2>2, TakesStep DEF EnrollIInv
<1>0. ASSUME session' = session, ended \subseteq ended',
             reply' = "ok" => reply = "ok", committed' => committed,
             awaited' = awaited \/ awaited' = 0,
             controls' \subseteq controls,
             offer'.phase = "verify" => offer' = offer,
             stage' = "done" /\ ~disturbed' => stage = "done" /\ ~disturbed
      PROVE  LearntInv'
  BY <1>0, <1>y, <1>t, <1>l DEF EnrollIInv, LearntInv
<1>1. ASSUME NEW first \in {"name", "capturing"}, OpenScreen(first)
      PROVE  LearntInv'
  <2>1. /\ awaited' = 0 /\ reply' = "none" /\ committed' = FALSE
        /\ stage' = first /\ UNCHANGED controls
        /\ offer'.phase = "verify" => offer' = offer
    BY <1>1 DEF OpenScreen
  <2> QED
    BY <1>y, <1>t, <1>l, <2>1 DEF EnrollIInv, LearntInv
<1>2. CASE Start
  BY <1>0, <1>2 DEF Start, Offer, coreSide
<1>3. CASE Leave
  <2>1. /\ awaited' = 0 /\ reply' = "none" /\ committed' = FALSE
        /\ stage' = "away" /\ session' = session
        /\ offer'.phase # "verify"
        /\ \A r \in controls' : r.kind = "finish" => r \in controls
    BY <1>3 DEF Leave, Nobody
  <2> QED
    BY <1>y, <1>t, <2>1 DEF LearntInv
<1>4. CASE Save
  <2>1. /\ session' = session /\ awaited' = saves + 1 /\ reply' = "none"
        /\ stage' = "committing" /\ UNCHANGED <<committed, offer>>
        /\ \A r \in controls' : r \in controls \/ r.session = session
    BY <1>4 DEF Save, turnSide
  <2> QED
    BY <1>y, <1>t, <1>l, <2>1 DEF EnrollIInv, LearntInv
<1>5. CASE SaveAnswered
  <2>1. /\ UNCHANGED <<session, controls, ended, disturbed>>
        /\ reply' = "none" /\ awaited' = 0
        /\ committed' = (committed \/ reply = "ok")
        /\ stage' = "done" => stage = "done"
    BY <1>5 DEF SaveAnswered, coreSide
  <2>2. offer'.phase = "verify" =>
          offer' = offer \/ (reply = "ok" /\ offer'.session = session)
    BY <1>5 DEF SaveAnswered, Offer
  <2>3. awaited' = 0 /\ \A r \in controls' : r.kind = "finish" => r.id # 0
    BY <1>y, <2>1
  <2>4. offer'.phase = "verify" => offer'.session \in Learnt'
    BY <1>l, <2>2 DEF EnrollIInv, LearntInv
  <2>5. committed' => session \in Learnt'
    BY <1>l, <2>1 DEF EnrollIInv, LearntInv
  <2>6. stage' = "done" /\ ~disturbed' => session \in Learnt'
    BY <1>l, <2>1 DEF EnrollIInv, LearntInv
  <2> QED
    BY <1>t, <2>1, <2>3, <2>4, <2>5, <2>6 DEF LearntInv
<1>6. CASE SaveFails
  <2>1. /\ UNCHANGED <<session, ended, committed, awaited, offer, stage>>
        /\ reply' = "failed" /\ controls' \subseteq controls
        /\ disturbed' = TRUE
    BY <1>6 DEF SaveFails, coreSide, turnSide
  <2> QED
    BY <1>0, <2>1
<1>7. CASE Speak
  BY <1>0, <1>7 DEF Speak, screenSide, coreSide
<1>8. ASSUME NEW t \in DOMAIN takes,
             CoreTakesSample(t) \/ CoreVerifies(t) \/ TurnFails(t)
      PROVE  LearntInv'
  <2>1. UNCHANGED <<screenSide, offer, ended, controls, disturbed>>
    BY <1>8 DEF CoreTakesSample, CoreVerifies, TurnFails, coreSide
  <2> QED
    BY <1>0, <2>1 DEF screenSide
<1>9. ASSUME NEW t \in DOMAIN takes, ResultHeard(t)
      PROVE  LearntInv'
  <2>1. /\ UNCHANGED <<session, committed, awaited, reply, controls, ended>>
        /\ disturbed' = (disturbed \/ takes[t].session # session)
    BY <1>9 DEF ResultHeard, coreSide
  <2>2. /\ offer'.phase = "verify" => offer' = offer
        /\ stage' = "done" => stage = "done" \/ takes[t].phase = "verify"
    BY <1>9 DEF ResultHeard, Offer
  <2> QED
    BY <1>y, <1>t, <1>l, <2>1, <2>2 DEF EnrollIInv, LearntInv, EnrollTypeOK
<1>10. ASSUME NEW r \in controls, CoreCommits(r)
      PROVE  LearntInv'
  <2>1. /\ UNCHANGED <<stage, session, committed, awaited, offer, disturbed>>
        /\ controls' = controls \ {r} /\ ended' = ended \cup {r.session}
    BY <1>10 DEF CoreCommits, turnSide
  <2>2. r.session \in Learnt'
    <3>1. samples[r.session] # {}
      <4>1. Cardinality(samples[r.session]) # 0
        BY <1>10, <1>y, SampleCounts, EnrollmentAssumption
        DEF CoreCommits, EnrollIInv
      <4> QED
        BY <4>1, FS_EmptySet
    <3>2. PICK t \in samples[r.session] : TRUE
      BY <3>1
    <3>3. t \in DOMAIN takes /\ takes[t].session = r.session /\ folded[t] = 0
      BY <1>y, <3>2 DEF EnrollIInv, SampleInv
    <3>4. folded'[t] = 1
      BY <1>10, <1>y, <3>2, <3>3 DEF CoreCommits
    <3> QED
      BY <1>g, <3>3, <3>4 DEF Learnt
  <2>3. reply' = "ok" => reply = "ok" \/ (r.kind = "finish" /\ r.id = awaited)
    BY <1>10 DEF CoreCommits, AnswerTo
  <2> QED
    BY <1>t, <1>l, <2>1, <2>2, <2>3 DEF EnrollIInv, LearntInv
<1>11. ASSUME NEW r \in controls,
              CoreRefuses(r) \/ CoreCancels(r) \/ CancelLost(r)
      PROVE  LearntInv'
  <2>1. /\ UNCHANGED <<stage, session, committed, awaited, offer, disturbed>>
        /\ controls' \subseteq controls /\ ended \subseteq ended'
        /\ reply' = "ok" => reply = "ok"
    BY <1>11
    DEF CoreRefuses, CoreCancels, CancelLost, AnswerTo, screenSide, turnSide,
      coreSide
  <2> QED
    BY <1>0, <2>1
<1>12. CASE CoreRestarts
  <2>1. /\ UNCHANGED <<session, ended, committed, awaited, offer, stage>>
        /\ controls' = {} /\ disturbed' = TRUE
        /\ reply' = "ok" => reply = "ok"
    BY <1>12 DEF CoreRestarts
  <2> QED
    BY <1>0, <2>1
<1>13. CASE UNCHANGED enrollVars
  BY <1>0, <1>13 DEF enrollVars, screenSide, turnSide, coreSide
<1> QED
  BY <1>1, <1>2, <1>3, <1>4, <1>5, <1>6, <1>7, <1>8, <1>9, <1>10, <1>11,
     <1>12, <1>13 DEF EnrollNext

\* Only a screen that is gone cancels; only what is committed is recognised.
LEMMA CancelStep ==
  ASSUME EnrollIInv, [EnrollNext]_enrollVars
  PROVE  CancelInv'
<1>y. /\ session \in 0 .. MaxScreens /\ saves \in Nat
      /\ \A r \in controls : r.session \in Int /\ r.session <= session
      /\ \A t \in DOMAIN takes : /\ takes[t].session \in Int
                                 /\ takes[t].session <= session
                                 /\ takes[t].session # 0
      /\ stage = "away" => offer.session = 0
      /\ offer.session # 0 => offer.session = session
  BY EnrollmentAssumption
  DEF EnrollIInv, EnrollTypeOK, KnownInv, OfferInv, ControlTypes, TakeTypes,
    Sessions
<1>a. stage = "away" => offer.phase # "verify"
  BY <1>y DEF EnrollIInv, LearntInv, Learnt
<1>0. ASSUME session' = session, stage = "away" => stage' = "away",
             \A r \in controls' : r.kind = "cancel" => r \in controls,
             offer'.phase = "verify" => offer' = offer,
             committed => committed'
      PROVE  CancelInv'
  <2>1. stage' # "away" => \A t \in DOMAIN takes' :
          takes'[t].phase = "verify" /\ takes'[t].session = session =>
            committed
    <3>1. CASE TakesGoOn
      BY <1>0, <3>1 DEF TakesGoOn, EnrollIInv, ToldInv, CancelInv
    <3>2. ASSUME NEW n \in 0 .. MaxTakes, Spoken(n), NEW t \in DOMAIN takes',
                 takes'[t].phase = "verify", takes'[t].session = session,
                 stage' # "away"
          PROVE  committed
      <4>1. CASE t = n + 1
        BY <3>2, <4>1 DEF Spoken, EnrollIInv, ToldInv, CancelInv
      <4>2. CASE t \in 1 .. n
        BY <1>0, <3>2, <4>2 DEF Spoken, EnrollIInv, ToldInv, CancelInv
      <4> QED
        BY <3>2, <4>1, <4>2 DEF Spoken
    <3> QED
      BY <3>1, <3>2, TakesStep DEF EnrollIInv
  <2> QED
    BY <1>0, <2>1 DEF EnrollIInv, ToldInv, CancelInv
<1>1. ASSUME NEW first \in {"name", "capturing"}, OpenScreen(first)
      PROVE  CancelInv'
  <2>1. /\ session' = session + 1 /\ stage = "away"
        /\ UNCHANGED <<controls, takes>>
        /\ offer'.phase = "verify" => offer' = offer
    BY <1>1 DEF OpenScreen
  <2> QED
    BY <1>y, <1>a, <2>1 DEF CancelInv
<1>2. CASE Leave
  BY <1>2 DEF Leave, CancelInv, Nobody
<1>3. CASE Start \/ Save
  BY <1>0, <1>3 DEF Start, Save, Offer, turnSide
<1>4. CASE SaveAnswered
  <2>1. /\ UNCHANGED <<session, controls, takes>>
        /\ committed' = (committed \/ reply = "ok")
        /\ stage' = "away" <=> stage = "away"
        /\ offer'.phase = "verify" => offer' = offer \/ reply = "ok"
    BY <1>4 DEF SaveAnswered, Offer
  <2> QED
    BY <2>1 DEF EnrollIInv, ToldInv, CancelInv
<1>5. CASE SaveFails \/ Speak
  BY <1>0, <1>5 DEF SaveFails, Speak, turnSide, screenSide
<1>6. ASSUME NEW t \in DOMAIN takes,
             CoreTakesSample(t) \/ CoreVerifies(t) \/ TurnFails(t)
      PROVE  CancelInv'
  BY <1>0, <1>6 DEF CoreTakesSample, CoreVerifies, TurnFails, screenSide
<1>7. ASSUME NEW t \in DOMAIN takes, ResultHeard(t)
      PROVE  CancelInv'
  <2>1. /\ UNCHANGED <<session, controls, committed>>
        /\ stage = "away" => stage' = "away"
        /\ offer'.phase = "verify" => offer' = offer
    BY <1>7 DEF ResultHeard, Offer
  <2> QED
    BY <1>0, <2>1
<1>8. ASSUME NEW r \in controls, CoreCommits(r) \/ CoreRefuses(r)
                                  \/ CoreCancels(r) \/ CancelLost(r)
      PROVE  CancelInv'
  BY <1>0, <1>8
  DEF CoreCommits, CoreRefuses, CoreCancels, CancelLost, screenSide, turnSide
<1>9. CASE CoreRestarts \/ UNCHANGED enrollVars
  BY <1>0, <1>9 DEF CoreRestarts, enrollVars, screenSide, turnSide
<1> QED
  BY <1>1, <1>2, <1>3, <1>4, <1>5, <1>6, <1>7, <1>8, <1>9 DEF EnrollNext

\* Every step but a sample's.
NoSample ==
  \/ OpenScreen("name") \/ OpenScreen("capturing") \/ Start \/ Leave
  \/ Save \/ SaveAnswered \/ SaveFails
  \/ Speak
  \/ \E t \in DOMAIN takes :
       CoreVerifies(t) \/ TurnFails(t) \/ ResultHeard(t)
  \/ \E r \in controls :
       CoreCommits(r) \/ CoreRefuses(r) \/ CoreCancels(r) \/ CancelLost(r)
  \/ CoreRestarts
  \/ UNCHANGED enrollVars

\* The counts that the display may still hear only come with samples.
LEMMA CountsKept ==
  ASSUME EnrollIInv, NoSample
  PROVE  \A t \in DOMAIN takes' :
           \/ t \in DOMAIN takes /\ takes'[t].session = takes[t].session
              /\ takes'[t].count \in {takes[t].count, NoCount}
           \/ takes'[t].count = NoCount
<1>1. \A t \in DOMAIN takes' :
        \/ t \in DOMAIN takes /\ takes'[t].session = takes[t].session
           /\ takes'[t].count \in {takes[t].count, NoCount}
        \/ takes'[t].count = NoCount
  <2>1. CASE UNCHANGED takes
    BY <2>1
  <2>2. CASE Speak
    <3>1. PICK n \in 0 .. MaxTakes : Spoken(n)
      BY <2>2, SpeakSpoken DEF EnrollIInv
    <3> QED
      BY <3>1 DEF Spoken
  <2>3. ASSUME NEW t \in DOMAIN takes,
               CoreVerifies(t) \/ TurnFails(t) \/ ResultHeard(t)
        PROVE  \A u \in DOMAIN takes' :
                 /\ u \in DOMAIN takes /\ takes'[u].session = takes[u].session
                 /\ takes'[u].count \in {takes[u].count, NoCount}
    <3>1. takes[t] \in TakeTypes /\ takes \in [DOMAIN takes -> TakeTypes]
      BY DEF EnrollIInv, EnrollTypeOK
    <3>2. PICK a \in {"answered", "gone"},
               n \in {takes[t].count, NoCount} :
            takes' = [takes EXCEPT ![t] = [takes[t] EXCEPT !.at = a,
                                                          !.count = n]]
      <4>1. CASE Answered(t, NoCount)
        BY <4>1 DEF Answered
      <4>2. CASE LetGo(t)
        <5>1. [takes[t] EXCEPT !.at = "gone"] =
                [takes[t] EXCEPT !.at = "gone", !.count = takes[t].count]
          BY <3>1 DEF TakeTypes
        <5> QED
          BY <4>2, <5>1 DEF LetGo
      <4> QED
        BY <2>3, <4>1, <4>2 DEF CoreVerifies, TurnFails, ResultHeard
    <3> QED
      BY <3>1, <3>2 DEF TakeTypes
  <2>4. CASE CoreRestarts
    <3>1. takes' = [t \in DOMAIN takes |-> [takes[t] EXCEPT !.at = "gone"]]
      BY <2>4 DEF CoreRestarts
    <3> QED
      BY <3>1 DEF EnrollIInv, EnrollTypeOK, TakeTypes
  <2>5. CASE OpenScreen("name") \/ OpenScreen("capturing") \/ Start \/ Leave
    BY <2>1, <2>5 DEF OpenScreen, Start, Leave, turnSide
  <2>6. CASE Save \/ SaveAnswered \/ SaveFails
    BY <2>1, <2>6 DEF Save, SaveAnswered, SaveFails, turnSide
  <2>7. ASSUME NEW r \in controls, CoreCommits(r) \/ CoreRefuses(r)
                                    \/ CoreCancels(r) \/ CancelLost(r)
        PROVE  UNCHANGED takes
    BY <2>7 DEF CoreCommits, CoreRefuses, CoreCancels, CancelLost, turnSide
  <2>8. CASE UNCHANGED enrollVars
    BY <2>1, <2>8 DEF enrollVars, turnSide
  <2> QED
    BY <2>1, <2>2, <2>3, <2>4, <2>5, <2>6, <2>7, <2>8 DEF NoSample
<1> QED
  BY <1>1

\* While nothing comes between them, each step keeps screen and Core together.
LEMMA ToldStep ==
  ASSUME EnrollIInv, [EnrollNext]_enrollVars, stage' # "away", ~disturbed'
  PROVE  Together'
<1>y. /\ session \in 0 .. MaxScreens /\ saves \in Nat /\ accepted \in Nat
      /\ samples \in [Sessions -> SUBSET DOMAIN takes]
      /\ controls \subseteq ControlTypes
      /\ stage # "away" => session \in Sessions
      /\ \A t \in DOMAIN takes : /\ takes[t] \in TakeTypes
                                 /\ takes[t].session \in Sessions
  BY DEF EnrollIInv, EnrollTypeOK, TakeTypes, Sessions
<1>k. stage # "away" => Cardinality(samples[session]) \in Nat
  BY <1>y, SampleCounts DEF EnrollIInv
<1>i. stage # "away" /\ ~disturbed => Together
  BY DEF EnrollIInv, ToldInv
\* Steps that move neither the screen's stage nor the session at the Core.
<1>0. ASSUME UNCHANGED <<session, accepted, committed, awaited, reply, stage>>,
             disturbed' = disturbed, controls' \subseteq controls,
             session \in ended' <=> session \in ended,
             samples'[session] = samples[session],
             NoSample
      PROVE  Together'
  <2>1. CountInv => CountInv'
    BY <1>0, CountsKept DEF CountInv
  <2> QED
    BY <1>0, <1>i, <2>1 DEF Together
<1>1. ASSUME NEW first \in {"name", "capturing"}, OpenScreen(first)
      PROVE  Together'
  <2>1. /\ session' = session + 1 /\ session' \in Sessions
        /\ accepted' = 0 /\ committed' = FALSE /\ reply' = "none"
        /\ UNCHANGED <<controls, takes, ended, samples>>
    BY <1>1, <1>y, EnrollmentAssumption DEF OpenScreen, coreSide, Sessions
  <2>2. samples[session'] = {} /\ session' \notin ended
    BY <1>y, <2>1 DEF EnrollIInv, KnownInv, Sessions
  <2>3. /\ \A r \in controls : r.session # session'
        /\ \A t \in DOMAIN takes : takes[t].session # session'
    BY <1>y, <2>1 DEF EnrollIInv, KnownInv, ControlTypes, Sessions
  <2>4. CountInv'
    BY <2>1, <2>2, <2>3, FS_EmptySet DEF CountInv
  <2> QED
    BY <2>1, <2>2, <2>3, <2>4 DEF Together
<1>2. CASE Start
  <2>1. /\ UNCHANGED <<session, accepted, committed, awaited, reply, takes,
                       samples, ended, controls, disturbed>>
        /\ stage = "name"
    BY <1>2 DEF Start, coreSide
  <2> QED
    BY <1>i, <2>1 DEF Together, CountInv
<1>3. CASE Save
  <2>1. /\ UNCHANGED <<session, accepted, committed, takes, samples, ended,
                       disturbed>>
        /\ stage = "capturing" /\ stage' = "committing" /\ reply' = "none"
        /\ \A r \in controls' : \/ r \in controls
                                \/ r.id = awaited'
    BY <1>3 DEF Save, turnSide, coreSide
  <2> QED
    BY <1>i, <2>1 DEF Together, CountInv
<1>4. CASE SaveAnswered
  <2>1. /\ UNCHANGED <<session, accepted, takes, samples, ended, controls,
                       disturbed>>
        /\ reply # "none" /\ reply' = "none"
        /\ committed' = (committed \/ reply = "ok")
    BY <1>4 DEF SaveAnswered, coreSide
  <2>2. \/ stage # "committing" /\ stage' = stage
        \/ stage = "committing" /\ reply = "ok" /\ stage' = "verifying"
        \/ stage = "committing" /\ reply # "ok" /\ stage' = "capturing"
    BY <1>4 DEF SaveAnswered
  <2>3. Together
    BY <1>i, <2>1, <2>2
  <2>4. \A r \in controls : ~(r.kind = "finish" /\ r.session = session)
    BY <2>1, <2>3 DEF Together
  <2>5. CountInv => CountInv'
    BY <2>1 DEF CountInv
  <2> QED
    BY <2>1, <2>2, <2>3, <2>4, <2>5 DEF Together
<1>5. CASE SaveFails \/ CoreRestarts
  BY <1>5 DEF SaveFails, CoreRestarts
<1>6. CASE Speak
  BY <1>0, <1>6 DEF Speak, screenSide, coreSide, NoSample
<1>7. ASSUME NEW t \in DOMAIN takes, CoreTakesSample(t)
      PROVE  Together'
  <2>1. /\ UNCHANGED <<session, accepted, committed, awaited, reply, stage,
                       ended, controls, disturbed>>
        /\ Together
    BY <1>7, <1>i DEF CoreTakesSample, screenSide
  <2>2. CountInv => CountInv'
    <3> DEFINE s == takes[t].session
               k == Cardinality(samples[s])
    <3>0. /\ s \in Sessions /\ k \in Nat /\ IsFiniteSet(samples[s])
          /\ takes \in [DOMAIN takes -> TakeTypes] /\ session \in Sessions
          /\ Cardinality(samples[session]) \in Nat
      BY <1>y, <1>k, <2>1, SampleCounts DEF EnrollIInv, EnrollTypeOK
    <3>1. CASE /\ samples' = [samples EXCEPT ![s] = @ \cup {t}]
               /\ Answered(t, Cardinality(samples'[s]))
      <4> DEFINE m == Cardinality(samples'[s])
      <4>1. samples'[s] = samples[s] \cup {t}
            /\ \A u \in Sessions \ {s} : samples'[u] = samples[u]
        BY <1>y, <3>0, <3>1
      <4>2. m \in Nat /\ k <= m
        <5>1. Cardinality(samples[s] \cup {t}) =
                IF t \in samples[s] THEN k ELSE k + 1
          BY <3>0, FS_AddElement
        <5>2. m = Cardinality(samples[s] \cup {t})
          BY <4>1
        <5> QED
          BY <3>0, <5>1, <5>2
      <4>3. Answered(t, m)
        BY <3>1
      <4> HIDE DEF m
      <4>4. PICK a \in {"answered", "gone"} :
              takes' = [takes EXCEPT ![t] = [takes[t] EXCEPT !.at = a,
                                                            !.count = m]]
        BY <4>3 DEF Answered
      <4>5. /\ DOMAIN takes' = DOMAIN takes /\ takes'[t].count = m
            /\ \A u \in DOMAIN takes : takes'[u].session = takes[u].session
            /\ \A u \in DOMAIN takes \ {t} : takes'[u].count = takes[u].count
        BY <3>0, <4>4 DEF TakeTypes
      <4>6. \A u \in DOMAIN takes : takes[u].count # NoCount =>
                                      takes[u].count \in Nat
        BY <1>y DEF TakeTypes
      <4>7. Cardinality(samples[session]) <= Cardinality(samples'[session])
            /\ (s = session => m = Cardinality(samples'[session]))
            /\ Cardinality(samples'[session]) \in Nat
        BY <3>0, <4>1, <4>2 DEF m
      <4> QED
        BY <1>y, <2>1, <3>0, <4>2, <4>5, <4>6, <4>7 DEF CountInv
    <3>2. ASSUME NEW n \in {k, NoCount}, Answered(t, n), UNCHANGED samples
          PROVE  CountInv => CountInv'
      <4>1. PICK a \in {"answered", "gone"} :
              takes' = [takes EXCEPT ![t] = [takes[t] EXCEPT !.at = a,
                                                            !.count = n]]
        BY <3>2 DEF Answered
      <4>2. /\ DOMAIN takes' = DOMAIN takes /\ takes'[t].count = n
            /\ \A u \in DOMAIN takes : takes'[u].session = takes[u].session
            /\ \A u \in DOMAIN takes \ {t} : takes'[u].count = takes[u].count
        BY <3>0, <4>1 DEF TakeTypes
      <4> QED
        BY <2>1, <3>0, <3>2, <4>2 DEF CountInv
    <3> QED
      BY <1>7, <3>1, <3>2 DEF CoreTakesSample
  <2> QED
    BY <2>1, <2>2 DEF Together
<1>8. ASSUME NEW t \in DOMAIN takes, CoreVerifies(t) \/ TurnFails(t)
      PROVE  Together'
  BY <1>0, <1>8 DEF CoreVerifies, TurnFails, screenSide, coreSide, NoSample
<1>9. ASSUME NEW t \in DOMAIN takes, ResultHeard(t)
      PROVE  Together'
  <2>1. /\ UNCHANGED <<session, committed, awaited, reply, samples, ended,
                       controls>>
        /\ stage # "away" /\ disturbed' = disturbed
        /\ takes[t].session = session /\ Together
    BY <1>9, <1>i DEF ResultHeard, coreSide, EnrollIInv, EnrollTypeOK
  <2>2. CountInv => CountInv'
    <3>1. CountInv => accepted' <= Cardinality(samples[session])
      BY <1>9, <2>1 DEF ResultHeard, Counted, CountInv
    <3> QED
      BY <1>9, <2>1, <3>1, CountsKept DEF CountInv, NoSample
  <2>3. CASE stage' = stage
    BY <2>1, <2>2, <2>3 DEF Together
  <2>4. CASE takes[t].phase = "verify" /\ stage' = "done"
    <3>1. committed
      BY <2>1, <2>4 DEF EnrollIInv, ToldInv, CancelInv
    <3> QED
      BY <2>1, <2>2, <2>4, <3>1 DEF Together
  <2> QED
    BY <1>9, <2>1, <2>3, <2>4 DEF ResultHeard
<1>10. ASSUME NEW r \in controls, CoreCommits(r) \/ CoreRefuses(r)
       PROVE  Together'
  <2>1. /\ UNCHANGED <<session, accepted, committed, awaited, stage, takes,
                       disturbed>>
        /\ controls' = controls \ {r} /\ r.kind = "finish"
        /\ ended' \in {ended, ended \cup {r.session}} /\ Together
    BY <1>10, <1>i DEF CoreCommits, CoreRefuses, turnSide, coreSide
  <2>2. r.id = awaited => r.session = session
    BY <2>1 DEF EnrollIInv, LearntInv
  <2>3. CASE r.session = session
    <3>1. r.id = awaited /\ reply = "none" /\ stage = "committing"
      BY <2>1, <2>3 DEF Together
    <3>2. \A q \in controls : q.kind = "finish" /\ q.session = session => q = r
      BY <1>y, <2>1, <2>3, <3>1 DEF Together, ControlTypes
    <3>3. \/ CoreCommits(r) /\ reply' = "ok" /\ session \in ended'
          \/ CoreRefuses(r) /\ reply' = "failed" /\ UNCHANGED <<samples, ended>>
      BY <1>10, <2>3, <3>1
      DEF CoreCommits, CoreRefuses, AnswerTo, coreSide
    <3>4. CASE session \in ended' /\ reply' = "ok"
      BY <2>1, <3>1, <3>2, <3>4 DEF Together
    <3>5. CASE reply' = "failed" /\ UNCHANGED <<samples, ended>>
      <4>1. CountInv => CountInv'
        BY <2>1, <3>5 DEF CountInv
      <4> QED
        BY <2>1, <3>1, <3>2, <3>5, <4>1 DEF Together
    <3> QED
      BY <3>3, <3>4, <3>5
  <2>4. CASE r.session # session
    <3>1. reply' = reply
      BY <1>10, <2>2, <2>4 DEF CoreCommits, CoreRefuses, AnswerTo
    <3>2. samples'[session] = samples[session]
      BY <1>10, <1>y, <2>1, <2>4 DEF CoreCommits, CoreRefuses, Over, coreSide
    <3>3. session \in ended' <=> session \in ended
      BY <2>1, <2>4
    <3> QED
      BY <1>0, <1>10, <2>1, <3>1, <3>2, <3>3 DEF NoSample
  <2> QED
    BY <2>3, <2>4
<1>11. ASSUME NEW r \in controls, CoreCancels(r) \/ CancelLost(r)
       PROVE  Together'
  <2>1. /\ UNCHANGED <<session, accepted, committed, awaited, reply, stage,
                       takes, disturbed>>
        /\ controls' = controls \ {r} /\ r.kind = "cancel"
        /\ ended' \in {ended, ended \cup {r.session}}
    BY <1>11 DEF CoreCancels, CancelLost, screenSide, turnSide
  <2>2. r.session < session
    BY <2>1 DEF EnrollIInv, ToldInv, CancelInv
  <2>3. r.session # session
    BY <1>y, <2>2
  <2>4. samples'[session] = samples[session]
    BY <1>11, <1>y, <2>1, <2>3 DEF CoreCancels, CancelLost, Over
  <2>5. session \in ended' <=> session \in ended
    BY <2>1, <2>3
  <2> QED
    BY <1>0, <1>11, <2>1, <2>4, <2>5 DEF NoSample
<1>12. CASE Leave
  BY <1>12 DEF Leave
<1>13. CASE UNCHANGED enrollVars
  BY <1>0, <1>13 DEF enrollVars, screenSide, coreSide, NoSample
<1> QED
  BY <1>1, <1>2, <1>3, <1>4, <1>5, <1>6, <1>7, <1>8, <1>9, <1>10, <1>11,
     <1>12, <1>13 DEF EnrollNext

LEMMA EnrollInvInit == EnrollInit => EnrollIInv
<1> SUFFICES ASSUME EnrollInit PROVE EnrollIInv
  OBVIOUS
<1>1. DOMAIN takes = {}
  BY DEF EnrollInit
<1>2. \A s \in Sessions : samples[s] = {}
  BY DEF EnrollInit
<1>3. SampleInv
  BY <1>2 DEF EnrollInit, SampleInv
<1>4. KnownInv /\ LeftInv
  BY <1>1, <1>2 DEF EnrollInit, KnownInv, LeftInv
<1>5. LearntInv /\ ToldInv
  BY <1>1 DEF EnrollInit, LearntInv, ToldInv, CancelInv, Nobody
<1> QED
  BY <1>3, <1>4, <1>5, EnrollTypeInit DEF EnrollIInv

\* The inductive invariant of the enrollment.
THEOREM EnrollInvariance == EnrollSpec => []EnrollIInv
<1>1. EnrollIInv /\ [EnrollNext]_enrollVars => EnrollIInv'
  <2> SUFFICES ASSUME EnrollIInv, [EnrollNext]_enrollVars PROVE EnrollIInv'
    OBVIOUS
  <2>1. EnrollTypeOK' /\ OfferInv'
    BY EnrollTypeStep DEF EnrollIInv
  <2>2. ToldInv'
    BY CancelStep, ToldStep DEF ToldInv
  <2> QED
    BY <2>1, <2>2, SampleStep, KnownStep, LeftStep, LearntStep DEF EnrollIInv
<1> QED
  BY <1>1, EnrollInvInit, PTL DEF EnrollSpec

\* However commits fail, are repeated or overtaken, no sample goes into two
\* voiceprints, and no session keeps samples that nobody will ask for, but for
\* a lost cancel and a turn that comes after the end.
THEOREM VoicesKeptAndLearntOnce == EnrollSpec => []NoVoiceIsKeptOrLearntTwice
<1>1. EnrollIInv => NoVoiceIsKeptOrLearntTwice
  <2> SUFFICES ASSUME EnrollIInv PROVE NoVoiceIsKeptOrLearntTwice
    OBVIOUS
  <2>1. \A t \in Takes : folded[t] <= 1
    BY DEF EnrollIInv, SampleInv
  <2>2. ASSUME NEW s \in Sessions, samples[s] # {}, ~Underway(s),
               ~(s = session /\ stage # "away"), s \notin late
        PROVE  FALSE
    <3>1. s \in 1 .. session /\ s \notin ended
      BY <2>2 DEF EnrollIInv, KnownInv, EnrollTypeOK, Sessions
    <3>2. s \notin Cancelled
      BY <2>2 DEF Cancelled, Underway
    <3> QED
      BY <2>2, <3>1, <3>2 DEF EnrollIInv, LeftInv
  <2> QED
    BY <2>1, <2>2 DEF NoVoiceIsKeptOrLearntTwice
<1> QED
  BY <1>1, EnrollInvariance, PTL

\* What the enrollment's screen says is so at the Core, unless the Core
\* restarted, a commit went unanswered, or an earlier screen's answer came late.
THEOREM ScreenAlwaysHonest == EnrollSpec => []ScreenIsHonest
<1>1. EnrollIInv => ScreenIsHonest
  <2> SUFFICES ASSUME EnrollIInv PROVE ScreenIsHonest
    OBVIOUS
  <2>1. stage = "capturing" /\ ~disturbed
          => accepted <= Cardinality(samples[session])
    BY DEF EnrollIInv, ToldInv, Together, CountInv
  <2>2. committed \/ (stage = "done" /\ ~disturbed) => session \in Learnt
    BY DEF EnrollIInv, LearntInv
  <2> QED
    BY <2>1, <2>2 DEF ScreenIsHonest, Learnt
<1> QED
  BY <1>1, EnrollInvariance, PTL
=============================================================================
