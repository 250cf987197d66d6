-------------------------- MODULE VoiceTurn_proofs --------------------------
(****************************************************************************)
(* For any number of turns and any ring: the types, that one holder at a    *)
(* time has the turn slot, that its channels are the ones installed, that a *)
(* follow-up listens in silence, and that the slot protocol implements      *)
(* TurnSlot; then, for any backlog of events, that the conversation panel   *)
(* is up with the words of the reply that is heard.                         *)
(****************************************************************************)
EXTENDS TurnScreen, TLAPS

\* A turn task holds the slot from winning `active` to storing false.
TurnHolds(t) == turn[t] \in LivePcs \cup {"claimed"}

\* OneHolder, holder against holder.
SlotInv ==
  Up =>
    /\ \A t, u \in Turns : TurnHolds(t) /\ TurnHolds(u) => t = u
    /\ \A t, u \in Turns : watcher[t] = "claimed" /\ watcher[u] = "claimed" => t = u
    /\ \A t, u \in Turns : TurnHolds(t) => watcher[u] # "claimed"
    /\ capture = "claimed" =>
         \A t \in Turns : ~TurnHolds(t) /\ watcher[t] # "claimed"
    /\ active <=> \/ capture = "claimed"
                  \/ \E t \in Turns : TurnHolds(t) \/ watcher[t] = "claimed"

\* A watcher that has seen the ring drained keeps the worker, so nothing is
\* submitted before its follow-up turn owns the slot.
DrainInv ==
  \A t \in Turns : watcher[t] \in {"checked", "claimed"} => ring = << >> \/ wedged

IInv == TypeOK /\ SlotInv /\ ChannelsReachLiveTurn /\ DrainInv /\ FollowupMicIsQuiet

\* A display that has just started holds nothing: the inductive invariant
\* holds with no turn, no watcher and an empty ring.
LEMMA InitIInv == Init => IInv
<1> SUFFICES ASSUME Init PROVE IInv
  OBVIOUS
<1> USE DEF Init
<1>1. TypeOK
  <2>1. ring \in Seq(Turns) /\ Len(ring) <= RingCap
    BY RingCapAssumption
  <2>2. budget \in 0 .. MaxTurns
    BY MaxTurnsAssumption
  <2>3. QED
    BY <2>1, <2>2 DEF TypeOK, TurnPcs, CapturePcs, WatcherPcs, None
<1>2. SlotInv
  BY DEF SlotInv, TurnHolds, LivePcs, Up
<1>3. ChannelsReachLiveTurn
  BY DEF ChannelsReachLiveTurn, Live, LivePcs, Turns, None
<1>4. DrainInv
  BY DEF DrainInv
<1>5. FollowupMicIsQuiet
  BY DEF FollowupMicIsQuiet
<1>6. QED
  BY <1>1, <1>2, <1>3, <1>4, <1>5 DEF IInv

\* Queueing a block into a ring with room keeps it within its capacity.
LEMMA AppendFits ==
  ASSUME NEW S, NEW s \in Seq(S), NEW e \in S, NEW n \in Nat, Len(s) < n
  PROVE  Append(s, e) \in Seq(S) /\ Len(Append(s, e)) <= n
  OBVIOUS

\* Playing the oldest block keeps the ring within its capacity.
LEMMA TailFits ==
  ASSUME NEW S, NEW s \in Seq(S), s # << >>, NEW n \in Nat, Len(s) <= n
  PROVE  Tail(s) \in Seq(S) /\ Len(Tail(s)) <= n
  OBVIOUS

\* A flushed ring is within its capacity.
LEMMA EmptyFits ==
  ASSUME NEW S, NEW n \in Nat
  PROVE  << >> \in Seq(S) /\ Len(<< >>) <= n
  OBVIOUS

\* Every step of the threads keeps the types and the ring within RingCap.
LEMMA TypeStep == TypeOK /\ [Next]_vars => TypeOK'
<1> SUFFICES ASSUME TypeOK, [Next]_vars PROVE TypeOK'
  OBVIOUS
<1> USE MaxTurnsAssumption, RingCapAssumption
    DEF TypeOK, TurnPcs, LivePcs, CapturePcs, WatcherPcs, None,
        slotVars, captureVars, turnVars, audioVars
<1>1. CASE Capture
  <2>1. CASE WakeFlush
    BY <2>1 DEF WakeFlush
  <2>2. CASE WakeClaim \/ WakeRefused \/ WakeAsk
    BY <2>2 DEF WakeClaim, WakeRefused, WakeAsk
  <2>3. CASE WakeInterrupt
    BY <2>3 DEF WakeInterrupt
  <2>4. CASE \E u \in Turns : WakeSpawn(u)
    BY <2>4 DEF WakeSpawn, SpawnTurn
  <2>5. QED
    BY <1>1, <2>1, <2>2, <2>3, <2>4 DEF Capture
<1>2. CASE Shutdown
  BY <1>2 DEF Shutdown, DropSlot, DropChannels, DropRuntime
<1>3. ASSUME NEW t \in Turns, TurnStep(t) PROVE TypeOK'
  <2> USE DEF Advance, Polled, LeaveRunTurn
  <2>1. CASE Resolved(t) \/ Connected(t) \/ NoConnection(t) \/ Transcript(t)
    BY <2>1 DEF Resolved, Connected, NoConnection, Transcript
  <2>2. CASE AudioStart(t)
    BY <2>2 DEF AudioStart
  <2>11. CASE Listen(t)
    BY <2>11 DEF Listen
  <2>3. CASE AudioChunk(t)
    <3>1. CASE Len(ring) < RingCap
      <4>1. ring' = Append(ring, t) /\ turn' = turn
        BY <2>3, <3>1 DEF AudioChunk
      <4>2. ring' \in Seq(Turns) /\ Len(ring') <= RingCap
        BY <3>1, <4>1, AppendFits
      <4>3. QED
        BY <2>3, <4>1, <4>2 DEF AudioChunk
    <3>2. CASE ~(Len(ring) < RingCap)
      BY <2>3, <3>2 DEF AudioChunk
    <3>3. QED
      BY <3>1, <3>2
  <2>4. CASE Unparked(t)
    BY <2>4 DEF Unparked
  <2>5. CASE BlockDropped(t)
    BY <2>5 DEF BlockDropped
  <2>6. CASE ReplyEnds(t) \/ TurnAbandoned(t) \/ BargedIn(t)
    BY <2>6 DEF ReplyEnds, TurnAbandoned, BargedIn
  <2>7. CASE ClearChannels(t) \/ ReleaseSlot(t) \/ TakeRestart(t)
    BY <2>7 DEF ClearChannels, ReleaseSlot, TakeRestart
  <2>8. CASE RestartClaim(t)
    BY <2>8 DEF RestartClaim
  <2>9. CASE \E u \in Turns : RestartSpawn(t, u)
    BY <2>9 DEF RestartSpawn, SpawnTurn
  <2>10. QED
    BY <1>3, <2>1, <2>2, <2>3, <2>4, <2>5, <2>6, <2>7, <2>8, <2>9,
       <2>11 DEF TurnStep
<1>4. ASSUME NEW t \in Turns, WatcherStep(t) PROVE TypeOK'
  BY <1>4 DEF WatcherStep, Drained, FollowupClaim, FollowupSpawn, SpawnTurn
<1>5. CASE Callback
  <2>1. ring' \in Seq(Turns) /\ Len(ring') <= RingCap
    BY <1>5, EmptyFits, TailFits DEF Callback, CallbackFlush, CallbackPlay
  <2>2. QED
    BY <1>5, <2>1 DEF Callback, CallbackFlush, CallbackPlay
<1>6. CASE Wedge
  BY <1>6 DEF Wedge
<1>7. CASE UNCHANGED vars
  BY <1>7 DEF vars
<1>8. QED
  BY <1>1, <1>2, <1>3, <1>4, <1>5, <1>6, <1>7 DEF Next


\* Steps of the slot protocol.  A step that leaves the slot, its holders and
\* the channels alone preserves both invariants about them.
LEMMA SlotStep ==
  TypeOK /\ SlotInv /\ [Next]_vars => SlotInv'
<1> SUFFICES ASSUME TypeOK, SlotInv, [Next]_vars PROVE SlotInv'
  OBVIOUS
<1> USE DEF SlotInv, Up, TurnHolds, LivePcs,
            slotVars, captureVars, turnVars, audioVars
<1>0. turn \in [Turns -> TurnPcs] /\ watcher \in [Turns -> WatcherPcs] /\ active \in BOOLEAN
  BY DEF TypeOK
<1>1. CASE Capture
  <2>1. CASE WakeFlush
    BY <1>0, <2>1 DEF WakeFlush
  <2>2. CASE WakeClaim
    BY <1>0, <2>2 DEF WakeClaim
  <2>3. CASE WakeRefused \/ WakeAsk
    BY <1>0, <2>3 DEF WakeRefused, WakeAsk
  <2>4. CASE WakeInterrupt
    BY <1>0, <2>4 DEF WakeInterrupt
  <2>5. ASSUME NEW u \in Turns, WakeSpawn(u) PROVE SlotInv'
    BY <1>0, <2>5 DEF WakeSpawn, SpawnTurn
  <2>6. QED
    BY <1>1, <2>1, <2>2, <2>3, <2>4, <2>5 DEF Capture
<1>2. CASE Shutdown
  BY <1>0, <1>2 DEF Shutdown, DropSlot, DropChannels, DropRuntime
<1>3. ASSUME NEW t \in Turns, TurnStep(t) PROVE SlotInv'
  <2> USE <1>0 DEF Advance, Polled, LeaveRunTurn
  <2>1. CASE Resolved(t) \/ Connected(t) \/ NoConnection(t) \/ Transcript(t)
    BY <2>1 DEF Resolved, Connected, NoConnection, Transcript
  <2>2. CASE AudioStart(t) \/ Listen(t)
    BY <2>2 DEF AudioStart, Listen
  <2>3. CASE AudioChunk(t)
    BY <2>3 DEF AudioChunk
  <2>4. CASE Unparked(t) \/ BlockDropped(t)
    BY <2>4 DEF Unparked, BlockDropped
  <2>5. CASE ReplyEnds(t) \/ TurnAbandoned(t) \/ BargedIn(t)
    BY <2>5 DEF ReplyEnds, TurnAbandoned, BargedIn
  <2>6. CASE ClearChannels(t)
    BY <2>6 DEF ClearChannels
  <2>7. CASE ReleaseSlot(t)
    BY <2>7 DEF ReleaseSlot
  <2>8. CASE TakeRestart(t)
    BY <2>8 DEF TakeRestart
  <2>9. CASE RestartClaim(t)
    BY <2>9 DEF RestartClaim
  <2>10. ASSUME NEW u \in Turns, RestartSpawn(t, u) PROVE SlotInv'
    BY <2>10 DEF RestartSpawn, SpawnTurn
  <2>11. QED
    BY <1>3, <2>1, <2>2, <2>3, <2>4, <2>5, <2>6, <2>7, <2>8, <2>9, <2>10
       DEF TurnStep
<1>4. ASSUME NEW t \in Turns, WatcherStep(t) PROVE SlotInv'
  <2>1. CASE Drained(t)
    BY <1>0, <2>1 DEF Drained
  <2>2. CASE FollowupClaim(t)
    BY <1>0, <2>2 DEF FollowupClaim
  <2>3. ASSUME NEW u \in Turns, FollowupSpawn(t, u) PROVE SlotInv'
    BY <1>0, <2>3 DEF FollowupSpawn, SpawnTurn
  <2>4. QED
    BY <1>4, <2>1, <2>2, <2>3 DEF WatcherStep
<1>5. CASE Callback \/ Wedge
  BY <1>5 DEF Callback, CallbackFlush, CallbackPlay, Wedge
<1>6. CASE UNCHANGED vars
  BY <1>6 DEF vars
<1>7. QED
  BY <1>1, <1>2, <1>3, <1>4, <1>5, <1>6 DEF Next


\* Every step keeps the installed channels those of the live turn: only the
\* slot's holder installs or clears them.
LEMMA ChannelsStep ==
  TypeOK /\ SlotInv /\ ChannelsReachLiveTurn /\ [Next]_vars
    => ChannelsReachLiveTurn'
<1> SUFFICES ASSUME TypeOK, SlotInv, ChannelsReachLiveTurn, [Next]_vars
             PROVE  ChannelsReachLiveTurn'
  OBVIOUS
<1> USE DEF ChannelsReachLiveTurn, Live, LivePcs, Up,
            slotVars, captureVars, turnVars, audioVars
<1>0. turn \in [Turns -> TurnPcs] /\ watcher \in [Turns -> WatcherPcs]
  BY DEF TypeOK
<1>n. None \notin Turns
  BY DEF None, Turns
<1>1. CASE Capture
  <2>1. CASE WakeFlush \/ WakeClaim \/ WakeRefused \/ WakeAsk \/ WakeInterrupt
    BY <1>0, <2>1 DEF WakeFlush, WakeClaim, WakeRefused, WakeAsk, WakeInterrupt
  <2>2. ASSUME NEW u \in Turns, WakeSpawn(u) PROVE ChannelsReachLiveTurn'
    BY <1>0, <2>2 DEF WakeSpawn, SpawnTurn, SlotInv, TurnHolds
  <2>3. QED
    BY <1>1, <2>1, <2>2 DEF Capture
<1>2. CASE Shutdown
  BY <1>0, <1>2 DEF Shutdown, DropSlot, DropChannels, DropRuntime
<1>3. ASSUME NEW t \in Turns, TurnStep(t) PROVE ChannelsReachLiveTurn'
  <2> USE <1>0 DEF Advance, Polled, LeaveRunTurn
  <2>1. CASE Resolved(t) \/ Connected(t) \/ NoConnection(t) \/ Transcript(t)
    BY <2>1 DEF Resolved, Connected, NoConnection, Transcript
  <2>2. CASE AudioStart(t) \/ Listen(t)
    BY <2>2 DEF AudioStart, Listen
  <2>3. CASE AudioChunk(t)
    BY <2>3 DEF AudioChunk
  <2>4. CASE Unparked(t) \/ BlockDropped(t)
    BY <2>4 DEF Unparked, BlockDropped
  <2>5. CASE ReplyEnds(t) \/ TurnAbandoned(t) \/ BargedIn(t)
    BY <2>5 DEF ReplyEnds, TurnAbandoned, BargedIn
  <2>6. CASE ClearChannels(t)
    BY <2>6, <1>n DEF ClearChannels, SlotInv, TurnHolds
  <2>7. CASE ReleaseSlot(t)
    BY <2>7 DEF ReleaseSlot
  <2>8. CASE TakeRestart(t) \/ RestartClaim(t)
    BY <2>8 DEF TakeRestart, RestartClaim
  <2>10. ASSUME NEW u \in Turns, RestartSpawn(t, u) PROVE ChannelsReachLiveTurn'
    BY <2>10 DEF RestartSpawn, SpawnTurn, SlotInv, TurnHolds
  <2>11. QED
    BY <1>3, <2>1, <2>2, <2>3, <2>4, <2>5, <2>6, <2>7, <2>8, <2>10 DEF TurnStep
<1>4. ASSUME NEW t \in Turns, WatcherStep(t) PROVE ChannelsReachLiveTurn'
  <2>1. CASE Drained(t) \/ FollowupClaim(t)
    BY <1>0, <2>1 DEF Drained, FollowupClaim
  <2>2. ASSUME NEW u \in Turns, FollowupSpawn(t, u) PROVE ChannelsReachLiveTurn'
    BY <1>0, <2>2 DEF FollowupSpawn, SpawnTurn, SlotInv, TurnHolds
  <2>3. QED
    BY <1>4, <2>1, <2>2 DEF WatcherStep
<1>5. CASE Callback \/ Wedge
  BY <1>5 DEF Callback, CallbackFlush, CallbackPlay, Wedge
<1>6. CASE UNCHANGED vars
  BY <1>6 DEF vars
<1>7. QED
  BY <1>1, <1>2, <1>3, <1>4, <1>5, <1>6 DEF Next

\* A quiet ring stays quiet unless some turn submits; the callback only empties
\* it and a wedge is for good.
LEMMA DrainStep ==
  TypeOK /\ DrainInv /\ [Next]_vars => DrainInv'
<1> SUFFICES ASSUME TypeOK, DrainInv, [Next]_vars PROVE DrainInv'
  OBVIOUS
<1> USE DEF DrainInv, slotVars, captureVars, turnVars, audioVars
<1>0. watcher \in [Turns -> WatcherPcs] /\ turn \in [Turns -> TurnPcs]
  BY DEF TypeOK
<1>1. CASE Capture
  <2>1. UNCHANGED <<watcher, ring, wedged>>
    BY <1>1 DEF Capture, WakeFlush, WakeClaim, WakeRefused, WakeAsk,
                WakeInterrupt, WakeSpawn
  <2>2. QED
    BY <2>1
<1>2. CASE Shutdown
  BY <1>2 DEF Shutdown, DropSlot, DropChannels, DropRuntime
<1>3. ASSUME NEW t \in Turns, TurnStep(t) PROVE DrainInv'
  <2>1. \A u \in Turns : watcher[u] \notin {"checked", "claimed"}
    BY <1>3 DEF TurnStep, MayRun, Advance, Polled, LeaveRunTurn, Resolved,
       Connected, NoConnection, Transcript, AudioStart, Listen, AudioChunk,
       Unparked, BlockDropped, ReplyEnds, TurnAbandoned, BargedIn,
       ClearChannels, ReleaseSlot, TakeRestart, RestartClaim, RestartSpawn
  <2>2. watcher' = watcher \/ watcher' = [watcher EXCEPT ![t] = "draining"]
          \/ watcher' = [watcher EXCEPT ![t] = "none"]
    BY <1>3 DEF TurnStep, MayRun, Advance, Polled, LeaveRunTurn, Resolved,
       Connected, NoConnection, Transcript, AudioStart, Listen, AudioChunk,
       Unparked, BlockDropped, ReplyEnds, TurnAbandoned, BargedIn,
       ClearChannels, ReleaseSlot, TakeRestart, RestartClaim, RestartSpawn
  <2>3. \A u \in Turns : watcher'[u] \notin {"checked", "claimed"}
    BY <1>0, <2>1, <2>2
  <2>4. QED
    BY <2>3
<1>4. ASSUME NEW t \in Turns, WatcherStep(t) PROVE DrainInv'
  <2>1. CASE Drained(t)
    BY <1>0, <2>1 DEF Drained
  <2>2. CASE FollowupClaim(t)
    BY <1>0, <2>2 DEF FollowupClaim
  <2>3. ASSUME NEW u \in Turns, FollowupSpawn(t, u) PROVE DrainInv'
    BY <1>0, <2>3 DEF FollowupSpawn
  <2>4. QED
    BY <1>4, <2>1, <2>2, <2>3 DEF WatcherStep
<1>5. CASE Callback \/ Wedge
  <2>1. CASE CallbackPlay
    <3>1. \A u \in Turns : watcher[u] \notin {"checked", "claimed"}
      BY <2>1 DEF CallbackPlay
    <3>2. QED
      BY <2>1, <3>1 DEF CallbackPlay
  <2>2. CASE CallbackFlush
    BY <2>2 DEF CallbackFlush
  <2>3. CASE Wedge
    BY <2>3 DEF Wedge
  <2>4. QED
    BY <1>5, <2>1, <2>2, <2>3 DEF Callback
<1>6. CASE UNCHANGED vars
  BY <1>6 DEF vars
<1>7. QED
  BY <1>1, <1>2, <1>3, <1>4, <1>5, <1>6 DEF Next


\* Every step keeps the ring quiet while a follow-up listens: only the live
\* turn submits audio, and that turn is the one listening.
LEMMA FollowupStep ==
  TypeOK /\ SlotInv /\ DrainInv /\ FollowupMicIsQuiet /\ [Next]_vars
    => FollowupMicIsQuiet'
<1> SUFFICES ASSUME TypeOK, SlotInv, DrainInv, FollowupMicIsQuiet, [Next]_vars,
                    NEW v \in Turns, Up', followup'[v],
                    turn'[v] \in {"resolving", "connecting", "streaming"}
             PROVE  ring' = << >> \/ wedged'
  BY DEF FollowupMicIsQuiet
<1> USE DEF slotVars, captureVars, turnVars, audioVars
<1>0. /\ turn \in [Turns -> TurnPcs]
      /\ followup \in [Turns -> BOOLEAN]
      /\ wedged \in BOOLEAN
  BY DEF TypeOK
<1>q. ASSUME Up, followup[v], turn[v] \in {"resolving", "connecting", "streaming"}
      PROVE  ring = << >> \/ wedged
  BY <1>q DEF FollowupMicIsQuiet
<1>1. CASE Capture
  <2>1. CASE WakeFlush \/ WakeClaim \/ WakeRefused \/ WakeAsk \/ WakeInterrupt
    BY <1>q, <2>1 DEF WakeFlush, WakeClaim, WakeRefused, WakeAsk,
                      WakeInterrupt, Up
  <2>2. ASSUME NEW u \in Turns, WakeSpawn(u) PROVE ring' = << >> \/ wedged'
    BY <1>0, <1>q, <2>2 DEF WakeSpawn, SpawnTurn, Up
  <2>3. QED
    BY <1>1, <2>1, <2>2 DEF Capture
<1>2. CASE Shutdown
  BY <1>2 DEF Shutdown, DropSlot, DropChannels, DropRuntime, Up
<1>3. ASSUME NEW t \in Turns, TurnStep(t) PROVE ring' = << >> \/ wedged'
  <2> USE <1>0, <1>q DEF Advance, Polled, LeaveRunTurn, Up
  <2>1. CASE Resolved(t) \/ Connected(t) \/ NoConnection(t) \/ Transcript(t)
    BY <2>1 DEF Resolved, Connected, NoConnection, Transcript
  <2>2. CASE AudioStart(t) \/ Listen(t)
    BY <2>2 DEF AudioStart, Listen
  <2>3. CASE AudioChunk(t)
    <3>1. turn[t] = "speaking" /\ UNCHANGED <<followup, capture>>
          /\ (turn' = turn \/ turn' = [turn EXCEPT ![t] = "parked"])
      BY <2>3 DEF AudioChunk
    <3>2. v # t /\ turn[v] = turn'[v]
      BY <3>1
    <3>3. QED
      BY <3>1, <3>2 DEF SlotInv, TurnHolds, LivePcs
  <2>4. CASE Unparked(t)
    <3>1. turn[t] = "parked" /\ UNCHANGED <<followup, capture>>
          /\ turn' = [turn EXCEPT ![t] = "speaking"]
      BY <2>4 DEF Unparked
    <3>2. v # t /\ turn[v] = turn'[v]
      BY <3>1
    <3>3. QED
      BY <3>1, <3>2 DEF SlotInv, TurnHolds, LivePcs
  <2>5. CASE BlockDropped(t) \/ ReplyEnds(t) \/ TurnAbandoned(t) \/ BargedIn(t)
    BY <2>5 DEF BlockDropped, ReplyEnds, TurnAbandoned, BargedIn
  <2>6. CASE \/ ClearChannels(t) \/ ReleaseSlot(t) \/ TakeRestart(t)
             \/ RestartClaim(t)
    BY <2>6 DEF ClearChannels, ReleaseSlot, TakeRestart, RestartClaim
  <2>7. ASSUME NEW u \in Turns, RestartSpawn(t, u)
        PROVE  ring' = << >> \/ wedged'
    BY <2>7 DEF RestartSpawn, SpawnTurn
  <2>8. QED
    BY <1>3, <2>1, <2>2, <2>3, <2>4, <2>5, <2>6, <2>7 DEF TurnStep
<1>4. ASSUME NEW t \in Turns, WatcherStep(t) PROVE ring' = << >> \/ wedged'
  <2>1. CASE Drained(t) \/ FollowupClaim(t)
    BY <1>q, <2>1 DEF Drained, FollowupClaim, Up
  <2>2. ASSUME NEW u \in Turns, FollowupSpawn(t, u)
        PROVE  ring' = << >> \/ wedged'
    <3>1. ring = << >> \/ wedged
      BY <2>2 DEF FollowupSpawn, DrainInv
    <3>2. QED
      BY <2>2, <3>1 DEF FollowupSpawn
  <2>3. QED
    BY <1>4, <2>1, <2>2 DEF WatcherStep
<1>5. CASE Callback \/ Wedge
  <2>1. CASE CallbackPlay
    BY <1>q, <2>1 DEF CallbackPlay, Up
  <2>2. CASE CallbackFlush
    BY <2>2 DEF CallbackFlush
  <2>3. CASE Wedge
    BY <2>3 DEF Wedge
  <2>4. QED
    BY <1>5, <2>1, <2>2, <2>3 DEF Callback
<1>6. CASE UNCHANGED vars
  BY <1>6, <1>q DEF vars, Up
<1>7. QED
  BY <1>1, <1>2, <1>3, <1>4, <1>5, <1>6 DEF Next

\* The inductive invariant holds in every reachable state.
THEOREM Invariance == Spec => []IInv
<1>1. Init => IInv
  BY InitIInv
<1>2. IInv /\ [Next]_vars => IInv'
  BY TypeStep, SlotStep, ChannelsStep, DrainStep, FollowupStep DEF IInv
<1>3. QED
  BY <1>1, <1>2, PTL DEF Spec

\* Every variable keeps its type; the ring never outgrows its capacity.
THEOREM TypeCorrect == Spec => []TypeOK
<1>1. IInv => TypeOK
  BY DEF IInv
<1>2. QED
  BY <1>1, Invariance, PTL

\* SlotInv, stated task by task, is OneHolder stated over the set of holders.
LEMMA SlotInvMeansOneHolder == SlotInv => OneHolder
<1> SUFFICES ASSUME SlotInv, Up PROVE OneHolder
  BY DEF OneHolder
<1> USE DEF SlotInv, Holders, TurnHolds, Live
<1>1. ASSUME NEW x \in Holders, NEW y \in Holders PROVE x = y
  BY DEF LivePcs
<1>2. active <=> Holders # {}
  <2>1. ASSUME active PROVE Holders # {}
    <3>1. CASE capture = "claimed"
      BY <3>1
    <3>2. ASSUME NEW t \in Turns, TurnHolds(t) \/ watcher[t] = "claimed"
          PROVE  Holders # {}
      <4>1. \/ <<"turn", t>> \in Holders
            \/ <<"restart", t>> \in Holders
            \/ <<"watcher", t>> \in Holders
        BY <3>2 DEF LivePcs
      <4>2. QED
        BY <4>1
    <3>3. QED
      BY <2>1, <3>1, <3>2
  <2>2. ASSUME NEW x \in Holders PROVE active
    BY DEF LivePcs
  <2>3. QED
    BY <2>1, <2>2
<1>3. QED
  BY <1>1, <1>2 DEF OneHolder

\* Until shutdown at most one thread or task holds the turn slot, and `active`
\* tells whether one does.
THEOREM OneHolderAlways == Spec => []OneHolder
<1>1. IInv => OneHolder
  BY SlotInvMeansOneHolder DEF IInv
<1>2. QED
  BY <1>1, Invariance, PTL

\* Until shutdown the installed channels are exactly those of the turn in flight.
THEOREM ChannelsAlwaysReachLiveTurn == Spec => []ChannelsReachLiveTurn
<1>1. IInv => ChannelsReachLiveTurn
  BY DEF IInv
<1>2. QED
  BY <1>1, Invariance, PTL

\* A turn opened without a wake word listens in silence.
THEOREM FollowupMicAlwaysQuiet == Spec => []FollowupMicIsQuiet
<1>1. IInv => FollowupMicIsQuiet
  BY DEF IInv
<1>2. QED
  BY <1>1, Invariance, PTL

-----------------------------------------------------------------------------
(* VoiceTurn implements TurnSlot: winning the exchange is Claim, spawning   *)
(* the winner's turn is Open, active.store(false) is Release, the start of  *)
(* Drop is Close; everything else is a stutter.                             *)

slotViews == <<stageView, holdersView, servedView>>

\* A turn task that stays on its side of "live" and of "unborn".
SameSide(t) ==
  /\ turn'[t] \in LivePcs <=> turn[t] \in LivePcs
  /\ turn'[t] = "unborn" <=> turn[t] = "unborn"

\* A step that leaves `active` alone and moves no turn across a side is a
\* stutter of the slot.
LEMMA SlotStutters ==
  ASSUME Up' <=> Up, active' = active, \A t \in Turns : SameSide(t)
  PROVE  UNCHANGED slotViews
<1>1. holdersView' = holdersView
  BY DEF holdersView, Live, SameSide
<1>2. servedView' = servedView
  BY DEF servedView, SameSide
<1>3. stageView' = stageView
  BY DEF stageView, Live, SameSide
<1>4. QED
  BY <1>1, <1>2, <1>3 DEF slotViews

\* The turn u takes the slot a holder has been opening.
LEMMA SlotOpens ==
  ASSUME TypeOK, SlotInv, Up, Up', NEW u \in Turns, turn[u] = "unborn",
         active, active' = active,
         \A t \in Turns : ~Live(t),
         turn'[u] = "resolving", \A t \in Turns \ {u} : SameSide(t)
  PROVE  Slot!Open(u)
<1>1. stageView = "opening" /\ holdersView = {}
  BY DEF stageView, holdersView
<1>2. stageView' = "held"
  BY DEF stageView, Live, LivePcs
<1>3. holdersView' = {u}
  BY DEF holdersView, Live, SameSide, LivePcs
<1>4. u \notin servedView /\ servedView' = servedView
  BY DEF servedView, SameSide, LivePcs
<1>5. QED
  BY <1>1, <1>2, <1>3, <1>4 DEF Slot!Open

\* Every step of the threads is a step of the slot or a stutter.
LEMMA SlotNext ==
  TypeOK /\ SlotInv /\ SlotInv' /\ [Next]_vars => [Slot!Next]_slotViews
<1> SUFFICES ASSUME TypeOK, SlotInv, SlotInv', [Next]_vars
             PROVE  Slot!Next \/ UNCHANGED slotViews
  OBVIOUS
<1> USE DEF slotVars, captureVars, turnVars, audioVars
<1>0. /\ turn \in [Turns -> TurnPcs]
      /\ watcher \in [Turns -> WatcherPcs]
      /\ active \in BOOLEAN
  BY DEF TypeOK
\* Winning `active` turns a free slot into one being opened.
<1>c. ASSUME ~active, active', Up, Up', \A t \in Turns : SameSide(t)
      PROVE  Slot!Claim
  <2>1. \A t \in Turns : ~Live(t) /\ ~Live(t)'
    BY <1>c DEF SlotInv, TurnHolds, Live, SameSide
  <2>2. stageView = "free" /\ stageView' = "opening"
    BY <1>c, <2>1 DEF stageView
  <2>3. UNCHANGED <<holdersView, servedView>>
    BY <1>c DEF holdersView, servedView, Live, SameSide
  <2>4. QED
    BY <2>2, <2>3 DEF Slot!Claim
<1>1. CASE Capture
  <2>1. CASE WakeFlush \/ WakeRefused \/ WakeAsk \/ WakeInterrupt
    <3>1. /\ Up' <=> Up
          /\ active' = active
          /\ turn' = turn
      BY <2>1 DEF WakeFlush, WakeRefused, WakeAsk, WakeInterrupt, Up
    <3>2. QED
      BY <3>1, SlotStutters DEF SameSide
  <2>2. CASE WakeClaim
    <3>1. ~active /\ active' /\ Up /\ Up' /\ turn' = turn
      BY <2>2 DEF WakeClaim, Up
    <3>2. Slot!Claim
      BY <3>1, <1>c DEF SameSide
    <3>3. QED
      BY <3>2 DEF Slot!Next
  <2>3. ASSUME NEW u \in Turns, WakeSpawn(u) PROVE Slot!Next
    <3>1. /\ Up /\ Up' /\ active' = active
          /\ turn[u] = "unborn" /\ turn' = [turn EXCEPT ![u] = "resolving"]
          /\ capture = "claimed"
      BY <2>3 DEF WakeSpawn, SpawnTurn, Up
    <3>2. active /\ \A t \in Turns : ~Live(t)
      BY <3>1 DEF SlotInv, TurnHolds, Live
    <3>3. turn'[u] = "resolving" /\ \A t \in Turns \ {u} : SameSide(t)
      BY <1>0, <3>1 DEF SameSide
    <3>4. QED
      BY <3>1, <3>2, <3>3, SlotOpens DEF Slot!Next
  <2>4. QED
    BY <1>1, <2>1, <2>2, <2>3 DEF Capture
<1>2. CASE Shutdown
  <2>1. CASE DropSlot
    <3>1. Up /\ ~Up'
      BY <2>1 DEF DropSlot, Up
    <3>2. stageView # "closed" /\ stageView' = "closed"
      BY <3>1 DEF stageView
    <3>3. holdersView' = {} /\ servedView' = {}
      BY <3>1 DEF holdersView, servedView
    <3>4. QED
      BY <3>2, <3>3 DEF Slot!Next, Slot!Close
  <2>2. CASE DropChannels \/ DropRuntime
    <3>1. ~Up /\ ~Up'
      BY <2>2 DEF DropChannels, DropRuntime, Up
    <3>2. QED
      BY <3>1 DEF slotViews, stageView, holdersView, servedView
  <2>3. QED
    BY <1>2, <2>1, <2>2 DEF Shutdown
<1>d. ASSUME ~Up, Up' <=> Up PROVE UNCHANGED slotViews
  BY <1>d DEF slotViews, stageView, holdersView, servedView
<1>3. ASSUME NEW t \in Turns, TurnStep(t)
      PROVE  Slot!Next \/ UNCHANGED slotViews
  <2> USE DEF Advance, Polled, LeaveRunTurn
  <2>0. capture' = capture /\ (Up' <=> Up)
    BY <1>3 DEF Up, TurnStep, Resolved, Connected, NoConnection, Transcript,
       AudioStart, Listen, AudioChunk, Unparked, BlockDropped, ReplyEnds,
       TurnAbandoned, BargedIn, ClearChannels, ReleaseSlot, TakeRestart,
       RestartClaim, RestartSpawn
  <2>1. CASE Resolved(t) \/ Connected(t) \/ NoConnection(t) \/ Transcript(t)
    <3>1. active' = active /\ \A u \in Turns : SameSide(u)
      BY <1>0, <2>1 DEF Resolved, Connected, NoConnection, Transcript,
                        SameSide, LivePcs
    <3>2. QED
      BY <2>0, <3>1, SlotStutters
  <2>2. CASE AudioStart(t) \/ Listen(t) \/ AudioChunk(t)
    <3>1. active' = active /\ \A u \in Turns : SameSide(u)
      BY <1>0, <2>2 DEF AudioStart, Listen, AudioChunk, SameSide, LivePcs
    <3>2. QED
      BY <2>0, <3>1, SlotStutters
  <2>3. CASE Unparked(t) \/ BlockDropped(t)
    <3>1. active' = active /\ \A u \in Turns : SameSide(u)
      BY <1>0, <2>3 DEF Unparked, BlockDropped, SameSide, LivePcs
    <3>2. QED
      BY <2>0, <3>1, SlotStutters
  <2>4. CASE ReplyEnds(t) \/ TurnAbandoned(t) \/ BargedIn(t) \/ ClearChannels(t)
    <3>1. active' = active /\ \A u \in Turns : SameSide(u)
      BY <1>0, <2>4 DEF ReplyEnds, TurnAbandoned, BargedIn, ClearChannels,
                        SameSide, LivePcs
    <3>2. QED
      BY <2>0, <3>1, SlotStutters
  <2>5. CASE ReleaseSlot(t)
    <3>1. CASE Up
      <4>1. Live(t) /\ active /\ ~active'
        BY <3>1, <2>5 DEF ReleaseSlot, Live, LivePcs, SlotInv, TurnHolds
      <4>2. \A u \in Turns : Live(u) => u = t
        BY <3>1, <4>1 DEF SlotInv, TurnHolds, Live
      <4>3. turn' = [turn EXCEPT ![t] = "idle"]
        BY <2>5 DEF ReleaseSlot
      <4>4. stageView = "held" /\ stageView' = "free"
        BY <2>0, <3>1, <4>1 DEF stageView
      <4>5. holdersView = {t} /\ holdersView' = {}
        BY <1>0, <2>0, <3>1, <4>1, <4>2, <4>3 DEF holdersView, Live, LivePcs
      <4>6. servedView' = servedView \cup {t}
        BY <1>0, <2>0, <3>1, <4>3 DEF servedView, LivePcs
      <4>7. QED
        BY <4>4, <4>5, <4>6 DEF Slot!Next, Slot!Release
    <3>2. QED
      BY <2>0, <1>d, <3>1
  <2>6. CASE TakeRestart(t)
    <3>1. active' = active /\ \A u \in Turns : SameSide(u)
      BY <1>0, <2>6 DEF TakeRestart, SameSide, LivePcs
    <3>2. QED
      BY <2>0, <3>1, SlotStutters
  <2>7. CASE RestartClaim(t)
    <3>1. active' /\ \A u \in Turns : SameSide(u)
      BY <1>0, <2>7 DEF RestartClaim, SameSide, LivePcs
    <3>2. CASE active
      BY <1>0, <2>0, <2>7, <3>1, <3>2, SlotStutters DEF RestartClaim
    <3>3. CASE ~active
      BY <2>0, <3>1, <3>3, <1>c, <1>d DEF Slot!Next
    <3>4. QED
      BY <3>2, <3>3
  <2>8. ASSUME NEW u \in Turns, RestartSpawn(t, u)
        PROVE  Slot!Next \/ UNCHANGED slotViews
    <3>1. /\ active' = active /\ turn[u] = "unborn" /\ turn[t] = "claimed"
          /\ turn' = [turn EXCEPT ![t] = "done", ![u] = "resolving"]
      BY <2>8 DEF RestartSpawn, SpawnTurn
    <3>2. turn'[u] = "resolving" /\ \A x \in Turns \ {u} : SameSide(x)
      BY <1>0, <3>1 DEF SameSide, LivePcs
    <3>3. CASE Up
      <4>1. active /\ \A x \in Turns : ~Live(x)
        BY <3>1, <3>3 DEF SlotInv, TurnHolds, Live, LivePcs
      <4>2. QED
        BY <2>0, <3>1, <3>2, <3>3, <4>1, SlotOpens DEF Slot!Next
    <3>4. QED
      BY <2>0, <1>d, <3>3
  <2>9. QED
    BY <1>3, <2>1, <2>2, <2>3, <2>4, <2>5, <2>6, <2>7, <2>8 DEF TurnStep
<1>4. ASSUME NEW t \in Turns, WatcherStep(t)
      PROVE  Slot!Next \/ UNCHANGED slotViews
  <2>0. capture' = capture /\ (Up' <=> Up)
    BY <1>4 DEF Up, WatcherStep, Drained, FollowupClaim, FollowupSpawn
  <2>1. CASE Drained(t)
    <3>1. active' = active /\ turn' = turn
      BY <2>1 DEF Drained
    <3>2. QED
      BY <2>0, <3>1, SlotStutters DEF SameSide
  <2>2. CASE FollowupClaim(t)
    <3>1. active' /\ turn' = turn
      BY <2>2 DEF FollowupClaim
    <3>2. CASE active
      BY <1>0, <2>0, <2>2, <3>1, <3>2, SlotStutters DEF FollowupClaim, SameSide
    <3>3. CASE ~active
      BY <2>0, <3>1, <3>3, <1>c, <1>d DEF Slot!Next, SameSide
    <3>4. QED
      BY <3>2, <3>3
  <2>3. ASSUME NEW u \in Turns, FollowupSpawn(t, u)
        PROVE  Slot!Next \/ UNCHANGED slotViews
    <3>1. /\ active' = active /\ turn[u] = "unborn" /\ watcher[t] = "claimed"
          /\ turn' = [turn EXCEPT ![u] = "resolving"]
      BY <2>3 DEF FollowupSpawn, SpawnTurn
    <3>2. turn'[u] = "resolving" /\ \A x \in Turns \ {u} : SameSide(x)
      BY <1>0, <3>1 DEF SameSide
    <3>3. CASE Up
      <4>1. active /\ \A x \in Turns : ~Live(x)
        BY <3>1, <3>3 DEF SlotInv, TurnHolds, Live
      <4>2. QED
        BY <2>0, <3>1, <3>2, <3>3, <4>1, SlotOpens DEF Slot!Next
    <3>4. QED
      BY <2>0, <1>d, <3>3
  <2>4. QED
    BY <1>4, <2>1, <2>2, <2>3 DEF WatcherStep
<1>5. CASE Callback \/ Wedge \/ UNCHANGED vars
  <2>1. /\ Up' <=> Up
        /\ active' = active
        /\ turn' = turn
    BY <1>5 DEF Callback, CallbackFlush, CallbackPlay, Wedge, vars, Up
  <2>2. QED
    BY <2>1, SlotStutters DEF SameSide
<1>6. QED
  BY <1>1, <1>2, <1>3, <1>4, <1>5 DEF Next

\* The three openers and the clean-up together are one slot with one holder,
\* which no turn holds twice.
THEOREM ImplementsTurnSlot == Spec => SlotRefinement
<1>1. Init => Slot!Init
  BY DEF Init, Slot!Init, stageView, holdersView, servedView, Up, Live, LivePcs
<1>2. IInv /\ IInv' /\ [Next]_vars => [Slot!Next]_slotViews
  BY SlotNext DEF IInv
<1>3. QED
  BY <1>1, <1>2, Invariance, PTL DEF Spec, SlotRefinement, Slot!Spec, slotViews

-----------------------------------------------------------------------------
(* The conversation panel.                                                  *)

Queued(t) == \E i \in DOMAIN ring : ring[i] = t

\* A turn with none opened after it.
Newest(t) ==
  turn[t] # "unborn" /\ \A u \in Turns : u > t => turn[u] = "unborn"

\* Turns are born in order, the live one is the newest, and it speaks before
\* it is heard; once its watcher has seen the ring drained it is heard no more.
OrderInv ==
  /\ \A t, u \in Turns : u < t /\ turn[t] # "unborn" => turn[u] # "unborn"
  /\ Up => \A t \in Turns : Live(t) => Newest(t)

HeardInv ==
  \A t \in Turns :
    /\ spoke[t] =>
         turn[t] \notin {"unborn", "resolving", "connecting", "streaming"}
    /\ turn[t] = "parked" \/ Queued(t) => spoke[t]
    /\ watcher[t] # "none" =>
         turn[t] \notin {"unborn", "resolving", "connecting", "streaming",
                         "speaking", "parked"}
    /\ watcher[t] \in {"checked", "claimed", "over"} => wedged \/ ~Queued(t)

TasksInv == IInv /\ OrderInv /\ HeardInv

LEMMA OrderStep == IInv /\ OrderInv /\ [Next]_vars => OrderInv'
<1> SUFFICES ASSUME IInv, OrderInv, [Next]_vars PROVE OrderInv'
  OBVIOUS
<1>1. /\ turn \in [Turns -> TurnPcs] /\ SlotInv
      /\ \A t, u \in Turns : t > u \/ t = u \/ u > t
  BY MaxTurnsAssumption DEF IInv, TypeOK, Turns
<1> USE DEF OrderInv, Newest, Live, LivePcs, Up
<1>2. ASSUME NEW u \in Turns,
             \/ WakeSpawn(u)
             \/ \E t \in Turns : RestartSpawn(t, u) \/ FollowupSpawn(t, u)
      PROVE  OrderInv'
  <2>1. /\ turn[u] = "unborn" /\ turn'[u] = "resolving"
        /\ \A v \in Turns : v < u => turn[v] # "unborn"
        /\ \A v \in Turns : v # u => turn'[v] = turn[v] \/ turn'[v] = "done"
        /\ \A v \in Turns : v # u /\ turn'[v] = "done" => turn[v] # "unborn"
    BY <1>1, <1>2 DEF WakeSpawn, RestartSpawn, FollowupSpawn, SpawnTurn
  <2>2. Up' => Up /\ \A v \in Turns : v # u => ~Live(v)'
    <3>1. CASE WakeSpawn(u)
      BY <1>1, <2>1, <3>1 DEF WakeSpawn, SlotInv, TurnHolds
    <3>2. ASSUME NEW t \in Turns, RestartSpawn(t, u)
          PROVE  Up' => Up /\ \A v \in Turns : v # u => ~Live(v)'
      <4>1. /\ turn[t] = "claimed" /\ t # u /\ capture' = capture
            /\ turn' = [turn EXCEPT ![t] = "done", ![u] = "resolving"]
        BY <2>1, <3>2 DEF RestartSpawn, captureVars
      <4>2. Up => \A v \in Turns : v # t => ~Live(v)
        BY <1>1, <4>1 DEF SlotInv, TurnHolds
      <4>3. QED
        BY <1>1, <4>1, <4>2
    <3>3. ASSUME NEW t \in Turns, FollowupSpawn(t, u)
          PROVE  Up' => Up /\ \A v \in Turns : v # u => ~Live(v)'
      BY <1>1, <2>1, <3>3 DEF FollowupSpawn, SlotInv, TurnHolds, captureVars
    <3>4. QED
      BY <1>2, <3>1, <3>2, <3>3
  <2>3. \A v \in Turns : u < v => turn[v] = "unborn"
    BY <1>1, <2>1
  <2>4. QED
    BY <1>1, <2>1, <2>2, <2>3
<1>3. CASE \A t \in Turns :
             /\ turn'[t] = "unborn" <=> turn[t] = "unborn"
             /\ Up' => Up /\ (Live(t)' => Live(t))
  BY <1>3
<1>4. CASE WakeFlush \/ WakeClaim \/ WakeRefused \/ WakeAsk \/ WakeInterrupt
             \/ Shutdown
  BY <1>3, <1>4 DEF WakeFlush, WakeClaim, WakeRefused, WakeAsk, WakeInterrupt,
     Shutdown, DropSlot, DropChannels, DropRuntime, turnVars
<1>5. CASE Callback \/ Wedge \/ UNCHANGED vars
  BY <1>3, <1>5 DEF Callback, CallbackFlush, CallbackPlay, Wedge, vars,
     captureVars, turnVars
<1>6. ASSUME NEW t \in Turns,
             \/ Resolved(t) \/ Connected(t) \/ NoConnection(t) \/ Transcript(t)
             \/ AudioStart(t) \/ Listen(t) \/ AudioChunk(t) \/ Unparked(t)
             \/ BlockDropped(t) \/ ReplyEnds(t) \/ TurnAbandoned(t)
             \/ BargedIn(t)
      PROVE  OrderInv'
  BY <1>1, <1>3, <1>6
  DEF Resolved, Connected, NoConnection, Transcript, AudioStart, Listen,
      AudioChunk, Unparked, BlockDropped, ReplyEnds, TurnAbandoned, BargedIn,
      Advance, Polled, LeaveRunTurn, captureVars
<1>7. ASSUME NEW t \in Turns,
             \/ ClearChannels(t) \/ ReleaseSlot(t) \/ TakeRestart(t)
             \/ RestartClaim(t)
      PROVE  OrderInv'
  BY <1>1, <1>3, <1>7
  DEF ClearChannels, ReleaseSlot, TakeRestart, RestartClaim, Advance,
      captureVars
<1>8. ASSUME NEW t \in Turns, Drained(t) \/ FollowupClaim(t) PROVE OrderInv'
  BY <1>3, <1>8 DEF Drained, FollowupClaim, captureVars, turnVars
<1>9. QED
  BY <1>2, <1>4, <1>5, <1>6, <1>7, <1>8
  DEF Next, Capture, TurnStep, WatcherStep

LEMMA HeardStep == TypeOK /\ HeardInv /\ [Next]_vars => HeardInv'
<1> SUFFICES ASSUME TypeOK, HeardInv, [Next]_vars PROVE HeardInv'
  OBVIOUS
<1>1. /\ turn \in [Turns -> TurnPcs] /\ spoke \in [Turns -> BOOLEAN]
      /\ watcher \in [Turns -> WatcherPcs] /\ ring \in Seq(Turns)
  BY DEF TypeOK
<1>2. CASE ring' = ring /\ (wedged => wedged')
  <2>1. \A t \in Turns : Queued(t)' <=> Queued(t)
    BY <1>2 DEF Queued
  <2> USE DEF HeardInv
  <2>2. CASE WakeFlush \/ WakeClaim \/ WakeRefused \/ WakeAsk \/ WakeInterrupt
               \/ Shutdown
    BY <1>2, <2>1, <2>2 DEF WakeFlush, WakeClaim, WakeRefused, WakeAsk,
       WakeInterrupt, Shutdown, DropSlot, DropChannels, DropRuntime, turnVars
  <2>3. ASSUME NEW u \in Turns, WakeSpawn(u) PROVE HeardInv'
    BY <1>1, <1>2, <2>1, <2>3 DEF WakeSpawn, SpawnTurn
  <2>4. ASSUME NEW t \in Turns, NEW u \in Turns, RestartSpawn(t, u)
        PROVE  HeardInv'
    BY <1>1, <1>2, <2>1, <2>4 DEF RestartSpawn, SpawnTurn
  <2>5. ASSUME NEW t \in Turns, NEW u \in Turns, FollowupSpawn(t, u)
        PROVE  HeardInv'
    BY <1>1, <1>2, <2>1, <2>5 DEF FollowupSpawn, SpawnTurn
  <2>6. ASSUME NEW t \in Turns,
               Resolved(t) \/ Connected(t) \/ Transcript(t) \/ AudioStart(t)
        PROVE  HeardInv'
    BY <1>1, <1>2, <2>1, <2>6
    DEF Resolved, Connected, Transcript, AudioStart, Advance, Polled
  <2>7. ASSUME NEW t \in Turns,
               \/ NoConnection(t) \/ ReplyEnds(t) \/ TurnAbandoned(t)
               \/ BargedIn(t)
        PROVE  HeardInv'
    BY <1>1, <1>2, <2>1, <2>7
    DEF NoConnection, ReplyEnds, TurnAbandoned, BargedIn, LeaveRunTurn, Polled
  <2>8. ASSUME NEW t \in Turns, Listen(t) \/ AudioChunk(t) \/ BlockDropped(t)
        PROVE  HeardInv'
    BY <1>1, <1>2, <2>1, <2>8
    DEF Listen, AudioChunk, BlockDropped, Advance, Polled
  <2>9. ASSUME NEW t \in Turns,
               \/ ClearChannels(t) \/ ReleaseSlot(t) \/ TakeRestart(t)
               \/ RestartClaim(t)
        PROVE  HeardInv'
    BY <1>1, <1>2, <2>1, <2>9
    DEF ClearChannels, ReleaseSlot, TakeRestart, RestartClaim, Advance
  <2>10. ASSUME NEW t \in Turns, Drained(t) PROVE HeardInv'
    <3>1. wedged \/ ~Queued(t)
      BY <2>10 DEF Drained, Queued
    <3>2. QED
      BY <1>1, <1>2, <2>1, <2>10, <3>1 DEF Drained, turnVars, WatcherPcs
  <2>11. ASSUME NEW t \in Turns, FollowupClaim(t) PROVE HeardInv'
    BY <1>1, <1>2, <2>1, <2>11 DEF FollowupClaim, turnVars
  <2>12. CASE Wedge \/ UNCHANGED vars
    BY <1>2, <2>1, <2>12 DEF Wedge, vars, turnVars
  <2>13. ASSUME NEW t \in Turns, Unparked(t) PROVE HeardInv'
    <3>1. Len(ring') # Len(ring)
      BY <1>1, <2>13 DEF Unparked
    <3>2. QED
      BY <1>2, <3>1
  <2>14. CASE Callback
    BY <1>2, <2>1, <2>14 DEF Callback, CallbackFlush, CallbackPlay, turnVars
  <2>15. QED
    BY <2>2, <2>3, <2>4, <2>5, <2>6, <2>7, <2>8, <2>9, <2>10, <2>11, <2>12,
       <2>13, <2>14 DEF Next, Capture, TurnStep, WatcherStep
<1>3. ASSUME NEW t \in Turns, AudioChunk(t) \/ Unparked(t),
             ring' = Append(ring, t)
      PROVE  HeardInv'
  <2>1. /\ \A v \in Turns : v # t => (Queued(v)' <=> Queued(v))
        /\ Queued(t)'
    <3>1. /\ Len(ring) \in Nat /\ Len(ring') = Len(ring) + 1
          /\ \A i \in 1 .. Len(ring) : ring'[i] = ring[i]
          /\ ring'[Len(ring) + 1] = t
          /\ DOMAIN ring = 1 .. Len(ring) /\ DOMAIN ring' = 1 .. Len(ring')
      BY <1>1, <1>3
    <3>2. QED
      BY <3>1 DEF Queued
  <2>2. spoke[t] /\ turn[t] \in {"speaking", "parked"}
    BY <1>3 DEF AudioChunk, Unparked, Polled, Advance, HeardInv
  <2>3. QED
    BY <1>1, <1>3, <2>1, <2>2
    DEF HeardInv, AudioChunk, Unparked, Polled, Advance
<1>4. CASE Callback
  <2>1. \A v \in Turns : Queued(v)' => Queued(v)
    <3>1. CASE ring' = << >>
      BY <3>1 DEF Queued
    <3>2. CASE ring # << >> /\ ring' = Tail(ring)
      <4>1. /\ Len(ring) \in Nat /\ Len(ring') = Len(ring) - 1
            /\ \A i \in 1 .. Len(ring') : ring'[i] = ring[i + 1]
            /\ DOMAIN ring = 1 .. Len(ring) /\ DOMAIN ring' = 1 .. Len(ring')
        BY <1>1, <3>2
      <4>2. \A i \in 1 .. Len(ring') : i + 1 \in 1 .. Len(ring)
        BY <4>1
      <4>3. QED
        BY <4>1, <4>2 DEF Queued
    <3>3. QED
      BY <1>4, <3>1, <3>2 DEF Callback, CallbackFlush, CallbackPlay
  <2>2. QED
    BY <1>4, <2>1
    DEF HeardInv, Callback, CallbackFlush, CallbackPlay, turnVars
<1>5. \/ ring' = ring /\ (wedged => wedged')
      \/ Callback
      \/ \E t \in Turns : /\ AudioChunk(t) \/ Unparked(t)
                          /\ ring' = Append(ring, t)
  BY DEF Next, Capture, Shutdown, TurnStep, WatcherStep, Wedge, vars,
     audioVars, WakeFlush, WakeClaim, WakeRefused, WakeAsk, WakeInterrupt,
     WakeSpawn, DropSlot, DropChannels, DropRuntime, Resolved, Connected,
     NoConnection, Transcript, AudioStart, Listen, AudioChunk, Unparked,
     BlockDropped, ReplyEnds, TurnAbandoned, BargedIn, ClearChannels,
     ReleaseSlot, TakeRestart, RestartClaim, RestartSpawn, Drained,
     FollowupClaim, FollowupSpawn
<1>6. QED
  BY <1>2, <1>3, <1>4, <1>5

\* The panel's steps are steps of the threads, or leave them alone.
LEMMA PanelSteps ==
  [TurnScreenNext]_<<vars, panelVars>> => [Next]_vars
<1> SUFFICES ASSUME TurnScreenNext PROVE [Next]_vars
  BY DEF panelVars
<1>1. CASE Handle
  BY <1>1 DEF Handle, Handled, OnOpening, OnConnecting, OnStreaming,
     OnTranscript, OnReplyToken, OnSpeaking, OnSpeakingDone, OnDisconnected,
     OnStopped
<1>2. CASE DetectedEmitted \/ StoppedEmitted \/ SilentStep
  BY <1>2 DEF DetectedEmitted, StoppedEmitted, SilentStep, Next, Capture,
     Shutdown, TurnStep, WatcherStep
<1>3. ASSUME NEW t \in Turns,
             \/ OpenedByWake(t) \/ FollowupEmitted(t) \/ ConnectingEmitted(t)
             \/ NoConnectionEmitted(t) \/ StreamingEmitted(t)
             \/ TranscriptEmitted(t) \/ ReplyTokenEmitted(t)
             \/ SpeakingEmitted(t) \/ EndEmitted(t) \/ BargedInEmitted(t)
             \/ DrainedEmitted(t)
      PROVE  [Next]_vars
  BY <1>3 DEF OpenedByWake, FollowupEmitted, ConnectingEmitted,
     NoConnectionEmitted, StreamingEmitted, TranscriptEmitted,
     ReplyTokenEmitted, SpeakingEmitted, EndEmitted, BargedInEmitted,
     DrainedEmitted, Next, Capture, TurnStep, WatcherStep
<1>4. QED
  BY <1>1, <1>2, <1>3 DEF TurnScreenNext

LEMMA InitTasks == Init => TasksInv
<1>1. Init => IInv
  BY InitIInv
<1>2. Init => OrderInv
  BY DEF Init, OrderInv, Live, LivePcs
<1>3. Init => HeardInv
  BY DEF Init, HeardInv, Queued
<1>4. QED
  BY <1>1, <1>2, <1>3 DEF TasksInv

-----------------------------------------------------------------------------
(* The stream.                                                              *)

PanelKinds == {"detected", "listeningFollowup", "connecting", "streaming",
               "transcript", "replyToken", "speaking", "speakingDone",
               "complete", "failed", "stopped"}

PanelEvents == [kind : PanelKinds, turn : Turns \union {None}]

\* Words have their turn, and the engine stops only when nobody listens.
StreamInv ==
  \A i \in 1 .. Len(events) :
    /\ events[i].kind = "replyToken" => events[i].turn \in Turns
    /\ Up => events[i].kind # "stopped"

LEMMA Emits ==
  ASSUME PanelTypeOK, NEW kind \in PanelKinds, NEW t \in Turns \union {None},
         Emit(kind, t)
  PROVE  /\ Len(events) \in Nat /\ Len(events') = Len(events) + 1
         /\ \A i \in 1 .. Len(events) : events'[i] = events[i]
         /\ events'[Len(events) + 1] = Event(kind, t)
         /\ events' \in Seq(PanelEvents)
<1>1. events \in Seq(PanelEvents) /\ events' = Append(events, Event(kind, t))
  BY DEF PanelTypeOK, PanelEvents, PanelKinds, Emit
<1>2. Event(kind, t) \in PanelEvents
  BY DEF Event, PanelEvents
<1>3. QED
  BY <1>1, <1>2

\* While the display is up there is an event to read, and it is not the last.
LEMMA ReadsOn ==
  ASSUME PanelTypeOK, StreamInv, Up, Handle
  PROVE  /\ ~OnStopped /\ Handled
         /\ Len(events) \in Nat \ {0} /\ Len(events') = Len(events) - 1
         /\ \A i \in 1 .. Len(events') : events'[i] = events[i + 1]
         /\ Head(events) = events[1] /\ events[1] \in PanelEvents
         /\ events' \in Seq(PanelEvents)
<1>1. events \in Seq(PanelEvents) /\ events # << >>
  BY DEF PanelTypeOK, PanelEvents, PanelKinds, Handle, Handles, OnOpening,
     OnConnecting, OnStreaming, OnTranscript, OnReplyToken, OnSpeaking,
     OnSpeakingDone, OnDisconnected, OnStopped
<1>2. 1 \in 1 .. Len(events) /\ Head(events) = events[1]
  BY <1>1
<1>3. ~OnStopped
  BY <1>2 DEF OnStopped, Handles, StreamInv
<1>4. Handled
  BY <1>3 DEF Handle, OnOpening, OnConnecting, OnStreaming, OnTranscript,
     OnReplyToken, OnSpeaking, OnSpeakingDone, OnDisconnected
<1>5. QED
  BY <1>1, <1>3, <1>4 DEF Handled

-----------------------------------------------------------------------------
(* What a turn has told the panel, read or not.                             *)

\* The transcript is up, or is among the first n unread events; and after it
\* come only words and older turns' silences.
ToldBy(t, n) ==
  \E i \in 0 .. n :
    /\ IF i = 0 THEN transcript = t /\ turnPhase = "thinking"
                ELSE events[i] = Event("transcript", t)
    /\ \A j \in i + 1 .. n : events[j].kind \in {"replyToken", "speakingDone"}

\* So is the start of its audio, after the transcript.
SpeaksOn(t) ==
  \E k \in 0 .. Len(events) :
    /\ IF k = 0 THEN transcript = t /\ audioPlaying
                ELSE events[k].kind = "speaking" /\ ToldBy(t, k - 1)
    /\ \A j \in k + 1 .. Len(events) :
         events[j].kind \in {"replyToken", "complete"}

\* The words of a turn are not up once the panel has caught up, unless no
\* opening event followed them.
Gone(v) ==
  \/ /\ v \notin reply
     /\ \A j \in 1 .. Len(events) :
          events[j].kind = "replyToken" => events[j].turn # v
  \/ \E o \in 1 .. Len(events) :
       /\ events[o].kind \in {"detected", "listeningFollowup"}
       /\ \A j \in o + 1 .. Len(events) :
            events[j].kind = "replyToken" => events[j].turn # v

WordsInv == Up => \A v \in Turns \ uncleared : Gone(v)

\* The newest turn, unless it is excused.
PanelOK(t) ==
  t \notin excused /\ Newest(t) =>
    /\ turn[t] = "speaking" /\ ~spoke[t] => ToldBy(t, Len(events))
    /\ spoke[t] /\ watcher[t] \in {"none", "draining"} => SpeaksOn(t)
    /\ Ready(t) => uncleared \subseteq {t}

PanelInv == Up => \A t \in Turns : PanelOK(t)

\* A turn still heard after another has been opened is excused.
OvertakenInv ==
  Up /\ ~wedged =>
    \A t \in Turns \ excused : Queued(t) => Newest(t)

\* A follow-up announces itself first.
GreetedInv ==
  \A t \in Turns :
    /\ t \in greeted => turn[t] # "unborn"
    /\ turn[t] \notin {"unborn", "resolving"} => Ready(t)

PanelIInv ==
  /\ TasksInv /\ PanelTypeOK /\ StreamInv /\ WordsInv /\ PanelInv
  /\ OvertakenInv /\ GreetedInv

LEMMA InitPanel == TurnScreenInit => PanelIInv
<1> SUFFICES ASSUME TurnScreenInit PROVE PanelIInv
  OBVIOUS
<1> USE DEF TurnScreenInit
<1>1. TasksInv
  BY InitTasks
<1>2. Len(events) = 0 /\ Len(ring) = 0 /\ DOMAIN ring = {}
  BY DEF Init
<1>3. \A t \in Turns : turn[t] = "unborn"
  BY DEF Init
<1>4. PanelTypeOK
  <2>1. events \in Seq(PanelEvents)
    OBVIOUS
  <2>2. QED
    BY <2>1 DEF PanelTypeOK, PanelEvents, PanelKinds
<1>5. StreamInv /\ WordsInv
  BY <1>2 DEF StreamInv, WordsInv, Gone
<1>6. PanelInv /\ GreetedInv
  BY <1>3 DEF PanelInv, PanelOK, Newest, GreetedInv
<1>7. OvertakenInv
  BY <1>2 DEF OvertakenInv, Queued
<1>8. QED
  BY <1>1, <1>4, <1>5, <1>6, <1>7 DEF PanelIInv

-----------------------------------------------------------------------------
(* The stream moves on.                                                     *)

\* An event that is sent takes nothing back.
LEMMA ToldStays ==
  ASSUME NEW t, NEW n \in Nat, ToldBy(t, n),
         \A i \in 1 .. n : events'[i] = events[i],
         UNCHANGED <<transcript, turnPhase>>
  PROVE  ToldBy(t, n)'
BY DEF ToldBy, Event

\* An event that is read brings the panel where it said.
LEMMA ToldRead ==
  ASSUME PanelTypeOK, StreamInv, Up, NEW t \in Turns, NEW n \in Nat,
         n + 1 <= Len(events), ToldBy(t, n + 1), Handle
  PROVE  ToldBy(t, n)'
<1>1. PICK i \in 0 .. n + 1 :
        /\ IF i = 0 THEN transcript = t /\ turnPhase = "thinking"
                    ELSE events[i] = Event("transcript", t)
        /\ \A j \in i + 1 .. n + 1 :
             events[j].kind \in {"replyToken", "speakingDone"}
  BY DEF ToldBy
<1>2. ~OnStopped
  BY ReadsOn
<1>3. /\ Len(events) \in Nat \ {0} /\ Len(events') = Len(events) - 1
      /\ \A j \in 1 .. Len(events') : events'[j] = events[j + 1]
      /\ Head(events) = events[1]
  BY ReadsOn
<1>4. \A j \in 1 .. n : events'[j] = events[j + 1]
  BY <1>3
<1>5. CASE i = 0
  <2>1. events[1].kind \in {"replyToken", "speakingDone"}
    BY <1>1, <1>5
  <2>2. transcript' = t /\ turnPhase' = "thinking"
    BY <1>1, <1>2, <1>3, <1>5, <2>1
    DEF Handle, Handles, OnOpening, OnConnecting, OnStreaming,
        OnTranscript, OnReplyToken, OnSpeaking, OnSpeakingDone, OnDisconnected
  <2>3. \A j \in 1 .. n : events'[j].kind \in {"replyToken", "speakingDone"}
    BY <1>1, <1>4, <1>5
  <2>4. QED
    BY <2>2, <2>3 DEF ToldBy
<1>6. CASE i = 1
  <2>1. events[1] = Event("transcript", t)
    BY <1>1, <1>6
  <2>2. transcript' = t /\ turnPhase' = "thinking"
    BY <1>2, <1>3, <2>1
    DEF Event, Handle, Handles, OnOpening, OnConnecting, OnStreaming,
        OnTranscript, OnReplyToken, OnSpeaking, OnSpeakingDone, OnDisconnected
  <2>3. \A j \in 1 .. n : events'[j].kind \in {"replyToken", "speakingDone"}
    BY <1>1, <1>4, <1>6
  <2>4. QED
    BY <2>2, <2>3 DEF ToldBy
<1>7. CASE i > 1
  <2>1. /\ i - 1 \in 0 .. n /\ i - 1 # 0
        /\ events'[i - 1] = Event("transcript", t)
    BY <1>1, <1>4, <1>7
  <2>2. \A j \in (i - 1) + 1 .. n :
          events'[j].kind \in {"replyToken", "speakingDone"}
    BY <1>1, <1>4, <1>7
  <2>3. \E m \in 0 .. n :
          /\ IF m = 0 THEN transcript' = t /\ turnPhase' = "thinking"
                      ELSE events'[m] = Event("transcript", t)
          /\ \A j \in m + 1 .. n :
               events'[j].kind \in {"replyToken", "speakingDone"}
    BY <2>1, <2>2
  <2>4. QED
    BY <2>3 DEF ToldBy, Event
<1>8. QED
  BY <1>1, <1>5, <1>6, <1>7

LEMMA SpeaksRead ==
  ASSUME PanelTypeOK, StreamInv, Up, NEW t \in Turns, SpeaksOn(t), Handle
  PROVE  SpeaksOn(t)'
<1>1. PICK k \in 0 .. Len(events) :
        /\ IF k = 0 THEN transcript = t /\ audioPlaying
                    ELSE events[k].kind = "speaking" /\ ToldBy(t, k - 1)
        /\ \A j \in k + 1 .. Len(events) :
             events[j].kind \in {"replyToken", "complete"}
  BY DEF SpeaksOn
<1>2. /\ ~OnStopped
      /\ Len(events) \in Nat \ {0} /\ Len(events') = Len(events) - 1
      /\ \A i \in 1 .. Len(events') : events'[i] = events[i + 1]
      /\ Head(events) = events[1]
  BY ReadsOn
<1>3. CASE k <= 1
  <2>1. ASSUME k = 0 PROVE transcript' = t /\ audioPlaying'
    <3>1. Head(events).kind \in {"replyToken", "complete"}
      BY <1>1, <1>2, <2>1
    <3>2. transcript = t /\ audioPlaying
      BY <1>1, <2>1
    <3>3. OnReplyToken \/ (OnDisconnected /\ Head(events).kind = "complete")
      <4>1. /\ ~OnOpening /\ ~OnConnecting /\ ~OnStreaming /\ ~OnTranscript
            /\ ~OnSpeaking /\ ~OnSpeakingDone
        BY <3>1 DEF Handles, OnOpening, OnConnecting, OnStreaming,
           OnTranscript, OnSpeaking, OnSpeakingDone
      <4>2. OnDisconnected => Head(events).kind # "replyToken"
        BY DEF Handles, OnDisconnected
      <4>3. OnReplyToken \/ OnDisconnected
        BY <1>2, <4>1, Zenon DEF Handle
      <4>4. QED
        BY <3>1, <4>2, <4>3
    <3>4. CASE OnReplyToken
      BY <3>2, <3>4, Zenon DEF OnReplyToken
    <3>5. CASE OnDisconnected /\ Head(events).kind = "complete"
      <4>1. transcript' = transcript
        BY <3>5 DEF OnDisconnected
      <4>2. audioPlaying'
        BY <3>2, <3>5, Zenon DEF OnDisconnected
      <4>3. QED
        BY <3>2, <4>1, <4>2
    <3>6. QED
      BY <3>3, <3>4, <3>5
  <2>2. ASSUME k = 1 PROVE transcript' = t /\ audioPlaying'
    <3>1. events[1].kind = "speaking" /\ ToldBy(t, 0)
      BY <1>1, <2>2
    <3>2. transcript = t
      BY <3>1 DEF ToldBy
    <3>3. QED
      BY <1>2, <3>1, <3>2
      DEF Handle, Handles, OnOpening, OnConnecting, OnStreaming,
          OnTranscript, OnReplyToken, OnSpeaking, OnSpeakingDone,
          OnDisconnected
  <2>3. transcript' = t /\ audioPlaying'
    BY <1>1, <1>3, <2>1, <2>2
  <2>4. \A j \in 1 .. Len(events') :
          events'[j].kind \in {"replyToken", "complete"}
    BY <1>1, <1>2, <1>3
  <2>5. 0 \in 0 .. Len(events')
    BY <1>2
  <2>6. QED
    BY <2>3, <2>4, <2>5 DEF SpeaksOn
<1>4. CASE k > 1
  <2>1. /\ k - 2 \in Nat /\ k - 1 = (k - 2) + 1 /\ k - 1 # 0
        /\ k - 1 \in 0 .. Len(events')
        /\ (k - 2) + 1 <= Len(events) /\ (k - 1) - 1 = k - 2
    BY <1>1, <1>2, <1>4
  <2>2. ToldBy(t, (k - 2) + 1)
    BY <1>1, <1>4, <2>1
  <2>3. ASSUME NEW n \in Nat, n = k - 2 PROVE ToldBy(t, n)'
    BY <2>1, <2>2, <2>3, ToldRead
  <2>4. events'[k - 1].kind = "speaking"
    BY <1>1, <1>2, <1>4
  <2>5. \A j \in (k - 1) + 1 .. Len(events') :
          events'[j].kind \in {"replyToken", "complete"}
    BY <1>1, <1>2, <1>4
  <2>6. PICK m \in Nat : m = k - 1
    BY <2>1
  <2>7. /\ m # 0 /\ m \in 0 .. Len(events') /\ events'[m].kind = "speaking"
        /\ \A j \in m + 1 .. Len(events') :
             events'[j].kind \in {"replyToken", "complete"}
    BY <2>1, <2>4, <2>5, <2>6
  <2>8. m - 1 \in Nat /\ m - 1 = k - 2
    BY <2>1, <2>6
  <2>9. ToldBy(t, m - 1)'
    BY <2>3, <2>8
  <2>10. QED
    BY <2>7, <2>9 DEF SpeaksOn
<1>5. QED
  BY <1>1, <1>3, <1>4

\* More words, or the turn's end, after its audio has started.
LEMMA SpeaksGrows ==
  ASSUME PanelTypeOK, NEW t \in Turns, SpeaksOn(t),
         NEW kind \in {"replyToken", "complete"}, Emit(kind, t),
         UNCHANGED screenVars
  PROVE  SpeaksOn(t)'
<1>1. PICK k \in 0 .. Len(events) :
        /\ IF k = 0 THEN transcript = t /\ audioPlaying
                    ELSE events[k].kind = "speaking" /\ ToldBy(t, k - 1)
        /\ \A j \in k + 1 .. Len(events) :
             events[j].kind \in {"replyToken", "complete"}
  BY DEF SpeaksOn
<1>2. /\ Len(events) \in Nat /\ Len(events') = Len(events) + 1
      /\ \A i \in 1 .. Len(events) : events'[i] = events[i]
      /\ events'[Len(events) + 1] = Event(kind, t)
  BY Emits DEF PanelKinds
<1>3. /\ k \in 0 .. Len(events')
      /\ \A j \in k + 1 .. Len(events') :
           events'[j].kind \in {"replyToken", "complete"}
  BY <1>1, <1>2 DEF Event
<1>4. k # 0 => events'[k].kind = "speaking" /\ ToldBy(t, k - 1)'
  <2> SUFFICES ASSUME k # 0
               PROVE  events'[k].kind = "speaking" /\ ToldBy(t, k - 1)'
    OBVIOUS
  <2>1. /\ k - 1 \in Nat /\ \A i \in 1 .. k - 1 : events'[i] = events[i]
        /\ ToldBy(t, k - 1) /\ events'[k] = events[k]
    BY <1>1, <1>2
  <2>2. QED
    BY <1>1, <2>1, ToldStays DEF screenVars
<1>5. k = 0 => transcript' = t /\ audioPlaying'
  BY <1>1 DEF screenVars
<1>6. QED
  BY <1>3, <1>4, <1>5 DEF SpeaksOn

\* The turn is told, and its audio starts.
LEMMA SpeaksStarts ==
  ASSUME PanelTypeOK, NEW t \in Turns, ToldBy(t, Len(events)),
         Emit("speaking", t), UNCHANGED screenVars
  PROVE  SpeaksOn(t)'
<1>1. /\ Len(events) \in Nat /\ Len(events') = Len(events) + 1
      /\ \A i \in 1 .. Len(events) : events'[i] = events[i]
      /\ events'[Len(events) + 1] = Event("speaking", t)
  BY Emits DEF PanelKinds
<1>2. PICK n \in Nat : n = Len(events)
  BY <1>1
<1>3. ToldBy(t, n)'
  BY <1>1, <1>2, ToldStays DEF screenVars
<1>4. /\ n + 1 \in 0 .. Len(events') /\ n + 1 # 0 /\ (n + 1) - 1 = n
      /\ events'[n + 1].kind = "speaking"
      /\ \A j \in (n + 1) + 1 .. Len(events') : FALSE
  BY <1>1, <1>2 DEF Event
<1>5. ToldBy(t, (n + 1) - 1)'
  BY <1>3, <1>4
<1>6. QED
  BY <1>4, <1>5 DEF SpeaksOn

\* More words, or an older turn's silence, after the transcript.
LEMMA ToldOn ==
  ASSUME PanelTypeOK, NEW t \in Turns, ToldBy(t, Len(events)),
         NEW kind \in {"replyToken", "speakingDone"}, NEW u \in Turns,
         Emit(kind, u), UNCHANGED screenVars
  PROVE  ToldBy(t, Len(events))'
<1>1. /\ Len(events) \in Nat /\ Len(events') = Len(events) + 1
      /\ \A i \in 1 .. Len(events) : events'[i] = events[i]
      /\ events'[Len(events) + 1] = Event(kind, u)
  BY Emits DEF PanelKinds
<1>2. PICK i \in 0 .. Len(events) :
        /\ IF i = 0 THEN transcript = t /\ turnPhase = "thinking"
                    ELSE events[i] = Event("transcript", t)
        /\ \A j \in i + 1 .. Len(events) :
             events[j].kind \in {"replyToken", "speakingDone"}
  BY DEF ToldBy
<1>3. /\ i \in 0 .. Len(events')
      /\ IF i = 0 THEN transcript' = t /\ turnPhase' = "thinking"
                  ELSE events'[i] = Event("transcript", t)
      /\ \A j \in i + 1 .. Len(events') :
           events'[j].kind \in {"replyToken", "speakingDone"}
  BY <1>1, <1>2 DEF Event, screenVars
<1>4. QED
  BY <1>3 DEF ToldBy, Event

LEMMA ToldStarts ==
  ASSUME PanelTypeOK, NEW t \in Turns, Emit("transcript", t)
  PROVE  ToldBy(t, Len(events))'
<1>1. /\ Len(events) \in Nat /\ Len(events') = Len(events) + 1
      /\ events'[Len(events) + 1] = Event("transcript", t)
  BY Emits DEF PanelKinds
<1>2. /\ Len(events') \in 0 .. Len(events') /\ Len(events') # 0
      /\ events'[Len(events')] = Event("transcript", t)
      /\ \A j \in Len(events') + 1 .. Len(events') : FALSE
  BY <1>1
<1>3. QED
  BY <1>2 DEF ToldBy, Event

-----------------------------------------------------------------------------
(* The words.                                                               *)

LEMMA GoneRead ==
  ASSUME PanelTypeOK, StreamInv, Up, NEW v \in Turns, Gone(v), Handle
  PROVE  Gone(v)'
<1>1. /\ ~OnStopped
      /\ Len(events) \in Nat \ {0} /\ Len(events') = Len(events) - 1
      /\ \A i \in 1 .. Len(events') : events'[i] = events[i + 1]
      /\ Head(events) = events[1]
  BY ReadsOn
<1>2. ASSUME v \notin reply,
             \A j \in 1 .. Len(events) :
               events[j].kind = "replyToken" => events[j].turn # v
      PROVE  Gone(v)'
  <2>1. \A j \in 1 .. Len(events') :
          events'[j].kind = "replyToken" => events'[j].turn # v
    BY <1>1, <1>2
  <2>2. events[1].kind = "replyToken" => events[1].turn # v
    BY <1>1, <1>2
  <2>3. v \notin reply'
    BY <1>1, <1>2, <2>2
    DEF Handle, Handles, OnOpening, OnConnecting, OnStreaming, OnTranscript,
        OnReplyToken, OnSpeaking, OnSpeakingDone, OnDisconnected
  <2>4. QED
    BY <2>1, <2>3 DEF Gone
<1>3. ASSUME NEW o \in 1 .. Len(events),
             events[o].kind \in {"detected", "listeningFollowup"},
             \A j \in o + 1 .. Len(events) :
               events[j].kind = "replyToken" => events[j].turn # v
      PROVE  Gone(v)'
  <2>1. CASE o = 1
    <3>1. v \notin reply'
      BY <1>1, <1>3, <2>1
      DEF Handle, Handles, OnOpening, OnConnecting, OnStreaming, OnTranscript,
          OnReplyToken, OnSpeaking, OnSpeakingDone, OnDisconnected
    <3>2. \A j \in 1 .. Len(events') :
            events'[j].kind = "replyToken" => events'[j].turn # v
      BY <1>1, <1>3, <2>1
    <3>3. QED
      BY <3>1, <3>2 DEF Gone
  <2>2. CASE o # 1
    <3>1. /\ o - 1 \in 1 .. Len(events')
          /\ events'[o - 1].kind \in {"detected", "listeningFollowup"}
          /\ \A j \in (o - 1) + 1 .. Len(events') :
               events'[j].kind = "replyToken" => events'[j].turn # v
      BY <1>1, <1>3, <2>2
    <3>2. QED
      BY <3>1 DEF Gone
  <2>3. QED
    BY <2>1, <2>2
<1>4. QED
  BY <1>2, <1>3 DEF Gone

\* An event that is sent takes no words back, but those it brings.
LEMMA GoneStays ==
  ASSUME PanelTypeOK, NEW v \in Turns, NEW kind \in PanelKinds,
         NEW t \in Turns \union {None}, Emit(kind, t), UNCHANGED screenVars,
         \/ kind \in {"detected", "listeningFollowup"}
         \/ Gone(v) /\ (kind = "replyToken" => t # v)
  PROVE  Gone(v)'
<1>1. /\ Len(events) \in Nat /\ Len(events') = Len(events) + 1
      /\ \A i \in 1 .. Len(events) : events'[i] = events[i]
      /\ events'[Len(events) + 1].kind = kind
      /\ events'[Len(events) + 1].turn = t
  <2>1. /\ Event(kind, t).kind = kind
        /\ Event(kind, t).turn = t
    BY DEF Event
  <2>2. QED
    BY <2>1, Emits
<1>2. CASE kind \in {"detected", "listeningFollowup"}
  <2>1. /\ Len(events') \in 1 .. Len(events')
        /\ events'[Len(events')].kind \in {"detected", "listeningFollowup"}
        /\ \A j \in Len(events') + 1 .. Len(events') : FALSE
    BY <1>1, <1>2
  <2>2. QED
    BY <2>1 DEF Gone
<1>3. ASSUME v \notin reply, kind = "replyToken" => t # v,
             \A j \in 1 .. Len(events) :
               events[j].kind = "replyToken" => events[j].turn # v
      PROVE  Gone(v)'
  <2>1. \A j \in 1 .. Len(events') :
          events'[j].kind = "replyToken" => events'[j].turn # v
    BY <1>1, <1>3
  <2>2. QED
    BY <1>3, <2>1 DEF Gone, screenVars
<1>4. ASSUME NEW o \in 1 .. Len(events), kind = "replyToken" => t # v,
             events[o].kind \in {"detected", "listeningFollowup"},
             \A j \in o + 1 .. Len(events) :
               events[j].kind = "replyToken" => events[j].turn # v
      PROVE  Gone(v)'
  <2>1. /\ o \in 1 .. Len(events')
        /\ events'[o].kind \in {"detected", "listeningFollowup"}
        /\ \A j \in o + 1 .. Len(events') :
             events'[j].kind = "replyToken" => events'[j].turn # v
    BY <1>1, <1>4
  <2>2. QED
    BY <2>1 DEF Gone
<1>5. QED
  BY <1>2, <1>3, <1>4 DEF Gone

LEMMA StreamStays ==
  ASSUME PanelTypeOK, StreamInv, NEW kind \in PanelKinds,
         NEW t \in Turns \union {None}, Emit(kind, t), Up' => Up,
         kind = "replyToken" => t \in Turns, kind = "stopped" => ~Up'
  PROVE  StreamInv'
<1>1. /\ Len(events) \in Nat /\ Len(events') = Len(events) + 1
      /\ \A i \in 1 .. Len(events) : events'[i] = events[i]
      /\ events'[Len(events) + 1].kind = kind
      /\ events'[Len(events) + 1].turn = t
  <2>1. /\ Event(kind, t).kind = kind
        /\ Event(kind, t).turn = t
    BY DEF Event
  <2>2. QED
    BY <2>1, Emits
<1>2. ASSUME NEW i \in 1 .. Len(events')
      PROVE  /\ events'[i].kind = "replyToken" => events'[i].turn \in Turns
             /\ Up' => events'[i].kind # "stopped"
  <2>1. CASE i \in 1 .. Len(events)
    BY <1>1, <2>1 DEF StreamInv
  <2>2. CASE i = Len(events) + 1
    BY <1>1, <2>2
  <2>3. QED
    BY <1>1, <2>1, <2>2
<1>3. QED
  BY <1>2 DEF StreamInv

-----------------------------------------------------------------------------
(* The steps.                                                               *)

\* What the stream says keeps its types, and so does what the panel shows.
LEMMA PanelTypeStep ==
  PanelIInv /\ [TurnScreenNext]_<<vars, panelVars>> => PanelTypeOK'
<1> SUFFICES ASSUME PanelIInv, TurnScreenNext PROVE PanelTypeOK'
  BY DEF PanelIInv, PanelTypeOK, panelVars, screenVars, ghostVars
<1>1. PanelTypeOK /\ StreamInv
  BY DEF PanelIInv
<1>2. events \in Seq(PanelEvents)
  BY <1>1 DEF PanelTypeOK, PanelEvents, PanelKinds
<1>3. CASE Handle
  <2>1. /\ events' \in Seq(PanelEvents)
        /\ UNCHANGED <<greeted, said, ghostVars>>
    <3>1. CASE OnStopped
      BY <3>1 DEF OnStopped
    <3>2. CASE Handled
      <4>1. events # << >>
        BY <1>3 DEF Handle, Handles, OnOpening, OnConnecting, OnStreaming,
           OnTranscript, OnReplyToken, OnSpeaking, OnSpeakingDone,
           OnDisconnected, OnStopped
      <4>2. QED
        BY <1>2, <3>2, <4>1 DEF Handled
    <3>3. QED
      BY <1>3, <3>1, <3>2 DEF Handle, OnOpening, OnConnecting, OnStreaming,
         OnTranscript, OnReplyToken, OnSpeaking, OnSpeakingDone,
         OnDisconnected
  <2>2. /\ turnPhase' \in {"idle", "listening", "connecting", "thinking",
                           "speaking", "error"}
        /\ transcript' \in Turns \union {None} /\ reply' \subseteq Turns
    <3>1. CASE events # << >>
      <4>1. /\ Head(events) = events[1] /\ events[1] \in PanelEvents
            /\ 1 \in 1 .. Len(events)
        BY <1>2, <3>1
      <4>2. /\ Head(events).turn \in Turns \union {None}
            /\ Head(events).kind = "replyToken" => Head(events).turn \in Turns
        BY <1>1, <4>1 DEF PanelEvents, StreamInv
      <4>3. QED
        BY <1>1, <1>3, <4>2 DEF PanelTypeOK, Handle, Handles, OnOpening,
           OnConnecting, OnStreaming, OnTranscript, OnReplyToken, OnSpeaking,
           OnSpeakingDone, OnDisconnected, OnStopped
    <3>2. CASE events = << >>
      BY <1>3, <3>2 DEF Handle, Handles, OnOpening, OnConnecting, OnStreaming,
         OnTranscript, OnReplyToken, OnSpeaking, OnSpeakingDone,
         OnDisconnected, OnStopped
    <3>3. QED
      BY <3>1, <3>2
  <2>3. audioPlaying' \in BOOLEAN
    <3>1. audioPlaying \in BOOLEAN
      BY <1>1 DEF PanelTypeOK
    <3>2. QED
      BY <1>3, <3>1 DEF Handle, OnOpening, OnConnecting, OnStreaming,
         OnTranscript, OnReplyToken, OnSpeaking, OnSpeakingDone,
         OnDisconnected, OnStopped
  <2>4. QED
    BY <1>1, <2>1, <2>2, <2>3 DEF PanelTypeOK, PanelEvents, PanelKinds,
       ghostVars
<1>4. ASSUME NEW kind \in PanelKinds, NEW t \in Turns \union {None},
             Emit(kind, t)
      PROVE  events' \in Seq(PanelEvents)
  BY <1>1, <1>4, Emits
<1>5. CASE DetectedEmitted \/ StoppedEmitted \/ SilentStep
  <2>1. events' \in Seq(PanelEvents)
    <3>1. CASE DetectedEmitted
      BY <1>4, <3>1 DEF DetectedEmitted, PanelKinds
    <3>2. CASE StoppedEmitted
      BY <1>4, <3>2 DEF StoppedEmitted, PanelKinds
    <3>3. QED
      BY <1>2, <1>5, <3>1, <3>2 DEF SilentStep, panelVars
  <2>2. QED
    BY <1>1, <1>5, <2>1 DEF PanelTypeOK, PanelEvents, PanelKinds,
       DetectedEmitted, StoppedEmitted, SilentStep, panelVars, screenVars,
       ghostVars, Born
<1>6. ASSUME NEW t \in Turns,
             \/ OpenedByWake(t) \/ FollowupEmitted(t) \/ ConnectingEmitted(t)
             \/ NoConnectionEmitted(t) \/ StreamingEmitted(t)
             \/ TranscriptEmitted(t) \/ ReplyTokenEmitted(t)
             \/ SpeakingEmitted(t) \/ EndEmitted(t) \/ BargedInEmitted(t)
             \/ DrainedEmitted(t)
      PROVE  PanelTypeOK'
  <2>1. events' \in Seq(PanelEvents)
    <3>1. \A kind \in PanelKinds : Emit(kind, t) => events' \in Seq(PanelEvents)
      BY <1>4
    <3>2. QED
      BY <1>2, <1>6, <3>1 DEF PanelKinds, OpenedByWake, FollowupEmitted,
         ConnectingEmitted, NoConnectionEmitted, StreamingEmitted,
         TranscriptEmitted, ReplyTokenEmitted, SpeakingEmitted, EndEmitted,
         BargedInEmitted, DrainedEmitted
  <2>2. /\ greeted' \subseteq Turns /\ said' \subseteq Turns
        /\ uncleared' \subseteq Turns /\ excused' \subseteq Turns
        /\ UNCHANGED screenVars
    BY <1>1, <1>6 DEF PanelTypeOK, OpenedByWake, FollowupEmitted,
       ConnectingEmitted, NoConnectionEmitted, StreamingEmitted,
       TranscriptEmitted, ReplyTokenEmitted, SpeakingEmitted, EndEmitted,
       BargedInEmitted, DrainedEmitted, ghostVars, Born
  <2>3. QED
    BY <1>1, <2>1, <2>2 DEF PanelTypeOK, PanelEvents, PanelKinds, screenVars
<1>7. QED
  BY <1>3, <1>5, <1>6 DEF TurnScreenNext

\* The panel reads: it comes closer to what it was told.
LEMMA HandleKeeps ==
  ASSUME PanelIInv, Handle
  PROVE  StreamInv' /\ WordsInv' /\ PanelInv' /\ OvertakenInv' /\ GreetedInv'
<1>1. PanelTypeOK /\ StreamInv /\ WordsInv /\ PanelInv /\ OvertakenInv
  BY DEF PanelIInv
<1>2. UNCHANGED <<vars, greeted, ghostVars>>
  BY DEF Handle, Handled, OnOpening, OnConnecting, OnStreaming, OnTranscript,
     OnReplyToken, OnSpeaking, OnSpeakingDone, OnDisconnected, OnStopped
<1>3. OvertakenInv' /\ GreetedInv'
  BY <1>2 DEF PanelIInv, OvertakenInv, GreetedInv, Queued, Newest, Ready, Up,
     vars, turnVars, audioVars, captureVars, ghostVars
<1>4. Up' <=> Up
  BY <1>2 DEF Up, vars, captureVars
<1>5. CASE ~Up
  <2>1. WordsInv' /\ PanelInv'
    BY <1>4, <1>5 DEF WordsInv, PanelInv
  <2>2. StreamInv'
    <3>1. CASE OnStopped
      BY <3>1 DEF OnStopped, StreamInv
    <3>2. CASE ~OnStopped
      <4>1. events \in Seq(PanelEvents) /\ events # << >>
        BY <1>1 DEF PanelTypeOK, PanelEvents, PanelKinds, Handle, Handles,
           OnOpening, OnConnecting, OnStreaming, OnTranscript, OnReplyToken,
           OnSpeaking, OnSpeakingDone, OnDisconnected, OnStopped
      <4>2. events' = Tail(events)
        BY <3>2 DEF Handle, Handled, OnOpening, OnConnecting, OnStreaming,
           OnTranscript, OnReplyToken, OnSpeaking, OnSpeakingDone,
           OnDisconnected
      <4>3. /\ Len(events) \in Nat \ {0} /\ Len(events') = Len(events) - 1
            /\ \A i \in 1 .. Len(events') : events'[i] = events[i + 1]
        BY <4>1, <4>2
      <4>4. QED
        BY <1>1, <1>4, <1>5, <4>3 DEF StreamInv
    <3>3. QED
      BY <3>1, <3>2
  <2>3. QED
    BY <1>3, <2>1, <2>2
<1>6. CASE Up
  <2>1. /\ Len(events) \in Nat \ {0} /\ Len(events') = Len(events) - 1
        /\ \A i \in 1 .. Len(events') : events'[i] = events[i + 1]
    BY <1>1, <1>6, ReadsOn
  <2>2. StreamInv'
    BY <1>1, <1>4, <1>6, <2>1 DEF StreamInv
  <2>3. WordsInv'
    <3>1. ASSUME NEW v \in Turns \ uncleared PROVE Gone(v)'
      BY <1>1, <1>6, <3>1, GoneRead DEF WordsInv
    <3>2. QED
      BY <1>2, <3>1 DEF WordsInv, ghostVars
  <2>4. ASSUME NEW t \in Turns PROVE PanelOK(t)'
    <3>1. PanelOK(t)
      BY <1>1, <1>6 DEF PanelInv
    <3>2. PICK n \in Nat : n = Len(events')
      BY <2>1
    <3>3. ToldBy(t, Len(events)) => ToldBy(t, Len(events))'
      <4> SUFFICES ASSUME ToldBy(t, Len(events))
                   PROVE  ToldBy(t, Len(events))'
        OBVIOUS
      <4>1. ToldBy(t, n + 1) /\ n + 1 <= Len(events)
        BY <2>1, <3>2
      <4>2. ToldBy(t, n)'
        BY <1>1, <1>6, <4>1, ToldRead
      <4>3. QED
        BY <3>2, <4>2
    <3>4. SpeaksOn(t) => SpeaksOn(t)'
      BY <1>1, <1>6, SpeaksRead
    <3>5. QED
      BY <1>2, <3>1, <3>3, <3>4
      DEF PanelOK, Newest, Ready, vars, turnVars, ghostVars
  <2>5. QED
    BY <1>3, <2>2, <2>3, <2>4 DEF PanelInv
<1>7. QED
  BY <1>5, <1>6

\* A turn that announces itself is there, and none goes on before it does.
LEMMA GreetedStep == PanelIInv /\ TurnScreenNext => GreetedInv'
<1> SUFFICES ASSUME PanelIInv, TurnScreenNext PROVE GreetedInv'
  OBVIOUS
<1>1. /\ turn \in [Turns -> TurnPcs] /\ followup \in [Turns -> BOOLEAN]
      /\ GreetedInv
  BY DEF PanelIInv, TasksInv, IInv, TypeOK
<1> USE DEF GreetedInv, Ready
<1>2. CASE Handle
  BY <1>2, HandleKeeps
<1>3. CASE DetectedEmitted \/ StoppedEmitted
  BY <1>1, <1>3 DEF DetectedEmitted, StoppedEmitted, WakeFlush, DropRuntime,
     turnVars
<1>4. ASSUME NEW u \in Turns, OpenedByWake(u) PROVE GreetedInv'
  BY <1>1, <1>4 DEF OpenedByWake, WakeSpawn, RestartSpawn, SpawnTurn
<1>5. ASSUME NEW t \in Turns, FollowupEmitted(t) PROVE GreetedInv'
  BY <1>1, <1>5 DEF FollowupEmitted, vars, turnVars
<1>6. ASSUME NEW t \in Turns, ConnectingEmitted(t) \/ NoConnectionEmitted(t)
      PROVE  GreetedInv'
  BY <1>1, <1>6 DEF ConnectingEmitted, NoConnectionEmitted, Resolved,
     NoConnection, Advance, LeaveRunTurn
<1>7. ASSUME NEW t \in Turns,
             \/ StreamingEmitted(t) \/ TranscriptEmitted(t)
             \/ ReplyTokenEmitted(t) \/ SpeakingEmitted(t)
      PROVE  GreetedInv'
  BY <1>1, <1>7 DEF StreamingEmitted, TranscriptEmitted, ReplyTokenEmitted,
     SpeakingEmitted, Connected, Transcript, AudioStart, Advance, Polled,
     vars, turnVars
<1>8. ASSUME NEW t \in Turns,
             EndEmitted(t) \/ BargedInEmitted(t) \/ DrainedEmitted(t)
      PROVE  GreetedInv'
  BY <1>1, <1>8 DEF EndEmitted, BargedInEmitted, DrainedEmitted, ReplyEnds,
     TurnAbandoned, BargedIn, Drained, LeaveRunTurn, Polled, turnVars
<1>9. CASE SilentStep
  <2>1. greeted' = greeted
    BY <1>9 DEF SilentStep, panelVars
  <2>2. CASE \/ WakeClaim \/ WakeRefused \/ WakeAsk \/ WakeInterrupt
             \/ DropSlot \/ DropChannels \/ Callback \/ Wedge
    BY <1>1, <2>1, <2>2 DEF WakeClaim, WakeRefused, WakeAsk, WakeInterrupt,
       DropSlot, DropChannels, Callback, CallbackFlush, CallbackPlay, Wedge,
       turnVars
  <2>3. ASSUME NEW t \in Turns,
               \/ Listen(t) \/ AudioChunk(t) \/ Unparked(t) \/ BlockDropped(t)
               \/ ClearChannels(t) \/ ReleaseSlot(t) \/ TakeRestart(t)
               \/ RestartClaim(t) \/ FollowupClaim(t)
        PROVE  GreetedInv'
    BY <1>1, <2>1, <2>3 DEF Listen, AudioChunk, Unparked, BlockDropped,
       ClearChannels, ReleaseSlot, TakeRestart, RestartClaim, FollowupClaim,
       Advance, Polled, turnVars
  <2>4. ASSUME NEW t \in Turns, NEW u \in Turns, FollowupSpawn(t, u)
        PROVE  GreetedInv'
    BY <1>1, <2>1, <2>4 DEF FollowupSpawn, SpawnTurn
  <2>5. QED
    BY <1>9, <2>2, <2>3, <2>4 DEF SilentStep
<1>10. QED
  BY <1>2, <1>3, <1>4, <1>5, <1>6, <1>7, <1>8, <1>9 DEF TurnScreenNext

\* An event sent by a turn that is there already.
LEMMA EmitKeeps ==
  ASSUME PanelIInv, NEW kind \in PanelKinds, NEW t \in Turns \union {None},
         Emit(kind, t), UNCHANGED <<screenVars, ring, wedged>>, Up' => Up,
         kind = "replyToken" => t \in Turns, kind = "stopped" => ~Up',
         kind \in {"detected", "listeningFollowup"} \/ uncleared' = uncleared
           \/ (t \in Turns /\ uncleared' = uncleared \union {t}),
         kind = "replyToken" => t \in uncleared',
         excused \subseteq excused',
         \A v \in Turns : turn'[v] = "unborn" <=> turn[v] = "unborn"
  PROVE  StreamInv' /\ WordsInv' /\ OvertakenInv'
<1>1. PanelTypeOK /\ StreamInv /\ WordsInv /\ OvertakenInv
  BY DEF PanelIInv
<1>2. StreamInv'
  BY <1>1, StreamStays
<1>3. WordsInv'
  <2> SUFFICES ASSUME Up', NEW v \in Turns \ uncleared' PROVE Gone(v)'
    BY DEF WordsInv
  <2>1. CASE kind \in {"detected", "listeningFollowup"}
    BY <1>1, <2>1, GoneStays
  <2>2. CASE kind \notin {"detected", "listeningFollowup"}
    <3>1. v \notin uncleared /\ (kind = "replyToken" => t # v)
      BY <2>2
    <3>2. Gone(v)
      BY <1>1, <3>1 DEF WordsInv
    <3>3. QED
      BY <1>1, <3>1, <3>2, GoneStays
  <2>3. QED
    BY <2>1, <2>2
<1>4. OvertakenInv'
  BY <1>1 DEF OvertakenInv, Queued, Newest
<1>5. QED
  BY <1>2, <1>3, <1>4

\* The live turn is the newest, and what it does concerns no other's words.
LEMMA LiveAlone ==
  ASSUME PanelIInv, NEW t \in Turns, Live(t), Up, Up', PanelOK(t)',
         \A v \in Turns : turn'[v] = "unborn" <=> turn[v] = "unborn"
  PROVE  PanelInv'
<1>1. Newest(t) /\ \A u, v \in Turns : u > v \/ u = v \/ v > u
  BY MaxTurnsAssumption DEF PanelIInv, TasksInv, OrderInv, Turns
<1>2. \A v \in Turns : Newest(v)' => v = t
  BY <1>1 DEF Newest
<1>3. QED
  BY <1>2 DEF PanelInv, PanelOK

PanelParts == StreamInv /\ WordsInv /\ PanelInv /\ OvertakenInv

\* What a turn says before its audio starts, and its words.
LEMMA TurnSays ==
  ASSUME PanelIInv, NEW t \in Turns,
         \/ FollowupEmitted(t) \/ ConnectingEmitted(t) \/ StreamingEmitted(t)
         \/ TranscriptEmitted(t) \/ ReplyTokenEmitted(t) \/ SpeakingEmitted(t)
  PROVE  PanelParts'
<1>1. /\ turn \in [Turns -> TurnPcs] /\ spoke \in [Turns -> BOOLEAN]
      /\ watcher \in [Turns -> WatcherPcs]
      /\ PanelTypeOK /\ StreamInv /\ OrderInv /\ HeardInv /\ PanelInv
  BY DEF PanelIInv, TasksInv, IInv, TypeOK
<1>2. /\ UNCHANGED <<capture, ring, wedged, followup, watcher, screenVars,
                     excused>>
      /\ \A v \in Turns : v # t => turn'[v] = turn[v] /\ spoke'[v] = spoke[v]
      /\ Live(t) /\ turn'[t] # "unborn"
      /\ \A v \in Turns : turn'[v] = "unborn" <=> turn[v] = "unborn"
  BY <1>1 DEF FollowupEmitted, ConnectingEmitted, StreamingEmitted,
     TranscriptEmitted, ReplyTokenEmitted, SpeakingEmitted, Resolved,
     Connected, Transcript, AudioStart, Advance, Polled, Live, LivePcs, vars,
     turnVars, audioVars, captureVars, ghostVars
<1>3. StreamInv' /\ WordsInv' /\ OvertakenInv'
  <2>1. Up' => Up
    BY <1>2 DEF Up
  <2> USE DEF PanelKinds, ghostVars
  <2>2. CASE FollowupEmitted(t)
    BY <1>2, <2>1, <2>2, EmitKeeps DEF FollowupEmitted
  <2>3. CASE ConnectingEmitted(t)
    BY <1>2, <2>1, <2>3, EmitKeeps DEF ConnectingEmitted
  <2>4. CASE StreamingEmitted(t)
    BY <1>2, <2>1, <2>4, EmitKeeps DEF StreamingEmitted
  <2>5. CASE TranscriptEmitted(t)
    BY <1>2, <2>1, <2>5, EmitKeeps DEF TranscriptEmitted
  <2>6. CASE ReplyTokenEmitted(t)
    BY <1>2, <2>1, <2>6, EmitKeeps DEF ReplyTokenEmitted
  <2>7. CASE SpeakingEmitted(t)
    BY <1>2, <2>1, <2>7, EmitKeeps DEF SpeakingEmitted
  <2>8. QED
    BY <2>2, <2>3, <2>4, <2>5, <2>6, <2>7
<1>4. ASSUME Up' PROVE PanelInv'
  <2>1. Up /\ PanelOK(t)
    BY <1>1, <1>2, <1>4 DEF Up, PanelInv
  <2>2. SUFFICES PanelOK(t)'
    BY <1>2, <1>4, <2>1, LiveAlone
  <2>3. SUFFICES ASSUME t \notin excused
                 PROVE  /\ turn'[t] = "speaking" /\ ~spoke'[t]
                             => ToldBy(t, Len(events))'
                        /\ spoke'[t] /\ watcher'[t] \in {"none", "draining"}
                             => SpeaksOn(t)'
                        /\ Ready(t)' => uncleared' \subseteq {t}
    BY <1>2 DEF PanelOK
  <2>4. /\ Newest(t)
        /\ turn[t] = "speaking" /\ ~spoke[t] => ToldBy(t, Len(events))
        /\ spoke[t] /\ watcher[t] \in {"none", "draining"} => SpeaksOn(t)
        /\ Ready(t) => uncleared \subseteq {t}
    BY <1>1, <1>2, <2>1, <2>3 DEF PanelOK, OrderInv
  <2>5. CASE FollowupEmitted(t)
    BY <1>1, <1>2, <2>5 DEF FollowupEmitted, HeardInv, vars, turnVars
  <2>6. CASE ConnectingEmitted(t) \/ StreamingEmitted(t)
    <3>1. /\ ~spoke'[t] /\ turn'[t] # "speaking"
          /\ UNCHANGED <<followup, greeted, uncleared>>
      BY <1>1, <2>6 DEF ConnectingEmitted, StreamingEmitted, Resolved,
         Connected, Advance, HeardInv, ghostVars
    <3>2. QED
      BY <2>4, <3>1 DEF Ready
  <2>7. CASE TranscriptEmitted(t)
    <3>1. /\ ~spoke'[t] /\ UNCHANGED <<followup, greeted, uncleared>>
      BY <1>1, <2>7 DEF TranscriptEmitted, Transcript, Polled, HeardInv,
         ghostVars
    <3>2. ToldBy(t, Len(events))'
      BY <1>1, <2>7, ToldStarts DEF TranscriptEmitted
    <3>3. QED
      BY <2>4, <3>1, <3>2 DEF Ready
  <2>8. CASE ReplyTokenEmitted(t)
    <3>1. /\ turn[t] = "speaking" /\ Emit("replyToken", t)
          /\ UNCHANGED <<turn, spoke, watcher, followup, greeted, screenVars>>
          /\ uncleared' = uncleared \union {t}
      BY <2>8 DEF ReplyTokenEmitted, Polled, vars, turnVars
    <3>2. ~spoke[t] => ToldBy(t, Len(events))'
      BY <1>1, <2>4, <3>1, ToldOn
    <3>3. spoke[t] => SpeaksOn(t)'
      <4>1. watcher[t] = "none"
        BY <1>1, <3>1 DEF HeardInv
      <4>2. QED
        BY <1>1, <2>4, <3>1, <4>1, SpeaksGrows
    <3>4. QED
      BY <2>4, <3>1, <3>2, <3>3 DEF Ready
  <2>9. CASE SpeakingEmitted(t)
    <3>1. /\ turn[t] = "speaking" /\ ~spoke[t] /\ spoke'[t]
          /\ Emit("speaking", t)
          /\ UNCHANGED <<screenVars, followup, greeted, uncleared>>
      BY <1>1, <2>9 DEF SpeakingEmitted, AudioStart, Polled, ghostVars
    <3>2. SpeaksOn(t)'
      BY <1>1, <2>4, <3>1, SpeaksStarts
    <3>3. QED
      BY <2>4, <3>1, <3>2 DEF Ready
  <2>10. QED
    BY <2>5, <2>6, <2>7, <2>8, <2>9
<1>5. QED
  BY <1>3, <1>4 DEF PanelParts, PanelInv

\* How a turn ends: without a connection, on its own, or interrupted.
LEMMA TurnEnds ==
  ASSUME PanelIInv, NEW t \in Turns,
         NoConnectionEmitted(t) \/ EndEmitted(t) \/ BargedInEmitted(t)
  PROVE  PanelParts'
<1>1. /\ turn \in [Turns -> TurnPcs] /\ spoke \in [Turns -> BOOLEAN]
      /\ watcher \in [Turns -> WatcherPcs]
      /\ PanelTypeOK /\ StreamInv /\ OrderInv /\ HeardInv /\ PanelInv
  BY DEF PanelIInv, TasksInv, IInv, TypeOK
<1>2. /\ UNCHANGED <<capture, ring, wedged, followup, spoke, screenVars,
                     greeted, uncleared>>
      /\ turn[t] \in {"resolving", "connecting", "streaming", "speaking"}
      /\ turn' = [turn EXCEPT ![t] = "returned"]
      /\ excused' = excused \/ excused' = excused \union {t}
  BY DEF NoConnectionEmitted, EndEmitted, BargedInEmitted, NoConnection,
     ReplyEnds, TurnAbandoned, BargedIn, Polled, LeaveRunTurn, turnVars,
     audioVars, captureVars, ghostVars
<1>3. /\ Live(t)
      /\ \A v \in Turns : turn'[v] = "unborn" <=> turn[v] = "unborn"
  BY <1>1, <1>2 DEF Live, LivePcs
<1>4. \/ Emit("complete", t)
      \/ Emit("failed", t) /\ (spoke[t] => t \in excused')
  BY <1>1 DEF NoConnectionEmitted, EndEmitted, BargedInEmitted, NoConnection,
     HeardInv
<1>5. StreamInv' /\ WordsInv' /\ OvertakenInv'
  <2>1. (Up' => Up) /\ excused \subseteq excused'
    BY <1>2 DEF Up
  <2>2. CASE Emit("complete", t)
    BY <1>2, <1>3, <2>1, <2>2, EmitKeeps DEF PanelKinds
  <2>3. CASE Emit("failed", t)
    BY <1>2, <1>3, <2>1, <2>3, EmitKeeps DEF PanelKinds
  <2>4. QED
    BY <1>4, <2>2, <2>3
<1>6. ASSUME Up' PROVE PanelInv'
  <2>1. Up /\ PanelOK(t)
    BY <1>1, <1>2, <1>6 DEF Up, PanelInv
  <2>2. SUFFICES PanelOK(t)'
    BY <1>3, <1>6, <2>1, LiveAlone
  <2>3. SUFFICES ASSUME t \notin excused'
                 PROVE  /\ spoke'[t] => SpeaksOn(t)'
                        /\ Ready(t)' => uncleared' \subseteq {t}
    BY <1>1, <1>2 DEF PanelOK
  <2>4. /\ Newest(t) /\ t \notin excused
        /\ spoke[t] /\ watcher[t] \in {"none", "draining"} => SpeaksOn(t)
        /\ Ready(t) => uncleared \subseteq {t}
    BY <1>1, <1>2, <1>3, <2>1, <2>3 DEF PanelOK, OrderInv
  <2>5. spoke[t] => SpeaksOn(t)'
    <3>1. spoke[t] => Emit("complete", t) /\ watcher[t] = "none"
      BY <1>1, <1>2, <1>4, <2>3 DEF HeardInv
    <3>2. QED
      BY <1>1, <1>2, <2>4, <3>1, SpeaksGrows
  <2>6. QED
    BY <1>2, <2>4, <2>5 DEF Ready
<1>7. QED
  BY <1>5, <1>6 DEF PanelParts, PanelInv

\* A wake word is reported: it excuses every turn there is.
LEMMA WakeReported == PanelIInv /\ DetectedEmitted => PanelParts'
<1> SUFFICES ASSUME PanelIInv, DetectedEmitted PROVE PanelParts'
  OBVIOUS
<1>1. /\ UNCHANGED <<ring, wedged, turn, screenVars>> /\ Emit("detected", None)
      /\ excused' = excused \union Born /\ (Up' => Up)
  BY DEF DetectedEmitted, WakeFlush, turnVars, Up
<1>2. StreamInv' /\ WordsInv' /\ OvertakenInv'
  BY <1>1, EmitKeeps DEF PanelKinds
<1>3. PanelInv'
  BY <1>1 DEF PanelInv, PanelOK, Newest, Born
<1>4. QED
  BY <1>2, <1>3 DEF PanelParts

\* Its turn opens, and excuses those before it; and itself, if words were sent
\* since the report.
LEMMA WakeOpens ==
  ASSUME PanelIInv, NEW u \in Turns, OpenedByWake(u)
  PROVE  PanelParts'
<1>1. /\ turn \in [Turns -> TurnPcs] /\ spoke \in [Turns -> BOOLEAN]
      /\ StreamInv /\ WordsInv /\ HeardInv
  BY DEF PanelIInv, TasksInv, IInv, TypeOK
<1>2. /\ UNCHANGED <<events, uncleared, screenVars, ring, wedged, spoke>>
      /\ excused' = excused \union Born \union {v \in {u} : uncleared # {}}
      /\ Up' => Up
      /\ turn[u] = "unborn" /\ turn'[u] = "resolving"
      /\ \A v \in Turns : turn'[v] = "unborn" => turn[v] = "unborn"
      /\ \A v \in Turns : turn'[v] # "unborn" => v = u \/ v \in Born
  <2>1. UNCHANGED <<events, uncleared, screenVars, ring, wedged, spoke>>
    BY DEF OpenedByWake, WakeSpawn, RestartSpawn, audioVars
  <2>2. CASE WakeSpawn(u)
    BY <1>1, <2>1, <2>2 DEF OpenedByWake, WakeSpawn, SpawnTurn, Up, Born
  <2>3. ASSUME NEW t \in Turns, RestartSpawn(t, u)
        PROVE  /\ Up' => Up
               /\ turn[u] = "unborn" /\ turn'[u] = "resolving"
               /\ \A v \in Turns : turn'[v] = "unborn" => turn[v] = "unborn"
               /\ \A v \in Turns : turn'[v] # "unborn" => v = u \/ v \in Born
    BY <1>1, <2>3 DEF RestartSpawn, SpawnTurn, Up, Born, captureVars
  <2>4. QED
    BY <2>1, <2>2, <2>3 DEF OpenedByWake
<1>3. StreamInv' /\ WordsInv'
  BY <1>1, <1>2 DEF StreamInv, WordsInv, Gone, screenVars
<1>4. PanelInv'
  <2>1. ASSUME NEW v \in Turns, v \notin excused', Newest(v)'
        PROVE  v = u /\ uncleared' = {} /\ ~spoke'[u]
    BY <1>1, <1>2, <2>1 DEF Newest, HeardInv
  <2>2. QED
    BY <1>2, <2>1 DEF PanelInv, PanelOK
<1>5. OvertakenInv'
  BY <1>1, <1>2 DEF OvertakenInv, Queued, Born, HeardInv
<1>6. QED
  BY <1>3, <1>4, <1>5 DEF PanelParts

\* An older turn's silence is read as such while the newest has yet to speak.
LEMMA WatcherSays ==
  ASSUME PanelIInv, NEW t \in Turns, DrainedEmitted(t)
  PROVE  PanelParts'
<1>1. /\ watcher \in [Turns -> WatcherPcs] /\ spoke \in [Turns -> BOOLEAN]
      /\ PanelTypeOK /\ StreamInv /\ WordsInv /\ OvertakenInv /\ PanelInv
      /\ HeardInv
  BY DEF PanelIInv, TasksInv, IInv, TypeOK
<1>2. /\ UNCHANGED <<capture, turnVars, ring, wedged, screenVars, greeted,
                     uncleared>>
      /\ watcher[t] = "draining" /\ watcher'[t] \in {"checked", "over"}
      /\ \A v \in Turns : v # t => watcher'[v] = watcher[v]
      /\ excused \subseteq excused' /\ (Up' <=> Up)
  BY <1>1 DEF DrainedEmitted, Drained, captureVars, audioVars, Up
<1>3. CASE ~spoke[t]
  <2>1. UNCHANGED <<events, excused>>
    BY <1>3 DEF DrainedEmitted
  <2>2. StreamInv' /\ WordsInv' /\ OvertakenInv'
    BY <1>1, <1>2, <2>1 DEF StreamInv, WordsInv, Gone, OvertakenInv, Queued,
       Newest, screenVars, turnVars
  <2>3. ASSUME NEW v \in Turns, PanelOK(v) PROVE PanelOK(v)'
    <3>1. ToldBy(v, Len(events))' <=> ToldBy(v, Len(events))
      BY <1>2, <2>1 DEF ToldBy, Event, screenVars
    <3>2. SpeaksOn(v)' <=> SpeaksOn(v)
      BY <1>2, <2>1 DEF SpeaksOn, ToldBy, Event, screenVars
    <3>3. QED
      BY <1>2, <1>3, <2>1, <2>3, <3>1, <3>2
      DEF PanelOK, Newest, Ready, turnVars
  <2>4. QED
    BY <1>1, <1>2, <2>2, <2>3 DEF PanelParts, PanelInv
<1>4. CASE spoke[t]
  <2>1. /\ Emit("speakingDone", t)
        /\ excused' = excused \union {u \in Turns : u > t /\ spoke[u]}
    BY <1>4 DEF DrainedEmitted
  <2>2. StreamInv' /\ WordsInv' /\ OvertakenInv'
    BY <1>2, <2>1, EmitKeeps DEF PanelKinds, turnVars
  <2>3. ASSUME NEW v \in Turns, PanelOK(v) PROVE PanelOK(v)'
    <3>1. SUFFICES ASSUME v \notin excused', Newest(v)'
                   PROVE  /\ turn'[v] = "speaking" /\ ~spoke'[v]
                               => ToldBy(v, Len(events))'
                          /\ ~(spoke'[v] /\ watcher'[v] \in {"none", "draining"})
                          /\ Ready(v)' => uncleared' \subseteq {v}
      BY DEF PanelOK
    <3>2. v \notin excused /\ Newest(v)
      BY <1>2, <3>1 DEF Newest, turnVars
    <3>3. Ready(v)' => uncleared' \subseteq {v}
      BY <1>2, <2>3, <3>2 DEF PanelOK, Ready, turnVars
    <3>4. CASE v = t
      BY <1>1, <1>2, <3>3, <3>4 DEF HeardInv, turnVars
    <3>5. CASE v # t
      <4>1. v > t
        BY <1>1, <1>2, <3>2, <3>5, MaxTurnsAssumption
        DEF HeardInv, Newest, Turns
      <4>2. ~spoke[v]
        BY <2>1, <3>1, <4>1
      <4>3. turn[v] = "speaking" => ToldBy(v, Len(events))'
        BY <1>1, <1>2, <2>1, <2>3, <3>2, <4>2, ToldOn DEF PanelOK
      <4>4. QED
        BY <1>2, <3>3, <4>2, <4>3 DEF turnVars
    <3>6. QED
      BY <3>4, <3>5
  <2>4. QED
    BY <1>1, <1>2, <2>2, <2>3 DEF PanelParts, PanelInv
<1>5. QED
  BY <1>1, <1>3, <1>4

\* The engine says its last.
LEMMA StopSays == PanelIInv /\ StoppedEmitted => PanelParts'
<1> SUFFICES ASSUME PanelIInv, StoppedEmitted PROVE PanelParts'
  OBVIOUS
<1>1. /\ UNCHANGED <<ring, wedged, turn, screenVars, ghostVars>>
      /\ Emit("stopped", None) /\ ~Up'
  BY DEF StoppedEmitted, DropRuntime, turnVars, audioVars, Up
<1>2. StreamInv' /\ WordsInv' /\ OvertakenInv'
  BY <1>1, EmitKeeps DEF PanelKinds, ghostVars
<1>3. PanelInv'
  BY <1>1 DEF PanelInv
<1>4. QED
  BY <1>2, <1>3 DEF PanelParts

\* The steps of the threads that the panel is told nothing of.
LEMMA SilentKeeps == PanelIInv /\ SilentStep => PanelParts'
<1> SUFFICES ASSUME PanelIInv, SilentStep PROVE PanelParts'
  OBVIOUS
<1>1. /\ turn \in [Turns -> TurnPcs] /\ spoke \in [Turns -> BOOLEAN]
      /\ watcher \in [Turns -> WatcherPcs] /\ ring \in Seq(Turns)
      /\ StreamInv /\ WordsInv /\ PanelInv /\ OvertakenInv /\ HeardInv
      /\ OrderInv /\ GreetedInv /\ DrainInv
      /\ UNCHANGED panelVars
  BY DEF PanelIInv, TasksInv, IInv, TypeOK, SilentStep
<1>2. ASSUME Up' => Up
      PROVE  StreamInv' /\ WordsInv'
  BY <1>1, <1>2 DEF StreamInv, WordsInv, Gone, panelVars, screenVars,
     ghostVars
<1>3. \A v \in Turns : /\ ToldBy(v, Len(events))' <=> ToldBy(v, Len(events))
                       /\ SpeaksOn(v)' <=> SpeaksOn(v)
  BY <1>1 DEF SpeaksOn, ToldBy, Event, panelVars, screenVars
\* A step that opens no turn.
<1>4. ASSUME Up' => Up, UNCHANGED <<spoke, followup>>,
             \A v \in Turns :
               /\ turn'[v] = "unborn" <=> turn[v] = "unborn"
               /\ turn'[v] = "speaking" => turn[v] \in {"speaking", "parked"}
               /\ watcher'[v] \in {"none", "draining"}
                    => watcher'[v] = watcher[v]
      PROVE  PanelInv'
  <2>1. ASSUME NEW v \in Turns, PanelOK(v) PROVE PanelOK(v)'
    <3>1. turn[v] = "parked" => spoke[v]
      BY <1>1 DEF HeardInv
    <3>2. (Newest(v)' <=> Newest(v)) /\ (Ready(v)' <=> Ready(v))
      BY <1>1, <1>4 DEF Newest, Ready, panelVars
    <3>3. QED
      BY <1>1, <1>3, <1>4, <2>1, <3>1, <3>2
      DEF PanelOK, panelVars, ghostVars
  <2>2. QED
    BY <1>1, <1>4, <2>1 DEF PanelInv
\* ... nor queues anything.
<1>5. ASSUME Up' => Up, wedged => wedged',
             \A v \in Turns : /\ turn'[v] = "unborn" <=> turn[v] = "unborn"
                              /\ Queued(v)' => Queued(v)
      PROVE  OvertakenInv'
  BY <1>1, <1>5 DEF OvertakenInv, Newest, panelVars, ghostVars
<1>6. CASE \/ WakeClaim \/ WakeRefused \/ WakeAsk \/ WakeInterrupt
           \/ DropSlot \/ DropChannels \/ Wedge
  <2>1. /\ UNCHANGED <<turn, spoke, followup, watcher, ring>>
        /\ (Up' => Up) /\ (wedged => wedged')
    BY <1>6 DEF WakeClaim, WakeRefused, WakeAsk, WakeInterrupt, DropSlot,
       DropChannels, Wedge, turnVars, audioVars, captureVars, Up
  <2>2. PanelInv' /\ OvertakenInv'
    BY <1>4, <1>5, <2>1 DEF Queued
  <2>3. QED
    BY <1>2, <2>1, <2>2 DEF PanelParts
<1>7. CASE Callback
  <2>1. /\ UNCHANGED <<turn, spoke, followup, watcher, wedged>> /\ (Up' => Up)
    BY <1>7 DEF Callback, CallbackFlush, CallbackPlay, turnVars, captureVars,
       Up
  <2>2. \A v \in Turns : Queued(v)' => Queued(v)
    <3>1. CASE ring' = << >>
      BY <3>1 DEF Queued
    <3>2. CASE ring # << >> /\ ring' = Tail(ring)
      <4>1. /\ Len(ring) \in Nat /\ Len(ring') = Len(ring) - 1
            /\ \A i \in 1 .. Len(ring') : ring'[i] = ring[i + 1]
            /\ DOMAIN ring = 1 .. Len(ring) /\ DOMAIN ring' = 1 .. Len(ring')
        BY <1>1, <3>2
      <4>2. \A i \in 1 .. Len(ring') : i + 1 \in 1 .. Len(ring)
        BY <4>1
      <4>3. QED
        BY <4>1, <4>2 DEF Queued
    <3>3. QED
      BY <1>7, <3>1, <3>2 DEF Callback, CallbackFlush, CallbackPlay
  <2>3. PanelInv' /\ OvertakenInv'
    BY <1>4, <1>5, <2>1, <2>2
  <2>4. QED
    BY <1>2, <2>1, <2>3 DEF PanelParts
<1>8. ASSUME NEW t \in Turns,
             \/ Listen(t) \/ AudioChunk(t) \/ Unparked(t) \/ BlockDropped(t)
      PROVE  PanelParts'
  <2>1. /\ UNCHANGED <<spoke, followup, watcher, wedged>> /\ (Up' <=> Up)
        /\ turn[t] \in {"speaking", "parked"}
        /\ turn'[t] \in {"speaking", "parked"}
        /\ \A v \in Turns : v # t => turn'[v] = turn[v]
        /\ ring' = ring \/ ring' = Append(ring, t)
    BY <1>1, <1>8 DEF Listen, AudioChunk, Unparked, BlockDropped, Polled,
       Advance, turnVars, audioVars, captureVars, Up
  <2>2. PanelInv'
    BY <1>4, <2>1
  <2>3. \A v \in Turns : v # t /\ Queued(v)' => Queued(v)
    <3>1. CASE ring' = ring
      BY <3>1 DEF Queued
    <3>2. CASE ring' = Append(ring, t)
      <4>1. /\ Len(ring) \in Nat /\ Len(ring') = Len(ring) + 1
            /\ \A i \in 1 .. Len(ring) : ring'[i] = ring[i]
            /\ ring'[Len(ring) + 1] = t
            /\ DOMAIN ring = 1 .. Len(ring) /\ DOMAIN ring' = 1 .. Len(ring')
        BY <1>1, <3>2
      <4>2. QED
        BY <4>1 DEF Queued
    <3>3. QED
      BY <2>1, <3>1, <3>2
  <2>4. Up => Newest(t)
    BY <1>1, <2>1 DEF OrderInv, Live, LivePcs
  <2>5. \A v \in Turns : Newest(v)' <=> Newest(v)
    BY <2>1 DEF Newest
  <2>6. OvertakenInv'
    BY <1>1, <2>1, <2>3, <2>4, <2>5 DEF OvertakenInv, panelVars, ghostVars
  <2>7. QED
    BY <1>2, <2>1, <2>2, <2>6 DEF PanelParts
<1>9. ASSUME NEW t \in Turns,
             \/ ClearChannels(t) \/ ReleaseSlot(t) \/ TakeRestart(t)
             \/ RestartClaim(t) \/ FollowupClaim(t)
      PROVE  PanelParts'
  <2>1. /\ UNCHANGED <<spoke, followup, ring, wedged>> /\ (Up' <=> Up)
        /\ \A v \in Turns :
             /\ turn'[v] = "unborn" <=> turn[v] = "unborn"
             /\ turn'[v] = "speaking" => turn[v] = "speaking"
             /\ watcher'[v] \in {"none", "draining"}
                  => watcher'[v] = watcher[v]
    BY <1>1, <1>9 DEF ClearChannels, ReleaseSlot, TakeRestart, RestartClaim,
       FollowupClaim, Advance, turnVars, audioVars, captureVars, Up
  <2>2. PanelInv' /\ OvertakenInv'
    BY <1>4, <1>5, <2>1 DEF Queued
  <2>3. QED
    BY <1>2, <2>1, <2>2 DEF PanelParts
\* A follow-up's turn opens on an empty ring, and has yet to announce itself.
<1>10. ASSUME NEW t \in Turns, NEW u \in Turns, FollowupSpawn(t, u)
       PROVE  PanelParts'
  <2>1. /\ UNCHANGED <<spoke, ring, wedged>> /\ (Up' <=> Up)
        /\ turn[u] = "unborn" /\ turn'[u] = "resolving" /\ followup'[u]
        /\ \A v \in Turns : v # u => turn'[v] = turn[v]
        /\ ring = << >> \/ wedged
    BY <1>1, <1>10 DEF FollowupSpawn, SpawnTurn, audioVars, captureVars, Up,
       DrainInv, TypeOK, PanelIInv, TasksInv, IInv
  <2>2. OvertakenInv'
    BY <2>1 DEF OvertakenInv, Queued
  <2>3. ~spoke'[u] /\ ~Ready(u)'
    BY <1>1, <2>1 DEF HeardInv, GreetedInv, Ready, panelVars
  <2>4. ASSUME NEW v \in Turns, Newest(v)'
        PROVE  v = u
    <3>1. v > u \/ v = u \/ u > v
      BY MaxTurnsAssumption DEF Turns
    <3>2. v > u => turn'[v] = "unborn"
      BY <1>1, <2>1 DEF OrderInv
    <3>3. QED
      BY <2>1, <2>4, <3>1, <3>2 DEF Newest
  <2>5. PanelInv'
    BY <2>1, <2>3, <2>4 DEF PanelInv, PanelOK
  <2>6. QED
    BY <1>2, <2>1, <2>2, <2>5 DEF PanelParts
<1>11. QED
  BY <1>6, <1>7, <1>8, <1>9, <1>10 DEF SilentStep

-----------------------------------------------------------------------------
\* However many turns are opened and however far behind the panel is: the
\* invariant of the threads, of the stream between them, and of the panel.
THEOREM PanelInvariance == TurnScreenSpec => []PanelIInv
<1>1. TurnScreenInit => PanelIInv
  BY InitPanel
<1>2. PanelIInv /\ [TurnScreenNext]_<<vars, panelVars>> => PanelIInv'
  <2> SUFFICES ASSUME PanelIInv, [TurnScreenNext]_<<vars, panelVars>>
               PROVE  PanelIInv'
    OBVIOUS
  <2>1. TasksInv'
    <3>1. TasksInv /\ [Next]_vars
      BY PanelSteps DEF PanelIInv
    <3>2. TypeOK' /\ SlotInv' /\ ChannelsReachLiveTurn' /\ DrainInv'
          /\ FollowupMicIsQuiet'
      BY <3>1, TypeStep, SlotStep, ChannelsStep, DrainStep, FollowupStep
      DEF TasksInv, IInv
    <3>3. OrderInv' /\ HeardInv'
      BY <3>1, OrderStep, HeardStep DEF TasksInv, IInv
    <3>4. QED
      BY <3>2, <3>3 DEF TasksInv, IInv
  <2>2. PanelTypeOK'
    BY PanelTypeStep
  <2>3. PanelParts' /\ GreetedInv'
    <3>1. CASE UNCHANGED <<vars, panelVars>>
      <4>1. StreamInv' /\ WordsInv'
        BY <3>1 DEF PanelIInv, StreamInv, WordsInv, Gone, Up, vars,
           captureVars, panelVars, screenVars, ghostVars
      <4>2. PanelInv'
        BY <3>1 DEF PanelIInv, PanelInv, PanelOK, SpeaksOn, ToldBy, Event,
           Newest, Ready, Up, vars, captureVars, turnVars, panelVars,
           screenVars, ghostVars
      <4>3. OvertakenInv' /\ GreetedInv'
        BY <3>1 DEF PanelIInv, OvertakenInv, Queued, GreetedInv, Newest, Ready,
           Up, vars, captureVars, turnVars, audioVars, panelVars, ghostVars
      <4>4. QED
        BY <4>1, <4>2, <4>3 DEF PanelParts
    <3>2. CASE TurnScreenNext
      <4>1. GreetedInv'
        BY <3>2, GreetedStep
      <4>2. PanelParts'
        <5>1. CASE Handle
          BY <5>1, HandleKeeps DEF PanelParts
        <5>2. CASE DetectedEmitted \/ StoppedEmitted \/ SilentStep
          BY <5>2, WakeReported, StopSays, SilentKeeps
        <5>3. ASSUME NEW t \in Turns,
                     \/ OpenedByWake(t) \/ FollowupEmitted(t)
                     \/ ConnectingEmitted(t) \/ NoConnectionEmitted(t)
                     \/ StreamingEmitted(t) \/ TranscriptEmitted(t)
                     \/ ReplyTokenEmitted(t) \/ SpeakingEmitted(t)
                     \/ EndEmitted(t) \/ BargedInEmitted(t)
                     \/ DrainedEmitted(t)
              PROVE  PanelParts'
          BY <5>3, WakeOpens, TurnSays, TurnEnds, WatcherSays
        <5>4. QED
          BY <3>2, <5>1, <5>2, <5>3 DEF TurnScreenNext
      <4>3. QED
        BY <4>1, <4>2
    <3>3. QED
      BY <3>1, <3>2
  <2>4. QED
    BY <2>1, <2>2, <2>3 DEF PanelIInv, PanelParts
<1>3. QED
  BY <1>1, <1>2, PTL DEF TurnScreenSpec

\* The panel keeps its types: no handler leaves it a phase, a transcript or
\* words that are not some turn's.
THEOREM PanelTypeCorrect == TurnScreenSpec => []PanelTypeOK
<1>1. PanelIInv => PanelTypeOK
  BY DEF PanelIInv
<1>2. QED
  BY <1>1, PanelInvariance, PTL

\* While a reply is heard and the UI thread has caught up, the panel is up
\* with that reply's words and no others, but for the four exceptions: for any
\* number of turns, any ring and any backlog of events.
THEOREM PanelAlwaysTells == TurnScreenSpec => []PanelWhileAudible
<1>1. PanelIInv => PanelWhileAudible
  <2> SUFFICES ASSUME PanelIInv, NEW t \in Turns, Audible(t), events = << >>,
                      t \notin excused
               PROVE  DisplayActive /\ transcript = t /\ reply \subseteq {t}
    BY DEF PanelWhileAudible
  <2>1. Up /\ ~wedged /\ Queued(t) /\ Len(events) = 0
    BY DEF Audible, Queued
  <2>2. Newest(t)
    BY <2>1 DEF PanelIInv, OvertakenInv
  <2>3. /\ spoke[t] /\ watcher[t] \in {"none", "draining"}
        /\ turn[t] \notin {"unborn", "resolving"}
    BY <2>1 DEF PanelIInv, TasksInv, IInv, TypeOK, HeardInv, WatcherPcs
  <2>4. Ready(t)
    BY <2>3 DEF PanelIInv, GreetedInv
  <2>5. PanelOK(t)
    BY <2>1 DEF PanelIInv, PanelInv
  <2>6. SpeaksOn(t) /\ uncleared \subseteq {t}
    BY <2>2, <2>3, <2>4, <2>5 DEF PanelOK
  <2>7. transcript = t /\ audioPlaying
    BY <2>1, <2>6 DEF SpeaksOn
  <2>8. \A v \in reply : v \in uncleared
    <3> SUFFICES ASSUME NEW v \in reply, v \notin uncleared PROVE FALSE
      OBVIOUS
    <3>1. v \in Turns
      BY DEF PanelIInv, PanelTypeOK
    <3>2. Gone(v)
      BY <2>1, <3>1 DEF PanelIInv, WordsInv
    <3>3. QED
      BY <2>1, <3>2 DEF Gone
  <2>9. QED
    BY <2>6, <2>7, <2>8 DEF DisplayActive
<1>2. QED
  BY <1>1, PanelInvariance, PTL
=============================================================================
