--------------------------- MODULE Channels_proofs ---------------------------
(****************************************************************************)
(* Proofs about the two ends of a display's channels.  TimerMirror: types,  *)
(* that no entry outlives the channel that must take it away, and that the  *)
(* settled mirror is the display's timers.  PushLink: types, and that a     *)
(* pinned display hears its Mac.  PushChannels: types, and that a display   *)
(* which has not joined has nothing queued.                                 *)
(****************************************************************************)
EXTENDS TimerMirror, PushLink, PushChannels, TLAPS

\* The channel has a connection unless it is down, one that is still to be
\* dialed has no task, and nobody owes more publications than there were changes.
LinkInv ==
  /\ stage # "down" => conn \in Conns
  /\ \A c \in Conns : c > conn => task[c] = "none"
  /\ owed <= table

\* The registry holds the channels whose task is between hello and the end.
RegistryInv ==
  \A c \in Conns : task[c] \in {"open", "left", "forgotten"} <=> c \in registered

IInv == TypeOK /\ LinkInv /\ RegistryInv /\ EntryHasOwner

USE BoundsAssumption

LEMMA InitIInv == Init => IInv
<1> SUFFICES ASSUME Init PROVE IInv
  OBVIOUS
<1>1. up \in [Conns -> Seq(Versions)]
  BY DEF Init
<1>2. TypeOK
  <2>1. /\ 0 \in Versions /\ 0 \in 0 .. MaxConns /\ 0 \in 0 .. MaxRestarts
        /\ {} \subseteq Conns /\ {} \subseteq Entries
    BY DEF Versions
  <2>2. task \in [Conns -> {"none", "dialed", "open", "left", "forgotten", "done"}]
    BY DEF Init
  <2>3. QED
    BY <1>1, <2>1, <2>2 DEF Init, TypeOK
<1>3. LinkInv /\ RegistryInv /\ EntryHasOwner
  BY DEF Init, LinkInv, RegistryInv, EntryHasOwner
<1>4. QED
  BY <1>2, <1>3 DEF IInv

\* The display's steps leave the Core's state to the Core; a connection is
\* dialed under a number that has no task yet or had none.
LEMMA DisplayKeeps ==
  ASSUME IInv, DisplayStep
  PROVE  IInv'
<1>1. TypeOK /\ LinkInv /\ RegistryInv /\ EntryHasOwner
  BY DEF IInv
<1>2. CASE TimersChange
  BY <1>1, <1>2 DEF TimersChange, IInv, TypeOK, LinkInv, RegistryInv,
    EntryHasOwner, coreVars, Versions
<1>3. CASE Publish
  BY <1>1, <1>3 DEF Publish, IInv, TypeOK, LinkInv, RegistryInv,
    EntryHasOwner, coreVars, Versions
<1>4. CASE MarkSeen \/ BuildReport
  BY <1>1, <1>4 DEF MarkSeen, BuildReport, IInv, TypeOK, LinkInv, RegistryInv,
    EntryHasOwner, coreVars
<1>5. CASE SendReport
  <2>1. conn \in Conns /\ up' = [up EXCEPT ![conn] = Append(@, frame)]
    BY <1>1, <1>5 DEF SendReport, LinkInv
  <2>2. up' \in [Conns -> Seq(Versions)]
    BY <1>1, <2>1 DEF TypeOK
  <2>3. QED
    BY <1>1, <1>5, <2>2 DEF SendReport, IInv, TypeOK, LinkInv, RegistryInv,
      EntryHasOwner, coreVars
<1>6. CASE Disconnect
  <2>1. conn \in Conns
    BY <1>1, <1>6 DEF Disconnect, LinkInv
  <2>2. PICK n \in 0 .. Len(up[conn]) :
          up' = [up EXCEPT ![conn] = SubSeq(@, 1, n)]
    BY <1>6 DEF Disconnect
  <2>3. SubSeq(up[conn], 1, n) \in Seq(Versions)
    BY <1>1, <2>1 DEF TypeOK
  <2>4. up' \in [Conns -> Seq(Versions)]
    BY <1>1, <2>1, <2>2, <2>3 DEF TypeOK
  <2>5. QED
    BY <1>1, <1>6, <2>1, <2>4 DEF Disconnect, IInv, TypeOK, LinkInv,
      RegistryInv, EntryHasOwner, coreVars
<1>7. CASE Connect
  <2>1. /\ conn + 1 \in Conns /\ conn' = conn + 1 /\ stage' = "greeted"
        /\ task' = [task EXCEPT ![conn + 1] = "dialed"]
        /\ UNCHANGED <<table, owed, unseen, frame, up, shut, registered, mirror,
                       heard, latest, restarts>>
    BY <1>1, <1>7 DEF Connect, TypeOK, Conns
  <2>2. task[conn + 1] = "none"
    BY <1>1, <2>1 DEF TypeOK, LinkInv
  <2>3. TypeOK'
    BY <1>1, <2>1 DEF TypeOK, Conns
  <2>4. LinkInv'
    BY <1>1, <2>1 DEF LinkInv, TypeOK, Conns
  <2>5. RegistryInv'
    BY <1>1, <2>1, <2>2 DEF RegistryInv, TypeOK
  <2>6. EntryHasOwner'
    BY <1>1, <2>1, <2>2 DEF EntryHasOwner, TypeOK, Entries
  <2>7. QED
    BY <2>3, <2>4, <2>5, <2>6 DEF IInv
<1>8. QED
  BY <1>2, <1>3, <1>4, <1>5, <1>6, <1>7 DEF DisplayStep

\* A step of the Core's task c.
LEMMA CoreKeeps ==
  ASSUME IInv, NEW c \in Conns, CoreStep(c)
  PROVE  IInv'
<1>1. TypeOK /\ LinkInv /\ RegistryInv /\ EntryHasOwner
  BY DEF IInv
<1>2. UNCHANGED <<table, owed, unseen, conn, stage, frame, shut, restarts>>
  BY DEF CoreStep, Register, NoHello, Report, Leave, Forget, Deregister,
    displayVars
<1>3. TypeOK'
  <2>1. CASE Report(c)
    <3>1. Head(up[c]) \in Versions /\ Tail(up[c]) \in Seq(Versions)
      BY <1>1, <2>1 DEF Report, TypeOK
    <3>2. QED
      BY <1>1, <1>2, <2>1, <3>1 DEF Report, TypeOK, Entries, Conns
  <2>2. CASE ~Report(c)
    BY <1>1, <1>2, <2>2 DEF CoreStep, Register, NoHello, Leave, Forget,
      Deregister, TypeOK
  <2>3. QED
    BY <2>1, <2>2
<1>4. task[c] # "none" /\ \A d \in Conns \ {c} : task'[d] = task[d]
  BY <1>1 DEF CoreStep, Register, NoHello, Report, Leave, Forget, Deregister,
    TypeOK
<1>5. LinkInv'
  BY <1>1, <1>2, <1>4 DEF LinkInv
<1>6. RegistryInv'
  BY <1>1 DEF RegistryInv, TypeOK, CoreStep, Register, NoHello, Report, Leave,
    Forget, Deregister
<1>7. EntryHasOwner'
  <2>1. CASE Register(c) \/ NoHello(c) \/ Leave(c)
    BY <1>1, <2>1 DEF Register, NoHello, Leave, EntryHasOwner, TypeOK, Entries
  <2>2. CASE Report(c)
    BY <1>1, <2>2 DEF Report, EntryHasOwner, RegistryInv
  <2>3. CASE Forget(c)
    BY <1>1, <2>3 DEF Forget, EntryHasOwner, TypeOK, Entries
  <2>4. CASE Deregister(c)
    BY <1>1, <2>4 DEF Deregister, EntryHasOwner, TypeOK, Entries
  <2>5. QED
    BY <2>1, <2>2, <2>3, <2>4 DEF CoreStep
<1>8. QED
  BY <1>3, <1>5, <1>6, <1>7 DEF IInv

LEMMA InvStep == IInv /\ [Next]_vars => IInv'
<1> SUFFICES ASSUME IInv, [Next]_vars PROVE IInv'
  OBVIOUS
<1>1. CASE DisplayStep
  BY <1>1, DisplayKeeps
<1>2. CASE \E c \in Conns : CoreStep(c)
  BY <1>2, CoreKeeps
<1>3. CASE Restart
  BY <1>3 DEF Restart, IInv, TypeOK, LinkInv, RegistryInv, EntryHasOwner,
    displayVars
<1>4. CASE UNCHANGED vars
  BY <1>4 DEF vars, displayVars, coreVars, IInv, TypeOK, LinkInv, RegistryInv,
    EntryHasOwner
<1>5. QED
  BY <1>1, <1>2, <1>3, <1>4 DEF Next

\* Every reachable state satisfies the inductive invariant.
THEOREM Invariance == Spec => []IInv
  BY InitIInv, InvStep, PTL DEF Spec

\* The types.
THEOREM TypeCorrect == Spec => []TypeOK
<1>1. IInv => TypeOK
  BY DEF IInv
<1>2. QED
  BY <1>1, Invariance, PTL

\* No entry of DisplayTimers outlives the channel that must take it away.
THEOREM EntryAlwaysHasOwner == Spec => []EntryHasOwner
<1>1. IInv => EntryHasOwner
  BY DEF IInv
<1>2. QED
  BY <1>1, Invariance, PTL

-----------------------------------------------------------------------------
(* The mirror of a settled display.                                         *)

\* What was built since the last tick is the table, unless a publication is
\* still to come.
FrameInv ==
  stage \in {"built", "listening"} /\ ~unseen /\ owed = 0 => frame = table

\* The last report of the newest connection is the frame: on its way, or, when
\* the task has read them all, in the mirror, unless another connection has
\* reported since.
SaidInv ==
  stage = "listening" =>
    /\ up[conn] # << >> => up[conn][Len(up[conn])] = frame
    /\ task[conn] = "dialed" => up[conn] # << >>
    /\ task[conn] = "open" /\ up[conn] = << >> =>
         /\ heard = conn
         /\ latest = conn => mirror = {[conn |-> conn, table |-> frame]}

\* No connection is heard before it is dialed.
HeardInv == heard <= conn

AgreeInv == IInv /\ FrameInv /\ SaidInv /\ HeardInv

LEMMA InitAgreeInv == Init => AgreeInv
<1> SUFFICES ASSUME Init PROVE AgreeInv
  OBVIOUS
<1>1. FrameInv /\ SaidInv /\ HeardInv
  BY DEF Init, FrameInv, SaidInv, HeardInv
<1>2. QED
  BY <1>1, InitIInv DEF AgreeInv

LEMMA DisplayKeepsAgree ==
  ASSUME AgreeInv, DisplayStep
  PROVE  FrameInv' /\ SaidInv' /\ HeardInv'
<1>1. TypeOK /\ LinkInv /\ FrameInv /\ SaidInv /\ HeardInv
  BY DEF AgreeInv, IInv
<1>2. FrameInv'
  BY <1>1 DEF FrameInv, TypeOK, Versions, DisplayStep, TimersChange, Publish,
    Connect, MarkSeen, BuildReport, SendReport, Disconnect
<1>3. HeardInv'
  BY <1>1 DEF HeardInv, TypeOK, DisplayStep, TimersChange, Publish,
    Connect, MarkSeen, BuildReport, SendReport, Disconnect, coreVars
<1>4. SaidInv'
  <2>1. CASE TimersChange \/ Publish
    BY <1>1, <2>1 DEF TimersChange, Publish, SaidInv, coreVars
  <2>2. CASE Connect \/ MarkSeen \/ BuildReport \/ Disconnect
    BY <2>2 DEF Connect, MarkSeen, BuildReport, Disconnect, SaidInv
  <2>3. CASE SendReport
    <3>1. conn \in Conns /\ up[conn] \in Seq(Versions) /\ frame \in Versions
      BY <1>1, <2>3 DEF SendReport, LinkInv, TypeOK
    <3>2. up'[conn] = Append(up[conn], frame)
      BY <1>1, <2>3, <3>1 DEF SendReport, TypeOK
    <3>3. up'[conn] # << >> /\ up'[conn][Len(up'[conn])] = frame
      BY <3>1, <3>2
    <3>4. QED
      BY <2>3, <3>3 DEF SendReport, SaidInv
  <2>4. QED
    BY <2>1, <2>2, <2>3 DEF DisplayStep
<1>5. QED
  BY <1>2, <1>3, <1>4

\* A sequence whose tail is empty holds its head only.
LEMMA OnlyOne ==
  ASSUME NEW S, NEW s \in Seq(S), s # << >>, Tail(s) = << >>
  PROVE  Head(s) = s[Len(s)]
<1>1. Tail(s) \in Seq(S) /\ Len(Tail(s)) = Len(s) - 1
  OBVIOUS
<1>2. ASSUME NEW t \in Seq(S), t = << >>
      PROVE  Len(t) = 0
  BY <1>2
<1>3. Len(s) = 1
  BY <1>1, <1>2
<1>4. QED
  BY <1>3

\* A task of another connection leaves the newest one's entry alone, unless it
\* reports; the newest one's last report brings the frame.
LEMMA CoreKeepsAgree ==
  ASSUME AgreeInv, NEW c \in Conns, CoreStep(c)
  PROVE  FrameInv' /\ SaidInv' /\ HeardInv'
<1>1. TypeOK /\ LinkInv /\ FrameInv /\ SaidInv /\ HeardInv
  BY DEF AgreeInv, IInv
<1>2. UNCHANGED <<table, owed, unseen, conn, stage, frame, shut, restarts>>
  BY DEF CoreStep, Register, NoHello, Report, Leave, Forget, Deregister,
    displayVars
<1>3. FrameInv'
  BY <1>1, <1>2 DEF FrameInv
<1>4. c <= conn /\ task[c] # "none"
  BY <1>1 DEF CoreStep, Register, NoHello, Report, Leave, Forget, Deregister,
    LinkInv, TypeOK, Conns
<1>5. HeardInv'
  BY <1>1, <1>2, <1>4 DEF HeardInv, CoreStep, Register, NoHello, Report, Leave,
    Forget, Deregister
<1>6. SaidInv'
  <2> SUFFICES ASSUME stage = "listening"
               PROVE  SaidInv'
    BY <1>2 DEF SaidInv
  <2>1. conn \in Conns
    BY <1>1 DEF LinkInv
  <2>2. CASE Report(c)
    <3>1. /\ up[c] \in Seq(Versions) /\ up[c] # << >>
          /\ up'[c] = Tail(up[c]) /\ \A d \in Conns \ {c} : up'[d] = up[d]
          /\ task[c] = "open" /\ task' = task /\ latest' = c
          /\ heard' = IF c > heard THEN c ELSE heard
          /\ mirror' = {[conn |-> c, table |-> Head(up[c])]}
      BY <1>1, <2>2 DEF Report, TypeOK
    <3>2. CASE c = conn
      <4>1. up'[c] # << >> => up'[c][Len(up'[c])] = frame
        BY <1>1, <3>1, <3>2 DEF SaidInv
      <4>2. up'[c] = << >> => Head(up[c]) = frame
        BY <1>1, <3>1, <3>2, OnlyOne DEF SaidInv
      <4>3. heard' = conn
        BY <1>1, <3>1, <3>2, <2>1 DEF HeardInv, TypeOK, Conns
      <4>4. QED
        BY <1>2, <3>1, <3>2, <4>1, <4>2, <4>3 DEF SaidInv
    <3>3. CASE c # conn
      <4>1. heard = conn => heard' = conn
        BY <1>1, <1>4, <3>1 DEF TypeOK, Conns
      <4>2. QED
        BY <1>1, <1>2, <2>1, <3>1, <3>3, <4>1 DEF SaidInv
    <3>4. QED
      BY <3>2, <3>3
  <2>3. CASE ~Report(c)
    <3>1. UNCHANGED <<up, heard, latest>>
      BY <2>3 DEF CoreStep, Register, NoHello, Leave, Forget, Deregister
    <3>2. /\ task'[conn] = "dialed" => task[conn] = "dialed"
          /\ task'[conn] = "open" =>
               task[conn] = "open" \/ (Register(c) /\ c = conn)
      <4>1. CASE Register(c)
        BY <1>1, <2>1, <4>1 DEF Register, TypeOK
      <4>2. CASE NoHello(c) \/ Leave(c) \/ Forget(c) \/ Deregister(c)
        BY <1>1, <2>1, <4>2 DEF NoHello, Leave, Forget, Deregister, TypeOK
      <4>3. QED
        BY <2>3, <4>1, <4>2 DEF CoreStep
    <3>3. CASE Register(c) /\ c = conn
      <4>1. up[conn] # << >>
        BY <1>1, <3>3 DEF SaidInv, Register
      <4>2. QED
        BY <1>1, <1>2, <3>1, <4>1 DEF SaidInv
    <3>4. CASE ~(Register(c) /\ c = conn)
      <4>1. ASSUME task'[conn] = "open"
            PROVE  \/ mirror' = mirror
                   \/ mirror' = {e \in mirror : e.conn # c} /\ c # conn
        <5>1. CASE Forget(c)
          BY <1>1, <2>1, <4>1, <5>1 DEF Forget, TypeOK
        <5>2. CASE Register(c) \/ NoHello(c) \/ Leave(c) \/ Deregister(c)
          BY <5>2 DEF Register, NoHello, Leave, Deregister
        <5>3. QED
          BY <2>3, <5>1, <5>2 DEF CoreStep
      <4>2. QED
        BY <1>1, <1>2, <2>1, <3>1, <3>2, <3>4, <4>1 DEF SaidInv
    <3>5. QED
      BY <3>3, <3>4
  <2>4. QED
    BY <2>2, <2>3
<1>7. QED
  BY <1>3, <1>5, <1>6

LEMMA AgreeStep == AgreeInv /\ [Next]_vars => AgreeInv'
<1> SUFFICES ASSUME AgreeInv, [Next]_vars PROVE AgreeInv'
  OBVIOUS
<1>1. IInv'
  BY InvStep DEF AgreeInv
<1>2. CASE DisplayStep
  BY <1>1, <1>2, DisplayKeepsAgree DEF AgreeInv
<1>3. CASE \E c \in Conns : CoreStep(c)
  BY <1>1, <1>3, CoreKeepsAgree DEF AgreeInv
<1>4. CASE Restart
  <2>1. TypeOK /\ LinkInv /\ FrameInv
    BY DEF AgreeInv, IInv
  <2>2. FrameInv' /\ HeardInv'
    BY <1>4, <2>1 DEF Restart, displayVars, FrameInv, HeardInv, TypeOK
  <2>3. stage = "listening" => task'[conn] \in {"none", "done"}
    BY <1>4, <2>1 DEF Restart, LinkInv
  <2>4. SaidInv'
    BY <1>4, <2>3 DEF Restart, displayVars, SaidInv, AgreeInv
  <2>5. QED
    BY <1>1, <2>2, <2>4 DEF AgreeInv
<1>5. CASE UNCHANGED vars
  BY <1>1, <1>5 DEF vars, displayVars, coreVars, AgreeInv, FrameInv, SaidInv,
    HeardInv
<1>6. QED
  BY <1>2, <1>3, <1>4, <1>5 DEF Next

\* When everything a display said has been heard, the mirror is its timers,
\* unless an old connection's report overtook a newer one's.
THEOREM MirrorAlwaysAgrees == Spec => []MirrorAgreesUnlessOvertaken
<1>1. AgreeInv => MirrorAgreesUnlessOvertaken
  BY DEF AgreeInv, MirrorAgreesUnlessOvertaken, MirrorAgrees, Settled, FrameInv,
    SaidInv
<1>2. QED
  BY <1>1, InitAgreeInv, AgreeStep, PTL DEF Spec

-----------------------------------------------------------------------------
(* The display's end of a push channel.                                     *)

\* The address the loop goes to belongs, or belonged, to a Mac the pin allows;
\* the cache and the network know where each Mac was.
AddressInv ==
  /\ phase \in {"dial", "hello", "open"} =>
       target \in Addrs /\ \E m \in owners[target] : Accepts(m)
  /\ cached # Nowhere => cached.mac \in owners[cached.addr]
  /\ \A m \in Macs : home[m] # "off" => m \in owners[home[m]]

LinkIInv == ChannelTypeOK /\ AddressInv

LEMMA InitLink == ChannelInit => LinkIInv
<1> SUFFICES ASSUME ChannelInit PROVE LinkIInv
  OBVIOUS
<1>1. ChannelTypeOK
  <2>1. backoff \in MinBackoff .. MaxBackoff
    BY DEF ChannelInit, MinBackoff, MaxBackoff
  <2>2. owners \in [Addrs -> SUBSET Macs]
    BY DEF ChannelInit, At
  <2>3. QED
    BY <2>1, <2>2 DEF ChannelInit, ChannelTypeOK
<1>2. AddressInv
  BY DEF ChannelInit, AddressInv, At
<1>3. QED
  BY <1>1, <1>2 DEF LinkIInv

\* The loop's own steps leave the network alone.
LEMMA LoopKeeps ==
  ASSUME LinkIInv,
         \/ FallsBack \/ ResolveFails
         \/ DialConnects \/ DialFails \/ SaysHello
         \/ ConnectionFails \/ ReportChanges \/ ReadsClose \/ WaitOver
         \/ ConsumerGone \/ StopChannel \/ StopNoticed
  PROVE  LinkIInv'
<1>1. ChannelTypeOK /\ AddressInv
  BY DEF LinkIInv
<1>2. ChannelTypeOK'
  <2>1. CASE FallsBack
    BY <1>1, <2>1 DEF FallsBack, ChannelTypeOK
  <2>2. CASE DialConnects
    BY <1>1, <2>2, ChannelAssumption DEF DialConnects, ChannelTypeOK, At
  <2>3. CASE WaitOver
    BY <1>1, <2>3 DEF WaitOver, ChannelTypeOK, MinBackoff, MaxBackoff
  <2>4. CASE ResolveFails \/ DialFails \/ ConnectionFails
    BY <1>1, <2>4 DEF ResolveFails, DialFails, ConnectionFails, Failed,
      ChannelTypeOK
  <2>5. CASE SaysHello \/ ReportChanges \/ StopChannel
    BY <1>1, <2>5 DEF SaysHello, ReportChanges, StopChannel, ChannelTypeOK
  <2>6. CASE ReadsClose
    <3>1. backoff' \in MinBackoff .. MaxBackoff
      BY <2>6 DEF ReadsClose, MinBackoff, MaxBackoff
    <3>2. QED
      BY <1>1, <2>6, <3>1 DEF ReadsClose, ChannelTypeOK
  <2>7. CASE ConsumerGone \/ StopNoticed
    BY <1>1, <2>7 DEF ConsumerGone, StopNoticed, ChannelTypeOK
  <2>8. QED
    BY <2>1, <2>2, <2>3, <2>4, <2>5, <2>6, <2>7
<1>3. AddressInv'
  <2>1. UNCHANGED <<pin, home, owners>>
    BY DEF FallsBack, ResolveFails, DialConnects, DialFails, SaysHello,
      ConnectionFails, ReportChanges, ReadsClose, WaitOver, ConsumerGone,
      StopChannel, StopNoticed, Failed
  <2>2. CASE FallsBack
    BY <1>1, <2>1, <2>2 DEF FallsBack, ChannelTypeOK, AddressInv, Accepts
  <2>3. CASE ResolveFails \/ DialFails \/ ConnectionFails
    BY <1>1, <2>1, <2>3 DEF ResolveFails, DialFails, ConnectionFails, Failed,
      AddressInv
  <2>4. CASE \/ DialConnects \/ SaysHello \/ ReportChanges \/ ReadsClose
             \/ WaitOver \/ ConsumerGone \/ StopChannel \/ StopNoticed
    BY <1>1, <2>1, <2>4 DEF DialConnects, SaysHello, ReportChanges, ReadsClose,
      WaitOver, ConsumerGone, StopChannel, StopNoticed, AddressInv, Accepts
  <2>5. QED
    BY <2>2, <2>3, <2>4
<1>4. QED
  BY <1>2, <1>3 DEF LinkIInv

\* A browse finds a Mac where it is; a Mac keeps its past addresses.
LEMMA NetworkKeeps ==
  ASSUME LinkIInv, NEW m \in Macs,
         \/ BrowseFinds(m)
         \/ \E how \in {"closed", "reset", "deaf"} : MacGoes(m, how)
         \/ \E a \in Addrs : MacComes(m, a)
  PROVE  LinkIInv'
<1>1. ChannelTypeOK /\ AddressInv
  BY DEF LinkIInv
<1>2. CASE BrowseFinds(m)
  <2>1. home[m] \in Addrs /\ m \in owners[home[m]] /\ Accepts(m)
    BY <1>1, <1>2 DEF BrowseFinds, ChannelTypeOK, AddressInv
  <2>2. ChannelTypeOK'
    BY <1>1, <1>2, <2>1 DEF BrowseFinds, ChannelTypeOK
  <2>3. AddressInv'
    BY <1>1, <1>2, <2>1 DEF BrowseFinds, AddressInv, Accepts
  <2>4. QED
    BY <2>2, <2>3 DEF LinkIInv
<1>3. ASSUME NEW how \in {"closed", "reset", "deaf"}, MacGoes(m, how)
      PROVE  LinkIInv'
  <2>1. ChannelTypeOK'
    BY <1>1, <1>3 DEF MacGoes, ChannelTypeOK
  <2>2. AddressInv'
    BY <1>1, <1>3 DEF MacGoes, ChannelTypeOK, AddressInv, Accepts
  <2>3. QED
    BY <2>1, <2>2 DEF LinkIInv
<1>4. ASSUME NEW a \in Addrs, MacComes(m, a)
      PROVE  LinkIInv'
  <2>1. owners' \in [Addrs -> SUBSET Macs]
    BY <1>1, <1>4 DEF MacComes, ChannelTypeOK
  <2>2. ChannelTypeOK'
    BY <1>1, <1>4, <2>1 DEF MacComes, ChannelTypeOK
  <2>3. \A b \in Addrs : owners[b] \subseteq owners'[b]
    BY <1>1, <1>4 DEF MacComes, ChannelTypeOK
  <2>4. \A n \in Macs : home'[n] # "off" => n \in owners'[home'[n]]
    BY <1>1, <1>4, <2>3 DEF MacComes, ChannelTypeOK, AddressInv
  <2>5. cached # Nowhere => cached.addr \in Addrs
    BY <1>1 DEF ChannelTypeOK
  <2>6. AddressInv'
    BY <1>1, <1>4, <2>3, <2>4, <2>5 DEF MacComes, AddressInv, Accepts
  <2>7. QED
    BY <2>2, <2>6 DEF LinkIInv
<1>5. QED
  BY <1>2, <1>3, <1>4

LEMMA LinkStep == LinkIInv /\ [ChannelNext]_channelVars => LinkIInv'
<1> SUFFICES ASSUME LinkIInv, [ChannelNext]_channelVars PROVE LinkIInv'
  OBVIOUS
<1>1. CASE UNCHANGED channelVars
  BY <1>1 DEF channelVars, LinkIInv, ChannelTypeOK, AddressInv, Accepts
<1>2. CASE ChannelNext
  BY <1>2, LoopKeeps, NetworkKeeps DEF ChannelNext
<1>3. QED
  BY <1>1, <1>2

\* Every reachable state of the channel satisfies the inductive invariant.
THEOREM LinkInvariance == ChannelSpec => []LinkIInv
  BY InitLink, LinkStep, PTL DEF ChannelSpec

\* The types of the channel's state.
THEOREM ChannelTypeCorrect == ChannelSpec => []ChannelTypeOK
<1>1. LinkIInv => ChannelTypeOK
  BY DEF LinkIInv
<1>2. QED
  BY <1>1, LinkInvariance, PTL

\* A pinned display listens to its own Mac, or at an address that was its Mac's.
THEOREM PinnedAlwaysHearsItsMac == ChannelSpec => []PinnedHearsItsMac
<1>1. LinkIInv => PinnedHearsItsMac
  BY DEF LinkIInv, AddressInv, PinnedHearsItsMac
<1>2. QED
  BY <1>1, LinkInvariance, PTL
-----------------------------------------------------------------------------
(* The Core's end of the push channels.                                     *)

\* What any service may show is something to show.
LEMMA ShowsTyped == \A r, l : ShowsOf(r, l) \subseteq Shows
BY DEF ShowsOf, Shows

\* A push goes to the displays that have joined, and to no others.
LEMMA PushKeeps ==
  ASSUME PushTypeOK, NEW s \in Shows, Push(s)
  PROVE  /\ queue' \in [Displays -> Seq(Shows)]
         /\ \A d \in Displays : channel[d] # "in" => queue'[d] = queue[d]
<1>1. \A d \in Displays : Append(queue[d], s) \in Seq(Shows)
  BY DEF PushTypeOK
<1>2. QED
  BY <1>1 DEF Push, PushTypeOK, Registered

\* What a connection does with its queue.
LEMMA ConnectionKeeps ==
  ASSUME PushTypeOK, NEW d \in Displays,
         Dial(d) \/ JoinReads(d) \/ JoinEnters(d) \/ Deliver(d) \/ DropChannel(d)
  PROVE  PushTypeOK'
<1>1. CASE Dial(d) \/ JoinEnters(d)
  BY <1>1 DEF Dial, JoinEnters, PushTypeOK
<1>2. CASE JoinReads(d)
  <2>1. (IF last = "none" THEN <<>> ELSE <<last>>) \in Seq(Shows)
    BY DEF PushTypeOK
  <2>2. QED
    BY <1>2, <2>1 DEF JoinReads, PushTypeOK
<1>3. CASE Deliver(d)
  <2>1. Head(queue[d]) \in Shows /\ Tail(queue[d]) \in Seq(Shows)
    BY <1>3 DEF Deliver, PushTypeOK
  <2>2. QED
    BY <1>3, <2>1 DEF Deliver, PushTypeOK
<1>4. CASE DropChannel(d)
  <2>1. <<>> \in Seq(Shows)
    OBVIOUS
  <2>2. QED
    BY <1>4, <2>1 DEF DropChannel, PushTypeOK
<1>5. QED
  BY <1>1, <1>2, <1>3, <1>4

\* Whatever the service, its values are of the kinds it has, and only a
\* display that is joining or has joined has pushes queued (notify.rs,
\* ChannelRegistry; server.rs, the branch of anamanti-hello).
THEOREM PushTypeCorrect == PushSpec => []PushTypeOK
<1>1. PushInit => PushTypeOK
  BY ShowsTyped DEF PushInit, PushTypeOK, Shows
<1>2. PushTypeOK /\ [PushNext]_pushVars => PushTypeOK'
  <2> SUFFICES ASSUME PushTypeOK, [PushNext]_pushVars PROVE PushTypeOK'
    OBVIOUS
  <2>1. truth \in Shows
    BY ShowsTyped DEF PushTypeOK
  <2>2. ASSUME NEW t \in Shows, ShowChanges(t) PROVE PushTypeOK'
    BY <2>2 DEF ShowChanges, PushTypeOK
  <2>3. CASE Fetch \/ StoreStep \/ KnobReads
    BY <2>1, <2>3 DEF Fetch, StoreStep, KnobReads, PushTypeOK
  <2>4. CASE PushStep
    <3>1. snap \in Shows
      BY DEF PushTypeOK
    <3>2. QED
      BY <2>4, <3>1, PushKeeps DEF PushStep, PushTypeOK
  <2>5. CASE KnobPushes
    <3>1. knobSnap \in Shows
      BY DEF PushTypeOK
    <3>2. QED
      BY <2>5, <3>1, PushKeeps DEF KnobPushes, PushTypeOK
  <2>6. CASE CoreRestarts
    <3>1. queue' \in [Displays -> Seq(Shows)] /\ last' \in Shows
      BY <2>6 DEF CoreRestarts, Shows
    <3>2. truth' \in ShowsOf(role', linked')
      BY <2>6 DEF CoreRestarts, PushTypeOK, ShowsOf
    <3>3. QED
      BY <2>6, <3>1, <3>2 DEF CoreRestarts, PushTypeOK
  <2>7. CASE UNCHANGED pushVars
    BY <2>7 DEF pushVars, PushTypeOK
  <2>8. QED
    BY <2>2, <2>3, <2>4, <2>5, <2>6, <2>7, ConnectionKeeps DEF PushNext
<1>3. QED
  BY <1>1, <1>2, PTL DEF PushSpec
=============================================================================
