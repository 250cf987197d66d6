-------------------------- MODULE Exchange_proofs --------------------------
(***************************************************************************)
(* What passes between the display and the Core, proved for any number of  *)
(* frames, sentences, views and tracks: the frames of a turn (TurnWire) and *)
(* the display context a turn is stamped with (DisplayScreen).             *)
(*                                                                         *)
(* A display that ends its turn on the Core's audio-stop has read the whole *)
(* reply, a reply is one audio stream, and a heard reply releases it; what  *)
(* a turn tells the Core of the screen is true.                            *)
(***************************************************************************)
EXTENDS TurnWire, DisplayScreen, TLAPS

\* The Core has left the turn: it writes nothing any more.
TurnLeft == core \in {"between", "closed"}

Wire == sent \in Seq(DownFrames) /\ got \in 0 .. Len(sent)

\* The Core writes one audio-stop, and it is the turn's last frame.
StopIsLast ==
  \A i \in 1 .. Len(sent) : sent[i] = "audio-stop" => i = Len(sent) /\ TurnLeft

\* A display that has seen it has read everything, and nothing more will come.
StopReadsAll == ended = "stop" => dev = "idle" /\ got = Len(sent) /\ TurnLeft

\* audioStarted tells whether the stream has been opened, and Piper's audio is
\* relayed only once it has.
StreamOpened ==
  /\ audioStarted => \E i \in 1 .. Len(sent) : sent[i] = "audio-start"
  /\ ~audioStarted =>
       \A i \in 1 .. Len(sent) :
         sent[i] \notin {"audio-start", "audio-chunk", "listen"}
  /\ core = "synthesizing" => audioStarted

\* OneAudioStream, position by position.
OneStart ==
  \A i, j \in 1 .. Len(sent) :
    sent[i] = "audio-start" /\ sent[j] = "audio-start" => i = j

StartComesFirst ==
  \A i \in 1 .. Len(sent) :
    sent[i] \in {"audio-chunk", "listen"} =>
      \E j \in 1 .. Len(sent) : sent[j] = "audio-start" /\ j < i

IInv == Wire /\ StopIsLast /\ StopReadsAll /\ StreamOpened /\ OneStart
          /\ StartComesFirst

-----------------------------------------------------------------------------
(* What a step of the Core writes, in four kinds.                           *)

CoreKeeps == UNCHANGED <<dev, ended, got>>

\* Frames that have no part in the audio stream, or none.
PlainWrites == {<< >>, <<"transcript">>, <<"enroll-result">>, <<"action">>,
                <<"reply-token">>, <<"action">> \o <<"reply-token">>}

Plain ==
  /\ CoreKeeps
  /\ UNCHANGED audioStarted
  /\ core' = "synthesizing" => core = "synthesizing"
  /\ TurnLeft => TurnLeft' /\ sent' = sent
  /\ \E f \in PlainWrites : sent' = sent \o f

\* A sentence begins: the stream is opened unless it is open.
Opens ==
  /\ CoreKeeps
  /\ ~TurnLeft
  /\ audioStarted'
  /\ \/ audioStarted /\ sent' = sent
     \/ ~audioStarted /\ sent' = Append(sent, "audio-start")

\* Audio, or the invitation to go on, in an open stream.
Relays ==
  /\ CoreKeeps
  /\ ~TurnLeft
  /\ core = "synthesizing" \/ audioStarted
  /\ UNCHANGED audioStarted
  /\ \E x \in {"audio-chunk", "listen"} : sent' = Append(sent, x)

\* The stop, with which the Core leaves the turn.
Stops ==
  /\ CoreKeeps
  /\ ~TurnLeft
  /\ TurnLeft'
  /\ UNCHANGED audioStarted
  /\ sent' = Append(sent, "audio-stop")

\* Writing one frame is appending it, writing none changes nothing.
LEMMA SayOne ==
  ASSUME NEW S, NEW s \in Seq(S), NEW x \in S
  PROVE  s \o <<x>> = Append(s, x) /\ s \o << >> = s
  OBVIOUS

\* Every step of the Core is of one of the four kinds.
LEMMA CoreWrites == Wire /\ Core => Plain \/ Opens \/ Relays \/ Stops
<1> SUFFICES ASSUME Wire, Core PROVE Plain \/ Opens \/ Relays \/ Stops
  OBVIOUS
<1> USE DEF CoreKeeps, TurnLeft, devVars, wireVars, coreVars
<1>0. /\ sent = sent \o << >>
      /\ \A x \in DownFrames : sent \o <<x>> = Append(sent, x)
  BY SayOne DEF Wire, DownFrames
<1>f. /\ "audio-start" \in DownFrames
      /\ "audio-chunk" \in DownFrames
      /\ "listen" \in DownFrames
      /\ "audio-stop" \in DownFrames
  BY DEF DownFrames
<1>1. CASE \/ CoreHearsChunk \/ CoreSkips \/ CoreSeesClose \/ CoreIdleTimeout
           \/ CoreListenFails \/ SttOnSilence \/ Decide \/ SameToken
           \/ NothingToSay \/ TtsEnd \/ TtsFails \/ RelayStops
           \/ WatcherReads \/ WatcherSeesClose \/ BetweenTurns
  <2>1. /\ UNCHANGED <<dev, ended, got, sent, audioStarted>>
        /\ core' = "synthesizing" => core = "synthesizing"
        /\ TurnLeft => TurnLeft'
    BY <1>1 DEF CoreHearsChunk, CoreSkips, CoreSeesClose, CoreIdleTimeout,
       CoreListenFails, SttOnSilence, Decide, SameToken,
       NothingToSay, TtsEnd, TtsFails, RelayStops, WatcherReads,
       WatcherSeesClose, BetweenTurns, Spoken, Quiet, DrivePcs
  <2>2. QED
    BY <2>1, <1>0 DEF Plain, PlainWrites
<1>2. CASE SttTranscript \/ Enroll \/ FastAction \/ FastText
  <2>1. \E f \in PlainWrites : sent' = sent \o f
    BY <1>2 DEF SttTranscript, Enroll, FastAction, FastText, Say, PlainWrites
  <2>2. QED
    BY <1>2, <2>1 DEF SttTranscript, Enroll, FastAction, FastText, Plain
<1>3. CASE LlmToken
  <2>1. PICK a \in {<< >>, <<"action">>} :
          sent' = sent \o (a \o <<"reply-token">>)
    BY <1>3 DEF LlmToken, Say
  <2>2. a \o <<"reply-token">> \in PlainWrites
    <3>1. CASE a = << >>
      BY <3>1 DEF PlainWrites
    <3>2. CASE a = <<"action">>
      BY <3>2 DEF PlainWrites
    <3>3. QED
      BY <2>1, <3>1, <3>2
  <2>3. QED
    BY <1>3, <2>1, <2>2 DEF LlmToken, Plain
<1>4. CASE LlmEnds \/ LlmStalls
  <2>1. \E f \in PlainWrites : sent' = sent \o f
    BY <1>4 DEF LlmEnds, LlmStalls, Say, PlainWrites
  <2>2. QED
    BY <1>4, <2>1 DEF LlmEnds, LlmStalls, Plain
<1>5. CASE TtsStart
  BY <1>0, <1>5, <1>f DEF TtsStart, Say, Opens
<1>6. CASE TtsChunk
  BY <1>0, <1>6, <1>f DEF TtsChunk, Say, Relays
<1>7. CASE Invite
  <2>1. CASE audioStarted /\ FollowUp /\ ~ending
    BY <1>0, <1>7, <2>1, <1>f DEF Invite, Say, Relays
  <2>2. CASE ~(audioStarted /\ FollowUp /\ ~ending)
    BY <1>0, <1>7, <2>2 DEF Invite, Say, Plain, PlainWrites
  <2>3. QED
    BY <2>1, <2>2
<1>8. CASE StopReply
  <2>1. CASE audioStarted
    BY <1>0, <1>8, <2>1, <1>f DEF StopReply, Say, Stops
  <2>2. CASE ~audioStarted
    BY <1>0, <1>8, <2>2 DEF StopReply, Say, Plain, PlainWrites
  <2>3. QED
    BY <2>1, <2>2
<1>9. CASE CloseQuietly \/ StopMute \/ StopStalled \/ StopFailing
  BY <1>0, <1>9, <1>f
     DEF CloseQuietly, StopMute, StopStalled, StopFailing, Say, Stops
<1>10. QED
  BY <1>1, <1>2, <1>3, <1>4, <1>5, <1>6, <1>7, <1>8, <1>9 DEF Core
-----------------------------------------------------------------------------
(* The inductive invariant.                                                 *)

\* The turn begins with nothing written.
LEMMA InitIInv == WireInit => IInv
<1> SUFFICES ASSUME WireInit PROVE IInv
  OBVIOUS
<1>1. sent = << >> /\ got = 0 /\ ended = "none" /\ core = "listening"
  BY DEF WireInit
<1>2. ~audioStarted
  BY DEF WireInit
<1>3. Wire
  BY <1>1 DEF Wire
<1>4. QED
  BY <1>1, <1>2, <1>3 DEF IInv, StopIsLast, StopReadsAll, StreamOpened,
                          OneStart, StartComesFirst

\* The display writes nothing downstream, and ends its turn on a stop only when
\* it reads one, which is then the last frame.
LEMMA DeviceStep == IInv /\ Device => IInv'
<1> SUFFICES ASSUME IInv, Device PROVE IInv'
  OBVIOUS
<1>1. UNCHANGED <<sent, core, audioStarted>>
  BY DEF Device, DevSendChunk, DevReadTranscript, DevReadStop, DevReadOther,
     DevTearsFrame, DevReadFails, DevSeesClose, DevWriteFails, DevTimeout,
     DevBargeIn, DevHangUp, coreVars, devVars, wireVars
<1>2. got' = got \/ (got < Len(sent) /\ got' = got + 1)
  BY DEF Device, DevSendChunk, DevReadTranscript, DevReadStop, DevReadOther,
     DevTearsFrame, DevReadFails, DevSeesClose, DevWriteFails, DevTimeout,
     DevBargeIn, DevHangUp, DevReads
<1>3. Wire'
  BY <1>1, <1>2 DEF IInv, Wire
<1>4. dev # "idle"
  BY DEF Device, DevSendChunk, DevReadTranscript, DevReadStop, DevReadOther,
     DevTearsFrame, DevReadFails, DevSeesClose, DevWriteFails, DevTimeout,
     DevBargeIn, DevHangUp, DevReads
<1>5. StopReadsAll'
  <2>1. ended # "stop"
    BY <1>4 DEF IInv, StopReadsAll
  <2>2. CASE DevReadStop /\ dev = "speaking"
    <3>1. got + 1 \in 1 .. Len(sent) /\ sent[got + 1] = "audio-stop"
          /\ got' = got + 1 /\ dev' = "idle"
      BY <2>2 DEF IInv, Wire, DevReadStop, DevReads, EndTurn
    <3>2. QED
      BY <1>1, <3>1 DEF IInv, StopIsLast, StopReadsAll, TurnLeft
  <2>3. CASE ~(DevReadStop /\ dev = "speaking")
    <3>1. ended' = ended \/ ended' \in Endings \ {"stop"}
      BY <2>3 DEF Device, DevSendChunk, DevReadTranscript, DevReadStop,
         DevReadOther, DevTearsFrame, DevReadFails, DevSeesClose,
         DevWriteFails, DevTimeout, DevBargeIn, DevHangUp, EndTurn, devVars,
         Endings
    <3>2. QED
      BY <2>1, <3>1 DEF StopReadsAll
  <2>4. QED
    BY <2>2, <2>3
<1>6. QED
  BY <1>1, <1>3, <1>5 DEF IInv, StopIsLast, StreamOpened, OneStart,
                          StartComesFirst, TurnLeft

\* Plain frames disturb neither the stop nor the stream.
LEMMA PlainStep == IInv /\ Plain => IInv'
<1> SUFFICES ASSUME IInv, Plain PROVE IInv'
  OBVIOUS
<1>1. PICK f \in PlainWrites : sent' = sent \o f
  BY DEF Plain
<1>2. f \in Seq(DownFrames)
  <2>1. /\ << >> \in Seq(DownFrames)
        /\ \A x \in DownFrames : <<x>> \in Seq(DownFrames)
        /\ \A x, y \in DownFrames : <<x>> \o <<y>> \in Seq(DownFrames)
    OBVIOUS
  <2>2. QED
    BY <1>1, <2>1 DEF PlainWrites, DownFrames
<1>3. \A i \in 1 .. Len(f) :
        f[i] \notin {"audio-start", "audio-chunk", "listen", "audio-stop"}
  <2>1. CASE f = << >>
    BY <2>1
  <2>2. CASE f \in {<<"transcript">>, <<"enroll-result">>, <<"action">>,
                   <<"reply-token">>}
    BY <2>2
  <2>3. CASE f = <<"action">> \o <<"reply-token">>
    <3>1. Len(f) = 2 /\ f[1] = "action" /\ f[2] = "reply-token"
      BY <2>3
    <3> QED
      BY <3>1
  <2> QED
    BY <1>1, <2>1, <2>2, <2>3 DEF PlainWrites
<1>4. /\ sent' \in Seq(DownFrames)
      /\ Len(sent) \in Nat /\ Len(sent') \in Nat /\ Len(sent) <= Len(sent')
      /\ \A i \in 1 .. Len(sent) : i \in 1 .. Len(sent') /\ sent'[i] = sent[i]
      /\ \A i \in 1 .. Len(sent') :
           i \in 1 .. Len(sent)
             \/ sent'[i] \notin {"audio-start", "audio-chunk", "listen",
                                 "audio-stop"}
  BY <1>1, <1>2, <1>3 DEF IInv, Wire
<1>5. Wire'
  BY <1>4 DEF IInv, Wire, Plain, CoreKeeps
<1>6. StopIsLast' /\ StopReadsAll'
  BY <1>4 DEF IInv, StopIsLast, StopReadsAll, Plain, CoreKeeps
<1>7. StreamOpened'
  BY <1>4 DEF IInv, StreamOpened, Plain
<1>8. OneStart' /\ StartComesFirst'
  BY <1>4 DEF IInv, OneStart, StartComesFirst
<1>9. QED
  BY <1>5, <1>6, <1>7, <1>8 DEF IInv

\* A frame that is appended comes last.
LEMMA AppendLast ==
  ASSUME NEW S, NEW s \in Seq(S), NEW x \in S
  PROVE  /\ Append(s, x) \in Seq(S)
         /\ Len(s) \in Nat
         /\ Len(Append(s, x)) = Len(s) + 1
         /\ \A i \in 1 .. Len(s) : Append(s, x)[i] = s[i]
         /\ Append(s, x)[Len(s) + 1] = x
  OBVIOUS

\* The stream is opened once, before anything in it.
LEMMA OpensStep == IInv /\ Opens => IInv'
<1> SUFFICES ASSUME IInv, Opens PROVE IInv'
  OBVIOUS
<1>1. CASE audioStarted /\ sent' = sent
  BY <1>1 DEF IInv, Opens, CoreKeeps, Wire, StopIsLast, StopReadsAll,
              StreamOpened, OneStart, StartComesFirst
<1>2. CASE ~audioStarted /\ sent' = Append(sent, "audio-start")
  <2>1. /\ sent' \in Seq(DownFrames)
        /\ Len(sent) \in Nat
        /\ Len(sent') = Len(sent) + 1
        /\ \A i \in 1 .. Len(sent) : sent'[i] = sent[i]
        /\ sent'[Len(sent) + 1] = "audio-start"
    BY <1>2, AppendLast DEF IInv, Wire, DownFrames
  <2>2. Wire' /\ StopIsLast' /\ StopReadsAll'
    BY <2>1 DEF IInv, Wire, StopIsLast, StopReadsAll, Opens, CoreKeeps
  <2>3. StreamOpened'
    BY <2>1 DEF StreamOpened, Opens
  <2>4. OneStart' /\ StartComesFirst'
    BY <1>2, <2>1 DEF IInv, OneStart, StartComesFirst, StreamOpened
  <2>5. QED
    BY <2>2, <2>3, <2>4 DEF IInv
<1>3. QED
  BY <1>1, <1>2 DEF Opens

\* Audio and the invitation come behind the stream's start.
LEMMA RelaysStep == IInv /\ Relays => IInv'
<1> SUFFICES ASSUME IInv, Relays PROVE IInv'
  OBVIOUS
<1>1. PICK x \in {"audio-chunk", "listen"} : sent' = Append(sent, x)
  BY DEF Relays
<1>2. /\ sent' \in Seq(DownFrames)
      /\ Len(sent) \in Nat
      /\ Len(sent') = Len(sent) + 1
      /\ \A i \in 1 .. Len(sent) : sent'[i] = sent[i]
      /\ sent'[Len(sent) + 1] = x
  BY <1>1, AppendLast DEF IInv, Wire, DownFrames
<1>3. audioStarted /\ audioStarted'
  BY DEF IInv, StreamOpened, Relays
<1>4. Wire' /\ StopIsLast' /\ StopReadsAll'
  BY <1>1, <1>2 DEF IInv, Wire, StopIsLast, StopReadsAll, Relays, CoreKeeps
<1>5. StreamOpened'
  BY <1>2, <1>3 DEF IInv, StreamOpened
<1>6. OneStart' /\ StartComesFirst'
  BY <1>1, <1>2, <1>3 DEF IInv, OneStart, StartComesFirst, StreamOpened
<1>7. QED
  BY <1>4, <1>5, <1>6 DEF IInv

\* The stop is written once, as the Core leaves the turn.
LEMMA StopsStep == IInv /\ Stops => IInv'
<1> SUFFICES ASSUME IInv, Stops PROVE IInv'
  OBVIOUS
<1>1. /\ sent' \in Seq(DownFrames)
      /\ Len(sent) \in Nat
      /\ Len(sent') = Len(sent) + 1
      /\ \A i \in 1 .. Len(sent) : sent'[i] = sent[i]
      /\ sent'[Len(sent) + 1] = "audio-stop"
  BY AppendLast DEF IInv, Wire, DownFrames, Stops
<1>2. Wire' /\ StopIsLast' /\ StopReadsAll'
  BY <1>1 DEF IInv, Wire, StopIsLast, StopReadsAll, Stops, CoreKeeps
<1>3. core' # "synthesizing"
  BY DEF Stops, TurnLeft
<1>4. StreamOpened'
  BY <1>1, <1>3 DEF IInv, StreamOpened, Stops
<1>5. OneStart' /\ StartComesFirst'
  BY <1>1 DEF IInv, OneStart, StartComesFirst
<1>6. QED
  BY <1>2, <1>4, <1>5 DEF IInv

\* The inductive invariant holds in every reachable state.
THEOREM Invariance == WireSpec => []IInv
<1>1. IInv /\ [WireNext]_exchangeVars => IInv'
  <2> SUFFICES ASSUME IInv, [WireNext]_exchangeVars PROVE IInv'
    OBVIOUS
  <2>1. CASE Device
    BY <2>1, DeviceStep
  <2>2. CASE Core
    BY <2>2, CoreWrites, PlainStep, OpensStep, RelaysStep, StopsStep DEF IInv
  <2>3. CASE UNCHANGED exchangeVars
    BY <2>3 DEF exchangeVars, devVars, wireVars, coreVars, IInv, Wire, StopIsLast,
       StopReadsAll, StreamOpened, OneStart, StartComesFirst, TurnLeft
  <2>4. QED
    BY <2>1, <2>2, <2>3 DEF WireNext
<1>2. QED
  BY <1>1, InitIInv, PTL DEF WireSpec

\* A display whose turn the Core's audio-stop ended has read all the Core wrote,
\* however many sentences were spoken and however either side failed.
THEOREM RepliesAreWhole == WireSpec => []WholeReply
<1>1. IInv => WholeReply
  BY DEF IInv, StopReadsAll, WholeReply
<1>2. QED
  BY <1>1, Invariance, PTL

\* The display is given one audio stream, opened before anything in it.
THEOREM OneStreamAlways == WireSpec => []OneAudioStream
<1>1. IInv => OneAudioStream
  BY DEF IInv, OneStart, StartComesFirst, OneAudioStream, Places
<1>2. QED
  BY <1>1, Invariance, PTL
-----------------------------------------------------------------------------
(* Types, and the release of the display.                                   *)

\* What the display writes in one step.
UpWrites == {<< >>, <<"chunk">>, <<"audio-stop">>, <<"interrupt">>,
             <<"interrupt">> \o <<"audio-stop">>}

\* The interrupt is the display's last word but one: it has left the turn.
InterruptIsLast == \A i \in 1 .. Len(up) : up[i] = "interrupt" => dev = "idle"

\* No audio before a reply is decided on, nor with one Piper never spoke.
NothingHeardYet ==
  core \in {"listening", "finalized", "silent", "deciding", "enrolled",
            "suppressed", "acting", "telling", "mute"} => ~audioStarted

\* A display that is speaking and in step has not read a stop.
StopUnread ==
  dev = "speaking" /\ ~torn /\ got > 0 => sent[got] # "audio-stop"

\* The Core left a turn that was heard with a stop, unless the display left.
LeftWithStop ==
  core = "between" /\ audioStarted /\ dev # "idle" =>
    Len(sent) > 0 /\ sent[Len(sent)] = "audio-stop"

ReleaseInv == WireTypeOK /\ InterruptIsLast /\ NothingHeardYet /\ StopUnread
                /\ LeftWithStop

\* A step of the display, on its own side of the wire.
LEMMA DeviceWrites ==
  ASSUME WireTypeOK, Device
  PROVE  \E f \in UpWrites :
           up' = up \o f /\ (dev' # "idle" => f \in {<< >>, <<"chunk">>,
                                                     <<"audio-stop">>})
<1>1. /\ up = up \o << >>
      /\ Append(up, "chunk") = up \o <<"chunk">>
      /\ \A x \in UpFrames : <<x>> \o << >> = <<x>>
  BY SayOne DEF WireTypeOK, UpFrames
<1>2. CASE DevSendChunk \/ DevTearsFrame
  BY <1>1, <1>2 DEF DevSendChunk, DevTearsFrame, UpWrites
<1>3. CASE DevReadTranscript
  BY <1>1, <1>3 DEF DevReadTranscript, MicStop, UpWrites
<1>4. CASE DevReadStop \/ DevReadOther
  BY <1>1, <1>4 DEF DevReadStop, DevReadOther, EndTurn, UpWrites
<1>5. CASE DevReadFails \/ DevSeesClose \/ DevWriteFails
  BY <1>5 DEF DevReadFails, DevSeesClose, DevWriteFails, EndTurn, UpWrites
<1>6. CASE DevTimeout \/ DevHangUp
  BY <1>6 DEF DevTimeout, DevHangUp, EndTurn, MicStop, UpWrites
<1>7. CASE DevBargeIn
  <2>1. up' = up \o (<<"interrupt">> \o MicStop) /\ dev' = "idle"
    BY <1>7 DEF DevBargeIn, EndTurn
  <2>2. <<"interrupt">> \o MicStop \in UpWrites
    BY <1>1 DEF MicStop, UpWrites, UpFrames
  <2>3. QED
    BY <2>1, <2>2
<1>8. QED
  BY <1>2, <1>3, <1>4, <1>5, <1>6, <1>7 DEF Device

\* What is written is frames, and interrupts only by a display that leaves.
LEMMA UpGrows ==
  ASSUME NEW f \in UpWrites
  PROVE  /\ f \in Seq(UpFrames)
         /\ f \in {<< >>, <<"chunk">>, <<"audio-stop">>} =>
              \A i \in 1 .. Len(f) : f[i] # "interrupt"
<1>1. /\ << >> \in Seq(UpFrames)
      /\ \A x \in UpFrames : <<x>> \in Seq(UpFrames)
      /\ \A x, y \in UpFrames : <<x>> \o <<y>> \in Seq(UpFrames)
  OBVIOUS
<1>2. f \in Seq(UpFrames)
  BY <1>1 DEF UpWrites, UpFrames
<1>3. QED
  BY <1>2

\* The display's steps keep the types.
LEMMA DeviceTypes == ASSUME WireTypeOK, Device PROVE WireTypeOK'
<1>1. PICK f \in UpWrites : up' = up \o f
  BY DeviceWrites
<1>2. up' \in Seq(UpFrames)
  BY <1>1, UpGrows DEF WireTypeOK
<1>3. /\ UNCHANGED <<sent, downClosed, coreVars>>
      /\ got' \in 0 .. Len(sent)
  BY DEF WireTypeOK, Device, DevSendChunk, DevReadTranscript, DevReadStop,
     DevReadOther, DevTearsFrame, DevReadFails, DevSeesClose, DevWriteFails,
     DevTimeout, DevBargeIn, DevHangUp, DevReads
<1>4. /\ upClosed' \in BOOLEAN
      /\ upClosed' <=> dev' = "idle"
      /\ dev' \in DevPcs /\ ended' \in Endings
  <2>1. \/ /\ dev # "idle" /\ dev' \in {dev, "speaking"}
           /\ UNCHANGED <<ended, upClosed>>
        \/ dev' = "idle" /\ upClosed' = TRUE /\ ended' \in Endings
    BY DEF Device, DevSendChunk, DevReadTranscript, DevReadStop,
     DevReadOther, DevTearsFrame, DevReadFails, DevSeesClose, DevWriteFails,
     DevTimeout, DevBargeIn, DevHangUp, DevReads, EndTurn, devVars,
     Endings
  <2>2. dev \in DevPcs /\ ended \in Endings /\ upClosed \in BOOLEAN
    BY DEF WireTypeOK
  <2>3. upClosed <=> dev = "idle"
    BY DEF WireTypeOK
  <2>4. QED
    BY <2>1, <2>2, <2>3 DEF DevPcs
<1>5. torn' \in BOOLEAN /\ chunks' \in 0 .. MaxChunks
  <2>1. torn' \in {torn, TRUE}
    BY DEF Device, DevSendChunk, DevReadTranscript, DevReadStop,
     DevReadOther, DevTearsFrame, DevReadFails, DevSeesClose, DevWriteFails,
     DevTimeout, DevBargeIn, DevHangUp, DevReads, EndTurn, devVars
  <2>2. chunks' = chunks \/ (chunks > 0 /\ chunks' = chunks - 1)
    BY DEF Device, DevSendChunk, DevReadTranscript, DevReadStop,
     DevReadOther, DevTearsFrame, DevReadFails, DevSeesClose, DevWriteFails,
     DevTimeout, DevBargeIn, DevHangUp, DevReads, EndTurn, devVars
  <2>3. torn \in BOOLEAN /\ chunks \in 0 .. MaxChunks
    BY DEF WireTypeOK
  <2>4. torn' \in BOOLEAN
    BY <2>1, <2>3, Zenon
  <2>5. chunks' \in 0 .. MaxChunks
    BY <2>2, <2>3, WireBounds
  <2>6. QED
    BY <2>4, <2>5
<1>6. QED
  BY <1>2, <1>3, <1>4, <1>5 DEF WireTypeOK, coreVars

\* What the Core reads is a frame off the front.
LEMMA CoreReading ==
  ASSUME WireTypeOK, Core
  PROVE  \/ up' = up
         \/ up # << >> /\ up' = Tail(up)
              /\ (Head(up) = "interrupt" \/ core' # "between"
                    \/ core \in {"listening", "between"})
BY DEF Core, CoreHearsChunk, CoreSkips, CoreSeesClose, CoreIdleTimeout,
   CoreListenFails, SttOnSilence, SttTranscript, CloseQuietly, Enroll,
   Decide, FastAction, FastText, LlmToken, SameToken, LlmEnds, LlmStalls,
   NothingToSay, TtsStart, TtsChunk, TtsEnd, TtsFails, RelayStops, Invite,
   StopReply, StopMute, StopStalled, StopFailing, WatcherReads,
   WatcherSeesClose, BetweenTurns, CoreReads, DrivePcs, wireVars

LEMMA TailFacts ==
  ASSUME NEW S, NEW s \in Seq(S), s # << >>
  PROVE  /\ Tail(s) \in Seq(S) /\ Len(s) \in Nat /\ Len(s) > 0
         /\ Len(Tail(s)) = Len(s) - 1
         /\ Head(s) = s[1]
         /\ \A i \in 1 .. Len(Tail(s)) : Tail(s)[i] = s[i + 1]
  OBVIOUS

\* The Core's steps keep the types.
LEMMA CoreTypes == ASSUME WireTypeOK, IInv, Core PROVE WireTypeOK'
<1>1. sent' \in Seq(DownFrames) /\ got' \in 0 .. Len(sent')
  BY CoreWrites, PlainStep, OpensStep, RelaysStep, StopsStep DEF IInv, Wire
<1>2. up' \in Seq(UpFrames)
  BY CoreReading, TailFacts DEF WireTypeOK
<1>3. UNCHANGED <<dev, ended, torn, chunks, upClosed>>
  BY DEF Core, CoreHearsChunk, CoreSkips, CoreSeesClose, CoreIdleTimeout,
     CoreListenFails, SttOnSilence, SttTranscript, CloseQuietly, Enroll,
     Decide, FastAction, FastText, LlmToken, SameToken, LlmEnds, LlmStalls,
     NothingToSay, TtsStart, TtsChunk, TtsEnd, TtsFails, RelayStops, Invite,
     StopReply, StopMute, StopStalled, StopFailing, WatcherReads,
     WatcherSeesClose, BetweenTurns, devVars, wireVars
<1>4. /\ core' \in CorePcs
      /\ downClosed' \in BOOLEAN
      /\ downClosed' <=> core' = "closed"
  <2>1. \/ core' \in CorePcs \ {"closed"} /\ core # "closed"
           /\ UNCHANGED downClosed
        \/ core' = "closed" /\ downClosed' = TRUE
    BY DEF WireTypeOK, CorePcs, DrivePcs, Core, CoreHearsChunk, CoreSkips,
     CoreSeesClose, CoreIdleTimeout, CoreListenFails, SttOnSilence, SttTranscript, CloseQuietly, Enroll,
     Decide, FastAction, FastText, LlmToken, SameToken, LlmEnds, LlmStalls,
     NothingToSay, TtsStart, TtsChunk, TtsEnd, TtsFails, RelayStops, Invite,
     StopReply, StopMute, StopStalled, StopFailing, WatcherReads,
     WatcherSeesClose, BetweenTurns, Spoken, wireVars, coreVars
  <2>2. /\ downClosed \in BOOLEAN
        /\ downClosed <=> core = "closed"
    BY DEF WireTypeOK
  <2>3. core' \in CorePcs
    BY <2>1 DEF CorePcs
  <2>4. CASE core' # "closed" /\ core # "closed" /\ downClosed' = downClosed
    BY <2>2, <2>3, <2>4, Zenon
  <2>5. CASE core' = "closed" /\ downClosed' = TRUE
    BY <2>3, <2>5, Zenon
  <2>6. QED
    BY <2>1, <2>4, <2>5
<1>5. /\ speechStarted' \in BOOLEAN /\ audioStarted' \in BOOLEAN
      /\ fast' \in BOOLEAN /\ ending' \in BOOLEAN /\ trailing' \in BOOLEAN
  BY DEF WireTypeOK, Core, CoreHearsChunk, CoreSkips, CoreSeesClose,
     CoreIdleTimeout, CoreListenFails, SttOnSilence, SttTranscript,
     CloseQuietly, Enroll, Decide, FastAction, FastText, LlmToken, SameToken,
     LlmEnds, LlmStalls, NothingToSay, TtsStart, TtsChunk, TtsEnd, TtsFails,
     RelayStops, Invite, StopReply, StopMute, StopStalled, StopFailing,
     WatcherReads, WatcherSeesClose, BetweenTurns, coreVars
<1>6. sentences' \in 0 .. MaxSentences
  <2>1. \/ sentences' = sentences
        \/ sentences > 0 /\ sentences' = sentences - 1
    BY DEF Core, CoreHearsChunk, CoreSkips, CoreSeesClose, CoreIdleTimeout,
     CoreListenFails, SttOnSilence, SttTranscript, CloseQuietly, Enroll,
     Decide, FastAction, FastText, LlmToken, SameToken, LlmEnds, LlmStalls,
     NothingToSay, TtsStart, TtsChunk, TtsEnd, TtsFails, RelayStops, Invite,
     StopReply, StopMute, StopStalled, StopFailing, WatcherReads,
     WatcherSeesClose, BetweenTurns, Spoken, wireVars, coreVars
  <2>2. QED
    BY <2>1, WireBounds DEF WireTypeOK
<1>7. QED
  BY <1>1, <1>2, <1>3, <1>4, <1>5, <1>6 DEF WireTypeOK

\* A display that ends its turn has nothing left to be released from; one that
\* goes on reads a stop only while it is still streaming.
LEMMA DeviceReleases ==
  ASSUME ReleaseInv, IInv, Device PROVE ReleaseInv'
<1>1. WireTypeOK /\ WireTypeOK'
  BY DeviceTypes DEF ReleaseInv
<1>2. UNCHANGED <<sent, core, audioStarted>> /\ dev # "idle"
  BY DEF Device, DevSendChunk, DevReadTranscript, DevReadStop, DevReadOther,
     DevTearsFrame, DevReadFails, DevSeesClose, DevWriteFails, DevTimeout,
     DevBargeIn, DevHangUp, DevReads, coreVars
<1>3. InterruptIsLast'
  <2>1. PICK f \in UpWrites :
          up' = up \o f /\ (dev' # "idle" => f \in {<< >>, <<"chunk">>,
                                                    <<"audio-stop">>})
    BY <1>1, DeviceWrites
  <2>2. SUFFICES ASSUME dev' # "idle", NEW i \in 1 .. Len(up')
                 PROVE  up'[i] # "interrupt"
    BY DEF InterruptIsLast
  <2>3. /\ f \in Seq(UpFrames) /\ up \in Seq(UpFrames)
        /\ \A j \in 1 .. Len(f) : f[j] # "interrupt"
        /\ \A j \in 1 .. Len(up) : up[j] # "interrupt"
    BY <1>1, <1>2, <2>1, <2>2, UpGrows
       DEF WireTypeOK, ReleaseInv, InterruptIsLast
  <2>4. QED
    BY <2>1, <2>2, <2>3
<1>4. NothingHeardYet' /\ LeftWithStop'
  BY <1>2 DEF ReleaseInv, NothingHeardYet, LeftWithStop
<1>5. StopUnread'
  <2>1. CASE DevReadTranscript
    BY <1>2, <2>1 DEF DevReadTranscript, DevReads, StopUnread
  <2>2. CASE DevReadStop
    BY <2>2 DEF DevReadStop, EndTurn, StopUnread
  <2>3. CASE DevReadOther
    BY <1>2, <2>3 DEF DevReadOther, DevReads, StopUnread
  <2>4. CASE DevSendChunk
    BY <2>4 DEF DevSendChunk, StopUnread
  <2>5. CASE DevTearsFrame
    BY <2>5 DEF DevTearsFrame, StopUnread
  <2>6. CASE DevReadFails \/ DevSeesClose \/ DevWriteFails \/ DevTimeout
             \/ DevBargeIn \/ DevHangUp
    BY <2>6 DEF DevReadFails, DevSeesClose, DevWriteFails, DevTimeout,
       DevBargeIn, DevHangUp, EndTurn, StopUnread
  <2>7. QED
    BY <2>1, <2>2, <2>3, <2>4, <2>5, <2>6 DEF Device
<1>6. QED
  BY <1>1, <1>3, <1>4, <1>5 DEF ReleaseInv

\* The Core leaves a heard turn by its stop, or by the display's interrupt.
LEMMA CoreReleases == ASSUME ReleaseInv, IInv, Core PROVE ReleaseInv'
<1>1. WireTypeOK /\ WireTypeOK'
  BY CoreTypes DEF ReleaseInv
<1>2. UNCHANGED <<dev, torn, got>>
  BY DEF Core, CoreHearsChunk, CoreSkips, CoreSeesClose, CoreIdleTimeout,
     CoreListenFails, SttOnSilence, SttTranscript, CloseQuietly, Enroll,
     Decide, FastAction, FastText, LlmToken, SameToken, LlmEnds, LlmStalls,
     NothingToSay, TtsStart, TtsChunk, TtsEnd, TtsFails, RelayStops, Invite,
     StopReply, StopMute, StopStalled, StopFailing, WatcherReads,
     WatcherSeesClose, BetweenTurns, devVars, wireVars
<1>3. InterruptIsLast'
  <2>1. CASE up' = up
    BY <1>2, <2>1 DEF ReleaseInv, InterruptIsLast
  <2>2. CASE up # << >> /\ up' = Tail(up)
    BY <1>1, <1>2, <2>2, TailFacts DEF WireTypeOK, ReleaseInv, InterruptIsLast
  <2>3. QED
    BY <1>1, <2>1, <2>2, CoreReading
<1>4. \A i \in 1 .. Len(sent) : sent'[i] = sent[i]
  <2>1. CASE Plain
    <3>1. PICK f \in PlainWrites : sent' = sent \o f
      BY <2>1 DEF Plain
    <3>2. f \in Seq(DownFrames)
      <4>1. /\ << >> \in Seq(DownFrames)
            /\ \A x \in DownFrames : <<x>> \in Seq(DownFrames)
            /\ \A x, y \in DownFrames : <<x>> \o <<y>> \in Seq(DownFrames)
        OBVIOUS
      <4>2. QED
        BY <3>1, <4>1 DEF PlainWrites, DownFrames
    <3>3. QED
      BY <1>1, <3>1, <3>2 DEF WireTypeOK
  <2>2. CASE Opens \/ Relays \/ Stops
    <3>1. \/ sent' = sent
          \/ \E x \in DownFrames : sent' = Append(sent, x)
      BY <2>2 DEF Opens, Relays, Stops, DownFrames
    <3>2. sent \in Seq(DownFrames)
      BY <1>1 DEF WireTypeOK
    <3>3. CASE sent' = sent
      BY <3>3
    <3>4. ASSUME NEW x \in DownFrames, sent' = Append(sent, x)
          PROVE  \A i \in 1 .. Len(sent) : sent'[i] = sent[i]
      BY <3>2, <3>4, AppendLast
    <3>5. QED
      BY <3>1, <3>3, <3>4
  <2>3. QED
    BY <2>1, <2>2, CoreWrites DEF IInv
<1>5. StopUnread'
  BY <1>1, <1>2, <1>4 DEF WireTypeOK, ReleaseInv, StopUnread
<1>6. NothingHeardYet'
  BY DEF ReleaseInv, NothingHeardYet, Core, CoreHearsChunk, CoreSkips,
     CoreSeesClose, CoreIdleTimeout, CoreListenFails, SttOnSilence,
     SttTranscript, CloseQuietly, Enroll, Decide, FastAction, FastText,
     LlmToken, SameToken, LlmEnds, LlmStalls, NothingToSay, TtsStart,
     TtsChunk, TtsEnd, TtsFails, RelayStops, Invite, StopReply, StopMute,
     StopStalled, StopFailing, WatcherReads, WatcherSeesClose, BetweenTurns,
     Spoken, DrivePcs, coreVars
<1>7. LeftWithStop'
  <2>1. SUFFICES ASSUME core' = "between", audioStarted', dev # "idle"
                 PROVE  Len(sent') > 0 /\ sent'[Len(sent')] = "audio-stop"
    BY <1>2 DEF LeftWithStop
  <2>2. CASE BetweenTurns
    BY <2>1, <2>2 DEF BetweenTurns, ReleaseInv, LeftWithStop
  <2>3. CASE StopReply \/ StopMute \/ StopStalled \/ CloseQuietly
    <3>1. sent' = sent \o <<"audio-stop">>
      BY <2>1, <2>3
         DEF StopReply, StopMute, StopStalled, CloseQuietly, Say
    <3>2. sent \o <<"audio-stop">> = Append(sent, "audio-stop")
      BY <1>1, SayOne DEF WireTypeOK, DownFrames
    <3>3. QED
      BY <1>1, <3>1, <3>2, AppendLast DEF WireTypeOK, DownFrames
  <2>4. CASE CoreIdleTimeout
    BY <2>1, <2>4 DEF CoreIdleTimeout, ReleaseInv, NothingHeardYet
  <2>5. CASE WatcherReads
    <3>1. core # "between"
      BY <2>5 DEF WatcherReads, DrivePcs
    <3>2. up # << >> /\ Head(up) = "interrupt"
      BY <2>1, <2>5, <3>1 DEF WatcherReads, CoreReads
    <3>3. 1 \in 1 .. Len(up) /\ up[1] = "interrupt"
      BY <1>1, <3>2, TailFacts DEF WireTypeOK
    <3>4. QED
      BY <2>1, <3>3 DEF ReleaseInv, InterruptIsLast
  <2>6. CASE ~(BetweenTurns \/ StopReply \/ StopMute \/ StopStalled
               \/ CloseQuietly \/ CoreIdleTimeout \/ WatcherReads)
    <3>1. core' # "between"
      BY <2>6 DEF Core, CoreHearsChunk, CoreSkips, CoreSeesClose,
         CoreListenFails, SttOnSilence, SttTranscript, Enroll, Decide,
         FastAction, FastText, LlmToken, SameToken, LlmEnds, LlmStalls,
         NothingToSay, TtsStart, TtsChunk, TtsEnd, TtsFails, RelayStops,
         Invite, StopFailing, WatcherSeesClose, Spoken, coreVars
    <3>2. QED
      BY <2>1, <3>1
  <2>7. QED
    BY <2>2, <2>3, <2>4, <2>5, <2>6
<1>8. QED
  BY <1>1, <1>3, <1>5, <1>6, <1>7 DEF ReleaseInv

\* The turn begins with nothing sent either way.
LEMMA InitRelease == WireInit => ReleaseInv
<1> SUFFICES ASSUME WireInit PROVE ReleaseInv
  OBVIOUS
<1>1. WireTypeOK
  <2>1. MaxChunks \in 0 .. MaxChunks /\ MaxSentences \in 0 .. MaxSentences
    BY WireBounds
  <2>2. << >> \in Seq(UpFrames) /\ << >> \in Seq(DownFrames)
        /\ 0 \in 0 .. Len(<< >>)
    OBVIOUS
  <2>3. QED
    BY <2>1, <2>2 DEF WireInit, WireTypeOK, DevPcs, Endings, CorePcs, DrivePcs
<1>2. QED
  BY <1>1 DEF WireInit, ReleaseInv, InterruptIsLast, NothingHeardYet,
              StopUnread, LeftWithStop

\* The invariant behind the release, in every reachable state.
THEOREM ReleaseInvariance == WireSpec => []ReleaseInv
<1>1. ReleaseInv /\ IInv /\ [WireNext]_exchangeVars => ReleaseInv'
  <2> SUFFICES ASSUME ReleaseInv, IInv, [WireNext]_exchangeVars PROVE ReleaseInv'
    OBVIOUS
  <2>1. CASE Device
    BY <2>1, DeviceReleases
  <2>2. CASE Core
    BY <2>2, CoreReleases
  <2>3. CASE UNCHANGED exchangeVars
    BY <2>3 DEF exchangeVars, devVars, wireVars, coreVars, ReleaseInv, WireTypeOK,
       InterruptIsLast, NothingHeardYet, StopUnread, LeftWithStop
  <2>4. QED
    BY <2>1, <2>2, <2>3 DEF WireNext
<1>2. QED
  BY <1>1, InitRelease, Invariance, PTL DEF WireSpec

\* Types, and whose end of the connection is closed.
THEOREM TypeCorrect == WireSpec => []WireTypeOK
<1>1. ReleaseInv => WireTypeOK
  BY DEF ReleaseInv
<1>2. QED
  BY <1>1, ReleaseInvariance, PTL

\* Once a reply has begun to sound the Core never leaves the display waiting
\* for a frame: whatever stalls, fails or is interrupted, a display that is
\* still speaking and in step has something left to read.
THEOREM HeardRepliesRelease == WireSpec => []HeardReplyReleases
<1>1. ReleaseInv => HeardReplyReleases
  BY DEF ReleaseInv, WireTypeOK, StopUnread, LeftWithStop, HeardReplyReleases,
         Stranded
<1>2. QED
  BY <1>1, ReleaseInvariance, PTL

-----------------------------------------------------------------------------
(***************************************************************************)
(* What the display shows, and what it tells the Core of it.               *)
(*                                                                         *)
(* The five parts are inductive together: the types say which contexts a   *)
(* handler writes, one view at a time whose timers and stream are its own  *)
(* is about the views only, and the slot's part needs that nothing changes *)
(* on the screen without a write.                                          *)
(***************************************************************************)

\* The views of the state before a handler.
ViewContexts == {RecipeContext, WeatherContext, PlaceContext, CameraContext}

\* At most one view is up.
OneView ==
  /\ recipe # "none" =>
       weather = "none" /\ place = "none" /\ camera.seq = 0
  /\ weather # "none" => place = "none" /\ camera.seq = 0
  /\ place # "none" => camera.seq = 0

TimersFit ==
  /\ "weather" \in timers <=> weather # "none"
  /\ "place" \in timers <=> place # "none"
  /\ "camera" \in timers <=> camera.seq # 0

StreamFits == camera.url \in {Loading, Failed, camera.seq}

ScreenIInv ==
  ScreenTypeOK /\ OneView /\ TimersFit /\ StreamFits /\ ContextTellsNoLies

\* Contexts of different kinds differ, and none is Nothing.
LEMMA ContextsDiffer ==
  /\ \A r, p : <<"recipe", r, p>> # Nothing
  /\ \A w : <<"weather", w>> # Nothing
  /\ \A p : <<"place", p>> # Nothing
  /\ \A c : <<"camera", c>> # Nothing
  /\ \A t, s : <<"music", t, s>> # Nothing
  /\ \A p \in Pages : <<p>> # Nothing
BY DEF Nothing, Pages

\* What is on the screen, by what is open.
LEMMA WhatIsOn ==
  /\ recipe # "none" <=> RecipeContext # Nothing
  /\ weather # "none" <=> WeatherContext # Nothing
  /\ place # "none" <=> PlaceContext # Nothing
  /\ camera.seq # 0 <=> CameraContext # Nothing
  /\ ViewContexts \subseteq OnScreen \cup {Nothing}
  /\ MusicContext \in OnScreen \cup {Nothing}
  /\ OnScreen \subseteq ViewContexts \cup {MusicContext}
                          \cup {<<p>> : p \in Pages}
  /\ page \in Pages => <<page>> \in OnScreen
BY ContextsDiffer DEF RecipeContext, WeatherContext, PlaceContext,
   CameraContext, ViewContexts, OnScreen

\* The same of the state after a step.
LEMMA WhatIsOnNext ==
  /\ recipe' # "none" <=> RecipeContext' # Nothing
  /\ weather' # "none" <=> WeatherContext' # Nothing
  /\ place' # "none" <=> PlaceContext' # Nothing
  /\ camera'.seq # 0 <=> CameraContext' # Nothing
  /\ ViewContexts' \subseteq OnScreen' \cup {Nothing}
  /\ MusicContext' \in OnScreen' \cup {Nothing}
  /\ page' \in Pages => <<page'>> \in OnScreen'
BY ContextsDiffer DEF RecipeContext, WeatherContext, PlaceContext,
   CameraContext, ViewContexts, OnScreen

\* The last of what a handler writes: its own last push, or the music's.
LEMMA LastWrite ==
  ASSUME NEW P, NEW k, NEW a, NEW b, NEW c, NEW d
  PROVE  LET Key == IF P THEN <<k>> ELSE << >>
         IN  /\ Key \o <<a>> # << >>
             /\ (Key \o <<a>>)[Len(Key \o <<a>>)] = a
             /\ Key \o <<a, b, c>> # << >>
             /\ (Key \o <<a, b, c>>)[Len(Key \o <<a, b, c>>)] = c
             /\ Key \o <<a, b, c, d>> # << >>
             /\ (Key \o <<a, b, c, d>>)[Len(Key \o <<a, b, c, d>>)] = d
             /\ Key \o << >> = Key
<1>1. CASE P
  BY <1>1
<1>2. CASE ~P
  BY <1>2
<1>3. QED
  BY <1>1, <1>2

-----------------------------------------------------------------------------
(* What the handlers write.                                                *)

Wrote(c) == slot' = c /\ left' = Nothing /\ musicKey' = MusicContext'

\* A handler without pushes of its own writes the music's context if it
\* changed.
Synced ==
  /\ musicKey' = MusicContext'
  /\ \/ MusicContext' # musicKey /\ slot' = MusicContext' /\ left' = Nothing
     \/ MusicContext' = musicKey /\ slot' = slot /\ left' = left

LEMMA SilentSyncs == Emitted(<< >>) => Synced
<1> SUFFICES ASSUME Emitted(<< >>) PROVE Synced
  OBVIOUS
<1>1. CASE MusicContext' # musicKey
  <2>1. Writes(<< >>) = <<MusicContext'>>
    BY <1>1, LastWrite DEF Writes
  <2>2. QED
    BY <1>1, <2>1 DEF Emitted, Synced
<1>2. CASE MusicContext' = musicKey
  <2>1. Writes(<< >>) = << >>
    BY <1>2, LastWrite DEF Writes
  <2>2. QED
    BY <1>2, <2>1 DEF Emitted, Synced
<1>3. QED
  BY <1>1, <1>2

LEMMA DismissalsWrite ==
  /\ Emitted(<<RecipeContext'>>) => Wrote(RecipeContext')
  /\ Emitted(<<WeatherContext'>>) => Wrote(WeatherContext')
  /\ Emitted(<<PlaceContext'>>) => Wrote(PlaceContext')
  /\ Emitted(<<CameraContext'>>) => Wrote(CameraContext')
BY LastWrite DEF Emitted, Writes, Wrote

LEMMA OpeningsWrite ==
  /\ \A r : ShowRecipe(r) => Wrote(RecipeContext')
  /\ \A w : ShowWeather(w) => Wrote(WeatherContext')
  /\ \A p : ShowPlace(p) => Wrote(PlaceContext')
  /\ \A c : OpenCamera(c) => Wrote(CameraContext')
<1>1. \A r : ShowRecipe(r) => Wrote(RecipeContext')
  BY LastWrite DEF ShowRecipe, Emitted, Writes, Wrote
<1>2. \A w : ShowWeather(w) => Wrote(WeatherContext')
  BY LastWrite DEF ShowWeather, WeatherPushes, Emitted, Writes, Wrote
<1>3. \A p : ShowPlace(p) => Wrote(PlaceContext')
  BY LastWrite DEF ShowPlace, Emitted, Writes, Wrote
<1>4. \A c : OpenCamera(c) => Wrote(CameraContext')
  BY LastWrite DEF OpenCamera, Emitted, Writes, Wrote
<1>5. QED
  BY <1>1, <1>2, <1>3, <1>4

-----------------------------------------------------------------------------
(* The kinds of step, for the slot.                                        *)

\* It writes what is then on the screen, and something is.
PutsUp ==
  /\ slot' \in OnScreen'
  /\ left' = Nothing
  /\ ~wiped'

\* It writes what its view shows after it: Nothing, or a thing on the screen.
TakesDown ==
  /\ slot' \in OnScreen' \cup {Nothing}
  /\ left' = Nothing
  /\ wiped' = (slot' = Nothing)

\* It writes a thing on the screen, Nothing after there was one, or nothing at
\* all with the screen as it was.
Moves ==
  /\ Moving
  /\ \/ /\ slot' \in OnScreen' \cup {Nothing} /\ left' = Nothing
        /\ slot' = Nothing => OnScreen # {}
     \/ slot' = slot /\ left' = left /\ OnScreen' = OnScreen

\* The engine starts with the slot as it was.
Leaves ==
  /\ slot' = slot /\ left' = slot /\ wiped' = wiped
  /\ OnScreen' \subseteq OnScreen

\* Nothing of it is touched.
Rests ==
  /\ slot' = slot /\ left' = left /\ wiped' = wiped
  /\ OnScreen' = OnScreen

LEMMA SlotSteps ==
  ASSUME ContextTellsNoLies, wiped \in BOOLEAN, wiped' \in BOOLEAN,
         PutsUp \/ TakesDown \/ Moves \/ Leaves \/ Rests
  PROVE  ContextTellsNoLies'
<1>1. CASE PutsUp
  BY <1>1 DEF PutsUp, ContextTellsNoLies, OnScreen
<1>2. CASE TakesDown
  BY <1>2 DEF TakesDown, ContextTellsNoLies
<1>3. CASE Moves
  BY <1>3 DEF Moves, Moving, ContextTellsNoLies
<1>4. CASE Leaves
  BY <1>4 DEF Leaves, ContextTellsNoLies
<1>5. CASE Rests
  BY <1>5 DEF Rests, ContextTellsNoLies
<1>6. QED
  BY <1>1, <1>2, <1>3, <1>4, <1>5

-----------------------------------------------------------------------------
(* Every step is of one of the kinds.                                      *)

SlotKinds == PutsUp \/ TakesDown \/ Moves \/ Leaves \/ Rests

LEMMA OpeningsPutUp ==
  ASSUME ScreenTypeOK,
         \/ \E r \in Recipes : ShowRecipe(r)
         \/ \E w \in Reports : ShowWeather(w)
         \/ \E p \in PlaceCards : ShowPlace(p)
         \/ \E c \in Cameras : OpenCamera(c)
  PROVE  PutsUp
<1>1. ASSUME NEW r \in Recipes, ShowRecipe(r) PROVE PutsUp
  <2>1. recipe' # "none" /\ ~wiped'
    BY <1>1, ScreenAssumption DEF ShowRecipe, Opening
  <2>2. QED
    BY <1>1, <2>1, OpeningsWrite, WhatIsOnNext DEF Wrote, PutsUp, ViewContexts
<1>2. ASSUME NEW w \in Reports, ShowWeather(w) PROVE PutsUp
  <2>1. weather' # "none" /\ ~wiped'
    BY <1>2, ScreenAssumption DEF ShowWeather, Opening
  <2>2. QED
    BY <1>2, <2>1, OpeningsWrite, WhatIsOnNext DEF Wrote, PutsUp, ViewContexts
<1>3. ASSUME NEW p \in PlaceCards, ShowPlace(p) PROVE PutsUp
  <2>1. place' # "none" /\ ~wiped'
    BY <1>3, ScreenAssumption DEF ShowPlace, Opening
  <2>2. QED
    BY <1>3, <2>1, OpeningsWrite, WhatIsOnNext DEF Wrote, PutsUp, ViewContexts
<1>4. ASSUME NEW c \in Cameras, OpenCamera(c) PROVE PutsUp
  <2>1. camera'.seq # 0 /\ ~wiped'
    BY <1>4 DEF OpenCamera, Opening, ScreenTypeOK
  <2>2. QED
    BY <1>4, <2>1, OpeningsWrite, WhatIsOnNext DEF Wrote, PutsUp, ViewContexts
<1>5. QED
  BY <1>1, <1>2, <1>3, <1>4

LEMMA DismissalsTakeDown ==
  ASSUME DismissRecipe \/ DismissWeather \/ DismissPlace \/ CloseCamera
  PROVE  TakesDown
<1>1. CASE DismissRecipe
  BY <1>1, DismissalsWrite, WhatIsOnNext
  DEF DismissRecipe, Closing, Wrote, TakesDown, ViewContexts
<1>2. CASE DismissWeather
  BY <1>2, DismissalsWrite, WhatIsOnNext
  DEF DismissWeather, Closing, Wrote, TakesDown, ViewContexts
<1>3. CASE DismissPlace
  BY <1>3, DismissalsWrite, WhatIsOnNext
  DEF DismissPlace, Closing, Wrote, TakesDown, ViewContexts
<1>4. CASE CloseCamera
  BY <1>4, DismissalsWrite, WhatIsOnNext
  DEF CloseCamera, Closing, Wrote, TakesDown, ViewContexts
<1>5. QED
  BY <1>1, <1>2, <1>3, <1>4

\* What the screen shows is the views, the music and the page; a handler that
\* leaves the first and the last alone changes it with the music's context.
LEMMA SameScreen ==
  ASSUME ViewContexts' = ViewContexts, page' = page,
         MusicContext' = MusicContext
  PROVE  OnScreen' = OnScreen
BY DEF OnScreen, ViewContexts

LEMMA SameViews ==
  ASSUME UNCHANGED viewVars
  PROVE  /\ ViewContexts' = ViewContexts
         /\ camera' = camera /\ recipe' = recipe /\ weather' = weather
         /\ place' = place
BY DEF viewVars, ViewContexts, RecipeContext, WeatherContext, PlaceContext,
   CameraContext

\* The music's handlers: with the views and the page left alone, a write means
\* that the music's context changed, so something is or was on the screen.
LEMMA SyncedMoves ==
  ASSUME ContextTellsNoLies, musicKey = MusicContext, Synced, Moving,
         ViewContexts' = ViewContexts, page' = page
  PROVE  Moves
<1>1. CASE MusicContext' = musicKey
  BY <1>1, SameScreen DEF Synced, Moves
<1>2. CASE MusicContext' # musicKey
  <2>1. slot' \in OnScreen' \cup {Nothing} /\ left' = Nothing
    BY <1>2, WhatIsOnNext DEF Synced
  <2>2. slot' = Nothing => OnScreen # {}
    BY <1>2, WhatIsOn DEF Synced
  <2>3. QED
    BY <2>1, <2>2 DEF Moves
<1>3. QED
  BY <1>1, <1>2 DEF Synced

LEMMA MusicMoves ==
  ASSUME ContextTellsNoLies, musicKey = MusicContext,
         \/ \E t \in Tracks, s \in Styles : MusicPush(t, s)
         \/ \E s \in Styles : SetStyle(s)
         \/ MusicEnds \/ OpenNowPlaying \/ ShowMusicQueue \/ CloseMusicScreen
         \/ Watch
  PROVE  Moves
<1>1. Emitted(<< >>) /\ Moving /\ UNCHANGED viewVars /\ page' = page
  BY DEF MusicPush, SetStyle, MusicEnds, OpenNowPlaying, ShowMusicQueue,
     ShowMusic, CloseMusicScreen, Watch, otherVars
<1>2. QED
  BY <1>1, SilentSyncs, SameViews, SyncedMoves

LEMMA RecipeMoves ==
  ASSUME NEW p \in Panes, MoveInRecipe(p)
  PROVE  Moves
<1>1. OnScreen # {}
  BY WhatIsOn DEF MoveInRecipe, ViewContexts
<1>2. QED
  BY <1>1, DismissalsWrite, WhatIsOnNext
  DEF MoveInRecipe, Wrote, Moves, ViewContexts

LEMMA StreamMoves ==
  ASSUME ScreenTypeOK, ContextTellsNoLies,
         NEW c \in Cameras, NEW f \in fetches, StreamArrives(f, c)
  PROVE  Moves
<1>1. /\ Moving /\ page' = page /\ musicKey = MusicContext
      /\ recipe' = recipe /\ weather' = weather /\ place' = place
      /\ pane' = pane
      /\ music' = music /\ musicScreen' = musicScreen /\ style' = style
      /\ watched' = watched
  BY DEF StreamArrives, otherVars, musicVars, ScreenTypeOK
<1>2. RecipeContext' = RecipeContext /\ WeatherContext' = WeatherContext
      /\ PlaceContext' = PlaceContext
  BY <1>1 DEF RecipeContext, WeatherContext, PlaceContext
<1>3. CASE Current(f)
  <2> DEFINE Called == [camera EXCEPT !.url = f, !.name = c]
  <2> DEFINE Lost == [camera EXCEPT !.url = Failed]
  <2>8. /\ Called.seq = camera.seq /\ Called.name = c
        /\ Lost.seq = camera.seq /\ Lost.name = camera.name
    BY DEF ScreenTypeOK
  <2>9. \/ camera' = Called /\ Emitted(IF c # camera.name
                                         THEN <<CameraContext'>> ELSE << >>)
        \/ camera' = Lost /\ Emitted(<< >>)
    BY <1>3 DEF StreamArrives
  <2> HIDE DEF Called, Lost
  <2>1. camera.seq # 0 /\ camera'.seq = camera.seq
    <3>1. f \in 1 .. MaxOpens
      BY DEF ScreenTypeOK
    <3>2. QED
      BY <1>3, <2>8, <2>9, <3>1, ScreenAssumption DEF Current
  <2>2. OnScreen # {}
    BY <2>1, WhatIsOn DEF ViewContexts
  <2>3. MusicContext' = MusicContext
    BY <1>1, <2>1 DEF MusicContext, ShownMusic
  <2>4. CASE camera' = Called /\ c # camera.name
    <3>1. Emitted(IF c # camera.name THEN <<CameraContext'>> ELSE << >>)
      BY <2>8, <2>9, <2>4
    <3>2. Wrote(CameraContext')
      BY <2>4, <3>1, LastWrite DEF Emitted, Writes, Wrote
    <3>3. QED
      BY <1>1, <2>2, <3>2, WhatIsOnNext DEF Wrote, Moves, ViewContexts
  <2>5. CASE (camera' = Called /\ c = camera.name) \/ camera' = Lost
    <3>1. CameraContext' = CameraContext
      BY <2>1, <2>5, <2>8 DEF CameraContext
    <3>2. CASE camera' = Called /\ c = camera.name
      <4>1. Emitted(IF c # camera.name THEN <<CameraContext'>> ELSE << >>)
        BY <2>8, <2>9, <3>2
      <4>2. UNCHANGED <<slot, left>>
        BY <2>3, <3>2, <4>1, LastWrite, <1>1 DEF Emitted, Writes
      <4>3. QED
        BY <1>1, <1>2, <2>3, <3>1, <4>2, SameScreen DEF Moves, ViewContexts
    <3>3. CASE camera' = Lost /\ Emitted(<< >>)
      BY <1>1, <1>2, <3>1, <3>3, SilentSyncs, SyncedMoves DEF ViewContexts
    <3>4. QED
      BY <2>5, <2>9, <3>2, <3>3, <2>8
  <2>6. QED
    BY <2>4, <2>5, <2>9
<1>4. CASE ~Current(f)
  <2>1. UNCHANGED <<camera, musicKey, slot, left>>
    BY <1>4 DEF StreamArrives
  <2>2. MusicContext' = MusicContext /\ CameraContext' = CameraContext
    BY <1>1, <2>1 DEF MusicContext, ShownMusic, CameraContext
  <2>3. QED
    BY <1>1, <1>2, <2>1, <2>2, SameScreen DEF Moves, ViewContexts
<1>5. QED
  BY <1>3, <1>4

\* The pages write the slot themselves.
LEMMA PagesWrite ==
  ASSUME musicKey = MusicContext,
         (\E p \in Pages : OpenPage(p)) \/ AskName \/ Begin \/ NextPhrase
           \/ ClosePage
  PROVE  PutsUp \/ TakesDown \/ Rests
<1>1. ASSUME NEW p \in Pages, OpenPage(p) PROVE PutsUp
  BY <1>1, WhatIsOnNext DEF OpenPage, PageWrites, Opening, PutsUp
<1>2. CASE AskName
  <2>1. UNCHANGED viewVars /\ UNCHANGED musicVars
        /\ UNCHANGED <<slot, left, wiped>>
    BY <1>2 DEF AskName, contextVars
  <2>2. MusicContext' = MusicContext
    BY <2>1 DEF MusicContext, ShownMusic, viewVars, musicVars
  <2>3. OnScreen' = OnScreen
    BY <1>2, <2>1, <2>2, SameViews DEF AskName, OnScreen, ViewContexts, Pages,
       RecipeContext, WeatherContext, PlaceContext, CameraContext, viewVars
  <2>4. QED
    BY <2>1, <2>3 DEF Rests
<1>3. CASE Begin
  BY <1>3, WhatIsOnNext DEF Begin, PageWrites, Opening, PutsUp, Pages
<1>4. CASE NextPhrase
  BY <1>4, WhatIsOnNext DEF NextPhrase, PageWrites, Opening, PutsUp, Pages
<1>5. CASE ClosePage
  BY <1>5 DEF ClosePage, PageWrites, Closing, TakesDown
<1>6. QED
  BY <1>1, <1>2, <1>3, <1>4, <1>5

LEMMA EngineLeaves ==
  ASSUME EngineStarts
  PROVE  Leaves
<1>1. /\ RecipeContext' = Nothing /\ WeatherContext' = Nothing
      /\ PlaceContext' = Nothing /\ CameraContext' = Nothing
      /\ MusicContext' = Nothing
  BY DEF EngineStarts, RecipeContext, WeatherContext, PlaceContext,
     CameraContext, MusicContext, ShownMusic, NoCamera
<1>2. OnScreen' \subseteq OnScreen
  BY <1>1, ContextsDiffer DEF EngineStarts, OnScreen
<1>3. QED
  BY <1>2 DEF EngineStarts, Leaves

LEMMA TurnRests ==
  ASSUME TurnStarts \/ UNCHANGED displayVars
  PROVE  Rests
<1>1. UNCHANGED viewVars /\ UNCHANGED musicVars /\ page' = page
      /\ UNCHANGED <<slot, left, wiped>>
  BY DEF TurnStarts, displayVars, contextVars, otherVars
<1>2. MusicContext' = MusicContext
  BY <1>1 DEF MusicContext, ShownMusic, viewVars, musicVars
<1>3. QED
  BY <1>1, <1>2, SameViews, SameScreen DEF Rests

LEMMA SlotKindsOfSteps ==
  ASSUME ScreenTypeOK, ContextTellsNoLies, [ScreenNext]_displayVars
  PROVE  SlotKinds
<1>1. musicKey = MusicContext
  BY DEF ScreenTypeOK
<1>2. CASE \/ \E r \in Recipes : ShowRecipe(r)
           \/ \E w \in Reports : ShowWeather(w)
           \/ \E p \in PlaceCards : ShowPlace(p)
           \/ \E c \in Cameras : OpenCamera(c)
  BY <1>2, OpeningsPutUp DEF SlotKinds
<1>3. CASE \E c \in Cameras, f \in fetches : StreamArrives(f, c)
  BY <1>3, StreamMoves DEF SlotKinds
<1>4. CASE \/ DismissRecipe \/ DismissWeather \/ DismissPlace \/ CloseCamera
           \/ WeatherTimer \/ PlaceTimer \/ CameraTimer
  BY <1>4, DismissalsTakeDown
  DEF WeatherTimer, PlaceTimer, CameraTimer, SlotKinds
<1>5. CASE \E p \in Panes : MoveInRecipe(p)
  BY <1>5, RecipeMoves DEF SlotKinds
<1>6. CASE \/ \E t \in Tracks, s \in Styles : MusicPush(t, s)
           \/ \E s \in Styles : SetStyle(s)
           \/ MusicEnds \/ OpenNowPlaying \/ ShowMusicQueue
           \/ CloseMusicScreen \/ Watch
  BY <1>1, <1>6, MusicMoves DEF SlotKinds
<1>7. CASE (\E p \in Pages : OpenPage(p)) \/ AskName \/ Begin \/ NextPhrase
             \/ ClosePage
  BY <1>1, <1>7, PagesWrite DEF SlotKinds
<1>8. CASE EngineStarts
  BY <1>8, EngineLeaves DEF SlotKinds
<1>9. CASE TurnStarts \/ UNCHANGED displayVars
  BY <1>9, TurnRests DEF SlotKinds
<1>10. QED
  BY <1>2, <1>3, <1>4, <1>5, <1>6, <1>7, <1>8, <1>9 DEF ScreenNext

-----------------------------------------------------------------------------
(* The types, and the views.                                               *)

\* The parts of ScreenTypeOK.
ViewTypes ==
  /\ recipe \in Recipes \cup {"none"} /\ pane \in Panes
  /\ weather \in Reports \cup {"none"} /\ place \in PlaceCards \cup {"none"}
  /\ camera \in [name : Cameras \cup {"none"}, seq : 0 .. MaxOpens,
                 url : {Failed} \cup 0 .. MaxOpens]
  /\ timers \subseteq Timed
  /\ fetches \subseteq 1 .. MaxOpens /\ opens \in 0 .. MaxOpens

MusicTypes ==
  /\ music \in Tracks \cup {"none"}
  /\ musicScreen \in MusicScreens /\ style \in Styles
  /\ watched \in BOOLEAN
  /\ musicKey = MusicContext

PageTypes ==
  /\ page \in Pages \cup {"none", "naming"} /\ starts \in 0 .. MaxEngineStarts
  /\ wiped \in BOOLEAN /\ overheard \subseteq Pages

LEMMA TypeParts == ScreenTypeOK <=> ViewTypes /\ MusicTypes /\ PageTypes
BY DEF ScreenTypeOK, ViewTypes, MusicTypes, PageTypes

Views == OneView /\ TimersFit /\ StreamFits

LEMMA TopPaneIsOne == TopPane \in Panes
BY ScreenAssumption DEF TopPane

\* Without a view's own handler the views and their timers stay.
LEMMA ViewsStay ==
  ASSUME ViewTypes, Views, UNCHANGED viewVars, UNCHANGED fetchVars
  PROVE  ViewTypes' /\ Views'
BY DEF viewVars, fetchVars, ViewTypes, Views, OneView, TimersFit, StreamFits

LEMMA ViewSteps ==
  ASSUME ViewTypes, Views, [ScreenNext]_displayVars
  PROVE  ViewTypes' /\ Views'
<1> USE DEF ViewTypes, Views, OneView, TimersFit, StreamFits
<1>1. ASSUME NEW r \in Recipes, ShowRecipe(r) PROVE ViewTypes' /\ Views'
  BY <1>1, TopPaneIsOne, ScreenAssumption
  DEF ShowRecipe, NoCamera, fetchVars, Loading
<1>2. ASSUME NEW w \in Reports, ShowWeather(w) PROVE ViewTypes' /\ Views'
  BY <1>2, TopPaneIsOne, ScreenAssumption
  DEF ShowWeather, NoCamera, fetchVars, Loading, Timed
<1>3. ASSUME NEW p \in PlaceCards, ShowPlace(p) PROVE ViewTypes' /\ Views'
  BY <1>3, TopPaneIsOne, ScreenAssumption
  DEF ShowPlace, NoCamera, fetchVars, Loading, Timed
<1>4. ASSUME NEW c \in Cameras, OpenCamera(c) PROVE ViewTypes' /\ Views'
  BY <1>4, TopPaneIsOne, ScreenAssumption DEF OpenCamera, Loading, Timed
<1>5. ASSUME NEW c \in Cameras, NEW f \in fetches, StreamArrives(f, c)
      PROVE  ViewTypes' /\ Views'
  <2>1. /\ UNCHANGED <<recipe, pane, weather, place, timers, opens>>
        /\ fetches' \subseteq fetches
        /\ \/ camera' = [camera EXCEPT !.url = f, !.name = c] /\ camera.seq = f
           \/ camera' = [camera EXCEPT !.url = Failed]
           \/ camera' = camera
    BY <1>5 DEF StreamArrives, Current
  <2>2. /\ camera'.seq = camera.seq
        /\ camera'.url \in {camera.url, Failed, camera.seq}
        /\ camera' \in [name : Cameras \cup {"none"}, seq : 0 .. MaxOpens,
                        url : {Failed} \cup 0 .. MaxOpens]
    BY <2>1, ScreenAssumption
  <2>3. QED
    BY <2>1, <2>2
<1>6. CASE DismissRecipe
  BY <1>6, TopPaneIsOne DEF DismissRecipe, fetchVars
<1>7. CASE DismissWeather
  BY <1>7 DEF DismissWeather, fetchVars
<1>8. CASE DismissPlace
  BY <1>8 DEF DismissPlace, fetchVars
<1>9. CASE CloseCamera
  BY <1>9, ScreenAssumption DEF CloseCamera, fetchVars, NoCamera, Loading
<1>10. ASSUME NEW p \in Panes, MoveInRecipe(p) PROVE ViewTypes' /\ Views'
  BY <1>10 DEF MoveInRecipe, fetchVars
<1>11. CASE EngineStarts
  BY <1>11, TopPaneIsOne, ScreenAssumption
  DEF EngineStarts, NoCamera, Loading
<1>12. CASE UNCHANGED viewVars /\ UNCHANGED fetchVars
  BY <1>12, ViewsStay
<1>13. CASE \/ \E t \in Tracks, s \in Styles : MusicPush(t, s)
            \/ \E s \in Styles : SetStyle(s)
            \/ MusicEnds \/ OpenNowPlaying \/ ShowMusicQueue
            \/ CloseMusicScreen \/ Watch
            \/ \E p \in Pages : OpenPage(p)
            \/ AskName \/ Begin \/ NextPhrase \/ ClosePage
            \/ TurnStarts \/ UNCHANGED displayVars
  <2>1. UNCHANGED viewVars /\ UNCHANGED fetchVars
    BY <1>13 DEF MusicPush, SetStyle, MusicEnds, OpenNowPlaying,
       ShowMusicQueue, ShowMusic, CloseMusicScreen, Watch, OpenPage, AskName,
       Begin, NextPhrase, ClosePage, PageWrites, TurnStarts, displayVars
  <2>2. QED
    BY <2>1, ViewsStay
<1>14. QED
  BY <1>1, <1>2, <1>3, <1>4, <1>5, <1>6, <1>7, <1>8, <1>9, <1>10, <1>11,
     <1>12, <1>13
  DEF ScreenNext, WeatherTimer, PlaceTimer, CameraTimer

\* Every emit installs the key; the pages' own writes come without one, and
\* without a change of the music or the views.
LEMMA KeySteps ==
  ASSUME musicKey = MusicContext, [ScreenNext]_displayVars
  PROVE  musicKey' = MusicContext'
<1>1. CASE UNCHANGED viewVars /\ UNCHANGED musicVars /\ UNCHANGED musicKey
  BY <1>1 DEF MusicContext, ShownMusic, viewVars, musicVars
<1>2. CASE \E c \in Cameras, f \in fetches : StreamArrives(f, c)
  <2>1. CASE UNCHANGED camera /\ UNCHANGED musicKey
    BY <1>2, <2>1
    DEF StreamArrives, MusicContext, ShownMusic, musicVars
  <2>2. CASE ~(UNCHANGED camera /\ UNCHANGED musicKey)
    BY <1>2, <2>2 DEF StreamArrives, Emitted
  <2>3. QED
    BY <2>1, <2>2
<1>3. CASE EngineStarts
  BY <1>3 DEF EngineStarts, MusicContext, ShownMusic
<1>4. CASE \/ \E p \in Pages : OpenPage(p)
           \/ AskName \/ Begin \/ NextPhrase \/ ClosePage
           \/ TurnStarts \/ UNCHANGED displayVars
  BY <1>1, <1>4 DEF OpenPage, AskName, Begin, NextPhrase, ClosePage,
     PageWrites, TurnStarts, displayVars, contextVars
<1>5. QED
  BY <1>2, <1>3, <1>4
  DEF ScreenNext, ShowRecipe, ShowWeather, ShowPlace, OpenCamera,
      DismissRecipe, DismissWeather, DismissPlace, CloseCamera, WeatherTimer,
      PlaceTimer, CameraTimer, MoveInRecipe, MusicPush, SetStyle, MusicEnds,
      OpenNowPlaying, ShowMusicQueue, ShowMusic, CloseMusicScreen, Watch,
      Emitted

LEMMA MusicSteps ==
  ASSUME MusicTypes, [ScreenNext]_displayVars
  PROVE  MusicTypes'
<1>1. musicKey' = MusicContext'
  BY KeySteps DEF MusicTypes
<1>2. CASE UNCHANGED musicVars
  BY <1>1, <1>2 DEF MusicTypes, musicVars
<1>3. CASE musicScreen' = "hidden" /\ UNCHANGED <<music, style, watched>>
  BY <1>1, <1>3 DEF MusicTypes, MusicScreens
<1>4. ASSUME NEW t \in Tracks, NEW s \in Styles, MusicPush(t, s)
      PROVE  MusicTypes'
  BY <1>1, <1>4 DEF MusicPush, MusicTypes, MusicScreens
<1>5. ASSUME NEW s \in Styles, SetStyle(s) PROVE MusicTypes'
  BY <1>1, <1>5 DEF SetStyle, MusicTypes, MusicScreens
<1>6. CASE MusicEnds
  BY <1>1, <1>6 DEF MusicEnds, MusicTypes, MusicScreens
<1>7. CASE OpenNowPlaying \/ ShowMusicQueue
  BY <1>1, <1>7
  DEF OpenNowPlaying, ShowMusicQueue, ShowMusic, MusicTypes, MusicScreens
<1>8. CASE CloseMusicScreen
  <2>1. /\ musicScreen' = "hidden" /\ music' = music /\ watched' = watched
        /\ style' \in {style, "compact"}
    BY <1>8 DEF CloseMusicScreen, SetStyle
  <2>2. QED
    BY <1>1, <2>1 DEF MusicTypes, MusicScreens, Styles
<1>9. CASE Watch
  BY <1>1, <1>9 DEF Watch, MusicTypes
<1>10. CASE EngineStarts
  BY <1>1, <1>10 DEF EngineStarts, MusicTypes, MusicScreens, Styles
<1>11. CASE \/ \E r \in Recipes : ShowRecipe(r)
            \/ \E w \in Reports : ShowWeather(w)
            \/ \E p \in PlaceCards : ShowPlace(p)
            \/ \E c \in Cameras : OpenCamera(c)
  BY <1>3, <1>11 DEF ShowRecipe, ShowWeather, ShowPlace, OpenCamera
<1>12. CASE \/ \E c \in Cameras, f \in fetches : StreamArrives(f, c)
            \/ DismissRecipe \/ DismissWeather \/ DismissPlace \/ CloseCamera
            \/ WeatherTimer \/ PlaceTimer \/ CameraTimer
            \/ \E p \in Panes : MoveInRecipe(p)
            \/ \E p \in Pages : OpenPage(p)
            \/ AskName \/ Begin \/ NextPhrase \/ ClosePage
            \/ TurnStarts \/ UNCHANGED displayVars
  BY <1>2, <1>12
  DEF StreamArrives, DismissRecipe, DismissWeather, DismissPlace, CloseCamera,
      WeatherTimer, PlaceTimer, CameraTimer, MoveInRecipe, OpenPage, AskName,
      Begin, NextPhrase, ClosePage, PageWrites, TurnStarts, displayVars
<1>13. QED
  BY <1>4, <1>5, <1>6, <1>7, <1>8, <1>9, <1>10, <1>11, <1>12 DEF ScreenNext

LEMMA PageSteps ==
  ASSUME PageTypes, [ScreenNext]_displayVars
  PROVE  PageTypes'
<1>1. CASE \/ \E p \in Pages : OpenPage(p)
           \/ AskName \/ Begin \/ NextPhrase \/ ClosePage
           \/ TurnStarts \/ UNCHANGED displayVars
  BY <1>1 DEF OpenPage, AskName, Begin, NextPhrase, ClosePage, PageWrites,
     Opening, Closing, TurnStarts, contextVars, otherVars, displayVars,
     PageTypes, Pages
<1>2. CASE EngineStarts
  BY <1>2, ScreenAssumption DEF EngineStarts, PageTypes
<1>3. CASE UNCHANGED otherVars /\ wiped' \in BOOLEAN
  BY <1>3 DEF otherVars, PageTypes
<1>4. CASE \/ \E r \in Recipes : ShowRecipe(r)
           \/ \E w \in Reports : ShowWeather(w)
           \/ \E p \in PlaceCards : ShowPlace(p)
           \/ \E c \in Cameras, f \in fetches : StreamArrives(f, c)
           \/ \E c \in Cameras : OpenCamera(c)
           \/ DismissRecipe \/ DismissWeather \/ DismissPlace \/ CloseCamera
           \/ \E p \in Panes : MoveInRecipe(p)
  BY <1>3, <1>4
  DEF ShowRecipe, ShowWeather, ShowPlace, OpenCamera, StreamArrives,
      DismissRecipe, DismissWeather, DismissPlace, CloseCamera, MoveInRecipe,
      Opening, Closing, Moving
<1>5. CASE \/ \E t \in Tracks, s \in Styles : MusicPush(t, s)
           \/ \E s \in Styles : SetStyle(s)
           \/ MusicEnds \/ OpenNowPlaying \/ ShowMusicQueue
           \/ CloseMusicScreen \/ Watch
  BY <1>3, <1>5
  DEF MusicPush, SetStyle, MusicEnds, OpenNowPlaying, ShowMusicQueue,
      ShowMusic, CloseMusicScreen, Watch, Moving
<1>6. QED
  BY <1>1, <1>2, <1>4, <1>5
  DEF ScreenNext, WeatherTimer, PlaceTimer, CameraTimer

-----------------------------------------------------------------------------
\* The screen starts empty, and so does the slot.
LEMMA ScreenInitially == ScreenInit => ScreenIInv
<1> SUFFICES ASSUME ScreenInit PROVE ScreenIInv
  OBVIOUS
<1>1. /\ RecipeContext = Nothing /\ WeatherContext = Nothing
      /\ PlaceContext = Nothing /\ CameraContext = Nothing
      /\ MusicContext = Nothing
  BY DEF ScreenInit, RecipeContext, WeatherContext, PlaceContext,
     CameraContext, MusicContext, ShownMusic, NoCamera
<1>2. ViewTypes
  BY ScreenAssumption, TopPaneIsOne DEF ScreenInit, ViewTypes, NoCamera
<1>3. MusicTypes
  BY <1>1 DEF ScreenInit, MusicTypes, MusicScreens, Styles
<1>4. PageTypes
  <2>1. MaxEngineStarts \in 0 .. MaxEngineStarts
    BY ScreenAssumption
  <2>2. wiped \in BOOLEAN
    BY DEF ScreenInit
  <2>3. QED
    BY <2>1, <2>2 DEF ScreenInit, PageTypes
<1>5. Views
  BY DEF ScreenInit, Views, OneView, TimersFit, StreamFits, NoCamera, Loading
<1>6. ContextTellsNoLies
  BY <1>1 DEF ScreenInit, ContextTellsNoLies, OnScreen, Pages
<1>7. QED
  BY <1>2, <1>3, <1>4, <1>5, <1>6, TypeParts DEF ScreenIInv, Views

LEMMA ScreenInductive ==
  ScreenIInv /\ [ScreenNext]_displayVars => ScreenIInv'
<1> SUFFICES ASSUME ScreenIInv, [ScreenNext]_displayVars PROVE ScreenIInv'
  OBVIOUS
<1>1. ViewTypes /\ MusicTypes /\ PageTypes /\ Views
  BY TypeParts DEF ScreenIInv, Views
<1>2. ViewTypes' /\ Views'
  BY <1>1, ViewSteps
<1>3. MusicTypes' /\ PageTypes'
  BY <1>1, MusicSteps, PageSteps
<1>4. ScreenTypeOK'
  BY <1>2, <1>3 DEF ScreenTypeOK, ViewTypes, MusicTypes, PageTypes
<1>5. ContextTellsNoLies'
  <2>1. SlotKinds
    BY SlotKindsOfSteps DEF ScreenIInv
  <2>2. wiped \in BOOLEAN /\ wiped' \in BOOLEAN
    BY <1>1, <1>3 DEF PageTypes
  <2>3. QED
    BY <2>1, <2>2, SlotSteps DEF ScreenIInv, SlotKinds
<1>6. QED
  BY <1>2, <1>4, <1>5 DEF ScreenIInv, Views

\* The invariant behind the screen's theorems, in every reachable state.
THEOREM ScreenInvariance == ScreenSpec => []ScreenIInv
BY ScreenInitially, ScreenInductive, PTL DEF ScreenSpec

\* Types, and the key that decides whether the music's context is written
\* again is always the context that was last written for it.
THEOREM ScreenTypeCorrect == ScreenSpec => []ScreenTypeOK
<1>1. ScreenIInv => ScreenTypeOK
  BY DEF ScreenIInv
<1>2. QED
  BY <1>1, ScreenInvariance, PTL

\* With any number of views, tracks and engine starts: what a turn tells the
\* Core of the screen is something open on it, and it says that nothing is open
\* only when nothing is or a closing screen emptied the slot.
THEOREM ContextNeverLies == ScreenSpec => []ContextTellsNoLies
<1>1. ScreenIInv => ContextTellsNoLies
  BY DEF ScreenIInv
<1>2. QED
  BY <1>1, ScreenInvariance, PTL

\* The views never stack, exactly the view that is up has a timer, and a camera
\* view plays no stream fetched for an earlier one.
THEOREM ViewsAlwaysTheirOwn == ScreenSpec => []ViewsAreTheirOwn
<1>1. ScreenIInv => ViewsAreTheirOwn
  <2> SUFFICES ASSUME ScreenIInv PROVE ViewsAreTheirOwn
    OBVIOUS
  <2>1. \A x, y \in OnScreen \ {<<"diagnostics">>, <<"enroll">>} : x = y
    <3> SUFFICES ASSUME NEW x \in OnScreen, NEW y \in OnScreen,
                        x \notin {<<p>> : p \in Pages},
                        y \notin {<<p>> : p \in Pages}
                 PROVE  x = y
      BY DEF Pages
    <3>1. /\ x \in ViewContexts \cup {MusicContext} /\ x # Nothing
          /\ y \in ViewContexts \cup {MusicContext} /\ y # Nothing
      BY WhatIsOn DEF OnScreen
    <3>2. \/ recipe = "none" /\ weather = "none" /\ place = "none"
             /\ camera.seq = 0
          \/ MusicContext = Nothing
      BY DEF MusicContext, ShownMusic
    <3>3. QED
      BY <3>1, <3>2, WhatIsOn DEF ScreenIInv, OneView, ViewContexts
  <2>2. timers = (IF weather # "none" THEN {"weather"} ELSE {})
                 \cup (IF place # "none" THEN {"place"} ELSE {})
                 \cup (IF camera.seq # 0 THEN {"camera"} ELSE {})
    BY DEF ScreenIInv, ScreenTypeOK, Timed, TimersFit
  <2>3. QED
    BY <2>1, <2>2 DEF ScreenIInv, StreamFits, ViewsAreTheirOwn
<1>2. QED
  BY <1>1, ScreenInvariance, PTL
=============================================================================
