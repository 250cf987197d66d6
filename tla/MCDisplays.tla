----------------------------- MODULE MCDisplays -----------------------------
(***************************************************************************)
(* The parts around the displays' long-lived connections and the music,    *)
(* checked in one run.  They share no variable, so a behaviour moves the   *)
(* one that focus names while the others rest in their initial states: the *)
(* run visits the sum of what each part can do instead of the product.     *)
(***************************************************************************)
EXTENDS TimerMirror, PushChannels, PushLink, RadioHandoff

VARIABLE focus

displaysVars == <<focus, vars, pushVars, channelVars, radioVars>>

\* A part out of focus rests in one of its initial states.
Rest ==
  /\ focus # "push" => role = "music" /\ linked /\ truth = "none"
  /\ focus # "link" => /\ pin = "auto" /\ reporting
                       /\ \A m \in Macs : home[m] = "off"
  /\ focus # "radio" => speakers = "spotify" /\ ~spotify

DisplaysInit ==
  /\ focus \in {"mirror", "push", "link", "radio"}
  /\ Init /\ PushInit /\ ChannelInit /\ RadioInit
  /\ Rest

DisplaysNext ==
  \/ /\ focus = "mirror" /\ Next
     /\ UNCHANGED <<focus, pushVars, channelVars, radioVars>>
  \/ /\ focus = "push" /\ PushNext
     /\ UNCHANGED <<focus, vars, channelVars, radioVars>>
  \/ /\ focus = "link" /\ ChannelNext
     /\ UNCHANGED <<focus, vars, pushVars, radioVars>>
  \/ /\ focus = "radio" /\ RadioNext
     /\ UNCHANGED <<focus, vars, pushVars, channelVars>>

\* The fairness of each part, while it is the one that moves.
DisplaysFairness ==
  /\ \A c \in Conns :
       /\ WF_vars(focus = "mirror" /\ c \in shut
                  /\ (Register(c) \/ NoHello(c) \/ Report(c)))
       /\ WF_vars(focus = "mirror" /\ c \in shut /\ up[c] = << >>
                  /\ Leave(c))
       /\ WF_vars(focus = "mirror" /\ (Forget(c) \/ Deregister(c)))
  /\ \A d \in Displays :
       /\ WF_pushVars(focus = "push" /\ Dial(d))
       /\ WF_pushVars(focus = "push" /\ JoinReads(d))
       /\ WF_pushVars(focus = "push" /\ JoinEnters(d))
       /\ WF_pushVars(focus = "push" /\ Deliver(d))
  /\ WF_pushVars(focus = "push" /\ Fetch)
  /\ WF_pushVars(focus = "push" /\ PushStep)
  /\ WF_pushVars(focus = "push" /\ StoreStep)
  /\ WF_pushVars(focus = "push" /\ KnobPushes)
  /\ SF_channelVars(focus = "link" /\ \E m \in Macs : BrowseFinds(m))
  /\ WF_channelVars(focus = "link" /\ (FallsBack \/ ResolveFails))
  /\ WF_channelVars(focus = "link"
                    /\ (DialConnects \/ DialFails \/ SaysHello))
  /\ WF_channelVars(focus = "link" /\ (ConnectionFails \/ ReadsClose))
  /\ WF_channelVars(focus = "link" /\ WaitOver)
  /\ WF_channelVars(focus = "link" /\ StopNoticed)
  /\ \A u \in Users : WF_radioVars(focus = "radio" /\ RadioStep(u))
  /\ SF_radioVars(focus = "radio" /\ (RadioStep("tick") \/ TickSees))
  /\ WF_radioVars(focus = "radio" /\ TickStep)

DisplaysSpec ==
  DisplaysInit /\ [][DisplaysNext]_displaysVars /\ DisplaysFairness
=============================================================================
