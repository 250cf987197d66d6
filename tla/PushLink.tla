------------------------------ MODULE PushLink ------------------------------
(***************************************************************************)
(* A display's end of one push channel (push_channel.rs): resolve the      *)
(* Core, dial, say hello, listen, and after any end wait and start over    *)
(* until the channel is stopped or nobody consumes it.  Resolving is       *)
(* discovery.rs: an mDNS browse, with the last address found as the        *)
(* fallback; every failure forgets that address.                           *)
(*                                                                         *)
(* Macs go down and come back under the same or another address, and an    *)
(* address may pass to another Mac.  A connection ends with a close, with  *)
(* a reset, or in silence: then only something to send can discover it.    *)
(***************************************************************************)
EXTENDS Integers

CONSTANTS
  Macs,
  Addrs,
  MaxMoves     \* bound on Macs going down

ASSUME ChannelAssumption == MaxMoves \in Nat /\ "none" \notin Macs

VARIABLES
  pin,        \* the Mac the display is pinned to, or "auto"
  reporting,  \* the channel carries a report (the notify channel's timers)
  home,       \* the address of each Mac's Core, or "off"
  phase,      \* where the loop is
  target,     \* the address it resolved
  peer,       \* the Mac at the other end of the connection
  sock,       \* the connection: "ok", "closed", "reset" or "deaf"
  unacked,    \* something was sent that no peer will take
  cached,     \* EndpointCache: the last endpoint found
  backoff,    \* seconds to wait before the next attempt
  running,    \* cleared by stop_channel
  owners,     \* ghost: the Macs each address has belonged to
  moves

channelVars == <<pin, reporting, home, phase, target, peer, sock, unacked,
                 cached, backoff, running, owners, moves>>

MinBackoff == 1
MaxBackoff == 30
Nowhere == [mac |-> "none", addr |-> "none"]

Accepts(m) == pin \in {"auto", m}
At(a) == {m \in Macs : home[m] = a}

ChannelInit ==
  /\ pin \in Macs \union {"auto"}
  /\ reporting \in BOOLEAN
  /\ home \in {h \in [Macs -> Addrs \union {"off"}] :
                 \A m, n \in Macs : m # n /\ h[m] = h[n] => h[m] = "off"}
  /\ phase = "resolve" /\ target = "none" /\ peer = "none"
  /\ sock = "ok" /\ unacked = FALSE
  /\ cached = Nowhere
  /\ backoff = MinBackoff
  /\ running = TRUE
  /\ owners = [a \in Addrs |-> At(a)]
  /\ moves = 0

----------------------------------------------------------------------------
(* resolve.                                                                *)

\* MUTANT: any orchestrator that answers will do.
BrowseFindsAny(m) ==
  /\ phase = "resolve" /\ home[m] # "off"
  /\ cached' = [mac |-> m, addr |-> home[m]]
  /\ target' = home[m]
  /\ phase' = "dial"
  /\ UNCHANGED <<pin, reporting, home, peer, sock, unacked, backoff, running,
                 owners, moves>>

\* The browse finds a Mac the pin allows, and refreshes the cache.
BrowseFinds(m) ==
  /\ phase = "resolve" /\ home[m] # "off" /\ Accepts(m)
  /\ cached' = [mac |-> m, addr |-> home[m]]
  /\ target' = home[m]
  /\ phase' = "dial"
  /\ UNCHANGED <<pin, reporting, home, peer, sock, unacked, backoff, running,
                 owners, moves>>

\* The browse finds nothing in time: the cached endpoint, if the pin allows it.
FallsBack ==
  /\ phase = "resolve" /\ cached # Nowhere /\ Accepts(cached.mac)
  /\ target' = cached.addr
  /\ phase' = "dial"
  /\ UNCHANGED <<pin, reporting, home, peer, sock, unacked, cached, backoff,
                 running, owners, moves>>

\* An attempt failed: forget the address, then wait.
Failed ==
  /\ phase' = "wait"
  /\ cached' = Nowhere
  /\ peer' = "none" /\ sock' = "ok" /\ unacked' = FALSE
  /\ UNCHANGED <<pin, reporting, home, target, backoff, running, owners,
                 moves>>

ResolveFails ==
  /\ phase = "resolve"
  /\ cached = Nowhere \/ ~Accepts(cached.mac)
  /\ Failed

----------------------------------------------------------------------------
(* dial, hello, listen.                                                    *)

DialConnects ==
  /\ phase = "dial"
  /\ \E m \in At(target) : peer' = m
  /\ phase' = "hello"
  /\ UNCHANGED <<pin, reporting, home, target, sock, unacked, cached, backoff,
                 running, owners, moves>>

DialFails == phase = "dial" /\ At(target) = {} /\ Failed

\* The hello, and on a reporting channel the report, are written.
SaysHello ==
  /\ phase = "hello" /\ sock # "reset"
  /\ phase' = "open"
  /\ unacked' = (sock # "ok")
  /\ UNCHANGED <<pin, reporting, home, target, peer, sock, cached, backoff,
                 running, owners, moves>>

\* Writing or reading meets a reset, or what was sent is refused or never
\* acknowledged.
ConnectionFails ==
  /\ phase \in {"hello", "open"}
  /\ sock = "reset" \/ unacked
  /\ Failed

\* Another report, written while the loop listens; to a peer that is there
\* it makes no difference here.
ReportChanges ==
  /\ reporting /\ phase = "open" /\ sock \in {"closed", "deaf"}
  /\ unacked' = TRUE
  /\ UNCHANGED <<pin, reporting, home, phase, target, peer, sock, cached,
                 backoff, running, owners, moves>>

\* MUTANT: the end of the stream is taken for a frame to ignore.
IgnoresClose ==
  /\ phase = "open" /\ sock = "closed"
  /\ UNCHANGED channelVars

\* The peer closed: back to the shortest wait, the address stays.
ReadsClose ==
  /\ phase = "open" /\ sock = "closed"
  /\ phase' = "wait"
  /\ backoff' = MinBackoff
  /\ peer' = "none" /\ sock' = "ok" /\ unacked' = FALSE
  /\ UNCHANGED <<pin, reporting, home, target, cached, running, owners,
                 moves>>

WaitOver ==
  /\ phase = "wait" /\ running
  /\ phase' = "resolve"
  /\ backoff' = IF 2 * backoff < MaxBackoff THEN 2 * backoff ELSE MaxBackoff
  /\ UNCHANGED <<pin, reporting, home, target, peer, sock, unacked, cached,
                 running, owners, moves>>

\* A frame arrives and nobody is there to take it.
ConsumerGone ==
  /\ phase = "open" /\ sock = "ok"
  /\ phase' = "ended"
  /\ peer' = "none" /\ sock' = "ok" /\ unacked' = FALSE
  /\ UNCHANGED <<pin, reporting, home, target, cached, backoff, running,
                 owners, moves>>

----------------------------------------------------------------------------
(* stop_channel, which then waits for the loop to end.                     *)

StopChannel ==
  /\ running
  /\ running' = FALSE
  /\ UNCHANGED <<pin, reporting, home, phase, target, peer, sock, unacked,
                 cached, backoff, owners, moves>>

\* The flag is looked at while listening and while waiting.
StopNoticed ==
  /\ ~running /\ phase \in {"open", "wait"}
  /\ phase' = "ended"
  /\ peer' = "none" /\ sock' = "ok" /\ unacked' = FALSE
  /\ UNCHANGED <<pin, reporting, home, target, cached, backoff, running,
                 owners, moves>>

----------------------------------------------------------------------------
(* The network.                                                            *)

\* A Mac's Core stops, or the Mac leaves; its connection learns of it or not.
MacGoes(m, how) ==
  /\ home[m] # "off" /\ moves < MaxMoves
  /\ moves' = moves + 1
  /\ home' = [home EXCEPT ![m] = "off"]
  /\ sock' = IF peer = m /\ sock = "ok" THEN how ELSE sock
  /\ UNCHANGED <<pin, reporting, phase, target, peer, unacked, cached,
                 backoff, running, owners>>

\* It comes back, with an address that is free.
MacComes(m, a) ==
  /\ home[m] = "off" /\ At(a) = {}
  /\ home' = [home EXCEPT ![m] = a]
  /\ owners' = [owners EXCEPT ![a] = @ \union {m}]
  /\ UNCHANGED <<pin, reporting, phase, target, peer, sock, unacked, cached,
                 backoff, running, moves>>

ChannelNext ==
  \/ \E m \in Macs :
       \/ BrowseFinds(m)
       \/ \E how \in {"closed", "reset", "deaf"} : MacGoes(m, how)
       \/ \E a \in Addrs : MacComes(m, a)
  \/ FallsBack \/ ResolveFails
  \/ DialConnects \/ DialFails \/ SaysHello
  \/ ConnectionFails \/ ReportChanges \/ ReadsClose \/ WaitOver
  \/ ConsumerGone \/ StopChannel \/ StopNoticed

\* The thread runs, timeouts pass, and a Mac that is up answers a browse in
\* the end.
ChannelFairness ==
  /\ SF_channelVars(\E m \in Macs : BrowseFinds(m))
  /\ WF_channelVars(FallsBack \/ ResolveFails)
  /\ WF_channelVars(DialConnects \/ DialFails \/ SaysHello)
  /\ WF_channelVars(ConnectionFails \/ ReadsClose)
  /\ WF_channelVars(WaitOver) /\ WF_channelVars(StopNoticed)

ChannelSpec == ChannelInit /\ [][ChannelNext]_channelVars /\ ChannelFairness
----------------------------------------------------------------------------
(* Properties.                                                             *)

ChannelTypeOK ==
  /\ pin \in Macs \union {"auto"} /\ reporting \in BOOLEAN
  /\ home \in [Macs -> Addrs \union {"off"}]
  /\ phase \in {"resolve", "dial", "hello", "open", "wait", "ended"}
  /\ target \in Addrs \union {"none"}
  /\ peer \in Macs \union {"none"}
  /\ (peer # "none") <=> (phase \in {"hello", "open"})
  /\ sock \in {"ok", "closed", "reset", "deaf"} /\ unacked \in BOOLEAN
  /\ cached \in [mac : Macs, addr : Addrs] \union {Nowhere}
  /\ backoff \in MinBackoff .. MaxBackoff
  /\ running \in BOOLEAN
  /\ owners \in [Addrs -> SUBSET Macs]

\* A display pinned to a Mac listens to no other ("so a pinned orchestrator
\* only ever accepts pushes from that Mac"), except at an address that
\* was its Mac's before: the hello asks for nobody's name.
PinnedHearsItsMac ==
  phase \in {"hello", "open"} => \E m \in owners[target] : Accepts(m)

\* A stopped channel ends, even one that listens to a silent peer (the UI
\* thread is waiting for it).  One that goes on is connected in the end if a
\* Mac it may talk to is on the network, or it has lost its peer in silence
\* and has nothing to send.
ChannelComesBack ==
  <>[](\/ phase = "ended"
       \/ running /\ \/ phase = "open" /\ sock = "ok"
                     \/ sock = "deaf" /\ ~unacked
                     \/ \A m \in Macs : Accepts(m) => home[m] = "off")
============================================================================
