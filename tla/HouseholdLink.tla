--------------------------- MODULE HouseholdLink ---------------------------
(***************************************************************************)
(* The Core's sign-in to the family's Cadora and NextHaul households       *)
(* (cadora/apps.rs, HouseholdApps), with the page's link and unlink        *)
(* (webconfig/household.rs) and the settings that keep the identity        *)
(* (settings.rs: apply_cadora, store_cadora_identity, for_settings).       *)
(*                                                                         *)
(* A refresh token is single use: the server answers each refresh with the *)
(* next one.  The hub holds the session in memory, hands every new token   *)
(* to the settings, and is pointed at the settings again whenever any of   *)
(* them changes.  Callers are voice turns and page requests; a request or  *)
(* its answer may be lost, and the Core may be restarted at any point.     *)
(*                                                                         *)
(* The server is external: it is modelled from what apps.rs asks of it.    *)
(***************************************************************************)
EXTENDS Integers, FiniteSets

CONSTANTS
  Callers,      \* turns and page requests under way at once
  Apps,         \* the two apps
  MaxUsers,     \* bound on anonymous sign-ins
  MaxTokens,    \* bound on refresh tokens issued
  MaxRequests,  \* bound on calls, links and unlinks
  MaxRebuilds,  \* bound on other settings changes
  MaxCrashes    \* bound on restarts

ASSUME LinkAssumption ==
  /\ Apps # {} /\ "free" \notin Callers
  /\ MaxUsers \in Nat /\ MaxTokens \in Nat /\ MaxRequests \in Nat
  /\ MaxRebuilds \in Nat /\ MaxCrashes \in Nat

VARIABLES
  hub,       \* HubState: whose session, its refresh token, a live access token
  saved,     \* the settings: identity and linked apps
  newest,    \* server: the refresh token that is valid for each user
  joined,    \* server: <<app, user>> where user is a member of app's household
  users, issued,
  refresher, \* the caller that holds refresh_lock, or "free"
  step,      \* where each caller is
  req,       \* what each caller is about, and what it has read so far
  broken,    \* ghost: a rotation never reached the settings
  orphans,   \* ghost: apps whose link a dead session or a restart cut off
  crossed,   \* ghost: a link crossed a request that forgets the identity, or
             \* leaves the household it has just joined
  requests, rebuilds, crashes

linkVars == <<hub, saved, newest, joined, users, issued, refresher, step,
              req, broken, orphans, crossed, requests, rebuilds, crashes>>

Ids == 0 .. MaxUsers            \* 0: nobody
Tokens == 0 .. MaxTokens
Ops == {"call", "link", "unlink"}
Reasons == {"call", "check", "sign", "join", "leave"}
Steps == {"idle", "token", "lock", "sent", "answered", "sink", "expired",
          "failed", "dead", "sign", "signing", "join", "leaving", "apply"}

NoRequest == [op |-> "call", app |-> CHOOSE a \in Apps : TRUE,
              why |-> "call", user |-> 0, tok |-> 0, links |-> {}]

----------------------------------------------------------------------------
LinkInit ==
  /\ hub = [user |-> 0, tok |-> 0, access |-> FALSE]
  /\ saved = [user |-> 0, tok |-> 0, links |-> {}]
  /\ newest = [u \in 1 .. MaxUsers |-> 0]
  /\ joined = {}
  /\ users = 0 /\ issued = 0
  /\ refresher = "free"
  /\ step = [c \in Callers |-> "idle"]
  /\ req = [c \in Callers |-> NoRequest]
  /\ broken = FALSE /\ orphans = {} /\ crossed = FALSE
  /\ requests = 0 /\ rebuilds = 0 /\ crashes = 0

Goto(c, s) == step' = [step EXCEPT ![c] = s]

\* The caller is done.
Finish(c) ==
  /\ Goto(c, "idle")
  /\ req' = [req EXCEPT ![c] = NoRequest]

\* access_token returned a token of `u`: on to what it was wanted for.
Granted(c, u) ==
  CASE req[c].why = "call" -> Finish(c)
    [] req[c].why = "check" -> /\ Goto(c, "sign")
                               /\ UNCHANGED req
    [] req[c].why = "sign" ->
         /\ Goto(c, "token")
         /\ req' = [req EXCEPT ![c].why = "join"]
    [] req[c].why = "join" ->
         /\ Goto(c, "join")
         /\ req' = [req EXCEPT ![c].user = u]
    [] req[c].why = "leave" ->
         /\ Goto(c, "leaving")
         /\ req' = [req EXCEPT ![c].user = u]

\* access_token or a sign-in failed.  Leaving is best effort; a dead session
\* found while linking is dropped.
Denied(c, expired) ==
  CASE req[c].why = "leave" -> Goto(c, "apply") /\ UNCHANGED req
    [] req[c].why = "check" /\ expired -> Goto(c, "dead") /\ UNCHANGED req
    [] OTHER -> Finish(c)

----------------------------------------------------------------------------
(* Requests.                                                               *)

\* A voice turn or a sync needs the API.
StartCall(c) ==
  /\ step[c] = "idle" /\ requests < MaxRequests
  /\ requests' = requests + 1
  /\ Goto(c, "token")
  /\ req' = [req EXCEPT ![c].why = "call"]
  /\ UNCHANGED <<hub, saved, newest, joined, users, issued, refresher,
                 broken, orphans, crossed, rebuilds, crashes>>

\* The page links `a`; with an identity at hand its session is tried first.
StartLink(c, a) ==
  /\ step[c] = "idle" /\ requests < MaxRequests
  /\ requests' = requests + 1
  /\ IF hub.user # 0 THEN Goto(c, "token") ELSE Goto(c, "sign")
  /\ req' = [req EXCEPT ![c].op = "link", ![c].app = a, ![c].why = "check"]
  /\ UNCHANGED <<hub, saved, newest, joined, users, issued, refresher,
                 broken, orphans, crossed, rebuilds, crashes>>

\* The page unlinks `a`: the settings are read now and used after the leave.
StartUnlink(c, a) ==
  /\ step[c] = "idle" /\ requests < MaxRequests
  /\ requests' = requests + 1
  /\ IF a \in saved.links THEN Goto(c, "token") ELSE Goto(c, "apply")
  /\ req' = [req EXCEPT ![c].op = "unlink", ![c].app = a, ![c].why = "leave",
                        ![c].links = saved.links]
  /\ UNCHANGED <<hub, saved, newest, joined, users, issued, refresher,
                 broken, orphans, crossed, rebuilds, crashes>>

----------------------------------------------------------------------------
(* access_token.                                                           *)

TokenCached(c) ==
  /\ step[c] = "token" /\ hub.access
  /\ Granted(c, hub.user)
  /\ UNCHANGED <<hub, saved, newest, joined, users, issued, refresher,
                 broken, orphans, crossed, requests, rebuilds, crashes>>

TokenMissing(c) ==
  /\ step[c] = "token" /\ ~hub.access
  /\ Goto(c, "lock")
  /\ UNCHANGED <<hub, saved, newest, joined, users, issued, refresher, req,
                 broken, orphans, crossed, requests, rebuilds, crashes>>

\* With the refresh lock: somebody else refreshed meanwhile, nobody is signed
\* in, or the refresh token is read and sent.
RefreshLock(c) ==
  /\ step[c] = "lock" /\ refresher = "free"
  /\ \/ /\ hub.access
        /\ Granted(c, hub.user)
        /\ UNCHANGED refresher
     \/ /\ ~hub.access /\ hub.user = 0
        /\ Denied(c, FALSE)
        /\ UNCHANGED refresher
     \/ /\ ~hub.access /\ hub.user # 0
        /\ refresher' = c
        /\ Goto(c, "sent")
        /\ req' = [req EXCEPT ![c].user = hub.user, ![c].tok = hub.tok]
  /\ UNCHANGED <<hub, saved, newest, joined, users, issued, broken, orphans,
                 crossed, requests, rebuilds, crashes>>

\* The server: the valid token is replaced by the next one, any other is
\* refused; or the request never arrives.
ServerRefresh(c) ==
  /\ step[c] = "sent"
  /\ \/ /\ req[c].tok = newest[req[c].user] /\ issued < MaxTokens
        /\ issued' = issued + 1
        /\ newest' = [newest EXCEPT ![req[c].user] = issued']
        /\ req' = [req EXCEPT ![c].tok = issued']
        /\ Goto(c, "answered")
     \/ /\ req[c].tok # newest[req[c].user]
        /\ Goto(c, "expired")
        /\ UNCHANGED <<issued, newest, req>>
     \/ /\ Goto(c, "failed")
        /\ UNCHANGED <<issued, newest, req>>
  /\ UNCHANGED <<hub, saved, joined, users, refresher, broken, orphans,
                 crossed, requests, rebuilds, crashes>>

\* store_session: the hub takes the new session.
StoreSession(c) ==
  /\ step[c] = "answered"
  /\ hub' = [user |-> req[c].user, tok |-> req[c].tok, access |-> TRUE]
  /\ Goto(c, "sink")
  /\ UNCHANGED <<saved, newest, joined, users, issued, refresher, req,
                 broken, orphans, crossed, requests, rebuilds, crashes>>

\* The answer is lost: the server has moved on, the hub has not.
AnswerLost(c) ==
  /\ step[c] = "answered"
  /\ broken' = TRUE
  /\ Goto(c, "failed")
  /\ UNCHANGED <<hub, saved, newest, joined, users, issued, refresher, req,
                 orphans, crossed, requests, rebuilds, crashes>>

\* The sink writes the identity to the settings; then the lock is let go.
StoreIdentity(c) ==
  /\ step[c] = "sink"
  /\ saved' = [saved EXCEPT !.user = req[c].user, !.tok = req[c].tok]
  /\ refresher' = "free"
  /\ IF hub.access \/ req[c].why = "sign"
     THEN Granted(c, hub.user)
     ELSE Denied(c, FALSE)
  /\ UNCHANGED <<hub, newest, joined, users, issued, broken, orphans,
                 crossed, requests, rebuilds, crashes>>

RefreshFails(c) ==
  /\ step[c] \in {"expired", "failed"}
  /\ refresher' = "free"
  /\ Denied(c, step[c] = "expired")
  /\ UNCHANGED <<hub, saved, newest, joined, users, issued, broken, orphans,
                 crossed, requests, rebuilds, crashes>>

----------------------------------------------------------------------------
(* link, unlink.                                                           *)

\* Somebody else is in the middle of linking an app.
OtherLinking(c) ==
  \E d \in Callers \ {c} : step[d] # "idle" /\ req[d].op = "link"

\* Somebody else has just joined the household of the same app.
OtherJoined(c) ==
  \E d \in Callers \ {c} : /\ step[d] = "apply" /\ req[d].op = "link"
                           /\ req[d].app = req[c].app

\* The session was found dead: forget it, whoever holds it by now.
DropDeadSession(c) ==
  /\ step[c] = "dead"
  /\ hub' = [user |-> 0, tok |-> 0, access |-> FALSE]
  /\ orphans' = saved.links
  /\ crossed' = (crossed \/ OtherLinking(c))
  /\ Goto(c, "sign")
  /\ UNCHANGED <<saved, newest, joined, users, issued, refresher, req,
                 broken, requests, rebuilds, crashes>>

\* ensure_identity, under the refresh lock.
EnsureIdentity(c) ==
  /\ step[c] = "sign" /\ refresher = "free"
  /\ \/ /\ hub.user # 0
        /\ Goto(c, "token")
        /\ req' = [req EXCEPT ![c].why = "join"]
        /\ UNCHANGED refresher
     \/ /\ hub.user = 0
        /\ refresher' = c
        /\ Goto(c, "signing")
        /\ req' = [req EXCEPT ![c].why = "sign"]
  /\ UNCHANGED <<hub, saved, newest, joined, users, issued, broken, orphans,
                 crossed, requests, rebuilds, crashes>>

\* The server makes a new anonymous user, or does not.
ServerSignsIn(c) ==
  /\ step[c] = "signing"
  /\ \/ /\ users < MaxUsers /\ issued < MaxTokens
        /\ users' = users + 1
        /\ issued' = issued + 1
        /\ newest' = [newest EXCEPT ![users'] = issued']
        /\ req' = [req EXCEPT ![c].user = users', ![c].tok = issued']
        /\ Goto(c, "answered")
     \/ /\ Goto(c, "failed")
        /\ UNCHANGED <<users, issued, newest, req>>
  /\ UNCHANGED <<hub, saved, joined, refresher, broken, orphans, crossed,
                 requests, rebuilds, crashes>>

\* The invite code is redeemed by the user of the access token, or refused;
\* the answer may be lost.
ServerJoins(c) ==
  /\ step[c] = "join"
  /\ \/ /\ joined' = joined \union {<<req[c].app, req[c].user>>}
        /\ (Goto(c, "apply") /\ UNCHANGED req) \/ Finish(c)
     \/ /\ Finish(c)
        /\ UNCHANGED joined
  /\ UNCHANGED <<hub, saved, newest, users, issued, refresher, broken,
                 orphans, crossed, requests, rebuilds, crashes>>

ServerLeaves(c) ==
  /\ step[c] = "leaving"
  /\ \/ /\ joined' = joined \ {<<req[c].app, req[c].user>>}
        /\ crossed' = (crossed \/ OtherJoined(c))
     \/ UNCHANGED <<joined, crossed>>
  /\ Goto(c, "apply")
  /\ UNCHANGED <<hub, saved, newest, users, issued, refresher, req, broken,
                 orphans, requests, rebuilds, crashes>>

\* MUTANT: the settings' identity always replaces the session in memory.
ConfiguredAnew(h, s) == [user |-> s.user, tok |-> s.tok, access |-> FALSE]

\* configure: the same user keeps the session in memory, which holds the
\* newest token; another one, or none, replaces it.
Configured(h, s) ==
  IF h.user # 0 /\ h.user = s.user
  THEN h
  ELSE [user |-> s.user, tok |-> s.tok, access |-> FALSE]

\* MUTANT: an unlink forgets the identity though the other app is linked.
ApplyLinkForgets(c) ==
  /\ step[c] = "apply"
  /\ LET a == req[c].app
         s == IF req[c].op = "link"
              THEN [saved EXCEPT !.links = @ \union {a}]
              ELSE [user |-> 0, tok |-> 0, links |-> saved.links \ {a}]
     IN  /\ saved' = s
         /\ hub' = Configured(hub, s)
         /\ orphans' = (orphans \ {a}) \intersect s.links
         /\ crossed' = (crossed \/ (s.user = 0 /\ OtherLinking(c)))
  /\ Finish(c)
  /\ UNCHANGED <<newest, joined, users, issued, refresher, broken, requests,
                 rebuilds, crashes>>

\* apply_cadora: the link is stored or dropped, the identity with it when the
\* settings read at the start named no other app, and the hub is configured.
ApplyLink(c) ==
  /\ step[c] = "apply"
  /\ LET a == req[c].app
         s == IF req[c].op = "link"
              THEN [saved EXCEPT !.links = @ \union {a}]
              ELSE IF req[c].links \subseteq {a}
                   THEN [user |-> 0, tok |-> 0, links |-> saved.links \ {a}]
                   ELSE [saved EXCEPT !.links = @ \ {a}]
     IN  /\ saved' = s
         /\ hub' = Configured(hub, s)
         /\ orphans' = (orphans \ {a}) \intersect s.links
         /\ crossed' = \/ crossed \/ hub.user \notin {0, saved.user}
                       \/ s.user = 0 /\ (s.links # {} \/ OtherLinking(c))
  /\ Finish(c)
  /\ UNCHANGED <<newest, joined, users, issued, refresher, broken, requests,
                 rebuilds, crashes>>

----------------------------------------------------------------------------
(* Around them.                                                            *)

\* Any other change of the settings configures the hub again.
RebuildTools ==
  /\ rebuilds < MaxRebuilds
  /\ rebuilds' = rebuilds + 1
  /\ hub' = Configured(hub, saved)
  /\ crossed' = (crossed \/ hub.user # saved.user)
  /\ UNCHANGED <<saved, newest, joined, users, issued, refresher, step, req,
                 broken, orphans, requests, crashes>>

\* The access token is about to expire.
AccessExpires ==
  /\ hub.access
  /\ hub' = [hub EXCEPT !.access = FALSE]
  /\ UNCHANGED <<saved, newest, joined, users, issued, refresher, step, req,
                 broken, orphans, crossed, requests, rebuilds, crashes>>

\* The Core restarts and boots from the settings.
Restart ==
  /\ crashes < MaxCrashes
  /\ crashes' = crashes + 1
  /\ hub' = Configured([user |-> 0, tok |-> 0, access |-> FALSE], saved)
  /\ broken' = (broken \/ \E c \in Callers : step[c] \in {"answered", "sink"})
  /\ orphans' = orphans \union
                 {req[c].app : c \in {d \in Callers : step[d] = "apply"
                                                /\ req[d].op = "unlink"}}
  /\ refresher' = "free"
  /\ step' = [c \in Callers |-> "idle"]
  /\ req' = [c \in Callers |-> NoRequest]
  /\ UNCHANGED <<saved, newest, joined, users, issued, crossed,
                 requests, rebuilds>>

LinkStep(c) ==
  \/ TokenCached(c) \/ TokenMissing(c) \/ RefreshLock(c) \/ ServerRefresh(c)
  \/ StoreSession(c) \/ AnswerLost(c) \/ StoreIdentity(c) \/ RefreshFails(c)
  \/ DropDeadSession(c) \/ EnsureIdentity(c) \/ ServerSignsIn(c)
  \/ ServerJoins(c) \/ ServerLeaves(c) \/ ApplyLink(c)

LinkNext ==
  \/ \E c \in Callers :
       \/ StartCall(c)
       \/ \E a \in Apps : StartLink(c, a) \/ StartUnlink(c, a)
       \/ LinkStep(c)
  \/ RebuildTools \/ AccessExpires \/ Restart

LinkSpec == LinkInit /\ [][LinkNext]_linkVars
----------------------------------------------------------------------------
(* Properties.                                                             *)

\* Types, and who holds the refresh lock.
LinkTypeOK ==
  /\ hub \in [user : Ids, tok : Tokens, access : BOOLEAN]
  /\ saved \in [user : Ids, tok : Tokens, links : SUBSET Apps]
  /\ newest \in [1 .. MaxUsers -> Tokens]
  /\ joined \subseteq Apps \X Ids
  /\ users \in Ids /\ issued \in Tokens
  /\ refresher \in Callers \union {"free"}
  /\ step \in [Callers -> Steps]
  /\ req \in [Callers -> [op : Ops, app : Apps, why : Reasons, user : Ids,
                          tok : Tokens, links : SUBSET Apps]]
  /\ \A c \in Callers : (refresher = c) =
       (step[c] \in {"sent", "answered", "sink", "expired", "failed",
                     "signing"})
  /\ broken \in BOOLEAN /\ orphans \subseteq Apps /\ crossed \in BOOLEAN

\* Nothing the Core does ends its own session.  "The settings file always
\* holds the newest refresh token": with no refresh under way and no answer
\* lost, the token in the settings is the valid one.  And a token that was
\* used is not sent again, which the server would take for an expired session.
SessionSurvives ==
  ~broken =>
    /\ refresher = "free" /\ saved.user # 0 =>
         saved.tok = newest[saved.user]
    /\ \A c \in Callers :
         step[c] = "sent" => req[c].tok = newest[req[c].user]

\* A linked app is usable: the identity in the settings is a member of its
\* household.  Not so for an app linked under a session that died, one whose
\* unlink a restart cut off, and when a link crosses another request that
\* forgets the identity: an unlink decides on the settings it read before its
\* leave, a link drops the session it found dead whoever replaced it, and a
\* settings change undoes a sign-in the hub has and the settings have not.
\* Nor when an unlink of the same app leaves the household between the link's
\* join and its entry in the settings.
LinkedIsUsable ==
  (\A c \in Callers : step[c] = "idle") /\ ~crossed =>
    \A a \in saved.links \ orphans : <<a, saved.user>> \in joined
============================================================================
