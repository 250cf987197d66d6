------------------------ MODULE HouseholdLink_proofs ------------------------
(***************************************************************************)
(* Proofs about HouseholdLink: its type invariant, that the Core never     *)
(* ends its own session with the household apps' server, and that a linked *)
(* app is usable.                                                          *)
(***************************************************************************)
EXTENDS HouseholdLink, TLAPS

Request == [op : Ops, app : Apps, why : Reasons, user : Ids,
            tok : Tokens, links : SUBSET Apps]

\* The steps a caller takes with the refresh lock in hand.
Locked == {"sent", "answered", "sink", "expired", "failed", "signing"}

\* Every request has an app to name.
LEMMA NoRequestTyped ==
  NoRequest \in Request
<1>1. (CHOOSE a \in Apps : TRUE) \in Apps
  BY LinkAssumption
<1>2. 0 \in Ids /\ 0 \in Tokens
  BY LinkAssumption DEF Ids, Tokens
<1> QED
  BY <1>1, <1>2 DEF NoRequest, Ops, Reasons, Request

\* What a granted access token does to its caller: one unlocked step on, and
\* nothing to anybody else.
LEMMA GrantedSteps ==
  ASSUME LinkTypeOK, NEW c \in Callers, NEW u \in Ids, Granted(c, u)
  PROVE  /\ \E s \in {"idle", "sign", "token", "join", "leaving"} :
              step' = [step EXCEPT ![c] = s]
         /\ \E r \in Request :
              req' = [req EXCEPT ![c] = r]
<1>1. req \in [Callers -> Request] /\ req[c].why \in Reasons
  BY DEF LinkTypeOK, Request
<1>2. req = [req EXCEPT ![c] = req[c]] /\ req[c] \in Request
  BY <1>1
<1>3. CASE req[c].why = "call"
  BY <1>3, NoRequestTyped DEF Granted, Finish, Goto
<1>4. CASE req[c].why = "check"
  BY <1>4, <1>2 DEF Granted, Goto
<1>5. CASE req[c].why = "sign"
  <2>1. [req[c] EXCEPT !.why = "join"] \in Request
    BY <1>2 DEF Reasons, Request
  <2>2. req' = [req EXCEPT ![c] = [req[c] EXCEPT !.why = "join"]]
    BY <1>5 DEF Granted
  <2> QED
    BY <1>5, <2>1, <2>2 DEF Granted, Goto
<1>6. CASE req[c].why \in {"join", "leave"}
  <2>1. [req[c] EXCEPT !.user = u] \in Request
    BY <1>2 DEF Request
  <2>2. req' = [req EXCEPT ![c] = [req[c] EXCEPT !.user = u]]
    BY <1>6 DEF Granted
  <2> QED
    BY <1>6, <2>1, <2>2 DEF Granted, Goto
<1> QED
  BY <1>1, <1>3, <1>4, <1>5, <1>6 DEF Reasons

\* The same for one that was denied; only an expired session is found dead.
LEMMA DeniedSteps ==
  ASSUME LinkTypeOK, NEW c \in Callers, NEW expired \in BOOLEAN,
         Denied(c, expired)
  PROVE  /\ \E s \in {"idle", "apply", "dead"} :
              /\ step' = [step EXCEPT ![c] = s]
              /\ s = "dead" => expired
         /\ \E r \in Request :
              req' = [req EXCEPT ![c] = r]
<1>1. req = [req EXCEPT ![c] = req[c]] /\ req[c] \in Request
  BY DEF LinkTypeOK, Request
<1>2. CASE req[c].why = "leave"
  BY <1>1, <1>2 DEF Denied, Goto
<1>3. CASE req[c].why = "check" /\ expired
  BY <1>1, <1>3 DEF Denied, Goto
<1>4. CASE req[c].why # "leave" /\ ~(req[c].why = "check" /\ expired)
  BY <1>4, NoRequestTyped DEF Denied, Finish, Goto
<1> QED
  BY <1>2, <1>3, <1>4

----------------------------------------------------------------------------
(* Types.                                                                  *)

LEMMA TypeInit == LinkInit => LinkTypeOK
<1> SUFFICES ASSUME LinkInit PROVE LinkTypeOK
  OBVIOUS
<1>1. 0 \in Ids /\ 0 \in Tokens
  BY LinkAssumption DEF Ids, Tokens
<1>2. req \in [Callers -> Request] /\ step \in [Callers -> Steps]
  BY NoRequestTyped DEF LinkInit, Steps
<1>3. newest \in [1 .. MaxUsers -> Tokens]
  BY <1>1 DEF LinkInit
<1>4. \A c \in Callers : (refresher = c) = (step[c] \in Locked)
  BY LinkAssumption DEF LinkInit, Locked
<1> QED
  BY <1>1, <1>2, <1>3, <1>4 DEF LinkInit, LinkTypeOK, Request, Locked

\* What is left of the type invariant when a step's callers are accounted
\* for.
CallersTyped ==
  /\ refresher \in Callers \union {"free"}
  /\ step \in [Callers -> Steps] /\ req \in [Callers -> Request]
  /\ \A c \in Callers : (refresher = c) = (step[c] \in Locked)

RestTyped ==
  /\ hub \in [user : Ids, tok : Tokens, access : BOOLEAN]
  /\ saved \in [user : Ids, tok : Tokens, links : SUBSET Apps]
  /\ newest \in [1 .. MaxUsers -> Tokens]
  /\ joined \subseteq Apps \X Ids
  /\ users \in Ids /\ issued \in Tokens
  /\ broken \in BOOLEAN /\ orphans \subseteq Apps /\ crossed \in BOOLEAN

LEMMA TypeParts == LinkTypeOK <=> CallersTyped /\ RestTyped
  BY DEF LinkTypeOK, CallersTyped, RestTyped, Request, Locked

\* The session a settings change leaves the hub with.
LEMMA ConfiguredTyped ==
  ASSUME RestTyped, NEW s \in [user : Ids, tok : Tokens, links : SUBSET Apps],
         NEW h \in [user : Ids, tok : Tokens, access : BOOLEAN]
  PROVE  Configured(h, s) \in [user : Ids, tok : Tokens, access : BOOLEAN]
  BY DEF Configured

LEMMA TypeStep == LinkTypeOK /\ [LinkNext]_linkVars => LinkTypeOK'
<1> SUFFICES ASSUME LinkTypeOK, [LinkNext]_linkVars
             PROVE  CallersTyped' /\ RestTyped'
  BY DEF LinkTypeOK, CallersTyped, RestTyped, Request, Locked
<1>t. CallersTyped /\ RestTyped
  BY TypeParts
<1>r. \A c \in Callers : req[c] \in Request /\ step[c] \in Steps
                          /\ req = [req EXCEPT ![c] = req[c]]
  BY <1>t DEF CallersTyped
<1>h. hub.user \in Ids /\ hub.tok \in Tokens /\ saved.links \subseteq Apps
  BY <1>t DEF RestTyped
<1>u. CASE UNCHANGED linkVars
  BY <1>t, <1>u DEF linkVars, CallersTyped, RestTyped
<1>1. ASSUME NEW c \in Callers, StartCall(c)
      PROVE  CallersTyped' /\ RestTyped'
  <2>1. [req[c] EXCEPT !.why = "call"] \in Request
    BY <1>r DEF Request, Reasons
  <2>2. req' = [req EXCEPT ![c] = [req[c] EXCEPT !.why = "call"]]
    BY <1>1 DEF StartCall
  <2>3. CallersTyped'
    BY <1>1, <1>t, <2>1, <2>2, LinkAssumption
    DEF StartCall, Goto, Steps, Locked, CallersTyped
  <2> QED
    BY <1>1, <1>t, <2>3 DEF StartCall, RestTyped
<1>2. ASSUME NEW c \in Callers, NEW a \in Apps, StartLink(c, a)
      PROVE  CallersTyped' /\ RestTyped'
  <2> DEFINE r == [req[c] EXCEPT !.op = "link", !.app = a, !.why = "check"]
  <2>1. r \in Request
    BY <1>r DEF Request, Reasons, Ops
  <2>2. req' = [req EXCEPT ![c] = r]
    BY <1>2 DEF StartLink
  <2>3. \E s \in {"token", "sign"} : step' = [step EXCEPT ![c] = s]
    BY <1>2 DEF StartLink, Goto
  <2>4. CallersTyped'
    BY <1>2, <1>t, <2>1, <2>2, <2>3, LinkAssumption
    DEF StartLink, Steps, Locked, CallersTyped
  <2> QED
    BY <1>2, <1>t, <2>4 DEF StartLink, RestTyped
<1>3. ASSUME NEW c \in Callers, NEW a \in Apps, StartUnlink(c, a)
      PROVE  CallersTyped' /\ RestTyped'
  <2> DEFINE r == [req[c] EXCEPT !.op = "unlink", !.app = a,
                                 !.why = "leave", !.links = saved.links]
  <2>1. r \in Request
    BY <1>r, <1>h DEF Request, Reasons, Ops
  <2>2. req' = [req EXCEPT ![c] = r]
    BY <1>3 DEF StartUnlink
  <2>3. \E s \in {"token", "apply"} : step' = [step EXCEPT ![c] = s]
    BY <1>3 DEF StartUnlink, Goto
  <2>4. CallersTyped'
    BY <1>3, <1>t, <2>1, <2>2, <2>3, LinkAssumption
    DEF StartUnlink, Steps, Locked, CallersTyped
  <2> QED
    BY <1>3, <1>t, <2>4 DEF StartUnlink, RestTyped
<1>4. ASSUME NEW c \in Callers, TokenCached(c)
      PROVE  CallersTyped' /\ RestTyped'
  <2>1. Granted(c, hub.user)
    BY <1>4 DEF TokenCached
  <2>2. CallersTyped'
    BY <1>4, <1>t, <1>h, <2>1, GrantedSteps, LinkAssumption
    DEF TokenCached, Steps, Locked, CallersTyped
  <2> QED
    BY <1>4, <1>t, <2>2 DEF TokenCached, RestTyped
<1>5. ASSUME NEW c \in Callers, TokenMissing(c)
      PROVE  CallersTyped' /\ RestTyped'
  <2>1. CallersTyped'
    BY <1>5, <1>t, <1>r, LinkAssumption
    DEF TokenMissing, Goto, Steps, Locked, CallersTyped
  <2> QED
    BY <1>5, <1>t, <2>1 DEF TokenMissing, RestTyped
<1>6. ASSUME NEW c \in Callers, RefreshLock(c)
      PROVE  CallersTyped' /\ RestTyped'
  <2>1. RestTyped'
    BY <1>6, <1>t DEF RefreshLock, RestTyped
  <2>2. CASE Granted(c, hub.user) /\ UNCHANGED refresher
    BY <1>6, <1>t, <1>h, <2>1, <2>2, GrantedSteps, LinkAssumption
    DEF RefreshLock, Steps, Locked, CallersTyped
  <2>3. CASE Denied(c, FALSE) /\ UNCHANGED refresher
    <3>1. PICK s \in {"idle", "apply", "dead"}, r \in Request :
            /\ step' = [step EXCEPT ![c] = s] /\ req' = [req EXCEPT ![c] = r]
      BY <2>3, DeniedSteps
    <3> QED
      BY <1>6, <1>t, <2>1, <2>3, <3>1, LinkAssumption
      DEF RefreshLock, Steps, Locked, CallersTyped
  <2>4. CASE /\ refresher' = c /\ Goto(c, "sent")
             /\ req' = [req EXCEPT ![c].user = hub.user, ![c].tok = hub.tok]
    <3> DEFINE r == [req[c] EXCEPT !.user = hub.user, !.tok = hub.tok]
    <3>1. r \in Request /\ req' = [req EXCEPT ![c] = r]
      BY <1>r, <1>h, <2>4 DEF Request
    <3> QED
      BY <1>6, <1>t, <2>1, <2>4, <3>1, LinkAssumption
      DEF RefreshLock, Goto, Steps, Locked, CallersTyped
  <2> QED
    BY <1>6, <2>2, <2>3, <2>4 DEF RefreshLock
<1>7. ASSUME NEW c \in Callers, ServerRefresh(c)
      PROVE  CallersTyped' /\ RestTyped'
  <2>1. CASE /\ issued < MaxTokens /\ issued' = issued + 1
             /\ newest' = [newest EXCEPT ![req[c].user] = issued']
             /\ req' = [req EXCEPT ![c].tok = issued'] /\ Goto(c, "answered")
    <3> DEFINE r == [req[c] EXCEPT !.tok = issued']
    <3>1. issued' \in Tokens
      BY <1>t, <2>1, LinkAssumption DEF RestTyped, Tokens
    <3>2. r \in Request /\ req' = [req EXCEPT ![c] = r]
      BY <1>r, <2>1, <3>1 DEF Request
    <3>3. CallersTyped'
      BY <1>7, <1>t, <2>1, <3>2, LinkAssumption
      DEF ServerRefresh, Goto, Steps, Locked, CallersTyped
    <3> QED
      BY <1>7, <1>t, <2>1, <3>1, <3>3 DEF ServerRefresh, RestTyped
  <2>2. CASE /\ Goto(c, "expired") \/ Goto(c, "failed")
             /\ UNCHANGED <<issued, newest, req>>
    <3>1. CallersTyped'
      BY <1>7, <1>t, <1>r, <2>2, LinkAssumption
      DEF ServerRefresh, Goto, Steps, Locked, CallersTyped
    <3> QED
      BY <1>7, <1>t, <2>2, <3>1 DEF ServerRefresh, RestTyped
  <2> QED
    BY <1>7, <2>1, <2>2 DEF ServerRefresh
<1>8. ASSUME NEW c \in Callers, StoreSession(c)
      PROVE  CallersTyped' /\ RestTyped'
  <2>1. CallersTyped'
    BY <1>8, <1>t, <1>r, LinkAssumption
    DEF StoreSession, Goto, Steps, Locked, CallersTyped
  <2> QED
    BY <1>8, <1>t, <1>r, <2>1 DEF StoreSession, RestTyped, Request
<1>9. ASSUME NEW c \in Callers, AnswerLost(c)
      PROVE  CallersTyped' /\ RestTyped'
  <2>1. CallersTyped'
    BY <1>9, <1>t, <1>r, LinkAssumption
    DEF AnswerLost, Goto, Steps, Locked, CallersTyped
  <2> QED
    BY <1>9, <1>t, <2>1 DEF AnswerLost, RestTyped
<1>10. ASSUME NEW c \in Callers, StoreIdentity(c)
      PROVE  CallersTyped' /\ RestTyped'
  <2>1. RestTyped'
    BY <1>10, <1>t, <1>r DEF StoreIdentity, RestTyped, Request
  <2>2. refresher = c /\ refresher' = "free"
    BY <1>10, <1>t DEF StoreIdentity, CallersTyped, Locked
  <2>3. CASE Granted(c, hub.user)
    BY <1>t, <1>h, <2>1, <2>2, <2>3, GrantedSteps, LinkAssumption
    DEF Steps, Locked, CallersTyped
  <2>4. CASE Denied(c, FALSE)
    <3>1. PICK s \in {"idle", "apply", "dead"}, r \in Request :
            /\ step' = [step EXCEPT ![c] = s] /\ req' = [req EXCEPT ![c] = r]
      BY <2>4, DeniedSteps
    <3> QED
      BY <1>t, <2>1, <2>2, <3>1, LinkAssumption
      DEF Steps, Locked, CallersTyped
  <2> QED
    BY <1>10, <2>3, <2>4 DEF StoreIdentity
<1>11. ASSUME NEW c \in Callers, RefreshFails(c)
      PROVE  CallersTyped' /\ RestTyped'
  <2>1. refresher = c /\ refresher' = "free"
    BY <1>11, <1>t DEF RefreshFails, CallersTyped, Locked
  <2>2. Denied(c, TRUE) \/ Denied(c, FALSE)
    BY <1>11 DEF RefreshFails, Denied
  <2>3. PICK s \in {"idle", "apply", "dead"}, r \in Request :
           /\ step' = [step EXCEPT ![c] = s] /\ req' = [req EXCEPT ![c] = r]
    BY <2>2, DeniedSteps
  <2>4. CallersTyped'
    BY <1>t, <2>1, <2>3, LinkAssumption DEF Steps, Locked, CallersTyped
  <2> QED
    BY <1>11, <1>t, <2>4 DEF RefreshFails, RestTyped
<1>12. ASSUME NEW c \in Callers, DropDeadSession(c)
      PROVE  CallersTyped' /\ RestTyped'
  <2>1. CallersTyped'
    BY <1>12, <1>t, <1>r, LinkAssumption
    DEF DropDeadSession, Goto, Steps, Locked, CallersTyped
  <2> QED
    BY <1>12, <1>t, <1>h, <2>1, LinkAssumption
    DEF DropDeadSession, RestTyped, Ids, Tokens
<1>13. ASSUME NEW c \in Callers, EnsureIdentity(c)
      PROVE  CallersTyped' /\ RestTyped'
  <2>1. RestTyped'
    BY <1>13, <1>t DEF EnsureIdentity, RestTyped
  <2>2. \A w \in Reasons : [req[c] EXCEPT !.why = w] \in Request
    BY <1>r DEF Request
  <2>3. CASE /\ Goto(c, "token") /\ UNCHANGED refresher
             /\ req' = [req EXCEPT ![c].why = "join"]
    <3>1. req' = [req EXCEPT ![c] = [req[c] EXCEPT !.why = "join"]]
      BY <2>3
    <3> QED
      BY <1>13, <1>t, <2>1, <2>2, <2>3, <3>1, LinkAssumption
      DEF EnsureIdentity, Goto, Steps, Locked, Reasons, CallersTyped
  <2>4. CASE /\ Goto(c, "signing") /\ refresher' = c
             /\ req' = [req EXCEPT ![c].why = "sign"]
    <3>1. req' = [req EXCEPT ![c] = [req[c] EXCEPT !.why = "sign"]]
      BY <2>4
    <3> QED
      BY <1>13, <1>t, <2>1, <2>2, <2>4, <3>1, LinkAssumption
      DEF EnsureIdentity, Goto, Steps, Locked, Reasons, CallersTyped
  <2> QED
    BY <1>13, <2>3, <2>4 DEF EnsureIdentity
<1>14. ASSUME NEW c \in Callers, ServerSignsIn(c)
      PROVE  CallersTyped' /\ RestTyped'
  <2>1. CASE /\ users < MaxUsers /\ issued < MaxTokens
             /\ users' = users + 1 /\ issued' = issued + 1
             /\ newest' = [newest EXCEPT ![users'] = issued']
             /\ req' = [req EXCEPT ![c].user = users', ![c].tok = issued']
             /\ Goto(c, "answered")
    <3> DEFINE r == [req[c] EXCEPT !.user = users', !.tok = issued']
    <3>1. issued' \in Tokens /\ users' \in Ids
      BY <1>t, <2>1, LinkAssumption DEF RestTyped, Tokens, Ids
    <3>2. r \in Request /\ req' = [req EXCEPT ![c] = r]
      BY <1>r, <2>1, <3>1 DEF Request
    <3>3. CallersTyped'
      BY <1>14, <1>t, <2>1, <3>2, LinkAssumption
      DEF ServerSignsIn, Goto, Steps, Locked, CallersTyped
    <3> QED
      BY <1>14, <1>t, <2>1, <3>1, <3>3 DEF ServerSignsIn, RestTyped
  <2>2. CASE Goto(c, "failed") /\ UNCHANGED <<users, issued, newest, req>>
    <3>1. CallersTyped'
      BY <1>14, <1>t, <1>r, <2>2, LinkAssumption
      DEF ServerSignsIn, Goto, Steps, Locked, CallersTyped
    <3> QED
      BY <1>14, <1>t, <2>2, <3>1 DEF ServerSignsIn, RestTyped
  <2> QED
    BY <1>14, <2>1, <2>2 DEF ServerSignsIn
<1>15. ASSUME NEW c \in Callers, ServerJoins(c)
      PROVE  CallersTyped' /\ RestTyped'
  <2>1. RestTyped'
    BY <1>15, <1>t, <1>r DEF ServerJoins, RestTyped, Request
  <2>2. \/ Goto(c, "apply") /\ UNCHANGED req
        \/ Finish(c)
    BY <1>15 DEF ServerJoins
  <2> QED
    BY <1>15, <1>t, <1>r, <2>1, <2>2, NoRequestTyped, LinkAssumption
    DEF ServerJoins, Finish, Goto, Steps, Locked, CallersTyped
<1>16. ASSUME NEW c \in Callers, ServerLeaves(c)
      PROVE  CallersTyped' /\ RestTyped'
  <2>1. CallersTyped'
    BY <1>16, <1>t, <1>r, LinkAssumption
    DEF ServerLeaves, Goto, Steps, Locked, CallersTyped
  <2> QED
    BY <1>16, <1>t, <2>1 DEF ServerLeaves, RestTyped
<1>17. ASSUME NEW c \in Callers, ApplyLink(c)
      PROVE  CallersTyped' /\ RestTyped'
  <2>1. CallersTyped'
    BY <1>17, <1>t, NoRequestTyped, LinkAssumption
    DEF ApplyLink, Finish, Goto, Steps, Locked, CallersTyped
  <2> DEFINE a == req[c].app
             s == IF req[c].op = "link"
                  THEN [saved EXCEPT !.links = @ \union {a}]
                  ELSE IF req[c].links \subseteq {a}
                       THEN [user |-> 0, tok |-> 0, links |-> saved.links \ {a}]
                       ELSE [saved EXCEPT !.links = @ \ {a}]
  <2>2. /\ saved' = s /\ hub' = Configured(hub, s)
        /\ orphans' = (orphans \ {a}) \intersect s.links
        /\ s \in [user : Ids, tok : Tokens, links : SUBSET Apps]
    <3>1. a \in Apps
      BY <1>r DEF Request
    <3>2. 0 \in Ids /\ 0 \in Tokens
      BY LinkAssumption DEF Ids, Tokens
    <3>3. s \in [user : Ids, tok : Tokens, links : SUBSET Apps]
      BY <1>t, <3>1, <3>2 DEF RestTyped
    <3> QED
      BY <1>17, <3>3 DEF ApplyLink
  <2> HIDE DEF s
  <2>3. hub' \in [user : Ids, tok : Tokens, access : BOOLEAN]
    BY <1>t, <2>2, ConfiguredTyped DEF RestTyped
  <2>4. crossed' \in BOOLEAN
    BY <1>17, <1>t DEF ApplyLink, RestTyped
  <2> QED
    BY <1>17, <1>t, <2>1, <2>2, <2>3, <2>4 DEF ApplyLink, RestTyped
<1>18. CASE RebuildTools
  <2>1. hub' \in [user : Ids, tok : Tokens, access : BOOLEAN]
    BY <1>18, <1>t, ConfiguredTyped DEF RebuildTools, RestTyped
  <2>2. CallersTyped'
    BY <1>18, <1>t DEF RebuildTools, CallersTyped
  <2> QED
    BY <1>18, <1>t, <2>1, <2>2 DEF RebuildTools, RestTyped
<1>19. CASE AccessExpires
  BY <1>19, <1>t DEF AccessExpires, CallersTyped, RestTyped
<1>20. CASE Restart
  <2>1. CallersTyped'
    BY <1>20, <1>t, NoRequestTyped, LinkAssumption
    DEF Restart, CallersTyped, Steps, Locked
  <2>2. [user |-> 0, tok |-> 0, access |-> FALSE]
          \in [user : Ids, tok : Tokens, access : BOOLEAN]
    BY LinkAssumption DEF Ids, Tokens
  <2>3. hub' \in [user : Ids, tok : Tokens, access : BOOLEAN]
    BY <1>20, <1>t, <2>2, ConfiguredTyped DEF Restart, RestTyped
  <2>4. orphans' \subseteq Apps
    BY <1>20, <1>t, <1>r DEF Restart, RestTyped, Request
  <2> QED
    BY <1>20, <1>t, <2>1, <2>3, <2>4 DEF Restart, RestTyped
<1> QED
  BY <1>u, <1>1, <1>2, <1>3, <1>4, <1>5, <1>6, <1>7, <1>8, <1>9, <1>10, <1>11,
     <1>12, <1>13, <1>14, <1>15, <1>16, <1>17, <1>18, <1>19, <1>20
  DEF LinkNext, LinkStep

\* Every state of the sign-in has the types the code gives it, and exactly
\* the caller inside access_token's or ensure_identity's critical section
\* holds the refresh lock.
THEOREM LinkTypeCorrect == LinkSpec => []LinkTypeOK
  BY TypeInit, TypeStep, PTL DEF LinkSpec
----------------------------------------------------------------------------
(* The session.                                                            *)

Rotating(c) == step[c] \in {"answered", "sink"}

\* The server has given u a token that the settings may not have yet.
Overtaken(u) == \E c \in Callers : Rotating(c) /\ req[c].user = u

\* What the hub or the settings hold of a user is the server's latest.
Fresh(u, tok) == u = 0 \/ tok = newest[u] \/ Overtaken(u)

\* The token a caller sends or brings back is the latest.
Holds(c) == /\ req[c].user \in 1 .. MaxUsers
            /\ req[c].tok = newest[req[c].user]

\* Once the hub has a new token, only the settings lag behind; a hub that was
\* pointed elsewhere meanwhile holds another user, and so do the settings.
SinkFollows(c) ==
  \/ hub.user = req[c].user /\ hub.tok = req[c].tok
  \/ hub.user # req[c].user /\ saved.user # req[c].user

SessionInv ==
  /\ \A c \in Callers : step[c] \notin {"expired", "dead"}
  /\ \A c \in Callers :
       step[c] \in {"sent", "answered", "sink"} => Holds(c)
  /\ \A c \in Callers : step[c] = "sink" => SinkFollows(c)
  /\ Fresh(hub.user, hub.tok) /\ Fresh(saved.user, saved.tok)

LEMMA SessionInit == LinkInit => SessionInv
  BY DEF LinkInit, SessionInv, Fresh

\* At most one caller is between the server's answer and the settings.
LEMMA OneRotation ==
  ASSUME LinkTypeOK, NEW c \in Callers, NEW d \in Callers,
         step[c] \in Locked, step[d] \in Locked
  PROVE  c = d /\ refresher = c
  BY DEF LinkTypeOK, Locked

\* A caller that moves outside the critical section, with nothing of the
\* session touched, disturbs nothing.
LEMMA Elsewhere ==
  ASSUME LinkTypeOK, SessionInv, NEW c \in Callers,
         \A d \in Callers \ {c} : step'[d] = step[d] /\ req'[d] = req[d],
         step[c] \notin {"answered", "sink"},
         step'[c] \notin {"sent", "answered", "sink", "expired", "dead"},
         hub' = hub, saved' = saved, newest' = newest
  PROVE  SessionInv'
  BY DEF SessionInv, Fresh, Overtaken, Rotating, Holds, SinkFollows

\* Pointing the hub at the settings.
LEMMA Pointed ==
  ASSUME LinkTypeOK, SessionInv, NEW s,
         s.user = 0 \/ (s.user = saved.user /\ s.tok = saved.tok),
         hub' = Configured(hub, s),
         saved'.user = s.user /\ saved'.tok = s.tok,
         newest' = newest,
         \A d \in Callers :
           \/ step'[d] = step[d] /\ req'[d] = req[d]
           \/ step[d] = "apply" /\ step'[d] = "idle"
  PROVE  SessionInv'
  BY DEF SessionInv, Fresh, Overtaken, Rotating, Holds, SinkFollows, Configured

LEMMA SessionStep ==
  ASSUME LinkTypeOK, SessionInv, [LinkNext]_linkVars, ~broken'
  PROVE  SessionInv'
<1>t. CallersTyped /\ RestTyped
  BY TypeParts
<1>r. \A c \in Callers : req[c] \in Request
  BY <1>t DEF CallersTyped
<1>h. hub.user \in Ids
  BY <1>t DEF RestTyped
<1>u. CASE UNCHANGED linkVars
  BY <1>u
  DEF linkVars, SessionInv, Fresh, Overtaken, Rotating, Holds, SinkFollows
<1>1. ASSUME NEW c \in Callers, StartCall(c) PROVE SessionInv'
  BY <1>1, <1>t, Elsewhere
  DEF StartCall, Goto, CallersTyped
<1>2. ASSUME NEW c \in Callers, NEW a \in Apps, StartLink(c, a)
      PROVE  SessionInv'
  BY <1>2, <1>t, Elsewhere
  DEF StartLink, Goto, CallersTyped
<1>3. ASSUME NEW c \in Callers, NEW a \in Apps, StartUnlink(c, a)
      PROVE  SessionInv'
  BY <1>3, <1>t, Elsewhere
  DEF StartUnlink, Goto, CallersTyped
<1>4. ASSUME NEW c \in Callers, TokenCached(c) PROVE SessionInv'
  <2>1. PICK s \in {"idle", "sign", "token", "join", "leaving"},
             r \in Request :
          /\ step' = [step EXCEPT ![c] = s] /\ req' = [req EXCEPT ![c] = r]
    BY <1>4, <1>h, GrantedSteps DEF TokenCached
  <2> QED
    BY <1>4, <1>t, <2>1, Elsewhere DEF TokenCached, CallersTyped
<1>5. ASSUME NEW c \in Callers, TokenMissing(c) PROVE SessionInv'
  BY <1>5, <1>t, Elsewhere
  DEF TokenMissing, Goto, CallersTyped
<1>6. ASSUME NEW c \in Callers, RefreshLock(c) PROVE SessionInv'
  <2>1. CASE Granted(c, hub.user)
    <3>1. PICK s \in {"idle", "sign", "token", "join", "leaving"},
               r \in Request :
            /\ step' = [step EXCEPT ![c] = s] /\ req' = [req EXCEPT ![c] = r]
      BY <1>h, <2>1, GrantedSteps
    <3> QED
      BY <1>6, <1>t, <3>1, Elsewhere DEF RefreshLock, CallersTyped
  <2>2. CASE Denied(c, FALSE)
    <3>1. PICK s \in {"idle", "apply"}, r \in Request :
            /\ step' = [step EXCEPT ![c] = s] /\ req' = [req EXCEPT ![c] = r]
      BY <2>2, DeniedSteps
    <3> QED
      BY <1>6, <1>t, <3>1, Elsewhere DEF RefreshLock, CallersTyped
  <2>3. CASE /\ refresher = "free" /\ hub.user # 0 /\ Goto(c, "sent")
             /\ req' = [req EXCEPT ![c].user = hub.user, ![c].tok = hub.tok]
    <3>1. \A d \in Callers : step[d] \notin Locked
      BY <1>t, <2>3, LinkAssumption DEF CallersTyped
    <3>2. hub.user \in 1 .. MaxUsers /\ hub.tok = newest[hub.user]
      BY <1>h, <2>3, <3>1, LinkAssumption
      DEF SessionInv, Fresh, Overtaken, Rotating, Locked, Ids
    <3>3. Holds(c)' /\ UNCHANGED <<hub, saved, newest>>
      BY <1>6, <1>t, <1>r, <2>3, <3>2
      DEF RefreshLock, Holds, CallersTyped, Request
    <3> QED
      BY <1>t, <2>3, <3>1, <3>3
      DEF Goto, CallersTyped, Locked, SessionInv, Fresh, Overtaken, Rotating,
          Holds, SinkFollows
  <2> QED
    BY <1>6, <2>1, <2>2, <2>3 DEF RefreshLock
<1>7. ASSUME NEW c \in Callers, ServerRefresh(c) PROVE SessionInv'
  <2>1. Holds(c) /\ step[c] = "sent"
    BY <1>7 DEF ServerRefresh, SessionInv
  <2>2. \A d \in Callers \ {c} : step[d] \notin Locked
    BY <2>1, OneRotation DEF Locked
  <2>3. CASE /\ issued' = issued + 1 /\ Goto(c, "answered")
             /\ newest' = [newest EXCEPT ![req[c].user] = issued']
             /\ req' = [req EXCEPT ![c].tok = issued']
    <3>1. /\ step'[c] = "answered" /\ req'[c].user = req[c].user
          /\ req'[c].tok = issued' /\ newest'[req[c].user] = issued'
          /\ \A u \in 1 .. MaxUsers : u # req[c].user => newest'[u] = newest[u]
          /\ \A d \in Callers \ {c} : step'[d] = step[d] /\ req'[d] = req[d]
          /\ hub' = hub /\ saved' = saved
      BY <1>7, <1>t, <1>r, <2>1, <2>3
      DEF ServerRefresh, Goto, CallersTyped, RestTyped, Holds, Request
    <3>2. Overtaken(req[c].user)'
      BY <3>1 DEF Overtaken, Rotating
    <3>3. ~ \E d \in Callers : Rotating(d)
      BY <2>1, <2>2 DEF Rotating, Locked
    <3>4. Fresh(hub.user, hub.tok)' /\ Fresh(saved.user, saved.tok)'
      BY <1>t, <3>1, <3>2, <3>3, LinkAssumption
      DEF SessionInv, Fresh, Overtaken, RestTyped, Ids
    <3> QED
      BY <2>1, <2>2, <3>1, <3>4 DEF SessionInv, Holds, Locked
  <2>4. CASE Goto(c, "failed") /\ UNCHANGED <<newest, req>>
    BY <1>7, <1>t, <2>1, <2>4, Elsewhere DEF ServerRefresh, Goto, CallersTyped
  <2> QED
    BY <1>7, <2>1, <2>3, <2>4 DEF ServerRefresh, Holds
<1>8. ASSUME NEW c \in Callers, StoreSession(c) PROVE SessionInv'
  <2>1. Holds(c) /\ step[c] = "answered"
    BY <1>8 DEF StoreSession, SessionInv
  <2>2. \A d \in Callers \ {c} : step[d] \notin Locked
    BY <2>1, OneRotation DEF Locked
  <2>3. /\ hub'.user = req[c].user /\ hub'.tok = req[c].tok
        /\ step' = [step EXCEPT ![c] = "sink"]
        /\ UNCHANGED <<saved, newest, req>>
    BY <1>8 DEF StoreSession, Goto
  <2> QED
    BY <1>t, <2>1, <2>2, <2>3
    DEF CallersTyped, SessionInv, Fresh, Overtaken, Rotating, Holds,
        SinkFollows, Locked
<1>9. ASSUME NEW c \in Callers, AnswerLost(c) PROVE SessionInv'
  BY <1>9 DEF AnswerLost
<1>10. ASSUME NEW c \in Callers, StoreIdentity(c) PROVE SessionInv'
  <2>1. Holds(c) /\ SinkFollows(c) /\ step[c] = "sink"
    BY <1>10 DEF StoreIdentity, SessionInv
  <2>2. \A d \in Callers \ {c} : step[d] \notin Locked
    BY <2>1, OneRotation DEF Locked
  <2>3. \E s \in {"idle", "sign", "token", "join", "leaving", "apply"} :
          step' = [step EXCEPT ![c] = s]
    <3>1. CASE Granted(c, hub.user)
      BY <1>h, <3>1, GrantedSteps
    <3>2. CASE Denied(c, FALSE)
      <4>1. PICK s \in {"idle", "apply"} : step' = [step EXCEPT ![c] = s]
        BY <3>2, DeniedSteps
      <4> QED
        BY <4>1
    <3> QED
      BY <1>10, <3>1, <3>2 DEF StoreIdentity
  <2>4. /\ saved'.user = req[c].user /\ saved'.tok = req[c].tok
        /\ UNCHANGED <<hub, newest>>
    BY <1>10, <1>t DEF StoreIdentity, RestTyped
  <2>5. \A d \in Callers : step'[d] \notin Locked \union {"dead"}
    BY <1>t, <2>2, <2>3 DEF CallersTyped, Locked, SessionInv
  <2>6. Fresh(hub.user, hub.tok)' /\ Fresh(saved.user, saved.tok)'
    BY <2>1, <2>2, <2>4
    DEF SessionInv, Fresh, Overtaken, Rotating, Holds, SinkFollows, Locked
  <2> QED
    BY <2>5, <2>6 DEF SessionInv, Locked
<1>11. ASSUME NEW c \in Callers, RefreshFails(c) PROVE SessionInv'
  <2>1. step[c] = "failed"
    BY <1>11 DEF RefreshFails, SessionInv
  <2>2. Denied(c, FALSE)
    BY <1>11, <2>1 DEF RefreshFails, Denied
  <2>3. PICK s \in {"idle", "apply"}, r \in Request :
          /\ step' = [step EXCEPT ![c] = s] /\ req' = [req EXCEPT ![c] = r]
    BY <2>2, DeniedSteps
  <2> QED
    BY <1>11, <1>t, <2>1, <2>3, Elsewhere DEF RefreshFails, CallersTyped
<1>12. ASSUME NEW c \in Callers, DropDeadSession(c) PROVE SessionInv'
  BY <1>12 DEF DropDeadSession, SessionInv
<1>13. ASSUME NEW c \in Callers, EnsureIdentity(c) PROVE SessionInv'
  <2>1. step'[c] \in {"token", "signing"}
    BY <1>13, <1>t DEF EnsureIdentity, Goto, CallersTyped
  <2> QED
    BY <1>13, <1>t, <2>1, Elsewhere DEF EnsureIdentity, Goto, CallersTyped
<1>14. ASSUME NEW c \in Callers, ServerSignsIn(c) PROVE SessionInv'
  <2>1. \A d \in Callers \ {c} : step[d] \notin Locked
    BY <1>14, OneRotation DEF ServerSignsIn, Locked
  <2>2. CASE /\ users < MaxUsers /\ users' = users + 1
             /\ newest' = [newest EXCEPT ![users'] = issued']
             /\ req' = [req EXCEPT ![c].user = users', ![c].tok = issued']
             /\ Goto(c, "answered")
    <3>1. users' \in 1 .. MaxUsers
      BY <1>t, <2>2, LinkAssumption DEF RestTyped, Ids
    <3>2. /\ step'[c] = "answered" /\ req'[c].user = users'
          /\ req'[c].tok = issued' /\ newest'[users'] = issued'
          /\ \A u \in 1 .. MaxUsers : u # users' => newest'[u] = newest[u]
          /\ \A d \in Callers \ {c} : step'[d] = step[d] /\ req'[d] = req[d]
          /\ hub' = hub /\ saved' = saved
      BY <1>14, <1>t, <1>r, <2>2, <3>1
      DEF ServerSignsIn, Goto, CallersTyped, RestTyped, Request
    <3>3. \E d \in Callers : Rotating(d)' /\ req'[d].user = users'
      BY <3>2 DEF Rotating
    <3>4. ~ \E d \in Callers : Rotating(d)
      BY <1>14, <2>1 DEF ServerSignsIn, Rotating, Locked
    <3>5. Fresh(hub.user, hub.tok)' /\ Fresh(saved.user, saved.tok)'
      BY <1>t, <3>2, <3>3, <3>4, LinkAssumption
      DEF SessionInv, Fresh, Overtaken, RestTyped, Ids
    <3> QED
      BY <2>1, <3>1, <3>2, <3>5 DEF SessionInv, Holds, Locked
  <2>3. CASE Goto(c, "failed") /\ UNCHANGED <<newest, req>>
    BY <1>14, <1>t, <2>3, Elsewhere DEF ServerSignsIn, Goto, CallersTyped
  <2> QED
    BY <1>14, <2>2, <2>3 DEF ServerSignsIn
<1>15. ASSUME NEW c \in Callers, ServerJoins(c) PROVE SessionInv'
  <2>1. step'[c] \in {"apply", "idle"}
        /\ \A d \in Callers \ {c} : step'[d] = step[d] /\ req'[d] = req[d]
    BY <1>15, <1>t DEF ServerJoins, Finish, Goto, CallersTyped
  <2> QED
    BY <1>15, <2>1, Elsewhere DEF ServerJoins
<1>16. ASSUME NEW c \in Callers, ServerLeaves(c) PROVE SessionInv'
  BY <1>16, <1>t, Elsewhere
  DEF ServerLeaves, Goto, CallersTyped
<1>17. ASSUME NEW c \in Callers, ApplyLink(c) PROVE SessionInv'
  <2> DEFINE a == req[c].app
             linked == [saved EXCEPT !.links = @ \union {a}]
             forgot == [user |-> 0, tok |-> 0, links |-> saved.links \ {a}]
             unlinked == [saved EXCEPT !.links = @ \ {a}]
             s == IF req[c].op = "link" THEN linked
                  ELSE IF req[c].links \subseteq {a} THEN forgot ELSE unlinked
  <2>1. saved' = s /\ hub' = Configured(hub, s) /\ newest' = newest
    BY <1>17 DEF ApplyLink
  <2>2. s.user = 0 \/ (s.user = saved.user /\ s.tok = saved.tok)
    <3>1. /\ linked.user = saved.user /\ linked.tok = saved.tok
          /\ unlinked.user = saved.user /\ unlinked.tok = saved.tok
      BY <1>t DEF RestTyped
    <3>2. forgot.user = 0
      OBVIOUS
    <3>3. s = linked \/ s = forgot \/ s = unlinked
      OBVIOUS
    <3> HIDE DEF linked, forgot, unlinked, s
    <3> QED
      BY <3>1, <3>2, <3>3
  <2>3. \A d \in Callers : \/ step'[d] = step[d] /\ req'[d] = req[d]
                           \/ step[d] = "apply" /\ step'[d] = "idle"
    BY <1>17, <1>t DEF ApplyLink, Finish, Goto, CallersTyped
  <2> HIDE DEF s
  <2> QED
    BY <2>1, <2>2, <2>3, Pointed
<1>18. CASE RebuildTools
  BY <1>18, Pointed DEF RebuildTools
<1>19. CASE AccessExpires
  <2>1. hub'.user = hub.user /\ hub'.tok = hub.tok
        /\ UNCHANGED <<saved, newest, step, req>>
    BY <1>19, <1>t DEF AccessExpires, RestTyped
  <2> QED
    BY <2>1 DEF SessionInv, Fresh, Overtaken, Rotating, Holds, SinkFollows
<1>20. CASE Restart
  <2>1. ~ \E d \in Callers : Rotating(d)
    BY <1>20 DEF Restart, Rotating
  <2>2. \A d \in Callers : step'[d] = "idle"
    BY <1>20 DEF Restart
  <2>3. /\ hub'.user = saved.user /\ hub'.tok = saved.tok
        /\ UNCHANGED <<saved, newest>>
    BY <1>20 DEF Restart, Configured
  <2> QED
    BY <2>1, <2>2, <2>3 DEF SessionInv, Fresh, Overtaken
<1> QED
  BY <1>u, <1>1, <1>2, <1>3, <1>4, <1>5, <1>6, <1>7, <1>8, <1>9, <1>10, <1>11,
     <1>12, <1>13, <1>14, <1>15, <1>16, <1>17, <1>18, <1>19, <1>20
  DEF LinkNext, LinkStep

\* A lost rotation stays lost.
LEMMA BrokenForGood ==
  ASSUME [LinkNext]_linkVars, broken = TRUE
  PROVE  broken' = TRUE
<1>1. CASE UNCHANGED linkVars
  BY <1>1 DEF linkVars
<1>2. ASSUME NEW c \in Callers, NEW a \in Apps,
             StartCall(c) \/ StartLink(c, a) \/ StartUnlink(c, a)
      PROVE  broken' = TRUE
  BY <1>2 DEF StartCall, StartLink, StartUnlink
<1>3. ASSUME NEW c \in Callers, LinkStep(c) PROVE broken' = TRUE
  <2>1. CASE TokenCached(c) \/ TokenMissing(c) \/ RefreshLock(c)
    BY <2>1 DEF TokenCached, TokenMissing, RefreshLock
  <2>2. CASE ServerRefresh(c) \/ StoreSession(c) \/ AnswerLost(c)
    BY <2>2 DEF ServerRefresh, StoreSession, AnswerLost
  <2>3. CASE StoreIdentity(c) \/ RefreshFails(c) \/ DropDeadSession(c)
    BY <2>3 DEF StoreIdentity, RefreshFails, DropDeadSession
  <2>4. CASE EnsureIdentity(c) \/ ServerSignsIn(c) \/ ServerJoins(c)
    BY <2>4 DEF EnsureIdentity, ServerSignsIn, ServerJoins
  <2>5. CASE ServerLeaves(c) \/ ApplyLink(c)
    BY <2>5 DEF ServerLeaves, ApplyLink
  <2> QED
    BY <1>3, <2>1, <2>2, <2>3, <2>4, <2>5 DEF LinkStep
<1>4. CASE RebuildTools \/ AccessExpires \/ Restart
  BY <1>4 DEF RebuildTools, AccessExpires, Restart
<1> QED
  BY <1>1, <1>2, <1>3, <1>4, LinkAssumption DEF LinkNext

Kept == ~broken => SessionInv

\* The inductive invariant behind the session, in every reachable state.
THEOREM Invariance == LinkSpec => [](LinkTypeOK /\ Kept)
<1>1. LinkInit => LinkTypeOK /\ Kept
  BY TypeInit, SessionInit DEF Kept
<1>2. LinkTypeOK /\ Kept /\ [LinkNext]_linkVars => (LinkTypeOK /\ Kept)'
  <2> SUFFICES ASSUME LinkTypeOK, Kept, [LinkNext]_linkVars
               PROVE  LinkTypeOK' /\ (~broken' => SessionInv')
    BY DEF Kept
  <2>1. ~broken' => ~broken
    BY BrokenForGood DEF LinkTypeOK
  <2> QED
    BY <2>1, TypeStep, SessionStep DEF Kept
<1> QED
  BY <1>1, <1>2, PTL DEF LinkSpec

\* The Core never ends its own session with the apps' server: whatever calls,
\* links, unlinks, settings changes, failures and restarts come in between,
\* while no rotation was lost on its way the settings hold the latest token
\* once a refresh is over, and no spent token is ever sent.
THEOREM SessionAlwaysSurvives == LinkSpec => []SessionSurvives
<1>1. LinkTypeOK /\ Kept => SessionSurvives
  <2> SUFFICES ASSUME LinkTypeOK, SessionInv PROVE SessionSurvives
    BY DEF Kept, SessionSurvives
  <2>1. refresher = "free" => ~ \E c \in Callers : Rotating(c)
    BY LinkAssumption DEF LinkTypeOK, Rotating
  <2> QED
    BY <2>1 DEF SessionInv, SessionSurvives, Fresh, Overtaken, Holds
<1> QED
  BY <1>1, Invariance, PTL

----------------------------------------------------------------------------
(* A linked app is usable.                                                 *)

\* What a caller is about follows from where it is, and where it may be from
\* what it is about.
Path(c) ==
  /\ req[c].op = "link" <=> req[c].why \in {"check", "sign", "join"}
  /\ req[c].op = "unlink" <=> req[c].why = "leave"
  /\ step[c] = "idle" => req[c].why = "call"
  /\ step[c] \in {"sign", "dead"} => req[c].why = "check"
  /\ step[c] = "signing" => req[c].why = "sign"
  /\ step[c] = "join" => req[c].why = "join"
  /\ step[c] = "leaving" => req[c].why = "leave"
  /\ step[c] = "apply" => req[c].why \in {"join", "leave"}
  /\ req[c].why = "sign" =>
       step[c] \in {"signing", "answered", "sink", "failed"}

PathInv == \A c \in Callers : Path(c)

\* With no sign-in or refresh on its way to the settings, the hub has nobody's
\* session or that of the identity in them.  Without an identity no app is
\* linked; without a session every link is one that was cut off.
HubInv ==
  /\ saved.user = 0 => saved.links = {}
  /\ hub.user = 0 => saved.links \subseteq orphans
  /\ (\A c \in Callers : step[c] # "sink") => hub.user \in {0, saved.user}

\* A refresh is of the identity in the settings, unless that was forgotten
\* meanwhile; a sign-in is under way only when every link is cut off; and one
\* that is joining joins the user the settings name.
CallerInv(c) ==
  /\ step[c] \in {"sent", "answered", "sink"} =>
       /\ req[c].user # 0
       /\ req[c].why # "sign" => saved.user \in {0, req[c].user}
  /\ step[c] = "sink" =>
       hub.user = req[c].user \/ (hub.user = 0 /\ req[c].why # "sign")
  /\ req[c].why = "sign" => saved.links \subseteq orphans
  /\ req[c].why = "join" => hub.user # 0 /\ hub.user = saved.user
  /\ step[c] = "join" => req[c].user = saved.user
  /\ step[c] = "apply" /\ req[c].why = "join" =>
       <<req[c].app, saved.user>> \in joined

\* Nobody signs in while somebody joins.
OneIdentity ==
  \A c, d \in Callers : req[c].why = "join" => req[d].why # "sign"

Leaving(a) ==
  \E c \in Callers : step[c] = "apply" /\ req[c].why = "leave" /\ req[c].app = a

\* A link that was not cut off is one of the identity's households, or about to
\* be taken away.
MemberInv ==
  \A a \in saved.links \ orphans : <<a, saved.user>> \in joined \/ Leaving(a)

Usable ==
  /\ HubInv /\ OneIdentity /\ MemberInv
  /\ \A c \in Callers : CallerInv(c)

UsableInv == ~crossed => Usable

\* A step of one caller.
OnlyMoves(c) ==
  \A d \in Callers \ {c} : step'[d] = step[d] /\ req'[d] = req[d]

\* A caller that is done.
LEMMA FinishMoves ==
  ASSUME LinkTypeOK, NEW c \in Callers, Finish(c)
  PROVE  /\ OnlyMoves(c) /\ step'[c] = "idle" /\ req'[c] = NoRequest
         /\ NoRequest.op = "call" /\ NoRequest.why = "call"
  BY DEF Finish, Goto, NoRequest, LinkTypeOK, OnlyMoves

\* Where a granted access token takes its caller.
LEMMA GrantedMoves ==
  ASSUME LinkTypeOK, NEW c \in Callers, NEW u, Granted(c, u)
  PROVE  /\ OnlyMoves(c)
         /\ \/ /\ req[c].why = "call"
               /\ step'[c] = "idle" /\ req'[c] = NoRequest
            \/ /\ req[c].why = "check"
               /\ step'[c] = "sign" /\ req'[c] = req[c]
            \/ /\ req[c].why = "sign" /\ step'[c] = "token"
               /\ req'[c] = [req[c] EXCEPT !.why = "join"]
            \/ /\ req[c].why = "join" /\ step'[c] = "join"
               /\ req'[c] = [req[c] EXCEPT !.user = u]
            \/ /\ req[c].why = "leave" /\ step'[c] = "leaving"
               /\ req'[c] = [req[c] EXCEPT !.user = u]
<1>1. req[c].why \in Reasons
  BY DEF LinkTypeOK
<1>2. CASE req[c].why \in {"call", "check"}
  BY <1>2 DEF Granted, Finish, Goto, LinkTypeOK, OnlyMoves
<1>3. CASE req[c].why = "sign"
  BY <1>3 DEF Granted, Goto, LinkTypeOK, OnlyMoves
<1>4. CASE req[c].why \in {"join", "leave"}
  BY <1>4 DEF Granted, Goto, LinkTypeOK, OnlyMoves
<1> QED
  BY <1>1, <1>2, <1>3, <1>4 DEF Reasons

\* Where a denied one leaves it.
LEMMA DeniedMoves ==
  ASSUME LinkTypeOK, NEW c \in Callers, NEW expired, Denied(c, expired)
  PROVE  /\ OnlyMoves(c)
         /\ \/ /\ req[c].why = "leave"
               /\ step'[c] = "apply" /\ req'[c] = req[c]
            \/ /\ req[c].why = "check"
               /\ step'[c] = "dead" /\ req'[c] = req[c]
            \/ /\ req[c].why # "leave"
               /\ step'[c] = "idle" /\ req'[c] = NoRequest
<1>1. CASE req[c].why = "leave"
  BY <1>1 DEF Denied, Goto, LinkTypeOK, OnlyMoves
<1>2. CASE req[c].why = "check" /\ expired
  BY <1>2 DEF Denied, Goto, LinkTypeOK, OnlyMoves
<1>3. CASE req[c].why # "leave" /\ ~(req[c].why = "check" /\ expired)
  BY <1>3 DEF Denied, Finish, Goto, LinkTypeOK, OnlyMoves
<1> QED
  BY <1>1, <1>2, <1>3

\* Every move of a caller, with the rest of what the proof needs about it.
LEMMA PathStep == LinkTypeOK /\ PathInv /\ [LinkNext]_linkVars => PathInv'
<1> SUFFICES ASSUME LinkTypeOK, PathInv, [LinkNext]_linkVars PROVE PathInv'
  OBVIOUS
<1>0. ASSUME NEW c \in Callers, Path(c)',
             OnlyMoves(c)
      PROVE  PathInv'
  BY <1>0 DEF PathInv, Path, OnlyMoves
<1>g. ASSUME NEW c \in Callers, NEW u, Granted(c, u), step[c] # "apply"
      PROVE  PathInv'
  <2>1. NoRequest.op = "call" /\ NoRequest.why = "call"
    BY DEF NoRequest
  <2>2. req[c] \in Request /\ Path(c)
    BY DEF LinkTypeOK, Request, PathInv
  <2>3. Path(c)'
    BY <1>g, <2>1, <2>2, GrantedMoves DEF Path, Request
  <2> QED
    BY <1>0, <1>g, <2>3, GrantedMoves
<1>d. ASSUME NEW c \in Callers, NEW e, Denied(c, e)
      PROVE  PathInv'
  <2>1. NoRequest.op = "call" /\ NoRequest.why = "call"
    BY DEF NoRequest
  <2>2. Path(c)'
    BY <1>d, <2>1, DeniedMoves DEF PathInv, Path
  <2> QED
    BY <1>0, <1>d, <2>2, DeniedMoves
<1>1. ASSUME NEW c \in Callers, NEW a \in Apps,
             StartCall(c) \/ StartLink(c, a) \/ StartUnlink(c, a)
      PROVE  PathInv'
  <2>1. CASE StartCall(c)
    <3>1. Path(c)' /\ OnlyMoves(c)
      BY <2>1 DEF StartCall, Goto, PathInv, Path, LinkTypeOK, OnlyMoves
    <3> QED
      BY <3>1, <1>0
  <2>2. CASE StartLink(c, a)
    <3>1. Path(c)' /\ OnlyMoves(c)
      BY <2>2 DEF StartLink, Goto, PathInv, Path, LinkTypeOK, OnlyMoves
    <3> QED
      BY <3>1, <1>0
  <2>3. CASE StartUnlink(c, a)
    <3>1. Path(c)' /\ OnlyMoves(c)
      BY <2>3 DEF StartUnlink, Goto, PathInv, Path, LinkTypeOK, OnlyMoves
    <3> QED
      BY <3>1, <1>0
  <2> QED
    BY <1>1, <2>1, <2>2, <2>3
<1>2. ASSUME NEW c \in Callers, LinkStep(c)
      PROVE  PathInv'
  <2>1. CASE TokenCached(c) \/ StoreIdentity(c) \/ RefreshFails(c)
    BY <2>1, <1>g, <1>d DEF TokenCached, StoreIdentity, RefreshFails
  <2>2. CASE RefreshLock(c)
    <3>1. CASE /\ Goto(c, "sent")
               /\ req' = [req EXCEPT ![c].user = hub.user, ![c].tok = hub.tok]
      <4>1. Path(c)' /\ OnlyMoves(c)
        BY <2>2, <3>1
        DEF RefreshLock, Goto, PathInv, Path, LinkTypeOK, OnlyMoves
      <4> QED
        BY <4>1, <1>0
    <3> QED
      BY <2>2, <3>1, <1>g, <1>d DEF RefreshLock
  <2>3. CASE \/ TokenMissing(c) \/ StoreSession(c)
             \/ AnswerLost(c) \/ ServerLeaves(c)
    <3>1. Path(c)' /\ OnlyMoves(c)
      BY <2>3 DEF TokenMissing, StoreSession, AnswerLost, ServerLeaves, Goto,
        PathInv, Path, LinkTypeOK, OnlyMoves
    <3> QED
      BY <3>1, <1>0
  <2>4. CASE ServerRefresh(c)
    <3>1. Path(c)' /\ OnlyMoves(c)
      BY <2>4 DEF ServerRefresh, Goto, PathInv, Path, LinkTypeOK, OnlyMoves
    <3> QED
      BY <3>1, <1>0
  <2>5. CASE DropDeadSession(c) \/ EnsureIdentity(c)
    <3>1. Path(c)' /\ OnlyMoves(c)
      BY <2>5
      DEF DropDeadSession, EnsureIdentity, Goto, PathInv, Path, LinkTypeOK,
        OnlyMoves
    <3> QED
      BY <3>1, <1>0
  <2>6. CASE ServerSignsIn(c)
    <3>1. Path(c)' /\ OnlyMoves(c)
      BY <2>6 DEF ServerSignsIn, Goto, PathInv, Path, LinkTypeOK, OnlyMoves
    <3> QED
      BY <3>1, <1>0
  <2>7. CASE ServerJoins(c) \/ ApplyLink(c)
    <3>1. CASE Finish(c)
      <4>1. Path(c)'
        BY <3>1, FinishMoves DEF Path
      <4> QED
        BY <3>1, <4>1, <1>0, FinishMoves
    <3>2. CASE ServerJoins(c) /\ ~Finish(c)
      <4>1. Path(c)' /\ OnlyMoves(c)
        BY <3>2 DEF ServerJoins, Goto, PathInv, Path, LinkTypeOK, OnlyMoves
      <4> QED
        BY <4>1, <1>0
    <3> QED
      BY <2>7, <3>1, <3>2 DEF ApplyLink
  <2> QED
    BY <1>2, <2>1, <2>2, <2>3, <2>4, <2>5, <2>6, <2>7 DEF LinkStep
<1>3. CASE RebuildTools \/ AccessExpires \/ UNCHANGED linkVars
  BY <1>3 DEF RebuildTools, AccessExpires, linkVars, PathInv, Path
<1>4. CASE Restart
  BY <1>4 DEF Restart, PathInv, Path, NoRequest
<1> QED
  BY <1>1, <1>2, <1>3, <1>4, LinkAssumption DEF LinkNext

\* What was crossed stays crossed.
LEMMA CrossedForGood ==
  ASSUME [LinkNext]_linkVars, crossed = TRUE
  PROVE  crossed' = TRUE
<1>1. CASE UNCHANGED linkVars
  BY <1>1 DEF linkVars
<1>2. ASSUME NEW c \in Callers, NEW a \in Apps,
             StartCall(c) \/ StartLink(c, a) \/ StartUnlink(c, a)
      PROVE  crossed' = TRUE
  BY <1>2 DEF StartCall, StartLink, StartUnlink
<1>3. ASSUME NEW c \in Callers, LinkStep(c) PROVE crossed' = TRUE
  <2>1. CASE TokenCached(c) \/ TokenMissing(c) \/ RefreshLock(c)
    BY <2>1 DEF TokenCached, TokenMissing, RefreshLock
  <2>2. CASE ServerRefresh(c) \/ StoreSession(c) \/ AnswerLost(c)
    BY <2>2 DEF ServerRefresh, StoreSession, AnswerLost
  <2>3. CASE StoreIdentity(c) \/ RefreshFails(c) \/ DropDeadSession(c)
    BY <2>3 DEF StoreIdentity, RefreshFails, DropDeadSession
  <2>4. CASE EnsureIdentity(c) \/ ServerSignsIn(c) \/ ServerJoins(c)
    BY <2>4 DEF EnsureIdentity, ServerSignsIn, ServerJoins
  <2>5. CASE ServerLeaves(c) \/ ApplyLink(c)
    BY <2>5 DEF ServerLeaves, ApplyLink
  <2> QED
    BY <1>3, <2>1, <2>2, <2>3, <2>4, <2>5 DEF LinkStep
<1>4. CASE RebuildTools \/ AccessExpires \/ Restart
  BY <1>4 DEF RebuildTools, AccessExpires, Restart
<1> QED
  BY <1>1, <1>2, <1>3, <1>4, LinkAssumption DEF LinkNext

\* A step of one caller that touches no identity, link or membership, other than
\* to add one.
LEMMA CallerMoves ==
  ASSUME PathInv, Usable, NEW c \in Callers, OnlyMoves(c), CallerInv(c)',
         hub'.user = hub.user, saved' = saved, orphans' = orphans,
         joined \subseteq joined',
         step[c] # "sink", step'[c] # "sink",
         ~(step[c] = "apply" /\ req[c].why = "leave"),
         req'[c].why = "join" =>
           req[c].why = "join" \/ \A d \in Callers : req[d].why # "sign",
         req'[c].why = "sign" => \A d \in Callers \ {c} : req[d].why # "join"
  PROVE  Usable'
<1>1. HubInv'
  BY DEF Usable, HubInv, OnlyMoves
<1>2. OneIdentity'
  BY DEF Usable, OneIdentity, OnlyMoves
<1>3. MemberInv'
  <2> SUFFICES ASSUME NEW a \in saved.links \ orphans
               PROVE  <<a, saved.user>> \in joined \/ Leaving(a)'
    BY DEF MemberInv
  <2>1. Leaving(a) => Leaving(a)'
    BY DEF Leaving, OnlyMoves
  <2> QED
    BY <2>1 DEF Usable, MemberInv
<1>4. ASSUME NEW d \in Callers PROVE CallerInv(d)'
  <2>1. CASE d # c
    BY <2>1 DEF Usable, CallerInv, OnlyMoves
  <2> QED
    BY <2>1
<1> QED
  BY <1>1, <1>2, <1>3, <1>4 DEF Usable

\* Such a step that goes where a granted token takes it, or a denied one.
LEMMA TokenMoves ==
  ASSUME LinkTypeOK, PathInv, Usable, NEW c \in Callers,
         step[c] \in {"token", "lock", "expired", "failed"},
         \/ Granted(c, hub.user) /\ step[c] \in {"token", "lock"}
         \/ Denied(c, TRUE) \/ Denied(c, FALSE),
         UNCHANGED <<hub, saved, orphans, joined>>
  PROVE  Usable'
<1>0. Path(c) /\ CallerInv(c) /\ req[c] \in Request
  BY DEF PathInv, Usable, LinkTypeOK, Request
<1>n. NoRequest.why = "call"
  BY DEF NoRequest
<1>1. OnlyMoves(c) /\ CallerInv(c)' /\ step'[c] # "sink"
      /\ (req'[c].why = "join" => req[c].why = "join") /\ req'[c].why # "sign"
  <2>1. CASE Granted(c, hub.user) /\ step[c] \in {"token", "lock"}
    <3>1. req[c].why # "sign"
      BY <1>0, <2>1 DEF Path
    <3>2. OnlyMoves(c)
      BY <2>1, GrantedMoves
    <3>3. CASE req[c].why \in {"call", "check"}
      <4>1. step'[c] \in {"idle", "sign"} /\ req'[c].why \in {"call", "check"}
        BY <1>n, <2>1, <3>3, GrantedMoves
      <4> QED
        BY <3>2, <4>1 DEF CallerInv
    <3>4. CASE req[c].why = "leave"
      <4>1. step'[c] = "leaving" /\ req'[c].why = "leave"
        BY <1>0, <2>1, <3>4, GrantedMoves DEF Request
      <4> QED
        BY <3>2, <4>1 DEF CallerInv
    <3>5. CASE req[c].why = "join"
      <4>1. /\ step'[c] = "join" /\ req'[c].why = "join"
            /\ req'[c].user = hub.user
        <5>1. /\ step'[c] = "join"
              /\ req'[c] = [req[c] EXCEPT !.user = hub.user]
          BY <2>1, <3>5, GrantedMoves
        <5> QED
          BY <1>0, <3>5, <5>1 DEF Request
      <4>2. hub.user # 0 /\ hub.user = saved.user
        BY <1>0, <3>5 DEF CallerInv
      <4> QED
        BY <3>2, <3>5, <4>1, <4>2 DEF CallerInv
    <3> QED
      BY <1>0, <3>1, <3>3, <3>4, <3>5 DEF Request, Reasons
  <2>2. CASE Denied(c, TRUE) \/ Denied(c, FALSE)
    <3>1. PICK e \in BOOLEAN : Denied(c, e)
      BY <2>2
    <3> QED
      BY <1>0, <1>n, <3>1, DeniedMoves DEF CallerInv
  <2> QED
    BY <2>1, <2>2
<1> QED
  BY <1>1, CallerMoves

\* The steps of a caller that leave the identity alone.
LEMMA QuietUsable ==
  ASSUME LinkTypeOK, PathInv, Usable, NEW c \in Callers,
         \/ StartCall(c) \/ \E a \in Apps : StartLink(c, a) \/ StartUnlink(c, a)
         \/ TokenCached(c) \/ TokenMissing(c) \/ RefreshLock(c)
         \/ ServerRefresh(c) \/ AnswerLost(c) \/ RefreshFails(c)
         \/ EnsureIdentity(c) \/ ServerSignsIn(c) \/ ServerJoins(c)
  PROVE  Usable'
<1>0. Path(c) /\ CallerInv(c) /\ req[c] \in Request
  BY DEF PathInv, Usable, LinkTypeOK, Request
<1>f. refresher = "free" =>
        /\ hub.user \in {0, saved.user}
        /\ \A d \in Callers : req[d].why # "sign"
  BY LinkAssumption DEF LinkTypeOK, PathInv, Path, Usable, HubInv
<1>1. ASSUME NEW a \in Apps,
             StartCall(c) \/ StartLink(c, a) \/ StartUnlink(c, a)
      PROVE  Usable'
  <2>1. OnlyMoves(c) /\ UNCHANGED <<hub, saved, orphans, joined>>
    BY <1>1 DEF StartCall, StartLink, StartUnlink, Goto, LinkTypeOK, OnlyMoves
  <2>2. /\ step[c] = "idle" /\ step'[c] \in {"token", "sign", "apply"}
        /\ req'[c].why \in {"call", "check", "leave"}
    <3>1. CASE StartCall(c)
      BY <3>1 DEF StartCall, Goto, LinkTypeOK
    <3>2. CASE StartLink(c, a)
      <4>1. req' = [req EXCEPT ![c] = [req[c] EXCEPT !.op = "link", !.app = a,
                                                    !.why = "check"]]
        BY <3>2 DEF StartLink
      <4>2. req'[c].why = "check"
        BY <1>0, <4>1 DEF LinkTypeOK, Request
      <4>3. \/ step' = [step EXCEPT ![c] = "token"]
            \/ step' = [step EXCEPT ![c] = "sign"]
        BY <3>2 DEF StartLink, Goto
      <4> QED
        BY <3>2, <4>2, <4>3 DEF StartLink, LinkTypeOK
    <3>3. CASE StartUnlink(c, a)
      <4>1. req' = [req EXCEPT ![c] = [req[c] EXCEPT !.op = "unlink", !.app = a,
                                                    !.why = "leave",
                                                    !.links = saved.links]]
        BY <3>3 DEF StartUnlink
      <4>2. req'[c].why = "leave"
        BY <1>0, <4>1 DEF LinkTypeOK, Request
      <4>3. \/ step' = [step EXCEPT ![c] = "token"]
            \/ step' = [step EXCEPT ![c] = "apply"]
        BY <3>3 DEF StartUnlink, Goto
      <4> QED
        BY <3>3, <4>2, <4>3 DEF StartUnlink, LinkTypeOK
    <3> QED
      BY <1>1, <3>1, <3>2, <3>3
  <2>3. CallerInv(c)'
    BY <2>2 DEF CallerInv
  <2> QED
    BY <2>1, <2>2, <2>3, CallerMoves
<1>2. CASE TokenCached(c) \/ RefreshFails(c)
  BY <1>2, TokenMoves DEF TokenCached, RefreshFails, Denied
<1>3. CASE RefreshLock(c)
  <2>1. CASE /\ Goto(c, "sent") /\ hub.user # 0
             /\ req' = [req EXCEPT ![c].user = hub.user, ![c].tok = hub.tok]
    <3>1. OnlyMoves(c) /\ UNCHANGED <<hub, saved, orphans, joined>>
      BY <1>3, <2>1 DEF RefreshLock, Goto, LinkTypeOK, OnlyMoves
    <3>2. /\ step'[c] = "sent" /\ req'[c].user = hub.user
          /\ req'[c].why = req[c].why
      BY <2>1 DEF Goto, LinkTypeOK
    <3>3. step[c] = "lock" /\ hub.user = saved.user
      BY <1>3, <1>f, <2>1 DEF RefreshLock
    <3>4. req[c].why # "sign"
      BY <1>0, <3>3 DEF Path
    <3>5. CallerInv(c)'
      BY <1>0, <2>1, <3>1, <3>2, <3>3, <3>4 DEF CallerInv
    <3> QED
      BY <3>1, <3>2, <3>3, <3>4, <3>5, CallerMoves
  <2> QED
    BY <1>3, <2>1, TokenMoves DEF RefreshLock
<1>4. CASE TokenMissing(c) \/ AnswerLost(c)
  <2>1. /\ OnlyMoves(c) /\ UNCHANGED <<hub, saved, orphans, joined, req>>
        /\ step'[c] \in {"lock", "failed"} /\ step[c] \in {"token", "answered"}
    BY <1>4 DEF TokenMissing, AnswerLost, Goto, LinkTypeOK, OnlyMoves
  <2>2. CallerInv(c)'
    BY <1>0, <2>1 DEF CallerInv
  <2>3. req[c].why = "sign" => \A d \in Callers \ {c} : req[d].why # "join"
    BY DEF Usable, OneIdentity
  <2> QED
    BY <2>1, <2>2, <2>3, CallerMoves
<1>5. CASE ServerRefresh(c)
  <2>1. /\ OnlyMoves(c) /\ UNCHANGED <<hub, saved, orphans, joined>>
        /\ step[c] = "sent" /\ step'[c] \in {"answered", "expired", "failed"}
        /\ req'[c].why = req[c].why /\ req'[c].user = req[c].user
    BY <1>5 DEF ServerRefresh, Goto, LinkTypeOK, OnlyMoves
  <2>2. CallerInv(c)' /\ req[c].why # "sign"
    BY <1>0, <2>1 DEF CallerInv, Path
  <2> QED
    BY <2>1, <2>2, CallerMoves
<1>6. CASE EnsureIdentity(c)
  <2>1. /\ OnlyMoves(c) /\ UNCHANGED <<hub, saved, orphans, joined>>
        /\ step[c] = "sign" /\ refresher = "free"
    BY <1>6 DEF EnsureIdentity, Goto, LinkTypeOK, OnlyMoves
  <2>2. CASE hub.user # 0
    <3>1. step'[c] = "token" /\ req'[c].why = "join"
      BY <1>6, <2>2 DEF EnsureIdentity, Goto, LinkTypeOK
    <3>2. CallerInv(c)'
      BY <1>f, <2>1, <2>2, <3>1 DEF CallerInv
    <3> QED
      BY <1>f, <2>1, <3>1, <3>2, CallerMoves
  <2>3. CASE hub.user = 0
    <3>1. step'[c] = "signing" /\ req'[c].why = "sign"
      BY <1>6, <2>3 DEF EnsureIdentity, Goto, LinkTypeOK
    <3>2. CallerInv(c)'
      BY <2>1, <2>3, <3>1 DEF CallerInv, Usable, HubInv
    <3>3. \A d \in Callers : req[d].why # "join"
      BY <2>3 DEF Usable, CallerInv
    <3> QED
      BY <2>1, <3>1, <3>2, <3>3, CallerMoves
  <2> QED
    BY <2>2, <2>3
<1>7. CASE ServerSignsIn(c)
  <2>1. /\ OnlyMoves(c) /\ UNCHANGED <<hub, saved, orphans, joined>>
        /\ step[c] = "signing" /\ step'[c] \in {"answered", "failed"}
        /\ req'[c].why = req[c].why
        /\ step'[c] = "answered" => req'[c].user = users + 1
    BY <1>7 DEF ServerSignsIn, Goto, LinkTypeOK, OnlyMoves
  <2>2. users + 1 # 0
    BY LinkAssumption DEF LinkTypeOK, Ids
  <2>3. req[c].why = "sign" /\ \A d \in Callers : req[d].why # "join"
    BY <1>0, <2>1 DEF Path, Usable, OneIdentity
  <2>4. CallerInv(c)'
    BY <1>0, <2>1, <2>2, <2>3 DEF CallerInv
  <2> QED
    BY <2>1, <2>3, <2>4, CallerMoves
<1>8. CASE ServerJoins(c)
  <2>1. /\ UNCHANGED <<hub, saved, orphans>> /\ joined \subseteq joined'
        /\ step[c] = "join"
    BY <1>8 DEF ServerJoins
  <2>2. CASE Finish(c)
    <3>1. CallerInv(c)'
      BY <2>2, FinishMoves DEF CallerInv
    <3> QED
      BY <1>0, <2>1, <2>2, <3>1, FinishMoves, CallerMoves
  <2>3. CASE ~Finish(c)
    <3>1. /\ OnlyMoves(c) /\ step'[c] = "apply" /\ req' = req
          /\ <<req[c].app, req[c].user>> \in joined'
      BY <1>8, <2>3 DEF ServerJoins, Goto, LinkTypeOK, OnlyMoves
    <3>2. CallerInv(c)' /\ req[c].why = "join"
      BY <1>0, <2>1, <3>1 DEF CallerInv, Path
    <3> QED
      BY <2>1, <3>1, <3>2, CallerMoves
  <2> QED
    BY <2>2, <2>3
<1> QED
  BY <1>1, <1>2, <1>3, <1>4, <1>5, <1>6, <1>7, <1>8, LinkAssumption

\* store_session: the hub takes the session of the identity in the settings, or
\* of a new one.
LEMMA SessionUsable ==
  ASSUME LinkTypeOK, PathInv, Usable, NEW c \in Callers, StoreSession(c)
  PROVE  Usable'
<1>1. /\ OnlyMoves(c) /\ UNCHANGED <<saved, orphans, joined, req>>
      /\ step[c] = "answered" /\ step'[c] = "sink"
      /\ hub'.user = req[c].user
  BY DEF StoreSession, Goto, LinkTypeOK, OnlyMoves
<1>2. /\ req[c].user # 0
      /\ req[c].why # "sign" => saved.user \in {0, req[c].user}
  BY <1>1 DEF Usable, CallerInv
<1>3. \A d \in Callers \ {c} : step[d] \notin Locked
  BY <1>1 DEF LinkTypeOK, Locked
<1>4. \A d \in Callers : req[d].why = "join" => hub'.user = saved.user
  BY <1>1, <1>2 DEF Usable, CallerInv, OneIdentity
<1>5. HubInv' /\ OneIdentity' /\ MemberInv'
  <2>1. \A a : Leaving(a) => Leaving(a)'
    BY <1>1 DEF Leaving, OnlyMoves
  <2> QED
    BY <1>1, <1>2, <2>1 DEF Usable, HubInv, OneIdentity, MemberInv
<1>6. ASSUME NEW d \in Callers PROVE CallerInv(d)'
  <2>1. CASE d = c
    BY <1>1, <1>2, <1>4, <2>1 DEF Usable, CallerInv
  <2>2. CASE d # c
    BY <1>1, <1>2, <1>3, <1>4, <2>2
    DEF Usable, CallerInv, OnlyMoves, Locked
  <2> QED
    BY <2>1, <2>2
<1> QED
  BY <1>5, <1>6 DEF Usable

\* The sink: the settings name the identity whose session it was, a new one only
\* where no link is left that counts on another.
LEMMA IdentityUsable ==
  ASSUME LinkTypeOK, PathInv, Usable, NEW c \in Callers, StoreIdentity(c)
  PROVE  Usable'
<1>0. Path(c) /\ CallerInv(c) /\ req[c] \in Request
  BY DEF PathInv, Usable, LinkTypeOK, Request
<1>n. NoRequest.why = "call"
  BY DEF NoRequest
<1>1. /\ UNCHANGED <<hub, orphans, joined>> /\ step[c] = "sink"
      /\ saved'.user = req[c].user /\ saved'.links = saved.links
  BY DEF StoreIdentity, LinkTypeOK
<1>2. /\ req[c].user # 0
      /\ req[c].why # "sign" => saved.user \in {0, req[c].user}
      /\ hub.user = req[c].user \/ (hub.user = 0 /\ req[c].why # "sign")
      /\ req[c].why = "sign" => saved.links \subseteq orphans
  BY <1>0, <1>1 DEF CallerInv
<1>3. \A d \in Callers \ {c} : step[d] \notin Locked /\ req[d].why # "sign"
  BY <1>1 DEF LinkTypeOK, Locked, PathInv, Path
<1>4. \A d \in Callers : req[d].why = "join" =>
        /\ hub.user # 0 /\ hub.user = saved.user /\ saved.user = req[c].user
  BY <1>2 DEF Usable, CallerInv, OneIdentity
<1>5. OnlyMoves(c) /\ CallerInv(c)' /\ req'[c].why # "sign"
  <2>1. CASE Granted(c, hub.user)
    <3>1. CASE req[c].why \in {"call", "check"}
      <4>1. step'[c] \in {"idle", "sign"} /\ req'[c].why \in {"call", "check"}
        BY <1>n, <2>1, <3>1, GrantedMoves
      <4> QED
        BY <2>1, <4>1, GrantedMoves DEF CallerInv
    <3>2. CASE req[c].why = "leave"
      <4>1. step'[c] = "leaving" /\ req'[c].why = "leave"
        BY <1>0, <2>1, <3>2, GrantedMoves DEF Request
      <4> QED
        BY <2>1, <4>1, GrantedMoves DEF CallerInv
    <3>3. CASE req[c].why = "join"
      <4>1. /\ step'[c] = "join" /\ req'[c].why = "join"
            /\ req'[c].user = hub.user
        <5>1. /\ step'[c] = "join"
              /\ req'[c] = [req[c] EXCEPT !.user = hub.user]
          BY <2>1, <3>3, GrantedMoves
        <5> QED
          BY <1>0, <3>3, <5>1 DEF Request
      <4> QED
        BY <1>1, <1>4, <2>1, <3>3, <4>1, GrantedMoves DEF CallerInv
    <3>4. CASE req[c].why = "sign"
      <4>1. step'[c] = "token" /\ req'[c].why = "join"
        BY <1>0, <2>1, <3>4, GrantedMoves DEF Request
      <4> QED
        BY <1>1, <1>2, <2>1, <3>4, <4>1, GrantedMoves DEF CallerInv
    <3> QED
      BY <1>0, <3>1, <3>2, <3>3, <3>4 DEF Request, Reasons
  <2>2. CASE Denied(c, FALSE)
    <3>1. /\ OnlyMoves(c) /\ step'[c] \in {"apply", "dead", "idle"}
          /\ req'[c].why \in {"leave", "check", "call"}
      BY <1>n, <2>2, DeniedMoves
    <3> QED
      BY <3>1 DEF CallerInv
  <2> QED
    BY <2>1, <2>2 DEF StoreIdentity
<1>6. HubInv'
  BY <1>1, <1>2 DEF Usable, HubInv
<1>7. OneIdentity'
  BY <1>3, <1>5 DEF OneIdentity, OnlyMoves
<1>8. MemberInv'
  <2> SUFFICES ASSUME NEW a \in saved.links \ orphans
               PROVE  <<a, req[c].user>> \in joined \/ Leaving(a)'
    BY <1>1 DEF MemberInv
  <2>1. Leaving(a) => Leaving(a)'
    BY <1>1, <1>5 DEF Leaving, OnlyMoves
  <2>2. saved.user = req[c].user
    BY <1>2 DEF Usable, HubInv
  <2> QED
    BY <2>1, <2>2 DEF Usable, MemberInv
<1>9. ASSUME NEW d \in Callers PROVE CallerInv(d)'
  <2>1. CASE d # c
    <3>1. step'[d] = step[d] /\ req'[d] = req[d] /\ CallerInv(d)
      BY <1>5, <2>1 DEF OnlyMoves, Usable
    <3>2. step[d] \notin {"sent", "answered", "sink"} /\ req[d].why # "sign"
      BY <1>3, <2>1 DEF Locked
    <3>3. req[d].why = "join" => hub'.user # 0 /\ hub'.user = saved'.user
                                 /\ saved'.user = saved.user
      BY <1>1, <1>4
    <3>4. step[d] = "join" => req[d].why = "join"
      BY DEF PathInv, Path
    <3> QED
      BY <1>1, <3>1, <3>2, <3>3, <3>4 DEF CallerInv
  <2> QED
    BY <1>5, <2>1
<1> QED
  BY <1>6, <1>7, <1>8, <1>9 DEF Usable

\* A session found dead: with no link or sign-in besides, nobody counts on it
\* but the apps that are cut off now.
LEMMA DeadUsable ==
  ASSUME LinkTypeOK, PathInv, Usable, NEW c \in Callers, DropDeadSession(c),
         ~crossed'
  PROVE  Usable'
<1>1. /\ OnlyMoves(c) /\ UNCHANGED <<saved, joined, req>>
      /\ step[c] = "dead" /\ step'[c] = "sign"
      /\ hub'.user = 0 /\ orphans' = saved.links /\ ~OtherLinking(c)
  BY DEF DropDeadSession, Goto, LinkTypeOK, OnlyMoves
<1>2. \A d \in Callers : req[d].why \notin {"join", "sign"}
  BY <1>1 DEF OtherLinking, PathInv, Path
<1>3. HubInv' /\ OneIdentity' /\ MemberInv'
  BY <1>1, <1>2 DEF Usable, HubInv, OneIdentity, MemberInv
<1>4. ASSUME NEW d \in Callers PROVE CallerInv(d)'
  <2>1. step[d] # "join" /\ CallerInv(d)
    BY <1>2 DEF PathInv, Path, Usable
  <2>2. step'[d] = step[d] \/ step'[d] = "sign"
    BY <1>1 DEF OnlyMoves
  <2> QED
    BY <1>1, <1>2, <2>1, <2>2 DEF CallerInv
<1> QED
  BY <1>3, <1>4 DEF Usable

\* A leave takes a membership away that no link counts on but the one its own
\* unlink is about to take away too.
LEMMA LeaveUsable ==
  ASSUME LinkTypeOK, PathInv, Usable, NEW c \in Callers, ServerLeaves(c),
         ~crossed'
  PROVE  Usable'
<1>1. /\ OnlyMoves(c) /\ UNCHANGED <<hub, saved, orphans, req>>
      /\ step[c] = "leaving" /\ step'[c] = "apply" /\ req[c].why = "leave"
  BY DEF ServerLeaves, Goto, LinkTypeOK, OnlyMoves, PathInv, Path
<1>2. \A a, u : <<a, u>> \in joined /\ a # req[c].app => <<a, u>> \in joined'
  BY DEF ServerLeaves
<1>3. ASSUME NEW d \in Callers, step[d] = "apply", req[d].why = "join"
      PROVE  <<req[d].app, saved.user>> \in joined'
  <2>1. <<req[d].app, saved.user>> \in joined /\ req[d].op = "link" /\ d # c
    BY <1>1, <1>3 DEF Usable, CallerInv, PathInv, Path
  <2>2. CASE joined' = joined
    BY <2>1, <2>2
  <2>3. CASE ~OtherJoined(c)
    <3>1. req[d].app # req[c].app
      BY <1>3, <2>1, <2>3 DEF OtherJoined
    <3> QED
      BY <1>2, <2>1, <3>1
  <2> QED
    BY <2>2, <2>3 DEF ServerLeaves
<1>4. HubInv' /\ OneIdentity'
  BY <1>1 DEF Usable, HubInv, OneIdentity, OnlyMoves
<1>5. MemberInv'
  <2> SUFFICES ASSUME NEW a \in saved.links \ orphans
               PROVE  <<a, saved.user>> \in joined' \/ Leaving(a)'
    BY <1>1 DEF MemberInv
  <2>1. Leaving(a) => Leaving(a)'
    BY <1>1 DEF Leaving, OnlyMoves
  <2>2. a = req[c].app => Leaving(a)'
    BY <1>1 DEF Leaving
  <2> QED
    BY <1>2, <2>1, <2>2 DEF Usable, MemberInv
<1>6. ASSUME NEW d \in Callers PROVE CallerInv(d)'
  <2>1. CASE d = c
    BY <1>1, <2>1 DEF Usable, CallerInv
  <2>2. CASE d # c
    BY <1>1, <1>3, <2>2 DEF Usable, CallerInv, OnlyMoves
  <2> QED
    BY <2>1, <2>2
<1> QED
  BY <1>4, <1>5, <1>6 DEF Usable

\* apply_cadora: a link is of the household its user has joined; an unlink takes
\* the link along, and the identity only when nobody else counts on it.
LEMMA ApplyUsable ==
  ASSUME LinkTypeOK, PathInv, Usable, NEW c \in Callers, ApplyLink(c),
         ~crossed'
  PROVE  Usable'
<1> DEFINE a == req[c].app
           linked == [saved EXCEPT !.links = @ \union {a}]
           forgot == [user |-> 0, tok |-> 0, links |-> saved.links \ {a}]
           unlinked == [saved EXCEPT !.links = @ \ {a}]
           s == IF req[c].op = "link" THEN linked
                ELSE IF req[c].links \subseteq {a} THEN forgot ELSE unlinked
<1>1. /\ saved' = s /\ hub' = Configured(hub, s) /\ joined' = joined
      /\ orphans' = (orphans \ {a}) \intersect s.links
      /\ hub.user \in {0, saved.user}
      /\ s.user = 0 => s.links = {} /\ ~OtherLinking(c)
      /\ step[c] = "apply" /\ Finish(c)
  BY DEF ApplyLink
<1>2. /\ OnlyMoves(c) /\ step'[c] = "idle" /\ req'[c].why = "call"
  BY <1>1, FinishMoves
<1>3. \/ /\ req[c].why = "join"
         /\ s.user = saved.user /\ s.links = saved.links \union {a}
      \/ /\ req[c].why = "leave"
         /\ s.user = saved.user /\ s.links = saved.links \ {a}
      \/ /\ req[c].why = "leave"
         /\ s.user = 0 /\ s.links = saved.links \ {a}
  <2>1. /\ linked.user = saved.user /\ linked.links = saved.links \union {a}
        /\ unlinked.user = saved.user /\ unlinked.links = saved.links \ {a}
        /\ forgot.user = 0 /\ forgot.links = saved.links \ {a}
    BY DEF LinkTypeOK
  <2>2. \/ req[c].op = "link" /\ s = linked
        \/ req[c].op # "link" /\ (s = forgot \/ s = unlinked)
    OBVIOUS
  <2>3. /\ req[c].op = "link" => req[c].why = "join"
        /\ req[c].op # "link" => req[c].why = "leave"
    BY <1>1 DEF PathInv, Path
  <2> HIDE DEF linked, forgot, unlinked, s
  <2> QED
    BY <2>1, <2>2, <2>3
<1> HIDE DEF linked, forgot, unlinked, s
<1>4. hub'.user = s.user
  BY <1>1 DEF Configured
<1>5. s.user = 0 => \A d \in Callers \ {c} : req[d].why \notin {"join", "sign"}
  BY <1>1 DEF OtherLinking, PathInv, Path
<1>6. /\ req[c].why = "join" => /\ hub.user # 0 /\ hub.user = saved.user
                                /\ <<a, saved.user>> \in joined
                                /\ \A d \in Callers : req[d].why # "sign"
      /\ saved.user = 0 => saved.links = {}
  BY <1>1 DEF Usable, CallerInv, OneIdentity, HubInv
<1>7. HubInv'
  BY <1>1, <1>3, <1>4, <1>6 DEF HubInv
<1>8. OneIdentity'
  BY <1>2 DEF Usable, OneIdentity, OnlyMoves
<1>9. MemberInv'
  <2> SUFFICES ASSUME NEW b \in s.links, b \notin orphans'
               PROVE  <<b, s.user>> \in joined \/ Leaving(b)'
    BY <1>1 DEF MemberInv
  <2>1. s.user = saved.user
    BY <1>1, <1>3
  <2>2. CASE b = a
    BY <1>3, <1>6, <2>1, <2>2
  <2>3. CASE b # a
    <3>1. b \in saved.links \ orphans
      BY <1>1, <1>3, <2>3
    <3>2. Leaving(b) => Leaving(b)'
      BY <1>2, <2>3 DEF Leaving, OnlyMoves
    <3> QED
      BY <2>1, <3>1, <3>2 DEF Usable, MemberInv
  <2> QED
    BY <2>2, <2>3
<1>10. ASSUME NEW d \in Callers PROVE CallerInv(d)'
  <2>1. CASE d = c
    BY <1>2, <2>1 DEF CallerInv
  <2>2. CASE d # c
    <3>1. step'[d] = step[d] /\ req'[d] = req[d] /\ CallerInv(d) /\ Path(d)
      BY <1>2, <2>2 DEF OnlyMoves, Usable, PathInv
    <3>2. CASE s.user = 0
      <4>1. req[d].why \notin {"join", "sign"} /\ step[d] # "join"
        BY <1>5, <2>2, <3>1, <3>2 DEF Path
      <4> QED
        BY <1>1, <1>4, <3>1, <3>2, <4>1 DEF CallerInv
    <3>3. CASE s.user = saved.user
      <4>1. step[d] \in {"sent", "answered", "sink"} =>
              /\ req[d].user # 0
              /\ req[d].why # "sign" => s.user \in {0, req[d].user}
        BY <3>1, <3>3 DEF CallerInv
      <4>2. step[d] = "sink" =>
              s.user = req[d].user \/ (s.user = 0 /\ req[d].why # "sign")
        BY <1>1, <3>1, <3>3 DEF CallerInv
      <4>3. req[d].why = "sign" => s.links \subseteq orphans'
        BY <1>1, <1>3, <1>6, <3>1 DEF CallerInv
      <4>4. req[d].why = "join" => s.user # 0
        BY <3>1, <3>3 DEF CallerInv
      <4>5. /\ step[d] = "join" => req[d].user = s.user
            /\ step[d] = "apply" /\ req[d].why = "join" =>
                 <<req[d].app, s.user>> \in joined
        BY <3>1, <3>3 DEF CallerInv
      <4> QED
        BY <1>1, <1>4, <3>1, <4>1, <4>2, <4>3, <4>4, <4>5 DEF CallerInv
    <3> QED
      BY <1>3, <3>2, <3>3
  <2> QED
    BY <2>1, <2>2
<1> QED
  BY <1>7, <1>8, <1>9, <1>10 DEF Usable

LEMMA UsableStep ==
  ASSUME LinkTypeOK, PathInv, Usable, [LinkNext]_linkVars, ~crossed'
  PROVE  Usable'
<1>1. ASSUME NEW c \in Callers, NEW a \in Apps,
             StartCall(c) \/ StartLink(c, a) \/ StartUnlink(c, a)
      PROVE  Usable'
  BY <1>1, QuietUsable
<1>2. ASSUME NEW c \in Callers, LinkStep(c) PROVE Usable'
  BY <1>2, QuietUsable, SessionUsable, IdentityUsable, DeadUsable,
     LeaveUsable, ApplyUsable DEF LinkStep
<1>3. CASE RebuildTools
  <2>1. /\ hub'.user = hub.user
        /\ UNCHANGED <<saved, joined, step, req, orphans>>
    BY <1>3 DEF RebuildTools, Configured
  <2> QED
    BY <2>1 DEF Usable, HubInv, OneIdentity, MemberInv, Leaving, CallerInv
<1>4. CASE AccessExpires
  <2>1. /\ hub'.user = hub.user
        /\ UNCHANGED <<saved, joined, step, req, orphans>>
    BY <1>4 DEF AccessExpires, LinkTypeOK
  <2> QED
    BY <2>1 DEF Usable, HubInv, OneIdentity, MemberInv, Leaving, CallerInv
<1>5. CASE Restart
  <2>1. /\ hub'.user = saved.user /\ UNCHANGED <<saved, joined>>
        /\ \A d \in Callers : step'[d] = "idle" /\ req'[d].why = "call"
    BY <1>5 DEF Restart, Configured, NoRequest
  <2>2. orphans \subseteq orphans' /\ \A b : Leaving(b) => b \in orphans'
    BY <1>5 DEF Restart, Leaving, PathInv, Path
  <2> QED
    BY <2>1, <2>2 DEF Usable, HubInv, OneIdentity, MemberInv, CallerInv
<1>6. CASE UNCHANGED linkVars
  BY <1>6 DEF linkVars, Usable, HubInv, OneIdentity, MemberInv, Leaving,
    CallerInv
<1> QED
  BY <1>1, <1>2, <1>3, <1>4, <1>5, <1>6, LinkAssumption DEF LinkNext

\* The inductive invariant behind it: the callers' paths, and while no request
\* was crossed, what they and the links count on.
THEOREM UsableInvariance == LinkSpec => [](LinkTypeOK /\ PathInv /\ UsableInv)
<1>1. LinkInit => LinkTypeOK /\ PathInv /\ UsableInv
  <2> SUFFICES ASSUME LinkInit PROVE PathInv /\ Usable
    BY TypeInit DEF UsableInv
  <2> QED
    BY DEF LinkInit, NoRequest, PathInv, Path, Usable, HubInv, OneIdentity,
      MemberInv, CallerInv
<1>2. LinkTypeOK /\ PathInv /\ UsableInv /\ [LinkNext]_linkVars =>
        (LinkTypeOK /\ PathInv /\ UsableInv)'
  <2> SUFFICES ASSUME LinkTypeOK, PathInv, UsableInv, [LinkNext]_linkVars
               PROVE  LinkTypeOK' /\ PathInv' /\ (~crossed' => Usable')
    BY DEF UsableInv
  <2>1. ~crossed' => ~crossed
    BY CrossedForGood DEF LinkTypeOK
  <2> QED
    BY <2>1, TypeStep, PathStep, UsableStep DEF UsableInv
<1> QED
  BY <1>1, <1>2, PTL DEF LinkSpec

\* A linked app is usable, whatever calls, links, unlinks, settings changes,
\* failures and restarts come in between: with nothing under way, the identity
\* in the settings is a member of the household of every app linked there, but
\* for the links that were cut off and the crossings LinkedIsUsable names.
THEOREM LinkedAlwaysUsable == LinkSpec => []LinkedIsUsable
<1>1. UsableInv => LinkedIsUsable
  BY DEF UsableInv, Usable, MemberInv, Leaving, LinkedIsUsable
<1> QED
  BY <1>1, UsableInvariance, PTL
=============================================================================
