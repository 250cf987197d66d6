---------------------------- MODULE Music_proofs ----------------------------
(****************************************************************************)
(* Theorems about the music.  MusicDucker, for any connections, clients and *)
(* levels: the state is well typed, a ducked house always has a restore     *)
(* coming, and the restore is exact.  RadioHandoff, for any users: the      *)
(* state is well typed, and what is on is what is heard.                    *)
(*                                                                          *)
(* RestoreIsOwed alone is not inductive: a ducking task that takes its      *)
(* record must know that its own connection still owes a restore, and that  *)
(* follows from the order TurnDuck and the task keep the requests in        *)
(* (InOrder): ducks and restores alternate, and the last one says whether   *)
(* the turn holds a TurnDuck that has ducked.                               *)
(****************************************************************************)
EXTENDS MusicDucker, RadioHandoff, TLAPS

InOrder ==
  \A k \in Conns :
    /\ \A i \in 1 .. Len(queue[k]) - 1 : queue[k][i] # queue[k][i + 1]
    /\ queue[k] # << >> => (queue[k][Len(queue[k])] = "duck" <=> ducked[k])
    /\ queue[k] = << >> => task[k] = "ready"

IInv == DuckerTypeOK /\ InOrder /\ RestoreIsOwed

-----------------------------------------------------------------------------
(* Values.                                                                  *)

\* What the operators on options return: a volume stays a volume.
LEMMA ChosenIsVol ==
  ASSUME NEW r \in Requests, NEW v \in Vols
  PROVE  Chosen(r, v) \in Vols
<1>1. ASSUME NEW S, NEW o \in Option(S), NEW d \in S
      PROVE  OrElse(o, d) \in S
  BY <1>1 DEF Option, OrElse
<1>2. OrElse(r.percent, v.percent) \in Levels
  BY <1>1 DEF Requests, Vols
<1>3. OrElse(r.muted, v.muted) \in BOOLEAN
  BY <1>1 DEF Requests, Vols
<1> QED BY <1>2, <1>3 DEF Chosen, Vols

\* The level duck() sets is a volume.
LEMMA DuckedIsVol ==
  \A m \in BOOLEAN : [percent |-> DuckPercent, muted |-> m] \in Vols
BY LevelsAssumption DEF Vols

\* The cleared request is a request.
LEMMA NothingAskedIsRequest == NothingAsked \in Requests
<1>1. (CHOOSE c \in Clients : TRUE) \in Clients
  BY ClientsAssumption
<1> QED BY <1>1 DEF NothingAsked, Requests, Option

\* Appending a request to a queue.
LEMMA AppendOp ==
  ASSUME NEW s \in Seq(DuckOps), NEW o \in DuckOps
  PROVE  /\ Append(s, o) \in Seq(DuckOps)
         /\ Append(s, o) # << >>
         /\ Len(Append(s, o)) = Len(s) + 1
         /\ Append(s, o)[Len(s) + 1] = o
         /\ \A i \in 1 .. Len(s) : Append(s, o)[i] = s[i]
OBVIOUS

\* Taking the first request off a queue.
LEMMA TailOps ==
  ASSUME NEW s \in Seq(DuckOps), s # << >>
  PROVE  /\ Tail(s) \in Seq(DuckOps)
         /\ Len(s) \in Nat \ {0}
         /\ Len(Tail(s)) = Len(s) - 1
         /\ \A i \in 1 .. Len(s) - 1 : Tail(s)[i] = s[i + 1]
         /\ Tail(s) # << >> => Len(s) > 1
         /\ Head(s) = s[1]
OBVIOUS

-----------------------------------------------------------------------------
(* Type correctness.                                                        *)

\* The initial states are well typed.
LEMMA TypeInit == DuckerInit => DuckerTypeOK
<1> SUFFICES ASSUME DuckerInit PROVE DuckerTypeOK
  OBVIOUS
<1>1. volume \in Records
  BY LevelsAssumption DEF DuckerInit, Records, Vols
<1>2. [turns |-> MaxSpeaking, changes |-> MaxManual]
        \in [turns : 0 .. MaxSpeaking, changes : 0 .. MaxManual]
  BY BoundsAssumption
<1>3. \A k \in Conns : taken[k] # NoRecord <=> task[k] = "restoring"
  BY DEF DuckerInit
<1> QED BY <1>1, <1>2, <1>3, NothingAskedIsRequest
       DEF DuckerInit, DuckerTypeOK, DuckOps, TaskPcs, ManualPcs

\* Taking the next request keeps the task's variables well typed.
LEMMA NextRequestTyped ==
  ASSUME DuckerTypeOK, NEW k \in Conns, queue[k] # << >>, NextRequest(k)
  PROVE  /\ queue' \in [Conns -> Seq(DuckOps)]
         /\ task' \in [Conns -> TaskPcs]
         /\ todo' \in [Conns -> SUBSET Clients]
         /\ taken' \in [Conns -> Records \cup {NoRecord}]
         /\ \A j \in Conns : taken'[j] # NoRecord <=> task'[j] = "restoring"
<1>1. Tail(queue[k]) \in Seq(DuckOps)
  BY TailOps DEF DuckerTypeOK
<1> QED BY <1>1 DEF DuckerTypeOK, NextRequest, TaskPcs

\* Spending one turn or one change keeps duckerBudget within its bounds.
LEMMA BudgetSpent ==
  ASSUME NEW b \in [turns : 0 .. MaxSpeaking, changes : 0 .. MaxManual]
  PROVE  /\ b.turns > 0 => [b EXCEPT !.turns = @ - 1]
              \in [turns : 0 .. MaxSpeaking, changes : 0 .. MaxManual]
         /\ b.changes > 0 => [b EXCEPT !.changes = @ - 1]
              \in [turns : 0 .. MaxSpeaking, changes : 0 .. MaxManual]
<1>1. b.turns > 0 => b.turns - 1 \in 0 .. MaxSpeaking
  BY BoundsAssumption
<1>2. b.changes > 0 => b.changes - 1 \in 0 .. MaxManual
  BY BoundsAssumption
<1> QED BY <1>1, <1>2

\* Every step keeps the state well typed, one action at a time.
LEMMA TypeStep == DuckerTypeOK /\ [DuckerNext]_duckerVars => DuckerTypeOK'
<1> SUFFICES ASSUME DuckerTypeOK, [DuckerNext]_duckerVars PROVE DuckerTypeOK'
  OBVIOUS
<1> USE DEF taskVars, manualVars, historyVars
<1>1. ASSUME NEW k \in Conns, FirstSpeaking(k) PROVE DuckerTypeOK'
  <2>1. Append(queue[k], "duck") \in Seq(DuckOps)
    BY AppendOp DEF DuckerTypeOK, DuckOps
  <2>2. [duckerBudget EXCEPT !.turns = @ - 1]
          \in [turns : 0 .. MaxSpeaking, changes : 0 .. MaxManual]
    BY <1>1, BudgetSpent DEF DuckerTypeOK, FirstSpeaking
  <2> QED BY <1>1, <2>1, <2>2 DEF DuckerTypeOK, FirstSpeaking
<1>2. ASSUME NEW k \in Conns, TurnOver(k) PROVE DuckerTypeOK'
  <2>1. Append(queue[k], "restore") \in Seq(DuckOps)
    BY AppendOp DEF DuckerTypeOK, DuckOps
  <2> QED BY <1>2, <2>1 DEF DuckerTypeOK, TurnOver
<1>3. ASSUME NEW k \in Conns,
             DuckAgain(k) \/ DuckDone(k) \/ RestoreNothing(k) \/ RestoreDone(k)
      PROVE DuckerTypeOK'
  BY <1>3, NextRequestTyped
  DEF DuckerTypeOK, DuckAgain, DuckDone, RestoreNothing, RestoreDone, Applying
<1>4. ASSUME NEW k \in Conns, DuckBegins(k) PROVE DuckerTypeOK'
  BY <1>4 DEF DuckerTypeOK, DuckBegins, Applying, TaskPcs
<1>5. ASSUME NEW k \in Conns, DuckSnapshot(k) PROVE DuckerTypeOK'
  BY <1>5 DEF DuckerTypeOK, DuckSnapshot, Applying, TaskPcs
<1>6. ASSUME NEW k \in Conns, NEW c \in Clients, DuckSet(k, c) PROVE DuckerTypeOK'
  BY <1>6, DuckedIsVol DEF DuckerTypeOK, DuckSet, Records
<1>7. ASSUME NEW k \in Conns, DuckFails(k) PROVE DuckerTypeOK'
  <2>1. volume' \in Records
    BY <1>7, DuckedIsVol DEF DuckerTypeOK, DuckFails, Records
  <2> QED BY <1>7, <2>1, NextRequestTyped DEF DuckerTypeOK, DuckFails, Applying
<1>8. ASSUME NEW k \in Conns, RestoreTakes(k) PROVE DuckerTypeOK'
  BY <1>8, NoRecordAssumption DEF DuckerTypeOK, RestoreTakes, Applying, TaskPcs
<1>9. ASSUME NEW k \in Conns, NEW c \in Clients, RestoreSet(k, c)
      PROVE  DuckerTypeOK'
  <2>1. taken[k] \in Records
    BY <1>9, NoRecordAssumption DEF DuckerTypeOK, RestoreSet, Applying
  <2> QED BY <1>9, <2>1 DEF DuckerTypeOK, RestoreSet, Records
<1>10. ASSUME NEW k \in Conns, RestoreFails(k) PROVE DuckerTypeOK'
  <2>1. taken[k] \in Records
    BY <1>10, NoRecordAssumption DEF DuckerTypeOK, RestoreFails, Applying
  <2>2. volume' \in Records
    BY <1>10, <2>1 DEF DuckerTypeOK, RestoreFails, Records
  <2>3. todo[k] \subseteq Clients
    BY DEF DuckerTypeOK
  <2> QED BY <1>10, <2>2, <2>3, NextRequestTyped
          DEF DuckerTypeOK, RestoreFails, Applying
<1>11. ASSUME NEW r \in Asked, ManualWhileDucked(r) PROVE DuckerTypeOK'
  <2>1. r \in Requests /\ r.client \in Clients
    BY DEF Asked, Requests
  <2>2. record' \in Records
    BY <1>11, <2>1, ChosenIsVol, NoRecordAssumption
    DEF DuckerTypeOK, ManualWhileDucked, Records
  <2>3. wanted' \in Records
    BY <1>11, <2>1, ChosenIsVol DEF DuckerTypeOK, ManualWhileDucked, Records
  <2>4. manual' \in ManualPcs /\ request' \in Requests
    BY <1>11, <2>1, NothingAskedIsRequest
    DEF DuckerTypeOK, ManualWhileDucked, ManualPcs
  <2>5. duckerBudget' \in [turns : 0 .. MaxSpeaking, changes : 0 .. MaxManual]
    BY <1>11, BudgetSpent DEF DuckerTypeOK, ManualWhileDucked
  <2> QED BY <1>11, <2>2, <2>3, <2>4, <2>5 DEF DuckerTypeOK, ManualWhileDucked
<1>12. ASSUME NEW r \in Asked, ManualDirect(r) PROVE DuckerTypeOK'
  <2>1. r \in Requests /\ r.client \in Clients
    BY DEF Asked, Requests
  <2>2. wanted' \in Records
    BY <1>12, <2>1, ChosenIsVol DEF DuckerTypeOK, ManualDirect, Records
  <2>3. manual' \in ManualPcs
    BY <1>12 DEF ManualDirect, ManualPcs
  <2>4. duckerBudget' \in [turns : 0 .. MaxSpeaking, changes : 0 .. MaxManual]
    BY <1>12, BudgetSpent DEF DuckerTypeOK, ManualDirect
  <2> QED BY <1>12, <2>1, <2>2, <2>3, <2>4 DEF DuckerTypeOK, ManualDirect
<1>13. ASSUME ManualStep PROVE DuckerTypeOK'
  <2>1. request \in Requests /\ request.client \in Clients
    BY DEF DuckerTypeOK, Requests
  <2>2. CASE ManualMutes
    <3>1. OrElse(request.muted, FALSE) \in BOOLEAN
      BY <2>1 DEF Requests, Option, OrElse
    <3>2. volume' \in Records
      BY <2>1, <2>2, <3>1, DuckedIsVol DEF DuckerTypeOK, ManualMutes, Records
    <3> QED BY <2>2, <3>2, NothingAskedIsRequest
            DEF DuckerTypeOK, ManualMutes, ManualPcs
  <2>3. CASE ManualRead
    <3>1. Chosen(request, volume[request.client]) \in Vols
      BY <2>1, ChosenIsVol DEF DuckerTypeOK, Records
    <3>2. request' \in Requests
      BY <2>1, <2>3, <3>1 DEF ManualRead, Requests, Option, Vols
    <3> QED BY <2>1, <2>3, <3>2
            DEF DuckerTypeOK, ManualRead, SpoilIfRestoring, ManualPcs
  <2>4. CASE ManualWrite
    <3>1. volume' \in Records
      BY <2>1, <2>4, ChosenIsVol DEF DuckerTypeOK, ManualWrite, Records
    <3> QED BY <2>1, <2>4, <3>1, NothingAskedIsRequest
            DEF DuckerTypeOK, ManualWrite, SpoilIfRestoring, ManualPcs
  <2>5. CASE ManualFails
    <3>1. volume' \in Records
      BY <2>1, <2>5, ChosenIsVol DEF DuckerTypeOK, ManualFails, Records
    <3>2. spoiled' \subseteq Clients
      BY <2>1, <2>5 DEF DuckerTypeOK, ManualFails
    <3> QED BY <2>5, <3>1, <3>2, NothingAskedIsRequest
            DEF DuckerTypeOK, ManualFails, ManualPcs
  <2> QED BY <1>13, <2>2, <2>3, <2>4, <2>5 DEF ManualStep
<1>14. CASE UNCHANGED duckerVars
  BY <1>14 DEF DuckerTypeOK, duckerVars
<1> QED BY <1>1, <1>2, <1>3, <1>4, <1>5, <1>6, <1>7, <1>8, <1>9, <1>10, <1>11,
           <1>12, <1>13, <1>14 DEF DuckerNext, TaskStep
-----------------------------------------------------------------------------
(* The order of requests, and the restore that is owed.                     *)

\* Taking the next request keeps the queues in order.
LEMMA NextRequestInOrder ==
  ASSUME DuckerTypeOK, InOrder, NEW k \in Conns, queue[k] # << >>, NextRequest(k),
         ducked' = ducked
  PROVE  InOrder'
<1> SUFFICES ASSUME NEW j \in Conns
             PROVE  /\ \A i \in 1 .. Len(queue'[j]) - 1 :
                         queue'[j][i] # queue'[j][i + 1]
                    /\ queue'[j] # << >> =>
                         (queue'[j][Len(queue'[j])] = "duck" <=> ducked'[j])
                    /\ queue'[j] = << >> => task'[j] = "ready"
  BY DEF InOrder
<1>1. CASE j # k
  BY <1>1 DEF NextRequest, InOrder, DuckerTypeOK
<1>2. CASE j = k
  <2> DEFINE s == queue[k]
  <2>1. /\ queue'[k] = Tail(s) /\ s \in Seq(DuckOps) /\ s # << >>
        /\ task'[k] = "ready"
    BY DEF NextRequest, DuckerTypeOK
  <2>2. /\ \A i \in 1 .. Len(s) - 1 : s[i] # s[i + 1]
        /\ s[Len(s)] = "duck" <=> ducked[k]
    BY <2>1 DEF InOrder
  <2>3. /\ Len(s) \in Nat \ {0}
        /\ Len(Tail(s)) = Len(s) - 1
        /\ \A i \in 1 .. Len(s) - 1 : Tail(s)[i] = s[i + 1]
        /\ Tail(s) # << >> => Len(s) > 1
    BY <2>1, TailOps
  <2> HIDE DEF s
  <2>4. \A i \in 1 .. Len(Tail(s)) - 1 : Tail(s)[i] # Tail(s)[i + 1]
    BY <2>2, <2>3
  <2>5. Tail(s) # << >> => Tail(s)[Len(Tail(s))] = s[Len(s)]
    BY <2>3
  <2> QED BY <1>2, <2>1, <2>2, <2>4, <2>5
<1> QED BY <1>1, <1>2

\* A request that begins or ends a turn keeps them in order too.
LEMMA AppendInOrder ==
  ASSUME DuckerTypeOK, InOrder, NEW k \in Conns, NEW o \in DuckOps,
         ducked' = [ducked EXCEPT ![k] = ~ducked[k]],
         o = "duck" <=> ~ducked[k],
         queue' = [queue EXCEPT ![k] = Append(queue[k], o)], task' = task
  PROVE  InOrder'
<1> SUFFICES ASSUME NEW j \in Conns
             PROVE  /\ \A i \in 1 .. Len(queue'[j]) - 1 :
                         queue'[j][i] # queue'[j][i + 1]
                    /\ queue'[j] # << >> =>
                         (queue'[j][Len(queue'[j])] = "duck" <=> ducked'[j])
                    /\ queue'[j] = << >> => task'[j] = "ready"
  BY DEF InOrder
<1>1. CASE j # k
  BY <1>1 DEF InOrder, DuckerTypeOK
<1>2. CASE j = k
  <2> DEFINE s == queue[k]
             a == Append(s, o)
  <2>1. queue'[k] = a /\ s \in Seq(DuckOps) /\ ducked'[k] = ~ducked[k]
    BY DEF DuckerTypeOK
  <2>2. /\ \A i \in 1 .. Len(s) - 1 : s[i] # s[i + 1]
        /\ s # << >> => (s[Len(s)] = "duck" <=> ducked[k])
    BY DEF InOrder
  <2>3. /\ Len(s) \in Nat
        /\ Len(a) = Len(s) + 1
        /\ a[Len(s) + 1] = o
        /\ \A i \in 1 .. Len(s) : a[i] = s[i]
        /\ Len(s) > 0 => s # << >>
        /\ a # << >>
    BY <2>1, AppendOp
  <2> HIDE DEF s, a
  <2>4. ASSUME NEW i \in 1 .. Len(a) - 1
        PROVE  a[i] # a[i + 1]
    <3>1. CASE i < Len(s)
      BY <2>2, <2>3, <3>1
    <3>2. CASE i = Len(s)
      <4>1. s[i] = "duck" <=> ducked[k]
        BY <2>2, <2>3, <3>2
      <4>2. a[i] = s[i] /\ a[i + 1] = o
        BY <2>3, <3>2
      <4> QED BY <4>1, <4>2
    <3> QED BY <2>3, <3>1, <3>2
  <2>5. a[Len(a)] = "duck" <=> ducked'[k]
    BY <2>1, <2>3
  <2> QED BY <1>2, <2>1, <2>3, <2>4, <2>5
<1> QED BY <1>1, <1>2

\* Every step keeps the requests of every connection in order.
LEMMA OrderStep == DuckerTypeOK /\ InOrder /\ [DuckerNext]_duckerVars => InOrder'
<1> SUFFICES ASSUME DuckerTypeOK, InOrder, [DuckerNext]_duckerVars PROVE InOrder'
  OBVIOUS
<1> USE DEF taskVars, manualVars, historyVars
<1>1. ASSUME NEW k \in Conns, FirstSpeaking(k) PROVE InOrder'
  <2>1. ducked' = [ducked EXCEPT ![k] = ~ducked[k]]
    BY <1>1 DEF FirstSpeaking
  <2> QED BY <1>1, <2>1, AppendInOrder DEF FirstSpeaking, DuckOps
<1>2. ASSUME NEW k \in Conns, TurnOver(k) PROVE InOrder'
  <2>1. ducked' = [ducked EXCEPT ![k] = ~ducked[k]]
    BY <1>2 DEF TurnOver
  <2> QED BY <1>2, <2>1, AppendInOrder DEF TurnOver, DuckOps
<1>3. ASSUME NEW k \in Conns, NextRequest(k), queue[k] # << >>, ducked' = ducked
      PROVE InOrder'
  BY <1>3, NextRequestInOrder
<1>4. ASSUME ducked' = ducked, queue' = queue,
             \A j \in Conns : queue[j] = << >> => task'[j] = task[j]
      PROVE InOrder'
  BY <1>4 DEF InOrder
<1>9. ASSUME NEW k \in Conns, queue[k] # << >>, ducked' = ducked, queue' = queue,
             NEW pc, task' = [task EXCEPT ![k] = pc]
      PROVE InOrder'
  BY <1>4, <1>9 DEF DuckerTypeOK
<1>5. ASSUME NEW k \in Conns, TaskStep(k) PROVE InOrder'
  BY <1>3, <1>4, <1>5, <1>9
  DEF TaskStep, DuckAgain, DuckBegins, DuckSnapshot, DuckSet, DuckDone,
      DuckFails, RestoreNothing, RestoreTakes, RestoreSet, RestoreDone,
      RestoreFails, Applying
<1>6. ASSUME NEW r \in Asked, ManualWhileDucked(r) \/ ManualDirect(r)
      PROVE InOrder'
  BY <1>4, <1>6 DEF ManualWhileDucked, ManualDirect
<1>7. ASSUME ManualStep PROVE InOrder'
  BY <1>4, <1>7
  DEF ManualStep, ManualMutes, ManualRead, ManualWrite, ManualFails
<1>8. CASE UNCHANGED duckerVars
  BY <1>4, <1>8 DEF duckerVars
<1> QED BY <1>1, <1>2, <1>5, <1>6, <1>7, <1>8 DEF DuckerNext

\* Taking the next request leaves every connection owing what it owed, unless
\* the request taken off is a restore that had not begun.
LEMMA NextRequestOwes ==
  ASSUME DuckerTypeOK, NEW k \in Conns, queue[k] # << >>, NextRequest(k),
         ducked' = ducked, Head(queue[k]) = "duck" \/ task[k] = "restoring",
         NEW j \in Conns, Owes(j)
  PROVE  Owes(j)'
<1>1. CASE j # k
  BY <1>1 DEF Owes, NextRequest, DuckerTypeOK
<1>2. CASE ducked[j]
  BY <1>2 DEF Owes
<1>3. CASE j = k /\ ~ducked[j]
  <2> DEFINE s == queue[k]
  <2>1. s \in Seq(DuckOps) /\ s # << >> /\ queue'[k] = Tail(s) /\ task'[k] = "ready"
    BY DEF NextRequest, DuckerTypeOK
  <2>2. /\ Len(s) \in Nat \ {0}
        /\ Len(Tail(s)) = Len(s) - 1
        /\ \A i \in 1 .. Len(s) - 1 : Tail(s)[i] = s[i + 1]
        /\ Head(s) = s[1]
    BY <2>1, TailOps
  <2>3. PICK i \in 1 .. Len(s) : s[i] = "restore" /\ (i > 1 \/ task[k] = "ready")
    BY <1>3 DEF Owes
  <2>4. i > 1
    BY <2>2, <2>3
  <2> HIDE DEF s
  <2>5. i - 1 \in 1 .. Len(Tail(s)) /\ Tail(s)[i - 1] = "restore"
    BY <2>2, <2>3, <2>4
  <2> QED BY <1>3, <2>1, <2>5 DEF Owes
<1> QED BY <1>1, <1>2, <1>3

\* A ducking task that takes its record has a restore behind its duck.
LEMMA DuckOwes ==
  ASSUME DuckerTypeOK, InOrder, NEW k \in Conns, DuckSnapshot(k)
  PROVE  Owes(k)'
<1> DEFINE s == queue[k]
<1>1. s \in Seq(DuckOps) /\ s # << >> /\ Head(s) = "duck"
      /\ queue' = queue /\ ducked' = ducked
  BY DEF DuckSnapshot, Applying, DuckerTypeOK
<1>2. /\ s[1] = "duck"
      /\ Len(s) \in Nat
      /\ Len(s) # 0
  BY <1>1, TailOps
<1>3. CASE Len(s) = 1
  BY <1>1, <1>2, <1>3 DEF InOrder, Owes
<1>4. CASE Len(s) # 1
  <2>0. Len(s) > 1
    <3>1. \A n \in Nat : n # 0 /\ n # 1 => n > 1
      OBVIOUS
    <3> QED BY <1>2, <1>4, <3>1
  <2>1. s[1] # s[2] /\ s[2] \in DuckOps
    <3>1. 1 \in 1 .. Len(s) - 1 /\ 2 \in 1 .. Len(s)
      BY <1>2, <2>0
    <3>2. s[1] # s[2]
      BY <3>1 DEF InOrder
    <3> QED BY <1>1, <3>1, <3>2
  <2>2. 2 \in 1 .. Len(s) /\ s[2] = "restore"
    BY <1>2, <2>0, <2>1 DEF DuckOps
  <2>3. \E i \in 1 .. Len(queue[k]) : queue[k][i] = "restore" /\ i > 1
    BY <2>2
  <2>4. \E i \in 1 .. Len(queue'[k]) :
          queue'[k][i] = "restore" /\ (i > 1 \/ task'[k] = "ready")
    BY <1>1, <2>3
  <2> QED BY <2>4 DEF Owes
<1> QED BY <1>3, <1>4

\* Every step keeps a restore owed while there is a record.
LEMMA OwedStep ==
  DuckerTypeOK /\ InOrder /\ RestoreIsOwed /\ [DuckerNext]_duckerVars
    => RestoreIsOwed'
<1> SUFFICES ASSUME DuckerTypeOK, InOrder, RestoreIsOwed, [DuckerNext]_duckerVars,
                    record' # NoRecord
             PROVE  \E j \in Conns : Owes(j)'
  BY DEF RestoreIsOwed
<1> USE DEF taskVars, manualVars, historyVars
<1>0. record = record' => \E j \in Conns : Owes(j)
  BY DEF RestoreIsOwed
<1>1. ASSUME NEW k \in Conns, FirstSpeaking(k) PROVE Owes(k)'
  BY <1>1 DEF FirstSpeaking, Owes, DuckerTypeOK
<1>2. ASSUME NEW k \in Conns, TurnOver(k) PROVE Owes(k)'
  <2> DEFINE a == Append(queue[k], "restore")
  <2>1. queue'[k] = a /\ task' = task
    BY <1>2 DEF TurnOver, DuckerTypeOK
  <2>2. /\ Len(queue[k]) \in Nat
        /\ Len(a) = Len(queue[k]) + 1
        /\ a[Len(a)] = "restore"
    BY AppendOp DEF DuckerTypeOK, DuckOps
  <2>3. CASE Len(a) > 1
    BY <2>1, <2>2, <2>3 DEF Owes
  <2>4. CASE Len(a) = 1
    <3>1. task[k] = "ready"
      BY <1>2, <2>2, <2>4 DEF InOrder, DuckerTypeOK
    <3> QED BY <2>1, <2>2, <2>4, <3>1 DEF Owes
  <2> QED BY <2>2, <2>3, <2>4
<1>3. ASSUME NEW k \in Conns, NextRequest(k), queue[k] # << >>, ducked' = ducked,
             record' = record, Head(queue[k]) = "duck" \/ task[k] = "restoring"
      PROVE \E j \in Conns : Owes(j)'
  BY <1>0, <1>3, NextRequestOwes
<1>4. ASSUME NEW k \in Conns,
             DuckAgain(k) \/ DuckDone(k) \/ DuckFails(k)
               \/ RestoreDone(k) \/ RestoreFails(k)
      PROVE \E j \in Conns : Owes(j)'
  BY <1>3, <1>4
  DEF DuckAgain, DuckDone, DuckFails, RestoreDone, RestoreFails, Applying
<1>5. ASSUME NEW k \in Conns, DuckBegins(k) PROVE \E j \in Conns : Owes(j)'
  <2>1. PICK j \in Conns : Owes(j)
    BY <1>0, <1>5 DEF DuckBegins
  <2>2. queue[k][1] = "duck"
    BY <1>5, TailOps DEF DuckBegins, Applying, DuckerTypeOK
  <2>3. Owes(j)'
    BY <1>5, <2>1, <2>2 DEF DuckBegins, Owes, DuckerTypeOK
  <2> QED BY <2>3
<1>6. ASSUME NEW k \in Conns, DuckSnapshot(k) PROVE \E j \in Conns : Owes(j)'
  BY <1>6, DuckOwes
<1>7. ASSUME NEW k \in Conns, RestoreNothing(k) \/ RestoreTakes(k)
      PROVE FALSE
  BY <1>7 DEF RestoreNothing, RestoreTakes
<1>8. ASSUME record # NoRecord, ducked' = ducked, queue' = queue, task' = task
      PROVE \E j \in Conns : Owes(j)'
  BY <1>8 DEF RestoreIsOwed, Owes
<1>9. ASSUME NEW k \in Conns, NEW c \in Clients,
             DuckSet(k, c) \/ RestoreSet(k, c)
      PROVE \E j \in Conns : Owes(j)'
  BY <1>8, <1>9 DEF DuckSet, RestoreSet
<1>10. ASSUME NEW r \in Asked, ManualWhileDucked(r) \/ ManualDirect(r)
       PROVE \E j \in Conns : Owes(j)'
  BY <1>8, <1>10 DEF ManualWhileDucked, ManualDirect
<1>11. ASSUME ManualStep PROVE \E j \in Conns : Owes(j)'
  BY <1>8, <1>11
  DEF ManualStep, ManualMutes, ManualRead, ManualWrite, ManualFails
<1>12. CASE UNCHANGED duckerVars
  BY <1>8, <1>12 DEF duckerVars
<1> QED BY <1>1, <1>2, <1>4, <1>5, <1>6, <1>7, <1>9, <1>10, <1>11, <1>12
        DEF DuckerNext, TaskStep

-----------------------------------------------------------------------------
\* The inductive invariant holds in every reachable state.
THEOREM Invariance == DuckerSpec => []IInv
<1>1. DuckerInit => IInv
  BY TypeInit DEF DuckerInit, IInv, InOrder, RestoreIsOwed
<1>2. IInv /\ [DuckerNext]_duckerVars => IInv'
  BY TypeStep, OrderStep, OwedStep DEF IInv
<1> QED BY <1>1, <1>2, PTL DEF DuckerSpec

\* The ducker's state is well typed; in particular a restore always has a
\* record to write back.
THEOREM TypeCorrect == DuckerSpec => []DuckerTypeOK
<1>1. IInv => DuckerTypeOK
  BY DEF IInv
<1> QED BY <1>1, Invariance, PTL

\* Whatever the number of connections and however their turns end, a ducked
\* house always has a restore coming.
THEOREM RestoreAlwaysOwed == DuckerSpec => []RestoreIsOwed
<1>1. IInv => RestoreIsOwed
  BY DEF IInv
<1> QED BY <1>1, Invariance, PTL

-----------------------------------------------------------------------------
(* The restore is exact.                                                    *)

\* One holder of the lock; a record is there from the snapshot until it is
\* taken, and the page's handler goes by whether it was there when it began.
LockInv ==
  /\ \A j, k \in Conns :
       /\ task[j] \in {"resolving", "attenuating"}
       /\ task[k] \in {"resolving", "attenuating"}
       => j = k
  /\ manual # "idle" =>
       \A k \in Conns : task[k] \notin {"resolving", "attenuating"}
  /\ \A k \in Conns : /\ task[k] = "resolving" => record = NoRecord
                      /\ task[k] = "attenuating" => record # NoRecord
  /\ manual \in {"reading", "writing"} => record = NoRecord
  /\ manual = "muting" => record # NoRecord

\* What the level v of client c becomes by the change the page is making.
Lands(c, v) ==
  IF manual \in {"reading", "writing"} /\ request.client = c
    THEN Chosen(request, v) ELSE v

\* Where the level the user chose is kept: in the record while there is one,
\* and then in what a restore has still to write, or in the volume.
ExactInv ==
  \A c \in Clients \ spoiled :
    /\ record # NoRecord => record[c] = wanted[c] /\ ~BeingRestored(c)
    /\ record = NoRecord =>
         /\ \A k \in Conns : task[k] = "restoring" /\ c \in todo[k] =>
              Lands(c, taken[k][c]) = wanted[c]
         /\ ~BeingRestored(c) => Lands(c, volume[c]) = wanted[c]

\* A change made while ducked keeps a record.
LEMMA KeepsRecord ==
  ASSUME DuckerTypeOK, NEW r \in Asked, ManualWhileDucked(r)
  PROVE  record' # NoRecord
<1>1. r \in Requests /\ r.client \in Clients
  BY DEF Asked, Requests
<1>2. record' \in Records
  BY <1>1, ChosenIsVol, NoRecordAssumption
  DEF DuckerTypeOK, ManualWhileDucked, Records
<1> QED BY <1>2, NoRecordAssumption

\* Every step keeps to the lock.
LEMMA LockStep == DuckerTypeOK /\ LockInv /\ [DuckerNext]_duckerVars => LockInv'
<1> SUFFICES ASSUME DuckerTypeOK, LockInv, [DuckerNext]_duckerVars PROVE LockInv'
  OBVIOUS
<1> USE DEF taskVars, manualVars, historyVars
<1>1. ASSUME NEW k \in Conns,
             \/ FirstSpeaking(k) \/ TurnOver(k)
             \/ \E c \in Clients : DuckSet(k, c) \/ RestoreSet(k, c)
      PROVE  LockInv'
  BY <1>1 DEF LockInv, FirstSpeaking, TurnOver, DuckSet, RestoreSet
<1>2. ASSUME NEW k \in Conns, task' = [task EXCEPT ![k] = "ready"],
             UNCHANGED <<record, manual>>
      PROVE  LockInv'
  BY <1>2 DEF LockInv, DuckerTypeOK
<1>3. ASSUME NEW k \in Conns,
             \/ DuckAgain(k) \/ DuckDone(k) \/ DuckFails(k)
             \/ RestoreNothing(k) \/ RestoreDone(k) \/ RestoreFails(k)
      PROVE  LockInv'
  BY <1>2, <1>3 DEF DuckAgain, DuckDone, DuckFails, RestoreNothing, RestoreDone,
    RestoreFails, NextRequest
<1>4. ASSUME NEW k \in Conns, DuckBegins(k) PROVE LockInv'
  BY <1>4 DEF LockInv, DuckerTypeOK, DuckBegins, LockFree
<1>5. ASSUME NEW k \in Conns, DuckSnapshot(k) PROVE LockInv'
  BY <1>5, NoRecordAssumption DEF LockInv, DuckerTypeOK, DuckSnapshot, Applying
<1>6. ASSUME NEW k \in Conns, RestoreTakes(k) PROVE LockInv'
  BY <1>6 DEF LockInv, DuckerTypeOK, RestoreTakes, LockFree
<1>7. ASSUME NEW r \in Asked, ManualWhileDucked(r) PROVE LockInv'
  <2>1. record' # NoRecord
    BY <1>7, KeepsRecord
  <2> QED BY <1>7, <2>1 DEF LockInv, ManualWhileDucked, LockFree
<1>8. ASSUME NEW r \in Asked, ManualDirect(r) PROVE LockInv'
  BY <1>8 DEF LockInv, ManualDirect, LockFree
<1>9. ASSUME ManualStep PROVE LockInv'
  BY <1>9 DEF LockInv, ManualStep, ManualMutes, ManualRead, ManualWrite,
    ManualFails
<1>10. CASE UNCHANGED duckerVars
  BY <1>10 DEF LockInv, duckerVars
<1> QED BY <1>1, <1>3, <1>4, <1>5, <1>6, <1>7, <1>8, <1>9, <1>10
        DEF DuckerNext, TaskStep

\* A task that only goes on to its next request leaves every level where it was,
\* except those of a restore it gives up.
LEMMA NextRequestExact ==
  ASSUME DuckerTypeOK, ExactInv, NEW k \in Conns, NextRequest(k),
         todo[k] \subseteq spoiled' \/ task[k] # "restoring",
         spoiled \subseteq spoiled',
         UNCHANGED <<record, wanted, manual, request>>,
         record # NoRecord \/ \A c \in Clients \ spoiled' : volume'[c] = volume[c]
  PROVE  ExactInv'
<1> SUFFICES ASSUME NEW c \in Clients \ spoiled'
             PROVE  /\ record' # NoRecord =>
                          record'[c] = wanted'[c] /\ ~BeingRestored(c)'
                    /\ record' = NoRecord =>
                         /\ \A j \in Conns :
                              task'[j] = "restoring" /\ c \in todo'[j] =>
                                Lands(c, taken[j][c])' = wanted'[c]
                         /\ ~BeingRestored(c)' =>
                              Lands(c, volume[c])' = wanted'[c]
  BY DEF ExactInv
<1>1. \A j \in Conns :
        task'[j] = "restoring" /\ c \in todo'[j]
          <=> task[j] = "restoring" /\ c \in todo[j]
  BY DEF NextRequest, DuckerTypeOK
<1>2. \A j \in Conns : task'[j] = "restoring" => taken'[j] = taken[j]
  BY DEF NextRequest, DuckerTypeOK
<1>3. BeingRestored(c)' <=> BeingRestored(c)
  BY <1>1 DEF BeingRestored
<1> QED BY <1>1, <1>2, <1>3 DEF ExactInv, Lands

\* A step that sets a volume while there is a record, or moves a task that does
\* not restore, changes nothing of what is owed to the user.
LEMMA ElsewhereExact ==
  ASSUME DuckerTypeOK, ExactInv,
         \A k \in Conns : \/ UNCHANGED <<task[k], todo[k], taken[k]>>
                          \/ task[k] # "restoring" /\ task'[k] # "restoring",
         UNCHANGED <<record, wanted, manual, request, spoiled>>,
         record # NoRecord \/ volume' = volume
  PROVE  ExactInv'
<1>1. \A c \in Clients : BeingRestored(c)' <=> BeingRestored(c)
  BY DEF BeingRestored
<1> QED BY <1>1 DEF ExactInv, Lands

\* The steps of a ducking task.
LEMMA DuckExact ==
  ASSUME DuckerTypeOK, LockInv, ExactInv, NEW k \in Conns,
         \/ DuckAgain(k) \/ DuckBegins(k) \/ DuckSnapshot(k) \/ DuckDone(k)
         \/ DuckFails(k) \/ \E c \in Clients : DuckSet(k, c)
  PROVE  ExactInv'
<1> USE DEF taskVars, manualVars, historyVars
<1>1. CASE DuckAgain(k) \/ DuckDone(k)
  BY <1>1, NextRequestExact DEF DuckAgain, DuckDone, Applying
<1>2. CASE DuckBegins(k)
  BY <1>2, ElsewhereExact DEF DuckBegins, Applying, DuckerTypeOK
<1>3. CASE DuckFails(k)
  <2>1. UNCHANGED <<record, wanted, manual, request, spoiled>> /\ NextRequest(k)
        /\ task[k] # "restoring"
    BY <1>3 DEF DuckFails, Applying
  <2>2. record # NoRecord \/ volume' = volume
    BY <1>3 DEF DuckFails, Applying, LockInv
  <2> QED BY <2>1, <2>2, NextRequestExact
<1>4. ASSUME NEW c \in Clients, DuckSet(k, c) PROVE ExactInv'
  <2>1. record # NoRecord
    BY <1>4 DEF DuckSet, Applying, LockInv
  <2> QED BY <1>4, <2>1, ElsewhereExact DEF DuckSet, Applying, DuckerTypeOK
<1>5. CASE DuckSnapshot(k)
  <2>1. manual = "idle" /\ record = NoRecord
    BY <1>5 DEF DuckSnapshot, Applying, LockInv
  <2>2. record' = volume /\ record' # NoRecord
    BY <1>5, NoRecordAssumption DEF DuckSnapshot, DuckerTypeOK
  <2>3. ASSUME NEW c \in Clients \ spoiled'
        PROVE  record'[c] = wanted'[c] /\ ~BeingRestored(c)'
    <3>1. c \notin spoiled /\ ~BeingRestored(c)
      BY <1>5, <2>3 DEF DuckSnapshot
    <3>2. ~BeingRestored(c)'
      BY <1>5, <3>1 DEF DuckSnapshot, BeingRestored, DuckerTypeOK
    <3> QED BY <1>5, <2>1, <2>2, <3>1, <3>2 DEF ExactInv, Lands, DuckSnapshot
  <2> QED BY <2>2, <2>3 DEF ExactInv
<1> QED BY <1>1, <1>2, <1>3, <1>4, <1>5

\* The steps of a restore.
LEMMA RestoreExact ==
  ASSUME DuckerTypeOK, LockInv, ExactInv, NEW k \in Conns,
         \/ RestoreNothing(k) \/ RestoreTakes(k) \/ RestoreDone(k)
         \/ RestoreFails(k) \/ \E c \in Clients : RestoreSet(k, c)
  PROVE  ExactInv'
<1> USE DEF taskVars, manualVars, historyVars
<1>1. CASE RestoreNothing(k) \/ RestoreDone(k)
  BY <1>1, NextRequestExact DEF RestoreNothing, RestoreDone, Applying
<1>2. CASE RestoreFails(k)
  <2>1. UNCHANGED <<record, wanted, manual, request>> /\ NextRequest(k)
        /\ spoiled' = spoiled \cup todo[k]
    BY <1>2 DEF RestoreFails
  <2>2. \A c \in Clients \ spoiled' : volume'[c] = volume[c]
    BY <1>2 DEF RestoreFails, DuckerTypeOK, Records
  <2> QED BY <2>1, <2>2, NextRequestExact
<1>3. CASE RestoreTakes(k)
  <2>1. manual = "idle" /\ manual' = "idle" /\ record # NoRecord
    BY <1>3 DEF RestoreTakes, LockFree
  <2>2. record' = NoRecord /\ taken'[k] = record /\ todo'[k] = Clients
        /\ task'[k] = "restoring" /\ UNCHANGED <<volume, wanted, spoiled>>
        /\ \A j \in Conns \ {k} : UNCHANGED <<task[j], todo[j], taken[j]>>
    BY <1>3 DEF RestoreTakes, DuckerTypeOK
  <2>3. ASSUME NEW c \in Clients \ spoiled
        PROVE  /\ \A j \in Conns : task'[j] = "restoring" /\ c \in todo'[j] =>
                    Lands(c, taken[j][c])' = wanted'[c]
               /\ BeingRestored(c)'
    <3>1. record[c] = wanted[c] /\ ~BeingRestored(c)
      BY <2>1 DEF ExactInv
    <3>2. \A j \in Conns : task'[j] = "restoring" /\ c \in todo'[j] => j = k
      BY <2>2, <3>1 DEF BeingRestored
    <3> QED BY <2>1, <2>2, <3>1, <3>2 DEF Lands, BeingRestored
  <2> QED BY <2>2, <2>3 DEF ExactInv
<1>4. ASSUME NEW d \in Clients, RestoreSet(k, d) PROVE ExactInv'
  <2>1. /\ task[k] = "restoring" /\ d \in todo[k]
        /\ volume'[d] = taken[k][d]
        /\ \A c \in Clients \ {d} : volume'[c] = volume[c]
        /\ todo'[k] = todo[k] \ {d}
        /\ \A j \in Conns \ {k} : todo'[j] = todo[j]
        /\ UNCHANGED <<task, taken, record, manual, request, wanted, spoiled>>
    BY <1>4 DEF RestoreSet, Applying, DuckerTypeOK, Records
  <2>2. \A c \in Clients \ {d} : BeingRestored(c)' <=> BeingRestored(c)
    BY <2>1 DEF BeingRestored
  <2>3. d \notin spoiled => record = NoRecord
    BY <2>1 DEF ExactInv, BeingRestored
  <2>4. \A c \in Clients, j \in Conns : c \in todo'[j] => c \in todo[j]
    BY <2>1
  <2>5. \A c \in Clients : \A v \in Vols : Lands(c, v)' = Lands(c, v)
    BY <2>1 DEF Lands
  <2>6. ASSUME NEW c \in Clients \ spoiled
        PROVE  /\ record' # NoRecord =>
                    record'[c] = wanted'[c] /\ ~BeingRestored(c)'
               /\ record' = NoRecord =>
                    /\ \A j \in Conns : task'[j] = "restoring" /\ c \in todo'[j] =>
                         Lands(c, taken[j][c])' = wanted'[c]
                    /\ ~BeingRestored(c)' => Lands(c, volume[c])' = wanted'[c]
    <3>1. CASE c # d
      BY <2>1, <2>2, <2>4, <3>1 DEF ExactInv, Lands
    <3>2. CASE c = d
      <4>1. record = NoRecord /\ Lands(c, taken[k][c]) = wanted[c]
        BY <2>1, <2>3, <3>2 DEF ExactInv
      <4>2. Lands(c, volume[c])' = wanted'[c]
        BY <2>1, <3>2, <4>1 DEF Lands
      <4>3. \A j \in Conns : task'[j] = "restoring" /\ c \in todo'[j] =>
              Lands(c, taken[j][c])' = wanted'[c]
        BY <2>1, <2>4, <4>1 DEF ExactInv, Lands
      <4> QED BY <2>1, <4>1, <4>2, <4>3
    <3> QED BY <3>1, <3>2
  <2> QED BY <2>1, <2>6 DEF ExactInv
<1> QED BY <1>1, <1>2, <1>3, <1>4

\* The steps of the page's handler.
LEMMA ManualExact ==
  ASSUME DuckerTypeOK, LockInv, ExactInv,
         \/ \E r \in Asked : ManualWhileDucked(r) \/ ManualDirect(r)
         \/ ManualStep
  PROVE  ExactInv'
<1> USE DEF taskVars, manualVars, historyVars
<1>0. \A c \in Clients : UNCHANGED <<task, todo>> =>
        (BeingRestored(c)' <=> BeingRestored(c))
  BY DEF BeingRestored
<1>1. ASSUME NEW r \in Asked, ManualWhileDucked(r) PROVE ExactInv'
  <2>1. r.client \in Clients
    BY DEF Asked, Requests
  <2>2. record' # NoRecord
    BY <1>1, KeepsRecord
  <2>3. \A c \in Clients \ spoiled : record'[c] = wanted'[c]
    BY <1>1, <2>1, NoRecordAssumption
    DEF ManualWhileDucked, ExactInv, DuckerTypeOK, Records
  <2> QED BY <1>0, <1>1, <2>2, <2>3 DEF ManualWhileDucked, ExactInv
<1>2. ASSUME NEW r \in Asked, ManualDirect(r) PROVE ExactInv'
  <2>1. r.client \in Clients
    BY DEF Asked, Requests
  <2>2. manual = "idle" /\ manual' \in {"reading", "writing"} /\ request' = r
        /\ UNCHANGED <<task, todo, taken, record, volume, spoiled>>
        /\ wanted'[r.client] = Chosen(r, wanted[r.client])
        /\ \A c \in Clients \ {r.client} : wanted'[c] = wanted[c]
    BY <1>2, <2>1 DEF ManualDirect, LockFree, DuckerTypeOK, Records
  <2>3. record = NoRecord
    BY <1>2 DEF ManualDirect
  <2>4. ASSUME NEW c \in Clients, NEW v
        PROVE  Lands(c, v)' = IF c = r.client THEN Chosen(r, v) ELSE v
    BY <2>2 DEF Lands
  <2> QED BY <1>0, <2>1, <2>2, <2>3, <2>4 DEF ExactInv, Lands
<1>3. CASE ManualMutes
  BY <1>0, <1>3 DEF ManualMutes, ExactInv, LockInv
<1>4. CASE ManualRead
  <2> DEFINE d == request.client
             full == Chosen(request, volume[d])
  <2>1. d \in Clients /\ request \in Requests
    BY DEF DuckerTypeOK, Requests
  <2>2. record = NoRecord /\ UNCHANGED <<task, todo, taken, record, volume, wanted>>
    BY <1>4 DEF ManualRead, LockInv
  <2>3. request'.client = d /\ request'.percent = {full.percent}
        /\ request'.muted = {full.muted}
    BY <1>4, <2>1 DEF ManualRead, Requests
  <2>4. \A v : Chosen(request', v) = full
    BY <2>3 DEF Chosen, OrElse
  <2>5. spoiled \subseteq spoiled' /\ (d \notin spoiled' => ~BeingRestored(d))
    BY <1>4 DEF ManualRead, SpoilIfRestoring
  <2>6. manual = "reading" /\ manual' = "writing"
    BY <1>4 DEF ManualRead
  <2> HIDE DEF full
  <2>7. d \notin spoiled' => full = wanted[d]
    BY <2>1, <2>2, <2>5, <2>6 DEF ExactInv, Lands, full
  <2>8. ASSUME NEW c \in Clients, NEW v
        PROVE  /\ c # d => Lands(c, v)' = v /\ Lands(c, v) = v
               /\ c = d => Lands(c, v)' = full
    BY <2>3, <2>4, <2>6 DEF Lands
  <2> HIDE DEF d
  <2>9. ASSUME NEW c \in Clients \ spoiled'
        PROVE  /\ \A j \in Conns : task[j] = "restoring" /\ c \in todo[j] =>
                    Lands(c, taken[j][c])' = wanted[c]
               /\ ~BeingRestored(c) => Lands(c, volume[c])' = wanted[c]
    <3>1. CASE c # d
      BY <2>2, <2>5, <2>8, <3>1 DEF ExactInv
    <3>2. CASE c = d
      BY <2>2, <2>5, <2>7, <2>8, <3>2 DEF BeingRestored
    <3> QED BY <3>1, <3>2
  <2> QED BY <1>0, <2>2, <2>5, <2>9 DEF ExactInv
<1>5. CASE ManualWrite
  <2> DEFINE d == request.client
  <2>1. d \in Clients
    BY DEF DuckerTypeOK, Requests
  <2>2. record = NoRecord /\ UNCHANGED <<task, todo, taken, record, wanted>>
        /\ manual = "writing" /\ manual' = "idle"
    BY <1>5 DEF ManualWrite, LockInv
  <2>3. volume'[d] = Chosen(request, volume[d])
        /\ \A c \in Clients \ {d} : volume'[c] = volume[c]
    BY <1>5, <2>1 DEF ManualWrite, DuckerTypeOK, Records
  <2>4. spoiled \subseteq spoiled' /\ (d \notin spoiled' => ~BeingRestored(d))
    BY <1>5 DEF ManualWrite, SpoilIfRestoring
  <2>5. ASSUME NEW c \in Clients, NEW v
        PROVE  Lands(c, v)' = v
               /\ Lands(c, v) = IF c = d THEN Chosen(request, v) ELSE v
    BY <2>2 DEF Lands
  <2> HIDE DEF d
  <2>6. ASSUME NEW c \in Clients \ spoiled'
        PROVE  /\ \A j \in Conns : task[j] = "restoring" /\ c \in todo[j] =>
                    taken[j][c] = wanted[c]
               /\ ~BeingRestored(c) => volume'[c] = wanted[c]
    <3>1. CASE c # d
      BY <2>2, <2>3, <2>4, <2>5, <3>1 DEF ExactInv
    <3>2. CASE c = d
      <4>1. ~BeingRestored(c) /\ c \notin spoiled
        BY <2>4, <3>2
      <4>2. Chosen(request, volume[c]) = wanted[c]
        BY <2>1, <2>2, <2>5, <3>2, <4>1 DEF ExactInv
      <4> QED BY <2>3, <3>2, <4>1, <4>2 DEF BeingRestored
    <3> QED BY <3>1, <3>2
  <2> QED BY <1>0, <2>2, <2>5, <2>6 DEF ExactInv
<1>6. CASE ManualFails
  <2>1. CASE manual = "muting"
    BY <1>0, <1>6, <2>1 DEF ManualFails, ExactInv, LockInv
  <2>2. CASE manual # "muting"
    <3>1. /\ UNCHANGED <<task, todo, taken, record, wanted>>
          /\ spoiled' = spoiled \cup {request.client} /\ manual' = "idle"
          /\ \A c \in Clients \ spoiled' : volume'[c] = volume[c]
      BY <1>6, <2>2 DEF ManualFails, DuckerTypeOK, Records
    <3>2. ASSUME NEW c \in Clients \ spoiled', NEW v
          PROVE  Lands(c, v)' = v /\ Lands(c, v) = v
      BY <3>1 DEF Lands
    <3> QED BY <1>0, <3>1, <3>2 DEF ExactInv
  <2> QED BY <2>1, <2>2
<1> QED BY <1>1, <1>2, <1>3, <1>4, <1>5, <1>6 DEF ManualStep

LEMMA ExactStep ==
  DuckerTypeOK /\ LockInv /\ ExactInv /\ [DuckerNext]_duckerVars => ExactInv'
<1> SUFFICES ASSUME DuckerTypeOK, LockInv, ExactInv, [DuckerNext]_duckerVars
             PROVE  ExactInv'
  OBVIOUS
<1>1. ASSUME NEW k \in Conns, FirstSpeaking(k) \/ TurnOver(k) PROVE ExactInv'
  BY <1>1, ElsewhereExact DEF FirstSpeaking, TurnOver, taskVars, manualVars,
    historyVars
<1>2. ASSUME NEW k \in Conns, TaskStep(k) PROVE ExactInv'
  BY <1>2, DuckExact, RestoreExact DEF TaskStep
<1>3. CASE UNCHANGED duckerVars
  BY <1>3, ElsewhereExact DEF duckerVars, taskVars, manualVars, historyVars
<1> QED BY <1>1, <1>2, <1>3, ManualExact DEF DuckerNext

\* The restore is exact: when the ducker has come to rest, every client plays
\* at the level its user chose last, unless it was read or set inside a restore
\* or its request failed.
THEOREM RestoreAlwaysExact == DuckerSpec => []ExactUnlessSpoiled
<1> DEFINE EInv == DuckerTypeOK /\ LockInv /\ ExactInv
<1>1. DuckerInit => EInv
  <2> SUFFICES ASSUME DuckerInit PROVE LockInv /\ ExactInv
    BY TypeInit
  <2>1. LockInv
    BY DEF DuckerInit, LockInv
  <2>2. ExactInv
    BY DEF DuckerInit, ExactInv, Lands
  <2> QED BY <2>1, <2>2
<1>2. EInv /\ [DuckerNext]_duckerVars => EInv'
  BY TypeStep, LockStep, ExactStep
<1>3. EInv => ExactUnlessSpoiled
  BY DEF ExactInv, ExactUnlessSpoiled, Settled, BeingRestored, Lands
<1> QED BY <1>1, <1>2, <1>3, PTL DEF DuckerSpec

-----------------------------------------------------------------------------
(* The radio and Spotify.                                                   *)

\* A user that is about to play knows its station; a release is never on the
\* way to a station; the station is off when the speakers are turned back.
PathInv ==
  \A u \in Everyone :
    /\ at[u] = "pause" \/ Tuning(u) => tune[u] # "none"
    /\ at[u] = "release" => after[u] # "load"
    /\ at[u] = "cleared" => current = "none"

\* The speakers are where they should be whenever nobody is turning them.
RouteInv ==
  op = "free" /\ ~misrouted => (speakers = "web" <=> current # "none")

\* mpv plays what is on, or what the holder of the lock is about to put on.
TuneInv ==
  ~mistuned =>
    /\ op = "free" => player \in {current, "none"}
    /\ \A u \in Everyone :
         /\ at[u] = "loaded" => player \in {tune[u], "none"}
         /\ at[u] \in {"silenced", "cleared"} => player = "none"

\* While Spotify plays as it should, no station is on and nobody is about to
\* put one on.
SpotifyInv ==
  spotify /\ ~uninvited =>
    current = "none" /\ \A u \in Everyone : ~Tuning(u)

RadioIInv == RadioTypeOK /\ PathInv /\ RouteInv /\ TuneInv /\ SpotifyInv

LEMMA RadioInitInv == RadioInit => RadioIInv
<1> SUFFICES ASSUME RadioInit PROVE RadioIInv
  OBVIOUS
<1>1. RadioTypeOK
  BY RadioAssumption DEF RadioInit, RadioTypeOK, Everyone
<1>2. PathInv /\ RouteInv /\ TuneInv /\ SpotifyInv
  BY DEF RadioInit, PathInv, RouteInv, TuneInv, SpotifyInv, Tuning
<1>3. QED
  BY <1>1, <1>2 DEF RadioIInv

\* A command is taken by a user that is idle.
LEMMA CommandKeeps ==
  ASSUME RadioIInv, NEW u \in Users,
         \/ \E s \in Stations : Play(u, s)
         \/ StepStation(u) \/ StopRadio(u) \/ StartSpotify(u)
  PROVE  RadioIInv'
<1> USE DEF RadioIInv, Command, Move
<1>1. u \in Everyone /\ at[u] = "idle" /\ u # "tick"
  BY RadioAssumption DEF Everyone, Play, StepStation, StopRadio, StartSpotify
<1>2. /\ UNCHANGED <<current, player, speakers, spotify, op, wasPlaying,
                     misrouted, mistuned, resetDue>>
      /\ \A v \in Everyone \ {u} :
           at'[v] = at[v] /\ tune'[v] = tune[v] /\ after'[v] = after[v]
      /\ at'[u] \in {"pause", "load", "stop", "release"}
  BY <1>1 DEF RadioTypeOK, Play, StepStation, StopRadio, StartSpotify
<1>3. RadioTypeOK'
  BY <1>1, <1>2 DEF RadioTypeOK, Play, StepStation, StopRadio, StartSpotify,
    Stations, Others
<1>4. PathInv'
  <2>1. at'[u] = "pause" \/ Tuning(u)' => tune'[u] # "none"
    BY <1>1 DEF RadioTypeOK, Tuning, Play, StepStation, StopRadio,
      StartSpotify, Stations, Others
  <2>2. at'[u] = "release" => after'[u] # "load"
    BY <1>1 DEF RadioTypeOK, Play, StepStation, StopRadio, StartSpotify
  <2>3. QED
    BY <1>2, <2>1, <2>2 DEF PathInv, Tuning
<1>5. RouteInv' /\ TuneInv'
  BY <1>1, <1>2 DEF RouteInv, TuneInv
<1>6. SpotifyInv'
  <2>1. \A v \in Everyone \ {u} : Tuning(v)' <=> Tuning(v)
    BY <1>2 DEF Tuning
  <2>2. Tuning(u)' /\ spotify /\ ~uninvited' => current # "none"
    <3>1. ASSUME NEW s \in Stations, Play(u, s)
          PROVE  Tuning(u)' => current # "none"
      BY <1>1, <3>1 DEF RadioTypeOK, Tuning, Play
    <3>2. CASE StepStation(u)
      BY <3>2 DEF StepStation
    <3>3. CASE StopRadio(u) \/ StartSpotify(u)
      BY <1>1, <3>3 DEF RadioTypeOK, Tuning, StopRadio, StartSpotify
    <3>4. QED
      BY <3>1, <3>2, <3>3
  <2>3. ~uninvited' => ~uninvited
    BY DEF Play, StepStation, StopRadio, StartSpotify
  <2>4. QED
    BY <1>1, <1>2, <2>1, <2>2, <2>3 DEF SpotifyInv
<1>7. QED
  BY <1>3, <1>4, <1>5, <1>6

\* The steps that hold no lock.
LEMMA OutsideKeeps ==
  ASSUME RadioIInv, NEW u \in Everyone,
         PauseFirst(u) \/ LoadFails(u) \/ SpotifyStarts(u)
  PROVE  RadioIInv'
<1> USE DEF RadioIInv, Move, Fine, Mishap
<1>1. /\ UNCHANGED <<current, player, speakers, op, tune, wasPlaying, misrouted,
                     mistuned, resetDue>>
      /\ \A v \in Everyone \ {u} : at'[v] = at[v] /\ after'[v] = after[v]
      /\ at[u] \in {"pause", "load", "start"}
      /\ at'[u] \in {"stop", "load", "idle"}
  BY DEF RadioTypeOK, PauseFirst, LoadFails, SpotifyStarts
<1>2. RadioTypeOK'
  <2>1. CASE PauseFirst(u)
    BY <1>1, <2>1 DEF RadioTypeOK, PauseFirst
  <2>2. CASE LoadFails(u)
    BY <1>1, <2>2 DEF RadioTypeOK, LoadFails
  <2>3. CASE SpotifyStarts(u)
    BY <1>1, <2>3 DEF RadioTypeOK, SpotifyStarts
  <2>4. QED
    BY <2>1, <2>2, <2>3
<1>3. PathInv'
  <2>1. Tuning(u)' => tune[u] # "none"
    BY <1>1 DEF RadioTypeOK, PathInv, Tuning, PauseFirst, LoadFails,
      SpotifyStarts
  <2>2. QED
    BY <1>1, <2>1 DEF PathInv, Tuning
<1>4. RouteInv' /\ TuneInv'
  BY <1>1 DEF RouteInv, TuneInv
<1>5. SpotifyInv'
  <2>1. CASE PauseFirst(u)
    BY <1>1, <2>1 DEF RadioTypeOK, SpotifyInv, Tuning, PauseFirst
  <2>2. CASE LoadFails(u)
    BY <1>1, <2>2 DEF RadioTypeOK, SpotifyInv, Tuning, LoadFails
  <2>3. CASE SpotifyStarts(u)
    BY <1>1, <2>3 DEF RadioTypeOK, SpotifyInv, Tuning, SpotifyStarts
  <2>4. QED
    BY <2>1, <2>2, <2>3
<1>6. QED
  BY <1>2, <1>3, <1>4, <1>5

\* The steps that take the op lock, change something under it or let it go.
LEMMA LockedKeeps ==
  ASSUME RadioIInv, NEW u \in Everyone,
         \/ LoadStation(u) \/ PlayDone(u) \/ StopPlayer(u) \/ ReleaseIdle(u)
         \/ ClearStation(u) \/ RouteBack(u)
  PROVE  RadioIInv'
<1> USE DEF RadioIInv, Move, Fine, Mishap
<1>1. /\ UNCHANGED <<spotify, tune, after, wasPlaying, uninvited, resetDue>>
      /\ \A v \in Everyone \ {u} :
           /\ at'[v] = at[v]
           /\ at[v] \notin {"loaded", "silenced", "cleared"}
      /\ "free" \notin Everyone
  BY RadioAssumption DEF RadioTypeOK, LoadStation, PlayDone, StopPlayer,
    ReleaseIdle, ClearStation, RouteBack, Everyone
<1>2. RadioTypeOK'
  <2>1. CASE LoadStation(u) \/ StopPlayer(u) \/ ReleaseIdle(u)
    BY <1>1, <2>1 DEF RadioTypeOK, LoadStation, StopPlayer, ReleaseIdle
  <2>2. CASE PlayDone(u)
    BY <1>1, <2>2 DEF RadioTypeOK, PlayDone
  <2>3. CASE ClearStation(u)
    BY <1>1, <2>3 DEF RadioTypeOK, ClearStation
  <2>4. CASE RouteBack(u)
    <3>1. at'[u] = after[u] /\ after[u] \in {"idle", "load", "start"}
      BY <2>4 DEF RadioTypeOK, RouteBack
    <3>2. QED
      BY <1>1, <2>4, <3>1 DEF RadioTypeOK, RouteBack
  <2>5. QED
    BY <2>1, <2>2, <2>3, <2>4
<1>3. Tuning(u)' => Tuning(u)
  BY DEF RadioTypeOK, PathInv, Tuning, LoadStation, PlayDone, StopPlayer,
    ReleaseIdle, ClearStation, RouteBack
<1>4. PathInv'
  <2>1. /\ at'[u] # "pause" /\ (at'[u] = "release" => after'[u] # "load")
        /\ at'[u] = "cleared" => current' = "none"
    BY DEF RadioTypeOK, LoadStation, PlayDone, StopPlayer, ReleaseIdle,
      ClearStation, RouteBack
  <2>2. QED
    BY <1>1, <1>3, <2>1 DEF PathInv, Tuning
<1>5. RouteInv'
  <2>1. CASE PlayDone(u)
    BY <2>1 DEF PathInv, RouteInv, Tuning, PlayDone
  <2>2. CASE RouteBack(u)
    BY <2>2 DEF PathInv, RouteInv, RouteBack
  <2>3. CASE LoadStation(u) \/ StopPlayer(u) \/ ReleaseIdle(u)
    BY <1>1, <2>3 DEF RouteInv, LoadStation, StopPlayer, ReleaseIdle
  <2>4. CASE ClearStation(u)
    BY <1>1, <2>4 DEF RouteInv, ClearStation, RadioTypeOK
  <2>5. QED
    BY <2>1, <2>2, <2>3, <2>4
<1>6. TuneInv'
  <2>1. CASE LoadStation(u)
    BY <1>1, <2>1 DEF RadioTypeOK, TuneInv, LoadStation
  <2>2. CASE PlayDone(u)
    BY <1>1, <2>2 DEF RadioTypeOK, TuneInv, PlayDone
  <2>3. CASE StopPlayer(u)
    BY <1>1, <2>3 DEF RadioTypeOK, TuneInv, StopPlayer
  <2>4. CASE ReleaseIdle(u)
    BY <1>1, <2>4 DEF RadioTypeOK, TuneInv, ReleaseIdle
  <2>5. CASE ClearStation(u)
    BY <1>1, <2>5 DEF RadioTypeOK, TuneInv, ClearStation
  <2>6. CASE RouteBack(u)
    BY <1>1, <2>6 DEF RadioTypeOK, TuneInv, RouteBack
  <2>7. QED
    BY <2>1, <2>2, <2>3, <2>4, <2>5, <2>6
<1>7. SpotifyInv'
  <2>1. current' # "none" => current # "none" \/ Tuning(u)
    BY DEF LoadStation, PlayDone, StopPlayer, ReleaseIdle, ClearStation,
      RouteBack, Tuning
  <2>2. QED
    BY <1>1, <1>3, <2>1 DEF SpotifyInv, Tuning
<1>8. QED
  BY <1>2, <1>4, <1>5, <1>6, <1>7

\* The tick: only its reload touches mpv, and it says so if it crossed someone.
LEMMA TickKeeps ==
  ASSUME RadioIInv, TickStep
  PROVE  RadioIInv'
<1> USE DEF RadioIInv, Move, Mishap
<1>1. /\ UNCHANGED <<current, speakers, spotify, op, misrouted, uninvited,
                     resetDue>>
      /\ "tick" \in Everyone
      /\ at["tick"] \notin {"loaded", "silenced", "cleared"}
      /\ at'["tick"] \in {"idle", "release", "song", "ask", "reload"}
      /\ \A v \in Everyone \ {"tick"} :
           at'[v] = at[v] /\ tune'[v] = tune[v] /\ after'[v] = after[v]
      /\ at'["tick"] = "release" =>
           at["tick"] = "release" \/ after'["tick"] = "idle"
  BY DEF RadioTypeOK, Everyone, TickStep, TickSees, TickBlind,
    TickWithoutRadio, TickReadsStation, TickAsks, TickReloads
<1>2. RadioTypeOK'
  <2>1. CASE TickReadsStation
    BY <1>1, <2>1 DEF RadioTypeOK, TickReadsStation
  <2>2. CASE TickReloads
    BY <1>1, <2>2 DEF RadioTypeOK, TickReloads
  <2>3. CASE TickSees \/ TickBlind \/ TickWithoutRadio \/ TickAsks
    BY <1>1, <2>3 DEF RadioTypeOK, TickSees, TickBlind, TickWithoutRadio,
      TickAsks
  <2>4. QED
    BY <2>1, <2>2, <2>3 DEF TickStep
<1>3. PathInv'
  <2>1. at'["tick"] = "release" => after'["tick"] # "load"
    BY <1>1 DEF PathInv, TickStep, TickSees, TickBlind, TickWithoutRadio,
      TickReadsStation, TickAsks, TickReloads
  <2>2. QED
    BY <1>1, <2>1 DEF PathInv, Tuning
<1>4. RouteInv'
  BY <1>1 DEF RouteInv
<1>5. TuneInv'
  <2>1. CASE TickReloads /\ player' # player
    <3>1. player' = tune["tick"]
          /\ mistuned' = (mistuned \/ op # "free" \/ current # tune["tick"])
      BY <2>1 DEF TickReloads
    <3>2. "free" \notin Everyone
      BY RadioAssumption DEF Everyone
    <3>3. op = "free" =>
            \A v \in Everyone : at[v] \notin {"loaded", "silenced", "cleared"}
      BY <3>2 DEF RadioTypeOK
    <3>4. QED
      BY <1>1, <3>1, <3>3 DEF TuneInv
  <2>2. CASE player' = player
    BY <1>1, <2>2 DEF TuneInv, TickStep, TickSees, TickBlind,
      TickWithoutRadio, TickReadsStation, TickAsks, TickReloads
  <2>3. QED
    BY <2>1, <2>2 DEF TickStep, TickSees, TickBlind, TickWithoutRadio,
      TickReadsStation, TickAsks
<1>6. SpotifyInv'
  BY <1>1 DEF SpotifyInv, Tuning
<1>7. QED
  BY <1>2, <1>3, <1>4, <1>5, <1>6

\* The turn that is dropped, the reset after boot, the phone and the stream.
LEMMA WorldKeeps ==
  ASSUME RadioIInv,
         \/ TurnDropped \/ ResetRouting \/ PhoneStarts \/ SpotifyPauses
         \/ StreamDrops
  PROVE  RadioIInv'
<1> USE DEF RadioIInv, Move, Fine, Mishap
<1>1. CASE TurnDropped
  <2>1. "turn" \in Everyone /\ "free" \notin Everyone
    BY <1>1, RadioAssumption DEF TurnDropped, Everyone
  <2>2. /\ at'["turn"] = "idle"
        /\ \A v \in Everyone \ {"turn"} : at'[v] = at[v]
        /\ UNCHANGED <<current, player, speakers, spotify, tune, after,
                       uninvited>>
    BY <1>1, <2>1 DEF TurnDropped, RadioTypeOK
  <2>3. RadioTypeOK'
    BY <1>1, <2>1, <2>2 DEF TurnDropped, RadioTypeOK
  <2>4. PathInv' /\ SpotifyInv'
    BY <2>1, <2>2 DEF PathInv, SpotifyInv, Tuning
  <2>5. RouteInv' /\ TuneInv'
    BY <1>1, <2>1, <2>2 DEF TurnDropped, RouteInv, TuneInv
  <2>6. QED
    BY <2>3, <2>4, <2>5
<1>2. CASE ResetRouting
  BY <1>2 DEF ResetRouting, RadioTypeOK, PathInv, RouteInv, TuneInv,
    SpotifyInv, Tuning
<1>3. CASE PhoneStarts \/ SpotifyPauses
  BY <1>3 DEF PhoneStarts, SpotifyPauses, RadioTypeOK, PathInv, RouteInv,
    TuneInv, SpotifyInv, Tuning
<1>4. CASE StreamDrops
  BY <1>4 DEF StreamDrops, RadioTypeOK, PathInv, RouteInv, TuneInv,
    SpotifyInv, Tuning
<1>5. QED
  BY <1>1, <1>2, <1>3, <1>4

LEMMA RadioInvStep == RadioIInv /\ [RadioNext]_radioVars => RadioIInv'
<1> SUFFICES ASSUME RadioIInv, [RadioNext]_radioVars PROVE RadioIInv'
  OBVIOUS
<1>1. CASE UNCHANGED radioVars
  BY <1>1 DEF radioVars, RadioIInv, RadioTypeOK, PathInv, RouteInv, TuneInv,
    SpotifyInv, Tuning
<1>2. CASE RadioNext
  BY <1>2, CommandKeeps, OutsideKeeps, LockedKeeps, TickKeeps, WorldKeeps
  DEF RadioNext, RadioStep
<1>3. QED
  BY <1>1, <1>2

\* Every reachable state of the radio satisfies the inductive invariant.
THEOREM RadioInvariance == RadioSpec => []RadioIInv
  BY RadioInitInv, RadioInvStep, PTL DEF RadioSpec

\* The types, and that the op lock is held exactly between the first and the
\* last change.
THEOREM RadioTypeCorrect == RadioSpec => []RadioTypeOK
<1>1. RadioIInv => RadioTypeOK
  BY DEF RadioIInv
<1>2. QED
  BY <1>1, RadioInvariance, PTL

\* What is on is what is heard, whoever raced whom to it.
THEOREM StationAlwaysHeard == RadioSpec => []StationIsHeard
<1>1. RadioIInv => StationIsHeard
  BY DEF RadioIInv, RadioTypeOK, StationIsHeard, RouteInv, TuneInv, SpotifyInv
<1>2. QED
  BY <1>1, RadioInvariance, PTL
=============================================================================
