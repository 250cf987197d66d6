------------------------ MODULE SettingsStore_proofs ------------------------
(***************************************************************************)
(* Proofs about SettingsStore: whatever the people, the keys and the       *)
(* bounds, no change to the settings is lost to another, the LLM follows   *)
(* them, what is in the file can be booted from and boots into what was    *)
(* live, and whoever has a voiceprint is in the roster.                    *)
(***************************************************************************)
EXTENDS SettingsStore, TLAPS

USE SettingsAssumption

----------------------------------------------------------------------------
(* The operators.                                                          *)

\* What holds of the settings at any time: the recipients are the phones,
\* phones belong to members, and the LLM they ask for can be built.
Sound(s) ==
  /\ s.recipients = s.phones
  /\ s.phones \subseteq s.members
  /\ Buildable(s)

\* A key read back over any environment is a live key.
LEMMA OverlayKeyType ==
  ASSUME NEW e \in LiveKeys, NEW p \in FileKeys
  PROVE  OverlayKey(e, p) \in LiveKeys
BY DEF OverlayKey, LiveKeys, FileKeys

\* A key that was written and read back with the same environment is itself.
LEMMA KeyRoundTrip ==
  ASSUME NEW k \in LiveKeys, NEW e \in LiveKeys
  PROVE  /\ PersistKey(k, e) \in FileKeys
         /\ OverlayKey(e, PersistKey(k, e)) = k
         /\ k # "none" => PersistKey(k, e) \in Keys
BY DEF OverlayKey, PersistKey, LiveKeys, FileKeys

\* Settings are equal when their fields are.
LEMMA SameSettings ==
  ASSUME NEW s \in Settings, NEW r \in Settings,
         s.backend = r.backend, s.key = r.key, s.members = r.members,
         s.phones = r.phones, s.recipients = r.recipients
  PROVE  s = r
BY DEF Settings

\* A change of the household, field by field.
LEMMA WithHouseholdFields ==
  ASSUME NEW s \in Settings, NEW m \in SUBSET People, NEW p \in SUBSET People
  PROVE  /\ WithHousehold(s, m, p) \in Settings
         /\ WithHousehold(s, m, p).backend = s.backend
         /\ WithHousehold(s, m, p).key = s.key
         /\ WithHousehold(s, m, p).members = m
         /\ WithHousehold(s, m, p).phones = p
         /\ WithHousehold(s, m, p).recipients = p
BY DEF WithHousehold, Settings

\* Settings give an LLM to build.
LEMMA ToolsType ==
  ASSUME NEW s \in Settings PROVE ToolsOf(s) \in Builds
BY DEF ToolsOf, Settings, Builds

\* The recipients a boot starts from.
KeptPhones(f) ==
  IF f.state = "good" /\ f.recipients # {} THEN f.recipients ELSE SeedPhones

\* What a boot makes of a file, field by field.
LEMMA ResolveFields ==
  ASSUME NEW f \in Files, NEW e \in LiveKeys
  PROVE  /\ Resolve(f, e) \in Settings
         /\ Resolve(f, e).recipients = Resolve(f, e).phones
         /\ f.state = "good" =>
              /\ Resolve(f, e).backend = f.backend
              /\ Resolve(f, e).key = OverlayKey(e, f.key)
              /\ Resolve(f, e).members = f.members \union KeptPhones(f)
              /\ Resolve(f, e).phones = f.phones \union KeptPhones(f)
         /\ f.state # "good" =>
              /\ Resolve(f, e).backend = "local"
              /\ Resolve(f, e).key = e
              /\ Resolve(f, e).members = SeedPhones
              /\ Resolve(f, e).phones = SeedPhones
<1> DEFINE saved == f.state = "good"
           p == (IF saved THEN f.phones ELSE {}) \union KeptPhones(f)
           m == (IF saved THEN f.members ELSE {}) \union KeptPhones(f)
           base == [backend |-> IF saved THEN f.backend ELSE "local",
                    key |-> IF saved THEN OverlayKey(e, f.key) ELSE e,
                    members |-> {}, phones |-> {}, recipients |-> {}]
<1>1. Resolve(f, e) = WithHousehold(base, m, p)
  BY DEF Resolve, KeptPhones
<1>2. base \in Settings
  <2>1. saved => f.backend \in Backends /\ OverlayKey(e, f.key) \in LiveKeys
    BY OverlayKeyType DEF Files
  <2>2. QED
    BY <2>1 DEF Settings, Backends
<1>3. m \in SUBSET People /\ p \in SUBSET People
  BY DEF Files, KeptPhones
<1>4. /\ WithHousehold(base, m, p) \in Settings
      /\ WithHousehold(base, m, p).backend = base.backend
      /\ WithHousehold(base, m, p).key = base.key
      /\ WithHousehold(base, m, p).members = m
      /\ WithHousehold(base, m, p).phones = p
      /\ WithHousehold(base, m, p).recipients = p
  <2> HIDE DEF base, m, p
  <2>1. QED
    BY <1>2, <1>3, WithHouseholdFields
<1>5. f.state # "good" => KeptPhones(f) = SeedPhones
  BY DEF KeptPhones
<1>6. QED
  BY <1>1, <1>4, <1>5

\* A key the file decides does not depend on the environment.
LEMMA ResolveDecided ==
  ASSUME NEW f \in Files, NEW e \in LiveKeys, NEW d \in LiveKeys,
         f.state = "good", f.key # "null"
  PROVE  Resolve(f, e) = Resolve(f, d)
<1>1. OverlayKey(e, f.key) = OverlayKey(d, f.key)
  BY DEF OverlayKey
<1>2. /\ Resolve(f, e) \in Settings
      /\ Resolve(f, e).backend = f.backend
      /\ Resolve(f, e).key = OverlayKey(e, f.key)
      /\ Resolve(f, e).members = f.members \union KeptPhones(f)
      /\ Resolve(f, e).phones = f.phones \union KeptPhones(f)
      /\ Resolve(f, e).recipients = Resolve(f, e).phones
  BY ResolveFields
<1>3. /\ Resolve(f, d) \in Settings
      /\ Resolve(f, d).backend = f.backend
      /\ Resolve(f, d).key = OverlayKey(d, f.key)
      /\ Resolve(f, d).members = f.members \union KeptPhones(f)
      /\ Resolve(f, d).phones = f.phones \union KeptPhones(f)
      /\ Resolve(f, d).recipients = Resolve(f, d).phones
  BY ResolveFields
<1>4. QED
  BY <1>1, <1>2, <1>3, SameSettings

\* What is written, field by field.
LEMMA FileOfFields ==
  ASSUME NEW s \in Settings, NEW e \in LiveKeys
  PROVE  /\ FileOf(s, e) \in Files
         /\ FileOf(s, e).state = "good"
         /\ FileOf(s, e).backend = s.backend
         /\ FileOf(s, e).key = PersistKey(s.key, e)
         /\ FileOf(s, e).members = s.members
         /\ FileOf(s, e).phones = s.phones
         /\ FileOf(s, e).recipients = s.recipients
<1>1. PersistKey(s.key, e) \in FileKeys
  BY KeyRoundTrip DEF Settings
<1>2. QED
  BY <1>1 DEF FileOf, Files, Settings

\* What is written is what is booted, unless an emptied list of recipients
\* lets the configuration file's stand.
LEMMA RoundTrip ==
  ASSUME NEW s \in Settings, NEW e \in LiveKeys, Sound(s),
         s.phones # {} \/ SeedPhones = {}
  PROVE  Resolve(FileOf(s, e), e) = s
<1> DEFINE f == FileOf(s, e)
<1>1. /\ f \in Files /\ f.state = "good" /\ f.backend = s.backend
      /\ f.key = PersistKey(s.key, e) /\ f.members = s.members
      /\ f.phones = s.phones /\ f.recipients = s.recipients
  BY FileOfFields
<1> HIDE DEF f
<1>2. KeptPhones(f) = s.phones
  BY <1>1 DEF KeptPhones, Sound
<1>3. OverlayKey(e, f.key) = s.key
  BY <1>1, KeyRoundTrip DEF Settings
<1>4. /\ Resolve(f, e) \in Settings
      /\ Resolve(f, e).backend = f.backend
      /\ Resolve(f, e).key = OverlayKey(e, f.key)
      /\ Resolve(f, e).members = f.members \union KeptPhones(f)
      /\ Resolve(f, e).phones = f.phones \union KeptPhones(f)
      /\ Resolve(f, e).recipients = Resolve(f, e).phones
  BY <1>1, ResolveFields
<1>5. /\ f.members \union KeptPhones(f) = s.members
      /\ f.phones \union KeptPhones(f) = s.phones
  BY <1>1, <1>2 DEF Sound
<1>7. Resolve(f, e) = s
  BY <1>1, <1>3, <1>4, <1>5, SameSettings DEF Sound
<1>8. QED
  BY <1>7 DEF f

----------------------------------------------------------------------------
(* The invariant.  Between taking the lock and the swap the candidate is   *)
(* everything accepted so far; between the swap and the write the live     *)
(* settings are the candidate; at rest the live settings are everything    *)
(* accepted, and the file either was booted into them or written from them.*)

OneCommit == \A v, w \in Writers : Holds(v) /\ Holds(w) => v = w

AllSound ==
  /\ Sound(live)
  /\ \A w \in Writers : Holds(w) => Sound(cand[w].to)

InFlight ==
  /\ up /\ LockFree => live = want
  /\ \A w \in Writers : pc[w] = "swap" => want = cand[w].to
  /\ \A w \in Writers : pc[w] = "persist" => live = want /\ live = cand[w].to

ToolsInv ==
  /\ up /\ LockFree /\ ~unbuilt => tools = ToolsOf(live)
  /\ \A w \in Writers :
       pc[w] = "swap" /\ ~unbuilt => cand[w].build = ToolsOf(cand[w].to)
  /\ \A w \in Writers : pc[w] = "persist" /\ ~unbuilt => tools = ToolsOf(live)

FileInv ==
  /\ file.state = "good" =>
       /\ file.phones \subseteq file.members
       /\ file.backend = "cloud" => file.key \in Keys
  /\ up /\ ~unsaved =>
       live = Resolve(file, seedKey) \/ file = FileOf(live, seedKey)
  /\ \A w \in Writers : pc[w] = "persist" => unsaved

\* What the commits keep of one another.
Commits == OneCommit /\ AllSound /\ InFlight /\ ToolsInv /\ FileInv

DownIsIdle == ~up => \A w \in Writers : pc[w] = "idle"

\* A voiceprint's owner is in the roster as accepted so far, left it, or is
\* about to be added; while the Core is down, is in what it will boot.
Roster ==
  /\ up => live.members \subseteq want.members \union dropped
  /\ up => \A x \in voices \ dropped :
             \/ x \in want.members
             \/ who = x /\ pc["enroll"] \in {"ensure", "lock"}
  /\ pc["enroll"] = "known" => who \in want.members \union dropped
  /\ ~up => \A x \in voices \ dropped : x \in Resolve(file, "none").members

IInv == SettingsTypeOK /\ Commits /\ DownIsIdle /\ Roster

----------------------------------------------------------------------------
(* Types.                                                                  *)

\* An absent or damaged file is a file that holds nothing.
LEMMA NoFile ==
  /\ Unreadable("absent") \in Files /\ Unreadable("bad") \in Files
  /\ Unreadable("absent").state # "good" /\ Unreadable("bad").state # "good"
BY DEF Unreadable, Files, Backends, FileKeys

\* The resting candidate has its type.
LEMMA NoCandidateType == NoCandidate \in [to : Settings, build : Builds]
<1>1. Resolve(Unreadable("absent"), "none") \in Settings
  BY NoFile, ResolveFields DEF LiveKeys
<1>2. QED
  BY <1>1, ToolsType DEF NoCandidate

\* The initial values have their types.
LEMMA TypeInit == SettingsInit => SettingsTypeOK
<1> SUFFICES ASSUME SettingsInit PROVE SettingsTypeOK
  OBVIOUS
<1>1. env \in LiveKeys /\ seedKey \in LiveKeys /\ file \in Files
  BY NoFile DEF SettingsInit
<1>2. live \in Settings /\ want \in Settings
  BY <1>1, ResolveFields DEF SettingsInit
<1>3. tools \in Builds
  BY <1>2, ToolsType DEF SettingsInit
<1>4. cand \in [Writers -> [to : Settings, build : Builds]]
  BY NoCandidateType DEF SettingsInit
<1>5. /\ pc \in [Writers -> {"idle", "swap", "persist", "known", "stranger",
                            "ensure", "lock"}]
      /\ who \in People /\ voices \subseteq People
      /\ unlinked \subseteq People /\ dropped \subseteq People
  BY DEF SettingsInit
<1>6. up \in BOOLEAN /\ unsaved \in BOOLEAN /\ unbuilt \in BOOLEAN
  BY DEF SettingsInit
<1>7. /\ edits \in 0 .. MaxEdits /\ stops \in 0 .. MaxStops
      /\ faults \in 0 .. MaxFaults
  <2>1. edits = 0 /\ stops = 0 /\ faults = 0
    BY DEF SettingsInit
  <2>2. QED
    BY <2>1
<1>8. QED
  BY <1>1, <1>2, <1>3, <1>4, <1>5, <1>6, <1>7 DEF SettingsTypeOK

\* Taking the lock keeps the types of what it changes.
LEMMA TakeType ==
  ASSUME SettingsTypeOK, NEW w \in Writers, NEW next \in Settings,
         NEW build \in Builds, Take(w, next, build)
  PROVE  /\ cand' \in [Writers -> [to : Settings, build : Builds]]
         /\ pc' \in [Writers -> {"idle", "swap", "persist", "known",
                                 "stranger", "ensure", "lock"}]
         /\ unbuilt' \in BOOLEAN
BY DEF SettingsTypeOK, Take

\* So does a change with a best-effort rebuild.
LEMMA MutateType ==
  ASSUME SettingsTypeOK, NEW w \in Writers, NEW m \in SUBSET People,
         NEW p \in SUBSET People, Mutate(w, m, p)
  PROVE  /\ cand' \in [Writers -> [to : Settings, build : Builds]]
         /\ pc' \in [Writers -> {"idle", "swap", "persist", "known",
                                 "stranger", "ensure", "lock"}]
         /\ unbuilt' \in BOOLEAN
         /\ faults' \in 0 .. MaxFaults
<1> DEFINE next == WithHousehold(live, m, p)
<1>1. live \in Settings /\ tools \in Builds /\ faults \in 0 .. MaxFaults
  BY DEF SettingsTypeOK
<1>2. next \in Settings
  BY <1>1, WithHouseholdFields
<1>3. ToolsOf(next) \in Builds
  BY <1>2, ToolsType
<1>4. \/ Take(w, next, ToolsOf(next)) /\ faults' = faults
      \/ Take(w, next, tools) /\ faults < MaxFaults /\ faults' = faults + 1
  BY DEF Mutate
<1> HIDE DEF next
<1>5. QED
  BY <1>1, <1>2, <1>3, <1>4, TakeType

\* Every step keeps the types.
LEMMA TypeStep ==
  ASSUME SettingsTypeOK, [SettingsNext]_settingsVars
  PROVE  SettingsTypeOK'
<1>1. ASSUME NEW b \in Backends, NEW k \in LiveKeys, Apply(b, k)
      PROVE  SettingsTypeOK'
  <2> DEFINE next == [live EXCEPT !.backend = b, !.key = k]
  <2>1. next \in Settings /\ want' \in Settings
    BY <1>1 DEF SettingsTypeOK, Apply, Settings
  <2>2. ToolsOf(next) \in Builds /\ Take("page", next, ToolsOf(next))
    BY <1>1, <2>1, ToolsType DEF Apply
  <2>3. "page" \in Writers
    BY DEF Writers
  <2> HIDE DEF next
  <2>4. /\ cand' \in [Writers -> [to : Settings, build : Builds]]
        /\ pc' \in [Writers -> {"idle", "swap", "persist", "known",
                                "stranger", "ensure", "lock"}]
        /\ unbuilt' \in BOOLEAN
    BY <2>1, <2>2, <2>3, TakeType
  <2>5. edits' \in 0 .. MaxEdits
    BY <1>1 DEF Apply, SettingsTypeOK
  <2>6. QED
    BY <1>1, <2>1, <2>4, <2>5 DEF Apply, SettingsTypeOK
<1>2. ASSUME NEW m \in SUBSET People, NEW p \in SUBSET m, SaveHousehold(m, p)
      PROVE  SettingsTypeOK'
  <2>1. want \in Settings /\ p \in SUBSET People /\ "page" \in Writers
    BY DEF SettingsTypeOK, Writers
  <2>2. want' \in Settings
    BY <1>2, <2>1, WithHouseholdFields DEF SaveHousehold
  <2>3. Mutate("page", m, p)
    BY <1>2 DEF SaveHousehold
  <2>4. edits' \in 0 .. MaxEdits /\ dropped' \subseteq People
    BY <1>2 DEF SaveHousehold, SettingsTypeOK
  <2>5. QED
    BY <1>2, <2>1, <2>2, <2>3, <2>4, MutateType
       DEF SaveHousehold, SettingsTypeOK
<1>3. ASSUME NEW x \in People, Pair(x)
      PROVE  SettingsTypeOK'
  <2> DEFINE m == live.members \union {x}
             p == live.phones \union {x}
  <2>1. want \in Settings /\ want.members \union {x} \in SUBSET People
        /\ want.phones \union {x} \in SUBSET People
    BY DEF SettingsTypeOK, Settings
  <2>2. want' \in Settings
    BY <1>3, <2>1, WithHouseholdFields DEF Pair
  <2>3. m \in SUBSET People /\ p \in SUBSET People
    BY DEF SettingsTypeOK, Settings
  <2>4. Mutate("pair", m, p) /\ "pair" \in Writers
    BY <1>3 DEF Pair, Writers
  <2>5. edits' \in 0 .. MaxEdits /\ dropped' \subseteq People
    BY <1>3 DEF Pair, SettingsTypeOK
  <2> HIDE DEF m, p
  <2>6. /\ cand' \in [Writers -> [to : Settings, build : Builds]]
        /\ pc' \in [Writers -> {"idle", "swap", "persist", "known",
                                "stranger", "ensure", "lock"}]
        /\ unbuilt' \in BOOLEAN
        /\ faults' \in 0 .. MaxFaults
    BY <2>3, <2>4, MutateType
  <2>7. QED
    BY <1>3, <2>2, <2>5, <2>6 DEF Pair, SettingsTypeOK
<1>4. ASSUME NEW x \in People, EnrollStarts(x)
      PROVE  SettingsTypeOK'
  <2>1. /\ pc' \in [Writers -> {"idle", "swap", "persist", "known",
                                "stranger", "ensure", "lock"}]
        /\ who' \in People
    BY <1>4 DEF EnrollStarts, SettingsTypeOK
  <2>2. edits' \in 0 .. MaxEdits
    BY <1>4 DEF EnrollStarts, SettingsTypeOK
  <2>3. QED
    BY <1>4, <2>1, <2>2 DEF EnrollStarts, SettingsTypeOK
<1>5. CASE EnrollStores
  BY <1>5 DEF EnrollStores, SettingsTypeOK
<1>6. CASE EnsureFinds
  BY <1>6 DEF EnsureFinds, SettingsTypeOK
<1>7. CASE EnsureMisses
  BY <1>7 DEF EnsureMisses, SettingsTypeOK
<1>8. CASE EnsureAdds
  <2> DEFINE m == live.members \union {who}
             p == live.phones
  <2>1. want \in Settings /\ want.members \union {who} \in SUBSET People
        /\ want.phones \in SUBSET People
    BY DEF SettingsTypeOK, Settings
  <2>2. want' \in Settings
    BY <1>8, <2>1, WithHouseholdFields DEF EnsureAdds
  <2>3. m \in SUBSET People /\ p \in SUBSET People
    BY DEF SettingsTypeOK, Settings
  <2>4. Mutate("enroll", m, p) /\ "enroll" \in Writers
    BY <1>8 DEF EnsureAdds, Writers
  <2>5. dropped' \subseteq People
    BY <1>8 DEF EnsureAdds, SettingsTypeOK
  <2> HIDE DEF m, p
  <2>6. /\ cand' \in [Writers -> [to : Settings, build : Builds]]
        /\ pc' \in [Writers -> {"idle", "swap", "persist", "known",
                                "stranger", "ensure", "lock"}]
        /\ unbuilt' \in BOOLEAN
        /\ faults' \in 0 .. MaxFaults
    BY <2>3, <2>4, MutateType
  <2>7. QED
    BY <1>8, <2>2, <2>5, <2>6 DEF EnsureAdds, SettingsTypeOK
<1>9. ASSUME NEW w \in Writers, Swap(w)
      PROVE  SettingsTypeOK'
  <2>1. cand[w] \in [to : Settings, build : Builds] /\ live \in Settings
    BY DEF SettingsTypeOK
  <2>2. live' \in Settings /\ tools' \in Builds
    BY <1>9, <2>1 DEF Swap
  <2>3. unlinked' \subseteq People
    BY <1>9, <2>1 DEF Swap, SettingsTypeOK, Settings
  <2>4. QED
    BY <1>9, <2>2, <2>3 DEF Swap, SettingsTypeOK
<1>10. ASSUME NEW w \in Writers, Persist(w)
       PROVE  SettingsTypeOK'
  <2>1. cand[w].to \in Settings /\ seedKey \in LiveKeys /\ file \in Files
    BY DEF SettingsTypeOK
  <2>2. FileOf(cand[w].to, seedKey) \in Files
    BY <2>1, FileOfFields
  <2> DEFINE written == FileOf(cand[w].to, seedKey)
  <2> HIDE DEF written
  <2>3. file' \in Files /\ unsaved' \in BOOLEAN /\ faults' \in 0 .. MaxFaults
    <3>1. written \in Files
      BY <2>2 DEF written
    <3>2. \/ file' = written /\ unsaved' = FALSE /\ faults' = faults
          \/ /\ faults < MaxFaults /\ faults' = faults + 1
             /\ file' = file /\ unsaved' = unsaved
      BY <1>10 DEF Persist, written
    <3>3. /\ file \in Files /\ unsaved \in BOOLEAN
          /\ faults \in 0 .. MaxFaults
      BY DEF SettingsTypeOK
    <3>4. file' \in Files /\ unsaved' \in BOOLEAN
      BY <3>1, <3>2, <3>3
    <3>5. QED
      BY <3>2, <3>3, <3>4
  <2>4. cand' \in [Writers -> [to : Settings, build : Builds]]
    BY <1>10, NoCandidateType DEF Persist, SettingsTypeOK
  <2>5. QED
    BY <1>10, <2>3, <2>4 DEF Persist, SettingsTypeOK
<1>11. CASE Stop
  <2>1. cand' \in [Writers -> [to : Settings, build : Builds]]
    BY <1>11, NoCandidateType DEF Stop
  <2>2. /\ pc' \in [Writers -> {"idle", "swap", "persist", "known",
                                "stranger", "ensure", "lock"}]
        /\ stops' \in 0 .. MaxStops
        /\ unlinked' \subseteq People /\ dropped' \subseteq People
    BY <1>11 DEF Stop, SettingsTypeOK
  <2>3. QED
    BY <1>11, <2>1, <2>2 DEF Stop, SettingsTypeOK
<1>12. CASE EditEnvironment
  BY <1>12 DEF EditEnvironment, SettingsTypeOK
<1>13. CASE DamageFile
  BY <1>13, NoFile DEF DamageFile, SettingsTypeOK
<1>14. CASE Boot
  <2>1. file \in Files /\ env \in LiveKeys
    BY DEF SettingsTypeOK
  <2>2. Resolve(file, env) \in Settings
    BY <2>1, ResolveFields
  <2>3. live' \in Settings /\ want' \in Settings /\ tools' \in Builds
    BY <1>14, <2>2, ToolsType DEF Boot
  <2>4. file' \in Files
    BY <1>14, <2>1, NoFile DEF Boot
  <2>5. QED
    BY <1>14, <2>3, <2>4 DEF Boot, SettingsTypeOK
<1>15. CASE UNCHANGED settingsVars
  BY <1>15 DEF settingsVars, SettingsTypeOK
<1>16. QED
  BY <1>1, <1>2, <1>3, <1>4, <1>5, <1>6, <1>7, <1>8, <1>9, <1>10, <1>11,
     <1>12, <1>13, <1>14, <1>15 DEF SettingsNext

----------------------------------------------------------------------------
(* The invariant holds at the start and is kept by every step.             *)

\* The invariant holds of a Core booted without a file.
LEMMA InvInit == SettingsInit => IInv
<1> SUFFICES ASSUME SettingsInit PROVE IInv
  OBVIOUS
<1>1. SettingsTypeOK
  BY TypeInit
<1>2. /\ file \in Files /\ file.state # "good" /\ env \in LiveKeys
      /\ live = Resolve(file, env) /\ want = live /\ seedKey = env
  BY NoFile DEF SettingsInit
<1>3. Sound(live)
  BY <1>2, ResolveFields DEF Sound, Buildable
<1>4. \A w \in Writers : pc[w] = "idle"
  BY DEF SettingsInit
<1>5. Commits
  BY <1>2, <1>3, <1>4
     DEF Commits, OneCommit, AllSound, InFlight, ToolsInv, FileInv, Holds,
         SettingsInit
<1>6. up = TRUE /\ voices = {} /\ pc["enroll"] = "idle"
  BY <1>4 DEF SettingsInit, Writers
<1>7. DownIsIdle /\ Roster
  BY <1>2, <1>6 DEF DownIsIdle, Roster
<1>8. QED
  BY <1>1, <1>5, <1>7 DEF IInv

\* Taking the lock: the candidate is what the accepted changes have become.
LEMMA TakeKeeps ==
  ASSUME IInv, NEW w \in Writers, NEW next \in Settings, NEW build,
         Take(w, next, build), up, pc[w] # "swap", Sound(next), want' = next,
         UNCHANGED <<live, tools, file, seedKey, up, unsaved>>
  PROVE  Commits'
<1>1. /\ pc' = [pc EXCEPT ![w] = "swap"]
      /\ cand' = [cand EXCEPT ![w] = [to |-> next, build |-> build]]
      /\ unbuilt' = (build # ToolsOf(next))
      /\ \A v \in Writers : pc[v] # "swap" /\ pc[v] # "persist"
  BY DEF Take, LockFree, Holds
<1>2. /\ pc \in [Writers -> {"idle", "swap", "persist", "known", "stranger",
                            "ensure", "lock"}]
      /\ cand \in [Writers -> [to : Settings, build : Builds]]
  BY DEF IInv, SettingsTypeOK
<1>3. /\ pc'[w] = "swap" /\ cand'[w].to = next /\ cand'[w].build = build
      /\ \A v \in Writers : v # w => pc'[v] # "swap" /\ pc'[v] # "persist"
  BY <1>1, <1>2
<1>4. OneCommit'
  BY <1>3 DEF OneCommit, Holds
<1>5. AllSound'
  BY <1>3 DEF AllSound, Holds, IInv, Commits, Sound, Buildable
<1>6. InFlight'
  BY <1>3 DEF InFlight, LockFree, Holds
<1>7. ToolsInv'
  BY <1>1, <1>3 DEF ToolsInv, LockFree, Holds, ToolsOf
<1>8. FileInv'
  BY <1>3 DEF FileInv, IInv, Commits, Resolve, FileOf, WithHousehold
<1>9. QED
  BY <1>4, <1>5, <1>6, <1>7, <1>8 DEF Commits

\* A change of the household from a page, a pairing or an enrollment.
LEMMA MutateKeeps ==
  ASSUME IInv, NEW w \in Writers, NEW m \in SUBSET People, NEW p \in SUBSET m,
         Mutate(w, m, p), up, want' = WithHousehold(want, m, p),
         UNCHANGED <<live, tools, file, seedKey, up, unsaved>>
  PROVE  /\ Commits'
         /\ live = want
         /\ want' \in Settings
         /\ want'.members = m
         /\ \A v \in Writers : pc[v] # "swap" /\ pc[v] # "persist"
         /\ pc' = [pc EXCEPT ![w] = "swap"]
<1> DEFINE next == WithHousehold(live, m, p)
<1>1. live \in Settings /\ p \in SUBSET People
  BY DEF IInv, SettingsTypeOK
<1>2. /\ next \in Settings /\ next.backend = live.backend
      /\ next.key = live.key /\ next.members = m /\ next.phones = p
      /\ next.recipients = p
  BY <1>1, WithHouseholdFields
<1>3. Sound(next)
  BY <1>2 DEF Sound, Buildable, IInv, Commits, AllSound
<1>4. PICK build : Take(w, next, build)
  BY DEF Mutate
<1>5. /\ \A v \in Writers : pc[v] # "swap" /\ pc[v] # "persist"
      /\ pc' = [pc EXCEPT ![w] = "swap"] /\ LockFree
  BY <1>4 DEF Take, LockFree, Holds
<1>6. live = want
  BY <1>5 DEF IInv, Commits, InFlight
<1>7. want' = next
  BY <1>6
<1> HIDE DEF next
<1>8. Commits'
  BY <1>2, <1>3, <1>4, <1>5, <1>7, TakeKeeps
<1>9. QED
  BY <1>2, <1>5, <1>6, <1>7, <1>8

\* A step of the enrollment that touches no settings.
LEMMA AsideKeeps ==
  ASSUME IInv, pc' \in [Writers -> {"idle", "swap", "persist", "known",
                                    "stranger", "ensure", "lock"}],
         \A w \in Writers : /\ pc'[w] = "swap" <=> pc[w] = "swap"
                            /\ pc'[w] = "persist" <=> pc[w] = "persist",
         UNCHANGED <<live, tools, file, seedKey, up, cand, want, unsaved,
                     unbuilt>>
  PROVE  Commits'
<1>1. Commits
  BY DEF IInv
<1>2. OneCommit'
  BY <1>1 DEF Commits, OneCommit, Holds
<1>3. AllSound'
  BY <1>1 DEF Commits, AllSound, Holds, Sound, Buildable
<1>4. InFlight'
  BY <1>1 DEF Commits, InFlight, LockFree, Holds
<1>5. ToolsInv'
  BY <1>1 DEF Commits, ToolsInv, LockFree, Holds, ToolsOf
<1>6. FileInv'
  BY <1>1 DEF Commits, FileInv, Resolve, FileOf, WithHousehold
<1>7. QED
  BY <1>2, <1>3, <1>4, <1>5, <1>6 DEF Commits

\* The swap makes the candidate live.
LEMMA SwapKeeps ==
  ASSUME IInv, NEW w \in Writers, Swap(w)
  PROVE  Commits'
<1>1. /\ pc \in [Writers -> {"idle", "swap", "persist", "known", "stranger",
                            "ensure", "lock"}]
      /\ pc[w] = "swap" /\ Holds(w)
  BY DEF IInv, SettingsTypeOK, Swap, Holds
<1>2. /\ pc'[w] = "persist" /\ cand' = cand /\ unsaved'
      /\ live' = cand[w].to /\ tools' = cand[w].build /\ want' = want
      /\ unbuilt' = unbuilt
  BY <1>1 DEF Swap
<1>3. \A v \in Writers : v # w => /\ pc'[v] # "swap" /\ pc'[v] # "persist"
  BY <1>1 DEF Swap, IInv, Commits, OneCommit, Holds
<1>4. Sound(cand[w].to) /\ want = cand[w].to
      /\ (~unbuilt => cand[w].build = ToolsOf(cand[w].to))
  BY <1>1 DEF IInv, Commits, AllSound, InFlight, ToolsInv
<1>5. OneCommit'
  BY <1>3 DEF OneCommit, Holds
<1>6. AllSound'
  BY <1>2, <1>3, <1>4 DEF AllSound, Holds, Sound, Buildable
<1>7. InFlight'
  BY <1>2, <1>3, <1>4 DEF InFlight, LockFree, Holds
<1>8. ToolsInv'
  BY <1>2, <1>3, <1>4 DEF ToolsInv, LockFree, Holds, ToolsOf
<1>9. FileInv'
  BY <1>2 DEF FileInv, IInv, Commits, Swap
<1>10. QED
  BY <1>5, <1>6, <1>7, <1>8, <1>9 DEF Commits

\* The write, whether it succeeds or not.
LEMMA PersistKeeps ==
  ASSUME IInv, NEW w \in Writers, Persist(w)
  PROVE  Commits'
<1> DEFINE written == FileOf(cand[w].to, seedKey)
<1>1. /\ pc \in [Writers -> {"idle", "swap", "persist", "known", "stranger",
                            "ensure", "lock"}]
      /\ pc[w] = "persist" /\ Holds(w)
      /\ cand[w].to \in Settings /\ seedKey \in LiveKeys
  BY DEF IInv, SettingsTypeOK, Persist, Holds
<1>2. /\ \A v \in Writers : pc'[v] # "swap" /\ pc'[v] # "persist"
      /\ UNCHANGED <<live, tools, seedKey, up, want, unbuilt>>
  BY <1>1 DEF Persist, IInv, Commits, OneCommit, Holds
<1>3. /\ Sound(cand[w].to) /\ live = cand[w].to /\ live = want
      /\ (~unbuilt => tools = ToolsOf(live)) /\ unsaved
  BY <1>1 DEF IInv, Commits, AllSound, InFlight, ToolsInv, FileInv
<1>4. /\ written.phones \subseteq written.members
      /\ written.backend = "cloud" => written.key \in Keys
  <2>1. /\ written.phones = cand[w].to.phones
        /\ written.members = cand[w].to.members
        /\ written.backend = cand[w].to.backend
        /\ written.key = PersistKey(cand[w].to.key, seedKey)
    BY <1>1, FileOfFields
  <2>2. cand[w].to.key # "none" =>
          PersistKey(cand[w].to.key, seedKey) \in Keys
    BY <1>1, KeyRoundTrip DEF Settings
  <2> HIDE DEF written
  <2>3. QED
    BY <1>3, <2>1, <2>2 DEF Sound, Buildable
<1>5. \/ file' = written /\ unsaved' = FALSE
      \/ file' = file /\ unsaved' = unsaved
  BY DEF Persist
<1>6. OneCommit'
  BY <1>2 DEF OneCommit, Holds
<1>7. AllSound'
  BY <1>2, <1>3 DEF AllSound, Holds, Sound, Buildable
<1>8. InFlight'
  BY <1>2, <1>3 DEF InFlight
<1>9. ToolsInv'
  BY <1>2, <1>3 DEF ToolsInv, ToolsOf
<1>10. FileInv'
  <2>1. CASE file' = written /\ unsaved' = FALSE
    <3>1. file' = FileOf(live, seedKey)'
      BY <1>2, <1>3, <2>1 DEF FileOf, PersistKey
    <3> HIDE DEF written
    <3>2. QED
      BY <1>2, <1>4, <2>1, <3>1 DEF FileInv
  <2>2. CASE file' = file /\ unsaved' = unsaved
    BY <1>2, <1>3, <2>2 DEF FileInv, IInv, Commits
  <2>3. QED
    BY <1>5, <2>1, <2>2
<1>11. QED
  BY <1>6, <1>7, <1>8, <1>9, <1>10 DEF Commits

\* A boot: the file read, or nothing, and the file a damaged one leaves.
LEMMA BootResolves ==
  ASSUME IInv, Boot
  PROVE  /\ live' = Resolve(file', env)
         /\ Sound(live')
         /\ live'.members = Resolve(file, "none").members
<1>1. /\ file \in Files /\ env \in LiveKeys /\ "none" \in LiveKeys
  BY DEF IInv, SettingsTypeOK, LiveKeys
<1>2. /\ live' = Resolve(file, env) /\ Buildable(Resolve(file, env))
      /\ file' = IF file.state = "bad" THEN Unreadable("absent") ELSE file
  BY DEF Boot
<1>3. Resolve(file', env) = Resolve(file, env)
  <2>1. CASE file.state = "bad"
    <3>1. file' = Unreadable("absent") /\ file' \in Files
          /\ file'.state # "good" /\ file.state # "good"
      BY <1>2, <2>1, NoFile
    <3>2. /\ Resolve(file, env) \in Settings
          /\ Resolve(file, env).backend = "local"
          /\ Resolve(file, env).key = env
          /\ Resolve(file, env).members = SeedPhones
          /\ Resolve(file, env).phones = SeedPhones
          /\ Resolve(file, env).recipients = Resolve(file, env).phones
      BY <1>1, <3>1, ResolveFields
    <3>3. \A g \in Files : g.state # "good" =>
             /\ Resolve(g, env) \in Settings
             /\ Resolve(g, env).backend = "local"
             /\ Resolve(g, env).key = env
             /\ Resolve(g, env).members = SeedPhones
             /\ Resolve(g, env).phones = SeedPhones
             /\ Resolve(g, env).recipients = Resolve(g, env).phones
      BY <1>1, ResolveFields
    <3>4. QED
      BY <3>1, <3>2, <3>3, SameSettings
  <2>2. CASE file.state # "bad"
    BY <1>2, <2>2
  <2>3. QED
    BY <2>1, <2>2
<1>4. Sound(live')
  <2>1. /\ Resolve(file, env).recipients = Resolve(file, env).phones
        /\ file.state = "good" =>
             /\ Resolve(file, env).members
                  = file.members \union KeptPhones(file)
             /\ Resolve(file, env).phones = file.phones \union KeptPhones(file)
        /\ file.state # "good" =>
             /\ Resolve(file, env).members = SeedPhones
             /\ Resolve(file, env).phones = SeedPhones
    BY <1>1, ResolveFields
  <2>2. file.state = "good" => file.phones \subseteq file.members
    BY DEF IInv, Commits, FileInv
  <2>3. Resolve(file, env).phones \subseteq Resolve(file, env).members
    BY <2>1, <2>2
  <2>4. QED
    BY <1>2, <2>1, <2>3 DEF Sound
<1>5. live'.members = Resolve(file, "none").members
  <2>1. /\ file.state = "good" =>
             Resolve(file, env).members = file.members \union KeptPhones(file)
        /\ file.state # "good" => Resolve(file, env).members = SeedPhones
    BY <1>1, ResolveFields
  <2>2. /\ file.state = "good" =>
             Resolve(file, "none").members
               = file.members \union KeptPhones(file)
        /\ file.state # "good" => Resolve(file, "none").members = SeedPhones
    BY <1>1, ResolveFields
  <2>3. QED
    BY <1>2, <2>1, <2>2
<1>6. QED
  BY <1>2, <1>3, <1>4, <1>5

\* What a clean stop leaves in the file keeps everyone in the roster.
LEMMA CleanStop ==
  ASSUME IInv, up, Quiet, ~unsaved
  PROVE  live.members \subseteq Resolve(file, "none").members
<1>1. /\ live \in Settings /\ file \in Files /\ seedKey \in LiveKeys
      /\ "none" \in LiveKeys
  BY DEF IInv, SettingsTypeOK, LiveKeys
<1>2. live = Resolve(file, seedKey) \/ file = FileOf(live, seedKey)
  BY DEF IInv, Commits, FileInv
<1>3. /\ file.state = "good" =>
           /\ Resolve(file, "none").members
                = file.members \union KeptPhones(file)
           /\ Resolve(file, seedKey).members
                = file.members \union KeptPhones(file)
      /\ file.state # "good" =>
           /\ Resolve(file, "none").members = SeedPhones
           /\ Resolve(file, seedKey).members = SeedPhones
  <2>1. \A e \in LiveKeys :
          /\ file.state = "good" =>
               Resolve(file, e).members = file.members \union KeptPhones(file)
          /\ file.state # "good" => Resolve(file, e).members = SeedPhones
    BY <1>1, ResolveFields
  <2>2. QED
    BY <1>1, <2>1
<1>4. CASE live = Resolve(file, seedKey)
  BY <1>3, <1>4
<1>5. CASE file = FileOf(live, seedKey)
  <2>1. file.state = "good" /\ file.members = live.members
    BY <1>1, <1>5, FileOfFields
  <2>2. QED
    BY <1>3, <2>1
<1>6. QED
  BY <1>2, <1>4, <1>5

\* Every step keeps the invariant.
LEMMA InvStep ==
  ASSUME IInv, [SettingsNext]_settingsVars
  PROVE  IInv'
<1>1. SettingsTypeOK'
  BY TypeStep DEF IInv
<1>2. /\ pc \in [Writers -> {"idle", "swap", "persist", "known", "stranger",
                            "ensure", "lock"}]
      /\ live \in Settings /\ want \in Settings
      /\ voices \subseteq People /\ who \in People
      /\ \A w \in Writers : w = "page" \/ w = "pair" \/ w = "enroll"
      /\ "page" \in Writers /\ "pair" \in Writers /\ "enroll" \in Writers
  BY DEF IInv, SettingsTypeOK, Writers
<1>3. /\ live.members \subseteq People /\ live.phones \subseteq live.members
      /\ want.members \subseteq People
  BY <1>2 DEF Settings, IInv, Commits, AllSound, Sound
<1>4. ASSUME NEW b \in Backends, NEW k \in LiveKeys, Apply(b, k)
      PROVE  IInv'
  <2> DEFINE next == [live EXCEPT !.backend = b, !.key = k]
  <2>1. /\ next \in Settings /\ next.members = live.members
        /\ next.phones = live.phones /\ next.recipients = live.recipients
    BY <1>2 DEF Settings
  <2>2. Take("page", next, ToolsOf(next)) /\ Buildable(next)
        /\ up /\ pc["page"] = "idle"
        /\ UNCHANGED <<live, tools, file, seedKey, up, unsaved, voices, who,
                       dropped>>
    BY <1>4 DEF Apply
  <2>3. live = want
    BY <2>2 DEF Take, IInv, Commits, InFlight
  <2>4. want' = next
    BY <1>4, <2>3 DEF Apply
  <2>5. Sound(next)
    BY <2>1, <2>2 DEF Sound, IInv, Commits, AllSound
  <2>6. /\ pc' = [pc EXCEPT !["page"] = "swap"]
        /\ \A v \in Writers : pc[v] # "swap" /\ pc[v] # "persist"
    BY <2>2 DEF Take, LockFree, Holds
  <2> HIDE DEF next
  <2>7. Commits'
    BY <1>2, <2>1, <2>2, <2>4, <2>5, TakeKeeps
  <2>8. DownIsIdle' /\ Roster'
    BY <1>2, <2>1, <2>2, <2>3, <2>4, <2>6 DEF DownIsIdle, Roster, IInv
  <2>9. QED
    BY <1>1, <2>7, <2>8 DEF IInv
<1>5. ASSUME NEW m \in SUBSET People, NEW p \in SUBSET m, SaveHousehold(m, p)
      PROVE  IInv'
  <2>1. /\ Mutate("page", m, p) /\ up /\ pc["page"] = "idle"
        /\ want' = WithHousehold(want, m, p)
        /\ dropped' = (dropped \union People) \ m
        /\ UNCHANGED <<live, tools, file, seedKey, up, unsaved, voices, who>>
    BY <1>5 DEF SaveHousehold
  <2>2. /\ Commits' /\ live = want /\ want'.members = m
        /\ pc' = [pc EXCEPT !["page"] = "swap"]
    BY <1>2, <2>1, MutateKeeps
  <2>3. DownIsIdle' /\ Roster'
    BY <1>2, <1>3, <2>1, <2>2 DEF DownIsIdle, Roster, IInv
  <2>4. QED
    BY <1>1, <2>2, <2>3 DEF IInv
<1>6. ASSUME NEW x \in People, Pair(x)
      PROVE  IInv'
  <2> DEFINE m == live.members \union {x}
             p == live.phones \union {x}
  <2>1. /\ Mutate("pair", m, p) /\ up /\ pc["pair"] = "idle"
        /\ want' = WithHousehold(want, want.members \union {x},
                                 want.phones \union {x})
        /\ dropped' = dropped \ {x}
        /\ UNCHANGED <<live, tools, file, seedKey, up, unsaved, voices, who>>
    BY <1>6 DEF Pair
  <2>2. live = want
    BY <2>1 DEF Mutate, Take, IInv, Commits, InFlight
  <2>3. want' = WithHousehold(want, m, p)
    BY <2>1, <2>2
  <2>4. m \in SUBSET People /\ p \in SUBSET m /\ live.members \subseteq m
        /\ x \in m
    BY <1>3
  <2> HIDE DEF m, p
  <2>5. /\ Commits' /\ want'.members = m
        /\ pc' = [pc EXCEPT !["pair"] = "swap"]
    BY <1>2, <2>1, <2>3, <2>4, MutateKeeps
  <2>6. DownIsIdle' /\ Roster'
    BY <1>2, <2>1, <2>2, <2>4, <2>5 DEF DownIsIdle, Roster, IInv
  <2>7. QED
    BY <1>1, <2>5, <2>6 DEF IInv
<1>7. ASSUME NEW x \in People, EnrollStarts(x)
      PROVE  IInv'
  <2>1. /\ UNCHANGED <<live, tools, file, seedKey, up, cand, want, unsaved,
                       unbuilt, voices, dropped>>
        /\ up /\ pc["enroll"] = "idle" /\ who' = x
        /\ pc' = [pc EXCEPT !["enroll"] = IF x \in live.members
                                            THEN "known" ELSE "stranger"]
    BY <1>7 DEF EnrollStarts
  <2>2. Commits'
    BY <1>1, <1>2, <2>1, AsideKeeps DEF SettingsTypeOK
  <2>3. DownIsIdle' /\ Roster'
    BY <1>2, <2>1 DEF DownIsIdle, Roster, IInv
  <2>4. QED
    BY <1>1, <2>2, <2>3 DEF IInv
<1>8. CASE EnrollStores
  <2>1. /\ UNCHANGED <<live, tools, file, seedKey, up, cand, want, unsaved,
                       unbuilt, dropped, who>>
        /\ pc["enroll"] \in {"known", "stranger"}
        /\ \/ /\ voices' = voices \union {who}
              /\ pc' = [pc EXCEPT !["enroll"] =
                          IF pc["enroll"] = "known" THEN "idle" ELSE "ensure"]
           \/ /\ pc' = [pc EXCEPT !["enroll"] = "idle"]
              /\ voices' = voices
    BY <1>8 DEF EnrollStores
  <2>2. Commits'
    BY <1>1, <1>2, <2>1, AsideKeeps DEF SettingsTypeOK
  <2>3. up
    BY <1>2, <2>1 DEF IInv, DownIsIdle
  <2>4. DownIsIdle' /\ Roster'
    BY <1>2, <2>1, <2>3 DEF DownIsIdle, Roster, IInv
  <2>5. QED
    BY <1>1, <2>2, <2>4 DEF IInv
<1>9. CASE EnsureFinds
  <2>1. /\ UNCHANGED <<live, tools, file, seedKey, up, cand, want, unsaved,
                       unbuilt, dropped, who, voices>>
        /\ pc["enroll"] = "ensure" /\ who \in live.members
        /\ pc' = [pc EXCEPT !["enroll"] = "idle"]
    BY <1>9 DEF EnsureFinds
  <2>2. Commits'
    BY <1>1, <1>2, <2>1, AsideKeeps DEF SettingsTypeOK
  <2>3. DownIsIdle' /\ Roster'
    BY <1>2, <2>1 DEF DownIsIdle, Roster, IInv
  <2>4. QED
    BY <1>1, <2>2, <2>3 DEF IInv
<1>10. CASE EnsureMisses
  <2>1. /\ UNCHANGED <<live, tools, file, seedKey, up, cand, want, unsaved,
                       unbuilt, dropped, who, voices>>
        /\ pc["enroll"] = "ensure"
        /\ pc' = [pc EXCEPT !["enroll"] = "lock"]
    BY <1>10 DEF EnsureMisses
  <2>2. Commits'
    BY <1>1, <1>2, <2>1, AsideKeeps DEF SettingsTypeOK
  <2>3. DownIsIdle' /\ Roster'
    BY <1>2, <2>1 DEF DownIsIdle, Roster, IInv
  <2>4. QED
    BY <1>1, <2>2, <2>3 DEF IInv
<1>11. CASE EnsureAdds
  <2> DEFINE m == live.members \union {who}
             p == live.phones
  <2>1. /\ Mutate("enroll", m, p) /\ pc["enroll"] = "lock"
        /\ want' = WithHousehold(want, want.members \union {who}, want.phones)
        /\ dropped' = dropped \ {who}
        /\ UNCHANGED <<live, tools, file, seedKey, up, unsaved, voices, who>>
    BY <1>11 DEF EnsureAdds
  <2>2. up
    BY <1>2, <2>1 DEF IInv, DownIsIdle
  <2>3. live = want
    BY <2>1, <2>2 DEF Mutate, Take, IInv, Commits, InFlight
  <2>4. want' = WithHousehold(want, m, p)
    BY <2>1, <2>3
  <2>5. m \in SUBSET People /\ p \in SUBSET m
        /\ live.members \subseteq m /\ who \in m
    BY <1>2, <1>3
  <2> HIDE DEF m, p
  <2>6. /\ Commits' /\ want'.members = m
        /\ pc' = [pc EXCEPT !["enroll"] = "swap"]
    BY <1>2, <2>1, <2>2, <2>4, <2>5, MutateKeeps
  <2>7. DownIsIdle' /\ Roster'
    BY <1>2, <2>1, <2>2, <2>3, <2>5, <2>6 DEF DownIsIdle, Roster, IInv
  <2>8. QED
    BY <1>1, <2>6, <2>7 DEF IInv
<1>12. ASSUME NEW w \in Writers, Swap(w)
       PROVE  IInv'
  <2>1. /\ UNCHANGED <<file, up, want, dropped, who, voices>>
        /\ pc[w] = "swap" /\ pc' = [pc EXCEPT ![w] = "persist"]
        /\ live' = cand[w].to
    BY <1>12 DEF Swap
  <2>2. up /\ want = cand[w].to
    BY <2>1 DEF IInv, DownIsIdle, Commits, InFlight
  <2>3. DownIsIdle' /\ Roster'
    BY <1>2, <2>1, <2>2 DEF DownIsIdle, Roster, IInv
  <2>4. QED
    BY <1>1, <1>12, <2>3, SwapKeeps DEF IInv
<1>13. ASSUME NEW w \in Writers, Persist(w)
       PROVE  IInv'
  <2>1. /\ UNCHANGED <<live, up, want, dropped, who, voices>>
        /\ pc[w] = "persist" /\ pc' = [pc EXCEPT ![w] = "idle"]
    BY <1>13 DEF Persist
  <2>2. up
    BY <2>1 DEF IInv, DownIsIdle
  <2>3. DownIsIdle' /\ Roster'
    BY <1>2, <2>1, <2>2 DEF DownIsIdle, Roster, IInv
  <2>4. QED
    BY <1>1, <1>13, <2>3, PersistKeeps DEF IInv
<1>14. CASE Stop
  <2>1. /\ UNCHANGED <<live, tools, file, seedKey, want, who, voices, unsaved>>
        /\ up /\ up' = FALSE
        /\ \A w \in Writers : pc'[w] = "idle"
        /\ dropped' = IF Quiet /\ ~unsaved THEN dropped ELSE People
    BY <1>14 DEF Stop
  <2>2. Commits'
    <3>1. OneCommit' /\ InFlight' /\ ToolsInv'
      BY <2>1 DEF OneCommit, InFlight, ToolsInv, Holds
    <3>2. AllSound' /\ FileInv'
      BY <2>1 DEF AllSound, FileInv, IInv, Commits, Holds, Sound, Buildable
    <3>3. QED
      BY <3>1, <3>2 DEF Commits
  <2>3. \A x \in voices \ dropped' : x \in Resolve(file, "none").members
    <3>1. CASE Quiet /\ ~unsaved
      <4>1. live.members \subseteq Resolve(file, "none").members
        BY <2>1, <3>1, CleanStop
      <4>2. live = want /\ pc["enroll"] = "idle"
        BY <1>2, <2>1, <3>1
           DEF Quiet, LockFree, Holds, IInv, Commits, InFlight
      <4>3. QED
        BY <2>1, <3>1, <4>1, <4>2 DEF IInv, Roster
    <3>2. CASE ~(Quiet /\ ~unsaved)
      BY <1>2, <2>1, <3>2
    <3>3. QED
      BY <3>1, <3>2
  <2>4. DownIsIdle' /\ Roster'
    <3>1. Resolve(file, "none")' = Resolve(file, "none")
      BY <2>1 DEF Resolve, WithHousehold
    <3>2. QED
      BY <1>2, <2>1, <2>3, <3>1 DEF DownIsIdle, Roster
  <2>5. QED
    BY <1>1, <2>2, <2>4 DEF IInv
<1>15. CASE EditEnvironment
  <2>1. /\ UNCHANGED <<live, tools, file, seedKey, up, cand, want, unsaved,
                       unbuilt, dropped, who, voices, pc>>
    BY <1>15 DEF EditEnvironment
  <2>2. Commits'
    BY <1>2, <2>1, AsideKeeps
  <2>3. DownIsIdle' /\ Roster'
    BY <2>1 DEF DownIsIdle, Roster, IInv, Resolve, WithHousehold
  <2>4. QED
    BY <1>1, <2>2, <2>3 DEF IInv
<1>16. CASE DamageFile
  <2>1. /\ UNCHANGED <<live, tools, seedKey, up, cand, want, unsaved, unbuilt,
                       who, voices, pc>>
        /\ ~up /\ file' = Unreadable("bad") /\ dropped' = People
    BY <1>16 DEF DamageFile
  <2>2. \A w \in Writers : pc[w] = "idle"
    BY <2>1 DEF IInv, DownIsIdle
  <2>3. file'.state # "good"
    BY <2>1, NoFile
  <2>4. Commits'
    <3>1. OneCommit' /\ InFlight' /\ ToolsInv' /\ FileInv'
      BY <2>1, <2>2, <2>3 DEF OneCommit, InFlight, ToolsInv, FileInv, Holds
    <3>2. AllSound'
      BY <2>1 DEF AllSound, IInv, Commits, Holds, Sound, Buildable
    <3>3. QED
      BY <3>1, <3>2 DEF Commits
  <2>5. DownIsIdle' /\ Roster'
    BY <1>2, <2>1, <2>2 DEF DownIsIdle, Roster
  <2>6. QED
    BY <1>1, <2>4, <2>5 DEF IInv
<1>17. CASE Boot
  <2>1. /\ UNCHANGED <<pc, cand, who, voices, dropped>>
        /\ ~up /\ up' = TRUE /\ seedKey' = env /\ want' = live'
        /\ tools' = ToolsOf(live')
        /\ file' = IF file.state = "bad" THEN Unreadable("absent") ELSE file
    BY <1>17 DEF Boot
  <2>2. \A w \in Writers : pc[w] = "idle"
    BY <2>1 DEF IInv, DownIsIdle
  <2>3. /\ live' = Resolve(file', env) /\ Sound(live')
        /\ live'.members = Resolve(file, "none").members
    BY <1>17, BootResolves
  <2>4. Commits'
    <3>1. OneCommit' /\ InFlight'
      BY <2>1, <2>2 DEF OneCommit, InFlight, Holds
    <3>2. AllSound'
      BY <2>1, <2>2, <2>3 DEF AllSound, Holds, Sound, Buildable
    <3>3. ToolsInv'
      BY <2>1, <2>2 DEF ToolsInv, ToolsOf
    <3>4. FileInv'
      <4>1. file'.state = "good" => file' = file
        BY <2>1, NoFile
      <4>2. live' = Resolve(file, seedKey)'
        BY <2>1, <2>3 DEF Resolve, OverlayKey, WithHousehold
      <4>3. QED
        BY <2>1, <2>2, <4>1, <4>2 DEF FileInv, IInv, Commits
    <3>5. QED
      BY <3>1, <3>2, <3>3, <3>4 DEF Commits
  <2>5. DownIsIdle' /\ Roster'
    BY <1>2, <2>1, <2>2, <2>3 DEF DownIsIdle, Roster, IInv
  <2>6. QED
    BY <1>1, <2>4, <2>5 DEF IInv
<1>18. CASE UNCHANGED settingsVars
  <2>1. /\ UNCHANGED <<live, tools, file, seedKey, up, cand, want, unsaved,
                       unbuilt, dropped, who, voices, pc>>
    BY <1>18 DEF settingsVars
  <2>2. Commits'
    BY <1>2, <2>1, AsideKeeps
  <2>3. DownIsIdle' /\ Roster'
    BY <2>1 DEF DownIsIdle, Roster, IInv, Resolve, WithHousehold
  <2>4. QED
    BY <1>1, <2>2, <2>3 DEF IInv
<1>19. QED
  BY <1>4, <1>5, <1>6, <1>7, <1>8, <1>9, <1>10, <1>11, <1>12, <1>13, <1>14,
     <1>15, <1>16, <1>17, <1>18 DEF SettingsNext

\* The invariant holds in every reachable state.
THEOREM Invariance == SettingsSpec => []IInv
<1>1. SettingsInit => IInv
  BY InvInit
<1>2. IInv /\ [SettingsNext]_settingsVars => IInv'
  BY InvStep
<1>3. QED
  BY <1>1, <1>2, PTL DEF SettingsSpec

----------------------------------------------------------------------------
(* What follows.                                                           *)

\* Every variable has its type in every reachable state.
THEOREM TypeCorrect == SettingsSpec => []SettingsTypeOK
<1>1. IInv => SettingsTypeOK
  BY DEF IInv
<1>2. QED
  BY <1>1, Invariance, PTL

\* Changes from the pages, the pairings and the enrollments never overwrite
\* one another (RuntimeSettings::apply, mutate).
THEOREM ChangesAddUp == SettingsSpec => []NoSaveIsLost
<1>1. IInv => NoSaveIsLost
  BY DEF IInv, Commits, InFlight, NoSaveIsLost
<1>2. QED
  BY <1>1, Invariance, PTL

\* The LLM the turns use was built from the settings they read (commit).
THEOREM ToolsAlwaysFollow == SettingsSpec => []ToolsFollowSettings
<1>1. IInv => ToolsFollowSettings
  BY DEF IInv, Commits, ToolsInv, AllSound, Sound, ToolsFollowSettings
<1>2. QED
  BY <1>1, Invariance, PTL

\* A file the Core wrote can be booted from in any environment
\* (from_runtime, apply_to, LlmFactory::build).
THEOREM AlwaysBootable == SettingsSpec => []FileAlwaysBoots
<1>1. ASSUME IInv, file.state = "good", NEW e \in LiveKeys
      PROVE  Buildable(Resolve(file, e))
  <2>1. file \in Files /\ (file.backend = "cloud" => file.key \in Keys)
    BY <1>1 DEF IInv, SettingsTypeOK, Commits, FileInv
  <2>2. Resolve(file, e).backend = file.backend
        /\ Resolve(file, e).key = OverlayKey(e, file.key)
    BY <1>1, <2>1, ResolveFields
  <2>3. file.key \in Keys => OverlayKey(e, file.key) # "none"
    BY DEF OverlayKey
  <2>4. QED
    BY <2>1, <2>2, <2>3 DEF Buildable
<1>2. IInv => FileAlwaysBoots
  BY <1>1 DEF FileAlwaysBoots
<1>3. QED
  BY <1>2, Invariance, PTL

\* What a boot makes of the file is what was live when it was written
\* (from_runtime, then resolve_cadora and shared_settings).
THEOREM RestartIsIdentity == SettingsSpec => []RestartChangesNothing
<1>1. ASSUME IInv, up, LockFree, ~unsaved, live.phones # {} \/ SeedPhones = {},
             NEW e \in LiveKeys,
             e = seedKey \/ (file.state = "good" /\ file.key # "null")
      PROVE  Resolve(file, e) = live
  <2>1. /\ live \in Settings /\ file \in Files /\ seedKey \in LiveKeys
        /\ Sound(live)
        /\ live = Resolve(file, seedKey) \/ file = FileOf(live, seedKey)
    BY <1>1 DEF IInv, SettingsTypeOK, Commits, AllSound, FileInv
  <2>2. Resolve(file, seedKey) = live
    BY <1>1, <2>1, RoundTrip
  <2>3. QED
    BY <1>1, <2>1, <2>2, ResolveDecided
<1>2. IInv => RestartChangesNothing
  BY <1>1 DEF RestartChangesNothing
<1>3. QED
  BY <1>2, Invariance, PTL

\* No voiceprint without a member, but for those removed by a page or an
\* unclean stop (enroll_finish, ensure_household_member).
THEOREM VoicesBelongToMembers == SettingsSpec => []EnrolledIsMember
<1>1. IInv => EnrolledIsMember
  BY DEF IInv, Commits, InFlight, Roster, EnrolledIsMember
<1>2. QED
  BY <1>1, Invariance, PTL
=============================================================================
