--------------------------- MODULE SettingsStore ---------------------------
(***************************************************************************)
(* The Core's runtime settings (settings.rs), their file, and the boot     *)
(* that lays the file over the configuration and the environment           *)
(* (config.rs, shared_settings).                                           *)
(*                                                                         *)
(* Every change runs under one mutation lock: copy the live settings,      *)
(* edit the copy, rebuild the LLM with its tools, swap the copy in, write  *)
(* it out.  Three callers compete: the configuration pages, the pairing    *)
(* of a phone and the enrollment of a voice.  The Core may be stopped      *)
(* between any two of these steps, a write may fail, the file may be found *)
(* damaged, and the environment may be edited while the Core is down.      *)
(*                                                                         *)
(* Data kept: the LLM backend (one that needs a key, one that does not),   *)
(* its key, the household members, those with a linked phone, and the      *)
(* recipients of phone messages derived from them.                         *)
(***************************************************************************)
EXTENDS Integers, FiniteSets

CONSTANTS
  People,       \* names of household members
  Keys,         \* API keys
  SeedPhones,   \* people the configuration file lists as recipients
  MaxEdits,     \* bound on the changes asked of the Core
  MaxStops,     \* bound on stops of the Core
  MaxFaults     \* bound on failed writes, failed rebuilds, damaged files

ASSUME SettingsAssumption ==
  /\ SeedPhones \subseteq People
  /\ {"none", "cleared", "null"} \cap Keys = {}
  /\ MaxEdits \in Nat /\ MaxStops \in Nat /\ MaxFaults \in Nat

VARIABLES
  live,       \* inner: the settings every turn reads
  tools,      \* what the live LLM was built with
  file,       \* the settings file
  env,        \* the key in the environment
  seedKey,    \* the key the running Core found there at boot
  up,         \* the Core runs
  pc,         \* what each caller is doing
  cand,       \* the candidate each caller holds
  who,        \* the person the enrollment is about
  voices,     \* the people with a voiceprint (SQLite, survives a stop)
  want,       \* ghost: the changes accepted so far, applied in turn
  unsaved,    \* ghost: the last change is not in the file
  unbuilt,    \* ghost: the last rebuild failed
  unlinked,   \* ghost: people whose phone a change removed
  dropped,    \* ghost: people who left the roster other than by enrolling
  edits, stops, faults

settingsVars == <<live, tools, file, env, seedKey, up, pc, cand, who, voices,
                  want, unsaved, unbuilt, unlinked, dropped, edits, stops,
                  faults>>

Writers == {"page", "pair", "enroll"}
Backends == {"local", "cloud"}
LiveKeys == Keys \union {"none"}
FileKeys == Keys \union {"null", "cleared"}

Settings == [backend : Backends, key : LiveKeys, members : SUBSET People,
             phones : SUBSET People, recipients : SUBSET People]
Builds == [backend : Backends, key : LiveKeys, recipients : SUBSET People]
Files == [state : {"absent", "bad", "good"}, backend : Backends,
          key : FileKeys, members : SUBSET People, phones : SUBSET People,
          recipients : SUBSET People]

Unreadable(s) == [state |-> s, backend |-> "local", key |-> "null",
                  members |-> {}, phones |-> {}, recipients |-> {}]

----------------------------------------------------------------------------
(* Settings, tools, file.                                                  *)

\* A cloud backend needs its key (LlmFactory::build).
Buildable(s) == s.backend = "cloud" => s.key # "none"

\* The LLM of `s` with its tool set (build_for).
ToolsOf(s) == [backend |-> s.backend, key |-> s.key,
               recipients |-> s.recipients]

\* The recipients are the members with a phone (set_household).
WithHousehold(s, m, p) ==
  [s EXCEPT !.members = m, !.phones = p, !.recipients = p]

\* MUTANT: an empty value in the file falls back to the environment.
OverlayBlankAsUnset(seed, p) ==
  IF p \in {"null", "cleared"} THEN seed ELSE p

OverlayKey(seed, p) ==
  CASE p = "null" -> seed
    [] p = "cleared" -> "none"
    [] OTHER -> p

PersistKey(k, seed) ==
  IF k # "none" THEN k ELSE IF seed # "none" THEN "cleared" ELSE "null"

\* PersistedSettings::from_runtime.
FileOf(s, seed) ==
  [state |-> "good", backend |-> s.backend, key |-> PersistKey(s.key, seed),
   members |-> s.members, phones |-> s.phones, recipients |-> s.recipients]

\* Boot: the file over the seed, then every recipient is folded into the
\* roster and the recipients are derived again.  An empty list of recipients
\* in the file leaves the configuration's list standing.
Resolve(f, e) ==
  LET saved == f.state = "good"
      kept == IF saved /\ f.recipients # {} THEN f.recipients ELSE SeedPhones
      p == (IF saved THEN f.phones ELSE {}) \union kept
      m == (IF saved THEN f.members ELSE {}) \union kept
  IN  WithHousehold(
        [backend |-> IF saved THEN f.backend ELSE "local",
         key |-> IF saved THEN OverlayKey(e, f.key) ELSE e,
         members |-> {}, phones |-> {}, recipients |-> {}], m, p)

NoCandidate == [to |-> Resolve(Unreadable("absent"), "none"),
                build |-> ToolsOf(Resolve(Unreadable("absent"), "none"))]

----------------------------------------------------------------------------
SettingsInit ==
  /\ env \in LiveKeys
  /\ seedKey = env
  /\ file = Unreadable("absent")
  /\ live = Resolve(file, env)
  /\ tools = ToolsOf(live)
  /\ up = TRUE
  /\ pc = [w \in Writers |-> "idle"]
  /\ cand = [w \in Writers |-> NoCandidate]
  /\ who \in People
  /\ voices = {}
  /\ want = live
  /\ unsaved = FALSE
  /\ unbuilt = FALSE
  /\ unlinked = {}
  /\ dropped = {}
  /\ edits = 0 /\ stops = 0 /\ faults = 0

Holds(w) == pc[w] \in {"swap", "persist"}
LockFree == \A w \in Writers : ~Holds(w)
Quiet == \A w \in Writers : pc[w] = "idle"

\* MUTANT: no mutation lock.
TakeUnlocked(w, next, build) ==
  /\ cand' = [cand EXCEPT ![w] = [to |-> next, build |-> build]]
  /\ pc' = [pc EXCEPT ![w] = "swap"]
  /\ unbuilt' = (build # ToolsOf(next))

\* Under the lock: the live settings are copied and changed into `next`, and
\* the LLM becomes `build`.
Take(w, next, build) ==
  /\ LockFree
  /\ cand' = [cand EXCEPT ![w] = [to |-> next, build |-> build]]
  /\ pc' = [pc EXCEPT ![w] = "swap"]
  /\ unbuilt' = (build # ToolsOf(next))

\* MUTANT: a failed rebuild is only logged.
ApplyBestEffort(b, k) ==
  /\ up /\ edits < MaxEdits /\ pc["page"] = "idle"
  /\ LET next == [live EXCEPT !.backend = b, !.key = k]
     IN  Take("page", next, IF Buildable(next) THEN ToolsOf(next) ELSE tools)
  /\ want' = [want EXCEPT !.backend = b, !.key = k]
  /\ edits' = edits + 1
  /\ UNCHANGED <<live, tools, file, env, seedKey, up, who, voices, unsaved,
                 unlinked, dropped, stops, faults>>

\* Settings, keys and backend from a page or a display: the rebuild must
\* succeed, or the candidate is dropped and nothing changes (apply).
Apply(b, k) ==
  /\ up /\ edits < MaxEdits /\ pc["page"] = "idle"
  /\ LET next == [live EXCEPT !.backend = b, !.key = k]
     IN  /\ Buildable(next)
         /\ Take("page", next, ToolsOf(next))
         /\ want' = [want EXCEPT !.backend = b, !.key = k]
  /\ edits' = edits + 1
  /\ UNCHANGED <<live, tools, file, env, seedKey, up, who, voices, unsaved,
                 unlinked, dropped, stops, faults>>

\* A change with a best-effort rebuild: a failed one keeps the old LLM
\* (mutate).
Mutate(w, m, p) ==
  LET next == WithHousehold(live, m, p)
  IN  /\ \/ /\ Take(w, next, ToolsOf(next))
            /\ UNCHANGED faults
         \/ /\ faults < MaxFaults
            /\ faults' = faults + 1
            /\ Take(w, next, tools)

\* The household page saves the whole record it shows.
SaveHousehold(m, p) ==
  /\ up /\ edits < MaxEdits /\ pc["page"] = "idle"
  /\ Mutate("page", m, p)
  /\ want' = WithHousehold(want, m, p)
  /\ dropped' = (dropped \union People) \ m
  /\ edits' = edits + 1
  /\ UNCHANGED <<live, tools, file, env, seedKey, up, who, voices, unsaved,
                 unlinked, stops>>

\* A display's pairing links a phone, adding its owner if need be
\* (add_appsaid_recipient).
Pair(x) ==
  /\ up /\ edits < MaxEdits /\ pc["pair"] = "idle"
  /\ Mutate("pair", live.members \union {x}, live.phones \union {x})
  /\ want' = WithHousehold(want, want.members \union {x},
                           want.phones \union {x})
  /\ dropped' = dropped \ {x}
  /\ edits' = edits + 1
  /\ UNCHANGED <<live, tools, file, env, seedKey, up, who, voices, unsaved,
                 unlinked, stops>>

----------------------------------------------------------------------------
(* Enrollment: is the person a member, store the voiceprint, and if they   *)
(* were none add them (enroll_finish, ensure_household_member).            *)

EnrollStarts(x) ==
  /\ up /\ edits < MaxEdits /\ pc["enroll"] = "idle"
  /\ who' = x
  /\ pc' = [pc EXCEPT !["enroll"] = IF x \in live.members THEN "known"
                                                        ELSE "stranger"]
  /\ edits' = edits + 1
  /\ UNCHANGED <<live, tools, file, env, seedKey, up, cand, voices, want,
                 unsaved, unbuilt, unlinked, dropped, stops, faults>>

\* MUTANT: nobody is added to the roster.
EnrollStoresOnly ==
  /\ pc["enroll"] \in {"known", "stranger"}
  /\ voices' = voices \union {who}
  /\ pc' = [pc EXCEPT !["enroll"] = "idle"]
  /\ UNCHANGED <<live, tools, file, env, seedKey, up, cand, who, want,
                 unsaved, unbuilt, unlinked, dropped, edits, stops, faults>>

\* The commit of the voiceprint, which fails without samples.
EnrollStores ==
  /\ pc["enroll"] \in {"known", "stranger"}
  /\ \/ /\ voices' = voices \union {who}
        /\ pc' = [pc EXCEPT !["enroll"] =
                    IF pc["enroll"] = "known" THEN "idle" ELSE "ensure"]
     \/ /\ pc' = [pc EXCEPT !["enroll"] = "idle"]
        /\ UNCHANGED voices
  /\ UNCHANGED <<live, tools, file, env, seedKey, up, cand, who, want,
                 unsaved, unbuilt, unlinked, dropped, edits, stops, faults>>

\* A member by now: nothing to do.
EnsureFinds ==
  /\ pc["enroll"] = "ensure"
  /\ who \in live.members
  /\ pc' = [pc EXCEPT !["enroll"] = "idle"]
  /\ UNCHANGED <<live, tools, file, env, seedKey, up, cand, who, voices,
                 want, unsaved, unbuilt, unlinked, dropped, edits, stops,
                 faults>>

\* Not a member at the first look: take the lock and look again.
EnsureMisses ==
  /\ pc["enroll"] = "ensure"
  /\ who \notin live.members
  /\ pc' = [pc EXCEPT !["enroll"] = "lock"]
  /\ UNCHANGED <<live, tools, file, env, seedKey, up, cand, who, voices,
                 want, unsaved, unbuilt, unlinked, dropped, edits, stops,
                 faults>>

EnsureAdds ==
  /\ pc["enroll"] = "lock"
  /\ Mutate("enroll", live.members \union {who}, live.phones)
  /\ want' = WithHousehold(want, want.members \union {who}, want.phones)
  /\ dropped' = dropped \ {who}
  /\ UNCHANGED <<live, tools, file, env, seedKey, up, who, voices, unsaved,
                 unlinked, edits, stops>>

----------------------------------------------------------------------------
(* commit: swap the candidate in, then write it.                           *)

\* MUTANT: the settings are swapped, the LLM that was built is not.
SwapSettingsOnly(w) ==
  /\ pc[w] = "swap"
  /\ live' = cand[w].to
  /\ pc' = [pc EXCEPT ![w] = "persist"]
  /\ unsaved' = TRUE
  /\ UNCHANGED <<tools, file, env, seedKey, up, cand, who, voices, want,
                 unbuilt, unlinked, dropped, edits, stops, faults>>

Swap(w) ==
  /\ pc[w] = "swap"
  /\ live' = cand[w].to
  /\ tools' = cand[w].build
  /\ pc' = [pc EXCEPT ![w] = "persist"]
  /\ unsaved' = TRUE
  /\ unlinked' = (unlinked \union (live.phones \ cand[w].to.phones))
                   \ cand[w].to.phones
  /\ UNCHANGED <<file, env, seedKey, up, cand, who, voices, want, unbuilt,
                 dropped, edits, stops, faults>>

\* The file is replaced whole or not at all (write_atomic); a failed write is
\* logged and the change stands in memory.
Persist(w) ==
  /\ pc[w] = "persist"
  /\ \/ /\ file' = FileOf(cand[w].to, seedKey)
        /\ unsaved' = FALSE
        /\ UNCHANGED faults
     \/ /\ faults < MaxFaults
        /\ faults' = faults + 1
        /\ UNCHANGED <<file, unsaved>>
  /\ pc' = [pc EXCEPT ![w] = "idle"]
  /\ cand' = [cand EXCEPT ![w] = NoCandidate]
  /\ UNCHANGED <<live, tools, env, seedKey, up, who, voices, want, unbuilt,
                 unlinked, dropped, edits, stops>>

----------------------------------------------------------------------------
(* Stop, what may happen meanwhile, and boot.                              *)

\* What was asked and not written is lost, so the ghosts about it start anew.
Stop ==
  /\ up /\ stops < MaxStops
  /\ up' = FALSE
  /\ stops' = stops + 1
  /\ pc' = [w \in Writers |-> "idle"]
  /\ cand' = [w \in Writers |-> NoCandidate]
  /\ unlinked' = IF Quiet /\ ~unsaved THEN unlinked ELSE {}
  /\ dropped' = IF Quiet /\ ~unsaved THEN dropped ELSE People
  /\ UNCHANGED <<live, tools, file, env, seedKey, who, voices, want, unsaved,
                 unbuilt, edits, faults>>

EditEnvironment ==
  /\ ~up
  /\ env' \in LiveKeys \ {env}
  /\ UNCHANGED <<live, tools, file, seedKey, up, pc, cand, who, voices, want,
                 unsaved, unbuilt, unlinked, dropped, edits, stops, faults>>

DamageFile ==
  /\ ~up /\ faults < MaxFaults /\ file.state = "good"
  /\ faults' = faults + 1
  /\ file' = Unreadable("bad")
  /\ unlinked' = {}
  /\ dropped' = People
  /\ UNCHANGED <<live, tools, env, seedKey, up, pc, cand, who, voices, want,
                 unsaved, unbuilt, edits, stops>>

\* An unreadable file is moved aside; the LLM must build or the Core does
\* not start.
Boot ==
  /\ ~up
  /\ file' = IF file.state = "bad" THEN Unreadable("absent") ELSE file
  /\ LET s == Resolve(file, env)
     IN  /\ Buildable(s)
         /\ live' = s
         /\ tools' = ToolsOf(s)
         /\ want' = s
  /\ seedKey' = env
  /\ up' = TRUE
  /\ unsaved' = FALSE
  /\ unbuilt' = FALSE
  /\ UNCHANGED <<env, pc, cand, who, voices, unlinked, dropped, edits, stops,
                 faults>>

SettingsNext ==
  \/ \E b \in Backends, k \in LiveKeys : Apply(b, k)
  \/ \E m \in SUBSET People : \E p \in SUBSET m : SaveHousehold(m, p)
  \/ \E x \in People : Pair(x) \/ EnrollStarts(x)
  \/ EnrollStores \/ EnsureFinds \/ EnsureMisses \/ EnsureAdds
  \/ \E w \in Writers : Swap(w) \/ Persist(w)
  \/ Stop \/ EditEnvironment \/ DamageFile \/ Boot

SettingsSpec == SettingsInit /\ [][SettingsNext]_settingsVars
----------------------------------------------------------------------------
(* Properties.                                                             *)

SettingsTypeOK ==
  /\ live \in Settings /\ want \in Settings
  /\ tools \in Builds
  /\ file \in Files
  /\ env \in LiveKeys /\ seedKey \in LiveKeys
  /\ up \in BOOLEAN /\ unsaved \in BOOLEAN /\ unbuilt \in BOOLEAN
  /\ pc \in [Writers -> {"idle", "swap", "persist", "known", "stranger",
                         "ensure", "lock"}]
  /\ cand \in [Writers -> [to : Settings, build : Builds]]
  /\ who \in People
  /\ voices \subseteq People
  /\ unlinked \subseteq People /\ dropped \subseteq People
  /\ edits \in 0 .. MaxEdits /\ stops \in 0 .. MaxStops
  /\ faults \in 0 .. MaxFaults

\* No change is lost to another one made at the same time: with no commit in
\* flight the live settings are all accepted changes applied in turn.
NoSaveIsLost == up /\ LockFree => live = want

\* The running LLM has the backend, the key and the recipients of the live
\* settings, except after a rebuild that failed; and the recipients are
\* always the members with a phone.
ToolsFollowSettings ==
  up /\ LockFree =>
    /\ ~unbuilt => tools = ToolsOf(live)
    /\ live.recipients = live.phones

\* No change the pages accept can keep the Core from starting again: whatever
\* happens to the environment, a file it wrote can be booted from.
FileAlwaysBoots ==
  file.state = "good" => \A e \in LiveKeys : Buildable(Resolve(file, e))

\* A restart changes nothing: what is booted from the file is what was live,
\* a cleared key stays cleared in any environment, and a key the file leaves
\* open follows the environment.  The one exception is a list of recipients
\* emptied while the configuration file seeds one.
RestartChangesNothing ==
  up /\ LockFree /\ ~unsaved /\ (live.phones # {} \/ SeedPhones = {}) =>
    \A e \in LiveKeys :
      e = seedKey \/ (file.state = "good" /\ file.key # "null") =>
        Resolve(file, e) = live

\* Whoever has a voiceprint is in the roster the prompt is built from, unless
\* a page save or an unclean stop took them out.
EnrolledIsMember ==
  up /\ LockFree =>
    \A x \in voices \ dropped :
      x \in live.members \/ (who = x /\ pc["enroll"] \in {"ensure", "lock"})

\* Not true: a phone unlinked on the page and written to the file stays
\* unlinked across restarts (the boot fold is said to "never clobber a
\* page/pairing edit").
UnlinkedStaysUnlinked == up /\ LockFree => unlinked \cap live.phones = {}
============================================================================
