----------------------------- MODULE MCSettings -----------------------------
(***************************************************************************)
(* What the Core keeps, checked in one run: the settings, the record of    *)
(* who said what, and the voices being learnt.  The three modules share no *)
(* variable, so a behaviour moves the one that focus names while the       *)
(* others rest in an initial state.                                        *)
(***************************************************************************)
EXTENDS SettingsStore, SpeakerMemory, Enrollment, TLC

VARIABLE focus

keptVars == <<focus, settingsVars, memoryVars, enrollVars>>

\* A part with several initial states needs one of them to rest in.
KeptInit ==
  /\ focus \in {"settings", "memory", "enroll"}
  /\ SettingsInit /\ MemoryInit /\ EnrollInit
  /\ focus # "settings" =>
       env = "none" /\ who = CHOOSE p \in People : TRUE

KeptNext ==
  \/ /\ focus = "settings" /\ SettingsNext
     /\ UNCHANGED <<focus, memoryVars, enrollVars>>
  \/ /\ focus = "memory" /\ MemoryNext
     /\ UNCHANGED <<focus, settingsVars, enrollVars>>
  \/ /\ focus = "enroll" /\ EnrollNext
     /\ UNCHANGED <<focus, settingsVars, memoryVars>>

KeptSpec == KeptInit /\ [][KeptNext]_keptVars

\* Nothing tells voices, graph stores or admins apart but their names.
KeptSymmetry ==
  Permutations(Voices) \union Permutations(Stores) \union Permutations(Admins)
=============================================================================
