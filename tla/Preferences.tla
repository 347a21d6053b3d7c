----------------------------- MODULE Preferences -----------------------------
(***************************************************************************)
(* What the mod promises a player about the tracking mode and the yaw      *)
(* mode, without locks, mirrors, rows or an import.                        *)
(*                                                                         *)
(* A session begins with the choices that were kept.  Where none were, it  *)
(* begins with some, and either keeps just these or keeps none until it    *)
(* ends.  In a session the player changes one choice at a time; what is    *)
(* kept changes only to a choice as the session has it, each as a whole,   *)
(* and a session may end before that.                                      *)
(***************************************************************************)

CONSTANTS
  Modes,   \* the tracking modes
  None     \* no session, or nothing kept

VARIABLES
  held,    \* the choices in effect, None between sessions
  kept     \* the choices the next session will begin with, or None

preferenceVars == <<held, kept>>

Choices == [mode : Modes, yaw : BOOLEAN]

PreferencesInit ==
  /\ held = None
  /\ kept \in Choices \cup {None}

Begin ==
  /\ held = None
  /\ held' \in Choices
  /\ IF kept = None THEN kept' \in {None, held'} ELSE held' = kept /\ kept' = kept

Choose ==
  /\ held # None
  /\ held' \in Choices
  /\ held'.mode = held.mode \/ held'.yaw = held.yaw
  /\ UNCHANGED kept

KeepMode ==
  /\ held # None
  /\ kept # None
  /\ kept' = [kept EXCEPT !.mode = held.mode]
  /\ UNCHANGED held

KeepYaw ==
  /\ held # None
  /\ kept # None
  /\ kept' = [kept EXCEPT !.yaw = held.yaw]
  /\ UNCHANGED held

End ==
  /\ held' = None
  /\ UNCHANGED kept

\* The player's own hand in the files.
Edit ==
  /\ held = None
  /\ kept' \in Choices \cup {None}
  /\ UNCHANGED held

PreferencesNext == Begin \/ Choose \/ KeepMode \/ KeepYaw \/ End \/ Edit

PreferencesSpec == PreferencesInit /\ [][PreferencesNext]_preferenceVars

=============================================================================
