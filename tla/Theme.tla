--------------------------------- MODULE Theme ---------------------------------
(***************************************************************************)
(* The color theme of a tab (components/theme-provider.tsx) as functions   *)
(* of what it has stored, what the system prefers and what happens.        *)
(***************************************************************************)
Themes == {"dark", "light", "system"}

(* The first theme: the stored one if it is one.                           *)
InitialTheme(stored) == IF stored \in Themes THEN stored ELSE "system"

(* applyTheme: the class of the page. While the theme is "system" a change *)
(* of the system's preference is applied again.                            *)
AppliedTheme(theme, system) == IF theme = "system" THEN system ELSE theme

(* The key "d" counts, held once, without modifiers and not while typing.  *)
KeyCounts(key, repeat, modified, editing) ==
  key \in {"d", "D"} /\ ~repeat /\ ~modified /\ ~editing

(* It turns to the other of dark and light, and stores that.               *)
ToggledTheme(theme, system) ==
  IF AppliedTheme(theme, system) = "dark" THEN "light" ELSE "dark"

(* A storage event: another tab has changed a key.                         *)
StoredElsewhere(theme, ours, newValue) ==
  IF ours THEN InitialTheme(newValue) ELSE theme
================================================================================
