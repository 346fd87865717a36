--------------------------------- MODULE Lists ---------------------------------
(***************************************************************************)
(* What the dialogs of the dashboard need of lists: four operators of      *)
(* SequencesExt, under their names.  Dashboard has an instance of each     *)
(* dialog and with it of every module the dialog extends, and all of their *)
(* definitions come into each proof about Dashboard; those of SequencesExt *)
(* and of what it extends, once for each dialog, made the proofs take five *)
(* times as long.                                                          *)
(***************************************************************************)
EXTENDS Naturals, Sequences

ToSet(s) == {s[i] : i \in DOMAIN s}

Last(s) == s[Len(s)]

RemoveAt(s, i) == SubSeq(s, 1, i - 1) \o SubSeq(s, i + 1, Len(s))

InsertAt(s, i, e) == SubSeq(s, 1, i - 1) \o <<e>> \o SubSeq(s, i, Len(s))
================================================================================
