--------------------------- MODULE QualityRatchet ---------------------------
(***************************************************************************)
(* What an accepted baseline is for: the standard of a mode is set once    *)
(* and only raised.  No assertion starts to fail, or to fail in another    *)
(* way, and no retrieval metric drops.                                     *)
(***************************************************************************)
CONSTANTS Mode, Standards, AtLeast(_, _, _), NoStandard

VARIABLE standard

RatchetInit == standard = [mode \in Mode |-> NoStandard]
Raise ==
  /\ \A mode \in Mode :
       \/ standard'[mode] = standard[mode]
       \/ standard[mode] = NoStandard
       \/ AtLeast(mode, standard'[mode], standard[mode])
  /\ standard' \in [Mode -> Standards \cup {NoStandard}]
RatchetSpec == RatchetInit /\ [][Raise]_standard
=============================================================================
