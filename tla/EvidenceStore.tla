---------------------------- MODULE EvidenceStore ----------------------------
(***************************************************************************)
(* What the rest of the quality tools relies on: an output directory       *)
(* either cannot be loaded, or it holds the sound result of one run, and   *)
(* what could be loaded once is what is loaded ever after.                 *)
(***************************************************************************)
CONSTANTS Sound,    \* the results a run may publish
          NoResult  \* nothing can be loaded

VARIABLE evidence

EvidenceInit == evidence = NoResult
Publish == evidence = NoResult /\ evidence' \in Sound
EvidenceSpec == EvidenceInit /\ [][Publish]_evidence
=============================================================================
