------------------------------ MODULE MCScreen ------------------------------
(***************************************************************************)
(* What a client shows and what is streamed from it, one at a time: the    *)
(* livestream driven by hand, with faults, or by its viewers and other     *)
(* activity, without; and the desired state of the display.                *)
(***************************************************************************)
EXTENDS Livestream, DisplayControl

VARIABLE focus

Init ==
  /\ LsInit /\ KlInit /\ DcInit
  /\ focus \in {"manual", "viewers", "display"}

Next ==
  /\ \/ /\ \/ focus = "manual" /\ (LsManual \/ LsMishap \/ LsFollows)
           \/ focus = "viewers" /\ (LsPresence \/ LsFollows)
        /\ UNCHANGED <<klvars, dcvars>>
     \/ focus = "display" /\ DcNext /\ UNCHANGED lsvars
  /\ UNCHANGED focus

FairSpec == Init /\ [][Next]_<<lsvars, klvars, dcvars, focus>> /\ LsFairness /\ DcFairness

=============================================================================
