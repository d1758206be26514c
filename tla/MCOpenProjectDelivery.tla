------------------------ MODULE MCOpenProjectDelivery ------------------------
(* One run on one work package, with both files to attach.                 *)
EXTENDS OpenProjectDelivery, TLC

CONSTANT run

OneResult == run :> Files
=============================================================================
