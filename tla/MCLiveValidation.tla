--------------------------- MODULE MCLiveValidation ---------------------------
(* An instance of LiveValidation: the driver's own instance on a fresh node.     *)
EXTENDS LiveValidation, MCRegtestDriver
=============================================================================
