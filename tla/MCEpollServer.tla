--------------------------- MODULE MCEpollServer ---------------------------
(***************************************************************************)
(* Three connections for two descriptors, so that numbers are reused while *)
(* recipients hold them and main handles older events.                     *)
(***************************************************************************)
EXTENDS EpollServer
=============================================================================
