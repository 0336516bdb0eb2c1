------------------------- MODULE MCGnirehtetService -------------------------
(* The service and its fallback threads on small sets of networks. *)
EXTENDS GnirehtetService
=============================================================================
