--------------------------- MODULE MCTruckHardware ---------------------------
(* Small instances of TruckHardware: one crane channel beside the wheels. *)
EXTENDS TruckHardware

OneCrane == <<"boom", "steering", "traction">>
=============================================================================
