------------------------- MODULE MCTransportMatrix -------------------------
(***************************************************************************)
(* Instances of TransportMatrix for TLC.                                   *)
(***************************************************************************)
EXTENDS TransportMatrix

SoloAndUsb4 == <<"solo", "usb4_rdma">>
OneModel == <<"model">>
Outcomes == {"done", "error"}
=============================================================================
