---------------------------- MODULE MCInterrupts ----------------------------
(* A firmware that leaves all lines closed, and one that leaves them open. *)
EXTENDS Interrupts

MCFirmwareMasks == {<<255, 255>>, <<0, 0>>}
=============================================================================
