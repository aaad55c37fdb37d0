-------------------------- MODULE MCImageTransfer --------------------------
(* A target of two chunks, a slot of three, one more chunk on the wire. *)
EXTENDS ImageTransfer
const_Target == <<"a", "b">>
=============================================================================
