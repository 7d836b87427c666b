---------------------------- MODULE MCBootloader ----------------------------
(* Bootloader on a small instance. *)
EXTENDS Bootloader
=============================================================================
