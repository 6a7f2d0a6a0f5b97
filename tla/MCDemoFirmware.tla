--------------------------- MODULE MCDemoFirmware ---------------------------
(* A small instance of the demo firmware for TLC. *)
EXTENDS DemoFirmware

OnlyStrict == {Strict}
=============================================================================
