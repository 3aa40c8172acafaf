------------------------------ MODULE MCCodec ------------------------------
(* A small instance of Codec for TLC.                                      *)
EXTENDS Codec

(* A two-bit hash keeps the last two of three such bytes, so every chain   *)
(* holds strings that do not match, and uses up steps on them.             *)
MCTwoBytes == {{}, {0}}
=============================================================================
