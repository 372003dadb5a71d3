------------------------------ MODULE MCCfaRow ------------------------------
(***************************************************************************)
(* Offsets around every limit of the row's fields.                         *)
(***************************************************************************)
EXTENDS CfaRow

MCOffsets == {-(2^16), -(2^15) - 1, -(2^15), -16, 0, 8, 255, 256, 2^15 - 1, 2^15,
              2^16 - 1, 2^16, 2^16 + 8}
MCDerefOffsets == {-8, 0, 8, 127, 128, 255, 256}
=============================================================================
