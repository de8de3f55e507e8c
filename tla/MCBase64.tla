------------------------------- MODULE MCBase64 -------------------------------
(* Bytes and letters with all and with none of the bits, and mixtures. *)
EXTENDS Base64

MCBytes == {0, 3, 90, 192, 255}
MCLetters == {0, 21, 42, 63}
=============================================================================
