--------------------------- MODULE MCStreamBuffer ---------------------------
(* Model values for StreamBuffer: a small array, two byte values.          *)
EXTENDS StreamBuffer

MCByte == {0, 1}
MCZero == 0
MCCapacity == 4
=============================================================================
