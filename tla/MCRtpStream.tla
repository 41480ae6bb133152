----------------------------- MODULE MCRtpStream -----------------------------
(* RtpStream for TLC, with 3-bit sequence numbers.                         *)
EXTENDS RtpStream

AllSeqs == 0..(SeqMod - 1)
=============================================================================
