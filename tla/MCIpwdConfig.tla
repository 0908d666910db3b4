----------------------------- MODULE MCIpwdConfig -----------------------------
(* Values of the constants of IpwdConfig for TLC. *)
EXTENDS IpwdConfig

\* Below the range, its ends (0 is also no number at all), above, and one too long
\* for an int whose low bits are in the range.
Numbers == {-1, 0, 600, 601, 2 * IntHalf + 1}
=============================================================================
