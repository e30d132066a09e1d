---------------------------- MODULE MCFeePolicy ----------------------------
(* FeePolicy with 11-bit amounts: values in half units, so that a fee of   *)
(* 25 percent meets exact results and midpoints, 100 percent is the last   *)
(* valid rate and a fixed fee of 2000 overflows.  A fee is exact to one    *)
(* part in 512, so that at the highest prices a percentage may be off by   *)
(* two units, as it may be in the code for prices of 2^52 and more.        *)
EXTENDS FeePolicy

MCHalf == 1024
MCValues == {-2, 0, 1, 3, 14, 50, 200, 202, 4000}
MCLimits == {-1, 0, 5, 300}
MCPrices == {0, 1, 2, 50, 100, 600, 1023}
=============================================================================
