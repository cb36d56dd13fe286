---------------------------- MODULE MCHolePunch ----------------------------
(* HolePunch with intervals in place of durations: the defaults 1s and 60s *)
(* become <<1, 5>> (not a power of two times the minimum, so that doubling *)
(* meets the cap), the low power mode <<3, 3>>.                            *)
EXTENDS HolePunch

Normal == <<1, 5>>
LowPower == {<<3, 3>>}
=============================================================================
