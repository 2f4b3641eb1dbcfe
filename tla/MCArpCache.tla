------------------------------ MODULE MCArpCache ------------------------------
(***************************************************************************)
(* An instance of ArpCache for TLC: two lists, of which one can hold three *)
(* entries, so that the first, one between and the last are unlinked.      *)
(***************************************************************************)
EXTENDS ArpCache

CONSTANTS hwaA, hwaB

Hwas == {hwaA, hwaB}
Addresses == {0, 2, 4, 6, 1}
\* A connection whose descriptor is 0 is one too.
Fds == {0, 7}
===============================================================================
