------------------------------- MODULE MCHwAddrs -------------------------------
(***************************************************************************)
(* An instance of HwAddrs for TLC: three names of devices, of which two    *)
(* are there at first, up to three addresses (of which two are lost in the *)
(* first buffer), and three changes at any moment.                         *)
(***************************************************************************)
EXTENDS HwAddrs

CONSTANTS lo, eth1

Devices == {lo, eth0, eth1}
e(d, l) == [dev |-> d, labelled |-> l]

\* A loopback, and Ethernet addresses that begin with 00:0c.
HwNumbers == [d \in Devices |-> IF d = lo THEN 772 ELSE 1 + 12 * 2^24]

\* Nothing, lo alone, eth0 with and without aliases.
Starts ==
  {<<>>, <<e(lo, FALSE)>>, <<e(lo, FALSE), e(eth0, FALSE)>>,
   <<e(eth0, FALSE), e(eth0, TRUE)>>,
   <<e(lo, FALSE), e(eth0, FALSE), e(eth0, TRUE)>>,
   <<e(eth0, FALSE), e(eth0, FALSE), e(eth1, FALSE)>>}
===============================================================================
