------------------------------- MODULE MCNetwork -------------------------------
(***************************************************************************)
(* The driver with a ring of four descriptors (half of it is two, so the  *)
(* minimum-threshold cause comes up within the bound) and two get_ip      *)
(* calls.  Five events let rx_cur wrap round and the ring fill up (three  *)
(* descriptors are the NIC's at first) so that a packet is dropped.       *)
(***************************************************************************)
EXTENDS Network

MCForeign == {"dhcp", "data"}

\* Other hosts send no DHCP frames: only short frames besides the server.
MCShortOnly == {"data"}
=============================================================================
