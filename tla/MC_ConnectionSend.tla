------------------------- MODULE MC_ConnectionSend -------------------------
(* The Connection send path instantiated for TLC: two iovecs per msghdr so *)
(* that a mutation (three iovecs) spans two msghdrs, and a write pipe that *)
(* holds two headers but not three.                                        *)
EXTENDS ConnectionSend

MC_PacketLens == {2}
MC_KeyLens == {1}
MC_ValueLens == {0, 2}
=============================================================================
