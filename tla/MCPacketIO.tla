---------------------------- MODULE MCPacketIO -----------------------------
(* Two writers and two readers on one descriptor. *)
EXTENDS PacketIO

CONSTANTS short1, short2, long, arp, other

Classes ==
  [a \in Arrivals |-> CASE a \in {short1, short2} -> "fits" [] a = long -> "long"
                        [] a = arp -> "arp" [] OTHER -> "other"]

=============================================================================
