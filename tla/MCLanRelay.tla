----------------------------- MODULE MCLanRelay -----------------------------
(***************************************************************************)
(* LanRelay for TLC: a few datagrams and frames of every kind.             *)
(***************************************************************************)
EXTENDS LanRelay, TLC

Homa(s, d, t, id, k) == [sport |-> s, dport |-> d, type |-> t, id |-> id, acks |-> k, long |-> TRUE]

IP(from, to, tos, h) ==
  [whole |-> TRUE, proto |-> 146, fragment |-> FALSE, truncated |-> FALSE,
   src |-> from, dst |-> to, tos |-> tos, homa |-> h]

\* From the Mac: an ACK of more calls than are counted, one of them of another
\* port, and a datagram cut short.
Acks ==
  {IP("peer", "local", 1, Homa(4003, 4000, "ACK", 2, {<<4, 4000>>, <<6, 4002>>, <<8, 4000>>})),
   [IP("peer", "local", 0, Homa(4003, 4000, "ACK", 8, {})) EXCEPT !.truncated = TRUE]}

Frame(e, mac, asks, ip) ==
  [ether |-> e, mac |-> mac, asksHost |-> asks] @@ ip

\* From the guest: a request for the host's address, DATA of two classes, and a fragment.
Frames ==
  LET data == IP("guest", "host", 0, Homa(4000, 4003, "DATA", 3, {}))
  IN {Frame("arp", "guest", TRUE, data), Frame("ip", "guest", FALSE, data),
      Frame("ip", "guest", FALSE, [data EXCEPT !.tos = 1]),
      Frame("ip", "guest", FALSE, [data EXCEPT !.fragment = TRUE])}

=============================================================================
