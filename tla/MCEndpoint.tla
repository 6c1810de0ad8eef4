----------------------------- MODULE MCEndpoint -----------------------------
(***************************************************************************)
(* Endpoint for TLC: one endpoint whose peers may send any packet.  What   *)
(* it sends is discarded.                                                  *)
(***************************************************************************)
EXTENDS Endpoint, Config, TLC

\* Two fields of a Config at a time at and around their limits.
BoundaryConfigs ==
  LET zero == [f \in DOMAIN DefaultConfig |-> 0]
      edge == {-1, 0, 1, 2, 255, 256, 257, 1000, 1424, 1425, 65536, MessageLimit, MessageLimit + 1}
  IN {[zero EXCEPT ![f] = v, ![g] = w] :
        f \in {"SegmentBytes", "MaxRPCs", "Timeout"}, g \in DOMAIN zero, v \in edge, w \in edge}

\* Whatever defaults accepts meets the assumptions on the constants of Endpoint.
ASSUME ConfigsSound ==
  \A c \in BoundaryConfigs : AcceptedConfig(c) => SoundConfig(c, Defaults(c))

Discard(n, packets) == n

MCLocal == <<"h", 1>>

OnePeer == {<<"a", 1>>}

\* Two endpoints of one host, which an ack record cannot tell apart.
TwoPorts == {<<"a", 1>>, <<"a", 2>>}

\* What the peers send: DATA cut at any boundary, with or without a
\* piggybacked ack, and every control packet.
Segments(max) ==
  {s \in [len : 1 .. max, off : 0 .. max - 1, n : 1 .. max] : s.off + s.n <= s.len}

DataPackets(ids, acked, max) ==
  {[type |-> "DATA", src |-> a, dst |-> Local, id |-> id, acks |-> k,
    body |-> b, len |-> s.len, off |-> s.off, n |-> s.n, incoming |-> g, version |-> 1] :
      a \in Peers, id \in ids, k \in {{}} \cup {{x} : x \in acked}, b \in Bodies,
      s \in Segments(max + 1), g \in {0, UnscheduledBytes, max}}

RangePackets(ids, max) ==
  {[type |-> t, src |-> a, dst |-> Local, id |-> id, off |-> x, n |-> n] :
      t \in {"GRANT", "RESEND"}, a \in Peers, id \in ids, x \in 0 .. max,
      n \in {1, max, ResendAll}}

PlainPackets(types, ids, acked) ==
  {[type |-> t, src |-> a, dst |-> Local, id |-> id, acks |-> k] :
      t \in types, a \in Peers, id \in ids, k \in {{}} \cup {{x} : x \in acked}}

\* To a server: the peer's identifiers are even.
ToServer ==
  DataPackets({2, 4}, {2, 4}, MaxMessageSize) \cup RangePackets({2, 4}, MaxMessageSize)
  \cup PlainPackets({"RPC_UNKNOWN"}, {2, 4}, {}) \cup PlainPackets({"ACK"}, {2, 4}, {4})

\* To a client: the peer's identifiers are odd.
ToClient ==
  DataPackets({3, 5, 7}, {}, MaxMessageSize) \cup RangePackets({3, 5, 7}, MaxMessageSize)
  \cup PlainPackets({"RPC_UNKNOWN", "NEED_ACK"}, {3, 5, 7}, {})

\* To an endpoint that is both: one request and one call.
ToBoth ==
  DataPackets({2, 3}, {2}, MaxMessageSize) \cup RangePackets({2, 3}, MaxMessageSize)
  \cup PlainPackets({"RPC_UNKNOWN", "NEED_ACK", "ACK"}, {2, 3}, {})

\* From several hosts: one request each, acks that name no port, and cutoffs.
Hosts == TwoPorts \cup {<<"b", 1>>, <<"c", 1>>}

FromHosts ==
  DataPackets({2}, {2}, MaxMessageSize) \cup PlainPackets({"ACK"}, {2}, {2})
  \cup {[p EXCEPT !.version = 0] : p \in DataPackets({2}, {}, 1)}
  \cup [type : {"CUTOFFS"}, src : Peers, dst : {Local}, id : {2}, version : {0, 1}]

Symmetry == Permutations(Obj) \cup Permutations(Callers)

=============================================================================
