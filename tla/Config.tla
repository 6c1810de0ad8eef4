------------------------------- MODULE Config -------------------------------
(***************************************************************************)
(* What New makes of a Config (endpoint.go: defaults): zero fields get     *)
(* their defaults, the result is checked, and the unscheduled bytes are    *)
(* rounded up to whole segments.  Durations are in microseconds.           *)
(***************************************************************************)
EXTENDS Integers

MessageLimit == 1000000

Millisecond == 1000

Minute == 60000 * Millisecond

DefaultConfig ==
  [MaxMessageSize |-> MessageLimit, MaxRPCs |-> 128, MaxBufferedBytes |-> 67108864,
   HandlerWorkers |-> 8, Timeout |-> 5000 * Millisecond, RetryInterval |-> 5 * Millisecond,
   SegmentBytes |-> 1400, UnscheduledBytes |-> 14000, GrantWindow |-> 14000, Overcommit |-> 2]

Configs ==
  [MaxMessageSize : Int, MaxRPCs : Int, MaxBufferedBytes : Int, HandlerWorkers : Int,
   Timeout : Int, RetryInterval : Int, SegmentBytes : Int, UnscheduledBytes : Int,
   GrantWindow : Int, Overcommit : Int]

\* A field that is zero takes its default.
OrDefault(c, f) == IF c[f] = 0 THEN DefaultConfig[f] ELSE c[f]

WithDefaults(c) ==
  [MaxMessageSize |-> OrDefault(c, "MaxMessageSize"), MaxRPCs |-> OrDefault(c, "MaxRPCs"),
   MaxBufferedBytes |-> OrDefault(c, "MaxBufferedBytes"),
   HandlerWorkers |-> OrDefault(c, "HandlerWorkers"),
   Timeout |-> OrDefault(c, "Timeout"), RetryInterval |-> OrDefault(c, "RetryInterval"),
   SegmentBytes |-> OrDefault(c, "SegmentBytes"),
   UnscheduledBytes |-> OrDefault(c, "UnscheduledBytes"),
   GrantWindow |-> OrDefault(c, "GrantWindow"), Overcommit |-> OrDefault(c, "Overcommit")]

ValidConfig(c) ==
  /\ 1 <= c.MaxMessageSize /\ c.MaxMessageSize <= MessageLimit
  /\ 1 <= c.MaxRPCs /\ c.MaxRPCs <= 65536
  /\ 1 <= c.MaxBufferedBytes
  /\ 1 <= c.HandlerWorkers /\ c.HandlerWorkers <= 1024
  /\ Millisecond <= c.Timeout /\ c.Timeout <= Minute
  /\ Millisecond <= c.RetryInterval /\ c.RetryInterval <= c.Timeout
  /\ 256 <= c.SegmentBytes /\ c.SegmentBytes <= 1424
  /\ 1 <= c.UnscheduledBytes /\ c.UnscheduledBytes <= MessageLimit
  /\ 1 <= c.GrantWindow /\ c.GrantWindow <= MessageLimit
  /\ 1 <= c.Overcommit /\ c.Overcommit <= c.MaxRPCs

WholeSegments(n, segment) == ((n + segment - 1) \div segment) * segment

AcceptedConfig(c) == ValidConfig(WithDefaults(c))

\* What defaults returns for a configuration it accepts.
Defaults(c) ==
  LET d == WithDefaults(c)
  IN [d EXCEPT !.UnscheduledBytes = WholeSegments(@, d.SegmentBytes)]

\* What the endpoint relies on (the assumptions of module Endpoint): positive limits,
\* unscheduled bytes in whole segments and not less than was asked for, and DATA of
\* one segment, with its 56 bytes of header and 20 of IP, within an MTU of 1500
\* (api.go:65).
SoundConfig(c, d) ==
  /\ {d.MaxMessageSize, d.MaxRPCs, d.MaxBufferedBytes, d.HandlerWorkers, d.SegmentBytes,
      d.UnscheduledBytes, d.GrantWindow} \subseteq Nat \ {0}
  /\ d.UnscheduledBytes % d.SegmentBytes = 0
  /\ d.UnscheduledBytes - OrDefault(c, "UnscheduledBytes") \in 0 .. d.SegmentBytes - 1
  /\ d.Overcommit \in 1 .. d.MaxRPCs
  /\ d.SegmentBytes + 56 + 20 <= 1500
  /\ d.RetryInterval <= d.Timeout

=============================================================================
