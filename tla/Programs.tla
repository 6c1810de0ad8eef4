------------------------------ MODULE Programs ------------------------------
(***************************************************************************)
(* The programs that call a Homa peer and report what they verified:       *)
(* `homa-bench client', which takes turns between Homa and one persistent  *)
(* TCP connection to the server of BenchServer, `homa-echo call',          *)
(* `homa-echo selftest' and the VM check against the Linux module.         *)
(*                                                                         *)
(* Each is a fixed list of calls, one at a time; the first that fails ends *)
(* the run.  A payload is what tells it from other payloads: the bytes are *)
(* a function of the length and of one number.  A Homa call is answered as *)
(* Exchange shows, by the handler's echo of this very call; the kernel     *)
(* module of the VM check may answer anything.  Frames carry, as a ghost,  *)
(* the number of the call they belong to.                                  *)
(***************************************************************************)
EXTENDS BenchServer, Latency, SequencesExt

CONSTANTS
  Mine,                  \* the connection of homa-bench client
  Rounds, Sizes, Warmup, SmallSamples, LargeSamples,    \* its options
  Echoes,                \* homa-echo call: -count
  EchoSizes,             \* the sizes of selftest and of the VM check
  Times                  \* what a clock may measure

ASSUME ProgramsAssumption ==
  /\ Mine \in Conns
  /\ {Rounds, Warmup} \subseteq Nat
  /\ {SmallSamples, LargeSamples, Echoes} \subseteq Nat \ {0}
  /\ Times \subseteq Nat

VARIABLES
  program,      \* which program this is
  pc,           \* where it is
  at,           \* the call it is at
  up, down,     \* frames under way on Mine, to and from the server
  echoing,      \* the frame the server's goroutine of Mine has in hand
  replies,      \* ghost: <<call, call the accepted reply belongs to>>
  samples,      \* latencies of the current measurement, in the order taken
  results,      \* the measurements
  summary,      \* p50, p95, p99 and max of the latest one
  log,          \* what the guest has printed
  file,         \* the output: "stdout", "absent", "theirs", "empty", "partial", "report"
  outcome       \* "none", "failed" or "passed"

callVars == <<at, up, down, echoing, replies, samples, results, summary>>
clientVars == <<program, pc, at, up, down, echoing, replies, samples, results,
                summary, log, file, outcome>>
vars == <<serverVars, clientVars>>

-----------------------------------------------------------------------------
(* The list of calls. *)

OrderFixed(round) == <<"homa", "tcp">>

Order(round) == IF round % 2 = 0 THEN <<"tcp", "homa">> ELSE <<"homa", "tcp">>

Samples(size) == IF size >= 65536 THEN LargeSamples ELSE SmallSamples

Payload(size, mark) == [len |-> size, mark |-> mark % 256]

\* The calls of one measurement: warm-ups, then samples, all with one payload.
Measurement(round, size, position) ==
  [i \in 1..Warmup + Samples(size) |->
    [transport |-> Order(round)[position], payload |-> Payload(size, round),
     sample |-> i > Warmup, last |-> i = Warmup + Samples(size),
     round |-> round, position |-> position]]

BenchCalls ==
  FlattenSeq([round \in 1..Rounds |->
    FlattenSeq([k \in 1..2 * Len(Sizes) |->
      Measurement(round, Sizes[(k + 1) \div 2], IF k % 2 = 1 THEN 1 ELSE 2)])])

\* One sample after another, one for each size; the VM check measures nothing.
EchoCalls(sizes, marks) ==
  [i \in 1..Len(sizes) |->
    [transport |-> "homa", payload |-> Payload(sizes[i], marks[i]),
     sample |-> TRUE, last |-> i = Len(sizes), round |-> 1, position |-> 1]]

\* homa-echo marks its calls 0, 17, 34, ...
EchoMarks(n) == [i \in 1..n |-> 17 * (i - 1)]

Calls ==
  [bench    |-> BenchCalls,
   call     |-> EchoCalls([i \in 1..Echoes |-> 128], EchoMarks(Echoes)),
   selftest |-> EchoCalls(EchoSizes, EchoMarks(Len(EchoSizes))),
   vmcheck  |-> EchoCalls(EchoSizes, [i \in 1..Len(EchoSizes) |-> 165])]

plan == Calls[program]

-----------------------------------------------------------------------------
(* latencySummary: percentile q of the samples, by nearest rank. *)

Quantile(ss, q) == SortSeq(ss, <)[Rank(q, Len(ss))]

\* homa-echo takes the median at index (n - 1) / 2 of the sorted latencies.
Median(ss) == SortSeq(ss, <)[(Len(ss) - 1) \div 2 + 1]

LatencySummary(ss) == [q \in {50, 95, 99, 100} |-> Quantile(ss, q)]

EchoSummary(ss) == [q \in {50, 100} |-> IF q = 50 THEN Median(ss) ELSE Last(SortSeq(ss, <))]

-----------------------------------------------------------------------------
(* The program, up to its first call. *)

\* run returns the error: the deferred calls close the connection and the endpoint,
\* and what was measured is lost.  The end of the context, whose AfterFunc closes
\* them early, is one more reason to fail.
Fails ==
  /\ pc' = "ended"
  /\ outcome' = "failed"
  /\ at' = 1
  /\ up' = << >> /\ down' = << >>
  /\ replies' = << >> /\ samples' = << >> /\ results' = << >> /\ summary' = << >>
  /\ UNCHANGED <<program, echoing, log>>

\* os.OpenFile with O_CREATE and O_EXCL.
OpenOutput ==
  /\ pc = "open"
  /\ file # "theirs"
  /\ pc' = "listen"
  /\ file' = IF file = "absent" THEN "empty" ELSE file
  /\ UNCHANGED <<program, callVars, log, outcome, serverVars>>

\* homa.Listen; the VM check starts the guest and takes its connection first.
Listen ==
  /\ pc = "listen"
  /\ pc' = CASE program = "bench" -> "dial" [] program = "vmcheck" -> "boot" [] OTHER -> "calling"
  /\ UNCHANGED <<program, callVars, log, file, outcome, serverVars>>

DialServer ==
  /\ pc = "dial"
  /\ Dial(Mine)
  /\ pc' = "calling"
  /\ UNCHANGED <<program, callVars, log, file, outcome>>

GuestPrints(line) ==
  /\ program = "vmcheck"
  /\ pc \notin {"listen", "ended"}
  /\ log' = log \cup {line}
  /\ UNCHANGED <<program, pc, callVars, file, outcome, serverVars>>

GuestReady ==
  /\ pc = "boot"
  /\ "HOMA_GUEST_READY" \in log
  /\ pc' = "calling"
  /\ UNCHANGED <<program, callVars, log, file, outcome, serverVars>>

\* The file cannot be created, a socket cannot be opened, the dial or the guest
\* is too late.
StartFails ==
  /\ pc \in {"open", "listen", "dial", "boot"}
  /\ Fails
  /\ UNCHANGED <<file, serverVars>>

-----------------------------------------------------------------------------
(* A call. *)

Begin ==
  /\ pc = "calling"
  /\ at <= Len(plan)
  /\ pc' = plan[at].transport

\* tcpCall writes its frame.
TcpSend ==
  /\ Begin
  /\ plan[at].transport = "tcp"
  /\ up' = Append(up, [payload |-> plan[at].payload, call |-> at])
  /\ UNCHANGED <<program, at, down, echoing, replies, samples, results, summary, log,
                 file, outcome, serverVars>>

HomaCall ==
  /\ Begin
  /\ plan[at].transport = "homa"
  /\ UNCHANGED <<program, callVars, log, file, outcome, serverVars>>

\* A verified call: its latency if it is a sample, the measurement if it is the last.
Record(t) ==
  LET c == plan[at]
      before == IF at > 1 /\ plan[at - 1].last THEN << >> ELSE samples
      taken == IF c.sample THEN Append(before, t) ELSE before
  IN  /\ samples' = taken
      /\ summary' = IF ~c.last THEN << >>
                    ELSE IF program = "bench" THEN LatencySummary(taken) ELSE EchoSummary(taken)
      /\ results' = IF c.last
                    THEN Append(results, [round |-> c.round, order |-> c.position,
                                          transport |-> c.transport, bytes |-> c.payload.len,
                                          count |-> Len(taken)])
                    ELSE results

\* The reply is compared with the payload, byte for byte.
Verify(reply, t) ==
  /\ reply.payload = plan[at].payload
  /\ pc' = "calling"
  /\ at' = at + 1
  /\ replies' = Append(replies, <<at, reply.call>>)
  /\ Record(t)
  /\ UNCHANGED <<program, up, echoing, log, file, outcome, serverVars>>

TcpReply(t) ==
  /\ pc = "tcp"
  /\ down # << >>
  /\ Verify(Head(down), t)
  /\ down' = Tail(down)

HomaReply(t) ==
  /\ pc = "homa"
  /\ homa
  /\ Verify([payload |-> plan[at].payload, call |-> at], t)
  /\ UNCHANGED down

\* Mutant: a call that fails is left out, and the run goes on.
CallSkipped ==
  /\ pc \in {"tcp", "homa"}
  /\ pc' = "calling"
  /\ at' = at + 1
  /\ UNCHANGED <<program, up, down, echoing, replies, samples, results, summary, log,
                 file, outcome, serverVars>>

\* The time is up, the connection or the endpoint is closed, the context has ended,
\* or the reply is not the payload: "entire run invalid".
CallFails ==
  /\ pc \in {"calling", "tcp", "homa"}
  /\ at <= Len(plan)
  /\ Fails
  /\ UNCHANGED <<file, serverVars>>

\* All calls are verified; the VM check also wants the guest's own.
Report ==
  /\ pc = "calling"
  /\ at > Len(plan)
  /\ program = "vmcheck" => "HOMA_GUEST_CLIENT_PASS" \in log
  /\ pc' = "ended"
  /\ outcome' = "passed"
  /\ file' = IF file = "empty" THEN "report" ELSE file
  /\ UNCHANGED <<program, callVars, log, serverVars>>

\* The report cannot be written, or the guest did not pass in time.
ReportFails ==
  /\ pc = "calling"
  /\ at > Len(plan)
  /\ Fails
  /\ file' = IF file = "empty" THEN "partial" ELSE file
  /\ UNCHANGED serverVars

-----------------------------------------------------------------------------
(* The server's goroutine of Mine echoes whole frames. *)

MineReads ==
  /\ up # << >>
  /\ WorkerReads(Mine)
  /\ echoing' = Head(up)
  /\ up' = Tail(up)
  /\ UNCHANGED <<program, pc, at, down, replies, samples, results, summary, log, file,
                 outcome>>

MineWrites ==
  /\ WorkerWrites(Mine)
  /\ down' = Append(down, echoing)
  /\ UNCHANGED <<program, pc, at, up, echoing, replies, samples, results, summary, log,
                 file, outcome>>

ServerMoves ==
  /\ program = "bench"
  /\ \/ ContextEnds
     \/ HomaStops
     \/ Serve
     \/ \E c \in Conns : Ends(c)
     \/ \E c \in Conns \ {Mine} : Dial(c) \/ WorkerReads(c) \/ WorkerWrites(c)
  /\ UNCHANGED clientVars

-----------------------------------------------------------------------------

Init ==
  /\ ServerInit
  /\ program \in DOMAIN Calls
  /\ pc = IF program = "bench" THEN "open" ELSE "listen"
  /\ file \in IF program = "bench" THEN {"stdout", "absent", "theirs"} ELSE {"stdout"}
  /\ at = 1
  /\ up = << >> /\ down = << >>
  /\ echoing = Nobody
  /\ replies = << >> /\ samples = << >> /\ results = << >> /\ summary = << >>
  /\ log = {}
  /\ outcome = "none"

ClientMoves ==
  \/ OpenOutput \/ Listen \/ DialServer \/ GuestReady \/ StartFails
  \/ TcpSend \/ HomaCall \/ CallFails \/ Report \/ ReportFails
  \/ \E t \in Times : TcpReply(t) \/ HomaReply(t)

Next ==
  \/ ServerMoves \/ MineReads \/ MineWrites
  \/ ClientMoves
  \/ \E line \in {"HOMA_GUEST_READY", "HOMA_GUEST_CLIENT_PASS"} : GuestPrints(line)

\* Every goroutine of the server that can run does.  No frame need arrive, no
\* connection need be made and no deadline need pass: only a closed socket wakes
\* its reader.
Fairness ==
  /\ WF_vars(AcceptLoop /\ UNCHANGED clientVars)
  /\ WF_vars(AfterFunc /\ UNCHANGED clientVars)
  /\ \A c \in Conns :
       WF_vars((sock[c] = "closed" \/ worker[c] \in {"close", "forget"})
               /\ Ends(c) /\ UNCHANGED clientVars)

Spec == Init /\ [][Next]_vars /\ Fairness

-----------------------------------------------------------------------------
(* Properties. *)

\* The reply that a call accepts is the server's answer to that call.  Samples of
\* one measurement have the same payload, so the comparison cannot tell a late
\* reply on the persistent connection from the right one: that a run ends with its
\* first failed call is what makes the latencies true (client, main.go:336-367).
OwnReply == \A i \in 1..Len(replies) : replies[i] = <<i, i>>

\* A report says "passed" only if every transport was measured with every size in
\* every round, with as many verified samples as asked for, each going first in
\* turn, and into no file but its own; the VM check only if both directions worked
\* (main.go:290-391, vmcheck run).
PassedIsComplete ==
  outcome = "passed" =>
    /\ Len(replies) = Len(plan)
    /\ file \in {"stdout", "report"}
    /\ program = "vmcheck" => log = {"HOMA_GUEST_READY", "HOMA_GUEST_CLIENT_PASS"}
    /\ program = "bench" =>
         /\ \A round \in 1..Rounds, size \in Range(Sizes), transport \in {"homa", "tcp"} :
              Cardinality({i \in 1..Len(results) :
                /\ results[i].round = round /\ results[i].bytes = size
                /\ results[i].transport = transport
                /\ results[i].count = Samples(size)}) = 1
         /\ \A i, j \in 1..Len(results) :
              /\ results[j].round = results[i].round + 1
              /\ results[j].bytes = results[i].bytes
              /\ results[j].transport = results[i].transport
              => results[j].order # results[i].order

\* The percentiles are samples of the measurement, at least q percent of which are
\* not above percentile q, and fewer than q percent below it (latencySummary).
SummaryIsNearestRank ==
  summary # << >> =>
    \A q \in DOMAIN summary :
      LET below == {i \in 1..Len(samples) : samples[i] < summary[q]}
          upTo == {i \in 1..Len(samples) : samples[i] <= summary[q]}
      IN  /\ summary[q] \in Range(samples)
          /\ 100 * Cardinality(upTo) >= q * Len(samples)
          /\ 100 * Cardinality(below) < q * Len(samples)

\* What a program reports is what it measured: all of it, none of it after a failure,
\* and summarized by nearest rank (client, call, selftest, vmcheck run).
ReportTrue == PassedIsComplete /\ (outcome = "failed" => file # "report") /\ SummaryIsNearestRank

\* serve returns once its context has ended or accepting has failed, also with
\* clients that stay connected and silent (serve, main.go:142-161).
ServeReturns == (ctx = "done" \/ accepting.pc = "leave") ~> accepting.pc = "returned"

=============================================================================
