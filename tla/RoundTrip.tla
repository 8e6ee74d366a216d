------------------------------ MODULE RoundTrip ------------------------------
(***************************************************************************)
(* lab/benchmark.py: every repeat opens a transport, writes payloads and   *)
(* reads them back, measures, closes the transport and exports its         *)
(* samples; an error invalidates the repeat.  The transport takes and      *)
(* gives as many bytes as it likes, may hold any bytes (a device, those    *)
(* another process has written to it), and may be broken.  The endpoints   *)
(* are those of a pipe or a socket pair; the device's own context manager  *)
(* is in DeviceSession.                                                    *)
(***************************************************************************)
EXTENDS Integers, Sequences, FiniteSets

CONSTANTS Repeats,      \* how many repeats there are
          Size,         \* bytes of a payload
          Warmup, Iterations,   \* exchanges before and in the measurement
          Base, Marker,         \* values of a byte (256), bytes of the marker (8)
          Capacity,     \* bytes the transport holds
          MaxLeft,      \* bound: how many bytes another user of the device left in it
          Durations,    \* what the clock may measure
          MaxErrors     \* bound: how many calls raise

VARIABLES
  run, pc,        \* the number of the repeat and where it is
  fault, queue,   \* the transport; a byte knows the exchange that wrote it, -1 before
  open, closes,   \* the endpoints that are open; the calls of close() for each
  resources,      \* self.resources: the endpoints that are to be closed
  raised,         \* the exception: "none", "setup", "body", "cleanup" or "export"
  index, offset, data,     \* the exchange, and what it has written and read
  samples,
  rows,           \* run -> rows of it in samples.csv
  runs,           \* run-NNN.json of the repeats so far
  manifest, errors,
  first, stale,   \* for the properties: the first error; whether bytes of another
                  \* exchange were read
  left            \* the bytes somebody left in the transport

vars == <<run, pc, fault, queue, open, closes, resources, raised, index, offset, data, samples,
          rows, runs, manifest, errors, first, stale, left>>
transport == <<fault, queue, left>>
endpoints == <<open, closes, resources>>
measuring == <<index, offset, data, samples>>
saved == <<run, rows, runs, manifest>>

Endpoint == {"reader", "writer"}
Faults == {"none", "stuck", "lossy", "eof"}

\* Every repeat has a transport of its own.
Fresh ==
  /\ fault' = "none" /\ queue' = << >> /\ left' = << >>
  /\ raised' = "none" /\ first' = "none" /\ stale' = FALSE
  /\ index' = 0 /\ offset' = 0 /\ data' = << >> /\ samples' = << >>
  /\ closes' = [e \in Endpoint |-> 0]

Byte == 0..(Base - 1)

Init ==
  /\ run = 1 /\ pc = "enter" /\ fault = "none" /\ queue = << >> /\ left = << >>
  /\ open = {} /\ resources = {} /\ closes = [e \in Endpoint |-> 0]
  /\ raised = "none" /\ first = "none" /\ stale = FALSE
  /\ index = 0 /\ offset = 0 /\ data = << >> /\ samples = << >>
  /\ rows = [r \in 1..Repeats |-> 0] /\ runs = << >>
  /\ manifest = "running" /\ errors = 0

Raise(what) ==
  /\ raised' = what
  /\ first' = IF first = "none" THEN what ELSE first

MayFail == errors < MaxErrors /\ errors' = errors + 1

-----------------------------------------------------------------------------
\* Transport.__enter__ and __exit__.

\* Both endpoints come from one call.  Making them nonblocking may still raise.
Enter ==
  /\ pc = "enter"
  /\ fault' \in Faults
  /\ \E n \in 0..MaxLeft : \E bytes \in [1..n -> Byte] :
       /\ left' = bytes
       /\ queue' = [k \in 1..n |-> [value |-> bytes[k], index |-> -1]]
  /\ \/ MayFail /\ Raise("setup") /\ pc' = "record" /\ UNCHANGED <<open, resources>>
     \/ /\ open' = Endpoint /\ resources' = Endpoint
        /\ \/ MayFail /\ Raise("setup") /\ pc' = "close"
           \/ pc' = "send" /\ UNCHANGED <<raised, first, errors>>
  /\ UNCHANGED <<closes, measuring, saved, stale>>

\* ExitStack calls every close(), whichever of them raise; a descriptor is gone either way.
Close(failing) ==
  /\ closes' = [e \in Endpoint |-> IF e \in resources THEN closes[e] + 1 ELSE closes[e]]
  /\ open' = open \ resources

CleanupRaises == IF raised = "none" THEN Raise("cleanup") ELSE UNCHANGED <<raised, first>>

Leave ==
  /\ pc = "close"
  /\ resources' = {}
  /\ \E failing \in SUBSET resources :
       /\ Close(failing)
       /\ IF failing = {} THEN UNCHANGED <<raised, first, errors>> ELSE MayFail /\ CleanupRaises
  /\ pc' = "record"
  /\ UNCHANGED <<transport, measuring, saved, stale>>

-----------------------------------------------------------------------------
\* measure and exchange.

\* Mutant: every exchange sends the same.
PayloadFor_Constant(i) == [k \in 1..Size |-> 0]

\* payload_for: the index in little-endian order, over and over, cut to the size.
PayloadFor(i) ==
  LET rest[d \in 0..(Marker - 1)] == IF d = 0 THEN i ELSE rest[d - 1] \div Base
  IN  [k \in 1..Size |-> rest[(k - 1) % Marker] % Base]

Fails == Raise("body") /\ pc' = "close"

Front(seq, n) == SubSeq(seq, 1, n)
Rest(seq, n) == SubSeq(seq, n + 1, Len(seq))
Lesser(a, b) == IF a < b THEN a ELSE b

\* What write() may return: less than asked when there is little room, nothing at all from
\* a transport that is stuck.  EAGAIN, when there is no room, is an exception.
Taken ==
  IF fault = "stuck" THEN {0} ELSE 1..Lesser(Size - offset, Capacity - Len(queue))

Progress(count, wanted) == 0 < count /\ count <= wanted

Send ==
  /\ pc = "send" /\ offset < Size
  /\ \/ /\ Taken = {} /\ Fails /\ UNCHANGED <<queue, offset>>
     \/ \E count \in Taken :
          IF Progress(count, Size - offset)
          THEN /\ LET sent == [k \in 1..count |-> [value |-> PayloadFor(index)[offset + k],
                                                   index |-> index]]
                  IN  queue' = queue \o (IF fault = "lossy" THEN Front(sent, count - 1) ELSE sent)
               /\ offset' = offset + count
               /\ UNCHANGED <<raised, first, pc>>
          ELSE Fails /\ UNCHANGED <<queue, offset>>
  /\ UNCHANGED <<fault, left, endpoints, index, data, samples, saved, errors, stale>>

Sent ==
  /\ pc = "send" /\ offset = Size /\ pc' = "receive"
  /\ UNCHANGED <<transport, endpoints, raised, measuring, saved, errors, first, stale>>

\* Nothing to read is EAGAIN, or an end of file from a broken transport: both end the repeat.
Receive ==
  /\ pc = "receive" /\ Len(data) < Size
  /\ IF queue = << >> \/ fault = "eof"
     THEN Fails /\ UNCHANGED <<queue, data, stale>>
     ELSE \E n \in 1..Lesser(Size - Len(data), Len(queue)) :
            /\ data' = data \o [k \in 1..n |-> queue[k].value]
            /\ stale' = (stale \/ \E k \in 1..n : queue[k].index # index)
            /\ queue' = Rest(queue, n)
            /\ UNCHANGED <<raised, first, pc>>
  /\ UNCHANGED <<fault, left, endpoints, index, offset, samples, saved, errors>>

Exchanged ==
  /\ pc = "receive" /\ Len(data) = Size
  /\ IF data # PayloadFor(index)
     THEN Fails /\ UNCHANGED <<index, samples>>
     ELSE /\ index' = index + 1
          /\ IF index < Warmup THEN UNCHANGED samples
             ELSE \E elapsed \in Durations : samples' = Append(samples, elapsed)
          /\ pc' = IF index + 1 = Warmup + Iterations THEN "close" ELSE "send"
          /\ UNCHANGED <<raised, first>>
  /\ offset' = 0 /\ data' = << >>
  /\ UNCHANGED <<transport, endpoints, saved, errors, stale>>

\* sorted(): at place k is the sample with fewer than k below it and k or more up to it.
Ordered(values) ==
  [k \in DOMAIN values |->
     CHOOSE v \in {values[i] : i \in DOMAIN values} :
       /\ Cardinality({i \in DOMAIN values : values[i] < v}) < k
       /\ k <= Cardinality({i \in DOMAIN values : values[i] <= v})]

Percentile(ordered, percent) == ordered[(Len(ordered) * percent + 99) \div 100]

Summarize ==
  LET ordered == Ordered(samples)
  IN  [n |-> Len(samples), p50 |-> Percentile(ordered, 50), p99 |-> Percentile(ordered, 99)]

NoMeasurement == [n |-> 0, p50 |-> 0, p99 |-> 0]

-----------------------------------------------------------------------------
\* The loop of main().

\* Writing and flushing the rows may raise after any of them: the measurement, which the run
\* has by then, stays in it.
Export ==
  /\ pc = "record" /\ raised = "none"
  /\ \/ /\ rows' = [rows EXCEPT ![run] = Iterations] /\ UNCHANGED <<errors, raised, first>>
        /\ runs' = Append(runs, [status |-> "complete", measurement |-> Summarize])
     \/ /\ MayFail /\ Raise("export")
        /\ \E n \in 0..Iterations : rows' = [rows EXCEPT ![run] = n]
        /\ runs' = Append(runs, [status |-> "inconclusive", measurement |-> Summarize])
  /\ pc' = "recorded"
  /\ UNCHANGED <<run, transport, endpoints, measuring, manifest, stale>>

Discard ==
  /\ pc = "record" /\ raised # "none"
  /\ runs' = Append(runs, [status |-> "inconclusive", measurement |-> NoMeasurement])
  /\ pc' = "recorded"
  /\ UNCHANGED <<run, rows, transport, endpoints, raised, measuring, manifest, errors, first, stale>>

NextRun ==
  /\ pc = "recorded" /\ run < Repeats
  /\ run' = run + 1 /\ pc' = "enter"
  /\ Fresh
  /\ UNCHANGED <<open, resources, rows, runs, manifest, errors>>

\* aggregate(): the repeats that completed, of those that were attempted.
Aggregate == {r \in DOMAIN runs : runs[r].status = "complete"}

Finish ==
  /\ pc = "recorded" /\ run = Repeats
  /\ pc' = "ended"
  /\ manifest' = IF Aggregate = DOMAIN runs THEN "complete" ELSE "incomplete"
  /\ UNCHANGED <<run, rows, runs, transport, endpoints, raised, measuring, errors, first, stale>>

Next == Enter \/ Leave \/ Send \/ Sent \/ Receive \/ Exchanged \/ Export \/ Discard
          \/ NextRun \/ Finish

\* Every call returns: the descriptors do not block.
Spec == Init /\ [][Next]_vars /\ WF_vars(Next)

-----------------------------------------------------------------------------
Completed == pc = "recorded" /\ runs[run].status = "complete"

Exchanges == Warmup + Iterations

\* Somebody left, from the first byte on, what the measurement was about to write.
LeftLikePayloads ==
  \A i \in 0..(Exchanges - 1), k \in 1..Size :
    i * Size + k <= Len(left) => left[i * Size + k] = PayloadFor(i)[k]

(***************************************************************************)
(* measure and exchange ("Vary contents outside each timed exchange to     *)
(* detect stale returned payloads"): a repeat that completes has read      *)
(* back, in every exchange, the very bytes that exchange wrote, through    *)
(* any sequence of short writes and reads, and nothing is left over.  Only *)
(* contents are compared, so there is one way out: bytes left in the       *)
(* transport that begin like the payloads themselves.  A sound transport   *)
(* lets them pass when there are as many as Base payloads have, or so many *)
(* that at most two payloads follow them; a lossy one when they make up    *)
(* for the byte or more that every exchange loses.                         *)
(***************************************************************************)
CompleteMeansFresh ==
  Completed =>
    \/ ~stale /\ queue = << >>
    \/ /\ left # << >> /\ LeftLikePayloads
       /\ IF fault = "lossy" THEN Len(left) >= Exchanges
          ELSE Len(left) >= Base * Size \/ Len(left) + 2 * Size >= Exchanges * Size

(***************************************************************************)
(* _close_resources and __exit__: whichever step raised, every endpoint    *)
(* that was opened is closed, and closed once: a second close() could hit  *)
(* a descriptor that was given to somebody else.                           *)
(***************************************************************************)
EndpointsClosedOnce ==
  pc \in {"record", "recorded"} =>
    /\ open = {}
    /\ \A e \in Endpoint : closes[e] <= 1

(***************************************************************************)
(* __enter__, __exit__ and the except clause of main(): the error that is  *)
(* saved with a repeat is the first one, not one of the cleanup it caused, *)
(* and a repeat with an error is inconclusive.  One in which the setup, an *)
(* exchange or the cleanup raised is not measured and has no row in        *)
(* samples.csv; one whose rows could not be written keeps its measurement  *)
(* (benchmark.py:264).  A complete repeat has a row for every sample.      *)
(***************************************************************************)
FirstErrorKept ==
  /\ raised = first
  /\ pc = "recorded" =>
       /\ runs[run].status = "complete" <=> first = "none"
       /\ first \in {"setup", "body", "cleanup"} =>
            runs[run].measurement = NoMeasurement /\ rows[run] = 0
       /\ first = "none" => runs[run].measurement.n = Iterations /\ rows[run] = Iterations

(***************************************************************************)
(* percentile: the nearest rank, that is the least of the samples that at  *)
(* least the given percentage of them do not exceed.                       *)
(***************************************************************************)
PercentilesAreRanks ==
  Completed =>
    \A p \in {<<50, runs[run].measurement.p50>>, <<99, runs[run].measurement.p99>>} :
      LET AtMost(v) == Cardinality({i \in DOMAIN samples : samples[i] <= v})
      IN  /\ \E i \in DOMAIN samples : samples[i] = p[2]
          /\ AtMost(p[2]) * 100 >= p[1] * Len(samples)
          /\ \A i \in DOMAIN samples :
               samples[i] < p[2] => AtMost(samples[i]) * 100 < p[1] * Len(samples)
=============================================================================
