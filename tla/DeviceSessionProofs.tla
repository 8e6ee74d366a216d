------------------------ MODULE DeviceSessionProofs ------------------------
(***************************************************************************)
(* A run on the real device is just to the device, keeps to its own        *)
(* descriptor and earns its result, for every set of scenarios validate()  *)
(* lets through, every leftover in the device and any number of failing    *)
(* system calls.                                                           *)
(*                                                                         *)
(* LawfulNotAccused rests on a fact about functions: the simulator without *)
(* a fault, which is written independently of the reference model, answers *)
(* every operation as the model does and moves to the same state.          *)
(***************************************************************************)
EXTENDS DeviceSession, SequenceTheorems, TLAPS

Entering == {"open", "fstat", "get", "clear", "set"}
Exiting  == {"exit_clear", "exit_set", "exit_close"}
Inside   == {"fstat", "get", "clear", "set", "body", "enter_close"} \cup Exiting

Device == [capacity : MinCapacity..MaxCapacity, queue : Seq(Nat), fault : Faults]

DeviceOK(dev) == dev \in Device /\ Len(dev.queue) <= dev.capacity

\* The request of a valid operation, its bytes included.
Request(op) == ValidOperation(op) /\ (op.op = "write" => op.data \in Seq(Nat))

\* The state of the reference model that a device corresponds to.
ModelOf(dev) == [capacity |-> dev.capacity, data |-> dev.queue]

SessionTypeOK ==
  /\ scenario \in Scenarios
  /\ DeviceOK(kernel)
  /\ pc \in Entering \cup Inside \cup {"return", "ended"}
  /\ index \in 0..Len(scenario.operations)
  /\ found \in MinCapacity..MaxCapacity
  /\ status \in {"pass", "fail", "inconclusive"}
  /\ raised \in {"none", "enter", "body", "cleanup"}

\* Whose the descriptor number is at each place.
DescriptorInv ==
  /\ pc = "open" => table = "free" /\ fd = FALSE
  /\ pc \in Inside => table = "device" /\ fd = TRUE
  /\ pc \in {"return", "ended"} => table # "device" /\ fd = FALSE
  /\ misused = FALSE

\* A device without a fault goes through the states of the reference model.
LawInv ==
  kernel.fault = "none" =>
    /\ status # "fail"
    /\ pc \in Entering => model = NewModel(scenario.capacity)
    /\ pc = "set" => kernel.queue = << >>
    /\ pc = "body" => model = ModelOf(kernel)

Restored == kernel.queue = << >> /\ kernel.capacity = found

\* Where the device is as it was found, and which exception is on its way.
ResultInv ==
  /\ pc \in Entering => kernel.capacity = found
  /\ pc \in {"clear", "set", "body"} \cup Exiting => original = found
  /\ pc = "exit_set" => kernel.queue = << >>
  /\ pc \in {"exit_close", "return"} /\ raised = "none" => Restored
  /\ pc = "ended" /\ raised = "none" => Restored
  /\ pc = "ended" /\ raised # "none" => status = "inconclusive"
  /\ pc = "enter_close" => raised = "enter"
  /\ bodyRaised = TRUE => raised = "body" /\ pc \in Exiting \cup {"return", "ended"}
  /\ bodyRaised \in BOOLEAN

SessionInv == SessionTypeOK /\ DescriptorInv /\ LawInv /\ ResultInv

-----------------------------------------------------------------------------
(***************************************************************************)
(* The simulator as functions.                                             *)
(***************************************************************************)
\* The front and the rest of a stream.
LEMMA FrontAndRest ==
  ASSUME NEW s \in Seq(Nat), NEW n \in Nat, n <= Len(s)
  PROVE  /\ Front(s, n) \in Seq(Nat) /\ Len(Front(s, n)) = n
         /\ Rest(s, n) \in Seq(Nat) /\ Len(Rest(s, n)) = Len(s) - n
<1>1. Len(s) \in Nat
  BY LenProperties
<1>2. /\ \A i \in 1..n : s[i] \in Nat
      /\ \A i \in n + 1..Len(s) : s[i] \in Nat
  BY <1>1, ElementOfSeq
<1>3. Front(s, n) \in Seq(Nat) /\ Len(Front(s, n)) = IF 1 <= n THEN n - 1 + 1 ELSE 0
  BY <1>2, SubSeqProperties DEF Front
<1>4. /\ Rest(s, n) \in Seq(Nat)
      /\ Len(Rest(s, n)) = IF n + 1 <= Len(s) THEN Len(s) - (n + 1) + 1 ELSE 0
  <2>1. n + 1 \in Int /\ Len(s) \in Int
    BY <1>1
  <2> QED
    BY <1>2, <2>1, SubSeqProperties DEF Rest
<1>5. Len(Front(s, n)) = n /\ Len(Rest(s, n)) = Len(s) - n
  BY <1>1, <1>3, <1>4
<1> QED
  BY <1>3, <1>4, <1>5, Zenon

\* The numbers of a device.
LEMMA DeviceNumbers ==
  ASSUME NEW dev, DeviceOK(dev)
  PROVE  /\ dev.capacity \in Nat /\ MinCapacity <= dev.capacity /\ dev.capacity <= MaxCapacity
         /\ dev.queue \in Seq(Nat) /\ Len(dev.queue) \in Nat /\ Len(dev.queue) <= dev.capacity
         /\ dev.queue = << >> <=> Len(dev.queue) = 0
         /\ dev = [capacity |-> dev.capacity, queue |-> dev.queue, fault |-> dev.fault]
<1>1. /\ dev.capacity \in MinCapacity..MaxCapacity /\ dev.queue \in Seq(Nat)
      /\ dev = [capacity |-> dev.capacity, queue |-> dev.queue, fault |-> dev.fault]
      /\ Len(dev.queue) <= dev.capacity
  BY DEF DeviceOK, Device
<1>2. Len(dev.queue) \in Nat /\ (dev.queue = << >> <=> Len(dev.queue) = 0)
  BY <1>1, EmptySeq, LenProperties
<1> QED
  BY <1>1, <1>2, CapacityAssumption

\* SimulatedDevice._write stays within the capacity and answers as the model.
LEMMA WriteKept ==
  ASSUME NEW dev, DeviceOK(dev), NEW payload \in Seq(Nat)
  PROVE  LET next == SimWrite(dev, payload)
         IN  /\ DeviceOK(next.dev) /\ next.dev.fault = dev.fault
             /\ next.dev.capacity = dev.capacity
             /\ next.reply = ApplyWrite(ModelOf(dev), payload).reply
             /\ ModelOf(next.dev) = ApplyWrite(ModelOf(dev), payload).model
<1> DEFINE next == SimWrite(dev, payload)
           n == Lesser(Len(payload), dev.capacity - Len(dev.queue))
<1>1. /\ dev.capacity \in Nat /\ dev.queue \in Seq(Nat) /\ Len(dev.queue) \in Nat
      /\ Len(dev.queue) <= dev.capacity
      /\ dev = [capacity |-> dev.capacity, queue |-> dev.queue, fault |-> dev.fault]
  BY DeviceNumbers
<1>2. Len(payload) \in Nat /\ (payload = << >> <=> Len(payload) = 0)
  BY EmptySeq, LenProperties
<1>3. n \in Nat /\ n <= Len(payload) /\ n <= dev.capacity - Len(dev.queue)
  BY <1>1, <1>2 DEF Lesser
<1>4. n = 0 <=> Len(payload) = 0 \/ Len(dev.queue) = dev.capacity
  BY <1>1, <1>2 DEF Lesser
<1>m. ModelOf(dev).capacity = dev.capacity /\ ModelOf(dev).data = dev.queue
  BY DEF ModelOf
<1>5. CASE payload # << >> /\ Len(dev.queue) = dev.capacity
  <2>1. next = [dev |-> dev, reply |-> Failure(EAGAIN)]
    BY <1>5 DEF SimWrite
  <2>2. n = 0
    BY <1>4, <1>5
  <2> HIDE DEF next
  <2>3. ApplyWrite(ModelOf(dev), payload) = [model |-> ModelOf(dev), reply |-> Failure(EAGAIN)]
    BY <1>5, <1>m, <2>2 DEF ApplyWrite
  <2> QED
    BY <2>1, <2>3 DEF next
<1>6. CASE ~(payload # << >> /\ Len(dev.queue) = dev.capacity)
  <2> DEFINE stored == dev.queue \o Front(payload, n)
  <2>1. next = [dev |-> [dev EXCEPT !.queue = dev.queue \o Front(payload, n)],
                reply |-> Success(n, << >>)]
    BY <1>6 DEF SimWrite
  <2>2. Front(payload, n) \in Seq(Nat) /\ Len(Front(payload, n)) = n
    BY <1>3, FrontAndRest
  <2>s. stored = dev.queue \o Front(payload, n)
    OBVIOUS
  <2>3. stored \in Seq(Nat) /\ Len(stored) = Len(dev.queue) + n
    <3>1. dev.queue \in Seq(Nat)
      BY <1>1
    <3> HIDE DEF n, stored
    <3>2. /\ dev.queue \o Front(payload, n) \in Seq(Nat)
          /\ Len(dev.queue \o Front(payload, n)) = Len(dev.queue) + Len(Front(payload, n))
      BY <2>2, <3>1, ConcatProperties
    <3> QED
      BY <2>2, <2>s, <3>2
  <2>4. ~(payload # << >> /\ n = 0)
    BY <1>2, <1>4, <1>6
  <2>5. ApplyWrite(ModelOf(dev), payload) =
          [model |-> [ModelOf(dev) EXCEPT !.data = dev.queue \o Front(payload, n)],
           reply |-> Success(n, << >>)]
    BY <1>m, <2>4 DEF ApplyWrite
  <2> HIDE DEF next, stored, n
  <2>6. /\ next.dev = [capacity |-> dev.capacity, queue |-> stored, fault |-> dev.fault]
        /\ next.reply = Success(n, << >>)
    BY <1>1, <2>1, <2>s
  <2>7. DeviceOK(next.dev)
    <3>1. Len(stored) <= dev.capacity
      BY <1>1, <1>3, <2>3
    <3> QED
      BY <2>3, <2>6, <3>1 DEF DeviceOK, Device
  <2>8. ModelOf(next.dev) = [ModelOf(dev) EXCEPT !.data = stored]
    BY <2>6 DEF ModelOf
  <2> QED
    BY <2>5, <2>6, <2>7, <2>8, <2>s DEF next
<1> QED
  BY <1>5, <1>6

\* SimulatedDevice._read; without a fault it answers as the model.
LEMMA ReadKept ==
  ASSUME NEW dev, DeviceOK(dev), NEW count \in Nat
  PROVE  LET next == SimRead(dev, count)
         IN  /\ DeviceOK(next.dev) /\ next.dev.fault = dev.fault
             /\ next.dev.capacity = dev.capacity
             /\ dev.fault = "none" =>
                  /\ next.reply = ApplyRead(ModelOf(dev), count).reply
                  /\ ModelOf(next.dev) = ApplyRead(ModelOf(dev), count).model
<1> DEFINE next == SimRead(dev, count)
           n == Lesser(count, Len(dev.queue))
<1>1. /\ dev.capacity \in Nat /\ dev.queue \in Seq(Nat) /\ Len(dev.queue) \in Nat
      /\ Len(dev.queue) <= dev.capacity
      /\ dev.queue = << >> <=> Len(dev.queue) = 0
      /\ dev = [capacity |-> dev.capacity, queue |-> dev.queue, fault |-> dev.fault]
  BY DeviceNumbers
<1>2. n \in Nat /\ n <= Len(dev.queue) /\ (n = 0 <=> count = 0 \/ Len(dev.queue) = 0)
  BY <1>1 DEF Lesser
<1>m. ModelOf(dev).capacity = dev.capacity /\ ModelOf(dev).data = dev.queue
  BY DEF ModelOf
<1>3. CASE count > 0 /\ dev.queue = << >>
  <2>1. /\ next.dev = dev
        /\ dev.fault = "none" => next.reply = Failure(EAGAIN)
    BY <1>3 DEF SimRead
  <2> HIDE DEF next
  <2>2. ApplyRead(ModelOf(dev), count) = [model |-> ModelOf(dev), reply |-> Failure(EAGAIN)]
    BY <1>1, <1>2, <1>3, <1>m DEF ApplyRead
  <2> QED
    BY <2>1, <2>2 DEF next
<1>4. CASE ~(count > 0 /\ dev.queue = << >>)
  <2> DEFINE rest == Rest(dev.queue, n)
  <2>1. /\ next.dev = [dev EXCEPT !.queue = rest]
        /\ dev.fault = "none" => next.reply = Success(n, Front(dev.queue, n))
    BY <1>4 DEF SimRead
  <2>2. rest \in Seq(Nat) /\ Len(rest) = Len(dev.queue) - n
    BY <1>1, <1>2, FrontAndRest
  <2>3. ApplyRead(ModelOf(dev), count) =
          [model |-> [ModelOf(dev) EXCEPT !.data = rest], reply |-> Success(n, Front(dev.queue, n))]
    <3>1. ~(count > 0 /\ n = 0)
      BY <1>1, <1>2, <1>4
    <3> QED
      BY <1>m, <3>1 DEF ApplyRead
  <2> HIDE DEF next, n, rest
  <2>4. next.dev = [capacity |-> dev.capacity, queue |-> rest, fault |-> dev.fault]
    BY <1>1, <2>1
  <2>5. DeviceOK(next.dev)
    <3>1. Len(rest) <= dev.capacity
      BY <1>1, <1>2, <2>2
    <3> QED
      BY <2>2, <2>4, <3>1 DEF DeviceOK, Device
  <2>6. ModelOf(next.dev) = [ModelOf(dev) EXCEPT !.data = rest]
    BY <2>4 DEF ModelOf
  <2> QED
    BY <2>1, <2>3, <2>4, <2>5, <2>6 DEF next
<1> QED
  BY <1>3, <1>4

\* SimulatedDevice's resize; an empty device always takes a valid capacity.
LEMMA ResizeKept ==
  ASSUME NEW dev, DeviceOK(dev), NEW requested \in Nat
  PROVE  LET next == SimResize(dev, requested)
         IN  /\ DeviceOK(next.dev) /\ next.dev.fault = dev.fault
             /\ dev.queue = << >> => next.dev.queue = << >>
             /\ dev.queue = << >> /\ ValidCapacity(requested) => next.dev.capacity = requested
             /\ dev.fault = "none" =>
                  /\ next.reply = ApplyResize(ModelOf(dev), requested).reply
                  /\ ModelOf(next.dev) = ApplyResize(ModelOf(dev), requested).model
<1> DEFINE next == SimResize(dev, requested)
<1>1. /\ dev.capacity \in Nat /\ dev.queue \in Seq(Nat) /\ Len(dev.queue) \in Nat
      /\ Len(dev.queue) <= dev.capacity
      /\ dev.queue = << >> <=> Len(dev.queue) = 0
      /\ dev = [capacity |-> dev.capacity, queue |-> dev.queue, fault |-> dev.fault]
  BY DeviceNumbers
<1>2. MinCapacity \in Nat /\ MaxCapacity \in Nat
  BY CapacityAssumption
<1>m. ModelOf(dev).capacity = dev.capacity /\ ModelOf(dev).data = dev.queue
  BY DEF ModelOf
<1>3. CASE ~ValidCapacity(requested)
  <2>1. next = [dev |-> dev, reply |-> Failure(EINVAL)]
    BY <1>2, <1>3 DEF SimResize, ValidCapacity
  <2>2. ApplyResize(ModelOf(dev), requested) = [model |-> ModelOf(dev), reply |-> Failure(EINVAL)]
    BY <1>3 DEF ApplyResize
  <2> HIDE DEF next
  <2> QED
    BY <1>3, <2>1, <2>2 DEF next
<1>4. CASE ValidCapacity(requested) /\ requested < Len(dev.queue)
  <2>1. next = [dev |-> dev, reply |-> Failure(EMSGSIZE)]
    BY <1>2, <1>4 DEF SimResize, ValidCapacity
  <2>2. ApplyResize(ModelOf(dev), requested) = [model |-> ModelOf(dev), reply |-> Failure(EMSGSIZE)]
    BY <1>4, <1>m DEF ApplyResize
  <2>3. dev.queue # << >>
    BY <1>1, <1>4
  <2> HIDE DEF next
  <2> QED
    BY <2>1, <2>2, <2>3 DEF next
<1>5. CASE ValidCapacity(requested) /\ ~(requested < Len(dev.queue))
  <2> DEFINE kept == IF dev.fault = "resize-loss" THEN << >> ELSE dev.queue
  <2>1. next = [dev |-> [dev EXCEPT !.capacity = requested, !.queue = kept],
                reply |-> Success(0, << >>)]
    BY <1>2, <1>5 DEF SimResize, ValidCapacity
  <2>2. ApplyResize(ModelOf(dev), requested) =
          [model |-> [ModelOf(dev) EXCEPT !.capacity = requested], reply |-> Success(0, << >>)]
    BY <1>5, <1>m DEF ApplyResize
  <2>3. kept \in Seq(Nat) /\ Len(kept) <= requested
    BY <1>1, <1>5
  <2>4. /\ dev.queue = << >> => kept = << >>
        /\ dev.fault = "none" => kept = dev.queue
    OBVIOUS
  <2> HIDE DEF next, kept
  <2>5. next.dev = [capacity |-> requested, queue |-> kept, fault |-> dev.fault]
    BY <1>1, <2>1
  <2>6. DeviceOK(next.dev)
    <3>1. requested \in MinCapacity..MaxCapacity
      BY <1>2, <1>5 DEF ValidCapacity
    <3>2. dev.fault \in Faults
      BY DEF DeviceOK, Device
    <3> QED
      BY <2>3, <2>5, <3>1, <3>2 DEF DeviceOK, Device
  <2>7. dev.fault = "none" => ModelOf(next.dev) = [ModelOf(dev) EXCEPT !.capacity = requested]
    BY <2>4, <2>5 DEF ModelOf
  <2>8. next.reply = Success(0, << >>) /\ next.dev.fault = dev.fault
    BY <2>1, <2>5
  <2>9. next.dev.queue = kept /\ next.dev.capacity = requested
    BY <2>5
  <2>10. dev.fault = "none" =>
           /\ next.reply = ApplyResize(ModelOf(dev), requested).reply
           /\ ModelOf(next.dev) = ApplyResize(ModelOf(dev), requested).model
    BY <2>2, <2>7, <2>8
  <2> QED
    BY <2>4, <2>6, <2>8, <2>9, <2>10, Zenon DEF next
<1> QED
  BY <1>3, <1>4, <1>5

\* What a device may do with a request: it stays a device with its own fault,
\* and without a fault it answers as the reference model does.
Follows(dev, op, next) ==
  /\ DeviceOK(next.dev) /\ next.dev.fault = dev.fault
  /\ dev.fault = "none" =>
       /\ next.reply = Apply(ModelOf(dev), op).reply
       /\ ModelOf(next.dev) = Apply(ModelOf(dev), op).model

\* A clear empties the device and leaves its capacity.
LEMMA ClearKept ==
  ASSUME NEW dev, DeviceOK(dev), NEW op, op.op = "clear"
  PROVE  /\ Follows(dev, op, SimApply(dev, op))
         /\ SimApply(dev, op).dev.queue = << >>
         /\ SimApply(dev, op).dev.capacity = dev.capacity
<1> DEFINE next == SimApply(dev, op)
<1>1. next = [dev |-> [dev EXCEPT !.queue = << >>], reply |-> Success(0, << >>)]
  BY DEF SimApply
<1>2. /\ dev.capacity \in Nat
      /\ dev = [capacity |-> dev.capacity, queue |-> dev.queue, fault |-> dev.fault]
  BY DeviceNumbers
<1>3. Apply(ModelOf(dev), op) =
        [model |-> [ModelOf(dev) EXCEPT !.data = << >>], reply |-> Success(0, << >>)]
  BY DEF Apply, ApplyClear
<1> HIDE DEF next
<1>4. next.dev = [capacity |-> dev.capacity, queue |-> << >>, fault |-> dev.fault]
  BY <1>1, <1>2
<1>5. DeviceOK(next.dev)
  <2>1. << >> \in Seq(Nat) /\ Len(<< >>) = 0
    OBVIOUS
  <2> QED
    BY <1>2, <1>4, <2>1 DEF DeviceOK, Device
<1>6. ModelOf(next.dev) = [ModelOf(dev) EXCEPT !.data = << >>]
  BY <1>4 DEF ModelOf
<1>7. Follows(dev, op, next)
  BY <1>1, <1>3, <1>4, <1>5, <1>6 DEF Follows
<1> QED
  BY <1>4, <1>7 DEF next

\* SimulatedDevice.apply() without a fault is the reference model.
LEMMA SimFollows ==
  ASSUME NEW dev, DeviceOK(dev), NEW op, Request(op)
  PROVE  Follows(dev, op, SimApply(dev, op))
<1>1. CASE op.op = "write"
  <2>1. op.data \in Seq(Nat)
    BY <1>1 DEF Request
  <2>2. /\ SimApply(dev, op) = SimWrite(dev, op.data)
        /\ Apply(ModelOf(dev), op) = ApplyWrite(ModelOf(dev), op.data)
    BY <1>1 DEF SimApply, Apply
  <2> QED
    BY <2>1, <2>2, WriteKept DEF Follows
<1>2. CASE op.op = "read"
  <2>1. op.count \in Nat
    BY <1>2, ScenarioAssumption DEF Request, ValidOperation
  <2>2. /\ SimApply(dev, op) = SimRead(dev, op.count)
        /\ Apply(ModelOf(dev), op) = ApplyRead(ModelOf(dev), op.count)
    BY <1>2 DEF SimApply, Apply
  <2> QED
    BY <2>1, <2>2, ReadKept DEF Follows
<1>3. CASE op.op = "resize"
  <2>1. op.capacity \in Nat
    BY <1>3 DEF Request, ValidOperation
  <2>2. /\ SimApply(dev, op) = SimResize(dev, op.capacity)
        /\ Apply(ModelOf(dev), op) = ApplyResize(ModelOf(dev), op.capacity)
    BY <1>3 DEF SimApply, Apply
  <2>3. LET next == SimResize(dev, op.capacity)
        IN  /\ DeviceOK(next.dev) /\ next.dev.fault = dev.fault
            /\ dev.fault = "none" =>
                 /\ next.reply = ApplyResize(ModelOf(dev), op.capacity).reply
                 /\ ModelOf(next.dev) = ApplyResize(ModelOf(dev), op.capacity).model
    BY <2>1, ResizeKept, Zenon
  <2> QED
    BY <2>2, <2>3, Zenon DEF Follows
<1>4. CASE op.op = "clear"
  BY <1>4, ClearKept
<1>5. CASE op.op = "capacity"
  <2>1. /\ SimApply(dev, op) = [dev |-> dev, reply |-> Success(dev.capacity, << >>)]
        /\ Apply(ModelOf(dev), op) =
             [model |-> ModelOf(dev), reply |-> Success(ModelOf(dev).capacity, << >>)]
    BY <1>5 DEF SimApply, Apply, ApplyCapacity
  <2>2. ModelOf(dev).capacity = dev.capacity
    BY DEF ModelOf
  <2> QED
    BY <2>1, <2>2 DEF Follows
<1> QED
  BY <1>1, <1>2, <1>3, <1>4, <1>5 DEF Request, ValidOperation

\* The injected faults of the research variant are no exception.
LEMMA ResearchFollows ==
  ASSUME NEW dev, DeviceOK(dev), NEW op, Request(op)
  PROVE  Follows(dev, op, ResearchApply(dev, op))
<1>1. CASE dev.fault = "wrong-eagain" /\ ReadsNothing(dev, op)
  BY <1>1 DEF ResearchApply, Follows
<1>2. CASE dev.fault = "short-write" /\ op.op = "write" /\ op.data # << >>
  <2> DEFINE short == Front(op.data, Len(op.data) - 1)
  <2>1. op.data \in Seq(Nat)
    BY <1>2 DEF Request
  <2>2. Len(op.data) \in Nat /\ Len(op.data) # 0
    BY <1>2, <2>1, EmptySeq, LenProperties
  <2>3. short \in Seq(Nat)
    <3>1. Len(op.data) - 1 \in Nat /\ Len(op.data) - 1 <= Len(op.data)
      BY <2>2
    <3> QED
      BY <2>1, <3>1, FrontAndRest
  <2>4. ResearchApply(dev, op) = SimWrite(dev, short)
    BY <1>2 DEF ResearchApply
  <2> HIDE DEF short
  <2> QED
    BY <1>2, <2>3, <2>4, WriteKept DEF Follows
<1>3. CASE dev.fault = "capacity-corruption" /\ op.op = "capacity"
  BY <1>3 DEF ResearchApply, Follows
<1>4. CASE dev.fault = "clear-noop" /\ op.op = "clear"
  BY <1>4 DEF ResearchApply, Follows
<1>5. CASE dev.fault = "intermittent-eof" /\ ReadsNothing(dev, op)
  BY <1>5 DEF ResearchApply, Follows
<1>6. CASE ResearchApply(dev, op) = SimApply(dev, op)
  BY <1>6, SimFollows
<1> QED
  BY <1>1, <1>2, <1>3, <1>4, <1>5, <1>6 DEF ResearchApply

-----------------------------------------------------------------------------
(***************************************************************************)
(* The session, step by step.                                              *)
(***************************************************************************)
\* A call on a descriptor that is the session's own misuses nothing.
LEMMA OwnCall ==
  ASSUME OnDevice, fd = TRUE, table = "device", misused = FALSE
  PROVE  misused' = FALSE
BY Zenon DEF OnDevice

\* What validate() guarantees of a scenario that is run.
LEMMA ScenarioFacts ==
  ASSUME NEW s \in Scenarios
  PROVE  /\ s.capacity \in Nat /\ ValidCapacity(s.capacity)
         /\ Len(s.operations) \in Nat
         /\ \A i \in 1..Len(s.operations) : Request(s.operations[i])
<1>1. /\ ValidScenario(s) /\ s.capacity \in Nat
      /\ \A i \in 1..Len(s.operations) :
            s.operations[i].op = "write" => s.operations[i].data \in Seq(Nat)
  BY ScenarioAssumption
<1>2. /\ ValidCapacity(s.capacity) /\ Len(s.operations) \in 1..MaxOperations
      /\ \A i \in DOMAIN s.operations : ValidOperation(s.operations[i])
  BY <1>1 DEF ValidScenario
<1>3. DOMAIN s.operations = 1..Len(s.operations)
  OBVIOUS
<1>4. Len(s.operations) \in Nat
  BY <1>2, ScenarioAssumption
<1> QED
  BY <1>1, <1>2, <1>3, <1>4 DEF Request

\* The device as its last user left it, before it is opened.
LEMMA InitInv == Init => SessionInv
<1> SUFFICES ASSUME Init PROVE SessionInv
  OBVIOUS
<1>1. PICK fault \in Faults, capacity \in MinCapacity..MaxCapacity, queue \in Leftovers :
        /\ Len(queue) <= capacity
        /\ kernel = [NewDevice(capacity, fault) EXCEPT !.queue = queue]
  BY DEF Init
<1>2. kernel = [capacity |-> capacity, queue |-> queue, fault |-> fault]
  BY <1>1 DEF NewDevice
<1>3. DeviceOK(kernel)
  <2>1. queue \in Seq(Nat) /\ Len(queue) <= capacity
    BY <1>1, ScenarioAssumption
  <2> QED
    BY <1>2, <2>1 DEF DeviceOK, Device
<1>4. SessionTypeOK
  <2>1. scenario \in Scenarios
    BY DEF Init
  <2>2. 0 \in 0..Len(scenario.operations)
    BY <2>1, ScenarioFacts
  <2>3. index = 0 /\ found \in MinCapacity..MaxCapacity /\ status = "pass" /\ raised = "none" /\ pc = "open"
    BY <1>1, <1>2 DEF Init
  <2> QED
    BY <1>3, <2>1, <2>2, <2>3 DEF SessionTypeOK, Entering
<1>5. DescriptorInv
  BY DEF Init, DescriptorInv, Inside, Exiting
<1>6. LawInv
  BY DEF Init, LawInv, Entering
<1>7. ResultInv
  <2>1. bodyRaised = FALSE /\ pc = "open" /\ found = kernel.capacity
    BY DEF Init
  <2> QED
    BY <2>1 DEF ResultInv, Entering, Exiting
<1> QED
  BY <1>4, <1>5, <1>6, <1>7 DEF SessionInv

\* The step of open() and of the ABI program before it.
LEMMA OpenInv == SessionInv /\ Open => SessionInv'
<1> SUFFICES ASSUME SessionInv, Open PROVE SessionInv'
  OBVIOUS
<1>1. /\ pc = "open" /\ pc' \in {"fstat", "return"} /\ raised' \in {raised, "enter"}
      /\ pc' = "fstat" => table' = "device" /\ fd' = TRUE /\ raised' = raised
      /\ pc' = "return" => table' = table /\ fd' = fd /\ raised' = "enter"
      /\ UNCHANGED <<scenario, original, model, index, kernel, status, bodyRaised, misused, found>>
  BY Zenon DEF Open, session, checks
<1>2. SessionTypeOK'
  BY <1>1 DEF SessionInv, SessionTypeOK, Inside, DeviceOK, Device
<1>3. DescriptorInv'
  BY <1>1 DEF SessionInv, DescriptorInv, Inside, Exiting
<1>4. LawInv'
  BY <1>1 DEF SessionInv, LawInv, Entering
<1>5. ResultInv'
  BY <1>1 DEF SessionInv, ResultInv, Entering, Exiting
<1> QED
  BY <1>2, <1>3, <1>4, <1>5, Zenon DEF SessionInv

\* The step of fstat().
LEMMA FstatInv == SessionInv /\ Fstat => SessionInv'
<1> SUFFICES ASSUME SessionInv, Fstat PROVE SessionInv'
  OBVIOUS
<1>1. /\ pc = "fstat" /\ pc' \in {"get", "enter_close"}
      /\ pc' = "get" => raised' = raised
      /\ pc' = "enter_close" => raised' = "enter"
      /\ UNCHANGED <<scenario, original, model, index, kernel, table, fd, status, bodyRaised, found>>
  BY Zenon DEF Fstat, EnterRaises, session
<1>2. SessionTypeOK'
  BY <1>1 DEF SessionInv, SessionTypeOK, Inside, Entering, DeviceOK, Device
<1>m. misused' = FALSE
  BY <1>1, OwnCall DEF Fstat, SessionInv, DescriptorInv, Inside
<1>3. DescriptorInv'
  BY <1>1, <1>m DEF SessionInv, DescriptorInv, Inside, Exiting
<1>4. LawInv'
  BY <1>1 DEF SessionInv, LawInv, Entering
<1>5. ResultInv'
  BY <1>1 DEF SessionInv, ResultInv, Entering, Exiting
<1> QED
  BY <1>2, <1>3, <1>4, <1>5, Zenon DEF SessionInv

\* The step that remembers the capacity.
LEMMA GetOriginalInv == SessionInv /\ GetOriginal => SessionInv'
<1> SUFFICES ASSUME SessionInv, GetOriginal PROVE SessionInv'
  OBVIOUS
<1>1. /\ pc = "get" /\ pc' \in {"clear", "enter_close"}
      /\ pc' = "clear" => raised' = raised /\ original' = kernel.capacity
      /\ pc' = "enter_close" => raised' = "enter" /\ original' = original
      /\ UNCHANGED <<scenario, model, index, kernel, table, fd, status, bodyRaised, found>>
  BY Zenon DEF GetOriginal, EnterRaises
<1>2. SessionTypeOK'
  BY <1>1 DEF SessionInv, SessionTypeOK, Inside, Entering, DeviceOK, Device
<1>m. misused' = FALSE
  BY <1>1, OwnCall DEF GetOriginal, SessionInv, DescriptorInv, Inside
<1>3. DescriptorInv'
  BY <1>1, <1>m DEF SessionInv, DescriptorInv, Inside, Exiting
<1>4. LawInv'
  BY <1>1 DEF SessionInv, LawInv, Entering
<1>5. ResultInv'
  BY <1>1 DEF SessionInv, ResultInv, Entering, Exiting
<1> QED
  BY <1>2, <1>3, <1>4, <1>5, Zenon DEF SessionInv

\* The step that empties the device before the run.
LEMMA EnterClearInv == SessionInv /\ EnterClear => SessionInv'
<1> SUFFICES ASSUME SessionInv, EnterClear PROVE SessionInv'
  OBVIOUS
<1> DEFINE op == [op |-> "clear"]
           cleared == SimApply(kernel, op).dev
<1>1. /\ pc = "clear" /\ pc' \in {"set", "enter_close"}
      /\ pc' = "set" => raised' = raised /\ kernel' = cleared
      /\ pc' = "enter_close" => raised' = "enter" /\ kernel' = kernel
      /\ UNCHANGED <<scenario, original, model, index, table, fd, status, bodyRaised, found>>
  BY Zenon DEF EnterClear, EnterRaises, session
<1>d. DeviceOK(kernel)
  BY Zenon DEF SessionInv, SessionTypeOK
<1>k. /\ DeviceOK(cleared) /\ cleared.fault = kernel.fault
      /\ cleared.queue = << >> /\ cleared.capacity = kernel.capacity
  BY <1>d, ClearKept DEF Follows
<1> HIDE DEF cleared
<1>2. SessionTypeOK'
  <2>1. DeviceOK(kernel)'
    BY <1>1, <1>d, <1>k DEF DeviceOK, Device
  <2> QED
    BY <1>1, <2>1 DEF SessionInv, SessionTypeOK, Inside, Entering
<1>m. misused' = FALSE
  BY <1>1, OwnCall DEF EnterClear, SessionInv, DescriptorInv, Inside
<1>3. DescriptorInv'
  BY <1>1, <1>m DEF SessionInv, DescriptorInv, Inside, Exiting
<1>4. LawInv'
  BY <1>1, <1>k DEF SessionInv, LawInv, Entering
<1>5. ResultInv'
  BY <1>1, <1>k DEF SessionInv, ResultInv, Entering, Exiting
<1> QED
  BY <1>2, <1>3, <1>4, <1>5, Zenon DEF SessionInv

\* The step that gives the device the scenario's capacity.
LEMMA EnterSetInv == SessionInv /\ EnterSet => SessionInv'
<1> SUFFICES ASSUME SessionInv, EnterSet PROVE SessionInv'
  OBVIOUS
<1> DEFINE op == [op |-> "resize", capacity |-> scenario.capacity]
           set == SimApply(kernel, op).dev
<1>1. /\ pc = "set" /\ pc' \in {"body", "enter_close"}
      /\ pc' = "body" => raised' = raised /\ kernel' = set
      /\ pc' = "enter_close" => raised' = "enter" /\ kernel' = kernel
      /\ UNCHANGED <<scenario, original, model, index, table, fd, status, bodyRaised, found>>
  BY Zenon DEF EnterSet, EnterRaises, session
<1>d. DeviceOK(kernel) /\ scenario \in Scenarios
  BY Zenon DEF SessionInv, SessionTypeOK
<1>k. /\ DeviceOK(set) /\ set.fault = kernel.fault
      /\ kernel.queue = << >> => set.queue = << >> /\ set.capacity = scenario.capacity
  <2>1. SimApply(kernel, op) = SimResize(kernel, scenario.capacity)
    BY DEF SimApply
  <2>2. scenario.capacity \in Nat /\ ValidCapacity(scenario.capacity)
    BY <1>d, ScenarioFacts
  <2> HIDE DEF op
  <2> QED
    BY <1>d, <2>1, <2>2, ResizeKept, Zenon
<1> HIDE DEF set
<1>2. SessionTypeOK'
  <2>1. DeviceOK(kernel)'
    BY <1>1, <1>d, <1>k DEF DeviceOK, Device
  <2> QED
    BY <1>1, <2>1 DEF SessionInv, SessionTypeOK, Inside, Entering
<1>m. misused' = FALSE
  BY <1>1, OwnCall DEF EnterSet, SessionInv, DescriptorInv, Inside
<1>3. DescriptorInv'
  BY <1>1, <1>m DEF SessionInv, DescriptorInv, Inside, Exiting
<1>4. LawInv'
  <2>1. kernel.fault = "none" /\ pc' = "body" => model' = ModelOf(kernel')
    BY <1>1, <1>k DEF SessionInv, LawInv, Entering, NewModel, ModelOf
  <2>2. ModelOf(kernel)' = ModelOf(kernel')
    BY DEF ModelOf
  <2> QED
    BY <1>1, <1>k, <2>1, <2>2 DEF SessionInv, LawInv, Entering
<1>5. ResultInv'
  BY <1>1, <1>k DEF SessionInv, ResultInv, Entering, Exiting
<1> QED
  BY <1>2, <1>3, <1>4, <1>5, Zenon DEF SessionInv

\* One operation of the body, its reply and the comparison with the model.
LEMMA CompareInv == SessionInv /\ Compare => SessionInv'
<1> SUFFICES ASSUME SessionInv, Compare PROVE SessionInv'
  OBVIOUS
<1> DEFINE op == scenario.operations[index + 1]
           promised == Apply(model, op)
           result == ResearchApply(kernel, op)
           Replied(reply) ==
             /\ model' = promised.model
             /\ index' = index + 1
             /\ status' = IF reply = promised.reply THEN status ELSE "fail"
             /\ pc' = IF reply = promised.reply THEN "body" ELSE "exit_clear"
             /\ UNCHANGED <<raised, bodyRaised>>
<1>1. /\ pc = "body" /\ index < Len(scenario.operations)
      /\ UNCHANGED <<scenario, original, table, fd, found>>
      /\ OnDevice
      /\ \/ kernel' = result.dev /\ Replied(result.reply)
         \/ kernel' = result.dev /\ BodyRaises
         \/ kernel' = kernel /\ BodyRaises
  <2>1. \/ kernel' = result.dev /\ errors' = errors /\ Replied(result.reply)
        \/ kernel' = result.dev /\ MayRaise /\ BodyRaises
        \/ /\ kernel' = kernel /\ MayRaise
           /\ \E e \in {ENOMEM, EINTR, ENODEV, EIO} :
                IF e \in EnvironmentErrors THEN BodyRaises ELSE Replied(Failure(e))
    BY Zenon DEF Compare
  <2>2. \A e \in {ENOMEM, EINTR, ENODEV, EIO} : e \in EnvironmentErrors
    BY Zenon DEF EnvironmentErrors
  <2>3. /\ pc = "body" /\ index < Len(scenario.operations)
        /\ UNCHANGED <<scenario, original, table, fd, found>>
        /\ OnDevice
    BY Zenon DEF Compare
  <2> HIDE DEF op, promised, result, Replied
  <2> QED
    BY <2>1, <2>2, <2>3, Zenon
<1>d. DeviceOK(kernel) /\ scenario \in Scenarios /\ index \in 0..Len(scenario.operations)
  BY Zenon DEF SessionInv, SessionTypeOK
<1>n. /\ index + 1 \in 1..Len(scenario.operations) /\ index + 1 \in 0..Len(scenario.operations)
      /\ index \in 0..Len(scenario.operations)
  <2>1. Len(scenario.operations) \in Nat
    BY <1>d, ScenarioFacts
  <2> QED
    BY <1>1, <1>d, <2>1
<1>k. /\ DeviceOK(result.dev) /\ result.dev.fault = kernel.fault
      /\ kernel.fault = "none" =>
           result.reply = promised.reply /\ ModelOf(result.dev) = promised.model
  <2>1. Request(op)
    BY <1>d, <1>n, ScenarioFacts
  <2>2. Follows(kernel, op, result)
    BY <1>d, <2>1, ResearchFollows
  <2>3. kernel.fault = "none" => model = ModelOf(kernel)
    BY <1>1 DEF SessionInv, LawInv
  <2> HIDE DEF op, result
  <2> QED
    BY <2>2, <2>3, Zenon DEF Follows
<1> HIDE DEF op, promised, result
<1>2. /\ pc' \in {"body", "exit_clear"}
      /\ index' \in 0..Len(scenario.operations)
      /\ status' \in {"pass", "fail", "inconclusive"}
      /\ raised' \in {raised, "body"}
      /\ kernel' \in {kernel, result.dev}
  BY <1>1, <1>n DEF BodyRaises, SessionInv, SessionTypeOK
<1>o. DeviceOK(kernel') /\ kernel'.fault = kernel.fault
  BY <1>2, <1>d, <1>k
<1>3. SessionTypeOK'
  <2>1. DeviceOK(kernel)'
    BY <1>o DEF DeviceOK, Device
  <2> QED
    BY <1>1, <1>2, <2>1 DEF SessionInv, SessionTypeOK, Inside, Exiting
<1>m. misused' = FALSE
  BY <1>1, OwnCall DEF SessionInv, DescriptorInv, Inside
<1>4. DescriptorInv'
  BY <1>1, <1>2, <1>m DEF SessionInv, DescriptorInv, Inside, Exiting
<1>5. LawInv'
  <2>1. kernel.fault = "none" =>
          status' # "fail" /\ (pc' = "body" => model' = ModelOf(kernel'))
    BY <1>1, <1>k DEF BodyRaises, SessionInv, LawInv
  <2>2. ModelOf(kernel)' = ModelOf(kernel')
    BY DEF ModelOf
  <2> QED
    BY <1>2, <1>o, <2>1, <2>2 DEF LawInv, Entering
<1>6. ResultInv'
  <2>1. bodyRaised = FALSE
    BY <1>1 DEF SessionInv, ResultInv, Exiting
  <2>2. \/ bodyRaised' = FALSE
        \/ bodyRaised' = TRUE /\ raised' = "body" /\ pc' = "exit_clear"
    BY <1>1, <2>1 DEF BodyRaises
  <2> QED
    BY <1>1, <1>2, <2>2 DEF SessionInv, ResultInv, Entering, Exiting
<1> QED
  BY <1>3, <1>4, <1>5, <1>6, Zenon DEF SessionInv

\* The end of the body.
LEMMA BodyEndsInv == SessionInv /\ BodyEnds => SessionInv'
<1> SUFFICES ASSUME SessionInv, BodyEnds PROVE SessionInv'
  OBVIOUS
<1>1. /\ pc = "body" /\ pc' = "exit_clear"
      /\ UNCHANGED <<scenario, original, model, index, kernel, table, fd, raised, status,
                     bodyRaised, misused, found>>
  BY Zenon DEF BodyEnds, session, checks
<1>2. SessionTypeOK'
  BY <1>1 DEF SessionInv, SessionTypeOK, Inside, Exiting, DeviceOK, Device
<1>3. DescriptorInv'
  BY <1>1 DEF SessionInv, DescriptorInv, Inside, Exiting
<1>4. LawInv'
  BY <1>1 DEF SessionInv, LawInv, Entering
<1>5. ResultInv'
  BY <1>1 DEF SessionInv, ResultInv, Entering, Exiting
<1> QED
  BY <1>2, <1>3, <1>4, <1>5, Zenon DEF SessionInv

\* The clear of the cleanup.
LEMMA ExitClearInv == SessionInv /\ ExitClear => SessionInv'
<1> SUFFICES ASSUME SessionInv, ExitClear PROVE SessionInv'
  OBVIOUS
<1> DEFINE op == [op |-> "clear"]
           cleared == SimApply(kernel, op).dev
<1>1. /\ pc = "exit_clear"
      /\ \/ pc' = "exit_set" /\ raised' = raised /\ kernel' = cleared
         \/ pc' = "exit_close" /\ CleanupRaises /\ kernel' = kernel
      /\ UNCHANGED <<scenario, original, model, index, table, fd, status, bodyRaised, found>>
  BY Zenon DEF ExitClear, session
<1>d. DeviceOK(kernel)
  BY Zenon DEF SessionInv, SessionTypeOK
<1>k. /\ DeviceOK(cleared) /\ cleared.fault = kernel.fault
      /\ cleared.queue = << >> /\ cleared.capacity = kernel.capacity
  BY <1>d, ClearKept DEF Follows
<1> HIDE DEF cleared
<1>2. SessionTypeOK'
  <2>1. DeviceOK(kernel)'
    BY <1>1, <1>d, <1>k DEF DeviceOK, Device
  <2> QED
    BY <1>1, <2>1 DEF SessionInv, SessionTypeOK, Inside, Exiting, CleanupRaises
<1>m. misused' = FALSE
  BY <1>1, OwnCall DEF ExitClear, SessionInv, DescriptorInv, Inside, Exiting
<1>3. DescriptorInv'
  BY <1>1, <1>m DEF SessionInv, DescriptorInv, Inside, Exiting
<1>4. LawInv'
  BY <1>1, <1>k DEF SessionInv, LawInv, Entering
<1>5. ResultInv'
  BY <1>1, <1>k DEF SessionInv, ResultInv, Entering, Exiting, CleanupRaises
<1> QED
  BY <1>2, <1>3, <1>4, <1>5, Zenon DEF SessionInv

\* The cleanup's resize to the capacity that was found.
LEMMA ExitSetInv == SessionInv /\ ExitSet => SessionInv'
<1> SUFFICES ASSUME SessionInv, ExitSet PROVE SessionInv'
  OBVIOUS
<1> DEFINE op == [op |-> "resize", capacity |-> original]
           set == SimApply(kernel, op).dev
<1>1. /\ pc = "exit_set" /\ pc' = "exit_close"
      /\ \/ raised' = raised /\ kernel' = set
         \/ CleanupRaises /\ kernel' = kernel
      /\ UNCHANGED <<scenario, original, model, index, table, fd, status, bodyRaised, found>>
  BY Zenon DEF ExitSet, session
<1>d. DeviceOK(kernel) /\ found \in MinCapacity..MaxCapacity
  BY Zenon DEF SessionInv, SessionTypeOK
<1>q. kernel.queue = << >> /\ original = found
  BY <1>1 DEF SessionInv, ResultInv, Exiting
<1>k. /\ DeviceOK(set) /\ set.fault = kernel.fault
      /\ set.queue = << >> /\ set.capacity = found
  <2>1. SimApply(kernel, op) = SimResize(kernel, original)
    BY DEF SimApply
  <2>2. original \in Nat /\ ValidCapacity(original)
    BY <1>d, <1>q, CapacityAssumption DEF ValidCapacity
  <2> HIDE DEF op
  <2> QED
    BY <1>d, <1>q, <2>1, <2>2, ResizeKept, Zenon
<1> HIDE DEF set
<1>2. SessionTypeOK'
  <2>1. DeviceOK(kernel)'
    BY <1>1, <1>d, <1>k DEF DeviceOK, Device
  <2> QED
    BY <1>1, <2>1 DEF SessionInv, SessionTypeOK, Inside, Exiting, CleanupRaises
<1>m. misused' = FALSE
  BY <1>1, OwnCall DEF ExitSet, SessionInv, DescriptorInv, Inside, Exiting
<1>3. DescriptorInv'
  BY <1>1, <1>m DEF SessionInv, DescriptorInv, Inside, Exiting
<1>4. LawInv'
  BY <1>1, <1>k DEF SessionInv, LawInv, Entering
<1>5. ResultInv'
  <2>1. raised' = "none" => Restored'
    BY <1>1, <1>k DEF Restored, CleanupRaises
  <2> QED
    BY <1>1, <2>1 DEF SessionInv, ResultInv, Entering, Exiting, CleanupRaises
<1> QED
  BY <1>2, <1>3, <1>4, <1>5, Zenon DEF SessionInv

\* The one close() on each path.
LEMMA CloseInv == SessionInv /\ Close => SessionInv'
<1> SUFFICES ASSUME SessionInv, Close PROVE SessionInv'
  OBVIOUS
<1>1. /\ pc \in {"enter_close", "exit_close"} /\ pc' = "return"
      /\ table' = "free" /\ fd' = FALSE
      /\ \/ raised' = raised
         \/ raised' = IF pc = "enter_close" THEN "enter"
                      ELSE IF raised = "body" THEN "body" ELSE "cleanup"
      /\ UNCHANGED <<scenario, original, model, index, kernel, status, bodyRaised, found>>
      /\ misused' = (misused \/ table # "device")
  BY Zenon DEF Close, Closing, CloseRaises, session
<1>2. SessionTypeOK'
  BY <1>1 DEF SessionInv, SessionTypeOK, DeviceOK, Device
<1>m. misused' = FALSE
  <2>1. table = "device" /\ misused = FALSE
    BY <1>1 DEF SessionInv, DescriptorInv, Inside, Exiting
  <2> QED
    BY <1>1, <2>1, Zenon
<1>3. DescriptorInv'
  BY <1>1, <1>m DEF SessionInv, DescriptorInv, Inside, Exiting
<1>4. LawInv'
  BY <1>1 DEF SessionInv, LawInv, Entering
<1>5. ResultInv'
  <2>1. raised' = "none" => Restored'
    BY <1>1 DEF SessionInv, ResultInv, Restored
  <2> QED
    BY <1>1, <2>1 DEF SessionInv, ResultInv, Entering, Exiting
<1> QED
  BY <1>2, <1>3, <1>4, <1>5, Zenon DEF SessionInv

\* The result is made.
LEMMA ReturnInv == SessionInv /\ Return => SessionInv'
<1> SUFFICES ASSUME SessionInv, Return PROVE SessionInv'
  OBVIOUS
<1>1. /\ pc = "return" /\ pc' = "ended"
      /\ status' = IF raised # "none" THEN "inconclusive" ELSE status
      /\ UNCHANGED <<scenario, original, model, index, kernel, table, fd, raised,
                     bodyRaised, misused, found>>
  BY Zenon DEF Return, session, checks
<1>2. SessionTypeOK'
  BY <1>1 DEF SessionInv, SessionTypeOK, DeviceOK, Device
<1>3. DescriptorInv'
  BY <1>1 DEF SessionInv, DescriptorInv, Inside, Exiting
<1>4. LawInv'
  BY <1>1 DEF SessionInv, LawInv, Entering
<1>5. ResultInv'
  <2>1. raised' = "none" => Restored'
    BY <1>1 DEF SessionInv, ResultInv, Restored
  <2> QED
    BY <1>1, <2>1 DEF SessionInv, ResultInv, Entering, Exiting
<1> QED
  BY <1>2, <1>3, <1>4, <1>5, Zenon DEF SessionInv

\* Another thread is given the number once it is free.
LEMMA OtherOpensInv == SessionInv /\ OtherOpens => SessionInv'
<1> SUFFICES ASSUME SessionInv, OtherOpens PROVE SessionInv'
  OBVIOUS
<1>1. /\ table = "free" /\ pc # "open" /\ table' = "other"
      /\ UNCHANGED <<scenario, original, model, index, kernel, fd, pc, raised, status,
                     bodyRaised, misused, found>>
  BY Zenon DEF OtherOpens, session, checks
<1>2. SessionTypeOK'
  BY <1>1 DEF SessionInv, SessionTypeOK, DeviceOK, Device
<1>3. DescriptorInv'
  BY <1>1 DEF SessionInv, DescriptorInv, Inside, Exiting
<1>4. LawInv'
  BY <1>1 DEF SessionInv, LawInv, ModelOf
<1>5. ResultInv'
  BY <1>1 DEF SessionInv, ResultInv, Restored
<1> QED
  BY <1>2, <1>3, <1>4, <1>5, Zenon DEF SessionInv

\* Every step keeps the invariant.
LEMMA StepInv == SessionInv /\ [Next]_vars => SessionInv'
<1> SUFFICES ASSUME SessionInv, [Next]_vars PROVE SessionInv'
  OBVIOUS
<1>1. CASE UNCHANGED vars
  BY <1>1 DEF vars, session, checks, SessionInv, SessionTypeOK, DescriptorInv, LawInv, ResultInv,
     Restored, ModelOf, DeviceOK, Device
<1>2. CASE Open \/ Fstat \/ GetOriginal \/ EnterClear \/ EnterSet \/ Compare \/ BodyEnds
  BY <1>2, OpenInv, FstatInv, GetOriginalInv, EnterClearInv, EnterSetInv, CompareInv,
     BodyEndsInv, Zenon
<1>3. CASE ExitClear \/ ExitSet \/ Close \/ Return \/ OtherOpens
  BY <1>3, ExitClearInv, ExitSetInv, CloseInv, ReturnInv, OtherOpensInv, Zenon
<1> QED
  BY <1>1, <1>2, <1>3, Zenon DEF Next, Ended

\* The invariant of evaluate() around LinuxDevice: where the descriptor, the
\* device and the exception on its way are at each place of the session.
THEOREM SessionIsSound == Spec => []SessionInv
<1>1. Init => SessionInv
  BY InitInv
<1>2. SessionInv /\ [Next]_vars => SessionInv'
  BY StepInv
<1> QED
  BY <1>1, <1>2, PTL DEF Spec

-----------------------------------------------------------------------------
\* evaluate(): a device that keeps the contract is never accused, whatever
\* it held before the run and whichever system calls of the session raise.
THEOREM NobodyIsAccused == Spec => []LawfulNotAccused
<1>1. SessionInv => LawfulNotAccused
  BY DEF SessionInv, LawInv, LawfulNotAccused
<1> QED
  BY <1>1, SessionIsSound, PTL

\* LinuxDevice._close and the except clause of __enter__: on every path the
\* descriptor is closed once and not used after that.
THEOREM DescriptorStaysOwn == Spec => []DescriptorIsOwn
<1>1. SessionInv => DescriptorIsOwn
  <2> SUFFICES ASSUME SessionInv PROVE DescriptorIsOwn
    OBVIOUS
  <2>1. /\ pc = "ended" => table # "device" /\ fd = FALSE
        /\ misused = FALSE
    BY DEF SessionInv, DescriptorInv
  <2> QED
    BY <2>1, Zenon DEF DescriptorIsOwn, NothingLeaks, NeverOthersDescriptor
<1> QED
  BY <1>1, SessionIsSound, PTL

\* LinuxDevice.__exit__ and evaluate(): a conclusive result comes from a
\* session that restored the device, and an exception of the body survives
\* what goes wrong in the cleanup.
THEOREM VerdictIsEarned == Spec => []ResultIsEarned
<1>1. SessionInv => ResultIsEarned
  <2> SUFFICES ASSUME SessionInv PROVE ResultIsEarned
    OBVIOUS
  <2>1. ConclusiveRestores
    BY DEF SessionInv, ResultInv, Restored, ConclusiveRestores
  <2>2. bodyRaised \in BOOLEAN /\ (bodyRaised = TRUE => raised = "body")
    BY DEF SessionInv, ResultInv
  <2>3. pc = "ended" /\ raised = "body" => status = "inconclusive"
    BY DEF SessionInv, ResultInv
  <2>4. BodyErrorSurvives
    BY <2>2, <2>3, Zenon DEF BodyErrorSurvives
  <2> QED
    BY <2>1, <2>4 DEF ResultIsEarned
<1> QED
  BY <1>1, SessionIsSound, PTL

=============================================================================
