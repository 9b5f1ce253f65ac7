------------------------- MODULE GateRuntimeProofs -------------------------
(***************************************************************************)
(* Proofs about the gate runtime for every ring size, word width and       *)
(* number of gates: no gate passes before its exchange unless the failure  *)
(* is visible, no used result comes from an unexchanged gate, the request  *)
(* ring never wraps over a request, a failed callback is the last one, and *)
(* the GPU is parked at a gate while the transport works on it.            *)
(***************************************************************************)
EXTENDS GateRuntime, TLAPS

(* Two sequence numbers less than Ring apart use different ring slots.     *)
LEMMA SlotsDistinct ==
  ASSUME NEW a \in Nat, NEW b \in Nat, a < b, b - a < Ring
  PROVE  a % Ring # b % Ring
<1> DEFINE qa == a \div Ring
           qb == b \div Ring
<1>1. Ring \in Nat /\ Ring > 0
  BY RingAssumption
<1>2. qa \in Int /\ qb \in Int /\ a = (Ring * qa) + (a % Ring) /\ b = (Ring * qb) + (b % Ring)
  BY <1>1
<1>3. SUFFICES ASSUME a % Ring = b % Ring PROVE FALSE
  OBVIOUS
<1> HIDE DEF qa, qb
<1>4. b - a = Ring * qb - Ring * qa
  BY <1>2, <1>3, <1>1
<1>5. qb > qa
  <2>1. CASE qb <= qa
    <3>1. Ring * qb <= Ring * qa
      BY <2>1, <1>1, <1>2
    <3>2. QED BY <3>1, <1>4, <1>1, <1>2
  <2>2. QED BY <2>1, <1>2
<1>6. Ring * qb >= Ring * (qa + 1)
  BY <1>5, <1>1, <1>2
<1>7. Ring * (qa + 1) = Ring * qa + Ring
  BY <1>1, <1>2
<1>8. QED BY <1>4, <1>6, <1>7, <1>1, <1>2

(* A slot index lies in the ring.                                          *)
LEMMA SlotInRing == ASSUME NEW a \in Nat PROVE a % Ring \in 0 .. Ring - 1
BY RingAssumption

-----------------------------------------------------------------------------
LEMMA TerminalInWord == Terminal \in Nat /\ Terminal \in 0 .. Terminal
BY RingAssumption, GatesAssumption, WidthAssumption DEF Terminal

LEMMA InitInv == Init => IInv
<1> SUFFICES ASSUME Init PROVE IInv
  OBVIOUS
<1> USE RingAssumption, GatesAssumption, WidthAssumption DEF Init
<1>1. TypeOK
  <2>1. /\ seq \in [Chan -> 0 .. MaxGates] /\ gpu_flag \in [Chan -> 0 .. MaxGates]
        /\ ring \in [Chan -> [0 .. Ring - 1 -> 0 .. MaxGates]]
        /\ cpu_flag \in [Chan -> 0 .. Terminal] /\ next \in [Chan -> Nat]
    BY TerminalInWord
  <2>2. failing \in [Thread -> FailPc]
    BY DEF FailPc
  <2>3. stream \in Seq(Packet) /\ head \in 0 .. Len(stream)
    OBVIOUS
  <2>4. enc \in [pc : EncPc, ch : Chan, s : 0 .. MaxGates]
    BY DEF EncPc, Chan
  <2>5. svc \in [pc : SvcPc, ch : Chan, req : 0 .. MaxGates, arrived : 0 .. MaxGates]
    BY DEF SvcPc, Chan
  <2>6. QED BY <2>1, <2>2, <2>3, <2>4, <2>5 DEF TypeOK
<1>2. ControlInv
  BY DEF ControlInv, Chan, Thread, Stopping, Draining
<1>3. ArrivalInv /\ RingInv /\ ServedInv /\ BatchInv
  BY DEF ArrivalInv, RingInv, ServedInv, BatchInv, Written, Draining, Stopping, Chan
<1>4. NoUnexchangedGatePasses /\ AcceptedGatesExchanged
  BY DEF NoUnexchangedGatePasses, AcceptedGatesExchanged, Passed
<1> QED BY <1>1, <1>2, <1>3, <1>4 DEF IInv

(* The guard of Submit leaves room for one more gate.                      *)
LEMMA SubmitBound ==
  ASSUME seq \in [Chan -> 0 .. MaxGates], seq[0] + seq[1] < MaxGates, NEW c \in Chan
  PROVE  seq[c] \in 0 .. MaxGates /\ seq[c] + 1 \in 1 .. MaxGates
<1>1. seq[0] \in 0 .. MaxGates /\ seq[1] \in 0 .. MaxGates
  BY DEF Chan
<1>2. c = 0 \/ c = 1
  BY DEF Chan
<1>3. QED BY <1>1, <1>2, GatesAssumption

(* What an appended packet does to the stream.                             *)
LEMMA EnqueueEffect ==
  ASSUME TypeOK, enc.s >= 1, NEW op \in {"write", "wait"}, Enqueue(op)
  PROVE  /\ stream' \in Seq(Packet)
         /\ Len(stream') = Len(stream) + 1
         /\ \A i \in 1 .. Len(stream) : stream'[i] = stream[i]
         /\ stream'[Len(stream) + 1] = [op |-> op, ch |-> enc.ch, s |-> enc.s]
<1> DEFINE p == [op |-> op, ch |-> enc.ch, s |-> enc.s]
<1>1. p \in Packet
  BY GatesAssumption DEF TypeOK, Packet
<1>2. stream \in Seq(Packet) /\ stream' = Append(stream, p)
  BY DEF TypeOK, Enqueue
<1> HIDE DEF p
<1>3. /\ stream' \in Seq(Packet)
      /\ Len(stream') = Len(stream) + 1
      /\ \A i \in 1 .. Len(stream) : stream'[i] = stream[i]
      /\ stream'[Len(stream) + 1] = p
  BY <1>1, <1>2
<1>4. QED BY <1>3 DEF p

(* The packet the GPU executes.                                            *)
LEMMA CurrentPacket ==
  ASSUME TypeOK, head < Len(stream)
  PROVE  /\ head + 1 \in 1 .. Len(stream)
         /\ Current.op \in {"write", "wait"}
         /\ Current.ch \in Chan
         /\ Current.s \in 1 .. MaxGates
         /\ Current = [op |-> Current.op, ch |-> Current.ch, s |-> Current.s]
<1>1. head + 1 \in 1 .. Len(stream) /\ stream \in Seq(Packet)
  BY DEF TypeOK
<1>2. Current \in Packet
  BY <1>1 DEF Current
<1>3. QED BY <1>1, <1>2 DEF Packet

(* The type of each variable survives each step, one lemma for each actor. *)
LEMMA TypeFail == ASSUME TypeOK, NEW t \in Thread, FailStep(t) PROVE TypeOK'
<1> USE DEF TypeOK, encVars, svcVars, failVars, gpuVars
<1>1. failing' \in [Thread -> FailPc]
  BY DEF FailStep, FailLatch, FailRelease, FailStop, FailHalt, FailPc
<1>2. cpu_flag' \in [Chan -> 0 .. Terminal]
  BY TerminalInWord DEF FailStep, FailLatch, FailRelease, FailStop, FailHalt
<1>3. failed' \in BOOLEAN /\ callbacks' \in BOOLEAN /\ run' \in BOOLEAN
  BY DEF FailStep, FailLatch, FailRelease, FailStop, FailHalt
<1>4. QED BY <1>1, <1>2, <1>3 DEF FailStep

LEMMA TypeEncoder == ASSUME TypeOK, ControlInv, Encoder PROVE TypeOK'
<1> USE DEF TypeOK, encVars, svcVars, failVars, gpuVars
<1>1. ASSUME NEW c \in Chan, Submit(c) PROVE TypeOK'
  <2>1. seq \in [Chan -> 0 .. MaxGates] /\ seq[0] + seq[1] < MaxGates
    BY <1>1 DEF Submit
  <2>2. seq[c] + 1 \in 0 .. MaxGates
    <3>1. seq[c] + 1 \in 1 .. MaxGates
      BY ONLY <2>1, SubmitBound, c \in Chan
    <3>2. QED BY ONLY <3>1, GatesAssumption
  <2>3. seq' \in [Chan -> 0 .. MaxGates]
    BY <1>1, <2>1, <2>2 DEF Submit
  <2>4. enc' \in [pc : EncPc, ch : Chan, s : 0 .. MaxGates]
    BY <1>1, <2>2 DEF Submit, EncPc
  <2>5. QED BY <1>1, <2>3, <2>4 DEF Submit
<1>2. CASE WriteRequest
  <2>1. enc.s % Ring \in 0 .. Ring - 1
    <3>1. enc.s \in Nat
      OBVIOUS
    <3>2. QED BY ONLY <3>1, SlotInRing
  <2>2. ring' \in [Chan -> [0 .. Ring - 1 -> 0 .. MaxGates]]
    BY <1>2, <2>1 DEF WriteRequest
  <2>3. enc' \in [pc : EncPc, ch : Chan, s : 0 .. MaxGates]
    BY <1>2 DEF WriteRequest, EncPc
  <2>4. QED BY <1>2, <2>2, <2>3 DEF WriteRequest
<1>3. CASE Overflow \/ StreamError
  <2>1. failing' \in [Thread -> FailPc]
    BY <1>3 DEF Overflow, StreamError, EnterFail, FailPc
  <2>2. enc' \in [pc : EncPc, ch : Chan, s : 0 .. MaxGates]
    BY <1>3 DEF Overflow, StreamError, EncPc
  <2>3. QED BY <1>3, <2>1, <2>2 DEF Overflow, StreamError
<1>4. CASE EncodeFailed
  <2>1. failing' \in [Thread -> FailPc]
    BY <1>4 DEF EncodeFailed, LeaveFail, FailPc
  <2>2. enc' \in [pc : EncPc, ch : Chan, s : 0 .. MaxGates]
    BY <1>4 DEF EncodeFailed, EncPc
  <2>3. QED BY <1>4, <2>1, <2>2 DEF EncodeFailed
<1>5. CASE CheckLatch \/ Shutdown \/ Join \/ DeviceSync
  BY <1>5 DEF CheckLatch, Shutdown, Join, DeviceSync, EncPc
<1>6. CASE EndGraph
  BY <1>6 DEF EndGraph
<1>7. ASSUME EncodeWrite \/ EncodeWait PROVE TypeOK'
  <2>1. enc.s \in 1 .. MaxGates
    BY <1>7, GatesAssumption DEF EncodeWrite, EncodeWait, ControlInv
  <2>2. stream' \in Seq(Packet) /\ Len(stream') = Len(stream) + 1
    <3>1. enc.s >= 1 /\ \E op \in {"write", "wait"} : Enqueue(op)
      BY <1>7, <2>1 DEF EncodeWrite, EncodeWait
    <3>2. TypeOK
      OBVIOUS
    <3>3. QED BY ONLY <3>1, <3>2, EnqueueEffect
  <2>3. head' \in 0 .. Len(stream')
    <3>1. head \in 0 .. Len(stream) /\ Len(stream) \in Nat /\ head' = head
      BY <1>7 DEF EncodeWrite, EncodeWait
    <3>2. QED BY <3>1, <2>2
  <2>4. <<enc.ch, enc.s>> \in Gate
    BY <2>1 DEF Gate
  <2>5. batch' \subseteq Gate
    BY <1>7, <2>4 DEF EncodeWrite, EncodeWait
  <2>6. enc' \in [pc : EncPc, ch : Chan, s : 0 .. MaxGates]
    BY <1>7 DEF EncodeWrite, EncodeWait, EncPc
  <2>7. QED BY <1>7, <2>2, <2>3, <2>5, <2>6 DEF EncodeWrite, EncodeWait
<1>8. QED BY <1>1, <1>2, <1>3, <1>4, <1>5, <1>6, <1>7 DEF Encoder

LEMMA TypeGpu == ASSUME TypeOK, Gpu PROVE TypeOK'
<1> USE DEF TypeOK, encVars, svcVars, failVars, gpuVars
<1>1. head < Len(stream)
  BY DEF Gpu, GpuWrite, GpuWait, Running
<1>2. head + 1 \in 0 .. Len(stream)
  BY <1>1
<1>3. Current.ch \in Chan /\ Current.s \in 0 .. MaxGates
  <2>1. TypeOK
    OBVIOUS
  <2>2. Current.ch \in Chan /\ Current.s \in 1 .. MaxGates
    BY ONLY <1>1, <2>1, CurrentPacket
  <2>3. QED BY ONLY <2>2, GatesAssumption
<1>4. gpu_flag' \in [Chan -> 0 .. MaxGates]
  BY <1>3 DEF Gpu, GpuWrite, GpuWait
<1>5. head' \in 0 .. Len(stream')
  BY <1>2 DEF Gpu, GpuWrite, GpuWait
<1>6. QED BY <1>4, <1>5 DEF Gpu, GpuWrite, GpuWait

LEMMA TypeService == ASSUME TypeOK, ArrivalInv, Service PROVE TypeOK'
<1> USE DEF TypeOK, encVars, svcVars, failVars, gpuVars, svcOnly
<1>1. CASE Top \/ PumpIdle \/ DrainLoad
  BY <1>1 DEF Top, PumpIdle, DrainLoad, SvcPc, AfterPump, Chan
<1>2. CASE PumpArrived
  <2>1. next[svc.ch] % Ring \in 0 .. Ring - 1
    <3>1. next[svc.ch] \in Nat
      OBVIOUS
    <3>2. QED BY ONLY <3>1, SlotInRing
  <2>2. ring[svc.ch][next[svc.ch] % Ring] \in 0 .. MaxGates
    <3>1. ring[svc.ch] \in [0 .. Ring - 1 -> 0 .. MaxGates]
      OBVIOUS
    <3> HIDE DEF TypeOK
    <3>2. QED BY <2>1, <3>1
  <2>3. svc' \in [pc : SvcPc, ch : Chan, req : 0 .. MaxGates, arrived : 0 .. MaxGates]
    BY <1>2, <2>2 DEF PumpArrived, SvcPc
  <2>4. failing' \in [Thread -> FailPc]
    BY <1>2 DEF PumpArrived, EnterFail, FailPc
  <2>5. QED BY <1>2, <2>3, <2>4 DEF PumpArrived
<1>3. CASE CallbackOk
  <2>1. <<svc.ch, svc.req>> \in Chan \X (0 .. MaxGates)
    OBVIOUS
  <2>2. exchanged' \subseteq Chan \X (0 .. MaxGates)
    BY <1>3, <2>1 DEF CallbackOk
  <2>3. svc' \in [pc : SvcPc, ch : Chan, req : 0 .. MaxGates, arrived : 0 .. MaxGates]
    BY <1>3 DEF CallbackOk, SvcPc
  <2>4. QED BY <1>3, <2>2, <2>3 DEF CallbackOk
<1>4. CASE CallbackFails
  <2>1. svc' \in [pc : SvcPc, ch : Chan, req : 0 .. MaxGates, arrived : 0 .. MaxGates]
    BY <1>4 DEF CallbackFails, SvcPc
  <2>2. failing' \in [Thread -> FailPc]
    BY <1>4 DEF CallbackFails, EnterFail, FailPc
  <2>3. QED BY <1>4, <2>1, <2>2 DEF CallbackFails
<1>5. CASE PumpFailed
  <2>1. svc' \in [pc : SvcPc, ch : Chan, req : 0 .. MaxGates, arrived : 0 .. MaxGates]
    BY <1>5 DEF PumpFailed, AfterPump, SvcPc, Chan
  <2>2. failing' \in [Thread -> FailPc]
    BY <1>5 DEF PumpFailed, LeaveFail, FailPc
  <2>3. next' \in [Chan -> Nat]
    BY <1>5 DEF PumpFailed
  <2>4. QED BY <1>5, <2>1, <2>2, <2>3 DEF PumpFailed
<1>6. CASE Release
  <2>1. svc.pc = "release" /\ svc.ch \in Chan
    BY <1>6 DEF Release
  <2>2. next[svc.ch] \in Nat /\ next[svc.ch] <= MaxGates
    BY <2>1, GatesAssumption DEF ArrivalInv, Written
  <2>3. next[svc.ch] \in 0 .. Terminal
    BY <2>2, RingAssumption, GatesAssumption, WidthAssumption DEF Terminal
  <2>4. svc' \in [pc : SvcPc, ch : Chan, req : 0 .. MaxGates, arrived : 0 .. MaxGates]
    BY <1>6 DEF Release, AfterPump, SvcPc, Chan
  <2>5. cpu_flag' \in [Chan -> 0 .. Terminal] /\ next' \in [Chan -> Nat]
    BY <1>6, <2>3 DEF Release
  <2>6. QED BY <1>6, <2>4, <2>5 DEF Release
<1>7. CASE DrainArrived
  <2>1. next[svc.ch] \in 0 .. Terminal
    BY <1>7, RingAssumption, GatesAssumption, WidthAssumption DEF Terminal, DrainArrived
  <2>2. cpu_flag' \in [Chan -> 0 .. Terminal] /\ next' \in [Chan -> Nat]
    BY <1>7, <2>1 DEF DrainArrived
  <2>3. QED BY <1>7, <2>2 DEF DrainArrived
<1>8. CASE DrainQueued
  <2>1. DrainLevel(svc.ch) \in 0 .. Terminal
    <3>1. seq[svc.ch] \in 0 .. MaxGates
      OBVIOUS
    <3>2. QED
      BY ONLY <3>1, RingAssumption, GatesAssumption, WidthAssumption DEF Terminal, DrainSlack, DrainLevel
  <2>2. cpu_flag' \in [Chan -> 0 .. Terminal]
    BY <1>8, <2>1 DEF DrainQueued
  <2>3. svc' \in [pc : SvcPc, ch : Chan, req : 0 .. MaxGates, arrived : 0 .. MaxGates]
    BY <1>8 DEF DrainQueued, SvcPc, Chan
  <2>4. QED BY <1>8, <2>2, <2>3 DEF DrainQueued
<1>9. QED BY <1>1, <1>2, <1>3, <1>4, <1>5, <1>6, <1>7, <1>8 DEF Service

LEMMA TypeStutter == ASSUME TypeOK, UNCHANGED vars PROVE TypeOK'
BY DEF TypeOK, vars, encVars, svcVars, failVars, gpuVars

LEMMA TypeStep == ASSUME TypeOK, ControlInv, ArrivalInv, [Next]_vars PROVE TypeOK'
BY TypeFail, TypeEncoder, TypeGpu, TypeService, TypeStutter DEF Next

-----------------------------------------------------------------------------
(* Types of the parts the steps below look at.                             *)
LEMMA Typed ==
  ASSUME TypeOK
  PROVE  /\ enc \in [pc : EncPc, ch : Chan, s : 0 .. MaxGates]
         /\ svc \in [pc : SvcPc, ch : Chan, req : 0 .. MaxGates, arrived : 0 .. MaxGates]
         /\ seq \in [Chan -> Nat] /\ gpu_flag \in [Chan -> Nat]
         /\ cpu_flag \in [Chan -> Nat] /\ next \in [Chan -> Nat]
         /\ failing \in [Thread -> FailPc]
         /\ failed \in BOOLEAN /\ callbacks \in BOOLEAN /\ run \in BOOLEAN
BY GatesAssumption, TerminalInWord DEF TypeOK

LEMMA TypedAt ==
  ASSUME TypeOK, NEW c \in Chan
  PROVE  seq[c] \in Nat /\ gpu_flag[c] \in Nat /\ cpu_flag[c] \in Nat /\ next[c] \in Nat
BY Typed

LEMMA ControlStep == ASSUME TypeOK, ControlInv, Next PROVE ControlInv'
<1> USE Typed DEF ControlInv, Stopping, Draining, Thread, encVars, svcVars, failVars, gpuVars,
                  svcOnly
<1>1. ASSUME NEW t \in Thread, FailStep(t) PROVE ControlInv'
  BY <1>1 DEF FailStep, FailLatch, FailRelease, FailStop, FailHalt
<1>2. ASSUME NEW c \in Chan, Submit(c) PROVE ControlInv'
  BY <1>2 DEF Submit
<1>3. CASE WriteRequest
  BY <1>3 DEF WriteRequest
<1>4. CASE Overflow
  BY <1>4 DEF Overflow, EnterFail
<1>5. CASE CheckLatch
  BY <1>5 DEF CheckLatch
<1>6. CASE EncodeWrite
  BY <1>6 DEF EncodeWrite
<1>7. CASE EncodeWait
  BY <1>7 DEF EncodeWait
<1>8. CASE StreamError
  BY <1>8 DEF StreamError, EnterFail
<1>9. CASE EncodeFailed
  BY <1>9 DEF EncodeFailed, LeaveFail
<1>10. CASE EndGraph
  BY <1>10 DEF EndGraph
<1>11. CASE Shutdown
  BY <1>11 DEF Shutdown
<1>12. CASE Join
  BY <1>12 DEF Join
<1>13. CASE DeviceSync
  BY <1>13 DEF DeviceSync
<1>14. CASE Gpu
  BY <1>14 DEF Gpu, GpuWrite, GpuWait
<1>15. CASE Top
  BY <1>15 DEF Top
<1>16. CASE PumpIdle
  BY <1>16 DEF PumpIdle, AfterPump
<1>17. CASE PumpArrived
  BY <1>17 DEF PumpArrived, EnterFail
<1>18. CASE CallbackOk
  BY <1>18 DEF CallbackOk
<1>19. CASE CallbackFails
  BY <1>19 DEF CallbackFails, EnterFail
<1>20. CASE Release
  BY <1>20 DEF Release, AfterPump
<1>21. CASE PumpFailed
  BY <1>21 DEF PumpFailed, LeaveFail, AfterPump
<1>22. CASE DrainLoad
  BY <1>22 DEF DrainLoad
<1>23. CASE DrainArrived
  BY <1>23 DEF DrainArrived
<1>24. CASE DrainQueued
  BY <1>24 DEF DrainQueued
<1>25. QED
  BY <1>1, <1>2, <1>3, <1>4, <1>5, <1>6, <1>7, <1>8, <1>9, <1>10, <1>11, <1>12, <1>13, <1>14,
     <1>15, <1>16, <1>17, <1>18, <1>19, <1>20, <1>21, <1>22, <1>23, <1>24
  DEF Next, Encoder, Service

-----------------------------------------------------------------------------
(* The last request number of a channel is a number and never decreases.   *)
LEMMA WrittenType ==
  ASSUME TypeOK, ControlInv, NEW c \in Chan
  PROVE  Written[c] \in Nat /\ Written[c] <= seq[c]
<1>1. seq[c] \in Nat /\ (enc.ch = c => enc.s = seq[c])
  BY Typed DEF ControlInv
<1>2. QED BY <1>1 DEF Written, ControlInv

LEMMA WrittenTypeNext ==
  ASSUME TypeOK', ControlInv' PROVE \A c \in Chan : Written'[c] \in Nat
<1>1. ASSUME NEW c \in Chan PROVE seq'[c] \in Nat /\ (enc'.ch = c => enc'.s = seq'[c])
  BY GatesAssumption DEF ControlInv, TypeOK
<1>2. QED BY <1>1 DEF Written, ControlInv

LEMMA WrittenSame ==
  ASSUME UNCHANGED <<enc, seq>> PROVE Written' = Written
BY DEF Written

LEMMA WrittenGrows ==
  ASSUME TypeOK, ControlInv, Encoder, NEW c \in Chan PROVE Written[c] <= Written'[c]
<1> USE Typed DEF Written, encVars, svcVars, failVars, gpuVars
<1>1. seq[c] \in Nat /\ seq[c] <= seq[c] /\ seq[c] - 1 <= seq[c]
  BY Typed
<1>2. ASSUME NEW d \in Chan, Submit(d) PROVE Written[c] <= Written'[c]
  BY <1>1, <1>2 DEF Submit
<1>3. CASE WriteRequest \/ Overflow \/ CheckLatch
  BY <1>1, <1>3 DEF WriteRequest, Overflow, CheckLatch
<1>4. CASE EncodeWrite \/ EncodeWait \/ StreamError \/ EncodeFailed
  BY <1>1, <1>4 DEF EncodeWrite, EncodeWait, StreamError, EncodeFailed
<1>5. CASE EndGraph \/ Shutdown \/ Join \/ DeviceSync
  BY <1>1, <1>5 DEF EndGraph, Shutdown, Join, DeviceSync
<1>6. QED BY <1>2, <1>3, <1>4, <1>5 DEF Encoder

(* What a step of each actor leaves alone.                                 *)
LEMMA Frames ==
  /\ Encoder => UNCHANGED <<svc, next, exchanged, gpu_flag, head, cpu_flag>>
  /\ Gpu => UNCHANGED <<encVars, svcVars, failVars, stream, ring, cpu_flag>>
  /\ Service => UNCHANGED <<encVars, gpuVars, ring>>
  /\ \A t \in Thread : FailStep(t) => UNCHANGED <<encVars, svcVars, gpuVars, ring>>
<1> USE DEF encVars, svcVars, failVars, gpuVars
<1>1. Encoder => UNCHANGED <<svc, next, exchanged, gpu_flag, head, cpu_flag>>
  BY DEF Encoder, Submit, WriteRequest, Overflow, CheckLatch, EncodeWrite, EncodeWait,
         StreamError, EncodeFailed, EndGraph, Shutdown, Join, DeviceSync
<1>2. Gpu => UNCHANGED <<encVars, svcVars, failVars, stream, ring, cpu_flag>>
  BY DEF Gpu, GpuWrite, GpuWait
<1>3. Service => UNCHANGED <<encVars, gpuVars, ring>>
  BY DEF Service, svcOnly, Top, PumpIdle, PumpArrived, CallbackOk, CallbackFails, Release,
         PumpFailed, DrainLoad, DrainArrived, DrainQueued
<1>4. \A t \in Thread : FailStep(t) => UNCHANGED <<encVars, svcVars, gpuVars, ring>>
  BY DEF FailStep
<1>5. QED BY <1>1, <1>2, <1>3, <1>4

(* The encoder either leaves the stream alone or appends the packet of its *)
(* current gate.                                                           *)
LEMMA StreamGrows ==
  ASSUME TypeOK, ControlInv, Encoder
  PROVE  \/ UNCHANGED stream
         \/ /\ enc.pc \in {"write", "wait"} /\ UNCHANGED seq
            /\ Len(stream') = Len(stream) + 1
            /\ \A i \in 1 .. Len(stream) : stream'[i] = stream[i]
            /\ stream'[Len(stream) + 1] = [op |-> enc.pc, ch |-> enc.ch, s |-> enc.s]
<1>1. CASE EncodeWrite \/ EncodeWait
  <2>1. enc.pc \in {"write", "wait"} /\ Enqueue(enc.pc) /\ UNCHANGED seq
    BY <1>1 DEF EncodeWrite, EncodeWait
  <2>2. enc.s >= 1
    BY <2>1 DEF ControlInv
  <2>3. QED BY <2>1, <2>2, EnqueueEffect
<1>2. CASE ~(EncodeWrite \/ EncodeWait)
  BY <1>2 DEF Encoder, Submit, WriteRequest, Overflow, CheckLatch, StreamError, EncodeFailed,
              EndGraph, Shutdown, Join, DeviceSync, gpuVars
<1>3. QED BY <1>1, <1>2

-----------------------------------------------------------------------------
LEMMA StreamPackets ==
  ASSUME TypeOK
  PROVE  /\ Len(stream) \in Nat /\ head \in Nat /\ head <= Len(stream)
         /\ \A i \in 1 .. Len(stream) : stream[i].ch \in Chan /\ stream[i].s \in Nat
<1>1. stream \in Seq(Packet) /\ head \in 0 .. Len(stream)
  BY DEF TypeOK
<1>2. \A p \in Packet : p.ch \in Chan /\ p.s \in Nat
  BY GatesAssumption DEF Packet
<1>3. QED BY <1>1, <1>2

LEMMA ArrivalStep == ASSUME TypeOK, ControlInv, ArrivalInv, Next PROVE ArrivalInv'
<1>1. \A c \in Chan : Written[c] \in Nat /\ seq[c] \in Nat
  BY WrittenType, Typed
<1>2. CASE Encoder
  <2>1. \A c \in Chan : Written'[c] \in Nat /\ Written[c] <= Written'[c]
    <3>1. TypeOK' /\ ControlInv'
      BY <1>2, ControlStep, TypeStep
    <3>2. \A c \in Chan : Written'[c] \in Nat
      BY <3>1, WrittenTypeNext
    <3>3. QED BY <1>2, <3>2, WrittenGrows
  <2>2. \A i \in 1 .. Len(stream') : stream'[i].s <= Written'[stream'[i].ch]
    <3>1. CASE UNCHANGED stream
      BY <3>1, <1>1, <2>1, StreamPackets DEF ArrivalInv
    <3>2. CASE ~UNCHANGED stream
      <4>1. /\ enc.pc \in {"write", "wait"} /\ UNCHANGED seq
            /\ Len(stream') = Len(stream) + 1
            /\ \A i \in 1 .. Len(stream) : stream'[i] = stream[i]
            /\ stream'[Len(stream) + 1] = [op |-> enc.pc, ch |-> enc.ch, s |-> enc.s]
        BY <1>2, <3>2, StreamGrows
      <4>2. enc.ch \in Chan /\ enc.s = Written[enc.ch]
        BY <4>1, Typed DEF ControlInv, Written
      <4>3. enc.s <= Written'[enc.ch]
        BY <4>2, <2>1
      <4>4. ASSUME NEW i \in 1 .. Len(stream) PROVE stream'[i].s <= Written'[stream'[i].ch]
        BY <4>1, <2>1, <1>1, StreamPackets DEF ArrivalInv
      <4>5. ASSUME NEW i \in 1 .. Len(stream')
            PROVE i \in 1 .. Len(stream) \/ i = Len(stream) + 1
        BY <4>1, StreamPackets
      <4>6. QED BY <4>1, <4>3, <4>4, <4>5
    <3>3. QED BY <3>1, <3>2
  <2>3. UNCHANGED <<svc, next, gpu_flag>>
    BY <1>2, Frames
  <2>4. \A c \in Chan : gpu_flag[c] <= Written'[c]
    BY ONLY <1>1, <2>1, TypeOK, TypedAt, ArrivalInv DEF ArrivalInv
  <2>5. \A c \in Chan : ~Draining => 1 <= next[c] /\ next[c] <= Written'[c] + 1
    BY ONLY <1>1, <2>1, TypeOK, TypedAt, ArrivalInv DEF ArrivalInv
  <2>6. svc.pc \in {"call", "release", "failing"} => next[svc.ch] <= Written'[svc.ch]
    BY <1>1, <2>1, Typed DEF ArrivalInv
  <2>7. QED BY <2>2, <2>3, <2>4, <2>5, <2>6 DEF ArrivalInv, Draining
<1>3. CASE Gpu
  <2>1. UNCHANGED <<enc, seq, stream, svc, next>>
    BY <1>3, Frames DEF encVars, svcVars
  <2>2. Written' = Written
    BY <2>1, WrittenSame
  <2>3. \A c \in Chan : gpu_flag'[c] <= Written[c]
    <3>1. head < Len(stream)
      BY <1>3 DEF Gpu, GpuWrite, GpuWait, Running
    <3>2. Current.ch \in Chan /\ Current.s <= Written[Current.ch]
      BY <3>1, CurrentPacket DEF ArrivalInv, Current
    <3>3. \/ gpu_flag' = gpu_flag
          \/ gpu_flag' = [gpu_flag EXCEPT ![Current.ch] = Current.s]
      BY <1>3 DEF Gpu, GpuWrite, GpuWait
    <3>4. QED BY <3>2, <3>3, Typed DEF ArrivalInv
  <2>4. QED BY <2>1, <2>2, <2>3 DEF ArrivalInv, Draining
<1>4. CASE Service
  <2>1. UNCHANGED <<enc, seq, stream, gpu_flag>>
    BY <1>4, Frames DEF encVars, gpuVars
  <2>2. Written' = Written
    BY <2>1, WrittenSame
  <2>3. \A c \in Chan : ~Draining' => 1 <= next'[c] /\ next'[c] <= Written[c] + 1
    <3>1. CASE Release \/ PumpFailed
      <4>1. svc.pc \in {"release", "failing"} /\ next' = [next EXCEPT ![svc.ch] = @ + 1]
        BY <3>1 DEF Release, PumpFailed
      <4>2. /\ svc.ch \in Chan /\ ~Draining /\ next[svc.ch] <= Written[svc.ch]
            /\ \A c \in Chan : 1 <= next[c] /\ next[c] <= Written[c] + 1
        BY <4>1, Typed DEF ArrivalInv, Draining
      <4>3. ASSUME NEW c \in Chan PROVE 1 <= next'[c] /\ next'[c] <= Written[c] + 1
        <5>1. next \in [Chan -> Nat] /\ Written[c] \in Nat /\ next[c] \in Nat
          BY <1>1, Typed
        <5>2. next'[c] = IF c = svc.ch THEN next[c] + 1 ELSE next[c]
          BY <4>1, <5>1
        <5>3. QED BY <4>2, <5>1, <5>2
      <4>4. QED BY <4>3
    <3>2. CASE DrainArrived
      BY <3>2 DEF DrainArrived, Draining
    <3>3. CASE ~(Release \/ PumpFailed \/ DrainArrived)
      <4>1. next' = next /\ (Draining => Draining')
        BY <1>4, <3>3, Typed
        DEF Service, Top, PumpIdle, PumpArrived, CallbackOk, CallbackFails, DrainLoad,
            DrainQueued, Draining
      <4>2. QED BY <4>1 DEF ArrivalInv
    <3>4. QED BY <3>1, <3>2, <3>3
  <2>4. svc'.pc \in {"call", "release", "failing"} => next'[svc'.ch] <= Written[svc'.ch]
    <3>1. CASE PumpArrived
      <4>1. svc.ch \in Chan /\ svc'.ch = svc.ch /\ next' = next
            /\ gpu_flag[svc.ch] >= next[svc.ch]
        BY <3>1, Typed DEF PumpArrived
      <4>2. QED BY <4>1, <1>1, Typed DEF ArrivalInv
    <3>2. CASE CallbackOk \/ CallbackFails
      <4>1. svc.pc = "call" /\ svc'.ch = svc.ch /\ next' = next
        BY <3>2, Typed DEF CallbackOk, CallbackFails
      <4>2. QED BY <4>1 DEF ArrivalInv
    <3>3. CASE ~(PumpArrived \/ CallbackOk \/ CallbackFails)
      <4>1. svc'.pc \notin {"call", "release", "failing"}
        BY <1>4, <3>3, Typed
        DEF Service, Top, PumpIdle, Release, PumpFailed, DrainLoad, DrainArrived,
            DrainQueued, AfterPump
      <4>2. QED BY <4>1
    <3>4. QED BY <3>1, <3>2, <3>3
  <2>5. QED BY <2>1, <2>2, <2>3, <2>4 DEF ArrivalInv
<1>5. ASSUME NEW t \in Thread, FailStep(t) PROVE ArrivalInv'
  BY <1>5, Frames DEF ArrivalInv, Draining, Written, encVars, svcVars, gpuVars
<1>6. QED BY <1>2, <1>3, <1>4, <1>5 DEF Next

-----------------------------------------------------------------------------
(* The failure words only ever move one way, and so does the drain.        *)
LEMMA OneWay ==
  ASSUME TypeOK, ControlInv, Next
  PROVE  /\ failed => failed'
         /\ Stopping => Stopping'
         /\ Draining => Draining'
         /\ ~callbacks => ~callbacks'
         /\ exchanged \subseteq exchanged'
         /\ callbacks /\ failing'["service"] = "out" => failing["service"] = "out" \/ ~callbacks'
<1> USE Typed DEF Stopping, Draining, encVars, svcVars, failVars, gpuVars, svcOnly
<1>1. ASSUME NEW t \in Thread, FailStep(t) PROVE ~failed \/ failed'
  BY <1>1 DEF FailStep, FailLatch, FailRelease, FailStop, FailHalt
<1>2. failed => failed'
  BY <1>1 DEF Next, Encoder, Gpu, Service, Submit, WriteRequest, Overflow, CheckLatch,
       EncodeWrite, EncodeWait, StreamError, EncodeFailed, EndGraph, Shutdown, Join, DeviceSync,
       GpuWrite, GpuWait, Top, PumpIdle, PumpArrived, CallbackOk, CallbackFails, Release,
       PumpFailed, DrainLoad, DrainArrived, DrainQueued
<1>3. Stopping => Stopping'
  <2>1. CASE Encoder
    BY <2>1 DEF Encoder, Submit, WriteRequest, Overflow, CheckLatch, EncodeWrite, EncodeWait,
       StreamError, EncodeFailed, EndGraph, Shutdown, Join, DeviceSync
  <2>2. CASE ~Encoder
    BY <2>2, Frames DEF Next
  <2>3. QED BY <2>1, <2>2
<1>4. (Draining => Draining') /\ exchanged \subseteq exchanged'
  <2>1. CASE Service
    BY <2>1 DEF Service, Top, PumpIdle, PumpArrived, CallbackOk, CallbackFails, Release,
       PumpFailed, DrainLoad, DrainArrived, DrainQueued, AfterPump
  <2>2. CASE ~Service
    BY <2>2, Frames DEF Next
  <2>3. QED BY <2>1, <2>2
<1>5. ASSUME NEW t \in Thread, FailStep(t) PROVE callbacks \/ ~callbacks'
  BY <1>5 DEF FailStep, FailLatch, FailRelease, FailStop, FailHalt
<1>6. ~callbacks => ~callbacks'
  BY <1>5 DEF Next, Encoder, Gpu, Service, Submit, WriteRequest, Overflow, CheckLatch,
       EncodeWrite, EncodeWait, StreamError, EncodeFailed, EndGraph, Shutdown, Join, DeviceSync,
       GpuWrite, GpuWait, Top, PumpIdle, PumpArrived, CallbackOk, CallbackFails, Release,
       PumpFailed, DrainLoad, DrainArrived, DrainQueued
<1>7. ASSUME callbacks, failing'["service"] = "out"
      PROVE  failing["service"] = "out" \/ ~callbacks'
  <2>1. ASSUME NEW t \in Thread, FailStep(t) PROVE failing["service"] = "out"
    BY <1>7, <2>1 DEF FailStep, FailLatch, FailRelease, FailStop, FailHalt, Thread
  <2>2. CASE Encoder
    BY <1>7, <2>2 DEF Encoder, Submit, WriteRequest, Overflow, CheckLatch, EncodeWrite,
       EncodeWait, StreamError, EncodeFailed, EndGraph, Shutdown, Join, DeviceSync, EnterFail,
       LeaveFail, Thread
  <2>3. CASE Gpu
    BY <1>7, <2>3, Frames
  <2>4. CASE Service
    BY <1>7, <2>4 DEF Service, Top, PumpIdle, PumpArrived, CallbackOk, CallbackFails, Release,
       PumpFailed, DrainLoad, DrainArrived, DrainQueued, EnterFail, LeaveFail, ControlInv, Thread
  <2>5. QED BY <2>1, <2>2, <2>3, <2>4 DEF Next
<1>8. QED BY <1>2, <1>3, <1>4, <1>6, <1>7

LEMMA NextMonotone ==
  ASSUME TypeOK, Next, NEW c \in Chan PROVE next'[c] \in Nat /\ next[c] <= next'[c]
<1> USE DEF encVars, svcVars, failVars, gpuVars, svcOnly
<1>1. next \in [Chan -> Nat] /\ next[c] \in Nat /\ svc.ch \in Chan
  BY Typed
<1>2. CASE Release \/ PumpFailed \/ DrainArrived
  <2>1. next' = [next EXCEPT ![svc.ch] = @ + 1]
    BY <1>2 DEF Release, PumpFailed, DrainArrived
  <2>2. QED BY <1>1, <2>1
<1>3. CASE ~(Release \/ PumpFailed \/ DrainArrived)
  <2>1. next' = next
    BY <1>3, Frames DEF Next, Service, Top, PumpIdle, PumpArrived, CallbackOk, CallbackFails,
       DrainLoad, DrainQueued
  <2>2. QED BY <1>1, <2>1
<1>4. QED BY <1>2, <1>3

(* The request ring keeps what the service thread has yet to read: the     *)
(* room check bounds how far the encoder is ahead of the release word, and *)
(* the release word stays below the gate that is served next.              *)
LEMMA RingStep ==
  ASSUME TypeOK, ControlInv, ArrivalInv, RingInv, ServedInv, Next PROVE RingInv'
<1> DEFINE Live == callbacks /\ ~Draining /\ (failed => failing["service"] = "out")
<1> SUFFICES ASSUME Live', NEW c \in Chan, NEW s \in next'[c] .. Written'[c]
             PROVE  ring'[c][s % Ring] = s
  BY DEF RingInv
<1>1. Live
  BY OneWay, Typed
<1>2. \A d \in Chan : \A r \in next[d] .. Written[d] : ring[d][r % Ring] = r
  BY <1>1 DEF RingInv
<1>3. /\ next[c] \in Nat /\ next'[c] \in Nat /\ next[c] <= next'[c] /\ Written[c] \in Nat
      /\ 1 <= next[c] /\ next[c] <= Written[c] + 1
  BY <1>1, NextMonotone, WrittenType, TypedAt DEF ArrivalInv
<1>4. Written'[c] \in Nat
  <2>1. TypeOK' /\ ControlInv'
    BY TypeStep, ControlStep
  <2>2. QED BY <2>1, WrittenTypeNext
<1>5. s \in Nat /\ next[c] <= s /\ s <= Written'[c]
  BY <1>3, <1>4
<1>6. CASE WriteRequest
  <2>1. /\ enc.pc = "room" /\ enc.ch \in Chan /\ enc.s = seq[enc.ch] /\ enc.s \in Nat
        /\ enc' = [enc EXCEPT !.pc = "latch"] /\ seq' = seq
        /\ ring' = [ring EXCEPT ![enc.ch][enc.s % Ring] = enc.s]
        /\ HasRoom(enc.ch, enc.s)
    BY <1>6, Typed DEF WriteRequest, ControlInv
  <2>2. /\ Written[enc.ch] = enc.s - 1 /\ Written'[enc.ch] = enc.s
        /\ c # enc.ch => Written'[c] = Written[c]
    BY <2>1, Typed DEF Written
  <2>3. enc.s % Ring \in 0 .. Ring - 1 /\ s % Ring \in 0 .. Ring - 1
    BY <2>1, <1>5, SlotInRing
  <2>4. ring \in [Chan -> [0 .. Ring - 1 -> 0 .. MaxGates]]
    BY DEF TypeOK
  <2>5. CASE c # enc.ch
    <3>1. ring'[c] = ring[c] /\ s \in next[c] .. Written[c]
      BY <2>1, <2>2, <2>4, <2>5, <1>3, <1>5
    <3>2. QED BY <3>1, <1>2
  <2>6. CASE c = enc.ch /\ s = enc.s
    BY <2>1, <2>3, <2>4, <2>6
  <2>7. CASE c = enc.ch /\ s # enc.s
    <3>1. ~failed /\ ~Stopping
      BY <2>1, <1>1 DEF ControlInv, Thread, Stopping
    <3>2. cpu_flag[c] \in Nat /\ cpu_flag[c] < next[c]
      BY <3>1, TypedAt DEF ServedInv
    <3>3. s < enc.s
      BY <2>1, <2>2, <2>7, <1>5
    <3>4. USub(enc.s, cpu_flag[c]) < Ring
      BY <2>1, <2>7 DEF HasRoom
    <3>5. USub(enc.s, cpu_flag[c]) = enc.s - cpu_flag[c]
      BY <3>2, <3>3, <1>5, <1>3, <2>1 DEF USub
    <3>6. enc.s - s < Ring
      BY ONLY <3>2, <3>3, <3>4, <3>5, <1>5, <1>3, <2>1, RingAssumption
    <3>7. s % Ring # enc.s % Ring
      BY <3>6, <3>3, <1>5, <2>1, SlotsDistinct
    <3>8. ring'[c][s % Ring] = ring[c][s % Ring]
      BY <3>7, <2>1, <2>3, <2>4, <2>7
    <3>9. s \in next[c] .. Written[c]
      BY <3>3, <2>2, <2>7, <1>3, <1>5, <2>1
    <3>10. QED BY <3>8, <3>9, <1>2
  <2>8. QED BY <2>5, <2>6, <2>7
<1>7. CASE ~WriteRequest
  <2>1. ring' = ring
    BY <1>7, Frames DEF Next, Encoder, Submit, Overflow, CheckLatch, EncodeWrite, EncodeWait,
       StreamError, EncodeFailed, EndGraph, Shutdown, Join, DeviceSync, gpuVars
  <2>2. Written'[c] = Written[c]
    <3>1. CASE EncodeFailed
      <4>1. ~callbacks
        BY <3>1 DEF EncodeFailed, LeaveFail, ControlInv, Thread
      <4>2. QED BY <4>1, <1>1
    <3>2. ASSUME NEW d \in Chan, Submit(d) PROVE Written' = Written
      BY <3>2, Typed DEF Submit, Written
    <3>3. CASE Overflow
      BY <3>3, Typed DEF Overflow, Written
    <3>4. CASE CheckLatch \/ EncodeWrite \/ EncodeWait \/ StreamError
      BY <3>4, Typed DEF CheckLatch, EncodeWrite, EncodeWait, StreamError, Written
    <3>5. CASE EndGraph \/ Shutdown \/ Join \/ DeviceSync
      BY <3>5, Typed DEF EndGraph, Shutdown, Join, DeviceSync, Written
    <3>6. CASE ~Encoder
      BY <3>6, Frames DEF Next, Written, encVars
    <3>7. QED BY <1>7, <3>1, <3>2, <3>3, <3>4, <3>5, <3>6 DEF Encoder
  <2>3. s \in next[c] .. Written[c]
    BY <2>2, <1>3, <1>5
  <2>4. QED BY <2>1, <2>3, <1>2
<1>8. QED BY <1>6, <1>7

-----------------------------------------------------------------------------
(* The request of the gate at the head of the service thread's queue.      *)
LEMMA RequestIsNext ==
  ASSUME TypeOK, ControlInv, ArrivalInv, RingInv, svc.pc = "pump", callbacks,
         gpu_flag[svc.ch] >= next[svc.ch]
  PROVE  ring[svc.ch][next[svc.ch] % Ring] = next[svc.ch]
<1>1. svc.ch \in Chan /\ ~Draining /\ failing["service"] = "out"
  BY Typed DEF Draining, ControlInv, Thread
<1>2. /\ next[svc.ch] \in Nat /\ gpu_flag[svc.ch] \in Nat /\ Written[svc.ch] \in Nat
      /\ gpu_flag[svc.ch] <= Written[svc.ch]
  BY <1>1, TypedAt, WrittenType DEF ArrivalInv
<1>3. next[svc.ch] \in next[svc.ch] .. Written[svc.ch]
  BY <1>2
<1>4. QED BY <1>1, <1>3 DEF RingInv

(* Once failed or stopping, the service thread's state no longer promises  *)
(* anything; until then every gate below next was exchanged.               *)
LEMMA ServedExchanged ==
  ASSUME TypeOK, ControlInv, ServedInv, ~failed, ~Stopping
  PROVE  \A c \in Chan : \A s \in 1 .. next[c] - 1 : <<c, s>> \in exchanged
BY DEF ControlInv, ServedInv, Stopping, Draining, Thread

LEMMA ServedStep ==
  ASSUME TypeOK, ControlInv, ArrivalInv, RingInv, ServedInv, Next PROVE ServedInv'
<1> USE DEF encVars, svcVars, failVars, gpuVars, svcOnly
<1>0. ControlInv' /\ TypeOK'
  BY ControlStep, TypeStep
<1>1. svc'.pc = "call" => svc'.req = next'[svc'.ch]
  <2>1. CASE PumpArrived
    <3>1. svc'.pc = "call" => svc.pc = "pump" /\ callbacks /\ gpu_flag[svc.ch] >= next[svc.ch]
      BY <2>1, Typed DEF PumpArrived
    <3>2. svc'.req = ring[svc.ch][next[svc.ch] % Ring] /\ svc'.ch = svc.ch /\ next' = next
      BY <2>1, Typed DEF PumpArrived
    <3>3. QED BY <3>1, <3>2, RequestIsNext
  <2>2. CASE Service /\ ~PumpArrived
    BY <2>2, Typed DEF Service, Top, PumpIdle, CallbackOk, CallbackFails, Release, PumpFailed,
       DrainLoad, DrainArrived, DrainQueued, AfterPump
  <2>3. CASE ~Service
    BY <2>3, Frames DEF Next, ServedInv
  <2>4. QED BY <2>1, <2>2, <2>3
<1>2. svc'.pc = "release" => <<svc'.ch, next'[svc'.ch]>> \in exchanged'
  <2>1. CASE CallbackOk
    BY <2>1, Typed DEF CallbackOk, ServedInv
  <2>2. CASE Service /\ ~CallbackOk
    BY <2>2, Typed DEF Service, Top, PumpIdle, PumpArrived, CallbackFails, Release, PumpFailed,
       DrainLoad, DrainArrived, DrainQueued, AfterPump
  <2>3. CASE ~Service
    BY <2>3, Frames DEF Next, ServedInv
  <2>4. QED BY <2>1, <2>2, <2>3
<1>3. callbacks' /\ ~Draining' =>
        \A c \in Chan : \A s \in 1 .. next'[c] - 1 : <<c, s>> \in exchanged'
  <2> SUFFICES ASSUME callbacks', ~Draining', NEW c \in Chan, NEW s \in 1 .. next'[c] - 1
               PROVE  <<c, s>> \in exchanged'
    OBVIOUS
  <2>1. callbacks /\ ~Draining /\ exchanged \subseteq exchanged'
    BY OneWay, Typed, <1>0 DEF TypeOK
  <2>2. next[c] \in Nat /\ next \in [Chan -> Nat]
    BY Typed
  <2>3. \A r \in 1 .. next[c] - 1 : <<c, r>> \in exchanged
    BY <2>1 DEF ServedInv
  <2>4. CASE Release
    <3>1. /\ svc.pc = "release" /\ next' = [next EXCEPT ![svc.ch] = @ + 1]
          /\ <<svc.ch, next[svc.ch]>> \in exchanged
      BY <2>4 DEF Release, ServedInv
    <3>2. CASE c = svc.ch /\ s = next[c]
      BY <3>1, <3>2, <2>1
    <3>3. CASE ~(c = svc.ch /\ s = next[c])
      <4>1. s \in 1 .. next[c] - 1
        BY <3>1, <3>3, <2>2
      <4>2. QED BY <4>1, <2>1, <2>3
    <3>4. QED BY <3>2, <3>3
  <2>5. CASE PumpFailed \/ DrainArrived
    <3>1. ~callbacks \/ Draining
      BY <2>5 DEF PumpFailed, LeaveFail, DrainArrived, Draining, ControlInv, Thread
    <3>2. QED BY <3>1, <2>1
  <2>6. CASE ~(Release \/ PumpFailed \/ DrainArrived)
    <3>1. next' = next
      BY <2>6, Frames DEF Next, Service, Top, PumpIdle, PumpArrived, CallbackOk, CallbackFails,
         DrainLoad, DrainQueued
    <3>2. QED BY <3>1, <2>1, <2>3
  <2>7. QED BY <2>4, <2>5, <2>6
<1>4. ~failed' /\ ~Stopping' => \A c \in Chan : cpu_flag'[c] < next'[c]
  <2> SUFFICES ASSUME ~failed', ~Stopping', NEW c \in Chan PROVE cpu_flag'[c] < next'[c]
    OBVIOUS
  <2>1. ~failed /\ ~Stopping
    BY OneWay, Typed, <1>0 DEF TypeOK
  <2>2. /\ cpu_flag[c] < next[c] /\ next[c] \in Nat /\ cpu_flag[c] \in Nat
        /\ next'[c] \in Nat /\ next[c] <= next'[c]
    BY <2>1, TypedAt, NextMonotone DEF ServedInv
  <2>3. CASE Release
    <3>1. next' = [next EXCEPT ![svc.ch] = @ + 1]
          /\ cpu_flag' = [cpu_flag EXCEPT ![svc.ch] = next[svc.ch]]
      BY <2>3 DEF Release
    <3>2. next \in [Chan -> Nat] /\ cpu_flag \in [Chan -> Nat]
      BY Typed
    <3>3. QED BY <3>1, <3>2, <2>2
  <2>4. CASE DrainArrived \/ DrainQueued
    <3>1. Draining
      BY <2>4 DEF DrainArrived, DrainQueued, Draining
    <3>2. QED BY <3>1, <2>1 DEF ControlInv
  <2>5. ASSUME NEW t \in Thread, FailStep(t) PROVE cpu_flag' = cpu_flag
    BY <2>1, <2>5 DEF FailStep, FailLatch, FailRelease, FailStop, FailHalt, ControlInv
  <2>6. CASE ~(Release \/ DrainArrived \/ DrainQueued)
    <3>1. cpu_flag' = cpu_flag
      BY <2>5, <2>6, Frames DEF Next, Service, Top, PumpIdle, PumpArrived, CallbackOk,
         CallbackFails, PumpFailed, DrainLoad
    <3>2. QED BY <3>1, <2>2
  <2>7. QED BY <2>3, <2>4, <2>6
<1>5. QED BY <1>1, <1>2, <1>3, <1>4 DEF ServedInv

-----------------------------------------------------------------------------
(* A packet on the stream stays where it is.                               *)
LEMMA StreamKept ==
  ASSUME TypeOK, ControlInv, Next
  PROVE  /\ Len(stream) \in Nat /\ Len(stream') \in Nat /\ Len(stream) <= Len(stream')
         /\ \A i \in 1 .. Len(stream) : stream'[i] = stream[i]
<1>1. Len(stream) \in Nat
  BY StreamPackets
<1>2. CASE Encoder
  BY <1>1, <1>2, StreamGrows
<1>3. CASE ~Encoder
  BY <1>1, <1>3, Frames DEF Next, gpuVars
<1>4. QED BY <1>2, <1>3

LEMMA BatchStep == ASSUME TypeOK, ControlInv, BatchInv, Next PROVE BatchInv'
<1> USE DEF encVars, svcVars, failVars, gpuVars
<1> DEFINE OnStream(g, str) ==
      \E i \in 1 .. Len(str) : str[i] = [op |-> "wait", ch |-> g[1], s |-> g[2]]
<1>1. ASSUME NEW g, OnStream(g, stream) PROVE OnStream(g, stream')
  <2>1. PICK i \in 1 .. Len(stream) : stream[i] = [op |-> "wait", ch |-> g[1], s |-> g[2]]
    BY <1>1
  <2>2. i \in 1 .. Len(stream') /\ stream'[i] = stream[i]
    BY StreamKept
  <2>3. QED BY <2>1, <2>2
<1>2. CASE EncodeWait
  <2>1. enc.pc = "wait" /\ batch' = batch \cup {<<enc.ch, enc.s>>} /\ ~UNCHANGED stream
    <3>1. Enqueue("wait") /\ enc.pc = "wait" /\ batch' = batch \cup {<<enc.ch, enc.s>>}
      BY <1>2 DEF EncodeWait
    <3>2. enc.s >= 1
      BY <3>1 DEF ControlInv
    <3>3. Len(stream') = Len(stream) + 1 /\ Len(stream) \in Nat
      BY <3>1, <3>2, EnqueueEffect, StreamPackets
    <3>4. QED BY <3>1, <3>3
  <2>2. /\ Len(stream') = Len(stream) + 1
        /\ stream'[Len(stream) + 1] = [op |-> "wait", ch |-> enc.ch, s |-> enc.s]
    BY <2>1, <1>2, StreamGrows DEF Encoder
  <2>3. Len(stream) + 1 \in 1 .. Len(stream')
    BY <2>2, StreamPackets
  <2>4. OnStream(<<enc.ch, enc.s>>, stream')
    BY <2>2, <2>3
  <2>5. \A g \in batch' : g \in batch \/ g = <<enc.ch, enc.s>>
    BY <2>1
  <2>6. QED BY <1>1, <2>4, <2>5 DEF BatchInv
<1>3. CASE EndGraph
  BY <1>3 DEF EndGraph, BatchInv
<1>4. CASE ~(EncodeWait \/ EndGraph)
  <2>1. batch' = batch
    BY <1>4, Frames DEF Next, Encoder, Submit, WriteRequest, Overflow, CheckLatch, EncodeWrite,
       StreamError, EncodeFailed, Shutdown, Join, DeviceSync
  <2>2. QED BY <2>1, <1>1 DEF BatchInv
<1>5. QED BY <1>2, <1>3, <1>4

(* A wait that passes outside failure and shutdown has been released by    *)
(* the service thread, after the exchange.                                 *)
LEMMA PassStep ==
  ASSUME TypeOK, ControlInv, ArrivalInv, ServedInv, NoUnexchangedGatePasses, Next
  PROVE  NoUnexchangedGatePasses'
<1> USE DEF encVars, svcVars, failVars, gpuVars
<1> SUFFICES ASSUME NEW c \in Chan, NEW s \in 1 .. MaxGates, ~failed', ~Stopping',
                    NEW i \in 1 .. head',
                    stream'[i] = [op |-> "wait", ch |-> c, s |-> s]
             PROVE  <<c, s>> \in exchanged'
  BY DEF NoUnexchangedGatePasses, Passed
<1>1. ~failed /\ ~Stopping /\ exchanged \subseteq exchanged'
  <2>1. TypeOK'
    BY TypeStep
  <2>2. QED BY OneWay, Typed, <2>1 DEF TypeOK
<1>2. head \in Nat /\ head <= Len(stream) /\ Len(stream) \in Nat
  BY StreamPackets
<1>3. CASE i \in 1 .. head
  <2>1. stream[i] = [op |-> "wait", ch |-> c, s |-> s]
    BY <1>2, <1>3, StreamKept
  <2>2. QED BY <1>1, <1>3, <2>1 DEF NoUnexchangedGatePasses, Passed
<1>4. CASE i \notin 1 .. head
  <2>1. Gpu
    BY <1>2, <1>4, Frames DEF Next
  <2>2. head' = head + 1 /\ stream' = stream /\ i = head + 1
    BY <1>2, <1>4, <2>1 DEF Gpu, GpuWrite, GpuWait
  <2>3. GpuWait
    BY <2>1, <2>2 DEF Gpu, GpuWrite, Running
  <2>4. cpu_flag[c] >= s
    BY <2>2, <2>3 DEF GpuWait, Current, Released
  <2>5. cpu_flag[c] < next[c] /\ cpu_flag[c] \in Nat /\ next[c] \in Nat
    BY <1>1, TypedAt DEF ServedInv
  <2>6. s \in 1 .. next[c] - 1
    BY <2>4, <2>5
  <2>7. QED BY <1>1, <2>6, ServedExchanged
<1>5. QED BY <1>3, <1>4

(* The engine looks at the latch after the stream drained, so that every   *)
(* gate of the graph has passed, hence was exchanged.                      *)
LEMMA AcceptStep ==
  ASSUME TypeOK, ControlInv, BatchInv, NoUnexchangedGatePasses, AcceptedGatesExchanged, Next
  PROVE  AcceptedGatesExchanged'
<1> USE DEF encVars, svcVars, failVars, gpuVars
<1>1. exchanged \subseteq exchanged'
  BY OneWay
<1>2. CASE EndGraph /\ ~failed
  <2>1. /\ head = Len(stream) /\ ~Stopping /\ exchanged' = exchanged
        /\ accepted' \subseteq accepted \cup batch
    BY <1>2, Frames DEF EndGraph, Stopping
  <2>2. ASSUME NEW g \in batch PROVE g \in exchanged
    <3>1. PICK c \in Chan, s \in 1 .. MaxGates : g = <<c, s>>
      BY DEF TypeOK, Gate
    <3>2. Passed(g)
      BY <2>1 DEF BatchInv, Passed
    <3>3. QED BY <1>2, <2>1, <3>1, <3>2 DEF NoUnexchangedGatePasses
  <2>3. QED BY <2>1, <2>2 DEF AcceptedGatesExchanged
<1>3. CASE ~(EndGraph /\ ~failed)
  <2>1. accepted' = accepted
    BY <1>3, Frames DEF ResultUsable, Next, Encoder, Submit, WriteRequest, Overflow, CheckLatch, EncodeWrite,
       EncodeWait, StreamError, EncodeFailed, EndGraph, Shutdown, Join, DeviceSync
  <2>2. QED BY <1>1, <2>1 DEF AcceptedGatesExchanged
<1>4. QED BY <1>2, <1>3

-----------------------------------------------------------------------------
LEMMA InvStutter == ASSUME IInv, UNCHANGED vars PROVE IInv'
<1> USE DEF vars, encVars, svcVars, failVars, gpuVars, Stopping, Draining
<1>1. TypeOK'
  BY TypeStutter DEF IInv
<1>2. Written' = Written
  BY WrittenSame
<1>3. ControlInv'
  BY DEF IInv, ControlInv
<1>4. ArrivalInv' /\ RingInv'
  BY <1>2 DEF IInv, ArrivalInv, RingInv
<1>5. ServedInv' /\ BatchInv'
  BY DEF IInv, ServedInv, BatchInv
<1>6. NoUnexchangedGatePasses' /\ AcceptedGatesExchanged'
  BY DEF IInv, NoUnexchangedGatePasses, AcceptedGatesExchanged, Passed
<1>7. QED BY <1>1, <1>3, <1>4, <1>5, <1>6 DEF IInv

LEMMA InvStep == IInv /\ [Next]_vars => IInv'
<1>1. ASSUME IInv, Next PROVE IInv'
  BY <1>1, TypeStep, ControlStep, ArrivalStep, RingStep, ServedStep, BatchStep, PassStep,
     AcceptStep DEF IInv
<1>2. QED BY <1>1, InvStutter

(* The inductive invariant holds in every reachable state.                 *)
THEOREM Invariance == Spec => []IInv
BY InitInv, InvStep, PTL DEF Spec

(* Every word and counter of the runtime keeps its type, the release words *)
(* their width included.                                                   *)
THEOREM TypeCorrect == Spec => []TypeOK
<1>1. IInv => TypeOK
  BY DEF IInv
<1>2. QED BY Invariance, <1>1, PTL

(* No wait lets the combine kernel run before its exchange, unless the     *)
(* failure latch is already set or the runtime is shutting down.           *)
THEOREM NoUnexchangedGate == Spec => []NoUnexchangedGatePasses
<1>1. IInv => NoUnexchangedGatePasses
  BY DEF IInv
<1>2. QED BY Invariance, <1>1, PTL

(* A graph whose result the engine uses has only exchanged gates.          *)
THEOREM AcceptedExchanged == Spec => []AcceptedGatesExchanged
<1>1. IInv => AcceptedGatesExchanged
  BY DEF IInv
<1>2. QED BY Invariance, <1>1, PTL

(* The request ring never wraps over a request that is not yet served,     *)
(* whatever the ring size and the width of the release words.              *)
THEOREM RingNeverWraps == Spec => []RequestNotOverwritten
<1>1. IInv => RequestNotOverwritten
  BY DEF IInv, ServedInv, RequestNotOverwritten
<1>2. QED BY Invariance, <1>1, PTL

(* After one failed callback no other callback starts.                     *)
THEOREM FailedCallbackIsLast == Spec => NoCallbackAfterFailure
<1>1. ASSUME IInv, Next, svc.pc = "pump", svc'.pc = "call"
      PROVE  \A c \in Chan : \A s \in 1 .. next[c] - 1 : <<c, s>> \in exchanged
  <2>1. PumpArrived
    BY <1>1, Frames, Typed DEF IInv, Next, Service, Top, PumpIdle, CallbackOk, CallbackFails,
       Release, PumpFailed, DrainLoad, DrainArrived, DrainQueued, AfterPump, svcVars
  <2>2. callbacks
    BY <1>1, <2>1, Typed DEF PumpArrived, IInv
  <2>3. QED BY <1>1, <2>2 DEF IInv, ServedInv, Draining
<1>2. IInv /\ [Next]_vars =>
        [svc.pc = "pump" /\ svc'.pc = "call" =>
           \A c \in Chan : \A s \in 1 .. next[c] - 1 : <<c, s>> \in exchanged]_vars
  BY <1>1
<1>3. QED BY Invariance, <1>2, PTL DEF Spec, NoCallbackAfterFailure

-----------------------------------------------------------------------------
(* Where the GPU waits while the transport works.  As long as nothing has  *)
(* failed and nobody shuts down, the stream consists of a write and a wait *)
(* for each gate, the last one perhaps still without its wait; the writes  *)
(* ahead of the GPU count each channel up from its arrival word; and the   *)
(* arrival word is ahead of the served gates only while the GPU stands     *)
(* between the write and the wait of the next one.                         *)
Calm == ~failed /\ ~Stopping

Packets(i, op, c, s) == stream[i].op = op /\ stream[i].ch = c /\ stream[i].s = s

(* The last gate of a channel whose arrival write is in the stream.        *)
Put ==
  [c \in Chan |-> IF enc.ch = c /\ enc.pc \in {"room", "overflow", "latch", "write"}
                    THEN seq[c] - 1 ELSE seq[c]]

PairInv ==
  /\ \A i \in 1 .. Len(stream) : stream[i].op = "write" =>
       \/ i < Len(stream) /\ Packets(i + 1, "wait", stream[i].ch, stream[i].s)
       \/ i = Len(stream) /\ enc.pc \in {"wait", "failing"} /\ Packets(i, "write", enc.ch, enc.s)
  /\ \A i \in 1 .. Len(stream) : stream[i].op = "wait" =>
       i > 1 /\ Packets(i - 1, "write", stream[i].ch, stream[i].s)
  /\ enc.pc = "wait" => Len(stream) > 0 /\ Packets(Len(stream), "write", enc.ch, enc.s)

OrderInv ==
  /\ \A i \in head + 1 .. Len(stream) : stream[i].op = "write" =>
       \/ stream[i].s = gpu_flag[stream[i].ch] + 1
       \/ \E j \in head + 1 .. i - 1 : Packets(j, "write", stream[i].ch, stream[i].s - 1)
  /\ \A i, j \in head + 1 .. Len(stream) :
       i < j /\ stream[i].op = "write" /\ stream[j].op = "write" /\ stream[i].ch = stream[j].ch
         => stream[i].s < stream[j].s
  /\ \A i \in 1 .. Len(stream) : stream[i].s <= Put[stream[i].ch]
  /\ enc.pc \notin {"failing", "overflow"} => \A c \in Chan :
       gpu_flag[c] = Put[c] \/ \E i \in head + 1 .. Len(stream) : Packets(i, "write", c, Put[c])

PositionInv ==
  /\ \A c \in Chan :
       \/ gpu_flag[c] < next[c]
       \/ gpu_flag[c] = next[c] /\ head >= 1 /\ Packets(head, "write", c, gpu_flag[c])
  /\ svc.pc = "call" => gpu_flag[svc.ch] >= next[svc.ch]

ParkInv == Calm => PairInv /\ OrderInv /\ PositionInv

(* The fields of a packet of the stream.                                   *)
LEMMA PacketTyped ==
  ASSUME TypeOK, NEW i \in 1 .. Len(stream)
  PROVE  stream[i].op \in {"write", "wait"} /\ stream[i].ch \in Chan /\ stream[i].s \in Nat
<1>1. stream[i] \in Packet
  BY DEF TypeOK
<1>2. 1 .. MaxGates \subseteq Nat
  BY GatesAssumption
<1> QED BY <1>1, <1>2 DEF Packet

LEMMA PutTyped ==
  ASSUME TypeOK, ControlInv, NEW c \in Chan
  PROVE  /\ Put[c] \in Nat /\ Put[c] <= seq[c]
         /\ enc.pc \notin {"room", "overflow", "latch", "write"} => Put[c] = seq[c]
<1>1. seq[c] \in Nat /\ (enc.ch = c => enc.s = seq[c])
  BY Typed DEF ControlInv
<1> QED BY <1>1 DEF Put, ControlInv

(* Steps of the encoder that put nothing on the stream.                    *)
LEMMA ParkQuiet ==
  ASSUME TypeOK, ControlInv, PairInv, OrderInv, PositionInv,
         UNCHANGED <<stream, head, gpu_flag, next, svc>>,
         \A c \in Chan : Put[c] <= Put'[c] /\ Put'[c] \in Nat,
         enc'.pc \notin {"failing", "overflow"} =>
           enc.pc \notin {"failing", "overflow"} /\ \A c \in Chan : Put'[c] = Put[c],
         enc.pc \in {"wait", "failing"} =>
           enc'.pc \in {"wait", "failing"} /\ enc'.ch = enc.ch /\ enc'.s = enc.s,
         enc'.pc = "wait" => enc.pc = "wait"
  PROVE  PairInv' /\ OrderInv' /\ PositionInv'
<1>1. PairInv'
  BY DEF PairInv, Packets
<1>2. OrderInv'
  <2>1. ASSUME NEW i \in 1 .. Len(stream) PROVE stream[i].s <= Put'[stream[i].ch]
    <3>1. stream[i].ch \in Chan /\ stream[i].s \in Nat
      BY PacketTyped
    <3>2. stream[i].s <= Put[stream[i].ch] /\ Put[stream[i].ch] \in Nat
      BY <3>1, PutTyped DEF OrderInv
    <3> QED BY <3>1, <3>2
  <2> QED BY <2>1 DEF OrderInv, Packets
<1>3. PositionInv'
  BY DEF PositionInv, Packets
<1> QED BY <1>1, <1>2, <1>3

LEMMA ParkWrite ==
  ASSUME TypeOK, ControlInv, TypeOK', ControlInv', PairInv, OrderInv, PositionInv, EncodeWrite,
         NEW n \in Nat, n = Len(stream) + 1
  PROVE  PairInv' /\ OrderInv' /\ PositionInv'
<1>0. stream \in Seq(Packet) /\ head \in 0 .. Len(stream) /\ enc.s >= 1 /\ Enqueue("write")
  BY DEF TypeOK, EncodeWrite, ControlInv
<1>1. /\ stream' \in Seq(Packet) /\ Len(stream') = n /\ head \in 0 .. n - 1
      /\ \A i \in 1 .. n - 1 : stream'[i] = stream[i]
      /\ stream'[n] = [op |-> "write", ch |-> enc.ch, s |-> enc.s]
  BY <1>0, EnqueueEffect
<1>2. /\ enc.pc = "write" /\ enc'.pc = "wait" /\ enc'.ch = enc.ch /\ enc'.s = enc.s
      /\ enc.ch \in Chan /\ enc.s = seq[enc.ch] /\ enc.s \in Nat /\ enc.s >= 1
      /\ UNCHANGED <<seq, svc, next, head, gpu_flag>>
  BY Typed DEF EncodeWrite, ControlInv, encVars, svcVars, gpuVars
<1>3. /\ \A c \in Chan : Put'[c] = seq[c] /\ Put[c] = IF c = enc.ch THEN seq[c] - 1 ELSE seq[c]
      /\ \A c \in Chan : seq[c] \in Nat /\ gpu_flag[c] \in Nat
  BY <1>2, Typed DEF Put
<1>4. ASSUME NEW i \in 1 .. n - 1 PROVE
        stream[i].op \in {"write", "wait"} /\ stream[i].ch \in Chan /\ stream[i].s \in Nat
        /\ stream'[i] = stream[i]
  BY <1>1, PacketTyped, n - 1 = Len(stream) DEF TypeOK
<1>5. n - 1 = Len(stream) /\ (\A i \in 1 .. n : i \in 1 .. n - 1 \/ i = n) /\ \A i \in 1 .. n - 1 : i # n
  BY <1>0
<1>6. stream'[n].op = "write" /\ stream'[n].ch = enc.ch /\ stream'[n].s = enc.s
  BY <1>1
<1>7. PairInv'
  <2>1. ASSUME NEW i \in 1 .. n, stream'[i].op = "write" PROVE
          \/ i < n /\ Packets(i + 1, "wait", stream[i].ch, stream[i].s)'
          \/ i = n /\ enc'.pc \in {"wait", "failing"} /\ Packets(i, "write", enc.ch, enc.s)'
    <3>1. CASE i = n
      BY <1>2, <1>6, <3>1 DEF Packets
    <3>2. CASE i \in 1 .. n - 1
      <4>1. i < n - 1 /\ Packets(i + 1, "wait", stream[i].ch, stream[i].s)
        BY <1>2, <1>4, <1>5, <2>1, <3>2 DEF PairInv
      <4>2. i + 1 \in 1 .. n - 1 /\ i < n
        BY <1>1, <3>2, <4>1
      <4> QED BY <1>4, <3>2, <4>1, <4>2 DEF Packets
    <3> QED BY <1>5, <3>1, <3>2
  <2>2. ASSUME NEW i \in 1 .. n, stream'[i].op = "wait"
        PROVE  i > 1 /\ Packets(i - 1, "write", stream[i].ch, stream[i].s)'
    <3>1. i \in 1 .. n - 1
      BY <1>5, <1>6, <2>2
    <3>2. i > 1 /\ Packets(i - 1, "write", stream[i].ch, stream[i].s)
      BY <1>4, <1>5, <2>2, <3>1 DEF PairInv
    <3>3. i - 1 \in 1 .. n - 1
      BY <1>1, <3>1, <3>2
    <3> QED BY <1>4, <3>1, <3>2, <3>3 DEF Packets
  <2>3. n > 0 /\ Packets(n, "write", enc.ch, enc.s)'
    BY <1>1, <1>2, <1>6 DEF Packets
  <2> QED BY <1>1, <2>1, <2>2, <2>3 DEF PairInv
<1>8. OrderInv'
  <2> USE <1>2
  <2>1. ASSUME NEW i \in head + 1 .. n, stream'[i].op = "write" PROVE
          \/ stream'[i].s = gpu_flag[stream'[i].ch] + 1
          \/ \E j \in head + 1 .. i - 1 : Packets(j, "write", stream[i].ch, stream[i].s - 1)'
    <3>1. CASE i = n
      <4>1. gpu_flag[enc.ch] = enc.s - 1
              \/ \E j \in head + 1 .. n - 1 : Packets(j, "write", enc.ch, enc.s - 1)
        BY <1>3, <1>5 DEF OrderInv
      <4>2. CASE gpu_flag[enc.ch] = enc.s - 1
        BY <1>3, <1>6, <3>1, <4>2
      <4>3. CASE \E j \in head + 1 .. n - 1 : Packets(j, "write", enc.ch, enc.s - 1)
        <5>1. PICK j \in head + 1 .. n - 1 : Packets(j, "write", enc.ch, enc.s - 1)
          BY <4>3
        <5>2. j \in 1 .. n - 1
          BY <1>1
        <5> QED BY <1>4, <1>6, <3>1, <5>1, <5>2 DEF Packets
      <4> QED BY <4>1, <4>2, <4>3
    <3>2. CASE i \in 1 .. n - 1
      <4>1. i \in head + 1 .. n - 1 /\ stream'[i] = stream[i]
        BY <1>1, <1>4, <3>2
      <4>2. \/ stream[i].s = gpu_flag[stream[i].ch] + 1
            \/ \E j \in head + 1 .. i - 1 : Packets(j, "write", stream[i].ch, stream[i].s - 1)
        BY <1>5, <2>1, <4>1 DEF OrderInv
      <4>3. \A j \in head + 1 .. i - 1 : j \in 1 .. n - 1
        BY <1>1, <3>2
      <4> QED BY <1>4, <4>1, <4>2, <4>3 DEF Packets
    <3>3. i \in 1 .. n
      BY <1>1
    <3> QED BY <1>5, <3>1, <3>2, <3>3
  <2>2. ASSUME NEW i \in head + 1 .. n, NEW j \in head + 1 .. n, i < j,
               stream'[i].op = "write", stream'[j].op = "write", stream'[i].ch = stream'[j].ch
        PROVE  stream'[i].s < stream'[j].s
    <3>1. i \in 1 .. n - 1 /\ i \in head + 1 .. n - 1 /\ j \in 1 .. n
      BY <1>1, <2>2
    <3>2. CASE j = n
      <4>1. stream[i].ch = enc.ch /\ stream[i].s <= Put[enc.ch]
        BY <1>4, <1>5, <1>6, <2>2, <3>1, <3>2 DEF OrderInv
      <4> QED BY <1>3, <1>4, <1>6, <3>1, <3>2, <4>1
    <3>3. CASE j \in 1 .. n - 1
      <4>1. j \in head + 1 .. n - 1
        BY <1>1, <3>3
      <4> QED BY <1>4, <1>5, <2>2, <3>1, <3>3, <4>1 DEF OrderInv
    <3> QED BY <1>5, <3>1, <3>2, <3>3
  <2>3. ASSUME NEW i \in 1 .. n PROVE stream'[i].s <= Put'[stream'[i].ch]
    <3>1. CASE i = n
      BY <1>3, <1>6, <3>1
    <3>2. CASE i \in 1 .. n - 1
      <4>1. stream[i].s <= Put[stream[i].ch]
        BY <1>5, <3>2 DEF OrderInv
      <4>2. stream[i].ch \in Chan /\ stream[i].s \in Nat /\ stream'[i] = stream[i]
        BY <1>4, <3>2
      <4>3. Put[stream[i].ch] <= Put'[stream[i].ch] /\ Put[stream[i].ch] \in Int /\ Put'[stream[i].ch] \in Int
        BY <1>3, <4>2
      <4> QED BY <4>1, <4>2, <4>3
    <3> QED BY <1>5, <3>1, <3>2
  <2>4. ASSUME NEW c \in Chan PROVE
          gpu_flag[c] = Put'[c] \/ \E i \in head + 1 .. n : Packets(i, "write", c, Put[c])'
    <3>1. CASE c = enc.ch
      <4>1. n \in head + 1 .. n
        BY <1>1
      <4> QED BY <1>3, <1>6, <3>1, <4>1 DEF Packets
    <3>2. CASE c # enc.ch
      <4>1. Put'[c] = Put[c]
        BY <1>3, <3>2
      <4>2. gpu_flag[c] = Put[c] \/ \E i \in head + 1 .. n - 1 : Packets(i, "write", c, Put[c])
        BY <1>5 DEF OrderInv
      <4>3. \A i \in head + 1 .. n - 1 : i \in 1 .. n - 1 /\ i \in head + 1 .. n
        BY <1>1
      <4> QED BY <1>4, <4>1, <4>2, <4>3 DEF Packets
    <3> QED BY <3>1, <3>2
  <2> QED BY <1>1, <2>1, <2>2, <2>3, <2>4 DEF OrderInv
<1>9. PositionInv'
  <2>1. head >= 1 => head \in 1 .. n - 1
    BY <1>1
  <2> QED BY <1>2, <1>4, <2>1 DEF PositionInv, Packets
<1> QED BY <1>7, <1>8, <1>9

LEMMA ParkWait ==
  ASSUME TypeOK, ControlInv, PairInv, OrderInv, PositionInv, EncodeWait,
         NEW n \in Nat, n = Len(stream) + 1
  PROVE  PairInv' /\ OrderInv' /\ PositionInv'
<1>0. stream \in Seq(Packet) /\ head \in 0 .. Len(stream) /\ enc.s >= 1 /\ Enqueue("wait")
  BY DEF TypeOK, EncodeWait, ControlInv
<1>1. /\ stream' \in Seq(Packet) /\ Len(stream') = n /\ head \in 0 .. n - 1
      /\ \A i \in 1 .. n - 1 : stream'[i] = stream[i]
      /\ stream'[n] = [op |-> "wait", ch |-> enc.ch, s |-> enc.s]
  BY <1>0, EnqueueEffect
<1>2. /\ enc.pc = "wait" /\ enc'.pc = "idle" /\ enc'.ch = enc.ch /\ enc'.s = enc.s
      /\ enc.ch \in Chan /\ enc.s = seq[enc.ch] /\ enc.s \in Nat
      /\ UNCHANGED <<seq, svc, next, head, gpu_flag>>
  BY Typed DEF EncodeWait, ControlInv, encVars, svcVars, gpuVars
<1>3. Put' = Put /\ \A c \in Chan : Put[c] = seq[c] /\ seq[c] \in Nat
  BY <1>2, Typed DEF Put
<1>4. ASSUME NEW i \in 1 .. n - 1 PROVE
        stream[i].op \in {"write", "wait"} /\ stream[i].ch \in Chan /\ stream[i].s \in Nat
        /\ stream'[i] = stream[i]
  BY <1>1, PacketTyped, n - 1 = Len(stream) DEF TypeOK
<1>5. n - 1 = Len(stream) /\ (\A i \in 1 .. n : i \in 1 .. n - 1 \/ i = n) /\ \A i \in 1 .. n - 1 : i # n
  BY <1>0
<1>6. /\ stream'[n].op = "wait" /\ stream'[n].ch = enc.ch /\ stream'[n].s = enc.s
      /\ n - 1 >= 1 /\ Packets(n - 1, "write", enc.ch, enc.s)
  <2>1. Len(stream) > 0 /\ Packets(Len(stream), "write", enc.ch, enc.s)
    BY <1>2 DEF PairInv
  <2>2. Len(stream) = n - 1
    BY <1>5
  <2>3. Packets(n - 1, "write", enc.ch, enc.s) /\ n - 1 >= 1
    <3>1. n - 1 > 0
      BY <2>1, <2>2
    <3> QED BY <2>1, <2>2, <3>1
  <2> QED BY <1>1, <2>3
<1>7. PairInv'
  <2>1. ASSUME NEW i \in 1 .. n, stream'[i].op = "write"
        PROVE  i < n /\ Packets(i + 1, "wait", stream[i].ch, stream[i].s)'
    <3>1. i \in 1 .. n - 1
      BY <1>5, <1>6, <2>1
    <3>2. \/ i < n - 1 /\ Packets(i + 1, "wait", stream[i].ch, stream[i].s)
          \/ i = n - 1 /\ Packets(i, "write", enc.ch, enc.s)
      BY <1>4, <1>5, <2>1, <3>1 DEF PairInv
    <3>3. CASE i < n - 1 /\ Packets(i + 1, "wait", stream[i].ch, stream[i].s)
      <4>1. i + 1 \in 1 .. n - 1 /\ i < n
        BY <3>1, <3>3
      <4> QED BY <1>4, <3>1, <3>3, <4>1 DEF Packets
    <3>4. CASE i = n - 1 /\ Packets(i, "write", enc.ch, enc.s)
      <4>1. i + 1 = n /\ i < n
        BY <3>1, <3>4
      <4> QED BY <1>4, <1>6, <3>1, <3>4, <4>1 DEF Packets
    <3> QED BY <3>2, <3>3, <3>4
  <2>2. ASSUME NEW i \in 1 .. n, stream'[i].op = "wait"
        PROVE  i > 1 /\ Packets(i - 1, "write", stream[i].ch, stream[i].s)'
    <3>1. CASE i \in 1 .. n - 1
      <4>1. i > 1 /\ Packets(i - 1, "write", stream[i].ch, stream[i].s)
        BY <1>4, <1>5, <2>2, <3>1 DEF PairInv
      <4>2. i - 1 \in 1 .. n - 1
        BY <3>1, <4>1
      <4> QED BY <1>4, <3>1, <4>1, <4>2 DEF Packets
    <3>2. CASE i = n
      <4>1. n - 1 \in 1 .. n - 1 /\ i > 1
        BY <1>6, <3>2
      <4> QED BY <1>4, <1>6, <3>2, <4>1 DEF Packets
    <3> QED BY <1>5, <3>1, <3>2
  <2> QED BY <1>1, <1>2, <2>1, <2>2 DEF PairInv
<1>8. OrderInv'
  <2>1. ASSUME NEW i \in head + 1 .. n, stream'[i].op = "write"
        PROVE  \/ stream'[i].s = gpu_flag[stream'[i].ch] + 1
               \/ \E j \in head + 1 .. i - 1 : Packets(j, "write", stream[i].ch, stream[i].s - 1)'
    <3>1. i \in 1 .. n - 1 /\ i \in head + 1 .. n - 1
      BY <1>1, <1>5, <1>6, <2>1
    <3>2. \/ stream[i].s = gpu_flag[stream[i].ch] + 1
          \/ \E j \in head + 1 .. i - 1 : Packets(j, "write", stream[i].ch, stream[i].s - 1)
      BY <1>4, <1>5, <2>1, <3>1 DEF OrderInv
    <3>3. \A j \in head + 1 .. i - 1 : j \in 1 .. n - 1
      BY <1>1, <3>1
    <3> QED BY <1>4, <3>1, <3>2, <3>3 DEF Packets
  <2>2. ASSUME NEW i \in head + 1 .. n, NEW j \in head + 1 .. n, i < j,
               stream'[i].op = "write", stream'[j].op = "write", stream'[i].ch = stream'[j].ch
        PROVE  stream'[i].s < stream'[j].s
    <3>1. i \in head + 1 .. n - 1 /\ j \in head + 1 .. n - 1 /\ i \in 1 .. n - 1 /\ j \in 1 .. n - 1
      BY <1>1, <1>5, <1>6, <2>2
    <3> QED BY <1>4, <1>5, <2>2, <3>1 DEF OrderInv
  <2>3. ASSUME NEW i \in 1 .. n PROVE stream'[i].s <= Put'[stream'[i].ch]
    <3>1. CASE i = n
      BY <1>2, <1>3, <1>6, <3>1
    <3>2. CASE i \in 1 .. n - 1
      BY <1>3, <1>4, <1>5, <3>2 DEF OrderInv
    <3> QED BY <1>5, <3>1, <3>2
  <2>4. ASSUME NEW c \in Chan PROVE
          gpu_flag[c] = Put'[c] \/ \E i \in head + 1 .. n : Packets(i, "write", c, Put[c])'
    <3>1. gpu_flag[c] = Put[c] \/ \E i \in head + 1 .. n - 1 : Packets(i, "write", c, Put[c])
      BY <1>2, <1>5 DEF OrderInv
    <3>2. \A i \in head + 1 .. n - 1 : i \in 1 .. n - 1 /\ i \in head + 1 .. n
      BY <1>1
    <3> QED BY <1>3, <1>4, <3>1, <3>2 DEF Packets
  <2> QED BY <1>1, <1>2, <2>1, <2>2, <2>3, <2>4 DEF OrderInv
<1>9. PositionInv'
  <2>1. head >= 1 => head \in 1 .. n - 1
    BY <1>1
  <2> QED BY <1>2, <1>4, <2>1 DEF PositionInv, Packets
<1> QED BY <1>7, <1>8, <1>9

LEMMA ParkEncoder ==
  ASSUME IInv, IInv', Calm, Calm', ParkInv, Encoder PROVE PairInv' /\ OrderInv' /\ PositionInv'
<1> USE Typed DEF IInv, ParkInv, Calm, Stopping, encVars, svcVars, failVars, gpuVars
<1>0. /\ enc \in [pc : EncPc, ch : Chan, s : 0 .. MaxGates]
      /\ \A c \in Chan : seq[c] \in Nat /\ Put[c] \in Nat /\ Put[c] <= seq[c]
  BY PutTyped
<1>1. ASSUME NEW c \in Chan, Submit(c) PROVE PairInv' /\ OrderInv' /\ PositionInv'
  <2>1. \A d \in Chan : Put'[d] = seq[d] /\ Put[d] = seq[d]
    BY <1>0, <1>1 DEF Submit, Put
  <2> QED BY <1>0, <1>1, <2>1, ParkQuiet DEF Submit
<1>2. CASE WriteRequest \/ Overflow \/ CheckLatch
  <2>1. \A d \in Chan : Put'[d] = Put[d]
    BY <1>0, <1>2 DEF WriteRequest, Overflow, CheckLatch, Put
  <2> QED BY <1>0, <1>2, <2>1, ParkQuiet DEF WriteRequest, Overflow, CheckLatch
<1>3. CASE EncodeWrite
  BY <1>3, ParkWrite, Len(stream) + 1 \in Nat DEF TypeOK
<1>4. CASE EncodeWait
  BY <1>4, ParkWait, Len(stream) + 1 \in Nat DEF TypeOK
<1>5. CASE StreamError
  <2>1. \A d \in Chan : Put'[d] = seq[d]
    BY <1>0, <1>5 DEF StreamError, Put
  <2> QED BY <1>0, <1>5, <2>1, ParkQuiet DEF StreamError
<1>6. CASE EndGraph
  <2>1. \A d \in Chan : Put'[d] = Put[d]
    BY <1>6 DEF EndGraph, Put
  <2> QED BY <1>0, <1>6, <2>1, ParkQuiet DEF EndGraph
<1>7. ~EncodeFailed /\ ~Shutdown /\ ~Join /\ ~DeviceSync
  BY <1>0 DEF EncodeFailed, LeaveFail, ControlInv, Thread, Shutdown, Join, DeviceSync
<1> QED BY <1>1, <1>2, <1>3, <1>4, <1>5, <1>6, <1>7 DEF Encoder

(* The GPU writes an arrival word: the next number of its channel, and the *)
(* gate before it has been served, since its wait has passed.              *)
LEMMA ParkGpuWrite ==
  ASSUME IInv, Calm, ParkInv, GpuWrite PROVE PairInv' /\ OrderInv' /\ PositionInv'
<1> USE DEF IInv, ParkInv, Calm
<1> DEFINE c == Current.ch
<1>1. /\ head \in Nat /\ head + 1 \in 1 .. Len(stream) /\ head' = head + 1 /\ c \in Chan
      /\ Len(stream) \in Nat
      /\ Packets(head + 1, "write", c, Current.s)
      /\ gpu_flag' = [gpu_flag EXCEPT ![c] = Current.s]
      /\ UNCHANGED <<stream, enc, seq, svc, next>> /\ Put' = Put
  <2>1. head < Len(stream) /\ stream[head + 1].op = "write" /\ head \in Nat /\ Len(stream) \in Nat
    BY DEF GpuWrite, Running, TypeOK
  <2>2. Current.ch \in Chan /\ head + 1 \in 1 .. Len(stream)
    BY <2>1, CurrentPacket
  <2>3. UNCHANGED <<stream, enc, seq, svc, next>>
    BY DEF GpuWrite, encVars, svcVars, failVars
  <2> QED BY <2>1, <2>2, <2>3 DEF GpuWrite, Current, Packets, Put
<1>2. Current.s = gpu_flag[c] + 1
  <2>1. head + 1 \in head + 1 .. Len(stream) /\ head + 1 .. head + 1 - 1 = {}
    BY <1>1
  <2> QED BY <1>1, <2>1 DEF OrderInv, Packets
<1>3. gpu_flag \in [Chan -> Nat] /\ \A d \in Chan : next[d] \in Nat /\ gpu_flag[d] \in Nat
  BY Typed
<1>4. \A d \in Chan : gpu_flag[d] < next[d]
  <2>1. head >= 1 => stream[head].op # "write"
    <3> SUFFICES ASSUME head >= 1, stream[head].op = "write" PROVE FALSE
      OBVIOUS
    <3>1. head \in 1 .. Len(stream) /\ head < Len(stream)
      BY <1>1
    <3> QED BY <1>1, <3>1 DEF PairInv, Packets
  <2> QED BY <1>3, <2>1 DEF PositionInv, Packets
<1>5. PairInv'
  BY <1>1 DEF PairInv, Packets
<1>a. \A d \in Chan : gpu_flag'[d] = IF d = c THEN gpu_flag[c] + 1 ELSE gpu_flag[d]
  BY <1>1, <1>2, <1>3
<1>6. OrderInv'
  <2>0. \A i \in head' + 1 .. Len(stream) : i \in head + 1 .. Len(stream) /\ i \in 1 .. Len(stream) /\ i > head + 1
    BY <1>1
  <2>1. ASSUME NEW i \in head' + 1 .. Len(stream), stream[i].op = "write" PROVE
          \/ stream[i].s = gpu_flag'[stream[i].ch] + 1
          \/ \E j \in head' + 1 .. i - 1 : Packets(j, "write", stream[i].ch, stream[i].s - 1)
    <3>1. stream[i].ch \in Chan /\ stream[i].s \in Nat
      BY <2>0, PacketTyped
    <3>2. head + 1 \in head + 1 .. Len(stream) /\ head + 1 < i
      BY <1>1
    <3>3. stream[i].ch = c => stream[i].s > gpu_flag[c] + 1
      <4>1. stream[i].ch = c => stream[head + 1].s < stream[i].s
        BY <1>1, <2>0, <2>1, <3>2 DEF OrderInv, Packets
      <4> QED BY <1>1, <1>2, <1>3, <3>1, <4>1 DEF Packets
    <3>4. CASE stream[i].s = gpu_flag[stream[i].ch] + 1
      BY <1>a, <1>3, <3>1, <3>3, <3>4
    <3>5. CASE \E j \in head + 1 .. i - 1 : Packets(j, "write", stream[i].ch, stream[i].s - 1)
      <4>1. PICK j \in head + 1 .. i - 1 : Packets(j, "write", stream[i].ch, stream[i].s - 1)
        BY <3>5
      <4>2. CASE j = head + 1
        <5>1. stream[i].ch = c /\ stream[i].s - 1 = gpu_flag[c] + 1
          BY <1>1, <1>2, <4>1, <4>2 DEF Packets
        <5>2. gpu_flag'[stream[i].ch] = gpu_flag[c] + 1
          BY <1>a, <3>1, <5>1
        <5>3. gpu_flag[c] \in Nat
          BY <1>3, <3>1, <5>1
        <5>4. stream[i].s = gpu_flag'[stream[i].ch] + 1
          BY ONLY <3>1, <5>1, <5>2, <5>3
        <5> QED BY ONLY <5>4
      <4>3. CASE j # head + 1
        <5>1. j \in head' + 1 .. i - 1
          BY <1>1, <4>1, <4>3
        <5> QED BY <4>1, <5>1
      <4> QED BY <4>2, <4>3
    <3> QED BY <2>0, <2>1, <3>4, <3>5 DEF OrderInv
  <2>2. \A i, j \in head' + 1 .. Len(stream) :
          i < j /\ stream[i].op = "write" /\ stream[j].op = "write" /\ stream[i].ch = stream[j].ch
            => stream[i].s < stream[j].s
    BY <2>0 DEF OrderInv
  <2>3. ASSUME enc.pc \notin {"failing", "overflow"}, NEW d \in Chan PROVE
          gpu_flag'[d] = Put[d] \/ \E i \in head' + 1 .. Len(stream) : Packets(i, "write", d, Put[d])
    <3>1. CASE gpu_flag[d] = Put[d]
      <4>1. d # c
        <5>1. stream[head + 1].s <= Put[c]
          BY <1>1 DEF OrderInv, Packets
        <5> QED BY <1>1, <1>2, <1>3, <3>1, <5>1 DEF Packets
      <4> QED BY <1>a, <3>1, <4>1
    <3>2. ASSUME NEW i \in head + 1 .. Len(stream), Packets(i, "write", d, Put[d])
          PROVE  gpu_flag'[d] = Put[d] \/ i \in head' + 1 .. Len(stream)
      <4>1. CASE i = head + 1
        BY <1>a, <1>1, <1>2, <3>2, <4>1 DEF Packets
      <4>2. CASE i # head + 1
        BY <1>1, <4>2
      <4> QED BY <4>1, <4>2
    <3> QED BY <2>3, <3>1, <3>2 DEF OrderInv
  <2>4. \A i \in 1 .. Len(stream) : stream[i].s <= Put[stream[i].ch]
    BY DEF OrderInv
  <2> QED BY <1>1, <2>1, <2>2, <2>3, <2>4 DEF OrderInv, Packets
<1>7. PositionInv'
  <2>1. ASSUME NEW d \in Chan PROVE
          \/ gpu_flag'[d] < next[d]
          \/ gpu_flag'[d] = next[d] /\ head' >= 1 /\ Packets(head', "write", d, gpu_flag'[d])
    <3>1. CASE d = c
      <4>1. gpu_flag'[d] = gpu_flag[c] + 1 /\ gpu_flag[c] < next[c] /\ next[c] \in Nat /\ gpu_flag[c] \in Nat
        BY <1>a, <1>3, <1>4, <1>1, <3>1
      <4> QED BY <1>1, <1>2, <3>1, <4>1 DEF Packets
    <3>2. CASE d # c
      BY <1>a, <1>4, <3>2
    <3> QED BY <3>1, <3>2
  <2>2. svc.pc = "call" => gpu_flag'[svc.ch] >= next[svc.ch]
    <3>1. svc.ch \in Chan
      BY Typed
    <3> QED BY <1>a, <1>3, <1>4, <3>1 DEF PositionInv
  <2> QED BY <1>1, <2>1, <2>2 DEF PositionInv, Packets
<1> QED BY <1>5, <1>6, <1>7

(* The GPU passes a wait: the gate has been released, hence served.        *)
LEMMA ParkGpuWait ==
  ASSUME IInv, Calm, ParkInv, GpuWait PROVE PairInv' /\ OrderInv' /\ PositionInv'
<1> USE DEF IInv, ParkInv, Calm
<1>1. /\ head \in Nat /\ head + 1 \in 1 .. Len(stream) /\ head' = head + 1 /\ Current.ch \in Chan
      /\ Len(stream) \in Nat /\ Current.s \in Nat
      /\ Packets(head + 1, "wait", Current.ch, Current.s)
      /\ cpu_flag[Current.ch] >= Current.s
      /\ UNCHANGED <<stream, enc, seq, svc, next, gpu_flag>> /\ Put' = Put
  <2>1. head < Len(stream) /\ stream[head + 1].op = "wait" /\ head \in Nat /\ Len(stream) \in Nat
    BY DEF GpuWait, Running, TypeOK
  <2>2. Current.ch \in Chan /\ head + 1 \in 1 .. Len(stream) /\ Current.s \in 1 .. MaxGates
    BY <2>1, CurrentPacket
  <2>3. UNCHANGED <<stream, enc, seq, svc, next, gpu_flag>>
    BY DEF GpuWait, encVars, svcVars, failVars
  <2>4. Current.s \in Nat
    BY <2>2, GatesAssumption
  <2> QED BY <2>1, <2>2, <2>3, <2>4 DEF GpuWait, Released, Current, Packets, Put
<1>2. \A d \in Chan : next[d] \in Nat /\ gpu_flag[d] \in Nat /\ cpu_flag[d] \in Nat
  BY Typed
<1>3. Current.s < next[Current.ch]
  BY <1>1, <1>2 DEF ServedInv
<1>4. head >= 1 /\ Packets(head, "write", Current.ch, Current.s)
  <2>1. head + 1 > 1 /\ Packets(head + 1 - 1, "write", stream[head + 1].ch, stream[head + 1].s)
    BY <1>1 DEF PairInv, Packets
  <2> QED BY <1>1, <2>1 DEF Packets
<1>5. \A d \in Chan : gpu_flag[d] < next[d]
  BY <1>2, <1>3, <1>4 DEF PositionInv, Packets
<1>6. PairInv'
  BY <1>1 DEF PairInv, Packets
<1>7. OrderInv'
  <2>0. /\ \A i \in head' + 1 .. Len(stream) : i \in head + 1 .. Len(stream)
        /\ \A i \in head + 1 .. Len(stream) : stream[i].op = "write" => i \in head' + 1 .. Len(stream)
    BY <1>1 DEF Packets
  <2>1. ASSUME NEW i \in head' + 1 .. Len(stream), stream[i].op = "write" PROVE
          \/ stream[i].s = gpu_flag[stream[i].ch] + 1
          \/ \E j \in head' + 1 .. i - 1 : Packets(j, "write", stream[i].ch, stream[i].s - 1)
    <3>1. \A j \in head + 1 .. i - 1 : stream[j].op = "write" => j \in head' + 1 .. i - 1
      BY <1>1 DEF Packets
    <3> QED BY <2>0, <2>1, <3>1 DEF OrderInv, Packets
  <2> QED BY <1>1, <2>0, <2>1 DEF OrderInv, Packets
<1>8. PositionInv'
  BY <1>1, <1>5 DEF PositionInv
<1> QED BY <1>6, <1>7, <1>8

LEMMA ParkService ==
  ASSUME IInv, Calm, Calm', ParkInv, Service PROVE PairInv' /\ OrderInv' /\ PositionInv'
<1> USE Typed DEF IInv, ParkInv, Calm, Stopping, svcVars, failVars
<1>1. UNCHANGED <<enc, seq, stream, head, gpu_flag>>
  BY Frames DEF encVars, gpuVars
<1>2. PairInv' /\ OrderInv'
  <2>1. PairInv /\ OrderInv /\ Put' = Put
    BY <1>1 DEF Put
  <2> QED BY ONLY <1>1, <2>1 DEF PairInv, OrderInv, Packets
<1>3. \A c \in Chan : next[c] \in Nat /\ gpu_flag[c] \in Nat
  BY Typed
<1>4. PositionInv'
  <2>1. CASE next' = next /\ (svc'.pc = "call" => svc.pc = "call" /\ svc'.ch = svc.ch)
    BY <1>1, <2>1 DEF PositionInv, Packets
  <2>2. CASE PumpArrived
    <3>1. next' = next /\ svc'.ch = svc.ch /\ gpu_flag[svc.ch] >= next[svc.ch]
      BY <2>2 DEF PumpArrived
    <3> QED BY <1>1, <3>1 DEF PositionInv, Packets
  <2>3. CASE Release
    <3>1. svc.ch \in Chan /\ next' = [next EXCEPT ![svc.ch] = next[svc.ch] + 1] /\ svc'.pc # "call"
      BY <2>3 DEF Release, AfterPump
    <3>2. \A c \in Chan : next'[c] = IF c = svc.ch THEN next[c] + 1 ELSE next[c]
      BY <3>1
    <3> QED BY <1>1, <1>3, <3>1, <3>2 DEF PositionInv, Packets
  <2>4. ~PumpFailed /\ ~DrainArrived
    BY DEF PumpFailed, LeaveFail, DrainArrived, ControlInv, Draining, Thread
  <2>5. Top \/ PumpIdle \/ CallbackOk \/ CallbackFails \/ DrainLoad \/ DrainQueued =>
          next' = next /\ (svc'.pc = "call" => svc.pc = "call" /\ svc'.ch = svc.ch)
    BY DEF Top, PumpIdle, AfterPump, CallbackOk, CallbackFails, DrainLoad, DrainQueued
  <2> QED BY <2>1, <2>2, <2>3, <2>4, <2>5 DEF Service
<1> QED BY <1>2, <1>4

LEMMA ParkStep == ASSUME IInv, IInv', ParkInv, [Next]_vars PROVE ParkInv'
<1> SUFFICES ASSUME Calm' PROVE PairInv' /\ OrderInv' /\ PositionInv'
  BY DEF ParkInv
<1>1. CASE Next
  <2>1. Calm
    BY <1>1, OneWay DEF Calm, IInv
  <2>2. CASE \E t \in Thread : FailStep(t)
    <3>1. UNCHANGED <<enc, seq, stream, head, gpu_flag, svc, next>>
      BY <2>2, Frames DEF encVars, svcVars, gpuVars
    <3> QED BY <2>1, <3>1 DEF ParkInv, PairInv, OrderInv, PositionInv, Packets, Put
  <2> QED BY <1>1, <2>1, <2>2, ParkEncoder, ParkGpuWrite, ParkGpuWait, ParkService DEF Next, Gpu
<1>2. CASE UNCHANGED vars
  <2>1. UNCHANGED <<enc, seq, stream, head, gpu_flag, svc, next, failed>>
    BY <1>2 DEF vars, encVars, svcVars, gpuVars, failVars
  <2>2. Calm
    BY <2>1 DEF Calm, Stopping
  <2> QED BY <2>1, <2>2 DEF ParkInv, PairInv, OrderInv, PositionInv, Packets, Put
<1> QED BY <1>1, <1>2

LEMMA ParkInit == ASSUME Init PROVE ParkInv
<1>1. /\ stream = <<>> /\ Len(stream) = 0 /\ head = 0 /\ enc.pc = "idle" /\ svc.pc = "top"
      /\ \A c \in Chan : gpu_flag[c] = 0 /\ Put[c] = 0 /\ next[c] = 1
  BY DEF Init, Put
<1> QED BY <1>1 DEF ParkInv, PairInv, OrderInv, PositionInv

(* While the transport works on a gate the GPU is parked at that gate, or  *)
(* the encoder is about to enqueue its wait: ds4_tp_service_thread calls   *)
(* back for a gate only between its two packets.                           *)
THEOREM GpuIsParked == Spec => []ParkedDuringExchange
<1>1. ASSUME IInv, ParkInv PROVE ParkedDuringExchange
  <2> SUFFICES ASSUME svc.pc = "call", Calm
               PROVE  \/ Running("wait") /\ Current.ch = svc.ch /\ Current.s = svc.req
                      \/ head = Len(stream) /\ enc.pc \in {"wait", "failing"}
                         /\ enc.ch = svc.ch /\ enc.s = svc.req
    BY DEF ParkedDuringExchange, Calm
  <2>1. svc.req = next[svc.ch] /\ svc.ch \in Chan /\ next[svc.ch] \in Nat /\ gpu_flag[svc.ch] \in Nat
    BY <1>1, Typed DEF IInv, ServedInv
  <2>2. head >= 1 /\ Packets(head, "write", svc.ch, svc.req)
    BY <1>1, <2>1 DEF ParkInv, PositionInv
  <2>3. head \in 1 .. Len(stream) /\ Len(stream) \in Nat
    BY <1>1, <2>2 DEF IInv, TypeOK
  <2>4. \/ head < Len(stream) /\ Packets(head + 1, "wait", svc.ch, svc.req)
        \/ head = Len(stream) /\ enc.pc \in {"wait", "failing"} /\ Packets(head, "write", enc.ch, enc.s)
    BY <1>1, <2>2, <2>3 DEF ParkInv, PairInv, Packets
  <2> QED BY <2>2, <2>4 DEF Packets, Running, Current
<1>2. Init => ParkInv
  BY ParkInit
<1>3. IInv /\ IInv' /\ ParkInv /\ [Next]_vars => ParkInv'
  BY ParkStep
<1>4. IInv /\ ParkInv => ParkedDuringExchange
  BY <1>1
<1> QED BY <1>2, <1>3, <1>4, Invariance, PTL DEF Spec
=============================================================================
