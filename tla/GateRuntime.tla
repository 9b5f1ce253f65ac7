----------------------------- MODULE GateRuntime -----------------------------
(***************************************************************************)
(* The ROCm tensor-parallel gate runtime of one rank (ds4_rocm.cu) in its  *)
(* HIP stream wait-value mode.  Three actors share plain memory words:     *)
(*                                                                         *)
(*   encoder   the engine thread: ds4_tp_encode numbers a gate, checks     *)
(*             that the request ring has room, and puts a write-value and  *)
(*             a wait-value packet on the one gate stream;                 *)
(*   GPU       executes the stream in order: the write publishes arrival   *)
(*             in gpu_flag, the wait parks until cpu_flag reaches the gate;*)
(*   service   ds4_tp_service_thread: pumps channel 0 (row gates) and      *)
(*             channel 1 (batch and big gates), calls the transport, and   *)
(*             publishes the release in cpu_flag.                          *)
(*                                                                         *)
(* A transport failure is terminal: ds4_tp_fail_release_gpu_waits latches  *)
(* it, releases both channels past every queued gate, removes the          *)
(* callbacks and stops the service loop.  Encoder and service may both be  *)
(* inside that function, so each of its stores is a step.                  *)
(***************************************************************************)
EXTENDS Integers, Sequences

CONSTANTS
  Ring,      (* DS4_TP_RING: request slots per channel (1024 in the code)  *)
  Width,     (* values of a release word: 2^64 in the code                 *)
  MaxGates   (* bound of the model: gates encoded                          *)

ASSUME RingAssumption == Ring \in Nat /\ Ring >= 2
ASSUME GatesAssumption == MaxGates \in Nat
ASSUME WidthAssumption == Width \in Nat /\ Width > MaxGates + Ring + 8

Chan == {0, 1}
Terminal == Width - 1          \* UINT64_MAX
DrainSlack == 8                \* "seq + 8" in the service thread's drain

(* Unsigned subtraction of two release-word values. *)
USub(a, b) == IF a >= b THEN a - b ELSE a - b + Width

Thread == {"encoder", "service"}

VARIABLES
  seq,        \* [Chan -> Nat]: c->seq, the encoder's counter
  ring,       \* [Chan -> [0..Ring-1 -> Nat]]: seq of the request in the slot
  gpu_flag,   \* [Chan -> Nat]: arrival word, written by the GPU
  cpu_flag,   \* [Chan -> 0..Width-1]: release word
  failed,     \* g_tp_failed
  callbacks,  \* g_tp_fn and its siblings are set
  run,        \* g_tp_run
  failing,    \* [Thread -> FailPc]: where a thread is in the failure release
  stream,     \* every packet ever put on the gate stream, in order
  head,       \* how many of them the GPU has completed
  enc,        \* encoder: [pc, ch, s]
  svc,        \* service thread: [pc, ch, req, arrived]
  next,       \* service thread: next gate to serve on each channel
  batch,      \* gates of the current graph whose encode returned 1
  batchOk,    \* every encode of the current graph returned 1
  exchanged,  \* history: gates whose transport callback succeeded
  accepted    \* history: gates of graphs whose result the engine used

encVars == <<enc, seq, batch, batchOk, accepted>>
svcVars == <<svc, next, exchanged>>
failVars == <<failed, callbacks, run, failing>>
gpuVars == <<stream, head, gpu_flag>>
vars == <<encVars, svcVars, failVars, gpuVars, ring, cpu_flag>>

Gate == Chan \X (1 .. MaxGates)
Packet == [op : {"write", "wait"}, ch : Chan, s : 1 .. MaxGates]
FailPc == {"out", "latch", "release0", "release1", "stop", "halt", "returned"}
EncPc == {"idle", "room", "overflow", "latch", "write", "wait", "failing", "join", "sync",
          "done"}
SvcPc == {"top", "pump", "call", "release", "failing", "load", "drain", "dead"}

Init ==
  /\ seq = [c \in Chan |-> 0]
  /\ ring = [c \in Chan |-> [i \in 0 .. Ring - 1 |-> 0]]
  /\ gpu_flag = [c \in Chan |-> 0]
  /\ cpu_flag = [c \in Chan |-> 0]
  /\ failed = FALSE /\ callbacks = TRUE /\ run = TRUE
  /\ failing = [t \in Thread |-> "out"]
  /\ stream = <<>> /\ head = 0
  /\ enc = [pc |-> "idle", ch |-> 0, s |-> 0]
  /\ svc = [pc |-> "top", ch |-> 0, req |-> 0, arrived |-> 0]
  /\ next = [c \in Chan |-> 1]
  /\ batch = {} /\ batchOk = TRUE
  /\ exchanged = {} /\ accepted = {}

-----------------------------------------------------------------------------
(* ds4_tp_fail_release_gpu_waits, called by either thread: one action per  *)
(* store, so that the other thread and the GPU may act in between.          *)

FailLatch(t) ==
  /\ failing[t] = "latch"
  /\ failed' = TRUE
  /\ failing' = [failing EXCEPT ![t] = "release0"]
  /\ UNCHANGED <<cpu_flag, callbacks, run>>

FailRelease(t, c) ==
  /\ failing[t] = IF c = 0 THEN "release0" ELSE "release1"
  /\ cpu_flag' = [cpu_flag EXCEPT ![c] = Terminal]
  /\ failing' = [failing EXCEPT ![t] = IF c = 0 THEN "release1" ELSE "stop"]
  /\ UNCHANGED <<failed, callbacks, run>>

(* Mutated form of FailStop: the callbacks stay in place.                  *)
FailStopKeepsCallbacks(t) ==
  /\ failing[t] = "stop"
  /\ failing' = [failing EXCEPT ![t] = "halt"]
  /\ UNCHANGED <<cpu_flag, failed, callbacks, run>>

FailStop(t) ==
  /\ failing[t] = "stop"
  /\ callbacks' = FALSE
  /\ failing' = [failing EXCEPT ![t] = "halt"]
  /\ UNCHANGED <<cpu_flag, failed, run>>

FailHalt(t) ==
  /\ failing[t] = "halt"
  /\ run' = FALSE
  /\ failing' = [failing EXCEPT ![t] = "returned"]
  /\ UNCHANGED <<cpu_flag, failed, callbacks>>

FailStep(t) ==
  /\ FailLatch(t) \/ (\E c \in Chan : FailRelease(t, c)) \/ FailStop(t) \/ FailHalt(t)
  /\ UNCHANGED <<encVars, svcVars, gpuVars, ring>>

(* Mutated form of EnterFail: the release words are stored before (without)*)
(* the latch.                                                              *)
EnterFailUnlatched(t) == failing' = [failing EXCEPT ![t] = "release0"]

(* A call of the function starts; the caller resumes once it returned.     *)
EnterFail(t) == failing' = [failing EXCEPT ![t] = "latch"]
LeaveFail(t) ==
  /\ failing[t] = "returned"
  /\ failing' = [failing EXCEPT ![t] = "out"]

-----------------------------------------------------------------------------
(* The encoder: ds4_tp_encode.                                             *)

(* The counter advances before anything can fail.                          *)
Submit(c) ==
  /\ enc.pc = "idle"
  /\ seq[0] + seq[1] < MaxGates
  /\ seq' = [seq EXCEPT ![c] = @ + 1]
  /\ enc' = [pc |-> "room", ch |-> c, s |-> seq[c] + 1]
  /\ UNCHANGED <<batch, batchOk, accepted, svcVars, failVars, gpuVars, ring, cpu_flag>>

(* Mutated form of HasRoom: the ring is taken to be large enough.          *)
HasRoomAlways(c, s) == TRUE

HasRoom(c, s) == USub(s, cpu_flag[c]) < Ring

WriteRequest ==
  /\ enc.pc = "room"
  /\ HasRoom(enc.ch, enc.s)
  /\ ring' = [ring EXCEPT ![enc.ch][enc.s % Ring] = enc.s]
  /\ enc' = [enc EXCEPT !.pc = "latch"]
  /\ UNCHANGED <<seq, batch, batchOk, accepted, svcVars, failVars, gpuVars, cpu_flag>>

Overflow ==
  /\ enc.pc = "room"
  /\ ~HasRoom(enc.ch, enc.s)
  /\ enc' = [enc EXCEPT !.pc = "overflow"]
  /\ EnterFail("encoder")
  /\ UNCHANGED <<seq, batch, batchOk, accepted, svcVars, gpuVars, failed, callbacks,
                 run, ring, cpu_flag>>

(* A latched failure refuses the gate before it reaches the stream.        *)
CheckLatch ==
  /\ enc.pc = "latch"
  /\ enc' = [enc EXCEPT !.pc = IF failed THEN "idle" ELSE "write"]
  /\ batchOk' = (batchOk /\ ~failed)
  /\ UNCHANGED <<seq, batch, accepted, svcVars, failVars, gpuVars, ring, cpu_flag>>

Enqueue(op) == stream' = Append(stream, [op |-> op, ch |-> enc.ch, s |-> enc.s])

EncodeWrite ==
  /\ enc.pc = "write"
  /\ Enqueue("write")
  /\ enc' = [enc EXCEPT !.pc = "wait"]
  /\ UNCHANGED <<seq, batch, batchOk, accepted, svcVars, failVars, head, gpu_flag,
                 ring, cpu_flag>>

EncodeWait ==
  /\ enc.pc = "wait"
  /\ Enqueue("wait")
  /\ enc' = [enc EXCEPT !.pc = "idle"]
  /\ batch' = batch \cup {<<enc.ch, enc.s>>}
  /\ UNCHANGED <<seq, batchOk, accepted, svcVars, failVars, head, gpu_flag, ring, cpu_flag>>

(* hipStreamWriteValue64 or hipStreamWaitValue64 refuses the packet.       *)
StreamError ==
  /\ enc.pc \in {"write", "wait"}
  /\ enc' = [enc EXCEPT !.pc = "failing"]
  /\ EnterFail("encoder")
  /\ UNCHANGED <<seq, batch, batchOk, accepted, svcVars, gpuVars, failed, callbacks,
                 run, ring, cpu_flag>>

(* ds4_tp_encode returns 0.                                                *)
EncodeFailed ==
  /\ enc.pc \in {"overflow", "failing"}
  /\ LeaveFail("encoder")
  /\ enc' = [enc EXCEPT !.pc = "idle"]
  /\ batchOk' = FALSE
  /\ UNCHANGED <<seq, batch, accepted, svcVars, gpuVars, failed, callbacks, run, ring,
                 cpu_flag>>

(* Mutated form of ResultUsable: only the encoder's own errors count.      *)
ResultUsableIfEncoded == batchOk

ResultUsable == batchOk /\ ~failed

(* The engine synchronises the stream at the end of a graph and uses the   *)
(* result unless an encode or ds4_gpu_tp_failed reports a failure.         *)
EndGraph ==
  /\ enc.pc = "idle"
  /\ batch # {} \/ ~batchOk
  /\ head = Len(stream)
  /\ accepted' = IF ResultUsable THEN accepted \cup batch ELSE accepted
  /\ batch' = {}
  /\ batchOk' = TRUE
  /\ UNCHANGED <<enc, seq, svcVars, failVars, gpuVars, ring, cpu_flag>>

(* ds4_gpu_tp_shutdown: stop the loop, join the thread, drain the device.  *)
Shutdown ==
  /\ enc.pc = "idle"
  /\ run' = FALSE
  /\ enc' = [enc EXCEPT !.pc = "join"]
  /\ UNCHANGED <<seq, batch, batchOk, accepted, svcVars, gpuVars, failed, callbacks,
                 failing, ring, cpu_flag>>

Join ==
  /\ enc.pc = "join"
  /\ svc.pc = "dead"
  /\ enc' = [enc EXCEPT !.pc = "sync"]
  /\ UNCHANGED <<seq, batch, batchOk, accepted, svcVars, failVars, gpuVars, ring, cpu_flag>>

DeviceSync ==
  /\ enc.pc = "sync"
  /\ head = Len(stream)
  /\ enc' = [enc EXCEPT !.pc = "done"]
  /\ callbacks' = FALSE
  /\ UNCHANGED <<seq, batch, batchOk, accepted, svcVars, gpuVars, failed, run, failing,
                 ring, cpu_flag>>

-----------------------------------------------------------------------------
(* The GPU executes the gate stream in order.                              *)

Running(op) == head < Len(stream) /\ stream[head + 1].op = op
Current == stream[head + 1]

GpuWrite ==
  /\ Running("write")
  /\ gpu_flag' = [gpu_flag EXCEPT ![Current.ch] = Current.s]
  /\ head' = head + 1
  /\ UNCHANGED <<encVars, svcVars, failVars, stream, ring, cpu_flag>>

(* Mutated form of Released: the previous release is enough.               *)
ReleasedEarly(c, s) == cpu_flag[c] >= s - 1

(* hipStreamWaitValueGte *)
Released(c, s) == cpu_flag[c] >= s

GpuWait ==
  /\ Running("wait")
  /\ Released(Current.ch, Current.s)
  /\ head' = head + 1
  /\ UNCHANGED <<encVars, svcVars, failVars, stream, gpu_flag, ring, cpu_flag>>

-----------------------------------------------------------------------------
(* The service thread: ds4_tp_service_thread and ds4_tp_pump.              *)

svcOnly == <<encVars, gpuVars, ring>>

(* while (g_tp_run): pump channel 0, then channel 1.                       *)
Top ==
  /\ svc.pc = "top"
  /\ svc' = [svc EXCEPT !.pc = IF run THEN "pump" ELSE "load", !.ch = 0]
  /\ UNCHANGED <<svcOnly, next, exchanged, failVars, cpu_flag>>

AfterPump == IF svc.ch = 0 THEN [svc EXCEPT !.pc = "pump", !.ch = 1]
                           ELSE [svc EXCEPT !.pc = "top"]

PumpIdle ==
  /\ svc.pc = "pump"
  /\ gpu_flag[svc.ch] < next[svc.ch]
  /\ svc' = AfterPump
  /\ UNCHANGED <<svcOnly, next, exchanged, failVars, cpu_flag>>

(* A gate has arrived: read its request and call the transport, or fail if *)
(* the callbacks are gone.                                                 *)
PumpArrived ==
  /\ svc.pc = "pump"
  /\ gpu_flag[svc.ch] >= next[svc.ch]
  /\ svc' = [svc EXCEPT !.pc = IF callbacks THEN "call" ELSE "failing",
                        !.req = ring[svc.ch][next[svc.ch] % Ring]]
  /\ IF callbacks THEN UNCHANGED failing ELSE EnterFail("service")
  /\ UNCHANGED <<svcOnly, next, exchanged, failed, callbacks, run, cpu_flag>>

CallbackOk ==
  /\ svc.pc = "call"
  /\ exchanged' = exchanged \cup {<<svc.ch, svc.req>>}
  /\ svc' = [svc EXCEPT !.pc = "release"]
  /\ UNCHANGED <<svcOnly, next, failVars, cpu_flag>>

CallbackFails ==
  /\ svc.pc = "call"
  /\ svc' = [svc EXCEPT !.pc = "failing"]
  /\ EnterFail("service")
  /\ UNCHANGED <<svcOnly, next, exchanged, failed, callbacks, run, cpu_flag>>

Release ==
  /\ svc.pc = "release"
  /\ cpu_flag' = [cpu_flag EXCEPT ![svc.ch] = next[svc.ch]]
  /\ next' = [next EXCEPT ![svc.ch] = @ + 1]
  /\ svc' = AfterPump
  /\ UNCHANGED <<svcOnly, exchanged, failVars>>

PumpFailed ==
  /\ svc.pc = "failing"
  /\ LeaveFail("service")
  /\ next' = [next EXCEPT ![svc.ch] = @ + 1]
  /\ svc' = AfterPump
  /\ UNCHANGED <<svcOnly, exchanged, failed, callbacks, run, cpu_flag>>

(* The drain after the loop: release what has arrived, then everything the *)
(* encoder may have queued.                                                *)
DrainLoad ==
  /\ svc.pc = "load"
  /\ svc' = [svc EXCEPT !.pc = "drain", !.arrived = gpu_flag[svc.ch]]
  /\ UNCHANGED <<svcOnly, next, exchanged, failVars, cpu_flag>>

DrainArrived ==
  /\ svc.pc = "drain"
  /\ next[svc.ch] <= svc.arrived
  /\ cpu_flag' = [cpu_flag EXCEPT ![svc.ch] = next[svc.ch]]
  /\ next' = [next EXCEPT ![svc.ch] = @ + 1]
  /\ UNCHANGED <<svcOnly, svc, exchanged, failVars>>

(* Mutated forms of DrainLevel: nothing beyond what has arrived, and the   *)
(* slack added to the release word instead of the counter.                 *)
DrainLevelArrived(c) == cpu_flag[c]
DrainLevelFromWord(c) == cpu_flag[c] + DrainSlack

DrainLevel(c) == seq[c] + DrainSlack

DrainQueued ==
  /\ svc.pc = "drain"
  /\ next[svc.ch] > svc.arrived
  /\ cpu_flag' = [cpu_flag EXCEPT ![svc.ch] = DrainLevel(svc.ch)]
  /\ svc' = IF svc.ch = 0 THEN [svc EXCEPT !.pc = "load", !.ch = 1]
                          ELSE [svc EXCEPT !.pc = "dead"]
  /\ UNCHANGED <<svcOnly, next, exchanged, failVars>>

-----------------------------------------------------------------------------
Encoder == (\E c \in Chan : Submit(c)) \/ WriteRequest \/ Overflow \/ CheckLatch
           \/ EncodeWrite \/ EncodeWait \/ StreamError \/ EncodeFailed \/ EndGraph
           \/ Shutdown \/ Join \/ DeviceSync
Gpu == GpuWrite \/ GpuWait
Service == Top \/ PumpIdle \/ PumpArrived \/ CallbackOk \/ CallbackFails \/ Release
           \/ PumpFailed \/ DrainLoad \/ DrainArrived \/ DrainQueued

Next == Encoder \/ Gpu \/ Service \/ (\E t \in Thread : FailStep(t))

Spec == Init /\ [][Next]_vars

(* The GPU executes packets whose condition holds; the service thread is   *)
(* scheduled, and a transport callback returns because its own timeout     *)
(* bounds it; a shutdown that started goes on.  Nobody is obliged to       *)
(* encode a gate, to end a graph or to shut down.                          *)
Fairness ==
  /\ WF_vars(Gpu)
  /\ WF_vars(Service)
  /\ WF_vars(FailStep("service"))
  /\ WF_vars(Join \/ DeviceSync)

FairSpec == Spec /\ Fairness

-----------------------------------------------------------------------------
(* Properties.                                                             *)

TypeOK ==
  /\ seq \in [Chan -> 0 .. MaxGates]
  /\ ring \in [Chan -> [0 .. Ring - 1 -> 0 .. MaxGates]]
  /\ gpu_flag \in [Chan -> 0 .. MaxGates]
  /\ cpu_flag \in [Chan -> 0 .. Terminal]
  /\ failed \in BOOLEAN /\ callbacks \in BOOLEAN /\ run \in BOOLEAN
  /\ failing \in [Thread -> FailPc]
  /\ stream \in Seq(Packet) /\ head \in 0 .. Len(stream)
  /\ enc \in [pc : EncPc, ch : Chan, s : 0 .. MaxGates]
  /\ svc \in [pc : SvcPc, ch : Chan, req : 0 .. MaxGates, arrived : 0 .. MaxGates]
  /\ next \in [Chan -> Nat]
  /\ batch \subseteq Gate /\ batchOk \in BOOLEAN
  /\ exchanged \subseteq Chan \X (0 .. MaxGates)
  /\ accepted \subseteq Gate

Passed(g) == \E i \in 1 .. head : stream[i] = [op |-> "wait", ch |-> g[1], s |-> g[2]]
Stopping == enc.pc \in {"join", "sync", "done"}

(* A gate's wait lets the combine kernel run only after the peer's half    *)
(* arrived, or once the failure is already visible to ds4_gpu_tp_failed:   *)
(* no release of the failure path overtakes its latch.                     *)
NoUnexchangedGatePasses ==
  \A c \in Chan, s \in 1 .. MaxGates :
    Passed(<<c, s>>) => <<c, s>> \in exchanged \/ failed \/ Stopping

(* A result the engine uses was computed from exchanged gates only,        *)
(* whichever thread failed and wherever in the graph it did.               *)
AcceptedGatesExchanged == accepted \subseteq exchanged

(* While the transport works on a gate, the GPU is parked at that gate (or *)
(* the encoder is about to enqueue its wait): the slab slot it sends from  *)
(* is not overwritten, and gates of both channels go to the peer in the    *)
(* order they were encoded.                                                *)
ParkedDuringExchange ==
  svc.pc = "call" /\ ~failed /\ ~Stopping =>
    LET gate == [ch |-> svc.ch, s |-> svc.req]
    IN \/ Running("wait") /\ Current.ch = gate.ch /\ Current.s = gate.s
       \/ head = Len(stream) /\ enc.pc \in {"wait", "failing"}
          /\ enc.ch = gate.ch /\ enc.s = gate.s

(* The service thread serves gate next[ch] with the request the encoder    *)
(* wrote for it: the ring never wraps over a request not yet served.       *)
RequestNotOverwritten ==
  svc.pc = "call" => svc.req = next[svc.ch]

(* Once a transport callback failed, no other callback starts on either    *)
(* channel, although the loop still looks at the other channel before it   *)
(* sees run = FALSE: each queued gate would cost another network timeout.  *)
NoCallbackAfterFailure ==
  [][svc.pc = "pump" /\ svc'.pc = "call" =>
       \A c \in Chan : \A s \in 1 .. next[c] - 1 : <<c, s>> \in exchanged]_vars

EveryWaitPasses ==
  \A c \in Chan, s \in 1 .. MaxGates :
    (\E i \in 1 .. Len(stream) : stream[i] = [op |-> "wait", ch |-> c, s |-> s])
      ~> Passed(<<c, s>>)

ShutdownEnds == enc.pc = "join" ~> enc.pc = "done"

(* Every wait put on the stream is passed, whether its exchange succeeds,  *)
(* fails, or never starts because another gate failed or the engine shuts  *)
(* down: the GPU is never left parked.  So a shutdown ends: the service    *)
(* thread sees run = FALSE, drains, and the device has nothing to wait for.*)
NothingStaysParked == EveryWaitPasses /\ ShutdownEnds

-----------------------------------------------------------------------------
(* The inductive invariant behind the safety properties.                   *)

(* Gates whose request is in the ring, or was before the ring moved on.    *)
Written ==
  [c \in Chan |-> IF enc.ch = c /\ enc.pc \in {"room", "overflow"} THEN seq[c] - 1 ELSE seq[c]]

Draining == svc.pc \in {"load", "drain", "dead"}

(* Where the two threads can be, given the failure words.                  *)
ControlInv ==
  /\ enc.s = seq[enc.ch]
  /\ enc.pc \in {"room", "overflow", "latch", "write", "wait"} => enc.s >= 1
  /\ enc.pc \in {"overflow", "failing"} <=> failing["encoder"] # "out"
  /\ svc.pc = "failing" <=> failing["service"] # "out"
  /\ \A t \in Thread : failing[t] \notin {"out", "latch"} => failed
  /\ \A t \in Thread : failing[t] \in {"halt", "returned"} => ~callbacks
  /\ failed /\ callbacks => \E t \in Thread : failing[t] \in {"release0", "release1", "stop"}
  /\ ~callbacks => failed \/ enc.pc = "done"
  /\ ~run => failed \/ Stopping
  /\ Draining => ~run
  /\ enc.pc \in {"sync", "done"} => svc.pc = "dead"

(* Arrival never runs ahead of the requests written.                       *)
ArrivalInv ==
  /\ \A i \in 1 .. Len(stream) : stream[i].s <= Written[stream[i].ch]
  /\ \A c \in Chan : gpu_flag[c] <= Written[c]
  /\ \A c \in Chan : ~Draining => 1 <= next[c] /\ next[c] <= Written[c] + 1
  /\ svc.pc \in {"call", "release", "failing"} => next[svc.ch] <= Written[svc.ch]

(* The ring holds the request of every gate not yet served.                *)
RingInv ==
  callbacks /\ ~Draining /\ (failed => failing["service"] = "out") =>
    \A c \in Chan : \A s \in next[c] .. Written[c] : ring[c][s % Ring] = s

ServedInv ==
  /\ svc.pc = "call" => svc.req = next[svc.ch]
  /\ svc.pc = "release" => <<svc.ch, next[svc.ch]>> \in exchanged
  /\ callbacks /\ ~Draining =>
       \A c \in Chan : \A s \in 1 .. next[c] - 1 : <<c, s>> \in exchanged
  /\ ~failed /\ ~Stopping => \A c \in Chan : cpu_flag[c] < next[c]

BatchInv ==
  \A g \in batch : \E i \in 1 .. Len(stream) :
    stream[i] = [op |-> "wait", ch |-> g[1], s |-> g[2]]

IInv ==
  /\ TypeOK /\ ControlInv /\ ArrivalInv /\ RingInv /\ ServedInv /\ BatchInv
  /\ NoUnexchangedGatePasses /\ AcceptedGatesExchanged
=============================================================================
