------------------------------ MODULE SplitGate ------------------------------
(***************************************************************************)
(* Channel 1 of the ROCm gate runtime in its host-synchronous mode         *)
(* (ds4_rocm.cu).  There is no service thread and no GPU wait packet: the  *)
(* engine thread either exchanges a gate itself (ds4_tp_encode) or kicks   *)
(* it to the split worker and waits for its release word later             *)
(* (ds4_gpu_tp_big_gate_kick / _waves_kick / _wait).                       *)
(*                                                                         *)
(*   enc     the engine thread, single producer of the split queue         *)
(*   wk      ds4_tp_split_service_thread, its single consumer              *)
(*   GPU     finishes the producer kernels in order                        *)
(*                                                                         *)
(* Everything between a lock and its unlock is one step; the stores of     *)
(* ds4_tp_fail_release_gpu_waits, made under no lock, are a step each.     *)
(***************************************************************************)
EXTENDS Integers

CONSTANTS
  Queue,       (* DS4_TP_SPLIT_QUEUE: queued kicks (16 in the code)        *)
  Ring,        (* DS4_TP_RING: gates in flight (1024 in the code)          *)
  Width,       (* values of the release word: 2^64 in the code             *)
  WaveCounts,  (* waves a kick may ask for                                 *)
  Callers,     (* kinds of caller: TRUE waits for its kicks before it      *)
               (* encodes a gate, FALSE need not                           *)
  MayFail,     (* timeouts, HIP errors and transport failures happen       *)
  MaxSeq       (* bound of the model: gate sequence numbers                *)

ASSUME QueueAssumption == Queue \in Nat \ {0}
ASSUME RingAssumption == Ring \in Nat \ {0}
ASSUME SeqAssumption == MaxSeq \in Nat
ASSUME WidthAssumption == Width \in Nat /\ Width > MaxSeq + Ring + 1
ASSUME WaveAssumption == WaveCounts \subseteq 1 .. Ring - 1
ASSUME ModeAssumption == Callers \subseteq BOOLEAN /\ MayFail \in BOOLEAN

Terminal == Width - 1     \* UINT64_MAX
USub(a, b) == IF a >= b THEN a - b ELSE a - b + Width

Thread == {"enc", "wk"}

VARIABLES
  waits,      \* the engine waits for its kicks before it encodes a gate
  seq,        \* g_tp_chan[1].seq, the engine thread's counter
  word,       \* *g_tp_chan[1].cpu_flag, the release word
  failed,     \* g_tp_failed
  callbacks,  \* g_tp_big_fn and its siblings are set
  failing,    \* [Thread -> FailPc]: where a thread is in the failure release
  split,      \* g_tp_split_*: [started, run, head, count]
  items,      \* [0..Queue-1 -> [seq, waves]]: g_tp_split_queue
  produced,   \* last gate whose producer kernels the GPU has finished
  enc,        \* engine thread: [pc, s, waves, w]
  wk,         \* split worker: [pc, slot, wave, ok]
  linked,     \* the transport is not marked failed
  exchanged,  \* history: gates (waves) whose peer rows have arrived
  taken       \* history: gates the engine was told it may read

failVars == <<failed, callbacks, failing>>
encVars == <<seq, enc, taken>>
wkVars == <<wk>>
queueVars == <<split, items>>
linkVars == <<linked, exchanged>>
vars == <<waits, encVars, wkVars, failVars, queueVars, linkVars, word, produced>>

FailPc == {"out", "latch", "release", "stop", "returned"}
EncPc == {"idle", "pending", "number", "producer", "exchange", "kick", "start", "queue",
          "wait", "failing", "join", "done"}
WkPc == {"none", "take", "poll", "check", "exchange", "publish", "failing", "exited"}

Init ==
  /\ waits \in Callers
  /\ seq = 0 /\ word = 0 /\ produced = 0
  /\ failed = FALSE /\ callbacks = TRUE
  /\ failing = [t \in Thread |-> "out"]
  /\ split = [started |-> FALSE, run |-> FALSE, head |-> 0, count |-> 0]
  /\ items = [i \in 0 .. Queue - 1 |-> [seq |-> 0, waves |-> 1]]
  /\ enc = [pc |-> "idle", s |-> 0, waves |-> 1, w |-> 0]
  /\ wk = [pc |-> "none", slot |-> 0, wave |-> 0, ok |-> FALSE]
  /\ linked = TRUE /\ exchanged = {} /\ taken = {}

-----------------------------------------------------------------------------
(* ds4_tp_fail_release_gpu_waits, by either thread.                        *)

FailLatch(t) ==
  /\ failing[t] = "latch"
  /\ failed' = TRUE
  /\ failing' = [failing EXCEPT ![t] = "release"]
  /\ UNCHANGED <<word, callbacks>>

FailRelease(t) ==
  /\ failing[t] = "release"
  /\ word' = Terminal
  /\ failing' = [failing EXCEPT ![t] = "stop"]
  /\ UNCHANGED <<failed, callbacks>>

FailStop(t) ==
  /\ failing[t] = "stop"
  /\ callbacks' = FALSE
  /\ failing' = [failing EXCEPT ![t] = "returned"]
  /\ UNCHANGED <<word, failed>>

FailStep(t) ==
  /\ FailLatch(t) \/ FailRelease(t) \/ FailStop(t)
  /\ UNCHANGED <<encVars, wkVars, queueVars, linkVars, produced>>

EnterFail(t) ==
  /\ failing' = [failing EXCEPT ![t] = "latch"]
  /\ UNCHANGED <<failed, callbacks>>

LeaveFail(t) ==
  /\ failing[t] = "returned"
  /\ failing' = [failing EXCEPT ![t] = "out"]
  /\ UNCHANGED <<failed, callbacks>>

-----------------------------------------------------------------------------
(* The engine thread.  A call that fails enters the failure release; the   *)
(* engine drops the graph and goes on to its next call.                    *)

Goto(pc) == enc' = [enc EXCEPT !.pc = pc]
Idle == enc.pc = "idle"
Fails == Goto("failing") /\ EnterFail("enc")

EncFailed ==
  /\ enc.pc = "failing"
  /\ LeaveFail("enc")
  /\ Goto("idle")
  /\ UNCHANGED <<seq, taken, wkVars, queueVars, linkVars, word, produced>>

(* The gates the engine has kicked are behind it: it waited for the last   *)
(* one, or a call told it that the session is over.                        *)
NothingInFlight == seq = 0 \/ seq \in taken \/ failed

(* ds4_tp_encode on channel 1.                                             *)
Encode ==
  /\ Idle /\ seq < MaxSeq
  /\ waits => NothingInFlight
  /\ Goto("pending")
  /\ UNCHANGED <<seq, taken, wkVars, failVars, queueVars, linkVars, word, produced>>

(* Mutated form of CheckPending: the queue is not looked at.               *)
CheckPendingNever ==
  /\ enc.pc = "pending"
  /\ Goto("number")
  /\ UNCHANGED <<seq, taken, wkVars, failVars, queueVars, linkVars, word, produced>>

CheckPending ==
  /\ enc.pc = "pending"
  /\ IF split.count # 0 THEN Fails ELSE Goto("number") /\ UNCHANGED failVars
  /\ UNCHANGED <<seq, taken, wkVars, queueVars, linkVars, word, produced>>

Number ==
  /\ enc.pc = "number"
  /\ seq' = seq + 1
  /\ IF USub(seq + 1, word) >= Ring THEN Fails
     ELSE /\ enc' = [enc EXCEPT !.s = seq + 1, !.pc = IF failed THEN "idle" ELSE "producer"]
          /\ UNCHANGED failVars
  /\ UNCHANGED <<taken, wkVars, queueVars, linkVars, word, produced>>

(* The engine polls its own producer event, up to a deadline.              *)
ProducerReady ==
  /\ enc.pc = "producer"
  /\ produced >= enc.s
  /\ IF callbacks THEN Goto("exchange") /\ UNCHANGED failVars ELSE Fails
  /\ UNCHANGED <<seq, taken, wkVars, queueVars, linkVars, word, produced>>

ProducerTimeout ==
  /\ MayFail /\ enc.pc = "producer"
  /\ Fails
  /\ UNCHANGED <<seq, taken, wkVars, queueVars, linkVars, word, produced>>

ExchangeOk ==
  /\ enc.pc = "exchange" /\ linked
  /\ exchanged' = exchanged \cup {enc.s}
  /\ word' = enc.s
  /\ taken' = taken \cup {enc.s}
  /\ Goto("idle")
  /\ UNCHANGED <<seq, wkVars, failVars, queueVars, linked, produced>>

ExchangeFails ==
  /\ enc.pc = "exchange" /\ (MayFail \/ ~linked)
  /\ linked' = FALSE
  /\ Fails
  /\ UNCHANGED <<seq, taken, wkVars, queueVars, exchanged, word, produced>>

(* ds4_gpu_tp_big_gate_kick_impl.                                          *)
Kick(n) ==
  /\ Idle /\ seq + n <= MaxSeq
  /\ callbacks
  /\ enc' = [enc EXCEPT !.pc = "start", !.waves = n]
  /\ UNCHANGED <<seq, taken, wkVars, failVars, queueVars, linkVars, word, produced>>

(* ds4_tp_split_start.                                                     *)
StartWorker ==
  /\ enc.pc = "start"
  /\ Goto("queue")
  /\ IF split.started THEN UNCHANGED <<split, wk>>
     ELSE /\ split' = [started |-> TRUE, run |-> TRUE, head |-> 0, count |-> 0]
          /\ wk' = [wk EXCEPT !.pc = "take"]
  /\ UNCHANGED <<seq, taken, failVars, items, linkVars, word, produced>>

(* Mutated form of HasRoom: one entry too many.                            *)
HasRoomForOneMore == split.count <= Queue

HasRoom == split.count < Queue

Tail == (split.head + split.count) % Queue
Accepts == split.run /\ HasRoom /\ (split.count = 0 => word = seq)

QueueKick ==
  /\ enc.pc = "queue"
  /\ IF ~Accepts THEN Fails /\ UNCHANGED <<seq, queueVars>>
     ELSE /\ seq' = seq + enc.waves
          /\ IF USub(seq', word) >= Ring THEN Fails /\ UNCHANGED queueVars
             ELSE /\ items' = [items EXCEPT ![Tail] = [seq |-> seq', waves |-> enc.waves]]
                  /\ split' = [split EXCEPT !.count = @ + 1]
                  /\ Goto("idle")
                  /\ UNCHANGED failVars
  /\ UNCHANGED <<taken, wkVars, linkVars, word, produced>>

(* Creating or recording the producer event fails: the numbers are used.   *)
QueueKickEventFails ==
  /\ MayFail /\ enc.pc = "queue" /\ Accepts
  /\ seq' = seq + enc.waves
  /\ Fails
  /\ UNCHANGED <<taken, wkVars, queueVars, linkVars, word, produced>>

(* ds4_gpu_tp_big_gate_wait: the word is loaded, then the latch.           *)
Wait(s) ==
  /\ Idle /\ s \in 1 .. seq
  /\ enc' = [enc EXCEPT !.pc = "wait", !.s = s, !.w = word]
  /\ UNCHANGED <<seq, taken, wkVars, failVars, queueVars, linkVars, word, produced>>

Released == enc.w # Terminal /\ ~failed /\ enc.w >= enc.s

WaitChecks ==
  /\ enc.pc = "wait"
  /\ IF Released THEN taken' = taken \cup {enc.s} /\ Goto("idle")
     ELSE /\ UNCHANGED taken
          /\ IF failed \/ enc.w = Terminal THEN Goto("idle")
             ELSE enc' = [enc EXCEPT !.w = word]
  /\ UNCHANGED <<seq, wkVars, failVars, queueVars, linkVars, word, produced>>

WaitTimeout ==
  /\ MayFail /\ enc.pc = "wait"
  /\ Fails
  /\ UNCHANGED <<seq, taken, wkVars, queueVars, linkVars, word, produced>>

(* ds4_gpu_tp_shutdown.                                                    *)
Shutdown ==
  /\ Idle
  /\ split' = [split EXCEPT !.run = FALSE]
  /\ Goto("join")
  /\ UNCHANGED <<seq, taken, wkVars, failVars, items, linkVars, word, produced>>

Join ==
  /\ enc.pc = "join"
  /\ wk.pc \in {"none", "exited"}
  /\ split' = [split EXCEPT !.started = FALSE, !.head = 0, !.count = 0]
  /\ Goto("done")
  /\ UNCHANGED <<seq, taken, wkVars, failVars, items, linkVars, word, produced>>

-----------------------------------------------------------------------------
(* ds4_tp_split_service_thread.                                            *)

Item == items[wk.slot]
WkGoto(pc) == wk' = [wk EXCEPT !.pc = pc]

(* Mutated forms of Take: the worker leaves work behind when it is told to *)
(* stop; the worker does not see that it is told to stop.                  *)
TakeStopsAtOnce ==
  /\ wk.pc = "take"
  /\ split.count # 0 \/ ~split.run
  /\ wk' = IF split.run THEN [wk EXCEPT !.pc = "poll", !.slot = split.head, !.wave = 0]
                        ELSE [wk EXCEPT !.pc = "exited"]
  /\ UNCHANGED <<encVars, failVars, queueVars, linkVars, word, produced>>
TakeIgnoresRun ==
  /\ wk.pc = "take" /\ split.count # 0
  /\ wk' = [wk EXCEPT !.pc = "poll", !.slot = split.head, !.wave = 0]
  /\ UNCHANGED <<encVars, failVars, queueVars, linkVars, word, produced>>

Take ==
  /\ wk.pc = "take"
  /\ split.count # 0 \/ ~split.run
  /\ wk' = IF split.count # 0 THEN [wk EXCEPT !.pc = "poll", !.slot = split.head, !.wave = 0]
                              ELSE [wk EXCEPT !.pc = "exited"]
  /\ UNCHANGED <<encVars, failVars, queueVars, linkVars, word, produced>>

Poll ==
  /\ wk.pc = "poll"
  /\ produced >= Item.seq
  /\ WkGoto("check")
  /\ UNCHANGED <<encVars, failVars, queueVars, linkVars, word, produced>>

PollTimeout ==
  /\ MayFail /\ wk.pc = "poll"
  /\ wk' = [wk EXCEPT !.pc = "publish", !.ok = FALSE]
  /\ UNCHANGED <<encVars, failVars, queueVars, linkVars, word, produced>>

Check ==
  /\ wk.pc = "check"
  /\ IF ~failed /\ callbacks
       THEN WkGoto("exchange")
       ELSE wk' = [wk EXCEPT !.pc = "publish", !.ok = FALSE]
  /\ UNCHANGED <<encVars, failVars, queueVars, linkVars, word, produced>>

FirstSeq(item) == item.seq - item.waves + 1

(* Mutated form of WaveRelease: numbered from one past the first.          *)
WaveReleaseEarly(item, k) == FirstSeq(item) + k + 1

(* The wave callback: the rows of one wave have arrived.                   *)

WaveRelease(item, k) == FirstSeq(item) + k

Wave ==
  /\ wk.pc = "exchange" /\ linked
  /\ Item.waves > 1 /\ wk.wave < Item.waves
  /\ exchanged' = exchanged \cup {FirstSeq(Item) + wk.wave}
  /\ word' = WaveRelease(Item, wk.wave)
  /\ wk' = [wk EXCEPT !.wave = @ + 1]
  /\ UNCHANGED <<encVars, failVars, queueVars, linked, produced>>

WkExchangeOk ==
  /\ wk.pc = "exchange" /\ linked
  /\ Item.waves > 1 => wk.wave = Item.waves
  /\ exchanged' = exchanged \cup {Item.seq}
  /\ wk' = [wk EXCEPT !.pc = "publish", !.ok = TRUE]
  /\ UNCHANGED <<encVars, failVars, queueVars, linked, word, produced>>

WkExchangeFails ==
  /\ wk.pc = "exchange" /\ (MayFail \/ ~linked)
  /\ linked' = FALSE
  /\ wk' = [wk EXCEPT !.pc = "publish", !.ok = FALSE]
  /\ UNCHANGED <<encVars, failVars, queueVars, exchanged, word, produced>>

(* Mutated forms of Publish: the release word is not stored; a failed item *)
(* is dropped without a failure release.                                   *)
PublishWithoutWord ==
  /\ wk.pc = "publish" /\ wk.ok
  /\ split' = [split EXCEPT !.head = (@ + 1) % Queue, !.count = @ - 1]
  /\ WkGoto("take")
  /\ UNCHANGED <<encVars, failVars, items, linkVars, word, produced>>
PublishFailsSilently ==
  /\ wk.pc = "publish"
  /\ IF wk.ok THEN word' = Item.seq ELSE UNCHANGED word
  /\ split' = [split EXCEPT !.head = (@ + 1) % Queue, !.count = @ - 1]
  /\ WkGoto("take")
  /\ UNCHANGED <<encVars, failVars, items, linkVars, produced>>

(* The release word and the queue change under one lock; a failure empties *)
(* the queue, stops the worker, and is released after the unlock.          *)
Publish ==
  /\ wk.pc = "publish"
  /\ IF wk.ok
       THEN /\ word' = Item.seq
            /\ split' = [split EXCEPT !.head = (@ + 1) % Queue, !.count = @ - 1]
            /\ WkGoto("take")
            /\ UNCHANGED failVars
       ELSE /\ split' = [split EXCEPT !.head = (@ + 1) % Queue, !.count = 0, !.run = FALSE]
            /\ WkGoto("failing")
            /\ EnterFail("wk")
            /\ UNCHANGED word
  /\ UNCHANGED <<encVars, items, linkVars, produced>>

WkFailed ==
  /\ wk.pc = "failing"
  /\ LeaveFail("wk")
  /\ WkGoto("exited")
  /\ UNCHANGED <<encVars, queueVars, linkVars, word, produced>>

-----------------------------------------------------------------------------
(* The GPU finishes the kernels submitted before a gate, in order.         *)
Produce ==
  /\ produced < seq
  /\ produced' = produced + 1
  /\ UNCHANGED <<encVars, wkVars, failVars, queueVars, linkVars, word>>
-----------------------------------------------------------------------------
Continue ==   \* the engine thread inside a call
  \/ EncFailed \/ CheckPending \/ Number \/ ProducerReady \/ ExchangeOk
  \/ StartWorker \/ QueueKick \/ WaitChecks \/ Join

Call ==       \* the engine thread's next call
  \/ Encode \/ Shutdown
  \/ \E n \in WaveCounts : Kick(n)
  \/ \E s \in 1 .. MaxSeq : Wait(s)

Work == Take \/ Poll \/ Check \/ Wave \/ WkExchangeOk \/ Publish \/ WkFailed

Failure ==
  \/ ProducerTimeout \/ ExchangeFails \/ QueueKickEventFails \/ WaitTimeout
  \/ PollTimeout \/ WkExchangeFails

Step(A) == A /\ UNCHANGED waits

Next ==
  \/ Step(Call) \/ Step(Continue) \/ Step(Work) \/ Step(Failure) \/ Step(Produce)
  \/ \E t \in Thread : Step(FailStep(t))

Spec == Init /\ [][Next]_vars

(* A thread inside a call goes on, the GPU finishes what it was given, and *)
(* the transport answers or reports a failure.                             *)
Fairness ==
  /\ WF_vars(Step(Continue \/ ExchangeFails))
  /\ WF_vars(Step(Work \/ WkExchangeFails))
  /\ WF_vars(Step(Produce))
  /\ \A t \in Thread : WF_vars(Step(FailStep(t)))

FairSpec == Spec /\ Fairness

-----------------------------------------------------------------------------
(* Properties.                                                             *)

Slot == 0 .. Queue - 1

TypeOK ==
  /\ waits \in BOOLEAN
  /\ seq \in 0 .. MaxSeq /\ word \in 0 .. Width - 1 /\ produced \in 0 .. MaxSeq
  /\ failed \in BOOLEAN /\ callbacks \in BOOLEAN
  /\ failing \in [Thread -> FailPc]
  /\ split \in [started : BOOLEAN, run : BOOLEAN, head : Slot, count : 0 .. Queue]
  /\ items \in [Slot -> [seq : 0 .. MaxSeq, waves : 1 .. Ring]]
  /\ enc \in [pc : EncPc, s : 0 .. MaxSeq, waves : 1 .. Ring, w : 0 .. Width - 1]
  /\ wk \in [pc : WkPc, slot : Slot, wave : 0 .. Ring, ok : BOOLEAN]
  /\ linked \in BOOLEAN
  /\ exchanged \subseteq 1 .. MaxSeq /\ taken \subseteq 1 .. MaxSeq

(* The engine reads the peer's rows of a gate only when they are there,    *)
(* and those of every earlier gate: waiting on the last kick, or on a      *)
(* wave, covers all before it, whatever fails or times out meanwhile.      *)
TakenCoversEarlier == waits => \A s \in taken : 1 .. s \subseteq exchanged

(* The transport is entered for a gate only when every earlier gate of the *)
(* channel has been exchanged: no batch gate overtakes a split request.    *)
NoGateOvertaken ==
  /\ enc.pc = "exchange" => 1 .. enc.s - 1 \subseteq exchanged
  /\ wk.pc = "exchange" => 1 .. FirstSeq(Item) - 1 \subseteq exchanged

(* So it is for an engine that waits for its kicks, as the code's does.    *)
WaitingNeverOvertakes == waits => NoGateOvertaken

(* Bulk exchanges take no lock in the transport: the engine thread and the *)
(* split worker are never in one at the same time, whether or not the      *)
(* engine waits for its kicks.                                             *)
OneExchangeAtATime == ~(enc.pc = "exchange" /\ wk.pc = "exchange")

(* A kick that finds the queue empty finds the channel released: it never  *)
(* fails on the stale word of a gate that has just been exchanged.         *)
KickSeesRelease ==
  enc.pc = "queue" /\ split.run /\ split.count = 0 /\ ~failed => word = seq

(* Shutdown joins the worker after it has drained what was kicked.         *)
ShutdownDrains == enc.pc = "done" /\ ~failed => 1 .. seq \subseteq exchanged

(* A wait ends even when the gate it waits for was dropped by a failure,   *)
(* and so does the join: no call of the engine thread hangs on the worker. *)
WaitEnds == enc.pc = "wait" ~> enc.pc # "wait"
JoinEnds == enc.pc = "join" ~> enc.pc = "done"
CallsEnd == WaitEnds /\ JoinEnds
=============================================================================
