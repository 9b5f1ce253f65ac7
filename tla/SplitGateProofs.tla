--------------------------- MODULE SplitGateProofs ---------------------------
(***************************************************************************)
(* Proofs about the split gate queue for any queue and ring size, wave     *)
(* counts and word width.  The queued kicks are consecutive intervals of   *)
(* the channel's gate numbers: everything before the first has been        *)
(* exchanged, and as long as nothing has failed the last one ends at the   *)
(* channel's counter.  From that follow the order of the exchanges, what   *)
(* the release word stands for and what a shutdown leaves behind.          *)
(***************************************************************************)
EXTENDS SplitGate, TLAPS

(* The kicks that wait, oldest first, and the first gate of each.          *)
Queued(i) == items[(split.head + i) % Queue]
First(i) == Queued(i).seq - Queued(i).waves + 1

Working == wk.pc \in {"poll", "check", "exchange", "publish"}
Encoding == enc.pc \in {"producer", "exchange"}

(* Somebody has failed: the latch is set or is about to be.                *)
Broken == failed \/ \E t \in Thread : failing[t] = "latch"

(* The failure release sets the latch first and the callbacks last, and a  *)
(* worker that fails has stopped the queue before.                         *)
FailInv ==
  /\ \A t \in Thread : failing[t] \in {"release", "stop", "returned"} => failed
  /\ \A t \in Thread : failing[t] = "returned" => ~callbacks
  /\ ~callbacks => failed
  /\ failing["enc"] = "out" <=> enc.pc # "failing"
  /\ failing["wk"] = "out" <=> wk.pc # "failing"
  /\ wk.pc = "failing" => ~split.run
  /\ Broken /\ callbacks /\ enc.pc \notin {"failing", "done"} => split.started /\ ~split.run
  /\ Broken /\ enc.pc \in {"start", "queue"} => split.started /\ ~split.run

(* Where the two threads are, and what the engine's counter has room for.  *)
ThreadInv ==
  /\ ~split.started /\ enc.pc # "done" => wk.pc = "none" /\ split.count = 0
  /\ enc.pc = "queue" => split.started
  /\ split.started => wk.pc # "none"
  /\ wk.pc = "none" => split.count = 0
  /\ wk.pc = "exited" => ~split.run /\ (failed \/ split.count = 0)
  /\ enc.pc = "done" => wk.pc \in {"none", "exited"} /\ split.count = 0
  /\ enc.pc \in {"join", "done"} => ~split.run
  /\ Working => split.count > 0 /\ wk.slot = split.head
  /\ enc.pc = "number" \/ Encoding => split.count = 0
  /\ Encoding => enc.s = seq /\ seq >= 1
  /\ enc.pc \in {"pending", "number"} => seq < MaxSeq
  /\ enc.pc \in {"start", "queue"} => seq + enc.waves <= MaxSeq
  /\ enc.pc = "wait" => enc.s >= 1
  /\ produced <= seq
  /\ word <= MaxSeq \/ word = Terminal

QueueInv ==
  /\ \A i \in 0 .. split.count - 1 : First(i) >= 1
  /\ \A i \in 0 .. split.count - 2 : First(i + 1) = Queued(i).seq + 1
  /\ split.count > 0 => 1 .. First(0) - 1 \subseteq exchanged
  /\ split.count > 0 /\ ~Broken => Queued(split.count - 1).seq = seq

(* What the worker has exchanged of the kick it works on.                  *)
WorkerInv ==
  /\ wk.pc \in {"poll", "check"} => wk.wave = 0
  /\ wk.pc = "exchange" =>
       /\ wk.wave <= Queued(0).waves
       /\ 1 .. First(0) - 1 + wk.wave \subseteq exchanged
  /\ wk.pc = "publish" /\ wk.ok => 1 .. Queued(0).seq \subseteq exchanged

(* What the release word stands for.                                       *)
WordInv ==
  /\ ~Broken /\ split.count = 0 /\ ~Encoding => word = seq
  /\ word # Terminal /\ (waits \/ ~Broken) => 1 .. word \subseteq exchanged
  /\ Encoding /\ (waits \/ ~Broken) => 1 .. enc.s - 1 \subseteq exchanged
  /\ waits /\ enc.pc \in {"pending", "number"} => NothingInFlight
  /\ waits /\ enc.pc = "wait" /\ enc.w # Terminal => 1 .. enc.w \subseteq exchanged

IInv == TypeOK /\ FailInv /\ ThreadInv /\ QueueInv /\ WorkerInv /\ WordInv /\ TakenCoversEarlier

-----------------------------------------------------------------------------
(* Constants, and places in the circular queue.                            *)

LEMMA ConstantTypes ==
  /\ Queue \in Nat /\ Queue > 0 /\ Ring \in Nat /\ Ring > 0 /\ MaxSeq \in Nat
  /\ Width \in Nat /\ Terminal \in Nat /\ Terminal > MaxSeq + Ring /\ Terminal \in 0 .. Width - 1
  /\ WaveCounts \subseteq 1 .. Ring - 1 /\ WaveCounts \subseteq 1 .. Ring
  /\ WaveCounts \subseteq Nat \ {0}
  /\ Callers \subseteq BOOLEAN /\ MayFail \in BOOLEAN
<1>1. Queue \in Nat /\ Queue > 0 /\ Ring \in Nat /\ Ring > 0 /\ MaxSeq \in Nat
  BY QueueAssumption, RingAssumption, SeqAssumption
<1>2. Width \in Nat /\ Terminal \in Nat /\ Terminal > MaxSeq + Ring /\ Terminal \in 0 .. Width - 1
  BY <1>1, WidthAssumption DEF Terminal
<1>3. WaveCounts \subseteq 1 .. Ring - 1 /\ WaveCounts \subseteq 1 .. Ring /\ WaveCounts \subseteq Nat \ {0}
  BY <1>1, WaveAssumption
<1> QED BY <1>1, <1>2, <1>3, ModeAssumption

LEMMA Place ==
  ASSUME NEW h \in Slot, NEW i \in 0 .. Queue
  PROVE  /\ (h + i) % Queue = IF h + i < Queue THEN h + i ELSE h + i - Queue
         /\ (h + i) % Queue \in Slot
BY ConstantTypes DEF Slot

(* A slot further on is another slot, as long as the queue is not full.    *)
LEMMA PlacesDiffer ==
  ASSUME NEW h \in Slot, NEW i \in 0 .. Queue - 1, NEW j \in 0 .. Queue - 1, i # j
  PROVE  (h + i) % Queue # (h + j) % Queue
<1>1. i \in 0 .. Queue /\ j \in 0 .. Queue
  BY ConstantTypes
<1> QED BY <1>1, Place, ConstantTypes DEF Slot

(* The place that follows, seen from the slot after the head.              *)
LEMMA PlaceAfter ==
  ASSUME NEW h \in Slot, NEW i \in 0 .. Queue - 1
  PROVE  /\ (h + 1) % Queue \in Slot
         /\ (((h + 1) % Queue) + i) % Queue = (h + (i + 1)) % Queue
<1>1. 1 \in 0 .. Queue /\ i \in 0 .. Queue /\ i + 1 \in 0 .. Queue
  BY ConstantTypes
<1>2. (h + 1) % Queue \in Slot
  BY <1>1, Place
<1>3. (h + 1) % Queue = IF h + 1 < Queue THEN h + 1 ELSE h + 1 - Queue
  BY <1>1, Place
<1>4. (((h + 1) % Queue) + i) % Queue
        = IF ((h + 1) % Queue) + i < Queue THEN ((h + 1) % Queue) + i ELSE ((h + 1) % Queue) + i - Queue
  BY <1>1, <1>2, Place
<1>5. (h + (i + 1)) % Queue = IF h + (i + 1) < Queue THEN h + (i + 1) ELSE h + (i + 1) - Queue
  BY <1>1, Place
<1> QED BY <1>2, <1>3, <1>4, <1>5, ConstantTypes DEF Slot

LEMMA HeadPlace == ASSUME NEW h \in Slot PROVE (h + 0) % Queue = h
BY Place, ConstantTypes DEF Slot

-----------------------------------------------------------------------------
(* What steps that leave most of the state alone keep.                     *)

QueueTyped ==
  /\ split \in [started : BOOLEAN, run : BOOLEAN, head : Slot, count : 0 .. Queue]
  /\ items \in [Slot -> [seq : 0 .. MaxSeq, waves : 1 .. Ring]]

LEMMA QueuedTyped ==
  ASSUME QueueTyped, NEW i \in 0 .. Queue
  PROVE  /\ Queued(i).seq \in 0 .. MaxSeq /\ Queued(i).seq \in Int
         /\ Queued(i).waves \in 1 .. Ring /\ Queued(i).waves \in Int
         /\ First(i) \in Int
<1>1. split.head \in Slot
  BY DEF QueueTyped
<1>2. Queued(i) \in [seq : 0 .. MaxSeq, waves : 1 .. Ring]
  BY <1>1, Place DEF QueueTyped, Queued
<1> QED BY <1>2, ConstantTypes DEF First

(* The queue stays as it is, more gates may have been exchanged, and the   *)
(* counter moves only with a failure.                                      *)
LEMMA QueueFrame ==
  ASSUME QueueInv, split'.head = split.head, split'.count = split.count, items' = items,
         exchanged \subseteq exchanged', Broken => Broken', ~Broken' /\ split.count > 0 => seq' = seq
  PROVE  QueueInv'
<1>1. \A i : Queued(i)' = Queued(i) /\ First(i)' = First(i)
  BY DEF Queued, First
<1> QED BY <1>1 DEF QueueInv

LEMMA WorkerFrame ==
  ASSUME WorkerInv, wk' = wk, Working => split'.head = split.head, exchanged \subseteq exchanged',
         Working => items'[(split.head + 0) % Queue] = items[(split.head + 0) % Queue]
  PROVE  WorkerInv'
<1>1. Working => Queued(0)' = Queued(0) /\ First(0)' = First(0)
  BY DEF Queued, First
<1> QED BY <1>1 DEF WorkerInv, Working

LEMMA TakenFrame ==
  ASSUME TakenCoversEarlier, waits' = waits, taken' = taken, exchanged \subseteq exchanged'
  PROVE  TakenCoversEarlier'
BY DEF TakenCoversEarlier

-----------------------------------------------------------------------------
(* One lemma per step: each conjunct of the invariant in turn.             *)

LEMMA InvEncFailed == ASSUME IInv, Step(EncFailed) PROVE IInv'
<1> USE DEF IInv, Step, EncFailed, LeaveFail, Goto, failVars, encVars, wkVars, queueVars, linkVars
<1> USE ConstantTypes
<1>1. TypeOK'
  BY DEF TypeOK, EncPc, WkPc, FailPc, Thread
<1>2. FailInv'
  BY DEF FailInv, Broken, Thread, TypeOK, ThreadInv, FailPc
<1>3. ThreadInv'
  BY DEF ThreadInv, Working, Encoding, TypeOK
<1>4. QueueInv'
  BY QueueFrame DEF Broken, Thread, FailInv, TypeOK
<1>5. WorkerInv'
  BY WorkerFrame DEF WorkerInv, Queued, First
<1>6. WordInv'
  BY DEF WordInv, Broken, Thread, Encoding, TypeOK, FailInv, ThreadInv, NothingInFlight, TakenCoversEarlier
<1>7. TakenCoversEarlier'
  BY TakenFrame
<1> QED BY <1>1, <1>2, <1>3, <1>4, <1>5, <1>6, <1>7

LEMMA InvEncode == ASSUME IInv, Step(Encode) PROVE IInv'
<1> USE DEF IInv, Step, Encode, Goto, Idle, failVars, encVars, wkVars, queueVars, linkVars
<1> USE ConstantTypes
<1>1. TypeOK'
  BY DEF TypeOK, EncPc, WkPc, FailPc, Thread
<1>2. FailInv'
  BY DEF FailInv, Broken, Thread, TypeOK, ThreadInv, FailPc
<1>3. ThreadInv'
  BY DEF ThreadInv, Working, Encoding, TypeOK
<1>4. QueueInv'
  BY QueueFrame DEF Broken, Thread, FailInv, TypeOK
<1>5. WorkerInv'
  BY WorkerFrame DEF WorkerInv, Queued, First
<1>6. WordInv'
  BY DEF WordInv, Broken, Thread, Encoding, TypeOK, FailInv, ThreadInv, NothingInFlight, TakenCoversEarlier
<1>7. TakenCoversEarlier'
  BY TakenFrame
<1> QED BY <1>1, <1>2, <1>3, <1>4, <1>5, <1>6, <1>7

LEMMA InvCheckPending == ASSUME IInv, Step(CheckPending) PROVE IInv'
<1> USE DEF IInv, Step, CheckPending, Fails, EnterFail, Goto, failVars, encVars, wkVars, queueVars, linkVars
<1> USE ConstantTypes
<1>1. TypeOK'
  BY DEF TypeOK, EncPc, WkPc, FailPc, Thread
<1>2. FailInv'
  BY DEF FailInv, Broken, Thread, TypeOK, ThreadInv, FailPc
<1>3. ThreadInv'
  BY DEF ThreadInv, Working, Encoding, TypeOK
<1>4. QueueInv'
  BY QueueFrame DEF Broken, Thread, FailInv, TypeOK
<1>5. WorkerInv'
  BY WorkerFrame DEF WorkerInv, Queued, First
<1>6. WordInv'
  BY DEF WordInv, Broken, Thread, Encoding, TypeOK, FailInv, ThreadInv, NothingInFlight, TakenCoversEarlier
<1>7. TakenCoversEarlier'
  BY TakenFrame
<1> QED BY <1>1, <1>2, <1>3, <1>4, <1>5, <1>6, <1>7

LEMMA InvProducerReady == ASSUME IInv, Step(ProducerReady) PROVE IInv'
<1> USE DEF IInv, Step, ProducerReady, Fails, EnterFail, Goto, failVars, encVars, wkVars, queueVars, linkVars
<1> USE ConstantTypes
<1>1. TypeOK'
  BY DEF TypeOK, EncPc, WkPc, FailPc, Thread
<1>2. FailInv'
  BY DEF FailInv, Broken, Thread, TypeOK, ThreadInv, FailPc
<1>3. ThreadInv'
  BY DEF ThreadInv, Working, Encoding, TypeOK
<1>4. QueueInv'
  BY QueueFrame DEF Broken, Thread, FailInv, TypeOK
<1>5. WorkerInv'
  BY WorkerFrame DEF WorkerInv, Queued, First
<1>6. WordInv'
  BY DEF WordInv, Broken, Thread, Encoding, TypeOK, FailInv, ThreadInv, NothingInFlight, TakenCoversEarlier
<1>7. TakenCoversEarlier'
  BY TakenFrame
<1> QED BY <1>1, <1>2, <1>3, <1>4, <1>5, <1>6, <1>7

LEMMA InvProducerTimeout == ASSUME IInv, Step(ProducerTimeout) PROVE IInv'
<1> USE DEF IInv, Step, ProducerTimeout, Fails, EnterFail, Goto, failVars, encVars, wkVars, queueVars, linkVars
<1> USE ConstantTypes
<1>1. TypeOK'
  BY DEF TypeOK, EncPc, WkPc, FailPc, Thread
<1>2. FailInv'
  BY DEF FailInv, Broken, Thread, TypeOK, ThreadInv, FailPc
<1>3. ThreadInv'
  BY DEF ThreadInv, Working, Encoding, TypeOK
<1>4. QueueInv'
  BY QueueFrame DEF Broken, Thread, FailInv, TypeOK
<1>5. WorkerInv'
  BY WorkerFrame DEF WorkerInv, Queued, First
<1>6. WordInv'
  BY DEF WordInv, Broken, Thread, Encoding, TypeOK, FailInv, ThreadInv, NothingInFlight, TakenCoversEarlier
<1>7. TakenCoversEarlier'
  BY TakenFrame
<1> QED BY <1>1, <1>2, <1>3, <1>4, <1>5, <1>6, <1>7

LEMMA InvExchangeFails == ASSUME IInv, Step(ExchangeFails) PROVE IInv'
<1> USE DEF IInv, Step, ExchangeFails, Fails, EnterFail, Goto, failVars, encVars, wkVars, queueVars, linkVars
<1> USE ConstantTypes
<1>1. TypeOK'
  BY DEF TypeOK, EncPc, WkPc, FailPc, Thread
<1>2. FailInv'
  BY DEF FailInv, Broken, Thread, TypeOK, ThreadInv, FailPc
<1>3. ThreadInv'
  BY DEF ThreadInv, Working, Encoding, TypeOK
<1>4. QueueInv'
  BY QueueFrame DEF Broken, Thread, FailInv, TypeOK
<1>5. WorkerInv'
  BY WorkerFrame DEF WorkerInv, Queued, First
<1>6. WordInv'
  BY DEF WordInv, Broken, Thread, Encoding, TypeOK, FailInv, ThreadInv, NothingInFlight, TakenCoversEarlier
<1>7. TakenCoversEarlier'
  BY TakenFrame
<1> QED BY <1>1, <1>2, <1>3, <1>4, <1>5, <1>6, <1>7

LEMMA InvStartWorker == ASSUME IInv, Step(StartWorker) PROVE IInv'
<1> USE DEF IInv, Step, StartWorker, Goto, failVars, encVars, wkVars, queueVars, linkVars
<1> USE ConstantTypes
<1>1. TypeOK'
  <2>1. 0 \in Slot /\ 0 \in 0 .. Queue
    BY DEF Slot
  <2>2. split' \in [started : BOOLEAN, run : BOOLEAN, head : Slot, count : 0 .. Queue]
    <3>1. CASE split.started
      BY <3>1 DEF TypeOK
    <3>2. CASE ~split.started
      <4>1. split' = [started |-> TRUE, run |-> TRUE, head |-> 0, count |-> 0]
        BY <3>2
      <4> QED BY <2>1, <4>1
    <3> QED BY <3>1, <3>2
  <2>3. wk' \in [pc : WkPc, slot : Slot, wave : 0 .. Ring, ok : BOOLEAN]
    BY DEF TypeOK, WkPc
  <2> QED BY <2>2, <2>3 DEF TypeOK, EncPc, WkPc, FailPc, Thread
<1>2. FailInv'
  BY DEF FailInv, Broken, Thread, TypeOK, ThreadInv, FailPc
<1>3. ThreadInv'
  BY DEF ThreadInv, Working, Encoding, TypeOK
<1>4. QueueInv'
  <2>1. CASE split.started
    BY <2>1, QueueFrame DEF Broken, Thread, FailInv, TypeOK
  <2>2. CASE ~split.started
    <3>1. split'.count = 0
      BY <2>2
    <3> QED BY <3>1 DEF QueueInv
  <2> QED BY <2>1, <2>2
<1>5. WorkerInv'
  <2>1. CASE split.started
    BY <2>1, WorkerFrame DEF Working
  <2>2. CASE ~split.started
    BY <2>2 DEF WorkerInv, TypeOK
  <2> QED BY <2>1, <2>2
<1>6. WordInv'
  BY DEF WordInv, Broken, Thread, Encoding, TypeOK, FailInv, ThreadInv, NothingInFlight, TakenCoversEarlier
<1>7. TakenCoversEarlier'
  BY TakenFrame
<1> QED BY <1>1, <1>2, <1>3, <1>4, <1>5, <1>6, <1>7

LEMMA InvWaitChecks == ASSUME IInv, Step(WaitChecks) PROVE IInv'
<1> USE DEF IInv, Step, WaitChecks, Goto, Released, failVars, encVars, wkVars, queueVars, linkVars
<1> USE ConstantTypes
<1>1. TypeOK'
  <2>1. enc.s \in 1 .. MaxSeq
    BY DEF TypeOK, ThreadInv
  <2>2. enc' \in [pc : EncPc, s : 0 .. MaxSeq, waves : 1 .. Ring, w : 0 .. Width - 1]
    BY DEF TypeOK, EncPc
  <2> QED BY <2>1, <2>2 DEF TypeOK, EncPc, WkPc, FailPc, Thread
<1>2. FailInv'
  BY DEF FailInv, Broken, Thread, TypeOK, ThreadInv, FailPc
<1>3. ThreadInv'
  BY DEF ThreadInv, Working, Encoding, TypeOK
<1>4. QueueInv'
  BY QueueFrame DEF Broken, Thread, FailInv, TypeOK
<1>5. WorkerInv'
  BY WorkerFrame DEF WorkerInv, Queued, First
<1>6. WordInv'
  BY DEF WordInv, Broken, Thread, Encoding, TypeOK, FailInv, ThreadInv, NothingInFlight, TakenCoversEarlier
<1>7. TakenCoversEarlier'
  BY DEF WordInv, TakenCoversEarlier, TypeOK, ThreadInv
<1> QED BY <1>1, <1>2, <1>3, <1>4, <1>5, <1>6, <1>7

LEMMA InvWaitTimeout == ASSUME IInv, Step(WaitTimeout) PROVE IInv'
<1> USE DEF IInv, Step, WaitTimeout, Fails, EnterFail, Goto, failVars, encVars, wkVars, queueVars, linkVars
<1> USE ConstantTypes
<1>1. TypeOK'
  BY DEF TypeOK, EncPc, WkPc, FailPc, Thread
<1>2. FailInv'
  BY DEF FailInv, Broken, Thread, TypeOK, ThreadInv, FailPc
<1>3. ThreadInv'
  BY DEF ThreadInv, Working, Encoding, TypeOK
<1>4. QueueInv'
  BY QueueFrame DEF Broken, Thread, FailInv, TypeOK
<1>5. WorkerInv'
  BY WorkerFrame DEF WorkerInv, Queued, First
<1>6. WordInv'
  BY DEF WordInv, Broken, Thread, Encoding, TypeOK, FailInv, ThreadInv, NothingInFlight, TakenCoversEarlier
<1>7. TakenCoversEarlier'
  BY TakenFrame
<1> QED BY <1>1, <1>2, <1>3, <1>4, <1>5, <1>6, <1>7

LEMMA InvShutdown == ASSUME IInv, Step(Shutdown) PROVE IInv'
<1> USE DEF IInv, Step, Shutdown, Goto, Idle, failVars, encVars, wkVars, queueVars, linkVars
<1> USE ConstantTypes
<1>1. TypeOK'
  BY DEF TypeOK, EncPc, WkPc, FailPc, Thread
<1>2. FailInv'
  BY DEF FailInv, Broken, Thread, TypeOK, ThreadInv, FailPc
<1>3. ThreadInv'
  BY DEF ThreadInv, Working, Encoding, TypeOK
<1>4. QueueInv'
  BY QueueFrame DEF Broken, Thread, FailInv, TypeOK
<1>5. WorkerInv'
  BY WorkerFrame DEF WorkerInv, Queued, First
<1>6. WordInv'
  BY DEF WordInv, Broken, Thread, Encoding, TypeOK, FailInv, ThreadInv, NothingInFlight, TakenCoversEarlier
<1>7. TakenCoversEarlier'
  BY TakenFrame
<1> QED BY <1>1, <1>2, <1>3, <1>4, <1>5, <1>6, <1>7

LEMMA InvJoin == ASSUME IInv, Step(Join) PROVE IInv'
<1> USE DEF IInv, Step, Join, Goto, failVars, encVars, wkVars, queueVars, linkVars
<1> USE ConstantTypes
<1>1. TypeOK'
  <2>1. 0 \in Slot /\ 0 \in 0 .. Queue
    BY DEF Slot
  <2>2. split' \in [started : BOOLEAN, run : BOOLEAN, head : Slot, count : 0 .. Queue]
    BY <2>1 DEF TypeOK
  <2> QED BY <2>2 DEF TypeOK, EncPc, WkPc, FailPc, Thread
<1>2. FailInv'
  BY DEF FailInv, Broken, Thread, TypeOK, ThreadInv, FailPc
<1>3. ThreadInv'
  BY DEF ThreadInv, Working, Encoding, TypeOK
<1>4. QueueInv'
  <2>1. split'.count = 0
    BY DEF TypeOK
  <2> QED BY <2>1 DEF QueueInv
<1>5. WorkerInv'
  BY WorkerFrame DEF WorkerInv, Queued, First
<1>6. WordInv'
  BY DEF WordInv, Broken, Thread, Encoding, TypeOK, FailInv, ThreadInv, NothingInFlight, TakenCoversEarlier
<1>7. TakenCoversEarlier'
  BY TakenFrame
<1> QED BY <1>1, <1>2, <1>3, <1>4, <1>5, <1>6, <1>7

LEMMA InvTake == ASSUME IInv, Step(Take) PROVE IInv'
<1> USE DEF IInv, Step, Take, WkGoto, failVars, encVars, wkVars, queueVars, linkVars
<1> USE ConstantTypes
<1>1. TypeOK'
  <2>1. 0 \in 0 .. Ring
    OBVIOUS
  <2> QED BY <2>1 DEF TypeOK, EncPc, WkPc, FailPc, Thread
<1>2. FailInv'
  BY DEF FailInv, Broken, Thread, TypeOK, ThreadInv, FailPc
<1>3. ThreadInv'
  BY DEF ThreadInv, Working, Encoding, TypeOK
<1>4. QueueInv'
  BY QueueFrame DEF Broken, Thread, FailInv, TypeOK
<1>5. WorkerInv'
  BY WorkerFrame DEF WorkerInv, Queued, First
<1>6. WordInv'
  BY DEF WordInv, Broken, Thread, Encoding, TypeOK, FailInv, ThreadInv, NothingInFlight, TakenCoversEarlier
<1>7. TakenCoversEarlier'
  BY TakenFrame
<1> QED BY <1>1, <1>2, <1>3, <1>4, <1>5, <1>6, <1>7

LEMMA InvPoll == ASSUME IInv, Step(Poll) PROVE IInv'
<1> USE DEF IInv, Step, Poll, WkGoto, Item, failVars, encVars, wkVars, queueVars, linkVars
<1> USE ConstantTypes
<1>1. TypeOK'
  BY DEF TypeOK, EncPc, WkPc, FailPc, Thread
<1>2. FailInv'
  BY DEF FailInv, Broken, Thread, TypeOK, ThreadInv, FailPc
<1>3. ThreadInv'
  BY DEF ThreadInv, Working, Encoding, TypeOK
<1>4. QueueInv'
  BY QueueFrame DEF Broken, Thread, FailInv, TypeOK
<1>5. WorkerInv'
  BY WorkerFrame DEF WorkerInv, Queued, First
<1>6. WordInv'
  BY DEF WordInv, Broken, Thread, Encoding, TypeOK, FailInv, ThreadInv, NothingInFlight, TakenCoversEarlier
<1>7. TakenCoversEarlier'
  BY TakenFrame
<1> QED BY <1>1, <1>2, <1>3, <1>4, <1>5, <1>6, <1>7

LEMMA InvPollTimeout == ASSUME IInv, Step(PollTimeout) PROVE IInv'
<1> USE DEF IInv, Step, PollTimeout, WkGoto, failVars, encVars, wkVars, queueVars, linkVars
<1> USE ConstantTypes
<1>1. TypeOK'
  BY DEF TypeOK, EncPc, WkPc, FailPc, Thread
<1>2. FailInv'
  BY DEF FailInv, Broken, Thread, TypeOK, ThreadInv, FailPc
<1>3. ThreadInv'
  BY DEF ThreadInv, Working, Encoding, TypeOK
<1>4. QueueInv'
  BY QueueFrame DEF Broken, Thread, FailInv, TypeOK
<1>5. WorkerInv'
  BY WorkerFrame DEF WorkerInv, Queued, First
<1>6. WordInv'
  BY DEF WordInv, Broken, Thread, Encoding, TypeOK, FailInv, ThreadInv, NothingInFlight, TakenCoversEarlier
<1>7. TakenCoversEarlier'
  BY TakenFrame
<1> QED BY <1>1, <1>2, <1>3, <1>4, <1>5, <1>6, <1>7

LEMMA InvCheck == ASSUME IInv, Step(Check) PROVE IInv'
<1> USE DEF IInv, Step, Check, WkGoto, failVars, encVars, wkVars, queueVars, linkVars
<1> USE ConstantTypes
<1>1. TypeOK'
  <2>1. wk' \in [pc : WkPc, slot : Slot, wave : 0 .. Ring, ok : BOOLEAN]
    BY DEF TypeOK, WkPc
  <2> QED BY <2>1 DEF TypeOK, EncPc, WkPc, FailPc, Thread
<1>2. FailInv'
  BY DEF FailInv, Broken, Thread, TypeOK, ThreadInv, FailPc
<1>3. ThreadInv'
  BY DEF ThreadInv, Working, Encoding, TypeOK
<1>4. QueueInv'
  BY QueueFrame DEF Broken, Thread, FailInv, TypeOK
<1>5. WorkerInv'
  <2>1. wk.wave = 0 /\ Working /\ wk.slot = split.head
    BY DEF WorkerInv, Working, ThreadInv
  <2>2. split.count > 0 /\ 1 .. First(0) - 1 \subseteq exchanged
    BY <2>1 DEF ThreadInv, QueueInv
  <2>3. First(0) \in Int /\ Queued(0).waves >= 0
    BY QueuedTyped, 0 \in 0 .. Queue DEF TypeOK, QueueTyped
  <2>4. Queued(0)' = Queued(0) /\ First(0)' = First(0)
    BY DEF Queued, First
  <2>5. wk'.wave = 0 /\ wk'.pc \in {"exchange", "publish"} /\ (wk'.pc = "publish" => ~wk'.ok)
    BY <2>1 DEF TypeOK
  <2> QED BY <2>1, <2>2, <2>3, <2>4, <2>5 DEF WorkerInv
<1>6. WordInv'
  BY DEF WordInv, Broken, Thread, Encoding, TypeOK, FailInv, ThreadInv, NothingInFlight, TakenCoversEarlier
<1>7. TakenCoversEarlier'
  BY TakenFrame
<1> QED BY <1>1, <1>2, <1>3, <1>4, <1>5, <1>6, <1>7

LEMMA InvWkExchangeFails == ASSUME IInv, Step(WkExchangeFails) PROVE IInv'
<1> USE DEF IInv, Step, WkExchangeFails, WkGoto, failVars, encVars, wkVars, queueVars, linkVars
<1> USE ConstantTypes
<1>1. TypeOK'
  BY DEF TypeOK, EncPc, WkPc, FailPc, Thread
<1>2. FailInv'
  BY DEF FailInv, Broken, Thread, TypeOK, ThreadInv, FailPc
<1>3. ThreadInv'
  BY DEF ThreadInv, Working, Encoding, TypeOK
<1>4. QueueInv'
  BY QueueFrame DEF Broken, Thread, FailInv, TypeOK
<1>5. WorkerInv'
  BY WorkerFrame DEF WorkerInv, Queued, First
<1>6. WordInv'
  BY DEF WordInv, Broken, Thread, Encoding, TypeOK, FailInv, ThreadInv, NothingInFlight, TakenCoversEarlier
<1>7. TakenCoversEarlier'
  BY TakenFrame
<1> QED BY <1>1, <1>2, <1>3, <1>4, <1>5, <1>6, <1>7

LEMMA InvWkFailed == ASSUME IInv, Step(WkFailed) PROVE IInv'
<1> USE DEF IInv, Step, WkFailed, WkGoto, LeaveFail, failVars, encVars, wkVars, queueVars, linkVars
<1> USE ConstantTypes
<1>1. TypeOK'
  BY DEF TypeOK, EncPc, WkPc, FailPc, Thread
<1>2. FailInv'
  BY DEF FailInv, Broken, Thread, TypeOK, ThreadInv, FailPc
<1>3. ThreadInv'
  <2>1. failed
    BY DEF FailInv, Thread
  <2> QED BY <2>1 DEF ThreadInv, Working, Encoding, TypeOK, FailInv
<1>4. QueueInv'
  BY QueueFrame DEF Broken, Thread, FailInv, TypeOK
<1>5. WorkerInv'
  BY WorkerFrame DEF WorkerInv, Queued, First
<1>6. WordInv'
  BY DEF WordInv, Broken, Thread, Encoding, TypeOK, FailInv, ThreadInv, NothingInFlight, TakenCoversEarlier
<1>7. TakenCoversEarlier'
  BY TakenFrame
<1> QED BY <1>1, <1>2, <1>3, <1>4, <1>5, <1>6, <1>7

LEMMA InvProduce == ASSUME IInv, Step(Produce) PROVE IInv'
<1> USE DEF IInv, Step, Produce, failVars, encVars, wkVars, queueVars, linkVars
<1> USE ConstantTypes
<1>1. TypeOK'
  BY DEF TypeOK, EncPc, WkPc, FailPc, Thread
<1>2. FailInv'
  BY DEF FailInv, Broken, Thread, TypeOK, ThreadInv, FailPc
<1>3. ThreadInv'
  BY DEF ThreadInv, Working, Encoding, TypeOK
<1>4. QueueInv'
  BY QueueFrame DEF Broken, Thread, FailInv, TypeOK
<1>5. WorkerInv'
  BY WorkerFrame DEF WorkerInv, Queued, First
<1>6. WordInv'
  BY DEF WordInv, Broken, Thread, Encoding, TypeOK, FailInv, ThreadInv, NothingInFlight, TakenCoversEarlier
<1>7. TakenCoversEarlier'
  BY TakenFrame
<1> QED BY <1>1, <1>2, <1>3, <1>4, <1>5, <1>6, <1>7

LEMMA InvKick == ASSUME IInv, NEW n \in WaveCounts, Step(Kick(n)) PROVE IInv'
<1> USE DEF IInv, Step, Kick, Idle, failVars, encVars, wkVars, queueVars, linkVars
<1> USE ConstantTypes
<1>1. TypeOK'
  <2>1. enc' \in [pc : EncPc, s : 0 .. MaxSeq, waves : 1 .. Ring, w : 0 .. Width - 1]
    BY DEF TypeOK, EncPc
  <2> QED BY <2>1 DEF TypeOK, EncPc, WkPc, FailPc, Thread
<1>2. FailInv'
  BY DEF FailInv, Broken, Thread, TypeOK, ThreadInv, FailPc
<1>3. ThreadInv'
  BY DEF ThreadInv, Working, Encoding, TypeOK
<1>4. QueueInv'
  BY QueueFrame DEF Broken, Thread, FailInv, TypeOK
<1>5. WorkerInv'
  BY WorkerFrame DEF WorkerInv, Queued, First
<1>6. WordInv'
  BY DEF WordInv, Broken, Thread, Encoding, TypeOK, FailInv, ThreadInv, NothingInFlight, TakenCoversEarlier
<1>7. TakenCoversEarlier'
  BY TakenFrame
<1> QED BY <1>1, <1>2, <1>3, <1>4, <1>5, <1>6, <1>7

LEMMA InvWait == ASSUME IInv, NEW s \in 1 .. MaxSeq, Step(Wait(s)) PROVE IInv'
<1> USE DEF IInv, Step, Wait, Idle, failVars, encVars, wkVars, queueVars, linkVars
<1> USE ConstantTypes
<1>1. TypeOK'
  <2>1. s \in 0 .. MaxSeq
    OBVIOUS
  <2>2. enc' \in [pc : EncPc, s : 0 .. MaxSeq, waves : 1 .. Ring, w : 0 .. Width - 1]
    BY <2>1 DEF TypeOK, EncPc
  <2> QED BY <2>2 DEF TypeOK, EncPc, WkPc, FailPc, Thread
<1>2. FailInv'
  BY DEF FailInv, Broken, Thread, TypeOK, ThreadInv, FailPc
<1>3. ThreadInv'
  BY DEF ThreadInv, Working, Encoding, TypeOK
<1>4. QueueInv'
  BY QueueFrame DEF Broken, Thread, FailInv, TypeOK
<1>5. WorkerInv'
  BY WorkerFrame DEF WorkerInv, Queued, First
<1>6. WordInv'
  BY DEF WordInv, Broken, Thread, Encoding, TypeOK, FailInv, ThreadInv, NothingInFlight, TakenCoversEarlier
<1>7. TakenCoversEarlier'
  BY TakenFrame
<1> QED BY <1>1, <1>2, <1>3, <1>4, <1>5, <1>6, <1>7

LEMMA InvFailStep == ASSUME IInv, NEW t \in Thread, Step(FailStep(t)) PROVE IInv'
<1> USE DEF IInv, Step, FailStep, FailLatch, FailRelease, FailStop, failVars, encVars, wkVars, queueVars, linkVars
<1> USE ConstantTypes
<1>1. TypeOK'
  <2>1. word' \in 0 .. Width - 1
    BY DEF TypeOK
  <2>2. failing' \in [Thread -> FailPc]
    BY DEF TypeOK, FailPc
  <2>3. UNCHANGED <<waits, seq, produced, split, items, enc, wk, linked, exchanged, taken>>
    OBVIOUS
  <2>4. failed' \in BOOLEAN /\ callbacks' \in BOOLEAN
    BY DEF TypeOK
  <2> QED BY <2>1, <2>2, <2>3, <2>4 DEF TypeOK
<1>2. FailInv'
  BY DEF FailInv, Broken, Thread, TypeOK, ThreadInv, FailPc
<1>3. ThreadInv'
  BY DEF ThreadInv, Working, Encoding, TypeOK
<1>4. QueueInv'
  BY QueueFrame DEF Broken, Thread, FailInv, TypeOK
<1>5. WorkerInv'
  BY WorkerFrame DEF WorkerInv, Queued, First
<1>6. WordInv'
  BY DEF WordInv, Broken, Thread, Encoding, TypeOK, FailInv, ThreadInv, NothingInFlight, TakenCoversEarlier
<1>7. TakenCoversEarlier'
  BY TakenFrame
<1> QED BY <1>1, <1>2, <1>3, <1>4, <1>5, <1>6, <1>7

LEMMA InvNumber == ASSUME IInv, Step(Number) PROVE IInv'
<1> USE DEF IInv, Step, Number, Fails, EnterFail, Goto, failVars, encVars, wkVars, queueVars, linkVars
<1> USE ConstantTypes
<1>0. /\ enc'.pc \in {"failing", "idle", "producer"} /\ ~Encoding
      /\ Encoding' => enc'.s = seq + 1 /\ ~failed
      /\ seq \in Nat /\ seq' = seq + 1
  <2>1. \/ enc' = [enc EXCEPT !.pc = "failing"]
        \/ enc' = [enc EXCEPT !.s = seq + 1, !.pc = "idle"]
        \/ enc' = [enc EXCEPT !.s = seq + 1, !.pc = "producer"] /\ ~failed
    OBVIOUS
  <2>2. enc \in [pc : EncPc, s : 0 .. MaxSeq, waves : 1 .. Ring, w : 0 .. Width - 1] /\ seq \in Nat
    BY DEF TypeOK
  <2>3. enc.pc = "number" /\ seq' = seq + 1
    OBVIOUS
  <2> QED BY ONLY <2>1, <2>2, <2>3 DEF Encoding
<1>1. TypeOK'
  <2>1. seq + 1 \in 0 .. MaxSeq
    BY DEF TypeOK, ThreadInv
  <2>2. enc' \in [pc : EncPc, s : 0 .. MaxSeq, waves : 1 .. Ring, w : 0 .. Width - 1]
    BY <2>1 DEF TypeOK, EncPc
  <2> QED BY <2>1, <2>2 DEF TypeOK, EncPc, WkPc, FailPc, Thread
<1>2. FailInv'
  BY DEF FailInv, Broken, Thread, TypeOK, ThreadInv, FailPc
<1>3. ThreadInv'
  <2>1. UNCHANGED <<split, wk, produced, word>>
    OBVIOUS
  <2> QED BY <1>0, <2>1 DEF ThreadInv, Working, Encoding, TypeOK
<1>4. QueueInv'
  BY QueueFrame DEF Broken, Thread, FailInv, TypeOK, ThreadInv
<1>5. WorkerInv'
  BY WorkerFrame DEF Working
<1>6. WordInv'
  <2>1. 1 .. seq \subseteq exchanged \/ ~(waits \/ ~Broken) \/ (waits /\ failed)
    <3>1. CASE ~Broken
      <4>1. word = seq /\ word # Terminal
        BY <3>1 DEF WordInv, ThreadInv, Encoding, TypeOK
      <4> QED BY <3>1, <4>1 DEF WordInv
    <3>2. CASE waits
      BY <3>2 DEF WordInv, NothingInFlight, TakenCoversEarlier, TypeOK
    <3> QED BY <3>1, <3>2
  <2>2. Broken => Broken'
    BY DEF Broken, Thread, TypeOK
  <2>3. ~Broken' => Encoding'
    BY DEF Broken, Thread, TypeOK, Encoding
  <2>4. UNCHANGED <<waits, word, exchanged>>
    OBVIOUS
  <2>5. failed => Broken
    BY DEF Broken
  <2>6. WordInv
    OBVIOUS
  <2> QED BY ONLY <1>0, <2>1, <2>2, <2>3, <2>4, <2>5, <2>6 DEF WordInv, Encoding
<1>7. TakenCoversEarlier'
  BY TakenFrame
<1> QED BY <1>1, <1>2, <1>3, <1>4, <1>5, <1>6, <1>7

LEMMA InvExchangeOk == ASSUME IInv, Step(ExchangeOk) PROVE IInv'
<1> USE DEF IInv, Step, ExchangeOk, Goto, failVars, encVars, wkVars, queueVars, linkVars
<1> USE ConstantTypes
<1>1. TypeOK'
  <2>1. enc.s \in 1 .. MaxSeq /\ enc.s \in 0 .. Width - 1
    BY DEF TypeOK, ThreadInv, Encoding
  <2> QED BY <2>1 DEF TypeOK, EncPc, WkPc, FailPc, Thread
<1>2. FailInv'
  BY DEF FailInv, Broken, Thread, TypeOK, ThreadInv, FailPc
<1>3. ThreadInv'
  BY DEF ThreadInv, Working, Encoding, TypeOK
<1>4. QueueInv'
  BY QueueFrame DEF Broken, Thread, FailInv, TypeOK, ThreadInv
<1>5. WorkerInv'
  BY WorkerFrame DEF Working
<1>6. WordInv'
  BY DEF WordInv, Broken, Thread, Encoding, TypeOK, FailInv, ThreadInv
<1>7. TakenCoversEarlier'
  <2> SUFFICES ASSUME waits, NEW s \in taken' PROVE 1 .. s \subseteq exchanged'
    BY DEF TakenCoversEarlier
  <2>1. enc.s \in Nat /\ 1 .. enc.s - 1 \subseteq exchanged
    BY DEF WordInv, Encoding, TypeOK
  <2> QED BY <2>1 DEF TakenCoversEarlier
<1> QED BY <1>1, <1>2, <1>3, <1>4, <1>5, <1>6, <1>7

LEMMA InvWkExchangeOk == ASSUME IInv, Step(WkExchangeOk) PROVE IInv'
<1> USE DEF IInv, Step, WkExchangeOk, Item, failVars, encVars, wkVars, queueVars, linkVars
<1> USE ConstantTypes
<1>0. /\ wk.slot \in Slot /\ items[wk.slot] = Queued(0) /\ First(0) >= 1 /\ First(0) \in Int
      /\ Queued(0).seq \in 1 .. MaxSeq /\ Queued(0).waves \in 1 .. Ring
      /\ 1 .. First(0) - 1 + wk.wave \subseteq exchanged /\ Working /\ wk.wave \in Nat
  <2>1. Working /\ wk.slot = split.head /\ split.count > 0 /\ split.head \in Slot /\ wk.wave \in Nat
    BY DEF Working, ThreadInv, TypeOK
  <2>2. items[wk.slot] = Queued(0)
    BY <2>1, HeadPlace DEF Queued
  <2>3. First(0) \in Int /\ Queued(0).seq \in 0 .. MaxSeq /\ Queued(0).waves \in 1 .. Ring
    BY QueuedTyped, 0 \in 0 .. Queue DEF TypeOK, QueueTyped
  <2>4. First(0) >= 1
    BY <2>1 DEF QueueInv, TypeOK
  <2> QED BY <2>1, <2>2, <2>3, <2>4 DEF WorkerInv, First
<1>1. TypeOK'
  BY <1>0 DEF TypeOK, EncPc, WkPc, FailPc, Thread
<1>2. FailInv'
  BY DEF FailInv, Broken, Thread, TypeOK, ThreadInv, FailPc
<1>3. ThreadInv'
  BY DEF ThreadInv, Working, Encoding, TypeOK
<1>4. QueueInv'
  BY QueueFrame DEF Broken, Thread, FailInv, TypeOK, ThreadInv
<1>5. WorkerInv'
  <2>1. Queued(0)' = Queued(0) /\ First(0)' = First(0)
    BY DEF Queued, First
  <2>2. 1 .. Queued(0).seq \subseteq exchanged'
    BY <1>0 DEF First
  <2>3. wk'.pc = "publish"
    BY DEF TypeOK
  <2> QED BY <2>1, <2>2, <2>3 DEF WorkerInv
<1>6. WordInv'
  BY <1>0 DEF WordInv, Broken, Thread, Encoding, TypeOK, FailInv, ThreadInv, NothingInFlight
<1>7. TakenCoversEarlier'
  BY TakenFrame
<1> QED BY <1>1, <1>2, <1>3, <1>4, <1>5, <1>6, <1>7

(* A kick that is refused, or that finds the ring full.                    *)
KickRefused ==
  /\ enc.pc = "queue"
  /\ seq' \in {seq, seq + enc.waves}
  /\ Fails
  /\ UNCHANGED <<waits, taken, wkVars, queueVars, linkVars, word, produced>>

LEMMA InvKickRefused == ASSUME IInv, KickRefused PROVE IInv'
<1> USE DEF IInv, Step, KickRefused, Fails, EnterFail, Goto, failVars, encVars, wkVars, queueVars, linkVars
<1> USE ConstantTypes
<1>1. TypeOK'
  <2>1. seq' \in 0 .. MaxSeq
    BY DEF TypeOK, ThreadInv
  <2> QED BY <2>1 DEF TypeOK, EncPc, WkPc, FailPc, Thread
<1>2. FailInv'
  BY DEF FailInv, Broken, Thread, TypeOK, ThreadInv, FailPc
<1>3. ThreadInv'
  BY DEF ThreadInv, Working, Encoding, TypeOK
<1>4. QueueInv'
  BY QueueFrame DEF Broken, Thread, FailInv, TypeOK, ThreadInv
<1>5. WorkerInv'
  BY WorkerFrame DEF Working
<1>6. WordInv'
  BY DEF WordInv, Broken, Thread, Encoding, TypeOK, FailInv, ThreadInv, NothingInFlight
<1>7. TakenCoversEarlier'
  BY TakenFrame
<1> QED BY <1>1, <1>2, <1>3, <1>4, <1>5, <1>6, <1>7

(* A kick that is queued: the queue is not full, nothing has failed, and   *)
(* the new item continues where the last one, or the word, ended.          *)
LEMMA InvKickQueued ==
  ASSUME IInv, NEW n \in Nat, n = split.count, enc.pc = "queue", Accepts, seq' = seq + enc.waves,
         items' = [items EXCEPT ![Tail] = [seq |-> seq', waves |-> enc.waves]],
         split' = [split EXCEPT !.count = @ + 1],
         Goto("idle"), UNCHANGED <<waits, failVars, taken, wkVars, linkVars, word, produced>>
  PROVE  IInv'
<1> USE DEF IInv, Goto, failVars, wkVars, linkVars
<1> USE ConstantTypes
<1>0. /\ n \in 0 .. Queue - 1 /\ n \in 0 .. Queue /\ split.head \in Slot /\ split.run
      /\ split' = [split EXCEPT !.count = n + 1] /\ split'.count = n + 1 /\ split'.head = split.head
      /\ Tail \in Slot /\ ~Broken /\ ~Broken'
      /\ seq \in Nat /\ enc.waves \in 1 .. Ring /\ seq' \in 1 .. MaxSeq
  <2>1. split.count < Queue /\ split.run
    BY DEF Accepts, HasRoom
  <2>2. n \in 0 .. Queue - 1 /\ n \in 0 .. Queue /\ split.head \in Slot
    BY <2>1 DEF TypeOK
  <2>3. Tail \in Slot
    BY <2>2, Place DEF Tail
  <2>4. ~Broken /\ ~Broken'
    BY <2>1 DEF FailInv, Broken
  <2>5. seq \in Nat /\ enc.waves \in 1 .. Ring /\ seq' \in 1 .. MaxSeq
    BY DEF TypeOK, ThreadInv
  <2>6. split' = [split EXCEPT !.count = n + 1] /\ split'.count = n + 1 /\ split'.head = split.head
    BY DEF TypeOK
  <2> QED BY <2>1, <2>2, <2>3, <2>4, <2>5, <2>6
<1>a. Queued(n)' = [seq |-> seq', waves |-> enc.waves] /\ First(n)' = seq + 1
  <2>1. items'[Tail] = [seq |-> seq', waves |-> enc.waves]
    BY <1>0 DEF TypeOK
  <2> QED BY <1>0, <2>1 DEF Queued, Tail, First
<1>b. ASSUME NEW i \in 0 .. n - 1 PROVE Queued(i)' = Queued(i) /\ First(i)' = First(i)
  <2>1. i \in 0 .. Queue - 1 /\ i # n
    BY <1>0
  <2>2. (split.head + i) % Queue # Tail /\ (split.head + i) % Queue \in Slot
    BY <1>0, <2>1, PlacesDiffer, Place DEF Tail
  <2>3. items'[(split.head + i) % Queue] = items[(split.head + i) % Queue]
    BY <2>2 DEF TypeOK
  <2> QED BY <1>0, <2>3 DEF Queued, First
<1>1. TypeOK'
  <2>1. split' \in [started : BOOLEAN, run : BOOLEAN, head : Slot, count : 0 .. Queue]
    BY <1>0 DEF TypeOK
  <2>2. seq' \in 0 .. MaxSeq /\ items' \in [Slot -> [seq : 0 .. MaxSeq, waves : 1 .. Ring]]
    BY <1>0 DEF TypeOK
  <2>3. enc' \in [pc : EncPc, s : 0 .. MaxSeq, waves : 1 .. Ring, w : 0 .. Width - 1]
    BY DEF TypeOK, EncPc
  <2>4. UNCHANGED <<waits, word, produced, failed, callbacks, failing, wk, linked, exchanged, taken>>
    OBVIOUS
  <2> QED BY <2>1, <2>2, <2>3, <2>4 DEF TypeOK
<1>2. FailInv'
  BY <1>0 DEF FailInv, Broken, Thread, TypeOK, ThreadInv, FailPc
<1>3. ThreadInv'
  BY <1>0 DEF ThreadInv, Working, Encoding, TypeOK
<1>4. QueueInv'
  <2>1. ASSUME NEW i \in 0 .. n PROVE First(i)' >= 1
    <3>1. i \in 0 .. n - 1 \/ i = n
      BY <1>0
    <3> QED BY <1>0, <1>a, <1>b, <3>1 DEF QueueInv
  <2>2. ASSUME NEW i \in 0 .. n - 1 PROVE First(i + 1)' = Queued(i)'.seq + 1
    <3>1. i \in 0 .. n - 1 /\ (i + 1 \in 0 .. n - 1 \/ i + 1 = n)
      BY <1>0
    <3>2. CASE i + 1 \in 0 .. n - 1
      <4>1. i \in 0 .. n - 2
        BY <1>0, <3>1, <3>2
      <4> QED BY <1>b, <3>1, <3>2, <4>1 DEF QueueInv
    <3>3. CASE i + 1 = n
      <4>1. Queued(i).seq = seq /\ Queued(i)' = Queued(i)
        <5>1. n > 0 /\ n - 1 = i
          BY <1>0, <3>1, <3>3
        <5> QED BY <1>0, <1>b, <3>1, <5>1 DEF QueueInv
      <4> QED BY <1>a, <3>3, <4>1
    <3> QED BY <3>1, <3>2, <3>3
  <2>3. 1 .. First(0)' - 1 \subseteq exchanged'
    <3>1. CASE n = 0
      <4>1. word = seq /\ word # Terminal
        BY <3>1 DEF Accepts, TypeOK
      <4>2. 1 .. seq \subseteq exchanged
        BY <1>0, <4>1 DEF WordInv
      <4>3. First(0)' = seq + 1
        BY <1>a, <3>1
      <4> QED BY <1>0, <4>2, <4>3
    <3>2. CASE n > 0
      <4>1. First(0)' = First(0)
        BY <1>0, <1>b, <3>2
      <4> QED BY <3>2, <4>1 DEF QueueInv
    <3> QED BY <1>0, <3>1, <3>2
  <2>4. Queued(n)'.seq = seq'
    BY <1>a
  <2>5. split'.count = n + 1 /\ n \in Nat /\ n + 1 - 1 = n /\ n + 1 - 2 = n - 1
    BY <1>0
  <2> QED BY ONLY <2>1, <2>2, <2>3, <2>4, <2>5 DEF QueueInv
<1>5. WorkerInv'
  <2>1. Working => n > 0
    BY DEF ThreadInv
  <2>2. n > 0 => Queued(0)' = Queued(0)
    BY <1>0, <1>b
  <2>3. n > 0 => items'[(split.head + 0) % Queue] = items[(split.head + 0) % Queue]
    BY <1>0, <2>2 DEF Queued
  <2> QED BY <1>0, <2>1, <2>3, WorkerFrame
<1>6. WordInv'
  BY <1>0 DEF WordInv, Broken, Thread, Encoding, TypeOK, FailInv, ThreadInv, NothingInFlight
<1>7. TakenCoversEarlier'
  BY TakenFrame
<1> QED BY <1>1, <1>2, <1>3, <1>4, <1>5, <1>6, <1>7

LEMMA InvQueueKick == ASSUME IInv, Step(QueueKick) PROVE IInv'
<1>1. CASE ~Accepts
  <2>1. KickRefused
    BY <1>1 DEF Step, QueueKick, KickRefused
  <2> QED BY <2>1, InvKickRefused
<1>2. CASE Accepts /\ USub(seq', word) >= Ring
  <2>1. KickRefused
    BY <1>2 DEF Step, QueueKick, KickRefused, queueVars
  <2> QED BY <2>1, InvKickRefused
<1>3. CASE Accepts /\ ~(USub(seq', word) >= Ring)
  <2>1. /\ enc.pc = "queue" /\ seq' = seq + enc.waves
        /\ items' = [items EXCEPT ![Tail] = [seq |-> seq', waves |-> enc.waves]]
        /\ split' = [split EXCEPT !.count = @ + 1]
        /\ Goto("idle") /\ UNCHANGED <<waits, failVars, taken, wkVars, linkVars, word, produced>>
    BY <1>3 DEF Step, QueueKick
  <2>2. split.count \in Nat
    BY DEF IInv, TypeOK
  <2> QED BY <1>3, <2>1, <2>2, InvKickQueued
<1> QED BY <1>1, <1>2, <1>3

LEMMA InvQueueKickEventFails == ASSUME IInv, Step(QueueKickEventFails) PROVE IInv'
<1>1. KickRefused
  BY DEF Step, QueueKickEventFails, KickRefused
<1> QED BY <1>1, InvKickRefused

(* The item the worker works on is the oldest one.                         *)
LEMMA ItemFacts ==
  ASSUME IInv, Working
  PROVE  /\ Item = Queued(0) /\ First(0) >= 1 /\ First(0) \in Int
         /\ Item.seq \in 1 .. MaxSeq /\ Item.waves \in 1 .. Ring
         /\ FirstSeq(Item) = First(0) /\ First(0) - 1 + Item.waves = Item.seq
         /\ split.count \in 1 .. Queue /\ split.head \in Slot /\ wk.wave \in Nat
<1> USE ConstantTypes DEF IInv
<1>1. wk.slot = split.head /\ split.count \in 1 .. Queue /\ split.head \in Slot /\ wk.wave \in Nat
  BY DEF ThreadInv, TypeOK
<1>2. Item = Queued(0)
  BY <1>1, HeadPlace DEF Queued, Item
<1>3. First(0) \in Int /\ Queued(0).seq \in 0 .. MaxSeq /\ Queued(0).waves \in 1 .. Ring
  BY QueuedTyped, 0 \in 0 .. Queue DEF TypeOK, QueueTyped
<1>4. First(0) >= 1
  BY <1>1 DEF QueueInv
<1> QED BY <1>1, <1>2, <1>3, <1>4 DEF First, FirstSeq

LEMMA InvWave == ASSUME IInv, Step(Wave) PROVE IInv'
<1> USE DEF IInv, Step, Wave, WaveRelease, failVars, encVars, wkVars, queueVars, linkVars
<1> USE ConstantTypes
<1>a. Working /\ wk.pc = "exchange" /\ wk' = [wk EXCEPT !.wave = wk.wave + 1] /\ wk.wave < Item.waves
  BY DEF Working, TypeOK
<1> DEFINE g == First(0) + wk.wave
<1>0. /\ g \in 1 .. MaxSeq /\ g \in 0 .. Width - 1 /\ exchanged' = exchanged \cup {g} /\ word' = g
      /\ 1 .. g - 1 \subseteq exchanged /\ wk.wave + 1 \in 0 .. Ring
      /\ wk'.wave = wk.wave + 1 /\ wk'.pc = "exchange" /\ wk.wave + 1 <= Queued(0).waves
      /\ First(0) \in Int /\ wk.wave \in Nat
  BY <1>a, ItemFacts DEF WorkerInv, TypeOK
<1>b. /\ UNCHANGED <<waits, seq, produced, failed, callbacks, failing, split, items, enc, linked, taken>>
      /\ wk'.slot = wk.slot /\ split.count > 0
  BY <1>a, ItemFacts DEF TypeOK
<1> HIDE DEF g
<1>1. TypeOK'
  <2>1. wk' \in [pc : WkPc, slot : Slot, wave : 0 .. Ring, ok : BOOLEAN]
    BY <1>a, <1>0 DEF TypeOK, WkPc
  <2> QED BY <1>0, <1>b, <2>1 DEF TypeOK
<1>2. FailInv'
  BY <1>a, <1>0, <1>b DEF FailInv, Broken
<1>3. ThreadInv'
  BY <1>a, <1>0, <1>b DEF ThreadInv, Working, Encoding, TypeOK
<1>4. QueueInv'
  BY <1>0, <1>b, QueueFrame DEF Broken
<1>5. WorkerInv'
  <2>1. Queued(0)' = Queued(0) /\ First(0)' = First(0)
    BY <1>b DEF Queued, First
  <2>2. 1 .. First(0) - 1 + (wk.wave + 1) \subseteq exchanged'
    BY <1>0 DEF g
  <2> QED BY <1>0, <2>1, <2>2 DEF WorkerInv
<1>6. WordInv'
  <2>1. 1 .. word' \subseteq exchanged'
    BY <1>0
  <2>2. exchanged \subseteq exchanged' /\ (Broken' <=> Broken) /\ split'.count # 0
    BY <1>0, <1>b DEF Broken, TypeOK
  <2>3. WordInv
    OBVIOUS
  <2> QED BY ONLY <2>1, <2>2, <2>3, <1>b DEF WordInv, Encoding, NothingInFlight
<1>7. TakenCoversEarlier'
  BY TakenFrame
<1> QED BY <1>1, <1>2, <1>3, <1>4, <1>5, <1>6, <1>7

(* A finished kick leaves the queue, and the word says so.                 *)
LEMMA InvPublishOk == ASSUME IInv, NEW n \in Nat, n = split.count, wk.ok, Step(Publish) PROVE IInv'
<1> USE DEF IInv, Step, Publish, WkGoto, failVars, encVars, wkVars, queueVars, linkVars
<1> USE ConstantTypes
<1>a. Working /\ 1 .. Queued(0).seq \subseteq exchanged
  BY DEF Working, WorkerInv
<1>0. /\ n \in 1 .. Queue /\ split.head \in Slot /\ Queued(0).seq \in 1 .. MaxSeq
      /\ split'.count = n - 1 /\ split'.head = (split.head + 1) % Queue /\ split'.head \in Slot
      /\ split'.run = split.run /\ split'.started = split.started
      /\ word' = Queued(0).seq
      /\ UNCHANGED <<waits, seq, produced, failed, callbacks, failing, items, enc, linked, exchanged, taken>>
      /\ wk' = [wk EXCEPT !.pc = "take"] /\ wk'.pc = "take" /\ wk.pc = "publish"
      /\ split' = [split EXCEPT !.head = (split.head + 1) % Queue, !.count = n - 1]
  <2>1. n \in 1 .. Queue /\ split.head \in Slot /\ Queued(0).seq \in 1 .. MaxSeq /\ Item = Queued(0)
    BY <1>a, ItemFacts
  <2>2. (split.head + 1) % Queue \in Slot
    BY <2>1, Place, 1 \in 0 .. Queue
  <2> QED BY <2>1, <2>2 DEF TypeOK
<1>b. ASSUME NEW i \in 0 .. n - 2 PROVE Queued(i)' = Queued(i + 1) /\ First(i)' = First(i + 1)
  <2>1. i \in 0 .. Queue - 1
    BY <1>0
  <2> QED BY <1>0, <2>1, PlaceAfter DEF Queued, First
<1>1. TypeOK'
  <2>1. split' \in [started : BOOLEAN, run : BOOLEAN, head : Slot, count : 0 .. Queue]
    <3>1. (split.head + 1) % Queue \in Slot /\ n - 1 \in 0 .. Queue
      BY <1>0
    <3>2. split \in [started : BOOLEAN, run : BOOLEAN, head : Slot, count : 0 .. Queue]
      BY DEF TypeOK
    <3>3. split' = [split EXCEPT !.head = (split.head + 1) % Queue, !.count = n - 1]
      BY <1>0
    <3> DEFINE h == (split.head + 1) % Queue
    <3> HIDE DEF h
    <3> QED BY ONLY <3>1, <3>2, <3>3 DEF h
  <2>2. wk' \in [pc : WkPc, slot : Slot, wave : 0 .. Ring, ok : BOOLEAN]
    BY <1>0 DEF TypeOK, WkPc
  <2>3. word' \in 0 .. Width - 1
    BY <1>0
  <2> QED BY <1>0, <2>1, <2>2, <2>3 DEF TypeOK
<1>2. FailInv'
  BY <1>0 DEF FailInv, Broken, Thread
<1>3. ThreadInv'
  BY <1>0, <1>a DEF ThreadInv, Working, Encoding, TypeOK
<1>4. QueueInv'
  <2>1. ASSUME NEW i \in 0 .. n - 2 PROVE First(i)' >= 1
    BY <1>0, <1>b DEF QueueInv
  <2>2. ASSUME NEW i \in 0 .. n - 3 PROVE First(i + 1)' = Queued(i)'.seq + 1
    <3>1. i \in 0 .. n - 2 /\ i + 1 \in 0 .. n - 2
      BY <1>0
    <3>2. First(i + 1 + 1) = Queued(i + 1).seq + 1
      BY <1>0, <3>1 DEF QueueInv
    <3> QED BY <1>b, <3>1, <3>2
  <2>3. n - 1 > 0 => 1 .. First(0)' - 1 \subseteq exchanged'
    <3> SUFFICES ASSUME n - 1 > 0 PROVE 1 .. First(0)' - 1 \subseteq exchanged'
      OBVIOUS
    <3>1. 0 \in 0 .. n - 2 /\ First(0)' = First(0 + 1)
      BY <1>0, <1>b
    <3>2. First(0 + 1) = Queued(0).seq + 1
      BY <1>0, <3>1 DEF QueueInv
    <3> QED BY <1>0, <1>a, <3>1, <3>2
  <2>4. n - 1 > 0 /\ ~Broken' => Queued(n - 2)'.seq = seq'
    <3> SUFFICES ASSUME n - 1 > 0, ~Broken' PROVE Queued(n - 2)'.seq = seq'
      OBVIOUS
    <3>1. n - 2 \in 0 .. n - 2 /\ n - 2 + 1 = n - 1
      BY <1>0
    <3>2. ~Broken
      BY <1>0 DEF Broken
    <3>3. Queued(n - 1).seq = seq
      BY <1>0, <3>2 DEF QueueInv
    <3>4. Queued(n - 2)' = Queued(n - 2 + 1)
      BY <1>b, <3>1
    <3> QED BY <1>0, <3>1, <3>3, <3>4
  <2>5. split'.count = n - 1 /\ n - 1 - 1 = n - 2 /\ n - 1 - 2 = n - 3
    BY <1>0
  <2> QED BY ONLY <2>1, <2>2, <2>3, <2>4, <2>5 DEF QueueInv
<1>5. WorkerInv'
  BY <1>0 DEF WorkerInv
<1>6. WordInv'
  <2>1. n = 1 /\ ~Broken => Queued(0).seq = seq
    BY <1>0 DEF QueueInv
  <2>2. (Broken' <=> Broken) /\ split'.count = n - 1 /\ split.count = n /\ n \in 1 .. Queue
    BY <1>0 DEF Broken
  <2>3. WordInv /\ ~Encoding
    BY <1>0 DEF ThreadInv
  <2> QED BY ONLY <1>0, <1>a, <2>1, <2>2, <2>3, ConstantTypes DEF WordInv, Encoding, NothingInFlight
<1>7. TakenCoversEarlier'
  BY <1>0, TakenFrame
<1> QED BY <1>1, <1>2, <1>3, <1>4, <1>5, <1>6, <1>7

LEMMA InvPublishFails == ASSUME IInv, ~wk.ok, Step(Publish) PROVE IInv'
<1> USE DEF IInv, Step, Publish, WkGoto, EnterFail, failVars, encVars, wkVars, queueVars, linkVars
<1> USE ConstantTypes
<1>a. Working
  BY DEF Working
<1>0. /\ split'.count = 0 /\ split'.head \in Slot /\ ~split'.run /\ split'.started = split.started
      /\ split.started /\ enc.pc # "done" /\ Broken'
      /\ UNCHANGED <<waits, seq, produced, failed, callbacks, items, enc, linked, exchanged, taken, word>>
      /\ wk'.pc = "failing" /\ wk.pc = "publish" /\ failing' = [failing EXCEPT !["wk"] = "latch"]
      /\ wk' = [wk EXCEPT !.pc = "failing"]
      /\ split' = [split EXCEPT !.head = (split.head + 1) % Queue, !.count = 0, !.run = FALSE]
  <2>1. split.head \in Slot
    BY <1>a, ItemFacts
  <2>2. (split.head + 1) % Queue \in Slot
    BY <2>1, Place, 1 \in 0 .. Queue
  <2>3. split.started /\ enc.pc # "done"
    BY <1>a DEF ThreadInv, Working
  <2>4. Broken'
    BY DEF Broken, TypeOK, Thread
  <2> QED BY <2>1, <2>2, <2>3, <2>4 DEF TypeOK
<1>1. TypeOK'
  <2>1. split' \in [started : BOOLEAN, run : BOOLEAN, head : Slot, count : 0 .. Queue]
    <3>1. (split.head + 1) % Queue \in Slot /\ 0 \in 0 .. Queue /\ FALSE \in BOOLEAN
      BY <1>0
    <3>2. split \in [started : BOOLEAN, run : BOOLEAN, head : Slot, count : 0 .. Queue]
      BY DEF TypeOK
    <3>3. split' = [split EXCEPT !.head = (split.head + 1) % Queue, !.count = 0, !.run = FALSE]
      BY <1>0
    <3> DEFINE h == (split.head + 1) % Queue
    <3> HIDE DEF h
    <3> QED BY ONLY <3>1, <3>2, <3>3 DEF h
  <2>2. wk' \in [pc : WkPc, slot : Slot, wave : 0 .. Ring, ok : BOOLEAN]
    BY <1>0 DEF TypeOK, WkPc
  <2>3. failing' \in [Thread -> FailPc]
    BY <1>0 DEF TypeOK, FailPc
  <2> QED BY <1>0, <2>1, <2>2, <2>3 DEF TypeOK
<1>2. FailInv'
  BY <1>0 DEF FailInv, Broken, Thread, TypeOK
<1>3. ThreadInv'
  BY <1>0, <1>a DEF ThreadInv, Working, Encoding, TypeOK
<1>4. QueueInv'
  BY <1>0 DEF QueueInv
<1>5. WorkerInv'
  BY <1>0 DEF WorkerInv
<1>6. WordInv'
  <2>1. WordInv /\ (Broken => Broken')
    BY <1>0
  <2> QED BY ONLY <1>0, <2>1 DEF WordInv, Encoding, NothingInFlight
<1>7. TakenCoversEarlier'
  BY <1>0, TakenFrame
<1> QED BY <1>1, <1>2, <1>3, <1>4, <1>5, <1>6, <1>7

LEMMA InvPublish == ASSUME IInv, Step(Publish) PROVE IInv'
<1>1. split.count \in Nat /\ wk.ok \in BOOLEAN
  BY DEF IInv, TypeOK
<1> QED BY <1>1, InvPublishOk, InvPublishFails

LEMMA InvInit == ASSUME Init PROVE IInv
<1> USE ConstantTypes DEF Init
<1>1. TypeOK
  <2>1. 0 \in Slot /\ 1 \in 1 .. Ring /\ 0 \in 0 .. MaxSeq /\ 0 \in 0 .. Width - 1
    BY DEF Slot
  <2>2. items \in [Slot -> [seq : 0 .. MaxSeq, waves : 1 .. Ring]]
    BY <2>1 DEF Slot
  <2>3. failing \in [Thread -> FailPc]
    BY DEF FailPc
  <2>4. /\ split \in [started : BOOLEAN, run : BOOLEAN, head : Slot, count : 0 .. Queue]
        /\ enc \in [pc : EncPc, s : 0 .. MaxSeq, waves : 1 .. Ring, w : 0 .. Width - 1]
        /\ wk \in [pc : WkPc, slot : Slot, wave : 0 .. Ring, ok : BOOLEAN]
    BY <2>1 DEF EncPc, WkPc
  <2> QED BY <2>1, <2>2, <2>3, <2>4 DEF TypeOK
<1>2. FailInv
  BY DEF FailInv, Broken, Thread
<1>3. ThreadInv /\ QueueInv /\ WorkerInv /\ WordInv /\ TakenCoversEarlier
  BY DEF ThreadInv, QueueInv, WorkerInv, WordInv, TakenCoversEarlier, Working, Encoding
<1> QED BY <1>1, <1>2, <1>3 DEF IInv

LEMMA InvStutter == ASSUME IInv, UNCHANGED vars PROVE IInv'
<1>1. /\ UNCHANGED <<waits, seq, enc, taken, wk, failed, callbacks, failing>>
      /\ UNCHANGED <<split, items, linked, exchanged, word, produced>>
  BY DEF vars, encVars, wkVars, failVars, queueVars, linkVars
<1>2. /\ UNCHANGED <<Broken, Working, Encoding, NothingInFlight>>
      /\ \A i : Queued(i)' = Queued(i) /\ First(i)' = First(i)
  BY <1>1 DEF Broken, Working, Encoding, NothingInFlight, Queued, First
<1>3. TypeOK' /\ FailInv' /\ ThreadInv'
  BY <1>1, <1>2 DEF IInv, TypeOK, FailInv, ThreadInv
<1>4. QueueInv' /\ WorkerInv' /\ WordInv' /\ TakenCoversEarlier'
  BY <1>1, <1>2 DEF IInv, QueueInv, WorkerInv, WordInv, TakenCoversEarlier
<1> QED BY <1>3, <1>4 DEF IInv

-----------------------------------------------------------------------------
(* The invariant is inductive, and what follows from it.                   *)

LEMMA InvNext == ASSUME IInv, [Next]_vars PROVE IInv'
<1>1. CASE Step(Call)
  BY <1>1, InvEncode, InvShutdown, InvKick, InvWait DEF Call, Step
<1>2. CASE Step(Continue)
  BY <1>2, InvEncFailed, InvCheckPending, InvNumber, InvProducerReady, InvExchangeOk,
     InvStartWorker, InvQueueKick, InvWaitChecks, InvJoin DEF Continue, Step
<1>3. CASE Step(Work)
  BY <1>3, InvTake, InvPoll, InvCheck, InvWave, InvWkExchangeOk, InvPublish, InvWkFailed
  DEF Work, Step
<1>4. CASE Step(Failure)
  BY <1>4, InvProducerTimeout, InvExchangeFails, InvQueueKickEventFails, InvWaitTimeout,
     InvPollTimeout, InvWkExchangeFails DEF Failure, Step
<1>5. CASE Step(Produce)
  BY <1>5, InvProduce
<1>6. CASE \E t \in Thread : Step(FailStep(t))
  BY <1>6, InvFailStep
<1>7. CASE UNCHANGED vars
  BY <1>7, InvStutter
<1> QED BY <1>1, <1>2, <1>3, <1>4, <1>5, <1>6, <1>7 DEF Next

(* Every reachable state of the split gate queue satisfies IInv.           *)
THEOREM Invariance == Spec => []IInv
<1>1. Init => IInv
  BY InvInit
<1>2. IInv /\ [Next]_vars => IInv'
  BY InvNext
<1> QED BY <1>1, <1>2, PTL DEF Spec

(* Every variable keeps its type: no gate number passes its bound and no   *)
(* place of the queue leaves it.                                           *)
THEOREM TypeCorrect == Spec => []TypeOK
<1>1. IInv => TypeOK
  BY DEF IInv
<1> QED BY <1>1, Invariance, PTL

(* ds4_gpu_tp_big_gate_wait, ds4_tp_encode: the engine is told that it may *)
(* read a gate's rows only when they and all earlier ones have arrived.    *)
THEOREM TakenIsExchanged == Spec => []TakenCoversEarlier
<1>1. IInv => TakenCoversEarlier
  BY DEF IInv
<1> QED BY <1>1, Invariance, PTL

(* No gate of an engine that waits for its kicks enters the transport      *)
(* before an earlier one has been exchanged.                               *)
THEOREM ExchangesInOrder == Spec => []WaitingNeverOvertakes
<1>1. ASSUME IInv, waits PROVE NoGateOvertaken
  <2>1. enc.pc = "exchange" => 1 .. enc.s - 1 \subseteq exchanged
    BY <1>1 DEF IInv, WordInv, Encoding
  <2>2. ASSUME wk.pc = "exchange" PROVE 1 .. FirstSeq(Item) - 1 \subseteq exchanged
    <3>1. Working
      BY <2>2 DEF Working
    <3>2. split.count > 0 /\ FirstSeq(Item) = First(0)
      BY <1>1, <3>1, ItemFacts
    <3> QED BY <1>1, <3>2 DEF IInv, QueueInv
  <2> QED BY <2>1, <2>2 DEF NoGateOvertaken
<1>2. IInv => WaitingNeverOvertakes
  BY <1>1 DEF WaitingNeverOvertakes
<1> QED BY <1>2, Invariance, PTL

(* The engine thread and the split worker are never both in the transport, *)
(* whether or not the engine waits for its kicks: a gate is encoded only   *)
(* on an empty queue, and only the engine thread fills it.                 *)
THEOREM ExchangesAlternate == Spec => []OneExchangeAtATime
<1>1. IInv => OneExchangeAtATime
  BY DEF IInv, ThreadInv, OneExchangeAtATime, Working, Encoding
<1> QED BY <1>1, Invariance, PTL

(* A kick on an empty queue finds the word that its guard asks for.        *)
THEOREM KicksSeeRelease == Spec => []KickSeesRelease
<1>1. ASSUME IInv PROVE KickSeesRelease
  <2>1. enc.pc = "queue" /\ split.run /\ ~failed => ~Broken
    BY <1>1 DEF IInv, FailInv, Broken
  <2> QED BY <1>1, <2>1 DEF IInv, WordInv, Encoding, KickSeesRelease
<1> QED BY <1>1, Invariance, PTL

(* A shutdown without a failure leaves no kicked gate unexchanged.         *)
THEOREM ShutdownIsDrained == Spec => []ShutdownDrains
<1>1. ASSUME IInv, enc.pc = "done", ~failed PROVE 1 .. seq \subseteq exchanged
  <2>1. split.count = 0 /\ ~Broken
    BY <1>1 DEF IInv, ThreadInv, FailInv, Broken, Thread
  <2>2. word = seq /\ word # Terminal
    BY <1>1, <2>1, ConstantTypes DEF IInv, WordInv, Encoding, TypeOK
  <2> QED BY <1>1, <2>1, <2>2 DEF IInv, WordInv
<1>2. IInv => ShutdownDrains
  BY <1>1 DEF ShutdownDrains
<1> QED BY <1>2, Invariance, PTL
=============================================================================
