------------------------------- MODULE TpGate -------------------------------
(***************************************************************************)
(* The gate transport between the two ranks (ds4_tp.c) over verbs: one     *)
(* reliable in-order queue pair carries decode gates, paired auxiliary     *)
(* payloads and bulk messages, and a TCP data socket carries the headers   *)
(* that separate them.                                                     *)
(*                                                                         *)
(* A receive takes whatever message comes next, so both ranks must post    *)
(* receives in exactly the order the peer sends.  Decode keeps a window of *)
(* receives posted ahead; before bulk rows can use the queue pair, both    *)
(* ranks consume each other's window with filler messages.                 *)
(***************************************************************************)
EXTENDS Integers, Sequences, FiniteSets, SequencesExt

CONSTANTS
  Window,      (* DS4_TP_RDMA_RECV_WINDOW: gates received ahead            *)
  PerToken,    (* gates per token = slab slots                             *)
  BulkSlots,   (* DS4_TP_RDMA_BULK_SLOTS: messages per bulk round          *)
  BulkSizes,   (* sizes of a big gate, in messages                         *)
  Modes,       (* what the ranks may agree in the hello: [chunks: messages *)
               (* per gate vector (vec_bytes / decode_max_msg), aux: slots *)
               (* followed by a paired auxiliary exchange, barrier: batch  *)
               (* gates always exchange a header (not OdinLink async),     *)
               (* recvReady: DS4_TP_CONFIG_BULK_RECV_READY (mlx5)]         *)
  MayDiverge,  (* the two engines may issue different operations           *)
  MayFail,     (* timeouts, posting and completion errors happen           *)
  MaxOps       (* bound of the model: operations of one rank               *)

Rank == {0, 1}
Peer(r) == 1 - r

ASSUME WindowAssumption == Window \in Nat \ {0}
ASSUME SlotAssumption == PerToken \in Nat /\ PerToken >= 2
ASSUME BulkAssumption ==
  /\ BulkSlots \in Nat \ {0}
  /\ BulkSizes \subseteq Nat \ {0} /\ BulkSizes # {}
ASSUME ModeAssumption ==
  /\ {MayDiverge, MayFail} \subseteq BOOLEAN
  /\ \A m \in Modes : m.chunks \in Nat \ {0} /\ m.aux \subseteq 1 .. PerToken
  /\ \A m \in Modes : m.recvReady => m.barrier   \* mlx5, not OdinLink
  /\ MaxOps \in Nat

VARIABLES
  mode,     \* what the hello agreed, the same on both ranks
  plan,     \* [Rank -> Seq(Op)]: operations the engine started
  done,     \* [Rank -> Nat]: operations that returned 1
  gates,    \* [Rank -> Nat]: decode gates started, their sequence number
  tp,       \* [Rank -> record]: fields of ds4_tp and ds4_tp_rdma
  op,       \* [Rank -> record]: progress of the running operation
  rq,       \* [Rank -> Seq]: receives posted and not yet filled
  wire,     \* [Rank -> Seq]: messages on their way to the rank
  unacked,  \* [Rank -> Seq]: delivered messages whose sender has no CQE yet
  cq,       \* [Rank -> Seq]: completions not yet polled
  inbuf,    \* [Rank -> [place -> message]]: what the NIC wrote last
  hdr       \* [Rank -> Seq]: headers in the rank's data socket

nicVars == <<rq, wire, unacked, cq, inbuf>>
vars == <<mode, plan, done, gates, tp, op, nicVars, hdr>>

-----------------------------------------------------------------------------
(* Operations and messages.                                                *)

Row == {"gate", "rgate"}        \* rgate: payload sent from a registered row
Bulk == {"batch", "big"}
Slot == 1 .. PerToken
(* size: messages of a big gate, which its header does not carry.          *)
Op == [kind : Row \cup {"aux"}, at : Slot, size : {1}]
      \cup [kind : {"batch"}, at : {1}, size : {1}]
      \cup [kind : {"big"}, at : {1}, size : BulkSizes]

(* tp_gate_slot: the slab slot of a gate sequence number.                  *)
SlotOf(s) == ((s - 1) % PerToken) + 1

(* tp_aux_gate_eligible                                                    *)
AuxEligible(s) == SlotOf(s) \in mode.aux

(* A work request: kind and part are the shape of the message (its place   *)
(* and length), id the payload (0 is filler), tag what its wr_id says.     *)
Msg(kind, id, part, tag, sig) ==
  [kind |-> kind, id |-> id, part |-> part, tag |-> tag, sig |-> sig]

GateRow(s, tag, id, sigs) ==
  [p \in 1 .. mode.chunks |-> Msg("gate", id, p, tag, p \in sigs)]

(* Mutated form: the paired receive is not posted with its gate.           *)
GateReceivesRowsOnly(s) == GateRow(s, "gate", s, {})

(* tp_rdma_post_gate_recv: the receives of one gate, its paired one last.  *)
GateReceives(s) ==
  GateRow(s, "gate", s, {})
    \o IF AuxEligible(s) THEN << Msg("aux", s, 1, "aux", FALSE) >> ELSE <<>>

ReceivesOf(S) == FlattenSeq([i \in 1 .. S[2] - S[1] + 1 |-> GateReceives(S[1] + i - 1)])

(* The filler the drain sends for gates a .. b; only the last is signaled. *)
Filler(a, b) ==
  LET shape == ReceivesOf(<<a, b>>)
  IN [i \in DOMAIN shape |->
        Msg(shape[i].kind, 0, shape[i].part, "bulk", i = Len(shape))]

BulkRound(k, from, to) ==
  [i \in 1 .. to - from + 1 |-> Msg("bulk", k, from + i - 1, "bulk", TRUE)]

Place(w) == IF w.kind = "bulk" THEN <<"bulk", w.part>>
            ELSE <<w.kind, SlotOf(w.id), w.part>>
Places == {<<"gate", s, p>> : s \in Slot, p \in 1 .. mode.chunks}
          \cup {<<"aux", s, 1>> : s \in Slot}
          \cup {<<"bulk", p>> : p \in UNION {1 .. n : n \in BulkSizes \cup {1}}}

Current(r) == plan[r][Len(plan[r])]
Seqno(r) == Cardinality({i \in DOMAIN plan[r] : plan[r][i].kind \in Bulk})

TpInit == [win |-> FALSE, last |-> 0, recvDone |-> 0, auxRecv |-> 0, auxSend |-> 0,
           failed |-> FALSE, closed |-> FALSE]
OpInit == [pc |-> "idle", off |-> 0, rd |-> 0, sd |-> 0]

Init ==
  /\ mode \in Modes
  /\ plan = [r \in Rank |-> <<>>]
  /\ done = [r \in Rank |-> 0]
  /\ gates = [r \in Rank |-> 0]
  /\ tp = [r \in Rank |-> TpInit]
  /\ op = [r \in Rank |-> OpInit]
  /\ rq = [r \in Rank |-> <<>>]
  /\ wire = [r \in Rank |-> <<>>]
  /\ unacked = [r \in Rank |-> <<>>]
  /\ cq = [r \in Rank |-> <<>>]
  /\ inbuf = [r \in Rank |-> [p \in Places |-> 0]]
  /\ hdr = [r \in Rank |-> <<>>]

-----------------------------------------------------------------------------
(* The queue pair: reliable and in order.  A message whose receive is not  *)
(* posted yet is retried (RNR) until it is.                                *)

Post(r, ws) == rq' = [rq EXCEPT ![r] = @ \o ws]
Send(r, ms) == wire' = [wire EXCEPT ![Peer(r)] = @ \o ms]
CQE(dir, w) == [dir |-> dir, tag |-> w.tag, id |-> w.id, part |-> w.part]

Deliver(r) ==
  /\ rq[r] # <<>> /\ wire[r] # <<>>
  /\ LET w == Head(rq[r])
         m == Head(wire[r])
     IN /\ inbuf' = [inbuf EXCEPT ![r][Place(w)] = m.id]
        /\ cq' = [cq EXCEPT ![r] = Append(@, CQE("recv", w))]
        /\ unacked' = IF m.sig THEN [unacked EXCEPT ![Peer(r)] = Append(@, m)] ELSE unacked
  /\ rq' = [rq EXCEPT ![r] = Tail(@)]
  /\ wire' = [wire EXCEPT ![r] = Tail(@)]
  /\ UNCHANGED <<plan, done, gates, tp, op, hdr>>

Ack(r) ==
  /\ unacked[r] # <<>>
  /\ cq' = [cq EXCEPT ![r] = Append(@, CQE("send", Head(unacked[r])))]
  /\ unacked' = [unacked EXCEPT ![r] = Tail(@)]
  /\ UNCHANGED <<plan, done, gates, tp, op, rq, wire, inbuf, hdr>>

-----------------------------------------------------------------------------
(* Starting and ending an operation.                                       *)

(* The engine's program: a gate of an auxiliary slot is followed by its    *)
(* paired exchange, gates walk the schedule, and both ranks run the same   *)
(* program unless MayDiverge.                                              *)
AuxDue(r) == plan[r] # <<>> /\ Current(r).kind \in Row /\ Current(r).at \in mode.aux

Issues(r, o) ==
  /\ op[r].pc = "idle" /\ ~tp[r].failed
  /\ Len(plan[r]) < MaxOps
  /\ (o.kind = "aux") <=> AuxDue(r)
  /\ o.kind = "aux" => o.at = Current(r).at
  /\ ~MayDiverge =>
       /\ o.kind \in Row => o.at = SlotOf(gates[r] + 1)
       /\ Len(plan[Peer(r)]) > Len(plan[r]) => o = plan[Peer(r)][Len(plan[r]) + 1]
  /\ plan' = [plan EXCEPT ![r] = Append(@, o)]

Goto(r, pc) == op' = [op EXCEPT ![r].pc = pc]

Return(r) ==
  /\ Goto(r, "idle")
  /\ done' = [done EXCEPT ![r] = @ + 1]

(* The engine's callback marks the transport failed when a gate returns 0. *)
ReturnFailed(r) ==
  /\ Goto(r, "idle")
  /\ tp' = [tp EXCEPT ![r].failed = TRUE]
  /\ UNCHANGED done

-----------------------------------------------------------------------------
(* tp_rdma_gate_exchange: one decode gate.                                 *)

StartGate(r, o) ==
  /\ o.kind \in Row
  /\ Issues(r, o)
  /\ gates' = [gates EXCEPT ![r] = @ + 1]
  /\ IF o.at # SlotOf(gates[r] + 1)
       THEN ReturnFailed(r)
       ELSE /\ Goto(r, IF tp[r].win THEN "send" ELSE "arm")
            /\ UNCHANGED <<tp, done>>
  /\ UNCHANGED <<nicVars, hdr>>

Arm(r) ==
  /\ op[r].pc = "arm"
  /\ Post(r, ReceivesOf(<<gates[r], gates[r] + Window - 1>>))
  /\ tp' = [tp EXCEPT ![r].win = TRUE]
  /\ Goto(r, "send")
  /\ UNCHANGED <<plan, done, gates, wire, unacked, cq, inbuf, hdr>>

(* A registered row is signaled on its last message only.                  *)
SendGate(r) ==
  /\ op[r].pc = "send"
  /\ Send(r, GateRow(gates[r], "gate", gates[r],
                     IF Current(r).kind = "gate" THEN 1 .. mode.chunks ELSE {mode.chunks}))
  /\ op' = [op EXCEPT ![r] = [@ EXCEPT !.pc = "wait", !.sd = 0]]
  /\ UNCHANGED <<plan, done, gates, tp, rq, unacked, cq, inbuf, hdr>>

AtLeast(a, b) == IF a >= b THEN a ELSE b

(* Mutated form of Watermark: any message of a chunked vector counts as    *)
(* the vector.                                                             *)
WatermarkAnyChunk(t, e) ==
  IF e.dir = "recv" /\ e.tag # "aux" THEN [t EXCEPT !.recvDone = AtLeast(@, e.id)] ELSE t

(* tp_rdma_drain_cq_observe: what one completion does to the watermarks.   *)
Watermark(t, e) ==
  IF e.dir = "recv" /\ e.tag = "aux" THEN [t EXCEPT !.auxRecv = AtLeast(@, e.id)]
  ELSE IF e.dir = "recv" /\ e.part = mode.chunks THEN [t EXCEPT !.recvDone = AtLeast(@, e.id)]
  ELSE IF e.dir = "send" /\ e.tag = "aux" THEN [t EXCEPT !.auxSend = AtLeast(@, e.id)]
  ELSE t

Reap(r) == cq[r] # <<>> /\ cq' = [cq EXCEPT ![r] = Tail(@)]

PollGate(r) ==
  /\ op[r].pc \in {"wait", "auxwait"}
  /\ Reap(r)
  /\ LET e == Head(cq[r])
     IN /\ tp' = [tp EXCEPT ![r] = Watermark(@, e)]
        /\ op' = IF e.dir = "send" /\ e.tag = "gate" /\ e.id = gates[r]
                   THEN [op EXCEPT ![r].sd = 1] ELSE op
  /\ UNCHANGED <<plan, done, gates, rq, wire, unacked, inbuf, hdr>>

PayloadFree(r) == Current(r).kind = "rgate" => op[r].sd = 1

(* Mutated form of Arrived: off by one gate.                               *)
ArrivedPrevious(r) == tp[r].recvDone >= gates[r] - 1

Arrived(r) == tp[r].recvDone >= gates[r]

FinishGate(r) ==
  /\ op[r].pc = "wait"
  /\ Arrived(r)
  /\ PayloadFree(r)
  /\ Post(r, GateReceives(gates[r] + Window))
  /\ tp' = [tp EXCEPT ![r].last = gates[r]]
  /\ Return(r)
  /\ UNCHANGED <<plan, gates, wire, unacked, cq, inbuf, hdr>>

(* tp_rdma_aux_gate_exchange: the second payload of the last gate.         *)
StartAux(r, o) ==
  /\ o.kind = "aux"
  /\ Issues(r, o)
  /\ Send(r, << Msg("aux", tp[r].last, 1, "aux", TRUE) >>)
  /\ Goto(r, "auxwait")
  /\ UNCHANGED <<done, gates, tp, rq, unacked, cq, inbuf, hdr>>

FinishAux(r) ==
  /\ op[r].pc = "auxwait"
  /\ tp[r].auxRecv >= tp[r].last /\ tp[r].auxSend >= tp[r].last
  /\ IF inbuf[r][<<"aux", SlotOf(tp[r].last), 1>>] = tp[r].last
       THEN Return(r) /\ UNCHANGED tp
       ELSE ReturnFailed(r)
  /\ UNCHANGED <<plan, gates, nicVars, hdr>>

-----------------------------------------------------------------------------
(* ds4_tp_batch_gate_exchange and ds4_tp_big_gate_exchange.                *)

Header(r) == [kind |-> Current(r).kind, at |-> Current(r).at, seq |-> Seqno(r), from |-> 0]
Tell(r, h) == hdr' = [hdr EXCEPT ![Peer(r)] = Append(@, h)]
Hear(r) == hdr[r] # <<>> /\ hdr' = [hdr EXCEPT ![r] = Tail(@)]

(* OdinLink keeps early messages, so its batches skip the header barrier   *)
(* once the decode window is gone.                                         *)
SkipsHeader(r, o) == o.kind = "batch" /\ ~mode.barrier /\ ~tp[r].win

StartBulk(r, o) ==
  /\ o.kind \in Bulk
  /\ Issues(r, o)
  /\ Goto(r, IF SkipsHeader(r, o) THEN "drain" ELSE "announce")
  /\ UNCHANGED <<done, gates, tp, nicVars, hdr>>

WriteHeader(r) ==
  /\ op[r].pc = "announce"
  /\ Tell(r, Header(r))
  /\ Goto(r, "header")
  /\ UNCHANGED <<plan, done, gates, tp, nicVars>>

(* Mutated form of SameHeader: the tag that tells a batch from a big gate. *)
SameHeaderAnyTag(a, b) == a.at = b.at /\ a.seq = b.seq

SameHeader(a, b) == a = b

ReadHeader(r) ==
  /\ op[r].pc = "header"
  /\ Hear(r)
  /\ IF SameHeader(Head(hdr[r]), Header(r))
       THEN Goto(r, "drain") /\ UNCHANGED <<tp, done>>
       ELSE ReturnFailed(r)
  /\ UNCHANGED <<plan, gates, nicVars>>

(* tp_rdma_drain_decode_window: filler for every receive of the peer's     *)
(* window, and a completion awaited for every receive of one's own.        *)
DrainFrom(r) == tp[r].last + 1
DrainTo(r) == tp[r].last + Window

DrainCount(r) == Len(ReceivesOf(<<DrainFrom(r), DrainTo(r)>>))

Round(r) == [from |-> op[r].off + 1,
             to |-> IF Current(r).size > op[r].off + BulkSlots
                      THEN op[r].off + BulkSlots ELSE Current(r).size]
RoundLen(r) == Round(r).to - Round(r).from + 1

StartLoop(r, pc, off) == op' = [op EXCEPT ![r] = [pc |-> pc, off |-> off, rd |-> 0, sd |-> 0]]

NothingToDrain(r) ==
  /\ op[r].pc = "drain" /\ ~tp[r].win
  /\ StartLoop(r, "post", 0)
  /\ UNCHANGED <<plan, done, gates, tp, nicVars, hdr>>

SendFiller(r) ==
  /\ op[r].pc = "drain" /\ tp[r].win
  /\ Send(r, Filler(DrainFrom(r), DrainTo(r)))
  /\ StartLoop(r, "drainwait", 0)
  /\ UNCHANGED <<plan, done, gates, tp, rq, unacked, cq, inbuf, hdr>>

PollDrain(r) ==
  /\ op[r].pc = "drainwait"
  /\ Reap(r)
  /\ LET e == Head(cq[r])
     IN op' = IF e.dir = "recv" THEN [op EXCEPT ![r].rd = @ + 1]
              ELSE IF e.tag = "bulk" THEN [op EXCEPT ![r].sd = 1] ELSE op
  /\ UNCHANGED <<plan, done, gates, tp, rq, wire, unacked, inbuf, hdr>>

(* Mutated form of AfterDrain: the gate counter goes back to the start of  *)
(* the window that was drained.                                            *)
AfterDrainRewound(t) == [t EXCEPT !.win = FALSE, !.last = @ - Window]

AfterDrain(t) == [t EXCEPT !.win = FALSE, !.recvDone = t.last,
                           !.auxRecv = t.last, !.auxSend = t.last]

FinishDrain(r) ==
  /\ op[r].pc = "drainwait"
  /\ op[r].rd >= DrainCount(r) /\ op[r].sd = 1
  /\ tp' = [tp EXCEPT ![r] = AfterDrain(@)]
  /\ StartLoop(r, "post", 0)
  /\ UNCHANGED <<plan, done, gates, nicVars, hdr>>

(* tp_rdma_big_gate_exchange: rounds of at most BulkSlots messages.        *)
Opno(r) == Len(plan[r])

PostRound(r) ==
  /\ op[r].pc = "post"
  /\ Post(r, BulkRound(Opno(r), Round(r).from, Round(r).to))
  /\ Goto(r, IF mode.recvReady THEN "tellready" ELSE "bulksend")
  /\ UNCHANGED <<plan, done, gates, tp, wire, unacked, cq, inbuf, hdr>>

(* tp_bulk_ready_exchange: both receive queues are posted before a send.   *)
Ready(r) == [kind |-> "ready", at |-> RoundLen(r), seq |-> Current(r).size,
             from |-> op[r].off]

TellReady(r) ==
  /\ op[r].pc = "tellready"
  /\ Tell(r, Ready(r))
  /\ Goto(r, "ready")
  /\ UNCHANGED <<plan, done, gates, tp, nicVars>>

(* Mutated form of HearReady: the peer's record is not waited for.         *)
HearReadyNoWait(r) ==
  /\ op[r].pc = "ready"
  /\ Goto(r, "bulksend")
  /\ UNCHANGED <<plan, done, gates, tp, nicVars, hdr>>

(* A mismatch is terminal at once: tp_bulk_ready_fail shuts both sockets.  *)
HearReady(r) ==
  /\ op[r].pc = "ready"
  /\ Hear(r)
  /\ IF Head(hdr[r]) = Ready(r)
       THEN Goto(r, "bulksend") /\ UNCHANGED <<tp, done>>
       ELSE /\ Goto(r, "idle")
            /\ tp' = [tp EXCEPT ![r] = [@ EXCEPT !.failed = TRUE, !.closed = TRUE]]
            /\ UNCHANGED done
  /\ UNCHANGED <<plan, gates, nicVars>>

SendRound(r) ==
  /\ op[r].pc = "bulksend"
  /\ Send(r, BulkRound(Opno(r), Round(r).from, Round(r).to))
  /\ StartLoop(r, "bulkwait", op[r].off)
  /\ UNCHANGED <<plan, done, gates, tp, rq, unacked, cq, inbuf, hdr>>

(* Completions of earlier decode sends may still turn up in the bulk loop. *)
PollBulk(r) ==
  /\ op[r].pc = "bulkwait"
  /\ Reap(r)
  /\ LET e == Head(cq[r])
     IN IF e.tag = "bulk"
          THEN /\ op' = IF e.dir = "recv" THEN [op EXCEPT ![r].rd = @ + 1]
                                          ELSE [op EXCEPT ![r].sd = @ + 1]
               /\ UNCHANGED tp
          ELSE /\ tp' = IF e.dir = "recv" /\ e.part = mode.chunks
                          THEN [tp EXCEPT ![r].recvDone = AtLeast(@, e.id)] ELSE tp
               /\ UNCHANGED op
  /\ UNCHANGED <<plan, done, gates, rq, wire, unacked, inbuf, hdr>>

FinishRound(r) ==
  /\ op[r].pc = "bulkwait"
  /\ op[r].rd >= RoundLen(r) /\ op[r].sd >= RoundLen(r)
  /\ IF Round(r).to = Current(r).size
       THEN Return(r)
       ELSE StartLoop(r, "post", Round(r).to) /\ UNCHANGED done
  /\ UNCHANGED <<plan, gates, tp, nicVars, hdr>>

-----------------------------------------------------------------------------
(* Failures.                                                               *)

Polling == {"wait", "auxwait", "drainwait", "bulkwait"}
Posting == {"arm", "send", "post", "bulksend"}

(* A deadline passes, a completion or a post reports an error.  The        *)
(* ordinary header has no deadline.                                        *)
TimeoutOrError(r) ==
  /\ MayFail
  /\ op[r].pc \in Polling \cup Posting
  /\ ReturnFailed(r)
  /\ UNCHANGED <<plan, gates, nicVars, hdr>>

ReadyTimeout(r) ==
  /\ MayFail
  /\ op[r].pc = "ready"
  /\ Goto(r, "idle")
  /\ tp' = [tp EXCEPT ![r] = [@ EXCEPT !.failed = TRUE, !.closed = TRUE]]
  /\ UNCHANGED <<plan, done, gates, nicVars, hdr>>

(* Mutated form of PeerClosed: end of file on the data socket is not seen. *)
PeerClosedPollingOnly(r) ==
  /\ tp[Peer(r)].closed
  /\ op[r].pc \in Polling
  /\ ReturnFailed(r)
  /\ UNCHANGED <<plan, gates, nicVars, hdr>>

(* tp_peer_closed, or end of file on the data socket.                      *)
PeerClosed(r) ==
  /\ tp[Peer(r)].closed
  /\ op[r].pc \in Polling \cup {"header", "ready"}
  /\ op[r].pc \in {"header", "ready"} => hdr[r] = <<>>
  /\ ReturnFailed(r)
  /\ UNCHANGED <<plan, gates, nicVars, hdr>>

(* A rank that failed ends: the worker leaves its command loop, the leader *)
(* shuts down.                                                             *)
Close(r) ==
  /\ tp[r].failed /\ ~tp[r].closed /\ op[r].pc = "idle"
  /\ tp' = [tp EXCEPT ![r].closed = TRUE]
  /\ UNCHANGED <<plan, done, gates, op, nicVars, hdr>>

-----------------------------------------------------------------------------
Start(r) == \E o \in Op : StartGate(r, o) \/ StartAux(r, o) \/ StartBulk(r, o)

Continue(r) ==
  \/ Arm(r) \/ SendGate(r) \/ PollGate(r) \/ FinishGate(r) \/ FinishAux(r)
  \/ WriteHeader(r) \/ ReadHeader(r) \/ NothingToDrain(r) \/ SendFiller(r)
  \/ PollDrain(r) \/ FinishDrain(r) \/ PostRound(r) \/ TellReady(r) \/ HearReady(r)
  \/ SendRound(r) \/ PollBulk(r) \/ FinishRound(r)

Failure(r) == TimeoutOrError(r) \/ ReadyTimeout(r) \/ PeerClosed(r) \/ Close(r)

Step(A) == A /\ UNCHANGED mode

Next == \E r \in Rank :
  Step(Start(r) \/ Continue(r) \/ Failure(r) \/ Deliver(r) \/ Ack(r))

Spec == Init /\ [][Next]_vars

(* An engine that is behind issues the operation its peer has started.     *)
Follow(r) == Len(plan[r]) < Len(plan[Peer(r)]) /\ Start(r)

(* The NIC delivers and completes; a rank inside an operation runs; an     *)
(* engine behind its peer gets there; a failed rank closes; a deadline     *)
(* passes, but only matters when nothing else does.                        *)
Fairness ==
  \A r \in Rank :
    /\ WF_vars(Step(Deliver(r))) /\ WF_vars(Step(Ack(r)))
    /\ WF_vars(Step(Continue(r))) /\ WF_vars(Step(Follow(r)))
    /\ WF_vars(Step(PeerClosed(r))) /\ WF_vars(Step(Close(r)))
    /\ WF_vars(Step(TimeoutOrError(r))) /\ WF_vars(Step(ReadyTimeout(r)))

FairSpec == Spec /\ Fairness

-----------------------------------------------------------------------------
(* Properties.                                                             *)

Idle(r) == op[r].pc = "idle"

TypeOK ==
  /\ mode \in Modes
  /\ plan \in [Rank -> Seq(Op)] /\ done \in [Rank -> Nat] /\ gates \in [Rank -> Nat]
  /\ tp \in [Rank -> [win : BOOLEAN, last : Nat, recvDone : Nat, auxRecv : Nat,
                      auxSend : Nat, failed : BOOLEAN, closed : BOOLEAN]]
  /\ op \in [Rank -> [pc : {"idle", "arm", "send", "wait", "auxwait", "announce", "header",
                            "drain", "drainwait", "post", "tellready", "ready", "bulksend",
                            "bulkwait"}, off : Nat, rd : Nat, sd : Nat]]
  /\ \A r \in Rank : DOMAIN inbuf[r] = Places

ShapesMatch ==
  \A r \in Rank : \A i \in 1 .. Len(rq[r]) :
    i <= Len(wire[r]) => /\ rq[r][i].kind = wire[r][i].kind
                         /\ rq[r][i].part = wire[r][i].part
                         /\ wire[r][i].id \in {0, rq[r][i].id}

DrainCountsWindow ==
  \A r \in Rank :
    op[r].pc = "drain" =>
      Len(rq[r]) + Cardinality({i \in DOMAIN cq[r] : cq[r][i].dir = "recv"})
        = IF tp[r].win THEN DrainCount(r) ELSE 0

(* Receives are posted in exactly the order and shape of what the peer     *)
(* sends: neither the window, the paired auxiliary receives, the drain nor *)
(* the rounds of a bulk gate let a message land in a receive posted for    *)
(* another one.  The drain, which computes from sequence numbers alone     *)
(* what to await, counts each receive still posted or not yet polled, and  *)
(* without a window there is none: bulk rows never meet a decode receive.  *)
ReceivesInStep == ShapesMatch /\ DrainCountsWindow

(* When a gate returned, its slab slot holds the peer's vector, whole, and *)
(* it stays there until the engine goes on: no later message or filler of  *)
(* the peer overtakes the combine kernel.                                  *)
GateResultIntact ==
  \A r \in Rank :
    Idle(r) /\ ~tp[r].failed /\ plan[r] # <<>> =>
      CASE Current(r).kind \in Row ->
             \A p \in 1 .. mode.chunks : inbuf[r][<<"gate", Current(r).at, p>>] = gates[r]
        [] Current(r).kind = "aux" -> inbuf[r][<<"aux", Current(r).at, 1>>] = gates[r]
        [] OTHER ->
             \A p \in 1 .. Current(r).size : inbuf[r][<<"bulk", p>>] = Opno(r)

SlotSentBeforeReuse ==
  \A r \in Rank : \A i \in 1 .. Len(wire[Peer(r)]) :
    LET m == wire[Peer(r)][i]
    IN m.kind = "gate" /\ m.id # 0 => gates[r] < m.id + PerToken

SentAtReturn ==
  \A r \in Rank :
    Idle(r) /\ ~tp[r].failed /\ plan[r] # <<>> /\ Current(r).kind # "gate" =>
      \A i \in 1 .. Len(wire[Peer(r)]) :
        LET m == wire[Peer(r)][i]
        IN /\ Current(r).kind = "rgate" => ~(m.kind = "gate" /\ m.id = gates[r])
           /\ Current(r).kind \in Bulk => m.kind # "bulk"
           /\ Current(r).kind = "aux" => m.kind # "aux"

(* No memory is overwritten while the NIC may still read it.  A registered *)
(* row and the buffers of a bulk gate are the caller's again when the      *)
(* operation returns; an output slot of the slab is rewritten one token    *)
(* later, without waiting for its send: by then the peer has received it,  *)
(* because a gate of that slot cannot start before the peer's next ones    *)
(* have arrived.                                                           *)
PayloadSent == SentAtReturn /\ SlotSentBeforeReuse

(* The transport implements the lock-step exchange it promises.            *)
Abstract == INSTANCE LockstepExchange WITH
  started <- [r \in Rank |-> Len(plan[r])],
  failed <- [r \in Rank |-> tp[r].failed]
ImplementsLockstep == Abstract!Spec

(* Two ranks whose engines diverge never both complete an operation that   *)
(* was not the same one on both.                                           *)
CompletedOpsAgree ==
  \A i \in 1 .. MaxOps :
    i <= done[0] /\ i <= done[1] =>
      /\ plan[0][i].at = plan[1][i].at /\ plan[0][i].size = plan[1][i].size
      /\ plan[0][i].kind = plan[1][i].kind \/ {plan[0][i].kind, plan[1][i].kind} \subseteq Row

(* With receive-ready negotiated, no bulk message meets an empty receive   *)
(* queue.                                                                  *)
NoReceiverNotReady ==
  mode.recvReady =>
    \A r \in Rank : \A i \in 1 .. Len(wire[r]) :
      wire[r][i].kind = "bulk" => i <= Len(rq[r])

(* No rank stays inside an operation: it returns, or it fails.             *)
EveryOpReturns == \A r \in Rank : op[r].pc # "idle" ~> op[r].pc = "idle"
=============================================================================
