---------------------------- MODULE DistPipeline ----------------------------
(***************************************************************************)
(* The layer pipeline of ds4_distributed.c: the coordinator evaluates the  *)
(* first layers of a token span and sends the hidden states to worker 1,   *)
(* which evaluates its layers and forwards them to worker 2, and so on;    *)
(* the last worker answers with logits, and every worker relays the answer *)
(* upstream.  A prompt of several chunks is pipelined by three threads of  *)
(* the coordinator: the producer, the sender and the result reader.        *)
(*                                                                         *)
(* Worker w keeps a control connection to the coordinator, over which      *)
(* worker 1 also gets its work, and connects to worker w + 1 when it first *)
(* has something to forward.  The owner session belongs to one caller at a *)
(* time.  The hash of a token prefix is the prefix: the model's hash has   *)
(* no collisions.                                                          *)
(***************************************************************************)
EXTENDS Integers, Sequences, FiniteSets, FiniteSetsExt, SequencesExt

CONSTANTS
  NWorkers,       (* stages after the coordinator's own                    *)
  Syncs, Evals,   (* prompts the owner may synchronize to, and tokens it   *)
                  (* may evaluate, in its n-th call: bound of the model    *)
  MaxLen,         (* context size, in tokens                               *)
  ChunkCap,       (* tokens of a prefill chunk                             *)
  Window,         (* chunks submitted whose result has not come            *)
  SendDepth,      (* slots between the producer and the sender             *)
  PrefetchDepth,  (* WORK frames a worker has read and not evaluated       *)
  ForwardDepth,   (* requests forwarded and not yet answered               *)
  MayFail,        (* "crash": of a worker; "eval": of a layer evaluation   *)
  NConns,         (* bound of the model: connections at a time             *)
  MaxFaults       (* bound of the model: failures                          *)

Workers == 1 .. NWorkers
Conns == 1 .. NConns
MaxCalls == Len(Syncs)

ASSUME BoundAssumption ==
  {NWorkers, MaxLen, ChunkCap, Window, SendDepth, PrefetchDepth,
   ForwardDepth, NConns} \subseteq Nat \ {0} /\ NWorkers <= NConns
ASSUME CallerAssumption ==
  /\ MayFail \subseteq {"crash", "eval"} /\ MaxFaults \in Nat
  /\ Syncs \in Seq(SUBSET Seq(Nat)) /\ Evals \in Seq(SUBSET Nat) /\ Len(Evals) = MaxCalls
  /\ \A n \in 1 .. MaxCalls : \A p \in Syncs[n] : Len(p) \in 1 .. MaxLen

VARIABLES
  own,     \* [toks, valid]: the owner session's checkpoint
  logits,  \* [of, by]: the prefix the owner's logits are for; history: the
           \* prefixes that stood in the KV caches of the stages behind them
  call,    \* the running call: pc and locals
  ret,     \* [op, ok, goal, worked]: what the last call returned
  plan,    \* [ready, current, fd]: the route; current: of this generation
  snd,     \* [slots, done, stop, rc]: the prefill sender
  rdr,     \* [on, i, done, rc, last]: the result reader; i results came
  next,    \* request_id
  reg,     \* [Workers -> Conns or 0]: control connection of the worker entry
  ses,     \* [Workers -> [toks, valid, hash, known]]: the KV session
  alive,   \* [Workers -> BOOLEAN]
  conn,    \* [Conns -> record]: a connection and the threads serving it
  calls, faults

caller == <<own, logits, call, ret, calls>>
pipe == <<snd, rdr, next>>
route == <<plan, reg>>
work == <<ses, alive>>
vars == <<caller, pipe, route, work, conn, faults>>

(* A connection.  Its near end sends work, its far end, at worker w,       *)
(* evaluates it.  near, far: that end is neither shut nor closed.  The     *)
(* other fields belong to the far end: main, while the worker is in it for *)
(* its control connection; the read loop (rd) with its job queue; the      *)
(* evaluating thread (ev) with the span it has yet to forward; and the     *)
(* forwarder: its connection, its relay thread, its pending ids.           *)
Unused ==
  [w |-> 0, near |-> FALSE, far |-> FALSE, work |-> <<>>, res |-> <<>>,
   main |-> FALSE, rd |-> FALSE, ev |-> FALSE, queue |-> <<>>, closed |-> FALSE, hand |-> <<>>,
   down |-> 0, relay |-> FALSE, pend |-> <<>>, closing |-> FALSE]
Opened(w, main) ==
  [Unused EXCEPT !.w = w, !.near = TRUE, !.far = TRUE, !.main = main, !.rd = TRUE, !.ev = TRUE]

Fresh == [toks |-> <<>>, valid |-> FALSE, hash |-> <<>>, known |-> FALSE]
NoCall ==
  [pc |-> "idle", op |-> "none", goal |-> <<>>, want |-> <<>>, from |-> 0, pos |-> 0,
   reset |-> FALSE, first |-> 0, sub |-> 0, tries |-> 0, rc |-> 0, worked |-> FALSE]
NoRet == [op |-> "none", ok |-> FALSE, goal |-> <<>>, worked |-> FALSE]
NoSender == [slots |-> <<>>, done |-> FALSE, stop |-> FALSE, rc |-> 0]
NoReader == [on |-> FALSE, i |-> 0, done |-> FALSE, rc |-> 0, last |-> [of |-> <<>>, by |-> {}]]

(* Every worker has registered once.                                       *)
Init ==
  /\ own = [toks |-> <<>>, valid |-> FALSE]
  /\ logits = [of |-> <<>>, by |-> {}]
  /\ call = NoCall
  /\ ret = NoRet
  /\ plan = [ready |-> FALSE, current |-> FALSE, fd |-> 0]
  /\ snd = NoSender /\ rdr = NoReader /\ next = 1
  /\ reg = [w \in Workers |-> w]
  /\ ses = [w \in Workers |-> Fresh]
  /\ alive = [w \in Workers |-> TRUE]
  /\ conn = [c \in Conns |-> IF c \in Workers THEN Opened(c, TRUE) ELSE Unused]
  /\ calls = 0 /\ faults = 0

-----------------------------------------------------------------------------
(* Connections. *)

(* Nobody holds a descriptor of c: its slot may serve again.               *)
Idle(cs, c, held) ==
  /\ ~(cs[c].far \/ cs[c].main \/ cs[c].rd \/ cs[c].ev) /\ cs[c].down = 0
  /\ c \notin held
  /\ \A b \in Conns : cs[b].down # c
Entries == {reg[w] : w \in Workers}
Held == {plan.fd} \cup Entries
FreeConns == {c \in Conns : Idle(conn, c, Held)}
Keep(cs, held) == conn' = [c \in Conns |-> IF Idle(cs, c, held) THEN Unused ELSE cs[c]]
Conn(cs) == Keep(cs, Held)

Shut(cs, c) == [cs EXCEPT ![c].near = FALSE]
ShutFar(cs, c) == [cs EXCEPT ![c].far = FALSE]
Broken(c) == ~(conn[c].near /\ conn[c].far)

(* A write fails once this end is shut; when only the peer has closed it   *)
(* may still succeed, and the bytes are lost.                              *)
SendWork(cs, c, job) == IF cs[c].far THEN [cs EXCEPT ![c].work = Append(@, job)] ELSE cs
SendWorkOk(c) == conn[c].near
SendWorkFails(c) == Broken(c)
Answer(cs, c, r) == IF cs[c].near /\ cs[c].far THEN [cs EXCEPT ![c].res = Append(@, r)] ELSE cs
AnswerOk(c) == conn[c].far
AnswerFails(c) == Broken(c)

(* Reading ends once either end is shut; a reset takes what was not read.  *)
HasResult(c) == conn[c].res # <<>>
Received(cs, c) == [cs EXCEPT ![c].res = Tail(@)]

Result(job) ==
  [id |-> job.id, ok |-> TRUE, hash |-> job.pre \o job.toks, ack |-> job.ack, by |-> job.by]
WorkError(id) == [id |-> id, ok |-> FALSE, hash |-> <<>>, ack |-> FALSE, by |-> {}]

(* ds4_session_slice_check_timeline and the commit of the span.            *)
SliceFits(s, pos, n) ==
  /\ pos + n <= MaxLen
  /\ IF s.valid THEN Len(s.toks) = pos ELSE pos = 0

Fault(kind) == kind \in MayFail /\ faults < MaxFaults /\ faults' = faults + 1

-----------------------------------------------------------------------------
(* The coordinator: calls of the owner session. *)

(* dist_coordinator_build_route_plan: every layer is covered by a worker.  *)
Covered == \A w \in Workers : reg[w] # 0
NewPlan == [ready |-> TRUE, current |-> TRUE, fd |-> reg[1]]
NoPlan == [ready |-> FALSE, current |-> FALSE, fd |-> 0]

(* One span is sent and awaited; a longer text is pipelined.               *)
Rest(want, pos) == Len(want) - pos
Chunk(want, pos) == Min({Rest(want, pos), ChunkCap})
Chunks(want, pos) == (Rest(want, pos) + ChunkCap - 1) \div ChunkCap
Span(want, pos, n) == SubSeq(want, pos + 1, pos + n)
Goes(c, want, pos, reset) ==
  LET piped == Rest(want, pos) > ChunkCap
  IN /\ call' = [c EXCEPT !.pc = IF piped THEN "produce" ELSE "span", !.want = want,
                          !.from = pos, !.pos = pos, !.reset = reset, !.first = next,
                          !.sub = 0, !.rc = 0, !.worked = TRUE]
     /\ snd' = NoSender /\ rdr' = [NoReader EXCEPT !.on = piped]

(* ds4_dist_session_sync keeps a checkpoint the prompt extends;            *)
(* ds4_dist_session_eval always does.                                      *)
Returned(c, ok) == [op |-> c.op, ok |-> ok, goal |-> c.goal, worked |-> c.worked]
Dispatch(c) ==
  LET kept == own.valid /\ IsPrefix(own.toks, c.goal)
  IN IF own.valid /\ own.toks = c.goal
     THEN ret' = Returned(c, TRUE) /\ UNCHANGED <<call, snd, rdr>>
     ELSE ret' = NoRet /\ Goes(c, c.goal, IF kept THEN Len(own.toks) ELSE 0, ~kept)

(* A call: dist_session_ensure_route, then the choice of how to go on.     *)
Begin(op, goal) ==
  LET c == [NoCall EXCEPT !.op = op, !.goal = goal]
      reuse == plan.ready /\ plan.current
  IN /\ call.pc = "idle" /\ calls' = calls + 1
     /\ \/ reuse /\ Dispatch(c) /\ UNCHANGED <<plan, conn>>
        \/ ~reuse /\ Covered /\ plan' = NewPlan /\ Keep(conn, Entries) /\ Dispatch(c)
        \/ ~reuse /\ ~Covered /\ plan' = NoPlan /\ Keep(conn, Entries)
           /\ ret' = Returned(c, FALSE) /\ UNCHANGED <<call, snd, rdr>>
     /\ UNCHANGED <<own, logits, next, reg, work, faults>>
Call ==
  /\ calls < MaxCalls
  /\ \/ \E p \in Syncs[calls + 1] : Begin("sync", p)
     \/ \E t \in Evals[calls + 1] :
          own.valid /\ Len(own.toks) < MaxLen /\ Begin("eval", Append(own.toks, t))

(* A failed attempt, with toks in the owner's checkpoint.  The first time  *)
(* dist_coordinator_rebuild_from_transcript starts over from the first     *)
(* token: on the same route when a worker reported the error (rc 2), else  *)
(* on a new one, and every entry of the old one's workers is forgotten.    *)
(* The transcript of an eval is the owner's checkpoint and the token.      *)
Transcript(toks) == IF call.op = "eval" THEN Append(toks, Last(call.goal)) ELSE call.goal
GivesUp == call' = NoCall /\ ret' = Returned(call, FALSE) /\ snd' = NoSender /\ rdr' = NoReader
Fails(rc, toks, cs) ==
  LET again == [call EXCEPT !.tries = 1]
  IN \/ /\ call.tries = 0 /\ rc = 2
        /\ Goes(again, Transcript(toks), 0, TRUE)
        /\ Conn(cs) /\ UNCHANGED <<ret, plan, reg>>
     \/ /\ call.tries = 0 /\ rc # 2
        /\ call' = [again EXCEPT !.pc = "reroute", !.want = Transcript(toks)]
        /\ plan' = [plan EXCEPT !.current = FALSE, !.fd = 0]
        /\ reg' = [w \in Workers |-> 0]
        /\ Keep([c \in Conns |-> [cs[c] EXCEPT !.near = @ /\ c \notin Held]], {})
        /\ snd' = NoSender /\ rdr' = NoReader /\ UNCHANGED ret
     \/ /\ call.tries = 1 /\ GivesUp
        /\ plan' = [plan EXCEPT !.ready = FALSE, !.current = FALSE]
        /\ Conn(cs) /\ UNCHANGED reg

Reroute ==
  /\ call.pc = "reroute"
  /\ \/ Covered /\ plan' = NewPlan /\ Goes(call, call.want, 0, TRUE) /\ UNCHANGED ret
     \/ ~Covered /\ plan' = NoPlan /\ GivesUp
  /\ UNCHANGED <<own, logits, calls, next, reg, work, conn, faults>>

(* The local slice of a span.                                              *)
Start == IF call.reset THEN [toks |-> <<>>, valid |-> FALSE] ELSE own
Committed(s, ts) == [s EXCEPT !.toks = @ \o ts, !.valid = TRUE]

(* dist_coordinator_eval_span: the local slice, then one WORK frame.       *)
Job(ts, ack) ==
  [id |-> next, pre |-> Start.toks, toks |-> ts, reset |-> call.reset, ack |-> ack,
   by |-> {Start.toks \o ts}]
EvalSpan ==
  LET n == Chunk(call.want, call.pos)
      ts == Span(call.want, call.pos, n)
      fits == SliceFits(Start, call.pos, n)
      done == Committed(Start, ts)
      broke == [Start EXCEPT !.valid = FALSE]
  IN /\ call.pc = "span" /\ next' = next + 1
     /\ \/ /\ fits /\ SendWorkOk(plan.fd) /\ own' = done
           /\ call' = [call EXCEPT !.pc = "await", !.first = next]
           /\ Conn(SendWork(conn, plan.fd, Job(ts, FALSE)))
           /\ UNCHANGED <<ret, plan, reg, snd, rdr, faults>>
        \/ /\ fits /\ SendWorkFails(plan.fd) /\ own' = done
           /\ Fails(1, done.toks, conn) /\ UNCHANGED faults
        \/ fits /\ Fault("eval") /\ own' = broke /\ Fails(1, Start.toks, conn)
        \/ ~fits /\ own' = Start /\ Fails(1, Start.toks, conn) /\ UNCHANGED faults
     /\ UNCHANGED <<logits, calls, work>>

(* dist_recv_result_alloc: 0, 1, or 2 for an error the worker reported.    *)
Verdict(r, id, hash) ==
  IF r.id # id THEN 1 ELSE IF ~r.ok THEN 2 ELSE IF r.hash # hash THEN 1 ELSE 0

Succeeds == call' = NoCall /\ ret' = Returned(call, TRUE)
AwaitResult ==
  LET r == Head(conn[plan.fd].res)
      rc == Verdict(r, call.first, own.toks)
      pos == Len(own.toks)
      cs == Received(conn, plan.fd)
  IN /\ call.pc = "await" /\ HasResult(plan.fd)
     /\ \/ rc # 0 /\ Fails(rc, own.toks, cs) /\ UNCHANGED logits
        \/ /\ rc = 0 /\ logits' = [of |-> r.hash, by |-> r.by] /\ Conn(cs)
           /\ IF pos = Len(call.want) THEN Succeeds
              ELSE call' = [call EXCEPT !.pc = "span", !.pos = pos, !.reset = FALSE]
                   /\ UNCHANGED ret
           /\ UNCHANGED <<plan, reg, snd, rdr>>
     /\ UNCHANGED <<own, calls, next, work, faults>>

AwaitEof ==
  /\ call.pc = "await" /\ Broken(plan.fd) /\ Fails(1, own.toks, conn)
  /\ UNCHANGED <<own, logits, calls, next, work, faults>>

-----------------------------------------------------------------------------
(* The pipelined prefill: the producer. *)

(* The producer leaves its loop: dist_prefill_sender_finish, or _cancel,    *)
(* which shuts the connection.                                             *)
Stops(rc) ==
  /\ call' = [call EXCEPT !.pc = "join", !.rc = rc]
  /\ snd' = [snd EXCEPT !.done = TRUE, !.stop = @ \/ rc # 0]
  /\ Conn(IF rc # 0 THEN Shut(conn, plan.fd) ELSE conn)
  /\ UNCHANGED next

(* dist_prefill_reader_wait_flow_window, then a free slot of the sender,   *)
(* the local slice written into it, and the slot handed over.  A sender    *)
(* that stops while the slice runs leaves the slot unsent.                 *)
HasRoomForOneMore == call.sub <= rdr.i + Window
HasRoom == call.sub < rdr.i + Window
SlotFree == Len(snd.slots) < SendDepth
Stopped == snd.stop \/ snd.rc # 0
Slot(ts) ==
  [id |-> next, pre |-> Start.toks, toks |-> ts, reset |-> call.reset,
   ack |-> Rest(call.want, call.pos) > ChunkCap, by |-> {Start.toks \o ts}]
Submits(ts) ==
  /\ snd' = [snd EXCEPT !.slots = Append(@, Slot(ts))] /\ next' = next + 1
  /\ call' = [call EXCEPT !.reset = FALSE, !.sub = @ + 1, !.pos = @ + Len(ts)]
  /\ UNCHANGED conn
Produce ==
  LET more == call.pos < Len(call.want)
      n == Chunk(call.want, call.pos)
      ts == Span(call.want, call.pos, n)
      fits == SliceFits(Start, call.pos, n)
      ready == more /\ ~rdr.done /\ HasRoom /\ SlotFree /\ ~Stopped
  IN /\ call.pc = "produce"
     /\ \/ ~more /\ Stops(0) /\ UNCHANGED <<own, faults>>
        \/ more /\ (rdr.done \/ (HasRoom /\ Stopped)) /\ Stops(1) /\ UNCHANGED <<own, faults>>
        \/ ready /\ fits /\ own' = Committed(Start, ts) /\ Submits(ts) /\ UNCHANGED faults
        \/ ready /\ fits /\ Fault("eval") /\ own' = [Start EXCEPT !.valid = FALSE] /\ Stops(1)
        \/ ready /\ ~fits /\ own' = Start /\ Stops(1) /\ UNCHANGED faults
     /\ UNCHANGED <<logits, calls, ret, rdr, route, work>>

(* Both threads are joined; the reader's verdict comes first.              *)
SenderOver == snd.stop \/ (snd.slots = <<>> /\ snd.done)
Join ==
  LET rc == IF rdr.rc # 0 THEN rdr.rc ELSE IF snd.rc # 0 THEN 1 ELSE call.rc
  IN /\ call.pc = "join" /\ SenderOver /\ ~rdr.on
     /\ \/ rc # 0 /\ Fails(rc, own.toks, conn) /\ UNCHANGED logits
        \/ /\ rc = 0 /\ logits' = rdr.last /\ Succeeds
           /\ snd' = NoSender /\ rdr' = NoReader /\ UNCHANGED <<plan, reg, conn>>
     /\ UNCHANGED <<own, calls, next, work, faults>>

-----------------------------------------------------------------------------
(* The sender and the result reader of a pipelined prefill. *)

SenderSends ==
  /\ ~snd.stop /\ snd.slots # <<>>
  /\ \/ /\ SendWorkOk(plan.fd) /\ Conn(SendWork(conn, plan.fd, Head(snd.slots)))
        /\ snd' = [snd EXCEPT !.slots = Tail(@)]
     \/ /\ SendWorkFails(plan.fd) /\ Conn(Shut(conn, plan.fd))
        /\ snd' = [snd EXCEPT !.stop = TRUE, !.rc = 1]
  /\ UNCHANGED <<caller, rdr, next, route, work, faults>>

(* The hash expected after chunk i + 1; the last one carries the logits.   *)
ChunkCount == Chunks(call.want, call.from)
Expected(i) == SubSeq(call.want, 1, Min({call.from + (i + 1) * ChunkCap, Len(call.want)}))
ReaderFailsQuietly(rc) == rdr' = [rdr EXCEPT !.on = FALSE, !.rc = rc]
ReaderFails(rc) == rdr' = [rdr EXCEPT !.on = FALSE, !.done = TRUE, !.rc = rc]
ReaderTakes ==
  LET r == Head(conn[plan.fd].res)
      last == rdr.i + 1 = ChunkCount
      v == Verdict(r, call.first + rdr.i, Expected(rdr.i))
      rc == IF v = 0 /\ last /\ r.ack THEN 1 ELSE v
  IN /\ rdr.on /\ HasResult(plan.fd)
     /\ IF rc # 0
        THEN ReaderFails(rc) /\ Conn(Shut(Received(conn, plan.fd), plan.fd))
        ELSE /\ rdr' = [rdr EXCEPT !.i = @ + 1, !.done = last, !.on = ~last,
                                   !.last = [of |-> r.hash, by |-> r.by]]
             /\ Conn(Received(conn, plan.fd))
     /\ UNCHANGED <<caller, snd, next, route, work, faults>>

ReaderEof ==
  /\ rdr.on /\ Broken(plan.fd) /\ ReaderFails(1) /\ Conn(Shut(conn, plan.fd))
  /\ UNCHANGED <<caller, snd, next, route, work, faults>>

Coordinator ==
  \/ EvalSpan \/ AwaitResult \/ AwaitEof \/ Reroute
  \/ Produce \/ Join \/ SenderSends \/ ReaderTakes \/ ReaderEof

-----------------------------------------------------------------------------
(* The worker: the read loop and the evaluating thread of connection c. *)

Serving(c) == UNCHANGED <<caller, pipe, route>>
On(c) == conn[c].w

QueueRoom(c) == Len(conn[c].queue) < PrefetchDepth
Finish(cs, c) == [cs EXCEPT ![c].closed = TRUE]
Cancel(cs, c) == [cs EXCEPT ![c].closed = TRUE, ![c].queue = <<>>]
ReadWork(c) ==
  /\ conn[c].rd /\ conn[c].work # <<>>
  /\ LET cs == [conn EXCEPT ![c].work = Tail(@)]
     IN \/ ~conn[c].closed /\ QueueRoom(c)
           /\ Conn([cs EXCEPT ![c].queue = Append(@, Head(conn[c].work))])
        \/ conn[c].closed /\ Conn([Cancel(cs, c) EXCEPT ![c].rd = FALSE])
  /\ Serving(c) /\ UNCHANGED <<work, faults>>

(* Nothing serves c any more: it is closed, the forwarder's connection     *)
(* with it, and the control connection takes the KV sessions.              *)
Served(cs, c) ==
  /\ cs[c].w # 0 /\ ~cs[c].rd
  /\ ~cs[c].ev \/ (cs[c].hand = <<>> /\ cs[c].queue = <<>>)
Over(cs, c) == Served(cs, c) /\ ~cs[c].relay
HangsUp(cs, c) ==
  LET w == cs[c].w
      d == cs[c].down
      closed == [cs EXCEPT ![c] = [Unused EXCEPT !.w = w, !.near = cs[c].near, !.res = cs[c].res]]
  IN IF Over(cs, c)
     THEN /\ Conn(IF d = 0 THEN closed ELSE Shut(closed, d))
          /\ ses' = IF cs[c].main THEN [ses EXCEPT ![w] = Fresh] ELSE ses
     ELSE Conn(cs) /\ UNCHANGED ses

(* End of file lets the queue be evaluated; a broken read cancels it.      *)
ReadEnds(c) ==
  /\ conn[c].rd /\ Broken(c)
  /\ LET cs == [conn EXCEPT ![c].rd = FALSE]
     IN HangsUp(Finish(cs, c), c) \/ HangsUp(Cancel(cs, c), c)
  /\ Serving(c) /\ UNCHANGED <<alive, faults>>

(* A failed answer ends the thread, cancels the queue, shuts the socket.   *)
EvalFails(cs, c) == ShutFar([Cancel(cs, c) EXCEPT ![c].ev = FALSE], c)
Replies(cs, c, r) ==
  \/ AnswerOk(c) /\ Conn(Answer(cs, c, r))
  \/ AnswerFails(c) /\ Conn(EvalFails(cs, c))

(* dist_worker_process_work_payload, up to its answer or its forward.      *)
HasNext(w) == w < NWorkers
Opening(s, job) ==
  IF job.reset THEN [toks |-> <<>>, valid |-> FALSE, hash |-> <<>>, known |-> TRUE]
  ELSE IF s.known THEN s ELSE [s EXCEPT !.hash = s.toks, !.known = TRUE]
PrefixAgreesByLength(s, job) == Len(s.hash) = Len(job.pre)
PrefixAgrees(s, job) == s.hash = job.pre
Evaluate(c) ==
  LET w == On(c)
      job == Head(conn[c].queue)
      s == Opening(ses[w], job)
      cs == [conn EXCEPT ![c].queue = Tail(@)]
      done == [s EXCEPT !.toks = @ \o job.toks, !.valid = TRUE, !.hash = job.pre \o job.toks]
      out == [job EXCEPT !.by = @ \cup {done.toks}]
      fits == SliceFits(s, Len(job.pre), Len(job.toks))
  IN /\ conn[c].ev /\ conn[c].hand = <<>> /\ conn[c].queue # <<>>
     /\ \/ /\ ~PrefixAgrees(s, job)
           /\ ses' = [ses EXCEPT ![w] = s]
           /\ Replies(cs, c, WorkError(job.id)) /\ UNCHANGED faults
        \/ /\ PrefixAgrees(s, job) /\ ~fits
           /\ ses' = [ses EXCEPT ![w] = [s EXCEPT !.known = FALSE]]
           /\ Replies(cs, c, WorkError(job.id)) /\ UNCHANGED faults
        \/ /\ PrefixAgrees(s, job) /\ fits /\ Fault("eval")
           /\ ses' = [ses EXCEPT ![w] = [s EXCEPT !.valid = FALSE, !.known = FALSE]]
           /\ Replies(cs, c, WorkError(job.id))
        \/ /\ PrefixAgrees(s, job) /\ fits
           /\ ses' = [ses EXCEPT ![w] = done]
           /\ IF HasNext(w) THEN Conn([cs EXCEPT ![c].hand = <<out>>])
              ELSE Replies(cs, c, Result(out))
           /\ UNCHANGED faults
     /\ Serving(c) /\ UNCHANGED alive

-----------------------------------------------------------------------------
(* Forwarding to the next worker, and the relay of its answers. *)

Forwarding(c) == conn[c].ev /\ conn[c].hand # <<>>
Dropped(c) == [conn EXCEPT ![c].hand = <<>>]
InHand(c) == conn[c].hand[1]

(* dist_worker_get_forwarder: one connection to the next hop, kept.        *)
Connect(c) ==
  LET next_w == On(c) + 1
  IN /\ Forwarding(c) /\ conn[c].down = 0
     /\ \/ /\ alive[next_w] /\ FreeConns # {}
           /\ LET d == Min(FreeConns)
              IN Conn([conn EXCEPT ![d] = Opened(next_w, FALSE), ![c].down = d, ![c].relay = TRUE])
        \/ ~alive[next_w] /\ Replies(Dropped(c), c, WorkError(InHand(c).id))
     /\ Serving(c) /\ UNCHANGED <<work, faults>>

(* dist_forward_work_to_next: the id is pending before the frame is sent.  *)
PendingRoom(c) == Len(conn[c].pend) < ForwardDepth
PendingFirst(cs, c, id) == [cs EXCEPT ![c].pend = <<id>> \o @]
Pending(cs, c, id) == [cs EXCEPT ![c].pend = Append(@, id)]
Forward(c) ==
  LET d == conn[c].down
      job == InHand(c)
  IN /\ Forwarding(c) /\ d # 0
     /\ \/ conn[c].closing /\ Replies(Dropped(c), c, WorkError(job.id))
        \/ /\ ~conn[c].closing /\ PendingRoom(c) /\ SendWorkOk(d)
           /\ Conn(SendWork(Pending(Dropped(c), c, job.id), d, job))
        \/ /\ ~conn[c].closing /\ PendingRoom(c) /\ SendWorkFails(d)
           /\ IF AnswerOk(c)
              THEN Conn(ShutFar(Answer(Shut(Dropped(c), d), c, WorkError(job.id)), c))
              ELSE Conn(EvalFails(Shut(Dropped(c), d), c))
     /\ Serving(c) /\ UNCHANGED <<work, faults>>

(* dist_worker_forwarder_relay_main: answers come in the order of the ids. *)
RelayEnds(cs, c) == ShutFar([cs EXCEPT ![c].relay = FALSE, ![c].closing = TRUE], c)
Popped(cs, c) == [cs EXCEPT ![c].pend = IF @ = <<>> THEN @ ELSE Tail(@)]
RelayError(cs, c) ==
  IF conn[c].pend = <<>> THEN cs
  ELSE Answer(Popped(cs, c), c, WorkError(Head(conn[c].pend)))
Relay(c) ==
  LET d == conn[c].down
      r == Head(conn[d].res)
      cs == Received(conn, d)
      expected == conn[c].pend # <<>> /\ r.id = Head(conn[c].pend)
  IN /\ conn[c].relay /\ HasResult(d)
     /\ \/ ~expected /\ Conn(RelayEnds(RelayError(cs, c), c))
        \/ expected /\ AnswerOk(c) /\ Conn(Answer(Popped(cs, c), c, r))
        \/ expected /\ AnswerFails(c) /\ Conn(RelayEnds(Popped(cs, c), c))
     /\ Serving(c) /\ UNCHANGED <<work, faults>>

RelayEof(c) ==
  /\ conn[c].relay /\ Broken(conn[c].down)
  /\ HangsUp(RelayEnds(RelayError(conn, c), c), c)
  /\ Serving(c) /\ UNCHANGED <<alive, faults>>

(* dist_worker_upstream_destroy: the forwarder's connection is shut, its   *)
(* relay joined; then the connection is closed.                            *)
CloseForwarder(c) ==
  /\ Served(conn, c) /\ conn[c].relay /\ conn[conn[c].down].near
  /\ Conn([Shut(conn, conn[c].down) EXCEPT ![c].closing = TRUE])
  /\ Serving(c) /\ UNCHANGED <<work, faults>>

Disconnect(c) ==
  /\ Over(conn, c) /\ (conn[c].far \/ conn[c].main \/ conn[c].ev \/ conn[c].down # 0)
  /\ HangsUp(conn, c)
  /\ Serving(c) /\ UNCHANGED <<alive, faults>>

Worker(c) ==
  \/ ReadWork(c) \/ ReadEnds(c) \/ Evaluate(c) \/ Connect(c) \/ Forward(c)
  \/ Relay(c) \/ RelayEof(c) \/ CloseForwarder(c) \/ Disconnect(c)

-----------------------------------------------------------------------------
(* Registration, and failures. *)

(* dist_run_worker connects, dist_coordinator_add_worker replaces the entry. *)
Register(w) ==
  /\ alive[w] /\ FreeConns # {}
  /\ \A c \in Conns : ~(conn[c].w = w /\ conn[c].main)
  /\ LET c == Min(FreeConns)
     IN /\ reg' = [reg EXCEPT ![w] = c]
        /\ plan' = [plan EXCEPT !.current = FALSE]
        /\ Keep([conn EXCEPT ![c] = Opened(w, TRUE)],
                {plan.fd} \cup {reg[v] : v \in Workers \ {w}})
  /\ UNCHANGED <<caller, pipe, work, faults>>

(* dist_coordinator_monitor_worker_fd sees a hang-up or a reset.           *)
Monitor(w) ==
  /\ reg[w] # 0 /\ Broken(reg[w])
  /\ reg' = [reg EXCEPT ![w] = 0] /\ plan' = [plan EXCEPT !.current = FALSE]
  /\ Keep(conn, {plan.fd} \cup {reg[v] : v \in Workers \ {w}})
  /\ UNCHANGED <<caller, pipe, work, faults>>

(* The process of worker w dies: its sockets close, its KV caches are gone. *)
Crash(w) ==
  /\ alive[w] /\ Fault("crash")
  /\ alive' = [alive EXCEPT ![w] = FALSE]
  /\ ses' = [ses EXCEPT ![w] = Fresh]
  /\ LET downs == {conn[c].down : c \in {b \in Conns : conn[b].w = w}}
         Dead(c) == [Unused EXCEPT !.w = w, !.near = conn[c].near, !.res = conn[c].res]
     IN Conn([c \in Conns |-> IF conn[c].w = w THEN Dead(c)
                              ELSE IF c \in downs THEN [conn[c] EXCEPT !.near = FALSE]
                              ELSE conn[c]])
  /\ UNCHANGED <<caller, pipe, route>>

Restart(w) ==
  /\ ~alive[w] /\ alive' = [alive EXCEPT ![w] = TRUE]
  /\ UNCHANGED <<caller, pipe, route, ses, conn, faults>>

(* The owner makes no further call.                                        *)
Finished == call.pc = "idle" /\ calls = MaxCalls /\ UNCHANGED vars

Steps == Coordinator \/ \E c \in Conns : Worker(c)
Next ==
  \/ Call \/ Steps \/ Finished
  \/ \E w \in Workers : Register(w) \/ Monitor(w) \/ Crash(w) \/ Restart(w)

Spec == Init /\ [][Next]_vars

-----------------------------------------------------------------------------
(* Properties. *)

(* The queues keep their depths: the sender's slots, the jobs a worker     *)
(* prefetched, the requests it forwarded, and the window of submitted      *)
(* chunks whose result is missing (src/ds4_distributed.c:3320-3341).       *)
TypeOK ==
  /\ own.toks \in Seq(Nat) /\ Len(own.toks) <= MaxLen
  /\ Len(snd.slots) <= SendDepth /\ (rdr.on => call.sub <= rdr.i + Window)
  /\ \A w \in Workers : reg[w] \in Conns \cup {0}
  /\ \A c \in Conns : Len(conn[c].queue) <= PrefetchDepth /\ Len(conn[c].pend) <= ForwardDepth

(* Logits handed back by a call that evaluated something are those of the  *)
(* owner's checkpoint, and every stage computed its part on exactly that   *)
(* prefix, whatever stale work, reset or restart came between.             *)
LogitsOfTranscript ==
  ret.ok /\ ret.worked =>
    own.valid /\ logits.of = own.toks /\ logits.by = {own.toks}

Ids(s) == [i \in DOMAIN s |-> s[i].id]
Healthy(c) == conn[c].near /\ conn[c].far /\ conn[c].rd /\ conn[c].ev
(* While the connection to the next worker works, the requests pending in  *)
(* the forwarder are, in order, those answered, forwarded further, held,   *)
(* queued and on their way: the relay can pair answers by position.  Only  *)
(* an error report can come too early, from a worker whose own forwarder   *)
(* waits for earlier answers, and then its id tells the relay.             *)
Downstream(d) ==
  Ids(conn[d].res) \o conn[d].pend \o Ids(conn[d].hand) \o Ids(conn[d].queue) \o Ids(conn[d].work)
ErrorOvertook(c, d) ==
  \E i \in DOMAIN conn[d].res \cap DOMAIN conn[c].pend :
    ~conn[d].res[i].ok /\ conn[d].res[i].id # conn[c].pend[i]
PendingInOrder ==
  \A c \in Conns :
    LET d == conn[c].down
    IN conn[c].relay /\ ~conn[c].closing /\ Healthy(d) =>
         conn[c].pend = Downstream(d) \/ ErrorOvertook(c, d)

(* src/ds4_distributed.h:93 says of ds4_dist_session_eval "Evaluate one    *)
(* additional token across the current distributed route": a call that     *)
(* succeeds leaves the checkpoint one token longer than it found it.       *)
OneTokenPerEval == ret.op = "eval" /\ ret.ok => own.toks = ret.goal

(* src/ds4_distributed.h:83 says of ds4_dist_session_sync "Synchronize the *)
(* distributed KV state to the requested prompt timeline": after a call    *)
(* that succeeds the logits are those of the prompt.                       *)
SyncMeansSynced == ret.op = "sync" /\ ret.ok => logits.of = ret.goal

(* A call in progress never waits for a step that nobody will take.        *)
CallNeverStuck == call.pc # "idle" => ENABLED Steps
=============================================================================
