------------------------------ MODULE TpControl ------------------------------
(***************************************************************************)
(* The lock-step control plane of a tensor-parallel pair (ds4_tp.c, and    *)
(* the session calls of ds4.c that use it).  The leader mirrors every      *)
(* session call to the worker over a TCP socket before it does its own     *)
(* half; the worker runs one command after the other.  The graphs of the   *)
(* two meet in the gates, of which this module uses only what              *)
(* LockstepExchange promises: the n-th graph of a rank can end well only   *)
(* if the peer has begun its own n-th graph.                               *)
(*                                                                         *)
(* Rank 0 is the leader, rank 1 the worker.  Calls of the leader are       *)
(* serialised by the server (inference_mu); the worker is one loop.        *)
(***************************************************************************)
EXTENDS Integers, Sequences, FiniteSets, SequencesExt

CONSTANTS
  Sessions,     (* ids the leader gives out, in order                      *)
  Prompts,      (* <<line, n>>: the first n tokens of a conversation       *)
  MaxLen,       (* context size, in tokens                                 *)
  MaxBlock,     (* DS4_DSPARK_MAX_BLOCK_SIZE: drafts verified at once      *)
  PrefixSlots,  (* DS4_SPEC_PREFIX_SLOTS: captured prefixes of a block     *)
  Modes,        (* of [family, split]: how the model drafts, and whether   *)
                (* the worker computes, and sends, half of the logits      *)
  LocalFaults,  (* <<rank, work, when>>: what may fail on that rank alone: *)
                (* before, within or after the gates of its graph          *)
  MayCrash,     (* the worker process may die                              *)
  MaxCalls      (* bound of the model: calls of the leader                 *)

Rank == {0, 1}
Peer(r) == 1 - r
Work == {"create", "sync", "eval", "batch", "verify", "replay", "native"}

ASSUME SessionAssumption ==
  IsFiniteSet(Sessions) /\ Sessions = 1 .. Cardinality(Sessions)
ASSUME BoundAssumption ==
  {MaxLen, MaxBlock, PrefixSlots, MaxCalls} \subseteq Nat \ {0}
ASSUME ModeAssumption ==
  /\ Modes \subseteq [family : {"dspark", "native"}, split : BOOLEAN]
  /\ MayCrash \in BOOLEAN
  /\ Prompts \subseteq (Nat \ {0}) \X (1 .. MaxLen)
  /\ LocalFaults \subseteq Rank \X Work \X {"before", "within", "after"}

VARIABLES
  mode,     \* of the loaded model and its hello
  mirror,   \* [Rank -> [Sessions -> Session]]: the session and its mirror
  pc, job,  \* [Rank -> ...]: where the rank is, and in which command
  loc,      \* [Rank -> record]: locals of the running call
  chan,     \* [Rank -> Seq(Frame)]: frames on their way to the rank
  up,       \* [Rank -> BOOLEAN]: the rank has not shut its control socket
  failed,   \* [Rank -> BOOLEAN]: ds4_tp_failed
  graphs,   \* [Rank -> [n, work, broke]]: graphs begun, the last one's work,
            \* and the first one whose gates the rank left unfinished (or 0)
  calls,    \* calls of the leader so far
  created   \* next_session_id: sessions created so far

sock == <<chan, up>>
vars == <<mode, mirror, pc, job, loc, sock, failed, graphs, calls, created>>

(* A session: len tokens of a conversation are in its checkpoint, and its  *)
(* recurrent state stands for the first front of them.  cycle counts the   *)
(* native cycles.                                                          *)
Closed == [open |-> FALSE, line |-> 0, len |-> 0, front |-> 0, valid |-> FALSE, cycle |-> 0]
Job == [op |-> "none", c |-> 0, s |-> 0, items |-> {}, line |-> 0, n |-> 0, at |-> 0, k |-> 0]
Loc == [ok |-> TRUE, want |-> 0, start |-> 0, acc |-> 0, phase |-> 0]

Init ==
  /\ mode \in Modes
  /\ mirror = [r \in Rank |-> [s \in Sessions |-> Closed]]
  /\ pc = [r \in Rank |-> IF r = 0 THEN "idle" ELSE "loop"]
  /\ job = [r \in Rank |-> Job] /\ loc = [r \in Rank |-> Loc]
  /\ chan = [r \in Rank |-> <<>>] /\ up = [r \in Rank |-> TRUE]
  /\ failed = [r \in Rank |-> FALSE]
  /\ graphs = [r \in Rank |-> [n |-> 0, work |-> {}, broke |-> 0]]
  /\ calls = 0 /\ created = 0

-----------------------------------------------------------------------------
(* The control socket.  Frames carry, as history, the call they belong to. *)

Cmd(j) == [t |-> "cmd", j |-> [j EXCEPT !.c = calls + 1]]
Ack(j, status) == [t |-> "ack", c |-> j.c, s |-> j.s, status |-> status]
Logits(j) == [t |-> "logits", c |-> j.c]
Commit(full, k) == [t |-> "commit", c |-> job[0].c, full |-> full, k |-> k]
Agreement(r, phase, bad) ==
  [t |-> "agree", c |-> job[r].c, phase |-> phase, acc |-> loc[r].acc, bad |-> bad]

(* A write to a socket the peer has closed is lost or fails.               *)
Put(c, r, fs) == [c EXCEPT ![Peer(r)] = IF up[Peer(r)] THEN @ \o fs ELSE @]
Taken(r) == [chan EXCEPT ![r] = Tail(@)]
Write(r, fs) == chan' = Put(chan, r, fs)
WriteOk(r) == up[r]
WriteFails(r) == ~(up[r] /\ up[Peer(r)])

Arrives(r, t) == up[r] /\ chan[r] # <<>> /\ Head(chan[r]).t = t
Take(r) == chan' = Taken(r)

(* End of file, a reset, or a frame of another type; the read of an        *)
(* ordinary frame has no deadline.                                         *)
ReadFails(r, t) ==
  \/ ~up[r]
  \/ ~up[Peer(r)] /\ chan[r] = <<>>
  \/ chan[r] # <<>> /\ Head(chan[r]).t # t

Goto(r, p) == pc' = [pc EXCEPT ![r] = p]
S(r) == mirror[r][job[r].s]
SetSession(r, s, m) == mirror' = [mirror EXCEPT ![r][s] = m]
MarkFailed(r) == failed' = [failed EXCEPT ![r] = TRUE]

(* ds4_session_invalidate of some sessions, without its frame.             *)
Dropped(r, ss) ==
  [mirror EXCEPT ![r] = [s \in Sessions |->
     IF s \in ss THEN [@[s] EXCEPT !.line = 0, !.len = 0, !.front = 0, !.valid = FALSE]
                 ELSE @[s]]]

InvalidateFrames(ss) ==
  SetToSeq({[t |-> "cmd", j |-> [Job EXCEPT !.op = "invalidate", !.s = s]] : s \in ss})

(* Locals of a call are gone when it returns.                              *)
Leave(r, p) ==
  /\ Goto(r, p)
  /\ job' = [job EXCEPT ![r] = Job] /\ loc' = [loc EXCEPT ![r] = Loc]
Return == Leave(0, "idle")

(* The worker's process ends, after it sent fs: its sessions are freed, its *)
(* socket closes and what it had not read is lost.                         *)
Exit(fs) ==
  /\ Leave(1, "gone")
  /\ mirror' = [mirror EXCEPT ![1] = [s \in Sessions |-> Closed]]
  /\ up' = [up EXCEPT ![1] = FALSE]
  /\ chan' = [chan EXCEPT ![1] = <<>>, ![0] = IF up[0] THEN @ \o fs ELSE @]

-----------------------------------------------------------------------------
(* Calls of the leader: send the command, then start one's own half.       *)

Calling == pc[0] = "idle" /\ calls < MaxCalls /\ calls' = calls + 1
Calls(j) ==
  /\ Calling
  /\ j.op # "create" => mirror[0][j.s].open
  /\ UNCHANGED <<mode, up, graphs>>

(* Where a verified block starts, for its rollback.                        *)
Checkpoint(r, j) == IF j.op = "verify" THEN mirror[r][j.s].len ELSE 0

Sends(j, p) ==
  /\ WriteOk(0)
  /\ Write(0, <<Cmd(j)>>)
  /\ job' = [job EXCEPT ![0] = [j EXCEPT !.c = calls + 1]]
  /\ loc' = [loc EXCEPT ![0].start = Checkpoint(0, j)]
  /\ Goto(0, p)
  /\ UNCHANGED <<mirror, failed>>

(* ds4_session_tp_register and ds4_session_free.                           *)
Create ==
  LET s == created + 1
      j == [Job EXCEPT !.op = "create", !.s = s]
  IN /\ s \in Sessions
     /\ Calls(j)
     /\ created' = s
     /\ \/ Sends(j, "ack")
        \/ WriteFails(0) /\ UNCHANGED <<mirror, pc, job, loc, chan, failed>>

Destroy(s) ==
  LET j == [Job EXCEPT !.op = "destroy", !.s = s]
  IN /\ Calls(j)
     /\ UNCHANGED created
     /\ \/ ~failed[0] /\ Sends(j, "ack")
        \/ /\ failed[0] \/ WriteFails(0)
           /\ SetSession(0, s, Closed)
           /\ UNCHANGED <<pc, job, loc, chan, failed>>

(* ds4_session_sync of a prompt.                                           *)
Sync(s, p) ==
  LET j == [Job EXCEPT !.op = "sync", !.s = s, !.line = p[1], !.n = p[2]]
  IN /\ Calls(j)
     /\ UNCHANGED created
     /\ \/ Sends(j, "run")
        \/ WriteFails(0) /\ MarkFailed(0) /\ UNCHANGED <<mirror, pc, job, loc, chan>>

HasRoomForOneMore(s, n) == mirror[0][s].valid /\ mirror[0][s].len + n <= MaxLen + 1
HasRoom(s, n) == mirror[0][s].valid /\ mirror[0][s].len + n <= MaxLen

(* ds4_session_eval: one more token of the session's conversation.         *)
Eval(s) ==
  LET j == [Job EXCEPT !.op = "eval", !.s = s]
  IN /\ Calls(j) /\ HasRoom(s, 1)
     /\ UNCHANGED created
     /\ \/ Sends(j, "run")
        \/ WriteFails(0) /\ MarkFailed(0) /\ UNCHANGED <<mirror, pc, job, loc, chan>>

(* ds4_sessions_eval_batch (s = 0) and its mixed form, in which a prefill  *)
(* of session s must extend its checkpoint.                                *)
Batch(s, p, items) ==
  LET j == [Job EXCEPT !.op = "batch", !.s = s, !.line = p[1], !.n = p[2], !.items = items]
      all == items \cup ({s} \ {0})
  IN /\ mode.family = "dspark"
     /\ Calling
     /\ \A i \in items : mirror[0][i].open /\ HasRoom(i, 1)
     /\ Cardinality(all) > 1 /\ items # {} /\ s \notin items
     /\ IF s = 0 THEN p = <<0, 0>>
        ELSE mirror[0][s].valid /\ mirror[0][s].line = p[1] /\ mirror[0][s].len < p[2]
     /\ UNCHANGED <<mode, up, graphs, created>>
     /\ \/ Sends(j, "run")
        \/ /\ WriteFails(0)
           /\ mirror' = Dropped(0, all)
           /\ UNCHANGED <<pc, job, loc, chan, failed>>

(* ds4_session_eval_dspark_speculative_argmax, from the announcement of n  *)
(* drafts on; the token before them is an ordinary Eval.                   *)
Verify(s, n) ==
  LET j == [Job EXCEPT !.op = "verify", !.s = s, !.n = n]
  IN /\ mode.family = "dspark"
     /\ Calls(j) /\ HasRoom(s, n)
     /\ UNCHANGED created
     /\ \/ Sends(j, "run")
        \/ WriteFails(0) /\ UNCHANGED <<mirror, pc, job, loc, chan, failed>>

Shuts(r) == up' = [up EXCEPT ![r] = FALSE] /\ chan' = [chan EXCEPT ![r] = <<>>]

(* ds4_session_eval_speculative_argmax of the native family: a cycle of n  *)
(* rows.  A failed send shuts the socket (tp_native_fail).                 *)
Native(s, n) ==
  LET m == mirror[0][s]
      j == [Job EXCEPT !.op = "native", !.s = s, !.n = n, !.at = m.len, !.k = m.cycle + 1]
  IN /\ mode.family = "native"
     /\ Calling
     /\ m.open /\ HasRoom(s, n) /\ n >= 2
     /\ UNCHANGED <<mode, graphs, created>>
     /\ \/ ~failed[0] /\ Sends(j, "check") /\ UNCHANGED up
        \/ /\ failed[0] \/ WriteFails(0)
           /\ MarkFailed(0) /\ mirror' = Dropped(0, {s})
           /\ Shuts(0)
           /\ UNCHANGED <<pc, job, loc>>

InvalidateAlone(s) ==
  /\ Calls([Job EXCEPT !.op = "invalidate", !.s = s])
  /\ mirror' = Dropped(0, {s})
  /\ UNCHANGED <<pc, job, loc, chan, failed, created>>

(* ds4_session_invalidate, called by itself.                               *)
Invalidate(s) ==
  /\ Calls([Job EXCEPT !.op = "invalidate", !.s = s])
  /\ mirror' = Dropped(0, {s})
  /\ IF failed[0] THEN UNCHANGED chan
     ELSE Write(0, <<Cmd([Job EXCEPT !.op = "invalidate", !.s = s])>>)
  /\ UNCHANGED <<pc, job, loc, failed, created>>

(* ds4_tp_send_stop, when the server or the command line ends.             *)
Stop ==
  /\ pc[0] = "idle"
  /\ Write(0, <<Cmd([Job EXCEPT !.op = "stop"])>>)
  /\ Goto(0, "stopped")
  /\ UNCHANGED <<mode, mirror, job, loc, up, failed, graphs, calls, created>>

-----------------------------------------------------------------------------
(* Graphs, the same code on both ranks.                                    *)

(* ds4_session_sync_internal: where a prefill starts.                      *)
SyncStart(m, j) == IF m.valid /\ m.line = j.line /\ m.len <= j.n THEN m.len ELSE 0

(* What the rank's next graph computes: which tokens of which session.     *)
GraphWork(r) ==
  LET j == job[r]
      prefill == IF j.s = 0 THEN {}
                 ELSE LET start == SyncStart(S(r), j)
                      IN IF start = j.n THEN {} ELSE {<<j.s, j.line, start, j.n>>}
      token(s, n) == <<s, mirror[r][s].line, mirror[r][s].len, mirror[r][s].len + n>>
  IN CASE j.op = "sync" -> prefill
       [] j.op = "batch" -> prefill \cup {token(s, 1) : s \in j.items}
       [] j.op = "verify" -> {token(j.s, IF pc[r] = "replay" THEN loc[r].acc ELSE j.n)}
       [] j.op = "native" -> {token(j.s, loc[r].phase)}
       [] OTHER -> {token(j.s, 1)}

Grown(m, n) == [m EXCEPT !.len = @ + n, !.front = @ + n]
Prefilled(m, j) == [m EXCEPT !.line = j.line, !.len = j.n, !.front = j.n, !.valid = TRUE]

(* The sessions of the rank once the graph is done.  A native graph moves  *)
(* nothing but, in its last one, the recurrent state (target_verify_finish)*)
Computed(r) ==
  LET j == job[r]
  IN [mirror EXCEPT ![r] = [s \in Sessions |->
       IF s \in j.items THEN Grown(@[s], 1)
       ELSE IF s # j.s THEN @[s]
       ELSE CASE j.op \in {"sync", "batch"} -> Prefilled(@[s], j)
              [] j.op = "eval" -> Grown(@[s], 1)
              [] j.op = "verify" -> Grown(@[s], IF loc[r].phase = 0 THEN j.n ELSE loc[r].acc)
              [] j.op = "native" ->
                   IF loc[r].phase = 8 THEN [@[s] EXCEPT !.front = @ + loc[r].acc] ELSE @[s]]]

(* A rank whose transport has failed makes no more exchanges.              *)
Begin(r) ==
  /\ pc[r] \in {"run", "replay"}
  /\ IF GraphWork(r) = {} THEN Goto(r, "done") /\ UNCHANGED graphs
     ELSE IF failed[r] THEN Goto(r, "lost") /\ UNCHANGED graphs
     ELSE /\ Goto(r, "graph")
          /\ graphs' = [graphs EXCEPT ![r].n = @ + 1, ![r].work = GraphWork(r)]
  /\ UNCHANGED <<mode, mirror, job, loc, sock, failed, calls, created>>

(* LockstepExchange!Finish: the peer is in its own n-th graph or past it,  *)
(* and did not leave that graph's gates.                                   *)
PeerMeets(r) ==
  LET g == graphs[Peer(r)]
  IN g.n >= graphs[r].n /\ (g.broke = 0 \/ graphs[r].n < g.broke)

Computes(r) ==
  /\ pc[r] = "graph" /\ PeerMeets(r)
  /\ mirror' = Computed(r)
  /\ Goto(r, "done")
  /\ UNCHANGED <<mode, job, loc, sock, failed, graphs, calls, created>>

(* A gate timed out or its transport failed: ds4_engine_tp_exchange.       *)
GateFails(r) ==
  /\ pc[r] = "graph"
  /\ MarkFailed(r)
  /\ Goto(r, "lost")
  /\ UNCHANGED <<mode, mirror, job, loc, sock, graphs, calls, created>>

FaultKind(r) == IF job[r].op = "verify" /\ loc[r].phase # 0 THEN "replay" ELSE job[r].op

(* The rank's own half fails; a prefill may be cancelled before it begins. *)
LocalFault(r, when) ==
  /\ <<r, FaultKind(r), when>> \in LocalFaults
  /\ pc[r] = IF when = "before" THEN "run" ELSE "graph"
  /\ when = "after" => PeerMeets(r)
  /\ graphs' = IF when = "within" /\ graphs[r].broke = 0
                 THEN [graphs EXCEPT ![r].broke = graphs[r].n] ELSE graphs
  /\ Goto(r, "lost")
  /\ UNCHANGED <<mode, mirror, job, loc, sock, failed, calls, created>>

-----------------------------------------------------------------------------
(* The leader, once its own half is done or lost.                          *)

After(r, p, ops) == pc[r] = p /\ job[r].op \in ops
still == <<mode, graphs, calls, created>>
Members(j) == j.items \cup ({j.s} \ {0})

(* A prefill waits for its acknowledgement even if it failed itself.       *)
AwaitAck ==
  /\ After(0, "done", {"sync", "batch"}) \/ After(0, "lost", {"sync"})
  /\ loc' = [loc EXCEPT ![0].ok = pc[0] = "done"]
  /\ Goto(0, "ack")
  /\ UNCHANGED <<still, mirror, job, sock, failed>>

(* An eval or a replay has no acknowledgement, only logits.                *)
AwaitLogits ==
  /\ After(0, "done", {"eval"}) \/ (After(0, "done", {"verify"}) /\ loc[0].phase # 0)
  /\ IF mode.split
       THEN /\ loc' = [loc EXCEPT ![0].want = 1]
            /\ Goto(0, "logits")
            /\ UNCHANGED job
       ELSE Return
  /\ UNCHANGED <<still, mirror, sock, failed>>

(* The call fails and the sessions in it are invalidated, see Drop.        *)
GiveUp ==
  /\ After(0, "lost", {"eval", "batch"})
  /\ IF job[0].op = "eval" THEN MarkFailed(0) ELSE UNCHANGED failed
  /\ Goto(0, "drop")
  /\ UNCHANGED <<still, mirror, job, loc, sock>>

Drop ==
  /\ pc[0] = "drop"
  /\ mirror' = Dropped(0, Members(job[0]))
  /\ IF failed[0] THEN UNCHANGED chan ELSE Write(0, InvalidateFrames(Members(job[0])))
  /\ Return
  /\ UNCHANGED <<still, up, failed>>

ReplayLost ==
  /\ After(0, "lost", {"verify"}) /\ loc[0].phase # 0
  /\ mirror' = [mirror EXCEPT ![0][job[0].s].valid = FALSE]
  /\ Return
  /\ UNCHANGED <<still, sock, failed>>

(* ds4_tp_wait_command_ack: an answer that is not for this command, or not *)
(* 0, fails the call; no answer at all fails the transport.                *)
GoodAck(f) == f.s = job[0].s /\ f.status = 0
PromisedByItems ==
  IF ~mode.split \/ job[0].op \in {"create", "destroy"} THEN 0
  ELSE IF job[0].op = "sync" THEN 1 ELSE Cardinality(job[0].items)
Promised ==
  IF ~mode.split \/ job[0].op \in {"create", "destroy"} THEN 0
  ELSE IF job[0].op = "sync" THEN 1 ELSE Cardinality(Members(job[0]))

AckGood ==
  /\ pc[0] = "ack" /\ Arrives(0, "ack") /\ GoodAck(Head(chan[0]))
  /\ Take(0)
  /\ loc' = [loc EXCEPT ![0].want = Promised]
  /\ Goto(0, "logits")
  /\ UNCHANGED <<still, mirror, job, up, failed>>

AckBad ==
  /\ pc[0] = "ack"
  /\ \/ Arrives(0, "ack") /\ ~GoodAck(Head(chan[0])) /\ Take(0)
        /\ IF job[0].op = "sync" THEN MarkFailed(0) ELSE UNCHANGED failed
     \/ ReadFails(0, "ack") /\ UNCHANGED chan /\ MarkFailed(0)
  /\ IF job[0].op \in {"create", "destroy"}
       THEN /\ SetSession(0, job[0].s, Closed)
            /\ Return
       ELSE Goto(0, "drop") /\ UNCHANGED <<mirror, job, loc>>
  /\ UNCHANGED <<still, up>>

LogitsArrive ==
  /\ pc[0] = "logits" /\ loc[0].want > 0 /\ Arrives(0, "logits")
  /\ Take(0)
  /\ loc' = [loc EXCEPT ![0].want = @ - 1]
  /\ UNCHANGED <<still, mirror, pc, job, up, failed>>

(* Only a prefill that misses its logits also fails the transport.         *)
LogitsMissing ==
  /\ pc[0] = "logits" /\ loc[0].want > 0 /\ ReadFails(0, "logits")
  /\ IF job[0].op = "sync" THEN MarkFailed(0) ELSE UNCHANGED failed
  /\ IF job[0].op = "verify"
       THEN /\ mirror' = [mirror EXCEPT ![0][job[0].s].valid = FALSE]
            /\ Return
       ELSE Goto(0, "drop") /\ UNCHANGED <<mirror, job, loc>>
  /\ UNCHANGED <<still, sock>>

Answered ==
  /\ pc[0] = "logits" /\ loc[0].want = 0
  /\ IF loc[0].ok
       THEN /\ Return
            /\ mirror' = CASE job[0].op = "create" -> [mirror EXCEPT ![0][job[0].s].open = TRUE]
                           [] job[0].op = "destroy" -> [mirror EXCEPT ![0][job[0].s] = Closed]
                           [] OTHER -> mirror
            /\ UNCHANGED failed
       ELSE MarkFailed(0) /\ Goto(0, "drop") /\ UNCHANGED <<mirror, job, loc>>
  /\ UNCHANGED <<still, sock>>

-----------------------------------------------------------------------------
(* The leader's decision about a verified block: c of its n drafts are     *)
(* good.  Each of the three ways out tells the worker.                     *)

Start(r) == loc[r].start
Kept(m, front, len) == [m EXCEPT !.front = front, !.len = len]
Verified(p) == After(0, p, {"verify"}) /\ loc[0].phase = 0

(* The whole block, or a captured prefix of it, stays as it is.            *)
Decide(c) ==
  LET n == job[0].n
      k == Start(0) + c
  IN /\ Verified("done") /\ c \in 1 .. n
     /\ c = n \/ c <= PrefixSlots
     /\ \/ /\ mirror' = [mirror EXCEPT ![0][job[0].s] = Kept(@, k, k)]
           /\ Write(0, <<IF c = n THEN Commit(1, 0) ELSE Commit(2, c)>>)
        \/ /\ WriteFails(0)
           /\ mirror' = [mirror EXCEPT ![0][job[0].s].valid = FALSE]
           /\ UNCHANGED chan
     /\ Return
     /\ UNCHANGED <<still, up, failed>>

(* The block is rolled back, and k of its drafts are computed again.       *)
RollBack(k) ==
  /\ \/ Verified("done") /\ k \in 0 .. job[0].n
     \/ Verified("lost") /\ k = 0
  /\ mirror' = [mirror EXCEPT ![0][job[0].s] = Kept(@, Start(0), Start(0))]
  /\ Write(0, <<Commit(0, k)>>)
  /\ \/ (k = 0 \/ WriteFails(0)) /\ Return
     \/ /\ k > 0
        /\ loc' = [loc EXCEPT ![0].acc = k, ![0].phase = 1]
        /\ Goto(0, "replay")
        /\ UNCHANGED job
  /\ UNCHANGED <<still, up, failed>>

-----------------------------------------------------------------------------
(* A native cycle, the same code on both ranks: graphs (drafts, verify,    *)
(* refresh and commit), and between them the ranks agree on what they got. *)

(* The phase a rank announces next; loc.phase is the last one announced.   *)
NextPhase(r) ==
  IF pc[r] = "check" THEN 0
  ELSE CASE loc[r].phase = 0 -> 1 [] loc[r].phase = 1 -> 8 [] OTHER -> 9

CycleFits(r) ==
  LET m == S(r)
      j == job[r]
  IN m.valid /\ j.k = m.cycle + 1 /\ j.at = m.len /\ j.n <= MaxLen - m.len /\ ~failed[r]

(* Each rank counts the rows it accepts by itself.                         *)
Accepts(r) ==
  IF NextPhase(r) # 8 THEN {loc[r].acc} ELSE IF pc[r] = "lost" THEN {0} ELSE 1 .. job[r].n

AgreeSend(r) ==
  /\ pc[r] = "check" \/ After(r, "done", {"native"}) \/ After(r, "lost", {"native"})
  /\ \E acc \in Accepts(r) :
       LET bad == pc[r] = "lost" \/ failed[r] \/ (pc[r] = "check" /\ ~CycleFits(r))
       IN /\ loc' = [loc EXCEPT ![r].phase = NextPhase(r), ![r].acc = acc, ![r].ok = ~bad]
          /\ Write(r, <<[Agreement(r, NextPhase(r), bad) EXCEPT !.acc = acc]>>)
  /\ Goto(r, "hear")
  /\ UNCHANGED <<still, mirror, job, up, failed>>

AgreesUnlessDifferent(r, f) == f.phase = loc[r].phase /\ f.acc = loc[r].acc

(* Both are well and say the same.                                         *)
Agrees(r, f) == loc[r].ok /\ f = [Agreement(r, loc[r].phase, FALSE) EXCEPT !.c = f.c]

Published(r, m) == [m EXCEPT !.len = @ + loc[r].acc]

AgreeHear(r) ==
  /\ pc[r] = "hear" /\ Arrives(r, "agree") /\ Agrees(r, Head(chan[r]))
  /\ Take(r)
  /\ CASE loc[r].phase = 0 ->
            /\ mirror' = [mirror EXCEPT ![r][job[r].s].cycle = job[r].k]
            /\ Goto(r, "run") /\ UNCHANGED <<job, loc>>
       [] loc[r].phase = 9 ->
            /\ mirror' = [mirror EXCEPT ![r][job[r].s] = Published(r, @)]
            /\ Leave(r, IF r = 0 THEN "idle" ELSE "loop")
       [] OTHER -> Goto(r, "run") /\ UNCHANGED <<mirror, job, loc>>
  /\ UNCHANGED <<still, up, failed>>

AgreeFailsAndWaits(r) ==
  pc[r] = "hear" /\ MarkFailed(r) /\ UNCHANGED <<still, mirror, pc, job, loc, sock>>

(* tp_native_fail, for whatever reason, a deadline of 30 s among them.     *)
AgreeFails(r) ==
  /\ pc[r] = "hear"
  /\ MarkFailed(r)
  /\ IF r = 0 THEN Goto(0, "drop") /\ Shuts(0) /\ UNCHANGED <<mirror, job, loc>>
              ELSE Exit(<<>>)
  /\ UNCHANGED still

-----------------------------------------------------------------------------
(* The worker: ds4_tp_worker_run.                                          *)

Arriving(op) == pc[1] = "loop" /\ Arrives(1, "cmd") /\ Head(chan[1]).j.op = op
Reply(fs) == chan' = Put(Taken(1), 1, fs)

WorkerCreate ==
  /\ Arriving("create")
  /\ LET j == Head(chan[1]).j
     IN \/ /\ SetSession(1, j.s, [Closed EXCEPT !.open = TRUE])
           /\ Reply(<<Ack(j, 0)>>)
        \/ /\ <<1, "create", "before">> \in LocalFaults
           /\ Reply(<<Ack(j, 1)>>) /\ UNCHANGED mirror
  /\ UNCHANGED <<still, pc, job, loc, up, failed>>

WorkerDestroy ==
  /\ Arriving("destroy")
  /\ LET j == Head(chan[1]).j
     IN /\ Reply(<<Ack(j, IF mirror[1][j.s].open THEN 0 ELSE 1)>>)
        /\ SetSession(1, j.s, Closed)
  /\ UNCHANGED <<still, pc, job, loc, up, failed>>

WorkerInvalidate ==
  /\ Arriving("invalidate")
  /\ mirror[1][Head(chan[1]).j.s].open
  /\ mirror' = Dropped(1, {Head(chan[1]).j.s})
  /\ Take(1)
  /\ UNCHANGED <<still, pc, job, loc, up, failed>>

(* A command with a graph starts if the worker knows all of its sessions.  *)
WorkerStarts ==
  /\ \E op \in {"sync", "eval", "batch", "verify", "native"} : Arriving(op)
  /\ LET j == Head(chan[1]).j
     IN /\ \A s \in Members(j) : mirror[1][s].open
        /\ job' = [job EXCEPT ![1] = j]
        /\ loc' = [loc EXCEPT ![1].start = Checkpoint(1, j)]
        /\ Goto(1, IF j.op = "native" THEN "check" ELSE "run")
  /\ Take(1)
  /\ UNCHANGED <<still, mirror, up, failed>>

(* The leader stopped or hung up, or a session is unknown.                 *)
WorkerStops ==
  /\ pc[1] = "loop"
  /\ \/ ReadFails(1, "cmd") /\ Exit(<<>>)
     \/ Arriving("stop") /\ Exit(<<>>)
     \/ /\ Arrives(1, "cmd")
        /\ LET j == Head(chan[1]).j
           IN /\ j.op \notin {"create", "destroy", "stop"}
              /\ \E s \in Members(j) : ~mirror[1][s].open
              /\ Exit(IF j.op = "batch" THEN <<Ack(j, 1)>> ELSE <<>>)
  /\ UNCHANGED <<still, failed>>

(* An eval has no acknowledgement; each command's logits come one by one.  *)
WorkerAnswers ==
  /\ After(1, "done", {"sync", "eval", "batch"})
     \/ (After(1, "done", {"verify"}) /\ loc[1].phase # 0)
  /\ Write(1, IF job[1].op \in {"sync", "batch"} THEN <<Ack(job[1], 0)>> ELSE <<>>)
  /\ loc' = [loc EXCEPT ![1].want = IF mode.split THEN Cardinality(Members(job[1])) ELSE 0]
  /\ Goto(1, "reply")
  /\ UNCHANGED <<still, mirror, job, up, failed>>

WorkerLogits ==
  /\ pc[1] = "reply"
  /\ IF loc[1].want = 0
       THEN Leave(1, "loop") /\ UNCHANGED chan
       ELSE /\ Write(1, <<Logits(job[1])>>)
            /\ loc' = [loc EXCEPT ![1].want = @ - 1]
            /\ UNCHANGED <<pc, job>>
  /\ UNCHANGED <<still, mirror, up, failed>>

WorkerFails ==
  /\ \/ After(1, "lost", {"sync", "eval", "batch"})
     \/ After(1, "lost", {"verify"}) /\ loc[1].phase # 0
  /\ Exit(IF job[1].op \in {"sync", "batch"} THEN <<Ack(job[1], 1)>> ELSE <<>>)
  /\ UNCHANGED <<still, failed>>

(* ds4_session_tp_spec_cycle: whatever its own verify said, the worker     *)
(* waits for the leader's commit.                                          *)
AwaitCommit ==
  /\ After(1, "done", {"verify"}) \/ After(1, "lost", {"verify"})
  /\ loc[1].phase = 0
  /\ loc' = [loc EXCEPT ![1].ok = pc[1] = "done"]
  /\ Goto(1, "commit")
  /\ UNCHANGED <<still, mirror, job, sock, failed>>

(* spec_frontier_commit_prefix is asked for the first slot.                *)
CommitSlot(k) == 1

Obeys(full, k) ==
  CASE full = 1 -> loc[1].ok
    [] full = 2 -> loc[1].ok /\ k \in 1 .. job[1].n - 1
    [] OTHER -> TRUE

ReadCommit ==
  /\ pc[1] = "commit" /\ Arrives(1, "commit")
  /\ LET f == Head(chan[1])
         k == IF f.k > job[1].n THEN job[1].n ELSE f.k
         s == job[1].s
     IN /\ Obeys(f.full, f.k)
        /\ mirror' = [mirror EXCEPT ![1][s] =
             CASE f.full = 1 -> @
               [] f.full = 2 -> Kept(@, Start(1) + CommitSlot(f.k), Start(1) + f.k)
               [] OTHER -> Kept(@, Start(1), Start(1))]
        /\ IF f.full = 0 /\ k > 0
             THEN /\ loc' = [loc EXCEPT ![1].acc = k, ![1].phase = 1]
                  /\ Goto(1, "replay")
                  /\ UNCHANGED job
             ELSE Leave(1, "loop")
  /\ Take(1)
  /\ UNCHANGED <<still, up, failed>>

CommitFails ==
  /\ pc[1] = "commit"
  /\ \/ ReadFails(1, "commit")
     \/ Arrives(1, "commit") /\ ~Obeys(Head(chan[1]).full, Head(chan[1]).k)
  /\ Exit(<<>>)
  /\ UNCHANGED <<still, failed>>

Crash ==
  /\ MayCrash /\ pc[1] # "gone"
  /\ Exit(<<>>)
  /\ UNCHANGED <<still, failed>>

-----------------------------------------------------------------------------
Call ==
  \/ Create
  \/ \E s \in Sessions : Destroy(s) \/ Eval(s) \/ Invalidate(s)
  \/ \E s \in Sessions, p \in Prompts : Sync(s, p)
  \/ \E s \in Sessions \cup {0}, p \in Prompts \cup {<<0, 0>>}, items \in SUBSET Sessions :
        Batch(s, p, items)
  \/ \E s \in Sessions, n \in 1 .. MaxBlock : Verify(s, n) \/ Native(s, n)
  \/ Stop

Leader ==
  \/ AwaitAck \/ AwaitLogits \/ GiveUp \/ Drop \/ ReplayLost
  \/ AckGood \/ AckBad \/ LogitsArrive \/ LogitsMissing \/ Answered
  \/ \E c \in 1 .. MaxBlock : Decide(c)
  \/ \E k \in 0 .. MaxBlock : RollBack(k)

Worker ==
  \/ WorkerCreate \/ WorkerDestroy \/ WorkerInvalidate \/ WorkerStarts \/ WorkerStops
  \/ WorkerAnswers \/ WorkerLogits \/ WorkerFails
  \/ AwaitCommit \/ ReadCommit \/ CommitFails

Both(r) ==
  \/ Begin(r) \/ Computes(r) \/ GateFails(r)
  \/ AgreeSend(r) \/ AgreeHear(r) \/ AgreeFails(r)

Faults ==
  \/ Crash
  \/ \E r \in Rank, when \in {"before", "within", "after"} : LocalFault(r, when)

(* Nothing is left to do: the leader stopped, or has made all its calls,   *)
(* and the worker is gone or waits for a command.                          *)
Finished ==
  /\ pc[0] = "stopped" \/ (pc[0] = "idle" /\ calls = MaxCalls)
  /\ pc[1] = "gone" \/ (pc[1] = "loop" /\ chan[1] = <<>>)
  /\ UNCHANGED vars

Next == Call \/ Leader \/ Worker \/ (\E r \in Rank : Both(r)) \/ Faults \/ Finished

Spec == Init /\ [][Next]_vars

(* Both processes go on, and every gate and every agreement ends, if only  *)
(* at its deadline.  No call has to be made and nothing has to fail.       *)
FairSpec == Spec /\ WF_vars(Leader \/ Both(0)) /\ WF_vars(Worker \/ Both(1))

-----------------------------------------------------------------------------
(* Properties.                                                             *)

Pcs == {"idle", "run", "graph", "done", "lost", "ack", "logits", "drop", "replay",
        "check", "hear", "stopped", "loop", "reply", "commit", "gone"}

(* Every checkpoint and every recurrent state stays within the context     *)
(* (the context checks of ds4_session_eval and of the speculative paths),  *)
(* and the control stream of a rank holds a bounded number of frames.      *)
TypeOK ==
  /\ mode \in Modes
  /\ mirror \in [Rank -> [Sessions ->
       [open : BOOLEAN, line : {0} \cup {p[1] : p \in Prompts}, len : 0 .. MaxLen, front : 0 .. MaxLen,
        valid : BOOLEAN, cycle : 0 .. MaxCalls]]]
  /\ pc \in [Rank -> Pcs]
  /\ up \in [Rank -> BOOLEAN] /\ failed \in [Rank -> BOOLEAN]
  /\ calls \in 0 .. MaxCalls /\ created \in 0 .. calls
  /\ \A r \in Rank : job[r].op \in Work \cup {"none", "destroy"} /\ loc[r].want \in 0 .. Cardinality(Sessions)

(* Whenever the leader is between two calls and the worker has done all it *)
(* was told, every session and its mirror are equal: the same conversation,*)
(* the same checkpoint, the recurrent state of the same tokens, the same   *)
(* count of native cycles ("mirrored sessions" of ds4_tp_worker_run), as   *)
(* long as the leader has not declared the pair dead.                      *)
Quiet ==
  /\ pc[0] = "idle" /\ ~failed[0]
  /\ pc[1] = "loop" /\ \A r \in Rank : chan[r] = <<>>
MirrorsAgree ==
  Quiet => \A s \in Sessions :
    LET a == mirror[0][s]
        b == mirror[1][s]
    IN a.open = b.open /\ a.valid = b.valid /\ (a.valid => a = b)

(* The ranks' n-th graphs, which exchange their partial sums in the same   *)
(* gates, compute the same tokens of the same session: no retry, rollback  *)
(* or failed call shifts one rank's graphs against the other's.            *)
GraphsPair == graphs[0].n = graphs[1].n => graphs[0].work = graphs[1].work

RanksInStep == MirrorsAgree /\ GraphsPair

(* While neither rank has failed, the control stream stays framed: what a  *)
(* rank reads next has the type it waits for, what is on its way to the    *)
(* leader belongs to the running call, and nothing is left over when the   *)
(* call returns ("keep the control stream framed" in ds4_session_sync).    *)
Awaited(r) ==
  CASE pc[r] = "ack" -> "ack"
    [] pc[r] = "logits" /\ loc[r].want > 0 -> "logits"
    [] pc[r] = "hear" -> "agree"
    [] pc[r] = "commit" -> "commit"
    [] pc[r] = "loop" -> "cmd"
    [] OTHER -> "any"
StreamFramed ==
  (\A r \in Rank : ~failed[r]) =>
    /\ \A r \in Rank : chan[r] # <<>> => Awaited(r) \in {Head(chan[r]).t, "any"}
    /\ \A i \in DOMAIN chan[0] : chan[0][i].c = calls
    /\ pc[0] = "idle" => chan[0] = <<>>

(* A rank adds the accepted tokens of a native cycle to its checkpoint only*)
(* after its peer's recurrent state stands for them too, unless the peer   *)
(* has dropped the session ("Publication ... follows both ranks'           *)
(* successful target commit" in ds4_session_glm5_native_cycle_run).        *)
PublishedCommitted ==
  [][\A r \in Rank :
       (pc[r] = "hear" /\ loc[r].phase = 9 /\ pc'[r] \in {"idle", "loop"}) =>
         LET s == job[r].s
         IN mirror[Peer(r)][s].valid => mirror[Peer(r)][s].front = mirror'[r][s].len]_vars

(* Every call of the leader returns, however the worker, the gates or the  *)
(* worker's half of the call fail: no rank waits for a frame that nobody   *)
(* will send.                                                              *)
CallReturns ==
  pc[0] \notin {"idle", "stopped"} ~> pc[0] \in {"idle", "stopped"}
=============================================================================
