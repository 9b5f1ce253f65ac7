--------------------------- MODULE TpControlProofs ---------------------------
(***************************************************************************)
(* The control stream of TpControl stays framed, proved for every number   *)
(* of sessions, every prompt, every block size and every fault but those   *)
(* named in FaultsAnswered.                                                *)
(*                                                                         *)
(* The argument never looks inside a session.  Of each rank only a view    *)
(* matters: what it still has to send or to read in its running command.   *)
(* Framed relates the two views and the two queues of frames; the first    *)
(* part of this module proves, for views and queues in general, what each  *)
(* kind of frame written or read does to them, and the second maps every   *)
(* action of the model to one of those steps.                              *)
(***************************************************************************)
EXTENDS TpControl, TLAPS, FiniteSetTheorems

AckOps == {"create", "destroy", "sync", "batch"}
Ops == AckOps \cup {"none", "eval", "verify", "native", "invalidate", "stop"}
Halfway == {"run", "graph", "done", "lost"}
Phases == {0, 1, 8, 9}

-----------------------------------------------------------------------------
(* Types.                                                                  *)

(* A batch names several sessions, and any other command but stop one.     *)
JobRecords == [op : Ops, c : Nat, s : Sessions \cup {0}, items : SUBSET Sessions,
               line : Nat, n : Nat, at : Int, k : Nat]
Jobs == {j \in JobRecords :
           j.op \notin {"none", "stop", "batch"} => j.s \in Sessions /\ j.items = {}}
CmdFrames == [t : {"cmd"}, j : Jobs]
CommitFrames == [t : {"commit"}, c : Nat, full : 0 .. 2, k : Nat]
AgreeFrames == [t : {"agree"}, c : Nat, phase : Phases, acc : Nat, bad : BOOLEAN]
AckFrames == [t : {"ack"}, c : Nat, s : Sessions \cup {0}, status : {0, 1}]
LogitsFrames == [t : {"logits"}, c : Nat]
Orders == CmdFrames \cup CommitFrames \cup AgreeFrames
Answers == AckFrames \cup LogitsFrames \cup AgreeFrames

Mirrors == [open : BOOLEAN, line : Nat, len : Int, front : Int, valid : BOOLEAN, cycle : Nat]
Locals == [ok : BOOLEAN, want : Nat, start : Int, acc : Nat, phase : Phases]

Queues(c) ==
  /\ c \in [Rank -> Seq(Orders) \cup Seq(Answers)]
  /\ c[0] \in Seq(Answers) /\ c[1] \in Seq(Orders)
Types ==
  /\ mode \in [family : {"dspark", "native"}, split : BOOLEAN]
  /\ mirror \in [Rank -> [Sessions -> Mirrors]]
  /\ pc \in [Rank -> Pcs] /\ job \in [Rank -> Jobs] /\ loc \in [Rank -> Locals]
  /\ Queues(chan)
  /\ up \in [Rank -> BOOLEAN] /\ failed \in [Rank -> BOOLEAN]
  /\ calls \in Nat /\ created \in Nat

-----------------------------------------------------------------------------
(* Views.  A rank at p in command j has the locals l, and sp says whether  *)
(* there are logits.  An agreement is the first to the fourth of its cycle.*)
Nth(p) == CASE p = 0 -> 1 [] p = 1 -> 2 [] p = 8 -> 3 [] OTHER -> 4
InCycle(p, j) == j.op = "native" /\ p \in Halfway \cup {"check", "hear"}
Sent(p, l) == IF p = "check" THEN 0 ELSE Nth(l.phase)
Heard(p, l) == IF p = "hear" THEN Sent(p, l) - 1 ELSE Sent(p, l)

(* How many logits frames a command calls for, and a replay.               *)
One(sp) == IF sp THEN 1 ELSE 0
LogitsOf(sp, j) == IF sp THEN Cardinality(Members(j)) ELSE 0
Replaying(p, j, l) == j.op = "verify" /\ l.phase # 0 /\ p \in Halfway \cup {"replay"}
Evaluating(p, j) == j.op = "eval" /\ p \in Halfway

(* A command that is acknowledged, before that, and a block before the     *)
(* leader's decision.                                                      *)
Unacknowledged(p, j) == j.op \in AckOps /\ p \in Halfway \cup {"ack"}
Undecided(p, j, l) == j.op = "verify" /\ l.phase = 0 /\ p \in Halfway \cup {"commit"}

(* The logits that the leader still expects, and the worker still sends.   *)
Outstanding(sp, p, j, l) ==
  IF p \in {"logits", "reply"} THEN l.want
  ELSE IF Unacknowledged(p, j) THEN IF j.op \in {"create", "destroy"} THEN 0 ELSE LogitsOf(sp, j)
  ELSE IF Replaying(p, j, l) \/ Evaluating(p, j) THEN One(sp) ELSE 0

View(ack, due, block, cycle, sent, heard, j) ==
  [ack |-> ack, due |-> due, block |-> block, cycle |-> cycle,
   sent |-> IF cycle THEN sent ELSE 0, heard |-> IF cycle THEN heard ELSE 0,
   job |-> IF ack \/ due # 0 \/ block \/ cycle THEN j ELSE Job]
ViewOf(sp, p, j, l) ==
  View(Unacknowledged(p, j), Outstanding(sp, p, j, l), Undecided(p, j, l), InCycle(p, j),
       Sent(p, l), Heard(p, l), j)
LeaderView == ViewOf(mode.split, pc[0], job[0], loc[0])
WorkerView == ViewOf(mode.split, pc[1], job[1], loc[1])
Views == [ack : BOOLEAN, due : Nat, block : BOOLEAN, cycle : BOOLEAN,
          sent : 0 .. 4, heard : 0 .. 4, job : Jobs]
AtRest(V) == ~V.ack /\ V.due = 0 /\ ~V.block /\ ~V.cycle

-----------------------------------------------------------------------------
(* The invariant of the stream.  Frames that call for an answer are loud.  *)
IsCmd(f, ops) == f.t = "cmd" /\ f.j.op \in ops
LogitsFor(sp, f) ==
  IF ~sp THEN 0
  ELSE IF IsCmd(f, {"sync", "batch"}) THEN Cardinality(Members(f.j))
  ELSE IF IsCmd(f, {"eval"}) \/ (f.t = "commit" /\ f.full = 0 /\ f.k > 0) THEN 1
  ELSE 0
Loud(sp, f) == IsCmd(f, AckOps \cup {"native"}) \/ LogitsFor(sp, f) > 0

(* The frames on their way to the leader are the next ones it expects.     *)
ToLeader(n, L, c0) ==
  /\ \A i \in DOMAIN c0 : c0[i].c = n
  /\ ~AtRest(L) => L.job.c = n
  /\ L.ack /\ c0 # <<>> =>
       /\ c0[1].t = "ack" /\ c0[1].s = L.job.s
       /\ \A i \in 2 .. Len(c0) : c0[i].t = "logits"
       /\ Len(c0) - 1 <= L.due
       /\ c0[1].status # 0 => Len(c0) = 1
  /\ ~L.ack /\ ~L.cycle =>
       Len(c0) <= L.due /\ \A i \in DOMAIN c0 : c0[i].t = "logits"
  /\ L.cycle =>
       /\ L.heard + Len(c0) <= 4
       /\ \A i \in DOMAIN c0 : c0[i].t = "agree" /\ Nth(c0[i].phase) = L.heard + i
  /\ L.ack => ~L.cycle /\ ~L.block
  /\ L.due # 0 => ~L.cycle /\ ~L.block
  /\ L.cycle => ~L.block /\ L.heard <= 3 /\ L.heard <= L.sent /\ L.sent <= L.heard + 1

(* What the worker still answers is expected too.                          *)
FromWorker(L, W, c0) ==
  /\ W.ack => L.ack /\ c0 = <<>> /\ W.job = L.job /\ W.due <= L.due
  /\ W.due > 0 /\ ~W.ack =>
       /\ W.job = L.job /\ ~L.cycle
       /\ L.ack => c0 # <<>> /\ c0[1].status = 0 /\ Len(c0) - 1 + W.due <= L.due
       /\ ~L.ack => Len(c0) + W.due <= L.due
  /\ W.ack \/ W.due > 0 => ~W.block /\ ~W.cycle
  /\ ~(W.block /\ W.cycle)
  /\ L.ack /\ c0 # <<>> /\ c0[1].status # 0 => L.job.op \in {"create", "destroy"}

(* Both are in the same native cycle.                                      *)
Paired(L, W) == L.cycle /\ W.cycle /\ W.job = L.job

(* A loud frame on its way to the worker is the last one (an agreement may *)
(* follow a native cycle), and the call that the leader is in.             *)
Matches(sp, L, f) ==
  /\ f.t = "cmd" => f.j = L.job
  /\ IsCmd(f, AckOps) <=> L.ack
  /\ IsCmd(f, {"native"}) <=> L.cycle
  /\ LogitsFor(sp, f) <= L.due
LoudLast(sp, L, W, c0, c1, i) ==
  /\ c0 = <<>> /\ ~W.ack /\ W.due = 0 /\ Matches(sp, L, c1[i])
  /\ IsCmd(c1[i], {"native"}) =>
       L.heard = 0 /\ Len(c1) = i + L.sent /\ (L.sent = 1 => Nth(c1[i + 1].phase) = 1)
  /\ ~IsCmd(c1[i], {"native"}) => i = Len(c1)
  /\ c1[i].t = "commit" /\ i = 1 => W.block /\ W.job = L.job
  /\ c1[i].t = "commit" /\ i # 1 => c1[i - 1].t = "cmd" /\ c1[i - 1].j = L.job
Waiting(sp, L, W, c0, c1) ==
  \A i \in DOMAIN c1 : Loud(sp, c1[i]) => LoudLast(sp, L, W, c0, c1, i)

(* The frames on their way to the worker are in the order it reads them.   *)
FirstType(W) == IF W.block THEN "commit" ELSE IF W.cycle THEN "agree" ELSE "cmd"
NextType(L, W, f) ==
  IF IsCmd(f, {"verify"}) THEN "commit"
  ELSE IF IsCmd(f, {"native"}) \/ Paired(L, W) THEN "agree" ELSE "cmd"
Ordered(L, W, c1) ==
  /\ c1 # <<>> => c1[1].t = FirstType(W)
  /\ \A i \in 1 .. Len(c1) - 1 : c1[i + 1].t = NextType(L, W, c1[i])

(* A block is undecided, or a cycle open, on both sides or on neither.     *)
LeftOpen(L, W, c1) ==
  /\ L.block /\ c1 = <<>> => W.block /\ W.job = L.job
  /\ L.block /\ c1 # <<>> => IsCmd(c1[Len(c1)], {"verify"}) /\ c1[Len(c1)].j = L.job
  /\ ~L.block /\ c1 = <<>> => ~W.block
  /\ ~L.block /\ c1 # <<>> => ~IsCmd(c1[Len(c1)], {"verify"})
  /\ ~L.cycle /\ c1 = <<>> => ~W.cycle
  /\ ~L.cycle /\ c1 # <<>> => ~IsCmd(c1[Len(c1)], {"native"})

(* The agreements of a cycle that the one sent and the other did not hear  *)
(* are on their way.                                                       *)
InCycles(L, W, c0, c1) ==
  /\ Paired(L, W) =>
       /\ Len(c1) = L.sent - W.heard /\ Len(c0) = W.sent - L.heard
       /\ \A i \in DOMAIN c1 : c1[i].t = "agree" /\ Nth(c1[i].phase) = W.heard + i
       /\ W.heard <= 3 /\ W.heard <= W.sent /\ W.sent <= W.heard + 1
  /\ W.cycle /\ ~Paired(L, W) => W.sent = 4 /\ W.heard = 3 /\ c1 # <<>>
  /\ L.cycle /\ ~Paired(L, W) /\ (\A i \in DOMAIN c1 : ~IsCmd(c1[i], {"native"})) =>
       L.sent = 4 /\ L.heard = 3 /\ c1 = <<>>

(* No command is newer than the leader's last call.                        *)
Old(n, W, c1) ==
  /\ W.job.c <= n
  /\ \A i \in DOMAIN c1 : c1[i].t = "cmd" /\ c1[i].j.op # "stop" => c1[i].j.c <= n

Framed(sp, n, L, W, on, c0, c1) ==
  /\ ToLeader(n, L, c0)
  /\ on => /\ FromWorker(L, W, c0) /\ Waiting(sp, L, W, c0, c1) /\ Ordered(L, W, c1)
           /\ LeftOpen(L, W, c1) /\ InCycles(L, W, c0, c1) /\ Old(n, W, c1)
  /\ ~on => c1 = <<>>

Calm == \A r \in Rank : ~failed[r]
StreamInv ==
  Calm => /\ Framed(mode.split, calls, LeaderView, WorkerView, up[1], chan[0], chan[1])
          /\ pc[0] = "drop" => ~up[1]

(* Where each rank may be in which command.                                *)
LeaderControl ==
  /\ job[0].op = "none" => pc[0] \in {"idle", "stopped"} /\ loc[0] = Loc
  /\ job[0].op \in {"create", "destroy"} =>
       pc[0] \in {"ack", "logits"} /\ (pc[0] = "logits" => loc[0].want = 0)
  /\ job[0].op \in {"sync", "batch"} => pc[0] \in Halfway \cup {"ack", "logits", "drop"}
  /\ job[0].op = "eval" => pc[0] \in Halfway \cup {"logits", "drop"}
  /\ job[0].op = "verify" =>
       /\ pc[0] \in Halfway \cup {"replay", "logits"}
       /\ pc[0] = "run" => loc[0].phase = 0
       /\ pc[0] \in {"replay", "logits"} => loc[0].phase # 0
  /\ job[0].op = "native" =>
       /\ pc[0] \in Halfway \cup {"check", "hear", "drop"}
       /\ pc[0] \in Halfway => loc[0].phase # 9
       /\ pc[0] = "drop" => failed[0]
  /\ job[0].op \in {"create", "destroy", "verify"} => loc[0].ok
  /\ job[0].op \notin {"invalidate", "stop"}
  /\ job[0].op # "none" => job[0].c = calls
  /\ pc[0] = "lost" => \/ failed[0] \/ job[0].op \in {"sync", "eval", "native"}
                       \/ job[0].op = "verify" /\ loc[0].phase = 0
  /\ ~up[0] => failed[0]
WorkerControl ==
  /\ job[1].op = "none" => pc[1] \in {"loop", "gone"} /\ loc[1] = Loc
  /\ job[1].op \in {"sync", "batch", "eval"} => pc[1] \in Halfway \cup {"reply"}
  /\ job[1].op = "verify" =>
       /\ pc[1] \in Halfway \cup {"replay", "reply", "commit"}
       /\ pc[1] \in {"run", "commit"} => loc[1].phase = 0
       /\ pc[1] \in {"replay", "reply"} => loc[1].phase # 0
  /\ job[1].op = "native" =>
       /\ pc[1] \in Halfway \cup {"check", "hear"}
       /\ pc[1] \in Halfway => loc[1].phase # 9
  /\ job[1].op \notin {"create", "destroy", "invalidate", "stop"}
  /\ up[1] <=> pc[1] # "gone"
Control == LeaderControl /\ WorkerControl

(* Of the leader's own faults, those the code makes known to the worker:   *)
(* when its half of a batch or of a replay fails, the code leaves the      *)
(* worker's answer unread.                                                 *)
FaultsAnswered ==
  \A f \in LocalFaults : ~(f[1] = 0 /\ f[2] \in {"batch", "replay"})

-----------------------------------------------------------------------------
(* Views and queues.                                                       *)

LEMMA MembersCounted ==
  ASSUME NEW j \in Jobs
  PROVE  Members(j) \in SUBSET Sessions /\ Cardinality(Members(j)) \in Nat
<1>1. Members(j) \subseteq Sessions
  BY DEF Members, Jobs, JobRecords
<1>2. IsFiniteSet(Members(j))
  BY <1>1, SessionAssumption, FS_Subset
<1> QED BY <1>1, <1>2, FS_CardinalityType

LEMMA LogitsCounted ==
  ASSUME NEW sp, NEW f \in Orders
  PROVE  LogitsFor(sp, f) \in Nat
<1>1. CASE IsCmd(f, {"sync", "batch"})
  <2>1. f.j \in Jobs
    BY <1>1 DEF IsCmd, Orders, CmdFrames, CommitFrames, AgreeFrames
  <2> QED BY <1>1, <2>1, MembersCounted DEF LogitsFor
<1>2. CASE ~IsCmd(f, {"sync", "batch"})
  BY <1>2 DEF LogitsFor
<1> QED BY <1>1, <1>2

LEMMA RestFacts ==
  ASSUME NEW sp \in BOOLEAN, NEW n \in Nat, NEW L \in Views, NEW W \in Views,
         NEW c0 \in Seq(Answers), NEW c1 \in Seq(Orders),
         Framed(sp, n, L, W, TRUE, c0, c1), ~L.ack, L.due = 0, ~L.cycle
  PROVE  /\ c0 = <<>> /\ ~W.ack /\ W.due = 0
         /\ \A i \in DOMAIN c1 : ~Loud(sp, c1[i])
<1>1. c0 = <<>>
  BY DEF Framed, ToLeader
<1>2. ~W.ack /\ ~(W.due > 0)
  <2>1. L.due = 0 /\ ~L.ack /\ W.due \in Nat /\ Len(c0) = 0
    BY <1>1 DEF Views
  <2>2. FromWorker(L, W, c0)
    BY DEF Framed
  <2>3. ~W.ack
    BY <2>1, <2>2 DEF FromWorker
  <2>4. W.due > 0 => Len(c0) + W.due <= L.due
    BY <2>1, <2>2, <2>3 DEF FromWorker
  <2>5. ~(W.due > 0)
    BY <2>1, <2>4
  <2> QED BY <2>3, <2>5
<1>3. W.due = 0
  BY <1>2 DEF Views
<1>4. ASSUME NEW i \in DOMAIN c1, Loud(sp, c1[i]) PROVE FALSE
  <2>1. Matches(sp, L, c1[i])
    BY <1>4 DEF Framed, Waiting, LoudLast
  <2>2. ~IsCmd(c1[i], AckOps) /\ ~IsCmd(c1[i], {"native"}) /\ LogitsFor(sp, c1[i]) <= 0
    BY <2>1 DEF Matches
  <2>3. ~IsCmd(c1[i], AckOps \cup {"native"})
    BY <2>2 DEF IsCmd
  <2>4. LogitsFor(sp, c1[i]) > 0
    BY <1>4, <2>3 DEF Loud
  <2>5. LogitsFor(sp, c1[i]) \in Nat
    BY LogitsCounted
  <2> QED BY <2>2, <2>4, <2>5
<1> QED BY <1>1, <1>2, <1>3, <1>4


(* What Append and Tail do, index by index.                                *)
LEMMA Appended ==
  ASSUME NEW X, NEW s \in Seq(X), NEW x \in X, NEW t, t = Append(s, x)
  PROVE  /\ t \in Seq(X) /\ Len(t) = Len(s) + 1 /\ t # <<>> /\ Len(s) \in Nat
         /\ DOMAIN t = 1 .. Len(s) + 1 /\ DOMAIN s = 1 .. Len(s)
         /\ t[Len(s) + 1] = x /\ t[Len(t)] = x /\ \A i \in 1 .. Len(s) : t[i] = s[i]
OBVIOUS

LEMMA Tailed ==
  ASSUME NEW X, NEW s \in Seq(X), s # <<>>, NEW t, t = Tail(s)
  PROVE  /\ t \in Seq(X) /\ Len(t) = Len(s) - 1 /\ Len(s) \in Nat \ {0} /\ Len(t) \in Nat
         /\ DOMAIN t = 1 .. Len(s) - 1 /\ DOMAIN s = 1 .. Len(s)
         /\ Head(s) = s[1] /\ \A i \in 1 .. Len(s) - 1 : t[i] = s[i + 1]
OBVIOUS

(* The leader, between two calls, sends a command.                         *)
Frame(j) == [t |-> "cmd", j |-> j]
LEMMA Announced ==
  ASSUME NEW sp \in BOOLEAN, NEW n \in Nat, NEW m \in Nat, n <= m,
         NEW L \in Views, NEW M \in Views, NEW W \in Views,
         NEW c0 \in Seq(Answers), NEW c1 \in Seq(Orders), NEW d1,
         Framed(sp, n, L, W, TRUE, c0, c1), AtRest(L),
         NEW j \in Jobs, j.op # "none", j.op # "stop" => j.c <= m,
         d1 = Append(c1, Frame(j)),
         ~AtRest(M) => M.job = j /\ j.c = m /\ n < m,
         M.ack <=> j.op \in AckOps, M.due = LogitsFor(sp, Frame(j)),
         M.block <=> j.op = "verify", M.cycle <=> j.op = "native", M.sent = 0, M.heard = 0
  PROVE  Framed(sp, m, M, W, TRUE, c0, d1)
<1> DEFINE f == Frame(j)
<1>1. f \in Orders /\ f.t = "cmd" /\ f.j = j
  BY DEF Frame, Orders, CmdFrames
<1>2. /\ c0 = <<>> /\ ~W.ack /\ W.due = 0
      /\ \A i \in DOMAIN c1 : ~Loud(sp, c1[i])
  BY RestFacts DEF AtRest
<1>3. \A ops : IsCmd(f, ops) <=> j.op \in ops
  BY <1>1 DEF IsCmd
<1>4. /\ d1 \in Seq(Orders) /\ Len(d1) = Len(c1) + 1 /\ d1 # <<>> /\ Len(c1) \in Nat
      /\ DOMAIN d1 = 1 .. Len(c1) + 1 /\ DOMAIN c1 = 1 .. Len(c1)
      /\ d1[Len(c1) + 1] = f /\ d1[Len(d1)] = f /\ \A i \in 1 .. Len(c1) : d1[i] = c1[i]
  BY <1>1, Appended
<1> HIDE DEF f
<1>5. ~Paired(L, W) /\ ~Paired(M, W)
  <2>1. M.cycle => W.job # M.job
    <3>1. W.job.c <= n
      BY DEF Framed, Old
    <3>2. M.cycle => M.job.c = m /\ n < m
      BY DEF AtRest
    <3>3. W.job.c \in Nat
      BY DEF Views, Jobs, JobRecords
    <3> QED BY <3>1, <3>2, <3>3
  <2> QED BY <2>1 DEF Paired, AtRest
<1>6. ToLeader(m, M, c0)
  <2>1. M.due \in Nat /\ Len(c0) = 0
    BY <1>2 DEF Views
  <2>2. ~AtRest(M) => M.job.c = m
    OBVIOUS
  <2>3. M.ack => ~M.cycle /\ ~M.block
    BY DEF AckOps
  <2>4. M.due # 0 => ~M.cycle /\ ~M.block
    <3>1. M.due = LogitsFor(sp, f)
      BY DEF f
    <3>2. LogitsFor(sp, f) # 0 => j.op \in {"sync", "batch", "eval"}
      BY <1>1, <1>3 DEF LogitsFor
    <3> QED BY <3>1, <3>2
  <2>5. M.cycle => ~M.block
    OBVIOUS
  <2> QED BY <1>2, <2>1, <2>2, <2>3, <2>4, <2>5 DEF ToLeader
<1>7. FromWorker(M, W, c0)
  <2>1. ~(W.block /\ W.cycle)
    BY DEF Framed, FromWorker
  <2> QED BY <1>2, <2>1 DEF FromWorker
<1>8. Waiting(sp, M, W, c0, d1)
  <2> SUFFICES ASSUME NEW i \in DOMAIN d1, Loud(sp, d1[i]) PROVE LoudLast(sp, M, W, c0, d1, i)
    BY DEF Waiting
  <2>1. i = Len(c1) + 1 /\ d1[i] = f
    BY <1>2, <1>4
  <2>2. Matches(sp, M, f)
    <3>1. Loud(sp, f) => ~AtRest(M)
      <4>1. IsCmd(f, AckOps \cup {"native"}) => ~AtRest(M)
        BY <1>3 DEF AtRest
      <4>2. LogitsFor(sp, f) > 0 => ~AtRest(M)
        BY DEF f, AtRest
      <4> QED BY <4>1, <4>2 DEF Loud
    <3>2. f.j = M.job
      BY <1>1, <2>1, <3>1
    <3>3. LogitsFor(sp, f) <= M.due
      BY DEF f, Views
    <3> QED BY <1>3, <3>2, <3>3 DEF Matches
  <2>3. M.heard = 0 /\ Len(d1) = i + M.sent /\ M.sent # 1 /\ i = Len(d1)
    BY <1>4, <2>1
  <2>4. d1[i].t # "commit"
    BY <1>1, <2>1
  <2> QED BY <1>2, <2>1, <2>2, <2>3, <2>4 DEF LoudLast
<1>9. Ordered(M, W, d1)
  <2>1. d1[1].t = FirstType(W)
    <3>1. CASE c1 = <<>>
      <4>1. ~W.block /\ ~W.cycle
        BY <3>1 DEF Framed, LeftOpen, AtRest
      <4> QED BY <1>1, <1>4, <3>1, <4>1 DEF FirstType
    <3>2. CASE c1 # <<>>
      BY <1>4, <3>2 DEF Framed, Ordered
    <3> QED BY <3>1, <3>2
  <2>2. ASSUME NEW i \in 1 .. Len(d1) - 1 PROVE d1[i + 1].t = NextType(M, W, d1[i])
    <3>1. CASE i = Len(c1)
      <4>1. c1 # <<>> /\ d1[i] = c1[Len(c1)] /\ d1[i + 1] = f
        BY <1>4, <3>1
      <4>2. ~IsCmd(d1[i], {"verify"}) /\ ~IsCmd(d1[i], {"native"})
        BY <4>1 DEF Framed, LeftOpen, AtRest
      <4> QED BY <1>1, <1>5, <4>1, <4>2 DEF NextType
    <3>2. CASE i # Len(c1)
      <4>1. i \in 1 .. Len(c1) - 1 /\ d1[i] = c1[i] /\ d1[i + 1] = c1[i + 1]
        <5>1. i \in 1 .. Len(c1) - 1
          <6>1. Len(d1) - 1 = Len(c1) /\ Len(c1) \in Nat
            BY <1>4
          <6>2. i \in 1 .. Len(c1)
            BY <6>1
          <6> QED BY <3>2, <6>1, <6>2
        <5>2. i \in 1 .. Len(c1) /\ i + 1 \in 1 .. Len(c1)
          BY <1>4, <5>1
        <5> QED BY <1>4, <5>1, <5>2
      <4>2. c1[i + 1].t = NextType(L, W, c1[i])
        BY <4>1 DEF Framed, Ordered
      <4> QED BY <1>5, <4>1, <4>2 DEF NextType
    <3> QED BY <3>1, <3>2
  <2> QED BY <2>1, <2>2 DEF Ordered
<1>10. LeftOpen(M, W, d1)
  <2>1. M.block => M.job = j
    BY DEF AtRest
  <2> QED BY <1>1, <1>3, <1>4, <2>1 DEF LeftOpen
<1>11. InCycles(M, W, c0, d1)
  <2>1. W.cycle => W.sent = 4 /\ W.heard = 3
    BY <1>5 DEF Framed, InCycles
  <2>2. M.cycle => Len(c1) + 1 \in DOMAIN d1 /\ IsCmd(d1[Len(c1) + 1], {"native"})
    BY <1>3, <1>4
  <2> QED BY <1>4, <1>5, <2>1, <2>2 DEF InCycles
<1>12. Old(m, W, d1)
  <2>1. W.job.c <= m
    <3>1. W.job.c <= n /\ W.job.c \in Nat
      BY DEF Framed, Old, Views, Jobs, JobRecords
    <3> QED BY <3>1
  <2>2. ASSUME NEW i \in DOMAIN d1, d1[i].t = "cmd" /\ d1[i].j.op # "stop" PROVE d1[i].j.c <= m
    <3>1. CASE i = Len(c1) + 1
      BY <1>1, <1>4, <2>2, <3>1
    <3>2. CASE i # Len(c1) + 1
      <4>1. i \in DOMAIN c1 /\ d1[i] = c1[i]
        BY <1>4, <3>2
      <4>2. c1[i].j.c <= n
        BY <2>2, <4>1 DEF Framed, Old
      <4>3. c1[i] \in Orders
        BY <1>4, <4>1
      <4>4. c1[i].j.c \in Nat
        BY <2>2, <4>1, <4>3 DEF Orders, CmdFrames, CommitFrames, AgreeFrames, Jobs, JobRecords
      <4> QED BY <4>1, <4>2, <4>4
    <3> QED BY <3>1, <3>2
  <2> QED BY <2>1, <2>2 DEF Old
<1> QED BY <1>6, <1>7, <1>8, <1>9, <1>10, <1>11, <1>12 DEF Framed


(* Outside of blocks and cycles the queue to the worker looks the same,    *)
(* whatever the leader expects.                                            *)
LEMMA QueueKept ==
  ASSUME NEW sp \in BOOLEAN, NEW n \in Nat, NEW L \in Views, NEW M \in Views, NEW W \in Views,
         NEW c0 \in Seq(Answers), NEW c1 \in Seq(Orders), NEW d0,
         Framed(sp, n, L, W, TRUE, c0, c1),
         ~L.cycle, ~M.cycle, ~L.block, ~M.block
  PROVE  Ordered(M, W, c1) /\ LeftOpen(M, W, c1) /\ InCycles(M, W, d0, c1) /\ Old(n, W, c1)
<1>1. ~Paired(L, W) /\ ~Paired(M, W)
  BY DEF Paired
<1>2. \A f : NextType(L, W, f) = NextType(M, W, f)
  BY <1>1 DEF NextType
<1>3. Ordered(M, W, c1)
  BY <1>2 DEF Framed, Ordered
<1>4. LeftOpen(M, W, c1)
  BY DEF Framed, LeftOpen
<1>5. InCycles(M, W, d0, c1)
  BY <1>1 DEF Framed, InCycles
<1>6. Old(n, W, c1)
  BY DEF Framed
<1> QED BY <1>3, <1>4, <1>5, <1>6

(* While an answer is on its way, no command that calls for one is.        *)
LEMMA NoneLoud ==
  ASSUME NEW sp \in BOOLEAN, NEW n \in Nat, NEW L \in Views, NEW W \in Views,
         NEW c0 \in Seq(Answers), NEW c1 \in Seq(Orders),
         Framed(sp, n, L, W, TRUE, c0, c1), c0 # <<>> \/ W.ack \/ W.due # 0
  PROVE  \A i \in DOMAIN c1 : ~Loud(sp, c1[i])
BY DEF Framed, Waiting, LoudLast

(* The leader reads a good acknowledgement.                                *)
LEMMA AckTaken ==
  ASSUME NEW sp \in BOOLEAN, NEW n \in Nat, NEW L \in Views, NEW M \in Views, NEW W \in Views,
         NEW c0 \in Seq(Answers), NEW c1 \in Seq(Orders), NEW d0, NEW on \in BOOLEAN,
         Framed(sp, n, L, W, on, c0, c1),
         L.ack, c0 # <<>>, c0[1].status = 0, d0 = Tail(c0),
         ~M.ack, M.due = L.due, ~M.block, ~M.cycle, ~AtRest(M) => M.job = L.job
  PROVE  Framed(sp, n, M, W, on, d0, c1)
<1>1. /\ d0 \in Seq(Answers) /\ Len(d0) = Len(c0) - 1 /\ Len(c0) \in Nat \ {0} /\ Len(d0) \in Nat
      /\ DOMAIN d0 = 1 .. Len(c0) - 1 /\ DOMAIN c0 = 1 .. Len(c0)
      /\ \A i \in 1 .. Len(c0) - 1 : d0[i] = c0[i + 1]
  BY Tailed
<1>2. \A i \in DOMAIN d0 : i + 1 \in 2 .. Len(c0) /\ i + 1 \in DOMAIN c0 /\ d0[i] = c0[i + 1]
  BY <1>1
<1>3. ToLeader(n, L, c0)
  BY DEF Framed
<1>4. ~L.cycle /\ ~L.block /\ ~AtRest(L)
  BY <1>3 DEF ToLeader, AtRest
<1>5. ToLeader(n, M, d0)
  <2>1. \A i \in DOMAIN d0 : d0[i].c = n /\ d0[i].t = "logits"
    BY <1>2, <1>3 DEF ToLeader
  <2>2. ~AtRest(M) => M.job.c = n
    BY <1>3, <1>4 DEF ToLeader
  <2>3. Len(d0) <= M.due
    BY <1>1, <1>3 DEF ToLeader
  <2> QED BY <2>1, <2>2, <2>3 DEF ToLeader
<1>6. CASE on = TRUE
  <2>1. Ordered(M, W, c1) /\ LeftOpen(M, W, c1) /\ InCycles(M, W, d0, c1) /\ Old(n, W, c1)
    BY <1>4, <1>6, QueueKept
  <2>2. Waiting(sp, M, W, d0, c1)
    BY <1>6, NoneLoud DEF Waiting
  <2>3. FromWorker(M, W, d0)
    <3>1. FromWorker(L, W, c0)
      BY <1>6 DEF Framed
    <3>2. ~W.ack
      BY <3>1 DEF FromWorker
    <3>3. W.due > 0 => W.job = L.job /\ Len(c0) - 1 + W.due <= L.due
      BY <3>1, <3>2 DEF FromWorker
    <3>4. W.due > 0 => ~AtRest(M)
      <4>1. W.due \in Nat /\ L.due \in Nat
        BY DEF Views
      <4> QED BY <1>1, <3>3, <4>1 DEF AtRest
    <3> QED BY <1>1, <3>1, <3>2, <3>3, <3>4 DEF FromWorker
  <2> QED BY <1>5, <1>6, <2>1, <2>2, <2>3 DEF Framed
<1>7. CASE on = FALSE
  BY <1>5, <1>7 DEF Framed
<1> QED BY <1>6, <1>7

(* The leader reads an acknowledgement that refuses the command.           *)
LEMMA Refused ==
  ASSUME NEW sp \in BOOLEAN, NEW n \in Nat, NEW L \in Views, NEW M \in Views, NEW W \in Views,
         NEW c0 \in Seq(Answers), NEW c1 \in Seq(Orders), NEW d0, NEW on \in BOOLEAN,
         Framed(sp, n, L, W, on, c0, c1),
         L.ack, c0 # <<>>, c0[1].status # 0, d0 = Tail(c0), AtRest(M)
  PROVE  Framed(sp, n, M, W, on, d0, c1)
<1>1. Len(c0) = 1 /\ ~L.cycle /\ ~L.block
  BY DEF Framed, ToLeader
<1>2. d0 = <<>> /\ Len(d0) = 0 /\ DOMAIN d0 = {}
  BY <1>1
<1>3. ToLeader(n, M, d0)
  <2>1. M.due = 0 /\ ~M.ack /\ ~M.cycle /\ ~M.block
    BY DEF AtRest
  <2>2. \A i \in DOMAIN d0 : FALSE
    BY <1>2
  <2>3. Len(d0) <= M.due
    <3>1. 0 <= 0
      OBVIOUS
    <3> QED BY <1>2, <2>1, <3>1, ZenonT(60)
  <2> HIDE DEF AtRest
  <2> QED BY <2>1, <2>2, <2>3 DEF ToLeader
<1>4. CASE on = TRUE
  <2>1. Ordered(M, W, c1) /\ LeftOpen(M, W, c1) /\ InCycles(M, W, d0, c1) /\ Old(n, W, c1)
    BY <1>1, <1>4, QueueKept DEF AtRest
  <2>2. Waiting(sp, M, W, d0, c1)
    BY <1>4, NoneLoud DEF Waiting
  <2>3. FromWorker(M, W, d0)
    <3>1. FromWorker(L, W, c0)
      BY <1>4 DEF Framed
    <3>2. ~W.ack /\ ~(W.due > 0)
      BY <3>1 DEF FromWorker
    <3> QED BY <3>1, <3>2 DEF FromWorker, AtRest
  <2> QED BY <1>3, <1>4, <2>1, <2>2, <2>3 DEF Framed
<1>5. CASE on = FALSE
  BY <1>3, <1>5 DEF Framed
<1> QED BY <1>4, <1>5

(* The leader reads logits.                                                *)
LEMMA LogitsTaken ==
  ASSUME NEW sp \in BOOLEAN, NEW n \in Nat, NEW L \in Views, NEW M \in Views, NEW W \in Views,
         NEW c0 \in Seq(Answers), NEW c1 \in Seq(Orders), NEW d0, NEW on \in BOOLEAN,
         Framed(sp, n, L, W, on, c0, c1),
         ~L.ack, L.due # 0, c0 # <<>>, d0 = Tail(c0),
         ~M.ack, M.due = L.due - 1, ~M.block, ~M.cycle, ~AtRest(M) => M.job = L.job
  PROVE  Framed(sp, n, M, W, on, d0, c1)
<1>1. /\ d0 \in Seq(Answers) /\ Len(d0) = Len(c0) - 1 /\ Len(c0) \in Nat \ {0} /\ Len(d0) \in Nat
      /\ DOMAIN d0 = 1 .. Len(c0) - 1 /\ DOMAIN c0 = 1 .. Len(c0)
      /\ \A i \in 1 .. Len(c0) - 1 : d0[i] = c0[i + 1]
  BY Tailed
<1>2. \A i \in DOMAIN d0 : i + 1 \in DOMAIN c0 /\ d0[i] = c0[i + 1]
  BY <1>1
<1>3. ToLeader(n, L, c0)
  BY DEF Framed
<1>4. ~L.cycle /\ ~L.block /\ ~AtRest(L)
  BY <1>3 DEF ToLeader, AtRest
<1>5. ToLeader(n, M, d0)
  <2>1. \A i \in DOMAIN d0 : d0[i].c = n /\ d0[i].t = "logits"
    BY <1>2, <1>3, <1>4 DEF ToLeader
  <2>2. ~AtRest(M) => M.job.c = n
    BY <1>3, <1>4 DEF ToLeader
  <2>3. Len(d0) <= M.due
    <3>1. Len(c0) <= L.due /\ L.due \in Nat
      BY <1>3, <1>4 DEF ToLeader, Views
    <3> QED BY <1>1, <3>1
  <2> QED BY <2>1, <2>2, <2>3 DEF ToLeader
<1>6. CASE on = TRUE
  <2>1. Ordered(M, W, c1) /\ LeftOpen(M, W, c1) /\ InCycles(M, W, d0, c1) /\ Old(n, W, c1)
    BY <1>4, <1>6, QueueKept
  <2>2. Waiting(sp, M, W, d0, c1)
    BY <1>6, NoneLoud DEF Waiting
  <2>3. FromWorker(M, W, d0)
    <3>1. FromWorker(L, W, c0)
      BY <1>6 DEF Framed
    <3>2. ~W.ack
      BY <3>1 DEF FromWorker
    <3>3. W.due > 0 => W.job = L.job /\ Len(c0) + W.due <= L.due
      BY <3>1, <3>2 DEF FromWorker
    <3>4. W.due \in Nat /\ L.due \in Nat
      BY DEF Views
    <3>5. W.due > 0 => ~AtRest(M)
      BY <1>1, <3>3, <3>4 DEF AtRest
    <3>6. W.due > 0 => Len(d0) + W.due <= M.due
      BY <1>1, <3>3, <3>4
    <3> QED BY <3>1, <3>2, <3>3, <3>5, <3>6 DEF FromWorker
  <2> QED BY <1>5, <1>6, <2>1, <2>2, <2>3 DEF Framed
<1>7. CASE on = FALSE
  BY <1>5, <1>7 DEF Framed
<1> QED BY <1>6, <1>7


(* With nothing on its way, what the leader expects need only be one thing *)
(* at a time.                                                              *)
LEMMA NothingOnItsWay ==
  ASSUME NEW n \in Nat, NEW M \in Views, NEW c0, c0 = <<>>,
         ~AtRest(M) => M.job.c = n,
         M.ack => ~M.cycle /\ ~M.block, M.due # 0 => ~M.cycle /\ ~M.block,
         M.cycle => ~M.block /\ M.heard <= 3 /\ M.heard <= M.sent /\ M.sent <= M.heard + 1
  PROVE  ToLeader(n, M, c0)
<1>1. Len(c0) = 0 /\ DOMAIN c0 = {}
  OBVIOUS
<1>2. M.due \in Nat /\ M.heard \in 0 .. 4
  BY DEF Views
<1>3. Len(c0) <= M.due
  BY <1>1, <1>2
<1>4. M.cycle => M.heard + Len(c0) <= 4
  BY <1>1, <1>2
<1> QED BY <1>1, <1>3, <1>4 DEF ToLeader

(* The leader, after it verified a block, tells the worker its decision.   *)
LEMMA Decided ==
  ASSUME NEW sp \in BOOLEAN, NEW n \in Nat, NEW L \in Views, NEW M \in Views, NEW W \in Views,
         NEW c0 \in Seq(Answers), NEW c1 \in Seq(Orders), NEW d1,
         Framed(sp, n, L, W, TRUE, c0, c1), L.block,
         NEW f \in CommitFrames, d1 = Append(c1, f),
         ~M.ack, M.due = LogitsFor(sp, f), ~M.block, ~M.cycle, ~AtRest(M) => M.job = L.job
  PROVE  Framed(sp, n, M, W, TRUE, c0, d1)
<1>1. f \in Orders /\ f.t = "commit"
  BY DEF Orders, CommitFrames
<1>2. ToLeader(n, L, c0)
  BY DEF Framed
<1>3. ~L.ack /\ L.due = 0 /\ ~L.cycle
  BY <1>2 DEF ToLeader
<1>4. /\ c0 = <<>> /\ ~W.ack /\ W.due = 0
      /\ \A i \in DOMAIN c1 : ~Loud(sp, c1[i])
  BY <1>3, RestFacts
<1>5. /\ d1 \in Seq(Orders) /\ Len(d1) = Len(c1) + 1 /\ d1 # <<>> /\ Len(c1) \in Nat
      /\ DOMAIN d1 = 1 .. Len(c1) + 1 /\ DOMAIN c1 = 1 .. Len(c1)
      /\ d1[Len(c1) + 1] = f /\ d1[Len(d1)] = f /\ \A i \in 1 .. Len(c1) : d1[i] = c1[i]
  BY <1>1, Appended
<1>6. \A ops : ~IsCmd(f, ops)
  BY <1>1 DEF IsCmd
<1>7. ~Paired(L, W) /\ ~Paired(M, W)
  BY <1>3 DEF Paired
<1>8. c1 = <<>> => W.block /\ W.job = L.job
  BY DEF Framed, LeftOpen
<1>9. c1 # <<>> => IsCmd(c1[Len(c1)], {"verify"}) /\ c1[Len(c1)].j = L.job
  BY DEF Framed, LeftOpen
<1>10. ToLeader(n, M, c0)
  <2>1. L.job.c = n
    BY <1>2 DEF ToLeader, AtRest
  <2> QED BY <1>4, <2>1, NothingOnItsWay
<1>11. FromWorker(M, W, c0)
  <2>1. ~(W.block /\ W.cycle)
    BY DEF Framed, FromWorker
  <2> QED BY <1>4, <2>1 DEF FromWorker
<1>12. Waiting(sp, M, W, c0, d1)
  <2> SUFFICES ASSUME NEW i \in DOMAIN d1, Loud(sp, d1[i]) PROVE LoudLast(sp, M, W, c0, d1, i)
    BY DEF Waiting
  <2>1. i = Len(c1) + 1 /\ d1[i] = f
    BY <1>4, <1>5
  <2>2. LogitsFor(sp, f) > 0 /\ M.job = L.job
    <3>1. LogitsFor(sp, f) > 0
      BY <1>6, <2>1 DEF Loud
    <3> QED BY <3>1 DEF AtRest
  <2>3. Matches(sp, M, f)
    <3>1. LogitsFor(sp, f) <= M.due
      BY DEF Views
    <3> QED BY <1>1, <1>6, <3>1 DEF Matches
  <2>4. i = 1 => W.block /\ W.job = M.job
    BY <1>5, <1>8, <2>1, <2>2
  <2>5. i # 1 => d1[i - 1].t = "cmd" /\ d1[i - 1].j = M.job
    <3>1. i # 1 => c1 # <<>> /\ d1[i - 1] = c1[Len(c1)]
      <4> SUFFICES ASSUME i # 1 PROVE c1 # <<>> /\ d1[i - 1] = c1[Len(c1)]
        OBVIOUS
      <4>1. i - 1 = Len(c1) /\ Len(c1) # 0 /\ Len(c1) \in Nat
        BY <1>5, <2>1
      <4>2. Len(c1) \in 1 .. Len(c1) /\ c1 # <<>>
        BY <4>1
      <4> QED BY <1>5, <4>1, <4>2
    <3> QED BY <1>9, <2>2, <3>1 DEF IsCmd
  <2>6. i = Len(d1)
    BY <1>5, <2>1
  <2> QED BY <1>4, <1>6, <2>1, <2>3, <2>4, <2>5, <2>6 DEF LoudLast
<1>13. Ordered(M, W, d1)
  <2>1. d1[1].t = FirstType(W)
    <3>1. CASE c1 = <<>>
      BY <1>1, <1>5, <1>8, <3>1 DEF FirstType
    <3>2. CASE c1 # <<>>
      BY <1>5, <3>2 DEF Framed, Ordered
    <3> QED BY <3>1, <3>2
  <2>2. ASSUME NEW i \in 1 .. Len(d1) - 1 PROVE d1[i + 1].t = NextType(M, W, d1[i])
    <3>0. Len(d1) - 1 = Len(c1) /\ Len(c1) \in Nat /\ i \in 1 .. Len(c1)
      BY <1>5
    <3>1. CASE i = Len(c1)
      <4>1. c1 # <<>> /\ d1[i] = c1[Len(c1)] /\ d1[i + 1] = f
        BY <1>5, <3>0, <3>1
      <4> QED BY <1>1, <1>9, <4>1 DEF NextType
    <3>2. CASE i # Len(c1)
      <4>1. i \in 1 .. Len(c1) - 1 /\ i + 1 \in 1 .. Len(c1)
        BY <3>0, <3>2
      <4>2. d1[i] = c1[i] /\ d1[i + 1] = c1[i + 1]
        BY <1>5, <3>0, <4>1
      <4>3. c1[i + 1].t = NextType(L, W, c1[i])
        BY <4>1 DEF Framed, Ordered
      <4> QED BY <1>7, <4>2, <4>3 DEF NextType
    <3> QED BY <3>1, <3>2
  <2> QED BY <2>1, <2>2 DEF Ordered
<1>14. LeftOpen(M, W, d1)
  BY <1>5, <1>6 DEF LeftOpen
<1>15. InCycles(M, W, c0, d1)
  <2>1. W.cycle => W.sent = 4 /\ W.heard = 3
    BY <1>7 DEF Framed, InCycles
  <2> QED BY <1>5, <1>7, <2>1 DEF InCycles
<1>16. Old(n, W, d1)
  <2>1. \A i \in DOMAIN d1 : d1[i].t = "cmd" => i \in DOMAIN c1 /\ d1[i] = c1[i]
    BY <1>1, <1>5
  <2> QED BY <2>1 DEF Framed, Old
<1> QED BY <1>10, <1>11, <1>12, <1>13, <1>14, <1>15, <1>16 DEF Framed

(* The leader announces its next agreement.                                *)
LEMMA LeaderAgrees ==
  ASSUME NEW sp \in BOOLEAN, NEW n \in Nat, NEW L \in Views, NEW M \in Views, NEW W \in Views,
         NEW c0 \in Seq(Answers), NEW c1 \in Seq(Orders), NEW d1,
         Framed(sp, n, L, W, TRUE, c0, c1),
         L.cycle, L.sent = L.heard, L.sent <= 3,
         NEW f \in AgreeFrames, Nth(f.phase) = L.sent + 1, d1 = Append(c1, f),
         ~M.ack, M.due = 0, ~M.block, M.cycle, M.job = L.job,
         M.sent = L.sent + 1, M.heard = L.heard
  PROVE  Framed(sp, n, M, W, TRUE, c0, d1)
<1>1. f \in Orders /\ f.t = "agree"
  BY DEF Orders, AgreeFrames
<1>2. ToLeader(n, L, c0)
  BY DEF Framed
<1>3. ~L.ack /\ L.due = 0 /\ ~L.block /\ L.heard \in 0 .. 4 /\ ~AtRest(L)
  BY <1>2 DEF ToLeader, Views, AtRest
<1>4. ~W.ack /\ W.due = 0
  <2>1. FromWorker(L, W, c0)
    BY DEF Framed
  <2>2. ~W.ack /\ ~(W.due > 0)
    BY <1>3, <2>1 DEF FromWorker
  <2> QED BY <2>2 DEF Views
<1>5. /\ d1 \in Seq(Orders) /\ Len(d1) = Len(c1) + 1 /\ d1 # <<>> /\ Len(c1) \in Nat
      /\ DOMAIN d1 = 1 .. Len(c1) + 1 /\ DOMAIN c1 = 1 .. Len(c1)
      /\ d1[Len(c1) + 1] = f /\ d1[Len(d1)] = f /\ \A i \in 1 .. Len(c1) : d1[i] = c1[i]
  BY <1>1, Appended
<1>6. \A ops : ~IsCmd(f, ops)
  BY <1>1 DEF IsCmd
<1>7. ~Loud(sp, f)
  BY <1>1, <1>6 DEF Loud, LogitsFor
<1>8. Paired(M, W) <=> Paired(L, W)
  BY DEF Paired
<1>9. \A i \in DOMAIN c1 : Loud(sp, c1[i]) => IsCmd(c1[i], {"native"}) /\ i = Len(c1) /\ L.heard = 0
  <2> SUFFICES ASSUME NEW i \in DOMAIN c1, Loud(sp, c1[i])
               PROVE  IsCmd(c1[i], {"native"}) /\ i = Len(c1) /\ L.heard = 0
    OBVIOUS
  <2>1. LoudLast(sp, L, W, c0, c1, i)
    BY DEF Framed, Waiting
  <2>2. IsCmd(c1[i], {"native"})
    BY <2>1 DEF LoudLast, Matches
  <2>3. L.heard = 0 /\ Len(c1) = i + L.sent
    BY <2>1, <2>2 DEF LoudLast
  <2>4. L.sent = 0
    BY <2>3
  <2> QED BY <1>5, <2>2, <2>3, <2>4
<1>10. Paired(L, W) \/ (c1 # <<>> /\ IsCmd(c1[Len(c1)], {"native"}))
  <2>1. CASE \E i \in DOMAIN c1 : IsCmd(c1[i], {"native"})
    <3>1. PICK i \in DOMAIN c1 : IsCmd(c1[i], {"native"})
      BY <2>1
    <3>2. Loud(sp, c1[i])
      BY <3>1 DEF Loud, IsCmd
    <3>3. i = Len(c1) /\ c1 # <<>>
      BY <1>9, <3>2
    <3> QED BY <3>1, <3>3
  <2>2. CASE ~\E i \in DOMAIN c1 : IsCmd(c1[i], {"native"})
    <3>1. ~Paired(L, W) => L.sent = 4
      BY <2>2 DEF Framed, InCycles
    <3>2. L.sent # 4
      BY <1>3
    <3> QED BY <3>1, <3>2
  <2> QED BY <2>1, <2>2
<1>11. ToLeader(n, M, c0)
  <2>1. M.heard <= 3 /\ M.heard <= M.sent /\ M.sent <= M.heard + 1
    BY <1>3
  <2> QED BY <1>2, <1>3, <2>1 DEF ToLeader
<1>12. FromWorker(M, W, c0)
  BY <1>4 DEF Framed, FromWorker
<1>13. Waiting(sp, M, W, c0, d1)
  <2> SUFFICES ASSUME NEW i \in DOMAIN d1, Loud(sp, d1[i]) PROVE LoudLast(sp, M, W, c0, d1, i)
    BY DEF Waiting
  <2>1. i \in DOMAIN c1 /\ d1[i] = c1[i]
    BY <1>5, <1>7
  <2>2. IsCmd(c1[i], {"native"}) /\ i = Len(c1) /\ L.heard = 0
    BY <1>9, <2>1
  <2>3. LoudLast(sp, L, W, c0, c1, i)
    BY <2>1 DEF Framed, Waiting
  <2>4. Matches(sp, M, d1[i])
    BY <1>3, <2>1, <2>3 DEF LoudLast, Matches
  <2>5. Len(d1) = i + M.sent /\ M.heard = 0 /\ Nth(d1[i + 1].phase) = 1
    BY <1>5, <2>2
  <2>6. d1[i].t # "commit"
    BY <2>1, <2>2 DEF IsCmd
  <2> QED BY <2>1, <2>2, <2>3, <2>4, <2>5, <2>6 DEF LoudLast
<1>14. Ordered(M, W, d1)
  <2>1. d1[1].t = FirstType(W)
    <3>1. CASE c1 = <<>>
      <4>1. W.cycle
        BY <1>10, <3>1 DEF Paired
      <4>2. ~W.block
        BY <4>1 DEF Framed, FromWorker
      <4> QED BY <1>1, <1>5, <3>1, <4>1, <4>2 DEF FirstType
    <3>2. CASE c1 # <<>>
      BY <1>5, <3>2 DEF Framed, Ordered
    <3> QED BY <3>1, <3>2
  <2>2. ASSUME NEW i \in 1 .. Len(d1) - 1 PROVE d1[i + 1].t = NextType(M, W, d1[i])
    <3>0. Len(d1) - 1 = Len(c1) /\ Len(c1) \in Nat /\ i \in 1 .. Len(c1)
      BY <1>5
    <3>1. CASE i = Len(c1)
      <4>1. d1[i] = c1[Len(c1)] /\ d1[i + 1] = f /\ i \in DOMAIN c1
        BY <1>5, <3>0, <3>1
      <4>2. CASE Paired(L, W)
        <5>1. d1[i].t = "agree"
          BY <3>1, <4>1, <4>2 DEF Framed, InCycles
        <5> QED BY <1>1, <1>8, <4>1, <4>2, <5>1 DEF NextType, IsCmd
      <4>3. CASE IsCmd(c1[Len(c1)], {"native"})
        BY <1>1, <4>1, <4>3 DEF NextType, IsCmd
      <4> QED BY <1>10, <4>2, <4>3
    <3>2. CASE i # Len(c1)
      <4>1. i \in 1 .. Len(c1) - 1 /\ i + 1 \in 1 .. Len(c1)
        BY <3>0, <3>2
      <4>2. d1[i] = c1[i] /\ d1[i + 1] = c1[i + 1]
        BY <1>5, <3>0, <4>1
      <4>3. c1[i + 1].t = NextType(L, W, c1[i])
        BY <4>1 DEF Framed, Ordered
      <4> QED BY <1>8, <4>2, <4>3 DEF NextType
    <3> QED BY <3>1, <3>2
  <2> QED BY <2>1, <2>2 DEF Ordered
<1>15. LeftOpen(M, W, d1)
  BY <1>5, <1>6 DEF LeftOpen
<1>16. InCycles(M, W, c0, d1)
  <2>1. CASE Paired(L, W)
    <3>1. /\ Len(c1) = L.sent - W.heard /\ Len(c0) = W.sent - L.heard
          /\ \A i \in DOMAIN c1 : c1[i].t = "agree" /\ Nth(c1[i].phase) = W.heard + i
          /\ W.heard <= 3 /\ W.heard <= W.sent /\ W.sent <= W.heard + 1
      BY <2>1 DEF Framed, InCycles
    <3>2. W.heard \in 0 .. 4 /\ L.sent \in 0 .. 4
      BY DEF Views
    <3>3. \A i \in DOMAIN d1 : d1[i].t = "agree" /\ Nth(d1[i].phase) = W.heard + i
      <4> SUFFICES ASSUME NEW i \in DOMAIN d1
                   PROVE  d1[i].t = "agree" /\ Nth(d1[i].phase) = W.heard + i
        OBVIOUS
      <4>1. CASE i = Len(c1) + 1
        BY <1>1, <1>5, <3>1, <3>2, <4>1
      <4>2. CASE i # Len(c1) + 1
        <5>1. i \in DOMAIN c1 /\ d1[i] = c1[i]
          BY <1>5, <4>2
        <5> QED BY <3>1, <5>1
      <4> QED BY <4>1, <4>2
    <3>4. Len(d1) = M.sent - W.heard
      BY <1>5, <3>1, <3>2
    <3> QED BY <1>8, <2>1, <3>1, <3>3, <3>4 DEF InCycles
  <2>2. CASE ~Paired(L, W)
    <3>1. Len(c1) \in DOMAIN d1 /\ IsCmd(d1[Len(c1)], {"native"})
      <4>1. c1 # <<>> /\ IsCmd(c1[Len(c1)], {"native"})
        BY <1>10, <2>2
      <4>2. Len(c1) \in 1 .. Len(c1)
        BY <4>1
      <4>3. d1[Len(c1)] = c1[Len(c1)] /\ Len(c1) \in DOMAIN d1
        BY <1>5, <4>2
      <4> QED BY <4>1, <4>3
    <3>2. W.cycle => W.sent = 4 /\ W.heard = 3
      BY <2>2 DEF Framed, InCycles
    <3> QED BY <1>5, <1>8, <2>2, <3>1, <3>2 DEF InCycles
  <2> QED BY <2>1, <2>2
<1>17. Old(n, W, d1)
  <2>1. \A i \in DOMAIN d1 : d1[i].t = "cmd" => i \in DOMAIN c1 /\ d1[i] = c1[i]
    BY <1>1, <1>5
  <2> QED BY <2>1 DEF Framed, Old
<1> QED BY <1>11, <1>12, <1>13, <1>14, <1>15, <1>16, <1>17 DEF Framed


(* The leader hears an agreement of the worker, and goes on.               *)
LEMMA LeaderHears ==
  ASSUME NEW sp \in BOOLEAN, NEW n \in Nat, NEW L \in Views, NEW M \in Views, NEW W \in Views,
         NEW c0 \in Seq(Answers), NEW c1 \in Seq(Orders), NEW d0, NEW on \in BOOLEAN,
         Framed(sp, n, L, W, on, c0, c1),
         L.cycle, L.sent = L.heard + 1, L.sent <= 3, c0 # <<>>, d0 = Tail(c0),
         ~M.ack, M.due = 0, ~M.block, M.cycle, M.job = L.job,
         M.sent = L.sent, M.heard = L.heard + 1
  PROVE  Framed(sp, n, M, W, on, d0, c1)
<1>1. /\ d0 \in Seq(Answers) /\ Len(d0) = Len(c0) - 1 /\ Len(c0) \in Nat \ {0} /\ Len(d0) \in Nat
      /\ DOMAIN d0 = 1 .. Len(c0) - 1 /\ DOMAIN c0 = 1 .. Len(c0)
      /\ \A i \in 1 .. Len(c0) - 1 : d0[i] = c0[i + 1]
  BY Tailed
<1>2. \A i \in DOMAIN d0 : i \in Int /\ i + 1 \in DOMAIN c0 /\ d0[i] = c0[i + 1]
  BY <1>1
<1>3. ToLeader(n, L, c0)
  BY DEF Framed
<1>4. ~L.ack /\ L.due = 0 /\ ~L.block /\ L.heard \in 0 .. 4 /\ ~AtRest(L)
  BY <1>3 DEF ToLeader, Views, AtRest
<1>5. ToLeader(n, M, d0)
  <2>1. \A i \in DOMAIN c0 : c0[i].c = n /\ c0[i].t = "agree" /\ Nth(c0[i].phase) = L.heard + i
    BY <1>3 DEF ToLeader
  <2>2. \A i \in DOMAIN d0 : d0[i].c = n /\ d0[i].t = "agree" /\ Nth(d0[i].phase) = M.heard + i
    <3> SUFFICES ASSUME NEW i \in DOMAIN d0
                 PROVE  d0[i].c = n /\ d0[i].t = "agree" /\ Nth(d0[i].phase) = M.heard + i
      OBVIOUS
    <3>1. d0[i] = c0[i + 1] /\ i + 1 \in DOMAIN c0 /\ i \in Int
      BY <1>2
    <3>2. L.heard + (i + 1) = M.heard + i
      BY <1>4, <3>1
    <3> QED BY <2>1, <3>1, <3>2
  <2>3. L.heard + Len(c0) <= 4
    BY <1>3 DEF ToLeader
  <2>4. M.heard + Len(d0) <= 4 /\ M.heard <= 3 /\ M.heard <= M.sent /\ M.sent <= M.heard + 1
    BY <1>1, <1>4, <2>3
  <2>5. M.job.c = n
    BY <1>3, <1>4 DEF ToLeader
  <2> QED BY <2>2, <2>4, <2>5 DEF ToLeader
<1>6. CASE on = TRUE
  <2>1. Paired(M, W) <=> Paired(L, W)
    BY DEF Paired
  <2>2. \A i \in DOMAIN c1 : ~Loud(sp, c1[i])
    BY <1>6, NoneLoud
  <2>3. Paired(L, W)
    <3>1. \A i \in DOMAIN c1 : ~IsCmd(c1[i], {"native"})
      BY <2>2 DEF Loud, IsCmd
    <3>2. ~Paired(L, W) => L.sent = 4
      BY <1>6, <3>1 DEF Framed, InCycles
    <3> QED BY <1>4, <3>2
  <2>4. FromWorker(M, W, d0)
    <3>1. FromWorker(L, W, c0)
      BY <1>6 DEF Framed
    <3> QED BY <1>4, <3>1 DEF FromWorker
  <2>5. Waiting(sp, M, W, d0, c1)
    BY <2>2 DEF Waiting
  <2>6. Ordered(M, W, c1)
    <3>1. \A f : NextType(L, W, f) = NextType(M, W, f)
      BY <2>1 DEF NextType
    <3> QED BY <1>6, <3>1 DEF Framed, Ordered
  <2>7. LeftOpen(M, W, c1)
    BY <1>4, <1>6 DEF Framed, LeftOpen
  <2>8. InCycles(M, W, d0, c1)
    <3>1. /\ Len(c1) = L.sent - W.heard /\ Len(c0) = W.sent - L.heard
          /\ \A i \in DOMAIN c1 : c1[i].t = "agree" /\ Nth(c1[i].phase) = W.heard + i
          /\ W.heard <= 3 /\ W.heard <= W.sent /\ W.sent <= W.heard + 1
      BY <1>6, <2>3 DEF Framed, InCycles
    <3>2. W.sent \in 0 .. 4
      BY DEF Views
    <3>3. Len(d0) = W.sent - M.heard
      BY <1>1, <1>4, <3>1, <3>2
    <3> QED BY <2>1, <2>3, <3>1, <3>3 DEF InCycles
  <2>9. Old(n, W, c1)
    BY <1>6 DEF Framed
  <2> QED BY <1>5, <1>6, <2>4, <2>5, <2>6, <2>7, <2>8, <2>9 DEF Framed
<1>7. CASE on = FALSE
  BY <1>5, <1>7 DEF Framed
<1> QED BY <1>6, <1>7

(* The leader hears the worker's last agreement, and its cycle ends.       *)
LEMMA LeaderEnds ==
  ASSUME NEW sp \in BOOLEAN, NEW n \in Nat, NEW L \in Views, NEW M \in Views, NEW W \in Views,
         NEW c0 \in Seq(Answers), NEW c1 \in Seq(Orders), NEW d0, NEW on \in BOOLEAN,
         Framed(sp, n, L, W, on, c0, c1),
         L.cycle, L.sent = 4, L.heard = 3, c0 # <<>>, d0 = Tail(c0), AtRest(M)
  PROVE  Framed(sp, n, M, W, on, d0, c1)
<1>1. ToLeader(n, L, c0)
  BY DEF Framed
<1>2. Len(c0) = 1
  <2>1. Len(c0) \in Nat /\ Len(c0) # 0
    OBVIOUS
  <2>2. L.heard + Len(c0) <= 4
    BY <1>1 DEF ToLeader
  <2>3. L.heard \in Int /\ L.heard = 3
    BY DEF Views
  <2>4. 3 + Len(c0) <= 4
    BY <2>2, <2>3
  <2>5. \A k \in Nat : k # 0 /\ 3 + k <= 4 => k = 1
    OBVIOUS
  <2> QED BY <2>1, <2>4, <2>5, ZenonT(60)
<1>3. d0 = <<>>
  BY <1>2
<1>4. ~L.ack /\ L.due = 0 /\ ~L.block
  BY <1>1 DEF ToLeader
<1>5. ~M.ack /\ M.due = 0 /\ ~M.block /\ ~M.cycle
  BY DEF AtRest
<1>6. ToLeader(n, M, d0)
  BY <1>3, <1>5, NothingOnItsWay
<1>7. CASE on = TRUE
  <2>1. ~Paired(M, W)
    BY <1>5 DEF Paired
  <2>2. \A i \in DOMAIN c1 : ~Loud(sp, c1[i])
    BY <1>7, NoneLoud
  <2>3. FromWorker(M, W, d0)
    <3>1. FromWorker(L, W, c0)
      BY <1>7 DEF Framed
    <3>2. ~W.ack /\ ~(W.due > 0)
      BY <1>4, <3>1 DEF FromWorker
    <3> QED BY <1>5, <3>1, <3>2 DEF FromWorker
  <2>4. Waiting(sp, M, W, d0, c1)
    BY <2>2 DEF Waiting
  <2>5. Old(n, W, c1)
    BY <1>7 DEF Framed
  <2>6. c1 # <<>> => c1[1].t = FirstType(W)
    BY <1>7 DEF Framed, Ordered
  <2>7. CASE Paired(L, W)
    <3>1. /\ Len(c1) = 4 - W.heard /\ 1 = W.sent - 3
          /\ \A i \in DOMAIN c1 : c1[i].t = "agree"
          /\ W.heard <= 3 /\ W.heard <= W.sent /\ W.sent <= W.heard + 1
      BY <1>2, <1>7, <2>7 DEF Framed, InCycles
    <3>2. W.sent = 4 /\ W.heard = 3 /\ Len(c1) = 1
      <4>1. W.sent \in 0 .. 4 /\ W.heard \in 0 .. 4
        BY DEF Views
      <4> QED BY <3>1, <4>1
    <3>3. c1 # <<>> /\ c1[Len(c1)].t = "agree"
      <4>1. c1 # <<>> /\ Len(c1) \in DOMAIN c1
        <5>1. DOMAIN c1 = 1 .. Len(c1) /\ Len(c1) \in Nat
          OBVIOUS
        <5>2. Len(c1) \in DOMAIN c1
          BY <3>2, <5>1
        <5>3. c1 # <<>>
          <6>1. c1 = <<>> => Len(c1) = 0
            OBVIOUS
          <6> QED BY <3>2, <6>1
        <5> QED BY <5>2, <5>3
      <4> QED BY <3>1, <4>1
    <3>4. Ordered(M, W, c1)
      BY <2>6, <3>2 DEF Ordered
    <3>5. LeftOpen(M, W, c1)
      BY <1>5, <3>3 DEF LeftOpen, IsCmd
    <3>6. InCycles(M, W, d0, c1)
      BY <1>5, <2>1, <3>2, <3>3 DEF InCycles
    <3> QED BY <1>6, <1>7, <2>3, <2>4, <2>5, <3>4, <3>5, <3>6 DEF Framed
  <2>8. CASE ~Paired(L, W)
    <3>1. c1 = <<>>
      <4>1. \A i \in DOMAIN c1 : ~IsCmd(c1[i], {"native"})
        BY <2>2 DEF Loud, IsCmd
      <4> QED BY <1>7, <2>8, <4>1 DEF Framed, InCycles
    <3>2. ~W.cycle
      BY <1>7, <2>8, <3>1 DEF Framed, InCycles
    <3>3. ~W.block
      BY <1>4, <1>7, <3>1 DEF Framed, LeftOpen
    <3>4. Ordered(M, W, c1)
      BY <3>1 DEF Ordered
    <3>5. LeftOpen(M, W, c1)
      BY <1>5, <3>1, <3>2, <3>3 DEF LeftOpen
    <3>6. InCycles(M, W, d0, c1)
      BY <1>5, <2>1, <3>2 DEF InCycles
    <3> QED BY <1>6, <1>7, <2>3, <2>4, <2>5, <3>4, <3>5, <3>6 DEF Framed
  <2> QED BY <2>7, <2>8
<1>8. CASE on = FALSE
  BY <1>6, <1>8 DEF Framed
<1> QED BY <1>7, <1>8

(* Writing to the leader, the worker keeps what is on its way in order.    *)
LEMMA AckWritten ==
  ASSUME NEW n \in Nat, NEW L \in Views, NEW c0, c0 = <<>>, NEW d0,
         ToLeader(n, L, c0), L.ack,
         NEW f \in AckFrames, f.c = n, f.s = L.job.s, d0 = Append(c0, f)
  PROVE  ToLeader(n, L, d0)
<1>1. f.t = "ack"
  BY DEF AckFrames
<1>2. Len(d0) = 1 /\ d0[1] = f /\ DOMAIN d0 = {1}
  OBVIOUS
<1>3. L.due \in Nat
  BY DEF Views
<1>4. Len(d0) - 1 <= L.due /\ \A i \in 2 .. Len(d0) : d0[i].t = "logits"
  BY <1>2, <1>3
<1>5. ~L.cycle /\ ~L.block
  BY DEF ToLeader
<1> QED BY <1>1, <1>2, <1>4, <1>5 DEF ToLeader

(* The worker's process is gone.                                           *)
LEMMA Gone ==
  ASSUME NEW sp \in BOOLEAN, NEW n \in Nat, NEW L \in Views, NEW W \in Views,
         NEW c0 \in Seq(Answers), NEW d1, d1 = <<>>, ToLeader(n, L, c0)
  PROVE  Framed(sp, n, L, W, FALSE, c0, d1)
BY DEF Framed


(* What the worker takes from its queue leaves the rest of it in order.    *)
LEMMA LoudTaken ==
  ASSUME NEW sp \in BOOLEAN, NEW n \in Nat, NEW L \in Views, NEW W \in Views,
         NEW c0 \in Seq(Answers), NEW c1 \in Seq(Orders), NEW d1,
         Framed(sp, n, L, W, TRUE, c0, c1), c1 # <<>>, d1 = Tail(c1), Loud(sp, c1[1])
  PROVE  \A i \in DOMAIN d1 : ~Loud(sp, d1[i])
<1>1. /\ d1 \in Seq(Orders) /\ Len(d1) = Len(c1) - 1 /\ Len(c1) \in Nat \ {0} /\ Len(d1) \in Nat
      /\ DOMAIN d1 = 1 .. Len(c1) - 1 /\ DOMAIN c1 = 1 .. Len(c1)
      /\ \A i \in 1 .. Len(c1) - 1 : d1[i] = c1[i + 1]
  BY Tailed
<1> SUFFICES ASSUME NEW i \in DOMAIN d1, Loud(sp, d1[i]) PROVE FALSE
  OBVIOUS
<1>2. i \in Nat \ {0} /\ i + 1 \in DOMAIN c1 /\ d1[i] = c1[i + 1] /\ 1 \in DOMAIN c1
  BY <1>1
<1>3. LoudLast(sp, L, W, c0, c1, 1) /\ LoudLast(sp, L, W, c0, c1, i + 1)
  BY <1>2 DEF Framed, Waiting
<1>4. IsCmd(c1[1], {"native"}) <=> IsCmd(c1[i + 1], {"native"})
  BY <1>3 DEF LoudLast, Matches
<1>5. CASE IsCmd(c1[1], {"native"})
  <2>1. Len(c1) = 1 + L.sent /\ Len(c1) = (i + 1) + L.sent
    BY <1>3, <1>4, <1>5 DEF LoudLast
  <2>2. L.sent \in Nat
    BY DEF Views
  <2> QED BY <1>2, <2>1, <2>2
<1>6. CASE ~IsCmd(c1[1], {"native"})
  <2>1. 1 = Len(c1) /\ i + 1 = Len(c1)
    BY <1>3, <1>4, <1>6 DEF LoudLast
  <2> QED BY <1>2, <2>1
<1> QED BY <1>5, <1>6

LEMMA QuietTaken ==
  ASSUME NEW sp \in BOOLEAN, NEW n \in Nat, NEW L \in Views, NEW W \in Views, NEW V \in Views,
         NEW c0 \in Seq(Answers), NEW c1 \in Seq(Orders), NEW d1,
         Framed(sp, n, L, W, TRUE, c0, c1), c1 # <<>>, d1 = Tail(c1),
         ~V.ack, V.due = 0,
         /\ Len(c1) > 1 /\ c1[2].t = "commit" /\ c1[1].t = "cmd" /\ c1[1].j = L.job
           => V.block /\ V.job = L.job
  PROVE  Waiting(sp, L, V, c0, d1)
<1>1. /\ d1 \in Seq(Orders) /\ Len(d1) = Len(c1) - 1 /\ Len(c1) \in Nat \ {0} /\ Len(d1) \in Nat
      /\ DOMAIN d1 = 1 .. Len(c1) - 1 /\ DOMAIN c1 = 1 .. Len(c1)
      /\ \A i \in 1 .. Len(c1) - 1 : d1[i] = c1[i + 1]
  BY Tailed
<1> SUFFICES ASSUME NEW i \in DOMAIN d1, Loud(sp, d1[i]) PROVE LoudLast(sp, L, V, c0, d1, i)
  BY DEF Waiting
<1>2. i \in Nat \ {0} /\ i + 1 \in DOMAIN c1 /\ d1[i] = c1[i + 1] /\ i <= Len(d1)
  BY <1>1
<1>3. LoudLast(sp, L, W, c0, c1, i + 1)
  BY <1>2 DEF Framed, Waiting
<1>4. c0 = <<>> /\ Matches(sp, L, d1[i])
  BY <1>2, <1>3 DEF LoudLast
<1>5. IsCmd(d1[i], {"native"}) =>
        L.heard = 0 /\ Len(d1) = i + L.sent /\ (L.sent = 1 => Nth(d1[i + 1].phase) = 1)
  <2> SUFFICES ASSUME IsCmd(d1[i], {"native"})
               PROVE  L.heard = 0 /\ Len(d1) = i + L.sent /\ (L.sent = 1 => Nth(d1[i + 1].phase) = 1)
    OBVIOUS
  <2>1. L.heard = 0 /\ Len(c1) = (i + 1) + L.sent /\ (L.sent = 1 => Nth(c1[(i + 1) + 1].phase) = 1)
    BY <1>2, <1>3 DEF LoudLast
  <2>2. L.sent \in Nat
    BY DEF Views
  <2>3. Len(d1) = i + L.sent
    <3>1. Len(d1) = ((i + 1) + L.sent) - 1
      BY <1>1, <2>1, ZenonT(60)
    <3>2. i \in Nat
      BY <1>2
    <3>3. \A a, b \in Nat : ((a + 1) + b) - 1 = a + b
      OBVIOUS
    <3> QED BY <2>2, <3>1, <3>2, <3>3, ZenonT(60)
  <2>4. L.sent = 1 => d1[i + 1] = c1[(i + 1) + 1]
    BY <1>1, <1>2, <2>1, <2>3
  <2> QED BY <2>1, <2>3, <2>4
<1>6. ~IsCmd(d1[i], {"native"}) => i = Len(d1)
  <2>1. ~IsCmd(d1[i], {"native"}) => i + 1 = Len(c1)
    BY <1>2, <1>3 DEF LoudLast
  <2> QED BY <1>1, <1>2, <2>1
<1>7. d1[i].t = "commit" => c1[i].t = "cmd" /\ c1[i].j = L.job
  <2>1. i + 1 # 1 /\ (i + 1) - 1 = i
    BY <1>2
  <2>2. d1[i].t = "commit" => c1[(i + 1) - 1].t = "cmd" /\ c1[(i + 1) - 1].j = L.job
    BY <1>2, <1>3, <2>1 DEF LoudLast
  <2> QED BY <2>1, <2>2
<1>8. d1[i].t = "commit" /\ i = 1 => V.block /\ V.job = L.job
  <2> SUFFICES ASSUME d1[i].t = "commit", i = 1 PROVE V.block /\ V.job = L.job
    OBVIOUS
  <2>1. 1 + 1 = 2
    OBVIOUS
  <2>2. c1[2].t = "commit" /\ c1[1].t = "cmd" /\ c1[1].j = L.job
    BY <1>2, <1>7, <2>1
  <2>3. Len(c1) > 1
    BY <1>1, <1>2
  <2> QED BY <2>2, <2>3
<1>9. d1[i].t = "commit" /\ i # 1 => d1[i - 1].t = "cmd" /\ d1[i - 1].j = L.job
  <2> SUFFICES ASSUME d1[i].t = "commit", i # 1 PROVE d1[i - 1].t = "cmd" /\ d1[i - 1].j = L.job
    OBVIOUS
  <2>1. i - 1 \in 1 .. Len(c1) - 1 /\ (i - 1) + 1 = i
    BY <1>1, <1>2
  <2>2. d1[i - 1] = c1[i]
    BY <1>1, <2>1
  <2> QED BY <1>7, <2>2
<1> QED BY <1>4, <1>5, <1>6, <1>8, <1>9 DEF LoudLast


(* Outside of blocks and cycles the queue looks the same to the worker,    *)
(* whatever it still answers.                                              *)
LEMMA AnswerKept ==
  ASSUME NEW sp \in BOOLEAN, NEW n \in Nat, NEW L \in Views, NEW W \in Views, NEW V \in Views,
         NEW c0 \in Seq(Answers), NEW c1 \in Seq(Orders), NEW d0,
         Framed(sp, n, L, W, TRUE, c0, c1), W.ack \/ W.due # 0,
         ~V.block, ~V.cycle, V.job.c <= n
  PROVE  /\ Waiting(sp, L, V, d0, c1) /\ Ordered(L, V, c1) /\ LeftOpen(L, V, c1)
         /\ InCycles(L, V, d0, c1) /\ Old(n, V, c1)
<1>1. ~W.block /\ ~W.cycle
  <2>1. W.ack \/ W.due > 0
    BY DEF Views
  <2> QED BY <2>1 DEF Framed, FromWorker
<1>2. ~Paired(L, W) /\ ~Paired(L, V)
  BY <1>1 DEF Paired
<1>3. Waiting(sp, L, V, d0, c1)
  BY NoneLoud DEF Waiting
<1>4. Ordered(L, V, c1)
  <2>1. \A f : NextType(L, V, f) = NextType(L, W, f)
    BY <1>2 DEF NextType
  <2>2. FirstType(V) = FirstType(W)
    BY <1>1 DEF FirstType
  <2> QED BY <2>1, <2>2 DEF Framed, Ordered
<1>5. LeftOpen(L, V, c1)
  BY <1>1 DEF Framed, LeftOpen
<1>6. InCycles(L, V, d0, c1)
  BY <1>1, <1>2 DEF Framed, InCycles
<1>7. Old(n, V, c1)
  BY DEF Framed, Old
<1> QED BY <1>3, <1>4, <1>5, <1>6, <1>7

(* The worker answers a create or a destroy.                               *)
LEMMA AnswersAtOnce ==
  ASSUME NEW sp \in BOOLEAN, NEW n \in Nat, NEW L \in Views, NEW W \in Views,
         NEW c0 \in Seq(Answers), NEW c1 \in Seq(Orders), NEW d0, NEW d1,
         Framed(sp, n, L, W, TRUE, c0, c1), AtRest(W), c1 # <<>>, d1 = Tail(c1),
         IsCmd(c1[1], {"create", "destroy"}),
         NEW f \in AckFrames, f.c = c1[1].j.c, f.s = c1[1].j.s, d0 = Append(c0, f)
  PROVE  Framed(sp, n, L, W, TRUE, d0, d1)
<1>1. 1 \in DOMAIN c1 /\ Loud(sp, c1[1]) /\ IsCmd(c1[1], AckOps) /\ ~IsCmd(c1[1], {"native"})
  BY DEF Loud, IsCmd, AckOps
<1>2. LoudLast(sp, L, W, c0, c1, 1)
  BY <1>1 DEF Framed, Waiting
<1>3. c0 = <<>> /\ c1[1].j = L.job /\ L.ack /\ Len(c1) = 1
  BY <1>1, <1>2 DEF LoudLast, Matches, IsCmd
<1>4. d1 = <<>> /\ DOMAIN d1 = {} /\ Len(d1) = 0
  BY <1>3
<1>5. ToLeader(n, L, c0)
  BY DEF Framed
<1>6. L.job.c = n /\ ~L.cycle /\ ~L.block
  BY <1>3, <1>5 DEF ToLeader, AtRest
<1>7. ToLeader(n, L, d0)
  BY <1>3, <1>5, <1>6, AckWritten
<1>8. ~W.ack /\ W.due = 0 /\ ~W.block /\ ~W.cycle
  BY DEF AtRest
<1>9. FromWorker(L, W, d0)
  <2>1. L.job.op \in {"create", "destroy"}
    BY <1>3 DEF IsCmd
  <2> QED BY <1>8, <2>1 DEF FromWorker
<1>10. Waiting(sp, L, W, d0, d1)
  BY <1>4 DEF Waiting
<1>11. Ordered(L, W, d1)
  BY <1>4 DEF Ordered
<1>12. LeftOpen(L, W, d1)
  BY <1>4, <1>6, <1>8 DEF LeftOpen
<1>13. InCycles(L, W, d0, d1)
  BY <1>6, <1>8 DEF InCycles, Paired
<1>14. Old(n, W, d1)
  BY <1>4 DEF Framed, Old
<1> QED BY <1>7, <1>9, <1>10, <1>11, <1>12, <1>13, <1>14 DEF Framed

(* The worker acknowledges a command it has done.                          *)
LEMMA AckSent ==
  ASSUME NEW sp \in BOOLEAN, NEW n \in Nat, NEW L \in Views, NEW W \in Views, NEW V \in Views,
         NEW c0 \in Seq(Answers), NEW c1 \in Seq(Orders), NEW d0,
         Framed(sp, n, L, W, TRUE, c0, c1), W.ack,
         NEW f \in AckFrames, f.c = W.job.c, f.s = W.job.s, f.status = 0, d0 = Append(c0, f),
         ~V.ack, V.due = W.due, ~V.block, ~V.cycle,
         ~AtRest(V) => V.job = W.job, V.job.c <= n
  PROVE  Framed(sp, n, L, V, TRUE, d0, c1)
<1>1. FromWorker(L, W, c0) /\ ToLeader(n, L, c0)
  BY DEF Framed
<1>2. L.ack /\ c0 = <<>> /\ W.job = L.job /\ W.due <= L.due
  BY <1>1 DEF FromWorker
<1>3. L.job.c = n /\ ~L.cycle /\ ~L.block
  BY <1>1, <1>2 DEF ToLeader, AtRest
<1>4. ToLeader(n, L, d0)
  BY <1>1, <1>2, <1>3, AckWritten
<1>5. FromWorker(L, V, d0)
  <2>1. d0 # <<>> /\ d0[1] = f /\ Len(d0) = 1
    BY <1>2
  <2>2. V.due > 0 => V.job = L.job
    <3>1. V.due > 0 => ~AtRest(V)
      BY DEF AtRest
    <3> QED BY <1>2, <3>1
  <2>3. V.due \in Nat /\ L.due \in Nat
    BY DEF Views
  <2>4. Len(d0) - 1 + V.due <= L.due
    BY <1>2, <2>1, <2>3
  <2> QED BY <1>2, <1>3, <2>1, <2>2, <2>4 DEF FromWorker
<1>6. /\ Waiting(sp, L, V, d0, c1) /\ Ordered(L, V, c1) /\ LeftOpen(L, V, c1)
      /\ InCycles(L, V, d0, c1) /\ Old(n, V, c1)
  BY AnswerKept
<1> QED BY <1>4, <1>5, <1>6 DEF Framed

(* The worker sends one frame of logits.                                   *)
LEMMA LogitsSent ==
  ASSUME NEW sp \in BOOLEAN, NEW n \in Nat, NEW L \in Views, NEW W \in Views, NEW V \in Views,
         NEW c0 \in Seq(Answers), NEW c1 \in Seq(Orders), NEW d0,
         Framed(sp, n, L, W, TRUE, c0, c1), ~W.ack, W.due # 0,
         NEW f \in LogitsFrames, f.c = W.job.c, d0 = Append(c0, f),
         ~V.ack, V.due = W.due - 1, ~V.block, ~V.cycle,
         ~AtRest(V) => V.job = W.job, V.job.c <= n
  PROVE  Framed(sp, n, L, V, TRUE, d0, c1)
<1>1. FromWorker(L, W, c0) /\ ToLeader(n, L, c0)
  BY DEF Framed
<1>2. W.due > 0 /\ W.due \in Nat /\ L.due \in Nat
  BY DEF Views
<1>3. W.job = L.job /\ ~L.cycle
  BY <1>1, <1>2 DEF FromWorker
<1>4. f \in Answers /\ f.t = "logits"
  BY DEF Answers, LogitsFrames
<1>5. /\ d0 \in Seq(Answers) /\ Len(d0) = Len(c0) + 1 /\ d0 # <<>> /\ Len(c0) \in Nat
      /\ DOMAIN d0 = 1 .. Len(c0) + 1 /\ DOMAIN c0 = 1 .. Len(c0)
      /\ d0[Len(c0) + 1] = f /\ \A i \in 1 .. Len(c0) : d0[i] = c0[i]
  BY <1>4, Appended
<1>6. L.ack => c0 # <<>> /\ c0[1].status = 0 /\ Len(c0) - 1 + W.due <= L.due
  BY <1>1, <1>2 DEF FromWorker
<1>7. ~L.ack => Len(c0) + W.due <= L.due
  BY <1>1, <1>2 DEF FromWorker
<1>8. L.ack => Len(d0) - 1 + V.due <= L.due /\ Len(d0) - 1 <= L.due
  BY <1>2, <1>5, <1>6
<1>9. ~L.ack => Len(d0) + V.due <= L.due /\ Len(d0) <= L.due
  BY <1>2, <1>5, <1>7
<1>10. L.ack => d0[1] = c0[1] /\ 1 \in DOMAIN c0
  <2>1. L.ack => 1 \in 1 .. Len(c0)
    BY <1>5, <1>6
  <2> QED BY <1>5, <2>1
<1>11. ~AtRest(L)
  <2>1. ~L.ack => L.due # 0
    BY <1>2, <1>5, <1>7
  <2> QED BY <2>1 DEF AtRest
<1>12. L.job.c = n
  BY <1>1, <1>11 DEF ToLeader
<1>13. ToLeader(n, L, d0)
  <2>1. ASSUME NEW i \in DOMAIN d0 PROVE d0[i].c = n /\ ((i = 1 /\ L.ack) \/ d0[i].t = "logits")
    <3>1. CASE i = Len(c0) + 1
      BY <1>3, <1>4, <1>5, <1>12, <3>1
    <3>2. CASE i # Len(c0) + 1
      <4>1. i \in DOMAIN c0 /\ d0[i] = c0[i] /\ (i # 1 => i \in 2 .. Len(c0)) /\ c0 # <<>>
        BY <1>5, <3>2
      <4>2. c0[i].c = n
        BY <1>1, <4>1 DEF ToLeader
      <4>3. (i = 1 /\ L.ack) \/ c0[i].t = "logits"
        BY <1>1, <1>3, <4>1 DEF ToLeader
      <4> QED BY <4>1, <4>2, <4>3
    <3> QED BY <3>1, <3>2
  <2>2. L.ack => \A i \in 2 .. Len(d0) : d0[i].t = "logits"
    <3>1. \A i \in 2 .. Len(d0) : i # 1 /\ i \in DOMAIN d0
      BY <1>5
    <3> QED BY <2>1, <3>1
  <2>3. L.ack => d0[1].t = "ack" /\ d0[1].s = L.job.s /\ d0[1].status = 0
    BY <1>1, <1>6, <1>10 DEF ToLeader
  <2>4. L.ack \/ L.due # 0 => ~L.block
    BY <1>1 DEF ToLeader
  <2> QED BY <1>1, <1>3, <1>8, <1>9, <1>12, <2>1, <2>2, <2>3, <2>4 DEF ToLeader
<1>14. FromWorker(L, V, d0)
  <2>1. V.due > 0 => V.job = L.job
    <3>1. V.due > 0 => ~AtRest(V)
      BY DEF AtRest
    <3> QED BY <1>3, <3>1
  <2>2. L.ack => d0[1].status = 0
    BY <1>6, <1>10
  <2> QED BY <1>3, <1>5, <1>8, <1>9, <2>1, <2>2 DEF FromWorker
<1>15. /\ Waiting(sp, L, V, d0, c1) /\ Ordered(L, V, c1) /\ LeftOpen(L, V, c1)
       /\ InCycles(L, V, d0, c1) /\ Old(n, V, c1)
  BY AnswerKept
<1> QED BY <1>13, <1>14, <1>15 DEF Framed


(* What is left of the queue ends as it did.                               *)
LEMMA LastKept ==
  ASSUME NEW c1 \in Seq(Orders), c1 # <<>>, NEW d1, d1 = Tail(c1)
  PROVE  /\ d1 # <<>> => d1[Len(d1)] = c1[Len(c1)]
         /\ d1 = <<>> => c1[Len(c1)] = c1[1]
<1>1. /\ Len(d1) = Len(c1) - 1 /\ Len(c1) \in Nat \ {0} /\ Len(d1) \in Nat
      /\ \A i \in 1 .. Len(c1) - 1 : d1[i] = c1[i + 1]
  BY Tailed
<1>2. d1 # <<>> => d1[Len(d1)] = c1[Len(c1)]
  <2>1. d1 # <<>> => Len(d1) # 0
    BY Tailed
  <2>2. Len(d1) # 0 => Len(d1) \in 1 .. Len(c1) - 1 /\ Len(d1) + 1 = Len(c1)
    BY <1>1
  <2> QED BY <1>1, <2>1, <2>2
<1>3. d1 = <<>> => Len(c1) = 1
  <2>1. d1 = <<>> => Len(d1) = 0
    OBVIOUS
  <2> QED BY <1>1, <2>1
<1> QED BY <1>2, <1>3

(* The worker starts a command.                                            *)
LEMMA Started ==
  ASSUME NEW sp \in BOOLEAN, NEW n \in Nat, NEW L \in Views, NEW W \in Views, NEW V \in Views,
         NEW c0 \in Seq(Answers), NEW c1 \in Seq(Orders), NEW d1,
         Framed(sp, n, L, W, TRUE, c0, c1), AtRest(W), c1 # <<>>, d1 = Tail(c1),
         NEW j \in Jobs, c1[1] = Frame(j), j.op \in {"sync", "eval", "batch", "verify", "native", "invalidate"},
         V.ack <=> j.op \in {"sync", "batch"}, V.due = LogitsFor(sp, Frame(j)),
         V.block <=> j.op = "verify", V.cycle <=> j.op = "native", V.sent = 0, V.heard = 0,
         ~AtRest(V) => V.job = j, V.job.c <= n
  PROVE  Framed(sp, n, L, V, TRUE, c0, d1)
<1> DEFINE f == Frame(j)
<1>1. f \in Orders /\ f.t = "cmd" /\ f.j = j /\ c1[1] = f /\ V.due = LogitsFor(sp, f)
  BY DEF Frame, Orders, CmdFrames
<1>2. \A ops : IsCmd(f, ops) <=> j.op \in ops
  BY <1>1 DEF IsCmd
<1> HIDE DEF f
<1>3. /\ d1 \in Seq(Orders) /\ Len(d1) = Len(c1) - 1 /\ Len(c1) \in Nat \ {0} /\ Len(d1) \in Nat
      /\ DOMAIN d1 = 1 .. Len(c1) - 1 /\ DOMAIN c1 = 1 .. Len(c1)
      /\ \A i \in 1 .. Len(c1) - 1 : d1[i] = c1[i + 1]
  BY Tailed
<1>4. 1 \in DOMAIN c1
  BY <1>3
<1>5. ~W.ack /\ W.due = 0 /\ ~W.block /\ ~W.cycle
  BY DEF AtRest
<1>6. ToLeader(n, L, c0)
  BY DEF Framed
<1>7. ~Paired(L, W)
  BY <1>5 DEF Paired
<1>8. Loud(sp, f) =>
        /\ c0 = <<>> /\ Matches(sp, L, f)
        /\ IsCmd(f, {"native"}) =>
             L.heard = 0 /\ Len(c1) = 1 + L.sent /\ (L.sent = 1 => Nth(c1[2].phase) = 1)
  <2>1. Loud(sp, f) => LoudLast(sp, L, W, c0, c1, 1)
    BY <1>1, <1>4 DEF Framed, Waiting
  <2>2. 1 + 1 = 2
    OBVIOUS
  <2> QED BY <1>1, <2>1, <2>2 DEF LoudLast
<1>9. V.due \in Nat
  BY DEF Views
<1>10. ~Loud(sp, f) => ~V.ack /\ V.due = 0 /\ ~V.cycle
  <2>1. V.ack \/ V.cycle => IsCmd(f, AckOps \cup {"native"})
    BY <1>2 DEF AckOps
  <2> QED BY <1>1, <1>9, <2>1 DEF Loud
<1>11. V.cycle => /\ Paired(L, V) /\ L.heard = 0 /\ Len(c1) = 1 + L.sent /\ c0 = <<>>
                  /\ L.sent = 1 => Nth(c1[2].phase) = 1
  <2>1. V.cycle => IsCmd(f, {"native"}) /\ Loud(sp, f)
    BY <1>2, <1>10
  <2>2. V.cycle => L.cycle /\ L.job = j
    BY <1>1, <1>8, <2>1 DEF Matches
  <2>3. V.cycle => V.job = j
    BY DEF AtRest
  <2> QED BY <1>8, <2>1, <2>2, <2>3 DEF Paired
<1>12. Paired(L, V) => V.cycle
  BY DEF Paired
<1>13. V.cycle => L.sent \in {0, 1}
  <2>1. V.cycle => L.cycle /\ L.heard = 0
    BY <1>11 DEF Paired
  <2>2. V.cycle => L.sent <= 0 + 1
    BY <1>6, <2>1 DEF ToLeader
  <2>3. L.sent \in 0 .. 4
    BY DEF Views
  <2> QED BY <2>2, <2>3
<1>14. FromWorker(L, V, c0)
  <2>1. V.ack => L.ack /\ c0 = <<>> /\ V.job = L.job /\ V.due <= L.due
    <3>1. V.ack => Loud(sp, f) /\ IsCmd(f, AckOps)
      BY <1>2, <1>10 DEF AckOps
    <3>2. V.ack => V.job = j
      BY DEF AtRest
    <3> QED BY <1>1, <1>8, <3>1, <3>2 DEF Matches
  <2>2. V.due > 0 /\ ~V.ack => V.job = L.job /\ ~L.cycle /\ ~L.ack /\ Len(c0) + V.due <= L.due
    <3> SUFFICES ASSUME V.due > 0, ~V.ack
                 PROVE  V.job = L.job /\ ~L.cycle /\ ~L.ack /\ Len(c0) + V.due <= L.due
      OBVIOUS
    <3>1. Loud(sp, f)
      BY <1>1 DEF Loud
    <3>2. c0 = <<>> /\ Matches(sp, L, f)
      BY <1>8, <3>1
    <3>3. V.job = L.job
      <4>1. V.due # 0
        BY <1>9
      <4> QED BY <1>1, <3>2, <4>1 DEF Matches, AtRest
    <3>4. V.due <= L.due /\ L.due \in Nat
      BY <1>1, <3>2 DEF Matches, Views
    <3>5. L.due # 0
      BY <1>9, <3>4
    <3>6. ~L.cycle
      BY <1>6, <3>5 DEF ToLeader
    <3>7. ~L.ack
      <4>1. ~IsCmd(f, AckOps)
        <5>1. j.op = "eval" \/ V.ack \/ ~(V.due > 0)
          <6>1. j.op \notin {"sync", "batch", "eval"} => V.due = 0
            BY <1>1, <1>2 DEF LogitsFor
          <6> QED BY <6>1
        <5> QED BY <1>2, <5>1 DEF AckOps
      <4> QED BY <3>2, <4>1 DEF Matches
    <3>8. Len(c0) + V.due <= L.due
      <4>1. Len(c0) = 0
        BY <3>2
      <4> QED BY <1>9, <3>4, <4>1
    <3> QED BY <3>3, <3>6, <3>7, <3>8
  <2>3. V.ack \/ V.due > 0 => ~V.block /\ ~V.cycle
    <3>1. V.due > 0 => j.op \in {"sync", "batch", "eval"}
      <4>1. j.op \notin {"sync", "batch", "eval"} => V.due = 0
        BY <1>1, <1>2 DEF LogitsFor
      <4> QED BY <4>1
    <3> QED BY <3>1
  <2>4. ~(V.block /\ V.cycle)
    OBVIOUS
  <2>5. FromWorker(L, W, c0)
    BY DEF Framed
  <2> QED BY <2>1, <2>2, <2>3, <2>4, <2>5 DEF FromWorker
<1>15. Waiting(sp, L, V, c0, d1)
  <2>1. CASE Loud(sp, f)
    <3>1. \A i \in DOMAIN d1 : ~Loud(sp, d1[i])
      BY <1>1, <2>1, LoudTaken
    <3> QED BY <3>1 DEF Waiting
  <2>2. CASE ~Loud(sp, f)
    <3>1. Len(c1) > 1 /\ c1[2].t = "commit" /\ c1[1].t = "cmd" /\ c1[1].j = L.job
            => V.block /\ V.job = L.job
      <4> SUFFICES ASSUME Len(c1) > 1, c1[2].t = "commit", c1[1].j = L.job
                   PROVE  V.block /\ V.job = L.job
        OBVIOUS
      <4>1. 1 \in 1 .. Len(c1) - 1 /\ 1 + 1 = 2
        BY <1>3
      <4>2. c1[2].t = NextType(L, W, f)
        BY <1>1, <4>1 DEF Framed, Ordered
      <4>3. IsCmd(f, {"verify"})
        BY <1>7, <4>2 DEF NextType
      <4>4. V.block /\ V.job = j
        BY <1>2, <4>3 DEF AtRest
      <4> QED BY <1>1, <4>4
    <3> QED BY <1>10, <2>2, <3>1, QuietTaken
  <2> QED BY <2>1, <2>2
<1>16. Ordered(L, V, d1)
  <2>1. d1 # <<>> => d1[1].t = FirstType(V)
    <3> SUFFICES ASSUME d1 # <<>> PROVE d1[1].t = FirstType(V)
      OBVIOUS
    <3>1. Len(d1) # 0
      BY <1>3
    <3>2. 1 \in 1 .. Len(c1) - 1 /\ 1 + 1 = 2
      BY <1>3, <3>1
    <3>3. d1[1] = c1[2]
      BY <1>3, <3>2
    <3>4. c1[2].t = NextType(L, W, f)
      BY <1>1, <3>2 DEF Framed, Ordered
    <3> QED BY <1>2, <1>7, <3>3, <3>4 DEF NextType, FirstType
  <2>2. ASSUME NEW i \in 1 .. Len(d1) - 1 PROVE d1[i + 1].t = NextType(L, V, d1[i])
    <3>1. i \in 1 .. Len(c1) - 1 /\ i + 1 \in 1 .. Len(c1) - 1 /\ Len(c1) > 2
      BY <1>3
    <3>2. d1[i] = c1[i + 1] /\ d1[i + 1] = c1[(i + 1) + 1]
      BY <1>3, <3>1
    <3>3. c1[(i + 1) + 1].t = NextType(L, W, c1[i + 1])
      BY <3>1 DEF Framed, Ordered
    <3>4. ~Paired(L, V)
      BY <1>11, <1>12, <1>13, <3>1
    <3> QED BY <1>7, <3>2, <3>3, <3>4 DEF NextType
  <2> QED BY <2>1, <2>2 DEF Ordered
<1>17. LeftOpen(L, V, d1)
  <2>1. CASE d1 = <<>>
    <3>1. c1[Len(c1)] = f
      BY <1>1, <2>1, LastKept
    <3>2. /\ L.block => IsCmd(f, {"verify"}) /\ f.j = L.job
          /\ ~L.block => ~IsCmd(f, {"verify"})
          /\ ~L.cycle => ~IsCmd(f, {"native"})
      BY <3>1 DEF Framed, LeftOpen
    <3>3. V.block => V.job = j
      BY DEF AtRest
    <3> QED BY <1>1, <1>2, <2>1, <3>2, <3>3 DEF LeftOpen
  <2>2. CASE d1 # <<>>
    <3>1. d1[Len(d1)] = c1[Len(c1)]
      BY <2>2, LastKept
    <3> QED BY <2>2, <3>1 DEF Framed, LeftOpen
  <2> QED BY <2>1, <2>2
<1>18. InCycles(L, V, c0, d1)
  <2>1. CASE V.cycle
    <3>1. Len(d1) = L.sent - 0 /\ L.sent \in {0, 1}
      BY <1>3, <1>11, <1>13, <2>1
    <3>2. Len(c0) = 0 - 0
      BY <1>11, <2>1
    <3>3. \A i \in DOMAIN d1 : d1[i].t = "agree" /\ Nth(d1[i].phase) = 0 + i
      <4> SUFFICES ASSUME NEW i \in DOMAIN d1
                   PROVE  d1[i].t = "agree" /\ Nth(d1[i].phase) = 0 + i
        OBVIOUS
      <4>1. i = 1 /\ L.sent = 1 /\ d1[1] = c1[2] /\ 1 \in 1 .. Len(c1) - 1
        <5>1. Len(d1) = 1 /\ L.sent = 1 /\ i = 1
          BY <1>3, <3>1
        <5>2. 1 + 1 = 2
          OBVIOUS
        <5> QED BY <1>3, <5>1, <5>2
      <4>2. c1[1 + 1].t = NextType(L, W, f)
        BY <1>1, <4>1 DEF Framed, Ordered
      <4>3. c1[2].t = "agree"
        <5>1. 1 + 1 = 2
          OBVIOUS
        <5> QED BY <1>2, <2>1, <4>2, <5>1 DEF NextType
      <4> QED BY <1>11, <2>1, <4>1, <4>3
    <3>4. V.heard = 0 /\ V.sent = 0 /\ L.heard = 0
      BY <1>11, <2>1
    <3>5. 0 <= 3 /\ 0 <= 0 /\ 0 <= 0 + 1
      OBVIOUS
    <3>6. Paired(L, V)
      BY <1>11, <2>1
    <3> HIDE DEF Paired
    <3> QED BY <3>1, <3>2, <3>3, <3>4, <3>5, <3>6 DEF InCycles
  <2>2. CASE ~V.cycle
    <3>1. ~IsCmd(f, {"native"})
      BY <1>2, <2>2
    <3>2. ASSUME L.cycle, \A i \in DOMAIN d1 : ~IsCmd(d1[i], {"native"}) PROVE FALSE
      <4>1. \A i \in DOMAIN c1 : ~IsCmd(c1[i], {"native"})
        <5> SUFFICES ASSUME NEW i \in DOMAIN c1 PROVE ~IsCmd(c1[i], {"native"})
          OBVIOUS
        <5>1. CASE i = 1
          BY <1>1, <3>1, <5>1
        <5>2. CASE i # 1
          <6>1. i - 1 \in DOMAIN d1 /\ (i - 1) + 1 = i
            BY <1>3, <5>2
          <6>2. d1[i - 1] = c1[i]
            BY <1>3, <6>1
          <6> QED BY <3>2, <6>1, <6>2
        <5> QED BY <5>1, <5>2
      <4> QED BY <1>7, <3>2, <4>1 DEF Framed, InCycles
    <3> QED BY <1>12, <2>2, <3>2 DEF InCycles
  <2> QED BY <2>1, <2>2
<1>19. Old(n, V, d1)
  <2>1. \A i \in DOMAIN d1 : d1[i].t = "cmd" => i + 1 \in DOMAIN c1 /\ d1[i] = c1[i + 1]
    BY <1>3
  <2> QED BY <2>1 DEF Framed, Old
<1> QED BY <1>6, <1>14, <1>15, <1>16, <1>17, <1>18, <1>19 DEF Framed


(* The worker reads a frame that starts no command: the rest of the queue  *)
(* is in order for it if the frame left it at rest or with a replay.       *)
LEMMA RestKept ==
  ASSUME NEW sp \in BOOLEAN, NEW n \in Nat, NEW L \in Views, NEW W \in Views, NEW V \in Views,
         NEW c0 \in Seq(Answers), NEW c1 \in Seq(Orders), NEW d1,
         Framed(sp, n, L, W, TRUE, c0, c1), c1 # <<>>, d1 = Tail(c1),
         c1[1].t # "cmd", ~Paired(L, W), ~V.block, ~V.cycle, V.job.c <= n
  PROVE  Ordered(L, V, d1) /\ LeftOpen(L, V, d1) /\ InCycles(L, V, c0, d1) /\ Old(n, V, d1)
<1>1. /\ d1 \in Seq(Orders) /\ Len(d1) = Len(c1) - 1 /\ Len(c1) \in Nat \ {0} /\ Len(d1) \in Nat
      /\ DOMAIN d1 = 1 .. Len(c1) - 1 /\ DOMAIN c1 = 1 .. Len(c1)
      /\ \A i \in 1 .. Len(c1) - 1 : d1[i] = c1[i + 1]
  BY Tailed
<1>2. ~Paired(L, V)
  BY DEF Paired
<1>3. \A ops : ~IsCmd(c1[1], ops)
  BY DEF IsCmd
<1>4. Ordered(L, V, d1)
  <2>1. d1 # <<>> => d1[1].t = FirstType(V)
    <3> SUFFICES ASSUME d1 # <<>> PROVE d1[1].t = FirstType(V)
      OBVIOUS
    <3>1. Len(d1) # 0
      BY <1>1
    <3>2. 1 \in 1 .. Len(c1) - 1 /\ 1 + 1 = 2
      BY <1>1, <3>1
    <3>3. d1[1] = c1[2]
      BY <1>1, <3>2
    <3>4. c1[2].t = NextType(L, W, c1[1])
      BY <3>2 DEF Framed, Ordered
    <3> QED BY <1>3, <3>3, <3>4 DEF NextType, FirstType
  <2>2. ASSUME NEW i \in 1 .. Len(d1) - 1 PROVE d1[i + 1].t = NextType(L, V, d1[i])
    <3>1. i \in 1 .. Len(c1) - 1 /\ i + 1 \in 1 .. Len(c1) - 1
      BY <1>1
    <3>2. d1[i] = c1[i + 1] /\ d1[i + 1] = c1[(i + 1) + 1]
      BY <1>1, <3>1
    <3>3. c1[(i + 1) + 1].t = NextType(L, W, c1[i + 1])
      BY <3>1 DEF Framed, Ordered
    <3> QED BY <1>2, <3>2, <3>3 DEF NextType
  <2> QED BY <2>1, <2>2 DEF Ordered
<1>5. LeftOpen(L, V, d1)
  <2>1. CASE d1 = <<>>
    <3>1. c1[Len(c1)] = c1[1]
      BY <2>1, LastKept
    <3>2. ~L.block
      BY <1>3, <3>1 DEF Framed, LeftOpen
    <3> QED BY <2>1, <3>2 DEF LeftOpen
  <2>2. CASE d1 # <<>>
    <3>1. d1[Len(d1)] = c1[Len(c1)]
      BY <2>2, LastKept
    <3> QED BY <2>2, <3>1 DEF Framed, LeftOpen
  <2> QED BY <2>1, <2>2
<1>6. InCycles(L, V, c0, d1)
  <2>1. ASSUME L.cycle, \A i \in DOMAIN d1 : ~IsCmd(d1[i], {"native"}) PROVE FALSE
    <3>1. \A i \in DOMAIN c1 : ~IsCmd(c1[i], {"native"})
      <4> SUFFICES ASSUME NEW i \in DOMAIN c1 PROVE ~IsCmd(c1[i], {"native"})
        OBVIOUS
      <4>1. CASE i = 1
        BY <1>3, <4>1
      <4>2. CASE i # 1
        <5>1. i - 1 \in DOMAIN d1 /\ (i - 1) + 1 = i
          BY <1>1, <4>2
        <5>2. d1[i - 1] = c1[i]
          BY <1>1, <5>1
        <5> QED BY <2>1, <5>1, <5>2
      <4> QED BY <4>1, <4>2
    <3> QED BY <2>1, <3>1 DEF Framed, InCycles
  <2> QED BY <1>2, <2>1 DEF InCycles
<1>7. Old(n, V, d1)
  <2>1. \A i \in DOMAIN d1 : i + 1 \in DOMAIN c1 /\ d1[i] = c1[i + 1]
    BY <1>1
  <2> QED BY <2>1 DEF Framed, Old
<1> QED BY <1>4, <1>5, <1>6, <1>7

(* The worker reads the leader's decision.                                 *)
LEMMA CommitRead ==
  ASSUME NEW sp \in BOOLEAN, NEW n \in Nat, NEW L \in Views, NEW W \in Views, NEW V \in Views,
         NEW c0 \in Seq(Answers), NEW c1 \in Seq(Orders), NEW d1,
         Framed(sp, n, L, W, TRUE, c0, c1), W.block, c1 # <<>>, d1 = Tail(c1),
         c1[1].t = "commit",
         ~V.ack, V.due <= LogitsFor(sp, c1[1]), ~V.block, ~V.cycle,
         ~AtRest(V) => V.job = W.job, V.job.c <= n
  PROVE  Framed(sp, n, L, V, TRUE, c0, d1)
<1> DEFINE f == c1[1]
<1>1. 1 \in DOMAIN c1 /\ f \in Orders /\ f.t = "commit"
  OBVIOUS
<1>2. \A ops : ~IsCmd(f, ops)
  BY <1>1 DEF IsCmd
<1>3. f = c1[1] /\ V.due <= LogitsFor(sp, f) /\ LogitsFor(sp, f) \in Nat
  BY <1>1, LogitsCounted
<1> HIDE DEF f
<1>4. ToLeader(n, L, c0) /\ FromWorker(L, W, c0)
  BY DEF Framed
<1>5. ~W.cycle /\ ~Paired(L, W)
  BY <1>4 DEF FromWorker, Paired
<1>6. V.due \in Nat /\ L.due \in Nat
  BY DEF Views
<1>7. Loud(sp, f) => c0 = <<>> /\ ~L.ack /\ LogitsFor(sp, f) <= L.due /\ W.job = L.job
  <2>1. Loud(sp, f) => LoudLast(sp, L, W, c0, c1, 1)
    BY <1>1, <1>3 DEF Framed, Waiting
  <2> QED BY <1>1, <1>2, <1>3, <2>1 DEF LoudLast, Matches
<1>8. V.due > 0 => Loud(sp, f)
  <2>1. V.due > 0 => LogitsFor(sp, f) > 0
    BY <1>3, <1>6
  <2> QED BY <2>1 DEF Loud
<1>9. FromWorker(L, V, c0)
  <2>1. V.due > 0 => V.job = L.job /\ ~L.cycle /\ ~L.ack /\ Len(c0) + V.due <= L.due
    <3> SUFFICES ASSUME V.due > 0
                 PROVE  V.job = L.job /\ ~L.cycle /\ ~L.ack /\ Len(c0) + V.due <= L.due
      OBVIOUS
    <3>1. c0 = <<>> /\ ~L.ack /\ LogitsFor(sp, f) <= L.due /\ W.job = L.job
      BY <1>7, <1>8
    <3>2. V.job = L.job
      <4>1. ~AtRest(V)
        BY DEF AtRest
      <4> QED BY <3>1, <4>1
    <3>3. V.due <= L.due
      BY <1>3, <1>6, <3>1
    <3>4. ~L.cycle
      <4>1. L.due # 0
        BY <1>6, <3>3
      <4> QED BY <1>4, <4>1 DEF ToLeader
    <3>5. Len(c0) + V.due <= L.due
      <4>1. Len(c0) = 0
        BY <3>1
      <4> QED BY <1>6, <3>3, <4>1
    <3> QED BY <3>1, <3>2, <3>4, <3>5
  <2> QED BY <1>4, <2>1 DEF FromWorker
<1>10. Waiting(sp, L, V, c0, d1)
  <2>1. CASE Loud(sp, f)
    <3>1. \A i \in DOMAIN d1 : ~Loud(sp, d1[i])
      BY <1>3, <2>1, LoudTaken
    <3> QED BY <3>1 DEF Waiting
  <2>2. CASE ~Loud(sp, f)
    <3>1. V.due = 0
      BY <1>6, <1>8, <2>2
    <3> QED BY <3>1, QuietTaken
  <2> QED BY <2>1, <2>2
<1>11. Ordered(L, V, d1) /\ LeftOpen(L, V, d1) /\ InCycles(L, V, c0, d1) /\ Old(n, V, d1)
  BY <1>5, RestKept
<1> QED BY <1>4, <1>9, <1>10, <1>11 DEF Framed

(* The worker hears the leader's last agreement, and its cycle ends.       *)
LEMMA WorkerEnds ==
  ASSUME NEW sp \in BOOLEAN, NEW n \in Nat, NEW L \in Views, NEW W \in Views, NEW V \in Views,
         NEW c0 \in Seq(Answers), NEW c1 \in Seq(Orders), NEW d1,
         Framed(sp, n, L, W, TRUE, c0, c1), W.cycle, W.sent = 4, W.heard = 3,
         c1 # <<>>, d1 = Tail(c1), AtRest(V), V.job.c <= n
  PROVE  Framed(sp, n, L, V, TRUE, c0, d1)
<1>1. ToLeader(n, L, c0) /\ FromWorker(L, W, c0)
  BY DEF Framed
<1>2. ~W.block /\ ~V.ack /\ V.due = 0 /\ ~V.block /\ ~V.cycle
  BY <1>1 DEF FromWorker, AtRest
<1>3. c1[1].t = "agree"
  BY <1>2 DEF Framed, Ordered, FirstType
<1>4. ToLeader(n, L, c0) /\ FromWorker(L, V, c0)
  BY <1>1, <1>2 DEF FromWorker
<1>5. Waiting(sp, L, V, c0, d1)
  BY <1>2, <1>3, QuietTaken
<1>6. Ordered(L, V, d1) /\ LeftOpen(L, V, d1) /\ InCycles(L, V, c0, d1) /\ Old(n, V, d1)
  <2>1. CASE ~Paired(L, W)
    BY <1>2, <1>3, <2>1, RestKept
  <2>2. CASE Paired(L, W)
    <3>1. L.cycle /\ Len(c1) = L.sent - 3
      BY <2>2 DEF Framed, InCycles, Paired
    <3>2. L.heard <= 3 /\ L.sent <= L.heard + 1 /\ ~L.block
      BY <1>1, <3>1 DEF ToLeader
    <3>3. L.sent \in 0 .. 4 /\ L.heard \in 0 .. 4
      BY DEF Views
    <3>4. /\ Len(d1) = Len(c1) - 1 /\ Len(c1) \in Nat \ {0} /\ d1 \in Seq(Orders)
      BY Tailed
    <3>5. L.sent = 4 /\ Len(c1) = 1
      BY <3>1, <3>3, <3>4
    <3>6. L.heard = 3
      BY <3>2, <3>3, <3>5
    <3>7. d1 = <<>>
      BY <3>4, <3>5
    <3>8. ~Paired(L, V)
      BY <1>2 DEF Paired
    <3>9. Ordered(L, V, d1) /\ LeftOpen(L, V, d1) /\ Old(n, V, d1)
      <4>1. Ordered(L, V, d1)
        <5>1. Len(d1) = 0
          BY <3>4, <3>5
        <5>2. 1 .. Len(d1) - 1 = {}
          BY <5>1
        <5> QED BY <3>7, <5>2 DEF Ordered
      <4>2. LeftOpen(L, V, d1)
        BY <1>2, <3>1, <3>2, <3>7 DEF LeftOpen
      <4>3. DOMAIN d1 = {}
        BY <3>7
      <4>4. Old(n, V, d1)
        BY <4>3 DEF Old
      <4> QED BY <4>1, <4>2, <4>4
    <3>10. InCycles(L, V, c0, d1)
      BY <1>2, <3>5, <3>6, <3>7, <3>8 DEF InCycles
    <3> QED BY <3>9, <3>10
  <2> QED BY <2>1, <2>2
<1> QED BY <1>4, <1>5, <1>6 DEF Framed


(* The worker announces its next agreement.                                *)
LEMMA WorkerAgrees ==
  ASSUME NEW sp \in BOOLEAN, NEW n \in Nat, NEW L \in Views, NEW W \in Views, NEW V \in Views,
         NEW c0 \in Seq(Answers), NEW c1 \in Seq(Orders), NEW d0,
         Framed(sp, n, L, W, TRUE, c0, c1), W.cycle, W.sent = W.heard, W.sent <= 3,
         NEW f \in AgreeFrames, f.c = W.job.c, Nth(f.phase) = W.sent + 1, d0 = Append(c0, f),
         ~V.ack, V.due = 0, ~V.block, V.cycle, V.job = W.job,
         V.sent = W.sent + 1, V.heard = W.heard
  PROVE  Framed(sp, n, L, V, TRUE, d0, c1)
<1>1. ToLeader(n, L, c0) /\ FromWorker(L, W, c0)
  BY DEF Framed
<1>2. f \in Answers /\ f.t = "agree"
  BY DEF Answers, AgreeFrames
<1>3. /\ d0 \in Seq(Answers) /\ Len(d0) = Len(c0) + 1 /\ d0 # <<>> /\ Len(c0) \in Nat
      /\ DOMAIN d0 = 1 .. Len(c0) + 1 /\ DOMAIN c0 = 1 .. Len(c0)
      /\ d0[Len(c0) + 1] = f /\ \A i \in 1 .. Len(c0) : d0[i] = c0[i]
  BY <1>2, Appended
<1>4. Paired(L, W)
  <2>1. ~Paired(L, W) => W.sent = 4
    BY DEF Framed, InCycles
  <2>2. W.sent # 4
    OBVIOUS
  <2> QED BY <2>1, <2>2
<1>5. /\ Len(c1) = L.sent - W.heard /\ Len(c0) = W.sent - L.heard
      /\ \A i \in DOMAIN c1 : c1[i].t = "agree" /\ Nth(c1[i].phase) = W.heard + i
      /\ W.heard <= 3
  BY <1>4 DEF Framed, InCycles
<1>6. Paired(L, V) /\ L.cycle /\ L.job = W.job
  BY <1>4 DEF Paired
<1>7. L.job.c = n /\ ~L.ack /\ L.due = 0 /\ ~L.block
  BY <1>1, <1>6 DEF ToLeader, AtRest
<1>8. L.heard \in 0 .. 4 /\ W.sent \in 0 .. 4 /\ W.heard \in 0 .. 4 /\ L.sent \in 0 .. 4
  BY DEF Views
<1>9. ToLeader(n, L, d0)
  <2>1. ASSUME NEW i \in DOMAIN d0
        PROVE  d0[i].c = n /\ d0[i].t = "agree" /\ Nth(d0[i].phase) = L.heard + i
    <3>1. CASE i = Len(c0) + 1
      <4>1. Nth(d0[i].phase) = W.sent + 1 /\ d0[i] = f
        BY <1>3, <3>1
      <4>2. W.sent + 1 = L.heard + i
        BY <1>5, <1>8, <3>1
      <4> QED BY <1>2, <1>6, <1>7, <4>1, <4>2
    <3>2. CASE i # Len(c0) + 1
      <4>1. i \in DOMAIN c0 /\ d0[i] = c0[i]
        BY <1>3, <3>2
      <4> QED BY <1>1, <1>6, <4>1 DEF ToLeader
    <3> QED BY <3>1, <3>2
  <2>2. L.heard + Len(d0) <= 4
    BY <1>3, <1>5, <1>8
  <2>3. L.heard <= 3 /\ L.heard <= L.sent /\ L.sent <= L.heard + 1
    BY <1>1, <1>6 DEF ToLeader
  <2> QED BY <1>6, <1>7, <2>1, <2>2, <2>3 DEF ToLeader
<1>10. FromWorker(L, V, d0)
  BY <1>7 DEF FromWorker
<1>11. Waiting(sp, L, V, d0, c1)
  <2>1. \A i \in DOMAIN c1 : ~Loud(sp, c1[i])
    BY <1>5 DEF Loud, LogitsFor, IsCmd
  <2> QED BY <2>1 DEF Waiting
<1>12. Ordered(L, V, c1)
  <2>1. FirstType(V) = FirstType(W)
    BY <1>1 DEF FirstType, FromWorker
  <2>2. \A g : NextType(L, V, g) = NextType(L, W, g)
    BY <1>4, <1>6 DEF NextType
  <2> QED BY <2>1, <2>2 DEF Framed, Ordered
<1>13. LeftOpen(L, V, c1)
  BY <1>6, <1>7 DEF Framed, LeftOpen
<1>14. InCycles(L, V, d0, c1)
  <2>1. Len(d0) = V.sent - L.heard
    BY <1>3, <1>5, <1>8
  <2>2. V.heard <= 3 /\ V.heard <= V.sent /\ V.sent <= V.heard + 1
    BY <1>5, <1>8
  <2>3. Len(c1) = L.sent - V.heard /\ \A i \in DOMAIN c1 : c1[i].t = "agree" /\ Nth(c1[i].phase) = V.heard + i
    BY <1>5
  <2> HIDE DEF Paired
  <2> QED BY <1>6, <2>1, <2>2, <2>3 DEF InCycles
<1>15. Old(n, V, c1)
  BY DEF Framed, Old
<1> QED BY <1>9, <1>10, <1>11, <1>12, <1>13, <1>14, <1>15 DEF Framed

(* The worker hears an agreement of the leader, and goes on.               *)
LEMMA WorkerHears ==
  ASSUME NEW sp \in BOOLEAN, NEW n \in Nat, NEW L \in Views, NEW W \in Views, NEW V \in Views,
         NEW c0 \in Seq(Answers), NEW c1 \in Seq(Orders), NEW d1,
         Framed(sp, n, L, W, TRUE, c0, c1), W.cycle, W.sent = W.heard + 1, W.sent <= 3,
         c1 # <<>>, d1 = Tail(c1),
         ~V.ack, V.due = 0, ~V.block, V.cycle, V.job = W.job,
         V.sent = W.sent, V.heard = W.heard + 1
  PROVE  Framed(sp, n, L, V, TRUE, c0, d1)
<1>1. ToLeader(n, L, c0) /\ FromWorker(L, W, c0)
  BY DEF Framed
<1>2. /\ d1 \in Seq(Orders) /\ Len(d1) = Len(c1) - 1 /\ Len(c1) \in Nat \ {0} /\ Len(d1) \in Nat
      /\ DOMAIN d1 = 1 .. Len(c1) - 1 /\ DOMAIN c1 = 1 .. Len(c1)
      /\ \A i \in 1 .. Len(c1) - 1 : d1[i] = c1[i + 1]
  BY Tailed
<1>3. Paired(L, W)
  <2>1. ~Paired(L, W) => W.sent = 4
    BY DEF Framed, InCycles
  <2>2. W.sent # 4
    OBVIOUS
  <2> QED BY <2>1, <2>2
<1>4. /\ Len(c1) = L.sent - W.heard /\ Len(c0) = W.sent - L.heard
      /\ \A i \in DOMAIN c1 : c1[i].t = "agree" /\ Nth(c1[i].phase) = W.heard + i
      /\ W.heard <= 3
  BY <1>3 DEF Framed, InCycles
<1>5. Paired(L, V) /\ L.cycle /\ L.job = W.job
  BY <1>3 DEF Paired
<1>6. L.heard \in 0 .. 4 /\ W.sent \in 0 .. 4 /\ W.heard \in 0 .. 4 /\ L.sent \in 0 .. 4
  BY DEF Views
<1>7. \A i \in DOMAIN d1 : d1[i].t = "agree" /\ Nth(d1[i].phase) = V.heard + i
  <2> SUFFICES ASSUME NEW i \in DOMAIN d1 PROVE d1[i].t = "agree" /\ Nth(d1[i].phase) = V.heard + i
    OBVIOUS
  <2>1. i \in Nat /\ i + 1 \in DOMAIN c1 /\ d1[i] = c1[i + 1]
    BY <1>2
  <2>2. d1[i].t = "agree" /\ Nth(d1[i].phase) = W.heard + (i + 1)
    BY <1>4, <2>1
  <2>3. W.heard + (i + 1) = V.heard + i
    BY <1>6, <2>1
  <2> QED BY <2>2, <2>3
<1>8. ~L.ack /\ L.due = 0 /\ ~L.block
  BY <1>1, <1>5 DEF ToLeader
<1>9. FromWorker(L, V, c0)
  BY <1>8 DEF FromWorker
<1>10. Waiting(sp, L, V, c0, d1)
  <2>1. \A i \in DOMAIN d1 : ~Loud(sp, d1[i])
    BY <1>7 DEF Loud, LogitsFor, IsCmd
  <2> QED BY <2>1 DEF Waiting
<1>11. Ordered(L, V, d1)
  <2>1. d1 # <<>> => d1[1].t = FirstType(V)
    <3>1. d1 # <<>> => 1 \in DOMAIN d1
      OBVIOUS
    <3> QED BY <1>7, <3>1 DEF FirstType
  <2>2. ASSUME NEW i \in 1 .. Len(d1) - 1 PROVE d1[i + 1].t = NextType(L, V, d1[i])
    <3>1. i \in DOMAIN d1 /\ i + 1 \in DOMAIN d1
      BY <1>2
    <3> QED BY <1>5, <1>7, <3>1 DEF NextType, IsCmd
  <2> QED BY <2>1, <2>2 DEF Ordered
<1>12. LeftOpen(L, V, d1)
  <2>1. d1 # <<>> => Len(d1) \in DOMAIN d1
    BY <1>2
  <2> QED BY <1>5, <1>7, <1>8, <2>1 DEF LeftOpen, IsCmd
<1>13. InCycles(L, V, c0, d1)
  <2>1. Len(d1) = L.sent - V.heard
    BY <1>2, <1>4, <1>6
  <2>2. V.heard <= 3 /\ V.heard <= V.sent /\ V.sent <= V.heard + 1
    BY <1>6
  <2>3. Len(c0) = V.sent - L.heard
    BY <1>4
  <2> HIDE DEF Paired
  <2> QED BY <1>5, <1>7, <2>1, <2>2, <2>3 DEF InCycles
<1>14. Old(n, V, d1)
  <2>1. \A i \in DOMAIN d1 : i + 1 \in DOMAIN c1 /\ d1[i] = c1[i + 1]
    BY <1>2
  <2> QED BY <2>1 DEF Framed, Old
<1> QED BY <1>1, <1>9, <1>10, <1>11, <1>12, <1>13, <1>14 DEF Framed


-----------------------------------------------------------------------------
(* Types, action by action.  First the queues.                             *)

LEMMA OneMore ==
  ASSUME NEW X, NEW s \in Seq(X), NEW x
  PROVE  s \o <<x>> = Append(s, x)
OBVIOUS

LEMMA Ordered1 ==
  ASSUME NEW c, Queues(c), up \in [Rank -> BOOLEAN], NEW f \in Orders, NEW d, d = Put(c, 0, <<f>>)
  PROVE  Queues(d) /\ d[0] = c[0] /\ d[1] = IF up[1] THEN Append(c[1], f) ELSE c[1]
<1>1. Peer(0) = 1 /\ 0 \in Rank /\ 1 \in Rank /\ Rank = {0, 1}
  BY DEF Peer, Rank
<1>2. DOMAIN c = Rank /\ c[0] \in Seq(Answers) /\ c[1] \in Seq(Orders)
  BY DEF Queues
<1>3. d = [c EXCEPT ![1] = IF up[1] THEN c[1] \o <<f>> ELSE c[1]]
  BY <1>1 DEF Put
<1>4. c[1] \o <<f>> = Append(c[1], f)
  BY <1>2, OneMore
<1>5. d[0] = c[0] /\ d[1] = IF up[1] THEN Append(c[1], f) ELSE c[1]
  <2>1. \A x : [c EXCEPT ![1] = x][0] = c[0] /\ [c EXCEPT ![1] = x][1] = x
    BY <1>1, <1>2
  <2>2. d[0] = c[0] /\ d[1] = IF up[1] THEN c[1] \o <<f>> ELSE c[1]
    BY <1>3, <2>1, ZenonT(60)
  <2> QED BY <1>4, <2>2, ZenonT(60)
<1>6. d[1] \in Seq(Orders) /\ d[0] \in Seq(Answers)
  <2>1. Append(c[1], f) \in Seq(Orders)
    BY <1>2
  <2> QED BY <1>2, <1>5, <2>1, ZenonT(60)
<1>7. d \in [Rank -> Seq(Orders) \cup Seq(Answers)]
  <2>1. d = [r \in Rank |-> d[r]]
    BY <1>2, <1>3
  <2>2. \A r \in Rank : d[r] \in Seq(Orders) \cup Seq(Answers)
    BY <1>1, <1>6
  <2> QED BY <2>1, <2>2, ZenonT(60)
<1> QED BY <1>5, <1>6, <1>7 DEF Queues

LEMMA Answered0 ==
  ASSUME NEW c, Queues(c), up \in [Rank -> BOOLEAN], NEW f \in Answers, NEW d, d = Put(c, 1, <<f>>)
  PROVE  Queues(d) /\ d[1] = c[1] /\ d[0] = IF up[0] THEN Append(c[0], f) ELSE c[0]
<1>1. Peer(1) = 0 /\ 0 \in Rank /\ 1 \in Rank /\ Rank = {0, 1}
  BY DEF Peer, Rank
<1>2. DOMAIN c = Rank /\ c[0] \in Seq(Answers) /\ c[1] \in Seq(Orders)
  BY DEF Queues
<1>3. d = [c EXCEPT ![0] = IF up[0] THEN c[0] \o <<f>> ELSE c[0]]
  BY <1>1 DEF Put
<1>4. c[0] \o <<f>> = Append(c[0], f)
  BY <1>2, OneMore
<1>5. d[1] = c[1] /\ d[0] = IF up[0] THEN Append(c[0], f) ELSE c[0]
  <2>1. \A x : [c EXCEPT ![0] = x][1] = c[1] /\ [c EXCEPT ![0] = x][0] = x
    BY <1>1, <1>2
  <2>2. d[1] = c[1] /\ d[0] = IF up[0] THEN c[0] \o <<f>> ELSE c[0]
    <3> DEFINE x == IF up[0] THEN c[0] \o <<f>> ELSE c[0]
    <3>1. d = [c EXCEPT ![0] = x]
      BY <1>3
    <3> HIDE DEF x
    <3>2. [c EXCEPT ![0] = x][1] = c[1] /\ [c EXCEPT ![0] = x][0] = x
      BY <1>1, <1>2
    <3>3. d[1] = c[1] /\ d[0] = x
      BY <3>1, <3>2, ZenonT(60)
    <3> QED BY <3>3 DEF x
  <2> QED BY <1>4, <2>2, ZenonT(60)
<1>6. d[1] \in Seq(Orders) /\ d[0] \in Seq(Answers)
  <2>1. Append(c[0], f) \in Seq(Answers)
    BY <1>2
  <2> QED BY <1>2, <1>5, <2>1, ZenonT(60)
<1>7. d \in [Rank -> Seq(Orders) \cup Seq(Answers)]
  <2>1. d = [r \in Rank |-> d[r]]
    BY <1>2, <1>3
  <2>2. \A r \in Rank : d[r] \in Seq(Orders) \cup Seq(Answers)
    BY <1>1, <1>6
  <2> QED BY <2>1, <2>2, ZenonT(60)
<1> QED BY <1>5, <1>6, <1>7 DEF Queues

LEMMA TakenFrom ==
  ASSUME Queues(chan), NEW r \in Rank, chan[r] # <<>>, NEW d, d = Taken(r)
  PROVE  /\ Queues(d) /\ d[r] = Tail(chan[r]) /\ d[Peer(r)] = chan[Peer(r)]
         /\ Head(chan[r]) = chan[r][1]
<1>1. r \in {0, 1} /\ Rank = {0, 1} /\ Peer(0) = 1 /\ Peer(1) = 0
  BY DEF Rank, Peer
<1>2. DOMAIN chan = Rank /\ chan[0] \in Seq(Answers) /\ chan[1] \in Seq(Orders)
  BY DEF Queues
<1>3. d = [chan EXCEPT ![r] = Tail(chan[r])]
  BY DEF Taken
<1>4. \A q \in Rank : d[q] = IF q = r THEN Tail(chan[r]) ELSE chan[q]
  BY <1>2, <1>3
<1>5. d[0] \in Seq(Answers) /\ d[1] \in Seq(Orders)
  <2>1. CASE r = 0
    <3>1. Tail(chan[0]) \in Seq(Answers)
      BY <1>2, <2>1
    <3>2. d[0] = Tail(chan[0]) /\ d[1] = chan[1]
      BY <1>1, <1>4, <2>1
    <3> QED BY <1>2, <3>1, <3>2, ZenonT(60)
  <2>2. CASE r = 1
    <3>1. Tail(chan[1]) \in Seq(Orders)
      BY <1>2, <2>2
    <3>2. d[1] = Tail(chan[1]) /\ d[0] = chan[0]
      BY <1>1, <1>4, <2>2
    <3> QED BY <1>2, <3>1, <3>2, ZenonT(60)
  <2> QED BY <1>1, <2>1, <2>2
<1>6. d \in [Rank -> Seq(Orders) \cup Seq(Answers)]
  <2>1. d = [q \in Rank |-> d[q]]
    BY <1>2, <1>3
  <2>2. \A q \in Rank : d[q] \in Seq(Orders) \cup Seq(Answers)
    BY <1>1, <1>5
  <2> QED BY <2>1, <2>2, ZenonT(60)
<1>7. Head(chan[r]) = chan[r][1]
  BY DEF Queues
<1>8. d[r] = Tail(chan[r]) /\ d[Peer(r)] = chan[Peer(r)]
  BY <1>1, <1>4
<1> QED BY <1>5, <1>6, <1>7, <1>8 DEF Queues

LEMMA Emptied ==
  ASSUME Queues(chan), NEW r \in Rank, NEW d, d = [chan EXCEPT ![r] = <<>>]
  PROVE  Queues(d) /\ d[r] = <<>> /\ d[Peer(r)] = chan[Peer(r)]
<1>1. r \in {0, 1} /\ Rank = {0, 1} /\ Peer(0) = 1 /\ Peer(1) = 0
  BY DEF Rank, Peer
<1>2. DOMAIN chan = Rank /\ chan[0] \in Seq(Answers) /\ chan[1] \in Seq(Orders)
  BY DEF Queues
<1>3. \A q \in Rank : d[q] = IF q = r THEN <<>> ELSE chan[q]
  BY <1>2
<1>4. d[0] \in Seq(Answers) /\ d[1] \in Seq(Orders)
  BY <1>1, <1>2, <1>3
<1>5. d \in [Rank -> Seq(Orders) \cup Seq(Answers)]
  <2>1. d = [q \in Rank |-> d[q]]
    BY <1>2
  <2>2. \A q \in Rank : d[q] \in Seq(Orders) \cup Seq(Answers)
    BY <1>1, <1>4
  <2> QED BY <2>1, <2>2, ZenonT(60)
<1> QED BY <1>1, <1>3, <1>4, <1>5 DEF Queues


(* Then the calls of the leader.                                           *)
LEMMA JobTyped == Job \in Jobs /\ Loc \in Locals /\ Closed \in Mirrors
BY DEF Job, Jobs, JobRecords, Ops, AckOps, Loc, Locals, Closed, Mirrors, Phases

LEMMA RankFacts == Rank = {0, 1} /\ 0 \in Rank /\ 1 \in Rank /\ Peer(0) = 1 /\ Peer(1) = 0
BY DEF Rank, Peer

LEMMA SessionsAreNumbers == Sessions \subseteq Nat \ {0} /\ 0 \notin Sessions
<1>1. Cardinality(Sessions) \in Nat
  BY SessionAssumption, FS_CardinalityType
<1> QED BY <1>1, SessionAssumption

LEMMA CountedJob ==
  ASSUME calls \in Nat, NEW j \in Jobs
  PROVE  /\ [j EXCEPT !.c = calls + 1] \in Jobs
         /\ [j EXCEPT !.c = calls + 1].op = j.op /\ [j EXCEPT !.c = calls + 1].c = calls + 1
BY DEF Jobs, JobRecords

LEMMA SendsTyped ==
  ASSUME Types, NEW j \in Jobs, j.op \notin {"none", "stop"}, NEW p \in Pcs, Sends(j, p)
  PROVE  /\ mirror' = mirror /\ failed' = failed
         /\ pc' \in [Rank -> Pcs] /\ job' \in [Rank -> Jobs] /\ loc' \in [Rank -> Locals]
         /\ Queues(chan')
<1>1. calls \in Nat /\ mirror \in [Rank -> [Sessions -> Mirrors]]
  BY DEF Types
<1> DEFINE k == [j EXCEPT !.c = calls + 1]
<1>2. k \in Jobs
  BY <1>1, CountedJob
<1>3. job' = [job EXCEPT ![0] = k] /\ Cmd(j) = [t |-> "cmd", j |-> k]
  BY DEF Sends, Cmd
<1> HIDE DEF k
<1>4. Cmd(j) \in Orders
  BY <1>2, <1>3 DEF Orders, CmdFrames
<1>5. chan' = Put(chan, 0, <<Cmd(j)>>)
  BY DEF Sends, Write
<1>6. Queues(chan')
  BY <1>4, <1>5, Ordered1 DEF Types
<1>7. job' \in [Rank -> Jobs]
  BY <1>2, <1>3 DEF Types
<1>8. loc' \in [Rank -> Locals]
  <2>1. Checkpoint(0, j) \in Int
    <3>1. CASE j.op = "verify"
      <4>1. j.s \in Sessions
        BY <3>1 DEF Jobs
      <4> QED BY <1>1, <4>1, RankFacts DEF Checkpoint, Mirrors
    <3>2. CASE j.op # "verify"
      BY <3>2 DEF Checkpoint
    <3> QED BY <3>1, <3>2
  <2>2. loc' = [loc EXCEPT ![0].start = Checkpoint(0, j)]
    BY DEF Sends
  <2>3. loc \in [Rank -> Locals]
    BY DEF Types
  <2> QED BY <2>1, <2>2, <2>3 DEF Locals
<1>9. pc' \in [Rank -> Pcs]
  BY DEF Sends, Goto, Types
<1> QED BY <1>6, <1>7, <1>8, <1>9 DEF Sends

LEMMA DroppedTyped ==
  ASSUME mirror \in [Rank -> [Sessions -> Mirrors]], NEW r \in Rank, NEW ss
  PROVE  Dropped(r, ss) \in [Rank -> [Sessions -> Mirrors]]
<1> DEFINE m == [s \in Sessions |->
                   IF s \in ss THEN [mirror[r][s] EXCEPT !.line = 0, !.len = 0, !.front = 0, !.valid = FALSE]
                   ELSE mirror[r][s]]
<1>1. m \in [Sessions -> Mirrors]
  <2>1. ASSUME NEW x \in Mirrors
        PROVE  [x EXCEPT !.line = 0, !.len = 0, !.front = 0, !.valid = FALSE] \in Mirrors
    <3> DEFINE a == [x EXCEPT !.line = 0]
               b == [a EXCEPT !.len = 0]
               c == [b EXCEPT !.front = 0]
               d == [c EXCEPT !.valid = FALSE]
    <3>1. a \in Mirrors
      BY DEF Mirrors
    <3> HIDE DEF a
    <3>2. b \in Mirrors
      BY <3>1 DEF Mirrors
    <3> HIDE DEF b
    <3>3. c \in Mirrors
      BY <3>2 DEF Mirrors
    <3> HIDE DEF c
    <3>4. d \in Mirrors
      BY <3>3 DEF Mirrors
    <3> QED BY <3>4, ZenonT(60) DEF a, b, c
  <2>2. \A s \in Sessions : mirror[r][s] \in Mirrors
    OBVIOUS
  <2> QED BY <2>1, <2>2
<1>2. Dropped(r, ss) = [mirror EXCEPT ![r] = m]
  BY DEF Dropped
<1> HIDE DEF m
<1> QED BY <1>1, <1>2


(* The commands of the calls, by what they set.                            *)
Named(op, s) == [Job EXCEPT !.op = op, !.s = s]
Upto(op, s, line, n) == [Job EXCEPT !.op = op, !.s = s, !.line = line, !.n = n]
Mixed(s, line, n, items) == [Job EXCEPT !.op = "batch", !.s = s, !.line = line, !.n = n, !.items = items]
Block(op, s, n) == [Job EXCEPT !.op = op, !.s = s, !.n = n]
Cycle(op, s, n, at, k) == [Job EXCEPT !.op = op, !.s = s, !.n = n, !.at = at, !.k = k]

LEMMA MadeJob ==
  ASSUME NEW op \in Ops, NEW s \in Sessions \cup {0}, op \notin {"none", "stop", "batch"} => s \in Sessions
  PROVE  /\ Named(op, s) \in Jobs /\ Named(op, s).op = op /\ Named(op, s).s = s
         /\ Named(op, s).items = {} /\ Named(op, s).c = 0
<1> DEFINE a == [Job EXCEPT !.op = op]
           b == [a EXCEPT !.s = s]
<1>1. a \in JobRecords
  BY DEF Job, JobRecords
<1>2. Named(op, s) = b
  BY ZenonT(60) DEF Named
<1>3. /\ Named(op, s).op = op /\ Named(op, s).s = s /\ Named(op, s).items = {}
      /\ Named(op, s).c = 0
  BY DEF Job, Named
<1> HIDE DEF a
<1>4. b \in JobRecords
  BY <1>1 DEF JobRecords
<1> HIDE DEF b
<1> QED BY <1>2, <1>3, <1>4 DEF Jobs

LEMMA MadePrefill ==
  ASSUME NEW op \in Ops, NEW s \in Sessions \cup {0}, op \notin {"none", "stop", "batch"} => s \in Sessions,
         NEW line \in Nat, NEW n \in Nat
  PROVE  Upto(op, s, line, n) \in Jobs /\ Upto(op, s, line, n).op = op
<1> DEFINE a == Named(op, s)
           b == [a EXCEPT !.line = line]
           c == [b EXCEPT !.n = n]
<1>1. Upto(op, s, line, n) = c
  BY ZenonT(60) DEF Upto, Named
<1>2. a \in Jobs /\ a.op = op
  BY MadeJob
<1> HIDE DEF a
<1>3. b \in Jobs /\ b.op = op
  BY <1>2 DEF Jobs, JobRecords
<1> HIDE DEF b
<1>4. c \in Jobs /\ c.op = op
  BY <1>3 DEF Jobs, JobRecords
<1> HIDE DEF c
<1> QED BY <1>1, <1>4

LEMMA MadeBatch ==
  ASSUME NEW s \in Sessions \cup {0}, NEW items \in SUBSET Sessions, NEW line \in Nat, NEW n \in Nat
  PROVE  Mixed(s, line, n, items) \in Jobs /\ Mixed(s, line, n, items).op = "batch"
<1> DEFINE a == Upto("batch", s, line, n)
           b == [a EXCEPT !.items = items]
<1>1. Mixed(s, line, n, items) = b
  BY ZenonT(60) DEF Mixed, Upto
<1>2. "batch" \in Ops
  BY DEF Ops, AckOps
<1>3. a \in Jobs /\ a.op = "batch"
  BY <1>2, MadePrefill
<1> HIDE DEF a
<1>4. b \in Jobs /\ b.op = "batch"
  BY <1>3 DEF Jobs, JobRecords
<1> HIDE DEF b
<1> QED BY <1>1, <1>4

LEMMA MadeBlock ==
  ASSUME NEW op \in Ops \ {"none", "stop", "batch"}, NEW s \in Sessions, NEW n \in Nat
  PROVE  Block(op, s, n) \in Jobs /\ Block(op, s, n).op = op
<1> DEFINE a == Named(op, s)
           b == [a EXCEPT !.n = n]
<1>1. Block(op, s, n) = b
  BY ZenonT(60) DEF Block, Named
<1>2. a \in Jobs /\ a.op = op
  BY MadeJob
<1> HIDE DEF a
<1>3. b \in Jobs /\ b.op = op
  BY <1>2 DEF Jobs, JobRecords
<1> HIDE DEF b
<1> QED BY <1>1, <1>3

LEMMA MadeCycle ==
  ASSUME NEW op \in Ops \ {"none", "stop", "batch"}, NEW s \in Sessions, NEW n \in Nat,
         NEW at \in Int, NEW k \in Nat
  PROVE  Cycle(op, s, n, at, k) \in Jobs /\ Cycle(op, s, n, at, k).op = op
<1> DEFINE a == Block(op, s, n)
           b == [a EXCEPT !.at = at]
           c == [b EXCEPT !.k = k]
<1>1. Cycle(op, s, n, at, k) = c
  BY ZenonT(60) DEF Cycle, Block
<1>2. a \in Jobs /\ a.op = op
  BY MadeBlock
<1> HIDE DEF a
<1>3. b \in Jobs /\ b.op = op
  BY <1>2 DEF Jobs, JobRecords
<1> HIDE DEF b
<1>4. c \in Jobs /\ c.op = op
  BY <1>3 DEF Jobs, JobRecords
<1> HIDE DEF c
<1> QED BY <1>1, <1>4


(* A call either sends its command, or nothing moves but the sessions, or  *)
(* the leader fails.                                                       *)
FirstStop(op) ==
  IF op \in {"create", "destroy"} THEN "ack" ELSE IF op = "native" THEN "check" ELSE "run"
CallMade(j) ==
  /\ j \in Jobs /\ j.op \notin {"none", "stop", "invalidate"}
  /\ pc[0] = "idle" /\ mode' = mode /\ calls' = calls + 1 /\ created' \in Nat
  /\ mirror' \in [Rank -> [Sessions -> Mirrors]] /\ failed' \in [Rank -> BOOLEAN]
  /\ up' \in [Rank -> BOOLEAN] /\ up'[1] = up[1] /\ Queues(chan')
  /\ \/ Sends(j, FirstStop(j.op)) /\ up' = up
     \/ /\ UNCHANGED <<pc, job, loc>>
        /\ failed'[0] \/ UNCHANGED <<chan, up, failed>>

LEMMA SentIsMade ==
  ASSUME Types, NEW j \in Jobs, j.op \notin {"none", "stop", "invalidate"},
         pc[0] = "idle", mode' = mode, calls' = calls + 1, created' \in Nat, up' = up,
         Sends(j, FirstStop(j.op))
  PROVE  CallMade(j)
<1>1. FirstStop(j.op) \in Pcs
  BY DEF FirstStop, Pcs
<1>2. mirror' = mirror /\ failed' = failed /\ Queues(chan')
  BY <1>1, SendsTyped
<1> QED BY <1>2 DEF CallMade, Types

LEMMA LeftIsMade ==
  ASSUME Types, NEW j \in Jobs, j.op \notin {"none", "stop", "invalidate"},
         pc[0] = "idle", mode' = mode, calls' = calls + 1, created' \in Nat, up' = up,
         UNCHANGED <<pc, job, loc, chan>>,
         mirror' \in [Rank -> [Sessions -> Mirrors]],
         failed' = failed \/ MarkFailed(0)
  PROVE  CallMade(j)
<1>1. /\ Queues(chan') /\ chan' = chan /\ up' \in [Rank -> BOOLEAN]
  BY DEF Types
<1>2. failed' \in [Rank -> BOOLEAN] /\ (failed'[0] \/ failed' = failed)
  BY RankFacts DEF Types, MarkFailed
<1> QED BY <1>1, <1>2 DEF CallMade

LEMMA CreateMade == ASSUME Types, Create PROVE \E j : CallMade(j)
<1> DEFINE j == Named("create", created + 1)
<1>1. created + 1 \in Sessions /\ "create" \in Ops
  BY DEF Create, Ops, AckOps
<1>2. j \in Jobs /\ j.op = "create"
  BY <1>1, MadeJob
<1>3. /\ pc[0] = "idle" /\ mode' = mode /\ up' = up /\ calls' = calls + 1 /\ created' = created + 1
      /\ Sends(j, "ack") \/ UNCHANGED <<mirror, pc, job, loc, chan, failed>>
  BY DEF Create, Calls, Calling, Named
<1> HIDE DEF j
<1>4. FirstStop(j.op) = "ack" /\ created' \in Nat
  BY <1>1, <1>2, <1>3, SessionsAreNumbers DEF FirstStop
<1>5. CASE Sends(j, "ack")
  BY <1>2, <1>3, <1>4, <1>5, SentIsMade
<1>6. CASE UNCHANGED <<mirror, pc, job, loc, chan, failed>>
  BY <1>2, <1>3, <1>4, <1>6, LeftIsMade DEF Types
<1> QED BY <1>3, <1>5, <1>6

LEMMA DestroyMade == ASSUME Types, NEW s \in Sessions, Destroy(s) PROVE \E j : CallMade(j)
<1> DEFINE j == Named("destroy", s)
<1>1. "destroy" \in Ops
  BY DEF Ops, AckOps
<1>2. j \in Jobs /\ j.op = "destroy"
  BY <1>1, MadeJob
<1>3. /\ pc[0] = "idle" /\ mode' = mode /\ up' = up /\ calls' = calls + 1 /\ created' = created
      /\ \/ Sends(j, "ack")
         \/ SetSession(0, s, Closed) /\ UNCHANGED <<pc, job, loc, chan, failed>>
  BY DEF Destroy, Calls, Calling, Named
<1> HIDE DEF j
<1>4. FirstStop(j.op) = "ack" /\ created' \in Nat
  BY <1>2, <1>3 DEF FirstStop, Types
<1>5. CASE Sends(j, "ack")
  BY <1>2, <1>3, <1>4, <1>5, SentIsMade
<1>6. CASE SetSession(0, s, Closed) /\ UNCHANGED <<pc, job, loc, chan, failed>>
  <2>1. mirror' \in [Rank -> [Sessions -> Mirrors]]
    BY <1>6, JobTyped DEF SetSession, Types
  <2> QED BY <1>2, <1>3, <1>4, <1>6, <2>1, LeftIsMade
<1> QED BY <1>3, <1>5, <1>6

LEMMA SyncMade ==
  ASSUME Types, NEW s \in Sessions, NEW p \in Prompts, Sync(s, p) PROVE \E j : CallMade(j)
<1> DEFINE j == Upto("sync", s, p[1], p[2])
<1>1. "sync" \in Ops /\ p[1] \in Nat /\ p[2] \in Nat
  BY ModeAssumption DEF Ops, AckOps
<1>2. j \in Jobs /\ j.op = "sync"
  BY <1>1, MadePrefill
<1>3. /\ pc[0] = "idle" /\ mode' = mode /\ up' = up /\ calls' = calls + 1 /\ created' = created
      /\ \/ Sends(j, "run")
         \/ MarkFailed(0) /\ UNCHANGED <<mirror, pc, job, loc, chan>>
  BY DEF Sync, Calls, Calling, Upto
<1> HIDE DEF j
<1>4. FirstStop(j.op) = "run" /\ created' \in Nat
  BY <1>2, <1>3 DEF FirstStop, Types
<1>5. CASE Sends(j, "run")
  BY <1>2, <1>3, <1>4, <1>5, SentIsMade
<1>6. CASE MarkFailed(0) /\ UNCHANGED <<mirror, pc, job, loc, chan>>
  BY <1>2, <1>3, <1>4, <1>6, LeftIsMade DEF Types
<1> QED BY <1>3, <1>5, <1>6

LEMMA EvalMade == ASSUME Types, NEW s \in Sessions, Eval(s) PROVE \E j : CallMade(j)
<1> DEFINE j == Named("eval", s)
<1>1. "eval" \in Ops
  BY DEF Ops, AckOps
<1>2. j \in Jobs /\ j.op = "eval"
  BY <1>1, MadeJob
<1>3. /\ pc[0] = "idle" /\ mode' = mode /\ up' = up /\ calls' = calls + 1 /\ created' = created
      /\ \/ Sends(j, "run")
         \/ MarkFailed(0) /\ UNCHANGED <<mirror, pc, job, loc, chan>>
  BY DEF Eval, Calls, Calling, Named
<1> HIDE DEF j
<1>4. FirstStop(j.op) = "run" /\ created' \in Nat
  BY <1>2, <1>3 DEF FirstStop, Types
<1>5. CASE Sends(j, "run")
  BY <1>2, <1>3, <1>4, <1>5, SentIsMade
<1>6. CASE MarkFailed(0) /\ UNCHANGED <<mirror, pc, job, loc, chan>>
  BY <1>2, <1>3, <1>4, <1>6, LeftIsMade DEF Types
<1> QED BY <1>3, <1>5, <1>6

LEMMA BatchMade ==
  ASSUME Types, NEW s \in Sessions \cup {0}, NEW p \in Prompts \cup {<<0, 0>>},
         NEW items \in SUBSET Sessions, Batch(s, p, items)
  PROVE  \E j : CallMade(j)
<1> DEFINE j == Mixed(s, p[1], p[2], items)
           all == items \cup ({s} \ {0})
<1>1. p[1] \in Nat /\ p[2] \in Nat
  BY ModeAssumption
<1>2. j \in Jobs /\ j.op = "batch"
  BY <1>1, MadeBatch
<1>3. /\ pc[0] = "idle" /\ mode' = mode /\ up' = up /\ calls' = calls + 1 /\ created' = created
      /\ \/ Sends(j, "run")
         \/ mirror' = Dropped(0, all) /\ UNCHANGED <<pc, job, loc, chan, failed>>
  BY DEF Batch, Calling, Mixed
<1> HIDE DEF j, all
<1>4. FirstStop(j.op) = "run" /\ created' \in Nat
  BY <1>2, <1>3 DEF FirstStop, Types
<1>5. CASE Sends(j, "run")
  BY <1>2, <1>3, <1>4, <1>5, SentIsMade
<1>6. CASE mirror' = Dropped(0, all) /\ UNCHANGED <<pc, job, loc, chan, failed>>
  <2>1. mirror' \in [Rank -> [Sessions -> Mirrors]]
    BY <1>6, DroppedTyped, RankFacts DEF Types
  <2> QED BY <1>2, <1>3, <1>4, <1>6, <2>1, LeftIsMade
<1> QED BY <1>3, <1>5, <1>6

LEMMA VerifyMade ==
  ASSUME Types, NEW s \in Sessions, NEW n \in 1 .. MaxBlock, Verify(s, n) PROVE \E j : CallMade(j)
<1> DEFINE j == Block("verify", s, n)
<1>1. "verify" \in Ops \ {"none", "stop", "batch"} /\ n \in Nat
  BY DEF Ops, AckOps
<1>2. j \in Jobs /\ j.op = "verify"
  BY <1>1, MadeBlock
<1>3. /\ pc[0] = "idle" /\ mode' = mode /\ up' = up /\ calls' = calls + 1 /\ created' = created
      /\ \/ Sends(j, "run")
         \/ UNCHANGED <<mirror, pc, job, loc, chan, failed>>
  BY DEF Verify, Calls, Calling, Block
<1> HIDE DEF j
<1>4. FirstStop(j.op) = "run" /\ created' \in Nat
  BY <1>2, <1>3 DEF FirstStop, Types
<1>5. CASE Sends(j, "run")
  BY <1>2, <1>3, <1>4, <1>5, SentIsMade
<1>6. CASE UNCHANGED <<mirror, pc, job, loc, chan, failed>>
  BY <1>2, <1>3, <1>4, <1>6, LeftIsMade DEF Types
<1> QED BY <1>3, <1>5, <1>6

LEMMA NativeMade ==
  ASSUME Types, NEW s \in Sessions, NEW n \in 1 .. MaxBlock, Native(s, n) PROVE \E j : CallMade(j)
<1> DEFINE at == mirror[0][s].len
           k == mirror[0][s].cycle + 1
           j == Cycle("native", s, n, at, k)
<1>1. /\ "native" \in Ops \ {"none", "stop", "batch"} /\ n \in Nat
      /\ at \in Int /\ k \in Nat
  BY RankFacts DEF Ops, AckOps, Types, Mirrors
<1>2. j \in Jobs /\ j.op = "native"
  <2> HIDE DEF at, k
  <2> QED BY <1>1, MadeCycle
<1>3. /\ pc[0] = "idle" /\ mode' = mode /\ calls' = calls + 1 /\ created' = created
      /\ \/ Sends(j, "check") /\ up' = up
         \/ /\ MarkFailed(0) /\ mirror' = Dropped(0, {s})
            /\ Shuts(0)
            /\ UNCHANGED <<pc, job, loc>>
  BY DEF Native, Calling, Cycle
<1> HIDE DEF j
<1>4. FirstStop(j.op) = "check" /\ created' \in Nat
  BY <1>2, <1>3 DEF FirstStop, Types
<1>5. CASE Sends(j, "check") /\ up' = up
  BY <1>2, <1>3, <1>4, <1>5, SentIsMade
<1>6. CASE MarkFailed(0) /\ mirror' = Dropped(0, {s}) /\ Shuts(0) /\ UNCHANGED <<pc, job, loc>>
  <2>1. mirror' \in [Rank -> [Sessions -> Mirrors]]
    BY <1>6, DroppedTyped, RankFacts DEF Types
  <2>2. failed' \in [Rank -> BOOLEAN] /\ failed'[0]
    BY <1>6, RankFacts DEF MarkFailed, Types
  <2>3. up' \in [Rank -> BOOLEAN] /\ up'[1] = up[1]
    BY <1>6, RankFacts DEF Shuts, Types
  <2>4. Queues(chan')
    BY <1>6, Emptied, RankFacts DEF Shuts, Types
  <2> QED BY <1>2, <1>3, <1>4, <1>6, <2>1, <2>2, <2>3, <2>4 DEF CallMade
<1> QED BY <1>3, <1>5, <1>6


-----------------------------------------------------------------------------
(* What the views say.                                                     *)

LEMMA ViewFacts ==
  ASSUME NEW sp \in BOOLEAN, NEW p \in Pcs, NEW j \in Jobs, NEW l \in Locals,
         NEW V, V = ViewOf(sp, p, j, l)
  PROVE  /\ V \in Views
         /\ V.ack <=> Unacknowledged(p, j)
         /\ V.due = Outstanding(sp, p, j, l)
         /\ V.block <=> Undecided(p, j, l)
         /\ V.cycle <=> InCycle(p, j)
         /\ InCycle(p, j) => V.sent = Sent(p, l) /\ V.heard = Heard(p, l)
         /\ ~InCycle(p, j) => V.sent = 0 /\ V.heard = 0
         /\ ~AtRest(V) => V.job = j
         /\ AtRest(V) => V.job = Job
<1> DEFINE a == Unacknowledged(p, j)
           o == Outstanding(sp, p, j, l)
           b == Undecided(p, j, l)
           c == InCycle(p, j)
           st == Sent(p, l)
           h == Heard(p, l)
<1>1. a \in BOOLEAN /\ b \in BOOLEAN /\ c \in BOOLEAN
  BY DEF Unacknowledged, Undecided, InCycle
<1>2. o \in Nat
  <2>1. LogitsOf(sp, j) \in Nat /\ One(sp) \in Nat
    BY MembersCounted DEF LogitsOf, One
  <2>2. l.want \in Nat
    BY DEF Locals
  <2> QED BY <2>1, <2>2 DEF Outstanding
<1>3. st \in 0 .. 4 /\ h \in 0 .. 4
  <2>1. Nth(l.phase) \in 1 .. 4
    BY DEF Nth
  <2> QED BY <2>1 DEF Sent, Heard
<1>4. V = View(a, o, b, c, st, h, j)
  BY DEF ViewOf
<1> HIDE DEF a, o, b, c, st, h
<1>5. V = [ack |-> a, due |-> o, block |-> b, cycle |-> c,
           sent |-> IF c THEN st ELSE 0, heard |-> IF c THEN h ELSE 0,
           job |-> IF a \/ o # 0 \/ b \/ c THEN j ELSE Job]
  BY <1>4 DEF View
<1>6. /\ V.ack = a /\ V.due = o /\ V.block = b /\ V.cycle = c
      /\ V.sent = (IF c THEN st ELSE 0) /\ V.heard = (IF c THEN h ELSE 0)
      /\ V.job = IF a \/ o # 0 \/ b \/ c THEN j ELSE Job
  BY <1>5
<1>7. V \in Views
  <2>1. (IF c THEN st ELSE 0) \in 0 .. 4 /\ (IF c THEN h ELSE 0) \in 0 .. 4
    BY <1>3
  <2>2. (IF a \/ o # 0 \/ b \/ c THEN j ELSE Job) \in Jobs
    BY JobTyped
  <2> QED BY <1>1, <1>2, <1>5, <2>1, <2>2 DEF Views
<1>8. AtRest(V) <=> ~(a \/ o # 0 \/ b \/ c)
  BY <1>6 DEF AtRest
<1>9. (~AtRest(V) => V.job = j) /\ (AtRest(V) => V.job = Job)
  BY <1>6, <1>8
<1> QED BY <1>6, <1>7, <1>9 DEF a, o, b, c, st, h

(* Every rank that owes and expects nothing has the same view.             *)
LEMMA RestEqual ==
  ASSUME NEW V \in Views, NEW U \in Views, AtRest(V), AtRest(U),
         V.sent = 0, V.heard = 0, U.sent = 0, U.heard = 0, V.job = Job, U.job = Job
  PROVE  U = V
BY DEF Views, AtRest

(* Where a command begins.                                                 *)
LEMMA StartView ==
  ASSUME NEW sp \in BOOLEAN, NEW j \in Jobs, j.op # "none", NEW l \in Locals, l.phase = 0,
         NEW V, V = ViewOf(sp, FirstStop(j.op), j, l)
  PROVE  /\ V \in Views /\ (V.ack <=> j.op \in AckOps) /\ V.due = LogitsFor(sp, Frame(j))
         /\ (V.block <=> j.op = "verify") /\ (V.cycle <=> j.op = "native")
         /\ V.sent = 0 /\ V.heard = 0
         /\ (~AtRest(V) => V.job = j) /\ (AtRest(V) => V.job = Job)
<1> DEFINE p == FirstStop(j.op)
<1>1. /\ p \in Pcs /\ (j.op \in {"create", "destroy"} => p = "ack")
      /\ (j.op = "native" => p = "check")
      /\ (j.op \notin {"create", "destroy", "native"} => p = "run")
  BY DEF FirstStop, Pcs
<1>2. V = ViewOf(sp, p, j, l)
  OBVIOUS
<1> HIDE DEF p
<1>3. /\ V \in Views
      /\ V.ack <=> Unacknowledged(p, j)
      /\ V.due = Outstanding(sp, p, j, l)
      /\ V.block <=> Undecided(p, j, l)
      /\ V.cycle <=> InCycle(p, j)
      /\ InCycle(p, j) => V.sent = Sent(p, l) /\ V.heard = Heard(p, l)
      /\ ~InCycle(p, j) => V.sent = 0 /\ V.heard = 0
      /\ ~AtRest(V) => V.job = j
      /\ AtRest(V) => V.job = Job
  BY <1>1, <1>2, ViewFacts
<1>4. V.ack <=> j.op \in AckOps
  BY <1>1, <1>3 DEF Unacknowledged, Halfway, AckOps
<1>5. V.block <=> j.op = "verify"
  BY <1>1, <1>3 DEF Undecided, Halfway
<1>6. V.cycle <=> j.op = "native"
  BY <1>1, <1>3 DEF InCycle, Halfway
<1>7. V.sent = 0 /\ V.heard = 0
  <2>1. InCycle(p, j) => p = "check"
    BY <1>1 DEF InCycle
  <2> QED BY <1>3, <2>1 DEF Sent, Heard
<1>8. V.due = LogitsFor(sp, Frame(j))
  <2>1. \A ops : IsCmd(Frame(j), ops) <=> j.op \in ops
    BY DEF IsCmd, Frame
  <2>2. Frame(j).t = "cmd" /\ Frame(j).j = j
    BY DEF Frame
  <2>3. CASE j.op \in {"create", "destroy"}
    BY <1>1, <1>3, <2>1, <2>2, <2>3 DEF Outstanding, Unacknowledged, AckOps, LogitsFor
  <2>4. CASE j.op \in {"sync", "batch"}
    BY <1>1, <1>3, <2>1, <2>2, <2>4 DEF Outstanding, Unacknowledged, AckOps, Halfway, LogitsFor, LogitsOf
  <2>5. CASE j.op = "eval"
    BY <1>1, <1>3, <2>1, <2>2, <2>5 DEF Outstanding, Unacknowledged, Evaluating, AckOps, Halfway, LogitsFor, One
  <2>6. CASE j.op \notin {"create", "destroy", "sync", "batch", "eval"}
    <3>1. LogitsFor(sp, Frame(j)) = 0
      BY <2>1, <2>2, <2>6 DEF LogitsFor
    <3>2. p \notin {"logits", "reply"} /\ ~Unacknowledged(p, j) /\ ~Replaying(p, j, l) /\ ~Evaluating(p, j)
      BY <1>1, <2>6 DEF Unacknowledged, Replaying, Evaluating, AckOps
    <3> QED BY <1>3, <3>1, <3>2 DEF Outstanding
  <2> QED BY <2>3, <2>4, <2>5, <2>6
<1> QED BY <1>3, <1>4, <1>5, <1>6, <1>7, <1>8


LEMMA NothingLeft ==
  ASSUME NEW sp \in BOOLEAN, NEW n \in Nat, NEW L \in Views, NEW W \in Views,
         NEW c0 \in Seq(Answers), NEW c1 \in Seq(Orders), NEW on \in BOOLEAN,
         Framed(sp, n, L, W, on, c0, c1), ~L.ack, L.due = 0, ~L.cycle
  PROVE  c0 = <<>>
<1>1. ToLeader(n, L, c0)
  BY DEF Framed
<1>2. Len(c0) <= 0
  BY <1>1 DEF ToLeader
<1> QED BY <1>2

(* Time passes for a leader at rest.                                       *)
LEMMA Idles ==
  ASSUME NEW sp \in BOOLEAN, NEW n \in Nat, NEW m \in Nat, n <= m, NEW L \in Views, NEW W \in Views,
         NEW c0 \in Seq(Answers), NEW c1 \in Seq(Orders), NEW on \in BOOLEAN,
         Framed(sp, n, L, W, on, c0, c1), AtRest(L)
  PROVE  Framed(sp, m, L, W, on, c0, c1)
<1>1. c0 = <<>>
  BY NothingLeft DEF AtRest
<1>2. ToLeader(m, L, c0)
  BY <1>1, NothingOnItsWay DEF AtRest
<1>3. on => Old(m, W, c1)
  <2> SUFFICES ASSUME on PROVE Old(m, W, c1)
    OBVIOUS
  <2>1. Old(n, W, c1)
    BY DEF Framed
  <2>2. W.job.c <= m
    <3>1. W.job.c <= n /\ W.job.c \in Nat
      BY <2>1 DEF Old, Views, Jobs, JobRecords
    <3> QED BY <3>1
  <2>3. ASSUME NEW i \in DOMAIN c1, c1[i].t = "cmd" /\ c1[i].j.op # "stop" PROVE c1[i].j.c <= m
    <3>1. c1[i].j.c <= n
      BY <2>1, <2>3 DEF Old
    <3>2. c1[i].j.c \in Nat
      <4>1. c1[i] \in Orders
        OBVIOUS
      <4> QED BY <2>3, <4>1 DEF Orders, CmdFrames, CommitFrames, AgreeFrames, Jobs, JobRecords
    <3> QED BY <3>1, <3>2
  <2> QED BY <2>2, <2>3 DEF Old
<1> QED BY <1>2, <1>3 DEF Framed

(* Nobody reads what the leader sends once the worker is gone.             *)
LEMMA Unread ==
  ASSUME NEW sp \in BOOLEAN, NEW n \in Nat, NEW m \in Nat, NEW L \in Views, NEW M \in Views,
         NEW W \in Views, NEW V \in Views,
         NEW c0 \in Seq(Answers), NEW c1 \in Seq(Orders),
         Framed(sp, n, L, W, FALSE, c0, c1), ~L.ack, L.due = 0, ~L.cycle,
         ~AtRest(M) => M.job.c = m,
         M.ack => ~M.cycle /\ ~M.block, M.due # 0 => ~M.cycle /\ ~M.block,
         M.cycle => ~M.block /\ M.heard <= 3 /\ M.heard <= M.sent /\ M.sent <= M.heard + 1
  PROVE  Framed(sp, m, M, V, FALSE, c0, c1)
<1>1. c0 = <<>>
  BY NothingLeft
<1>2. ToLeader(m, M, c0)
  BY <1>1, NothingOnItsWay
<1> QED BY <1>2 DEF Framed

LEMMA LeaderAtRest ==
  ASSUME Types, LeaderControl, pc[0] \in {"idle", "stopped"}
  PROVE  job[0].op = "none" /\ loc[0] = Loc /\ AtRest(LeaderView)
<1>1. job[0].op = "none" /\ loc[0] = Loc
  <2>1. job[0] \in Jobs
    BY RankFacts DEF Types
  <2>2. job[0].op \in Ops
    BY <2>1 DEF Jobs, JobRecords
  <2>3. job[0].op = "none"
    BY <2>2 DEF LeaderControl, Ops, AckOps, Halfway
  <2> QED BY <2>3 DEF LeaderControl
<1>2. LeaderView = ViewOf(mode.split, pc[0], job[0], loc[0])
  BY DEF LeaderView
<1>3. ~Unacknowledged(pc[0], job[0]) /\ ~Undecided(pc[0], job[0], loc[0]) /\ ~InCycle(pc[0], job[0])
  BY <1>1 DEF Unacknowledged, Undecided, InCycle, AckOps
<1>4. Outstanding(mode.split, pc[0], job[0], loc[0]) = 0
  BY <1>1, <1>3 DEF Outstanding, Replaying, Evaluating
<1>5. mode.split \in BOOLEAN /\ pc[0] \in Pcs /\ job[0] \in Jobs /\ loc[0] \in Locals
  BY RankFacts DEF Types
<1> QED BY <1>1, <1>2, <1>3, <1>4, <1>5, ViewFacts DEF AtRest

LEMMA ViewsTyped == Types => LeaderView \in Views /\ WorkerView \in Views
<1> SUFFICES ASSUME Types PROVE LeaderView \in Views /\ WorkerView \in Views
  OBVIOUS
<1>1. /\ mode.split \in BOOLEAN /\ pc[0] \in Pcs /\ job[0] \in Jobs /\ loc[0] \in Locals
      /\ pc[1] \in Pcs /\ job[1] \in Jobs /\ loc[1] \in Locals
  BY RankFacts DEF Types
<1>2. LeaderView \in Views
  BY <1>1, ViewFacts DEF LeaderView
<1>3. WorkerView \in Views
  BY <1>1, ViewFacts DEF WorkerView
<1> QED BY <1>2, <1>3

(* A call keeps the types and the control of both ranks.                   *)
LEMMA CallControl ==
  ASSUME Types, Control, NEW j, CallMade(j)
  PROVE  Types' /\ Control'
<1>1. CASE Sends(j, FirstStop(j.op)) /\ up' = up
  <2>1. FirstStop(j.op) \in Pcs /\ j \in Jobs /\ j.op \notin {"none", "stop", "invalidate"}
    BY DEF FirstStop, Pcs, CallMade
  <2>2. /\ mirror' = mirror /\ failed' = failed
        /\ pc' \in [Rank -> Pcs] /\ job' \in [Rank -> Jobs] /\ loc' \in [Rank -> Locals]
        /\ Queues(chan')
    BY <1>1, <2>1, SendsTyped
  <2>3. Types'
    BY <1>1, <2>2 DEF CallMade, Types
  <2>4. loc[0].phase = 0 /\ loc[0].ok
    BY LeaderAtRest DEF CallMade, Control, Loc
  <2>5. /\ pc'[0] = FirstStop(j.op) /\ job'[0].op = j.op /\ job'[0].c = calls'
        /\ loc'[0].phase = 0 /\ loc'[0].ok /\ pc'[1] = pc[1] /\ job'[1] = job[1] /\ loc'[1] = loc[1]
    <3>1. job' = [job EXCEPT ![0] = [j EXCEPT !.c = calls + 1]]
      BY <1>1 DEF Sends
    <3>2. [j EXCEPT !.c = calls + 1].op = j.op /\ [j EXCEPT !.c = calls + 1].c = calls + 1
      BY <2>1, CountedJob DEF Types
    <3>3. job'[0].op = j.op /\ job'[0].c = calls' /\ job'[1] = job[1]
      BY <3>1, <3>2, RankFacts DEF Types, CallMade
    <3>4. pc'[0] = FirstStop(j.op) /\ pc'[1] = pc[1]
      BY <1>1, RankFacts DEF Sends, Goto, Types
    <3>5. loc'[0].phase = loc[0].phase /\ loc'[0].ok = loc[0].ok /\ loc'[1] = loc[1]
      BY <1>1, RankFacts DEF Sends, Types, Locals
    <3> QED BY <2>4, <3>3, <3>4, <3>5
  <2>6. j.op \in Ops
    BY <2>1 DEF Jobs, JobRecords
  <2>7. up'[0]
    BY <1>1 DEF Sends, WriteOk
  <2>8. LeaderControl'
    BY <2>1, <2>5, <2>6, <2>7 DEF LeaderControl, FirstStop, Halfway
  <2>9. WorkerControl'
    BY <1>1, <2>5 DEF Control, WorkerControl
  <2> QED BY <2>3, <2>8, <2>9 DEF Control
<1>2. CASE UNCHANGED <<pc, job, loc>> /\ (failed'[0] \/ UNCHANGED <<chan, up, failed>>)
  <2>1. Types'
    BY <1>2 DEF CallMade, Types
  <2>2. job[0].op = "none" /\ loc[0] = Loc /\ pc[0] = "idle"
    BY LeaderAtRest DEF CallMade, Control
  <2>3. ~up'[0] => failed'[0]
    BY <1>2 DEF Control, LeaderControl
  <2>4. LeaderControl'
    BY <1>2, <2>2, <2>3 DEF LeaderControl
  <2>5. up'[1] = up[1]
    BY DEF CallMade
  <2>6. WorkerControl'
    BY <1>2, <2>5 DEF Control, WorkerControl
  <2> QED BY <2>1, <2>4, <2>6 DEF Control
<1> QED BY <1>1, <1>2 DEF CallMade


(* What a calm state says of the two queues.                               *)
LEMMA CalmFacts ==
  ASSUME Types, Control, StreamInv, Calm
  PROVE  /\ Framed(mode.split, calls, LeaderView, WorkerView, up[1], chan[0], chan[1])
         /\ up[0] /\ up \in [Rank -> BOOLEAN] /\ up[1] \in BOOLEAN
         /\ mode.split \in BOOLEAN /\ calls \in Nat
         /\ chan[0] \in Seq(Answers) /\ chan[1] \in Seq(Orders) /\ Queues(chan)
         /\ LeaderView \in Views /\ WorkerView \in Views
<1>1. up[0]
  BY RankFacts DEF Calm, Control, LeaderControl
<1>2. up \in [Rank -> BOOLEAN] /\ up[1] \in BOOLEAN /\ mode.split \in BOOLEAN /\ calls \in Nat
  BY RankFacts DEF Types
<1>3. chan[0] \in Seq(Answers) /\ chan[1] \in Seq(Orders) /\ Queues(chan)
  BY DEF Types, Queues
<1> QED BY <1>1, <1>2, <1>3, ViewsTyped DEF StreamInv

(* The same with names for what the actions change: now and after.         *)
Now(sp, on, n, L, W, c0, c1, d0, d1) ==
  /\ sp = mode.split /\ on = up[1] /\ n = calls /\ L = LeaderView /\ W = WorkerView
  /\ c0 = chan[0] /\ c1 = chan[1] /\ d0 = chan'[0] /\ d1 = chan'[1]
LEMMA CalmNow ==
  ASSUME Types, Control, StreamInv, Calm, Queues(chan')
  PROVE  \E sp \in BOOLEAN, on \in BOOLEAN, n \in Nat, L \in Views, W \in Views,
            c0 \in Seq(Answers), c1 \in Seq(Orders), d0 \in Seq(Answers), d1 \in Seq(Orders) :
           Now(sp, on, n, L, W, c0, c1, d0, d1) /\ Framed(sp, n, L, W, on, c0, c1)
<1>1. chan'[0] \in Seq(Answers) /\ chan'[1] \in Seq(Orders)
  BY DEF Queues
<1> QED BY <1>1, CalmFacts DEF Now

LEMMA CallStream ==
  ASSUME Types, Control, StreamInv, NEW j, CallMade(j), Types', Control'
  PROVE  StreamInv'
<1> SUFFICES ASSUME Calm'
             PROVE  /\ Framed(mode'.split, calls', LeaderView', WorkerView', up'[1], chan'[0], chan'[1])
                    /\ pc'[0] = "drop" => ~up'[1]
  BY DEF StreamInv
<1>1. ~failed'[0] /\ ~failed'[1]
  BY RankFacts DEF Calm
<1>2. Calm /\ mode' = mode /\ calls' = calls + 1 /\ up'[1] = up[1]
  <2>1. failed' = failed
    BY <1>1 DEF CallMade, Sends
  <2> QED BY <2>1, <1>1, RankFacts DEF Calm, CallMade
<1>3. /\ Framed(mode.split, calls, LeaderView, WorkerView, up[1], chan[0], chan[1])
      /\ up[0] /\ up \in [Rank -> BOOLEAN] /\ up[1] \in BOOLEAN
      /\ mode.split \in BOOLEAN /\ calls \in Nat
      /\ chan[0] \in Seq(Answers) /\ chan[1] \in Seq(Orders) /\ Queues(chan)
      /\ LeaderView \in Views /\ WorkerView \in Views
  BY <1>2, CalmFacts
<1>4. job[0].op = "none" /\ loc[0] = Loc /\ AtRest(LeaderView)
  BY LeaderAtRest DEF CallMade, Control
<1>5. calls' \in Nat /\ calls <= calls' /\ calls < calls'
  BY <1>2, <1>3
<1>6. CASE UNCHANGED <<pc, job, loc, chan, up>>
  <2>1. LeaderView' = LeaderView /\ WorkerView' = WorkerView
    BY <1>2, <1>6 DEF LeaderView, WorkerView
  <2>2. Framed(mode.split, calls', LeaderView, WorkerView, up[1], chan[0], chan[1])
    BY <1>3, <1>4, <1>5, Idles
  <2> QED BY <1>2, <1>6, <2>1, <2>2 DEF CallMade
<1>7. CASE Sends(j, FirstStop(j.op))
  <2> DEFINE k == [j EXCEPT !.c = calls + 1]
             M == LeaderView'
  <2>1. j \in Jobs /\ j.op \notin {"none", "stop", "invalidate"} /\ k \in Jobs /\ k.op = j.op /\ k.c = calls'
    BY <1>2, <1>3, CountedJob DEF CallMade
  <2>2. Cmd(j) = Frame(k) /\ Frame(k) \in Orders
    <3>1. Cmd(j) = Frame(k)
      BY DEF Cmd, Frame
    <3> HIDE DEF k
    <3>2. Frame(k) \in Orders
      BY <2>1 DEF Frame, Orders, CmdFrames
    <3> QED BY <3>1, <3>2
  <2>3. job' = [job EXCEPT ![0] = k]
    BY <1>7 DEF Sends
  <2> HIDE DEF k
  <2>4. job'[0] = k /\ job'[1] = job[1]
    BY <2>3, RankFacts DEF Types
  <2>5. pc'[0] = FirstStop(k.op) /\ pc'[1] = pc[1]
    BY <1>7, <2>1, RankFacts DEF Sends, Goto, Types
  <2>6. loc'[0] \in Locals /\ loc'[0].phase = 0 /\ loc'[1] = loc[1]
    <3>1. loc'[0] \in Locals
      BY RankFacts DEF Types
    <3>2. loc'[0].phase = loc[0].phase /\ loc'[1] = loc[1]
      BY <1>7, RankFacts DEF Sends, Types, Locals
    <3> QED BY <1>4, <3>1, <3>2 DEF Loc
  <2>7. M = ViewOf(mode.split, FirstStop(k.op), k, loc'[0])
    BY <1>2, <2>4, <2>5 DEF LeaderView
  <2>8. WorkerView' = WorkerView
    BY <1>2, <2>4, <2>5, <2>6 DEF WorkerView
  <2> HIDE DEF M
  <2>9. /\ M \in Views /\ (M.ack <=> k.op \in AckOps) /\ M.due = LogitsFor(mode.split, Frame(k))
        /\ (M.block <=> k.op = "verify") /\ (M.cycle <=> k.op = "native")
        /\ M.sent = 0 /\ M.heard = 0
        /\ (~AtRest(M) => M.job = k) /\ (AtRest(M) => M.job = Job)
    BY <1>3, <2>1, <2>6, <2>7, StartView
  <2>10. chan' = Put(chan, 0, <<Frame(k)>>)
    BY <1>7, <2>2 DEF Sends, Write
  <2>11. chan'[0] = chan[0] /\ chan'[1] = IF up[1] THEN Append(chan[1], Frame(k)) ELSE chan[1]
    BY <1>3, <2>2, <2>10, Ordered1
  <2>12. CASE up[1]
    <3>1. chan'[1] = Append(chan[1], Frame(k)) /\ up[1] = TRUE
      BY <1>3, <2>11, <2>12
    <3>2. Framed(mode.split, calls, LeaderView, WorkerView, TRUE, chan[0], chan[1])
      BY <1>3, <3>1
    <3>3. ~AtRest(M) => M.job = k /\ k.c = calls' /\ calls < calls'
      BY <1>5, <2>1, <2>9
    <3>4. k.c <= calls'
      BY <1>5, <2>1
    <3>5. k.op # "none" /\ (k.op # "stop" => k.c <= calls') /\ calls <= calls'
      BY <1>5, <2>1, <3>4
    <3>6. /\ (M.ack <=> k.op \in AckOps) /\ M.due = LogitsFor(mode.split, Frame(k))
          /\ (M.block <=> k.op = "verify") /\ (M.cycle <=> k.op = "native")
          /\ M.sent = 0 /\ M.heard = 0
      BY <2>9
    <3>7. /\ mode.split \in BOOLEAN /\ calls \in Nat /\ calls' \in Nat /\ k \in Jobs /\ M \in Views
          /\ LeaderView \in Views /\ WorkerView \in Views /\ chan[0] \in Seq(Answers) /\ chan[1] \in Seq(Orders)
      BY <1>3, <1>5, <2>1, <2>9
    <3>8. Framed(mode.split, calls', M, WorkerView, TRUE, chan[0], chan'[1])
      BY <1>4, <3>1, <3>2, <3>3, <3>5, <3>6, <3>7, Announced
    <3> QED BY <1>2, <2>5, <2>8, <2>11, <3>1, <3>8 DEF M, FirstStop
  <2>13. CASE ~up[1]
    <3>1. chan'[1] = chan[1] /\ up[1] = FALSE
      BY <1>3, <2>11, <2>13
    <3>2. M.ack => ~M.cycle /\ ~M.block
      BY <2>9 DEF AckOps
    <3>3. M.due # 0 => ~M.cycle /\ ~M.block
      <4>1. M.due # 0 => IsCmd(Frame(k), {"sync", "batch", "eval"})
        BY <2>9 DEF LogitsFor, IsCmd, Frame
      <4>2. IsCmd(Frame(k), {"sync", "batch", "eval"}) => k.op \in {"sync", "batch", "eval"}
        BY DEF IsCmd, Frame
      <4> QED BY <2>9, <4>1, <4>2
    <3>4. M.cycle => ~M.block /\ M.heard <= 3 /\ M.heard <= M.sent /\ M.sent <= M.heard + 1
      BY <2>9
    <3>5. ~AtRest(M) => M.job.c = calls'
      BY <2>1, <2>9
    <3>6. Framed(mode.split, calls, LeaderView, WorkerView, FALSE, chan[0], chan[1])
      BY <1>3, <3>1
    <3>7. Framed(mode.split, calls', M, WorkerView, FALSE, chan[0], chan[1])
      BY <1>3, <1>4, <1>5, <2>9, <3>2, <3>3, <3>4, <3>5, <3>6, Unread DEF AtRest
    <3> QED BY <1>2, <2>5, <2>8, <2>11, <3>1, <3>7 DEF M, FirstStop
  <2> QED BY <2>12, <2>13
<1> QED BY <1>1, <1>6, <1>7 DEF CallMade


-----------------------------------------------------------------------------
(* A step of one rank, after which it is at p in command j with locals l.  *)
Stepped(r, p, j, l) ==
  /\ p \in Pcs /\ j \in Jobs /\ l \in Locals
  /\ pc' = [pc EXCEPT ![r] = p] /\ job' = [job EXCEPT ![r] = j] /\ loc' = [loc EXCEPT ![r] = l]
  /\ UNCHANGED <<mode, calls, created>>
  /\ mirror' \in [Rank -> [Sessions -> Mirrors]] /\ Queues(chan')
  /\ up' \in [Rank -> BOOLEAN] /\ failed' \in [Rank -> BOOLEAN]
  /\ up'[Peer(r)] = up[Peer(r)] /\ failed'[Peer(r)] = failed[Peer(r)]
  /\ failed[r] => failed'[r]

LeaderAt(p, j, l, n, bad) ==
  /\ j.op = "none" => p \in {"idle", "stopped"} /\ l = Loc
  /\ j.op \in {"create", "destroy"} =>
       p \in {"ack", "logits"} /\ (p = "logits" => l.want = 0)
  /\ j.op \in {"sync", "batch"} => p \in Halfway \cup {"ack", "logits", "drop"}
  /\ j.op = "eval" => p \in Halfway \cup {"logits", "drop"}
  /\ j.op = "verify" =>
       /\ p \in Halfway \cup {"replay", "logits"}
       /\ p = "run" => l.phase = 0
       /\ p \in {"replay", "logits"} => l.phase # 0
  /\ j.op = "native" =>
       /\ p \in Halfway \cup {"check", "hear", "drop"}
       /\ p \in Halfway => l.phase # 9
       /\ p = "drop" => bad
  /\ j.op \in {"create", "destroy", "verify"} => l.ok
  /\ j.op \notin {"invalidate", "stop"}
  /\ j.op # "none" => j.c = n
  /\ p = "lost" => \/ bad \/ j.op \in {"sync", "eval", "native"}
                   \/ j.op = "verify" /\ l.phase = 0
WorkerAt(p, j, l) ==
  /\ j.op = "none" => p \in {"loop", "gone"} /\ l = Loc
  /\ j.op \in {"sync", "batch", "eval"} => p \in Halfway \cup {"reply"}
  /\ j.op = "verify" =>
       /\ p \in Halfway \cup {"replay", "reply", "commit"}
       /\ p \in {"run", "commit"} => l.phase = 0
       /\ p \in {"replay", "reply"} => l.phase # 0
  /\ j.op = "native" =>
       /\ p \in Halfway \cup {"check", "hear"}
       /\ p \in Halfway => l.phase # 9
  /\ j.op \notin {"create", "destroy", "invalidate", "stop"}

(* The other rank is where it was.                                         *)
LEMMA SteppedAlone ==
  ASSUME Types, NEW r \in Rank, NEW p, NEW j, NEW l, Stepped(r, p, j, l)
  PROVE  /\ Types' /\ pc'[r] = p /\ job'[r] = j /\ loc'[r] = l
         /\ pc'[Peer(r)] = pc[Peer(r)] /\ job'[Peer(r)] = job[Peer(r)]
         /\ loc'[Peer(r)] = loc[Peer(r)]
         /\ mode' = mode /\ calls' = calls
         /\ up'[Peer(r)] = up[Peer(r)] /\ failed'[Peer(r)] = failed[Peer(r)]
<1>1. r \in {0, 1} /\ Rank = {0, 1} /\ Peer(0) = 1 /\ Peer(1) = 0 /\ Peer(r) \in Rank /\ Peer(r) # r
  BY DEF Rank, Peer
<1>2. /\ DOMAIN pc = Rank /\ DOMAIN job = Rank /\ DOMAIN loc = Rank
  BY DEF Types
<1>3. pc'[r] = p /\ pc'[Peer(r)] = pc[Peer(r)] /\ pc' \in [Rank -> Pcs]
  BY <1>1, <1>2 DEF Stepped, Types
<1>4. job'[r] = j /\ job'[Peer(r)] = job[Peer(r)] /\ job' \in [Rank -> Jobs]
  BY <1>1, <1>2 DEF Stepped, Types
<1>5. loc'[r] = l /\ loc'[Peer(r)] = loc[Peer(r)] /\ loc' \in [Rank -> Locals]
  BY <1>1, <1>2 DEF Stepped, Types
<1>6. Types'
  BY <1>3, <1>4, <1>5 DEF Stepped, Types
<1> QED BY <1>3, <1>4, <1>5, <1>6 DEF Stepped

LEMMA LeaderStepped ==
  ASSUME Types, Control, StreamInv, NEW p, NEW j, NEW l, Stepped(0, p, j, l),
         LeaderAt(p, j, l, calls, failed'[0]), up'[0] \/ failed'[0]
  PROVE  /\ Types' /\ Control'
         /\ LeaderView' = ViewOf(mode.split, p, j, l) /\ WorkerView' = WorkerView
         /\ pc'[0] = p /\ mode' = mode /\ calls' = calls /\ up'[1] = up[1]
         /\ Calm' => Calm
<1>1. /\ Types' /\ pc'[0] = p /\ job'[0] = j /\ loc'[0] = l
      /\ pc'[1] = pc[1] /\ job'[1] = job[1] /\ loc'[1] = loc[1]
      /\ mode' = mode /\ calls' = calls /\ up'[1] = up[1] /\ failed'[1] = failed[1]
  BY SteppedAlone, RankFacts
<1>2. LeaderControl'
  BY <1>1 DEF LeaderControl, LeaderAt
<1>3. WorkerControl'
  BY <1>1 DEF WorkerControl, Control
<1>4. LeaderView' = ViewOf(mode.split, p, j, l)
  BY <1>1 DEF LeaderView
<1>5. WorkerView' = WorkerView
  BY <1>1 DEF WorkerView
<1>6. failed[0] => failed'[0]
  BY DEF Stepped
<1>7. Calm' => Calm
  BY <1>1, <1>6, RankFacts DEF Calm
<1> QED BY <1>1, <1>2, <1>3, <1>4, <1>5, <1>7 DEF Control

LEMMA WorkerStepped ==
  ASSUME Types, Control, StreamInv, NEW p, NEW j, NEW l, Stepped(1, p, j, l),
         WorkerAt(p, j, l), up'[1] <=> p # "gone"
  PROVE  /\ Types' /\ Control'
         /\ WorkerView' = ViewOf(mode.split, p, j, l) /\ LeaderView' = LeaderView
         /\ pc'[0] = pc[0] /\ mode' = mode /\ calls' = calls
         /\ Calm' => Calm
<1>1. /\ Types' /\ pc'[1] = p /\ job'[1] = j /\ loc'[1] = l
      /\ pc'[0] = pc[0] /\ job'[0] = job[0] /\ loc'[0] = loc[0]
      /\ mode' = mode /\ calls' = calls /\ up'[0] = up[0] /\ failed'[0] = failed[0]
  BY SteppedAlone, RankFacts
<1>2. LeaderControl'
  BY <1>1 DEF LeaderControl, Control
<1>3. WorkerControl'
  BY <1>1 DEF WorkerControl, WorkerAt
<1>4. WorkerView' = ViewOf(mode.split, p, j, l)
  BY <1>1 DEF WorkerView
<1>5. LeaderView' = LeaderView
  BY <1>1 DEF LeaderView
<1>6. failed[1] => failed'[1]
  BY DEF Stepped
<1>7. Calm' => Calm
  BY <1>1, <1>6, RankFacts DEF Calm
<1> QED BY <1>1, <1>2, <1>3, <1>4, <1>5, <1>7 DEF Control

(* A leader that fails, or whose view and queues stay.                     *)
LEMMA LeaderFails ==
  ASSUME Types, Control, StreamInv, NEW p, NEW j, NEW l, Stepped(0, p, j, l),
         LeaderAt(p, j, l, calls, failed'[0]), failed'[0]
  PROVE  Types' /\ Control' /\ StreamInv'
<1>1. Types' /\ Control'
  BY LeaderStepped
<1>2. ~Calm'
  BY RankFacts DEF Calm
<1> QED BY <1>1, <1>2 DEF StreamInv

LEMMA WorkerBreaks ==
  ASSUME Types, Control, StreamInv, NEW p, NEW j, NEW l, Stepped(1, p, j, l),
         WorkerAt(p, j, l), up'[1] <=> p # "gone", failed'[1]
  PROVE  Types' /\ Control' /\ StreamInv'
<1>1. Types' /\ Control'
  BY WorkerStepped
<1>2. ~Calm'
  BY RankFacts DEF Calm
<1> QED BY <1>1, <1>2 DEF StreamInv

LEMMA LeaderUnseen ==
  ASSUME Types, Control, StreamInv, NEW p, NEW j, NEW l, Stepped(0, p, j, l),
         LeaderAt(p, j, l, calls, failed'[0]), up' = up, chan' = chan,
         ViewOf(mode.split, p, j, l) = LeaderView, p = "drop" => ~up[1]
  PROVE  Types' /\ Control' /\ StreamInv'
<1>1. up[0] \/ failed'[0]
  <2>1. ~up[0] => failed[0]
    BY DEF Control, LeaderControl
  <2> QED BY <2>1 DEF Stepped
<1>2. /\ Types' /\ Control' /\ LeaderView' = LeaderView /\ WorkerView' = WorkerView
      /\ pc'[0] = p /\ mode' = mode /\ calls' = calls /\ (Calm' => Calm)
  BY <1>1, LeaderStepped
<1>3. Calm => Framed(mode.split, calls, LeaderView, WorkerView, up[1], chan[0], chan[1])
  BY DEF StreamInv
<1>4. StreamInv'
  BY <1>2, <1>3 DEF StreamInv
<1> QED BY <1>2, <1>4

LEMMA WorkerUnseen ==
  ASSUME Types, Control, StreamInv, NEW p, NEW j, NEW l, Stepped(1, p, j, l),
         WorkerAt(p, j, l), up' = up, chan' = chan, up[1] <=> p # "gone",
         ViewOf(mode.split, p, j, l) = WorkerView
  PROVE  Types' /\ Control' /\ StreamInv'
<1>1. /\ Types' /\ Control' /\ LeaderView' = LeaderView /\ WorkerView' = WorkerView
      /\ pc'[0] = pc[0] /\ mode' = mode /\ calls' = calls /\ (Calm' => Calm)
  BY WorkerStepped
<1>2. StreamInv'
  BY <1>1 DEF StreamInv
<1> QED BY <1>1, <1>2


-----------------------------------------------------------------------------
(* Graphs: nothing a view shows changes from the start of a half to its end.*)
LEMMA StandsStill ==
  ASSUME Types, NEW r \in Rank
  PROVE  /\ pc = [pc EXCEPT ![r] = pc[r]] /\ job = [job EXCEPT ![r] = job[r]]
         /\ loc = [loc EXCEPT ![r] = loc[r]]
         /\ pc[r] \in Pcs /\ job[r] \in Jobs /\ loc[r] \in Locals
BY DEF Types

LEMMA HalfwayView ==
  ASSUME NEW sp, NEW p \in Halfway \cup {"replay"}, NEW q \in Halfway, NEW j, NEW l,
         p = "replay" => j.op = "verify" /\ l.phase # 0
  PROVE  ViewOf(sp, p, j, l) = ViewOf(sp, q, j, l)
<1>1. Unacknowledged(p, j) <=> Unacknowledged(q, j)
  BY DEF Unacknowledged, AckOps
<1>2. Undecided(p, j, l) <=> Undecided(q, j, l)
  BY DEF Undecided
<1>3. InCycle(p, j) <=> InCycle(q, j)
  BY DEF InCycle
<1>4. Replaying(p, j, l) \/ Evaluating(p, j) <=> Replaying(q, j, l) \/ Evaluating(q, j)
  BY DEF Replaying, Evaluating
<1>5. p \notin {"logits", "reply"} /\ q \notin {"logits", "reply"}
  BY DEF Halfway
<1>6. Outstanding(sp, p, j, l) = Outstanding(sp, q, j, l)
  BY <1>1, <1>4, <1>5 DEF Outstanding
<1>7. Sent(p, l) = Sent(q, l) /\ Heard(p, l) = Heard(q, l)
  BY DEF Sent, Heard, Halfway
<1>8. /\ Unacknowledged(p, j) = Unacknowledged(q, j) /\ Undecided(p, j, l) = Undecided(q, j, l)
      /\ InCycle(p, j) = InCycle(q, j)
  BY <1>1, <1>2, <1>3 DEF Unacknowledged, Undecided, InCycle
<1> QED BY <1>6, <1>7, <1>8, ZenonT(60) DEF ViewOf

LEMMA LeaderGoes ==
  ASSUME Types, Control, StreamInv, pc[0] \in Halfway \cup {"replay"}, NEW p \in Halfway \ {"run"},
         Goto(0, p), UNCHANGED <<mode, job, loc, sock, calls, created>>,
         mirror' \in [Rank -> [Sessions -> Mirrors]], failed' = failed \/ MarkFailed(0),
         p = "lost" => \/ failed'[0] \/ job[0].op \in {"sync", "eval", "native"}
                       \/ job[0].op = "verify" /\ loc[0].phase = 0
  PROVE  Types' /\ Control' /\ StreamInv'
<1>1. /\ pc' = [pc EXCEPT ![0] = p] /\ job' = [job EXCEPT ![0] = job[0]]
      /\ loc' = [loc EXCEPT ![0] = loc[0]] /\ p \in Pcs /\ job[0] \in Jobs /\ loc[0] \in Locals
      /\ up' = up /\ chan' = chan
  BY StandsStill, RankFacts DEF Goto, Halfway, Pcs, sock
<1>2. Queues(chan') /\ up' \in [Rank -> BOOLEAN]
  BY <1>1 DEF Types
<1>3. failed' \in [Rank -> BOOLEAN] /\ failed'[1] = failed[1] /\ (failed[0] => failed'[0])
  <2>1. CASE failed' = failed
    BY <2>1 DEF Types
  <2>2. CASE MarkFailed(0)
    BY <2>2, RankFacts DEF Types, MarkFailed
  <2> QED BY <2>1, <2>2
<1>4. Stepped(0, p, job[0], loc[0])
  BY <1>1, <1>2, <1>3, RankFacts DEF Stepped
<1>5. LeaderAt(p, job[0], loc[0], calls, failed'[0])
  BY <1>3 DEF LeaderAt, Control, LeaderControl, Halfway
<1>6. pc[0] = "replay" => job[0].op = "verify" /\ loc[0].phase # 0
  BY <1>1 DEF Control, LeaderControl, Halfway, Jobs, JobRecords, Ops, AckOps
<1>7. ViewOf(mode.split, p, job[0], loc[0]) = LeaderView
  BY <1>6, HalfwayView DEF LeaderView
<1>8. p # "drop"
  BY DEF Halfway
<1> QED BY <1>1, <1>4, <1>5, <1>7, <1>8, LeaderUnseen

LEMMA WorkerGoes ==
  ASSUME Types, Control, StreamInv, pc[1] \in Halfway \cup {"replay"}, NEW p \in Halfway \ {"run"},
         Goto(1, p), UNCHANGED <<mode, job, loc, sock, calls, created>>,
         mirror' \in [Rank -> [Sessions -> Mirrors]], failed' = failed \/ MarkFailed(1)
  PROVE  Types' /\ Control' /\ StreamInv'
<1>1. /\ pc' = [pc EXCEPT ![1] = p] /\ job' = [job EXCEPT ![1] = job[1]]
      /\ loc' = [loc EXCEPT ![1] = loc[1]] /\ p \in Pcs /\ job[1] \in Jobs /\ loc[1] \in Locals
      /\ up' = up /\ chan' = chan
  BY StandsStill, RankFacts DEF Goto, Halfway, Pcs, sock
<1>2. Queues(chan') /\ up' \in [Rank -> BOOLEAN]
  BY <1>1 DEF Types
<1>3. failed' \in [Rank -> BOOLEAN] /\ failed'[0] = failed[0] /\ (failed[1] => failed'[1])
  <2>1. CASE failed' = failed
    BY <2>1 DEF Types
  <2>2. CASE MarkFailed(1)
    BY <2>2, RankFacts DEF Types, MarkFailed
  <2> QED BY <2>1, <2>2
<1>4. Stepped(1, p, job[1], loc[1])
  BY <1>1, <1>2, <1>3, RankFacts DEF Stepped
<1>5. WorkerAt(p, job[1], loc[1])
  BY DEF WorkerAt, Control, WorkerControl, Halfway
<1>6. pc[1] = "replay" => job[1].op = "verify" /\ loc[1].phase # 0
  BY <1>1 DEF Control, WorkerControl, Halfway, Jobs, JobRecords, Ops, AckOps
<1>7. ViewOf(mode.split, p, job[1], loc[1]) = WorkerView
  BY <1>6, HalfwayView DEF WorkerView
<1>8. p # "gone" /\ up[1]
  BY DEF Halfway, Control, WorkerControl
<1> QED BY <1>1, <1>4, <1>5, <1>7, <1>8, WorkerUnseen


LEMMA ComputedTyped ==
  ASSUME Types, Control, NEW r \in Rank, pc[r] = "graph"
  PROVE  Computed(r) \in [Rank -> [Sessions -> Mirrors]]
<1>1. /\ job[r] \in Jobs /\ loc[r] \in Locals /\ mirror \in [Rank -> [Sessions -> Mirrors]]
      /\ job[r].line \in Nat /\ job[r].n \in Nat /\ loc[r].acc \in Nat
  BY DEF Types, Jobs, JobRecords, Locals
<1>2. job[r].op \in {"sync", "eval", "batch", "verify", "native"}
  <2>1. job[r].op \in Ops
    BY <1>1 DEF Jobs, JobRecords
  <2>2. r = 0 \/ r = 1
    BY RankFacts
  <2> QED BY <2>1, <2>2 DEF Control, LeaderControl, WorkerControl, Ops, AckOps
<1>3. \A x \in Mirrors, n \in Int : Grown(x, n) \in Mirrors
  <2> SUFFICES ASSUME NEW x \in Mirrors, NEW n \in Int PROVE Grown(x, n) \in Mirrors
    OBVIOUS
  <2> DEFINE a == [x EXCEPT !.len = x.len + n]
             b == [a EXCEPT !.front = x.front + n]
  <2>1. a \in Mirrors /\ x.front \in Int
    BY DEF Mirrors
  <2>2. Grown(x, n) = b
    BY DEF Grown, Mirrors
  <2> HIDE DEF a
  <2>3. b \in Mirrors
    BY <2>1 DEF Mirrors
  <2> QED BY <2>2, <2>3
<1>4. \A x \in Mirrors : Prefilled(x, job[r]) \in Mirrors
  <2> SUFFICES ASSUME NEW x \in Mirrors PROVE Prefilled(x, job[r]) \in Mirrors
    OBVIOUS
  <2> DEFINE a == [x EXCEPT !.line = job[r].line]
             b == [a EXCEPT !.len = job[r].n]
             c == [b EXCEPT !.front = job[r].n]
             d == [c EXCEPT !.valid = TRUE]
  <2>1. Prefilled(x, job[r]) = d
    BY ZenonT(60) DEF Prefilled
  <2>2. a \in Mirrors
    BY <1>1 DEF Mirrors
  <2> HIDE DEF a
  <2>3. b \in Mirrors
    BY <1>1, <2>2 DEF Mirrors
  <2> HIDE DEF b
  <2>4. c \in Mirrors
    BY <1>1, <2>3 DEF Mirrors
  <2> HIDE DEF c
  <2>5. d \in Mirrors
    BY <2>4 DEF Mirrors
  <2> QED BY <2>1, <2>5
<1>5. \A x \in Mirrors, n \in Int : [x EXCEPT !.front = @ + n] \in Mirrors
  BY DEF Mirrors
<1> DEFINE j == job[r]
           new(s) == IF s \in j.items THEN Grown(mirror[r][s], 1)
                     ELSE IF s # j.s THEN mirror[r][s]
                     ELSE CASE j.op \in {"sync", "batch"} -> Prefilled(mirror[r][s], j)
                            [] j.op = "eval" -> Grown(mirror[r][s], 1)
                            [] j.op = "verify" ->
                                 Grown(mirror[r][s], IF loc[r].phase = 0 THEN j.n ELSE loc[r].acc)
                            [] j.op = "native" ->
                                 IF loc[r].phase = 8 THEN [mirror[r][s] EXCEPT !.front = @ + loc[r].acc]
                                 ELSE mirror[r][s]
           m == [s \in Sessions |-> new(s)]
<1>6. ASSUME NEW s \in Sessions PROVE new(s) \in Mirrors
  <2>1. mirror[r][s] \in Mirrors
    BY <1>1
  <2>2. /\ Grown(mirror[r][s], 1) \in Mirrors /\ Prefilled(mirror[r][s], j) \in Mirrors
        /\ Grown(mirror[r][s], IF loc[r].phase = 0 THEN j.n ELSE loc[r].acc) \in Mirrors
    BY <1>1, <1>3, <1>4, <2>1
  <2>3. [mirror[r][s] EXCEPT !.front = @ + loc[r].acc] \in Mirrors
    BY <1>1, <1>5, <2>1
  <2> QED BY <1>2, <2>1, <2>2, <2>3, ZenonT(60)
<1>7. Computed(r) = [mirror EXCEPT ![r] = m]
  BY DEF Computed
<1> HIDE DEF new
<1>8. m \in [Sessions -> Mirrors]
  BY <1>6
<1> HIDE DEF m
<1> QED BY <1>1, <1>7, <1>8

(* The four ways through a graph.                                          *)
LEMMA BeginInv ==
  ASSUME Types, Control, StreamInv, NEW r \in Rank, Begin(r)
  PROVE  Types' /\ Control' /\ StreamInv'
<1>1. \E p \in Halfway \ {"run"} : Goto(r, p) /\ (p = "lost" => failed[r])
  BY DEF Begin, Halfway
<1>2. PICK p \in Halfway \ {"run"} : Goto(r, p) /\ (p = "lost" => failed[r])
  BY <1>1
<1>3. /\ pc[r] \in Halfway \cup {"replay"} /\ UNCHANGED <<mode, mirror, job, loc, sock, failed, calls, created>>
      /\ mirror' \in [Rank -> [Sessions -> Mirrors]]
  BY DEF Begin, Halfway, Types
<1>4. CASE r = 0
  BY <1>2, <1>3, <1>4, LeaderGoes
<1>5. CASE r = 1
  BY <1>2, <1>3, <1>5, WorkerGoes
<1> QED BY <1>4, <1>5, RankFacts

LEMMA ComputesInv ==
  ASSUME Types, Control, StreamInv, NEW r \in Rank, Computes(r)
  PROVE  Types' /\ Control' /\ StreamInv'
<1>1. /\ pc[r] \in Halfway \cup {"replay"} /\ "done" \in Halfway \ {"run"} /\ Goto(r, "done")
      /\ UNCHANGED <<mode, job, loc, sock, failed, calls, created>>
  BY DEF Computes, Halfway
<1>2. mirror' \in [Rank -> [Sessions -> Mirrors]]
  BY ComputedTyped DEF Computes
<1>3. CASE r = 0
  BY <1>1, <1>2, <1>3, LeaderGoes
<1>4. CASE r = 1
  BY <1>1, <1>2, <1>4, WorkerGoes
<1> QED BY <1>3, <1>4, RankFacts

LEMMA GateFailsInv ==
  ASSUME Types, Control, StreamInv, NEW r \in Rank, GateFails(r)
  PROVE  Types' /\ Control' /\ StreamInv'
<1>1. /\ pc[r] \in Halfway \cup {"replay"} /\ "lost" \in Halfway \ {"run"} /\ Goto(r, "lost")
      /\ UNCHANGED <<mode, job, loc, sock, calls, created>> /\ MarkFailed(r)
      /\ mirror' \in [Rank -> [Sessions -> Mirrors]]
  BY DEF GateFails, Halfway, Types
<1>2. failed'[r]
  BY <1>1 DEF MarkFailed, Types
<1>3. CASE r = 0
  BY <1>1, <1>2, <1>3, LeaderGoes
<1>4. CASE r = 1
  BY <1>1, <1>2, <1>4, WorkerGoes
<1> QED BY <1>3, <1>4, RankFacts

LEMMA LocalFaultInv ==
  ASSUME Types, Control, StreamInv, FaultsAnswered,
         NEW r \in Rank, NEW when, LocalFault(r, when)
  PROVE  Types' /\ Control' /\ StreamInv'
<1>1. /\ pc[r] \in Halfway \cup {"replay"} /\ "lost" \in Halfway \ {"run"} /\ Goto(r, "lost")
      /\ UNCHANGED <<mode, job, loc, sock, failed, calls, created>>
      /\ mirror' \in [Rank -> [Sessions -> Mirrors]]
  BY DEF LocalFault, Halfway, Types
<1>2. r = 0 => FaultKind(0) \notin {"batch", "replay"}
  BY DEF LocalFault, FaultsAnswered
<1>3. r = 0 => \/ job[0].op \in {"sync", "eval", "native"}
               \/ job[0].op = "verify" /\ loc[0].phase = 0
  <2> SUFFICES ASSUME r = 0
               PROVE  \/ job[0].op \in {"sync", "eval", "native"}
                      \/ job[0].op = "verify" /\ loc[0].phase = 0
    OBVIOUS
  <2>1. job[0].op \in {"sync", "eval", "native", "verify", "batch"}
    <3>1. job[0].op \in Ops
      BY RankFacts DEF Types, Jobs, JobRecords
    <3>2. pc[0] \in {"run", "graph"}
      BY DEF LocalFault
    <3> QED BY <3>1, <3>2 DEF Control, LeaderControl, Ops, AckOps
  <2> QED BY <1>2, <2>1 DEF FaultKind
<1>4. CASE r = 0
  BY <1>1, <1>3, <1>4, LeaderGoes
<1>5. CASE r = 1
  BY <1>1, <1>5, WorkerGoes
<1> QED BY <1>4, <1>5, RankFacts


-----------------------------------------------------------------------------
(* The sessions of a set, one after the other, in frames.                  *)
LEMMA SetListed ==
  ASSUME NEW X, IsFiniteSet(X)
  PROVE  SetToSeq(X) \in Seq(X)
<1>1. Cardinality(X) \in Nat /\ ExistsBijection(1 .. Cardinality(X), X)
  BY FS_CardinalityType
<1>2. \E f \in [1 .. Cardinality(X) -> X] : IsInjective(f)
  BY <1>1 DEF ExistsBijection, Bijection, Injection
<1>3. SetToSeq(X) \in [1 .. Cardinality(X) -> X]
  BY <1>2 DEF SetToSeq
<1> QED BY <1>1, <1>3

LEMMA InvalidatesTyped ==
  ASSUME NEW ss \in SUBSET Sessions
  PROVE  InvalidateFrames(ss) \in Seq(Orders)
<1> DEFINE X == {Frame(Named("invalidate", s)) : s \in ss}
<1>1. X \subseteq Orders
  <2> SUFFICES ASSUME NEW s \in ss PROVE Frame(Named("invalidate", s)) \in Orders
    OBVIOUS
  <2>1. "invalidate" \in Ops /\ s \in Sessions
    BY DEF Ops
  <2>2. Named("invalidate", s) \in Jobs
    BY <2>1, MadeJob
  <2> QED BY <2>2 DEF Frame, Orders, CmdFrames
<1>2. IsFiniteSet(X)
  <2>1. IsFiniteSet(ss)
    BY SessionAssumption, FS_Subset
  <2> DEFINE g == [s \in ss |-> Frame(Named("invalidate", s))]
  <2>2. g \in Surjection(ss, X)
    <3>1. g \in [ss -> X] /\ \A x \in X : \E s \in ss : g[s] = x
      OBVIOUS
    <3> HIDE DEF g, X
    <3> QED BY <3>1 DEF Surjection
  <2> HIDE DEF g, X
  <2> QED BY <2>1, <2>2, FS_Surjection
<1>3. InvalidateFrames(ss) = SetToSeq(X)
  BY DEF InvalidateFrames, Frame, Named
<1> HIDE DEF X
<1>4. SetToSeq(X) \in Seq(X)
  BY <1>2, SetListed
<1> QED BY <1>1, <1>3, <1>4

LEMMA OrderedAll ==
  ASSUME Types, NEW fs \in Seq(Orders), NEW d, d = Put(chan, 0, fs)
  PROVE  Queues(d) /\ d[0] = chan[0] /\ (~up[1] => d = chan)
<1>1. Peer(0) = 1 /\ 0 \in Rank /\ 1 \in Rank /\ Rank = {0, 1}
  BY DEF Peer, Rank
<1>2. DOMAIN chan = Rank /\ chan[0] \in Seq(Answers) /\ chan[1] \in Seq(Orders)
  BY DEF Types, Queues
<1> DEFINE x == IF up[1] THEN chan[1] \o fs ELSE chan[1]
<1>3. d = [chan EXCEPT ![1] = x]
  BY <1>1 DEF Put
<1>4. x \in Seq(Orders) /\ (~up[1] => x = chan[1])
  <2>1. chan[1] \o fs \in Seq(Orders)
    BY <1>2
  <2> QED BY <1>2, <2>1
<1> HIDE DEF x
<1>5. d[0] = chan[0] /\ d[1] = x
  BY <1>1, <1>2, <1>3
<1>6. d \in [Rank -> Seq(Orders) \cup Seq(Answers)]
  <2>1. d = [r \in Rank |-> d[r]]
    BY <1>2, <1>3
  <2>2. \A r \in Rank : d[r] \in Seq(Orders) \cup Seq(Answers)
    BY <1>1, <1>2, <1>4, <1>5
  <2> QED BY <2>1, <2>2, ZenonT(60)
<1>7. ~up[1] => d = chan
  <2>1. chan = [chan EXCEPT ![1] = chan[1]]
    BY DEF Types, Queues
  <2> QED BY <1>3, <1>4, <2>1
<1> QED BY <1>2, <1>4, <1>5, <1>6, <1>7 DEF Queues

-----------------------------------------------------------------------------
(* What the leader does once its own half is done or lost.                 *)
LEMMA RestView ==
  ASSUME NEW sp \in BOOLEAN, NEW p \in {"idle", "stopped", "loop", "gone"}, NEW V, V = ViewOf(sp, p, Job, Loc)
  PROVE  V \in Views /\ AtRest(V) /\ V.job = Job /\ V.sent = 0 /\ V.heard = 0
<1>1. Job.op = "none" /\ p \in Pcs
  BY DEF Job, Pcs
<1>2. ~Unacknowledged(p, Job) /\ ~Undecided(p, Job, Loc) /\ ~InCycle(p, Job)
  BY <1>1 DEF Unacknowledged, Undecided, InCycle, AckOps
<1>3. Outstanding(sp, p, Job, Loc) = 0
  BY <1>1, <1>2 DEF Outstanding, Replaying, Evaluating
<1> QED BY <1>1, <1>2, <1>3, JobTyped, ViewFacts DEF AtRest

LEMMA LeaderSeen ==
  ASSUME Types, Control, StreamInv, NEW p, NEW j, NEW l, Stepped(0, p, j, l),
         LeaderAt(p, j, l, calls, failed'[0]), up'[0] \/ failed'[0],
         Calm' /\ Calm =>
           Framed(mode.split, calls, ViewOf(mode.split, p, j, l), WorkerView, up[1], chan'[0], chan'[1]),
         Calm' /\ Calm /\ p = "drop" => ~up[1]
  PROVE  Types' /\ Control' /\ StreamInv'
<1>1. /\ Types' /\ Control' /\ LeaderView' = ViewOf(mode.split, p, j, l) /\ WorkerView' = WorkerView
      /\ pc'[0] = p /\ mode' = mode /\ calls' = calls /\ up'[1] = up[1] /\ (Calm' => Calm)
  BY LeaderStepped
<1>2. StreamInv'
  BY <1>1 DEF StreamInv
<1> QED BY <1>1, <1>2

LEMMA WorkerSeen ==
  ASSUME Types, Control, StreamInv, NEW p, NEW j, NEW l, Stepped(1, p, j, l),
         WorkerAt(p, j, l), up'[1] <=> p # "gone", up[1],
         Calm' /\ Calm =>
           Framed(mode.split, calls, LeaderView, ViewOf(mode.split, p, j, l), up'[1], chan'[0], chan'[1])
  PROVE  Types' /\ Control' /\ StreamInv'
<1>1. /\ Types' /\ Control' /\ WorkerView' = ViewOf(mode.split, p, j, l) /\ LeaderView' = LeaderView
      /\ pc'[0] = pc[0] /\ mode' = mode /\ calls' = calls /\ (Calm' => Calm)
  BY WorkerStepped
<1>2. Calm => pc[0] # "drop"
  BY DEF StreamInv
<1>3. StreamInv'
  BY <1>1, <1>2 DEF StreamInv
<1> QED BY <1>1, <1>3


(* Waiting for the acknowledgement, the leader still expects all of it.    *)
LEMMA AckView ==
  ASSUME NEW sp, NEW p \in Halfway, NEW j, j.op \in {"sync", "batch"}, NEW l, NEW k
  PROVE  ViewOf(sp, "ack", j, k) = ViewOf(sp, p, j, l)
<1>1. Unacknowledged("ack", j) /\ Unacknowledged(p, j)
  BY DEF Unacknowledged, AckOps
<1>2. ~Undecided("ack", j, k) /\ ~Undecided(p, j, l) /\ ~InCycle("ack", j) /\ ~InCycle(p, j)
  BY DEF Undecided, InCycle
<1>3. Outstanding(sp, "ack", j, k) = Outstanding(sp, p, j, l)
  <2>1. p \notin {"logits", "reply"}
    BY DEF Halfway
  <2> QED BY <1>1, <2>1 DEF Outstanding
<1>4. /\ Unacknowledged("ack", j) = Unacknowledged(p, j) /\ Undecided("ack", j, k) = Undecided(p, j, l)
      /\ InCycle("ack", j) = FALSE /\ InCycle(p, j) = FALSE
  BY <1>1, <1>2 DEF Unacknowledged, Undecided, InCycle
<1>5. \A a, o, b, s, h, t, g : View(a, o, b, FALSE, s, h, j) = View(a, o, b, FALSE, t, g, j)
  BY DEF View
<1>6. ViewOf(sp, "ack", j, k) =
        View(Unacknowledged(p, j), Outstanding(sp, p, j, l), Undecided(p, j, l), FALSE,
             Sent("ack", k), Heard("ack", k), j)
  BY <1>3, <1>4, ZenonT(60) DEF ViewOf
<1>7. ViewOf(sp, p, j, l) =
        View(Unacknowledged(p, j), Outstanding(sp, p, j, l), Undecided(p, j, l), FALSE,
             Sent(p, l), Heard(p, l), j)
  BY <1>4, ZenonT(60) DEF ViewOf
<1> QED BY <1>5, <1>6, <1>7, ZenonT(60)

LEMMA AwaitAckInv ==
  ASSUME Types, Control, StreamInv, AwaitAck
  PROVE  Types' /\ Control' /\ StreamInv'
<1> DEFINE l == [loc[0] EXCEPT !.ok = pc[0] = "done"]
<1>1. /\ job[0] \in Jobs /\ loc[0] \in Locals /\ job = [job EXCEPT ![0] = job[0]]
  BY StandsStill, RankFacts
<1>2. /\ pc' = [pc EXCEPT ![0] = "ack"] /\ loc' = [loc EXCEPT ![0] = l] /\ job' = job
      /\ UNCHANGED <<mode, calls, created, mirror, chan, up, failed>>
      /\ pc[0] \in Halfway /\ job[0].op \in {"sync", "batch"}
  BY DEF AwaitAck, After, Goto, still, sock, Halfway
<1>3. l \in Locals
  BY <1>1 DEF Locals
<1> HIDE DEF l
<1>4. Stepped(0, "ack", job[0], l)
  BY <1>1, <1>2, <1>3, RankFacts DEF Stepped, Types, Pcs
<1>5. LeaderAt("ack", job[0], l, calls, failed'[0])
  BY <1>2 DEF LeaderAt, Control, LeaderControl
<1>6. ViewOf(mode.split, "ack", job[0], l) = LeaderView
  BY <1>2, AckView DEF LeaderView
<1> QED BY <1>2, <1>4, <1>5, <1>6, LeaderUnseen

(* A call that returns leaves nothing in its view.                         *)
LEMMA Returned ==
  ASSUME Types, Control, StreamInv, Return,
         UNCHANGED <<mode, calls, created, up>>, mirror' \in [Rank -> [Sessions -> Mirrors]],
         Queues(chan'), failed' \in [Rank -> BOOLEAN], failed'[1] = failed[1], failed[0] => failed'[0],
         Calm' /\ Calm => \A M \in Views : (AtRest(M) /\ M.job = Job /\ M.sent = 0 /\ M.heard = 0) =>
           Framed(mode.split, calls, M, WorkerView, up[1], chan'[0], chan'[1])
  PROVE  Types' /\ Control' /\ StreamInv'
<1>1. pc' = [pc EXCEPT ![0] = "idle"] /\ job' = [job EXCEPT ![0] = Job] /\ loc' = [loc EXCEPT ![0] = Loc]
  BY DEF Return, Leave, Goto
<1>2. Stepped(0, "idle", Job, Loc)
  BY <1>1, JobTyped, RankFacts DEF Stepped, Types, Pcs
<1>3. LeaderAt("idle", Job, Loc, calls, failed'[0])
  BY DEF LeaderAt, Job
<1>4. up'[0] \/ failed'[0]
  BY DEF Control, LeaderControl
<1>5. LET M == ViewOf(mode.split, "idle", Job, Loc)
      IN  M \in Views /\ AtRest(M) /\ M.job = Job /\ M.sent = 0 /\ M.heard = 0
  <2>1. mode.split \in BOOLEAN
    BY DEF Types
  <2> QED BY <2>1, RestView
<1>6. Calm' /\ Calm =>
        Framed(mode.split, calls, ViewOf(mode.split, "idle", Job, Loc), WorkerView, up[1], chan'[0], chan'[1])
  BY <1>5
<1> QED BY <1>2, <1>3, <1>4, <1>6, LeaderSeen

(* A rank at rest is at rest the same way everywhere.                      *)
LEMMA SameRest ==
  ASSUME NEW sp \in BOOLEAN, NEW p \in Pcs, NEW j \in Jobs, NEW l \in Locals,
         NEW V, V = ViewOf(sp, p, j, l), AtRest(V), NEW M \in Views, AtRest(M), M.job = Job,
         M.sent = 0, M.heard = 0
  PROVE  M = V
<1>1. V \in Views /\ V.job = Job /\ V.sent = 0 /\ V.heard = 0
  <2>1. /\ V \in Views
        /\ V.cycle <=> InCycle(p, j)
        /\ ~InCycle(p, j) => V.sent = 0 /\ V.heard = 0
        /\ AtRest(V) => V.job = Job
    BY ViewFacts
  <2> QED BY <2>1 DEF AtRest
<1> QED BY <1>1, RestEqual


LEMMA ViewsEqual ==
  ASSUME NEW V \in Views, NEW U \in Views, V.ack <=> U.ack, V.due = U.due, V.block <=> U.block,
         V.cycle <=> U.cycle, V.sent = U.sent, V.heard = U.heard, V.job = U.job
  PROVE  V = U
BY DEF Views

(* While logits are due, or no longer.                                     *)
LEMMA DueView ==
  ASSUME NEW sp \in BOOLEAN, NEW p \in {"logits", "reply"}, NEW j \in Jobs, NEW l \in Locals,
         NEW V, V = ViewOf(sp, p, j, l)
  PROVE  /\ V \in Views /\ ~V.ack /\ ~V.block /\ ~V.cycle /\ V.due = l.want
         /\ V.sent = 0 /\ V.heard = 0
         /\ (l.want # 0 => ~AtRest(V) /\ V.job = j) /\ (l.want = 0 => AtRest(V) /\ V.job = Job)
<1>1. p \in Pcs /\ ~Unacknowledged(p, j) /\ ~Undecided(p, j, l) /\ ~InCycle(p, j)
  BY DEF Pcs, Unacknowledged, Undecided, InCycle, Halfway
<1>2. /\ V \in Views
      /\ V.ack <=> Unacknowledged(p, j)
      /\ V.due = Outstanding(sp, p, j, l)
      /\ V.block <=> Undecided(p, j, l)
      /\ V.cycle <=> InCycle(p, j)
      /\ ~InCycle(p, j) => V.sent = 0 /\ V.heard = 0
      /\ ~AtRest(V) => V.job = j
      /\ AtRest(V) => V.job = Job
  BY <1>1, ViewFacts
<1>3. V.due = l.want
  BY <1>2 DEF Outstanding
<1>4. AtRest(V) <=> l.want = 0
  BY <1>1, <1>2, <1>3 DEF AtRest
<1> QED BY <1>1, <1>2, <1>3, <1>4

(* An eval or a replay, until its half is done: one logits frame or none.  *)
LEMMA HalfView ==
  ASSUME NEW sp \in BOOLEAN, NEW p \in Halfway, NEW j \in Jobs, NEW l \in Locals,
         j.op = "eval" \/ (j.op = "verify" /\ l.phase # 0), NEW V, V = ViewOf(sp, p, j, l)
  PROVE  /\ V \in Views /\ ~V.ack /\ ~V.block /\ ~V.cycle /\ V.due = One(sp)
         /\ V.sent = 0 /\ V.heard = 0
         /\ (sp => ~AtRest(V) /\ V.job = j) /\ (~sp => AtRest(V) /\ V.job = Job)
<1>1. p \in Pcs /\ ~Unacknowledged(p, j) /\ ~Undecided(p, j, l) /\ ~InCycle(p, j)
  BY DEF Pcs, Unacknowledged, Undecided, InCycle, Halfway, AckOps
<1>2. /\ V \in Views
      /\ V.ack <=> Unacknowledged(p, j)
      /\ V.due = Outstanding(sp, p, j, l)
      /\ V.block <=> Undecided(p, j, l)
      /\ V.cycle <=> InCycle(p, j)
      /\ ~InCycle(p, j) => V.sent = 0 /\ V.heard = 0
      /\ ~AtRest(V) => V.job = j
      /\ AtRest(V) => V.job = Job
  BY <1>1, ViewFacts
<1>3. V.due = One(sp)
  BY <1>1, <1>2 DEF Outstanding, Replaying, Evaluating, Halfway
<1>4. AtRest(V) <=> ~sp
  BY <1>1, <1>2, <1>3 DEF AtRest, One
<1> QED BY <1>1, <1>2, <1>3, <1>4

LEMMA AwaitLogitsInv ==
  ASSUME Types, Control, StreamInv, AwaitLogits
  PROVE  Types' /\ Control' /\ StreamInv'
<1>1. /\ job[0] \in Jobs /\ loc[0] \in Locals /\ job = [job EXCEPT ![0] = job[0]]
      /\ mode.split \in BOOLEAN /\ pc[0] \in Pcs
  BY StandsStill, RankFacts DEF Types
<1>2. /\ UNCHANGED <<mode, calls, created, mirror, chan, up, failed>>
      /\ pc[0] \in Halfway /\ (job[0].op = "eval" \/ (job[0].op = "verify" /\ loc[0].phase # 0))
  BY DEF AwaitLogits, After, still, sock, Halfway
<1>3. LET V == LeaderView IN
        /\ V \in Views /\ ~V.ack /\ ~V.block /\ ~V.cycle /\ V.due = One(mode.split)
        /\ V.sent = 0 /\ V.heard = 0
        /\ (mode.split => ~AtRest(V) /\ V.job = job[0]) /\ (~mode.split => AtRest(V) /\ V.job = Job)
  BY <1>1, <1>2, HalfView DEF LeaderView
<1>4. CASE mode.split
  <2> DEFINE l == [loc[0] EXCEPT !.want = 1]
             M == ViewOf(mode.split, "logits", job[0], l)
  <2>1. pc' = [pc EXCEPT ![0] = "logits"] /\ loc' = [loc EXCEPT ![0] = l] /\ job' = job
    BY <1>4 DEF AwaitLogits, Goto
  <2>2. l \in Locals /\ l.want = 1 /\ l.phase = loc[0].phase /\ l.ok = loc[0].ok
    BY <1>1 DEF Locals
  <2> HIDE DEF l
  <2>3. Stepped(0, "logits", job[0], l)
    BY <1>1, <1>2, <2>1, <2>2, RankFacts DEF Stepped, Types, Pcs
  <2>4. LeaderAt("logits", job[0], l, calls, failed'[0])
    BY <1>2, <2>2 DEF LeaderAt, Control, LeaderControl, Halfway
  <2>5. /\ M \in Views /\ ~M.ack /\ ~M.block /\ ~M.cycle /\ M.due = 1
        /\ M.sent = 0 /\ M.heard = 0 /\ M.job = job[0]
    BY <1>1, <2>2, DueView
  <2>6. One(mode.split) = 1
    BY <1>4 DEF One
  <2> HIDE DEF M
  <2>7. M = LeaderView
    BY <1>3, <1>4, <2>5, <2>6, ViewsEqual
  <2> QED BY <1>2, <2>3, <2>4, <2>7, LeaderUnseen DEF M
<1>5. CASE ~mode.split
  <2>1. Return
    BY <1>5 DEF AwaitLogits
  <2>2. /\ mirror' \in [Rank -> [Sessions -> Mirrors]] /\ Queues(chan')
        /\ failed' \in [Rank -> BOOLEAN] /\ failed'[1] = failed[1] /\ (failed[0] => failed'[0])
    BY <1>2 DEF Types
  <2>3. ASSUME Calm, NEW M \in Views, AtRest(M), M.job = Job, M.sent = 0, M.heard = 0
        PROVE  Framed(mode.split, calls, M, WorkerView, up[1], chan'[0], chan'[1])
    <3>1. M = LeaderView
      BY <1>3, <1>5, <2>3, RestEqual
    <3> QED BY <1>2, <2>3, <3>1 DEF StreamInv
  <2> QED BY <1>2, <2>1, <2>2, <2>3, Returned
<1> QED BY <1>1, <1>4, <1>5

LEMMA GiveUpInv ==
  ASSUME Types, Control, StreamInv, GiveUp
  PROVE  Types' /\ Control' /\ StreamInv'
<1>1. /\ job[0] \in Jobs /\ loc[0] \in Locals /\ job = [job EXCEPT ![0] = job[0]]
      /\ loc = [loc EXCEPT ![0] = loc[0]]
  BY StandsStill, RankFacts
<1>2. /\ pc' = [pc EXCEPT ![0] = "drop"]
      /\ UNCHANGED <<mode, calls, created, mirror, chan, up, job, loc>>
      /\ pc[0] = "lost" /\ job[0].op \in {"eval", "batch"}
  BY DEF GiveUp, After, Goto, still, sock
<1>3. failed' \in [Rank -> BOOLEAN] /\ failed'[1] = failed[1] /\ failed'[0]
  <2>1. CASE job[0].op = "eval"
    <3>1. failed' = [failed EXCEPT ![0] = TRUE]
      BY <2>1 DEF GiveUp, MarkFailed
    <3> QED BY <3>1, RankFacts DEF Types
  <2>2. CASE job[0].op # "eval"
    <3>1. failed[0]
      BY <1>2, <2>2 DEF Control, LeaderControl
    <3> QED BY <2>2, <3>1 DEF GiveUp, Types
  <2> QED BY <2>1, <2>2
<1>4. Stepped(0, "drop", job[0], loc[0])
  BY <1>1, <1>2, <1>3, RankFacts DEF Stepped, Types, Pcs
<1>5. LeaderAt("drop", job[0], loc[0], calls, failed'[0])
  BY <1>2, <1>3 DEF LeaderAt, Control, LeaderControl
<1> QED BY <1>3, <1>4, <1>5, LeaderFails


LEMMA DropInv ==
  ASSUME Types, Control, StreamInv, Drop
  PROVE  Types' /\ Control' /\ StreamInv'
<1>1. /\ job[0] \in Jobs /\ loc[0] \in Locals /\ pc[0] \in Pcs /\ mode.split \in BOOLEAN
  BY StandsStill, RankFacts DEF Types
<1>2. /\ UNCHANGED <<mode, calls, created, up, failed>> /\ Return /\ pc[0] = "drop"
      /\ mirror' = Dropped(0, Members(job[0]))
  BY DEF Drop, still
<1>3. mirror' \in [Rank -> [Sessions -> Mirrors]]
  BY <1>2, DroppedTyped, RankFacts DEF Types
<1>4. Queues(chan') /\ (~up[1] => chan' = chan)
  <2>1. CASE failed[0]
    <3>1. chan' = chan
      BY <2>1 DEF Drop
    <3> QED BY <3>1 DEF Types
  <2>2. CASE ~failed[0]
    <3>1. chan' = Put(chan, 0, InvalidateFrames(Members(job[0])))
      BY <2>2 DEF Drop, Write
    <3>2. Members(job[0]) \in SUBSET Sessions
      BY <1>1, MembersCounted
    <3>3. InvalidateFrames(Members(job[0])) \in Seq(Orders)
      BY <3>2, InvalidatesTyped
    <3> QED BY <3>1, <3>3, OrderedAll
  <2> QED BY <2>1, <2>2
<1>5. /\ failed' \in [Rank -> BOOLEAN] /\ failed'[1] = failed[1] /\ (failed[0] => failed'[0])
  BY <1>2 DEF Types
<1>6. AtRest(LeaderView)
  <2>1. /\ ~Unacknowledged(pc[0], job[0]) /\ ~Undecided(pc[0], job[0], loc[0]) /\ ~InCycle(pc[0], job[0])
        /\ ~Replaying(pc[0], job[0], loc[0]) /\ ~Evaluating(pc[0], job[0])
    BY <1>2 DEF Unacknowledged, Undecided, InCycle, Replaying, Evaluating, Halfway
  <2>2. Outstanding(mode.split, pc[0], job[0], loc[0]) = 0
    BY <1>2, <2>1 DEF Outstanding
  <2> QED BY <1>1, <2>1, <2>2, ViewFacts DEF LeaderView, AtRest
<1>7. ASSUME Calm, NEW M \in Views, AtRest(M), M.job = Job, M.sent = 0, M.heard = 0
      PROVE  Framed(mode.split, calls, M, WorkerView, up[1], chan'[0], chan'[1])
  <2>1. M = LeaderView
    BY <1>1, <1>6, <1>7, SameRest DEF LeaderView
  <2>2. chan' = chan
    BY <1>2, <1>4, <1>7 DEF StreamInv
  <2> QED BY <1>7, <2>1, <2>2 DEF StreamInv
<1> QED BY <1>2, <1>3, <1>4, <1>5, <1>7, Returned

LEMMA SetTyped ==
  ASSUME Types, NEW r \in Rank, NEW s, NEW x, s \in Sessions => x \in Mirrors
  PROVE  [mirror EXCEPT ![r][s] = x] \in [Rank -> [Sessions -> Mirrors]]
<1>1. mirror \in [Rank -> [Sessions -> Mirrors]]
  BY DEF Types
<1> DEFINE m == [mirror[r] EXCEPT ![s] = x]
<1>2. m \in [Sessions -> Mirrors]
  BY <1>1
<1>3. [mirror EXCEPT ![r][s] = x] = [mirror EXCEPT ![r] = m]
  OBVIOUS
<1> HIDE DEF m
<1> QED BY <1>1, <1>2, <1>3

LEMMA UnvalidTyped ==
  ASSUME Types, NEW r \in Rank, NEW s
  PROVE  [mirror EXCEPT ![r][s].valid = FALSE] \in [Rank -> [Sessions -> Mirrors]]
<1> DEFINE x == [mirror[r][s] EXCEPT !.valid = FALSE]
<1>1. s \in Sessions => x \in Mirrors
  <2>1. s \in Sessions => mirror[r][s] \in Mirrors
    BY DEF Types
  <2> QED BY <2>1 DEF Mirrors
<1>2. [mirror EXCEPT ![r][s].valid = FALSE] = [mirror EXCEPT ![r][s] = x]
  OBVIOUS
<1> HIDE DEF x
<1> QED BY <1>1, <1>2, SetTyped

LEMMA ReplayLostInv ==
  ASSUME Types, Control, StreamInv, ReplayLost
  PROVE  Types' /\ Control' /\ StreamInv'
<1>1. /\ UNCHANGED <<mode, calls, created, up, chan, failed>> /\ Return
      /\ pc[0] = "lost" /\ job[0].op = "verify" /\ loc[0].phase # 0
      /\ mirror' = [mirror EXCEPT ![0][job[0].s].valid = FALSE]
  BY DEF ReplayLost, After, still, sock
<1>2. failed[0]
  BY <1>1 DEF Control, LeaderControl
<1>3. mirror' \in [Rank -> [Sessions -> Mirrors]]
  BY <1>1, RankFacts, UnvalidTyped
<1>4. /\ failed' \in [Rank -> BOOLEAN] /\ failed'[1] = failed[1] /\ (failed[0] => failed'[0])
      /\ Queues(chan')
  BY <1>1 DEF Types
<1>5. ~Calm
  BY <1>2, RankFacts DEF Calm
<1> QED BY <1>1, <1>3, <1>4, <1>5, Returned


(* Waiting for an acknowledgement, the leader knows what it is promised.   *)
LEMMA Waits ==
  ASSUME Types, LeaderControl, pc[0] = "ack"
  PROVE  /\ job[0].op \in AckOps /\ LeaderView.ack /\ LeaderView.due = Promised
         /\ LeaderView.job = job[0] /\ Promised \in Nat
<1>1. /\ job[0] \in Jobs /\ loc[0] \in Locals /\ pc[0] \in Pcs /\ mode.split \in BOOLEAN
  BY StandsStill, RankFacts DEF Types
<1>2. job[0].op \in AckOps
  <2>1. job[0].op \in Ops
    BY <1>1 DEF Jobs, JobRecords
  <2> QED BY <2>1 DEF LeaderControl, Ops, AckOps, Halfway
<1>3. Unacknowledged(pc[0], job[0])
  BY <1>2 DEF Unacknowledged
<1>4. /\ LeaderView.ack /\ LeaderView.due = Outstanding(mode.split, pc[0], job[0], loc[0])
      /\ LeaderView \in Views
      /\ ~AtRest(LeaderView) => LeaderView.job = job[0]
  BY <1>1, <1>3, ViewFacts DEF LeaderView
<1>5. LeaderView.job = job[0]
  BY <1>4 DEF AtRest
<1>6. job[0].op = "sync" => Cardinality(Members(job[0])) = 1
  <2> SUFFICES ASSUME job[0].op = "sync" PROVE Cardinality(Members(job[0])) = 1
    OBVIOUS
  <2>1. job[0].s \in Sessions /\ job[0].items = {}
    BY <1>1 DEF Jobs
  <2>2. Members(job[0]) = {job[0].s}
    BY <2>1, SessionsAreNumbers DEF Members
  <2> QED BY <2>2, FS_Singleton
<1>7. Outstanding(mode.split, pc[0], job[0], loc[0]) = Promised
  BY <1>2, <1>3, <1>6 DEF Outstanding, Promised, LogitsOf, AckOps
<1>8. Promised \in Nat
  BY <1>4, <1>7 DEF Views
<1> QED BY <1>2, <1>4, <1>5, <1>7, <1>8

LEMMA AckGoodInv ==
  ASSUME Types, Control, StreamInv, AckGood
  PROVE  Types' /\ Control' /\ StreamInv'
<1> DEFINE l == [loc[0] EXCEPT !.want = Promised]
           M == ViewOf(mode.split, "logits", job[0], l)
<1>1. /\ job[0] \in Jobs /\ loc[0] \in Locals /\ mode.split \in BOOLEAN
      /\ job = [job EXCEPT ![0] = job[0]]
  BY StandsStill, RankFacts DEF Types
<1>2. /\ pc' = [pc EXCEPT ![0] = "logits"] /\ loc' = [loc EXCEPT ![0] = l] /\ job' = job
      /\ UNCHANGED <<mode, calls, created, mirror, up, failed>>
      /\ pc[0] = "ack" /\ up[0] /\ chan[0] # <<>> /\ Head(chan[0]).status = 0 /\ chan' = Taken(0)
  BY DEF AckGood, Goto, still, Arrives, Take, GoodAck
<1>3. /\ job[0].op \in AckOps /\ LeaderView.ack /\ LeaderView.due = Promised
      /\ LeaderView.job = job[0] /\ Promised \in Nat
  BY <1>2, Waits DEF Control
<1>4. l \in Locals /\ l.want = Promised /\ l.phase = loc[0].phase /\ l.ok = loc[0].ok
  BY <1>1, <1>3 DEF Locals
<1> HIDE DEF l
<1>5. /\ Queues(chan') /\ chan'[0] = Tail(chan[0]) /\ chan'[1] = chan[1] /\ Head(chan[0]) = chan[0][1]
  BY <1>2, TakenFrom, RankFacts DEF Types
<1>6. Stepped(0, "logits", job[0], l)
  BY <1>1, <1>2, <1>4, <1>5, RankFacts DEF Stepped, Types, Pcs
<1>7. job[0].op \in {"create", "destroy"} => l.want = 0
  BY <1>4 DEF Promised
<1>8. LeaderAt("logits", job[0], l, calls, failed'[0])
  BY <1>2, <1>3, <1>4, <1>7 DEF LeaderAt, Control, LeaderControl, AckOps
<1>9. /\ M \in Views /\ ~M.ack /\ ~M.block /\ ~M.cycle /\ M.due = Promised
      /\ (~AtRest(M) => M.job = job[0])
  BY <1>1, <1>4, DueView
<1> HIDE DEF M
<1>10. ASSUME Calm PROVE Framed(mode.split, calls, M, WorkerView, up[1], chan'[0], chan'[1])
  <2>1. PICK sp \in BOOLEAN, on \in BOOLEAN, n \in Nat, L \in Views, W \in Views,
             c0 \in Seq(Answers), c1 \in Seq(Orders), d0 \in Seq(Answers), d1 \in Seq(Orders) :
          /\ Now(sp, on, n, L, W, c0, c1, d0, d1) /\ Framed(sp, n, L, W, on, c0, c1)
    BY <1>5, <1>10, CalmNow
  <2>2. /\ L.ack /\ c0 # <<>> /\ c0[1].status = 0 /\ d0 = Tail(c0)
        /\ L.due = Promised /\ L.job = job[0]
    BY <1>2, <1>3, <1>5, <2>1 DEF Now
  <2>3. M.due = L.due /\ (~AtRest(M) => M.job = L.job)
    BY <1>9, <2>2
  <2>4. Framed(sp, n, M, W, on, d0, c1)
    <3>1. Framed(sp, n, L, W, on, c0, c1)
      BY <2>1
    <3>2. M \in Views /\ ~M.ack /\ ~M.block /\ ~M.cycle
      BY <1>9
    <3>3. L.ack /\ c0 # <<>> /\ c0[1].status = 0 /\ d0 = Tail(c0)
      BY <2>2
    <3> QED BY <2>3, <3>1, <3>2, <3>3, AckTaken, ZenonT(90)
  <2> QED BY <1>5, <2>1, <2>4 DEF Now
<1> QED BY <1>2, <1>6, <1>8, <1>10, LeaderSeen DEF M

(* An answer that is for the command, but not 0, is of status 1.           *)
LEMMA AckBadInv ==
  ASSUME Types, Control, StreamInv, AckBad
  PROVE  Types' /\ Control' /\ StreamInv'
<1>1. /\ job[0] \in Jobs /\ loc[0] \in Locals /\ mode.split \in BOOLEAN /\ pc[0] \in Pcs
      /\ job = [job EXCEPT ![0] = job[0]] /\ loc = [loc EXCEPT ![0] = loc[0]]
  BY StandsStill, RankFacts DEF Types
<1>2. /\ UNCHANGED <<mode, calls, created, up>> /\ pc[0] = "ack"
      /\ job[0].op \in {"create", "destroy"} => SetSession(0, job[0].s, Closed) /\ Return
      /\ job[0].op \notin {"create", "destroy"} => Goto(0, "drop") /\ UNCHANGED <<mirror, job, loc>>
  BY DEF AckBad, still
<1>3. \/ /\ up[0] /\ chan[0] # <<>> /\ ~GoodAck(Head(chan[0])) /\ chan' = Taken(0)
         /\ IF job[0].op = "sync" THEN MarkFailed(0) ELSE UNCHANGED failed
      \/ chan' = chan /\ MarkFailed(0)
  BY DEF AckBad, Arrives, Take
<1>4. /\ job[0].op \in AckOps /\ LeaderView.ack /\ LeaderView.job = job[0]
  BY <1>2, Waits DEF Control
<1>5. failed' \in [Rank -> BOOLEAN] /\ failed'[1] = failed[1] /\ (failed[0] => failed'[0])
  <2>1. failed' = failed \/ failed' = [failed EXCEPT ![0] = TRUE]
    BY <1>3 DEF MarkFailed
  <2>2. CASE failed' = failed
    BY <2>2 DEF Types
  <2>3. CASE failed' = [failed EXCEPT ![0] = TRUE]
    BY <2>3, RankFacts DEF Types
  <2> QED BY <2>1, <2>2, <2>3
<1>6. Queues(chan')
  <2>1. CASE chan' = chan
    BY <2>1 DEF Types
  <2>2. CASE chan[0] # <<>> /\ chan' = Taken(0)
    BY <2>2, TakenFrom, RankFacts DEF Types
  <2> QED BY <1>3, <2>1, <2>2
<1>7. ASSUME Calm, Calm', NEW M \in Views, AtRest(M)
      PROVE  /\ Framed(mode.split, calls, M, WorkerView, up[1], chan'[0], chan'[1])
             /\ job[0].op \notin {"create", "destroy"} => ~up[1]
  <2>1. /\ Framed(mode.split, calls, LeaderView, WorkerView, up[1], chan[0], chan[1])
        /\ up[1] \in BOOLEAN /\ mode.split \in BOOLEAN /\ calls \in Nat
        /\ chan[0] \in Seq(Answers) /\ chan[1] \in Seq(Orders)
        /\ LeaderView \in Views /\ WorkerView \in Views
    BY <1>7, CalmFacts
  <2>2. ~failed'[0] /\ ~failed[0]
    BY <1>7, RankFacts DEF Calm
  <2>3. chan[0] # <<>> /\ ~GoodAck(Head(chan[0])) /\ chan' = Taken(0)
    BY <1>3, <2>2, RankFacts DEF MarkFailed, Types
  <2>4. /\ chan'[0] = Tail(chan[0]) /\ chan'[1] = chan[1] /\ Head(chan[0]) = chan[0][1]
    BY <2>3, TakenFrom, RankFacts DEF Types
  <2>5. chan[0][1].status # 0
    <3>1. chan[0][1].s = job[0].s
      BY <1>4, <2>1, <2>3 DEF Framed, ToLeader
    <3> QED BY <2>3, <2>4, <3>1 DEF GoodAck
  <2>6. Framed(mode.split, calls, M, WorkerView, up[1], chan'[0], chan[1])
    <3>1. LeaderView.ack /\ chan[0] # <<>> /\ chan'[0] = Tail(chan[0]) /\ chan[0][1].status # 0
      BY <1>4, <2>3, <2>4, <2>5
    <3>2. PICK sp \in BOOLEAN, on \in BOOLEAN, n \in Nat, L \in Views, W \in Views,
               c0 \in Seq(Answers), c1 \in Seq(Orders), d0 \in Seq(Answers), d1 \in Seq(Orders) :
            /\ Now(sp, on, n, L, W, c0, c1, d0, d1) /\ Framed(sp, n, L, W, on, c0, c1)
      BY <1>6, <1>7, CalmNow
    <3>3. L.ack /\ c0 # <<>> /\ d0 = Tail(c0) /\ c0[1].status # 0
      BY <3>1, <3>2 DEF Now
    <3>4. Framed(sp, n, M, W, on, d0, c1)
      BY <1>7, <3>2, <3>3, Refused
    <3> QED BY <3>2, <3>4 DEF Now
  <2>7. up[1] => job[0].op \in {"create", "destroy"}
    BY <1>4, <2>1, <2>3, <2>5 DEF Framed, FromWorker
  <2> QED BY <2>4, <2>6, <2>7
<1>8. CASE job[0].op \in {"create", "destroy"}
  <2>1. mirror' \in [Rank -> [Sessions -> Mirrors]]
    BY <1>2, <1>8, SetTyped, JobTyped, RankFacts DEF SetSession
  <2> QED BY <1>2, <1>5, <1>6, <1>7, <1>8, <2>1, Returned
<1>9. CASE job[0].op \notin {"create", "destroy"}
  <2> DEFINE M == ViewOf(mode.split, "drop", job[0], loc[0])
  <2>1. pc' = [pc EXCEPT ![0] = "drop"] /\ UNCHANGED <<mirror, job, loc>>
    BY <1>2, <1>9 DEF Goto
  <2>2. Stepped(0, "drop", job[0], loc[0])
    BY <1>1, <1>2, <1>5, <1>6, <2>1, RankFacts DEF Stepped, Types, Pcs
  <2>3. LeaderAt("drop", job[0], loc[0], calls, failed'[0])
    BY <1>2, <1>4, <1>9 DEF LeaderAt, Control, LeaderControl, AckOps
  <2>4. M \in Views /\ AtRest(M)
    <3>1. /\ ~Unacknowledged("drop", job[0]) /\ ~Undecided("drop", job[0], loc[0]) /\ ~InCycle("drop", job[0])
          /\ ~Replaying("drop", job[0], loc[0]) /\ ~Evaluating("drop", job[0])
      BY DEF Unacknowledged, Undecided, InCycle, Replaying, Evaluating, Halfway
    <3>2. Outstanding(mode.split, "drop", job[0], loc[0]) = 0
      BY <3>1 DEF Outstanding
    <3>3. "drop" \in Pcs
      BY DEF Pcs
    <3> QED BY <1>1, <3>1, <3>2, <3>3, ViewFacts DEF AtRest
  <2> HIDE DEF M
  <2>5. ASSUME Calm, Calm'
        PROVE  /\ Framed(mode.split, calls, M, WorkerView, up[1], chan'[0], chan'[1])
               /\ ~up[1]
    BY <1>7, <1>9, <2>4, <2>5
  <2>6. up'[0] \/ failed'[0]
    BY <1>2, <1>5 DEF Control, LeaderControl
  <2> QED BY <2>2, <2>3, <2>5, <2>6, LeaderSeen DEF M
<1> QED BY <1>8, <1>9


(* While the leader reads logits.                                          *)
LEMMA ReadsLogits ==
  ASSUME Types, LeaderControl, pc[0] = "logits"
  PROVE  /\ job[0].op \in {"create", "destroy", "sync", "batch", "eval", "verify"}
         /\ LeaderView \in Views /\ ~LeaderView.ack /\ ~LeaderView.block /\ ~LeaderView.cycle
         /\ LeaderView.due = loc[0].want
         /\ (loc[0].want # 0 => ~AtRest(LeaderView) /\ LeaderView.job = job[0])
         /\ (loc[0].want = 0 => AtRest(LeaderView))
         /\ loc[0].want \in Nat
<1>1. /\ job[0] \in Jobs /\ loc[0] \in Locals /\ mode.split \in BOOLEAN
  BY StandsStill, RankFacts DEF Types
<1>2. job[0].op \in {"create", "destroy", "sync", "batch", "eval", "verify"}
  <2>1. job[0].op \in Ops
    BY <1>1 DEF Jobs, JobRecords
  <2> QED BY <2>1 DEF LeaderControl, Ops, AckOps, Halfway
<1>3. LeaderView = ViewOf(mode.split, "logits", job[0], loc[0])
  BY DEF LeaderView
<1>4. loc[0].want \in Nat
  BY <1>1 DEF Locals
<1> QED BY <1>1, <1>2, <1>3, <1>4, DueView

LEMMA LogitsArriveInv ==
  ASSUME Types, Control, StreamInv, LogitsArrive
  PROVE  Types' /\ Control' /\ StreamInv'
<1> DEFINE l == [loc[0] EXCEPT !.want = @ - 1]
<1>1. /\ job[0] \in Jobs /\ loc[0] \in Locals /\ mode.split \in BOOLEAN
      /\ job = [job EXCEPT ![0] = job[0]] /\ pc = [pc EXCEPT ![0] = pc[0]]
  BY StandsStill, RankFacts DEF Types
<1>2. /\ pc' = pc /\ loc' = [loc EXCEPT ![0] = l] /\ job' = job
      /\ UNCHANGED <<mode, calls, created, mirror, up, failed>>
      /\ pc[0] = "logits" /\ loc[0].want > 0 /\ chan[0] # <<>> /\ chan' = Taken(0)
  BY DEF LogitsArrive, still, Arrives, Take
<1>3. /\ job[0].op \in {"create", "destroy", "sync", "batch", "eval", "verify"}
      /\ ~LeaderView.ack /\ LeaderView.due = loc[0].want /\ LeaderView.job = job[0]
      /\ loc[0].want \in Nat
  BY <1>2, ReadsLogits DEF Control
<1>4. l \in Locals /\ l.want = loc[0].want - 1 /\ l.phase = loc[0].phase /\ l.ok = loc[0].ok
  <2>1. loc[0].want - 1 \in Nat
    BY <1>2, <1>3
  <2> QED BY <1>1, <2>1 DEF Locals
<1> HIDE DEF l
<1>5. /\ Queues(chan') /\ chan'[0] = Tail(chan[0]) /\ chan'[1] = chan[1]
  BY <1>2, TakenFrom, RankFacts DEF Types
<1>6. Stepped(0, "logits", job[0], l)
  BY <1>1, <1>2, <1>4, <1>5, RankFacts DEF Stepped, Types, Pcs
<1>7. job[0].op \notin {"create", "destroy"}
  BY <1>2 DEF Control, LeaderControl
<1>8. LeaderAt("logits", job[0], l, calls, failed'[0])
  BY <1>2, <1>3, <1>4, <1>7 DEF LeaderAt, Control, LeaderControl
<1>9. ASSUME Calm PROVE Framed(mode.split, calls, ViewOf(mode.split, "logits", job[0], l), WorkerView, up[1], chan'[0], chan'[1])
  <2>1. PICK sp \in BOOLEAN, on \in BOOLEAN, n \in Nat, L \in Views, W \in Views,
             c0 \in Seq(Answers), c1 \in Seq(Orders), d0 \in Seq(Answers), d1 \in Seq(Orders) :
          /\ Now(sp, on, n, L, W, c0, c1, d0, d1) /\ Framed(sp, n, L, W, on, c0, c1)
    BY <1>5, <1>9, CalmNow
  <2>2. PICK M \in Views : /\ M = ViewOf(mode.split, "logits", job[0], l) /\ ~M.ack /\ M.due = l.want
                           /\ ~M.block /\ ~M.cycle /\ (~AtRest(M) => M.job = job[0])
    BY <1>1, <1>4, DueView
  <2>3. ~L.ack /\ L.due # 0 /\ L.due = loc[0].want /\ c0 # <<>> /\ d0 = Tail(c0) /\ L.job = job[0]
    BY <1>2, <1>3, <1>5, <2>1 DEF Now
  <2>4. M.due = L.due - 1 /\ (~AtRest(M) => M.job = L.job)
    BY <1>4, <2>2, <2>3
  <2>5. Framed(sp, n, M, W, on, d0, c1)
    <3>1. Framed(sp, n, L, W, on, c0, c1)
      BY <2>1
    <3>2. M \in Views /\ ~M.ack /\ ~M.block /\ ~M.cycle
      BY <2>2
    <3>3. ~L.ack /\ L.due # 0 /\ c0 # <<>> /\ d0 = Tail(c0)
      BY <2>3
    <3> QED BY <2>4, <3>1, <3>2, <3>3, LogitsTaken, ZenonT(90)
  <2> QED BY <1>5, <2>1, <2>2, <2>5 DEF Now
<1> QED BY <1>2, <1>6, <1>8, <1>9, LeaderSeen DEF Control, LeaderControl

(* Nothing comes any more: the worker is gone and its last frames are read.*)
LEMMA LogitsMissingInv ==
  ASSUME Types, Control, StreamInv, LogitsMissing
  PROVE  Types' /\ Control' /\ StreamInv'
<1>1. /\ job[0] \in Jobs /\ loc[0] \in Locals /\ mode.split \in BOOLEAN /\ pc[0] \in Pcs
      /\ job = [job EXCEPT ![0] = job[0]] /\ loc = [loc EXCEPT ![0] = loc[0]]
  BY StandsStill, RankFacts DEF Types
<1>2. /\ UNCHANGED <<mode, calls, created, up, chan>> /\ pc[0] = "logits"
      /\ loc[0].want > 0 /\ ReadFails(0, "logits")
      /\ job[0].op = "verify" => Return /\ mirror' = [mirror EXCEPT ![0][job[0].s].valid = FALSE]
      /\ job[0].op # "verify" => Goto(0, "drop") /\ UNCHANGED <<mirror, job, loc>>
  BY DEF LogitsMissing, still, sock
<1>3. /\ job[0].op \in {"create", "destroy", "sync", "batch", "eval", "verify"}
      /\ ~LeaderView.ack /\ LeaderView.due = loc[0].want /\ LeaderView.job = job[0]
      /\ loc[0].want \in Nat /\ ~LeaderView.cycle
  BY <1>2, ReadsLogits DEF Control
<1>4. failed' \in [Rank -> BOOLEAN] /\ failed'[1] = failed[1] /\ (failed[0] => failed'[0])
  <2>1. failed' = failed \/ failed' = [failed EXCEPT ![0] = TRUE]
    BY DEF LogitsMissing, MarkFailed
  <2>2. CASE failed' = failed
    BY <2>2 DEF Types
  <2>3. CASE failed' = [failed EXCEPT ![0] = TRUE]
    BY <2>3, RankFacts DEF Types
  <2> QED BY <2>1, <2>2, <2>3
<1>5. Queues(chan')
  BY <1>2 DEF Types
<1>6. ASSUME Calm, NEW M \in Views, AtRest(M)
      PROVE  Framed(mode.split, calls, M, WorkerView, up[1], chan'[0], chan'[1]) /\ ~up[1]
  <2>1. PICK sp \in BOOLEAN, on \in BOOLEAN, n \in Nat, L \in Views, W \in Views,
             c0 \in Seq(Answers), c1 \in Seq(Orders), d0 \in Seq(Answers), d1 \in Seq(Orders) :
          /\ Now(sp, on, n, L, W, c0, c1, d0, d1) /\ Framed(sp, n, L, W, on, c0, c1)
    BY <1>5, <1>6, CalmNow
  <2>2. ~L.ack /\ ~L.cycle
    BY <1>3, <2>1 DEF Now
  <2>3. \A i \in DOMAIN c0 : c0[i].t = "logits"
    BY <2>1, <2>2 DEF Framed, ToLeader
  <2>4. c0 # <<>> => Head(c0).t = "logits"
    BY <2>1, <2>3
  <2>5. up[0] /\ Peer(0) = 1
    BY <1>6, CalmFacts, RankFacts
  <2>6. ~up[1] /\ c0 = <<>>
    BY <1>2, <2>1, <2>4, <2>5 DEF ReadFails, Now
  <2>7. c1 = <<>>
    BY <2>1, <2>6 DEF Framed, Now
  <2>8. ToLeader(n, M, c0)
    BY <1>6, <2>6, NothingOnItsWay DEF AtRest
  <2>9. Framed(sp, n, M, W, FALSE, c0, c1) /\ on = FALSE
    BY <2>1, <2>6, <2>7, <2>8 DEF Framed, Now
  <2> QED BY <1>2, <2>1, <2>6, <2>9 DEF Now
<1>7. CASE job[0].op = "verify"
  <2>1. mirror' \in [Rank -> [Sessions -> Mirrors]]
    BY <1>2, <1>7, UnvalidTyped, RankFacts
  <2> QED BY <1>2, <1>4, <1>5, <1>6, <1>7, <2>1, Returned
<1>8. CASE job[0].op # "verify"
  <2> DEFINE M == ViewOf(mode.split, "drop", job[0], loc[0])
  <2>1. pc' = [pc EXCEPT ![0] = "drop"] /\ UNCHANGED <<mirror, job, loc>>
    BY <1>2, <1>8 DEF Goto
  <2>2. Stepped(0, "drop", job[0], loc[0])
    BY <1>1, <1>2, <1>4, <1>5, <2>1, RankFacts DEF Stepped, Types, Pcs
  <2>3. job[0].op \notin {"create", "destroy"}
    BY <1>2 DEF Control, LeaderControl
  <2>4. LeaderAt("drop", job[0], loc[0], calls, failed'[0])
    BY <1>3, <1>8, <2>3 DEF LeaderAt, Control, LeaderControl
  <2>5. M \in Views /\ AtRest(M)
    <3>1. /\ ~Unacknowledged("drop", job[0]) /\ ~Undecided("drop", job[0], loc[0]) /\ ~InCycle("drop", job[0])
          /\ ~Replaying("drop", job[0], loc[0]) /\ ~Evaluating("drop", job[0])
      BY DEF Unacknowledged, Undecided, InCycle, Replaying, Evaluating, Halfway
    <3>2. Outstanding(mode.split, "drop", job[0], loc[0]) = 0
      BY <3>1 DEF Outstanding
    <3>3. "drop" \in Pcs
      BY DEF Pcs
    <3> QED BY <1>1, <3>1, <3>2, <3>3, ViewFacts DEF AtRest
  <2> HIDE DEF M
  <2>6. ASSUME Calm
        PROVE  /\ Framed(mode.split, calls, M, WorkerView, up[1], chan'[0], chan'[1])
               /\ ~up[1]
    BY <1>6, <2>5, <2>6
  <2>7. up'[0] \/ failed'[0]
    BY <1>2, <1>4 DEF Control, LeaderControl
  <2> QED BY <2>2, <2>4, <2>6, <2>7, LeaderSeen DEF M
<1> QED BY <1>7, <1>8

LEMMA AnsweredInv ==
  ASSUME Types, Control, StreamInv, Answered
  PROVE  Types' /\ Control' /\ StreamInv'
<1>1. /\ job[0] \in Jobs /\ loc[0] \in Locals /\ mode.split \in BOOLEAN /\ pc[0] \in Pcs
      /\ job = [job EXCEPT ![0] = job[0]] /\ loc = [loc EXCEPT ![0] = loc[0]]
  BY StandsStill, RankFacts DEF Types
<1>2. /\ UNCHANGED <<mode, calls, created, up, chan>> /\ pc[0] = "logits" /\ loc[0].want = 0
  BY DEF Answered, still, sock
<1>3. /\ job[0].op \in {"create", "destroy", "sync", "batch", "eval", "verify"}
      /\ LeaderView \in Views /\ AtRest(LeaderView)
  BY <1>2, ReadsLogits DEF Control
<1>4. CASE loc[0].ok
  <2>1. /\ Return /\ failed' = failed
        /\ mirror' = CASE job[0].op = "create" -> [mirror EXCEPT ![0][job[0].s].open = TRUE]
                       [] job[0].op = "destroy" -> [mirror EXCEPT ![0][job[0].s] = Closed]
                       [] OTHER -> mirror
    BY <1>4 DEF Answered
  <2>2. mirror' \in [Rank -> [Sessions -> Mirrors]]
    <3>1. [mirror EXCEPT ![0][job[0].s].open = TRUE] \in [Rank -> [Sessions -> Mirrors]]
      <4> DEFINE x == [mirror[0][job[0].s] EXCEPT !.open = TRUE]
      <4>1. job[0].s \in Sessions => x \in Mirrors
        <5>1. job[0].s \in Sessions => mirror[0][job[0].s] \in Mirrors
          BY RankFacts DEF Types
        <5> QED BY <5>1 DEF Mirrors
      <4>2. [mirror EXCEPT ![0][job[0].s].open = TRUE] = [mirror EXCEPT ![0][job[0].s] = x]
        OBVIOUS
      <4> HIDE DEF x
      <4> QED BY <4>1, <4>2, SetTyped, RankFacts
    <3>2. [mirror EXCEPT ![0][job[0].s] = Closed] \in [Rank -> [Sessions -> Mirrors]]
      BY SetTyped, JobTyped, RankFacts
    <3>3. mirror \in [Rank -> [Sessions -> Mirrors]]
      BY DEF Types
    <3> QED BY <2>1, <3>1, <3>2, <3>3, ZenonT(60)
  <2>3. /\ Queues(chan') /\ failed' \in [Rank -> BOOLEAN] /\ failed'[1] = failed[1]
        /\ (failed[0] => failed'[0])
    BY <1>2, <2>1 DEF Types
  <2>4. ASSUME Calm, NEW M \in Views, AtRest(M), M.job = Job, M.sent = 0, M.heard = 0
        PROVE  Framed(mode.split, calls, M, WorkerView, up[1], chan'[0], chan'[1])
    <3>1. M = LeaderView
      BY <1>1, <1>3, <2>4, SameRest DEF LeaderView
    <3> QED BY <1>2, <2>4, <3>1 DEF StreamInv
  <2> QED BY <1>2, <2>1, <2>2, <2>3, <2>4, Returned
<1>5. CASE ~loc[0].ok
  <2>1. pc' = [pc EXCEPT ![0] = "drop"] /\ failed' = [failed EXCEPT ![0] = TRUE] /\ UNCHANGED <<mirror, job, loc>>
    BY <1>5 DEF Answered, MarkFailed, Goto
  <2>2. failed' \in [Rank -> BOOLEAN] /\ failed'[1] = failed[1] /\ failed'[0]
    BY <2>1, RankFacts DEF Types
  <2>3. Stepped(0, "drop", job[0], loc[0])
    BY <1>1, <1>2, <2>1, <2>2, RankFacts DEF Stepped, Types, Pcs
  <2>4. LeaderAt("drop", job[0], loc[0], calls, failed'[0])
    BY <1>2, <1>3, <1>5, <2>2 DEF LeaderAt, Control, LeaderControl
  <2> QED BY <2>2, <2>3, <2>4, LeaderFails
<1> QED BY <1>4, <1>5


-----------------------------------------------------------------------------
(* The leader's decision about a block.                                    *)
LEMMA UndecidedView ==
  ASSUME NEW sp \in BOOLEAN, NEW p \in Halfway \cup {"commit"}, NEW j \in Jobs, j.op = "verify",
         NEW l \in Locals, l.phase = 0, NEW V, V = ViewOf(sp, p, j, l)
  PROVE  V \in Views /\ ~V.ack /\ V.due = 0 /\ V.block /\ ~V.cycle /\ V.job = j
<1>1. p \in Pcs /\ p \notin {"logits", "reply"}
  BY DEF Pcs, Halfway
<1>2. /\ ~Unacknowledged(p, j) /\ Undecided(p, j, l) /\ ~InCycle(p, j)
      /\ ~Replaying(p, j, l) /\ ~Evaluating(p, j)
  BY DEF Unacknowledged, Undecided, InCycle, Replaying, Evaluating, AckOps
<1>3. Outstanding(sp, p, j, l) = 0
  BY <1>1, <1>2 DEF Outstanding
<1> QED BY <1>1, <1>2, <1>3, ViewFacts DEF AtRest

LEMMA KeptTyped ==
  ASSUME Types, NEW r \in Rank, NEW s, NEW a \in Int, NEW b \in Int
  PROVE  [mirror EXCEPT ![r][s] = Kept(@, a, b)] \in [Rank -> [Sessions -> Mirrors]]
<1> DEFINE x == [mirror[r][s] EXCEPT !.front = a]
           y == [x EXCEPT !.len = b]
<1>1. s \in Sessions => x \in Mirrors
  <2>1. s \in Sessions => mirror[r][s] \in Mirrors
    BY DEF Types
  <2> QED BY <2>1 DEF Mirrors
<1>2. Kept(mirror[r][s], a, b) = y
  BY ZenonT(60) DEF Kept
<1> HIDE DEF x
<1>3. s \in Sessions => y \in Mirrors
  BY <1>1 DEF Mirrors
<1> HIDE DEF y
<1>4. [mirror EXCEPT ![r][s] = Kept(@, a, b)] = [mirror EXCEPT ![r][s] = y]
  BY <1>2
<1> QED BY <1>3, <1>4, SetTyped

(* The commit is on its way, or nobody will read it.                       *)
LEMMA Decides ==
  ASSUME Types, Control, StreamInv, Calm, pc[0] \in Halfway, job[0].op = "verify", loc[0].phase = 0,
         NEW f \in CommitFrames,
         chan' = Put(chan, 0, <<f>>) \/ (WriteFails(0) /\ chan' = chan),
         NEW M \in Views, ~M.ack, M.due = LogitsFor(mode.split, f) \/ ~up[1],
         ~M.block, ~M.cycle, ~AtRest(M) => M.job = job[0]
  PROVE  Framed(mode.split, calls, M, WorkerView, up[1], chan'[0], chan'[1])
<1>1. /\ job[0] \in Jobs /\ loc[0] \in Locals /\ mode.split \in BOOLEAN /\ up \in [Rank -> BOOLEAN]
      /\ Queues(chan)
  BY StandsStill, RankFacts DEF Types
<1>2. f \in Orders
  BY DEF Orders
<1>3. \/ /\ Queues(chan') /\ chan'[0] = chan[0]
         /\ chan'[1] = IF up[1] THEN Append(chan[1], f) ELSE chan[1]
      \/ WriteFails(0) /\ chan' = chan
  BY <1>1, <1>2, Ordered1
<1>4. Queues(chan')
  BY <1>1, <1>3
<1>5. PICK sp \in BOOLEAN, on \in BOOLEAN, n \in Nat, L \in Views, W \in Views,
           c0 \in Seq(Answers), c1 \in Seq(Orders), d0 \in Seq(Answers), d1 \in Seq(Orders) :
        /\ Now(sp, on, n, L, W, c0, c1, d0, d1) /\ Framed(sp, n, L, W, on, c0, c1)
  BY <1>4, CalmNow
<1>6. /\ LeaderView \in Views /\ ~LeaderView.ack /\ LeaderView.due = 0 /\ LeaderView.block
      /\ ~LeaderView.cycle /\ LeaderView.job = job[0]
  BY <1>1, UndecidedView DEF LeaderView
<1>7. ~L.ack /\ L.due = 0 /\ L.block /\ ~L.cycle /\ (~AtRest(M) => M.job = L.job)
  BY <1>5, <1>6 DEF Now
<1>8. CASE on
  <2>1. up[1] /\ up[0] /\ Peer(0) = 1
    BY <1>5, <1>8, CalmFacts, RankFacts DEF Now
  <2>2. d1 = Append(c1, f) /\ d0 = c0
    BY <1>3, <1>5, <2>1 DEF Now, WriteFails
  <2>3. Framed(sp, n, L, W, TRUE, c0, c1) /\ on = TRUE
    BY <1>5, <1>8
  <2>4. M.due = LogitsFor(sp, f)
    BY <1>5, <2>1 DEF Now
  <2>5. Framed(sp, n, M, W, TRUE, c0, d1)
    BY <1>7, <2>2, <2>3, <2>4, Decided, ZenonT(60)
  <2> QED BY <1>5, <2>2, <2>3, <2>5 DEF Now
<1>9. CASE ~on
  <2>1. d1 = c1 /\ d0 = c0 /\ on = FALSE
    BY <1>3, <1>5, <1>9 DEF Now
  <2>2. Framed(sp, n, L, W, FALSE, c0, c1)
    BY <1>5, <2>1
  <2>3. ~AtRest(M) => M.job.c = n
    <3>1. ~AtRest(L) /\ L.job.c = n
      BY <1>7, <2>2 DEF Framed, ToLeader, AtRest
    <3> QED BY <1>7, <3>1
  <2>4. Framed(sp, n, M, W, FALSE, c0, c1)
    BY <1>7, <2>2, <2>3, Unread, ZenonT(60)
  <2> QED BY <1>5, <2>1, <2>4 DEF Now
<1> QED BY <1>8, <1>9

LEMMA DecideInv ==
  ASSUME Types, Control, StreamInv, NEW c \in 1 .. MaxBlock, Decide(c)
  PROVE  Types' /\ Control' /\ StreamInv'
<1> DEFINE f == IF c = job[0].n THEN Commit(1, 0) ELSE Commit(2, c)
<1>1. /\ job[0] \in Jobs /\ loc[0] \in Locals /\ job[0].c \in Nat /\ loc[0].start \in Int
      /\ Queues(chan) /\ mirror \in [Rank -> [Sessions -> Mirrors]] /\ c \in Nat
      /\ up \in [Rank -> BOOLEAN]
  BY StandsStill, RankFacts, BoundAssumption DEF Types, Jobs, JobRecords, Locals
<1>2. /\ pc[0] \in Halfway /\ job[0].op = "verify" /\ loc[0].phase = 0 /\ Return
      /\ UNCHANGED <<mode, calls, created, up, failed>>
  BY DEF Decide, Verified, After, still, Halfway
<1>3. \/ /\ mirror' = [mirror EXCEPT ![0][job[0].s] = Kept(@, Start(0) + c, Start(0) + c)]
         /\ chan' = Put(chan, 0, <<f>>)
      \/ /\ WriteFails(0) /\ chan' = chan
         /\ mirror' = [mirror EXCEPT ![0][job[0].s].valid = FALSE]
  BY DEF Decide, Write
<1>4. f \in CommitFrames /\ f.t = "commit" /\ f.full # 0
  BY <1>1 DEF Commit, CommitFrames
<1> HIDE DEF f
<1>5. LogitsFor(mode.split, f) = 0
  BY <1>4 DEF LogitsFor, IsCmd
<1>6. mirror' \in [Rank -> [Sessions -> Mirrors]]
  <2>1. Start(0) + c \in Int
    BY <1>1 DEF Start
  <2> QED BY <1>3, <2>1, KeptTyped, UnvalidTyped, RankFacts
<1>7. Queues(chan')
  <2>1. f \in Orders
    BY <1>4 DEF Orders
  <2> QED BY <1>1, <1>3, <2>1, Ordered1
<1>8. failed' \in [Rank -> BOOLEAN] /\ failed'[1] = failed[1] /\ (failed[0] => failed'[0])
  BY <1>2 DEF Types
<1>9. ASSUME Calm, NEW M \in Views, AtRest(M)
      PROVE  Framed(mode.split, calls, M, WorkerView, up[1], chan'[0], chan'[1])
  BY <1>2, <1>3, <1>4, <1>5, <1>9, Decides DEF AtRest
<1> QED BY <1>2, <1>6, <1>7, <1>8, <1>9, Returned

LEMMA RollBackInv ==
  ASSUME Types, Control, StreamInv, NEW k \in 0 .. MaxBlock, RollBack(k)
  PROVE  Types' /\ Control' /\ StreamInv'
<1> DEFINE f == Commit(0, k)
<1>1. /\ job[0] \in Jobs /\ loc[0] \in Locals /\ job[0].c \in Nat /\ loc[0].start \in Int
      /\ Queues(chan) /\ mirror \in [Rank -> [Sessions -> Mirrors]] /\ k \in Nat
      /\ up \in [Rank -> BOOLEAN] /\ job = [job EXCEPT ![0] = job[0]] /\ mode.split \in BOOLEAN
  BY StandsStill, RankFacts, BoundAssumption DEF Types, Jobs, JobRecords, Locals
<1>2. /\ pc[0] \in Halfway /\ job[0].op = "verify" /\ loc[0].phase = 0
      /\ UNCHANGED <<mode, calls, created, up, failed>>
      /\ mirror' = [mirror EXCEPT ![0][job[0].s] = Kept(@, Start(0), Start(0))]
      /\ chan' = Put(chan, 0, <<f>>)
  BY DEF RollBack, Verified, After, still, Halfway, Write
<1>3. /\ f \in CommitFrames /\ f.t = "commit" /\ f.full = 0 /\ f.k = k
  BY <1>1 DEF Commit, CommitFrames
<1> HIDE DEF f
<1>4. LogitsFor(mode.split, f) = IF k > 0 THEN One(mode.split) ELSE 0
  BY <1>3 DEF LogitsFor, IsCmd, One
<1>5. mirror' \in [Rank -> [Sessions -> Mirrors]]
  BY <1>1, <1>2, KeptTyped, RankFacts DEF Start
<1>6. Queues(chan')
  <2>1. f \in Orders
    BY <1>3 DEF Orders
  <2> QED BY <1>1, <1>2, <2>1, Ordered1
<1>7. failed' \in [Rank -> BOOLEAN] /\ failed'[1] = failed[1] /\ (failed[0] => failed'[0])
  BY <1>2 DEF Types
<1>8. CASE (k = 0 \/ WriteFails(0)) /\ Return
  <2>1. ASSUME Calm, NEW M \in Views, AtRest(M)
        PROVE  Framed(mode.split, calls, M, WorkerView, up[1], chan'[0], chan'[1])
    <3>1. k = 0 \/ ~up[1]
      BY <1>8, <2>1, CalmFacts, RankFacts DEF WriteFails
    <3>2. M.due = LogitsFor(mode.split, f) \/ ~up[1]
      BY <1>4, <2>1, <3>1 DEF AtRest
    <3> QED BY <1>2, <1>3, <2>1, <3>2, Decides DEF AtRest
  <2> QED BY <1>2, <1>5, <1>6, <1>7, <1>8, <2>1, Returned
<1>9. CASE k > 0 /\ loc' = [loc EXCEPT ![0].acc = k, ![0].phase = 1] /\ Goto(0, "replay") /\ job' = job
  <2> DEFINE a == [loc[0] EXCEPT !.acc = k]
             l == [a EXCEPT !.phase = 1]
             M == ViewOf(mode.split, "replay", job[0], l)
  <2>1. loc' = [loc EXCEPT ![0] = l]
    BY <1>1, <1>9, RankFacts DEF Types
  <2>2. a \in Locals /\ a.ok = loc[0].ok
    BY <1>1 DEF Locals
  <2> HIDE DEF a
  <2>3. l \in Locals /\ l.phase = 1 /\ l.ok = loc[0].ok
    BY <2>2 DEF Locals, Phases
  <2> HIDE DEF l
  <2>4. pc' = [pc EXCEPT ![0] = "replay"]
    BY <1>9 DEF Goto
  <2>5. Stepped(0, "replay", job[0], l)
    BY <1>1, <1>2, <1>5, <1>6, <1>7, <1>9, <2>1, <2>3, <2>4, RankFacts DEF Stepped, Types, Pcs
  <2>6. LeaderAt("replay", job[0], l, calls, failed'[0])
    BY <1>2, <2>3 DEF LeaderAt, Control, LeaderControl
  <2>7. M = ViewOf(mode.split, "run", job[0], l) /\ "run" \in Halfway
    <3>1. "run" \in Halfway /\ "replay" \in Halfway \cup {"replay"}
      BY DEF Halfway
    <3>2. ViewOf(mode.split, "replay", job[0], l) = ViewOf(mode.split, "run", job[0], l)
      BY <1>2, <2>3, <3>1, HalfwayView
    <3> QED BY <3>1, <3>2
  <2>8. /\ M \in Views /\ ~M.ack /\ ~M.block /\ ~M.cycle /\ M.due = One(mode.split)
        /\ (~AtRest(M) => M.job = job[0])
    BY <1>1, <1>2, <2>3, <2>7, HalfView
  <2> HIDE DEF M
  <2>9. M.due = LogitsFor(mode.split, f)
    BY <1>4, <1>9, <2>8
  <2>10. Calm => Framed(mode.split, calls, M, WorkerView, up[1], chan'[0], chan'[1])
    BY <1>2, <1>3, <2>8, <2>9, Decides
  <2>11. up'[0] \/ failed'[0]
    BY <1>2, <1>7 DEF Control, LeaderControl
  <2> QED BY <2>5, <2>6, <2>10, <2>11, LeaderSeen DEF M
<1> QED BY <1>8, <1>9 DEF RollBack


-----------------------------------------------------------------------------
(* Native cycles.                                                          *)
LEMMA CycleView ==
  ASSUME NEW sp \in BOOLEAN, NEW p \in Halfway \cup {"check", "hear"}, NEW j \in Jobs, j.op = "native",
         NEW l \in Locals, NEW V, V = ViewOf(sp, p, j, l)
  PROVE  /\ V \in Views /\ ~V.ack /\ V.due = 0 /\ ~V.block /\ V.cycle /\ V.job = j
         /\ V.sent = Sent(p, l) /\ V.heard = Heard(p, l)
<1>1. p \in Pcs /\ p \notin {"logits", "reply"}
  BY DEF Pcs, Halfway
<1>2. /\ ~Unacknowledged(p, j) /\ ~Undecided(p, j, l) /\ InCycle(p, j)
      /\ ~Replaying(p, j, l) /\ ~Evaluating(p, j)
  BY DEF Unacknowledged, Undecided, InCycle, Replaying, Evaluating, AckOps
<1>3. Outstanding(sp, p, j, l) = 0
  BY <1>1, <1>2 DEF Outstanding
<1> QED BY <1>1, <1>2, <1>3, ViewFacts DEF AtRest

(* The agreement that a rank sends, and what it then waits for.            *)
LEMMA Proposes ==
  ASSUME Types, Control, NEW r \in Rank, AgreeSend(r)
  PROVE  \E f \in AgreeFrames, l \in Locals :
           /\ job[r].op = "native" /\ pc[r] \in Halfway \cup {"check"}
           /\ f.c = job[r].c /\ f.phase = NextPhase(r) /\ l.phase = NextPhase(r)
           /\ Nth(NextPhase(r)) = Sent(pc[r], loc[r]) + 1
           /\ Sent(pc[r], loc[r]) \in 0 .. 3 /\ Heard(pc[r], loc[r]) = Sent(pc[r], loc[r])
           /\ chan' = Put(chan, r, <<f>>)
           /\ pc' = [pc EXCEPT ![r] = "hear"] /\ loc' = [loc EXCEPT ![r] = l] /\ job' = job
           /\ UNCHANGED <<mode, calls, created, mirror, up, failed>>
<1>1. /\ job[r] \in Jobs /\ loc[r] \in Locals /\ job[r].c \in Nat /\ loc[r].acc \in Nat
      /\ job[r].op \in Ops /\ job[r].n \in Nat /\ loc[r].phase \in Phases
  BY StandsStill DEF Types, Jobs, JobRecords, Locals
<1>2. r = 0 \/ r = 1
  BY RankFacts
<1>3. job[r].op = "native" /\ pc[r] \in {"check", "done", "lost"}
  <2>1. pc[r] = "check" => job[r].op = "native"
    BY <1>1, <1>2 DEF Control, LeaderControl, WorkerControl, Ops, AckOps, Halfway
  <2> QED BY <2>1 DEF AgreeSend, After
<1>4. pc[r] # "check" => loc[r].phase # 9
  BY <1>2, <1>3 DEF Control, LeaderControl, WorkerControl, Halfway
<1>5. /\ NextPhase(r) \in Phases /\ Nth(NextPhase(r)) = Sent(pc[r], loc[r]) + 1
      /\ Sent(pc[r], loc[r]) \in 0 .. 3 /\ Heard(pc[r], loc[r]) = Sent(pc[r], loc[r])
  <2>1. CASE pc[r] = "check"
    <3>1. NextPhase(r) = 0 /\ Sent(pc[r], loc[r]) = 0 /\ Heard(pc[r], loc[r]) = 0
      <4>1. NextPhase(r) = 0
        BY <2>1 DEF NextPhase
      <4>2. Sent(pc[r], loc[r]) = 0
        BY <2>1 DEF Sent
      <4>3. Heard(pc[r], loc[r]) = Sent(pc[r], loc[r])
        BY <2>1 DEF Heard
      <4> QED BY <4>1, <4>2, <4>3
    <3>2. Nth(0) = 1
      BY DEF Nth
    <3> QED BY <3>1, <3>2 DEF Phases
  <2>2. CASE pc[r] # "check"
    <3>1. Sent(pc[r], loc[r]) = Nth(loc[r].phase) /\ Heard(pc[r], loc[r]) = Nth(loc[r].phase)
      BY <1>3, <2>2 DEF Sent, Heard
    <3>2. Nth(0) = 1 /\ Nth(1) = 2 /\ Nth(8) = 3 /\ Nth(9) = 4
      BY DEF Nth
    <3>3. \/ loc[r].phase = 0 /\ NextPhase(r) = 1
          \/ loc[r].phase = 1 /\ NextPhase(r) = 8
          \/ loc[r].phase = 8 /\ NextPhase(r) = 9
      <4>1. loc[r].phase \in {0, 1, 8}
        BY <1>1, <1>4, <2>2 DEF Phases
      <4> QED BY <2>2, <4>1 DEF NextPhase
    <3> QED BY <3>1, <3>2, <3>3 DEF Phases
  <2> QED BY <2>1, <2>2
<1>6. PICK acc \in Accepts(r) :
        LET bad == pc[r] = "lost" \/ failed[r] \/ (pc[r] = "check" /\ ~CycleFits(r))
        IN /\ loc' = [loc EXCEPT ![r].phase = NextPhase(r), ![r].acc = acc, ![r].ok = ~bad]
           /\ Write(r, <<[Agreement(r, NextPhase(r), bad) EXCEPT !.acc = acc]>>)
  BY DEF AgreeSend
<1>7. acc \in Nat
  BY <1>1, <1>6 DEF Accepts
<1>8. PICK bad \in BOOLEAN :
        /\ loc' = [loc EXCEPT ![r].phase = NextPhase(r), ![r].acc = acc, ![r].ok = ~bad]
        /\ Write(r, <<[Agreement(r, NextPhase(r), bad) EXCEPT !.acc = acc]>>)
  BY <1>6
<1> DEFINE f == [Agreement(r, NextPhase(r), bad) EXCEPT !.acc = acc]
           ph == NextPhase(r)
           a == [loc[r] EXCEPT !.phase = ph]
           b == [a EXCEPT !.acc = acc]
           l == [b EXCEPT !.ok = ~bad]
<1>9. f \in AgreeFrames /\ f.c = job[r].c /\ f.phase = NextPhase(r)
  BY <1>1, <1>5, <1>7 DEF Agreement, AgreeFrames
<1>10. chan' = Put(chan, r, <<f>>)
  BY <1>8 DEF Write
<1> HIDE DEF f, ph
<1>11. loc' = [loc EXCEPT ![r] = l]
  <2>1. loc' = [loc EXCEPT ![r].phase = ph, ![r].acc = acc, ![r].ok = ~bad]
    BY <1>8 DEF ph
  <2> QED BY <2>1 DEF Types
<1>12. a \in Locals /\ a.phase = ph
  BY <1>1, <1>5 DEF Locals, ph
<1> HIDE DEF a
<1>13. b \in Locals /\ b.phase = ph
  BY <1>7, <1>12 DEF Locals
<1> HIDE DEF b
<1>14. l \in Locals /\ l.phase = ph
  BY <1>13 DEF Locals
<1> HIDE DEF l
<1>15. l.phase = NextPhase(r)
  BY <1>14 DEF ph
<1>16. /\ pc' = [pc EXCEPT ![r] = "hear"] /\ job' = job
       /\ UNCHANGED <<mode, calls, created, mirror, up, failed>>
  BY DEF AgreeSend, Goto, still
<1>17. pc[r] \in Halfway \cup {"check"}
  BY <1>3 DEF Halfway
<1> QED BY <1>3, <1>5, <1>9, <1>10, <1>11, <1>14, <1>15, <1>16, <1>17

(* What a rank in a cycle has sent and heard, before and after it sends.   *)
LEMMA ProposesView ==
  ASSUME Types, Control, NEW r \in Rank, job[r].op = "native", pc[r] \in Halfway \cup {"check"},
         NEW l \in Locals, l.phase = NextPhase(r), Nth(NextPhase(r)) = Sent(pc[r], loc[r]) + 1,
         Heard(pc[r], loc[r]) = Sent(pc[r], loc[r]), Sent(pc[r], loc[r]) \in 0 .. 3,
         NEW sp \in BOOLEAN,
         NEW V, V = ViewOf(sp, pc[r], job[r], loc[r]), NEW U, U = ViewOf(sp, "hear", job[r], l)
  PROVE  /\ V \in Views /\ V.cycle /\ V.sent = V.heard /\ V.sent <= 3 /\ V.sent \in Nat /\ V.job = job[r]
         /\ V.sent = Sent(pc[r], loc[r])
         /\ U \in Views /\ ~U.ack /\ U.due = 0 /\ ~U.block /\ U.cycle /\ U.job = job[r]
         /\ U.sent = V.sent + 1 /\ U.heard = V.heard
<1>1. job[r] \in Jobs /\ loc[r] \in Locals
  BY StandsStill
<1>2. /\ V \in Views /\ V.cycle /\ V.job = job[r] /\ V.sent = Sent(pc[r], loc[r]) /\ V.heard = Heard(pc[r], loc[r])
  BY <1>1, CycleView
<1>3. /\ U \in Views /\ ~U.ack /\ U.due = 0 /\ ~U.block /\ U.cycle /\ U.job = job[r]
      /\ U.sent = Sent("hear", l) /\ U.heard = Heard("hear", l)
  BY <1>1, CycleView
<1>4. Sent("hear", l) = Nth(l.phase) /\ Heard("hear", l) = Nth(l.phase) - 1
  BY DEF Sent, Heard
<1>5. Nth(l.phase) = Sent(pc[r], loc[r]) + 1
  OBVIOUS
<1> HIDE DEF Sent, Heard, Nth
<1> QED BY <1>2, <1>3, <1>4, <1>5

LEMMA LeaderProposes ==
  ASSUME Types, Control, StreamInv, AgreeSend(0)
  PROVE  Types' /\ Control' /\ StreamInv'
<1>1. PICK f \in AgreeFrames, l \in Locals :
         /\ job[0].op = "native" /\ pc[0] \in Halfway \cup {"check"}
         /\ f.c = job[0].c /\ f.phase = NextPhase(0) /\ l.phase = NextPhase(0)
         /\ Nth(NextPhase(0)) = Sent(pc[0], loc[0]) + 1
         /\ Sent(pc[0], loc[0]) \in 0 .. 3 /\ Heard(pc[0], loc[0]) = Sent(pc[0], loc[0])
         /\ chan' = Put(chan, 0, <<f>>)
         /\ pc' = [pc EXCEPT ![0] = "hear"] /\ loc' = [loc EXCEPT ![0] = l] /\ job' = job
         /\ UNCHANGED <<mode, calls, created, mirror, up, failed>>
  BY Proposes, RankFacts
<1>2. f \in Orders
  BY DEF Orders
<1>3. /\ Queues(chan') /\ chan'[0] = chan[0]
      /\ chan'[1] = IF up[1] THEN Append(chan[1], f) ELSE chan[1]
  BY <1>1, <1>2, Ordered1 DEF Types
<1>4. job[0] \in Jobs /\ job = [job EXCEPT ![0] = job[0]] /\ mode.split \in BOOLEAN
  BY StandsStill, RankFacts DEF Types
<1>5. Stepped(0, "hear", job[0], l)
  BY <1>1, <1>3, <1>4, RankFacts DEF Stepped, Types, Pcs
<1>6. job[0].c = calls
  BY <1>1 DEF Control, LeaderControl
<1>7. LeaderAt("hear", job[0], l, calls, failed'[0])
  BY <1>1, <1>6 DEF LeaderAt, Halfway
<1>8. ASSUME Calm
      PROVE  Framed(mode.split, calls, ViewOf(mode.split, "hear", job[0], l), WorkerView, up[1], chan'[0], chan'[1])
  <2>1. PICK sp \in BOOLEAN, on \in BOOLEAN, n \in Nat, L \in Views, W \in Views,
             c0 \in Seq(Answers), c1 \in Seq(Orders), d0 \in Seq(Answers), d1 \in Seq(Orders) :
          /\ Now(sp, on, n, L, W, c0, c1, d0, d1) /\ Framed(sp, n, L, W, on, c0, c1)
    BY <1>3, <1>8, CalmNow
  <2>2. PICK M : M = ViewOf(mode.split, "hear", job[0], l)
    OBVIOUS
  <2>3. /\ L.cycle /\ L.sent = L.heard /\ L.sent <= 3 /\ L.sent \in Nat /\ L.job = job[0]
        /\ L.sent = Sent(pc[0], loc[0])
        /\ M \in Views /\ ~M.ack /\ M.due = 0 /\ ~M.block /\ M.cycle /\ M.job = job[0]
        /\ M.sent = L.sent + 1 /\ M.heard = L.heard
    <3>1. L = ViewOf(mode.split, pc[0], job[0], loc[0])
      BY <2>1 DEF Now, LeaderView
    <3> QED BY <1>1, <1>4, <2>2, <3>1, ProposesView, RankFacts
  <2>4. M \in Views /\ Nth(f.phase) = L.sent + 1 /\ M.job = L.job
    BY <1>1, <2>3
  <2>5. CASE on
    <3>1. up[1] /\ on = TRUE
      BY <2>1, <2>5 DEF Now
    <3>2. d1 = Append(c1, f) /\ d0 = c0
      BY <1>3, <2>1, <3>1 DEF Now
    <3>3. Framed(sp, n, L, W, TRUE, c0, c1)
      BY <2>1, <3>1
    <3>4. L.cycle /\ L.sent = L.heard /\ L.sent <= 3
      BY <2>3
    <3>5. ~M.ack /\ M.due = 0 /\ ~M.block /\ M.cycle /\ M.sent = L.sent + 1 /\ M.heard = L.heard
      BY <2>3
    <3>6. Framed(sp, n, M, W, TRUE, c0, d1)
      BY <2>4, <3>2, <3>3, <3>4, <3>5, LeaderAgrees, ZenonT(60)
    <3> QED BY <2>1, <2>2, <3>1, <3>2, <3>6 DEF Now
  <2>6. CASE ~on
    <3>1. d1 = c1 /\ d0 = c0 /\ on = FALSE
      BY <1>3, <2>1, <2>6 DEF Now
    <3>2. ToLeader(n, L, c0) /\ c1 = <<>>
      BY <2>1, <3>1 DEF Framed
    <3>3. ToLeader(n, M, c0)
      <4>1. /\ \A i \in DOMAIN c0 : c0[i].c = n
            /\ ~AtRest(L) => L.job.c = n
            /\ L.heard + Len(c0) <= 4
            /\ \A i \in DOMAIN c0 : c0[i].t = "agree" /\ Nth(c0[i].phase) = L.heard + i
        BY <2>3, <3>2 DEF ToLeader
      <4>2. L.job.c = n
        BY <2>3, <4>1 DEF AtRest
      <4>3. M.job.c = n
        BY <2>4, <4>2
      <4>4. M.heard <= 3 /\ M.heard <= M.sent /\ M.sent <= M.heard + 1
        <5>1. M.heard = L.sent /\ M.sent = L.sent + 1 /\ L.sent \in Nat /\ L.sent <= 3
          BY <2>3
        <5> QED BY <5>1
      <4>5. M.heard + Len(c0) <= 4 /\ \A i \in DOMAIN c0 : c0[i].t = "agree" /\ Nth(c0[i].phase) = M.heard + i
        BY <2>3, <4>1
      <4> HIDE DEF Nth
      <4> QED BY <2>3, <4>1, <4>3, <4>4, <4>5 DEF ToLeader, AtRest
    <3>4. Framed(sp, n, M, W, FALSE, c0, c1)
      BY <3>2, <3>3 DEF Framed
    <3> QED BY <2>1, <2>2, <3>1, <3>4 DEF Now
  <2> QED BY <2>5, <2>6
<1>9. up'[0] \/ failed'[0]
  BY <1>1 DEF Control, LeaderControl
<1> QED BY <1>5, <1>7, <1>8, <1>9, LeaderSeen

LEMMA WorkerProposes ==
  ASSUME Types, Control, StreamInv, AgreeSend(1)
  PROVE  Types' /\ Control' /\ StreamInv'
<1>1. PICK f \in AgreeFrames, l \in Locals :
         /\ job[1].op = "native" /\ pc[1] \in Halfway \cup {"check"}
         /\ f.c = job[1].c /\ f.phase = NextPhase(1) /\ l.phase = NextPhase(1)
         /\ Nth(NextPhase(1)) = Sent(pc[1], loc[1]) + 1
         /\ Sent(pc[1], loc[1]) \in 0 .. 3 /\ Heard(pc[1], loc[1]) = Sent(pc[1], loc[1])
         /\ chan' = Put(chan, 1, <<f>>)
         /\ pc' = [pc EXCEPT ![1] = "hear"] /\ loc' = [loc EXCEPT ![1] = l] /\ job' = job
         /\ UNCHANGED <<mode, calls, created, mirror, up, failed>>
  BY Proposes, RankFacts
<1>2. f \in Answers
  BY DEF Answers
<1>3. /\ Queues(chan') /\ chan'[1] = chan[1]
      /\ chan'[0] = IF up[0] THEN Append(chan[0], f) ELSE chan[0]
  BY <1>1, <1>2, Answered0 DEF Types
<1>4. job[1] \in Jobs /\ job = [job EXCEPT ![1] = job[1]] /\ mode.split \in BOOLEAN
  BY StandsStill, RankFacts DEF Types
<1>5. Stepped(1, "hear", job[1], l)
  BY <1>1, <1>3, <1>4, RankFacts DEF Stepped, Types, Pcs
<1>6. up[1] /\ up' = up
  BY <1>1 DEF Control, WorkerControl, Halfway
<1>7. WorkerAt("hear", job[1], l)
  BY <1>1 DEF WorkerAt, Halfway
<1>8. ASSUME Calm
      PROVE  Framed(mode.split, calls, LeaderView, ViewOf(mode.split, "hear", job[1], l), up'[1], chan'[0], chan'[1])
  <2>1. PICK sp \in BOOLEAN, on \in BOOLEAN, n \in Nat, L \in Views, W \in Views,
             c0 \in Seq(Answers), c1 \in Seq(Orders), d0 \in Seq(Answers), d1 \in Seq(Orders) :
          /\ Now(sp, on, n, L, W, c0, c1, d0, d1) /\ Framed(sp, n, L, W, on, c0, c1)
    BY <1>3, <1>8, CalmNow
  <2>2. PICK V : V = ViewOf(mode.split, "hear", job[1], l)
    OBVIOUS
  <2>3. /\ W.cycle /\ W.sent = W.heard /\ W.sent <= 3 /\ W.sent \in Nat /\ W.job = job[1]
        /\ W.sent = Sent(pc[1], loc[1])
        /\ V \in Views /\ ~V.ack /\ V.due = 0 /\ ~V.block /\ V.cycle /\ V.job = job[1]
        /\ V.sent = W.sent + 1 /\ V.heard = W.heard
    <3>1. W = ViewOf(mode.split, pc[1], job[1], loc[1])
      BY <2>1 DEF Now, WorkerView
    <3> QED BY <1>1, <1>4, <2>2, <3>1, ProposesView, RankFacts
  <2>4. V \in Views /\ Nth(f.phase) = W.sent + 1 /\ V.job = W.job /\ f.c = W.job.c
    BY <1>1, <2>3
  <2>5. on = TRUE /\ up[0]
    BY <1>6, <1>8, <2>1, CalmFacts DEF Now
  <2>6. d0 = Append(c0, f) /\ d1 = c1
    BY <1>3, <2>1, <2>5 DEF Now
  <2>7. Framed(sp, n, L, W, TRUE, c0, c1)
    BY <2>1, <2>5
  <2>8. W.cycle /\ W.sent = W.heard /\ W.sent <= 3
    BY <2>3
  <2>9. ~V.ack /\ V.due = 0 /\ ~V.block /\ V.cycle /\ V.sent = W.sent + 1 /\ V.heard = W.heard
    BY <2>3
  <2>10. Framed(sp, n, L, V, TRUE, d0, c1)
    BY <2>4, <2>6, <2>7, <2>8, <2>9, WorkerAgrees, ZenonT(60)
  <2> QED BY <1>6, <2>1, <2>2, <2>5, <2>6, <2>10 DEF Now
<1> QED BY <1>5, <1>6, <1>7, <1>8, WorkerSeen

(* What a rank does with the agreement it heard.                           *)
LEMMA Hears ==
  ASSUME Types, Control, NEW r \in Rank, AgreeHear(r)
  PROVE  /\ job[r].op = "native" /\ pc[r] = "hear" /\ chan[r] # <<>> /\ chan' = Taken(r)
         /\ mirror' \in [Rank -> [Sessions -> Mirrors]]
         /\ UNCHANGED <<mode, calls, created, up, failed>>
         /\ \/ loc[r].phase = 9 /\ Leave(r, IF r = 0 THEN "idle" ELSE "loop")
            \/ loc[r].phase # 9 /\ Goto(r, "run") /\ UNCHANGED <<job, loc>>
<1>1. /\ pc[r] = "hear" /\ chan[r] # <<>> /\ chan' = Taken(r)
      /\ UNCHANGED <<mode, calls, created, up, failed>>
  BY DEF AgreeHear, Arrives, Take, still
<1>2. /\ job[r] \in Jobs /\ loc[r] \in Locals /\ loc[r].acc \in Nat /\ job[r].k \in Nat
      /\ mirror \in [Rank -> [Sessions -> Mirrors]] /\ loc[r].phase \in Phases
      /\ job[r].op \in Ops
  BY StandsStill DEF Types, Jobs, JobRecords, Locals
<1>3. job[r].op = "native"
  <2>1. r = 0 \/ r = 1
    BY RankFacts
  <2> QED BY <1>1, <1>2, <2>1 DEF Control, LeaderControl, WorkerControl, Ops, AckOps, Halfway
<1> DEFINE s == job[r].s
           a == [mirror[r][s] EXCEPT !.cycle = job[r].k]
           b == Published(r, mirror[r][s])
<1>4. s \in Sessions => a \in Mirrors /\ b \in Mirrors
  <2>1. s \in Sessions => mirror[r][s] \in Mirrors
    BY <1>2
  <2>2. s \in Sessions => a \in Mirrors
    BY <1>2, <2>1 DEF Mirrors
  <2>3. s \in Sessions => b \in Mirrors
    <3> DEFINE m == mirror[r][s]
    <3>1. SUFFICES ASSUME s \in Sessions PROVE b \in Mirrors
      OBVIOUS
    <3>2. m \in Mirrors /\ m.len + loc[r].acc \in Int
      BY <1>2, <2>1, <3>1 DEF Mirrors
    <3>3. b = [m EXCEPT !.len = m.len + loc[r].acc]
      BY DEF Published
    <3> HIDE DEF m, b
    <3> QED BY <3>2, <3>3 DEF Mirrors
  <2> QED BY <2>2, <2>3
<1>5. /\ loc[r].phase = 0 => mirror' = [mirror EXCEPT ![r][s] = a] /\ Goto(r, "run") /\ UNCHANGED <<job, loc>>
      /\ loc[r].phase = 9 => mirror' = [mirror EXCEPT ![r][s] = b] /\ Leave(r, IF r = 0 THEN "idle" ELSE "loop")
      /\ loc[r].phase \notin {0, 9} => Goto(r, "run") /\ UNCHANGED <<mirror, job, loc>>
  <2>1. CASE loc[r].phase = 0
    <3>1. mirror' = [mirror EXCEPT ![r][s].cycle = job[r].k] /\ Goto(r, "run") /\ UNCHANGED <<job, loc>>
      BY <2>1 DEF AgreeHear
    <3>2. [mirror EXCEPT ![r][s].cycle = job[r].k] = [mirror EXCEPT ![r][s] = a]
      OBVIOUS
    <3> QED BY <2>1, <3>1, <3>2
  <2>2. CASE loc[r].phase = 9
    <3>1. mirror' = [mirror EXCEPT ![r][s] = Published(r, @)] /\ Leave(r, IF r = 0 THEN "idle" ELSE "loop")
      BY <2>2 DEF AgreeHear
    <3> QED BY <2>2, <3>1
  <2>3. CASE loc[r].phase \notin {0, 9}
    BY <2>3 DEF AgreeHear
  <2> QED BY <2>1, <2>2, <2>3
<1> HIDE DEF a, b, s
<1>6. mirror' \in [Rank -> [Sessions -> Mirrors]]
  BY <1>2, <1>4, <1>5, SetTyped
<1> QED BY <1>1, <1>3, <1>5, <1>6

(* What it has sent and heard, before and after it goes on.                *)
LEMMA HearsView ==
  ASSUME Types, NEW r \in Rank, job[r].op = "native", pc[r] = "hear", NEW sp \in BOOLEAN,
         NEW V, V = ViewOf(sp, pc[r], job[r], loc[r]), NEW U, U = ViewOf(sp, "run", job[r], loc[r])
  PROVE  /\ V \in Views /\ V.cycle /\ V.job = job[r] /\ V.sent = V.heard + 1 /\ V.sent \in Nat
         /\ (loc[r].phase = 9 => V.sent = 4 /\ V.heard = 3)
         /\ (loc[r].phase # 9 => V.sent <= 3)
         /\ U \in Views /\ ~U.ack /\ U.due = 0 /\ ~U.block /\ U.cycle /\ U.job = job[r]
         /\ U.sent = V.sent /\ U.heard = V.heard + 1
<1>1. job[r] \in Jobs /\ loc[r] \in Locals /\ loc[r].phase \in {0, 1, 8, 9}
  BY StandsStill DEF Locals, Phases
<1>2. /\ V \in Views /\ V.cycle /\ V.job = job[r] /\ V.sent = Sent("hear", loc[r]) /\ V.heard = Heard("hear", loc[r])
  BY <1>1, CycleView
<1>3. /\ U \in Views /\ ~U.ack /\ U.due = 0 /\ ~U.block /\ U.cycle /\ U.job = job[r]
      /\ U.sent = Sent("run", loc[r]) /\ U.heard = Heard("run", loc[r])
  BY <1>1, CycleView DEF Halfway
<1>4. /\ Sent("hear", loc[r]) = Nth(loc[r].phase) /\ Heard("hear", loc[r]) = Nth(loc[r].phase) - 1
      /\ Sent("run", loc[r]) = Nth(loc[r].phase) /\ Heard("run", loc[r]) = Nth(loc[r].phase)
  BY DEF Sent, Heard
<1>5. Nth(0) = 1 /\ Nth(1) = 2 /\ Nth(8) = 3 /\ Nth(9) = 4
  BY DEF Nth
<1>6. Nth(loc[r].phase) \in 1 .. 4 /\ (loc[r].phase = 9 => Nth(loc[r].phase) = 4) /\ (loc[r].phase # 9 => Nth(loc[r].phase) <= 3)
  BY <1>1, <1>5
<1> DEFINE x == Nth(loc[r].phase)
<1>7. V.sent = x /\ V.heard = x - 1 /\ U.sent = x /\ U.heard = x /\ x \in 1 .. 4
  BY <1>2, <1>3, <1>4, <1>6
<1>8. (loc[r].phase = 9 => x = 4) /\ (loc[r].phase # 9 => x <= 3)
  BY <1>6
<1> HIDE DEF x
<1>9. /\ V.sent = V.heard + 1 /\ V.sent \in Nat /\ U.sent = V.sent /\ U.heard = V.heard + 1
      /\ (loc[r].phase = 9 => V.sent = 4 /\ V.heard = 3) /\ (loc[r].phase # 9 => V.sent <= 3)
  BY <1>7, <1>8
<1> QED BY <1>2, <1>3, <1>9

LEMMA LeaderHearsInv ==
  ASSUME Types, Control, StreamInv, AgreeHear(0)
  PROVE  Types' /\ Control' /\ StreamInv'
<1>1. /\ job[0].op = "native" /\ pc[0] = "hear" /\ chan[0] # <<>> /\ chan' = Taken(0)
      /\ mirror' \in [Rank -> [Sessions -> Mirrors]]
      /\ UNCHANGED <<mode, calls, created, up, failed>>
      /\ \/ loc[0].phase = 9 /\ Leave(0, "idle")
         \/ loc[0].phase # 9 /\ Goto(0, "run") /\ UNCHANGED <<job, loc>>
  BY Hears, RankFacts
<1>2. /\ Queues(chan') /\ chan'[0] = Tail(chan[0]) /\ chan'[1] = chan[1]
  BY <1>1, TakenFrom, RankFacts DEF Types
<1>3. /\ job[0] \in Jobs /\ loc[0] \in Locals /\ mode.split \in BOOLEAN
      /\ job = [job EXCEPT ![0] = job[0]] /\ loc = [loc EXCEPT ![0] = loc[0]]
  BY StandsStill, RankFacts DEF Types
<1>4. CASE loc[0].phase = 9
  <2>1. ASSUME Calm, NEW M \in Views, AtRest(M)
        PROVE  Framed(mode.split, calls, M, WorkerView, up[1], chan'[0], chan'[1])
    <3>1. PICK sp \in BOOLEAN, on \in BOOLEAN, n \in Nat, L \in Views, W \in Views,
               c0 \in Seq(Answers), c1 \in Seq(Orders), d0 \in Seq(Answers), d1 \in Seq(Orders) :
            /\ Now(sp, on, n, L, W, c0, c1, d0, d1) /\ Framed(sp, n, L, W, on, c0, c1)
      BY <1>2, <2>1, CalmNow
    <3>2. L = ViewOf(mode.split, pc[0], job[0], loc[0])
      BY <3>1 DEF Now, LeaderView
    <3>3. L.cycle /\ L.sent = 4 /\ L.heard = 3
      BY <1>1, <1>3, <1>4, <3>2, HearsView, RankFacts
    <3>4. c0 # <<>> /\ d0 = Tail(c0) /\ d1 = c1
      BY <1>1, <1>2, <3>1 DEF Now
    <3>5. Framed(sp, n, L, W, on, c0, c1)
      BY <3>1
    <3>6. Framed(sp, n, M, W, on, d0, c1)
      BY <2>1, <3>3, <3>4, <3>5, LeaderEnds, ZenonT(60)
    <3> QED BY <3>1, <3>4, <3>6 DEF Now
  <2>2. Return
    BY <1>1, <1>4 DEF Return
  <2>3. failed' \in [Rank -> BOOLEAN] /\ failed'[1] = failed[1] /\ (failed[0] => failed'[0])
    BY <1>1 DEF Types
  <2> QED BY <1>1, <1>2, <2>1, <2>2, <2>3, Returned
<1>5. CASE loc[0].phase # 9
  <2>1. pc' = [pc EXCEPT ![0] = "run"] /\ UNCHANGED <<job, loc>>
    BY <1>1, <1>5 DEF Goto
  <2>2. Stepped(0, "run", job[0], loc[0])
    BY <1>1, <1>2, <1>3, <2>1, RankFacts DEF Stepped, Types, Pcs
  <2>3. job[0].c = calls
    BY <1>1 DEF Control, LeaderControl
  <2>4. LeaderAt("run", job[0], loc[0], calls, failed'[0])
    BY <1>1, <1>5, <2>3 DEF LeaderAt, Halfway
  <2>5. ASSUME Calm
        PROVE  Framed(mode.split, calls, ViewOf(mode.split, "run", job[0], loc[0]), WorkerView, up[1], chan'[0], chan'[1])
    <3>1. PICK sp \in BOOLEAN, on \in BOOLEAN, n \in Nat, L \in Views, W \in Views,
               c0 \in Seq(Answers), c1 \in Seq(Orders), d0 \in Seq(Answers), d1 \in Seq(Orders) :
            /\ Now(sp, on, n, L, W, c0, c1, d0, d1) /\ Framed(sp, n, L, W, on, c0, c1)
      BY <1>2, <2>5, CalmNow
    <3>2. L = ViewOf(mode.split, pc[0], job[0], loc[0])
      BY <3>1 DEF Now, LeaderView
    <3>3. PICK M : M = ViewOf(mode.split, "run", job[0], loc[0])
      OBVIOUS
    <3>4. /\ L.cycle /\ L.job = job[0] /\ L.sent = L.heard + 1 /\ L.sent <= 3
          /\ M \in Views /\ ~M.ack /\ M.due = 0 /\ ~M.block /\ M.cycle /\ M.job = job[0]
          /\ M.sent = L.sent /\ M.heard = L.heard + 1
      BY <1>1, <1>3, <1>5, <3>2, <3>3, HearsView, RankFacts
    <3>5. c0 # <<>> /\ d0 = Tail(c0) /\ d1 = c1
      BY <1>1, <1>2, <3>1 DEF Now
    <3>6. Framed(sp, n, L, W, on, c0, c1)
      BY <3>1
    <3>7. L.cycle /\ L.sent = L.heard + 1 /\ L.sent <= 3
      BY <3>4
    <3>8. /\ M \in Views /\ ~M.ack /\ M.due = 0 /\ ~M.block /\ M.cycle /\ M.job = L.job
          /\ M.sent = L.sent /\ M.heard = L.heard + 1
      BY <3>4
    <3>9. Framed(sp, n, M, W, on, d0, c1)
      BY <3>5, <3>6, <3>7, <3>8, LeaderHears, ZenonT(60)
    <3> QED BY <3>1, <3>3, <3>5, <3>9 DEF Now
  <2>6. up'[0] \/ failed'[0]
    BY <1>1 DEF Control, LeaderControl
  <2> QED BY <2>2, <2>4, <2>5, <2>6, LeaderSeen
<1> QED BY <1>4, <1>5

LEMMA WorkerHearsInv ==
  ASSUME Types, Control, StreamInv, AgreeHear(1)
  PROVE  Types' /\ Control' /\ StreamInv'
<1>1. /\ job[1].op = "native" /\ pc[1] = "hear" /\ chan[1] # <<>> /\ chan' = Taken(1)
      /\ mirror' \in [Rank -> [Sessions -> Mirrors]]
      /\ UNCHANGED <<mode, calls, created, up, failed>>
      /\ \/ loc[1].phase = 9 /\ Leave(1, "loop")
         \/ loc[1].phase # 9 /\ Goto(1, "run") /\ UNCHANGED <<job, loc>>
  BY Hears, RankFacts
<1>2. /\ Queues(chan') /\ chan'[1] = Tail(chan[1]) /\ chan'[0] = chan[0]
  BY <1>1, TakenFrom, RankFacts DEF Types
<1>3. /\ job[1] \in Jobs /\ loc[1] \in Locals /\ mode.split \in BOOLEAN
      /\ job = [job EXCEPT ![1] = job[1]] /\ loc = [loc EXCEPT ![1] = loc[1]]
  BY StandsStill, RankFacts DEF Types
<1>4. up[1] /\ up' = up
  BY <1>1 DEF Control, WorkerControl
<1>5. CASE loc[1].phase = 9
  <2>1. pc' = [pc EXCEPT ![1] = "loop"] /\ job' = [job EXCEPT ![1] = Job] /\ loc' = [loc EXCEPT ![1] = Loc]
    BY <1>1, <1>5 DEF Leave, Goto
  <2>2. Stepped(1, "loop", Job, Loc)
    BY <1>1, <1>2, <2>1, JobTyped, RankFacts DEF Stepped, Types, Pcs
  <2>3. WorkerAt("loop", Job, Loc)
    BY DEF WorkerAt, Job
  <2>4. ASSUME Calm
        PROVE  Framed(mode.split, calls, LeaderView, ViewOf(mode.split, "loop", Job, Loc), up'[1], chan'[0], chan'[1])
    <3>1. PICK sp \in BOOLEAN, on \in BOOLEAN, n \in Nat, L \in Views, W \in Views,
               c0 \in Seq(Answers), c1 \in Seq(Orders), d0 \in Seq(Answers), d1 \in Seq(Orders) :
            /\ Now(sp, on, n, L, W, c0, c1, d0, d1) /\ Framed(sp, n, L, W, on, c0, c1)
      BY <1>2, <2>4, CalmNow
    <3>2. W = ViewOf(mode.split, pc[1], job[1], loc[1])
      BY <3>1 DEF Now, WorkerView
    <3>3. W.cycle /\ W.sent = 4 /\ W.heard = 3
      BY <1>1, <1>3, <1>5, <3>2, HearsView, RankFacts
    <3>4. c1 # <<>> /\ d1 = Tail(c1) /\ d0 = c0
      BY <1>1, <1>2, <3>1 DEF Now
    <3>5. on = TRUE /\ Framed(sp, n, L, W, TRUE, c0, c1)
      BY <1>4, <3>1 DEF Now
    <3>6. PICK V \in Views : V = ViewOf(mode.split, "loop", Job, Loc) /\ AtRest(V) /\ V.job = Job
      BY <1>3, RestView
    <3>7. V.job.c <= n
      BY <3>6 DEF Job
    <3>8. Framed(sp, n, L, V, TRUE, c0, d1)
      BY <3>3, <3>4, <3>5, <3>6, <3>7, WorkerEnds, ZenonT(60)
    <3> QED BY <1>4, <3>1, <3>4, <3>5, <3>6, <3>8 DEF Now
  <2> QED BY <1>4, <2>2, <2>3, <2>4, WorkerSeen
<1>6. CASE loc[1].phase # 9
  <2>1. pc' = [pc EXCEPT ![1] = "run"] /\ UNCHANGED <<job, loc>>
    BY <1>1, <1>6 DEF Goto
  <2>2. Stepped(1, "run", job[1], loc[1])
    BY <1>1, <1>2, <1>3, <2>1, RankFacts DEF Stepped, Types, Pcs
  <2>3. WorkerAt("run", job[1], loc[1])
    BY <1>1, <1>6 DEF WorkerAt, Halfway
  <2>4. ASSUME Calm
        PROVE  Framed(mode.split, calls, LeaderView, ViewOf(mode.split, "run", job[1], loc[1]), up'[1], chan'[0], chan'[1])
    <3>1. PICK sp \in BOOLEAN, on \in BOOLEAN, n \in Nat, L \in Views, W \in Views,
               c0 \in Seq(Answers), c1 \in Seq(Orders), d0 \in Seq(Answers), d1 \in Seq(Orders) :
            /\ Now(sp, on, n, L, W, c0, c1, d0, d1) /\ Framed(sp, n, L, W, on, c0, c1)
      BY <1>2, <2>4, CalmNow
    <3>2. W = ViewOf(mode.split, pc[1], job[1], loc[1])
      BY <3>1 DEF Now, WorkerView
    <3>3. PICK V : V = ViewOf(mode.split, "run", job[1], loc[1])
      OBVIOUS
    <3>4. /\ W.cycle /\ W.job = job[1] /\ W.sent = W.heard + 1 /\ W.sent <= 3
          /\ V \in Views /\ ~V.ack /\ V.due = 0 /\ ~V.block /\ V.cycle /\ V.job = job[1]
          /\ V.sent = W.sent /\ V.heard = W.heard + 1
      BY <1>1, <1>3, <1>6, <3>2, <3>3, HearsView, RankFacts
    <3>5. c1 # <<>> /\ d1 = Tail(c1) /\ d0 = c0
      BY <1>1, <1>2, <3>1 DEF Now
    <3>6. on = TRUE /\ Framed(sp, n, L, W, TRUE, c0, c1)
      BY <1>4, <3>1 DEF Now
    <3>7. W.cycle /\ W.sent = W.heard + 1 /\ W.sent <= 3
      BY <3>4
    <3>8. /\ V \in Views /\ ~V.ack /\ V.due = 0 /\ ~V.block /\ V.cycle /\ V.job = W.job
          /\ V.sent = W.sent /\ V.heard = W.heard + 1
      BY <3>4
    <3>9. Framed(sp, n, L, V, TRUE, c0, d1)
      BY <3>5, <3>6, <3>7, <3>8, WorkerHears, ZenonT(60)
    <3> QED BY <1>4, <3>1, <3>3, <3>5, <3>6, <3>9 DEF Now
  <2> QED BY <1>4, <2>2, <2>3, <2>4, WorkerSeen
<1> QED BY <1>5, <1>6

-----------------------------------------------------------------------------
(* The worker's process ends.                                              *)
LEMMA ExitStepped ==
  ASSUME Types, NEW fs \in Seq(Answers), Exit(fs), UNCHANGED <<mode, calls, created>>,
         failed' = failed \/ MarkFailed(1)
  PROVE  /\ Stepped(1, "gone", Job, Loc) /\ WorkerAt("gone", Job, Loc) /\ ~up'[1] /\ Queues(chan')
         /\ chan'[1] = <<>> /\ chan'[0] = IF up[0] THEN chan[0] \o fs ELSE chan[0]
<1>1. Rank = {0, 1} /\ 0 \in Rank /\ 1 \in Rank /\ Peer(1) = 0
  BY RankFacts
<1>2. DOMAIN chan = Rank /\ chan[0] \in Seq(Answers) /\ chan[1] \in Seq(Orders)
  BY DEF Types, Queues
<1> DEFINE x == IF up[0] THEN chan[0] \o fs ELSE chan[0]
           c == [chan EXCEPT ![1] = <<>>]
<1>3. chan' = [c EXCEPT ![0] = x]
  <2>1. chan' = [chan EXCEPT ![1] = <<>>, ![0] = IF up[0] THEN @ \o fs ELSE @]
    BY DEF Exit
  <2> QED BY <1>1, <1>2, <2>1
<1>4. x \in Seq(Answers)
  BY <1>2
<1>5. DOMAIN c = Rank /\ c[1] = <<>>
  BY <1>1, <1>2
<1> HIDE DEF x, c
<1>6. DOMAIN chan' = Rank /\ chan'[0] = x /\ chan'[1] = <<>>
  BY <1>1, <1>3, <1>5
<1>7. Queues(chan')
  <2>1. chan'[0] \in Seq(Answers) /\ chan'[1] \in Seq(Orders)
    BY <1>4, <1>6
  <2>2. chan' = [r \in Rank |-> chan'[r]]
    BY <1>3, <1>5
  <2>3. \A r \in Rank : chan'[r] \in Seq(Orders) \cup Seq(Answers)
    BY <1>1, <2>1
  <2>4. chan' \in [Rank -> Seq(Orders) \cup Seq(Answers)]
    BY <2>2, <2>3, ZenonT(60)
  <2> QED BY <2>1, <2>4 DEF Queues
<1>8. mirror' \in [Rank -> [Sessions -> Mirrors]]
  <2>1. mirror' = [mirror EXCEPT ![1] = [s \in Sessions |-> Closed]] /\ mirror \in [Rank -> [Sessions -> Mirrors]]
    BY DEF Exit, Types
  <2>2. [s \in Sessions |-> Closed] \in [Sessions -> Mirrors]
    BY JobTyped
  <2> QED BY <2>1, <2>2
<1>9. up' = [up EXCEPT ![1] = FALSE] /\ pc' = [pc EXCEPT ![1] = "gone"]
      /\ job' = [job EXCEPT ![1] = Job] /\ loc' = [loc EXCEPT ![1] = Loc]
  BY DEF Exit, Leave, Goto
<1>10. up' \in [Rank -> BOOLEAN] /\ up'[0] = up[0] /\ ~up'[1]
  BY <1>1, <1>9 DEF Types
<1>11. failed' \in [Rank -> BOOLEAN] /\ failed'[0] = failed[0] /\ (failed[1] => failed'[1])
  <2>1. CASE failed' = failed
    BY <1>1, <2>1 DEF Types
  <2>2. CASE failed' = [failed EXCEPT ![1] = TRUE]
    BY <1>1, <2>2 DEF Types
  <2> QED BY <2>1, <2>2 DEF MarkFailed
<1>12. Stepped(1, "gone", Job, Loc)
  BY <1>1, <1>7, <1>8, <1>9, <1>10, <1>11, JobTyped DEF Stepped, Pcs
<1>13. WorkerAt("gone", Job, Loc)
  BY DEF WorkerAt, Job
<1> QED BY <1>6, <1>7, <1>10, <1>12, <1>13 DEF x

(* What it sent before is still expected.                                  *)
LEMMA Exits ==
  ASSUME Types, Control, StreamInv, pc[1] # "gone", NEW fs \in Seq(Answers), Exit(fs),
         UNCHANGED <<mode, calls, created, failed>>,
         Calm => ToLeader(calls, LeaderView, chan'[0])
  PROVE  Types' /\ Control' /\ StreamInv'
<1>1. /\ Stepped(1, "gone", Job, Loc) /\ WorkerAt("gone", Job, Loc) /\ ~up'[1] /\ Queues(chan')
      /\ chan'[1] = <<>>
  BY ExitStepped
<1>2. up[1] /\ mode.split \in BOOLEAN
  BY RankFacts DEF Control, WorkerControl, Types
<1>3. ASSUME Calm
      PROVE  Framed(mode.split, calls, LeaderView, ViewOf(mode.split, "gone", Job, Loc), up'[1], chan'[0], chan'[1])
  <2>1. PICK sp \in BOOLEAN, on \in BOOLEAN, n \in Nat, L \in Views, W \in Views,
             c0 \in Seq(Answers), c1 \in Seq(Orders), d0 \in Seq(Answers), d1 \in Seq(Orders) :
          /\ Now(sp, on, n, L, W, c0, c1, d0, d1) /\ Framed(sp, n, L, W, on, c0, c1)
    BY <1>1, <1>3, CalmNow
  <2>2. ToLeader(n, L, d0) /\ d1 = <<>>
    BY <1>1, <1>3, <2>1 DEF Now
  <2>3. \A V : Framed(sp, n, L, V, FALSE, d0, d1)
    BY <2>2 DEF Framed
  <2>4. up'[1] = FALSE
    <3>1. up'[1] \in BOOLEAN
      BY <1>1, RankFacts DEF Stepped
    <3> QED BY <1>1, <3>1
  <2> QED BY <2>1, <2>3, <2>4 DEF Now
<1> QED BY <1>1, <1>2, <1>3, WorkerSeen

LEMMA ExitsAlone ==
  ASSUME Types, Control, StreamInv, pc[1] # "gone", Exit(<<>>), UNCHANGED <<mode, calls, created, failed>>
  PROVE  Types' /\ Control' /\ StreamInv'
<1>1. <<>> \in Seq(Answers)
  OBVIOUS
<1>2. chan'[0] = chan[0]
  <2>1. chan'[0] = IF up[0] THEN chan[0] \o <<>> ELSE chan[0]
    BY <1>1, ExitStepped
  <2>2. chan[0] \in Seq(Answers)
    BY DEF Types, Queues
  <2>3. chan[0] \o <<>> = chan[0]
    BY <2>2
  <2> QED BY <2>1, <2>3
<1>3. Calm => ToLeader(calls, LeaderView, chan'[0])
  BY <1>2 DEF StreamInv, Framed
<1> QED BY <1>1, <1>3, Exits

(* A rank gives up a native cycle.                                         *)
LEMMA AgreeFailsInv ==
  ASSUME Types, Control, StreamInv, NEW r \in Rank, AgreeFails(r)
  PROVE  Types' /\ Control' /\ StreamInv'
<1>1. pc[r] = "hear" /\ failed' = [failed EXCEPT ![r] = TRUE] /\ UNCHANGED <<mode, calls, created>>
  BY DEF AgreeFails, MarkFailed, still
<1>2. CASE r = 0
  <2>1. /\ pc' = [pc EXCEPT ![0] = "drop"] /\ UNCHANGED <<mirror, job, loc>>
        /\ up' = [up EXCEPT ![0] = FALSE] /\ chan' = [chan EXCEPT ![0] = <<>>]
    BY <1>2 DEF AgreeFails, Goto, Shuts
  <2>2. Queues(chan')
    BY <2>1, Emptied, RankFacts DEF Types
  <2>3. failed' \in [Rank -> BOOLEAN] /\ failed'[1] = failed[1] /\ failed'[0]
    BY <1>1, <1>2, RankFacts DEF Types
  <2>4. up' \in [Rank -> BOOLEAN] /\ up'[1] = up[1]
    BY <2>1, RankFacts DEF Types
  <2>5. job = [job EXCEPT ![0] = job[0]] /\ loc = [loc EXCEPT ![0] = loc[0]] /\ job[0] \in Jobs /\ loc[0] \in Locals
    BY StandsStill, RankFacts
  <2>6. mirror' \in [Rank -> [Sessions -> Mirrors]]
    BY <2>1 DEF Types
  <2>7. Stepped(0, "drop", job[0], loc[0])
    BY <1>1, <2>1, <2>2, <2>3, <2>4, <2>5, <2>6, RankFacts DEF Stepped, Pcs
  <2>8. job[0].op = "native" /\ job[0].c = calls
    <3>1. job[0].op \in Ops
      BY <2>5 DEF Jobs, JobRecords
    <3>2. job[0].op = "native"
      BY <1>1, <1>2, <3>1 DEF Control, LeaderControl, Ops, AckOps, Halfway
    <3> QED BY <3>2 DEF Control, LeaderControl
  <2>9. LeaderAt("drop", job[0], loc[0], calls, failed'[0])
    BY <2>3, <2>8 DEF LeaderAt, Halfway
  <2> QED BY <2>3, <2>7, <2>9, LeaderFails
<1>3. CASE r = 1
  <2>1. Exit(<<>>) /\ MarkFailed(1)
    BY <1>3 DEF AgreeFails
  <2>2. <<>> \in Seq(Answers)
    OBVIOUS
  <2>3. Stepped(1, "gone", Job, Loc) /\ WorkerAt("gone", Job, Loc) /\ ~up'[1]
    BY <1>1, <2>1, <2>2, ExitStepped
  <2>4. failed'[1]
    BY <1>1, <1>3, RankFacts DEF Types
  <2> QED BY <2>3, <2>4, WorkerBreaks
<1> QED BY <1>2, <1>3, RankFacts

-----------------------------------------------------------------------------
(* The worker's loop.                                                      *)
LEMMA WorkerAtRest ==
  ASSUME Types, Control, pc[1] = "loop"
  PROVE  job[1].op = "none" /\ loc[1] = Loc /\ AtRest(WorkerView) /\ up[1]
<1>1. job[1] \in Jobs /\ loc[1] \in Locals /\ mode.split \in BOOLEAN /\ job[1].op \in Ops
  BY StandsStill, RankFacts DEF Types, Jobs, JobRecords
<1>2. job[1].op = "none"
  BY <1>1 DEF Control, WorkerControl, Ops, AckOps, Halfway
<1>3. loc[1] = Loc /\ up[1]
  BY <1>2 DEF Control, WorkerControl
<1>4. PICK V : V = WorkerView
  OBVIOUS
<1>5. /\ (V.ack <=> Unacknowledged("loop", job[1])) /\ V.due = Outstanding(mode.split, "loop", job[1], loc[1])
      /\ (V.block <=> Undecided("loop", job[1], loc[1])) /\ (V.cycle <=> InCycle("loop", job[1]))
  BY <1>1, <1>4, ViewFacts DEF WorkerView, Pcs
<1>6. /\ ~Unacknowledged("loop", job[1]) /\ ~Undecided("loop", job[1], loc[1]) /\ ~InCycle("loop", job[1])
      /\ ~Replaying("loop", job[1], loc[1]) /\ ~Evaluating("loop", job[1])
  BY <1>2 DEF Unacknowledged, Undecided, InCycle, Replaying, Evaluating, AckOps
<1>7. Outstanding(mode.split, "loop", job[1], loc[1]) = 0
  BY <1>6 DEF Outstanding
<1> QED BY <1>2, <1>3, <1>4, <1>5, <1>6, <1>7 DEF AtRest

LEMMA Arrived ==
  ASSUME Types, chan[1] # <<>>
  PROVE  /\ Head(chan[1]) = chan[1][1] /\ chan[1][1] \in Orders
         /\ chan[1][1].t = "cmd" =>
              /\ chan[1][1].j \in Jobs /\ chan[1][1] = Frame(chan[1][1].j)
<1>1. chan[1] \in Seq(Orders)
  BY DEF Types, Queues
<1>2. Head(chan[1]) = chan[1][1] /\ chan[1][1] \in Orders
  BY <1>1
<1>3. PICK f \in Orders : f = chan[1][1]
  BY <1>2
<1>4. f.t = "cmd" => f \in CmdFrames
  BY DEF Orders, CmdFrames, CommitFrames, AgreeFrames
<1>5. f \in CmdFrames => f.j \in Jobs /\ f = Frame(f.j)
  BY DEF CmdFrames, Frame
<1> QED BY <1>2, <1>3, <1>4, <1>5

(* A create or a destroy is answered at once.                              *)
LEMMA AnswersCmd ==
  ASSUME Types, Control, StreamInv, pc[1] = "loop", chan[1] # <<>>, chan[1][1].t = "cmd",
         chan[1][1].j.op \in {"create", "destroy"},
         NEW status \in {0, 1}, chan' = Put(Taken(1), 1, <<Ack(chan[1][1].j, status)>>),
         mirror' \in [Rank -> [Sessions -> Mirrors]],
         UNCHANGED <<mode, calls, created, pc, job, loc, up, failed>>
  PROVE  Types' /\ Control' /\ StreamInv'
<1>1. PICK j \in Jobs : j = chan[1][1].j /\ chan[1][1] = Frame(j) /\ j.op \in {"create", "destroy"}
  BY Arrived
<1>2. PICK f : f = Ack(j, status)
  OBVIOUS
<1>3. f \in AckFrames /\ f \in Answers /\ f.c = j.c /\ f.s = j.s
  <2>1. j.c \in Nat /\ j.s \in Sessions \cup {0}
    BY DEF Jobs, JobRecords
  <2>2. f \in AckFrames /\ f.c = j.c /\ f.s = j.s
    BY <1>2, <2>1 DEF Ack, AckFrames
  <2> QED BY <2>2 DEF Answers
<1>4. PICK c : c = Taken(1) /\ Queues(c) /\ c[1] = Tail(chan[1]) /\ c[0] = chan[0]
  BY TakenFrom, RankFacts DEF Types
<1>5. chan' = Put(c, 1, <<f>>)
  BY <1>1, <1>2, <1>4
<1>6. Queues(chan') /\ chan'[1] = c[1] /\ chan'[0] = IF up[0] THEN Append(c[0], f) ELSE c[0]
  <2>1. up \in [Rank -> BOOLEAN] /\ f \in Answers /\ Queues(c)
    BY <1>3, <1>4 DEF Types
  <2> QED BY <1>5, <2>1, Answered0, ZenonT(60)
<1>7. /\ job = [job EXCEPT ![1] = job[1]] /\ loc = [loc EXCEPT ![1] = loc[1]] /\ pc = [pc EXCEPT ![1] = pc[1]]
      /\ job[1] \in Jobs /\ loc[1] \in Locals
  BY StandsStill, RankFacts
<1>8. Stepped(1, "loop", job[1], loc[1])
  BY <1>6, <1>7, RankFacts DEF Stepped, Types, Pcs
<1>9. job[1].op = "none" /\ loc[1] = Loc /\ AtRest(WorkerView) /\ up[1]
  BY WorkerAtRest
<1>10. WorkerAt("loop", job[1], loc[1])
  BY <1>9 DEF WorkerAt
<1>11. ASSUME Calm
       PROVE  Framed(mode.split, calls, LeaderView, ViewOf(mode.split, "loop", job[1], loc[1]), up'[1], chan'[0], chan'[1])
  <2>1. PICK sp \in BOOLEAN, on \in BOOLEAN, n \in Nat, L \in Views, W \in Views,
             c0 \in Seq(Answers), c1 \in Seq(Orders), d0 \in Seq(Answers), d1 \in Seq(Orders) :
          /\ Now(sp, on, n, L, W, c0, c1, d0, d1) /\ Framed(sp, n, L, W, on, c0, c1)
    BY <1>6, <1>11, CalmNow
  <2>2. on = TRUE /\ up[0]
    BY <1>9, <1>11, <2>1, CalmFacts DEF Now
  <2>3. d0 = Append(c0, f) /\ d1 = Tail(c1) /\ c1 # <<>> /\ AtRest(W)
    BY <1>4, <1>6, <1>9, <2>1, <2>2 DEF Now
  <2>4. c1[1] = Frame(j)
    BY <1>1, <2>1 DEF Now
  <2>5. IsCmd(c1[1], {"create", "destroy"}) /\ f.c = c1[1].j.c /\ f.s = c1[1].j.s
    BY <1>1, <1>3, <2>4 DEF IsCmd, Frame
  <2>6. Framed(sp, n, L, W, TRUE, c0, c1)
    BY <2>1, <2>2
  <2>7. Framed(sp, n, L, W, TRUE, d0, d1)
    BY <1>3, <2>3, <2>5, <2>6, AnswersAtOnce, ZenonT(60)
  <2>8. W = ViewOf(mode.split, "loop", job[1], loc[1])
    BY <2>1 DEF Now, WorkerView
  <2> QED BY <1>9, <2>1, <2>2, <2>7, <2>8 DEF Now
<1> QED BY <1>8, <1>9, <1>10, <1>11, WorkerSeen

LEMMA WorkerCreateInv ==
  ASSUME Types, Control, StreamInv, WorkerCreate
  PROVE  Types' /\ Control' /\ StreamInv'
<1> DEFINE j == Head(chan[1]).j
           x == [Closed EXCEPT !.open = TRUE]
<1>1. /\ pc[1] = "loop" /\ chan[1] # <<>> /\ Head(chan[1]).t = "cmd" /\ Head(chan[1]).j.op = "create"
      /\ UNCHANGED <<mode, calls, created, pc, job, loc, up, failed>>
  BY DEF WorkerCreate, Arriving, Arrives, still
<1>2. \/ mirror' = [mirror EXCEPT ![1][j.s] = x] /\ chan' = Put(Taken(1), 1, <<Ack(j, 0)>>)
      \/ mirror' = mirror /\ chan' = Put(Taken(1), 1, <<Ack(j, 1)>>)
  BY DEF WorkerCreate, SetSession, Reply
<1>3. x \in Mirrors
  BY JobTyped DEF Mirrors
<1>4. mirror' \in [Rank -> [Sessions -> Mirrors]]
  <2>1. [mirror EXCEPT ![1][j.s] = x] \in [Rank -> [Sessions -> Mirrors]]
    BY <1>3, SetTyped, RankFacts
  <2> QED BY <1>2, <2>1 DEF Types
<1>5. Head(chan[1]) = chan[1][1]
  BY <1>1, Arrived
<1>6. PICK status \in {0, 1} : chan' = Put(Taken(1), 1, <<Ack(chan[1][1].j, status)>>)
  BY <1>2, <1>5
<1> QED BY <1>1, <1>4, <1>5, <1>6, AnswersCmd

LEMMA WorkerDestroyInv ==
  ASSUME Types, Control, StreamInv, WorkerDestroy
  PROVE  Types' /\ Control' /\ StreamInv'
<1> DEFINE j == Head(chan[1]).j
           status == IF mirror[1][j.s].open THEN 0 ELSE 1
<1>1. /\ pc[1] = "loop" /\ chan[1] # <<>> /\ Head(chan[1]).t = "cmd" /\ Head(chan[1]).j.op = "destroy"
      /\ UNCHANGED <<mode, calls, created, pc, job, loc, up, failed>>
  BY DEF WorkerDestroy, Arriving, Arrives, still
<1>2. mirror' = [mirror EXCEPT ![1][j.s] = Closed] /\ chan' = Put(Taken(1), 1, <<Ack(j, status)>>)
  BY DEF WorkerDestroy, SetSession, Reply
<1>3. mirror' \in [Rank -> [Sessions -> Mirrors]]
  BY <1>2, SetTyped, JobTyped, RankFacts
<1>4. Head(chan[1]) = chan[1][1]
  BY <1>1, Arrived
<1>5. status \in {0, 1}
  OBVIOUS
<1> HIDE DEF status
<1>6. chan' = Put(Taken(1), 1, <<Ack(chan[1][1].j, status)>>)
  BY <1>2, <1>4
<1> QED BY <1>1, <1>3, <1>4, <1>5, <1>6, AnswersCmd

(* The worker takes a command, and starts it or has done it at once.       *)
LEMMA StartsCmd ==
  ASSUME Types, Control, StreamInv, pc[1] = "loop", chan[1] # <<>>, chan' = Taken(1), up' = up,
         NEW j \in Jobs, chan[1][1] = Frame(j),
         j.op \in {"sync", "eval", "batch", "verify", "native", "invalidate"},
         NEW p, NEW k, NEW l, Stepped(1, p, k, l), WorkerAt(p, k, l), p # "gone",
         NEW V \in Views, V = ViewOf(mode.split, p, k, l),
         V.ack <=> j.op \in {"sync", "batch"}, V.due = LogitsFor(mode.split, Frame(j)),
         V.block <=> j.op = "verify", V.cycle <=> j.op = "native", V.sent = 0, V.heard = 0,
         ~AtRest(V) => V.job = j, AtRest(V) => V.job = Job
  PROVE  Types' /\ Control' /\ StreamInv'
<1>1. Queues(chan') /\ chan'[1] = Tail(chan[1]) /\ chan'[0] = chan[0]
  BY TakenFrom, RankFacts DEF Types
<1>2. AtRest(WorkerView) /\ up[1]
  BY WorkerAtRest
<1>3. ASSUME Calm
      PROVE  Framed(mode.split, calls, LeaderView, ViewOf(mode.split, p, k, l), up'[1], chan'[0], chan'[1])
  <2>1. PICK sp \in BOOLEAN, on \in BOOLEAN, n \in Nat, L \in Views, W \in Views,
             c0 \in Seq(Answers), c1 \in Seq(Orders), d0 \in Seq(Answers), d1 \in Seq(Orders) :
          /\ Now(sp, on, n, L, W, c0, c1, d0, d1) /\ Framed(sp, n, L, W, on, c0, c1)
    BY <1>1, <1>3, CalmNow
  <2>2. on = TRUE /\ d0 = c0 /\ d1 = Tail(c1) /\ c1 # <<>> /\ AtRest(W) /\ c1[1] = Frame(j)
    BY <1>1, <1>2, <2>1 DEF Now
  <2>3. Framed(sp, n, L, W, TRUE, c0, c1)
    BY <2>1, <2>2
  <2>4. j.c <= n
    <3>1. Old(n, W, c1)
      BY <2>3 DEF Framed
    <3>2. 1 \in DOMAIN c1
      BY <2>2
    <3>3. c1[1].t = "cmd" /\ c1[1].j = j
      BY <2>2 DEF Frame
    <3> QED BY <3>1, <3>2, <3>3 DEF Old
  <2>5. V.job.c <= n
    <3>1. Job.c = 0
      BY DEF Job
    <3>2. CASE AtRest(V)
      BY <3>1, <3>2
    <3>3. CASE ~AtRest(V)
      BY <2>4, <3>3
    <3> QED BY <3>2, <3>3
  <2>6. V.due = LogitsFor(sp, Frame(j))
    BY <2>1 DEF Now
  <2>7. Framed(sp, n, L, V, TRUE, c0, d1)
    BY <2>2, <2>3, <2>5, <2>6, Started, ZenonT(60)
  <2> QED BY <1>2, <2>1, <2>2, <2>7 DEF Now
<1> QED BY <1>2, <1>3, WorkerSeen

LEMMA WorkerStartsInv ==
  ASSUME Types, Control, StreamInv, WorkerStarts
  PROVE  Types' /\ Control' /\ StreamInv'
<1>1. /\ pc[1] = "loop" /\ chan[1] # <<>> /\ Head(chan[1]).t = "cmd"
      /\ Head(chan[1]).j.op \in {"sync", "eval", "batch", "verify", "native"}
      /\ chan' = Taken(1) /\ UNCHANGED <<mode, calls, created, mirror, up, failed>>
  BY DEF WorkerStarts, Arriving, Arrives, Take, still
<1>2. PICK j \in Jobs : j = Head(chan[1]).j /\ chan[1][1] = Frame(j) /\ j.op \in {"sync", "eval", "batch", "verify", "native"}
  BY <1>1, Arrived
<1> DEFINE x == Checkpoint(1, j)
           l == [loc[1] EXCEPT !.start = x]
           p == FirstStop(j.op)
<1>3. /\ job' = [job EXCEPT ![1] = j] /\ loc' = [loc EXCEPT ![1].start = x]
      /\ Goto(1, IF j.op = "native" THEN "check" ELSE "run")
  BY <1>2 DEF WorkerStarts
<1>4. p = (IF j.op = "native" THEN "check" ELSE "run") /\ p \in Pcs
  BY <1>2 DEF FirstStop, Pcs
<1>5. x \in Int
  <2>1. j.op = "verify" => j.s \in Sessions
    BY DEF Jobs
  <2>2. j.op = "verify" => mirror[1][j.s] \in Mirrors
    BY <2>1, RankFacts DEF Types
  <2> QED BY <2>2 DEF Checkpoint, Mirrors
<1> HIDE DEF x, p
<1>6. loc[1] = Loc /\ loc[1] \in Locals /\ mode.split \in BOOLEAN
  BY <1>1, WorkerAtRest, StandsStill, RankFacts DEF Types
<1>7. l \in Locals /\ l.phase = 0
  <2>1. l \in Locals /\ l.phase = loc[1].phase
    BY <1>5, <1>6 DEF Locals
  <2>2. loc[1].phase = 0
    BY <1>6 DEF Loc
  <2> QED BY <2>1, <2>2
<1>8. loc' = [loc EXCEPT ![1] = l]
  BY <1>3
<1> HIDE DEF l
<1>9. Queues(chan')
  BY <1>1, TakenFrom, RankFacts DEF Types
<1>10. Stepped(1, p, j, l)
  BY <1>1, <1>3, <1>4, <1>7, <1>8, <1>9, RankFacts DEF Stepped, Types, Goto
<1>11. WorkerAt(p, j, l)
  BY <1>2, <1>4, <1>7 DEF WorkerAt, Halfway
<1>12. PICK V : V = ViewOf(mode.split, p, j, l)
  OBVIOUS
<1>13. /\ V \in Views /\ (V.ack <=> j.op \in AckOps) /\ V.due = LogitsFor(mode.split, Frame(j))
       /\ (V.block <=> j.op = "verify") /\ (V.cycle <=> j.op = "native") /\ V.sent = 0 /\ V.heard = 0
       /\ (~AtRest(V) => V.job = j) /\ (AtRest(V) => V.job = Job)
  BY <1>2, <1>6, <1>7, <1>12, StartView DEF p
<1>14. V.ack <=> j.op \in {"sync", "batch"}
  BY <1>2, <1>13 DEF AckOps
<1>15. j.op \in {"sync", "eval", "batch", "verify", "native", "invalidate"} /\ p # "gone"
  BY <1>2, <1>4
<1> QED BY <1>1, <1>2, <1>10, <1>11, <1>12, <1>13, <1>14, <1>15, StartsCmd

LEMMA WorkerInvalidateInv ==
  ASSUME Types, Control, StreamInv, WorkerInvalidate
  PROVE  Types' /\ Control' /\ StreamInv'
<1>1. /\ pc[1] = "loop" /\ chan[1] # <<>> /\ Head(chan[1]).t = "cmd" /\ Head(chan[1]).j.op = "invalidate"
      /\ mirror' = Dropped(1, {Head(chan[1]).j.s})
      /\ chan' = Taken(1) /\ UNCHANGED <<mode, calls, created, pc, job, loc, up, failed>>
  BY DEF WorkerInvalidate, Arriving, Arrives, Take, still
<1>2. PICK j \in Jobs : chan[1][1] = Frame(j) /\ j.op = "invalidate"
  BY <1>1, Arrived
<1>3. mirror' \in [Rank -> [Sessions -> Mirrors]]
  BY <1>1, DroppedTyped, RankFacts DEF Types
<1>4. Queues(chan')
  BY <1>1, TakenFrom, RankFacts DEF Types
<1>5. /\ job = [job EXCEPT ![1] = job[1]] /\ loc = [loc EXCEPT ![1] = loc[1]] /\ pc = [pc EXCEPT ![1] = pc[1]]
      /\ job[1] \in Jobs /\ loc[1] \in Locals /\ mode.split \in BOOLEAN
  BY StandsStill, RankFacts DEF Types
<1>6. Stepped(1, "loop", job[1], loc[1])
  BY <1>1, <1>3, <1>4, <1>5, RankFacts DEF Stepped, Types, Pcs
<1>7. job[1].op = "none" /\ loc[1] = Loc /\ AtRest(WorkerView)
  BY <1>1, WorkerAtRest
<1>8. WorkerAt("loop", job[1], loc[1])
  BY <1>7 DEF WorkerAt
<1>9. PICK V : V = ViewOf(mode.split, "loop", job[1], loc[1]) /\ AtRest(V)
  BY <1>1, <1>7 DEF WorkerView
<1>10. V \in Views /\ V.job = Job /\ V.sent = 0 /\ V.heard = 0
  <2>1. ~InCycle("loop", job[1])
    BY <1>7 DEF InCycle
  <2> QED BY <1>5, <1>9, <2>1, ViewFacts DEF Pcs
<1>11. LogitsFor(mode.split, Frame(j)) = 0
  BY <1>2 DEF LogitsFor, Frame, IsCmd
<1>12. /\ (V.ack <=> j.op \in {"sync", "batch"}) /\ V.due = LogitsFor(mode.split, Frame(j))
       /\ (V.block <=> j.op = "verify") /\ (V.cycle <=> j.op = "native")
  BY <1>2, <1>9, <1>11 DEF AtRest
<1> QED BY <1>1, <1>2, <1>6, <1>8, <1>9, <1>10, <1>12, StartsCmd

(* The worker's process ends after it refused a command.                   *)
LEMMA ExitsRefusing ==
  ASSUME Types, Control, StreamInv, pc[1] # "gone", NEW f \in AckFrames, Exit(<<f>>),
         UNCHANGED <<mode, calls, created, failed>>,
         Calm => LeaderView.ack /\ chan[0] = <<>> /\ f.c = LeaderView.job.c /\ f.s = LeaderView.job.s
  PROVE  Types' /\ Control' /\ StreamInv'
<1>1. <<f>> \in Seq(Answers)
  BY DEF Answers
<1>2. chan'[0] = (IF up[0] THEN chan[0] \o <<f>> ELSE chan[0]) /\ Queues(chan')
  BY <1>1, ExitStepped
<1>3. ASSUME Calm PROVE ToLeader(calls, LeaderView, chan'[0])
  <2>1. PICK sp \in BOOLEAN, on \in BOOLEAN, n \in Nat, L \in Views, W \in Views,
             c0 \in Seq(Answers), c1 \in Seq(Orders), d0 \in Seq(Answers), d1 \in Seq(Orders) :
          /\ Now(sp, on, n, L, W, c0, c1, d0, d1) /\ Framed(sp, n, L, W, on, c0, c1)
    BY <1>2, <1>3, CalmNow
  <2>2. up[0]
    BY <1>3, CalmFacts
  <2>3. d0 = c0 \o <<f>>
    BY <1>2, <2>1, <2>2 DEF Now
  <2>4. d0 = Append(c0, f)
    BY <2>3, OneMore
  <2>5. L.ack /\ c0 = <<>> /\ f.c = L.job.c /\ f.s = L.job.s
    BY <1>3, <2>1 DEF Now
  <2>6. ToLeader(n, L, c0)
    BY <2>1 DEF Framed
  <2>7. f.c = n
    BY <2>5, <2>6 DEF ToLeader, AtRest
  <2>8. ToLeader(n, L, d0)
    BY <2>4, <2>5, <2>6, <2>7, AckWritten, ZenonT(60)
  <2> QED BY <2>1, <2>8 DEF Now
<1> QED BY <1>1, <1>3, Exits

LEMMA CrashInv ==
  ASSUME Types, Control, StreamInv, Crash
  PROVE  Types' /\ Control' /\ StreamInv'
BY ExitsAlone DEF Crash, still

LEMMA CommitFailsInv ==
  ASSUME Types, Control, StreamInv, CommitFails
  PROVE  Types' /\ Control' /\ StreamInv'
BY ExitsAlone DEF CommitFails, still

LEMMA WorkerStopsInv ==
  ASSUME Types, Control, StreamInv, WorkerStops
  PROVE  Types' /\ Control' /\ StreamInv'
<1>1. pc[1] = "loop" /\ UNCHANGED <<mode, calls, created, failed>>
  BY DEF WorkerStops, still
<1>2. CASE Exit(<<>>)
  BY <1>1, <1>2, ExitsAlone
<1>3. CASE ~Exit(<<>>)
  <2>1. /\ chan[1] # <<>> /\ Head(chan[1]).t = "cmd" /\ Head(chan[1]).j.op = "batch"
        /\ Exit(<<Ack(Head(chan[1]).j, 1)>>)
    BY <1>3 DEF WorkerStops, Arrives
  <2>2. PICK j \in Jobs : j = Head(chan[1]).j /\ chan[1][1] = Frame(j) /\ j.op = "batch"
    BY <2>1, Arrived
  <2>3. PICK f : f = Ack(j, 1)
    OBVIOUS
  <2>4. f \in AckFrames /\ f.c = j.c /\ f.s = j.s
    <3>1. j.c \in Nat /\ j.s \in Sessions \cup {0}
      BY DEF Jobs, JobRecords
    <3> QED BY <2>3, <3>1 DEF Ack, AckFrames
  <2>5. Exit(<<f>>)
    BY <2>1, <2>2, <2>3
  <2>6. ASSUME Calm
        PROVE  LeaderView.ack /\ chan[0] = <<>> /\ j = LeaderView.job
    <3>1. Framed(mode.split, calls, LeaderView, WorkerView, up[1], chan[0], chan[1])
      BY <2>6, CalmFacts
    <3>2. up[1]
      BY <1>1, WorkerAtRest
    <3>3. Waiting(mode.split, LeaderView, WorkerView, chan[0], chan[1])
      BY <3>1, <3>2 DEF Framed
    <3>4. chan[1] \in Seq(Orders) /\ 1 \in DOMAIN chan[1]
      BY <2>1 DEF Types, Queues
    <3>5. Loud(mode.split, chan[1][1]) /\ IsCmd(chan[1][1], AckOps) /\ chan[1][1].t = "cmd" /\ chan[1][1].j = j
      BY <2>2 DEF Loud, IsCmd, Frame, AckOps
    <3>6. LoudLast(mode.split, LeaderView, WorkerView, chan[0], chan[1], 1)
      BY <3>3, <3>4, <3>5 DEF Waiting
    <3>7. chan[0] = <<>> /\ Matches(mode.split, LeaderView, chan[1][1])
      BY <3>6 DEF LoudLast
    <3> QED BY <3>5, <3>7 DEF Matches
  <2> QED BY <1>1, <2>4, <2>5, <2>6, ExitsRefusing
<1> QED BY <1>2, <1>3

(* The worker's half of a command failed.                                  *)
LEMMA WorkerFailsInv ==
  ASSUME Types, Control, StreamInv, WorkerFails
  PROVE  Types' /\ Control' /\ StreamInv'
<1>1. pc[1] = "lost" /\ UNCHANGED <<mode, calls, created, failed>>
  BY DEF WorkerFails, After, still
<1>2. CASE job[1].op \notin {"sync", "batch"}
  BY <1>1, <1>2, ExitsAlone DEF WorkerFails
<1>3. CASE job[1].op \in {"sync", "batch"}
  <2>1. Exit(<<Ack(job[1], 1)>>)
    BY <1>3 DEF WorkerFails
  <2>2. PICK f : f = Ack(job[1], 1)
    OBVIOUS
  <2>3. job[1] \in Jobs /\ loc[1] \in Locals /\ mode.split \in BOOLEAN
    BY StandsStill, RankFacts DEF Types
  <2>4. f \in AckFrames /\ f.c = job[1].c /\ f.s = job[1].s
    <3>1. job[1].c \in Nat /\ job[1].s \in Sessions \cup {0}
      BY <2>3 DEF Jobs, JobRecords
    <3> QED BY <2>2, <3>1 DEF Ack, AckFrames
  <2>5. ASSUME Calm
        PROVE  LeaderView.ack /\ chan[0] = <<>> /\ job[1] = LeaderView.job
    <3>1. Framed(mode.split, calls, LeaderView, WorkerView, up[1], chan[0], chan[1])
      BY <2>5, CalmFacts
    <3>2. up[1]
      BY <1>1 DEF Control, WorkerControl
    <3>3. FromWorker(LeaderView, WorkerView, chan[0])
      BY <3>1, <3>2 DEF Framed
    <3>4. Unacknowledged(pc[1], job[1])
      BY <1>1, <1>3 DEF Unacknowledged, AckOps, Halfway
    <3>5. WorkerView.ack /\ (~AtRest(WorkerView) => WorkerView.job = job[1])
      BY <1>1, <2>3, <3>4, ViewFacts DEF WorkerView, Pcs
    <3>6. WorkerView.job = job[1]
      BY <3>5 DEF AtRest
    <3> QED BY <3>3, <3>5, <3>6 DEF FromWorker
  <2> QED BY <1>1, <2>1, <2>2, <2>4, <2>5, ExitsRefusing
<1> QED BY <1>2, <1>3

-----------------------------------------------------------------------------
(* The worker's answers.                                                   *)
LEMMA OldWorker ==
  ASSUME Types, NEW n \in Nat, NEW L \in Views, NEW W \in Views, NEW c0 \in Seq(Answers), NEW c1 \in Seq(Orders),
         NEW sp, Framed(sp, n, L, W, TRUE, c0, c1), NEW V \in Views, V.job = W.job \/ V.job = Job
  PROVE  V.job.c <= n
<1>1. W.job.c <= n
  BY DEF Framed, Old
<1>2. Job.c = 0
  BY DEF Job
<1> QED BY <1>1, <1>2

LEMMA AckedView ==
  ASSUME NEW sp \in BOOLEAN, NEW p \in Halfway, NEW j \in Jobs, j.op \in {"sync", "batch"}, NEW l \in Locals,
         NEW V, V = ViewOf(sp, p, j, l)
  PROVE  V \in Views /\ V.ack /\ V.due = LogitsOf(sp, j) /\ V.job = j
<1>1. Unacknowledged(p, j) /\ p \in Pcs /\ p \notin {"logits", "reply"}
  BY DEF Unacknowledged, AckOps, Halfway, Pcs
<1>2. V \in Views /\ V.ack /\ V.due = Outstanding(sp, p, j, l) /\ (~AtRest(V) => V.job = j)
  BY <1>1, ViewFacts
<1>3. Outstanding(sp, p, j, l) = LogitsOf(sp, j)
  BY <1>1 DEF Outstanding
<1>4. V.job = j
  BY <1>2 DEF AtRest
<1> QED BY <1>2, <1>3, <1>4

LEMMA WorkerAnswersInv ==
  ASSUME Types, Control, StreamInv, WorkerAnswers
  PROVE  Types' /\ Control' /\ StreamInv'
<1> DEFINE x == IF mode.split THEN Cardinality(Members(job[1])) ELSE 0
           l == [loc[1] EXCEPT !.want = x]
           U == ViewOf(mode.split, "reply", job[1], l)
<1>1. /\ job[1] \in Jobs /\ loc[1] \in Locals /\ job = [job EXCEPT ![1] = job[1]]
      /\ mode.split \in BOOLEAN
  BY StandsStill, RankFacts DEF Types
<1>2. /\ UNCHANGED <<mode, calls, created, mirror, job, up, failed>>
      /\ pc[1] \in Halfway
      /\ \/ job[1].op \in {"sync", "eval", "batch"} \/ (job[1].op = "verify" /\ loc[1].phase # 0)
      /\ pc' = [pc EXCEPT ![1] = "reply"]
  BY DEF WorkerAnswers, After, still, Halfway, Goto
<1>3. x \in Nat
  BY <1>1, MembersCounted
<1>4. loc' = [loc EXCEPT ![1] = l]
  BY DEF WorkerAnswers
<1>5. chan' = Put(chan, 1, IF job[1].op \in {"sync", "batch"} THEN <<Ack(job[1], 0)>> ELSE <<>>)
  BY DEF WorkerAnswers, Write
<1> HIDE DEF x
<1>6. l \in Locals /\ l.want = x /\ l.phase = loc[1].phase
  BY <1>1, <1>3 DEF Locals
<1> HIDE DEF l
<1>7. WorkerAt("reply", job[1], l) /\ up[1]
  BY <1>2, <1>6 DEF WorkerAt, Control, WorkerControl, Halfway
<1>8. /\ U \in Views /\ ~U.ack /\ ~U.block /\ ~U.cycle /\ U.due = x /\ U.sent = 0 /\ U.heard = 0
      /\ (x # 0 => ~AtRest(U) /\ U.job = job[1]) /\ (x = 0 => AtRest(U) /\ U.job = Job)
  BY <1>1, <1>6, DueView
<1> HIDE DEF U
<1>9. CASE job[1].op \in {"sync", "batch"}
  <2>1. PICK f : f = Ack(job[1], 0)
    OBVIOUS
  <2>2. f \in AckFrames /\ f \in Answers /\ f.c = job[1].c /\ f.s = job[1].s /\ f.status = 0
    <3>1. job[1].c \in Nat /\ job[1].s \in Sessions \cup {0}
      BY <1>1 DEF Jobs, JobRecords
    <3>2. f \in AckFrames /\ f.c = job[1].c /\ f.s = job[1].s /\ f.status = 0
      BY <2>1, <3>1 DEF Ack, AckFrames
    <3> QED BY <3>2 DEF Answers
  <2>3. chan' = Put(chan, 1, <<f>>)
    BY <1>5, <1>9, <2>1
  <2>4. Queues(chan') /\ chan'[1] = chan[1] /\ chan'[0] = IF up[0] THEN Append(chan[0], f) ELSE chan[0]
    BY <2>2, <2>3, Answered0 DEF Types
  <2>5. Stepped(1, "reply", job[1], l)
    BY <1>1, <1>2, <1>4, <1>6, <2>4, RankFacts DEF Stepped, Types, Pcs
  <2>6. ASSUME Calm
        PROVE  Framed(mode.split, calls, LeaderView, U, up'[1], chan'[0], chan'[1])
    <3>1. PICK sp \in BOOLEAN, on \in BOOLEAN, n \in Nat, L \in Views, W \in Views,
               c0 \in Seq(Answers), c1 \in Seq(Orders), d0 \in Seq(Answers), d1 \in Seq(Orders) :
            /\ Now(sp, on, n, L, W, c0, c1, d0, d1) /\ Framed(sp, n, L, W, on, c0, c1)
      BY <2>4, <2>6, CalmNow
    <3>2. on = TRUE /\ up[0]
      BY <1>7, <2>6, <3>1, CalmFacts DEF Now
    <3>3. d0 = Append(c0, f) /\ d1 = c1
      BY <2>4, <3>1, <3>2 DEF Now
    <3>4. W = ViewOf(mode.split, pc[1], job[1], loc[1])
      BY <3>1 DEF Now, WorkerView
    <3>5. W.ack /\ W.due = LogitsOf(mode.split, job[1]) /\ W.job = job[1]
      BY <1>1, <1>2, <1>9, <3>4, AckedView
    <3>6. U.due = W.due
      BY <1>8, <3>5 DEF LogitsOf, x
    <3>7. U.job = W.job \/ U.job = Job
      BY <1>8, <3>5
    <3>8. Framed(sp, n, L, W, TRUE, c0, c1)
      BY <3>1, <3>2
    <3>9. U.job.c <= n
      BY <1>8, <3>7, <3>8, OldWorker
    <3>10. ~AtRest(U) => U.job = W.job
      BY <1>8, <3>5
    <3>11. f.c = W.job.c /\ f.s = W.job.s
      BY <2>2, <3>5
    <3>12. Framed(sp, n, L, U, TRUE, d0, c1)
      BY <1>8, <2>2, <3>3, <3>5, <3>6, <3>8, <3>9, <3>10, <3>11, AckSent, ZenonT(60)
    <3> QED BY <1>2, <1>7, <3>1, <3>2, <3>3, <3>12 DEF Now
  <2> QED BY <1>2, <1>7, <2>5, <2>6, WorkerSeen DEF U
<1>10. CASE job[1].op \notin {"sync", "batch"}
  <2>1. chan' = chan
    <3>1. chan' = Put(chan, 1, <<>>)
      BY <1>5, <1>10
    <3>2. chan[0] \in Seq(Answers) /\ DOMAIN chan = Rank /\ Peer(1) = 0
      BY RankFacts DEF Types, Queues
    <3>3. chan[0] \o <<>> = chan[0]
      BY <3>2
    <3>4. Put(chan, 1, <<>>) = [chan EXCEPT ![0] = chan[0]]
      BY <3>2, <3>3 DEF Put
    <3>5. chan = [chan EXCEPT ![0] = chan[0]]
      BY DEF Types, Queues
    <3> QED BY <3>1, <3>4, <3>5
  <2>2. Stepped(1, "reply", job[1], l)
    BY <1>1, <1>2, <1>4, <1>6, <2>1, RankFacts DEF Stepped, Types, Pcs
  <2>3. /\ WorkerView \in Views /\ ~WorkerView.ack /\ ~WorkerView.block /\ ~WorkerView.cycle
        /\ WorkerView.due = One(mode.split) /\ WorkerView.sent = 0 /\ WorkerView.heard = 0
        /\ (mode.split => WorkerView.job = job[1]) /\ (~mode.split => WorkerView.job = Job)
    BY <1>1, <1>2, <1>10, HalfView DEF WorkerView
  <2>4. Cardinality(Members(job[1])) = 1
    <3>1. job[1].s \in Sessions /\ job[1].items = {}
      BY <1>1, <1>2, <1>10 DEF Jobs
    <3>2. Members(job[1]) = {job[1].s}
      BY <3>1, SessionsAreNumbers DEF Members
    <3> QED BY <3>2, FS_Singleton
  <2>5. x = One(mode.split) /\ (mode.split => x # 0) /\ (~mode.split => x = 0)
    BY <2>4 DEF x, One
  <2>6. U = WorkerView
    BY <1>1, <1>8, <2>3, <2>5, ViewsEqual
  <2> QED BY <1>2, <1>7, <2>1, <2>2, <2>6, WorkerUnseen DEF U
<1> QED BY <1>9, <1>10

LEMMA WorkerLogitsInv ==
  ASSUME Types, Control, StreamInv, WorkerLogits
  PROVE  Types' /\ Control' /\ StreamInv'
<1>1. /\ job[1] \in Jobs /\ loc[1] \in Locals /\ job = [job EXCEPT ![1] = job[1]]
      /\ pc = [pc EXCEPT ![1] = pc[1]] /\ mode.split \in BOOLEAN /\ loc[1].want \in Nat
      /\ job[1].op \in Ops
  BY StandsStill, RankFacts DEF Types, Locals, Jobs, JobRecords
<1>2. pc[1] = "reply" /\ UNCHANGED <<mode, calls, created, mirror, up, failed>>
  BY DEF WorkerLogits, still
<1>3. up[1] /\ (job[1].op \in {"sync", "batch", "eval"} \/ (job[1].op = "verify" /\ loc[1].phase # 0))
  BY <1>1, <1>2 DEF Control, WorkerControl, Ops, AckOps, Halfway
<1>4. /\ WorkerView \in Views /\ ~WorkerView.ack /\ ~WorkerView.block /\ ~WorkerView.cycle
      /\ WorkerView.due = loc[1].want /\ WorkerView.sent = 0 /\ WorkerView.heard = 0
      /\ (loc[1].want # 0 => WorkerView.job = job[1])
      /\ (loc[1].want = 0 => AtRest(WorkerView) /\ WorkerView.job = Job)
  BY <1>1, <1>2, DueView DEF WorkerView
<1>5. CASE loc[1].want = 0
  <2>1. /\ pc' = [pc EXCEPT ![1] = "loop"] /\ job' = [job EXCEPT ![1] = Job] /\ loc' = [loc EXCEPT ![1] = Loc]
        /\ chan' = chan
    BY <1>5 DEF WorkerLogits, Leave, Goto
  <2>2. Stepped(1, "loop", Job, Loc)
    BY <1>2, <2>1, JobTyped, RankFacts DEF Stepped, Types, Pcs
  <2>3. WorkerAt("loop", Job, Loc)
    BY DEF WorkerAt, Job
  <2>4. PICK V \in Views : /\ V = ViewOf(mode.split, "loop", Job, Loc) /\ AtRest(V) /\ V.job = Job
                           /\ V.sent = 0 /\ V.heard = 0
    BY <1>1, RestView
  <2>5. V = WorkerView
    BY <1>4, <1>5, <2>4, RestEqual
  <2> QED BY <1>2, <1>3, <2>1, <2>2, <2>3, <2>4, <2>5, WorkerUnseen
<1>6. CASE loc[1].want # 0
  <2> DEFINE l == [loc[1] EXCEPT !.want = @ - 1]
             U == ViewOf(mode.split, "reply", job[1], l)
  <2>1. /\ chan' = Put(chan, 1, <<Logits(job[1])>>) /\ loc' = [loc EXCEPT ![1] = l] /\ UNCHANGED <<pc, job>>
    BY <1>6 DEF WorkerLogits, Write
  <2>2. l \in Locals /\ l.want = loc[1].want - 1 /\ l.phase = loc[1].phase
    <3>1. loc[1].want - 1 \in Nat
      BY <1>1, <1>6
    <3> QED BY <1>1, <3>1 DEF Locals
  <2> HIDE DEF l
  <2>3. PICK f : f = Logits(job[1])
    OBVIOUS
  <2>4. f \in LogitsFrames /\ f \in Answers /\ f.c = job[1].c
    <3>1. job[1].c \in Nat
      BY <1>1 DEF Jobs, JobRecords
    <3>2. f \in LogitsFrames /\ f.c = job[1].c
      BY <2>3, <3>1 DEF Logits, LogitsFrames
    <3> QED BY <3>2 DEF Answers
  <2>5. chan' = Put(chan, 1, <<f>>)
    BY <2>1, <2>3
  <2>6. Queues(chan') /\ chan'[1] = chan[1] /\ chan'[0] = IF up[0] THEN Append(chan[0], f) ELSE chan[0]
    BY <2>4, <2>5, Answered0 DEF Types
  <2>7. Stepped(1, "reply", job[1], l)
    BY <1>1, <1>2, <2>1, <2>2, <2>6, RankFacts DEF Stepped, Types, Pcs
  <2>8. WorkerAt("reply", job[1], l)
    BY <1>3, <2>2 DEF WorkerAt, Halfway
  <2>9. /\ U \in Views /\ ~U.ack /\ ~U.block /\ ~U.cycle /\ U.due = l.want
        /\ (l.want # 0 => ~AtRest(U) /\ U.job = job[1]) /\ (l.want = 0 => AtRest(U) /\ U.job = Job)
    BY <1>1, <2>2, DueView
  <2> HIDE DEF U
  <2>10. ASSUME Calm
         PROVE  Framed(mode.split, calls, LeaderView, U, up'[1], chan'[0], chan'[1])
    <3>1. PICK sp \in BOOLEAN, on \in BOOLEAN, n \in Nat, L \in Views, W \in Views,
               c0 \in Seq(Answers), c1 \in Seq(Orders), d0 \in Seq(Answers), d1 \in Seq(Orders) :
            /\ Now(sp, on, n, L, W, c0, c1, d0, d1) /\ Framed(sp, n, L, W, on, c0, c1)
      BY <2>6, <2>10, CalmNow
    <3>2. on = TRUE /\ up[0]
      BY <1>3, <2>10, <3>1, CalmFacts DEF Now
    <3>3. d0 = Append(c0, f) /\ d1 = c1
      BY <2>6, <3>1, <3>2 DEF Now
    <3>4. ~W.ack /\ W.due = loc[1].want /\ W.job = job[1]
      BY <1>4, <1>6, <3>1 DEF Now
    <3>5. W.due # 0 /\ U.due = W.due - 1
      BY <1>6, <2>2, <2>9, <3>4
    <3>6. Framed(sp, n, L, W, TRUE, c0, c1)
      BY <3>1, <3>2
    <3>7. U.job = W.job \/ U.job = Job
      BY <2>9, <3>4
    <3>8. U.job.c <= n
      BY <2>9, <3>6, <3>7, OldWorker
    <3>9. (~AtRest(U) => U.job = W.job) /\ f.c = W.job.c
      BY <2>4, <2>9, <3>4
    <3>10. Framed(sp, n, L, U, TRUE, d0, c1)
      BY <2>4, <2>9, <3>3, <3>4, <3>5, <3>6, <3>8, <3>9, LogitsSent, ZenonT(60)
    <3> QED BY <1>2, <1>3, <3>1, <3>2, <3>3, <3>10 DEF Now
  <2> QED BY <1>2, <1>3, <2>7, <2>8, <2>10, WorkerSeen DEF U
<1> QED BY <1>5, <1>6

(* The worker's block is done or lost, which its view does not tell apart. *)
LEMMA AwaitCommitInv ==
  ASSUME Types, Control, StreamInv, AwaitCommit
  PROVE  Types' /\ Control' /\ StreamInv'
<1> DEFINE l == [loc[1] EXCEPT !.ok = pc[1] = "done"]
           U == ViewOf(mode.split, "commit", job[1], l)
<1>1. /\ job[1] \in Jobs /\ loc[1] \in Locals /\ job = [job EXCEPT ![1] = job[1]] /\ mode.split \in BOOLEAN
  BY StandsStill, RankFacts DEF Types
<1>2. /\ pc[1] \in Halfway /\ job[1].op = "verify" /\ loc[1].phase = 0
      /\ UNCHANGED <<mode, calls, created, mirror, job, chan, up, failed>>
      /\ pc' = [pc EXCEPT ![1] = "commit"] /\ loc' = [loc EXCEPT ![1] = l]
  BY DEF AwaitCommit, After, still, sock, Goto, Halfway
<1>3. l \in Locals /\ l.phase = loc[1].phase
  BY <1>1 DEF Locals
<1> HIDE DEF l
<1>4. Stepped(1, "commit", job[1], l)
  BY <1>1, <1>2, <1>3, RankFacts DEF Stepped, Types, Pcs
<1>5. WorkerAt("commit", job[1], l) /\ up[1]
  BY <1>2, <1>3 DEF WorkerAt, Halfway, Control, WorkerControl
<1>6. U \in Views /\ ~U.ack /\ U.due = 0 /\ U.block /\ ~U.cycle /\ U.job = job[1]
  BY <1>1, <1>2, <1>3, UndecidedView
<1>7. WorkerView \in Views /\ ~WorkerView.ack /\ WorkerView.due = 0 /\ WorkerView.block /\ ~WorkerView.cycle /\ WorkerView.job = job[1]
  BY <1>1, <1>2, UndecidedView DEF WorkerView
<1>8. U.sent = 0 /\ U.heard = 0 /\ WorkerView.sent = 0 /\ WorkerView.heard = 0
  <2>1. ~InCycle("commit", job[1]) /\ ~InCycle(pc[1], job[1])
    BY <1>2 DEF InCycle
  <2>2. U.sent = 0 /\ U.heard = 0
    BY <1>1, <1>3, <2>1, ViewFacts DEF Pcs
  <2>3. WorkerView.sent = 0 /\ WorkerView.heard = 0
    BY <1>1, <1>2, <2>1, ViewFacts DEF Pcs, Halfway, WorkerView
  <2> QED BY <2>2, <2>3
<1> HIDE DEF U
<1>9. U = WorkerView
  BY <1>6, <1>7, <1>8, ViewsEqual
<1> QED BY <1>2, <1>4, <1>5, <1>9, WorkerUnseen DEF U

(* While the worker waits for the leader's decision.                       *)
LEMMA CommitView ==
  ASSUME Types, WorkerControl, pc[1] = "commit"
  PROVE  WorkerView.block /\ WorkerView.job = job[1]
<1>1. /\ job[1] \in Jobs /\ loc[1] \in Locals /\ mode.split \in BOOLEAN /\ job[1].op \in Ops
  BY StandsStill, RankFacts DEF Types, Jobs, JobRecords
<1>2. job[1].op = "verify" /\ loc[1].phase = 0
  BY <1>1 DEF WorkerControl, Ops, AckOps, Halfway
<1>3. pc[1] \in Halfway \cup {"commit"}
  OBVIOUS
<1> QED BY <1>1, <1>2, <1>3, UndecidedView DEF WorkerView

(* The worker obeys the leader's decision.                                 *)
LEMMA CommitsView ==
  ASSUME Types, Control, StreamInv, pc[1] = "commit", chan[1] # <<>>, chan[1][1].t = "commit",
         chan' = Taken(1), up' = up, NEW p, NEW j, NEW l, Stepped(1, p, j, l), WorkerAt(p, j, l), p # "gone",
         NEW V \in Views, V = ViewOf(mode.split, p, j, l),
         ~V.ack, ~V.block, ~V.cycle, V.due <= LogitsFor(mode.split, chan[1][1]),
         ~AtRest(V) => V.job = job[1], V.job = job[1] \/ V.job = Job
  PROVE  Types' /\ Control' /\ StreamInv'
<1>1. Queues(chan') /\ chan'[1] = Tail(chan[1]) /\ chan'[0] = chan[0]
  BY TakenFrom, RankFacts DEF Types
<1>2. /\ job[1] \in Jobs /\ loc[1] \in Locals /\ mode.split \in BOOLEAN /\ job[1].op \in Ops
  BY StandsStill, RankFacts DEF Types, Jobs, JobRecords
<1>3. job[1].op = "verify" /\ loc[1].phase = 0 /\ up[1]
  BY <1>2 DEF Control, WorkerControl, Ops, AckOps, Halfway
<1>4. WorkerView.block /\ WorkerView.job = job[1]
  BY CommitView DEF Control
<1>5. ASSUME Calm
      PROVE  Framed(mode.split, calls, LeaderView, ViewOf(mode.split, p, j, l), up'[1], chan'[0], chan'[1])
  <2>1. PICK sp \in BOOLEAN, on \in BOOLEAN, n \in Nat, L \in Views, W \in Views,
             c0 \in Seq(Answers), c1 \in Seq(Orders), d0 \in Seq(Answers), d1 \in Seq(Orders) :
          /\ Now(sp, on, n, L, W, c0, c1, d0, d1) /\ Framed(sp, n, L, W, on, c0, c1)
    BY <1>1, <1>5, CalmNow
  <2>2. on = TRUE /\ d0 = c0 /\ d1 = Tail(c1) /\ c1 # <<>> /\ c1[1].t = "commit"
    BY <1>1, <1>3, <2>1 DEF Now
  <2>3. Framed(sp, n, L, W, TRUE, c0, c1)
    BY <2>1, <2>2
  <2>4. W.block /\ W.job = job[1] /\ V.due <= LogitsFor(sp, c1[1])
    BY <1>4, <2>1 DEF Now
  <2>5. V.job.c <= n
    BY <2>3, <2>4, OldWorker
  <2>6. ~AtRest(V) => V.job = W.job
    BY <2>4
  <2>7. Framed(sp, n, L, V, TRUE, c0, d1)
    BY <2>2, <2>3, <2>4, <2>5, <2>6, CommitRead, ZenonT(60)
  <2> QED BY <1>3, <2>1, <2>2, <2>7 DEF Now
<1> QED BY <1>3, <1>5, WorkerSeen

LEMMA ReadCommitInv ==
  ASSUME Types, Control, StreamInv, ReadCommit
  PROVE  Types' /\ Control' /\ StreamInv'
<1> DEFINE f == Head(chan[1])
           s == job[1].s
           k == IF f.k > job[1].n THEN job[1].n ELSE f.k
           m == mirror[1][s]
           x == CASE f.full = 1 -> m
                  [] f.full = 2 -> Kept(m, Start(1) + CommitSlot(f.k), Start(1) + f.k)
                  [] OTHER -> Kept(m, Start(1), Start(1))
<1>1. /\ job[1] \in Jobs /\ loc[1] \in Locals /\ mode.split \in BOOLEAN /\ job[1].n \in Nat
      /\ Start(1) \in Int /\ job = [job EXCEPT ![1] = job[1]] /\ job[1].op \in Ops
  BY StandsStill, RankFacts DEF Types, Jobs, JobRecords, Locals, Start
<1>2. pc[1] = "commit" /\ chan[1] # <<>> /\ f.t = "commit" /\ chan' = Taken(1) /\ UNCHANGED <<mode, calls, created, up, failed>>
  BY DEF ReadCommit, Arrives, Take, still
<1>3. f = chan[1][1] /\ f \in CommitFrames /\ f.k \in Nat
  <2>1. f = chan[1][1] /\ f \in Orders
    BY <1>2, Arrived
  <2>2. f \in CommitFrames
    BY <1>2, <2>1 DEF Orders, CmdFrames, AgreeFrames, CommitFrames
  <2> QED BY <2>1, <2>2 DEF CommitFrames
<1>4. mirror' = [mirror EXCEPT ![1][s] = x]
  BY DEF ReadCommit
<1>5. (f.full = 0 /\ k > 0) =>
        /\ loc' = [loc EXCEPT ![1].acc = k, ![1].phase = 1] /\ Goto(1, "replay") /\ UNCHANGED job
  BY DEF ReadCommit
<1>6. ~(f.full = 0 /\ k > 0) => Leave(1, "loop")
  BY DEF ReadCommit
<1>7. k \in Nat /\ (k > 0 => f.k > 0)
  BY <1>1, <1>3
<1>8. mirror' \in [Rank -> [Sessions -> Mirrors]]
  <2>1. Start(1) + CommitSlot(f.k) \in Int /\ Start(1) + f.k \in Int
    BY <1>1, <1>3 DEF CommitSlot
  <2>2. CASE f.full = 1
    <3>1. x = m
      BY <2>2
    <3>2. mirror' = mirror
      BY <1>4, <3>1 DEF Types
    <3> QED BY <3>2 DEF Types
  <2>3. CASE f.full = 2
    <3>1. x = Kept(m, Start(1) + CommitSlot(f.k), Start(1) + f.k)
      BY <2>3
    <3> QED BY <1>4, <2>1, <3>1, KeptTyped, RankFacts
  <2>4. CASE f.full \notin {1, 2}
    <3>1. x = Kept(m, Start(1), Start(1))
      BY <2>4
    <3> QED BY <1>1, <1>4, <3>1, KeptTyped, RankFacts
  <2> QED BY <2>2, <2>3, <2>4
<1>9. Queues(chan')
  BY <1>2, TakenFrom, RankFacts DEF Types
<1>10. job[1].op = "verify"
  BY <1>1, <1>2 DEF Control, WorkerControl, Ops, AckOps, Halfway
<1> HIDE DEF x, s, m, k, f
<1>11. LogitsFor(mode.split, f) \in Nat
  BY <1>3, LogitsCounted DEF Orders
<1>12. CASE f.full = 0 /\ k > 0
  <2> DEFINE a == [loc[1] EXCEPT !.acc = k]
             l == [a EXCEPT !.phase = 1]
  <2>1. a \in Locals
    BY <1>1, <1>7 DEF Locals
  <2>2. loc' = [loc EXCEPT ![1] = l]
    <3>1. loc' = [loc EXCEPT ![1].acc = k, ![1].phase = 1]
      BY <1>5, <1>12
    <3> QED BY <3>1 DEF Types
  <2> HIDE DEF a
  <2>3. l \in Locals /\ l.phase = 1
    BY <2>1 DEF Locals, Phases
  <2> HIDE DEF l
  <2>4. Stepped(1, "replay", job[1], l)
    BY <1>1, <1>2, <1>5, <1>8, <1>9, <1>12, <2>2, <2>3, RankFacts DEF Stepped, Types, Pcs, Goto
  <2>5. WorkerAt("replay", job[1], l)
    BY <1>10, <2>3 DEF WorkerAt
  <2>6. PICK V : V = ViewOf(mode.split, "replay", job[1], l)
    OBVIOUS
  <2>7. V = ViewOf(mode.split, "run", job[1], l)
    <3>1. "replay" \in Halfway \cup {"replay"} /\ "run" \in Halfway
      BY DEF Halfway
    <3>2. job[1].op = "verify" /\ l.phase # 0
      BY <1>10, <2>3
    <3>3. ViewOf(mode.split, "replay", job[1], l) = ViewOf(mode.split, "run", job[1], l)
      BY <3>1, <3>2, HalfwayView
    <3> QED BY <2>6, <3>3
  <2>8. /\ V \in Views /\ ~V.ack /\ ~V.block /\ ~V.cycle /\ V.due = One(mode.split)
        /\ (mode.split => ~AtRest(V) /\ V.job = job[1]) /\ (~mode.split => AtRest(V) /\ V.job = Job)
    BY <1>1, <1>10, <2>3, <2>7, HalfView DEF Halfway
  <2>9. V.due <= LogitsFor(mode.split, f)
    <3>1. LogitsFor(mode.split, f) = One(mode.split)
      BY <1>2, <1>7, <1>12 DEF LogitsFor, One, IsCmd
    <3> QED BY <1>11, <2>8, <3>1
  <2>10. (~AtRest(V) => V.job = job[1]) /\ (V.job = job[1] \/ V.job = Job)
    BY <2>8
  <2> QED BY <1>2, <1>3, <2>4, <2>5, <2>6, <2>8, <2>9, <2>10, CommitsView
<1>13. CASE ~(f.full = 0 /\ k > 0)
  <2>1. pc' = [pc EXCEPT ![1] = "loop"] /\ job' = [job EXCEPT ![1] = Job] /\ loc' = [loc EXCEPT ![1] = Loc]
    BY <1>6, <1>13 DEF Leave, Goto
  <2>2. Stepped(1, "loop", Job, Loc)
    BY <1>2, <1>8, <1>9, <2>1, JobTyped, RankFacts DEF Stepped, Types, Pcs
  <2>3. WorkerAt("loop", Job, Loc)
    BY DEF WorkerAt, Job
  <2>4. PICK V \in Views : V = ViewOf(mode.split, "loop", Job, Loc) /\ AtRest(V) /\ V.job = Job
    BY <1>1, RestView
  <2>5. ~V.ack /\ ~V.block /\ ~V.cycle /\ V.due <= LogitsFor(mode.split, f)
    BY <1>11, <2>4 DEF AtRest
  <2> QED BY <1>2, <1>3, <2>2, <2>3, <2>4, <2>5, CommitsView
<1> QED BY <1>12, <1>13

-----------------------------------------------------------------------------
(* Commands that call for no answer: the leader sends them between calls.  *)
LEMMA SendsQuietly ==
  ASSUME Types, Control, StreamInv, Calm, pc[0] = "idle",
         NEW j \in Jobs, j.op \in {"invalidate", "stop"}, NEW m \in Nat, calls <= m,
         j.op # "stop" => j.c <= m, chan' = Put(chan, 0, <<Frame(j)>>),
         NEW M \in Views, AtRest(M), M.sent = 0, M.heard = 0
  PROVE  Framed(mode.split, m, M, WorkerView, up[1], chan'[0], chan'[1])
<1>1. PICK f : f = Frame(j)
  OBVIOUS
<1>2. f \in Orders
  BY <1>1 DEF Orders, CmdFrames, Frame
<1>3. /\ Queues(chan') /\ chan'[0] = chan[0]
      /\ chan'[1] = IF up[1] THEN Append(chan[1], f) ELSE chan[1]
  BY <1>1, <1>2, Ordered1 DEF Types
<1>4. PICK sp \in BOOLEAN, on \in BOOLEAN, n \in Nat, L \in Views, W \in Views,
           c0 \in Seq(Answers), c1 \in Seq(Orders), d0 \in Seq(Answers), d1 \in Seq(Orders) :
        /\ Now(sp, on, n, L, W, c0, c1, d0, d1) /\ Framed(sp, n, L, W, on, c0, c1)
  BY <1>3, CalmNow
<1>5. AtRest(L) /\ n <= m
  BY <1>4, LeaderAtRest DEF Now, Control
<1>6. LogitsFor(sp, Frame(j)) = 0
  BY DEF LogitsFor, Frame, IsCmd
<1>7. /\ ~M.ack /\ M.due = 0 /\ ~M.block /\ ~M.cycle /\ j.op \notin AckOps /\ j.op \notin {"none", "verify", "native"}
  BY DEF AtRest, AckOps
<1>8. CASE on
  <2>1. up[1] /\ on = TRUE
    BY <1>4, <1>8 DEF Now
  <2>2. d1 = Append(c1, Frame(j)) /\ d0 = c0
    BY <1>1, <1>3, <1>4, <2>1 DEF Now
  <2>3. Framed(sp, n, L, W, TRUE, c0, c1)
    BY <1>4, <2>1
  <2>4. (M.ack <=> j.op \in AckOps) /\ M.due = LogitsFor(sp, Frame(j)) /\ (M.block <=> j.op = "verify") /\ (M.cycle <=> j.op = "native")
    BY <1>6, <1>7
  <2>5. j.op # "none"
    BY <1>7
  <2>6. Framed(sp, m, M, W, TRUE, c0, d1)
    BY <1>5, <2>2, <2>3, <2>4, <2>5, Announced, ZenonT(60)
  <2> QED BY <1>4, <2>1, <2>2, <2>6 DEF Now
<1>9. CASE ~on
  <2>1. d1 = c1 /\ d0 = c0 /\ on = FALSE
    BY <1>3, <1>4, <1>9 DEF Now
  <2>2. Framed(sp, n, L, W, FALSE, c0, c1)
    BY <1>4, <2>1
  <2>3. ~L.ack /\ L.due = 0 /\ ~L.cycle
    BY <1>5 DEF AtRest
  <2>4. Framed(sp, m, M, W, FALSE, c0, c1)
    BY <1>7, <2>2, <2>3, Unread, ZenonT(60)
  <2> QED BY <1>4, <2>1, <2>4 DEF Now
<1> QED BY <1>8, <1>9

LEMMA RestingView ==
  ASSUME Types, LeaderControl, pc[0] = "idle"
  PROVE  LeaderView \in Views /\ AtRest(LeaderView) /\ LeaderView.sent = 0 /\ LeaderView.heard = 0
<1>1. job[0] \in Jobs /\ loc[0] \in Locals /\ mode.split \in BOOLEAN /\ pc[0] \in Pcs
  BY StandsStill, RankFacts DEF Types
<1>2. job[0].op = "none" /\ AtRest(LeaderView)
  BY LeaderAtRest
<1>3. ~InCycle(pc[0], job[0])
  BY <1>2 DEF InCycle
<1> QED BY <1>1, <1>2, <1>3, ViewFacts DEF LeaderView

LEMMA InvalidateInv ==
  ASSUME Types, Control, StreamInv, NEW s \in Sessions, Invalidate(s)
  PROVE  Types' /\ Control' /\ StreamInv'
<1> DEFINE i == Named("invalidate", s)
           j == [i EXCEPT !.c = calls + 1]
<1>1. /\ pc[0] = "idle" /\ calls' = calls + 1 /\ UNCHANGED <<mode, up, pc, job, loc, failed, created>>
      /\ mirror' = Dropped(0, {s})
      /\ IF failed[0] THEN UNCHANGED chan ELSE chan' = Put(chan, 0, <<Frame(j)>>)
  BY DEF Invalidate, Calls, Calling, Write, Cmd, Frame, Named
<1>2. j \in Jobs /\ j.op = "invalidate" /\ j.c = calls + 1
  <2>1. i \in Jobs /\ i.op = "invalidate"
    BY MadeJob DEF Ops
  <2>2. calls \in Nat
    BY DEF Types
  <2> HIDE DEF i
  <2> QED BY <2>1, <2>2, CountedJob
<1> HIDE DEF j
<1>3. Queues(chan')
  <2>1. Frame(j) \in Orders
    BY <1>2 DEF Orders, CmdFrames, Frame
  <2>2. CASE failed[0]
    BY <1>1, <2>2 DEF Types
  <2>3. CASE ~failed[0]
    <3>1. chan' = Put(chan, 0, <<Frame(j)>>) /\ Queues(chan) /\ up \in [Rank -> BOOLEAN]
      BY <1>1, <2>3 DEF Types
    <3> QED BY <2>1, <3>1, Ordered1
  <2> QED BY <2>2, <2>3
<1>4. Types'
  <2>1. mirror' \in [Rank -> [Sessions -> Mirrors]]
    BY <1>1, DroppedTyped, RankFacts DEF Types
  <2>2. calls' \in Nat
    BY <1>1 DEF Types
  <2>3. UNCHANGED <<mode, up, pc, job, loc, failed, created>>
    BY <1>1
  <2> QED BY <1>3, <2>1, <2>2, <2>3 DEF Types
<1>5. job[0].op = "none" /\ loc[0] = Loc
  BY <1>1, LeaderAtRest DEF Control
<1>6. Control'
  <2>1. LeaderControl'
    BY <1>1, <1>5 DEF Control, LeaderControl
  <2>2. WorkerControl'
    BY <1>1 DEF Control, WorkerControl
  <2> QED BY <2>1, <2>2 DEF Control
<1>7. LeaderView' = LeaderView /\ WorkerView' = WorkerView
  BY <1>1 DEF LeaderView, WorkerView
<1>8. ASSUME Calm'
      PROVE  Framed(mode.split, calls + 1, LeaderView, WorkerView, up[1], chan'[0], chan'[1])
  <2>1. Calm /\ ~failed[0]
    BY <1>1, <1>8, RankFacts DEF Calm
  <2>2. chan' = Put(chan, 0, <<Frame(j)>>)
    BY <1>1, <2>1
  <2>3. calls + 1 \in Nat /\ calls <= calls + 1 /\ j.c <= calls + 1
    BY <1>2 DEF Types
  <2>4. LeaderView \in Views /\ AtRest(LeaderView) /\ LeaderView.sent = 0 /\ LeaderView.heard = 0
    BY <1>1, RestingView DEF Control
  <2>5. j.op \in {"invalidate", "stop"} /\ pc[0] = "idle"
    BY <1>1, <1>2
  <2> QED BY <1>2, <2>1, <2>2, <2>3, <2>4, <2>5, SendsQuietly
<1>9. StreamInv'
  <2>1. pc'[0] # "drop"
    BY <1>1
  <2> QED BY <1>1, <1>7, <1>8, <2>1 DEF StreamInv
<1> QED BY <1>4, <1>6, <1>9

LEMMA StopInv ==
  ASSUME Types, Control, StreamInv, Stop
  PROVE  Types' /\ Control' /\ StreamInv'
<1> DEFINE i == [Job EXCEPT !.op = "stop"]
           j == [i EXCEPT !.c = calls + 1]
<1>1. /\ pc[0] = "idle" /\ pc' = [pc EXCEPT ![0] = "stopped"]
      /\ UNCHANGED <<mode, mirror, job, loc, up, failed, calls, created>>
  BY DEF Stop, Goto
<1>2. j \in Jobs /\ j.op = "stop"
  <2>1. i \in Jobs /\ i.op = "stop"
    BY JobTyped DEF Jobs, JobRecords, Ops
  <2>2. calls \in Nat
    BY DEF Types
  <2> HIDE DEF i
  <2> QED BY <2>1, <2>2, CountedJob
<1>3. chan' = Put(chan, 0, <<Frame(j)>>)
  BY DEF Stop, Write, Cmd, Frame
<1> HIDE DEF j
<1>4. Queues(chan')
  <2>1. Frame(j) \in Orders
    BY <1>2 DEF Orders, CmdFrames, Frame
  <2>2. Queues(chan) /\ up \in [Rank -> BOOLEAN]
    BY DEF Types
  <2> QED BY <1>3, <2>1, <2>2, Ordered1
<1>5. /\ job = [job EXCEPT ![0] = job[0]] /\ loc = [loc EXCEPT ![0] = loc[0]]
      /\ job[0] \in Jobs /\ loc[0] \in Locals /\ mode.split \in BOOLEAN
  BY StandsStill, RankFacts DEF Types
<1>6. Stepped(0, "stopped", job[0], loc[0])
  BY <1>1, <1>4, <1>5, RankFacts DEF Stepped, Types, Pcs
<1>7. job[0].op = "none" /\ loc[0] = Loc
  BY <1>1, LeaderAtRest DEF Control
<1>8. LeaderAt("stopped", job[0], loc[0], calls, failed'[0])
  BY <1>7 DEF LeaderAt
<1>9. PICK M : M = ViewOf(mode.split, "stopped", job[0], loc[0])
  OBVIOUS
<1>10. M \in Views /\ AtRest(M) /\ M.sent = 0 /\ M.heard = 0
  <2>1. /\ ~Unacknowledged("stopped", job[0]) /\ ~Undecided("stopped", job[0], loc[0]) /\ ~InCycle("stopped", job[0])
        /\ ~Replaying("stopped", job[0], loc[0]) /\ ~Evaluating("stopped", job[0])
    BY <1>7 DEF Unacknowledged, Undecided, InCycle, Replaying, Evaluating, AckOps
  <2>2. Outstanding(mode.split, "stopped", job[0], loc[0]) = 0
    BY <2>1 DEF Outstanding
  <2> QED BY <1>5, <1>9, <2>1, <2>2, ViewFacts DEF AtRest, Pcs
<1>11. ASSUME Calm
       PROVE  Framed(mode.split, calls, M, WorkerView, up[1], chan'[0], chan'[1])
  <2>1. calls \in Nat /\ calls <= calls
    BY DEF Types
  <2>2. j.op \in {"invalidate", "stop"} /\ (j.op # "stop" => j.c <= calls) /\ pc[0] = "idle"
    BY <1>1, <1>2
  <2> QED BY <1>2, <1>3, <1>10, <1>11, <2>1, <2>2, SendsQuietly
<1>12. up'[0] \/ failed'[0]
  BY <1>1 DEF Control, LeaderControl
<1> QED BY <1>6, <1>8, <1>9, <1>11, <1>12, LeaderSeen

-----------------------------------------------------------------------------
(* The start, and what the invariant says of it all.                       *)
LEMMA EmptyFramed ==
  ASSUME NEW sp \in BOOLEAN, NEW n \in Nat, NEW L \in Views, NEW W \in Views, AtRest(L), AtRest(W), W.job.c = 0
  PROVE  Framed(sp, n, L, W, TRUE, <<>>, <<>>)
<1> DEFINE e == <<>>
<1>1. Len(e) = 0 /\ DOMAIN e = {} /\ e = <<>>
  OBVIOUS
<1> HIDE DEF e
<1>2. ~L.ack /\ L.due = 0 /\ ~L.block /\ ~L.cycle /\ ~W.ack /\ W.due = 0 /\ ~W.block /\ ~W.cycle
  BY DEF AtRest
<1>3. ToLeader(n, L, e)
  BY <1>1, <1>2 DEF ToLeader
<1>4. FromWorker(L, W, e) /\ Waiting(sp, L, W, e, e)
  BY <1>1, <1>2 DEF FromWorker, Waiting
<1>5. Ordered(L, W, e)
  BY <1>1 DEF Ordered
<1>6. LeftOpen(L, W, e) /\ InCycles(L, W, e, e)
  BY <1>1, <1>2 DEF LeftOpen, InCycles, Paired
<1>7. Old(n, W, e)
  BY <1>1 DEF Old
<1> QED BY <1>1, <1>3, <1>4, <1>5, <1>6, <1>7 DEF Framed

LEMMA Starts == ASSUME Init PROVE Types /\ Control /\ StreamInv
<1>1. mode \in [family : {"dspark", "native"}, split : BOOLEAN] /\ mode.split \in BOOLEAN
  BY ModeAssumption DEF Init
<1>2. /\ pc[0] = "idle" /\ pc[1] = "loop" /\ job[0] = Job /\ job[1] = Job /\ loc[0] = Loc /\ loc[1] = Loc
      /\ up[0] = TRUE /\ up[1] = TRUE /\ chan[0] = <<>> /\ chan[1] = <<>> /\ calls = 0
  BY RankFacts DEF Init
<1>3. Types
  <2>1. mirror \in [Rank -> [Sessions -> Mirrors]]
    <3>1. [s \in Sessions |-> Closed] \in [Sessions -> Mirrors]
      BY JobTyped
    <3> QED BY <3>1 DEF Init
  <2>2. pc \in [Rank -> Pcs] /\ job \in [Rank -> Jobs] /\ loc \in [Rank -> Locals]
    BY JobTyped DEF Init, Pcs
  <2>3. up \in [Rank -> BOOLEAN] /\ failed \in [Rank -> BOOLEAN] /\ calls \in Nat /\ created \in Nat
    BY DEF Init
  <2>4. Queues(chan)
    <3>1. <<>> \in Seq(Answers) /\ <<>> \in Seq(Orders)
      OBVIOUS
    <3>2. chan \in [Rank -> Seq(Orders) \cup Seq(Answers)]
      BY <3>1 DEF Init
    <3> QED BY <1>2, <3>1, <3>2 DEF Queues
  <2> QED BY <1>1, <2>1, <2>2, <2>3, <2>4 DEF Types
<1>4. LeaderControl
  BY <1>2 DEF LeaderControl, Job
<1>5. WorkerControl
  BY <1>2 DEF WorkerControl, Job
<1>6. StreamInv
  <2>1. PICK L \in Views : L = ViewOf(mode.split, "idle", Job, Loc) /\ AtRest(L)
    BY <1>1, RestView
  <2>2. PICK W \in Views : W = ViewOf(mode.split, "loop", Job, Loc) /\ AtRest(W) /\ W.job = Job
    BY <1>1, RestView
  <2>3. L = LeaderView /\ W = WorkerView
    BY <1>2, <2>1, <2>2 DEF LeaderView, WorkerView
  <2>4. W.job.c = 0
    BY <2>2 DEF Job
  <2>5. Framed(mode.split, 0, L, W, TRUE, <<>>, <<>>)
    <3>1. 0 \in Nat /\ mode.split \in BOOLEAN
      BY <1>1
    <3>2. AtRest(L) /\ AtRest(W) /\ W.job.c = 0
      BY <2>1, <2>2, <2>4
    <3> HIDE DEF LeaderView, WorkerView
    <3> QED BY <3>1, <3>2, EmptyFramed, ZenonT(60)
  <2> QED BY <1>2, <2>3, <2>5 DEF StreamInv
<1> QED BY <1>3, <1>4, <1>5, <1>6 DEF Control

LEMMA StandingStill ==
  ASSUME Types, Control, StreamInv, UNCHANGED vars
  PROVE  Types' /\ Control' /\ StreamInv'
<1>1. UNCHANGED <<mode, mirror, pc, job, loc, chan, up, failed, calls, created>>
  BY DEF vars, sock
<1>2. Types'
  BY <1>1 DEF Types
<1>3. Control'
  BY <1>1 DEF Control, LeaderControl, WorkerControl
<1>4. LeaderView' = LeaderView /\ WorkerView' = WorkerView
  BY <1>1 DEF LeaderView, WorkerView
<1>5. StreamInv'
  BY <1>1, <1>4 DEF StreamInv, Calm
<1> QED BY <1>2, <1>3, <1>5

LEMMA HearingView ==
  ASSUME Types, WorkerControl, pc[1] = "hear"
  PROVE  WorkerView.cycle /\ ~WorkerView.block
<1>1. /\ job[1] \in Jobs /\ loc[1] \in Locals /\ mode.split \in BOOLEAN /\ job[1].op \in Ops
  BY StandsStill, RankFacts DEF Types, Jobs, JobRecords
<1>2. job[1].op = "native"
  BY <1>1 DEF WorkerControl, Ops, AckOps, Halfway
<1>3. pc[1] \in Halfway \cup {"check", "hear"}
  OBVIOUS
<1> QED BY <1>1, <1>2, <1>3, CycleView DEF WorkerView

(* The invariant keeps the stream framed.                                  *)
LEMMA FramesTheStream == Types /\ Control /\ StreamInv => StreamFramed
<1> SUFFICES ASSUME Types, Control, StreamInv, Calm
             PROVE  /\ \A r \in Rank : chan[r] # <<>> => Awaited(r) \in {Head(chan[r]).t, "any"}
                    /\ \A i \in DOMAIN chan[0] : chan[0][i].c = calls
                    /\ pc[0] = "idle" => chan[0] = <<>>
  BY DEF StreamFramed, Calm
<1>1. /\ Framed(mode.split, calls, LeaderView, WorkerView, up[1], chan[0], chan[1])
      /\ up[1] \in BOOLEAN /\ mode.split \in BOOLEAN /\ calls \in Nat
      /\ chan[0] \in Seq(Answers) /\ chan[1] \in Seq(Orders)
      /\ LeaderView \in Views /\ WorkerView \in Views
  BY CalmFacts
<1>2. ToLeader(calls, LeaderView, chan[0])
  BY <1>1 DEF Framed
<1>3. \A i \in DOMAIN chan[0] : chan[0][i].c = calls
  BY <1>2 DEF ToLeader
<1>4. pc[0] = "idle" => chan[0] = <<>>
  <2>1. ASSUME pc[0] = "idle" PROVE chan[0] = <<>>
    <3>1. ~LeaderView.ack /\ LeaderView.due = 0 /\ ~LeaderView.cycle
      BY <2>1, LeaderAtRest DEF Control, AtRest
    <3> QED BY <1>1, <3>1, NothingLeft
  <2> QED BY <2>1
<1>5. /\ job[0] \in Jobs /\ loc[0] \in Locals /\ job[0].op \in Ops
      /\ job[1] \in Jobs /\ loc[1] \in Locals /\ job[1].op \in Ops
      /\ loc[0].want \in Nat /\ loc[1].want \in Nat
  BY StandsStill, RankFacts DEF Jobs, JobRecords, Locals
<1>6. chan[0] # <<>> => Awaited(0) \in {Head(chan[0]).t, "any"}
  <2> SUFFICES ASSUME chan[0] # <<>> PROVE Awaited(0) \in {Head(chan[0]).t, "any"}
    OBVIOUS
  <2>1. Head(chan[0]) = chan[0][1] /\ 1 \in DOMAIN chan[0]
    BY <1>1
  <2>2. CASE pc[0] = "ack"
    <3>1. LeaderView.ack
      BY <2>2, Waits DEF Control
    <3>2. chan[0][1].t = "ack"
      BY <1>2, <3>1 DEF ToLeader
    <3>3. Awaited(0) = "ack"
      BY <2>2 DEF Awaited
    <3> QED BY <2>1, <3>2, <3>3
  <2>3. CASE pc[0] = "logits"
    <3>1. ~LeaderView.ack /\ ~LeaderView.cycle
      BY <2>3, ReadsLogits DEF Control
    <3>2. chan[0][1].t = "logits"
      BY <1>2, <2>1, <3>1 DEF ToLeader
    <3>3. Awaited(0) \in {"logits", "any"}
      BY <2>3 DEF Awaited
    <3> QED BY <2>1, <3>2, <3>3
  <2>4. CASE pc[0] = "hear"
    <3>1. job[0].op = "native"
      BY <1>5, <2>4 DEF Control, LeaderControl, Ops, AckOps, Halfway
    <3>2. LeaderView.cycle
      BY <1>1, <2>4, <3>1, HearsView, RankFacts DEF LeaderView
    <3>3. chan[0][1].t = "agree"
      BY <1>2, <2>1, <3>2 DEF ToLeader
    <3>4. Awaited(0) = "agree"
      BY <2>4 DEF Awaited
    <3> QED BY <2>1, <3>3, <3>4
  <2>5. CASE pc[0] \notin {"ack", "logits", "hear"}
    <3>1. pc[0] \notin {"commit", "loop"}
      BY <1>5 DEF Control, LeaderControl, Ops, AckOps, Halfway
    <3>2. Awaited(0) = "any"
      BY <2>5, <3>1 DEF Awaited
    <3> QED BY <3>2
  <2> QED BY <2>2, <2>3, <2>4, <2>5
<1>7. chan[1] # <<>> => Awaited(1) \in {Head(chan[1]).t, "any"}
  <2> SUFFICES ASSUME chan[1] # <<>> PROVE Awaited(1) \in {Head(chan[1]).t, "any"}
    OBVIOUS
  <2>1. Head(chan[1]) = chan[1][1]
    BY <1>1
  <2>2. chan[1][1].t = FirstType(WorkerView)
    <3>1. Ordered(LeaderView, WorkerView, chan[1])
      BY <1>1 DEF Framed
    <3> QED BY <3>1 DEF Ordered
  <2>3. CASE pc[1] = "loop"
    <3>1. AtRest(WorkerView)
      BY <2>3, WorkerAtRest
    <3>2. FirstType(WorkerView) = "cmd"
      BY <3>1 DEF AtRest, FirstType
    <3>3. Awaited(1) = "cmd"
      BY <2>3 DEF Awaited
    <3> QED BY <2>1, <2>2, <3>2, <3>3
  <2>4. CASE pc[1] = "commit"
    <3>1. WorkerView.block
      BY <2>4, CommitView DEF Control
    <3>2. FirstType(WorkerView) = "commit"
      BY <3>1 DEF FirstType
    <3>3. Awaited(1) = "commit"
      BY <2>4 DEF Awaited
    <3> QED BY <2>1, <2>2, <3>2, <3>3
  <2>5. CASE pc[1] = "hear"
    <3>1. WorkerView.cycle /\ ~WorkerView.block
      BY <2>5, HearingView DEF Control
    <3>2. FirstType(WorkerView) = "agree"
      BY <3>1 DEF FirstType
    <3>3. Awaited(1) = "agree"
      BY <2>5 DEF Awaited
    <3> QED BY <2>1, <2>2, <3>2, <3>3
  <2>6. CASE pc[1] \notin {"loop", "commit", "hear"}
    <3>1. pc[1] \notin {"ack", "logits"}
      BY <1>5 DEF Control, WorkerControl, Ops, AckOps, Halfway
    <3>2. Awaited(1) = "any"
      BY <2>6, <3>1 DEF Awaited
    <3> QED BY <3>2
  <2> QED BY <2>3, <2>4, <2>5, <2>6
<1> QED BY <1>3, <1>4, <1>6, <1>7, RankFacts

-----------------------------------------------------------------------------
(* Every step keeps the invariant.                                         *)
LEMMA CallInv ==
  ASSUME Types, Control, StreamInv, Call
  PROVE  Types' /\ Control' /\ StreamInv'
<1>1. ASSUME NEW j, CallMade(j) PROVE Types' /\ Control' /\ StreamInv'
  <2>1. Types' /\ Control'
    BY <1>1, CallControl
  <2> QED BY <1>1, <2>1, CallStream
<1>2. (\E j : CallMade(j)) => Types' /\ Control' /\ StreamInv'
  BY <1>1
<1>3. CASE Create
  BY <1>2, <1>3, CreateMade
<1>4. ASSUME NEW s \in Sessions, Destroy(s) \/ Eval(s) \/ Invalidate(s)
      PROVE  Types' /\ Control' /\ StreamInv'
  BY <1>2, <1>4, DestroyMade, EvalMade, InvalidateInv
<1>5. ASSUME NEW s \in Sessions, NEW p \in Prompts, Sync(s, p)
      PROVE  Types' /\ Control' /\ StreamInv'
  BY <1>2, <1>5, SyncMade
<1>6. ASSUME NEW s \in Sessions \cup {0}, NEW p \in Prompts \cup {<<0, 0>>},
             NEW items \in SUBSET Sessions, Batch(s, p, items)
      PROVE  Types' /\ Control' /\ StreamInv'
  BY <1>2, <1>6, BatchMade
<1>7. ASSUME NEW s \in Sessions, NEW n \in 1 .. MaxBlock, Verify(s, n) \/ Native(s, n)
      PROVE  Types' /\ Control' /\ StreamInv'
  BY <1>2, <1>7, VerifyMade, NativeMade
<1>8. CASE Stop
  BY <1>8, StopInv
<1> QED BY <1>3, <1>4, <1>5, <1>6, <1>7, <1>8 DEF Call

LEMMA LeaderInv ==
  ASSUME Types, Control, StreamInv, Leader
  PROVE  Types' /\ Control' /\ StreamInv'
<1>1. CASE AwaitAck \/ AwaitLogits \/ GiveUp \/ Drop \/ ReplayLost
  BY <1>1, AwaitAckInv, AwaitLogitsInv, GiveUpInv, DropInv, ReplayLostInv
<1>2. CASE AckGood \/ AckBad \/ LogitsArrive \/ LogitsMissing \/ Answered
  BY <1>2, AckGoodInv, AckBadInv, LogitsArriveInv, LogitsMissingInv, AnsweredInv
<1>3. ASSUME NEW c \in 1 .. MaxBlock, Decide(c) PROVE Types' /\ Control' /\ StreamInv'
  BY <1>3, DecideInv
<1>4. ASSUME NEW k \in 0 .. MaxBlock, RollBack(k) PROVE Types' /\ Control' /\ StreamInv'
  BY <1>4, RollBackInv
<1> QED BY <1>1, <1>2, <1>3, <1>4 DEF Leader

LEMMA WorkerInv ==
  ASSUME Types, Control, StreamInv, Worker
  PROVE  Types' /\ Control' /\ StreamInv'
<1>1. CASE WorkerCreate \/ WorkerDestroy \/ WorkerInvalidate \/ WorkerStarts \/ WorkerStops
  BY <1>1, WorkerCreateInv, WorkerDestroyInv, WorkerInvalidateInv, WorkerStartsInv, WorkerStopsInv
<1>2. CASE WorkerAnswers \/ WorkerLogits \/ WorkerFails \/ AwaitCommit \/ ReadCommit \/ CommitFails
  BY <1>2, WorkerAnswersInv, WorkerLogitsInv, WorkerFailsInv, AwaitCommitInv, ReadCommitInv, CommitFailsInv
<1> QED BY <1>1, <1>2 DEF Worker

LEMMA BothInv ==
  ASSUME Types, Control, StreamInv, NEW r \in Rank, Both(r)
  PROVE  Types' /\ Control' /\ StreamInv'
<1>1. CASE Begin(r) \/ Computes(r) \/ GateFails(r)
  BY <1>1, BeginInv, ComputesInv, GateFailsInv
<1>2. CASE AgreeSend(r)
  BY <1>2, LeaderProposes, WorkerProposes, RankFacts
<1>3. CASE AgreeHear(r)
  BY <1>3, LeaderHearsInv, WorkerHearsInv, RankFacts
<1>4. CASE AgreeFails(r)
  BY <1>4, AgreeFailsInv
<1> QED BY <1>1, <1>2, <1>3, <1>4 DEF Both

(* No step of either rank, no crash of the worker and no fault that is     *)
(* answered breaks the invariant of the control stream.                    *)
LEMMA NextInv ==
  ASSUME FaultsAnswered, Types, Control, StreamInv, [Next]_vars
  PROVE  Types' /\ Control' /\ StreamInv'
<1>1. CASE Call
  BY <1>1, CallInv
<1>2. CASE Leader
  BY <1>2, LeaderInv
<1>3. CASE Worker
  BY <1>3, WorkerInv
<1>4. CASE \E r \in Rank : Both(r)
  BY <1>4, BothInv
<1>5. CASE Faults
  <2>1. ASSUME NEW r \in Rank, NEW when \in {"before", "within", "after"}, LocalFault(r, when)
        PROVE  Types' /\ Control' /\ StreamInv'
    BY <2>1, LocalFaultInv
  <2> QED BY <1>5, <2>1, CrashInv DEF Faults
<1>6. CASE UNCHANGED vars
  BY <1>6, StandingStill
<1> QED BY <1>1, <1>2, <1>3, <1>4, <1>5, <1>6 DEF Next, Finished

-----------------------------------------------------------------------------
(* Where the ranks can be: each is only at the places of the command it    *)
(* runs, a leader that lost its half of a call without failing is in one   *)
(* whose loss the worker hears of, and no rank's socket is shut before the *)
(* rank has failed or gone.                                                *)
THEOREM ControlFlow == ASSUME FaultsAnswered PROVE Spec => [](Types /\ Control)
<1>1. Init => Types /\ Control /\ StreamInv
  BY Starts
<1>2. Types /\ Control /\ StreamInv /\ [Next]_vars => (Types /\ Control /\ StreamInv)'
  BY NextInv
<1> QED BY <1>1, <1>2, PTL DEF Spec

(* Between two ranks of which neither has failed the control stream stays  *)
(* framed: what a rank reads next has the type it waits for, what is on its*)
(* way to the leader belongs to the running call, and a call that returns  *)
(* leaves nothing behind (ds4_tp.c, and "keep the control stream framed"   *)
(* in ds4_session_sync), for any number of sessions, any prompts and block *)
(* sizes, any crash of the worker and any fault but the two of the leader  *)
(* after which the code leaves the worker's answer unread.                 *)
THEOREM Framing == ASSUME FaultsAnswered PROVE Spec => []StreamFramed
<1>1. Init => Types /\ Control /\ StreamInv
  BY Starts
<1>2. Types /\ Control /\ StreamInv /\ [Next]_vars => (Types /\ Control /\ StreamInv)'
  BY NextInv
<1>3. Types /\ Control /\ StreamInv => StreamFramed
  BY FramesTheStream
<1> QED BY <1>1, <1>2, <1>3, PTL DEF Spec
=============================================================================
