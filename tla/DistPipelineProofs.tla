------------------------- MODULE DistPipelineProofs -------------------------
(***************************************************************************)
(* Proofs about the layer pipeline for any number of workers, connections, *)
(* chunk size and window.  First the plan of a prefill: what PlanFor       *)
(* promises, and that every step of the producer and of the reader keeps   *)
(* the counters of the plan consistent.  Then the caller: the session's    *)
(* checkpoint names the transcript its logits come from, at every point of *)
(* a call where somebody can read them.                                    *)
(***************************************************************************)
EXTENDS DistPipeline, SequenceTheorems, WellFoundedInduction, TLAPS

(* A nonempty set of naturals has a least element.                         *)
LEMMA MinIn == ASSUME NEW S \in SUBSET Nat, S # {} PROVE Min(S) \in S
<1>1. PICK x \in S : \A y \in S : ~(<<y, x>> \in OpToRel(<, Nat))
  BY NatLessThanWellFounded, WFMin
<1>2. \A y \in S : x <= y
  <2> SUFFICES ASSUME NEW y \in S PROVE x <= y
    OBVIOUS
  <2>1. <<y, x>> \in Nat \X Nat /\ <<y, x>>[1] = y /\ <<y, x>>[2] = x
    OBVIOUS
  <2>2. ~(y < x)
    BY <1>1, <2>1 DEF OpToRel
  <2> QED BY <2>2
<1> QED BY <1>2 DEF Min

LEMMA MinTwo ==
  ASSUME NEW a \in Int, NEW b \in Int
  PROVE  Min({a, b}) = IF a <= b THEN a ELSE b
BY DEF Min

(* Enough chunks cover the rest.                                           *)
LEMMA ChunksCover ==
  ASSUME NEW r \in Int, NEW k \in Nat, k > 0
  PROVE  ((r + k - 1) \div k) * k >= r
OBVIOUS

LEMMA SubSeqTyped ==
  ASSUME NEW s \in Seq(Nat), NEW p \in Nat, NEW n \in Nat, p + n <= Len(s)
  PROVE  /\ SubSeq(s, p + 1, p + n) \in Seq(Nat) /\ Len(SubSeq(s, p + 1, p + n)) = n
         /\ Len(SubSeq(s, 1, p)) = p /\ Len(SubSeq(s, 1, p + n)) = p + n
OBVIOUS

LEMMA SubSeqGrows ==
  ASSUME NEW s \in Seq(Nat), NEW p \in Nat, NEW n \in Nat, p + n <= Len(s)
  PROVE  SubSeq(s, 1, p) \o SubSeq(s, p + 1, p + n) = SubSeq(s, 1, p + n)
OBVIOUS

-----------------------------------------------------------------------------
(* The inductive invariant, the types first. *)

Toks == Seq(Nat)

(* What a worker is asked names one prefix; a result that is no error is   *)
(* for the prefix it is computed on.                                       *)
Jobs ==
  {j \in [id : Nat, pre : Toks, toks : Toks, reset : BOOLEAN, ack : BOOLEAN, by : SUBSET Toks] :
     j.by = {j.pre \o j.toks}}
Results ==
  {r \in [id : Nat, ok : BOOLEAN, hash : Toks, ack : BOOLEAN, by : SUBSET Toks] :
     r.ok => r.by = {r.hash}}
UpTo(n, S) == {q \in Seq(S) : Len(q) <= n}

(* A relay thread has a connection to read from, an evaluating thread a    *)
(* worker, and only a worker with a next hop has work in hand.             *)
Links ==
  {k \in [w : Workers \cup {0}, near : BOOLEAN, far : BOOLEAN, work : Seq(Jobs),
          res : Seq(Results), main : BOOLEAN, rd : BOOLEAN, ev : BOOLEAN,
          queue : UpTo(PrefetchDepth, Jobs), closed : BOOLEAN, hand : Seq(Jobs),
          down : Conns \cup {0}, relay : BOOLEAN, pend : UpTo(ForwardDepth, Nat),
          closing : BOOLEAN] :
     /\ k.relay => k.down # 0
     /\ k.ev => k.w # 0
     /\ k.hand # <<>> => HasNext(k.w)}
Net == [Conns -> Links]

(* A KV session whose hash is known is the prefix it hashes.               *)
Sessions ==
  {s \in [toks : Toks, valid : BOOLEAN, hash : Toks, known : BOOLEAN] :
     s.known => s.hash = s.toks}
Owners == {o \in [toks : Toks, valid : BOOLEAN] : Len(o.toks) <= MaxLen}
Marks == [of : Toks, by : SUBSET Toks]
Calls ==
  [pc : {"idle", "span", "await", "produce", "join", "reroute"},
   op : {"none", "sync", "eval"}, goal : Toks, want : Toks, from : Nat, pos : Nat,
   reset : BOOLEAN, first : Nat, sub : Nat, tries : {0, 1}, rc : {0, 1}, worked : BOOLEAN]
Rets == [op : {"none", "sync", "eval"}, ok : BOOLEAN, goal : Toks, worked : BOOLEAN]
Plans == [ready : BOOLEAN, current : BOOLEAN, fd : Conns \cup {0}]
Senders == [slots : UpTo(SendDepth, Jobs), done : BOOLEAN, stop : BOOLEAN, rc : {0, 1}]
Readers == [on : BOOLEAN, i : Nat, done : BOOLEAN, rc : 0 .. 2, last : Marks]

Types ==
  /\ own \in Owners /\ logits \in Marks /\ call \in Calls /\ ret \in Rets
  /\ plan \in Plans /\ snd \in Senders /\ rdr \in Readers /\ next \in Nat
  /\ reg \in [Workers -> Conns \cup {0}] /\ ses \in [Workers -> Sessions]
  /\ conn \in Net /\ calls \in Nat

(* What the owner's checkpoint and the reader's last result are at each    *)
(* point of a call.                                                        *)
Local ==
  IF call.reset THEN call.pos = 0
  ELSE own.valid /\ own.toks = SubSeq(call.want, 1, call.pos)
CallInv ==
  /\ call.pc # "idle" => ~ret.ok /\ call.goal # <<>> /\ call.want # <<>>
  /\ call.pc \in {"span", "await", "produce", "join"} => plan.fd # 0
  /\ call.pc \in {"span", "produce"} => call.pos <= Len(call.want) /\ Local
  /\ call.pc = "await" =>
       /\ own.valid /\ Len(own.toks) <= Len(call.want)
       /\ own.toks = SubSeq(call.want, 1, Len(own.toks))
  /\ call.pc = "join" /\ call.rc = 0 => own.valid /\ own.toks = call.want
ReaderInv ==
  /\ rdr.on => call.pc \in {"produce", "join"} /\ call.sub <= rdr.i + Window
  /\ call.pc \in {"produce", "join"} /\ ~rdr.on /\ rdr.rc = 0 =>
       rdr.last = [of |-> call.want, by |-> {call.want}]
PlanInv == plan.ready /\ plan.current => plan.fd # 0
IInv == Types /\ PlanInv /\ CallInv /\ ReaderInv /\ LogitsOfTranscript

-----------------------------------------------------------------------------
(* What each helper on connections keeps. *)

LEMMA ConstantTypes ==
  /\ NWorkers \in Nat /\ NConns \in Nat /\ 0 \notin Conns /\ 0 \notin Workers
  /\ Workers \subseteq Conns /\ Conns \subseteq Nat /\ 1 \in Workers
  /\ {MaxLen, ChunkCap, Window, SendDepth, PrefetchDepth, ForwardDepth} \subseteq Nat \ {0}
BY BoundAssumption DEF Workers, Conns

LEMMA EmptyTypes ==
  /\ <<>> \in Seq(Jobs) /\ <<>> \in Seq(Results) /\ <<>> \in Toks
  /\ <<>> \in UpTo(PrefetchDepth, Jobs) /\ <<>> \in UpTo(SendDepth, Jobs)
  /\ <<>> \in UpTo(ForwardDepth, Nat)
<1>1. \A S : <<>> \in Seq(S) /\ Len(<<>>) = 0
  OBVIOUS
<1>2. 0 <= PrefetchDepth /\ 0 <= SendDepth /\ 0 <= ForwardDepth
  BY ConstantTypes
<1> QED BY <1>1, <1>2 DEF UpTo, Toks

LEMMA UnusedTyped == Unused \in Links
BY EmptyTypes DEF Unused, Links

LEMMA OpenedTyped == ASSUME NEW w \in Workers, NEW m \in BOOLEAN PROVE Opened(w, m) \in Links
<1>1. w # 0 /\ w \in Workers \cup {0}
  BY ConstantTypes
<1> QED BY <1>1, EmptyTypes DEF Opened, Unused, Links

(* What is left of a connection whose far end is closed.                   *)
LEMMA ClosedTyped ==
  ASSUME NEW w \in Workers \cup {0}, NEW n \in BOOLEAN, NEW r \in Seq(Results)
  PROVE  [Unused EXCEPT !.w = w, !.near = n, !.res = r] \in Links
BY EmptyTypes DEF Unused, Links

LEMMA KeepTyped ==
  ASSUME NEW cs \in Net, NEW held, Keep(cs, held)
  PROVE  conn' \in Net
BY UnusedTyped DEF Keep, Net

LEMMA UpToGrows ==
  ASSUME NEW n \in Nat, NEW S, NEW q \in UpTo(n, S), Len(q) < n, NEW x \in S
  PROVE  Append(q, x) \in UpTo(n, S)
BY DEF UpTo

LEMMA UpToShrinks ==
  ASSUME NEW n \in Nat, NEW S, NEW q \in UpTo(n, S), q # <<>>
  PROVE  Tail(q) \in UpTo(n, S) /\ Head(q) \in S
BY DEF UpTo

LEMMA SeqSteps ==
  ASSUME NEW S, NEW q \in Seq(S)
  PROVE  /\ \A x \in S : Append(q, x) \in Seq(S)
         /\ q # <<>> => Tail(q) \in Seq(S) /\ Head(q) \in S
OBVIOUS

(* One field of one connection.                                            *)
LEMMA FieldTyped ==
  ASSUME NEW k \in Links
  PROVE  /\ \A v \in BOOLEAN :
              /\ [k EXCEPT !.near = v] \in Links /\ [k EXCEPT !.far = v] \in Links
              /\ [k EXCEPT !.rd = v] \in Links
              /\ [k EXCEPT !.closed = v] \in Links /\ [k EXCEPT !.closing = v] \in Links
         /\ [k EXCEPT !.relay = FALSE] \in Links /\ [k EXCEPT !.ev = FALSE] \in Links
         /\ [k EXCEPT !.hand = <<>>] \in Links
         /\ \A v \in Seq(Jobs) :
              /\ [k EXCEPT !.work = v] \in Links
              /\ HasNext(k.w) => [k EXCEPT !.hand = v] \in Links
         /\ \A v \in Seq(Results) : [k EXCEPT !.res = v] \in Links
         /\ \A v \in UpTo(PrefetchDepth, Jobs) : [k EXCEPT !.queue = v] \in Links
         /\ \A v \in UpTo(ForwardDepth, Nat) : [k EXCEPT !.pend = v] \in Links
         /\ \A d \in Conns : [k EXCEPT !.down = d, !.relay = TRUE] \in Links
<1>1. ASSUME NEW v \in BOOLEAN
      PROVE  /\ [k EXCEPT !.near = v] \in Links /\ [k EXCEPT !.far = v] \in Links
             /\ [k EXCEPT !.rd = v] \in Links
             /\ [k EXCEPT !.closed = v] \in Links /\ [k EXCEPT !.closing = v] \in Links
  BY DEF Links
<1>2. /\ [k EXCEPT !.relay = FALSE] \in Links /\ [k EXCEPT !.ev = FALSE] \in Links
      /\ [k EXCEPT !.hand = <<>>] \in Links
  BY EmptyTypes DEF Links
<1>3. ASSUME NEW v \in Seq(Jobs)
      PROVE  /\ [k EXCEPT !.work = v] \in Links
             /\ HasNext(k.w) => [k EXCEPT !.hand = v] \in Links
  BY DEF Links
<1>4. \A v \in Seq(Results) : [k EXCEPT !.res = v] \in Links
  BY DEF Links
<1>5. \A v \in UpTo(PrefetchDepth, Jobs) : [k EXCEPT !.queue = v] \in Links
  BY DEF Links
<1>6. \A v \in UpTo(ForwardDepth, Nat) : [k EXCEPT !.pend = v] \in Links
  BY DEF Links
<1>7. \A d \in Conns : [k EXCEPT !.down = d, !.relay = TRUE] \in Links
  BY ConstantTypes DEF Links
<1> QED BY <1>1, <1>2, <1>3, <1>4, <1>5, <1>6, <1>7

LEMMA ShutTyped == ASSUME NEW cs \in Net, NEW c PROVE Shut(cs, c) \in Net
BY FieldTyped DEF Shut, Net

LEMMA ShutFarTyped == ASSUME NEW cs \in Net, NEW c PROVE ShutFar(cs, c) \in Net
BY FieldTyped DEF ShutFar, Net

LEMMA LinkParts ==
  ASSUME NEW cs \in Net, NEW c \in Conns
  PROVE  /\ cs[c] \in Links
         /\ cs[c].work \in Seq(Jobs) /\ cs[c].res \in Seq(Results)
         /\ cs[c].queue \in UpTo(PrefetchDepth, Jobs) /\ cs[c].pend \in UpTo(ForwardDepth, Nat)
         /\ cs[c].hand \in Seq(Jobs) /\ cs[c].w \in Workers \cup {0}
         /\ cs[c].down \in Conns \cup {0} /\ (cs[c].relay => cs[c].down # 0)
         /\ (cs[c].ev => cs[c].w # 0) /\ (cs[c].hand # <<>> => HasNext(cs[c].w))
         /\ {cs[c].near, cs[c].far, cs[c].main, cs[c].rd, cs[c].ev, cs[c].closed,
             cs[c].relay, cs[c].closing} \subseteq BOOLEAN
BY DEF Net, Links

LEMMA SendWorkTyped ==
  ASSUME NEW cs \in Net, NEW c, NEW j \in Jobs
  PROVE  SendWork(cs, c, j) \in Net
<1>1. CASE c \in Conns
  <2>1. Append(cs[c].work, j) \in Seq(Jobs)
    BY <1>1, LinkParts, SeqSteps
  <2>2. [cs[c] EXCEPT !.work = Append(@, j)] \in Links
    BY <1>1, <2>1, LinkParts, FieldTyped
  <2> QED BY <2>2 DEF SendWork, Net
<1>2. CASE c \notin Conns
  <2>1. [cs EXCEPT ![c].work = Append(@, j)] = cs
    BY <1>2 DEF Net
  <2> QED BY <2>1 DEF SendWork
<1> QED BY <1>1, <1>2

LEMMA AnswerTyped ==
  ASSUME NEW cs \in Net, NEW c \in Conns, NEW r \in Results
  PROVE  Answer(cs, c, r) \in Net
<1>1. Append(cs[c].res, r) \in Seq(Results)
  BY LinkParts, SeqSteps
<1>2. [cs[c] EXCEPT !.res = Append(@, r)] \in Links
  BY <1>1, LinkParts, FieldTyped
<1> QED BY <1>2 DEF Answer, Net

LEMMA ReceivedTyped ==
  ASSUME NEW cs \in Net, NEW c \in Conns, cs[c].res # <<>>
  PROVE  Received(cs, c) \in Net /\ Head(cs[c].res) \in Results
<1>1. Tail(cs[c].res) \in Seq(Results) /\ Head(cs[c].res) \in Results
  BY LinkParts, SeqSteps
<1>2. [cs[c] EXCEPT !.res = Tail(@)] \in Links
  BY <1>1, LinkParts, FieldTyped
<1> QED BY <1>1, <1>2 DEF Received, Net

LEMMA QueueTyped ==
  ASSUME NEW cs \in Net, NEW c \in Conns
  PROVE  /\ Finish(cs, c) \in Net /\ Cancel(cs, c) \in Net /\ EvalFails(cs, c) \in Net
         /\ [cs EXCEPT ![c].rd = FALSE] \in Net
         /\ cs[c].queue # <<>> =>
              [cs EXCEPT ![c].queue = Tail(@)] \in Net /\ Head(cs[c].queue) \in Jobs
<1>1. Finish(cs, c) \in Net /\ [cs EXCEPT ![c].rd = FALSE] \in Net
  BY LinkParts, FieldTyped DEF Finish, Net
<1>2. Cancel(cs, c) \in Net
  <2>1. [cs[c] EXCEPT !.closed = TRUE] \in Links
    BY LinkParts, FieldTyped
  <2>2. [[cs[c] EXCEPT !.closed = TRUE] EXCEPT !.queue = <<>>] \in Links
    BY <2>1, FieldTyped, EmptyTypes
  <2>3. Cancel(cs, c) = [cs EXCEPT ![c] = [[cs[c] EXCEPT !.closed = TRUE] EXCEPT !.queue = <<>>]]
    BY LinkParts DEF Cancel, Net
  <2> QED BY <2>2, <2>3 DEF Net
<1>3. EvalFails(cs, c) \in Net
  <2>1. [Cancel(cs, c) EXCEPT ![c].ev = FALSE] \in Net
    BY <1>2, LinkParts, FieldTyped DEF Net
  <2> QED BY <2>1, ShutFarTyped DEF EvalFails
<1>4. ASSUME cs[c].queue # <<>>
      PROVE  [cs EXCEPT ![c].queue = Tail(@)] \in Net /\ Head(cs[c].queue) \in Jobs
  <2>1. Tail(cs[c].queue) \in UpTo(PrefetchDepth, Jobs) /\ Head(cs[c].queue) \in Jobs
    BY <1>4, LinkParts, UpToShrinks, ConstantTypes
  <2>2. [cs[c] EXCEPT !.queue = Tail(@)] \in Links
    BY <2>1, LinkParts, FieldTyped
  <2> QED BY <2>1, <2>2 DEF Net
<1> QED BY <1>1, <1>2, <1>3, <1>4

LEMMA RelayTyped ==
  ASSUME NEW cs \in Net, NEW c \in Conns
  PROVE  Popped(cs, c) \in Net /\ RelayEnds(cs, c) \in Net
<1>1. Popped(cs, c) \in Net
  <2>1. (IF cs[c].pend = <<>> THEN cs[c].pend ELSE Tail(cs[c].pend)) \in UpTo(ForwardDepth, Nat)
    BY LinkParts, UpToShrinks, ConstantTypes
  <2>2. [cs[c] EXCEPT !.pend = IF @ = <<>> THEN @ ELSE Tail(@)] \in Links
    BY <2>1, LinkParts, FieldTyped
  <2> QED BY <2>2 DEF Popped, Net
<1>2. RelayEnds(cs, c) \in Net
  <2>1. [[cs[c] EXCEPT !.relay = FALSE] EXCEPT !.closing = TRUE] \in Links
    BY LinkParts, FieldTyped
  <2>2. [cs EXCEPT ![c].relay = FALSE, ![c].closing = TRUE]
          = [cs EXCEPT ![c] = [[cs[c] EXCEPT !.relay = FALSE] EXCEPT !.closing = TRUE]]
    BY LinkParts DEF Net
  <2>3. [cs EXCEPT ![c].relay = FALSE, ![c].closing = TRUE] \in Net
    BY <2>1, <2>2 DEF Net
  <2> QED BY <2>3, ShutFarTyped DEF RelayEnds
<1> QED BY <1>1, <1>2

LEMMA WorkErrorTyped == ASSUME NEW id \in Nat PROVE WorkError(id) \in Results
BY EmptyTypes DEF WorkError, Results

LEMMA ResultTyped == ASSUME NEW j \in Jobs PROVE Result(j) \in Results
BY DEF Result, Results, Jobs, Toks

LEMMA RepliesTyped ==
  ASSUME NEW cs \in Net, NEW c \in Conns, NEW r \in Results, Replies(cs, c, r)
  PROVE  conn' \in Net
BY AnswerTyped, QueueTyped, KeepTyped DEF Replies, Conn

LEMMA HangsUpTyped ==
  ASSUME NEW cs \in Net, NEW c \in Conns, ses \in [Workers -> Sessions], HangsUp(cs, c)
  PROVE  conn' \in Net /\ ses' \in [Workers -> Sessions]
<1> DEFINE closed == [Unused EXCEPT !.w = cs[c].w, !.near = cs[c].near, !.res = cs[c].res]
<1>1. closed \in Links
  BY LinkParts, ClosedTyped
<1>2. [cs EXCEPT ![c] = closed] \in Net
  BY <1>1 DEF Net
<1>3. conn' \in Net
  BY <1>2, ShutTyped, KeepTyped DEF HangsUp, Conn
<1>4. Fresh \in Sessions
  BY EmptyTypes DEF Fresh, Sessions
<1> QED BY <1>3, <1>4 DEF HangsUp

-----------------------------------------------------------------------------
(* The coordinator's calls. *)

LEMMA StartTypes ==
  NoSender \in Senders /\ NoReader \in Readers /\ NoCall \in Calls /\ NoRet \in Rets
<1>1. [of |-> <<>>, by |-> {}] \in Marks
  BY EmptyTypes DEF Marks
<1> QED
  BY <1>1, EmptyTypes DEF NoSender, Senders, NoReader, Readers, NoCall, Calls, NoRet, Rets

LEMMA GoesTyped ==
  ASSUME NEW c \in Calls, NEW want \in Toks, NEW pos \in Nat, NEW reset \in BOOLEAN,
         next \in Nat, Goes(c, want, pos, reset)
  PROVE  /\ call' \in Calls /\ snd' \in Senders /\ rdr' \in Readers
         /\ call'.pc \in {"span", "produce"} /\ (rdr'.on => call'.pc = "produce")
         /\ (call'.pc = "produce" => rdr'.on)
         /\ call'.want = want /\ call'.pos = pos /\ call'.reset = reset /\ call'.goal = c.goal
         /\ call'.sub = 0 /\ rdr'.i = 0
<1> DEFINE piped == Rest(want, pos) > ChunkCap
<1>1. piped \in BOOLEAN
  OBVIOUS
<1> HIDE DEF piped
<1>2. /\ call' = [c EXCEPT !.pc = IF piped THEN "produce" ELSE "span", !.want = want,
                          !.from = pos, !.pos = pos, !.reset = reset, !.first = next,
                          !.sub = 0, !.rc = 0, !.worked = TRUE]
      /\ snd' = NoSender /\ rdr' = [NoReader EXCEPT !.on = piped]
  BY DEF Goes, piped
<1>3. call' \in Calls /\ call'.pc = (IF piped THEN "produce" ELSE "span")
  BY <1>2 DEF Calls
<1>4. /\ call'.want = want /\ call'.pos = pos /\ call'.reset = reset /\ call'.goal = c.goal
      /\ call'.sub = 0
  BY <1>2 DEF Calls
<1>5. rdr' \in Readers /\ rdr'.on = piped /\ rdr'.i = 0
  BY <1>1, <1>2, StartTypes DEF Readers, NoReader
<1> QED BY <1>2, <1>3, <1>4, <1>5, StartTypes

(* A call that goes on is in a state the invariant allows.                 *)
LEMMA GoesOn ==
  ASSUME NEW c \in Calls, c.goal # <<>>, NEW want \in Toks, want # <<>>,
         NEW pos \in Nat, pos <= Len(want), NEW reset \in BOOLEAN,
         IF reset THEN pos = 0 ELSE own'.valid /\ own'.toks = SubSeq(want, 1, pos),
         next \in Nat, plan'.fd # 0, ~ret'.ok, Goes(c, want, pos, reset)
  PROVE  CallInv' /\ ReaderInv' /\ LogitsOfTranscript'
<1>1. /\ call'.pc \in {"span", "produce"} /\ (rdr'.on => call'.pc = "produce")
      /\ (call'.pc = "produce" => rdr'.on)
      /\ call'.want = want /\ call'.pos = pos /\ call'.reset = reset /\ call'.goal = c.goal
      /\ call'.sub = 0 /\ rdr'.i = 0
  BY GoesTyped
<1>2. CallInv'
  BY <1>1 DEF CallInv, Local
<1>3. ReaderInv'
  BY <1>1, ConstantTypes DEF ReaderInv
<1>4. LogitsOfTranscript'
  BY DEF LogitsOfTranscript
<1> QED BY <1>2, <1>3, <1>4

LEMMA TranscriptTyped ==
  ASSUME call \in Calls, call.goal # <<>>, NEW toks \in Toks
  PROVE  Transcript(toks) \in Toks /\ Transcript(toks) # <<>>
<1>1. call.goal \in Toks
  BY DEF Calls
<1>2. Last(call.goal) \in Nat
  BY <1>1 DEF Last, Toks
<1>3. Append(toks, Last(call.goal)) \in Toks /\ Append(toks, Last(call.goal)) # <<>>
  BY <1>2 DEF Toks
<1> QED BY <1>1, <1>3 DEF Transcript

(* A call that gives up leaves no logits to vouch for.                     *)
LEMMA GivesUpInv ==
  ASSUME call \in Calls, GivesUp
  PROVE  /\ call' \in Calls /\ ret' \in Rets /\ snd' \in Senders /\ rdr' \in Readers
         /\ CallInv' /\ ReaderInv' /\ LogitsOfTranscript'
<1>1. call' = NoCall /\ ret' = Returned(call, FALSE) /\ snd' = NoSender /\ rdr' = NoReader
  BY DEF GivesUp
<1>2. ret' \in Rets /\ ~ret'.ok
  BY <1>1 DEF Returned, Rets, Calls
<1>3. call'.pc = "idle" /\ ~rdr'.on
  BY <1>1 DEF NoCall, NoReader
<1> QED BY <1>1, <1>2, <1>3, StartTypes DEF CallInv, ReaderInv, LogitsOfTranscript

LEMMA FailsInv ==
  ASSUME Types, CallInv, call.pc \in {"span", "await", "join"}, NEW rc, NEW toks \in Toks,
         NEW cs \in Net, Fails(rc, toks, cs)
  PROVE  /\ call' \in Calls /\ ret' \in Rets /\ plan' \in Plans /\ snd' \in Senders
         /\ rdr' \in Readers /\ reg' \in [Workers -> Conns \cup {0}] /\ conn' \in Net
         /\ PlanInv' /\ CallInv' /\ ReaderInv' /\ LogitsOfTranscript'
<1> DEFINE again == [call EXCEPT !.tries = 1]
<1>1. /\ call \in Calls /\ ret \in Rets /\ plan \in Plans /\ next \in Nat
      /\ reg \in [Workers -> Conns \cup {0}]
      /\ call.goal # <<>> /\ ~ret.ok /\ plan.fd # 0
  BY DEF Types, CallInv
<1>2. Transcript(toks) \in Toks /\ Transcript(toks) # <<>>
  BY <1>1, TranscriptTyped
<1>3. again \in Calls /\ again.goal # <<>>
  BY <1>1 DEF Calls
<1> HIDE DEF again
<1>4. CASE /\ Goes(again, Transcript(toks), 0, TRUE)
           /\ Conn(cs) /\ UNCHANGED <<ret, plan, reg>>
  <2>1. 0 <= Len(Transcript(toks))
    BY <1>2 DEF Toks
  <2>2. CallInv' /\ ReaderInv' /\ LogitsOfTranscript'
    BY <1>1, <1>2, <1>3, <1>4, <2>1, GoesOn
  <2>3. call' \in Calls /\ snd' \in Senders /\ rdr' \in Readers
    BY <1>1, <1>2, <1>3, <1>4, GoesTyped
  <2>4. conn' \in Net
    BY <1>4, KeepTyped DEF Conn
  <2> QED BY <1>1, <1>4, <2>2, <2>3, <2>4 DEF PlanInv
<1>5. CASE /\ call' = [again EXCEPT !.pc = "reroute", !.want = Transcript(toks)]
           /\ plan' = [plan EXCEPT !.current = FALSE, !.fd = 0]
           /\ reg' = [w \in Workers |-> 0]
           /\ Keep([c \in Conns |-> [cs[c] EXCEPT !.near = @ /\ c \notin Held]], {})
           /\ snd' = NoSender /\ rdr' = NoReader /\ UNCHANGED ret
  <2>1. call' \in Calls /\ call'.pc = "reroute" /\ call'.want # <<>> /\ call'.goal # <<>>
    BY <1>2, <1>3, <1>5 DEF Calls
  <2>2. plan' \in Plans /\ PlanInv'
    BY <1>1, <1>5 DEF Plans, PlanInv
  <2>3. [c \in Conns |-> [cs[c] EXCEPT !.near = @ /\ c \notin Held]] \in Net
    <3> SUFFICES ASSUME NEW c \in Conns PROVE [cs[c] EXCEPT !.near = @ /\ c \notin Held] \in Links
      BY DEF Net
    <3>1. (cs[c].near /\ c \notin Held) \in BOOLEAN
      OBVIOUS
    <3> QED BY <3>1, LinkParts, FieldTyped
  <2>4. conn' \in Net
    BY <1>5, <2>3, KeepTyped
  <2>5. ~rdr'.on /\ ~ret'.ok
    BY <1>1, <1>5 DEF NoReader
  <2>6. CallInv' /\ ReaderInv' /\ LogitsOfTranscript'
    BY <2>1, <2>5 DEF CallInv, ReaderInv, LogitsOfTranscript
  <2> QED BY <1>1, <1>5, <2>1, <2>2, <2>4, <2>6, StartTypes
<1>6. CASE /\ GivesUp
           /\ plan' = [plan EXCEPT !.ready = FALSE, !.current = FALSE]
           /\ Conn(cs) /\ UNCHANGED reg
  <2>1. plan' \in Plans /\ PlanInv'
    BY <1>1, <1>6 DEF Plans, PlanInv
  <2>2. conn' \in Net
    BY <1>6, KeepTyped DEF Conn
  <2> QED BY <1>1, <1>6, <2>1, <2>2, GivesUpInv
<1> QED BY <1>4, <1>5, <1>6 DEF Fails, again

LEMMA HeldConnection == ASSUME Types, Covered PROVE reg[1] \in Conns
BY ConstantTypes DEF Types, Covered

LEMMA InvDispatch ==
  ASSUME Types, NEW c \in Calls, c.goal # <<>>, ~c.worked, plan'.fd # 0, call.pc = "idle",
         CallInv, ReaderInv, Dispatch(c), UNCHANGED own
  PROVE  /\ call' \in Calls /\ ret' \in Rets /\ snd' \in Senders /\ rdr' \in Readers
         /\ CallInv' /\ ReaderInv' /\ LogitsOfTranscript'
<1>1. /\ call \in Calls /\ snd \in Senders /\ rdr \in Readers /\ next \in Nat
      /\ own.toks \in Toks /\ own.valid \in BOOLEAN /\ c.goal \in Toks /\ ~rdr.on
  BY DEF Types, Owners, CallInv, ReaderInv, Calls
<1>2. CASE ret' = Returned(c, TRUE) /\ UNCHANGED <<call, snd, rdr>>
  <2>1. ret' \in Rets /\ ~ret'.worked
    BY <1>2 DEF Returned, Rets, Calls
  <2>2. CallInv' /\ ReaderInv' /\ LogitsOfTranscript'
    BY <1>1, <1>2, <2>1 DEF CallInv, ReaderInv, LogitsOfTranscript
  <2> QED BY <1>1, <1>2, <2>1, <2>2
<1>3. ASSUME ret' = NoRet, NEW kept, kept = (own.valid /\ IsPrefix(own.toks, c.goal)),
             Goes(c, c.goal, IF kept THEN Len(own.toks) ELSE 0, ~kept)
      PROVE  /\ call' \in Calls /\ ret' \in Rets /\ snd' \in Senders /\ rdr' \in Readers
             /\ CallInv' /\ ReaderInv' /\ LogitsOfTranscript'
  <2> DEFINE pos == IF kept THEN Len(own.toks) ELSE 0
  <2>1. pos \in Nat /\ pos <= Len(c.goal) /\ (~kept) \in BOOLEAN
    <3>1. own.toks \in Seq(Nat) /\ c.goal \in Seq(Nat)
      BY <1>1 DEF Toks
    <3>2. kept => Len(own.toks) <= Len(c.goal)
      BY <1>3 DEF IsPrefix
    <3> QED BY <1>3, <3>1, <3>2
  <2>2. kept => own.toks = SubSeq(c.goal, 1, Len(own.toks))
    <3>1. own.toks \in Seq(Nat)
      BY <1>1 DEF Toks
    <3>2. SubSeq(own.toks, 1, Len(own.toks)) = own.toks
      BY ONLY <3>1
    <3> QED BY <1>3, <3>2 DEF IsPrefix
  <2>3. IF ~kept THEN pos = 0 ELSE own'.valid /\ own'.toks = SubSeq(c.goal, 1, pos)
    BY <1>3, <2>2
  <2>4. ret' \in Rets /\ ~ret'.ok
    BY <1>3, StartTypes DEF NoRet
  <2>5. Goes(c, c.goal, pos, ~kept)
    BY <1>3
  <2> HIDE DEF pos
  <2>6. CallInv' /\ ReaderInv' /\ LogitsOfTranscript'
    BY <1>1, <2>1, <2>3, <2>4, <2>5, GoesOn
  <2>7. call' \in Calls /\ snd' \in Senders /\ rdr' \in Readers
    BY <1>1, <2>1, <2>5, GoesTyped
  <2> QED BY <2>4, <2>6, <2>7
<1> QED BY <1>2, <1>3 DEF Dispatch

LEMMA InvBegin ==
  ASSUME IInv, NEW op \in {"sync", "eval"}, NEW goal \in Toks, goal # <<>>, Begin(op, goal)
  PROVE  IInv'
<1> DEFINE c == [NoCall EXCEPT !.op = op, !.goal = goal]
<1>1. c \in Calls /\ c.goal # <<>> /\ ~c.worked
  BY EmptyTypes DEF NoCall, Calls
<1> HIDE DEF c
<1>2. /\ call.pc = "idle" /\ calls' = calls + 1
      /\ UNCHANGED <<own, logits, next, reg, work, faults>>
  BY DEF Begin
<1>3. Types /\ PlanInv /\ CallInv /\ ReaderInv
  BY DEF IInv
<1>4. own' \in Owners /\ logits' \in Marks /\ next' \in Nat /\ calls' \in Nat
      /\ reg' \in [Workers -> Conns \cup {0}] /\ ses' \in [Workers -> Sessions]
  BY <1>2, <1>3 DEF Types, work
<1>5. CASE ~(plan.ready /\ plan.current) /\ ~Covered /\ plan' = NoPlan /\ Keep(conn, Entries)
           /\ ret' = Returned(c, FALSE) /\ UNCHANGED <<call, snd, rdr>>
  <2>1. plan' \in Plans /\ PlanInv'
    BY <1>5 DEF NoPlan, Plans, PlanInv
  <2>2. conn' \in Net
    BY <1>3, <1>5, KeepTyped DEF Types
  <2>3. ret' \in Rets /\ ~ret'.ok
    BY <1>1, <1>5 DEF Returned, Rets, Calls
  <2>4. CallInv' /\ ReaderInv' /\ LogitsOfTranscript'
    BY <1>2, <1>3, <1>5, <2>3 DEF CallInv, ReaderInv, LogitsOfTranscript
  <2>5. Types'
    BY <1>3, <1>4, <1>5, <2>1, <2>2, <2>3 DEF Types
  <2> QED BY <2>1, <2>4, <2>5 DEF IInv
<1>6. CASE (plan.ready /\ plan.current) /\ Dispatch(c) /\ UNCHANGED <<plan, conn>>
  <2>1. plan.fd # 0
    BY <1>3, <1>6 DEF PlanInv
  <2>2. /\ call' \in Calls /\ ret' \in Rets /\ snd' \in Senders /\ rdr' \in Readers
        /\ CallInv' /\ ReaderInv' /\ LogitsOfTranscript'
    BY <1>1, <1>2, <1>3, <1>6, <2>1, InvDispatch
  <2> QED BY <1>3, <1>4, <1>6, <2>2 DEF Types, IInv, PlanInv
<1>7. CASE ~(plan.ready /\ plan.current) /\ Covered /\ plan' = NewPlan /\ Keep(conn, Entries)
           /\ Dispatch(c)
  <2>1. plan' \in Plans /\ plan'.fd # 0
    BY <1>3, <1>7, HeldConnection, ConstantTypes DEF NewPlan, Plans
  <2>2. conn' \in Net
    BY <1>3, <1>7, KeepTyped DEF Types
  <2>3. /\ call' \in Calls /\ ret' \in Rets /\ snd' \in Senders /\ rdr' \in Readers
        /\ CallInv' /\ ReaderInv' /\ LogitsOfTranscript'
    BY <1>1, <1>2, <1>3, <1>7, <2>1, InvDispatch
  <2> QED BY <1>4, <2>1, <2>2, <2>3 DEF Types, IInv, PlanInv
<1> QED BY <1>5, <1>6, <1>7 DEF Begin, c

LEMMA InvCall == ASSUME IInv, Call PROVE IInv'
<1>1. calls + 1 \in 1 .. MaxCalls
  BY CallerAssumption DEF IInv, Types, Call, MaxCalls
<1>2. ASSUME NEW p \in Syncs[calls + 1], Begin("sync", p) PROVE IInv'
  <2>1. Syncs[calls + 1] \in SUBSET Seq(Nat)
    BY <1>1, CallerAssumption DEF MaxCalls
  <2>2. p \in Toks /\ p # <<>>
    BY <1>1, <2>1, CallerAssumption DEF Toks
  <2> QED BY <1>2, <2>2, InvBegin
<1>3. ASSUME NEW t \in Evals[calls + 1], Begin("eval", Append(own.toks, t)) PROVE IInv'
  <2>1. Evals[calls + 1] \in SUBSET Nat
    BY <1>1, CallerAssumption DEF MaxCalls
  <2>2. own.toks \in Seq(Nat)
    BY DEF IInv, Types, Owners, Toks
  <2>3. t \in Nat
    BY <2>1
  <2>4. Append(own.toks, t) \in Toks /\ Append(own.toks, t) # <<>>
    BY <2>2, <2>3 DEF Toks
  <2> QED BY <1>3, <2>4, InvBegin
<1> QED BY <1>2, <1>3 DEF Call

-----------------------------------------------------------------------------
(* The local slice of a span, in the producer and in a single evaluation.  *)

LEMMA SpanFacts ==
  ASSUME Types, CallInv, call.pc \in {"span", "produce"},
         NEW n, n = Chunk(call.want, call.pos),
         NEW ts, ts = Span(call.want, call.pos, n)
  PROVE  /\ n \in Nat /\ call.pos + n <= Len(call.want) /\ ts \in Toks /\ Len(ts) = n
         /\ Start \in Owners /\ [Start EXCEPT !.valid = FALSE] \in Owners
         /\ \A i \in Nat, ack \in BOOLEAN :
              [id |-> i, pre |-> Start.toks, toks |-> ts, reset |-> call.reset, ack |-> ack,
               by |-> {Start.toks \o ts}] \in Jobs
         /\ SliceFits(Start, call.pos, n) =>
              /\ Committed(Start, ts) \in Owners /\ Committed(Start, ts).valid
              /\ Committed(Start, ts).toks = SubSeq(call.want, 1, call.pos + n)
<1>1. /\ call.want \in Seq(Nat) /\ call.pos \in Nat /\ call.pos <= Len(call.want) /\ Local
      /\ own \in Owners /\ call.reset \in BOOLEAN
  BY DEF Types, CallInv, Calls, Toks
<1>2. ChunkCap \in Nat /\ ChunkCap > 0
  BY ConstantTypes
<1>3. n \in Nat /\ call.pos + n <= Len(call.want)
  BY <1>1, <1>2, MinTwo DEF Chunk, Rest
<1>4. ts \in Seq(Nat) /\ Len(ts) = n
  <2>1. ts = SubSeq(call.want, call.pos + 1, call.pos + n)
    BY DEF Span
  <2>2. call.want \in Seq(Nat) /\ call.pos \in Nat /\ n \in Nat /\ call.pos + n <= Len(call.want)
    BY <1>1, <1>3
  <2>3. /\ SubSeq(call.want, call.pos + 1, call.pos + n) \in Seq(Nat)
        /\ Len(SubSeq(call.want, call.pos + 1, call.pos + n)) = n
    BY ONLY <2>2, SubSeqTyped
  <2> QED BY <2>1, <2>3
<1>5. Start \in Owners
  BY <1>1, EmptyTypes, ConstantTypes DEF Start, Owners
<1>6. Start.toks = SubSeq(call.want, 1, call.pos) /\ Len(Start.toks) = call.pos
  <2>1. CASE call.reset
    BY <2>1, <1>1 DEF Local, Start
  <2>2. CASE ~call.reset
    BY <2>2, <1>1 DEF Local, Start
  <2> QED BY <2>1, <2>2, <1>1
<1>7. Start.toks \in Seq(Nat) /\ Start.toks \o ts \in Seq(Nat)
  BY <1>4, <1>5 DEF Owners, Toks
<1>8. \A i \in Nat, ack \in BOOLEAN :
        [id |-> i, pre |-> Start.toks, toks |-> ts, reset |-> call.reset, ack |-> ack,
         by |-> {Start.toks \o ts}] \in Jobs
  BY <1>1, <1>4, <1>7 DEF Jobs, Toks
<1>9. Start.toks \o ts = SubSeq(call.want, 1, call.pos + n) /\ Len(Start.toks \o ts) = call.pos + n
  <2>1. ts = SubSeq(call.want, call.pos + 1, call.pos + n)
    BY DEF Span
  <2>2. Start.toks \o ts = SubSeq(call.want, 1, call.pos + n)
    BY <1>1, <1>3, <1>6, <2>1, SubSeqGrows
  <2> QED BY <1>1, <1>3, <2>2, SubSeqTyped
<1>10. ASSUME SliceFits(Start, call.pos, n)
       PROVE  /\ Committed(Start, ts) \in Owners /\ Committed(Start, ts).valid
              /\ Committed(Start, ts).toks = SubSeq(call.want, 1, call.pos + n)
  <2>1. call.pos + n <= MaxLen
    BY <1>10 DEF SliceFits
  <2> QED BY <1>5, <1>7, <1>9, <2>1 DEF Committed, Owners, Toks
<1>11. [Start EXCEPT !.valid = FALSE] \in Owners
  BY <1>5 DEF Owners
<1> QED BY <1>3, <1>4, <1>5, <1>8, <1>10, <1>11 DEF Toks

LEMMA InvEvalSpan == ASSUME IInv, EvalSpan PROVE IInv'
<1> DEFINE n == Chunk(call.want, call.pos)
           ts == Span(call.want, call.pos, n)
           done == Committed(Start, ts)
           broke == [Start EXCEPT !.valid = FALSE]
           fits == SliceFits(Start, call.pos, n)
<1>1. Types /\ PlanInv /\ CallInv /\ ReaderInv /\ call.pc = "span"
  BY DEF IInv, EvalSpan
<1>2. next' = next + 1 /\ UNCHANGED <<logits, calls, work>>
  BY DEF EvalSpan
<1>3. /\ n \in Nat /\ call.pos + n <= Len(call.want) /\ ts \in Toks
      /\ Start \in Owners /\ broke \in Owners
      /\ Job(ts, FALSE) \in Jobs
      /\ fits => /\ done \in Owners /\ done.valid
                 /\ done.toks = SubSeq(call.want, 1, call.pos + n)
  BY <1>1, SpanFacts DEF Types, Job
<1>4. logits' \in Marks /\ next' \in Nat /\ calls' \in Nat /\ ses' \in [Workers -> Sessions]
  BY <1>1, <1>2 DEF Types, work
<1>5. EvalSpan =>
      \/ /\ fits /\ SendWorkOk(plan.fd) /\ own' = done
         /\ call' = [call EXCEPT !.pc = "await", !.first = next]
         /\ Conn(SendWork(conn, plan.fd, Job(ts, FALSE)))
         /\ UNCHANGED <<ret, plan, reg, snd, rdr, faults>>
      \/ fits /\ own' = done /\ Fails(1, done.toks, conn)
      \/ own' = broke /\ Fails(1, Start.toks, conn)
      \/ own' = Start /\ Fails(1, Start.toks, conn)
  BY DEF EvalSpan
<1> HIDE DEF n, ts, done, broke, fits
<1>6. ASSUME NEW s \in Owners, own' = s, NEW t \in Toks, Fails(1, t, conn) PROVE IInv'
  <2>1. conn \in Net
    BY <1>1 DEF Types
  <2>2. /\ call' \in Calls /\ ret' \in Rets /\ plan' \in Plans /\ snd' \in Senders
        /\ rdr' \in Readers /\ reg' \in [Workers -> Conns \cup {0}] /\ conn' \in Net
        /\ PlanInv' /\ CallInv' /\ ReaderInv' /\ LogitsOfTranscript'
    BY <1>1, <1>6, <2>1, FailsInv
  <2> QED BY <1>4, <1>6, <2>2 DEF Types, IInv
<1>7. CASE /\ fits /\ SendWorkOk(plan.fd) /\ own' = done
           /\ call' = [call EXCEPT !.pc = "await", !.first = next]
           /\ Conn(SendWork(conn, plan.fd, Job(ts, FALSE)))
           /\ UNCHANGED <<ret, plan, reg, snd, rdr, faults>>
  <2>1. plan.fd \in Conns /\ conn \in Net
    BY <1>1 DEF Types, Plans, CallInv
  <2>2. conn' \in Net
    BY <1>3, <1>7, <2>1, SendWorkTyped, KeepTyped DEF Conn
  <2>3. call' \in Calls /\ call'.pc = "await" /\ call'.want = call.want /\ call'.goal = call.goal
    BY <1>1, <1>7 DEF Types, Calls
  <2>4. Types'
    BY <1>1, <1>3, <1>4, <1>7, <2>2, <2>3 DEF Types
  <2>5. /\ own'.valid /\ Len(own'.toks) <= Len(call.want)
        /\ own'.toks = SubSeq(call.want, 1, Len(own'.toks))
    <3>1. call.want \in Seq(Nat) /\ call.pos \in Nat
      BY <1>1 DEF Types, Calls, Toks
    <3>2. Len(SubSeq(call.want, 1, call.pos + n)) = call.pos + n
      BY <1>3, <3>1
    <3> QED BY <1>3, <1>7, <3>2
  <2>6. CallInv'
    BY <1>1, <1>7, <2>3, <2>5 DEF CallInv
  <2>7. ReaderInv' /\ PlanInv' /\ LogitsOfTranscript'
    BY <1>1, <1>7, <2>3 DEF ReaderInv, PlanInv, LogitsOfTranscript, CallInv
  <2> QED BY <2>4, <2>6, <2>7 DEF IInv
<1>8. done \in Owners => done.toks \in Toks
  BY DEF Owners
<1>9. Start.toks \in Toks
  BY <1>3 DEF Owners
<1> QED BY <1>3, <1>5, <1>6, <1>7, <1>8, <1>9

LEMMA VerdictZero ==
  ASSUME NEW r \in Results, NEW id, NEW h \in Toks, Verdict(r, id, h) = 0
  PROVE  r.hash = h /\ r.by = {h}
BY DEF Verdict, Results

LEMMA InvAwaitResult == ASSUME IInv, AwaitResult PROVE IInv'
<1> DEFINE r == Head(conn[plan.fd].res)
           rc == Verdict(r, call.first, own.toks)
           cs == Received(conn, plan.fd)
           pos == Len(own.toks)
<1>1. Types /\ PlanInv /\ CallInv /\ ReaderInv /\ call.pc = "await"
  BY DEF IInv, AwaitResult
<1>2. /\ plan.fd \in Conns /\ conn \in Net /\ own \in Owners /\ own.toks \in Toks /\ own.valid
      /\ own.toks \in Seq(Nat) /\ call.want \in Seq(Nat) /\ call \in Calls
      /\ pos <= Len(call.want) /\ own.toks = SubSeq(call.want, 1, pos) /\ ~rdr.on /\ plan.fd # 0
  BY <1>1 DEF Types, Plans, CallInv, ReaderInv, Owners, Toks, Calls
<1>3. cs \in Net /\ r \in Results
  BY <1>1, <1>2, ReceivedTyped DEF AwaitResult, HasResult
<1>4. UNCHANGED <<own, calls, next, work, faults>>
  BY DEF AwaitResult
<1>5. AwaitResult =>
      \/ Fails(rc, own.toks, cs) /\ UNCHANGED logits
      \/ /\ rc = 0 /\ logits' = [of |-> r.hash, by |-> r.by] /\ Conn(cs)
         /\ \/ pos = Len(call.want) /\ Succeeds
            \/ call' = [call EXCEPT !.pc = "span", !.pos = pos, !.reset = FALSE] /\ UNCHANGED ret
         /\ UNCHANGED <<plan, reg, snd, rdr>>
  BY DEF AwaitResult
<1>6. pos \in Nat
  BY <1>2
<1> HIDE DEF r, rc, cs, pos
<1>7. CASE Fails(rc, own.toks, cs) /\ UNCHANGED logits
  <2>1. /\ call' \in Calls /\ ret' \in Rets /\ plan' \in Plans /\ snd' \in Senders
        /\ rdr' \in Readers /\ reg' \in [Workers -> Conns \cup {0}] /\ conn' \in Net
        /\ PlanInv' /\ CallInv' /\ ReaderInv' /\ LogitsOfTranscript'
    BY <1>1, <1>2, <1>3, <1>7, FailsInv
  <2> QED BY <1>1, <1>4, <1>7, <2>1 DEF Types, IInv, work
<1>8. ASSUME rc = 0, logits' = [of |-> r.hash, by |-> r.by], Conn(cs),
             UNCHANGED <<plan, reg, snd, rdr>>
      PROVE  /\ conn' \in Net /\ logits' \in Marks
             /\ logits'.of = own.toks /\ logits'.by = {own.toks}
  <2>1. conn' \in Net
    BY <1>3, <1>8, KeepTyped DEF Conn
  <2>2. r.hash = own.toks /\ r.by = {own.toks}
    BY <1>2, <1>3, <1>8, VerdictZero DEF rc
  <2> QED BY <1>2, <1>8, <2>1, <2>2 DEF Marks
<1>9. CASE /\ rc = 0 /\ logits' = [of |-> r.hash, by |-> r.by] /\ Conn(cs)
           /\ pos = Len(call.want) /\ Succeeds
           /\ UNCHANGED <<plan, reg, snd, rdr>>
  <2>1. call' = NoCall /\ ret' = Returned(call, TRUE)
    BY <1>9 DEF Succeeds
  <2>2. call' \in Calls /\ call'.pc = "idle" /\ ret' \in Rets
    BY <1>2, <2>1, StartTypes DEF NoCall, Returned, Calls, Rets
  <2>3. Types'
    BY <1>1, <1>4, <1>8, <1>9, <2>2 DEF Types, work
  <2>4. LogitsOfTranscript'
    BY <1>2, <1>4, <1>8, <1>9 DEF LogitsOfTranscript
  <2>5. CallInv' /\ ReaderInv' /\ PlanInv'
    BY <1>1, <1>2, <1>9, <2>2 DEF CallInv, ReaderInv, PlanInv
  <2> QED BY <2>3, <2>4, <2>5 DEF IInv
<1>10. CASE /\ rc = 0 /\ logits' = [of |-> r.hash, by |-> r.by] /\ Conn(cs)
            /\ call' = [call EXCEPT !.pc = "span", !.pos = pos, !.reset = FALSE] /\ UNCHANGED ret
            /\ UNCHANGED <<plan, reg, snd, rdr>>
  <2>1. /\ call' \in Calls /\ call'.pc = "span" /\ call'.want = call.want
        /\ call'.goal = call.goal /\ call'.pos = pos /\ call'.reset = FALSE
    BY <1>2, <1>6, <1>10 DEF Calls
  <2>2. Types'
    BY <1>1, <1>4, <1>8, <1>10, <2>1 DEF Types, work
  <2>3. CallInv'
    BY <1>1, <1>2, <1>4, <1>10, <2>1 DEF CallInv, Local
  <2>4. ReaderInv' /\ PlanInv' /\ LogitsOfTranscript'
    BY <1>1, <1>2, <1>10, <2>1 DEF ReaderInv, PlanInv, LogitsOfTranscript, CallInv
  <2> QED BY <2>2, <2>3, <2>4 DEF IInv
<1> QED BY <1>5, <1>7, <1>9, <1>10

LEMMA InvAwaitEof == ASSUME IInv, AwaitEof PROVE IInv'
<1>1. Types /\ CallInv /\ call.pc = "await" /\ Fails(1, own.toks, conn)
      /\ UNCHANGED <<own, logits, calls, next, work, faults>>
  BY DEF IInv, AwaitEof
<1>2. conn \in Net /\ own.toks \in Toks
  BY <1>1 DEF Types, Owners
<1>3. /\ call' \in Calls /\ ret' \in Rets /\ plan' \in Plans /\ snd' \in Senders
      /\ rdr' \in Readers /\ reg' \in [Workers -> Conns \cup {0}] /\ conn' \in Net
      /\ PlanInv' /\ CallInv' /\ ReaderInv' /\ LogitsOfTranscript'
  BY <1>1, <1>2, FailsInv
<1> QED BY <1>1, <1>3 DEF Types, IInv, work

LEMMA InvReroute == ASSUME IInv, Reroute PROVE IInv'
<1>1. /\ Types /\ CallInv /\ call.pc = "reroute" /\ call \in Calls /\ next \in Nat
      /\ call.goal # <<>> /\ call.want # <<>> /\ call.want \in Toks /\ ~ret.ok
      /\ UNCHANGED <<own, logits, calls, next, reg, work, conn, faults>>
  BY DEF IInv, Reroute, Types, CallInv, Calls
<1>2. CASE Covered /\ plan' = NewPlan /\ Goes(call, call.want, 0, TRUE) /\ UNCHANGED ret
  <2>1. plan' \in Plans /\ plan'.fd # 0
    BY <1>1, <1>2, HeldConnection, ConstantTypes DEF NewPlan, Plans
  <2>2. 0 <= Len(call.want)
    BY <1>1 DEF Toks
  <2>3. CallInv' /\ ReaderInv' /\ LogitsOfTranscript'
    BY <1>1, <1>2, <2>1, <2>2, GoesOn
  <2>4. call' \in Calls /\ snd' \in Senders /\ rdr' \in Readers
    BY <1>1, <1>2, GoesTyped
  <2> QED BY <1>1, <1>2, <2>1, <2>3, <2>4 DEF Types, IInv, PlanInv, work
<1>3. CASE ~Covered /\ plan' = NoPlan /\ GivesUp
  <2>1. plan' \in Plans /\ PlanInv'
    BY <1>3 DEF NoPlan, Plans, PlanInv
  <2>2. /\ call' \in Calls /\ ret' \in Rets /\ snd' \in Senders /\ rdr' \in Readers
        /\ CallInv' /\ ReaderInv' /\ LogitsOfTranscript'
    BY <1>1, <1>3, GivesUpInv
  <2> QED BY <1>1, <2>1, <2>2 DEF Types, IInv, work
<1> QED BY <1>2, <1>3 DEF Reroute

-----------------------------------------------------------------------------
(* The pipelined prefill. *)

LEMMA InvProduce == ASSUME IInv, Produce PROVE IInv'
<1> DEFINE n == Chunk(call.want, call.pos)
           ts == Span(call.want, call.pos, n)
           fits == SliceFits(Start, call.pos, n)
<1>1. Types /\ PlanInv /\ CallInv /\ ReaderInv /\ call.pc = "produce"
  BY DEF IInv, Produce
<1>2. UNCHANGED <<logits, calls, ret, rdr, route, work>>
  BY DEF Produce
<1>3. /\ n \in Nat /\ call.pos + n <= Len(call.want) /\ ts \in Toks /\ Len(ts) = n
      /\ Start \in Owners /\ [Start EXCEPT !.valid = FALSE] \in Owners
      /\ Slot(ts) \in Jobs
      /\ fits => /\ Committed(Start, ts) \in Owners /\ Committed(Start, ts).valid
                 /\ Committed(Start, ts).toks = SubSeq(call.want, 1, call.pos + n)
  <2>1. (Rest(call.want, call.pos) > ChunkCap) \in BOOLEAN
    OBVIOUS
  <2>2. next \in Nat
    BY <1>1 DEF Types
  <2> QED BY <1>1, <2>1, <2>2, SpanFacts DEF Slot
<1>4. /\ call \in Calls /\ own \in Owners /\ conn \in Net /\ snd \in Senders /\ rdr \in Readers
      /\ call.want \in Seq(Nat) /\ call.pos \in Nat /\ call.pos <= Len(call.want) /\ Local
      /\ call.want # <<>> /\ call.goal # <<>> /\ ~ret.ok /\ plan.fd # 0 /\ next \in Nat
  BY <1>1 DEF Types, CallInv, Calls, Toks
<1>5. Produce =>
      \/ ~(call.pos < Len(call.want)) /\ Stops(0) /\ UNCHANGED own
      \/ own' \in {own, Start, [Start EXCEPT !.valid = FALSE]} /\ Stops(1)
      \/ HasRoom /\ SlotFree /\ fits /\ own' = Committed(Start, ts) /\ Submits(ts)
  BY DEF Produce
<1> HIDE DEF n, ts, fits
<1>6. ASSUME NEW rc \in {0, 1}, own' \in Owners, Stops(rc),
             rc = 0 => own'.valid /\ own'.toks = call.want
      PROVE  IInv'
  <2>1. /\ call' \in Calls /\ call'.pc = "join" /\ call'.rc = rc /\ call'.want = call.want
        /\ call'.goal = call.goal /\ call'.sub = call.sub
    BY <1>4, <1>6 DEF Stops, Calls
  <2>2. snd' \in Senders /\ next' = next
    BY <1>4, <1>6 DEF Stops, Senders
  <2>3. conn' \in Net
    BY <1>4, <1>6, ShutTyped, KeepTyped DEF Stops, Conn
  <2>4. Types'
    BY <1>1, <1>2, <1>4, <1>6, <2>1, <2>2, <2>3 DEF Types, route, work
  <2>5. CallInv' /\ PlanInv' /\ LogitsOfTranscript'
    BY <1>1, <1>2, <1>4, <1>6, <2>1 DEF CallInv, PlanInv, LogitsOfTranscript, route
  <2>6. ReaderInv'
    BY <1>1, <1>2, <2>1 DEF ReaderInv
  <2> QED BY <2>4, <2>5, <2>6 DEF IInv
<1>7. CASE ~(call.pos < Len(call.want)) /\ Stops(0) /\ UNCHANGED own
  <2>1. call.pos = Len(call.want) /\ Len(call.want) # 0
    BY <1>4, <1>7
  <2>2. SubSeq(call.want, 1, Len(call.want)) = call.want
    BY <1>4
  <2>3. own.valid /\ own.toks = call.want
    BY <1>4, <2>1, <2>2 DEF Local
  <2> QED BY <1>4, <1>6, <1>7, <2>3
<1>8. CASE own' \in {own, Start, [Start EXCEPT !.valid = FALSE]} /\ Stops(1)
  <2>1. own' \in Owners
    BY <1>3, <1>4, <1>8
  <2>2. 1 \in {0, 1} /\ 1 # 0
    OBVIOUS
  <2> QED BY <1>6, <1>8, <2>1, <2>2
<1>9. CASE HasRoom /\ SlotFree /\ fits /\ own' = Committed(Start, ts) /\ Submits(ts)
  <2>1. /\ snd' = [snd EXCEPT !.slots = Append(@, Slot(ts))] /\ next' = next + 1
        /\ call' = [call EXCEPT !.reset = FALSE, !.sub = @ + 1, !.pos = @ + Len(ts)]
        /\ UNCHANGED conn
    BY <1>9 DEF Submits
  <2>2. /\ call' \in Calls /\ call'.pc = "produce" /\ call'.want = call.want
        /\ call'.goal = call.goal /\ call'.sub = call.sub + 1 /\ call'.reset = FALSE
        /\ call'.pos = call.pos + n
    <3>1. call.sub + 1 \in Nat /\ call.pos + Len(ts) \in Nat
      BY <1>3, <1>4 DEF Calls
    <3>2. call' = [call EXCEPT !.reset = FALSE, !.sub = call.sub + 1, !.pos = call.pos + Len(ts)]
      BY <1>4, <2>1 DEF Calls
    <3>3. /\ call' \in Calls /\ call'.pc = call.pc /\ call'.want = call.want
          /\ call'.goal = call.goal /\ call'.sub = call.sub + 1 /\ call'.reset = FALSE
          /\ call'.pos = call.pos + Len(ts)
      BY <1>4, <3>1, <3>2 DEF Calls
    <3> QED BY <1>1, <1>3, <3>3
  <2>3. snd' \in Senders
    <3>1. Append(snd.slots, Slot(ts)) \in UpTo(SendDepth, Jobs)
      BY <1>3, <1>4, <1>9, UpToGrows, ConstantTypes DEF SlotFree, Senders
    <3> QED BY <1>4, <2>1, <3>1 DEF Senders
  <2>4. Types'
    BY <1>1, <1>2, <1>3, <1>4, <1>9, <2>1, <2>2, <2>3 DEF Types, route, work
  <2>5. CallInv' /\ PlanInv' /\ LogitsOfTranscript'
    BY <1>1, <1>2, <1>3, <1>4, <1>9, <2>2
    DEF CallInv, Local, PlanInv, LogitsOfTranscript, route
  <2>6. ReaderInv'
    <3>1. call.sub + 1 <= rdr.i + Window
      BY <1>4, <1>9, ConstantTypes DEF HasRoom, Calls, Readers
    <3> QED BY <1>1, <1>2, <2>2, <3>1 DEF ReaderInv
  <2> QED BY <2>4, <2>5, <2>6 DEF IInv
<1> QED BY <1>5, <1>7, <1>8, <1>9

LEMMA InvJoin == ASSUME IInv, Join PROVE IInv'
<1> DEFINE rc == IF rdr.rc # 0 THEN rdr.rc ELSE IF snd.rc # 0 THEN 1 ELSE call.rc
<1>1. Types /\ PlanInv /\ CallInv /\ ReaderInv /\ call.pc = "join" /\ ~rdr.on
      /\ UNCHANGED <<own, calls, next, work, faults>>
  BY DEF IInv, Join
<1>2. own.toks \in Toks /\ conn \in Net /\ call \in Calls /\ rdr \in Readers
  BY <1>1 DEF Types, Owners
<1>3. Join =>
      \/ Fails(rc, own.toks, conn) /\ UNCHANGED logits
      \/ /\ rc = 0 /\ logits' = rdr.last /\ Succeeds
         /\ snd' = NoSender /\ rdr' = NoReader /\ UNCHANGED <<plan, reg, conn>>
  BY DEF Join
<1>4. CASE Fails(rc, own.toks, conn) /\ UNCHANGED logits
  <2> HIDE DEF rc
  <2>1. /\ call' \in Calls /\ ret' \in Rets /\ plan' \in Plans /\ snd' \in Senders
        /\ rdr' \in Readers /\ reg' \in [Workers -> Conns \cup {0}] /\ conn' \in Net
        /\ PlanInv' /\ CallInv' /\ ReaderInv' /\ LogitsOfTranscript'
    BY <1>1, <1>2, <1>4, FailsInv
  <2> QED BY <1>1, <1>4, <2>1 DEF Types, IInv, work
<1>5. CASE /\ rc = 0 /\ logits' = rdr.last /\ Succeeds
           /\ snd' = NoSender /\ rdr' = NoReader /\ UNCHANGED <<plan, reg, conn>>
  <2>1. rdr.rc = 0 /\ call.rc = 0
    BY <1>5
  <2>2. /\ own.valid /\ own.toks = call.want
        /\ rdr.last = [of |-> call.want, by |-> {call.want}]
    BY <1>1, <2>1 DEF CallInv, ReaderInv
  <2>3. logits' \in Marks /\ logits'.of = own.toks /\ logits'.by = {own.toks}
    BY <1>2, <1>5, <2>2 DEF Readers
  <2>4. call' \in Calls /\ call'.pc = "idle" /\ ret' \in Rets
    <3>1. call' = NoCall /\ ret' = Returned(call, TRUE)
      BY <1>5 DEF Succeeds
    <3> QED BY <1>2, <3>1, StartTypes DEF NoCall, Returned, Calls, Rets
  <2>5. ~rdr'.on
    BY <1>5 DEF NoReader
  <2>6. Types'
    BY <1>1, <1>5, <2>3, <2>4, StartTypes DEF Types, work
  <2>7. CallInv' /\ ReaderInv' /\ PlanInv' /\ LogitsOfTranscript'
    BY <1>1, <1>5, <2>2, <2>3, <2>4, <2>5 DEF CallInv, ReaderInv, PlanInv, LogitsOfTranscript
  <2> QED BY <2>6, <2>7 DEF IInv
<1> QED BY <1>3, <1>4, <1>5

(* A step that leaves the call, the plan and the reader alone.             *)
LEMMA InvOthers ==
  ASSUME IInv, Types', UNCHANGED <<own, logits, call, ret, rdr>>, plan'.fd = plan.fd, PlanInv'
  PROVE  IInv'
BY DEF IInv, CallInv, Local, ReaderInv, LogitsOfTranscript

LEMMA InvSenderSends == ASSUME IInv, SenderSends PROVE IInv'
<1>1. Types /\ CallInv /\ PlanInv /\ snd \in Senders /\ conn \in Net /\ snd.slots # <<>>
      /\ UNCHANGED <<caller, rdr, next, route, work, faults>>
  BY DEF IInv, SenderSends, Types
<1>2. Tail(snd.slots) \in UpTo(SendDepth, Jobs) /\ Head(snd.slots) \in Jobs
  BY <1>1, UpToShrinks, ConstantTypes DEF Senders
<1>3. CASE /\ SendWorkOk(plan.fd) /\ Conn(SendWork(conn, plan.fd, Head(snd.slots)))
           /\ snd' = [snd EXCEPT !.slots = Tail(@)]
  <2>1. conn' \in Net
    BY <1>1, <1>2, <1>3, SendWorkTyped, KeepTyped DEF Conn
  <2>2. snd' \in Senders
    BY <1>1, <1>2, <1>3 DEF Senders
  <2>3. Types'
    BY <1>1, <2>1, <2>2 DEF Types, caller, route, work
  <2> QED BY <1>1, <2>3, InvOthers DEF caller, route, PlanInv
<1>4. CASE /\ SendWorkFails(plan.fd) /\ Conn(Shut(conn, plan.fd))
           /\ snd' = [snd EXCEPT !.stop = TRUE, !.rc = 1]
  <2>1. conn' \in Net
    BY <1>1, <1>4, ShutTyped, KeepTyped DEF Conn
  <2>2. snd' \in Senders
    BY <1>1, <1>4 DEF Senders
  <2>3. Types'
    BY <1>1, <2>1, <2>2 DEF Types, caller, route, work
  <2> QED BY <1>1, <2>3, InvOthers DEF caller, route, PlanInv
<1> QED BY <1>3, <1>4 DEF SenderSends

(* The result of the last chunk is the one for the whole prompt.           *)
LEMMA LastExpected ==
  ASSUME call \in Calls, NEW i \in Nat, i + 1 = ChunkCount
  PROVE  Expected(i) = call.want
<1> DEFINE rest == Rest(call.want, call.from)
<1>1. call.want \in Seq(Nat) /\ call.from \in Nat /\ rest \in Int /\ ChunkCap \in Nat /\ ChunkCap > 0
  BY ConstantTypes DEF Calls, Toks, Rest
<1>2. i + 1 = (rest + ChunkCap - 1) \div ChunkCap
  BY DEF ChunkCount, Chunks
<1> HIDE DEF rest
<1>3. (i + 1) * ChunkCap >= rest
  <2>1. ((rest + ChunkCap - 1) \div ChunkCap) * ChunkCap >= rest
    BY ONLY <1>1, ChunksCover
  <2> QED BY <1>2, <2>1
<1> DEFINE far == (i + 1) * ChunkCap
<1>4. far \in Int
  BY <1>1
<1> HIDE DEF far
<1>5. far >= rest
  BY <1>3 DEF far
<1>6. call.from + far >= Len(call.want)
  BY <1>1, <1>4, <1>5 DEF rest, Rest
<1>7. Min({call.from + far, Len(call.want)}) = Len(call.want)
  <2>1. call.from + far \in Int /\ Len(call.want) \in Int
    BY <1>1, <1>4
  <2>2. call.from + far <= Len(call.want) => call.from + far = Len(call.want)
    BY <1>6, <2>1
  <2> QED BY <2>1, <2>2, MinTwo
<1>8. Expected(i) = SubSeq(call.want, 1, Len(call.want))
  BY <1>7 DEF Expected, far
<1>9. SubSeq(call.want, 1, Len(call.want)) = call.want
  BY ONLY <1>1
<1> QED BY <1>8, <1>9

LEMMA ExpectedTyped ==
  ASSUME call \in Calls, NEW i \in Nat
  PROVE  Expected(i) \in Toks
<1> DEFINE far == call.from + (i + 1) * ChunkCap
<1>1. call.want \in Seq(Nat) /\ far \in Nat
  <2>1. call.want \in Seq(Nat) /\ call.from \in Nat /\ i + 1 \in Nat /\ ChunkCap \in Nat
    BY ConstantTypes DEF Calls, Toks
  <2>2. (i + 1) * ChunkCap \in Nat
    BY ONLY <2>1
  <2> QED BY <2>1, <2>2
<1> HIDE DEF far
<1>2. Min({far, Len(call.want)}) \in 0 .. Len(call.want)
  BY <1>1, MinTwo
<1>3. \A m \in 0 .. Len(call.want) : SubSeq(call.want, 1, m) \in Seq(Nat)
  BY ONLY <1>1
<1> QED BY <1>2, <1>3 DEF Expected, far, Toks

LEMMA InvReaderTakes == ASSUME IInv, ReaderTakes PROVE IInv'
<1> DEFINE r == Head(conn[plan.fd].res)
           last == rdr.i + 1 = ChunkCount
           v == Verdict(r, call.first + rdr.i, Expected(rdr.i))
           rc == IF v = 0 /\ last /\ r.ack THEN 1 ELSE v
           cs == Received(conn, plan.fd)
<1>1. Types /\ PlanInv /\ CallInv /\ ReaderInv /\ rdr.on /\ call.pc \in {"produce", "join"}
      /\ UNCHANGED <<caller, snd, next, route, work, faults>>
  BY DEF IInv, ReaderTakes, ReaderInv
<1>2. /\ plan.fd \in Conns /\ conn \in Net /\ call \in Calls /\ rdr \in Readers
      /\ rdr.i \in Nat /\ call.sub \in Nat /\ call.sub <= rdr.i + Window
  BY <1>1 DEF Types, Plans, CallInv, ReaderInv, Readers, Calls
<1>3. cs \in Net /\ r \in Results
  BY <1>2, ReceivedTyped DEF ReaderTakes, HasResult
<1>4. Expected(rdr.i) \in Toks
  BY <1>2, ExpectedTyped
<1>5. v \in 0 .. 2 /\ rc \in 0 .. 2 /\ last \in BOOLEAN /\ (rc = 0 => v = 0)
  BY DEF Verdict
<1>6. ReaderTakes =>
      \/ rc # 0 /\ rdr' = [rdr EXCEPT !.on = FALSE, !.done = TRUE, !.rc = rc] /\ Conn(Shut(cs, plan.fd))
      \/ rc = 0 /\ rdr' = [rdr EXCEPT !.i = @ + 1, !.done = last, !.on = ~last,
                                      !.last = [of |-> r.hash, by |-> r.by]]
         /\ Conn(cs)
  BY DEF ReaderTakes, ReaderFails
<1>7. v = 0 => r.hash = Expected(rdr.i) /\ r.by = {Expected(rdr.i)}
  BY <1>3, <1>4, VerdictZero
<1>8. last => Expected(rdr.i) = call.want
  BY <1>2, LastExpected
<1> HIDE DEF r, last, v, rc, cs
<1>9. ASSUME rdr' \in Readers, conn' \in Net, ReaderInv' PROVE IInv'
  <2>1. Types' /\ PlanInv' /\ CallInv' /\ LogitsOfTranscript'
    BY <1>1, <1>9
    DEF IInv, Types, PlanInv, CallInv, Local, LogitsOfTranscript, caller, route, work
  <2> QED BY <1>9, <2>1 DEF IInv
<1>10. CASE rc # 0 /\ rdr' = [rdr EXCEPT !.on = FALSE, !.done = TRUE, !.rc = rc]
            /\ Conn(Shut(cs, plan.fd))
  <2>1. conn' \in Net
    BY <1>3, <1>10, ShutTyped, KeepTyped DEF Conn
  <2>2. rdr' \in Readers /\ ~rdr'.on /\ rdr'.rc # 0
    BY <1>2, <1>5, <1>10 DEF Readers
  <2>3. ReaderInv'
    BY <2>2 DEF ReaderInv
  <2> QED BY <1>9, <2>1, <2>2, <2>3
<1>11. CASE rc = 0 /\ rdr' = [rdr EXCEPT !.i = @ + 1, !.done = last, !.on = ~last,
                                         !.last = [of |-> r.hash, by |-> r.by]]
            /\ Conn(cs)
  <2>1. conn' \in Net
    BY <1>3, <1>11, KeepTyped DEF Conn
  <2>2. [of |-> r.hash, by |-> r.by] = [of |-> Expected(rdr.i), by |-> {Expected(rdr.i)}]
    BY <1>5, <1>7, <1>11
  <2>3. [of |-> r.hash, by |-> r.by] \in Marks
    BY <1>4, <2>2 DEF Marks
  <2>4. /\ rdr' \in Readers /\ rdr'.i = rdr.i + 1 /\ rdr'.on = ~last
        /\ rdr'.last = [of |-> r.hash, by |-> r.by]
    <3>1. rdr.i + 1 \in Nat /\ (~last) \in BOOLEAN
      BY <1>2
    <3>2. rdr' = [rdr EXCEPT !.i = rdr.i + 1, !.done = last, !.on = ~last,
                             !.last = [of |-> r.hash, by |-> r.by]]
      BY <1>2, <1>11 DEF Readers
    <3> QED BY ONLY <1>2, <1>5, <2>3, <3>1, <3>2 DEF Readers
  <2>5. call.sub <= rdr'.i + Window
    BY <1>2, <2>4, ConstantTypes
  <2>6. ReaderInv'
    BY <1>1, <1>8, <2>2, <2>4, <2>5 DEF ReaderInv, caller
  <2> QED BY <1>9, <2>1, <2>4, <2>6
<1> QED BY <1>6, <1>10, <1>11

LEMMA InvReaderEof == ASSUME IInv, ReaderEof PROVE IInv'
<1>1. /\ Types /\ rdr' = [rdr EXCEPT !.on = FALSE, !.done = TRUE, !.rc = 1]
      /\ Conn(Shut(conn, plan.fd)) /\ UNCHANGED <<caller, snd, next, route, work, faults>>
  BY DEF IInv, ReaderEof, ReaderFails
<1>2. conn' \in Net
  BY <1>1, ShutTyped, KeepTyped DEF Conn, Types
<1>3. rdr' \in Readers /\ ~rdr'.on /\ rdr'.rc # 0
  <2>1. rdr \in Readers /\ rdr' = [rdr EXCEPT !.on = FALSE, !.done = TRUE, !.rc = 1]
    BY <1>1 DEF Types
  <2>2. 1 \in 0 .. 2 /\ 1 # 0
    OBVIOUS
  <2> QED BY ONLY <2>1, <2>2 DEF Readers
<1>4. ReaderInv'
  BY <1>3 DEF ReaderInv
<1>5. Types' /\ PlanInv' /\ CallInv' /\ LogitsOfTranscript'
  BY <1>1, <1>2, <1>3
  DEF IInv, Types, PlanInv, CallInv, Local, LogitsOfTranscript, caller, route, work
<1> QED BY <1>4, <1>5 DEF IInv

-----------------------------------------------------------------------------
(* The workers: they touch the connections and their own sessions only. *)

LEMMA InvServing ==
  ASSUME IInv, UNCHANGED <<caller, pipe, route>>, conn' \in Net, ses' \in [Workers -> Sessions]
  PROVE  IInv'
<1>1. Types' /\ PlanInv'
  BY DEF IInv, Types, PlanInv, caller, pipe, route
<1> QED BY <1>1, InvOthers DEF caller, pipe, route

LEMMA NetTypes == ASSUME IInv PROVE conn \in Net /\ ses \in [Workers -> Sessions]
BY DEF IInv, Types

LEMMA InvReadWork == ASSUME IInv, NEW c \in Conns, ReadWork(c) PROVE IInv'
<1> DEFINE cs == [conn EXCEPT ![c].work = Tail(@)]
<1>1. conn \in Net /\ ses' \in [Workers -> Sessions] /\ conn[c].work # <<>>
      /\ UNCHANGED <<caller, pipe, route>>
  BY NetTypes DEF ReadWork, Serving, work
<1>2. Tail(conn[c].work) \in Seq(Jobs) /\ Head(conn[c].work) \in Jobs
  BY <1>1, LinkParts, SeqSteps
<1>3. cs \in Net /\ cs[c].queue = conn[c].queue
  <2>1. [conn[c] EXCEPT !.work = Tail(@)] \in Links
    BY <1>1, <1>2, LinkParts, FieldTyped
  <2> QED BY <1>1, <2>1 DEF Net, Links
<1> HIDE DEF cs
<1>4. CASE QueueRoom(c) /\ Conn([cs EXCEPT ![c].queue = Append(@, Head(conn[c].work))])
  <2>1. Append(cs[c].queue, Head(conn[c].work)) \in UpTo(PrefetchDepth, Jobs)
    <3>1. cs[c].queue \in UpTo(PrefetchDepth, Jobs) /\ Len(cs[c].queue) < PrefetchDepth
      BY <1>3, <1>4, LinkParts DEF QueueRoom
    <3> QED BY <1>2, <3>1, UpToGrows, ConstantTypes
  <2>2. [cs[c] EXCEPT !.queue = Append(@, Head(conn[c].work))] \in Links
    BY <1>3, <2>1, LinkParts, FieldTyped
  <2>3. [cs EXCEPT ![c].queue = Append(@, Head(conn[c].work))] \in Net
    BY <1>3, <2>2 DEF Net
  <2> QED BY <1>1, <1>4, <2>3, KeepTyped, InvServing DEF Conn
<1>5. CASE Conn([Cancel(cs, c) EXCEPT ![c].rd = FALSE])
  <2>1. Cancel(cs, c) \in Net
    BY <1>3, QueueTyped
  <2>2. [Cancel(cs, c) EXCEPT ![c].rd = FALSE] \in Net
    BY <2>1, QueueTyped
  <2> QED BY <1>1, <1>5, <2>2, KeepTyped, InvServing DEF Conn
<1> QED BY <1>4, <1>5 DEF ReadWork, cs

LEMMA InvReadEnds == ASSUME IInv, NEW c \in Conns, ReadEnds(c) PROVE IInv'
<1> DEFINE cs == [conn EXCEPT ![c].rd = FALSE]
<1>1. conn \in Net /\ ses \in [Workers -> Sessions] /\ UNCHANGED <<caller, pipe, route>>
  BY NetTypes DEF ReadEnds, Serving
<1>2. cs \in Net
  BY <1>1, QueueTyped
<1> HIDE DEF cs
<1>3. Finish(cs, c) \in Net /\ Cancel(cs, c) \in Net
  BY <1>2, QueueTyped
<1>4. HangsUp(Finish(cs, c), c) \/ HangsUp(Cancel(cs, c), c)
  BY DEF ReadEnds, cs
<1>5. conn' \in Net /\ ses' \in [Workers -> Sessions]
  BY <1>1, <1>3, <1>4, HangsUpTyped
<1> QED BY <1>1, <1>5, InvServing

(* What an evaluation leaves: the session hashes what it holds, and what   *)
(* goes on was computed on the job's own prefix.                           *)
LEMMA EvaluateTypes ==
  ASSUME NEW w \in Workers, ses \in [Workers -> Sessions], NEW job \in Jobs,
         NEW s, s = Opening(ses[w], job),
         NEW done, done = [s EXCEPT !.toks = @ \o job.toks, !.valid = TRUE,
                                    !.hash = job.pre \o job.toks],
         NEW out, out = [job EXCEPT !.by = @ \cup {done.toks}]
  PROVE  /\ s \in Sessions /\ job.id \in Nat
         /\ [s EXCEPT !.known = FALSE] \in Sessions
         /\ [s EXCEPT !.valid = FALSE, !.known = FALSE] \in Sessions
         /\ PrefixAgrees(s, job) => done \in Sessions /\ out \in Jobs
<1>1. /\ job.id \in Nat /\ job.pre \in Seq(Nat) /\ job.toks \in Seq(Nat)
      /\ job.by = {job.pre \o job.toks} /\ job.pre \o job.toks \in Seq(Nat)
  BY DEF Jobs, Toks
<1>2. s \in Sessions /\ s.known /\ s.hash = s.toks
  <2>1. CASE job.reset
    BY <2>1, EmptyTypes DEF Opening, Sessions
  <2>2. CASE ~job.reset /\ ses[w].known
    BY <2>2 DEF Opening, Sessions
  <2>3. CASE ~job.reset /\ ~ses[w].known
    <3>1. s = [ses[w] EXCEPT !.hash = ses[w].toks, !.known = TRUE] /\ ses[w] \in Sessions
      BY <2>3 DEF Opening
    <3> QED BY ONLY <3>1 DEF Sessions
  <2> QED BY <2>1, <2>2, <2>3
<1>3. [s EXCEPT !.known = FALSE] \in Sessions
      /\ [s EXCEPT !.valid = FALSE, !.known = FALSE] \in Sessions
  BY <1>2 DEF Sessions
<1>4. ASSUME PrefixAgrees(s, job) PROVE done \in Sessions /\ out \in Jobs
  <2>1. s.toks = job.pre
    BY <1>2, <1>4 DEF PrefixAgrees
  <2>2. done = [s EXCEPT !.toks = job.pre \o job.toks, !.valid = TRUE,
                         !.hash = job.pre \o job.toks]
    BY <1>2, <2>1 DEF Sessions
  <2>3. done \in Sessions /\ done.toks = job.pre \o job.toks
    BY <1>1, <1>2, <2>2 DEF Sessions, Toks
  <2>4. job.by \cup {done.toks} = job.by
    BY <1>1, <2>3
  <2>5. out = job
    BY <2>4 DEF Jobs
  <2> QED BY <2>3, <2>5
<1> QED BY <1>1, <1>2, <1>3, <1>4


LEMMA InvEvaluate == ASSUME IInv, NEW c \in Conns, Evaluate(c) PROVE IInv'
<1> DEFINE w == On(c)
           job == Head(conn[c].queue)
           s == Opening(ses[w], job)
           cs == [conn EXCEPT ![c].queue = Tail(@)]
           done == [s EXCEPT !.toks = @ \o job.toks, !.valid = TRUE, !.hash = job.pre \o job.toks]
           out == [job EXCEPT !.by = @ \cup {done.toks}]
<1>1. /\ conn \in Net /\ ses \in [Workers -> Sessions] /\ UNCHANGED <<caller, pipe, route>>
      /\ conn[c].ev /\ conn[c].queue # <<>>
  BY NetTypes DEF Evaluate, Serving
<1>2. w \in Workers /\ w = conn[c].w
  BY <1>1, LinkParts DEF On
<1>3. cs \in Net /\ job \in Jobs /\ cs[c].w = w
  <2>1. cs \in Net /\ job \in Jobs
    BY <1>1, QueueTyped
  <2>2. cs[c].w = conn[c].w
    BY <1>1 DEF Net, Links
  <2> QED BY <1>2, <2>1, <2>2
<1>4. /\ s \in Sessions /\ job.id \in Nat
      /\ [s EXCEPT !.known = FALSE] \in Sessions
      /\ [s EXCEPT !.valid = FALSE, !.known = FALSE] \in Sessions
      /\ PrefixAgrees(s, job) => done \in Sessions /\ out \in Jobs
  BY <1>1, <1>2, <1>3, EvaluateTypes
<1>5. \/ /\ \E t \in {s, [s EXCEPT !.known = FALSE], [s EXCEPT !.valid = FALSE, !.known = FALSE]} :
              ses' = [ses EXCEPT ![w] = t]
         /\ Replies(cs, c, WorkError(job.id))
      \/ /\ PrefixAgrees(s, job) /\ ses' = [ses EXCEPT ![w] = done]
         /\ \/ HasNext(w) /\ Conn([cs EXCEPT ![c].hand = <<out>>])
            \/ Replies(cs, c, Result(out))
  BY DEF Evaluate
<1> HIDE DEF w, job, s, cs, done, out
<1>6. CASE /\ \E t \in {s, [s EXCEPT !.known = FALSE], [s EXCEPT !.valid = FALSE, !.known = FALSE]} :
                ses' = [ses EXCEPT ![w] = t]
           /\ Replies(cs, c, WorkError(job.id))
  <2>1. ses' \in [Workers -> Sessions]
    BY <1>1, <1>4, <1>6
  <2>2. conn' \in Net
    BY <1>3, <1>4, <1>6, WorkErrorTyped, RepliesTyped
  <2> QED BY <1>1, <2>1, <2>2, InvServing
<1>7. CASE /\ PrefixAgrees(s, job) /\ ses' = [ses EXCEPT ![w] = done]
           /\ \/ HasNext(w) /\ Conn([cs EXCEPT ![c].hand = <<out>>])
              \/ Replies(cs, c, Result(out))
  <2>1. ses' \in [Workers -> Sessions] /\ out \in Jobs
    BY <1>1, <1>4, <1>7
  <2>2. CASE HasNext(w) /\ Conn([cs EXCEPT ![c].hand = <<out>>])
    <3>1. <<out>> \in Seq(Jobs)
      BY <2>1
    <3>2. [cs[c] EXCEPT !.hand = <<out>>] \in Links
      BY <1>3, <2>2, <3>1, LinkParts, FieldTyped
    <3>3. [cs EXCEPT ![c].hand = <<out>>] \in Net
      BY <1>3, <3>2 DEF Net
    <3> QED BY <1>1, <2>1, <2>2, <3>3, KeepTyped, InvServing DEF Conn
  <2>3. CASE Replies(cs, c, Result(out))
    BY <1>1, <1>3, <2>1, <2>3, ResultTyped, RepliesTyped, InvServing
  <2> QED BY <1>7, <2>2, <2>3
<1> QED BY <1>5, <1>6, <1>7

LEMMA DroppedTyped ==
  ASSUME conn \in Net, NEW c \in Conns, Forwarding(c)
  PROVE  /\ Dropped(c) \in Net /\ InHand(c) \in Jobs /\ InHand(c).id \in Nat
         /\ Dropped(c)[c].pend = conn[c].pend
<1>1. InHand(c) \in Jobs
  BY LinkParts DEF InHand, Forwarding
<1>2. Dropped(c) \in Net
  BY LinkParts, FieldTyped DEF Dropped, Net
<1>3. Dropped(c)[c].pend = conn[c].pend
  BY DEF Dropped, Net, Links
<1> QED BY <1>1, <1>2, <1>3 DEF Jobs

LEMMA InvConnect == ASSUME IInv, NEW c \in Conns, Connect(c) PROVE IInv'
<1> DEFINE next_w == On(c) + 1
           d == Min(FreeConns)
           cs == [conn EXCEPT ![d] = Opened(next_w, FALSE), ![c].down = d, ![c].relay = TRUE]
<1>1. /\ conn \in Net /\ ses' \in [Workers -> Sessions] /\ UNCHANGED <<caller, pipe, route>>
      /\ Forwarding(c)
  BY NetTypes DEF Connect, Serving, work
<1>2. CASE FreeConns # {} /\ Conn(cs)
  <2>1. d \in Conns /\ d \in FreeConns
    BY <1>2, MinIn, ConstantTypes DEF FreeConns
  <2>2. next_w \in Workers
    <3>1. conn[c].w \in Workers /\ HasNext(conn[c].w)
      BY <1>1, LinkParts DEF Forwarding
    <3> QED BY <3>1, ConstantTypes DEF On, HasNext, Workers
  <2>3. Opened(next_w, FALSE) \in Links
    BY <2>2, OpenedTyped
  <2>4. d # c
    BY <1>1, <2>1 DEF FreeConns, Idle, Forwarding
  <2> HIDE DEF next_w, d
  <2>5. [conn[c] EXCEPT !.down = d, !.relay = TRUE] \in Links
    BY <1>1, <2>1, LinkParts, FieldTyped
  <2>6. cs = [[conn EXCEPT ![d] = Opened(next_w, FALSE)]
                EXCEPT ![c] = [conn[c] EXCEPT !.down = d, !.relay = TRUE]]
    BY <1>1, <2>4 DEF Net
  <2>7. cs \in Net
    BY <1>1, <2>3, <2>5, <2>6 DEF Net
  <2> QED BY <1>1, <1>2, <2>7, KeepTyped, InvServing DEF Conn
<1>3. CASE Replies(Dropped(c), c, WorkError(InHand(c).id))
  BY <1>1, <1>3, DroppedTyped, WorkErrorTyped, RepliesTyped, InvServing
<1> QED BY <1>2, <1>3 DEF Connect

LEMMA InvForward == ASSUME IInv, NEW c \in Conns, Forward(c) PROVE IInv'
<1> DEFINE d == conn[c].down
           job == InHand(c)
           shut == Shut(Dropped(c), d)
<1>1. /\ conn \in Net /\ ses' \in [Workers -> Sessions] /\ UNCHANGED <<caller, pipe, route>>
      /\ Forwarding(c)
  BY NetTypes DEF Forward, Serving, work
<1>2. Dropped(c) \in Net /\ job \in Jobs /\ job.id \in Nat /\ Dropped(c)[c].pend = conn[c].pend
  BY <1>1, DroppedTyped
<1>3. shut \in Net /\ WorkError(job.id) \in Results
  BY <1>2, ShutTyped, WorkErrorTyped
<1>4. \/ Replies(Dropped(c), c, WorkError(job.id))
      \/ PendingRoom(c) /\ Conn(SendWork(Pending(Dropped(c), c, job.id), d, job))
      \/ Conn(ShutFar(Answer(shut, c, WorkError(job.id)), c))
      \/ Conn(EvalFails(shut, c))
  BY DEF Forward
<1> HIDE DEF d, job, shut
<1>5. CASE PendingRoom(c) /\ Conn(SendWork(Pending(Dropped(c), c, job.id), d, job))
  <2>1. Append(Dropped(c)[c].pend, job.id) \in UpTo(ForwardDepth, Nat)
    BY <1>1, <1>2, <1>5, LinkParts, UpToGrows, ConstantTypes DEF PendingRoom
  <2>2. [Dropped(c)[c] EXCEPT !.pend = Append(@, job.id)] \in Links
    BY <1>2, <2>1, LinkParts, FieldTyped
  <2>3. Pending(Dropped(c), c, job.id) \in Net
    BY <1>2, <2>2 DEF Pending, Net
  <2> QED BY <1>1, <1>2, <1>5, <2>3, SendWorkTyped, KeepTyped, InvServing DEF Conn
<1>6. CASE Replies(Dropped(c), c, WorkError(job.id))
  BY <1>1, <1>2, <1>3, <1>6, RepliesTyped, InvServing
<1>7. CASE Conn(ShutFar(Answer(shut, c, WorkError(job.id)), c))
  BY <1>1, <1>3, <1>7, AnswerTyped, ShutFarTyped, KeepTyped, InvServing DEF Conn
<1>8. CASE Conn(EvalFails(shut, c))
  BY <1>1, <1>3, <1>8, QueueTyped, KeepTyped, InvServing DEF Conn
<1> QED BY <1>4, <1>5, <1>6, <1>7, <1>8

LEMMA RelayErrorTyped ==
  ASSUME conn \in Net, NEW cs \in Net, NEW c \in Conns
  PROVE  RelayError(cs, c) \in Net
<1>1. CASE conn[c].pend # <<>>
  <2>1. Head(conn[c].pend) \in Nat
    BY <1>1, LinkParts, UpToShrinks, ConstantTypes
  <2> QED BY <1>1, <2>1, RelayTyped, WorkErrorTyped, AnswerTyped DEF RelayError
<1>2. CASE conn[c].pend = <<>>
  BY <1>2 DEF RelayError
<1> QED BY <1>1, <1>2

LEMMA InvRelay == ASSUME IInv, NEW c \in Conns, Relay(c) PROVE IInv'
<1> DEFINE d == conn[c].down
           r == Head(conn[d].res)
           cs == Received(conn, d)
<1>1. /\ conn \in Net /\ ses' \in [Workers -> Sessions] /\ UNCHANGED <<caller, pipe, route>>
      /\ conn[c].relay /\ conn[d].res # <<>>
  BY NetTypes DEF Relay, Serving, work, HasResult
<1>2. d \in Conns
  BY <1>1, LinkParts
<1>3. cs \in Net /\ r \in Results
  BY <1>1, <1>2, ReceivedTyped
<1>4. \/ Conn(RelayEnds(RelayError(cs, c), c))
      \/ Conn(Answer(Popped(cs, c), c, r))
      \/ Conn(RelayEnds(Popped(cs, c), c))
  BY DEF Relay
<1> HIDE DEF d, r, cs
<1>5. /\ RelayEnds(RelayError(cs, c), c) \in Net
      /\ Answer(Popped(cs, c), c, r) \in Net
      /\ RelayEnds(Popped(cs, c), c) \in Net
  BY <1>1, <1>3, RelayErrorTyped, RelayTyped, AnswerTyped
<1>6. conn' \in Net
  BY <1>4, <1>5, KeepTyped DEF Conn
<1> QED BY <1>1, <1>6, InvServing

LEMMA InvRelayEof == ASSUME IInv, NEW c \in Conns, RelayEof(c) PROVE IInv'
<1>1. /\ conn \in Net /\ ses \in [Workers -> Sessions] /\ UNCHANGED <<caller, pipe, route>>
      /\ HangsUp(RelayEnds(RelayError(conn, c), c), c)
  BY NetTypes DEF RelayEof, Serving
<1>2. RelayEnds(RelayError(conn, c), c) \in Net
  BY <1>1, RelayErrorTyped, RelayTyped
<1> QED BY <1>1, <1>2, HangsUpTyped, InvServing

LEMMA InvCloseForwarder == ASSUME IInv, NEW c \in Conns, CloseForwarder(c) PROVE IInv'
<1>1. /\ conn \in Net /\ ses' \in [Workers -> Sessions] /\ UNCHANGED <<caller, pipe, route>>
      /\ Conn([Shut(conn, conn[c].down) EXCEPT ![c].closing = TRUE])
  BY NetTypes DEF CloseForwarder, Serving, work
<1>2. Shut(conn, conn[c].down) \in Net
  BY <1>1, ShutTyped
<1>3. [Shut(conn, conn[c].down) EXCEPT ![c].closing = TRUE] \in Net
  BY <1>2, LinkParts, FieldTyped DEF Net
<1> QED BY <1>1, <1>3, KeepTyped, InvServing DEF Conn

LEMMA InvDisconnect == ASSUME IInv, NEW c \in Conns, Disconnect(c) PROVE IInv'
<1>1. /\ conn \in Net /\ ses \in [Workers -> Sessions] /\ UNCHANGED <<caller, pipe, route>>
      /\ HangsUp(conn, c)
  BY NetTypes DEF Disconnect, Serving
<1> QED BY <1>1, HangsUpTyped, InvServing

-----------------------------------------------------------------------------
(* Registration and failures. *)

LEMMA InvRegistry ==
  ASSUME IInv, UNCHANGED <<caller, pipe, work>>, conn' \in Net,
         reg' \in [Workers -> Conns \cup {0}], plan' = [plan EXCEPT !.current = FALSE]
  PROVE  IInv'
<1>1. plan' \in Plans /\ plan'.fd = plan.fd /\ PlanInv'
  BY DEF IInv, Types, Plans, PlanInv
<1>2. Types'
  BY <1>1 DEF IInv, Types, caller, pipe, work
<1> QED BY <1>1, <1>2, InvOthers DEF caller, pipe

LEMMA InvRegister == ASSUME IInv, NEW w \in Workers, Register(w) PROVE IInv'
<1> DEFINE c == Min(FreeConns)
<1>1. /\ conn \in Net /\ reg \in [Workers -> Conns \cup {0}] /\ UNCHANGED <<caller, pipe, work>>
      /\ FreeConns # {} /\ reg' = [reg EXCEPT ![w] = c]
      /\ plan' = [plan EXCEPT !.current = FALSE]
      /\ Keep([conn EXCEPT ![c] = Opened(w, TRUE)], {plan.fd} \cup {reg[v] : v \in Workers \ {w}})
  BY DEF IInv, Types, Register
<1>2. c \in Conns
  BY <1>1, MinIn, ConstantTypes DEF FreeConns
<1> HIDE DEF c
<1>3. [conn EXCEPT ![c] = Opened(w, TRUE)] \in Net
  BY <1>1, OpenedTyped DEF Net
<1>4. reg' \in [Workers -> Conns \cup {0}]
  BY <1>1, <1>2
<1> QED BY <1>1, <1>3, <1>4, KeepTyped, InvRegistry

LEMMA InvMonitor == ASSUME IInv, NEW w \in Workers, Monitor(w) PROVE IInv'
<1>1. /\ conn \in Net /\ reg \in [Workers -> Conns \cup {0}] /\ UNCHANGED <<caller, pipe, work>>
      /\ reg' = [reg EXCEPT ![w] = 0] /\ plan' = [plan EXCEPT !.current = FALSE]
      /\ Keep(conn, {plan.fd} \cup {reg[v] : v \in Workers \ {w}})
  BY DEF IInv, Types, Monitor
<1>2. reg' \in [Workers -> Conns \cup {0}]
  BY <1>1
<1> QED BY <1>1, <1>2, KeepTyped, InvRegistry

LEMMA InvCrash == ASSUME IInv, NEW w \in Workers, Crash(w) PROVE IInv'
<1> DEFINE downs == {conn[c].down : c \in {b \in Conns : conn[b].w = w}}
           Dead(c) == [Unused EXCEPT !.w = w, !.near = conn[c].near, !.res = conn[c].res]
           cs == [c \in Conns |-> IF conn[c].w = w THEN Dead(c)
                                  ELSE IF c \in downs THEN [conn[c] EXCEPT !.near = FALSE]
                                  ELSE conn[c]]
<1>1. /\ conn \in Net /\ ses \in [Workers -> Sessions] /\ UNCHANGED <<caller, pipe, route>>
      /\ ses' = [ses EXCEPT ![w] = Fresh] /\ Conn(cs)
  BY NetTypes DEF Crash
<1>2. ses' \in [Workers -> Sessions]
  <2>1. Fresh \in Sessions
    BY EmptyTypes DEF Fresh, Sessions
  <2> QED BY <1>1, <2>1
<1>3. \A c \in Conns : Dead(c) \in Links /\ [conn[c] EXCEPT !.near = FALSE] \in Links
                       /\ conn[c] \in Links
  BY <1>1, LinkParts, ClosedTyped, FieldTyped
<1>4. cs \in Net
  BY <1>3 DEF Net
<1> HIDE DEF cs
<1> QED BY <1>1, <1>2, <1>4, KeepTyped, InvServing DEF Conn

LEMMA InvRestart == ASSUME IInv, NEW w \in Workers, Restart(w) PROVE IInv'
BY NetTypes, InvServing DEF Restart

-----------------------------------------------------------------------------
LEMMA InvInit == Init => IInv
<1> SUFFICES ASSUME Init PROVE IInv
  OBVIOUS
<1>1. own \in Owners /\ logits \in Marks
  BY EmptyTypes, ConstantTypes DEF Init, Owners, Marks
<1>2. call \in Calls /\ ret \in Rets /\ snd \in Senders /\ rdr \in Readers
  BY StartTypes DEF Init
<1>3. plan \in Plans /\ next \in Nat /\ calls \in Nat
  BY DEF Init, Plans
<1>4. reg \in [Workers -> Conns \cup {0}]
  BY ConstantTypes DEF Init
<1>5. ses \in [Workers -> Sessions]
  <2>1. Fresh \in Sessions
    BY EmptyTypes DEF Fresh, Sessions
  <2> QED BY <2>1 DEF Init
<1>6. conn \in Net
  BY UnusedTyped, OpenedTyped DEF Init, Net
<1>7. Types
  BY <1>1, <1>2, <1>3, <1>4, <1>5, <1>6 DEF Types
<1>8. PlanInv
  BY DEF Init, PlanInv
<1>9. CallInv /\ ReaderInv /\ LogitsOfTranscript
  BY DEF Init, NoCall, NoReader, NoRet, CallInv, ReaderInv, LogitsOfTranscript
<1> QED BY <1>7, <1>8, <1>9 DEF IInv

LEMMA InvUnchanged == ASSUME IInv, UNCHANGED vars PROVE IInv'
BY NetTypes, InvServing DEF vars, work

LEMMA InvNext == IInv /\ [Next]_vars => IInv'
<1> SUFFICES ASSUME IInv, [Next]_vars PROVE IInv'
  OBVIOUS
<1>1. CASE Coordinator
  BY <1>1, InvEvalSpan, InvAwaitResult, InvAwaitEof, InvReroute, InvProduce, InvJoin,
     InvSenderSends, InvReaderTakes, InvReaderEof DEF Coordinator
<1>2. ASSUME NEW c \in Conns, Worker(c) PROVE IInv'
  BY <1>2, InvReadWork, InvReadEnds, InvEvaluate, InvConnect, InvForward, InvRelay,
     InvRelayEof, InvCloseForwarder, InvDisconnect DEF Worker
<1>3. ASSUME NEW w \in Workers, Register(w) \/ Monitor(w) \/ Crash(w) \/ Restart(w) PROVE IInv'
  BY <1>3, InvRegister, InvMonitor, InvCrash, InvRestart
<1>4. CASE UNCHANGED vars
  BY <1>4, InvUnchanged
<1> QED BY <1>1, <1>2, <1>3, <1>4, InvCall DEF Next, Steps, Finished

(* In every reachable state, for every number of workers, window, queue    *)
(* depth and sequence of failures: the invariant the other results need.   *)
THEOREM Invariance == Spec => []IInv
BY InvInit, InvNext, PTL DEF Spec

(* The checkpoint stays in the context, and the sender's slots, a worker's *)
(* job queue, a forwarder's pending ids and the window of submitted chunks *)
(* keep their depths, whatever breaks.                                     *)
THEOREM TypeCorrect == Spec => []TypeOK
<1>1. IInv => TypeOK
  BY DEF IInv, Types, ReaderInv, TypeOK, Owners, Senders, UpTo, Net, Links, Toks
<1> QED BY Invariance, <1>1, PTL

(* A call that evaluated something and returns success hands back logits   *)
(* for exactly the owner's checkpoint, and every stage behind the          *)
(* coordinator computed its part on exactly that prefix: a stale answer, a *)
(* worker that restarted or a chunk of an abandoned attempt is never in it.*)
THEOREM LogitsAgree == Spec => []LogitsOfTranscript
<1>1. IInv => LogitsOfTranscript
  BY DEF IInv
<1> QED BY Invariance, <1>1, PTL

-----------------------------------------------------------------------------
(* The order of the requests: sequences of ids.                            *)

Increasing(s) == \A i, j \in DOMAIN s : i < j => s[i] < s[j]
Distinct(s) == \A i, j \in DOMAIN s : i # j => s[i] # s[j]
Before(s, t) == \A x \in Range(s), y \in Range(t) : x < y

LEMMA RangeOfAppend ==
  ASSUME NEW s \in Seq(Nat), NEW x \in Nat
  PROVE  Append(s, x) \in Seq(Nat) /\ Range(Append(s, x)) = Range(s) \cup {x}
<1>1. Append(s, x) \in Seq(Nat) /\ Len(Append(s, x)) = Len(s) + 1
  OBVIOUS
<1>2. ASSUME NEW y \in Range(Append(s, x)) PROVE y \in Range(s) \cup {x}
  BY DEF Range
<1>3. ASSUME NEW y \in Range(s) PROVE y \in Range(Append(s, x))
  <2>1. PICK i \in DOMAIN s : s[i] = y
    BY DEF Range
  <2>2. i \in DOMAIN Append(s, x) /\ Append(s, x)[i] = y
    BY <2>1
  <2> QED BY <2>2 DEF Range
<1>4. x \in Range(Append(s, x))
  <2>1. Len(s) + 1 \in DOMAIN Append(s, x) /\ Append(s, x)[Len(s) + 1] = x
    OBVIOUS
  <2> QED BY <2>1 DEF Range
<1> QED BY <1>1, <1>2, <1>3, <1>4

LEMMA RangeOfTail ==
  ASSUME NEW s \in Seq(Nat), s # <<>>
  PROVE  /\ Tail(s) \in Seq(Nat) /\ Head(s) \in Nat /\ Head(s) = s[1]
         /\ Range(s) = Range(Tail(s)) \cup {Head(s)}
<1>1. Tail(s) \in Seq(Nat) /\ Head(s) \in Nat /\ Head(s) = s[1] /\ Len(s) \in Nat /\ Len(s) > 0
      /\ Len(Tail(s)) = Len(s) - 1
  OBVIOUS
<1>2. ASSUME NEW y \in Range(s) PROVE y \in Range(Tail(s)) \cup {Head(s)}
  <2>1. PICK i \in DOMAIN s : s[i] = y
    BY DEF Range
  <2>2. CASE i = 1
    BY <2>1, <2>2, <1>1
  <2>3. CASE i # 1
    <3>1. i - 1 \in DOMAIN Tail(s) /\ Tail(s)[i - 1] = y
      BY <2>1, <2>3, <1>1
    <3> QED BY <3>1 DEF Range
  <2> QED BY <2>2, <2>3
<1>3. ASSUME NEW y \in Range(Tail(s)) PROVE y \in Range(s)
  <2>1. PICK i \in DOMAIN Tail(s) : Tail(s)[i] = y
    BY DEF Range
  <2>2. i + 1 \in DOMAIN s /\ s[i + 1] = y
    BY <2>1, <1>1
  <2> QED BY <2>2 DEF Range
<1>4. Head(s) \in Range(s)
  <2>1. 1 \in DOMAIN s
    BY <1>1
  <2> QED BY <1>1, <2>1 DEF Range
<1> QED BY <1>1, <1>2, <1>3, <1>4

LEMMA AppendOrder ==
  ASSUME NEW s \in Seq(Nat), NEW x \in Nat
  PROVE  /\ Increasing(s) /\ (\A y \in Range(s) : y < x) => Increasing(Append(s, x))
         /\ Distinct(s) /\ x \notin Range(s) => Distinct(Append(s, x))
<1>1. /\ \A i \in DOMAIN s : s[i] \in Range(s) /\ Append(s, x)[i] = s[i]
      /\ \A i \in DOMAIN Append(s, x) : i \in DOMAIN s \/ (i = Len(s) + 1 /\ Append(s, x)[i] = x)
      /\ DOMAIN s = 1 .. Len(s) /\ Len(s) \in Nat
  BY DEF Range
<1>2. ASSUME Increasing(s), \A y \in Range(s) : y < x PROVE Increasing(Append(s, x))
  <2> SUFFICES ASSUME NEW i \in DOMAIN Append(s, x), NEW j \in DOMAIN Append(s, x), i < j
               PROVE  Append(s, x)[i] < Append(s, x)[j]
    BY DEF Increasing
  <2>1. i \in DOMAIN s
    BY <1>1
  <2> QED BY <1>1, <1>2, <2>1 DEF Increasing
<1>3. ASSUME Distinct(s), x \notin Range(s) PROVE Distinct(Append(s, x))
  <2> SUFFICES ASSUME NEW i \in DOMAIN Append(s, x), NEW j \in DOMAIN Append(s, x), i # j
               PROVE  Append(s, x)[i] # Append(s, x)[j]
    BY DEF Distinct
  <2>1. CASE i \in DOMAIN s /\ j \in DOMAIN s
    BY <1>1, <1>3, <2>1 DEF Distinct
  <2>2. CASE i \notin DOMAIN s
    <3>1. j \in DOMAIN s /\ Append(s, x)[i] = x
      BY <1>1, <2>2
    <3> QED BY <1>1, <1>3, <3>1
  <2>3. CASE j \notin DOMAIN s
    <3>1. i \in DOMAIN s /\ Append(s, x)[j] = x
      BY <1>1, <2>3
    <3> QED BY <1>1, <1>3, <3>1
  <2> QED BY <2>1, <2>2, <2>3
<1> QED BY <1>2, <1>3

LEMMA TailOrder ==
  ASSUME NEW s \in Seq(Nat), s # <<>>
  PROVE  /\ Increasing(s) => Increasing(Tail(s)) /\ \A y \in Range(Tail(s)) : Head(s) < y
         /\ Distinct(s) => Distinct(Tail(s)) /\ Head(s) \notin Range(Tail(s))
<1>1. /\ \A i \in DOMAIN Tail(s) : i + 1 \in DOMAIN s /\ Tail(s)[i] = s[i + 1] /\ i \in Nat \ {0}
      /\ 1 \in DOMAIN s /\ Head(s) = s[1]
  OBVIOUS
<1>2. \A y \in Range(Tail(s)) : \E i \in DOMAIN Tail(s) : y = s[i + 1]
  BY <1>1 DEF Range
<1>3. ASSUME Increasing(s) PROVE Increasing(Tail(s)) /\ \A y \in Range(Tail(s)) : Head(s) < y
  <2>1. Increasing(Tail(s))
    BY <1>1, <1>3 DEF Increasing
  <2>2. \A i \in DOMAIN Tail(s) : s[1] < s[i + 1]
    BY <1>1, <1>3 DEF Increasing
  <2> QED BY <1>1, <1>2, <2>1, <2>2
<1>4. ASSUME Distinct(s) PROVE Distinct(Tail(s)) /\ Head(s) \notin Range(Tail(s))
  <2>1. Distinct(Tail(s))
    BY <1>1, <1>4 DEF Distinct
  <2>2. \A i \in DOMAIN Tail(s) : s[1] # s[i + 1]
    BY <1>1, <1>4 DEF Distinct
  <2> QED BY <1>1, <1>2, <2>1, <2>2
<1> QED BY <1>3, <1>4

LEMMA EmptyOrder ==
  /\ <<>> \in Seq(Nat) /\ Range(<<>>) = {} /\ Increasing(<<>>) /\ Distinct(<<>>)
  /\ \A s : Before(<<>>, s) /\ Before(s, <<>>)
BY DEF Range, Increasing, Distinct, Before

LEMMA SingleOrder ==
  ASSUME NEW x \in Nat
  PROVE  <<x>> \in Seq(Nat) /\ Range(<<x>>) = {x} /\ Increasing(<<x>>)
<1>1. DOMAIN <<x>> = {1} /\ <<x>>[1] = x /\ <<x>> \in Seq(Nat)
  OBVIOUS
<1> QED BY <1>1 DEF Range, Increasing

-----------------------------------------------------------------------------
(* The requests of a connection: those answered (a), and those forwarded   *)
(* and pending (p), in the hand of the evaluating thread (h), queued (q),  *)
(* and on the way (w).                                                     *)

Spread(p, h, q, w) == Range(p) \cup Range(h) \cup Range(q) \cup Range(w)
Chain(p, h, q, w) ==
  /\ Increasing(p) /\ Increasing(h) /\ Increasing(q) /\ Increasing(w)
  /\ Before(p, h) /\ Before(p, q) /\ Before(p, w)
  /\ Before(h, q) /\ Before(h, w) /\ Before(q, w)
Good(a, p, h, q, w) ==
  /\ {a, p, h, q, w} \subseteq Seq(Nat)
  /\ Chain(p, h, q, w) /\ Distinct(a) /\ Range(a) \cap Spread(p, h, q, w) = {}

LEMMA GoodTypes ==
  ASSUME NEW a, NEW p, NEW h, NEW q, NEW w, Good(a, p, h, q, w)
  PROVE  /\ a \in Seq(Nat) /\ p \in Seq(Nat) /\ h \in Seq(Nat) /\ q \in Seq(Nat) /\ w \in Seq(Nat)
         /\ Range(a) \subseteq Nat /\ Spread(p, h, q, w) \subseteq Nat
<1>1. \A s \in Seq(Nat) : Range(s) \subseteq Nat
  BY DEF Range
<1> QED BY <1>1 DEF Good, Spread

(* An answer is read.                                                      *)
LEMMA GoodRead ==
  ASSUME NEW a, NEW p, NEW h, NEW q, NEW w, Good(a, p, h, q, w), a # <<>>
  PROVE  Good(Tail(a), p, h, q, w) /\ Range(Tail(a)) \subseteq Range(a)
         /\ Head(a) \in Range(a) /\ Head(a) \notin Range(Tail(a)) \cup Spread(p, h, q, w)
BY GoodTypes, RangeOfTail, TailOrder DEF Good

(* Requests are dropped.                                                   *)
LEMMA GoodDrop ==
  ASSUME NEW a, NEW p, NEW h, NEW q, NEW w, Good(a, p, h, q, w)
  PROVE  /\ Good(a, <<>>, h, q, w) /\ Good(a, p, <<>>, q, w) /\ Good(a, p, h, <<>>, w)
         /\ Good(a, <<>>, <<>>, <<>>, <<>>)
         /\ Spread(p, <<>>, q, w) \subseteq Spread(p, h, q, w)
         /\ Spread(p, h, <<>>, w) \subseteq Spread(p, h, q, w)
         /\ Spread(<<>>, <<>>, <<>>, <<>>) = {}
BY GoodTypes, EmptyOrder DEF Good, Chain, Spread

(* The first pending request leaves the forwarder, answered or not.        *)
LEMMA GoodPop ==
  ASSUME NEW a, NEW p, NEW h, NEW q, NEW w, Good(a, p, h, q, w), p # <<>>
  PROVE  /\ Good(a, Tail(p), h, q, w) /\ Good(Append(a, Head(p)), Tail(p), h, q, w)
         /\ Spread(p, h, q, w) = Spread(Tail(p), h, q, w) \cup {Head(p)}
         /\ Range(Append(a, Head(p))) = Range(a) \cup {Head(p)} /\ Head(p) \in Nat
<1>1. /\ Tail(p) \in Seq(Nat) /\ Head(p) \in Nat /\ Range(p) = Range(Tail(p)) \cup {Head(p)}
      /\ Increasing(Tail(p)) /\ \A y \in Range(Tail(p)) : Head(p) < y
  BY GoodTypes, RangeOfTail, TailOrder DEF Good, Chain
<1>2. Spread(p, h, q, w) = Spread(Tail(p), h, q, w) \cup {Head(p)}
  BY <1>1 DEF Spread
<1>3. \A s : Before(p, s) => Before(Tail(p), s) /\ \A y \in Range(s) : Head(p) < y
  BY <1>1 DEF Before
<1>4. Chain(Tail(p), h, q, w)
  BY <1>1, <1>3 DEF Chain, Good
<1>5. Head(p) \notin Spread(Tail(p), h, q, w)
  <2>1. \A y \in Spread(Tail(p), h, q, w) : Head(p) < y
    BY <1>1, <1>3 DEF Spread, Good, Chain
  <2> QED BY <1>1, <2>1
<1>6. Head(p) \notin Range(a)
  BY <1>2 DEF Good
<1>7. /\ Append(a, Head(p)) \in Seq(Nat) /\ Range(Append(a, Head(p))) = Range(a) \cup {Head(p)}
      /\ Distinct(Append(a, Head(p)))
  BY <1>1, <1>6, GoodTypes, RangeOfAppend, AppendOrder DEF Good
<1> QED BY <1>1, <1>2, <1>4, <1>5, <1>7, GoodTypes DEF Good

(* The request in hand is answered, or forwarded.                          *)
LEMMA GoodHand ==
  ASSUME NEW a, NEW p, NEW x \in Nat, NEW q, NEW w, Good(a, p, <<x>>, q, w)
  PROVE  /\ Good(Append(a, x), p, <<>>, q, w) /\ Range(Append(a, x)) = Range(a) \cup {x}
         /\ Good(a, Append(p, x), <<>>, q, w)
         /\ Spread(Append(p, x), <<>>, q, w) = Spread(p, <<x>>, q, w)
         /\ x \in Spread(p, <<x>>, q, w) /\ Spread(p, <<>>, q, w) \subseteq Spread(p, <<x>>, q, w)
<1>1. Range(<<x>>) = {x} /\ Range(<<>>) = {}
  BY SingleOrder, EmptyOrder
<1>2. /\ x \in Spread(p, <<x>>, q, w) /\ x \notin Range(a)
      /\ \A y \in Range(p) : y < x
      /\ \A y \in Range(q) \cup Range(w) : x < y
  BY <1>1 DEF Good, Chain, Before, Spread
<1>3. x \notin Spread(p, <<>>, q, w)
  <2>1. \A y \in Spread(p, <<>>, q, w) : y < x \/ x < y
    BY <1>1, <1>2 DEF Spread
  <2> QED BY <2>1
<1>4. /\ Append(a, x) \in Seq(Nat) /\ Range(Append(a, x)) = Range(a) \cup {x}
      /\ Distinct(Append(a, x))
  BY <1>2, GoodTypes, RangeOfAppend, AppendOrder DEF Good
<1>5. Good(a, p, <<>>, q, w) /\ Spread(p, <<>>, q, w) \subseteq Spread(p, <<x>>, q, w)
  BY GoodDrop
<1>6. Good(Append(a, x), p, <<>>, q, w)
  BY <1>3, <1>4, <1>5 DEF Good
<1>7. /\ Append(p, x) \in Seq(Nat) /\ Range(Append(p, x)) = Range(p) \cup {x}
      /\ Increasing(Append(p, x))
  BY <1>2, GoodTypes, RangeOfAppend, AppendOrder DEF Good, Chain
<1>8. Spread(Append(p, x), <<>>, q, w) = Spread(p, <<x>>, q, w)
  BY <1>1, <1>7 DEF Spread
<1>9. Chain(Append(p, x), <<>>, q, w)
  <2>1. Before(Append(p, x), q) /\ Before(Append(p, x), w)
    BY <1>2, <1>7 DEF Before, Good, Chain
  <2> QED BY <1>7, <2>1, EmptyOrder DEF Good, Chain
<1>10. Good(a, Append(p, x), <<>>, q, w)
  BY <1>5, <1>7, <1>8, <1>9 DEF Good
<1> QED BY <1>2, <1>4, <1>5, <1>6, <1>8, <1>10

(* The first queued request is taken, answered, or dropped.                *)
LEMMA GoodQueue ==
  ASSUME NEW a, NEW p, NEW h, NEW q, NEW w, Good(a, p, h, q, w), q # <<>>
  PROVE  /\ Good(a, p, h, Tail(q), w) /\ Good(Append(a, Head(q)), p, h, Tail(q), w)
         /\ Range(Append(a, Head(q))) = Range(a) \cup {Head(q)}
         /\ h = <<>> => /\ Good(a, p, <<Head(q)>>, Tail(q), w)
                        /\ Spread(p, <<Head(q)>>, Tail(q), w) = Spread(p, h, q, w)
         /\ Spread(p, h, q, w) = Spread(p, h, Tail(q), w) \cup {Head(q)} /\ Head(q) \in Nat
<1>1. /\ Tail(q) \in Seq(Nat) /\ Head(q) \in Nat /\ Range(q) = Range(Tail(q)) \cup {Head(q)}
      /\ Increasing(Tail(q)) /\ \A y \in Range(Tail(q)) : Head(q) < y
  BY GoodTypes, RangeOfTail, TailOrder DEF Good, Chain
<1>2. Spread(p, h, q, w) = Spread(p, h, Tail(q), w) \cup {Head(q)}
  BY <1>1 DEF Spread
<1>3. /\ \A s : Before(q, s) => Before(Tail(q), s) /\ \A y \in Range(s) : Head(q) < y
      /\ \A s : Before(s, q) => Before(s, Tail(q)) /\ \A y \in Range(s) : y < Head(q)
  BY <1>1 DEF Before
<1>4. Chain(p, h, Tail(q), w)
  BY <1>1, <1>3 DEF Chain, Good
<1>5. Head(q) \notin Spread(p, h, Tail(q), w)
  <2>1. \A y \in Spread(p, h, Tail(q), w) : Head(q) < y \/ y < Head(q)
    BY <1>1, <1>3 DEF Spread, Good, Chain
  <2> QED BY <1>1, <2>1
<1>6. Head(q) \notin Range(a)
  BY <1>2 DEF Good
<1>7. /\ Append(a, Head(q)) \in Seq(Nat) /\ Range(Append(a, Head(q))) = Range(a) \cup {Head(q)}
      /\ Distinct(Append(a, Head(q)))
  BY <1>1, <1>6, GoodTypes, RangeOfAppend, AppendOrder DEF Good
<1>8. Good(a, p, h, Tail(q), w) /\ Good(Append(a, Head(q)), p, h, Tail(q), w)
  BY <1>1, <1>2, <1>4, <1>5, <1>7, GoodTypes DEF Good
<1>9. ASSUME h = <<>>
      PROVE  /\ Good(a, p, <<Head(q)>>, Tail(q), w)
             /\ Spread(p, <<Head(q)>>, Tail(q), w) = Spread(p, h, q, w)
  <2> DEFINE u == <<Head(q)>>
  <2>1. u \in Seq(Nat) /\ Range(u) = {Head(q)} /\ Increasing(u)
    BY <1>1, SingleOrder
  <2>2. Spread(p, u, Tail(q), w) = Spread(p, h, q, w)
    BY <1>1, <1>9, <2>1, EmptyOrder DEF Spread
  <2>3. Before(p, u) /\ Before(u, Tail(q)) /\ Before(u, w)
    BY <1>1, <1>3, <2>1 DEF Before, Good, Chain
  <2>4. Chain(p, u, Tail(q), w)
    BY <1>4, <2>1, <2>3 DEF Chain
  <2> QED BY <1>1, <2>1, <2>2, <2>4, GoodTypes DEF Good
<1> QED BY <1>1, <1>2, <1>7, <1>8, <1>9

(* The read loop reads a request into the queue, or drops it.              *)
LEMMA GoodFetch ==
  ASSUME NEW a, NEW p, NEW h, NEW q, NEW w, Good(a, p, h, q, w), w # <<>>
  PROVE  /\ Good(a, p, h, q, Tail(w)) /\ Good(a, p, h, Append(q, Head(w)), Tail(w))
         /\ Spread(p, h, Append(q, Head(w)), Tail(w)) = Spread(p, h, q, w)
         /\ Spread(p, h, q, Tail(w)) \subseteq Spread(p, h, q, w)
<1>1. /\ Tail(w) \in Seq(Nat) /\ Head(w) \in Nat /\ Range(w) = Range(Tail(w)) \cup {Head(w)}
      /\ Increasing(Tail(w)) /\ \A y \in Range(Tail(w)) : Head(w) < y
  BY GoodTypes, RangeOfTail, TailOrder DEF Good, Chain
<1>2. \A s : Before(s, w) => Before(s, Tail(w)) /\ \A y \in Range(s) : y < Head(w)
  BY <1>1 DEF Before
<1>3. /\ Append(q, Head(w)) \in Seq(Nat) /\ Range(Append(q, Head(w))) = Range(q) \cup {Head(w)}
      /\ Increasing(Append(q, Head(w)))
  BY <1>1, <1>2, GoodTypes, RangeOfAppend, AppendOrder DEF Good, Chain
<1>4. /\ Spread(p, h, Append(q, Head(w)), Tail(w)) = Spread(p, h, q, w)
      /\ Spread(p, h, q, Tail(w)) \subseteq Spread(p, h, q, w)
  BY <1>1, <1>3 DEF Spread
<1>5. Chain(p, h, q, Tail(w))
  BY <1>1, <1>2 DEF Good, Chain
<1>6. Chain(p, h, Append(q, Head(w)), Tail(w))
  <2>1. /\ Before(p, Append(q, Head(w))) /\ Before(h, Append(q, Head(w)))
        /\ Before(Append(q, Head(w)), Tail(w))
    BY <1>1, <1>2, <1>3, <1>5 DEF Good, Chain, Before
  <2> QED BY <1>3, <1>5, <2>1 DEF Chain
<1> QED BY <1>1, <1>3, <1>4, <1>5, <1>6, GoodTypes DEF Good

(* A new request is sent: its id is above all of the connection.           *)
LEMMA GoodSend ==
  ASSUME NEW a, NEW p, NEW h, NEW q, NEW w, Good(a, p, h, q, w), NEW x \in Nat,
         \A y \in Range(a) \cup Spread(p, h, q, w) : y < x
  PROVE  /\ Good(a, p, h, q, Append(w, x))
         /\ Spread(p, h, q, Append(w, x)) = Spread(p, h, q, w) \cup {x}
<1>1. /\ Append(w, x) \in Seq(Nat) /\ Range(Append(w, x)) = Range(w) \cup {x}
      /\ Increasing(Append(w, x))
  BY GoodTypes, RangeOfAppend, AppendOrder DEF Good, Chain, Spread
<1>2. Spread(p, h, q, Append(w, x)) = Spread(p, h, q, w) \cup {x}
  BY <1>1 DEF Spread
<1>3. Before(p, Append(w, x)) /\ Before(h, Append(w, x)) /\ Before(q, Append(w, x))
  BY <1>1 DEF Good, Chain, Before, Spread
<1>4. Chain(p, h, q, Append(w, x))
  BY <1>1, <1>3 DEF Good, Chain
<1>5. x \notin Range(a)
  BY GoodTypes
<1> QED BY <1>1, <1>2, <1>4, <1>5 DEF Good

-----------------------------------------------------------------------------
(* The ids of jobs and of results.                                         *)

LEMMA SameSequence ==
  ASSUME NEW s \in Seq(Nat), NEW t \in Seq(Nat), Len(s) = Len(t),
         \A i \in 1 .. Len(s) : s[i] = t[i]
  PROVE  s = t
OBVIOUS

LEMMA IdsTyped ==
  ASSUME NEW S, \A x \in S : x.id \in Nat, NEW s \in Seq(S)
  PROVE  /\ Ids(s) \in Seq(Nat) /\ Len(Ids(s)) = Len(s)
         /\ \A i \in 1 .. Len(s) : Ids(s)[i] = s[i].id
<1>1. DOMAIN s = 1 .. Len(s) /\ Len(s) \in Nat /\ \A i \in 1 .. Len(s) : s[i].id \in Nat
  OBVIOUS
<1>2. Ids(s) = [i \in 1 .. Len(s) |-> s[i].id]
  BY <1>1 DEF Ids
<1>3. Ids(s) \in [1 .. Len(s) -> Nat]
  BY <1>1, <1>2
<1> QED BY <1>1, <1>2, <1>3, IsASeq, LenProperties

LEMMA IdsOf ==
  ASSUME NEW S, \A x \in S : x.id \in Nat, NEW s \in Seq(S)
  PROVE  /\ Ids(s) \in Seq(Nat)
         /\ Ids(s) = <<>> <=> s = <<>>
         /\ \A x \in S : Ids(Append(s, x)) = Append(Ids(s), x.id)
         /\ s # <<>> => Ids(Tail(s)) = Tail(Ids(s)) /\ Head(Ids(s)) = Head(s).id
<1>1. /\ Ids(s) \in Seq(Nat) /\ Len(Ids(s)) = Len(s) /\ Len(s) \in Nat
      /\ \A i \in 1 .. Len(s) : Ids(s)[i] = s[i].id
  BY IdsTyped
<1>2. Ids(s) = <<>> <=> s = <<>>
  <2>1. Ids(s) = <<>> <=> Len(Ids(s)) = 0
    BY <1>1
  <2>2. s = <<>> <=> Len(s) = 0
    OBVIOUS
  <2> QED BY <1>1, <2>1, <2>2
<1>3. ASSUME NEW x \in S PROVE Ids(Append(s, x)) = Append(Ids(s), x.id)
  <2> DEFINE t == Append(s, x)
             u == Append(Ids(s), x.id)
  <2>1. t \in Seq(S) /\ Len(t) = Len(s) + 1 /\ t[Len(s) + 1] = x
        /\ \A i \in 1 .. Len(s) : t[i] = s[i]
    OBVIOUS
  <2>2. u \in Seq(Nat) /\ Len(u) = Len(s) + 1 /\ u[Len(s) + 1] = x.id
        /\ \A i \in 1 .. Len(s) : u[i] = s[i].id
    BY <1>1
  <2>3. Ids(t) \in Seq(Nat) /\ Len(Ids(t)) = Len(t) /\ \A i \in 1 .. Len(t) : Ids(t)[i] = t[i].id
    BY <2>1, IdsTyped
  <2>4. \A i \in 1 .. Len(s) + 1 : i \in 1 .. Len(s) \/ i = Len(s) + 1
    BY <1>1
  <2> HIDE DEF t, u
  <2>5. \A i \in 1 .. Len(Ids(t)) : Ids(t)[i] = u[i]
    BY <2>1, <2>2, <2>3, <2>4
  <2>6. Ids(t) = u
    BY <2>1, <2>2, <2>3, <2>5, SameSequence
  <2> QED BY <2>6 DEF t, u
<1>4. ASSUME s # <<>> PROVE Ids(Tail(s)) = Tail(Ids(s)) /\ Head(Ids(s)) = Head(s).id
  <2> DEFINE t == Tail(s)
             u == Tail(Ids(s))
  <2>1. t \in Seq(S) /\ Len(t) = Len(s) - 1 /\ Len(s) > 0 /\ Head(s) = s[1]
        /\ \A i \in 1 .. Len(t) : t[i] = s[i + 1]
    BY <1>4
  <2>2. u \in Seq(Nat) /\ Len(u) = Len(s) - 1 /\ Head(Ids(s)) = Ids(s)[1]
        /\ \A i \in 1 .. Len(u) : u[i] = Ids(s)[i + 1]
    BY <1>1, <1>2, <1>4
  <2>3. Ids(t) \in Seq(Nat) /\ Len(Ids(t)) = Len(t) /\ \A i \in 1 .. Len(t) : Ids(t)[i] = t[i].id
    BY <2>1, IdsTyped
  <2>4. \A i \in 1 .. Len(s) - 1 : i + 1 \in 1 .. Len(s)
    BY <1>1
  <2> HIDE DEF t, u
  <2>5. \A i \in 1 .. Len(Ids(t)) : Ids(t)[i] = u[i]
    <3>1. TAKE i \in 1 .. Len(Ids(t))
    <3>2. i \in 1 .. Len(t) /\ i \in 1 .. Len(u) /\ Ids(t)[i] = t[i].id
      BY <2>1, <2>2, <2>3
    <3>3. i + 1 \in 1 .. Len(s)
      BY <1>1, <2>1, <3>2
    <3>4. t[i] = s[i + 1] /\ u[i] = Ids(s)[i + 1] /\ Ids(s)[i + 1] = s[i + 1].id
      BY <1>1, <2>1, <2>2, <3>2, <3>3
    <3> QED BY <3>2, <3>4
  <2>6. Ids(t) = u
    BY <2>1, <2>2, <2>3, <2>5, SameSequence
  <2>7. Head(Ids(s)) = Head(s).id
    BY <1>1, <2>1, <2>2
  <2> QED BY <2>6, <2>7 DEF t, u
<1> QED BY <1>1, <1>2, <1>3, <1>4

LEMMA JobIds ==
  /\ \A x \in Jobs : x.id \in Nat
  /\ \A x \in Results : x.id \in Nat /\ x.ok \in BOOLEAN
  /\ Ids(<<>>) = <<>>
  /\ \A x : Ids(<<x>>) = <<x.id>>
<1>1. Ids(<<>>) = <<>>
  BY DEF Ids
<1>2. ASSUME NEW x PROVE Ids(<<x>>) = <<x.id>>
  BY DEF Ids
<1> QED BY <1>1, <1>2 DEF Jobs, Results

-----------------------------------------------------------------------------
(* The invariant of the requests on their way.                             *)

Group(k) == Good(Ids(k.res), k.pend, Ids(k.hand), Ids(k.queue), Ids(k.work))
All(k) == Range(Ids(k.res)) \cup Spread(k.pend, Ids(k.hand), Ids(k.queue), Ids(k.work))
Line(k) == Ids(k.res) \o (k.pend \o (Ids(k.hand) \o (Ids(k.queue) \o Ids(k.work))))
Works(k) == k.near /\ k.far /\ k.rd /\ k.ev

(* Each id is in one place of a connection, and they are in order.         *)
Each(k) ==
  /\ Group(k)
  /\ Len(k.hand) <= 1
  /\ k.pend # <<>> => k.down # 0 /\ HasNext(k.w)

(* An error report that is not for the request pending at its place.       *)
Early(p, m) == \E i \in DOMAIN m.res : i \in DOMAIN p /\ ~m.res[i].ok /\ m.res[i].id # p[i]

(* A connection k and the one m that its forwarder uses.                   *)
Pair(k, m) ==
  ~k.closing =>
    /\ All(m) \subseteq Range(k.pend)
    /\ k.relay /\ Works(m) => k.pend = Line(m) \/ Early(k.pend, m)

Rows(cs) == \A c \in Conns : Each(cs[c])
Pairs(cs) == \A c \in Conns : cs[c].down # 0 => Pair(cs[c], cs[cs[c].down])
(* A forwarder's connection is its own.                                    *)
Downs(cs, held) ==
  /\ \A c \in Conns : cs[c].down # 0 => cs[c].down \notin held /\ cs[c].down # c
  /\ \A c, b \in Conns : cs[c].down # 0 /\ cs[c].down = cs[b].down => c = b
Under(cs, x) == \A c \in Conns : \A y \in All(cs[c]) : y < x
Ord(cs, held, x) == cs \in Net /\ Rows(cs) /\ Pairs(cs) /\ Downs(cs, held) /\ Under(cs, x)

(* The ids of the sender's slots are above all that was sent.              *)
Bound == IF snd.slots = <<>> THEN next ELSE snd.slots[1].id
SlotInv ==
  /\ Increasing(Ids(snd.slots))
  /\ \A y \in Range(Ids(snd.slots)) : y < next
  /\ snd.slots # <<>> => call.pc \in {"produce", "join"}
OrderInv == Ord(conn, Held, Bound) /\ SlotInv

-----------------------------------------------------------------------------
(* What a step may do to a connection that forwards, and to one that is    *)
(* forwarded to, so that the pair stays in order.                          *)

UpRole(k2, k) ==
  k2.closing \/ (~k.closing /\ k2.pend = k.pend /\ (k2.relay => k.relay))
DownRole(m2, m) ==
  /\ All(m2) \subseteq All(m)
  /\ Works(m2) =>
       /\ Works(m)
       /\ \A i \in DOMAIN m.res : i \in DOMAIN m2.res /\ m2.res[i] = m.res[i]
       /\ Line(m2) = Line(m) \/ Early(Line(m), m2)

LEMMA PairKept ==
  ASSUME NEW k, NEW k2, NEW m, NEW m2, Pair(k, m), UpRole(k2, k), DownRole(m2, m)
  PROVE  Pair(k2, m2)
<1> SUFFICES ASSUME ~k2.closing
             PROVE  /\ All(m2) \subseteq Range(k2.pend)
                    /\ k2.relay /\ Works(m2) => k2.pend = Line(m2) \/ Early(k2.pend, m2)
  BY DEF Pair
<1>1. ~k.closing /\ k2.pend = k.pend /\ (k2.relay => k.relay)
  BY DEF UpRole
<1>2. All(m2) \subseteq Range(k2.pend)
  BY <1>1 DEF Pair, DownRole
<1>3. ASSUME k2.relay, Works(m2) PROVE k2.pend = Line(m2) \/ Early(k2.pend, m2)
  <2>1. CASE k.pend = Line(m)
    BY <1>1, <1>3, <2>1 DEF DownRole
  <2>2. CASE Early(k.pend, m)
    <3>1. Early(k.pend, m2)
      BY <1>3, <2>2 DEF Early, DownRole
    <3> QED BY <1>1, <3>1
  <2> QED BY <1>1, <1>3, <2>1, <2>2 DEF Pair, DownRole
<1> QED BY <1>2, <1>3

(* Any step that goes by these rules.                                      *)
LEMMA Changes ==
  ASSUME NEW cs \in Net, NEW ds \in Net, NEW held, Pairs(cs), Downs(cs, held), NEW x,
         Rows(ds), Under(ds, x),
         \A c \in Conns : ds[c].down # 0 =>
           /\ ds[c].down = cs[c].down
           /\ \/ ds[c].closing
              \/ Pair(ds[c], ds[ds[c].down])
              \/ UpRole(ds[c], cs[c]) /\ DownRole(ds[ds[c].down], cs[ds[c].down])
  PROVE  Ord(ds, held, x)
<1>1. Downs(ds, held)
  BY DEF Downs
<1>2. Pairs(ds)
  <2> SUFFICES ASSUME NEW c \in Conns, ds[c].down # 0 PROVE Pair(ds[c], ds[ds[c].down])
    BY DEF Pairs
  <2>1. CASE ds[c].closing
    BY <2>1 DEF Pair
  <2>2. CASE UpRole(ds[c], cs[c]) /\ DownRole(ds[ds[c].down], cs[ds[c].down])
    <3>1. Pair(cs[c], cs[ds[c].down])
      BY DEF Pairs
    <3> QED BY <2>2, <3>1, PairKept
  <2> QED BY <2>1, <2>2
<1> QED BY <1>1, <1>2 DEF Ord

(* One connection changes.                                                 *)
LEMMA OneChange ==
  ASSUME NEW cs, NEW held, NEW x, Ord(cs, held, x), NEW c \in Conns, NEW k \in Links,
         Each(k), All(k) \subseteq All(cs[c]),
         k.down # 0 => k.down = cs[c].down /\ UpRole(k, cs[c]),
         DownRole(k, cs[c]) \/ \A b \in Conns : cs[b].down = c => cs[b].closing
  PROVE  Ord([cs EXCEPT ![c] = k], held, x)
<1> DEFINE ds == [cs EXCEPT ![c] = k]
<1>1. cs \in Net /\ ds \in Net /\ Pairs(cs) /\ Downs(cs, held) /\ Rows(cs) /\ Under(cs, x)
  BY DEF Ord, Net
<1>2. ds[c] = k /\ \A b \in Conns : b # c => ds[b] = cs[b]
  BY <1>1 DEF Net
<1> HIDE DEF ds
<1>3. Rows(ds) /\ Under(ds, x)
  BY <1>1, <1>2 DEF Rows, Under
<1>4. ASSUME NEW b \in Conns, ds[b].down # 0
      PROVE  /\ ds[b].down = cs[b].down
             /\ \/ ds[b].closing
                \/ Pair(ds[b], ds[ds[b].down])
                \/ UpRole(ds[b], cs[b]) /\ DownRole(ds[ds[b].down], cs[ds[b].down])
  <2>1. \A m : DownRole(m, m) /\ (m.closing \/ UpRole(m, m))
    BY DEF DownRole, UpRole
  <2>2. ds[b].down = cs[b].down /\ (ds[b].closing \/ UpRole(ds[b], cs[b]))
    BY <1>2, <1>4, <2>1
  <2>3. ds[b].down \in Conns /\ ds[b].down # b
    BY <1>1, <1>4, <2>2, LinkParts DEF Downs
  <2>4. CASE ds[b].down # c
    BY <1>2, <2>1, <2>2, <2>3, <2>4
  <2>5. CASE ds[b].down = c /\ DownRole(k, cs[c])
    BY <1>2, <2>2, <2>5
  <2>6. CASE ds[b].down = c /\ cs[b].closing
    BY <1>2, <2>2, <2>3, <2>6
  <2> QED BY <2>2, <2>4, <2>5, <2>6
<1>5. Ord(ds, held, x)
  BY <1>1, <1>3, <1>4, Changes
<1> QED BY <1>5 DEF ds

LEMMA Push ==
  ASSUME NEW a \in Seq(Nat), NEW x \in Nat, NEW t \in Seq(Nat)
  PROVE  Append(a, x) \o t = a \o (<<x>> \o t) /\ <<x>> \o t \in Seq(Nat)
<1>1. <<x>> \in Seq(Nat) /\ Append(a, x) = a \o <<x>>
  BY AppendIsConcat
<1> QED BY <1>1, ConcatAssociative, ConcatProperties

LEMMA Uncons ==
  ASSUME NEW q \in Seq(Nat), NEW t \in Seq(Nat), q # <<>>
  PROVE  q \o t = <<Head(q)>> \o (Tail(q) \o t)
<1>1. Tail(q) \in Seq(Nat) /\ Head(q) \in Nat
  OBVIOUS
<1>2. <<Head(q)>> \in Seq(Nat) /\ q = <<Head(q)>> \o Tail(q)
  OBVIOUS
<1> QED BY <1>1, <1>2, ConcatAssociative

LEMMA NothingBefore == ASSUME NEW t \in Seq(Nat) PROVE <<>> \o t = t
OBVIOUS

LEMMA AfterAnswers ==
  ASSUME NEW a \in Seq(Nat), NEW p \in Seq(Nat), NEW t \in Seq(Nat), p # <<>>
  PROVE  LET s == a \o (p \o t)
         IN Len(a) + 1 \in DOMAIN s /\ s[Len(a) + 1] = Head(p)
<1>1. p \o t \in Seq(Nat) /\ Len(p \o t) = Len(p) + Len(t) /\ Len(p) > 0 /\ (p \o t)[1] = p[1]
  OBVIOUS
<1>2. Head(p) = p[1]
  OBVIOUS
<1> DEFINE u == p \o t
<1>3. u \in Seq(Nat) /\ Len(u) > 0 /\ u[1] = Head(p)
  BY <1>1, <1>2
<1> HIDE DEF u
<1>4. Len(a) + 1 \in DOMAIN (a \o u) /\ (a \o u)[Len(a) + 1] = u[1]
  BY <1>3
<1> QED BY <1>3, <1>4 DEF u

LEMMA LineTyped ==
  ASSUME NEW k \in Links
  PROVE  /\ Ids(k.res) \in Seq(Nat) /\ k.pend \in Seq(Nat) /\ Ids(k.hand) \in Seq(Nat)
         /\ Ids(k.queue) \in Seq(Nat) /\ Ids(k.work) \in Seq(Nat)
         /\ Ids(k.queue) \o Ids(k.work) \in Seq(Nat)
         /\ Ids(k.hand) \o (Ids(k.queue) \o Ids(k.work)) \in Seq(Nat)
         /\ k.pend \o (Ids(k.hand) \o (Ids(k.queue) \o Ids(k.work))) \in Seq(Nat)
         /\ Line(k) \in Seq(Nat)
         /\ Len(Ids(k.res)) = Len(k.res) /\ k.res \in Seq(Results)
         /\ k.hand \in Seq(Jobs) /\ k.queue \in Seq(Jobs) /\ k.work \in Seq(Jobs)
<1>1. /\ k.res \in Seq(Results) /\ k.pend \in Seq(Nat)
      /\ k.hand \in Seq(Jobs) /\ k.queue \in Seq(Jobs) /\ k.work \in Seq(Jobs)
  BY DEF Links, UpTo
<1>2. /\ Ids(k.res) \in Seq(Nat) /\ Ids(k.hand) \in Seq(Nat)
      /\ Ids(k.queue) \in Seq(Nat) /\ Ids(k.work) \in Seq(Nat)
      /\ Len(Ids(k.res)) = Len(k.res)
  BY <1>1, JobIds, IdsTyped
<1>3. Ids(k.queue) \o Ids(k.work) \in Seq(Nat)
  BY <1>2, ConcatProperties
<1>4. Ids(k.hand) \o (Ids(k.queue) \o Ids(k.work)) \in Seq(Nat)
  BY <1>2, <1>3, ConcatProperties
<1>5. k.pend \o (Ids(k.hand) \o (Ids(k.queue) \o Ids(k.work))) \in Seq(Nat)
  BY <1>1, <1>4, ConcatProperties
<1>6. Line(k) \in Seq(Nat)
  BY <1>2, <1>5, ConcatProperties DEF Line
<1> QED BY <1>1, <1>2, <1>3, <1>4, <1>5, <1>6

(* A step that leaves the requests where they are.                         *)
SameIds(k, m) ==
  /\ k.res = m.res /\ k.pend = m.pend /\ k.hand = m.hand /\ k.queue = m.queue /\ k.work = m.work
  /\ k.down = m.down /\ k.w = m.w

LEMMA SameEach ==
  ASSUME NEW k, NEW m, SameIds(k, m)
  PROVE  /\ Each(m) => Each(k)
         /\ All(k) = All(m)
         /\ (Works(k) => Works(m)) => DownRole(k, m)
<1>1. (Each(m) => Each(k)) /\ All(k) = All(m) /\ Line(k) = Line(m)
  BY DEF SameIds, Each, Group, All, Line
<1> QED BY <1>1 DEF DownRole, SameIds

LEMMA PlainChange ==
  ASSUME NEW cs, NEW held, NEW x, Ord(cs, held, x), NEW c \in Conns, NEW k \in Links,
         SameIds(k, cs[c]), Works(k) => Works(cs[c]), k.relay => cs[c].relay,
         k.closing = TRUE \/ k.closing = cs[c].closing
  PROVE  Ord([cs EXCEPT ![c] = k], held, x)
<1>1. Each(cs[c]) /\ cs[c] \in Links
  BY DEF Ord, Rows, Net
<1>2. Each(k) /\ All(k) = All(cs[c]) /\ DownRole(k, cs[c])
  BY <1>1, SameEach
<1>3. k.down = cs[c].down /\ UpRole(k, cs[c])
  BY <1>1 DEF SameIds, UpRole
<1> QED BY <1>2, <1>3, OneChange

LEMMA FieldsKept ==
  ASSUME NEW m \in Links, NEW v
  PROVE  /\ LET k == [m EXCEPT !.near = v]
            IN SameIds(k, m) /\ k.relay = m.relay /\ k.closing = m.closing /\ (~v => ~Works(k))
         /\ LET k == [m EXCEPT !.far = v]
            IN SameIds(k, m) /\ k.relay = m.relay /\ k.closing = m.closing /\ (~v => ~Works(k))
         /\ LET k == [m EXCEPT !.closed = v]
            IN SameIds(k, m) /\ k.relay = m.relay /\ k.closing = m.closing /\ (Works(k) => Works(m))
         /\ LET k == [m EXCEPT !.rd = v]
            IN SameIds(k, m) /\ k.relay = m.relay /\ k.closing = m.closing /\ (~v => ~Works(k))
         /\ LET k == [m EXCEPT !.ev = v]
            IN SameIds(k, m) /\ k.relay = m.relay /\ k.closing = m.closing /\ (~v => ~Works(k))
         /\ LET k == [m EXCEPT !.closing = v]
            IN SameIds(k, m) /\ k.relay = m.relay /\ k.closing = v /\ (Works(k) => Works(m))
<1>1. m \in [w : Workers \cup {0}, near : BOOLEAN, far : BOOLEAN, work : Seq(Jobs),
             res : Seq(Results), main : BOOLEAN, rd : BOOLEAN, ev : BOOLEAN,
             queue : UpTo(PrefetchDepth, Jobs), closed : BOOLEAN, hand : Seq(Jobs),
             down : Conns \cup {0}, relay : BOOLEAN, pend : UpTo(ForwardDepth, Nat),
             closing : BOOLEAN]
  BY DEF Links
<1> QED BY ONLY <1>1 DEF SameIds, Works

LEMMA ShutOrder ==
  ASSUME NEW cs, NEW held, NEW x, Ord(cs, held, x), NEW c \in Conns
  PROVE  Ord(Shut(cs, c), held, x) /\ Ord(ShutFar(cs, c), held, x) /\ Ord(Finish(cs, c), held, x)
         /\ Ord([cs EXCEPT ![c].rd = FALSE], held, x)
         /\ Ord([cs EXCEPT ![c].ev = FALSE], held, x)
         /\ Ord([cs EXCEPT ![c].closing = TRUE], held, x)
<1>1. cs \in Net /\ cs[c] \in Links
  BY DEF Ord, Net
<1>2. Ord(Shut(cs, c), held, x)
  <2> DEFINE k == [cs[c] EXCEPT !.near = FALSE]
  <2>1. k \in Links
    BY <1>1, FieldTyped
  <2>2. SameIds(k, cs[c]) /\ k.relay = cs[c].relay /\ k.closing = cs[c].closing /\ ~Works(k)
    BY <1>1, FieldsKept
  <2>3. Ord([cs EXCEPT ![c] = k], held, x)
    BY <2>1, <2>2, PlainChange
  <2> QED BY <2>3 DEF Shut
<1>3. Ord(ShutFar(cs, c), held, x)
  <2> DEFINE k == [cs[c] EXCEPT !.far = FALSE]
  <2>1. k \in Links
    BY <1>1, FieldTyped
  <2>2. SameIds(k, cs[c]) /\ k.relay = cs[c].relay /\ k.closing = cs[c].closing /\ ~Works(k)
    BY <1>1, FieldsKept
  <2>3. Ord([cs EXCEPT ![c] = k], held, x)
    BY <2>1, <2>2, PlainChange
  <2> QED BY <2>3 DEF ShutFar
<1>4. Ord(Finish(cs, c), held, x)
  <2> DEFINE k == [cs[c] EXCEPT !.closed = TRUE]
  <2>1. k \in Links
    BY <1>1, FieldTyped
  <2>2. SameIds(k, cs[c]) /\ k.relay = cs[c].relay /\ k.closing = cs[c].closing /\ (Works(k) => Works(cs[c]))
    BY <1>1, FieldsKept
  <2>3. Ord([cs EXCEPT ![c] = k], held, x)
    BY <2>1, <2>2, PlainChange
  <2> QED BY <2>3 DEF Finish
<1>5. Ord([cs EXCEPT ![c].rd = FALSE], held, x)
  <2> DEFINE k == [cs[c] EXCEPT !.rd = FALSE]
  <2>1. k \in Links
    BY <1>1, FieldTyped
  <2>2. SameIds(k, cs[c]) /\ k.relay = cs[c].relay /\ k.closing = cs[c].closing /\ ~Works(k)
    BY <1>1, FieldsKept
  <2>3. Ord([cs EXCEPT ![c] = k], held, x)
    BY <2>1, <2>2, PlainChange
  <2> QED BY <2>3
<1>6. Ord([cs EXCEPT ![c].ev = FALSE], held, x)
  <2> DEFINE k == [cs[c] EXCEPT !.ev = FALSE]
  <2>1. k \in Links
    BY <1>1, FieldTyped
  <2>2. SameIds(k, cs[c]) /\ k.relay = cs[c].relay /\ k.closing = cs[c].closing /\ ~Works(k)
    BY <1>1, FieldsKept
  <2>3. Ord([cs EXCEPT ![c] = k], held, x)
    BY <2>1, <2>2, PlainChange
  <2> QED BY <2>3
<1>7. Ord([cs EXCEPT ![c].closing = TRUE], held, x)
  <2> DEFINE k == [cs[c] EXCEPT !.closing = TRUE]
  <2>1. k \in Links
    BY <1>1, FieldTyped
  <2>2. SameIds(k, cs[c]) /\ k.relay = cs[c].relay /\ k.closing = TRUE /\ (Works(k) => Works(cs[c]))
    BY <1>1, FieldsKept
  <2>3. Ord([cs EXCEPT ![c] = k], held, x)
    BY <2>1, <2>2, PlainChange
  <2> QED BY <2>3
<1> QED BY <1>2, <1>3, <1>4, <1>5, <1>6, <1>7

(* A free connection is forgotten.                                         *)
LEMMA EmptyEach ==
  ASSUME NEW k, k.res = <<>>, k.pend = <<>>, k.hand = <<>>, k.queue = <<>>, k.work = <<>>
  PROVE  Each(k) /\ All(k) = {} /\ Line(k) = <<>>
<1>1. Group(k)
  BY EmptyOrder, JobIds DEF Group, Good, Chain, Spread
<1>2. All(k) = {}
  BY EmptyOrder, JobIds DEF All, Spread
<1>3. Line(k) = <<>>
  BY EmptyOrder, JobIds, NothingBefore DEF Line
<1> QED BY <1>1, <1>2, <1>3 DEF Each

LEMMA KeepOrder ==
  ASSUME NEW cs, NEW held, NEW x, Ord(cs, held, x), NEW held2, Keep(cs, held2),
         held2 \subseteq held \cup {0}
  PROVE  Ord(conn', held2, x)
<1>1. cs \in Net /\ Pairs(cs) /\ Downs(cs, held) /\ Rows(cs) /\ Under(cs, x)
  BY DEF Ord
<1>2. conn' \in Net
  BY <1>1, KeepTyped
<1>3. Downs(cs, held2)
  BY <1>1 DEF Downs
<1>4. /\ \A c \in Conns : conn'[c] = IF Idle(cs, c, held2) THEN Unused ELSE cs[c]
      /\ Unused.down = 0 /\ Each(Unused) /\ All(Unused) = {}
      /\ \A c \in Conns : cs[c].down \in Conns \cup {0}
  BY <1>1, EmptyEach, LinkParts DEF Keep, Unused
<1>5. Rows(conn') /\ Under(conn', x)
  BY <1>1, <1>4 DEF Rows, Under
<1>6. ASSUME NEW c \in Conns, conn'[c].down # 0
      PROVE  conn'[c] = cs[c] /\ conn'[conn'[c].down] = cs[cs[c].down]
  <2>1. conn'[c] = cs[c]
    BY <1>4, <1>6
  <2>2. cs[c].down \in Conns /\ ~Idle(cs, cs[c].down, held2)
    BY <1>4, <1>6, <2>1 DEF Idle
  <2> QED BY <1>4, <2>1, <2>2
<1>7. \A c \in Conns : conn'[c].down # 0 =>
        conn'[c].down = cs[c].down /\ Pair(conn'[c], conn'[conn'[c].down])
  BY <1>1, <1>6 DEF Pairs
<1> QED BY <1>1, <1>2, <1>3, <1>5, <1>7, Changes

-----------------------------------------------------------------------------
(* Removing a request from a connection, answered or not.                  *)

(* The request that the evaluating thread takes leaves: it was in its hand *)
(* or, with nothing in hand, the first in the queue.                       *)
Leaves(k, m, x) ==
  /\ k.pend = m.pend /\ k.work = m.work /\ k.down = m.down /\ k.w = m.w
  /\ k.hand = <<>>
  /\ \/ m.hand = <<>> /\ m.queue # <<>> /\ x = Head(m.queue).id /\ k.queue = Tail(m.queue)
     \/ m.hand # <<>> /\ x = m.hand[1].id /\ k.queue = m.queue

LEMMA LeavesGood ==
  ASSUME NEW m \in Links, NEW k, NEW x, Each(m), Leaves(k, m, x)
  PROVE  /\ x \in Nat /\ x \in All(m)
         /\ Good(Ids(m.res), k.pend, Ids(k.hand), Ids(k.queue), Ids(k.work))
         /\ Good(Append(Ids(m.res), x), k.pend, Ids(k.hand), Ids(k.queue), Ids(k.work))
         /\ Range(Append(Ids(m.res), x)) = Range(Ids(m.res)) \cup {x}
         /\ Spread(k.pend, Ids(k.hand), Ids(k.queue), Ids(k.work))
              \subseteq Spread(m.pend, Ids(m.hand), Ids(m.queue), Ids(m.work))
         /\ m.pend = <<>> =>
              Ids(m.hand) \o (Ids(m.queue) \o Ids(m.work))
                = <<x>> \o (Ids(k.hand) \o (Ids(k.queue) \o Ids(k.work)))
<1> DEFINE a == Ids(m.res)
           p == m.pend
           h == Ids(m.hand)
           q == Ids(m.queue)
           w == Ids(m.work)
<1>1. Good(a, p, h, q, w) /\ Len(m.hand) <= 1
  BY DEF Each, Group
<1>2. /\ a \in Seq(Nat) /\ p \in Seq(Nat) /\ h \in Seq(Nat) /\ q \in Seq(Nat) /\ w \in Seq(Nat)
      /\ q \o w \in Seq(Nat) /\ m.hand \in Seq(Jobs) /\ m.queue \in Seq(Jobs)
  BY LineTyped
<1>3. k.pend = p /\ Ids(k.work) = w /\ Ids(k.hand) = <<>>
  BY JobIds DEF Leaves
<1>4. All(m) = Range(a) \cup Spread(p, h, q, w)
  BY DEF All
<1>5. CASE m.hand = <<>>
  <2>1. m.queue # <<>> /\ x = Head(m.queue).id /\ k.queue = Tail(m.queue)
    BY <1>5 DEF Leaves
  <2>2. h = <<>> /\ q # <<>> /\ x = Head(q) /\ Ids(k.queue) = Tail(q)
    BY <1>2, <1>5, <2>1, JobIds, IdsOf
  <2>3. q \o w = <<x>> \o (Tail(q) \o w) /\ Tail(q) \in Seq(Nat) /\ x \in Nat
    BY <1>2, <2>2, Uncons, RangeOfTail
  <2>4. <<>> \o (q \o w) = q \o w /\ <<>> \o (Tail(q) \o w) = Tail(q) \o w
    <3>1. Tail(q) \o w \in Seq(Nat)
      BY <1>2, <2>3, ConcatProperties
    <3> QED BY <1>2, <3>1, NothingBefore
  <2> HIDE DEF a, p, h, q, w
  <2> DEFINE y == Head(q)
  <2>8. /\ Good(a, p, h, Tail(q), w) /\ Good(Append(a, y), p, h, Tail(q), w)
        /\ Range(Append(a, y)) = Range(a) \cup {y}
        /\ Spread(p, h, q, w) = Spread(p, h, Tail(q), w) \cup {y}
    <3>1. Good(a, p, h, q, w) /\ q # <<>>
      BY <1>1, <2>2
    <3>2. Good(a, p, h, Tail(q), w)
      BY ONLY <3>1, GoodQueue
    <3>3. Good(Append(a, Head(q)), p, h, Tail(q), w)
      BY ONLY <3>1, GoodQueue
    <3>4. Range(Append(a, Head(q))) = Range(a) \cup {Head(q)}
      BY <1>2, <2>2, <2>3, RangeOfAppend
    <3>5. Spread(p, h, q, w) = Spread(p, h, Tail(q), w) \cup {Head(q)}
      <4>1. Range(q) = Range(Tail(q)) \cup {Head(q)}
        BY <1>2, <2>2, RangeOfTail
      <4> QED BY <4>1 DEF Spread
    <3> QED BY ONLY <3>2, <3>3, <3>4, <3>5
  <2>5. /\ Good(a, p, h, Tail(q), w) /\ Good(Append(a, x), p, h, Tail(q), w)
        /\ Range(Append(a, x)) = Range(a) \cup {x}
        /\ Spread(p, h, q, w) = Spread(p, h, Tail(q), w) \cup {x}
    <3>1. x = y
      BY <2>2
    <3> HIDE DEF y
    <3> QED BY ONLY <2>8, <3>1
  <2>6. h \o (q \o w) = <<x>> \o (<<>> \o (Tail(q) \o w))
    BY <2>2, <2>3, <2>4
  <2>7. x \in Range(a) \cup Spread(p, h, q, w)
    BY <2>5
  <2> QED BY <1>3, <1>4, <2>2, <2>3, <2>5, <2>6, <2>7 DEF a, p, h, q, w
<1>6. CASE m.hand # <<>>
  <2>1. x = m.hand[1].id /\ k.queue = m.queue /\ m.hand = <<m.hand[1]>>
    BY <1>1, <1>2, <1>6 DEF Leaves
  <2>2. h = <<x>> /\ Ids(k.queue) = q
    BY <2>1, JobIds
  <2>3. x \in Nat
    BY <1>2, <1>6, <2>1, JobIds
  <2>4. <<>> \o (q \o w) = q \o w
    BY <1>2, NothingBefore
  <2> HIDE DEF a, p, h, q, w
  <2>5. /\ Good(Append(a, x), p, <<>>, q, w) /\ Range(Append(a, x)) = Range(a) \cup {x}
        /\ x \in Spread(p, h, q, w) /\ Spread(p, <<>>, q, w) \subseteq Spread(p, h, q, w)
    BY <1>1, <2>2, <2>3, GoodHand
  <2>6. Good(a, p, <<>>, q, w)
    BY <1>1, GoodDrop
  <2>7. h \o (q \o w) = <<x>> \o (<<>> \o (q \o w))
    BY <2>2, <2>4
  <2> QED BY <1>3, <1>4, <2>2, <2>3, <2>5, <2>6, <2>7 DEF a, p, h, q, w
<1> QED BY <1>5, <1>6

(* It is answered: a result only when nothing is pending, an error report  *)
(* perhaps too early.                                                      *)
LEMMA Answered ==
  ASSUME NEW m \in Links, NEW k \in Links, NEW r \in Results, Each(m), Leaves(k, m, r.id),
         k.res = Append(m.res, r), r.ok => m.pend = <<>>, Works(k) => Works(m)
  PROVE  Each(k) /\ All(k) \subseteq All(m) /\ DownRole(k, m)
<1> DEFINE t == Ids(k.hand) \o (Ids(k.queue) \o Ids(k.work))
           u == Ids(m.hand) \o (Ids(m.queue) \o Ids(m.work))
<1>1. Ids(k.res) = Append(Ids(m.res), r.id)
  <2>1. m.res \in Seq(Results) /\ \A x \in Results : x.id \in Nat
    BY LineTyped, JobIds
  <2>2. \A x \in Results : Ids(Append(m.res, x)) = Append(Ids(m.res), x.id)
    BY <2>1, IdsOf
  <2> QED BY <2>2
<1>2. k.pend = m.pend /\ k.hand = <<>> /\ k.down = m.down /\ k.w = m.w
  BY DEF Leaves
<1> DEFINE a == Append(Ids(m.res), r.id)
           s == Spread(k.pend, Ids(k.hand), Ids(k.queue), Ids(k.work))
           s0 == Spread(m.pend, Ids(m.hand), Ids(m.queue), Ids(m.work))
<1>12. /\ r.id \in All(m) /\ Good(a, k.pend, Ids(k.hand), Ids(k.queue), Ids(k.work))
       /\ Range(a) = Range(Ids(m.res)) \cup {r.id} /\ s \subseteq s0
       /\ m.pend = <<>> => u = <<r.id>> \o t
  <2>1. \A x : Leaves(k, m, x) =>
          /\ x \in All(m)
          /\ Good(Append(Ids(m.res), x), k.pend, Ids(k.hand), Ids(k.queue), Ids(k.work))
          /\ Range(Append(Ids(m.res), x)) = Range(Ids(m.res)) \cup {x} /\ s \subseteq s0
          /\ m.pend = <<>> => u = <<x>> \o t
    BY LeavesGood
  <2> QED BY <2>1
<1> HIDE DEF t, u, s, s0
<1>3. Each(k)
  <2>1. Group(k)
    BY <1>1, <1>12 DEF Group
  <2>2. Len(k.hand) <= 1
    BY <1>2
  <2> QED BY <1>2, <2>1, <2>2 DEF Each
<1>4. All(k) \subseteq All(m)
  <2>1. All(k) = Range(a) \cup s /\ All(m) = Range(Ids(m.res)) \cup s0
    BY <1>1 DEF All, s, s0
  <2> QED BY <1>12, <2>1
<1>5. /\ t \in Seq(Nat) /\ u \in Seq(Nat) /\ Ids(m.res) \in Seq(Nat) /\ m.pend \in Seq(Nat)
      /\ m.pend \o u \in Seq(Nat) /\ r.id \in Nat /\ Len(Ids(m.res)) = Len(m.res)
      /\ m.res \in Seq(Results)
  BY LineTyped, JobIds DEF t, u
<1>7. Line(k) = a \o (m.pend \o t) /\ Line(m) = Ids(m.res) \o (m.pend \o u)
  BY <1>1, <1>2 DEF Line, t, u
<1>8. ASSUME m.pend = <<>> PROVE Line(k) = Line(m)
  <2>1. m.pend \o t = t /\ m.pend \o u = u
    BY <1>5, <1>8, NothingBefore
  <2>2. a \o t = Ids(m.res) \o (<<r.id>> \o t)
    BY <1>5, Push
  <2> HIDE DEF a
  <2> QED BY <1>7, <1>8, <1>12, <2>1, <2>2
<1>9. ASSUME m.pend # <<>> PROVE Early(Line(m), k)
  <2> DEFINE i == Len(m.res) + 1
  <2>1. i \in DOMAIN Line(m) /\ Line(m)[i] = Head(m.pend)
    <3>1. LET v == Ids(m.res) \o (m.pend \o u)
          IN Len(Ids(m.res)) + 1 \in DOMAIN v /\ v[Len(Ids(m.res)) + 1] = Head(m.pend)
      BY <1>5, <1>9, AfterAnswers
    <3> QED BY <1>5, <1>7, <3>1
  <2>2. i \in DOMAIN k.res /\ k.res[i] = r
    BY <1>5
  <2>3. r.id # Head(m.pend)
    <3>1. r.id \in Range(Ids(k.res)) /\ Head(m.pend) \in Range(m.pend)
      BY <1>1, <1>5, <1>9, <1>12, RangeOfTail
    <3> QED BY <1>2, <1>3, <3>1 DEF Each, Group, Good, Spread
  <2>4. ~r.ok
    BY <1>9
  <2> HIDE DEF i
  <2> QED BY <2>1, <2>2, <2>3, <2>4 DEF Early
<1>10. Line(k) = Line(m) \/ Early(Line(m), k)
  BY <1>8, <1>9
<1>11. \A i \in DOMAIN m.res : i \in DOMAIN k.res /\ k.res[i] = m.res[i]
  BY <1>5
<1> QED BY <1>3, <1>4, <1>10, <1>11 DEF DownRole

LEMMA OrdParts ==
  ASSUME NEW cs, NEW held, NEW x, Ord(cs, held, x), NEW c \in Conns
  PROVE  cs \in Net /\ cs[c] \in Links /\ Each(cs[c]) /\ \A y \in All(cs[c]) : y < x
BY DEF Ord, Rows, Under, Net

LEMMA LeaveAnswered ==
  ASSUME NEW cs, NEW held, NEW x, Ord(cs, held, x), NEW c \in Conns, NEW k \in Links,
         NEW r \in Results, Leaves(k, cs[c], r.id), k.res = Append(cs[c].res, r),
         r.ok => cs[c].pend = <<>>, Works(k) => Works(cs[c]),
         k.relay = cs[c].relay, k.closing = cs[c].closing
  PROVE  Ord([cs EXCEPT ![c] = k], held, x)
<1>1. cs[c] \in Links /\ Each(cs[c])
  BY OrdParts
<1>2. Each(k) /\ All(k) \subseteq All(cs[c]) /\ DownRole(k, cs[c])
  BY <1>1, Answered
<1>3. k.down = cs[c].down /\ UpRole(k, cs[c])
  BY <1>1 DEF Leaves, UpRole
<1> QED BY <1>2, <1>3, OneChange

(* Once the connection is broken, or one of its threads is gone, it does   *)
(* not matter whether the request was answered.                            *)
LEMMA LeaveBroken ==
  ASSUME NEW cs, NEW held, NEW x, Ord(cs, held, x), NEW c \in Conns, NEW k \in Links,
         NEW i, Leaves(k, cs[c], i), ~Works(k),
         k.relay = cs[c].relay, k.closing = cs[c].closing, k.res = cs[c].res
  PROVE  Ord([cs EXCEPT ![c] = k], held, x)
<1>1. cs[c] \in Links /\ Each(cs[c])
  BY OrdParts
<1> DEFINE s == Spread(k.pend, Ids(k.hand), Ids(k.queue), Ids(k.work))
           s0 == Spread(cs[c].pend, Ids(cs[c].hand), Ids(cs[c].queue), Ids(cs[c].work))
<1>2. Good(Ids(cs[c].res), k.pend, Ids(k.hand), Ids(k.queue), Ids(k.work)) /\ s \subseteq s0
  <2>1. \A m \in Links : Each(m) /\ Leaves(k, m, i) =>
          /\ Good(Ids(m.res), k.pend, Ids(k.hand), Ids(k.queue), Ids(k.work))
          /\ s \subseteq Spread(m.pend, Ids(m.hand), Ids(m.queue), Ids(m.work))
    BY LeavesGood
  <2> QED BY <1>1, <2>1
<1>3. k.pend = cs[c].pend /\ k.hand = <<>> /\ k.down = cs[c].down /\ k.w = cs[c].w
  BY DEF Leaves
<1>4. Each(k)
  <2>1. Group(k)
    BY <1>2 DEF Group
  <2> QED BY <1>1, <1>3, <2>1 DEF Each
<1>5. All(k) \subseteq All(cs[c])
  <2>1. All(k) = Range(Ids(k.res)) \cup s /\ All(cs[c]) = Range(Ids(cs[c].res)) \cup s0
    BY DEF All
  <2> HIDE DEF s, s0
  <2> QED BY <1>2, <2>1
<1>6. DownRole(k, cs[c]) /\ UpRole(k, cs[c])
  BY <1>1, <1>3, <1>5 DEF DownRole, UpRole
<1> QED BY <1>3, <1>4, <1>5, <1>6, OneChange

LEMMA CancelOrder ==
  ASSUME NEW cs, NEW held, NEW x, Ord(cs, held, x), NEW c \in Conns, ~Works(cs[c])
  PROVE  Ord(Cancel(cs, c), held, x) /\ Ord(EvalFails(cs, c), held, x)
<1> DEFINE m == cs[c]
           k == [[m EXCEPT !.closed = TRUE] EXCEPT !.queue = <<>>]
<1>1. cs \in Net /\ m \in Links /\ Each(m)
  BY OrdParts
<1>2. k \in Links
  <2>1. [m EXCEPT !.closed = TRUE] \in Links
    BY <1>1, FieldTyped
  <2> QED BY <2>1, FieldTyped, EmptyTypes
<1>3. /\ k.res = m.res /\ k.pend = m.pend /\ k.hand = m.hand /\ k.queue = <<>> /\ k.work = m.work
      /\ k.down = m.down /\ k.w = m.w /\ k.relay = m.relay /\ k.closing = m.closing
      /\ (Works(k) => Works(m))
  BY <1>1 DEF Links, Works
<1>4. Cancel(cs, c) = [cs EXCEPT ![c] = k]
  BY <1>1 DEF Cancel, Net
<1> HIDE DEF m, k
<1>5. Each(k) /\ All(k) \subseteq All(m)
  <2>1. Ids(k.queue) = <<>>
    BY <1>3, JobIds
  <2>2. Group(k) /\ All(k) \subseteq All(m)
    BY <1>1, <1>3, <2>1, GoodDrop DEF Each, Group, All
  <2> QED BY <1>1, <1>3, <2>2 DEF Each
<1>6. DownRole(k, m) /\ UpRole(k, m)
  BY <1>1, <1>3, <1>5 DEF DownRole, UpRole, m
<1>7. Ord(Cancel(cs, c), held, x)
  <2>1. /\ All(k) \subseteq All(cs[c]) /\ DownRole(k, cs[c])
        /\ k.down = cs[c].down /\ UpRole(k, cs[c])
    BY <1>3, <1>5, <1>6 DEF m
  <2>2. Ord([cs EXCEPT ![c] = k], held, x)
    BY <1>2, <1>5, <2>1, OneChange
  <2> QED BY <1>4, <2>2
<1>8. Ord([Cancel(cs, c) EXCEPT ![c].ev = FALSE], held, x)
  BY <1>7, ShutOrder
<1>9. Ord(EvalFails(cs, c), held, x)
  BY <1>8, ShutOrder DEF EvalFails
<1> QED BY <1>7, <1>9

(* The evaluating thread answers a request itself: a result when it is the *)
(* last stage, else an error report.                                       *)
LEMMA RepliesOrder ==
  ASSUME NEW x, Ord(conn, Held, x), NEW c \in Conns, NEW k \in Links, NEW r \in Results,
         Leaves(k, conn[c], r.id), k.res = conn[c].res,
         k.near = conn[c].near, k.far = conn[c].far, k.rd = conn[c].rd, k.ev = conn[c].ev,
         k.relay = conn[c].relay, k.closing = conn[c].closing,
         r.ok => conn[c].pend = <<>>,
         Replies([conn EXCEPT ![c] = k], c, r)
  PROVE  Ord(conn', Held, x)
<1> DEFINE cs == [conn EXCEPT ![c] = k]
<1>1. conn \in Net /\ conn[c] \in Links /\ cs \in Net /\ cs[c] = k
  BY OrdParts DEF Net
<1>2. ASSUME ~(k.near /\ k.far) PROVE Ord(cs, Held, x)
  BY <1>2, LeaveBroken DEF Works
<1>3. ASSUME NEW ds, Ord(ds, Held, x), Conn(ds) PROVE Ord(conn', Held, x)
  BY <1>3, KeepOrder DEF Conn
<1>4. CASE AnswerOk(c) /\ Conn(Answer(cs, c, r))
  <2>1. CASE k.near /\ k.far
    <3> DEFINE k2 == [k EXCEPT !.res = Append(k.res, r)]
    <3>1. Answer(cs, c, r) = [conn EXCEPT ![c] = k2]
      BY <1>1, <2>1 DEF Answer, Net
    <3>2. k2 \in Links
      <4>1. Append(k.res, r) \in Seq(Results)
        BY LineTyped, SeqSteps
      <4> QED BY <4>1, FieldTyped
    <3>3. /\ Leaves(k2, conn[c], r.id) /\ k2.res = Append(conn[c].res, r)
          /\ (Works(k2) => Works(conn[c]))
          /\ k2.relay = conn[c].relay /\ k2.closing = conn[c].closing
      BY DEF Leaves, Works, Links
    <3> HIDE DEF k2
    <3>4. Ord([conn EXCEPT ![c] = k2], Held, x)
      BY <3>2, <3>3, LeaveAnswered
    <3> QED BY <1>3, <1>4, <3>1, <3>4
  <2>2. CASE ~(k.near /\ k.far)
    <3>1. Answer(cs, c, r) = cs
      BY <1>1, <2>2 DEF Answer
    <3> QED BY <1>2, <1>3, <1>4, <2>2, <3>1
  <2> QED BY <2>1, <2>2
<1>5. CASE AnswerFails(c) /\ Conn(EvalFails(cs, c))
  <2>1. ~(k.near /\ k.far)
    BY <1>5 DEF AnswerFails, Broken
  <2>2. Ord(cs, Held, x) /\ ~Works(cs[c])
    BY <1>1, <1>2, <2>1 DEF Works
  <2>3. Ord(EvalFails(cs, c), Held, x)
    BY <2>2, CancelOrder
  <2> QED BY <1>3, <1>5, <2>3
<1> QED BY <1>4, <1>5 DEF Replies

-----------------------------------------------------------------------------
(* The workers' steps keep the order.                                      *)

LEMMA ServingOrder ==
  ASSUME OrderInv, UNCHANGED <<caller, pipe, route>>, Ord(conn', Held, Bound)
  PROVE  OrderInv'
<1>1. Held' = Held /\ Bound' = Bound /\ snd' = snd /\ next' = next /\ call' = call
  BY DEF caller, pipe, route, Held, Entries, Bound
<1>2. SlotInv'
  BY <1>1 DEF OrderInv, SlotInv
<1> QED BY <1>1, <1>2 DEF OrderInv

LEMMA ConnOrder ==
  ASSUME OrderInv, UNCHANGED <<caller, pipe, route>>, NEW ds, Ord(ds, Held, Bound), Conn(ds)
  PROVE  OrderInv'
<1>1. Ord(conn', Held, Bound)
  BY KeepOrder DEF Conn
<1> QED BY <1>1, ServingOrder

LEMMA HangsUpOrder ==
  ASSUME NEW cs, NEW x, Ord(cs, Held, x), NEW c \in Conns, HangsUp(cs, c)
  PROVE  Ord(conn', Held, x)
<1> DEFINE m == cs[c]
           k == [Unused EXCEPT !.w = m.w, !.near = m.near, !.res = m.res]
           closed == [cs EXCEPT ![c] = k]
<1>1. cs \in Net /\ m \in Links /\ Each(m) /\ m.down \in Conns \cup {0}
  BY OrdParts, LinkParts
<1>2. k \in Links
  <2>1. m.w \in Workers \cup {0} /\ m.near \in BOOLEAN /\ m.res \in Seq(Results)
    BY <1>1, LinkParts
  <2> HIDE DEF m
  <2> QED BY <2>1, ClosedTyped
<1>3. /\ k.res = m.res /\ k.pend = <<>> /\ k.hand = <<>> /\ k.queue = <<>> /\ k.work = <<>>
      /\ k.down = 0 /\ k.far = FALSE
  BY DEF Unused
<1> HIDE DEF k
<1>4. Each(k) /\ All(k) \subseteq All(m)
  <2>1. Ids(k.hand) = <<>> /\ Ids(k.queue) = <<>> /\ Ids(k.work) = <<>>
    BY <1>3, JobIds
  <2>2. Group(k) /\ All(k) \subseteq All(m)
    BY <1>1, <1>3, <2>1, GoodDrop DEF Each, Group, All
  <2> QED BY <1>3, <2>2 DEF Each
<1>5. DownRole(k, m)
  BY <1>3, <1>4 DEF DownRole, Works
<1>6. Ord(closed, Held, x)
  BY <1>2, <1>3, <1>4, <1>5, OneChange
<1>7. m.down # 0 => Ord(Shut(closed, m.down), Held, x)
  BY <1>1, <1>6, ShutOrder
<1>8. \E ds : Ord(ds, Held, x) /\ Conn(ds)
  <2>1. Conn(cs) \/ (m.down = 0 /\ Conn(closed)) \/ (m.down # 0 /\ Conn(Shut(closed, m.down)))
    BY DEF HangsUp, k
  <2> QED BY <1>6, <1>7, <2>1
<1> QED BY <1>8, KeepOrder DEF Conn

LEMMA OrderReadWork == ASSUME OrderInv, NEW c \in Conns, ReadWork(c) PROVE OrderInv'
<1> DEFINE m == conn[c]
           t == [m EXCEPT !.work = Tail(@)]
           k == [t EXCEPT !.queue = Append(@, Head(m.work))]
           k2 == [[[t EXCEPT !.closed = TRUE] EXCEPT !.queue = <<>>] EXCEPT !.rd = FALSE]
<1>1. Ord(conn, Held, Bound) /\ UNCHANGED <<caller, pipe, route>> /\ m.work # <<>>
  BY DEF OrderInv, ReadWork, Serving
<1>2. conn \in Net /\ m \in Links /\ Each(m)
  BY <1>1, OrdParts
<1>3. t \in Links /\ t.queue = m.queue
  <2>1. Tail(m.work) \in Seq(Jobs)
    BY <1>1, <1>2, LineTyped, SeqSteps
  <2>2. t \in Links
    BY <1>2, <2>1, FieldTyped
  <2>3. t.queue = m.queue
    BY <1>2 DEF Links
  <2> QED BY <2>2, <2>3
<1>4. /\ m.work \in Seq(Jobs) /\ m.queue \in Seq(Jobs) /\ Head(m.work) \in Jobs
      /\ Ids(m.work) # <<>> /\ Head(Ids(m.work)) = Head(m.work).id
      /\ Ids(Tail(m.work)) = Tail(Ids(m.work))
      /\ Ids(Append(m.queue, Head(m.work))) = Append(Ids(m.queue), Head(Ids(m.work)))
  <2>1. m.work \in Seq(Jobs) /\ m.queue \in Seq(Jobs) /\ Head(m.work) \in Jobs
    BY <1>1, <1>2, LineTyped, SeqSteps
  <2>2. ASSUME NEW s \in Seq(Jobs)
        PROVE  /\ Ids(s) = <<>> <=> s = <<>>
               /\ \A y \in Jobs : Ids(Append(s, y)) = Append(Ids(s), y.id)
               /\ s # <<>> => Ids(Tail(s)) = Tail(Ids(s)) /\ Head(Ids(s)) = Head(s).id
    <3>1. \A y \in Jobs : y.id \in Nat
      BY JobIds
    <3>2. Ids(s) = <<>> <=> s = <<>>
      BY <3>1, IdsOf
    <3>3. \A y \in Jobs : Ids(Append(s, y)) = Append(Ids(s), y.id)
      BY <3>1, IdsOf
    <3>4. s # <<>> => Ids(Tail(s)) = Tail(Ids(s)) /\ Head(Ids(s)) = Head(s).id
      BY <3>1, IdsOf
    <3> QED BY <3>2, <3>3, <3>4
  <2> QED BY <1>1, <2>1, <2>2
<1> DEFINE a == Ids(m.res)
           p == m.pend
           h == Ids(m.hand)
           q == Ids(m.queue)
           w == Ids(m.work)
<1>5. /\ Good(a, p, h, q, Tail(w)) /\ Good(a, p, h, Append(q, Head(w)), Tail(w))
      /\ Spread(p, h, Append(q, Head(w)), Tail(w)) = Spread(p, h, q, w)
      /\ Spread(p, h, q, Tail(w)) \subseteq Spread(p, h, q, w)
  <2>1. Good(a, p, h, q, w) /\ w # <<>>
    BY <1>2, <1>4 DEF Each, Group
  <2> HIDE DEF a, p, h, q, w
  <2> QED BY <2>1, GoodFetch
<1>6. CASE QueueRoom(c) /\ Conn([[conn EXCEPT ![c].work = Tail(@)] EXCEPT ![c].queue = Append(@, Head(m.work))])
  <2>1. k \in Links
    <3>1. Append(m.queue, Head(m.work)) \in UpTo(PrefetchDepth, Jobs)
      BY <1>2, <1>4, <1>6, LinkParts, UpToGrows, ConstantTypes DEF QueueRoom
    <3> QED BY <1>3, <3>1, FieldTyped
  <2>2. [[conn EXCEPT ![c].work = Tail(@)] EXCEPT ![c].queue = Append(@, Head(m.work))]
          = [conn EXCEPT ![c] = k]
    BY <1>2 DEF Net
  <2>3. /\ k.res = m.res /\ k.pend = m.pend /\ k.hand = m.hand
        /\ k.queue = Append(m.queue, Head(m.work)) /\ k.work = Tail(m.work)
        /\ k.down = m.down /\ k.w = m.w /\ k.relay = m.relay /\ k.closing = m.closing
        /\ (Works(k) => Works(m))
    BY <1>2 DEF Links, Works
  <2> HIDE DEF k
  <2>4. Each(k) /\ All(k) = All(m)
    <3>1. Ids(k.queue) = Append(q, Head(w)) /\ Ids(k.work) = Tail(w)
      BY <1>4, <2>3
    <3>2. Group(k) /\ All(k) = All(m)
      BY <1>5, <2>3, <3>1 DEF Group, All
    <3> QED BY <1>2, <2>3, <3>2 DEF Each
  <2>5. Line(k) = Line(m)
    <3>1. /\ q \in Seq(Nat) /\ w \in Seq(Nat) /\ w # <<>> /\ Tail(w) \in Seq(Nat)
          /\ Head(w) \in Nat
      BY <1>2, <1>4, LineTyped
    <3>2. Append(q, Head(w)) \o Tail(w) = q \o w
      <4> HIDE DEF q, w
      <4>1. Append(q, Head(w)) \o Tail(w) = q \o (<<Head(w)>> \o Tail(w))
        BY <3>1, Push
      <4>2. w = <<Head(w)>> \o Tail(w)
        BY <3>1
      <4> QED BY <4>1, <4>2
    <3> QED BY <1>4, <2>3, <3>2 DEF Line
  <2>6. DownRole(k, m) /\ UpRole(k, m)
    BY <1>2, <2>3, <2>4, <2>5 DEF DownRole, UpRole
  <2>7. Ord([conn EXCEPT ![c] = k], Held, Bound)
    BY <1>1, <2>1, <2>3, <2>4, <2>6, OneChange
  <2> QED BY <1>1, <1>6, <2>2, <2>7, ConnOrder
<1>7. CASE Conn([Cancel([conn EXCEPT ![c].work = Tail(@)], c) EXCEPT ![c].rd = FALSE])
  <2>1. k2 \in Links
    BY <1>3, FieldTyped, EmptyTypes
  <2>2. [Cancel([conn EXCEPT ![c].work = Tail(@)], c) EXCEPT ![c].rd = FALSE]
          = [conn EXCEPT ![c] = k2]
    BY <1>2 DEF Net, Cancel
  <2>3. /\ k2.res = m.res /\ k2.pend = m.pend /\ k2.hand = m.hand
        /\ k2.queue = <<>> /\ k2.work = Tail(m.work)
        /\ k2.down = m.down /\ k2.w = m.w /\ k2.relay = m.relay /\ k2.closing = m.closing
        /\ ~Works(k2)
    BY <1>2 DEF Links, Works
  <2> HIDE DEF k2
  <2>4. Each(k2) /\ All(k2) \subseteq All(m)
    <3>1. Ids(k2.queue) = <<>> /\ Ids(k2.work) = Tail(w)
      BY <1>4, <2>3, JobIds
    <3>2. Good(a, p, h, <<>>, Tail(w)) /\ Spread(p, h, <<>>, Tail(w)) \subseteq Spread(p, h, q, Tail(w))
      <4> HIDE DEF a, p, h, q, w
      <4> QED BY <1>5, GoodDrop
    <3>3. Group(k2) /\ All(k2) \subseteq All(m)
      BY <1>5, <2>3, <3>1, <3>2 DEF Group, All
    <3> QED BY <1>2, <2>3, <3>3 DEF Each
  <2>5. DownRole(k2, m) /\ UpRole(k2, m)
    BY <1>2, <2>3, <2>4 DEF DownRole, UpRole
  <2>6. Ord([conn EXCEPT ![c] = k2], Held, Bound)
    BY <1>1, <2>1, <2>3, <2>4, <2>5, OneChange
  <2> QED BY <1>1, <1>7, <2>2, <2>6, ConnOrder
<1> QED BY <1>6, <1>7 DEF ReadWork

(* The ids of a queue of requests, and of the answers on their way.        *)
LEMMA JobSteps ==
  ASSUME NEW s \in Seq(Jobs)
  PROVE  /\ Ids(s) \in Seq(Nat)
         /\ (Ids(s) = <<>>) <=> (s = <<>>)
         /\ \A y \in Jobs : Ids(Append(s, y)) = Append(Ids(s), y.id)
         /\ s # <<>> => Ids(Tail(s)) = Tail(Ids(s)) /\ Head(Ids(s)) = Head(s).id
<1>1. \A y \in Jobs : y.id \in Nat
  BY JobIds
<1>2. Ids(s) \in Seq(Nat)
  BY <1>1, IdsOf
<1>3. (Ids(s) = <<>>) <=> (s = <<>>)
  BY <1>1, IdsOf
<1>4. \A y \in Jobs : Ids(Append(s, y)) = Append(Ids(s), y.id)
  BY <1>1, IdsOf
<1>5. s # <<>> => Ids(Tail(s)) = Tail(Ids(s)) /\ Head(Ids(s)) = Head(s).id
  BY <1>1, IdsOf
<1> QED BY <1>2, <1>3, <1>4, <1>5

(* The same for the answers.                                               *)
LEMMA ResultSteps ==
  ASSUME NEW s \in Seq(Results)
  PROVE  /\ Ids(s) \in Seq(Nat)
         /\ (Ids(s) = <<>>) <=> (s = <<>>)
         /\ \A y \in Results : Ids(Append(s, y)) = Append(Ids(s), y.id)
         /\ s # <<>> => Ids(Tail(s)) = Tail(Ids(s)) /\ Head(Ids(s)) = Head(s).id
<1>1. \A y \in Results : y.id \in Nat
  BY JobIds
<1>2. Ids(s) \in Seq(Nat)
  BY <1>1, IdsOf
<1>3. (Ids(s) = <<>>) <=> (s = <<>>)
  BY <1>1, IdsOf
<1>4. \A y \in Results : Ids(Append(s, y)) = Append(Ids(s), y.id)
  BY <1>1, IdsOf
<1>5. s # <<>> => Ids(Tail(s)) = Tail(Ids(s)) /\ Head(Ids(s)) = Head(s).id
  BY <1>1, IdsOf
<1> QED BY <1>2, <1>3, <1>4, <1>5

LEMMA OrderReadEnds == ASSUME OrderInv, NEW c \in Conns, ReadEnds(c) PROVE OrderInv'
<1> DEFINE cs == [conn EXCEPT ![c].rd = FALSE]
<1>1. Ord(conn, Held, Bound) /\ UNCHANGED <<caller, pipe, route>>
  BY DEF OrderInv, ReadEnds, Serving
<1>2. Ord(cs, Held, Bound)
  BY <1>1, ShutOrder
<1>3. ~Works(cs[c])
  <2>1. conn \in Net /\ conn[c] \in Links
    BY <1>1, OrdParts
  <2>2. cs[c].rd = FALSE
    BY <2>1 DEF Net, Links
  <2> QED BY <2>2 DEF Works
<1>4. HangsUp(Finish(cs, c), c) \/ HangsUp(Cancel(cs, c), c)
  BY DEF ReadEnds
<1> HIDE DEF cs
<1>5. Ord(Finish(cs, c), Held, Bound) /\ Ord(Cancel(cs, c), Held, Bound)
  BY <1>2, <1>3, ShutOrder, CancelOrder
<1>6. Ord(conn', Held, Bound)
  BY <1>4, <1>5, HangsUpOrder
<1> QED BY <1>1, <1>6, ServingOrder

(* A worker that is not the last one hands the evaluated span on.          *)
LEMMA EvaluateHands ==
  ASSUME NEW x, Ord(conn, Held, x), NEW c \in Conns, NEW out \in Jobs,
         conn[c].hand = <<>>, conn[c].queue # <<>>, out.id = Head(conn[c].queue).id,
         HasNext(conn[c].w)
  PROVE  Ord([[conn EXCEPT ![c].queue = Tail(@)] EXCEPT ![c].hand = <<out>>], Held, x)
<1> DEFINE m == conn[c]
           t == [m EXCEPT !.queue = Tail(@)]
           k == [t EXCEPT !.hand = <<out>>]
<1>1. conn \in Net /\ m \in Links /\ Each(m)
  BY OrdParts
<1>2. t \in Links /\ t.w = m.w
  <2>1. Tail(m.queue) \in UpTo(PrefetchDepth, Jobs)
    BY <1>1, LinkParts, UpToShrinks, ConstantTypes
  <2>2. t \in Links
    BY <1>1, <2>1, FieldTyped
  <2>3. t.w = m.w
    BY <1>1 DEF Links
  <2> QED BY <2>2, <2>3
<1>3. k \in Links
  <2>1. <<out>> \in Seq(Jobs)
    OBVIOUS
  <2> QED BY <1>2, <2>1, FieldTyped
<1>4. [[conn EXCEPT ![c].queue = Tail(@)] EXCEPT ![c].hand = <<out>>] = [conn EXCEPT ![c] = k]
  BY <1>1 DEF Net
<1>5. /\ k.res = m.res /\ k.pend = m.pend /\ k.hand = <<out>>
      /\ k.queue = Tail(m.queue) /\ k.work = m.work
      /\ k.down = m.down /\ k.w = m.w /\ k.relay = m.relay /\ k.closing = m.closing
      /\ (Works(k) => Works(m))
  BY <1>1 DEF Links, Works
<1> HIDE DEF k
<1> DEFINE a == Ids(m.res)
           p == m.pend
           q == Ids(m.queue)
           w == Ids(m.work)
<1>6. /\ Ids(k.hand) = <<Head(q)>> /\ Ids(k.queue) = Tail(q) /\ Ids(k.work) = w
      /\ Ids(m.hand) = <<>> /\ q # <<>> /\ q \in Seq(Nat) /\ w \in Seq(Nat)
  <2>1. m.queue \in Seq(Jobs) /\ w \in Seq(Nat)
    BY <1>1, LineTyped
  <2>2. Head(q) = out.id /\ Ids(k.queue) = Tail(q) /\ q # <<>> /\ q \in Seq(Nat)
    BY <1>5, <2>1, JobSteps
  <2> QED BY <1>5, <2>1, <2>2, JobIds
<1>7. /\ Good(a, p, <<Head(q)>>, Tail(q), w)
      /\ Spread(p, <<Head(q)>>, Tail(q), w) = Spread(p, <<>>, q, w)
  <2>1. Good(a, p, <<>>, q, w)
    BY <1>1, <1>6 DEF Each, Group
  <2> HIDE DEF a, p, q, w
  <2>2. q # <<>>
    BY <1>6
  <2> QED BY <2>1, <2>2, GoodQueue
<1>8. Each(k) /\ All(k) = All(m)
  <2>1. Group(k) /\ All(k) = All(m)
    BY <1>5, <1>6, <1>7 DEF Group, All
  <2>2. Len(k.hand) <= 1
    BY <1>5
  <2> QED BY <1>1, <1>5, <2>1, <2>2 DEF Each
<1>9. Line(k) = Line(m)
  <2>1. <<Head(q)>> \o (Tail(q) \o w) = <<>> \o (q \o w)
    <3> HIDE DEF q, w
    <3>1. q \o w = <<Head(q)>> \o (Tail(q) \o w) /\ q \o w \in Seq(Nat)
      BY <1>6, Uncons
    <3> QED BY <3>1, NothingBefore
  <2> QED BY <1>5, <1>6, <2>1 DEF Line
<1>10. DownRole(k, m) /\ UpRole(k, m)
  BY <1>1, <1>5, <1>8, <1>9 DEF DownRole, UpRole
<1>11. Ord([conn EXCEPT ![c] = k], Held, x)
  BY <1>3, <1>5, <1>8, <1>10, OneChange
<1> QED BY <1>4, <1>11

LEMMA OrderEvaluate == ASSUME OrderInv, IInv, NEW c \in Conns, Evaluate(c) PROVE OrderInv'
<1> DEFINE m == conn[c]
           w == On(c)
           job == Head(m.queue)
           s == Opening(ses[w], job)
           k == [m EXCEPT !.queue = Tail(@)]
           cs == [conn EXCEPT ![c].queue = Tail(@)]
           done == [s EXCEPT !.toks = @ \o job.toks, !.valid = TRUE, !.hash = job.pre \o job.toks]
           out == [job EXCEPT !.by = @ \cup {done.toks}]
<1>1. /\ Ord(conn, Held, Bound) /\ UNCHANGED <<caller, pipe, route>>
      /\ m.ev /\ m.hand = <<>> /\ m.queue # <<>>
  BY DEF OrderInv, Evaluate, Serving
<1>2. conn \in Net /\ m \in Links /\ Each(m) /\ job \in Jobs /\ w \in Workers
  <2>1. conn \in Net /\ m \in Links /\ Each(m)
    BY <1>1, OrdParts
  <2>2. m.queue \in Seq(Jobs) /\ m.w \in Workers \cup {0} /\ (m.ev => m.w # 0)
    BY <2>1, LineTyped, LinkParts
  <2> QED BY <1>1, <2>1, <2>2, SeqSteps DEF On
<1>3. cs = [conn EXCEPT ![c] = k] /\ k \in Links
  <2>1. Tail(m.queue) \in UpTo(PrefetchDepth, Jobs)
    BY <1>1, <1>2, LinkParts, UpToShrinks, ConstantTypes
  <2>2. k \in Links
    BY <1>2, <2>1, FieldTyped
  <2> QED BY <1>2, <2>2 DEF Net
<1>4. /\ Leaves(k, m, job.id) /\ k.res = m.res
      /\ k.near = m.near /\ k.far = m.far /\ k.rd = m.rd /\ k.ev = m.ev
      /\ k.relay = m.relay /\ k.closing = m.closing
  BY <1>1, <1>2 DEF Leaves, Links
<1>5. ses \in [Workers -> Sessions]
  BY NetTypes
<1>6. job.id \in Nat /\ (PrefixAgrees(s, job) => out \in Jobs)
  BY <1>2, <1>5, EvaluateTypes
<1>7. \/ Replies(cs, c, WorkError(job.id))
      \/ /\ PrefixAgrees(s, job)
         /\ IF HasNext(w) THEN Conn([cs EXCEPT ![c].hand = <<out>>]) ELSE Replies(cs, c, Result(out))
  BY DEF Evaluate
<1>8. out.id = job.id
  BY <1>2 DEF Jobs
<1> HIDE DEF k, s, done, out
<1>9. CASE Replies(cs, c, WorkError(job.id))
  <2>1. WorkError(job.id) \in Results
    BY <1>6, WorkErrorTyped
  <2>2. WorkError(job.id).id = job.id /\ ~WorkError(job.id).ok
    BY DEF WorkError
  <2>3. Ord(conn', Held, Bound)
    BY <1>1, <1>3, <1>4, <1>9, <2>1, <2>2, RepliesOrder
  <2> QED BY <1>1, <2>3, ServingOrder
<1>10. CASE PrefixAgrees(s, job) /\ HasNext(w) /\ Conn([cs EXCEPT ![c].hand = <<out>>])
  <2>1. Ord([cs EXCEPT ![c].hand = <<out>>], Held, Bound)
    BY <1>1, <1>6, <1>8, <1>10, EvaluateHands DEF On
  <2> QED BY <1>1, <1>10, <2>1, ConnOrder
<1>11. CASE PrefixAgrees(s, job) /\ ~HasNext(w) /\ Replies(cs, c, Result(out))
  <2>1. Result(out) \in Results
    BY <1>6, <1>11, ResultTyped
  <2>2. Result(out).id = job.id
    BY <1>8 DEF Result
  <2>3. m.pend = <<>>
    BY <1>2, <1>11 DEF Each, On
  <2>4. Ord(conn', Held, Bound)
    BY <1>1, <1>3, <1>4, <1>11, <2>1, <2>2, <2>3, RepliesOrder
  <2> QED BY <1>1, <2>4, ServingOrder
<1> QED BY <1>7, <1>9, <1>10, <1>11

(* The request in hand cannot go on, and is answered with an error report. *)
LEMMA DropOrder ==
  ASSUME OrderInv, NEW c \in Conns, Forwarding(c), Replies(Dropped(c), c, WorkError(InHand(c).id))
  PROVE  Ord(conn', Held, Bound)
<1> DEFINE m == conn[c]
           k == [m EXCEPT !.hand = <<>>]
           job == InHand(c)
<1>1. Ord(conn, Held, Bound) /\ conn \in Net /\ m \in Links
  BY OrdParts DEF OrderInv
<1>2. job.id \in Nat
  BY <1>1, DroppedTyped
<1>3. Dropped(c) = [conn EXCEPT ![c] = k] /\ k \in Links
  BY <1>1, FieldTyped DEF Dropped, Net
<1>4. /\ Leaves(k, m, job.id) /\ k.res = m.res
      /\ k.near = m.near /\ k.far = m.far /\ k.rd = m.rd /\ k.ev = m.ev
      /\ k.relay = m.relay /\ k.closing = m.closing
  BY <1>1 DEF Leaves, Links, Forwarding, InHand
<1>5. WorkError(job.id) \in Results
  BY <1>2, WorkErrorTyped
<1>6. WorkError(job.id).id = job.id /\ ~WorkError(job.id).ok
  BY DEF WorkError
<1> HIDE DEF k, job
<1> QED BY <1>1, <1>3, <1>4, <1>5, <1>6, RepliesOrder DEF job

(* A free connection is opened.                                            *)
LEMMA OpenOrder ==
  ASSUME NEW cs, NEW held, NEW x, Ord(cs, held, x), NEW d \in Conns,
         \A b \in Conns : cs[b].down # d, NEW w \in Workers, NEW main \in BOOLEAN
  PROVE  /\ Ord([cs EXCEPT ![d] = Opened(w, main)], held, x)
         /\ All(Opened(w, main)) = {} /\ Line(Opened(w, main)) = <<>>
<1> DEFINE k == Opened(w, main)
<1>1. k \in Links
  BY OpenedTyped
<1>2. /\ k.res = <<>> /\ k.pend = <<>> /\ k.hand = <<>> /\ k.queue = <<>> /\ k.work = <<>>
      /\ k.down = 0
  BY DEF Opened, Unused
<1> HIDE DEF k
<1>3. Each(k) /\ All(k) = {} /\ Line(k) = <<>>
  BY <1>2, EmptyEach
<1>4. Ord([cs EXCEPT ![d] = k], held, x)
  BY <1>1, <1>2, <1>3, OneChange
<1> QED BY <1>3, <1>4 DEF k

(* A forwarder that has sent nothing gets a connection that carried        *)
(* nothing.                                                                *)
LEMMA LinkOrder ==
  ASSUME NEW cs, NEW held, NEW x, Ord(cs, held, x), NEW c \in Conns, NEW d \in Conns, c # d,
         cs[c].down = 0, d \notin held, \A b \in Conns : cs[b].down # d,
         All(cs[d]) = {}, Line(cs[d]) = <<>>
  PROVE  Ord([cs EXCEPT ![c].down = d, ![c].relay = TRUE], held, x)
<1> DEFINE m == cs[c]
           k == [m EXCEPT !.down = d, !.relay = TRUE]
           ds == [cs EXCEPT ![c] = k]
<1>1. cs \in Net /\ m \in Links /\ Each(m)
  BY OrdParts
<1>2. ds = [cs EXCEPT ![c].down = d, ![c].relay = TRUE]
  BY <1>1 DEF Net
<1>3. k \in Links /\ ds \in Net /\ ds[c] = k /\ \A b \in Conns : b # c => ds[b] = cs[b]
  BY <1>1, FieldTyped DEF Net
<1>4. /\ k.res = m.res /\ k.pend = m.pend /\ k.hand = m.hand /\ k.queue = m.queue
      /\ k.work = m.work /\ k.down = d /\ k.w = m.w /\ k.closing = m.closing
      /\ Works(k) = Works(m)
  BY <1>1 DEF Links, Works
<1> HIDE DEF k, ds
<1>5. m.pend = <<>>
  BY <1>1 DEF Each
<1>6. Each(k) /\ All(k) = All(m) /\ Line(k) = Line(m)
  BY <1>1, <1>4, <1>5 DEF Each, Group, All, Line
<1>7. DownRole(k, m)
  BY <1>4, <1>6 DEF DownRole
<1>8. Rows(ds) /\ Under(ds, x)
  <2>1. \A b \in Conns : Each(ds[b]) /\ \A y \in All(ds[b]) : y < x
    BY <1>3, <1>6, OrdParts
  <2> QED BY <2>1 DEF Rows, Under
<1>9. Pairs(ds)
  <2> SUFFICES ASSUME NEW b \in Conns, ds[b].down # 0 PROVE Pair(ds[b], ds[ds[b].down])
    BY DEF Pairs
  <2>1. CASE b = c
    <3>1. Pair(k, cs[d])
      BY <1>4, <1>5 DEF Pair
    <3> QED BY <1>3, <1>4, <2>1, <3>1
  <2>2. CASE b # c
    <3> DEFINE e == cs[b].down
    <3>1. ds[b] = cs[b] /\ e # 0 /\ e \in Conns
      BY <1>1, <1>3, <2>2, LinkParts
    <3>2. Pair(cs[b], cs[e])
      BY <3>1 DEF Ord, Pairs
    <3>3. UpRole(cs[b], cs[b]) /\ DownRole(cs[e], cs[e])
      BY <3>1 DEF UpRole, DownRole
    <3>4. Pair(cs[b], ds[e])
      BY <1>3, <1>7, <3>1, <3>2, <3>3, PairKept
    <3> QED BY <3>1, <3>4
  <2> QED BY <2>1, <2>2
<1>10. Downs(ds, held)
  <2>1. Downs(cs, held)
    BY DEF Ord
  <2>2. \A b \in Conns : ds[b].down = IF b = c THEN d ELSE cs[b].down
    BY <1>3, <1>4
  <2> QED BY <2>1, <2>2 DEF Downs
<1> QED BY <1>2, <1>3, <1>8, <1>9, <1>10 DEF Ord

LEMMA OrderConnect == ASSUME OrderInv, IInv, NEW c \in Conns, Connect(c) PROVE OrderInv'
<1>1. /\ Ord(conn, Held, Bound) /\ UNCHANGED <<caller, pipe, route>>
      /\ Forwarding(c) /\ conn[c].down = 0
  BY DEF OrderInv, Connect, Serving
<1>2. conn \in Net /\ conn[c] \in Links /\ conn[c].ev /\ On(c) + 1 \in Workers
  <2>1. conn \in Net /\ conn[c] \in Links /\ conn[c].ev /\ conn[c].hand # <<>>
    BY <1>1, OrdParts DEF Forwarding
  <2>2. conn[c].w \in Workers \cup {0} /\ HasNext(conn[c].w)
    BY <2>1, LinkParts
  <2> QED BY <2>1, <2>2, ConstantTypes DEF HasNext, On, Workers
<1>3. CASE Replies(Dropped(c), c, WorkError(InHand(c).id))
  BY <1>1, <1>3, DropOrder, ServingOrder
<1>4. CASE /\ FreeConns # {}
           /\ LET d == Min(FreeConns)
              IN Conn([conn EXCEPT ![d] = Opened(On(c) + 1, FALSE), ![c].down = d, ![c].relay = TRUE])
  <2> DEFINE d == Min(FreeConns)
             k == Opened(On(c) + 1, FALSE)
             e == [conn EXCEPT ![d] = k]
  <2>1. d \in Conns /\ Idle(conn, d, Held)
    <3>1. FreeConns \in SUBSET Nat
      BY ConstantTypes DEF FreeConns
    <3>2. d \in FreeConns
      BY <1>4, <3>1, MinIn
    <3> QED BY <3>2 DEF FreeConns
  <2>2. Conn([[conn EXCEPT ![d] = k] EXCEPT ![c].down = d, ![c].relay = TRUE])
    BY <1>4
  <2> HIDE DEF d
  <2>3. c # d /\ d \notin Held /\ \A b \in Conns : conn[b].down # d
    BY <1>2, <2>1 DEF Idle
  <2>4. Ord(e, Held, Bound) /\ All(k) = {} /\ Line(k) = <<>>
    BY <1>1, <1>2, <2>1, <2>3, OpenOrder
  <2>5. k.down = 0 /\ 0 # d
    BY <2>1, ConstantTypes DEF Opened, Unused
  <2> HIDE DEF k
  <2>6. e[d] = k /\ e[c] = conn[c] /\ \A b \in Conns : e[b].down # d
    BY <1>2, <2>1, <2>3, <2>5 DEF Net
  <2> HIDE DEF e
  <2>7. Ord([e EXCEPT ![c].down = d, ![c].relay = TRUE], Held, Bound)
    BY <1>1, <2>1, <2>3, <2>4, <2>6, LinkOrder
  <2> QED BY <1>1, <2>2, <2>7, ConnOrder DEF e
<1> QED BY <1>3, <1>4 DEF Connect

LEMMA AppendLast ==
  ASSUME NEW s \in Seq(Nat), NEW t \in Seq(Nat), NEW x \in Nat
  PROVE  s \o Append(t, x) = Append(s \o t, x)
<1>1. s \o Append(t, x) \in Seq(Nat) /\ Append(s \o t, x) \in Seq(Nat)
  OBVIOUS
<1>2. Len(s \o Append(t, x)) = Len(Append(s \o t, x))
  OBVIOUS
<1>3. \A i \in 1 .. Len(s \o Append(t, x)) : (s \o Append(t, x))[i] = Append(s \o t, x)[i]
  OBVIOUS
<1> QED BY <1>1, <1>2, <1>3, SameSequence

(* A request above all others is sent on the connection m.                 *)
LEMMA Sent ==
  ASSUME NEW m \in Links, Each(m), NEW job \in Jobs, \A y \in All(m) : y < job.id,
         NEW k, k = [m EXCEPT !.work = Append(@, job)]
  PROVE  /\ k \in Links /\ Each(k)
         /\ All(k) = All(m) \cup {job.id}
         /\ Line(k) = Append(Line(m), job.id)
         /\ Works(k) = Works(m)
         /\ k.res = m.res /\ k.pend = m.pend /\ k.down = m.down /\ k.closing = m.closing
         /\ k.relay = m.relay
<1>1. k \in Links
  <2>1. Append(m.work, job) \in Seq(Jobs)
    BY LineTyped, SeqSteps
  <2> QED BY <2>1, FieldTyped
<1>2. /\ k.res = m.res /\ k.pend = m.pend /\ k.hand = m.hand /\ k.queue = m.queue
      /\ k.work = Append(m.work, job)
      /\ k.down = m.down /\ k.w = m.w /\ k.closing = m.closing /\ k.relay = m.relay
      /\ Works(k) = Works(m)
  BY DEF Links, Works
<1> DEFINE a == Ids(m.res)
           p == m.pend
           h == Ids(m.hand)
           q == Ids(m.queue)
           w == Ids(m.work)
           x == job.id
<1>3. Ids(k.work) = Append(w, x) /\ x \in Nat
  <2>1. m.work \in Seq(Jobs)
    BY LineTyped
  <2> QED BY <1>2, <2>1, JobSteps, JobIds
<1>4. /\ Good(a, p, h, q, Append(w, x))
      /\ Spread(p, h, q, Append(w, x)) = Spread(p, h, q, w) \cup {x}
  <2>1. Good(a, p, h, q, w) /\ \A y \in Range(a) \cup Spread(p, h, q, w) : y < x
    BY DEF Each, Group, All
  <2> HIDE DEF a, p, h, q, w, x
  <2> QED BY <1>3, <2>1, GoodSend
<1>5. Each(k) /\ All(k) = All(m) \cup {x}
  BY <1>2, <1>3, <1>4 DEF Each, Group, All
<1>6. a \o (p \o (h \o (q \o Append(w, x)))) = Append(a \o (p \o (h \o (q \o w))), x)
  <2>1. /\ a \in Seq(Nat) /\ p \in Seq(Nat) /\ h \in Seq(Nat) /\ q \in Seq(Nat) /\ w \in Seq(Nat)
        /\ q \o w \in Seq(Nat) /\ h \o (q \o w) \in Seq(Nat) /\ p \o (h \o (q \o w)) \in Seq(Nat)
    BY LineTyped
  <2> HIDE DEF a, p, h, q, w, x
  <2>2. q \o Append(w, x) = Append(q \o w, x)
    BY <1>3, <2>1, AppendLast
  <2>3. h \o Append(q \o w, x) = Append(h \o (q \o w), x)
    BY <1>3, <2>1, AppendLast
  <2>4. p \o Append(h \o (q \o w), x) = Append(p \o (h \o (q \o w)), x)
    BY <1>3, <2>1, AppendLast
  <2>5. a \o Append(p \o (h \o (q \o w)), x) = Append(a \o (p \o (h \o (q \o w))), x)
    BY <1>3, <2>1, AppendLast
  <2> QED BY <2>2, <2>3, <2>4, <2>5
<1>7. Line(k) = Append(Line(m), x)
  BY <1>2, <1>3, <1>6 DEF Line
<1> QED BY <1>1, <1>2, <1>5, <1>7

(* The request in hand becomes the last one pending.                       *)
LEMMA Pended ==
  ASSUME NEW m \in Links, Each(m), m.hand # <<>>, Len(m.pend) < ForwardDepth, m.down # 0,
         NEW k, k = [[m EXCEPT !.hand = <<>>] EXCEPT !.pend = Append(@, m.hand[1].id)]
  PROVE  /\ k \in Links /\ Each(k) /\ All(k) = All(m) /\ DownRole(k, m)
         /\ k.pend = Append(m.pend, m.hand[1].id) /\ m.pend \in Seq(Nat)
         /\ m.hand[1] \in Jobs /\ m.hand[1].id \in All(m)
         /\ \A y \in Range(m.pend) : y < m.hand[1].id
         /\ k.down = m.down /\ k.closing = m.closing /\ k.relay = m.relay
<1> DEFINE t == [m EXCEPT !.hand = <<>>]
           x == m.hand[1].id
<1>1. m.hand \in Seq(Jobs) /\ m.hand[1] \in Jobs /\ x \in Nat /\ m.hand = <<m.hand[1]>> /\ HasNext(m.w)
  <2>1. m.hand \in Seq(Jobs) /\ Len(m.hand) <= 1
    BY LineTyped DEF Each
  <2>6. \A s \in Seq(Jobs) : s # <<>> => Len(s) \in Nat /\ Len(s) # 0
    OBVIOUS
  <2>7. Len(m.hand) \in Nat /\ Len(m.hand) # 0
    BY <2>1, <2>6
  <2>2. Len(m.hand) = 1
    <3> DEFINE l == Len(m.hand)
    <3>1. l \in Nat /\ l # 0 /\ l <= 1
      BY <2>1, <2>7
    <3> HIDE DEF l
    <3>2. l = 1
      BY <3>1
    <3> QED BY <3>2 DEF l
  <2>4. m.hand[1] \in Jobs
    BY <2>1, <2>2
  <2>5. m.hand = <<m.hand[1]>>
    BY <2>1, <2>2
  <2>3. HasNext(m.w)
    BY DEF Links
  <2> QED BY <2>1, <2>3, <2>4, <2>5, JobIds
<1>2. m.pend \in Seq(Nat) /\ Append(m.pend, x) \in UpTo(ForwardDepth, Nat)
  <2>1. m.pend \in UpTo(ForwardDepth, Nat)
    BY DEF Links
  <2> QED BY <1>1, <2>1, UpToGrows, ConstantTypes DEF UpTo
<1>3. t \in Links /\ t.pend = m.pend
  <2>1. t \in Links
    BY FieldTyped
  <2>2. t.pend = m.pend
    BY DEF Links
  <2> QED BY <2>1, <2>2
<1>4. k \in Links
  BY <1>2, <1>3, FieldTyped
<1>5. /\ k.res = m.res /\ k.pend = Append(m.pend, x) /\ k.hand = <<>> /\ k.queue = m.queue
      /\ k.work = m.work /\ k.down = m.down /\ k.w = m.w /\ k.closing = m.closing
      /\ k.relay = m.relay /\ Works(k) = Works(m)
  BY DEF Links, Works
<1> DEFINE a == Ids(m.res)
           p == m.pend
           q == Ids(m.queue)
           w == Ids(m.work)
<1>6. Ids(m.hand) = <<x>> /\ Ids(k.hand) = <<>>
  BY <1>1, <1>5, JobIds
<1>7. /\ Good(a, Append(p, x), <<>>, q, w)
      /\ Spread(Append(p, x), <<>>, q, w) = Spread(p, <<x>>, q, w)
      /\ x \in Spread(p, <<x>>, q, w) /\ \A y \in Range(p) : y < x
  <2>1. Good(a, p, <<x>>, q, w)
    BY <1>6 DEF Each, Group
  <2>3. x \in Nat
    BY <1>1
  <2> HIDE DEF a, p, q, w, x
  <2>2. Before(p, <<x>>) /\ Range(<<x>>) = {x}
    BY <2>1, <2>3, SingleOrder DEF Good, Chain
  <2>4. \A y \in Range(p) : y < x
    BY <2>2 DEF Before
  <2>5. /\ Good(a, Append(p, x), <<>>, q, w)
        /\ Spread(Append(p, x), <<>>, q, w) = Spread(p, <<x>>, q, w)
        /\ x \in Spread(p, <<x>>, q, w)
    BY <2>1, <2>3, GoodHand
  <2> QED BY <2>4, <2>5
<1>8. Each(k) /\ All(k) = All(m) /\ x \in All(m)
  BY <1>1, <1>5, <1>6, <1>7 DEF Each, Group, All
<1>9. Line(k) = Line(m)
  <2>1. Append(p, x) \o (<<>> \o (q \o w)) = p \o (<<x>> \o (q \o w))
    <3>1. q \in Seq(Nat) /\ w \in Seq(Nat) /\ q \o w \in Seq(Nat)
      BY LineTyped
    <3> HIDE DEF p, q, w, x
    <3>2. <<>> \o (q \o w) = q \o w
      BY <3>1, NothingBefore
    <3>3. Append(p, x) \o (q \o w) = p \o (<<x>> \o (q \o w))
      BY <1>1, <1>2, <3>1, Push DEF p
    <3> QED BY <3>2, <3>3
  <2> QED BY <1>5, <1>6, <2>1 DEF Line
<1>10. DownRole(k, m)
  BY <1>5, <1>8, <1>9 DEF DownRole
<1> QED BY <1>1, <1>2, <1>4, <1>5, <1>7, <1>8, <1>10

(* A request is forwarded: it is pending here before it is on its way.     *)
LEMMA ForwardSends ==
  ASSUME NEW x, Ord(conn, Held, x), NEW c \in Conns, Forwarding(c), conn[c].down # 0,
         ~conn[c].closing, PendingRoom(c)
  PROVE  Ord(SendWork(Pending(Dropped(c), c, InHand(c).id), conn[c].down, InHand(c)), Held, x)
<1> DEFINE m == conn[c]
           d == m.down
           job == InHand(c)
           md == conn[d]
           k == [[m EXCEPT !.hand = <<>>] EXCEPT !.pend = Append(@, m.hand[1].id)]
           kd == IF md.far THEN [md EXCEPT !.work = Append(@, job)] ELSE md
           ds == SendWork(Pending(Dropped(c), c, job.id), d, job)
<1>1. conn \in Net /\ m \in Links /\ Each(m) /\ d \in Conns /\ md \in Links /\ Each(md)
  <2>1. conn \in Net /\ m \in Links /\ Each(m)
    BY OrdParts
  <2>2. d \in Conns
    BY <2>1, LinkParts
  <2>3. md \in Links /\ Each(md)
    BY <2>2, OrdParts
  <2> QED BY <2>1, <2>2, <2>3
<1>2. c # d /\ Pair(m, md) /\ All(md) \subseteq Range(m.pend)
  <2>1. Pair(m, md) /\ d # c
    BY DEF Ord, Pairs, Downs
  <2> QED BY <2>1 DEF Pair
<1>3. m.hand # <<>> /\ Len(m.pend) < ForwardDepth /\ job = m.hand[1]
  BY DEF Forwarding, PendingRoom, InHand
<1>4. /\ k \in Links /\ Each(k) /\ All(k) = All(m) /\ DownRole(k, m)
      /\ k.pend = Append(m.pend, job.id) /\ m.pend \in Seq(Nat)
      /\ job \in Jobs /\ job.id \in All(m) /\ \A y \in Range(m.pend) : y < job.id
      /\ k.down = d /\ k.closing = m.closing /\ k.relay = m.relay
  BY <1>1, <1>3, Pended
<1>5. ds = [[conn EXCEPT ![c] = k] EXCEPT ![d] = kd]
  <2>1. Pending(Dropped(c), c, job.id) = [conn EXCEPT ![c] = k]
    BY <1>1, <1>3 DEF Pending, Dropped, Net
  <2>2. [conn EXCEPT ![c] = k][d] = md
    BY <1>1, <1>2 DEF Net
  <2> HIDE DEF k, job
  <2>3. CASE md.far
    BY <1>1, <2>1, <2>2, <2>3 DEF SendWork, Net
  <2>4. CASE ~md.far
    <3>1. [[conn EXCEPT ![c] = k] EXCEPT ![d] = md] = [conn EXCEPT ![c] = k]
      BY <1>1, <1>2 DEF Net
    <3> QED BY <2>1, <2>2, <2>4, <3>1 DEF SendWork
  <2> QED BY <2>3, <2>4
<1>6. /\ kd \in Links /\ Each(kd) /\ All(kd) \subseteq All(md) \cup {job.id}
      /\ (Works(kd) => Works(md) /\ Line(kd) = Append(Line(md), job.id))
      /\ kd.res = md.res /\ kd.pend = md.pend /\ kd.down = md.down /\ kd.closing = md.closing
      /\ kd.relay = md.relay
  <2>1. \A y \in All(md) : y < job.id
    BY <1>2, <1>4
  <2> HIDE DEF job, md
  <2>2. CASE md.far
    <3> DEFINE w == [md EXCEPT !.work = Append(@, job)]
    <3>1. kd = w
      BY <2>2
    <3> HIDE DEF kd
    <3>3. w = [md EXCEPT !.work = Append(@, job)]
      OBVIOUS
    <3>4. md \in Links /\ Each(md) /\ job \in Jobs
      BY <1>1, <1>4
    <3> HIDE DEF w
    <3>5. w \in Links /\ Each(w) /\ Works(w) = Works(md)
      BY <2>1, <3>3, <3>4, Sent
    <3>6. All(w) = All(md) \cup {job.id} /\ Line(w) = Append(Line(md), job.id)
      BY <2>1, <3>3, <3>4, Sent
    <3>2. /\ w.res = md.res /\ w.pend = md.pend /\ w.down = md.down /\ w.closing = md.closing
          /\ w.relay = md.relay
      BY <2>1, <3>3, <3>4, Sent
    <3> QED BY <3>1, <3>2, <3>5, <3>6
  <2>3. CASE ~md.far
    BY <1>1, <2>3 DEF Works
  <2> QED BY <2>2, <2>3
<1> HIDE DEF k, kd, ds
<1>7. ds \in Net /\ ds[c] = k /\ ds[d] = kd /\ \A b \in Conns : b # c /\ b # d => ds[b] = conn[b]
  BY <1>1, <1>2, <1>4, <1>5, <1>6 DEF Net
<1>8. Pair(k, kd)
  <2> HIDE DEF m, md, job
  <2>1. Range(Append(m.pend, job.id)) = Range(m.pend) \cup {job.id}
    BY <1>4, JobIds, RangeOfAppend
  <2>2. All(kd) \subseteq Range(k.pend)
    BY <1>2, <1>4, <1>6, <2>1
  <2>3. ASSUME k.relay, Works(kd) PROVE k.pend = Line(kd) \/ Early(k.pend, kd)
    <3>1. m.pend = Line(md) \/ Early(m.pend, md)
      BY <1>2, <1>4, <1>6, <2>3 DEF Pair, m
    <3>2. CASE m.pend = Line(md)
      BY <1>4, <1>6, <2>3, <3>2
    <3>3. CASE Early(m.pend, md)
      <4>1. PICK i \in DOMAIN md.res : i \in DOMAIN m.pend /\ ~md.res[i].ok /\ md.res[i].id # m.pend[i]
        BY <3>3 DEF Early
      <4>2. i \in DOMAIN Append(m.pend, job.id) /\ Append(m.pend, job.id)[i] = m.pend[i]
        <5>1. m.pend \in Seq(Nat) /\ i \in DOMAIN m.pend
          BY <1>4, <4>1
        <5> QED BY ONLY <5>1
      <4> QED BY <1>4, <1>6, <4>1, <4>2 DEF Early
    <3> QED BY <3>1, <3>2, <3>3
  <2> QED BY <2>2, <2>3 DEF Pair
<1>9. Rows(ds) /\ Under(ds, x)
  <2>1. \A b \in Conns : Each(conn[b]) /\ \A y \in All(conn[b]) : y < x
    BY OrdParts
  <2>2. \A b \in Conns : Each(ds[b]) /\ \A y \in All(ds[b]) : y < x
    BY <1>1, <1>4, <1>6, <1>7, <2>1
  <2> QED BY <2>2 DEF Rows, Under
<1>10. ASSUME NEW b \in Conns, ds[b].down # 0
       PROVE  /\ ds[b].down = conn[b].down
              /\ Pair(ds[b], ds[ds[b].down])
                 \/ (UpRole(ds[b], conn[b]) /\ DownRole(ds[ds[b].down], conn[ds[b].down]))
  <2>1. ds[b].down = conn[b].down
    BY <1>4, <1>6, <1>7
  <2>2. CASE b = c
    BY <1>4, <1>7, <1>8, <2>1, <2>2
  <2>3. CASE b # c
    <3> DEFINE e == conn[b].down
    <3>1. e \in Conns /\ e # d /\ e # 0
      <4>1. e \in Conns
        BY <1>1, <1>10, <2>1, LinkParts
      <4>2. e # d
        BY <1>1, <1>10, <2>1, <2>3 DEF Ord, Downs
      <4> QED BY <1>10, <2>1, <4>1, <4>2
    <3>2. UpRole(ds[b], conn[b])
      BY <1>6, <1>7, <2>3 DEF UpRole
    <3>3. DownRole(ds[e], conn[e])
      <4>1. CASE e = c
        BY <1>4, <1>7, <4>1
      <4>2. CASE e # c
        <5>1. ds[e] = conn[e]
          BY <1>7, <3>1, <4>2
        <5> HIDE DEF e
        <5> QED BY <5>1 DEF DownRole
      <4> QED BY <4>1, <4>2
    <3> QED BY <2>1, <3>2, <3>3
  <2> QED BY <2>2, <2>3
<1>11. Ord(ds, Held, x)
  <2>1. Pairs(conn) /\ Downs(conn, Held)
    BY DEF Ord
  <2> QED BY <1>1, <1>7, <1>9, <1>10, <2>1, Changes
<1> QED BY <1>11 DEF ds

(* The send fails: both connections are shut, or the queue is cancelled.   *)
LEMMA ForwardFails ==
  ASSUME NEW x, Ord(conn, Held, x), NEW c \in Conns, Forwarding(c), conn[c].down # 0,
         NEW cs, cs = Shut(Dropped(c), conn[c].down)
  PROVE  /\ AnswerOk(c) => Ord(ShutFar(Answer(cs, c, WorkError(InHand(c).id)), c), Held, x)
         /\ ~AnswerOk(c) => Ord(EvalFails(cs, c), Held, x)
<1> DEFINE m == conn[c]
           d == m.down
           r == WorkError(InHand(c).id)
           e == Shut(conn, d)
           k == [m EXCEPT !.hand = <<>>]
           kf == [k EXCEPT !.far = FALSE]
           ka == [[k EXCEPT !.res = Append(@, r)] EXCEPT !.far = FALSE]
<1>1. conn \in Net /\ m \in Links /\ Each(m) /\ d \in Conns /\ d # c
  <2>1. conn \in Net /\ m \in Links /\ Each(m)
    BY OrdParts
  <2>2. d \in Conns
    BY <2>1, LinkParts
  <2>3. d # c
    BY DEF Ord, Downs
  <2> QED BY <2>1, <2>2, <2>3
<1>2. r \in Results /\ r.id = InHand(c).id /\ ~r.ok
  <2>1. InHand(c).id \in Nat
    BY <1>1, DroppedTyped
  <2> QED BY <2>1, WorkErrorTyped DEF WorkError
<1>3. Ord(e, Held, x) /\ e[c] = m /\ e \in Net
  <2>1. Ord(e, Held, x)
    BY <1>1, ShutOrder
  <2>2. e[c] = m
    BY <1>1 DEF Shut, Net
  <2> QED BY <2>1, <2>2, OrdParts
<1>4. cs = [e EXCEPT ![c] = k]
  BY <1>1 DEF Shut, Dropped, Net
<1>5. k \in Links /\ k.near = m.near /\ k.far = m.far
  <2>1. k \in Links
    BY <1>1, FieldTyped
  <2> QED BY <1>1, <2>1 DEF Links
<1>6. m.hand # <<>> /\ r.id = m.hand[1].id
  BY <1>2 DEF Forwarding, InHand
<1> HIDE DEF e, r
<1>7. kf \in Links /\ [k EXCEPT !.res = Append(@, r)] \in Links /\ ka \in Links
  <2>1. Append(k.res, r) \in Seq(Results)
    BY <1>2, <1>5, LineTyped, SeqSteps
  <2>2. kf \in Links /\ [k EXCEPT !.res = Append(@, r)] \in Links
    BY <1>5, <2>1, FieldTyped
  <2> QED BY <2>2, FieldTyped
<1>8. /\ Leaves(kf, m, r.id) /\ ~Works(kf) /\ kf.relay = m.relay /\ kf.closing = m.closing
      /\ kf.res = m.res
  BY <1>1, <1>6 DEF Leaves, Works, Links
<1>9. /\ Leaves(ka, m, r.id) /\ ~Works(ka) /\ ka.relay = m.relay /\ ka.closing = m.closing
      /\ ka.res = Append(m.res, r)
  BY <1>1, <1>6 DEF Leaves, Works, Links
<1>10. /\ Leaves(k, m, r.id) /\ k.relay = m.relay /\ k.closing = m.closing /\ k.res = m.res
  BY <1>1, <1>6 DEF Leaves, Works, Links
<1>11. CASE AnswerOk(c) /\ m.near
  <2>1. ShutFar(Answer(cs, c, r), c) = [e EXCEPT ![c] = ka]
    <3>1. m.near /\ m.far
      BY <1>11 DEF AnswerOk
    <3>2. cs[c] = k /\ k.near /\ k.far
      BY <1>1, <1>3, <1>4, <1>5, <3>1 DEF Net
    <3> HIDE DEF m, k
    <3> QED BY <1>3, <1>4, <3>2 DEF ShutFar, Answer, Net
  <2> HIDE DEF k, ka, m
  <2>2. Ord([e EXCEPT ![c] = ka], Held, x)
    BY <1>2, <1>3, <1>7, <1>9, LeaveAnswered
  <2> QED BY <1>11, <2>1, <2>2 DEF r
<1>12. CASE AnswerOk(c) /\ ~m.near
  <2>1. ShutFar(Answer(cs, c, r), c) = [e EXCEPT ![c] = kf]
    <3>1. cs[c] = k /\ ~k.near
      BY <1>1, <1>3, <1>4, <1>5, <1>12 DEF Net
    <3> HIDE DEF m, k
    <3> QED BY <1>3, <1>4, <3>1 DEF ShutFar, Answer, Net
  <2> HIDE DEF k, kf, m
  <2>2. Ord([e EXCEPT ![c] = kf], Held, x)
    BY <1>3, <1>7, <1>8, LeaveBroken
  <2> QED BY <1>12, <2>1, <2>2 DEF r
<1>13. CASE ~AnswerOk(c)
  <2>1. ~Works(k) /\ cs[c] = k
    BY <1>1, <1>3, <1>4, <1>5, <1>13 DEF Works, AnswerOk, Net
  <2> HIDE DEF k, m
  <2>2. Ord([e EXCEPT ![c] = k], Held, x)
    BY <1>3, <1>5, <1>10, <2>1, LeaveBroken
  <2>3. Ord(cs, Held, x)
    BY <1>4, <2>2
  <2>4. Ord(EvalFails(cs, c), Held, x)
    BY <2>1, <2>3, CancelOrder
  <2> QED BY <1>13, <2>4
<1> QED BY <1>11, <1>12, <1>13

LEMMA OrderForward == ASSUME OrderInv, NEW c \in Conns, Forward(c) PROVE OrderInv'
<1> DEFINE d == conn[c].down
           job == InHand(c)
<1>1. /\ Ord(conn, Held, Bound) /\ UNCHANGED <<caller, pipe, route>>
      /\ Forwarding(c) /\ d # 0
  BY DEF OrderInv, Forward, Serving
<1>2. CASE Replies(Dropped(c), c, WorkError(job.id))
  BY <1>1, <1>2, DropOrder, ServingOrder
<1>3. CASE /\ ~conn[c].closing /\ PendingRoom(c)
           /\ Conn(SendWork(Pending(Dropped(c), c, job.id), d, job))
  <2>1. Ord(SendWork(Pending(Dropped(c), c, job.id), d, job), Held, Bound)
    BY <1>1, <1>3, ForwardSends
  <2> QED BY <1>1, <1>3, <2>1, ConnOrder
<1>4. CASE IF AnswerOk(c)
           THEN Conn(ShutFar(Answer(Shut(Dropped(c), d), c, WorkError(job.id)), c))
           ELSE Conn(EvalFails(Shut(Dropped(c), d), c))
  <2> DEFINE cs == Shut(Dropped(c), d)
  <2>1. /\ AnswerOk(c) => Ord(ShutFar(Answer(cs, c, WorkError(job.id)), c), Held, Bound)
        /\ ~AnswerOk(c) => Ord(EvalFails(cs, c), Held, Bound)
    BY <1>1, ForwardFails
  <2>2. CASE AnswerOk(c)
    BY <1>1, <1>4, <2>1, <2>2, ConnOrder
  <2>3. CASE ~AnswerOk(c)
    BY <1>1, <1>4, <2>1, <2>3, ConnOrder
  <2> QED BY <2>2, <2>3
<1> QED BY <1>2, <1>3, <1>4 DEF Forward

(* The relay thread of connection m ends: the first pending request is     *)
(* perhaps answered with an error report.                                  *)
PoppedLink(m) == [m EXCEPT !.pend = IF @ = <<>> THEN @ ELSE Tail(@)]
Reported(m) ==
  IF m.pend # <<>> /\ m.near /\ m.far
  THEN [PoppedLink(m) EXCEPT !.res = Append(@, WorkError(Head(m.pend)))] ELSE PoppedLink(m)
EndedLink(k) == [[[k EXCEPT !.relay = FALSE] EXCEPT !.closing = TRUE] EXCEPT !.far = FALSE]

(* The first pending request leaves, answered by r or not.                 *)
LEMMA PoppedFacts ==
  ASSUME NEW m \in Links, Each(m), m.pend # <<>>, NEW r \in Results, r.id = Head(m.pend),
         NEW k, k = PoppedLink(m), NEW ka, ka = [k EXCEPT !.res = Append(@, r)]
  PROVE  /\ k \in Links /\ Each(k) /\ All(k) \subseteq All(m)
         /\ k.pend = Tail(m.pend) /\ k.down = m.down /\ k.relay = m.relay /\ k.closing = m.closing
         /\ k.near = m.near /\ k.far = m.far
         /\ ka \in Links /\ Each(ka) /\ All(ka) \subseteq All(m) /\ DownRole(ka, m)
         /\ ka.pend = Tail(m.pend) /\ ka.down = m.down /\ ka.relay = m.relay
         /\ ka.closing = m.closing
<1>1. m.pend \in Seq(Nat) /\ m.pend \in UpTo(ForwardDepth, Nat)
  BY LineTyped DEF Links
<1>2. k \in Links /\ k.res = m.res
  <2>1. Tail(m.pend) \in UpTo(ForwardDepth, Nat)
    BY <1>1, UpToShrinks, ConstantTypes
  <2>2. k = [m EXCEPT !.pend = Tail(m.pend)]
    BY DEF PoppedLink
  <2>3. k \in Links
    BY <2>1, <2>2, FieldTyped
  <2>4. k.res = m.res
    BY <2>2 DEF Links
  <2> QED BY <2>3, <2>4
<1>3. ka \in Links
  <2>1. Append(k.res, r) \in Seq(Results)
    BY <1>2, LineTyped, SeqSteps
  <2> QED BY <1>2, <2>1, FieldTyped
<1>4. /\ k.res = m.res /\ k.pend = Tail(m.pend) /\ k.hand = m.hand /\ k.queue = m.queue
      /\ k.work = m.work /\ k.down = m.down /\ k.w = m.w /\ k.closing = m.closing
      /\ k.relay = m.relay /\ k.near = m.near /\ k.far = m.far
  BY DEF Links, PoppedLink
<1>5. /\ ka.res = Append(m.res, r) /\ ka.pend = Tail(m.pend) /\ ka.hand = m.hand
      /\ ka.queue = m.queue /\ ka.work = m.work /\ ka.down = m.down /\ ka.w = m.w
      /\ ka.closing = m.closing /\ ka.relay = m.relay /\ Works(ka) = Works(m)
  BY DEF Links, PoppedLink, Works
<1> DEFINE a == Ids(m.res)
           p == m.pend
           h == Ids(m.hand)
           q == Ids(m.queue)
           w == Ids(m.work)
<1>6. Ids(ka.res) = Append(a, Head(p)) /\ m.res \in Seq(Results)
  <2>1. m.res \in Seq(Results)
    BY LineTyped
  <2> QED BY <1>5, <2>1, ResultSteps
<1>7. /\ Good(a, Tail(p), h, q, w) /\ Good(Append(a, Head(p)), Tail(p), h, q, w)
      /\ Spread(p, h, q, w) = Spread(Tail(p), h, q, w) \cup {Head(p)}
      /\ Range(Append(a, Head(p))) = Range(a) \cup {Head(p)}
  <2>1. Good(a, p, h, q, w)
    BY DEF Each, Group
  <2>2. p # <<>>
    OBVIOUS
  <2> HIDE DEF a, p, h, q, w
  <2>3. Good(a, Tail(p), h, q, w)
    BY <2>1, <2>2, GoodPop
  <2>4. Good(Append(a, Head(p)), Tail(p), h, q, w)
    BY <2>1, <2>2, GoodPop
  <2>5. Spread(p, h, q, w) = Spread(Tail(p), h, q, w) \cup {Head(p)}
    <3>1. p \in Seq(Nat)
      BY <2>1, GoodTypes
    <3>2. Range(p) = Range(Tail(p)) \cup {Head(p)}
      BY <2>2, <3>1, RangeOfTail
    <3> QED BY <3>2 DEF Spread
  <2>6. Range(Append(a, Head(p))) = Range(a) \cup {Head(p)}
    BY <2>1, <2>2, GoodPop
  <2> QED BY <2>3, <2>4, <2>5, <2>6
<1>8. Each(k) /\ All(k) \subseteq All(m)
  <2>1. Group(k) /\ All(k) \subseteq All(m)
    BY <1>4, <1>7 DEF Group, All
  <2> QED BY <1>4, <2>1 DEF Each
<1>9. Each(ka) /\ All(ka) \subseteq All(m)
  <2>1. Group(ka) /\ All(ka) \subseteq All(m)
    BY <1>5, <1>6, <1>7 DEF Group, All
  <2> QED BY <1>5, <2>1 DEF Each
<1>10. Line(ka) = Line(m)
  <2>1. /\ a \in Seq(Nat) /\ h \o (q \o w) \in Seq(Nat) /\ p \in Seq(Nat) /\ p # <<>>
    BY LineTyped
  <2> DEFINE t == h \o (q \o w)
  <2> HIDE DEF a, p, t
  <2>2. Append(a, Head(p)) \o (Tail(p) \o t) = a \o (p \o t)
    <3>1. p \o t = <<Head(p)>> \o (Tail(p) \o t)
      BY <2>1, Uncons DEF t
    <3>2. Tail(p) \in Seq(Nat) /\ Head(p) \in Nat
      BY <2>1
    <3>3. Tail(p) \o t \in Seq(Nat)
      BY <2>1, <3>2 DEF t
    <3>4. Append(a, Head(p)) \o (Tail(p) \o t) = a \o (<<Head(p)>> \o (Tail(p) \o t))
      BY <2>1, <3>2, <3>3, Push
    <3> QED BY <3>1, <3>4
  <2> QED BY <1>5, <1>6, <2>2 DEF Line, t, p, a
<1>11. DownRole(ka, m)
  <2>1. \A i \in DOMAIN m.res : i \in DOMAIN ka.res /\ ka.res[i] = m.res[i]
    BY <1>5, <1>6
  <2> QED BY <1>5, <1>9, <1>10, <2>1 DEF DownRole
<1> QED BY <1>2, <1>3, <1>4, <1>5, <1>8, <1>9, <1>11

(* The relay thread ends on a connection ended thus.                       *)
LEMMA EndedOrder ==
  ASSUME NEW cs, NEW held, NEW x, Ord(cs, held, x), NEW c \in Conns,
         NEW k, k = PoppedLink(cs[c]) \/ k = Reported(cs[c])
  PROVE  Ord([cs EXCEPT ![c] = EndedLink(k)], held, x)
<1> DEFINE m == cs[c]
           e == EndedLink(k)
<1>1. m \in Links /\ Each(m)
  BY OrdParts
<1>2. k \in Links /\ Each(k) /\ All(k) \subseteq All(m) /\ k.down = m.down
  <2>1. CASE m.pend = <<>>
    <3>1. k = m
      BY <1>1, <2>1 DEF PoppedLink, Reported, Links
    <3> QED BY <1>1, <3>1
  <2>2. CASE m.pend # <<>>
    <3> DEFINE r == WorkError(Head(m.pend))
    <3>1. r \in Results /\ r.id = Head(m.pend)
      <4>1. m.pend \in Seq(Nat)
        BY <1>1, LineTyped
      <4>2. Head(m.pend) \in Nat
        BY <2>2, <4>1
      <4> QED BY <4>2, WorkErrorTyped DEF WorkError
    <3>2. k = PoppedLink(m) \/ k = [PoppedLink(m) EXCEPT !.res = Append(@, r)]
      BY DEF Reported
    <3> HIDE DEF r, m
    <3>3. CASE k = PoppedLink(m)
      BY <1>1, <2>2, <3>1, <3>3, PoppedFacts
    <3>4. CASE k = [PoppedLink(m) EXCEPT !.res = Append(@, r)]
      BY <1>1, <2>2, <3>1, <3>4, PoppedFacts
    <3> QED BY <3>2, <3>3, <3>4
  <2> QED BY <2>1, <2>2
<1>3. e \in Links
  BY <1>2, FieldTyped DEF EndedLink
<1>4. SameIds(e, k) /\ e.closing /\ ~Works(e) /\ e.down = m.down
  BY <1>2 DEF SameIds, EndedLink, Works, Links
<1> HIDE DEF e, m
<1>5. Each(e) /\ All(e) \subseteq All(m)
  BY <1>2, <1>4, SameEach
<1>6. UpRole(e, m) /\ DownRole(e, m)
  BY <1>4, <1>5 DEF UpRole, DownRole
<1> QED BY <1>3, <1>4, <1>5, <1>6, OneChange DEF e, m

(* How the steps of the relay thread end it.                               *)
LEMMA EndsWritten ==
  ASSUME NEW cs \in Net, NEW c \in Conns, cs[c] = conn[c]
  PROVE  /\ RelayEnds(RelayError(cs, c), c) = [cs EXCEPT ![c] = EndedLink(Reported(cs[c]))]
         /\ RelayEnds(Popped(cs, c), c) = [cs EXCEPT ![c] = EndedLink(PoppedLink(cs[c]))]
<1> DEFINE m == cs[c]
           ps == Popped(cs, c)
<1>1. m \in Links /\ ps = [cs EXCEPT ![c] = PoppedLink(m)] /\ ps[c] = PoppedLink(m)
  BY LinkParts DEF Popped, PoppedLink, Net
<1>2. PoppedLink(m).near = m.near /\ PoppedLink(m).far = m.far
  BY <1>1 DEF PoppedLink, Links
<1>3. RelayError(cs, c) = [cs EXCEPT ![c] = Reported(m)]
  <2>1. CASE m.pend = <<>>
    <3>1. Reported(m) = m
      BY <1>1, <2>1 DEF PoppedLink, Reported, Links
    <3>2. RelayError(cs, c) = cs
      BY <2>1 DEF RelayError
    <3>3. [cs EXCEPT ![c] = m] = cs
      BY DEF Net
    <3> QED BY <3>1, <3>2, <3>3
  <2>2. CASE m.pend # <<>>
    <3> DEFINE r == WorkError(Head(m.pend))
    <3>1. RelayError(cs, c) = Answer(ps, c, r)
      BY <2>2 DEF RelayError
    <3> HIDE DEF r, ps
    <3>2. CASE m.near /\ m.far
      <4>1. Answer(ps, c, r) = [ps EXCEPT ![c] = [PoppedLink(m) EXCEPT !.res = Append(@, r)]]
        BY <1>1, <1>2, <3>2 DEF Answer, Net
      <4>2. Reported(m) = [PoppedLink(m) EXCEPT !.res = Append(@, r)]
        BY <2>2, <3>2 DEF Reported, r
      <4> QED BY <1>1, <3>1, <4>1, <4>2 DEF Net
    <3>3. CASE ~(m.near /\ m.far)
      <4>1. Answer(ps, c, r) = ps
        BY <1>1, <1>2, <3>3 DEF Answer
      <4>2. Reported(m) = PoppedLink(m)
        BY <3>3 DEF Reported
      <4> QED BY <1>1, <3>1, <4>1, <4>2
    <3> QED BY <3>2, <3>3
  <2> QED BY <2>1, <2>2
<1>4. ASSUME NEW k PROVE RelayEnds([cs EXCEPT ![c] = k], c) = [cs EXCEPT ![c] = EndedLink(k)]
  <2>1. [[cs EXCEPT ![c] = k] EXCEPT ![c].relay = FALSE, ![c].closing = TRUE]
          = [cs EXCEPT ![c] = [[k EXCEPT !.relay = FALSE] EXCEPT !.closing = TRUE]]
    BY DEF Net
  <2>2. ShutFar([cs EXCEPT ![c] = [[k EXCEPT !.relay = FALSE] EXCEPT !.closing = TRUE]], c)
          = [cs EXCEPT ![c] = EndedLink(k)]
    BY DEF Net, ShutFar, EndedLink
  <2> QED BY <2>1, <2>2 DEF RelayEnds
<1>5. RelayEnds(RelayError(cs, c), c) = [cs EXCEPT ![c] = EndedLink(Reported(m))]
  BY <1>3, <1>4
<1>6. RelayEnds(ps, c) = [cs EXCEPT ![c] = EndedLink(PoppedLink(m))]
  BY <1>1, <1>4
<1> QED BY <1>5, <1>6

(* The relay thread reads an answer and ends.                              *)
LEMMA RelayStops ==
  ASSUME NEW x, Ord(conn, Held, x), NEW c \in Conns, NEW d, d = conn[c].down, d # 0,
         conn[d].res # <<>>, NEW cs, cs = Received(conn, d)
  PROVE  /\ Ord(RelayEnds(RelayError(cs, c), c), Held, x)
         /\ Ord(RelayEnds(Popped(cs, c), c), Held, x)
<1> DEFINE m == conn[c]
           md == conn[d]
           kd == [md EXCEPT !.res = Tail(@)]
<1>1. conn \in Net /\ m \in Links /\ d \in Conns /\ d # c /\ md \in Links /\ Each(md)
  <2>1. conn \in Net /\ m \in Links
    BY OrdParts
  <2>2. d \in Conns
    BY <2>1, LinkParts
  <2>3. d # c
    BY DEF Ord, Downs
  <2> QED BY <2>1, <2>2, <2>3, OrdParts
<1>2. cs \in Net /\ cs[c] = m /\ cs = [conn EXCEPT ![d] = kd]
  BY <1>1, ReceivedTyped DEF Received, Net
<1>3. kd \in Links /\ Each(kd) /\ All(kd) \subseteq All(md) /\ UpRole(kd, md) /\ kd.down = md.down
  <2>1. md.res \in Seq(Results) /\ Tail(md.res) \in Seq(Results)
    BY <1>1, LineTyped, SeqSteps
  <2>2. kd \in Links
    BY <1>1, <2>1, FieldTyped
  <2>3. /\ kd.res = Tail(md.res) /\ kd.pend = md.pend /\ kd.hand = md.hand /\ kd.queue = md.queue
        /\ kd.work = md.work /\ kd.down = md.down /\ kd.w = md.w /\ kd.closing = md.closing
        /\ kd.relay = md.relay
    BY <1>1 DEF Links
  <2> HIDE DEF md, kd
  <2> DEFINE a == Ids(md.res)
             p == md.pend
             h == Ids(md.hand)
             q == Ids(md.queue)
             w == Ids(md.work)
  <2>4. Ids(kd.res) = Tail(a) /\ a # <<>>
    BY <2>1, <2>3, ResultSteps DEF md
  <2>5. Good(Tail(a), p, h, q, w) /\ Range(Tail(a)) \subseteq Range(a)
    <3>1. Good(a, p, h, q, w)
      BY <1>1 DEF Each, Group
    <3> HIDE DEF a, p, h, q, w
    <3> QED BY <2>4, <3>1, GoodRead
  <2>6. Group(kd) /\ All(kd) \subseteq All(md)
    BY <2>3, <2>4, <2>5 DEF Group, All
  <2> QED BY <1>1, <2>2, <2>3, <2>6 DEF Each, UpRole
<1> HIDE DEF kd
<1>4. ASSUME NEW k, k = PoppedLink(m) \/ k = Reported(m)
      PROVE  Ord([cs EXCEPT ![c] = EndedLink(k)], Held, x)
  <2> DEFINE e == [conn EXCEPT ![c] = EndedLink(k)]
  <2>1. Ord(e, Held, x)
    BY <1>4, EndedOrder
  <2>2. e \in Net /\ e[d] = md /\ e[c] = EndedLink(k) /\ \A b \in Conns : b # c => e[b] = conn[b]
    BY <1>1, <2>1, OrdParts DEF Net
  <2>3. EndedLink(k).closing
    <3>1. e[c] \in Links
      BY <2>1, OrdParts
    <3> QED BY <2>2, <3>1 DEF EndedLink, Links
  <2>4. \A b \in Conns : e[b].down = d => e[b].closing
    <3> SUFFICES ASSUME NEW b \in Conns, e[b].down = d, b # c PROVE FALSE
      BY <2>2, <2>3
    <3>1. conn[b].down = d
      BY <2>2
    <3> QED BY <3>1 DEF Ord, Downs
  <2>5. [e EXCEPT ![d] = kd] = [cs EXCEPT ![c] = EndedLink(k)]
    BY <1>1, <1>2 DEF Net
  <2> HIDE DEF e
  <2>6. Ord([e EXCEPT ![d] = kd], Held, x)
    BY <1>1, <1>3, <2>1, <2>2, <2>4, OneChange
  <2> QED BY <2>5, <2>6
<1>5. Ord([cs EXCEPT ![c] = EndedLink(Reported(m))], Held, x)
  BY <1>4
<1>6. Ord([cs EXCEPT ![c] = EndedLink(PoppedLink(m))], Held, x)
  BY <1>4
<1> QED BY <1>2, <1>5, <1>6, EndsWritten

(* The answer expected is read and passed on.                              *)
LEMMA RelayPasses ==
  ASSUME NEW x, Ord(conn, Held, x), NEW c \in Conns, NEW d, d = conn[c].down, d # 0,
         conn[d].res # <<>>, NEW r, r = Head(conn[d].res),
         conn[c].pend # <<>>, r.id = Head(conn[c].pend), conn[c].far
  PROVE  Ord(Answer(Popped(Received(conn, d), c), c, r), Held, x)
<1> DEFINE m == conn[c]
           md == conn[d]
           kd == [md EXCEPT !.res = Tail(@)]
           kp == PoppedLink(m)
           ka == [kp EXCEPT !.res = Append(@, r)]
           k == IF m.near THEN ka ELSE kp
           ds == Answer(Popped(Received(conn, d), c), c, r)
<1>1. conn \in Net /\ m \in Links /\ Each(m) /\ d \in Conns /\ d # c /\ md \in Links /\ Each(md)
  <2>1. conn \in Net /\ m \in Links /\ Each(m)
    BY OrdParts
  <2>2. d \in Conns
    BY <2>1, LinkParts
  <2>3. d # c
    BY DEF Ord, Downs
  <2> QED BY <2>1, <2>2, <2>3, OrdParts
<1>2. md.res \in Seq(Results) /\ Tail(md.res) \in Seq(Results) /\ r \in Results
  BY <1>1, LineTyped, SeqSteps
<1>3. /\ kp \in Links /\ Each(kp) /\ All(kp) \subseteq All(m)
      /\ kp.pend = Tail(m.pend) /\ kp.down = d /\ kp.relay = m.relay /\ kp.closing = m.closing
      /\ kp.near = m.near /\ kp.far = m.far
      /\ ka \in Links /\ Each(ka) /\ All(ka) \subseteq All(m) /\ DownRole(ka, m)
      /\ ka.pend = Tail(m.pend) /\ ka.down = d /\ ka.relay = m.relay /\ ka.closing = m.closing
  <2> DEFINE q1 == kp
             q2 == [q1 EXCEPT !.res = Append(@, r)]
  <2>1. q1 = PoppedLink(m) /\ q2 = [q1 EXCEPT !.res = Append(@, r)]
    OBVIOUS
  <2> HIDE DEF q1, q2, kp, m
  <2>4. m.pend # <<>> /\ r.id = Head(m.pend) /\ m \in Links /\ Each(m) /\ r \in Results
    BY <1>1, <1>2 DEF m
  <2>2. /\ q1 \in Links /\ Each(q1) /\ All(q1) \subseteq All(m)
        /\ q1.pend = Tail(m.pend) /\ q1.down = m.down /\ q1.relay = m.relay /\ q1.closing = m.closing
        /\ q1.near = m.near /\ q1.far = m.far
    BY <2>1, <2>4, PoppedFacts
  <2>5. q2 \in Links /\ Each(q2) /\ All(q2) \subseteq All(m)
    <3>1. q2 \in Links
      BY <2>1, <2>4, PoppedFacts
    <3>2. Each(q2)
      BY <2>1, <2>4, PoppedFacts
    <3>3. DownRole(q2, m)
      BY <2>1, <2>4, PoppedFacts
    <3> QED BY <3>1, <3>2, <3>3 DEF DownRole
  <2>6. DownRole(q2, m)
    BY <2>1, <2>4, PoppedFacts
  <2>7. q2.pend = Tail(m.pend) /\ q2.down = m.down
    BY <2>1, <2>4, PoppedFacts
  <2>8. q2.relay = m.relay /\ q2.closing = m.closing
    BY <2>1, <2>4, PoppedFacts
  <2>3. /\ q2 \in Links /\ Each(q2) /\ All(q2) \subseteq All(m) /\ DownRole(q2, m)
        /\ q2.pend = Tail(m.pend) /\ q2.down = m.down /\ q2.relay = m.relay
        /\ q2.closing = m.closing
    BY <2>5, <2>6, <2>7, <2>8
  <2> QED BY <2>2, <2>3 DEF q1, q2, m
<1>4. ds = [[conn EXCEPT ![c] = k] EXCEPT ![d] = kd]
  <2>1. Received(conn, d) = [conn EXCEPT ![d] = kd]
    BY <1>1 DEF Received, Net
  <2>2. Popped(Received(conn, d), c) = [[conn EXCEPT ![d] = kd] EXCEPT ![c] = kp]
    BY <1>1, <2>1 DEF Popped, PoppedLink, Net
  <2> DEFINE ps == [[conn EXCEPT ![d] = kd] EXCEPT ![c] = kp]
  <2>3. ps[c] = kp
    BY <1>1 DEF Net
  <2>4. kp.near = m.near /\ kp.far
    BY <1>3
  <2> HIDE DEF kp, kd, m
  <2>5. CASE m.near
    <3>1. Answer(ps, c, r) = [ps EXCEPT ![c] = ka]
      BY <1>1, <2>3, <2>4, <2>5 DEF Answer, Net
    <3>2. [ps EXCEPT ![c] = ka] = [[conn EXCEPT ![c] = ka] EXCEPT ![d] = kd]
      BY <1>1 DEF Net
    <3> QED BY <2>2, <2>5, <3>1, <3>2
  <2>6. CASE ~m.near
    <3>1. Answer(ps, c, r) = ps
      BY <2>3, <2>4, <2>6 DEF Answer
    <3>2. ps = [[conn EXCEPT ![c] = kp] EXCEPT ![d] = kd]
      BY <1>1 DEF Net
    <3> QED BY <2>2, <2>6, <3>1, <3>2
  <2> QED BY <2>5, <2>6
<1>5. /\ k \in Links /\ Each(k) /\ All(k) \subseteq All(m) /\ DownRole(k, m)
      /\ k.pend = Tail(m.pend) /\ k.down = d /\ k.relay = m.relay /\ k.closing = m.closing
  <2>1. CASE m.near
    BY <1>3, <2>1
  <2>2. CASE ~m.near
    <3>1. k = kp /\ ~Works(kp)
      BY <1>3, <2>2 DEF Works
    <3> HIDE DEF k, kp
    <3> QED BY <1>3, <3>1 DEF DownRole
  <2> QED BY <2>1, <2>2
<1>6. /\ kd \in Links
      /\ kd.res = Tail(md.res) /\ kd.pend = md.pend /\ kd.hand = md.hand /\ kd.queue = md.queue
      /\ kd.work = md.work /\ kd.down = md.down /\ kd.w = md.w /\ kd.closing = md.closing
      /\ kd.relay = md.relay /\ Works(kd) = Works(md)
  <2>1. kd \in Links
    BY <1>1, <1>2, FieldTyped
  <2>2. /\ kd.res = Tail(md.res) /\ kd.pend = md.pend /\ kd.hand = md.hand /\ kd.queue = md.queue
        /\ kd.work = md.work /\ kd.down = md.down /\ kd.w = md.w /\ kd.closing = md.closing
        /\ kd.relay = md.relay /\ Works(kd) = Works(md)
    BY <1>1 DEF Links, Works
  <2> QED BY <2>1, <2>2
<1> HIDE DEF k, kp, ka, kd, ds, md, m
<1> DEFINE a == Ids(md.res)
           p == md.pend
           h == Ids(md.hand)
           q == Ids(md.queue)
           w == Ids(md.work)
<1>7. Ids(kd.res) = Tail(a) /\ a # <<>> /\ Head(a) = Head(m.pend)
  BY <1>2, <1>6, ResultSteps DEF md, m
<1>8. /\ Good(Tail(a), p, h, q, w) /\ Range(Tail(a)) \subseteq Range(a)
      /\ Head(a) \notin Range(Tail(a)) \cup Spread(p, h, q, w)
  <2>1. Good(a, p, h, q, w)
    BY <1>1 DEF Each, Group
  <2>2. a # <<>>
    BY <1>7
  <2> HIDE DEF a, p, h, q, w
  <2> QED BY <2>1, <2>2, GoodRead
<1>9. Each(kd) /\ All(kd) \subseteq All(md) /\ Head(m.pend) \notin All(kd)
  <2>1. Group(kd) /\ All(kd) \subseteq All(md) /\ Head(m.pend) \notin All(kd)
    BY <1>6, <1>7, <1>8 DEF Group, All
  <2> QED BY <1>1, <1>6, <2>1 DEF Each
<1>10. Line(md) = <<Head(a)>> \o Line(kd) /\ Line(kd) \in Seq(Nat) /\ Head(a) \in Nat
  <2>1. a \in Seq(Nat) /\ p \o (h \o (q \o w)) \in Seq(Nat) /\ a # <<>>
    BY <1>1, <1>7, LineTyped
  <2>2. Line(md) = a \o (p \o (h \o (q \o w))) /\ Line(kd) = Tail(a) \o (p \o (h \o (q \o w)))
    BY <1>6, <1>7 DEF Line
  <2>3. Line(kd) \in Seq(Nat)
    BY <1>6, LineTyped
  <2> DEFINE t == p \o (h \o (q \o w))
  <2> HIDE DEF a, t
  <2>4. a \o t = <<Head(a)>> \o (Tail(a) \o t)
    BY <2>1, Uncons DEF t
  <2>5. Head(a) \in Nat
    BY <2>1
  <2> QED BY <2>2, <2>3, <2>4, <2>5 DEF t
<1>11. m.pend \in Seq(Nat) /\ m.pend # <<>>
  BY <1>1, LineTyped DEF m
<1>12. Pair(m, md)
  BY DEF Ord, Pairs, m, md
<1>13. Pair(k, kd)
  <2> HIDE DEF a
  <2>1. ASSUME ~k.closing PROVE All(kd) \subseteq Range(k.pend)
    <3>1. All(md) \subseteq Range(m.pend)
      BY <1>5, <1>12, <2>1 DEF Pair
    <3>2. Range(m.pend) = Range(Tail(m.pend)) \cup {Head(m.pend)}
      BY <1>11, RangeOfTail
    <3> QED BY <1>5, <1>9, <3>1, <3>2
  <2>2. ASSUME ~k.closing, k.relay, Works(kd) PROVE k.pend = Line(kd) \/ Early(k.pend, kd)
    <3>1. m.pend = Line(md) \/ Early(m.pend, md)
      BY <1>5, <1>6, <1>12, <2>2 DEF Pair
    <3>2. CASE m.pend = Line(md)
      <4>1. Tail(<<Head(a)>> \o Line(kd)) = Line(kd)
        <5> DEFINE l == Line(kd)
        <5>1. l \in Seq(Nat) /\ Head(a) \in Nat
          BY <1>10
        <5> HIDE DEF l
        <5>2. Tail(<<Head(a)>> \o l) = l
          BY <5>1
        <5> QED BY <5>2 DEF l
      <4> QED BY <1>5, <1>10, <3>2, <4>1
    <3>3. CASE Early(m.pend, md)
      <4>1. PICK i \in DOMAIN md.res : i \in DOMAIN m.pend /\ ~md.res[i].ok /\ md.res[i].id # m.pend[i]
        BY <3>3 DEF Early
      <4>2. i # 1
        <5>1. md.res[1] = r /\ m.pend[1] = Head(m.pend)
          BY <1>2, <1>11 DEF md
        <5>2. r.id = Head(m.pend)
          BY DEF m
        <5> QED BY <4>1, <5>1, <5>2
      <4>3. /\ i - 1 \in DOMAIN Tail(md.res) /\ Tail(md.res)[i - 1] = md.res[i]
            /\ i - 1 \in DOMAIN Tail(m.pend) /\ Tail(m.pend)[i - 1] = m.pend[i]
        <5>1. /\ md.res \in Seq(Results) /\ m.pend \in Seq(Nat) /\ i \in DOMAIN md.res
              /\ i \in DOMAIN m.pend
          BY <1>2, <1>11, <4>1
        <5> DEFINE s == md.res
                   g == m.pend
        <5>2. s \in Seq(Results) /\ g \in Seq(Nat) /\ i \in DOMAIN s /\ i \in DOMAIN g
          BY <5>1
        <5> HIDE DEF s, g
        <5>3. i - 1 \in DOMAIN Tail(s) /\ Tail(s)[i - 1] = s[i]
          BY <4>2, <5>2
        <5>4. i - 1 \in DOMAIN Tail(g) /\ Tail(g)[i - 1] = g[i]
          BY <4>2, <5>2
        <5> QED BY <5>3, <5>4 DEF s, g
      <4> QED BY <1>5, <1>6, <4>1, <4>3 DEF Early
    <3> QED BY <3>1, <3>2, <3>3
  <2> QED BY <2>1, <2>2 DEF Pair
<1>14. ds \in Net /\ ds[c] = k /\ ds[d] = kd /\ \A b \in Conns : b # c /\ b # d => ds[b] = conn[b]
  BY <1>1, <1>4, <1>5, <1>6 DEF Net
<1>15. Rows(ds) /\ Under(ds, x)
  <2>1. \A b \in Conns : Each(conn[b]) /\ \A y \in All(conn[b]) : y < x
    BY OrdParts
  <2>2. \A b \in Conns : Each(ds[b]) /\ \A y \in All(ds[b]) : y < x
    BY <1>1, <1>5, <1>9, <1>14, <2>1 DEF m, md
  <2> QED BY <2>2 DEF Rows, Under
<1>16. ASSUME NEW b \in Conns, ds[b].down # 0
       PROVE  /\ ds[b].down = conn[b].down
              /\ Pair(ds[b], ds[ds[b].down])
                 \/ (UpRole(ds[b], conn[b]) /\ DownRole(ds[ds[b].down], conn[ds[b].down]))
  <2>1. ds[b].down = conn[b].down
    BY <1>5, <1>6, <1>14 DEF m, md
  <2>2. CASE b = c
    BY <1>5, <1>13, <1>14, <2>1, <2>2
  <2>3. CASE b # c
    <3> DEFINE e == conn[b].down
    <3>1. e \in Conns /\ e # d /\ e # 0
      <4>1. e \in Conns
        BY <1>1, <1>16, <2>1, LinkParts
      <4>2. e # d
        BY <1>1, <1>16, <2>1, <2>3 DEF Ord, Downs
      <4> QED BY <1>16, <2>1, <4>1, <4>2
    <3>2. UpRole(ds[b], conn[b])
      BY <1>6, <1>14, <2>3 DEF UpRole, md
    <3>3. DownRole(ds[e], conn[e])
      <4>1. CASE e = c
        BY <1>5, <1>14, <4>1 DEF m
      <4>2. CASE e # c
        <5>1. ds[e] = conn[e]
          BY <1>14, <3>1, <4>2
        <5> HIDE DEF e
        <5> QED BY <5>1 DEF DownRole
      <4> QED BY <4>1, <4>2
    <3> QED BY <2>1, <3>2, <3>3
  <2> QED BY <2>2, <2>3
<1>17. Ord(ds, Held, x)
  <2>1. Pairs(conn) /\ Downs(conn, Held)
    BY DEF Ord
  <2> QED BY <1>1, <1>14, <1>15, <1>16, <2>1, Changes
<1> QED BY <1>17 DEF ds

LEMMA OrderRelay == ASSUME OrderInv, IInv, NEW c \in Conns, Relay(c) PROVE OrderInv'
<1> DEFINE d == conn[c].down
           r == Head(conn[d].res)
           cs == Received(conn, d)
<1>1. /\ Ord(conn, Held, Bound) /\ UNCHANGED <<caller, pipe, route>>
      /\ conn[c].relay /\ conn[d].res # <<>>
  BY DEF OrderInv, Relay, Serving, HasResult
<1>2. d # 0
  BY <1>1, NetTypes, LinkParts
<1>3. Ord(RelayEnds(RelayError(cs, c), c), Held, Bound) /\ Ord(RelayEnds(Popped(cs, c), c), Held, Bound)
  BY <1>1, <1>2, RelayStops
<1>4. CASE Conn(RelayEnds(RelayError(cs, c), c))
  BY <1>1, <1>3, <1>4, ConnOrder
<1>5. CASE /\ conn[c].pend # <<>> /\ r.id = Head(conn[c].pend) /\ AnswerOk(c)
           /\ Conn(Answer(Popped(cs, c), c, r))
  <2>1. Ord(Answer(Popped(cs, c), c, r), Held, Bound)
    BY <1>1, <1>2, <1>5, RelayPasses DEF AnswerOk
  <2> QED BY <1>1, <1>5, <2>1, ConnOrder
<1>6. CASE Conn(RelayEnds(Popped(cs, c), c))
  BY <1>1, <1>3, <1>6, ConnOrder
<1> QED BY <1>4, <1>5, <1>6 DEF Relay

LEMMA OrderRelayEof == ASSUME OrderInv, NEW c \in Conns, RelayEof(c) PROVE OrderInv'
<1> DEFINE cs == RelayEnds(RelayError(conn, c), c)
<1>1. Ord(conn, Held, Bound) /\ UNCHANGED <<caller, pipe, route>> /\ HangsUp(cs, c)
  BY DEF OrderInv, RelayEof, Serving
<1>2. conn \in Net
  BY <1>1, OrdParts
<1>3. Ord([conn EXCEPT ![c] = EndedLink(Reported(conn[c]))], Held, Bound)
  BY <1>1, EndedOrder
<1>4. Ord(cs, Held, Bound)
  BY <1>2, <1>3, EndsWritten
<1> HIDE DEF cs
<1>5. Ord(conn', Held, Bound)
  BY <1>1, <1>4, HangsUpOrder
<1> QED BY <1>1, <1>5, ServingOrder

LEMMA OrderCloseForwarder ==
  ASSUME OrderInv, IInv, NEW c \in Conns, CloseForwarder(c) PROVE OrderInv'
<1> DEFINE d == conn[c].down
           cs == Shut(conn, d)
<1>1. /\ Ord(conn, Held, Bound) /\ UNCHANGED <<caller, pipe, route>> /\ conn[c].relay
      /\ Conn([cs EXCEPT ![c].closing = TRUE])
  BY DEF OrderInv, CloseForwarder, Serving
<1>2. d \in Conns
  BY <1>1, NetTypes, LinkParts
<1>3. Ord(cs, Held, Bound)
  BY <1>1, <1>2, ShutOrder
<1> HIDE DEF cs
<1>4. Ord([cs EXCEPT ![c].closing = TRUE], Held, Bound)
  BY <1>3, ShutOrder
<1> QED BY <1>1, <1>4, ConnOrder

LEMMA OrderDisconnect == ASSUME OrderInv, NEW c \in Conns, Disconnect(c) PROVE OrderInv'
<1>1. Ord(conn, Held, Bound) /\ UNCHANGED <<caller, pipe, route>> /\ HangsUp(conn, c)
  BY DEF OrderInv, Disconnect, Serving
<1>2. Ord(conn', Held, Bound)
  BY <1>1, HangsUpOrder
<1> QED BY <1>1, <1>2, ServingOrder

-----------------------------------------------------------------------------
(* The coordinator's steps keep the order.                                 *)

LEMMA BoundTyped ==
  ASSUME Types, SlotInv
  PROVE  /\ next \in Nat /\ Bound \in Nat /\ Bound <= next /\ snd.slots \in Seq(Jobs)
         /\ snd.slots = <<>> => Bound = next
<1>1. next \in Nat /\ snd.slots \in Seq(Jobs)
  BY DEF Types, Senders, UpTo
<1>2. CASE snd.slots = <<>>
  BY <1>1, <1>2 DEF Bound
<1>3. CASE snd.slots # <<>>
  <2> DEFINE s == snd.slots
  <2>1. Ids(s) \in Seq(Nat) /\ Ids(s) # <<>> /\ Head(Ids(s)) = Head(s).id
    BY <1>1, <1>3, JobSteps
  <2>2. Head(s) = s[1] /\ Head(Ids(s)) \in Range(Ids(s)) /\ Head(Ids(s)) \in Nat
    <3>1. Head(s) = s[1]
      BY <1>1, <1>3
    <3> DEFINE g == Ids(s)
    <3>2. g \in Seq(Nat) /\ g # <<>>
      BY <2>1
    <3> HIDE DEF g
    <3>3. Head(g) \in Range(g) /\ Head(g) \in Nat
      BY <3>2, RangeOfTail
    <3> QED BY <3>1, <3>3 DEF g
  <2>3. Bound = Head(Ids(s)) /\ Head(Ids(s)) < next
    BY <1>3, <2>1, <2>2 DEF Bound, SlotInv
  <2> QED BY <1>1, <1>3, <2>2, <2>3
<1> QED BY <1>2, <1>3

(* A later bound, and other descriptors that no forwarder uses.            *)
LEMMA BoundLater ==
  ASSUME NEW cs, NEW held, NEW x \in Nat, Ord(cs, held, x), NEW y \in Nat, x <= y
  PROVE  Ord(cs, held, y)
<1>1. ASSUME NEW c \in Conns, NEW z \in All(cs[c]) PROVE z < y
  <2>1. cs[c] \in Links /\ Each(cs[c]) /\ z < x
    BY OrdParts
  <2>2. z \in Nat
    <3>1. Range(Ids(cs[c].res)) \subseteq Nat
          /\ Spread(cs[c].pend, Ids(cs[c].hand), Ids(cs[c].queue), Ids(cs[c].work)) \subseteq Nat
      BY <2>1, GoodTypes DEF Each, Group
    <3> QED BY <3>1 DEF All
  <2> QED BY <2>1, <2>2
<1> QED BY <1>1 DEF Ord, Under

LEMMA HeldOther ==
  ASSUME NEW cs, NEW held, NEW x, Ord(cs, held, x), NEW held2,
         \A c \in Conns : cs[c].down # 0 => cs[c].down \notin held2
  PROVE  Ord(cs, held2, x)
BY DEF Ord, Downs

LEMMA HeldLess ==
  ASSUME NEW cs, NEW held, NEW x, Ord(cs, held, x), NEW held2, held2 \subseteq held \cup {0}
  PROVE  Ord(cs, held2, x)
<1>1. \A c \in Conns : cs[c].down # 0 => cs[c].down \notin held2
  BY DEF Ord, Downs
<1> QED BY <1>1, HeldOther

(* Nothing waits for the sender.                                           *)
LEMMA NoSlots ==
  ASSUME snd'.slots = <<>>
  PROVE  SlotInv' /\ Bound' = next'
<1>1. Ids(snd'.slots) = <<>>
  BY JobIds
<1>2. SlotInv'
  BY <1>1, EmptyOrder DEF SlotInv
<1> QED BY <1>2 DEF Bound

(* The coordinator sends on a connection that it holds.                    *)
LEMMA SendOrder ==
  ASSUME NEW held, NEW x \in Nat, Ord(conn, held, x), NEW c \in Conns, c \in held,
         NEW job \in Jobs, x <= job.id, NEW y \in Nat, job.id < y
  PROVE  Ord(SendWork(conn, c, job), held, y)
<1> DEFINE m == conn[c]
           k == [m EXCEPT !.work = Append(@, job)]
           ds == [conn EXCEPT ![c] = k]
<1>1. conn \in Net /\ m \in Links /\ Each(m)
  BY OrdParts
<1>2. job.id \in Nat
  BY JobIds
<1>3. Ord(conn, held, y)
  BY <1>2, BoundLater
<1>4. \A z \in All(m) : z < job.id /\ z \in Nat
  <2>1. Range(Ids(m.res)) \subseteq Nat
        /\ Spread(m.pend, Ids(m.hand), Ids(m.queue), Ids(m.work)) \subseteq Nat
    BY <1>1, GoodTypes DEF Each, Group
  <2>2. \A z \in All(m) : z \in Nat
    BY <2>1 DEF All
  <2>3. \A z \in All(m) : z < x
    BY OrdParts
  <2> QED BY <1>2, <2>2, <2>3
<1>5. SendWork(conn, c, job) = ds \/ SendWork(conn, c, job) = conn
  BY <1>1 DEF SendWork, Net
<1>6. /\ k \in Links /\ Each(k) /\ All(k) = All(m) \cup {job.id}
      /\ k.pend = m.pend /\ k.down = m.down /\ k.closing = m.closing /\ k.relay = m.relay
  <2>1. k = [m EXCEPT !.work = Append(@, job)]
    OBVIOUS
  <2> HIDE DEF k, m
  <2>2. k \in Links /\ Each(k)
    BY <1>1, <1>4, <2>1, Sent
  <2>3. All(k) = All(m) \cup {job.id}
    BY <1>1, <1>4, <2>1, Sent
  <2>4. k.pend = m.pend /\ k.down = m.down /\ k.closing = m.closing /\ k.relay = m.relay
    BY <1>1, <1>4, <2>1, Sent
  <2> QED BY <2>2, <2>3, <2>4
<1> HIDE DEF k, ds
<1>7. ds \in Net /\ ds[c] = k /\ \A b \in Conns : b # c => ds[b] = conn[b]
  BY <1>1, <1>6 DEF Net, ds
<1>8. Rows(ds) /\ Under(ds, y)
  <2>1. \A b \in Conns : Each(conn[b]) /\ \A z \in All(conn[b]) : z < y
    BY <1>3, OrdParts
  <2>2. \A b \in Conns : Each(ds[b]) /\ \A z \in All(ds[b]) : z < y
    BY <1>6, <1>7, <2>1
  <2> QED BY <2>2 DEF Rows, Under
<1>9. ASSUME NEW b \in Conns, ds[b].down # 0
      PROVE  /\ ds[b].down = conn[b].down
             /\ UpRole(ds[b], conn[b]) /\ DownRole(ds[ds[b].down], conn[ds[b].down])
  <2> DEFINE e == conn[b].down
  <2>1. ds[b].down = e
    BY <1>6, <1>7
  <2>2. UpRole(ds[b], conn[b])
    BY <1>6, <1>7 DEF UpRole
  <2>3. e \in Conns /\ e # c
    <3>1. e \in Conns
      BY <1>1, <1>9, <2>1, LinkParts
    <3>2. e \notin held
      BY <1>9, <2>1 DEF Ord, Downs
    <3> QED BY <3>1, <3>2
  <2>4. ds[e] = conn[e]
    BY <1>7, <2>3
  <2> HIDE DEF e
  <2>5. DownRole(ds[e], conn[e])
    BY <2>4 DEF DownRole
  <2> QED BY <2>1, <2>2, <2>5 DEF e
<1>10. Ord(ds, held, y)
  <2>1. Pairs(conn) /\ Downs(conn, held)
    BY DEF Ord
  <2> QED BY <1>1, <1>7, <1>8, <1>9, <2>1, Changes
<1> QED BY <1>3, <1>5, <1>10

(* The coordinator reads an answer from a connection that it holds.        *)
LEMMA ReadOrder ==
  ASSUME NEW held, NEW x, Ord(conn, held, x), NEW c \in Conns, c \in held, conn[c].res # <<>>
  PROVE  Ord(Received(conn, c), held, x)
<1> DEFINE m == conn[c]
           k == [m EXCEPT !.res = Tail(@)]
<1>1. conn \in Net /\ m \in Links /\ Each(m)
  BY OrdParts
<1>2. m.res \in Seq(Results) /\ Tail(m.res) \in Seq(Results)
  BY <1>1, LineTyped, SeqSteps
<1>3. k \in Links
  BY <1>1, <1>2, FieldTyped
<1>4. /\ k.res = Tail(m.res) /\ k.pend = m.pend /\ k.hand = m.hand /\ k.queue = m.queue
      /\ k.work = m.work /\ k.down = m.down /\ k.w = m.w /\ k.closing = m.closing
      /\ k.relay = m.relay
  BY <1>1 DEF Links
<1>5. Received(conn, c) = [conn EXCEPT ![c] = k]
  BY <1>1 DEF Received, Net
<1> HIDE DEF k
<1> DEFINE a == Ids(m.res)
           p == m.pend
           h == Ids(m.hand)
           q == Ids(m.queue)
           w == Ids(m.work)
<1>6. Ids(k.res) = Tail(a) /\ a # <<>>
  BY <1>2, <1>4, ResultSteps
<1>7. Good(Tail(a), p, h, q, w) /\ Range(Tail(a)) \subseteq Range(a)
  <2>1. Good(a, p, h, q, w) /\ a # <<>>
    BY <1>1, <1>6 DEF Each, Group
  <2> HIDE DEF a, p, h, q, w
  <2> QED BY <2>1, GoodRead
<1>8. Each(k) /\ All(k) \subseteq All(m) /\ UpRole(k, m)
  <2>1. Group(k) /\ All(k) \subseteq All(m)
    BY <1>4, <1>6, <1>7 DEF Group, All
  <2> QED BY <1>1, <1>4, <2>1 DEF Each, UpRole
<1>9. \A b \in Conns : conn[b].down # c
  <2> SUFFICES ASSUME NEW b \in Conns, conn[b].down = c PROVE FALSE
    OBVIOUS
  <2>1. c # 0
    BY ConstantTypes
  <2> QED BY <2>1 DEF Ord, Downs
<1>10. Ord([conn EXCEPT ![c] = k], held, x)
  BY <1>3, <1>4, <1>8, <1>9, OneChange
<1> QED BY <1>5, <1>10

(* Sockets are shut.                                                       *)
LEMMA NearOrder ==
  ASSUME NEW cs, NEW held, NEW x, Ord(cs, held, x), NEW S,
         NEW ds, ds = [c \in Conns |-> [cs[c] EXCEPT !.near = @ /\ c \notin S]]
  PROVE  Ord(ds, held, x)
<1>1. ASSUME NEW c \in Conns
      PROVE  /\ ds[c] \in Links /\ Each(ds[c]) /\ All(ds[c]) = All(cs[c])
             /\ ds[c].down = cs[c].down
             /\ UpRole(ds[c], cs[c]) /\ DownRole(ds[c], cs[c])
  <2> DEFINE m == cs[c]
             v == m.near /\ c \notin S
             k == [m EXCEPT !.near = v]
  <2>1. m \in Links /\ Each(m) /\ v \in BOOLEAN
    <3>1. m \in Links /\ Each(m)
      BY OrdParts
    <3>2. v \in BOOLEAN
      BY <3>1 DEF Links
    <3> QED BY <3>1, <3>2
  <2>2. k \in Links
    <3> HIDE DEF v, m
    <3> QED BY <2>1, FieldTyped
  <2>3. ds[c] = k
    BY <1>1
  <2>4. SameIds(k, m) /\ k.relay = m.relay /\ k.closing = m.closing
    <3> HIDE DEF v, m
    <3> QED BY <2>1, FieldsKept
  <2>5. Works(k) => Works(m)
    BY <2>1 DEF Works, Links
  <2> HIDE DEF k, m
  <2>6. Each(k) /\ All(k) = All(m) /\ DownRole(k, m)
    BY <2>1, <2>4, <2>5, SameEach
  <2>7. UpRole(k, m) /\ k.down = m.down
    BY <2>4 DEF SameIds, UpRole
  <2> QED BY <2>2, <2>3, <2>6, <2>7 DEF m
<1>2. ds \in Net
  <2>1. ds \in [Conns -> Links]
    BY <1>1
  <2> QED BY <2>1 DEF Net
<1>3. Rows(ds) /\ Under(ds, x)
  <2>1. \A b \in Conns : Each(ds[b]) /\ \A z \in All(ds[b]) : z < x
    BY <1>1, OrdParts
  <2> QED BY <2>1 DEF Rows, Under
<1>4. Pairs(cs) /\ Downs(cs, held) /\ cs \in Net
  BY DEF Ord
<1>5. ASSUME NEW b \in Conns, ds[b].down # 0
      PROVE  /\ ds[b].down = cs[b].down
             /\ UpRole(ds[b], cs[b]) /\ DownRole(ds[ds[b].down], cs[ds[b].down])
  <2>1. ds[b].down = cs[b].down /\ cs[b].down \in Conns
    BY <1>1, <1>4, <1>5, LinkParts
  <2>2. ds[b].down \in Conns
    BY <2>1
  <2>3. DownRole(ds[ds[b].down], cs[ds[b].down])
    BY <1>1, <2>1, <2>2
  <2> QED BY <1>1, <2>1, <2>3
<1> QED BY <1>2, <1>3, <1>4, <1>5, Changes

(* A failed attempt: the requests that were under way stay in order.       *)
LEMMA FailsOrder ==
  ASSUME Types, NEW cs, NEW x \in Nat, Ord(cs, Held, x), next' \in Nat, x <= next',
         NEW rc, NEW toks, Fails(rc, toks, cs)
  PROVE  OrderInv'
<1>1. ASSUME snd' = NoSender, NEW held, Ord(conn', held, x), Held' \subseteq held \cup {0}
      PROVE  OrderInv'
  <2>1. snd'.slots = <<>>
    BY <1>1 DEF NoSender
  <2>2. SlotInv' /\ Bound' = next'
    BY <2>1, NoSlots
  <2>3. Ord(conn', Held', x)
    BY <1>1, HeldLess
  <2>4. Ord(conn', Held', next')
    BY <2>3, BoundLater
  <2> QED BY <2>2, <2>4 DEF OrderInv
<1>2. CASE Goes([call EXCEPT !.tries = 1], Transcript(toks), 0, TRUE) /\ Conn(cs) /\ UNCHANGED <<plan, reg>>
  <2>1. Ord(conn', Held, x)
    BY <1>2, KeepOrder DEF Conn
  <2>2. Held' = Held /\ snd' = NoSender
    BY <1>2 DEF Held, Entries, Goes
  <2> QED BY <1>1, <2>1, <2>2
<1>3. CASE /\ plan' = [plan EXCEPT !.current = FALSE, !.fd = 0]
           /\ reg' = [w \in Workers |-> 0]
           /\ Keep([c \in Conns |-> [cs[c] EXCEPT !.near = @ /\ c \notin Held]], {})
           /\ snd' = NoSender
  <2> DEFINE ds == [c \in Conns |-> [cs[c] EXCEPT !.near = @ /\ c \notin Held]]
  <2>1. Ord(ds, Held, x)
    BY NearOrder
  <2>2. Ord(conn', {}, x)
    <3>1. Keep(ds, {})
      BY <1>3
    <3> HIDE DEF ds
    <3> QED BY <2>1, <3>1, KeepOrder
  <2>3. Held' \subseteq {0}
    <3>1. plan'.fd = 0
      BY <1>3 DEF Types, Plans
    <3>2. Entries' \subseteq {0}
      BY <1>3 DEF Entries
    <3> QED BY <3>1, <3>2 DEF Held
  <2> QED BY <1>1, <1>3, <2>2, <2>3
<1>4. CASE /\ GivesUp /\ plan' = [plan EXCEPT !.ready = FALSE, !.current = FALSE]
           /\ Conn(cs) /\ UNCHANGED reg
  <2>1. Ord(conn', Held, x)
    BY <1>4, KeepOrder DEF Conn
  <2>2. plan'.fd = plan.fd
    BY <1>4 DEF Types, Plans
  <2>3. Held' = Held /\ snd' = NoSender
    BY <1>4, <2>2 DEF Held, Entries, GivesUp
  <2> QED BY <1>1, <2>1, <2>3
<1> QED BY <1>2, <1>3, <1>4 DEF Fails

(* What the invariants say of a call that is under way.                    *)
LEMMA InCall ==
  ASSUME IInv, OrderInv
  PROVE  /\ Types /\ Ord(conn, Held, Bound) /\ SlotInv
         /\ next \in Nat /\ Bound \in Nat /\ Bound <= next
         /\ call.pc \in {"span", "await", "produce", "join"} => plan.fd \in Conns /\ plan.fd \in Held
         /\ call.pc \notin {"produce", "join"} => snd.slots = <<>> /\ Bound = next
<1>1. Types /\ CallInv /\ Ord(conn, Held, Bound) /\ SlotInv
  BY DEF IInv, OrderInv
<1>2. plan.fd \in Conns \cup {0} /\ plan.fd \in Held
  BY <1>1 DEF Types, Plans, Held
<1>3. call.pc \in {"span", "await", "produce", "join"} => plan.fd \in Conns
  BY <1>1, <1>2 DEF CallInv
<1>4. call.pc \notin {"produce", "join"} => snd.slots = <<>>
  BY <1>1 DEF SlotInv
<1> QED BY <1>1, <1>2, <1>3, <1>4, BoundTyped

(* A step after which nothing waits for the sender.                        *)
LEMMA IdleOrder ==
  ASSUME snd'.slots = <<>>, Ord(conn', Held', next') PROVE OrderInv'
<1>1. SlotInv' /\ Bound' = next'
  BY NoSlots
<1> QED BY <1>1 DEF OrderInv

LEMMA OrderEvalSpan == ASSUME IInv, OrderInv, EvalSpan PROVE OrderInv'
<1> DEFINE n == Chunk(call.want, call.pos)
           ts == Span(call.want, call.pos, n)
           job == Job(ts, FALSE)
<1>1. /\ call.pc = "span" /\ next' = next + 1
      /\ \/ /\ Conn(SendWork(conn, plan.fd, job)) /\ UNCHANGED <<plan, reg, snd>>
         \/ Fails(1, Committed(Start, ts).toks, conn)
         \/ Fails(1, Start.toks, conn)
  BY DEF EvalSpan
<1>2. /\ Types /\ Ord(conn, Held, next) /\ next \in Nat /\ snd.slots = <<>>
      /\ plan.fd \in Conns /\ plan.fd \in Held
  BY <1>1, InCall
<1>3. next + 1 \in Nat /\ next <= next + 1 /\ next < next + 1 /\ next <= next
  BY <1>2
<1>4. ASSUME NEW toks, Fails(1, toks, conn) PROVE OrderInv'
  BY <1>1, <1>2, <1>3, <1>4, FailsOrder
<1>5. CASE Conn(SendWork(conn, plan.fd, job)) /\ UNCHANGED <<plan, reg, snd>>
  <2>1. job \in Jobs /\ job.id = next
    <3>1. CallInv
      BY DEF IInv
    <3>2. \A i \in Nat, ack \in BOOLEAN :
            [id |-> i, pre |-> Start.toks, toks |-> ts, reset |-> call.reset, ack |-> ack,
             by |-> {Start.toks \o ts}] \in Jobs
      BY <1>1, <1>2, <3>1, SpanFacts
    <3> QED BY <1>2, <3>2 DEF Job
  <2> HIDE DEF job
  <2>2. Ord(SendWork(conn, plan.fd, job), Held, next + 1)
    BY <1>2, <1>3, <2>1, SendOrder
  <2>3. Ord(conn', Held, next + 1)
    BY <1>5, <2>2, KeepOrder DEF Conn
  <2>4. Held' = Held /\ snd'.slots = <<>>
    BY <1>2, <1>5 DEF Held, Entries
  <2> QED BY <1>1, <2>3, <2>4, IdleOrder
<1> QED BY <1>1, <1>4, <1>5

LEMMA OrderAwaitResult == ASSUME IInv, OrderInv, AwaitResult PROVE OrderInv'
<1> DEFINE cs == Received(conn, plan.fd)
           rc == Verdict(Head(conn[plan.fd].res), call.first, own.toks)
<1>1. /\ call.pc = "await" /\ conn[plan.fd].res # <<>> /\ next' = next
      /\ Fails(rc, own.toks, cs) \/ (Conn(cs) /\ UNCHANGED <<plan, reg, snd>>)
  BY DEF AwaitResult, HasResult
<1>2. /\ Types /\ Ord(conn, Held, next) /\ next \in Nat /\ snd.slots = <<>>
      /\ plan.fd \in Conns /\ plan.fd \in Held /\ next <= next
  BY <1>1, InCall
<1>3. Ord(cs, Held, next)
  BY <1>1, <1>2, ReadOrder
<1> HIDE DEF cs, rc
<1>4. CASE Fails(rc, own.toks, cs)
  BY <1>1, <1>2, <1>3, <1>4, FailsOrder
<1>5. CASE Conn(cs) /\ UNCHANGED <<plan, reg, snd>>
  <2>1. Ord(conn', Held, next)
    BY <1>3, <1>5, KeepOrder DEF Conn
  <2>2. Held' = Held /\ snd'.slots = <<>>
    BY <1>2, <1>5 DEF Held, Entries
  <2> QED BY <1>1, <2>1, <2>2, IdleOrder
<1> QED BY <1>1, <1>4, <1>5

LEMMA OrderAwaitEof == ASSUME IInv, OrderInv, AwaitEof PROVE OrderInv'
<1>1. call.pc = "await" /\ next' = next /\ Fails(1, own.toks, conn)
  BY DEF AwaitEof
<1>2. Types /\ Ord(conn, Held, next) /\ next \in Nat /\ next <= next
  BY <1>1, InCall
<1> QED BY <1>1, <1>2, FailsOrder

LEMMA OrderReroute == ASSUME IInv, OrderInv, Reroute PROVE OrderInv'
<1>1. call.pc = "reroute" /\ next' = next /\ UNCHANGED <<reg, conn>>
      /\ ((Covered /\ plan' = NewPlan) \/ plan' = NoPlan) /\ snd' = NoSender
  BY DEF Reroute, Goes, GivesUp
<1>2. Types /\ Ord(conn, Held, next)
  BY <1>1, InCall
<1>3. Held' \subseteq Held \cup {0}
  <2>1. reg[1] \in Entries
    BY ConstantTypes DEF Entries
  <2>2. plan'.fd \in Entries \cup {0}
    BY <1>1, <2>1 DEF NewPlan, NoPlan
  <2> QED BY <1>1, <2>2 DEF Held, Entries
<1>4. Ord(conn', Held', next')
  BY <1>1, <1>2, <1>3, HeldLess
<1>5. snd'.slots = <<>>
  BY <1>1 DEF NoSender
<1> QED BY <1>4, <1>5, IdleOrder

(* A step that leaves the sender's slots alone.                            *)
LEMMA SlotsKept ==
  ASSUME OrderInv, snd'.slots = snd.slots, next' = next,
         call'.pc \in {"produce", "join"} \/ call' = call,
         UNCHANGED <<plan, reg>>, NEW ds, Ord(ds, Held, Bound), Conn(ds)
  PROVE  OrderInv'
<1>1. Bound' = Bound /\ Held' = Held
  BY DEF Bound, Held, Entries
<1>2. SlotInv'
  BY DEF OrderInv, SlotInv
<1>3. Ord(conn', Held, Bound)
  BY KeepOrder DEF Conn
<1> QED BY <1>1, <1>2, <1>3 DEF OrderInv

(* A chunk is handed to the sender.                                        *)
LEMMA SlotAdded ==
  ASSUME IInv, OrderInv, NEW slot \in Jobs, slot.id = next,
         snd'.slots = Append(snd.slots, slot), next' = next + 1,
         call'.pc \in {"produce", "join"}, UNCHANGED <<plan, reg, conn>>
  PROVE  OrderInv'
<1> DEFINE s == snd.slots
           g == Ids(s)
<1>1. /\ next \in Nat /\ s \in Seq(Jobs) /\ Ord(conn, Held, Bound)
      /\ Increasing(g) /\ (\A y \in Range(g) : y < next)
      /\ (s = <<>> => Bound = next)
  BY BoundTyped DEF IInv, OrderInv, SlotInv
<1>2. g \in Seq(Nat) /\ Ids(Append(s, slot)) = Append(g, next)
  BY <1>1, JobSteps
<1>3. Increasing(Append(g, next)) /\ \A y \in Range(Append(g, next)) : y < next + 1
  <2> HIDE DEF g
  <2>1. Increasing(Append(g, next))
    BY <1>1, <1>2, AppendOrder
  <2>2. Range(Append(g, next)) = Range(g) \cup {next}
    BY <1>1, <1>2, RangeOfAppend
  <2>3. Range(g) \subseteq Nat
    BY <1>2 DEF Range
  <2>4. \A y \in Range(Append(g, next)) : y \in Nat /\ (y < next \/ y = next)
    BY <1>1, <2>2, <2>3
  <2>5. \A y \in Nat : y < next \/ y = next => y < next + 1
    BY <1>1
  <2> QED BY <2>1, <2>4, <2>5
<1>4. SlotInv'
  <2>1. Ids(snd'.slots) = Append(g, next)
    BY <1>2
  <2> HIDE DEF g
  <2> QED BY <1>3, <2>1 DEF SlotInv
<1>5. Bound' = Bound
  <2>1. snd'.slots # <<>> /\ snd'.slots[1] = IF s = <<>> THEN slot ELSE s[1]
    <3>1. Append(s, slot) # <<>> /\ Append(s, slot)[1] = IF s = <<>> THEN slot ELSE s[1]
      <4> HIDE DEF s
      <4> QED BY <1>1
    <3> QED BY <3>1
  <2>2. Bound' = snd'.slots[1].id
    BY <2>1 DEF Bound
  <2>3. CASE s = <<>>
    BY <1>1, <2>1, <2>2, <2>3
  <2>4. CASE s # <<>>
    BY <2>1, <2>2, <2>4 DEF Bound
  <2> QED BY <2>3, <2>4
<1>6. Held' = Held
  BY DEF Held, Entries
<1> QED BY <1>1, <1>4, <1>5, <1>6 DEF OrderInv

(* The slot that the producer fills.                                       *)
LEMMA SlotTyped ==
  ASSUME Types, CallInv, call.pc = "produce", next \in Nat,
         NEW ts, ts = Span(call.want, call.pos, Chunk(call.want, call.pos))
  PROVE  Slot(ts) \in Jobs /\ Slot(ts).id = next
<1> DEFINE n == Chunk(call.want, call.pos)
           ack == Rest(call.want, call.pos) > ChunkCap
<1>1. n = Chunk(call.want, call.pos) /\ ts = Span(call.want, call.pos, n) /\ ack \in BOOLEAN
  OBVIOUS
<1>2. Slot(ts) = [id |-> next, pre |-> Start.toks, toks |-> ts, reset |-> call.reset, ack |-> ack,
                  by |-> {Start.toks \o ts}]
  BY DEF Slot
<1> HIDE DEF n, ack
<1>3. call.pc \in {"span", "produce"}
  OBVIOUS
<1>4. ts \in Toks /\ Start \in Owners /\ call.reset \in BOOLEAN
  <2>1. ts \in Toks
    BY <1>1, <1>3, SpanFacts
  <2>2. Start \in Owners
    BY <1>1, <1>3, SpanFacts
  <2> QED BY <2>1, <2>2 DEF Types, Calls
<1>5. Start.toks \in Toks /\ Start.toks \o ts \in Toks
  <2>1. Start.toks \in Seq(Nat) /\ ts \in Seq(Nat)
    BY <1>4 DEF Owners, Toks
  <2>2. \A p, q \in Seq(Nat) : p \o q \in Seq(Nat)
    OBVIOUS
  <2>3. Start.toks \o ts \in Seq(Nat)
    BY <2>1, <2>2
  <2> QED BY <2>1, <2>3 DEF Toks
<1>6. ack \in BOOLEAN
  BY <1>1
<1> DEFINE p == Start.toks
           z == call.reset
           j == [id |-> next, pre |-> p, toks |-> ts, reset |-> z, ack |-> ack, by |-> {p \o ts}]
<1>7. p \in Toks /\ p \o ts \in Toks /\ z \in BOOLEAN /\ ts \in Toks
  BY <1>4, <1>5
<1>8. Slot(ts) = j
  BY <1>2
<1>9. j \in Jobs /\ j.id = next
  <2> HIDE DEF p, z
  <2> QED BY <1>6, <1>7 DEF Jobs
<1> HIDE DEF j
<1> QED BY <1>8, <1>9

LEMMA OrderProduce == ASSUME IInv, OrderInv, Produce PROVE OrderInv'
<1> DEFINE n == Chunk(call.want, call.pos)
           ts == Span(call.want, call.pos, n)
<1>1. /\ call.pc = "produce" /\ UNCHANGED <<plan, reg>>
      /\ Stops(0) \/ Stops(1) \/ Submits(ts)
  BY DEF Produce, route
<1>2. /\ Types /\ Ord(conn, Held, Bound) /\ plan.fd \in Conns /\ next \in Nat
  BY <1>1, InCall
<1>3. ASSUME NEW rc, Stops(rc) PROVE OrderInv'
  <2>1. snd'.slots = snd.slots
    BY <1>2, <1>3 DEF Stops, Types, Senders
  <2>2. call'.pc = "join" /\ next' = next
    BY <1>2, <1>3 DEF Stops, Types, Calls
  <2>3. Conn(conn) \/ Conn(Shut(conn, plan.fd))
    BY <1>3 DEF Stops
  <2>4. Ord(Shut(conn, plan.fd), Held, Bound)
    BY <1>2, ShutOrder
  <2> QED BY <1>1, <1>2, <2>1, <2>2, <2>3, <2>4, SlotsKept
<1>4. CASE Submits(ts)
  <2>1. Slot(ts) \in Jobs /\ Slot(ts).id = next
    <3>1. Types /\ CallInv
      BY <1>2 DEF IInv
    <3>2. ts = Span(call.want, call.pos, Chunk(call.want, call.pos))
      OBVIOUS
    <3> HIDE DEF ts
    <3> QED BY <1>1, <1>2, <3>1, <3>2, SlotTyped
  <2>2. snd'.slots = Append(snd.slots, Slot(ts)) /\ next' = next + 1 /\ UNCHANGED conn
    BY <1>2, <1>4 DEF Submits, Types, Senders
  <2>3. call'.pc = "produce"
    BY <1>1, <1>2, <1>4 DEF Submits, Types, Calls
  <2> QED BY <1>1, <2>1, <2>2, <2>3, SlotAdded
<1> QED BY <1>1, <1>3, <1>4

LEMMA OrderJoin == ASSUME IInv, OrderInv, Join PROVE OrderInv'
<1> DEFINE rc == IF rdr.rc # 0 THEN rdr.rc ELSE IF snd.rc # 0 THEN 1 ELSE call.rc
<1>1. /\ next' = next
      /\ Fails(rc, own.toks, conn) \/ (snd' = NoSender /\ UNCHANGED <<plan, reg, conn>>)
  BY DEF Join
<1>2. Types /\ Ord(conn, Held, Bound) /\ next \in Nat /\ Bound \in Nat /\ Bound <= next
  BY InCall
<1> HIDE DEF rc
<1>3. CASE Fails(rc, own.toks, conn)
  BY <1>1, <1>2, <1>3, FailsOrder
<1>4. CASE snd' = NoSender /\ UNCHANGED <<plan, reg, conn>>
  <2>1. Ord(conn, Held, next)
    BY <1>2, BoundLater
  <2>2. Held' = Held /\ snd'.slots = <<>>
    BY <1>4 DEF Held, Entries, NoSender
  <2>3. Ord(conn', Held', next')
    BY <1>1, <1>4, <2>1, <2>2
  <2> QED BY <2>2, <2>3, IdleOrder
<1> QED BY <1>1, <1>3, <1>4

(* The first slot is sent: the next one has a greater id.                  *)
LEMMA SlotSent ==
  ASSUME IInv, OrderInv, snd.slots # <<>>, snd'.slots = Tail(snd.slots), next' = next, call' = call
  PROVE  /\ SlotInv' /\ Bound' \in Nat
         /\ Head(snd.slots) \in Jobs /\ Bound = Head(snd.slots).id /\ Head(snd.slots).id < Bound'
<1> DEFINE s == snd.slots
           g == Ids(s)
<1>1. /\ next \in Nat /\ s \in Seq(Jobs) /\ Increasing(g) /\ (\A y \in Range(g) : y < next)
      /\ call.pc \in {"produce", "join"}
  BY BoundTyped DEF IInv, OrderInv, SlotInv
<1>2. /\ g \in Seq(Nat) /\ g # <<>> /\ Ids(Tail(s)) = Tail(g) /\ Head(g) = Head(s).id
      /\ Head(s) \in Jobs /\ Tail(s) \in Seq(Jobs) /\ Head(s) = s[1]
  BY <1>1, JobSteps
<1>3. /\ Increasing(Tail(g)) /\ (\A y \in Range(Tail(g)) : Head(g) < y)
      /\ Range(g) = Range(Tail(g)) \cup {Head(g)} /\ Tail(g) \in Seq(Nat) /\ Head(g) \in Nat
  <2>1. g \in Seq(Nat) /\ g # <<>> /\ Increasing(g)
    BY <1>1, <1>2
  <2> HIDE DEF g
  <2> QED BY <2>1, TailOrder, RangeOfTail
<1>4. SlotInv'
  <2>1. Ids(snd'.slots) = Tail(g)
    BY <1>2
  <2> HIDE DEF g
  <2> QED BY <1>1, <1>3, <2>1 DEF SlotInv
<1>5. Bound = Head(s).id /\ Head(s).id < next
  BY <1>1, <1>2, <1>3 DEF Bound
<1>6. Bound' \in Nat /\ Head(s).id < Bound'
  <2>1. CASE Tail(s) = <<>>
    BY <1>1, <1>5, <2>1 DEF Bound
  <2>2. CASE Tail(s) # <<>>
    <3> DEFINE t == Tail(s)
    <3>1. t \in Seq(Jobs) /\ t # <<>> /\ Ids(t) = Tail(g)
      BY <1>2, <2>2
    <3> HIDE DEF t
    <3>2. Ids(t) # <<>> /\ Head(Ids(t)) = Head(t).id /\ Head(t) = t[1]
      <4>1. Ids(t) # <<>>
        BY <3>1, JobSteps
      <4>2. Head(Ids(t)) = Head(t).id
        BY <3>1, JobSteps
      <4>3. Head(t) = t[1]
        BY <3>1
      <4> QED BY <4>1, <4>2, <4>3
    <3>3. Head(Ids(t)) \in Range(Ids(t)) /\ Head(Ids(t)) \in Nat
      <4> DEFINE f == Ids(t)
      <4>1. f \in Seq(Nat) /\ f # <<>>
        BY <3>1, <3>2, JobSteps
      <4> HIDE DEF f
      <4>2. Head(f) \in Range(f) /\ Head(f) \in Nat
        BY <4>1, RangeOfTail
      <4> QED BY <4>2 DEF f
    <3>4. Bound' = t[1].id
      BY <2>2 DEF Bound, t
    <3>5. Head(s).id < Head(Ids(t))
      BY <1>2, <1>3, <3>1, <3>3
    <3> QED BY <3>2, <3>3, <3>4, <3>5
  <2> QED BY <2>1, <2>2
<1> QED BY <1>2, <1>4, <1>5, <1>6

LEMMA OrderSenderSends == ASSUME IInv, OrderInv, SenderSends PROVE OrderInv'
<1> DEFINE job == Head(snd.slots)
<1>1. /\ snd.slots # <<>> /\ next' = next /\ call' = call /\ UNCHANGED <<plan, reg>>
      /\ \/ Conn(SendWork(conn, plan.fd, job)) /\ snd' = [snd EXCEPT !.slots = Tail(@)]
         \/ Conn(Shut(conn, plan.fd)) /\ snd' = [snd EXCEPT !.stop = TRUE, !.rc = 1]
  BY DEF SenderSends, caller, route
<1>2. Types /\ Ord(conn, Held, Bound) /\ SlotInv /\ Bound \in Nat
  BY InCall
<1>3. call.pc \in {"produce", "join"}
  BY <1>1, <1>2 DEF SlotInv
<1>4. plan.fd \in Conns /\ plan.fd \in Held
  BY <1>3, InCall
<1>5. CASE Conn(SendWork(conn, plan.fd, job)) /\ snd' = [snd EXCEPT !.slots = Tail(@)]
  <2>1. snd'.slots = Tail(snd.slots)
    BY <1>2, <1>5 DEF Types, Senders
  <2>2. /\ SlotInv' /\ Bound' \in Nat /\ job \in Jobs /\ Bound = job.id /\ job.id < Bound'
    BY <1>1, <2>1, SlotSent
  <2>3. Bound <= job.id
    BY <1>2, <2>2
  <2> HIDE DEF job
  <2>4. Ord(SendWork(conn, plan.fd, job), Held, Bound')
    BY <1>2, <1>4, <2>2, <2>3, SendOrder
  <2>5. Ord(conn', Held, Bound')
    BY <1>5, <2>4, KeepOrder DEF Conn
  <2>6. Held' = Held
    BY <1>1 DEF Held, Entries
  <2> QED BY <2>2, <2>5, <2>6 DEF OrderInv
<1>6. CASE Conn(Shut(conn, plan.fd)) /\ snd' = [snd EXCEPT !.stop = TRUE, !.rc = 1]
  <2>1. snd'.slots = snd.slots
    BY <1>2, <1>6 DEF Types, Senders
  <2>2. Ord(Shut(conn, plan.fd), Held, Bound)
    BY <1>2, <1>4, ShutOrder
  <2> QED BY <1>1, <1>6, <2>1, <2>2, SlotsKept
<1> QED BY <1>1, <1>5, <1>6

LEMMA OrderReaderTakes == ASSUME IInv, OrderInv, ReaderTakes PROVE OrderInv'
<1> DEFINE cs == Received(conn, plan.fd)
<1>1. /\ rdr.on /\ conn[plan.fd].res # <<>>
      /\ Conn(Shut(cs, plan.fd)) \/ Conn(cs)
      /\ snd' = snd /\ next' = next /\ call' = call /\ UNCHANGED <<plan, reg>>
  BY DEF ReaderTakes, ReaderFails, HasResult, caller, route
<1>2. call.pc \in {"produce", "join"}
  BY <1>1 DEF IInv, ReaderInv
<1>3. Ord(conn, Held, Bound) /\ plan.fd \in Conns /\ plan.fd \in Held
  BY <1>2, InCall
<1>4. Ord(cs, Held, Bound)
  BY <1>1, <1>3, ReadOrder
<1> HIDE DEF cs
<1>5. Ord(Shut(cs, plan.fd), Held, Bound)
  BY <1>3, <1>4, ShutOrder
<1> QED BY <1>1, <1>4, <1>5, SlotsKept

LEMMA OrderReaderEof == ASSUME IInv, OrderInv, ReaderEof PROVE OrderInv'
<1>1. /\ rdr.on /\ Conn(Shut(conn, plan.fd))
      /\ snd' = snd /\ next' = next /\ call' = call /\ UNCHANGED <<plan, reg>>
  BY DEF ReaderEof, caller, route
<1>2. call.pc \in {"produce", "join"}
  BY <1>1 DEF IInv, ReaderInv
<1>3. Ord(conn, Held, Bound) /\ plan.fd \in Conns
  BY <1>2, InCall
<1>4. Ord(Shut(conn, plan.fd), Held, Bound)
  BY <1>3, ShutOrder
<1> QED BY <1>1, <1>4, SlotsKept

LEMMA OrderBegin == ASSUME IInv, OrderInv, NEW op, NEW goal, Begin(op, goal) PROVE OrderInv'
<1> DEFINE c == [NoCall EXCEPT !.op = op, !.goal = goal]
<1>1. /\ call.pc = "idle" /\ next' = next /\ reg' = reg
      /\ \/ Dispatch(c) /\ UNCHANGED <<plan, conn>>
         \/ plan' = NewPlan /\ Keep(conn, Entries) /\ Dispatch(c)
         \/ plan' = NoPlan /\ Keep(conn, Entries) /\ snd' = snd
  BY DEF Begin
<1>2. Types /\ Ord(conn, Held, next) /\ snd.slots = <<>>
  BY <1>1, InCall
<1> HIDE DEF c
<1>3. snd'.slots = <<>>
  <2>1. Dispatch(c) => snd' = snd \/ snd' = NoSender
    BY DEF Dispatch, Goes
  <2> QED BY <1>1, <1>2, <2>1 DEF NoSender
<1>4. Entries \subseteq Held \cup {0} /\ Entries' = Entries /\ reg[1] \in Entries
  BY <1>1, ConstantTypes DEF Held, Entries
<1>5. Keep(conn, Entries) => Ord(conn', Entries, next)
  BY <1>2, <1>4, KeepOrder
<1>6. CASE UNCHANGED <<plan, conn>>
  <2>1. Held' = Held
    BY <1>4, <1>6 DEF Held
  <2> QED BY <1>1, <1>2, <1>3, <1>6, <2>1, IdleOrder
<1>7. CASE plan' \in {NewPlan, NoPlan} /\ Keep(conn, Entries)
  <2>1. Held' \subseteq Entries \cup {0}
    BY <1>4, <1>7 DEF Held, NewPlan, NoPlan
  <2>2. Ord(conn', Held', next')
    BY <1>1, <1>5, <1>7, <2>1, HeldLess
  <2> QED BY <1>3, <2>2, IdleOrder
<1> QED BY <1>1, <1>6, <1>7

LEMMA OrderCall == ASSUME IInv, OrderInv, Call PROVE OrderInv'
BY OrderBegin DEF Call

-----------------------------------------------------------------------------
(* Registration and failures keep the order.                               *)

LEMMA RegistryOrder ==
  ASSUME OrderInv, UNCHANGED <<caller, pipe>>, Ord(conn', Held', Bound) PROVE OrderInv'
<1>1. Bound' = Bound /\ SlotInv'
  BY DEF caller, pipe, Bound, OrderInv, SlotInv
<1> QED BY <1>1 DEF OrderInv

LEMMA OrderRegister == ASSUME IInv, OrderInv, NEW w \in Workers, Register(w) PROVE OrderInv'
<1> DEFINE c == Min(FreeConns)
           cs == [conn EXCEPT ![c] = Opened(w, TRUE)]
           held == {plan.fd} \cup {reg[v] : v \in Workers \ {w}}
<1>1. /\ reg' = [reg EXCEPT ![w] = c] /\ plan' = [plan EXCEPT !.current = FALSE]
      /\ Keep(cs, held) /\ FreeConns # {} /\ UNCHANGED <<caller, pipe>>
  BY DEF Register
<1>2. Types /\ Ord(conn, Held, Bound)
  BY InCall
<1>3. c \in Conns /\ Idle(conn, c, Held)
  <2>1. FreeConns \in SUBSET Nat
    BY ConstantTypes DEF FreeConns
  <2>2. c \in FreeConns
    BY <1>1, <2>1, MinIn
  <2> QED BY <2>2 DEF FreeConns
<1>4. held \subseteq Held /\ Held' \subseteq held \cup {c}
  <2>1. plan'.fd = plan.fd
    BY <1>1, <1>2 DEF Types, Plans
  <2>2. \A v \in Workers : reg'[v] = IF v = w THEN c ELSE reg[v]
    BY <1>1, <1>2 DEF Types
  <2> HIDE DEF c
  <2>3. Entries' \subseteq {reg[v] : v \in Workers \ {w}} \cup {c}
    BY <2>2 DEF Entries
  <2> QED BY <2>1, <2>3 DEF Held, Entries
<1> HIDE DEF c, held
<1>5. \A b \in Conns : conn[b].down # c
  BY <1>3 DEF Idle
<1>6. Ord(cs, Held, Bound)
  BY <1>2, <1>3, <1>5, OpenOrder
<1>7. \A b \in Conns : cs[b].down # c
  <2>1. Opened(w, TRUE).down # c
    BY <1>3, ConstantTypes DEF Opened, Unused
  <2>2. conn \in Net
    BY <1>2 DEF Types
  <2> QED BY <1>3, <1>5, <2>1, <2>2 DEF Net
<1> HIDE DEF cs
<1>8. Ord(conn', held, Bound)
  BY <1>1, <1>4, <1>6, KeepOrder
<1>9. \A b \in Conns : conn'[b].down # 0 => conn'[b].down \notin Held'
  <2>1. ASSUME NEW b \in Conns, conn'[b].down # 0 PROVE conn'[b].down \notin Held'
    <3>1. conn'[b].down \notin held
      BY <1>8, <2>1 DEF Ord, Downs
    <3>2. conn'[b] = cs[b] \/ conn'[b] = Unused
      BY <1>1 DEF Keep
    <3>3. conn'[b].down # c
      BY <1>7, <2>1, <3>2 DEF Unused
    <3> QED BY <1>4, <3>1, <3>3
  <2> QED BY <2>1
<1>10. Ord(conn', Held', Bound)
  BY <1>8, <1>9, HeldOther
<1> QED BY <1>1, <1>10, RegistryOrder

LEMMA OrderMonitor == ASSUME IInv, OrderInv, NEW w \in Workers, Monitor(w) PROVE OrderInv'
<1> DEFINE held == {plan.fd} \cup {reg[v] : v \in Workers \ {w}}
<1>1. /\ reg' = [reg EXCEPT ![w] = 0] /\ plan' = [plan EXCEPT !.current = FALSE]
      /\ Keep(conn, held) /\ UNCHANGED <<caller, pipe>>
  BY DEF Monitor
<1>2. Types /\ Ord(conn, Held, Bound)
  BY InCall
<1>3. held \subseteq Held /\ Held' \subseteq held \cup {0}
  <2>1. plan'.fd = plan.fd
    BY <1>1, <1>2 DEF Types, Plans
  <2>2. \A v \in Workers : reg'[v] = IF v = w THEN 0 ELSE reg[v]
    BY <1>1, <1>2 DEF Types
  <2>3. Entries' \subseteq {reg[v] : v \in Workers \ {w}} \cup {0}
    BY <2>2 DEF Entries
  <2> QED BY <2>1, <2>3 DEF Held, Entries
<1> HIDE DEF held
<1>4. Ord(conn', held, Bound)
  BY <1>1, <1>2, <1>3, KeepOrder
<1>5. Ord(conn', Held', Bound)
  BY <1>3, <1>4, HeldLess
<1> QED BY <1>1, <1>5, RegistryOrder

(* The far end of a connection is gone, with all that its worker knew.     *)
LEMMA DeadOrder ==
  ASSUME NEW m \in Links, Each(m), NEW w,
         NEW k, k = [Unused EXCEPT !.w = w, !.near = m.near, !.res = m.res]
  PROVE  Each(k) /\ All(k) \subseteq All(m) /\ k.down = 0 /\ DownRole(k, m)
<1>1. /\ k.res = m.res /\ k.pend = <<>> /\ k.hand = <<>> /\ k.queue = <<>> /\ k.work = <<>>
      /\ k.down = 0 /\ k.far = FALSE
  BY DEF Unused
<1>2. Each(k) /\ All(k) \subseteq All(m)
  <2>1. Ids(k.hand) = <<>> /\ Ids(k.queue) = <<>> /\ Ids(k.work) = <<>>
    BY <1>1, JobIds
  <2>2. Group(k) /\ All(k) \subseteq All(m)
    BY <1>1, <2>1, GoodDrop DEF Each, Group, All
  <2> QED BY <1>1, <2>2 DEF Each
<1> QED BY <1>1, <1>2 DEF DownRole, Works

LEMMA OrderCrash == ASSUME IInv, OrderInv, NEW w \in Workers, Crash(w) PROVE OrderInv'
<1> DEFINE downs == {conn[c].down : c \in {b \in Conns : conn[b].w = w}}
           Dead(c) == [Unused EXCEPT !.w = w, !.near = conn[c].near, !.res = conn[c].res]
           cs == [c \in Conns |-> IF conn[c].w = w THEN Dead(c)
                                  ELSE IF c \in downs THEN [conn[c] EXCEPT !.near = FALSE]
                                  ELSE conn[c]]
<1>1. UNCHANGED <<caller, pipe, route>> /\ Conn(cs)
  BY DEF Crash
<1>2. Ord(conn, Held, Bound) /\ conn \in Net
  BY InCall DEF Ord
<1> HIDE DEF downs
<1>3. ASSUME NEW c \in Conns
      PROVE  /\ cs[c] \in Links /\ Each(cs[c]) /\ All(cs[c]) \subseteq All(conn[c])
             /\ DownRole(cs[c], conn[c])
             /\ cs[c].down # 0 => cs[c].down = conn[c].down
                                  /\ (cs[c].closing \/ UpRole(cs[c], conn[c]))
  <2> DEFINE m == conn[c]
  <2>1. m \in Links /\ Each(m)
    BY <1>2, OrdParts
  <2>2. CASE m.w = w
    <3>1. cs[c] = Dead(c)
      BY <2>2
    <3>2. cs[c] \in Links
      <4>1. m.near \in BOOLEAN /\ m.res \in Seq(Results)
        BY <2>1 DEF Links
      <4> DEFINE n == m.near
                 r == m.res
                 k == [Unused EXCEPT !.w = w, !.near = n, !.res = r]
      <4>2. cs[c] = k
        BY <3>1
      <4>3. n \in BOOLEAN /\ r \in Seq(Results) /\ w \in Workers \cup {0}
        BY <4>1
      <4> HIDE DEF n, r
      <4>4. k \in Links
        BY <4>3, ClosedTyped
      <4> HIDE DEF k
      <4> QED BY <4>2, <4>4
    <3> DEFINE k == Dead(c)
    <3>3. k = [Unused EXCEPT !.w = w, !.near = m.near, !.res = m.res]
      OBVIOUS
    <3> HIDE DEF k, m
    <3>4. Each(k) /\ All(k) \subseteq All(m) /\ k.down = 0 /\ DownRole(k, m)
      BY <2>1, <3>3, DeadOrder
    <3> QED BY <3>1, <3>2, <3>4 DEF k, m
  <2>3. CASE m.w # w /\ c \in downs
    <3> DEFINE k == [m EXCEPT !.near = FALSE]
    <3>1. cs[c] = k
      BY <2>3
    <3>2. k \in Links
      BY <2>1, FieldTyped
    <3>3. SameIds(k, m) /\ k.closing = m.closing /\ k.relay = m.relay /\ ~Works(k)
      BY <2>1, FieldsKept
    <3> HIDE DEF k
    <3>4. Each(k) /\ All(k) = All(m) /\ DownRole(k, m)
      BY <2>1, <3>3, SameEach
    <3>5. k.down = m.down /\ (k.closing \/ UpRole(k, m))
      BY <2>1, <3>3 DEF SameIds, UpRole
    <3> QED BY <3>1, <3>2, <3>4, <3>5
  <2>4. CASE m.w # w /\ c \notin downs
    <3>1. cs[c] = m
      BY <2>4
    <3>2. DownRole(m, m) /\ (m.closing \/ UpRole(m, m))
      BY <2>1 DEF DownRole, UpRole
    <3> QED BY <2>1, <3>1, <3>2
  <2> QED BY <2>2, <2>3, <2>4
<1>4. cs \in [Conns -> Links]
  <2>1. \A c \in Conns : cs[c] \in Links
    BY <1>3
  <2> QED BY <2>1
<1> HIDE DEF cs
<1>5. cs \in Net
  BY <1>4 DEF Net
<1>6. Rows(cs) /\ Under(cs, Bound)
  <2>1. \A b \in Conns : Each(cs[b]) /\ \A z \in All(cs[b]) : z < Bound
    BY <1>2, <1>3, OrdParts
  <2> QED BY <2>1 DEF Rows, Under
<1>7. Pairs(conn) /\ Downs(conn, Held)
  BY <1>2 DEF Ord
<1>8. ASSUME NEW b \in Conns, cs[b].down # 0
      PROVE  /\ cs[b].down = conn[b].down
             /\ \/ cs[b].closing
                \/ UpRole(cs[b], conn[b]) /\ DownRole(cs[cs[b].down], conn[cs[b].down])
  <2>1. cs[b].down = conn[b].down /\ conn[b].down \in Conns
    BY <1>2, <1>3, <1>8, LinkParts
  <2>2. DownRole(cs[conn[b].down], conn[conn[b].down])
    BY <1>3, <2>1
  <2> QED BY <1>3, <1>8, <2>1, <2>2
<1>9. Ord(cs, Held, Bound)
  BY <1>2, <1>5, <1>6, <1>7, <1>8, Changes
<1> QED BY <1>1, <1>9, ConnOrder

LEMMA OrderRestart == ASSUME OrderInv, NEW w \in Workers, Restart(w) PROVE OrderInv'
<1>1. UNCHANGED <<caller, pipe, route>> /\ conn' = conn
  BY DEF Restart
<1> QED BY <1>1, ServingOrder DEF OrderInv

-----------------------------------------------------------------------------
LEMMA OrderInit == Init => OrderInv
<1> SUFFICES ASSUME Init PROVE OrderInv
  OBVIOUS
<1>1. conn \in Net
  BY InvInit DEF IInv, Types
<1>2. ASSUME NEW c \in Conns
      PROVE  /\ conn[c].res = <<>> /\ conn[c].pend = <<>> /\ conn[c].hand = <<>>
             /\ conn[c].queue = <<>> /\ conn[c].work = <<>> /\ conn[c].down = 0
  BY DEF Init, Opened, Unused
<1>3. \A c \in Conns : Each(conn[c]) /\ All(conn[c]) = {}
  BY <1>2, EmptyEach
<1>4. Rows(conn) /\ Under(conn, Bound)
  BY <1>3 DEF Rows, Under
<1>5. Pairs(conn) /\ Downs(conn, Held)
  BY <1>2 DEF Pairs, Downs
<1>6. SlotInv
  <2>1. snd.slots = <<>> /\ Ids(snd.slots) = <<>>
    BY JobIds DEF Init, NoSender
  <2> QED BY <2>1, EmptyOrder DEF SlotInv
<1> QED BY <1>1, <1>4, <1>5, <1>6 DEF OrderInv, Ord

LEMMA OrderUnchanged == ASSUME OrderInv, UNCHANGED vars PROVE OrderInv'
<1>1. UNCHANGED <<caller, pipe, route>> /\ conn' = conn
  BY DEF vars
<1> QED BY <1>1, ServingOrder DEF OrderInv

LEMMA OrderNext == IInv /\ OrderInv /\ [Next]_vars => OrderInv'
<1> SUFFICES ASSUME IInv, OrderInv, [Next]_vars PROVE OrderInv'
  OBVIOUS
<1>1. CASE Coordinator
  BY <1>1, OrderEvalSpan, OrderAwaitResult, OrderAwaitEof, OrderReroute, OrderProduce, OrderJoin,
     OrderSenderSends, OrderReaderTakes, OrderReaderEof DEF Coordinator
<1>2. ASSUME NEW c \in Conns, Worker(c) PROVE OrderInv'
  BY <1>2, OrderReadWork, OrderReadEnds, OrderEvaluate, OrderConnect, OrderForward, OrderRelay,
     OrderRelayEof, OrderCloseForwarder, OrderDisconnect DEF Worker
<1>3. ASSUME NEW w \in Workers, Register(w) \/ Monitor(w) \/ Crash(w) \/ Restart(w) PROVE OrderInv'
  BY <1>3, OrderRegister, OrderMonitor, OrderCrash, OrderRestart
<1>4. CASE UNCHANGED vars
  BY <1>4, OrderUnchanged
<1> QED BY <1>1, <1>2, <1>3, <1>4, OrderCall DEF Next, Steps, Finished

LEMMA Grouped ==
  ASSUME NEW S, NEW s \in Seq(S), NEW t \in Seq(S), NEW u \in Seq(S)
  PROVE  (s \o t) \o u = s \o (t \o u)
BY ConcatAssociative

Regroups(s, t, u) == (s \o t) \o u = s \o (t \o u) /\ s \o t \in Seq(Nat)

LEMMA Regrouped ==
  ASSUME NEW s \in Seq(Nat), NEW t \in Seq(Nat), NEW u \in Seq(Nat)
  PROVE  Regroups(s, t, u)
<1>1. s \o t \in Seq(Nat)
  OBVIOUS
<1>2. (s \o t) \o u = s \o (t \o u)
  BY Grouped
<1> QED BY <1>1, <1>2 DEF Regroups

FiveRegroup(a, p, h, q, w) == a \o p \o h \o q \o w = a \o (p \o (h \o (q \o w)))

LEMMA RegroupFive ==
  ASSUME NEW a \in Seq(Nat), NEW p \in Seq(Nat), NEW h \in Seq(Nat), NEW q \in Seq(Nat),
         NEW w \in Seq(Nat)
  PROVE  FiveRegroup(a, p, h, q, w)
<1>1. PICK ap : ap = a \o p /\ ap \in Seq(Nat)
  BY ConcatProperties
<1>2. PICK qw : qw = q \o w /\ qw \in Seq(Nat)
  BY ConcatProperties
<1>3. PICK hqw : hqw = h \o qw /\ hqw \in Seq(Nat)
  BY <1>2, ConcatProperties
<1>4. PICK aph : aph = ap \o h /\ aph \in Seq(Nat)
  BY <1>1, ConcatProperties
<1>5. Regroups(aph, q, w)
  BY <1>4, Regrouped, Zenon
<1>6. Regroups(ap, h, qw)
  BY <1>1, <1>2, Regrouped, Zenon
<1>7. Regroups(a, p, hqw)
  BY <1>3, Regrouped, Zenon
<1> QED BY <1>1, <1>2, <1>3, <1>4, <1>5, <1>6, <1>7, Zenon DEF Regroups, FiveRegroup

(* The requests of a connection in the invariant's words and in those of   *)
(* the property.                                                           *)
LEMMA SameLine == ASSUME NEW d \in Conns, conn \in Net PROVE Downstream(d) = Line(conn[d])
<1> DEFINE a == Ids(conn[d].res)
           p == conn[d].pend
           h == Ids(conn[d].hand)
           q == Ids(conn[d].queue)
           w == Ids(conn[d].work)
<1>1. conn[d] \in Links
  BY LinkParts
<1>2. a \in Seq(Nat) /\ p \in Seq(Nat) /\ h \in Seq(Nat) /\ q \in Seq(Nat) /\ w \in Seq(Nat)
  BY <1>1, LineTyped
<1>3. Downstream(d) = a \o p \o h \o q \o w /\ Line(conn[d]) = a \o (p \o (h \o (q \o w)))
  BY DEF Downstream, Line
<1> HIDE DEF a, p, h, q, w
<1>4. FiveRegroup(a, p, h, q, w)
  BY <1>2, RegroupFive
<1> QED BY <1>3, <1>4, Zenon DEF FiveRegroup

LEMMA OrderSuffices == IInv /\ OrderInv => PendingInOrder
<1> SUFFICES ASSUME IInv, OrderInv, NEW c \in Conns,
                    conn[c].relay, ~conn[c].closing, Healthy(conn[c].down)
             PROVE  LET d == conn[c].down
                    IN conn[c].pend = Downstream(d) \/ ErrorOvertook(c, d)
  BY DEF PendingInOrder
<1> DEFINE d == conn[c].down
<1>1. conn \in Net /\ Pairs(conn)
  BY DEF OrderInv, Ord
<1>2. d # 0 /\ d \in Conns
  BY <1>1, LinkParts
<1>3. Pair(conn[c], conn[d]) /\ Works(conn[d])
  BY <1>1, <1>2 DEF Pairs, Healthy, Works
<1>4. conn[c].pend = Line(conn[d]) \/ Early(conn[c].pend, conn[d])
  BY <1>3 DEF Pair
<1>5. Early(conn[c].pend, conn[d]) => ErrorOvertook(c, d)
  BY DEF Early, ErrorOvertook
<1>6. Downstream(d) = Line(conn[d])
  BY <1>1, <1>2, SameLine
<1> QED BY <1>4, <1>5, <1>6

(* Every forwarder pairs answers with requests by position, and that is    *)
(* right: while the connection to the next worker works, the requests      *)
(* pending in the forwarder are, in order, those answered, forwarded       *)
(* further, held, queued and on their way, except where an error report    *)
(* came early, whose id tells.  For every number of workers, every queue   *)
(* and forward depth, and whatever fails, reroutes or registers again.     *)
THEOREM InOrder == Spec => []PendingInOrder
<1>1. Init => IInv /\ OrderInv
  BY InvInit, OrderInit
<1>2. IInv /\ OrderInv /\ [Next]_vars => (IInv /\ OrderInv)'
  BY InvNext, OrderNext
<1>3. IInv /\ OrderInv => PendingInOrder
  BY OrderSuffices
<1> QED BY <1>1, <1>2, <1>3, PTL DEF Spec
=============================================================================
