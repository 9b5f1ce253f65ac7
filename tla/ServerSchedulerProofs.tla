------------------------ MODULE ServerSchedulerProofs ------------------------
(***************************************************************************)
(* Proofs about the scheduler for any number of slots, connections, prefill*)
(* quanta and tokens.  The dispatch of the queue is recursive: a first part*)
(* proves what every outcome of it is like, by a least counterexample over *)
(* the length of the queue that has been looked at.  The invariants follow *)
(* group by group: types and bounds, the executor, decodes and counters,   *)
(* prefill turns, the places of jobs, and the order of a shutdown.         *)
(***************************************************************************)
EXTENDS ServerScheduler, FiniteSetTheorems, WellFoundedInduction, SequenceTheorems, TLAPS

(* A nonempty set of naturals has a least element.                         *)
LEMMA LeastNat == ASSUME NEW S \in SUBSET Nat, S # {} PROVE \E x \in S : \A y \in S : x <= y
<1>1. PICK x \in S : \A y \in S : ~(<<y, x>> \in OpToRel(<, Nat))
  BY NatLessThanWellFounded, WFMin
<1>2. \A y \in S : x <= y
  <2> SUFFICES ASSUME NEW y \in S PROVE x <= y
    OBVIOUS
  <2>1. <<y, x>> \in Nat \X Nat /\ <<y, x>>[1] = y /\ <<y, x>>[2] = x
    OBVIOUS
  <2>2. ~(y < x)
    BY <1>1, <2>1 DEF OpToRel
  <2> QED BY <2>2
<1> QED BY <1>2

(* A set of naturals up to k that holds 0 and what follows each of its     *)
(* elements holds all of them.                                             *)
LEMMA UpTo ==
  ASSUME NEW k \in Nat, NEW T \in SUBSET (0 .. k), 0 \in T,
         \A n \in 0 .. k : n # k /\ n \in T => n + 1 \in T
  PROVE  T = 0 .. k
<1> DEFINE R == (0 .. k) \ T
<1>1. SUFFICES ASSUME R # {} PROVE FALSE
  OBVIOUS
<1>2. R \in SUBSET Nat
  OBVIOUS
<1> HIDE DEF R
<1>3. PICK x \in R : \A y \in R : x <= y
  BY <1>1, <1>2, LeastNat
<1>4. x \in 0 .. k /\ x # 0 /\ x \notin T
  BY <1>3 DEF R
<1>5. x - 1 \in 0 .. k /\ x - 1 # k /\ (x - 1) + 1 = x
  BY <1>4
<1>6. x - 1 \in T
  <2>1. x - 1 \notin R
    BY <1>3, <1>4
  <2> QED BY <1>5, <2>1 DEF R
<1> QED BY <1>4, <1>5, <1>6

-----------------------------------------------------------------------------

(* The recursion of dispatch_jobs_locked over the queue is well defined.   *)
Step(g, q, slots, requests, n) ==
  IF n = 0 THEN {[queue |-> <<>>, slot |-> slots]} ELSE Place(g[n - 1], q[n], requests)
After(q, slots, requests, g) ==
  g = [n \in 0 .. Len(q) |-> Step(g, q, slots, requests, n)]

LEMMA OutcomesAfter ==
  ASSUME NEW q, Len(q) \in Nat, NEW slots, NEW requests
  PROVE  \E g : After(q, slots, requests, g) /\ Outcomes(q, slots, requests) = g[Len(q)]
<1> DEFINE k == Len(q)
           Upto(n, g) == \A m \in 0 .. n : g[m] = Step(g, q, slots, requests, m)
           T == {n \in 0 .. k : \E g : Upto(n, g)}
<1>1. 0 \in T
  <2>1. Upto(0, [m \in 0 .. 0 |-> {[queue |-> <<>>, slot |-> slots]}])
    BY DEF Step
  <2>2. 0 \in 0 .. k
    OBVIOUS
  <2> QED BY <2>1, <2>2
<1>2. ASSUME NEW n \in 0 .. k, n # k, n \in T PROVE n + 1 \in T
  <2>1. PICK g : Upto(n, g)
    BY <1>2
  <2> DEFINE h == [m \in 0 .. n + 1 |-> IF m = n + 1 THEN Place(g[n], q[n + 1], requests) ELSE g[m]]
  <2>2. ASSUME NEW m \in 0 .. n + 1 PROVE h[m] = Step(h, q, slots, requests, m)
    <3>1. CASE m = n + 1
      BY <3>1, h[m - 1] = g[n] DEF Step
    <3>2. CASE m = 0
      <4>1. m \in 0 .. n /\ m # n + 1
        BY <3>2
      <4> QED BY <2>1, <4>1, <3>2 DEF Step
    <3>3. CASE m \in 1 .. n
      <4>1. m \in 0 .. n /\ m # n + 1 /\ m # 0 /\ h[m - 1] = g[m - 1] /\ h[m] = g[m]
        BY <3>3
      <4> QED BY <2>1, <4>1 DEF Step
    <3> QED BY <3>1, <3>2, <3>3
  <2>3. n + 1 \in 0 .. k
    BY <1>2
  <2>4. Upto(n + 1, h)
    BY <2>2
  <2> HIDE DEF h
  <2> QED BY <2>3, <2>4
<1>3. k \in T
  <2>1. T \in SUBSET (0 .. k)
    OBVIOUS
  <2> HIDE DEF T
  <2>2. T = 0 .. k
    BY <1>1, <1>2, <2>1, UpTo
  <2> QED BY <2>2
<1>4. PICK g : Upto(k, g)
  BY <1>3
<1> DEFINE f == [n \in 0 .. k |-> g[n]]
<1>5. \A n \in 0 .. k : f[n] = Step(f, q, slots, requests, n)
  <2> SUFFICES ASSUME NEW n \in 0 .. k PROVE f[n] = Step(f, q, slots, requests, n)
    OBVIOUS
  <2>1. n # 0 => f[n - 1] = g[n - 1]
    OBVIOUS
  <2> QED BY <1>4, <2>1 DEF Step
<1>6. After(q, slots, requests, f)
  BY <1>5 DEF After
<1> DEFINE a == CHOOSE a : a = [n \in 0 .. Len(q) |-> IF n = 0 THEN {[queue |-> <<>>, slot |-> slots]} ELSE Place(a[n - 1], q[n], requests)]
<1>7. After(q, slots, requests, a)
  BY <1>6 DEF After, Step
<1>8. Outcomes(q, slots, requests) = a[Len(q)]
  BY DEF Outcomes
<1> QED BY <1>7, <1>8

(* What holds of the empty outcome and survives the placing of each job    *)
(* holds of every outcome.                                                 *)
PlaceOne(o, c, requests) ==
  IF Eligible(o.slot, requests[c]) = {}
    THEN {[o EXCEPT !.queue = Append(@, c)]}
    ELSE {[o EXCEPT !.slot[s] = [assigned |-> c, busy |-> TRUE]] : s \in Eligible(o.slot, requests[c])}

LEMMA OutcomesIn ==
  ASSUME NEW q, Len(q) \in Nat, NEW slots, NEW requests, NEW G,
         [queue |-> <<>>, slot |-> slots] \in G[0],
         \A n \in 0 .. Len(q) : n # Len(q) =>
           \A o \in G[n] : PlaceOne(o, q[n + 1], requests) \subseteq G[n + 1]
  PROVE  Outcomes(q, slots, requests) \subseteq G[Len(q)]
<1>1. PICK g : After(q, slots, requests, g) /\ Outcomes(q, slots, requests) = g[Len(q)]
  BY OutcomesAfter
<1> DEFINE T == {n \in 0 .. Len(q) : g[n] \subseteq G[n]}
<1>2. \A n \in 0 .. Len(q) : g[n] = Step(g, q, slots, requests, n)
  BY <1>1 DEF After
<1>3. 0 \in T
  BY <1>2 DEF Step
<1>4. ASSUME NEW n \in 0 .. Len(q), n # Len(q), n \in T PROVE n + 1 \in T
  <2>1. n + 1 \in 0 .. Len(q) /\ n + 1 # 0 /\ (n + 1) - 1 = n
    BY <1>4
  <2>2. g[n + 1] = Place(g[n], q[n + 1], requests)
    BY <1>2, <2>1 DEF Step
  <2>3. Place(g[n], q[n + 1], requests) = UNION {PlaceOne(o, q[n + 1], requests) : o \in g[n]}
    BY DEF Place, PlaceOne
  <2>4. g[n + 1] \subseteq G[n + 1]
    BY <1>4, <2>2, <2>3
  <2> QED BY <2>1, <2>4
<1>5. T \in SUBSET (0 .. Len(q)) /\ Len(q) \in 0 .. Len(q)
  OBVIOUS
<1> HIDE DEF T
<1>6. T = 0 .. Len(q)
  BY <1>3, <1>4, <1>5, UpTo
<1>7. Len(q) \in T
  BY <1>5, <1>6
<1> QED BY <1>1, <1>7 DEF T

-----------------------------------------------------------------------------
(* What a dispatch of a queue without duplicates does.  A slot that is     *)
(* given a job was free, and the job may run there; a job is given to at   *)
(* most one slot, and then it is in the queue no more; what stays queued   *)
(* could run on no slot.                                                   *)
SlotSet == [Slots -> [assigned : Clients \cup {None}, busy : BOOLEAN]]
NoTwice(q) == \A i, j \in DOMAIN q : q[i] = q[j] => i = j
Gives(o, slots, s) == o.slot[s] # slots[s]
OutcomeOK(o, q, n, slots, requests) ==
  /\ o \in [queue : Seq(Clients), slot : SlotSet]
  /\ NoTwice(o.queue)
  /\ \A i \in DOMAIN o.queue : \E j \in 1 .. n : o.queue[i] = q[j]
  /\ \A s \in Slots : Gives(o, slots, s) =>
       /\ ~slots[s].busy /\ slots[s].assigned = None
       /\ o.slot[s].busy /\ o.slot[s].assigned \in Clients
       /\ \E j \in 1 .. n : o.slot[s].assigned = q[j]
       /\ Required(requests[o.slot[s].assigned]) \in {None, s}
       /\ \A i \in DOMAIN o.queue : o.queue[i] # o.slot[s].assigned
       /\ \A t \in Slots : Gives(o, slots, t) /\ o.slot[t].assigned = o.slot[s].assigned => t = s
  /\ \A j \in 1 .. n :
       \/ \E i \in DOMAIN o.queue : o.queue[i] = q[j]
       \/ \E s \in Slots : Gives(o, slots, s) /\ o.slot[s].assigned = q[j]
  /\ \A i \in DOMAIN o.queue : Eligible(o.slot, requests[o.queue[i]]) = {}

LEMMA PlaceKeeps ==
  ASSUME NEW q \in Seq(Clients), NoTwice(q), NEW slots \in SlotSet, NEW requests,
         NEW n \in 0 .. Len(q), n # Len(q), NEW o, OutcomeOK(o, q, n, slots, requests),
         NEW p \in PlaceOne(o, q[n + 1], requests)
  PROVE  OutcomeOK(p, q, n + 1, slots, requests)
<1> DEFINE c == q[n + 1]
           free == Eligible(o.slot, requests[c])
<1>1. /\ o \in [queue : Seq(Clients), slot : SlotSet] /\ o.queue \in Seq(Clients)
      /\ o.slot \in SlotSet /\ n + 1 \in 1 .. Len(q) /\ c \in Clients
  BY DEF OutcomeOK
<1>2. \A j \in 1 .. n : q[j] # c /\ j \in 1 .. n + 1
  BY <1>1 DEF NoTwice
<1>3. /\ \A i \in DOMAIN o.queue : \E j \in 1 .. n : o.queue[i] = q[j]
      /\ \A i \in DOMAIN o.queue : o.queue[i] # c
      /\ \A s \in Slots : Gives(o, slots, s) => o.slot[s].assigned # c /\ o.slot[s].busy
      /\ NoTwice(o.queue)
  BY <1>2 DEF OutcomeOK
<1>4. CASE free = {}
  <2>1. p = [o EXCEPT !.queue = Append(@, c)]
    BY <1>4 DEF PlaceOne
  <2>2. p \in [queue : Seq(Clients), slot : SlotSet] /\ p.slot = o.slot /\ p.queue = Append(o.queue, c)
    <3> DEFINE longer == Append(o.queue, c)
    <3>1. longer \in Seq(Clients)
      BY <1>1
    <3>2. p = [o EXCEPT !.queue = longer]
      BY <2>1
    <3> HIDE DEF longer
    <3>3. p \in [queue : Seq(Clients), slot : SlotSet] /\ p.slot = o.slot /\ p.queue = longer
      BY ONLY <1>1, <3>1, <3>2
    <3> QED BY <3>3 DEF longer
  <2>3. /\ DOMAIN o.queue = 1 .. Len(o.queue) /\ DOMAIN p.queue = 1 .. Len(o.queue) + 1
        /\ Len(o.queue) \in Nat
        /\ \A i \in 1 .. Len(o.queue) : p.queue[i] = o.queue[i]
        /\ p.queue[Len(o.queue) + 1] = c
    BY <1>1, <2>2
  <2>4. \A i \in DOMAIN p.queue : (i \in DOMAIN o.queue /\ p.queue[i] = o.queue[i]) \/ (p.queue[i] = c /\ i = Len(o.queue) + 1)
    <3>1. \A i \in DOMAIN p.queue : i \in 1 .. Len(o.queue) \/ i = Len(o.queue) + 1
      BY ONLY <2>3
    <3> QED BY ONLY <2>3, <3>1
  <2>5. NoTwice(p.queue)
    BY <1>3, <2>3, <2>4 DEF NoTwice
  <2>6. \A i \in DOMAIN p.queue : \E j \in 1 .. n + 1 : p.queue[i] = q[j]
    BY <1>2, <1>3, <2>4
  <2>7. \A s \in Slots : Gives(p, slots, s) <=> Gives(o, slots, s)
    BY <2>2 DEF Gives
  <2>8. ASSUME NEW s \in Slots, Gives(p, slots, s)
        PROVE  /\ ~slots[s].busy /\ slots[s].assigned = None
               /\ p.slot[s].busy /\ p.slot[s].assigned \in Clients
               /\ \E j \in 1 .. n + 1 : p.slot[s].assigned = q[j]
               /\ Required(requests[p.slot[s].assigned]) \in {None, s}
               /\ \A i \in DOMAIN p.queue : p.queue[i] # p.slot[s].assigned
               /\ \A t \in Slots : Gives(p, slots, t) /\ p.slot[t].assigned = p.slot[s].assigned => t = s
    BY <1>2, <1>3, <2>2, <2>4, <2>7, <2>8 DEF OutcomeOK
  <2>9. ASSUME NEW j \in 1 .. n + 1
        PROVE  \/ \E i \in DOMAIN p.queue : p.queue[i] = q[j]
               \/ \E s \in Slots : Gives(p, slots, s) /\ p.slot[s].assigned = q[j]
    <3>1. CASE j = n + 1
      BY <2>3, <3>1
    <3>2. CASE j \in 1 .. n
      <4>1. \/ \E i \in DOMAIN o.queue : o.queue[i] = q[j]
            \/ \E s \in Slots : Gives(o, slots, s) /\ o.slot[s].assigned = q[j]
        BY <3>2 DEF OutcomeOK
      <4>2. \A i \in DOMAIN o.queue : i \in DOMAIN p.queue /\ p.queue[i] = o.queue[i]
        BY ONLY <2>3
      <4> QED BY <2>2, <2>7, <4>1, <4>2
    <3> QED BY <3>1, <3>2
  <2>10. \A i \in DOMAIN p.queue : Eligible(p.slot, requests[p.queue[i]]) = {}
    BY <1>4, <2>2, <2>4 DEF OutcomeOK
  <2> QED BY <2>2, <2>5, <2>6, <2>8, <2>9, <2>10 DEF OutcomeOK
<1>5. CASE free # {}
  <2>1. PICK r \in free : p = [o EXCEPT !.slot[r] = [assigned |-> c, busy |-> TRUE]]
    BY <1>5 DEF PlaceOne
  <2>2. /\ r \in Slots /\ ~o.slot[r].busy /\ o.slot[r].assigned = None
        /\ Required(requests[c]) \in {None, r}
    BY DEF Eligible
  <2>3. [assigned |-> c, busy |-> TRUE] \in [assigned : Clients \cup {None}, busy : BOOLEAN]
    BY <1>1
  <2>4. /\ p \in [queue : Seq(Clients), slot : SlotSet] /\ p.queue = o.queue
        /\ p.slot = [o.slot EXCEPT ![r] = [assigned |-> c, busy |-> TRUE]]
    BY <1>1, <2>1, <2>2, <2>3 DEF SlotSet
  <2>5. /\ p.slot[r].assigned = c /\ p.slot[r].busy
        /\ \A s \in Slots : s # r => p.slot[s] = o.slot[s]
    BY <1>1, <2>2, <2>4 DEF SlotSet
  <2>6. ~Gives(o, slots, r) /\ o.slot[r] = slots[r]
    BY <1>3, <2>2 DEF Gives
  <2>7. \A s \in Slots : s # r => (Gives(p, slots, s) <=> Gives(o, slots, s))
    BY <2>5 DEF Gives
  <2>8. Gives(p, slots, r)
    BY <2>2, <2>5, <2>6 DEF Gives
  <2>9. ASSUME NEW s \in Slots, Gives(p, slots, s)
        PROVE  /\ ~slots[s].busy /\ slots[s].assigned = None
               /\ p.slot[s].busy /\ p.slot[s].assigned \in Clients
               /\ \E j \in 1 .. n + 1 : p.slot[s].assigned = q[j]
               /\ Required(requests[p.slot[s].assigned]) \in {None, s}
               /\ \A i \in DOMAIN p.queue : p.queue[i] # p.slot[s].assigned
               /\ \A t \in Slots : Gives(p, slots, t) /\ p.slot[t].assigned = p.slot[s].assigned => t = s
    <3>1. CASE s = r
      <4>1. n + 1 \in 1 .. n + 1
        OBVIOUS
      <4>2. \A t \in Slots : Gives(p, slots, t) /\ p.slot[t].assigned = c => t = r
        BY <1>3, <2>5, <2>7
      <4> QED BY <1>1, <1>3, <2>2, <2>4, <2>5, <2>6, <3>1, <4>1, <4>2
    <3>2. CASE s # r
      <4>1. Gives(o, slots, s) /\ p.slot[s] = o.slot[s] /\ p.slot[s].assigned # c
        BY <1>3, <2>5, <2>7, <2>9, <3>2
      <4>2. /\ ~slots[s].busy /\ slots[s].assigned = None
            /\ o.slot[s].busy /\ o.slot[s].assigned \in Clients
            /\ \E j \in 1 .. n : o.slot[s].assigned = q[j]
            /\ Required(requests[o.slot[s].assigned]) \in {None, s}
            /\ \A i \in DOMAIN o.queue : o.queue[i] # o.slot[s].assigned
            /\ \A t \in Slots : Gives(o, slots, t) /\ o.slot[t].assigned = o.slot[s].assigned => t = s
        BY <4>1 DEF OutcomeOK
      <4>3. \A t \in Slots : Gives(p, slots, t) /\ p.slot[t].assigned = p.slot[s].assigned => t = s
        BY <2>5, <2>7, <4>1, <4>2
      <4> QED BY <1>2, <2>4, <4>1, <4>2, <4>3
    <3> QED BY <3>1, <3>2
  <2>10. ASSUME NEW j \in 1 .. n + 1
         PROVE  \/ \E i \in DOMAIN p.queue : p.queue[i] = q[j]
                \/ \E s \in Slots : Gives(p, slots, s) /\ p.slot[s].assigned = q[j]
    <3>1. CASE j = n + 1
      BY <2>2, <2>5, <2>8, <3>1
    <3>2. CASE j \in 1 .. n
      <4>1. \/ \E i \in DOMAIN o.queue : o.queue[i] = q[j]
            \/ \E s \in Slots : Gives(o, slots, s) /\ o.slot[s].assigned = q[j]
        BY <3>2 DEF OutcomeOK
      <4> QED BY <2>4, <2>5, <2>6, <2>7, <4>1
    <3> QED BY <3>1, <3>2
  <2>11. \A i \in DOMAIN p.queue : Eligible(p.slot, requests[p.queue[i]]) = {}
    <3>1. \A i \in DOMAIN o.queue : Eligible(o.slot, requests[o.queue[i]]) = {}
      BY DEF OutcomeOK
    <3>2. \A t : Eligible(p.slot, t) \subseteq Eligible(o.slot, t)
      BY <2>5 DEF Eligible
    <3> QED BY <2>4, <3>1, <3>2
  <2>12. \A i \in DOMAIN p.queue : \E j \in 1 .. n + 1 : p.queue[i] = q[j]
    BY <1>2, <1>3, <2>4
  <2> QED BY <1>3, <2>4, <2>9, <2>10, <2>11, <2>12 DEF OutcomeOK
<1> QED BY <1>4, <1>5

LEMMA OutcomesOK ==
  ASSUME NEW q \in Seq(Clients), NoTwice(q), NEW slots \in SlotSet, NEW requests,
         NEW o \in Outcomes(q, slots, requests)
  PROVE  OutcomeOK(o, q, Len(q), slots, requests)
<1> DEFINE O == [queue : Seq(Clients), slot : SlotSet]
           G == [n \in 0 .. Len(q) |-> {p \in O : OutcomeOK(p, q, n, slots, requests)}]
           base == [queue |-> <<>>, slot |-> slots]
<1>1. Len(q) \in Nat
  OBVIOUS
<1>2. base \in G[0]
  <2>1. base \in O /\ base.queue = <<>> /\ base.slot = slots
    OBVIOUS
  <2>2. OutcomeOK(base, q, 0, slots, requests)
    BY <2>1 DEF OutcomeOK, NoTwice, Gives
  <2>3. 0 \in 0 .. Len(q)
    OBVIOUS
  <2> QED BY <2>1, <2>2, <2>3
<1>3. ASSUME NEW n \in 0 .. Len(q), n # Len(q), NEW p \in G[n], NEW r \in PlaceOne(p, q[n + 1], requests)
      PROVE  r \in G[n + 1]
  <2>1. OutcomeOK(r, q, n + 1, slots, requests)
    BY <1>3, PlaceKeeps
  <2>2. r \in O /\ n + 1 \in 0 .. Len(q)
    BY <1>3, <2>1 DEF OutcomeOK
  <2> QED BY <2>1, <2>2
<1> HIDE DEF G
<1>4. o \in G[Len(q)]
  BY <1>1, <1>2, <1>3, OutcomesIn
<1> QED BY <1>4 DEF G
-----------------------------------------------------------------------------
(* The inductive invariant.                                                *)

WorkerSet == [pc : WorkerPc, job : Clients \cup {None}, quanta : 0 .. MaxQuanta,
              tokens : 0 .. MaxTokens, retried : BOOLEAN, ok : BOOLEAN]
RequestSet == [live : BOOLEAN, bound : Slots \cup {None}]
ModelSet == [busy : BOOLEAN, stopping : BOOLEAN, pending : Int, active : Int, last : Slots]
DecodeSet == [pending : BOOLEAN, inFlight : BOOLEAN, done : BOOLEAN, ok : BOOLEAN]

(* TypeOK without the range of the two counters.                           *)
Shape ==
  /\ {stop, stopping, tpFailed, fatal} \subseteq BOOLEAN
  /\ main \in MainPc
  /\ client \in [Clients -> ClientPc]
  /\ request \in [Clients -> RequestSet]
  /\ live \in [Slots -> BOOLEAN]
  /\ queue \in Seq(Clients)
  /\ slot \in SlotSet
  /\ worker \in [Slots -> WorkerSet]
  /\ cvWait \subseteq Slots
  /\ model \in ModelSet
  /\ prefillWaiting \in [Slots -> BOOLEAN]
  /\ decode \in [Slots -> DecodeSet]
  /\ modelWait \subseteq Slots \cup {Decoder}
  /\ dw \in [pc : DwPc, members : SUBSET Slots]

(* Another quantum, or another token, is begun only below its bound.       *)
Bounded(w) ==
  /\ w.pc \in {"idle", "start"} => w.quanta = 0
  /\ w.pc \in {"enter", "turn", "prefill"} => w.quanta < MaxQuanta
  /\ w.pc \in {"ask", "eval"} => w.tokens < MaxTokens
WithinBounds == \A s \in Slots : Bounded(worker[s])

(* model_busy stands for the one thread that has the executor.             *)
ExecInv ==
  /\ \A s, t \in Slots : worker[s].pc = "prefill" /\ worker[t].pc = "prefill" => s = t
  /\ \A s \in Slots : worker[s].pc = "prefill" => dw.pc # "eval"
  /\ model.busy <=> dw.pc = "eval" \/ \E s \in Slots : worker[s].pc = "prefill"

(* A slot's decode is pending, in flight or done, one of them at most, and *)
(* a batch is out only while the decode worker evaluates it.               *)
DecodeInv ==
  /\ CountersAgree
  /\ \A s \in Slots : /\ ~(decode[s].pending /\ decode[s].inFlight)
                      /\ decode[s].done => ~decode[s].pending /\ ~decode[s].inFlight
  /\ dw.pc # "eval" => dw.members = {}

(* How far slot t is behind slot x in the round.                           *)
Dist(x, t) == IF t > x THEN t - x ELSE t - x + NSlots

(* A slot that has passed the waiting t once is behind it in the round.    *)
TurnInv ==
  /\ passed \in [Slots -> [Slots -> {0, 1}]]
  /\ \A t, s \in Slots : ~prefillWaiting[t] => passed[t][s] = 0
  /\ \A t, s \in Slots : passed[t][s] = 1 => Dist(s, t) >= Dist(model.last, t)

Resting == {"idle", "exited"}
Has(q, c) == \E i \in DOMAIN q : q[i] = c
Runs(work, s, c) == work[s].job = c /\ work[s].pc # "free"

(* Nobody's job is in two places, and the jobs of those who wait are the   *)
(* ones that have a place.                                                 *)
PlacesOK(q, slots, work, cl) ==
  /\ NoTwice(q)
  /\ \A c \in Clients, s, t \in Slots : slots[s].assigned = c /\ slots[t].assigned = c => s = t
  /\ \A c \in Clients, s, t \in Slots : Runs(work, s, c) /\ Runs(work, t, c) => s = t
  /\ \A c \in Clients, s \in Slots : slots[s].assigned = c \/ Runs(work, s, c) => ~Has(q, c)
  /\ \A c \in Clients, s, t \in Slots : ~(slots[s].assigned = c /\ Runs(work, t, c))
  /\ \A c \in Clients : cl[c] = "waiting" <=>
       Has(q, c) \/ \E s \in Slots : slots[s].assigned = c \/ Runs(work, s, c)
PlaceInv == PlacesOK(queue, slot, worker, client)

(* busy covers a job from its assignment until its slot is free again; an  *)
(* exited worker has left nothing behind.                                  *)
SlotsOK(q, slots, work, cl, closed) ==
  \A s \in Slots :
    /\ slots[s].busy <=> slots[s].assigned # None \/ work[s].pc \notin Resting
    /\ work[s].pc \in Resting => work[s].job = None
    /\ work[s].pc \notin Resting => work[s].job \in Clients /\ slots[s].assigned = None
    /\ work[s].pc = "free" => cl[work[s].job] \in {"answered", "gone"}
    /\ work[s].pc = "exited" => closed /\ q = <<>> /\ slots[s].assigned = None
SlotInv == SlotsOK(queue, slot, worker, client, stopping)

(* Live continuations are where they belong.                               *)
LiveOK(slots, work, cl, req) ==
  \A s \in Slots, c \in Clients :
    slots[s].assigned = c \/ work[s].job = c => (cl[c] = "waiting" => Required(req[c]) \in {None, s})
LiveInv == LiveOK(slot, worker, client, request)

(* The order of a shutdown: the slot workers, then the decode worker, then *)
(* the connections.                                                        *)
StopInv ==
  /\ model.stopping => main \in {"joinDecode", "clients", "stopped"}
  /\ main \in {"joinDecode", "clients", "stopped"} => \A s \in Slots : worker[s].pc = "exited"
  /\ main \in {"clients", "stopped"} => dw.pc = "exited"
  /\ dw.pc = "exited" => model.stopping /\ model.pending = 0

IInv ==
  /\ Shape /\ WithinBounds /\ ExecInv /\ DecodeInv /\ SessionOwned /\ TurnInv
  /\ PlaceInv /\ SlotInv /\ WorkConserving /\ LiveInv /\ StopInv
-----------------------------------------------------------------------------
(* Dispatch, as the invariants see it.                                     *)

Given(slots, s) == slot'[s] # slots[s]
Placed(q, slots, requests) ==
  /\ queue' \in Seq(Clients) /\ slot' \in SlotSet /\ NoTwice(queue')
  /\ \A c : Has(queue', c) => Has(q, c)
  /\ \A s \in Slots : Given(slots, s) =>
       /\ ~slots[s].busy /\ slots[s].assigned = None
       /\ slot'[s].busy /\ slot'[s].assigned \in Clients
       /\ Has(q, slot'[s].assigned) /\ ~Has(queue', slot'[s].assigned)
       /\ Required(requests[slot'[s].assigned]) \in {None, s}
  /\ \A s, t \in Slots :
       Given(slots, s) /\ Given(slots, t) /\ slot'[s].assigned = slot'[t].assigned => s = t
  /\ \A c : Has(q, c) => Has(queue', c) \/ \E s \in Slots : Given(slots, s) /\ slot'[s].assigned = c
  /\ \A i \in DOMAIN queue' : Eligible(slot', requests[queue'[i]]) = {}

LEMMA DispatchPlaces ==
  ASSUME NEW q \in Seq(Clients), NoTwice(q), NEW slots \in SlotSet, NEW requests, NEW announce,
         Dispatch(q, slots, requests, announce)
  PROVE  Placed(q, slots, requests) /\ cvWait' \in {{}, cvWait}
<1>1. PICK o \in Outcomes(q, slots, requests) :
        /\ queue' = o.queue /\ slot' = o.slot
        /\ cvWait' = IF announce \/ o.slot # slots THEN {} ELSE cvWait
  BY DEF Dispatch
<1>2. OutcomeOK(o, q, Len(q), slots, requests)
  BY OutcomesOK
<1>3. \A s \in Slots : Given(slots, s) <=> Gives(o, slots, s)
  BY <1>1 DEF Given, Gives
<1>4. DOMAIN q = 1 .. Len(q)
  OBVIOUS
<1>5. queue' \in Seq(Clients) /\ slot' \in SlotSet /\ NoTwice(queue')
  BY <1>1, <1>2 DEF OutcomeOK
<1>6. \A c : Has(queue', c) => Has(q, c)
  BY <1>1, <1>2, <1>4 DEF OutcomeOK, Has
<1>7. ASSUME NEW s \in Slots, Given(slots, s)
      PROVE  /\ ~slots[s].busy /\ slots[s].assigned = None
             /\ slot'[s].busy /\ slot'[s].assigned \in Clients
             /\ Has(q, slot'[s].assigned) /\ ~Has(queue', slot'[s].assigned)
             /\ Required(requests[slot'[s].assigned]) \in {None, s}
  BY <1>1, <1>2, <1>3, <1>4, <1>7 DEF OutcomeOK, Has
<1>8. ASSUME NEW s \in Slots, NEW t \in Slots, Given(slots, s), Given(slots, t),
             slot'[s].assigned = slot'[t].assigned
      PROVE  s = t
  BY <1>1, <1>2, <1>3, <1>8 DEF OutcomeOK
<1>9. ASSUME NEW c, Has(q, c)
      PROVE  Has(queue', c) \/ \E s \in Slots : Given(slots, s) /\ slot'[s].assigned = c
  <2>1. PICK j \in 1 .. Len(q) : q[j] = c
    BY <1>4, <1>9 DEF Has
  <2>2. \/ \E i \in DOMAIN o.queue : o.queue[i] = q[j]
        \/ \E s \in Slots : Gives(o, slots, s) /\ o.slot[s].assigned = q[j]
    BY <1>2 DEF OutcomeOK
  <2> QED BY <1>1, <1>3, <2>1, <2>2 DEF Has
<1>10. \A i \in DOMAIN queue' : Eligible(slot', requests[queue'[i]]) = {}
  BY <1>1, <1>2 DEF OutcomeOK
<1> QED BY <1>1, <1>5, <1>6, <1>7, <1>8, <1>9, <1>10 DEF Placed

(* Places stay unique under a dispatch, and nobody's job loses its place.  *)
LEMMA PlacesPlaced ==
  ASSUME NEW q, NEW slots \in SlotSet, NEW requests, NEW work, NEW cl,
         PlacesOK(q, slots, work, cl), Placed(q, slots, requests)
  PROVE  PlacesOK(queue', slot', work, cl)
<1>1. \A s \in Slots : slot'[s].assigned = slots[s].assigned \/ (Given(slots, s) /\ slots[s].assigned = None)
  BY DEF Placed, Given
<1>2. NoTwice(queue')
  BY DEF Placed
<1>3. ASSUME NEW c \in Clients, NEW s \in Slots, NEW t \in Slots,
             slot'[s].assigned = c, slot'[t].assigned = c
      PROVE  s = t
  BY <1>1, <1>3 DEF Placed, PlacesOK, Given
<1>4. \A c \in Clients, s, t \in Slots : Runs(work, s, c) /\ Runs(work, t, c) => s = t
  BY DEF PlacesOK
<1>5. ASSUME NEW c \in Clients, NEW s \in Slots, slot'[s].assigned = c \/ Runs(work, s, c)
      PROVE  ~Has(queue', c)
  BY <1>1, <1>5 DEF Placed, PlacesOK
<1>6. ASSUME NEW c \in Clients, NEW s \in Slots, NEW t \in Slots, slot'[s].assigned = c, Runs(work, t, c)
      PROVE  FALSE
  BY <1>1, <1>6 DEF Placed, PlacesOK
<1>7. ASSUME NEW c \in Clients
      PROVE  cl[c] = "waiting" <=>
               Has(queue', c) \/ \E s \in Slots : slot'[s].assigned = c \/ Runs(work, s, c)
  <2>1. cl[c] = "waiting" <=> Has(q, c) \/ \E s \in Slots : slots[s].assigned = c \/ Runs(work, s, c)
    BY DEF PlacesOK
  <2>2. \A s \in Slots : slots[s].assigned = c => slot'[s].assigned = c
    BY <1>1, NoneAssumption DEF Placed
  <2>3. Has(q, c) => Has(queue', c) \/ \E s \in Slots : slot'[s].assigned = c
    BY DEF Placed
  <2>4. Has(queue', c) => Has(q, c)
    BY DEF Placed
  <2>5. \A s \in Slots : slot'[s].assigned = c => slots[s].assigned = c \/ Has(q, c)
    BY DEF Placed, Given
  <2> QED BY <2>1, <2>2, <2>3, <2>4, <2>5
<1> QED BY <1>2, <1>3, <1>4, <1>5, <1>6, <1>7 DEF PlacesOK

(* A dispatch of an empty queue changes nothing.                           *)
LEMMA NothingPlaced ==
  ASSUME NEW slots \in SlotSet, NEW requests, Placed(<<>>, slots, requests)
  PROVE  queue' = <<>> /\ \A s \in Slots : slot'[s] = slots[s]
<1>1. \A c : ~Has(<<>>, c)
  BY DEF Has
<1>2. queue' = <<>>
  <2>1. DOMAIN queue' = {}
    BY <1>1 DEF Placed, Has
  <2> QED BY <2>1 DEF Placed
<1>3. \A s \in Slots : slot'[s] = slots[s]
  BY <1>1 DEF Placed, Given
<1> QED BY <1>2, <1>3

LEMMA SlotsPlaced ==
  ASSUME NEW q, NEW slots \in SlotSet, NEW requests, NEW work, NEW cl, NEW closed, NEW closedNow,
         SlotsOK(q, slots, work, cl, closed), closed => closedNow, Placed(q, slots, requests)
  PROVE  SlotsOK(queue', slot', work, cl, closedNow)
<1> SUFFICES ASSUME NEW s \in Slots
             PROVE  /\ slot'[s].busy <=> slot'[s].assigned # None \/ work[s].pc \notin Resting
                    /\ work[s].pc \in Resting => work[s].job = None
                    /\ work[s].pc \notin Resting => work[s].job \in Clients /\ slot'[s].assigned = None
                    /\ work[s].pc = "free" => cl[work[s].job] \in {"answered", "gone"}
                    /\ work[s].pc = "exited" => closedNow /\ queue' = <<>> /\ slot'[s].assigned = None
  BY DEF SlotsOK
<1>1. /\ slots[s].busy <=> slots[s].assigned # None \/ work[s].pc \notin Resting
      /\ work[s].pc \in Resting => work[s].job = None
      /\ work[s].pc \notin Resting => work[s].job \in Clients /\ slots[s].assigned = None
      /\ work[s].pc = "free" => cl[work[s].job] \in {"answered", "gone"}
      /\ work[s].pc = "exited" => closed /\ q = <<>> /\ slots[s].assigned = None
  BY DEF SlotsOK
<1>2. work[s].pc = "exited" => queue' = <<>> /\ slot'[s] = slots[s]
  BY <1>1, NothingPlaced
<1>3. CASE slot'[s] = slots[s]
  BY <1>1, <1>2, <1>3
<1>4. CASE Given(slots, s)
  <2>1. /\ ~slots[s].busy /\ slots[s].assigned = None
        /\ slot'[s].busy /\ slot'[s].assigned \in Clients
    BY <1>4 DEF Placed
  <2> QED BY <1>1, <1>2, <1>4, <2>1, NoneAssumption DEF Given
<1> QED BY <1>3, <1>4 DEF Given

LEMMA LivePlaced ==
  ASSUME NEW q, NEW slots \in SlotSet, NEW req, NEW work, NEW cl,
         LiveOK(slots, work, cl, req), Placed(q, slots, req)
  PROVE  LiveOK(slot', work, cl, req)
<1> SUFFICES ASSUME NEW s \in Slots, NEW c \in Clients, slot'[s].assigned = c \/ work[s].job = c,
                    cl[c] = "waiting"
             PROVE  Required(req[c]) \in {None, s}
  BY DEF LiveOK
<1>1. CASE slot'[s] = slots[s] \/ work[s].job = c
  BY <1>1 DEF LiveOK
<1>2. CASE Given(slots, s) /\ slot'[s].assigned = c
  BY <1>2 DEF Placed
<1> QED BY <1>1, <1>2 DEF Given

(* What stays queued could run nowhere: so every slot is in use if the job *)
(* could run on any.                                                       *)
LEMMA WorkPlaced ==
  ASSUME NEW q, NEW slots \in SlotSet, NEW req, NEW work, NEW cl, NEW closed, Placed(q, slots, req),
         SlotsOK(queue', slot', work, cl, closed),
         NEW i \in DOMAIN queue', ~req[queue'[i]].live, NEW s \in Slots
  PROVE  slot'[s].busy
<1>1. Eligible(slot', req[queue'[i]]) = {}
  BY DEF Placed
<1>2. s \notin Eligible(slot', req[queue'[i]])
  BY <1>1
<1>3. slot'[s].busy \/ slot'[s].assigned # None
  BY <1>2 DEF Eligible, Required
<1> QED BY <1>3 DEF SlotsOK
-----------------------------------------------------------------------------
(* What each step of a slot worker does to the workers.                    *)

Becomes(s, pcs) ==
  /\ worker' \in [Slots -> WorkerSet]
  /\ \A t \in Slots : t # s => worker'[t] = worker[t]
  /\ worker'[s].pc \in pcs
  /\ Bounded(worker'[s])

LEMMA Becoming ==
  ASSUME Shape, NEW s \in Slots, NEW w \in WorkerSet, Bounded(w), NEW pcs, w.pc \in pcs,
         worker' = [worker EXCEPT ![s] = w]
  PROVE  Becomes(s, pcs) /\ worker'[s] = w
BY DEF Becomes, Shape

LEMMA Going ==
  ASSUME Shape, NEW s \in Slots, NEW pc \in WorkerPc, NEW pcs, pc \in pcs, Goto(s, pc),
         Bounded([worker[s] EXCEPT !.pc = pc])
  PROVE  Becomes(s, pcs) /\ worker'[s].job = Job(s)
<1> DEFINE w == [worker[s] EXCEPT !.pc = pc]
<1>1. worker[s] \in WorkerSet
  BY DEF Shape
<1>2. w \in WorkerSet /\ w.pc = pc /\ w.job = worker[s].job
  BY <1>1 DEF WorkerSet
<1>3. worker' = [worker EXCEPT ![s] = w]
  BY DEF Goto
<1> HIDE DEF w
<1>4. Bounded(w)
  BY DEF w
<1>5. Becomes(s, pcs) /\ worker'[s] = w
  BY <1>2, <1>3, <1>4, Becoming
<1> QED BY <1>2, <1>5 DEF Job

(* A program counter with no bound of its own.                             *)
LEMMA GoingOn ==
  ASSUME Shape, NEW s \in Slots, NEW pc \in WorkerPc, NEW pcs, pc \in pcs, Goto(s, pc),
         pc \notin {"idle", "start", "enter", "turn", "prefill", "ask", "eval"}
  PROVE  Becomes(s, pcs) /\ worker'[s].job = Job(s)
<1>1. worker[s] \in WorkerSet
  BY DEF Shape
<1>2. [worker[s] EXCEPT !.pc = pc].pc = pc
  BY <1>1 DEF WorkerSet
<1>3. Bounded([worker[s] EXCEPT !.pc = pc])
  BY <1>2 DEF Bounded
<1> QED BY <1>3, Going

Open == {"start", "enter", "turn", "prefill", "clear", "generate", "ask", "eval", "endgen",
         "remember", "fatal", "fatalStop", "done"}

LEMMA IdleWorks ==
  ASSUME Shape, WithinBounds, NEW s \in Slots, Idle(s)
  PROVE  \/ /\ slot[s].assigned # None /\ Becomes(s, {"start"}) /\ worker'[s].job = slot[s].assigned
            /\ slot' = [slot EXCEPT ![s].assigned = None] /\ cvWait' = cvWait
         \/ /\ slot[s].assigned = None /\ slot' = slot /\ stopping /\ queue = <<>>
            /\ Becomes(s, {"exited"}) /\ worker'[s].job = Job(s) /\ cvWait' = cvWait
         \/ slot[s].assigned = None /\ slot' = slot /\ worker' = worker /\ cvWait' = cvWait \cup {s}
<1>1. CASE slot[s].assigned # None
  <2> DEFINE w == [worker[s] EXCEPT !.pc = "start", !.job = slot[s].assigned]
  <2>1. worker[s] \in WorkerSet /\ slot[s].assigned \in Clients \cup {None}
    BY DEF Shape, SlotSet
  <2>2. /\ w \in WorkerSet /\ w.pc = "start" /\ w.job = slot[s].assigned
        /\ w.quanta = worker[s].quanta
    BY <2>1 DEF WorkerSet, WorkerPc
  <2>3. worker' = [worker EXCEPT ![s] = w]
    BY <1>1 DEF Idle
  <2>4. worker[s].pc = "idle" /\ worker[s].quanta = 0
    BY DEF Idle, WithinBounds, Bounded
  <2> HIDE DEF w
  <2>5. Bounded(w)
    BY <2>2, <2>4 DEF Bounded
  <2>6. Becomes(s, {"start"}) /\ worker'[s] = w
    BY <2>2, <2>3, <2>5, Becoming
  <2> QED BY <1>1, <2>2, <2>6 DEF Idle
<1>2. CASE slot[s].assigned = None /\ stopping /\ queue = <<>>
  <2>1. Goto(s, "exited") /\ "exited" \in WorkerPc
    BY <1>2 DEF Idle, WorkerPc
  <2>2. Becomes(s, {"exited"}) /\ worker'[s].job = Job(s)
    BY <2>1, GoingOn
  <2> QED BY <1>2, <2>2 DEF Idle
<1>3. CASE slot[s].assigned = None /\ ~(stopping /\ queue = <<>>)
  BY <1>3 DEF Idle
<1> QED BY <1>1, <1>2, <1>3

LEMMA StartWorks ==
  ASSUME Shape, WithinBounds, NEW s \in Slots, Start(s)
  PROVE  worker[s].pc = "start" /\ Becomes(s, {"done", "enter"}) /\ worker'[s].job = Job(s)
<1>1. worker[s].pc = "start" /\ worker[s].quanta = 0 /\ worker[s] \in WorkerSet
  BY DEF Start, WithinBounds, Bounded, Shape
<1>2. CASE Goto(s, "done")
  <2>1. "done" \in WorkerPc
    BY DEF WorkerPc
  <2> QED BY <1>1, <1>2, <2>1, GoingOn
<1>3. CASE Goto(s, "enter")
  <2>1. "enter" \in WorkerPc
    BY DEF WorkerPc
  <2>2. [worker[s] EXCEPT !.pc = "enter"].pc = "enter" /\ [worker[s] EXCEPT !.pc = "enter"].quanta = 0
    BY <1>1 DEF WorkerSet
  <2>3. Bounded([worker[s] EXCEPT !.pc = "enter"])
    BY <2>2, QuantaAssumption DEF Bounded
  <2> QED BY <1>1, <1>3, <2>1, <2>3, Going
<1> QED BY <1>2, <1>3 DEF Start

LEMMA TurnWorks ==
  ASSUME Shape, WithinBounds, NEW s \in Slots, worker[s].pc \in {"enter", "turn"},
         NEW waiting, NEW asleep, AwaitTurn(s, waiting, asleep)
  PROVE  /\ Becomes(s, {"remember", "done", "prefill", "turn"}) /\ worker'[s].job = Job(s)
         /\ worker'[s].pc = "prefill" <=> ~stop /\ HasTurn(s, waiting)
<1>1. worker[s] \in WorkerSet /\ worker[s].quanta < MaxQuanta
  BY DEF WithinBounds, Bounded, Shape
<1>2. CASE stop
  <2> DEFINE w == [worker[s] EXCEPT !.pc = AfterError(s), !.ok = FALSE]
  <2>1. AfterError(s) \in {"remember", "done"} /\ AfterError(s) \in WorkerPc
    BY DEF AfterError, WorkerPc
  <2>2. w \in WorkerSet /\ w.pc = AfterError(s) /\ w.job = worker[s].job
    BY <1>1, <2>1 DEF WorkerSet
  <2>3. worker' = [worker EXCEPT ![s] = w]
    BY <1>2 DEF AwaitTurn
  <2> HIDE DEF w
  <2>4. Bounded(w)
    BY <2>1, <2>2 DEF Bounded
  <2>5. w.pc \in {"remember", "done", "prefill", "turn"}
    BY <2>1, <2>2
  <2>6. Becomes(s, {"remember", "done", "prefill", "turn"}) /\ worker'[s] = w
    BY <2>2, <2>3, <2>4, <2>5, Becoming
  <2> QED BY <1>2, <2>1, <2>2, <2>6 DEF Job
<1>3. CASE ~stop
  <2> DEFINE pc == IF HasTurn(s, waiting) THEN "prefill" ELSE "turn"
  <2>1. pc \in WorkerPc /\ pc \in {"remember", "done", "prefill", "turn"} /\ Goto(s, pc)
    BY <1>3 DEF WorkerPc, AwaitTurn
  <2>2. [worker[s] EXCEPT !.pc = pc].pc = pc /\ [worker[s] EXCEPT !.pc = pc].quanta = worker[s].quanta
    BY <1>1 DEF WorkerSet
  <2>3. worker'[s].pc = pc
    BY <1>1, <2>1 DEF Goto, Shape, WorkerSet
  <2>4. pc = "prefill" <=> HasTurn(s, waiting)
    OBVIOUS
  <2> HIDE DEF pc
  <2>5. Bounded([worker[s] EXCEPT !.pc = pc])
    BY <1>1, <2>1, <2>2 DEF Bounded
  <2>6. Becomes(s, {"remember", "done", "prefill", "turn"}) /\ worker'[s].job = Job(s)
    BY <2>1, <2>5, Going
  <2> QED BY <1>3, <2>3, <2>4, <2>6
<1> QED BY <1>2, <1>3

LEMMA PrefillWorks ==
  ASSUME Shape, WithinBounds, NEW s \in Slots, Prefill(s)
  PROVE  /\ worker[s].pc = "prefill" /\ Becomes(s, {"clear", "enter", "remember", "done"})
         /\ worker'[s].job = Job(s)
<1>1. worker[s] \in WorkerSet /\ worker[s].quanta < MaxQuanta /\ worker[s].pc = "prefill"
  BY DEF Prefill, WithinBounds, Bounded, Shape
<1> DEFINE n == worker[s].quanta + 1
<1>2. PICK ok \in Returns : \E pc \in IF ok THEN AfterQuantum(s, n) ELSE {AfterError(s)} :
               worker' = [worker EXCEPT ![s].pc = pc, ![s].quanta = n, ![s].ok = pc \in {"clear", "enter"}]
  BY DEF Prefill
<1>3. PICK pc \in IF ok THEN AfterQuantum(s, n) ELSE {AfterError(s)} :
               worker' = [worker EXCEPT ![s].pc = pc, ![s].quanta = n, ![s].ok = pc \in {"clear", "enter"}]
  BY <1>2
<1>4. pc \in {"clear", "enter", "remember", "done"} /\ pc \in WorkerPc /\ (pc = "enter" => n # MaxQuanta)
  BY DEF AfterQuantum, AfterError, WorkerPc
<1>5. n \in 0 .. MaxQuanta
  BY <1>1, QuantaAssumption DEF WorkerSet
<1> DEFINE good == pc \in {"clear", "enter"}
<1>6. good \in BOOLEAN
  OBVIOUS
<1>7. worker' = [worker EXCEPT ![s].pc = pc, ![s].quanta = n, ![s].ok = good]
  BY <1>3
<1> HIDE DEF good
<1> DEFINE w == [worker[s] EXCEPT !.pc = pc, !.quanta = n, !.ok = good]
<1>8. w \in WorkerSet /\ w.pc = pc /\ w.quanta = n /\ w.job = worker[s].job
  BY <1>1, <1>4, <1>5, <1>6 DEF WorkerSet
<1>9. worker' = [worker EXCEPT ![s] = w]
  BY <1>7
<1> HIDE DEF w, n
<1>10. Bounded(w)
  BY <1>4, <1>5, <1>8, QuantaAssumption DEF Bounded
<1>11. Becomes(s, {"clear", "enter", "remember", "done"}) /\ worker'[s] = w
  BY <1>4, <1>8, <1>9, <1>10, Becoming
<1> QED BY <1>1, <1>8, <1>11 DEF Job

LEMMA ClearWorks ==
  ASSUME Shape, WithinBounds, NEW s \in Slots, ClearLive(s)
  PROVE  worker[s].pc = "clear" /\ Becomes(s, {"generate", "done"}) /\ worker'[s].job = Job(s)
<1>1. worker[s] \in WorkerSet /\ worker[s].pc = "clear"
  BY DEF ClearLive, Shape
<1>2. PICK pc \in {"generate"} \cup (IF MayFail /\ ~worker[s].retried THEN {"done"} ELSE {}) :
        worker' = [worker EXCEPT ![s].pc = pc, ![s].quanta = 0]
  BY DEF ClearLive
<1>3. pc \in {"generate", "done"} /\ pc \in WorkerPc /\ 0 \in 0 .. MaxQuanta
  BY QuantaAssumption DEF WorkerPc
<1> DEFINE w == [worker[s] EXCEPT !.pc = pc, !.quanta = 0]
<1>4. w \in WorkerSet /\ w.pc = pc /\ w.job = worker[s].job
  BY <1>1, <1>3 DEF WorkerSet
<1>5. worker' = [worker EXCEPT ![s] = w]
  BY <1>2
<1> HIDE DEF w
<1>6. Bounded(w) /\ w.pc \in {"generate", "done"}
  BY <1>3, <1>4 DEF Bounded
<1>7. Becomes(s, {"generate", "done"}) /\ worker'[s] = w
  BY <1>4, <1>5, <1>6, Becoming
<1> QED BY <1>1, <1>4, <1>7 DEF Job

LEMMA GenerateWorks ==
  ASSUME Shape, WithinBounds, NEW s \in Slots, Generate(s)
  PROVE  worker[s].pc = "generate" /\ Becomes(s, {"endgen", "ask"}) /\ worker'[s].job = Job(s)
<1>1. worker[s] \in WorkerSet /\ worker[s].pc = "generate"
  BY DEF Generate, Shape
<1>2. PICK pc \in AfterToken(worker[s].tokens) : Goto(s, pc)
  BY DEF Generate
<1>3. pc \in {"endgen", "ask"} /\ pc \in WorkerPc /\ (pc = "ask" => worker[s].tokens # MaxTokens)
  BY DEF AfterToken, WorkerPc
<1>4. [worker[s] EXCEPT !.pc = pc].pc = pc /\ [worker[s] EXCEPT !.pc = pc].tokens = worker[s].tokens
      /\ worker[s].tokens \in 0 .. MaxTokens
  BY <1>1 DEF WorkerSet
<1>5. Bounded([worker[s] EXCEPT !.pc = pc])
  BY <1>3, <1>4, QuantaAssumption DEF Bounded
<1>6. Becomes(s, {"endgen", "ask"}) /\ worker'[s].job = Job(s)
  BY <1>2, <1>3, <1>5, Going
<1> QED BY <1>1, <1>6

(* A token that cannot be asked for, or was not evaluated, ends the answer.*)
LEMMA GivesUp ==
  ASSUME Shape, NEW s \in Slots, worker' = [worker EXCEPT ![s].pc = "endgen", ![s].ok = FALSE]
  PROVE  Becomes(s, {"endgen"}) /\ worker'[s].job = Job(s)
<1> DEFINE w == [worker[s] EXCEPT !.pc = "endgen", !.ok = FALSE]
<1>1. worker[s] \in WorkerSet
  BY DEF Shape
<1>2. w \in WorkerSet /\ w.pc = "endgen" /\ w.job = worker[s].job
  BY <1>1 DEF WorkerSet, WorkerPc
<1>3. worker' = [worker EXCEPT ![s] = w]
  OBVIOUS
<1> HIDE DEF w
<1>4. Bounded(w) /\ w.pc \in {"endgen"}
  BY <1>2 DEF Bounded
<1>5. Becomes(s, {"endgen"}) /\ worker'[s] = w
  BY <1>2, <1>3, <1>4, Becoming
<1> QED BY <1>2, <1>5 DEF Job

LEMMA AskWorks ==
  ASSUME Shape, WithinBounds, NEW s \in Slots, Ask(s)
  PROVE  worker[s].pc = "ask" /\ Becomes(s, {"endgen", "eval"}) /\ worker'[s].job = Job(s)
<1>1. worker[s] \in WorkerSet /\ worker[s].pc = "ask" /\ worker[s].tokens < MaxTokens
  BY DEF Ask, Shape, WithinBounds, Bounded
<1>2. CASE worker' = [worker EXCEPT ![s].pc = "endgen", ![s].ok = FALSE]
  BY <1>1, <1>2, GivesUp DEF Becomes
<1>3. CASE Goto(s, "eval")
  <2> DEFINE pc == "eval"
  <2>1. [worker[s] EXCEPT !.pc = pc].pc = pc /\ [worker[s] EXCEPT !.pc = pc].tokens = worker[s].tokens
    BY <1>1 DEF WorkerSet
  <2>2. Bounded([worker[s] EXCEPT !.pc = pc])
    BY <1>1, <2>1 DEF Bounded
  <2>3. pc \in WorkerPc /\ pc \in {"endgen", "eval"}
    BY DEF WorkerPc
  <2>4. Becomes(s, {"endgen", "eval"}) /\ worker'[s].job = Job(s)
    BY <1>3, <2>2, <2>3, Going
  <2> QED BY <1>1, <2>4
<1> QED BY <1>2, <1>3 DEF Ask

LEMMA EvalWorks ==
  ASSUME Shape, WithinBounds, NEW s \in Slots, Eval(s)
  PROVE  /\ worker[s].pc = "eval"
         /\ \/ worker' = worker /\ ~TokenDue(s)
            \/ Becomes(s, {"endgen", "ask"}) /\ worker'[s].job = Job(s) /\ TokenDue(s)
<1>1. worker[s] \in WorkerSet /\ worker[s].pc = "eval" /\ worker[s].tokens < MaxTokens
  BY DEF Eval, Shape, WithinBounds, Bounded
<1>2. CASE ~TokenDue(s)
  BY <1>1, <1>2 DEF Eval
<1>3. CASE TokenDue(s) /\ worker' = [worker EXCEPT ![s].pc = "endgen", ![s].ok = FALSE]
  BY <1>1, <1>3, GivesUp DEF Becomes
<1>4. CASE TokenDue(s) /\ \E pc \in AfterToken(worker[s].tokens + 1) :
             worker' = [worker EXCEPT ![s].pc = pc, ![s].tokens = @ + 1]
  <2> DEFINE n == worker[s].tokens + 1
  <2>1. PICK pc \in AfterToken(n) : worker' = [worker EXCEPT ![s].pc = pc, ![s].tokens = @ + 1]
    BY <1>4
  <2>2. pc \in {"endgen", "ask"} /\ pc \in WorkerPc /\ (pc = "ask" => n # MaxTokens)
    BY DEF AfterToken, WorkerPc
  <2>3. n \in 0 .. MaxTokens
    BY <1>1, QuantaAssumption DEF WorkerSet
  <2> DEFINE w == [worker[s] EXCEPT !.pc = pc, !.tokens = n]
  <2>4. w \in WorkerSet /\ w.pc = pc /\ w.tokens = n /\ w.job = worker[s].job
    BY <1>1, <2>2, <2>3 DEF WorkerSet
  <2>5. worker' = [worker EXCEPT ![s] = w]
    BY <1>1, <2>1 DEF WorkerSet
  <2> HIDE DEF w, n
  <2>6. Bounded(w) /\ w.pc \in {"endgen", "ask"}
    BY <2>2, <2>3, <2>4, QuantaAssumption DEF Bounded
  <2>7. Becomes(s, {"endgen", "ask"}) /\ worker'[s] = w
    BY <2>4, <2>5, <2>6, Becoming
  <2> QED BY <1>1, <1>4, <2>4, <2>7 DEF Job
<1> QED BY <1>2, <1>3, <1>4 DEF Eval

LEMMA EndWorks ==
  ASSUME Shape, WithinBounds, NEW s \in Slots, EndGeneration(s)
  PROVE  worker[s].pc = "endgen" /\ Becomes(s, {"remember", "enter"}) /\ worker'[s].job = Job(s)
<1>1. worker[s] \in WorkerSet /\ worker[s].pc = "endgen"
  BY DEF EndGeneration, Shape
<1>2. CASE Goto(s, "remember")
  <2>1. "remember" \in WorkerPc
    BY DEF WorkerPc
  <2> QED BY <1>1, <1>2, <2>1, GoingOn
<1>3. CASE worker' = [worker EXCEPT ![s].pc = "enter", ![s].retried = TRUE, ![s].quanta = MaxQuanta - 1]
  <2> DEFINE n == MaxQuanta - 1
             w == [worker[s] EXCEPT !.pc = "enter", !.retried = TRUE, !.quanta = n]
  <2>1. n \in 0 .. MaxQuanta /\ n < MaxQuanta
    BY QuantaAssumption
  <2>2. w \in WorkerSet /\ w.pc = "enter" /\ w.quanta = n /\ w.job = worker[s].job
    BY <1>1, <2>1 DEF WorkerSet, WorkerPc
  <2>3. worker' = [worker EXCEPT ![s] = w]
    BY <1>3
  <2> HIDE DEF w, n
  <2>4. Bounded(w) /\ w.pc \in {"remember", "enter"}
    BY <2>1, <2>2 DEF Bounded
  <2>5. Becomes(s, {"remember", "enter"}) /\ worker'[s] = w
    BY <2>2, <2>3, <2>4, Becoming
  <2> QED BY <1>1, <2>2, <2>5 DEF Job
<1> QED BY <1>2, <1>3 DEF EndGeneration

LEMMA RememberWorks ==
  ASSUME Shape, WithinBounds, NEW s \in Slots, Remember(s)
  PROVE  worker[s].pc = "remember" /\ Becomes(s, {"fatal", "done"}) /\ worker'[s].job = Job(s)
<1> DEFINE pc == IF tpFailed /\ ~fatal THEN "fatal" ELSE "done"
<1>1. pc \in WorkerPc /\ pc \in {"fatal", "done"} /\ Goto(s, pc) /\ worker[s].pc = "remember"
  BY DEF WorkerPc, Remember
<1> HIDE DEF pc
<1>2. pc \notin {"idle", "start", "enter", "turn", "prefill", "ask", "eval"}
  BY <1>1
<1> QED BY <1>1, <1>2, GoingOn

LEMMA MarkFatalWorks ==
  ASSUME Shape, WithinBounds, NEW s \in Slots, MarkFatal(s)
  PROVE  worker[s].pc = "fatal" /\ Becomes(s, {"done", "fatalStop"}) /\ worker'[s].job = Job(s)
<1>1. "done" \in WorkerPc /\ "fatalStop" \in WorkerPc
  BY DEF WorkerPc
<1>2. CASE Goto(s, "done")
  BY <1>1, <1>2, GoingOn DEF MarkFatal
<1>3. CASE Goto(s, "fatalStop")
  BY <1>1, <1>3, GoingOn DEF MarkFatal
<1> QED BY <1>2, <1>3 DEF MarkFatal

LEMMA FatalStopWorks ==
  ASSUME Shape, WithinBounds, NEW s \in Slots, FatalStop(s)
  PROVE  worker[s].pc = "fatalStop" /\ Becomes(s, {"done"}) /\ worker'[s].job = Job(s)
<1>1. "done" \in WorkerPc
  BY DEF WorkerPc
<1> QED BY <1>1, GoingOn DEF FatalStop

LEMMA NoJobTyped ==
  /\ NoJob \in WorkerSet /\ NoJob.pc = "idle" /\ NoJob.job = None /\ NoJob.quanta = 0
  /\ Bounded(NoJob)
<1>1. NoJob \in WorkerSet /\ NoJob.pc = "idle" /\ NoJob.job = None /\ NoJob.quanta = 0
  BY QuantaAssumption DEF NoJob, WorkerSet, WorkerPc
<1> QED BY <1>1 DEF Bounded

LEMMA DoneWorks ==
  ASSUME Shape, WithinBounds, NEW s \in Slots, JobDone(s)
  PROVE  worker[s].pc = "done" /\ Becomes(s, {"free"}) /\ worker'[s].job = Job(s)
<1>1. worker[s] \in WorkerSet /\ worker[s].job \in Clients \cup {None} /\ worker[s].pc = "done"
  BY DEF JobDone, Shape, WorkerSet
<1> DEFINE w == [NoJob EXCEPT !.pc = "free", !.job = Job(s)]
<1>2. w \in WorkerSet /\ w.pc = "free" /\ w.job = Job(s)
  BY <1>1, NoJobTyped DEF WorkerSet, WorkerPc, Job
<1>3. worker' = [worker EXCEPT ![s] = w]
  BY DEF JobDone
<1> HIDE DEF w
<1>4. Bounded(w) /\ w.pc \in {"free"}
  BY <1>2 DEF Bounded
<1>5. Becomes(s, {"free"}) /\ worker'[s] = w
  BY <1>2, <1>3, <1>4, Becoming
<1> QED BY <1>1, <1>2, <1>5

LEMMA FreeWorks ==
  ASSUME Shape, WithinBounds, NEW s \in Slots, Free(s)
  PROVE  worker[s].pc = "free" /\ Becomes(s, {"idle"}) /\ worker'[s].job = None
<1>1. worker' = [worker EXCEPT ![s] = NoJob] /\ worker[s].pc = "free"
  BY DEF Free
<1>2. NoJob.pc \in {"idle"}
  BY NoJobTyped
<1>3. Becomes(s, {"idle"}) /\ worker'[s] = NoJob
  BY <1>1, <1>2, NoJobTyped, Becoming
<1> QED BY <1>1, <1>3, NoJobTyped
-----------------------------------------------------------------------------
(* The executor.                                                           *)

LEMMA ExecFrame ==
  ASSUME ExecInv, NEW s \in Slots, NEW pcs, Becomes(s, pcs), worker[s].pc # "prefill",
         "prefill" \notin pcs, model'.busy = model.busy, dw' = dw
  PROVE  ExecInv'
<1>1. \A t \in Slots : worker'[t].pc = "prefill" <=> worker[t].pc = "prefill"
  BY DEF Becomes
<1> QED BY <1>1 DEF ExecInv

LEMMA ExecSame ==
  ASSUME ExecInv, worker' = worker, model'.busy = model.busy, (dw'.pc = "eval") <=> (dw.pc = "eval")
  PROVE  ExecInv'
BY DEF ExecInv

(* Whoever takes the executor finds it free.                               *)
LEMMA ExecTurn ==
  ASSUME Shape, WithinBounds, ExecInv, NEW s \in Slots, worker[s].pc \in {"enter", "turn"},
         NEW waiting, NEW asleep, AwaitTurn(s, waiting, asleep)
  PROVE  ExecInv'
<1>1. /\ Becomes(s, {"remember", "done", "prefill", "turn"})
      /\ worker'[s].pc = "prefill" <=> ~stop /\ HasTurn(s, waiting)
      /\ dw' = dw
  BY TurnWorks DEF AwaitTurn
<1>2. CASE worker'[s].pc = "prefill"
  <2>1. ~model.busy /\ model'.busy
    BY <1>1, <1>2 DEF AwaitTurn, HasTurn, Shape, ModelSet
  <2>2. \A t \in Slots : worker'[t].pc = "prefill" <=> t = s
    BY <1>1, <1>2, <2>1 DEF ExecInv, Becomes
  <2> QED BY <1>1, <2>1, <2>2 DEF ExecInv
<1>3. CASE worker'[s].pc # "prefill"
  <2>1. model' = model
    BY <1>1, <1>3 DEF AwaitTurn
  <2>2. \A t \in Slots : worker'[t].pc = "prefill" <=> worker[t].pc = "prefill"
    BY <1>1, <1>3 DEF Becomes
  <2> QED BY <1>1, <2>1, <2>2 DEF ExecInv
<1> QED BY <1>2, <1>3

LEMMA ExecKept ==
  ASSUME Shape, WithinBounds, ExecInv, [Next]_vars
  PROVE  ExecInv'
<1>1. ASSUME NEW c \in Clients, Connect(c) \/ ClientStep(c) PROVE ExecInv'
  BY <1>1, ExecSame DEF Connect, ClientStep, Enqueue, Disconnect, modelVars
<1>2. ASSUME NEW s \in Slots, SlotStep(s) PROVE ExecInv'
  <2>1. CASE Idle(s)
    <3>1. model' = model /\ dw' = dw /\ worker[s].pc = "idle"
      BY <2>1 DEF Idle, modelVars
    <3> QED BY <2>1, <3>1, IdleWorks, ExecFrame, ExecSame
  <2>2. CASE Start(s)
    BY <2>2, StartWorks, ExecFrame DEF Start, modelVars
  <2>3. CASE EnterPrefill(s)
    BY <2>3, ExecTurn DEF EnterPrefill
  <2>4. CASE AwaitedTurn(s)
    BY <2>4, ExecTurn DEF AwaitedTurn
  <2>5. CASE Prefill(s)
    <3>1. /\ worker[s].pc = "prefill" /\ Becomes(s, {"clear", "enter", "remember", "done"})
          /\ ~model'.busy /\ dw' = dw
      BY <2>5, PrefillWorks DEF Prefill, Shape, ModelSet
    <3>2. \A t \in Slots : worker'[t].pc # "prefill"
      BY <3>1 DEF ExecInv, Becomes
    <3>3. dw.pc # "eval"
      BY <3>1 DEF ExecInv
    <3> QED BY <3>1, <3>2, <3>3 DEF ExecInv
  <2>6. CASE ClearLive(s)
    BY <2>6, ClearWorks, ExecFrame DEF ClearLive, modelVars
  <2>7. CASE Generate(s)
    <3>1. model'.busy = model.busy /\ dw' = dw
      BY <2>7 DEF Generate, Shape, ModelSet
    <3> QED BY <2>7, <3>1, GenerateWorks, ExecFrame
  <2>8. CASE Ask(s)
    <3>1. model'.busy = model.busy /\ dw' = dw
      BY <2>8 DEF Ask, Shape, ModelSet
    <3> QED BY <2>8, <3>1, AskWorks, ExecFrame
  <2>9. CASE Eval(s)
    <3>1. model' = model /\ dw' = dw
      BY <2>9 DEF Eval
    <3> QED BY <2>9, <3>1, EvalWorks, ExecFrame, ExecSame
  <2>10. CASE EndGeneration(s)
    <3>1. model'.busy = model.busy /\ dw' = dw
      BY <2>10 DEF EndGeneration, Shape, ModelSet
    <3> QED BY <2>10, <3>1, EndWorks, ExecFrame
  <2>11. CASE Remember(s)
    BY <2>11, RememberWorks, ExecFrame DEF Remember, modelVars
  <2>12. CASE MarkFatal(s)
    BY <2>12, MarkFatalWorks, ExecFrame DEF MarkFatal, modelVars
  <2>13. CASE FatalStop(s)
    BY <2>13, FatalStopWorks, ExecFrame DEF FatalStop, modelVars
  <2>14. CASE JobDone(s)
    BY <2>14, DoneWorks, ExecFrame DEF JobDone, modelVars
  <2>15. CASE Free(s)
    BY <2>15, FreeWorks, ExecFrame DEF Free, modelVars
  <2> QED BY <1>2, <2>1, <2>2, <2>3, <2>4, <2>5, <2>6, <2>7, <2>8, <2>9, <2>10, <2>11, <2>12,
             <2>13, <2>14, <2>15 DEF SlotStep
<1>3. CASE DwWait
  BY <1>3, ExecSame DEF DwWait, DwLoop
<1>4. CASE Collect
  <2>1. CASE ExecutorFree
    <3>1. PICK n, members : /\ model' = [model EXCEPT !.busy = TRUE, !.pending = n]
                            /\ dw' = [pc |-> "eval", members |-> members]
      BY <1>4, <2>1 DEF Collect
    <3>2. ~model.busy /\ model'.busy /\ dw'.pc = "eval" /\ worker' = worker
      BY <1>4, <2>1, <3>1 DEF Collect, ExecutorFree, Shape, ModelSet
    <3> QED BY <3>2 DEF ExecInv
  <2>2. CASE ~ExecutorFree
    BY <1>4, <2>2, ExecSame DEF Collect
  <2> QED BY <2>1, <2>2
<1>5. CASE DwEval
  <2>1. dw.pc = "eval" /\ ~model'.busy /\ dw'.pc # "eval" /\ worker' = worker
    BY <1>5 DEF DwEval, DwLoop, Shape, ModelSet
  <2> QED BY <2>1 DEF ExecInv
<1>6. CASE MainStep \/ Signal
  <2>1. CASE DecodeStop
    <3>1. model'.busy = model.busy
      BY <2>1 DEF DecodeStop, Shape, ModelSet
    <3> QED BY <2>1, <3>1, ExecSame DEF DecodeStop
  <2> QED BY <1>6, <2>1, ExecSame
          DEF MainStep, LeaveAccept, WorkerStop, JoinDecode, ClientsGone, Signal, modelVars
<1>7. CASE UNCHANGED vars
  BY <1>7, ExecSame DEF vars, modelVars
<1> QED BY <1>1, <1>2, <1>3, <1>4, <1>5, <1>6, <1>7 DEF Next, DecodeStep
-----------------------------------------------------------------------------
(* Types.                                                                  *)

LEMMA BoundsKept ==
  ASSUME WithinBounds, NEW s \in Slots, NEW pcs, Becomes(s, pcs)
  PROVE  WithinBounds'
<1>1. \A t \in Slots : Bounded(worker'[t])
  BY DEF WithinBounds, Becomes
<1> QED BY <1>1 DEF WithinBounds, Bounded

LEMMA BoundsSame == ASSUME WithinBounds, worker' = worker PROVE WithinBounds'
BY DEF WithinBounds, Bounded

LEMMA RequestTyped ==
  ASSUME Shape, NEW c \in Clients, NEW r \in RequestSet, request' = [request EXCEPT ![c] = r]
  PROVE  request' \in [Clients -> RequestSet]
BY DEF Shape

LEMMA Rebinds ==
  ASSUME Shape, NEW s \in Slots, NEW holds \in BOOLEAN, Rebind(s, holds)
  PROVE  /\ live' \in [Slots -> BOOLEAN] /\ request' \in [Clients -> RequestSet]
         /\ \A c \in Clients : /\ request'[c].live = request[c].live
                               /\ request'[c].bound \in {request[c].bound, None}
<1>1. \A c \in Clients : /\ [request[c] EXCEPT !.bound = None] \in RequestSet
                         /\ [request[c] EXCEPT !.bound = None].live = request[c].live
                         /\ [request[c] EXCEPT !.bound = None].bound = None
                         /\ request[c] \in RequestSet
  BY DEF Shape, RequestSet
<1>2. live' \in [Slots -> BOOLEAN]
  BY DEF Rebind, Shape
<1>3. \A c \in Clients : request'[c] = IF request[c].bound = s THEN [request[c] EXCEPT !.bound = None]
                                                               ELSE request[c]
  BY DEF Rebind
<1>4. request' \in [Clients -> RequestSet]
  BY <1>1 DEF Rebind
<1> QED BY <1>1, <1>2, <1>3, <1>4

LEMMA NoTwiceAppend ==
  ASSUME NEW q \in Seq(Clients), NoTwice(q), NEW c \in Clients, ~Has(q, c)
  PROVE  /\ Append(q, c) \in Seq(Clients) /\ NoTwice(Append(q, c))
         /\ \A d : Has(Append(q, c), d) <=> Has(q, d) \/ d = c
<1> DEFINE p == Append(q, c)
<1>1. /\ p \in Seq(Clients) /\ DOMAIN q = 1 .. Len(q) /\ DOMAIN p = 1 .. Len(q) + 1 /\ Len(q) \in Nat
      /\ \A i \in 1 .. Len(q) : p[i] = q[i]
      /\ p[Len(q) + 1] = c
  OBVIOUS
<1>2. \A i \in DOMAIN p : i \in 1 .. Len(q) \/ i = Len(q) + 1
  BY ONLY <1>1
<1>3. \A i \in DOMAIN p : (i \in DOMAIN q /\ p[i] = q[i]) \/ (i = Len(q) + 1 /\ p[i] = c)
  BY ONLY <1>1, <1>2
<1>4. \A i \in DOMAIN q : i \in DOMAIN p /\ p[i] = q[i]
  BY ONLY <1>1
<1>5. Len(q) + 1 \in DOMAIN p
  BY ONLY <1>1
<1> HIDE DEF p
<1>6. NoTwice(p)
  BY <1>3 DEF NoTwice, Has
<1>7. \A d : Has(p, d) <=> Has(q, d) \/ d = c
  BY <1>1, <1>3, <1>4, <1>5 DEF Has
<1> QED BY <1>1, <1>6, <1>7 DEF p

(* The client whose request is accepted has no place yet.                  *)
LEMMA NewPlace ==
  ASSUME Shape, PlaceInv, NEW c \in Clients, client[c] = "serving"
  PROVE  /\ Append(queue, c) \in Seq(Clients) /\ NoTwice(Append(queue, c))
         /\ \A d : Has(Append(queue, c), d) <=> Has(queue, d) \/ d = c
         /\ ~Has(queue, c) /\ \A s \in Slots : slot[s].assigned # c /\ ~Runs(worker, s, c)
<1>1. ~Has(queue, c) /\ \A s \in Slots : slot[s].assigned # c /\ ~Runs(worker, s, c)
  BY DEF PlaceInv, PlacesOK
<1>2. queue \in Seq(Clients) /\ NoTwice(queue)
  BY DEF Shape, PlaceInv, PlacesOK
<1> QED BY <1>1, <1>2, NoTwiceAppend

LEMMA ClientTypes ==
  ASSUME Shape, WithinBounds, PlaceInv, NEW c \in Clients, Connect(c) \/ ClientStep(c)
  PROVE  Shape' /\ WithinBounds'
<1>0. worker' = worker
  BY DEF Connect, ClientStep, Enqueue, Disconnect
<1>1. CASE Connect(c)
  <2>1. client' \in [Clients -> ClientPc]
    BY <1>1 DEF Connect, Shape, ClientPc
  <2> QED BY <1>0, <1>1, <2>1, BoundsSame DEF Connect, Shape, stopVars, modelVars
<1>2. CASE Enqueue(c)
  <2>1. CASE stopping
    <3>1. client' \in [Clients -> ClientPc]
      BY <1>2, <2>1 DEF Enqueue, Shape, ClientPc
    <3> QED BY <1>0, <1>2, <2>1, <3>1, BoundsSame DEF Enqueue, Shape, stopVars, modelVars
  <2>2. CASE ~stopping
    <3>1. client' \in [Clients -> ClientPc]
      BY <1>2, <2>2 DEF Enqueue, Shape, ClientPc
    <3>2. PICK l \in BOOLEAN, b \in {None} \cup {s \in Slots : live[s]} :
            request' = [request EXCEPT ![c] = [live |-> l, bound |-> b]]
      BY <1>2, <2>2 DEF Enqueue
    <3>3. [live |-> l, bound |-> b] \in RequestSet
      BY DEF RequestSet
    <3>4. request' \in [Clients -> RequestSet]
      BY <3>2, <3>3, RequestTyped
    <3>5. Dispatch(Append(queue, c), slot, request', TRUE) /\ client[c] = "serving"
      BY <1>2, <2>2 DEF Enqueue
    <3>6. Placed(Append(queue, c), slot, request') /\ cvWait' \in {{}, cvWait}
      BY <3>5, NewPlace, DispatchPlaces DEF Shape
    <3>7. queue' \in Seq(Clients) /\ slot' \in SlotSet /\ cvWait' \subseteq Slots
      BY <3>6 DEF Placed, Shape
    <3> QED BY <1>0, <1>2, <3>1, <3>4, <3>7, BoundsSame DEF Enqueue, Shape, stopVars, modelVars
  <2> QED BY <2>1, <2>2
<1>3. CASE Disconnect(c)
  <2>1. client' \in [Clients -> ClientPc]
    BY <1>3 DEF Disconnect, Shape, ClientPc
  <2>2. NoRequest \in RequestSet
    BY DEF NoRequest, RequestSet
  <2>3. request' \in [Clients -> RequestSet]
    BY <1>3, <2>2, RequestTyped DEF Disconnect
  <2> QED BY <1>0, <1>3, <2>1, <2>3, BoundsSame DEF Disconnect, Shape, stopVars, modelVars
<1> QED BY <1>1, <1>2, <1>3 DEF ClientStep

LEMMA TurnTypes ==
  ASSUME Shape, WithinBounds, NEW s \in Slots, worker[s].pc \in {"enter", "turn"},
         NEW waiting \in [Slots -> BOOLEAN], NEW asleep \in SUBSET (Slots \cup {Decoder}),
         AwaitTurn(s, waiting, asleep)
  PROVE  Shape' /\ WithinBounds'
<1>1. Becomes(s, {"remember", "done", "prefill", "turn"})
  BY TurnWorks
<1> DEFINE stays == ~stop /\ ~HasTurn(s, waiting)
<1>2. stays \in BOOLEAN /\ prefillWaiting' = [waiting EXCEPT ![s] = stays]
  BY DEF AwaitTurn
<1> HIDE DEF stays
<1>3. prefillWaiting' \in [Slots -> BOOLEAN]
  BY <1>2
<1>4. model' \in ModelSet
  BY DEF AwaitTurn, Shape, ModelSet
<1>5. modelWait' \subseteq Slots \cup {Decoder}
  BY DEF AwaitTurn
<1>6. WithinBounds' /\ worker' \in [Slots -> WorkerSet]
  BY <1>1, BoundsKept DEF Becomes
<1> QED BY <1>3, <1>4, <1>5, <1>6 DEF AwaitTurn, Shape, stopVars, jobVars

(* One slot, one decode, one counter updated.                              *)
LEMMA SlotUpdated ==
  ASSUME Shape, NEW s \in Slots
  PROVE  /\ [slot EXCEPT ![s].busy = FALSE] \in SlotSet
         /\ [slot EXCEPT ![s].assigned = None] \in SlotSet
         /\ [slot EXCEPT ![s].busy = FALSE][s].assigned = slot[s].assigned
         /\ ~[slot EXCEPT ![s].busy = FALSE][s].busy
         /\ [slot EXCEPT ![s].assigned = None][s].assigned = None
         /\ [slot EXCEPT ![s].assigned = None][s].busy = slot[s].busy
<1>1. slot[s] \in [assigned : Clients \cup {None}, busy : BOOLEAN]
  BY DEF Shape, SlotSet
<1> DEFINE a == [slot[s] EXCEPT !.busy = FALSE]
           b == [slot[s] EXCEPT !.assigned = None]
<1>2. /\ a \in [assigned : Clients \cup {None}, busy : BOOLEAN]
      /\ b \in [assigned : Clients \cup {None}, busy : BOOLEAN]
      /\ a.assigned = slot[s].assigned /\ ~a.busy /\ b.assigned = None /\ b.busy = slot[s].busy
  BY <1>1
<1>3. /\ [slot EXCEPT ![s].busy = FALSE] = [slot EXCEPT ![s] = a]
      /\ [slot EXCEPT ![s].assigned = None] = [slot EXCEPT ![s] = b]
  OBVIOUS
<1> HIDE DEF a, b
<1> QED BY <1>2, <1>3 DEF Shape, SlotSet

LEMMA DecodeUpdated ==
  ASSUME Shape, NEW s \in Slots, NEW p \in BOOLEAN,
         \/ decode' = [decode EXCEPT ![s].pending = TRUE, ![s].done = FALSE, ![s].ok = FALSE] /\ p
         \/ decode' = [decode EXCEPT ![s].done = FALSE, ![s].ok = FALSE] /\ p = decode[s].pending
  PROVE  /\ decode' \in [Slots -> DecodeSet]
         /\ \A t \in Slots : t # s => decode'[t] = decode[t]
         /\ decode'[s].pending = p /\ decode'[s].inFlight = decode[s].inFlight /\ ~decode'[s].done
<1>1. decode[s] \in DecodeSet /\ decode \in [Slots -> DecodeSet]
  BY DEF Shape
<1> DEFINE a == [decode[s] EXCEPT !.pending = TRUE, !.done = FALSE, !.ok = FALSE]
           b == [decode[s] EXCEPT !.done = FALSE, !.ok = FALSE]
<1>2. /\ a \in DecodeSet /\ a.pending /\ a.inFlight = decode[s].inFlight /\ ~a.done
      /\ b \in DecodeSet /\ b.pending = decode[s].pending /\ b.inFlight = decode[s].inFlight /\ ~b.done
  BY <1>1 DEF DecodeSet
<1>3. \/ decode' = [decode EXCEPT ![s] = a] /\ p
      \/ decode' = [decode EXCEPT ![s] = b] /\ p = decode[s].pending
  OBVIOUS
<1> HIDE DEF a, b
<1>4. a.pending = TRUE
  BY <1>2 DEF DecodeSet
<1> QED BY <1>1, <1>2, <1>3, <1>4

LEMMA ModelUpdated ==
  ASSUME Shape, NEW n \in Int,
         model' = [model EXCEPT !.active = n] \/ model' = [model EXCEPT !.pending = n]
  PROVE  model' \in ModelSet
<1>1. model \in ModelSet
  BY DEF Shape
<1> QED BY <1>1 DEF ModelSet

(* The step of a slot worker.                                              *)
LEMMA SlotTypes ==
  ASSUME Shape, WithinBounds, PlaceInv, NEW s \in Slots, SlotStep(s)
  PROVE  Shape' /\ WithinBounds'
<1>1. CASE Idle(s)
  <2>1. WithinBounds' /\ worker' \in [Slots -> WorkerSet]
    BY <1>1, IdleWorks, BoundsKept, BoundsSame DEF Becomes, Shape
  <2>2. slot' \in SlotSet /\ cvWait' \subseteq Slots
    BY <1>1, IdleWorks, SlotUpdated DEF Shape
  <2> QED BY <1>1, <2>1, <2>2 DEF Idle, Shape, stopVars, modelVars
<1>2. CASE Start(s)
  <2>1. WithinBounds' /\ worker' \in [Slots -> WorkerSet]
    BY <1>2, StartWorks, BoundsKept DEF Becomes
  <2> QED BY <1>2, <2>1 DEF Start, Shape, stopVars, jobVars, modelVars
<1>3. CASE EnterPrefill(s)
  <2>1. [prefillWaiting EXCEPT ![s] = TRUE] \in [Slots -> BOOLEAN]
    BY DEF Shape
  <2> QED BY <1>3, <2>1, TurnTypes DEF EnterPrefill
<1>4. CASE AwaitedTurn(s)
  BY <1>4, TurnTypes DEF AwaitedTurn, Shape
<1>5. CASE Prefill(s)
  <2>1. WithinBounds' /\ worker' \in [Slots -> WorkerSet]
    BY <1>5, PrefillWorks, BoundsKept DEF Becomes
  <2>2. model' \in ModelSet
    BY <1>5 DEF Prefill, Shape, ModelSet
  <2>3. tpFailed' \in BOOLEAN
    BY <1>5 DEF Prefill, Shape
  <2> QED BY <1>5, <2>1, <2>2, <2>3 DEF Prefill, Shape, jobVars
<1>6. CASE ClearLive(s)
  <2>1. WithinBounds' /\ worker' \in [Slots -> WorkerSet]
    BY <1>6, ClearWorks, BoundsKept DEF Becomes
  <2>2. live' \in [Slots -> BOOLEAN] /\ request' \in [Clients -> RequestSet]
    BY <1>6, Rebinds DEF ClearLive, Shape
  <2> QED BY <1>6, <2>1, <2>2 DEF ClearLive, Shape, stopVars, modelVars
<1>7. CASE Generate(s)
  <2>1. WithinBounds' /\ worker' \in [Slots -> WorkerSet]
    BY <1>7, GenerateWorks, BoundsKept DEF Becomes
  <2>2. model' \in ModelSet
    BY <1>7 DEF Generate, Shape, ModelSet
  <2> QED BY <1>7, <2>1, <2>2 DEF Generate, Shape, stopVars, jobVars
<1>8. CASE Ask(s)
  <2>1. WithinBounds' /\ worker' \in [Slots -> WorkerSet]
    BY <1>8, AskWorks, BoundsKept DEF Becomes
  <2>2. model' \in ModelSet
    <3>1. model.pending + 1 \in Int /\ model \in ModelSet
      BY DEF Shape, ModelSet
    <3>2. model' = model \/ model' = [model EXCEPT !.pending = model.pending + 1]
      BY <1>8 DEF Ask
    <3> QED BY <3>1, <3>2, ModelUpdated
  <2>3. decode' \in [Slots -> DecodeSet]
    <3>1. \/ decode' = decode
          \/ decode' = [decode EXCEPT ![s].pending = TRUE, ![s].done = FALSE, ![s].ok = FALSE]
      BY <1>8 DEF Ask
    <3> QED BY <3>1, DecodeUpdated DEF Shape
  <2>4. modelWait' \subseteq Slots \cup {Decoder}
    BY <1>8 DEF Ask, Shape
  <2> QED BY <1>8, <2>1, <2>2, <2>3, <2>4 DEF Ask, Shape, stopVars, jobVars
<1>9. CASE Eval(s)
  <2>1. WithinBounds' /\ worker' \in [Slots -> WorkerSet]
    BY <1>9, EvalWorks, BoundsKept, BoundsSame DEF Becomes, Shape
  <2>2. decode' \in [Slots -> DecodeSet]
    <3>1. decode' = decode \/ decode' = [decode EXCEPT ![s].done = FALSE, ![s].ok = FALSE]
      BY <1>9 DEF Eval
    <3>2. decode[s].pending \in BOOLEAN
      BY DEF Shape, DecodeSet
    <3> QED BY <3>1, <3>2, DecodeUpdated DEF Shape
  <2>3. modelWait' \subseteq Slots \cup {Decoder}
    BY <1>9 DEF Eval, Shape
  <2> QED BY <1>9, <2>1, <2>2, <2>3 DEF Eval, Shape, stopVars, jobVars
<1>10. CASE EndGeneration(s)
  <2>1. WithinBounds' /\ worker' \in [Slots -> WorkerSet]
    BY <1>10, EndWorks, BoundsKept DEF Becomes
  <2>2. model' \in ModelSet
    <3>1. model.active - 1 \in Int /\ model' = [model EXCEPT !.active = model.active - 1]
      BY <1>10 DEF EndGeneration, Shape, ModelSet
    <3> QED BY <3>1, ModelUpdated
  <2> QED BY <1>10, <2>1, <2>2 DEF EndGeneration, Shape, stopVars, jobVars
<1>11. CASE Remember(s)
  <2>1. WithinBounds' /\ worker' \in [Slots -> WorkerSet]
    BY <1>11, RememberWorks, BoundsKept DEF Becomes
  <2>2. PICK holds \in {FALSE, worker[s].ok} : Rebind(s, holds)
    BY <1>11 DEF Remember
  <2>3. holds \in BOOLEAN
    BY DEF Shape, WorkerSet
  <2>4. live' \in [Slots -> BOOLEAN] /\ request' \in [Clients -> RequestSet]
    BY <2>2, <2>3, Rebinds
  <2> QED BY <1>11, <2>1, <2>4 DEF Remember, Shape, stopVars, modelVars
<1>12. CASE MarkFatal(s)
  <2>1. WithinBounds' /\ worker' \in [Slots -> WorkerSet]
    BY <1>12, MarkFatalWorks, BoundsKept DEF Becomes
  <2>2. queue \in Seq(Clients) /\ slot \in SlotSet /\ NoTwice(queue)
    BY DEF Shape, PlaceInv, PlacesOK
  <2>3. /\ queue' \in Seq(Clients) /\ slot' \in SlotSet /\ cvWait' \subseteq Slots
        /\ fatal' \in BOOLEAN /\ stopping' \in BOOLEAN
    BY <1>12, <2>2, DispatchPlaces DEF MarkFatal, Placed, Shape
  <2> QED BY <1>12, <2>1, <2>3 DEF MarkFatal, Shape, modelVars
<1>13. CASE FatalStop(s)
  <2>1. WithinBounds' /\ worker' \in [Slots -> WorkerSet]
    BY <1>13, FatalStopWorks, BoundsKept DEF Becomes
  <2> QED BY <1>13, <2>1 DEF FatalStop, Shape, jobVars, modelVars
<1>14. CASE JobDone(s)
  <2>1. WithinBounds' /\ worker' \in [Slots -> WorkerSet]
    BY <1>14, DoneWorks, BoundsKept DEF Becomes
  <2>2. client' \in [Clients -> ClientPc]
    BY <1>14 DEF JobDone, Shape, ClientPc
  <2> QED BY <1>14, <2>1, <2>2 DEF JobDone, Shape, stopVars, modelVars
<1>15. CASE Free(s)
  <2>1. WithinBounds' /\ worker' \in [Slots -> WorkerSet]
    BY <1>15, FreeWorks, BoundsKept DEF Becomes
  <2> DEFINE freed == [slot EXCEPT ![s].busy = FALSE]
  <2>2. queue \in Seq(Clients) /\ freed \in SlotSet /\ NoTwice(queue)
    BY SlotUpdated DEF Shape, PlaceInv, PlacesOK
  <2>3. Dispatch(queue, freed, request, FALSE)
    BY <1>15 DEF Free
  <2> HIDE DEF freed
  <2>4. queue' \in Seq(Clients) /\ slot' \in SlotSet /\ cvWait' \subseteq Slots
    BY <2>2, <2>3, DispatchPlaces DEF Placed, Shape
  <2> QED BY <1>15, <2>1, <2>4 DEF Free, Shape, stopVars, modelVars
<1> QED BY <1>1, <1>2, <1>3, <1>4, <1>5, <1>6, <1>7, <1>8, <1>9, <1>10, <1>11, <1>12, <1>13,
           <1>14, <1>15 DEF SlotStep

LEMMA LoopTypes ==
  ASSUME Shape, model'.pending \in Int, NEW asleep \in SUBSET (Slots \cup {Decoder}), DwLoop(asleep)
  PROVE  dw' \in [pc : DwPc, members : SUBSET Slots] /\ modelWait' \subseteq Slots \cup {Decoder}
BY DEF DwLoop, DwPc

(* A batch is made of the slots that asked, and the counter says how many. *)
LEMMA Collects ==
  ASSUME Shape, DecodeInv, Collect, ExecutorFree
  PROVE  /\ decode' \in [Slots -> DecodeSet] /\ model' \in ModelSet
         /\ \A s \in Slots :
              IF decode[s].pending
                THEN ~decode'[s].pending /\ decode'[s].inFlight /\ decode'[s].done = decode[s].done
                ELSE decode'[s] = decode[s]
         /\ model'.pending = 0 /\ model'.active = model.active /\ model'.stopping = model.stopping
         /\ model'.last = model.last
         /\ dw'.pc = "eval" /\ dw'.members = {s \in Slots : decode[s].pending}
         /\ dw' \in [pc : DwPc, members : SUBSET Slots]
         /\ worker' = worker /\ modelWait' = modelWait
<1> DEFINE members == {s \in Slots : decode[s].pending}
           left == model.pending - Cardinality(members)
<1>1. /\ decode' = [s \in Slots |-> IF s \in members
                      THEN [decode[s] EXCEPT !.pending = FALSE, !.inFlight = TRUE] ELSE decode[s]]
      /\ model' = [model EXCEPT !.busy = TRUE, !.pending = left]
      /\ dw' = [pc |-> "eval", members |-> members]
      /\ worker' = worker /\ modelWait' = modelWait
  BY DEF Collect, Collected
<1>2. model.pending = Cardinality(members) /\ model \in ModelSet /\ model.pending \in Int
  BY DEF DecodeInv, CountersAgree, Shape, ModelSet
<1>3. left = 0 /\ members \in SUBSET Slots
  BY <1>2
<1>4. \A s \in Slots :
        LET d == [decode[s] EXCEPT !.pending = FALSE, !.inFlight = TRUE]
        IN  decode[s] \in DecodeSet /\ d \in DecodeSet /\ ~d.pending /\ d.inFlight /\ d.done = decode[s].done
  BY DEF Shape, DecodeSet
<1>5. \A s \in Slots : s \in members <=> decode[s].pending
  OBVIOUS
<1> HIDE DEF members, left
<1>6. decode' \in [Slots -> DecodeSet]
  BY <1>1, <1>4
<1>7. \A s \in Slots :
        IF decode[s].pending
          THEN ~decode'[s].pending /\ decode'[s].inFlight /\ decode'[s].done = decode[s].done
          ELSE decode'[s] = decode[s]
  BY <1>1, <1>4, <1>5
<1>8. /\ model' \in ModelSet /\ model'.pending = 0 /\ model'.active = model.active
      /\ model'.stopping = model.stopping /\ model'.last = model.last
  <2>1. model \in ModelSet /\ model' = [model EXCEPT !.busy = TRUE, !.pending = 0]
    BY <1>1, <1>2, <1>3
  <2>2. /\ model'.pending = 0 /\ model'.active = model.active
        /\ model'.stopping = model.stopping /\ model'.last = model.last
    BY ONLY <2>1 DEF ModelSet
  <2>3. 0 \in Int /\ TRUE \in BOOLEAN
    OBVIOUS
  <2>4. model' \in ModelSet
    BY ONLY <2>1, <2>3 DEF ModelSet
  <2> QED BY <2>2, <2>4
<1>9. dw'.pc = "eval" /\ dw'.members = members /\ dw' \in [pc : DwPc, members : SUBSET Slots]
  BY <1>1, <1>3 DEF DwPc
<1> QED BY <1>1, <1>6, <1>7, <1>8, <1>9 DEF members

(* The results of a batch are handed to its members.                       *)
LEMMA Evaluates ==
  ASSUME Shape, DwEval
  PROVE  /\ decode' \in [Slots -> DecodeSet] /\ model' \in ModelSet /\ tpFailed' \in BOOLEAN
         /\ \A s \in Slots :
              IF s \in dw.members
                THEN decode'[s].pending = decode[s].pending /\ ~decode'[s].inFlight /\ decode'[s].done
                ELSE decode'[s] = decode[s]
         /\ model'.pending = model.pending /\ model'.active = model.active
         /\ model'.stopping = model.stopping /\ model'.last = model.last
         /\ dw' \in [pc : DwPc, members : SUBSET Slots] /\ modelWait' \subseteq Slots \cup {Decoder}
<1>1. PICK ok \in Returns :
        /\ decode' = [s \in Slots |-> IF s \in dw.members
                       THEN [decode[s] EXCEPT !.inFlight = FALSE, !.done = TRUE, !.ok = ok]
                       ELSE decode[s]]
        /\ tpFailed' \in {tpFailed, tpFailed \/ ~ok}
  BY DEF DwEval
<1>2. ok \in BOOLEAN
  BY DEF Returns
<1>3. \A s \in Slots :
        LET d == [decode[s] EXCEPT !.inFlight = FALSE, !.done = TRUE, !.ok = ok]
        IN  /\ decode[s] \in DecodeSet /\ d \in DecodeSet
            /\ d.pending = decode[s].pending /\ ~d.inFlight /\ d.done
  BY <1>2 DEF Shape, DecodeSet
<1>4. decode' \in [Slots -> DecodeSet]
  BY <1>1, <1>3
<1>5. \A s \in Slots :
        IF s \in dw.members
          THEN decode'[s].pending = decode[s].pending /\ ~decode'[s].inFlight /\ decode'[s].done
          ELSE decode'[s] = decode[s]
  BY <1>1, <1>3
<1>6. /\ model' \in ModelSet /\ model'.pending = model.pending /\ model'.active = model.active
      /\ model'.stopping = model.stopping /\ model'.last = model.last
  BY DEF DwEval, Shape, ModelSet
<1>7. model'.pending \in Int /\ DwLoop({})
  BY <1>6 DEF DwEval, ModelSet
<1>8. dw' \in [pc : DwPc, members : SUBSET Slots] /\ modelWait' \subseteq Slots \cup {Decoder}
  BY <1>7, LoopTypes
<1>9. tpFailed' \in BOOLEAN
  BY <1>1, <1>2 DEF Shape
<1> QED BY <1>4, <1>5, <1>6, <1>8, <1>9

LEMMA DecodeTypes ==
  ASSUME Shape, WithinBounds, DecodeInv, DecodeStep
  PROVE  Shape' /\ WithinBounds'
<1>0. worker' = worker
  BY DEF DecodeStep, DwWait, Collect, DwEval
<1>1. CASE DwWait
  <2>1. model'.pending \in Int
    BY <1>1 DEF DwWait, Shape, ModelSet
  <2>2. dw' \in [pc : DwPc, members : SUBSET Slots] /\ modelWait' \subseteq Slots \cup {Decoder}
    BY <1>1, <2>1, LoopTypes DEF DwWait, Shape
  <2> QED BY <1>0, <1>1, <2>2, BoundsSame DEF DwWait, Shape, stopVars, jobVars
<1>2. CASE Collect
  <2>1. CASE ExecutorFree
    BY <1>0, <1>2, <2>1, Collects, BoundsSame DEF Collect, Shape, stopVars, jobVars
  <2>2. CASE ~ExecutorFree
    BY <1>0, <1>2, <2>2, BoundsSame DEF Collect, Shape, stopVars, jobVars
  <2> QED BY <2>1, <2>2
<1>3. CASE DwEval
  BY <1>0, <1>3, Evaluates, BoundsSame DEF DwEval, Shape, jobVars
<1> QED BY <1>1, <1>2, <1>3 DEF DecodeStep

LEMMA MainTypes ==
  ASSUME Shape, WithinBounds, PlaceInv, MainStep \/ Signal
  PROVE  Shape' /\ WithinBounds'
<1>0. worker' = worker /\ main' \in MainPc
  BY DEF MainStep, LeaveAccept, WorkerStop, DecodeStop, JoinDecode, ClientsGone, Signal, MainPc, Shape
<1>1. CASE WorkerStop
  <2>1. queue \in Seq(Clients) /\ slot \in SlotSet /\ NoTwice(queue)
    BY DEF Shape, PlaceInv, PlacesOK
  <2>2. queue' \in Seq(Clients) /\ slot' \in SlotSet /\ cvWait' \subseteq Slots
    BY <1>1, <2>1, DispatchPlaces DEF WorkerStop, Placed, Shape
  <2> QED BY <1>0, <1>1, <2>2, BoundsSame DEF WorkerStop, Shape, modelVars
<1>2. CASE DecodeStop
  <2>1. model' \in ModelSet
    BY <1>2 DEF DecodeStop, Shape, ModelSet
  <2> QED BY <1>0, <1>2, <2>1, BoundsSame DEF DecodeStop, Shape, stopVars, jobVars
<1>3. CASE LeaveAccept \/ JoinDecode \/ ClientsGone \/ Signal
  BY <1>0, <1>3, BoundsSame
     DEF LeaveAccept, JoinDecode, ClientsGone, Signal, Shape, stopVars, jobVars, modelVars
<1> QED BY <1>1, <1>2, <1>3 DEF MainStep

LEMMA TypesKept ==
  ASSUME Shape, WithinBounds, DecodeInv, PlaceInv, [Next]_vars
  PROVE  Shape' /\ WithinBounds'
<1>1. CASE UNCHANGED vars
  BY <1>1, BoundsSame DEF Shape, vars, stopVars, jobVars, modelVars
<1> QED BY <1>1, ClientTypes, SlotTypes, DecodeTypes, MainTypes DEF Next
-----------------------------------------------------------------------------
(* Decodes and their counters.                                             *)

LEMMA SlotsFinite == IsFiniteSet(Slots) /\ Cardinality(Slots) = NSlots
<1>1. 0 \in Int /\ NSlots - 1 \in Int
  BY SlotAssumption
<1>2. IsFiniteSet(0 .. NSlots - 1) /\ Cardinality(0 .. NSlots - 1) = (NSlots - 1) - 0 + 1
  BY <1>1, SlotAssumption, FS_Interval
<1> QED BY <1>2, SlotAssumption DEF Slots

LEMMA SubsetOfSlots ==
  ASSUME NEW S \in SUBSET Slots
  PROVE  IsFiniteSet(S) /\ Cardinality(S) \in 0 .. NSlots
<1>1. IsFiniteSet(S) /\ Cardinality(S) <= Cardinality(Slots)
  BY SlotsFinite, FS_Subset
<1>2. Cardinality(S) \in Nat
  BY <1>1, FS_CardinalityType
<1> QED BY <1>1, <1>2, SlotsFinite, SlotAssumption

LEMMA CountsIn ==
  ASSUME NEW S \in SUBSET Slots, NEW s \in Slots, s \notin S
  PROVE  Cardinality(S \cup {s}) = Cardinality(S) + 1
BY SubsetOfSlots, FS_AddElement

LEMMA CountsOut ==
  ASSUME NEW S \in SUBSET Slots, NEW s \in S
  PROVE  Cardinality(S \ {s}) = Cardinality(S) - 1
BY SubsetOfSlots, FS_RemoveElement

Generating == {"ask", "eval", "endgen"}
PendingSlots == {s \in Slots : decode[s].pending}
ActiveSlots == {s \in Slots : worker[s].pc \in Generating}
InFlightSlots == {s \in Slots : decode[s].inFlight}

LEMMA Counted ==
  /\ CountersAgree <=> /\ model.pending = Cardinality(PendingSlots)
                       /\ model.active = Cardinality(ActiveSlots)
                       /\ dw.members = InFlightSlots
  /\ CountersAgree' <=> /\ model'.pending = Cardinality(PendingSlots')
                        /\ model'.active = Cardinality(ActiveSlots')
                        /\ dw'.members = InFlightSlots'
BY DEF CountersAgree, PendingSlots, ActiveSlots, InFlightSlots, Generating

Exclusive(d) == ~(d.pending /\ d.inFlight) /\ (d.done => ~d.pending /\ ~d.inFlight)

LEMMA DecodeInvParts ==
  /\ DecodeInv <=> /\ CountersAgree /\ \A s \in Slots : Exclusive(decode[s])
                   /\ dw.pc # "eval" => dw.members = {}
  /\ DecodeInv' <=> /\ CountersAgree' /\ \A s \in Slots : Exclusive(decode'[s])
                    /\ dw'.pc # "eval" => dw'.members = {}
BY DEF DecodeInv, Exclusive

LEMMA CountersInRange ==
  ASSUME DecodeInv
  PROVE  model.pending \in 0 .. NSlots /\ model.active \in 0 .. NSlots
<1>1. PendingSlots \in SUBSET Slots /\ ActiveSlots \in SUBSET Slots
  BY DEF PendingSlots, ActiveSlots
<1> QED BY <1>1, SubsetOfSlots, DecodeInvParts, Counted

(* A step of a slot that neither begins nor ends an answer.                *)
LEMMA DecodeFrame ==
  ASSUME DecodeInv, NEW s \in Slots, NEW pcs, Becomes(s, pcs),
         \/ worker[s].pc \notin Generating /\ pcs \cap Generating = {}
         \/ worker[s].pc \in Generating /\ pcs \subseteq Generating,
         model'.active = model.active, model'.pending = model.pending, decode' = decode, dw' = dw
  PROVE  DecodeInv'
<1>1. ActiveSlots' = ActiveSlots
  BY DEF ActiveSlots, Becomes
<1>2. PendingSlots' = PendingSlots /\ InFlightSlots' = InFlightSlots
  BY DEF PendingSlots, InFlightSlots
<1> QED BY <1>1, <1>2, DecodeInvParts, Counted

LEMMA DecodeSame ==
  ASSUME DecodeInv, worker' = worker, decode' = decode, dw' = dw,
         model'.active = model.active, model'.pending = model.pending
  PROVE  DecodeInv'
<1>1. ActiveSlots' = ActiveSlots /\ PendingSlots' = PendingSlots /\ InFlightSlots' = InFlightSlots
  BY DEF ActiveSlots, PendingSlots, InFlightSlots
<1> QED BY <1>1, DecodeInvParts, Counted

LEMMA OwnedFrame ==
  ASSUME SessionOwned, NEW s \in Slots, NEW pcs, Becomes(s, pcs), worker[s].pc # "eval",
         decode' = decode, stop => stop'
  PROVE  SessionOwned'
BY DEF SessionOwned, Becomes

LEMMA OwnedSame ==
  ASSUME SessionOwned, worker' = worker, decode' = decode, stop => stop'
  PROVE  SessionOwned'
BY DEF SessionOwned

(* server_eval_token.                                                      *)
LEMMA DecodeAsk ==
  ASSUME Shape, WithinBounds, DecodeInv, SessionOwned, NEW s \in Slots, Ask(s)
  PROVE  DecodeInv' /\ SessionOwned'
<1>1. worker[s].pc = "ask" /\ Becomes(s, {"endgen", "eval"}) /\ dw' = dw /\ stop' = stop
  BY AskWorks DEF Ask, stopVars
<1>2. ActiveSlots' = ActiveSlots
  BY <1>1 DEF ActiveSlots, Becomes, Generating
<1>3. CASE decode[s].pending \/ decode[s].inFlight
  <2>1. decode' = decode /\ model' = model
    BY <1>3 DEF Ask
  <2>2. DecodeInv'
    BY <1>1, <2>1, DecodeFrame DEF Generating
  <2> QED BY <1>1, <2>1, <2>2, OwnedFrame
<1>4. CASE ~(decode[s].pending \/ decode[s].inFlight)
  <2>1. /\ decode' = [decode EXCEPT ![s].pending = TRUE, ![s].done = FALSE, ![s].ok = FALSE]
        /\ model' = [model EXCEPT !.pending = @ + 1]
    BY <1>4 DEF Ask
  <2>2. /\ \A t \in Slots : t # s => decode'[t] = decode[t]
        /\ decode'[s].pending = TRUE /\ decode'[s].inFlight = decode[s].inFlight /\ ~decode'[s].done
    BY <2>1, DecodeUpdated
  <2>3. model'.pending = model.pending + 1 /\ model'.active = model.active
    BY <2>1 DEF Shape, ModelSet
  <2>4. PendingSlots' = PendingSlots \cup {s} /\ s \notin PendingSlots /\ PendingSlots \in SUBSET Slots
    BY <1>4, <2>2 DEF PendingSlots
  <2>5. InFlightSlots' = InFlightSlots
    BY <2>2 DEF InFlightSlots
  <2>6. Cardinality(PendingSlots') = Cardinality(PendingSlots) + 1
    BY <2>4, CountsIn
  <2>7. CountersAgree'
    BY <1>1, <1>2, <2>3, <2>5, <2>6, Counted, DecodeInvParts
  <2>8. \A t \in Slots : Exclusive(decode'[t])
    BY <1>4, <2>2, DecodeInvParts DEF Exclusive
  <2>9. DecodeInv'
    BY <1>1, <2>7, <2>8, DecodeInvParts
  <2>10. worker'[s].pc = "eval" \/ stop
    BY <1>1, <1>4 DEF Ask, Goto, Shape, WorkerSet
  <2>11. SessionOwned'
    BY <1>1, <2>2, <2>10 DEF SessionOwned, Becomes
  <2> QED BY <2>9, <2>11
<1> QED BY <1>3, <1>4

LEMMA DecodeEval ==
  ASSUME Shape, WithinBounds, DecodeInv, SessionOwned, NEW s \in Slots, Eval(s)
  PROVE  DecodeInv' /\ SessionOwned'
<1>1. dw' = dw /\ stop' = stop /\ model' = model
  BY DEF Eval, stopVars
<1>2. CASE ~TokenDue(s)
  <2>1. worker' = worker /\ decode' = decode
    BY <1>2 DEF Eval
  <2> QED BY <1>1, <2>1, DecodeSame, OwnedSame
<1>3. CASE TokenDue(s)
  <2>1. Becomes(s, {"endgen", "ask"}) \/ worker' = worker
    BY EvalWorks
  <2>2. worker[s].pc = "eval"
    BY DEF Eval
  <2>3. ActiveSlots' = ActiveSlots
    BY <2>1, <2>2 DEF ActiveSlots, Becomes, Generating
  <2>4. decode' = [decode EXCEPT ![s].done = FALSE, ![s].ok = FALSE] /\ decode[s].pending \in BOOLEAN
    BY <1>3 DEF Eval, Shape, DecodeSet
  <2>5. /\ \A t \in Slots : t # s => decode'[t] = decode[t]
        /\ decode'[s].pending = decode[s].pending /\ decode'[s].inFlight = decode[s].inFlight
        /\ ~decode'[s].done
    BY <2>4, DecodeUpdated
  <2>6. PendingSlots' = PendingSlots /\ InFlightSlots' = InFlightSlots
    BY <2>5 DEF PendingSlots, InFlightSlots
  <2>7. \A t \in Slots : Exclusive(decode'[t])
    BY <2>5, DecodeInvParts DEF Exclusive
  <2>8. DecodeInv'
    BY <1>1, <2>3, <2>6, <2>7, Counted, DecodeInvParts
  <2>9. decode[s].pending \/ decode[s].inFlight => stop
    BY <1>3, DecodeInvParts DEF TokenDue, Exclusive
  <2>10. SessionOwned'
    BY <1>1, <2>1, <2>5, <2>9 DEF SessionOwned, Becomes
  <2> QED BY <2>8, <2>10
<1> QED BY <1>2, <1>3

LEMMA DecodeSlot ==
  ASSUME Shape, WithinBounds, DecodeInv, SessionOwned, NEW s \in Slots, SlotStep(s)
  PROVE  DecodeInv' /\ SessionOwned'
<1>1. CASE Idle(s)
  <2>1. /\ model' = model /\ decode' = decode /\ dw' = dw /\ stop' = stop /\ worker[s].pc = "idle"
        /\ {"start"} \cap Generating = {} /\ {"exited"} \cap Generating = {}
        /\ worker[s].pc \notin Generating
    BY <1>1 DEF Idle, modelVars, stopVars, Generating
  <2>2. CASE worker' = worker
    BY <2>1, <2>2, DecodeSame, OwnedSame
  <2>3. CASE Becomes(s, {"start"}) \/ Becomes(s, {"exited"})
    BY <2>1, <2>3, DecodeFrame, OwnedFrame
  <2> QED BY <1>1, <2>2, <2>3, IdleWorks
<1>2. CASE Start(s)
  BY <1>2, StartWorks, DecodeFrame, OwnedFrame DEF Start, modelVars, stopVars, Generating
<1>3. CASE EnterPrefill(s) \/ AwaitedTurn(s)
  <2>1. PICK waiting, asleep : AwaitTurn(s, waiting, asleep) /\ worker[s].pc \in {"enter", "turn"}
    BY <1>3 DEF EnterPrefill, AwaitedTurn
  <2>2. Becomes(s, {"remember", "done", "prefill", "turn"})
    BY <2>1, TurnWorks
  <2>3. decode' = decode /\ dw' = dw /\ stop' = stop
    BY <2>1 DEF AwaitTurn, stopVars
  <2>4. model'.active = model.active /\ model'.pending = model.pending
    BY <2>1 DEF AwaitTurn, Shape, ModelSet
  <2> QED BY <2>1, <2>2, <2>3, <2>4, DecodeFrame, OwnedFrame DEF Generating
<1>5. CASE Prefill(s)
  <2>1. model'.active = model.active /\ model'.pending = model.pending
    BY <1>5 DEF Prefill, Shape, ModelSet
  <2>2. decode' = decode /\ dw' = dw /\ stop' = stop
    BY <1>5 DEF Prefill
  <2> QED BY <1>5, <2>1, <2>2, PrefillWorks, DecodeFrame, OwnedFrame DEF Generating
<1>6. CASE ClearLive(s)
  BY <1>6, ClearWorks, DecodeFrame, OwnedFrame DEF ClearLive, modelVars, stopVars, Generating
<1>7. CASE Generate(s)
  <2>1. worker[s].pc = "generate" /\ Becomes(s, {"endgen", "ask"})
    BY <1>7, GenerateWorks
  <2>2. decode' = decode /\ dw' = dw /\ stop' = stop
    BY <1>7 DEF Generate, stopVars
  <2>3. model'.active = model.active + 1 /\ model'.pending = model.pending
    BY <1>7 DEF Generate, Shape, ModelSet
  <2>4. ActiveSlots' = ActiveSlots \cup {s} /\ s \notin ActiveSlots /\ ActiveSlots \in SUBSET Slots
    BY <2>1 DEF ActiveSlots, Becomes, Generating
  <2>5. Cardinality(ActiveSlots') = Cardinality(ActiveSlots) + 1
    BY <2>4, CountsIn
  <2>6. PendingSlots' = PendingSlots /\ InFlightSlots' = InFlightSlots
    BY <2>2 DEF PendingSlots, InFlightSlots
  <2>7. DecodeInv'
    BY <2>2, <2>3, <2>5, <2>6, Counted, DecodeInvParts
  <2> QED BY <2>1, <2>2, <2>7, OwnedFrame
<1>8. CASE Ask(s)
  BY <1>8, DecodeAsk
<1>9. CASE Eval(s)
  BY <1>9, DecodeEval
<1>10. CASE EndGeneration(s)
  <2>1. worker[s].pc = "endgen" /\ Becomes(s, {"remember", "enter"})
    BY <1>10, EndWorks
  <2>2. decode' = decode /\ dw' = dw /\ stop' = stop
    BY <1>10 DEF EndGeneration, stopVars
  <2>3. model'.active = model.active - 1 /\ model'.pending = model.pending
    BY <1>10 DEF EndGeneration, Shape, ModelSet
  <2>4. ActiveSlots' = ActiveSlots \ {s} /\ s \in ActiveSlots /\ ActiveSlots \in SUBSET Slots
    BY <2>1 DEF ActiveSlots, Becomes, Generating
  <2>5. Cardinality(ActiveSlots') = Cardinality(ActiveSlots) - 1
    BY <2>4, CountsOut
  <2>6. PendingSlots' = PendingSlots /\ InFlightSlots' = InFlightSlots
    BY <2>2 DEF PendingSlots, InFlightSlots
  <2>7. DecodeInv'
    BY <2>2, <2>3, <2>5, <2>6, Counted, DecodeInvParts
  <2> QED BY <2>1, <2>2, <2>7, OwnedFrame
<1>11. CASE Remember(s)
  BY <1>11, RememberWorks, DecodeFrame, OwnedFrame DEF Remember, modelVars, stopVars, Generating
<1>12. CASE MarkFatal(s)
  BY <1>12, MarkFatalWorks, DecodeFrame, OwnedFrame DEF MarkFatal, modelVars, Generating
<1>13. CASE FatalStop(s)
  BY <1>13, FatalStopWorks, DecodeFrame, OwnedFrame DEF FatalStop, modelVars, Generating
<1>14. CASE JobDone(s)
  BY <1>14, DoneWorks, DecodeFrame, OwnedFrame DEF JobDone, modelVars, stopVars, Generating
<1>15. CASE Free(s)
  BY <1>15, FreeWorks, DecodeFrame, OwnedFrame DEF Free, modelVars, stopVars, Generating
<1> QED BY <1>1, <1>2, <1>3, <1>5, <1>6, <1>7, <1>8, <1>9, <1>10, <1>11, <1>12, <1>13,
           <1>14, <1>15 DEF SlotStep

LEMMA DecodeKept ==
  ASSUME Shape, WithinBounds, DecodeInv, SessionOwned, [Next]_vars
  PROVE  DecodeInv' /\ SessionOwned'
<1>1. ASSUME NEW c \in Clients, Connect(c) \/ ClientStep(c) PROVE DecodeInv' /\ SessionOwned'
  <2>1. worker' = worker /\ decode' = decode /\ dw' = dw /\ model' = model
    BY <1>1 DEF Connect, ClientStep, Enqueue, Disconnect, modelVars
  <2>2. stop' = stop
    BY <1>1 DEF Connect, ClientStep, Enqueue, Disconnect, stopVars
  <2> QED BY <2>1, <2>2, DecodeSame, OwnedSame
<1>2. ASSUME NEW s \in Slots, SlotStep(s) PROVE DecodeInv' /\ SessionOwned'
  BY <1>2, DecodeSlot
<1>3. CASE DwWait
  <2>1. /\ worker' = worker /\ decode' = decode /\ model' = model /\ stop' = stop
        /\ dw'.members = {} /\ dw'.pc # "eval" /\ dw.pc # "eval"
    BY <1>3 DEF DwWait, DwLoop, stopVars
  <2>2. ActiveSlots' = ActiveSlots /\ PendingSlots' = PendingSlots /\ InFlightSlots' = InFlightSlots
    BY <2>1 DEF ActiveSlots, PendingSlots, InFlightSlots
  <2>3. DecodeInv'
    BY <2>1, <2>2, DecodeInvParts, Counted
  <2> QED BY <2>1, <2>3, OwnedSame
<1>4. CASE Collect
  <2>1. dw.pc = "collect" /\ stop' = stop
    BY <1>4 DEF Collect, stopVars
  <2>2. CASE ExecutorFree
    <3>1. /\ \A s \in Slots :
               IF decode[s].pending
                 THEN ~decode'[s].pending /\ decode'[s].inFlight /\ decode'[s].done = decode[s].done
                 ELSE decode'[s] = decode[s]
          /\ model'.pending = 0 /\ model'.active = model.active
          /\ dw'.pc = "eval" /\ dw'.members = PendingSlots /\ worker' = worker
      BY <1>4, <2>2, Collects DEF PendingSlots
    <3>2. InFlightSlots = {}
      BY <2>1, DecodeInvParts, Counted
    <3>3. InFlightSlots' = PendingSlots
      BY <3>1, <3>2 DEF InFlightSlots, PendingSlots
    <3>4. PendingSlots' = {}
      BY <3>1 DEF PendingSlots
    <3>5. Cardinality(PendingSlots') = 0
      BY <3>4, FS_EmptySet
    <3>6. ActiveSlots' = ActiveSlots
      BY <3>1 DEF ActiveSlots
    <3>7. \A s \in Slots : Exclusive(decode'[s])
      BY <3>1, DecodeInvParts DEF Exclusive
    <3>8. DecodeInv'
      BY <3>1, <3>3, <3>5, <3>6, <3>7, DecodeInvParts, Counted
    <3>9. SessionOwned'
      BY <2>1, <3>1 DEF SessionOwned
    <3> QED BY <3>8, <3>9
  <2>3. CASE ~ExecutorFree
    BY <1>4, <2>1, <2>3, DecodeSame, OwnedSame DEF Collect
  <2> QED BY <2>2, <2>3
<1>5. CASE DwEval
  <2>1. /\ dw'.members = {} /\ dw'.pc # "eval" /\ worker' = worker /\ stop' = stop
    BY <1>5 DEF DwEval, DwLoop
  <2>2. /\ \A s \in Slots :
             IF s \in dw.members
               THEN decode'[s].pending = decode[s].pending /\ ~decode'[s].inFlight /\ decode'[s].done
               ELSE decode'[s] = decode[s]
        /\ model'.pending = model.pending /\ model'.active = model.active
    BY <1>5, Evaluates
  <2>3. dw.members = InFlightSlots
    BY DecodeInvParts, Counted
  <2>4. InFlightSlots' = {} /\ PendingSlots' = PendingSlots /\ ActiveSlots' = ActiveSlots
    BY <2>1, <2>2, <2>3 DEF InFlightSlots, PendingSlots, ActiveSlots
  <2>5. \A s \in Slots : Exclusive(decode'[s])
    BY <2>2, <2>3, DecodeInvParts DEF Exclusive, InFlightSlots
  <2>6. DecodeInv'
    BY <2>1, <2>2, <2>4, <2>5, DecodeInvParts, Counted
  <2>7. SessionOwned'
    BY <2>1, <2>2 DEF SessionOwned
  <2> QED BY <2>6, <2>7
<1>6. CASE MainStep \/ Signal
  <2>1. model'.active = model.active /\ model'.pending = model.pending
    BY <1>6 DEF MainStep, LeaveAccept, WorkerStop, DecodeStop, JoinDecode, ClientsGone, Signal,
                modelVars, Shape, ModelSet
  <2>2. worker' = worker /\ decode' = decode /\ dw' = dw
    BY <1>6 DEF MainStep, LeaveAccept, WorkerStop, DecodeStop, JoinDecode, ClientsGone, Signal,
                modelVars
  <2>3. CASE MainStep
    <3>1. stop' = stop
      BY <2>3 DEF MainStep, LeaveAccept, WorkerStop, DecodeStop, JoinDecode, ClientsGone, stopVars
    <3> QED BY <2>1, <2>2, <3>1, DecodeSame, OwnedSame
  <2>4. CASE Signal
    BY <2>1, <2>2, <2>4, DecodeSame, OwnedSame DEF Signal
  <2> QED BY <1>6, <2>3, <2>4
<1>7. CASE UNCHANGED vars
  BY <1>7, DecodeSame, OwnedSame DEF vars, modelVars, stopVars
<1> QED BY <1>1, <1>2, <1>3, <1>4, <1>5, <1>6, <1>7 DEF Next, DecodeStep
-----------------------------------------------------------------------------
(* Prefill turns.                                                          *)

LEMMA RoundTrip ==
  ASSUME NEW last \in Slots
  PROVE  /\ \A n \in 1 .. NSlots :
              /\ (last + n) % NSlots \in Slots
              /\ Dist(last, (last + n) % NSlots) = n
         /\ \A t \in Slots : Dist(last, t) \in 1 .. NSlots /\ (last + Dist(last, t)) % NSlots = t
<1>1. NSlots \in Int /\ NSlots > 0 /\ last \in Int /\ 0 <= last /\ last < NSlots
  BY SlotAssumption DEF Slots
<1>2. ASSUME NEW x \in Int, 0 <= x, x < NSlots PROVE x % NSlots = x
  BY <1>1, <1>2
<1>3. ASSUME NEW x \in Int, NSlots <= x, x < NSlots + NSlots PROVE x % NSlots = x - NSlots
  BY <1>1, <1>3
<1>4. ASSUME NEW n \in 1 .. NSlots
      PROVE  (last + n) % NSlots = IF last + n < NSlots THEN last + n ELSE last + n - NSlots
  BY <1>1, <1>2, <1>3
<1>5. ASSUME NEW n \in 1 .. NSlots
      PROVE  (last + n) % NSlots \in Slots /\ Dist(last, (last + n) % NSlots) = n
  BY <1>1, <1>4 DEF Dist, Slots
<1>6. ASSUME NEW t \in Slots
      PROVE  Dist(last, t) \in 1 .. NSlots /\ (last + Dist(last, t)) % NSlots = t
  BY <1>1, <1>4 DEF Dist, Slots
<1> QED BY <1>5, <1>6

(* server_next_prefill_slot_locked finds the waiting slot that is next.    *)
LEMMA NextIsNearest ==
  ASSUME Shape, NEW waiting \in [Slots -> BOOLEAN], NEW s \in Slots, NextPrefill(waiting) = s
  PROVE  waiting[s] /\ \A t \in Slots : waiting[t] /\ t # s => Dist(model.last, s) < Dist(model.last, t)
<1> DEFINE Next_(n) == (model.last + n) % NSlots
           Ready == {n \in 1 .. NSlots : waiting[Next_(n)]}
<1>1. model.last \in Slots
  BY DEF Shape, ModelSet
<1>2. /\ \A n \in 1 .. NSlots : Next_(n) \in Slots /\ Dist(model.last, Next_(n)) = n
      /\ \A t \in Slots : Dist(model.last, t) \in 1 .. NSlots /\ Next_(Dist(model.last, t)) = t
  BY <1>1, RoundTrip
<1>3. Ready # {} /\ s = Next_(CHOOSE n \in Ready : \A k \in Ready : n <= k)
  BY NoneAssumption DEF NextPrefill, Slots
<1>4. Ready \in SUBSET Nat
  OBVIOUS
<1>5. \A n \in Ready : n \in 1 .. NSlots /\ waiting[Next_(n)]
  OBVIOUS
<1>6. \A t \in Slots : waiting[t] => Dist(model.last, t) \in Ready
  BY <1>2
<1> HIDE DEF Next_, Ready
<1>7. PICK n \in Ready : s = Next_(n) /\ \A k \in Ready : n <= k
  <2>1. \E n \in Ready : \A k \in Ready : n <= k
    BY <1>3, <1>4, LeastNat
  <2> QED BY <1>3, <2>1
<1>8. Dist(model.last, s) = n /\ waiting[s]
  BY <1>2, <1>5, <1>7
<1>9. ASSUME NEW t \in Slots, waiting[t], t # s PROVE n < Dist(model.last, t)
  <2>1. n <= Dist(model.last, t) /\ Dist(model.last, t) \in 1 .. NSlots /\ n \in 1 .. NSlots
    BY <1>2, <1>5, <1>6, <1>7, <1>9
  <2>2. n # Dist(model.last, t)
    BY <1>2, <1>7, <1>9
  <2> QED BY <2>1, <2>2
<1> QED BY <1>8, <1>9

LEMMA Between ==
  ASSUME NEW a \in Slots, NEW s \in Slots, NEW t \in Slots, Dist(a, s) < Dist(a, t)
  PROVE  Dist(s, t) < Dist(a, t)
BY SlotAssumption DEF Dist, Slots

LEMMA TurnSame ==
  ASSUME TurnInv, prefillWaiting' = prefillWaiting, passed' = passed, model'.last = model.last
  PROVE  TurnInv'
BY DEF TurnInv, Dist

LEMMA TurnTaken ==
  ASSUME Shape, TurnInv, NEW s \in Slots, NEW waiting \in [Slots -> BOOLEAN], NEW asleep,
         \A t \in Slots : t # s => waiting[t] = prefillWaiting[t],
         AwaitTurn(s, waiting, asleep)
  PROVE  TurnInv'
<1>1. /\ passed \in [Slots -> [Slots -> {0, 1}]]
      /\ \A t, u \in Slots : ~prefillWaiting[t] => passed[t][u] = 0
      /\ \A t, u \in Slots : passed[t][u] = 1 => Dist(u, t) >= Dist(model.last, t)
  BY DEF TurnInv
<1>2. \A t \in Slots : t # s => prefillWaiting'[t] = waiting[t]
  BY DEF AwaitTurn
<1>3. CASE stop
  <2>1. /\ passed' = [passed EXCEPT ![s] = [t \in Slots |-> 0]] /\ model' = model
    BY <1>3 DEF AwaitTurn
  <2>2. passed' \in [Slots -> [Slots -> {0, 1}]]
    BY <1>1, <2>1
  <2>3. ASSUME NEW t \in Slots, NEW u \in Slots
        PROVE  /\ ~prefillWaiting'[t] => passed'[t][u] = 0
               /\ passed'[t][u] = 1 => Dist(u, t) >= Dist(model.last, t)
    <3>1. CASE t = s
      BY <1>1, <2>1, <3>1
    <3>2. CASE t # s
      BY <1>1, <1>2, <2>1, <3>2
    <3> QED BY <3>1, <3>2
  <2> QED BY <2>1, <2>2, <2>3 DEF TurnInv, Dist
<1>4. CASE ~stop /\ ~HasTurn(s, waiting)
  <2>1. passed' = passed /\ model' = model /\ prefillWaiting'[s]
    BY <1>4 DEF AwaitTurn
  <2> QED BY <1>1, <1>2, <2>1 DEF TurnInv, Dist
<1>5. CASE ~stop /\ HasTurn(s, waiting)
  <2>1. /\ model'.last = s
        /\ passed' = [t \in Slots |-> IF t = s THEN [u \in Slots |-> 0]
                                      ELSE IF waiting[t] THEN [passed[t] EXCEPT ![s] = @ + 1]
                                      ELSE passed[t]]
    BY <1>5 DEF AwaitTurn, Shape, ModelSet
  <2>2. model.last \in Slots /\ NextPrefill(waiting) = s
    BY <1>5 DEF HasTurn, Shape, ModelSet
  <2>3. ASSUME NEW t \in Slots, t # s, waiting[t]
        PROVE  /\ Dist(s, t) < Dist(model.last, t) /\ passed[t][s] = 0
               /\ passed'[t] = [passed[t] EXCEPT ![s] = 1]
    <3>1. Dist(s, t) < Dist(model.last, t)
      BY <2>2, <2>3, NextIsNearest, Between
    <3>2. Dist(s, t) \in Int /\ Dist(model.last, t) \in Int
      BY <2>2, SlotAssumption DEF Dist, Slots
    <3>3. passed[t] \in [Slots -> {0, 1}] /\ passed[t][s] \in {0, 1}
      BY <1>1
    <3>4. passed[t][s] # 1
      BY <1>1, <3>1, <3>2
    <3>5. passed[t][s] = 0
      BY <3>3, <3>4
    <3>6. passed'[t] = [passed[t] EXCEPT ![s] = @ + 1]
      BY <2>1, <2>3
    <3> QED BY <3>1, <3>5, <3>6
  <2>4. \A t \in Slots : t # s /\ ~waiting[t] => passed'[t] = passed[t]
    BY <2>1
  <2>5. passed'[s] = [u \in Slots |-> 0]
    BY <2>1
  <2>6. \A t \in Slots : passed'[t] \in [Slots -> {0, 1}]
    <3> SUFFICES ASSUME NEW t \in Slots PROVE passed'[t] \in [Slots -> {0, 1}]
      OBVIOUS
    <3>1. passed[t] \in [Slots -> {0, 1}]
      BY <1>1
    <3>2. CASE t # s /\ waiting[t]
      <4>1. passed'[t] = [passed[t] EXCEPT ![s] = 1]
        BY <2>3, <3>2
      <4> QED BY <3>1, <4>1
    <3> QED BY <2>4, <2>5, <3>1, <3>2
  <2>7. passed' \in [Slots -> [Slots -> {0, 1}]]
    BY <2>1, <2>6
  <2>8. ASSUME NEW t \in Slots, NEW u \in Slots
        PROVE  /\ ~prefillWaiting'[t] => passed'[t][u] = 0
               /\ passed'[t][u] = 1 => Dist(u, t) >= Dist(s, t)
    <3>0. Dist(s, t) \in Int /\ Dist(model.last, t) \in Int /\ Dist(u, t) \in Int
      BY <2>2, SlotAssumption DEF Dist, Slots
    <3>1. CASE t = s
      BY <2>5, <3>1
    <3>2. CASE t # s /\ ~waiting[t]
      BY <1>1, <2>4, <3>2
    <3>3. CASE t # s /\ waiting[t]
      <4>1. prefillWaiting'[t]
        BY <1>2, <3>3
      <4>2. CASE u = s
        BY <3>0, <4>1, <4>2
      <4>3. CASE u # s
        <5>1. /\ passed[t] \in [Slots -> {0, 1}] /\ passed'[t] = [passed[t] EXCEPT ![s] = 1]
              /\ Dist(s, t) < Dist(model.last, t)
          BY <1>1, <2>3, <3>3
        <5>2. passed'[t][u] = passed[t][u]
          BY <4>3, <5>1
        <5>3. passed[t][u] = 1 => Dist(u, t) >= Dist(model.last, t)
          BY <1>1
        <5> QED BY <3>0, <4>1, <5>1, <5>2, <5>3
      <4> QED BY <4>2, <4>3
    <3> QED BY <3>1, <3>2, <3>3
  <2> QED BY <2>1, <2>7, <2>8 DEF TurnInv, Dist
<1> QED BY <1>3, <1>4, <1>5

LEMMA TurnKept ==
  ASSUME Shape, TurnInv, DecodeInv, [Next]_vars
  PROVE  TurnInv'
<1>1. ASSUME NEW c \in Clients, Connect(c) \/ ClientStep(c) PROVE TurnInv'
  BY <1>1, TurnSame DEF Connect, ClientStep, Enqueue, Disconnect, modelVars
<1>2. ASSUME NEW s \in Slots, SlotStep(s) PROVE TurnInv'
  <2>1. CASE EnterPrefill(s)
    <3> DEFINE waiting == [prefillWaiting EXCEPT ![s] = TRUE]
    <3>1. /\ waiting \in [Slots -> BOOLEAN]
          /\ \A t \in Slots : t # s => waiting[t] = prefillWaiting[t]
      BY DEF Shape
    <3>2. AwaitTurn(s, waiting, {})
      BY <2>1 DEF EnterPrefill
    <3> HIDE DEF waiting
    <3> QED BY <3>1, <3>2, TurnTaken
  <2>2. CASE AwaitedTurn(s)
    <3>1. AwaitTurn(s, prefillWaiting, modelWait) /\ prefillWaiting \in [Slots -> BOOLEAN]
      BY <2>2 DEF AwaitedTurn, Shape
    <3> QED BY <3>1, TurnTaken
  <2>3. CASE Prefill(s) \/ Generate(s) \/ Ask(s) \/ EndGeneration(s)
    <3>1. model'.last = model.last
      BY <2>3 DEF Prefill, Generate, Ask, EndGeneration, Shape, ModelSet
    <3> QED BY <2>3, <3>1, TurnSame DEF Prefill, Generate, Ask, EndGeneration
  <2>4. CASE Idle(s) \/ Start(s) \/ ClearLive(s) \/ Eval(s) \/ Remember(s) \/ MarkFatal(s)
                \/ FatalStop(s) \/ JobDone(s) \/ Free(s)
    BY <2>4, TurnSame DEF Idle, Start, ClearLive, Eval, Remember, MarkFatal, FatalStop, JobDone, Free,
                          modelVars
  <2> QED BY <1>2, <2>1, <2>2, <2>3, <2>4 DEF SlotStep
<1>3. CASE DwWait
  BY <1>3, TurnSame DEF DwWait
<1>4. CASE Collect
  BY <1>4, Collects, TurnSame DEF Collect
<1>5. CASE DwEval
  BY <1>5, Evaluates, TurnSame DEF DwEval
<1>6. CASE MainStep \/ Signal
  <2>1. model'.last = model.last
    BY <1>6 DEF MainStep, LeaveAccept, WorkerStop, DecodeStop, JoinDecode, ClientsGone, Signal,
                modelVars, Shape, ModelSet
  <2> QED BY <1>6, <2>1, TurnSame
          DEF MainStep, LeaveAccept, WorkerStop, DecodeStop, JoinDecode, ClientsGone, Signal, modelVars
<1>7. CASE UNCHANGED vars
  BY <1>7, TurnSame DEF vars, modelVars
<1> QED BY <1>1, <1>2, <1>3, <1>4, <1>5, <1>6, <1>7 DEF Next, DecodeStep
-----------------------------------------------------------------------------
(* Jobs and their places.                                                  *)

Placement == PlaceInv /\ SlotInv /\ WorkConserving /\ LiveInv

LEMMA PlacementSame ==
  ASSUME Placement, client' = client, request' = request, queue' = queue, slot' = slot,
         worker' = worker, stopping => stopping'
  PROVE  Placement'
<1>1. PlaceInv' /\ SlotInv'
  BY DEF Placement, PlaceInv, PlacesOK, SlotInv, SlotsOK, NoTwice, Has, Runs
<1>2. WorkConserving' /\ LiveInv'
  BY DEF Placement, WorkConserving, LiveInv, LiveOK, Required
<1> QED BY <1>1, <1>2 DEF Placement

(* A slot worker goes on with its job.                                     *)
LEMMA PlacementFrame ==
  ASSUME Placement, NEW s \in Slots, NEW pcs, Becomes(s, pcs), worker[s].pc \in Open, pcs \subseteq Open,
         worker'[s].job = Job(s), client' = client, queue' = queue, slot' = slot,
         stopping => stopping',
         \A c \in Clients : /\ request'[c].live = request[c].live
                            /\ request'[c].bound \in {request[c].bound, None},
         queue \in Seq(Clients)
  PROVE  Placement'
<1>1. \A t \in Slots : /\ worker'[t].job = worker[t].job
                       /\ \A pc \in {"idle", "exited", "free"} : worker'[t].pc = pc <=> worker[t].pc = pc
  BY DEF Becomes, Open, Job
<1>2. \A t \in Slots : \A c : Runs(worker', t, c) <=> Runs(worker, t, c)
  BY <1>1 DEF Runs
<1>3. PlaceInv'
  <2>1. PlacesOK(queue, slot, worker', client)
    BY <1>2 DEF Placement, PlaceInv, PlacesOK
  <2> QED BY <2>1 DEF PlaceInv
<1>4. SlotInv'
  <2>1. SlotsOK(queue, slot, worker', client, stopping')
    BY <1>1 DEF Placement, SlotInv, SlotsOK, Resting
  <2> QED BY <2>1 DEF SlotInv
<1>5. WorkConserving'
  <2>1. \A i \in DOMAIN queue : queue[i] \in Clients
    OBVIOUS
  <2> QED BY <2>1 DEF Placement, WorkConserving
<1>6. LiveInv'
  <2>1. \A c \in Clients, t \in Slots : Required(request[c]) \in {None, t} => Required(request'[c]) \in {None, t}
    BY DEF Required
  <2>2. LiveOK(slot, worker', client, request')
    BY <1>1, <2>1 DEF Placement, LiveInv, LiveOK
  <2> QED BY <2>2 DEF LiveInv
<1> QED BY <1>3, <1>4, <1>5, <1>6 DEF Placement

(* A dispatch from a state in which everything is in place.                *)
LEMMA PlacementPlaced ==
  ASSUME NEW q, NEW slots \in SlotSet, PlacesOK(q, slots, worker', client'),
         NEW closed, SlotsOK(q, slots, worker', client', closed), closed => stopping',
         LiveOK(slots, worker', client', request'), Placed(q, slots, request')
  PROVE  Placement'
<1>1. PlaceInv'
  BY PlacesPlaced DEF PlaceInv
<1>2. SlotsOK(queue', slot', worker', client', stopping')
  BY SlotsPlaced
<1>3. WorkConserving'
  BY <1>2, WorkPlaced DEF WorkConserving
<1>4. LiveInv'
  BY LivePlaced DEF LiveInv
<1> QED BY <1>1, <1>2, <1>3, <1>4 DEF Placement, SlotInv

LEMMA PlacementClient ==
  ASSUME Shape, Placement, NEW c \in Clients, Connect(c) \/ ClientStep(c)
  PROVE  Placement'
<1>0. worker' = worker /\ stopping' = stopping /\ client \in [Clients -> ClientPc]
  BY DEF Connect, ClientStep, Enqueue, Disconnect, stopVars, Shape
<1>1. ASSUME NEW r \in [Clients -> ClientPc], r # client,
             \A d \in Clients : d # c => r[d] = client[d],
             client[c] # "waiting" /\ r[c] # "waiting", r[c] = "gone" \/ client[c] = "none",
             client' = r, queue' = queue, slot' = slot,
             \A d \in Clients : d # c => request'[d] = request[d]
      PROVE  Placement'
  <2>0. \A d \in Clients : (client'[d] = "waiting") <=> (client[d] = "waiting")
    BY <1>1
  <2>1. PlacesOK(queue, slot, worker, client')
    BY <2>0 DEF Placement, PlaceInv, PlacesOK
  <2>2. SlotsOK(queue, slot, worker, client', stopping)
    <3>1. \A d \in Clients : client[d] \in {"answered", "gone"} => client'[d] \in {"answered", "gone"}
      BY <1>1
    <3> QED BY <3>1 DEF Placement, SlotInv, SlotsOK, Resting
  <2>3. LiveOK(slot, worker, client', request')
    BY <1>1, <2>0 DEF Placement, LiveInv, LiveOK
  <2>4. WorkConserving'
    <3>1. \A i \in DOMAIN queue : queue[i] \in Clients /\ client[queue[i]] = "waiting"
      BY DEF Placement, PlaceInv, PlacesOK, Has, Shape
    <3>2. \A i \in DOMAIN queue : queue[i] # c
      BY <1>1, <3>1
    <3> QED BY <1>1, <3>1, <3>2 DEF Placement, WorkConserving
  <2> QED BY <1>0, <1>1, <2>1, <2>2, <2>3, <2>4 DEF Placement, PlaceInv, SlotInv, LiveInv
<1>2. CASE Connect(c)
  <2>1. client[c] = "none" /\ queue' = queue /\ slot' = slot /\ request' = request
    BY <1>2 DEF Connect
  <2>2. /\ client' \in [Clients -> ClientPc] /\ client'[c] \in {"gone", "serving"}
        /\ \A d \in Clients : d # c => client'[d] = client[d]
    BY <1>0, <1>2 DEF Connect, ClientPc
  <2>3. client' # client
    BY <2>1, <2>2
  <2> QED BY <1>1, <2>1, <2>2, <2>3
<1>3. CASE Enqueue(c)
  <2>1. client[c] = "serving"
    BY <1>3 DEF Enqueue
  <2>2. CASE stopping
    <3>1. queue' = queue /\ slot' = slot /\ request' = request
      BY <1>3, <2>2 DEF Enqueue
    <3>2. /\ client' \in [Clients -> ClientPc] /\ client'[c] = "gone"
          /\ \A d \in Clients : d # c => client'[d] = client[d]
      BY <1>0, <1>3, <2>2 DEF Enqueue, ClientPc
    <3>3. client' # client
      BY <2>1, <3>2
    <3> QED BY <1>1, <2>1, <3>1, <3>2, <3>3
  <2>3. CASE ~stopping
    <3> DEFINE q == Append(queue, c)
    <3>1. /\ client' = [client EXCEPT ![c] = "waiting"]
          /\ Dispatch(q, slot, request', TRUE)
      BY <1>3, <2>3 DEF Enqueue
    <3>2. PICK r : request' = [request EXCEPT ![c] = r]
      BY <1>3, <2>3 DEF Enqueue
    <3>3. \A d \in Clients : d # c => request'[d] = request[d] /\ client'[d] = client[d]
      BY <1>0, <3>1, <3>2 DEF Shape
    <3>4. client'[c] = "waiting"
      BY <1>0, <3>1
    <3>5. /\ q \in Seq(Clients) /\ NoTwice(q) /\ \A d : Has(q, d) <=> Has(queue, d) \/ d = c
          /\ ~Has(queue, c) /\ \A s \in Slots : slot[s].assigned # c /\ ~Runs(worker, s, c)
      BY <2>1, NewPlace DEF Placement
    <3> HIDE DEF q
    <3>6. slot \in SlotSet
      BY DEF Shape
    <3>7. Placed(q, slot, request')
      BY <3>1, <3>5, <3>6, DispatchPlaces
    <3>8. PlacesOK(q, slot, worker', client')
      <4>1. ASSUME NEW d \in Clients
            PROVE  client'[d] = "waiting" <=>
                     Has(q, d) \/ \E s \in Slots : slot[s].assigned = d \/ Runs(worker, s, d)
        <5>1. CASE d = c
          BY <3>4, <3>5, <5>1
        <5>2. CASE d # c
          BY <3>3, <3>5, <5>2 DEF Placement, PlaceInv, PlacesOK
        <5> QED BY <5>1, <5>2
      <4>2. PlacesOK(q, slot, worker, client')
        BY <3>5, <4>1 DEF Placement, PlaceInv, PlacesOK
      <4> QED BY <1>0, <4>2
    <3>9. SlotsOK(q, slot, worker', client', stopping)
      <4>1. \A d \in Clients : client[d] \in {"answered", "gone"} => client'[d] \in {"answered", "gone"}
        BY <2>1, <3>3
      <4>2. SlotsOK(q, slot, worker, client', stopping)
        BY <2>3, <4>1 DEF Placement, SlotInv, SlotsOK, Resting
      <4> QED BY <1>0, <4>2
    <3>10. LiveOK(slot, worker', client', request')
      <4>1. \A s \in Slots : slot[s].assigned # c /\ worker[s].job # c
        <5> SUFFICES ASSUME NEW s \in Slots PROVE worker[s].job # c
          BY <3>5
        <5>1. worker[s].job = c => worker[s].pc = "free"
          BY <3>5 DEF Runs
        <5>2. worker[s].pc = "free" => client[worker[s].job] \in {"answered", "gone"}
          BY DEF Placement, SlotInv, SlotsOK, Job
        <5> QED BY <2>1, <5>1, <5>2
      <4>2. LiveOK(slot, worker, client', request')
        BY <3>3, <4>1 DEF Placement, LiveInv, LiveOK
      <4> QED BY <1>0, <4>2
    <3> QED BY <1>0, <3>6, <3>7, <3>8, <3>9, <3>10, PlacementPlaced
  <2> QED BY <2>2, <2>3
<1>4. CASE Disconnect(c)
  <2>1. client[c] = "answered" /\ queue' = queue /\ slot' = slot
    BY <1>4 DEF Disconnect
  <2>2. /\ client' \in [Clients -> ClientPc] /\ client'[c] = "gone"
        /\ \A d \in Clients : d # c => client'[d] = client[d]
    BY <1>0, <1>4 DEF Disconnect, ClientPc
  <2>3. \A d \in Clients : d # c => request'[d] = request[d]
    BY <1>4 DEF Disconnect, Shape
  <2>4. client' # client
    BY <2>1, <2>2
  <2> QED BY <1>1, <2>1, <2>2, <2>3, <2>4
<1> QED BY <1>2, <1>3, <1>4 DEF ClientStep

(* Dispatch of the queue as it is, from the slots as they are.             *)
LEMMA PlacementDispatch ==
  ASSUME Shape, Placement, NEW announce, Dispatch(queue, slot, request, announce),
         client' = client, request' = request, worker' = worker, stopping => stopping'
  PROVE  Placement'
<1>1. queue \in Seq(Clients) /\ slot \in SlotSet /\ NoTwice(queue)
  BY DEF Shape, Placement, PlaceInv, PlacesOK
<1>2. Placed(queue, slot, request')
  BY <1>1, DispatchPlaces
<1>3. /\ PlacesOK(queue, slot, worker', client') /\ SlotsOK(queue, slot, worker', client', stopping)
      /\ LiveOK(slot, worker', client', request')
  BY DEF Placement, PlaceInv, SlotInv, LiveInv
<1> QED BY <1>1, <1>2, <1>3, PlacementPlaced

(* The worker takes the job it was assigned.                               *)
LEMMA PlacementIdle ==
  ASSUME Shape, WithinBounds, Placement, NEW s \in Slots, Idle(s)
  PROVE  Placement'
<1>0. /\ client' = client /\ request' = request /\ queue' = queue /\ stopping' = stopping
      /\ worker[s].pc = "idle" /\ worker[s].job = None
  BY DEF Idle, stopVars, Placement, SlotInv, SlotsOK, Resting
<1>1. CASE slot[s].assigned # None /\ Becomes(s, {"start"}) /\ worker'[s].job = slot[s].assigned
           /\ slot' = [slot EXCEPT ![s].assigned = None]
  <2>1. slot[s].assigned \in Clients
    BY <1>1 DEF Shape, SlotSet
  <2>2. /\ \A t \in Slots : t # s => slot'[t] = slot[t] /\ worker'[t] = worker[t]
        /\ slot'[s].assigned = None /\ slot'[s].busy = slot[s].busy
        /\ worker'[s].pc = "start"
    BY <1>1, SlotUpdated DEF Becomes, Shape, SlotSet
  <2>3. \A c \in Clients : /\ ~(slot'[s].assigned = c) /\ ~Runs(worker, s, c)
                           /\ Runs(worker', s, c) <=> slot[s].assigned = c
    BY <1>0, <1>1, <2>2, NoneAssumption DEF Runs
  <2>4. \A t \in Slots, c \in Clients : t # s => /\ slot'[t].assigned = c <=> slot[t].assigned = c
                                                 /\ Runs(worker', t, c) <=> Runs(worker, t, c)
    BY <2>2 DEF Runs
  <2>5. PlacesOK(queue, slot', worker', client)
    <3>1. PlacesOK(queue, slot, worker, client)
      BY DEF Placement, PlaceInv
    <3>2. ASSUME NEW c \in Clients
          PROVE  client[c] = "waiting" <=>
                   Has(queue, c) \/ \E t \in Slots : slot'[t].assigned = c \/ Runs(worker', t, c)
      BY <2>3, <2>4, <3>1 DEF PlacesOK
    <3>3. \A c \in Clients, t, u \in Slots : slot'[t].assigned = c /\ slot'[u].assigned = c => t = u
      BY <2>3, <2>4, <3>1 DEF PlacesOK
    <3>4. \A c \in Clients, t, u \in Slots : Runs(worker', t, c) /\ Runs(worker', u, c) => t = u
      BY <2>3, <2>4, <3>1 DEF PlacesOK
    <3>5. \A c \in Clients, t \in Slots : slot'[t].assigned = c \/ Runs(worker', t, c) => ~Has(queue, c)
      BY <2>3, <2>4, <3>1 DEF PlacesOK
    <3>6. \A c \in Clients, t, u \in Slots : ~(slot'[t].assigned = c /\ Runs(worker', u, c))
      BY <2>3, <2>4, <3>1 DEF PlacesOK
    <3> QED BY <3>1, <3>2, <3>3, <3>4, <3>5, <3>6 DEF PlacesOK
  <2>6. SlotsOK(queue, slot', worker', client, stopping)
    <3> SUFFICES ASSUME NEW t \in Slots
                 PROVE  /\ slot'[t].busy <=> slot'[t].assigned # None \/ worker'[t].pc \notin Resting
                        /\ worker'[t].pc \in Resting => worker'[t].job = None
                        /\ worker'[t].pc \notin Resting => worker'[t].job \in Clients /\ slot'[t].assigned = None
                        /\ worker'[t].pc = "free" => client[worker'[t].job] \in {"answered", "gone"}
                        /\ worker'[t].pc = "exited" => stopping /\ queue = <<>> /\ slot'[t].assigned = None
      BY DEF SlotsOK
    <3>1. SlotsOK(queue, slot, worker, client, stopping)
      BY DEF Placement, SlotInv
    <3>2. CASE t = s
      BY <1>1, <2>1, <2>2, <3>1, <3>2 DEF SlotsOK, Resting
    <3>3. CASE t # s
      BY <2>2, <3>1, <3>3 DEF SlotsOK
    <3> QED BY <3>2, <3>3
  <2>7. LiveOK(slot', worker', client, request)
    BY <1>1, <2>2, <2>3 DEF Placement, LiveInv, LiveOK
  <2>8. WorkConserving'
    BY <1>0, <2>2 DEF Placement, WorkConserving
  <2> QED BY <1>0, <2>5, <2>6, <2>7, <2>8 DEF Placement, PlaceInv, SlotInv, LiveInv
<1>2. CASE slot[s].assigned = None /\ slot' = slot /\ stopping /\ queue = <<>>
           /\ Becomes(s, {"exited"}) /\ worker'[s].job = Job(s)
  <2>1. /\ \A t \in Slots : worker'[t].job = worker[t].job
        /\ \A t \in Slots : t # s => worker'[t] = worker[t]
        /\ worker'[s].pc = "exited"
    BY <1>2 DEF Becomes, Job
  <2>2. \A t \in Slots : \A c : Runs(worker', t, c) <=> Runs(worker, t, c)
    BY <1>0, <2>1 DEF Runs
  <2>3. PlacesOK(queue, slot, worker', client)
    BY <2>2 DEF Placement, PlaceInv, PlacesOK
  <2>4. SlotsOK(queue, slot, worker', client, stopping)
    BY <1>0, <1>2, <2>1 DEF Placement, SlotInv, SlotsOK, Resting
  <2>5. LiveOK(slot, worker', client, request)
    BY <2>1 DEF Placement, LiveInv, LiveOK
  <2>6. WorkConserving'
    BY <1>0, <1>2 DEF Placement, WorkConserving
  <2> QED BY <1>0, <1>2, <2>3, <2>4, <2>5, <2>6 DEF Placement, PlaceInv, SlotInv, LiveInv
<1>3. CASE slot' = slot /\ worker' = worker
  BY <1>0, <1>3, PlacementSame
<1> QED BY <1>1, <1>2, <1>3, IdleWorks

(* The job is answered; its slot still counts as in use.                   *)
LEMMA PlacementDone ==
  ASSUME Shape, WithinBounds, Placement, NEW s \in Slots, JobDone(s)
  PROVE  Placement'
<1>0. /\ request' = request /\ queue' = queue /\ slot' = slot /\ stopping' = stopping
      /\ worker[s].pc = "done" /\ Becomes(s, {"free"}) /\ worker'[s].job = worker[s].job
      /\ client' = [client EXCEPT ![Job(s)] = "answered"]
  BY DoneWorks DEF JobDone, stopVars, Job
<1> DEFINE c == Job(s)
<1>1. c \in Clients /\ c = worker[s].job /\ Runs(worker, s, c) /\ slot[s].assigned = None
  BY <1>0 DEF Placement, SlotInv, SlotsOK, Resting, Runs, Job
<1> HIDE DEF c
<1>2. /\ client'[c] = "answered" /\ \A d \in Clients : d # c => client'[d] = client[d]
      /\ \A t \in Slots : t # s => worker'[t] = worker[t]
      /\ worker'[s].pc = "free" /\ \A t \in Slots : worker'[t].job = worker[t].job
  BY <1>0, <1>1 DEF Shape, Becomes, c
<1>3. PlacesOK(queue, slot, worker, client)
  BY DEF Placement, PlaceInv
<1>4. \A t \in Slots, d \in Clients : Runs(worker', t, d) <=> Runs(worker, t, d) /\ t # s
  BY <1>2 DEF Runs
<1>5. ASSUME NEW d \in Clients
      PROVE  client'[d] = "waiting" <=>
               Has(queue, d) \/ \E t \in Slots : slot[t].assigned = d \/ Runs(worker', t, d)
  <2>1. CASE d = c
    <3>1. ~Has(queue, c) /\ \A t \in Slots : slot[t].assigned # c /\ (Runs(worker, t, c) => t = s)
      BY <1>1, <1>3 DEF PlacesOK
    <3> QED BY <1>2, <1>4, <2>1, <3>1
  <2>2. CASE d # c
    <3>1. ~Runs(worker, s, d)
      BY <1>1, <2>2 DEF Runs
    <3> QED BY <1>2, <1>3, <1>4, <2>2, <3>1 DEF PlacesOK
  <2> QED BY <2>1, <2>2
<1>6. PlacesOK(queue, slot, worker', client')
  BY <1>3, <1>4, <1>5 DEF PlacesOK
<1>7. SlotsOK(queue, slot, worker', client', stopping)
  <2>1. SlotsOK(queue, slot, worker, client, stopping)
    BY DEF Placement, SlotInv
  <2>2. \A d \in Clients : client[d] \in {"answered", "gone"} => client'[d] \in {"answered", "gone"}
    BY <1>2
  <2> QED BY <1>0, <1>1, <1>2, <2>1, <2>2 DEF SlotsOK, Resting
<1>8. LiveOK(slot, worker', client', request)
  <2>1. \A d \in Clients : client'[d] = "waiting" => client[d] = "waiting"
    BY <1>2
  <2> QED BY <1>2, <2>1 DEF Placement, LiveInv, LiveOK
<1>9. WorkConserving'
  BY <1>0 DEF Placement, WorkConserving
<1> QED BY <1>0, <1>6, <1>7, <1>8, <1>9 DEF Placement, PlaceInv, SlotInv, LiveInv

(* The slot is free again, and the queue is dispatched at once.            *)
LEMMA PlacementFree ==
  ASSUME Shape, WithinBounds, Placement, NEW s \in Slots, Free(s)
  PROVE  Placement'
<1> DEFINE freed == [slot EXCEPT ![s].busy = FALSE]
<1>0. /\ client' = client /\ request' = request /\ stopping' = stopping
      /\ worker[s].pc = "free" /\ Becomes(s, {"idle"}) /\ worker'[s].job = None
      /\ Dispatch(queue, freed, request, FALSE)
  BY FreeWorks DEF Free, stopVars
<1>1. /\ freed \in SlotSet /\ freed[s].assigned = slot[s].assigned /\ ~freed[s].busy
      /\ \A t \in Slots : t # s => freed[t] = slot[t]
  BY SlotUpdated DEF Shape, SlotSet
<1> HIDE DEF freed
<1>2. slot[s].assigned = None
  BY <1>0 DEF Placement, SlotInv, SlotsOK, Resting
<1>3. /\ \A t \in Slots : t # s => worker'[t] = worker[t]
      /\ worker'[s].pc = "idle"
  BY <1>0 DEF Becomes
<1>4. \A t \in Slots, c \in Clients : /\ Runs(worker', t, c) <=> Runs(worker, t, c)
                                      /\ freed[t].assigned = c <=> slot[t].assigned = c
  BY <1>0, <1>1, <1>3, NoneAssumption DEF Runs
<1>5. PlacesOK(queue, freed, worker', client)
  BY <1>4 DEF Placement, PlaceInv, PlacesOK
<1>6. SlotsOK(queue, freed, worker', client, stopping)
  <2>1. SlotsOK(queue, slot, worker, client, stopping)
    BY DEF Placement, SlotInv
  <2> QED BY <1>0, <1>1, <1>2, <1>3, <2>1 DEF SlotsOK, Resting
<1>7. LiveOK(freed, worker', client, request)
  <2>1. \A t \in Slots, c \in Clients : worker'[t].job = c => worker[t].job = c
    BY <1>0, <1>3, NoneAssumption
  <2> QED BY <1>4, <2>1 DEF Placement, LiveInv, LiveOK
<1>8. queue \in Seq(Clients) /\ NoTwice(queue)
  BY DEF Shape, Placement, PlaceInv, PlacesOK
<1>9. Placed(queue, freed, request')
  BY <1>0, <1>1, <1>8, DispatchPlaces
<1> QED BY <1>0, <1>1, <1>5, <1>6, <1>7, <1>9, PlacementPlaced

LEMMA PlacementKept ==
  ASSUME Shape, WithinBounds, Placement, [Next]_vars
  PROVE  Placement'
<1>0. queue \in Seq(Clients)
  BY DEF Shape
<1>1. ASSUME NEW c \in Clients, Connect(c) \/ ClientStep(c) PROVE Placement'
  BY <1>1, PlacementClient
<1>2. ASSUME NEW s \in Slots, SlotStep(s) PROVE Placement'
  <2> DEFINE Rebound == \A c \in Clients : /\ request'[c].live = request[c].live
                                           /\ request'[c].bound \in {request[c].bound, None}
  <2>0. request' = request => Rebound
    OBVIOUS
  <2>1. CASE Idle(s)
    BY <2>1, PlacementIdle
  <2>2. CASE Start(s)
    BY <1>0, <2>2, StartWorks, PlacementFrame DEF Start, jobVars, stopVars, Open
  <2>3. CASE EnterPrefill(s) \/ AwaitedTurn(s)
    <3>1. PICK waiting, asleep : AwaitTurn(s, waiting, asleep) /\ worker[s].pc \in {"enter", "turn"}
      BY <2>3 DEF EnterPrefill, AwaitedTurn
    <3>2. Becomes(s, {"remember", "done", "prefill", "turn"}) /\ worker'[s].job = Job(s)
      BY <3>1, TurnWorks
    <3>3. /\ client' = client /\ request' = request /\ queue' = queue /\ slot' = slot
          /\ stopping' = stopping
      BY <3>1 DEF AwaitTurn, jobVars, stopVars
    <3> QED BY <1>0, <3>1, <3>2, <3>3, PlacementFrame DEF Open
  <2>5. CASE Prefill(s)
    BY <1>0, <2>5, PrefillWorks, PlacementFrame DEF Prefill, jobVars, Open
  <2>6. CASE ClearLive(s)
    <3>1. Rebound
      BY <2>6, Rebinds DEF ClearLive
    <3> HIDE DEF Rebound
    <3>2. /\ client' = client /\ queue' = queue /\ slot' = slot /\ stopping' = stopping
      BY <2>6 DEF ClearLive, stopVars
    <3> QED BY <1>0, <2>6, <3>1, <3>2, ClearWorks, PlacementFrame DEF Open, Rebound
  <2>7. CASE Generate(s)
    BY <1>0, <2>7, GenerateWorks, PlacementFrame DEF Generate, jobVars, stopVars, Open
  <2>8. CASE Ask(s)
    BY <1>0, <2>8, AskWorks, PlacementFrame DEF Ask, jobVars, stopVars, Open
  <2>9. CASE Eval(s)
    <3>1. /\ client' = client /\ request' = request /\ queue' = queue /\ slot' = slot
          /\ stopping' = stopping
      BY <2>9 DEF Eval, jobVars, stopVars
    <3> QED BY <1>0, <2>9, <3>1, EvalWorks, PlacementFrame, PlacementSame DEF Open
  <2>10. CASE EndGeneration(s)
    BY <1>0, <2>10, EndWorks, PlacementFrame DEF EndGeneration, jobVars, stopVars, Open
  <2>11. CASE Remember(s)
    <3>1. PICK holds \in {FALSE, worker[s].ok} : Rebind(s, holds)
      BY <2>11 DEF Remember
    <3>2. holds \in BOOLEAN
      BY DEF Shape, WorkerSet
    <3>3. Rebound
      BY <3>1, <3>2, Rebinds
    <3> HIDE DEF Rebound
    <3>4. /\ client' = client /\ queue' = queue /\ slot' = slot /\ stopping' = stopping
      BY <2>11 DEF Remember, stopVars
    <3> QED BY <1>0, <2>11, <3>3, <3>4, RememberWorks, PlacementFrame DEF Open, Rebound
  <2>12. CASE MarkFatal(s)
    <3>1. /\ worker[s].pc = "fatal" /\ Becomes(s, {"done", "fatalStop"}) /\ worker'[s].job = Job(s)
          /\ client' = client /\ request' = request
      BY <2>12, MarkFatalWorks DEF MarkFatal
    <3>2. CASE fatal
      BY <1>0, <2>12, <3>1, <3>2, PlacementFrame DEF MarkFatal, Open
    <3>3. CASE ~fatal
      <4>1. Dispatch(queue, slot, request, TRUE) /\ stopping'
        BY <2>12, <3>3 DEF MarkFatal
      <4>2. \A t \in Slots : /\ worker'[t].job = worker[t].job
                             /\ \A pc \in {"idle", "exited", "free"} : worker'[t].pc = pc <=> worker[t].pc = pc
        BY <3>1 DEF Becomes, Job
      <4>3. \A t \in Slots : \A c : Runs(worker', t, c) <=> Runs(worker, t, c)
        BY <4>2 DEF Runs
      <4>4. PlacesOK(queue, slot, worker', client')
        BY <3>1, <4>3 DEF Placement, PlaceInv, PlacesOK
      <4>5. SlotsOK(queue, slot, worker', client', stopping)
        BY <3>1, <4>2 DEF Placement, SlotInv, SlotsOK, Resting
      <4>6. LiveOK(slot, worker', client', request')
        BY <3>1, <4>2 DEF Placement, LiveInv, LiveOK
      <4>7. slot \in SlotSet /\ NoTwice(queue)
        BY DEF Shape, Placement, PlaceInv, PlacesOK
      <4>8. Placed(queue, slot, request')
        BY <1>0, <3>1, <4>1, <4>7, DispatchPlaces
      <4> QED BY <4>1, <4>4, <4>5, <4>6, <4>7, <4>8, PlacementPlaced
    <3> QED BY <3>2, <3>3
  <2>13. CASE FatalStop(s)
    BY <1>0, <2>13, FatalStopWorks, PlacementFrame DEF FatalStop, jobVars, Open
  <2>14. CASE JobDone(s)
    BY <2>14, PlacementDone
  <2>15. CASE Free(s)
    BY <2>15, PlacementFree
  <2> QED BY <1>2, <2>1, <2>2, <2>3, <2>5, <2>6, <2>7, <2>8, <2>9, <2>10, <2>11, <2>12,
             <2>13, <2>14, <2>15 DEF SlotStep
<1>3. CASE DecodeStep
  <2>1. worker' = worker /\ stopping' = stopping
    BY <1>3 DEF DecodeStep, DwWait, Collect, DwEval, stopVars
  <2>2. client' = client /\ request' = request /\ queue' = queue /\ slot' = slot
    BY <1>3 DEF DecodeStep, DwWait, Collect, DwEval, jobVars
  <2> QED BY <2>1, <2>2, PlacementSame
<1>4. CASE WorkerStop
  <2>1. /\ Dispatch(queue, slot, request, TRUE) /\ client' = client /\ request' = request
        /\ worker' = worker /\ stopping'
    BY <1>4 DEF WorkerStop
  <2> QED BY <2>1, PlacementDispatch
<1>5. CASE LeaveAccept \/ DecodeStop \/ JoinDecode \/ ClientsGone \/ Signal
  BY <1>5, PlacementSame DEF LeaveAccept, DecodeStop, JoinDecode, ClientsGone, Signal, jobVars, stopVars
<1>6. CASE UNCHANGED vars
  BY <1>6, PlacementSame DEF vars, jobVars, stopVars
<1> QED BY <1>1, <1>2, <1>3, <1>4, <1>5, <1>6 DEF Next, MainStep
-----------------------------------------------------------------------------
(* Shutdown.                                                               *)

LEMMA StopSame ==
  ASSUME StopInv, worker' = worker, main' = main, dw' = dw, model'.stopping = model.stopping,
         model'.pending = model.pending
  PROVE  StopInv'
BY DEF StopInv

(* A slot worker takes a step only before the joins are done.              *)
LEMMA StopSlot ==
  ASSUME Shape, StopInv, NEW s \in Slots, SlotStep(s)
  PROVE  StopInv'
<1>1. worker[s].pc # "exited"
  BY DEF SlotStep, Idle, Start, EnterPrefill, AwaitedTurn, Prefill, ClearLive, Generate, Ask, Eval,
         EndGeneration, Remember, MarkFatal, FatalStop, JobDone, Free
<1>2. main \notin {"joinDecode", "clients", "stopped"} /\ ~model.stopping /\ dw.pc # "exited"
  BY <1>1 DEF StopInv
<1>3. main' = main /\ dw' = dw
  BY DEF SlotStep, Idle, Start, EnterPrefill, AwaitedTurn, AwaitTurn, Prefill, ClearLive, Generate,
         Ask, Eval, EndGeneration, Remember, MarkFatal, FatalStop, JobDone, Free
<1>4. model'.stopping = model.stopping
  <2>1. CASE EnterPrefill(s) \/ AwaitedTurn(s)
    BY <2>1 DEF EnterPrefill, AwaitedTurn, AwaitTurn, Shape, ModelSet
  <2>2. CASE Prefill(s) \/ Generate(s) \/ Ask(s) \/ EndGeneration(s)
    BY <2>2 DEF Prefill, Generate, Ask, EndGeneration, Shape, ModelSet
  <2>3. CASE Idle(s) \/ Start(s) \/ ClearLive(s) \/ Eval(s) \/ Remember(s) \/ MarkFatal(s)
             \/ FatalStop(s) \/ JobDone(s) \/ Free(s)
    BY <2>3 DEF Idle, Start, ClearLive, Eval, Remember, MarkFatal, FatalStop, JobDone, Free, modelVars
  <2> QED BY <2>1, <2>2, <2>3 DEF SlotStep
<1> QED BY <1>2, <1>3, <1>4 DEF StopInv

LEMMA StopKept ==
  ASSUME Shape, StopInv, DecodeInv, [Next]_vars
  PROVE  StopInv'
<1>0. model.pending \in 0 .. NSlots
  BY CountersInRange
<1>1. ASSUME NEW c \in Clients, Connect(c) \/ ClientStep(c) PROVE StopInv'
  BY <1>1, StopSame DEF Connect, ClientStep, Enqueue, Disconnect, modelVars
<1>2. CASE DwWait
  <2>1. worker' = worker /\ main' = main /\ model' = model /\ dw.pc = "wait" /\ DwLoop(modelWait)
    BY <1>2 DEF DwWait
  <2>2. dw'.pc = "exited" => model.pending = 0 /\ model.stopping
    BY <1>0, <2>1 DEF DwLoop
  <2> QED BY <2>1, <2>2 DEF StopInv
<1>3. CASE Collect
  <2>1. worker' = worker /\ main' = main /\ dw.pc = "collect"
    BY <1>3 DEF Collect
  <2>2. CASE ExecutorFree
    <3>1. dw'.pc = "eval" /\ model'.stopping = model.stopping
      BY <1>3, <2>2, Collects
    <3> QED BY <2>1, <3>1 DEF StopInv
  <2>3. CASE ~ExecutorFree
    BY <1>3, <2>1, <2>3, StopSame DEF Collect
  <2> QED BY <2>2, <2>3
<1>4. CASE DwEval
  <2>1. worker' = worker /\ main' = main /\ dw.pc = "eval" /\ DwLoop({})
    BY <1>4 DEF DwEval
  <2>2. model'.pending = model.pending /\ model'.stopping = model.stopping
    BY <1>4, Evaluates
  <2>3. dw'.pc = "exited" => model.pending = 0 /\ model.stopping
    BY <1>0, <2>1 DEF DwLoop
  <2> QED BY <2>1, <2>2, <2>3 DEF StopInv
<1>5. CASE LeaveAccept \/ WorkerStop
  BY <1>5 DEF LeaveAccept, WorkerStop, modelVars, StopInv
<1>6. CASE DecodeStop
  <2>1. /\ model'.stopping /\ model'.pending = model.pending /\ main' = "joinDecode"
        /\ worker' = worker /\ dw' = dw /\ \A s \in Slots : worker[s].pc = "exited"
    BY <1>6 DEF DecodeStop, Shape, ModelSet
  <2> QED BY <2>1 DEF StopInv
<1>7. CASE JoinDecode \/ ClientsGone
  BY <1>7 DEF JoinDecode, ClientsGone, modelVars, StopInv
<1>8. CASE Signal
  BY <1>8, StopSame DEF Signal, modelVars
<1>9. CASE UNCHANGED vars
  BY <1>9, StopSame DEF vars, modelVars
<1> QED BY <1>1, <1>2, <1>3, <1>4, <1>5, <1>6, <1>7, <1>8, <1>9, StopSlot DEF Next, DecodeStep, MainStep

-----------------------------------------------------------------------------
(* The theorems.                                                           *)

LEMMA Initially == Init => IInv
<1> SUFFICES ASSUME Init PROVE IInv
  OBVIOUS
<1>0. Slots # {} /\ NSlots - 1 \in Slots
  BY SlotAssumption DEF Slots
<1>1. Shape
  <2>1. NoRequest \in RequestSet /\ NoJob \in WorkerSet
    BY NoJobTyped DEF NoRequest, RequestSet
  <2>2. request \in [Clients -> RequestSet] /\ worker \in [Slots -> WorkerSet]
    BY <2>1 DEF Init
  <2>3. slot \in SlotSet /\ decode \in [Slots -> DecodeSet]
    BY DEF Init, SlotSet, DecodeSet
  <2>4. client \in [Clients -> ClientPc] /\ main \in MainPc
    BY DEF Init, ClientPc, MainPc
  <2>5. model \in ModelSet /\ dw \in [pc : DwPc, members : SUBSET Slots]
    BY <1>0, SlotAssumption DEF Init, ModelSet, DwPc
  <2>6. {stop, stopping, tpFailed, fatal} \subseteq BOOLEAN /\ queue \in Seq(Clients) /\ cvWait \subseteq Slots
    <3>1. stop = FALSE /\ stopping = FALSE /\ tpFailed = FALSE /\ fatal = FALSE /\ queue = <<>> /\ cvWait = {}
      BY DEF Init
    <3>2. {stop, stopping, tpFailed, fatal} \subseteq BOOLEAN
      BY ONLY <3>1
    <3> QED BY ONLY <3>1, <3>2
  <2>7. /\ live \in [Slots -> BOOLEAN] /\ prefillWaiting \in [Slots -> BOOLEAN]
        /\ modelWait \subseteq Slots \cup {Decoder}
    BY DEF Init
  <2> QED BY <2>2, <2>3, <2>4, <2>5, <2>6, <2>7 DEF Shape
<1>2. \A s \in Slots : worker[s] = NoJob /\ slot[s].assigned = None /\ ~slot[s].busy
                       /\ ~decode[s].pending /\ ~decode[s].inFlight /\ ~decode[s].done
  BY DEF Init
<1>3. WithinBounds
  BY <1>2, NoJobTyped DEF WithinBounds
<1>4. ExecInv
  BY <1>2, NoJobTyped DEF ExecInv, Init
<1>5. DecodeInv
  <2>1. PendingSlots = {} /\ ActiveSlots = {} /\ InFlightSlots = {}
    BY <1>2, NoJobTyped DEF PendingSlots, ActiveSlots, InFlightSlots, Generating
  <2>2. model.pending = 0 /\ model.active = 0 /\ dw.members = {}
    BY DEF Init
  <2> QED BY <1>2, <2>1, <2>2, FS_EmptySet, DecodeInvParts, Counted DEF Exclusive
<1>6. SessionOwned
  BY <1>2 DEF SessionOwned
<1>7. TurnInv
  BY DEF TurnInv, Init
<1>8. PlaceInv
  <2>1. \A c : ~Has(queue, c)
    BY DEF Init, Has
  <2>2. \A s \in Slots, c \in Clients : slot[s].assigned # c /\ ~Runs(worker, s, c)
    BY <1>2, NoJobTyped, NoneAssumption DEF Runs
  <2>3. NoTwice(queue) /\ \A c \in Clients : client[c] # "waiting"
    BY DEF Init, NoTwice
  <2> QED BY <2>1, <2>2, <2>3 DEF PlaceInv, PlacesOK
<1>9. SlotInv
  BY <1>2, NoJobTyped DEF SlotInv, SlotsOK, Resting
<1>10. WorkConserving
  BY DEF WorkConserving, Init
<1>11. LiveInv
  BY <1>2, NoJobTyped, NoneAssumption DEF LiveInv, LiveOK
<1>12. StopInv
  BY DEF StopInv, Init
<1> QED BY <1>1, <1>3, <1>4, <1>5, <1>6, <1>7, <1>8, <1>9, <1>10, <1>11, <1>12 DEF IInv

(* IInv holds initially and survives every step: the inductive invariant   *)
(* of the scheduler, for any number of slots, connections, prefill quanta  *)
(* and tokens, whether or not the engine may fail or a signal may come.    *)
THEOREM Invariance == Spec => []IInv
<1>1. IInv /\ [Next]_vars => IInv'
  <2> SUFFICES ASSUME IInv, [Next]_vars PROVE IInv'
    OBVIOUS
  <2>1. Placement
    BY DEF IInv, Placement
  <2>2. Shape' /\ WithinBounds'
    BY TypesKept DEF IInv
  <2>3. ExecInv'
    BY ExecKept DEF IInv
  <2>4. DecodeInv' /\ SessionOwned'
    BY DecodeKept DEF IInv
  <2>5. TurnInv'
    BY TurnKept DEF IInv
  <2>6. Placement'
    BY <2>1, PlacementKept DEF IInv
  <2>7. StopInv'
    BY StopKept DEF IInv
  <2> QED BY <2>2, <2>3, <2>4, <2>5, <2>6, <2>7 DEF IInv, Placement
<1> QED BY <1>1, Initially, PTL DEF Spec

(* Every variable keeps its type; in particular the two shared counters    *)
(* never leave 0 .. slot_count.                                            *)
THEOREM TypeCorrect == Spec => []TypeOK
<1>1. IInv => TypeOK
  <2> SUFFICES ASSUME IInv PROVE TypeOK
    OBVIOUS
  <2>1. Shape /\ CountersAgree
    BY DEF IInv, DecodeInv
  <2>3. model.pending \in 0 .. NSlots /\ model.active \in 0 .. NSlots
    BY CountersInRange DEF IInv
  <2>4. model \in [busy : BOOLEAN, stopping : BOOLEAN, pending : 0 .. NSlots,
                   active : 0 .. NSlots, last : Slots]
    BY <2>1, <2>3 DEF Shape, ModelSet
  <2> QED BY <2>1, <2>4 DEF Shape, TypeOK, SlotSet, WorkerSet, RequestSet, DecodeSet
<1> QED BY <1>1, Invariance, PTL

(* One thread at a time uses the executor, and model_busy tells whether    *)
(* one does.                                                               *)
THEOREM ExecutorIsExclusive == Spec => []ExecutorExclusive
<1>1. IInv => ExecutorExclusive
  <2> SUFFICES ASSUME IInv PROVE ExecutorExclusive
    OBVIOUS
  <2>1. ExecInv
    BY DEF IInv
  <2>2. CASE Users = {}
    <3>1. Cardinality(Users) = 0
      BY <2>2, FS_EmptySet
    <3>2. ~model.busy
      BY <2>1, <2>2 DEF Users, ExecInv
    <3> QED BY <2>2, <3>1, <3>2 DEF ExecutorExclusive
  <2>3. CASE Users # {}
    <3>1. \E u : Users = {u}
      BY <2>1, <2>3 DEF Users, ExecInv
    <3>2. Cardinality(Users) = 1
      BY <3>1, FS_Singleton
    <3>3. model.busy
      BY <2>1, <2>3 DEF Users, ExecInv
    <3> QED BY <2>3, <3>2, <3>3 DEF ExecutorExclusive
  <2> QED BY <2>2, <2>3
<1> QED BY <1>1, Invariance, PTL

(* The shared counters count what they say.                                *)
THEOREM CountersAlwaysAgree == Spec => []CountersAgree
<1>1. IInv => CountersAgree
  BY DEF IInv, DecodeInv
<1> QED BY <1>1, Invariance, PTL

(* Until a stop is asked for, a slot whose decode is out waits for it.     *)
THEOREM SessionsOwned == Spec => []SessionOwned
<1>1. IInv => SessionOwned
  BY DEF IInv
<1> QED BY <1>1, Invariance, PTL

(* While a slot waits for its prefill turn no other slot takes two.        *)
THEOREM RoundRobinIsFair == Spec => []NobodyPassesTwice
<1>1. IInv => NobodyPassesTwice
  <2> SUFFICES ASSUME IInv, NEW s \in Slots, NEW t \in Slots PROVE passed[t][s] <= 1
    BY DEF NobodyPassesTwice
  <2>1. passed[t][s] \in {0, 1}
    BY DEF IInv, TurnInv
  <2> QED BY <2>1
<1> QED BY <1>1, Invariance, PTL

(* A job that waits is in one place, and in a place that may run it.       *)
THEOREM JobsStayPlaced == Spec => []JobsPlaced
<1>1. IInv => JobsPlaced
  <2> SUFFICES ASSUME IInv PROVE JobsPlaced
    OBVIOUS
  <2>1. PlacesOK(queue, slot, worker, client)
    BY DEF IInv, PlaceInv
  <2>2. ASSUME NEW c \in Clients
        PROVE  Cardinality(Places(c)) = IF client[c] = "waiting" THEN 1 ELSE 0
    <3> DEFINE Q == {<<"queue", i>> : i \in {i \in DOMAIN queue : queue[i] = c}}
               A == {<<"assigned", s>> : s \in {s \in Slots : slot[s].assigned = c}}
               R == {<<"running", s>> : s \in {s \in Slots : Job(s) = c /\ worker[s].pc # "free"}}
    <3>1. Places(c) = Q \cup A \cup R
      BY DEF Places
    <3>2. /\ Q # {} <=> Has(queue, c)
          /\ A # {} <=> \E s \in Slots : slot[s].assigned = c
          /\ R # {} <=> \E s \in Slots : Runs(worker, s, c)
      BY DEF Has, Runs, Job
    <3>3. \A x, y \in Q : x = y
      BY <2>1 DEF PlacesOK, NoTwice
    <3>4. \A x, y \in A : x = y
      BY <2>1 DEF PlacesOK
    <3>5. \A x, y \in R : x = y
      BY <2>1 DEF PlacesOK, Runs, Job
    <3> HIDE DEF Q, A, R
    <3>6. (Q # {} => A = {} /\ R = {}) /\ (A # {} => R = {})
      BY <2>1, <3>2 DEF PlacesOK
    <3>7. \A x, y \in Places(c) : x = y
      BY <3>1, <3>3, <3>4, <3>5, <3>6
    <3>8. client[c] = "waiting" <=> Places(c) # {}
      BY <2>1, <3>1, <3>2 DEF PlacesOK
    <3>9. CASE Places(c) = {}
      <4>1. Cardinality(Places(c)) = 0
        BY <3>9, FS_EmptySet
      <4> QED BY <3>8, <3>9, <4>1
    <3>10. CASE Places(c) # {}
      <4>1. \E x : Places(c) = {x}
        BY <3>7, <3>10
      <4>2. Cardinality(Places(c)) = 1
        BY <4>1, FS_Singleton
      <4> QED BY <3>8, <3>10, <4>2
    <3> QED BY <3>9, <3>10
  <2>3. LiveJobOnItsSlot
    BY DEF IInv, LiveInv, LiveOK, LiveJobOnItsSlot, Job
  <2> QED BY <2>2, <2>3 DEF JobsPlaced, JobInOnePlace
<1> QED BY <1>1, Invariance, PTL

(* No slot stays free while a job is queued that any slot could run.       *)
THEOREM NoSlotWastes == Spec => []WorkConserving
<1>1. IInv => WorkConserving
  BY DEF IInv
<1> QED BY <1>1, Invariance, PTL

(* A server that has joined its slot workers has answered every request,   *)
(* and one that has joined its decode worker has no decode left.           *)
THEOREM StopsDrained == Spec => []DrainedWhenStopped
<1>1. IInv => DrainedWhenStopped
  <2> SUFFICES ASSUME IInv, main \in {"joinDecode", "clients", "stopped"}
               PROVE  /\ queue = <<>> /\ \A c \in Clients : client[c] # "waiting"
                      /\ main # "joinDecode" => model.pending = 0 /\ ~model.busy
    BY DEF DrainedWhenStopped
  <2>1. \A s \in Slots : worker[s].pc = "exited"
    BY DEF IInv, StopInv
  <2>2. 0 \in Slots
    BY SlotAssumption DEF Slots
  <2>3. \A s \in Slots : queue = <<>> /\ slot[s].assigned = None /\ worker[s].job = None
    BY <2>1 DEF IInv, SlotInv, SlotsOK, Resting
  <2>4. queue = <<>> /\ \A c : ~Has(queue, c)
    BY <2>2, <2>3 DEF Has
  <2>5. ASSUME NEW c \in Clients PROVE client[c] # "waiting"
    BY <2>3, <2>4, NoneAssumption DEF IInv, PlaceInv, PlacesOK, Runs
  <2>6. main # "joinDecode" => model.pending = 0 /\ ~model.busy
    <3> SUFFICES ASSUME main # "joinDecode" PROVE model.pending = 0 /\ ~model.busy
      OBVIOUS
    <3>1. dw.pc = "exited"
      BY DEF IInv, StopInv
    <3> QED BY <2>1, <3>1 DEF IInv, StopInv, ExecInv
  <2> QED BY <2>4, <2>5, <2>6
<1> QED BY <1>1, Invariance, PTL
=============================================================================
