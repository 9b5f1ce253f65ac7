--------------------------- MODULE ServerScheduler ---------------------------
(***************************************************************************)
(* Request scheduling of ds4_server.c with resident-slot batching          *)
(* (batched_mode).                                                         *)
(*                                                                         *)
(*   main     accepts connections, then drains and joins                   *)
(*   clients  one thread per connection: queue a job, wait until it is done*)
(*   slots    slot_worker_main: run one job at a time on one session       *)
(*   decode   decode_worker_main: evaluates one token of several slots     *)
(*                                                                         *)
(* s->mu guards the job queue and the slots' assignment (cv); s->model_mu  *)
(* guards the executor: prefill turns and pending decodes (model_cv).      *)
(* Everything between a lock and its unlock or wait is one step.  A thread *)
(* asleep on a condition variable is in cvWait or modelWait; a broadcast   *)
(* empties the set, and a thread that has been woken checks its condition  *)
(* again in a step of its own.  g_stop_requested is guarded by no lock; it *)
(* only ever becomes true, and a read of it between two locks is joined to *)
(* the step before it.  inference_mu is held by whoever has the executor,  *)
(* or for bookkeeping that changes nothing here, and is left out, as are   *)
(* spurious wake-ups and the second signal, which ends the process.        *)
(***************************************************************************)
EXTENDS Integers, Sequences, FiniteSets

CONSTANTS
  NSlots,     (* slot_count: resident sessions                             *)
  Clients,    (* bound of the model: connections, one request each         *)
  MaxQuanta,  (* bound of the model: prefill quanta of a prompt            *)
  MaxTokens,  (* bound of the model: tokens of an answer                   *)
  MayFail,    (* the engine or the tensor-parallel transport fails         *)
  MayStop,    (* a signal asks the server to stop                          *)
  Decoder,    (* the decode worker, as a waiter                            *)
  None

ASSUME SlotAssumption == NSlots \in Nat \ {0}
ASSUME QuantaAssumption == MaxQuanta \in Nat \ {0} /\ MaxTokens \in Nat
ASSUME EnvironmentAssumption == MayFail \in BOOLEAN /\ MayStop \in BOOLEAN
ASSUME NoneAssumption == /\ None \notin 0 .. NSlots - 1 /\ None \notin Clients
                         /\ Decoder \notin 0 .. NSlots - 1

Slots == 0 .. NSlots - 1

VARIABLES
  stop,       \* g_stop_requested
  stopping,   \* s->stopping: the queue is closed
  tpFailed,   \* ds4_tp_failed: the transport is gone
  fatal,      \* s->fatal_tp_failure
  main,       \* where the main thread is
  client,     \* [Clients -> where the connection's thread is]
  request,    \* [Clients -> [live, bound]]
  live,       \* [Slots -> BOOLEAN]: the slot holds live tool state
  queue,      \* s->head .. s->tail
  slot,       \* [Slots -> [assigned, busy]]: under s->mu
  worker,     \* [Slots -> [pc, job, quanta, tokens, retried, ok]]: quanta and tokens so far
  cvWait,     \* slot workers asleep on s->cv
  model,      \* [busy, stopping, pending, active, last]: under s->model_mu
  prefillWaiting,  \* [Slots -> BOOLEAN]
  decode,     \* [Slots -> [pending, inFlight, done, ok]]
  modelWait,  \* threads asleep on s->model_cv
  dw,         \* decode worker: [pc, members]
  passed      \* history: [Slots -> [Slots -> Nat]]: turns others took while a slot waited

stopVars == <<stop, stopping, tpFailed, fatal>>
jobVars == <<client, request, live, queue, slot, cvWait>>
modelVars == <<model, prefillWaiting, decode, modelWait, passed>>
vars == <<stopVars, main, jobVars, worker, modelVars, dw>>

MainPc == {"accept", "stop", "joinSlots", "joinDecode", "clients", "stopped"}
ClientPc == {"none", "serving", "waiting", "answered", "gone"}
WorkerPc == {"idle", "start", "enter", "turn", "prefill", "clear", "generate", "ask", "eval",
             "endgen", "remember", "fatal", "fatalStop", "done", "free", "exited"}
DwPc == {"wait", "collect", "eval", "exited"}

NoRequest == [live |-> FALSE, bound |-> None]
NoJob == [pc |-> "idle", job |-> None, quanta |-> 0, tokens |-> 0, retried |-> FALSE, ok |-> TRUE]

Init ==
  /\ stop = FALSE /\ stopping = FALSE /\ tpFailed = FALSE /\ fatal = FALSE
  /\ main = "accept"
  /\ client = [c \in Clients |-> "none"]
  /\ request = [c \in Clients |-> NoRequest]
  /\ live = [s \in Slots |-> FALSE]
  /\ queue = <<>>
  /\ slot = [s \in Slots |-> [assigned |-> None, busy |-> FALSE]]
  /\ worker = [s \in Slots |-> NoJob]
  /\ cvWait = {}
  /\ model = [busy |-> FALSE, stopping |-> FALSE, pending |-> 0, active |-> 0, last |-> NSlots - 1]
  /\ prefillWaiting = [s \in Slots |-> FALSE]
  /\ decode = [s \in Slots |-> [pending |-> FALSE, inFlight |-> FALSE, done |-> FALSE, ok |-> FALSE]]
  /\ modelWait = {}
  /\ dw = [pc |-> "wait", members |-> {}]
  /\ passed = [s \in Slots |-> [t \in Slots |-> 0]]

-----------------------------------------------------------------------------
(* Dispatch.                                                               *)

(* job_required_slot_locked: the slot whose live tool state the request    *)
(* continues, while that slot still has it.                                *)
Required(r) == IF r.live THEN r.bound ELSE None

(* Mutated form of Eligible: the binding to live tool state is not looked at. *)
EligibleAnySlot(slots, r) ==
  {s \in Slots : ~slots[s].busy /\ slots[s].assigned = None}

Eligible(slots, r) ==
  {s \in Slots : /\ ~slots[s].busy /\ slots[s].assigned = None
                 /\ Required(r) \in {None, s}}

(* dispatch_jobs_locked: from the head, every job that can run is given    *)
(* the best eligible slot (the session with the longest common prefix,     *)
(* which may be any of them).  A job that cannot run now cannot run after  *)
(* a later one was placed, so one pass over the queue is the whole loop.   *)
Place(outcomes, c, requests) ==
  UNION {LET free == Eligible(o.slot, requests[c])
         IN IF free = {}
              THEN {[o EXCEPT !.queue = Append(@, c)]}
              ELSE {[o EXCEPT !.slot[s] = [assigned |-> c, busy |-> TRUE]] : s \in free}
         : o \in outcomes}
Outcomes(q, slots, requests) ==
  LET after[n \in 0 .. Len(q)] ==
        IF n = 0 THEN {[queue |-> <<>>, slot |-> slots]} ELSE Place(after[n - 1], q[n], requests)
  IN after[Len(q)]

(* A job that is placed is announced on s->cv; some callers always are.    *)
Dispatch(q, slots, requests, announce) ==
  \E o \in Outcomes(q, slots, requests) :
    /\ queue' = o.queue
    /\ slot' = o.slot
    /\ cvWait' = IF announce \/ o.slot # slots THEN {} ELSE cvWait

-----------------------------------------------------------------------------
(* Clients.                                                                *)

(* A connection is accepted and carries a request to generate; client_main *)
(* turns it away when the transport has failed.                            *)
Connect(c) ==
  /\ main = "accept" /\ ~stop
  /\ client[c] = "none"
  /\ client' = [client EXCEPT ![c] = IF tpFailed THEN "gone" ELSE "serving"]
  /\ UNCHANGED <<stopVars, main, request, live, queue, slot, cvWait, worker, modelVars, dw>>

(* enqueue: refused with a 503 once the queue is closed.  A request may    *)
(* continue a live tool state, of some slot or of one that has gone.       *)
Enqueue(c) ==
  /\ client[c] = "serving"
  /\ IF stopping
       THEN /\ client' = [client EXCEPT ![c] = "gone"]
            /\ UNCHANGED <<request, queue, slot, cvWait>>
       ELSE /\ client' = [client EXCEPT ![c] = "waiting"]
            /\ \E l \in BOOLEAN, b \in {None} \cup {s \in Slots : live[s]} :
                 /\ ~l => b = None
                 /\ request' = [request EXCEPT ![c] = [live |-> l, bound |-> b]]
            /\ Dispatch(Append(queue, c), slot, request', TRUE)
  /\ UNCHANGED <<stopVars, main, live, worker, modelVars, dw>>

(* The answer is written; the connection is closed (client_done).          *)
Disconnect(c) ==
  /\ client[c] = "answered"
  /\ client' = [client EXCEPT ![c] = "gone"]
  /\ request' = [request EXCEPT ![c] = NoRequest]
  /\ UNCHANGED <<stopVars, main, live, queue, slot, cvWait, worker, modelVars, dw>>

-----------------------------------------------------------------------------
(* slot_worker_main.                                                       *)

Goto(s, pc) == worker' = [worker EXCEPT ![s].pc = pc]
Job(s) == worker[s].job

(* Mutated form of Idle: the worker leaves although jobs are queued.       *)
IdleLeavesQueue(s) ==
  /\ worker[s].pc = "idle" /\ s \notin cvWait
  /\ IF slot[s].assigned # None
       THEN /\ worker' = [worker EXCEPT ![s].pc = "start", ![s].job = slot[s].assigned]
            /\ slot' = [slot EXCEPT ![s].assigned = None]
            /\ UNCHANGED cvWait
       ELSE /\ UNCHANGED slot
            /\ IF stopping
                 THEN Goto(s, "exited") /\ UNCHANGED cvWait
                 ELSE cvWait' = cvWait \cup {s} /\ UNCHANGED worker
  /\ UNCHANGED <<stopVars, main, client, request, live, queue, modelVars, dw>>

Idle(s) ==
  /\ worker[s].pc = "idle" /\ s \notin cvWait
  /\ IF slot[s].assigned # None
       THEN /\ worker' = [worker EXCEPT ![s].pc = "start", ![s].job = slot[s].assigned]
            /\ slot' = [slot EXCEPT ![s].assigned = None]
            /\ UNCHANGED cvWait
       ELSE /\ UNCHANGED slot
            /\ IF stopping /\ queue = <<>>
                 THEN Goto(s, "exited") /\ UNCHANGED cvWait
                 ELSE cvWait' = cvWait \cup {s} /\ UNCHANGED worker
  /\ UNCHANGED <<stopVars, main, client, request, live, queue, modelVars, dw>>

(* What a slot may do next: server_session_sync goes on to another quantum *)
(* of the prompt, the decode loop asks for another token, unless a stop    *)
(* was requested.                                                          *)
AfterError(s) == IF worker[s].retried THEN "remember" ELSE "done"
AfterQuantum(s, n) ==
  {"clear"} \cup (IF n = MaxQuanta THEN {} ELSE IF stop THEN {AfterError(s)} ELSE {"enter"})
AfterToken(n) == {"endgen"} \cup (IF stop \/ n = MaxTokens THEN {} ELSE {"ask"})

(* generate_job: 409 when the live state the request continues has gone,   *)
(* or the slot's session has moved on from it.                             *)
Start(s) ==
  /\ worker[s].pc = "start"
  /\ LET r == request[Job(s)]
     IN \/ (r.live \/ stop) /\ Goto(s, "done")
        \/ (r.live => r.bound = s) /\ ~stop /\ Goto(s, "enter")
  /\ UNCHANGED <<stopVars, main, jobVars, modelVars, dw>>

-----------------------------------------------------------------------------
(* Prefill turns.                                                          *)

(* Mutated form of NextPrefill: always from the first slot.                *)
NextPrefillFirst(waiting) ==
  IF \E s \in Slots : waiting[s]
    THEN CHOOSE s \in Slots : waiting[s] /\ \A t \in Slots : waiting[t] => s <= t ELSE None

(* server_next_prefill_slot_locked: round robin from the last turn.        *)
NextPrefill(waiting) ==
  LET After(n) == (model.last + n) % NSlots
      Ready == {n \in 1 .. NSlots : waiting[After(n)]}
  IN IF Ready = {} THEN None
     ELSE After(CHOOSE n \in Ready : \A k \in Ready : n <= k)

(* Mutated form of HasTurn: the executor may be in use.                    *)
HasTurnBusy(s, waiting) == model.pending = 0 /\ NextPrefill(waiting) = s

HasTurn(s, waiting) == ~model.busy /\ model.pending = 0 /\ NextPrefill(waiting) = s

(* The loop of server_prefill_enter, with the slot's flag set.  On a stop  *)
(* the slot leaves without waking anyone.                                  *)
AwaitTurn(s, waiting, asleep) ==
  /\ prefillWaiting' = [waiting EXCEPT ![s] = ~stop /\ ~HasTurn(s, waiting)]
  /\ IF stop
       THEN /\ worker' = [worker EXCEPT ![s].pc = AfterError(s), ![s].ok = FALSE]
            /\ modelWait' = asleep
            /\ passed' = [passed EXCEPT ![s] = [t \in Slots |-> 0]]
            /\ UNCHANGED model
       ELSE IF HasTurn(s, waiting)
       THEN /\ Goto(s, "prefill")
            /\ model' = [model EXCEPT !.busy = TRUE, !.last = s]
            /\ modelWait' = asleep
            /\ passed' = [t \in Slots |-> IF t = s THEN [u \in Slots |-> 0]
                                          ELSE IF waiting[t] THEN [passed[t] EXCEPT ![s] = @ + 1]
                                          ELSE passed[t]]
       ELSE /\ Goto(s, "turn")
            /\ modelWait' = asleep \cup {s}
            /\ UNCHANGED <<model, passed>>
  /\ UNCHANGED <<stopVars, main, jobVars, decode, dw>>

EnterPrefill(s) ==
  /\ worker[s].pc = "enter"
  /\ AwaitTurn(s, [prefillWaiting EXCEPT ![s] = TRUE], {})

AwaitedTurn(s) ==
  /\ worker[s].pc = "turn" /\ s \notin modelWait
  /\ AwaitTurn(s, prefillWaiting, modelWait)

(* What a call into the engine may return.                                 *)
Returns == {ok \in BOOLEAN : IF ok THEN ~tpFailed ELSE MayFail}

(* Mutated form of Prefill: nobody is woken when the executor is free.     *)
PrefillSilently(s) ==
  /\ worker[s].pc = "prefill"
  /\ \E ok \in Returns :
       LET n == worker[s].quanta + 1
       IN /\ \E pc \in IF ok THEN AfterQuantum(s, n) ELSE {AfterError(s)} :
               worker' = [worker EXCEPT ![s].pc = pc, ![s].quanta = n,
                                          ![s].ok = pc \in {"clear", "enter"}]
          /\ tpFailed' \in {tpFailed, tpFailed \/ ~ok}
  /\ model' = [model EXCEPT !.busy = FALSE]
  /\ UNCHANGED <<stop, stopping, fatal, main, jobVars, prefillWaiting, decode, modelWait, passed, dw>>

(* ds4_session_sync with the executor taken, server_prefill_leave, and     *)
(* what server_session_sync does with the result.                          *)
Prefill(s) ==
  /\ worker[s].pc = "prefill"
  /\ \E ok \in Returns :
       LET n == worker[s].quanta + 1
       IN /\ \E pc \in IF ok THEN AfterQuantum(s, n) ELSE {AfterError(s)} :
               worker' = [worker EXCEPT ![s].pc = pc, ![s].quanta = n,
                                          ![s].ok = pc \in {"clear", "enter"}]
          /\ tpFailed' \in {tpFailed, tpFailed \/ ~ok}
  /\ model' = [model EXCEPT !.busy = FALSE]
  /\ modelWait' = {}
  /\ UNCHANGED <<stop, stopping, fatal, main, jobVars, prefillWaiting, decode, passed, dw>>

-----------------------------------------------------------------------------
(* Generation.                                                             *)

(* The slot's live tool state, and with it what requests are bound to.     *)
Rebind(s, holds) ==
  /\ live' = [live EXCEPT ![s] = holds]
  /\ request' = [c \in Clients |-> IF request[c].bound = s THEN [request[c] EXCEPT !.bound = None]
                                                           ELSE request[c]]

(* A request that is no live continuation clears the slot's state; writing *)
(* the stream's header may fail.                                           *)
ClearLive(s) ==
  /\ worker[s].pc = "clear"
  /\ IF request[Job(s)].live \/ worker[s].retried THEN UNCHANGED <<live, request>>
                                                  ELSE Rebind(s, FALSE)
  /\ \E pc \in {"generate"} \cup (IF MayFail /\ ~worker[s].retried THEN {"done"} ELSE {}) :
       worker' = [worker EXCEPT ![s].pc = pc, ![s].quanta = 0]
  /\ UNCHANGED <<stopVars, main, client, queue, slot, cvWait, modelVars, dw>>

(* server_generation_enter.                                                *)
Generate(s) ==
  /\ worker[s].pc = "generate"
  /\ model' = [model EXCEPT !.active = @ + 1]
  /\ modelWait' = {}
  /\ \E pc \in AfterToken(worker[s].tokens) : Goto(s, pc)
  /\ UNCHANGED <<stopVars, main, jobVars, prefillWaiting, decode, passed, dw>>

(* server_eval_token: hand the token to the decode worker and wait; on a   *)
(* stop the call returns with the decode still pending or in flight.       *)
Ask(s) ==
  /\ worker[s].pc = "ask"
  /\ IF decode[s].pending \/ decode[s].inFlight
       THEN /\ worker' = [worker EXCEPT ![s].pc = "endgen", ![s].ok = FALSE]
            /\ UNCHANGED <<model, decode, modelWait>>
       ELSE /\ decode' = [decode EXCEPT ![s].pending = TRUE, ![s].done = FALSE, ![s].ok = FALSE]
            /\ model' = [model EXCEPT !.pending = @ + 1]
            /\ IF stop THEN /\ worker' = [worker EXCEPT ![s].pc = "endgen", ![s].ok = FALSE]
                            /\ modelWait' = {}
                       ELSE /\ Goto(s, "eval")
                            /\ modelWait' = {s}
  /\ UNCHANGED <<stopVars, main, jobVars, prefillWaiting, passed, dw>>

(* Mutated form of TokenDue: a waiter returns when it is woken.            *)
TokenDueWhenWoken(s) == TRUE

TokenDue(s) == decode[s].done \/ stop

Eval(s) ==
  /\ worker[s].pc = "eval" /\ s \notin modelWait
  /\ IF ~TokenDue(s)
       THEN modelWait' = modelWait \cup {s} /\ UNCHANGED <<decode, worker>>
       ELSE /\ decode' = [decode EXCEPT ![s].done = FALSE, ![s].ok = FALSE]
            /\ IF decode[s].done /\ decode[s].ok
                 THEN \E pc \in AfterToken(worker[s].tokens + 1) :
                        worker' = [worker EXCEPT ![s].pc = pc, ![s].tokens = @ + 1]
                 ELSE worker' = [worker EXCEPT ![s].pc = "endgen", ![s].ok = FALSE]
            /\ UNCHANGED modelWait
  /\ UNCHANGED <<stopVars, main, jobVars, model, prefillWaiting, passed, dw>>

(* server_generation_leave.  An answer with a broken tool call is continued*)
(* once, after the model has been told (decode_again).                     *)
EndGeneration(s) ==
  /\ worker[s].pc = "endgen"
  /\ model' = [model EXCEPT !.active = @ - 1]
  /\ modelWait' = {}
  /\ \/ Goto(s, "remember")
     \/ /\ worker[s].ok /\ ~stop /\ ~worker[s].retried
        /\ worker' = [worker EXCEPT ![s].pc = "enter", ![s].retried = TRUE,
                                    ![s].quanta = MaxQuanta - 1]
  /\ UNCHANGED <<stopVars, main, jobVars, prefillWaiting, decode, passed, dw>>

(* The slot remembers the tool calls of the answer, or nothing.            *)
Remember(s) ==
  /\ worker[s].pc = "remember"
  /\ \E holds \in {FALSE, worker[s].ok} : Rebind(s, holds)
  /\ Goto(s, IF tpFailed /\ ~fatal THEN "fatal" ELSE "done")
  /\ UNCHANGED <<stopVars, main, client, queue, slot, cvWait, modelVars, dw>>

(* server_mark_fatal_tp_failure, once: close the queue, then ask everyone  *)
(* to stop.                                                                *)
MarkFatal(s) ==
  /\ worker[s].pc = "fatal"
  /\ IF fatal
       THEN Goto(s, "done") /\ UNCHANGED <<fatal, stopping, queue, slot, cvWait>>
       ELSE /\ fatal' = TRUE /\ stopping' = TRUE
            /\ Dispatch(queue, slot, request, TRUE)
            /\ Goto(s, "fatalStop")
  /\ UNCHANGED <<stop, tpFailed, main, client, request, live, modelVars, dw>>

FatalStop(s) ==
  /\ worker[s].pc = "fatalStop"
  /\ stop' = TRUE
  /\ Goto(s, "done")
  /\ UNCHANGED <<stopping, tpFailed, fatal, main, jobVars, modelVars, dw>>

JobDone(s) ==
  /\ worker[s].pc = "done"
  /\ client' = [client EXCEPT ![Job(s)] = "answered"]
  /\ worker' = [worker EXCEPT ![s] = [NoJob EXCEPT !.pc = "free", !.job = Job(s)]]
  /\ UNCHANGED <<stopVars, main, request, live, queue, slot, cvWait, modelVars, dw>>

(* Mutated form of Free: the queue is not looked at again.                 *)
FreeWithoutDispatch(s) ==
  /\ worker[s].pc = "free"
  /\ worker' = [worker EXCEPT ![s] = NoJob]
  /\ slot' = [slot EXCEPT ![s].busy = FALSE]
  /\ UNCHANGED <<stopVars, main, client, request, live, queue, cvWait, modelVars, dw>>

Free(s) ==
  /\ worker[s].pc = "free"
  /\ worker' = [worker EXCEPT ![s] = NoJob]
  /\ Dispatch(queue, [slot EXCEPT ![s].busy = FALSE], request, FALSE)
  /\ UNCHANGED <<stopVars, main, client, request, live, modelVars, dw>>

-----------------------------------------------------------------------------
(* decode_worker_main.                                                     *)

(* The head of the loop, entered with asleep the other sleepers.  The wait *)
(* for more slots to join the batch may end at any time (its deadline), so *)
(* a decode that is pending may be collected from now on.                  *)
DwLoop(asleep) ==
  /\ dw' = [members |-> {}, pc |-> IF model.pending > 0 THEN "collect"
                                  ELSE IF model.stopping THEN "exited" ELSE "wait"]
  /\ modelWait' = IF model.pending = 0 /\ ~model.stopping THEN asleep \cup {Decoder} ELSE asleep

DwWait ==
  /\ dw.pc = "wait" /\ Decoder \notin modelWait
  /\ DwLoop(modelWait)
  /\ UNCHANGED <<stopVars, main, jobVars, worker, model, prefillWaiting, decode, passed>>

ExecutorFree == ~model.busy

(* Mutated forms of Collected: a batch counts as one decode, or as full.   *)
CollectedOne(members) == 1
CollectedFull(members) == NSlots

Collected(members) == Cardinality(members)

Collect ==
  /\ dw.pc = "collect" /\ Decoder \notin modelWait
  /\ IF ~ExecutorFree THEN modelWait' = modelWait \cup {Decoder} /\ UNCHANGED <<decode, model, dw>>
     ELSE LET members == {s \in Slots : decode[s].pending}
          IN /\ decode' = [s \in Slots |-> IF s \in members
                             THEN [decode[s] EXCEPT !.pending = FALSE, !.inFlight = TRUE] ELSE decode[s]]
             /\ model' = [model EXCEPT !.busy = TRUE, !.pending = @ - Collected(members)]
             /\ dw' = [pc |-> "eval", members |-> members]
             /\ UNCHANGED modelWait
  /\ UNCHANGED <<stopVars, main, jobVars, worker, prefillWaiting, passed>>

(* ds4_sessions_eval_batch, the results, and the loop's head again.        *)
DwEval ==
  /\ dw.pc = "eval"
  /\ \E ok \in Returns :
       /\ decode' = [s \in Slots |-> IF s \in dw.members
                       THEN [decode[s] EXCEPT !.inFlight = FALSE, !.done = TRUE, !.ok = ok]
                       ELSE decode[s]]
       /\ tpFailed' \in {tpFailed, tpFailed \/ ~ok}
  /\ model' = [model EXCEPT !.busy = FALSE]
  /\ DwLoop({})
  /\ UNCHANGED <<stop, stopping, fatal, main, jobVars, worker, prefillWaiting, passed>>

-----------------------------------------------------------------------------
(* The main thread and the signal handler.                                 *)

(* stop_signal_handler, the first time.                                    *)
Signal ==
  /\ MayStop /\ ~stop /\ main = "accept"
  /\ stop' = TRUE
  /\ UNCHANGED <<stopping, tpFailed, fatal, main, jobVars, worker, modelVars, dw>>

LeaveAccept ==
  /\ main = "accept" /\ stop
  /\ main' = "stop"
  /\ UNCHANGED <<stopVars, jobVars, worker, modelVars, dw>>

(* server_request_worker_stop.                                             *)
WorkerStop ==
  /\ main = "stop"
  /\ stopping' = TRUE
  /\ Dispatch(queue, slot, request, TRUE)
  /\ main' = "joinSlots"
  /\ UNCHANGED <<stop, tpFailed, fatal, client, request, live, worker, modelVars, dw>>

(* The joins of the slot workers, then server_request_decode_stop.         *)
DecodeStop ==
  /\ main = "joinSlots"
  /\ \A s \in Slots : worker[s].pc = "exited"
  /\ model' = [model EXCEPT !.stopping = TRUE]
  /\ modelWait' = {}
  /\ main' = "joinDecode"
  /\ UNCHANGED <<stopVars, jobVars, worker, prefillWaiting, decode, passed, dw>>

JoinDecode ==
  /\ main = "joinDecode" /\ dw.pc = "exited"
  /\ main' = "clients"
  /\ UNCHANGED <<stopVars, jobVars, worker, modelVars, dw>>

ClientsGone ==
  /\ main = "clients"
  /\ \A c \in Clients : client[c] \in {"none", "gone"}
  /\ main' = "stopped"
  /\ UNCHANGED <<stopVars, jobVars, worker, modelVars, dw>>

-----------------------------------------------------------------------------
ClientStep(c) == Enqueue(c) \/ Disconnect(c)

SlotStep(s) ==
  \/ Idle(s) \/ Start(s) \/ EnterPrefill(s) \/ AwaitedTurn(s) \/ Prefill(s)
  \/ ClearLive(s) \/ Generate(s) \/ Ask(s) \/ Eval(s) \/ EndGeneration(s)
  \/ Remember(s) \/ MarkFatal(s) \/ FatalStop(s) \/ JobDone(s) \/ Free(s)

DecodeStep == DwWait \/ Collect \/ DwEval

MainStep == LeaveAccept \/ WorkerStop \/ DecodeStop \/ JoinDecode \/ ClientsGone

Next ==
  \/ \E c \in Clients : Connect(c) \/ ClientStep(c)
  \/ \E s \in Slots : SlotStep(s)
  \/ DecodeStep \/ MainStep \/ Signal

Spec == Init /\ [][Next]_vars

(* Threads that can go on do; a call into the engine returns.              *)
Fairness ==
  /\ \A c \in Clients : WF_vars(ClientStep(c))
  /\ \A s \in Slots : WF_vars(SlotStep(s))
  /\ WF_vars(DecodeStep)
  /\ WF_vars(MainStep)

FairSpec == Spec /\ Fairness

-----------------------------------------------------------------------------
(* Properties.                                                             *)

TypeOK ==
  /\ {stop, stopping, tpFailed, fatal} \subseteq BOOLEAN
  /\ main \in MainPc
  /\ client \in [Clients -> ClientPc]
  /\ request \in [Clients -> [live : BOOLEAN, bound : Slots \cup {None}]]
  /\ live \in [Slots -> BOOLEAN]
  /\ queue \in Seq(Clients)
  /\ slot \in [Slots -> [assigned : Clients \cup {None}, busy : BOOLEAN]]
  /\ worker \in [Slots -> [pc : WorkerPc, job : Clients \cup {None}, quanta : 0 .. MaxQuanta,
                           tokens : 0 .. MaxTokens, retried : BOOLEAN, ok : BOOLEAN]]
  /\ cvWait \subseteq Slots
  /\ model \in [busy : BOOLEAN, stopping : BOOLEAN, pending : 0 .. NSlots,
                active : 0 .. NSlots, last : Slots]
  /\ prefillWaiting \in [Slots -> BOOLEAN]
  /\ decode \in [Slots -> [pending : BOOLEAN, inFlight : BOOLEAN, done : BOOLEAN, ok : BOOLEAN]]
  /\ modelWait \subseteq Slots \cup {Decoder}
  /\ dw \in [pc : DwPc, members : SUBSET Slots]

(* One thread at a time uses the executor, and model_busy says so.         *)
Users ==
  {s \in Slots : worker[s].pc = "prefill"}
    \cup (IF dw.pc = "eval" THEN {Decoder} ELSE {})
ExecutorExclusive ==
  /\ Cardinality(Users) <= 1
  /\ model.busy <=> Users # {}

(* The shared counters agree with the flags of the slots they count: a     *)
(* lost or doubled decode would leave prefills blocked, or a decode unseen.*)
CountersAgree ==
  /\ model.pending = Cardinality({s \in Slots : decode[s].pending})
  /\ model.active = Cardinality({s \in Slots : worker[s].pc \in {"ask", "eval", "endgen"}})
  /\ dw.members = {s \in Slots : decode[s].inFlight}

(* While a slot waits for its turn no other slot takes two.                *)
NobodyPassesTwice == \A s, t \in Slots : prefillWaiting[t] => passed[t][s] <= 1

(* Until a stop is requested, the decode worker evaluates a slot's session *)
(* only while the slot's own worker waits for the token.                   *)
SessionOwned ==
  \A s \in Slots : decode[s].pending \/ decode[s].inFlight => worker[s].pc = "eval" \/ stop

Places(c) ==
  {<<"queue", i>> : i \in {i \in DOMAIN queue : queue[i] = c}}
    \cup {<<"assigned", s>> : s \in {s \in Slots : slot[s].assigned = c}}
    \cup {<<"running", s>> : s \in {s \in Slots : Job(s) = c /\ worker[s].pc # "free"}}
JobInOnePlace ==
  \A c \in Clients : Cardinality(Places(c)) = IF client[c] = "waiting" THEN 1 ELSE 0

LiveJobOnItsSlot ==
  \A s \in Slots : \A c \in Clients \cap {slot[s].assigned, Job(s)} :
    client[c] = "waiting" => Required(request[c]) \in {None, s}

(* A job is in one place until it is answered: no slot is given a job over *)
(* another, and none is dropped; and a request that continues a slot's     *)
(* live tool state is given to no other slot while the state is there.     *)
JobsPlaced == JobInOnePlace /\ LiveJobOnItsSlot

(* No slot is left free while a job is queued that any slot could run.     *)
WorkConserving ==
  \A i \in DOMAIN queue : ~request[queue[i]].live => \A s \in Slots : slot[s].busy

(* The server stops only after every accepted request was answered and no  *)
(* decode is left behind.                                                  *)
DrainedWhenStopped ==
  main \in {"joinDecode", "clients", "stopped"} =>
    /\ queue = <<>> /\ \A c \in Clients : client[c] # "waiting"
    /\ main # "joinDecode" => model.pending = 0 /\ ~model.busy

(* Every accepted request is answered, unless the server is told to stop.  *)
EveryJobAnswered ==
  \A c \in Clients : client[c] = "waiting" ~> client[c] # "waiting" \/ stop

(* "shutdown requested, draining requests": a server that is told to stop  *)
(* stops.                                                                  *)
ShutdownEnds == stop ~> main = "stopped"
=============================================================================
