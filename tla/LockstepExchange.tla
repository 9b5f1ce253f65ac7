-------------------------- MODULE LockstepExchange --------------------------
(***************************************************************************)
(* What the gate transport promises the two engines (ds4_tp.h,             *)
(* ds4_tp_gate_exchange and its batch and big forms): the n-th operation   *)
(* of one rank is an exchange with the n-th operation of the other.  It    *)
(* returns success only once the peer is inside its own n-th operation or  *)
(* past it; a failure is final for the rank.                               *)
(***************************************************************************)
EXTENDS Integers, TLAPS

VARIABLES
  started,  \* [Rank -> Nat]: operations the rank has begun
  done,     \* [Rank -> Nat]: operations that returned success
  failed    \* [Rank -> BOOLEAN]: the transport is marked failed

vars == <<started, done, failed>>

Rank == {0, 1}
Peer(r) == 1 - r

Init ==
  /\ started = [r \in Rank |-> 0]
  /\ done = [r \in Rank |-> 0]
  /\ failed = [r \in Rank |-> FALSE]

Start(r) ==
  /\ ~failed[r] /\ started[r] = done[r]
  /\ started' = [started EXCEPT ![r] = @ + 1]
  /\ UNCHANGED <<done, failed>>

(* The peer's data can only have come from its matching operation.         *)
Finish(r) ==
  /\ ~failed[r] /\ done[r] < started[r]
  /\ started[Peer(r)] >= started[r]
  /\ done' = [done EXCEPT ![r] = @ + 1]
  /\ UNCHANGED <<started, failed>>

(* An operation that is refused at once begins and fails in one step.      *)
Fail(r) ==
  /\ ~failed[r]
  /\ \/ done[r] < started[r] /\ UNCHANGED started
     \/ started[r] = done[r] /\ started' = [started EXCEPT ![r] = @ + 1]
  /\ failed' = [failed EXCEPT ![r] = TRUE]
  /\ UNCHANGED done

Next == \E r \in Rank : Start(r) \/ Finish(r) \/ Fail(r)

Spec == Init /\ [][Next]_vars

-----------------------------------------------------------------------------
TypeOK ==
  /\ started \in [Rank -> Nat]
  /\ done \in [Rank -> Nat]
  /\ failed \in [Rank -> BOOLEAN]

(* The ranks are never more than one operation apart, and a rank that      *)
(* finished an operation knows its peer has begun it.                      *)
OneApart ==
  \A r \in Rank : /\ done[r] <= started[Peer(r)]
                  /\ started[r] <= started[Peer(r)] + 1

-----------------------------------------------------------------------------
(* A rank is inside at most one operation, and the peer of a rank that     *)
(* finished an operation has begun it.                                     *)
IInv ==
  /\ TypeOK
  /\ \A r \in Rank : /\ done[r] <= started[r] /\ started[r] <= done[r] + 1
                     /\ done[r] <= started[Peer(r)]

(* It holds before the first operation.                                    *)
LEMMA InvInit == Init => IInv
BY DEF Init, IInv, TypeOK, Rank, Peer

(* Beginning and finishing an operation keep it.                           *)
LEMMA InvNext == IInv /\ [Next]_vars => IInv'
<1> SUFFICES ASSUME IInv, [Next]_vars PROVE IInv'
  OBVIOUS
<1>1. CASE UNCHANGED vars
  BY <1>1 DEF IInv, TypeOK, vars, Rank, Peer
<1>2. ASSUME NEW r \in Rank, Start(r) PROVE IInv'
  BY <1>2 DEF IInv, TypeOK, Start, Rank, Peer
<1>3. ASSUME NEW r \in Rank, Finish(r) PROVE IInv'
  BY <1>3 DEF IInv, TypeOK, Finish, Rank, Peer
<1>4. ASSUME NEW r \in Rank, Fail(r) PROVE IInv'
  BY <1>4 DEF IInv, TypeOK, Fail, Rank, Peer
<1> QED
  BY <1>1, <1>2, <1>3, <1>4 DEF Next

(* Type correctness of the abstract exchange.                              *)
THEOREM ExchangeTyped == Spec => []TypeOK
<1>1. IInv => TypeOK
  BY DEF IInv
<1> QED
  BY InvInit, InvNext, <1>1, PTL DEF Spec

(* The ranks are never more than one operation apart, and a finished       *)
(* operation is one the peer has begun: the combine kernel never adds a    *)
(* vector of an operation the peer has not reached.                        *)
THEOREM RanksOneApart == Spec => []OneApart
<1>1. IInv => OneApart
  BY DEF IInv, OneApart, TypeOK, Rank, Peer
<1> QED
  BY InvInit, InvNext, <1>1, PTL DEF Spec
=============================================================================
