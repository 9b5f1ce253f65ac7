---------------------------- MODULE TpGateProofs ----------------------------
(***************************************************************************)
(* Theorems about the gate transport, for two engines that run the same    *)
(* program: the invariant of TpGateInvariant is kept by the decode         *)
(* operations, by the start of every operation and by the network, and     *)
(* with it ReceivesInStep, GateResultIntact and PayloadSent hold and the   *)
(* transport implements the lock-step exchange.                            *)
(***************************************************************************)
EXTENDS TpGateInvariant

-----------------------------------------------------------------------------
(* The decode operations.                                                  *)

(* While a rank runs a decode operation, its peer sends no rows of an      *)
(* operation that the rank has not ended.                                  *)
LEMMA DecodeSides ==
  ASSUME NEW P, NEW r \in Rank, NEW p, p = Peer(r), Inv(P), IsKind(r, Row \cup {"aux"})
  PROVE  /\ P[r].pc \notin Body \cup {"drainwait"} /\ ~IsKind(r, Bulk)
         /\ Level(r) \/ Ahead(p) => P[p].pc \notin Body \cup {"drainwait"}
         /\ Level(r) => P[p].pc \notin HeadPc
<1>1. p \in Rank /\ Peer(p) = r /\ SyncOf(P, p)
  BY Sides, InvOf
<1>2. IsKind(r, Row) \/ IsKind(r, {"aux"})
  BY KindPc
<1>3. P[r].pc \notin Body \cup {"drainwait"} /\ ~IsKind(r, Bulk)
  <2>1. P[r].pc \in RowPc \cup {"idle"} \/ P[r].pc \in {"auxwait", "idle"}
    BY <1>2, KindPc
  <2> QED BY <1>2, <2>1, KindPc DEF RowPc, Body
<1>4. ASSUME Level(r) PROVE P[p].pc \notin Body \cup {"drainwait"} /\ P[p].pc \notin HeadPc
  <2>1. ~Ahead(p)
    <3>1. n(r) \in Nat /\ n(p) \in Nat
      BY <1>1, InvOf, RankFacts
    <3>2. (Level(r) <=> n(r) = n(p)) /\ (Ahead(p) <=> n(p) = n(r) + 1)
      BY Sides
    <3> QED BY <1>4, <3>1, <3>2
  <2> QED BY <1>4, <2>1, DecodeRegime
<1>5. ASSUME Ahead(p) PROVE P[p].pc \notin Body \cup {"drainwait"}
  <2>1. WindowBefore(p)
    <3>1. n(r) > 0 /\ Current(r).kind \notin Bulk
      BY <1>3 DEF IsKind
    <3> QED BY <1>1, <1>5, <3>1, Sides
  <2> QED BY <1>1, <1>5, <2>1 DEF SyncOf
<1> QED BY <1>3, <1>4, <1>5

(* What every step within a gate leaves and keeps.                         *)
DecodeStepped(P, Q, r, p) ==
  /\ Q \in Progress /\ Q[r] = op'[r] /\ Q[p] = P[p] /\ P[r] = op[r]
  /\ p \in Rank /\ p # r /\ Peer(p) = r
  /\ Own(Q, p)' /\ ProgramOf(r)' /\ ProgramOf(p)' /\ SendOf(Q, p)' /\ AckOf(Q, p)' /\ RowOf(Q, p)'
  /\ PcOf(Q, r)' /\ HeaderOf(Q, r)' /\ HeaderOf(Q, p)'
  /\ IsKind(r, Row \cup {"aux"}) /\ ~IsKind(r, Bulk)
  /\ (op[r].pc \in RowPc => IsKind(r, Row) /\ ~IsKind(r, {"aux"}))
  /\ (op[r].pc = "auxwait" => IsKind(r, {"aux"}) /\ ~IsKind(r, Row))
  /\ n(r)' = n(r) /\ Current(r)' = Current(r)
  /\ (\A ks : IsKind(r, ks)' <=> IsKind(r, ks)) /\ n(p)' = n(p)
  /\ (Level(r)' <=> Level(r)) /\ (Ahead(r)' <=> Ahead(r))
  /\ (Level(p)' <=> Level(p)) /\ (Ahead(p)' <=> Ahead(p))
  /\ SentDecode(Q, p)' = SentDecode(P, p) /\ Delivered(Q, p)' = Delivered(P, p)
  /\ ~Filling(P, r) /\ ~Bulking(P, r) /\ ~Filling(P, p) /\ ~Bulking(P, p)
  /\ ~Filling(Q, r)' /\ ~Bulking(Q, r)' /\ ~Filling(Q, p)' /\ ~Bulking(Q, p)'
  /\ Awaited(P, r) = 0 /\ Awaited(Q, r)' = 0
  /\ P[r].pc \notin Body /\ P[r].pc \in DecodePc /\ Q[r].pc \notin Body /\ Q[r].pc \in DecodePc
  /\ Q[r].pc \notin HeadPc /\ Q[r].pc \notin {"drain", "drainwait"} \cup Body

(* A step within a decode operation, or the last of it: what does not      *)
(* depend on which one.                                                    *)
LEMMA DecodeStep ==
  ASSUME NEW P, NEW Q, NEW r \in Rank, NEW p, p = Peer(r), Inv(P), Typed', mode' = mode,
         op[r].pc \in RowPc \cup {"auxwait"}, op'[r].pc \in RowPc \cup {"auxwait", "idle"},
         op'[r].pc \in RowPc => op[r].pc \in RowPc, op'[r].pc = "auxwait" => op[r].pc = "auxwait",
         op'[r].pc = "wait" => op'[r].sd \in {0, 1},
         Q = [P EXCEPT ![r] = op'[r]], UNCHANGED <<plan, gates, hdr>>, Untouched(p),
         unacked'[p] = unacked[p], wire'[r] = wire[r], tp'[r].failed = tp[r].failed
  PROVE  DecodeStepped(P, Q, r, p)
<1>0. op[r].pc # "idle"
  BY DEF RowPc
<1>1. /\ Q \in Progress /\ Q[r] = op'[r] /\ Q[p] = P[p] /\ P[r] = op[r] /\ ~tp[r].failed
      /\ p \in Rank /\ p # r /\ Peer(p) = r
  <2>1. Turned(P, Q, r, p)
    BY <1>0, Turn
  <2> QED BY <2>1 DEF Turned
<1>2. /\ Own(Q, p)' /\ ProgramOf(r)' /\ ProgramOf(p)' /\ SendOf(Q, p)' /\ AckOf(Q, p)' /\ RowOf(Q, p)'
      /\ n(r)' = n(r) /\ Current(r)' = Current(r)
      /\ Seqno(r)' = Seqno(r) /\ Seqno(p)' = Seqno(p)
      /\ (\A ks : IsKind(r, ks)' <=> IsKind(r, ks)) /\ n(p)' = n(p)
      /\ (Level(r)' <=> Level(r)) /\ (Ahead(r)' <=> Ahead(r))
      /\ (Level(p)' <=> Level(p)) /\ (Ahead(p)' <=> Ahead(p))
      /\ SentDecode(Q, p)' = SentDecode(P, p) /\ Delivered(Q, p)' = Delivered(P, p)
  <2>1. Rested(P, Q, r, p)
    BY <1>1, Rest
  <2> QED BY <2>1 DEF Rested
<1>3. PcOf(P, r) /\ HeaderOf(P, r) /\ HeaderOf(P, p) /\ Typed /\ P \in Progress
  BY <1>1, InvOf
<1>4. /\ op[r].pc \in RowPc => IsKind(r, Row)
      /\ op[r].pc = "auxwait" => IsKind(r, {"aux"})
  BY <1>1, <1>3 DEF PcOf
<1>5. /\ IsKind(r, Row \cup {"aux"})
      /\ (op[r].pc \in RowPc => IsKind(r, Row) /\ ~IsKind(r, {"aux"}))
      /\ (op[r].pc = "auxwait" => IsKind(r, {"aux"}) /\ ~IsKind(r, Row))
  BY <1>4, KindPc
<1>6. /\ P[r].pc \notin Body \cup {"drainwait"} /\ ~IsKind(r, Bulk)
      /\ Level(r) \/ Ahead(p) => P[p].pc \notin Body \cup {"drainwait"}
  BY <1>5, DecodeSides
<1>7. /\ P[r].pc \notin Body /\ P[r].pc \in DecodePc /\ Q[r].pc \notin Body /\ Q[r].pc \in DecodePc
      /\ Q[r].pc \notin HeadPc /\ Q[r].pc \notin {"drain", "drainwait"} \cup Body
      /\ P[r].pc \notin {"drain", "drainwait"} \cup Body
  BY <1>1 DEF RowPc, DecodePc, HeadPc, Body
<1>8. PcOf(Q, r)'
  BY <1>1, <1>2, <1>4, <1>7 DEF PcOf
<1>9. HeaderOf(Q, r)'
  <2>1. hdr'[r] = hdr[r] /\ Seqno(p)' = Seqno(p) /\ (Q[p].pc = "announce" => P[p].pc = "announce")
    BY <1>1, <1>2
  <2> QED BY <1>3, <2>1, HeaderSame
<1>10. HeaderOf(Q, p)'
  <2>1. Q[r].pc # "announce"
    BY <1>7 DEF HeadPc
  <2> QED BY <1>1, <1>2, <1>3, <2>1, HeaderSame
<1>11. n(p) >= n(r) => Level(r) \/ Ahead(p)
  <2>1. n(r) \in Nat /\ n(p) \in Nat
    BY <1>1, <1>3, RankFacts
  <2>2. Level(r) \/ Ahead(r) \/ Ahead(p)
    BY Sides, Zenon
  <2>3. Ahead(r) => n(r) = n(p) + 1
    BY DEF Ahead
  <2> QED BY <2>1, <2>2, <2>3
<1>12. ~Filling(P, r) /\ ~Bulking(P, r) /\ ~Filling(P, p) /\ ~Bulking(P, p)
  BY <1>1, <1>6, <1>7, <1>11 DEF Filling, Bulking
<1>13. ~Filling(Q, r)' /\ ~Bulking(Q, r)' /\ ~Filling(Q, p)' /\ ~Bulking(Q, p)'
  BY <1>1, <1>2, <1>6, <1>7, <1>11 DEF Filling, Bulking
<1>14. Awaited(P, r) = 0 /\ Awaited(Q, r)' = 0
  <2>1. P[r].pc # "drainwait" /\ P[r].pc # "bulkwait" /\ Q[r].pc # "drainwait" /\ Q[r].pc # "bulkwait"
    BY <1>7 DEF Body
  <2> QED BY <2>1 DEF Awaited
<1> QED BY <1>1, <1>2, <1>5, <1>6, <1>7, <1>8, <1>9, <1>10, <1>12, <1>13, <1>14 DEF DecodeStepped

(* The window is opened.                                                   *)
LEMMA ArmInv ==
  ASSUME NEW P, NEW Q, NEW r \in Rank, NEW p, p = Peer(r), Inv(P), Typed', mode' = mode,
         Arm(r), Q = [P EXCEPT ![r] = op'[r]]
  PROVE  Inv(Q)'
<1> DEFINE ws == ReceivesOf(<<gates[r], gates[r] + Window - 1>>)
<1>1. /\ op[r].pc = "arm" /\ Post(r, ws) /\ tp' = [tp EXCEPT ![r].win = TRUE] /\ Goto(r, "send")
      /\ UNCHANGED <<plan, done, gates, hdr, wire, unacked, cq, inbuf>>
  BY DEF Arm
<1>2. /\ Typed /\ P \in Progress /\ PcOf(P, r) /\ GateOf(P, r) /\ WindowOf(P, r) /\ QueueOf(P, r)
      /\ RecvOf(P, r) /\ DataOf(P, r) /\ SendOf(P, r) /\ AckOf(P, r) /\ WireOf(P, r) /\ WireOf(P, p)
      /\ DoneOf(P, r) /\ MarkOf(P, r) /\ RowOf(P, r)
  BY Sides, InvOf
<1>3. op'[r].pc = "send" /\ op'[p] = op[p]
  BY <1>1, <1>2, GotoIs
<1>4. rq'[r] = rq[r] \o ws /\ rq'[p] = rq[p]
  BY <1>1, <1>2, PostIs
<1> HIDE DEF ws
<1>5. /\ tp'[p] = tp[p] /\ tp'[r].win = TRUE /\ tp'[r].last = tp[r].last /\ tp'[r].failed = tp[r].failed
      /\ tp'[r].recvDone = tp[r].recvDone /\ tp'[r].auxRecv = tp[r].auxRecv /\ tp'[r].auxSend = tp[r].auxSend
  <2>1. tp \in [Rank -> [win : BOOLEAN, last : Nat, recvDone : Nat, auxRecv : Nat, auxSend : Nat,
                          failed : BOOLEAN, closed : BOOLEAN]] /\ p \in Rank /\ p # r
    BY <1>2, TwoRanks DEF Typed, TpType
  <2>2. tp'[r] = [tp[r] EXCEPT !.win = TRUE] /\ tp'[p] = tp[p]
    BY <1>1, <2>1
  <2>3. tp[r] \in [win : BOOLEAN, last : Nat, recvDone : Nat, auxRecv : Nat, auxSend : Nat,
                   failed : BOOLEAN, closed : BOOLEAN]
    BY <2>1
  <2> QED BY <2>2, <2>3
<1>6. Untouched(p)
  BY <1>1, <1>3, <1>4, <1>5 DEF Untouched
<1>7. /\ op[r].pc \in RowPc /\ op'[r].pc \in RowPc /\ op'[r].pc # "wait" /\ op'[r].pc # "idle"
      /\ op[r].pc # "idle" /\ op[r].pc \notin Body /\ op'[r].pc \notin Body /\ op[r].pc # "auxwait"
      /\ op'[r].pc # "auxwait"
  BY <1>1, <1>3 DEF RowPc, Body
<1>8. /\ Q \in Progress /\ Q[r] = op'[r] /\ Q[p] = P[p] /\ P[r] = op[r]
      /\ p \in Rank /\ p # r /\ Peer(p) = r
      /\ Own(Q, p)' /\ ProgramOf(r)' /\ ProgramOf(p)' /\ SendOf(Q, p)' /\ AckOf(Q, p)' /\ RowOf(Q, p)'
      /\ PcOf(Q, r)' /\ HeaderOf(Q, r)' /\ HeaderOf(Q, p)'
      /\ ~IsKind(r, Bulk) /\ IsKind(r, Row) /\ ~IsKind(r, {"aux"})
      /\ n(r)' = n(r) /\ Current(r)' = Current(r)
      /\ (\A ks : IsKind(r, ks)' <=> IsKind(r, ks)) /\ n(p)' = n(p)
      /\ SentDecode(Q, p)' = SentDecode(P, p) /\ Delivered(Q, p)' = Delivered(P, p)
      /\ ~Filling(P, r) /\ ~Bulking(P, r) /\ ~Filling(P, p) /\ ~Bulking(P, p)
      /\ ~Filling(Q, r)' /\ ~Bulking(Q, r)' /\ ~Filling(Q, p)' /\ ~Bulking(Q, p)'
      /\ Awaited(P, r) = 0 /\ Awaited(Q, r)' = 0
      /\ P[r].pc \notin Body /\ P[r].pc \in DecodePc /\ Q[r].pc \notin Body /\ Q[r].pc \in DecodePc
      /\ Q[r].pc \notin HeadPc /\ Q[r].pc \notin {"drain", "drainwait"} \cup Body
  <2>1. DecodeStepped(P, Q, r, p)
    BY <1>1, <1>5, <1>6, <1>7, DecodeStep
  <2> QED BY <1>7, <2>1 DEF DecodeStepped
<1>9. ~tp[r].win /\ rq[r] = <<>> /\ Len(rq[r]) = 0 /\ gates[r] = tp[r].last + 1 /\ gates[r] >= 1
  <2>1. ~tp[r].win
    BY <1>1, <1>2, <1>8 DEF WindowOf
  <2>2. rq[r] = <<>>
    BY <1>2, <1>8, <2>1 DEF QueueOf
  <2>3. gates[r] = tp[r].last + 1
    BY <1>2, <1>7, <1>8 DEF GateOf
  <2> QED BY <1>2, <2>1, <2>2, <2>3, RankFacts
<1>10. /\ ws \in Seq(Message) /\ Stream(mode, ws, First(mode)[tp[r].last + 1], End(r)') /\ End(r)' \in Nat
       /\ First(mode)[tp[r].last + 1] \in Nat /\ Len(ws) \in Nat
  <2>1. /\ gates[r] \in 1 .. LastGate - 1 /\ gates[r] + Window - 1 \in 1 .. LastGate - 1
        /\ gates[r] <= gates[r] + Window - 1 /\ (gates[r] + Window - 1) + 1 = gates[r] + Window
    BY <1>2, <1>9, GateBefore
  <2>2. Vector(mode)
    BY <1>2, RankFacts
  <2>3. /\ ws \in Seq(Message)
        /\ Stream(mode, ws, First(mode)[gates[r]], First(mode)[(gates[r] + Window - 1) + 1])
    BY <2>1, <2>2, ReceivesStream DEF ws
  <2>4. End(r)' = First(mode)[tp[r].last + 1 + Window]
    BY <1>5 DEF End
  <2>5. gates[r] + Window = tp[r].last + 1 + Window
    BY <1>9
  <2>6. /\ First(mode)[tp[r].last + Window + 1] \in Nat /\ First(mode)[tp[r].last + 1] \in Nat
    BY <1>2, WindowFacts
  <2>7. tp[r].last + 1 + Window = tp[r].last + Window + 1
    BY <1>2, GateNumbers
  <2> QED BY <1>9, <2>1, <2>3, <2>4, <2>5, <2>6, <2>7
<1>11. rq'[r] = ws /\ Len(rq'[r]) = End(r)' - First(mode)[tp[r].last + 1]
  BY <1>4, <1>9, <1>10 DEF Stream
<1>12. /\ Delivered(P, r) = First(mode)[tp[r].last + 1] /\ Delivered(Q, r)' = Delivered(P, r)
       /\ Polled(Q, r)' = Polled(P, r) /\ SentDecode(Q, r)' = SentDecode(P, r) /\ SentDecode(P, r) \in Nat
  <2>1. Delivered(P, r) = First(mode)[tp[r].last + 1]
    BY <1>8, <1>9, DeliveredIs
  <2>2. Delivered(Q, r)' = End(r)' - Len(rq'[r])
    BY <1>8 DEF Delivered
  <2>3. Delivered(Q, r)' = First(mode)[tp[r].last + 1]
    BY <1>10, <1>11, <2>2
  <2>4. Polled(Q, r)' = Polled(P, r)
    BY <1>1, <1>5, <1>7, <1>8 DEF Polled
  <2>5. SentDecode(Q, r)' = SentDecode(P, r)
    BY <1>1, <1>3, <1>8 DEF SentDecode
  <2> QED BY <2>1, <2>3, <2>4, <2>5, SentBounds
<1>13. WindowOf(Q, r)'
  BY <1>3, <1>5, <1>8 DEF WindowOf
<1>14. GateOf(Q, r)'
  BY <1>1, <1>2, <1>5, <1>7, <1>8 DEF GateOf
<1>15. DoneOf(Q, r)'
  BY <1>1, <1>2, <1>7, <1>8 DEF DoneOf
<1>16. QueueOf(Q, r)'
  <2>1. End(r)' - Len(rq'[r]) = First(mode)[tp[r].last + 1]
    BY <1>10, <1>11
  <2> QED BY <1>5, <1>8, <1>10, <1>11, <2>1, mode' = mode DEF QueueOf
<1>17. RecvOf(Q, r)'
  BY <1>5, <1>8 DEF RecvOf
<1>18. MarkOf(Q, r)'
  BY <1>1, <1>2, <1>5, <1>8, <1>12 DEF MarkOf
<1>19. DataOf(Q, r)'
  BY <1>1, <1>2, <1>8, <1>12 DEF DataOf
<1>20. ~SentAll(P, r)
  BY <1>1, <1>8 DEF SentAll
<1>21. SyncOf(Q, p)'
  <2>1. Q[r].pc # "announce"
    BY <1>8 DEF HeadPc
  <2> QED BY <1>1, <1>8, <1>20, <2>1, SyncPeer
<1>22. SyncOf(Q, r)'
  BY <1>1, <1>4, <1>7, <1>8, SyncOwn
<1>23. SendOf(Q, r)'
  BY <1>1, <1>2, <1>8 DEF SendOf
<1>24. AckOf(Q, r)'
  BY <1>1, <1>2, <1>5, <1>7, <1>8, <1>12 DEF AckOf
<1>25. RowOf(Q, r)'
  BY <1>1, <1>2, <1>7, <1>8 DEF RowOf, LastSignals
<1>26. WireOf(Q, r)' /\ WireOf(Q, p)'
  <2>1. WireOf(Q, r)'
    BY <1>1, <1>2, <1>8, <1>12, WireFrame
  <2>2. WireOf(Q, p)'
    BY <1>1, <1>2, <1>8, <1>12, WireFrame
  <2> QED BY <2>1, <2>2
<1> QED BY <1>8, <1>13, <1>14, <1>15, <1>16, <1>17, <1>18, <1>19, <1>21, <1>22, <1>23, <1>24, <1>25, <1>26,
           Whole DEF Own, Shared

(* The messages of a gate are sent.                                        *)
LEMMA SendGateInv ==
  ASSUME NEW P, NEW Q, NEW r \in Rank, NEW p, p = Peer(r), Inv(P), Typed', mode' = mode,
         SendGate(r), Q = [P EXCEPT ![r] = op'[r]]
  PROVE  Inv(Q)'
<1> DEFINE sigs == IF Current(r).kind = "gate" THEN 1 .. mode.chunks ELSE {mode.chunks}
           ws == GateRow(gates[r], "gate", gates[r], sigs)
<1>1. /\ op[r].pc = "send" /\ Send(r, ws) /\ op' = [op EXCEPT ![r] = [@ EXCEPT !.pc = "wait", !.sd = 0]]
      /\ UNCHANGED <<plan, done, gates, tp, hdr, rq, unacked, cq, inbuf>>
  BY DEF SendGate
<1>2. /\ Typed /\ P \in Progress /\ PcOf(P, r) /\ GateOf(P, r) /\ WindowOf(P, r) /\ QueueOf(P, r)
      /\ RecvOf(P, r) /\ DataOf(P, r) /\ SendOf(P, r) /\ AckOf(P, r) /\ WireOf(P, r) /\ WireOf(P, p)
      /\ DoneOf(P, r) /\ MarkOf(P, r) /\ RowOf(P, r)
  BY Sides, InvOf
<1>3. op'[r].pc = "wait" /\ op'[r].sd = 0 /\ op'[p] = op[p]
  <2>1. op \in [Rank -> OpType] /\ p \in Rank /\ p # r
    BY <1>2, TwoRanks DEF Typed
  <2>2. op'[r] = [op[r] EXCEPT !.pc = "wait", !.sd = 0] /\ op'[p] = op[p] /\ op[r] \in OpType
    BY <1>1, <2>1
  <2> QED BY <2>2 DEF OpType
<1>4. wire'[p] = wire[p] \o ws /\ wire'[r] = wire[r]
  BY <1>1, <1>2, SendIs
<1>5. Untouched(p)
  BY <1>1, <1>3, <1>4 DEF Untouched
<1>6. /\ op[r].pc \in RowPc /\ op'[r].pc \in RowPc /\ op'[r].pc # "idle" /\ op'[r].pc # "arm" /\ op'[r].pc # "send"
      /\ op[r].pc # "idle" /\ op[r].pc \notin Body /\ op'[r].pc \notin Body /\ op[r].pc # "auxwait"
      /\ op'[r].pc # "auxwait"
  BY <1>1, <1>3 DEF RowPc, Body
<1>7. /\ Q \in Progress /\ Q[r] = op'[r] /\ Q[p] = P[p] /\ P[r] = op[r]
      /\ p \in Rank /\ p # r /\ Peer(p) = r
      /\ Own(Q, p)' /\ ProgramOf(r)' /\ ProgramOf(p)' /\ SendOf(Q, p)' /\ AckOf(Q, p)' /\ RowOf(Q, p)'
      /\ PcOf(Q, r)' /\ HeaderOf(Q, r)' /\ HeaderOf(Q, p)'
      /\ ~IsKind(r, Bulk) /\ IsKind(r, Row) /\ ~IsKind(r, {"aux"})
      /\ n(r)' = n(r) /\ Current(r)' = Current(r)
      /\ (\A ks : IsKind(r, ks)' <=> IsKind(r, ks)) /\ n(p)' = n(p)
      /\ SentDecode(Q, p)' = SentDecode(P, p) /\ Delivered(Q, p)' = Delivered(P, p)
      /\ ~Filling(P, r) /\ ~Bulking(P, r) /\ ~Filling(P, p) /\ ~Bulking(P, p)
      /\ ~Filling(Q, r)' /\ ~Bulking(Q, r)' /\ ~Filling(Q, p)' /\ ~Bulking(Q, p)'
      /\ Awaited(P, r) = 0 /\ Awaited(Q, r)' = 0
      /\ P[r].pc \notin Body /\ P[r].pc \in DecodePc /\ Q[r].pc \notin Body /\ Q[r].pc \in DecodePc
      /\ Q[r].pc \notin HeadPc /\ Q[r].pc \notin {"drain", "drainwait"} \cup Body
  <2>1. DecodeStepped(P, Q, r, p)
    BY <1>1, <1>3, <1>4, <1>5, <1>6, DecodeStep
  <2> QED BY <1>6, <2>1 DEF DecodeStepped
<1>8. /\ gates[r] \in 1 .. LastGate - 1 /\ Vector(mode) /\ mode.chunks \in Nat /\ First(mode)[gates[r]] \in Nat
  <2>1. gates[r] \in 1 .. LastGate - 1 /\ Vector(mode) /\ mode.chunks \in Nat
    BY <1>2, <1>7, SentBounds, RankFacts
  <2> QED BY <2>1, FirstNext
<1>9. /\ ws \in Seq(Message)
      /\ Stream(mode, ws, First(mode)[gates[r]], First(mode)[gates[r]] + mode.chunks)
      /\ \A i \in 1 .. mode.chunks : ws[i] = Msg("gate", gates[r], i, "gate", i \in sigs)
  BY <1>8, GateRowStream
<1>10. /\ Len(ws) = mode.chunks
       /\ \A i \in 1 .. Len(ws) : /\ ws[i].tag = "gate" /\ Unit(mode, ws[i])
                                  /\ Number(mode, ws[i]) = First(mode)[gates[r]] + i - 1
  <2>1. Len(ws) = (First(mode)[gates[r]] + mode.chunks) - First(mode)[gates[r]]
    <3> HIDE DEF ws
    <3> QED BY <1>9 DEF Stream
  <2>2. Len(ws) = mode.chunks
    BY <1>8, <2>1
  <2>3. \A i \in 1 .. Len(ws) : Unit(mode, ws[i]) /\ Number(mode, ws[i]) = First(mode)[gates[r]] + i - 1
    BY <1>9 DEF Stream
  <2>4. ASSUME NEW i \in 1 .. Len(ws) PROVE ws[i].tag = "gate"
    <3>1. ws[i] = Msg("gate", gates[r], i, "gate", i \in sigs)
      <4> HIDE DEF ws, sigs
      <4> QED BY <1>9, <2>2
    <3> HIDE DEF ws, sigs
    <3> QED BY <3>1, MsgTag
  <2> QED BY <2>2, <2>3, <2>4
<1>11. Current(r).kind # "gate" => \A i \in 1 .. Len(ws) : ws[i].sig => ws[i].part = mode.chunks
  <2>1. SUFFICES ASSUME Current(r).kind # "gate", NEW i \in 1 .. Len(ws), ws[i].sig PROVE ws[i].part = mode.chunks
    OBVIOUS
  <2>2. ws[i] = Msg("gate", gates[r], i, "gate", i \in sigs) /\ sigs = {mode.chunks}
    BY <1>9, <1>10, <2>1
  <2>3. ws[i].sig <=> i \in sigs
    <3> DEFINE g == i \in sigs
    <3> HIDE DEF ws, sigs, g
    <3>1. ws[i] = Msg("gate", gates[r], i, "gate", g)
      BY <2>2, Zenon DEF g
    <3>2. ws[i].sig = g
      BY <3>1, MsgTag
    <3> QED BY <3>2, Zenon DEF g
  <2>4. i = mode.chunks
    BY <2>1, <2>2, <2>3
  <2> QED BY <2>2, <2>4 DEF Msg
<1> HIDE DEF ws, sigs
<1>12. /\ SentDecode(P, r) = First(mode)[gates[r]] /\ SentDecode(Q, r)' = First(mode)[gates[r]] + mode.chunks
       /\ Delivered(Q, r)' = Delivered(P, r) /\ Polled(Q, r)' = Polled(P, r)
  <2>1. SentDecode(P, r) = First(mode)[gates[r]]
    BY <1>1, <1>7 DEF SentDecode
  <2>2. SentDecode(Q, r)' = First(mode)[gates[r]] + mode.chunks
    BY <1>1, <1>6, <1>7 DEF SentDecode
  <2>3. End(r)' = End(r)
    BY <1>1 DEF End
  <2>4. Delivered(Q, r)' = Delivered(P, r)
    BY <1>1, <1>7, <2>3 DEF Delivered
  <2>5. Polled(Q, r)' = Polled(P, r)
    BY <1>1, <1>6, <1>7 DEF Polled
  <2> QED BY <2>1, <2>2, <2>4, <2>5
<1>13. WindowOf(Q, r)'
  BY <1>1, <1>2, <1>3, <1>7 DEF WindowOf
<1>14. GateOf(Q, r)'
  BY <1>1, <1>2, <1>6, <1>7 DEF GateOf
<1>15. DoneOf(Q, r)'
  BY <1>1, <1>2, <1>6, <1>7 DEF DoneOf
<1>16. QueueOf(Q, r)'
  <2>1. End(r)' = End(r)
    BY <1>1 DEF End
  <2> QED BY <1>1, <1>2, <1>7, <2>1 DEF QueueOf
<1>17. RecvOf(Q, r)'
  BY <1>1, <1>2, <1>7 DEF RecvOf
<1>18. MarkOf(Q, r)'
  BY <1>1, <1>2, <1>7, <1>12 DEF MarkOf
<1>19. DataOf(Q, r)'
  BY <1>1, <1>2, <1>7, <1>12 DEF DataOf
<1>20. ~SentAll(P, r)
  BY <1>1, <1>7 DEF SentAll
<1>21. SyncOf(Q, p)'
  <2>1. Q[r].pc # "announce"
    BY <1>7 DEF HeadPc
  <2> QED BY <1>1, <1>7, <1>20, <2>1, SyncPeer
<1>22. SyncOf(Q, r)'
  BY <1>1, <1>6, <1>7, SyncOwn
<1>23. wire[p] \in Seq(Message) /\ Len(ws) \in Nat
  BY <1>2, <1>7, <1>9, RankFacts
<1>24. SendOf(Q, r)'
  <2>1. Count(ws, SignalsBulk) = 0
    <3>1. \A i \in 1 .. Len(ws) : ws[i] \notin SignalsBulk
      BY <1>10 DEF SignalsBulk
    <3> QED BY <1>23, <3>1, CountZero
  <2>2. Count(wire[p], SignalsBulk) \in Nat
    BY <1>2, <1>7, RankFacts, CountType
  <2>3. Count(wire'[p], SignalsBulk) = Count(wire[p], SignalsBulk)
    BY <1>4, <1>9, <1>23, <2>1, <2>2, CountConcat
  <2> QED BY <1>1, <1>2, <1>7, <2>3 DEF SendOf
<1>25. AckOf(Q, r)'
  <2>1. SentDecode(P, r) <= SentDecode(Q, r)' /\ SentDecode(Q, r)' \in Nat
    BY <1>8, <1>12
  <2>2. \A i \in 1 .. Len(ws) : Number(mode, ws[i]) \in Nat /\ SentDecode(P, r) <= Number(mode, ws[i])
    <3>1. \A i \in 1 .. Len(ws) : Number(mode, ws[i]) = First(mode)[gates[r]] + i - 1
      BY <1>10
    <3> QED BY <1>8, <1>12, <1>23, <3>1
  <2>3. Q[r].pc # "idle" /\ ~(Q[r].pc = "wait" /\ Q[r].sd = 1)
    BY <1>3, <1>7
  <2> QED BY <1>1, <1>4, <1>9, <2>1, <2>2, <2>3, AckMore
<1>26. RowOf(Q, r)'
  <2>1. SUFFICES ASSUME IsKind(r, {"rgate"}) PROVE RowOf(Q, r)'
    BY <1>7 DEF RowOf
  <2>2. Current(r).kind # "gate"
    BY <2>1 DEF IsKind
  <2>3. RowOf(P, r) /\ P[r].pc \in RowPc
    BY <1>2, <1>6, <1>7
  <2>4. ASSUME NEW i \in 1 .. Len(wire[p] \o ws), (wire[p] \o ws)[i].sig
        PROVE  LastSignals(r, (wire[p] \o ws)[i])
    <3>1. Len(wire[p] \o ws) = Len(wire[p]) + Len(ws) /\ Len(wire[p]) \in Nat
      BY <1>9, <1>23
    <3>2. CASE i <= Len(wire[p])
      <4>1. i \in 1 .. Len(wire[p]) /\ (wire[p] \o ws)[i] = wire[p][i]
        BY <1>9, <1>23, <3>1, <3>2
      <4> QED BY <2>1, <2>3, <2>4, <4>1 DEF RowOf
    <3>3. CASE i > Len(wire[p])
      <4>1. i - Len(wire[p]) \in 1 .. Len(ws) /\ (wire[p] \o ws)[i] = ws[i - Len(wire[p])]
        BY <1>9, <1>23, <3>1, <3>3
      <4> QED BY <1>11, <2>2, <2>4, <4>1 DEF LastSignals
    <3> QED BY <3>1, <3>2, <3>3
  <2>5. \A i \in 1 .. Len(wire'[p]) : wire'[p][i].sig => LastSignals(r, wire'[p][i])
    BY <1>4, <2>4
  <2>6. \A i \in 1 .. Len(unacked'[r]) : LastSignals(r, unacked'[r][i])
    BY <1>1, <2>1, <2>3 DEF RowOf
  <2>7. \A i \in 1 .. Len(cq'[r]) : cq'[r][i].dir = "send" => LastSignals(r, cq'[r][i])
    BY <1>1, <2>1, <2>3 DEF RowOf
  <2>8. \A u : LastSignals(r, u)' <=> LastSignals(r, u)
    BY <1>1, mode' = mode DEF LastSignals
  <2> QED BY <1>7, <2>5, <2>6, <2>7, <2>8 DEF RowOf, LastSignals
<1>27. WireOf(Q, r)'
  BY <1>1, <1>2, <1>4, <1>7, <1>12, WireFrame
<1>28. WireOf(Q, p)'
  <2>1. Stream(mode, wire[p], Delivered(P, p), First(mode)[gates[r]])
    BY <1>2, <1>7, <1>12 DEF WireOf
  <2>2. Delivered(P, p) \in Int /\ First(mode)[gates[r]] \in Int /\ First(mode)[gates[r]] + mode.chunks \in Int
    BY <1>7, <1>8, DeliveredIs
  <2>3. Stream(mode, wire[p] \o ws, Delivered(P, p), First(mode)[gates[r]] + mode.chunks)
    BY <1>9, <1>23, <2>1, <2>2, StreamConcat
  <2>4. Stream(mode, wire'[p], Delivered(Q, p)', SentDecode(Q, r)')
    BY <1>4, <1>7, <1>12, <2>3
  <2> QED BY <1>7, <2>4, mode' = mode DEF WireOf
<1> QED BY <1>7, <1>13, <1>14, <1>15, <1>16, <1>17, <1>18, <1>19, <1>21, <1>22, <1>24, <1>25, <1>26, <1>27,
           <1>28, Whole DEF Own, Shared

(* What a completion of a decode message tells a rank.                     *)
LEMMA WatermarkIs ==
  ASSUME Vector(mode), NEW t \in TpType, NEW e \in Completion, e.tag # "bulk" => Unit(mode, e),
         e.dir = "recv" => e.tag # "bulk"
  PROVE  LET w == Watermark(t, e)
         IN  /\ w.win = t.win /\ w.last = t.last /\ w.failed = t.failed
             /\ w.recvDone = t.recvDone
                  \/ (e.dir = "recv" /\ w.recvDone = e.id /\ e.id \in 1 .. LastGate - 1
                      /\ First(mode)[e.id] + mode.chunks = Number(mode, e) + 1)
             /\ w.auxRecv = t.auxRecv
                  \/ (e.dir = "recv" /\ w.auxRecv = e.id /\ e.id \in 1 .. LastGate - 1
                      /\ First(mode)[e.id + 1] = Number(mode, e) + 1)
             /\ w.auxSend = t.auxSend
                  \/ (e.dir = "send" /\ e.tag = "aux" /\ w.auxSend = e.id /\ e.id \in 1 .. LastGate - 1
                      /\ First(mode)[e.id + 1] = Number(mode, e) + 1)
<1>1. /\ t \in [win : BOOLEAN, last : Nat, recvDone : Nat, auxRecv : Nat, auxSend : Nat,
                failed : BOOLEAN, closed : BOOLEAN]
      /\ e.dir \in {"recv", "send"} /\ e.tag \in Tags
  BY DEF TpType, Completion
<1>2. e.tag # "bulk" =>
        /\ e.id \in 1 .. LastGate - 1 /\ First(mode)[e.id] \in Nat /\ mode.chunks \in Nat
        /\ e.tag = "gate" => Number(mode, e) = First(mode)[e.id] + e.part - 1
        /\ e.tag = "aux" => First(mode)[e.id + 1] = Number(mode, e) + 1
  <2>1. SUFFICES ASSUME e.tag # "bulk"
                 PROVE  /\ e.id \in 1 .. LastGate - 1 /\ First(mode)[e.id] \in Nat /\ mode.chunks \in Nat
                        /\ e.tag = "gate" => Number(mode, e) = First(mode)[e.id] + e.part - 1
                        /\ e.tag = "aux" => First(mode)[e.id + 1] = Number(mode, e) + 1
    OBVIOUS
  <2>2. Unit(mode, e)
    BY <2>1
  <2>3. e.id \in 1 .. LastGate - 1
    BY <2>2 DEF Unit
  <2>4. First(mode)[e.id] \in Nat /\ mode.chunks \in Nat
    BY <2>3, FirstNext DEF Vector
  <2> QED BY <2>2, <2>3, <2>4, NumberIn
<1>3. e.tag = "gate" /\ e.part = mode.chunks => First(mode)[e.id] + mode.chunks = Number(mode, e) + 1
  <2>1. ASSUME NEW x \in Nat, NEW c \in Nat, NEW y, y = x + c - 1 PROVE x + c = y + 1
    BY <2>1
  <2> QED BY <1>2, <2>1
<1>4. \A a, b : AtLeast(a, b) = a \/ AtLeast(a, b) = b
  BY DEF AtLeast
<1>5. CASE e.dir = "recv" /\ e.tag = "aux"
  <2>1. Watermark(t, e) = [t EXCEPT !.auxRecv = AtLeast(@, e.id)]
    BY <1>5 DEF Watermark
  <2> QED BY <1>1, <1>2, <1>4, <1>5, <2>1
<1>6. CASE e.dir = "recv" /\ e.tag # "aux" /\ e.part = mode.chunks
  <2>1. Watermark(t, e) = [t EXCEPT !.recvDone = AtLeast(@, e.id)]
    BY <1>6 DEF Watermark
  <2>2. e.tag = "gate"
    BY <1>1, <1>6 DEF Tags
  <2> QED BY <1>1, <1>2, <1>3, <1>4, <1>6, <2>1, <2>2
<1>7. CASE e.dir = "send" /\ e.tag = "aux"
  <2>1. Watermark(t, e) = [t EXCEPT !.auxSend = AtLeast(@, e.id)]
    BY <1>7 DEF Watermark
  <2> QED BY <1>1, <1>2, <1>4, <1>7, <2>1
<1>8. CASE /\ ~(e.dir = "recv" /\ e.tag = "aux") /\ ~(e.dir = "recv" /\ e.part = mode.chunks)
           /\ ~(e.dir = "send" /\ e.tag = "aux")
  <2>1. Watermark(t, e) = t
    BY <1>8 DEF Watermark
  <2> QED BY <2>1
<1> QED BY <1>1, <1>5, <1>6, <1>7, <1>8

(* A completion is polled inside a decode gate or its paired exchange.     *)
LEMMA PollGateInv ==
  ASSUME NEW P, NEW Q, NEW r \in Rank, NEW p, p = Peer(r), Inv(P), Typed', mode' = mode,
         PollGate(r), Q = [P EXCEPT ![r] = op'[r]]
  PROVE  Inv(Q)'
<1> DEFINE e == Head(cq[r])
           hit == e.dir = "send" /\ e.tag = "gate" /\ e.id = gates[r]
<1>1. /\ op[r].pc \in {"wait", "auxwait"} /\ Reap(r) /\ tp' = [tp EXCEPT ![r] = Watermark(@, e)]
      /\ op' = IF hit THEN [op EXCEPT ![r].sd = 1] ELSE op
      /\ UNCHANGED <<plan, done, gates, hdr, rq, wire, unacked, inbuf>>
  BY DEF PollGate
<1>2. /\ Typed /\ P \in Progress /\ PcOf(P, r) /\ GateOf(P, r) /\ WindowOf(P, r) /\ QueueOf(P, r)
      /\ RecvOf(P, r) /\ DataOf(P, r) /\ SendOf(P, r) /\ AckOf(P, r) /\ WireOf(P, r) /\ WireOf(P, p)
      /\ DoneOf(P, r) /\ MarkOf(P, r) /\ RowOf(P, r)
  BY Sides, InvOf
<1>3. /\ cq[r] # <<>> /\ cq[r] \in Seq(Completion) /\ cq'[r] = Tail(cq[r]) /\ cq'[p] = cq[p]
      /\ e \in Completion /\ e = cq[r][1] /\ 1 \in 1 .. Len(cq[r])
      /\ \A i \in 1 .. Len(Tail(cq[r])) : i + 1 \in 1 .. Len(cq[r]) /\ Tail(cq[r])[i] = cq[r][i + 1]
  BY <1>1, <1>2, ReapIs
<1> HIDE DEF e
<1>4. /\ op'[p] = op[p] /\ op'[r].pc = op[r].pc
      /\ (op'[r].sd = op[r].sd \/ (hit /\ op'[r].sd = 1))
  <2>1. op \in [Rank -> OpType] /\ p \in Rank /\ p # r
    BY <1>2, TwoRanks DEF Typed
  <2>2. op'[p] = op[p] /\ (op'[r] = op[r] \/ (hit /\ op'[r] = [op[r] EXCEPT !.sd = 1])) /\ op[r] \in OpType
    BY <1>1, <2>1
  <2> QED BY <2>2 DEF OpType
<1>5. tp'[p] = tp[p] /\ tp'[r] = Watermark(tp[r], e) /\ tp[r] \in TpType
  <2>1. tp \in [Rank -> TpType] /\ p \in Rank /\ p # r
    BY <1>2, TwoRanks DEF Typed
  <2> QED BY <1>1, <2>1
<1>6. Untouched(p)
  BY <1>1, <1>3, <1>4, <1>5 DEF Untouched
<1>7. /\ op[r].pc \in RowPc \cup {"auxwait"} /\ op'[r].pc \in RowPc \cup {"auxwait", "idle"}
      /\ (op'[r].pc \in RowPc => op[r].pc \in RowPc) /\ (op'[r].pc = "auxwait" => op[r].pc = "auxwait")
      /\ op'[r].pc # "arm" /\ op'[r].pc # "send" /\ op[r].pc # "idle" /\ op'[r].pc # "idle"
      /\ op[r].pc \notin Body /\ op'[r].pc \notin Body /\ op[r].pc # "arm" /\ op[r].pc # "send"
  BY <1>1, <1>4 DEF RowPc, Body
<1>8. P[r] = op[r] /\ p \in Rank /\ Peer(p) = r
  BY <1>2, <1>7, Sides DEF PcOf
<1>9. op'[r].pc = "wait" => op'[r].sd \in {0, 1}
  BY <1>2, <1>4, <1>8 DEF PcOf
<1>10. IsKind(r, Row \cup {"aux"})
  BY <1>1, <1>2, <1>8 DEF PcOf, RowPc, IsKind
<1>11. /\ P[r].pc \in DecodePc /\ Awaited(P, r) = 0
       /\ MarkOf(P, r)
  BY <1>1, <1>2, <1>8 DEF DecodePc, RowPc, Awaited
<1>12. ~(e.dir = "send" /\ e.tag = "bulk")
  BY <1>3, <1>11, NoBulk DEF SentBulk
<1>13. (e.dir = "recv" => Unit(mode, e)) /\ (e.dir = "send" => Unit(mode, e))
  BY <1>2, <1>3, <1>11, <1>12 DEF MarkOf, AckOf, Behind, AckSent, AckDone, AckAux, AckRow
<1>14. Unit(mode, e) /\ e.tag # "bulk" /\ Number(mode, e) \in Nat /\ Vector(mode)
  <2>1. Unit(mode, e) /\ Vector(mode)
    BY <1>2, <1>3, <1>13, RankFacts DEF Completion
  <2> QED BY <2>1, NumberIn DEF Unit
<1>15. /\ tp'[r].win = tp[r].win /\ tp'[r].last = tp[r].last /\ tp'[r].failed = tp[r].failed
       /\ tp'[r].recvDone = tp[r].recvDone
            \/ (e.dir = "recv" /\ tp'[r].recvDone = e.id /\ e.id \in 1 .. LastGate - 1
                /\ First(mode)[e.id] + mode.chunks = Number(mode, e) + 1)
       /\ tp'[r].auxRecv = tp[r].auxRecv
            \/ (e.dir = "recv" /\ tp'[r].auxRecv = e.id /\ e.id \in 1 .. LastGate - 1
                /\ First(mode)[e.id + 1] = Number(mode, e) + 1)
       /\ tp'[r].auxSend = tp[r].auxSend
            \/ (e.dir = "send" /\ e.tag = "aux" /\ tp'[r].auxSend = e.id /\ e.id \in 1 .. LastGate - 1
                /\ First(mode)[e.id + 1] = Number(mode, e) + 1)
  BY <1>3, <1>5, <1>14, WatermarkIs
<1>16. /\ Q \in Progress /\ Q[r] = op'[r] /\ Q[p] = P[p] /\ P[r] = op[r]
      /\ p \in Rank /\ p # r /\ Peer(p) = r
      /\ Own(Q, p)' /\ ProgramOf(r)' /\ ProgramOf(p)' /\ SendOf(Q, p)' /\ AckOf(Q, p)' /\ RowOf(Q, p)'
      /\ PcOf(Q, r)' /\ HeaderOf(Q, r)' /\ HeaderOf(Q, p)'
      /\ ~IsKind(r, Bulk)
      /\ n(r)' = n(r) /\ Current(r)' = Current(r)
      /\ (\A ks : IsKind(r, ks)' <=> IsKind(r, ks)) /\ n(p)' = n(p)
      /\ SentDecode(Q, p)' = SentDecode(P, p) /\ Delivered(Q, p)' = Delivered(P, p)
      /\ ~Filling(P, r) /\ ~Bulking(P, r) /\ ~Filling(P, p) /\ ~Bulking(P, p)
      /\ ~Filling(Q, r)' /\ ~Bulking(Q, r)' /\ ~Filling(Q, p)' /\ ~Bulking(Q, p)'
      /\ Awaited(P, r) = 0 /\ Awaited(Q, r)' = 0
      /\ P[r].pc \notin Body /\ P[r].pc \in DecodePc /\ Q[r].pc \notin Body /\ Q[r].pc \in DecodePc
      /\ Q[r].pc \notin HeadPc /\ Q[r].pc \notin {"drain", "drainwait"} \cup Body
  <2>1. DecodeStepped(P, Q, r, p)
    <3>1. /\ UNCHANGED <<plan, gates, hdr>> /\ unacked'[p] = unacked[p] /\ wire'[r] = wire[r]
          /\ tp'[r].failed = tp[r].failed
      BY <1>1, <1>15
    <3> QED BY <1>6, <1>7, <1>9, <3>1, DecodeStep
  <2> QED BY <2>1 DEF DecodeStepped
<1>17. /\ tp[r].win /\ tp'[r].win
  BY <1>1, <1>2, <1>15, <1>16 DEF WindowOf
<1>18. /\ Delivered(Q, r)' = Delivered(P, r) /\ Polled(Q, r)' = Polled(P, r)
       /\ SentDecode(Q, r)' = SentDecode(P, r) /\ End(r)' = End(r)
       /\ Delivered(P, r) \in Int /\ SentDecode(P, r) \in Nat
  <2>1. End(r)' = End(r)
    BY <1>1, <1>15 DEF End
  <2>2. Delivered(Q, r)' = Delivered(P, r)
    BY <1>1, <1>16, <2>1 DEF Delivered
  <2>3. Polled(Q, r)' = Polled(P, r)
    BY <1>1, <1>4, <1>15, <1>16 DEF Polled
  <2>4. SentDecode(Q, r)' = SentDecode(P, r)
    BY <1>1, <1>4, <1>16 DEF SentDecode
  <2> QED BY <2>1, <2>2, <2>3, <2>4, SentBounds, DeliveredIs
<1>19. WindowOf(Q, r)'
  BY <1>1, <1>4, <1>16, <1>17 DEF WindowOf, Body
<1>20. GateOf(Q, r)'
  <2>1. \A k \in 1 .. LastGate - 1 : k < LastGate
    BY LastGateNat
  <2>2. tp'[r].recvDone < LastGate /\ tp'[r].auxRecv < LastGate /\ tp'[r].auxSend < LastGate
    BY <1>2, <1>15, <2>1 DEF GateOf
  <2>3. /\ IF Q[r].pc \in RowPc THEN gates'[r] = tp'[r].last + 1 ELSE gates'[r] = tp'[r].last
    BY <1>1, <1>2, <1>4, <1>15, <1>16 DEF GateOf
  <2>4. /\ IsKind(r, Row)' => gates'[r] >= 1 /\ Current(r)'.at = SlotOf(gates'[r])
        /\ IsKind(r, {"aux"})' => /\ gates'[r] >= 1 /\ Current(r)'.at = SlotOf(gates'[r])
                           /\ Eligible(mode', gates'[r])
                           /\ n(r)' > 1 /\ plan'[r][n(r)' - 1].kind \in Row
    BY <1>1, <1>2, <1>16, mode' = mode DEF GateOf
  <2> QED BY <2>2, <2>3, <2>4 DEF GateOf
<1>21. DoneOf(Q, r)'
  BY <1>1, <1>2, <1>4, <1>16 DEF DoneOf
<1>22. QueueOf(Q, r)'
  BY <1>1, <1>2, <1>16, <1>17, <1>18, mode' = mode DEF QueueOf
<1>23. RecvOf(Q, r)'
  BY <1>16, <1>17 DEF RecvOf
<1>24. MarkOf(Q, r)'
  <2>1. \A i \in 1 .. Len(cq'[r]) : i + 1 \in 1 .. Len(cq[r]) /\ 1 < i + 1 /\ cq'[r][i] = cq[r][i + 1]
    BY <1>3
  <2>2. Polled(P, r) <= Delivered(P, r)
    BY <1>11 DEF MarkOf
  <2>3. e.dir = "recv" => Number(mode, e) + 1 <= Delivered(P, r)
    <3>1. e.dir = "recv" => Number(mode, e) < Delivered(P, r)
      BY <1>3, <1>11 DEF MarkOf
    <3> QED BY <1>14, <1>18, <3>1
  <2>4. tp'[r].recvDone >= 1 => First(mode)[tp'[r].recvDone] + mode.chunks <= Delivered(P, r)
    BY <1>11, <1>15, <2>3 DEF MarkOf
  <2>5. tp'[r].auxRecv >= 1 => First(mode)[tp'[r].auxRecv + 1] <= Delivered(P, r)
    BY <1>11, <1>15, <2>3 DEF MarkOf
  <2>6. ASSUME NEW i \in 1 .. Len(cq'[r]), cq'[r][i].dir = "recv"
        PROVE  /\ Unit(mode, cq'[r][i])
               /\ Number(mode, cq'[r][i]) < Delivered(P, r) /\ Polled(P, r) <= Number(mode, cq'[r][i])
               /\ tp'[r].recvDone >= 1 =>
                    First(mode)[tp'[r].recvDone] + mode.chunks <= Number(mode, cq'[r][i])
               /\ tp'[r].auxRecv >= 1 => First(mode)[tp'[r].auxRecv + 1] <= Number(mode, cq'[r][i])
    <3>1. i + 1 \in 1 .. Len(cq[r]) /\ 1 < i + 1 /\ cq'[r][i] = cq[r][i + 1]
      BY <2>1, <2>6
    <3>2. /\ Unit(mode, cq'[r][i])
          /\ Number(mode, cq'[r][i]) < Delivered(P, r) /\ Polled(P, r) <= Number(mode, cq'[r][i])
          /\ tp[r].recvDone >= 1 => First(mode)[tp[r].recvDone] + mode.chunks <= Number(mode, cq'[r][i])
          /\ tp[r].auxRecv >= 1 => First(mode)[tp[r].auxRecv + 1] <= Number(mode, cq'[r][i])
      BY <1>11, <2>6, <3>1 DEF MarkOf
    <3>3. e.dir = "recv" => Number(mode, e) < Number(mode, cq'[r][i])
      BY <1>3, <1>11, <2>6, <3>1 DEF MarkOf
    <3>4. Number(mode, cq'[r][i]) \in Nat
      BY <1>14, <3>2, NumberIn
    <3>5. e.dir = "recv" => Number(mode, e) + 1 <= Number(mode, cq'[r][i])
      BY <1>14, <3>3, <3>4
    <3> QED BY <1>15, <3>2, <3>5
  <2>7. ASSUME NEW i \in 1 .. Len(cq'[r]), NEW j \in 1 .. Len(cq'[r]), i < j,
               cq'[r][i].dir = "recv", cq'[r][j].dir = "recv"
        PROVE  Number(mode, cq'[r][i]) < Number(mode, cq'[r][j])
    <3>1. /\ i + 1 \in 1 .. Len(cq[r]) /\ cq'[r][i] = cq[r][i + 1]
          /\ j + 1 \in 1 .. Len(cq[r]) /\ cq'[r][j] = cq[r][j + 1] /\ i + 1 < j + 1
      BY <2>1, <2>7
    <3> QED BY <1>11, <2>7, <3>1 DEF MarkOf
  <2> QED BY <1>18, <2>2, <2>4, <2>5, <2>6, <2>7, mode' = mode DEF MarkOf
<1>25. DataOf(Q, r)'
  BY <1>1, <1>2, <1>16, <1>18, mode' = mode DEF DataOf
<1>26. SyncOf(Q, p)'
  <2>1. Q[r].pc # "announce" /\ Q[r].pc \notin HeadPc
    BY <1>16 DEF HeadPc
  <2>2. SentAll(Q, r)'
    BY <1>1, <1>4, <1>16 DEF SentAll
  <2> QED BY <1>1, <1>16, <2>1, <2>2, SyncPeer
<1>27. SyncOf(Q, r)'
  BY <1>1, <1>7, <1>16, SyncOwn
<1>28. SendOf(Q, r)'
  <2>1. /\ Count(wire[p], SignalsBulk) = 0 /\ Count(unacked[r], CarriesBulk) = 0
        /\ \A i \in 1 .. Len(cq[r]) : cq[r][i] \notin SentBulk
    BY <1>11, NoBulk
  <2>2. \A i \in 1 .. Len(cq'[r]) : cq'[r][i] \notin SentBulk
    BY <1>3, <2>1
  <2>3. cq'[r] \in Seq(Completion)
    BY <1>3
  <2>4. Count(cq'[r], SentBulk) = 0
    <3>1. Len(cq'[r]) \in Nat
      BY <2>3
    <3> QED BY <2>2, <2>3, <3>1, CountZero
  <2> QED BY <1>1, <1>16, <2>1, <2>4 DEF SendOf
<1>29. AckOf(Q, r)'
  <2>1. AckSent(mode, unacked[r], SentDecode(Q, r), wire[Peer(r)])'
    BY <1>1, <1>2, <1>18, mode' = mode DEF AckOf
  <2>2. \A i \in 1 .. Len(cq'[r]) : cq'[r][i].dir = "send" /\ cq'[r][i].tag # "bulk" =>
          /\ Unit(mode, cq'[r][i]) /\ Number(mode, cq'[r][i]) < SentDecode(Q, r)'
          /\ Before(mode, Number(mode, cq'[r][i]) + 1, wire'[p])
    BY <1>1, <1>2, <1>3, <1>18, mode' = mode DEF AckOf, Behind, AckSent, AckDone, AckAux, AckRow, Before
  <2>3. e.dir = "send" => Number(mode, e) + 1 <= SentDecode(P, r) /\ Before(mode, Number(mode, e) + 1, wire[p])
    <3>1. e.dir = "send" => Number(mode, e) < SentDecode(P, r) /\ Before(mode, Number(mode, e) + 1, wire[p])
      BY <1>2, <1>3, <1>14 DEF AckOf, Behind, AckSent, AckDone, AckAux, AckRow
    <3> QED BY <1>14, <1>18, <3>1
  <2>4. tp'[r].auxSend >= 1 => /\ First(mode)[tp'[r].auxSend + 1] <= SentDecode(P, r)
                               /\ Before(mode, First(mode)[tp'[r].auxSend + 1], wire[p])
    BY <1>2, <1>15, <2>3 DEF AckOf, Behind, AckSent, AckDone, AckAux, AckRow
  <2>8. AckDone(mode, cq[r], SentDecode(Q, r), wire[Peer(r)])'
    BY <2>2, mode' = mode DEF AckDone, Behind
  <2>9. AckAux(mode, tp[r].auxSend, SentDecode(Q, r), wire[Peer(r)])'
    <3>1. AckAux(mode, tp'[r].auxSend, SentDecode(P, r), wire[p])
      BY <2>4 DEF AckAux
    <3> QED BY <1>1, <1>18, <3>1, mode' = mode
  <2>10. AckOf(P, r) /\ Q[r].pc # "idle"
    BY <1>2, <1>7, <1>16
  <2>5. SUFFICES ASSUME IsKind(r, {"rgate"}), Q[r].pc = "wait", Q[r].sd = 1
                 PROVE  Before(mode, First(mode)[gates[r]] + mode.chunks, wire[p])
    <3>1. SUFFICES ASSUME IsKind(r, {"rgate"}), Q[r].pc = "wait", Q[r].sd = 1
                   PROVE  AckRow(mode, gates[r], wire[Peer(r)])'
      BY <1>16, <2>1, <2>8, <2>9, <2>10 DEF AckOf
    <3> QED BY <1>1, <3>1, mode' = mode DEF AckRow
  <2>6. CASE op[r].sd = 1
    BY <1>2, <1>4, <1>16, <2>5, <2>6 DEF AckOf, AckRow
  <2>7. CASE hit
    <3>1. LastSignals(r, e)
      BY <1>2, <1>3, <1>4, <1>16, <2>5, <2>7 DEF RowOf, RowPc
    <3>2. e.part = mode.chunks /\ e.tag = "gate" /\ e.id = gates[r] /\ e.dir = "send"
      BY <2>7, <3>1 DEF LastSignals
    <3>3. Number(mode, e) = First(mode)[gates[r]] + mode.chunks - 1
      BY <1>14, <3>2, NumberIn
    <3>4. gates[r] \in 1 .. LastGate - 1 /\ mode.chunks \in Nat
      BY <1>14, <3>2 DEF Unit, Vector
    <3>5. First(mode)[gates[r]] \in Nat
      BY <1>14, <3>4, FirstNext
    <3>6. Number(mode, e) + 1 = First(mode)[gates[r]] + mode.chunks
      BY <3>3, <3>4, <3>5
    <3> QED BY <2>3, <3>2, <3>6
  <2> QED BY <1>4, <1>16, <2>5, <2>6, <2>7
<1>30. RowOf(Q, r)'
  <2>1. SUFFICES ASSUME IsKind(r, {"rgate"}), Q[r].pc \in RowPc PROVE RowOf(Q, r)'
    BY <1>16 DEF RowOf
  <2>2. /\ \A i \in 1 .. Len(wire[p]) : wire[p][i].sig => LastSignals(r, wire[p][i])
        /\ \A i \in 1 .. Len(unacked[r]) : LastSignals(r, unacked[r][i])
        /\ \A i \in 1 .. Len(cq[r]) : cq[r][i].dir = "send" => LastSignals(r, cq[r][i])
    BY <1>2, <1>4, <1>16, <2>1 DEF RowOf
  <2>3. \A u : LastSignals(r, u)' <=> LastSignals(r, u)
    BY <1>1, mode' = mode DEF LastSignals
  <2>4. \A i \in 1 .. Len(cq'[r]) : cq'[r][i].dir = "send" => LastSignals(r, cq'[r][i])
    BY <1>3, <2>2
  <2> QED BY <1>1, <2>2, <2>3, <2>4 DEF RowOf, LastSignals
<1>31. WireOf(Q, r)' /\ WireOf(Q, p)'
  <2>1. WireOf(Q, r)'
    BY <1>1, <1>2, <1>16, <1>18, WireFrame
  <2>2. WireOf(Q, p)'
    BY <1>1, <1>2, <1>16, <1>18, WireFrame
  <2> QED BY <2>1, <2>2
<1> QED BY <1>16, <1>19, <1>20, <1>21, <1>22, <1>23, <1>24, <1>25, <1>26, <1>27, <1>28, <1>29, <1>30, <1>31,
           Whole DEF Own, Shared

(* A gate has arrived: its operation returns, with one more gate received  *)
(* ahead.                                                                  *)
LEMMA FinishGateInv ==
  ASSUME NEW P, NEW Q, NEW r \in Rank, NEW p, p = Peer(r), Inv(P), Typed', mode' = mode,
         FinishGate(r), Q = [P EXCEPT ![r] = op'[r]]
  PROVE  Inv(Q)'
<1> DEFINE ws == GateReceives(gates[r] + Window)
           g == gates[r]
<1>1. /\ op[r].pc = "wait" /\ tp[r].recvDone >= g /\ PayloadFree(r) /\ Post(r, ws)
      /\ tp' = [tp EXCEPT ![r].last = gates[r]] /\ Return(r)
      /\ UNCHANGED <<plan, gates, hdr, wire, unacked, cq, inbuf>>
  BY DEF FinishGate, Arrived
<1>2. /\ Typed /\ P \in Progress /\ PcOf(P, r) /\ GateOf(P, r) /\ WindowOf(P, r) /\ QueueOf(P, r)
      /\ RecvOf(P, r) /\ DataOf(P, r) /\ SendOf(P, r) /\ AckOf(P, r) /\ WireOf(P, r) /\ WireOf(P, p)
      /\ DoneOf(P, r) /\ MarkOf(P, r) /\ RowOf(P, r)
  BY Sides, InvOf
<1>3. op'[r].pc = "idle" /\ op'[p] = op[p] /\ done'[r] = done[r] + 1 /\ done'[p] = done[p]
  BY <1>1, <1>2, ReturnIs
<1>4. rq'[r] = rq[r] \o ws /\ rq'[p] = rq[p]
  BY <1>1, <1>2, PostIs
<1> HIDE DEF ws
<1>5. /\ tp'[p] = tp[p] /\ tp'[r].win = tp[r].win /\ tp'[r].last = g /\ tp'[r].failed = tp[r].failed
      /\ tp'[r].recvDone = tp[r].recvDone /\ tp'[r].auxRecv = tp[r].auxRecv /\ tp'[r].auxSend = tp[r].auxSend
  <2>1. tp \in [Rank -> [win : BOOLEAN, last : Nat, recvDone : Nat, auxRecv : Nat, auxSend : Nat,
                          failed : BOOLEAN, closed : BOOLEAN]] /\ p \in Rank /\ p # r
    BY <1>2, TwoRanks DEF Typed, TpType
  <2>2. tp'[r] = [tp[r] EXCEPT !.last = gates[r]] /\ tp'[p] = tp[p]
    BY <1>1, <2>1
  <2>3. tp[r] \in [win : BOOLEAN, last : Nat, recvDone : Nat, auxRecv : Nat, auxSend : Nat,
                   failed : BOOLEAN, closed : BOOLEAN]
    BY <2>1
  <2> QED BY <2>2, <2>3
<1>6. Untouched(p)
  BY <1>1, <1>3, <1>4, <1>5 DEF Untouched
<1>7. /\ op[r].pc \in RowPc /\ op'[r].pc \notin RowPc /\ op'[r].pc # "auxwait" /\ op'[r].pc # "wait"
      /\ op[r].pc # "idle" /\ op[r].pc \notin Body /\ op'[r].pc \notin Body /\ op[r].pc # "auxwait"
  BY <1>1, <1>3 DEF RowPc, Body
<1>8. /\ Q \in Progress /\ Q[r] = op'[r] /\ Q[p] = P[p] /\ P[r] = op[r]
      /\ p \in Rank /\ p # r /\ Peer(p) = r
      /\ Own(Q, p)' /\ ProgramOf(r)' /\ ProgramOf(p)' /\ SendOf(Q, p)' /\ AckOf(Q, p)' /\ RowOf(Q, p)'
      /\ PcOf(Q, r)' /\ HeaderOf(Q, r)' /\ HeaderOf(Q, p)'
      /\ IsKind(r, Row \cup {"aux"}) /\ ~IsKind(r, Bulk) /\ IsKind(r, Row) /\ ~IsKind(r, {"aux"})
      /\ n(r)' = n(r) /\ Current(r)' = Current(r)
      /\ (\A ks : IsKind(r, ks)' <=> IsKind(r, ks)) /\ n(p)' = n(p)
      /\ SentDecode(Q, p)' = SentDecode(P, p) /\ Delivered(Q, p)' = Delivered(P, p)
      /\ ~Filling(P, r) /\ ~Bulking(P, r) /\ ~Filling(P, p) /\ ~Bulking(P, p)
      /\ ~Filling(Q, r)' /\ ~Bulking(Q, r)' /\ ~Filling(Q, p)' /\ ~Bulking(Q, p)'
      /\ Awaited(P, r) = 0 /\ Awaited(Q, r)' = 0
      /\ P[r].pc \notin Body /\ P[r].pc \in DecodePc /\ Q[r].pc \notin Body /\ Q[r].pc \in DecodePc
      /\ Q[r].pc \notin HeadPc /\ Q[r].pc \notin {"drain", "drainwait"} \cup Body
  <2>1. DecodeStepped(P, Q, r, p)
    BY <1>1, <1>3, <1>5, <1>6, <1>7, DecodeStep
  <2> QED BY <1>7, <2>1 DEF DecodeStepped
<1>9. /\ tp[r].win /\ tp'[r].win /\ g = tp[r].last + 1
  BY <1>1, <1>2, <1>5, <1>7, <1>8 DEF WindowOf, GateOf
<1>10. /\ g \in 1 .. LastGate - 1 /\ g + 1 \in 1 .. LastGate /\ g + Window \in 1 .. LastGate - 1
       /\ Vector(mode) /\ mode.chunks \in Nat /\ mode.chunks >= 1 /\ First(mode)[g] \in Nat
       /\ n(r) \in Nat
  <2>1. g \in 1 .. LastGate - 1 /\ Vector(mode) /\ mode.chunks \in Nat /\ mode.chunks >= 1 /\ n(r) \in Nat
    BY <1>2, <1>8, SentBounds, RankFacts
  <2>2. g + Window \in 1 .. LastGate - 1
    BY <1>2, GateNumbers
  <2> QED BY <2>1, <2>2, FirstNext
<1>11. /\ tp[r].recvDone \in 1 .. LastGate - 1 /\ tp[r].recvDone >= 1
       /\ First(mode)[tp[r].recvDone] \in Nat /\ First(mode)[g] <= First(mode)[tp[r].recvDone]
  <2>1. tp[r].recvDone < LastGate /\ tp[r].recvDone \in Nat /\ LastGate \in Nat
    BY <1>2, RankFacts, LastGateNat DEF GateOf
  <2>2. tp[r].recvDone \in 1 .. LastGate - 1 /\ tp[r].recvDone \in 1 .. LastGate /\ g \in 1 .. LastGate
        /\ g <= tp[r].recvDone /\ tp[r].recvDone >= 1
    BY <1>1, <1>10, <2>1
  <2> QED BY <1>10, <2>2, FirstLe
<1>12. /\ Delivered(P, r) \in Int /\ First(mode)[g] + mode.chunks <= Delivered(P, r)
       /\ \A i \in 1 .. Len(cq[r]) : cq[r][i].dir = "recv" =>
            First(mode)[g] + mode.chunks <= Number(mode, cq[r][i])
  <2>1. Delivered(P, r) \in Int
    BY DeliveredIs
  <2>2. First(mode)[tp[r].recvDone] + mode.chunks <= Delivered(P, r)
    BY <1>2, <1>8, <1>11 DEF MarkOf
  <2>3. ASSUME NEW i \in 1 .. Len(cq[r]), cq[r][i].dir = "recv"
        PROVE  First(mode)[g] + mode.chunks <= Number(mode, cq[r][i])
    <3>1. Unit(mode, cq[r][i]) /\ First(mode)[tp[r].recvDone] + mode.chunks <= Number(mode, cq[r][i])
      BY <1>2, <1>8, <1>11, <2>3 DEF MarkOf
    <3>2. Number(mode, cq[r][i]) \in Nat
      BY <1>10, <3>1, NumberIn
    <3> QED BY <1>10, <1>11, <3>1, <3>2
  <2> QED BY <1>10, <1>11, <2>1, <2>2, <2>3
<1>13. /\ Delivered(P, r) <= SentDecode(P, p) /\ SentDecode(P, p) \in Nat
       /\ First(mode)[g] < SentDecode(P, p)
  <2>1. Delivered(P, r) <= SentDecode(P, p) /\ SentDecode(P, p) \in Nat
    BY <1>8, DecodeWire
  <2> QED BY <1>10, <1>12, <2>1
<1>14. ~Ahead(r)
  <2>1. SUFFICES ASSUME Ahead(r) PROVE FALSE
    OBVIOUS
  <2>2. g = gates[p] + 1
    BY <1>8, <2>1, Sides
  <2>3. SentDecode(P, p) <= First(mode)[gates[p] + 1]
    BY <1>8, SentBounds
  <2> QED BY <1>10, <1>13, <2>2, <2>3
<1>15. Level(r) => SentAll(P, p)
  <2>1. SUFFICES ASSUME Level(r) PROVE SentAll(P, p)
    OBVIOUS
  <2>2. P[p].pc \notin HeadPc \cup {"drainwait"} \cup Body
    BY <1>8, <2>1, DecodeSides
  <2>3. gates[p] = g
    BY <2>1, Sides
  <2>4. P[p].pc \notin {"arm", "send"}
    BY <1>8, <1>10, <1>13, <2>3, SentBounds
  <2>5. P[p].pc \in Pc
    BY <1>2, <1>8, RankFacts
  <2> QED BY <2>2, <2>4, <2>5 DEF SentAll, HeadPc, Body, Pc
<1>16. /\ ws \in Seq(Message) /\ Stream(mode, ws, End(r), End(r)') /\ End(r)' \in Nat /\ End(r) \in Nat
       /\ Len(ws) \in Nat /\ Len(ws) = End(r)' - End(r)
  <2>1. /\ ws \in Seq(Message) /\ Stream(mode, ws, First(mode)[g + Window], First(mode)[(g + Window) + 1])
    BY <1>10, GateReceivesStream DEF ws
  <2>2. End(r)' = First(mode)[g + 1 + Window] /\ End(r) = First(mode)[tp[r].last + 1 + Window]
    BY <1>5, <1>9, mode' = mode DEF End
  <2>3. /\ g + 1 + Window = (g + Window) + 1 /\ tp[r].last + 1 + Window = g + Window
    BY <1>2, <1>9, <1>10, GateNumbers
  <2>4. First(mode)[g + Window] \in Nat /\ First(mode)[(g + Window) + 1] \in Nat
    BY <1>10, FirstNext
  <2> QED BY <2>1, <2>2, <2>3, <2>4 DEF Stream
<1>17. /\ rq[r] \in Seq(Message) /\ Len(rq[r]) \in Nat /\ Len(rq'[r]) = Len(rq[r]) + Len(ws)
       /\ End(r)' - Len(rq'[r]) = End(r) - Len(rq[r])
  <2>1. rq[r] \in Seq(Message) /\ Len(rq[r]) \in Nat
    BY <1>2, RankFacts
  <2>2. Len(rq'[r]) = Len(rq[r]) + Len(ws)
    <3>1. ws \in Seq(Message) /\ rq'[r] = rq[r] \o ws
      BY <1>4, <1>16
    <3> QED BY <2>1, <3>1
  <2> QED BY <1>16, <2>1, <2>2
<1>18. /\ Delivered(Q, r)' = Delivered(P, r) /\ Polled(Q, r)' = First(mode)[g] + mode.chunks
       /\ SentDecode(Q, r)' = SentDecode(P, r) /\ SentDecode(P, r) \in Nat
  <2>1. Delivered(P, r) = End(r) - Len(rq[r])
    BY <1>8 DEF Delivered
  <2>2. Delivered(Q, r)' = End(r)' - Len(rq'[r])
    BY <1>8 DEF Delivered
  <2>3. Polled(Q, r)' = First(mode)[g] + mode.chunks
    BY <1>3, <1>5, <1>8, mode' = mode DEF Polled
  <2>4. SentDecode(Q, r)' = SentDecode(P, r)
    BY <1>1, <1>3, <1>8, mode' = mode DEF SentDecode
  <2> QED BY <1>17, <2>1, <2>2, <2>3, <2>4, SentBounds
<1>19. WindowOf(Q, r)'
  <2>1. IsKind(r, Row \cup {"aux"})' /\ Q[r].pc = "idle"
    BY <1>3, <1>8
  <2> QED BY <1>3, <1>8, <1>9, <2>1 DEF WindowOf
<1>20. GateOf(Q, r)'
  BY <1>1, <1>2, <1>5, <1>7, <1>8, mode' = mode DEF GateOf
<1>21. DoneOf(Q, r)'
  <2>1. done[r] = n(r) - 1
    BY <1>2, <1>7, <1>8 DEF DoneOf
  <2>2. done'[r] = n(r) - 0
    BY <1>3, <1>10, <2>1
  <2> QED BY <1>3, <1>8, <2>2 DEF DoneOf
<1>22. QueueOf(Q, r)'
  <2>1. Stream(mode, rq[r], End(r) - Len(rq[r]), End(r))
    BY <1>2, <1>8 DEF QueueOf
  <2>2. End(r) - Len(rq[r]) \in Int /\ End(r) \in Int /\ End(r)' \in Int
    BY <1>16, <1>17
  <2>3. Stream(mode, rq[r] \o ws, End(r) - Len(rq[r]), End(r)')
    BY <1>16, <1>17, <2>1, <2>2, StreamConcat
  <2>4. Stream(mode, rq'[r], End(r)' - Len(rq'[r]), End(r)')
    BY <1>4, <1>17, <2>3
  <2> QED BY <1>8, <1>9, <2>4, mode' = mode DEF QueueOf
<1>23. RecvOf(Q, r)'
  BY <1>8, <1>9 DEF RecvOf
<1>24. MarkOf(Q, r)'
  <2>1. MarkOf(P, r) /\ P[r].pc \in DecodePc
    BY <1>2, <1>8
  <2> QED BY <1>1, <1>5, <1>12, <1>18, <2>1, mode' = mode DEF MarkOf
<1>25. DataOf(Q, r)'
  BY <1>1, <1>2, <1>8, <1>18, mode' = mode DEF DataOf
<1>26. SyncOf(Q, p)'
  <2>1. Q[r].pc # "announce" /\ Q[r].pc \notin HeadPc
    BY <1>8 DEF HeadPc
  <2>2. SentAll(Q, r)'
    BY <1>3, <1>8 DEF SentAll
  <2> QED BY <1>1, <1>8, <2>1, <2>2, SyncPeer
<1>27. SyncOf(Q, r)'
  BY <1>1, <1>4, <1>7, <1>8, <1>14, <1>15, SyncOwn
<1>28. SendOf(Q, r)'
  BY <1>1, <1>2, <1>8 DEF SendOf
<1>29. AckOf(Q, r)'
  <2>1. IsKind(r, {"rgate"}) => Before(mode, First(mode)[g] + mode.chunks, wire[p])
    <3>1. SUFFICES ASSUME IsKind(r, {"rgate"}) PROVE Before(mode, First(mode)[g] + mode.chunks, wire[p])
      OBVIOUS
    <3>2. op[r].sd = 1
      BY <1>1, <3>1 DEF PayloadFree, IsKind
    <3> QED BY <1>1, <1>2, <1>8, <3>1, <3>2 DEF AckOf, Behind, AckSent, AckDone, AckAux, AckRow
  <2>2. /\ \A i \in 1 .. Len(unacked[r]) : unacked[r][i].tag # "bulk" =>
             /\ Unit(mode, unacked[r][i]) /\ Number(mode, unacked[r][i]) < SentDecode(P, r)
             /\ Before(mode, Number(mode, unacked[r][i]) + 1, wire[p])
        /\ \A i \in 1 .. Len(cq[r]) : cq[r][i].dir = "send" /\ cq[r][i].tag # "bulk" =>
             /\ Unit(mode, cq[r][i]) /\ Number(mode, cq[r][i]) < SentDecode(P, r)
             /\ Before(mode, Number(mode, cq[r][i]) + 1, wire[p])
        /\ tp[r].auxSend >= 1 => /\ First(mode)[tp[r].auxSend + 1] <= SentDecode(P, r)
                                 /\ Before(mode, First(mode)[tp[r].auxSend + 1], wire[p])
    BY <1>2 DEF AckOf, Behind, AckSent, AckDone, AckAux, AckRow
  <2> QED BY <1>1, <1>5, <1>8, <1>18, <2>1, <2>2, mode' = mode DEF AckOf, Behind, AckSent, AckDone, AckAux, AckRow, Before
<1>30. RowOf(Q, r)'
  BY <1>7, <1>8 DEF RowOf
<1>31. WireOf(Q, r)' /\ WireOf(Q, p)'
  <2>1. WireOf(Q, r)'
    BY <1>1, <1>2, <1>8, <1>18, WireFrame
  <2>2. WireOf(Q, p)'
    BY <1>1, <1>2, <1>8, <1>18, WireFrame
  <2> QED BY <2>1, <2>2
<1> QED BY <1>8, <1>19, <1>20, <1>21, <1>22, <1>23, <1>24, <1>25, <1>26, <1>27, <1>28, <1>29, <1>30, <1>31,
           Whole DEF Own, Shared

(* A paired exchange ends: both payloads have arrived, or the rank fails.  *)
LEMMA FinishAuxInv ==
  ASSUME NEW P, NEW Q, NEW r \in Rank, NEW p, p = Peer(r), Inv(P), Typed', mode' = mode,
         FinishAux(r), Q = [P EXCEPT ![r] = op'[r]]
  PROVE  Inv(Q)' \/ Inv(P)'
<1> DEFINE g == gates[r]
<1>a. CASE ReturnFailed(r)
  <2>1. /\ op' = [op EXCEPT ![r].pc = "idle"] /\ tp' = [tp EXCEPT ![r].failed = TRUE]
        /\ UNCHANGED <<plan, done, gates, nicVars, hdr>>
    BY <1>a DEF FinishAux, ReturnFailed, Goto
  <2> QED BY <2>1, FailureInv
<1>b. ASSUME Return(r) /\ UNCHANGED tp PROVE Inv(Q)'
 <2>1. /\ op[r].pc = "auxwait" /\ tp[r].auxRecv >= tp[r].last /\ tp[r].auxSend >= tp[r].last
       /\ Return(r) /\ UNCHANGED <<plan, gates, tp, hdr, rq, wire, unacked, cq, inbuf>>
   BY <1>b DEF FinishAux, nicVars
 <2>2. /\ Typed /\ P \in Progress /\ PcOf(P, r) /\ GateOf(P, r) /\ WindowOf(P, r) /\ QueueOf(P, r)
       /\ RecvOf(P, r) /\ DataOf(P, r) /\ SendOf(P, r) /\ AckOf(P, r) /\ WireOf(P, r) /\ WireOf(P, p)
       /\ DoneOf(P, r) /\ MarkOf(P, r) /\ RowOf(P, r)
   BY Sides, InvOf
 <2>3. op'[r].pc = "idle" /\ op'[p] = op[p] /\ done'[r] = done[r] + 1 /\ done'[p] = done[p]
   BY <2>1, <2>2, ReturnIs
 <2>4. Untouched(p)
   BY <2>1, <2>3 DEF Untouched
 <2>5. /\ op[r].pc \notin RowPc /\ op'[r].pc \notin RowPc /\ op'[r].pc # "auxwait" /\ op'[r].pc # "wait"
       /\ op[r].pc # "idle" /\ op[r].pc \notin Body /\ op'[r].pc \notin Body
   BY <2>1, <2>3 DEF RowPc, Body
 <2>6. /\ Q \in Progress /\ Q[r] = op'[r] /\ Q[p] = P[p] /\ P[r] = op[r]
       /\ p \in Rank /\ p # r /\ Peer(p) = r
       /\ Own(Q, p)' /\ ProgramOf(r)' /\ ProgramOf(p)' /\ SendOf(Q, p)' /\ AckOf(Q, p)' /\ RowOf(Q, p)'
       /\ PcOf(Q, r)' /\ HeaderOf(Q, r)' /\ HeaderOf(Q, p)'
       /\ IsKind(r, Row \cup {"aux"}) /\ ~IsKind(r, Bulk) /\ ~IsKind(r, Row) /\ IsKind(r, {"aux"})
       /\ n(r)' = n(r) /\ Current(r)' = Current(r)
       /\ (\A ks : IsKind(r, ks)' <=> IsKind(r, ks)) /\ n(p)' = n(p)
       /\ SentDecode(Q, p)' = SentDecode(P, p) /\ Delivered(Q, p)' = Delivered(P, p)
       /\ ~Filling(P, r) /\ ~Bulking(P, r) /\ ~Filling(P, p) /\ ~Bulking(P, p)
       /\ ~Filling(Q, r)' /\ ~Bulking(Q, r)' /\ ~Filling(Q, p)' /\ ~Bulking(Q, p)'
       /\ Awaited(P, r) = 0 /\ Awaited(Q, r)' = 0
       /\ P[r].pc \notin Body /\ P[r].pc \in DecodePc /\ Q[r].pc \notin Body /\ Q[r].pc \in DecodePc
       /\ Q[r].pc \notin HeadPc /\ Q[r].pc \notin {"drain", "drainwait"} \cup Body
    <3>1. DecodeStepped(P, Q, r, p)
      BY <2>1, <2>3, <2>4, <2>5, DecodeStep
  <3> QED BY <2>1, <3>1 DEF DecodeStepped
 <2>7. /\ tp[r].win /\ g = tp[r].last /\ Eligible(mode, g) /\ g >= 1
       /\ n(r) > 1 /\ plan[r][n(r) - 1].kind \in Row
   BY <2>1, <2>2, <2>5, <2>6 DEF WindowOf, GateOf
 <2>8. /\ g \in 1 .. LastGate - 1 /\ g + 1 \in 1 .. LastGate
       /\ Vector(mode) /\ mode.chunks \in Nat /\ mode.chunks >= 1 /\ First(mode)[g] \in Nat
       /\ n(r) \in Nat /\ First(mode)[g + 1] = First(mode)[g] + mode.chunks + 1
   <3>1. g \in 1 .. LastGate - 1 /\ Vector(mode) /\ mode.chunks \in Nat /\ mode.chunks >= 1 /\ n(r) \in Nat
     BY <2>2, <2>6, SentBounds, RankFacts
   <3> QED BY <2>7, <3>1, FirstNext
 <2>9. /\ tp[r].auxRecv >= 1 /\ First(mode)[tp[r].auxRecv + 1] \in Nat
       /\ First(mode)[g + 1] <= First(mode)[tp[r].auxRecv + 1]
   <3>1. tp[r].auxRecv < LastGate /\ tp[r].auxRecv \in Nat /\ LastGate \in Nat
     BY <2>2, RankFacts, LastGateNat DEF GateOf
   <3>2. tp[r].auxRecv + 1 \in 1 .. LastGate /\ g + 1 <= tp[r].auxRecv + 1 /\ tp[r].auxRecv >= 1
     BY <2>1, <2>7, <2>8, <3>1
   <3> QED BY <2>8, <3>2, FirstLe
 <2>10. /\ Delivered(P, r) \in Int /\ First(mode)[g + 1] <= Delivered(P, r)
        /\ \A i \in 1 .. Len(cq[r]) : cq[r][i].dir = "recv" => First(mode)[g + 1] <= Number(mode, cq[r][i])
   <3>1. Delivered(P, r) \in Int
     BY DeliveredIs
   <3>2. First(mode)[tp[r].auxRecv + 1] <= Delivered(P, r)
     BY <2>2, <2>6, <2>9 DEF MarkOf
   <3>3. ASSUME NEW i \in 1 .. Len(cq[r]), cq[r][i].dir = "recv"
         PROVE  First(mode)[g + 1] <= Number(mode, cq[r][i])
     <4>1. Unit(mode, cq[r][i]) /\ First(mode)[tp[r].auxRecv + 1] <= Number(mode, cq[r][i])
       BY <2>2, <2>6, <2>9, <3>3 DEF MarkOf
     <4>2. Number(mode, cq[r][i]) \in Nat
       BY <2>8, <4>1, NumberIn
     <4> QED BY <2>8, <2>9, <4>1, <4>2
   <3> QED BY <2>8, <2>9, <3>1, <3>2, <3>3
 <2>11. ~Ahead(r)
   <3>1. SUFFICES ASSUME Ahead(r) PROVE FALSE
     OBVIOUS
   <3>2. gates[p] = g /\ n(p) > 0 /\ Current(p).kind \in Row
     <4>1. n(r) = n(p) + 1 /\ n(p) \in Nat
       BY <2>2, <2>6, <3>1, Sides, RankFacts
     <4>2. n(p) > 0
       BY <2>7, <4>1
     <4> QED BY <2>2, <2>6, <2>7, <2>8, <3>1, <4>1, <4>2, Sides, RankFacts
   <3>3. IsKind(p, Row)
     BY <3>2 DEF IsKind
   <3>4. SentDecode(P, p) <= First(mode)[g] + mode.chunks
     BY <2>6, <2>8, <3>2, <3>3, SentBounds
   <3>5. Delivered(P, r) <= SentDecode(P, p) /\ SentDecode(P, p) \in Nat
     BY <2>6, DecodeWire
   <3> QED BY <2>8, <2>10, <3>4, <3>5
 <2>12. Level(r) => SentAll(P, p)
   <3>1. SUFFICES ASSUME Level(r) PROVE SentAll(P, p)
     OBVIOUS
  <3>2. Current(p) = Current(r) /\ n(p) > 0
    <4>1. n(r) = n(p) /\ n(r) > 1 /\ n(r) \in Nat
      BY <2>7, <2>8, <3>1, Sides
    <4>2. n(r) > 0 /\ n(p) > 0
      BY <4>1
    <4>3. Level(r) => gates[r] = gates[p] /\ (n(r) > 0 => Current(r) = Current(p))
      BY Sides
    <4> QED BY <3>1, <4>2, <4>3
   <3>3. IsKind(p, {"aux"})
     BY <2>6, <3>2 DEF IsKind
   <3> QED BY <2>6, <3>3, KindPc DEF SentAll
 <2>13. /\ Delivered(Q, r)' = Delivered(P, r) /\ Polled(Q, r)' = First(mode)[g + 1]
        /\ SentDecode(Q, r)' = SentDecode(P, r) /\ SentDecode(P, r) \in Nat /\ End(r)' = End(r)
   <3>1. End(r)' = End(r)
     BY <2>1 DEF End
   <3>2. Delivered(Q, r)' = Delivered(P, r)
     BY <2>1, <2>6, <3>1 DEF Delivered
   <3>3. Polled(Q, r)' = First(mode)[g + 1]
     BY <2>1, <2>3, <2>6, <2>7, mode' = mode DEF Polled
   <3>4. SentDecode(Q, r)' = SentDecode(P, r)
     BY <2>1, <2>3, <2>6, mode' = mode DEF SentDecode
   <3> QED BY <3>1, <3>2, <3>3, <3>4, SentBounds
 <2>14. WindowOf(Q, r)'
   <3>1. IsKind(r, Row \cup {"aux"})' /\ Q[r].pc = "idle"
     BY <2>3, <2>6
   <3> QED BY <2>1, <2>3, <2>6, <2>7, <3>1 DEF WindowOf
 <2>15. GateOf(Q, r)'
   BY <2>1, <2>2, <2>5, <2>6, mode' = mode DEF GateOf
 <2>16. DoneOf(Q, r)'
   <3>1. done[r] = n(r) - 1
     BY <2>2, <2>5, <2>6 DEF DoneOf
   <3>2. done'[r] = n(r) - 0
     BY <2>3, <2>8, <3>1
   <3> QED BY <2>3, <2>6, <3>2 DEF DoneOf
 <2>17. QueueOf(Q, r)'
   BY <2>1, <2>2, <2>6, <2>13, mode' = mode DEF QueueOf
 <2>18. RecvOf(Q, r)'
   BY <2>1, <2>6, <2>7 DEF RecvOf
 <2>19. MarkOf(Q, r)'
   <3>1. MarkOf(P, r) /\ P[r].pc \in DecodePc
     BY <2>2, <2>6
   <3> QED BY <2>1, <2>10, <2>13, <3>1, mode' = mode DEF MarkOf
 <2>20. DataOf(Q, r)'
   BY <2>1, <2>2, <2>6, <2>13, mode' = mode DEF DataOf
 <2>21. SyncOf(Q, p)'
   <3>1. Q[r].pc # "announce" /\ Q[r].pc \notin HeadPc
     BY <2>6 DEF HeadPc
   <3>2. SentAll(Q, r)'
     BY <2>3, <2>6 DEF SentAll
   <3> QED BY <2>1, <2>6, <3>1, <3>2, SyncPeer
 <2>22. SyncOf(Q, r)'
   BY <2>1, <2>5, <2>6, <2>11, <2>12, SyncOwn
 <2>23. SendOf(Q, r)'
   BY <2>1, <2>2, <2>6 DEF SendOf
 <2>24. AckOf(Q, r)'
   <3>1. /\ \A i \in 1 .. Len(unacked[r]) : unacked[r][i].tag # "bulk" =>
              /\ Unit(mode, unacked[r][i]) /\ Number(mode, unacked[r][i]) < SentDecode(P, r)
              /\ Before(mode, Number(mode, unacked[r][i]) + 1, wire[p])
         /\ \A i \in 1 .. Len(cq[r]) : cq[r][i].dir = "send" /\ cq[r][i].tag # "bulk" =>
              /\ Unit(mode, cq[r][i]) /\ Number(mode, cq[r][i]) < SentDecode(P, r)
              /\ Before(mode, Number(mode, cq[r][i]) + 1, wire[p])
         /\ tp[r].auxSend >= 1 => /\ First(mode)[tp[r].auxSend + 1] <= SentDecode(P, r)
                                  /\ Before(mode, First(mode)[tp[r].auxSend + 1], wire[p])
     BY <2>2 DEF AckOf, Behind, AckSent, AckDone, AckAux, AckRow
   <3>2. ~IsKind(r, {"rgate"})
     BY <2>6 DEF IsKind, Row
   <3> QED BY <2>1, <2>6, <2>13, <3>1, <3>2, mode' = mode DEF AckOf, Behind, AckSent, AckDone, AckAux, AckRow, Before
 <2>25. RowOf(Q, r)'
   BY <2>5, <2>6 DEF RowOf
 <2>26. WireOf(Q, r)' /\ WireOf(Q, p)'
   <3>1. WireOf(Q, r)'
     BY <2>1, <2>2, <2>6, <2>13, WireFrame
   <3>2. WireOf(Q, p)'
     BY <2>1, <2>2, <2>6, <2>13, WireFrame
   <3> QED BY <3>1, <3>2
 <2> QED BY <2>6, <2>14, <2>15, <2>16, <2>17, <2>18, <2>19, <2>20, <2>21, <2>22, <2>23, <2>24, <2>25, <2>26,
            Whole DEF Own, Shared
<1> QED BY <1>a, <1>b DEF FinishAux

(* What an operation that begins does to the programs.                     *)
OpIsIssued(P, r, p, o) ==
  /\ plan'[p] = plan[p] /\ n(r)' = n(r) + 1 /\ n(p)' = n(p) /\ Current(r)' = o
  /\ \A i \in 1 .. n(r) : plan'[r][i] = plan[r][i]
  /\ plan'[r][n(r) + 1] = o
  /\ P[r] = op[r] /\ P[r].pc = "idle" /\ ~tp[r].failed /\ p \in Rank /\ Peer(p) = r /\ p # r
  /\ ~Ahead(r) /\ n(r) \in Nat /\ n(p) \in Nat
  /\ Level(r) => Ahead(r)' /\ ~Level(r)' /\ ~Ahead(p)' /\ ~Level(p)'
  /\ Ahead(p) => /\ Level(r)' /\ ~Ahead(r)' /\ ~Ahead(p)' /\ Level(p)' /\ o = Current(p) /\ n(p) > 0
  /\ \A ks : IsKind(r, ks)' <=> o.kind \in ks
  /\ WindowBefore(r)' <=> tp[r].win
  /\ o.kind \in Row \/ o.kind = "aux" \/ o.kind \in Bulk

(* An operation begins: it is the one the peer is in, if the peer is       *)
(* ahead, and else the rank gets ahead.                                    *)
LEMMA OpIssued ==
  ASSUME NEW P, NEW r \in Rank, NEW p, p = Peer(r), Inv(P), ~MayDiverge, NEW o \in Op, Issues(r, o)
  PROVE  OpIsIssued(P, r, p, o)
<1>1. /\ op[r].pc = "idle" /\ ~tp[r].failed /\ plan' = [plan EXCEPT ![r] = Append(@, o)]
      /\ n(p) > n(r) => o = plan[p][n(r) + 1]
  BY DEF Issues, n
<1>2. /\ Typed /\ p \in Rank /\ Peer(p) = r /\ p # r /\ plan \in [Rank -> Seq(Op)]
      /\ n(r) \in Nat /\ n(p) \in Nat /\ SyncOf(P, r) /\ PcOf(P, r) /\ WindowOf(P, r)
      /\ (Level(r) <=> n(r) = n(p)) /\ (Ahead(r) <=> n(r) = n(p) + 1) /\ (Ahead(p) <=> n(p) = n(r) + 1)
  BY Sides, InvOf, RankFacts DEF Typed
<1>3. plan'[p] = plan[p] /\ plan'[r] = Append(plan[r], o) /\ plan[r] \in Seq(Op)
  BY <1>1, <1>2
<1>4. P[r] = op[r] /\ P[r].pc = "idle"
  BY <1>1, <1>2 DEF PcOf
<1>5. ~Ahead(r)
  BY <1>2, <1>4 DEF SyncOf
<1>6. n(p)' = n(p)
  BY <1>3 DEF n
<1>7. /\ n(r)' = n(r) + 1 /\ \A i \in 1 .. n(r) : plan'[r][i] = plan[r][i]
      /\ plan'[r][n(r) + 1] = o
  <2>1. Len(Append(plan[r], o)) = Len(plan[r]) + 1
    BY <1>3
  <2>2. /\ \A i \in 1 .. Len(plan[r]) : Append(plan[r], o)[i] = plan[r][i]
        /\ Append(plan[r], o)[Len(plan[r]) + 1] = o
    BY <1>3
  <2> QED BY <1>3, <2>1, <2>2 DEF n
<1>8. Current(r)' = o
  <2>1. Current(r)' = plan'[r][n(r)']
    BY DEF Current, n
  <2> QED BY <1>7, <2>1
<1>9. \A ks : IsKind(r, ks)' <=> o.kind \in ks
  <2>1. n(r)' > 0
    BY <1>2, <1>7
  <2> QED BY <1>8, <2>1 DEF IsKind
<1>10. o.kind \in Row \/ o.kind = "aux" \/ o.kind \in Bulk
  BY DEF Op, Row, Bulk
<1>11. WindowBefore(r)' <=> tp[r].win
  <2>1. tp[r].win <=> IsKind(r, Row \cup {"aux"})
    BY <1>2, <1>4 DEF WindowOf
  <2>2. WindowBefore(r)' <=> n(r)' > 1 /\ plan'[r][n(r)' - 1].kind \notin Bulk
    BY DEF WindowBefore
  <2>3. WindowBefore(r)' <=> n(r) > 0 /\ Current(r).kind \notin Bulk
    <3>1. n(r)' > 1 <=> n(r) > 0
      BY <1>2, <1>7
    <3>2. n(r) > 0 => plan'[r][n(r)' - 1] = Current(r)
      <4>1. SUFFICES ASSUME n(r) > 0 PROVE plan'[r][n(r)' - 1] = Current(r)
        OBVIOUS
      <4>2. n(r)' - 1 = n(r) /\ n(r) \in 1 .. n(r)
        <5>1. n(r)' = n(r) + 1 /\ n(r) \in Nat
          BY <1>2, <1>7
        <5>2. \A a, b \in Int : a > 0 /\ b = a + 1 => b - 1 = a /\ a \in 1 .. a
          OBVIOUS
        <5>3. n(r)' \in Int /\ n(r) \in Int
          BY <5>1
        <5> QED BY ONLY <4>1, <5>1, <5>2, <5>3
      <4>3. plan'[r][n(r)' - 1] = plan[r][n(r)]
        BY <1>7, <4>2
      <4> QED BY <4>3 DEF Current, n
    <3> QED BY <2>2, <3>1, <3>2
  <2>4. n(r) > 0 => (Current(r).kind \notin Bulk <=> IsKind(r, Row \cup {"aux"}))
    BY KindPc DEF IsKind
  <2>5. IsKind(r, Row \cup {"aux"}) => n(r) > 0
    BY DEF IsKind
  <2> QED BY <2>1, <2>3, <2>4, <2>5
<1>12. Level(r) => Ahead(r)' /\ ~Level(r)' /\ ~Ahead(p)' /\ ~Level(p)'
  BY <1>2, <1>6, <1>7 DEF Level, Ahead
<1>13. Ahead(p) => Level(r)' /\ ~Ahead(r)' /\ ~Ahead(p)' /\ Level(p)' /\ o = Current(p) /\ n(p) > 0
  <2>1. Ahead(p) => Level(r)' /\ ~Ahead(r)' /\ ~Ahead(p)' /\ Level(p)'
    BY <1>2, <1>6, <1>7 DEF Level, Ahead
  <2>2. Ahead(p) => n(p) = n(r) + 1 /\ n(p) > n(r) /\ n(p) > 0
    BY <1>2
  <2>3. Current(p) = plan[p][n(p)]
    BY DEF Current, n
  <2> QED BY <1>1, <2>1, <2>2, <2>3
<1> QED BY <1>1, <1>2, <1>3, <1>4, <1>5, <1>6, <1>7, <1>8, <1>9, <1>10, <1>11, <1>12, <1>13 DEF OpIsIssued

(* Both programs are still the same.                                       *)
LEMMA ProgramGrows ==
  ASSUME NEW P, NEW r \in Rank, NEW p, p = Peer(r), Inv(P), ~MayDiverge, NEW o \in Op, Issues(r, o),
         gates'[p] = gates[p], gates'[r] = gates[r] + (IF o.kind \in Row THEN 1 ELSE 0)
  PROVE  ProgramOf(r)' /\ ProgramOf(p)'
<1>1. /\ plan'[p] = plan[p] /\ n(r)' = n(r) + 1 /\ n(p)' = n(p) /\ Current(r)' = o
      /\ \A i \in 1 .. n(r) : plan'[r][i] = plan[r][i]
      /\ plan'[r][n(r) + 1] = o /\ p \in Rank /\ Peer(p) = r /\ n(r) \in Nat /\ n(p) \in Nat
      /\ ~Ahead(r) /\ (Ahead(p) => o = Current(p) /\ n(p) > 0)
  <2>1. OpIsIssued(P, r, p, o)
    BY OpIssued
  <2> QED BY <2>1 DEF OpIsIssued
<1>2. /\ ProgramOf(r) /\ ProgramOf(p) /\ (Level(r) <=> n(r) = n(p)) /\ (Ahead(p) <=> n(p) = n(r) + 1)
      /\ (Level(r) \/ Ahead(p)) /\ gates[r] \in Nat /\ gates[p] \in Nat
  BY <1>1, Sides, InvOf, RankFacts
<1>3. \A i \in 1 .. n(r) : i <= n(p) => plan[r][i] = plan[p][i]
  BY <1>2 DEF ProgramOf
<1>4. Ahead(p) => plan[p][n(r) + 1] = o
  BY <1>1, <1>2 DEF Current, n
<1>5. \A i \in 1 .. n(r) + 1 : i <= n(p) => plan'[r][i] = plan[p][i]
  <2>1. SUFFICES ASSUME NEW i \in 1 .. n(r) + 1, i <= n(p) PROVE plan'[r][i] = plan[p][i]
    OBVIOUS
  <2>2. CASE i \in 1 .. n(r)
    BY <1>1, <1>3, <2>1, <2>2
  <2>3. CASE i = n(r) + 1
    BY <1>1, <1>2, <1>4, <2>1, <2>3
  <2> QED BY <1>1, <2>2, <2>3
<1>6. \A i \in 1 .. n(p) : i <= n(r) + 1 => plan[p][i] = plan'[r][i]
  BY <1>1, <1>5
<1>7. CASE Level(r)
  <2>1. gates[r] = gates[p] /\ n(r) = n(p)
    BY <1>2, <1>7 DEF ProgramOf
  <2>2. ProgramOf(r)'
    BY <1>1, <1>5, <2>1 DEF ProgramOf
  <2>3. ProgramOf(p)'
    BY <1>1, <1>6, <2>1 DEF ProgramOf
  <2> QED BY <2>2, <2>3
<1>8. CASE Ahead(p)
  <2>1. n(p) = n(r) + 1 /\ gates[p] = gates[r] + (IF Current(p).kind \in Row THEN 1 ELSE 0)
    BY <1>1, <1>2, <1>8 DEF ProgramOf
  <2>2. gates'[r] = gates[p]
    BY <1>1, <1>8, <2>1
  <2>3. ProgramOf(r)'
    BY <1>1, <1>5, <2>1, <2>2 DEF ProgramOf
  <2>4. ProgramOf(p)'
    BY <1>1, <1>6, <2>1, <2>2 DEF ProgramOf
  <2> QED BY <2>3, <2>4
<1> QED BY <1>2, <1>7, <1>8

(* A bulk operation more is counted.                                       *)
LEMMA SeqnoGrows ==
  ASSUME NEW P, NEW r \in Rank, NEW p, p = Peer(r), Inv(P), ~MayDiverge, NEW o \in Op, Issues(r, o)
  PROVE  Seqno(r) \in Nat /\ Seqno(r)' = Seqno(r) + (IF o.kind \in Bulk THEN 1 ELSE 0)
<1> DEFINE A == {i \in DOMAIN plan[r] : plan[r][i].kind \in Bulk}
           B == {i \in DOMAIN plan'[r] : plan'[r][i].kind \in Bulk}
<1>1. /\ n(r)' = n(r) + 1 /\ \A i \in 1 .. n(r) : plan'[r][i] = plan[r][i]
      /\ plan'[r][n(r) + 1] = o /\ n(r) \in Nat
  <2>1. OpIsIssued(P, r, p, o)
    BY OpIssued
  <2> QED BY <2>1 DEF OpIsIssued
<1>2. plan[r] \in Seq(Op) /\ plan'[r] = Append(plan[r], o)
  <2>1. plan' = [plan EXCEPT ![r] = Append(@, o)] /\ plan \in [Rank -> Seq(Op)]
    BY InvOf DEF Issues, Typed
  <2> QED BY <2>1
<1>3. DOMAIN plan[r] = 1 .. n(r) /\ DOMAIN plan'[r] = 1 .. n(r) + 1
  BY <1>1, <1>2 DEF n
<1>4. Seqno(r) \in Nat /\ IsFiniteSet(A)
  BY <1>2, SeqnoNat
<1>5. Seqno(r) = Cardinality(A) /\ Seqno(r)' = Cardinality(B)
  BY DEF Seqno
<1>6. CASE o.kind \in Bulk
  <2>1. B = A \cup {n(r) + 1} /\ n(r) + 1 \notin A
    BY <1>1, <1>3, <1>6
  <2> HIDE DEF A, B
  <2>2. Cardinality(B) = Cardinality(A) + 1
    BY <1>4, <2>1, FS_AddElement
  <2> QED BY <1>4, <1>5, <1>6, <2>2
<1>7. CASE o.kind \notin Bulk
  <2>1. B = A
    BY <1>1, <1>3, <1>7
  <2> HIDE DEF A, B
  <2>2. Seqno(r)' = Seqno(r)
    BY <1>5, <2>1
  <2> QED BY <1>4, <1>7, <2>2
<1> QED BY <1>6, <1>7

(* Where a rank may stand when its operation has begun.                    *)
StartPc == {"arm", "send", "auxwait", "announce", "drain"}

(* What every operation that begins leaves and keeps.                      *)
Begun(P, Q, r, p) ==
  /\ Q \in Progress /\ Q[r] = op'[r] /\ Q[p] = P[p]
  /\ Own(Q, p)' /\ ProgramOf(r)' /\ ProgramOf(p)' /\ SendOf(Q, p)' /\ AckOf(Q, p)' /\ RowOf(Q, p)'
  /\ SyncOf(Q, r)' /\ SyncOf(Q, p)' /\ HeaderOf(Q, r)' /\ HeaderOf(Q, p)'
  /\ PcOf(Q, r)' /\ DoneOf(Q, r)'
  /\ Awaited(P, r) = 0 /\ Awaited(Q, r)' = 0
  /\ SentDecode(Q, p)' = SentDecode(P, p) /\ Delivered(Q, p)' = Delivered(P, p)
  /\ Sent(Q, p)' = Sent(P, p) /\ Posted(Q, p)' = Posted(P, p)
  /\ Q[r].pc # "idle" /\ Q[r].pc \notin {"drainwait", "wait"} \cup Body
  /\ P[r].pc \notin {"drainwait", "wait"} \cup Body /\ P[r].pc \in DecodePc

(* An operation begins: what does not depend on which one.                 *)
LEMMA Begins ==
  ASSUME NEW P, NEW Q, NEW r \in Rank, NEW p, p = Peer(r), Inv(P), Typed', mode' = mode, ~MayDiverge,
         NEW o \in Op, Issues(r, o), op'[r].pc \in StartPc,
         op'[r].pc = "drain" => ~tp[r].win,
         op'[r].pc \in RowPc => o.kind \in Row, op'[r].pc = "auxwait" => o.kind = "aux",
         op'[r].pc \in HeadPc => o.kind \in Bulk, op'[r].pc = "announce" => o.kind \in Bulk,
         gates'[r] = gates[r] + (IF o.kind \in Row THEN 1 ELSE 0),
         Q = [P EXCEPT ![r] = op'[r]], UNCHANGED <<done, tp, hdr>>, Untouched(p),
         unacked'[p] = unacked[p], wire'[r] = wire[r]
  PROVE  Begun(P, Q, r, p)
<1>1. /\ plan'[p] = plan[p] /\ n(r)' = n(r) + 1 /\ n(p)' = n(p) /\ Current(r)' = o
      /\ P[r] = op[r] /\ P[r].pc = "idle" /\ ~tp[r].failed /\ p \in Rank /\ Peer(p) = r /\ p # r
      /\ ~Ahead(r) /\ n(r) \in Nat /\ n(p) \in Nat
      /\ Level(r) => Ahead(r)' /\ ~Level(r)' /\ ~Ahead(p)' /\ ~Level(p)'
      /\ Ahead(p) => /\ Level(r)' /\ ~Ahead(r)' /\ ~Ahead(p)' /\ Level(p)' /\ o = Current(p) /\ n(p) > 0
      /\ \A ks : IsKind(r, ks)' <=> o.kind \in ks
      /\ WindowBefore(r)' <=> tp[r].win
  <2>1. OpIsIssued(P, r, p, o)
    BY OpIssued
  <2> QED BY <2>1 DEF OpIsIssued
<1>2. Q \in Progress /\ Q[r] = op'[r] /\ Q[p] = P[p]
  <2>1. Turned(P, Q, r, p)
    BY <1>1, Turn
  <2> QED BY <2>1 DEF Turned
<1>3. /\ Typed /\ Own(P, p) /\ Shared(P, p) /\ Shared(P, r) /\ SyncOf(P, r) /\ SyncOf(P, p)
      /\ HeaderOf(P, r) /\ HeaderOf(P, p) /\ PcOf(P, r) /\ DoneOf(P, r) /\ (Level(r) \/ Ahead(p))
  BY <1>1, InvOf, Sides
<1>4. Own(Q, p)' /\ SendOf(Q, p)' /\ AckOf(Q, p)' /\ RowOf(Q, p)'
  BY <1>1, <1>2, <1>3, PeerOwn, PeerShared
<1>5. ProgramOf(r)' /\ ProgramOf(p)'
  BY <1>1, ProgramGrows DEF Untouched
<1>6. /\ Q[r].pc # "idle" /\ Q[r].pc \notin {"drainwait", "wait"} \cup Body
      /\ P[r].pc \notin {"drainwait", "wait"} \cup Body /\ P[r].pc \in DecodePc
  BY <1>1, <1>2 DEF StartPc, Body, DecodePc, RowPc
<1>7. /\ SentDecode(Q, p)' = SentDecode(P, p) /\ Delivered(Q, p)' = Delivered(P, p)
      /\ Sent(Q, p)' = Sent(P, p) /\ Posted(Q, p)' = Posted(P, p)
      /\ (SentAll(Q, p)' <=> SentAll(P, p)) /\ (WindowBefore(p)' <=> WindowBefore(p))
      /\ Seqno(p)' = Seqno(p)
  BY <1>2, SameValues DEF Untouched
<1>8. Awaited(P, r) = 0 /\ Awaited(Q, r)' = 0
  BY <1>6 DEF Awaited, Body
<1>9. PcOf(Q, r)'
  <2>1. tp' = tp
    OBVIOUS
  <2>2. ~tp'[r].failed
    BY <1>1, <2>1
  <2>4. Q[r].pc \in HeadPc \cup {"drainwait"} \cup Body => IsKind(r, Bulk)'
    BY <1>1, <1>2, <1>6
  <2>5. (Q[r].pc = "auxwait" => IsKind(r, {"aux"})') /\ (Q[r].pc \in RowPc => IsKind(r, Row)')
    BY <1>1, <1>2
  <2> QED BY <1>2, <1>6, <2>2, <2>4, <2>5 DEF PcOf
<1>10. DoneOf(Q, r)'
  <2>1. done[r] = n(r) - 0
    BY <1>1, <1>3 DEF DoneOf
  <2>2. done'[r] = (n(r) + 1) - 1
    BY <1>1, <2>1
  <2> QED BY <1>1, <1>6, <2>2 DEF DoneOf
<1>11. SyncOf(Q, p)'
  <2>1. Ahead(p) => P[p].pc # "idle"
    BY <1>1, <1>3 DEF SyncOf
  <2>2. Ahead(p) /\ P[p].pc \in {"drain", "drainwait"} \cup Body => ~WindowBefore(p)
    BY <1>1, <1>3 DEF SyncOf
  <2>3. ~Ahead(p)' /\ (Level(p)' => Ahead(p))
    BY <1>1, <1>3
  <2>4. Level(p)' /\ Q[p].pc = "idle" => SentAll(Q, r)'
    BY <1>2, <2>1, <2>3
  <2>5. /\ Level(p)' /\ WindowBefore(p)' /\ Q[p].pc \in {"drain", "drainwait"} \cup Body => FALSE
    BY <1>2, <1>7, <2>2, <2>3
  <2> QED BY <1>1, <2>3, <2>4, <2>5 DEF SyncOf
<1>12. SyncOf(Q, r)'
  <2>1. Ahead(r)' => Level(r)
    BY <1>1, <1>3
  <2>2. Level(r) => SentAll(P, p) /\ (P[p].pc \in Body => rq[p] = <<>>)
    BY <1>1, <1>3, CaughtUp DEF SyncOf
  <2>3. Ahead(r)' => Q[r].pc # "idle" /\ SentAll(Q, p)' /\ (Q[p].pc \in Body => rq'[p] = <<>>)
    BY <1>2, <1>6, <1>7, <2>1, <2>2 DEF Untouched
  <2>4. Q[r].pc \in {"drain", "drainwait"} \cup Body => ~WindowBefore(r)'
    BY <1>1, <1>2, <1>6
  <2>5. Q[r].pc \notin Body
    BY <1>6
  <2> QED BY <1>1, <1>6, <2>3, <2>4, <2>5 DEF SyncOf
<1>13. HeaderOf(Q, r)'
  <2>1. hdr'[r] = hdr[r] /\ Seqno(p)' = Seqno(p) /\ (Q[p].pc = "announce" => P[p].pc = "announce")
    BY <1>2, <1>7
  <2> QED BY <1>3, <2>1, HeaderSame
<1>14. HeaderOf(Q, p)'
  <2>1. Seqno(r) \in Nat /\ Seqno(r)' = Seqno(r) + (IF o.kind \in Bulk THEN 1 ELSE 0)
    BY SeqnoGrows
  <2>2. hdr[p] \in Seq(HeaderRecord) /\ P[r].pc # "announce"
    BY <1>1, <1>3, TypedRank
  <2>3. ASSUME NEW i \in 1 .. Len(hdr[p]), hdr[p][i].kind \in Bulk
        PROVE  hdr[p][i].seq <= Seqno(r)' - (IF Q[r].pc = "announce" THEN 1 ELSE 0)
    <3>1. hdr[p][i].seq <= Seqno(r) - 0
      BY <1>1, <1>3, <2>2, <2>3 DEF HeaderOf
    <3>2. hdr[p][i].seq \in Nat
      <4>1. hdr[p][i] \in HeaderRecord
        BY <2>2
      <4> QED BY <4>1 DEF HeaderRecord
    <3>3. CASE Q[r].pc = "announce"
      <4>1. Seqno(r)' = Seqno(r) + 1
        BY <1>2, <2>1, <3>3
      <4> QED BY <2>1, <3>1, <3>2, <3>3, <4>1
    <3>4. CASE Q[r].pc # "announce"
      BY <2>1, <3>1, <3>2, <3>4
    <3> QED BY <3>3, <3>4
  <2> QED BY <1>1, <2>3 DEF HeaderOf
<1> QED BY <1>2, <1>4, <1>5, <1>6, <1>7, <1>8, <1>9, <1>10, <1>11, <1>12, <1>13, <1>14 DEF Begun

(* What is on the way when a gate or a bulk operation begins: if the peer  *)
(* was there first, the rank that follows finds its bulk messages.         *)
LEMMA StartWire ==
  ASSUME NEW P, NEW Q, NEW r \in Rank, NEW p, p = Peer(r), Inv(P), mode' = mode, ~MayDiverge,
         NEW o \in Op, Issues(r, o), ~AuxDue(r), Q[p] = P[p],
         Q[r].pc \notin {"idle", "drainwait"} \cup Body,
         tp' = tp, rq' = rq, wire' = wire, gates'[p] = gates[p],
         SentDecode(Q, r)' = SentDecode(P, r)
  PROVE  WireOf(Q, r)' /\ WireOf(Q, p)'
<1>1. /\ plan'[p] = plan[p] /\ n(r)' = n(r) + 1 /\ n(p)' = n(p) /\ Current(r)' = o
      /\ P[r] = op[r] /\ P[r].pc = "idle" /\ p \in Rank /\ Peer(p) = r /\ p # r
      /\ ~Ahead(r) /\ n(r) \in Nat /\ n(p) \in Nat
      /\ Level(r) => Ahead(r)' /\ ~Level(r)' /\ ~Ahead(p)' /\ ~Level(p)'
      /\ Ahead(p) => /\ Level(r)' /\ ~Ahead(r)' /\ ~Ahead(p)' /\ Level(p)' /\ o = Current(p) /\ n(p) > 0
      /\ \A ks : IsKind(r, ks)' <=> o.kind \in ks
  <2>1. OpIsIssued(P, r, p, o)
    BY OpIssued
  <2> QED BY <2>1 DEF OpIsIssued
<1>2. /\ Typed /\ P \in Progress /\ WireOf(P, r) /\ WireOf(P, p) /\ SyncOf(P, r) /\ SyncOf(P, p)
      /\ WindowOf(P, r) /\ QueueOf(P, r) /\ (Level(r) \/ Ahead(p))
      /\ (Level(r) <=> n(r) = n(p)) /\ (Level(p) <=> n(r) = n(p)) /\ (Ahead(p) <=> n(p) = n(r) + 1)
  BY <1>1, Sides, InvOf
<1>3. P[r].pc \notin Body /\ P[r].pc # "drainwait" /\ Q[r].pc \notin Body /\ Q[r].pc # "drainwait"
      /\ Q[r].pc # "idle"
  BY <1>1 DEF Body
<1>4. /\ SentDecode(P, r) = First(mode)[gates[r] + 1] /\ gates[r] = tp[r].last
  BY <1>1, RowDone
<1>5. Delivered(Q, r)' = Delivered(P, r)
  <2>1. End(r)' = End(r)
    BY DEF End
  <2> QED BY <1>3, <2>1 DEF Delivered
<1>6. /\ SentDecode(Q, p)' = SentDecode(P, p) /\ Delivered(Q, p)' = Delivered(P, p)
      /\ Sent(Q, p)' = Sent(P, p) /\ Posted(Q, p)' = Posted(P, p)
  BY <1>1, SameValues
<1>7. Posted(Q, r)' = 0 /\ Sent(Q, r)' = 0
  BY <1>3 DEF Posted, Sent, Body
<1>8. CASE Level(r) /\ P[p].pc \notin Body
  <2>1. P[p].pc \in {"idle", "wait", "auxwait"}
    BY <1>1, <1>2, <1>8 DEF SyncOf, SentAll, Body
  <2>2. P[p].pc # "drainwait"
    BY <2>1
  <2>3. ~Filling(P, r) /\ ~Bulking(P, r) /\ ~Filling(P, p) /\ ~Bulking(P, p)
    BY <1>1, <1>3, <1>8, <2>2 DEF Filling, Bulking
  <2>4. ~Filling(Q, r)' /\ ~Bulking(Q, r)' /\ ~Filling(Q, p)' /\ ~Bulking(Q, p)'
    BY <1>1, <1>3, <1>8, <2>2 DEF Filling, Bulking
  <2>5. WireOf(Q, r)'
    BY <1>1, <1>2, <1>5, <1>6, <2>3, <2>4, WireFrame
  <2>6. WireOf(Q, p)'
    BY <1>1, <1>2, <1>5, <1>6, <2>3, <2>4, WireFrame
  <2> QED BY <2>5, <2>6
<1>9. CASE Level(r) /\ P[p].pc \in Body
  <2>1. wire[p] = <<>> /\ rq[p] = <<>> /\ wire[r] = <<>> /\ rq[r] = <<>>
        /\ ~tp[r].win /\ ~tp[p].win /\ P[p].pc = "bulkwait" /\ IsKind(p, Bulk)
    BY <1>1, <1>9, CaughtUp
  <2>2. ~Level(r)' /\ ~Level(p)' /\ ~(n(p)' >= n(r)')
    BY <1>1, <1>2, <1>9
  <2>3. ~Filling(Q, r)' /\ ~Filling(Q, p)'
    BY <1>1, <2>2 DEF Filling
  <2>4. ~Bulking(Q, r)' /\ ~Bulking(Q, p)'
    BY <1>1, <1>3, <2>2 DEF Bulking
  <2>5. Delivered(P, r) = First(mode)[tp[r].last + 1] /\ Delivered(P, p) = First(mode)[tp[p].last + 1]
    BY <1>1, <1>3, <1>9, <2>1, DeliveredIs
  <2>6. SentDecode(P, p) = First(mode)[gates[p] + 1] /\ gates[p] = gates[r] /\ gates[p] = tp[p].last
    <3>1. P[p].pc \notin RowPc /\ P[p].pc \notin {"arm", "send"} /\ ~IsKind(p, Row)
      BY <1>1, <2>1, KindPc DEF RowPc
    <3>2. SentDecode(P, p) = First(mode)[gates[p] + 1]
      BY <1>1, <3>1, SentBounds
    <3>3. gates[p] = tp[p].last
      BY <1>1, <3>1, InvOf DEF GateOf
    <3>4. Level(r) => gates[r] = gates[p] /\ (n(r) > 0 => Current(r) = Current(p))
      BY Sides
    <3> QED BY <1>9, <3>2, <3>3, <3>4
  <2>7. First(mode)[gates[r] + 1] \in Nat
    BY SentBounds
  <2>8. \A a \in Nat : Stream(mode, <<>>, a, a)
    BY DEF Stream
  <2>9. Stream(mode, wire[r], Delivered(P, r), SentDecode(P, p))
    BY <1>4, <2>1, <2>5, <2>6, <2>7, <2>8
  <2>10. Stream(mode, wire[p], Delivered(P, p), SentDecode(P, r))
    BY <1>4, <2>1, <2>5, <2>6, <2>7, <2>8
  <2>11. WireOf(Q, r)'
    BY <1>1, <1>5, <1>6, <2>3, <2>4, <2>9, mode' = mode DEF WireOf
  <2>12. WireOf(Q, p)'
    BY <1>1, <1>5, <1>6, <2>3, <2>4, <2>10, mode' = mode DEF WireOf
  <2> QED BY <2>11, <2>12
<1>10. CASE Ahead(p)
  <2>1. n(p) = n(r) + 1 /\ n(r) < n(p) /\ ~(n(p) < n(r)) /\ n(p) >= n(r) /\ ~Level(r) /\ ~Level(p)
        /\ ~(n(r)' < n(p)') /\ ~(n(p)' < n(r)') /\ n(p)' >= n(r)'
    BY <1>1, <1>2, <1>10
  <2>2. P[p].pc \in {"drainwait"} \cup Body => ~tp[r].win
    <3>1. P[p].pc \in {"drainwait"} \cup Body => ~WindowBefore(p)
      BY <1>1, <1>2, <1>10 DEF SyncOf
    <3>2. WindowBefore(p) <=> n(r) > 0 /\ Current(r).kind \notin Bulk
      BY <1>1, <1>10, Sides
    <3>3. tp[r].win <=> IsKind(r, Row \cup {"aux"})
      BY <1>1, <1>2 DEF WindowOf
    <3>4. IsKind(r, Row \cup {"aux"}) => n(r) > 0 /\ Current(r).kind \notin Bulk
      BY KindPc DEF IsKind
    <3> QED BY <3>1, <3>2, <3>3, <3>4
  <2>3. ~Filling(P, r) /\ ~Filling(P, p)
    BY <2>1 DEF Filling
  <2>4. ~Filling(Q, r)' /\ ~Filling(Q, p)'
    BY <1>1, <1>3, <2>2 DEF Filling
  <2>5. (Bulking(P, r) <=> P[p].pc \in Body) /\ (Bulking(P, p) <=> P[p].pc \in Body)
    BY <1>1, <1>3, <2>1, <2>3 DEF Bulking
  <2>6. (Bulking(Q, r)' <=> P[p].pc \in Body) /\ (Bulking(Q, p)' <=> P[p].pc \in Body)
    BY <1>1, <1>3, <2>1, <2>4 DEF Bulking
  <2>7. P[p].pc \in Body => rq[r] = <<>> /\ Len(rq[r]) = 0
    BY <1>2, <1>3, <2>2 DEF QueueOf
  <2>8. P[p].pc \in Body => Got(P, r) = 0 /\ Got(Q, r)' = 0 /\ Out(Q, r)' = Out(P, r)
    <3>1. Got(P, r) = 0
      BY <2>1 DEF Got
    <3>2. P[p].pc \in Body => Got(Q, r)' = 0
      BY <1>7, <2>1, <2>7 DEF Got
    <3>3. Out(Q, r)' = Out(P, r)
      BY <1>6, <2>1 DEF Out
    <3> QED BY <3>1, <3>2, <3>3
  <2>9. WireOf(Q, r)'
    BY <1>1, <1>2, <1>5, <1>6, <2>3, <2>4, <2>5, <2>6, <2>8, WireFrame
  <2>10. CASE P[p].pc \notin Body
    BY <1>1, <1>2, <1>5, <1>6, <2>3, <2>4, <2>5, <2>6, <2>10, WireFrame, <2>9
  <2>11. CASE P[p].pc \in Body
    <3>1. Segment(wire[p], n(r), Got(P, p), Out(P, p))
      BY <1>1, <1>2, <2>5, <2>11 DEF WireOf
    <3>2. Out(P, p) = 0 /\ Out(Q, p)' = 0
      BY <1>1, <1>7, <2>1 DEF Out
    <3>3. Got(P, p) = Posted(P, p) - Len(rq[p]) /\ Got(Q, p)' = Got(P, p)
      BY <1>1, <1>6, <2>1 DEF Got
    <3>4. Posted(P, p) - Len(rq[p]) \in Nat
      BY <1>1, <2>11, BulkFacts
    <3>5. Len(wire[p]) = 0 - Got(P, p) /\ Len(wire[p]) \in Nat
      BY <1>1, <1>2, <3>1, <3>2, RankFacts DEF Segment
    <3>6. Len(wire[p]) = 0
      BY <3>3, <3>4, <3>5
    <3>7. Segment(wire[p], n(r)', Got(Q, p)', Out(Q, p)')
      BY <3>2, <3>3, <3>5, <3>6 DEF Segment
    <3>8. Segment(wire'[p], n(r)', Got(Q, p)', Out(Q, p)')
      BY <3>7
    <3>9. WireOf(Q, p)'
      BY <1>1, <2>4, <2>6, <2>11, <3>8 DEF WireOf
    <3> QED BY <2>9, <3>9
  <2> QED BY <2>10, <2>11
<1> QED BY <1>2, <1>8, <1>9, <1>10

(* A decode gate begins.                                                   *)
LEMMA StartGateInv ==
  ASSUME NEW P, NEW Q, NEW r \in Rank, NEW p, p = Peer(r), Inv(P), Typed', mode' = mode, ~MayDiverge,
         NEW o \in Op, StartGate(r, o), Q = [P EXCEPT ![r] = op'[r]]
  PROVE  Inv(Q)'
<1>1. /\ o.kind \in Row /\ Issues(r, o) /\ o.at = SlotOf(gates[r] + 1)
      /\ gates' = [gates EXCEPT ![r] = @ + 1]
      /\ Goto(r, IF tp[r].win THEN "send" ELSE "arm")
      /\ UNCHANGED <<tp, done, rq, wire, unacked, cq, inbuf, hdr>>
  BY DEF StartGate, Issues, nicVars
<1>2. /\ Typed /\ P \in Progress /\ PcOf(P, r) /\ GateOf(P, r) /\ WindowOf(P, r) /\ QueueOf(P, r)
      /\ RecvOf(P, r) /\ DataOf(P, r) /\ SendOf(P, r) /\ AckOf(P, r) /\ WireOf(P, r) /\ WireOf(P, p)
      /\ DoneOf(P, r) /\ MarkOf(P, r) /\ RowOf(P, r)
  BY Sides, InvOf
<1>3. /\ op'[r].pc = (IF tp[r].win THEN "send" ELSE "arm") /\ op'[p] = op[p]
  BY <1>1, <1>2, GotoIs
<1>4. /\ plan'[p] = plan[p] /\ n(r)' = n(r) + 1 /\ n(p)' = n(p) /\ Current(r)' = o
      /\ P[r] = op[r] /\ P[r].pc = "idle" /\ ~tp[r].failed /\ p \in Rank /\ Peer(p) = r /\ p # r
      /\ n(r) \in Nat
      /\ \A ks : IsKind(r, ks)' <=> o.kind \in ks
  <2>1. OpIsIssued(P, r, p, o)
    BY <1>1, OpIssued
  <2> QED BY <2>1 DEF OpIsIssued
<1>5. gates'[r] = gates[r] + 1 /\ gates'[p] = gates[p]
  BY <1>1, <1>2, <1>4 DEF Typed
<1>6. Untouched(p)
  BY <1>1, <1>3, <1>4, <1>5 DEF Untouched
<1>7. /\ o.kind # "aux" /\ o.kind \notin Bulk /\ op'[r].pc \in StartPc /\ op'[r].pc \in RowPc
      /\ op'[r].pc \in {"arm", "send"} /\ op'[r].pc \notin HeadPc /\ op'[r].pc \notin {"drain", "auxwait", "announce"}
      /\ op'[r].pc \notin {"wait", "idle", "drainwait"} /\ op'[r].pc \notin Body /\ op'[r].pc \in DecodePc
  BY <1>1, <1>3 DEF StartPc, RowPc, HeadPc, Row, Bulk, Body, DecodePc
<1>8. /\ Q \in Progress /\ Q[r] = op'[r] /\ Q[p] = P[p]
      /\ Own(Q, p)' /\ ProgramOf(r)' /\ ProgramOf(p)' /\ SendOf(Q, p)' /\ AckOf(Q, p)' /\ RowOf(Q, p)'
      /\ SyncOf(Q, r)' /\ SyncOf(Q, p)' /\ HeaderOf(Q, r)' /\ HeaderOf(Q, p)'
      /\ PcOf(Q, r)' /\ DoneOf(Q, r)'
      /\ Awaited(P, r) = 0 /\ Awaited(Q, r)' = 0
      /\ P[r].pc \notin {"drainwait", "wait"} \cup Body /\ P[r].pc \in DecodePc
  <2>1. gates'[r] = gates[r] + (IF o.kind \in Row THEN 1 ELSE 0)
    BY <1>1, <1>5
  <2>2. UNCHANGED <<done, tp, hdr>> /\ unacked'[p] = unacked[p] /\ wire'[r] = wire[r]
    BY <1>1
  <2>p. Begun(P, Q, r, p)
    BY <1>1, <1>6, <1>7, <2>1, <2>2, Begins
  <2> QED BY <2>p DEF Begun
<1>9. ~AuxDue(r)
  BY <1>1, <1>7 DEF Issues
<1>10. /\ SentDecode(P, r) = First(mode)[gates[r] + 1] /\ gates[r] = tp[r].last
       /\ Polled(P, r) = First(mode)[tp[r].last + 1] /\ gates[r] \in Nat /\ tp[r].last \in Nat
  BY <1>2, <1>4, <1>9, RowDone, RankFacts
<1>11. /\ SentDecode(Q, r)' = SentDecode(P, r) /\ Polled(Q, r)' = Polled(P, r)
       /\ Delivered(Q, r)' = Delivered(P, r) /\ End(r)' = End(r)
       /\ SentDecode(P, r) \in Nat
  <2>1. End(r)' = End(r)
    BY <1>1, mode' = mode DEF End
  <2>2. Delivered(Q, r)' = Delivered(P, r)
    BY <1>1, <1>7, <1>8, <2>1 DEF Delivered
  <2>3. Polled(Q, r)' = First(mode)[tp[r].last + 1]
    BY <1>1, <1>7, <1>8, mode' = mode DEF Polled
  <2>4. SentDecode(Q, r)' = First(mode)[gates[r] + 1]
    BY <1>5, <1>7, <1>8, mode' = mode DEF SentDecode
  <2> QED BY <1>10, <2>1, <2>2, <2>3, <2>4, SentBounds
<1>12. WindowOf(Q, r)'
  <2>1. ~tp[r].win => tp[r].recvDone <= tp[r].last /\ tp[r].auxRecv <= tp[r].last
    BY <1>2 DEF WindowOf
  <2> QED BY <1>1, <1>3, <1>7, <1>8, <2>1 DEF WindowOf
<1>13. GateOf(Q, r)'
  <2>1. tp[r].recvDone < LastGate /\ tp[r].auxRecv < LastGate /\ tp[r].auxSend < LastGate
    BY <1>2 DEF GateOf
  <2>2. gates'[r] = tp[r].last + 1 /\ gates'[r] >= 1 /\ Current(r)'.at = SlotOf(gates'[r])
    BY <1>1, <1>4, <1>5, <1>10
  <2>3. ~IsKind(r, {"aux"})'
    BY <1>4, <1>7
  <2> QED BY <1>1, <1>7, <1>8, <2>1, <2>2, <2>3 DEF GateOf
<1>14. QueueOf(Q, r)'
  BY <1>1, <1>2, <1>7, <1>8, <1>11, mode' = mode DEF QueueOf
<1>15. RecvOf(Q, r)'
  <2>1. ~tp[r].win => Count(cq[r], Received) = 0
    BY <1>2, <1>8 DEF RecvOf
  <2> QED BY <1>1, <1>7, <1>8, <2>1 DEF RecvOf
<1>16. MarkOf(Q, r)'
  BY <1>1, <1>2, <1>8, <1>11, mode' = mode DEF MarkOf
<1>17. DataOf(Q, r)'
  <2>1. ~IsKind(r, Bulk)'
    BY <1>4, <1>7
  <2>2. ASSUME NEW k \in 1 .. LastGate - 1, k >= gates[r] + 1
        PROVE  k >= gates[r] + (IF IsKind(r, Bulk) THEN 1 ELSE 0)
    BY <1>10, <2>2, LastGateNat
  <2>3. \A k \in 1 .. LastGate - 1 : k >= gates[r] + 1 =>
          /\ \A j \in 1 .. mode.chunks :
               First(mode)[k] + j - 1 < Delivered(P, r) => inbuf[r][<<"gate", SlotOf(k), j>>] = k
          /\ Eligible(mode, k) /\ First(mode)[k] + mode.chunks < Delivered(P, r) =>
               inbuf[r][<<"aux", SlotOf(k), 1>>] = k
    BY <1>2, <1>8, <2>2 DEF DataOf
  <2>4. gates'[r] + 0 = gates[r] + 1
    BY <1>5, <1>10
  <2> QED BY <1>1, <1>5, <1>10, <1>11, <2>1, <2>3, <2>4, mode' = mode DEF DataOf
<1>18. SendOf(Q, r)'
  BY <1>1, <1>2, <1>8 DEF SendOf
<1>19. AckOf(Q, r)'
  <2>1. ~IsKind(r, {"aux"})' /\ Q[r].pc # "idle" /\ Q[r].pc # "wait"
    BY <1>4, <1>7, <1>8
  <2>2. /\ \A i \in 1 .. Len(unacked[r]) : unacked[r][i].tag # "bulk" =>
             /\ Unit(mode, unacked[r][i]) /\ Number(mode, unacked[r][i]) < SentDecode(P, r)
             /\ Before(mode, Number(mode, unacked[r][i]) + 1, wire[p])
        /\ \A i \in 1 .. Len(cq[r]) : cq[r][i].dir = "send" /\ cq[r][i].tag # "bulk" =>
             /\ Unit(mode, cq[r][i]) /\ Number(mode, cq[r][i]) < SentDecode(P, r)
             /\ Before(mode, Number(mode, cq[r][i]) + 1, wire[p])
        /\ tp[r].auxSend >= 1 => /\ First(mode)[tp[r].auxSend + 1] <= SentDecode(P, r)
                                 /\ Before(mode, First(mode)[tp[r].auxSend + 1], wire[p])
    BY <1>2 DEF AckOf, Behind, AckSent, AckDone, AckAux, AckRow
  <2> QED BY <1>1, <1>8, <1>11, <2>1, <2>2, mode' = mode DEF AckOf, Behind, AckSent, AckDone, AckAux, AckRow, Before
<1>20. RowOf(Q, r)'
  <2>1. Vector(mode)
    BY <1>2, RankFacts
  <2>2. ASSUME NEW u, Unit(mode, u), Number(mode, u) < SentDecode(P, r), u.tag = "gate" PROVE u.id # gates[r] + 1
    BY <1>10, <1>11, <2>1, <2>2, NumberIn
  <2>3. ASSUME NEW i \in 1 .. Len(wire[p]), wire[p][i].tag = "gate" PROVE wire[p][i].id # gates[r] + 1
    <3>1. CASE Filling(P, p) \/ Bulking(P, p)
      BY <1>4, <2>3, <3>1, BulkTags
    <3>2. CASE ~Filling(P, p) /\ ~Bulking(P, p)
      <4>1. Unit(mode, wire[p][i]) /\ Number(mode, wire[p][i]) < SentDecode(P, r)
        BY <1>4, <2>3, <3>2, DecodeWire
      <4> QED BY <2>2, <2>3, <4>1
    <3> QED BY <3>1, <3>2
  <2>4. \A i \in 1 .. Len(unacked[r]) : unacked[r][i].tag = "gate" => unacked[r][i].id # gates[r] + 1
    BY <1>2, <2>2 DEF AckOf, Behind, AckSent, AckDone, AckAux, AckRow
  <2>5. \A i \in 1 .. Len(cq[r]) : cq[r][i].dir = "send" /\ cq[r][i].tag = "gate" => cq[r][i].id # gates[r] + 1
    BY <1>2, <2>2 DEF AckOf, Behind, AckSent, AckDone, AckAux, AckRow
  <2>6. \A u : LastSignals(r, u)' <=> (u.tag = "gate" /\ u.id = gates[r] + 1 => u.part = mode.chunks)
    BY <1>5, mode' = mode DEF LastSignals
  <2>7. /\ \A i \in 1 .. Len(wire[p]) : wire[p][i].tag = "gate" /\ wire[p][i].id = gates[r] + 1 =>
             wire[p][i].part = mode.chunks
        /\ \A i \in 1 .. Len(unacked[r]) : unacked[r][i].tag = "gate" /\ unacked[r][i].id = gates[r] + 1 =>
             unacked[r][i].part = mode.chunks
        /\ \A i \in 1 .. Len(cq[r]) : cq[r][i].dir = "send" /\ cq[r][i].tag = "gate" /\ cq[r][i].id = gates[r] + 1 =>
             cq[r][i].part = mode.chunks
    BY <2>3, <2>4, <2>5
  <2> QED BY <1>1, <1>5, <2>7, mode' = mode DEF RowOf, LastSignals
<1>21. WireOf(Q, r)' /\ WireOf(Q, p)'
  <2>1. Q[r].pc \notin {"idle", "drainwait"} \cup Body
    BY <1>7, <1>8
  <2> QED BY <1>1, <1>5, <1>8, <1>9, <1>11, <2>1, StartWire
<1> QED BY <1>4, <1>8, <1>12, <1>13, <1>14, <1>15, <1>16, <1>17, <1>18, <1>19, <1>20, <1>21,
           Whole DEF Own, Shared

(* A paired exchange begins: the auxiliary payload of the last gate is     *)
(* sent.                                                                   *)
LEMMA StartAuxInv ==
  ASSUME NEW P, NEW Q, NEW r \in Rank, NEW p, p = Peer(r), Inv(P), Typed', mode' = mode, ~MayDiverge,
         NEW o \in Op, StartAux(r, o), Q = [P EXCEPT ![r] = op'[r]]
  PROVE  Inv(Q)'
<1> DEFINE ws == << Msg("aux", tp[r].last, 1, "aux", TRUE) >>
           g == gates[r]
<1>1. /\ o.kind = "aux" /\ Issues(r, o) /\ Send(r, ws) /\ Goto(r, "auxwait")
      /\ UNCHANGED <<tp, done, gates, rq, unacked, cq, inbuf, hdr>>
  BY DEF StartAux
<1>2. /\ Typed /\ P \in Progress /\ PcOf(P, r) /\ GateOf(P, r) /\ WindowOf(P, r) /\ QueueOf(P, r)
      /\ RecvOf(P, r) /\ DataOf(P, r) /\ SendOf(P, r) /\ AckOf(P, r) /\ WireOf(P, r) /\ WireOf(P, p)
      /\ DoneOf(P, r) /\ MarkOf(P, r) /\ RowOf(P, r)
  BY Sides, InvOf
<1>3. op'[r].pc = "auxwait" /\ op'[p] = op[p]
  BY <1>1, <1>2, GotoIs
<1>4. wire'[p] = wire[p] \o ws /\ wire'[r] = wire[r]
  BY <1>1, <1>2, SendIs
<1>5. /\ plan'[p] = plan[p] /\ n(r)' = n(r) + 1 /\ n(p)' = n(p) /\ Current(r)' = o
      /\ \A i \in 1 .. n(r) : plan'[r][i] = plan[r][i]
      /\ P[r] = op[r] /\ P[r].pc = "idle" /\ ~tp[r].failed /\ p \in Rank /\ Peer(p) = r /\ p # r
      /\ n(r) \in Nat /\ ~Ahead(r)
      /\ \A ks : IsKind(r, ks)' <=> o.kind \in ks
  <2>1. OpIsIssued(P, r, p, o)
    BY <1>1, OpIssued
  <2> QED BY <2>1 DEF OpIsIssued
<1>6. Untouched(p)
  BY <1>1, <1>3, <1>4, <1>5 DEF Untouched
<1>7. /\ o.kind \notin Row /\ o.kind \notin Bulk /\ op'[r].pc \in StartPc /\ op'[r].pc \notin RowPc
      /\ op'[r].pc \notin HeadPc /\ op'[r].pc \notin {"drain", "announce"}
      /\ op'[r].pc \notin {"arm", "send", "wait", "idle", "drainwait"} /\ op'[r].pc \notin Body
      /\ op'[r].pc \in DecodePc
  BY <1>1, <1>3 DEF StartPc, RowPc, HeadPc, Row, Bulk, Body, DecodePc
<1>8. /\ Q \in Progress /\ Q[r] = op'[r] /\ Q[p] = P[p]
      /\ Own(Q, p)' /\ ProgramOf(r)' /\ ProgramOf(p)' /\ SendOf(Q, p)' /\ AckOf(Q, p)' /\ RowOf(Q, p)'
      /\ SyncOf(Q, r)' /\ SyncOf(Q, p)' /\ HeaderOf(Q, r)' /\ HeaderOf(Q, p)'
      /\ PcOf(Q, r)' /\ DoneOf(Q, r)'
      /\ Awaited(P, r) = 0 /\ Awaited(Q, r)' = 0
      /\ SentDecode(Q, p)' = SentDecode(P, p) /\ Delivered(Q, p)' = Delivered(P, p)
      /\ P[r].pc \notin {"drainwait", "wait"} \cup Body /\ P[r].pc \in DecodePc
  <2>1. gates'[r] = gates[r] + (IF o.kind \in Row THEN 1 ELSE 0)
    <3>1. gates[r] \in Nat
      BY <1>2, RankFacts
    <3> QED BY <1>1, <1>7, <3>1
  <2>2. UNCHANGED <<done, tp, hdr>> /\ unacked'[p] = unacked[p] /\ wire'[r] = wire[r]
    BY <1>1, <1>4
  <2>p. Begun(P, Q, r, p)
    BY <1>1, <1>3, <1>6, <1>7, <2>1, <2>2, Begins
  <2> QED BY <2>p DEF Begun
<1>9. /\ n(r) > 0 /\ Current(r).kind \in Row /\ Current(r).at \in mode.aux /\ o.at = Current(r).at
      /\ IsKind(r, Row) /\ ~IsKind(r, Bulk) /\ IsKind(r, Row \cup {"aux"})
  <2>1. plan[r] # <<>> /\ Current(r).kind \in Row /\ Current(r).at \in mode.aux /\ o.at = Current(r).at
    BY <1>1 DEF Issues, AuxDue
  <2>2. n(r) > 0
    BY <1>2, <2>1, RankFacts
  <2>3. IsKind(r, Row)
    BY <2>1, <2>2 DEF IsKind
  <2> QED BY <2>1, <2>2, <2>3, KindPc
<1>10. /\ tp[r].win /\ g = tp[r].last /\ g >= 1 /\ Current(r).at = SlotOf(g) /\ Eligible(mode, g)
       /\ g \in 1 .. LastGate - 1 /\ Vector(mode) /\ mode.chunks \in Nat
       /\ First(mode)[g] \in Nat /\ First(mode)[g + 1] = First(mode)[g] + mode.chunks + 1
       /\ First(mode)[g + 1] \in Nat
  <2>1. tp[r].win
    BY <1>2, <1>5, <1>9 DEF WindowOf
  <2>2. g = tp[r].last
    BY <1>2, <1>5 DEF GateOf, RowPc
  <2>3. g >= 1 /\ Current(r).at = SlotOf(g)
    BY <1>2, <1>9 DEF GateOf
  <2>4. Eligible(mode, g)
    BY <1>9, <2>3 DEF Eligible
  <2>5. g \in 1 .. LastGate - 1 /\ Vector(mode) /\ mode.chunks \in Nat
    BY <1>2, <1>9, SentBounds, RankFacts
  <2> QED BY <2>1, <2>2, <2>3, <2>4, <2>5, FirstNext
<1>11. /\ SentDecode(P, r) = First(mode)[g] + mode.chunks /\ SentDecode(Q, r)' = First(mode)[g + 1]
       /\ Polled(Q, r)' = Polled(P, r)
       /\ Delivered(Q, r)' = Delivered(P, r) /\ End(r)' = End(r)
  <2>1. End(r)' = End(r)
    BY <1>1, mode' = mode DEF End
  <2>2. Delivered(Q, r)' = Delivered(P, r)
    BY <1>1, <1>7, <1>8, <2>1 DEF Delivered
  <2>3. Polled(Q, r)' = Polled(P, r)
    BY <1>1, <1>3, <1>5, <1>8, <1>9, mode' = mode DEF Polled
  <2>4. SentDecode(P, r) = First(mode)[g] + mode.chunks
    BY <1>5, <1>9 DEF SentDecode
  <2>5. ~IsKind(r, Row)'
    BY <1>5, <1>7
  <2>6. SentDecode(Q, r)' = First(mode)[g + 1]
    BY <1>1, <1>7, <1>8, <2>5, mode' = mode DEF SentDecode
  <2> QED BY <2>1, <2>2, <2>3, <2>4, <2>6
<1>12. WindowOf(Q, r)'
  BY <1>1, <1>3, <1>7, <1>8, <1>10 DEF WindowOf
<1>13. GateOf(Q, r)'
  <2>1. tp[r].recvDone < LastGate /\ tp[r].auxRecv < LastGate /\ tp[r].auxSend < LastGate
    BY <1>2 DEF GateOf
  <2>2. ~IsKind(r, Row)'
    BY <1>5, <1>7
  <2>3. n(r)' > 1 /\ n(r)' - 1 = n(r) /\ n(r) \in 1 .. n(r)
    BY <1>5, <1>9
  <2>4. plan'[r][n(r)' - 1].kind \in Row
    <3>1. plan'[r][n(r)' - 1] = plan[r][n(r)]
      BY <1>5, <2>3
    <3> QED BY <1>9, <3>1 DEF Current, n
  <2>5. Current(r)'.at = SlotOf(g)
    BY <1>5, <1>9, <1>10
  <2> QED BY <1>1, <1>7, <1>8, <1>10, <2>1, <2>2, <2>3, <2>4, <2>5, mode' = mode DEF GateOf
<1>14. QueueOf(Q, r)'
  BY <1>1, <1>2, <1>7, <1>8, <1>11, mode' = mode DEF QueueOf
<1>15. RecvOf(Q, r)'
  BY <1>1, <1>7, <1>8, <1>10 DEF RecvOf
<1>16. MarkOf(Q, r)'
  BY <1>1, <1>2, <1>8, <1>11, mode' = mode DEF MarkOf
<1>17. DataOf(Q, r)'
  <2>1. ~IsKind(r, Bulk)'
    BY <1>5, <1>7
  <2> QED BY <1>1, <1>2, <1>8, <1>9, <1>11, <2>1, mode' = mode DEF DataOf
<1>18. /\ ws \in Seq(Message) /\ Stream(mode, ws, First(mode)[g] + mode.chunks, First(mode)[g + 1])
       /\ wire[p] \in Seq(Message)
  BY <1>2, <1>5, <1>10, AuxStream, RankFacts
<1>19. Len(ws) = 1 /\ ws[1].tag = "aux" /\ \A i \in 1 .. Len(ws) : i = 1
  BY DEF Msg
<1>20. Number(mode, ws[1]) = First(mode)[g] + mode.chunks
  <2>1. 1 \in 1 .. Len(ws)
    BY <1>19
  <2>2. Number(mode, ws[1]) = First(mode)[g] + mode.chunks + 1 - 1
    BY <1>18, <2>1 DEF Stream
  <2>3. \A a, b \in Int : a + b + 1 - 1 = a + b
    OBVIOUS
  <2>4. First(mode)[g] \in Int /\ mode.chunks \in Int
    BY <1>10
  <2> QED BY ONLY <2>2, <2>3, <2>4
<1> HIDE DEF ws
<1>21. SendOf(Q, r)'
  <2>1. Count(ws, SignalsBulk) = 0
    <3>1. \A i \in 1 .. Len(ws) : ws[i] \notin SignalsBulk
      BY <1>19 DEF SignalsBulk
    <3>2. Len(ws) \in Nat
      BY <1>19
    <3> QED BY <1>18, <3>1, <3>2, CountZero
  <2>2. Count(wire[p], SignalsBulk) \in Nat
    BY <1>18, CountType
  <2>3. Count(wire'[p], SignalsBulk) = Count(wire[p], SignalsBulk)
    BY <1>4, <1>18, <2>1, <2>2, CountConcat
  <2> QED BY <1>1, <1>2, <1>8, <2>3 DEF SendOf
<1>22. AckOf(Q, r)'
  <2>1. SentDecode(P, r) <= SentDecode(Q, r)' /\ SentDecode(Q, r)' \in Nat
    BY <1>10, <1>11
  <2>2. \A i \in 1 .. Len(ws) : ws[i].tag # "bulk" =>
          Number(mode, ws[i]) \in Nat /\ SentDecode(P, r) <= Number(mode, ws[i])
    BY <1>10, <1>11, <1>19, <1>20
  <2>3. ~IsKind(r, {"rgate"})' /\ Q[r].pc # "idle"
    BY <1>1, <1>5, <1>7, <1>8
  <2> QED BY <1>1, <1>4, <1>18, <2>1, <2>2, <2>3, AckMore
<1>23. RowOf(Q, r)'
  BY <1>7, <1>8 DEF RowOf
<1>24. /\ ~Filling(P, r) /\ ~Bulking(P, r) /\ ~Filling(P, p) /\ ~Bulking(P, p)
       /\ ~Filling(Q, r)' /\ ~Bulking(Q, r)' /\ ~Filling(Q, p)' /\ ~Bulking(Q, p)'
  <2>1. P[p].pc \notin Body \cup {"drainwait"}
    BY <1>5, <1>9, DecodeSides, Sides
  <2>2. P[r].pc \notin Body /\ P[r].pc # "drainwait" /\ Q[r].pc \notin Body /\ Q[r].pc # "drainwait"
    BY <1>7, <1>8
  <2> QED BY <1>5, <1>8, <2>1, <2>2 DEF Filling, Bulking
<1>25. WireOf(Q, r)'
  BY <1>1, <1>2, <1>4, <1>8, <1>11, <1>24, WireFrame
<1>26. WireOf(Q, p)'
  <2>1. Stream(mode, wire[p], Delivered(P, p), First(mode)[g] + mode.chunks)
    BY <1>2, <1>5, <1>11, <1>24 DEF WireOf
  <2>2. Delivered(P, p) \in Int /\ First(mode)[g] + mode.chunks \in Int /\ First(mode)[g + 1] \in Int
    BY <1>5, <1>10, DeliveredIs
  <2>3. Stream(mode, wire[p] \o ws, Delivered(P, p), First(mode)[g + 1])
    BY <1>18, <2>1, <2>2, StreamConcat
  <2>4. Stream(mode, wire'[p], Delivered(Q, p)', SentDecode(Q, r)')
    BY <1>4, <1>8, <1>11, <2>3
  <2> QED BY <1>5, <1>24, <2>4, mode' = mode DEF WireOf
<1> QED BY <1>5, <1>8, <1>12, <1>13, <1>14, <1>15, <1>16, <1>17, <1>21, <1>22, <1>23, <1>25, <1>26,
           Whole DEF Own, Shared

(* A bulk operation begins: of the decode window, if there is one, nothing *)
(* has been received.                                                      *)
LEMMA StartBulkInv ==
  ASSUME NEW P, NEW Q, NEW r \in Rank, NEW p, p = Peer(r), Inv(P), Typed', mode' = mode, ~MayDiverge,
         NEW o \in Op, StartBulk(r, o), Q = [P EXCEPT ![r] = op'[r]]
  PROVE  Inv(Q)'
<1>1. /\ o.kind \in Bulk /\ Issues(r, o)
      /\ Goto(r, IF SkipsHeader(r, o) THEN "drain" ELSE "announce")
      /\ UNCHANGED <<tp, done, gates, rq, wire, unacked, cq, inbuf, hdr>>
  BY DEF StartBulk, nicVars
<1>2. /\ Typed /\ P \in Progress /\ PcOf(P, r) /\ GateOf(P, r) /\ WindowOf(P, r) /\ QueueOf(P, r)
      /\ RecvOf(P, r) /\ DataOf(P, r) /\ SendOf(P, r) /\ AckOf(P, r) /\ WireOf(P, r) /\ WireOf(P, p)
      /\ DoneOf(P, r) /\ MarkOf(P, r) /\ RowOf(P, r)
  BY Sides, InvOf
<1>3. /\ op'[r].pc = (IF SkipsHeader(r, o) THEN "drain" ELSE "announce") /\ op'[p] = op[p]
  BY <1>1, <1>2, GotoIs
<1>4. /\ plan'[p] = plan[p] /\ n(r)' = n(r) + 1 /\ n(p)' = n(p) /\ Current(r)' = o
      /\ P[r] = op[r] /\ P[r].pc = "idle" /\ ~tp[r].failed /\ p \in Rank /\ Peer(p) = r /\ p # r
      /\ n(r) \in Nat /\ n(p) \in Nat /\ ~Ahead(r)
      /\ (Ahead(p) => o = Current(p) /\ n(p) > 0)
      /\ (WindowBefore(r)' <=> tp[r].win)
      /\ \A ks : IsKind(r, ks)' <=> o.kind \in ks
  <2>1. OpIsIssued(P, r, p, o)
    BY <1>1, OpIssued
  <2> QED BY <2>1 DEF OpIsIssued
<1>5. Untouched(p)
  BY <1>1, <1>3, <1>4 DEF Untouched
<1>6. /\ o.kind # "aux" /\ o.kind \notin Row /\ op'[r].pc \in StartPc /\ op'[r].pc \notin RowPc
      /\ op'[r].pc \in HeadPc /\ op'[r].pc \notin {"arm", "send", "wait", "auxwait", "idle", "drainwait"}
      /\ op'[r].pc \notin Body /\ op'[r].pc \notin DecodePc /\ o.kind # "rgate"
      /\ (op'[r].pc = "drain" => ~tp[r].win)
  BY <1>1, <1>3 DEF StartPc, RowPc, HeadPc, Row, Bulk, Body, DecodePc, SkipsHeader
<1>7. /\ Q \in Progress /\ Q[r] = op'[r] /\ Q[p] = P[p]
      /\ Own(Q, p)' /\ ProgramOf(r)' /\ ProgramOf(p)' /\ SendOf(Q, p)' /\ AckOf(Q, p)' /\ RowOf(Q, p)'
      /\ SyncOf(Q, r)' /\ SyncOf(Q, p)' /\ HeaderOf(Q, r)' /\ HeaderOf(Q, p)'
      /\ PcOf(Q, r)' /\ DoneOf(Q, r)'
      /\ Awaited(P, r) = 0 /\ Awaited(Q, r)' = 0
      /\ P[r].pc \notin {"drainwait", "wait"} \cup Body /\ P[r].pc \in DecodePc
  <2>1. gates'[r] = gates[r] + (IF o.kind \in Row THEN 1 ELSE 0)
    <3>1. gates[r] \in Nat
      BY <1>2, RankFacts
    <3> QED BY <1>1, <1>6, <3>1
  <2>2. UNCHANGED <<done, tp, hdr>> /\ unacked'[p] = unacked[p] /\ wire'[r] = wire[r]
    BY <1>1
  <2>p. Begun(P, Q, r, p)
    BY <1>1, <1>5, <1>6, <2>1, <2>2, Begins
  <2> QED BY <2>p DEF Begun
<1>8. ~AuxDue(r)
  BY <1>1, <1>6 DEF Issues
<1>9. /\ SentDecode(P, r) = First(mode)[gates[r] + 1] /\ gates[r] = tp[r].last
      /\ Polled(P, r) = First(mode)[tp[r].last + 1]
  BY <1>4, <1>8, RowDone
<1>10. /\ SentDecode(Q, r)' = SentDecode(P, r)
       /\ Delivered(Q, r)' = Delivered(P, r) /\ End(r)' = End(r) /\ WindowLen(r)' = WindowLen(r)
  <2>1. End(r)' = End(r) /\ WindowLen(r)' = WindowLen(r)
    BY <1>1, mode' = mode DEF End, WindowLen
  <2>2. Delivered(Q, r)' = Delivered(P, r)
    BY <1>1, <1>6, <1>7, <2>1 DEF Delivered
  <2>3. ~IsKind(r, Row)'
    BY <1>4, <1>6
  <2>4. SentDecode(Q, r)' = First(mode)[gates[r] + 1]
    BY <1>1, <1>6, <1>7, <2>3, mode' = mode DEF SentDecode
  <2> QED BY <1>9, <2>1, <2>2, <2>4
<1>11. WindowOf(Q, r)'
  <2>1. ~tp[r].win => tp[r].recvDone <= tp[r].last /\ tp[r].auxRecv <= tp[r].last
    BY <1>2 DEF WindowOf
  <2> QED BY <1>1, <1>4, <1>6, <1>7, <2>1 DEF WindowOf
<1>12. GateOf(Q, r)'
  <2>1. tp[r].recvDone < LastGate /\ tp[r].auxRecv < LastGate /\ tp[r].auxSend < LastGate
    BY <1>2 DEF GateOf
  <2>2. ~IsKind(r, Row)' /\ ~IsKind(r, {"aux"})'
    BY <1>4, <1>6
  <2> QED BY <1>1, <1>6, <1>7, <1>9, <2>1, <2>2 DEF GateOf
<1>13. QueueOf(Q, r)'
  BY <1>1, <1>2, <1>6, <1>7, <1>10, mode' = mode DEF QueueOf
<1>14. tp[r].win => Count(cq[r], Received) = 0 /\ Len(rq[r]) = WindowLen(r)
  <2>1. SUFFICES ASSUME tp[r].win PROVE Count(cq[r], Received) = 0 /\ Len(rq[r]) = WindowLen(r)
    OBVIOUS
  <2>2. IsKind(r, Row \cup {"aux"})
    BY <1>2, <1>4, <2>1 DEF WindowOf
  <2>3. P[p].pc \notin Body \cup {"drainwait"} /\ (Level(r) \/ Ahead(p))
    BY <1>4, <2>2, DecodeSides, Sides
  <2>4. ~Filling(P, r) /\ ~Bulking(P, r)
    BY <1>4, <1>7, <2>3 DEF Filling, Bulking
  <2>5. Delivered(P, r) <= SentDecode(P, p) /\ SentDecode(P, p) \in Nat /\ Delivered(P, r) \in Int
    BY <2>4, DecodeWire
  <2>6. gates[p] = gates[r]
    <3>1. CASE Level(r)
      BY <3>1, Sides
    <3>2. CASE Ahead(p)
      <4>1. ~IsKind(p, Row)
        BY <1>4, <1>6, <3>2 DEF IsKind
      <4>2. gates[p] = gates[r] + (IF IsKind(p, Row) THEN 1 ELSE 0)
        BY <1>4, <3>2, Sides
      <4>3. gates[r] \in Nat
        BY <1>2, RankFacts
      <4> QED BY <4>1, <4>2, <4>3
    <3> QED BY <2>3, <3>1, <3>2
  <2>7. SentDecode(P, p) <= First(mode)[tp[r].last + 1]
    <3>1. SentDecode(P, p) <= First(mode)[gates[p] + 1]
      BY <1>4, SentBounds
    <3> QED BY <1>9, <2>6, <3>1
  <2>8. MarkOf(P, r) /\ P[r].pc \in DecodePc
    BY <1>2, <1>7
  <2>9. Polled(P, r) <= Delivered(P, r)
    BY <2>8 DEF MarkOf
  <2>10. /\ First(mode)[tp[r].last + 1] \in Nat /\ WindowLen(r) \in Nat
         /\ End(r) = First(mode)[tp[r].last + 1] + WindowLen(r)
    BY <1>2, <2>1, WindowFacts
  <2>11. Delivered(P, r) = First(mode)[tp[r].last + 1]
    BY <1>9, <2>5, <2>7, <2>9, <2>10
  <2>12. Delivered(P, r) = End(r) - Len(rq[r])
    BY <1>7 DEF Delivered
  <2>13. rq[r] \in Seq(Message) /\ Len(rq[r]) \in Nat /\ cq[r] \in Seq(Completion) /\ Vector(mode) /\ Len(cq[r]) \in Nat
    BY <1>2, RankFacts
  <2>14. Len(rq[r]) = WindowLen(r)
    BY <2>10, <2>11, <2>12, <2>13
  <2>15. ASSUME NEW i \in 1 .. Len(cq[r]) PROVE cq[r][i] \notin Received
    <3>1. SUFFICES ASSUME cq[r][i].dir = "recv" PROVE FALSE
      BY DEF Received
    <3>2. /\ Unit(mode, cq[r][i])
          /\ Number(mode, cq[r][i]) < Delivered(P, r) /\ Polled(P, r) <= Number(mode, cq[r][i])
      BY <2>8, <3>1 DEF MarkOf
    <3>3. Number(mode, cq[r][i]) \in Nat
      BY <2>13, <3>2, NumberIn
    <3> QED BY <1>9, <2>10, <2>11, <3>2, <3>3
  <2>16. Count(cq[r], Received) = 0
    BY <2>13, <2>15, CountZero
  <2> QED BY <2>14, <2>16
<1>15. RecvOf(Q, r)'
  <2>1. ~tp[r].win => Count(cq[r], Received) = 0
    BY <1>2, <1>7 DEF RecvOf
  <2>2. WindowLen(r) \in Nat
    BY <1>2, WindowFacts
  <2>3. tp[r].win => Count(cq[r], Received) + Len(rq[r]) = WindowLen(r)
    BY <1>14, <2>2
  <2> QED BY <1>1, <1>6, <1>7, <1>10, <2>1, <2>3 DEF RecvOf
<1>16. MarkOf(Q, r)'
  BY <1>6, <1>7 DEF MarkOf
<1>17. DataOf(Q, r)'
  BY <1>6, <1>7 DEF DataOf
<1>18. SendOf(Q, r)'
  BY <1>1, <1>2, <1>7 DEF SendOf
<1>19. AckOf(Q, r)'
  <2>1. ~IsKind(r, {"aux"})' /\ ~IsKind(r, {"rgate"})'
    BY <1>4, <1>6
  <2>2. /\ \A i \in 1 .. Len(unacked[r]) : unacked[r][i].tag # "bulk" =>
             /\ Unit(mode, unacked[r][i]) /\ Number(mode, unacked[r][i]) < SentDecode(P, r)
             /\ Before(mode, Number(mode, unacked[r][i]) + 1, wire[p])
        /\ \A i \in 1 .. Len(cq[r]) : cq[r][i].dir = "send" /\ cq[r][i].tag # "bulk" =>
             /\ Unit(mode, cq[r][i]) /\ Number(mode, cq[r][i]) < SentDecode(P, r)
             /\ Before(mode, Number(mode, cq[r][i]) + 1, wire[p])
        /\ tp[r].auxSend >= 1 => /\ First(mode)[tp[r].auxSend + 1] <= SentDecode(P, r)
                                 /\ Before(mode, First(mode)[tp[r].auxSend + 1], wire[p])
    BY <1>2 DEF AckOf, Behind, AckSent, AckDone, AckAux, AckRow
  <2> QED BY <1>1, <1>7, <1>10, <2>1, <2>2, mode' = mode DEF AckOf, Behind, AckSent, AckDone, AckAux, AckRow, Before
<1>20. RowOf(Q, r)'
  BY <1>6, <1>7 DEF RowOf
<1>21. WireOf(Q, r)' /\ WireOf(Q, p)'
  <2>1. Q[r].pc \notin {"idle", "drainwait"} \cup Body
    BY <1>6, <1>7
  <2> QED BY <1>1, <1>7, <1>8, <1>10, <2>1, StartWire
<1> QED BY <1>4, <1>7, <1>11, <1>12, <1>13, <1>15, <1>16, <1>17, <1>18, <1>19, <1>20, <1>21,
           Whole DEF Own, Shared

-----------------------------------------------------------------------------
(* The network's steps.                                                    *)

(* A message that meets a receive belongs to it: both ranks are in the     *)
(* same bulk operation, or filler meets the rank's window, or both are of  *)
(* the same decode gates.                                                  *)
LEMMA Meets ==
  ASSUME NEW P, NEW r \in Rank, NEW p, p = Peer(r), Inv(P), rq[r] # <<>>, wire[r] # <<>>
  PROVE  \/ /\ P[r].pc \in Body /\ Level(r) /\ n(p) = n(r) /\ ~Filling(P, r) /\ Bulking(P, r)
            /\ Got(P, r) = Posted(P, r) - Len(rq[r]) /\ Got(P, r) \in Nat
            /\ Segment(rq[r], n(r), Got(P, r), Posted(P, r))
            /\ Segment(wire[r], n(r), Got(P, r), Out(P, r))
         \/ /\ P[r].pc \in HeadPc \cup {"drainwait"} /\ tp[r].win /\ Filling(P, r) /\ ~Bulking(P, r)
            /\ Stream(mode, rq[r], Delivered(P, r), End(r)) /\ Delivered(P, r) \in Int
            /\ Filled(wire[r], rq[r], n(r)) /\ Len(wire[r]) = Len(rq[r]) + Sent(P, p)
         \/ /\ P[r].pc \notin Body /\ tp[r].win /\ ~Filling(P, r) /\ ~Bulking(P, r)
            /\ Stream(mode, rq[r], Delivered(P, r), End(r)) /\ Delivered(P, r) \in Int
            /\ Stream(mode, wire[r], Delivered(P, r), SentDecode(P, p))
<1>1. /\ Typed /\ P \in Progress /\ PcOf(P, r) /\ PcOf(P, p) /\ WindowOf(P, r) /\ WindowOf(P, p) /\ QueueOf(P, r)
      /\ SyncOf(P, r) /\ SyncOf(P, p) /\ WireOf(P, r)
  BY Sides, InvOf
<1>2. p \in Rank /\ p # r /\ Peer(p) = r /\ n(r) \in Nat /\ n(p) \in Nat
  BY <1>1, Sides, RankFacts
<1>3. Len(rq[r]) \in Nat /\ Len(rq[r]) >= 1 /\ Len(wire[r]) \in Nat /\ Len(wire[r]) >= 1
  <2>1. rq[r] \in Seq(Message) /\ wire[r] \in Seq(Message)
    BY <1>1, TypedRank
  <2> QED BY <2>1, TailIs
<1>4. (Level(r) <=> n(r) = n(p)) /\ (Ahead(r) <=> n(r) = n(p) + 1) /\ (Ahead(p) <=> n(p) = n(r) + 1)
      /\ (Level(r) \/ Ahead(r) \/ Ahead(p))
  BY Sides
<1>5. tp[r].win \in BOOLEAN /\ Posted(P, r) \in Nat /\ Sent(P, p) \in Nat
  BY <1>1, <1>2, RankFacts, BulkFacts
<1>6. CASE P[r].pc \in Body
  <2>1. ~tp[r].win /\ ~Filling(P, r)
    BY <1>1, <1>6 DEF WindowOf, Filling
  <2>2. ~Ahead(p)
    BY <1>1, <1>2, <1>3, <1>6 DEF SyncOf
  <2>3. Bulking(P, r)
    BY <1>2, <1>4, <1>6, <2>1, <2>2 DEF Bulking
  <2>4. Segment(wire[r], n(p), Got(P, r), Out(P, r))
    BY <1>1, <1>2, <2>3 DEF WireOf
  <2>5. Got(P, r) = Posted(P, r) - Len(rq[r])
    BY <1>2, <1>4, <2>2 DEF Got
  <2>6. Got(P, r) \in Nat
    BY <1>6, <2>5, BulkFacts
  <2>7. ~Ahead(r)
    <3>1. Len(wire[r]) = Out(P, r) - Got(P, r)
      BY <2>4 DEF Segment
    <3>2. Ahead(r) => Out(P, r) = 0
      BY <1>2, <1>4 DEF Out
    <3> QED BY <1>3, <2>6, <3>1, <3>2
  <2>8. Level(r) /\ n(p) = n(r)
    BY <1>4, <2>2, <2>7
  <2>9. Segment(rq[r], n(r), Got(P, r), Posted(P, r))
    BY <1>1, <1>6, <2>5 DEF QueueOf
  <2> QED BY <1>6, <2>1, <2>3, <2>4, <2>5, <2>6, <2>8, <2>9
<1>7. CASE P[r].pc \notin Body
  <2>1. tp[r].win /\ Stream(mode, rq[r], Delivered(P, r), End(r)) /\ Delivered(P, r) \in Int
    BY <1>1, <1>3, <1>5, <1>7, DeliveredIs DEF QueueOf
  <2>2. ~Bulking(P, r)
    <3>1. SUFFICES ASSUME Bulking(P, r) PROVE FALSE
      OBVIOUS
    <3>2. ~Filling(P, r) /\ P[p].pc \in Body /\ n(p) >= n(r)
      BY <1>2, <1>7, <3>1 DEF Bulking
    <3>3. ~Level(r)
      BY <1>2, <2>1, <3>2 DEF Filling
    <3>4. Ahead(p) /\ ~Ahead(r)
      BY <1>2, <1>4, <3>2, <3>3
    <3>5. ~WindowBefore(p) /\ SentAll(P, r)
      BY <1>1, <1>2, <3>2, <3>4 DEF SyncOf
    <3>6. WindowBefore(p) <=> n(r) > 0 /\ Current(r).kind \notin Bulk
      BY <1>2, <3>4, Sides
    <3>7. P[r].pc \in {"idle", "wait", "auxwait"}
      BY <1>7, <3>5 DEF SentAll, Body
    <3>8. P[r].pc = "idle"
      <4>1. IsKind(r, Bulk) \/ n(r) = 0
        BY <1>2, <3>5, <3>6 DEF IsKind
      <4>2. n(r) > 0 => IsKind(r, Bulk) /\ ~IsKind(r, Row) /\ ~IsKind(r, {"aux"})
        <5>1. n(r) > 0 => n(r) # 0
          OBVIOUS
        <5>2. n(r) > 0 => IsKind(r, Bulk)
          BY <4>1, <5>1
        <5>3. ~(IsKind(r, Row) /\ IsKind(r, Bulk)) /\ ~(IsKind(r, {"aux"}) /\ IsKind(r, Bulk))
          BY KindPc
        <5> QED BY <5>2, <5>3
      <4> QED BY <1>1, <1>2, <3>7, <4>2, KindPc DEF PcOf, RowPc
    <3>9. IsKind(r, Row \cup {"aux"})
      BY <1>1, <2>1, <3>8 DEF WindowOf
    <3> QED BY <1>2, <3>5, <3>6, <3>9, KindPc DEF IsKind
  <2>3. CASE Filling(P, r)
    <3>1. P[r].pc \in HeadPc \cup {"drainwait"}
      <4>1. Level(r) /\ P[p].pc \in {"drainwait"} \cup Body
        BY <1>2, <2>3 DEF Filling
      <4>2. IsKind(p, Bulk)
        BY <1>1, <4>1 DEF PcOf
      <4>3. IsKind(r, Bulk)
        BY <1>2, <4>1, <4>2, Sides DEF IsKind
      <4>4. P[r].pc # "idle"
        BY <1>1, <2>1, <4>3, KindPc DEF WindowOf
      <4> QED BY <1>7, <4>3, <4>4, KindPc
    <3>2. Filled(wire[r], rq[r], n(r)) /\ Len(wire[r]) = Len(rq[r]) + Sent(P, p)
      BY <1>1, <2>3 DEF WireOf
    <3> QED BY <2>1, <2>2, <2>3, <3>1, <3>2
  <2>4. CASE ~Filling(P, r)
    <3>1. Stream(mode, wire[r], Delivered(P, r), SentDecode(P, p))
      BY <1>1, <2>2, <2>4 DEF WireOf
    <3> QED BY <1>7, <2>1, <2>2, <2>4, <3>1
  <2> QED BY <2>3, <2>4
<1> QED BY <1>6, <1>7

(* The network changes the queues only: what the engines do stays as it is. *)
LEMMA QueuesOnly ==
  ASSUME NEW P, NEW s \in Rank, Inv(P), mode' = mode, UNCHANGED <<plan, done, gates, tp, op, hdr>>
  PROVE  /\ n(s)' = n(s) /\ Current(s)' = Current(s) /\ (WindowBefore(s)' <=> WindowBefore(s))
         /\ \A ks : IsKind(s, ks)' <=> IsKind(s, ks)
         /\ (Level(s)' <=> Level(s)) /\ (Ahead(s)' <=> Ahead(s))
         /\ To(P, s)' = To(P, s) /\ Posted(P, s)' = Posted(P, s) /\ Sent(P, s)' = Sent(P, s)
         /\ SentDecode(P, s)' = SentDecode(P, s) /\ End(s)' = End(s) /\ Polled(P, s)' = Polled(P, s)
         /\ WindowLen(s)' = WindowLen(s) /\ Awaited(P, s)' = Awaited(P, s)
         /\ (SentAll(P, s)' <=> SentAll(P, s))
         /\ (Filling(P, s)' <=> Filling(P, s)) /\ (Bulking(P, s)' <=> Bulking(P, s))
         /\ PcOf(P, s)' /\ WindowOf(P, s)' /\ GateOf(P, s)' /\ DoneOf(P, s)' /\ ProgramOf(s)' /\ HeaderOf(P, s)'
<1>1. /\ Typed /\ PcOf(P, s) /\ WindowOf(P, s) /\ GateOf(P, s) /\ DoneOf(P, s) /\ ProgramOf(s) /\ HeaderOf(P, s)
  BY InvOf
<1>2. /\ n(s)' = n(s) /\ Current(s)' = Current(s) /\ (WindowBefore(s)' <=> WindowBefore(s))
      /\ Seqno(s)' = Seqno(s) /\ \A ks : IsKind(s, ks)' <=> IsKind(s, ks)
  BY SamePlan
<1>3. n(Peer(s))' = n(Peer(s)) /\ Seqno(Peer(s))' = Seqno(Peer(s))
  BY SamePlan
<1>4. (Level(s)' <=> Level(s)) /\ (Ahead(s)' <=> Ahead(s))
  BY <1>2, <1>3, SameSides
<1>5. To(P, s)' = To(P, s)
  BY <1>2 DEF To
<1>6. Posted(P, s)' = Posted(P, s) /\ Sent(P, s)' = Sent(P, s)
  BY <1>2, <1>5 DEF Posted, Sent
<1>7. SentDecode(P, s)' = SentDecode(P, s)
  BY <1>2 DEF SentDecode
<1>8. End(s)' = End(s) /\ WindowLen(s)' = WindowLen(s)
  BY DEF End, WindowLen
<1>9. Polled(P, s)' = Polled(P, s)
  BY <1>2 DEF Polled
<1>10. Awaited(P, s)' = Awaited(P, s) /\ (SentAll(P, s)' <=> SentAll(P, s))
  BY <1>2, <1>5 DEF Awaited, SentAll
<1>11. (Filling(P, s)' <=> Filling(P, s)) /\ (Bulking(P, s)' <=> Bulking(P, s))
  BY <1>2, <1>3, <1>4 DEF Filling, Bulking
<1>12. PcOf(P, s)'
  BY <1>1, <1>2 DEF PcOf
<1>13. WindowOf(P, s)'
  BY <1>1, <1>2 DEF WindowOf
<1>14. GateOf(P, s)'
  BY <1>1, <1>2 DEF GateOf, Eligible, SlotOf
<1>15. DoneOf(P, s)'
  BY <1>1, <1>2 DEF DoneOf
<1>16. ProgramOf(s)'
  BY <1>1, ProgramSame
<1>17. HeaderOf(P, s)'
  BY <1>1, <1>3, HeaderSame
<1> QED BY <1>2, <1>4, <1>5, <1>6, <1>7, <1>8, <1>9, <1>10, <1>11, <1>12, <1>13, <1>14, <1>15, <1>16, <1>17

(* A sequence that grows by one.                                           *)
LEMMA AppendIs ==
  ASSUME NEW S, NEW s \in Seq(S), NEW e \in S
  PROVE  /\ Append(s, e) \in Seq(S) /\ Len(s) \in Nat /\ Len(Append(s, e)) = Len(s) + 1
         /\ Append(s, e)[Len(s) + 1] = e
         /\ \A i \in 1 .. Len(Append(s, e)) : i \in 1 .. Len(s) \/ i = Len(s) + 1
         /\ \A i \in 1 .. Len(s) : Append(s, e)[i] = s[i]
OBVIOUS

(* What a delivery does, rank by rank.                                     *)
LEMMA DeliverIs ==
  ASSUME NEW r \in Rank, NEW p, p = Peer(r), Typed, Deliver(r)
  PROVE  /\ rq[r] # <<>> /\ wire[r] # <<>>
         /\ rq'[r] = Tail(rq[r]) /\ rq'[p] = rq[p] /\ wire'[r] = Tail(wire[r]) /\ wire'[p] = wire[p]
         /\ cq'[r] = Append(cq[r], CQE("recv", Head(rq[r]))) /\ cq'[p] = cq[p]
         /\ unacked'[r] = unacked[r]
         /\ unacked'[p] = IF Head(wire[r]).sig THEN Append(unacked[p], Head(wire[r])) ELSE unacked[p]
         /\ inbuf'[p] = inbuf[p]
         /\ inbuf'[r] = [inbuf[r] EXCEPT ![Place(Head(rq[r]))] = Head(wire[r]).id]
         /\ UNCHANGED <<plan, done, gates, tp, op, hdr>>
         /\ CQE("recv", Head(rq[r])) \in Completion /\ Head(rq[r]) \in Message /\ Head(wire[r]) \in Message
<1>1. /\ rq[r] # <<>> /\ wire[r] # <<>> /\ UNCHANGED <<plan, done, gates, tp, op, hdr>>
      /\ rq' = [rq EXCEPT ![r] = Tail(@)] /\ wire' = [wire EXCEPT ![r] = Tail(@)]
      /\ cq' = [cq EXCEPT ![r] = Append(@, CQE("recv", Head(rq[r])))]
      /\ unacked' = IF Head(wire[r]).sig THEN [unacked EXCEPT ![p] = Append(@, Head(wire[r]))] ELSE unacked
      /\ inbuf' = [inbuf EXCEPT ![r][Place(Head(rq[r]))] = Head(wire[r]).id]
  BY DEF Deliver
<1>2. p \in Rank /\ p # r
  BY TwoRanks
<1>3. /\ rq \in [Rank -> Seq(Message)] /\ wire \in [Rank -> Seq(Message)]
      /\ unacked \in [Rank -> Seq(Message)] /\ cq \in [Rank -> Seq(Completion)] /\ DOMAIN inbuf = Rank
  BY DEF Typed
<1>4. rq'[r] = Tail(rq[r]) /\ rq'[p] = rq[p] /\ wire'[r] = Tail(wire[r]) /\ wire'[p] = wire[p]
  BY <1>1, <1>2, <1>3
<1>5. cq'[r] = Append(cq[r], CQE("recv", Head(rq[r]))) /\ cq'[p] = cq[p]
  BY <1>1, <1>2, <1>3
<1>6. /\ unacked'[r] = unacked[r]
      /\ unacked'[p] = IF Head(wire[r]).sig THEN Append(unacked[p], Head(wire[r])) ELSE unacked[p]
  <2>1. CASE Head(wire[r]).sig
    BY <1>1, <1>2, <1>3, <2>1
  <2>2. CASE ~Head(wire[r]).sig
    BY <1>1, <1>2, <1>3, <2>2
  <2> QED BY <2>1, <2>2
<1>7. /\ inbuf'[p] = inbuf[p]
      /\ inbuf'[r] = [inbuf[r] EXCEPT ![Place(Head(rq[r]))] = Head(wire[r]).id]
  BY <1>1, <1>2, <1>3
<1>8. rq[r] \in Seq(Message) /\ wire[r] \in Seq(Message)
  BY <1>3
<1>9. CQE("recv", Head(rq[r])) \in Completion /\ Head(rq[r]) \in Message /\ Head(wire[r]) \in Message
  BY <1>1, <1>8, CqeTyped
<1> QED BY <1>1, <1>4, <1>5, <1>6, <1>7, <1>9

(* The first receive and the first message.                                *)
LEMMA MeetsFirst ==
  ASSUME NEW P, NEW r \in Rank, NEW p, p = Peer(r), Inv(P), rq[r] # <<>>, wire[r] # <<>>,
         NEW w, w = Head(rq[r]), NEW m, m = Head(wire[r])
  PROVE  /\ w = rq[r][1] /\ m = wire[r][1] /\ 1 \in 1 .. Len(rq[r]) /\ 1 \in 1 .. Len(wire[r])
         /\ w \in Message /\ m \in Message
         /\ \/ /\ P[r].pc \in Body /\ Level(r) /\ ~Filling(P, r) /\ Bulking(P, r)
               /\ Got(P, r) = Posted(P, r) - Len(rq[r]) /\ Got(P, r) \in Nat
               /\ w = BulkMsg(n(r), Got(P, r) + 1) /\ m = BulkMsg(n(r), Got(P, r) + 1)
            \/ /\ P[r].pc \in HeadPc \cup {"drainwait"} /\ tp[r].win /\ Filling(P, r) /\ ~Bulking(P, r)
               /\ Unit(mode, w) /\ w.kind = w.tag /\ w.tag # "bulk"
               /\ m = Msg(w.kind, 0, w.part, "bulk", Len(rq[r]) = 1)
            \/ /\ P[r].pc \notin Body /\ tp[r].win /\ ~Filling(P, r) /\ ~Bulking(P, r)
               /\ Unit(mode, w) /\ w.kind = w.tag /\ Number(mode, w) = Delivered(P, r) /\ w.tag # "bulk"
               /\ Unit(mode, m) /\ Number(mode, m) = Delivered(P, r) /\ m.tag # "bulk"
               /\ m.id = w.id /\ m.tag = w.tag /\ m.part = w.part /\ m.kind = w.kind
               /\ Delivered(P, r) \in Nat /\ Delivered(P, r) < SentDecode(P, p)
<1>1. Typed /\ rq[r] \in Seq(Message) /\ wire[r] \in Seq(Message) /\ Vector(mode)
  BY InvOf, TypedRank
<1>2. w = rq[r][1] /\ m = wire[r][1] /\ 1 \in 1 .. Len(rq[r]) /\ 1 \in 1 .. Len(wire[r])
      /\ w \in Message /\ m \in Message /\ Len(rq[r]) \in Nat /\ Len(wire[r]) \in Nat
      /\ Len(rq[r]) >= 1 /\ Len(wire[r]) >= 1
  BY <1>1, TailIs
<1>3. \A u : Unit(mode, u) => u.tag # "bulk"
  BY DEF Unit
<1>4. CASE /\ P[r].pc \in Body /\ Level(r) /\ n(p) = n(r) /\ ~Filling(P, r) /\ Bulking(P, r)
           /\ Got(P, r) = Posted(P, r) - Len(rq[r]) /\ Got(P, r) \in Nat
           /\ Segment(rq[r], n(r), Got(P, r), Posted(P, r))
           /\ Segment(wire[r], n(r), Got(P, r), Out(P, r))
  <2>1. w = BulkMsg(n(r), Got(P, r) + 1) /\ m = BulkMsg(n(r), Got(P, r) + 1)
    BY <1>2, <1>4 DEF Segment
  <2> QED BY <1>2, <1>4, <2>1
<1>5. CASE /\ P[r].pc \in HeadPc \cup {"drainwait"} /\ tp[r].win /\ Filling(P, r) /\ ~Bulking(P, r)
           /\ Stream(mode, rq[r], Delivered(P, r), End(r)) /\ Delivered(P, r) \in Int
           /\ Filled(wire[r], rq[r], n(r))
  <2>1. Unit(mode, w) /\ w.kind = w.tag
    BY <1>2, <1>5 DEF Stream
  <2>2. m = Msg(w.kind, 0, w.part, "bulk", 1 = Len(rq[r]))
    BY <1>2, <1>5 DEF Filled
  <2>3. m = Msg(w.kind, 0, w.part, "bulk", Len(rq[r]) = 1)
    BY <2>2 DEF Msg
  <2> QED BY <1>2, <1>3, <1>5, <2>1, <2>3
<1>6. CASE /\ P[r].pc \notin Body /\ tp[r].win /\ ~Filling(P, r) /\ ~Bulking(P, r)
           /\ Stream(mode, rq[r], Delivered(P, r), End(r)) /\ Delivered(P, r) \in Int
           /\ Stream(mode, wire[r], Delivered(P, r), SentDecode(P, p))
  <2>1. /\ Unit(mode, w) /\ w.kind = w.tag /\ Number(mode, w) = Delivered(P, r)
        /\ Unit(mode, m) /\ m.kind = m.tag /\ Number(mode, m) = Delivered(P, r)
    BY <1>2, <1>6 DEF Stream
  <2>2. m.id = w.id /\ m.tag = w.tag /\ m.part = w.part
    <3>1. \A u, v : Unit(mode, u) /\ Unit(mode, v) /\ Number(mode, u) = Number(mode, v)
            => u.id = v.id /\ u.tag = v.tag /\ u.part = v.part
      BY <1>1, SameNumber
    <3> QED BY <2>1, <3>1, Zenon
  <2>3. Delivered(P, r) < SentDecode(P, p)
    <3>1. Len(wire[r]) = SentDecode(P, p) - Delivered(P, r)
      BY <1>6 DEF Stream
    <3>2. SentDecode(P, p) \in Nat
      <4>1. p \in Rank
        BY Sides
      <4> QED BY <4>1, SentBounds
    <3> QED BY <1>2, <1>6, <3>1, <3>2
  <2>4. Delivered(P, r) \in Nat
    <3>1. Number(mode, w) \in Nat
      BY <1>1, <2>1, NumberIn
    <3> QED BY <2>1, <3>1
  <2> QED BY <1>2, <1>3, <1>6, <2>1, <2>2, <2>3, <2>4
<1> QED BY <1>2, <1>4, <1>5, <1>6, Meets

(* The rest of a segment, of a stream and of a filled window.              *)
LEMMA SegmentTail ==
  ASSUME NEW s \in Seq(Message), s # <<>>, NEW k, NEW a \in Int, NEW b \in Int, Segment(s, k, a, b)
  PROVE  Segment(Tail(s), k, a + 1, b)
<1>1. /\ Len(Tail(s)) = Len(s) - 1 /\ Len(s) \in Nat
      /\ \A i \in 1 .. Len(Tail(s)) : i + 1 \in 1 .. Len(s) /\ Tail(s)[i] = s[i + 1]
  BY TailIs
<1>2. Len(s) = b - a /\ \A i \in 1 .. Len(s) : s[i] = BulkMsg(k, a + i)
  BY DEF Segment
<1>3. Len(Tail(s)) = b - (a + 1)
  BY <1>1, <1>2
<1>4. ASSUME NEW i \in 1 .. Len(Tail(s)) PROVE Tail(s)[i] = BulkMsg(k, a + 1 + i)
  <2>1. i + 1 \in 1 .. Len(s) /\ Tail(s)[i] = s[i + 1]
    BY <1>1
  <2>2. Tail(s)[i] = BulkMsg(k, a + (i + 1))
    BY <1>2, <2>1
  <2>3. a + (i + 1) = a + 1 + i
    BY <1>1
  <2> QED BY <2>2, <2>3
<1> QED BY <1>3, <1>4 DEF Segment

(* A message of the filler and the receive it fills leave.                 *)
LEMMA FilledTail ==
  ASSUME NEW s \in Seq(Message), s # <<>>, NEW q \in Seq(Message), q # <<>>, NEW k, NEW x \in Nat,
         Filled(s, q, k), Len(s) = Len(q) + x
  PROVE  Filled(Tail(s), Tail(q), k) /\ Len(Tail(s)) = Len(Tail(q)) + x
<1>1. /\ Len(Tail(s)) = Len(s) - 1 /\ Len(s) \in Nat /\ Len(s) >= 1
      /\ \A i \in 1 .. Len(Tail(s)) : i + 1 \in 1 .. Len(s) /\ Tail(s)[i] = s[i + 1]
  BY TailIs
<1>2. /\ Len(Tail(q)) = Len(q) - 1 /\ Len(q) \in Nat /\ Len(q) >= 1
      /\ \A i \in 1 .. Len(Tail(q)) : i + 1 \in 1 .. Len(q) /\ Tail(q)[i] = q[i + 1]
  BY TailIs
<1>3. /\ \A i \in 1 .. Len(q) : s[i] = Msg(q[i].kind, 0, q[i].part, "bulk", i = Len(q))
      /\ \A i \in Len(q) + 1 .. Len(s) : s[i] = BulkMsg(k, i - Len(q))
  BY DEF Filled
<1>4. Len(Tail(s)) = Len(Tail(q)) + x /\ Len(Tail(s)) >= Len(Tail(q))
  BY <1>1, <1>2
<1>5. ASSUME NEW i \in 1 .. Len(Tail(q))
      PROVE  Tail(s)[i] = Msg(Tail(q)[i].kind, 0, Tail(q)[i].part, "bulk", i = Len(Tail(q)))
  <2>1. i + 1 \in 1 .. Len(q) /\ Tail(q)[i] = q[i + 1] /\ Tail(s)[i] = s[i + 1]
    BY <1>1, <1>2, <1>4
  <2>2. s[i + 1] = Msg(q[i + 1].kind, 0, q[i + 1].part, "bulk", i + 1 = Len(q))
    BY <1>3, <2>1
  <2>3. (i + 1 = Len(q)) = (i = Len(Tail(q)))
    BY <1>2
  <2> QED BY <2>1, <2>2, <2>3
<1>6. ASSUME NEW i \in Len(Tail(q)) + 1 .. Len(Tail(s)) PROVE Tail(s)[i] = BulkMsg(k, i - Len(Tail(q)))
  <2>1. i \in Int /\ i + 1 \in Len(q) + 1 .. Len(s) /\ Tail(s)[i] = s[i + 1] /\ (i + 1) - Len(q) = i - Len(Tail(q))
    BY <1>1, <1>2
  <2> QED BY <1>3, <2>1
<1> QED BY <1>4, <1>5, <1>6 DEF Filled

(* After a delivery the receives and the messages of the rank still match. *)
LEMMA DeliverQueues ==
  ASSUME NEW P, NEW r \in Rank, NEW p, p = Peer(r), Inv(P), mode' = mode, Deliver(r)
  PROVE  /\ QueueOf(P, r)' /\ WireOf(P, r)'
         /\ Len(rq'[r]) = Len(rq[r]) - 1
         /\ P[r].pc \in Body => Delivered(P, r)' = Delivered(P, r)
         /\ P[r].pc \notin Body => Delivered(P, r)' = Delivered(P, r) + 1
<1>1. /\ rq[r] # <<>> /\ wire[r] # <<>> /\ rq'[r] = Tail(rq[r]) /\ rq'[p] = rq[p]
      /\ wire'[r] = Tail(wire[r]) /\ wire'[p] = wire[p]
      /\ UNCHANGED <<plan, done, gates, tp, op, hdr>> /\ Typed /\ P \in Progress
  BY InvOf, DeliverIs
<1>2. p \in Rank /\ p # r /\ Peer(p) = r /\ n(r) \in Nat /\ n(p) \in Nat
  BY <1>1, Sides, RankFacts
<1>3. /\ rq[r] \in Seq(Message) /\ wire[r] \in Seq(Message) /\ Len(rq[r]) \in Nat /\ Len(rq[r]) >= 1
      /\ Len(Tail(rq[r])) = Len(rq[r]) - 1 /\ Len(Tail(wire[r])) = Len(wire[r]) - 1
  BY <1>1, TypedRank, TailIs
<1>4. /\ n(r)' = n(r) /\ n(p)' = n(p) /\ Posted(P, r)' = Posted(P, r) /\ Sent(P, p)' = Sent(P, p)
      /\ SentDecode(P, p)' = SentDecode(P, p) /\ End(r)' = End(r)
      /\ (Filling(P, r)' <=> Filling(P, r)) /\ (Bulking(P, r)' <=> Bulking(P, r))
  BY <1>1, <1>2, QueuesOnly
<1>5. /\ Posted(P, r) \in Nat /\ Sent(P, p) \in Nat /\ End(r) \in Nat /\ SentDecode(P, p) \in Nat
  BY <1>1, <1>2, BulkFacts, WindowFacts, SentBounds
<1>6. P[r].pc \in Body => Delivered(P, r)' = Delivered(P, r)
  BY <1>1 DEF Delivered
<1>7. P[r].pc \notin Body => Delivered(P, r)' = Delivered(P, r) + 1
  <2>1. P[r].pc \notin Body => Delivered(P, r)' = End(r) - Len(rq'[r]) /\ Delivered(P, r) = End(r) - Len(rq[r])
    BY <1>4 DEF Delivered
  <2> QED BY <1>1, <1>3, <1>5, <2>1
<1>8. CASE /\ P[r].pc \in Body /\ Level(r) /\ n(p) = n(r) /\ ~Filling(P, r) /\ Bulking(P, r)
           /\ Got(P, r) = Posted(P, r) - Len(rq[r]) /\ Got(P, r) \in Nat
           /\ Segment(rq[r], n(r), Got(P, r), Posted(P, r))
           /\ Segment(wire[r], n(r), Got(P, r), Out(P, r))
  <2>1. Segment(rq'[r], n(r), Got(P, r) + 1, Posted(P, r))
    BY <1>1, <1>3, <1>5, <1>8, SegmentTail
  <2>2. Out(P, r) = Sent(P, p) /\ Out(P, r)' = Out(P, r)
    BY <1>2, <1>4, <1>8 DEF Out
  <2>3. Segment(wire'[r], n(r), Got(P, r) + 1, Out(P, r))
    BY <1>1, <1>3, <1>5, <1>8, <2>2, SegmentTail
  <2>4. Got(P, r)' = Got(P, r) + 1 /\ Got(P, r) + 1 = Posted(P, r) - Len(rq'[r])
    <3>1. Got(P, r)' = Posted(P, r) - Len(rq'[r])
      BY <1>2, <1>4, <1>8 DEF Got
    <3> QED BY <1>1, <1>3, <1>5, <1>8, <3>1
  <2>5. QueueOf(P, r)'
    BY <1>4, <1>8, <2>1, <2>4 DEF QueueOf
  <2>6. WireOf(P, r)'
    BY <1>2, <1>4, <1>8, <2>2, <2>3, <2>4 DEF WireOf
  <2> QED BY <1>1, <1>3, <1>6, <1>7, <2>5, <2>6
<1>9. ASSUME P[r].pc \notin Body, tp[r].win, Stream(mode, rq[r], Delivered(P, r), End(r)), Delivered(P, r) \in Int
      PROVE  QueueOf(P, r)'
  <2>1. Stream(mode, Tail(rq[r]), Delivered(P, r) + 1, End(r))
    BY <1>1, <1>3, <1>5, <1>9, StreamTail
  <2>2. Delivered(P, r) + 1 = End(r) - Len(rq'[r])
    <3>1. Delivered(P, r) = End(r) - Len(rq[r])
      BY <1>9 DEF Delivered
    <3> QED BY <1>1, <1>3, <1>5, <3>1
  <2>3. Stream(mode, rq'[r], End(r) - Len(rq'[r]), End(r))
    BY <1>1, <2>1, <2>2
  <2> QED BY <1>1, <1>4, <1>9, <2>3 DEF QueueOf
<1>10. CASE /\ P[r].pc \in HeadPc \cup {"drainwait"} /\ tp[r].win /\ Filling(P, r) /\ ~Bulking(P, r)
           /\ Stream(mode, rq[r], Delivered(P, r), End(r)) /\ Delivered(P, r) \in Int
           /\ Filled(wire[r], rq[r], n(r)) /\ Len(wire[r]) = Len(rq[r]) + Sent(P, p)
  <2>1. P[r].pc \notin Body
    BY <1>10 DEF HeadPc, Body
  <2>2. Filled(wire'[r], rq'[r], n(r)) /\ Len(wire'[r]) = Len(rq'[r]) + Sent(P, p)
    BY <1>1, <1>3, <1>5, <1>10, FilledTail
  <2>3. WireOf(P, r)'
    BY <1>2, <1>4, <1>10, <2>2 DEF WireOf
  <2> QED BY <1>1, <1>3, <1>6, <1>7, <1>9, <1>10, <2>1, <2>3
<1>11. CASE /\ P[r].pc \notin Body /\ tp[r].win /\ ~Filling(P, r) /\ ~Bulking(P, r)
            /\ Stream(mode, rq[r], Delivered(P, r), End(r)) /\ Delivered(P, r) \in Int
            /\ Stream(mode, wire[r], Delivered(P, r), SentDecode(P, p))
  <2>1. Stream(mode, Tail(wire[r]), Delivered(P, r) + 1, SentDecode(P, p))
    BY <1>1, <1>3, <1>5, <1>11, StreamTail
  <2>2. WireOf(P, r)'
    BY <1>1, <1>2, <1>4, <1>7, <1>11, <2>1 DEF WireOf
  <2> QED BY <1>1, <1>3, <1>6, <1>7, <1>9, <1>11, <2>2
<1> QED BY <1>1, <1>8, <1>10, <1>11, Meets

(* A completion is numbered as its receive.                                *)
LEMMA CqeNumber ==
  ASSUME NEW d, NEW w, NEW e, e = CQE(d, w)
  PROVE  /\ e.dir = d /\ e.tag = w.tag /\ e.id = w.id /\ e.part = w.part
         /\ (Unit(mode, e) <=> Unit(mode, w)) /\ Number(mode, e) = Number(mode, w)
<1>1. e.dir = d /\ e.tag = w.tag /\ e.id = w.id /\ e.part = w.part
  BY DEF CQE
<1> QED BY <1>1 DEF Unit, Number

(* A delivery turns a receive into a completion.                           *)
LEMMA DeliverRecv ==
  ASSUME NEW P, NEW r \in Rank, NEW p, p = Peer(r), Inv(P), mode' = mode, Deliver(r)
  PROVE  RecvOf(P, r)' /\ SendOf(P, r)' /\ AckOf(P, r)' /\ RowOf(P, r)'
<1>0. PICK w : w = Head(rq[r])
  OBVIOUS
<1>1. PICK e : e = CQE("recv", w)
  OBVIOUS
<1>2. PICK m : m = Head(wire[r])
  OBVIOUS
<1>3. /\ rq[r] # <<>> /\ wire[r] # <<>> /\ cq'[r] = Append(cq[r], e) /\ e \in Completion
      /\ unacked'[r] = unacked[r] /\ wire'[p] = wire[p] /\ Typed /\ P \in Progress
      /\ UNCHANGED <<plan, done, gates, tp, op, hdr>>
  BY <1>0, <1>1, InvOf, DeliverIs
<1>4. e.dir = "recv" /\ e.tag = w.tag
  BY <1>1, CqeNumber
<1>5. e \in Received /\ e \notin SentBulk
  BY <1>3, <1>4 DEF Received, SentBulk
<1>6. cq[r] \in Seq(Completion) /\ Len(cq[r]) \in Nat
  BY <1>3, TypedRank
<1>7. /\ Len(cq'[r]) = Len(cq[r]) + 1 /\ cq'[r][Len(cq[r]) + 1] = e
      /\ \A i \in 1 .. Len(cq'[r]) : i \in 1 .. Len(cq[r]) \/ i = Len(cq[r]) + 1
      /\ \A i \in 1 .. Len(cq[r]) : cq'[r][i] = cq[r][i]
  BY <1>3, <1>6, AppendIs
<1>8. /\ Count(cq'[r], Received) = Count(cq[r], Received) + 1
      /\ Count(cq'[r], SentBulk) = Count(cq[r], SentBulk)
      /\ Count(cq[r], Received) \in Nat /\ Count(cq[r], SentBulk) \in Nat
  <2>1. \A V : Count(Append(cq[r], e), V) = Count(cq[r], V) + (IF e \in V THEN 1 ELSE 0)
    BY <1>6, CountAppend
  <2>2. \A V : Count(cq[r], V) \in Nat
    BY <1>6, CountType
  <2> QED BY <1>3, <1>5, <2>1, <2>2
<1>9. /\ Len(rq'[r]) = Len(rq[r]) - 1 /\ Len(rq[r]) \in Nat
  BY <1>3, DeliverQueues, TypedRank, RankFacts
<1>10. /\ RecvOf(P, r) /\ SendOf(P, r) /\ AckOf(P, r) /\ RowOf(P, r)
  BY InvOf
<1>11. /\ Posted(P, r)' = Posted(P, r) /\ WindowLen(r)' = WindowLen(r) /\ SentDecode(P, r)' = SentDecode(P, r)
       /\ Awaited(P, r)' = Awaited(P, r) /\ \A ks : IsKind(r, ks)' <=> IsKind(r, ks)
  BY <1>3, QueuesOnly
<1>12. \/ P[r].pc \in Body /\ w.tag = "bulk"
       \/ P[r].pc \notin Body /\ tp[r].win
  <2>1. \A a, b : BulkMsg(a, b).tag = "bulk"
    BY DEF BulkMsg, Msg
  <2>2. P[r].pc \in HeadPc \cup {"drainwait"} => P[r].pc \notin Body
    BY DEF HeadPc, Body
  <2> QED BY <1>0, <1>2, <1>3, <2>1, <2>2, MeetsFirst
<1>13. RecvOf(P, r)'
  <2>1. Count(cq'[r], Received) + Len(rq'[r]) = Count(cq[r], Received) + Len(rq[r])
    BY <1>8, <1>9
  <2>2. P[r].pc \in Body => \A i \in 1 .. Len(cq'[r]) : cq'[r][i].dir = "recv" => cq'[r][i].tag = "bulk"
    BY <1>4, <1>7, <1>10, <1>12 DEF RecvOf
  <2> QED BY <1>3, <1>10, <1>11, <1>12, <2>1, <2>2 DEF RecvOf
<1>14. SendOf(P, r)'
  BY <1>3, <1>8, <1>10, <1>11 DEF SendOf
<1>15. AckOf(P, r)'
  <2>1. /\ AckSent(mode, unacked[r], SentDecode(P, r), wire[p])
        /\ AckDone(mode, cq[r], SentDecode(P, r), wire[p])
        /\ AckAux(mode, tp[r].auxSend, SentDecode(P, r), wire[p])
        /\ IsKind(r, {"rgate"}) /\ (P[r].pc = "idle" \/ (P[r].pc = "wait" /\ P[r].sd = 1)) =>
             AckRow(mode, gates[r], wire[p])
        /\ IsKind(r, {"aux"}) /\ P[r].pc = "idle" => tp[r].auxSend >= tp[r].last
    BY <1>10 DEF AckOf
  <2>2. AckDone(mode, cq'[r], SentDecode(P, r), wire[p])
    BY <1>4, <1>7, <2>1 DEF AckDone
  <2>3. /\ unacked'[r] = unacked[r] /\ wire'[p] = wire[p] /\ tp' = tp /\ gates' = gates /\ mode' = mode
        /\ SentDecode(P, r)' = SentDecode(P, r)
        /\ (IsKind(r, {"rgate"})' <=> IsKind(r, {"rgate"})) /\ (IsKind(r, {"aux"})' <=> IsKind(r, {"aux"}))
    BY <1>3, <1>11
  <2> QED BY <2>1, <2>2, <2>3 DEF AckOf
<1>16. RowOf(P, r)'
  <2>1. \A u : LastSignals(r, u)' <=> LastSignals(r, u)
    BY <1>3 DEF LastSignals
  <2>2. IsKind(r, {"rgate"}) /\ P[r].pc \in RowPc =>
         \A i \in 1 .. Len(cq'[r]) : cq'[r][i].dir = "send" => LastSignals(r, cq'[r][i])
    BY <1>4, <1>7, <1>10 DEF RowOf
  <2> QED BY <1>3, <1>10, <1>11, <2>1, <2>2 DEF RowOf, LastSignals
<1> QED BY <1>13, <1>14, <1>15, <1>16

(* A decode delivery is the next in the completion queue.                  *)
LEMMA DeliverMark ==
  ASSUME NEW P, NEW r \in Rank, NEW p, p = Peer(r), Inv(P), mode' = mode, Deliver(r)
  PROVE  MarkOf(P, r)'
<1>0. PICK w : w = Head(rq[r])
  OBVIOUS
<1>1. PICK e : e = CQE("recv", w)
  OBVIOUS
<1>2. PICK m : m = Head(wire[r])
  OBVIOUS
<1>3. /\ rq[r] # <<>> /\ wire[r] # <<>> /\ cq'[r] = Append(cq[r], e) /\ e \in Completion
      /\ Typed /\ P \in Progress /\ UNCHANGED <<plan, done, gates, tp, op, hdr>> /\ MarkOf(P, r)
  BY <1>0, <1>1, InvOf, DeliverIs
<1>4. SUFFICES ASSUME P[r].pc \in DecodePc PROVE MarkOf(P, r)'
  BY DEF MarkOf
<1>5. /\ e.dir = "recv" /\ (Unit(mode, e) <=> Unit(mode, w)) /\ Number(mode, e) = Number(mode, w)
  BY <1>1, CqeNumber
<1>6. P[r].pc \notin Body /\ P[r].pc \notin HeadPc \cup {"drainwait"}
  BY <1>4 DEF DecodePc, RowPc, Body, HeadPc
<1>7. Unit(mode, w) /\ Number(mode, w) = Delivered(P, r) /\ Delivered(P, r) \in Nat
  BY <1>0, <1>2, <1>3, <1>6, MeetsFirst
<1>8. Delivered(P, r)' = Delivered(P, r) + 1
  BY <1>6, DeliverQueues
<1>9. cq[r] \in Seq(Completion) /\ Len(cq[r]) \in Nat
  BY <1>3, TypedRank
<1>10. /\ Len(cq'[r]) = Len(cq[r]) + 1 /\ cq'[r][Len(cq[r]) + 1] = e
       /\ \A i \in 1 .. Len(cq'[r]) : i \in 1 .. Len(cq[r]) \/ i = Len(cq[r]) + 1
       /\ \A i \in 1 .. Len(cq[r]) : cq'[r][i] = cq[r][i]
  BY <1>3, <1>9, AppendIs
<1>11. Polled(P, r)' = Polled(P, r)
  BY <1>3, QueuesOnly
<1> DEFINE D == Delivered(P, r)
           L == Polled(P, r)
           M(u) == Number(mode, u)
           R == First(mode)[tp[r].recvDone] + mode.chunks
           A == First(mode)[tp[r].auxRecv + 1]
<1>12. /\ L <= D
       /\ tp[r].recvDone >= 1 => R <= D
       /\ tp[r].auxRecv >= 1 => A <= D
       /\ \A i \in 1 .. Len(cq[r]) : cq[r][i].dir = "recv" =>
            /\ Unit(mode, cq[r][i]) /\ M(cq[r][i]) < D /\ L <= M(cq[r][i])
            /\ tp[r].recvDone >= 1 => R <= M(cq[r][i])
            /\ tp[r].auxRecv >= 1 => A <= M(cq[r][i])
       /\ \A i, j \in 1 .. Len(cq[r]) : i < j /\ cq[r][i].dir = "recv" /\ cq[r][j].dir = "recv" =>
            M(cq[r][i]) < M(cq[r][j])
  BY <1>3, <1>4 DEF MarkOf
<1>13. M(e) = D /\ D \in Nat
  BY <1>5, <1>7
<1>14. \A u : Unit(mode, u) => M(u) \in Nat
  <2>1. Vector(mode)
    BY <1>3, RankFacts
  <2> QED BY <2>1, NumberIn
<1>15. L \in Nat /\ (tp[r].recvDone >= 1 => R \in Nat) /\ (tp[r].auxRecv >= 1 => A \in Nat)
  <2>1. /\ tp[r].recvDone \in Nat /\ tp[r].auxRecv \in Nat /\ tp[r].last \in Nat /\ gates[r] \in Nat
        /\ Vector(mode) /\ mode.chunks \in Nat
    BY <1>3, RankFacts
  <2>2. \A k \in 1 .. LastGate : First(mode)[k] \in Nat
    BY <2>1, FirstStep
  <2>3. tp[r].recvDone < LastGate /\ tp[r].auxRecv < LastGate /\ LastGate \in Nat /\ GateOf(P, r)
    BY LastGateNat, InvOf DEF GateOf
  <2>4. (tp[r].recvDone >= 1 => R \in Nat) /\ (tp[r].auxRecv >= 1 => A \in Nat)
    <3>1. tp[r].recvDone >= 1 => tp[r].recvDone \in 1 .. LastGate
      BY <2>1, <2>3
    <3>2. tp[r].auxRecv >= 1 => tp[r].auxRecv + 1 \in 1 .. LastGate
      BY <2>1, <2>3
    <3> QED BY <2>1, <2>2, <3>1, <3>2
  <2>5. L \in Nat
    <3>1. tp[r].last + 1 \in 1 .. LastGate
      BY <1>3, WindowFacts
    <3>2. P[r].pc = "auxwait" \/ (P[r].pc = "idle" /\ IsKind(r, Row)) => tp[r].last \in 1 .. LastGate
      <4>1. P[r].pc = "auxwait" \/ (P[r].pc = "idle" /\ IsKind(r, Row)) => gates[r] >= 1 /\ gates[r] = tp[r].last
        <5>1. PcOf(P, r)
          BY InvOf
        <5> QED BY <2>3, <5>1 DEF GateOf, PcOf, RowPc
      <4> QED BY <2>1, <3>1, <4>1, LastGateNat
    <3> QED BY <2>1, <2>2, <3>1, <3>2 DEF Polled
  <2> QED BY <2>4, <2>5
<1> HIDE DEF D, L, M, R, A
<1>16. /\ L <= D + 1
       /\ tp[r].recvDone >= 1 => R <= D + 1
       /\ tp[r].auxRecv >= 1 => A <= D + 1
  BY <1>12, <1>13, <1>15
<1>17. ASSUME NEW i \in 1 .. Len(cq'[r]), cq'[r][i].dir = "recv"
       PROVE  /\ Unit(mode, cq'[r][i]) /\ M(cq'[r][i]) < D + 1 /\ L <= M(cq'[r][i])
              /\ tp[r].recvDone >= 1 => R <= M(cq'[r][i])
              /\ tp[r].auxRecv >= 1 => A <= M(cq'[r][i])
  <2>1. CASE i \in 1 .. Len(cq[r])
    <3>1. Unit(mode, cq[r][i]) /\ M(cq[r][i]) < D /\ M(cq[r][i]) \in Nat
      BY <1>10, <1>12, <1>14, <1>17, <2>1
    <3>2. M(cq[r][i]) < D + 1
      BY <1>13, <3>1
    <3> QED BY <1>10, <1>12, <1>17, <2>1, <3>1, <3>2
  <2>2. CASE i = Len(cq[r]) + 1
    <3>1. cq'[r][i] = e
      BY <1>10, <2>2
    <3> QED BY <1>5, <1>7, <1>12, <1>13, <3>1
  <2> QED BY <1>10, <2>1, <2>2
<1>18. ASSUME NEW i \in 1 .. Len(cq'[r]), NEW j \in 1 .. Len(cq'[r]), i < j,
              cq'[r][i].dir = "recv", cq'[r][j].dir = "recv"
       PROVE  M(cq'[r][i]) < M(cq'[r][j])
  <2>1. i \in 1 .. Len(cq[r])
    BY <1>9, <1>10, <1>18
  <2>2. cq'[r][i] = cq[r][i]
    BY <1>10, <2>1
  <2>3. CASE j \in 1 .. Len(cq[r])
    BY <1>10, <1>12, <1>18, <2>1, <2>3
  <2>4. CASE j = Len(cq[r]) + 1
    <3>1. cq'[r][j] = e
      BY <1>10, <2>4
    <3> QED BY <1>12, <1>13, <1>18, <2>1, <2>2, <3>1
  <2> QED BY <1>10, <2>3, <2>4
<1> QED BY <1>3, <1>8, <1>11, <1>16, <1>17, <1>18 DEF MarkOf, D, L, M, R, A

(* What is delivered next to a rank is at most one gate beyond it.         *)
LEMMA NextDelivered ==
  ASSUME NEW P, NEW r \in Rank, NEW p, p = Peer(r), Inv(P),
         NEW w, Unit(mode, w), Number(mode, w) < SentDecode(P, p)
  PROVE  w.id \in Nat /\ w.id <= gates[r] + 1
<1>1. Typed /\ P \in Progress /\ p \in Rank /\ Peer(p) = r /\ Vector(mode) /\ gates[r] \in Nat /\ gates[p] \in Nat
  BY InvOf, Sides, RankFacts
<1>2. SentDecode(P, p) \in Nat /\ SentDecode(P, p) <= First(mode)[gates[p] + 1]
      /\ gates[p] + 1 \in 1 .. LastGate /\ First(mode)[gates[p] + 1] \in Nat
  BY <1>1, SentBounds
<1>3. w.id \in 1 .. LastGate - 1 /\ LastGate \in Nat
  BY LastGateNat DEF Unit
<1>4. w.id \in 1 .. LastGate
  BY <1>3
<1>5. Number(mode, w) \in Nat /\ First(mode)[w.id] <= Number(mode, w)
  BY <1>1, NumberIn
<1>6. First(mode)[w.id] \in Nat
  BY <1>1, <1>4, FirstStep
<1>7. w.id <= gates[p]
  <2>1. gates[p] + 1 <= w.id => First(mode)[gates[p] + 1] <= First(mode)[w.id]
    BY <1>1, <1>2, <1>4, FirstLe
  <2>2. ~(First(mode)[gates[p] + 1] <= First(mode)[w.id])
    BY <1>2, <1>5, <1>6
  <2> QED BY <1>1, <1>3, <2>1, <2>2
<1>8. gates[p] <= gates[r] + 1
  <2>1. Level(r) => gates[r] = gates[p]
    BY Sides
  <2>2. Ahead(r) => gates[r] = gates[p] + (IF IsKind(r, Row) THEN 1 ELSE 0)
    BY Sides
  <2>3. Ahead(p) => gates[p] = gates[r] + (IF IsKind(p, Row) THEN 1 ELSE 0)
    BY <1>1, Sides
  <2>4. Level(r) \/ Ahead(r) \/ Ahead(p)
    BY Sides
  <2> QED BY <1>1, <2>1, <2>2, <2>3, <2>4
<1> QED BY <1>1, <1>3, <1>7, <1>8

(* A delivery writes its own place, and keeps what the engine still needs. *)
LEMMA DeliverData ==
  ASSUME NEW P, NEW r \in Rank, NEW p, p = Peer(r), Inv(P), mode' = mode, Deliver(r)
  PROVE  DataOf(P, r)'
<1>0. PICK w : w = Head(rq[r])
  OBVIOUS
<1>1. PICK m : m = Head(wire[r])
  OBVIOUS
<1>2. /\ rq[r] # <<>> /\ wire[r] # <<>> /\ inbuf'[r] = [inbuf[r] EXCEPT ![Place(w)] = m.id]
      /\ Typed /\ P \in Progress /\ UNCHANGED <<plan, done, gates, tp, op, hdr>>
      /\ DataOf(P, r) /\ PcOf(P, r) /\ WindowOf(P, r)
  BY <1>0, <1>1, InvOf, DeliverIs
<1>3. DOMAIN inbuf[r] = Places /\ Vector(mode) /\ mode.chunks \in Nat /\ mode.chunks >= 1
      /\ n(r) \in Nat /\ gates[r] \in Nat /\ Len(rq[r]) \in Nat /\ Len(rq[r]) >= 1
  <2>1. Len(rq[r]) >= 1
    BY <1>2, TypedRank, TailIs
  <2> QED BY <1>2, <2>1, RankFacts DEF Typed
<1>4. /\ n(r)' = n(r) /\ Posted(P, r)' = Posted(P, r) /\ \A ks : IsKind(r, ks)' <=> IsKind(r, ks)
  BY <1>2, QueuesOnly
<1>5. Len(rq'[r]) = Len(rq[r]) - 1
  BY DeliverQueues
<1>6. CASE P[r].pc \in Body
  <2>1. PICK j : j = Got(P, r) + 1
    OBVIOUS
  <2>2. w = BulkMsg(n(r), j) /\ m = BulkMsg(n(r), j) /\ Got(P, r) = Posted(P, r) - Len(rq[r]) /\ Got(P, r) \in Nat
    <3>1. P[r].pc \notin HeadPc \cup {"drainwait"}
      BY <1>6 DEF HeadPc, Body
    <3> QED BY <1>0, <1>1, <1>2, <1>6, <2>1, <3>1, MeetsFirst
  <2>3. Place(w) = <<"bulk", j>> /\ m.id = n(r)
    BY <2>2 DEF Place, BulkMsg, Msg
  <2>4. P[r].pc \notin DecodePc
    BY <1>6 DEF DecodePc, RowPc, Body
  <2>5. PICK z \in BulkSizes \cup {1} : j \in 1 .. z
    <3>1. IsKind(r, Bulk) /\ Posted(P, r) \in Nat /\ Posted(P, r) <= Current(r).size
          /\ Current(r).size \in Nat
      <4>1. IsKind(r, Bulk) /\ Posted(P, r) = (IF P[r].pc = "post" THEN P[r].off ELSE To(P, r))
            /\ P[r].off < To(P, r) /\ Posted(P, r) \in Nat
        BY <1>6, BulkFacts
      <4>2. Current(r).size \in Nat /\ To(P, r) \in Nat /\ To(P, r) <= Current(r).size /\ P[r].off \in Nat
        BY <1>2, <4>1, BulkFacts, RankFacts
      <4> QED BY <4>1, <4>2
    <3>2. j \in 1 .. Current(r).size
      BY <1>3, <2>1, <2>2, <3>1
    <3>3. Current(r).size \in BulkSizes \cup {1}
      <4>1. Current(r) \in Op
        <5>1. plan[r] # <<>>
          BY <1>2, <3>1, RankFacts DEF IsKind
        <5> QED BY <1>2, <5>1, CurrentOp
      <4> QED BY <4>1 DEF Op
    <3> QED BY <3>2, <3>3
  <2>6. \A q \in 1 .. Posted(P, r) - Len(rq'[r]) : inbuf'[r][<<"bulk", q>>] = n(r)
    <3> SUFFICES ASSUME NEW q \in 1 .. Posted(P, r) - Len(rq'[r]) PROVE inbuf'[r][<<"bulk", q>>] = n(r)
      OBVIOUS
    <3>1. inbuf'[r] = [inbuf[r] EXCEPT ![<<"bulk", j>>] = n(r)]
      BY <1>2, <2>3
    <3>2. q = j \/ q \in 1 .. Posted(P, r) - Len(rq[r])
      <4>1. Posted(P, r) \in Nat
        BY BulkFacts
      <4> QED BY <1>3, <1>5, <2>1, <2>2, <4>1
    <3>3. CASE q = j
      <4>1. <<"bulk", j>> \in Places
        BY <2>5 DEF Places
      <4> QED BY <1>3, <3>1, <3>3, <4>1
    <3>4. CASE q # j
      <4>1. inbuf[r][<<"bulk", q>>] = n(r)
        <5>1. IsKind(r, Bulk)
          BY <1>6, BulkFacts
        <5> QED BY <1>2, <1>6, <3>2, <3>4, <5>1 DEF DataOf
      <4>2. <<"bulk", q>> # <<"bulk", j>>
        BY <3>4
      <4>3. q \in UNION {1 .. k : k \in BulkSizes \cup {1}}
        <5>1. z \in Nat
          BY BulkAssumption
        <5>2. q <= j /\ q \in Nat /\ q >= 1
          BY <1>3, <1>5, <2>1, <2>2, <3>2
        <5> QED BY <2>5, <5>1, <5>2
      <4>4. <<"bulk", q>> \in Places
        BY <4>3 DEF Places
      <4> QED BY <1>3, <3>1, <4>1, <4>2, <4>4
    <3> QED BY <3>3, <3>4
  <2> QED BY <1>2, <1>4, <2>4, <2>6 DEF DataOf
<1>7. CASE P[r].pc \notin Body /\ P[r].pc \in DecodePc
  <2>1. /\ Unit(mode, w) /\ w.kind = w.tag /\ Number(mode, w) = Delivered(P, r) /\ w.tag # "bulk"
        /\ m.id = w.id /\ Delivered(P, r) \in Nat /\ Delivered(P, r) < SentDecode(P, p) /\ tp[r].win
    <3>1. P[r].pc \notin HeadPc \cup {"drainwait"}
      BY <1>7 DEF DecodePc, RowPc, HeadPc
    <3> QED BY <1>0, <1>1, <1>2, <1>7, <3>1, MeetsFirst
  <2>2. Delivered(P, r)' = Delivered(P, r) + 1
    BY <1>7, DeliverQueues
  <2>3. w.id \in Nat /\ w.id <= gates[r] + 1
    BY <2>1, NextDelivered
  <2>4. inbuf'[r] = [inbuf[r] EXCEPT ![<<w.tag, SlotOf(w.id), w.part>>] = w.id]
    <3>1. w.kind # "bulk"
      BY <2>1
    <3>2. Place(w) = <<w.tag, SlotOf(w.id), w.part>>
      BY <2>1, <3>1 DEF Place
    <3> QED BY <1>2, <2>1, <3>2
  <2>5. w.id \in 1 .. LastGate - 1 /\ LastGate \in Nat
    BY <2>1, LastGateNat DEF Unit
  <2>6. ~(IsKind(r, Bulk) /\ P[r].pc \in Body \cup {"idle"})
    <3>1. SUFFICES ASSUME IsKind(r, Bulk), P[r].pc = "idle" PROVE FALSE
      BY <1>7
    <3>2. IsKind(r, Row \cup {"aux"})
      BY <1>2, <2>1, <3>1 DEF WindowOf
    <3> QED BY <3>1, <3>2, KindPc
  <2>7. ASSUME NEW k \in 1 .. LastGate - 1, k >= gates[r] + (IF IsKind(r, Bulk) THEN 1 ELSE 0)
        PROVE  /\ k >= gates[r] /\ SlotOf(k) \in Slot /\ k \in Nat /\ First(mode)[k] \in Nat
               /\ First(mode)[w.id] > First(mode)[k] => SlotOf(w.id) # SlotOf(k)
    <3>1. k >= gates[r] /\ k \in Nat \ {0}
      BY <1>3, <2>5, <2>7
    <3>2. SlotOf(k) \in Slot /\ SlotOf(k) # SlotOf(k + 1)
      BY <3>1, SlotsDiffer
    <3>3. k \in 1 .. LastGate /\ w.id \in 1 .. LastGate
      BY <2>5
    <3>4. First(mode)[k] \in Nat /\ First(mode)[w.id] \in Nat /\ (w.id <= k => First(mode)[w.id] <= First(mode)[k])
      BY <1>3, <3>3, FirstLe, FirstStep
    <3>5. First(mode)[w.id] > First(mode)[k] => w.id = k + 1
      BY <1>3, <2>3, <3>1, <3>4
    <3> QED BY <3>1, <3>2, <3>4, <3>5
  <2>8. ASSUME NEW k \in 1 .. LastGate - 1, k >= gates[r] + (IF IsKind(r, Bulk) THEN 1 ELSE 0),
               NEW q \in 1 .. mode.chunks, First(mode)[k] + q - 1 < Delivered(P, r) + 1
        PROVE  inbuf'[r][<<"gate", SlotOf(k), q>>] = k
    <3>1. <<"gate", SlotOf(k), q>> \in Places
      BY <2>7, <2>8 DEF Places
    <3>2. CASE First(mode)[k] + q - 1 = Delivered(P, r)
      <4>1. PICK u : u = [tag |-> "gate", id |-> k, part |-> q]
        OBVIOUS
      <4>2. Unit(mode, u) /\ Number(mode, u) = Number(mode, w) /\ u.id = k /\ u.tag = "gate" /\ u.part = q
        BY <2>1, <3>2, <4>1 DEF Unit, Number
      <4>3. u.id = w.id /\ u.tag = w.tag /\ u.part = w.part
        BY <1>3, <2>1, <4>2, SameNumber
      <4>4. w.id = k /\ w.tag = "gate" /\ w.part = q
        BY <4>2, <4>3
      <4> QED BY <1>3, <2>4, <3>1, <4>4
    <3>3. CASE First(mode)[k] + q - 1 < Delivered(P, r)
      <4>1. inbuf[r][<<"gate", SlotOf(k), q>>] = k
        BY <1>2, <1>7, <2>8, <3>3 DEF DataOf
      <4>2. <<"gate", SlotOf(k), q>> # <<w.tag, SlotOf(w.id), w.part>>
        <5>1. SUFFICES ASSUME w.tag = "gate", w.part = q, SlotOf(w.id) = SlotOf(k) PROVE FALSE
          OBVIOUS
        <5>2. First(mode)[w.id] + q - 1 = Delivered(P, r)
          BY <2>1, <5>1 DEF Number
        <5>3. First(mode)[w.id] \in Nat
          <6>1. w.id \in 1 .. LastGate
            BY <2>5
          <6> QED BY <1>3, <6>1, FirstStep
        <5>4. First(mode)[k] \in Nat /\ (First(mode)[w.id] > First(mode)[k] => SlotOf(w.id) # SlotOf(k))
          BY <2>7, <2>8
        <5> QED BY <2>1, <3>3, <5>1, <5>2, <5>3, <5>4
      <4> QED BY <1>3, <2>4, <3>1, <4>1, <4>2
    <3>4. First(mode)[k] \in Nat
      BY <2>7, <2>8
    <3> QED BY <2>1, <2>8, <3>2, <3>3, <3>4
  <2>9. ASSUME NEW k \in 1 .. LastGate - 1, k >= gates[r] + (IF IsKind(r, Bulk) THEN 1 ELSE 0),
               Eligible(mode, k), First(mode)[k] + mode.chunks < Delivered(P, r) + 1
        PROVE  inbuf'[r][<<"aux", SlotOf(k), 1>>] = k
    <3>1. <<"aux", SlotOf(k), 1>> \in Places
      BY <2>7, <2>9 DEF Places
    <3>2. CASE First(mode)[k] + mode.chunks = Delivered(P, r)
      <4>1. PICK u : u = [tag |-> "aux", id |-> k, part |-> 1]
        OBVIOUS
      <4>2. Unit(mode, u) /\ Number(mode, u) = Number(mode, w) /\ u.id = k /\ u.tag = "aux" /\ u.part = 1
        BY <2>1, <2>9, <3>2, <4>1 DEF Unit, Number
      <4>3. u.id = w.id /\ u.tag = w.tag /\ u.part = w.part
        BY <1>3, <2>1, <4>2, SameNumber
      <4>4. w.id = k /\ w.tag = "aux" /\ w.part = 1
        BY <4>2, <4>3
      <4> QED BY <1>3, <2>4, <3>1, <4>4
    <3>3. CASE First(mode)[k] + mode.chunks < Delivered(P, r)
      <4>1. inbuf[r][<<"aux", SlotOf(k), 1>>] = k
        BY <1>2, <1>7, <2>9, <3>3 DEF DataOf
      <4>2. <<"aux", SlotOf(k), 1>> # <<w.tag, SlotOf(w.id), w.part>>
        <5>1. SUFFICES ASSUME w.tag = "aux", SlotOf(w.id) = SlotOf(k) PROVE FALSE
          OBVIOUS
        <5>2. First(mode)[w.id] + mode.chunks = Delivered(P, r)
          BY <2>1, <5>1 DEF Number
        <5>3. First(mode)[w.id] \in Nat
          <6>1. w.id \in 1 .. LastGate
            BY <2>5
          <6> QED BY <1>3, <6>1, FirstStep
        <5>4. First(mode)[k] \in Nat /\ (First(mode)[w.id] > First(mode)[k] => SlotOf(w.id) # SlotOf(k))
          BY <2>7, <2>9
        <5> QED BY <1>3, <2>1, <3>3, <5>1, <5>2, <5>3, <5>4
      <4> QED BY <1>3, <2>4, <3>1, <4>1, <4>2
    <3>4. First(mode)[k] \in Nat
      BY <2>7, <2>9
    <3> QED BY <1>3, <2>1, <2>9, <3>2, <3>3, <3>4
  <2> QED BY <1>2, <1>4, <2>2, <2>6, <2>8, <2>9 DEF DataOf, Eligible, SlotOf
<1>8. CASE P[r].pc \notin Body /\ P[r].pc \notin DecodePc
  <2>1. P[r].pc # "idle"
    BY <1>8 DEF DecodePc
  <2> QED BY <1>2, <1>4, <1>8, <2>1 DEF DataOf
<1> QED BY <1>6, <1>7, <1>8

(* A message that is delivered awaits its acknowledgement, if it is        *)
(* signaled, and what was before the messages is before the rest.          *)
LEMMA DeliverSent ==
  ASSUME NEW P, NEW r \in Rank, NEW p, p = Peer(r), Inv(P), mode' = mode, Deliver(r)
  PROVE  SendOf(P, p)' /\ AckOf(P, p)' /\ RowOf(P, p)'
<1>0. PICK m : m = Head(wire[r])
  OBVIOUS
<1>1. /\ rq[r] # <<>> /\ wire[r] # <<>> /\ wire'[r] = Tail(wire[r]) /\ cq'[p] = cq[p]
      /\ unacked'[p] = IF m.sig THEN Append(unacked[p], m) ELSE unacked[p]
      /\ Typed /\ P \in Progress /\ UNCHANGED <<plan, done, gates, tp, op, hdr>>
  BY <1>0, InvOf, DeliverIs
<1>2. p \in Rank /\ Peer(p) = r
  BY Sides
<1>3. unacked[p] \in Seq(Message) /\ wire[r] \in Seq(Message) /\ Len(unacked[p]) \in Nat /\ Len(wire[r]) \in Nat
      /\ Len(cq[p]) \in Nat
  BY <1>1, <1>2, RankFacts
<1>4. /\ m \in Message /\ m = wire[r][1] /\ 1 \in 1 .. Len(wire[r])
      /\ \A i \in 1 .. Len(Tail(wire[r])) : i + 1 \in 1 .. Len(wire[r]) /\ Tail(wire[r])[i] = wire[r][i + 1]
  BY <1>0, <1>1, <1>3, TailIs
<1>5. SendOf(P, p) /\ AckOf(P, p) /\ RowOf(P, p)
  BY <1>2, InvOf
<1>6. /\ SentDecode(P, p)' = SentDecode(P, p) /\ Awaited(P, p)' = Awaited(P, p)
      /\ \A ks : IsKind(p, ks)' <=> IsKind(p, ks)
  BY <1>1, <1>2, QueuesOnly
<1>7. m.sig \in BOOLEAN /\ (m \in SignalsBulk <=> m.sig /\ m \in CarriesBulk)
  BY <1>4 DEF SignalsBulk, CarriesBulk, Message
<1>8. m.tag # "bulk" =>
        /\ Unit(mode, m) /\ Number(mode, m) < SentDecode(P, p) /\ Number(mode, m) \in Nat
        /\ Stream(mode, wire[r], Number(mode, m), SentDecode(P, p))
  <2>1. SUFFICES ASSUME m.tag # "bulk"
                 PROVE  /\ Unit(mode, m) /\ Number(mode, m) < SentDecode(P, p) /\ Number(mode, m) \in Nat
                        /\ Stream(mode, wire[r], Number(mode, m), SentDecode(P, p))
    OBVIOUS
  <2>2. PICK w : w = Head(rq[r])
    OBVIOUS
  <2>3. \A a, b : BulkMsg(a, b).tag = "bulk"
    BY DEF BulkMsg, Msg
  <2>4. \A a, b, c : Msg(a, 0, b, "bulk", c).tag = "bulk"
    BY DEF Msg
  <2>5. /\ ~Filling(P, r) /\ ~Bulking(P, r) /\ Unit(mode, m) /\ Number(mode, m) = Delivered(P, r)
        /\ Delivered(P, r) < SentDecode(P, p) /\ Delivered(P, r) \in Nat
    BY <1>0, <1>1, <2>1, <2>2, <2>3, <2>4, MeetsFirst
  <2>6. Stream(mode, wire[r], Delivered(P, r), SentDecode(P, p))
    BY <2>5, DecodeWire
  <2> QED BY <2>5, <2>6
<1>9. \A x : Before(mode, x, wire[r]) => Before(mode, x, wire'[r])
  BY <1>1, <1>4 DEF Before
<1>10. SendOf(P, p)'
  <2>1. Count(wire'[r], SignalsBulk) = Count(wire[r], SignalsBulk) - (IF m \in SignalsBulk THEN 1 ELSE 0)
    <3>1. \A V : Count(Tail(wire[r]), V) = Count(wire[r], V) - (IF Head(wire[r]) \in V THEN 1 ELSE 0)
      BY <1>1, <1>3, CountTail
    <3> QED BY <1>0, <1>1, <3>1
  <2>2. Count(unacked'[p], CarriesBulk) = Count(unacked[p], CarriesBulk) + (IF m \in SignalsBulk THEN 1 ELSE 0)
    <3>1. \A V : Count(Append(unacked[p], m), V) = Count(unacked[p], V) + (IF m \in V THEN 1 ELSE 0)
      BY <1>3, <1>4, CountAppend
    <3>2. Count(unacked[p], CarriesBulk) \in Nat
      BY <1>3, CountType
    <3>3. CASE m.sig
      BY <1>1, <1>7, <3>1, <3>3
    <3>4. CASE ~m.sig
      BY <1>1, <1>7, <3>2, <3>4
    <3> QED BY <1>7, <3>3, <3>4
  <2>3. /\ Count(unacked[p], CarriesBulk) \in Nat /\ Count(wire[r], SignalsBulk) \in Nat
        /\ Count(cq[p], SentBulk) \in Nat
    BY <1>3, CountType
  <2>4. Count(wire[r], SignalsBulk) + Count(unacked[p], CarriesBulk) + Count(cq[p], SentBulk) = Awaited(P, p)
    BY <1>2, <1>5 DEF SendOf
  <2>5. Count(wire'[r], SignalsBulk) + Count(unacked'[p], CarriesBulk) + Count(cq'[p], SentBulk) = Awaited(P, p)
    <3>1. CASE m \in SignalsBulk
      BY <1>1, <2>1, <2>2, <2>3, <2>4, <3>1
    <3>2. CASE m \notin SignalsBulk
      BY <1>1, <2>1, <2>2, <2>3, <2>4, <3>2
    <3> QED BY <3>1, <3>2
  <2> QED BY <1>2, <1>6, <2>5 DEF SendOf
<1>11. ASSUME NEW i \in 1 .. Len(unacked'[p])
       PROVE  (i \in 1 .. Len(unacked[p]) /\ unacked'[p][i] = unacked[p][i]) \/ (m.sig /\ unacked'[p][i] = m)
  <2>1. CASE m.sig
    <3>1. unacked'[p] = Append(unacked[p], m)
      BY <1>1, <2>1
    <3>2. /\ Append(unacked[p], m)[Len(unacked[p]) + 1] = m
          /\ \A j \in 1 .. Len(Append(unacked[p], m)) : j \in 1 .. Len(unacked[p]) \/ j = Len(unacked[p]) + 1
          /\ \A j \in 1 .. Len(unacked[p]) : Append(unacked[p], m)[j] = unacked[p][j]
      BY <1>3, <1>4, AppendIs
    <3> QED BY <1>11, <2>1, <3>1, <3>2
  <2>2. CASE ~m.sig
    BY <1>1, <1>11, <2>2
  <2> QED BY <1>7, <2>1, <2>2
<1>12. AckOf(P, p)'
  <2>1. ASSUME NEW i \in 1 .. Len(unacked'[p]), unacked'[p][i].tag # "bulk"
        PROVE  /\ Unit(mode, unacked'[p][i]) /\ Number(mode, unacked'[p][i]) < SentDecode(P, p)
               /\ Before(mode, Number(mode, unacked'[p][i]) + 1, wire'[r])
    <3>1. CASE i \in 1 .. Len(unacked[p]) /\ unacked'[p][i] = unacked[p][i]
      BY <1>2, <1>5, <1>9, <2>1, <3>1 DEF AckOf, Behind, AckSent, AckDone, AckAux, AckRow
    <3>2. CASE unacked'[p][i] = m
      <4>1. m.tag # "bulk"
        BY <2>1, <3>2
      <4>2. Before(mode, Number(mode, m) + 1, wire'[r])
        <5>1. SUFFICES ASSUME NEW j \in 1 .. Len(Tail(wire[r])), Tail(wire[r])[j].tag # "bulk"
                       PROVE  Number(mode, m) + 1 <= Number(mode, Tail(wire[r])[j])
          BY <1>1 DEF Before
        <5>2. Number(mode, wire[r][j + 1]) = Number(mode, m) + (j + 1) - 1
          BY <1>4, <1>8, <4>1, <5>1 DEF Stream
        <5> QED BY <1>4, <1>8, <4>1, <5>1, <5>2
      <4> QED BY <1>8, <3>2, <4>1, <4>2
    <3> QED BY <1>11, <3>1, <3>2
  <2>2. \A i \in 1 .. Len(cq[p]) : cq[p][i].dir = "send" /\ cq[p][i].tag # "bulk" =>
       /\ Unit(mode, cq[p][i]) /\ Number(mode, cq[p][i]) < SentDecode(P, p)
       /\ Before(mode, Number(mode, cq[p][i]) + 1, wire'[r])
    BY <1>2, <1>5, <1>9 DEF AckOf, Behind, AckSent, AckDone, AckAux, AckRow
  <2>3. /\ tp[p].auxSend >= 1 => /\ First(mode)[tp[p].auxSend + 1] <= SentDecode(P, p)
                                 /\ Before(mode, First(mode)[tp[p].auxSend + 1], wire'[r])
        /\ IsKind(p, {"rgate"}) /\ (P[p].pc = "idle" \/ (P[p].pc = "wait" /\ P[p].sd = 1)) =>
             Before(mode, First(mode)[gates[p]] + mode.chunks, wire'[r])
        /\ IsKind(p, {"aux"}) /\ P[p].pc = "idle" => tp[p].auxSend >= tp[p].last
    BY <1>2, <1>5, <1>9 DEF AckOf, Behind, AckSent, AckDone, AckAux, AckRow
  <2>4. AckSent(mode, unacked'[p], SentDecode(P, p), wire'[r])
    BY <2>1 DEF AckSent, Behind
  <2>5. AckDone(mode, cq[p], SentDecode(P, p), wire'[r])
    BY <2>2 DEF AckDone, Behind
  <2>6. AckAux(mode, tp[p].auxSend, SentDecode(P, p), wire'[r])
    BY <2>3 DEF AckAux
  <2>7. IsKind(p, {"rgate"}) /\ (P[p].pc = "idle" \/ (P[p].pc = "wait" /\ P[p].sd = 1)) =>
          AckRow(mode, gates[p], wire'[r])
    BY <2>3 DEF AckRow
  <2>8. /\ cq'[p] = cq[p] /\ tp' = tp /\ gates' = gates /\ mode' = mode
        /\ SentDecode(P, p)' = SentDecode(P, p)
        /\ (IsKind(p, {"rgate"})' <=> IsKind(p, {"rgate"})) /\ (IsKind(p, {"aux"})' <=> IsKind(p, {"aux"}))
    BY <1>1, <1>6
  <2> QED BY <1>2, <2>3, <2>4, <2>5, <2>6, <2>7, <2>8 DEF AckOf
<1>13. RowOf(P, p)'
  <2>1. \A u : LastSignals(p, u)' <=> LastSignals(p, u)
    BY <1>1 DEF LastSignals
  <2>2. IsKind(p, {"rgate"}) /\ P[p].pc \in RowPc =>
          /\ \A i \in 1 .. Len(wire'[r]) : wire'[r][i].sig => LastSignals(p, wire'[r][i])
          /\ \A i \in 1 .. Len(unacked'[p]) : LastSignals(p, unacked'[p][i])
          /\ \A i \in 1 .. Len(cq[p]) : cq[p][i].dir = "send" => LastSignals(p, cq[p][i])
    <3>1. SUFFICES ASSUME IsKind(p, {"rgate"}) /\ P[p].pc \in RowPc
                   PROVE  /\ \A i \in 1 .. Len(wire'[r]) : wire'[r][i].sig => LastSignals(p, wire'[r][i])
                          /\ \A i \in 1 .. Len(unacked'[p]) : LastSignals(p, unacked'[p][i])
                          /\ \A i \in 1 .. Len(cq[p]) : cq[p][i].dir = "send" => LastSignals(p, cq[p][i])
      OBVIOUS
    <3>2. /\ \A i \in 1 .. Len(wire[r]) : wire[r][i].sig => LastSignals(p, wire[r][i])
          /\ \A i \in 1 .. Len(unacked[p]) : LastSignals(p, unacked[p][i])
          /\ \A i \in 1 .. Len(cq[p]) : cq[p][i].dir = "send" => LastSignals(p, cq[p][i])
      BY <1>2, <1>5, <3>1 DEF RowOf
    <3>3. \A i \in 1 .. Len(wire'[r]) : wire'[r][i].sig => LastSignals(p, wire'[r][i])
      BY <1>1, <1>4, <3>2
    <3>4. \A i \in 1 .. Len(unacked'[p]) : LastSignals(p, unacked'[p][i])
      BY <1>4, <1>11, <3>2
    <3> QED BY <3>2, <3>3, <3>4
  <2>3. /\ cq'[p] = cq[p] /\ gates' = gates /\ mode' = mode
        /\ (IsKind(p, {"rgate"})' <=> IsKind(p, {"rgate"}))
    BY <1>1, <1>6
  <2> QED BY <1>2, <2>2, <2>3 DEF RowOf, LastSignals
<1> QED BY <1>10, <1>12, <1>13

(* A delivery keeps the invariant.                                         *)
LEMMA DeliverInv ==
  ASSUME NEW P, NEW r \in Rank, NEW p, p = Peer(r), Inv(P), Typed', mode' = mode, Deliver(r)
  PROVE  Inv(P)'
<1>1. /\ rq[r] # <<>> /\ wire[r] # <<>> /\ rq'[p] = rq[p] /\ wire'[p] = wire[p] /\ cq'[p] = cq[p] /\ inbuf'[p] = inbuf[p]
      /\ Typed /\ P \in Progress /\ UNCHANGED <<plan, done, gates, tp, op, hdr>>
  BY InvOf, DeliverIs
<1>2. p \in Rank /\ p # r /\ Peer(p) = r
  BY Sides
<1>3. /\ PcOf(P, r)' /\ WindowOf(P, r)' /\ GateOf(P, r)' /\ DoneOf(P, r)' /\ ProgramOf(r)' /\ HeaderOf(P, r)'
      /\ ProgramOf(p)' /\ HeaderOf(P, p)'
      /\ (Level(r)' <=> Level(r)) /\ (Ahead(r)' <=> Ahead(r)) /\ (Level(p)' <=> Level(p)) /\ (Ahead(p)' <=> Ahead(p))
      /\ (WindowBefore(r)' <=> WindowBefore(r)) /\ (WindowBefore(p)' <=> WindowBefore(p))
      /\ (SentAll(P, r)' <=> SentAll(P, r)) /\ (SentAll(P, p)' <=> SentAll(P, p))
  BY <1>1, <1>2, QueuesOnly
<1>4. QueueOf(P, r)' /\ WireOf(P, r)'
  BY DeliverQueues
<1>5. RecvOf(P, r)' /\ SendOf(P, r)' /\ AckOf(P, r)' /\ RowOf(P, r)'
  BY DeliverRecv
<1>6. MarkOf(P, r)' /\ DataOf(P, r)'
  BY DeliverMark, DeliverData
<1>7. SendOf(P, p)' /\ AckOf(P, p)' /\ RowOf(P, p)'
  BY DeliverSent
<1>8. Untouched(p) /\ Own(P, p)
  BY <1>1, <1>2, InvOf DEF Untouched
<1>9. Own(P, p)'
  BY <1>8, PeerOwn
<1>10. SyncOf(P, r)'
  <2>1. SyncOf(P, r)
    BY InvOf
  <2> QED BY <1>1, <1>3, <2>1 DEF SyncOf
<1>11. SyncOf(P, p)'
  <2>1. SyncOf(P, p)
    BY <1>2, InvOf
  <2>2. Ahead(p) => P[r].pc \notin Body
    BY <1>1, <1>2, <2>1 DEF SyncOf
  <2> QED BY <1>1, <1>2, <1>3, <2>1, <2>2 DEF SyncOf
<1>12. WireOf(P, p)'
  <2>1. WireOf(P, p)
    BY <1>2, InvOf
  <2>2. /\ n(p)' = n(p) /\ n(r)' = n(r) /\ Sent(P, r)' = Sent(P, r) /\ Posted(P, p)' = Posted(P, p)
        /\ SentDecode(P, r)' = SentDecode(P, r) /\ End(p)' = End(p)
        /\ (Filling(P, p)' <=> Filling(P, p)) /\ (Bulking(P, p)' <=> Bulking(P, p))
    BY <1>1, <1>2, QueuesOnly
  <2>3. Delivered(P, p)' = Delivered(P, p)
    BY <1>1, <2>2 DEF Delivered
  <2>4. Got(P, p)' = Got(P, p) /\ Out(P, p)' = Out(P, p)
    BY <1>1, <1>2, <2>2 DEF Got, Out
  <2> QED BY <1>1, <1>2, <2>1, <2>2, <2>3, <2>4, WireFrame
<1>13. Own(P, r)'
  BY <1>3, <1>4, <1>5, <1>6 DEF Own
<1>14. Shared(P, r)' /\ Shared(P, p)'
  BY <1>3, <1>4, <1>5, <1>7, <1>10, <1>11, <1>12 DEF Shared
<1> QED BY <1>1, <1>9, <1>13, <1>14, Whole

(* An acknowledgement turns a delivered message into a completion.         *)
LEMMA AckInv ==
  ASSUME NEW P, NEW r \in Rank, NEW p, p = Peer(r), Inv(P), Typed', mode' = mode, Ack(r)
  PROVE  Inv(P)'
<1>0. PICK m : m = Head(unacked[r])
  OBVIOUS
<1>1. PICK e : e = CQE("send", m)
  OBVIOUS
<1>2. /\ Typed /\ P \in Progress /\ p \in Rank /\ p # r /\ Peer(p) = r
  BY InvOf, Sides
<1>3. /\ unacked[r] # <<>> /\ unacked[r] \in Seq(Message) /\ cq[r] \in Seq(Completion) /\ e \in Completion
      /\ m \in Message /\ m = unacked[r][1] /\ 1 \in 1 .. Len(unacked[r])
      /\ Len(cq[r]) \in Nat /\ Len(unacked[r]) \in Nat
      /\ \A i \in 1 .. Len(Tail(unacked[r])) : i + 1 \in 1 .. Len(unacked[r])
                                               /\ Tail(unacked[r])[i] = unacked[r][i + 1]
  <2>1. unacked[r] # <<>>
    BY DEF Ack
  <2>2. unacked[r] \in Seq(Message) /\ cq[r] \in Seq(Completion)
    BY <1>2, TypedRank
  <2>3. e \in Completion /\ m \in Message
    BY <1>0, <1>1, <2>1, <2>2, CqeTyped
  <2> QED BY <1>0, <2>1, <2>2, <2>3, TailIs
<1>4. /\ unacked'[r] = Tail(unacked[r]) /\ unacked'[p] = unacked[p]
      /\ cq'[r] = Append(cq[r], e) /\ cq'[p] = cq[p]
      /\ UNCHANGED <<plan, done, gates, tp, op, rq, wire, inbuf, hdr>>
  <2>1. /\ cq' = [cq EXCEPT ![r] = Append(@, e)] /\ unacked' = [unacked EXCEPT ![r] = Tail(@)]
        /\ UNCHANGED <<plan, done, gates, tp, op, rq, wire, inbuf, hdr>>
    BY <1>0, <1>1 DEF Ack
  <2>2. unacked \in [Rank -> Seq(Message)] /\ cq \in [Rank -> Seq(Completion)]
    BY <1>2 DEF Typed
  <2> QED BY <1>2, <2>1, <2>2
<1>5. /\ e.dir = "send" /\ e.tag = m.tag /\ e.id = m.id /\ e.part = m.part
      /\ (Unit(mode, e) <=> Unit(mode, m)) /\ Number(mode, e) = Number(mode, m)
  BY <1>1, CqeNumber
<1>6. e \notin Received /\ (e \in SentBulk <=> m \in CarriesBulk)
  BY <1>3, <1>5 DEF Received, SentBulk, CarriesBulk
<1>7. /\ Len(cq'[r]) = Len(cq[r]) + 1 /\ cq'[r][Len(cq[r]) + 1] = e
      /\ \A i \in 1 .. Len(cq'[r]) : i \in 1 .. Len(cq[r]) \/ i = Len(cq[r]) + 1
      /\ \A i \in 1 .. Len(cq[r]) : cq'[r][i] = cq[r][i]
  BY <1>3, <1>4, AppendIs
<1>8. \A i \in 1 .. Len(cq'[r]) : cq'[r][i].dir = "recv" => i \in 1 .. Len(cq[r]) /\ cq'[r][i] = cq[r][i]
  BY <1>5, <1>7
<1>9. /\ QueueOf(P, r) /\ RecvOf(P, r) /\ MarkOf(P, r) /\ DataOf(P, r) /\ SyncOf(P, r) /\ SyncOf(P, p)
      /\ SendOf(P, r) /\ AckOf(P, r) /\ RowOf(P, r) /\ WireOf(P, r) /\ WireOf(P, p)
      /\ Own(P, p) /\ Shared(P, p)
  BY <1>2, InvOf
<1>10. ASSUME NEW s \in Rank
       PROVE  /\ n(s)' = n(s) /\ (WindowBefore(s)' <=> WindowBefore(s))
              /\ (\A ks : IsKind(s, ks)' <=> IsKind(s, ks))
              /\ (Level(s)' <=> Level(s)) /\ (Ahead(s)' <=> Ahead(s))
              /\ Posted(P, s)' = Posted(P, s) /\ Sent(P, s)' = Sent(P, s)
              /\ SentDecode(P, s)' = SentDecode(P, s) /\ End(s)' = End(s) /\ Polled(P, s)' = Polled(P, s)
              /\ WindowLen(s)' = WindowLen(s) /\ Awaited(P, s)' = Awaited(P, s)
              /\ (SentAll(P, s)' <=> SentAll(P, s)) /\ Delivered(P, s)' = Delivered(P, s)
              /\ (Filling(P, s)' <=> Filling(P, s)) /\ (Bulking(P, s)' <=> Bulking(P, s))
              /\ PcOf(P, s)' /\ WindowOf(P, s)' /\ GateOf(P, s)' /\ DoneOf(P, s)' /\ ProgramOf(s)' /\ HeaderOf(P, s)'
  <2>1. End(s)' = End(s)
    BY <1>4, QueuesOnly
  <2>2. Delivered(P, s)' = Delivered(P, s)
    BY <1>4, <2>1 DEF Delivered
  <2> QED BY <1>4, <2>2, QueuesOnly
<1>11. QueueOf(P, r)'
  BY <1>4, <1>9, <1>10 DEF QueueOf
<1>12. /\ Count(cq'[r], Received) = Count(cq[r], Received)
       /\ Count(cq'[r], SentBulk) = Count(cq[r], SentBulk) + (IF m \in CarriesBulk THEN 1 ELSE 0)
       /\ Count(unacked'[r], CarriesBulk) = Count(unacked[r], CarriesBulk) - (IF m \in CarriesBulk THEN 1 ELSE 0)
       /\ Count(cq[r], SentBulk) \in Nat /\ Count(unacked[r], CarriesBulk) \in Nat
  <2>1. \A V : Count(Append(cq[r], e), V) = Count(cq[r], V) + (IF e \in V THEN 1 ELSE 0)
    BY <1>3, CountAppend
  <2>2. \A V : Count(Tail(unacked[r]), V) = Count(unacked[r], V) - (IF Head(unacked[r]) \in V THEN 1 ELSE 0)
    BY <1>3, CountTail
  <2>3. \A V : Count(cq[r], V) \in Nat /\ Count(unacked[r], V) \in Nat
    BY <1>3, CountType
  <2>4. Count(cq'[r], Received) = Count(cq[r], Received)
    BY <1>4, <1>6, <2>1, <2>3
  <2>5. Count(cq'[r], SentBulk) = Count(cq[r], SentBulk) + (IF m \in CarriesBulk THEN 1 ELSE 0)
    BY <1>4, <1>6, <2>1
  <2>6. Count(unacked'[r], CarriesBulk) = Count(unacked[r], CarriesBulk) - (IF m \in CarriesBulk THEN 1 ELSE 0)
    BY <1>0, <1>4, <2>2
  <2> QED BY <2>3, <2>4, <2>5, <2>6
<1>13. RecvOf(P, r)'
  <2>1. P[r].pc \in Body => \A i \in 1 .. Len(cq'[r]) : cq'[r][i].dir = "recv" => cq'[r][i].tag = "bulk"
    BY <1>8, <1>9 DEF RecvOf
  <2> QED BY <1>4, <1>9, <1>10, <1>12, <2>1 DEF RecvOf
<1>14. MarkOf(P, r)'
  <2>1. SUFFICES ASSUME P[r].pc \in DecodePc PROVE MarkOf(P, r)'
    BY DEF MarkOf
  <2>2. /\ Polled(P, r) <= Delivered(P, r)
        /\ tp[r].recvDone >= 1 => First(mode)[tp[r].recvDone] + mode.chunks <= Delivered(P, r)
        /\ tp[r].auxRecv >= 1 => First(mode)[tp[r].auxRecv + 1] <= Delivered(P, r)
    BY <1>9, <2>1 DEF MarkOf
  <2>3. \A i \in 1 .. Len(cq'[r]) : cq'[r][i].dir = "recv" =>
         /\ Unit(mode, cq'[r][i])
         /\ Number(mode, cq'[r][i]) < Delivered(P, r) /\ Polled(P, r) <= Number(mode, cq'[r][i])
         /\ tp[r].recvDone >= 1 =>
              First(mode)[tp[r].recvDone] + mode.chunks <= Number(mode, cq'[r][i])
         /\ tp[r].auxRecv >= 1 => First(mode)[tp[r].auxRecv + 1] <= Number(mode, cq'[r][i])
    BY <1>8, <1>9, <2>1 DEF MarkOf
  <2>4. \A i, j \in 1 .. Len(cq'[r]) : i < j /\ cq'[r][i].dir = "recv" /\ cq'[r][j].dir = "recv" =>
         Number(mode, cq'[r][i]) < Number(mode, cq'[r][j])
    BY <1>8, <1>9, <2>1 DEF MarkOf
  <2> QED BY <1>4, <1>10, <2>2, <2>3, <2>4 DEF MarkOf
<1>15. DataOf(P, r)'
  BY <1>4, <1>9, <1>10 DEF DataOf, Eligible, SlotOf
<1>16. Own(P, r)'
  BY <1>10, <1>11, <1>13, <1>14, <1>15 DEF Own
<1>17. SendOf(P, r)'
  <2>1. Count(wire[p], SignalsBulk) + Count(unacked[r], CarriesBulk) + Count(cq[r], SentBulk) = Awaited(P, r)
    BY <1>9 DEF SendOf
  <2>2. Count(wire[p], SignalsBulk) \in Nat
    BY <1>2, RankFacts, CountType
  <2>3. Count(wire[p], SignalsBulk) + Count(unacked'[r], CarriesBulk) + Count(cq'[r], SentBulk) = Awaited(P, r)
    BY <1>12, <2>1, <2>2
  <2> QED BY <1>4, <1>10, <2>3 DEF SendOf
<1>18. AckOf(P, r)'
  <2>1. \A i \in 1 .. Len(unacked'[r]) : unacked'[r][i].tag # "bulk" =>
       /\ Unit(mode, unacked'[r][i]) /\ Number(mode, unacked'[r][i]) < SentDecode(P, r)
       /\ Before(mode, Number(mode, unacked'[r][i]) + 1, wire[p])
    BY <1>3, <1>4, <1>9 DEF AckOf, Behind, AckSent, AckDone, AckAux, AckRow
  <2>2. m.tag # "bulk" =>
       /\ Unit(mode, m) /\ Number(mode, m) < SentDecode(P, r) /\ Before(mode, Number(mode, m) + 1, wire[p])
    BY <1>3, <1>9 DEF AckOf, Behind, AckSent, AckDone, AckAux, AckRow
  <2>3. \A i \in 1 .. Len(cq'[r]) : cq'[r][i].dir = "send" /\ cq'[r][i].tag # "bulk" =>
       /\ Unit(mode, cq'[r][i]) /\ Number(mode, cq'[r][i]) < SentDecode(P, r)
       /\ Before(mode, Number(mode, cq'[r][i]) + 1, wire[p])
    <3>1. SUFFICES ASSUME NEW i \in 1 .. Len(cq'[r]), cq'[r][i].dir = "send", cq'[r][i].tag # "bulk"
                   PROVE  /\ Unit(mode, cq'[r][i]) /\ Number(mode, cq'[r][i]) < SentDecode(P, r)
                          /\ Before(mode, Number(mode, cq'[r][i]) + 1, wire[p])
      OBVIOUS
    <3>2. CASE i \in 1 .. Len(cq[r])
      <4>1. cq'[r][i] = cq[r][i]
        BY <1>7, <3>2
      <4> QED BY <1>9, <3>1, <3>2, <4>1 DEF AckOf, Behind, AckSent, AckDone, AckAux, AckRow
    <3>3. CASE i = Len(cq[r]) + 1
      <4>1. cq'[r][i] = e
        BY <1>7, <3>3
      <4> QED BY <1>5, <2>2, <3>1, <4>1
    <3> QED BY <1>7, <3>2, <3>3
  <2>4. /\ AckAux(mode, tp[r].auxSend, SentDecode(P, r), wire[p])
        /\ IsKind(r, {"rgate"}) /\ (P[r].pc = "idle" \/ (P[r].pc = "wait" /\ P[r].sd = 1)) =>
             AckRow(mode, gates[r], wire[p])
        /\ IsKind(r, {"aux"}) /\ P[r].pc = "idle" => tp[r].auxSend >= tp[r].last
    BY <1>9 DEF AckOf
  <2>5. AckSent(mode, unacked'[r], SentDecode(P, r), wire[p])
    BY <2>1 DEF AckSent, Behind
  <2>6. AckDone(mode, cq'[r], SentDecode(P, r), wire[p])
    BY <2>3 DEF AckDone, Behind
  <2>7. /\ wire'[p] = wire[p] /\ tp' = tp /\ gates' = gates /\ mode' = mode
        /\ SentDecode(P, r)' = SentDecode(P, r)
        /\ (IsKind(r, {"rgate"})' <=> IsKind(r, {"rgate"})) /\ (IsKind(r, {"aux"})' <=> IsKind(r, {"aux"}))
    BY <1>4, <1>10
  <2> QED BY <2>4, <2>5, <2>6, <2>7 DEF AckOf
<1>19. RowOf(P, r)'
  <2>1. \A u : LastSignals(r, u)' <=> LastSignals(r, u)
    BY <1>4 DEF LastSignals
  <2>2. LastSignals(r, m) => LastSignals(r, e)
    BY <1>5 DEF LastSignals
  <2>3. ASSUME IsKind(r, {"rgate"}) /\ P[r].pc \in RowPc
        PROVE  /\ \A i \in 1 .. Len(wire[p]) : wire[p][i].sig => LastSignals(r, wire[p][i])
               /\ \A i \in 1 .. Len(unacked'[r]) : LastSignals(r, unacked'[r][i])
               /\ \A i \in 1 .. Len(cq'[r]) : cq'[r][i].dir = "send" => LastSignals(r, cq'[r][i])
    <3>1. /\ \A i \in 1 .. Len(wire[p]) : wire[p][i].sig => LastSignals(r, wire[p][i])
          /\ \A i \in 1 .. Len(unacked[r]) : LastSignals(r, unacked[r][i])
          /\ \A i \in 1 .. Len(cq[r]) : cq[r][i].dir = "send" => LastSignals(r, cq[r][i])
      BY <1>9, <2>3 DEF RowOf
    <3>2. \A i \in 1 .. Len(unacked'[r]) : LastSignals(r, unacked'[r][i])
      BY <1>3, <1>4, <3>1
    <3>3. LastSignals(r, e)
      BY <1>3, <2>2, <3>1
    <3>4. ASSUME NEW i \in 1 .. Len(cq'[r]), cq'[r][i].dir = "send" PROVE LastSignals(r, cq'[r][i])
      <4>1. CASE i \in 1 .. Len(cq[r])
        BY <1>7, <3>1, <3>4, <4>1
      <4>2. CASE i = Len(cq[r]) + 1
        BY <1>7, <3>3, <4>2
      <4> QED BY <1>7, <3>4, <4>1, <4>2
    <3> QED BY <3>1, <3>2, <3>4
  <2> QED BY <1>4, <1>10, <2>1, <2>3 DEF RowOf, LastSignals
<1>20. Untouched(p)
  BY <1>4 DEF Untouched
<1>21. Own(P, p)' /\ SendOf(P, p)' /\ AckOf(P, p)' /\ RowOf(P, p)'
  BY <1>2, <1>4, <1>9, <1>20, PeerOwn, PeerShared
<1>22. SyncOf(P, r)' /\ SyncOf(P, p)'
  BY <1>2, <1>4, <1>9, <1>10 DEF SyncOf
<1>23. ASSUME NEW s \in Rank, NEW t \in Rank, t = Peer(s), WireOf(P, s) PROVE WireOf(P, s)'
  <2>1. Got(P, s)' = Got(P, s) /\ Out(P, s)' = Out(P, s)
    BY <1>4, <1>10, <1>23 DEF Got, Out
  <2> QED BY <1>4, <1>10, <1>23, <2>1, WireFrame
<1>24. Shared(P, r)' /\ Shared(P, p)'
  BY <1>2, <1>9, <1>10, <1>17, <1>18, <1>19, <1>21, <1>22, <1>23 DEF Shared
<1> QED BY <1>2, <1>16, <1>21, <1>24, Whole

-----------------------------------------------------------------------------
(* What a rank is at first.                                                *)
LEMMA InitRank ==
  ASSUME NEW s \in Rank, Init
  PROVE  /\ plan[s] = <<>> /\ n(s) = 0 /\ done[s] = 0 /\ gates[s] = 0
         /\ op[s].pc = "idle" /\ tp[s].win = FALSE /\ tp[s].last = 0 /\ tp[s].recvDone = 0
         /\ tp[s].auxRecv = 0 /\ tp[s].auxSend = 0 /\ tp[s].failed = FALSE
         /\ rq[s] = <<>> /\ wire[s] = <<>> /\ unacked[s] = <<>> /\ cq[s] = <<>> /\ hdr[s] = <<>>
         /\ Len(rq[s]) = 0 /\ Len(wire[s]) = 0 /\ Len(unacked[s]) = 0 /\ Len(cq[s]) = 0 /\ Len(hdr[s]) = 0
BY DEF Init, TpInit, OpInit, n

(* The invariant holds of each rank at first.                              *)
LEMMA InitOne ==
  ASSUME NEW s \in Rank, Init
  PROVE  Own(op, s) /\ Shared(op, s)
<1> DEFINE t == Peer(s)
<1>1. Typed /\ op \in Progress /\ t \in Rank
  BY InitTyped, TwoRanks DEF Typed, Progress
<1>2. Vector(mode) /\ mode.chunks \in Nat /\ mode.chunks >= 1 /\ LastGate \in Nat /\ LastGate >= 2
  BY <1>1, RankFacts, LastGateNat
<1>3. First(mode)[1] = 0 /\ \A k \in 1 .. LastGate : First(mode)[k] \in Nat
  BY <1>2, FirstStep
<1>4. /\ plan[s] = <<>> /\ n(s) = 0 /\ done[s] = 0 /\ gates[s] = 0
      /\ op[s].pc = "idle" /\ ~tp[s].win /\ tp[s].last = 0 /\ tp[s].recvDone = 0
      /\ tp[s].auxRecv = 0 /\ tp[s].auxSend = 0 /\ ~tp[s].failed
      /\ rq[s] = <<>> /\ wire[s] = <<>> /\ unacked[s] = <<>> /\ cq[s] = <<>> /\ hdr[s] = <<>>
      /\ Len(rq[s]) = 0 /\ Len(wire[s]) = 0 /\ Len(unacked[s]) = 0 /\ Len(cq[s]) = 0 /\ Len(hdr[s]) = 0
  BY InitRank
<1>5. /\ n(t) = 0 /\ gates[t] = 0 /\ op[t].pc = "idle" /\ wire[t] = <<>> /\ Len(wire[t]) = 0
  BY <1>1, InitRank
<1>6. (\A ks : ~IsKind(s, ks)) /\ (\A ks : ~IsKind(t, ks))
  <2>1. ~(0 > 0)
    OBVIOUS
  <2> QED BY <1>4, <1>5, <2>1 DEF IsKind
<1>7. ~WindowBefore(s) /\ Level(s) /\ ~Ahead(s)
  <2>1. ~(0 > 1) /\ ~(0 = 0 + 1)
    OBVIOUS
  <2> QED BY <1>4, <1>5, <2>1 DEF WindowBefore, Level, Ahead
<1>8. /\ op[s].pc \notin Body /\ op[s].pc \notin HeadPc /\ op[s].pc \notin RowPc
      /\ op[s].pc \notin HeadPc \cup {"drainwait"} \cup Body /\ op[s].pc \notin {"drainwait", "wait"}
      /\ op[t].pc \notin Body /\ op[t].pc \notin {"drainwait"} \cup Body
  BY <1>4, <1>5 DEF Body, HeadPc, RowPc
<1>9. End(s) = 0 /\ Delivered(op, s) = 0
  <2>1. tp[s].last + 1 + 0 = 1
    BY <1>4
  <2>2. End(s) = 0
    BY <1>3, <1>4, <2>1 DEF End
  <2>3. 0 - 0 = 0
    OBVIOUS
  <2> QED BY <1>4, <1>8, <2>2, <2>3 DEF Delivered
<1>10. SentDecode(op, s) = 0 /\ SentDecode(op, t) = 0 /\ Polled(op, s) = 0
  <2>1. gates[s] + 1 = 1 /\ gates[t] + 1 = 1 /\ tp[s].last + 1 = 1
    BY <1>4, <1>5
  <2> QED BY <1>3, <1>4, <1>5, <1>6, <1>8, <2>1 DEF SentDecode, Polled
<1>11. Awaited(op, s) = 0 /\ SentAll(op, t)
  BY <1>4, <1>5 DEF Awaited, SentAll
<1>12. ASSUME NEW V PROVE /\ Count(<<>>, V) = 0
  BY CountZero
<1>13. ~Filling(op, s) /\ ~Bulking(op, s)
  BY <1>4, <1>8 DEF Filling, Bulking
<1>14. PcOf(op, s)
  BY <1>4, <1>8 DEF PcOf
<1>15. WindowOf(op, s)
  <2>1. 0 <= 0
    OBVIOUS
  <2> QED BY <1>4, <1>6, <1>8, <2>1 DEF WindowOf
<1>16. GateOf(op, s)
  BY <1>2, <1>4, <1>6, <1>8 DEF GateOf
<1>17. DoneOf(op, s)
  <2>1. 0 = 0 - 0
    OBVIOUS
  <2> QED BY <1>4, <2>1 DEF DoneOf
<1>18. QueueOf(op, s)
  <2>1. Stream(mode, <<>>, 0, 0) /\ 0 - 0 = 0
    BY DEF Stream
  <2> QED BY <1>4, <1>8, <1>9, <2>1 DEF QueueOf
<1>19. RecvOf(op, s)
  BY <1>4, <1>8, <1>12 DEF RecvOf
<1>20. MarkOf(op, s)
  <2>1. ~(0 >= 1) /\ 0 <= 0 /\ 1 .. 0 = {}
    OBVIOUS
  <2> QED BY <1>4, <1>9, <1>10, <2>1 DEF MarkOf
<1>21. DataOf(op, s)
  <2>1. ASSUME NEW k \in 1 .. LastGate - 1
        PROVE  /\ \A q \in 1 .. mode.chunks : ~(First(mode)[k] + q - 1 < 0)
               /\ ~(First(mode)[k] + mode.chunks < 0)
    <3>1. First(mode)[k] \in Nat
      <4>1. k \in 1 .. LastGate
        BY <1>2
      <4> QED BY <1>3, <4>1
    <3> QED BY <1>2, <3>1
  <2> QED BY <1>6, <1>9, <2>1 DEF DataOf
<1>22. ProgramOf(s)
  <2>1. 0 <= 0 + 1 /\ 1 .. 0 = {} /\ ~(0 = 0 + 1)
    OBVIOUS
  <2> QED BY <1>4, <1>5, <2>1 DEF ProgramOf
<1>23. SyncOf(op, s)
  BY <1>7, <1>11 DEF SyncOf
<1>24. HeaderOf(op, s)
  <2>1. 1 .. 0 = {}
    OBVIOUS
  <2> QED BY <1>4, <2>1 DEF HeaderOf
<1>25. SendOf(op, s)
  BY <1>4, <1>5, <1>11, <1>12 DEF SendOf
<1>26. WireOf(op, s)
  <2>1. Stream(mode, <<>>, 0, 0)
    BY DEF Stream
  <2> QED BY <1>4, <1>9, <1>10, <1>13, <2>1 DEF WireOf
<1>27. AckOf(op, s)
  <2>1. \A i \in 1 .. Len(<<>>) : FALSE
    OBVIOUS
  <2>2. AckSent(mode, unacked[s], SentDecode(op, s), wire[Peer(s)])
    BY <1>4, <2>1 DEF AckSent
  <2>3. AckDone(mode, cq[s], SentDecode(op, s), wire[Peer(s)])
    BY <1>4, <2>1 DEF AckDone
  <2>4. AckAux(mode, tp[s].auxSend, SentDecode(op, s), wire[Peer(s)])
    BY <1>4 DEF AckAux
  <2> QED BY <1>6, <2>2, <2>3, <2>4 DEF AckOf
<1>28. RowOf(op, s)
  BY <1>6 DEF RowOf
<1> QED BY <1>14, <1>15, <1>16, <1>17, <1>18, <1>19, <1>20, <1>21, <1>22, <1>23, <1>24, <1>25, <1>26,
           <1>27, <1>28 DEF Own, Shared

(* The invariant holds at first.                                           *)
LEMMA InitInv == Init => Inv(op)
<1> SUFFICES ASSUME Init PROVE Inv(op)
  OBVIOUS
<1>1. Typed /\ op \in Progress
  BY InitTyped DEF Typed, Progress
<1> QED BY <1>1, InitOne DEF Inv

(* A step that changes nothing keeps it.                                   *)
LEMMA SameInv ==
  ASSUME NEW P, Inv(P), UNCHANGED vars
  PROVE  Inv(P)'
<1>1. /\ mode' = mode /\ UNCHANGED <<plan, done, gates, tp, op, rq, wire, unacked, cq, inbuf, hdr>>
  BY DEF vars, nicVars
<1>2. /\ P \in Progress /\ Typed /\ \A s \in Rank : Own(P, s) /\ Shared(P, s)
  BY DEF Inv
<1>3. Typed'
  BY <1>2, TypedNext
<1>4. ASSUME NEW s \in Rank PROVE Own(P, s)' /\ Shared(P, s)'
  <2>1. PICK t : t = Peer(s)
    OBVIOUS
  <2>2. t \in Rank /\ Own(P, s) /\ Shared(P, s) /\ SyncOf(P, s) /\ WireOf(P, s)
    BY <1>2, <2>1, TwoRanks DEF Shared
  <2>3. Untouched(s) /\ wire'[t] = wire[t] /\ unacked'[s] = unacked[s]
    BY <1>1 DEF Untouched
  <2>4. Own(P, s)' /\ SendOf(P, s)' /\ AckOf(P, s)' /\ RowOf(P, s)'
    BY <2>1, <2>2, <2>3, PeerOwn, PeerShared
  <2>5. ASSUME NEW z \in Rank
        PROVE  /\ n(z)' = n(z) /\ (WindowBefore(z)' <=> WindowBefore(z))
               /\ (Level(z)' <=> Level(z)) /\ (Ahead(z)' <=> Ahead(z))
               /\ Posted(P, z)' = Posted(P, z) /\ Sent(P, z)' = Sent(P, z)
               /\ SentDecode(P, z)' = SentDecode(P, z)
               /\ (SentAll(P, z)' <=> SentAll(P, z)) /\ Delivered(P, z)' = Delivered(P, z)
               /\ (Filling(P, z)' <=> Filling(P, z)) /\ (Bulking(P, z)' <=> Bulking(P, z))
               /\ ProgramOf(z)' /\ HeaderOf(P, z)'
    <3>1. End(z)' = End(z)
      BY <1>1, QueuesOnly
    <3>2. Delivered(P, z)' = Delivered(P, z)
      BY <1>1, <3>1 DEF Delivered
    <3> QED BY <1>1, <3>2, QueuesOnly
  <2>6. SyncOf(P, s)'
    BY <1>1, <2>1, <2>2, <2>5 DEF SyncOf
  <2>7. Got(P, s)' = Got(P, s) /\ Out(P, s)' = Out(P, s)
    BY <1>1, <2>1, <2>2, <2>5 DEF Got, Out
  <2>8. WireOf(P, s)'
    BY <1>1, <2>1, <2>2, <2>5, <2>7, WireFrame
  <2> QED BY <2>4, <2>5, <2>6, <2>8 DEF Shared
<1> QED BY <1>2, <1>3, <1>4 DEF Inv

(* A rank that goes on keeps it, with its own progress or, if it gives up, *)
(* with the progress it had made.                                          *)
LEMMA ContinueInv ==
  ASSUME NEW P, NEW Q, NEW r \in Rank, NEW p, p = Peer(r), Inv(P), Typed', mode' = mode, Continue(r),
         Q = [P EXCEPT ![r] = op'[r]]
  PROVE  Inv(Q)' \/ Inv(P)'
<1>1. CASE Arm(r)
  BY <1>1, ArmInv
<1>2. CASE SendGate(r)
  BY <1>2, SendGateInv
<1>3. CASE PollGate(r)
  BY <1>3, PollGateInv
<1>4. CASE FinishGate(r)
  BY <1>4, FinishGateInv
<1>5. CASE FinishAux(r)
  BY <1>5, FinishAuxInv
<1>6. CASE WriteHeader(r)
  BY <1>6, WriteHeaderInv
<1>7. CASE ReadHeader(r)
  BY <1>7, ReadHeaderInv
<1>8. CASE NothingToDrain(r)
  BY <1>8, NothingToDrainInv
<1>9. CASE SendFiller(r)
  BY <1>9, SendFillerInv
<1>10. CASE PollDrain(r)
  BY <1>10, PollDrainInv
<1>11. CASE FinishDrain(r)
  BY <1>11, FinishDrainInv
<1>12. CASE PostRound(r)
  BY <1>12, PostRoundInv
<1>13. CASE TellReady(r)
  BY <1>13, TellReadyInv
<1>14. CASE HearReady(r)
  BY <1>14, HearReadyInv
<1>15. CASE SendRound(r)
  BY <1>15, SendRoundInv
<1>16. CASE PollBulk(r)
  BY <1>16, PollBulkInv
<1>17. CASE FinishRound(r)
  <2>1. CASE Round(r).to = Current(r).size
    BY <1>17, <2>1, LastRoundInv
  <2>2. CASE Round(r).to # Current(r).size
    BY <1>17, <2>2, NextRoundInv
  <2> QED BY <2>1, <2>2
<1> QED BY <1>1, <1>2, <1>3, <1>4, <1>5, <1>6, <1>7, <1>8, <1>9, <1>10, <1>11, <1>12, <1>13,
           <1>14, <1>15, <1>16, <1>17 DEF Continue

(* Every step of ranks that run the same program keeps it.                 *)
LEMMA StepInv ==
  ASSUME ~MayDiverge, NEW P, Inv(P), [Next]_vars
  PROVE  IInv'
<1>0. Typed'
  <2>1. Typed
    BY DEF Inv
  <2> QED BY <2>1, TypedNext
<1>1. P \in Progress
  BY DEF Inv
<1>2. ASSUME NEW r \in Rank PROVE [P EXCEPT ![r] = op'[r]] \in Progress
  <2>1. op'[r] \in OpType
    <3>1. op' \in [Rank -> OpType]
      BY <1>0 DEF Typed
    <3> QED BY <3>1
  <2> QED BY <1>1, <2>1 DEF Progress
<1>3. CASE UNCHANGED vars
  <2>1. Inv(P)'
    BY <1>3, SameInv
  <2> QED BY <1>1, <2>1 DEF IInv, Progress
<1>4. ASSUME NEW r \in Rank, mode' = mode, Start(r) PROVE IInv'
  <2>1. PICK o \in Op : StartGate(r, o) \/ StartAux(r, o) \/ StartBulk(r, o)
    BY <1>4 DEF Start
  <2>2. PICK Q : Q = [P EXCEPT ![r] = op'[r]]
    OBVIOUS
  <2>3. Inv(Q)'
    BY <1>0, <1>4, <2>1, <2>2, StartGateInv, StartAuxInv, StartBulkInv
  <2>4. Q \in Progress
    BY <1>2, <2>2
  <2> QED BY <2>3, <2>4 DEF IInv, Progress
<1>5. ASSUME NEW r \in Rank, mode' = mode, Continue(r) PROVE IInv'
  <2>1. PICK Q : Q = [P EXCEPT ![r] = op'[r]]
    OBVIOUS
  <2>2. Inv(Q)' \/ Inv(P)'
    BY <1>0, <1>5, <2>1, ContinueInv
  <2>3. Q \in Progress
    BY <1>2, <2>1
  <2> QED BY <1>1, <2>2, <2>3 DEF IInv, Progress
<1>6. ASSUME NEW r \in Rank, mode' = mode, Failure(r) PROVE IInv'
  <2>1. Inv(P)'
    BY <1>0, <1>6, FailuresInv
  <2> QED BY <1>1, <2>1 DEF IInv, Progress
<1>7. ASSUME NEW r \in Rank, mode' = mode, Deliver(r) \/ Ack(r) PROVE IInv'
  <2>1. Inv(P)'
    BY <1>0, <1>7, DeliverInv, AckInv
  <2> QED BY <1>1, <2>1 DEF IInv, Progress
<1> QED BY <1>3, <1>4, <1>5, <1>6, <1>7 DEF Next, Step

(* The invariant of two ranks whose engines run the same program.          *)
THEOREM Invariance == ~MayDiverge => (Spec => []IInv)
<1> SUFFICES ASSUME ~MayDiverge PROVE Spec => []IInv
  OBVIOUS
<1>1. Init => IInv
  <2> SUFFICES ASSUME Init PROVE IInv
    OBVIOUS
  <2>1. Inv(op)
    BY InitInv
  <2> QED BY <2>1 DEF IInv, Inv
<1>2. IInv /\ [Next]_vars => IInv'
  <2> SUFFICES ASSUME IInv, [Next]_vars PROVE IInv'
    OBVIOUS
  <2>1. PICK P \in Progress : Inv(P)
    BY DEF IInv
  <2> QED BY <2>1, StepInv
<1> QED BY <1>1, <1>2, PTL DEF Spec

-----------------------------------------------------------------------------
(* What the invariant says of the properties.                              *)

(* The receives of a rank's completion queue.                              *)
LEMMA ReceivedIs ==
  ASSUME NEW r \in Rank, Typed
  PROVE  Cardinality({i \in DOMAIN cq[r] : cq[r][i].dir = "recv"}) = Count(cq[r], Received)
<1>1. cq[r] \in Seq(Completion)
  BY TypedRank
<1>2. DOMAIN cq[r] = 1 .. Len(cq[r]) /\ \A i \in 1 .. Len(cq[r]) : cq[r][i] \in Completion
  BY <1>1
<1>3. {i \in DOMAIN cq[r] : cq[r][i].dir = "recv"} = Picks(cq[r], Received)
  BY <1>2 DEF Picks, Received
<1> QED BY <1>3 DEF Count

(* The invariant says that receives and messages match.                    *)
LEMMA InStep ==
  ASSUME NEW P, Inv(P)
  PROVE  ReceivesInStep
<1>1. ASSUME NEW r \in Rank, NEW i \in 1 .. Len(rq[r]), i <= Len(wire[r])
      PROVE  /\ rq[r][i].kind = wire[r][i].kind
             /\ rq[r][i].part = wire[r][i].part
             /\ wire[r][i].id \in {0, rq[r][i].id}
  <2>1. PICK p : p = Peer(r)
    OBVIOUS
  <2>2. /\ Len(rq[r]) \in Nat /\ Len(wire[r]) \in Nat /\ Vector(mode) /\ rq[r] \in Seq(Message)
        /\ wire[r] \in Seq(Message)
    BY InvOf, RankFacts
  <2>3. i \in Nat /\ i \in 1 .. Len(wire[r]) /\ rq[r] # <<>> /\ wire[r] # <<>>
    BY <1>1, <2>2
  <2>4. CASE /\ Segment(rq[r], n(r), Got(P, r), Posted(P, r))
             /\ Segment(wire[r], n(r), Got(P, r), Out(P, r))
    BY <1>1, <2>3, <2>4 DEF Segment
  <2>5. CASE Filled(wire[r], rq[r], n(r))
    <3>1. wire[r][i] = Msg(rq[r][i].kind, 0, rq[r][i].part, "bulk", i = Len(rq[r]))
      BY <1>1, <2>5 DEF Filled
    <3> QED BY <3>1 DEF Msg
  <2>6. CASE /\ Stream(mode, rq[r], Delivered(P, r), End(r)) /\ Delivered(P, r) \in Int
             /\ Stream(mode, wire[r], Delivered(P, r), SentDecode(P, p))
    <3>1. rq[r][i].id = wire[r][i].id /\ rq[r][i].part = wire[r][i].part /\ rq[r][i].kind = wire[r][i].kind
      BY <1>1, <2>2, <2>3, <2>6, StreamSame
    <3> QED BY <3>1
  <2> QED BY <2>1, <2>3, <2>4, <2>5, <2>6, Meets
<1>2. ASSUME NEW r \in Rank, op[r].pc = "drain"
      PROVE  Len(rq[r]) + Cardinality({i \in DOMAIN cq[r] : cq[r][i].dir = "recv"})
               = IF tp[r].win THEN DrainCount(r) ELSE 0
  <2>1. /\ Typed /\ P \in Progress /\ PcOf(P, r) /\ RecvOf(P, r) /\ QueueOf(P, r)
    BY InvOf
  <2>2. P[r] = op[r] /\ P[r].pc \in HeadPc /\ P[r].pc \notin Body
    BY <1>2, <2>1 DEF PcOf, HeadPc, Body
  <2>3. Len(rq[r]) \in Nat /\ Len(cq[r]) \in Nat /\ tp[r].win \in BOOLEAN
    BY <2>1, RankFacts
  <2>4. Count(cq[r], Received) \in Nat
    BY <2>3, CountType
  <2>5. DrainCount(r) = WindowLen(r)
    BY <2>1, WindowFacts
  <2>6. CASE tp[r].win
    <3>1. Count(cq[r], Received) + Len(rq[r]) = WindowLen(r)
      BY <2>1, <2>2, <2>6 DEF RecvOf
    <3> QED BY <2>1, <2>3, <2>4, <2>5, <2>6, <3>1, ReceivedIs
  <2>7. CASE ~tp[r].win
    <3>1. Count(cq[r], Received) = 0 /\ rq[r] = <<>>
      BY <2>1, <2>2, <2>7 DEF RecvOf, QueueOf
    <3> QED BY <2>1, <2>3, <2>7, <3>1, ReceivedIs
  <2> QED BY <2>3, <2>6, <2>7
<1> QED BY <1>1, <1>2 DEF ReceivesInStep, ShapesMatch, DrainCountsWindow

(* The invariant says that the result of a gate is in memory.              *)
LEMMA ResultThere ==
  ASSUME NEW P, Inv(P)
  PROVE  GateResultIntact
<1> SUFFICES ASSUME NEW r \in Rank, Idle(r), ~tp[r].failed, plan[r] # <<>>
             PROVE  CASE Current(r).kind \in Row ->
                           \A p \in 1 .. mode.chunks : inbuf[r][<<"gate", Current(r).at, p>>] = gates[r]
                      [] Current(r).kind = "aux" -> inbuf[r][<<"aux", Current(r).at, 1>>] = gates[r]
                      [] OTHER ->
                           \A p \in 1 .. Current(r).size : inbuf[r][<<"bulk", p>>] = Opno(r)
  BY DEF GateResultIntact
<1>1. /\ Typed /\ P \in Progress /\ PcOf(P, r) /\ WindowOf(P, r) /\ GateOf(P, r) /\ QueueOf(P, r)
      /\ MarkOf(P, r) /\ DataOf(P, r)
  BY InvOf
<1>2. P[r].pc = "idle" /\ P[r].pc \in DecodePc /\ P[r].pc \notin Body /\ P[r].pc \notin RowPc
  BY <1>1 DEF PcOf, Idle, DecodePc, Body, RowPc
<1>3. /\ n(r) \in Nat /\ n(r) > 0 /\ Vector(mode) /\ mode.chunks \in Nat /\ mode.chunks >= 1
      /\ gates[r] \in Nat /\ gates[r] = tp[r].last /\ Len(rq[r]) \in Nat /\ LastGate \in Nat
  BY <1>1, <1>2, RankFacts, LastGateNat DEF GateOf
<1>4. Polled(P, r) <= Delivered(P, r) /\ Delivered(P, r) \in Int
  BY <1>1, <1>2, DeliveredIs DEF MarkOf
<1>5. CASE Current(r).kind \in Row
  <2>1. IsKind(r, Row) /\ ~IsKind(r, Bulk)
    BY <1>3, <1>5, KindPc DEF IsKind
  <2>2. gates[r] \in 1 .. LastGate - 1 /\ Current(r).at = SlotOf(gates[r])
    BY <2>1, SentBounds
  <2>3. First(mode)[gates[r]] \in Nat
    <3>1. gates[r] \in 1 .. LastGate
      BY <1>3, <2>2
    <3> QED BY <1>3, <3>1, FirstStep
  <2>4. Polled(P, r) = First(mode)[gates[r]] + mode.chunks
    BY <1>2, <1>3, <2>1 DEF Polled
  <2>5. ASSUME NEW q \in 1 .. mode.chunks PROVE inbuf[r][<<"gate", SlotOf(gates[r]), q>>] = gates[r]
    <3>1. First(mode)[gates[r]] + q - 1 < Delivered(P, r)
      BY <1>3, <1>4, <2>3, <2>4
    <3>2. gates[r] >= gates[r] + (IF IsKind(r, Bulk) THEN 1 ELSE 0)
      BY <1>3, <2>1
    <3> QED BY <1>1, <1>2, <2>2, <3>1, <3>2 DEF DataOf
  <2>6. \A q \in 1 .. mode.chunks : inbuf[r][<<"gate", Current(r).at, q>>] = gates[r]
    BY <2>2, <2>5
  <2>7. Current(r).kind # "aux"
    BY <1>5 DEF Row
  <2> QED BY <1>5, <2>6, <2>7
<1>6. CASE Current(r).kind = "aux"
  <2>1. IsKind(r, {"aux"}) /\ ~IsKind(r, Bulk) /\ ~IsKind(r, Row)
    BY <1>3, <1>6, KindPc DEF IsKind
  <2>2. gates[r] \in 1 .. LastGate - 1 /\ Current(r).at = SlotOf(gates[r]) /\ Eligible(mode, gates[r])
    BY <2>1, SentBounds
  <2>3. First(mode)[gates[r]] \in Nat /\ First(mode)[gates[r] + 1] = First(mode)[gates[r]] + mode.chunks + 1
    BY <1>3, <2>2, FirstNext
  <2>4. Polled(P, r) = First(mode)[gates[r] + 1]
    BY <1>2, <1>3, <2>1 DEF Polled
  <2>5. inbuf[r][<<"aux", SlotOf(gates[r]), 1>>] = gates[r]
    <3>1. First(mode)[gates[r]] + mode.chunks < Delivered(P, r)
      BY <1>3, <1>4, <2>3, <2>4
    <3>2. gates[r] >= gates[r] + (IF IsKind(r, Bulk) THEN 1 ELSE 0)
      BY <1>3, <2>1
    <3> QED BY <1>1, <1>2, <2>2, <3>1, <3>2 DEF DataOf
  <2>6. Current(r).kind \notin Row
    BY <1>6 DEF Row
  <2> QED BY <1>6, <2>2, <2>5, <2>6
<1>7. CASE Current(r).kind \notin Row \cup {"aux"}
  <2>1. IsKind(r, Bulk) /\ ~IsKind(r, Row \cup {"aux"})
    BY <1>3, <1>7, KindPc DEF IsKind
  <2>2. ~tp[r].win
    BY <1>1, <1>2, <2>1 DEF WindowOf
  <2>3. rq[r] = <<>> /\ Len(rq[r]) = 0
    BY <1>1, <1>2, <2>2 DEF QueueOf
  <2>4. Posted(P, r) = Current(r).size /\ Current(r).size \in Nat
    BY <1>2, <2>1, BulkFacts
  <2>5. Posted(P, r) - Len(rq[r]) = Current(r).size
    BY <2>3, <2>4
  <2>6. \A q \in 1 .. Current(r).size : inbuf[r][<<"bulk", q>>] = n(r)
    BY <1>1, <1>2, <2>1, <2>5 DEF DataOf
  <2> QED BY <1>7, <2>6 DEF Opno, n
<1> QED BY <1>5, <1>6, <1>7

(* What is on its way to a rank: a decode message not delivered yet, a     *)
(* signaled bulk message, or filler.                                       *)
LEMMA WireKinds ==
  ASSUME NEW P, NEW s \in Rank, NEW t, t = Peer(s), Inv(P), NEW i \in 1 .. Len(wire[s]),
         NEW u, u = wire[s][i]
  PROVE  \/ /\ u.tag # "bulk" /\ Unit(mode, u) /\ u.kind = u.tag
            /\ Delivered(P, s) <= Number(mode, u) /\ Number(mode, u) < SentDecode(P, t)
         \/ u.tag = "bulk" /\ u.kind = "bulk" /\ u \in SignalsBulk
         \/ u.tag = "bulk" /\ u.kind # "bulk" /\ u.id = 0 /\ Filling(P, s)
<1>1. /\ Typed /\ P \in Progress /\ WireOf(P, s) /\ QueueOf(P, s) /\ WindowOf(P, s) /\ t \in Rank
  BY InvOf, Sides
<1>2. Len(wire[s]) \in Nat /\ Len(rq[s]) \in Nat /\ n(s) \in Nat /\ n(t) \in Nat /\ i \in Nat
      /\ wire[s] \in Seq(Message)
  BY <1>1, RankFacts
<1>3. u \in Message
  BY <1>2
<1>4. \A k, j : BulkMsg(k, j).tag = "bulk" /\ BulkMsg(k, j).kind = "bulk" /\ BulkMsg(k, j).sig = TRUE
  BY DEF BulkMsg, Msg
<1>5. ASSUME NEW k, NEW j, u = BulkMsg(k, j)
      PROVE  u.tag = "bulk" /\ u.kind = "bulk" /\ u \in SignalsBulk
  BY <1>3, <1>4, <1>5 DEF SignalsBulk
<1>6. CASE Filling(P, s)
  <2>1. Filled(wire[s], rq[s], n(s))
    BY <1>1, <1>6 DEF WireOf
  <2>2. CASE i \in 1 .. Len(rq[s])
    <3>1. u = Msg(rq[s][i].kind, 0, rq[s][i].part, "bulk", i = Len(rq[s]))
      BY <2>1, <2>2 DEF Filled
    <3>2. u.tag = "bulk" /\ u.id = 0 /\ u.kind = rq[s][i].kind
      BY <3>1 DEF Msg
    <3>3. rq[s][i].kind # "bulk"
      <4>1. P[s].pc \notin Body
        BY <1>1, <1>6 DEF WindowOf, Filling
      <4>2. Stream(mode, rq[s], End(s) - Len(rq[s]), End(s))
        BY <1>1, <4>1 DEF QueueOf
      <4> QED BY <2>2, <4>2 DEF Stream, Unit
    <3> QED BY <1>6, <3>2, <3>3
  <2>3. CASE i \notin 1 .. Len(rq[s])
    <3>1. i \in Len(rq[s]) + 1 .. Len(wire[s])
      BY <1>2, <2>3
    <3>2. u = BulkMsg(n(s), i - Len(rq[s]))
      BY <2>1, <3>1 DEF Filled
    <3> QED BY <1>5, <3>2
  <2> QED BY <2>2, <2>3
<1>7. CASE Bulking(P, s)
  <2>1. Segment(wire[s], n(t), Got(P, s), Out(P, s))
    BY <1>1, <1>7 DEF WireOf
  <2>2. u = BulkMsg(n(t), Got(P, s) + i)
    BY <2>1 DEF Segment
  <2> QED BY <1>5, <2>2
<1>8. CASE ~Filling(P, s) /\ ~Bulking(P, s)
  <2>1. /\ Unit(mode, u) /\ u.kind = u.tag /\ u.tag # "bulk"
        /\ Delivered(P, s) <= Number(mode, u) /\ Number(mode, u) < SentDecode(P, t)
    BY <1>8, DecodeWire
  <2> QED BY <2>1
<1> QED BY <1>6, <1>7, <1>8

(* All that a rank has polled has been delivered, whatever it is doing.    *)
LEMMA DeliveredLow ==
  ASSUME NEW P, NEW s \in Rank, Inv(P)
  PROVE  /\ Delivered(P, s) \in Int
         /\ \/ First(mode)[tp[s].last + 1] <= Delivered(P, s)
            \/ /\ tp[s].last \in 1 .. LastGate - 1
               /\ First(mode)[tp[s].last] + mode.chunks <= Delivered(P, s)
<1>1. /\ Typed /\ P \in Progress /\ PcOf(P, s) /\ GateOf(P, s) /\ RecvOf(P, s) /\ MarkOf(P, s)
  BY InvOf
<1>2. /\ Delivered(P, s) \in Int
      /\ P[s].pc \in Body => Delivered(P, s) = First(mode)[tp[s].last + 1]
      /\ P[s].pc \notin Body => Delivered(P, s) = End(s) - Len(rq[s])
      /\ P[s].pc \notin Body /\ ~tp[s].win => Delivered(P, s) = First(mode)[tp[s].last + 1]
  BY DeliveredIs
<1>3. /\ First(mode)[tp[s].last + 1] \in Nat /\ WindowLen(s) \in Nat /\ End(s) \in Nat
      /\ tp[s].win => End(s) = First(mode)[tp[s].last + 1] + WindowLen(s)
  BY <1>1, WindowFacts
<1>4. Len(rq[s]) \in Nat /\ Len(cq[s]) \in Nat /\ P[s].rd \in Nat /\ tp[s].win \in BOOLEAN /\ P[s].pc \in Pc
  BY <1>1, RankFacts
<1>5. Count(cq[s], Received) \in Nat
  BY <1>4, CountType
<1>6. CASE P[s].pc \in Body
  BY <1>2, <1>3, <1>6
<1>7. CASE P[s].pc \in HeadPc \cup {"drainwait"}
  <2>1. P[s].pc \notin Body
    BY <1>7 DEF HeadPc, Body
  <2>2. CASE tp[s].win
    <3>1. Len(rq[s]) <= WindowLen(s)
      <4>1. CASE P[s].pc \in HeadPc
        <5>1. Count(cq[s], Received) + Len(rq[s]) = WindowLen(s)
          BY <1>1, <2>2, <4>1 DEF RecvOf
        <5> QED BY <1>3, <1>4, <1>5, <5>1
      <4>2. CASE P[s].pc = "drainwait"
        <5>1. Count(cq[s], Received) + Len(rq[s]) + P[s].rd = WindowLen(s)
          BY <1>1, <4>2 DEF RecvOf
        <5> QED BY <1>3, <1>4, <1>5, <5>1
      <4> QED BY <1>7, <4>1, <4>2
    <3> QED BY <1>2, <1>3, <1>4, <2>1, <2>2, <3>1
  <2>3. CASE ~tp[s].win
    BY <1>2, <1>3, <2>1, <2>3
  <2> QED BY <1>4, <2>2, <2>3
<1>8. CASE P[s].pc \in DecodePc
  <2>1. Polled(P, s) <= Delivered(P, s)
    BY <1>1, <1>8 DEF MarkOf
  <2>2. CASE P[s].pc = "auxwait" \/ (P[s].pc = "idle" /\ IsKind(s, Row))
    <3>1. P[s].pc = "auxwait" => IsKind(s, {"aux"})
      BY <1>1 DEF PcOf
    <3>2. gates[s] \in 1 .. LastGate - 1
      BY <2>2, <3>1, SentBounds
    <3>3. gates[s] = tp[s].last
      BY <1>1, <2>2 DEF GateOf, RowPc
    <3> QED BY <1>2, <2>1, <2>2, <3>2, <3>3 DEF Polled
  <2>3. CASE ~(P[s].pc = "auxwait" \/ (P[s].pc = "idle" /\ IsKind(s, Row)))
    BY <1>2, <2>1, <2>3 DEF Polled
  <2> QED BY <2>2, <2>3
<1> QED BY <1>4, <1>6, <1>7, <1>8 DEF Pc, Body, HeadPc, DecodePc, RowPc

(* A gate message that is not delivered is of a gate the rank has not had. *)
LEMMA GateAhead ==
  ASSUME NEW P, NEW s \in Rank, Inv(P), NEW u, Unit(mode, u), u.tag = "gate",
         Delivered(P, s) <= Number(mode, u)
  PROVE  u.id \in Nat /\ tp[s].last + 1 <= u.id
<1>1. /\ Typed /\ P \in Progress /\ Vector(mode) /\ mode.chunks \in Nat /\ tp[s].last \in Nat /\ LastGate \in Nat
  BY InvOf, RankFacts, LastGateNat
<1>2. tp[s].last + 1 \in 1 .. LastGate /\ tp[s].last + 1 \in 1 .. LastGate - 1
  BY <1>1, WindowFacts
<1>3. u.id \in 1 .. LastGate - 1 /\ u.id \in Nat
  BY DEF Unit
<1>4. Number(mode, u) \in Nat /\ Number(mode, u) < First(mode)[u.id] + mode.chunks
      /\ Number(mode, u) < First(mode)[u.id + 1]
  BY <1>1, NumberIn
<1>5. u.id \in 1 .. LastGate /\ u.id + 1 \in 1 .. LastGate
  BY <1>1, <1>3
<1>6. First(mode)[u.id] \in Nat /\ First(mode)[u.id + 1] \in Nat /\ First(mode)[tp[s].last + 1] \in Nat
  BY <1>1, <1>2, <1>5, FirstStep
<1>7. Delivered(P, s) \in Int
  BY DeliveredLow
<1>8. CASE First(mode)[tp[s].last + 1] <= Delivered(P, s)
  <2>1. u.id + 1 <= tp[s].last + 1 => First(mode)[u.id + 1] <= First(mode)[tp[s].last + 1]
    BY <1>1, <1>2, <1>5, FirstLe
  <2> QED BY <1>1, <1>3, <1>4, <1>6, <1>7, <1>8, <2>1
<1>9. CASE tp[s].last \in 1 .. LastGate - 1 /\ First(mode)[tp[s].last] + mode.chunks <= Delivered(P, s)
  <2>1. tp[s].last \in 1 .. LastGate
    BY <1>1, <1>9
  <2>2. First(mode)[tp[s].last] \in Nat /\ (u.id <= tp[s].last => First(mode)[u.id] <= First(mode)[tp[s].last])
    BY <1>1, <1>5, <2>1, FirstLe, FirstStep
  <2> QED BY <1>1, <1>3, <1>4, <1>6, <1>7, <1>9, <2>2
<1> QED BY <1>8, <1>9, DeliveredLow

(* The invariant says that no memory is reused too early.                  *)
LEMMA SentThere ==
  ASSUME NEW P, Inv(P)
  PROVE  PayloadSent
<1>1. ASSUME NEW r \in Rank, Idle(r), ~tp[r].failed, plan[r] # <<>>, Current(r).kind # "gate",
             NEW i \in 1 .. Len(wire[Peer(r)]), NEW m, m = wire[Peer(r)][i]
      PROVE  /\ Current(r).kind = "rgate" => ~(m.kind = "gate" /\ m.id = gates[r])
             /\ Current(r).kind \in Bulk => m.kind # "bulk"
             /\ Current(r).kind = "aux" => m.kind # "aux"
  <2>1. PICK p : p = Peer(r)
    OBVIOUS
  <2>2. /\ Typed /\ P \in Progress /\ PcOf(P, r) /\ GateOf(P, r) /\ AckOf(P, r) /\ p \in Rank /\ Peer(p) = r
    BY <2>1, InvOf, Sides
  <2>3. P[r].pc = "idle" /\ P[r].pc \notin {"drainwait"} \cup Body
    BY <1>1, <2>2 DEF PcOf, Idle, Body
  <2>4. /\ n(r) \in Nat /\ n(r) > 0 /\ Vector(mode) /\ mode.chunks \in Nat /\ gates[r] \in Nat
        /\ tp[r].auxSend \in Nat /\ gates[r] = tp[r].last /\ LastGate \in Nat
    BY <1>1, <2>2, <2>3, RankFacts, LastGateNat DEF GateOf, RowPc
  <2>5. ~Filling(P, p)
    BY <2>2, <2>3 DEF Filling
  <2>6. \/ /\ m.tag # "bulk" /\ Unit(mode, m) /\ m.kind = m.tag
           /\ Delivered(P, p) <= Number(mode, m) /\ Number(mode, m) < SentDecode(P, r)
        \/ m.tag = "bulk" /\ m.kind = "bulk" /\ m \in SignalsBulk
    BY <1>1, <2>1, <2>2, <2>5, WireKinds
  <2>7. ASSUME Current(r).kind = "rgate", m.kind = "gate", m.id = gates[r] PROVE FALSE
    <3>1. IsKind(r, {"rgate"}) /\ IsKind(r, Row)
      BY <2>4, <2>7 DEF IsKind, Row
    <3>2. Before(mode, First(mode)[gates[r]] + mode.chunks, wire[p])
      BY <2>1, <2>2, <2>3, <3>1 DEF AckOf, Behind, AckSent, AckDone, AckAux, AckRow
    <3>3. m.tag = "gate" /\ Unit(mode, m)
      BY <2>6, <2>7
    <3>4. First(mode)[gates[r]] + mode.chunks <= Number(mode, m)
      BY <1>1, <2>1, <3>2, <3>3 DEF Before
    <3>5. Number(mode, m) < First(mode)[gates[r]] + mode.chunks /\ Number(mode, m) \in Nat
      BY <2>4, <2>7, <3>3, NumberIn
    <3>6. First(mode)[gates[r]] \in Nat
      <4>1. gates[r] \in 1 .. LastGate
        BY <2>2, <2>4, <3>1, SentBounds DEF GateOf
      <4> QED BY <2>4, <4>1, FirstStep
    <3> QED BY <2>4, <3>4, <3>5, <3>6
  <2>8. ASSUME Current(r).kind \in Bulk, m.kind = "bulk" PROVE FALSE
    <3>1. Awaited(P, r) = 0
      BY <2>3 DEF Awaited
    <3>2. m \notin SignalsBulk
      BY <1>1, <2>1, <3>1, NoBulk
    <3>3. m.tag # "bulk"
      BY <2>6, <3>2
    <3> QED BY <2>6, <2>8, <3>3
  <2>9. ASSUME Current(r).kind = "aux", m.kind = "aux" PROVE FALSE
    <3>1. IsKind(r, {"aux"}) /\ ~IsKind(r, Row)
      BY <2>4, <2>9, KindPc DEF IsKind
    <3>2. gates[r] >= 1 /\ tp[r].auxSend >= tp[r].last /\ tp[r].auxSend < LastGate
      BY <2>2, <2>3, <3>1 DEF AckOf, Behind, AckSent, AckDone, AckAux, AckRow, GateOf
    <3>3. tp[r].auxSend >= 1
      BY <2>4, <3>2
    <3>4. Before(mode, First(mode)[tp[r].auxSend + 1], wire[p])
      BY <2>1, <2>2, <3>3 DEF AckOf, Behind, AckSent, AckDone, AckAux, AckRow
    <3>5. m.tag = "aux" /\ Unit(mode, m) /\ Number(mode, m) < SentDecode(P, r)
      BY <2>6, <2>9
    <3>6. First(mode)[tp[r].auxSend + 1] <= Number(mode, m)
      BY <1>1, <2>1, <3>4, <3>5 DEF Before
    <3>7. SentDecode(P, r) = First(mode)[gates[r] + 1] /\ gates[r] + 1 \in 1 .. LastGate
      BY <2>3, <3>1, SentBounds
    <3>8. tp[r].auxSend + 1 \in 1 .. LastGate
      BY <2>4, <3>2
    <3>9. /\ First(mode)[gates[r] + 1] <= First(mode)[tp[r].auxSend + 1]
          /\ First(mode)[gates[r] + 1] \in Nat /\ First(mode)[tp[r].auxSend + 1] \in Nat
      <4>1. gates[r] + 1 <= tp[r].auxSend + 1
        BY <2>4, <3>2
      <4> QED BY <2>4, <3>7, <3>8, <4>1, FirstLe
    <3>10. Number(mode, m) \in Nat
      BY <2>4, <3>5, NumberIn
    <3> QED BY <3>5, <3>6, <3>7, <3>9, <3>10
  <2> QED BY <2>7, <2>8, <2>9
<1>2. ASSUME NEW r \in Rank, NEW i \in 1 .. Len(wire[Peer(r)]), NEW m, m = wire[Peer(r)][i],
             m.kind = "gate", m.id # 0
      PROVE  gates[r] < m.id + PerToken
  <2>1. PICK p : p = Peer(r)
    OBVIOUS
  <2>2. /\ Typed /\ P \in Progress /\ p \in Rank /\ Peer(p) = r /\ GateOf(P, p)
    BY <2>1, InvOf, Sides
  <2>3. gates[r] \in Nat /\ gates[p] \in Nat /\ tp[p].last \in Nat
    BY <2>2, RankFacts
  <2>4. m.tag = "gate" /\ Unit(mode, m) /\ Delivered(P, p) <= Number(mode, m)
    <3>1. i \in 1 .. Len(wire[p]) /\ m = wire[p][i] /\ r = Peer(p)
      BY <1>2, <2>1, <2>2
    <3>2. \/ m.tag # "bulk" /\ Unit(mode, m) /\ m.kind = m.tag /\ Delivered(P, p) <= Number(mode, m)
          \/ m.tag = "bulk" /\ m.kind = "bulk"
          \/ m.tag = "bulk" /\ m.kind # "bulk" /\ m.id = 0
      BY <2>2, <3>1, WireKinds
    <3> QED BY <1>2, <3>2
  <2>5. m.id \in Nat /\ tp[p].last + 1 <= m.id
    BY <2>2, <2>4, GateAhead
  <2>6. gates[p] <= tp[p].last + 1
    BY <2>2, <2>3 DEF GateOf
  <2>7. gates[r] <= gates[p] + 1
    <3>1. Level(r) => gates[r] = gates[p]
      BY <2>1, Sides
    <3>2. Ahead(r) => gates[r] = gates[p] + (IF IsKind(r, Row) THEN 1 ELSE 0)
      BY <2>1, Sides
    <3>3. Ahead(p) => gates[p] = gates[r] + (IF IsKind(p, Row) THEN 1 ELSE 0)
      BY <2>2, Sides
    <3>4. Level(r) \/ Ahead(r) \/ Ahead(p)
      BY <2>1, Sides
    <3> QED BY <2>3, <3>1, <3>2, <3>3, <3>4
  <2>8. PerToken \in Nat /\ PerToken >= 2
    BY SlotAssumption
  <2>9. gates[r] <= m.id + 1
    BY <2>3, <2>5, <2>6, <2>7
  <2> QED BY <2>3, <2>5, <2>8, <2>9
<1>3. SentAtReturn
  BY <1>1 DEF SentAtReturn
<1>4. SlotSentBeforeReuse
  BY <1>2 DEF SlotSentBeforeReuse
<1> QED BY <1>3, <1>4 DEF PayloadSent

-----------------------------------------------------------------------------
(* The properties, for two ranks whose engines run the same program.       *)

(* Whatever the window, the sizes of the bulk gates and the mode the hello *)
(* agreed: each message meets the receive that was posted for it, and the  *)
(* drain of the decode window counts the receives that are left.           *)
THEOREM StepsTogether == ~MayDiverge => (Spec => []ReceivesInStep)
<1> SUFFICES ASSUME ~MayDiverge PROVE Spec => []ReceivesInStep
  OBVIOUS
<1>1. IInv => ReceivesInStep
  BY InStep DEF IInv
<1>2. Spec => []IInv
  BY Invariance
<1> QED BY <1>1, <1>2, PTL

(* When an exchange returned 1, the peer's payload is in memory, and stays *)
(* there until the engine goes on.                                         *)
THEOREM ResultIntact == ~MayDiverge => (Spec => []GateResultIntact)
<1> SUFFICES ASSUME ~MayDiverge PROVE Spec => []GateResultIntact
  OBVIOUS
<1>1. IInv => GateResultIntact
  BY ResultThere DEF IInv
<1>2. Spec => []IInv
  BY Invariance
<1> QED BY <1>1, <1>2, PTL

(* A buffer that goes back to the caller, and a slab slot that is written  *)
(* again, is no longer being sent.                                         *)
THEOREM BuffersFree == ~MayDiverge => (Spec => []PayloadSent)
<1> SUFFICES ASSUME ~MayDiverge PROVE Spec => []PayloadSent
  OBVIOUS
<1>1. IInv => PayloadSent
  BY SentThere DEF IInv
<1>2. Spec => []IInv
  BY Invariance
<1> QED BY <1>1, <1>2, PTL

-----------------------------------------------------------------------------
(* The transport implements the lock-step exchange.                        *)

(* A step of a rank that begins no operation and ends none.                *)
LEMMA Stutters ==
  ASSUME UNCHANGED <<plan, done>>, \A s \in Rank : tp'[s].failed = tp[s].failed
  PROVE  UNCHANGED Abstract!vars
<1>1. [s \in Rank |-> Len(plan[s])]' = [s \in Rank |-> Len(plan[s])]
  OBVIOUS
<1>2. [s \in Rank |-> tp[s].failed]' = [s \in Rank |-> tp[s].failed]
  OBVIOUS
<1> QED BY <1>1, <1>2 DEF Abstract!vars

(* The first part of an operation.                                         *)
LEMMA Starts ==
  ASSUME NEW r \in Rank, Typed, Typed', ~tp[r].failed, done[r] = n(r), done' = done,
         n(r)' = n(r) + 1, n(Peer(r))' = n(Peer(r)), \A s \in Rank : tp'[s].failed = tp[s].failed
  PROVE  Abstract!Next
<1>1. PICK p \in Rank : p = Peer(r) /\ p # r /\ Rank = {r, p}
  BY TwoRanks
<1>2. Len(plan'[r]) = Len(plan[r]) + 1 /\ Len(plan'[p]) = Len(plan[p]) /\ done[r] = Len(plan[r])
  BY <1>1 DEF n
<1>3. [s \in Rank |-> Len(plan[s])]' = [[s \in Rank |-> Len(plan[s])] EXCEPT ![r] = @ + 1]
  BY <1>1, <1>2
<1>4. [s \in Rank |-> tp[s].failed]' = [s \in Rank |-> tp[s].failed]
  OBVIOUS
<1>5. Abstract!Start(r)
  BY <1>2, <1>3, <1>4 DEF Abstract!Start
<1> QED BY <1>5 DEF Abstract!Next, Abstract!Rank, Rank

(* The end of an operation that succeeds: the peer has begun its own.      *)
LEMMA Finishes ==
  ASSUME NEW r \in Rank, Typed, ~tp[r].failed, done[r] < n(r), n(r) <= n(Peer(r)), plan' = plan,
         done' = [done EXCEPT ![r] = @ + 1], \A s \in Rank : tp'[s].failed = tp[s].failed
  PROVE  Abstract!Next
<1>1. Peer(r) \in Rank /\ Peer(r) = Abstract!Peer(r)
  BY TwoRanks DEF Abstract!Peer, Peer
<1>2. Len(plan[Peer(r)]) >= Len(plan[r]) /\ done[r] < Len(plan[r])
  <2>1. n(r) \in Nat /\ n(Peer(r)) \in Nat
    BY <1>1, TypedRank
  <2> QED BY <2>1 DEF n
<1>3. [s \in Rank |-> Len(plan[s])]' = [s \in Rank |-> Len(plan[s])]
      /\ [s \in Rank |-> tp[s].failed]' = [s \in Rank |-> tp[s].failed]
  OBVIOUS
<1>4. Abstract!Finish(r)
  BY <1>1, <1>2, <1>3 DEF Abstract!Finish
<1> QED BY <1>4 DEF Abstract!Next, Abstract!Rank, Rank

(* An operation that fails.                                                *)
LEMMA Fails ==
  ASSUME NEW r \in Rank, Typed, ~tp[r].failed, done[r] < n(r), UNCHANGED <<plan, done>>,
         tp'[r].failed = TRUE, tp'[Peer(r)] = tp[Peer(r)]
  PROVE  Abstract!Next
<1>1. PICK p \in Rank : p = Peer(r) /\ p # r /\ Rank = {r, p}
  BY TwoRanks
<1>2. done[r] < Len(plan[r])
  BY DEF n
<1>3. [s \in Rank |-> Len(plan[s])]' = [s \in Rank |-> Len(plan[s])]
  OBVIOUS
<1>4. [s \in Rank |-> tp[s].failed]' = [[s \in Rank |-> tp[s].failed] EXCEPT ![r] = TRUE]
  BY <1>1
<1>5. Abstract!Fail(r)
  BY <1>2, <1>3, <1>4 DEF Abstract!Fail
<1> QED BY <1>5 DEF Abstract!Next, Abstract!Rank, Rank

(* A rank inside an operation has not failed, and has begun one more       *)
(* operation than returned success.                                        *)
LEMMA Busy ==
  ASSUME NEW P, NEW r \in Rank, Inv(P), op[r].pc # "idle"
  PROVE  Typed /\ ~tp[r].failed /\ done[r] < n(r)
<1>1. Typed /\ PcOf(P, r) /\ DoneOf(P, r)
  BY InvOf
<1>2. ~tp[r].failed /\ P[r] = op[r]
  BY <1>1 DEF PcOf
<1>3. n(r) \in Nat
  BY <1>1, TypedRank
<1>4. done[r] = n(r) - 1
  BY <1>1, <1>2 DEF DoneOf
<1> QED BY <1>1, <1>2, <1>3, <1>4

(* A rank that returns success is not ahead of its peer.                   *)
LEMMA Ending ==
  ASSUME NEW P, NEW Q, NEW r \in Rank, Inv(P), Inv(Q)', op[r].pc # "idle", Return(r), plan' = plan,
         \A s \in Rank : tp'[s].failed = tp[s].failed
  PROVE  Abstract!Next
<1>1. Typed /\ ~tp[r].failed /\ done[r] < n(r)
  BY Busy
<1>2. Peer(r) \in Rank
  BY TwoRanks
<1>3. n(r) \in Nat /\ n(Peer(r)) \in Nat
  BY <1>1, <1>2, TypedRank
<1>4. n(r)' = n(r) /\ n(Peer(r))' = n(Peer(r)) /\ (Ahead(r)' <=> Ahead(r))
  BY DEF n, Ahead
<1>5. op'[r].pc = "idle" /\ done' = [done EXCEPT ![r] = @ + 1]
  BY <1>1, ReturnIs DEF Return
<1>6. Shared(Q, r)' /\ Own(Q, r)'
  BY DEF Inv
<1>7. SyncOf(Q, r)' /\ ProgramOf(r)' /\ PcOf(Q, r)'
  BY <1>6 DEF Shared, Own
<1>8. ~tp'[r].failed
  BY <1>1
<1>9. Q[r].pc = "idle"
  BY <1>5, <1>7, <1>8 DEF PcOf
<1>10. ~Ahead(r)
  BY <1>4, <1>7, <1>9 DEF SyncOf
<1>11. n(r) <= n(Peer(r)) + 1
  BY <1>4, <1>7 DEF ProgramOf
<1>12. n(r) <= n(Peer(r))
  BY <1>3, <1>10, <1>11 DEF Ahead
<1> QED BY <1>1, <1>5, <1>12, Finishes

(* A rank whose operation fails.                                           *)
LEMMA Failing ==
  ASSUME NEW P, NEW r \in Rank, Inv(P), op[r].pc # "idle", UNCHANGED <<plan, done>>,
         \/ tp' = [tp EXCEPT ![r].failed = TRUE]
         \/ tp' = [tp EXCEPT ![r] = [@ EXCEPT !.failed = TRUE, !.closed = TRUE]]
  PROVE  Abstract!Next
<1>1. Typed /\ ~tp[r].failed /\ done[r] < n(r)
  BY Busy
<1>2. tp \in [Rank -> TpType] /\ Peer(r) \in Rank /\ Peer(r) # r
  BY <1>1, TwoRanks DEF Typed
<1>3. tp'[r].failed = TRUE /\ tp'[Peer(r)] = tp[Peer(r)]
  BY <1>2 DEF TpType
<1> QED BY <1>1, <1>3, Fails

(* A step of the transport that changes tp of one rank, not its failed.    *)
LEMMA FailedSame ==
  ASSUME NEW r \in Rank, Typed, NEW t, t.failed = tp[r].failed, tp' = [tp EXCEPT ![r] = t]
  PROVE  \A s \in Rank : tp'[s].failed = tp[s].failed
<1>1. tp \in [Rank -> TpType]
  BY DEF Typed
<1> QED BY <1>1

(* A rank that starts an operation.                                        *)
LEMMA StartRefines ==
  ASSUME ~MayDiverge, NEW P, NEW r \in Rank, Inv(P), Typed', Start(r)
  PROVE  Abstract!Next
<1>1. PICK o \in Op : StartGate(r, o) \/ StartAux(r, o) \/ StartBulk(r, o)
  BY DEF Start
<1>2. Issues(r, o) /\ UNCHANGED <<tp, done>>
  <2>1. CASE StartGate(r, o)
    BY <2>1 DEF StartGate, Issues
  <2>2. CASE StartAux(r, o)
    BY <2>2 DEF StartAux
  <2>3. CASE StartBulk(r, o)
    BY <2>3 DEF StartBulk
  <2> QED BY <1>1, <2>1, <2>2, <2>3
<1>3. PICK p : p = Peer(r)
  OBVIOUS
<1>4. n(r)' = n(r) + 1 /\ n(p)' = n(p) /\ P[r] = op[r] /\ P[r].pc = "idle" /\ ~tp[r].failed /\ n(r) \in Nat
  <2>1. OpIsIssued(P, r, p, o)
    BY <1>2, <1>3, OpIssued
  <2> QED BY <2>1 DEF OpIsIssued
<1>5. Typed /\ DoneOf(P, r)
  BY InvOf
<1>6. done[r] = n(r)
  BY <1>4, <1>5 DEF DoneOf
<1> QED BY <1>2, <1>3, <1>4, <1>5, <1>6, Starts

(* A rank inside an operation.                                             *)
LEMMA ContinueRefines ==
  ASSUME NEW P, NEW Q, NEW r \in Rank, Inv(P), Inv(Q)', Continue(r)
  PROVE  Abstract!Next \/ UNCHANGED Abstract!vars
<1>1. Typed
  BY DEF Inv
<1>2. UNCHANGED <<plan, done, tp>> => UNCHANGED Abstract!vars
  BY Stutters
<1>3. CASE Arm(r)
  <2>1. tp' = [tp EXCEPT ![r] = [tp[r] EXCEPT !.win = TRUE]] /\ UNCHANGED <<plan, done>>
    BY <1>3 DEF Arm
  <2>2. [tp[r] EXCEPT !.win = TRUE].failed = tp[r].failed
    BY <1>1, TypedRank DEF TpType
  <2> QED BY <1>1, <2>1, <2>2, FailedSame, Stutters
<1>4. CASE SendGate(r) \/ WriteHeader(r) \/ NothingToDrain(r) \/ SendFiller(r) \/ PollDrain(r)
           \/ PostRound(r) \/ TellReady(r) \/ SendRound(r)
  <2>1. UNCHANGED <<plan, done, tp>>
    BY <1>4 DEF SendGate, WriteHeader, NothingToDrain, SendFiller, PollDrain, PostRound, TellReady, SendRound
  <2> QED BY <1>2, <2>1
<1>5. CASE PollGate(r)
  <2>1. tp' = [tp EXCEPT ![r] = Watermark(tp[r], Head(cq[r]))] /\ UNCHANGED <<plan, done>>
    BY <1>5 DEF PollGate
  <2>2. Watermark(tp[r], Head(cq[r])).failed = tp[r].failed
    BY <1>1, TypedRank DEF TpType, Watermark
  <2> QED BY <1>1, <2>1, <2>2, FailedSame, Stutters
<1>6. CASE FinishGate(r)
  <2>1. /\ op[r].pc # "idle" /\ tp' = [tp EXCEPT ![r] = [tp[r] EXCEPT !.last = gates[r]]]
        /\ Return(r) /\ plan' = plan
    BY <1>6 DEF FinishGate
  <2>2. [tp[r] EXCEPT !.last = gates[r]].failed = tp[r].failed
    BY <1>1, TypedRank DEF TpType
  <2>3. \A s \in Rank : tp'[s].failed = tp[s].failed
    BY <1>1, <2>1, <2>2, FailedSame
  <2> QED BY <2>1, <2>3, Ending
<1>7. CASE FinishAux(r)
  <2>1. op[r].pc # "idle" /\ plan' = plan /\ ((Return(r) /\ UNCHANGED tp) \/ ReturnFailed(r))
    BY <1>7 DEF FinishAux
  <2>2. CASE Return(r) /\ UNCHANGED tp
    BY <2>1, <2>2, Ending
  <2>3. CASE ReturnFailed(r)
    BY <2>1, <2>3, Failing DEF ReturnFailed
  <2> QED BY <2>1, <2>2, <2>3
<1>8. CASE ReadHeader(r)
  <2>1. op[r].pc # "idle" /\ plan' = plan /\ (UNCHANGED <<tp, done>> \/ ReturnFailed(r))
    BY <1>8 DEF ReadHeader
  <2>2. CASE UNCHANGED <<tp, done>>
    BY <1>2, <2>1, <2>2
  <2>3. CASE ReturnFailed(r)
    BY <2>1, <2>3, Failing DEF ReturnFailed
  <2> QED BY <2>1, <2>2, <2>3
<1>9. CASE FinishDrain(r)
  <2>1. tp' = [tp EXCEPT ![r] = AfterDrain(tp[r])] /\ UNCHANGED <<plan, done>>
    BY <1>9 DEF FinishDrain
  <2>2. AfterDrain(tp[r]).failed = tp[r].failed
    BY <1>1, TypedRank DEF TpType, AfterDrain
  <2> QED BY <1>1, <2>1, <2>2, FailedSame, Stutters
<1>10. CASE HearReady(r)
  <2>1. /\ op[r].pc # "idle" /\ UNCHANGED <<plan, done>>
        /\ \/ UNCHANGED tp
           \/ tp' = [tp EXCEPT ![r] = [@ EXCEPT !.failed = TRUE, !.closed = TRUE]]
    BY <1>10 DEF HearReady
  <2> QED BY <1>2, <2>1, Failing
<1>11. CASE PollBulk(r)
  <2>1. /\ UNCHANGED <<plan, done>>
        /\ \/ UNCHANGED tp
           \/ \E x : tp' = [tp EXCEPT ![r] = [tp[r] EXCEPT !.recvDone = x]]
    BY <1>11 DEF PollBulk
  <2>2. \A x : [tp[r] EXCEPT !.recvDone = x].failed = tp[r].failed
    BY <1>1, TypedRank DEF TpType
  <2>3. CASE UNCHANGED tp
    BY <1>2, <2>1, <2>3
  <2>4. ASSUME NEW x, tp' = [tp EXCEPT ![r] = [tp[r] EXCEPT !.recvDone = x]] PROVE UNCHANGED Abstract!vars
    <3>1. \A s \in Rank : tp'[s].failed = tp[s].failed
      BY <1>1, <2>2, <2>4, FailedSame
    <3> QED BY <2>1, <3>1, Stutters
  <2> QED BY <2>1, <2>3, <2>4
<1>12. CASE FinishRound(r)
  <2>1. op[r].pc # "idle" /\ plan' = plan /\ UNCHANGED tp /\ (Return(r) \/ UNCHANGED done)
    BY <1>12 DEF FinishRound
  <2>2. CASE Return(r)
    BY <2>1, <2>2, Ending
  <2>3. CASE UNCHANGED done
    BY <1>2, <2>1, <2>3
  <2> QED BY <2>1, <2>2, <2>3
<1> QED BY <1>3, <1>4, <1>5, <1>6, <1>7, <1>8, <1>9, <1>10, <1>11, <1>12 DEF Continue

(* A deadline, an error or a closed peer.                                  *)
LEMMA FailureRefines ==
  ASSUME NEW P, NEW r \in Rank, Inv(P), Failure(r)
  PROVE  Abstract!Next \/ UNCHANGED Abstract!vars
<1>1. Typed
  BY DEF Inv
<1>2. CASE TimeoutOrError(r) \/ PeerClosed(r)
  <2>1. op[r].pc # "idle" /\ UNCHANGED <<plan, done>> /\ tp' = [tp EXCEPT ![r].failed = TRUE]
    BY <1>2 DEF TimeoutOrError, PeerClosed, ReturnFailed, Polling, Posting
  <2> QED BY <2>1, Failing
<1>3. CASE ReadyTimeout(r)
  <2>1. op[r].pc # "idle" /\ UNCHANGED <<plan, done>>
        /\ tp' = [tp EXCEPT ![r] = [@ EXCEPT !.failed = TRUE, !.closed = TRUE]]
    BY <1>3 DEF ReadyTimeout
  <2> QED BY <2>1, Failing
<1>4. CASE Close(r)
  <2>1. tp' = [tp EXCEPT ![r] = [tp[r] EXCEPT !.closed = TRUE]] /\ UNCHANGED <<plan, done>>
    BY <1>4 DEF Close
  <2>2. [tp[r] EXCEPT !.closed = TRUE].failed = tp[r].failed
    BY <1>1, TypedRank DEF TpType
  <2>3. \A s \in Rank : tp'[s].failed = tp[s].failed
    BY <1>1, <2>1, <2>2, FailedSame
  <2> QED BY <2>1, <2>3, Stutters
<1> QED BY <1>2, <1>3, <1>4 DEF Failure

(* Each step of the transport is one of the exchange, or none.             *)
LEMMA StepRefines ==
  ASSUME ~MayDiverge, IInv, IInv', [Next]_vars
  PROVE  Abstract!Next \/ UNCHANGED Abstract!vars
<1>1. PICK P \in Progress : Inv(P)
  BY DEF IInv
<1>2. PICK Q \in Progress : Inv(Q)'
  BY DEF IInv
<1>3. Typed'
  BY <1>2 DEF Inv
<1>4. CASE UNCHANGED vars
  <2>1. UNCHANGED <<plan, done>> /\ \A s \in Rank : tp'[s].failed = tp[s].failed
    BY <1>4 DEF vars
  <2> QED BY <2>1, Stutters
<1>5. ASSUME NEW r \in Rank, Deliver(r) \/ Ack(r) PROVE UNCHANGED Abstract!vars
  <2>1. UNCHANGED <<plan, done>> /\ \A s \in Rank : tp'[s].failed = tp[s].failed
    BY <1>5 DEF Deliver, Ack
  <2> QED BY <2>1, Stutters
<1>6. ASSUME NEW r \in Rank, Start(r) PROVE Abstract!Next
  BY <1>1, <1>3, <1>6, StartRefines
<1>7. ASSUME NEW r \in Rank, Continue(r) PROVE Abstract!Next \/ UNCHANGED Abstract!vars
  BY <1>1, <1>2, <1>7, ContinueRefines
<1>8. ASSUME NEW r \in Rank, Failure(r) PROVE Abstract!Next \/ UNCHANGED Abstract!vars
  BY <1>1, <1>8, FailureRefines
<1> QED BY <1>4, <1>5, <1>6, <1>7, <1>8 DEF Next, Step

(* ds4_tp_gate_exchange and its batch and big forms keep what they promise *)
(* the engines: the n-th operation of a rank succeeds only once its peer   *)
(* is inside its own n-th operation or past it, and a failure is final.    *)
THEOREM Refinement == ~MayDiverge => (Spec => ImplementsLockstep)
<1> SUFFICES ASSUME ~MayDiverge PROVE Spec => ImplementsLockstep
  OBVIOUS
<1>1. Init => Abstract!Init
  <2> SUFFICES ASSUME Init PROVE Abstract!Init
    OBVIOUS
  <2>1. /\ plan = [r \in Rank |-> <<>>] /\ done = [r \in Rank |-> 0]
        /\ tp = [r \in Rank |-> TpInit] /\ TpInit.failed = FALSE /\ Len(<<>>) = 0
    BY DEF Init, TpInit
  <2>2. [r \in Rank |-> Len(plan[r])] = [r \in Rank |-> 0]
    BY <2>1
  <2>3. [r \in Rank |-> tp[r].failed] = [r \in Rank |-> FALSE]
    BY <2>1
  <2> QED BY <2>1, <2>2, <2>3 DEF Abstract!Init, Abstract!Rank, Rank
<1>2. IInv /\ IInv' /\ [Next]_vars => [Abstract!Next]_Abstract!vars
  BY StepRefines
<1>3. Spec => []IInv
  BY Invariance
<1> QED BY <1>1, <1>2, <1>3, PTL DEF Spec, ImplementsLockstep, Abstract!Spec
=============================================================================
