---------------------------- MODULE MCTpControl ----------------------------
(* A small instance of the control plane.  Every command of the worker may *)
(* fail but a rollback, and of the leader's calls those whose failure it   *)
(* makes known to the worker; a verify only once it is in its gates.       *)
EXTENDS TpControl

Alone ==
  ({0} \X {"sync", "native"} \X {"before", "after"})
    \cup ({0} \X {"verify"} \X {"within", "after"})
    \cup ({1} \X {"create", "sync"} \X {"before"})
    \cup ({1} \X {"batch", "verify", "native"} \X {"within"})
    \cup ({1} \X {"eval", "replay"} \X {"after"})

BothFamilies == {[family |-> "dspark", split |-> TRUE], [family |-> "native", split |-> FALSE]}
SomePrompts == {<<1, 1>>, <<1, 2>>, <<2, 2>>}
=============================================================================
