------------------------------- MODULE FileLock -------------------------------
(***************************************************************************)
(* What the write lock of a file promises: a file has at most one writer,  *)
(* a lock is taken only when it is free, and it is given back before       *)
(* anybody else can have it.  A process may give back several at once.     *)
(***************************************************************************)
CONSTANTS Owners, Files, Nobody

VARIABLE writer   (* the writer of each file                               *)

Init == writer = [f \in Files |-> Nobody]

Acquire(p, f) ==
  /\ writer[f] = Nobody
  /\ writer' = [writer EXCEPT ![f] = p]

Release(p, given) ==
  /\ \A f \in given : writer[f] = p
  /\ writer' = [f \in Files |-> IF f \in given THEN Nobody ELSE writer[f]]

Next ==
  \E p \in Owners :
    \/ \E f \in Files : Acquire(p, f)
    \/ \E given \in SUBSET Files : Release(p, given)

Spec == Init /\ [][Next]_writer
=============================================================================
