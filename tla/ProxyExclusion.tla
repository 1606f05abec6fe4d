--------------------------- MODULE ProxyExclusion ---------------------------
(***************************************************************************)
(* What the lease table is for, without table, clock or heartbeat: a proxy *)
(* key has at most one rightful user, a run takes only keys nobody uses    *)
(* and keys are given up one group at a time.                              *)
(***************************************************************************)
CONSTANTS Key, Holder, NoHolder
VARIABLE user

Init == user = [k \in Key |-> NoHolder]

\* A run raises its pool, all its keys at once, or a late renewal finds rows of
\* it that had run out; nobody uses those keys.
Take(h, S) ==
  /\ \A k \in S : user[k] = NoHolder
  /\ user' = [k \in Key |-> IF k \in S THEN h ELSE user[k]]

\* Runs end or crash, rows run out, or the operator takes keys away.
Yield(S) == user' = [k \in Key |-> IF k \in S THEN NoHolder ELSE user[k]]

Next == \E S \in SUBSET Key : Yield(S) \/ \E h \in Holder : Take(h, S)

Spec == Init /\ [][Next]_user
=============================================================================
