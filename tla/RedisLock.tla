----------------------------- MODULE RedisLock ------------------------------
(***************************************************************************)
(* The transaction lock of internal/infra/redis/lock.go: one Redis key per *)
(* transaction, written with SET NX and a TTL, and deleted by a script     *)
(* that first compares the stored value with the caller's.                 *)
(*                                                                         *)
(* Acquire draws a fresh UUID as the value of the lock.  A request         *)
(* acquires at most once, so the identifier of the request stands for the  *)
(* value it drew.                                                          *)
(***************************************************************************)
EXTENDS Domain

VARIABLE lock   \* lock[t] is the value under lock:tx:t, Nil when it is absent

LockInit == lock = [t \in Id |-> Nil]

LockTypeOK == lock \in [Id -> Id \cup {Nil}]

(* Mutant of Acquired: SET without NX.                                     *)
AcquiredAnyway(t, v) == lock' = [lock EXCEPT ![t] = v]

(* SET key value NX replied OK: the key was absent.                        *)
Acquired(t, v) ==
    /\ lock[t] = Nil
    /\ lock' = [lock EXCEPT ![t] = v]

(* SET key value NX replied nil: the key exists.  go-redis reports the nil *)
(* reply as the error redis.Nil, so Acquire leaves through its error       *)
(* branch and the comparison of the reply with "OK" is never reached.      *)
Refused(t) ==
    /\ lock[t] # Nil
    /\ UNCHANGED lock

(* Mutant of Released: DEL without the comparison.                         *)
ReleasedBlindly(t, v) == [lock EXCEPT ![t] = Nil]

(* The store after the release script has run for value v.                 *)
Released(t, v) == IF lock[t] = v THEN [lock EXCEPT ![t] = Nil] ELSE lock

(* Mutant of Expired: SET without a TTL.                                   *)
ExpiredNever(t) == FALSE /\ UNCHANGED lock

(* Redis drops a key whose TTL has passed.                                 *)
Expired(t) ==
    /\ lock[t] # Nil
    /\ lock' = [lock EXCEPT ![t] = Nil]
=============================================================================
