------------------------------- MODULE Lease -------------------------------
(***************************************************************************)
(* What a claim lease promises: the pure transitions of                    *)
(* zenfleet-core/src/lease.rs, applied to a table of leases.  The module   *)
(* documentation there says that the R2 conditional-write layer drives     *)
(* these transitions; module ChunkClaim is that layer, and it refines this *)
(* one when its requests are prompt.                                       *)
(*                                                                         *)
(* The time a caller passes may lag the wall clock (a caller reads its     *)
(* clock, then waits for the network), so every transition takes a t       *)
(* that is at most now.                                                    *)
(***************************************************************************)
EXTENDS Naturals

CONSTANTS
  Keys,       \* what can be leased
  Holders,    \* who can hold a lease
  TTL,        \* ttl_secs
  NoLease     \* a key nobody holds

VARIABLES
  now,        \* wall clock, seconds
  lease       \* lease[k]: the current lease of k, or NoLease

vars == <<now, lease>>

Record == [holder : Holders, last_renew : Nat]

New(h, t) == [holder |-> h, last_renew |-> t]

\* saturating_sub: a clock that lags the last renewal gives age 0.
IsExpired(l, t) == t >= l.last_renew + TTL

CanSteal(l, t) == IsExpired(l, t)

\* A late heartbeat never shortens the lease.
Renewed(l, t) == IF t > l.last_renew THEN New(l.holder, t) ELSE l

Init ==
  /\ now \in Nat
  /\ lease = [k \in Keys |-> NoLease]

Put(k, l) == lease' = [lease EXCEPT ![k] = l] /\ UNCHANGED now

Acquire(k, h, t) == lease[k] = NoLease /\ Put(k, New(h, t))

Steal(k, h, t) ==
  /\ lease[k] # NoLease
  /\ CanSteal(lease[k], t)
  /\ Put(k, New(h, t))

Renew(k, t) == lease[k] # NoLease /\ Put(k, Renewed(lease[k], t))

Release(k) == lease[k] # NoLease /\ Put(k, NoLease)

Advance == now' \in Nat /\ now' > now /\ UNCHANGED lease

Next ==
  \/ Advance
  \/ \E k \in Keys : Release(k)
  \/ \E k \in Keys, t \in 0..now :
       \/ Renew(k, t)
       \/ \E h \in Holders : Acquire(k, h, t) \/ Steal(k, h, t)

Spec == Init /\ [][Next]_vars
=============================================================================
