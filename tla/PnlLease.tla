------------------------------ MODULE PnlLease ------------------------------
(***************************************************************************)
(* The per-account PnL lease of the spot-funds policy                      *)
(* (crates/openpit/src/pretrade/policies/spot_funds/mod.rs): a lock that   *)
(* is re-entrant for one owner id and keeps a depth.  An absent slot and   *)
(* a slot without a lease are the same to every reader, so both are Free.  *)
(***************************************************************************)
EXTENDS Naturals

CONSTANT NoOwner

Free == [owner |-> NoOwner, depth |-> 0]

OwnedBy(lease, owner) == lease.owner = owner

(* acquire_account_pnl_lease: try once; the caller spins until it may. *)
MayAcquire(lease, owner) == lease.owner \in {NoOwner, owner}
Acquired(lease, owner) == [owner |-> owner, depth |-> lease.depth + 1]

(* release_account_pnl_lease, run when a lease guard is dropped. *)
Released(lease, owner) ==
    IF lease.owner # owner THEN lease
    ELSE IF lease.depth = 1 THEN Free
    ELSE [lease EXCEPT !.depth = @ - 1]
=============================================================================
