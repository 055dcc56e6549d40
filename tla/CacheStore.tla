----------------------------- MODULE CacheStore -----------------------------
(***************************************************************************)
(* What the HttpCacheStorage behind Storage promises its callers, as an   *)
(* atomic map from keys to objects: put stores, update_meta replaces the  *)
(* meta of a stored object, purge removes.  The memory tier may keep a    *)
(* purged object visible (remove is documented as a no-op there) until it *)
(* is forgotten; nothing else may make an object appear, change or vanish. *)
(***************************************************************************)
EXTENDS Sequences

CONSTANTS Keys, Values, Metas, None

VARIABLES
    store,    \* what a get of each key returns
    removed   \* the key was purged and not put since

vars == <<store, removed>>

Init ==
    /\ store = [k \in Keys |-> None]
    /\ removed = [k \in Keys |-> FALSE]

Put(k, v) ==
    /\ store' = [store EXCEPT ![k] = v]
    /\ removed' = [removed EXCEPT ![k] = FALSE]

UpdateMeta(k, m) ==
    /\ store[k] # None
    /\ store' = [store EXCEPT ![k].meta = m]
    /\ removed' = [removed EXCEPT ![k] = FALSE]

Purge(k) ==
    /\ store' \in {[store EXCEPT ![k] = v] : v \in {None, store[k]}}
    /\ removed' = [removed EXCEPT ![k] = TRUE]

Forget(k) ==
    /\ removed[k] /\ store[k] # None
    /\ store' = [store EXCEPT ![k] = None]
    /\ UNCHANGED removed

Next ==
    \E k \in Keys :
        \/ \E v \in Values : Put(k, v)
        \/ \E m \in Metas : UpdateMeta(k, m)
        \/ Purge(k)
        \/ Forget(k)

Spec == Init /\ [][Next]_vars
=============================================================================
