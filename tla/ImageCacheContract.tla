-------------------------- MODULE ImageCacheContract --------------------------
(***************************************************************************)
(* What the ImageCache trait (src/src/cache/mod.rs) promises its callers,  *)
(* seen through the request tasks that use it.  The cache maps each        *)
(* ImageKey to at most one entry.  load returns the entry of the key or    *)
(* None ("if the image is not cached or if there was an issue loading      *)
(* it"); save stores a fresh entry for the key or, when it fails, changes  *)
(* nothing; shrink removes entries.  report is a read and returns any      *)
(* number, so it is not an action here.                                    *)
(***************************************************************************)
EXTENDS Naturals

CONSTANTS Keys, Procs, MaxTime

VARIABLES
    store,    \* store[k]: the entry cached for ImageKey k, or NoRec
    now,      \* the millisecond clock
    pc,       \* pc[p]: where request task p is
    req,      \* req[p]: the key p serves
    served    \* served[p]: the entry p responded with, or NoRec

vars == <<store, now, pc, req, served>>

Entry == [kind : {"put"}, put_time : 0..MaxTime, bytes : Keys]
NoRec == [kind |-> "none"]

Init ==
    /\ store = [k \in Keys |-> NoRec]
    /\ now = 0
    /\ pc = [p \in Procs |-> "idle"]
    /\ req = [p \in Procs |-> CHOOSE k \in Keys : TRUE]
    /\ served = [p \in Procs |-> NoRec]

Request(p, k) ==
    /\ pc[p] = "idle"
    /\ pc' = [pc EXCEPT ![p] = "load"]
    /\ req' = [req EXCEPT ![p] = k]
    /\ served' = [served EXCEPT ![p] = NoRec]
    /\ UNCHANGED <<store, now>>

\* A request answered with an error before reaching the cache.
Reject(p) ==
    /\ pc[p] = "idle"
    /\ served' = [served EXCEPT ![p] = NoRec]
    /\ UNCHANGED <<store, now, pc, req>>

\* A hit serves exactly the cached entry; None may be returned at any time.
Load(p) ==
    /\ pc[p] = "load"
    /\ \/ /\ store[req[p]] # NoRec
          /\ served' = [served EXCEPT ![p] = store[req[p]]]
          /\ pc' = [pc EXCEPT ![p] = "idle"]
       \/ /\ pc' = [pc EXCEPT ![p] = "fetch"]
          /\ UNCHANGED served
    /\ UNCHANGED <<store, now, req>>

FetchUpstream(p) ==
    /\ pc[p] = "fetch"
    /\ pc' \in {[pc EXCEPT ![p] = "save"], [pc EXCEPT ![p] = "idle"]}
    /\ UNCHANGED <<store, now, req, served>>

\* save replaces the key's entry by a fresh one, or fails and changes nothing.
Save(p) ==
    LET e == [kind |-> "put", put_time |-> now, bytes |-> req[p]] IN
    /\ pc[p] = "save"
    /\ store' \in {[store EXCEPT ![req[p]] = e], store}
    /\ served' = [served EXCEPT ![p] = e]
    /\ pc' = [pc EXCEPT ![p] = "idle"]
    /\ UNCHANGED <<now, req>>

\* shrink evicts an entry.
Evict(k) ==
    /\ store[k] # NoRec
    /\ store' = [store EXCEPT ![k] = NoRec]
    /\ UNCHANGED <<now, pc, req, served>>

Tick ==
    /\ now < MaxTime
    /\ now' = now + 1
    /\ UNCHANGED <<store, pc, req, served>>

Next ==
    \/ \E p \in Procs :
          \/ \E k \in Keys : Request(p, k)
          \/ Reject(p) \/ Load(p) \/ FetchUpstream(p) \/ Save(p)
    \/ \E k \in Keys : Evict(k)
    \/ Tick

Spec == Init /\ [][Next]_vars

=============================================================================
