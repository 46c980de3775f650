------------------------------ MODULE RefCount ------------------------------
(***************************************************************************)
(* The life of one object that an owner passes by reference and a holder   *)
(* reaches through proxies: Connection._box and _unbox, RefCountingColl    *)
(* (_local_objects), WeakValueDict (_proxy_cache), BaseNetref.__del__ and  *)
(* HANDLE_DEL.  Every structure is keyed by id_pack, so objects do not     *)
(* meet and one is enough.                                                 *)
(*                                                                         *)
(* A setup says whether the holder's process has a single thread, so that  *)
(* unboxing and finalizing do not interleave, except that _unbox serves    *)
(* other messages while it waits for HANDLE_INSPECT: another unboxing may  *)
(* run inside it.  It says also which threads serve at the owner, and      *)
(* bounds how often the object is passed and passed back.                  *)
(***************************************************************************)
EXTENDS Naturals, Sequences, FiniteSets

CONSTANTS
  Proxies,        \* netrefs the holder may create
  Unboxers,       \* activations of _unbox at the holder
  Servers,        \* threads that serve requests at the owner
  Setups,
  Absent, None

Message == [kind : {"use"}, count : {0}] \cup [kind : {"del"}, count : Nat]

ASSUME RefCountAssumption ==
  /\ IsFiniteSet(Proxies) /\ IsFiniteSet(Unboxers) /\ IsFiniteSet(Servers)
  /\ Setups \subseteq [single : BOOLEAN, servers : SUBSET Servers,
                      boxes : 0..Cardinality(Proxies), uses : Nat]
  /\ None \notin Proxies \cup Message /\ Absent \notin Nat

VARIABLES
  setup,      \* one of Setups, chosen at the start
  slot,       \* owner: the count kept in _local_objects, or Absent
  boxed,      \* owner: boxed, message not yet sent
  boxes,      \* owner: how often it has boxed the object
  toHolder,   \* messages to the holder that carry the reference
  upc,        \* holder: where each activation of _unbox stands ...
  uproxy,     \* ... the proxy it has hold of ...
  uread,      \* ... and the ____refcount__ it has read
  state,      \* holder: the life of each proxy
  refcount,   \* ____refcount__
  held,       \* the program has a reference to the proxy
  finalized,  \* __del__ has run, and will not run again
  cache,      \* _proxy_cache: the proxy it refers to weakly
  uses,       \* how often the holder has passed the object back
  toOwner,    \* messages to the owner, in order
  spc,        \* owner: where each serving thread stands ...
  smsg,       \* ... and the message it is dispatching
  failed      \* kinds of messages whose dispatch raised KeyError

ownerVars  == <<slot, boxed, boxes, setup>>
unboxVars  == <<upc, uproxy, uread>>
proxyVars  == <<state, refcount, held, finalized, cache>>
serverVars == <<spc, smsg, failed>>
vars == <<ownerVars, toHolder, unboxVars, proxyVars, uses, toOwner, serverVars>>

States == {"unborn", "live",
           "dying",     \* in __del__, before it reads the count
           "sent",      \* in __del__, HANDLE_DEL sent
           "cleared",   \* weak reference cleared, its callback not yet run
           "gone"}

TypeOK ==
  /\ setup \in Setups
  /\ slot \in Nat \cup {Absent}
  /\ {boxed, boxes, toHolder} \subseteq 0..setup.boxes
  /\ upc \in [Unboxers -> {"idle", "lookup", "read", "write", "inspect", "answered", "store"}]
  /\ uproxy \in [Unboxers -> Proxies \cup {None}]
  /\ uread \in [Unboxers -> Nat]
  /\ state \in [Proxies -> States]
  /\ refcount \in [Proxies -> Nat]
  /\ held \in [Proxies -> BOOLEAN]
  /\ finalized \in [Proxies -> BOOLEAN]
  /\ cache \in Proxies \cup {None}
  /\ uses \in 0..setup.uses
  /\ toOwner \in Seq(Message)
  /\ spc \in [Servers -> {"idle", "unbox", "decref"}]
  /\ smsg \in [Servers -> Message \cup {None}]
  /\ failed \subseteq {"use", "del", "inspect"}

Init ==
  /\ setup \in Setups
  /\ slot = Absent
  /\ boxed = 0 /\ boxes = 0 /\ toHolder = 0
  /\ upc = [u \in Unboxers |-> "idle"]
  /\ uproxy = [u \in Unboxers |-> None]
  /\ uread = [u \in Unboxers |-> 0]
  /\ state = [p \in Proxies |-> "unborn"]
  /\ refcount = [p \in Proxies |-> 0]
  /\ held = [p \in Proxies |-> FALSE]
  /\ finalized = [p \in Proxies |-> FALSE]
  /\ cache = None
  /\ uses = 0
  /\ toOwner = <<>>
  /\ spc = [s \in Servers |-> "idle"]
  /\ smsg = [s \in Servers |-> None]
  /\ failed = {}

-----------------------------------------------------------------------------
(* Before some operators stands a variant that a slip in the code would    *)
(* make of it, named for what it gets wrong.                               *)

(* RefCountingColl.add and RefCountingColl.decref.                         *)
AddedFromOne == IF slot = Absent THEN 1 ELSE slot + 1

Added == IF slot = Absent THEN 0 ELSE slot + 1

DecreasedTooFar(count) == IF slot <= count THEN Absent ELSE slot - count

Decreased(count) == IF slot < count THEN Absent ELSE slot - count

(* The count __del__ passes to HANDLE_DEL.                                 *)
DelCountOne(p) == 1

DelCount(p) == refcount[p]

(* A cached weak reference still yields a proxy whose __del__ is running:  *)
(* it is cleared after the finalizer.                                      *)
Reachable(p) == state[p] \in {"live", "dying", "sent"}

Referenced(p) == held[p] \/ \E u \in Unboxers : uproxy[u] = p

(* With a single thread nothing else runs at the holder while _unbox runs, *)
(* but for its wait for HANDLE_INSPECT, or while a proxy is finalized.     *)
ThreadFree ==
  setup.single =>
    /\ \A u \in Unboxers : upc[u] \in {"idle", "inspect", "answered"}
    /\ \A p \in Proxies : state[p] \notin {"dying", "sent", "cleared"}

-----------------------------------------------------------------------------
(* Owner: _box counts the reference, then the message is sent.             *)
Box ==
  /\ boxes < setup.boxes
  /\ slot' = Added
  /\ boxed' = boxed + 1
  /\ boxes' = boxes + 1
  /\ UNCHANGED <<setup, toHolder, unboxVars, proxyVars, uses, toOwner, serverVars>>

SendBoxed ==
  /\ boxed > 0
  /\ boxed' = boxed - 1
  /\ toHolder' = toHolder + 1
  /\ UNCHANGED <<setup, slot, boxes, unboxVars, proxyVars, uses, toOwner, serverVars>>

-----------------------------------------------------------------------------
(* Holder: _unbox of a LABEL_REMOTE_REF.                                   *)
StartUnbox(u) ==
  /\ ThreadFree
  /\ upc[u] = "idle" /\ toHolder > 0
  /\ toHolder' = toHolder - 1
  /\ upc' = [upc EXCEPT ![u] = "lookup"]
  /\ UNCHANGED <<ownerVars, uproxy, uread, proxyVars, uses, toOwner, serverVars>>

Lookup(u) ==
  LET hit == cache # None /\ Reachable(cache) IN
  /\ upc[u] = "lookup"
  /\ upc' = [upc EXCEPT ![u] = IF hit THEN "read" ELSE "inspect"]
  /\ uproxy' = [uproxy EXCEPT ![u] = IF hit THEN cache ELSE None]
  /\ UNCHANGED <<ownerVars, toHolder, uread, proxyVars, uses, toOwner, serverVars>>

(* proxy.____refcount__ += 1 is a read and a write.                        *)
ReadCount(u) ==
  /\ upc[u] = "read"
  /\ uread' = [uread EXCEPT ![u] = refcount[uproxy[u]]]
  /\ upc' = [upc EXCEPT ![u] = "write"]
  /\ UNCHANGED <<ownerVars, toHolder, uproxy, proxyVars, uses, toOwner, serverVars>>

Return(u) ==
  /\ held' = [held EXCEPT ![uproxy[u]] = TRUE]
  /\ uproxy' = [uproxy EXCEPT ![u] = None]
  /\ upc' = [upc EXCEPT ![u] = "idle"]

WriteCount(u) ==
  /\ upc[u] = "write"
  /\ refcount' = [refcount EXCEPT ![uproxy[u]] = uread[u] + 1]
  /\ uread' = [uread EXCEPT ![u] = 0]
  /\ Return(u)
  /\ UNCHANGED <<ownerVars, toHolder, state, finalized, cache, uses, toOwner, serverVars>>

(* _netref_factory asks the owner for the object's methods, ...            *)
Inspect(u) ==
  /\ upc[u] = "inspect"
  /\ upc' = [upc EXCEPT ![u] = IF slot # Absent THEN "answered" ELSE "idle"]
  /\ failed' = IF slot # Absent THEN failed ELSE failed \cup {"inspect"}
  /\ UNCHANGED <<ownerVars, toHolder, uproxy, uread, proxyVars, uses, toOwner, spc, smsg>>

(* ... and makes a proxy that counts 1.                                    *)
Create(u) ==
  /\ ThreadFree
  /\ upc[u] = "answered"
  /\ \E p \in Proxies :
       /\ state[p] = "unborn"
       /\ state' = [state EXCEPT ![p] = "live"]
       /\ refcount' = [refcount EXCEPT ![p] = 1]
       /\ uproxy' = [uproxy EXCEPT ![u] = p]
  /\ upc' = [upc EXCEPT ![u] = "store"]
  /\ UNCHANGED <<ownerVars, toHolder, uread, held, finalized, cache, uses, toOwner, serverVars>>

Store(u) ==
  /\ upc[u] = "store"
  /\ cache' = uproxy[u]
  /\ Return(u)
  /\ UNCHANGED <<ownerVars, toHolder, uread, state, refcount, finalized, uses, toOwner, serverVars>>

(* Holder: the program passes the object back, as a LABEL_LOCAL_REF, and   *)
(* drops its reference to the proxy.                                       *)
Use(p) ==
  /\ ThreadFree
  /\ held[p] /\ uses < setup.uses
  /\ uses' = uses + 1
  /\ toOwner' = Append(toOwner, [kind |-> "use", count |-> 0])
  /\ UNCHANGED <<ownerVars, toHolder, unboxVars, proxyVars, serverVars>>

Drop(p) ==
  /\ ThreadFree
  /\ held[p]
  /\ held' = [held EXCEPT ![p] = FALSE]
  /\ UNCHANGED <<ownerVars, toHolder, unboxVars, state, refcount, finalized, cache, uses,
                 toOwner, serverVars>>

(* A proxy without references is finalized, once in its life: __del__      *)
(* reads the count and sends HANDLE_DEL.                                   *)
Finalize(p) ==
  /\ ThreadFree
  /\ state[p] = "live" /\ ~Referenced(p) /\ ~finalized[p]
  /\ state' = [state EXCEPT ![p] = "dying"]
  /\ finalized' = [finalized EXCEPT ![p] = TRUE]
  /\ UNCHANGED <<ownerVars, toHolder, unboxVars, refcount, held, cache, uses, toOwner, serverVars>>

SendDel(p) ==
  /\ state[p] = "dying"
  /\ toOwner' = Append(toOwner, [kind |-> "del", count |-> DelCount(p)])
  /\ state' = [state EXCEPT ![p] = "sent"]
  /\ UNCHANGED <<ownerVars, toHolder, unboxVars, refcount, held, finalized, cache, uses, serverVars>>

(* After __del__ the proxy lives on if _unbox has taken it from the cache  *)
(* meanwhile; otherwise it is freed and its weak reference cleared.        *)
Resurrect(p) ==
  /\ state[p] = "sent" /\ Referenced(p)
  /\ state' = [state EXCEPT ![p] = "live"]
  /\ UNCHANGED <<ownerVars, toHolder, unboxVars, refcount, held, finalized, cache, uses,
                 toOwner, serverVars>>

Free(p) ==
  /\ state[p] = "sent" \/ (state[p] = "live" /\ finalized[p] /\ ThreadFree)
  /\ ~Referenced(p)
  /\ state' = [state EXCEPT ![p] = IF cache = p THEN "cleared" ELSE "gone"]
  /\ UNCHANGED <<ownerVars, toHolder, unboxVars, refcount, held, finalized, cache, uses,
                 toOwner, serverVars>>

(* The weak reference's callback pops the key, whatever is there by now.   *)
Remover(p) ==
  /\ state[p] = "cleared"
  /\ cache' = None
  /\ state' = [state EXCEPT ![p] = "gone"]
  /\ UNCHANGED <<ownerVars, toHolder, unboxVars, refcount, held, finalized, uses,
                 toOwner, serverVars>>

-----------------------------------------------------------------------------
(* Owner: a serving thread takes the next request and lets go of the       *)
(* receive lock before it unboxes the arguments.                           *)
ReceiveRequest(s) ==
  /\ s \in setup.servers
  /\ spc[s] = "idle" /\ toOwner # <<>>
  /\ smsg' = [smsg EXCEPT ![s] = Head(toOwner)]
  /\ toOwner' = Tail(toOwner)
  /\ spc' = [spc EXCEPT ![s] = "unbox"]
  /\ UNCHANGED <<ownerVars, toHolder, unboxVars, proxyVars, uses, failed>>

(* LABEL_LOCAL_REF is looked up in _local_objects; HANDLE_DEL goes on to   *)
(* decref, a use ends here as far as the object is concerned.              *)
UnboxLocal(s) ==
  LET m     == smsg[s]
      found == slot # Absent
      goes  == found /\ m.kind = "del"
  IN
  /\ spc[s] = "unbox"
  /\ spc' = [spc EXCEPT ![s] = IF goes THEN "decref" ELSE "idle"]
  /\ smsg' = [smsg EXCEPT ![s] = IF goes THEN m ELSE None]
  /\ failed' = IF found THEN failed ELSE failed \cup {m.kind}
  /\ UNCHANGED <<ownerVars, toHolder, unboxVars, proxyVars, uses, toOwner>>

HandleDel(s) ==
  /\ spc[s] = "decref"
  /\ IF slot = Absent
       THEN failed' = failed \cup {"del"} /\ UNCHANGED slot
       ELSE slot' = Decreased(smsg[s].count) /\ UNCHANGED failed
  /\ spc' = [spc EXCEPT ![s] = "idle"]
  /\ smsg' = [smsg EXCEPT ![s] = None]
  /\ UNCHANGED <<setup, boxed, boxes, toHolder, unboxVars, proxyVars, uses, toOwner>>

Unboxing(u) ==
  \/ StartUnbox(u)
  \/ Lookup(u)
  \/ ReadCount(u)
  \/ WriteCount(u)
  \/ Inspect(u)
  \/ Create(u)
  \/ Store(u)

Collecting(p) ==
  \/ Finalize(p)
  \/ SendDel(p)
  \/ Resurrect(p)
  \/ Free(p)
  \/ Remover(p)

Serving(s) ==
  \/ ReceiveRequest(s)
  \/ UnboxLocal(s)
  \/ HandleDel(s)

Next ==
  \/ Box
  \/ SendBoxed
  \/ \E u \in Unboxers : Unboxing(u)
  \/ \E p \in Proxies : Use(p) \/ Drop(p) \/ Collecting(p)
  \/ \E s \in Servers : Serving(s)

Spec == Init /\ [][Next]_vars

(* Threads run, and the holder's program drops what it holds.              *)
FairSpec ==
  /\ Spec
  /\ WF_vars(SendBoxed)
  /\ \A u \in Unboxers : WF_vars(Unboxing(u))
  /\ \A p \in Proxies : WF_vars(Drop(p)) /\ WF_vars(Collecting(p))
  /\ \A s \in Servers : WF_vars(Serving(s))

-----------------------------------------------------------------------------
(* The references the owner has counted, and where they are: in messages,  *)
(* in unfinished activations of _unbox, in the counts of proxies that have *)
(* not sent HANDLE_DEL, and in HANDLE_DELs on their way.                   *)
Counted == IF slot = Absent THEN 0 ELSE slot + 1

InUnbox ==
  Cardinality({u \in Unboxers : upc[u] \in {"lookup", "read", "write", "inspect", "answered"}})

(* The sum of the numbers count[x], by counting the pairs <<x, i>> that    *)
(* stand for them.                                                         *)
References(count) == UNION {{x} \X (1..count[x]) : x \in DOMAIN count}

Total(count) == Cardinality(References(count))

InProxies == Total([p \in Proxies |-> IF state[p] \in {"live", "dying"} THEN refcount[p] ELSE 0])

Queued == Total([i \in DOMAIN toOwner |-> toOwner[i].count])

InService == Total([s \in Servers |-> IF smsg[s] = None THEN 0 ELSE smsg[s].count])

InDels == Queued + InService

(* Ledger: the owner's count is exact.  Every reference it counted in _box *)
(* is somewhere on its way to being returned by HANDLE_DEL, however boxing,*)
(* unboxing (nested in a wait for HANDLE_INSPECT too), finalizing and      *)
(* serving interleave, with one thread at the holder.                      *)
Ledger ==
  setup.single => Counted = boxed + toHolder + InUnbox + InProxies + InDels

(* The type invariant, and Ledger.                                          *)
Inv == TypeOK /\ Ledger

(* NeverTooLow: with several threads at the holder, where a proxy can be   *)
(* taken from the cache during its __del__ and increments can be lost, the *)
(* owner's count still covers every reference in a message, in an          *)
(* unfinished _unbox, in a proxy not yet finalized and in a HANDLE_DEL:    *)
(* those races can leak the object or betray the resurrected proxy, but    *)
(* they never take the object from a reference that is on its way.         *)
Unfinalized(p) == state[p] = "dying" \/ (state[p] = "live" /\ ~finalized[p])

NeverTooLow ==
  Counted >= boxed + toHolder + InUnbox + InDels
               + Total([p \in Proxies |-> IF Unfinalized(p) THEN refcount[p] ELSE 0])

(* NoKeyError: no request about the object finds it missing from           *)
(* _local_objects: what the holder names is still there when it is served, *)
(* as long as requests are served in the order in which they were sent.    *)
NoKeyError == setup.single /\ Cardinality(setup.servers) = 1 => failed = {}

(* LiveProxyResolvable: as long as the holder's program has a proxy, the   *)
(* owner keeps the object it stands for (the promise of protocol.py:339    *)
(* and of the class comment at 141).                                       *)
LiveProxyResolvable == \A p \in Proxies : held[p] => slot # Absent

(* EventuallyReleased: whenever the owner has an object in _local_objects  *)
(* it lets go of it later, once the holder has dropped its proxies: no     *)
(* reference is leaked, neither by a second proxy that a nested unboxing   *)
(* makes for the same object nor by a cached one.  With several threads at *)
(* the holder a lost increment leaks it.                                   *)
EventuallyReleased == (slot # Absent /\ setup.single) ~> (slot = Absent)
=============================================================================
