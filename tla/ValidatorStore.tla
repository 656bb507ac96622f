--------------------------- MODULE ValidatorStore ---------------------------
(***************************************************************************)
(* The storages of the validators as one thread keeps them: a database in  *)
(* front of which are a bounded LRU cache and the set of storages that the *)
(* current batch has touched.                                              *)
(*                                                                         *)
(* In the code the cache and the touched set are two maps of pointers.  A  *)
(* validator that is in both is one object there, so that the model keeps  *)
(* the objects in one function "mem" and the maps as sets of keys.  The     *)
(* caches of the two threads have objects in common, too: "shared" are the *)
(* keys whose object here the other store may hold.                        *)
(***************************************************************************)
EXTENDS Integers, FiniteSets, SequencesExt

CONSTANTS
    Validator, \* the validators
    Staker,    \* those who stake, the validators among them
    Details    \* what a validator says about itself: percentage and URLs

ASSUME StoreAssumption ==
    /\ IsFiniteSet(Staker)
    /\ Validator \subseteq Staker

\* ValidatorStorage
Storage(x) ==
    /\ DOMAIN x = {"details", "total", "stakers"}
    /\ x.details \in Details
    /\ x.total \in Nat
    /\ DOMAIN x.stakers \subseteq Staker
    /\ x.stakers \in [DOMAIN x.stakers -> Nat]

StoreTypeOK(s) ==
    /\ DOMAIN s.db \subseteq Validator
    /\ \A v \in DOMAIN s.db : Storage(s.db[v])
    /\ s.cached \cup s.touched \subseteq DOMAIN s.mem
    /\ DOMAIN s.mem \subseteq Validator
    /\ \A v \in DOMAIN s.mem : Storage(s.mem[v])
    /\ s.lru \in Seq(Validator) /\ IsInjective(s.lru)
    /\ s.shared \subseteq DOMAIN s.mem

OpenStore(db, cap) ==
    [db |-> db, cap |-> cap, mem |-> [v \in {} |-> 0],
     cached |-> {}, touched |-> {}, lru |-> <<>>, shared |-> {}]

\* Objects that are in neither map are garbage.
Collect(s) ==
    [s EXCEPT !.mem = [v \in s.cached \cup s.touched |-> s.mem[v]],
              !.shared = @ \cap (s.cached \cup s.touched)]

ResetTouched(s) == Collect([s EXCEPT !.touched = {}])

MarkTouched(s, v) == [s EXCEPT !.touched = @ \cup {v}]

-----------------------------------------------------------------------------
(* The LRU list, its front first *)

MoveToFront(s, v) == [s EXCEPT !.lru = <<v>> \o RemoveFirst(@, v)]

\* Mutation: what has been touched is not looked at.
EvictStepAnything(turn, i) ==
    LET s == turn.store
    IN  IF Cardinality(s.cached) <= s.cap THEN turn
        ELSE [turn EXCEPT !.store =
                 [s EXCEPT !.lru = Front(@), !.cached = @ \ {Last(s.lru)},
                           !.touched = @ \ {Last(s.lru)}]]

\* One turn of the loop in evictIfNeeded.  A touched storage is passed over,
\* and the loop ends when that has happened to all of them.
EvictStep(turn, i) ==
    LET s == turn.store
    IN  IF Cardinality(s.cached) <= s.cap \/ turn.skipped >= Len(s.lru) THEN turn
        ELSE IF Last(s.lru) \in s.touched
        THEN [store   |-> [s EXCEPT !.lru = <<Last(@)>> \o Front(@)],
              skipped |-> turn.skipped + 1]
        ELSE [store   |-> [s EXCEPT !.lru = Front(@),
                                    !.cached = @ \ {Last(s.lru)}],
              skipped |-> 0]

\* No more turns than twice the length of the list.
EvictIfNeeded(s) ==
    FoldLeft(EvictStep, [store |-> s, skipped |-> 0], s.lru \o s.lru).store

TouchCache(s, v) == EvictIfNeeded(MoveToFront(s, v))

\* The storage is not touched yet: when everything else is, it is evicted.
PutCache(s, v, x) ==
    TouchCache([s EXCEPT !.mem = [w \in DOMAIN @ \cup {v} |->
                                     IF w = v THEN x ELSE @[w]],
                         !.cached = @ \cup {v}], v)

-----------------------------------------------------------------------------
(* Reads and writes under the lock of the thread *)

InMemory(s, v) == v \in s.touched \cup s.cached

Exists(s, v) == InMemory(s, v) \/ v \in DOMAIN s.db

\* GetValidatorFromApprovementThreadStateUnderLock and
\* GetValidatorFromExecThreadState
GetValidator(s, v) ==
    IF v \in s.touched THEN Collect(TouchCache(s, v))
    ELSE IF v \in s.cached THEN Collect(MarkTouched(TouchCache(s, v), v))
    ELSE IF v \in DOMAIN s.db
    THEN Collect(MarkTouched(PutCache(s, v, s.db[v]), v))
    ELSE s

\* What is in the object that GetValidator returns.
StorageOf(s, v) == IF v \in DOMAIN s.mem THEN s.mem[v] ELSE s.db[v]

\* The object that GetValidator has returned is changed in place.
SetStorage(s, v, x) == [s EXCEPT !.mem[v] = x]

\* The other store, when this one has become s.
Mirror(other, s) ==
    [other EXCEPT !.mem = [v \in DOMAIN @ |->
        IF v \in other.shared \cap s.shared THEN s.mem[v] ELSE @[v]]]

\* A batch with the touched storages is written.
WriteTouched(s) ==
    [s EXCEPT !.db = [v \in DOMAIN @ \cup s.touched |->
                         IF v \in s.touched THEN s.mem[v] ELSE @[v]]]

\* What the thread sees of a store.
View(s) == [v \in DOMAIN s.db \cup DOMAIN s.mem |-> StorageOf(s, v)]

\* The validators of the list q that have a storage, after all were read.
ReadAll(s, q) ==
    FoldLeft(GetValidator, s, q)

-----------------------------------------------------------------------------
(* GetValidatorFromApprovementThreadState: the database is read without the  *)
(* lock, and what it had is put into the cache under the lock.               *)

\* Mutation: what others have put there meanwhile is written over.
FillCacheBlindly(s, v, x) == Collect(PutCache(s, v, x))

FillCache(s, v, x) ==
    IF InMemory(s, v) THEN s ELSE Collect(PutCache(s, v, x))
=============================================================================
