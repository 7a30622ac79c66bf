-------------------------------- MODULE Arc --------------------------------
(* The adaptive replacement cache (src/arc.c), used by several threads.

   An object is in the hash table, in at most one of the four lists, and
   counted: the hash table holds one reference, each thread that got the
   object another.  The ghost lists keep the data of their objects, so the
   cache may take twice cache->c, the half of the size it is configured with.

   cache->lock makes arc_move and arc_update_resource_size one step each, save
   for the fetch, which runs without it.  What they read before they take the
   lock (obj->locked and obj->state) is a step of its own, Check.  arc_balance
   holds the lock and moves one object a step.  The hash table is atomic.

   Three things leave a list that is no longer a list: an object freed while it
   is linked, an object linked a second time, and arc_clear, which cuts the
   links of the objects and keeps the heads.  What the code does with such a
   list is undefined, and the model stops at it (Intact). *)
EXTENDS Integers, Sequences, FiniteSets

CONSTANTS
    Threads, Keys, Objs,
    NoThread, NoObj,
    Capacity,     \* cache->c at the start
    BaseSize,     \* ARC_OBJ_BASE_SIZE + cache->cos
    DataSizes,    \* the sizes a fetch may report
    Modes,        \* the modes arc_set_mode switches between
    NewSizes,     \* the values arc_set_size gives to cache->c
    Ops           \* which of "remove", "drop", "update", "load", "clear" occur

ASSUME ArcSizes ==
    /\ Capacity \in Nat /\ BaseSize \in Nat
    /\ DataSizes \subseteq Nat /\ NewSizes \subseteq Nat
ASSUME ArcNames == NoThread \notin Threads /\ NoObj \notin Objs
ASSUME ArcThreads == IsFiniteSet(Threads)
ASSUME ArcModes == Modes \subseteq {"strict", "loose"}

VARIABLES
    hash,           \* hash[k]: the object of key k, or NoObj
    obj,            \* obj[o]: the arc_object_t
    lists,          \* lists[l]: the objects linked, most recent first
    size,           \* size[l]: the counter of the list
    c, p,           \* cache->c, cache->p
    needs_balance,
    cut,            \* arc_clear has cut the links of listed objects
    lock,           \* who holds cache->lock across steps
    thr             \* thr[t]: what thread t is doing

vars == <<hash, obj, lists, size, c, p, needs_balance, cut, lock, thr>>

Lists == {"mru", "mfu", "mrug", "mfug"}
Larger(a, b) == IF a > b THEN a ELSE b
Smaller(a, b) == IF a < b THEN a ELSE b
IsListed(o) == \E l \in Lists : \E i \in 1 .. Len(lists[l]) : lists[l][i] = o

Free == [key |-> "none", state |-> "none", size |-> 0, locked |-> FALSE, refs |-> 0]
Idle == [pc |-> "idle", key |-> "none", obj |-> NoObj, to |-> "none",
         new |-> FALSE, size |-> 0]

(* Memory that may be handed out again. *)
Unused(o) == obj[o].refs = 0 /\ ~ IsListed(o)

Intact ==
    /\ ~ cut
    /\ \A o \in Objs : IsListed(o) => obj[o].refs > 0
    /\ \A l, m \in Lists : \A i \in 1 .. Len(lists[l]), j \in 1 .. Len(lists[m]) :
          lists[l][i] = lists[m][j] => l = m /\ i = j

Init ==
    /\ hash = [k \in Keys |-> NoObj]
    /\ obj = [o \in Objs |-> Free]
    /\ lists = [l \in Lists |-> << >>]
    /\ size = [l \in Lists |-> 0]
    /\ c = Capacity /\ p = Capacity \div 2
    /\ needs_balance = FALSE
    /\ cut = FALSE
    /\ lock = NoThread
    /\ thr = [t \in Threads |-> Idle]

-----------------------------------------------------------------------------
(* release_ref; terminate_node_callback when it was the last one. *)
Released(r) == IF r.refs = 1 THEN Free ELSE [r EXCEPT !.refs = @ - 1]

Goto(t, pc) == thr' = [thr EXCEPT ![t].pc = pc]

(* The hash table lets go of o, if o is what it holds. *)
HashDelete(o) ==
    LET k == obj[o].key
    IN  IF k \in Keys /\ hash[k] = o
        THEN hash' = [hash EXCEPT ![k] = NoObj] /\ obj' = [obj EXCEPT ![o] = Released(@)]
        ELSE UNCHANGED <<hash, obj>>

(* s without the one link to o. *)
Without(s, o) ==
    LET i == CHOOSE n \in 1 .. Len(s) : s[n] = o
    IN  [j \in 1 .. Len(s) - 1 |-> IF j < i THEN s[j] ELSE s[j + 1]]

(* ATOMIC_DECREASE of the counter, arc_list_remove. *)
Unlink(o) ==
    LET l == obj[o].state
    IN  /\ lists' = [lists EXCEPT ![l] = Without(@, o)]
        /\ size' = [size EXCEPT ![l] = @ - obj[o].size]

\* Mutated: the list that takes the object does not count it.
Relink_uncounted(o, to) ==
    LET l == obj[o].state
    IN  /\ lists' = [lists EXCEPT ![l] = Without(lists[l], o), ![to] = <<o>> \o lists[to]]
        /\ size' = [size EXCEPT ![l] = @ - obj[o].size]

\* Mutated: the list that loses the object still counts it.
Relink_kept(o, to) ==
    LET l == obj[o].state
    IN  /\ lists' = [lists EXCEPT ![l] = Without(lists[l], o), ![to] = <<o>> \o lists[to]]
        /\ size' = [size EXCEPT ![to] = @ + obj[o].size]

(* From its list to the head of list to. *)
Relink(o, to) ==
    LET l == obj[o].state
    IN  /\ lists' = [lists EXCEPT ![l] = Without(lists[l], o), ![to] = <<o>> \o lists[to]]
        /\ size' = [size EXCEPT ![l] = size[l] - obj[o].size,
                                  ![to] = size[to] + obj[o].size]

(* Where the marker p goes when an object leaves list l for another. *)
Adapted(l) ==
    LET mrug == size["mrug"]
        mfug == size["mfug"]
        grow == IF mrug > 0 THEN mfug \div mrug ELSE mfug \div 2
        shrink == IF mfug > 0 THEN mrug \div mfug ELSE mrug \div 2
    IN  CASE l = "mrug" -> Smaller(c, p + Larger(grow, 1))
          [] l = "mfug" -> Larger(0, p - Larger(shrink, 1))
          [] OTHER -> p

-----------------------------------------------------------------------------
\* Mutated: what is found is not retained.
Lookup_unretained(t, k) ==
    LET o == hash[k]
    IN  /\ \/ thr[t].pc = "idle"
           \/ thr[t].pc = "lookup" /\ thr[t].key = k
        /\ IF o # NoObj
           THEN /\ obj' = [obj EXCEPT ![o].refs = @]
                /\ thr' = [thr EXCEPT ![t] =
                              [Idle EXCEPT !.pc = "check", !.key = k, !.obj = o, !.to = "mfu"]]
           ELSE /\ thr' = [thr EXCEPT ![t] = [Idle EXCEPT !.pc = "create", !.key = k]]
                /\ UNCHANGED obj
        /\ UNCHANGED <<hash, lists, size, c, p, needs_balance, lock, cut>>

(* arc_lookup_internal: ht_get_deep_copy, retaining what it finds. *)
Lookup(t, k) ==
    LET o == hash[k]
    IN  /\ \/ thr[t].pc = "idle"
           \/ thr[t].pc = "lookup" /\ thr[t].key = k
        /\ IF o # NoObj
           THEN /\ obj' = [obj EXCEPT ![o].refs = @ + 1]
                /\ thr' = [thr EXCEPT ![t] =
                              [Idle EXCEPT !.pc = "check", !.key = k, !.obj = o, !.to = "mfu"]]
           ELSE /\ thr' = [thr EXCEPT ![t] = [Idle EXCEPT !.pc = "create", !.key = k]]
                /\ UNCHANGED obj
        /\ UNCHANGED <<hash, lists, size, c, p, needs_balance, lock, cut>>

(* ht_set_if_not_exists of a new object; if somebody was faster the object is
   released and the lookup starts over. *)
Insert(t) ==
    LET k == thr[t].key
    IN  /\ thr[t].pc = "create"
        /\ \/ /\ hash[k] = NoObj
              /\ \E o \in Objs :
                    /\ Unused(o)
                    /\ hash' = [hash EXCEPT ![k] = o]
                    /\ obj' = [obj EXCEPT ![o] =
                                  [Free EXCEPT !.key = k, !.size = BaseSize, !.refs = 2]]
                    /\ thr' = [thr EXCEPT ![t].pc = "move", ![t].obj = o,
                                          ![t].to = "mru", ![t].new = TRUE]
           \/ /\ hash[k] # NoObj
              /\ Goto(t, "lookup")
              /\ UNCHANGED <<hash, obj>>
        /\ UNCHANGED <<lists, size, c, p, needs_balance, lock, cut>>

(* What arc_lookup_internal and arc_move look at before the lock is taken. *)
Check(t) ==
    LET o == thr[t].obj
        to == thr[t].to
    IN  /\ thr[t].pc = "check"
        /\ \/ /\ to = "mfu" /\ "loose" \in Modes /\ obj[o].state = "mfu"
              /\ Goto(t, "hold")
           \/ /\ to = "mfu" => "strict" \in Modes \/ obj[o].state # "mfu"
              /\ IF obj[o].locked \/ (to = "mfu" /\ obj[o].state = "none")
                 THEN Goto(t, IF to = "none" THEN "release" ELSE "balance")
                 ELSE Goto(t, "move")
        /\ UNCHANGED <<hash, obj, lists, size, c, p, needs_balance, lock, cut>>

-----------------------------------------------------------------------------
(* arc_move with the lock held *)
MoveToHead(t) ==
    LET o == thr[t].obj
        to == thr[t].to
    IN  /\ thr[t].pc = "move" /\ lock = NoThread
        /\ to # "none" /\ obj[o].state = to
        /\ lists' = [lists EXCEPT ![to] = <<o>> \o Without(@, o)]
        /\ Goto(t, "balance")
        /\ UNCHANGED <<hash, obj, size, c, p, needs_balance, lock, cut>>

MoveOut(t) ==
    LET o == thr[t].obj
    IN  /\ thr[t].pc = "move" /\ lock = NoThread
        /\ thr[t].to = "none"
        /\ IF obj[o].state # "none" THEN Unlink(o) ELSE UNCHANGED <<lists, size>>
        /\ LET r == [obj[o] EXCEPT !.state = "none"]
           IN  IF hash[r.key] = o
               THEN /\ hash' = [hash EXCEPT ![r.key] = NoObj]
                    /\ obj' = [obj EXCEPT ![o] = Released(r)]
               ELSE /\ obj' = [obj EXCEPT ![o] = r]
                    /\ UNCHANGED hash
        /\ Goto(t, "release")
        /\ UNCHANGED <<c, p, needs_balance, lock, cut>>

MoveBetween(t) ==
    LET o == thr[t].obj
        to == thr[t].to
    IN  /\ thr[t].pc = "move" /\ lock = NoThread
        /\ to # "none" /\ obj[o].state \notin {"none", to}
        /\ Relink(o, to)
        /\ p' = Adapted(obj[o].state)
        /\ obj' = [obj EXCEPT ![o].state = to]
        /\ Goto(t, "balance")
        /\ UNCHANGED <<hash, c, needs_balance, lock, cut>>

StartFetch(t) ==
    LET o == thr[t].obj
    IN  /\ thr[t].pc = "move" /\ lock = NoThread
        /\ thr[t].to # "none" /\ obj[o].state = "none"
        /\ obj' = [obj EXCEPT ![o].locked = TRUE]
        /\ Goto(t, "fetch")
        /\ UNCHANGED <<hash, lists, size, c, p, needs_balance, lock, cut>>

(* ops->fetch succeeded, and the data is below cache->c as it is now. *)
FetchFits(t) ==
    /\ thr[t].pc = "fetch"
    /\ \E s \in {d \in DataSizes : d < c} :
          thr' = [thr EXCEPT ![t].pc = "link", ![t].size = BaseSize + s]
    /\ UNCHANGED <<hash, obj, lists, size, c, p, needs_balance, cut, lock>>

\* Mutated: the object stays locked.
Fetched_locked(t) ==
    LET o == thr[t].obj
        to == thr[t].to
    IN  /\ thr[t].pc = "link" /\ lock = NoThread
        /\ obj' = [obj EXCEPT ![o].size = thr[t].size, ![o].state = to]
        /\ size' = [size EXCEPT ![to] = @ + thr[t].size]
        /\ lists' = [lists EXCEPT ![to] = <<o>> \o @]
        /\ needs_balance' = TRUE
        /\ thr' = [thr EXCEPT ![t].pc = "balance", ![t].size = 0]
        /\ UNCHANGED <<hash, c, p, cut, lock>>

\* Mutated: no balance is asked for.
Fetched_unbalanced(t) ==
    LET o == thr[t].obj
        to == thr[t].to
    IN  /\ thr[t].pc = "link" /\ lock = NoThread
        /\ obj' = [obj EXCEPT ![o].size = thr[t].size, ![o].state = to, ![o].locked = FALSE]
        /\ size' = [size EXCEPT ![to] = @ + thr[t].size]
        /\ lists' = [lists EXCEPT ![to] = <<o>> \o @]
        /\ thr' = [thr EXCEPT ![t].pc = "balance", ![t].size = 0]
        /\ UNCHANGED <<hash, c, p, needs_balance, cut, lock>>

(* The lock is taken again, the object goes to the head of its list. *)
Fetched(t) ==
    LET o == thr[t].obj
        to == thr[t].to
    IN  /\ thr[t].pc = "link" /\ lock = NoThread
        /\ obj' = [obj EXCEPT ![o].size = thr[t].size, ![o].state = to, ![o].locked = FALSE]
        /\ size' = [size EXCEPT ![to] = @ + thr[t].size]
        /\ lists' = [lists EXCEPT ![to] = <<o>> \o @]
        /\ needs_balance' = TRUE
        /\ thr' = [thr EXCEPT ![t].pc = "balance", ![t].size = 0]
        /\ UNCHANGED <<hash, c, p, cut, lock>>

\* Mutated: the object stays in the hash table.
FetchedUncached_hashed(t) ==
    /\ thr[t].pc = "fetch"
    /\ Goto(t, "balance")
    /\ UNCHANGED <<hash, obj, lists, size, c, p, needs_balance, lock, cut>>

(* The object is too large, or is not to be cached. *)
FetchedUncached(t) ==
    /\ thr[t].pc = "fetch"
    /\ HashDelete(thr[t].obj)
    /\ Goto(t, "balance")
    /\ UNCHANGED <<lists, size, c, p, needs_balance, lock, cut>>

\* Mutated: the reference of the lookup is kept.
FetchFailed_kept(t) ==
    LET o == thr[t].obj
        k == obj[o].key
        hashed == IF hash[k] = o THEN 1 ELSE 0
        dropped == hashed
    IN  /\ thr[t].pc = "fetch"
        /\ hash' = [hash EXCEPT ![k] = IF @ = o THEN NoObj ELSE @]
        /\ obj' = [obj EXCEPT ![o] = IF obj[o].refs = dropped THEN Free
                                     ELSE [obj[o] EXCEPT !.refs = @ - dropped]]
        /\ thr' = [thr EXCEPT ![t] = Idle]
        /\ UNCHANGED <<lists, size, c, p, needs_balance, lock, cut>>

(* arc_lookup_internal gives its own reference back only for an object it has
   just created. *)
FetchFailed(t) ==
    LET o == thr[t].obj
        k == obj[o].key
        hashed == IF hash[k] = o THEN 1 ELSE 0
        dropped == hashed + IF thr[t].new THEN 1 ELSE 0
    IN  /\ thr[t].pc = "fetch"
        /\ hash' = [hash EXCEPT ![k] = IF @ = o THEN NoObj ELSE @]
        /\ obj' = [obj EXCEPT ![o] = IF obj[o].refs = dropped THEN Free
                                     ELSE [obj[o] EXCEPT !.refs = @ - dropped]]
        /\ thr' = [thr EXCEPT ![t] = Idle]
        /\ UNCHANGED <<lists, size, c, p, needs_balance, lock, cut>>

-----------------------------------------------------------------------------
(* arc_balance *)
StartBalance(t) ==
    /\ thr[t].pc = "balance"
    /\ \/ /\ ~ needs_balance
          /\ Goto(t, "hold")
          /\ UNCHANGED lock
       \/ /\ needs_balance /\ lock = NoThread
          /\ lock' = t
          /\ Goto(t, "resident")
    /\ UNCHANGED <<hash, obj, lists, size, c, p, needs_balance, cut>>

Over(a, b) == size[a] + size[b] > c

(* size_t: c - p wraps around when c has been set below p. *)
OverRest(l) == c >= p /\ size[l] > c - p

lru(l) == lists[l][Len(lists[l])]

\* Mutated: the state of the object is not updated.
ToGhost_stale(t, from, to) ==
    LET o == lru(from)
    IN  /\ thr[t].pc = "resident"
        /\ Over("mru", "mfu")
        /\ Len(lists[from]) > 0
        /\ Relink(o, to)
        /\ UNCHANGED <<hash, obj, c, p, needs_balance, lock, thr, cut>>

ToGhost(t, from, to) ==
    LET o == lru(from)
    IN  /\ thr[t].pc = "resident"
        /\ Over("mru", "mfu")
        /\ Len(lists[from]) > 0
        /\ Relink(o, to)
        /\ obj' = [obj EXCEPT ![o].state = to]
        /\ UNCHANGED <<hash, c, p, needs_balance, lock, thr, cut>>

EvictMru(t) == size["mru"] > p /\ ToGhost(t, "mru", "mrug")
EvictMfu(t) == size["mru"] <= p /\ OverRest("mfu") /\ ToGhost(t, "mfu", "mfug")

ResidentDone(t) ==
    /\ thr[t].pc = "resident"
    /\ ~ (Over("mru", "mfu") /\ (size["mru"] > p \/ OverRest("mfu")))
    /\ Goto(t, "ghosts")
    /\ UNCHANGED <<hash, obj, lists, size, c, p, needs_balance, lock, cut>>

Forget(t, l) ==
    LET o == lru(l)
        r == [obj[o] EXCEPT !.state = "none"]
    IN  /\ thr[t].pc = "ghosts"
        /\ Over("mrug", "mfug")
        /\ Len(lists[l]) > 0
        /\ Unlink(o)
        /\ IF hash[r.key] = o
           THEN /\ hash' = [hash EXCEPT ![r.key] = NoObj]
                /\ obj' = [obj EXCEPT ![o] = Released(r)]
           ELSE /\ obj' = [obj EXCEPT ![o] = r]
                /\ UNCHANGED hash
        /\ UNCHANGED <<c, p, needs_balance, lock, thr, cut>>

ForgetMfu(t) == size["mfug"] > p /\ Forget(t, "mfug")
ForgetMru(t) == size["mfug"] <= p /\ OverRest("mrug") /\ Forget(t, "mrug")

BalanceDone(t) ==
    /\ thr[t].pc = "ghosts"
    /\ ~ (Over("mrug", "mfug") /\ (size["mfug"] > p \/ OverRest("mrug")))
    /\ needs_balance' = FALSE
    /\ lock' = NoThread
    /\ Goto(t, "hold")
    /\ UNCHANGED <<hash, obj, lists, size, c, p, cut>>

-----------------------------------------------------------------------------
(* The holder of a resource *)
Release(t) ==
    /\ thr[t].pc \in {"hold", "release"}
    /\ obj' = [obj EXCEPT ![thr[t].obj] = Released(@)]
    /\ thr' = [thr EXCEPT ![t] = Idle]
    /\ UNCHANGED <<hash, lists, size, c, p, needs_balance, lock, cut>>

Drop(t) ==
    /\ "drop" \in Ops
    /\ thr[t].pc = "hold"
    /\ thr' = [thr EXCEPT ![t].pc = "check", ![t].to = "none"]
    /\ UNCHANGED <<hash, obj, lists, size, c, p, needs_balance, lock, cut>>

(* arc_update_resource_size *)
UpdateSize(t) ==
    LET o == thr[t].obj
        l == obj[o].state
    IN  /\ "update" \in Ops
        /\ thr[t].pc = "hold" /\ lock = NoThread
        /\ \E s \in DataSizes :
              IF l \in {"mru", "mfu"}
              THEN /\ obj' = [obj EXCEPT ![o].size = BaseSize + s]
                   /\ size' = [size EXCEPT ![l] = @ - obj[o].size + BaseSize + s]
              ELSE UNCHANGED <<obj, size>>
        /\ needs_balance' = TRUE
        /\ UNCHANGED <<hash, lists, c, p, lock, thr, cut>>

(* arc_remove *)
Remove(t, k) ==
    LET o == hash[k]
    IN  /\ "remove" \in Ops
        /\ thr[t].pc = "idle"
        /\ o # NoObj
        /\ obj' = [obj EXCEPT ![o].refs = @ + 1]
        /\ thr' = [thr EXCEPT ![t] = [Idle EXCEPT !.pc = "check", !.key = k, !.obj = o]]
        /\ UNCHANGED <<hash, lists, size, c, p, needs_balance, lock, cut>>

(* arc_load: an object that is cached takes the data over, otherwise a new
   one is put in the hash table, and in no list. *)
Load(t, k) ==
    /\ "load" \in Ops
    /\ thr[t].pc = "idle"
    /\ hash[k] = NoObj
    /\ \E o \in Objs :
          /\ Unused(o)
          /\ hash' = [hash EXCEPT ![k] = o]
          /\ obj' = [obj EXCEPT ![o] = [Free EXCEPT !.key = k, !.size = BaseSize, !.refs = 1]]
    /\ UNCHANGED <<lists, size, c, p, needs_balance, lock, thr, cut>>

(* arc_clear: a new hash table; every listed object is released, its links are
   cut; the heads of the lists and the counters stay as they are. *)
Clear(t) ==
    /\ "clear" \in Ops
    /\ thr[t].pc = "idle" /\ lock = NoThread
    /\ hash' = [k \in Keys |-> NoObj]
    /\ obj' = [o \in Objs |-> IF IsListed(o) THEN Released(obj[o]) ELSE obj[o]]
    /\ cut' = \E o \in Objs : IsListed(o)
    /\ UNCHANGED <<lists, size, c, p, needs_balance, lock, thr>>

(* arc_set_size *)
SetSize ==
    /\ \E s \in NewSizes : c' = s
    /\ UNCHANGED <<hash, obj, lists, size, p, needs_balance, lock, thr, cut>>

-----------------------------------------------------------------------------
Move(t) == MoveToHead(t) \/ MoveOut(t) \/ MoveBetween(t) \/ StartFetch(t)
Fetch(t) == FetchFits(t) \/ Fetched(t) \/ FetchedUncached(t) \/ FetchFailed(t)

BalanceStep(t) ==
    \/ EvictMru(t) \/ EvictMfu(t) \/ ResidentDone(t)
    \/ ForgetMfu(t) \/ ForgetMru(t) \/ BalanceDone(t)

Next ==
    /\ Intact
    /\ \/ \E t \in Threads :
             \/ Insert(t) \/ Check(t) \/ Move(t) \/ Fetch(t)
             \/ StartBalance(t) \/ BalanceStep(t)
             \/ Release(t) \/ Drop(t) \/ UpdateSize(t) \/ Clear(t)
             \/ \E k \in Keys : Lookup(t, k) \/ Remove(t, k) \/ Load(t, k)
       \/ SetSize

Spec == Init /\ [][Next]_vars

(* A thread that is inside arc_balance is scheduled until it leaves it. *)
FairSpec == Spec /\ \A t \in Threads : WF_vars(BalanceStep(t))

-----------------------------------------------------------------------------
Total == size["mru"] + size["mfu"] + size["mrug"] + size["mfug"]

Object == [key : Keys \cup {"none"}, state : Lists \cup {"none"}, size : Nat,
           locked : BOOLEAN, refs : Nat]
Thread == [pc : {"idle", "lookup", "create", "check", "move", "fetch", "link", "balance",
                 "resident", "ghosts", "hold", "release"},
           key : Keys \cup {"none"}, obj : Objs \cup {NoObj}, to : {"mru", "mfu", "none"},
           new : BOOLEAN, size : Nat]

(* What the objects of list s take, when their records are ob. *)
Taken(ob, s) ==
    LET sum[n \in 0 .. Len(s)] == IF n = 0 THEN 0 ELSE sum[n - 1] + ob[s[n]].size
    IN  sum[Len(s)]

(* The counter of a list is what its objects take.  arc_balance trusts it: it
   takes the last object of a list whose counter is too large without asking
   whether there is one. *)
Accounting ==
    Intact => \A l \in Lists : size[l] = Taken(obj, lists[l])

(* An object links itself into the list its state names, and no other. *)
StateIsList ==
    Intact => \A o \in Objs, l \in Lists :
        (\E i \in 1 .. Len(lists[l]) : lists[l][i] = o) <=> obj[o].state = l

(* arc_move returns at once for an object that is locked.  None of them is in a
   list: arc_balance, which repeats until a counter is small enough, would
   never end. *)
LockedIsUnlisted == \A o \in Objs : obj[o].locked => obj[o].state = "none"

(* While no balance is due, the four lists together hold at most what the cache
   was configured with: twice cache->c.  A hit on a ghost makes the resident
   lists larger than c, but takes as much from the ghosts. *)
MemoryBound == ~ needs_balance => Total <= 2 * c

Holders(o) == {t \in Threads : thr[t].obj = o}
Hashed(o) == IF \E k \in Keys : hash[k] = o THEN 1 ELSE 0

(* An object is not freed while the hash table or a thread has it. *)
NotFreedEarly == \A o \in Objs : obj[o].refs >= Hashed(o) + Cardinality(Holders(o))

Settled == \A t \in Threads : thr[t].pc = "idle"

(* Once the threads are done with the cache, the only references left are the
   hash table's. *)
NoLeak == Settled => \A o \in Objs : obj[o].refs = Hashed(o)

(* Once the threads are done with the cache, what the hash table has is in a
   list, where arc_balance can find it, and the other way round. *)
HashedIsListed ==
    Settled /\ Intact => \A o \in Objs : Hashed(o) = 1 <=> obj[o].state # "none"

(* arc_balance ends, and gives the lock back. *)
BalanceEnds == \A t \in Threads : thr[t].pc = "resident" ~> thr[t].pc = "hold"
=============================================================================
