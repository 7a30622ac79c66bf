------------------------------- MODULE Items -------------------------------
(* The operations that change one key (src/shardcache.c), as its owner runs them.
   A value is kept in the storage or, when it is to expire or there is no
   storage to write to, as an item of the table volatile_storage.  Worker
   threads run SET, ADD, INCREMENT and DELETE at the same time; the expirer
   runs the timers of volatile items; the evictor tells the other nodes to drop
   their copies; the nodes, the owner included, read the key into their caches
   again.

   Nothing but the single operations of the tables and the storage is atomic: a
   thread has a list of what it still has to do for its call.  The cache of a
   node is what Arc and Fetch leave of it for one key; the runtime options
   (evict_on_delete, cache_on_set, expire_time) have their defaults, and the
   owner has no replicas. *)
EXTENDS Integers, Sequences

CONSTANTS
    Threads,        \* worker threads of the owner
    NPeers,         \* how many other nodes there are, in the order of cache->shards
    Readers,        \* the nodes whose clients ask for the key
    MaxCalls,       \* bound on the calls
    Storages,       \* "none", "readonly", "plain", or "full": with increment
    Ops,            \* the operations called: "set", "add", "increment", "delete"
    DeleteAlone,    \* is DELETE called only while no other operation runs?
    Faults          \* "unreachable": the evictor may not reach a node

ASSUME ItemsBounds ==
    /\ NPeers \in Nat \ {0} /\ MaxCalls \in Nat /\ DeleteAlone \in BOOLEAN
    /\ Readers \subseteq 0..NPeers
    /\ Storages \subseteq {"none", "readonly", "plain", "full"}

Owner == 0
Peers == 1..NPeers
Nodes == 0..NPeers

VARIABLES
    storage,        \* what cache->storage offers
    stored,         \* the value the storage has, 0 if none
    vol,            \* the item of volatile_storage
    timer,          \* is there a timer, with its entry in volatile_timeouts?
    queue,          \* expirer_queue
    expirer,        \* where the expirer is in shardcache_expire_key_cb
    jobs,           \* has evictor_jobs a job for the key?
    evictor,        \* the node the evictor is to tell next, 0 if it has no job
    told,           \* the nodes that have an EVICT to handle
    cache,          \* cache[n]: the object node n has for the key
    thr,            \* thr[t]: the call of thread t
    calls,          \* history: how many calls there have been; values are numbered by it
    excused         \* history: the nodes nobody tells about a change

data == <<storage, stored, vol>>
timers == <<timer, queue, expirer>>
eviction == <<jobs, evictor, told>>
caches == <<cache, excused>>
vars == <<data, timers, eviction, caches, thr, calls>>

NoItem == [ver |-> 0, expire |-> FALSE]
NoCopy == [st |-> "none", ver |-> 0]
NoCall == [todo |-> << >>, kind |-> "none", item |-> NoItem]

(* The key has a value: an earlier SET has stored it, or made an item of it. *)
Init ==
    /\ storage \in Storages
    /\ stored \in (IF storage = "none" THEN {0} ELSE {0, 1})
    /\ vol \in {NoItem, [ver |-> 2, expire |-> TRUE]} /\ timer = vol.expire
    /\ (stored = 0) = (vol # NoItem)
    /\ queue = << >> /\ expirer = "idle"
    /\ jobs = FALSE /\ evictor = 0 /\ told = {}
    /\ cache = [n \in Nodes |-> NoCopy]
    /\ thr = [t \in Threads |-> NoCall]
    /\ calls = 0 /\ excused = {}

(* storage.store and storage.remove are there. *)
Writable == storage \in {"plain", "full"}

(* What a GET at the owner finds when nothing is cached. *)
Current == IF vol # NoItem THEN vol.ver ELSE stored

(* The nodes that have the key, or are about to. *)
Caching == {n \in Nodes : cache[n].st # "none"}

(* arc_remove at node n: nothing happens while the object is locked. *)
Removed(n) == IF cache[n].st = "linked" THEN NoCopy ELSE cache[n]
Ignored(n) == IF cache[n].st \in {"locked", "looked"} THEN {n} ELSE {}

Uncached(n) ==
    /\ cache' = [cache EXCEPT ![n] = Removed(n)]
    /\ excused' = IF cache[n].st = "linked" THEN excused \ {n} ELSE excused \cup Ignored(n)
-----------------------------------------------------------------------------
(* The calls *)

Busy(t) == thr[t].todo # << >>

MayStart(t, kind) ==
    /\ kind \in Ops /\ ~ Busy(t) /\ calls < MaxCalls
    /\ DeleteAlone => \A u \in Threads : Busy(u) => kind # "delete" /\ thr[u].kind # "delete"

Call(t, kind, expire, todo) ==
    /\ MayStart(t, kind)
    /\ calls' = calls + 1
    /\ thr' = [thr EXCEPT ![t] = [todo |-> todo, kind |-> kind,
                                  item |-> [ver |-> 2 + calls', expire |-> expire]]]
    /\ UNCHANGED <<data, timers, eviction, caches>>

\* Mutated: the copies are dropped before the value is written.
StoreLast(expire, todo) ==
    IF Writable /\ ~ expire THEN <<"uncache", "evict", "store">> ELSE todo

(* shardcache_store: where the value goes. *)
Store(expire, todo) ==
    IF Writable /\ ~ expire THEN <<"store", "uncache", "evict">> ELSE todo

(* shardcache_set, and shardcache_cas, which set_internal stores as a SET. *)
Set(t, expire) == Call(t, "set", expire, Store(expire, <<"drop", "insert">>))
Add(t, expire) == Call(t, "add", expire, Store(expire, <<"drop", "exists", "insert">>))
IncrementCall(t, expire) == Call(t, "increment", expire, <<"increment">>)

DeleteCall(t) ==
    /\ MayStart(t, "delete")
    /\ calls' = calls + 1
    /\ thr' = [thr EXCEPT ![t].kind = "delete", ![t].todo = <<"delete", "uncache", "evict">>]
    /\ UNCHANGED <<data, timers, eviction, caches>>

At(t, step) == Busy(t) /\ Head(thr[t].todo) = step

Goto(t, todo) ==
    thr' = [thr EXCEPT ![t] = IF todo = << >> THEN NoCall ELSE [@ EXCEPT !.todo = todo]]

Proceed(t) == Goto(t, Tail(thr[t].todo))

(* The value is written: what is left depends neither on it nor on the operation. *)
Written(t, todo) == thr' = [thr EXCEPT ![t] = [NoCall EXCEPT !.todo = todo]]
-----------------------------------------------------------------------------
(* The storage *)

(* storage.store, storage.increment and storage.remove may fail. *)
StoreValue(t) ==
    /\ At(t, "store")
    /\ stored' \in {stored, IF thr[t].kind = "add" /\ stored # 0 THEN stored ELSE thr[t].item.ver}
    /\ Written(t, Tail(thr[t].todo))
    /\ UNCHANGED <<storage, vol, timers, eviction, caches, calls>>

StorageIncrement(t) ==
    /\ At(t, "store_increment")
    /\ stored' \in {stored, thr[t].item.ver}
    /\ Written(t, Tail(thr[t].todo))
    /\ UNCHANGED <<storage, vol, timers, eviction, caches, calls>>

Erase(t) ==
    /\ At(t, "erase")
    /\ stored' \in {stored, 0}
    /\ Proceed(t)
    /\ UNCHANGED <<storage, vol, timers, eviction, caches, calls>>

(* store_volatile: the value in the storage goes first; nobody is told. *)
DropStored(t) ==
    /\ At(t, "drop")
    /\ stored' \in (IF Writable THEN {stored, 0} ELSE {stored})
    /\ excused' = IF vol = NoItem /\ stored' # stored THEN excused \cup Caching ELSE excused
    /\ Proceed(t)
    /\ UNCHANGED <<storage, vol, timers, eviction, cache, calls>>
-----------------------------------------------------------------------------
(* The table of volatile items *)

(* ADD, and an increment that found no number, look before they insert. *)
Exists(t) ==
    /\ At(t, "exists")
    /\ CASE vol = NoItem              -> Proceed(t)
         [] thr[t].kind = "increment" -> Goto(t, <<"again">>)
         [] OTHER                     -> Goto(t, << >>)
    /\ UNCHANGED <<data, timers, eviction, caches, calls>>

Timed(t) == IF thr[t].item.expire THEN <<"schedule">> ELSE << >>

(* What shardcache_increment does after store_volatile. *)
Afterwards(t) == IF thr[t].kind = "increment" THEN <<"uncache", "evict">> ELSE << >>

(* ht_get_and_set: only what replaces an item is told to the other nodes. *)
InsertSet(t) ==
    /\ At(t, "insert") /\ thr[t].kind = "set"
    /\ vol' = thr[t].item
    /\ Written(t, (IF vol # NoItem THEN <<"uncache", "evict">> ELSE << >>) \o Timed(t))
    /\ excused' = IF vol = NoItem THEN excused \cup Caching ELSE excused
    /\ UNCHANGED <<storage, stored, timers, eviction, cache, calls>>

(* ht_set_if_not_exists: who comes late takes its own item for the one it
   replaces, and goes on as if it had. *)
InsertAdd(t) ==
    /\ At(t, "insert") /\ thr[t].kind # "set"
    /\ IF vol = NoItem
       THEN /\ vol' = thr[t].item
            /\ Written(t, Timed(t) \o Afterwards(t))
            /\ excused' = excused \cup Caching
       ELSE /\ Written(t, <<"uncache", "evict">> \o Afterwards(t))
            /\ UNCHANGED <<vol, excused>>
    /\ UNCHANGED <<storage, stored, timers, eviction, cache, calls>>

(* shardcache_increment_volatile_cb changes the item, if it is a number, in its
   place: it keeps its timer. *)
InPlace(t) ==
    /\ vol # NoItem
    /\ vol' = [vol EXCEPT !.ver = thr[t].item.ver]
    /\ Written(t, <<"uncache", "evict">>)

(* shardcache_increment_internal: the item, the storage, or a new item. *)
Increment(t) ==
    /\ At(t, "increment")
    /\ \/ InPlace(t)
       \/ /\ Goto(t, IF storage = "full" /\ ~ thr[t].item.expire
                     THEN <<"store_increment", "uncache", "evict">>
                     ELSE <<"drop", "exists", "insert">>)
          /\ UNCHANGED vol
    /\ UNCHANGED <<storage, stored, timers, eviction, caches, calls>>

(* There was an item when it was to be inserted: a second try, and no third. *)
IncrementAgain(t) ==
    /\ At(t, "again")
    /\ InPlace(t) \/ (Goto(t, << >>) /\ UNCHANGED vol)
    /\ UNCHANGED <<storage, stored, timers, eviction, caches, calls>>

(* DELETE removes the item, and the stored value if there is no item. *)
Delete(t) ==
    /\ At(t, "delete")
    /\ vol' = NoItem
    /\ Goto(t, (IF vol # NoItem THEN <<"unschedule">>
                ELSE IF Writable THEN <<"erase">> ELSE << >>) \o <<"uncache", "evict">>)
    /\ UNCHANGED <<storage, stored, timers, eviction, caches, calls>>
-----------------------------------------------------------------------------
(* What a call leaves for others *)

(* arc_remove at the owner. *)
Uncache(t) ==
    /\ At(t, "uncache")
    /\ Uncached(Owner)
    /\ Proceed(t)
    /\ UNCHANGED <<data, timers, eviction, calls>>

(* shardcache_commence_eviction: a second job for a key is not kept. *)
CommenceEviction(t) ==
    /\ At(t, "evict")
    /\ jobs' = TRUE
    /\ Proceed(t)
    /\ UNCHANGED <<data, timers, evictor, told, caches, calls>>

(* shardcache_schedule_expiration and shardcache_unschedule_expiration. *)
QueueExpiration(t) ==
    /\ At(t, "schedule") \/ At(t, "unschedule")
    /\ queue' = Append(queue, Head(thr[t].todo))
    /\ Proceed(t)
    /\ UNCHANGED <<data, timer, expirer, eviction, caches, calls>>

Step(t) ==
    \/ StoreValue(t) \/ StorageIncrement(t) \/ Erase(t) \/ DropStored(t)
    \/ Exists(t) \/ InsertSet(t) \/ InsertAdd(t)
    \/ Increment(t) \/ IncrementAgain(t) \/ Delete(t)
    \/ Uncache(t) \/ CommenceEviction(t) \/ QueueExpiration(t)
-----------------------------------------------------------------------------
(* The expirer: one thread, which takes the jobs from the queue and runs the
   callbacks of the timers in between. *)

\* Mutated: a timer that is scheduled again loses its entry.
ExpirationJobLost ==
    /\ expirer = "idle" /\ queue # << >>
    /\ timer' = (Head(queue) = "schedule" /\ ~ timer)
    /\ queue' = Tail(queue)
    /\ UNCHANGED <<data, expirer, eviction, caches, thr, calls>>

(* SCHEDULE replaces a timer there is, UNSCHEDULE removes it. *)
ExpirationJob ==
    /\ expirer = "idle" /\ queue # << >>
    /\ timer' = (Head(queue) = "schedule")
    /\ queue' = Tail(queue)
    /\ UNCHANGED <<data, expirer, eviction, caches, thr, calls>>

(* The timer's entry goes first. *)
TimerFires ==
    /\ expirer = "idle" /\ timer
    /\ timer' = FALSE /\ expirer' = "delete"
    /\ UNCHANGED <<data, queue, eviction, caches, thr, calls>>

(* Then the item, whichever it is by now; the other nodes are not told. *)
ExpireItem ==
    /\ expirer = "delete" /\ expirer' = "uncache"
    /\ vol' = NoItem
    /\ excused' = IF vol # NoItem THEN excused \cup Caching ELSE excused
    /\ UNCHANGED <<storage, stored, timer, queue, eviction, cache, thr, calls>>

ExpireUncache ==
    /\ expirer = "uncache" /\ expirer' = "idle"
    /\ Uncached(Owner)
    /\ UNCHANGED <<data, timer, queue, eviction, thr, calls>>

Expirer == ExpirationJob \/ TimerFires \/ ExpireItem \/ ExpireUncache
-----------------------------------------------------------------------------
(* The evictor *)

(* The job is taken out of the table before the nodes are told. *)
TakeJob ==
    /\ evictor = 0 /\ jobs
    /\ jobs' = FALSE /\ evictor' = 1
    /\ UNCHANGED <<data, timers, told, caches, thr, calls>>

(* The evictor does not wait for an answer. *)
TellNode ==
    /\ evictor # 0
    /\ told' = told \cup {evictor}
    /\ evictor' = IF evictor = NPeers THEN 0 ELSE evictor + 1
    /\ UNCHANGED <<data, timers, jobs, caches, thr, calls>>

(* A node has no connection: neither it nor those that follow are told. *)
NodeUnreachable ==
    /\ "unreachable" \in Faults
    /\ evictor # 0 /\ evictor' = 0
    /\ excused' = excused \cup {n \in Caching : n >= evictor}
    /\ UNCHANGED <<data, timers, jobs, told, cache, thr, calls>>

(* The connection breaks: the next node is told. *)
TellFails ==
    /\ "unreachable" \in Faults
    /\ evictor # 0
    /\ evictor' = IF evictor = NPeers THEN 0 ELSE evictor + 1
    /\ excused' = excused \cup {n \in Caching : n = evictor}
    /\ UNCHANGED <<data, timers, jobs, told, cache, thr, calls>>

(* shardcache_evict at a node that was told. *)
HandleEvict(n) ==
    /\ n \in told /\ told' = told \ {n}
    /\ Uncached(n)
    /\ UNCHANGED <<data, timers, jobs, evictor, thr, calls>>

Evictor == TakeJob \/ TellNode \/ NodeUnreachable \/ TellFails
-----------------------------------------------------------------------------
(* The caches: an object is "locked" while it is fetched, at the owner "looked"
   when it was not among the volatile items, and "linked" when it is in a list.
   A node other than the owner links it as soon as it has asked. *)

(* arc_lookup for a GET or a TOUCH. *)
Lookup(n) ==
    /\ n \in Readers /\ cache[n].st = "none"
    /\ cache' = [cache EXCEPT ![n].st = "locked"]
    /\ UNCHANGED <<data, timers, eviction, excused, thr, calls>>

(* arc_ops_fetch at the owner: volatile items first, then the storage. *)
FetchVolatile ==
    /\ cache[Owner] = [st |-> "locked", ver |-> 0]
    /\ cache' = [cache EXCEPT ![Owner] = IF vol # NoItem THEN [@ EXCEPT !.ver = vol.ver]
                                                         ELSE [@ EXCEPT !.st = "looked"]]
    /\ UNCHANGED <<data, timers, eviction, excused, thr, calls>>

FetchStored ==
    /\ cache[Owner] = [st |-> "looked", ver |-> 0]
    /\ cache' = [cache EXCEPT ![Owner] = IF stored # 0 THEN [@ EXCEPT !.ver = stored] ELSE NoCopy]
    /\ excused' = IF stored # 0 THEN excused ELSE excused \ {Owner}
    /\ UNCHANGED <<data, timers, eviction, thr, calls>>

(* The fetch is over, or on its way: arc_lookup puts the object into a list. *)
Link(n) ==
    /\ cache[n].st \in {"locked", "looked"}
    /\ n = Owner => cache[n].ver # 0
    /\ cache' = [cache EXCEPT ![n].st = "linked"]
    /\ UNCHANGED <<data, timers, eviction, excused, thr, calls>>

(* The owner answers with what it has, or is about to have, in its own cache. *)
FetchRemote(n) ==
    /\ n # Owner /\ cache[n].st # "none" /\ cache[n].ver = 0 /\ cache[Owner].ver # 0
    /\ cache' = [cache EXCEPT ![n].ver = cache[Owner].ver]
    /\ excused' = IF Owner \in excused THEN excused \cup {n} ELSE excused
    /\ UNCHANGED <<data, timers, eviction, thr, calls>>

(* There is nothing, or an error; or the object is removed: by an EVICT of a
   client, by a SET that is forwarded to the owner, for want of space. *)
Lose(n) ==
    /\ \/ cache[n].st = "linked"
       \/ cache[n] = [st |-> IF n = Owner THEN "looked" ELSE "locked", ver |-> 0]
    /\ cache' = [cache EXCEPT ![n] = NoCopy]
    /\ excused' = excused \ {n}
    /\ UNCHANGED <<data, timers, eviction, thr, calls>>

Caches == FetchVolatile \/ FetchStored
          \/ \E n \in Nodes : Lookup(n) \/ Link(n) \/ FetchRemote(n) \/ Lose(n)
-----------------------------------------------------------------------------
Calls(t) == DeleteCall(t) \/ \E e \in BOOLEAN : Set(t, e) \/ Add(t, e) \/ IncrementCall(t, e)

Next ==
    \/ \E t \in Threads : Calls(t) \/ Step(t)
    \/ Expirer \/ Evictor \/ Caches
    \/ \E n \in Peers : HandleEvict(n)

Spec == Init /\ [][Next]_vars
-----------------------------------------------------------------------------
(* Properties *)

Steps == {"store", "store_increment", "erase", "drop", "exists", "insert",
          "increment", "again", "delete", "uncache", "evict", "schedule",
          "unschedule"}
Versions == 0..MaxCalls + 2
ItemType == [ver : Versions, expire : BOOLEAN]

Doing(t, step) == \E i \in DOMAIN thr[t].todo : thr[t].todo[i] = step

(* An item that is to expire has a timer that will remove it, or is going to
   have one: timers, jobs of the expirer and calls that run do not lose it, if
   no DELETE runs at the same time as another call. *)
TimerCovers ==
    vol.expire => \/ \E t \in Threads : Doing(t, "schedule")
                  \/ queue # << >> /\ queue[Len(queue)] = "schedule"
                  \/ queue = << >> /\ timer
                  \/ expirer = "delete"

(* Somebody will still remove node n's copy. *)
Pending(n) ==
    IF n = Owner THEN \E t \in Threads : Doing(t, "uncache")
    ELSE \/ \E t \in Threads : Doing(t, "evict")
         \/ jobs \/ (evictor # 0 /\ evictor <= n) \/ n \in told

Stale(n) == cache[n].st = "linked" /\ cache[n].ver # 0 /\ cache[n].ver # Current /\ n \notin excused

(* A node that has an old value in its cache is going to drop it, whatever the
   order of reads and calls, unless it is one of those the code passes over: the
   first volatile item and an expiration are not told to anybody, an arc_remove
   while the object is locked has no effect, and the evictor gives up on nodes
   it cannot reach. *)
StaleIsPending == \A n \in Nodes : Stale(n) => Pending(n)
=============================================================================
