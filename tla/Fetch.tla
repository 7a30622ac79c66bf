------------------------------- MODULE Fetch -------------------------------
(* Getting one key (src/arc_ops.c and shardcache_get of src/shardcache.c): how
   many callers come to share one fetch, from the peer that owns the key or from
   the storage, and how each of them is told the value.

   The cache finds or creates the cached object of the key; the thread that
   creates it fetches.  A caller that meets an object which is not complete
   gets what has arrived so far and registers a listener, which keeps the
   caller's reference.  The answer of a peer is read by a thread of its own,
   the async reader, which calls arc_ops_fetch_from_peer_async_cb.

   obj->lock makes a step of everything a thread does between taking and
   releasing it: arc_ops_fetch, the part of shardcache_get that looks at the
   object, each call of the callback.  Of the cache (module Arc) what matters
   here is kept: whether the object is hashed, in a list, locked for fetching,
   and its references.  Data is counted in chunks.  The option lazy_expiration
   is off, as it is unless it is asked for. *)
EXTENDS Integers, FiniteSets

CONSTANTS
    Getters,    \* calls of shardcache_get
    Objs,       \* memory for cached objects of the key: refs = 0 is free
    NoObj,
    MaxData,    \* how many chunks a value has at most
    MaxTries,   \* how often a caller that met an evicted object tries again
    Faults      \* "refused", "broken", "storage", "gone", "remove"

ASSUME FetchBounds == MaxData \in Nat /\ MaxTries \in Nat
ASSUME FetchNoObj == NoObj \notin Objs
ASSUME FetchFinite == IsFiniteSet(Getters)

VARIABLES
    owner,      \* shardcache_test_ownership: is the key ours?
    global,     \* cache->storage.global
    hash,       \* the object the hash table has for the key
    obj,        \* the cached objects
    reader,     \* reader[o][s]: how many answers for o the async reader has at stage s
    get,        \* get[g]: the call
    errors      \* history: a storage or a peer failed in the middle

vars == <<owner, global, hash, obj, reader, get, errors>>

(* What calloc and arc_ops_init leave. *)
New == [refs |-> 0, locked |-> FALSE, listed |-> FALSE, fetching |-> FALSE,
        complete |-> FALSE, evicted |-> FALSE, drop |-> FALSE, data |-> 0,
        listeners |-> {}]

Call == [pc |-> "idle", obj |-> NoObj, new |-> FALSE, rc |-> 0, tries |-> 0,
         got |-> 0, finals |-> 0]

(* Where the answer of a peer is: being read, complete, to be dropped, to be
   released. *)
Stages == {"reading", "done", "drop", "release"}

Init ==
    /\ owner \in BOOLEAN /\ global \in BOOLEAN
    /\ hash = NoObj
    /\ obj = [o \in Objs |-> New]
    /\ reader = [o \in Objs |-> [s \in Stages |-> 0]]
    /\ get = [g \in Getters |-> Call]
    /\ errors = FALSE

(* The last reference is given back: arc_ops_evict, and the memory is free. *)
Freed(objects) == [o \in Objs |-> IF objects[o].refs = 0 THEN New ELSE objects[o]]

Goto(g, pc) == get' = [get EXCEPT ![g].pc = pc]

(* The call is over: what its thread had in its variables is gone. *)
Over(call, pc) == [call EXCEPT !.pc = pc, !.obj = NoObj, !.new = FALSE, !.rc = 0, !.tries = 0]
-----------------------------------------------------------------------------
(* The cache: arc_lookup and arc_move as seen from one key *)

(* arc_lookup: the object of the key is retained, or a new one is hashed. *)
LookupFound(g) ==
    /\ get[g].pc \in {"idle", "retry"} /\ hash # NoObj
    /\ obj' = [obj EXCEPT ![hash].refs = @ + 1]
    /\ get' = [get EXCEPT ![g].pc = "check", ![g].obj = hash, ![g].new = FALSE]
    /\ UNCHANGED <<owner, global, hash, reader, errors>>

LookupNew(g) ==
    /\ get[g].pc \in {"idle", "retry"} /\ hash = NoObj
    /\ \E o \in Objs :
          /\ obj[o].refs = 0
          /\ hash' = o
          /\ obj' = [obj EXCEPT ![o] = [New EXCEPT !.refs = 2]]
          /\ get' = [get EXCEPT ![g].pc = "move", ![g].obj = o, ![g].new = TRUE]
    /\ UNCHANGED <<owner, global, reader, errors>>

(* The object was found: arc_move looks at it before it takes the lock. *)
Check(g) ==
    LET o == get[g].obj
    IN  /\ get[g].pc = "check"
        /\ Goto(g, IF obj[o].locked \/ ~ obj[o].listed THEN "use" ELSE "move")
        /\ UNCHANGED <<owner, global, hash, obj, reader, errors>>

(* arc_move with the lock: an object that is in no list is locked and fetched. *)
Move(g) ==
    LET o == get[g].obj
    IN  /\ get[g].pc = "move"
        /\ IF obj[o].listed
           THEN Goto(g, "use") /\ UNCHANGED obj
           ELSE Goto(g, "fetch") /\ obj' = [obj EXCEPT ![o].locked = TRUE]
        /\ UNCHANGED <<owner, global, hash, reader, errors>>

(* ht_delete_if_equals gives back the reference of the hash table. *)
Unhashed(o) == IF hash = o THEN 1 ELSE 0
HashDelete(o) == hash' = IF hash = o THEN NoObj ELSE hash

(* The end of arc_move and of arc_lookup after the fetch: the object is put in
   a list, or taken out of the hash table.  A lookup that created the object and failed gives its reference
   back, one that found it does not. *)
Link(g) ==
    LET o == get[g].obj
        lost == IF get[g].rc = -1 /\ get[g].new THEN 1 ELSE 0
    IN  /\ get[g].pc = "link"
        /\ IF get[g].rc = 0
           THEN /\ obj' = [obj EXCEPT ![o].listed = TRUE, ![o].locked = FALSE]
                /\ UNCHANGED hash
           ELSE /\ obj' = Freed([obj EXCEPT ![o].refs = @ - Unhashed(o) - lost])
                /\ HashDelete(o)
        /\ get' = [get EXCEPT ![g] =
              IF get[g].rc # -1 THEN [@ EXCEPT !.pc = "use", !.new = FALSE, !.rc = 0]
              ELSE IF get[g].new THEN Over(@, "failed")
              ELSE [Over(@, "leaked") EXCEPT !.obj = o]]
        /\ UNCHANGED <<owner, global, reader, errors>>

\* Mutated: the hash table keeps its object.
Dropped_hashed(o, r) ==
    IF obj[o].locked THEN [r EXCEPT !.refs = @ - 1] ELSE [r EXCEPT !.refs = @ - 1, !.listed = FALSE]

(* arc_move(obj, NULL): nothing if the object is locked for fetching. *)
Dropped(o, r) ==
    IF obj[o].locked THEN [r EXCEPT !.refs = @ - 1]
    ELSE [r EXCEPT !.refs = @ - 1 - Unhashed(o), !.listed = FALSE]
DropHash(o) == IF obj[o].locked THEN UNCHANGED hash ELSE HashDelete(o)

(* arc_remove by another thread (a set, an eviction, an expiration), or the
   object falls out of the last list. *)
Remove ==
    /\ "remove" \in Faults
    /\ hash # NoObj /\ ~ obj[hash].locked
    /\ obj' = Freed([obj EXCEPT ![hash].refs = @ - 1, ![hash].listed = FALSE])
    /\ hash' = NoObj
    /\ UNCHANGED <<owner, global, reader, get, errors>>
-----------------------------------------------------------------------------
(* Listeners *)

(* The listeners of o are called: those in deaf refuse the data, the others
   take it; with final they are told it is all, and every one that is told so or
   refuses gives its reference back. *)
Told(o, chunks, deaf, final) ==
    [g \in Getters |->
        IF g \notin obj[o].listeners THEN get[g]
        ELSE IF g \in deaf THEN Over(get[g], "gone")
        ELSE LET c == [get[g] EXCEPT !.got = @ + chunks]
             IN  IF final = "none" THEN c ELSE [Over(c, final) EXCEPT !.finals = @ + 1]]

Deaf(o) == IF "gone" \in Faults THEN SUBSET obj[o].listeners ELSE {{}}

\* Mutated: the listeners stay in the list.
Left_again(o, r) == [r EXCEPT !.refs = @ - Cardinality(obj[o].listeners)]

Left(o, r) == [r EXCEPT !.refs = @ - Cardinality(obj[o].listeners), !.listeners = {}]
-----------------------------------------------------------------------------
(* arc_ops_fetch *)

Fetched(g, o, r, told, rc) ==
    /\ get[g].pc = "fetch" /\ get[g].obj = o
    /\ obj' = Freed([obj EXCEPT ![o] = r])
    /\ get' = [told EXCEPT ![g].pc = "link", ![g].rc = rc]
    /\ UNCHANGED <<owner, global, hash>>

(* Somebody fetches already, or the object has its data. *)
FetchNothing(g) ==
    LET o == get[g].obj
    IN  /\ get[g].pc = "fetch"
        /\ obj[o].fetching \/ obj[o].data > 0
        /\ Fetched(g, o, obj[o], get, IF obj[o].fetching THEN 1 ELSE 0)
        /\ UNCHANGED <<reader, errors>>

Fetchable(o) == ~ obj[o].fetching /\ obj[o].data = 0
Started(o) == [obj[o] EXCEPT !.fetching = TRUE, !.evicted = FALSE]

(* The request was written to the owner; the reader keeps a reference.  The
   object stays in the cache one time in ten (COBJ_FLAG_DROP). *)
FetchFromPeer(g) ==
    LET o == get[g].obj
    IN  /\ get[g].pc = "fetch" /\ Fetchable(o) /\ ~ owner
        /\ \E drop \in BOOLEAN :
              Fetched(g, o, [Started(o) EXCEPT !.refs = @ + 1, !.drop = drop], get,
                      IF drop /\ obj[o].complete THEN 1 ELSE 0)
        /\ reader' = [reader EXCEPT ![o]["reading"] = @ + 1]
        /\ UNCHANGED errors

\* Mutated: the object is not marked evicted.
FetchRefused_unmarked(g) ==
    LET o == get[g].obj
    IN  /\ get[g].pc = "fetch" /\ Fetchable(o) /\ ~ owner /\ ~ global
        /\ "refused" \in Faults
        /\ Fetched(g, o, Left(o, Started(o)), Told(o, 0, {}, "error"), -1)
        /\ UNCHANGED <<reader, errors>>

(* The owner cannot be reached, and the storage is not a global one: the
   listeners are told, and who comes later sees that the object is evicted. *)
FetchRefused(g) ==
    LET o == get[g].obj
    IN  /\ get[g].pc = "fetch" /\ Fetchable(o) /\ ~ owner /\ ~ global
        /\ "refused" \in Faults
        /\ Fetched(g, o, Left(o, [Started(o) EXCEPT !.evicted = TRUE]),
                   Told(o, 0, {}, "error"), -1)
        /\ UNCHANGED <<reader, errors>>

(* The key is ours, or the owner cannot be reached and the storage is global. *)
Local == owner \/ (global /\ "refused" \in Faults)

(* The value is found; one that is too big for the cache is given to whoever
   asked and not cached. *)
FetchLocal(g) ==
    LET o == get[g].obj
        r == [Started(o) EXCEPT !.complete = TRUE, !.fetching = FALSE, !.data = 1]
    IN  /\ get[g].pc = "fetch" /\ Fetchable(o) /\ Local
        /\ \E deaf \in Deaf(o), big \in {0, 1} :
              Fetched(g, o, Left(o, r), Told(o, 1, deaf, "ok"), big)
        /\ UNCHANGED <<reader, errors>>

FetchNotFound(g) ==
    LET o == get[g].obj
        r == [Started(o) EXCEPT !.complete = TRUE, !.fetching = FALSE]
    IN  /\ get[g].pc = "fetch" /\ Fetchable(o) /\ Local
        /\ Fetched(g, o, Left(o, r), Told(o, 0, {}, "ok"), 1)
        /\ UNCHANGED <<reader, errors>>

FetchStorageError(g) ==
    LET o == get[g].obj
        r == [Started(o) EXCEPT !.fetching = FALSE, !.drop = TRUE]
    IN  /\ get[g].pc = "fetch" /\ Fetchable(o) /\ Local
        /\ "storage" \in Faults
        /\ Fetched(g, o, Left(o, r), Told(o, 0, {}, "error"), -1)
        /\ errors' = TRUE
        /\ UNCHANGED reader
-----------------------------------------------------------------------------
(* shardcache_get, once arc_lookup has returned the object *)

Released(o) == Freed([obj EXCEPT ![o].refs = @ - 1])

(* The object is evicted: sleep and look the key up again, up to MaxTries times
   (five, with a sleep that doubles from 2^7 microseconds to 2^11). *)
UseEvicted(g) ==
    LET o == get[g].obj
    IN  /\ get[g].pc = "use" /\ obj[o].evicted
        /\ obj' = Released(o)
        /\ get' = IF get[g].tries = MaxTries
                  THEN [get EXCEPT ![g] = Over(@, "failed")]
                  ELSE [get EXCEPT ![g].pc = "retry", ![g].obj = NoObj, ![g].tries = @ + 1]
        /\ UNCHANGED <<owner, global, hash, reader, errors>>

(* The value is complete: one call of the callback has all of it. *)
UseComplete(g) ==
    LET o == get[g].obj
    IN  /\ get[g].pc = "use" /\ ~ obj[o].evicted /\ obj[o].complete
        /\ obj' = Released(o)
        /\ get' = [get EXCEPT ![g] = [Over(get[g], "ok") EXCEPT !.got = get[g].got + obj[o].data,
                                                           !.finals = get[g].finals + 1]]
        /\ UNCHANGED <<owner, global, hash, reader, errors>>

\* Mutated: what has arrived already is not passed on.
UseListen_silent(g) ==
    LET o == get[g].obj
    IN  /\ get[g].pc = "use" /\ ~ obj[o].evicted /\ ~ obj[o].complete
        /\ obj' = [obj EXCEPT ![o].listeners = @ \cup {g}]
        /\ get' = [get EXCEPT ![g].pc = "waiting"]
        /\ UNCHANGED <<owner, global, hash, reader, errors>>

(* The value is not complete: take what has arrived, and listen. *)
UseListen(g) ==
    LET o == get[g].obj
    IN  /\ get[g].pc = "use" /\ ~ obj[o].evicted /\ ~ obj[o].complete
        /\ obj' = [obj EXCEPT ![o].listeners = @ \cup {g}]
        /\ get' = [get EXCEPT ![g].pc = "waiting", ![g].got = @ + obj[o].data]
        /\ UNCHANGED <<owner, global, hash, reader, errors>>
-----------------------------------------------------------------------------
(* arc_ops_fetch_from_peer_async_cb, called by the async reader with chunks and
   then with DONE and CLOSE, or with an error *)

At(o, s) == reader[o][s] > 0
Stage(o, s, t) == reader' = [reader EXCEPT ![o][s] = @ - 1, ![o][t] = @ + 1]
ReaderEnds(o, s) == reader' = [reader EXCEPT ![o][s] = @ - 1]

(* idx 0: a chunk is appended and passed on. *)
ReadChunk(o) ==
    /\ At(o, "reading") /\ obj[o].data < MaxData
    /\ \E deaf \in Deaf(o) :
          /\ get' = Told(o, 1, deaf, "none")
          /\ obj' = Freed([obj EXCEPT ![o].data = @ + 1, ![o].listeners = @ \ deaf,
                                ![o].refs = @ - Cardinality(deaf)])
    /\ UNCHANGED <<owner, global, hash, reader, errors>>

\* Mutated: the object is not marked complete.
ReadDone_incomplete(o) ==
    /\ At(o, "reading")
    /\ get' = Told(o, 0, {}, "ok")
    /\ obj' = Freed([obj EXCEPT ![o] = Left(o, [obj[o] EXCEPT !.fetching = FALSE])])
    /\ Stage(o, "reading", "done")
    /\ UNCHANGED <<owner, global, hash, errors>>

(* idx -1: the listeners are told that they have it all. *)
ReadDone(o) ==
    /\ At(o, "reading")
    /\ get' = Told(o, 0, {}, "ok")
    /\ obj' = Freed([obj EXCEPT ![o] = Left(o, [obj[o] EXCEPT !.complete = TRUE, !.fetching = FALSE,
                                                        !.drop = obj[o].drop \/ obj[o].data = 0])])
    /\ Stage(o, "reading", "done")
    /\ UNCHANGED <<owner, global, hash, errors>>

(* idx -3: the connection is given back, the object is kept or dropped. *)
ReadClose(o) ==
    /\ At(o, "done")
    /\ obj' = [obj EXCEPT ![o].fetching = FALSE]
    /\ Stage(o, "done", IF obj[o].drop \/ obj[o].data = 0 THEN "drop" ELSE "release")
    /\ UNCHANGED <<owner, global, hash, get, errors>>

(* idx -2: an error, or a timeout. *)
ReadError(o) ==
    /\ "broken" \in Faults
    /\ At(o, "reading")
    /\ get' = Told(o, 0, {}, "error")
    /\ obj' = Freed([obj EXCEPT ![o] = Left(o, [obj[o] EXCEPT !.fetching = FALSE])])
    /\ Stage(o, "reading", "drop")
    /\ errors' = TRUE
    /\ UNCHANGED <<owner, global, hash>>

(* arc_drop_resource or arc_release_resource, after obj->lock is released. *)
ReadDrop(o) ==
    /\ At(o, "drop")
    /\ obj' = Freed([obj EXCEPT ![o] = Dropped(o, obj[o])])
    /\ DropHash(o)
    /\ ReaderEnds(o, "drop")
    /\ UNCHANGED <<owner, global, get, errors>>

ReadRelease(o) ==
    /\ At(o, "release")
    /\ obj' = Released(o)
    /\ ReaderEnds(o, "release")
    /\ UNCHANGED <<owner, global, hash, get, errors>>
-----------------------------------------------------------------------------
Lookup(g) == LookupFound(g) \/ LookupNew(g)
DoFetch(g) == \/ FetchNothing(g) \/ FetchFromPeer(g) \/ FetchRefused(g)
              \/ FetchLocal(g) \/ FetchNotFound(g) \/ FetchStorageError(g)
Use(g) == UseEvicted(g) \/ UseComplete(g) \/ UseListen(g)
Getter(g) == Lookup(g) \/ Check(g) \/ Move(g) \/ DoFetch(g) \/ Link(g) \/ Use(g)
ReadEnd(o) == ReadDone(o) \/ ReadError(o)
Reader(o) == ReadChunk(o) \/ ReadEnd(o) \/ ReadClose(o) \/ ReadDrop(o) \/ ReadRelease(o)

Ended == {"ok", "error", "failed", "gone", "leaked"}

Next == (\E g \in Getters : Getter(g)) \/ (\E o \in Objs : Reader(o)) \/ Remove

Spec == Init /\ [][Next]_vars

(* A thread inside a call goes on; a call need not be made.  The async reader
   goes on, and an answer ends: with its last record, with an error, or when
   the reader's timeout fires. *)
Fairness ==
    /\ \A g \in Getters : WF_vars(get[g].pc # "idle" /\ Getter(g))
    /\ \A o \in Objs : WF_vars(ReadEnd(o)) /\ WF_vars(Reader(o))

FairSpec == Spec /\ Fairness
-----------------------------------------------------------------------------
(* Properties *)

(* Who holds a reference to o: the hash table, the calls that work with it or
   listen to it, the async reader that fills it, a lookup that lost it. *)
Holders(o) ==
    Unhashed(o)
    + Cardinality({g \in Getters : get[g].obj = o})
    + reader[o]["reading"] + reader[o]["done"] + reader[o]["drop"] + reader[o]["release"]

(* References are balanced: an object is freed when its last user is done with
   it, not before and not later, whichever of the callers, the reader and the
   cache comes last. *)
RefsBalanced == \A o \in Objs : obj[o].refs = Holders(o)

(* Who is told that the value is complete was given every chunk of it once, no
   matter when it started to listen. *)
WholeValue == \A g \in Getters : get[g].pc = "waiting" => get[g].got = obj[get[g].obj].data

(* No caller is told twice that its value is complete, or that it failed, not
   even when an object is fetched again. *)
OneFinal == \A g \in Getters : get[g].finals <= 1

(* As long as no fetch failed half way, an object that has listeners has
   somebody who will call them: the async reader, or the thread that is about
   to fetch the object. *)
ListenersServed ==
    ~ errors =>
    \A o \in Objs : obj[o].listeners # {} =>
        \/ At(o, "reading")
        \/ \E g \in Getters : get[g].obj = o /\ get[g].pc \in {"move", "fetch"}

(* A call that began is answered, or returns an error: nobody waits forever. *)
EveryGetAnswered ==
    \A g \in Getters : (get[g].pc # "idle") ~> (get[g].pc \in Ended)

(* As long as no storage and no peer fails in the middle of a fetch, a call
   that began is answered, or returns an error, also when peers cannot be
   reached, other callers go away and the object is removed meanwhile. *)
AnsweredUnlessError == [](~ errors) => EveryGetAnswered
=============================================================================
