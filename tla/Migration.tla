----------------------------- MODULE Migration -----------------------------
(* A migration (src/shardcache.c): the nodes go from the old continuum to a new
   one.  A node that has begun has both, and a thread that copies the keys it has
   to give away to their new owners and then removes them.  Writes to a key are
   sent on to its owner, by the new continuum where there is a migration.  Nodes
   begin, abort and end on their own, as an administrator tells them to.

   Keys are in the storages of their owners.  Volatile items, which a migration
   does not copy, and caches are left out, and so are continua with one node.
   migration_lock makes one action of what is done under it.  Ownership is tested
   under it, and when the migration is found complete it is ended, which takes
   the lock once more: the thread then waits for itself, and all who come after it
   wait for it (stuck). *)
EXTENDS Integers, FiniteSets

CONSTANTS
    Nodes,          \* the nodes, those that join or leave included
    Joining,        \* those that are started with the new continuum
    Keys,
    Old, New,       \* the owner of each key in the two continua
    Writers,        \* the SETs and DELETEs of clients
    Entry,          \* the nodes clients send them to
    WrittenKeys,    \* the keys they are for
    FirstVal,       \* the value every key has in the beginning
    NoVal,          \* no value
    MaxBegins       \* bound on the migrations the nodes begin

ASSUME Continua ==
    /\ Old \in [Keys -> Nodes] /\ New \in [Keys -> Nodes]
    /\ Joining \cup Entry \subseteq Nodes /\ \A k \in Keys : Old[k] \notin Joining
    /\ WrittenKeys \subseteq Keys
ASSUME Names ==
    /\ NoVal \notin Writers \cup {FirstVal} /\ FirstVal \notin Writers
    /\ Writers \cap (Nodes \X Keys) = {}

VARIABLES
    chash,          \* chash[n]: cache->chash, "old" or "new"
    migration,      \* migration[n]: is there a cache->migration?
    migration_done, \* cache->migration_done
    stuck,          \* a thread of n waits for the migration_lock it holds
    store,          \* store[n][k]: the value of k in the storage of n
    mig,            \* mig[n]: the migration thread of n
    request,        \* request[r]: the SET or DELETE of a client, or the copy of a key
    begins,         \* how many migrations were begun
    latest,         \* history: the value the last write of a client stored
    crossed,        \* history: the keys that were written while being moved
    returned        \* history: the keys whose copy came back to who had sent it

nodes == <<chash, migration, migration_done, stuck>>
hist == <<latest, crossed, returned>>
migrationVars == <<nodes, store, mig, request, begins, hist>>

Copies == Nodes \X Keys
Requests == Writers \cup Copies
Values == Writers \cup {FirstVal}

Idle == [pc |-> "none", todo |-> {}, key |-> "none", del |-> {}, errors |-> FALSE]
NoReq == [st |-> "none", key |-> "none", val |-> NoVal, at |-> "none"]

UnderWay(r) == request[r].st \in {"test", "test again", "store"}

MigrationInit ==
    /\ chash = [n \in Nodes |-> IF n \in Joining THEN "new" ELSE "old"]
    /\ migration = [n \in Nodes |-> FALSE]
    /\ migration_done = [n \in Nodes |-> FALSE]
    /\ stuck = [n \in Nodes |-> FALSE]
    /\ store = [n \in Nodes |-> [k \in Keys |-> IF n = Old[k] THEN FirstVal ELSE NoVal]]
    /\ mig = [n \in Nodes |-> Idle]
    /\ request = [r \in Requests |-> NoReq]
    /\ begins = 0
    /\ latest = [k \in Keys |-> FirstVal]
    /\ crossed = {} /\ returned = {}

-----------------------------------------------------------------------------
(* Ownership *)

Completed(n) == migration[n] /\ migration_done[n]

(* shardcache_test_ownership_internal can go on. *)
Testable(n) == ~ stuck[n] /\ ~ Completed(n)

(* It calls shardcache_migration_end, for any operation that comes to n. *)
Hang(n) ==
    /\ ~ stuck[n] /\ Completed(n)
    /\ stuck' = [stuck EXCEPT ![n] = TRUE]
    /\ UNCHANGED <<chash, migration, migration_done, store, mig, request, begins, hist>>

Owner(n, k) == IF chash[n] = "old" THEN Old[k] ELSE New[k]

-----------------------------------------------------------------------------
(* Writes: SET and DELETE of clients, and the SETs of the migration threads *)

Write(w, n, k, v) ==
    /\ request[w] = NoReq
    /\ request' = [request EXCEPT ![w] = [st |-> "test", key |-> k, val |-> v, at |-> n]]
    /\ UNCHANGED <<nodes, store, mig, begins, hist>>

(* The request is for node o: to be stored, or sent on, if o can be found and
   reached. *)
Route(r, o) ==
    request' = [request EXCEPT ![r] =
              [@ EXCEPT !.st = IF o = request[r].at THEN "store" ELSE "test", !.at = o]]

(* shardcache_test_migration_ownership *)
TestMigration(r) ==
    LET n == request[r].at IN
    /\ request[r].st = "test" /\ Testable(n)
    /\ IF migration[n] THEN Route(r, New[request[r].key])
       ELSE request' = [request EXCEPT ![r] = [@ EXCEPT !.st = "test again"]]
    /\ UNCHANGED <<nodes, store, mig, begins, hist>>

(* shardcache_test_ownership, when there was no migration a moment before. *)
TestOwnership(r) ==
    LET n == request[r].at IN
    /\ request[r].st = "test again" /\ Testable(n)
    /\ Route(r, Owner(n, request[r].key))
    /\ UNCHANGED <<nodes, store, mig, begins, hist>>

(* The node to send it on to is not found or not reached, or the storage fails. *)
Refused(r) ==
    /\ UnderWay(r)
    /\ request' = [request EXCEPT ![r] = [NoReq EXCEPT !.st = "failed"]]
    /\ UNCHANGED <<nodes, store, mig, begins, hist>>

(* Key k is in more than one place, or its copy under way or done: what is stored
   at node n now may be overwritten by the copy, or removed. *)
Moving(n, k) ==
    \/ \E m \in Nodes \ {n} : store[m][k] # NoVal
    \/ \E m \in Nodes : UnderWay(<<m, k>>)
    \/ k \in mig[n].del

(* storage.store or storage.remove, by whoever has found to be the owner. *)
Store(r) ==
    LET n == request[r].at
        k == request[r].key
        v == request[r].val
    IN  /\ request[r].st = "store"
        /\ store' = [store EXCEPT ![n][k] = v]
        /\ request' = [request EXCEPT ![r] = [NoReq EXCEPT !.st = "done"]]
        /\ latest' = IF r \in Writers THEN [latest EXCEPT ![k] = v] ELSE latest
        /\ crossed' = IF r \in Writers /\ Moving(n, k) THEN crossed \cup {k} ELSE crossed
        /\ returned' = IF r \notin Writers /\ n = r[1] THEN returned \cup {k} ELSE returned
        /\ UNCHANGED <<nodes, mig, begins>>

-----------------------------------------------------------------------------
(* The migration thread (migrate) *)

(* The node has this continuum already. *)
shardcache_check_migration_continuum(n) == chash[n] = "new"

(* Mutated: migration_done is not reset. *)
MutantContinuum(n) ==
    /\ ~ migration[n] /\ ~ shardcache_check_migration_continuum(n)
    /\ migration' = [migration EXCEPT ![n] = TRUE]
    /\ UNCHANGED migration_done

shardcache_set_migration_continuum(n) ==
    /\ ~ migration[n] /\ ~ shardcache_check_migration_continuum(n)
    /\ migration' = [migration EXCEPT ![n] = TRUE]
    /\ migration_done' = [migration_done EXCEPT ![n] = FALSE]

(* shardcache_migration_begin_internal starts the thread.  The administrator begins
   when the last abort has returned: its thread is joined, its copies are over. *)
Begin(n) ==
    /\ begins < MaxBegins /\ ~ stuck[n]
    /\ mig[n].pc \in {"none", "ended"} /\ \A k \in Keys : ~ UnderWay(<<n, k>>)
    /\ shardcache_set_migration_continuum(n)
    /\ mig' = [mig EXCEPT ![n] = [Idle EXCEPT !.pc = "index"]]
    /\ begins' = begins + 1
    /\ request' = [r \in Requests |-> IF r \in {n} \X Keys THEN NoReq ELSE request[r]]
    /\ UNCHANGED <<chash, stuck, store, hist>>

(* The keys of the storage, as they are now. *)
shardcache_get_index(n) ==
    /\ mig[n].pc = "index"
    /\ mig' = [mig EXCEPT ![n] =
                 [@ EXCEPT !.pc = "scan", !.todo = {k \in Keys : store[n][k] # NoVal}]]
    /\ UNCHANGED <<nodes, store, request, begins, hist>>

(* The next key: the migration was aborted or ended meanwhile and nothing more is
   done, the key stays, or it has to go. *)
Scan(n, k) ==
    /\ mig[n].pc = "scan" /\ k \in mig[n].todo /\ Testable(n)
    /\ \/ /\ ~ migration[n]
          /\ mig' = [mig EXCEPT ![n] = [@ EXCEPT !.todo = {}, !.del = {}, !.errors = TRUE]]
       \/ /\ migration[n] /\ New[k] = n
          /\ mig' = [mig EXCEPT ![n] = [@ EXCEPT !.todo = mig[n].todo \ {k}]]
       \/ /\ migration[n] /\ New[k] # n
          /\ mig' = [mig EXCEPT ![n] =
                       [@ EXCEPT !.pc = "copy", !.key = k, !.todo = mig[n].todo \ {k}]]
    /\ UNCHANGED <<nodes, store, request, begins, hist>>

(* Node o is one of the shards of n, or of those it migrates to. *)
shardcache_node_select(n, o) == o \notin Joining \/ migration[n] \/ chash[n] = "new"

(* storage.fetch and the request of send_to_peer. *)
Copy(n) ==
    LET k == mig[n].key IN
    /\ mig[n].pc = "copy" /\ store[n][k] # NoVal /\ shardcache_node_select(n, New[k])
    /\ request' = [request EXCEPT ![<<n, k>>] =
                 [st |-> "test", key |-> k, val |-> store[n][k], at |-> New[k]]]
    /\ mig' = [mig EXCEPT ![n] = [@ EXCEPT !.pc = "wait"]]
    /\ UNCHANGED <<nodes, store, begins, hist>>

(* The key has been deleted since the index was made. *)
Gone(n) ==
    /\ mig[n].pc = "copy" /\ store[n][mig[n].key] = NoVal
    /\ mig' = [mig EXCEPT ![n] = [@ EXCEPT !.pc = "scan", !.key = "none"]]
    /\ UNCHANGED <<nodes, store, request, begins, hist>>

(* send_to_peer returns 0. *)
Copied(n) ==
    LET k == mig[n].key IN
    /\ mig[n].pc = "wait" /\ request[<<n, k>>].st = "done"
    /\ mig' = [mig EXCEPT ![n] =
                 [@ EXCEPT !.pc = "scan", !.key = "none", !.del = mig[n].del \cup {k}]]
    /\ UNCHANGED <<nodes, store, request, begins, hist>>

(* Mutated: a key is removed whether or not it was copied. *)
MutantCopyFails(n) ==
    /\ mig[n].pc \in {"copy", "wait"}
    /\ mig' = [mig EXCEPT ![n] =
                 [@ EXCEPT !.pc = "scan", !.key = "none", !.del = mig[n].del \cup {mig[n].key}]]
    /\ UNCHANGED <<nodes, store, request, begins, hist>>

(* Mutated: an error is not counted when the peer does not take the key. *)
MutantUncounted(n) ==
    /\ mig[n].pc \in {"copy", "wait"}
    /\ mig' = [mig EXCEPT ![n] = [@ EXCEPT !.pc = "scan", !.key = "none"]]
    /\ UNCHANGED <<nodes, store, request, begins, hist>>

(* The storage fails, the peer is not found or not reached, refuses the key, or
   does not answer in time; the copy may arrive none the less. *)
CopyFails(n) ==
    /\ mig[n].pc \in {"copy", "wait"}
    /\ mig' = [mig EXCEPT ![n] = [@ EXCEPT !.pc = "scan", !.key = "none", !.errors = TRUE]]
    /\ UNCHANGED <<nodes, store, request, begins, hist>>

(* All keys are scanned: storage.remove of a key of to_delete. *)
Remove(n, k) ==
    /\ mig[n].pc = "scan" /\ mig[n].todo = {} /\ k \in mig[n].del
    /\ store' = [store EXCEPT ![n][k] = NoVal]
    /\ mig' = [mig EXCEPT ![n] = [@ EXCEPT !.del = mig[n].del \ {k}]]
    /\ UNCHANGED <<nodes, request, begins, hist>>

(* The thread ends, a migration that was aborted included. *)
FinishThread(n) ==
    /\ mig[n].pc = "scan" /\ mig[n].todo = {} /\ mig[n].del = {} /\ ~ stuck[n]
    /\ migration_done' = [migration_done EXCEPT ![n] = TRUE]
    /\ mig' = [mig EXCEPT ![n] = [@ EXCEPT !.pc = "ended"]]
    /\ UNCHANGED <<chash, migration, stuck, store, request, begins, hist>>

-----------------------------------------------------------------------------
(* The end of a migration *)

(* shardcache_migration_abort_internal; the thread, which it joins, finds out when
   it comes to its next key. *)
Abort(n) ==
    /\ ~ stuck[n] /\ migration[n]
    /\ migration' = [migration EXCEPT ![n] = FALSE]
    /\ UNCHANGED <<chash, migration_done, stuck, store, mig, request, begins, hist>>

(* shardcache_migration_end_internal *)
End(n) ==
    /\ ~ stuck[n] /\ migration[n]
    /\ chash' = [chash EXCEPT ![n] = "new"]
    /\ migration' = [migration EXCEPT ![n] = FALSE]
    /\ migration_done' = [migration_done EXCEPT ![n] = FALSE]
    /\ UNCHANGED <<stuck, store, mig, request, begins, hist>>

-----------------------------------------------------------------------------
Migrator(n) ==
    \/ shardcache_get_index(n) \/ Copy(n) \/ Gone(n) \/ Copied(n) \/ CopyFails(n)
    \/ FinishThread(n)
    \/ \E k \in Keys : Scan(n, k) \/ Remove(n, k)

MigrationNext ==
    \/ \E n \in Nodes : Begin(n) \/ Abort(n) \/ End(n) \/ Hang(n) \/ Migrator(n)
    \/ \E w \in Writers, n \in Entry, k \in WrittenKeys : \E v \in {w, NoVal} : Write(w, n, k, v)
    \/ \E r \in Requests : TestMigration(r) \/ TestOwnership(r) \/ Refused(r) \/ Store(r)

(* The thread runs; its timeouts are the other way out of a wait. *)
MigrationFairness == \A n \in Nodes : WF_migrationVars(Migrator(n))

MigrationSpec == MigrationInit /\ [][MigrationNext]_migrationVars /\ MigrationFairness

-----------------------------------------------------------------------------
(* Properties *)

(* What a client has stored last, or had in the beginning, is in the storage of
   some node however the migrations of the nodes overlap, fail, are aborted and
   ended (migrate removes a key only when its new owner has acknowledged it).  Two
   kinds of keys are excepted: those written while in two places or being copied
   (the copy may overwrite what was written), and those whose copy was sent back
   to its sender by a node that had not begun. *)
KeyKept ==
    \A k \in Keys \ (crossed \cup returned) :
        latest[k] # NoVal => \E n \in Nodes : store[n][k] = latest[k]

(* A migration that completes without an error in its count has moved the keys no
   client wrote: they are with their new owners and no longer here. *)
Moved ==
    \A n \in Nodes : Completed(n) /\ ~ mig[n].errors =>
        \A k \in Keys \ (crossed \cup returned) :
            Old[k] = n /\ New[k] # n /\ latest[k] = FirstVal =>
                store[n][k] = NoVal /\ store[New[k]][k] = FirstVal

(* A migration thread ends whatever its peers do: abort, end and the destruction of
   the cache join it, so that they return. *)
MigratorEnds ==
    \A n \in Nodes : (mig[n].pc = "index") ~> (mig[n].pc = "ended")
=============================================================================
