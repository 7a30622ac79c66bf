------------------------------ MODULE MCClient ------------------------------
(* The client with two nodes and its commands; of those that end alike on every
   answer one is taken: EXISTS for TOUCH, the abort of a migration for CHECK and
   its begin for STATS.  The calls with many keys have three of them for one node,
   which are two buckets. *)
EXTENDS Client

MCCalls ==
    {shardcache_client_get, shardcache_client_get_async, shardcache_client_offset,
     shardcache_client_exists, shardcache_client_set_internal,
     shardcache_client_increment, shardcache_client_decrement, shardcache_client_del,
     shardcache_client_evict, shardcache_client_index, shardcache_client_migration_begin,
     shardcache_client_migration_abort}
MCOwners == {<<"n1", "n1", "n1">>}
=============================================================================
