---------------------------- MODULE Connections ----------------------------
(* The connections to the nodes: the pool that keeps spare ones
   (src/connections_pool.c) and the commands that are sent over one of them and
   wait for the answer (src/messaging.c).  Client.tla calls both.

   A connection carries requests one way and answers the other, in order and
   with nothing that says which answer belongs to which request.  wire has the
   commands whose answers nobody has taken yet, so that the first of them is
   the one whose answer comes next, whoever reads it.

   The pool checks a connection before it hands it out only if
   connections_pool_check was called, which nobody does. *)
EXTENDS Integers, Sequences, FiniteSets

CONSTANTS
    Nodes,          \* the nodes, each with one address
    Fds,            \* the descriptors the process may have open
    MaxSpare        \* cc->max_spare

ASSUME ConnectionsBounds == Fds \subseteq Nat \ {0} /\ IsFiniteSet(Fds) /\ MaxSpare \in Nat

NoFd == 0
NoNode == "none"

ASSUME NodesAssumption == NoNode \notin Nodes

VARIABLES
    sock,           \* sock[f]: the connection of descriptor f
    spare           \* spare[n]: the queue of connections to n in cc->table

(* node: who is at the other end; up: it has not closed the connection; torn:
   somebody read a part of an answer only.  History: quiet, a command that got no
   answer was called a success; lost, a call returned and forgot to close it. *)
Closed == [node |-> NoNode, up |-> FALSE, torn |-> FALSE, wire |-> << >>,
           quiet |-> FALSE, lost |-> FALSE]
Opened(n) == [Closed EXCEPT !.node = n, !.up = TRUE]

IsOpen(f) == sock[f].node # NoNode

ConnectionsInit ==
    /\ sock = [f \in Fds |-> Closed]
    /\ spare = [n \in Nodes |-> << >>]

(* A call may find its node out of reach. *)
Unreachable(ss, sp) == [fd |-> NoFd, sock |-> ss, spare |-> sp]

-----------------------------------------------------------------------------
(* connections_pool.c *)

(* connect_to_peer and open_connection, when there are descriptors left: the
   system gives out the lowest of them. *)
connect_to_peer(n, ss, sp) ==
    LET free == {f \in Fds : ss[f].node = NoNode}
        lowest == {f \in free : \A g \in free : f <= g}
    IN {Unreachable(ss, sp)} \cup
       {[fd |-> f, sock |-> [ss EXCEPT ![f] = Opened(n)], spare |-> sp] : f \in lowest}

(* ht_foreach_value(cc->table, connections_queue_empty, NULL) *)
connections_queue_empty(ss, sp) ==
    [f \in Fds |-> IF \E n \in Nodes : \E i \in DOMAIN sp[n] : sp[n][i] = f THEN Closed ELSE ss[f]]

\* Mutated: the spare ones are closed and stay in the table.
MutantPoolGet(n, ss, sp) ==
    IF sp[n] # << >>
    THEN {[fd |-> Head(sp[n]), sock |-> ss, spare |-> [sp EXCEPT ![n] = Tail(@)]]}
    ELSE IF \E f \in Fds : ss[f].node = NoNode
    THEN connect_to_peer(n, ss, sp)
    ELSE connect_to_peer(n, connections_queue_empty(ss, sp), sp)

(* What connections_pool_get may return and leave behind.  Without a descriptor
   for a new connection, all the spare ones are closed first. *)
connections_pool_get(n, ss, sp) ==
    IF sp[n] # << >>
    THEN {[fd |-> Head(sp[n]), sock |-> ss, spare |-> [sp EXCEPT ![n] = Tail(@)]]}
    ELSE IF \E f \in Fds : ss[f].node = NoNode
    THEN connect_to_peer(n, ss, sp)
    ELSE connect_to_peer(n, connections_queue_empty(ss, sp), [m \in Nodes |-> << >>])

\* Mutated: counts the connection that is there as none.
MutantRoom(n) == Len(spare[n]) <= MaxSpare

(* connections_pool_add asks for the length of the queue ... *)
Room(n) == Len(spare[n]) < MaxSpare

(* ... and then adds to it, without a lock around the two. *)
queue_push_right(f) == spare' = [spare EXCEPT ![sock[f].node] = Append(@, f)]

-----------------------------------------------------------------------------
(* messaging.c: the commands.  "set" stands for SET, ADD and CAS, "increment"
   for DECREMENT too, "delete" for EVICT. *)

Commands == {"get", "offset", "set", "increment", "delete", "exists", "touch", "stats", "check",
             "index", "migrate", "abort", "get_async"}

(* What a node answers to command k: the records of a GET are the value and a
   status, an error has the first only. *)
Answers(k) ==
    CASE k \in {"get", "get_async"} -> {[hdr |-> "response", n |-> 2, ok |-> TRUE],
                                        [hdr |-> "response", n |-> 1, ok |-> FALSE]}
      [] k = "offset" -> {[hdr |-> "response", n |-> 3, ok |-> TRUE],
                          [hdr |-> "response", n |-> 1, ok |-> FALSE]}
      [] k = "index" -> {[hdr |-> "index", n |-> 1, ok |-> TRUE]}
      [] OTHER -> [hdr : {"response"}, n : {1}, ok : BOOLEAN]

(* What a command sees when write_message fails, when no answer comes, and when
   what comes does not begin with the magic. *)
Unsent == [hdr |-> "unsent", n |-> 0, ok |-> FALSE]
NoAnswer == [hdr |-> "none", n |-> 0, ok |-> FALSE]
WrongMagic == [hdr |-> "wrong", n |-> 0, ok |-> FALSE]

(* expected_records, how many records the command makes read_message read. *)
Expected(cmd) == CASE cmd \in {"get", "set", "increment"} -> 2 [] cmd = "offset" -> 3 [] OTHER -> 1

(* read_message stops when there are more, and leaves the rest; the async reader
   reads all of an answer. *)
read_message_cuts(cmd, a) == cmd # "get_async" /\ a.n > Expected(cmd)

(* What it returns then is one more than the command asked for. *)
IsResponse(a, n) == a.hdr = "response" /\ a.n = n

(* The status is the first record.  That of a GET, which a command may read by
   mistake, holds anything. *)
StatusOf(a) == IF a.n > 1 THEN {"ok", "error"} ELSE {IF a.ok THEN "ok" ELSE "error"}

(* How each command ends on a: "error" is -1.  The ones that wait for nothing but
   the success of write_message, or not even for that, are "ok" without an
   answer; strtoll crashes on the number that an INCREMENT did not get. *)
fetch_from_peer(a) == {IF IsResponse(a, 2) THEN "ok" ELSE "error"}
offset_from_peer(a) == {IF IsResponse(a, 3) THEN "ok" ELSE "error"}
send_to_peer(a) == IF a.hdr = "response" THEN StatusOf(a) ELSE {"error"}
increment_on_peer(a) ==
    {CASE a.hdr = "response" -> "ok" [] a.hdr \in {"none", "wrong"} -> "crash" [] OTHER -> "error"}
delete_from_peer(a) ==
    IF IsResponse(a, 1) THEN StatusOf(a) ELSE {IF a.hdr = "unsent" THEN "error" ELSE "ok"}
exists_on_peer(a) == IF IsResponse(a, 1) THEN StatusOf(a) ELSE {"ok"}
touch_on_peer(a) == IF IsResponse(a, 1) THEN StatusOf(a) ELSE {"ok"}
stats_from_peer(a) == {IF IsResponse(a, 1) THEN "ok" ELSE "error"}
check_peer(a) == IF IsResponse(a, 1) THEN StatusOf(a) ELSE {"error"}
index_from_peer(a) == {"ok"}
migrate_peer(a) == {IF IsResponse(a, 1) THEN "ok" ELSE "error"}
abort_migrate_peer(a) == IF IsResponse(a, 1) THEN StatusOf(a) ELSE {"error"}

(* read_message_async looks at the state of its context when that is free already,
   and after a wrong magic the argument of the callback is freed twice. *)
read_message_async(a) ==
    CASE a.hdr = "none" -> {"error"} [] a.hdr = "wrong" -> {"error", "crash"} [] OTHER -> {"ok"}

(* Without a request fetch_from_peer_async calls nobody back, and the
   connection it was given is not closed. *)
fetch_from_peer_async(a) == IF a.hdr = "unsent" THEN {"lost"} ELSE read_message_async(a)

Outcomes(cmd, a) ==
    CASE cmd = "get" -> fetch_from_peer(a)
      [] cmd = "offset" -> offset_from_peer(a)
      [] cmd = "set" -> send_to_peer(a)
      [] cmd = "increment" -> increment_on_peer(a)
      [] cmd = "delete" -> delete_from_peer(a)
      [] cmd = "exists" -> exists_on_peer(a)
      [] cmd = "touch" -> touch_on_peer(a)
      [] cmd = "stats" -> stats_from_peer(a)
      [] cmd = "check" -> check_peer(a)
      [] cmd = "index" -> index_from_peer(a)
      [] cmd = "migrate" -> migrate_peer(a)
      [] cmd = "abort" -> abort_migrate_peer(a)
      [] cmd = "get_async" -> fetch_from_peer_async(a)

(* May read_message give up?  index_from_peer ignores timeouts. *)
Impatient(cmd) == cmd # "index"
=============================================================================
