------------------------------- MODULE Client -------------------------------
(* The client library (src/shardcache_client.c).  The thread of the caller runs
   one command after the other, single ones and get_multi/set_multi, which send
   many requests over several connections and then collect the answers.  The
   calls getf and get_multif leave a job to a thread of the client, async_thread,
   and return a pipe that it writes to.  The two threads share the pool of
   connections.

   Any node may own the key of a call, and the node of random_node mode may be
   any node: select_node picks one.  When that cannot be reached, select_other_node
   picks another but returns the address it was given, so that nobody connects to
   it.  The pipes of the jobs never fill up, and the client is not destroyed. *)
EXTENDS Connections

CONSTANTS
    PipelineMax,    \* c->pipeline_max
    Calls,          \* the single commands called
    Owners,         \* for the calls with many keys, the node of each key
    MaxCalls,       \* bound on the commands the caller's thread runs
    MaxJobs         \* bound on the jobs it leaves to async_thread

ASSUME ClientBounds ==
    /\ PipelineMax \in Nat /\ MaxCalls \in Nat /\ MaxJobs \in Nat
    /\ \A o \in Owners : o \in Seq(Nodes) /\ o # << >>
    /\ \A c \in Calls : c.cmd \in Commands /\ \A todo \in c.to : todo \in Seq(Nodes) /\ todo # << >>

VARIABLES
    call,           \* the single command the caller's thread runs
    task,           \* task[0]: its get_multi or set_multi; the others: the jobs
    put,            \* put[a]: the connections thread a is done with, and the one it adds
    broken,         \* async_thread goes on with a job it has destroyed
    calls           \* history: how many commands were called

clientVars == <<sock, spare, call, task, put, broken, calls>>

Tasks == 0 .. MaxJobs
Actors == {"main", "async"}
Actor(t) == IF t = 0 THEN "main" ELSE "async"

NoCall == [pc |-> "idle", cmd |-> "none", todo |-> << >>, fd |-> NoFd]
NoTask == [st |-> "none", cmd |-> "none", todo |-> << >>, ctxs |-> << >>]
NoPut == [queue |-> << >>, push |-> NoFd]
Spent(f, keep) == [fd |-> f, keep |-> keep]

ClientInit ==
    /\ ConnectionsInit
    /\ call = NoCall
    /\ task = [t \in Tasks |-> NoTask]
    /\ put = [a \in Actors |-> NoPut]
    /\ broken = FALSE
    /\ calls = 0

(* Thread a has no connections to give back or to close. *)
Free(a) == put[a] = NoPut

(* The caller may call. *)
Ready == call.pc = "idle" /\ task[0].st = "none" /\ Free("main")

-----------------------------------------------------------------------------
(* Connections go back to the pool, or are closed *)

(* The next one of thread a is f, to be kept or not. *)
IsNext(a, f, keep) ==
    put[a].push = NoFd /\ put[a].queue # << >> /\ Head(put[a].queue) = Spent(f, keep)

(* shc_multi_context_destroy, and async_job_destroy for a getf. *)
Discard(a) ==
    /\ \E f \in Fds : IsNext(a, f, FALSE) /\ sock' = [sock EXCEPT ![f] = Closed]
    /\ put' = [put EXCEPT ![a].queue = Tail(@)]
    /\ UNCHANGED <<spare, call, task, broken, calls>>

(* connections_pool_add, up to the test. *)
Count(a) ==
    /\ \E f \in Fds :
          /\ IsNext(a, f, TRUE)
          /\ put' = [put EXCEPT ![a] = [queue |-> Tail(@.queue),
                                       push |-> IF Room(sock[f].node) THEN f ELSE NoFd]]
          /\ sock' = IF Room(sock[f].node) THEN sock ELSE [sock EXCEPT ![f] = Closed]
    /\ UNCHANGED <<spare, call, task, broken, calls>>

(* The rest of it. *)
Push(a) ==
    /\ put[a].push # NoFd
    /\ queue_push_right(put[a].push)
    /\ put' = [put EXCEPT ![a].push = NoFd]
    /\ UNCHANGED <<sock, call, task, broken, calls>>

-----------------------------------------------------------------------------
(* Single commands *)

(* The nodes a command may be sent to: select_node finds the one that owns the
   key, shardcache_get_node the one that has a name, and the two commands about
   a migration go to all of them, in their order. *)
select_node == {<<n>> : n \in Nodes}
shardcache_get_node == {<<n>> : n \in Nodes}
EachNode == {CHOOSE s \in [1 .. Cardinality(Nodes) -> Nodes] : \A n \in Nodes : \E i \in DOMAIN s : s[i] = n}

shardcache_client_get == [cmd |-> "get", to |-> select_node]
shardcache_client_get_async == [cmd |-> "get_async", to |-> select_node]
shardcache_client_offset == [cmd |-> "offset", to |-> select_node]
shardcache_client_exists == [cmd |-> "exists", to |-> select_node]
shardcache_client_touch == [cmd |-> "touch", to |-> select_node]
shardcache_client_set_internal == [cmd |-> "set", to |-> select_node]
shardcache_client_increment == [cmd |-> "increment", to |-> select_node]
shardcache_client_decrement == [cmd |-> "increment", to |-> select_node]
shardcache_client_del == [cmd |-> "delete", to |-> select_node]
shardcache_client_evict == [cmd |-> "delete", to |-> select_node]
shardcache_client_stats == [cmd |-> "stats", to |-> shardcache_get_node]
shardcache_client_check == [cmd |-> "check", to |-> shardcache_get_node]
shardcache_client_index == [cmd |-> "index", to |-> shardcache_get_node]
shardcache_client_migration_begin == [cmd |-> "migrate", to |-> EachNode]
shardcache_client_migration_abort == [cmd |-> "abort", to |-> EachNode]

(* Command cmd begins with the first of the nodes todo. *)
Connect(cmd, todo) ==
    \E r \in connections_pool_get(Head(todo), sock, spare) :
        /\ sock' = r.sock /\ spare' = r.spare
        /\ call' = IF r.fd = NoFd THEN NoCall
                   ELSE [pc |-> "write", cmd |-> cmd, todo |-> todo, fd |-> r.fd]

Call(c) ==
    /\ Ready /\ calls < MaxCalls
    /\ \E todo \in c.to : Connect(c.cmd, todo)
    /\ calls' = calls + 1
    /\ UNCHANGED <<task, put, broken>>

(* The loop of migration_begin or migration_abort. *)
NextNode ==
    /\ call.pc = "next" /\ Free("main")
    /\ Connect(call.cmd, call.todo)
    /\ UNCHANGED <<task, put, broken, calls>>

\* Mutated: a command without an answer keeps its connection.
MutantReturn(rc, s, missed) ==
    /\ sock' = [sock EXCEPT ![call.fd] = s]
    /\ put' = [put EXCEPT !["main"].queue = Append(@, Spent(call.fd, TRUE))]
    /\ call' = NoCall
    /\ UNCHANGED <<spare, task, broken, calls>>

(* The command is over and leaves the connection as s.  After an error the
   connection is closed; migration_begin and migration_abort go on to the next
   node only if there was none. *)
Return(rc, s, missed) ==
    /\ sock' = [sock EXCEPT ![call.fd] =
                   IF rc = "error" THEN Closed
                   ELSE [s EXCEPT !.quiet = @ \/ missed, !.lost = rc = "lost"]]
    /\ put' = IF rc = "ok" THEN [put EXCEPT !["main"].queue = Append(@, Spent(call.fd, TRUE))] ELSE put
    /\ call' = IF rc = "crash" THEN [call EXCEPT !.pc = "crashed"]
               ELSE IF rc = "ok" /\ Len(call.todo) > 1
               THEN [call EXCEPT !.pc = "next", !.todo = Tail(@), !.fd = NoFd]
               ELSE NoCall
    /\ UNCHANGED <<spare, task, broken, calls>>

(* write_message.  What is written to a connection the node has closed may be
   refused or not. *)
Write ==
    /\ call.pc = "write"
    /\ sock' = [sock EXCEPT ![call.fd].wire = Append(@, call.cmd)]
    /\ call' = [call EXCEPT !.pc = "read"]
    /\ UNCHANGED <<spare, task, put, broken, calls>>

(* fetch_from_peer_async returns without having called anybody back, and
   shardcache_client_get_async returns its error. *)
WriteFails ==
    /\ call.pc = "write" /\ ~ sock[call.fd].up
    /\ \E rc \in Outcomes(call.cmd, Unsent) : Return(rc, sock[call.fd], TRUE)

(* The next answer is there: the node sent it before it closed the connection,
   if it did. *)
Readable(f) ==
    /\ sock[f].wire # << >> /\ ~ sock[f].torn
    /\ sock[f].up \/ Len(sock[f].wire) > 1

(* read_message and what the command makes of it. *)
Read ==
    /\ call.pc = "read" /\ Readable(call.fd)
    /\ \E a \in Answers(Head(sock[call.fd].wire)) : \E rc \in Outcomes(call.cmd, a) :
          Return(rc, IF read_message_cuts(call.cmd, a) THEN [sock[call.fd] EXCEPT !.torn = TRUE]
                     ELSE [sock[call.fd] EXCEPT !.wire = Tail(@)], FALSE)

(* The answer does not come in time, or comes between the attempts to read its
   first byte and the next three, which are then taken for the wrong ones. *)
ReadTimeout ==
    /\ call.pc = "read" /\ sock[call.fd].up /\ ~ sock[call.fd].torn /\ Impatient(call.cmd)
    /\ \E torn \in BOOLEAN : \E rc \in Outcomes(call.cmd, NoAnswer) :
          Return(rc, [sock[call.fd] EXCEPT !.torn = torn], TRUE)

(* The node has closed the connection. *)
ReadEof ==
    /\ call.pc = "read" /\ ~ sock[call.fd].up
    /\ \E rc \in Outcomes(call.cmd, NoAnswer) : Return(rc, sock[call.fd], TRUE)

(* What is left of an answer has a wrong magic; reading it may take the rest. *)
ReadTorn ==
    /\ call.pc = "read" /\ sock[call.fd].torn
    /\ \E s \in {sock[call.fd], [sock[call.fd] EXCEPT !.torn = FALSE, !.wire = Tail(@)]} :
       \E rc \in Outcomes(call.cmd, WrongMagic) : Return(rc, s, TRUE)

-----------------------------------------------------------------------------
(* Commands with many keys, and jobs *)

(* A key for node n: a new list of keys is put in front when the first one of the
   node has too many, or there is none. *)
AddKey(pools, n) ==
    LET IsFirst(i) == pools[i].node = n /\ \A j \in 1 .. i - 1 : pools[j].node # n
        fits == \E i \in DOMAIN pools : IsFirst(i) /\ pools[i].num <= PipelineMax
    IN IF fits THEN [i \in DOMAIN pools |->
                        IF IsFirst(i) THEN [pools[i] EXCEPT !.num = @ + 1] ELSE pools[i]]
       ELSE <<[node |-> n, num |-> 1]>> \o pools

(* The keys of a call by the node they go to, as a list of [node, num]. *)
shc_split_buckets(owners) ==
    LET pools[k \in 0 .. Len(owners)] ==
            IF k = 0 THEN << >> ELSE AddKey(pools[k - 1], owners[k])
    IN pools[Len(owners)]

Requests(st, cmd, todo) == [st |-> st, cmd |-> cmd, todo |-> todo, ctxs |-> << >>]

shardcache_client_multi(cmd, owners) ==
    /\ Ready /\ calls < MaxCalls
    /\ task' = [task EXCEPT ![0] = Requests("send", cmd, shc_split_buckets(owners))]
    /\ calls' = calls + 1
    /\ UNCHANGED <<sock, spare, call, put, broken>>

(* shardcache_client_getf and shardcache_client_get_multif: the jobs are numbered
   in the order of the queue. *)
Leave(job) ==
    /\ Ready
    /\ \E t \in Tasks \ {0} :
          /\ task[t].st = "none" /\ \A u \in 1 .. t - 1 : task[u].st # "none"
          /\ task' = [task EXCEPT ![t] = job]
    /\ UNCHANGED <<sock, spare, call, put, broken, calls>>

getf(n) == Leave(Requests("queued", "get_async", <<[node |-> n, num |-> 1]>>))
get_multif(owners) == Leave(Requests("queued", "get", shc_split_buckets(owners)))

(* async_thread takes the next job. *)
Take(t) ==
    /\ task[t].st = "queued" /\ Free("async") /\ ~ broken
    /\ \A u \in Tasks \ {0} : task[u].st # "send" /\ (task[u].st = "queued" => u >= t)
    /\ task' = [task EXCEPT ![t].st = "send"]
    /\ UNCHANGED <<sock, spare, call, put, broken, calls>>

(* Task t is over, with contexts ctxs and the connections as ss: those with all
   their answers are given back, the others closed, one after the other, and that
   of a getf too. *)
EndTask(t, ctxs, ss) ==
    /\ sock' = ss
    /\ put' = [put EXCEPT ![Actor(t)].queue = @ \o
                  [i \in DOMAIN ctxs |-> Spent(ctxs[i].fd, /\ ctxs[i].idx = ctxs[i].num
                                                         /\ task[t].cmd # "get_async")]]
    /\ task' = [task EXCEPT ![t] = IF t = 0 THEN NoTask ELSE Requests("ended", @.cmd, << >>)]

(* connections_pool_get for task t: a call with many keys tries twice. *)
Attempts(t) ==
    LET n == Head(task[t].todo).node
        first == connections_pool_get(n, sock, spare)
    IN IF task[t].cmd = "get_async" THEN first
       ELSE UNION {IF r.fd # NoFd THEN {r} ELSE connections_pool_get(n, r.sock, r.spare) : r \in first}

\* Mutated: a job whose node is out of reach is forgotten.
MutantSendFails(t) ==
    /\ task[t].st = "send" /\ task[t].todo # << >>
    /\ \E r \in Attempts(t) : r.fd = NoFd /\ spare' = r.spare /\ sock' = r.sock
    /\ task' = [task EXCEPT ![t] = Requests("lost", @.cmd, << >>)]
    /\ UNCHANGED <<call, put, broken, calls>>

(* shardcache_client_multi_send_requests: one bucket cannot be sent, and the
   connections of the others are closed.  async_thread goes on with a getf it
   has destroyed. *)
SendFails(t) ==
    /\ task[t].st = "send" /\ task[t].todo # << >>
    /\ \E r \in Attempts(t) :
          r.fd = NoFd /\ spare' = r.spare /\ EndTask(t, task[t].ctxs, r.sock)
    /\ broken' = (broken \/ task[t].cmd = "get_async")
    /\ UNCHANGED <<call, calls>>

(* The requests of one bucket are sent. *)
Send(t) ==
    /\ task[t].st = "send" /\ task[t].todo # << >>
    /\ \E r \in Attempts(t) :
          LET b == Head(task[t].todo) IN
          /\ r.fd # NoFd /\ spare' = r.spare
          /\ sock' = [r.sock EXCEPT ![r.fd].wire = @ \o [i \in 1 .. b.num |-> task[t].cmd]]
          /\ task' = [task EXCEPT ![t].todo = Tail(@),
                         ![t].ctxs = Append(@, [fd |-> r.fd, num |-> b.num, idx |-> 0, open |-> TRUE])]
    /\ UNCHANGED <<call, put, broken, calls>>

(* All the requests are sent: from here on the answers are waited for. *)
Run(t) ==
    /\ task[t].st = "send" /\ task[t].todo = << >>
    /\ task' = [task EXCEPT ![t].st = "run"]
    /\ UNCHANGED <<sock, spare, call, put, broken, calls>>

(* The thread of task t runs its iomux. *)
Looping(t) ==
    /\ task[t].st = "run" /\ Free(Actor(t))
    /\ Actor(t) = "async" => ~ broken /\ \A u \in Tasks \ {0} : task[u].st # "send"

(* Context i of task t is as c now, and the connections as ss; the task is over
   when no context waits. *)
UpdateContext(t, i, c, ss) ==
    LET ctxs == [task[t].ctxs EXCEPT ![i] = c]
    IN IF \A j \in DOMAIN ctxs : ~ ctxs[j].open
       THEN EndTask(t, ctxs, ss)
       ELSE sock' = ss /\ task' = [task EXCEPT ![t].ctxs = ctxs] /\ UNCHANGED put

(* After its last answer a context may have read a part of what follows. *)
Leftovers(s) ==
    {[s EXCEPT !.wire = SubSeq(@, k + 1, Len(@))] : k \in 0 .. Len(s.wire)}
      \cup {[s EXCEPT !.wire = SubSeq(@, k + 1, Len(@)), !.torn = TRUE] : k \in 0 .. Len(s.wire) - 1}

(* shc_multi_fetch_response, or read_async_input_data for a getf: one answer. *)
Receive(t, i) ==
    LET c == task[t].ctxs[i]
        s == sock[c.fd]
        rest == [s EXCEPT !.wire = Tail(@)]
        last == c.idx + 1 = c.num
    IN /\ Looping(t) /\ c.open /\ ~ s.torn /\ s.wire # << >>
       /\ s.up \/ Len(s.wire) > c.num - c.idx
       /\ \E left \in IF last THEN Leftovers(rest) ELSE {rest} :
             UpdateContext(t, i, [c EXCEPT !.idx = @ + 1, !.open = ~ last], [sock EXCEPT ![c.fd] = left])
       /\ UNCHANGED <<spare, call, broken, calls>>

(* shc_multi_eof or shc_multi_timeout: the node closed the connection, or was
   silent for too long, or sent what is not an answer.  The same for a getf. *)
Drop(t, i) ==
    /\ Looping(t) /\ task[t].ctxs[i].open
    /\ UpdateContext(t, i, [task[t].ctxs[i] EXCEPT !.open = FALSE], sock)
    /\ UNCHANGED <<spare, call, broken, calls>>

(* shardcache_client_multi_loop: nothing came for multi_command_max_wait. *)
GiveUp ==
    /\ Looping(0)
    /\ EndTask(0, task[0].ctxs, sock)
    /\ UNCHANGED <<spare, call, broken, calls>>

-----------------------------------------------------------------------------
(* A node closes a connection, or ends. *)
NodeCloses(f) ==
    /\ IsOpen(f) /\ sock[f].up
    /\ sock' = [sock EXCEPT ![f].up = FALSE]
    /\ UNCHANGED <<spare, call, task, put, broken, calls>>

Single == NextNode \/ Write \/ WriteFails \/ Read \/ ReadTimeout \/ ReadEof \/ ReadTorn
Collect(t) == \E i \in DOMAIN task[t].ctxs : Receive(t, i) \/ Drop(t, i)
AsyncThread ==
    \/ Discard("async") \/ Count("async") \/ Push("async")
    \/ \E t \in Tasks \ {0} : Take(t) \/ Send(t) \/ SendFails(t) \/ Run(t) \/ Collect(t)

ClientNext ==
    /\ call.pc # "crashed"
    /\ \/ \E c \in Calls : Call(c)
       \/ \E o \in Owners : \E cmd \in {"get", "set"} : shardcache_client_multi(cmd, o)
       \/ \E n \in Nodes : getf(n)
       \/ \E o \in Owners : get_multif(o)
       \/ Single
       \/ Discard("main") \/ Count("main") \/ Push("main") \/ Send(0) \/ SendFails(0) \/ Run(0)
       \/ Collect(0) \/ GiveUp
       \/ AsyncThread
       \/ \E f \in Fds : NodeCloses(f)

(* async_thread runs; its contexts get their answers or time out. *)
ClientSpec ==
    /\ ClientInit /\ [][ClientNext]_clientVars
    /\ WF_clientVars(AsyncThread /\ call.pc # "crashed")

-----------------------------------------------------------------------------
(* What holds descriptor f: the places where it is to be used, given back or
   closed. *)
Holders(f) ==
    LET inPool == UNION {{<<"spare", n, i>> : i \in {j \in DOMAIN spare[n] : spare[n][j] = f}} : n \in Nodes}
        inQueue == UNION {{<<"put", a, i>> :
                              i \in {j \in DOMAIN put[a].queue : put[a].queue[j].fd = f}} : a \in Actors}
        pushed == {<<"push", a, 1>> : a \in {b \in Actors : put[b].push = f}}
        inTask == UNION {{<<"task", t, i>> :
                             i \in {j \in DOMAIN task[t].ctxs : task[t].ctxs[j].fd = f}} : t \in Tasks}
        inCall == IF call.fd = f THEN {<<"call", "main", 1>>} ELSE {}
    IN inPool \cup inQueue \cup pushed \cup inTask \cup inCall

(* The user of f waits for the answers of ks, in their order. *)
Awaits(f, ks) ==
    \/ ks = << >>
    \/ call.fd = f /\ call.pc = "read" /\ ks = <<call.cmd>>
    \/ \E t \in Tasks : \E i \in DOMAIN task[t].ctxs :
          /\ task[t].ctxs[i].fd = f
          /\ Len(ks) <= task[t].ctxs[i].num - task[t].ctxs[i].idx
          /\ \A j \in DOMAIN ks : ks[j] = task[t].cmd

(* f is to be closed. *)
Discarded(f) == \E a \in Actors : \E i \in DOMAIN put[a].queue : put[a].queue[i] = Spent(f, FALSE)

(* INVARIANT: an open connection belongs to one place, and nobody keeps the
   number of a closed one.  Both threads take connections from the pool, give
   them back and close them on their errors: two users of a descriptor would read
   each other's answers, and one without a user is never closed.  The exception
   is shardcache_client_get_async, which returns without the connection when it
   cannot write the request (src/shardcache_client.c:730). *)
OneHolder ==
    \A f \in Fds :
        IF IsOpen(f) /\ ~ sock[f].lost THEN \E h \in Holders(f) : Holders(f) = {h}
        ELSE Holders(f) = {}

(* INVARIANT: nobody reads the answer to a request of somebody else.  The answers
   under way on a connection are some of those its user waits for, and a spare one
   has none: a connection with an answer that did not come in time is closed.  The
   exception are the connections of a DELETE, EVICT, EXISTS, TOUCH or INDEX that
   did not get its answer and said that it had. *)
OwnAnswer ==
    \A f \in Fds :
        IsOpen(f) /\ ~ sock[f].quiet /\ ~ Discarded(f) =>
            ~ sock[f].torn /\ Awaits(f, sock[f].wire)

(* INVARIANT: connections_pool_add keeps at most max_spare connections to a node,
   and one more only when both threads counted before either added. *)
SpareBound == \A n \in Nodes : Len(spare[n]) <= MaxSpare + 1

(* LIVENESS: a job that getf or get_multif left to async_thread ends, and its
   pipe is closed, whatever its nodes do: a reader of the pipe is not left
   waiting, unless async_thread has lost its way in a getf without a
   connection, or the process is gone. *)
JobsEnd ==
    \A t \in Tasks \ {0} :
        task[t].st = "queued" ~> task[t].st = "ended" \/ broken \/ call.pc = "crashed"
=============================================================================
