------------------------------ MODULE Serving ------------------------------
(* One connection of a node (src/serving.c).  A client pipelines requests; the
   worker thread that owns the connection parses them, starts them at once and
   writes the answers in the order of the requests.  An answer is put into the
   request's own output buffer by whoever has it: the worker itself, or, for
   what has to wait for a peer, another thread, which counts up req->done when
   the answer is whole.  The worker then destroys the request.

   The worker runs one handler of its iomux at a time.  The other threads run
   in between, also inside the output handler, which looks at done and at the
   output one after the other.  An answer is a sequence of parts: "head" and
   "data" for the values, and a "tail" (the status, or the end of the value)
   for every one. *)
EXTENDS Integers, Sequences, FiniteSets

CONSTANTS
    MaxReqs,        \* how many requests the client sends
    MaxData,        \* how many chunks a value has at most
    LookAhead,      \* cache->serving_look_ahead
    Kinds,          \* the requests, see process_request, and "bad" messages
    PeerFails,      \* may a peer go away before it has answered?
    Slow            \* may another thread take longer than a minute to answer?

ASSUME ServingBounds == MaxReqs \in Nat /\ MaxData \in Nat /\ LookAhead \in Nat
                        /\ PeerFails \in BOOLEAN /\ Slow \in BOOLEAN

ASSUME ServingKinds == Kinds \subseteq {"status", "hit", "get", "command", "cas", "casfwd",
                                        "multi", "mute", "bad"}

VARIABLES
    conn,           \* "queued" for a worker, "open", "closed" (to be pruned), "gone"
    sent,           \* how many requests the client has sent
    parsed,         \* how many of them are requests by now; the rest is in the reader
    requests,       \* ctx->requests
    req,            \* req[i]: the i-th request
    armed,          \* is shardcache_output_handler set?
    worker,         \* where the output handler is: [pc, done]
    wire            \* what the client was sent: [req, part]

vars == <<conn, sent, parsed, requests, req, armed, worker, wire>>

Reqs == 1..MaxReqs

Unborn == [alive |-> FALSE, kind |-> "none", stage |-> "over", copied |-> 0,
           output |-> << >>, done |-> 0, error |-> FALSE]

Init ==
    /\ conn = "queued" /\ sent = 0 /\ parsed = 0
    /\ requests = << >>
    /\ req = [i \in Reqs |-> Unborn]
    /\ armed = FALSE
    /\ worker = [pc |-> "mux", done |-> FALSE]
    /\ wire = << >>
-----------------------------------------------------------------------------
(* Parsing and starting requests *)

(* What process_request leaves: what is in the output, how often done was
   counted, and what another thread has yet to do. *)
Started(kind) == [Unborn EXCEPT !.alive = TRUE, !.kind = kind]

(* write_status, or a message built on the spot: MIGRATION_*, CHECK, STATS,
   GET_INDEX, REPLICA_*, and TOUCH, EVICT or a GET that fails at once. *)
Status(kind) == [Started(kind) EXCEPT !.output = <<"tail">>, !.done = 1]

(* A GET of a cached value: done is counted by the epilogue and once more by
   get_async_data_handler. *)
Cached(kind) == [Started(kind) EXCEPT !.output = <<"head", "data", "tail">>, !.done = 2]

(* A CAS is answered by its callback and by process_request as well; when it is
   forwarded to the owner of the key, the callback comes later. *)
Cas(kind) == [Started(kind) EXCEPT !.output = <<"tail", "tail">>, !.done = 2]
CasForwarded(kind) == [Status(kind) EXCEPT !.stage = "command"]

(* The rest waits: a "get" listens to a fetch, a "command" (SET, ADD, DELETE,
   EXISTS, INCREMENT, DECREMENT) has a callback, a "multi" (GET_MULTI) collects
   values.  SET_MULTI and DELETE_MULTI ("mute") are never answered. *)
process_request(kind) ==
    CASE kind = "status" -> Status(kind)
      [] kind = "hit" -> Cached(kind)
      [] kind = "cas" -> Cas(kind)
      [] kind = "casfwd" -> CasForwarded(kind)
      [] kind = "mute" -> Started(kind)
      [] OTHER -> [Started(kind) EXCEPT !.stage = kind]

(* iomux_close calls shardcache_eof_handler, which destroys the context, or
   leaves it to be pruned if it still has requests. *)
eof_handler(rest) == conn' = IF rest = << >> THEN "gone" ELSE "closed"

(* async_read_context_update parses one of the messages the reader has, up to
   number have, and shardcache_check_context_state makes a request of it.  A
   message that makes no sense closes the connection. *)
Update(have, rest, reqs) ==
    IF parsed < have
    THEN \/ \E kind \in Kinds \ {"bad"} :
               /\ parsed' = parsed + 1
               /\ requests' = Append(rest, parsed')
               /\ req' = [reqs EXCEPT ![parsed'] = process_request(kind)]
               /\ armed' = TRUE
               /\ UNCHANGED conn
         \/ /\ "bad" \in Kinds
            /\ requests' = rest /\ req' = reqs
            /\ eof_handler(rest)
            /\ UNCHANGED <<parsed, armed>>
    ELSE requests' = rest /\ req' = reqs /\ UNCHANGED <<parsed, armed, conn>>

(* worker takes the connection out of its queue. *)
Accept ==
    /\ conn = "queued"
    /\ conn' = "open"
    /\ UNCHANGED <<sent, parsed, requests, req, armed, worker, wire>>

InMux == conn = "open" /\ worker.pc = "mux"

(* shardcache_input_handler: some more requests arrive, if there are not too
   many already; one of them is started. *)
Input ==
    /\ InMux /\ Len(requests) <= LookAhead
    /\ \E n \in sent + 1 .. MaxReqs : sent' = n /\ Update(n, requests, req)
    /\ UNCHANGED <<worker, wire>>

(* The client closes the connection. *)
Eof ==
    /\ InMux
    /\ eof_handler(requests)
    /\ UNCHANGED <<sent, parsed, requests, req, armed, worker, wire>>
-----------------------------------------------------------------------------
(* shardcache_output_handler *)

First == Head(requests)
Destroyed(i) == [req EXCEPT ![i].alive = FALSE, ![i].output = << >>]

\* Mutated: the handler is also unset when the first request has no output yet.
OutputNothingIdle ==
    /\ InMux /\ armed
    /\ requests # << >> => req[First].output = << >>
    /\ armed' = FALSE
    /\ UNCHANGED <<conn, sent, parsed, requests, req, worker, wire>>

OutputNothing ==
    /\ InMux /\ armed /\ requests = << >>
    /\ armed' = FALSE
    /\ UNCHANGED <<conn, sent, parsed, requests, req, worker, wire>>

OutputError ==
    /\ InMux /\ armed /\ requests # << >> /\ req[First].error
    /\ eof_handler(requests)
    /\ UNCHANGED <<sent, parsed, requests, req, armed, worker, wire>>

\* Mutated: some request that is done is enough to let go of the first.
OutputCheckAny ==
    /\ InMux /\ armed /\ requests # << >> /\ ~ req[First].error
    /\ worker' = [pc |-> "output", done |-> \E i \in Reqs : req[i].alive /\ req[i].done > 0]
    /\ UNCHANGED <<conn, sent, parsed, requests, req, armed, wire>>

(* First done is read ... *)
OutputCheck ==
    /\ InMux /\ armed /\ requests # << >> /\ ~ req[First].error
    /\ worker' = [pc |-> "output", done |-> req[First].done > 0]
    /\ UNCHANGED <<conn, sent, parsed, requests, req, armed, wire>>

\* Mutated: the end of the answer is destroyed with the request.
OutputTakeUnsent ==
    /\ worker.pc = "output"
    /\ worker' = [pc |-> "mux", done |-> FALSE]
    /\ IF worker.done
       THEN Update(sent, Tail(requests), Destroyed(First)) /\ UNCHANGED wire
       ELSE /\ req' = [req EXCEPT ![First].output = << >>]
            /\ wire' = wire \o [k \in DOMAIN req[First].output |->
                                  [req |-> First, part |-> req[First].output[k]]]
            /\ UNCHANGED <<conn, parsed, requests, armed>>
    /\ UNCHANGED sent

(* ... then what is in the output is taken.  A request that is done is
   destroyed, and the next message is parsed; what was taken is not sent if
   that one closes the connection. *)
OutputTake ==
    /\ worker.pc = "output"
    /\ worker' = [pc |-> "mux", done |-> FALSE]
    /\ IF worker.done
       THEN Update(sent, Tail(requests), Destroyed(First))
       ELSE /\ req' = [req EXCEPT ![First].output = << >>]
            /\ UNCHANGED <<conn, parsed, requests, armed>>
    /\ wire' = IF conn' = "open"
               THEN wire \o [k \in DOMAIN req[First].output |->
                                [req |-> First, part |-> req[First].output[k]]]
               ELSE wire
    /\ UNCHANGED sent

\* Mutated: a request of a closed connection goes, done or not.
PruneRequestUndone ==
    /\ conn = "closed"
    /\ req' = Destroyed(First)
    /\ requests' = Tail(requests)
    /\ conn' = IF requests' = << >> THEN "gone" ELSE "closed"
    /\ UNCHANGED <<sent, parsed, armed, worker, wire>>

(* The worker's loop over the closed connections: a request that is done goes;
   without requests, or after a minute, the context goes, with all it has. *)
PruneRequest ==
    /\ conn = "closed" /\ req[First].done > 0
    /\ req' = Destroyed(First)
    /\ requests' = Tail(requests)
    /\ conn' = IF requests' = << >> THEN "gone" ELSE "closed"
    /\ UNCHANGED <<sent, parsed, armed, worker, wire>>

InFlight(i) == req[i].stage # "over"

\* Mutated: a closed connection waits for its requests however long it takes.
PruneOldDone ==
    /\ conn = "closed" /\ \A i \in Reqs : req[i].alive => req[i].done > 0
    /\ req' = [i \in Reqs |-> [req[i] EXCEPT !.alive = FALSE, !.output = << >>]]
    /\ requests' = << >>
    /\ conn' = "gone"
    /\ UNCHANGED <<sent, parsed, armed, worker, wire>>

PruneOld ==
    /\ conn = "closed"
    /\ Slow \/ \A i \in Reqs : ~ InFlight(i)
    /\ req' = [i \in Reqs |-> [req[i] EXCEPT !.alive = FALSE, !.output = << >>]]
    /\ requests' = << >>
    /\ conn' = "gone"
    /\ UNCHANGED <<sent, parsed, armed, worker, wire>>
-----------------------------------------------------------------------------
(* The threads that answer.  One that works for a request which was destroyed
   writes where the request was: nothing of it is seen in the model but that it
   happens. *)

Answer(i, stage, r) ==
    /\ req' = [req EXCEPT ![i] = [IF req[i].alive THEN r ELSE req[i] EXCEPT !.stage = stage]]
    /\ UNCHANGED <<conn, sent, parsed, requests, armed, worker, wire>>

Preamble(r) == IF r.copied = 0 THEN Append(r.output, "head") ELSE r.output

(* get_async_data_handler with a chunk: a preamble before the first. *)
GetData(i) ==
    /\ req[i].stage = "get" /\ req[i].copied < MaxData
    /\ Answer(i, "get", [req[i] EXCEPT !.output = Append(Preamble(req[i]), "data"),
                                       !.copied = @ + 1])

(* get_async_data_handler at the end of the value or with an error: the epilogue
   writes the rest of the answer, then counts done.  At the end of a value that
   is not empty the handler counts done once more. *)
GetEnd(i) ==
    /\ req[i].stage = "get"
    /\ \E next \in {"sent"} \cup (IF req[i].copied > 0 THEN {"twice"} ELSE {}) :
           Answer(i, next, [req[i] EXCEPT !.output = Append(Preamble(req[i]), "tail")])

(* shardcache_async_command_response: write_status, or the number. *)
CommandEnd(i) ==
    /\ req[i].stage = "command"
    /\ Answer(i, "sent", [req[i] EXCEPT !.output = Append(@, "tail")])

Done(i) ==
    /\ req[i].stage \in {"sent", "twice"}
    /\ Answer(i, IF req[i].stage = "sent" THEN "over" ELSE "sent",
              [req[i] EXCEPT !.done = @ + 1])

(* The peer goes away: neither shardcache_async_command_helper nor, once a part
   of the value has come, the fetch (module Fetch) tells anybody. *)
PeerLost(i) ==
    /\ PeerFails
    /\ req[i].stage = "command" \/ (req[i].stage = "get" /\ req[i].copied > 0)
    /\ Answer(i, "over", req[i])

(* get_async_multi_data_handler: an error is noted; the values are put together
   but never sent. *)
MultiError(i) ==
    /\ req[i].stage = "multi"
    /\ Answer(i, "over", [req[i] EXCEPT !.error = TRUE])

MultiEnd(i) ==
    /\ req[i].stage = "multi"
    /\ Answer(i, "over", req[i])
-----------------------------------------------------------------------------
Output == OutputNothing \/ OutputError \/ OutputCheck \/ OutputTake
Prune == PruneRequest \/ PruneOld
Finish(i) == GetEnd(i) \/ CommandEnd(i) \/ Done(i) \/ PeerLost(i) \/
             MultiError(i) \/ MultiEnd(i)

Next == Accept \/ Input \/ Eof \/ Output \/ Prune \/ \E i \in Reqs : GetData(i) \/ Finish(i)

Spec == Init /\ [][Next]_vars

(* The worker goes round its loop, and its mux calls the output handler of a
   connection that has one.  Whoever fetches a value comes to an end
   (module Fetch). *)
Fairness ==
    /\ WF_vars(Output) /\ WF_vars(Prune)
    /\ \A i \in Reqs : WF_vars(Finish(i))

FairSpec == Spec /\ Fairness
-----------------------------------------------------------------------------
(* Properties *)

Parts == {"head", "data", "tail"}

Request == [alive : BOOLEAN, kind : Kinds \cup {"none"},
            stage : {"over", "get", "command", "multi", "sent", "twice"},
            copied : 0..MaxData, output : Seq(Parts), done : 0..2, error : BOOLEAN]

(* The answers reach the client in the order of the requests and whole: the next
   answer starts after the end of the one before, and only a CAS has two ends. *)
InOrder ==
    /\ wire # << >> => wire[1].req = 1
    /\ \A k \in 1 .. Len(wire) - 1 :
          \/ wire[k].part = "tail" /\ wire[k + 1].req = wire[k].req + 1
          \/ wire[k].part # "tail" /\ wire[k + 1].req = wire[k].req
          \/ req[wire[k].req].kind \in {"cas", "casfwd"} /\ wire[k + 1].req = wire[k].req

Answered(i) == \E k \in DOMAIN wire : wire[k] = [req |-> i, part |-> "tail"]

(* A request that left an open connection left nothing of its answer behind:
   what another thread adds to the output before it counts done is written, also
   when it does so in the middle of the output handler. *)
NothingLost == conn = "open" => \A i \in 1..parsed : req[i].alive \/ Answered(i)

(* A request exists until done is set: whoever still has to answer it can write
   to it, even if the connection was closed in the meantime. *)
ExistsUntilDone == \A i \in Reqs : InFlight(i) /\ req[i].done = 0 => req[i].alive

(* Nobody will answer request i any more, and nobody has. *)
Silent(i) == req[i].alive /\ ~ InFlight(i) /\ req[i].done = 0 /\ ~ req[i].error

(* Every request that arrived is answered, unless the connection is closed or a
   request that nobody answers is in the way. *)
EveryRequestAnswered ==
    \A i \in Reqs :
        sent >= i ~> (conn # "open" \/ Answered(i) \/ \E j \in 1..i : Silent(j))

(* A closed connection is destroyed in the end. *)
ContextFreed == conn = "closed" ~> conn = "gone"
=============================================================================
