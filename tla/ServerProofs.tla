--------------------------- MODULE ServerProofs ---------------------------
(* What a node does for its clients.  First the answers on a connection (module
   Serving): they are whole, in order, and none is left behind, for any number of
   requests, any look ahead and any choice of requests; and whoever has to answer a
   request finds it.  Then the migration of its keys (module Migration): no key is
   lost, and what has to move has moved, for any number of nodes, keys, writes and
   migrations. *)
EXTENDS Serving, Migration, SequenceTheorems, TLAPS

Stages == {"over", "get", "command", "multi", "sent", "twice"}

(* Type invariant.  How often done is counted and how long a value is does not
   matter here. *)
Records == [alive : BOOLEAN, kind : Kinds \cup {"none"}, stage : Stages, copied : Nat,
            output : Seq(Parts), done : Nat, error : BOOLEAN]

Written == [req : Reqs, part : Parts]

Types ==
    /\ sent \in 0..MaxReqs /\ parsed \in 0..sent
    /\ conn \in {"queued", "open", "closed", "gone"}
    /\ worker \in [pc : {"mux", "output"}, done : BOOLEAN]

Twice == {"cas", "casfwd"}

(* InOrder, of any requests f and any wire w. *)
Follows(f, a, b) ==
    \/ a.part = "tail" /\ b.req = a.req + 1
    \/ a.part # "tail" /\ b.req = a.req
    \/ f[a.req].kind \in Twice /\ b.req = a.req

Ordered(f, w) ==
    /\ w # << >> => w[1].req = 1
    /\ \A k \in 1 .. Len(w) - 1 : Follows(f, w[k], w[k + 1])

(* What holds of the connection to its end.  Of p parsed requests, the first have
   left the context; those it has, q, follow, up to the last that was parsed. *)
Kept(p, q, f, w) ==
    /\ p \in 0..MaxReqs /\ q \in Seq(Reqs) /\ f \in [Reqs -> Records] /\ w \in Seq(Written)
    /\ p - Len(q) \in Nat
    /\ \A k \in 1..Len(q) : q[k] = p - Len(q) + k
    /\ \A k \in 1..Len(w) : w[k].req <= p
    /\ Ordered(f, w)

(* The end of an answer: has the client got it as the last thing it got (got), or is
   it the last thing in the output? *)
Ended(r, got) == IF r.output = << >> THEN got ELSE r.output[Len(r.output)] = "tail"

(* The output of a request r: done is counted after the end of the answer was
   written; but for a CAS nothing is written after the end, and there is no end
   while somebody is still to write one. *)
Whole(r, got) ==
    /\ r.alive
    /\ r.done > 0 \/ r.stage \in {"sent", "twice"} => Ended(r, got)
    /\ r.stage \in {"get", "multi"} => r.done = 0
    /\ r.kind \notin Twice =>
          /\ \A k \in 1 .. Len(r.output) - 1 : r.output[k] # "tail"
          /\ got => r.output = << >>
          /\ r.stage \in {"get", "command"} =>
                ~ got /\ \A k \in 1 .. Len(r.output) : r.output[k] # "tail"

Got(w, i) == w # << >> /\ w[Len(w)] = [req |-> i, part |-> "tail"]

(* What holds as long as the connection is there: the requests that left are
   answered, the others are whole, and the client has got the end of the last
   answer or a part of the one that is written now. *)
Good(p, q, f, w) ==
    /\ \A i \in 1 .. p - Len(q) : \E k \in 1..Len(w) : w[k] = [req |-> i, part |-> "tail"]
    /\ \A i \in p - Len(q) + 1 .. p : Whole(f[i], Got(w, i))
    /\ w # << >> => \/ Got(w, p - Len(q))
                    \/ w[Len(w)].req = p - Len(q) + 1 /\ Len(q) > 0

(* What the output handler saw of the first request is still so when it takes the
   output.  A context that waits to be pruned has a request. *)
Handler ==
    /\ worker.pc = "output" => conn = "open" /\ requests # << >>
    /\ worker.pc = "output" /\ worker.done => req[First].done > 0
    /\ conn = "closed" => requests # << >>

IInv ==
    /\ Types
    /\ Kept(parsed, requests, req, wire)
    /\ conn \in {"queued", "open"} => Good(parsed, requests, req, wire)
    /\ Handler
    /\ ~ Slow => ExistsUntilDone
-----------------------------------------------------------------------------
(* Requests as records *)

(* process_request leaves a request that is whole; nobody has got anything of it. *)
LEMMA NewRequest ==
    ASSUME NEW kind \in Kinds \ {"bad"}
    PROVE  /\ process_request(kind) \in Records
           /\ Whole(process_request(kind), FALSE)
<1> DEFINE r == process_request(kind)
           Is(s, stage, output, done) ==
               s \in Records /\ s.alive /\ s.kind = kind /\ s.stage = stage
               /\ s.output = output /\ s.done = done
<1>1. Unborn \in Records /\ Unborn.stage = "over" /\ Unborn.output = << >> /\ Unborn.done = 0
    BY DEF Unborn, Records, Stages
<1>2. Is(Started(kind), "over", << >>, 0)
    BY <1>1, Zenon DEF Started, Records, Stages
<1>3. ASSUME NEW o \in Seq(Parts), NEW d \in Nat, NEW g \in Stages
      PROVE  /\ Is([Started(kind) EXCEPT !.output = o, !.done = d], "over", o, d)
             /\ Is([Started(kind) EXCEPT !.stage = g], g, << >>, 0)
             /\ \A s : Is(s, "over", o, d) => Is([s EXCEPT !.stage = g], g, o, d)
    BY <1>2, ZenonT(60) DEF Records, Stages
<1>4. kind \in {"status", "hit", "get", "command", "cas", "casfwd", "multi", "mute"}
    BY ServingKinds, Zenon
<1> HIDE DEF Is
<1>0. 1 \in Nat /\ 2 \in Nat /\ "over" \in Stages /\ "command" \in Stages
    BY DEF Stages
<1>5. CASE kind = "status"
  <2> DEFINE lit == <<"tail">>
  <2>1. lit \in Seq(Parts) /\ Len(lit) = 1 /\ lit[1] = "tail" /\ lit # << >>
    BY DEF Parts
  <2>2. PICK o \in Seq(Parts) : o = lit
    BY <2>1, Zenon
  <2>3. Len(o) = 1 /\ o[1] = "tail" /\ o # << >>
    BY <2>1, <2>2, Zenon
  <2>4. Is(r, "over", o, 1)
    BY <1>3, <1>5, <2>2, <1>0, Zenon
       DEF process_request, Status
  <2> HIDE DEF lit, r
  <2>5. \A k \in 1 .. Len(o) - 1 : o[k] # "tail"
    BY <2>3
  <2>6. r \in Records /\ r.output = o /\ r.stage = "over" /\ r.alive /\ Ended(r, FALSE)
    BY <2>3, <2>4, Zenon DEF Ended, Is
  <2>7. Whole(r, FALSE)
    BY <2>5, <2>6, Zenon DEF Whole
  <2> QED BY <2>6, <2>7, Zenon DEF r
<1>6. CASE kind = "hit"
  <2> DEFINE lit == <<"head", "data", "tail">>
  <2>1. lit \in Seq(Parts) /\ Len(lit) = 3 /\ lit[1] = "head" /\ lit[2] = "data" /\ lit[3] = "tail"
      /\ lit # << >>
    BY DEF Parts
  <2>2. PICK o \in Seq(Parts) : o = lit
    BY <2>1, Zenon
  <2>3. Len(o) = 3 /\ o[1] = "head" /\ o[2] = "data" /\ o[3] = "tail"
      /\ o # << >>
    BY <2>1, <2>2, Zenon
  <2>4. Is(r, "over", o, 2)
    BY <1>3, <1>6, <2>2, <1>0, ZenonT(60)
       DEF process_request, Cached
  <2> HIDE DEF lit, r
  <2>5. \A k \in 1 .. Len(o) - 1 : o[k] # "tail"
    BY <2>3
  <2>6. r \in Records /\ r.output = o /\ r.stage = "over" /\ r.alive /\ Ended(r, FALSE)
    BY <2>3, <2>4, Zenon DEF Ended, Is
  <2>7. Whole(r, FALSE)
    BY <2>5, <2>6, Zenon DEF Whole
  <2> QED BY <2>6, <2>7, Zenon DEF r
<1>7. CASE kind = "cas"
  <2> DEFINE lit == <<"tail", "tail">>
  <2>1. lit \in Seq(Parts) /\ Len(lit) = 2 /\ lit[2] = "tail" /\ lit # << >>
    BY DEF Parts
  <2>2. PICK o \in Seq(Parts) : o = lit
    BY <2>1, Zenon
  <2>3. Len(o) = 2 /\ o[2] = "tail" /\ o # << >>
    BY <2>1, <2>2, Zenon
  <2>4. Is(r, "over", o, 2)
    BY <1>3, <1>7, <2>2, <1>0, ZenonT(60)
       DEF process_request, Cas
  <2> HIDE DEF lit, r
  <2>5. r \in Records /\ Whole(r, FALSE)
    BY <1>7, <2>3, <2>4, Zenon DEF Whole, Ended, Twice, Is
  <2> QED BY <2>5, Zenon DEF r
<1>8. CASE kind = "casfwd"
  <2> DEFINE lit == <<"tail">>
  <2>1. lit \in Seq(Parts) /\ Len(lit) = 1 /\ lit[1] = "tail" /\ lit # << >>
    BY DEF Parts
  <2>2. PICK o \in Seq(Parts) : o = lit
    BY <2>1, Zenon
  <2>3. Len(o) = 1 /\ o[1] = "tail" /\ o # << >>
    BY <2>1, <2>2, Zenon
  <2>4. Is(r, "command", o, 1)
    BY <1>3, <1>8, <2>2, <1>0, ZenonT(60)
       DEF process_request, CasForwarded, Status
  <2> HIDE DEF lit, r
  <2>5. r \in Records /\ Whole(r, FALSE)
    BY <1>8, <2>3, <2>4, Zenon DEF Whole, Ended, Twice, Is
  <2> QED BY <2>5, Zenon DEF r
<1>9. CASE kind \in {"mute", "get", "command", "multi"}
  <2>1. PICK g \in Stages : Is(r, g, << >>, 0) /\ (g = "over" \/ g = kind)
    BY <1>2, <1>3, <1>9, EmptySeq, Zenon DEF process_request, Stages
  <2> HIDE DEF r
  <2>2. r \in Records /\ r.output = << >> /\ r.alive /\ r.done = 0
        /\ r.stage \notin {"sent", "twice"}
    BY <1>9, <2>1, Zenon DEF Is
  <2>3. Len(r.output) = 0
    BY <2>2, EmptySeq, Zenon
  <2>4. 1 .. Len(r.output) = {} /\ 1 .. Len(r.output) - 1 = {}
    BY <2>3
  <2>5. ~ (r.done > 0)
    BY <2>2
  <2>6. Whole(r, FALSE)
    BY <2>2, <2>4, <2>5, Zenon DEF Whole
  <2> QED BY <2>2, <2>6, Zenon DEF r
<1> QED BY <1>4, <1>5, <1>6, <1>7, <1>8, <1>9, Zenon

(* s is the output of r with a preamble or without, and then p. *)
Extends(r, s, p) ==
    /\ s # << >> /\ s[Len(s)] = p
    /\ \A k \in 1 .. Len(s) - 1 :
          s[k] = "head" \/ (k \in 1 .. Len(r.output) /\ s[k] = r.output[k])

(* What a thread adds to the output of a request. *)
LEMMA Appended ==
    ASSUME NEW r \in Records, NEW p \in Parts,
           NEW s, s = Append(Preamble(r), p) \/ s = Append(r.output, p)
    PROVE  s \in Seq(Parts) /\ Extends(r, s, p)
<1>1. r.output \in Seq(Parts) /\ "head" \in Parts
    BY Zenon DEF Records, Parts
<1>2. PICK q \in Seq(Parts) :
          /\ s = Append(q, p)
          /\ \A k \in 1..Len(q) : q[k] = "head" \/ (k \in 1 .. Len(r.output) /\ q[k] = r.output[k])
  <2>1. CASE s = Append(r.output, p)
    BY <1>1, <2>1, Zenon
  <2>2. CASE s = Append(Preamble(r), p)
    <3>1. CASE r.copied = 0
      <4>1. /\ Append(r.output, "head") \in Seq(Parts)
            /\ \A k \in 1..Len(Append(r.output, "head")) :
                  \/ Append(r.output, "head")[k] = "head"
                  \/ k \in 1 .. Len(r.output) /\ Append(r.output, "head")[k] = r.output[k]
        BY <1>1, AppendProperties
      <4> QED BY <2>2, <3>1, <4>1, Zenon DEF Preamble
    <3>2. CASE r.copied # 0
      BY <1>1, <2>2, <3>2, Zenon DEF Preamble
    <3> QED BY <3>1, <3>2, Zenon
  <2> QED BY <2>1, <2>2, Zenon
<1>3. s \in Seq(Parts) /\ s # << >> /\ Len(s) = Len(q) + 1 /\ s[Len(q) + 1] = p
      /\ \A k \in 1..Len(q) : s[k] = q[k]
    BY <1>2, AppendProperties
<1>4. Len(q) \in Nat
    BY LenProperties, Zenon
<1> QED BY <1>2, <1>3, <1>4 DEF Extends

(* x is what request r becomes when a thread works for it; got says whether the
   last thing the client has got is the end of its answer. *)
Becomes(r, x, got) ==
    /\ x \in Records /\ x.kind = r.kind /\ x.alive = r.alive
    /\ r.stage # "over"
    /\ x.done >= r.done /\ (~ r.alive => x.done = r.done)
    /\ Whole(r, got) => Whole(x, got)

(* A thread adds a chunk, or the end of the answer. *)
LEMMA Wrote ==
    ASSUME NEW r \in Records, NEW x \in Records, NEW p \in Parts, NEW got \in BOOLEAN,
           x.kind = r.kind, x.alive = r.alive, x.done = r.done,
           x.output = Append(Preamble(r), p) \/ x.output = Append(r.output, p),
           \/ r.stage = "get" /\ x.stage = "get" /\ p = "data"
           \/ r.stage \in {"get", "command"} /\ x.stage \in {"sent", "twice"} /\ p = "tail"
    PROVE  Becomes(r, x, got)
<1>1. /\ x.output # << >> /\ x.output[Len(x.output)] = p
      /\ \A k \in 1 .. Len(x.output) - 1 :
            \/ x.output[k] = "head"
            \/ k \in 1 .. Len(r.output) /\ x.output[k] = r.output[k]
  <2>1. Extends(r, x.output, p)
    BY Appended, Zenon
  <2> QED BY <2>1, Zenon DEF Extends
<1>2. r.done \in Nat /\ Len(x.output) \in Nat /\ Len(r.output) \in Nat
    BY LenProperties, Zenon DEF Records
<1>3. ASSUME Whole(r, got) PROVE Whole(x, got)
  <2>1. Ended(x, got) <=> p = "tail"
    BY <1>1, Zenon DEF Ended
  <2>2. r.stage = "get" => r.done = 0
    BY <1>3, Zenon DEF Whole
  <2>3. x.done > 0 \/ x.stage \in {"sent", "twice"} => p = "tail"
    BY <1>2, <2>2
  <2>4. x.stage \in {"get", "multi"} => x.done = 0
    BY <2>2, Zenon
  <2>5. ASSUME x.kind \notin Twice
        PROVE  /\ ~ got
               /\ \A k \in 1 .. Len(x.output) - 1 : x.output[k] # "tail"
               /\ x.stage = "get" => \A k \in 1 .. Len(x.output) : x.output[k] # "tail"
    <3>1. ~ got /\ \A k \in 1 .. Len(r.output) : r.output[k] # "tail"
      BY <1>3, <2>5, Zenon DEF Whole
    <3>2. \A k \in 1 .. Len(x.output) - 1 : x.output[k] # "tail"
      BY <1>1, <3>1, Zenon
    <3>3. \A k \in 1 .. Len(x.output) : k = Len(x.output) \/ k \in 1 .. Len(x.output) - 1
      BY <1>2
    <3>4. x.stage = "get" => p # "tail"
      BY Zenon
    <3> QED BY <1>1, <3>1, <3>2, <3>3, <3>4, Zenon
  <2>6. x.stage # "command"
    BY Zenon
  <2> QED BY <1>3, <2>1, <2>3, <2>4, <2>5, <2>6, Zenon DEF Whole
<1>4. x.done >= r.done /\ r.stage # "over"
    BY <1>2
<1> QED BY <1>3, <1>4, Zenon DEF Becomes

(* A thread counts done, or leaves without an answer. *)
LEMMA Left ==
    ASSUME NEW r \in Records, NEW x \in Records, NEW got \in BOOLEAN,
           x.kind = r.kind, x.alive = r.alive, x.output = r.output,
           \/ r.stage \in {"sent", "twice"} /\ x.stage \in {"over", "sent"}
              /\ x.done \in {r.done, r.done + 1} /\ (~ r.alive => x.done = r.done)
           \/ r.stage # "over" /\ x.stage = "over" /\ x.done = r.done
    PROVE  Becomes(r, x, got)
<1>1. r.done \in Nat
    BY Zenon DEF Records
<1>2. Ended(x, got) = Ended(r, got)
    BY Zenon DEF Ended
<1>3. ASSUME Whole(r, got) PROVE Whole(x, got)
    BY <1>1, <1>2, <1>3, Zenon DEF Whole
<1>4. x.done >= r.done /\ r.stage # "over"
    BY <1>1
<1> QED BY <1>3, <1>4, Zenon DEF Becomes

-----------------------------------------------------------------------------
(* Steps of the threads that answer *)

(* A step of a thread that works for request i. *)
LEMMA AnswerStep ==
    ASSUME IInv, NEW i \in Reqs, NEW x, Becomes(req[i], x, Got(wire, i)),
           req' = [req EXCEPT ![i] = x],
           UNCHANGED <<conn, sent, parsed, requests, armed, worker, wire>>
    PROVE  IInv'
<1> DEFINE K(f) == Kept(parsed, requests, f, wire)
           G(f) == Good(parsed, requests, f, wire)
<1>1. /\ req \in [Reqs -> Records] /\ x \in Records
      /\ req' \in [Reqs -> Records] /\ req'[i] = x
      /\ \A j \in Reqs \ {i} : req'[j] = req[j]
    BY Zenon DEF IInv, Kept, Becomes
<1>2. \A j \in Reqs : /\ req'[j].kind = req[j].kind /\ req'[j].alive = req[j].alive
                      /\ req[j].done > 0 => req'[j].done > 0
    BY <1>1 DEF Becomes, Records
<1>3. Types'
    BY Zenon DEF IInv, Types
<1>4. Handler'
  <2>1. requests # << >> => First \in Reqs
    BY HeadTailProperties, Zenon DEF IInv, Kept, First
  <2> QED BY <1>2, <2>1, Zenon DEF IInv, Handler, First
<1>5. G(req) => G(req')
  <2>1. \A j \in Reqs : Whole(req[j], Got(wire, j)) => Whole(req'[j], Got(wire, j))
    BY <1>1, Zenon DEF Becomes
  <2>2. parsed - Len(requests) \in Nat /\ parsed \in 0..MaxReqs /\ MaxReqs \in Nat
    BY ServingBounds, Zenon DEF IInv, Kept
  <2>3. \A j \in parsed - Len(requests) + 1 .. parsed : j \in Reqs
    BY <2>2 DEF Reqs
  <2> QED BY <2>1, <2>3, Zenon DEF Good
<1>6. K(req')
  <2>1. \A k \in 1..Len(wire) : wire[k].req \in Reqs
    <3>1. \A k \in 1..Len(wire) : wire[k] \in Written
      BY ElementOfSeq, Zenon DEF IInv, Kept
    <3> QED BY <3>1, Zenon DEF Written
  <2>2. Len(wire) \in Nat
    BY DEF IInv, Kept
  <2>3. Ordered(req, wire) => Ordered(req', wire)
    BY <1>2, <2>1, <2>2 DEF Ordered, Follows
  <2> QED BY <1>1, <2>3, Zenon DEF IInv, Kept
<1>7. ~ Slow => ExistsUntilDone'
    BY <1>1, Zenon DEF IInv, ExistsUntilDone, InFlight, Becomes
<1> QED BY <1>3, <1>4, <1>5, <1>6, <1>7, Zenon DEF IInv

(* A thread that works for a request which was destroyed. *)
LEMMA Dead ==
    ASSUME NEW r \in Records, ~ r.alive, r.stage # "over", NEW g \in Stages, NEW got
    PROVE  Becomes(r, [r EXCEPT !.stage = g], got)
<1> DEFINE x == [r EXCEPT !.stage = g]
<1>1. x \in Records /\ x.kind = r.kind /\ x.alive = r.alive /\ x.done = r.done /\ r.done \in Nat
    BY Zenon DEF Records
<1>2. x.done >= r.done
    BY <1>1
<1>3. ~ Whole(r, got)
    BY Zenon DEF Whole
<1> QED BY <1>1, <1>2, <1>3, Zenon DEF Becomes

(* Answer changes one request, to stage g, and if it exists to what the thread
   makes of it. *)
LEMMA AnswerSteps ==
    ASSUME IInv, NEW i \in Reqs, NEW g \in Stages, NEW r, Answer(i, g, r),
           req[i].stage # "over",
           req[i].alive => Becomes(req[i], [r EXCEPT !.stage = g], Got(wire, i))
    PROVE  IInv'
<1>1. req[i] \in Records
    BY Zenon DEF IInv, Kept
<1>2. CASE req[i].alive
  <2>1. /\ req' = [req EXCEPT ![i] = [r EXCEPT !.stage = g]]
        /\ UNCHANGED <<conn, sent, parsed, requests, armed, worker, wire>>
    BY <1>2, Zenon DEF Answer
  <2> QED BY <1>2, <2>1, AnswerStep, Zenon
<1>3. CASE ~ req[i].alive
  <2>1. /\ req' = [req EXCEPT ![i] = [req[i] EXCEPT !.stage = g]]
        /\ UNCHANGED <<conn, sent, parsed, requests, armed, worker, wire>>
    BY <1>3, Zenon DEF Answer
  <2>2. Becomes(req[i], [req[i] EXCEPT !.stage = g], Got(wire, i))
    BY <1>1, <1>3, Dead, Zenon
  <2> QED BY <2>1, <2>2, AnswerStep, Zenon
<1> QED BY <1>2, <1>3, Zenon

LEMMA ThreadSteps ==
    ASSUME IInv, NEW i \in Reqs, GetData(i) \/ Finish(i)
    PROVE  IInv'
<1> DEFINE r == req[i]
<1>0. r \in Records /\ Got(wire, i) \in BOOLEAN
    BY Zenon DEF IInv, Kept, Got
<1>a. \A p \in Parts : Append(Preamble(r), p) \in Seq(Parts) /\ Append(r.output, p) \in Seq(Parts)
    BY <1>0, Appended, Zenon
<1>b. "data" \in Parts /\ "tail" \in Parts
    BY Zenon DEF Parts
<1>1. CASE GetData(i)
  <2> DEFINE o == Append(Preamble(r), "data")
             s == [r EXCEPT !.output = o, !.copied = r.copied + 1]
             x == [s EXCEPT !.stage = "get"]
  <2>1. r.stage = "get" /\ Answer(i, "get", s)
    BY <1>1, Zenon DEF GetData
  <2>2. o \in Seq(Parts)
    BY <1>a, <1>b, Zenon
  <2> HIDE DEF o
  <2>3. x \in Records /\ x.kind = r.kind /\ x.alive = r.alive /\ x.done = r.done
        /\ x.output = o /\ x.stage = "get"
    <3>1. r.copied + 1 \in Nat
      BY <1>0 DEF Records
    <3>2. s \in Records /\ s.kind = r.kind /\ s.alive = r.alive /\ s.done = r.done
          /\ s.output = o
      BY <1>0, <2>2, <3>1, Zenon DEF Records
    <3> HIDE DEF s
    <3> QED BY <3>2, Zenon DEF Records, Stages
  <2> HIDE DEF s, x
  <2>4. Becomes(r, x, Got(wire, i))
    BY <1>0, <1>b, <2>1, <2>3, Wrote, Zenon DEF o
  <2> QED BY <2>1, <2>4, AnswerSteps, Zenon DEF x, Stages
<1>2. CASE GetEnd(i)
  <2> DEFINE o == Append(Preamble(r), "tail")
             s == [r EXCEPT !.output = o]
  <2>1. PICK g \in {"sent", "twice"} : r.stage = "get" /\ Answer(i, g, s)
    BY <1>2, Zenon DEF GetEnd
  <2> DEFINE x == [s EXCEPT !.stage = g]
  <2>2. o \in Seq(Parts)
    BY <1>a, <1>b, Zenon
  <2> HIDE DEF o
  <2>3. x \in Records /\ x.kind = r.kind /\ x.alive = r.alive /\ x.done = r.done
        /\ x.output = o /\ x.stage = g
    BY <1>0, <2>2, Zenon DEF Records, Stages
  <2> HIDE DEF s, x
  <2>4. Becomes(r, x, Got(wire, i))
    BY <1>0, <1>b, <2>1, <2>3, Wrote, Zenon DEF o
  <2> QED BY <2>1, <2>4, AnswerSteps, Zenon DEF x, Stages
<1>3. CASE CommandEnd(i)
  <2> DEFINE o == Append(r.output, "tail")
             s == [r EXCEPT !.output = o]
             x == [s EXCEPT !.stage = "sent"]
  <2>1. r.stage = "command" /\ Answer(i, "sent", s)
    BY <1>3, Zenon DEF CommandEnd
  <2>2. o \in Seq(Parts)
    BY <1>a, <1>b, Zenon
  <2> HIDE DEF o
  <2>3. x \in Records /\ x.kind = r.kind /\ x.alive = r.alive /\ x.done = r.done
        /\ x.output = o /\ x.stage = "sent"
    BY <1>0, <2>2, Zenon DEF Records, Stages
  <2> HIDE DEF s, x
  <2>4. Becomes(r, x, Got(wire, i))
    BY <1>0, <1>b, <2>1, <2>3, Wrote, Zenon DEF o
  <2> QED BY <2>1, <2>4, AnswerSteps, Zenon DEF x, Stages
<1>4. CASE Done(i)
  <2> DEFINE g == IF r.stage = "sent" THEN "over" ELSE "sent"
             s == [r EXCEPT !.done = r.done + 1]
             x == [s EXCEPT !.stage = g]
  <2>1. r.stage \in {"sent", "twice"} /\ Answer(i, g, s)
    BY <1>4, Zenon DEF Done
  <2>2. g \in {"over", "sent"}
    BY Zenon
  <2> HIDE DEF g
  <2>3. x \in Records /\ x.kind = r.kind /\ x.alive = r.alive /\ x.done = r.done + 1
        /\ x.output = r.output /\ x.stage = g
    <3>1. r.done + 1 \in Nat
      BY <1>0 DEF Records
    <3>2. s \in Records /\ s.kind = r.kind /\ s.alive = r.alive /\ s.done = r.done + 1
          /\ s.output = r.output
      BY <1>0, <3>1, Zenon DEF Records
    <3> HIDE DEF s
    <3> QED BY <2>2, <3>2, Zenon DEF Records, Stages
  <2> HIDE DEF s, x
  <2>4. r.alive => Becomes(r, x, Got(wire, i))
    BY <1>0, <2>1, <2>2, <2>3, Left, Zenon
  <2> QED BY <2>1, <2>2, <2>4, AnswerSteps, Zenon DEF x, Stages
<1>5. CASE PeerLost(i) \/ MultiEnd(i) \/ MultiError(i)
  <2>1. PICK s \in {r, [r EXCEPT !.error = TRUE]} : r.stage # "over" /\ Answer(i, "over", s)
    BY <1>5, Zenon DEF PeerLost, MultiEnd, MultiError
  <2> DEFINE x == [s EXCEPT !.stage = "over"]
  <2>2. x \in Records /\ x.kind = r.kind /\ x.alive = r.alive /\ x.done = r.done
        /\ x.output = r.output /\ x.stage = "over"
    BY <1>0, <2>1, Zenon DEF Records, Stages
  <2> HIDE DEF x
  <2>3. Becomes(r, x, Got(wire, i))
    BY <1>0, <2>1, <2>2, Left, Zenon
  <2> QED BY <2>1, <2>3, AnswerSteps, Zenon DEF x, Stages
<1> QED BY <1>1, <1>2, <1>3, <1>4, <1>5, Zenon DEF Finish

-----------------------------------------------------------------------------
(* Requests come and go *)

(* The first of the requests of a context, and the rest. *)
LEMMA FirstAndRest ==
    ASSUME NEW p, NEW q, NEW f, NEW w, Kept(p, q, f, w), q # << >>
    PROVE  /\ Len(q) \in Nat \ {0} /\ p \in Nat /\ p - Len(q) \in Nat
           /\ Head(q) = p - Len(q) + 1 /\ Head(q) \in Reqs
           /\ Tail(q) \in Seq(Reqs) /\ Len(Tail(q)) = Len(q) - 1
           /\ \A k \in 1 .. Len(q) - 1 : Tail(q)[k] = p - (Len(q) - 1) + k
<1>1. q \in Seq(Reqs) /\ p \in Nat /\ p - Len(q) \in Nat
      /\ \A k \in 1..Len(q) : q[k] = p - Len(q) + k
    BY ServingBounds DEF Kept
<1>2. Len(q) \in Nat \ {0}
    BY <1>1, EmptySeq, Zenon
<1>3. /\ Head(q) \in Reqs /\ Tail(q) \in Seq(Reqs) /\ Len(Tail(q)) = Len(q) - 1
      /\ \A k \in 1 .. Len(q) - 1 : Tail(q)[k] = q[k + 1]
    BY <1>1, <1>2, HeadTailProperties, Zenon
<1>4. Head(q) = q[1]
    BY <1>1, <1>2
<1> QED BY <1>1, <1>2, <1>3, <1>4

(* What the client got is of requests, and the last of it of one of the first. *)
LEMMA WireOf ==
    ASSUME NEW p, NEW q, NEW f, NEW w, Kept(p, q, f, w)
    PROVE  /\ Len(w) \in Nat /\ (w # << >> => Len(w) >= 1)
           /\ \A k \in 1..Len(w) : w[k] \in Written /\ w[k].req \in Reqs /\ w[k].req <= p
<1>1. w \in Seq(Written) /\ \A k \in 1..Len(w) : w[k].req <= p
    BY Zenon DEF Kept
<1>2. \A k \in 1..Len(w) : w[k] \in Written
    BY <1>1, ElementOfSeq, Zenon
<1>3. Len(w) \in Nat /\ (w # << >> => Len(w) >= 1)
    BY <1>1, EmptySeq, LenProperties
<1> QED BY <1>1, <1>2, <1>3, Zenon DEF Written

(* Requests may change but for their kinds. *)
LEMMA KeptKinds ==
    ASSUME NEW p, NEW q, NEW f, NEW w, Kept(p, q, f, w), NEW g \in [Reqs -> Records],
           \A i \in Reqs : i <= p => g[i].kind = f[i].kind
    PROVE  Kept(p, q, g, w)
<1>0. Len(w) \in Nat /\ Ordered(f, w)
      /\ \A k \in 1..Len(w) : w[k].req \in Reqs /\ w[k].req <= p
    BY WireOf, Zenon DEF Kept
<1>1. Ordered(g, w)
    BY <1>0 DEF Ordered, Follows
<1> QED BY <1>1, Zenon DEF Kept

(* The first request goes. *)
LEMMA KeptRest ==
    ASSUME NEW p, NEW q, NEW f, NEW w, Kept(p, q, f, w), q # << >>
    PROVE  Kept(p, Tail(q), f, w)
<1>1. /\ Len(q) \in Nat \ {0} /\ p \in Nat /\ p - Len(q) \in Nat
      /\ Tail(q) \in Seq(Reqs) /\ Len(Tail(q)) = Len(q) - 1
      /\ \A k \in 1 .. Len(q) - 1 : Tail(q)[k] = p - (Len(q) - 1) + k
    BY FirstAndRest
<1>2. p - Len(Tail(q)) \in Nat /\ \A k \in 1..Len(Tail(q)) : Tail(q)[k] = p - Len(Tail(q)) + k
    BY <1>1
<1> QED BY <1>1, <1>2, Zenon DEF Kept

(* A request is made of the next message. *)
LEMMA Starts ==
    ASSUME NEW p, NEW q, NEW f, NEW w, Kept(p, q, f, w), Good(p, q, f, w), p + 1 \in Reqs,
           NEW kind \in Kinds \ {"bad"}
    PROVE  LET g == [f EXCEPT ![p + 1] = process_request(kind)]
           IN  Kept(p + 1, Append(q, p + 1), g, w) /\ Good(p + 1, Append(q, p + 1), g, w)
<1> DEFINE x == process_request(kind)
           g == [f EXCEPT ![p + 1] = x]
           a == Append(q, p + 1)
<1>1. x \in Records /\ Whole(x, FALSE)
    BY NewRequest, Zenon
<1> HIDE DEF x
<1>2. f \in [Reqs -> Records] /\ q \in Seq(Reqs) /\ p \in Nat /\ Len(q) \in Nat
      /\ p - Len(q) \in Nat /\ p \in 0..MaxReqs /\ MaxReqs \in Nat
    BY ServingBounds, LenProperties DEF Kept
<1>3. g \in [Reqs -> Records] /\ g[p + 1] = x /\ \A i \in Reqs : i <= p => g[i] = f[i]
    BY <1>1, <1>2
<1> HIDE DEF g
<1>4. /\ a \in Seq(Reqs) /\ Len(a) = Len(q) + 1 /\ a[Len(q) + 1] = p + 1
      /\ \A k \in 1..Len(q) : a[k] = q[k]
    BY <1>2, AppendProperties
<1>5. (p + 1) - Len(a) = p - Len(q) /\ p + 1 \in 0..MaxReqs
    BY <1>2, <1>4 DEF Reqs
<1>6. \A k \in 1..Len(a) : a[k] = (p + 1) - Len(a) + k
  <2>1. \A k \in 1..Len(q) : q[k] = p - Len(q) + k
    BY Zenon DEF Kept
  <2>2. \A k \in 1..Len(a) : k \in 1..Len(q) \/ k = Len(q) + 1
    BY <1>2, <1>4
  <2>3. (p + 1) - Len(a) + (Len(q) + 1) = p + 1
    BY <1>2, <1>4
  <2> QED BY <1>4, <1>5, <2>1, <2>2, <2>3, Zenon
<1>7. \A k \in 1..Len(w) : w[k].req <= p + 1
    BY <1>2, WireOf DEF Reqs
<1>8. Kept(p, q, g, w)
    BY <1>3, KeptKinds, Zenon
<1>9. Kept(p + 1, a, g, w)
    BY <1>2, <1>3, <1>4, <1>5, <1>6, <1>7, <1>8, Zenon DEF Kept
<1>10. ~ Got(w, p + 1)
    BY <1>2, WireOf DEF Got
<1>11. \A i \in p - Len(q) + 1 .. p + 1 : Whole(g[i], Got(w, i))
  <2>1. \A i \in p - Len(q) + 1 .. p : i \in Reqs /\ i <= p
    BY <1>2 DEF Reqs
  <2>2. \A i \in p - Len(q) + 1 .. p : Whole(g[i], Got(w, i))
    BY <1>3, <2>1, Zenon DEF Good
  <2>3. Whole(g[p + 1], Got(w, p + 1))
    BY <1>1, <1>3, <1>10, Got(w, p + 1) \in BOOLEAN, Zenon DEF Got
  <2>4. \A i \in p - Len(q) + 1 .. p + 1 : i = p + 1 \/ i \in p - Len(q) + 1 .. p
    BY <1>2
  <2> QED BY <2>2, <2>3, <2>4, Zenon
<1>12. Len(a) > 0
    BY <1>2, <1>4
<1>13. Good(p + 1, a, g, w)
    BY <1>5, <1>11, <1>12, Zenon DEF Good
<1> QED BY <1>9, <1>13, Zenon DEF g, x

-----------------------------------------------------------------------------
(* The output of the first request is written *)

Out(h, o) == [k \in DOMAIN o |-> [req |-> h, part |-> o[k]]]

Continues(v, w, h, o) ==
    /\ v \in Seq(Written) /\ Len(v) = Len(w) + Len(o)
    /\ \A k \in 1..Len(w) : v[k] = w[k]
    /\ \A k \in 1..Len(o) : v[Len(w) + k] = [req |-> h, part |-> o[k]]

LEMMA OutProperties ==
    ASSUME NEW h \in Reqs, NEW o \in Seq(Parts), NEW w \in Seq(Written)
    PROVE  Continues(w \o Out(h, o), w, h, o)
<1> DEFINE v == Out(h, o)
<1>1. DOMAIN o = 1..Len(o) /\ Len(o) \in Nat /\ \A k \in 1..Len(o) : o[k] \in Parts
    BY LenProperties, ElementOfSeq, Zenon
<1>2. v \in [1..Len(o) -> Written] /\ \A k \in 1..Len(o) : v[k] = [req |-> h, part |-> o[k]]
    BY <1>1, Zenon DEF Out, Written
<1> HIDE DEF v
<1>3. v \in Seq(Written) /\ Len(v) = Len(o)
    BY <1>1, <1>2, SeqDef, LenProperties
<1>4. /\ w \o v \in Seq(Written) /\ Len(w \o v) = Len(w) + Len(v)
      /\ \A k \in 1 .. Len(w) + Len(v) :
            (w \o v)[k] = IF k <= Len(w) THEN w[k] ELSE v[k - Len(w)]
    BY <1>3, ConcatProperties, Zenon
<1>5. Len(w) \in Nat
    BY LenProperties, Zenon
<1>6. \A k \in 1..Len(w) : (w \o v)[k] = w[k]
    BY <1>1, <1>3, <1>4, <1>5
<1>7. ASSUME NEW k \in 1..Len(o) PROVE (w \o v)[Len(w) + k] = v[k]
  <2>1. Len(w) + k \in 1 .. Len(w) + Len(v) /\ ~ (Len(w) + k <= Len(w)) /\ (Len(w) + k) - Len(w) = k
    BY <1>1, <1>3, <1>5, <1>7
  <2> QED BY <1>4, <2>1, Zenon
<1> QED BY <1>2, <1>3, <1>4, <1>6, <1>7, Zenon DEF v, Continues

(* The parts of the first request that are written continue what the client got. *)
LEMMA WritesInOrder ==
    ASSUME NEW p, NEW q, NEW f, NEW w, Kept(p, q, f, w), Good(p, q, f, w), q # << >>
    PROVE  LET h == Head(q)  IN Ordered(f, w \o Out(h, f[h].output))
<1> DEFINE h == Head(q)
           o == f[h].output
           v == w \o Out(h, o)
           b == p - Len(q)
<1>1. h \in Reqs /\ h = b + 1 /\ b \in Nat /\ Len(q) \in Nat \ {0} /\ p \in Nat /\ h \in b + 1 .. p
    BY FirstAndRest
<1>2. f[h] \in Records /\ o \in Seq(Parts) /\ w \in Seq(Written) /\ Ordered(f, w)
    BY <1>1, Zenon DEF Kept, Records
<1>3. Whole(f[h], Got(w, h))
    BY <1>1, Zenon DEF Good
<1>4. Len(w) \in Nat /\ (w # << >> => Len(w) >= 1) /\ (w = << >> => Len(w) = 0)
      /\ Len(o) \in Nat /\ \A k \in 1..Len(w) : w[k] \in Written
    BY <1>2, WireOf, EmptySeq, LenProperties, Zenon
<1>5. /\ v \in Seq(Written) /\ Len(v) = Len(w) + Len(o)
      /\ \A k \in 1..Len(w) : v[k] = w[k]
      /\ \A k \in 1..Len(o) : v[Len(w) + k] = [req |-> h, part |-> o[k]]
  <2>1. Continues(v, w, h, o)
    BY <1>1, <1>2, OutProperties, Zenon
  <2> QED BY <2>1, Zenon DEF Continues
<1>6. v # << >> => v[1].req = 1
  <2>1. CASE w # << >>
    <3>1. 1 \in 1..Len(w)
      BY <1>4, <2>1
    <3> QED BY <1>2, <1>5, <2>1, <3>1, Zenon DEF Ordered
  <2>2. CASE w = << >>
    <3>1. b = 0
      <4>1. ASSUME b # 0 PROVE FALSE
        <5>1. 1 \in 1..b /\ 1..Len(w) = {}
          BY <1>1, <1>4, <2>2, <4>1
        <5> QED BY <5>1, Zenon DEF Good
      <4> QED BY <4>1, Zenon
    <3>2. ASSUME v # << >> PROVE v[1].req = 1
      <4>1. Len(v) \in Nat \ {0}
        BY <1>5, <3>2, EmptySeq, Zenon
      <4>2. 1 \in 1..Len(o) /\ Len(w) + 1 = 1
        BY <1>4, <1>5, <2>2, <4>1
      <4>3. v[1] = [req |-> h, part |-> o[1]]
        BY <1>5, <4>2, Zenon
      <4>4. h = 1
        BY <1>1, <3>1
      <4> HIDE DEF v, o, h
      <4> QED BY <4>3, <4>4
    <3> QED BY <3>2, Zenon
  <2> QED BY <2>1, <2>2, Zenon
<1>7. ASSUME NEW k \in 1 .. Len(v) - 1 PROVE Follows(f, v[k], v[k + 1])
  <2>1. CASE k < Len(w)
    <3>1. k \in 1 .. Len(w) - 1 /\ k \in 1..Len(w) /\ k + 1 \in 1..Len(w)
      BY <1>4, <1>5, <1>7, <2>1
    <3> QED BY <1>2, <1>5, <3>1, Zenon DEF Ordered
  <2>2. CASE k = Len(w)
    <3>1. k \in 1..Len(w) /\ 1 \in 1..Len(o) /\ w # << >> /\ Len(o) # 0
      BY <1>4, <1>5, <1>7, <2>2
    <3>2. v[k] = w[k] /\ v[k + 1] = [req |-> h, part |-> o[1]] /\ w[k] \in Written
      BY <1>4, <1>5, <2>2, <3>1, Zenon
    <3>3. v[k + 1].req = h /\ o # << >>
      BY <1>2, <3>1, <3>2, EmptySeq
    <3>4. CASE Got(w, b)
      BY <1>1, <2>2, <3>2, <3>3, <3>4 DEF Got, Follows
    <3>5. CASE w[k].req = h
      <4>1. CASE f[h].kind \in Twice
        BY <3>2, <3>3, <3>5, <4>1, Zenon DEF Follows
      <4>2. CASE f[h].kind \notin Twice
        <5>1. ~ Got(w, h)
          BY <1>3, <3>3, <4>2, Zenon DEF Whole
        <5>2. w[k].part # "tail"
          <6>1. w[k] = [req |-> w[k].req, part |-> w[k].part]
            BY <3>2, Zenon DEF Written
          <6> QED BY <2>2, <3>1, <3>5, <5>1, <6>1, Zenon DEF Got
        <5> QED BY <3>2, <3>3, <3>5, <5>2, Zenon DEF Follows
      <4> QED BY <4>1, <4>2, Zenon
    <3> QED BY <1>1, <2>2, <3>1, <3>4, <3>5, Zenon DEF Good
  <2>3. CASE k > Len(w)
    <3> DEFINE m == k - Len(w)
    <3> HIDE DEF v, o
    <3>1. m \in 1..Len(o) /\ m + 1 \in 1..Len(o) /\ m \in 1 .. Len(o) - 1
          /\ k = Len(w) + m /\ k + 1 = Len(w) + (m + 1)
      BY <1>4, <1>5, <1>7, <2>3
    <3>2. v[k] = [req |-> h, part |-> o[m]] /\ v[k + 1] = [req |-> h, part |-> o[m + 1]]
      BY <1>5, <3>1, Zenon
    <3>3. f[h].kind \in Twice \/ o[m] # "tail"
      BY <1>3, <3>1, Zenon DEF Whole, o
    <3> QED BY <3>2, <3>3 DEF Follows
  <2> QED BY <1>4, <1>5, <1>7, <2>1, <2>2, <2>3
<1> QED BY <1>6, <1>7, Zenon DEF Ordered

(* The output of the first request, h, goes to the client. *)
LEMMA Takes ==
    ASSUME NEW p, NEW q, NEW f, NEW w, Kept(p, q, f, w), Good(p, q, f, w), q # << >>,
           NEW h, h = Head(q), NEW o, o = f[h].output, NEW g \in [Reqs -> Records],
           \A i \in Reqs \ {h} : g[i] = f[i],
           g[h].alive, g[h].kind = f[h].kind, g[h].stage = f[h].stage,
           g[h].done = f[h].done, g[h].output = << >>
    PROVE  Kept(p, q, g, w \o Out(h, o)) /\ Good(p, q, g, w \o Out(h, o))
<1>1. h \in Reqs /\ h = p - Len(q) + 1 /\ p - Len(q) \in Nat /\ Len(q) \in Nat \ {0}
      /\ p \in Nat /\ h \in p - Len(q) + 1 .. p
    BY FirstAndRest
<1>2. f[h] \in Records /\ o \in Seq(Parts) /\ w \in Seq(Written)
    BY <1>1, Zenon DEF Kept, Records
<1>3. Whole(f[h], Got(w, h))
    BY <1>1, Zenon DEF Good
<1>4. /\ Len(w) \in Nat /\ (w # << >> => Len(w) >= 1) /\ Len(o) \in Nat
      /\ (o # << >> => Len(o) >= 1) /\ (o = << >> => Len(o) = 0)
      /\ \A k \in 1..Len(w) : w[k] \in Written /\ w[k].req <= p
    BY <1>2, WireOf, EmptySeq, LenProperties
<1>5. PICK v : v = w \o Out(h, o)
    BY Zenon
<1>6. /\ v \in Seq(Written) /\ Len(v) = Len(w) + Len(o)
      /\ \A k \in 1..Len(w) : v[k] = w[k]
      /\ \A k \in 1..Len(o) : v[Len(w) + k] = [req |-> h, part |-> o[k]]
  <2>1. Continues(v, w, h, o)
    BY <1>1, <1>2, <1>5, OutProperties, Zenon
  <2> QED BY <2>1, Zenon DEF Continues
<1>7. Kept(p, q, g, v)
  <2>1. Ordered(f, v)
    BY <1>5, WritesInOrder, Zenon
  <2>2. \A k \in 1..Len(v) : v[k].req <= p
    <3>1. ASSUME NEW k \in 1..Len(v) PROVE v[k].req <= p
      <4>1. CASE k <= Len(w)
        BY <1>4, <1>6, <4>1
      <4>2. CASE k > Len(w)
        <5>1. k - Len(w) \in 1..Len(o) /\ Len(w) + (k - Len(w)) = k
          BY <1>4, <1>6, <3>1, <4>2
        <5>2. PICK m \in 1..Len(o) : k = Len(w) + m
          BY <5>1, Zenon
        <5>3. v[k] = [req |-> h, part |-> o[m]]
          BY <1>6, <5>2, Zenon
        <5> QED BY <1>1, <5>3
      <4> QED BY <1>4, <1>6, <3>1, <4>1, <4>2
    <3> QED BY <3>1, Zenon
  <2>3. Kept(p, q, f, v)
    BY <1>6, <2>1, <2>2, Zenon DEF Kept
  <2>4. \A i \in Reqs : g[i].kind = f[i].kind
    BY <1>1, Zenon
  <2> QED BY <2>3, <2>4, KeptKinds, Zenon
<1>8. o = << >> => v = w
  <2>1. ASSUME o = << >> PROVE Len(v) = Len(w) /\ \A k \in 1..Len(w) : v[k] = w[k]
    BY <1>4, <1>6, <2>1
  <2> QED BY <1>2, <1>6, <2>1, SeqEqual, Zenon
<1>9. ASSUME o # << >> PROVE v # << >> /\ v[Len(v)] = [req |-> h, part |-> o[Len(o)]]
  <2>1. Len(o) \in 1..Len(o) /\ Len(v) # 0
    BY <1>4, <1>6, <1>9
  <2> QED BY <1>6, <2>1, EmptySeq, Zenon
<1>10. \A i \in 1 .. p - Len(q) : \E k \in 1..Len(v) : v[k] = [req |-> i, part |-> "tail"]
  <2>1. \A k \in 1..Len(w) : k \in 1..Len(v) /\ v[k] = w[k]
    BY <1>4, <1>6
  <2> QED BY <2>1, ZenonT(60) DEF Good
<1>11. v # << >> => Got(v, p - Len(q)) \/ (v[Len(v)].req = p - Len(q) + 1 /\ Len(q) > 0)
  <2>1. CASE o = << >>
    BY <1>8, <2>1, Zenon DEF Good
  <2>2. CASE o # << >>
    BY <1>1, <1>9, <2>2
  <2> QED BY <2>1, <2>2, Zenon
<1>12. Whole(g[h], Got(v, h))
  <2>1. Got(v, h) <=> Ended(f[h], Got(w, h))
    <3>1. CASE o = << >>
      BY <1>8, <3>1, Zenon DEF Ended, Got
    <3>2. CASE o # << >>
      BY <1>9, <3>2 DEF Ended, Got
    <3> QED BY <3>1, <3>2, Zenon
  <2>2. Ended(g[h], Got(v, h)) <=> Got(v, h)
    BY Zenon DEF Ended, Got
  <2>3. 1 .. Len(g[h].output) = {} /\ 1 .. Len(g[h].output) - 1 = {}
    <3>1. Len(g[h].output) = 0
      BY EmptySeq, Zenon
    <3> QED BY <3>1
  <2>4. f[h].kind \notin Twice /\ f[h].stage \in {"get", "command"} => ~ Got(v, h)
    <3>1. ASSUME f[h].kind \notin Twice, f[h].stage \in {"get", "command"}
          PROVE  ~ Got(w, h) /\ \A k \in 1..Len(o) : o[k] # "tail"
      BY <1>3, <3>1, Zenon DEF Whole
    <3>2. o # << >> => Len(o) \in 1..Len(o)
      BY <1>4
    <3> QED BY <2>1, <3>1, <3>2, Zenon DEF Ended
  <2> QED BY <1>3, <2>1, <2>2, <2>3, <2>4, Zenon DEF Whole
<1>13. ASSUME NEW i \in p - Len(q) + 1 .. p PROVE Whole(g[i], Got(v, i))
  <2>1. CASE i = h
    BY <1>12, <2>1, Zenon
  <2>2. CASE i # h
    <3>1. i \in Reqs \ {h} /\ i > h
      BY <1>1, <1>13, <2>2, ServingBounds DEF Kept, Reqs
    <3>2. ~ Got(w, i)
      <4>1. ASSUME Got(w, i) PROVE FALSE
        <5>1. w # << >> /\ w[Len(w)].req = i
          BY <4>1 DEF Got
        <5>2. w[Len(w)].req = p - Len(q) \/ w[Len(w)].req = p - Len(q) + 1
          BY <5>1 DEF Good, Got
        <5> QED BY <1>1, <3>1, <5>1, <5>2
      <4> QED BY <4>1, Zenon
    <3>3. ~ Got(v, i)
      BY <1>8, <1>9, <3>2, <2>2 DEF Got
    <3>4. Whole(f[i], Got(w, i)) /\ g[i] = f[i]
      BY <1>13, <3>1, Zenon DEF Good
    <3> QED BY <3>2, <3>3, <3>4, Got(w, i) \in BOOLEAN, Got(v, i) \in BOOLEAN, Zenon DEF Got
  <2> QED BY <2>1, <2>2, Zenon
<1>14. Good(p, q, g, v)
    BY <1>10, <1>11, <1>13, Zenon DEF Good
<1> QED BY <1>5, <1>7, <1>14, Zenon

(* The first request, whose output was written and which is done, goes. *)
LEMMA Goes ==
    ASSUME NEW p, NEW q, NEW f, NEW w, Kept(p, q, f, w), Good(p, q, f, w), q # << >>,
           NEW h, h = Head(q), f[h].output = << >>, f[h].done > 0,
           NEW g \in [Reqs -> Records],
           \A i \in Reqs \ {h} : g[i] = f[i], g[h].kind = f[h].kind
    PROVE  Kept(p, Tail(q), g, w) /\ Good(p, Tail(q), g, w)
<1>1. h \in Reqs /\ h = p - Len(q) + 1 /\ p - Len(q) \in Nat /\ Len(q) \in Nat \ {0}
      /\ p \in Nat /\ h \in p - Len(q) + 1 .. p /\ Len(Tail(q)) = Len(q) - 1
    BY FirstAndRest
<1>2. \A i \in Reqs : g[i].kind = f[i].kind
    BY <1>1, Zenon
<1>3. Kept(p, Tail(q), g, w)
    BY <1>2, KeptRest, KeptKinds, Zenon
<1>4. p - Len(Tail(q)) = h
    BY <1>1
<1>5. Got(w, h)
  <2>1. Whole(f[h], Got(w, h))
    BY <1>1, Zenon DEF Good
  <2> QED BY <2>1, Zenon DEF Whole, Ended
<1>6. w # << >> /\ Len(w) \in 1..Len(w) /\ w[Len(w)] = [req |-> h, part |-> "tail"]
    BY <1>5, WireOf DEF Got
<1>7. \A i \in 1..h : \E k \in 1..Len(w) : w[k] = [req |-> i, part |-> "tail"]
  <2>1. \A i \in 1..h : i = h \/ i \in 1 .. p - Len(q)
    BY <1>1
  <2> QED BY <1>6, <2>1, Zenon DEF Good
<1>8. \A i \in h + 1 .. p : Whole(g[i], Got(w, i))
  <2>1. \A i \in h + 1 .. p : i \in p - Len(q) + 1 .. p /\ i \in Reqs \ {h}
    BY <1>1, ServingBounds DEF Kept, Reqs
  <2>2. \A i \in h + 1 .. p : Whole(f[i], Got(w, i)) /\ g[i] = f[i]
    BY <2>1, Zenon DEF Good
  <2> QED BY <2>2, Zenon
<1> QED BY <1>3, <1>4, <1>5, <1>7, <1>8, Zenon DEF Good

-----------------------------------------------------------------------------
(* Steps of the worker *)

Exist(f) == \A i \in Reqs : f[i].stage # "over" /\ f[i].done = 0 => f[i].alive

(* Update, with the requests q and their states f that the handler leaves: the
   connection stays, and a request may be made of the next message ... *)
LEMMA UpdateOpen ==
    ASSUME NEW n \in Nat, n <= MaxReqs, NEW q, NEW f, NEW w, Update(n, q, f),
           conn = "open", conn' = "open", parsed <= n,
           Kept(parsed, q, f, w), Good(parsed, q, f, w)
    PROVE  /\ parsed' \in 0..n
           /\ Kept(parsed', requests', req', w) /\ Good(parsed', requests', req', w)
           /\ Exist(f) => Exist(req')
<1>1. parsed \in Nat /\ MaxReqs \in Nat /\ f \in [Reqs -> Records]
    BY ServingBounds DEF Kept
<1>2. CASE parsed' = parsed /\ requests' = q /\ req' = f
    BY <1>1, <1>2
<1>3. ASSUME NEW kind \in Kinds \ {"bad"}, parsed < n, parsed' = parsed + 1,
             requests' = Append(q, parsed + 1),
             req' = [f EXCEPT ![parsed + 1] = process_request(kind)]
      PROVE  /\ parsed' \in 0..n
             /\ Kept(parsed', requests', req', w) /\ Good(parsed', requests', req', w)
             /\ Exist(f) => Exist(req')
  <2>1. parsed + 1 \in Reqs /\ parsed' \in 0..n
    BY <1>1, <1>3 DEF Reqs
  <2>2. Kept(parsed', requests', req', w) /\ Good(parsed', requests', req', w)
    BY <1>3, <2>1, Starts, Zenon
  <2>3. process_request(kind).alive
    BY NewRequest, Zenon DEF Whole
  <2>4. Exist(f) => Exist(req')
    BY <1>1, <1>3, <2>1, <2>3, Zenon DEF Exist
  <2> QED BY <2>1, <2>2, <2>4, Zenon
<1>4. \/ parsed' = parsed /\ requests' = q /\ req' = f
      \/ \E kind \in Kinds \ {"bad"} :
            /\ parsed < n /\ parsed' = parsed + 1 /\ requests' = Append(q, parsed + 1)
            /\ req' = [f EXCEPT ![parsed + 1] = process_request(kind)]
    BY Zenon DEF Update
<1> QED BY <1>2, <1>3, <1>4, Zenon

(* ... or the connection is closed. *)
LEMMA UpdateClosed ==
    ASSUME NEW n, NEW q, NEW f, Update(n, q, f), conn = "open", conn' # "open"
    PROVE  /\ parsed' = parsed /\ requests' = q /\ req' = f
           /\ conn' \in {"closed", "gone"} /\ (conn' = "closed" => q # << >>)
BY Zenon DEF Update, eof_handler

(* Steps that leave the requests alone. *)
LEMMA QuietSteps ==
    ASSUME IInv, Accept \/ Eof \/ OutputNothing \/ OutputError \/ OutputCheck \/ UNCHANGED vars
    PROVE  IInv'
<1>1. UNCHANGED <<sent, parsed, requests, req, wire>>
    BY Zenon DEF Accept, Eof, OutputNothing, OutputError, OutputCheck, vars
<1>2. Types' /\ Handler'
  <2>1. CASE OutputCheck
    <3>1. PICK d \in BOOLEAN : d <=> req[First].done > 0
      BY Zenon
    <3>2. d = (req[First].done > 0)
      BY <3>1
    <3>3. worker' = [pc |-> "output", done |-> d]
      BY <2>1, <3>2, Zenon DEF OutputCheck
    <3>4. conn' = "open" /\ conn = "open" /\ requests # << >>
      BY <2>1, Zenon DEF OutputCheck, InMux
    <3>5. Types'
      BY <1>1, <3>3, <3>4, Zenon DEF IInv, Types
    <3>6. worker'.pc = "output" /\ (worker'.done => d)
      BY <3>3, Zenon
    <3> QED BY <1>1, <3>1, <3>4, <3>5, <3>6, Zenon DEF Handler, First
  <2>2. CASE Accept \/ UNCHANGED vars
    BY <1>1, <2>2, Zenon DEF IInv, Types, Handler, First, Accept, vars
  <2>3. CASE Eof \/ OutputNothing \/ OutputError
    BY <1>1, <2>3, Zenon DEF IInv, Types, Handler, First, Eof, OutputNothing, OutputError,
                      eof_handler, InMux
  <2> QED BY <2>1, <2>2, <2>3, Zenon
<1>3. Kept(parsed, requests, req, wire)'
    BY <1>1, Zenon DEF IInv
<1>4. conn' \in {"queued", "open"} => conn \in {"queued", "open"}
    BY Zenon DEF Accept, Eof, OutputNothing, OutputError, OutputCheck, vars, eof_handler, InMux
<1>5. (conn \in {"queued", "open"} => Good(parsed, requests, req, wire))'
    BY <1>1, <1>4, Zenon DEF IInv
<1>6. (~ Slow => ExistsUntilDone)'
    BY <1>1, Zenon DEF IInv, ExistsUntilDone, InFlight
<1> QED BY <1>2, <1>3, <1>5, <1>6, Zenon DEF IInv

(* A part of the requests arrive. *)
LEMMA InputStep ==
    ASSUME IInv, Input
    PROVE  IInv'
<1>1. PICK n \in sent + 1 .. MaxReqs : sent' = n /\ Update(n, requests, req)
    BY Zenon DEF Input
<1>2. conn = "open" /\ worker.pc = "mux" /\ UNCHANGED <<worker, wire>>
    BY Zenon DEF Input, InMux
<1>3. n \in Nat /\ n <= MaxReqs /\ parsed <= n /\ parsed \in 0..n /\ sent' \in 0..MaxReqs
    BY <1>1, ServingBounds DEF IInv, Types
<1>4. Kept(parsed, requests, req, wire) /\ Good(parsed, requests, req, wire)
    BY <1>2, Zenon DEF IInv
<1>5. ~ Slow => Exist(req)
    BY Zenon DEF IInv, ExistsUntilDone, InFlight, Exist
<1>6. CASE conn' = "open"
  <2>1. /\ parsed' \in 0..n /\ (Exist(req) => Exist(req'))
        /\ Kept(parsed', requests', req', wire) /\ Good(parsed', requests', req', wire)
    BY <1>1, <1>2, <1>3, <1>4, <1>6, UpdateOpen, Zenon
  <2>2. Types' /\ Handler'
    BY <1>1, <1>2, <1>3, <1>6, <2>1, Zenon DEF IInv, Types, Handler
  <2>3. (~ Slow => ExistsUntilDone)'
    BY <1>5, <2>1, Zenon DEF ExistsUntilDone, InFlight, Exist
  <2> QED BY <1>2, <2>1, <2>2, <2>3, Zenon DEF IInv
<1>7. CASE conn' # "open"
  <2>1. /\ parsed' = parsed /\ requests' = requests /\ req' = req
        /\ conn' \in {"closed", "gone"} /\ (conn' = "closed" => requests # << >>)
    BY <1>1, <1>2, <1>7, UpdateClosed, Zenon
  <2>2. Types' /\ Handler'
    BY <1>1, <1>2, <1>3, <2>1, Zenon DEF IInv, Types, Handler
  <2>3. (~ Slow => ExistsUntilDone)'
    BY <1>5, <2>1, Zenon DEF ExistsUntilDone, InFlight, Exist
  <2> QED BY <1>2, <1>4, <2>1, <2>2, <2>3, Zenon DEF IInv
<1> QED BY <1>6, <1>7, Zenon

(* The output handler takes the output of the first request. *)
LEMMA OutputTakeStep ==
    ASSUME IInv, OutputTake
    PROVE  IInv'
<1> DEFINE h == First
           o == req[h].output
           v == wire \o Out(h, o)
           f == [req EXCEPT ![h].output = << >>]
<1>1. /\ worker.pc = "output" /\ conn = "open" /\ requests # << >>
      /\ worker' = [pc |-> "mux", done |-> FALSE] /\ sent' = sent
      /\ wire' = IF conn' = "open" THEN v ELSE wire
    BY Zenon DEF IInv, Handler, OutputTake, Out
<1>2. Kept(parsed, requests, req, wire) /\ Good(parsed, requests, req, wire)
    BY <1>1, Zenon DEF IInv
<1>3. /\ req \in [Reqs -> Records] /\ h \in Reqs /\ h \in parsed - Len(requests) + 1 .. parsed
      /\ sent \in Nat /\ sent <= MaxReqs /\ parsed <= sent /\ sent \in 0..MaxReqs
      /\ parsed \in 0..sent
    BY <1>1, <1>2, FirstAndRest, ServingBounds DEF IInv, Types, Kept, First
<1>4. req[h].alive
    BY <1>2, <1>3, Zenon DEF Good, Whole
<1>5. ~ Slow => Exist(req)
    BY Zenon DEF IInv, ExistsUntilDone, InFlight, Exist
<1>6. /\ f \in [Reqs -> Records] /\ \A i \in Reqs \ {h} : f[i] = req[i]
      /\ f[h].alive = req[h].alive /\ f[h].kind = req[h].kind /\ f[h].stage = req[h].stage
      /\ f[h].done = req[h].done /\ f[h].output = << >>
    BY <1>3, EmptySeq, Zenon DEF Records
<1>7. Kept(parsed, requests, f, v) /\ Good(parsed, requests, f, v)
  <2> HIDE DEF f, v
  <2> QED BY <1>1, <1>2, <1>4, <1>6, Takes, Zenon DEF v, First
<1>8. CASE ~ worker.done
  <2>1. req' = f /\ UNCHANGED <<conn, parsed, requests, armed>> /\ wire' = v
    BY <1>1, <1>8, Zenon DEF OutputTake
  <2> HIDE DEF f, v
  <2>2. Exist(req) => Exist(f)
    BY <1>3, <1>6, Zenon DEF Exist
  <2>3. (~ Slow => ExistsUntilDone)'
    BY <1>5, <2>1, <2>2, Zenon DEF ExistsUntilDone, InFlight, Exist
  <2>4. Types' /\ Handler'
    BY <1>1, <1>3, <2>1, Zenon DEF IInv, Types, Handler
  <2> QED BY <1>7, <2>1, <2>3, <2>4, Zenon DEF IInv
<1>9. CASE worker.done
  <2> DEFINE g == Destroyed(h)
             q == Tail(requests)
  <2>1. Update(sent, q, g)
    BY <1>9, Zenon DEF OutputTake
  <2>2. /\ g \in [Reqs -> Records] /\ \A i \in Reqs \ {h} : g[i] = req[i]
        /\ g[h].kind = req[h].kind /\ g[h].done = req[h].done
    BY <1>3, EmptySeq, ZenonT(60) DEF Records, Destroyed
  <2>3. req[h].done > 0
    BY <1>1, <1>9, Zenon DEF IInv, Handler
  <2> HIDE DEF f, v, g, q
  <2>4. Exist(req) => Exist(g)
    <3>1. g[h].done # 0
      BY <1>3, <2>2, <2>3 DEF Records
    <3> QED BY <2>2, <3>1, Zenon DEF Exist
  <2>5. CASE conn' = "open"
    <3>1. Kept(parsed, q, g, v) /\ Good(parsed, q, g, v)
      <4>1. f[h].done > 0 /\ f[h].output = << >> /\ g[h].kind = f[h].kind
            /\ \A i \in Reqs \ {h} : g[i] = f[i]
        BY <1>6, <2>2, <2>3, Zenon
      <4>2. h = Head(requests) /\ q = Tail(requests) /\ requests # << >>
        BY <1>1, Zenon DEF q, First
      <4>3. g \in [Reqs -> Records]
        BY <2>2, Zenon
      <4> HIDE DEF h
      <4> QED BY <1>7, <4>1, <4>2, <4>3, Goes, Zenon
    <3>2. /\ parsed' \in 0..sent /\ (Exist(g) => Exist(req'))
          /\ Kept(parsed', requests', req', v) /\ Good(parsed', requests', req', v)
      BY <1>1, <1>3, <2>1, <2>5, <3>1, UpdateOpen, Zenon
    <3>3. (~ Slow => ExistsUntilDone)'
      BY <1>5, <2>4, <3>2, Zenon DEF ExistsUntilDone, InFlight, Exist
    <3>4. Types' /\ Handler'
      BY <1>1, <1>3, <2>5, <3>2, Zenon DEF Types, Handler
    <3> QED BY <1>1, <2>5, <3>2, <3>3, <3>4, Zenon DEF IInv
  <2>6. CASE conn' # "open"
    <3>1. /\ parsed' = parsed /\ requests' = q /\ req' = g /\ wire' = wire
          /\ conn' \in {"closed", "gone"} /\ (conn' = "closed" => q # << >>)
      BY <1>1, <2>1, <2>6, UpdateClosed, Zenon
    <3>2. Kept(parsed, q, g, wire)
      <4>1. \A i \in Reqs : g[i].kind = req[i].kind
        BY <1>3, <2>2, Zenon
      <4>2. Kept(parsed, requests, g, wire)
        BY <1>2, <2>2, <4>1, KeptKinds, Zenon
      <4> QED BY <1>1, <4>2, KeptRest, Zenon DEF q
    <3>3. (~ Slow => ExistsUntilDone)'
      BY <1>5, <2>4, <3>1, Zenon DEF ExistsUntilDone, InFlight, Exist
    <3>4. Types' /\ Handler'
      BY <1>1, <1>3, <3>1, Zenon DEF Types, Handler
    <3> QED BY <3>1, <3>2, <3>3, <3>4, Zenon DEF IInv
  <2> QED BY <2>5, <2>6, Zenon
<1> QED BY <1>8, <1>9, Zenon

(* The worker looks after a closed connection. *)
LEMMA PruneStep ==
    ASSUME IInv, Prune
    PROVE  IInv'
<1>1. /\ conn = "closed" /\ requests # << >> /\ worker.pc = "mux"
      /\ UNCHANGED <<sent, parsed, armed, worker, wire>>
    BY Zenon DEF IInv, Types, Handler, Prune, PruneRequest, PruneOld
<1>2. Kept(parsed, requests, req, wire) /\ req \in [Reqs -> Records]
    BY Zenon DEF IInv, Kept
<1>3. ~ Slow => Exist(req)
    BY Zenon DEF IInv, ExistsUntilDone, InFlight, Exist
<1>4. CASE PruneRequest
  <2> DEFINE h == First
             g == Destroyed(h)
  <2>1. /\ req' = g /\ requests' = Tail(requests) /\ req[h].done > 0
        /\ conn' \in {"closed", "gone"} /\ (conn' = "closed" => requests' # << >>)
    BY <1>4, Zenon DEF PruneRequest
  <2>2. h \in Reqs
    BY <1>1, <1>2, FirstAndRest, Zenon DEF First
  <2>3. /\ g \in [Reqs -> Records] /\ \A i \in Reqs \ {h} : g[i] = req[i]
        /\ g[h].kind = req[h].kind /\ g[h].done = req[h].done
    BY <1>2, <2>2, EmptySeq, ZenonT(60) DEF Records, Destroyed
  <2> HIDE DEF g
  <2>4. Kept(parsed, Tail(requests), g, wire)
    <3>1. \A i \in Reqs : g[i].kind = req[i].kind
      BY <2>2, <2>3, Zenon
    <3>2. Kept(parsed, requests, g, wire)
      BY <1>2, <2>3, <3>1, KeptKinds, Zenon
    <3> QED BY <1>1, <3>2, KeptRest, Zenon
  <2>5. Exist(req) => Exist(g)
    <3>1. req[h].done > 0
      BY <2>1, Zenon
    <3>2. g[h].done # 0
      BY <1>2, <2>2, <2>3, <3>1 DEF Records
    <3> QED BY <2>3, <3>2, Zenon DEF Exist
  <2>6. (~ Slow => ExistsUntilDone)'
    BY <1>3, <2>1, <2>5, Zenon DEF ExistsUntilDone, InFlight, Exist
  <2>7. Types' /\ Handler'
    BY <1>1, <2>1, Zenon DEF IInv, Types, Handler
  <2> QED BY <1>1, <2>1, <2>4, <2>6, <2>7, Zenon DEF IInv
<1>5. CASE PruneOld
  <2>1. /\ req' = [i \in Reqs |-> [req[i] EXCEPT !.alive = FALSE, !.output = << >>]]
        /\ requests' = << >> /\ conn' = "gone" /\ (Slow \/ \A i \in Reqs : ~ InFlight(i))
    BY <1>5, Zenon DEF PruneOld
  <2>2. \A i \in Reqs : req'[i] \in Records /\ req'[i].kind = req[i].kind
                        /\ req'[i].stage = req[i].stage
    BY <1>2, <2>1, EmptySeq, Zenon DEF Records
  <2>3. req' \in [Reqs -> Records]
    BY <2>1, <2>2, Zenon
  <2>4. Kept(parsed, requests, req', wire)
    BY <1>2, <2>2, <2>3, KeptKinds, Zenon
  <2>5. Len(<< >>) = 0 /\ << >> \in Seq(Reqs) /\ parsed \in Nat
    BY <1>2, EmptySeq, ServingBounds DEF Kept
  <2>6. parsed - Len(<< >>) \in Nat /\ 1..Len(<< >>) = {}
    BY <2>5
  <2>7. Kept(parsed, << >>, req', wire)
    BY <2>4, <2>5, <2>6, Zenon DEF Kept
  <2>8. (~ Slow => ExistsUntilDone)'
    BY <2>1, <2>2, Zenon DEF ExistsUntilDone, InFlight
  <2>9. Types' /\ Handler'
    BY <1>1, <2>1, Zenon DEF IInv, Types, Handler
  <2> QED BY <1>1, <2>1, <2>7, <2>8, <2>9, Zenon DEF IInv
<1> QED BY <1>4, <1>5, Zenon DEF Prune

-----------------------------------------------------------------------------
(* Theorems *)

LEMMA Initially == Init => IInv
<1> SUFFICES ASSUME Init PROVE IInv
    BY Zenon
<1>1. Types /\ Handler
    BY ServingBounds DEF Init, Types, Handler
<1>2. Unborn \in Records /\ Unborn.stage = "over"
    BY EmptySeq, Zenon DEF Unborn, Records, Stages
<1>3. req \in [Reqs -> Records] /\ \A i \in Reqs : req[i].stage = "over"
    BY <1>2, Zenon DEF Init
<1>4. Len(<< >>) = 0 /\ << >> \in Seq(Reqs) /\ << >> \in Seq(Written)
    BY EmptySeq, Zenon
<1>5. /\ 0 - Len(<< >>) = 0 /\ 0 \in Nat /\ 0 \in 0..MaxReqs /\ 1..Len(<< >>) = {}
      /\ 1 .. Len(<< >>) - 1 = {} /\ 1..0 = {} /\ 0 + 1 .. 0 = {}
  <2>1. ASSUME NEW n, n = 0
        PROVE  0 - n = 0 /\ 1..n = {} /\ 1 .. n - 1 = {} /\ 1..0 = {} /\ 0 + 1 .. 0 = {}
    BY <2>1
  <2>2. 0 \in Nat /\ 0 \in 0..MaxReqs
    BY ServingBounds
  <2> QED BY <1>4, <2>1, <2>2, Zenon
<1>6. parsed = 0 /\ requests = << >> /\ wire = << >>
    BY Zenon DEF Init
<1>7. Kept(parsed, requests, req, wire)
    BY <1>3, <1>4, <1>5, <1>6, Zenon DEF Kept, Ordered
<1>8. Good(parsed, requests, req, wire)
    BY <1>5, <1>6, Zenon DEF Good
<1>9. ExistsUntilDone
    BY <1>3, Zenon DEF ExistsUntilDone, InFlight
<1> QED BY <1>1, <1>7, <1>8, <1>9, Zenon DEF IInv

(* The inductive invariant: what the context, the output of its requests and the
   wire have to do with each other, after every step of the worker and of the
   threads that answer. *)
THEOREM Invariant == Spec => []IInv
<1>1. IInv /\ [Next]_vars => IInv'
  <2> SUFFICES ASSUME IInv, [Next]_vars PROVE IInv'
    BY Zenon
  <2>1. CASE Accept \/ Eof \/ OutputNothing \/ OutputError \/ OutputCheck \/ UNCHANGED vars
    BY <2>1, QuietSteps, Zenon
  <2>2. CASE Input
    BY <2>2, InputStep, Zenon
  <2>3. CASE OutputTake
    BY <2>3, OutputTakeStep, Zenon
  <2>4. CASE Prune
    BY <2>4, PruneStep, Zenon
  <2>5. ASSUME NEW i \in Reqs, GetData(i) \/ Finish(i) PROVE IInv'
    BY <2>5, ThreadSteps, Zenon
  <2> QED BY <2>1, <2>2, <2>3, <2>4, <2>5, Zenon DEF Next, Output
<1> QED BY <1>1, Initially, PTL DEF Spec

(* The answers reach the client in the order of its requests and whole, however many
   requests it sends and whoever answers them when: shardcache_output_handler writes
   for the first request only, and does not go on to the next before done. *)
THEOREM AnswersInOrder == Spec => []InOrder
<1>1. IInv => InOrder
    BY Zenon DEF IInv, Kept, Ordered, Follows, InOrder, Twice
<1> QED BY <1>1, Invariant, PTL

(* No request leaves an open connection unanswered: done is read before the output
   is taken, and counted after the end of the answer was put there. *)
THEOREM NothingLeftBehind == Spec => []NothingLost
<1>1. IInv => NothingLost
  <2> SUFFICES ASSUME IInv, conn = "open", NEW i \in 1..parsed
               PROVE  req[i].alive \/ Answered(i)
    BY Zenon DEF NothingLost
  <2>1. Good(parsed, requests, req, wire) /\ wire \in Seq(Written) /\ parsed \in Nat
        /\ parsed - Len(requests) \in Nat /\ Len(requests) \in Nat
    BY ServingBounds DEF IInv, Kept
  <2>2. CASE i \in 1 .. parsed - Len(requests)
    <3>1. DOMAIN wire = 1..Len(wire)
      BY <2>1, LenProperties, Zenon
    <3> QED BY <2>1, <2>2, <3>1, Zenon DEF Good, Answered
  <2>3. CASE i \in parsed - Len(requests) + 1 .. parsed
    BY <2>1, <2>3, Zenon DEF Good, Whole
  <2> QED BY <2>1, <2>2, <2>3
<1> QED BY <1>1, Invariant, PTL

(* Where no answer takes longer than a minute, a thread that has yet to answer a
   request finds it, also when the client has gone: the worker destroys only what
   is done. *)
THEOREM RequestsOutlive ==
    ASSUME ~ Slow
    PROVE  Spec => []ExistsUntilDone
<1>1. IInv => ExistsUntilDone
    BY Zenon DEF IInv
<1> QED BY <1>1, Invariant, PTL

-----------------------------------------------------------------------------
(* The migration of the keys *)

MigType ==
    [pc : {"none", "index", "scan", "copy", "wait", "ended"}, todo : SUBSET Keys,
     key : Keys \cup {"none"}, del : SUBSET Keys, errors : BOOLEAN]

ReqType ==
    [st : {"none", "test", "test again", "store", "done", "failed"},
     key : Keys \cup {"none"}, val : Values \cup {NoVal}, at : Nodes \cup {"none"}]

(* The values of the variables KeyKept depends on. *)
MigrationTypes ==
    /\ store \in [Nodes -> [Keys -> Values \cup {NoVal}]]
    /\ mig \in [Nodes -> MigType]
    /\ request \in [Requests -> ReqType]
    /\ latest \in [Keys -> Values \cup {NoVal}]
    /\ crossed \in SUBSET Keys
    /\ returned \in SUBSET Keys

(* A request under way is for a key and at a node, and about to be stored at one of
   the two owners; so no other node has the key. *)
Places ==
    /\ \A r \in Requests : UnderWay(r) =>
          /\ request[r].key \in Keys /\ request[r].at \in Nodes
          /\ request[r].st = "store" => request[r].at \in {Old[request[r].key], New[request[r].key]}
    /\ \A n \in Nodes, k \in Keys : store[n][k] # NoVal => n \in {Old[k], New[k]}

(* What a migration thread copies and removes is a key it had and gives away. *)
Leaving ==
    /\ \A n \in Nodes : mig[n].pc \in {"copy", "wait"} =>
          mig[n].key \in Keys /\ New[mig[n].key] # n
    /\ \A n \in Nodes, k \in Keys :
          UnderWay(<<n, k>>) =>
             /\ request[<<n, k>>].key = k /\ request[<<n, k>>].val # NoVal
             /\ n = Old[k] /\ n # New[k]
    /\ \A n \in Nodes : \A k \in mig[n].del : n = Old[k] /\ n # New[k]
    /\ \A n \in Nodes : mig[n].pc = "wait" => n = Old[mig[n].key]

(* The copy of k that n made has arrived, and n may still have to learn of it. *)
Arrived(n, k) ==
    \/ k \in mig[n].del
    \/ mig[n].pc = "wait" /\ mig[n].key = k /\ request[<<n, k>>].st = "done"

(* All places a key is in agree on its value, and so do its copies; a node that
   waits for its copy still has it, and the new owner has it once it has arrived. *)
Agreed(k) ==
    /\ \A n \in Nodes : store[n][k] \in {NoVal, latest[k]}
    /\ latest[k] # NoVal => \E n \in Nodes : store[n][k] = latest[k]
    /\ \A n \in Nodes : UnderWay(<<n, k>>) => request[<<n, k>>].val = latest[k]
    /\ \A n \in Nodes : mig[n].pc = "wait" /\ mig[n].key = k /\ UnderWay(<<n, k>>) =>
          store[n][k] = latest[k]
    /\ \A n \in Nodes : Arrived(n, k) =>
          /\ latest[k] # NoVal
          /\ store[n][k] = latest[k] /\ store[New[k]][k] = latest[k]

PlacesInv ==
    /\ MigrationTypes
    /\ Places
    /\ Leaving
    /\ \A k \in Keys \ (crossed \cup returned) : Agreed(k)

-----------------------------------------------------------------------------
(* The initial states: a key is with its old owner, and nothing is under way. *)
LEMMA InitPlaces == MigrationInit => PlacesInv
<1> SUFFICES ASSUME MigrationInit PROVE PlacesInv
    BY Zenon
<1>1. MigrationTypes
    BY Continua, Names, Zenon DEF MigrationInit, MigrationTypes, MigType, ReqType, Values, Idle, NoReq
<1>2. \A r \in Requests : ~ UnderWay(r)
    BY Zenon DEF MigrationInit, UnderWay, NoReq
<1>3. \A n \in Nodes, k \in Keys : <<n, k>> \in Requests
    BY Zenon DEF Requests, Copies
<1>4. Places
    BY <1>2, Zenon DEF MigrationInit, Places
<1>5. Leaving
    BY <1>2, <1>3, Zenon DEF MigrationInit, Leaving, Idle
<1>6. \A k \in Keys : Agreed(k)
    BY <1>2, <1>3, Continua, Zenon DEF MigrationInit, Agreed, Arrived, Idle
<1> QED BY <1>1, <1>4, <1>5, <1>6, Zenon DEF PlacesInv

(* Copies are requests. *)
LEMMA CopiesAreRequests ==
    ASSUME NEW n \in Nodes, NEW k \in Keys
    PROVE  <<n, k>> \in Requests /\ <<n, k>> \notin Writers
BY Names DEF Requests, Copies

(* A step of the migration thread of n. *)
LEMMA MigChange ==
    ASSUME MigrationTypes, NEW n \in Nodes, NEW x \in MigType, mig' = [mig EXCEPT ![n] = x]
    PROVE  /\ mig' \in [Nodes -> MigType] /\ mig'[n] = x
           /\ \A m \in Nodes \ {n} : mig'[m] = mig[m]
BY Zenon DEF MigrationTypes

(* A step of request r. *)
LEMMA ReqChange ==
    ASSUME MigrationTypes, NEW r \in Requests, NEW x \in ReqType, request' = [request EXCEPT ![r] = x]
    PROVE  /\ request' \in [Requests -> ReqType] /\ request'[r] = x
           /\ \A q \in Requests \ {r} : request'[q] = request[q]
BY Zenon DEF MigrationTypes

(* A step that stores nothing, starts no request and learns of none: requests may
   fail or be forgotten, and a migration thread may turn to another key. *)
LEMMA QuietStep ==
    ASSUME PlacesInv, MigrationTypes', UNCHANGED <<store, hist>>,
           \A r \in Requests : request'[r] = request[r] \/ request'[r].st \in {"none", "failed"},
           \A m \in Nodes : mig'[m].del \subseteq mig[m].del,
           \A m \in Nodes : mig'[m].pc = "wait" =>
              mig[m].pc = "wait" /\ mig'[m].key = mig[m].key,
           \A m \in Nodes : mig'[m].pc = "copy" =>
              mig'[m].key \in Keys /\ New[mig'[m].key] # m
    PROVE  PlacesInv'
<1>1. \A r \in Requests : UnderWay(r)' => UnderWay(r) /\ request'[r] = request[r]
    BY Zenon DEF UnderWay
<1>2. store' = store /\ latest' = latest /\ crossed' = crossed /\ returned' = returned
    BY Zenon DEF hist
<1>3. Places'
    BY <1>1, <1>2, Zenon DEF PlacesInv, Places, UnderWay
<1>4. Leaving'
    BY <1>1, <1>2, CopiesAreRequests DEF PlacesInv, Leaving
<1>5. ASSUME NEW k \in Keys \ (crossed \cup returned) PROVE Agreed(k)'
  <2>1. Agreed(k)
    BY Zenon DEF PlacesInv
  <2>2. \A m \in Nodes : Arrived(m, k)' => Arrived(m, k)
    BY <1>1, CopiesAreRequests, Zenon DEF Arrived
  <2> QED BY <1>1, <1>2, <2>1, <2>2, CopiesAreRequests DEF Agreed
<1> QED BY <1>2, <1>3, <1>4, <1>5, Zenon DEF PlacesInv

(* A request goes from one state under way to another, or is the new one of a
   client. *)
LEMMA RoutedStep ==
    ASSUME PlacesInv, MigrationTypes', UNCHANGED <<store, mig, hist>>,
           NEW r \in Requests,
           \A q \in Requests \ {r} : request'[q] = request[q],
           r \in Writers \/
              (UnderWay(r) /\ request'[r].key = request[r].key /\ request'[r].val = request[r].val),
           UnderWay(r)', request'[r].key \in Keys, request'[r].at \in Nodes,
           request'[r].st = "store" =>
              request'[r].at \in {Old[request'[r].key], New[request'[r].key]}
    PROVE  PlacesInv'
<1>1. \A n \in Nodes, k \in Keys : UnderWay(<<n, k>>)' =>
         UnderWay(<<n, k>>) /\ request'[<<n, k>>].key = request[<<n, k>>].key
                            /\ request'[<<n, k>>].val = request[<<n, k>>].val
    BY CopiesAreRequests, Zenon DEF UnderWay
<1>2. store' = store /\ latest' = latest /\ crossed' = crossed /\ returned' = returned
      /\ mig' = mig
    BY Zenon DEF hist
<1>3. Places'
    BY <1>2, ZenonT(60) DEF PlacesInv, Places, UnderWay
<1>4. Leaving'
    BY <1>1, <1>2, CopiesAreRequests DEF PlacesInv, Leaving
<1>5. ASSUME NEW k \in Keys \ (crossed \cup returned) PROVE Agreed(k)'
  <2>1. Agreed(k)
    BY Zenon DEF PlacesInv
  <2>2. \A m \in Nodes : Arrived(m, k)' => Arrived(m, k)
    BY <1>1, <1>2, CopiesAreRequests, ZenonT(60) DEF Arrived, UnderWay
  <2> QED BY <1>1, <1>2, <2>1, <2>2, CopiesAreRequests DEF Agreed
<1> QED BY <1>2, <1>3, <1>4, <1>5, Zenon DEF PlacesInv

-----------------------------------------------------------------------------
(* A step of the migration thread of n that only changes what it does next. *)
LEMMA QuietThread ==
    ASSUME PlacesInv, NEW n \in Nodes, NEW x \in MigType, mig' = [mig EXCEPT ![n] = x],
           UNCHANGED <<store, request, hist>>, x.del \subseteq mig[n].del, x.pc # "wait",
           x.pc = "copy" => x.key \in Keys /\ New[x.key] # n
    PROVE  PlacesInv'
<1>1. MigrationTypes
    BY Zenon DEF PlacesInv
<1>2. /\ mig' \in [Nodes -> MigType] /\ mig'[n] = x
      /\ \A m \in Nodes \ {n} : mig'[m] = mig[m]
    BY <1>1, MigChange, Zenon
<1>3. MigrationTypes'
    BY <1>1, <1>2, Zenon DEF MigrationTypes, hist
<1> QED BY <1>2, <1>3, QuietStep, ZenonT(60) DEF PlacesInv, Leaving

(* The steps of a migration thread that only change what it does next, and those
   that begin, abort and end a migration. *)
LEMMA QuietMoves ==
    ASSUME PlacesInv, NEW n \in Nodes,
           \/ Hang(n) \/ Abort(n) \/ End(n) \/ Begin(n) \/ shardcache_get_index(n)
           \/ Gone(n) \/ CopyFails(n) \/ FinishThread(n)
           \/ \E k \in Keys : Scan(n, k)
    PROVE  PlacesInv'
<1>0. MigrationTypes /\ mig[n] \in MigType
    BY Zenon DEF PlacesInv, MigrationTypes
<1>1. CASE Hang(n) \/ Abort(n) \/ End(n)
  <2>1. UNCHANGED <<store, mig, request, hist>>
    BY <1>1, Zenon DEF Hang, Abort, End
  <2>2. MigrationTypes'
    BY <1>0, <2>1, Zenon DEF MigrationTypes, hist
  <2> QED BY <2>1, <2>2, QuietStep, Zenon DEF PlacesInv, Leaving
<1>2. CASE Begin(n)
  <2>1. [Idle EXCEPT !.pc = "index"] \in MigType
    BY Zenon DEF Idle, MigType
  <2>2. /\ mig' \in [Nodes -> MigType] /\ mig'[n] = [Idle EXCEPT !.pc = "index"]
        /\ \A m \in Nodes \ {n} : mig'[m] = mig[m]
    BY <1>0, <1>2, <2>1, MigChange, ZenonT(60) DEF Begin
  <2>3. request' \in [Requests -> ReqType]
    BY <1>0, <1>2, Zenon DEF Begin, MigrationTypes, NoReq, ReqType
  <2>4. \A r \in Requests : request'[r] = request[r] \/ request'[r].st \in {"none", "failed"}
    BY <1>2, Zenon DEF Begin, NoReq
  <2>5. UNCHANGED <<store, hist>>
    BY <1>2, Zenon DEF Begin
  <2>6. MigrationTypes'
    BY <1>0, <2>2, <2>3, <2>5, Zenon DEF MigrationTypes, hist
  <2> QED BY <2>2, <2>4, <2>5, <2>6, QuietStep DEF PlacesInv, Leaving, Idle
<1>3. CASE shardcache_get_index(n)
  <2> DEFINE x == [mig[n] EXCEPT !.pc = "scan",
                                 !.todo = {k \in Keys : store[n][k] # NoVal}]
  <2>1. x \in MigType /\ x.del = mig[n].del /\ x.pc = "scan"
    BY <1>0, Zenon DEF MigType
  <2>2. mig' = [mig EXCEPT ![n] = x] /\ UNCHANGED <<store, request, hist>>
    BY <1>3, Zenon DEF shardcache_get_index
  <2> QED BY <2>1, <2>2, QuietThread, ZenonT(60)
<1>4. CASE Gone(n)
  <2> DEFINE x == [mig[n] EXCEPT !.pc = "scan", !.key = "none"]
  <2>1. x \in MigType /\ x.del = mig[n].del /\ x.pc = "scan"
    BY <1>0, Zenon DEF MigType
  <2>2. mig' = [mig EXCEPT ![n] = x] /\ UNCHANGED <<store, request, hist>>
    BY <1>4, Zenon DEF Gone
  <2> QED BY <2>1, <2>2, QuietThread, Zenon
<1>5. CASE CopyFails(n)
  <2> DEFINE x == [mig[n] EXCEPT !.pc = "scan", !.key = "none", !.errors = TRUE]
  <2>1. x \in MigType /\ x.del = mig[n].del /\ x.pc = "scan"
    BY <1>0, Zenon DEF MigType
  <2>2. mig' = [mig EXCEPT ![n] = x] /\ UNCHANGED <<store, request, hist>>
    BY <1>5, Zenon DEF CopyFails
  <2> QED BY <2>1, <2>2, QuietThread, Zenon
<1>6. CASE FinishThread(n)
  <2> DEFINE x == [mig[n] EXCEPT !.pc = "ended"]
  <2>1. x \in MigType /\ x.del = mig[n].del /\ x.pc = "ended"
    BY <1>0, Zenon DEF MigType
  <2>2. mig' = [mig EXCEPT ![n] = x] /\ UNCHANGED <<store, request, hist>>
    BY <1>6, Zenon DEF FinishThread
  <2> QED BY <2>1, <2>2, QuietThread, Zenon
<1>7. ASSUME NEW k \in Keys, Scan(n, k) PROVE PlacesInv'
  <2> DEFINE ab == [mig[n] EXCEPT !.todo = {}, !.del = {}, !.errors = TRUE]
             st == [mig[n] EXCEPT !.todo = mig[n].todo \ {k}]
             go == [mig[n] EXCEPT !.pc = "copy", !.key = k, !.todo = mig[n].todo \ {k}]
  <2>1. ab \in MigType /\ ab.del = {} /\ ab.pc = mig[n].pc
    BY <1>0, Zenon DEF MigType
  <2>2. st \in MigType /\ st.del = mig[n].del /\ st.pc = mig[n].pc
    BY <1>0, Zenon DEF MigType
  <2>3. go \in MigType /\ go.del = mig[n].del /\ go.pc = "copy" /\ go.key = k
    BY <1>0, Zenon DEF MigType
  <2>4. mig[n].pc = "scan" /\ UNCHANGED <<store, request, hist>>
    BY <1>7, Zenon DEF Scan
  <2>5. \/ mig' = [mig EXCEPT ![n] = ab] \/ mig' = [mig EXCEPT ![n] = st]
        \/ New[k] # n /\ mig' = [mig EXCEPT ![n] = go]
    BY <1>7, Zenon DEF Scan
  <2> HIDE DEF ab, st, go
  <2>6. CASE mig' = [mig EXCEPT ![n] = ab]
    BY <2>1, <2>4, <2>6, QuietThread, Zenon
  <2>7. CASE mig' = [mig EXCEPT ![n] = st]
    BY <2>2, <2>4, <2>7, QuietThread, Zenon
  <2>8. CASE New[k] # n /\ mig' = [mig EXCEPT ![n] = go]
    BY <2>3, <2>4, <2>8, QuietThread, Zenon
  <2> QED BY <2>5, <2>6, <2>7, <2>8, Zenon
<1> QED BY <1>1, <1>2, <1>3, <1>4, <1>5, <1>6, <1>7, Zenon

(* A client's request, and the requests that are sent on or fail. *)
LEMMA RoutedSteps ==
    ASSUME PlacesInv,
           \/ \E w \in Writers, n \in Entry, k \in WrittenKeys : \E v \in {w, NoVal} :
                 Write(w, n, k, v)
           \/ \E r \in Requests : TestMigration(r) \/ TestOwnership(r) \/ Refused(r)
    PROVE  PlacesInv'
<1>0. MigrationTypes
    BY Zenon DEF PlacesInv
<1>1. ASSUME NEW w \in Writers, NEW n \in Entry, NEW k \in WrittenKeys, NEW v \in {w, NoVal},
             Write(w, n, k, v)
      PROVE  PlacesInv'
  <2> DEFINE x == [st |-> "test", key |-> k, val |-> v, at |-> n]
  <2>1. w \in Requests /\ n \in Nodes /\ k \in Keys
    BY Continua, Zenon DEF Requests
  <2>2. x \in ReqType
    BY <2>1, Zenon DEF ReqType, Values
  <2>3. request' = [request EXCEPT ![w] = x] /\ UNCHANGED <<store, mig, hist>>
    BY <1>1, Zenon DEF Write
  <2>4. /\ request' \in [Requests -> ReqType] /\ request'[w] = x
        /\ \A q \in Requests \ {w} : request'[q] = request[q]
    BY <1>0, <2>1, <2>2, <2>3, ReqChange, Zenon
  <2>5. MigrationTypes'
    BY <1>0, <2>3, <2>4, Zenon DEF MigrationTypes, hist
  <2> QED BY <2>1, <2>3, <2>4, <2>5, RoutedStep, Zenon DEF UnderWay
<1>2. ASSUME NEW r \in Requests, TestMigration(r) \/ TestOwnership(r) PROVE PlacesInv'
  <2>1. /\ UnderWay(r) /\ request[r].key \in Keys /\ request[r].at \in Nodes
        /\ request[r] \in ReqType
    BY <1>0, <1>2, Zenon DEF PlacesInv, Places, UnderWay, TestMigration, TestOwnership, MigrationTypes
  <2>2. Old[request[r].key] \in Nodes /\ New[request[r].key] \in Nodes
    BY <2>1, Continua, Zenon
  <2>3. \/ Route(r, Old[request[r].key]) \/ Route(r, New[request[r].key])
        \/ request' = [request EXCEPT ![r] = [@ EXCEPT !.st = "test again"]]
    BY <1>2, Zenon DEF TestMigration, TestOwnership, Owner
  <2> DEFINE Moves(x) ==
               /\ request' = [request EXCEPT ![r] = x]
               /\ x.key = request[r].key /\ x.val = request[r].val /\ x.at \in Nodes
               /\ x.st \in {"test", "test again", "store"}
               /\ x.st = "store" => x.at \in {Old[x.key], New[x.key]}
  <2>4. \E x \in ReqType : Moves(x)
    <3>1. ASSUME NEW o \in {Old[request[r].key], New[request[r].key]}, Route(r, o)
          PROVE  \E x \in ReqType : Moves(x)
      <4> DEFINE s == IF o = request[r].at THEN "store" ELSE "test"
                 x == [request[r] EXCEPT !.st = s, !.at = o]
      <4>1. s \in {"test", "store"} /\ o \in Nodes
        BY <2>2, Zenon
      <4>2. request' = [request EXCEPT ![r] = x]
        BY <3>1, Zenon DEF Route
      <4> HIDE DEF s
      <4>3. x \in ReqType /\ x.key = request[r].key /\ x.val = request[r].val /\ x.at = o /\ x.st = s
        BY <2>1, <4>1, Zenon DEF ReqType
      <4> HIDE DEF x
      <4> QED BY <4>1, <4>2, <4>3, Zenon
    <3>2. ASSUME request' = [request EXCEPT ![r] = [@ EXCEPT !.st = "test again"]]
          PROVE  \E x \in ReqType : Moves(x)
      <4> DEFINE x == [request[r] EXCEPT !.st = "test again"]
      <4>1. /\ x \in ReqType /\ x.key = request[r].key /\ x.val = request[r].val /\ x.at = request[r].at
            /\ x.st = "test again"
        BY <2>1, Zenon DEF ReqType
      <4>2. request' = [request EXCEPT ![r] = x]
        BY <3>2, Zenon
      <4> HIDE DEF x
      <4> QED BY <2>1, <4>1, <4>2, Zenon
    <3> HIDE DEF Moves
    <3> QED BY <2>3, <3>1, <3>2, Zenon
  <2>5. PICK x \in ReqType : Moves(x)
    BY <2>4, Zenon
  <2>6. UNCHANGED <<store, mig, hist>>
    BY <1>2, Zenon DEF TestMigration, TestOwnership
  <2>7. /\ request' \in [Requests -> ReqType] /\ request'[r] = x
        /\ \A q \in Requests \ {r} : request'[q] = request[q]
    BY <1>0, <2>5, ReqChange, Zenon
  <2>8. MigrationTypes'
    BY <1>0, <2>6, <2>7, Zenon DEF MigrationTypes, hist
  <2>9. UnderWay(r)'
    BY <2>5, <2>7, ZenonT(60) DEF UnderWay
  <2> QED BY <2>1, <2>5, <2>6, <2>7, <2>8, <2>9, RoutedStep, Zenon
<1>3. ASSUME NEW r \in Requests, Refused(r) PROVE PlacesInv'
  <2> DEFINE x == [NoReq EXCEPT !.st = "failed"]
  <2>1. x \in ReqType /\ x.st = "failed"
    BY Zenon DEF NoReq, ReqType
  <2>2. request' = [request EXCEPT ![r] = x] /\ UNCHANGED <<store, mig, hist>>
    BY <1>3, Zenon DEF Refused
  <2> HIDE DEF x
  <2>3. /\ request' \in [Requests -> ReqType] /\ request'[r] = x
        /\ \A q \in Requests \ {r} : request'[q] = request[q]
    BY <1>0, <2>1, <2>2, ReqChange, Zenon
  <2>4. MigrationTypes'
    BY <1>0, <2>2, <2>3, Zenon DEF MigrationTypes, hist
  <2> QED BY <2>1, <2>2, <2>3, <2>4, QuietStep, Zenon DEF PlacesInv, Leaving
<1> QED BY <1>1, <1>2, <1>3, Zenon

-----------------------------------------------------------------------------
(* A copy is made: its value is the one the key has. *)
LEMMA CopyStep ==
    ASSUME PlacesInv, NEW n \in Nodes, Copy(n)
    PROVE  PlacesInv'
<1> DEFINE k == mig[n].key
           c == <<n, k>>
           x == [st |-> "test", key |-> k, val |-> store[n][k], at |-> New[k]]
           y == [mig[n] EXCEPT !.pc = "wait"]
<1>0. MigrationTypes /\ mig[n] \in MigType
    BY Zenon DEF PlacesInv, MigrationTypes
<1>1. k \in Keys /\ New[k] # n /\ New[k] \in Nodes /\ store[n][k] # NoVal /\ n = Old[k]
    BY Continua DEF PlacesInv, Leaving, Places, Copy
<1>2. c \in Requests /\ c \notin Writers
    BY <1>1, CopiesAreRequests, Zenon
<1>3. request' = [request EXCEPT ![c] = x] /\ mig' = [mig EXCEPT ![n] = y] /\ UNCHANGED <<store, hist>>
    BY Zenon DEF Copy
<1>4. x \in ReqType
  <2>1. store[n][k] \in Values \cup {NoVal}
    BY <1>0, <1>1, Zenon DEF MigrationTypes
  <2> HIDE DEF k
  <2> QED BY <1>1, <2>1, Zenon DEF ReqType
<1>5. y \in MigType /\ y.del = mig[n].del /\ y.pc = "wait" /\ y.key = k
    BY <1>0, Zenon DEF MigType
<1> HIDE DEF y
<1>6. /\ request' \in [Requests -> ReqType] /\ request'[c] = x
      /\ \A q \in Requests \ {c} : request'[q] = request[q]
    BY <1>0, <1>2, <1>3, <1>4, ReqChange, Zenon
<1>7. /\ mig' \in [Nodes -> MigType] /\ mig'[n] = y
      /\ \A m \in Nodes \ {n} : mig'[m] = mig[m]
    BY <1>0, <1>3, <1>5, MigChange, Zenon
<1>8. store' = store /\ latest' = latest /\ crossed' = crossed /\ returned' = returned
    BY <1>3, Zenon DEF hist
<1>9. MigrationTypes'
    BY <1>0, <1>6, <1>7, <1>8, Zenon DEF MigrationTypes
<1>10. \A m \in Nodes, j \in Keys : <<m, j>> # c =>
          request'[<<m, j>>] = request[<<m, j>>] /\ (UnderWay(<<m, j>>)' <=> UnderWay(<<m, j>>))
    BY <1>6, CopiesAreRequests, Zenon DEF UnderWay
<1>11. Places'
  <2>1. \A q \in Requests : UnderWay(q)' =>
          /\ request'[q].key \in Keys /\ request'[q].at \in Nodes
          /\ request'[q].st = "store" => request'[q].at \in {Old[request'[q].key], New[request'[q].key]}
    <3> TAKE q \in Requests
    <3>1. CASE q = c
      BY <1>1, <1>6, <3>1
    <3>2. CASE q # c
      BY <1>6, <3>2, Zenon DEF PlacesInv, Places, UnderWay
    <3> QED BY <3>1, <3>2, ZenonT(60)
  <2> QED BY <1>8, <2>1, Zenon DEF PlacesInv, Places
<1>12. Leaving'
  <2>1. \A m \in Nodes : mig'[m].pc \in {"copy", "wait"} =>
           mig'[m].key \in Keys /\ New[mig'[m].key] # m
    BY <1>1, <1>5, <1>7, SMTT(60) DEF PlacesInv, Leaving
  <2>2. \A m \in Nodes, j \in Keys : UnderWay(<<m, j>>)' =>
             /\ request'[<<m, j>>].key = j /\ request'[<<m, j>>].val # NoVal
             /\ m = Old[j] /\ m # New[j]
    BY <1>1, <1>6, <1>10 DEF PlacesInv, Leaving
  <2>3. \A m \in Nodes : \A j \in mig'[m].del : m = Old[j] /\ m # New[j]
    BY <1>5, <1>7 DEF PlacesInv, Leaving
  <2>4. \A m \in Nodes : mig'[m].pc = "wait" => m = Old[mig'[m].key]
    BY <1>1, <1>5, <1>7 DEF PlacesInv, Leaving
  <2> QED BY <2>1, <2>2, <2>3, <2>4, ZenonT(60) DEF Leaving
<1>13. ASSUME NEW j \in Keys \ (crossed \cup returned) PROVE Agreed(j)'
  <2>1. Agreed(j)
    BY Zenon DEF PlacesInv
  <2>2. j = k => store[n][k] = latest[k]
    BY <1>1, <2>1, ZenonT(60) DEF Agreed
  <2>3. \A m \in Nodes : Arrived(m, j)' => Arrived(m, j)
    BY <1>5, <1>6, <1>7, <1>10, SMTT(60) DEF Arrived
  <2>4. \A m \in Nodes : UnderWay(<<m, j>>)' => request'[<<m, j>>].val = latest[j]
    BY <1>6, <1>10, <2>1, <2>2, SMTT(60) DEF Agreed
  <2>5. \A m \in Nodes : mig'[m].pc = "wait" /\ mig'[m].key = j /\ UnderWay(<<m, j>>)' =>
           store[m][j] = latest[j]
    BY <1>5, <1>7, <1>10, <2>1, <2>2 DEF Agreed
  <2> QED BY <1>8, <2>1, <2>3, <2>4, <2>5, Zenon DEF Agreed
<1> QED BY <1>8, <1>9, <1>11, <1>12, <1>13, Zenon DEF PlacesInv

(* The thread learns that a copy has arrived. *)
LEMMA CopiedStep ==
    ASSUME PlacesInv, NEW n \in Nodes, Copied(n)
    PROVE  PlacesInv'
<1> DEFINE k == mig[n].key
           y == [mig[n] EXCEPT !.pc = "scan", !.key = "none", !.del = mig[n].del \cup {k}]
<1>0. MigrationTypes /\ mig[n] \in MigType
    BY Zenon DEF PlacesInv, MigrationTypes
<1>1. k \in Keys /\ New[k] # n /\ n = Old[k] /\ Arrived(n, k)
    BY Zenon DEF PlacesInv, Leaving, Copied, Arrived
<1>2. mig' = [mig EXCEPT ![n] = y] /\ UNCHANGED <<store, request, hist>>
    BY Zenon DEF Copied
<1>3. y \in MigType /\ y.del = mig[n].del \cup {k} /\ y.pc = "scan"
    BY <1>0, <1>1, Zenon DEF MigType
<1> HIDE DEF y
<1>4. /\ mig' \in [Nodes -> MigType] /\ mig'[n] = y
      /\ \A m \in Nodes \ {n} : mig'[m] = mig[m]
    BY <1>0, <1>2, <1>3, MigChange, Zenon
<1>5. /\ store' = store /\ latest' = latest /\ crossed' = crossed /\ returned' = returned
      /\ request' = request
    BY <1>2, Zenon DEF hist
<1>6. MigrationTypes'
    BY <1>0, <1>4, <1>5, Zenon DEF MigrationTypes
<1>7. Places'
    BY <1>5, ZenonT(60) DEF PlacesInv, Places, UnderWay
<1>8. Leaving'
  <2>1. \A m \in Nodes : mig'[m].pc \in {"copy", "wait"} => mig'[m] = mig[m]
    BY <1>3, <1>4, ZenonT(60)
  <2>2. \A m \in Nodes : \A j \in mig'[m].del : m = Old[j] /\ m # New[j]
    BY <1>1, <1>3, <1>4 DEF PlacesInv, Leaving
  <2>3. \A m \in Nodes, j \in Keys : UnderWay(<<m, j>>)' <=> UnderWay(<<m, j>>)
    BY <1>5, Zenon DEF UnderWay
  <2> QED BY <1>5, <2>1, <2>2, <2>3 DEF PlacesInv, Leaving
<1>9. ASSUME NEW j \in Keys \ (crossed \cup returned) PROVE Agreed(j)'
  <2>1. Agreed(j)
    BY Zenon DEF PlacesInv
  <2>2. \A m \in Nodes : Arrived(m, j)' => Arrived(m, j)
    BY <1>1, <1>3, <1>4, <1>5, ZenonT(60) DEF Arrived
  <2> QED BY <1>3, <1>4, <1>5, <2>1, <2>2, ZenonT(60) DEF Agreed, UnderWay
<1> QED BY <1>5, <1>6, <1>7, <1>8, <1>9, Zenon DEF PlacesInv

(* The thread removes a key that its new owner has. *)
LEMMA RemoveStep ==
    ASSUME PlacesInv, NEW n \in Nodes, NEW k \in Keys, Remove(n, k)
    PROVE  PlacesInv'
<1> DEFINE y == [mig[n] EXCEPT !.del = mig[n].del \ {k}]
<1>0. MigrationTypes /\ mig[n] \in MigType
    BY Zenon DEF PlacesInv, MigrationTypes
<1>1. k \in mig[n].del /\ mig[n].pc = "scan" /\ New[k] # n /\ n = Old[k] /\ New[k] \in Nodes
    BY Continua, Zenon DEF PlacesInv, Leaving, Remove
<1>2. /\ mig' = [mig EXCEPT ![n] = y] /\ UNCHANGED <<request, hist>>
      /\ store' = [store EXCEPT ![n][k] = NoVal]
    BY Zenon DEF Remove
<1>3. y \in MigType /\ y.del = mig[n].del \ {k} /\ y.pc = "scan"
    BY <1>0, <1>1, Zenon DEF MigType
<1> HIDE DEF y
<1>4. /\ mig' \in [Nodes -> MigType] /\ mig'[n] = y
      /\ \A m \in Nodes \ {n} : mig'[m] = mig[m]
    BY <1>0, <1>2, <1>3, MigChange, Zenon
<1>5. /\ latest' = latest /\ crossed' = crossed /\ returned' = returned /\ request' = request
      /\ \A r : UnderWay(r)' <=> UnderWay(r)
    BY <1>2, Zenon DEF hist, UnderWay
<1>6. /\ store' \in [Nodes -> [Keys -> Values \cup {NoVal}]]
      /\ \A m \in Nodes, j \in Keys :
            store'[m][j] = IF m = n /\ j = k THEN NoVal ELSE store[m][j]
    BY <1>0, <1>2, Zenon DEF MigrationTypes
<1>7. MigrationTypes'
    BY <1>0, <1>4, <1>5, <1>6, ZenonT(60) DEF MigrationTypes
<1>8. Places'
    BY <1>5, <1>6, SMTT(60) DEF PlacesInv, Places
<1>9. Leaving'
  <2>1. \A m \in Nodes : mig'[m].pc \in {"copy", "wait"} => mig'[m] = mig[m]
    BY <1>3, <1>4, Zenon
  <2>2. \A m \in Nodes : mig'[m].del \subseteq mig[m].del
    BY <1>3, <1>4, Zenon
  <2> QED BY <1>5, <2>1, <2>2 DEF PlacesInv, Leaving
<1>10. ASSUME NEW j \in Keys \ (crossed \cup returned) PROVE Agreed(j)'
  <2>1. Agreed(j)
    BY Zenon DEF PlacesInv
  <2>2. \A m \in Nodes : Arrived(m, j)' => Arrived(m, j) /\ ~ (m = n /\ j = k)
    BY <1>1, <1>3, <1>4, <1>5, Zenon DEF Arrived
  <2>3. Arrived(n, k)
    BY <1>1, Zenon DEF Arrived
  <2>4. \A m \in Nodes : mig'[m].pc = "wait" => m # n /\ mig'[m] = mig[m]
    BY <1>3, <1>4, Zenon
  <2>5. CASE j # k
    <3>1. /\ \A m \in Nodes : store'[m][j] = store[m][j]
          /\ store'[New[j]][j] = store[New[j]][j]
      BY <1>6, <2>5, Continua, Zenon
    <3> QED BY <1>5, <2>1, <2>2, <2>4, <3>1, Zenon DEF Agreed
  <2>6. CASE j = k
    <3>1. latest[k] # NoVal /\ store[New[k]][k] = latest[k] /\ store'[New[k]][k] = latest[k]
      BY <1>1, <1>6, <2>1, <2>3, <2>6, Zenon DEF Agreed
    <3>2. \A m \in Nodes : Arrived(m, k)' => m = n
      <4>1. \A m \in Nodes : k \in mig[m].del => m = Old[k]
        BY Zenon DEF PlacesInv, Leaving
      <4>2. \A m \in Nodes : mig[m].pc = "wait" /\ mig[m].key = k => m = Old[k]
        BY Zenon DEF PlacesInv, Leaving
      <4> QED BY <1>1, <2>2, <2>6, <4>1, <4>2, Zenon DEF Arrived
    <3>3. \A m \in Nodes : ~ Arrived(m, k)'
      BY <2>2, <2>6, <3>2, Zenon
    <3>4. \A m \in Nodes : store'[m][k] \in {NoVal, latest[k]}
      BY <1>6, <2>1, <2>6, Zenon DEF Agreed
    <3>5. \E m \in Nodes : store'[m][k] = latest[k]
      BY <1>1, <3>1, Zenon
    <3>6. \A m \in Nodes : UnderWay(<<m, k>>) => request[<<m, k>>].val = latest[k]
      BY <2>1, <2>6, Zenon DEF Agreed
    <3>7. \A m \in Nodes : mig'[m].pc = "wait" /\ mig'[m].key = k /\ UnderWay(<<m, k>>) =>
             store'[m][k] = latest[k]
      BY <1>6, <2>1, <2>4, <2>6, ZenonT(60) DEF Agreed
    <3> QED BY <1>5, <2>6, <3>3, <3>4, <3>5, <3>6, <3>7, Zenon DEF Agreed
  <2> QED BY <2>5, <2>6, Zenon
<1> QED BY <1>5, <1>7, <1>8, <1>9, <1>10, Zenon DEF PlacesInv

(* A write of a client, or a copy, is stored. *)
LEMMA StoreStep ==
    ASSUME PlacesInv, NEW r \in Requests, Store(r)
    PROVE  PlacesInv'
<1> DEFINE n == request[r].at
           k == request[r].key
           v == request[r].val
           x == [NoReq EXCEPT !.st = "done"]
<1>0. MigrationTypes /\ request[r] \in ReqType
    BY Zenon DEF PlacesInv, MigrationTypes
<1>1. UnderWay(r) /\ n \in Nodes /\ k \in Keys /\ v \in Values \cup {NoVal}
      /\ n \in {Old[k], New[k]}
  <2>1. UnderWay(r) /\ request[r].st = "store"
    BY Zenon DEF Store, UnderWay
  <2> QED BY <1>0, <2>1, Zenon DEF PlacesInv, Places, ReqType
<1>2. /\ store' = [store EXCEPT ![n][k] = v]
      /\ request' = [request EXCEPT ![r] = x]
      /\ latest' = IF r \in Writers THEN [latest EXCEPT ![k] = v] ELSE latest
      /\ crossed' = IF r \in Writers /\ Moving(n, k) THEN crossed \cup {k} ELSE crossed
      /\ returned' = IF r \notin Writers /\ n = r[1] THEN returned \cup {k} ELSE returned
      /\ mig' = mig
    BY Zenon DEF Store
<1>3. x \in ReqType /\ x.st = "done"
    BY Zenon DEF NoReq, ReqType
<1> HIDE DEF x, n, k, v
<1>4. /\ request' \in [Requests -> ReqType] /\ request'[r] = x
      /\ \A q \in Requests \ {r} : request'[q] = request[q]
    BY <1>0, <1>2, <1>3, ReqChange, Zenon
<1>5. /\ store' \in [Nodes -> [Keys -> Values \cup {NoVal}]]
      /\ \A m \in Nodes, j \in Keys :
            store'[m][j] = IF m = n /\ j = k THEN v ELSE store[m][j]
    BY <1>0, <1>1, <1>2, Zenon DEF MigrationTypes
<1>6. /\ latest' \in [Keys -> Values \cup {NoVal}]
      /\ \A j \in Keys : latest'[j] = IF r \in Writers /\ j = k THEN v ELSE latest[j]
    BY <1>0, <1>1, <1>2, Zenon DEF MigrationTypes
<1>7. crossed \subseteq crossed' /\ crossed' \in SUBSET Keys
    BY <1>0, <1>1, <1>2, Zenon DEF MigrationTypes
<1>8. returned \subseteq returned' /\ returned' \in SUBSET Keys
    BY <1>0, <1>1, <1>2, Zenon DEF MigrationTypes
<1>9. MigrationTypes'
    BY <1>0, <1>2, <1>4, <1>5, <1>6, <1>7, <1>8, Zenon DEF MigrationTypes
<1>10. \A q \in Requests : UnderWay(q)' => UnderWay(q) /\ q # r /\ request'[q] = request[q]
    BY <1>3, <1>4, ZenonT(60) DEF UnderWay
<1>11. Places'
    BY <1>1, <1>5, <1>10, ZenonT(60) DEF PlacesInv, Places, UnderWay
<1>12. Leaving'
    BY <1>2, <1>10, CopiesAreRequests DEF PlacesInv, Leaving
<1>13. ASSUME NEW j \in Keys \ (crossed' \cup returned') PROVE Agreed(j)'
  <2>1. Agreed(j)
    BY <1>7, <1>8, Zenon DEF PlacesInv
  <2>2. \A m \in Nodes : Arrived(m, j)' =>
           Arrived(m, j) \/ (r = <<m, j>> /\ mig[m].pc = "wait" /\ mig[m].key = j)
    BY <1>2, <1>4, CopiesAreRequests, Zenon DEF Arrived
  <2>3. \A m \in Nodes : r = <<m, j>> =>
           j = k /\ v # NoVal /\ m = Old[j] /\ m # New[j] /\ v = latest[j]
    <3> SUFFICES ASSUME NEW m \in Nodes, r = <<m, j>>
                 PROVE  j = k /\ v # NoVal /\ m = Old[j] /\ m # New[j] /\ v = latest[j]
      BY Zenon
    <3>1. UnderWay(<<m, j>>)
      BY <1>1, ZenonT(60)
    <3>2. /\ request[<<m, j>>].key = j /\ request[<<m, j>>].val # NoVal
          /\ m = Old[j] /\ m # New[j]
      BY <3>1 DEF PlacesInv, Leaving
    <3>3. request[<<m, j>>].val = latest[j]
      BY <2>1, <3>1, Zenon DEF Agreed
    <3> QED BY <3>2, <3>3, Zenon DEF k, v
  <2>4. \A m \in Nodes : Arrived(m, j) => m # New[j] /\ New[j] \in Nodes
    BY Continua DEF PlacesInv, Leaving, Arrived
  <2>5. \A m \in Nodes : UnderWay(<<m, j>>)' =>
           UnderWay(<<m, j>>) /\ <<m, j>> # r /\ request'[<<m, j>>] = request[<<m, j>>]
    BY <1>10, CopiesAreRequests, Zenon
  <2>6. CASE j # k
    <3>1. /\ \A m \in Nodes : store'[m][j] = store[m][j]
          /\ store'[New[j]][j] = store[New[j]][j] /\ latest'[j] = latest[j]
      BY <1>5, <1>6, <2>6, Continua, Zenon
    <3>2. \A m \in Nodes : Arrived(m, j)' => Arrived(m, j)
      BY <2>2, <2>3, <2>6, Zenon
    <3> QED BY <1>2, <2>1, <2>5, <3>1, <3>2, ZenonT(60) DEF Agreed
  <2>7. CASE j = k /\ r \in Writers
    <3>1. ~ Moving(n, j)
      BY <1>1, <1>2, <2>7, Zenon
    <3>2. /\ \A m \in Nodes \ {n} : store[m][j] = NoVal
          /\ \A m \in Nodes : ~ UnderWay(<<m, j>>)
      BY <3>1, Zenon DEF Moving
    <3>3. \A m \in Nodes : ~ Arrived(m, j)
      BY <2>1, <2>4, <2>7, <3>2, Zenon DEF Agreed
    <3>4. \A m \in Nodes : ~ Arrived(m, j)'
      BY <2>2, <2>7, <3>3, CopiesAreRequests, Zenon
    <3>5. latest'[j] = v /\ store'[n][j] = v /\ \A m \in Nodes \ {n} : store'[m][j] = NoVal
      BY <1>1, <1>5, <1>6, <2>7, <3>2, Zenon
    <3> QED BY <1>1, <2>5, <2>7, <3>2, <3>4, <3>5, Zenon DEF Agreed
  <2>8. CASE j = k /\ r \notin Writers
    <3>1. PICK m0 \in Nodes, k0 \in Keys : r = <<m0, k0>>
      BY <2>8, SMTT(60) DEF Requests, Copies
    <3>2. k0 = j /\ m0 = Old[j] /\ m0 # New[j]
      BY <1>1, <2>8, <3>1 DEF PlacesInv, Leaving, k
    <3>3. v = latest[j] /\ v # NoVal
      BY <2>3, <2>8, <3>1, <3>2, Zenon
    <3>4. n = New[j]
      BY <1>1, <1>2, <2>8, <3>1, <3>2, Zenon
    <3>5. latest'[j] = latest[j] /\ store'[n][j] = latest[j]
          /\ \A m \in Nodes \ {n} : store'[m][j] = store[m][j]
      BY <1>1, <1>5, <1>6, <2>8, <3>3, Zenon
    <3>6. \A m \in Nodes : store'[m][j] \in {NoVal, latest[j]}
      BY <2>1, <2>8, <3>5, Zenon DEF Agreed
    <3>7. \A m \in Nodes : Arrived(m, j)' => store'[m][j] = latest[j]
      <4> SUFFICES ASSUME NEW m \in Nodes, Arrived(m, j)' PROVE store'[m][j] = latest[j]
        BY Zenon
      <4>1. CASE Arrived(m, j)
        BY <2>1, <2>8, <3>5, <4>1, Zenon DEF Agreed
      <4>2. CASE r = <<m, j>> /\ mig[m].pc = "wait" /\ mig[m].key = j
        <5>1. UnderWay(<<m, j>>)
          BY <1>1, <4>2, Zenon
        <5> QED BY <2>1, <2>8, <3>5, <4>2, <5>1, Zenon DEF Agreed
      <4> QED BY <2>2, <2>8, <4>1, <4>2, Zenon
    <3>8. \A m \in Nodes : mig'[m].pc = "wait" /\ mig'[m].key = j /\ UnderWay(<<m, j>>)' =>
             store'[m][j] = latest[j]
      BY <1>2, <2>1, <2>5, <2>8, <3>5, Zenon DEF Agreed
    <3>9. \A m \in Nodes : UnderWay(<<m, j>>)' => request'[<<m, j>>].val = latest[j]
      BY <2>1, <2>5, <2>8, Zenon DEF Agreed
    <3> QED BY <1>1, <2>8, <3>3, <3>4, <3>5, <3>6, <3>7, <3>8, <3>9, ZenonT(60) DEF Agreed
  <2> QED BY <2>6, <2>7, <2>8, Zenon
<1> QED BY <1>9, <1>11, <1>12, <1>13, Zenon DEF PlacesInv

-----------------------------------------------------------------------------
(* Every step preserves the invariant. *)
LEMMA StepPlaces == PlacesInv /\ [MigrationNext]_migrationVars => PlacesInv'
<1> SUFFICES ASSUME PlacesInv, [MigrationNext]_migrationVars PROVE PlacesInv'
    BY Zenon
<1>1. CASE UNCHANGED migrationVars
  <2>1. UNCHANGED <<store, mig, request, hist>>
    BY <1>1, Zenon DEF migrationVars
  <2>2. MigrationTypes'
    BY <2>1, Zenon DEF PlacesInv, MigrationTypes, hist
  <2> QED BY <2>1, <2>2, QuietStep, Zenon DEF PlacesInv, Leaving
<1>2. ASSUME NEW n \in Nodes, Begin(n) \/ Abort(n) \/ End(n) \/ Hang(n) \/ Migrator(n)
      PROVE  PlacesInv'
    BY <1>2, QuietMoves, CopyStep, CopiedStep, RemoveStep, Zenon DEF Migrator
<1>3. ASSUME NEW w \in Writers, NEW n \in Entry, NEW k \in WrittenKeys, NEW v \in {w, NoVal},
             Write(w, n, k, v)
      PROVE  PlacesInv'
    BY <1>3, RoutedSteps, Zenon
<1>4. ASSUME NEW r \in Requests,
             TestMigration(r) \/ TestOwnership(r) \/ Refused(r) \/ Store(r)
      PROVE  PlacesInv'
    BY <1>4, RoutedSteps, StoreStep, Zenon
<1> QED BY <1>1, <1>2, <1>3, <1>4, Zenon DEF MigrationNext

(* No migration loses a key: whatever nodes begin, abort and end theirs and however
   copies fail, are late or repeated, the last value of a key is in the storage of
   some node, but for the keys written while they moved and those whose copy came
   back (migrate, shardcache_set_internal, shardcache_del_internal). *)
THEOREM NoKeyLost == MigrationSpec => []KeyKept
<1>1. PlacesInv => KeyKept
    BY Zenon DEF PlacesInv, KeyKept, Agreed
<1> QED BY InitPlaces, StepPlaces, <1>1, PTL DEF MigrationSpec

-----------------------------------------------------------------------------
(* What a migration has moved *)

(* Nobody but the migration threads has had to do with key k. *)
Untouched(k) == k \notin crossed \cup returned /\ latest[k] = FirstVal

(* The thread of n has k on one of its lists, or has it no longer. *)
Scanned(n, k) ==
    \/ k \in mig[n].todo \cup mig[n].del
    \/ mig[n].pc \in {"copy", "wait"} /\ mig[n].key = k
    \/ store[n][k] = NoVal

(* Key k is one that the migration of n, which has met no error, has to move. *)
ToMove(n, k) ==
    /\ migration[n] /\ mig[n].pc \notin {"none", "index"} /\ ~ mig[n].errors
    /\ Old[k] = n /\ New[k] # n /\ Untouched(k)

(* No key that has to go is dropped from the lists before it is gone. *)
ScanInv ==
    /\ migration \in [Nodes -> BOOLEAN] /\ migration_done \in [Nodes -> BOOLEAN]
    /\ \A w \in Writers : request[w].val # FirstVal
    /\ \A n \in Nodes : migration_done[n] => mig[n].pc = "ended"
    /\ \A n \in Nodes : mig[n].pc = "ended" => mig[n].todo = {} /\ mig[n].del = {}
    /\ \A n \in Nodes, k \in Keys : ToMove(n, k) => Scanned(n, k)

LEMMA InitScanInv == MigrationInit => ScanInv
<1> SUFFICES ASSUME MigrationInit PROVE ScanInv
    BY Zenon
<1>1. \A w \in Writers : request[w].val # FirstVal
    BY Names, Zenon DEF MigrationInit, NoReq, Requests
<1>2. \A n \in Nodes : mig[n].pc = "none" /\ ~ migration_done[n]
    BY Zenon DEF MigrationInit, Idle
<1>3. migration \in [Nodes -> BOOLEAN] /\ migration_done \in [Nodes -> BOOLEAN]
    BY Zenon DEF MigrationInit
<1> QED BY <1>1, <1>2, <1>3, Zenon DEF ScanInv, ToMove

(* A step of node n, its thread included, that takes no key to an old owner. *)
LEMMA ScanStep ==
    ASSUME ScanInv, NEW n \in Nodes,
           migration' \in [Nodes -> BOOLEAN], migration_done' \in [Nodes -> BOOLEAN],
           \A m \in Nodes \ {n} :
              mig'[m] = mig[m] /\ migration'[m] = migration[m] /\ migration_done'[m] = migration_done[m],
           UNCHANGED hist,
           \A m \in Nodes, k \in Keys : store[m][k] = NoVal => store'[m][k] = NoVal,
           \A w \in Writers : request'[w].val # FirstVal,
           migration_done'[n] => mig'[n].pc = "ended",
           mig'[n].pc = "ended" => mig'[n].todo = {} /\ mig'[n].del = {},
           \A k \in Keys : ToMove(n, k)' => Scanned(n, k)'
    PROVE  ScanInv'
<1>1. \A m \in Nodes \ {n}, k \in Keys :
         /\ ToMove(m, k)' => ToMove(m, k)
         /\ Scanned(m, k) => Scanned(m, k)'
    BY ZenonT(60) DEF ToMove, Scanned, Untouched, hist
<1>2. \A m \in Nodes, k \in Keys : ToMove(m, k)' => Scanned(m, k)'
    BY <1>1, Zenon DEF ScanInv
<1> QED BY <1>2, ZenonT(60) DEF ScanInv

(* A step of n that changes what its thread does to x, and nothing else it has to
   do with. *)
LEMMA ScanThread ==
    ASSUME PlacesInv, ScanInv, NEW n \in Nodes, NEW x \in MigType, mig' = [mig EXCEPT ![n] = x],
           UNCHANGED <<migration, migration_done, store, hist>>,
           \A w \in Writers : request'[w] = request[w],
           mig[n].pc # "ended", x.pc # "ended",
           \A k \in Keys : ToMove(n, k)' =>
              \/ k \in x.todo \cup x.del
              \/ x.pc \in {"copy", "wait"} /\ x.key = k
              \/ store[n][k] = NoVal
    PROVE  ScanInv'
<1>1. mig'[n] = x /\ \A m \in Nodes \ {n} : mig'[m] = mig[m]
    BY MigChange, ZenonT(60) DEF PlacesInv
<1>2. ~ migration_done'[n]
    BY Zenon DEF ScanInv
<1>3. \A k \in Keys : ToMove(n, k)' => Scanned(n, k)'
    BY <1>1, Zenon DEF Scanned
<1>4. /\ migration' \in [Nodes -> BOOLEAN] /\ migration_done' \in [Nodes -> BOOLEAN]
      /\ \A m \in Nodes \ {n} : migration'[m] = migration[m] /\ migration_done'[m] = migration_done[m]
      /\ \A w \in Writers : request'[w].val # FirstVal
      /\ \A m \in Nodes, k \in Keys : store[m][k] = NoVal => store'[m][k] = NoVal
    BY Zenon DEF ScanInv
<1> QED BY <1>1, <1>2, <1>3, <1>4, ScanStep, Zenon

LEMMA ScanSteps ==
    ASSUME PlacesInv, ScanInv, NEW n \in Nodes,
           \/ shardcache_get_index(n) \/ Gone(n) \/ Copy(n) \/ Copied(n) \/ CopyFails(n)
           \/ \E k \in Keys : Scan(n, k)
    PROVE  ScanInv'
<1>0. mig[n] \in MigType /\ \A w \in Writers : w \in Requests
    BY Zenon DEF PlacesInv, MigrationTypes, Requests
<1>1. CASE shardcache_get_index(n)
  <2> DEFINE x == [mig[n] EXCEPT !.pc = "scan",
                                 !.todo = {k \in Keys : store[n][k] # NoVal}]
  <2>1. x \in MigType /\ x.pc = "scan" /\ x.todo = {k \in Keys : store[n][k] # NoVal}
    BY <1>0, Zenon DEF MigType
  <2>2. mig' = [mig EXCEPT ![n] = x] /\ mig[n].pc = "index"
        /\ UNCHANGED <<migration, migration_done, store, request, hist>>
    BY <1>1, Zenon DEF shardcache_get_index, nodes
  <2> HIDE DEF x
  <2> QED BY <2>1, <2>2, ScanThread, Zenon
<1>2. CASE Gone(n) \/ CopyFails(n) \/ Copied(n) \/ Copy(n)
  <2> DEFINE Turns(x) ==
               /\ mig' = [mig EXCEPT ![n] = x]
               /\ x.todo = mig[n].todo /\ mig[n].del \subseteq x.del
               /\ x.pc \in {"scan", "wait"} /\ x.errors \in {mig[n].errors, TRUE}
               /\ \/ x.errors = TRUE
                  \/ x.pc = "wait" /\ x.key = mig[n].key
                  \/ mig[n].key \in x.del
                  \/ store[n][mig[n].key] = NoVal
  <2>1. \E x \in MigType : Turns(x)
    <3>1. CASE Gone(n)
      <4> DEFINE x == [mig[n] EXCEPT !.pc = "scan", !.key = "none"]
      <4>1. x \in MigType /\ x.todo = mig[n].todo /\ x.del = mig[n].del /\ x.pc = "scan"
            /\ x.errors = mig[n].errors
        BY <1>0, Zenon DEF MigType
      <4>2. mig' = [mig EXCEPT ![n] = x] /\ store[n][mig[n].key] = NoVal
        BY <3>1, Zenon DEF Gone
      <4> HIDE DEF x
      <4> QED BY <4>1, <4>2, Zenon
    <3>2. CASE CopyFails(n)
      <4> DEFINE x == [mig[n] EXCEPT !.pc = "scan", !.key = "none", !.errors = TRUE]
      <4>1. x \in MigType /\ x.todo = mig[n].todo /\ x.del = mig[n].del /\ x.pc = "scan"
            /\ x.errors = TRUE
        BY <1>0, Zenon DEF MigType
      <4>2. mig' = [mig EXCEPT ![n] = x]
        BY <3>2, Zenon DEF CopyFails
      <4> HIDE DEF x
      <4> QED BY <4>1, <4>2, Zenon
    <3>3. CASE Copied(n)
      <4> DEFINE k == mig[n].key
                 x == [mig[n] EXCEPT !.pc = "scan", !.key = "none", !.del = mig[n].del \cup {k}]
      <4>1. k \in Keys
        BY <3>3, Zenon DEF Copied, PlacesInv, Leaving
      <4>2. x \in MigType /\ x.todo = mig[n].todo /\ x.del = mig[n].del \cup {k} /\ x.pc = "scan"
            /\ x.errors = mig[n].errors
        BY <1>0, <4>1, Zenon DEF MigType
      <4>3. mig' = [mig EXCEPT ![n] = x]
        BY <3>3, Zenon DEF Copied
      <4> HIDE DEF x
      <4> QED BY <4>2, <4>3, Zenon
    <3>4. CASE Copy(n)
      <4> DEFINE x == [mig[n] EXCEPT !.pc = "wait"]
      <4>1. x \in MigType /\ x.todo = mig[n].todo /\ x.del = mig[n].del /\ x.pc = "wait"
            /\ x.errors = mig[n].errors /\ x.key = mig[n].key
        BY <1>0, Zenon DEF MigType
      <4>2. mig' = [mig EXCEPT ![n] = x]
        BY <3>4, Zenon DEF Copy
      <4> HIDE DEF x
      <4> QED BY <4>1, <4>2, ZenonT(60)
    <3> HIDE DEF Turns
    <3> QED BY <1>2, <3>1, <3>2, <3>3, <3>4, Zenon
  <2>2. PICK x \in MigType : Turns(x)
    BY <2>1, Zenon
  <2>3. /\ mig[n].pc \in {"copy", "wait"}
        /\ UNCHANGED <<migration, migration_done, store, hist>>
        /\ \A w \in Writers : request'[w] = request[w]
    <3>1. mig[n].pc \in {"copy", "wait"} /\ UNCHANGED <<migration, migration_done, store, hist>>
      BY <1>2, Zenon DEF Gone, CopyFails, Copied, Copy, nodes
    <3>2. \A w \in Writers : request'[w] = request[w]
      <4>1. CASE Copy(n)
        <5>1. mig[n].key \in Keys
          BY <4>1, Zenon DEF Copy, PlacesInv, Leaving
        <5>2. \A w \in Writers : w # <<n, mig[n].key>>
          BY <5>1, CopiesAreRequests, Zenon
        <5> QED BY <1>0, <4>1, <5>2, Zenon DEF Copy, PlacesInv, MigrationTypes
      <4>2. CASE Gone(n) \/ CopyFails(n) \/ Copied(n)
        BY <4>2, Zenon DEF Gone, CopyFails, Copied
      <4> QED BY <1>2, <4>1, <4>2, Zenon
    <3> QED BY <3>1, <3>2, Zenon
  <2>4. mig'[n] = x
    BY <2>2, MigChange, Zenon DEF PlacesInv
  <2>5. ASSUME NEW k \in Keys, ToMove(n, k)'
        PROVE  \/ k \in x.todo \cup x.del
               \/ x.pc \in {"copy", "wait"} /\ x.key = k
               \/ store[n][k] = NoVal
    <3>1. x.errors # TRUE /\ ToMove(n, k)
      <4>1. x.errors # TRUE
        BY <2>4, <2>5, Zenon DEF ToMove
      <4> QED BY <2>2, <2>3, <2>5, <4>1, ZenonT(60) DEF ToMove, Untouched, hist
    <3>2. Scanned(n, k)
      BY <3>1, Zenon DEF ScanInv
    <3> QED BY <2>2, <3>1, <3>2, Zenon DEF Scanned
  <2> QED BY <2>2, <2>3, <2>5, ScanThread, Zenon
<1>3. ASSUME NEW j \in Keys, Scan(n, j) PROVE ScanInv'
  <2> DEFINE ab == [mig[n] EXCEPT !.todo = {}, !.del = {}, !.errors = TRUE]
             st == [mig[n] EXCEPT !.todo = mig[n].todo \ {j}]
             go == [mig[n] EXCEPT !.pc = "copy", !.key = j, !.todo = mig[n].todo \ {j}]
  <2>1. ab \in MigType /\ ab.pc = mig[n].pc /\ ab.errors = TRUE
    BY <1>0, Zenon DEF MigType
  <2>2. /\ st \in MigType /\ st.del = mig[n].del /\ st.pc = mig[n].pc
        /\ st.todo = mig[n].todo \ {j} /\ st.errors = mig[n].errors
    BY <1>0, Zenon DEF MigType
  <2>3. /\ go \in MigType /\ go.del = mig[n].del /\ go.pc = "copy" /\ go.key = j
        /\ go.todo = mig[n].todo \ {j} /\ go.errors = mig[n].errors
    BY <1>0, ZenonT(60) DEF MigType
  <2>4. mig[n].pc = "scan" /\ UNCHANGED <<migration, migration_done, store, request, hist>>
    BY <1>3, Zenon DEF Scan, nodes
  <2>5. \/ mig' = [mig EXCEPT ![n] = ab]
        \/ New[j] = n /\ mig' = [mig EXCEPT ![n] = st]
        \/ New[j] # n /\ mig' = [mig EXCEPT ![n] = go]
    BY <1>3, Zenon DEF Scan
  <2> HIDE DEF ab, st, go
  <2>6. \A x \in MigType : mig' = [mig EXCEPT ![n] = x] => mig'[n] = x
    BY MigChange, ZenonT(60) DEF PlacesInv
  <2>7. ASSUME NEW k \in Keys, ToMove(n, k)', ~ mig[n].errors
        PROVE  (k \in mig[n].todo \cup mig[n].del \/ store[n][k] = NoVal) /\ New[k] # n
    <3>1. ToMove(n, k)
      BY <2>4, <2>7, Zenon DEF ToMove, Untouched, hist
    <3> QED BY <2>4, <3>1, ZenonT(60) DEF ScanInv, Scanned, ToMove
  <2>8. CASE mig' = [mig EXCEPT ![n] = ab]
    <3>1. \A k \in Keys : ~ ToMove(n, k)'
      BY <2>1, <2>6, <2>8, Zenon DEF ToMove
    <3>2. \A w \in Writers : request'[w] = request[w]
      BY <2>4, Zenon
    <3> QED BY <2>1, <2>4, <2>8, <3>1, <3>2, ScanThread, Zenon
  <2>9. CASE New[j] = n /\ mig' = [mig EXCEPT ![n] = st]
    <3>1. \A k \in Keys : ToMove(n, k)' => ~ mig[n].errors
      BY <2>2, <2>6, <2>9, Zenon DEF ToMove
    <3> QED BY <2>2, <2>4, <2>7, <2>9, <3>1, ScanThread, ZenonT(60)
  <2>10. CASE New[j] # n /\ mig' = [mig EXCEPT ![n] = go]
    <3>1. \A k \in Keys : ToMove(n, k)' => ~ mig[n].errors
      BY <2>3, <2>6, <2>10, Zenon DEF ToMove
    <3> QED BY <2>3, <2>4, <2>7, <2>10, <3>1, ScanThread, Zenon
  <2> QED BY <2>5, <2>8, <2>9, <2>10, Zenon
<1> QED BY <1>1, <1>2, <1>3, Zenon

(* The steps that begin and end a migration, and the removal of a key. *)
LEMMA ScanBegun ==
    ASSUME PlacesInv, ScanInv, NEW n \in Nodes, Begin(n) \/ Abort(n) \/ End(n) \/ Hang(n)
    PROVE  ScanInv'
<1>0. MigrationTypes /\ \A w \in Writers : w \in Requests
    BY Zenon DEF PlacesInv, Requests
<1>1. CASE Begin(n)
  <2>1. [Idle EXCEPT !.pc = "index"] \in MigType /\ [Idle EXCEPT !.pc = "index"].pc = "index"
    BY Zenon DEF Idle, MigType
  <2>2. mig'[n].pc = "index" /\ \A m \in Nodes \ {n} : mig'[m] = mig[m]
    BY <1>0, <1>1, <2>1, MigChange, Zenon DEF Begin
  <2>3. /\ migration' \in [Nodes -> BOOLEAN] /\ migration_done' \in [Nodes -> BOOLEAN] /\ ~ migration_done'[n]
        /\ \A m \in Nodes \ {n} : migration'[m] = migration[m] /\ migration_done'[m] = migration_done[m]
    BY <1>1, Zenon DEF Begin, shardcache_set_migration_continuum, ScanInv
  <2>4. UNCHANGED <<store, hist>>
    BY <1>1, Zenon DEF Begin
  <2>5. \A w \in Writers : request'[w].val # FirstVal
    <3>1. \A w \in Writers : request'[w] \in {NoReq, request[w]}
      BY <1>0, <1>1, Zenon DEF Begin
    <3>2. NoReq.val # FirstVal
      BY Names, Zenon DEF NoReq
    <3>3. \A w \in Writers : request[w].val # FirstVal
      BY Zenon DEF ScanInv
    <3> QED BY <3>1, <3>2, <3>3, Zenon
  <2>6. \A k \in Keys : ~ ToMove(n, k)'
    BY <2>2, Zenon DEF ToMove
  <2> QED BY <2>2, <2>3, <2>4, <2>5, <2>6, ScanStep, Zenon
<1>2. CASE Abort(n) \/ End(n)
  <2>1. UNCHANGED <<store, mig, request, hist>>
    BY <1>2, Zenon DEF Abort, End
  <2>2. /\ migration' \in [Nodes -> BOOLEAN] /\ migration_done' \in [Nodes -> BOOLEAN] /\ ~ migration'[n]
        /\ migration_done'[n] => migration_done[n]
        /\ \A m \in Nodes \ {n} : migration'[m] = migration[m] /\ migration_done'[m] = migration_done[m]
    BY <1>2, ZenonT(60) DEF Abort, End, ScanInv
  <2>3. \A k \in Keys : ~ ToMove(n, k)'
    BY <2>2, Zenon DEF ToMove
  <2>4. /\ migration_done'[n] => mig'[n].pc = "ended"
        /\ mig'[n].pc = "ended" => mig'[n].todo = {} /\ mig'[n].del = {}
        /\ \A w \in Writers : request'[w].val # FirstVal
    BY <2>1, <2>2, ZenonT(60) DEF ScanInv
  <2> QED BY <2>1, <2>2, <2>3, <2>4, ScanStep, Zenon
<1>3. CASE Hang(n)
  <2>1. UNCHANGED <<migration, migration_done, store, mig, request, hist>>
    BY <1>3, Zenon DEF Hang
  <2> QED BY <2>1, ZenonT(60) DEF ScanInv, ToMove, Scanned, Untouched, hist
<1> QED BY <1>1, <1>2, <1>3, Zenon

LEMMA ScanEnds ==
    ASSUME PlacesInv, ScanInv, NEW n \in Nodes, FinishThread(n) \/ \E k \in Keys : Remove(n, k)
    PROVE  ScanInv'
<1>0. MigrationTypes /\ mig[n] \in MigType
    BY Zenon DEF PlacesInv, MigrationTypes
<1>1. CASE FinishThread(n)
  <2> DEFINE x == [mig[n] EXCEPT !.pc = "ended"]
  <2>1. /\ x \in MigType /\ x.pc = "ended" /\ x.todo = mig[n].todo /\ x.del = mig[n].del
        /\ x.errors = mig[n].errors
    BY <1>0, Zenon DEF MigType
  <2>2. /\ mig[n].pc = "scan" /\ mig[n].todo = {} /\ mig[n].del = {}
        /\ mig' = [mig EXCEPT ![n] = x] /\ migration_done' = [migration_done EXCEPT ![n] = TRUE]
        /\ UNCHANGED <<migration, store, request, hist>>
    BY <1>1, Zenon DEF FinishThread
  <2> HIDE DEF x
  <2>3. mig'[n] = x /\ \A m \in Nodes \ {n} : mig'[m] = mig[m]
    BY <1>0, <2>1, <2>2, MigChange, ZenonT(60)
  <2>4. /\ migration' \in [Nodes -> BOOLEAN] /\ migration_done' \in [Nodes -> BOOLEAN]
        /\ \A m \in Nodes \ {n} : migration'[m] = migration[m] /\ migration_done'[m] = migration_done[m]
        /\ \A w \in Writers : request'[w].val # FirstVal
    BY <2>2, Zenon DEF ScanInv
  <2>5. ASSUME NEW k \in Keys, ToMove(n, k)' PROVE Scanned(n, k)'
    <3>1. ToMove(n, k)
      BY <2>1, <2>2, <2>3, <2>5, Zenon DEF ToMove, Untouched, hist
    <3>2. store[n][k] = NoVal
      BY <2>2, <3>1, ZenonT(60) DEF ScanInv, Scanned
    <3> QED BY <2>2, <3>2, Zenon DEF Scanned
  <2> QED BY <2>1, <2>2, <2>3, <2>4, <2>5, ScanStep, ZenonT(60)
<1>2. ASSUME NEW j \in Keys, Remove(n, j) PROVE ScanInv'
  <2> DEFINE x == [mig[n] EXCEPT !.del = mig[n].del \ {j}]
  <2>1. /\ x \in MigType /\ x.pc = mig[n].pc /\ x.todo = mig[n].todo
        /\ x.del = mig[n].del \ {j} /\ x.errors = mig[n].errors
    BY <1>0, Zenon DEF MigType
  <2>2. /\ mig[n].pc = "scan" /\ mig' = [mig EXCEPT ![n] = x]
        /\ store' = [store EXCEPT ![n][j] = NoVal]
        /\ UNCHANGED <<migration, migration_done, request, hist>>
    BY <1>2, Zenon DEF Remove, nodes
  <2> HIDE DEF x
  <2>3. mig'[n] = x /\ \A m \in Nodes \ {n} : mig'[m] = mig[m]
    BY <1>0, <2>1, <2>2, MigChange, ZenonT(60)
  <2>4. \A m \in Nodes, k \in Keys :
           store'[m][k] = IF m = n /\ k = j THEN NoVal ELSE store[m][k]
    BY <1>0, <1>2, <2>2, Zenon DEF MigrationTypes
  <2>5. /\ migration' \in [Nodes -> BOOLEAN] /\ migration_done' \in [Nodes -> BOOLEAN]
        /\ \A m \in Nodes \ {n} : migration'[m] = migration[m] /\ migration_done'[m] = migration_done[m]
        /\ \A w \in Writers : request'[w].val # FirstVal /\ ~ migration_done'[n]
    BY <2>2, Zenon DEF ScanInv
  <2>6. ~ migration_done'[n]
    BY <2>2, Zenon DEF ScanInv
  <2>7. ASSUME NEW k \in Keys, ToMove(n, k)' PROVE Scanned(n, k)'
    <3>1. ToMove(n, k)
      BY <2>1, <2>2, <2>3, <2>7, Zenon DEF ToMove, Untouched, hist
    <3>2. k \in mig[n].todo \cup mig[n].del \/ store[n][k] = NoVal
      BY <2>2, <3>1, Zenon DEF ScanInv, Scanned
    <3> QED BY <2>1, <2>3, <2>4, <3>2, Zenon DEF Scanned
  <2> QED BY <2>1, <2>2, <2>3, <2>4, <2>5, <2>6, <2>7, ScanStep
<1> QED BY <1>1, <1>2, Zenon

(* The requests: a copy that is stored with the node it came from has returned, and
   what a client stores is not the first value. *)
LEMMA ScanRequests ==
    ASSUME PlacesInv, ScanInv, NEW r \in Requests,
           TestMigration(r) \/ TestOwnership(r) \/ Refused(r) \/ Store(r)
    PROVE  ScanInv'
<1>0. MigrationTypes /\ request[r] \in ReqType /\ \A w \in Writers : w \in Requests
    BY Zenon DEF PlacesInv, MigrationTypes, Requests
<1>1. UNCHANGED <<migration, migration_done, mig>>
    BY ZenonT(60) DEF TestMigration, TestOwnership, Refused, Store, nodes
<1>2. \A w \in Writers : request'[w].val # FirstVal
  <2>1. \E s, o : \/ request' = [request EXCEPT ![r] = [request[r] EXCEPT !.st = s, !.at = o]]
                  \/ request' = [request EXCEPT ![r] = [request[r] EXCEPT !.st = s]]
                  \/ request' = [request EXCEPT ![r] = [NoReq EXCEPT !.st = s]]
    BY Zenon DEF TestMigration, TestOwnership, Refused, Store, Route
  <2>2. \A s, o : /\ [request[r] EXCEPT !.st = s, !.at = o].val = request[r].val
                  /\ [request[r] EXCEPT !.st = s].val = request[r].val
                  /\ [NoReq EXCEPT !.st = s].val = NoVal
    BY <1>0, Zenon DEF ReqType, NoReq
  <2>3. PICK x : request' = [request EXCEPT ![r] = x] /\ x.val \in {request[r].val, NoVal}
    <3>1. PICK s, o : \/ request' = [request EXCEPT ![r] = [request[r] EXCEPT !.st = s, !.at = o]]
                      \/ request' = [request EXCEPT ![r] = [request[r] EXCEPT !.st = s]]
                      \/ request' = [request EXCEPT ![r] = [NoReq EXCEPT !.st = s]]
      BY <2>1, Zenon
    <3> DEFINE a == [request[r] EXCEPT !.st = s, !.at = o]
               b == [request[r] EXCEPT !.st = s]
               c == [NoReq EXCEPT !.st = s]
    <3>2. a.val = request[r].val /\ b.val = request[r].val /\ c.val = NoVal
      BY <2>2, Zenon
    <3>3. request' \in {[request EXCEPT ![r] = a], [request EXCEPT ![r] = b], [request EXCEPT ![r] = c]}
      BY <3>1, Zenon
    <3> HIDE DEF a, b, c
    <3> QED BY <3>2, <3>3, Zenon
  <2>4. request'[r] = x /\ \A q \in Requests \ {r} : request'[q] = request[q]
    BY <1>0, <2>3, Zenon DEF MigrationTypes
  <2> QED BY <1>0, <2>3, <2>4, Names, Zenon DEF ScanInv
<1>3. \A n \in Nodes, k \in Keys :
         /\ Untouched(k)' => Untouched(k)
         /\ Untouched(k)' /\ n = Old[k] /\ n # New[k] /\ store[n][k] = NoVal => store'[n][k] = NoVal
  <2>1. CASE UNCHANGED <<store, hist>>
    BY <2>1, Zenon DEF Untouched, hist
  <2>2. CASE Store(r)
    <3> DEFINE n0 == request[r].at
               k0 == request[r].key
               v0 == request[r].val
    <3>1. /\ request[r].st = "store" /\ store' = [store EXCEPT ![n0][k0] = v0]
          /\ latest' = IF r \in Writers THEN [latest EXCEPT ![k0] = v0] ELSE latest
          /\ returned' = IF r \notin Writers /\ n0 = r[1] THEN returned \cup {k0} ELSE returned
          /\ crossed \subseteq crossed'
      BY <2>2, Zenon DEF Store
    <3>2. UnderWay(r) /\ n0 \in Nodes /\ k0 \in Keys
      BY <3>1, Zenon DEF UnderWay, PlacesInv, Places
    <3>3. r \in Writers => v0 # FirstVal
      BY Zenon DEF ScanInv
    <3> HIDE DEF n0, k0, v0
    <3>4. \A k \in Keys : latest'[k] = IF r \in Writers /\ k = k0 THEN v0 ELSE latest[k]
      BY <1>0, <3>1, <3>2, Zenon DEF MigrationTypes
    <3>5. \A m \in Nodes, k \in Keys : store'[m][k] = IF m = n0 /\ k = k0 THEN v0 ELSE store[m][k]
      BY <1>0, <3>1, <3>2, Zenon DEF MigrationTypes
    <3>6. ASSUME NEW k \in Keys, Untouched(k)' PROVE Untouched(k) /\ (k = k0 => r \notin Writers)
      BY <3>1, <3>3, <3>4, <3>6, Zenon DEF Untouched
    <3>7. ASSUME r \notin Writers, k0 \notin returned' PROVE n0 # Old[k0]
      <4>1. PICK m \in Nodes, k \in Keys : r = <<m, k>>
        BY <3>7, SMTT(60) DEF Requests, Copies
      <4>2. k = k0 /\ m = Old[k0]
        BY <3>2, <4>1, SMTT(60) DEF PlacesInv, Leaving, k0
      <4> QED BY <3>1, <3>7, <4>1, <4>2, Zenon
    <3> QED BY <3>5, <3>6, <3>7, Zenon DEF Untouched
  <2> QED BY <2>1, <2>2, ZenonT(60) DEF TestMigration, TestOwnership, Refused, hist
<1>4. \A n \in Nodes, k \in Keys : ToMove(n, k)' => ToMove(n, k) /\ (Scanned(n, k) => Scanned(n, k)')
    BY <1>1, <1>3, Zenon DEF ToMove, Scanned
<1> QED BY <1>1, <1>2, <1>4, Zenon DEF ScanInv

LEMMA StepScanInv == PlacesInv /\ ScanInv /\ [MigrationNext]_migrationVars => ScanInv'
<1> SUFFICES ASSUME PlacesInv, ScanInv, [MigrationNext]_migrationVars PROVE ScanInv'
    BY Zenon
<1>1. CASE UNCHANGED migrationVars
    BY <1>1, Zenon DEF migrationVars, nodes, hist, ScanInv, ToMove, Scanned, Untouched
<1>2. ASSUME NEW n \in Nodes, Begin(n) \/ Abort(n) \/ End(n) \/ Hang(n) \/ Migrator(n)
      PROVE  ScanInv'
    BY <1>2, ScanBegun, ScanSteps, ScanEnds, Zenon DEF Migrator
<1>3. ASSUME NEW w \in Writers, NEW n \in Entry, NEW k \in WrittenKeys, NEW v \in {w, NoVal},
             Write(w, n, k, v)
      PROVE  ScanInv'
  <2>1. /\ request' = [request EXCEPT ![w] = [st |-> "test", key |-> k, val |-> v, at |-> n]]
        /\ UNCHANGED <<migration, migration_done, store, mig, hist>>
    BY <1>3, Zenon DEF Write, nodes
  <2>2. \A u \in Writers : request'[u].val # FirstVal
    BY <2>1, Names, Zenon DEF PlacesInv, MigrationTypes, Requests, ScanInv
  <2> QED BY <2>1, <2>2, Zenon DEF hist, ScanInv, ToMove, Scanned, Untouched
<1>4. ASSUME NEW r \in Requests,
             TestMigration(r) \/ TestOwnership(r) \/ Refused(r) \/ Store(r)
      PROVE  ScanInv'
    BY <1>4, ScanRequests, Zenon
<1> QED BY <1>1, <1>2, <1>3, <1>4, Zenon DEF MigrationNext

(* A migration that is complete and has counted no error has done its work: every
   key that it had to give away, and that no client wrote and no peer sent back, is
   with its new owner and no longer here, however many migrations were aborted
   before and whatever the other nodes do meanwhile (migrate). *)
THEOREM MigrationMoves == MigrationSpec => []Moved
<1>1. PlacesInv /\ ScanInv => Moved
  <2> SUFFICES ASSUME PlacesInv, ScanInv, NEW n \in Nodes, Completed(n), ~ mig[n].errors,
                      NEW k \in Keys \ (crossed \cup returned),
                      Old[k] = n, New[k] # n, latest[k] = FirstVal
               PROVE  store[n][k] = NoVal /\ store[New[k]][k] = FirstVal
    BY Zenon DEF Moved
  <2>1. mig[n].pc = "ended" /\ mig[n].todo = {} /\ mig[n].del = {}
    BY Zenon DEF ScanInv, Completed
  <2>2. ToMove(n, k)
    BY <2>1, Zenon DEF ToMove, Untouched, Completed
  <2>3. store[n][k] = NoVal
    BY <2>1, <2>2, Zenon DEF ScanInv, Scanned
  <2>4. \E m \in Nodes : store[m][k] = FirstVal
    BY Names, Zenon DEF PlacesInv, Agreed
  <2>5. \A m \in Nodes : store[m][k] = FirstVal => m \in {n, New[k]}
    BY Names, Zenon DEF PlacesInv, Places
  <2> QED BY <2>3, <2>4, <2>5, Names, Zenon
<1> QED BY InitPlaces, StepPlaces, InitScanInv, StepScanInv, <1>1, PTL DEF MigrationSpec
=============================================================================
