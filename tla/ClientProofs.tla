---------------------------- MODULE ClientProofs ----------------------------
(* The connections of the client: each has one user, who reads no answers but its
   own, and the pool keeps no more of them than it should, for any nodes, descriptors,
   commands, numbers of keys and jobs.

   The invariant, ConnectionsInv, is about a function w that says of each descriptor
   where it is.  A step takes descriptors from one place to another; the lemmas first
   say what the lists at these places are afterwards, then what each action does. *)
EXTENDS Client, SequenceTheorems, TLAPS

-----------------------------------------------------------------------------
(* The invariant *)

Bucket == [node : Nodes, num : Nat \ {0}]
Context == [fd : Fds, num : Nat, idx : Nat, open : BOOLEAN]
Socket == [node : Nodes \cup {NoNode}, up : BOOLEAN, torn : BOOLEAN, wire : Seq(Commands),
           quiet : BOOLEAN, lost : BOOLEAN]
CallRecord == [pc : {"idle", "write", "read", "next", "crashed"}, cmd : Commands \cup {"none"},
               todo : Seq(Nodes), fd : Fds \cup {NoFd}]
TaskRecord == [st : {"none", "queued", "send", "run", "ended"}, cmd : Commands \cup {"none"},
               todo : Seq(Bucket), ctxs : Seq(Context)]
SpentRecord == [fd : Fds, keep : BOOLEAN]
PutRecord == [queue : Seq(SpentRecord), push : Fds \cup {NoFd}]

(* Where a descriptor is: closed or lost, in the pool, or in use. *)
Nowhere == <<"nowhere", 0>>
InHand == <<"hand", 0>>
InCall == <<"call", 0>>
AtSpare(n) == <<"spare", n>>
AtQueue(a) == <<"queue", a>>
AtPush(a) == <<"push", a>>
AtTask(t) == <<"task", t>>
Places ==
  {Nowhere, InHand, InCall} \cup {AtSpare(n) : n \in Nodes} \cup {AtQueue(a) : a \in Actors}
    \cup {AtPush(a) : a \in Actors} \cup {AtTask(t) : t \in Tasks}
InPool(p) == p = Nowhere \/ \E n \in Nodes : p = AtSpare(n)

(* The descriptors at place p are those of list s, each of them once. *)
Lists(s, w, p) ==
  /\ \A i, j \in DOMAIN s : s[i] = s[j] => i = j
  /\ \A f \in Fds : w[f] = p <=> \E i \in DOMAIN s : s[i] = f
FdsOf(s) == [i \in DOMAIN s |-> s[i].fd]

(* No answer is under way, or a command has hidden that there may be one. *)
Clean(s) == s.quiet \/ (~ s.torn /\ s.wire = << >>)
Sane(s) == (s.torn => s.wire # << >>) /\ (s.lost => s.quiet)

(* The sockets ss and the pool sp, with the descriptors where w says. *)
Pooled(w, ss, sp) ==
  /\ w \in [Fds -> Places] /\ ss \in [Fds -> Socket] /\ sp \in [Nodes -> Seq(Fds)]
  /\ \A f \in Fds : Sane(ss[f]) /\ (w[f] = Nowhere <=> ss[f].node = NoNode \/ ss[f].lost)
  /\ \A n \in Nodes : /\ Lists(sp[n], w, AtSpare(n))
                      /\ \A i \in DOMAIN sp[n] : Clean(ss[sp[n][i]])

CallOk(c, w, ss) ==
  /\ c \in CallRecord
  /\ \A f \in Fds : w[f] = InCall <=> c.fd = f
  /\ c.pc \in {"idle", "next"} <=> c.fd = NoFd
  /\ c.pc # "idle" => c.cmd \in Commands /\ c.todo # << >>
  /\ c.pc = "read" => ss[c.fd].wire # << >>
  /\ c.fd # NoFd => \/ ss[c.fd].quiet
                    \/ ~ ss[c.fd].torn /\ ss[c.fd].wire = IF c.pc = "read" THEN <<c.cmd>> ELSE << >>

PutOk(a, p, w, ss) ==
  /\ p \in PutRecord
  /\ Lists(FdsOf(p.queue), w, AtQueue(a))
  /\ \A f \in Fds : w[f] = AtPush(a) <=> p.push = f
  /\ \A i \in DOMAIN p.queue : p.queue[i].keep => Clean(ss[p.queue[i].fd])
  /\ p.push # NoFd => Clean(ss[p.push])

CtxOk(c, s, cmd) ==
  /\ c.idx <= c.num /\ (c.open => c.idx < c.num)
  /\ \/ s.quiet
     \/ ~ s.torn /\ Len(s.wire) <= c.num - c.idx /\ \A j \in DOMAIN s.wire : s.wire[j] = cmd

TaskOk(t, k, w, ss) ==
  /\ k \in TaskRecord
  /\ Lists(FdsOf(k.ctxs), w, AtTask(t))
  /\ k.st \in {"none", "queued", "ended"} => k.ctxs = << >>
  /\ k.st # "none" => k.cmd \in Commands
  /\ \A i \in DOMAIN k.ctxs : CtxOk(k.ctxs[i], ss[k.ctxs[i].fd], k.cmd)

(* A thread that is about to add a connection to the queue of n has counted. *)
Adds(f, n, ss) == IF f # NoFd /\ ss[f].node = n THEN 1 ELSE 0
Bounded(sp, p, ss) ==
  \A n \in Nodes :
    Len(sp[n]) + Adds(p["main"].push, n, ss) + Adds(p["async"].push, n, ss) <= MaxSpare + 1

(* All of it, for connections ss, pool sp, call c, and what is put and tasked. *)
Holds(w, ss, sp, c, p, k) ==
  /\ Pooled(w, ss, sp)
  /\ CallOk(c, w, ss)
  /\ p \in [Actors -> PutRecord] /\ \A a \in Actors : PutOk(a, p[a], w, ss)
  /\ k \in [Tasks -> TaskRecord] /\ \A t \in Tasks : TaskOk(t, k[t], w, ss)
  /\ Bounded(sp, p, ss)
EmptyHanded(w) == \A f \in Fds : w[f] # InHand

Settled(w) == Holds(w, sock, spare, call, put, task) /\ EmptyHanded(w)

ConnectionsInv == \E w : Settled(w)

LEMMA PlacesDiffer ==
  /\ \A n : AtSpare(n) # Nowhere /\ AtSpare(n) # InHand /\ AtSpare(n) # InCall
  /\ \A a : /\ AtQueue(a) # Nowhere /\ AtQueue(a) # InHand /\ AtQueue(a) # InCall
            /\ AtPush(a) # Nowhere /\ AtPush(a) # InHand /\ AtPush(a) # InCall
            /\ AtTask(a) # Nowhere /\ AtTask(a) # InHand /\ AtTask(a) # InCall
  /\ Nowhere # InHand /\ Nowhere # InCall /\ InHand # InCall
  /\ \A a, b : /\ AtSpare(a) # AtQueue(b) /\ AtSpare(a) # AtPush(b) /\ AtSpare(a) # AtTask(b)
               /\ AtQueue(a) # AtPush(b) /\ AtQueue(a) # AtTask(b) /\ AtPush(a) # AtTask(b)
  /\ \A a, b : /\ AtSpare(a) = AtSpare(b) => a = b
               /\ AtQueue(a) = AtQueue(b) => a = b
               /\ AtPush(a) = AtPush(b) => a = b
               /\ AtTask(a) = AtTask(b) => a = b
  BY Zenon DEF Nowhere, InHand, InCall, AtSpare, AtQueue, AtPush, AtTask

LEMMA PlacesFacts ==
  /\ Nowhere \in Places /\ InHand \in Places /\ InCall \in Places
  /\ \A n \in Nodes : AtSpare(n) \in Places
  /\ \A a \in Actors : AtQueue(a) \in Places /\ AtPush(a) \in Places
  /\ \A t \in Tasks : AtTask(t) \in Places
  /\ InPool(Nowhere) /\ \A n \in Nodes : InPool(AtSpare(n))
  /\ ~ InPool(InHand) /\ ~ InPool(InCall)
  /\ \A a : ~ InPool(AtQueue(a)) /\ ~ InPool(AtPush(a)) /\ ~ InPool(AtTask(a))
  BY PlacesDiffer, Zenon DEF Places, InPool

LEMMA FdFacts == /\ \A f \in Fds : f # NoFd /\ f \in Nat
                 /\ NoFd \notin Fds
                 /\ MaxSpare \in Nat
                 /\ NoNode \notin Nodes
  BY ConnectionsBounds, NodesAssumption, Zenon DEF NoFd

-----------------------------------------------------------------------------
(* Lists of descriptors *)

LEMMA ListsSame ==
  ASSUME NEW s, NEW w, NEW v, NEW p, Lists(s, w, p), \A f \in Fds : v[f] = p <=> w[f] = p
  PROVE  Lists(s, v, p)
  BY Zenon DEF Lists

LEMMA ListsEmpty ==
  ASSUME NEW w, NEW p, \A f \in Fds : w[f] # p
  PROVE  Lists(<< >>, w, p)
  BY DEF Lists

LEMMA ListsTail ==
  ASSUME NEW s \in Seq(Fds), s # << >>, NEW w, NEW v, NEW p, Lists(s, w, p), v[Head(s)] # p,
         \A f \in Fds : f # Head(s) => (v[f] = p <=> w[f] = p)
  PROVE  Lists(Tail(s), v, p) /\ Head(s) \in Fds /\ w[Head(s)] = p
<1>1. /\ DOMAIN Tail(s) = 1 .. Len(s) - 1 /\ DOMAIN s = 1 .. Len(s) /\ Len(s) \in Nat \ {0}
      /\ \A i \in 1 .. Len(s) - 1 : Tail(s)[i] = s[i + 1]
      /\ Head(s) = s[1] /\ s[1] \in Fds
  BY HeadTailProperties
<1>2. \A i, j \in DOMAIN Tail(s) : Tail(s)[i] = Tail(s)[j] => i = j
  BY <1>1 DEF Lists
<1>3. w[Head(s)] = p
  BY <1>1 DEF Lists
<1>4. ASSUME NEW f \in Fds, f # Head(s), NEW i \in DOMAIN s, s[i] = f
      PROVE  \E j \in DOMAIN Tail(s) : Tail(s)[j] = f
  <2>1. i - 1 \in DOMAIN Tail(s) /\ Tail(s)[i - 1] = f
    BY <1>1, <1>4
  <2> QED
    BY <2>1, Zenon
<1>5. ASSUME NEW j \in DOMAIN Tail(s)
      PROVE  j + 1 \in DOMAIN s /\ s[j + 1] = Tail(s)[j] /\ Tail(s)[j] # Head(s)
  <2>1. j + 1 \in DOMAIN s /\ s[j + 1] = Tail(s)[j] /\ j + 1 # 1 /\ 1 \in DOMAIN s
    BY <1>1
  <2>2. s[j + 1] = s[1] => j + 1 = 1
    BY <2>1, Zenon DEF Lists
  <2> QED
    BY <1>1, <2>1, <2>2, Zenon
<1>6. \A f \in Fds : v[f] = p <=> \E j \in DOMAIN Tail(s) : Tail(s)[j] = f
  <2> TAKE f \in Fds
  <2>1. CASE f = Head(s)
    BY <1>5, <2>1, Zenon
  <2>2. CASE f # Head(s)
    <3>1. v[f] = p <=> \E i \in DOMAIN s : s[i] = f
      BY <2>2, Zenon DEF Lists
    <3> QED
      BY <1>4, <1>5, <2>2, <3>1, Zenon
  <2> QED
    BY <2>1, <2>2, Zenon
<1> QED
  BY <1>1, <1>2, <1>3, <1>6, Zenon DEF Lists

(***************************************************************************)
(* g leaves place p and nothing else arrives at it or leaves it.           *)
(***************************************************************************)
Leaves(g, w, v, p) == v[g] # p /\ \A f \in Fds : f # g => (v[f] = p <=> w[f] = p)

LEMMA ListsRest ==
  ASSUME NEW s \in Seq(Fds), s # << >>, NEW w, NEW v, NEW p, Lists(s, w, p), Leaves(Head(s), w, v, p)
  PROVE  Lists(Tail(s), v, p) /\ w[Head(s)] = p
<1>1. v[Head(s)] # p /\ \A f \in Fds : f # Head(s) => (v[f] = p <=> w[f] = p)
  BY Zenon DEF Leaves
<1> QED
  BY <1>1, ListsTail, SMT

LEMMA ListsAppend ==
  ASSUME NEW s \in Seq(Fds), NEW g \in Fds, NEW w, NEW v, NEW p, Lists(s, w, p),
         w[g] # p, v[g] = p, \A f \in Fds : f # g => (v[f] = p <=> w[f] = p)
  PROVE  Lists(Append(s, g), v, p)
<1> DEFINE r == Append(s, g)
<1>1. /\ DOMAIN s = 1 .. Len(s) /\ DOMAIN r = 1 .. Len(s) + 1 /\ Len(s) \in Nat
      /\ \A i \in 1 .. Len(s) : r[i] = s[i] /\ s[i] \in Fds
      /\ r[Len(s) + 1] = g
  BY AppendProperties
<1>2. \A i \in DOMAIN s : s[i] # g
  BY Zenon DEF Lists
<1> HIDE DEF r
<1>3. \A i, j \in DOMAIN r : r[i] = r[j] => i = j
  BY <1>1, <1>2 DEF Lists
<1>4. ASSUME NEW f \in Fds PROVE v[f] = p <=> \E i \in DOMAIN r : r[i] = f
  <2>1. CASE f = g
    BY <1>1, <2>1
  <2>2. CASE f # g
    <3>1. v[f] = p <=> \E i \in DOMAIN s : s[i] = f
      BY <2>2, Zenon DEF Lists
    <3>2. (\E i \in DOMAIN s : s[i] = f) <=> \E i \in DOMAIN r : r[i] = f
      BY <1>1, <2>2
    <3> QED
      BY <3>1, <3>2, Zenon
  <2> QED
    BY <2>1, <2>2, Zenon
<1> QED
  BY <1>3, <1>4, Zenon DEF Lists, r

LEMMA ListsConcat ==
  ASSUME NEW s \in Seq(Fds), NEW r \in Seq(Fds), NEW w, NEW v, NEW p, NEW q, p # q,
         Lists(s, w, p), Lists(r, w, q),
         \A f \in Fds : v[f] = p <=> w[f] = p \/ w[f] = q
  PROVE  Lists(s \o r, v, p)
<1> DEFINE u == s \o r
           n == Len(s)
           m == Len(r)
<1>1. /\ DOMAIN s = 1 .. n /\ DOMAIN r = 1 .. m /\ n \in Nat /\ m \in Nat /\ DOMAIN u = 1 .. n + m
      /\ \A i \in 1 .. n : s[i] \in Fds
      /\ \A i \in 1 .. m : r[i] \in Fds
      /\ \A i \in 1 .. n + m : u[i] = IF i <= n THEN s[i] ELSE r[i - n]
  BY ConcatProperties
<1> HIDE DEF u, n, m
<1>2. \A i \in DOMAIN s, j \in DOMAIN r : s[i] # r[j]
  <2>1. \A i \in DOMAIN s : s[i] \in Fds /\ w[s[i]] = p
    BY <1>1, Zenon DEF Lists
  <2>2. \A j \in DOMAIN r : r[j] \in Fds /\ w[r[j]] = q
    BY <1>1, Zenon DEF Lists
  <2> QED
    BY <2>1, <2>2
<1>3. ASSUME NEW i \in DOMAIN u, NEW j \in DOMAIN u, u[i] = u[j] PROVE i = j
  <2>1. /\ i <= n => i \in DOMAIN s /\ u[i] = s[i]
        /\ j <= n => j \in DOMAIN s /\ u[j] = s[j]
        /\ ~ (i <= n) => i - n \in DOMAIN r /\ u[i] = r[i - n]
        /\ ~ (j <= n) => j - n \in DOMAIN r /\ u[j] = r[j - n]
    BY <1>1
  <2>2. i <= n /\ j <= n => i = j
    BY <1>3, <2>1, Zenon DEF Lists
  <2>3. ~ (i <= n) /\ ~ (j <= n) => i - n = j - n
    BY <1>3, <2>1, Zenon DEF Lists
  <2>4. ~ (i <= n /\ ~ (j <= n)) /\ ~ (j <= n /\ ~ (i <= n))
    BY <1>2, <1>3, <2>1, Zenon
  <2> QED
    BY <1>1, <2>2, <2>3, <2>4
<1>4. ASSUME NEW f \in Fds PROVE v[f] = p <=> \E i \in DOMAIN u : u[i] = f
  <2>1. v[f] = p <=> (\E i \in DOMAIN s : s[i] = f) \/ (\E i \in DOMAIN r : r[i] = f)
    BY Zenon DEF Lists
  <2>2. ASSUME NEW i \in DOMAIN s, s[i] = f PROVE \E k \in DOMAIN u : u[k] = f
    BY <1>1, <2>2
  <2>3. ASSUME NEW i \in DOMAIN r, r[i] = f PROVE \E k \in DOMAIN u : u[k] = f
    <3>1. i + n \in DOMAIN u /\ u[i + n] = r[(i + n) - n] /\ (i + n) - n = i
      BY <1>1
    <3> QED
      BY <2>3, <3>1, Zenon
  <2>4. ASSUME NEW k \in DOMAIN u, u[k] = f
        PROVE  (\E i \in DOMAIN s : s[i] = f) \/ (\E i \in DOMAIN r : r[i] = f)
    <3>1. k <= n => k \in DOMAIN s /\ s[k] = f
      BY <1>1, <2>4
    <3>2. ~ (k <= n) => k - n \in DOMAIN r /\ r[k - n] = f
      BY <1>1, <2>4
    <3> QED
      BY <3>1, <3>2, Zenon
  <2> QED
    BY <2>1, <2>2, <2>3, <2>4, Zenon
<1> QED
  BY <1>3, <1>4, Zenon DEF Lists, u

-----------------------------------------------------------------------------
(* Frames: a step that leaves a place alone *)

Like(s, z) ==
  z.node = s.node /\ z.torn = s.torn /\ z.wire = s.wire /\ z.quiet = s.quiet /\ z.lost = s.lost
Stays(x, w, v, ss, zz) ==
  \A f \in Fds : (v[f] = x <=> w[f] = x) /\ (w[f] = x => Like(ss[f], zz[f]))

LEMMA MoveStays ==
  ASSUME NEW w \in [Fds -> Places], NEW ss \in [Fds -> Socket], NEW g \in Fds, NEW q, NEW s,
         NEW x, x # w[g], x # q
  PROVE  Stays(x, w, [w EXCEPT ![g] = q], ss, [ss EXCEPT ![g] = s])
  BY Zenon DEF Stays, Like

LEMMA HandOverStays ==
  ASSUME NEW w \in [Fds -> Places], NEW ss, NEW g \in Fds, NEW q, NEW x, x # w[g], x # q
  PROVE  Stays(x, w, [w EXCEPT ![g] = q], ss, ss)
  BY Zenon DEF Stays, Like

LEMMA PooledStep ==
  ASSUME NEW w, NEW ss, NEW sp, NEW v \in [Fds -> Places], NEW zz \in [Fds -> Socket], Pooled(w, ss, sp),
         \A n \in Nodes : Stays(AtSpare(n), w, v, ss, zz),
         \A f \in Fds : Sane(zz[f]) /\ (v[f] = Nowhere <=> zz[f].node = NoNode \/ zz[f].lost)
  PROVE  Pooled(v, zz, sp)
<1>1. sp \in [Nodes -> Seq(Fds)]
  BY Zenon DEF Pooled
<1>2. ASSUME NEW n \in Nodes PROVE Lists(sp[n], v, AtSpare(n))
  BY ListsSame, ZenonT(60) DEF Pooled, Stays
<1>3. ASSUME NEW n \in Nodes, NEW i \in DOMAIN sp[n] PROVE Clean(zz[sp[n][i]])
  <2>1. sp[n][i] \in Fds
    BY <1>1, ElementOfSeq
  <2>2. w[sp[n][i]] = AtSpare(n) /\ Clean(ss[sp[n][i]])
    BY <2>1, Zenon DEF Pooled, Lists
  <2>3. Like(ss[sp[n][i]], zz[sp[n][i]])
    BY <2>1, <2>2, Zenon DEF Stays
  <2> QED
    BY <2>2, <2>3, Zenon DEF Like, Clean
<1> QED
  BY <1>1, <1>2, <1>3, Zenon DEF Pooled

LEMMA CallFrame ==
  ASSUME NEW c, NEW w, NEW v, NEW ss, NEW zz, CallOk(c, w, ss), Stays(InCall, w, v, ss, zz)
  PROVE  CallOk(c, v, zz)
<1>1. c.fd \in Fds \/ c.fd = NoFd
  BY Zenon DEF CallOk, CallRecord
<1>2. c.fd \in Fds => Like(ss[c.fd], zz[c.fd])
  BY Zenon DEF CallOk, Stays
<1>3. c.pc = "read" => c.fd # NoFd
  BY Zenon DEF CallOk
<1>4. \A f \in Fds : v[f] = InCall <=> c.fd = f
  BY Zenon DEF CallOk, Stays
<1>5. c.pc = "read" => zz[c.fd].wire # << >>
  BY <1>1, <1>2, <1>3, Zenon DEF CallOk, Like
<1>6. c.fd # NoFd => \/ zz[c.fd].quiet
                     \/ ~ zz[c.fd].torn /\ zz[c.fd].wire = IF c.pc = "read" THEN <<c.cmd>> ELSE << >>
  BY <1>1, <1>2, Zenon DEF CallOk, Like
<1> QED
  BY <1>4, <1>5, <1>6, Zenon DEF CallOk

LEMMA PutFrame ==
  ASSUME NEW a \in Actors, NEW p, NEW w, NEW v, NEW ss, NEW zz, PutOk(a, p, w, ss),
         Stays(AtQueue(a), w, v, ss, zz), Stays(AtPush(a), w, v, ss, zz)
  PROVE  PutOk(a, p, v, zz)
<1>1. Lists(FdsOf(p.queue), v, AtQueue(a))
  BY ListsSame, Zenon DEF PutOk, Stays
<1>2. \A f \in Fds : v[f] = AtPush(a) <=> p.push = f
  BY Zenon DEF PutOk, Stays
<1>3. ASSUME NEW i \in DOMAIN p.queue, p.queue[i].keep PROVE Clean(zz[p.queue[i].fd])
  <2>1. p.queue[i].fd \in Fds
    <3>1. p.queue \in Seq(SpentRecord)
      BY Zenon DEF PutOk, PutRecord
    <3>2. p.queue[i] \in SpentRecord
      BY <3>1, ElementOfSeq
    <3> QED
      BY <3>2, Zenon DEF SpentRecord
  <2>2. i \in DOMAIN FdsOf(p.queue) /\ FdsOf(p.queue)[i] = p.queue[i].fd
    BY Zenon DEF FdsOf
  <2>3. w[p.queue[i].fd] = AtQueue(a)
    BY <2>1, <2>2, ZenonT(60) DEF PutOk, Lists
  <2>4. Like(ss[p.queue[i].fd], zz[p.queue[i].fd])
    BY <2>1, <2>3, Zenon DEF Stays
  <2> QED
    BY <1>3, <2>4, Zenon DEF PutOk, Like, Clean
<1>4. p.push # NoFd => Clean(zz[p.push])
  <2>1. p.push \in Fds \/ p.push = NoFd
    BY Zenon DEF PutOk, PutRecord
  <2>2. p.push \in Fds => Like(ss[p.push], zz[p.push])
    BY Zenon DEF PutOk, Stays
  <2> QED
    BY <2>1, <2>2, Zenon DEF PutOk, Like, Clean
<1> QED
  BY <1>1, <1>2, <1>3, <1>4, Zenon DEF PutOk

LEMMA TaskFrame ==
  ASSUME NEW t \in Tasks, NEW k, NEW w, NEW v, NEW ss, NEW zz, TaskOk(t, k, w, ss),
         Stays(AtTask(t), w, v, ss, zz)
  PROVE  TaskOk(t, k, v, zz)
<1>1. Lists(FdsOf(k.ctxs), v, AtTask(t))
  BY ListsSame, Zenon DEF TaskOk, Stays
<1>2. ASSUME NEW i \in DOMAIN k.ctxs PROVE CtxOk(k.ctxs[i], zz[k.ctxs[i].fd], k.cmd)
  <2>1. k.ctxs[i].fd \in Fds
    <3>1. k.ctxs \in Seq(Context)
      BY Zenon DEF TaskOk, TaskRecord
    <3>2. k.ctxs[i] \in Context
      BY <3>1, ElementOfSeq
    <3> QED
      BY <3>2, Zenon DEF Context
  <2>2. i \in DOMAIN FdsOf(k.ctxs) /\ FdsOf(k.ctxs)[i] = k.ctxs[i].fd
    BY Zenon DEF FdsOf
  <2>3. w[k.ctxs[i].fd] = AtTask(t)
    BY <2>1, <2>2, Zenon DEF TaskOk, Lists
  <2>4. Like(ss[k.ctxs[i].fd], zz[k.ctxs[i].fd])
    BY <2>1, <2>3, Zenon DEF Stays
  <2>5. CtxOk(k.ctxs[i], ss[k.ctxs[i].fd], k.cmd)
    BY Zenon DEF TaskOk
  <2> QED
    BY <2>4, <2>5, Zenon DEF Like, CtxOk
<1> QED
  BY <1>1, <1>2, Zenon DEF TaskOk

LEMMA BoundedFrame ==
  ASSUME NEW sp, NEW zp, NEW p, NEW w, NEW v, NEW ss, NEW zz, Bounded(sp, p, ss),
         sp \in [Nodes -> Seq(Fds)], zp \in [Nodes -> Seq(Fds)],
         \A n \in Nodes : Len(zp[n]) <= Len(sp[n]),
         \A a \in Actors : PutOk(a, p[a], w, ss) /\ Stays(AtPush(a), w, v, ss, zz)
  PROVE  Bounded(zp, p, zz)
<1>1. ASSUME NEW n \in Nodes, NEW a \in Actors
      PROVE  Adds(p[a].push, n, zz) = Adds(p[a].push, n, ss) /\ Adds(p[a].push, n, ss) \in 0 .. 1
  <2>1. p[a].push \in Fds \/ p[a].push = NoFd
    BY Zenon DEF PutOk, PutRecord
  <2>2. p[a].push \in Fds => zz[p[a].push].node = ss[p[a].push].node
    BY Zenon DEF PutOk, Stays, Like
  <2> QED
    BY <2>1, <2>2 DEF Adds
<1>2. "main" \in Actors /\ "async" \in Actors
  BY Zenon DEF Actors
<1>3. ASSUME NEW n \in Nodes
      PROVE  Len(zp[n]) + Adds(p["main"].push, n, zz) + Adds(p["async"].push, n, zz) <= MaxSpare + 1
  <2>1. Len(zp[n]) \in Nat /\ Len(sp[n]) \in Nat /\ Len(zp[n]) <= Len(sp[n])
    BY LenProperties, Zenon
  <2>2. Len(sp[n]) + Adds(p["main"].push, n, ss) + Adds(p["async"].push, n, ss) <= MaxSpare + 1
    BY Zenon DEF Bounded
  <2> QED
    BY <1>1, <1>2, <2>1, <2>2, FdFacts, SMTT(60)
<1> QED
  BY <1>3, Zenon DEF Bounded

-----------------------------------------------------------------------------
(* connections_pool_get *)

LEMMA NewSockets ==
  /\ Closed \in Socket /\ Sane(Closed) /\ Clean(Closed) /\ Closed.node = NoNode /\ ~ Closed.lost
  /\ \A n \in Nodes : /\ Opened(n) \in Socket /\ Sane(Opened(n)) /\ Clean(Opened(n))
                      /\ Opened(n).node = n /\ n # NoNode /\ ~ Opened(n).lost
<1>1. << >> \in Seq(Commands)
  OBVIOUS
<1>2. \A n \in Nodes : n # NoNode
  BY FdFacts, Zenon
<1> QED
  BY <1>1, <1>2, Zenon DEF Closed, Opened, Socket, Sane, Clean

(* From w, ss and sp to v, zz and zp: fd is in the hands of the caller, or NoFd
   is, and what is not in the pool is as before. *)
Taken(w, ss, sp, v, fd, zz, zp) ==
  /\ Pooled(v, zz, zp)
  /\ fd \in Fds \cup {NoFd}
  /\ \A f \in Fds : v[f] = InHand <=> fd = f
  /\ \A f \in Fds : ~ InPool(w[f]) => v[f] = w[f] /\ zz[f] = ss[f]
  /\ \A f \in Fds : ~ InPool(v[f]) /\ v[f] # InHand => v[f] = w[f]
  /\ fd # NoFd => Clean(zz[fd])
  /\ \A m \in Nodes : Len(zp[m]) <= Len(sp[m])

LEMMA TakenTwice ==
  ASSUME NEW w, NEW ss, NEW sp, NEW v, NEW zz, NEW zp, Taken(w, ss, sp, v, NoFd, zz, zp),
         NEW u, NEW fd, NEW yy, NEW yp, Taken(v, zz, zp, u, fd, yy, yp),
         sp \in [Nodes -> Seq(Fds)]
  PROVE  Taken(w, ss, sp, u, fd, yy, yp)
<1>1. \A f \in Fds : ~ InPool(w[f]) => u[f] = w[f] /\ yy[f] = ss[f]
  BY Zenon DEF Taken
<1>2. \A f \in Fds : ~ InPool(u[f]) /\ u[f] # InHand => u[f] = w[f]
  BY Zenon DEF Taken
<1>3. ASSUME NEW m \in Nodes PROVE Len(yp[m]) <= Len(sp[m])
  <2>1. sp \in [Nodes -> Seq(Fds)] /\ zp \in [Nodes -> Seq(Fds)] /\ yp \in [Nodes -> Seq(Fds)]
    BY Zenon DEF Taken, Pooled
  <2>2. Len(sp[m]) \in Nat /\ Len(zp[m]) \in Nat /\ Len(yp[m]) \in Nat
    BY <2>1, LenProperties, Zenon
  <2>3. Len(yp[m]) <= Len(zp[m]) /\ Len(zp[m]) <= Len(sp[m])
    BY Zenon DEF Taken
  <2> QED
    BY <2>2, <2>3
<1> QED
  BY <1>1, <1>2, <1>3, Zenon DEF Taken

LEMMA Connects ==
  ASSUME NEW w, NEW ss, NEW sp, Pooled(w, ss, sp), EmptyHanded(w), NEW n \in Nodes,
         NEW r \in connect_to_peer(n, ss, sp)
  PROVE  \E v : Taken(w, ss, sp, v, r.fd, r.sock, r.spare)
<1>0. /\ w \in [Fds -> Places] /\ ss \in [Fds -> Socket] /\ sp \in [Nodes -> Seq(Fds)]
  BY Zenon DEF Pooled
<1>1. \A m \in Nodes : Len(sp[m]) <= Len(sp[m])
  BY <1>0, LenProperties
<1>2. CASE r = Unreachable(ss, sp)
  <2>1. r.fd = NoFd /\ r.sock = ss /\ r.spare = sp
    BY <1>2, Zenon DEF Unreachable
  <2>2. Taken(w, ss, sp, w, NoFd, ss, sp)
    BY <1>1, FdFacts, Zenon DEF Taken, EmptyHanded
  <2> QED
    BY <2>1, <2>2, Zenon
<1>3. ASSUME NEW g \in Fds, ss[g].node = NoNode,
             r = [fd |-> g, sock |-> [ss EXCEPT ![g] = Opened(n)], spare |-> sp]
      PROVE  \E v : Taken(w, ss, sp, v, r.fd, r.sock, r.spare)
  <2> DEFINE v == [w EXCEPT ![g] = InHand]
             zz == [ss EXCEPT ![g] = Opened(n)]
  <2>1. r.fd = g /\ r.sock = zz /\ r.spare = sp
    BY <1>3, Zenon
  <2>2. w[g] = Nowhere
    BY <1>3, Zenon DEF Pooled
  <2>3. v \in [Fds -> Places] /\ zz \in [Fds -> Socket]
    BY <1>0, PlacesFacts, NewSockets, Zenon
  <2>4. /\ v[g] = InHand /\ zz[g] = Opened(n)
        /\ \A f \in Fds : f # g => v[f] = w[f] /\ zz[f] = ss[f]
    BY <1>0, Zenon
  <2>5. \A m \in Nodes : Stays(AtSpare(m), w, v, ss, zz)
    BY <1>0, <2>2, MoveStays, PlacesDiffer, Zenon
  <2> HIDE DEF v, zz
  <2>6. ASSUME NEW f \in Fds
        PROVE  Sane(zz[f]) /\ (v[f] = Nowhere <=> zz[f].node = NoNode \/ zz[f].lost)
    <3>1. CASE f = g
      BY <2>4, <3>1, NewSockets, PlacesDiffer, Zenon
    <3>2. CASE f # g
      BY <2>4, <3>2, Zenon DEF Pooled
    <3> QED
      BY <3>1, <3>2, Zenon
  <2>7. Pooled(v, zz, sp)
    BY <2>3, <2>5, <2>6, PooledStep, Zenon
  <2>8. \A f \in Fds : v[f] = InHand <=> g = f
    BY <2>4, Zenon DEF EmptyHanded
  <2>9. \A f \in Fds : ~ InPool(w[f]) => v[f] = w[f] /\ zz[f] = ss[f]
    BY <2>2, <2>4, PlacesFacts, Zenon
  <2>10. \A f \in Fds : ~ InPool(v[f]) /\ v[f] # InHand => v[f] = w[f]
    BY <2>4, Zenon
  <2>11. Clean(zz[g])
    BY <2>4, NewSockets, Zenon
  <2>12. Taken(w, ss, sp, v, g, zz, sp)
    BY <1>1, <2>7, <2>8, <2>9, <2>10, <2>11, Zenon DEF Taken
  <2> QED
    BY <2>1, <2>12, Zenon
<1> QED
  <2>1. \/ r = Unreachable(ss, sp)
        \/ \E g \in Fds : /\ ss[g].node = NoNode
                          /\ r = [fd |-> g, sock |-> [ss EXCEPT ![g] = Opened(n)], spare |-> sp]
    BY Zenon DEF connect_to_peer
  <2> QED
    BY <2>1, <1>2, <1>3, Zenon

LEMMA Empties ==
  ASSUME NEW w, NEW ss, NEW sp, Pooled(w, ss, sp), EmptyHanded(w)
  PROVE  \E v : Taken(w, ss, sp, v, NoFd, connections_queue_empty(ss, sp), [m \in Nodes |-> << >>])
<1> DEFINE v == [f \in Fds |-> IF InPool(w[f]) THEN Nowhere ELSE w[f]]
           zz == connections_queue_empty(ss, sp)
           zp == [m \in Nodes |-> << >>]
           listed(f) == \E n \in Nodes : \E i \in DOMAIN sp[n] : sp[n][i] = f
<1>0. /\ w \in [Fds -> Places] /\ ss \in [Fds -> Socket] /\ sp \in [Nodes -> Seq(Fds)]
  BY Zenon DEF Pooled
<1>1. ASSUME NEW f \in Fds
      PROVE  /\ listed(f) => zz[f] = Closed
             /\ ~ listed(f) => zz[f] = ss[f]
             /\ InPool(w[f]) => v[f] = Nowhere
             /\ ~ InPool(w[f]) => v[f] = w[f]
             /\ listed(f) <=> \E n \in Nodes : w[f] = AtSpare(n)
  <2>1. listed(f) <=> \E n \in Nodes : w[f] = AtSpare(n)
    BY ZenonT(60) DEF Pooled, Lists
  <2> QED
    BY <2>1, Zenon DEF connections_queue_empty
<1>2. zz \in [Fds -> Socket]
  BY <1>0, NewSockets, Zenon DEF connections_queue_empty
<1>3. v \in [Fds -> Places] /\ zp \in [Nodes -> Seq(Fds)] /\ \A m \in Nodes : zp[m] = << >>
  BY <1>0, PlacesFacts
<1>4. \A m \in Nodes : Len(zp[m]) <= Len(sp[m])
  BY <1>0, <1>3, LenProperties
<1> HIDE DEF v, zz, zp, listed
<1>5. ASSUME NEW f \in Fds
      PROVE  Sane(zz[f]) /\ (v[f] = Nowhere <=> zz[f].node = NoNode \/ zz[f].lost)
  <2>1. CASE listed(f)
    BY <1>1, <2>1, NewSockets, Zenon DEF InPool
  <2>2. CASE ~ listed(f)
    <3>1. zz[f] = ss[f] /\ v[f] = w[f]
      BY <1>1, <2>2, Zenon DEF InPool
    <3> QED
      BY <3>1, Zenon DEF Pooled
  <2> QED
    BY <2>1, <2>2, Zenon
<1>6. ASSUME NEW n \in Nodes PROVE Lists(zp[n], v, AtSpare(n)) /\ \A i \in DOMAIN zp[n] : Clean(zz[zp[n][i]])
  <2>1. \A f \in Fds : v[f] # AtSpare(n)
    BY <1>1, PlacesDiffer, PlacesFacts, Zenon
  <2>2. Lists(<< >>, v, AtSpare(n))
    BY <2>1, ListsEmpty, Zenon
  <2>3. DOMAIN << >> = {}
    OBVIOUS
  <2> QED
    BY <1>3, <2>2, <2>3, Zenon
<1>7. Pooled(v, zz, zp)
  BY <1>2, <1>3, <1>5, <1>6, Zenon DEF Pooled
<1>8. \A f \in Fds : v[f] = InHand <=> NoFd = f
  BY <1>1, PlacesDiffer, FdFacts, Zenon DEF EmptyHanded
<1>9. \A f \in Fds : ~ InPool(w[f]) => v[f] = w[f] /\ zz[f] = ss[f]
  BY <1>1, Zenon DEF InPool
<1>10. \A f \in Fds : ~ InPool(v[f]) /\ v[f] # InHand => v[f] = w[f]
  BY <1>1, PlacesFacts, Zenon
<1>11. Taken(w, ss, sp, v, NoFd, zz, zp)
  BY <1>4, <1>7, <1>8, <1>9, <1>10, Zenon DEF Taken
<1> QED
  BY <1>11, Zenon DEF zz, zp

LEMMA PoolGet ==
  ASSUME NEW w, NEW ss, NEW sp, Pooled(w, ss, sp), EmptyHanded(w), NEW n \in Nodes,
         NEW r \in connections_pool_get(n, ss, sp)
  PROVE  \E v : Taken(w, ss, sp, v, r.fd, r.sock, r.spare)
<1>0. /\ w \in [Fds -> Places] /\ ss \in [Fds -> Socket] /\ sp \in [Nodes -> Seq(Fds)]
  BY Zenon DEF Pooled
<1>1. CASE sp[n] # << >>
  <2> DEFINE g == Head(sp[n])
             v == [w EXCEPT ![g] = InHand]
             zp == [sp EXCEPT ![n] = Tail(@)]
  <2>1. r.fd = g /\ r.sock = ss /\ r.spare = zp
    BY <1>1 DEF connections_pool_get
  <2>2. sp[n] \in Seq(Fds) /\ Lists(sp[n], w, AtSpare(n))
    BY <1>0, Zenon DEF Pooled
  <2>3. g \in Fds /\ g = sp[n][1] /\ 1 \in DOMAIN sp[n]
    BY <1>1, <2>2, HeadTailProperties
  <2>4. w[g] = AtSpare(n)
    BY <2>2, <2>3, Zenon DEF Lists
  <2>5. Clean(ss[g])
    BY <2>3, Zenon DEF Pooled
  <2>6. v \in [Fds -> Places] /\ v[g] = InHand /\ \A f \in Fds : f # g => v[f] = w[f]
    BY <1>0, <2>3, PlacesFacts, Zenon
  <2>7. zp \in [Nodes -> Seq(Fds)] /\ zp[n] = Tail(sp[n]) /\ \A m \in Nodes : m # n => zp[m] = sp[m]
    BY <1>0, <1>1, HeadTailProperties, Zenon
  <2>8. \A m \in Nodes : Len(zp[m]) <= Len(sp[m])
    BY <1>0, <1>1, <2>7, HeadTailProperties, LenProperties
  <2>9. \A i \in DOMAIN Tail(sp[n]) : i + 1 \in DOMAIN sp[n] /\ Tail(sp[n])[i] = sp[n][i + 1]
    BY <1>1, <2>2, HeadTailProperties
  <2> HIDE DEF v, zp
  <2>10. ASSUME NEW m \in Nodes
         PROVE  Lists(zp[m], v, AtSpare(m)) /\ \A i \in DOMAIN zp[m] : Clean(ss[zp[m][i]])
    <3>1. CASE m = n
      <4>1. v[g] # AtSpare(n) /\ \A f \in Fds : f # g => (v[f] = AtSpare(n) <=> w[f] = AtSpare(n))
        BY <2>6, PlacesDiffer, Zenon
      <4>2. Lists(Tail(sp[n]), v, AtSpare(n))
        BY <1>1, <2>2, <4>1, ListsTail, Zenon
      <4>3. \A i \in DOMAIN Tail(sp[n]) : Clean(ss[Tail(sp[n])[i]])
        BY <2>9, Zenon DEF Pooled
      <4> QED
        BY <2>7, <3>1, <4>2, <4>3, Zenon
    <3>2. CASE m # n
      <4>1. \A f \in Fds : v[f] = AtSpare(m) <=> w[f] = AtSpare(m)
        BY <2>4, <2>6, <3>2, PlacesDiffer, Zenon
      <4>2. Lists(sp[m], v, AtSpare(m))
        BY <4>1, ListsSame, Zenon DEF Pooled
      <4> QED
        BY <2>7, <3>2, <4>2, Zenon DEF Pooled
    <3> QED
      BY <3>1, <3>2, Zenon
  <2>11. \A f \in Fds : Sane(ss[f]) /\ (v[f] = Nowhere <=> ss[f].node = NoNode \/ ss[f].lost)
    BY <2>3, <2>4, <2>6, PlacesDiffer, Zenon DEF Pooled
  <2>12. Pooled(v, ss, zp)
    BY <1>0, <2>6, <2>7, <2>10, <2>11, Zenon DEF Pooled
  <2>13. \A f \in Fds : v[f] = InHand <=> g = f
    BY <2>6, Zenon DEF EmptyHanded
  <2>14. \A f \in Fds : ~ InPool(w[f]) => v[f] = w[f] /\ ss[f] = ss[f]
    BY <2>4, <2>6, PlacesFacts, Zenon
  <2>15. \A f \in Fds : ~ InPool(v[f]) /\ v[f] # InHand => v[f] = w[f]
    BY <2>6, Zenon
  <2>16. Taken(w, ss, sp, v, g, ss, zp)
    BY <2>3, <2>5, <2>8, <2>12, <2>13, <2>14, <2>15, Zenon DEF Taken
  <2> QED
    BY <2>1, <2>16, Zenon
<1>2. CASE sp[n] = << >> /\ r \in connect_to_peer(n, ss, sp)
  BY <1>2, Connects, Zenon
<1>3. CASE r \in connect_to_peer(n, connections_queue_empty(ss, sp), [m \in Nodes |-> << >>])
  <2> DEFINE zz == connections_queue_empty(ss, sp)
             zp == [m \in Nodes |-> << >>]
  <2>1. PICK v : Taken(w, ss, sp, v, NoFd, zz, zp)
    BY Empties, Zenon
  <2> HIDE DEF zz, zp
  <2>2. Pooled(v, zz, zp) /\ EmptyHanded(v)
    BY <2>1, FdFacts, Zenon DEF Taken, EmptyHanded
  <2>3. r \in connect_to_peer(n, zz, zp)
    BY <1>3, Zenon DEF zz, zp
  <2>4. PICK u : Taken(v, zz, zp, u, r.fd, r.sock, r.spare)
    BY <2>2, <2>3, Connects, Zenon
  <2> QED
    BY <1>0, <2>1, <2>4, TakenTwice, Zenon
<1> QED
  BY <1>1, <1>2, <1>3, Zenon DEF connections_pool_get

LEMMA TakenFrame ==
  ASSUME NEW w, NEW ss, NEW sp, NEW c, NEW p, NEW k, Holds(w, ss, sp, c, p, k), EmptyHanded(w),
         NEW v, NEW fd, NEW zz, NEW zp, Taken(w, ss, sp, v, fd, zz, zp)
  PROVE  Holds(v, zz, zp, c, p, k)
<1>1. ASSUME NEW x, ~ InPool(x), x # InHand PROVE Stays(x, w, v, ss, zz)
  <2> SUFFICES ASSUME NEW f \in Fds
               PROVE  (v[f] = x <=> w[f] = x) /\ (w[f] = x => Like(ss[f], zz[f]))
    BY Zenon DEF Stays
  <2>1. v[f] = x => w[f] = x
    BY <1>1, Zenon DEF Taken
  <2>2. w[f] = x => v[f] = x /\ zz[f] = ss[f]
    BY <1>1, Zenon DEF Taken
  <2> QED
    BY <2>1, <2>2, Zenon DEF Like
<1>2. CallOk(c, v, zz)
  BY <1>1, CallFrame, PlacesFacts, PlacesDiffer, Zenon DEF Holds
<1>3. \A a \in Actors : Stays(AtQueue(a), w, v, ss, zz) /\ Stays(AtPush(a), w, v, ss, zz)
  BY <1>1, PlacesFacts, PlacesDiffer, Zenon
<1>4. \A a \in Actors : PutOk(a, p[a], v, zz)
  BY <1>3, PutFrame, Zenon DEF Holds
<1>5. \A t \in Tasks : TaskOk(t, k[t], v, zz)
  BY <1>1, TaskFrame, PlacesFacts, PlacesDiffer, Zenon DEF Holds
<1>6. Bounded(zp, p, zz)
  <2>1. sp \in [Nodes -> Seq(Fds)] /\ zp \in [Nodes -> Seq(Fds)]
    BY Zenon DEF Holds, Taken, Pooled
  <2>2. \A n \in Nodes : Len(zp[n]) <= Len(sp[n])
    BY Zenon DEF Taken
  <2>3. \A a \in Actors : PutOk(a, p[a], w, ss) /\ Stays(AtPush(a), w, v, ss, zz)
    BY <1>3, Zenon DEF Holds
  <2>4. Bounded(sp, p, ss)
    BY Zenon DEF Holds
  <2> QED
    BY <2>1, <2>2, <2>3, <2>4, BoundedFrame, Zenon
<1> QED
  BY <1>2, <1>4, <1>5, <1>6, Zenon DEF Holds, Taken

-----------------------------------------------------------------------------
(* One descriptor g moves to place q, and its connection becomes s *)

LEMMA PooledMove ==
  ASSUME NEW w, NEW ss, NEW sp, Pooled(w, ss, sp), NEW g \in Fds, NEW q \in Places, NEW s \in Socket,
         Sane(s), q = Nowhere <=> s.node = NoNode \/ s.lost,
         \A n \in Nodes : w[g] # AtSpare(n) /\ q # AtSpare(n)
  PROVE  Pooled([w EXCEPT ![g] = q], [ss EXCEPT ![g] = s], sp)
<1> DEFINE v == [w EXCEPT ![g] = q]
           zz == [ss EXCEPT ![g] = s]
<1>1. w \in [Fds -> Places] /\ ss \in [Fds -> Socket]
  BY Zenon DEF Pooled
<1>2. v \in [Fds -> Places] /\ zz \in [Fds -> Socket] /\ v[g] = q /\ zz[g] = s
      /\ \A f \in Fds : f # g => v[f] = w[f] /\ zz[f] = ss[f]
  BY <1>1, Zenon
<1>3. \A n \in Nodes : Stays(AtSpare(n), w, v, ss, zz)
  BY <1>1, MoveStays, Zenon
<1> HIDE DEF v, zz
<1>4. ASSUME NEW f \in Fds
      PROVE  Sane(zz[f]) /\ (v[f] = Nowhere <=> zz[f].node = NoNode \/ zz[f].lost)
  <2>1. CASE f = g
    BY <1>2, <2>1, Zenon
  <2>2. CASE f # g
    BY <1>2, <2>2, Zenon DEF Pooled
  <2> QED
    BY <2>1, <2>2, Zenon
<1>5. Pooled(v, zz, sp)
  BY <1>2, <1>3, <1>4, PooledStep, Zenon
<1> QED
  BY <1>5, Zenon DEF v, zz

MoveCase(w, ss, sp, c, p, k, g, q, s, v, zz, c2, p2, k2) ==
  /\ g \in Fds /\ q \in Places /\ s \in Socket
  /\ Sane(s) /\ (q = Nowhere <=> s.node = NoNode \/ s.lost)
  /\ \A n \in Nodes : w[g] # AtSpare(n) /\ q # AtSpare(n)
  /\ v = [w EXCEPT ![g] = q] /\ zz = [ss EXCEPT ![g] = s]
  /\ (c2 = c /\ w[g] # InCall /\ q # InCall) \/ CallOk(c2, v, zz)
  /\ p2 \in [Actors -> PutRecord]
  /\ \A a \in Actors :
        \/ /\ p2[a] = p[a]
           /\ w[g] # AtQueue(a) /\ w[g] # AtPush(a) /\ q # AtQueue(a) /\ q # AtPush(a)
        \/ PutOk(a, p2[a], v, zz)
  /\ k2 \in [Tasks -> TaskRecord]
  /\ \A t \in Tasks : (k2[t] = k[t] /\ w[g] # AtTask(t) /\ q # AtTask(t)) \/ TaskOk(t, k2[t], v, zz)
  /\ \/ \A a \in Actors : p2[a].push = p[a].push /\ w[g] # AtPush(a) /\ q # AtPush(a)
     \/ Bounded(sp, p2, zz)

LEMMA Moves ==
  ASSUME NEW w, NEW ss, NEW sp, NEW c, NEW p, NEW k, Holds(w, ss, sp, c, p, k),
         NEW g, NEW q, NEW s, NEW v, NEW zz, NEW c2, NEW p2, NEW k2,
         MoveCase(w, ss, sp, c, p, k, g, q, s, v, zz, c2, p2, k2)
  PROVE  Holds(v, zz, sp, c2, p2, k2)
<1> USE DEF MoveCase
<1>1. w \in [Fds -> Places] /\ ss \in [Fds -> Socket] /\ sp \in [Nodes -> Seq(Fds)]
  BY Zenon DEF Holds, Pooled
<1>2. Pooled(v, zz, sp)
  BY PooledMove, Zenon DEF Holds
<1>3. \A x : x # w[g] /\ x # q => Stays(x, w, v, ss, zz)
  BY <1>1, MoveStays, Zenon
<1>4. CallOk(c2, v, zz)
  <2> SUFFICES ASSUME c2 = c, w[g] # InCall, q # InCall PROVE CallOk(c2, v, zz)
    BY Zenon
  <2>1. CallOk(c, w, ss) /\ Stays(InCall, w, v, ss, zz)
    BY <1>3, Zenon DEF Holds
  <2> QED
    BY <2>1, CallFrame, Zenon
<1>5. ASSUME NEW a \in Actors PROVE PutOk(a, p2[a], v, zz)
  BY <1>3, PutFrame, Zenon DEF Holds
<1>6. ASSUME NEW t \in Tasks PROVE TaskOk(t, k2[t], v, zz)
  BY <1>3, TaskFrame, Zenon DEF Holds
<1>7. Bounded(sp, p2, zz)
  <2> SUFFICES ASSUME \A a \in Actors : p2[a].push = p[a].push /\ w[g] # AtPush(a) /\ q # AtPush(a)
               PROVE  Bounded(sp, p2, zz)
    BY Zenon
  <2>1. \A n \in Nodes : Len(sp[n]) <= Len(sp[n])
    BY <1>1, LenProperties
  <2>2. \A a \in Actors : PutOk(a, p[a], w, ss) /\ Stays(AtPush(a), w, v, ss, zz)
    BY <1>3, Zenon DEF Holds
  <2>3. Bounded(sp, p, zz)
    BY <1>1, <2>1, <2>2, BoundedFrame, Zenon DEF Holds
  <2>4. p2["main"].push = p["main"].push /\ p2["async"].push = p["async"].push
    BY Zenon DEF Actors
  <2> QED
    BY <2>3, <2>4, Zenon DEF Bounded
<1> QED
  BY <1>2, <1>4, <1>5, <1>6, <1>7, Zenon DEF Holds

(* The connections of a list of records with a descriptor in each *)

LEMMA FdsTail ==
  ASSUME NEW S, NEW s \in Seq(S), s # << >>, \A x \in S : x.fd \in Fds
  PROVE  /\ FdsOf(s) \in Seq(Fds) /\ FdsOf(s) # << >> /\ FdsOf(Tail(s)) = Tail(FdsOf(s))
         /\ Head(FdsOf(s)) = Head(s).fd /\ Head(s) \in S /\ Tail(s) \in Seq(S)
         /\ \A i \in DOMAIN Tail(s) : i + 1 \in DOMAIN s /\ i + 1 # 1 /\ Tail(s)[i] = s[i + 1]
         /\ Head(s) = s[1] /\ 1 \in DOMAIN s
<1>1. /\ Len(s) \in Nat \ {0} /\ DOMAIN s = 1 .. Len(s) /\ Tail(s) \in Seq(S) /\ Len(Tail(s)) = Len(s) - 1
      /\ DOMAIN Tail(s) = 1 .. Len(s) - 1 /\ Head(s) = s[1]
      /\ \A i \in 1 .. Len(s) - 1 : Tail(s)[i] = s[i + 1]
      /\ \A i \in 1 .. Len(s) : s[i] \in S
  BY HeadTailProperties, ElementOfSeq
<1>2. /\ FdsOf(s) \in Seq(Fds) /\ Len(FdsOf(s)) = Len(s) /\ DOMAIN FdsOf(s) = 1 .. Len(s)
      /\ \A i \in 1 .. Len(s) : FdsOf(s)[i] = s[i].fd
  BY <1>1 DEF FdsOf
<1>3. FdsOf(s) # << >>
  BY <1>1, <1>2, Zenon
<1>4. /\ Tail(FdsOf(s)) \in Seq(Fds) /\ DOMAIN Tail(FdsOf(s)) = 1 .. Len(s) - 1
      /\ \A i \in 1 .. Len(s) - 1 : Tail(FdsOf(s))[i] = FdsOf(s)[i + 1]
      /\ Head(FdsOf(s)) = FdsOf(s)[1]
  BY <1>2, <1>3, HeadTailProperties
<1>5. FdsOf(Tail(s)) = [i \in 1 .. Len(s) - 1 |-> s[i + 1].fd]
  BY <1>1, Zenon DEF FdsOf
<1>6. /\ FdsOf(Tail(s)) \in Seq(Fds) /\ Len(FdsOf(Tail(s))) = Len(s) - 1
      /\ \A i \in 1 .. Len(s) - 1 : FdsOf(Tail(s))[i] = Tail(FdsOf(s))[i]
  <2>1. \A i \in 1 .. Len(s) - 1 : i + 1 \in 1 .. Len(s) /\ FdsOf(Tail(s))[i] = s[i + 1].fd
    BY <1>1, <1>5
  <2>2. \A i \in 1 .. Len(s) - 1 : FdsOf(Tail(s))[i] = Tail(FdsOf(s))[i]
    BY <1>2, <1>4, <2>1, Zenon
  <2>3. \A i \in 1 .. Len(s) - 1 : s[i + 1].fd \in Fds
    BY <1>1, <2>1, Zenon
  <2>4. FdsOf(Tail(s)) \in Seq(Fds) /\ Len(FdsOf(Tail(s))) = Len(s) - 1
    <3> DEFINE d == [i \in 1 .. Len(s) - 1 |-> s[i + 1].fd]
               m == Len(s) - 1
    <3>1. m \in Nat /\ d = [i \in 1 .. m |-> d[i]] /\ \A i \in 1 .. m : d[i] \in Fds
      BY <1>1, <2>3
    <3>2. d = FdsOf(Tail(s))
      BY <1>5, Zenon
    <3> HIDE DEF d
    <3>3. d \in Seq(Fds) /\ Len(d) = m
      BY <3>1
    <3> QED
      BY <3>2, <3>3, Zenon
  <2> QED
    BY <2>2, <2>4, Zenon
<1>7. FdsOf(Tail(s)) = Tail(FdsOf(s))
  BY <1>1, <1>4, <1>6, SeqEqual, LenProperties
<1> QED
  BY <1>1, <1>2, <1>3, <1>4, <1>7

LEMMA FdsAppend ==
  ASSUME NEW S, NEW s \in Seq(S), NEW x \in S, \A y \in S : y.fd \in Fds
  PROVE  /\ FdsOf(s) \in Seq(Fds) /\ FdsOf(Append(s, x)) = Append(FdsOf(s), x.fd)
         /\ \A i \in DOMAIN Append(s, x) : \/ i \in DOMAIN s /\ Append(s, x)[i] = s[i]
                                           \/ Append(s, x)[i] = x
         /\ Append(s, x) \in Seq(S)
<1>1. /\ Len(s) \in Nat /\ DOMAIN s = 1 .. Len(s) /\ DOMAIN Append(s, x) = 1 .. Len(s) + 1
      /\ \A i \in 1 .. Len(s) : Append(s, x)[i] = s[i] /\ s[i] \in S
      /\ Append(s, x)[Len(s) + 1] = x /\ Append(s, x) \in Seq(S)
  BY AppendProperties, ElementOfSeq
<1>2. /\ FdsOf(s) \in Seq(Fds) /\ Len(FdsOf(s)) = Len(s)
      /\ \A i \in 1 .. Len(s) : FdsOf(s)[i] = s[i].fd
  BY <1>1 DEF FdsOf
<1>3. /\ DOMAIN Append(FdsOf(s), x.fd) = 1 .. Len(s) + 1 /\ Append(FdsOf(s), x.fd) \in Seq(Fds)
      /\ \A i \in 1 .. Len(s) : Append(FdsOf(s), x.fd)[i] = s[i].fd
      /\ Append(FdsOf(s), x.fd)[Len(s) + 1] = x.fd
  BY <1>1, <1>2, AppendProperties
<1>4. /\ DOMAIN FdsOf(Append(s, x)) = 1 .. Len(s) + 1
      /\ \A i \in 1 .. Len(s) : FdsOf(Append(s, x))[i] = s[i].fd
      /\ FdsOf(Append(s, x))[Len(s) + 1] = x.fd
      /\ FdsOf(Append(s, x)) = [i \in DOMAIN FdsOf(Append(s, x)) |-> FdsOf(Append(s, x))[i]]
  BY <1>1 DEF FdsOf
<1>5. Append(FdsOf(s), x.fd) = [i \in 1 .. Len(s) + 1 |-> Append(FdsOf(s), x.fd)[i]]
  BY <1>3
<1>6. \A i \in 1 .. Len(s) + 1 : FdsOf(Append(s, x))[i] = Append(FdsOf(s), x.fd)[i]
  BY <1>1, <1>3, <1>4
<1>7. FdsOf(Append(s, x)) = Append(FdsOf(s), x.fd)
  BY <1>4, <1>5, <1>6, Zenon
<1> QED
  BY <1>1, <1>2, <1>7

LEMMA FdsConcat ==
  ASSUME NEW S, NEW s \in Seq(S), NEW r \in Seq(S), \A y \in S : y.fd \in Fds
  PROVE  /\ FdsOf(s) \in Seq(Fds) /\ FdsOf(r) \in Seq(Fds) /\ FdsOf(s \o r) = FdsOf(s) \o FdsOf(r)
         /\ \A i \in DOMAIN (s \o r) : \/ i \in DOMAIN s /\ (s \o r)[i] = s[i]
                                       \/ \E j \in DOMAIN r : (s \o r)[i] = r[j]
         /\ s \o r \in Seq(S)
<1> DEFINE n == Len(s)
           m == Len(r)
<1>1. /\ n \in Nat /\ m \in Nat /\ DOMAIN s = 1 .. n /\ DOMAIN r = 1 .. m
      /\ \A i \in 1 .. n : s[i] \in S
      /\ \A i \in 1 .. m : r[i] \in S
  BY ElementOfSeq, LenProperties, Zenon
<1>2. /\ DOMAIN (s \o r) = 1 .. n + m /\ s \o r \in Seq(S)
      /\ \A i \in 1 .. n + m : (s \o r)[i] = IF i <= n THEN s[i] ELSE r[i - n]
  BY ConcatProperties
<1>3. /\ FdsOf(s) \in Seq(Fds) /\ Len(FdsOf(s)) = n /\ FdsOf(r) \in Seq(Fds) /\ Len(FdsOf(r)) = m
      /\ \A i \in 1 .. n : FdsOf(s)[i] = s[i].fd
      /\ \A i \in 1 .. m : FdsOf(r)[i] = r[i].fd
  BY <1>1 DEF FdsOf
<1> DEFINE x == FdsOf(s)
           y == FdsOf(r)
<1> HIDE DEF n, m, x, y
<1>4. /\ x \o y \in Seq(Fds) /\ Len(x \o y) = n + m
      /\ \A i \in 1 .. n + m : (x \o y)[i] = IF i <= n THEN x[i] ELSE y[i - n]
  <2>1. x \in Seq(Fds) /\ y \in Seq(Fds) /\ Len(x) = n /\ Len(y) = m
    BY <1>3, Zenon DEF x, y
  <2> QED
    BY <2>1, ConcatProperties, Zenon
<1>5. FdsOf(s \o r) = [i \in 1 .. n + m |-> (s \o r)[i].fd]
  BY <1>2, Zenon DEF FdsOf
<1>6. ASSUME NEW i \in 1 .. n + m PROVE (s \o r)[i].fd = (x \o y)[i] /\ (s \o r)[i].fd \in Fds
  <2>1. i <= n => i \in 1 .. n
    BY <1>1
  <2>2. ~ (i <= n) => i - n \in 1 .. m
    BY <1>1
  <2>3. (s \o r)[i] \in S
    BY <1>1, <1>2, <2>1, <2>2, Zenon
  <2> QED
    BY <1>2, <1>3, <1>4, <2>1, <2>2, <2>3, ZenonT(60) DEF x, y
<1>7. FdsOf(s \o r) \in Seq(Fds) /\ Len(FdsOf(s \o r)) = n + m
  BY <1>1, <1>5, <1>6
<1>8. FdsOf(s \o r) = FdsOf(s) \o FdsOf(r)
  <2>1. \A i \in 1 .. n + m : FdsOf(s \o r)[i] = (x \o y)[i]
    BY <1>5, <1>6, Zenon
  <2>2. FdsOf(s \o r) = x \o y
    BY <1>4, <1>7, <2>1, SeqEqual, Zenon
  <2> QED
    BY <2>2, Zenon DEF x, y
<1>9. ASSUME NEW i \in DOMAIN (s \o r)
      PROVE  (i \in DOMAIN s /\ (s \o r)[i] = s[i]) \/ \E j \in DOMAIN r : (s \o r)[i] = r[j]
  <2>1. i <= n => i \in DOMAIN s /\ (s \o r)[i] = s[i]
    BY <1>1, <1>2
  <2>2. ~ (i <= n) => i - n \in DOMAIN r /\ (s \o r)[i] = r[i - n]
    BY <1>1, <1>2
  <2> QED
    BY <2>1, <2>2, Zenon
<1> QED
  BY <1>2, <1>3, <1>8, <1>9, Zenon

LEMMA FdsWith ==
  ASSUME NEW S, NEW s \in Seq(S), NEW i \in DOMAIN s, NEW x \in S, x.fd = s[i].fd, \A y \in S : y.fd \in Fds
  PROVE  /\ FdsOf([s EXCEPT ![i] = x]) = FdsOf(s) /\ [s EXCEPT ![i] = x] \in Seq(S)
         /\ DOMAIN [s EXCEPT ![i] = x] = DOMAIN s
<1>1. /\ Len(s) \in Nat /\ DOMAIN s = 1 .. Len(s) /\ s = [j \in 1 .. Len(s) |-> s[j]]
      /\ \A j \in 1 .. Len(s) : s[j] \in S
  BY ElementOfSeq, LenProperties, Zenon
<1>2. [s EXCEPT ![i] = x] \in Seq(S)
  BY <1>1
<1>3. FdsOf(s) = [j \in DOMAIN s |-> s[j].fd]
  BY Zenon DEF FdsOf
<1>4. FdsOf([s EXCEPT ![i] = x]) = [j \in DOMAIN s |-> [s EXCEPT ![i] = x][j].fd]
  BY Zenon DEF FdsOf
<1>5. \A j \in DOMAIN s : [s EXCEPT ![i] = x][j].fd = s[j].fd
  BY Zenon
<1> QED
  BY <1>2, <1>3, <1>4, <1>5, Zenon

-----------------------------------------------------------------------------
(* What the threads are done with *)

Moved(w, v, g, q) == v[g] = q /\ \A f \in Fds : f # g => v[f] = w[f]

LEMMA IsMoved ==
  ASSUME NEW T, NEW w \in [Fds -> T], NEW g \in Fds, NEW q
  PROVE  Moved(w, [w EXCEPT ![g] = q], g, q)
  BY Zenon DEF Moved

LEMMA SpentFds == \A x \in SpentRecord : x.fd \in Fds
  BY Zenon DEF SpentRecord

LEMMA PutAppend ==
  ASSUME NEW a \in Actors, NEW p \in PutRecord, NEW w \in [Fds -> Places], NEW ss \in [Fds -> Socket],
         PutOk(a, p, w, ss), NEW g \in Fds, w[g] # AtQueue(a), w[g] # AtPush(a),
         NEW s, NEW keep \in BOOLEAN, keep => Clean(s),
         NEW v, Moved(w, v, g, AtQueue(a)), NEW zz, Moved(ss, zz, g, s),
         NEW p2 \in PutRecord, p2.queue = Append(p.queue, Spent(g, keep)), p2.push = p.push
  PROVE  PutOk(a, p2, v, zz)
<1> DEFINE x == Spent(g, keep)
<1>0. /\ x \in SpentRecord /\ x.fd = g /\ x.keep = keep /\ p.queue \in Seq(SpentRecord)
      /\ p.push \in Fds \cup {NoFd}
  BY Zenon DEF Spent, SpentRecord, PutRecord
<1>1. p2.queue = Append(p.queue, x)
  BY Zenon
<1> HIDE DEF x
<1>2. /\ v[g] = AtQueue(a) /\ zz[g] = s
      /\ \A f \in Fds : f # g => v[f] = w[f] /\ zz[f] = ss[f]
  BY Zenon DEF Moved
<1>3. /\ FdsOf(p.queue) \in Seq(Fds) /\ FdsOf(p2.queue) = Append(FdsOf(p.queue), g)
      /\ \A i \in DOMAIN p2.queue : \/ i \in DOMAIN p.queue /\ p2.queue[i] = p.queue[i]
                                    \/ p2.queue[i] = x
  <2>1. /\ FdsOf(p.queue) \in Seq(Fds) /\ FdsOf(Append(p.queue, x)) = Append(FdsOf(p.queue), x.fd)
        /\ \A i \in DOMAIN Append(p.queue, x) :
              \/ i \in DOMAIN p.queue /\ Append(p.queue, x)[i] = p.queue[i]
              \/ Append(p.queue, x)[i] = x
    BY <1>0, FdsAppend, SpentFds
  <2> QED
    BY <1>0, <1>1, <2>1, Zenon
<1>4. Lists(FdsOf(p2.queue), v, AtQueue(a))
  <2>1. Lists(FdsOf(p.queue), w, AtQueue(a))
    BY Zenon DEF PutOk
  <2>2. Lists(Append(FdsOf(p.queue), g), v, AtQueue(a))
    BY <1>2, <1>3, <2>1, ListsAppend, ZenonT(60)
  <2> QED
    BY <1>3, <2>2, Zenon
<1>5. \A f \in Fds : v[f] = AtPush(a) <=> p2.push = f
  BY <1>1, <1>2, PlacesDiffer, Zenon DEF PutOk
<1>6. ASSUME NEW i \in DOMAIN p2.queue, p2.queue[i].keep PROVE Clean(zz[p2.queue[i].fd])
  <2>1. CASE p2.queue[i] = x
    BY <1>0, <1>2, <1>6, <2>1, Zenon
  <2>2. CASE i \in DOMAIN p.queue /\ p2.queue[i] = p.queue[i] /\ p.queue[i].fd = g
    <3>1. i \in DOMAIN FdsOf(p.queue) /\ FdsOf(p.queue)[i] = g
      BY <2>2, Zenon DEF FdsOf
    <3> QED
      BY <3>1, Zenon DEF PutOk, Lists
  <2>3. CASE i \in DOMAIN p.queue /\ p2.queue[i] = p.queue[i] /\ p.queue[i].fd # g
    <3>1. p.queue[i] \in SpentRecord
      BY <1>0, <2>3, ElementOfSeq
    <3>2. p.queue[i].fd \in Fds
      BY <3>1, SpentFds, Zenon
    <3> QED
      BY <1>2, <1>6, <2>3, <3>2, Zenon DEF PutOk
  <2> QED
    BY <1>3, <2>1, <2>2, <2>3, Zenon
<1>7. p2.push # NoFd => Clean(zz[p2.push])
  BY <1>0, <1>1, <1>2, ZenonT(60) DEF PutOk
<1> QED
  BY <1>1, <1>4, <1>5, <1>6, <1>7, Zenon DEF PutOk

LEMMA PutTail ==
  ASSUME NEW a \in Actors, NEW p \in PutRecord, NEW w \in [Fds -> Places], NEW ss \in [Fds -> Socket],
         PutOk(a, p, w, ss), p.queue # << >>, p.push = NoFd, NEW g \in Fds, g = Head(p.queue).fd,
         NEW q, q # AtQueue(a), NEW s, NEW push \in Fds \cup {NoFd},
         \/ q # AtPush(a) /\ push = NoFd
         \/ q = AtPush(a) /\ push = g /\ Clean(s),
         NEW v, Moved(w, v, g, q), NEW zz, Moved(ss, zz, g, s)
  PROVE  PutOk(a, [queue |-> Tail(p.queue), push |-> push], v, zz)
<1> DEFINE r == Tail(p.queue)
<1>0. p.queue \in Seq(SpentRecord)
  BY Zenon DEF PutRecord
<1>1. /\ FdsOf(p.queue) \in Seq(Fds) /\ FdsOf(p.queue) # << >> /\ FdsOf(r) = Tail(FdsOf(p.queue))
      /\ Head(FdsOf(p.queue)) = g /\ r \in Seq(SpentRecord)
      /\ \A i \in DOMAIN r : i + 1 \in DOMAIN p.queue /\ i + 1 # 1 /\ r[i] = p.queue[i + 1]
      /\ Head(p.queue) = p.queue[1] /\ 1 \in DOMAIN p.queue
  BY <1>0, FdsTail, SpentFds, Zenon
<1>2. /\ v[g] = q /\ zz[g] = s
      /\ \A f \in Fds : f # g => v[f] = w[f] /\ zz[f] = ss[f]
  BY Zenon DEF Moved
<1> HIDE DEF r
<1>3. Lists(FdsOf(r), v, AtQueue(a)) /\ w[g] = AtQueue(a)
  <2>1. Lists(FdsOf(p.queue), w, AtQueue(a))
    BY ZenonT(60) DEF PutOk
  <2>2. Lists(Tail(FdsOf(p.queue)), v, AtQueue(a)) /\ w[g] = AtQueue(a)
    <3> DEFINE u == FdsOf(p.queue)
               x == AtQueue(a)
    <3>1. /\ u \in Seq(Fds) /\ u # << >> /\ Head(u) = g /\ Lists(u, w, x)
      BY <1>1, <2>1, Zenon
    <3>2. q # x
      BY Zenon
    <3> HIDE DEF u, x
    <3>3. v[Head(u)] # x
      BY <1>2, <3>1, <3>2, Zenon
    <3>4. \A f \in Fds : f # Head(u) => (v[f] = x <=> w[f] = x)
      BY <1>2, <3>1, Zenon
    <3>5. Leaves(Head(u), w, v, x)
      BY <3>3, <3>4, Zenon DEF Leaves
    <3>6. Lists(Tail(u), v, x) /\ w[Head(u)] = x
      BY <3>1, <3>5, ListsRest, Zenon
    <3> QED
      BY <3>1, <3>6, Zenon DEF u, x
  <2> QED
    BY <1>1, <2>2, Zenon
<1>4. \A f \in Fds : v[f] = AtPush(a) <=> push = f
  BY <1>2, <1>3, FdFacts, PlacesDiffer, ZenonT(60) DEF PutOk
<1>5. ASSUME NEW i \in DOMAIN r, r[i].keep PROVE Clean(zz[r[i].fd])
  <2>1. i + 1 \in DOMAIN p.queue /\ i + 1 # 1 /\ r[i] = p.queue[i + 1]
    BY <1>1, Zenon
  <2>2. p.queue[i + 1].fd \in Fds
    <3>1. p.queue[i + 1] \in SpentRecord
      BY <1>0, <2>1, ElementOfSeq
    <3> QED
      BY <3>1, SpentFds, Zenon
  <2>3. p.queue[i + 1].fd # p.queue[1].fd
    <3>1. /\ i + 1 \in DOMAIN FdsOf(p.queue) /\ FdsOf(p.queue)[i + 1] = p.queue[i + 1].fd
          /\ 1 \in DOMAIN FdsOf(p.queue) /\ FdsOf(p.queue)[1] = p.queue[1].fd
      BY <1>1, <2>1, Zenon DEF FdsOf
    <3>2. FdsOf(p.queue)[i + 1] = FdsOf(p.queue)[1] => i + 1 = 1
      BY <3>1, Zenon DEF PutOk, Lists
    <3> QED
      BY <2>1, <3>1, <3>2, Zenon
  <2>4. p.queue[i + 1].fd # g
    BY <1>1, <2>3, Zenon
  <2>5. zz[p.queue[i + 1].fd] = ss[p.queue[i + 1].fd]
    BY <1>2, <2>2, <2>4, Zenon
  <2>6. p.queue[i + 1].keep => Clean(ss[p.queue[i + 1].fd])
    BY <2>1, Zenon DEF PutOk
  <2> QED
    BY <1>5, <2>1, <2>5, <2>6, Zenon
<1>6. push # NoFd => Clean(zz[push])
  BY <1>2, Zenon
<1>7. [queue |-> r, push |-> push] \in PutRecord
  BY <1>1, Zenon DEF PutRecord
<1> DEFINE p2 == [queue |-> r, push |-> push]
<1>8. p2.queue = r /\ p2.push = push /\ p2 \in PutRecord
  BY <1>7, Zenon
<1> HIDE DEF p2
<1>9. PutOk(a, p2, v, zz)
  BY <1>3, <1>4, <1>5, <1>6, <1>8, Zenon DEF PutOk
<1> QED
  BY <1>9, Zenon DEF p2, r

-----------------------------------------------------------------------------
(* The contexts of a task *)

LEMMA ContextFds == \A x \in Context : x.fd \in Fds
  BY Zenon DEF Context

LEMMA TaskAppend ==
  ASSUME NEW t \in Tasks, NEW k \in TaskRecord, NEW w \in [Fds -> Places], NEW ss \in [Fds -> Socket],
         TaskOk(t, k, w, ss), k.st = "send",
         NEW g \in Fds, w[g] # AtTask(t), NEW s, NEW c \in Context, c.fd = g, CtxOk(c, s, k.cmd),
         NEW v, Moved(w, v, g, AtTask(t)), NEW zz, Moved(ss, zz, g, s),
         NEW k2 \in TaskRecord, k2.ctxs = Append(k.ctxs, c), k2.st = "send", k2.cmd = k.cmd
  PROVE  TaskOk(t, k2, v, zz)
<1>0. k.ctxs \in Seq(Context)
  BY Zenon DEF TaskRecord
<1>3. /\ v[g] = AtTask(t) /\ zz[g] = s
      /\ \A f \in Fds : f # g => v[f] = w[f] /\ zz[f] = ss[f]
  BY Zenon DEF Moved
<1>4. /\ FdsOf(k.ctxs) \in Seq(Fds) /\ FdsOf(k2.ctxs) = Append(FdsOf(k.ctxs), g)
      /\ \A i \in DOMAIN k2.ctxs : \/ i \in DOMAIN k.ctxs /\ k2.ctxs[i] = k.ctxs[i]
                                   \/ k2.ctxs[i] = c
  <2>1. /\ FdsOf(k.ctxs) \in Seq(Fds) /\ FdsOf(Append(k.ctxs, c)) = Append(FdsOf(k.ctxs), c.fd)
        /\ \A i \in DOMAIN Append(k.ctxs, c) :
              \/ i \in DOMAIN k.ctxs /\ Append(k.ctxs, c)[i] = k.ctxs[i]
              \/ Append(k.ctxs, c)[i] = c
    BY <1>0, FdsAppend, ContextFds
  <2> QED
    BY <2>1, Zenon
<1>5. Lists(FdsOf(k2.ctxs), v, AtTask(t))
  <2>1. Lists(FdsOf(k.ctxs), w, AtTask(t))
    BY Zenon DEF TaskOk
  <2>2. Lists(Append(FdsOf(k.ctxs), g), v, AtTask(t))
    <3>1. \A f \in Fds : f # g => (v[f] = AtTask(t) <=> w[f] = AtTask(t))
      BY <1>3, Zenon
    <3> QED
      BY <1>3, <1>4, <2>1, <3>1, ListsAppend, SMTT(60)
  <2> QED
    BY <1>4, <2>2, Zenon
<1>6. ASSUME NEW i \in DOMAIN k2.ctxs PROVE CtxOk(k2.ctxs[i], zz[k2.ctxs[i].fd], k2.cmd)
  <2>1. CASE k2.ctxs[i] = c
    BY <1>3, <2>1, Zenon
  <2>2. CASE i \in DOMAIN k.ctxs /\ k2.ctxs[i] = k.ctxs[i]
    <3>1. k.ctxs[i] \in Context
      BY <1>0, <2>2, ElementOfSeq
    <3>2. k.ctxs[i].fd \in Fds
      BY <3>1, ContextFds, Zenon
    <3>3. i \in DOMAIN FdsOf(k.ctxs) /\ FdsOf(k.ctxs)[i] = k.ctxs[i].fd
      BY <2>2, Zenon DEF FdsOf
    <3>4. w[k.ctxs[i].fd] = AtTask(t)
      <4>1. Lists(FdsOf(k.ctxs), w, AtTask(t))
        BY Zenon DEF TaskOk
      <4> QED
        BY <3>2, <3>3, <4>1, Zenon DEF Lists
    <3> QED
      BY <1>3, <2>2, <3>2, <3>4, ZenonT(60) DEF TaskOk
  <2> QED
    BY <1>4, <2>1, <2>2, Zenon
<1>7. k2.st \notin {"none", "queued", "ended"}
  BY Zenon
<1>8. k2.cmd \in Commands
  <2>1. k.st # "none"
    BY Zenon
  <2> QED
    BY <2>1, Zenon DEF TaskOk
<1> QED
  BY <1>5, <1>6, <1>7, <1>8, Zenon DEF TaskOk

LEMMA TaskUpdate ==
  ASSUME NEW t \in Tasks, NEW k \in TaskRecord, NEW w \in [Fds -> Places], NEW ss \in [Fds -> Socket],
         TaskOk(t, k, w, ss), NEW i \in DOMAIN k.ctxs,
         NEW s, NEW c \in Context, c.fd = k.ctxs[i].fd, CtxOk(c, s, k.cmd),
         NEW zz, Moved(ss, zz, c.fd, s),
         NEW k2, k2 = [k EXCEPT !.ctxs = [k.ctxs EXCEPT ![i] = c]]
  PROVE  TaskOk(t, k2, w, zz) /\ k2 \in TaskRecord
<1>0. k.ctxs \in Seq(Context)
  BY Zenon DEF TaskRecord
<1> DEFINE r == [k.ctxs EXCEPT ![i] = c]
<1>1. /\ FdsOf(r) = FdsOf(k.ctxs) /\ r \in Seq(Context) /\ DOMAIN r = DOMAIN k.ctxs
  BY <1>0, FdsWith, ContextFds, Zenon
<1>2. /\ r[i] = c /\ \A j \in DOMAIN k.ctxs : j # i => r[j] = k.ctxs[j]
  BY <1>0, Zenon
<1> HIDE DEF r
<1>3. k2 = [k EXCEPT !.ctxs = r]
  BY Zenon DEF r
<1>4. /\ k2 \in TaskRecord /\ k2.ctxs = r /\ k2.st = k.st /\ k2.cmd = k.cmd
  BY <1>1, <1>3, Zenon DEF TaskRecord
<1>5. c.fd \in Fds /\ zz[c.fd] = s /\ \A f \in Fds : f # c.fd => zz[f] = ss[f]
  BY ContextFds, Zenon DEF Moved
<1>6. ASSUME NEW j \in DOMAIN r PROVE CtxOk(r[j], zz[r[j].fd], k.cmd)
  <2>1. CASE j = i
    BY <1>2, <1>5, <2>1, Zenon
  <2>2. CASE j # i
    <3>1. k.ctxs[j] \in Context
      BY <1>0, <1>1, ElementOfSeq
    <3>2. k.ctxs[j].fd \in Fds
      BY <3>1, ContextFds, Zenon
    <3>3. /\ j \in DOMAIN FdsOf(k.ctxs) /\ FdsOf(k.ctxs)[j] = k.ctxs[j].fd
          /\ i \in DOMAIN FdsOf(k.ctxs) /\ FdsOf(k.ctxs)[i] = k.ctxs[i].fd
      BY <1>1, Zenon DEF FdsOf
    <3>4. k.ctxs[j].fd # c.fd
      BY <2>2, <3>3, ZenonT(60) DEF TaskOk, Lists
    <3> QED
      BY <1>1, <1>2, <1>5, <2>2, <3>2, <3>4, Zenon DEF TaskOk
  <2> QED
    BY <2>1, <2>2, Zenon
<1>7. k.st \notin {"none", "queued", "ended"}
  <2>1. k.ctxs # << >>
    OBVIOUS
  <2> QED
    BY <2>1, Zenon DEF TaskOk
<1> QED
  BY <1>1, <1>4, <1>6, <1>7, Zenon DEF TaskOk

(* A task that ends: its connections go to the queue of its thread *)

KeepCtx(c, cmd) == c.idx = c.num /\ cmd # "get_async"
SpentList(ctxs, cmd) == [i \in DOMAIN ctxs |-> Spent(ctxs[i].fd, KeepCtx(ctxs[i], cmd))]

LEMMA SpentListFacts ==
  ASSUME NEW ctxs \in Seq(Context), NEW cmd
  PROVE  /\ SpentList(ctxs, cmd) \in Seq(SpentRecord) /\ FdsOf(SpentList(ctxs, cmd)) = FdsOf(ctxs)
         /\ DOMAIN SpentList(ctxs, cmd) = DOMAIN ctxs
         /\ \A i \in DOMAIN ctxs : SpentList(ctxs, cmd)[i] = Spent(ctxs[i].fd, KeepCtx(ctxs[i], cmd))
<1> DEFINE r == SpentList(ctxs, cmd)
           m == Len(ctxs)
<1>1. m \in Nat /\ DOMAIN ctxs = 1 .. m /\ \A i \in 1 .. m : ctxs[i] \in Context
  BY ElementOfSeq, LenProperties, Zenon
<1>2. r = [i \in 1 .. m |-> Spent(ctxs[i].fd, KeepCtx(ctxs[i], cmd))]
  BY <1>1, Zenon DEF SpentList
<1>3. \A i \in 1 .. m : r[i] = Spent(ctxs[i].fd, KeepCtx(ctxs[i], cmd))
  BY <1>2, Zenon
<1>4. ASSUME NEW i \in 1 .. m PROVE r[i] \in SpentRecord /\ r[i].fd = ctxs[i].fd
  <2>1. ctxs[i].fd \in Fds
    BY <1>1, ContextFds, Zenon
  <2>2. KeepCtx(ctxs[i], cmd) \in BOOLEAN
    BY Zenon DEF KeepCtx
  <2> DEFINE b == KeepCtx(ctxs[i], cmd)
  <2> HIDE DEF b
  <2>3. Spent(ctxs[i].fd, b) \in SpentRecord /\ Spent(ctxs[i].fd, b).fd = ctxs[i].fd
    BY <2>1, <2>2, Zenon DEF Spent, SpentRecord, b
  <2> QED
    BY <1>3, <2>3, Zenon DEF b
<1>5. r = [i \in 1 .. m |-> r[i]]
  BY <1>2, Zenon
<1> HIDE DEF r
<1>6. r \in Seq(SpentRecord) /\ DOMAIN r = 1 .. m
  BY <1>1, <1>4, <1>5
<1>7. FdsOf(r) = [i \in 1 .. m |-> r[i].fd] /\ FdsOf(ctxs) = [i \in 1 .. m |-> ctxs[i].fd]
  BY <1>1, <1>6, Zenon DEF FdsOf
<1>8. FdsOf(r) = FdsOf(ctxs)
  BY <1>4, <1>7, Zenon
<1> QED
  BY <1>1, <1>3, <1>6, <1>8, Zenon DEF r

LEMMA KeptClean ==
  ASSUME NEW c \in Context, NEW s \in Socket, NEW cmd, CtxOk(c, s, cmd), c.idx = c.num
  PROVE  Clean(s)
<1>1. s.wire \in Seq(Commands)
  BY Zenon DEF Socket
<1>2. c.num \in Nat /\ c.idx \in Nat
  BY Zenon DEF Context
<1>3. s.quiet \/ (~ s.torn /\ Len(s.wire) <= c.num - c.idx)
  BY Zenon DEF CtxOk
<1>4. Len(s.wire) <= c.num - c.idx => s.wire = << >>
  BY <1>1, <1>2
<1> QED
  BY <1>3, <1>4, Zenon DEF Clean

LEMMA EndPut ==
  ASSUME NEW a \in Actors, NEW t \in Tasks, NEW p \in PutRecord, NEW k \in TaskRecord,
         NEW w \in [Fds -> Places], NEW ss \in [Fds -> Socket], PutOk(a, p, w, ss), TaskOk(t, k, w, ss),
         NEW v, \A f \in Fds : v[f] = IF w[f] = AtTask(t) THEN AtQueue(a) ELSE w[f],
         NEW p2, p2 = [p EXCEPT !.queue = @ \o SpentList(k.ctxs, k.cmd)]
  PROVE  p2 \in PutRecord /\ PutOk(a, p2, v, ss)
<1> DEFINE y == SpentList(k.ctxs, k.cmd)
           x == p.queue
<1>0. k.ctxs \in Seq(Context) /\ x \in Seq(SpentRecord) /\ p.push \in Fds \cup {NoFd}
  BY Zenon DEF TaskRecord, PutRecord
<1>1. /\ y \in Seq(SpentRecord) /\ FdsOf(y) = FdsOf(k.ctxs) /\ DOMAIN y = DOMAIN k.ctxs
      /\ \A i \in DOMAIN k.ctxs : y[i] = Spent(k.ctxs[i].fd, KeepCtx(k.ctxs[i], k.cmd))
  BY <1>0, SpentListFacts, Zenon
<1>2. p2 = [p EXCEPT !.queue = x \o y]
  BY Zenon
<1> HIDE DEF y
<1>3. /\ FdsOf(x) \in Seq(Fds) /\ FdsOf(y) \in Seq(Fds) /\ FdsOf(x \o y) = FdsOf(x) \o FdsOf(y)
      /\ \A i \in DOMAIN (x \o y) : \/ i \in DOMAIN x /\ (x \o y)[i] = x[i]
                                    \/ \E j \in DOMAIN y : (x \o y)[i] = y[j]
      /\ x \o y \in Seq(SpentRecord)
  BY <1>0, <1>1, FdsConcat, SpentFds, Zenon
<1>4. p2 \in PutRecord /\ p2.queue = x \o y /\ p2.push = p.push
  BY <1>0, <1>2, <1>3, Zenon DEF PutRecord
<1>5. Lists(FdsOf(x) \o FdsOf(y), v, AtQueue(a))
  <2>1. Lists(FdsOf(x), w, AtQueue(a)) /\ Lists(FdsOf(y), w, AtTask(t))
    BY <1>1, Zenon DEF PutOk, TaskOk
  <2>2. \A f \in Fds : v[f] = AtQueue(a) <=> w[f] = AtQueue(a) \/ w[f] = AtTask(t)
    BY Zenon
  <2>3. AtQueue(a) # AtTask(t)
    BY PlacesDiffer, Zenon
  <2> QED
    BY <1>3, <2>1, <2>2, <2>3, ListsConcat
<1>6. \A f \in Fds : v[f] = AtPush(a) <=> p2.push = f
  <2>1. \A f \in Fds : v[f] = AtPush(a) <=> w[f] = AtPush(a)
    BY PlacesDiffer, Zenon
  <2>2. \A f \in Fds : w[f] = AtPush(a) <=> p.push = f
    BY Zenon DEF PutOk
  <2> QED
    BY <1>4, <2>1, <2>2, Zenon
<1>7. \A i \in DOMAIN x : x[i].keep => Clean(ss[x[i].fd])
  BY Zenon DEF PutOk
<1>8. ASSUME NEW j \in DOMAIN y, y[j].keep PROVE Clean(ss[y[j].fd])
  <2>1. j \in DOMAIN k.ctxs /\ y[j] = Spent(k.ctxs[j].fd, KeepCtx(k.ctxs[j], k.cmd))
    BY <1>1, Zenon
  <2>2. y[j].fd = k.ctxs[j].fd /\ y[j].keep = KeepCtx(k.ctxs[j], k.cmd)
    <3> DEFINE b == KeepCtx(k.ctxs[j], k.cmd)
    <3> HIDE DEF b
    <3>1. y[j] = Spent(k.ctxs[j].fd, b)
      BY <2>1, Zenon DEF b
    <3>2. y[j].fd = k.ctxs[j].fd /\ y[j].keep = b
      BY <3>1 DEF Spent
    <3> QED
      BY <3>2, Zenon DEF b
  <2>3. k.ctxs[j] \in Context
    BY <1>0, <2>1, ElementOfSeq
  <2>4. ss[k.ctxs[j].fd] \in Socket
    BY <2>3, ContextFds, Zenon
  <2>5. CtxOk(k.ctxs[j], ss[k.ctxs[j].fd], k.cmd)
    BY <2>1, Zenon DEF TaskOk
  <2>6. k.ctxs[j].idx = k.ctxs[j].num
    BY <1>8, <2>2, Zenon DEF KeepCtx
  <2> QED
    BY <2>2, <2>3, <2>4, <2>5, <2>6, KeptClean, Zenon
<1>9. \A i \in DOMAIN p2.queue : p2.queue[i].keep => Clean(ss[p2.queue[i].fd])
  <2>1. ASSUME NEW i \in DOMAIN (x \o y), (x \o y)[i].keep PROVE Clean(ss[(x \o y)[i].fd])
    BY <1>3, <1>7, <1>8, <2>1, Zenon
  <2> QED
    BY <1>4, <2>1, Zenon
<1>10. p2.push # NoFd => Clean(ss[p2.push])
  <2>1. p.push # NoFd => Clean(ss[p.push])
    BY Zenon DEF PutOk
  <2> QED
    BY <1>4, <2>1, Zenon
<1>11. Lists(FdsOf(p2.queue), v, AtQueue(a))
  BY <1>3, <1>4, <1>5, Zenon
<1> QED
  BY <1>4, <1>6, <1>9, <1>10, <1>11, Zenon DEF PutOk

Over(t, cmd) == IF t = 0 THEN NoTask ELSE Requests("ended", cmd, << >>)

LEMMA ActorOf == \A t : Actor(t) \in Actors
  BY Zenon DEF Actor, Actors

LEMMA Ends ==
  ASSUME NEW w, NEW ss, NEW sp, NEW c, NEW p, NEW k, Holds(w, ss, sp, c, p, k), EmptyHanded(w),
         NEW t \in Tasks, k[t].st # "none"
  PROVE  \E v : /\ EmptyHanded(v)
                /\ Holds(v, ss, sp, c,
                         [p EXCEPT ![Actor(t)].queue = @ \o SpentList(k[t].ctxs, k[t].cmd)],
                         [k EXCEPT ![t] = Over(t, k[t].cmd)])
<1> DEFINE a == Actor(t)
           v == [f \in Fds |-> IF w[f] = AtTask(t) THEN AtQueue(a) ELSE w[f]]
           pa == [p[a] EXCEPT !.queue = @ \o SpentList(k[t].ctxs, k[t].cmd)]
           p2 == [p EXCEPT ![a] = pa]
           kt == Over(t, k[t].cmd)
           k2 == [k EXCEPT ![t] = kt]
<1>0. /\ w \in [Fds -> Places] /\ ss \in [Fds -> Socket] /\ sp \in [Nodes -> Seq(Fds)]
      /\ p \in [Actors -> PutRecord] /\ k \in [Tasks -> TaskRecord]
  BY Zenon DEF Holds, Pooled
<1>a. a \in Actors
  BY ActorOf, Zenon
<1>1. v \in [Fds -> Places] /\ \A f \in Fds : v[f] = IF w[f] = AtTask(t) THEN AtQueue(a) ELSE w[f]
  BY <1>0, <1>a, PlacesFacts, Zenon
<1>2. PutOk(a, p[a], w, ss) /\ TaskOk(t, k[t], w, ss) /\ p[a] \in PutRecord /\ k[t] \in TaskRecord
  BY <1>0, <1>a, Zenon DEF Holds
<1> HIDE DEF v, a
<1>3. pa \in PutRecord /\ PutOk(a, pa, v, ss) /\ pa.push = p[a].push
  <2>1. pa.push = p[a].push
    BY <1>2, Zenon DEF PutRecord
  <2> DEFINE q == p[a]
             z == k[t]
             qq == [q EXCEPT !.queue = @ \o SpentList(z.ctxs, z.cmd)]
  <2> HIDE DEF q, z, qq
  <2>2. qq \in PutRecord /\ PutOk(a, qq, v, ss)
    BY <1>0, <1>a, <1>1, <1>2, EndPut, ZenonT(60) DEF q, z, qq
  <2> QED
    BY <2>1, <2>2, Zenon DEF qq, q, z
<1> HIDE DEF pa
<1>4. /\ p2 \in [Actors -> PutRecord] /\ p2[a] = pa /\ \A b \in Actors : b # a => p2[b] = p[b]
  BY <1>0, <1>a, <1>3, Zenon
<1>5. /\ kt \in TaskRecord /\ kt.ctxs = << >> /\ kt.st \in {"none", "ended"}
      /\ kt.st = "ended" => kt.cmd = k[t].cmd
  <2>1. k[t].cmd \in Commands
    BY <1>2, Zenon DEF TaskOk
  <2>2. << >> \in Seq(Bucket) /\ << >> \in Seq(Context)
    BY EmptySeq, Zenon
  <2> QED
    BY <2>1, <2>2, Zenon DEF Over, NoTask, Requests, TaskRecord
<1> HIDE DEF kt
<1>6. /\ k2 \in [Tasks -> TaskRecord] /\ k2[t] = kt /\ \A u \in Tasks : u # t => k2[u] = k[u]
  BY <1>0, <1>5, Zenon
<1> HIDE DEF p2, k2
<1>7. ASSUME NEW x, x # AtTask(t), x # AtQueue(a) PROVE Stays(x, w, v, ss, ss)
  BY <1>1, <1>7, Zenon DEF Stays, Like
<1>8. \A f \in Fds : Sane(ss[f]) /\ (v[f] = Nowhere <=> ss[f].node = NoNode \/ ss[f].lost)
  <2>1. \A f \in Fds : v[f] = Nowhere <=> w[f] = Nowhere
    BY <1>1, PlacesDiffer, Zenon
  <2> QED
    BY <2>1, Zenon DEF Holds, Pooled
<1>9. Pooled(v, ss, sp)
  <2>1. \A n \in Nodes : Stays(AtSpare(n), w, v, ss, ss)
    BY <1>7, PlacesDiffer, Zenon
  <2> QED
    BY <1>0, <1>1, <1>8, <2>1, PooledStep, ZenonT(60) DEF Holds
<1>10. CallOk(c, v, ss)
  BY <1>7, PlacesDiffer, CallFrame, ZenonT(60) DEF Holds
<1>11. ASSUME NEW b \in Actors PROVE PutOk(b, p2[b], v, ss)
  <2>1. CASE b = a
    BY <1>3, <1>4, <2>1, Zenon
  <2>2. CASE b # a
    <3>1. Stays(AtQueue(b), w, v, ss, ss) /\ Stays(AtPush(b), w, v, ss, ss)
      BY <1>7, <2>2, PlacesDiffer, Zenon
    <3>2. PutOk(b, p[b], w, ss)
      BY ZenonT(60) DEF Holds
    <3>3. PutOk(b, p[b], v, ss)
      BY <3>1, <3>2, PutFrame, Zenon
    <3> QED
      BY <1>4, <2>2, <3>3, Zenon
  <2> QED
    BY <2>1, <2>2, Zenon
<1>12. ASSUME NEW u \in Tasks PROVE TaskOk(u, k2[u], v, ss)
  <2>1. CASE u = t
    <3>1. Lists(<< >>, v, AtTask(t))
      <4>1. \A f \in Fds : v[f] # AtTask(t)
        BY <1>1, PlacesDiffer, ZenonT(60)
      <4> QED
        BY <4>1, ListsEmpty, Zenon
    <3>2. FdsOf(kt.ctxs) = << >> /\ DOMAIN kt.ctxs = {}
      BY <1>5 DEF FdsOf
    <3>3. kt.st # "none" => kt.cmd \in Commands
      BY <1>2, <1>5, Zenon DEF TaskOk
    <3>4. TaskOk(t, kt, v, ss)
      BY <1>5, <3>1, <3>2, <3>3, ZenonT(60) DEF TaskOk
    <3> QED
      BY <1>6, <2>1, <3>4, Zenon
  <2>2. CASE u # t
    <3>1. Stays(AtTask(u), w, v, ss, ss)
      BY <1>7, <2>2, PlacesDiffer, Zenon
    <3>2. TaskOk(u, k[u], w, ss)
      BY ZenonT(60) DEF Holds
    <3>3. TaskOk(u, k[u], v, ss)
      BY <3>1, <3>2, TaskFrame, Zenon
    <3> QED
      BY <1>6, <2>2, <3>3, Zenon
  <2> QED
    BY <2>1, <2>2, Zenon
<1>13. Bounded(sp, p2, ss)
  <2>1. p2["main"].push = p["main"].push /\ p2["async"].push = p["async"].push
    BY <1>3, <1>4, Zenon DEF Actors
  <2> QED
    BY <2>1, ZenonT(60) DEF Bounded, Holds
<1>14. EmptyHanded(v)
  BY <1>1, PlacesDiffer, Zenon DEF EmptyHanded
<1>15. Holds(v, ss, sp, c, p2, k2)
  BY <1>4, <1>6, <1>9, <1>10, <1>11, <1>12, <1>13, Zenon DEF Holds
<1>16. p2 = [p EXCEPT ![Actor(t)].queue = @ \o SpentList(k[t].ctxs, k[t].cmd)]
  BY <1>0, <1>a, Zenon DEF p2, pa, a
<1>17. k2 = [k EXCEPT ![t] = Over(t, k[t].cmd)]
  BY Zenon DEF k2, kt
<1> QED
  BY <1>14, <1>15, <1>16, <1>17, Zenon

-----------------------------------------------------------------------------
(* Connections that are given back or closed *)

LEMMA Resettled ==
  ASSUME NEW CONSTANT v, Holds(v, sock', spare', call', put', task'), EmptyHanded(v)
  PROVE  ConnectionsInv'
  BY ZenonT(60) DEF ConnectionsInv, Settled

LEMMA HoldsTypes ==
  ASSUME NEW w, NEW ss, NEW sp, NEW c, NEW p, NEW k, Holds(w, ss, sp, c, p, k)
  PROVE  /\ w \in [Fds -> Places] /\ ss \in [Fds -> Socket] /\ sp \in [Nodes -> Seq(Fds)]
         /\ c \in CallRecord /\ p \in [Actors -> PutRecord] /\ k \in [Tasks -> TaskRecord]
  BY Zenon DEF Holds, Pooled, CallOk

UnqueueCase(w, ss, sp, p, a, g, q, s, push, p2) ==
  /\ a \in Actors /\ p[a].push = NoFd /\ p[a].queue # << >> /\ g \in Fds /\ g = Head(p[a].queue).fd
  /\ s \in Socket /\ Sane(s) /\ push \in Fds \cup {NoFd} /\ p2 \in [Actors -> PutRecord]
  /\ p2[a] = [queue |-> Tail(p[a].queue), push |-> push]
  /\ \A b \in Actors : b # a => p2[b] = p[b]
  /\ \/ q = Nowhere /\ push = NoFd /\ s.node = NoNode
     \/ /\ q = AtPush(a) /\ push = g /\ Clean(s) /\ s.node # NoNode /\ ~ s.lost
        /\ Bounded(sp, p2, [ss EXCEPT ![g] = s])

LEMMA Unqueue ==
  ASSUME NEW w, NEW ss, NEW sp, NEW c, NEW p, NEW k, Holds(w, ss, sp, c, p, k), EmptyHanded(w),
         NEW a, NEW g, NEW q, NEW s, NEW push, NEW p2, UnqueueCase(w, ss, sp, p, a, g, q, s, push, p2)
  PROVE  /\ EmptyHanded([w EXCEPT ![g] = q])
         /\ Holds([w EXCEPT ![g] = q], [ss EXCEPT ![g] = s], sp, c, p2, k)
<1> USE DEF UnqueueCase
<1> DEFINE v == [w EXCEPT ![g] = q]
           zz == [ss EXCEPT ![g] = s]
<1>0. /\ w \in [Fds -> Places] /\ ss \in [Fds -> Socket]
      /\ p \in [Actors -> PutRecord] /\ k \in [Tasks -> TaskRecord]
  BY HoldsTypes, Zenon
<1>1. PutOk(a, p[a], w, ss) /\ p[a] \in PutRecord
  BY <1>0, Zenon DEF Holds
<1>2. Moved(w, v, g, q) /\ Moved(ss, zz, g, s)
  BY <1>0, IsMoved, ZenonT(60)
<1>3. w[g] = AtQueue(a)
  <2>1. p[a].queue \in Seq(SpentRecord)
    BY <1>1, Zenon DEF PutRecord
  <2>2. 1 \in DOMAIN p[a].queue /\ Head(p[a].queue) = p[a].queue[1]
    BY <2>1, FdsTail, SpentFds, Zenon
  <2>3. 1 \in DOMAIN FdsOf(p[a].queue) /\ FdsOf(p[a].queue)[1] = g
    BY <2>2, Zenon DEF FdsOf
  <2>4. Lists(FdsOf(p[a].queue), w, AtQueue(a))
    BY <1>1, Zenon DEF PutOk
  <2> QED
    BY <2>3, <2>4, ZenonT(60) DEF Lists
<1>4. q # AtQueue(a) /\ q # InHand /\ q # InCall /\ (\A n : q # AtSpare(n)) /\ (\A t : q # AtTask(t))
  BY PlacesDiffer, Zenon
<1>5. q \in Places
  BY PlacesFacts, Zenon
<1>6. q = Nowhere <=> s.node = NoNode \/ s.lost
  BY PlacesDiffer, ZenonT(60)
<1>7. PutOk(a, p2[a], v, zz)
  <2>1. \/ q # AtPush(a) /\ push = NoFd
        \/ q = AtPush(a) /\ push = g /\ Clean(s)
    BY PlacesDiffer, ZenonT(60)
  <2>2. PutOk(a, [queue |-> Tail(p[a].queue), push |-> push], v, zz)
    <3> DEFINE pp == p[a]
    <3> HIDE DEF pp, v, zz
    <3>1. /\ PutOk(a, pp, w, ss) /\ pp \in PutRecord /\ pp.queue # << >> /\ pp.push = NoFd
          /\ g = Head(pp.queue).fd
      BY <1>1, Zenon DEF pp
    <3>2. PutOk(a, [queue |-> Tail(pp.queue), push |-> push], v, zz)
      BY <1>0, <1>2, <1>4, <2>1, <3>1, PutTail, Zenon
    <3> QED
      BY <3>2, ZenonT(60) DEF pp
  <2> QED
    BY <2>2, Zenon
<1>8. \A b \in Actors : b # a => /\ w[g] # AtQueue(b) /\ w[g] # AtPush(b)
                                 /\ q # AtQueue(b) /\ q # AtPush(b)
  BY <1>3, PlacesDiffer, Zenon
<1>9. (\A n \in Nodes : w[g] # AtSpare(n) /\ q # AtSpare(n)) /\ w[g] # InCall
      /\ (\A t \in Tasks : w[g] # AtTask(t)) /\ \A b : w[g] # AtPush(b)
  BY <1>3, <1>4, PlacesDiffer, ZenonT(60)
<1>10. \/ \A b \in Actors : p2[b].push = p[b].push /\ w[g] # AtPush(b) /\ q # AtPush(b)
       \/ Bounded(sp, p2, zz)
  <2>1. CASE q = Nowhere /\ push = NoFd
    <3>1. p2[a].push = p[a].push
      BY <2>1
    <3> QED
      BY <1>9, <2>1, <3>1, PlacesDiffer, ZenonT(60)
  <2> QED
    BY <2>1, Zenon
<1>11. Holds(v, zz, sp, c, p2, k)
  <2> HIDE DEF v, zz
  <2>1. v = [w EXCEPT ![g] = q] /\ zz = [ss EXCEPT ![g] = s]
    BY Zenon DEF v, zz
  <2>2. \A b \in Actors : \/ /\ p2[b] = p[b]
                             /\ w[g] # AtQueue(b) /\ w[g] # AtPush(b) /\ q # AtQueue(b) /\ q # AtPush(b)
                          \/ PutOk(b, p2[b], v, zz)
    BY <1>7, <1>8, Zenon
  <2>3. MoveCase(w, ss, sp, c, p, k, g, q, s, v, zz, c, p2, k)
    BY <1>0, <1>4, <1>5, <1>6, <1>9, <1>10, <2>1, <2>2, Zenon DEF MoveCase
  <2> QED
    BY <2>3, Moves, ZenonT(60)
<1>12. EmptyHanded(v)
  BY <1>2, <1>4, ZenonT(60) DEF EmptyHanded, Moved
<1> QED
  BY <1>11, <1>12, Zenon

LEMMA IsNextFacts ==
  ASSUME NEW w, Settled(w), NEW a \in Actors, NEW f \in Fds, NEW keep \in BOOLEAN, IsNext(a, f, keep)
  PROVE  /\ put[a].push = NoFd /\ put[a].queue # << >> /\ f = Head(put[a].queue).fd
         /\ w[f] = AtQueue(a) /\ sock[f] \in Socket /\ Sane(sock[f])
         /\ keep => Clean(sock[f])
         /\ sock[f].node # NoNode /\ ~ sock[f].lost /\ sock[f].node \in Nodes
<1>1. put[a].push = NoFd /\ put[a].queue # << >> /\ Head(put[a].queue) = Spent(f, keep)
  BY ZenonT(60) DEF IsNext
<1>2. Head(put[a].queue).fd = f /\ Head(put[a].queue).keep = keep
  BY <1>1 DEF Spent
<1>3. Holds(w, sock, spare, call, put, task)
  BY Zenon DEF Settled
<1>4. /\ w \in [Fds -> Places] /\ sock \in [Fds -> Socket] /\ put \in [Actors -> PutRecord]
      /\ PutOk(a, put[a], w, sock)
  BY <1>3, HoldsTypes, Zenon DEF Holds
<1>5. put[a].queue \in Seq(SpentRecord)
  BY <1>4, Zenon DEF PutRecord
<1>6. 1 \in DOMAIN put[a].queue /\ Head(put[a].queue) = put[a].queue[1]
  BY <1>1, <1>5, FdsTail, SpentFds, Zenon
<1>7. 1 \in DOMAIN FdsOf(put[a].queue) /\ FdsOf(put[a].queue)[1] = f
  BY <1>2, <1>6, Zenon DEF FdsOf
<1>8. w[f] = AtQueue(a)
  <2>1. Lists(FdsOf(put[a].queue), w, AtQueue(a))
    BY <1>4, Zenon DEF PutOk
  <2> QED
    BY <1>7, <2>1, Zenon DEF Lists
<1>9. keep => Clean(sock[f])
  <2>1. put[a].queue[1].keep => Clean(sock[put[a].queue[1].fd])
    BY <1>4, <1>6, Zenon DEF PutOk
  <2> QED
    BY <1>2, <1>6, <2>1, Zenon
<1>10. sock[f].node # NoNode /\ ~ sock[f].lost
  BY <1>3, <1>8, PlacesDiffer, Zenon DEF Holds, Pooled
<1>11. Sane(sock[f])
  BY <1>3, Zenon DEF Holds, Pooled
<1>12. sock[f] \in Socket
  BY <1>4, Zenon
<1>13. sock[f].node \in Nodes
  BY <1>10, <1>12, Zenon DEF Socket
<1> QED
  BY <1>1, <1>2, <1>8, <1>9, <1>10, <1>11, <1>12, <1>13, Zenon

LEMMA DiscardStep ==
  ASSUME ConnectionsInv, NEW a \in Actors, Discard(a)
  PROVE  ConnectionsInv'
<1>1. PICK w : Settled(w)
  BY Zenon DEF ConnectionsInv
<1>2. PICK f \in Fds : IsNext(a, f, FALSE) /\ sock' = [sock EXCEPT ![f] = Closed]
  BY Zenon DEF Discard
<1>3. /\ put' = [put EXCEPT ![a].queue = Tail(@)] /\ spare' = spare /\ call' = call /\ task' = task
  BY Zenon DEF Discard
<1>4. Holds(w, sock, spare, call, put, task) /\ EmptyHanded(w)
  BY <1>1, Zenon DEF Settled
<1>5. /\ put[a].push = NoFd /\ put[a].queue # << >> /\ f = Head(put[a].queue).fd
  BY <1>1, <1>2, IsNextFacts, Zenon
<1>6. put \in [Actors -> PutRecord]
  BY <1>4, HoldsTypes, ZenonT(60)
<1>7. Tail(put[a].queue) \in Seq(SpentRecord)
  <2>1. put[a].queue \in Seq(SpentRecord)
    BY <1>6, Zenon DEF PutRecord
  <2> QED
    BY <1>5, <2>1, HeadTailProperties, Zenon
<1>8. /\ put' \in [Actors -> PutRecord] /\ put'[a] = [queue |-> Tail(put[a].queue), push |-> NoFd]
      /\ \A b \in Actors : b # a => put'[b] = put[b]
  BY <1>3, <1>5, <1>6, <1>7, Zenon DEF PutRecord
<1> DEFINE p2 == put'
<1>9. /\ EmptyHanded([w EXCEPT ![f] = Nowhere])
      /\ Holds([w EXCEPT ![f] = Nowhere], [sock EXCEPT ![f] = Closed], spare, call, p2, task)
  <2> HIDE DEF p2
  <2>1. /\ p2 \in [Actors -> PutRecord] /\ p2[a] = [queue |-> Tail(put[a].queue), push |-> NoFd]
        /\ \A b \in Actors : b # a => p2[b] = put[b]
    BY <1>8, Zenon DEF p2
  <2>2. UnqueueCase(w, sock, spare, put, a, f, Nowhere, Closed, NoFd, p2)
    BY <1>5, <2>1, NewSockets, Zenon DEF UnqueueCase
  <2> QED
    BY <1>4, <2>2, Unqueue, ZenonT(60)
<1> QED
  BY <1>2, <1>3, <1>9, Resettled, Zenon

LEMMA CountStep ==
  ASSUME ConnectionsInv, NEW a \in Actors, Count(a)
  PROVE  ConnectionsInv'
<1>1. PICK w : Settled(w)
  BY Zenon DEF ConnectionsInv
<1>2. PICK f \in Fds :
        /\ IsNext(a, f, TRUE)
        /\ put' = [put EXCEPT ![a] = [queue |-> Tail(@.queue), push |-> IF Room(sock[f].node) THEN f ELSE NoFd]]
        /\ sock' = IF Room(sock[f].node) THEN sock ELSE [sock EXCEPT ![f] = Closed]
  BY ZenonT(60) DEF Count
<1>3. spare' = spare /\ call' = call /\ task' = task
  BY Zenon DEF Count
<1>4. Holds(w, sock, spare, call, put, task) /\ EmptyHanded(w)
  BY <1>1, Zenon DEF Settled
<1>5. /\ put[a].push = NoFd /\ put[a].queue # << >> /\ f = Head(put[a].queue).fd
      /\ w[f] = AtQueue(a) /\ sock[f] \in Socket /\ Sane(sock[f]) /\ Clean(sock[f])
      /\ sock[f].node # NoNode /\ ~ sock[f].lost /\ sock[f].node \in Nodes
  BY <1>1, <1>2, IsNextFacts, Zenon
<1>6. put \in [Actors -> PutRecord] /\ sock \in [Fds -> Socket] /\ spare \in [Nodes -> Seq(Fds)]
  BY <1>4, HoldsTypes, ZenonT(60)
<1>7. Tail(put[a].queue) \in Seq(SpentRecord)
  <2>1. put[a].queue \in Seq(SpentRecord)
    BY <1>6, Zenon DEF PutRecord
  <2> QED
    BY <1>5, <2>1, HeadTailProperties, Zenon
<1> DEFINE p2 == put'
           push == IF Room(sock[f].node) THEN f ELSE NoFd
<1>8. /\ p2 \in [Actors -> PutRecord] /\ p2[a] = [queue |-> Tail(put[a].queue), push |-> push]
      /\ \A b \in Actors : b # a => p2[b] = put[b]
  BY <1>2, <1>6, <1>7, Zenon DEF PutRecord
<1>9. CASE ~ Room(sock[f].node)
  <2>1. push = NoFd /\ sock' = [sock EXCEPT ![f] = Closed]
    BY <1>2, <1>9, Zenon
  <2> HIDE DEF p2, push
  <2>2. /\ EmptyHanded([w EXCEPT ![f] = Nowhere])
        /\ Holds([w EXCEPT ![f] = Nowhere], [sock EXCEPT ![f] = Closed], spare, call, p2, task)
    <3>1. UnqueueCase(w, sock, spare, put, a, f, Nowhere, Closed, push, p2)
      BY <1>5, <1>8, <2>1, NewSockets, ZenonT(60) DEF UnqueueCase
    <3> QED
      BY <1>4, <3>1, Unqueue, Zenon
  <2> QED
    BY <1>3, <2>1, <2>2, Resettled, ZenonT(60) DEF p2
<1>10. CASE Room(sock[f].node)
  <2>1. push = f /\ sock' = sock /\ [sock EXCEPT ![f] = sock[f]] = sock
    BY <1>2, <1>6, <1>10, Zenon
  <2> HIDE DEF p2, push
  <2>2. p2[a].push = f
    BY <1>8, <2>1
  <2>3. ASSUME NEW n \in Nodes
        PROVE  Len(spare[n]) + Adds(p2["main"].push, n, sock) + Adds(p2["async"].push, n, sock) <= MaxSpare + 1
    <3>1. Len(spare[n]) \in Nat /\ MaxSpare \in Nat
      BY <1>6, LenProperties, FdFacts, Zenon
    <3>2. \A g : Adds(g, n, sock) \in 0 .. 1
      BY DEF Adds
    <3>3. CASE n = sock[f].node
      <4>1. Len(spare[n]) < MaxSpare
        BY <1>10, <3>3, Zenon DEF Room
      <4> QED
        BY <3>1, <3>2, <4>1
    <3>4. CASE n # sock[f].node
      <4>1. Adds(p2[a].push, n, sock) = 0 /\ Adds(put[a].push, n, sock) = 0
        BY <1>5, <2>2, <3>4, Zenon DEF Adds
      <4>2. \A b \in Actors : Adds(p2[b].push, n, sock) = Adds(put[b].push, n, sock)
        BY <1>8, <4>1, ZenonT(60)
      <4>3. Len(spare[n]) + Adds(put["main"].push, n, sock) + Adds(put["async"].push, n, sock) <= MaxSpare + 1
        BY <1>4, Zenon DEF Holds, Bounded
      <4>4. "main" \in Actors /\ "async" \in Actors
        BY Zenon DEF Actors
      <4> QED
        BY <4>2, <4>3, <4>4, Zenon
    <3> QED
      BY <3>3, <3>4, Zenon
  <2>4. Bounded(spare, p2, sock)
    BY <2>3, Zenon DEF Bounded
  <2>5. /\ EmptyHanded([w EXCEPT ![f] = AtPush(a)])
        /\ Holds([w EXCEPT ![f] = AtPush(a)], [sock EXCEPT ![f] = sock[f]], spare, call, p2, task)
    <3>1. f \in Fds \cup {NoFd} /\ Bounded(spare, p2, [sock EXCEPT ![f] = sock[f]])
      BY <2>1, <2>4, Zenon
    <3>2. p2[a] = [queue |-> Tail(put[a].queue), push |-> f]
      BY <1>8, <2>1, Zenon
    <3>3. UnqueueCase(w, sock, spare, put, a, f, AtPush(a), sock[f], f, p2)
      BY <1>5, <1>8, <3>1, <3>2, ZenonT(60) DEF UnqueueCase
    <3> QED
      BY <1>4, <3>3, Unqueue, Zenon
  <2> QED
    BY <1>3, <2>1, <2>5, Resettled, Zenon DEF p2
<1> QED
  BY <1>9, <1>10, Zenon

LEMMA PushStep ==
  ASSUME ConnectionsInv, NEW a \in Actors, Push(a)
  PROVE  ConnectionsInv'
<1>1. PICK w : Settled(w)
  BY Zenon DEF ConnectionsInv
<1> DEFINE g == put[a].push
           n == sock[g].node
           v == [w EXCEPT ![g] = AtSpare(n)]
           zp == [spare EXCEPT ![n] = Append(@, g)]
           p2 == [put EXCEPT ![a].push = NoFd]
<1>2. /\ g # NoFd /\ put' = p2 /\ spare' = zp /\ sock' = sock /\ call' = call /\ task' = task
  BY Zenon DEF Push, queue_push_right
<1>3. Holds(w, sock, spare, call, put, task) /\ EmptyHanded(w)
  BY <1>1, Zenon DEF Settled
<1>4. /\ w \in [Fds -> Places] /\ sock \in [Fds -> Socket] /\ spare \in [Nodes -> Seq(Fds)]
      /\ put \in [Actors -> PutRecord] /\ task \in [Tasks -> TaskRecord]
  BY <1>3, HoldsTypes, Zenon
<1>5. PutOk(a, put[a], w, sock)
  BY <1>3, Zenon DEF Holds
<1>6. g \in Fds
  BY <1>2, <1>4, Zenon DEF PutRecord
<1>7. w[g] = AtPush(a) /\ Clean(sock[g]) /\ \A f \in Fds : w[f] = AtPush(a) => f = g
  BY <1>2, <1>5, <1>6, Zenon DEF PutOk
<1>8. n # NoNode /\ n \in Nodes
  <2>1. n # NoNode
    BY <1>3, <1>6, <1>7, PlacesDiffer, Zenon DEF Holds, Pooled
  <2>2. sock[g] \in Socket
    BY <1>4, <1>6, Zenon
  <2> QED
    BY <2>1, <2>2, Zenon DEF Socket
<1>9. v \in [Fds -> Places] /\ v[g] = AtSpare(n) /\ \A f \in Fds : f # g => v[f] = w[f]
  BY <1>4, <1>6, <1>8, PlacesFacts, ZenonT(60)
<1>10. zp \in [Nodes -> Seq(Fds)] /\ zp[n] = Append(spare[n], g) /\ \A m \in Nodes : m # n => zp[m] = spare[m]
  BY <1>4, <1>6, <1>8
<1>11. /\ p2 \in [Actors -> PutRecord] /\ p2[a].push = NoFd /\ p2[a].queue = put[a].queue /\ p2[a] \in PutRecord
       /\ \A b \in Actors : b # a => p2[b] = put[b]
  BY <1>4, Zenon DEF PutRecord
<1>12. \A x : x # AtPush(a) /\ x # AtSpare(n) => Stays(x, w, v, sock, sock)
  BY <1>4, <1>6, <1>7, HandOverStays, ZenonT(60)
<1> HIDE DEF g, n, v, zp, p2
<1>13. ASSUME NEW m \in Nodes
       PROVE  Lists(zp[m], v, AtSpare(m)) /\ \A i \in DOMAIN zp[m] : Clean(sock[zp[m][i]])
  <2>1. Lists(spare[m], w, AtSpare(m)) /\ \A i \in DOMAIN spare[m] : Clean(sock[spare[m][i]])
    BY <1>3, Zenon DEF Holds, Pooled
  <2>2. CASE m = n
    <3>1. w[g] # AtSpare(n) /\ \A f \in Fds : f # g => (v[f] = AtSpare(n) <=> w[f] = AtSpare(n))
      BY <1>7, <1>9, PlacesDiffer, Zenon
    <3>2. Lists(Append(spare[n], g), v, AtSpare(n))
      BY <1>4, <1>6, <1>8, <1>9, <2>1, <2>2, <3>1, ListsAppend, Zenon
    <3>3. \A i \in DOMAIN Append(spare[n], g) : \/ i \in DOMAIN spare[n] /\ Append(spare[n], g)[i] = spare[n][i]
                                                \/ Append(spare[n], g)[i] = g
      BY <1>4, <1>6, <1>8, AppendProperties, SMTT(60)
    <3> QED
      BY <1>7, <1>10, <2>1, <2>2, <3>2, <3>3, ZenonT(60)
  <2>3. CASE m # n
    <3>1. \A f \in Fds : v[f] = AtSpare(m) <=> w[f] = AtSpare(m)
      BY <1>7, <1>9, <2>3, PlacesDiffer, ZenonT(60)
    <3>2. Lists(spare[m], v, AtSpare(m))
      BY <2>1, <3>1, ListsSame, Zenon
    <3> QED
      BY <1>10, <2>1, <2>3, <3>2, Zenon
  <2> QED
    BY <2>2, <2>3, Zenon
<1>14. \A f \in Fds : Sane(sock[f]) /\ (v[f] = Nowhere <=> sock[f].node = NoNode \/ sock[f].lost)
  <2>1. \A f \in Fds : v[f] = Nowhere <=> w[f] = Nowhere
    BY <1>6, <1>7, <1>9, PlacesDiffer, Zenon
  <2> QED
    BY <1>3, <2>1, Zenon DEF Holds, Pooled
<1>15. Pooled(v, sock, zp)
  BY <1>4, <1>9, <1>10, <1>13, <1>14, ZenonT(60) DEF Pooled
<1>16. CallOk(call, v, sock)
  <2>1. Stays(InCall, w, v, sock, sock) /\ CallOk(call, w, sock)
    BY <1>3, <1>12, PlacesDiffer, Zenon DEF Holds
  <2> QED
    BY <2>1, CallFrame, Zenon
<1>17. ASSUME NEW b \in Actors PROVE PutOk(b, p2[b], v, sock)
  <2>1. Stays(AtQueue(b), w, v, sock, sock)
    BY <1>12, PlacesDiffer, Zenon
  <2>2. CASE b = a
    <3>1. Lists(FdsOf(put[a].queue), w, AtQueue(a)) /\ \A i \in DOMAIN put[a].queue :
                                                            put[a].queue[i].keep => Clean(sock[put[a].queue[i].fd])
      BY <1>5, Zenon DEF PutOk
    <3>2. \A f \in Fds : v[f] = AtQueue(a) <=> w[f] = AtQueue(a)
      BY <2>1, <2>2, ZenonT(60) DEF Stays
    <3>3. Lists(FdsOf(put[a].queue), v, AtQueue(a))
      BY <3>1, <3>2, ListsSame, Zenon
    <3>4. \A f \in Fds : v[f] # AtPush(a) /\ f # NoFd
      BY <1>7, <1>9, PlacesDiffer, FdFacts, Zenon
    <3>5. PutOk(a, p2[a], v, sock)
      BY <1>11, <3>1, <3>3, <3>4, ZenonT(60) DEF PutOk
    <3> QED
      BY <2>2, <3>5, Zenon
  <2>3. CASE b # a
    <3>1. Stays(AtPush(b), w, v, sock, sock)
      BY <1>12, <2>3, PlacesDiffer, Zenon
    <3>2. PutOk(b, put[b], w, sock)
      BY <1>3, Zenon DEF Holds
    <3>3. PutOk(b, put[b], v, sock)
      BY <2>1, <3>1, <3>2, PutFrame, Zenon
    <3> QED
      BY <1>11, <2>3, <3>3, Zenon
  <2> QED
    BY <2>2, <2>3, Zenon
<1>18. ASSUME NEW t \in Tasks PROVE TaskOk(t, task[t], v, sock)
  <2>1. Stays(AtTask(t), w, v, sock, sock) /\ TaskOk(t, task[t], w, sock)
    BY <1>3, <1>12, PlacesDiffer, ZenonT(60) DEF Holds
  <2> QED
    BY <2>1, TaskFrame, Zenon
<1>19. Bounded(zp, p2, sock)
  <2> SUFFICES ASSUME NEW m \in Nodes
               PROVE  Len(zp[m]) + Adds(p2["main"].push, m, sock) + Adds(p2["async"].push, m, sock) <= MaxSpare + 1
    BY Zenon DEF Bounded
  <2>1. Len(spare[m]) + Adds(put["main"].push, m, sock) + Adds(put["async"].push, m, sock) <= MaxSpare + 1
    BY <1>3, Zenon DEF Holds, Bounded
  <2>2. Len(spare[m]) \in Nat /\ MaxSpare \in Nat /\ \A f : Adds(f, m, sock) \in 0 .. 1
    BY <1>4, LenProperties, FdFacts, SMTT(60) DEF Adds
  <2>3. Adds(p2[a].push, m, sock) = 0 /\ \A b \in Actors : b # a => Adds(p2[b].push, m, sock) = Adds(put[b].push, m, sock)
    BY <1>11, Zenon DEF Adds
  <2>4. put[a].push = g /\ Adds(g, m, sock) = IF m = n THEN 1 ELSE 0
    BY <1>2, Zenon DEF Adds, n, g
  <2>5. Len(zp[m]) = IF m = n THEN Len(spare[m]) + 1 ELSE Len(spare[m])
    BY <1>4, <1>6, <1>8, <1>10, AppendProperties
  <2>6. a = "main" \/ a = "async"
    BY Zenon DEF Actors
  <2>7. "main" \in Actors /\ "async" \in Actors /\ "main" # "async"
    BY Zenon DEF Actors
  <2> DEFINE A(b) == Adds(put[b].push, m, sock)
             B(b) == Adds(p2[b].push, m, sock)
  <2>8. A("main") \in 0 .. 1 /\ A("async") \in 0 .. 1 /\ Len(zp[m]) + B("main") + B("async") <= Len(spare[m]) + A("main") + A("async")
    <3>1. A("main") \in 0 .. 1 /\ A("async") \in 0 .. 1
      BY <2>2, Zenon
    <3>2. A(a) = IF m = n THEN 1 ELSE 0
      BY <2>4, Zenon
    <3>3. B(a) = 0
      BY <2>3, Zenon
    <3>4. \A b \in Actors : b # a => B(b) = A(b)
      BY <2>3, Zenon
    <3> HIDE DEF A, B
    <3>5. CASE a = "main"
      BY <2>2, <2>5, <2>7, <3>1, <3>2, <3>3, <3>4, <3>5, SMTT(60)
    <3>6. CASE a = "async"
      BY <2>2, <2>5, <2>7, <3>1, <3>2, <3>3, <3>4, <3>6, SMTT(60)
    <3> QED
      BY <2>6, <3>1, <3>5, <3>6, Zenon
  <2>9. B("main") \in 0 .. 1 /\ B("async") \in 0 .. 1 /\ Len(zp[m]) \in Nat
    BY <2>2, <2>5
  <2>10. Len(spare[m]) + A("main") + A("async") <= MaxSpare + 1
    BY <2>1, Zenon
  <2> HIDE DEF A, B
  <2>11. Len(zp[m]) + B("main") + B("async") <= MaxSpare + 1
    <3> DEFINE X == Len(zp[m]) + B("main") + B("async")
               Y == Len(spare[m]) + A("main") + A("async")
    <3>1. X \in Int /\ Y \in Int /\ MaxSpare + 1 \in Int /\ X <= Y /\ Y <= MaxSpare + 1
      BY <2>2, <2>8, <2>9, <2>10, SMTT(60)
    <3> HIDE DEF X, Y
    <3>2. X <= MaxSpare + 1
      BY <3>1
    <3> QED
      BY <3>2, Zenon DEF X
  <2> QED
    BY <2>11, Zenon DEF B
<1>20. EmptyHanded(v)
  BY <1>3, <1>9, PlacesDiffer, Zenon DEF EmptyHanded
<1>21. Holds(v, sock, zp, call, p2, task)
  BY <1>4, <1>11, <1>15, <1>16, <1>17, <1>18, <1>19, ZenonT(60) DEF Holds
<1> QED
  BY <1>2, <1>20, <1>21, Resettled, Zenon

-----------------------------------------------------------------------------
(* Single commands *)

LEMMA StatusFacts == \A a : StatusOf(a) \subseteq {"ok", "error"}
  BY Zenon DEF StatusOf

LEMMA OutcomesFacts ==
  ASSUME NEW cmd \in Commands, NEW a, NEW rc \in Outcomes(cmd, a)
  PROVE  /\ rc \in {"ok", "error", "crash", "lost"}
         /\ rc = "lost" => a.hdr = "unsent"
         /\ rc = "crash" => a.hdr \in {"none", "wrong"}
<1>1. CASE cmd = "get"
  BY <1>1, Zenon DEF Outcomes, fetch_from_peer
<1>2. CASE cmd = "offset"
  BY <1>2, Zenon DEF Outcomes, offset_from_peer
<1>3. CASE cmd = "set"
  BY <1>3, StatusFacts, Zenon DEF Outcomes, send_to_peer
<1>4. CASE cmd = "increment"
  BY <1>4, Zenon DEF Outcomes, increment_on_peer
<1>5. CASE cmd = "delete"
  BY <1>5, StatusFacts, Zenon DEF Outcomes, delete_from_peer
<1>6. CASE cmd = "exists"
  BY <1>6, StatusFacts, Zenon DEF Outcomes, exists_on_peer
<1>7. CASE cmd = "touch"
  BY <1>7, StatusFacts, Zenon DEF Outcomes, touch_on_peer
<1>8. CASE cmd = "stats"
  BY <1>8, Zenon DEF Outcomes, stats_from_peer
<1>9. CASE cmd = "check"
  BY <1>9, StatusFacts, Zenon DEF Outcomes, check_peer
<1>10. CASE cmd = "index"
  BY <1>10, Zenon DEF Outcomes, index_from_peer
<1>11. CASE cmd = "migrate"
  BY <1>11, Zenon DEF Outcomes, migrate_peer
<1>12. CASE cmd = "abort"
  BY <1>12, StatusFacts, Zenon DEF Outcomes, abort_migrate_peer
<1>13. CASE cmd = "get_async"
  BY <1>13, Zenon DEF Outcomes, fetch_from_peer_async, read_message_async
<1> QED
  BY <1>1, <1>2, <1>3, <1>4, <1>5, <1>6, <1>7, <1>8, <1>9, <1>10, <1>11, <1>12, <1>13, ZenonT(60) DEF Commands

(* What a command reads of its own answer it reads whole. *)
LEMMA AnswersFacts ==
  ASSUME NEW k \in Commands, NEW a \in Answers(k)
  PROVE  a.hdr \in {"response", "index"} /\ ~ read_message_cuts(k, a)
<1>1. CASE k = "get" \/ k = "get_async"
  BY <1>1 DEF Answers, read_message_cuts, Expected
<1>2. CASE k = "offset"
  BY <1>2 DEF Answers, read_message_cuts, Expected
<1>3. CASE k = "index"
  BY <1>3 DEF Answers, read_message_cuts, Expected
<1>4. CASE k \in Commands \ {"get", "get_async", "offset", "index"}
  <2>1. a.hdr = "response" /\ a.n = 1
    BY <1>4, Zenon DEF Answers
  <2>2. Expected(k) \in {1, 2}
    BY <1>4, Zenon DEF Expected
  <2> QED
    BY <2>1, <2>2 DEF read_message_cuts
<1> QED
  BY <1>1, <1>2, <1>3, <1>4, Zenon

LEMMA CallDone ==
  ASSUME NEW c, NEW w, NEW v, NEW ss, NEW zz, CallOk(c, w, ss), NEW c2 \in CallRecord, c2.fd = NoFd,
         c2.pc = "idle" \/ (c2.pc = "next" /\ c2.cmd \in Commands /\ c2.todo # << >>),
         \A f \in Fds : v[f] # InCall
  PROVE  CallOk(c2, v, zz)
<1>1. \A f \in Fds : f # NoFd
  BY FdFacts, Zenon
<1> QED
  BY <1>1, Zenon DEF CallOk

LEMMA CallInUse ==
  ASSUME NEW w, Settled(w), call.pc \in {"write", "read"}
  PROVE  /\ call.fd \in Fds /\ w[call.fd] = InCall /\ call \in CallRecord
         /\ call.cmd \in Commands /\ call.todo # << >>
         /\ sock[call.fd] \in Socket /\ Sane(sock[call.fd])
         /\ sock[call.fd].node # NoNode /\ ~ sock[call.fd].lost
         /\ \A f \in Fds : w[f] = InCall => f = call.fd
         /\ CallOk(call, w, sock)
<1>1. Holds(w, sock, spare, call, put, task)
  BY Zenon DEF Settled
<1>2. CallOk(call, w, sock) /\ call \in CallRecord /\ sock \in [Fds -> Socket]
  BY <1>1, HoldsTypes, Zenon DEF Holds
<1>3. call.pc \notin {"idle", "next"}
  BY Zenon
<1>4. call.fd # NoFd
  BY <1>2, <1>3, Zenon DEF CallOk
<1>5. call.fd \in Fds
  BY <1>2, <1>4, Zenon DEF CallRecord
<1>6. w[call.fd] = InCall /\ \A f \in Fds : w[f] = InCall => f = call.fd
  BY <1>2, <1>5, Zenon DEF CallOk
<1>7. call.pc # "idle"
  BY Zenon
<1>8. call.cmd \in Commands /\ call.todo # << >>
  BY <1>2, <1>7, Zenon DEF CallOk
<1>9. Sane(sock[call.fd]) /\ sock[call.fd].node # NoNode /\ ~ sock[call.fd].lost
  BY <1>1, <1>5, <1>6, PlacesDiffer, Zenon DEF Holds, Pooled
<1>10. sock[call.fd] \in Socket
  BY <1>2, <1>5, Zenon
<1> QED
  BY <1>2, <1>5, <1>6, <1>8, <1>9, <1>10, Zenon

(* A command that is over leaves the connection as z: closed or lost, ... *)
LEMMA CallToNowhere ==
  ASSUME NEW CONSTANT w, Settled(w), call.pc \in {"write", "read"}, NEW z \in Socket, Sane(z),
         z.node = NoNode \/ z.lost,
         sock' = [sock EXCEPT ![call.fd] = z], call' = NoCall, put' = put, spare' = spare, task' = task
  PROVE  ConnectionsInv'
<1> DEFINE g == call.fd
           v == [w EXCEPT ![g] = Nowhere]
           zz == [sock EXCEPT ![g] = z]
<1>1. /\ g \in Fds /\ w[g] = InCall /\ CallOk(call, w, sock) /\ \A f \in Fds : w[f] = InCall => f = g
  BY CallInUse, Zenon
<1>2. Holds(w, sock, spare, call, put, task) /\ EmptyHanded(w)
  BY Zenon DEF Settled
<1>3. /\ w \in [Fds -> Places] /\ sock \in [Fds -> Socket]
      /\ put \in [Actors -> PutRecord] /\ task \in [Tasks -> TaskRecord]
  BY <1>2, HoldsTypes, Zenon
<1>4. Moved(w, v, g, Nowhere)
  BY <1>1, <1>3, IsMoved, Zenon
<1> HIDE DEF g, v, zz
<1>5. \A f \in Fds : v[f] # InCall
  BY <1>1, <1>4, PlacesDiffer, Zenon DEF Moved
<1>6. CallOk(NoCall, v, zz)
  <2>1. NoCall \in CallRecord /\ NoCall.fd = NoFd /\ NoCall.pc = "idle"
    <3>1. << >> \in Seq(Nodes)
      BY EmptySeq, Zenon
    <3> QED
      BY <3>1, Zenon DEF NoCall, CallRecord
  <2> QED
    BY <1>1, <1>5, <2>1, CallDone, ZenonT(60)
<1>7. MoveCase(w, sock, spare, call, put, task, g, Nowhere, z, v, zz, NoCall, put, task)
  <2>1. Nowhere \in Places /\ (\A n : w[g] # AtSpare(n) /\ Nowhere # AtSpare(n))
        /\ (\A a : /\ w[g] # AtQueue(a) /\ w[g] # AtPush(a) /\ Nowhere # AtQueue(a) /\ Nowhere # AtPush(a)
                   /\ w[g] # AtTask(a) /\ Nowhere # AtTask(a))
    BY <1>1, PlacesFacts, PlacesDiffer, Zenon
  <2>2. v = [w EXCEPT ![g] = Nowhere] /\ zz = [sock EXCEPT ![g] = z]
    BY Zenon DEF v, zz
  <2> QED
    BY <1>1, <1>3, <1>6, <2>1, <2>2, Zenon DEF MoveCase
<1>8. Holds(v, zz, spare, NoCall, put, task)
  BY <1>2, <1>7, Moves, Zenon
<1>9. EmptyHanded(v)
  BY <1>2, <1>4, PlacesDiffer, Zenon DEF EmptyHanded, Moved
<1>10. sock' = zz
  BY Zenon DEF zz, g
<1> QED
  BY <1>8, <1>9, <1>10, Resettled, ZenonT(60)

(* ... given back, ... *)
LEMMA CallToQueue ==
  ASSUME NEW CONSTANT w, Settled(w), call.pc \in {"write", "read"}, NEW z \in Socket, Sane(z), Clean(z),
         z.node # NoNode, ~ z.lost,
         sock' = [sock EXCEPT ![call.fd] = z], spare' = spare, task' = task,
         put' = [put EXCEPT !["main"].queue = Append(@, Spent(call.fd, TRUE))],
         call' \in CallRecord, call'.fd = NoFd,
         call'.pc = "idle" \/ (call'.pc = "next" /\ call'.cmd \in Commands /\ call'.todo # << >>)
  PROVE  ConnectionsInv'
<1> DEFINE g == call.fd
           a == "main"
           q == AtQueue(a)
           v == [w EXCEPT ![g] = q]
           zz == [sock EXCEPT ![g] = z]
           p2 == put'
           c2 == call'
<1>1. /\ g \in Fds /\ w[g] = InCall /\ CallOk(call, w, sock) /\ \A f \in Fds : w[f] = InCall => f = g
  BY CallInUse, Zenon
<1>2. Holds(w, sock, spare, call, put, task) /\ EmptyHanded(w)
  BY Zenon DEF Settled
<1>3. /\ w \in [Fds -> Places] /\ sock \in [Fds -> Socket]
      /\ put \in [Actors -> PutRecord] /\ task \in [Tasks -> TaskRecord]
  BY <1>2, HoldsTypes, Zenon
<1>a. a \in Actors
  BY Zenon DEF Actors
<1>4. Moved(w, v, g, q) /\ Moved(sock, zz, g, z)
  BY <1>1, <1>3, IsMoved, Zenon
<1>5. /\ p2 \in [Actors -> PutRecord] /\ p2[a] \in PutRecord /\ p2[a].push = put[a].push
      /\ p2[a].queue = Append(put[a].queue, Spent(g, TRUE))
      /\ \A b \in Actors : b # a => p2[b] = put[b]
  <2>1. Spent(g, TRUE) \in SpentRecord
    BY <1>1, Zenon DEF Spent, SpentRecord
  <2> DEFINE x == Spent(g, TRUE)
  <2> HIDE DEF x
  <2>2. put[a].queue \in Seq(SpentRecord)
    BY <1>3, <1>a, Zenon DEF PutRecord
  <2>3. Append(put[a].queue, x) \in Seq(SpentRecord)
    BY <2>1, <2>2, AppendProperties, Zenon DEF x
  <2>4. p2 = [put EXCEPT ![a].queue = Append(@, x)]
    BY Zenon DEF x
  <2>5. /\ p2 \in [Actors -> PutRecord] /\ p2[a] \in PutRecord /\ p2[a].push = put[a].push
        /\ p2[a].queue = Append(put[a].queue, x)
        /\ \A b \in Actors : b # a => p2[b] = put[b]
    BY <1>3, <1>a, <2>3, <2>4, ZenonT(60) DEF PutRecord
  <2> QED
    BY <2>5, Zenon DEF x
<1>b. c2 \in CallRecord /\ c2.fd = NoFd
      /\ (c2.pc = "idle" \/ (c2.pc = "next" /\ c2.cmd \in Commands /\ c2.todo # << >>))
  BY Zenon
<1>c. sock' = zz
  BY Zenon
<1> HIDE DEF g, a, q, v, zz, p2, c2
<1>6. PutOk(a, p2[a], v, zz)
  <2> DEFINE pa == put[a]
             pb == p2[a]
  <2> HIDE DEF pa, pb
  <2>1. /\ pa \in PutRecord /\ PutOk(a, pa, w, sock) /\ w[g] # AtQueue(a) /\ w[g] # AtPush(a)
        /\ pb \in PutRecord /\ pb.queue = Append(pa.queue, Spent(g, TRUE)) /\ pb.push = pa.push
    <3>1. PutOk(a, put[a], w, sock) /\ put[a] \in PutRecord
      BY <1>2, <1>3, <1>a, Zenon DEF Holds
    <3>2. w[g] # AtQueue(a) /\ w[g] # AtPush(a)
      BY <1>1, PlacesDiffer, Zenon
    <3> QED
      BY <1>5, <3>1, <3>2, Zenon DEF pa, pb
  <2>2. Moved(w, v, g, AtQueue(a))
    BY <1>4, Zenon DEF q
  <2>3. PutOk(a, pb, v, zz)
    <3>1. TRUE \in BOOLEAN
      BY Zenon
    <3> QED
      BY <1>1, <1>3, <1>4, <1>a, <2>1, <2>2, <3>1, PutAppend, Zenon
  <2> QED
    BY <2>3, Zenon DEF pb
<1>7. \A f \in Fds : v[f] # InCall
  BY <1>1, <1>4, PlacesDiffer, Zenon DEF Moved, q
<1>8. CallOk(c2, v, zz)
  BY <1>1, <1>7, <1>b, CallDone, Zenon
<1>9. MoveCase(w, sock, spare, call, put, task, g, q, z, v, zz, c2, p2, task)
  <2>1. /\ q \in Places /\ q # Nowhere /\ (\A n : w[g] # AtSpare(n) /\ q # AtSpare(n))
        /\ \A b : w[g] # AtQueue(b) /\ w[g] # AtPush(b) /\ q # AtPush(b) /\ w[g] # AtTask(b) /\ q # AtTask(b)
        /\ \A b : b # a => q # AtQueue(b)
    BY <1>1, <1>a, PlacesFacts, PlacesDiffer, Zenon DEF q
  <2>2. v = [w EXCEPT ![g] = q] /\ zz = [sock EXCEPT ![g] = z]
    BY Zenon DEF v, zz
  <2>3. \A b \in Actors : p2[b].push = put[b].push
    BY <1>5, Zenon
  <2> QED
    BY <1>1, <1>3, <1>5, <1>6, <1>8, <2>1, <2>2, <2>3, ZenonT(60) DEF MoveCase
<1>10. Holds(v, zz, spare, c2, p2, task)
  BY <1>2, <1>9, Moves, Zenon
<1>11. EmptyHanded(v)
  BY <1>2, <1>4, PlacesDiffer, Zenon DEF EmptyHanded, Moved, q
<1>12. Holds(v, sock', spare', call', put', task')
  BY <1>10, <1>c, Zenon DEF c2, p2
<1> QED
  BY <1>11, <1>12, Resettled, Zenon

(* ... or in use. *)
LEMMA CallStays ==
  ASSUME NEW CONSTANT w, Settled(w), call.pc \in {"write", "read"}, NEW z \in Socket, Sane(z),
         z.node # NoNode, ~ z.lost,
         sock' = [sock EXCEPT ![call.fd] = z], put' = put, spare' = spare, task' = task,
         \/ call' = [call EXCEPT !.pc = "crashed"] /\ z.quiet
         \/ /\ call' = [call EXCEPT !.pc = "read"]
            /\ z.wire # << >> /\ (z.quiet \/ (~ z.torn /\ z.wire = <<call.cmd>>))
  PROVE  ConnectionsInv'
<1> DEFINE g == call.fd
           v == [w EXCEPT ![g] = InCall]
           zz == [sock EXCEPT ![g] = z]
           c2 == call'
<1>1. /\ g \in Fds /\ w[g] = InCall /\ CallOk(call, w, sock) /\ \A f \in Fds : w[f] = InCall => f = g
      /\ call.cmd \in Commands /\ call.todo # << >> /\ call \in CallRecord
  BY CallInUse, Zenon
<1>2. Holds(w, sock, spare, call, put, task) /\ EmptyHanded(w)
  BY Zenon DEF Settled
<1>3. /\ w \in [Fds -> Places] /\ sock \in [Fds -> Socket]
      /\ put \in [Actors -> PutRecord] /\ task \in [Tasks -> TaskRecord]
  BY <1>2, HoldsTypes, Zenon
<1>4. Moved(w, v, g, InCall) /\ Moved(sock, zz, g, z)
  BY <1>1, <1>3, IsMoved, Zenon
<1>5. /\ c2 \in CallRecord /\ c2.fd = g /\ c2.cmd = call.cmd /\ c2.todo = call.todo
      /\ \/ c2.pc = "crashed" /\ z.quiet
         \/ c2.pc = "read" /\ z.wire # << >> /\ (z.quiet \/ (~ z.torn /\ z.wire = <<call.cmd>>))
  BY <1>1, Zenon DEF CallRecord
<1>c. sock' = zz
  BY Zenon
<1> HIDE DEF g, v, zz, c2
<1>6. CallOk(c2, v, zz)
  <2>1. \A f \in Fds : v[f] = InCall <=> c2.fd = f
    BY <1>1, <1>4, <1>5, Zenon DEF Moved
  <2>2. zz[c2.fd] = z /\ c2.fd # NoFd
    BY <1>1, <1>4, <1>5, FdFacts, Zenon DEF Moved
  <2>3. c2.pc \notin {"idle", "next"} /\ (c2.pc = "read" \/ c2.pc = "crashed")
    BY <1>5, Zenon
  <2>4. /\ \/ z.quiet
           \/ ~ z.torn /\ z.wire = IF c2.pc = "read" THEN <<c2.cmd>> ELSE << >>
        /\ c2.pc = "read" => z.wire # << >>
    BY <1>5, Zenon
  <2> QED
    BY <1>1, <1>5, <2>1, <2>2, <2>3, <2>4, ZenonT(60) DEF CallOk
<1>7. MoveCase(w, sock, spare, call, put, task, g, InCall, z, v, zz, c2, put, task)
  <2>1. InCall \in Places /\ InCall # Nowhere /\ (\A n : w[g] # AtSpare(n) /\ InCall # AtSpare(n))
        /\ (\A a : /\ w[g] # AtQueue(a) /\ w[g] # AtPush(a) /\ InCall # AtQueue(a) /\ InCall # AtPush(a)
                   /\ w[g] # AtTask(a) /\ InCall # AtTask(a))
    BY <1>1, PlacesFacts, PlacesDiffer, Zenon
  <2>2. v = [w EXCEPT ![g] = InCall] /\ zz = [sock EXCEPT ![g] = z]
    BY Zenon DEF v, zz
  <2> QED
    BY <1>1, <1>3, <1>6, <2>1, <2>2, Zenon DEF MoveCase
<1>8. Holds(v, zz, spare, c2, put, task)
  BY <1>2, <1>7, Moves, Zenon
<1>9. EmptyHanded(v)
  BY <1>2, <1>4, PlacesDiffer, Zenon DEF EmptyHanded, Moved
<1>10. Holds(v, sock', spare', call', put', task')
  BY <1>8, <1>c, Zenon DEF c2
<1> QED
  BY <1>9, <1>10, Resettled, Zenon

LEMMA LongTail ==
  ASSUME NEW s \in Seq(Nodes), Len(s) > 1 PROVE Tail(s) \in Seq(Nodes) /\ Tail(s) # << >>
<1>1. Len(s) \in Nat /\ s # << >>
  BY LenProperties, EmptySeq
<1>2. Tail(s) \in Seq(Nodes) /\ Len(Tail(s)) = Len(s) - 1
  BY <1>1, HeadTailProperties, Zenon
<1>3. Len(Tail(s)) # 0
  BY <1>1, <1>2
<1> QED
  BY <1>2, <1>3, EmptySeq, Zenon

LEMMA ReturnStep ==
  ASSUME ConnectionsInv, call.pc \in {"write", "read"},
         NEW rc \in {"ok", "error", "crash", "lost"}, NEW s \in Socket, NEW missed \in BOOLEAN,
         s.node = sock[call.fd].node, s.torn => s.wire # << >>,
         rc = "ok" => s.quiet \/ missed \/ Clean(s),
         rc = "lost" => missed,
         rc = "crash" => missed,
         Return(rc, s, missed)
  PROVE  ConnectionsInv'
<1>1. PICK w : Settled(w)
  BY Zenon DEF ConnectionsInv
<1>2. /\ call.fd \in Fds /\ call \in CallRecord /\ call.cmd \in Commands /\ call.todo # << >>
      /\ sock[call.fd].node # NoNode
  BY <1>1, CallInUse, Zenon
<1>3. spare' = spare /\ task' = task
  BY Zenon DEF Return
<1> DEFINE l == rc = "lost"
           z == [s EXCEPT !.quiet = @ \/ missed, !.lost = l]
<1>4. /\ z \in Socket /\ z.node = s.node /\ z.torn = s.torn /\ z.wire = s.wire
      /\ z.quiet <=> s.quiet \/ missed
      /\ z.lost <=> rc = "lost"
  BY Zenon DEF Socket
<1>5. sock' = [sock EXCEPT ![call.fd] = IF rc = "error" THEN Closed ELSE z]
  BY Zenon DEF Return
<1>6. put' = IF rc = "ok" THEN [put EXCEPT !["main"].queue = Append(@, Spent(call.fd, TRUE))] ELSE put
  BY Zenon DEF Return
<1>7. call' = IF rc = "crash" THEN [call EXCEPT !.pc = "crashed"]
              ELSE IF rc = "ok" /\ Len(call.todo) > 1
              THEN [call EXCEPT !.pc = "next", !.todo = Tail(@), !.fd = NoFd]
              ELSE NoCall
  BY Zenon DEF Return
<1> HIDE DEF z, l
<1>8. Sane(z)
  BY <1>4, Zenon DEF Sane
<1>9. CASE rc = "error"
  <2>1. sock' = [sock EXCEPT ![call.fd] = Closed] /\ put' = put /\ call' = NoCall
    BY <1>5, <1>6, <1>7, <1>9, Zenon
  <2> QED
    BY <1>1, <1>3, <2>1, NewSockets, CallToNowhere, ZenonT(60)
<1>10. CASE rc = "lost"
  <2>1. sock' = [sock EXCEPT ![call.fd] = z] /\ put' = put /\ call' = NoCall
    BY <1>5, <1>6, <1>7, <1>10, Zenon
  <2> QED
    BY <1>1, <1>3, <1>4, <1>8, <1>10, <2>1, CallToNowhere, ZenonT(60)
<1>11. CASE rc = "crash"
  <2>1. sock' = [sock EXCEPT ![call.fd] = z] /\ put' = put /\ call' = [call EXCEPT !.pc = "crashed"]
    BY <1>5, <1>6, <1>7, <1>11, Zenon
  <2>2. z.node # NoNode /\ ~ z.lost /\ z.quiet
    BY <1>2, <1>4, <1>11, Zenon
  <2> QED
    BY <1>1, <1>3, <1>4, <1>8, <2>1, <2>2, CallStays, ZenonT(60)
<1>12. CASE rc = "ok"
  <2>1. sock' = [sock EXCEPT ![call.fd] = z]
        /\ put' = [put EXCEPT !["main"].queue = Append(@, Spent(call.fd, TRUE))]
    BY <1>5, <1>6, <1>12, Zenon
  <2>2. z.node # NoNode /\ ~ z.lost
    BY <1>2, <1>4, <1>12, Zenon
  <2>3. Clean(z)
    BY <1>4, <1>12, ZenonT(60) DEF Clean
  <2>4. /\ call' \in CallRecord /\ call'.fd = NoFd
        /\ call'.pc = "idle" \/ (call'.pc = "next" /\ call'.cmd \in Commands /\ call'.todo # << >>)
    <3>1. CASE Len(call.todo) > 1
      <4>1. call' = [call EXCEPT !.pc = "next", !.todo = Tail(@), !.fd = NoFd]
        BY <1>7, <1>12, <3>1, Zenon
      <4>2. call.todo \in Seq(Nodes)
        BY <1>2, Zenon DEF CallRecord
      <4>3. Tail(call.todo) \in Seq(Nodes) /\ Tail(call.todo) # << >>
        BY <3>1, <4>2, LongTail, Zenon
      <4> QED
        BY <1>2, <4>1, <4>3, Zenon DEF CallRecord
    <3>2. CASE ~ (Len(call.todo) > 1)
      <4>1. call' = NoCall
        BY <1>7, <1>12, <3>2, Zenon
      <4>2. << >> \in Seq(Nodes)
        BY EmptySeq, Zenon
      <4> QED
        BY <4>1, <4>2, Zenon DEF NoCall, CallRecord
    <3> QED
      BY <3>1, <3>2, Zenon
  <2> QED
    BY <1>1, <1>3, <1>4, <1>8, <2>1, <2>2, <2>3, <2>4, CallToQueue, ZenonT(60)
<1> QED
  BY <1>9, <1>10, <1>11, <1>12, Zenon

LEMMA WriteStep ==
  ASSUME ConnectionsInv, Write
  PROVE  ConnectionsInv'
<1>1. PICK w : Settled(w)
  BY Zenon DEF ConnectionsInv
<1>2. /\ call.pc = "write" /\ sock' = [sock EXCEPT ![call.fd].wire = Append(@, call.cmd)]
      /\ call' = [call EXCEPT !.pc = "read"] /\ spare' = spare /\ task' = task /\ put' = put
  BY Zenon DEF Write
<1>3. /\ call.fd \in Fds /\ call.cmd \in Commands
      /\ sock[call.fd] \in Socket /\ Sane(sock[call.fd]) /\ sock[call.fd].node # NoNode /\ ~ sock[call.fd].lost
      /\ CallOk(call, w, sock)
  BY <1>1, <1>2, CallInUse, Zenon
<1> DEFINE s == sock[call.fd]
           z == [s EXCEPT !.wire = Append(s.wire, call.cmd)]
<1>4. s.wire \in Seq(Commands)
  BY <1>3, Zenon DEF Socket
<1>5. /\ Append(s.wire, call.cmd) \in Seq(Commands) /\ Append(s.wire, call.cmd) # << >>
      /\ s.wire = << >> => Append(s.wire, call.cmd) = <<call.cmd>>
  <2>1. Append(s.wire, call.cmd) \in Seq(Commands) /\ Append(s.wire, call.cmd) # << >>
    BY <1>3, <1>4, AppendProperties
  <2>2. Append(<< >>, call.cmd) = <<call.cmd>>
    OBVIOUS
  <2> QED
    BY <2>1, <2>2, ZenonT(60)
<1>6. /\ z \in Socket /\ z.node = s.node /\ z.torn = s.torn /\ z.wire = Append(s.wire, call.cmd)
      /\ z.quiet = s.quiet /\ z.lost = s.lost
  BY <1>3, <1>5, Zenon DEF Socket
<1>7. sock' = [sock EXCEPT ![call.fd] = z]
  BY <1>2, Zenon
<1> HIDE DEF z
<1>8. Sane(z)
  BY <1>3, <1>5, <1>6, Zenon DEF Sane
<1>9. s.quiet \/ (~ s.torn /\ s.wire = << >>)
  <2>1. call.fd # NoFd /\ call.pc # "read"
    BY <1>2, <1>3, FdFacts, Zenon
  <2> QED
    BY <1>3, <2>1, Zenon DEF CallOk
<1>10. z.quiet \/ (~ z.torn /\ z.wire = <<call.cmd>>)
  BY <1>5, <1>6, <1>9, Zenon
<1>11. call.pc \in {"write", "read"}
  BY <1>2, Zenon
<1> QED
  BY <1>1, <1>2, <1>3, <1>5, <1>6, <1>7, <1>8, <1>10, <1>11, CallStays, ZenonT(60)

LEMMA WriteFailsStep ==
  ASSUME ConnectionsInv, WriteFails
  PROVE  ConnectionsInv'
<1>1. PICK w : Settled(w)
  BY Zenon DEF ConnectionsInv
<1>2. call.pc = "write"
  BY Zenon DEF WriteFails
<1>3. PICK rc \in Outcomes(call.cmd, Unsent) : Return(rc, sock[call.fd], TRUE)
  BY ZenonT(60) DEF WriteFails
<1>4. /\ call.cmd \in Commands /\ sock[call.fd] \in Socket /\ Sane(sock[call.fd])
  BY <1>1, <1>2, CallInUse, Zenon
<1>5. Unsent.hdr = "unsent"
  BY Zenon DEF Unsent
<1>6. rc \in {"ok", "error", "crash", "lost"} /\ rc # "crash"
  BY <1>4, <1>5, OutcomesFacts, Zenon
<1>7. call.pc \in {"write", "read"} /\ TRUE \in BOOLEAN
  BY <1>2, Zenon
<1> QED
  BY <1>3, <1>4, <1>6, <1>7, ReturnStep, ZenonT(60) DEF Sane

LEMMA ReadInUse ==
  ASSUME NEW w, Settled(w), call.pc = "read"
  PROVE  /\ call.fd \in Fds /\ call.cmd \in Commands
         /\ sock[call.fd] \in Socket /\ Sane(sock[call.fd])
         /\ sock[call.fd].wire # << >> /\ sock[call.fd].wire \in Seq(Commands)
         /\ sock[call.fd].quiet \/ (~ sock[call.fd].torn /\ sock[call.fd].wire = <<call.cmd>>)
<1>1. /\ call.fd \in Fds /\ call.cmd \in Commands
      /\ sock[call.fd] \in Socket /\ Sane(sock[call.fd]) /\ CallOk(call, w, sock)
  BY CallInUse, Zenon
<1>2. call.fd # NoFd
  BY <1>1, FdFacts, Zenon
<1>3. sock[call.fd].quiet \/ (~ sock[call.fd].torn /\ sock[call.fd].wire = <<call.cmd>>)
  BY <1>1, <1>2, Zenon DEF CallOk
<1>4. sock[call.fd].wire # << >>
  BY <1>1, ZenonT(60) DEF CallOk
<1>5. sock[call.fd].wire \in Seq(Commands)
  BY <1>1, Zenon DEF Socket
<1> QED
  BY <1>1, <1>3, <1>4, <1>5, Zenon

LEMMA ReadStep ==
  ASSUME ConnectionsInv, Read
  PROVE  ConnectionsInv'
<1>1. PICK w : Settled(w)
  BY Zenon DEF ConnectionsInv
<1> DEFINE s == sock[call.fd]
           cut == [s EXCEPT !.torn = TRUE]
           took == [s EXCEPT !.wire = Tail(s.wire)]
<1>2. call.pc = "read" /\ ~ s.torn
  BY Zenon DEF Read, Readable
<1>3. /\ call.cmd \in Commands /\ s \in Socket /\ s.wire # << >> /\ s.wire \in Seq(Commands)
      /\ s.quiet \/ s.wire = <<call.cmd>>
  BY <1>1, <1>2, ReadInUse, Zenon
<1>0. PICK a \in Answers(Head(s.wire)) : \E rc \in Outcomes(call.cmd, a) :
         Return(rc, IF read_message_cuts(call.cmd, a) THEN cut ELSE took, FALSE)
  BY Zenon DEF Read
<1>4. PICK rc \in Outcomes(call.cmd, a) :
         Return(rc, IF read_message_cuts(call.cmd, a) THEN cut ELSE took, FALSE)
  BY <1>0, ZenonT(60)
<1>5. Head(s.wire) \in Commands /\ Tail(s.wire) \in Seq(Commands)
  BY <1>3, HeadTailProperties, Zenon
<1>6. a.hdr \in {"response", "index"}
  BY <1>4, <1>5, AnswersFacts, Zenon
<1>7. rc \in {"ok", "error", "crash", "lost"} /\ rc # "lost" /\ rc # "crash"
  BY <1>3, <1>4, <1>6, OutcomesFacts, Zenon
<1> DEFINE z == IF read_message_cuts(call.cmd, a) THEN cut ELSE took
<1>8. /\ cut \in Socket /\ cut.node = s.node /\ cut.wire = s.wire /\ cut.quiet = s.quiet
      /\ took \in Socket /\ took.node = s.node /\ took.wire = Tail(s.wire) /\ took.torn = s.torn /\ took.quiet = s.quiet
  BY <1>3, <1>5, Zenon DEF Socket
<1>9. ~ s.quiet => z = took /\ Tail(s.wire) = << >>
  <2> SUFFICES ASSUME ~ s.quiet PROVE z = took /\ Tail(s.wire) = << >>
    BY Zenon
  <2>1. s.wire = <<call.cmd>>
    BY <1>3, Zenon
  <2>2. Head(s.wire) = call.cmd /\ Tail(s.wire) = << >>
    BY <2>1
  <2>3. ~ read_message_cuts(call.cmd, a)
    BY <1>3, <1>4, <2>2, AnswersFacts, Zenon
  <2> QED
    BY <2>2, <2>3, Zenon
<1> HIDE DEF cut, took
<1>10. z = cut \/ z = took
  BY Zenon
<1>11. Return(rc, z, FALSE)
  BY <1>4, ZenonT(60)
<1> HIDE DEF z
<1>12. z \in Socket /\ z.node = s.node /\ (z.torn => z.wire # << >>) /\ z.quiet = s.quiet
  BY <1>2, <1>3, <1>8, <1>10, Zenon
<1>13. z.quiet \/ Clean(z)
  <2> SUFFICES ASSUME ~ s.quiet PROVE Clean(z)
    BY <1>12, Zenon
  <2>1. z = took /\ took.wire = << >> /\ ~ took.torn
    BY <1>2, <1>8, <1>9, Zenon
  <2> QED
    BY <2>1, Zenon DEF Clean
<1>14. call.pc \in {"write", "read"} /\ FALSE \in BOOLEAN
  BY <1>2, Zenon
<1> QED
  BY <1>7, <1>11, <1>12, <1>13, <1>14, ReturnStep, ZenonT(60)

LEMMA ReadTimeoutStep ==
  ASSUME ConnectionsInv, ReadTimeout
  PROVE  ConnectionsInv'
<1>1. PICK w : Settled(w)
  BY Zenon DEF ConnectionsInv
<1>2. call.pc = "read"
  BY Zenon DEF ReadTimeout
<1>3. PICK torn \in BOOLEAN, rc \in Outcomes(call.cmd, NoAnswer) :
         Return(rc, [sock[call.fd] EXCEPT !.torn = torn], TRUE)
  BY ZenonT(60) DEF ReadTimeout
<1>4. call.cmd \in Commands /\ sock[call.fd] \in Socket /\ sock[call.fd].wire # << >>
  BY <1>1, <1>2, ReadInUse, Zenon
<1>5. NoAnswer.hdr = "none"
  BY Zenon DEF NoAnswer
<1>6. rc \in {"ok", "error", "crash", "lost"} /\ rc # "lost"
  BY <1>4, <1>5, OutcomesFacts, Zenon
<1>7. call.pc \in {"write", "read"} /\ TRUE \in BOOLEAN
  BY <1>2, Zenon
<1> DEFINE z == [sock[call.fd] EXCEPT !.torn = torn]
<1>8. z \in Socket /\ z.node = sock[call.fd].node /\ z.wire # << >>
  BY <1>4, Zenon DEF Socket
<1>9. Return(rc, z, TRUE)
  BY <1>3, Zenon
<1> HIDE DEF z
<1> QED
  BY <1>2, <1>6, <1>7, <1>8, <1>9, ReturnStep, Zenon

LEMMA ReadEofStep ==
  ASSUME ConnectionsInv, ReadEof
  PROVE  ConnectionsInv'
<1>1. PICK w : Settled(w)
  BY Zenon DEF ConnectionsInv
<1>2. call.pc = "read"
  BY Zenon DEF ReadEof
<1>3. PICK rc \in Outcomes(call.cmd, NoAnswer) : Return(rc, sock[call.fd], TRUE)
  BY Zenon DEF ReadEof
<1>4. call.cmd \in Commands /\ sock[call.fd] \in Socket /\ sock[call.fd].wire # << >>
  BY <1>1, <1>2, ReadInUse, Zenon
<1>5. NoAnswer.hdr = "none"
  BY Zenon DEF NoAnswer
<1>6. rc \in {"ok", "error", "crash", "lost"} /\ rc # "lost"
  BY <1>4, <1>5, OutcomesFacts, Zenon
<1>7. call.pc \in {"write", "read"} /\ TRUE \in BOOLEAN
  BY <1>2, Zenon
<1> QED
  BY <1>2, <1>3, <1>4, <1>6, <1>7, ReturnStep, ZenonT(60)

LEMMA ReadTornStep ==
  ASSUME ConnectionsInv, ReadTorn
  PROVE  ConnectionsInv'
<1>1. PICK w : Settled(w)
  BY Zenon DEF ConnectionsInv
<1> DEFINE s == sock[call.fd]
           took == [s EXCEPT !.torn = FALSE, !.wire = Tail(@)]
<1>2. call.pc = "read" /\ s.torn
  BY Zenon DEF ReadTorn
<1>3. PICK z \in {s, took}, rc \in Outcomes(call.cmd, WrongMagic) : Return(rc, z, TRUE)
  BY Zenon DEF ReadTorn
<1>4. call.cmd \in Commands /\ s \in Socket /\ s.wire # << >> /\ s.wire \in Seq(Commands)
      /\ (s.quiet \/ (~ s.torn /\ s.wire = <<call.cmd>>))
  BY <1>1, <1>2, ReadInUse, Zenon
<1>5. WrongMagic.hdr = "wrong"
  BY Zenon DEF WrongMagic
<1>6. rc \in {"ok", "error", "crash", "lost"} /\ rc # "lost"
  BY <1>3, <1>4, <1>5, OutcomesFacts, Zenon
<1>7. call.pc \in {"write", "read"} /\ TRUE \in BOOLEAN
  BY <1>2, Zenon
<1>8. Tail(s.wire) \in Seq(Commands)
  BY <1>4, HeadTailProperties, Zenon
<1>9. z \in Socket /\ z.node = s.node /\ (z.torn => z.wire # << >>)
  BY <1>3, <1>4, <1>8, ZenonT(60) DEF Socket
<1> QED
  BY <1>2, <1>3, <1>6, <1>7, <1>9, ReturnStep, ZenonT(60)

LEMMA HandToCall ==
  ASSUME NEW v, NEW ss, NEW sp, NEW c, NEW p, NEW k, Holds(v, ss, sp, c, p, k), c.fd = NoFd,
         NEW g \in Fds, \A f \in Fds : v[f] = InHand <=> g = f, Clean(ss[g]),
         NEW c2 \in CallRecord, c2.pc = "write", c2.fd = g, c2.cmd \in Commands, c2.todo # << >>
  PROVE  EmptyHanded([v EXCEPT ![g] = InCall]) /\ Holds([v EXCEPT ![g] = InCall], ss, sp, c2, p, k)
<1> DEFINE u == [v EXCEPT ![g] = InCall]
           zz == [ss EXCEPT ![g] = ss[g]]
<1>1. /\ v \in [Fds -> Places] /\ ss \in [Fds -> Socket]
      /\ p \in [Actors -> PutRecord] /\ k \in [Tasks -> TaskRecord]
  BY HoldsTypes, ZenonT(60)
<1>2. zz = ss /\ ss[g] \in Socket
  BY <1>1, Zenon
<1>3. Moved(v, u, g, InCall)
  BY <1>1, IsMoved, Zenon
<1> HIDE DEF u
<1>4. v[g] = InHand /\ Sane(ss[g]) /\ ss[g].node # NoNode /\ ~ ss[g].lost
  <2>1. v[g] = InHand
    BY Zenon
  <2> QED
    BY <2>1, PlacesDiffer, ZenonT(60) DEF Holds, Pooled
<1>5. CallOk(c2, u, ss)
  <2>1. \A f \in Fds : v[f] # InCall
    BY FdFacts, Zenon DEF Holds, CallOk
  <2>2. \A f \in Fds : u[f] = InCall <=> c2.fd = f
    BY <1>3, <2>1, ZenonT(60) DEF Moved
  <2>3. c2.fd # NoFd /\ c2.pc \notin {"idle", "next"} /\ c2.pc # "read"
    BY FdFacts, Zenon
  <2>4. ss[c2.fd].quiet \/ (~ ss[c2.fd].torn /\ ss[c2.fd].wire = << >>)
    BY Zenon DEF Clean
  <2> QED
    BY <2>2, <2>3, <2>4, Zenon DEF CallOk
<1>6. MoveCase(v, ss, sp, c, p, k, g, InCall, ss[g], u, ss, c2, p, k)
  <2>1. InCall \in Places /\ InCall # Nowhere /\ (\A n : v[g] # AtSpare(n) /\ InCall # AtSpare(n))
        /\ (\A a : /\ v[g] # AtQueue(a) /\ v[g] # AtPush(a) /\ InCall # AtQueue(a) /\ InCall # AtPush(a)
                   /\ v[g] # AtTask(a) /\ InCall # AtTask(a))
    BY <1>4, PlacesFacts, PlacesDiffer, ZenonT(60)
  <2>2. u = [v EXCEPT ![g] = InCall] /\ ss = [ss EXCEPT ![g] = ss[g]]
    BY <1>2, Zenon DEF u
  <2> QED
    BY <1>1, <1>2, <1>4, <1>5, <2>1, <2>2, ZenonT(60) DEF MoveCase
<1>7. Holds(u, ss, sp, c2, p, k)
  BY <1>6, Moves, Zenon
<1>8. EmptyHanded(u)
  BY <1>3, PlacesDiffer, Zenon DEF EmptyHanded, Moved
<1> QED
  BY <1>7, <1>8, Zenon DEF u

LEMMA ConnectStep ==
  ASSUME ConnectionsInv, call.fd = NoFd, NEW cmd \in Commands, NEW todo \in Seq(Nodes), todo # << >>,
         Connect(cmd, todo), task' = task, put' = put
  PROVE  ConnectionsInv'
<1>1. PICK w : Settled(w)
  BY Zenon DEF ConnectionsInv
<1>2. PICK r \in connections_pool_get(Head(todo), sock, spare) :
        /\ sock' = r.sock /\ spare' = r.spare
        /\ call' = IF r.fd = NoFd THEN NoCall
                   ELSE [pc |-> "write", cmd |-> cmd, todo |-> todo, fd |-> r.fd]
  BY Zenon DEF Connect
<1>3. Holds(w, sock, spare, call, put, task) /\ EmptyHanded(w) /\ Pooled(w, sock, spare)
  BY <1>1, Zenon DEF Settled, Holds
<1>4. Head(todo) \in Nodes
  BY HeadTailProperties, Zenon
<1> DEFINE zz == r.sock
           zp == r.spare
           g == r.fd
<1>5. PICK v : Taken(w, sock, spare, v, g, zz, zp)
  BY <1>3, <1>4, PoolGet, Zenon
<1> HIDE DEF zz, zp, g
<1>6. Holds(v, zz, zp, call, put, task)
  BY <1>3, <1>5, TakenFrame, Zenon
<1>7. g \in Fds \cup {NoFd} /\ \A f \in Fds : v[f] = InHand <=> g = f
  BY <1>5, Zenon DEF Taken
<1>8. CASE g = NoFd
  <2>1. sock' = zz /\ spare' = zp /\ call' = NoCall
    BY <1>2, <1>8, Zenon DEF zz, zp, g
  <2>2. EmptyHanded(v)
    BY <1>7, <1>8, FdFacts, Zenon DEF EmptyHanded
  <2>3. CallOk(NoCall, v, zz)
    <3>1. NoCall \in CallRecord /\ NoCall.fd = NoFd /\ NoCall.pc = "idle"
      <4>1. << >> \in Seq(Nodes)
        BY EmptySeq, Zenon
      <4> QED
        BY <4>1, Zenon DEF NoCall, CallRecord
    <3>2. CallOk(call, v, zz)
      BY <1>6, Zenon DEF Holds
    <3>3. \A f \in Fds : v[f] # InCall
      BY <3>2, FdFacts, Zenon DEF CallOk
    <3> QED
      BY <3>1, <3>2, <3>3, CallDone, ZenonT(60)
  <2>4. Holds(v, zz, zp, NoCall, put, task)
    BY <1>6, <2>3, ZenonT(60) DEF Holds
  <2> QED
    BY <2>1, <2>2, <2>4, Resettled, Zenon
<1>9. CASE g # NoFd
  <2> DEFINE c2 == [pc |-> "write", cmd |-> cmd, todo |-> todo, fd |-> g]
  <2>1. sock' = zz /\ spare' = zp /\ call' = c2
    BY <1>2, <1>9, Zenon DEF zz, zp, g
  <2>2. g \in Fds /\ Clean(zz[g])
    BY <1>5, <1>7, <1>9, ZenonT(60) DEF Taken
  <2>3. c2 \in CallRecord /\ c2.pc = "write" /\ c2.fd = g /\ c2.cmd = cmd /\ c2.todo = todo
    BY <2>2, Zenon DEF CallRecord
  <2> HIDE DEF c2
  <2>4. EmptyHanded([v EXCEPT ![g] = InCall]) /\ Holds([v EXCEPT ![g] = InCall], zz, zp, c2, put, task)
    BY <1>6, <1>7, <2>2, <2>3, HandToCall, ZenonT(60)
  <2> QED
    BY <2>1, <2>4, Resettled, Zenon
<1> QED
  BY <1>8, <1>9, Zenon

LEMMA CallStep ==
  ASSUME ConnectionsInv, NEW c \in Calls, Call(c)
  PROVE  ConnectionsInv'
<1>1. PICK w : Settled(w)
  BY Zenon DEF ConnectionsInv
<1>2. call.pc = "idle" /\ task' = task /\ put' = put
  BY Zenon DEF Call, Ready
<1>3. PICK todo \in c.to : Connect(c.cmd, todo)
  BY Zenon DEF Call
<1>4. c.cmd \in Commands /\ todo \in Seq(Nodes) /\ todo # << >>
  BY ClientBounds, Zenon
<1>5. call.fd = NoFd
  <2>1. CallOk(call, w, sock) /\ call.pc \in {"idle", "next"}
    BY <1>1, <1>2, ZenonT(60) DEF Settled, Holds
  <2> QED
    BY <2>1, ZenonT(60) DEF CallOk
<1> QED
  BY <1>2, <1>3, <1>4, <1>5, ConnectStep, Zenon

LEMMA NextNodeStep ==
  ASSUME ConnectionsInv, NextNode
  PROVE  ConnectionsInv'
<1>1. PICK w : Settled(w)
  BY Zenon DEF ConnectionsInv
<1>2. call.pc = "next" /\ task' = task /\ put' = put /\ Connect(call.cmd, call.todo)
  BY Zenon DEF NextNode
<1>3. CallOk(call, w, sock) /\ call.pc \in {"idle", "next"} /\ call.pc # "idle"
  BY <1>1, <1>2, Zenon DEF Settled, Holds
<1>4. call.fd = NoFd /\ call.cmd \in Commands /\ call.todo # << >>
  BY <1>3, ZenonT(60) DEF CallOk
<1>5. call.todo \in Seq(Nodes)
  BY <1>3, Zenon DEF CallOk, CallRecord
<1> QED
  BY <1>2, <1>4, <1>5, ConnectStep, Zenon

-----------------------------------------------------------------------------
(* Commands with many keys, and jobs *)

LEMMA TaskMeta ==
  ASSUME ConnectionsInv, NEW t \in Tasks, NEW x \in TaskRecord, task' = [task EXCEPT ![t] = x],
         x.ctxs = task[t].ctxs, x.st \in {"none", "queued", "ended"} => x.ctxs = << >>,
         x.st # "none" => x.cmd \in Commands, x.cmd = task[t].cmd \/ x.ctxs = << >>,
         sock' = sock, spare' = spare, call' = call, put' = put
  PROVE  ConnectionsInv'
<1>1. PICK w : Settled(w)
  BY Zenon DEF ConnectionsInv
<1>2. Holds(w, sock, spare, call, put, task) /\ EmptyHanded(w)
  BY <1>1, Zenon DEF Settled
<1>3. task \in [Tasks -> TaskRecord]
  BY <1>2, HoldsTypes, ZenonT(60)
<1> DEFINE k2 == task'
<1>4. k2 \in [Tasks -> TaskRecord] /\ k2[t] = x /\ \A u \in Tasks : u # t => k2[u] = task[u]
  BY <1>3, Zenon
<1> HIDE DEF k2
<1>5. TaskOk(t, x, w, sock)
  <2>1. TaskOk(t, task[t], w, sock)
    BY <1>2, Zenon DEF Holds
  <2>2. Lists(FdsOf(x.ctxs), w, AtTask(t))
    BY <2>1, Zenon DEF TaskOk
  <2>3. ASSUME NEW i \in DOMAIN x.ctxs PROVE CtxOk(x.ctxs[i], sock[x.ctxs[i].fd], x.cmd)
    <3>1. x.ctxs # << >>
      BY <2>3
    <3>2. x.cmd = task[t].cmd
      BY <3>1, Zenon
    <3> QED
      BY <2>1, <3>2, ZenonT(60) DEF TaskOk
  <2> QED
    BY <2>2, <2>3, Zenon DEF TaskOk
<1>6. Holds(w, sock, spare, call, put, k2)
  BY <1>2, <1>4, <1>5, ZenonT(60) DEF Holds
<1>7. Holds(w, sock', spare', call', put', task')
  BY <1>6, Zenon DEF k2
<1> QED
  BY <1>2, <1>7, Resettled, ZenonT(60)

LEMMA RequestsFacts ==
  ASSUME NEW st \in {"queued", "send", "ended"}, NEW cmd \in Commands, NEW todo \in Seq(Bucket)
  PROVE  /\ Requests(st, cmd, todo) \in TaskRecord /\ Requests(st, cmd, todo).ctxs = << >>
         /\ Requests(st, cmd, todo).cmd = cmd
<1>1. << >> \in Seq(Context)
  BY EmptySeq, Zenon
<1> QED
  BY <1>1, Zenon DEF Requests, TaskRecord

LEMMA TaskTypes ==
  ASSUME ConnectionsInv, NEW t \in Tasks
  PROVE  /\ task[t] \in TaskRecord /\ task \in [Tasks -> TaskRecord]
         /\ task[t].st \in {"none", "queued", "ended"} => task[t].ctxs = << >>
         /\ task[t].st # "none" => task[t].cmd \in Commands
         /\ task[t].todo \in Seq(Bucket) /\ task[t].ctxs \in Seq(Context)
<1>1. PICK w : Settled(w)
  BY Zenon DEF ConnectionsInv
<1>2. TaskOk(t, task[t], w, sock) /\ task \in [Tasks -> TaskRecord]
  BY <1>1, Zenon DEF Settled, Holds
<1>3. task[t] \in TaskRecord
  BY <1>2, Zenon
<1>4. task[t].todo \in Seq(Bucket) /\ task[t].ctxs \in Seq(Context)
  BY <1>3, Zenon DEF TaskRecord
<1> QED
  BY <1>2, <1>3, <1>4, Zenon DEF TaskOk

LEMMA ZeroTask == 0 \in Tasks
  BY ClientBounds DEF Tasks

LEMMA NewTask ==
  ASSUME ConnectionsInv, NEW t \in Tasks, task[t].st = "none", NEW st \in {"queued", "send"},
         NEW cmd \in Commands, NEW todo \in Seq(Bucket),
         task' = [task EXCEPT ![t] = Requests(st, cmd, todo)],
         sock' = sock, spare' = spare, call' = call, put' = put
  PROVE  ConnectionsInv'
<1>1. task[t].ctxs = << >>
  BY TaskTypes, Zenon
<1> DEFINE x == Requests(st, cmd, todo)
<1>2. x \in TaskRecord /\ x.ctxs = << >> /\ x.cmd = cmd
  BY RequestsFacts
<1>3. task' = [task EXCEPT ![t] = x]
  BY Zenon
<1> HIDE DEF x
<1> QED
  BY <1>1, <1>2, <1>3, TaskMeta, ZenonT(60)

LEMMA MultiStep ==
  ASSUME ConnectionsInv, NEW o \in Owners, NEW cmd \in {"get", "set"}, shardcache_client_multi(cmd, o),
         shc_split_buckets(o) \in Seq(Bucket)
  PROVE  ConnectionsInv'
<1>1. /\ task[0].st = "none" /\ task' = [task EXCEPT ![0] = Requests("send", cmd, shc_split_buckets(o))]
      /\ sock' = sock /\ spare' = spare /\ call' = call /\ put' = put
  BY Zenon DEF shardcache_client_multi, Ready
<1>2. cmd \in Commands
  BY Zenon DEF Commands
<1>3. "send" \in {"queued", "send"}
  BY Zenon
<1> QED
  BY <1>1, <1>2, <1>3, ZeroTask, NewTask, ZenonT(60)

LEMMA LeaveStep ==
  ASSUME ConnectionsInv, NEW cmd \in Commands, NEW todo \in Seq(Bucket), Leave(Requests("queued", cmd, todo))
  PROVE  ConnectionsInv'
<1> DEFINE job == Requests("queued", cmd, todo)
<1>1. PICK t \in Tasks \ {0} : task[t].st = "none" /\ task' = [task EXCEPT ![t] = job]
  BY Zenon DEF Leave
<1>2. sock' = sock /\ spare' = spare /\ call' = call /\ put' = put
  BY Zenon DEF Leave
<1>3. "queued" \in {"queued", "send"} /\ t \in Tasks
  BY Zenon
<1> QED
  BY <1>1, <1>2, <1>3, NewTask, Zenon

LEMMA GetfStep ==
  ASSUME ConnectionsInv, NEW n \in Nodes, getf(n)
  PROVE  ConnectionsInv'
<1>1. "get_async" \in Commands
  BY Zenon DEF Commands
<1>2. [node |-> n, num |-> 1] \in Bucket
  BY DEF Bucket
<1> DEFINE b == [node |-> n, num |-> 1]
<1>3. Leave(Requests("queued", "get_async", <<b>>))
  BY Zenon DEF getf
<1> HIDE DEF b
<1>4. <<b>> \in Seq(Bucket)
  BY <1>2 DEF b
<1> QED
  BY <1>1, <1>3, <1>4, LeaveStep, Zenon

LEMMA GetMultifStep ==
  ASSUME ConnectionsInv, NEW o \in Owners, get_multif(o), shc_split_buckets(o) \in Seq(Bucket)
  PROVE  ConnectionsInv'
<1>1. "get" \in Commands
  BY Zenon DEF Commands
<1>2. Leave(Requests("queued", "get", shc_split_buckets(o)))
  BY Zenon DEF get_multif
<1> QED
  BY <1>1, <1>2, LeaveStep, Zenon

LEMMA Restate ==
  ASSUME ConnectionsInv, NEW t \in Tasks, task[t].st \in {"queued", "send"}, NEW st \in {"send", "run"},
         task' = [task EXCEPT ![t].st = st], sock' = sock, spare' = spare, call' = call, put' = put
  PROVE  ConnectionsInv'
<1>1. task[t] \in TaskRecord /\ (task[t].st # "none" => task[t].cmd \in Commands)
  BY TaskTypes, Zenon
<1> DEFINE x == [task[t] EXCEPT !.st = st]
<1>2. x \in TaskRecord /\ x.ctxs = task[t].ctxs /\ x.cmd = task[t].cmd /\ x.st = st
  BY <1>1, Zenon DEF TaskRecord
<1>3. task' = [task EXCEPT ![t] = x]
  BY Zenon
<1>4. task[t].cmd \in Commands
  BY <1>1, Zenon
<1> HIDE DEF x
<1> QED
  BY <1>2, <1>3, <1>4, TaskMeta, Zenon

LEMMA TakeRunStep ==
  ASSUME ConnectionsInv, NEW t \in Tasks, Take(t) \/ Run(t)
  PROVE  ConnectionsInv'
<1>1. CASE Take(t)
  <2>1. /\ task[t].st \in {"queued", "send"} /\ task' = [task EXCEPT ![t].st = "send"]
        /\ sock' = sock /\ spare' = spare /\ call' = call /\ put' = put
    BY <1>1, Zenon DEF Take
  <2>2. "send" \in {"send", "run"}
    BY Zenon
  <2> QED
    BY <2>1, <2>2, Restate, Zenon
<1>2. CASE Run(t)
  <2>1. /\ task[t].st \in {"queued", "send"} /\ task' = [task EXCEPT ![t].st = "run"]
        /\ sock' = sock /\ spare' = spare /\ call' = call /\ put' = put
    BY <1>2, Zenon DEF Run
  <2>2. "run" \in {"send", "run"}
    BY Zenon
  <2> QED
    BY <2>1, <2>2, Restate, Zenon
<1> QED
  BY <1>1, <1>2, Zenon

LEMMA AttemptsTake ==
  ASSUME NEW w, Settled(w), NEW t \in Tasks, task[t].todo # << >>, NEW r \in Attempts(t)
  PROVE  \E v : Taken(w, sock, spare, v, r.fd, r.sock, r.spare)
<1>1. Holds(w, sock, spare, call, put, task) /\ EmptyHanded(w) /\ Pooled(w, sock, spare)
  BY Zenon DEF Settled, Holds
<1>2. Head(task[t].todo).node \in Nodes
  <2>1. ConnectionsInv
    BY Zenon DEF ConnectionsInv
  <2>2. task[t].todo \in Seq(Bucket)
    BY <2>1, TaskTypes, Zenon
  <2>3. Head(task[t].todo) \in Bucket
    BY <2>2, HeadTailProperties, Zenon
  <2> QED
    BY <2>3, Zenon DEF Bucket
<1> DEFINE n == Head(task[t].todo).node
           first == connections_pool_get(n, sock, spare)
<1>3. CASE r \in first
  BY <1>1, <1>2, <1>3, PoolGet, Zenon
<1>4. CASE \E x \in first : x.fd = NoFd /\ r \in connections_pool_get(n, x.sock, x.spare)
  <2>1. PICK x \in first : x.fd = NoFd /\ r \in connections_pool_get(n, x.sock, x.spare)
    BY <1>4, Zenon
  <2> DEFINE zz == x.sock
             zp == x.spare
  <2>2. PICK v : Taken(w, sock, spare, v, x.fd, zz, zp)
    BY <1>1, <1>2, <2>1, PoolGet, Zenon
  <2>3. r \in connections_pool_get(n, zz, zp)
    BY <2>1, Zenon
  <2> HIDE DEF zz, zp, n
  <2>4. Taken(w, sock, spare, v, NoFd, zz, zp)
    BY <2>1, <2>2, Zenon
  <2>5. Pooled(v, zz, zp) /\ EmptyHanded(v)
    BY <2>4, FdFacts, ZenonT(60) DEF Taken, EmptyHanded
  <2>6. PICK u : Taken(v, zz, zp, u, r.fd, r.sock, r.spare)
    BY <1>2, <2>3, <2>5, PoolGet, Zenon DEF n
  <2>7. spare \in [Nodes -> Seq(Fds)]
    BY <1>1, Zenon DEF Pooled
  <2> QED
    BY <2>4, <2>6, <2>7, TakenTwice, Zenon
<1> QED
  <2>1. \/ r \in first
        \/ \E x \in first : r \in IF x.fd # NoFd THEN {x} ELSE connections_pool_get(n, x.sock, x.spare)
    BY Zenon DEF Attempts
  <2> HIDE DEF first, n
  <2>2. r \in first \/ \E x \in first : x.fd = NoFd /\ r \in connections_pool_get(n, x.sock, x.spare)
    BY <2>1, Zenon
  <2> QED
    BY <1>3, <1>4, <2>2, Zenon

LEMMA NodeClosesStep ==
  ASSUME ConnectionsInv, NEW f \in Fds, NodeCloses(f)
  PROVE  ConnectionsInv'
<1>1. PICK w : Settled(w)
  BY Zenon DEF ConnectionsInv
<1>2. Holds(w, sock, spare, call, put, task) /\ EmptyHanded(w) /\ Pooled(w, sock, spare)
  BY <1>1, Zenon DEF Settled, Holds
<1>3. w \in [Fds -> Places] /\ sock \in [Fds -> Socket] /\ spare \in [Nodes -> Seq(Fds)]
  BY <1>2, HoldsTypes, Zenon
<1> DEFINE zz == sock'
<1>4. zz \in [Fds -> Socket] /\ \A g \in Fds : Like(sock[g], zz[g])
  <2>1. zz = [sock EXCEPT ![f].up = FALSE]
    BY Zenon DEF NodeCloses
  <2>2. [sock[f] EXCEPT !.up = FALSE] \in Socket
    BY <1>3, Zenon DEF Socket
  <2>3. Like(sock[f], [sock[f] EXCEPT !.up = FALSE])
    BY <1>3, Zenon DEF Socket, Like
  <2>4. \A g \in Fds : Like(sock[g], sock[g])
    BY Zenon DEF Like
  <2> QED
    BY <1>3, <2>1, <2>2, <2>3, <2>4, ZenonT(60)
<1>5. spare' = spare /\ call' = call /\ task' = task /\ put' = put
  BY Zenon DEF NodeCloses
<1> HIDE DEF zz
<1>6. \A x : Stays(x, w, w, sock, zz)
  BY <1>4, Zenon DEF Stays
<1>7. \A g \in Fds : Sane(zz[g]) /\ (w[g] = Nowhere <=> zz[g].node = NoNode \/ zz[g].lost)
  BY <1>2, <1>4, ZenonT(60) DEF Pooled, Like, Sane
<1>8. Pooled(w, zz, spare)
  BY <1>2, <1>3, <1>4, <1>6, <1>7, PooledStep, ZenonT(60)
<1>9. CallOk(call, w, zz)
  BY <1>2, <1>6, CallFrame, Zenon DEF Holds
<1>10. \A a \in Actors : PutOk(a, put[a], w, zz)
  BY <1>2, <1>6, PutFrame, Zenon DEF Holds
<1>11. \A t \in Tasks : TaskOk(t, task[t], w, zz)
  BY <1>2, <1>6, TaskFrame, Zenon DEF Holds
<1>12. Bounded(spare, put, zz)
  <2>1. \A n \in Nodes : Len(spare[n]) <= Len(spare[n])
    BY <1>3, LenProperties
  <2>2. Bounded(spare, put, sock) /\ \A a \in Actors : PutOk(a, put[a], w, sock)
    BY <1>2, Zenon DEF Holds
  <2> QED
    BY <1>3, <1>6, <2>1, <2>2, BoundedFrame, ZenonT(60)
<1>13. Holds(w, zz, spare, call, put, task)
  BY <1>2, <1>8, <1>9, <1>10, <1>11, <1>12, ZenonT(60) DEF Holds
<1> QED
  BY <1>2, <1>5, <1>13, Resettled, Zenon DEF zz

LEMMA Repeats ==
  ASSUME NEW cmd \in Commands, NEW n \in Nat \ {0}, NEW s \in Seq(Commands)
  PROVE  LET q == s \o [i \in 1 .. n |-> cmd]
         IN  /\ q \in Seq(Commands) /\ q # << >>
             /\ s = << >> => Len(q) = n /\ \A j \in DOMAIN q : q[j] = cmd
<1> DEFINE r == [i \in 1 .. n |-> cmd]
<1>1. r \in Seq(Commands) /\ Len(r) = n /\ \A j \in DOMAIN r : r[j] = cmd
  <2>1. r \in [1 .. n -> Commands]
    BY Zenon
  <2> QED
    BY <2>1
<1> HIDE DEF r
<1>2. s \o r \in Seq(Commands) /\ Len(s \o r) = Len(s) + Len(r) /\ Len(s) \in Nat
  BY <1>1, ConcatProperties, LenProperties, ZenonT(60)
<1>3. s \o r # << >>
  BY <1>1, <1>2
<1>4. s = << >> => s \o r = r
  BY <1>1, SMTT(60)
<1> QED
  BY <1>1, <1>2, <1>3, <1>4, Zenon DEF r

Sent(z, n, cmd) == [z EXCEPT !.wire = @ \o [i \in 1 .. n |-> cmd]]
NewCtx(g, n) == [fd |-> g, num |-> n, idx |-> 0, open |-> TRUE]

LEMMA SentCtx ==
  ASSUME NEW z \in Socket, Sane(z), Clean(z), NEW cmd \in Commands, NEW b \in Bucket, NEW g \in Fds,
         NEW s, s = Sent(z, b.num, cmd), NEW x, x = NewCtx(g, b.num)
  PROVE  /\ s \in Socket /\ Sane(s) /\ s.node = z.node /\ s.lost = z.lost
         /\ x \in Context /\ x.fd = g /\ CtxOk(x, s, cmd)
<1> DEFINE q == z.wire \o [i \in 1 .. b.num |-> cmd]
<1>1. b.num \in Nat \ {0} /\ z.wire \in Seq(Commands)
  BY Zenon DEF Bucket, Socket
<1>2. /\ q \in Seq(Commands) /\ q # << >>
      /\ z.wire = << >> => Len(q) = b.num /\ \A j \in DOMAIN q : q[j] = cmd
  BY <1>1, Repeats, Zenon
<1>3. s = [z EXCEPT !.wire = q]
  BY Zenon DEF Sent
<1> HIDE DEF q
<1>4. /\ s \in Socket /\ s.wire = q /\ s.quiet = z.quiet /\ s.torn = z.torn /\ s.lost = z.lost
      /\ s.node = z.node
  BY <1>2, <1>3, Zenon DEF Socket
<1>5. x \in Context /\ x.fd = g /\ x.num = b.num /\ x.idx = 0
  BY <1>1, Zenon DEF Context, NewCtx
<1>6. Sane(s)
  BY <1>2, <1>4, Zenon DEF Sane
<1>7. s.quiet \/ (~ s.torn /\ Len(s.wire) = b.num /\ \A j \in DOMAIN s.wire : s.wire[j] = cmd)
  BY <1>2, <1>4, ZenonT(60) DEF Clean
<1>8. x.idx <= x.num /\ x.idx < x.num
  BY <1>1, <1>5
<1>9. Len(s.wire) = b.num => Len(s.wire) <= x.num - x.idx
  BY <1>1, <1>5
<1>10. CtxOk(x, s, cmd)
  BY <1>7, <1>8, <1>9, ZenonT(60) DEF CtxOk
<1> QED
  BY <1>4, <1>5, <1>6, <1>10, Zenon

LEMMA SendStep ==
  ASSUME ConnectionsInv, NEW t \in Tasks, Send(t)
  PROVE  ConnectionsInv'
<1>1. PICK w : Settled(w)
  BY Zenon DEF ConnectionsInv
<1>2. task[t].st = "send" /\ task[t].todo # << >> /\ call' = call /\ put' = put
  BY Zenon DEF Send
<1> DEFINE b == Head(task[t].todo)
<1>3. PICK r \in Attempts(t) :
        /\ r.fd # NoFd /\ spare' = r.spare
        /\ sock' = [r.sock EXCEPT ![r.fd].wire = @ \o [i \in 1 .. b.num |-> task[t].cmd]]
        /\ task' = [task EXCEPT ![t].todo = Tail(@),
                       ![t].ctxs = Append(@, [fd |-> r.fd, num |-> b.num, idx |-> 0, open |-> TRUE])]
  BY Zenon DEF Send
<1>4. Holds(w, sock, spare, call, put, task) /\ EmptyHanded(w) /\ Pooled(w, sock, spare)
  BY <1>1, ZenonT(60) DEF Settled, Holds
<1> DEFINE ss == r.sock
           zp == r.spare
           g == r.fd
<1>5. PICK v : Taken(w, sock, spare, v, g, ss, zp)
  BY <1>1, <1>2, AttemptsTake, Zenon
<1> DEFINE s == [ss[g] EXCEPT !.wire = @ \o [i \in 1 .. b.num |-> task[t].cmd]]
           x == [fd |-> g, num |-> b.num, idx |-> 0, open |-> TRUE]
           k == [task[t] EXCEPT !.todo = Tail(@), !.ctxs = Append(@, x)]
           zz == [ss EXCEPT ![g] = s]
           k2 == [task EXCEPT ![t] = k]
           u == [v EXCEPT ![g] = AtTask(t)]
<1>6. g # NoFd /\ spare' = zp /\ sock' = zz /\ task' = k2
  BY <1>3, ZenonT(60)
<1>7. /\ task[t] \in TaskRecord /\ task[t].cmd \in Commands /\ task[t].todo \in Seq(Bucket)
      /\ task \in [Tasks -> TaskRecord] /\ task[t].ctxs \in Seq(Context)
  BY <1>2, TaskTypes, Zenon
<1>8. b \in Bucket /\ Tail(task[t].todo) \in Seq(Bucket)
  BY <1>2, <1>7, HeadTailProperties, Zenon
<1> HIDE DEF b, ss, zp, g
<1>9. Holds(v, ss, zp, call, put, task)
  BY <1>4, <1>5, TakenFrame, Zenon
<1>10. g \in Fds /\ (\A f \in Fds : v[f] = InHand <=> g = f) /\ Clean(ss[g]) /\ v[g] = InHand
  BY <1>5, <1>6, ZenonT(60) DEF Taken
<1>11. v \in [Fds -> Places] /\ ss \in [Fds -> Socket] /\ put \in [Actors -> PutRecord] /\ ss[g] \in Socket
  <2>1. v \in [Fds -> Places] /\ ss \in [Fds -> Socket] /\ put \in [Actors -> PutRecord]
    BY <1>9, HoldsTypes, Zenon
  <2> QED
    BY <1>10, <2>1, Zenon
<1>12. Sane(ss[g]) /\ ss[g].node # NoNode /\ ~ ss[g].lost
  BY <1>9, <1>10, PlacesDiffer, ZenonT(60) DEF Holds, Pooled
<1> DEFINE z == ss[g]
           cmd == task[t].cmd
<1>13. s = Sent(z, b.num, cmd) /\ x = NewCtx(g, b.num)
  BY Zenon DEF Sent, NewCtx
<1>14. z \in Socket /\ Sane(z) /\ Clean(z) /\ cmd \in Commands
  BY <1>7, <1>10, <1>11, <1>12, ZenonT(60)
<1> HIDE DEF s, x, z, cmd
<1>15. /\ s \in Socket /\ Sane(s) /\ s.node = z.node /\ s.lost = z.lost
       /\ x \in Context /\ x.fd = g /\ CtxOk(x, s, cmd)
  BY <1>8, <1>10, <1>13, <1>14, SentCtx, SMTT(60)
<1>16. /\ s \in Socket /\ Sane(s) /\ s.node = ss[g].node /\ s.lost = ss[g].lost
       /\ x \in Context /\ x.fd = g /\ CtxOk(x, s, task[t].cmd)
  BY <1>15, Zenon DEF z, cmd
<1>17. k \in TaskRecord /\ k.ctxs = Append(task[t].ctxs, x) /\ k.st = "send" /\ k.cmd = task[t].cmd
  <2>1. Append(task[t].ctxs, x) \in Seq(Context)
    BY <1>7, <1>16, AppendProperties, Zenon
  <2> QED
    BY <1>2, <1>7, <1>8, <2>1, ZenonT(60) DEF TaskRecord
<1> HIDE DEF k
<1>18. k2 \in [Tasks -> TaskRecord] /\ k2[t] = k /\ \A y \in Tasks : y # t => k2[y] = task[y]
  BY <1>7, <1>17, Zenon
<1>19. Moved(v, u, g, AtTask(t)) /\ Moved(ss, zz, g, s)
  BY <1>10, <1>11, IsMoved, ZenonT(60)
<1>20. u = [v EXCEPT ![g] = AtTask(t)] /\ zz = [ss EXCEPT ![g] = s]
  BY Zenon
<1> HIDE DEF u, zz, k2
<1>21. TaskOk(t, k, u, zz)
  <2>1. TaskOk(t, task[t], v, ss)
    BY <1>9, Zenon DEF Holds
  <2>2. v[g] # AtTask(t)
    BY <1>10, PlacesDiffer, Zenon
  <2> QED
    BY <1>2, <1>7, <1>10, <1>11, <1>16, <1>17, <1>19, <2>1, <2>2, TaskAppend, ZenonT(60)
<1>22. MoveCase(v, ss, zp, call, put, task, g, AtTask(t), s, u, zz, call, put, k2)
  <2>1. /\ AtTask(t) \in Places /\ AtTask(t) # Nowhere /\ v[g] # InCall /\ AtTask(t) # InCall
        /\ \A n : v[g] # AtSpare(n) /\ AtTask(t) # AtSpare(n)
        /\ \A a : v[g] # AtQueue(a) /\ v[g] # AtPush(a) /\ AtTask(t) # AtQueue(a) /\ AtTask(t) # AtPush(a)
    BY <1>10, PlacesFacts, PlacesDiffer, Zenon
  <2>2. \A y \in Tasks : \/ k2[y] = task[y] /\ v[g] # AtTask(y) /\ AtTask(t) # AtTask(y)
                         \/ TaskOk(y, k2[y], u, zz)
    BY <1>10, <1>18, <1>21, PlacesDiffer, ZenonT(60)
  <2>3. s.node # NoNode /\ ~ s.lost
    BY <1>12, <1>16, Zenon
  <2> QED
    BY <1>10, <1>11, <1>16, <1>18, <1>20, <2>1, <2>2, <2>3, ZenonT(60) DEF MoveCase
<1>23. Holds(u, zz, zp, call, put, k2)
  BY <1>9, <1>22, Moves, Zenon
<1>24. EmptyHanded(u)
  BY <1>10, <1>19, PlacesDiffer, ZenonT(60) DEF EmptyHanded, Moved
<1>25. Holds(u, sock', spare', call', put', task')
  BY <1>2, <1>6, <1>23, Zenon
<1> QED
  BY <1>24, <1>25, Resettled, Zenon

LEMMA EndTaskStep ==
  ASSUME NEW CONSTANT w, NEW CONSTANT ss, NEW CONSTANT sp, NEW CONSTANT k, NEW CONSTANT t \in Tasks,
         Holds(w, ss, sp, call, put, k), EmptyHanded(w), NEW CONSTANT ctxs,
         task \in [Tasks -> TaskRecord], k = [task EXCEPT ![t].ctxs = ctxs], task[t].st # "none",
         EndTask(t, ctxs, ss), spare' = sp, call' = call
  PROVE  ConnectionsInv'
<1>1. k[t].st # "none" /\ k[t].ctxs = ctxs /\ k[t].cmd = task[t].cmd
  BY Zenon DEF TaskRecord
<1> DEFINE p2 == [put EXCEPT ![Actor(t)].queue = @ \o SpentList(ctxs, task[t].cmd)]
           k2 == [k EXCEPT ![t] = Over(t, task[t].cmd)]
<1>2. PICK v : EmptyHanded(v) /\ Holds(v, ss, sp, call, p2, k2)
  <2>1. \E v : /\ EmptyHanded(v)
               /\ Holds(v, ss, sp, call,
                        [put EXCEPT ![Actor(t)].queue = @ \o SpentList(k[t].ctxs, k[t].cmd)],
                        [k EXCEPT ![t] = Over(t, k[t].cmd)])
    BY <1>1, Ends, Zenon
  <2> QED
    BY <1>1, <2>1, Zenon
<1>3. sock' = ss /\ put' = p2
  BY Zenon DEF EndTask, SpentList, KeepCtx
<1>4. task' = k2
  <2>1. task' = [task EXCEPT ![t] = Over(t, task[t].cmd)]
    BY Zenon DEF EndTask, Over
  <2> HIDE DEF Over
  <2> QED
    BY <2>1, Zenon
<1>5. Holds(v, sock', spare', call', put', task')
  BY <1>2, <1>3, <1>4, Zenon
<1> QED
  BY <1>2, <1>5, Resettled, Zenon

LEMMA SameCtxs ==
  ASSUME task \in [Tasks -> TaskRecord], NEW t \in Tasks
  PROVE  task = [task EXCEPT ![t].ctxs = task[t].ctxs]
<1>1. task[t] = [task[t] EXCEPT !.ctxs = task[t].ctxs]
  BY Zenon DEF TaskRecord
<1> QED
  BY <1>1, Zenon

LEMMA SendFailsStep ==
  ASSUME ConnectionsInv, NEW t \in Tasks, SendFails(t)
  PROVE  ConnectionsInv'
<1>1. PICK w : Settled(w)
  BY Zenon DEF ConnectionsInv
<1>2. task[t].st = "send" /\ task[t].todo # << >> /\ call' = call
  BY Zenon DEF SendFails
<1>3. PICK r \in Attempts(t) : r.fd = NoFd /\ spare' = r.spare /\ EndTask(t, task[t].ctxs, r.sock)
  BY Zenon DEF SendFails
<1>4. Holds(w, sock, spare, call, put, task) /\ EmptyHanded(w) /\ Pooled(w, sock, spare)
  BY <1>1, Zenon DEF Settled, Holds
<1> DEFINE zz == r.sock
           zp == r.spare
<1>5. PICK v : Taken(w, sock, spare, v, r.fd, zz, zp)
  BY <1>1, <1>2, AttemptsTake, Zenon
<1>6. spare' = zp /\ EndTask(t, task[t].ctxs, zz)
  BY <1>3, Zenon
<1> HIDE DEF zz, zp
<1>7. Holds(v, zz, zp, call, put, task)
  BY <1>4, <1>5, TakenFrame, Zenon
<1>8. EmptyHanded(v)
  BY <1>3, <1>5, FdFacts, ZenonT(60) DEF Taken, EmptyHanded
<1>9. task \in [Tasks -> TaskRecord] /\ task[t].st # "none"
  BY <1>2, TaskTypes, Zenon
<1>10. task = [task EXCEPT ![t].ctxs = task[t].ctxs]
  BY <1>9, SameCtxs, Zenon
<1> QED
  BY <1>2, <1>6, <1>7, <1>8, <1>9, <1>10, EndTaskStep, ZenonT(60)

LEMMA GiveUpStep ==
  ASSUME ConnectionsInv, GiveUp
  PROVE  ConnectionsInv'
<1>1. PICK w : Settled(w)
  BY Zenon DEF ConnectionsInv
<1>2. /\ task[0].st # "none" /\ EndTask(0, task[0].ctxs, sock) /\ spare' = spare /\ call' = call
  BY Zenon DEF GiveUp, Looping
<1>3. Holds(w, sock, spare, call, put, task) /\ EmptyHanded(w)
  BY <1>1, ZenonT(60) DEF Settled
<1>4. task \in [Tasks -> TaskRecord] /\ 0 \in Tasks
  BY ZeroTask, TaskTypes, Zenon
<1>5. task = [task EXCEPT ![0].ctxs = task[0].ctxs]
  BY <1>4, SameCtxs, Zenon
<1> QED
  BY <1>2, <1>3, <1>4, <1>5, EndTaskStep, ZenonT(60)

LEMMA UpdateContextStep ==
  ASSUME ConnectionsInv, NEW t \in Tasks, task[t].st # "none", NEW i \in DOMAIN task[t].ctxs,
         NEW CONSTANT c \in Context, NEW CONSTANT g, g = task[t].ctxs[i].fd, c.fd = g,
         NEW CONSTANT s \in Socket, Sane(s), s.node = sock[g].node, s.lost = sock[g].lost,
         CtxOk(c, s, task[t].cmd), NEW CONSTANT zz, zz = [sock EXCEPT ![g] = s],
         UpdateContext(t, i, c, zz), spare' = spare, call' = call
  PROVE  ConnectionsInv'
<1>1. PICK w : Settled(w)
  BY Zenon DEF ConnectionsInv
<1>2. Holds(w, sock, spare, call, put, task) /\ EmptyHanded(w)
  BY <1>1, Zenon DEF Settled
<1>3. /\ w \in [Fds -> Places] /\ sock \in [Fds -> Socket] /\ task \in [Tasks -> TaskRecord]
      /\ put \in [Actors -> PutRecord]
  BY <1>2, HoldsTypes, Zenon
<1>4. TaskOk(t, task[t], w, sock) /\ task[t] \in TaskRecord /\ task[t].ctxs \in Seq(Context)
  BY <1>2, <1>3, TaskTypes, Zenon DEF Holds
<1> DEFINE ctxs == [task[t].ctxs EXCEPT ![i] = c]
           k == [task[t] EXCEPT !.ctxs = ctxs]
           k2 == [task EXCEPT ![t].ctxs = ctxs]
<1>5. g \in Fds /\ w[g] = AtTask(t)
  <2>1. task[t].ctxs[i] \in Context
    BY <1>4, ElementOfSeq
  <2>2. g \in Fds
    BY <2>1, Zenon DEF Context
  <2>3. i \in DOMAIN FdsOf(task[t].ctxs) /\ FdsOf(task[t].ctxs)[i] = g
    BY Zenon DEF FdsOf
  <2> QED
    BY <1>4, <2>2, <2>3, ZenonT(60) DEF TaskOk, Lists
<1>6. Moved(sock, zz, g, s) /\ w = [w EXCEPT ![g] = AtTask(t)]
  BY <1>3, <1>5, IsMoved, ZenonT(60)
<1>7. k = [task[t] EXCEPT !.ctxs = [task[t].ctxs EXCEPT ![i] = c]]
  BY Zenon
<1>8. k2 = [task EXCEPT ![t] = k] /\ k2 = [task EXCEPT ![t].ctxs = ctxs]
  BY Zenon
<1>9. (\A j \in DOMAIN ctxs : ~ ctxs[j].open) => EndTask(t, ctxs, zz)
  BY ZenonT(60) DEF UpdateContext
<1>10. ~ (\A j \in DOMAIN ctxs : ~ ctxs[j].open) => sock' = zz /\ task' = k2 /\ put' = put
  BY Zenon DEF UpdateContext
<1> HIDE DEF k, k2
<1>11. TaskOk(t, k, w, zz) /\ k \in TaskRecord
  <2>1. Moved(sock, zz, c.fd, s) /\ c.fd = task[t].ctxs[i].fd
    BY <1>6, ZenonT(60)
  <2> QED
    BY <1>3, <1>4, <1>7, <2>1, TaskUpdate, ZenonT(60)
<1> HIDE DEF ctxs
<1>12. k2 \in [Tasks -> TaskRecord] /\ k2[t] = k /\ \A y \in Tasks : y # t => k2[y] = task[y]
  BY <1>3, <1>8, <1>11, Zenon
<1>13. MoveCase(w, sock, spare, call, put, task, g, AtTask(t), s, w, zz, call, put, k2)
  <2>1. /\ AtTask(t) \in Places /\ AtTask(t) # Nowhere /\ AtTask(t) # InCall
        /\ \A n : AtTask(t) # AtSpare(n)
        /\ \A a : AtTask(t) # AtQueue(a) /\ AtTask(t) # AtPush(a)
    BY PlacesFacts, PlacesDiffer, Zenon
  <2>2. \A y \in Tasks : \/ k2[y] = task[y] /\ w[g] # AtTask(y) /\ AtTask(t) # AtTask(y)
                         \/ TaskOk(y, k2[y], w, zz)
    BY <1>5, <1>11, <1>12, PlacesDiffer, ZenonT(60)
  <2>3. s.node # NoNode /\ ~ s.lost
    BY <1>2, <1>5, <2>1, ZenonT(60) DEF Holds, Pooled
  <2> QED
    BY <1>3, <1>5, <1>6, <1>12, <2>1, <2>2, <2>3, ZenonT(60) DEF MoveCase
<1>14. Holds(w, zz, spare, call, put, k2)
  BY <1>2, <1>13, Moves, ZenonT(60)
<1>15. CASE \A j \in DOMAIN ctxs : ~ ctxs[j].open
  <2>1. EndTask(t, ctxs, zz)
    BY <1>9, <1>15, ZenonT(60)
  <2> QED
    BY <1>2, <1>3, <1>8, <1>14, <2>1, EndTaskStep, ZenonT(60)
<1>16. CASE ~ \A j \in DOMAIN ctxs : ~ ctxs[j].open
  <2>1. Holds(w, sock', spare', call', put', task')
    BY <1>10, <1>14, <1>16, ZenonT(60)
  <2> QED
    BY <1>2, <2>1, Resettled, Zenon
<1> QED
  BY <1>15, <1>16, Zenon

Rest(s) == [s EXCEPT !.wire = Tail(@)]
Answered(c) == [c EXCEPT !.idx = @ + 1, !.open = ~ (c.idx + 1 = c.num)]

LEMMA RestFacts ==
  ASSUME NEW s \in Socket, Sane(s), ~ s.torn, s.wire # << >>
  PROVE  /\ Rest(s) \in Socket /\ Sane(Rest(s)) /\ Rest(s).node = s.node /\ Rest(s).lost = s.lost
         /\ Rest(s).quiet = s.quiet /\ ~ Rest(s).torn /\ Rest(s).wire = Tail(s.wire)
<1>1. Tail(s.wire) \in Seq(Commands)
  BY HeadTailProperties, Zenon DEF Socket
<1>2. /\ Rest(s) \in Socket /\ Rest(s).node = s.node /\ Rest(s).lost = s.lost
      /\ Rest(s).quiet = s.quiet /\ Rest(s).torn = s.torn /\ Rest(s).wire = Tail(s.wire)
  BY <1>1, Zenon DEF Rest, Socket
<1>3. Sane(Rest(s))
  BY <1>2, Zenon DEF Sane
<1> QED
  BY <1>2, <1>3, Zenon

LEMMA LeftoverFacts ==
  ASSUME NEW s \in Socket, Sane(s), ~ s.torn, NEW z \in Leftovers(s)
  PROVE  /\ z \in Socket /\ Sane(z) /\ z.node = s.node /\ z.lost = s.lost /\ z.quiet = s.quiet
         /\ s.wire = << >> => ~ z.torn /\ z.wire = << >>
<1>1. s.wire \in Seq(Commands) /\ Len(s.wire) \in Nat
  BY LenProperties, Zenon DEF Socket
<1>2. PICK n \in 0 .. Len(s.wire) :
        \/ z = [s EXCEPT !.wire = SubSeq(@, n + 1, Len(@))]
        \/ n # Len(s.wire) /\ z = [s EXCEPT !.wire = SubSeq(@, n + 1, Len(@)), !.torn = TRUE]
  <2>1. CASE z \in {[s EXCEPT !.wire = SubSeq(@, k + 1, Len(@))] : k \in 0 .. Len(s.wire)}
    BY <2>1, Zenon
  <2>2. CASE z \in {[s EXCEPT !.wire = SubSeq(@, k + 1, Len(@)), !.torn = TRUE] : k \in 0 .. Len(s.wire) - 1}
    <3>1. PICK k \in 0 .. Len(s.wire) - 1 : z = [s EXCEPT !.wire = SubSeq(@, k + 1, Len(@)), !.torn = TRUE]
      BY <2>2, Zenon
    <3>2. k \in 0 .. Len(s.wire) /\ k # Len(s.wire)
      BY <1>1
    <3> QED
      BY <3>1, <3>2, ZenonT(60)
  <2> QED
    BY <2>1, <2>2, Zenon DEF Leftovers
<1> DEFINE q == SubSeq(s.wire, n + 1, Len(s.wire))
<1>3. q \in Seq(Commands) /\ Len(q) = Len(s.wire) - n
  BY <1>1, SubSeqProperties
<1>4. \/ z = [s EXCEPT !.wire = q]
      \/ n # Len(s.wire) /\ z = [s EXCEPT !.wire = q, !.torn = TRUE]
  BY <1>2, Zenon
<1> HIDE DEF q
<1>5. n # Len(s.wire) => q # << >>
  BY <1>1, <1>3
<1>6. s.wire = << >> => n = Len(s.wire) /\ q = << >>
  BY <1>1, <1>3, EmptySeq
<1>7. /\ z \in Socket /\ z.node = s.node /\ z.lost = s.lost /\ z.quiet = s.quiet /\ z.wire = q
      /\ z.torn => n # Len(s.wire)
  BY <1>3, <1>4, Zenon DEF Socket
<1>8. Sane(z)
  BY <1>5, <1>7, ZenonT(60) DEF Sane
<1> QED
  BY <1>6, <1>7, <1>8, Zenon

LEMMA NotEmpty ==
  ASSUME NEW S, NEW q \in Seq(S), q # << >>
  PROVE  Len(q) # 0
  BY EmptySeq, Zenon

LEMMA IsOne ==
  ASSUME NEW n \in Nat, n # 0, n <= 1
  PROVE  n = 1
  BY SMTT(60)

LEMMA AnsweredCtx ==
  ASSUME NEW c \in Context, NEW s \in Socket, Sane(s), NEW cmd, CtxOk(c, s, cmd), c.open, ~ s.torn,
         s.wire # << >>, NEW z, z \in IF c.idx + 1 = c.num THEN Leftovers(Rest(s)) ELSE {Rest(s)}
  PROVE  /\ z \in Socket /\ Sane(z) /\ z.node = s.node /\ z.lost = s.lost
         /\ Answered(c) \in Context /\ Answered(c).fd = c.fd /\ CtxOk(Answered(c), z, cmd)
<1> DEFINE r == Rest(s)
           x == Answered(c)
<1>1. /\ r \in Socket /\ Sane(r) /\ r.node = s.node /\ r.lost = s.lost
      /\ r.quiet = s.quiet /\ ~ r.torn /\ r.wire = Tail(s.wire)
  BY RestFacts, Zenon
<1>2. s.wire \in Seq(Commands)
  BY Zenon DEF Socket
<1>3. c.idx \in Nat /\ c.num \in Nat /\ c.idx < c.num /\ c.fd \in Fds
  BY Zenon DEF Context, CtxOk
<1>4. /\ x \in Context /\ x.fd = c.fd /\ x.num = c.num /\ x.idx = c.idx + 1
      /\ x.open <=> c.idx + 1 # c.num
  <2> DEFINE last == c.idx + 1 = c.num
  <2>1. (~ last) \in BOOLEAN /\ c.idx + 1 \in Nat
    BY <1>3
  <2>2. x = [c EXCEPT !.idx = c.idx + 1, !.open = ~ last]
    BY Zenon DEF Answered
  <2> HIDE DEF last
  <2>3. x \in Context /\ x.fd = c.fd /\ x.num = c.num /\ x.idx = c.idx + 1 /\ x.open = ~ last
    BY <2>1, <2>2, ZenonT(60) DEF Context
  <2> QED
    BY <2>3, ZenonT(60) DEF last
<1>5. x.idx <= x.num /\ (x.open => x.idx < x.num)
  BY <1>3, <1>4
<1>6. ~ s.quiet => Len(s.wire) <= c.num - c.idx /\ \A j \in DOMAIN s.wire : s.wire[j] = cmd
  BY ZenonT(60) DEF CtxOk
<1>7. /\ Len(r.wire) = Len(s.wire) - 1 /\ Len(s.wire) \in Nat /\ r.wire \in Seq(Commands)
      /\ \A j \in DOMAIN r.wire : j + 1 \in DOMAIN s.wire /\ r.wire[j] = s.wire[j + 1]
  BY <1>1, <1>2, HeadTailProperties, LenProperties, SMTT(60)
<1>8. ~ s.quiet => Len(r.wire) <= x.num - x.idx /\ \A j \in DOMAIN r.wire : r.wire[j] = cmd
  BY <1>3, <1>4, <1>6, <1>7, SMTT(60)
<1> HIDE DEF r, x
<1>9. CASE c.idx + 1 # c.num
  <2>1. z = r
    BY <1>9, Zenon DEF r
  <2>2. CtxOk(x, z, cmd)
    BY <1>1, <1>5, <1>8, <2>1, ZenonT(60) DEF CtxOk
  <2> QED
    BY <1>1, <1>4, <2>1, <2>2, Zenon DEF x
<1>10. CASE c.idx + 1 = c.num
  <2>1. z \in Leftovers(r)
    BY <1>10, Zenon DEF r
  <2>2. /\ z \in Socket /\ Sane(z) /\ z.node = r.node /\ z.lost = r.lost /\ z.quiet = r.quiet
        /\ r.wire = << >> => ~ z.torn /\ z.wire = << >>
    BY <1>1, <2>1, LeftoverFacts, ZenonT(60)
  <2>3. ASSUME ~ s.quiet PROVE ~ z.torn /\ z.wire = << >>
    <3>1. Len(s.wire) = 1
      <4>1. Len(s.wire) # 0
        BY <1>2, NotEmpty, ZenonT(60)
      <4>2. Len(s.wire) <= 1
        BY <1>3, <1>6, <1>10, <2>3, SMTT(60)
      <4> QED
        BY <1>7, <4>1, <4>2, IsOne, ZenonT(60)
    <3>2. r.wire = << >>
      BY <1>7, <3>1, EmptySeq, SMTT(60)
    <3> QED
      BY <2>2, <3>2, Zenon
  <2>4. 0 <= x.num - x.idx
    BY <1>3, <1>4, <1>10, SMTT(60)
  <2>5. z.wire = << >> => Len(z.wire) <= x.num - x.idx /\ \A j \in DOMAIN z.wire : z.wire[j] = cmd
    BY <2>4
  <2>6. CtxOk(x, z, cmd)
    BY <1>1, <1>5, <2>2, <2>3, <2>5, ZenonT(60) DEF CtxOk
  <2> QED
    BY <1>1, <1>4, <2>2, <2>6, ZenonT(60) DEF x
<1> QED
  BY <1>9, <1>10, Zenon

LEMMA AtContext ==
  ASSUME ConnectionsInv, NEW t \in Tasks, NEW i \in DOMAIN task[t].ctxs
  PROVE  /\ task[t].ctxs[i] \in Context /\ task[t].ctxs[i].fd \in Fds
         /\ sock \in [Fds -> Socket] /\ sock[task[t].ctxs[i].fd] \in Socket
         /\ Sane(sock[task[t].ctxs[i].fd])
         /\ CtxOk(task[t].ctxs[i], sock[task[t].ctxs[i].fd], task[t].cmd)
<1>1. PICK w : Settled(w)
  BY Zenon DEF ConnectionsInv
<1>2. Holds(w, sock, spare, call, put, task)
  BY <1>1, Zenon DEF Settled
<1>3. sock \in [Fds -> Socket] /\ \A f \in Fds : Sane(sock[f])
  BY <1>2, Zenon DEF Holds, Pooled
<1>4. TaskOk(t, task[t], w, sock)
  BY <1>2, ZenonT(60) DEF Holds
<1>5. task[t].ctxs[i] \in Context
  BY TaskTypes, ElementOfSeq
<1>6. task[t].ctxs[i].fd \in Fds
  BY <1>5, Zenon DEF Context
<1>7. sock[task[t].ctxs[i].fd] \in Socket
  BY <1>3, <1>6, Zenon
<1> QED
  BY <1>3, <1>4, <1>5, <1>6, <1>7, ZenonT(60) DEF TaskOk

LEMMA ReceiveStep ==
  ASSUME ConnectionsInv, NEW t \in Tasks, NEW i \in DOMAIN task[t].ctxs, Receive(t, i)
  PROVE  ConnectionsInv'
<1> DEFINE c == task[t].ctxs[i]
           g == c.fd
           s == sock[g]
<1>1. task[t].st # "none" /\ c.open /\ ~ s.torn /\ s.wire # << >> /\ spare' = spare /\ call' = call
  BY Zenon DEF Receive, Looping
<1>2. PICK z \in IF c.idx + 1 = c.num THEN Leftovers(Rest(s)) ELSE {Rest(s)} :
        UpdateContext(t, i, Answered(c), [sock EXCEPT ![g] = z])
  BY Zenon DEF Receive, Rest, Answered
<1>3. /\ c \in Context /\ g \in Fds /\ sock \in [Fds -> Socket] /\ s \in Socket /\ Sane(s)
      /\ CtxOk(c, s, task[t].cmd)
  BY AtContext, ZenonT(60)
<1>4. g = task[t].ctxs[i].fd /\ s = sock[g]
  BY Zenon
<1> HIDE DEF c, g, s
<1>5. /\ z \in Socket /\ Sane(z) /\ z.node = s.node /\ z.lost = s.lost
      /\ Answered(c) \in Context /\ Answered(c).fd = c.fd /\ CtxOk(Answered(c), z, task[t].cmd)
  BY <1>1, <1>2, <1>3, AnsweredCtx, ZenonT(60)
<1>6. z.node = sock[g].node /\ z.lost = sock[g].lost /\ Answered(c).fd = g
  BY <1>4, <1>5, ZenonT(60) DEF g
<1> QED
  BY <1>1, <1>2, <1>4, <1>5, <1>6, UpdateContextStep, ZenonT(60)

LEMMA DropStep ==
  ASSUME ConnectionsInv, NEW t \in Tasks, NEW i \in DOMAIN task[t].ctxs, Drop(t, i)
  PROVE  ConnectionsInv'
<1> DEFINE c == task[t].ctxs[i]
           g == c.fd
           s == sock[g]
           x == [c EXCEPT !.open = FALSE]
<1>1. task[t].st # "none" /\ UpdateContext(t, i, x, sock) /\ spare' = spare /\ call' = call
  BY Zenon DEF Drop, Looping
<1>2. /\ c \in Context /\ g \in Fds /\ sock \in [Fds -> Socket] /\ s \in Socket /\ Sane(s)
      /\ CtxOk(c, s, task[t].cmd)
  BY AtContext, ZenonT(60)
<1>3. g = task[t].ctxs[i].fd /\ s = sock[g]
  BY Zenon
<1>4. sock = [sock EXCEPT ![g] = s]
  BY <1>2, Zenon
<1> HIDE DEF s
<1>5. x \in Context /\ x.fd = g /\ x.idx = c.idx /\ x.num = c.num /\ ~ x.open
  BY <1>2, Zenon DEF Context
<1> HIDE DEF g, x, c
<1>6. CtxOk(x, s, task[t].cmd)
  BY <1>2, <1>5, ZenonT(60) DEF CtxOk
<1>7. s.node = sock[g].node /\ s.lost = sock[g].lost
  BY <1>3, Zenon
<1>8. UpdateContext(t, i, x, [sock EXCEPT ![g] = s])
  BY <1>1, <1>4, Zenon
<1> QED
  BY <1>1, <1>2, <1>3, <1>5, <1>6, <1>7, <1>8, UpdateContextStep, ZenonT(60)

-----------------------------------------------------------------------------
(* The invariant at the start, and what it says of the connections *)

LEMMA InitHolds == ClientInit => ConnectionsInv
<1> SUFFICES ASSUME ClientInit PROVE ConnectionsInv
  BY Zenon
<1> DEFINE w == [f \in Fds |-> Nowhere]
<1>1. /\ sock = [f \in Fds |-> Closed] /\ spare = [n \in Nodes |-> << >>] /\ call = NoCall
      /\ task = [t \in Tasks |-> NoTask] /\ put = [a \in Actors |-> NoPut]
  BY Zenon DEF ClientInit, ConnectionsInit
<1>2. << >> \in Seq(Fds) /\ << >> \in Seq(Commands) /\ << >> \in Seq(Nodes) /\ << >> \in Seq(Bucket)
      /\ << >> \in Seq(Context) /\ << >> \in Seq(SpentRecord)
  BY EmptySeq, Zenon
<1>3. Closed \in Socket /\ Sane(Closed) /\ Closed.node = NoNode
  BY <1>2, Zenon DEF Closed, Socket, Sane
<1>4. \A f \in Fds : w[f] = Nowhere
  BY Zenon
<1>5. w \in [Fds -> Places]
  BY PlacesFacts, Zenon
<1> HIDE DEF w
<1>6. FdsOf(<< >>) = << >>
  BY DEF FdsOf
<1>7. \A p : p # Nowhere => Lists(<< >>, w, p)
  BY <1>4, ListsEmpty, Zenon
<1>8. Pooled(w, sock, spare)
  <2>1. sock \in [Fds -> Socket] /\ \A f \in Fds : sock[f] = Closed
    BY <1>1, <1>3, Zenon
  <2>2. spare \in [Nodes -> Seq(Fds)] /\ \A n \in Nodes : spare[n] = << >>
    BY <1>1, <1>2, Zenon
  <2>3. \A n \in Nodes : Lists(spare[n], w, AtSpare(n))
    BY <1>7, <2>2, PlacesDiffer, ZenonT(60)
  <2>4. \A n \in Nodes : DOMAIN spare[n] = {}
    BY <2>2
  <2> QED
    BY <1>3, <1>4, <1>5, <2>1, <2>2, <2>3, <2>4, ZenonT(60) DEF Pooled
<1>9. CallOk(call, w, sock)
  <2>1. call \in CallRecord /\ call.fd = NoFd /\ call.pc = "idle"
    BY <1>1, <1>2, ZenonT(60) DEF NoCall, CallRecord
  <2>2. \A f \in Fds : w[f] # InCall /\ call.fd # f
    BY <1>4, <2>1, FdFacts, PlacesDiffer, ZenonT(60)
  <2>3. call.pc # "read" /\ call.pc \in {"idle", "next"}
    BY <2>1, Zenon
  <2> QED
    BY <2>1, <2>2, <2>3, Zenon DEF CallOk
<1>10. put \in [Actors -> PutRecord] /\ \A a \in Actors : PutOk(a, put[a], w, sock)
  <2>1. NoPut \in PutRecord /\ NoPut.queue = << >> /\ NoPut.push = NoFd
    BY <1>2, Zenon DEF NoPut, PutRecord
  <2>2. put \in [Actors -> PutRecord] /\ \A a \in Actors : put[a] = NoPut
    BY <1>1, <2>1, Zenon
  <2>3. DOMAIN NoPut.queue = {}
    BY <2>1
  <2>4. ASSUME NEW a \in Actors PROVE PutOk(a, NoPut, w, sock)
    <3>1. Lists(FdsOf(NoPut.queue), w, AtQueue(a))
      <4>1. FdsOf(NoPut.queue) = << >>
        BY <1>6, <2>1, Zenon
      <4>2. AtQueue(a) # Nowhere
        BY PlacesDiffer, Zenon
      <4> QED
        BY <1>7, <4>1, <4>2, Zenon
    <3>2. \A f \in Fds : w[f] # AtPush(a) /\ NoPut.push # f
      BY <1>4, <2>1, FdFacts, PlacesDiffer, ZenonT(60)
    <3> QED
      BY <2>1, <2>3, <3>1, <3>2, ZenonT(60) DEF PutOk
  <2> QED
    BY <2>2, <2>4, Zenon
<1>11. task \in [Tasks -> TaskRecord] /\ \A t \in Tasks : TaskOk(t, task[t], w, sock)
  <2>1. NoTask \in TaskRecord /\ NoTask.ctxs = << >> /\ NoTask.st = "none"
    BY <1>2, Zenon DEF NoTask, Requests, TaskRecord
  <2>2. task \in [Tasks -> TaskRecord] /\ \A t \in Tasks : task[t] = NoTask
    BY <1>1, <2>1, Zenon
  <2>3. DOMAIN NoTask.ctxs = {}
    BY <2>1
  <2>4. ASSUME NEW t \in Tasks PROVE TaskOk(t, NoTask, w, sock)
    <3>1. Lists(FdsOf(NoTask.ctxs), w, AtTask(t))
      <4>1. FdsOf(NoTask.ctxs) = << >>
        BY <1>6, <2>1, Zenon
      <4>2. AtTask(t) # Nowhere
        BY PlacesDiffer, ZenonT(60)
      <4> QED
        BY <1>7, <4>1, <4>2, Zenon
    <3> QED
      BY <2>1, <2>3, <3>1, ZenonT(60) DEF TaskOk
  <2> QED
    BY <2>2, <2>4, Zenon
<1>12. Bounded(spare, put, sock)
  <2>1. \A n \in Nodes : Len(spare[n]) = 0
    BY <1>1, Zenon
  <2>2. put["main"].push = NoFd /\ put["async"].push = NoFd
    BY <1>1, Zenon DEF Actors, NoPut
  <2>3. \A n \in Nodes : Adds(put["main"].push, n, sock) = 0 /\ Adds(put["async"].push, n, sock) = 0
    BY <2>2, Zenon DEF Adds
  <2> QED
    BY <2>1, <2>3, FdFacts DEF Bounded
<1>13. EmptyHanded(w)
  BY <1>4, PlacesDiffer, ZenonT(60) DEF EmptyHanded
<1> QED
  BY <1>8, <1>9, <1>10, <1>11, <1>12, <1>13, ZenonT(60) DEF ConnectionsInv, Settled, Holds

(* Where a holder is, and what it holds. *)
Holding(h, f, x) ==
  \/ \E n \in Nodes : \E i \in DOMAIN spare[n] : spare[n][i] = f /\ h = <<"spare", n, i>> /\ x = AtSpare(n)
  \/ \E a \in Actors : \E i \in DOMAIN put[a].queue :
        put[a].queue[i].fd = f /\ h = <<"put", a, i>> /\ x = AtQueue(a)
  \/ \E a \in Actors : put[a].push = f /\ h = <<"push", a, 1>> /\ x = AtPush(a)
  \/ \E t \in Tasks : \E i \in DOMAIN task[t].ctxs :
        task[t].ctxs[i].fd = f /\ h = <<"task", t, i>> /\ x = AtTask(t)
  \/ call.fd = f /\ h = <<"call", "main", 1>> /\ x = InCall

LEMMA HoldersHold ==
  ASSUME NEW f
  PROVE  \A h : h \in Holders(f) <=> \E x : Holding(h, f, x)
<1> DEFINE A == UNION {{<<"spare", n, i>> : i \in {j \in DOMAIN spare[n] : spare[n][j] = f}} : n \in Nodes}
           B == UNION {{<<"put", a, i>> : i \in {j \in DOMAIN put[a].queue : put[a].queue[j].fd = f}} : a \in Actors}
           C == {<<"push", a, 1>> : a \in {b \in Actors : put[b].push = f}}
           D == UNION {{<<"task", t, i>> : i \in {j \in DOMAIN task[t].ctxs : task[t].ctxs[j].fd = f}} : t \in Tasks}
           E == IF call.fd = f THEN {<<"call", "main", 1>>} ELSE {}
<1>1. Holders(f) = A \cup B \cup C \cup D \cup E
  BY Zenon DEF Holders
<1>2. \A h : h \in A <=> \E n \in Nodes : \E i \in DOMAIN spare[n] : spare[n][i] = f /\ h = <<"spare", n, i>>
  OBVIOUS
<1>3. \A h : h \in B <=> \E a \in Actors : \E i \in DOMAIN put[a].queue : put[a].queue[i].fd = f /\ h = <<"put", a, i>>
  OBVIOUS
<1>4. \A h : h \in C <=> \E a \in Actors : put[a].push = f /\ h = <<"push", a, 1>>
  BY Zenon
<1>5. \A h : h \in D <=> \E t \in Tasks : \E i \in DOMAIN task[t].ctxs : task[t].ctxs[i].fd = f /\ h = <<"task", t, i>>
  OBVIOUS
<1>6. \A h : h \in E <=> call.fd = f /\ h = <<"call", "main", 1>>
  BY Zenon
<1> HIDE DEF A, B, C, D, E
<1>7. \A h : h \in Holders(f) <=> h \in A \/ h \in B \/ h \in C \/ h \in D \/ h \in E
  BY <1>1, Zenon
<1> QED
  BY <1>2, <1>3, <1>4, <1>5, <1>6, <1>7 DEF Holding

LEMMA FdsAt ==
  ASSUME NEW s, NEW w, NEW x, NEW f \in Fds, Lists(FdsOf(s), w, x)
  PROVE  /\ w[f] = x <=> \E i \in DOMAIN s : s[i].fd = f
         /\ \A i, j \in DOMAIN s : s[i].fd = f /\ s[j].fd = f => i = j
<1>1. DOMAIN FdsOf(s) = DOMAIN s /\ \A i \in DOMAIN s : FdsOf(s)[i] = s[i].fd
  BY Zenon DEF FdsOf
<1>2. \A i, j \in DOMAIN s : FdsOf(s)[i] = FdsOf(s)[j] => i = j
  BY <1>1, Zenon DEF Lists
<1>3. w[f] = x <=> \E i \in DOMAIN s : FdsOf(s)[i] = f
  BY <1>1, ZenonT(60) DEF Lists
<1>4. \A i, j \in DOMAIN s : s[i].fd = f /\ s[j].fd = f => i = j
  BY <1>1, <1>2, Zenon
<1>5. w[f] = x <=> \E i \in DOMAIN s : s[i].fd = f
  BY <1>1, <1>3, Zenon
<1> QED
  BY <1>4, <1>5, Zenon

LEMMA FdAt ==
  ASSUME NEW s, NEW w, NEW x, Lists(FdsOf(s), w, x), NEW i \in DOMAIN s, s[i].fd \in Fds
  PROVE  w[s[i].fd] = x
<1>1. i \in DOMAIN FdsOf(s) /\ FdsOf(s)[i] = s[i].fd
  BY Zenon DEF FdsOf
<1> QED
  BY <1>1, Zenon DEF Lists

LEMMA HoldingIsThere ==
  ASSUME NEW w, Settled(w), NEW f \in Fds, NEW h, NEW x, Holding(h, f, x)
  PROVE  w[f] = x
<1>1. Holds(w, sock, spare, call, put, task)
  BY Zenon DEF Settled
<1>2. \A n \in Nodes : \A i \in DOMAIN spare[n] : spare[n][i] = f => w[f] = AtSpare(n)
  BY <1>1, ZenonT(60) DEF Holds, Pooled, Lists
<1>3. ASSUME NEW a \in Actors PROVE \A i \in DOMAIN put[a].queue : put[a].queue[i].fd = f => w[f] = AtQueue(a)
  <2> DEFINE s == put[a].queue
  <2>1. Lists(FdsOf(s), w, AtQueue(a))
    BY <1>1, ZenonT(60) DEF Holds, PutOk
  <2> HIDE DEF s
  <2>2. \A i \in DOMAIN s : s[i].fd = f => w[f] = AtQueue(a)
    BY <2>1, FdAt, Zenon
  <2> QED
    BY <2>2, Zenon DEF s
<1>4. \A a \in Actors : put[a].push = f => w[f] = AtPush(a)
  BY <1>1, ZenonT(60) DEF Holds, PutOk
<1>5. ASSUME NEW t \in Tasks PROVE \A i \in DOMAIN task[t].ctxs : task[t].ctxs[i].fd = f => w[f] = AtTask(t)
  <2> DEFINE s == task[t].ctxs
  <2>1. Lists(FdsOf(s), w, AtTask(t))
    BY <1>1, ZenonT(60) DEF Holds, TaskOk
  <2> HIDE DEF s
  <2>2. \A i \in DOMAIN s : s[i].fd = f => w[f] = AtTask(t)
    BY <2>1, FdAt, Zenon
  <2> QED
    BY <2>2, Zenon DEF s
<1>6. call.fd = f => w[f] = InCall
  BY <1>1, ZenonT(60) DEF Holds, CallOk
<1>7. \A a \in Actors : \A i \in DOMAIN put[a].queue : put[a].queue[i].fd = f => w[f] = AtQueue(a)
  BY <1>3, Zenon
<1>8. \A t \in Tasks : \A i \in DOMAIN task[t].ctxs : task[t].ctxs[i].fd = f => w[f] = AtTask(t)
  BY <1>5, Zenon
<1> QED
  BY <1>2, <1>4, <1>6, <1>7, <1>8 DEF Holding

LEMMA ThereIsHolding ==
  ASSUME NEW w, Settled(w), NEW f \in Fds, w[f] # Nowhere
  PROVE  \E h : Holding(h, f, w[f]) /\ \A g : Holding(g, f, w[f]) => g = h
<1>1. Holds(w, sock, spare, call, put, task) /\ EmptyHanded(w)
  BY ZenonT(60) DEF Settled
<1>2. w[f] \in Places
  BY <1>1, Zenon DEF Holds, Pooled
<1>3. CASE \E n \in Nodes : w[f] = AtSpare(n)
  <2>1. PICK n \in Nodes : w[f] = AtSpare(n)
    BY <1>3, Zenon
  <2>2. PICK i \in DOMAIN spare[n] : spare[n][i] = f /\ \A j \in DOMAIN spare[n] : spare[n][j] = f => j = i
    <3>1. Lists(spare[n], w, AtSpare(n))
      BY <1>1, Zenon DEF Holds, Pooled
    <3>2. PICK i \in DOMAIN spare[n] : spare[n][i] = f
      BY <2>1, <3>1, ZenonT(60) DEF Lists
    <3>3. \A j \in DOMAIN spare[n] : spare[n][j] = f => j = i
      BY <3>1, <3>2, ZenonT(60) DEF Lists
    <3> QED
      BY <3>2, <3>3, ZenonT(60)
  <2>3. Holding(<<"spare", n, i>>, f, w[f])
    BY <2>1, <2>2, ZenonT(60) DEF Holding
  <2>4. ASSUME NEW g, Holding(g, f, w[f]) PROVE g = <<"spare", n, i>>
    BY <2>1, <2>2, <2>4, PlacesDiffer, ZenonT(60) DEF Holding
  <2> QED
    BY <2>3, <2>4, ZenonT(60)
<1>4. CASE \E a \in Actors : w[f] = AtQueue(a)
  <2>1. PICK a \in Actors : w[f] = AtQueue(a)
    BY <1>4, Zenon
  <2>2. Lists(FdsOf(put[a].queue), w, AtQueue(a))
    BY <1>1, ZenonT(60) DEF Holds, PutOk
  <2>3. PICK i \in DOMAIN put[a].queue :
          put[a].queue[i].fd = f /\ \A j \in DOMAIN put[a].queue : put[a].queue[j].fd = f => j = i
    <3> DEFINE s == put[a].queue
    <3>1. Lists(FdsOf(s), w, AtQueue(a))
      BY <2>2, ZenonT(60)
    <3> HIDE DEF s
    <3>2. /\ \E i \in DOMAIN s : s[i].fd = f
          /\ \A i, j \in DOMAIN s : s[i].fd = f /\ s[j].fd = f => i = j
      BY <2>1, <3>1, FdsAt, SMTT(60)
    <3> QED
      BY <3>2, Zenon DEF s
  <2>4. Holding(<<"put", a, i>>, f, w[f])
    BY <2>1, <2>3, ZenonT(60) DEF Holding
  <2>5. ASSUME NEW g, Holding(g, f, w[f]) PROVE g = <<"put", a, i>>
    BY <2>1, <2>3, <2>5, PlacesDiffer, ZenonT(60) DEF Holding
  <2> QED
    BY <2>4, <2>5, ZenonT(60)
<1>5. CASE \E a \in Actors : w[f] = AtPush(a)
  <2>1. PICK a \in Actors : w[f] = AtPush(a)
    BY <1>5, Zenon
  <2>2. put[a].push = f
    BY <1>1, <2>1, ZenonT(60) DEF Holds, PutOk
  <2>3. Holding(<<"push", a, 1>>, f, w[f])
    BY <2>1, <2>2, Zenon DEF Holding
  <2>4. ASSUME NEW g, Holding(g, f, w[f]) PROVE g = <<"push", a, 1>>
    BY <2>1, <2>4, PlacesDiffer, ZenonT(60) DEF Holding
  <2> QED
    BY <2>3, <2>4, ZenonT(60)
<1>6. CASE \E t \in Tasks : w[f] = AtTask(t)
  <2>1. PICK t \in Tasks : w[f] = AtTask(t)
    BY <1>6, Zenon
  <2>2. Lists(FdsOf(task[t].ctxs), w, AtTask(t))
    BY <1>1, ZenonT(60) DEF Holds, TaskOk
  <2>3. PICK i \in DOMAIN task[t].ctxs :
          task[t].ctxs[i].fd = f /\ \A j \in DOMAIN task[t].ctxs : task[t].ctxs[j].fd = f => j = i
    <3> DEFINE s == task[t].ctxs
    <3>1. Lists(FdsOf(s), w, AtTask(t))
      BY <2>2, ZenonT(60)
    <3> HIDE DEF s
    <3>2. /\ \E i \in DOMAIN s : s[i].fd = f
          /\ \A i, j \in DOMAIN s : s[i].fd = f /\ s[j].fd = f => i = j
      BY <2>1, <3>1, FdsAt
    <3> QED
      BY <3>2, Zenon DEF s
  <2>4. Holding(<<"task", t, i>>, f, w[f])
    BY <2>1, <2>3, Zenon DEF Holding
  <2>5. ASSUME NEW g, Holding(g, f, w[f]) PROVE g = <<"task", t, i>>
    BY <2>1, <2>3, <2>5, PlacesDiffer, ZenonT(60) DEF Holding
  <2> QED
    BY <2>4, <2>5, ZenonT(60)
<1>7. CASE w[f] = InCall
  <2>1. call.fd = f
    BY <1>1, <1>7, Zenon DEF Holds, CallOk
  <2>2. Holding(<<"call", "main", 1>>, f, w[f])
    BY <1>7, <2>1, Zenon DEF Holding
  <2>3. ASSUME NEW g, Holding(g, f, w[f]) PROVE g = <<"call", "main", 1>>
    BY <1>7, <2>3, PlacesDiffer, ZenonT(60) DEF Holding
  <2> QED
    BY <2>2, <2>3, Zenon
<1>8. w[f] # InHand
  BY <1>1, Zenon DEF EmptyHanded
<1> QED
  BY <1>2, <1>3, <1>4, <1>5, <1>6, <1>7, <1>8, ZenonT(60) DEF Places

LEMMA HeldOnce == ConnectionsInv => OneHolder
<1> SUFFICES ASSUME ConnectionsInv, NEW f \in Fds
             PROVE  IF IsOpen(f) /\ ~ sock[f].lost THEN \E h \in Holders(f) : Holders(f) = {h}
                    ELSE Holders(f) = {}
  BY Zenon DEF OneHolder
<1>1. PICK w : Settled(w)
  BY Zenon DEF ConnectionsInv
<1>2. w[f] = Nowhere <=> ~ (IsOpen(f) /\ ~ sock[f].lost)
  BY <1>1, Zenon DEF Settled, Holds, Pooled, IsOpen
<1>3. ASSUME w[f] = Nowhere, NEW h \in Holders(f) PROVE FALSE
  <2>1. PICK x : Holding(h, f, x)
    BY <1>3, HoldersHold, Zenon
  <2>2. x = Nowhere
    BY <1>1, <1>3, <2>1, HoldingIsThere, ZenonT(60)
  <2> QED
    BY <2>1, <2>2, PlacesDiffer, ZenonT(60) DEF Holding
<1>4. ASSUME w[f] # Nowhere PROVE \E h \in Holders(f) : Holders(f) = {h}
  <2>1. PICK h : Holding(h, f, w[f]) /\ \A g : Holding(g, f, w[f]) => g = h
    BY <1>1, <1>4, ThereIsHolding, Zenon
  <2>2. h \in Holders(f)
    BY <2>1, HoldersHold, ZenonT(60)
  <2>3. ASSUME NEW g \in Holders(f) PROVE g = h
    <3>1. PICK x : Holding(g, f, x)
      BY <2>3, HoldersHold, Zenon
    <3>2. Holding(g, f, w[f])
      BY <1>1, <3>1, HoldingIsThere, ZenonT(60)
    <3> QED
      BY <2>1, <3>2, Zenon
  <2> QED
    BY <2>2, <2>3, Zenon
<1> QED
  BY <1>2, <1>3, <1>4, Zenon

LEMMA AnswersAreOwn == ConnectionsInv => OwnAnswer
<1> SUFFICES ASSUME ConnectionsInv, NEW f \in Fds, IsOpen(f), ~ sock[f].quiet, ~ Discarded(f)
             PROVE  ~ sock[f].torn /\ Awaits(f, sock[f].wire)
  BY Zenon DEF OwnAnswer
<1>1. PICK w : Settled(w)
  BY Zenon DEF ConnectionsInv
<1>2. Holds(w, sock, spare, call, put, task) /\ EmptyHanded(w)
  BY <1>1, Zenon DEF Settled
<1>3. w[f] # Nowhere
  BY <1>2, Zenon DEF Holds, Pooled, Sane, IsOpen
<1>4. Clean(sock[f]) => ~ sock[f].torn /\ Awaits(f, sock[f].wire)
  BY ZenonT(60) DEF Clean, Awaits
<1>5. PICK h : Holding(h, f, w[f])
  BY <1>1, <1>3, ThereIsHolding, Zenon
<1>6. ASSUME NEW n \in Nodes, NEW i \in DOMAIN spare[n], spare[n][i] = f PROVE Clean(sock[f])
  BY <1>2, <1>6, Zenon DEF Holds, Pooled
<1>7. ASSUME NEW a \in Actors, NEW i \in DOMAIN put[a].queue, put[a].queue[i].fd = f PROVE Clean(sock[f])
  <2>1. PutOk(a, put[a], w, sock)
    BY <1>2, Zenon DEF Holds
  <2>2. put[a].queue[i].keep => Clean(sock[f])
    BY <1>7, <2>1, ZenonT(60) DEF PutOk
  <2>3. put[a].queue[i] \in SpentRecord
    <3>1. put[a].queue \in Seq(SpentRecord)
      BY <2>1, Zenon DEF PutOk, PutRecord
    <3> QED
      BY <3>1, ElementOfSeq, SMTT(60)
  <2>4. ~ put[a].queue[i].keep => put[a].queue[i] = Spent(f, FALSE)
    BY <1>7, <2>3, Zenon DEF SpentRecord, Spent
  <2>5. put[a].queue[i] # Spent(f, FALSE)
    BY Zenon DEF Discarded
  <2> QED
    BY <2>2, <2>4, <2>5, ZenonT(60)
<1>8. ASSUME NEW a \in Actors, put[a].push = f PROVE Clean(sock[f])
  <2>1. f # NoFd
    BY FdFacts, Zenon
  <2> QED
    BY <1>2, <1>8, <2>1, ZenonT(60) DEF Holds, PutOk
<1>9. ASSUME NEW t \in Tasks, NEW i \in DOMAIN task[t].ctxs, task[t].ctxs[i].fd = f
      PROVE  ~ sock[f].torn /\ Awaits(f, sock[f].wire)
  <2>1. CtxOk(task[t].ctxs[i], sock[f], task[t].cmd)
    BY <1>2, <1>9, ZenonT(60) DEF Holds, TaskOk
  <2> QED
    BY <1>9, <2>1, Zenon DEF CtxOk, Awaits
<1>10. ASSUME call.fd = f PROVE ~ sock[f].torn /\ Awaits(f, sock[f].wire)
  <2>1. ~ sock[f].torn /\ sock[f].wire = IF call.pc = "read" THEN <<call.cmd>> ELSE << >>
    BY <1>2, <1>10, FdFacts, ZenonT(60) DEF Holds, CallOk
  <2> QED
    BY <1>10, <2>1, ZenonT(60) DEF Awaits
<1> QED
  BY <1>4, <1>5, <1>6, <1>7, <1>8, <1>9, <1>10, ZenonT(60) DEF Holding

LEMMA PoolIsBounded == ConnectionsInv => SpareBound
<1> SUFFICES ASSUME ConnectionsInv, NEW n \in Nodes PROVE Len(spare[n]) <= MaxSpare + 1
  BY Zenon DEF SpareBound
<1>1. PICK w : Settled(w)
  BY Zenon DEF ConnectionsInv
<1>2. Holds(w, sock, spare, call, put, task)
  BY <1>1, Zenon DEF Settled
<1>3. Bounded(spare, put, sock) /\ spare \in [Nodes -> Seq(Fds)]
  BY <1>2, ZenonT(60) DEF Holds, Pooled
<1>4. Len(spare[n]) \in Nat
  BY <1>3, LenProperties, Zenon
<1>5. \A f : Adds(f, n, sock) \in {0, 1}
  BY Zenon DEF Adds
<1>6. Len(spare[n]) + Adds(put["main"].push, n, sock) + Adds(put["async"].push, n, sock) <= MaxSpare + 1
  BY <1>3, Zenon DEF Bounded
<1> QED
  BY <1>4, <1>5, <1>6, FdFacts, SMTT(60)

-----------------------------------------------------------------------------
(* The buckets of a call, by induction over its keys *)

LOCAL INSTANCE WellFoundedInduction

LEMMA LeastOf ==
  ASSUME NEW T, T \subseteq Nat, T # {}
  PROVE  \E x \in T : \A y \in T : x <= y
<1> DEFINE R == OpToRel(<, Nat)
<1>1. IsWellFoundedOn(R, Nat)
  BY NatLessThanWellFounded, ZenonT(60)
<1>2. \A x, y \in Nat : y < x => <<y, x>> \in R
  BY Zenon DEF OpToRel
<1> HIDE DEF R
<1>3. PICK x \in T : \A y \in T : ~ (<<y, x>> \in R)
  BY <1>1, WFMin, ZenonT(60)
<1>4. ASSUME NEW y \in T PROVE x <= y
  <2>1. x \in Nat /\ y \in Nat
    BY Zenon
  <2>2. ~ (y < x)
    BY <1>2, <1>3, <2>1, ZenonT(60)
  <2> QED
    BY <2>1, <2>2
<1> QED
  BY <1>4, Zenon

LEMMA AddKeyType ==
  ASSUME NEW p \in Seq(Bucket), NEW n \in Nodes
  PROVE  AddKey(p, n) \in Seq(Bucket)
<1> DEFINE IsFirst(i) == p[i].node = n /\ \A j \in 1 .. i - 1 : p[j].node # n
           more == [i \in DOMAIN p |-> IF IsFirst(i) THEN [p[i] EXCEPT !.num = @ + 1] ELSE p[i]]
           new == <<[node |-> n, num |-> 1]>> \o p
<1>1. AddKey(p, n) = more \/ AddKey(p, n) = new
  BY Zenon DEF AddKey
<1>2. more \in Seq(Bucket)
  <2>1. ASSUME NEW i \in DOMAIN p PROVE p[i] \in Bucket /\ [p[i] EXCEPT !.num = @ + 1] \in Bucket
    <3>1. p[i] \in Bucket
      BY ElementOfSeq
    <3> QED
      BY <3>1 DEF Bucket
  <2> HIDE DEF IsFirst
  <2>2. more \in [1 .. Len(p) -> Bucket] /\ Len(p) \in Nat
    BY <2>1, LenProperties, ZenonT(60)
  <2> HIDE DEF more
  <2> QED
    BY <2>2, IsASeq
<1>3. new \in Seq(Bucket)
  <2>1. <<[node |-> n, num |-> 1]>> \in Seq(Bucket)
    <3>1. [node |-> n, num |-> 1] \in Bucket
      BY DEF Bucket
    <3> QED
      BY <3>1
  <2> QED
    BY <2>1, ConcatProperties, ZenonT(60)
<1> QED
  BY <1>1, <1>2, <1>3, ZenonT(60)

(* The steps F of a fold over 1 .. N, and the table of its results. *)
FoldSteps(F, N, X) == \A k \in 1 .. N : F[k] \in [X -> X]
FoldTable(F, N, X, x0) == \E g \in [0 .. N -> X] : g[0] = x0 /\ \A k \in 1 .. N : g[k] = F[k][g[k - 1]]

LEMMA FoldExists ==
  ASSUME NEW X, NEW x0 \in X, NEW N \in Nat, NEW F, FoldSteps(F, N, X)
  PROVE  FoldTable(F, N, X, x0)
<1> USE DEF FoldSteps, FoldTable
<1> DEFINE G(n) == \E g \in [0 .. n -> X] : g[0] = x0 /\ \A k \in 1 .. n : g[k] = F[k][g[k - 1]]
           T == {n \in 0 .. N : ~ G(n)}
<1>1. SUFFICES ASSUME T # {} PROVE FALSE
  OBVIOUS
<1>2. T \subseteq Nat /\ \A n : n \in T <=> n \in 0 .. N /\ ~ G(n)
  OBVIOUS
<1> HIDE DEF T
<1>3. PICK n \in T : \A m \in T : n <= m
  BY <1>1, <1>2, LeastOf, ZenonT(60)
<1>4. n \in 0 .. N /\ ~ G(n)
  BY <1>2, <1>3, ZenonT(60)
<1>5. G(0)
  <2> DEFINE g == [k \in 0 .. 0 |-> x0]
  <2>1. g \in [0 .. 0 -> X] /\ g[0] = x0
    OBVIOUS
  <2>2. \A k \in 1 .. 0 : g[k] = F[k][g[k - 1]]
    OBVIOUS
  <2> QED
    BY <2>1, <2>2, ZenonT(60)
<1>6. n # 0
  BY <1>4, <1>5, ZenonT(60)
<1> HIDE DEF G
<1>7. n - 1 \in 0 .. N /\ n - 1 \notin T
  BY <1>3, <1>4, <1>6
<1>8. G(n - 1)
  BY <1>2, <1>7, ZenonT(60)
<1>9. PICK g \in [0 .. n - 1 -> X] : g[0] = x0 /\ \A k \in 1 .. n - 1 : g[k] = F[k][g[k - 1]]
  BY <1>8, ZenonT(60) DEF G
<1> DEFINE h == [k \in 0 .. n |-> IF k = n THEN F[n][g[n - 1]] ELSE g[k]]
<1>10. h \in [0 .. n -> X]
  <2>1. n \in 1 .. N /\ n - 1 \in 0 .. n - 1
    BY <1>4, <1>6
  <2>2. F[n][g[n - 1]] \in X
    BY <1>9, <2>1, ZenonT(60)
  <2>3. \A k \in 0 .. n : k # n => k \in 0 .. n - 1
    BY <1>4
  <2> QED
    BY <1>9, <2>2, <2>3, ZenonT(60)
<1>11. h[0] = x0
  BY <1>4, <1>6, <1>9, SMTT(60)
<1>12. ASSUME NEW k \in 1 .. n PROVE h[k] = F[k][h[k - 1]]
  <2>1. CASE k = n
    BY <1>4, <1>6, <2>1, SMTT(60)
  <2>2. CASE k # n
    <3>1. k \in 1 .. n - 1 /\ k \in 0 .. n /\ k - 1 \in 0 .. n /\ k - 1 # n
      BY <1>4, <2>2
    <3> QED
      BY <1>9, <2>2, <3>1, ZenonT(60)
  <2> QED
    BY <2>1, <2>2, ZenonT(60)
<1>13. G(n)
  <2> HIDE DEF h
  <2> QED
    BY <1>10, <1>11, <1>12, ZenonT(60) DEF G
<1> QED
  BY <1>4, <1>13, ZenonT(60)

LEMMA SplitType ==
  ASSUME NEW o \in Seq(Nodes)
  PROVE  shc_split_buckets(o) \in Seq(Bucket)
<1> DEFINE N == Len(o)
           X == Seq(Bucket)
           F == [k \in 1 .. N |-> [p \in X |-> AddKey(p, o[k])]]
           Step(q) == [k \in 0 .. Len(o) |-> IF k = 0 THEN << >> ELSE AddKey(q[k - 1], o[k])]
<1>1. N \in Nat /\ \A k \in 1 .. N : o[k] \in Nodes
  BY LenProperties, ElementOfSeq, Zenon
<1>2. << >> \in X
  BY EmptySeq, Zenon
<1>3. \A k \in 1 .. N : F[k] \in [X -> X] /\ \A p \in X : F[k][p] = AddKey(p, o[k])
  BY <1>1, AddKeyType, ZenonT(60)
<1> HIDE DEF F, X, N
<1>4. PICK g \in [0 .. N -> X] : g[0] = << >> /\ \A k \in 1 .. N : g[k] = F[k][g[k - 1]]
  <2>1. FoldSteps(F, N, X)
    BY <1>3, Zenon DEF FoldSteps
  <2> DEFINE e == << >>
  <2>2. e \in X
    BY <1>2, Zenon
  <2> HIDE DEF e
  <2>3. FoldTable(F, N, X, e)
    BY <1>1, <2>1, <2>2, FoldExists, ZenonT(60)
  <2> QED
    BY <2>3, Zenon DEF FoldTable, e
<1>5. g = Step(g)
  <2>1. ASSUME NEW k \in 0 .. N, k # 0 PROVE g[k] = AddKey(g[k - 1], o[k])
    <3>1. k \in 1 .. N /\ k - 1 \in 0 .. N
      BY <1>1, <2>1
    <3>2. g[k - 1] \in X
      BY <1>4, <3>1, Zenon
    <3> QED
      BY <1>3, <1>4, <3>1, <3>2, ZenonT(60)
  <2> QED
    BY <1>4, <2>1, Zenon DEF N
<1> DEFINE q == CHOOSE q : q = Step(q)
<1>6. q = Step(q)
  BY <1>5, ZenonT(60)
<1>7. shc_split_buckets(o) = q[Len(o)]
  BY Zenon DEF shc_split_buckets
<1> HIDE DEF q
<1> DEFINE T == {k \in 0 .. N : q[k] \notin X}
<1>8. T = {}
  <2> SUFFICES ASSUME T # {} PROVE FALSE
    BY Zenon
  <2>1. T \subseteq Nat /\ \A k : k \in T <=> k \in 0 .. N /\ q[k] \notin X
    OBVIOUS
  <2> HIDE DEF T
  <2>2. PICK n \in T : \A m \in T : n <= m
    BY <2>1, LeastOf, ZenonT(60)
  <2>3. n \in 0 .. N /\ q[n] \notin X
    BY <2>1, <2>2, ZenonT(60)
  <2>4. q[n] = IF n = 0 THEN << >> ELSE AddKey(q[n - 1], o[n])
    BY <1>6, <2>3, ZenonT(60) DEF N
  <2>5. n # 0 /\ n \in 1 .. N /\ n - 1 \in 0 .. N
    BY <1>1, <1>2, <2>3, <2>4, SMTT(60)
  <2>6. n - 1 \notin T
    BY <2>2, <2>5
  <2>7. q[n - 1] \in X
    BY <2>1, <2>5, <2>6, ZenonT(60)
  <2>8. AddKey(q[n - 1], o[n]) \in X
    BY <1>1, <2>5, <2>7, AddKeyType, ZenonT(60) DEF X
  <2> QED
    BY <2>3, <2>4, <2>5, <2>8, ZenonT(60)
<1>9. N \in 0 .. N
  BY <1>1
<1>10. q[N] \in X
  BY <1>8, <1>9, Zenon
<1> QED
  BY <1>7, <1>10, Zenon DEF N, X

LEMMA SplitTypes == \A o \in Owners : shc_split_buckets(o) \in Seq(Bucket)
<1>1. \A o \in Owners : o \in Seq(Nodes)
  BY ClientBounds, Zenon
<1> QED
  BY <1>1, SplitType, Zenon

-----------------------------------------------------------------------------
(* Every step keeps the invariant, and the theorems *)

LEMMA TaskSteps ==
  ASSUME ConnectionsInv, NEW t \in Tasks, Take(t) \/ Send(t) \/ SendFails(t) \/ Run(t) \/ Collect(t)
  PROVE  ConnectionsInv'
  BY TakeRunStep, SendStep, SendFailsStep, ReceiveStep, DropStep, ZenonT(60) DEF Collect

LEMMA PutSteps ==
  ASSUME ConnectionsInv, NEW a \in Actors, Discard(a) \/ Count(a) \/ Push(a)
  PROVE  ConnectionsInv'
  BY DiscardStep, CountStep, PushStep, ZenonT(60)

LEMMA NextKeeps == ConnectionsInv /\ [ClientNext]_clientVars => ConnectionsInv'
<1> SUFFICES ASSUME ConnectionsInv, [ClientNext]_clientVars PROVE ConnectionsInv'
  BY Zenon
<1>1. CASE UNCHANGED clientVars
  <2>1. sock' = sock /\ spare' = spare /\ call' = call /\ put' = put /\ task' = task
    BY <1>1, Zenon DEF clientVars
  <2>2. PICK w : Settled(w)
    BY Zenon DEF ConnectionsInv
  <2>3. Holds(w, sock', spare', call', put', task') /\ EmptyHanded(w)
    BY <2>1, <2>2, ZenonT(60) DEF Settled
  <2> QED
    BY <2>3, Resettled, ZenonT(60)
<1>2. CASE \E c \in Calls : Call(c)
  BY <1>2, CallStep, Zenon
<1>3. CASE \E o \in Owners : \E cmd \in {"get", "set"} : shardcache_client_multi(cmd, o)
  BY <1>3, SplitTypes, MultiStep, ZenonT(60)
<1>4. CASE \E n \in Nodes : getf(n)
  BY <1>4, GetfStep, Zenon
<1>5. CASE \E o \in Owners : get_multif(o)
  BY <1>5, SplitTypes, GetMultifStep, ZenonT(60)
<1>6. CASE Single /\ call.pc # "crashed"
  BY <1>6, NextNodeStep, WriteStep, WriteFailsStep, ReadStep, ReadTimeoutStep, ReadEofStep, ReadTornStep, ZenonT(60)
     DEF Single
<1>7. CASE Discard("main") \/ Count("main") \/ Push("main")
  <2>1. "main" \in Actors
    BY Zenon DEF Actors
  <2> QED
    BY <1>7, <2>1, PutSteps, ZenonT(60)
<1>8. CASE Send(0) \/ SendFails(0) \/ Run(0) \/ Collect(0)
  BY <1>8, ZeroTask, TaskSteps, ZenonT(60)
<1>9. CASE GiveUp
  BY <1>9, GiveUpStep, ZenonT(60)
<1>10. CASE AsyncThread
  <2>1. "async" \in Actors
    BY Zenon DEF Actors
  <2>2. \A t : t \in Tasks \ {0} => t \in Tasks
    BY ZenonT(60)
  <2> QED
    BY <1>10, <2>1, <2>2, PutSteps, TaskSteps, ZenonT(60) DEF AsyncThread
<1>11. CASE \E f \in Fds : NodeCloses(f)
  BY <1>11, NodeClosesStep, Zenon
<1> QED
  BY <1>1, <1>2, <1>3, <1>4, <1>5, <1>6, <1>7, <1>8, <1>9, <1>10, <1>11, ZenonT(60) DEF ClientNext

(* The connections of the client are where the invariant says, at all times: for
   any nodes, descriptors, commands, numbers of keys and jobs, whatever the nodes
   answer or close. *)
THEOREM ConnectionsKept == ClientSpec => []ConnectionsInv
<1>1. ClientInit => ConnectionsInv
  BY InitHolds, Zenon
<1>2. ConnectionsInv /\ [ClientNext]_clientVars => ConnectionsInv'
  BY NextKeeps, Zenon
<1> QED
  BY <1>1, <1>2, PTL DEF ClientSpec

(* A connection of the pool, of a call, of a get_multi or of a job of async_thread
   has one user: connections_pool_get, connections_pool_add and the ways out of
   every command give none of them away twice, and leave only those of a failed
   shardcache_client_get_async open without a user. *)
THEOREM ConnectionsHaveOneHolder == ClientSpec => []OneHolder
  BY ConnectionsKept, HeldOnce, PTL

(* Nobody reads what was sent to somebody else: on a connection whose command did
   not hide a failure, and which is not about to be closed, what is under way are
   answers its user waits for. *)
THEOREM AnswersReachTheirReader == ClientSpec => []OwnAnswer
  BY ConnectionsKept, AnswersAreOwn, PTL

(* connections_pool_add, with its test of the length and its push apart: the two
   threads together go over max_spare by one connection at most. *)
THEOREM SpareConnectionsBounded == ClientSpec => []SpareBound
  BY ConnectionsKept, PoolIsBounded, PTL
=============================================================================
